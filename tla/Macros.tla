------------------------------- MODULE Macros -------------------------------
(***************************************************************************)
(* How JOVE reads keys and runs commands: typed keys, pushed back keys,    *)
(* lines of a joverc and running macros (jove.c, macros.c, keymaps.c), the *)
(* loops that dispatch them (DoKeys, real_ask, dispatch_macros, joverc),   *)
(* and the keyboard macro that is recorded on the way.                     *)
(*                                                                         *)
(* A key stands for what it is bound to: "x" for a command that needs no   *)
(* more, "q" for one that asks in the minibuffer, "s" for incremental      *)
(* search, "!" for one that complains, "p" for one that calls do_find      *)
(* (ErrParse), "m" execute-macro, "d" define-macro, "n" name-kbd-macro,    *)
(* "i" make-macro-interactive; after "C-x" come "(", ")" and "e".  There   *)
(* is one named macro.  A step is the reading of one key, with all that    *)
(* JOVE does until it wants the next.                                      *)
(***************************************************************************)
EXTENDS Integers, Sequences, SequencesExt, FiniteSetsExt

CONSTANTS
  Bodies,       \* what define-macro may be given
  Sessions      \* bounds of the model: the lines of the joverc, and how often each key is typed

VARIABLES
  loops,              \* the loops that run, innermost first (Frame)
  want,               \* what the next key is for
  rc, Inputp,         \* lines of the joverc still to be read, rest of this one
  peekchar,
  mac_stack,          \* threads, the running one first
  kmac, m_len, named, \* body of the keyboard macro, its length; body of the other
  InMacDefine, Interactive,
  arg, this_cmd,
  seen,               \* not in the program: what was done while defining and replaying
  left

vars == <<loops, want, rc, Inputp, peekchar, mac_stack, kmac, m_len, named, InMacDefine,
          Interactive, arg, this_cmd, seen, left>>

NULL == "none"
EOF == "EOF"
NoArg == [state |-> "none", count |-> 1]
\* DoKeys ("keys"), real_ask ("ask"), dispatch_macros ("drain") or joverc ("rc");
\* what is asked for, and the argument that is saved meanwhile
Frame(loop, what, saved) == [loop |-> loop, what |-> what, saved |-> saved]
\* wrong: what was done is not what a replay is to be compared with; level: the
\* loops in which the definition was begun; alien: the first key of the command, or
\* that after its argument, was not typed just then but pushed back or read from a
\* macro.
Unseen == [wrong |-> FALSE, level |-> <<>>, done |-> <<>>, redone |-> <<>>, watch |-> "no",
           alien |-> FALSE, ended |-> FALSE]

State == [loops |-> loops, want |-> want, rc |-> rc, inp |-> Inputp, peek |-> peekchar,
          stack |-> mac_stack, kmac |-> kmac, len |-> m_len, named |-> named,
          def |-> InMacDefine, inter |-> Interactive, arg |-> arg, cmd |-> this_cmd,
          seen |-> seen,
          \* the key that was read, not typed just now (alien)
          got |-> NULL, alien |-> TRUE]
Becomes(results) == \E s \in results :
  /\ loops' = s.loops /\ want' = s.want /\ rc' = s.rc /\ Inputp' = s.inp /\ peekchar' = s.peek
  /\ mac_stack' = s.stack /\ kmac' = s.kmac /\ m_len' = s.len /\ named' = s.named
  /\ InMacDefine' = s.def /\ Interactive' = s.inter /\ arg' = s.arg
  /\ this_cmd' = s.cmd /\ seen' = s.seen

Names(s) == [i \in DOMAIN s.loops |-> s.loops[i].loop]
Loop(s) == Head(s.loops).loop
InJoverc(s) == Contains(Names(s), "rc")
InRealAsk(s) == Contains(Names(s), "ask")
in_macro(s) == s.stack # <<>>
Length(s, mac) == IF mac = "keyboard-macro" THEN s.len ELSE Len(s.named)
-----------------------------------------------------------------------------
(* Errors                                                                  *)

Unwound(s) == [s EXCEPT !.stack = <<>>, !.seen.watch = IF @ = "yes" THEN "failed" ELSE "no"]
\* The loop of a question ends (real_ask).
Cleanup(s) == [s EXCEPT !.loops = Tail(@), !.arg = Head(s.loops).saved, !.inter = FALSE]
\* To the innermost loop that catches errors.  A question of a joverc is given
\* up, any other goes on, and so do the macros that run in it.
RECURSIVE complain(_)
complain(s) ==
  LET r == [s EXCEPT !.want = "loop", !.cmd = "other", !.seen.wrong = @ \/ s.def]
  IN CASE Loop(s) = "keys" -> Unwound(r)
       [] Loop(s) = "ask" -> IF InJoverc(s) THEN complain(Cleanup(s)) ELSE r
       [] Loop(s) = "drain" -> complain([s EXCEPT !.loops = Tail(@)])
       [] Loop(s) = "rc" -> [Unwound(r) EXCEPT !.inp = <<>>, !.want = "next"]
-----------------------------------------------------------------------------
(* Macros                                                                  *)

push_macro_stack(s, mac, count) ==
  IF \E i \in DOMAIN s.stack : s.stack[i].mac = mac THEN complain(s)
  ELSE [s EXCEPT !.stack = <<[mac |-> mac, off |-> 0, count |-> count]>> \o @]

\* Slip: the count is not decremented.
RECURSIVE RewoundSlip(_)
RewoundSlip(s) ==
  IF s.stack = <<>> THEN s
  ELSE LET t == Head(s.stack)
       IN IF t.off # Length(s, t.mac) THEN s
          ELSE IF t.off = 0 THEN RewoundSlip([s EXCEPT !.stack = Tail(@)]) ELSE [s EXCEPT !.stack[1].off = 0]
\* mac_getc, as far as it takes threads that have ended from the stack
RECURSIVE Rewound(_)
Rewound(s) ==
  IF s.stack = <<>> THEN s
  ELSE LET t == Head(s.stack)
           n == Length(s, t.mac)
           over == [s EXCEPT !.stack = Tail(@),
                      !.seen.watch = IF t.mac = "keyboard-macro" /\ @ = "yes"
                                       THEN IF s.want = "loop" THEN "over" ELSE "failed" ELSE @]
       IN IF t.off # n THEN s
          ELSE IF n = 0 \/ t.count = 1 THEN Rewound(over)
          ELSE [s EXCEPT !.stack[1].off = 0, !.stack[1].count = @ - 1]

\* (Threads of the macro are where they were in its old body.)
MacDef(s, body) ==
  [s EXCEPT !.named = body, !.seen.wrong = TRUE]

mac_putc(s, c) == [s EXCEPT !.kmac = Append(@, c)]
\* Slip: the key that is dispatched is in the macro.
note_dispatchSlip(s) == [s EXCEPT !.len = Len(s.kmac)]
note_dispatch(s) == IF s.kmac = <<>> THEN s ELSE [s EXCEPT !.len = Len(s.kmac) - 1]

Remember(s) ==
  IF in_macro(s) \/ InJoverc(s) THEN complain(s)
  ELSE IF s.def THEN [s EXCEPT !.seen.wrong = TRUE]      \* (and what is recorded complains)
  ELSE [s EXCEPT !.def = TRUE, !.kmac = <<>>, !.len = 0, !.seen = [Unseen EXCEPT !.level = Names(s), !.wrong = s.inter]]
Forget(s) ==
  IF ~s.def THEN complain(s)
  ELSE [s EXCEPT !.def = FALSE, !.seen.ended = TRUE,
                 !.seen.wrong = @ \/ s.seen.alien \/ Names(s) # s.seen.level \/ in_macro(s)]
ExecMacro(s) ==
  LET begins == s.stack = <<>> /\ ~s.inter /\ ~s.def /\ s.seen.ended /\ s.arg.count = 1 /\ Names(s) = s.seen.level
  IN push_macro_stack(
       IF begins THEN [s EXCEPT !.seen.watch = "yes", !.seen.redone = <<>>]
       ELSE [s EXCEPT !.seen.watch = "no", !.seen.wrong = @ \/ s.def \/ in_macro(s)],
       "keyboard-macro", s.arg.count)
-----------------------------------------------------------------------------
(* Commands                                                                *)

\* What was done is remembered while defining and while replaying.
Noted(s, what) ==
  IF s.seen.wrong THEN s
  ELSE IF s.seen.watch = "yes" THEN [s EXCEPT !.seen.redone = Append(@, what)]
  ELSE IF s.def THEN [s EXCEPT !.seen.done = Append(@, what)] ELSE s

ask(s, what) ==
  IF InRealAsk(s) THEN complain(s)
  ELSE [s EXCEPT !.loops = <<Frame("ask", what, s.arg)>> \o @, !.cmd = "other"]
dispatch_macros(s) == [s EXCEPT !.loops = <<Frame("drain", NULL, s.arg)>> \o @, !.cmd = "other"]
TimesFour(s) ==
  [s EXCEPT !.want = "arg", !.arg = [state |-> "times", count |-> IF @.state = "times" THEN @.count * 4 ELSE 4]]

Command(s, c) ==
  LET n == Noted(s, <<c, s.arg.count>>)
  IN CASE c \in {"x", "RET", "(", ")", "e"} -> n
       [] c = "C-u" -> TimesFour(s)
       [] c = "C-x" -> [s EXCEPT !.want = "prefix"]
       [] c = "q" -> ask(n, "file")
       [] c = "d" -> ask(n, "body")
       [] c = "n" -> IF s.len = 0 \/ in_macro(s) \/ s.def THEN complain(s) ELSE ask(n, "name")
       [] c = "s" -> [n EXCEPT !.want = "search"]
       [] c = "i" -> [n EXCEPT !.inter = @ \/ InRealAsk(s), !.seen.wrong = @ \/ InRealAsk(s)]
       [] c = "p" -> dispatch_macros([n EXCEPT !.seen.wrong = TRUE])
       [] c = "m" -> push_macro_stack(n, "named", s.arg.count)
       [] c \in {"!", "C-g"} -> complain(s)
       [] c = EOF -> [s EXCEPT !.arg = NoArg]
Prefixed(s, c) ==
  CASE c = "(" -> Remember(s)
    [] c = ")" -> Forget(s)
    [] c = "e" -> ExecMacro(s)
    [] OTHER -> [Noted(s, <<"C-x", c>>) EXCEPT !.arg = NoArg]

\* A loop begins with cmd_sync.
cmd_sync(s) == IF s.cmd = "arg" THEN s ELSE [s EXCEPT !.arg = NoArg]
dispatch(s, c) ==
  LET n == IF s.def THEN note_dispatch(s) ELSE s
  IN Command([n EXCEPT !.cmd = "other",
                       !.seen.alien = s.alien], c)
-----------------------------------------------------------------------------
(* Reading                                                                 *)

Pushed(s, c) == [s EXCEPT !.peek = IF c = EOF THEN NULL ELSE c, !.want = "loop"]
\* peek_or_mac_getch: got is NULL if there is nothing.
peek_or_mac_getch(s) ==
  IF s.peek # NULL THEN [s EXCEPT !.got = s.peek, !.peek = NULL]
  ELSE IF s.inter THEN s
  ELSE LET r == Rewound(s)
           t == Head(r.stack)
       IN IF r.stack = <<>> THEN r
          ELSE [r EXCEPT !.stack[1].off = @ + 1,
                         !.got = (IF t.mac = "keyboard-macro" THEN r.kmac ELSE r.named)[t.off + 1]]
\* getch, but for what is typed
Given(s) ==
  IF Loop(s) = "drain" /\ s.want = "loop" THEN peek_or_mac_getch(cmd_sync(s))
  ELSE IF s.inp # <<>> THEN [s EXCEPT !.got = Head(s.inp), !.inp = Tail(@)]
  ELSE LET r == [(IF s.want = "loop" THEN cmd_sync(s) ELSE s) EXCEPT !.inp = <<>>]
           g == peek_or_mac_getch(r)
       IN IF ~InJoverc(s) THEN g
          ELSE IF ~in_macro(s) THEN [complain(r) EXCEPT !.got = "error"]
          ELSE IF g.got = NULL THEN [g EXCEPT !.got = EOF] ELSE g
\* A typed key is recorded.
Typed(s, c) == [(IF s.def /\ ~s.inter THEN mac_putc(s, c) ELSE s) EXCEPT !.alien = FALSE]

\* What becomes of the state when the key c has been read.
Answer(s) ==
  LET a == Cleanup(Noted(s, <<"answer">>))
      what == Head(s.loops).what
  IN IF what = "body" THEN {MacDef(a, b) : b \in Bodies}
     ELSE IF what = "name" THEN {MacDef(a, SubSeq(a.kmac, 1, a.len))} ELSE {a}
Search(s, c) ==
  CASE c \in {"x", "s"} -> Noted(s, <<"search", c>>)
    [] c \in {"RET", "C-g"} -> [Noted(s, <<"search", c>>) EXCEPT !.want = "loop"]
    [] OTHER -> Pushed(Noted(s, <<"found">>), c)
Use(s, c) ==
  LET l == [s EXCEPT !.want = "loop"]
  IN CASE s.want = "prefix" -> {IF c = "C-g" THEN l ELSE Prefixed(l, c)}
       [] s.want = "arg" -> {IF c = "C-u" THEN TimesFour(s) ELSE [Pushed(s, c) EXCEPT !.cmd = "arg"]}
       [] s.want = "search" -> {Search(s, c)}
       [] s.want = "loop" /\ Loop(s) = "ask" /\ c = "RET" -> Answer(s)
       [] s.want = "loop" /\ Loop(s) = "ask" /\ c = "C-g" -> {complain(Cleanup(s))}
       [] OTHER -> {dispatch(s, c)}

\* A thread whose macro has been given another body may be beyond the end of it:
\* what is read then is undefined, and not followed.
Defined == \A i \in DOMAIN mac_stack : mac_stack[i].off <= Length(State, mac_stack[i].mac)

\* The end of dispatch_macros
Drained(s) == [s EXCEPT !.loops = Tail(@), !.arg = Head(s.loops).saved,
                        !.want = IF s.loops[2].loop = "rc" THEN "next" ELSE "loop"]
Got(g) ==
  IF g.got = "error" THEN Becomes({g}) ELSE Becomes(Use(g, g.got))
Run ==
  /\ Defined /\ (Loop(State) = "rc" => want \notin {"loop", "next", "line"})
  /\ \E g \in {Given(State)} :
       IF g.got # NULL THEN Got(g)
       ELSE Loop(g) = "drain" /\ g.want = "loop" /\ Becomes({Drained(g)})
  /\ UNCHANGED left

\* A key is typed when nothing else is to be read.
Type(c) ==
  /\ Defined /\ ~InJoverc(State) /\ left[c] > 0 /\ left' = [left EXCEPT ![c] = @ - 1]
  /\ \E g \in {Given(State)} :
       /\ g.got = NULL /\ ~(Loop(g) = "drain" /\ g.want = "loop")
       /\ Becomes(Use(Typed(g, c), c))
-----------------------------------------------------------------------------
(* joverc: the commands of a line, then the macros they have begun         *)

RcLine ==
  /\ Loop(State) = "rc" /\ want = "next"
  /\ IF rc = <<>> THEN Becomes({[State EXCEPT !.loops = Tail(@), !.want = "loop"]})
     ELSE Becomes({[State EXCEPT !.rc = Tail(@), !.inp = Append(Head(rc), "RET"), !.want = "line"]})
  /\ UNCHANGED left
RcCommand ==
  /\ Loop(State) = "rc" /\ want \in {"line", "loop"}
  /\ LET s == IF peekchar = NULL THEN State
              ELSE [State EXCEPT !.peek = NULL, !.inp = IF peekchar = "RET" \/ @ # <<>> THEN <<peekchar>> \o @ ELSE @]
         junk == peekchar \notin {NULL, "RET"} /\ Inputp = <<>>
         over == s.inp = <<>> \/ Head(s.inp) = "RET"
     IN IF want = "line" \/ (~junk /\ ~over /\ this_cmd = "arg")
        THEN Becomes({Command([cmd_sync(s) EXCEPT !.cmd = "other", !.want = "loop", !.inp = Tail(@)], Head(s.inp))})
        ELSE IF junk \/ ~over THEN Becomes({complain(s)})
        ELSE Becomes({dispatch_macros([s EXCEPT !.inp = <<>>, !.want = "loop"])})
  /\ UNCHANGED left

Keys == {"x", "RET", "C-u", "C-x", "(", ")", "e", "q", "d", "n", "s", "i", "p", "m", "!", "C-g"}
\* Bound of the model: what is typed after C-x is a command there, or aborts.
Sensible(c) == IF want = "prefix" THEN c \in {"(", ")", "e", "C-g"} ELSE c \notin {"(", ")", "e"}

Init ==
  /\ \E session \in Sessions : rc = session.rc /\ left = session.keys
  /\ loops = <<Frame("rc", NULL, NoArg), Frame("keys", NULL, NoArg)>> /\ want = "next"
  /\ Inputp = <<>> /\ peekchar = NULL
  /\ mac_stack = <<>> /\ kmac = <<>> /\ m_len = 0 /\ named = <<>>
  /\ InMacDefine = FALSE /\ Interactive = FALSE
  /\ arg = NoArg /\ this_cmd = "other" /\ seen = Unseen

Next == Run \/ RcLine \/ RcCommand \/ \E c \in Keys : Sensible(c) /\ Type(c)

\* The program goes on whenever it need not wait for a key.
Spec == Init /\ [][Next]_vars /\ WF_vars(Run \/ RcLine \/ RcCommand)
-----------------------------------------------------------------------------
(* Properties                                                              *)

\* "The keyboard macro is defined and also has been, in effect, executed once"
\* (teach-jove): executing it does what was done while it was defined, if it was
\* defined at one level, without an error, without executing it, beginning it
\* again or reading a parameter, and the key that ended it was not pushed back or
\* from a macro.
Replays ==
  ~seen.wrong => /\ seen.watch # "failed"
                 /\ seen.watch = "over" => seen.redone = seen.done

\* Macros end, unless they ask the user for a parameter, or are redefined.
MacrosEnd ==
  LET running == Rewound(State).stack # <<>>
  IN running ~> (~running \/ Interactive \/ ~Defined)
=============================================================================
