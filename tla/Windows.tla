------------------------------ MODULE Windows -------------------------------
(***************************************************************************)
(* Buffers, the windows that show them, and the questions asked in the     *)
(* minibuffer (buf.c, wind.c, ask.c, and resize of disp.c, Recur of jove.c *)
(* and find_tag of reapp.c).                                               *)
(*                                                                         *)
(* A command is one step, unless it asks something: then the keys typed    *)
(* for an answer are commands too, and they may select buffers and delete  *)
(* windows before the command that asked goes on with what it has kept.    *)
(* A question within a question is refused.  The screen may change its     *)
(* size whenever a key is awaited.  Routines are functions of the record s *)
(* of the variables.  A Buffer that is deleted is kept in free_bufs, to be *)
(* the next one that is made.  What buffers contain is not modelled.       *)
(***************************************************************************)
EXTENDS Integers, Sequences, SequencesExt, FiniteSets

CONSTANTS
  File,       \* names of files
  UserName,   \* names a user gives to buffers
  Bounds      \* bounds of the model, of which a behaviour keeps to one: how many buffers
              \* (bufs) and windows (winds) at a time, whether a recursive edit (depth),
              \* the sizes of the screen in lines, without the message line, and which
              \* of UserName the user gives (names)

ASSUME WindowsAssumption ==
  \A b \in Bounds : /\ b.bufs \in Nat \ {0} /\ b.winds \in Nat /\ b.depth \in {0, 1}
                     /\ b.sizes \subseteq Nat \ {0, 1} /\ b.sizes # {}
                     /\ b.names \subseteq UserName

NBufs == Max({b.bufs : b \in Bounds})

(* There is a largest bound.                                               *)
ASSUME BoundsAssumption == NBufs \in Nat /\ \A b \in Bounds : b.bufs <= NBufs

NULL   == 0
NoFile == ""

(* A name and the number that bufname has put behind it.                   *)
Mainbuf == <<"Main", 0>>
Minibuf == <<"*minibuf*", 0>>
BufferList == <<"Buffer list", 0>>

Struct == 1..(NBufs + 2)

VARIABLES
  world,              \* the list of buffers
  free_bufs,          \* deleted ones, the last first
  b_name, b_fname, b_type,
  curbuf, lastbuf,    \* the current buffer and the alternate one
  AskBuffer,          \* the minibuffer, as get_minibuf last made it
  windows,            \* the windows from fwind on
  curwind,            \* the index of the current one
  Asking, saveb,      \* whether real_ask awaits a key, and the buffer to go back to
  hung,               \* whether delb_wind goes on forever
  asker,              \* the command that asked, with what it keeps
  ILI,                \* the lines there are for windows
  recur,              \* the buffer that Recur is to return to
  bounds              \* not in the program: the one of Bounds

vars == <<world, free_bufs, b_name, b_fname, b_type, curbuf, lastbuf, AskBuffer, windows,
          curwind, Asking, saveb, hung, asker, ILI, recur, bounds>>

State == [world |-> world, free |-> free_bufs, name |-> b_name, file |-> b_fname,
          type |-> b_type, cur |-> curbuf, last |-> lastbuf, mini |-> AskBuffer,
          wins |-> windows, win |-> curwind, asking |-> Asking, saveb |-> saveb,
          hung |-> hung]

Becomes(s) ==
  /\ ~hung
  /\ Len(s.world) <= bounds.bufs /\ Len(s.wins) <= bounds.winds /\ bounds' = bounds
  /\ world' = s.world /\ free_bufs' = s.free
  /\ b_name' = s.name /\ b_fname' = s.file /\ b_type' = s.type
  /\ curbuf' = s.cur /\ lastbuf' = s.last /\ AskBuffer' = s.mini
  /\ windows' = s.wins /\ curwind' = s.win
  /\ Asking' = s.asking /\ saveb' = s.saveb
  /\ hung' = s.hung

-----------------------------------------------------------------------------
(* Buffers.                                                                *)

valid_bp(s, b) == b \in ToSet(s.world)

NthBuf(s, k) == IF k = 0 THEN NULL ELSE s.world[k]

buf_exists(s, n) == NthBuf(s, SelectInSeq(s.world, LAMBDA b : s.name[b] = n))

(* do_stat, for a file that no other name leads to.                        *)
visiting(s, f) == NthBuf(s, SelectInSeq(s.world, LAMBDA b : s.file[b] = f))

b_next(s, b) ==
  LET k == SelectInSeq(s.world, LAMBDA c : c = b)
  IN  IF k = Len(s.world) THEN NULL ELSE s.world[k + 1]

(* A new buffer is the one deleted last, or a new one if all are in use.   *)
mak_buf(s, n, f) ==
  LET b == IF s.free = <<>> THEN Len(s.world) + 1 ELSE Head(s.free)
  IN  [s EXCEPT !.world = Append(@, b), !.free = IF @ = <<>> THEN @ ELSE Tail(@),
                !.name[b] = n, !.file[b] = f, !.type[b] = "file"]

bufname(s, f) ==
  LET Free(n) == buf_exists(s, <<f, n>>) = NULL
  IN  <<f, CHOOSE n \in 0..NBufs : Free(n) /\ \A m \in 0..(n - 1) : ~Free(m)>>

SetBuf(s, b) == IF b = NULL THEN s ELSE [s EXCEPT !.cur = b]

SetABuf(s, b) == IF b = NULL THEN s ELSE [s EXCEPT !.last = b]

tiewind(s, w, b) == [s EXCEPT !.wins[w].buf = b]

(* do_select: the buffer of that name, which is made if there is none.     *)
Named(s, n) == IF buf_exists(s, n) = NULL THEN mak_buf(s, n, NoFile) ELSE s

TieNamed(s, w, n) == tiewind(s, w, buf_exists(s, n))

do_select(s, w, n) == TieNamed(Named(s, n), w, n)

(* do_find: likewise for a file.                                           *)
Found(s, f) == IF visiting(s, f) = NULL THEN mak_buf(s, bufname(s, f), f) ELSE s

TieFound(s, w, f) == tiewind(s, w, visiting(s, f))

do_find(s, w, f) == TieFound(Found(s, f), w, f)

-----------------------------------------------------------------------------
(* Windows.                                                                *)

one_windp(s) == Len(s.wins) = 1
w_next(s, w) == IF w = Len(s.wins) THEN 1 ELSE w + 1
w_prev(s, w) == IF w = 1 THEN Len(s.wins) ELSE w - 1

Leave(s) == IF s.asking \/ s.cur = NULL THEN s ELSE tiewind(s, s.win, s.cur)

SetWindSlip(s, w) ==
  IF w = s.win THEN s ELSE [Leave(s) EXCEPT !.win = w]

SetWind(s, w) ==
  IF w = s.win THEN Leave(s)
  ELSE [SetBuf(Leave(s), Leave(s).wins[w].buf) EXCEPT !.win = w]

Unlinked(s, w) ==
  [s EXCEPT !.wins = RemoveAt(@, w), !.win = IF @ > w THEN @ - 1 ELSE @]

(* del_wind: the window above gets the space, or the one below the first.  *)
del_wind(s, w) ==
  LET heir == IF w = 1 THEN 2 ELSE w - 1
      t    == [s EXCEPT !.wins[heir].h = @ + s.wins[w].h]
  IN  Unlinked(IF s.win = w THEN SetWind(t, heir) ELSE t, w)

(* div_wind puts n windows below w, all of one height.                     *)
Splits(s, n) == s.wins[s.win].h \div (n + 1) >= 2

div_wind(s, n) ==
  LET w   == s.win
      amt == s.wins[w].h \div (n + 1)
      old == [s.wins[w] EXCEPT !.h = @ - n * amt]
      new == [k \in 1..n |-> [s.wins[w] EXCEPT !.h = amt]]
  IN  [s EXCEPT !.wins = SubSeq(@, 1, w - 1) \o <<old>> \o new \o SubSeq(@, w + 1, Len(@))]

(* w_nam_typ: the first window with the buffer of that name, or with one   *)
(* of that type.  pop_wind asks for no type when the buffer exists.        *)
w_nam_typ(s, n, btype) ==
  LET b == buf_exists(s, n)
      k == SelectInSeq(s.wins, LAMBDA w : w.buf = b)
  IN  IF b # NULL THEN k ELSE SelectInSeq(s.wins, LAMBDA w : s.type[w.buf] = btype)

(* Why pop_wind complains: a window too small to split, or a question.     *)
Pops(s, n, btype) ==
  w_nam_typ(s, n, btype) = 0 => IF one_windp(s) THEN Splits(s, 1) ELSE ~s.asking

PopTo(s, k) ==
  IF k # 0 THEN SetWind(s, k)
  ELSE IF one_windp(s) THEN SetWind(div_wind(s, 1), s.win + 1)
  ELSE SetWind(s, w_prev(s, s.win))

PopNamed(s, n) == SetBuf(TieNamed(s, s.win, n), buf_exists(s, n))

Typed(s, n, btype) == [s EXCEPT !.type[buf_exists(s, n)] = btype]

pop_wind(s, n, btype) ==
  LET t == PopTo(s, w_nam_typ(s, n, btype))
  IN  IF buf_exists(s, n) # NULL \/ btype = "none" THEN PopNamed(Named(t, n), n)
      ELSE Typed(PopNamed(Named(t, n), n), n, btype)

-----------------------------------------------------------------------------
(* kill_buf.                                                               *)

(* The buffer that is to be shown instead.  own is set for delb_wind's own *)
(* Mainbuf: then windows are deleted, unless there is only one.            *)
Alt(s, b) ==
  IF s.last \notin {NULL, b} THEN [name |-> s.name[s.last], own |-> FALSE]
  ELSE IF b_next(s, b) # NULL THEN [name |-> s.name[b_next(s, b)], own |-> FALSE]
  ELSE [name |-> Mainbuf, own |-> TRUE]

(* One turn of delb_wind's loop, at window p.at.                           *)
Turned(s, at, b) == [st |-> s, at |-> at, more |-> at # 1 \/ s.wins[at].buf = b]

Turn(p, b, alt) ==
  LET s == p.st
      w == p.at
  IN  IF s.wins[w].buf # b THEN Turned(s, w_next(s, w), b)
      ELSE IF one_windp(s) \/ ~alt.own
           THEN Turned(do_select(s, w, alt.name), w_next(s, w), b)
           ELSE Turned(del_wind(s, w), IF w = Len(s.wins) THEN 1 ELSE w, b)

NextTurn(p, b, alt) == IF p.more THEN Turn(p, b, alt) ELSE p

(* With nothing to delete a turn changes nothing: two rounds are all.      *)
delb_wind(s, b) ==
  LET Turns[k \in 0..(2 * Len(s.wins))] ==
        IF k = 0 THEN [st |-> s, at |-> 1, more |-> TRUE]
        ELSE NextTurn(Turns[k - 1], b, Alt(s, b))
  IN  Turns[2 * Len(s.wins)]

ForgetSlip(s, b) ==
  [s EXCEPT !.cur = IF @ = b THEN s.wins[s.win].buf ELSE @]

Forget(s, b) ==
  LET cur == IF s.cur = b THEN NULL ELSE s.cur
  IN  [s EXCEPT !.last = IF @ = b THEN cur ELSE @,
                !.cur = IF cur = NULL THEN s.wins[s.win].buf ELSE cur]

Freed(s, b) ==
  [s EXCEPT !.world = RemoveFirst(@, b), !.free = <<b>> \o @,
            !.name[b] = <<>>, !.file[b] = NoFile, !.type[b] = "none"]

Killed(p, b) ==
  IF p.more THEN [p.st EXCEPT !.hung = TRUE] ELSE Freed(Forget(p.st, b), b)

kill_buf(s, b) == Killed(delb_wind(s, b), b)

-----------------------------------------------------------------------------
(* Questions.                                                              *)

(* get_minibuf: the minibuffer, if AskBuffer is still a buffer.            *)
NewMini(s, b) ==
  [s EXCEPT !.mini = b, !.type[b] = "scratch"]

MiniOf(s) == NewMini(s, buf_exists(s, Minibuf))

get_minibuf(s) == IF valid_bp(s, s.mini) THEN s ELSE MiniOf(Named(s, Minibuf))

(* real_ask, up to where it awaits a key.                                  *)
InMini(s, from) == [SetBuf(s, s.mini) EXCEPT !.asking = TRUE, !.saveb = from]

real_ask(s) == InMini(get_minibuf(s), s.cur)

(* real_ask's cleanup.                                                     *)
Answered(s) == [SetBuf(s, s.saveb) EXCEPT !.asking = FALSE, !.saveb = NULL]

(* DoKeys catches a complaint.                                             *)
Complained(s) == tiewind(s, s.win, s.cur)

Nobody == [cmd |-> "none", buf |-> NULL, next |-> NULL]

Asks(cmd, b, nxt) == [cmd |-> cmd, buf |-> b, next |-> nxt]

Question(s, by) == Becomes(real_ask(s)) /\ asker' = by /\ UNCHANGED <<ILI, recur>>

(* The end of the command that asked.                                      *)
Ends(s) == Becomes(s) /\ asker' = Nobody /\ UNCHANGED <<ILI, recur>>

InReplyTo(cmd) == Asking /\ asker.cmd = cmd

(* A command that asks nothing.  Typed for an answer, real_ask makes the   *)
(* minibuffer current again after it.                                      *)
dispatch(s) == IF s.asking THEN SetBuf(s, s.mini) ELSE s

Command(s) == Becomes(dispatch(s)) /\ UNCHANGED <<asker, ILI, recur>>

-----------------------------------------------------------------------------
(* Commands that ask nothing.                                              *)

Init ==
  /\ world = <<1>> /\ free_bufs = <<>>
  /\ b_name = [b \in Struct |-> IF b = 1 THEN Mainbuf ELSE <<>>]
  /\ b_fname = [b \in Struct |-> NoFile]
  /\ b_type = [b \in Struct |-> IF b = 1 THEN "file" ELSE "none"]
  /\ curbuf = 1 /\ lastbuf = NULL /\ AskBuffer = NULL
  /\ bounds \in Bounds /\ ILI \in bounds.sizes
  /\ windows = <<[buf |-> 1, h |-> ILI]>> /\ curwind = 1
  /\ Asking = FALSE /\ saveb = NULL
  /\ hung = FALSE
  /\ asker = Nobody /\ recur = NULL

BufNSelect(n) ==
  /\ n <= Len(world)
  /\ Command(SetBuf(tiewind(SetABuf(State, curbuf), curwind, world[n]), world[n]))

(* find_tag, for a tag that is found.                                      *)
Tagged(s, f) ==
  LET b == visiting(s, f) IN SetBuf(IF s.cur = b THEN s ELSE SetABuf(s, s.cur), b)

find_tag(s, f) == Tagged(do_find(s, s.win, f), f)

FDotTag(f) == Command(find_tag(State, f))

(* BufList, when typeout is sent to buffers: TOstart and TOstop.           *)
BufList ==
  /\ Pops(State, BufferList, "scratch")
  /\ Command(SetWind(pop_wind(State, BufferList, "scratch"), curwind))

SplitWind(n) ==
  /\ Splits(State, n)
  /\ Command(SetWind(div_wind(State, n), curwind + n))

DelCurWindow ==
  /\ ~one_windp(State)
  /\ Command(del_wind(SetABuf(State, windows[curwind].buf), curwind))

OneWindow ==
  LET Only[n \in 0..Len(windows) - 1] ==
        IF n = 0 THEN State
        ELSE LET s == Only[n - 1] IN del_wind(s, w_next(s, s.win))
  IN  /\ ~one_windp(State)
      /\ Command(Only[Len(windows) - 1])

NextWindow == ~Asking /\ ~one_windp(State) /\ Command(SetWind(State, w_next(State, curwind)))

PrevWindow == ~Asking /\ ~one_windp(State) /\ Command(SetWind(State, w_prev(State, curwind)))

(* WindSize: space from or for the window above, which keeps two lines.    *)
WindSize(inc) ==
  LET up == w_prev(State, curwind)
  IN  /\ ~one_windp(State)
      /\ windows[IF inc < 0 THEN curwind ELSE up].h - (IF inc < 0 THEN -inc ELSE inc) >= 2
      /\ Command([State EXCEPT !.wins[curwind].h = @ + inc, !.wins[up].h = @ - inc])

(* The end of WindFind: what the command has selected goes to the next     *)
(* window, and this one shows what it did before.                          *)
ShowNext(s, nbuf) ==
  LET nx == w_next(s, s.win) IN SetWind(tiewind(s, nx, nbuf), nx)

HasNext(s) == ~one_windp(s) \/ Splits(s, 1)

MovedOver(s, obuf) ==
  LET t == SetBuf(s, obuf)
  IN  IF ~one_windp(s) THEN ShowNext(t, s.cur)
      ELSE IF HasNext(s) THEN ShowNext(div_wind(t, 1), s.cur)
      ELSE IF s.asking THEN t ELSE Complained(t)

WindFindTag(f) ==
  LET s == MovedOver(find_tag(State, f), curbuf)
  IN  Becomes(IF HasNext(State) THEN dispatch(s) ELSE s) /\ UNCHANGED <<asker, ILI, recur>>

(* A command that fails before it has done anything.  When an answer is    *)
(* typed that leaves everything as it is.                                  *)
Complain == ~Asking /\ Command(Complained(State))

-----------------------------------------------------------------------------
(* Commands that ask.                                                      *)

Name == {b_name[b] : b \in ToSet(world)} \cup bounds.names \X {0}

(* Most keep nothing while they ask, and which of them asks is left open   *)
(* until it has the answer.  WindFind keeps the current buffer, and        *)
(* KillSome the buffer it asks of and the next.                            *)
Prompt ==
  /\ ~Asking
  /\ \/ Question(State, Asks("any", NULL, NULL))
     \/ Question(State, Asks("window", curbuf, NULL))
     \/ Question(State, Asks("some", world[1], b_next(State, world[1])))

Abort == Asking /\ Ends(Complained(Answered(State)))

(* For a command that does nothing to buffers or windows.                  *)
AnyAnswer == InReplyTo("any") /\ Ends(Answered(State))

Selected(s, n) ==
  LET t == do_select(SetABuf(s, s.cur), s.win, n) IN SetBuf(t, buf_exists(t, n))

BufSelect(n) == InReplyTo("any") /\ Ends(Selected(Answered(State), n))

Visited(s, f) == SetBuf(s, visiting(s, f))

FindFile(s, f) == Visited(do_find(SetABuf(s, s.cur), s.win, f), f)

FindFileReply(f) == InReplyTo("any") /\ Ends(FindFile(Answered(State), f))

WindFind ==
  \/ \E n \in Name :
       InReplyTo("window") /\ Ends(MovedOver(Selected(Answered(State), n), asker.buf))
  \/ \E f \in File :
       InReplyTo("window") /\ Ends(MovedOver(FindFile(Answered(State), f), asker.buf))

(* The windows from the next on; the current one only if it is alone.      *)
Going(s, n) ==
  LET others == {w \in 1..Len(s.wins) : one_windp(s) \/ w # s.win}
      shows  == {w \in others : s.wins[w].buf = buf_exists(s, n)}
      after  == {w \in shows : w > s.win}
      Least(S) == CHOOSE w \in S : \A v \in S : w <= v
      t      == SetABuf(s, s.cur)
  IN  IF shows # {} THEN SetWind(t, Least(IF after = {} THEN shows ELSE after))
      ELSE IF Pops(s, n, "none") THEN pop_wind(t, n, "none") ELSE Complained(t)

GotoWind(n) == InReplyTo("any") /\ Ends(Going(Answered(State), n))

(* ask_buf refuses the name of a buffer there is.                          *)
ReNamBuf(n) ==
  /\ InReplyTo("any") /\ buf_exists(State, n) = NULL
  /\ Ends([Answered(State) EXCEPT !.name[saveb] = n])

(* getNMbuf: a buffer that has been changed is asked about once more.      *)
BufKill(b) == InReplyTo("any") /\ Ends(kill_buf(Answered(State), b))

Confirm(b) == InReplyTo("any") /\ Question(Answered(State), Asks("confirm", b, NULL))

BufKillModified == InReplyTo("confirm") /\ Ends(kill_buf(Answered(State), asker.buf))

(* KillSome goes on with the buffer that was next when it asked of this.   *)
SomeNext(s, b) ==
  IF b = NULL \/ s.hung THEN Ends(s) ELSE Question(s, Asks("some", b, b_next(s, b)))

KillSomeNo == InReplyTo("some") /\ SomeNext(Answered(State), asker.next)

KillSomeYes ==
  \/ InReplyTo("some") /\ SomeNext(kill_buf(Answered(State), asker.buf), asker.next)
  \/ InReplyTo("save") /\ SomeNext(kill_buf(Answered(State), asker.buf), asker.next)

KillSomeModified ==
  InReplyTo("some") /\ Question(Answered(State), [asker EXCEPT !.cmd = "save"])

-----------------------------------------------------------------------------
(* resize, when a key is awaited.  Windows that would get too small are    *)
(* deleted, looking at the first and then from the last up, anew after     *)
(* each; then all are scaled, and the current one gets what remains.       *)
TooSmall(s, new) ==
  LET n == Len(s.wins)
      at == SelectInSeq([k \in 1..n |-> IF k = 1 THEN 1 ELSE n + 2 - k],
                        LAMBDA w : (new * s.wins[w].h) \div ILI < 2)
  IN  IF at <= 1 THEN at ELSE n + 2 - at

Weeded(s, w) == IF w = 0 THEN s ELSE del_wind(s, w)

ScaledSlip(s, new) == [s EXCEPT !.wins = [w \in DOMAIN @ |-> [@[w] EXCEPT !.h = (new * @) \div ILI]]]

Height(wins) ==
  LET Sum[k \in 0..Len(wins)] == IF k = 0 THEN 0 ELSE Sum[k - 1] + wins[k].h
  IN  Sum[Len(wins)]

Scaled(s, new) ==
  LET wins == [w \in DOMAIN s.wins |-> [s.wins[w] EXCEPT !.h = (new * @) \div ILI]]
      all  == [wins EXCEPT ![s.win].h = @ + new - Height(wins)]
  IN  [s EXCEPT !.wins = all]

resize(s, new) ==
  LET Weed[n \in 0..Len(s.wins) - 1] ==
        IF n = 0 THEN s
        ELSE LET t == Weed[n - 1] IN Weeded(t, TooSmall(t, new))
  IN  Scaled(Weed[Len(s.wins) - 1], new)

Resize(new) ==
  /\ new # ILI
  /\ Becomes(resize(State, new))
  /\ ILI' = new
  /\ UNCHANGED <<asker, recur>>

-----------------------------------------------------------------------------
(* Recur: a recursive edit, within a command such as query-replace.        *)

RecurBegin ==
  /\ ~Asking /\ recur = NULL /\ bounds.depth > 0
  /\ recur' = curbuf
  /\ Becomes(State)
  /\ UNCHANGED <<asker, ILI>>

RecurEnd ==
  /\ ~Asking /\ recur # NULL
  /\ recur' = NULL
  /\ Becomes(IF valid_bp(State, recur) THEN SetBuf(tiewind(State, curwind, recur), recur)
             ELSE Complained(State))
  /\ UNCHANGED <<asker, ILI>>

-----------------------------------------------------------------------------
Next ==
  \/ \E n \in 1..bounds.bufs : BufNSelect(n)
  \/ \E f \in File : FDotTag(f) \/ WindFindTag(f) \/ FindFileReply(f)
  \/ BufList
  \/ \E n \in 1..(bounds.winds - 1) : SplitWind(n)
  \/ DelCurWindow \/ OneWindow \/ NextWindow \/ PrevWindow
  \/ \E inc \in {-1, 1} : WindSize(inc)
  \/ Complain
  \/ Prompt \/ Abort \/ AnyAnswer
  \/ \E n \in Name : BufSelect(n) \/ GotoWind(n)
  \/ \E n \in bounds.names \X {0} : ReNamBuf(n)
  \/ WindFind
  \/ \E b \in ToSet(world) : BufKill(b) \/ Confirm(b)
  \/ BufKillModified
  \/ KillSomeNo \/ KillSomeYes \/ KillSomeModified
  \/ \E new \in bounds.sizes : Resize(new)
  \/ RecurBegin \/ RecurEnd

Spec == Init /\ [][Next]_vars

(* The windows of b that delb_wind misses when it deletes windows: once it *)
(* has deleted the first it stops at a first window that does not show b.  *)
Missed(wins, b) ==
  /\ wins[1].buf = b
  /\ \E i, j \in DOMAIN wins : i < j /\ wins[i].buf # b /\ wins[j].buf = b

(* Without the steps at which the program itself goes wrong: deleting a    *)
(* buffer that delb_wind leaves in a window, or does not end getting out   *)
(* of them.                                                                *)
Tame ==
  /\ \A b \in ToSet(world) : b \notin ToSet(world') =>
       ~(Alt(State, b).own /\ Missed(windows, b))
  /\ ~hung'

SpecTame == Init /\ [][Next /\ Tame]_vars
-----------------------------------------------------------------------------
(* Whatever is kept of buffers from one step to another, in windows, as    *)
(* alternate or by a command that asks, leads to buffers there are.        *)
NoStaleBuffer ==
  /\ \A w \in DOMAIN windows : windows[w].buf \in ToSet(world)
  /\ curbuf \in ToSet(world)
  /\ {lastbuf, saveb, asker.buf, asker.next} \subseteq ToSet(world) \cup {NULL}

(* The windows fill the screen, and each has a line for text.              *)
ScreenFilled ==
  /\ Height(windows) = ILI
  /\ \A w \in DOMAIN windows : windows[w].h >= 2

Shown == windows[curwind].buf = curbuf

(* No command that asks nothing takes the current buffer out of the        *)
(* current window.                                                         *)
StaysShown == [][~Asking /\ ~Asking' /\ Shown => Shown']_vars
=============================================================================
