------------------------------- MODULE Search -------------------------------
(***************************************************************************)
(* What is done with patterns (reapp.c, re.c): a search, the incremental   *)
(* search with its stack of levels, replacing with and without questions,  *)
(* and the lookup of a tag in a sorted file.  Each behaviour is one of     *)
(* Jobs; a step is a key that is answered, a match that is replaced or a   *)
(* line of the tag file that is read.                                      *)
(***************************************************************************)
EXTENDS Regexp, FiniteSetsExt

CONSTANTS
  Jobs,           \* what is asked for: a buffer, a command and what it asks
  Keys,           \* in i-search
  MarkThresh,
  BUFSIZ          \* JBUFSIZ

P == INSTANCE Patterns WITH Word <- Idents

VARIABLES
  text, dot, mark, searchstr,
  job,              \* the command that runs
  state,            \* "start", "isearch", "quoting", "asking", "looking", "tag", "reading",
                    \* "done", "error", or "hangs" for ever
  frames, ISbuf, Inputp,      \* isearch: the levels, innermost first; the rest of the string used again
  sub,              \* substitute: its variables
  tag,              \* lookup_tag: lower, upper, the position in the file and its F_EOF
  left,             \* bounds of the model: keys still to be typed
  past              \* not in the program: what was there before, and how it was answered

vars == <<text, dot, mark, searchstr, job, state, frames, ISbuf, Inputp, sub, tag, left, past>>

NULL == <<>>
NoSub == [lp |-> 1, offset |-> 0, l2 |-> 1, char2 |-> 0, start |-> <<1, 0>>, crater |-> -1,
          lineDone |-> FALSE, numdone |-> 0, query |-> FALSE, undo |-> NULL, m |-> NoMatch]
NoTag == [lower |-> 0, upper |-> 0, at |-> 1, eof |-> FALSE]
Line == text[dot[1]]
LineDist(i, j) == IF i > j THEN i - j ELSE j - i
\* PushPntp, and IncSearch at its end
MarkIf(from, to) == IF LineDist(to[1], from[1]) >= MarkThresh THEN from ELSE mark
Only(s) == CHOOSE x \in s : TRUE

-----------------------------------------------------------------------------
search ==
  /\ state = "start" /\ job.kind = "search"
  /\ \E found \in {dosearch(text, dot, job.dir, P!WrittenAlts(job.alts), job.re, job.wrap)} :
         \/ /\ found = {} /\ state' = "error" /\ UNCHANGED <<dot, mark>>
         \/ /\ found = {ForEver} /\ state' = "hangs" /\ UNCHANGED <<dot, mark>>
         \/ \E new \in found \ {ForEver} : dot' = new /\ mark' = MarkIf(dot, new) /\ state' = "done"
  /\ searchstr' = P!WrittenAlts(job.alts)
  /\ UNCHANGED <<text, job, frames, ISbuf, Inputp, sub, tag, left, past>>

-----------------------------------------------------------------------------
(* isearch.  push: where this level is; orig: how much of ISbuf there was. *)

Frame(dir, push, failing, orig) == [dir |-> dir, push |-> push, failing |-> failing, orig |-> orig]
IncSearch ==
  /\ state = "start" /\ job.kind = "isearch"
  /\ state' = "isearch" /\ ISbuf' = <<>>
  /\ frames' = <<Frame(job.dir, dot, FALSE, 0)>>
  /\ UNCHANGED <<text, dot, mark, searchstr, job, Inputp, sub, tag, left, past>>

\* Where doisearch finds str, c being its last character or NUL for ^S and ^R;
\* "error" if it is no pattern.
Searched(dir, str) ==
  UNION {IF re.wrong THEN {"error"} ELSE docompiled(text, dot, dir, re, FALSE) : re \in REcompile(str, FALSE)}
\* look_at: the pattern is at the dot.
LookedAt(str) ==
  \E re \in REcompile(str, FALSE) : ~re.wrong /\
    \E m \in REmatch([line |-> Line, crater |-> -1], re.alts[1], dot[2], NoGroups) : m.ok = "yes"
doisearchSlip(dir, c, str, failing) ==      \* mutant: what fails is not asked first
  CASE c # NUL /\ dir = FORWARD /\ At(Line, dot[2]) = c -> {<<dot[1], dot[2] + 1>>}
    [] c # NUL /\ dir = BACKWARD /\ LookedAt(str) -> {dot}
    [] OTHER -> Searched(dir, str)
doisearch(dir, c, str, failing) ==
  CASE c # NUL /\ failing -> {}
    [] c # NUL /\ ~failing /\ dir = FORWARD /\ At(Line, dot[2]) = c -> {<<dot[1], dot[2] + 1>>}
    [] c # NUL /\ ~failing /\ dir = BACKWARD /\ LookedAt(str) -> {dot}
    [] OTHER -> Searched(dir, str)
Rest == IF Inputp = <<>> THEN Inputp ELSE Tail(Inputp)
\* One level more; a pattern that is none ends the command.
Deeper(dir, c, str) ==
  /\ ISbuf' = str
  /\ \E found \in {doisearch(dir, c, str, frames[1].failing)} :
       IF found = {"error"}
       THEN state' = "error" /\ frames' = <<>> /\ Inputp' = <<>> /\ UNCHANGED dot
       ELSE /\ dot' = IF found = {} THEN dot ELSE Only(found)
            /\ frames' = <<Frame(dir, dot', found = {}, Len(str))>> \o frames
            /\ Inputp' = Rest /\ state' = "isearch"
  /\ UNCHANGED <<mark, searchstr>>

\* I_STOP; I_DELETE and I_TOSTART of the outermost level
Leave(to) ==
  /\ state' = "done" /\ dot' = to /\ mark' = MarkIf(past.dot, to)
  /\ searchstr' = ISbuf /\ frames' = <<>> /\ Inputp' = <<>> /\ UNCHANGED ISbuf
\* I_DELETE and I_BACKUP: level k goes on.
BackTo(k) ==
  /\ frames' = After(frames, k - 1)
  /\ ISbuf' = SubSeq(ISbuf, 1, frames[k].orig)
  /\ dot' = frames[k].push
  /\ Inputp' = Rest
  /\ UNCHANGED <<mark, searchstr, state>>

Stay == UNCHANGED <<dot, mark, searchstr, frames, ISbuf>>
Key(c) ==
  LET top == frames[1] IN
  CASE c \in {"CR", "other"} -> Leave(dot)
    [] c = "C-g" -> IF ~top.failing THEN Leave(past.dot)
                    ELSE BackTo(CHOOSE k \in DOMAIN frames :
                                  ~frames[k].failing /\ \A l \in 1 .. k - 1 : frames[l].failing)
    [] c = "DEL" -> IF Len(frames) = 1 THEN Leave(dot) ELSE BackTo(2)
    [] c \in {"C-s", "C-r"} ->
         LET ndir == IF c = "C-s" THEN FORWARD ELSE BACKWARD IN
         CASE Inputp = <<>> /\ ISbuf = <<>> -> Inputp' = searchstr /\ Stay /\ UNCHANGED state
           [] (Inputp # <<>> \/ ISbuf # <<>>) /\ top.failing /\ ndir = top.dir ->
                Inputp' = Rest /\ Stay /\ UNCHANGED state
           [] OTHER -> Deeper(ndir, NUL, ISbuf)
    [] c = "\\" -> state' = "quoting" /\ Inputp' = Rest /\ Stay
    [] OTHER -> Deeper(top.dir, c, Append(ISbuf, c))

\* The next key is typed, or of the string that is searched again.  Bound of the
\* model: what is typed after a backslash is a character.
Isearch ==
  /\ \E c \in IF Inputp # <<>> THEN {Inputp[1]} ELSE Keys :
       /\ IF Inputp # <<>> THEN UNCHANGED left ELSE left > 0 /\ left' = left - 1
       /\ \/ state = "isearch" /\ Key(c)
          \/ /\ state = "quoting" /\ c \in ToSet(Order)
             /\ Deeper(frames[1].dir, c, ISbuf \o <<"\\", c>>)
  /\ UNCHANGED <<text, job, sub, tag, past>>

-----------------------------------------------------------------------------
(* substitute, from line l1 to position char2 of line l2.  lp, offset,     *)
(* crater, lineDone, numdone, query and undo (line, what it was, numdone)  *)
(* are its variables, m the match it is at.                                *)

RE == REcompile(P!WrittenAlts(job.alts), TRUE)
\* What the replacement stands for: \n is a group, any other \c is c.
RECURSIVE Inserted(_, _, _, _)
Inserted(line, m, rep, np) ==
  IF rep = <<>> THEN <<>>
  ELSE LET e == At(rep, 1)
           group == {n \in 0 .. np - 1 : e = ToString(n)}
       IN  IF rep[1] # "\\" THEN <<rep[1]>> \o Inserted(line, m, Tail(rep), np)
           ELSE IF group # {}
           THEN SubSeq(line, m.g.st[Only(group)] + 1, m.g.en[Only(group)]) \o Inserted(line, m, After(rep, 2), np)
           ELSE <<IF e = NUL THEN "\\" ELSE e>> \o Inserted(line, m, After(rep, 2), np)
re_dosubSlip(line, m, rep, np) ==      \* mutant: the end of the region stays where it was
  LET out == SubSeq(line, 1, m.bom) \o Inserted(line, m, rep, np)
      skip == IF m.bom = m.eom /\ At(line, m.eom) # NUL THEN 1 ELSE 0
  IN  [line |-> out \o After(line, m.eom), delta |-> 0, eom |-> Len(out) + skip]
\* eom skips a character if nothing was matched, so that this is not found again.
re_dosub(line, m, rep, np) ==
  LET out == SubSeq(line, 1, m.bom) \o Inserted(line, m, rep, np)
      skip == IF m.bom = m.eom /\ At(line, m.eom) # NUL THEN 1 ELSE 0
  IN  [line |-> out \o After(line, m.eom), delta |-> Len(out) - m.eom, eom |-> Len(out) + skip]

replace ==
  /\ state = "start" /\ job.kind = "replace"
  /\ LET end == IF job.region THEN mark ELSE <<Len(text), Len(text[Len(text)])>>
         swap == end[1] < dot[1] \/ (end[1] = dot[1] /\ end[2] < dot[2])
         from == IF swap THEN end ELSE dot
         to == IF swap THEN dot ELSE end
     IN  sub' = [NoSub EXCEPT !.lp = from[1], !.offset = from[2], !.l2 = to[1], !.char2 = to[2],
                              !.start = from, !.query = job.query]
  /\ state' = "looking"
  /\ past' = [past EXCEPT !.answers = IF job.query THEN <<>> ELSE <<"!">>, !.from = sub'.start, !.to = sub'.char2]
  /\ UNCHANGED <<text, dot, mark, searchstr, job, frames, ISbuf, Inputp, tag, left>>

\* The match s.m of line s.lp is replaced (deleted, if delp).
Replaced(s, delp, then) ==
  \E re \in RE : \E r \in {re_dosub(text[s.lp], s.m, IF delp THEN <<>> ELSE P!Written(job.new), re.nparens)} :
    /\ text' = [text EXCEPT ![s.lp] = r.line]
    /\ sub' = [s EXCEPT !.char2 = IF s.lp = s.l2 THEN @ + r.delta ELSE @, !.numdone = @ + 1,
                 !.undo = CASE delp -> NULL
                            [] ~delp /\ @ # NULL /\ @[1] = s.lp -> @
                            [] OTHER -> <<s.lp, text[s.lp], s.numdone>>,
                 !.lineDone = @ \/ (~delp /\ s.m.bom = s.m.eom /\ At(text[s.lp], s.m.eom) = NUL),
                 !.crater = IF delp THEN @ ELSE r.eom,
                 !.offset = IF delp THEN s.m.bom ELSE r.eom]
    /\ dot' = <<s.lp, sub'.offset>>
    /\ state' = then

Returned == state' = "done" /\ mark' = IF sub.numdone # 0 /\ ~job.region THEN sub.start ELSE mark

Look ==
  /\ state = "looking"
  /\ \E re \in RE : \E m \in re_lindex(text[sub.lp], sub.offset, FORWARD, re, sub.crater) :
       LET hangs == ~sub.lineDone /\ m.ok = "hangs"
           hit == ~sub.lineDone /\ m.ok = "yes" /\ (sub.lp # sub.l2 \/ m.eom <= sub.char2)
           over == ~hit /\ ~hangs
           at == [sub EXCEPT !.m = m, !.offset = m.eom]
       IN  \/ hangs /\ state' = "hangs" /\ UNCHANGED <<text, dot, mark, sub>>
           \/ /\ hit /\ sub.query
              /\ sub' = at /\ dot' = <<sub.lp, m.eom>> /\ state' = "asking" /\ UNCHANGED <<text, mark>>
           \/ hit /\ ~sub.query /\ Replaced(at, FALSE, "looking") /\ UNCHANGED mark
           \/ /\ over /\ sub.lp # sub.l2
              /\ sub' = [sub EXCEPT !.lp = @ + 1, !.offset = 0, !.crater = -1, !.lineDone = FALSE]
              /\ UNCHANGED <<text, dot, mark, state>>
           \/ over /\ sub.lp = sub.l2 /\ Returned /\ UNCHANGED <<text, dot, sub>>
  /\ UNCHANGED <<searchstr, job, frames, ISbuf, Inputp, tag, left, past>>

\* From here on what is expected is another replacing, of what the buffer is now.
Afresh(l, p, txt, undone) ==
  past' = [past EXCEPT !.text = txt, !.from = <<l, p>>, !.to = Len(txt[sub.l2]), !.answers = <<>>,
                       !.stale = @ \/ (undone /\ sub.char2 < Len(txt[sub.l2]))]
Said(a) == past' = [past EXCEPT !.answers = Append(@, a)]
\* RErecur; bound of the model: nothing is done in it.
Answer ==
  /\ state = "asking" /\ left > 0 /\ left' = left - 1
  /\ LET m == sub.m IN
     \/ Replaced(sub, FALSE, "looking") /\ Said("y") /\ UNCHANGED mark
     \/ /\ Replaced(sub, FALSE, "done") /\ Said(".")
        /\ mark' = IF job.region THEN mark ELSE sub.start
     \/ /\ sub' = [sub EXCEPT !.offset = IF m.bom = m.eom THEN @ + 1 ELSE @,
                              !.lineDone = @ \/ (m.bom = m.eom /\ At(Line, m.eom) = NUL)]
        /\ state' = "looking" /\ Said("n") /\ UNCHANGED <<text, dot, mark>>
     \/ /\ Replaced(sub, TRUE, "looking") /\ UNCHANGED mark      \* ^W
        /\ Afresh(sub.lp, m.bom, text', FALSE)
     \/ /\ sub' = [sub EXCEPT !.undo = NULL, !.offset = m.bom]   \* ^R
        /\ state' = "looking" /\ dot' = <<sub.lp, m.bom>> /\ Afresh(sub.lp, m.bom, text, FALSE)
        /\ UNCHANGED <<text, mark>>
     \/ /\ sub.undo # NULL
        /\ text' = [text EXCEPT ![sub.undo[1]] = sub.undo[2]]
        /\ sub' = [sub EXCEPT !.lp = sub.undo[1], !.offset = 0, !.numdone = sub.undo[3], !.undo = NULL]
        /\ state' = "looking" /\ Afresh(sub.undo[1], 0, text', TRUE) /\ UNCHANGED <<dot, mark>>
     \/ /\ Replaced([sub EXCEPT !.query = FALSE], FALSE, "looking") /\ Said("!") /\ UNCHANGED mark
     \/ Returned /\ Said("q") /\ UNCHANGED <<text, dot, sub>>
  /\ UNCHANGED <<searchstr, job, frames, ISbuf, Inputp, tag>>

-----------------------------------------------------------------------------
(* lookup_tag.  Lines of the file are names, a tab and more; characters    *)
(* are numbers, so that they have an order, and NUL and tab come first.    *)

Size(k) == job.lines[k].size
Begin(k) == FoldFunctionOnSet(+, 0, [i \in DOMAIN job.lines |-> Size(i)], 1 .. k - 1)
Char(s, k) == IF k \in DOMAIN s THEN s[k] ELSE 0
\* How many characters of s are those of t.
numcomp(s, t) == CHOOSE n \in 0 .. Len(s) : /\ \A i \in 1 .. n : s[i] = Char(t, i)
                                          /\ (n = Len(s) \/ s[n + 1] # Char(t, n + 1))
Content(k) == Append(job.lines[k].name, 1)
\* The line that begins after a position (f_toNL), or the end of the file.
LineAfter(pos) ==
  LET later == {k \in DOMAIN job.lines : Begin(k) > pos}
  IN  IF later = {} THEN Len(job.lines) + 1 ELSE CHOOSE k \in later : \A l \in later : k <= l
\* f_gets gives no line at the end of the file, and none that is too long.
NoLine(k) == k > Len(job.lines) \/ Size(k) > BUFSIZ

lookup_tag ==
  /\ state = "start" /\ job.kind = "tag"
  /\ tag' = [NoTag EXCEPT !.upper = Begin(Len(job.lines) + 1)]
  /\ state' = "tag"
  /\ UNCHANGED <<text, dot, mark, searchstr, job, frames, ISbuf, Inputp, sub, left, past>>
SmallSlip == tag.upper <= tag.lower     \* mutant: down to nothing
Small == tag.upper - tag.lower < BUFSIZ
ExactSlip(line, eq) == eq = Len(job.tag)        \* mutant: the beginning of a name will do
Exact(line, eq) == eq = Len(job.tag) /\ Char(line, eq + 1) = 1
\* One turn of the binary search; F_EOF stays set when the file is positioned again.
Bisect ==
  /\ state = "tag"
  /\ LET mid == (tag.lower + tag.upper) \div 2
         k == LineAfter(mid)
         line == Content(k)
         eq == numcomp(line, job.tag)
         Stop(lower, eof) == /\ tag' = [tag EXCEPT !.lower = lower, !.eof = eof,
                                                   !.at = IF lower = 0 THEN 1 ELSE LineAfter(lower)]
                             /\ state' = "reading"
     IN  CASE Small -> Stop(tag.lower, FALSE)
           [] ~Small /\ NoLine(k) -> Stop(tag.lower, k > Len(job.lines))
           [] OTHER -> IF Exact(line, eq) THEN Stop(mid, FALSE)
                       ELSE /\ tag' = IF Char(line, eq + 1) < Char(job.tag, eq + 1)
                                      THEN [tag EXCEPT !.lower = mid] ELSE [tag EXCEPT !.upper = mid]
                            /\ UNCHANGED state
  /\ UNCHANGED <<text, dot, mark, searchstr, job, frames, ISbuf, Inputp, sub, left, past>>

\* From there on one line after the other, to a name beyond the tag.
Reading ==
  /\ state = "reading"
  /\ LET k == tag.at
         eq == numcomp(Content(k), job.tag)
     IN  CASE tag.eof \/ NoLine(k) -> state' = "error" /\ UNCHANGED tag
           [] OTHER -> IF eq = Len(job.tag) THEN state' = "done" /\ UNCHANGED tag
                       ELSE IF Char(Content(k), eq + 1) > Char(job.tag, eq + 1)
                       THEN state' = "error" /\ UNCHANGED tag
                       ELSE tag' = [tag EXCEPT !.at = @ + 1] /\ UNCHANGED state
  /\ UNCHANGED <<text, dot, mark, searchstr, job, frames, ISbuf, Inputp, sub, left, past>>

-----------------------------------------------------------------------------
Init ==
  /\ job \in Jobs
  /\ text = job.text /\ dot = job.dot /\ mark = job.mark /\ searchstr = job.searchstr
  /\ state = "start" /\ frames = <<>> /\ ISbuf = <<>> /\ Inputp = <<>>
  /\ sub = NoSub /\ tag = NoTag /\ left = job.keys
  /\ past = [text |-> text, dot |-> dot, from |-> dot, to |-> 0, answers |-> <<>>, stale |-> FALSE]

Work == search \/ IncSearch \/ replace \/ Look \/ lookup_tag \/ Bisect \/ Reading
Next == Work \/ Isearch \/ Answer
\* JOVE does what it was asked for; the user need not answer.
Spec == Init /\ [][Next]_vars /\ WF_vars(Work)

-----------------------------------------------------------------------------
(* What a search is for, in terms of what the pattern means.               *)

Places(txt) == {<<l, p>> : l \in DOMAIN txt, p \in 0 .. 4}
Before(d, e) == d[1] < e[1] \/ (d[1] = e[1] /\ d[2] < e[2])
MatchesAt(txt, alts) == {d \in Places(txt) : d[2] <= Len(txt[d[1]]) /\ P!MatchEnds(txt[d[1]], alts, d[2]) # {}}

\* A search goes to the next match of the pattern, forward to an end of it and
\* backward to its beginning, and complains only if there is none; in the line of
\* the dot, a search that has wrapped does not look again (docompiled), nor a
\* forward one at the end of the line for what is empty.  Of a group that is
\* empty the code finds no repetition.
SearchFinds ==
  (job.kind = "search" /\ state \in {"done", "error"} /\ ~P!EmptyRef(job.alts)) =>
    LET all == MatchesAt(past.text, job.alts)
        was == past.dot
        atEnd == was[2] = Len(past.text[was[1]]) /\ was[1] < Len(past.text)
        ahead == IF job.dir = FORWARD THEN {d \in all : Before(was, d) \/ (d = was /\ ~atEnd)}
                 ELSE {d \in all : Before(d, was)}
        round == IF job.wrap THEN {d \in all : d[1] # was[1]} ELSE {}
        pool == IF ahead # {} THEN ahead ELSE round
        first == {d \in pool : \A e \in pool : d = e \/ (Before(d, e) <=> job.dir = FORWARD)}
    IN  IF state = "error" THEN pool = {}
        ELSE \E d \in first : /\ dot[1] = d[1]
                              /\ IF job.dir = BACKWARD THEN dot = d
                                 ELSE dot[2] \in P!MatchEnds(past.text[d[1]], job.alts, d[2])

\* In an incremental search for plain characters, what is shown is true: the
\* string is at the dot (before it, if forward), unless the search is said to fail,
\* and then there is none farther in its direction (isearch, doisearch).
Honest ==
  LET plain == \A i \in DOMAIN ISbuf : ISbuf[i] \in Idents
      n == Len(ISbuf)
      top == frames[1]
      Is(d) == d[2] + n <= Len(text[d[1]]) /\ SubSeq(text[d[1]], d[2] + 1, d[2] + n) = ISbuf
  IN  (state = "isearch" /\ plain /\ n > 0) =>
        IF ~top.failing
        THEN IF top.dir = FORWARD THEN dot[2] >= n /\ Is(<<dot[1], dot[2] - n>>) ELSE Is(dot)
        ELSE \A d \in Places(text) : d[2] <= Len(text[d[1]]) /\ Is(d) =>
               IF top.dir = FORWARD THEN Before(d, dot) ELSE ~Before(d, dot)

\* What replacing should make of a line, from q on: each match is answered in turn
\* ("!": all the rest), the next begins where it ended, a character later if it
\* was empty.  A replacement \n stands for the n-th group.
RECURSIVE Answered(_, _, _, _), AnsweredText(_, _, _, _, _, _)
Answered(line, q, upto, said) ==
  LET hits == {p \in q .. Len(line) : P!MatchEnds(line, job.alts, p) # {}}
      p == Min(hits)
      e == Max(P!MatchEnds(line, job.alts, p))
      Group(n) == IF n = 0 THEN SubSeq(line, p + 1, e)
                  ELSE Only({w.g[n] : w \in {v \in P!Ends(line, job.alts[1], {P!Place(p, <<>>)}) : v.p = e}})
      new == IF said[1] = "n" THEN SubSeq(line, p + 1, e)
             ELSE FlattenSeq([i \in DOMAIN job.new |-> IF job.new[i].k = "ref" THEN Group(job.new[i].n)
                                                        ELSE <<job.new[i].c>>])
      done == SubSeq(line, q + 1, p) \o new
      after == IF said[1] = "!" THEN said ELSE IF said[1] = "." THEN <<"q">> ELSE Tail(said)
      more == Answered(line, IF p = e THEN e + 1 ELSE e, upto, after)
  IN  IF hits = {} \/ said[1] = "q" THEN [line |-> After(line, q), said |-> said]
      ELSE IF e > upto THEN [line |-> After(line, q), said |-> said]
      ELSE IF p = e /\ e = Len(line) THEN [line |-> done, said |-> after]
      ELSE [line |-> done \o (IF p = e THEN <<line[e + 1]>> ELSE <<>>) \o more.line, said |-> more.said]
AnsweredText(txt, l, q, l2, char2, said) ==
  LET a == Answered(txt[l], q, IF l = l2 THEN char2 ELSE Len(txt[l]), said)
      new == [txt EXCEPT ![l] = SubSeq(txt[l], 1, q) \o a.line]
  IN  IF l = l2 THEN new ELSE AnsweredText(new, l + 1, 0, l2, char2, a.said)

\* Replacing does to the text what it should, match by match; but for a query
\* replace in which the change of the last line has been undone, which ends too
\* early if the line had become shorter: char2 is not put back (substitute).
Substituted ==
  (job.kind = "replace" /\ state = "done" /\ ~past.stale) =>
    text = AnsweredText(past.text, past.from[1], past.from[2], sub.l2, past.to, Append(past.answers, "q"))
\* The binary search loses no tag: the first line with the name, or with a name
\* the tag is the beginning of, is found, if no line is longer than half a
\* buffer.  But of several lines with the very name one further on may be found:
\* the first of them the bisection comes upon ends it (lookup_tag).
TagFound ==
  (job.kind = "tag" /\ state \in {"done", "error"}) =>
    LET such == {k \in DOMAIN job.lines : numcomp(Content(k), job.tag) = Len(job.tag)}
    IN  (\A k \in DOMAIN job.lines : 2 * Size(k) <= BUFSIZ) =>
          IF such = {} THEN state = "error"
          ELSE /\ state = "done" /\ tag.at \in such
               /\ \A k \in such : k < tag.at => job.lines[k].name = job.lines[tag.at].name
=============================================================================
