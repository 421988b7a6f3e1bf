-------------------------------- MODULE Text --------------------------------
(***************************************************************************)
(* The lines of the current buffer and the routines that edit them         *)
(* (insert.c, delete.c, marks.c, util.c).                                  *)
(*                                                                         *)
(* A buffer is a doubly linked list of lines.  The text of a line is in    *)
(* the tmp file (l_dline stands for the text it leads to); that of the     *)
(* current line is in linebuf, and goes back to the tmp file when lsave    *)
(* finds DOLsave set.  A place is a line and a count of characters.  The   *)
(* kill is a list of lines as well.  Routines are functions of the record  *)
(* s of all of this.  Lines that nothing refers to are free: their list is *)
(* not modelled here, nbufline takes the first of them.                    *)
(***************************************************************************)
EXTENDS Integers, Sequences, SequencesExt, FiniteSetsExt

CONSTANTS
  NLines,     \* lines there is memory for
  Char,       \* the characters of a line
  NL,         \* '\n', the line separator
  LBSIZE,     \* size of linebuf: a line has at most LBSIZE - 1 characters
  Mark,       \* the marks of the buffer
  MaxText,    \* bound of the model: characters of the buffer
  MaxKill     \* bound of the model: characters of the kill

ASSUME TextAssumption ==
  /\ NLines \in Nat \ {0} /\ LBSIZE \in Nat \ {0} /\ MaxText \in Nat /\ MaxKill \in Nat
  /\ NL \notin Char

Line   == 1..NLines
NULL   == 0                     \* no line
String == UNION {[1..n -> Char] : n \in 0..(LBSIZE - 1)}

VARIABLES
  l_next, l_prev,     \* the links of the lines
  l_dline,            \* the text of each line in the tmp file
  b_first, b_last,    \* the ends of the buffer
  curline, curchar,   \* the point
  linebuf, DOLsave,   \* the text of curline; whether it has to be saved
  marks,              \* m_line and m_char of each mark
  killbuf,            \* the first line of the newest kill, or NULL
  last_cmd,           \* whether the last command was a kill
  seen                \* not in the program: the text, point, marks and kill as
                      \* one sequence of characters and places in it

vars == <<l_next, l_prev, l_dline, b_first, b_last, curline, curchar, linebuf, DOLsave,
          marks, killbuf, last_cmd, seen>>

State == [next |-> l_next, prev |-> l_prev, dline |-> l_dline, first |-> b_first,
          last |-> b_last, line |-> curline, char |-> curchar, buf |-> linebuf,
          save |-> DOLsave, marks |-> marks, kill |-> killbuf]

-----------------------------------------------------------------------------
(* Lists of lines.                                                         *)

(* The lines from l on, in order.                                          *)
LineList(s, l) ==
  LET from[n \in Nat, k \in Line] ==
        IF n = 0 \/ s.next[k] = NULL THEN <<k>> ELSE <<k>> \o from[n - 1, s.next[k]]
  IN  from[NLines, l]

Lines(s, l) == ToSet(LineList(s, l))

lastline(s, l) == Last(LineList(s, l))

Used(s) == Lines(s, s.first) \cup (IF s.kill = NULL THEN {} ELSE Lines(s, s.kill))

(* How many lines are before l in the buffer.                              *)
Before(s, l) ==
  LET ls == LineList(s, s.first)
  IN  (CHOOSE k \in 1..Len(ls) : ls[k] = l) - 1

inorder(s, l1, c1, l2, c2) ==
  IF l1 = l2 THEN c1 < c2 ELSE Before(s, l1) < Before(s, l2)

Span(s, l1, l2) ==
  LET ls == LineList(s, s.first)
  IN  {ls[k] : k \in (Before(s, l1) + 1)..(Before(s, l2) + 1)}

(* A new line, not in use nor among those taken so far.                    *)
nbufline(s, taken) == CHOOSE l \in Line \ (Used(s) \cup taken) :
                        \A k \in Line \ (Used(s) \cup taken) : l <= k

-----------------------------------------------------------------------------
(* The text as a whole.                                                    *)

lcontents(s, l) == IF l = s.line THEN s.buf ELSE s.dline[l]

Sum(f, n) ==
  LET upto[k \in 0..n] == IF k = 0 THEN 0 ELSE upto[k - 1] + f[k]
  IN  upto[n]

FlatList(s, l) ==
  LET ls == LineList(s, l)
  IN  FlattenSeq([k \in 1..Len(ls) |-> IF k < Len(ls) THEN Append(lcontents(s, ls[k]), NL)
                                       ELSE lcontents(s, ls[k])])

Flat(s)     == FlatList(s, s.first)
FlatKill(s) == IF s.kill = NULL THEN <<>> ELSE FlatList(s, s.kill)

(* How many characters are before a place.                                 *)
Offset(s, l, c) ==
  LET ls == LineList(s, s.first)
  IN  c + Sum([k \in 1..Len(ls) |-> Len(lcontents(s, ls[k])) + 1], Before(s, l))

Seen(s) == [text |-> Flat(s), point |-> Offset(s, s.line, s.char),
            place |-> [m \in Mark |-> Offset(s, s.marks[m].line, s.marks[m].char)],
            killed |-> FlatKill(s)]

(* A step of the editor to s.  What a line nothing refers to holds is      *)
(* forgotten.                                                              *)
Becomes(s, cmd) ==
  /\ l_next'  = [l \in Line |-> IF l \in Used(s) THEN s.next[l] ELSE NULL]
  /\ l_prev'  = [l \in Line |-> IF l \in Lines(s, s.first) THEN s.prev[l] ELSE NULL]
  /\ l_dline' = [l \in Line |-> IF l \in Used(s) THEN s.dline[l] ELSE <<>>]
  /\ b_first' = s.first /\ b_last' = s.last
  /\ curline' = s.line /\ curchar' = s.char
  /\ linebuf' = s.buf /\ DOLsave' = s.save
  /\ marks' = s.marks
  /\ killbuf' = s.kill
  /\ last_cmd' = cmd
  /\ seen' = Seen(s)

-----------------------------------------------------------------------------
(* The current line.                                                       *)

lsave(s) == IF s.save THEN [s EXCEPT !.dline[s.line] = s.buf, !.save = FALSE] ELSE s

getDOT(s) == [s EXCEPT !.buf = s.dline[s.line]]

modify(s) == [s EXCEPT !.save = TRUE]

SetDot(s, l, c) ==
  LET t == IF l = s.line THEN s ELSE getDOT([lsave(s) EXCEPT !.line = l])
  IN  [t EXCEPT !.char = IF c > Len(t.buf) THEN Len(t.buf) ELSE c]

(* f_char and b_char of one character.                                     *)
Forward(s) ==
  IF s.char < Len(s.buf) THEN [s EXCEPT !.char = @ + 1]
  ELSE IF s.next[s.line] = NULL THEN s ELSE SetDot(s, s.next[s.line], 0)

Backward(s) ==
  IF s.char > 0 THEN [s EXCEPT !.char = @ - 1]
  ELSE IF s.prev[s.line] = NULL THEN s ELSE SetDot(s, s.prev[s.line], LBSIZE)

Step(s, dir) == IF dir = "forward" THEN Forward(s) ELSE Backward(s)

-----------------------------------------------------------------------------
(* Marks.                                                                  *)

MarkSet(s, m, l, c) == [s EXCEPT !.marks[m] = [line |-> l, char |-> c]]

DFixMarks(s, l1, c1, l2, c2) ==
  LET Fixed(p) ==
        IF p.line \notin Span(s, l1, l2) \/ (p.line = l1 /\ p.char <= c1) THEN p
        ELSE IF p.line = l2 /\ p.char > c2 THEN [line |-> l1, char |-> p.char - (c2 - c1)]
        ELSE [line |-> l1, char |-> c1]
  IN  [s EXCEPT !.marks = [m \in Mark |-> Fixed(s.marks[m])]]

IFixMarksSlip(s, l1, c1, l2, c2) ==
  LET Fixed(p) == IF p.line = l1 /\ p.char >= c1
                  THEN [line |-> l2, char |-> p.char + (c2 - c1)] ELSE p
  IN  [s EXCEPT !.marks = [m \in Mark |-> Fixed(s.marks[m])]]

IFixMarks(s, l1, c1, l2, c2) ==
  LET Fixed(p) == IF p.line = l1 /\ p.char > c1
                  THEN [line |-> l2, char |-> p.char + (c2 - c1)] ELSE p
  IN  [s EXCEPT !.marks = [m \in Mark |-> Fixed(s.marks[m])]]

-----------------------------------------------------------------------------
(* Insertion.                                                              *)

(* listput: n is linked in after l, in the buffer or in a list that is not *)
(* a buffer's.                                                             *)
listput(s, n, l, inbuf) ==
  LET t == [s EXCEPT !.next[n] = s.next[l], !.prev[n] = l, !.next[l] = n]
  IN  IF s.next[l] # NULL THEN [t EXCEPT !.prev[s.next[l]] = n]
      ELSE IF inbuf THEN [t EXCEPT !.last = n] ELSE t

ins_c(s, c) == [s EXCEPT !.buf = SubSeq(s.buf, 1, s.char) \o <<c>>
                                   \o SubSeq(s.buf, s.char + 1, Len(s.buf)),
                         !.char = @ + 1]

insert_c(s, c) ==
  IFixMarks(modify(ins_c(s, c)), s.line, s.char, s.line, s.char + 1)

(* LineInsert: n lines are put after the current line; what follows the    *)
(* point goes to the last of them, which becomes current.                  *)
LineInsert(s, n) ==
  LET Put[k \in 0..n] ==
        IF k = 0 THEN [st |-> s, at |-> s.line]
        ELSE LET new == nbufline(Put[k - 1].st, {})
             IN  [st |-> [listput(Put[k - 1].st, new, Put[k - 1].at, TRUE)
                            EXCEPT !.dline[new] = <<>>], at |-> new]
      t == modify(Put[n].st)
      new == Put[n].at
      u == IF s.char # 0
           THEN [t EXCEPT !.dline[s.line] = SubSeq(s.buf, 1, s.char),
                          !.buf = SubSeq(s.buf, s.char + 1, Len(s.buf))]
           ELSE [t EXCEPT !.dline[new] = s.dline[s.line], !.dline[s.line] = <<>>]
  IN  IFixMarks([u EXCEPT !.line = new, !.char = 0], s.line, s.char, new, 0)

(* ins_str_wrap: marks are fixed once per run of characters between line   *)
(* separators.  l, c is where the run began.                               *)
FixRun(r) == modify(IFixMarks(r.st, r.l, r.c, r.st.line, r.st.char))

InsRun(s, str, n) ==
  LET Ins[k \in 0..n] ==
        IF k = 0 THEN [st |-> s, l |-> s.line, c |-> s.char]
        ELSE IF str[k] = NL
             THEN LET t == LineInsert(FixRun(Ins[k - 1]), 1)
                  IN  [st |-> t, l |-> t.line, c |-> t.char]
             ELSE [Ins[k - 1] EXCEPT !.st = ins_c(Ins[k - 1].st, str[k])]
  IN  Ins[n]

ins_str(s, str) == FixRun(InsRun(s, str, Len(str)))

(* No line gets too long from the first n characters of str.               *)
InsFits(s, str, n) ==
  \A k \in 0..n :
    LET nls == {j \in 1..k : str[j] = NL}
        col == IF nls = {} THEN s.char + k ELSE k - Max(nls)
    IN  col + Len(s.buf) - s.char < LBSIZE

(* DoYank: what is from f, fc to t, tc is inserted at a, ac.  First the    *)
(* text before a, ac is joined to the first line, and the other lines are  *)
(* linked in; char counts what is now before the end of the insertion.     *)
YankLines(s, f, fc, t, tc, a, ac, inbuf) ==
  LET begin == IF f = t THEN SubSeq(lcontents(s, f), fc + 1, tc)
               ELSE SubSeq(lcontents(s, f), fc + 1, Len(lcontents(s, f)))
      s2    == [s EXCEPT !.dline[a] = SubSeq(lcontents(s, a), 1, ac) \o begin]
      from  == LineList(s2, f)
      rest  == SubSeq(from, 2, CHOOSE k \in 1..Len(from) : from[k] = t)
      Put[k \in 0..Len(rest)] ==
        IF k = 0 THEN [st |-> s2, line |-> a, char |-> ac + tc]
        ELSE LET p == Put[k - 1]
                 new == nbufline(p.st, ToSet(LineList(s, f)))
             IN  [st |-> [listput(p.st, new, p.line, inbuf)
                            EXCEPT !.dline[new] = p.st.dline[rest[k]]],
                  line |-> new, char |-> tc]
  IN  Put[Len(rest)]

(* A line copied onto the last one from c on, unless that has ended before.*)
Onto(str, c, tail) == IF c > Len(str) THEN str ELSE SubSeq(str, 1, c) \o tail

DoYank(s, f, fc, t, tc, a, ac, inbuf) ==
  LET s1   == IF inbuf THEN modify(lsave(s)) ELSE lsave(s)
      tail == SubSeq(lcontents(s1, a), ac + 1, Len(lcontents(s1, a)))
      y    == YankLines(s1, f, fc, t, tc, a, ac, inbuf)
      s2   == [y.st EXCEPT !.dline[y.line] = Onto(@, y.char, tail)]
  IN  [y EXCEPT !.st = getDOT(IFixMarks(s2, a, ac, y.line, y.char))]

-----------------------------------------------------------------------------
(* Deletion.                                                               *)

Joined(s, l1, c1, l2, c2) ==
  SubSeq(lcontents(s, l1), 1, c1) \o SubSeq(lcontents(s, l2), c2 + 1, Len(lcontents(s, l2)))

Joins(s, l1, c1, l2, c2) == Len(Joined(s, l1, c1, l2, c2)) < LBSIZE

Patched(t, l1, c1, l2, c2) ==
  [t EXCEPT !.buf = Joined(t, l1, c1, l2, c2),
            !.dline[l1] = IF l1 # l2 /\ c1 = 0 /\ c2 = 0 THEN t.dline[l2] ELSE @]

patchup(s, l1, c1, l2, c2) ==
  DFixMarks(Patched(modify(SetDot(s, l1, c1)), l1, c1, l2, c2), l1, c1, l2, c2)

UnlinkSlip(s, l1, l2) ==
  IF l1 = l2 THEN s ELSE [s EXCEPT !.next[l1] = s.next[l2], !.next[l2] = NULL]

(* The lines after l1 up to l2 leave the buffer.                           *)
Unlink(s, l1, l2) ==
  IF l1 = l2 THEN s
  ELSE LET after == s.next[l2]
           t == [s EXCEPT !.next[l1] = after, !.next[l2] = NULL]
       IN  IF after = NULL THEN [t EXCEPT !.last = l1] ELSE [t EXCEPT !.prev[after] = l1]

(* reg_delete: the region becomes a list of its own that starts with a new *)
(* line for what is deleted of l1.                                         *)
TakeOut(t, ret, l1, l2, c2) ==
  [st |-> IF l1 = l2 THEN [t EXCEPT !.next[ret] = NULL]
          ELSE Unlink([t EXCEPT !.next[ret] = t.next[l1],
                                !.dline[l2] = SubSeq(lcontents(t, l2), 1, c2)], l1, l2),
   list |-> ret]

reg_delete(s, l1, c1, l2, c2) ==
  LET ret  == nbufline(s, {})
      head == SubSeq(lcontents(s, l1), c1 + 1, IF l1 = l2 THEN c2 ELSE Len(lcontents(s, l1)))
  IN  TakeOut(patchup([s EXCEPT !.dline[ret] = head], l1, c1, l2, c2), ret, l1, l2, c2)

AddKillRing(s, list) == [s EXCEPT !.kill = list]

(* reg_kill: from the point to l, c.                                       *)
Ordered(s, l, c) ==
  IF inorder(s, s.line, s.char, l, c)
  THEN [l1 |-> s.line, c1 |-> s.char, l2 |-> l, c2 |-> c, back |-> TRUE]
  ELSE [l1 |-> l, c1 |-> c, l2 |-> s.line, c2 |-> s.char, back |-> FALSE]

Keep(t, list, back) ==
  LET end  == lastline(t, list)
      tc   == Len(t.dline[end])
      old  == lastline(t, t.kill)
  IN  IF last_cmd # "kill" THEN AddKillRing(t, list)
      ELSE IF back THEN DoYank(t, list, 0, end, tc, t.kill, 0, FALSE).st
      ELSE DoYank(t, list, 0, end, tc, old, Len(t.dline[old]), FALSE).st

Killed(r, back) == Keep(r.st, r.list, back)

reg_kill(s, l, c, dot_moved) ==
  LET o == Ordered(s, l, c)
  IN  Killed(reg_delete(SetDot(s, o.l1, o.c1), o.l1, o.c1, o.l2, o.c2), o.back = dot_moved)

-----------------------------------------------------------------------------
Places(s) == {p \in Lines(s, s.first) \X (0..(LBSIZE - 1)) : p[2] <= Len(lcontents(s, p[1]))}

Room(n) == Len(seen.text) + n <= MaxText

-----------------------------------------------------------------------------
(* The commands.                                                           *)

Init ==
  /\ l_next = [l \in Line |-> NULL] /\ l_prev = [l \in Line |-> NULL]
  /\ l_dline = [l \in Line |-> <<>>]
  /\ b_first = 1 /\ b_last = 1 /\ curline = 1 /\ curchar = 0
  /\ linebuf = <<>> /\ DOLsave = FALSE
  /\ marks = [m \in Mark |-> [line |-> 1, char |-> 0]]
  /\ killbuf = NULL
  /\ last_cmd = "other"
  /\ seen = [text |-> <<>>, point |-> 0, place |-> [m \in Mark |-> 0], killed |-> <<>>]

SelfInsert(c) ==
  /\ Room(1) /\ Len(linebuf) + 1 < LBSIZE
  /\ Becomes(insert_c(State, c), "other")

(* DoNewline: before two blank lines, a newline only moves to the first.   *)
TwoBlank(s) ==
  LET after == Before(s, s.line) + 1
      ls    == LineList(s, s.first)
  IN  Len(ls) >= after + 2 /\ \A k \in {after + 1, after + 2} : s.dline[ls[k]] = <<>>

Newline(n) ==
  \/ /\ n = 1 /\ curchar = Len(linebuf) /\ TwoBlank(State)
     /\ Becomes(SetDot(State, l_next[curline], 0), "other")
  \/ /\ Room(n)
     /\ ~(n = 1 /\ curchar = Len(linebuf) /\ TwoBlank(State))
     /\ Becomes(LineInsert(State, n), "other")

OpenLine(n) ==
  /\ Room(n)
  /\ Becomes(SetDot(LineInsert(State, n), curline, curchar), "other")

InsStr(str) ==
  /\ Room(Len(str))
  /\ InsFits(State, str, Len(str))
  /\ Becomes(ins_str(State, str), "other")

(* del_char: one character is deleted, several are killed.                 *)
DelChar(dir) ==
  LET t == Step(State, dir)
      o == Ordered(t, curline, curchar)
      p == patchup(t, o.l1, o.c1, o.l2, o.c2)
  IN  /\ <<t.line, t.char>> # <<curline, curchar>>
      /\ Joins(t, o.l1, o.c1, o.l2, o.c2)
      /\ Becomes(Unlink(p, o.l1, o.l2), "other")

(* Killing from the point to l, c without moving, or having moved there.   *)
Kill(l, c, dot_moved) ==
  LET s == IF dot_moved THEN SetDot(State, l, c) ELSE State
      m == IF dot_moved THEN <<curline, curchar>> ELSE <<l, c>>
      o == Ordered(s, m[1], m[2])
  IN  /\ <<l, c>> # <<curline, curchar>>
      /\ Joins(s, o.l1, o.c1, o.l2, o.c2)
      /\ \E t \in {reg_kill(s, m[1], m[2], dot_moved)} :
           /\ Len(FlatKill(t)) <= MaxKill
           /\ \A k \in Lines(t, t.kill) : Len(t.dline[k]) < LBSIZE
           /\ Becomes(t, "kill")

DelReg(m) == Kill(marks[m].line, marks[m].char, FALSE)

KillTo(l, c, dot_moved) == Kill(l, c, dot_moved)

CopyRegion(m) ==
  LET p == marks[m]
      o == Ordered(State, p.line, p.char)
      nl == nbufline([State EXCEPT !.kill = NULL], {})
      s == [State EXCEPT !.kill = nl, !.dline[nl] = <<>>, !.next[nl] = NULL, !.prev[nl] = NULL]
      t == DoYank(s, o.l1, o.c1, o.l2, o.c2, nl, 0, FALSE).st
  IN  /\ <<p.line, p.char>> # <<curline, curchar>>
      /\ Len(FlatKill(t)) <= MaxKill
      /\ Becomes(t, "other")

Yank(m) ==
  LET end == lastline(State, killbuf)
      tc == Len(l_dline[end])
      y == DoYank(lsave(State), killbuf, 0, end, tc, curline, curchar, TRUE)
      first == Len(l_dline[killbuf]) + curchar
      tail == Len(linebuf) - curchar
  IN  /\ killbuf # NULL
      /\ Room(Len(seen.killed))
      /\ first < LBSIZE /\ y.char + tail < LBSIZE
      /\ Becomes(SetDot(MarkSet(y.st, m, curline, curchar), y.line, y.char), "other")

Move == \E p \in Places(State) : Becomes(SetDot(State, p[1], p[2]), "other")

SetMark(m) == Becomes(MarkSet(State, m, curline, curchar), "other")

ExchPtMark(m) ==
  Becomes(MarkSet(SetDot(State, marks[m].line, marks[m].char), m, curline, curchar), "other")

(* SyncRec, a buffer switch or a save may come at any time.                *)
Lsave == Becomes(lsave(State), last_cmd)

Next ==
  \/ \E c \in Char : SelfInsert(c)
  \/ \E n \in 1..2 : Newline(n) \/ OpenLine(n) \/ \E str \in [1..n -> Char \cup {NL}] : InsStr(str)
  \/ \E dir \in {"forward", "backward"} : DelChar(dir)
  \/ \E p \in Places(State), moved \in BOOLEAN : KillTo(p[1], p[2], moved)
  \/ \E m \in Mark : DelReg(m) \/ CopyRegion(m) \/ Yank(m) \/ SetMark(m) \/ ExchPtMark(m)
  \/ Move
  \/ Lsave

Spec == Init /\ [][Next]_vars
-----------------------------------------------------------------------------
(* Lines fit linebuf, and the point is in the current line: no sequence of *)
(* insertions and joins of lines gets past the check of the length.        *)
TypeOK ==
  /\ l_next \in [Line -> Line \cup {NULL}] /\ l_prev \in [Line -> Line \cup {NULL}]
  /\ l_dline \in [Line -> String]
  /\ {b_first, b_last, curline} \subseteq Line
  /\ linebuf \in String /\ DOLsave \in BOOLEAN
  /\ curchar \in 0..Len(linebuf)
  /\ marks \in [Mark -> [line : Line, char : 0..(LBSIZE - 1)]]
  /\ killbuf \in Line \cup {NULL} /\ last_cmd \in {"kill", "other"}

(* The buffer is one doubly linked list from b_first to b_last that the    *)
(* point and every mark is in, and no line of it is in the kill.           *)
Linked ==
  LET ls == LineList(State, b_first)
  IN  /\ Last(ls) = b_last /\ l_prev[b_first] = NULL
      /\ \A k \in 2..Len(ls) : l_prev[ls[k]] = ls[k - 1]
      /\ curline \in ToSet(ls)
      /\ \A m \in Mark : /\ marks[m].line \in ToSet(ls)
                         /\ marks[m].char <= Len(lcontents(State, marks[m].line))
      /\ killbuf # NULL => Lines(State, killbuf) \cap ToSet(ls) = {}

(* Editing lists of lines, with its special cases for places in one line   *)
(* and in two, is editing one sequence of characters.                      *)
FT == INSTANCE FlatText WITH text <- seen.text, point <- seen.point, place <- seen.place,
                             killed <- seen.killed
Implements == FT!Spec
=============================================================================
