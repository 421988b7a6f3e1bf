------------------------------- MODULE Points -------------------------------
(***************************************************************************)
(* Moving about in a buffer and changing it, as the commands of the editor *)
(* do it (move.c, util.c, insert.c, delete.c, misc.c, case.c): the lines   *)
(* as they read, the point and the marks, and not how they are stored.     *)
(*                                                                         *)
(* A buffer b has text (lines of characters), dot and marks (a line number *)
(* and a position 0 .. length); line_pos and lined belong to line_move;    *)
(* what: "ok", or "complains", and then nothing more is done to it.        *)
(***************************************************************************)
EXTENDS Regexp

CONSTANT tabstop

Blank == {" ", "\t"}                    \* jiswhite
UpperOf == "a" :> "A" @@ "b" :> "B"
LowerOf == "A" :> "a" @@ "B" :> "b"
jisword(c) == c \in DOMAIN UpperOf \cup DOMAIN LowerOf
CharUpcase(c) == IF c \in DOMAIN UpperOf THEN UpperOf[c] ELSE c
CharDowncase(c) == IF c \in DOMAIN LowerOf THEN LowerOf[c] ELSE c

linebuf(b) == b.text[b.dot[1]]
Here(b) == At(linebuf(b), b.dot[2])
Earlier(d, e) == d[1] < e[1] \/ (d[1] = e[1] /\ d[2] < e[2])
blnkp(line) == \A i \in DOMAIN line : line[i] \in Blank
bolp(b) == b.dot[2] = 0
eolp(b) == b.dot[2] = Len(linebuf(b))
firstp(b) == b.dot[1] = 1
lastp(b) == b.dot[1] = Len(b.text)
bobp(b) == firstp(b) /\ bolp(b)
eobp(b) == lastp(b) /\ eolp(b)
complain(b) == [b EXCEPT !.what = "complains"]
calc_pos(line, c) ==
  FoldLeft(LAMBDA col, e : IF e = "\t" THEN col + (tabstop - (col % tabstop)) ELSE col + 1, 0, SubSeq(line, 1, c))
how_far(line, col) == CHOOSE i \in 0 .. Len(line) :
  /\ i = Len(line) \/ calc_pos(line, i + 1) > col
  /\ \A j \in 0 .. i - 1 : calc_pos(line, j + 1) <= col

-----------------------------------------------------------------------------
(* The point.                                                              *)

Goto(b, d) == IF b.what # "ok" THEN b
              ELSE [b EXCEPT !.dot = <<d[1], IF d[2] > Len(b.text[d[1]]) THEN Len(b.text[d[1]]) ELSE d[2]>>]
ToChar(b, p) == Goto(b, <<b.dot[1], p>>)   \* curchar = p
Bol(b) == ToChar(b, 0)
Eol(b) == ToChar(b, Len(linebuf(b)))
ToLast(b) == Eol(Goto(b, <<Len(b.text), 0>>))
CharAfter(b, d) == IF d[2] < Len(b.text[d[1]]) THEN <<d[1], d[2] + 1>>
                   ELSE IF d[1] < Len(b.text) THEN <<d[1] + 1, 0>> ELSE d
CharBefore(b, d) == IF d[2] > 0 THEN <<d[1], d[2] - 1>>
                    ELSE IF d[1] > 1 THEN <<d[1] - 1, Len(b.text[d[1] - 1])>> ELSE d
RECURSIVE f_char(_, _)
f_char(b, n) == CASE n = 0 -> b
                  [] n > 0 -> f_char(Goto(b, CharAfter(b, b.dot)), n - 1)
                  [] n < 0 -> f_char(Goto(b, CharBefore(b, b.dot)), n + 1)
b_char(b, n) == f_char(b, 0 - n)
skip_wht_space(b) == ToChar(b, CHOOSE p \in b.dot[2] .. Len(linebuf(b)) :
  /\ At(linebuf(b), p) \notin Blank
  /\ \A q \in b.dot[2] .. p - 1 : At(linebuf(b), q) \in Blank)
ToIndent(b) == skip_wht_space(Bol(b))
within_indent(b) == blnkp(SubSeq(linebuf(b), 1, b.dot[2]))
Column(b) == calc_pos(linebuf(b), b.dot[2])

\* Where the next word begins, or the one before ends; else an end of the buffer.
InOrder(t) == FlattenSeq([l \in DOMAIN t |-> [p \in 1 .. Len(t[l]) + 1 |-> <<l, p - 1>>]])
Positions(b) == ToSet(InOrder(b.text))
First(ds, none) == IF ds = {} THEN none ELSE CHOOSE d \in ds : \A e \in ds : ~Earlier(e, d)
Latest(ds, none) == IF ds = {} THEN none ELSE CHOOSE d \in ds : \A e \in ds : ~Earlier(d, e)
to_word(b, dir) ==
  LET word(d, p) == jisword(At(b.text[d[1]], p))
  IN  Goto(b, IF dir = FORWARD
              THEN First({d \in Positions(b) : ~Earlier(d, b.dot) /\ word(d, d[2])},
                         <<Len(b.text), Len(Last(b.text))>>)
              ELSE Latest({d \in Positions(b) : ~Earlier(b.dot, d) /\ word(d, d[2] - 1)}, <<1, 0>>))
RECURSIVE PastWord(_, _), f_word(_, _), WordsFrom(_, _)
PastWord(b, dir) ==
  LET p == b.dot[2]
  IN  CASE dir = FORWARD -> IF jisword(Here(b)) THEN PastWord(ToChar(b, p + 1), dir) ELSE b
        [] dir = BACKWARD -> IF p > 0 /\ jisword(At(linebuf(b), p - 1)) THEN PastWord(ToChar(b, p - 1), dir) ELSE b
AtAnEnd(b, dir) == IF dir = BACKWARD THEN bobp(b) ELSE eobp(b)
Sign(n) == IF n < 0 THEN BACKWARD ELSE FORWARD
f_word(b, n) == IF n = 0 THEN b ELSE WordsFrom(PastWord(to_word(b, Sign(n)), Sign(n)), n)
WordsFrom(b, n) == IF AtAnEnd(b, Sign(n)) THEN b ELSE f_word(b, n - Sign(n))

\* next_line and prev_line stop at the ends of the buffer.
LineBy(b, n) == LET l == b.dot[1] + n IN IF l < 1 THEN 1 ELSE IF l > Len(b.text) THEN Len(b.text) ELSE l
line_move(b, n, line_cmd) ==
  LET l == LineBy(b, n)
      pos == IF b.lined THEN b.line_pos ELSE Column(b)
  IN  CASE l = b.dot[1] -> IF n > 0 THEN Eol(b) ELSE Bol(b)
        [] l # b.dot[1] /\ ~line_cmd -> Goto(b, <<l, 0>>)
        [] OTHER -> [Goto(b, <<l, how_far(b.text[l], pos)>>) EXCEPT !.line_pos = pos, !.lined = TRUE]

\* The ends of sentences: "^[ \t]*$\|[?.!]\{''\|[\"')\]]\|\}\{$\|[ \t]\}".
SentenceEnd ==
  <<"^", "[", " ", "\t", "]", "*", "$", "\\", "|", "[", ".", "]", "\\", "{", "[", "\"", ")", "]", "\\", "|", "\\", "}",
    "\\", "{", "$", "\\", "|", "[", " ", "\t", "]", "\\", "}">>
\* old: where this turn began.  REbom is looked for again: the [?.!] before new.
RECURSIVE to_sent(_, _), SentenceIn(_, _, _), SentenceAt(_, _, _)
to_sent(b, dir) == SentenceIn(b, dosearch(b.text, b.dot, dir, SentenceEnd, TRUE, FALSE), dir)
SentenceIn(b, found, dir) ==
  IF found # {} THEN SentenceAt(b, Goto(b, CHOOSE d \in found : TRUE), dir)
  ELSE IF dir = BACKWARD THEN Goto(b, <<1, 0>>) ELSE ToLast(b)
SentenceAt(b, at, dir) ==
  LET new == at.dot
      word == to_word(at, FORWARD)
      up == b_char(Bol(at), 1)
      stop == CHOOSE p \in 0 .. new[2] : /\ At(linebuf(at), p) \in {"?", ".", "!"}
                                         /\ \A q \in p + 1 .. new[2] - 1 : At(linebuf(at), q) \notin {"?", ".", "!"}
      close == IF At(linebuf(at), stop + 1) \in {"\"", ")"} THEN stop + 2 ELSE stop + 1
  IN  CASE dir = BACKWARD ->
             IF /\ word.dot[1] # b.dot[1] \/ word.dot[2] < b.dot[2]
                /\ ~Earlier(new, b.dot) \/ ~Earlier(b.dot, word.dot)
             THEN word ELSE to_sent(at, dir)
        [] dir = FORWARD ->
             IF blnkp(linebuf(at))
             THEN IF up.dot[1] # b.dot[1] \/ up.dot[2] > b.dot[2] THEN up ELSE to_sent(to_word(up, FORWARD), dir)
             ELSE ToChar(at, close)

-----------------------------------------------------------------------------
(* Changes.                                                                *)

Fixed(b, text, to, Mark(_)) == [b EXCEPT !.text = text, !.dot = to, !.marks = [m \in DOMAIN @ |-> Mark(@[m])]]
\* patchup and lremove: what is from d to e goes, and the marks in it to d.
Delete(b, d, e) ==
  LET Mark(m) == CASE Earlier(e, m) /\ m[1] = e[1] -> <<d[1], m[2] - (e[2] - d[2])>>
                   [] m[1] > e[1] -> <<m[1] - (e[1] - d[1]), m[2]>>
                   [] Earlier(d, m) /\ ~Earlier(e, m) -> d
                   [] OTHER -> m
      line == SubSeq(b.text[d[1]], 1, d[2]) \o After(b.text[e[1]], e[2])
  IN  IF b.what # "ok" THEN b
      ELSE Fixed(b, SubSeq(b.text, 1, d[1] - 1) \o <<line>> \o After(b.text, e[1]), d, Mark)
del_char(b, n) ==
  LET to == f_char(b, n).dot
  IN  IF to = b.dot THEN complain(b) ELSE IF n > 0 THEN Delete(b, b.dot, to) ELSE Delete(b, to, b.dot)
\* A mark at the point stays before what is inserted there.
ins_str(b, s) ==
  LET l == b.dot[1]  p == b.dot[2]
      Mark(m) == IF m[1] = l /\ m[2] > p THEN <<l, m[2] + Len(s)>> ELSE m
  IN  IF b.what # "ok" THEN b
      ELSE Fixed(b, [b.text EXCEPT ![l] = SubSeq(@, 1, p) \o s \o After(@, p)], <<l, p + Len(s)>>, Mark)
LineInsert(b, n) ==
  LET l == b.dot[1]  p == b.dot[2]
      Mark(m) == CASE m[1] = l /\ m[2] > p -> <<l + n, m[2] - p>>
                   [] m[1] > l -> <<m[1] + n, m[2]>>
                   [] OTHER -> m
  IN  IF b.what # "ok" THEN b
      ELSE Fixed(b, SubSeq(b.text, 1, l - 1) \o <<SubSeq(linebuf(b), 1, p)>> \o [i \in 1 .. n - 1 |-> <<>>]
                      \o <<After(linebuf(b), p)>> \o After(b.text, l), <<l + n, 0>>, Mark)
BackOverSpace(line, p) == CHOOSE q \in 0 .. p : blnkp(SubSeq(line, q + 1, p)) /\ (q = 0 \/ At(line, q - 1) \notin Blank)
DelWtSpace(b) == Delete(b, <<b.dot[1], BackOverSpace(linebuf(b), b.dot[2])>>, skip_wht_space(b).dot)
Spaces(n) == IF n <= 0 THEN <<>> ELSE [i \in 1 .. n |-> " "]
RECURSIVE Indentation(_, _)
Indentation(col, goal) ==
  LET incrmt == tabstop - (col % tabstop)
  IN  IF col + incrmt <= goal THEN <<"\t">> \o Indentation(col + incrmt, goal) ELSE Spaces(goal - col)
IndentTo(b, goal) == ins_str(b, Indentation(Column(b), goal))
n_indent(b, goal) == IndentTo(DelWtSpace(b), goal)
DoIndent(b, goal) == n_indent(Bol(b), goal)
TwoBlank(b) == b.dot[1] + 2 <= Len(b.text) /\ b.text[b.dot[1] + 1] = <<>> /\ b.text[b.dot[1] + 2] = <<>>

TransChar(b) ==
  LET at == IF eolp(b) THEN b_char(b, 1) ELSE b
      before == At(linebuf(at), at.dot[2] - 1)
  IN  IF bolp(b) \/ (eolp(b) /\ b.dot[2] = 1) THEN complain(b)
      ELSE ins_str(f_char(del_char(at, -1), 1), <<before>>)
\* The lines change places and the marks do not.
TransLines(b) ==
  LET l == b.dot[1]
      new == [b EXCEPT !.text[l] = b.text[l - 1], !.text[l - 1] = b.text[l]]
  IN  IF firstp(b) THEN b ELSE IF lastp(b) THEN Eol(new) ELSE Goto(new, <<l + 1, 0>>)
RECURSIVE DelBlank(_)
DelBlank(b) == IF b.what = "ok" /\ blnkp(linebuf(b)) /\ ~eobp(b) THEN DelBlank(del_char(DelWtSpace(b), 1)) ELSE b
DelBlnkLines(b) ==
  LET l == CHOOSE k \in 1 .. b.dot[1] : /\ \A j \in k + 1 .. b.dot[1] : blnkp(b.text[j])
                                        /\ k = 1 \/ ~blnkp(b.text[k])
      all == ~blnkp(linebuf(b)) \/ l = 1
      marked == [b EXCEPT !.marks = ("dot" :> b.dot) @@ @]
      del == DelBlank(line_move(DelWtSpace(Eol(Goto(marked, <<l, 0>>))), 1, FALSE))
      new == IF ~all /\ ~eobp(del) THEN LineInsert(del, 1) ELSE del
  IN  IF ~blnkp(After(linebuf(b), b.dot[2])) THEN b ELSE Goto(new, new.marks["dot"])
\* case_reg goes on for ever if its end is beyond the end of a line.
Cased(b, d, e, up) ==
  LET end == Latest({d, e}, d)
      over == end[2] > Len(b.text[end[1]])
      In(l, p) == ~Earlier(<<l, p>>, First({d, e}, d)) /\ (over \/ Earlier(<<l, p>>, end))
      Case(l, i) == IF ~In(l, i - 1) THEN b.text[l][i]
                    ELSE IF up THEN CharUpcase(b.text[l][i]) ELSE CharDowncase(b.text[l][i])
  IN  [b EXCEPT !.text = [l \in DOMAIN @ |-> [i \in DOMAIN @[l] |-> Case(l, i)]],
                !.what = IF over THEN "hangs" ELSE @]
CapWord(b) ==
  LET at == to_word(b, FORWARD)
      end == PastWord(f_char(at, 1), FORWARD)
      up == Cased(at, at.dot, f_char(at, 1).dot, TRUE)
  IN  IF eobp(at) THEN at ELSE [Cased(up, f_char(at, 1).dot, end.dot, FALSE) EXCEPT !.dot = end.dot]
=============================================================================
