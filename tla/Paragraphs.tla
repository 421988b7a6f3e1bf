----------------------------- MODULE Paragraphs -----------------------------
(***************************************************************************)
(* Finding paragraphs and filling them (para.c).  A buffer b of Points.tla *)
(* also has lm, hi and bi: what the file keeps in use_lmargin, head_indent *)
(* and body_indent from one command to the next.  A paragraph delimiter is *)
(* what the pattern that is there at first says: a blank line, or one that *)
(* begins with a period or a backslash.                                    *)
(***************************************************************************)
EXTENDS Points

CONSTANTS LMargin, RMargin

\* -2 beyond the buffer, -1 for a delimiter; of lines that begin with a
\* backslash, the last one belongs to what follows.
bslash(t, l) == l \in DOMAIN t /\ At(t[l], 0) = "\\"
get_indent(t, l) ==
  CASE l \notin DOMAIN t -> -2
    [] bslash(t, l) -> IF l < Len(t) /\ At(t[l + 1], 0) # "\\" THEN 0 ELSE -1
    [] OTHER -> IF blnkp(t[l]) \/ t[l][1] = "." THEN -1
                ELSE LET p == CHOOSE q \in DOMAIN t[l] : t[l][q] \notin Blank /\ blnkp(SubSeq(t[l], 1, q - 1))
                     IN  calc_pos(t[l], p - 1)
i_blank(t, l) == get_indent(t, l) < 0
i_bsblank(t, l) == i_blank(t, l) \/ bslash(t, l)

tailrule(t, l) ==
  IF i_blank(t, l) THEN l
  ELSE CHOOSE m \in l .. Len(t) :
         /\ get_indent(t, m + 1) # get_indent(t, l) \/ bslash(t, m + 1)
         /\ \A k \in l + 1 .. m : get_indent(t, k) = get_indent(t, l) /\ ~bslash(t, k)
\* Rule 5: up to a line that is otherwise indented.
HeadFrom(t, lp) ==
  CASE i_blank(t, lp - 1) -> lp
    [] ~i_blank(t, lp - 1) /\ bslash(t, lp - 1) -> lp - 1
    [] OTHER -> IF get_indent(t, lp - 2) = get_indent(t, lp - 1) THEN lp ELSE lp - 1
headrule(t, this) ==
  LET Other(k) == i_bsblank(t, k) \/ get_indent(t, k) # get_indent(t, this)
  IN  HeadFrom(t, CHOOSE k \in 1 .. this : Other(k - 1) /\ \A j \in k .. this - 1 : ~Other(j))

Found(head, body, tail) == [head |-> head, body |-> body, tail |-> tail]
NoPara == Found(0, 0, 0)
\* The paragraph that line this is in, or the one after or before it.
RECURSIVE find_para(_, _, _)
find_para(t, this, how) ==
  LET up == {k \in 1 .. this : ~i_blank(t, k)}
      down == {k \in this .. Len(t) : ~i_blank(t, k)}
      prev == get_indent(t, this - 1)
      i == get_indent(t, this)
      next == get_indent(t, this + 1)
      hanging == prev > i /\ next = get_indent(t, this + 2)
      With(head, body) == Found(head, body, tailrule(t, body))
      HeadAt(head) == With(head, IF i_bsblank(t, head + 1) THEN head ELSE head + 1)
  IN  CASE i >= 0 /\ (i_bsblank(t, this) \/ prev < 0) -> HeadAt(this)
        [] i >= 0 /\ ~i_bsblank(t, this) /\ prev >= 0 ->
             IF i_bsblank(t, this + 1) THEN Found(headrule(t, this), this, this)
             ELSE IF next = i \/ prev = i THEN Found(headrule(t, this), this, tailrule(t, this))
             ELSE IF hanging \/ i > prev THEN With(this, this + 1) ELSE With(this - 1, this)
        [] i < 0 /\ how = BACKWARD ->
             IF up = {} THEN NoPara ELSE find_para(t, CHOOSE k \in up : \A j \in up : j <= k, how)
        [] i < 0 /\ how = FORWARD ->
             IF down = {} THEN NoPara ELSE HeadAt(CHOOSE k \in down : \A j \in down : k <= j)
\* Without one, the search has gone to an end of the buffer.
Lost(b, how) == complain(Goto(b, IF how = FORWARD THEN <<Len(b.text), 0>> ELSE <<1, 0>>))
Indents(b, p) == [b EXCEPT !.hi = get_indent(b.text, p.head), !.bi = get_indent(b.text, p.body)]

-----------------------------------------------------------------------------
(* DoJustify.  Words go on the line as long as they fit; spaces between    *)
(* them become one, or two after the end of a sentence.                    *)

Closers == {"\"", "'", ")", "]"}
\* A sentence ends before position c1.
SentenceTo(line, c1) ==
  LET topunct == CHOOSE p \in 0 .. c1 - 1 : /\ p = 0 \/ At(line, p) \notin Closers
                                            /\ \A q \in p + 1 .. c1 - 1 : At(line, q) \in Closers
  IN  c1 > 0 /\ topunct > 0 /\ (At(line, c1 - 1) = ":" \/ At(line, topunct) \in {"?", "!", "."})
SpaceAt(b, c1) ==      \* the whitespace from c1 to the point
  LET line == linebuf(b)
      diff == b.dot[2] - c1
      sentence == diff >= 2 /\ SentenceTo(line, c1)
      nspace == IF c1 = 0 \/ eolp(b) THEN 0 ELSE IF sentence THEN 2 ELSE 1
      funny == \E p \in c1 .. b.dot[2] - 1 : At(line, p) = "\t"
  IN  IF diff # 0 /\ (funny \/ diff > nspace)
      THEN del_char(ins_str(ToChar(b, c1), Spaces(nspace)), diff) ELSE b
do_space(b) == SpaceAt(skip_wht_space(b), BackOverSpace(linebuf(b), b.dot[2]))

\* The line is broken after okay, the end of what fits.
Scrunched(b) == IF TwoBlank(b) THEN Bol(del_char(Eol(b), 1)) ELSE b
Split(b, okay) == DelWtSpace(f_char(DelWtSpace(b_char(LineInsert(ToChar(b, okay), 1), 1)), 1))
Break(b, okay, scrunch, indent) ==
  n_indent(IF scrunch THEN Scrunched(Split(b, okay)) ELSE Split(b, okay), indent)
JoinSlip(b) == IF eolp(b) /\ ~lastp(b) THEN del_char(b, 1) ELSE b      \* mutant: no space in place of the newline
Join(b) == IF eolp(b) /\ ~lastp(b) THEN del_char(ins_str(b, Spaces(2)), 1) ELSE b
FitsSlip(b, to, okay, start) ==      \* mutant: the last column is not used
  to = b.dot[2] \/ okay = start \/ calc_pos(linebuf(b), to) < RMargin
Fits(b, to, okay, start) == to = b.dot[2] \/ okay = start \/ calc_pos(linebuf(b), to) <= RMargin
WordEnd(b) == LET line == linebuf(b) IN
  CHOOSE p \in b.dot[2] .. Len(line) :
    (p = Len(line) \/ At(line, p) \in Blank) /\ \A q \in b.dot[2] .. p - 1 : At(line, q) \notin Blank
RECURSIVE Justify(_, _, _, _, _), JustifyAt(_, _, _, _, _), JustifyFrom(_, _, _)
Justify(b, okay, start, scrunch, indent) ==
  IF Fits(b, WordEnd(b), okay, start) THEN JustifyAt(ToChar(b, WordEnd(b)), okay, start, scrunch, indent)
  ELSE JustifyFrom(Break(b, okay, scrunch, indent), scrunch, indent)
JustifyAt(b, okay, start, scrunch, indent) ==
  LET next == do_space(Join(b))
  IN  CASE b.dot[1] = b.marks["end"][1] /\ b.dot[2] >= b.marks["end"][2] -> b
        [] OTHER -> IF next = b THEN [b EXCEPT !.what = "hangs"]       \* it goes round and round
                    ELSE Justify(next, b.dot[2], start, scrunch, indent)
JustifyFrom(b, scrunch, indent) == Justify(b, b.dot[2], b.dot[2], scrunch, indent)

Marked(b, name, d) == [b EXCEPT !.marks = (name :> d) @@ @]
Unmarked(b, names) == [b EXCEPT !.marks = [m \in DOMAIN @ \ names |-> @[m]]]
ToMark(b, name) == Goto(b, b.marks[name])
\* The text from d to e, either way round.
Begun(b, inside, indent) ==
  CASE inside /\ b.lm -> ToIndent([DoIndent(b, indent + b.hi - b.bi) EXCEPT !.lm = FALSE])
    [] inside /\ ~b.lm -> ToIndent(b)
    [] OTHER -> b
DoJustify(b, d, e, scrunch, indent) ==
  LET from == First({d, e}, d)
      start == Begun(Goto(Marked(b, "saved", b.dot), from), get_indent(b.text, from[1]) >= from[2], indent)
      done == JustifyFrom(Marked(start, "end", Latest({d, e}, d)), scrunch, indent)
  IN  Unmarked(ToMark(done, "saved"), {"saved", "end"})

Margin(b) == IF b.lm THEN LMargin ELSE b.bi
FillFound(b, p) ==
  LET in == Indents(b, p)
  IN  IF p = NoPara THEN Lost(b, BACKWARD)
      ELSE DoJustify(in, <<p.head, 0>>, <<p.tail, Len(b.text[p.tail])>>, FALSE, Margin(in))
FillParagraph(b, isarg) == FillFound([b EXCEPT !.lm = isarg], find_para(b.text, b.dot[1], BACKWARD))

\* One paragraph after the other, from d to the mark "region".
RECURSIVE FillFrom(_, _), FillNext(_, _, _), FillOn(_)
FillFrom(b, d) == FillNext(Goto(b, d), d, find_para(b.text, d[1], FORWARD))
FillNext(b, d, p) ==
  LET end == b.marks["region"]
      from == IF d[1] >= p.head THEN d ELSE <<p.head, 0>>
      to == IF end[1] <= p.tail THEN end ELSE <<p.tail, Len(b.text[p.tail])>>
      in == Marked(Indents(b, p), "tail", to)
  IN  IF p = NoPara THEN Lost(b, FORWARD)
      ELSE FillOn(ToMark(IF from = to THEN in ELSE DoJustify(in, from, to, FALSE, Margin(in)), "tail"))
FillOn(b) ==
  LET l1 == b.dot[1] + 1
      over == b.dot[1] = b.marks["region"][1] \/ l1 > Len(b.text) \/ b.marks["region"] = <<l1, 0>>
  IN  IF over \/ b.what # "ok" THEN b ELSE FillFrom(b, <<l1, 0>>)
do_rfill(b, ulm) ==
  LET d == b.dot
      e == b.marks["mark"]
      in == Marked([b EXCEPT !.lm = ulm], "region", Latest({d, e}, d))
  IN  Unmarked(FillFrom(in, First({d, e}, d)), {"region", "tail"})
FillRegion(b, isarg) == IF b.marks["mark"] = b.dot THEN complain(b) ELSE do_rfill(b, isarg)

-----------------------------------------------------------------------------
(* DoPara.  first: first_time, which changes whenever a step back is made. *)

RECURSIVE ParaFrom(_, _, _, _), ParaAt(_, _, _, _, _)
ParaFrom(b, dir, n, first) ==
  IF n = 0 THEN b ELSE ParaAt(b, find_para(b.text, b.dot[1], dir), dir, n, first)
ParaAt(b, p, dir, n, first) ==
  LET in == Indents(b, p)
      again == dir = BACKWARD /\ (~first \/ (p.head = b.dot[1] /\ bolp(b)))
      up == IF p.head > 1 /\ i_blank(b.text, p.head - 1) THEN p.head - 1 ELSE p.head
  IN  CASE p = NoPara -> Lost(b, dir)
        [] p # NoPara /\ again -> IF bobp(b) THEN complain(in) ELSE ParaFrom(b_char(in, 1), dir, n, ~first)
        [] OTHER -> IF dir = BACKWARD THEN ParaFrom(Goto(in, <<up, 0>>), dir, n - 1, first)
                    ELSE IF p.tail = Len(b.text) THEN ToLast(in)
                    ELSE ParaFrom(Goto(in, <<p.tail + 1, 0>>), dir, n - 1, first)
DoPara(b, dir, n) == IF n < 0 THEN ParaFrom(b, 0 - dir, 0 - n, TRUE) ELSE ParaFrom(b, dir, n, TRUE)
=============================================================================
