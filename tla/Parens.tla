------------------------------- MODULE Parens -------------------------------
(***************************************************************************)
(* Parentheses: finding the one that matches, moving over expressions, and *)
(* the indentation of C (c.c).  CMode: the major mode is C.                *)
(***************************************************************************)
EXTENDS Points

CONSTANT CIndIncrmt

Opening == {"(", "{", "["}              \* jisopenp
Closing == {")", "}", "]"}              \* jisclosep
Match(p) == CASE p = "(" -> ")" [] p = ")" -> "(" [] p = "{" -> "}" [] p = "}" -> "{" [] p = "[" -> "]" [] p = "]" -> "["
Quotes == {"\"", "'"}
\* An odd number of backslashes before it.
backslashed(line, p) ==
  LET n == CHOOSE k \in 0 .. p : /\ \A j \in 1 .. k : At(line, p - j) = "\\"
                                 /\ k = p \/ At(line, p - k - 1) # "\\"
  IN  n % 2 = 1
Stops(CMode) == Opening \cup Closing \cup {"\""} \cup (IF CMode THEN {"/", "'"} ELSE {})
\* What m_paren looks at, in the order it comes to it.
Ahead(b, dir, CMode) ==
  LET Stop(d) == /\ At(b.text[d[1]], d[2]) \in Stops(CMode)
                 /\ IF dir = FORWARD THEN ~Earlier(d, b.dot) ELSE Earlier(d, b.dot)
      ds == SelectSeq(InOrder(b.text), Stop)
  IN  IF dir = FORWARD THEN ds ELSE Reverse(ds)

\* A "/" may begin or end a comment; ic is "yes", "no" or not known yet, and then
\* all that has been seen was in it.
Comment(s, line, p, dir) ==
  LET ends == p > 0 /\ At(line, p - 1) = "*"
      begins == ~ends /\ At(line, p + 1) = "*"
      new == IF (ends /\ dir = FORWARD) \/ (begins /\ dir = BACKWARD) THEN "no"
             ELSE IF ends \/ begins THEN "yes" ELSE s.ic
      all == (ends \/ begins) /\ new = "no" /\ s.ic = "?"
  IN  [s EXCEPT !.ic = new, !.count = IF all THEN 0 ELSE @]
\* One of them; count: how many more than p_type are open.
Counted(s, d, dir, stop) ==
  LET c == s.c
      quote == CASE c \in Quotes /\ s.quote = c -> NUL
                 [] c \in Quotes /\ s.quote = NUL -> c
                 [] OTHER -> s.quote
      count == IF c \in Opening THEN s.count + dir ELSE IF c \in Closing THEN s.count - dir ELSE s.count
  IN  CASE s.ic = "yes" -> s
        [] s.ic # "yes" /\ quote # NUL -> [s EXCEPT !.quote = quote]
        [] OTHER -> [s EXCEPT !.quote = quote, !.count = count,
                              !.stopped = c \in Opening /\ d[2] = 0 /\ stop /\ count >= 0]
Seen(b, s, d, dir, stop) ==
  LET line == b.text[d[1]]
      c == At(line, d[2])
      t == [s EXCEPT !.c = c, !.at = d]
  IN  IF backslashed(line, d[2]) THEN [s EXCEPT !.at = d]
      ELSE Counted(IF s.quote = NUL /\ c = "/" THEN Comment(t, line, d[2], dir) ELSE t, d, dir, stop)
\* kind: mp_kind; at: where it has come to; ret: NULL is <<>>.
Outcome(end, p_type, dir, mismatch) ==
  LET kind == CASE end.count >= 0 -> "unbalanced"
                [] end.count < 0 /\ end.c # Match(p_type) -> "mismatch"
                [] OTHER -> "okay"
      at == IF dir = FORWARD THEN <<end.at[1], end.at[2] + 1>> ELSE end.at
  IN  [kind |-> IF end.stopped THEN "okay" ELSE kind,
       ret |-> IF ~end.stopped /\ (kind = "okay" \/ (kind = "mismatch" /\ mismatch)) THEN at ELSE <<>>]
m_paren(b, p_type, dir, mismatch, stop, CMode) ==
  Outcome(FoldLeft(LAMBDA s, d : IF s.count < 0 \/ s.stopped THEN s ELSE Seen(b, s, d, dir, stop),
                   [count |-> 0, quote |-> NUL, ic |-> "?", c |-> NUL, at |-> b.dot, stopped |-> FALSE],
                   Ahead(b, dir, CMode)),
          p_type, dir, mismatch)
ToMatch(b, m) == IF m.ret = <<>> THEN b ELSE Goto(b, m.ret)

FindMatchSlip(b, dir, CMode) ==      \* mutant: from the parenthesis itself, not from after it
  IF Here(b) \notin Opening \cup Closing \/ backslashed(linebuf(b), b.dot[2]) THEN complain(b)
  ELSE ToMatch(b, m_paren(b, Here(b), dir, TRUE, FALSE, CMode))
FindMatch(b, dir, CMode) ==
  LET from == IF dir = FORWARD THEN f_char(b, 1) ELSE b
  IN  IF Here(b) \notin Opening \cup Closing \/ backslashed(linebuf(b), b.dot[2]) THEN complain(b)
      ELSE ToMatch(b, m_paren(from, Here(b), dir, TRUE, FALSE, CMode))
RECURSIVE ToExpr(_, _, _, _), Exprs(_, _, _, _)
ToExpr(b, dir, words, CMode) ==
  LET p == b.dot[2]
      line == linebuf(b)
      wordEnd == CHOOSE q \in p .. Len(line) : ~jisident(At(line, q)) /\ \A r \in p .. q - 1 : jisident(At(line, r))
      wordStart == CHOOSE q \in 0 .. p : /\ q = 0 \/ ~jisident(At(line, q - 1))
                                         /\ \A r \in q .. p : jisident(At(line, r))
      next == f_char(b, dir)
  IN  CASE words /\ jisident(Here(b)) -> ToChar(b, IF dir = FORWARD THEN wordEnd ELSE wordStart)
        [] ~(words /\ jisident(Here(b))) /\ Here(b) \in (IF dir = FORWARD THEN Opening ELSE Closing) ->
             FindMatch(b, dir, CMode)
        [] OTHER -> IF eobp(next) \/ bobp(next) THEN next ELSE ToExpr(next, dir, words, CMode)
do_expr(b, dir, words, CMode) == ToExpr(IF dir = BACKWARD THEN b_char(b, 1) ELSE b, dir, words, CMode)
Exprs(b, n, words, CMode) ==      \* FSexpr, BSexpr, FList, BList
  CASE n = 0 \/ b.what # "ok" -> b
    [] n > 0 /\ b.what = "ok" -> Exprs(do_expr(b, FORWARD, words, CMode), n - 1, words, CMode)
    [] OTHER -> Exprs(do_expr(b, BACKWARD, words, CMode), n + 1, words, CMode)
BUpList(b, CMode) == ToMatch(b, m_paren(b, ")", BACKWARD, TRUE, TRUE, CMode))
FDownList(b) ==
  LET ds == {d \in Positions(b) : At(b.text[d[1]], d[2]) \in Opening \cup Closing /\ ~Earlier(d, b.dot)}
      d == First(ds, b.dot)
  IN  IF ds = {} \/ At(b.text[d[1]], d[2]) \in Closing THEN complain(b) ELSE Goto(b, <<d[1], d[2] + 1>>)

-----------------------------------------------------------------------------
\* The column of the next tab stop of C, and where a line that begins inside of
\* what bp opens is to be indented; an argument lines up with the first one.
NextTab(col) == col + (CIndIncrmt - (col % CIndIncrmt))
ToColumn(b, brace, correct) ==
  LET current == Column(ToIndent(b))
  IN  DoIndent(b, IF ~brace /\ correct <= current THEN NextTab(current) ELSE correct)
IndentIn(b, brace, at, head) ==
  LET left == Column(ToIndent(head))
      correct == CASE Here(at) = "{" -> IF brace THEN left ELSE NextTab(left)
                   [] Here(at) = "(" -> Column(at) + 1
                   [] OTHER -> 0
  IN  IF Here(at) = "{" /\ head.what # "ok" THEN head ELSE ToColumn(b, brace, correct)
Statement(at) ==      \* the expression that bp opens is part of, or bp if that begins its line
  LET before == b_char(at, 1)
  IN  IF bolp(at) \/ within_indent(before) THEN at ELSE do_expr(before, BACKWARD, TRUE, TRUE)
IndentAs(b, brace, m) ==
  IF m.ret = <<>> THEN ToColumn(b, brace, 0) ELSE IndentIn(b, brace, Goto(b, m.ret), Statement(Goto(b, m.ret)))
c_indent(b, brace) == IndentAs(b, brace, m_paren(b, "}", BACKWARD, TRUE, TRUE, TRUE))
\* LRShift and RRShift
RECURSIVE Shift(_, _, _, _)
Shift(b, l, l2, incr) ==
  LET at == ToIndent(Goto(b, <<l, 0>>))
      new == IF linebuf(at) = <<>> THEN at ELSE n_indent(at, Column(at) + incr)
  IN  IF l > l2 THEN b ELSE Shift(new, l + 1, l2, incr)
re_indent(b, incr) ==
  LET d == b.dot  e == b.marks["mark"]
  IN  Goto(Shift(b, First({d, e}, d)[1], Latest({d, e}, d)[1], incr), d)
=============================================================================
