------------------------------- MODULE Regexp -------------------------------
(***************************************************************************)
(* Search patterns (re.c): do_comp compiles the characters of a pattern,   *)
(* REmatch runs what it has compiled, re_lindex tries the positions of a   *)
(* line and docompiled the lines of a buffer.  Operators only: Search.tla  *)
(* has the state they work on, Patterns.tla says what a pattern means.     *)
(*                                                                         *)
(* A line is a sequence of characters and a position one of 0 .. Len(line);*)
(* at the last there is NUL.  Code is a sequence of instructions, EOP at   *)
(* its end; a dot is a line number and a position.                         *)
(***************************************************************************)
EXTENDS Integers, Sequences, SequencesExt, FiniteSets, TLC

CONSTANT Order        \* the characters, in their order, of words (jisident) and others
CONSTANT Idents

NUL == ""
NPAR == 10            \* 0 is the whole match
NALTS == 16
FORWARD == 1
BACKWARD == -1

At(line, p) == IF p \in 0 .. Len(line) - 1 THEN line[p + 1] ELSE NUL
jisident(c) == c \in Idents
Until(c, d) == LET rank == [e \in ToSet(Order) |-> CHOOSE i \in DOMAIN Order : Order[i] = e]
               IN  {e \in ToSet(Order) : rank[c] <= rank[e] /\ rank[e] < rank[d]}
After(s, k) == SubSeq(s, k + 1, Len(s))

-----------------------------------------------------------------------------
(* in: what REgetc has yet to give; code and open (parens): of this        *)
(* activation of do_comp; np: r_nparens; alts: the alternatives before;    *)
(* outer: outer_max_paren; done: it ended with \}.                         *)

Op(name) == [op |-> name]
NORMC(s) == [op |-> "NORMC", s |-> s]
OPENP(n) == [op |-> "OPENP", n |-> n]
CLOSEP(n) == [op |-> "CLOSEP", n |-> n]

Wrong(s) == [s EXCEPT !.wrong = TRUE]
Emit(s, op) == [s EXCEPT !.code = Append(@, op)]

\* A character joins the string before it.
Literal(s, c) ==
  IF s.code # <<>> /\ Last(s.code).op = "NORMC"
  THEN [s EXCEPT !.code = Append(Front(@), NORMC(Append(Last(@).s, c)))]
  ELSE Emit(s, NORMC(<<c>>))

StarSlip(s) ==      \* mutant: the star applies to the whole string
  IF s.code = <<>> \/ Last(s.code).op \notin {"ANYC", "NORMC", "SET", "BACKREF"} THEN Literal(s, "*")
  ELSE [s EXCEPT !.code = Append(Front(@), [op |-> "STAR", of |-> Last(@)])]
\* A star applies to the last character of a string only.
Star(s) ==
  IF s.code = <<>> \/ Last(s.code).op \notin {"ANYC", "NORMC", "SET", "BACKREF"} THEN Literal(s, "*")
  ELSE LET last == Last(s.code)
           split == last.op = "NORMC" /\ Len(last.s) > 1
       IN  [s EXCEPT !.code = Front(@)
              \o (IF split THEN <<NORMC(Front(last.s))>> ELSE <<>>)
              \o <<[op |-> "STAR", of |-> IF split THEN NORMC(<<Last(last.s)>>) ELSE last]>>]
Open(s) == IF s.np >= NPAR THEN Wrong(s)
           ELSE [Emit(s, OPENP(s.np)) EXCEPT !.open = Append(@, s.np), !.np = @ + 1]
Close(s) == IF s.open = <<>> THEN Wrong(s)
            ELSE [Emit(s, CLOSEP(Last(s.open))) EXCEPT !.open = Front(@)]

\* Members of a set, from the first of in; c, or c-d.
RECURSIVE Members(_, _)
Members(in, set) ==
  LET k == IF At(in, 0) = "\\" THEN 1 ELSE 0
      range == At(in, k + 1) = "-"
      l == IF ~range THEN k ELSE IF At(in, k + 2) = "\\" THEN k + 3 ELSE k + 2
      c == At(in, k)
      d == At(in, l)
      all == set \cup {d} \cup (IF range THEN Until(c, d) ELSE {})
  IN  IF c = NUL \/ d = NUL THEN [ok |-> FALSE]
      ELSE IF range /\ l = k + 2 /\ d = "]"
      THEN [ok |-> TRUE, set |-> set \cup {c, "-"}, in |-> After(in, l + 1)]
      ELSE IF At(in, l + 1) = "]" THEN [ok |-> TRUE, set |-> all, in |-> After(in, l + 2)]
      ELSE Members(After(in, l + 1), all)
Bracket(s) ==
  LET none == At(s.in, 0) = "^"
      m == Members(IF none THEN Tail(s.in) ELSE s.in, {})
  IN  IF ~m.ok THEN Wrong(s)
      ELSE [Emit(s, [op |-> "SET", set |-> m.set, none |-> none]) EXCEPT !.in = m.in]

\* The end of the pattern or of a top-level alternative.
CloseOff(s) ==
  LET t == Close(s)
  IN  IF t.wrong \/ t.open # <<>> \/ t.outer \notin {-1, t.np} THEN Wrong(t) ELSE t
NextAlternative(s) ==
  LET t == CloseOff(s)
  IN  IF t.wrong \/ Len(t.alts) + 1 >= NALTS - 1 THEN Wrong(t)
      ELSE [t EXCEPT !.alts = Append(@, t.code), !.outer = t.np,
                     !.np = 1, !.code = <<OPENP(0)>>, !.open = <<0>>]

\* do_comp and Curly give the set of the one state they end in, for TLC, which
\* computes the members of a set once and a name as often as it is used.
RECURSIVE do_comp(_, _), Curly(_, _, _)
\* \{ has been read: alternatives, each with as many parens as the others.
Curly(s, np, alts) ==
  UNION {LET all == Append(alts, t.code)
         IN  IF t.wrong \/ (alts # <<>> /\ t.np # s.np) THEN {Wrong(s)}
             ELSE IF ~t.done THEN Curly([s EXCEPT !.in = t.in, !.np = t.np], np, all)
             ELSE {[Emit(s, [op |-> "CURLYB", alts |-> all]) EXCEPT !.in = t.in, !.np = t.np]} :
           t \in do_comp("IN_CB", [s EXCEPT !.code = <<>>, !.open = <<>>, !.np = np])}

do_comp(kind, s) ==
  LET c == At(s.in, 0)
      e == At(s.in, 1)
      one == [s EXCEPT !.in = After(@, 1)]
      two == [s EXCEPT !.in = After(@, 2)]
      start == s.code \in {<<>>, <<OPENP(0)>>}
      After_(next) == UNION {do_comp(kind, t) : t \in next}
      On(t) == After_({t})
      Ended(t, done) == {IF t.open # <<>> THEN Wrong(t) ELSE [t EXCEPT !.done = done]}
  IN  CASE s.wrong -> {s}
        [] ~s.wrong /\ c = NUL -> {IF kind = "IN_CB" THEN Wrong(s) ELSE CloseOff(s)}
        [] ~s.wrong /\ c = "\\" ->
             CASE e = NUL -> {Wrong(s)}
               [] e = "{" -> After_(Curly(two, s.np, <<>>))
               [] e = "}" -> IF kind = "IN_CB" THEN Ended(two, TRUE) ELSE {Wrong(s)}
               [] e = "(" -> On(Open(two))
               [] e = ")" -> On(Close(two))
               [] e = "|" -> IF kind = "IN_CB" THEN Ended(two, FALSE) ELSE On(NextAlternative(two))
               [] e \in {"1", "2"} -> On(Emit(two, [op |-> "BACKREF", n |-> IF e = "1" THEN 1 ELSE 2]))
               [] e = "<" -> On(Emit(two, Op("AT_BOW")))
               [] e = ">" -> On(Emit(two, Op("AT_EOW")))
               [] OTHER -> On(Literal(two, e))
        [] ~s.wrong /\ c = "^" /\ start -> On(Emit(one, Op("AT_BOL")))
        [] ~s.wrong /\ c = "$" /\ e \in {NUL, "\\"} -> On(Emit(one, Op("AT_EOL")))
        [] ~s.wrong /\ c = "." /\ kind # "NORM" -> On(Emit(one, Op("ANYC")))
        [] ~s.wrong /\ c = "[" /\ kind # "NORM" -> On(Bracket(one))
        [] ~s.wrong /\ c = "*" /\ kind # "NORM" -> On(Star(one))
        [] OTHER -> On(Literal(one, c))

\* alts: r_alternates; first: the instruction r_anchored and r_firstc depend on.
Compiled(s) ==
  LET told == SelectSeq(s.code, LAMBDA i : i.op \notin {"OPENP", "CLOSEP", "AT_BOW", "AT_EOW"})
      one == s.alts = <<>> /\ told # <<>>
  IN  [wrong |-> s.wrong, alts |-> Append(s.alts, s.code), nparens |-> s.np,
       anchored |-> one /\ told[1].op = "AT_BOL",
       firstc |-> IF one /\ told[1].op = "NORMC" THEN told[1].s[1] ELSE NUL]
REcompile(pattern, re) ==
  {Compiled(s) : s \in UNION {do_comp(IF re THEN "OKAY_RE" ELSE "NORM", t) : t \in
     {[in |-> pattern, code |-> <<OPENP(0)>>, open |-> <<0>>, np |-> 1, alts |-> <<>>,
       outer |-> -1, wrong |-> FALSE, done |-> FALSE]}}}

-----------------------------------------------------------------------------
(* at: loc2; g: pstrtlst and pendlst, of the groups that are not NULL.     *)
(* c is the line and the locrater.                                         *)

NoGroups == [st |-> <<>>, en |-> <<>>]
\* backref: an empty group is compared by one character.
SameAgain(line, s, e, p) ==
  IF s = e THEN At(line, s) = At(line, p)
  ELSE \A k \in 0 .. e - s - 1 : At(line, s + k) = At(line, p + k)
member(i, c) == c # NUL /\ (c \in i.set) # i.none
Takes(i, c) == CASE i.op = "ANYC" -> c # NUL
                 [] i.op = "SET" -> member(i, c)
                 [] i.op = "NORMC" -> c = i.s[1]

RECURSIVE REmatch(_, _, _, _), Backoff(_, _, _, _, _, _), FirstOf(_, _, _, _), Longest(_, _, _, _)
\* The end of the longest run of what is starred; -1: it does not end.
Longest(c, i, p, g) ==
  IF i.op = "BACKREF"
  THEN IF ~SameAgain(c.line, g.st[i.n], g.en[i.n], p) THEN p
       ELSE IF g.en[i.n] = g.st[i.n] THEN -1 ELSE Longest(c, i, p + g.en[i.n] - g.st[i.n], g)
  ELSE IF Takes(i, At(c.line, p)) THEN Longest(c, i, p + 1, g) ELSE p
\* star: the rest is tried at q, and then at shorter runs down to p.
Backoff(c, rest, p, q, by, g) ==
  UNION {IF m.ok # "no" \/ q = p THEN {m} ELSE Backoff(c, rest, p, q - by, by, m.g) :
           m \in REmatch(c, rest, q, g)}
\* CURLYB: the first alternative that matches; the others are not tried again.
FirstOf(c, alts, p, g) ==
  IF alts = <<>> THEN {[ok |-> "no", at |-> p, g |-> g]}
  ELSE UNION {IF m.ok # "no" THEN {m} ELSE FirstOf(c, Tail(alts), p, m.g) : m \in REmatch(c, alts[1], p, g)}

\* The set of the one outcome.
REmatch(c, code, p, g) ==
  IF code = <<>> THEN {[ok |-> "yes", at |-> p, g |-> g]}
  ELSE LET i == code[1]
           here == At(c.line, p)
           before == p > 0 /\ jisident(At(c.line, p - 1))
           Outcome(ok) == [ok |-> ok, at |-> p, g |-> g]
           Then(q, h) == UNION {REmatch(c, Tail(code), x[1], x[2]) : x \in {<<q, h>>}}
           If(b, q) == IF b THEN Then(q, g) ELSE {Outcome("no")}
       IN  CASE i.op = "NORMC" -> If(\A k \in DOMAIN i.s : At(c.line, p + k - 1) = i.s[k], p + Len(i.s))
             [] i.op = "AT_BOL" -> If(p = 0 /\ p # c.crater, p)
             [] i.op = "AT_EOL" -> If(here = NUL, p)
             [] i.op = "AT_BOW" -> If(p # c.crater /\ jisident(here) /\ ~before, p)
             [] i.op = "AT_EOW" -> If(p # c.crater /\ ~jisident(here) /\ before, p)
             [] i.op \in {"ANYC", "SET"} -> If(Takes(i, here), p + 1)
             [] i.op = "OPENP" -> Then(p, [g EXCEPT !.st = (i.n :> p) @@ @])
             [] i.op = "CLOSEP" -> Then(p, [g EXCEPT !.en = (i.n :> p) @@ @])
             [] i.op = "BACKREF" -> If(i.n \in DOMAIN g.st /\ SameAgain(c.line, g.st[i.n], g.en[i.n], p),
                                       p + g.en[i.n] - g.st[i.n])
             [] i.op = "CURLYB" -> UNION {IF m.ok = "yes" THEN Then(m.at, m.g) ELSE {m} : m \in FirstOf(c, i.alts, p, g)}
             [] i.op = "STAR" ->
                  LET by == IF i.of.op = "BACKREF" THEN g.en[i.of.n] - g.st[i.of.n] ELSE 1
                  IN  UNION {IF q < 0 THEN {Outcome("hangs")} ELSE Backoff(c, Tail(code), p, q, by, g) :
                               q \in {Longest(c, i.of, p, g)}}

-----------------------------------------------------------------------------
NoMatch == [ok |-> "no", bom |-> -1, eom |-> -1, g |-> NoGroups]
\* offset -1: from the end of the line; crater: the end of the last substitution, or -1.
\* The set of the one match that is found, or of NoMatch.
RECURSIVE From(_, _, _, _, _)
From(c, p, last, dir, re) ==
  UNION {IF m.ok # "no" THEN {[ok |-> m.ok, bom |-> p, eom |-> m.at, g |-> m.g]}
         ELSE IF p = last THEN {NoMatch} ELSE UNION {From(c, q, last, dir, re) : q \in {p + dir}} :
           m \in IF re.firstc \in {NUL, At(c.line, p)} THEN FirstOf(c, re.alts, p, NoGroups) ELSE {NoMatch}}
re_lindex(line, offset, dir, re, crater) ==
  LET from == IF offset = -1 THEN Len(line) ELSE offset
      c == [line |-> line, crater |-> crater]
  IN  CASE re.anchored /\ dir = FORWARD /\ (from # 0 \/ crater # -1) -> {NoMatch}
        [] re.anchored /\ ~(dir = FORWARD /\ (from # 0 \/ crater # -1)) -> From(c, 0, 0, dir, re)
        [] OTHER -> From(c, from, IF dir = FORWARD THEN Len(line) ELSE 0, dir, re)

\* The lines docompiled looks at, and from where; it wraps up to the line of the dot.
Looked(text, dot, dir, wrap) ==
  LET l == dot[1]  n == Len(text)
      Down(i, j) == [k \in 1 .. j - i + 1 |-> <<i + k - 1, 0>>]
      Up(i, j) == [k \in 1 .. i - j + 1 |-> <<i - k + 1, -1>>]
      first == IF dir = FORWARD
               THEN IF dot[2] = Len(text[l]) /\ l < n THEN <<l + 1, 0>> ELSE dot
               ELSE IF dot[2] = 0 THEN <<l - 1, -1>> ELSE <<l, dot[2] - 1>>
  IN  CASE dir = FORWARD -> <<first>> \o Down(first[1] + 1, n) \o (IF wrap THEN Down(1, l - 1) ELSE <<>>)
        [] dir = BACKWARD /\ dot = <<1, 0>> -> IF wrap THEN Up(n, 2) ELSE <<>>
        [] OTHER -> <<first>> \o Up(first[1] - 1, 1) \o (IF wrap THEN Up(n, l + 1) ELSE <<>>)

\* The dots a search may go to (one or none), or ForEver: it does not come back
\* from a starred reference to a group that is empty (REmatch, BACKREF|STAR).
ForEver == <<0, 0>>
RECURSIVE FirstLine(_, _, _, _)
FirstLine(text, lines, dir, re) ==
  IF lines = <<>> THEN {}
  ELSE UNION {CASE m.ok = "yes" -> {<<lines[1][1], IF dir = FORWARD THEN m.eom ELSE m.bom>>}
                [] m.ok = "hangs" -> {ForEver}
                [] m.ok = "no" -> FirstLine(text, Tail(lines), dir, re) :
                m \in re_lindex(text[lines[1][1]], lines[1][2], dir, re, -1)}
docompiled(text, dot, dir, re, wrap) ==
  UNION {FirstLine(text, lines, dir, re) : lines \in {Looked(text, dot, dir, wrap)}}
dosearch(text, dot, dir, pattern, re, wrap) ==
  IF text = << <<>> >> THEN {}
  ELSE UNION {docompiled(text, dot, dir, prog, wrap) : prog \in REcompile(pattern, re)}
=============================================================================
