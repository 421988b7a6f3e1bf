------------------------------ MODULE Patterns ------------------------------
(***************************************************************************)
(* What a search pattern means (doc/intro.nr:1257-1400): a pattern is a    *)
(* sequence of parts, Ends says where a match that begins at a position    *)
(* may end, and Written how the pattern is typed.  Independent of how re.c *)
(* compiles and matches (Regexp.tla).                                      *)
(***************************************************************************)
EXTENDS Integers, Sequences, SequencesExt, FiniteSets, TLC

CONSTANT Word         \* the characters of words

Char(c) == [k |-> "char", c |-> c]
Quoted(c) == [k |-> "quoted", c |-> c]
AnyChar == [k |-> "any"]
OneOf(set, typed) == [k |-> "set", set |-> set, not |-> FALSE, typed |-> typed]
NoneOf(set, typed) == [k |-> "set", set |-> set, not |-> TRUE, typed |-> typed]
Edge(name) == [k |-> name]            \* bol, eol, bow, eow
Many(part) == [k |-> "star", of |-> part]
Group(n, parts) == [k |-> "group", n |-> n, parts |-> parts]
Either(alts) == [k |-> "either", alts |-> alts]
Ref(n) == [k |-> "ref", n |-> n]

RECURSIVE Written(_), WrittenAlts(_), OfPart(_)
Written(parts) == FlattenSeq([i \in DOMAIN parts |-> OfPart(parts[i])])
WrittenAlts(alts) == IF Len(alts) = 1 THEN Written(alts[1])
                     ELSE Written(alts[1]) \o <<"\\", "|">> \o WrittenAlts(Tail(alts))
OfPart(part) ==
  CASE part.k = "char" -> <<part.c>>
    [] part.k = "quoted" -> <<"\\", part.c>>
    [] part.k = "any" -> <<".">>
    [] part.k = "set" -> (IF part.not THEN <<"[", "^">> ELSE <<"[">>) \o part.typed \o <<"]">>
    [] part.k = "bol" -> <<"^">>
    [] part.k = "eol" -> <<"$">>
    [] part.k = "bow" -> <<"\\", "<">>
    [] part.k = "eow" -> <<"\\", ">">>
    [] part.k = "star" -> Append(OfPart(part.of), "*")
    [] part.k = "group" -> <<"\\", "(">> \o Written(part.parts) \o <<"\\", ")">>
    [] part.k = "either" -> <<"\\", "{">> \o WrittenAlts(part.alts) \o <<"\\", "}">>
    [] part.k = "ref" -> <<"\\", ToString(part.n)>>

-----------------------------------------------------------------------------
\* A place is a position and the groups matched before it.
Place(p, g) == [p |-> p, g |-> g]
InWord(line, p) == p \in DOMAIN line /\ line[p] \in Word

RECURSIVE Ends(_, _, _), Matches(_, _, _), Repeats(_, _, _)
Ends(line, parts, places) ==
  IF parts = <<>> THEN places
  ELSE Ends(line, Tail(parts), UNION {Matches(line, parts[1], w) : w \in places})
Repeats(line, part, places) ==
  LET more == places \cup UNION {Matches(line, part, w) : w \in places}
  IN  IF more = places THEN places ELSE Repeats(line, part, more)
\* Positions are between characters: character p of the line is before position p.
Matches(line, part, w) ==
  LET p == w.p
      Holds(b, n) == IF b THEN {Place(p + n, w.g)} ELSE {}
      next == p + 1 \in DOMAIN line
  IN  CASE part.k \in {"char", "quoted"} -> Holds(next /\ line[p + 1] = part.c, 1)
        [] part.k = "any" -> Holds(next, 1)
        [] part.k = "set" -> Holds(next /\ (line[p + 1] \in part.set) # part.not, 1)
        [] part.k = "bol" -> Holds(p = 0, 0)
        [] part.k = "eol" -> Holds(p = Len(line), 0)
        [] part.k = "bow" -> Holds(InWord(line, p + 1) /\ ~InWord(line, p), 0)
        [] part.k = "eow" -> Holds(InWord(line, p) /\ ~InWord(line, p + 1), 0)
        [] part.k = "star" -> Repeats(line, part.of, {w})
        [] part.k = "group" -> {Place(e.p, (part.n :> SubSeq(line, p + 1, e.p)) @@ e.g) :
                                  e \in Ends(line, part.parts, {w})}
        [] part.k = "either" ->        \* the first alternative that matches, "if any, and otherwise" the next
             LET ends == [i \in DOMAIN part.alts |-> Ends(line, part.alts[i], {w})]
                 some == {i \in DOMAIN ends : ends[i] # {}}
             IN  UNION {ends[i] : i \in {j \in some : \A k \in some : j <= k}}
        [] part.k = "ref" ->
             IF part.n \notin DOMAIN w.g THEN {}
             ELSE LET s == w.g[part.n]
                  IN  Holds(p + Len(s) <= Len(line) /\ SubSeq(line, p + 1, p + Len(s)) = s, Len(s))

\* Where a match of one of the alternatives that begins at p may end.
MatchEnds(line, alts, p) ==
  {w.p : w \in UNION {Ends(line, alts[i], {Place(p, <<>>)}) : i \in DOMAIN alts}}

\* The pattern refers to a group that may be empty.
Refers(parts) == \E i \in DOMAIN parts :
  \/ parts[i].k = "ref"
  \/ parts[i].k = "star" /\ parts[i].of.k = "ref"
Hollow(parts) == \E i \in DOMAIN parts :
  parts[i].k = "group" /\ \A j \in DOMAIN parts[i].parts : parts[i].parts[j].k = "star"
EmptyRef(alts) == \E i \in DOMAIN alts : Refers(alts[i]) /\ Hollow(alts[i])
\* Any number of times.
Repeated(parts) == \E i \in DOMAIN parts : parts[i].k = "star" /\ parts[i].of.k = "ref"
RepeatedEmptyRef(alts) == \E i \in DOMAIN alts : Repeated(alts[i]) /\ Hollow(alts[i])
=============================================================================
