----------------------------- MODULE Completion -----------------------------
(***************************************************************************)
(* Completing what is typed in the minibuffer: names of a list             *)
(* (aux_complete in extend.c) and of files (f_complete and fill_in in      *)
(* ask.c).  The listing of possible completions is left out.               *)
(***************************************************************************)
EXTENDS Points, FiniteSetsExt

\* How many characters they begin with in common.
numcomp2(s, t) == CHOOSE n \in 0 .. Len(s) : /\ \A i \in 1 .. n : i <= Len(t) /\ s[i] = t[i]
                                             /\ n = Len(s) \/ n = Len(t) \/ s[n + 1] # t[n + 1]
Lowered(s) == [i \in DOMAIN s |-> CharDowncase(s[i])]
\* Compared each with the one before it; so many have they all in common.
MinMatch(names, found) ==
  Min({Len(names[Min(found)])}
      \cup {numcomp2(names[Max({j \in found : j < i})], names[i]) : i \in found \ {Min(found)}})
\* chr_to_int; bound of the model: of one digit.
Numerals == <<"1", "2", "3">>
Numeral(line) == IF Len(line) = 1 /\ line[1] \in ToSet(Numerals)
                 THEN CHOOSE i \in DOMAIN Numerals : Numerals[i] = line[1] ELSE 0

\* out is "accept", "stay" or, in a joverc file, "error"; value an index or -1.
Reply(line, out, value) == [line |-> line, out |-> out, value |-> value]
aux_completeSlip(typed, key, Possible, flags, InJoverc) ==      \* mutant: what is longest wins
  LET line == IF "CASEIND" \in flags THEN Lowered(typed) ELSE typed
      found == {i \in DOMAIN Possible : numcomp2(Possible[i], line) >= Len(line)}
  IN  IF found = {} THEN Reply(line, "stay", 0)
      ELSE IF key # "TAB" /\ "OLD" \in flags THEN Reply(line, "accept", Min(found)) ELSE Reply(line, "stay", 0)
aux_complete(typed, key, Possible, flags, InJoverc) ==
  LET line == IF "CASEIND" \in flags THEN Lowered(typed) ELSE typed
      c == IF InJoverc \/ key = "LF" THEN "CR" ELSE key
      len == Len(line)
      same == [i \in DOMAIN Possible |-> numcomp2(Possible[i], line)]
      found == {i \in DOMAIN Possible : same[i] >= len}
      exact == {i \in found : Len(Possible[i]) = len /\ c # "TAB"}
      n == Numeral(line)
      maxmatch == Max({0} \cup {same[i] : i \in DOMAIN Possible})
  IN  CASE exact # {} -> IF "OLD" \in flags THEN Reply(line, "accept", Min(exact))
                         ELSE Reply(line, IF InJoverc THEN "error" ELSE "stay", 0)
        [] exact = {} /\ c = "CR" /\ len > 0 /\ "INDEX" \in flags /\ n \in DOMAIN Possible ->
             Reply(line, "accept", n)
        [] OTHER ->
             IF c = "CR" /\ (IF len = 0 THEN "EMPTY" ELSE "NEW") \in flags THEN Reply(line, "accept", -1)
             ELSE IF Cardinality(found) = 1 /\ c # "TAB" /\ "OLD" \in flags
             THEN Reply(line, "accept", CHOOSE i \in found : TRUE)
             ELSE IF InJoverc THEN Reply(line, "error", 0)
             ELSE IF found # {} THEN Reply(SubSeq(Possible[Max(found)], 1, MinMatch(Possible, found)), "stay", 0)
             ELSE Reply(IF maxmatch < len /\ "NEW" \notin flags THEN SubSeq(line, 1, maxmatch) ELSE line, "stay", 0)

\* Files have a name, and bad (bad_extension) and dir are true of some; bad ones
\* are only shown if show (DispBadFs).
f_match(file, base, show) == (show \/ ~file.bad) /\ numcomp2(base, file.name) = Len(base)
fill_in(base, files, show) ==
  LET names == [i \in DOMAIN files |-> files[i].name]
      good == {i \in DOMAIN files : ~show \/ ~files[i].bad}
      found == IF good = {} THEN DOMAIN files ELSE good
      n == MinMatch(names, found)
      new == IF n > Len(base) THEN SubSeq(names[Max(found)], 1, n) ELSE base
  IN  IF Cardinality(found) = 1 /\ new # <<>> /\ files[Max(found)].dir
      THEN Append(new, "/") ELSE new
f_complete(base, all, show) ==
  LET files == SelectSeq(all, LAMBDA file : f_match(file, base, show))
  IN  IF files = <<>> THEN base ELSE fill_in(base, files, show)
=============================================================================
