------------------------------- MODULE MCText -------------------------------
(* A few characters, alike for the editor, a separator, and short lines.   *)
EXTENDS Text, TLC

Alike == Permutations(Char)

(* Which lines of memory the lists are made of makes no difference: a state is its lists. *)
Stored(l) == LET ls == LineList(State, l) IN [k \in 1..Len(ls) |-> l_dline[ls[k]]]

Contents ==
  <<Stored(b_first), IF killbuf = NULL THEN <<>> ELSE Stored(killbuf),
    linebuf, DOLsave, seen, last_cmd, Linked, b_last = lastline(State, b_first)>>
=============================================================================
