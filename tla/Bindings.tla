------------------------------ MODULE Bindings ------------------------------
(***************************************************************************)
(* What key bindings are to a user (doc/cmds.nr:263-295): key sequences,   *)
(* of the global map, of a named map, of processes' buffers or of one      *)
(* buffer, that stand for a command or, as a prefix, for a named map.      *)
(***************************************************************************)
EXTENDS Integers, Sequences, SequencesExt, FiniteSets, Functions

CONSTANTS
  Roots,        \* the named maps and the buffers
  NULL

(* b, of the operators below: <<root, sequence>> -> command or named map.  *)

\* Where the keys lead to: a named map that stands for the first ones is gone into.
Place(b, root, keys) ==
  FoldLeft(LAMBDA p, c : LET q == <<p[1], Append(p[2], c)>>
                         IN  IF q \in DOMAIN b /\ b[q] \in Roots THEN <<b[q], <<>>>> ELSE q,
           <<root, <<>>>>, keys)
Meaning(b, root, keys) ==
  LET p == Place(b, root, Front(keys))
      q == <<p[1], Append(p[2], Last(keys))>>
  IN  IF q \in DOMAIN b THEN b[q] ELSE NULL

\* It isn't possible to have two sequences where one is a prefix of the other.
Bound(b, root, keys, obj) ==
  LET p == Place(b, root, Front(keys))
      q == <<p[1], Append(p[2], Last(keys))>>
      Apart(r) == r[1] = q[1] => ~IsPrefix(r[2], q[2]) /\ ~IsPrefix(q[2], r[2])
      new == IF obj = NULL THEN {} ELSE {q}
  IN  [r \in {s \in DOMAIN b : Apart(s)} \cup new |-> IF r \in new THEN obj ELSE b[r]]

\* A buffer is deleted, and its bindings with it.
Forgotten(b, root) == Restrict(b, {p \in DOMAIN b : p[1] # root})
=============================================================================
