----------------------------- MODULE MCWindows ------------------------------
EXTENDS Windows

Bound(bufs, winds, depth, sizes, names) ==
  [bufs |-> bufs, winds |-> winds, depth |-> depth, sizes |-> sizes, names |-> names]

MCBounds == {Bound(3, 2, 0, {4}, {}), Bound(2, 3, 0, {6, 5}, {"f"}), Bound(2, 2, 1, {4}, {"f"}),
             Bound(3, 1, 0, {4}, {"f"})}

(* Which memory a Buffer is in makes no difference: a state is its list of *)
(* buffers and where in it the others lead to.  Deleted ones follow.       *)
Real ==
  LET all == world \o free_bufs
      Place == [b \in Struct \cup {NULL} |-> IF \E k \in DOMAIN all : all[k] = b
                                            THEN CHOOSE k \in DOMAIN all : all[k] = b ELSE 0]
  IN  <<[k \in DOMAIN world |-> <<b_name[world[k]], b_fname[world[k]], b_type[world[k]]>>],
        [w \in DOMAIN windows |-> <<Place[windows[w].buf], windows[w].h>>],
        curwind, Place[curbuf], Place[lastbuf], Place[AskBuffer], Place[saveb], Place[recur],
        asker.cmd, Place[asker.buf], Place[asker.next], ILI, hung, bounds>>
=============================================================================
