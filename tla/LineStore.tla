------------------------------ MODULE LineStore ------------------------------
(***************************************************************************)
(* What JOVE's tmp file promises the rest of the editor (io.c, "Put `buf'  *)
(* and return the disk address" and "get a line at `tl' in the tmp file"). *)
(* A line is put once, at an address of its own, and from then on reading  *)
(* that address gives that line: there is no deletion and no rewriting.    *)
(* Some of the lines are durable: they can be read from the file alone, so *)
(* they outlive the process.  A durable line stays durable.                *)
(***************************************************************************)
CONSTANTS
  Line,       \* the lines that may be stored
  Addr        \* the disk addresses

VARIABLES
  saved,      \* the lines put so far: a function from part of Addr to Line
  durable     \* the addresses whose line is in the file

vars == <<saved, durable>>

TypeOK ==
  /\ DOMAIN saved \subseteq Addr
  /\ \A a \in DOMAIN saved : saved[a] \in Line
  /\ durable \subseteq DOMAIN saved

Init ==
  /\ saved = [a \in {} |-> CHOOSE l \in Line : TRUE]
  /\ durable = {}

(* Lines become durable whenever the store likes; none stops being so.     *)
Keep == durable \subseteq durable' /\ durable' \subseteq DOMAIN saved'

Put(a, l) ==
  /\ a \notin DOMAIN saved
  /\ saved' = [x \in DOMAIN saved \cup {a} |-> IF x = a THEN l ELSE saved[x]]
  /\ Keep

WriteBack == UNCHANGED saved /\ Keep

Next == WriteBack \/ \E a \in Addr, l \in Line : Put(a, l)

Spec == Init /\ [][Next]_vars
=============================================================================
