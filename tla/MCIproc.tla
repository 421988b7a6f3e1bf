------------------------------ MODULE MCIproc -------------------------------
EXTENDS Iproc

CONSTANTS p1, p2, b1, b2

Limit(procs_, bufs_, out, typed_, kills_, happens) ==
  [procs |-> procs_, bufs |-> bufs_, out |-> out, typed |-> typed_, kills |-> kills_,
   happens |-> happens]

One(out, typed_, kills_, happens) == Limit({p1}, {b1}, out, typed_, kills_, happens)

(* What one child writes, in each order with deaths and stops; what is     *)
(* typed and sent; commands for the shell in between; lines deleted by     *)
(* mistake; and two children, at a time or one after the other, or whose start     *)
(* finds no room for a window.                                             *)
Instances ==
  {One(2, 0, 0, {"others", "stop"}), One(1, 2, 0, {}), One(1, 1, 0, {"others", "control"}),
   One(1, 0, 0, {"others", "sync"}), One(1, 2, 1, {}),
   Limit({p1, p2}, {b1}, 1, 1, 0, {"nowindow"}), Limit({p1, p2}, {b1, b2}, 1, 0, 0, {})}
=============================================================================
