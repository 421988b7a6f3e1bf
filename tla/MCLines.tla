------------------------------ MODULE MCLines ------------------------------
EXTENDS Lines
MCBuffers == 1 .. 2
L(e, k, m, c, p, v) == [edits |-> e, kills |-> k, marks |-> m, clears |-> c, parses |-> p, moves |-> v]
MCLimits == {L(2,0,1,2,1,0), L(2,3,1,0,0,1), L(1,2,2,1,0,1), L(1,1,1,1,1,1), L(0,4,1,0,0,0), L(1,0,0,1,2,0)}
=============================================================================
