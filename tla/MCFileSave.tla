------------------------------ MODULE MCFileSave ------------------------------
EXTENDS FileSave, TLC
CONSTANTS f, g
MCStems == {f, g}
MCInodes == 1 .. 6
MCBuffers == 1 .. 2
\* one file, two files, or two names of one file
MCLinks == {<<f, 0>> :> 1 @@ <<g, 0>> :> i : i \in 0 .. 2}
B(c, fl, t, o, ti, cr) == [commands |-> c, fails |-> fl, texts |-> 6 + t, others |-> o,
                           ticks |-> ti, crashes |-> cr]
MCLimits == {B(3,0,1,1,0,0), B(3,1,1,0,0,0), B(2,0,1,1,1,0), B(2,1,1,0,1,1)}
=============================================================================
