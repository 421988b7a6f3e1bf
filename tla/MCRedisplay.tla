------------------------------ MODULE MCRedisplay ------------------------------
EXTENDS Redisplay
MCBuffers == 1 .. 2
MCBegin == <<3, 1>>
MCColumns == {8, 9}
L(c, t, p) == [commands |-> c, texts |-> 7 + t, preempts |-> p]
MCLimits == {L(3, 1, 1), L(2, 2, 1)}
=============================================================================
