-------------------------- MODULE MCActiveMission --------------------------
EXTENDS ActiveMission, TLC
CONSTANTS u1, q1, w1, s1, a, b
=============================================================================
