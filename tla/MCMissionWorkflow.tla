------------------------- MODULE MCMissionWorkflow -------------------------
EXTENDS MissionWorkflow
CONSTANTS o1, r1, refresh1, research1, b1, b2
=============================================================================
