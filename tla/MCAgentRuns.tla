---------------------------- MODULE MCAgentRuns ----------------------------
EXTENDS AgentRuns, TLC
CONSTANTS s1, s2, e1, e2
=============================================================================
