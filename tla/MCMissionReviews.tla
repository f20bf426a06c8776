-------------------------- MODULE MCMissionReviews --------------------------
EXTENDS MissionReviews, TLC
CONSTANTS u1, u2, k1, k2, r1, r2, o1, o2
Symmetric == Permutations({u1, u2}) \cup Permutations({k1, k2})
             \cup Permutations({r1, r2}) \cup Permutations({o1, o2})
=============================================================================
