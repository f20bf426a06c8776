--------------------------- MODULE MCOpportunity ---------------------------
EXTENDS Opportunity, TLC
CONSTANTS u1, u2, c1, i1, i2
UserSymmetry == Permutations({u1, u2})
=============================================================================
