------------------------------ MODULE Scoring ------------------------------
(***************************************************************************)
(* The score of an opportunity (scoreOpportunity) as qualifyOpportunity    *)
(* computes it from the agent's eight dimensions and the row's status.     *)
(* Weights and multipliers are per cent, so that the exact score is an     *)
(* integer in millionths.  The code multiplies doubles: they are exact to  *)
(* far below a millionth, so only a tie can be rounded either way, and a   *)
(* score is any integer that is nearest.  Labels, hours and points of      *)
(* resources are only shown.                                               *)
(***************************************************************************)
EXTENDS DomainRules, TLAPS

Dimensions == [productFit : Int, routeFit : Int, demandSignal : Int, timingSignal : Int,
               stakeholderRelevance : Int, contactability : Int, evidenceQuality : Int,
               strategicValue : Int]

Bounded(value) == IF value < 0 THEN 0 ELSE IF value > 100 THEN 100 ELSE value

BaseScore(d) ==
    15 * (Bounded(d.productFit) + Bounded(d.routeFit) + Bounded(d.demandSignal)
          + Bounded(d.contactability))
    + 10 * (Bounded(d.timingSignal) + Bounded(d.stakeholderRelevance)
            + Bounded(d.evidenceQuality) + Bounded(d.strategicValue))

EvidenceMultiplier == [low |-> 70, medium |-> 85, high |-> 100]
ExecutionMultiplier ==
    [target_only |-> 60, stakeholder_mapped |-> 75, contact_found |-> 85, contact_verified |-> 100]

Confidence(d) == IF d.evidenceQuality >= 70 THEN "high"
                 ELSE IF d.evidenceQuality >= 40 THEN "medium" ELSE "low"

\* Every other status, those beyond a verified contact too, is a mere target.
ExecutionState(status) ==
    IF status = "contact_path_verified" THEN "contact_verified"
    ELSE IF status = "contact_path_found" THEN "contact_found"
    ELSE IF status = "stakeholder_mapped" THEN "stakeholder_mapped" ELSE "target_only"

Exact(d, status) == BaseScore(d) * EvidenceMultiplier[Confidence(d)]
                                 * ExecutionMultiplier[ExecutionState(status)]

Million == 1000000
IsScore(n, d, status) ==
    /\ n \in Int
    /\ Million * (2 * n - 1) <= 2 * Exact(d, status)
    /\ 2 * Exact(d, status) <= Million * (2 * n + 1)

-----------------------------------------------------------------------------
LEMMA BoundedIsPerCent ==
    ASSUME NEW v \in Int, NEW w \in Int
    PROVE Bounded(v) \in 0 .. 100 /\ (v <= w => Bounded(v) <= Bounded(w))
  BY DEF Bounded

LEMMA SumIsBounded ==
    ASSUME NEW p \in 0 .. 100, NEW q \in 0 .. 100, NEW r \in 0 .. 100, NEW s \in 0 .. 100
    PROVE p + q + r + s \in 0 .. 400
  OBVIOUS

\* The base score is a mean of bounded dimensions.
LEMMA BaseIsBounded ==
    ASSUME NEW d \in Dimensions PROVE BaseScore(d) \in 0 .. 10000
  <1>1. /\ Bounded(d.productFit) \in 0 .. 100 /\ Bounded(d.routeFit) \in 0 .. 100
        /\ Bounded(d.demandSignal) \in 0 .. 100 /\ Bounded(d.contactability) \in 0 .. 100
    BY BoundedIsPerCent DEF Dimensions
  <1>2. /\ Bounded(d.timingSignal) \in 0 .. 100 /\ Bounded(d.stakeholderRelevance) \in 0 .. 100
        /\ Bounded(d.evidenceQuality) \in 0 .. 100 /\ Bounded(d.strategicValue) \in 0 .. 100
    BY BoundedIsPerCent DEF Dimensions
  <1>3. Bounded(d.productFit) + Bounded(d.routeFit) + Bounded(d.demandSignal)
          + Bounded(d.contactability) \in 0 .. 400
    BY <1>1, SumIsBounded
  <1>4. Bounded(d.timingSignal) + Bounded(d.stakeholderRelevance)
          + Bounded(d.evidenceQuality) + Bounded(d.strategicValue) \in 0 .. 400
    BY <1>2, SumIsBounded
  <1> DEFINE p == Bounded(d.productFit) + Bounded(d.routeFit) + Bounded(d.demandSignal)
                    + Bounded(d.contactability)
             q == Bounded(d.timingSignal) + Bounded(d.stakeholderRelevance)
                    + Bounded(d.evidenceQuality) + Bounded(d.strategicValue)
  <1>5. p \in 0 .. 400 /\ q \in 0 .. 400
    BY <1>3, <1>4
  <1>6. BaseScore(d) = 15 * p + 10 * q
    BY DEF BaseScore
  <1> HIDE DEF p, q
  <1> QED BY <1>5, <1>6

LEMMA MultipliersAreKnown ==
    ASSUME NEW d \in Dimensions, NEW status
    PROVE /\ EvidenceMultiplier[Confidence(d)] \in {70, 85, 100}
          /\ ExecutionMultiplier[ExecutionState(status)] \in {60, 75, 85, 100}
  <1>1. EvidenceMultiplier[Confidence(d)] \in {70, 85, 100}
    BY DEF Dimensions, EvidenceMultiplier, Confidence
  <1>2. ExecutionMultiplier[ExecutionState(status)] \in {60, 75, 85, 100}
    BY DEF ExecutionMultiplier, ExecutionState
  <1> QED BY <1>1, <1>2

\* What the multipliers let through at most.
LEMMA ExactIsCapped ==
    ASSUME NEW b \in 0 .. 10000, NEW e \in {70, 85, 100}, NEW x \in {60, 75, 85, 100}
    PROVE b * e * x \in Nat /\ b * e * x <= 10000 * e * x
  <1>1. CASE e = 70 BY <1>1
  <1>2. CASE e = 85 BY <1>2
  <1>3. CASE e = 100 BY <1>3
  <1> QED BY <1>1, <1>2, <1>3

\* A score stays on the scale of 0 to 100 whatever the agent answers, also for
\* dimensions off that scale (bounded in scoreOpportunity).
THEOREM ScoreIsBounded ==
    ASSUME NEW d \in Dimensions, NEW status, NEW n, IsScore(n, d, status)
    PROVE n \in 0 .. 100
  <1> DEFINE b == BaseScore(d)
             e == EvidenceMultiplier[Confidence(d)]
             x == ExecutionMultiplier[ExecutionState(status)]
  <1>1. b \in 0 .. 10000 /\ e \in {70, 85, 100} /\ x \in {60, 75, 85, 100}
    BY BaseIsBounded, MultipliersAreKnown
  <1>2. b * e * x \in Nat /\ b * e * x <= 10000 * e * x
    <2> HIDE DEF b, e, x
    <2> QED BY <1>1, ExactIsCapped
  <1>3. 10000 * e * x <= 100000000
    <2> HIDE DEF b, e, x
    <2> QED BY <1>1
  <1>4. Exact(d, status) = b * e * x
    BY DEF Exact
  <1> HIDE DEF b, e, x
  <1>5. b * e * x \in Int /\ b * e * x >= 0 /\ b * e * x <= 100000000
    BY <1>1, <1>2, <1>3
  <1>6. n \in Int /\ Million * (2 * n - 1) <= 2 * Exact(d, status)
        /\ 2 * Exact(d, status) <= Million * (2 * n + 1)
    BY DEF IsScore
  <1> QED BY <1>4, <1>5, <1>6 DEF Million

\* Without a contact whose path is verified an opportunity stays at or below
\* 85, and thin evidence keeps it at or below 70 (qualifyOpportunity).
THEOREM UnverifiedScoresLower ==
    ASSUME NEW d \in Dimensions, NEW status, NEW n, IsScore(n, d, status)
    PROVE /\ status # "contact_path_verified" => n <= 85
          /\ d.evidenceQuality < 40 => n <= 70
  <1> DEFINE b == BaseScore(d)
             e == EvidenceMultiplier[Confidence(d)]
             x == ExecutionMultiplier[ExecutionState(status)]
  <1>1. b \in 0 .. 10000 /\ e \in {70, 85, 100} /\ x \in {60, 75, 85, 100}
    BY BaseIsBounded, MultipliersAreKnown
  <1>2. b * e * x \in Nat /\ b * e * x <= 10000 * e * x
    <2> HIDE DEF b, e, x
    <2> QED BY <1>1, ExactIsCapped
  <1>3. Exact(d, status) = b * e * x
    BY DEF Exact
  <1>4. status # "contact_path_verified" => x \in {60, 75, 85}
    BY DEF ExecutionState, ExecutionMultiplier
  <1>5. d.evidenceQuality < 40 => e = 70
    BY DEF Dimensions, Confidence, EvidenceMultiplier
  <1> HIDE DEF b, e, x
  <1>6. x \in {60, 75, 85} => 10000 * e * x <= 85000000
    BY <1>1
  <1>7. e = 70 => 10000 * e * x <= 70000000
    BY <1>1
  <1>8. n \in Int /\ Million * (2 * n - 1) <= 2 * Exact(d, status)
    BY DEF IsScore
  <1>9. 10000 * e * x \in Int
    BY <1>1
  <1> QED BY <1>2, <1>3, <1>4, <1>5, <1>6, <1>7, <1>8, <1>9 DEF Million

AtLeast(d, c) == \A field \in DOMAIN c : d[field] >= c[field]

\* An assessment that is at least as good in every dimension has at least the
\* score, although the quality of the evidence counts twice, in the mean and
\* in the multiplier that follows from it.
THEOREM BetterNeverScoresLower ==
    ASSUME NEW c \in Dimensions, NEW d \in Dimensions, NEW status, AtLeast(d, c)
    PROVE Exact(c, status) <= Exact(d, status)
  <1>1. /\ BaseScore(c) \in 0 .. 10000 /\ BaseScore(d) \in 0 .. 10000
        /\ ExecutionMultiplier[ExecutionState(status)] \in {60, 75, 85, 100}
    BY BaseIsBounded, MultipliersAreKnown
  <1>2. /\ c.productFit <= d.productFit /\ c.routeFit <= d.routeFit
        /\ c.demandSignal <= d.demandSignal /\ c.contactability <= d.contactability
        /\ c.timingSignal <= d.timingSignal /\ c.stakeholderRelevance <= d.stakeholderRelevance
        /\ c.evidenceQuality <= d.evidenceQuality /\ c.strategicValue <= d.strategicValue
    BY DEF AtLeast, Dimensions
  <1>3. /\ Bounded(c.productFit) <= Bounded(d.productFit)
        /\ Bounded(c.routeFit) <= Bounded(d.routeFit)
        /\ Bounded(c.demandSignal) <= Bounded(d.demandSignal)
        /\ Bounded(c.contactability) <= Bounded(d.contactability)
    BY <1>2, BoundedIsPerCent DEF Dimensions
  <1>4. /\ Bounded(c.timingSignal) <= Bounded(d.timingSignal)
        /\ Bounded(c.stakeholderRelevance) <= Bounded(d.stakeholderRelevance)
        /\ Bounded(c.evidenceQuality) <= Bounded(d.evidenceQuality)
        /\ Bounded(c.strategicValue) <= Bounded(d.strategicValue)
    BY <1>2, BoundedIsPerCent DEF Dimensions
  <1>5. \A v \in {c, d} :
          /\ Bounded(v.productFit) \in Int /\ Bounded(v.routeFit) \in Int
          /\ Bounded(v.demandSignal) \in Int /\ Bounded(v.contactability) \in Int
          /\ Bounded(v.timingSignal) \in Int /\ Bounded(v.stakeholderRelevance) \in Int
          /\ Bounded(v.evidenceQuality) \in Int /\ Bounded(v.strategicValue) \in Int
    BY DEF Bounded, Dimensions
  <1>6. BaseScore(c) <= BaseScore(d)
    BY <1>3, <1>4, <1>5 DEF BaseScore
  <1>7. /\ EvidenceMultiplier[Confidence(c)] \in {70, 85, 100}
        /\ EvidenceMultiplier[Confidence(d)] \in {70, 85, 100}
        /\ EvidenceMultiplier[Confidence(c)] <= EvidenceMultiplier[Confidence(d)]
    BY <1>2 DEF Dimensions, EvidenceMultiplier, Confidence
  <1> DEFINE a == BaseScore(c)
             b == BaseScore(d)
             e == EvidenceMultiplier[Confidence(c)]
             f == EvidenceMultiplier[Confidence(d)]
             x == ExecutionMultiplier[ExecutionState(status)]
  <1>8. /\ a \in 0 .. 10000 /\ b \in 0 .. 10000 /\ a <= b
        /\ e \in {70, 85, 100} /\ f \in {70, 85, 100} /\ e <= f
        /\ x \in {60, 75, 85, 100}
    BY <1>1, <1>6, <1>7
  <1>9. Exact(c, status) = a * e * x /\ Exact(d, status) = b * f * x
    BY DEF Exact
  <1> HIDE DEF a, b, e, f, x
  <1>10. a * e <= b * f /\ a * e \in Nat /\ b * f \in Nat
    <2>1. CASE e = 70 BY <1>8, <2>1
    <2>2. CASE e = 85 BY <1>8, <2>2
    <2>3. CASE e = 100 BY <1>8, <2>3
    <2> QED BY <1>8, <2>1, <2>2, <2>3
  <1>11. a * e * x <= b * f * x
    <2>1. CASE x = 60 BY <1>10, <2>1
    <2>2. CASE x = 75 BY <1>10, <2>2
    <2>3. CASE x = 85 BY <1>10, <2>3
    <2>4. CASE x = 100 BY <1>10, <2>4
    <2> QED BY <1>8, <2>1, <2>2, <2>3, <2>4
  <1> QED BY <1>9, <1>11
=============================================================================
