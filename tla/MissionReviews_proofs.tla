------------------------ MODULE MissionReviews_proofs ------------------------
(***************************************************************************)
(* Theorems of MissionReviews, for any users, claims, routes and           *)
(* organizations and any number of commands.  An approval is opened when   *)
(* the workflow turns to a review and closed when it records it; research  *)
(* that is asked for in between leaves it open, because the workflow comes *)
(* back to the review it came from.  A route or target review that was     *)
(* accepted is accepted once more, because nothing that its gate looks at  *)
(* is written after the research that precedes the review.                 *)
(***************************************************************************)
EXTENDS MissionReviews, TLAPS

Choice == SUBSET (Claims \cup Routes \cup Orgs)
Commanded ==
  {Idle} \cup [op : {"submit"}, gate : Gates, choice : Choice]
         \cup [op : {"budget"}, read : Stages] \cup [op : {"grant"}]

\* Research is asked for by users, and taken up in one of the first reviews.
AskedInv == pc = "research" => asked \in {"capability", "route"}

\* There are no routes before their research, and no targets before they are
\* ranked.
BeforeRoutes == {"compile", "ingest", "extract", "markCapability", "capability",
                 "recordCapability", "commitCapability", "routes"}
BeforeTargets == BeforeRoutes \cup {"markRoute", "route", "research", "recordRoute", "ecosystem",
                                   "rank"}
NothingYet ==
  /\ pc \in BeforeRoutes \/ (pc = "research" /\ asked = "capability") => Proposed = {}
  /\ pc \in BeforeTargets => Candidates = {}

\* The gate accepts a review of routes or targets wherever it is under way.
Judged == {"route", "target"}
StandInv ==
  \A g \in Judged :
    /\ \A u \in Users : users[u].op = "submit" /\ users[u].gate = g => Gate(g, users[u].choice)
    /\ reviewed[g] # {} => Gate(g, reviewed[g])
    /\ pc = Record[g] => Gate(g, recording)

IInv ==
  /\ TypeOK /\ users \in [Users -> Commanded]
  /\ AskedInv /\ ApprovalsFollowReviews /\ NothingYet /\ StandInv

LEMMA Names ==
  /\ \A g \in Gates : /\ Mark[g] \in PC \ (Gates \cup AgentSteps \cup {"failed", "create"})
                      /\ Record[g] \in PC \ (Gates \cup AgentSteps \cup {"failed", "create"})
                      /\ Awaiting[g] \in Stages
                      /\ \A h \in Gates : /\ Mark[g] # Record[h]
                                          /\ Mark[g] = Mark[h] => g = h
                                          /\ Record[g] = Record[h] => g = h
  /\ Gates \cup AgentSteps \cup {"create", "failed", "generating", "ingest"} \subseteq PC
  BY DEF Mark, Record, Awaiting, Gates, PC, Stages, AgentSteps

\* The workflow's steps keep the kinds.
LEMMA StepTypes == ASSUME IInv, Step PROVE TypeOK' /\ users' = users
<1> USE DEF IInv, TypeOK, rows, wait, reviews, flow, api
<1> USE Names
<1>1. CASE CompileMission \/ IngestCompanySources
  BY <1>1 DEF CompileMission, IngestCompanySources, Stages, PC, AgentSteps
<1>2. CASE ExtractCapabilityClaims
  <2>1. PICK new \in SUBSET (Claims \ Present) :
          \E says \in [new -> [status : {"observed", "unknown"}, sourced : BOOLEAN]] :
            claims' = [c \in Claims |-> IF c \in new THEN says[c] ELSE claims[c]]
    BY <1>2 DEF ExtractCapabilityClaims
  <2>2. claims' \in [Claims -> [status : {Absent} \cup ClaimStatus, sourced : BOOLEAN]]
    BY <2>1 DEF ClaimStatus, Resolved
  <2>3. pc' \in PC /\ asked' \in {None, "yes", "capability", "route"}
    BY <1>2 DEF ExtractCapabilityClaims, AskedInv, At, PC, Gates, Mark
  <2> QED
    BY <1>2, <2>2, <2>3 DEF ExtractCapabilityClaims
<1>3. ASSUME NEW g \in Gates, MarkAwaiting(g) \/ TakeResearch(g) \/ TakeReview(g)
      PROVE  TypeOK' /\ users' = users
  <2>1. Gates \subseteq Types /\ open \in [Types -> Nat]
    BY DEF Types
  <2>2. Opened(g) \in Nat
    BY <2>1 DEF Opened
  <2>3. open' \in [Types -> Nat]
    BY <1>3, <2>1, <2>2 DEF MarkAwaiting, TakeResearch, TakeReview
  <2>4. stage' \in Stages /\ pc' \in PC
    BY <1>3 DEF MarkAwaiting, TakeResearch, TakeReview, AgentSteps
  <2>5. asked' \in {None, "yes", "capability", "route"}
    BY <1>3 DEF MarkAwaiting, TakeResearch, TakeReview, Gates
  <2>6. recording' \subseteq Claims \cup Routes \cup Orgs
    BY <1>3 DEF MarkAwaiting, TakeResearch, TakeReview
  <2> QED
    BY <1>3, <2>3, <2>4, <2>5, <2>6 DEF MarkAwaiting, TakeResearch, TakeReview
<1>4. CASE RecordCapabilityReview \/ RecordRouteReview \/ RecordTargetReview
  <2>1. \A g \in Gates : Closed(g) \in [Types -> Nat]
    BY DEF Closed, Types, Gates
  <2>2. open' \in [Types -> Nat]
    BY <1>4, <2>1 DEF RecordCapabilityReview, RecordRouteReview, RecordTargetReview, Gates
  <2>3. stage' \in Stages /\ pc' \in PC
    BY <1>4 DEF RecordCapabilityReview, RecordRouteReview, RecordTargetReview, Stages, AgentSteps
  <2>4. routes' \in [Routes -> [status : RouteStatus, fit : BOOLEAN]]
    <3>1. CASE ~RecordRouteReview
      BY <1>4, <3>1 DEF RecordCapabilityReview, RecordTargetReview
    <3>2. CASE RecordRouteReview
      <4>1. ASSUME NEW r \in Routes
            PROVE  IF r \in Proposed
                   THEN [routes[r] EXCEPT !.status = IF r \in recording THEN "approved"
                                                     ELSE "deprioritized"]
                          \in [status : RouteStatus, fit : BOOLEAN]
                   ELSE routes[r] \in [status : RouteStatus, fit : BOOLEAN]
        <5>1. routes[r] \in [status : RouteStatus, fit : BOOLEAN]
          OBVIOUS
        <5> QED
          BY <5>1 DEF RouteStatus
      <4> QED
        BY <3>2, <4>1 DEF RecordRouteReview
    <3> QED
      BY <3>1, <3>2
  <2>5. selected' \subseteq Orgs
    <3>1. CASE ~RecordTargetReview
      BY <1>4, <3>1 DEF RecordCapabilityReview, RecordRouteReview
    <3>2. CASE RecordTargetReview
      BY <3>2 DEF RecordTargetReview, Accepted, Gate, TargetGate, Candidates
    <3> QED
      BY <3>1, <3>2
  <2> QED
    BY <1>4, <2>2, <2>3, <2>4, <2>5
    DEF RecordCapabilityReview, RecordRouteReview, RecordTargetReview
<1>5. CASE ResearchMarketRoutes
  <2>1. PICK new \in SUBSET Routes : \E fits \in [new -> BOOLEAN] :
          routes' = [r \in Routes |-> IF r \in new THEN [status |-> "proposed", fit |-> fits[r]]
                                      ELSE routes[r]]
    BY <1>5 DEF ResearchMarketRoutes
  <2>2. routes' \in [Routes -> [status : RouteStatus, fit : BOOLEAN]]
    BY <2>1 DEF RouteStatus
  <2>3. pc' \in PC
    BY <1>5 DEF ResearchMarketRoutes, PC, Gates, Mark
  <2> QED
    BY <1>5, <2>2, <2>3 DEF ResearchMarketRoutes
<1>6. CASE JudgeCapabilityReview \/ DiscoverEcosystem \/ ApplyBudget \/ Fail
  BY <1>6 DEF JudgeCapabilityReview, DiscoverEcosystem, ApplyBudget, Fail, PC, AgentSteps
<1>7. CASE RankTargets
  <2>1. targets' \in [Orgs -> Routes \cup {None}]
    BY <1>7 DEF RankTargets, Approved
  <2>2. stage' \in Stages /\ pc' \in PC
    BY <1>7 DEF RankTargets, Stages, PC, Gates, Mark
  <2> QED
    BY <1>7, <2>1, <2>2 DEF RankTargets
<1>8. ASSUME NEW o \in Orgs, CreateOpportunity(o) PROVE TypeOK' /\ users' = users
  <2>1. targets[o] \in Routes /\ pc' \in PC
    BY <1>8 DEF CreateOpportunity, OnApprovedRoute, Approved, PC
  <2> QED
    BY <1>8, <2>1 DEF CreateOpportunity
<1> QED
  BY <1>1, <1>2, <1>3, <1>4, <1>5, <1>6, <1>7, <1>8 DEF Step

LEMMA Spelled ==
  /\ Gates = {"capability", "route", "target"}
  /\ Mark["capability"] = "markCapability" /\ Record["capability"] = "recordCapability"
  /\ Mark["route"] = "markRoute" /\ Record["route"] = "recordRoute"
  /\ Mark["target"] = "markTarget" /\ Record["target"] = "recordTarget"
  BY DEF Gates, Mark, Record

\* An approval is opened when a review is marked, and closed when it is
\* recorded; research leads back to the review that it interrupts.
LEMMA StepApprovals == ASSUME IInv, Step PROVE AskedInv' /\ ApprovalsFollowReviews'
<1> USE Spelled
<1>0. /\ open \in [Types -> Nat] /\ {"capability", "target"} \subseteq Types
      /\ AskedInv /\ ApprovalsFollowReviews
  BY DEF IInv, TypeOK, Types
<1> USE <1>0 DEF AskedInv, ApprovalsFollowReviews, Reviewing, At, rows, reviews, flow, api
<1>1. CASE CompileMission \/ IngestCompanySources \/ DiscoverEcosystem \/ ResearchMarketRoutes
           \/ RankTargets \/ JudgeCapabilityReview
  BY <1>1 DEF CompileMission, IngestCompanySources, DiscoverEcosystem, ResearchMarketRoutes,
              RankTargets, JudgeCapabilityReview
<1>2. CASE ExtractCapabilityClaims
  <2>1. \/ pc = "extract" /\ pc' = "markCapability"
        \/ pc = "research" /\ pc' = asked
    BY <1>2 DEF ExtractCapabilityClaims
  <2>2. open' = open
    BY <1>2 DEF ExtractCapabilityClaims
  <2> QED
    BY <2>1, <2>2
<1>3. ASSUME NEW g \in Gates, MarkAwaiting(g) PROVE AskedInv' /\ ApprovalsFollowReviews'
  <2>1. pc = Mark[g] /\ pc' = g /\ asked' = asked /\ open' = [open EXCEPT ![g] = Opened(g)]
    BY <1>3 DEF MarkAwaiting
  <2>2. g # "route" => open[g] = 0 /\ Opened(g) = 1
    BY <2>1 DEF Opened
  <2>3. \A h \in {"capability", "target"} : h # g => open[h] = 0
    BY <2>1
  <2>4. \A h \in {"capability", "target"} : open'[h] = IF h = g THEN 1 ELSE 0
    BY <2>1, <2>2, <2>3
  <2> QED
    BY <2>1, <2>4
<1>4. ASSUME NEW g \in Gates, TakeResearch(g) PROVE AskedInv' /\ ApprovalsFollowReviews'
  BY <1>4 DEF TakeResearch
<1>5. ASSUME NEW g \in Gates, TakeReview(g) PROVE AskedInv' /\ ApprovalsFollowReviews'
  BY <1>5 DEF TakeReview
<1>6. CASE RecordCapabilityReview \/ RecordRouteReview \/ RecordTargetReview
  BY <1>6 DEF RecordCapabilityReview, RecordRouteReview, RecordTargetReview, Closed
<1>7. ASSUME NEW o \in Orgs, CreateOpportunity(o) PROVE AskedInv' /\ ApprovalsFollowReviews'
  <2>1. pc = "create" /\ pc' \in {"create", "generating"} /\ open' = open
    BY <1>7 DEF CreateOpportunity
  <2> QED
    BY <2>1
<1>8. CASE ApplyBudget
  BY <1>8 DEF ApplyBudget
<1>9. CASE Fail
  BY <1>9 DEF Fail
<1> QED
  BY <1>1, <1>2, <1>3, <1>4, <1>5, <1>6, <1>7, <1>8, <1>9 DEF Step

LEMMA ExhaustStep ==
  ASSUME IInv, ExhaustBudget
  PROVE  TypeOK' /\ users' \in [Users -> Commanded] /\ AskedInv' /\ ApprovalsFollowReviews'
<1> USE DEF IInv, TypeOK, ExhaustBudget, reviews
<1>1. open \in [Types -> Nat] /\ {"budget", "capability", "target"} \subseteq Types
      /\ open' = [open EXCEPT !["budget"] = open["budget"] + 1]
  BY DEF Types, Gates
<1>2. open' \in [Types -> Nat] /\ \A g \in {"capability", "target"} : open'[g] = open[g]
  BY <1>1
<1>3. overs' \in 0 .. MaxOver /\ stage' \in Stages
  BY ReviewsAssumption DEF Stages
<1>4. TypeOK'
  BY <1>2, <1>3 DEF api
<1>5. AskedInv' /\ ApprovalsFollowReviews'
  BY <1>2, Spelled DEF AskedInv, ApprovalsFollowReviews, Reviewing
<1> QED
  BY <1>4, <1>5 DEF api

LEMMA UserType == ASSUME IInv, NEW u \in Users, NEW next \in Commanded, Continue(u, next)
                  PROVE  users' \in [Users -> Commanded]
  BY DEF IInv, Continue

\* What does not concern the gates.
Kept == TypeOK /\ users \in [Users -> Commanded] /\ AskedInv /\ ApprovalsFollowReviews

\* What users do at the API changes neither the workflow's place nor its
\* approvals; a request for research is taken only if there is none.
LEMMA UserSteps == ASSUME IInv, Request \/ Serve PROVE Kept'
<1> USE DEF rows, wait, reviews, flow, api
<1> USE Names
<1>0. TypeOK /\ users \in [Users -> Commanded] /\ AskedInv /\ ApprovalsFollowReviews
  BY DEF IInv
<1>1. \A op : Issue(op) => issued' \in 0 .. MaxCommands
  BY <1>0, ReviewsAssumption DEF Issue, TypeOK
<1>2. ASSUME NEW u \in Users, NEW g \in Gates,
             NEW choice \in Choice, CheckReview(u, g, choice)
      PROVE  Kept'
  <2>1. [op |-> "submit", gate |-> g, choice |-> choice] \in Commanded
    BY DEF Commanded
  <2>2. users' \in [Users -> Commanded]
    BY <1>2, <2>1, UserType DEF CheckReview
  <2> QED
    BY <1>0, <1>1, <1>2, <2>2
    DEF CheckReview, Kept, TypeOK, AskedInv, ApprovalsFollowReviews, Reviewing
<1>3. ASSUME NEW u \in Users, SubmitReview(u) PROVE Kept'
  <2>1. users[u] \in Commanded /\ users[u].op = "submit"
    BY <1>0, <1>3 DEF SubmitReview, Is
  <2>2. users[u].gate \in Gates /\ users[u].choice \in Choice
    BY <2>1 DEF Commanded, Idle
  <2>3. reviewed' \in [Gates -> SUBSET (Claims \cup Routes \cup Orgs)]
    BY <1>0, <1>3, <2>2 DEF SubmitReview, TypeOK, Choice
  <2>4. users' \in [Users -> Commanded]
    BY <1>3, UserType DEF SubmitReview, Commanded
  <2> QED
    BY <1>0, <1>3, <2>3, <2>4
    DEF SubmitReview, Kept, TypeOK, AskedInv, ApprovalsFollowReviews, Reviewing
<1>4. ASSUME NEW c \in Claims, NEW to \in ClaimStatus, UpdateCapability(c, to) PROVE Kept'
  <2>1. claims' \in [Claims -> [status : {Absent} \cup ClaimStatus, sourced : BOOLEAN]]
    BY <1>0, <1>4 DEF UpdateCapability, TypeOK
  <2> QED
    BY <1>0, <1>1, <1>4, <2>1
    DEF UpdateCapability, Kept, TypeOK, AskedInv, ApprovalsFollowReviews, Reviewing
<1>5. ASSUME NEW r \in Routes, NEW to \in {"approved", "deprioritized"}, UpdateRoute(r, to)
      PROVE  Kept'
  <2>1. routes' \in [Routes -> [status : RouteStatus, fit : BOOLEAN]]
    BY <1>0, <1>5 DEF UpdateRoute, TypeOK, RouteStatus
  <2> QED
    BY <1>0, <1>1, <1>5, <2>1
    DEF UpdateRoute, Kept, TypeOK, AskedInv, ApprovalsFollowReviews, Reviewing
<1>6. CASE ResearchCapabilities
  <2>1. pc # "research"
    BY <1>0, <1>6, ReviewsAssumption DEF ResearchCapabilities, AskedInv
  <2> QED
    BY <1>0, <1>1, <1>6, <2>1
    DEF ResearchCapabilities, Kept, TypeOK, AskedInv, ApprovalsFollowReviews, Reviewing
<1>7. ASSUME NEW u \in Users, ReadStage(u) PROVE Kept'
  <2>1. [op |-> "budget", read |-> stage] \in Commanded
    BY <1>0 DEF Commanded, TypeOK
  <2>2. users' \in [Users -> Commanded]
    BY <1>7, <2>1, UserType DEF ReadStage
  <2> QED
    BY <1>0, <1>1, <1>7, <2>2
    DEF ReadStage, Kept, TypeOK, AskedInv, ApprovalsFollowReviews, Reviewing
<1>8. ASSUME NEW u \in Users, UpdateMission(u) PROVE Kept'
  <2>1. stage' \in Stages
    BY <1>0, <1>8 DEF UpdateMission, TypeOK, Stages
  <2>2. users' \in [Users -> Commanded]
    BY <1>8, UserType DEF UpdateMission, Commanded
  <2> QED
    BY <1>0, <1>8, <2>1, <2>2
    DEF UpdateMission, Kept, TypeOK, AskedInv, ApprovalsFollowReviews, Reviewing
<1>9. ASSUME NEW u \in Users, GrantBudget(u) PROVE Kept'
  <2>1. users' \in [Users -> Commanded]
    BY <1>9, UserType DEF GrantBudget, Commanded
  <2> QED
    BY <1>0, <1>9, <2>1
    DEF GrantBudget, Kept, TypeOK, AskedInv, ApprovalsFollowReviews, Reviewing
<1>10. CASE Request
  <2>1. \A g \in Gates : \A choice \in SUBSET (CASE g = "capability" -> Claims
                                                 [] g = "route" -> Routes
                                                 [] g = "target" -> Orgs) : choice \in Choice
    BY DEF Gates, Choice
  <2> QED
    BY <1>10, <2>1, <1>2, <1>4, <1>5, <1>6, <1>7 DEF Request
<1> QED
  BY <1>10, <1>3, <1>8, <1>9 DEF Serve

LEMMA InitIInv == Init => IInv
<1> SUFFICES ASSUME Init PROVE IInv
  OBVIOUS
<1>1. TypeOK
  <2>1. stage = "compiling" /\ pc = "compile" /\ asked = None /\ selected = {}
    BY DEF Init
  <2>3. blocked = FALSE /\ granted = FALSE
    BY DEF Init
  <2>4. stage \in Stages /\ pc \in PC
    BY <2>1 DEF Stages, PC, AgentSteps
  <2>5. overs \in 0 .. MaxOver /\ issued \in 0 .. MaxCommands
    BY ReviewsAssumption DEF Init
  <2>0. open \in [Types -> Nat]
    BY DEF Init
  <2>2. /\ claims \in [Claims -> [status : {Absent} \cup ClaimStatus, sourced : BOOLEAN]]
        /\ routes \in [Routes -> [status : RouteStatus, fit : BOOLEAN]]
        /\ targets \in [Orgs -> Routes \cup {None}] /\ opportunities \subseteq Orgs \X Routes
        /\ reviewed \in [Gates -> SUBSET (Claims \cup Routes \cup Orgs)] /\ recording = {}
    BY DEF Init, RouteStatus
  <2> QED
    BY <2>0, <2>1, <2>2, <2>3, <2>4, <2>5 DEF TypeOK
<1>2. users \in [Users -> Commanded] /\ AskedInv
  BY DEF Init, Commanded, AskedInv
<1>3. ApprovalsFollowReviews
  BY Spelled DEF Init, ApprovalsFollowReviews, Reviewing, Types
<1>4. NothingYet /\ StandInv
  BY Spelled DEF Init, NothingYet, Proposed, Candidates, StandInv, Judged, Idle, Absent
<1> QED
  BY <1>1, <1>2, <1>3, <1>4 DEF IInv

-----------------------------------------------------------------------------
\* What the gates of routes and targets look at is only added to.
GatesKept ==
  /\ \A r \in Proposed : r \in Proposed' /\ routes'[r].fit = routes[r].fit
  /\ Candidates \subseteq Candidates'

LEMMA StepRoutes == ASSUME IInv, Step PROVE GatesKept /\ NothingYet'
<1>0. /\ AskedInv /\ NothingYet /\ routes \in [Routes -> [status : RouteStatus, fit : BOOLEAN]]
  BY DEF IInv, TypeOK
<1> USE <1>0, Spelled DEF GatesKept, NothingYet, BeforeRoutes, BeforeTargets, At, rows, wait, reviews
<1>1. CASE \/ CompileMission \/ IngestCompanySources \/ ExtractCapabilityClaims
           \/ JudgeCapabilityReview \/ RecordCapabilityReview \/ DiscoverEcosystem
           \/ ApplyBudget \/ Fail
  <2>1. routes' = routes /\ targets' = targets
    BY <1>1 DEF CompileMission, IngestCompanySources, ExtractCapabilityClaims,
                JudgeCapabilityReview, RecordCapabilityReview, DiscoverEcosystem, ApplyBudget, Fail
  <2>2. Proposed' = Proposed /\ Candidates' = Candidates
    BY <2>1 DEF Proposed, Candidates
  <2>3. /\ pc' \in BeforeTargets => pc \in BeforeTargets
        /\ pc' \in BeforeRoutes \/ (pc' = "research" /\ asked' = "capability")
             => pc \in BeforeRoutes \/ (pc = "research" /\ asked = "capability")
    <3>1. CASE CompileMission \/ IngestCompanySources \/ JudgeCapabilityReview
               \/ RecordCapabilityReview \/ DiscoverEcosystem \/ ApplyBudget \/ Fail
      BY <3>1 DEF CompileMission, IngestCompanySources, JudgeCapabilityReview,
                  RecordCapabilityReview, DiscoverEcosystem, ApplyBudget, Fail
    <3>2. CASE ExtractCapabilityClaims
      BY <3>2 DEF ExtractCapabilityClaims, AskedInv
    <3> QED
      BY <1>1, <3>1, <3>2
  <2> QED
    BY <2>1, <2>2, <2>3
<1>2. ASSUME NEW g \in Gates, MarkAwaiting(g) \/ TakeResearch(g) \/ TakeReview(g)
      PROVE  GatesKept /\ NothingYet'
  <2>1. routes' = routes /\ targets' = targets
    BY <1>2 DEF MarkAwaiting, TakeResearch, TakeReview
  <2>2. Proposed' = Proposed /\ Candidates' = Candidates
    BY <2>1 DEF Proposed, Candidates
  <2>3. /\ pc' \in BeforeTargets => pc \in BeforeTargets
        /\ pc' \in BeforeRoutes \/ (pc' = "research" /\ asked' = "capability")
             => pc \in BeforeRoutes
    BY <1>2 DEF MarkAwaiting, TakeResearch, TakeReview
  <2> QED
    BY <2>1, <2>2, <2>3
<1>3. CASE ResearchMarketRoutes
  <2>1. Proposed = {} /\ Candidates = {} /\ targets' = targets /\ pc' = "markRoute"
    BY <1>3 DEF ResearchMarketRoutes
  <2>2. Candidates' = Candidates
    BY <2>1 DEF Candidates
  <2> QED
    BY <2>1, <2>2
<1>4. CASE RecordRouteReview
  <2>1. /\ targets' = targets /\ pc' = "ecosystem" /\ pc = "recordRoute"
        /\ routes' = [r \in Routes |->
              IF r \in Proposed
              THEN [routes[r] EXCEPT !.status = IF r \in recording THEN "approved"
                                                ELSE "deprioritized"]
              ELSE routes[r]]
    BY <1>4 DEF RecordRouteReview
  <2>2. Candidates' = Candidates
    BY <2>1 DEF Candidates
  <2>3. \A r \in Proposed : r \in Proposed' /\ routes'[r].fit = routes[r].fit
    BY <2>1 DEF Proposed, Absent
  <2> QED
    BY <2>1, <2>2, <2>3
<1>5. CASE RankTargets
  <2>1. Candidates = {} /\ routes' = routes /\ pc' = "markTarget"
    BY <1>5 DEF RankTargets
  <2>2. Proposed' = Proposed
    BY <2>1 DEF Proposed
  <2> QED
    BY <2>1, <2>2
<1>6. CASE RecordTargetReview \/ \E o \in Orgs : CreateOpportunity(o)
  <2>1. routes' = routes /\ targets' = targets /\ pc' \in {"create", "generating"}
    BY <1>6 DEF RecordTargetReview, CreateOpportunity
  <2>2. Proposed' = Proposed /\ Candidates' = Candidates
    BY <2>1 DEF Proposed, Candidates
  <2> QED
    BY <2>1, <2>2
<1> QED
  BY <1>1, <1>2, <1>3, <1>4, <1>5, <1>6 DEF Step

LEMMA OtherRoutes ==
  ASSUME IInv, ExhaustBudget \/ Request \/ Serve \/ UNCHANGED vars
  PROVE  GatesKept /\ NothingYet'
<1>0. /\ AskedInv /\ NothingYet /\ routes \in [Routes -> [status : RouteStatus, fit : BOOLEAN]]
  BY DEF IInv, TypeOK
<1>1. targets' = targets /\ pc' = pc /\ (pc = "research" => asked' = asked)
  BY <1>0, ReviewsAssumption
  DEF ExhaustBudget, Request, Serve, CheckReview, SubmitReview, ReadStage, UpdateCapability,
      UpdateRoute, ResearchCapabilities, UpdateMission, GrantBudget, AskedInv, vars, rows, wait,
      reviews, flow
<1>2. Candidates' = Candidates
  BY <1>1 DEF Candidates
<1>3. Proposed' = Proposed /\ \A r \in Proposed : routes'[r].fit = routes[r].fit
  <2>1. CASE routes' = routes
    BY <2>1 DEF Proposed
  <2>2. ASSUME NEW r \in Routes, NEW to \in {"approved", "deprioritized"}, UpdateRoute(r, to)
        PROVE  Proposed' = Proposed /\ \A q \in Proposed : routes'[q].fit = routes[q].fit
    <3>1. routes' = [routes EXCEPT ![r] = [routes[r] EXCEPT !.status = to]] /\ r \in Proposed
      BY <2>2 DEF UpdateRoute
    <3> QED
      BY <1>0, <3>1 DEF Proposed, Absent
  <2>3. routes' = routes
        \/ \E r \in Routes, to \in {"approved", "deprioritized"} : UpdateRoute(r, to)
    BY DEF ExhaustBudget, Request, Serve, CheckReview, SubmitReview, ReadStage, UpdateCapability,
           ResearchCapabilities, UpdateMission, GrantBudget, vars, rows
  <2> QED
    BY <2>1, <2>2, <2>3
<1> QED
  BY <1>0, <1>1, <1>2, <1>3 DEF GatesKept, NothingYet, BeforeRoutes, BeforeTargets

\* So a review that a gate has accepted goes on being accepted, wherever it is.
LEMMA AcceptedStay ==
  ASSUME GatesKept
  PROVE  \A g \in Judged : \A choice : Gate(g, choice) => Gate(g, choice)'
<1>1. \A choice : RouteGate(choice) => RouteGate(choice)'
  BY DEF RouteGate, GatesKept
<1>2. \A choice : TargetGate(choice) => TargetGate(choice)'
  BY DEF TargetGate, GatesKept
<1> QED
  BY <1>1, <1>2 DEF Judged, Gate

LEMMA StandsOn == ASSUME IInv, [Next]_vars, GatesKept PROVE StandInv'
<1>0. TypeOK /\ users \in [Users -> Commanded] /\ StandInv
  BY DEF IInv
<1>1. \A g \in Judged : \A choice : Gate(g, choice) => Gate(g, choice)'
  BY AcceptedStay
<1> USE <1>0, <1>1, Spelled DEF StandInv
<1>2. CASE /\ \A u \in Users : users'[u].op = "submit" => users'[u] = users[u]
           /\ reviewed' = reviewed /\ recording' = recording
           /\ \A g \in Judged : pc' = Record[g] => pc = Record[g]
  BY <1>2
<1>3. CASE Step
  <2>1. users' = users
    BY <1>3, StepTypes
  <2>2. ASSUME NEW g \in Gates, TakeReview(g) PROVE StandInv'
    <3>1. /\ reviewed' = reviewed /\ recording' = reviewed[g] /\ pc' = Record[g]
          /\ reviewed[g] # {}
      BY <2>2 DEF TakeReview
    <3>2. \A h \in Judged : pc' = Record[h] => h = g
      BY <3>1 DEF Judged
    <3> QED
      BY <2>1, <3>1, <3>2
  <2>3. CASE \/ CompileMission \/ IngestCompanySources \/ ExtractCapabilityClaims
             \/ JudgeCapabilityReview \/ RecordCapabilityReview \/ ResearchMarketRoutes
             \/ RecordRouteReview \/ DiscoverEcosystem \/ RankTargets \/ RecordTargetReview
             \/ ApplyBudget \/ Fail
             \/ \E o \in Orgs : CreateOpportunity(o)
             \/ \E g \in Gates : MarkAwaiting(g) \/ TakeResearch(g)
    <3>1. reviewed' = reviewed /\ recording' = recording
      BY <2>3 DEF CompileMission, IngestCompanySources, ExtractCapabilityClaims,
                  JudgeCapabilityReview, RecordCapabilityReview, ResearchMarketRoutes,
                  RecordRouteReview, DiscoverEcosystem, RankTargets, RecordTargetReview,
                  ApplyBudget, Fail, CreateOpportunity, MarkAwaiting, TakeResearch, reviews
    <3>2. pc' \notin {"recordRoute", "recordTarget"} \/ pc' = pc
      <4>1. CASE ExtractCapabilityClaims
        BY <4>1 DEF ExtractCapabilityClaims, IInv, AskedInv, At
      <4>2. CASE ~ExtractCapabilityClaims
        BY <2>3, <4>2
        DEF CompileMission, IngestCompanySources, JudgeCapabilityReview, RecordCapabilityReview,
            ResearchMarketRoutes, RecordRouteReview, DiscoverEcosystem, RankTargets,
            RecordTargetReview, ApplyBudget, Fail, CreateOpportunity, MarkAwaiting, TakeResearch
      <4> QED
        BY <4>1, <4>2
    <3> QED
      BY <1>2, <2>1, <3>1, <3>2 DEF Judged
  <2> QED
    BY <1>3, <2>2, <2>3 DEF Step
<1>4. ASSUME NEW u \in Users, SubmitReview(u) PROVE StandInv'
  <2>1. /\ users[u].op = "submit" /\ users[u].gate \in Gates
        /\ reviewed' = [reviewed EXCEPT ![users[u].gate] = users[u].choice]
        /\ users' = [users EXCEPT ![u] = Idle] /\ pc' = pc /\ recording' = recording
    BY <1>4 DEF SubmitReview, Is, Continue, Commanded, Idle
  <2>2. \A v \in Users : users'[v].op = "submit" => users'[v] = users[v]
    BY <2>1 DEF Idle
  <2>3. \A g \in Judged : reviewed'[g] = IF users[u].gate = g THEN users[u].choice ELSE reviewed[g]
    BY <2>1 DEF TypeOK, Judged
  <2> QED
    BY <2>1, <2>2, <2>3
<1>5. ASSUME NEW u \in Users, NEW g \in Gates, NEW choice, CheckReview(u, g, choice)
      PROVE  StandInv'
  <2>1. /\ Gate(g, choice) /\ pc' = pc /\ reviewed' = reviewed /\ recording' = recording
        /\ users' = [users EXCEPT ![u] = [op |-> "submit", gate |-> g, choice |-> choice]]
    BY <1>5 DEF CheckReview, Continue, flow, reviews
  <2>2. \A v \in Users : users'[v] = users[v] \/ (users'[v].gate = g /\ users'[v].choice = choice)
    BY <2>1
  <2>5. users'[u].choice = choice /\ users'[u].gate = g
    BY <2>1
  <2>7. ASSUME NEW h \in Judged, NEW v \in Users, users'[v].op = "submit", users'[v].gate = h
        PROVE  Gate(h, users[v].choice)'
    <3>1. CASE v = u
      <4>1. h = g /\ users'[v].choice = choice
        BY <2>5, <2>7, <3>1
      <4>2. CASE h = "route"
        <5>1. RouteGate(choice)'
          BY <2>1, <4>1, <4>2, AcceptedStay DEF Gate, GatesKept, RouteGate
        <5> QED
          BY <4>1, <4>2, <5>1 DEF Gate, RouteGate
      <4>3. CASE h = "target"
        <5>1. TargetGate(choice)'
          BY <2>1, <4>1, <4>3, AcceptedStay DEF Gate, GatesKept, TargetGate
        <5> QED
          BY <4>1, <4>3, <5>1 DEF Gate, TargetGate
      <4> QED
        BY <4>2, <4>3 DEF Judged
    <3>2. CASE v # u
      <4>1. users'[v] = users[v]
        BY <2>1, <3>2
      <4>2. Gate(h, users[v].choice)
        BY <2>7, <4>1
      <4> QED
        BY <4>1, <4>2
    <3> QED
      BY <3>1, <3>2
  <2> QED
    BY <2>1, <2>7
<1>6. CASE \/ ExhaustBudget \/ ResearchCapabilities \/ UNCHANGED vars
           \/ \E u \in Users : ReadStage(u) \/ UpdateMission(u) \/ GrantBudget(u)
           \/ \E c \in Claims, to \in ClaimStatus : UpdateCapability(c, to)
           \/ \E r \in Routes, to \in {"approved", "deprioritized"} : UpdateRoute(r, to)
  <2>1. pc' = pc /\ reviewed' = reviewed /\ recording' = recording
    BY <1>6 DEF ExhaustBudget, ResearchCapabilities, ReadStage, UpdateMission, GrantBudget,
                UpdateCapability, UpdateRoute, vars, flow, reviews
  <2>2. \A u \in Users : users'[u].op = "submit" => users'[u] = users[u]
    <3>1. CASE users' = users
      BY <3>1
    <3>2. ASSUME NEW u \in Users, ReadStage(u) \/ UpdateMission(u) \/ GrantBudget(u)
          PROVE  \A v \in Users : users'[v].op = "submit" => users'[v] = users[v]
      BY <3>2 DEF ReadStage, UpdateMission, GrantBudget, Continue, Idle
    <3>3. users' = users \/ \E u \in Users : ReadStage(u) \/ UpdateMission(u) \/ GrantBudget(u)
      BY <1>6 DEF ExhaustBudget, ResearchCapabilities, UpdateCapability, UpdateRoute, vars, api
    <3> QED
      BY <3>1, <3>2, <3>3
  <2> QED
    BY <1>2, <2>1, <2>2
<1> QED
  BY <1>3, <1>4, <1>5, <1>6 DEF Next, Request, Serve

LEMMA NextIInv == IInv /\ [Next]_vars => IInv'
<1> SUFFICES ASSUME IInv, [Next]_vars PROVE IInv'
  OBVIOUS
<1>1. Kept'
  <2>1. CASE Step
    BY <2>1, StepTypes, StepApprovals DEF IInv, Kept
  <2>2. CASE ExhaustBudget
    BY <2>2, ExhaustStep DEF Kept
  <2>3. CASE UNCHANGED vars
    BY <2>3 DEF IInv, Kept, TypeOK, AskedInv, ApprovalsFollowReviews, Reviewing, vars, rows, wait,
                reviews, flow, api
  <2> QED
    BY <2>1, <2>2, <2>3, UserSteps DEF Next
<1>2. GatesKept /\ NothingYet'
  BY StepRoutes, OtherRoutes DEF Next
<1>3. StandInv'
  BY <1>2, StandsOn
<1> QED
  BY <1>1, <1>2, <1>3 DEF IInv, Kept

LEMMA Invariance == Spec => []IInv
  BY InitIInv, NextIInv, PTL DEF Spec

(* However many commands, every variable keeps its kind; TypeOK is part of  *)
(* the inductive invariant.                                                 *)
THEOREM TypeCorrect == Spec => []TypeOK
<1>1. IInv => TypeOK
  BY DEF IInv
<1> QED
  BY Invariance, <1>1, PTL

(* Whatever users ask for, change or grant meanwhile, the approval of a     *)
(* capability or target review is open exactly while the workflow waits for *)
(* the review or records it: there are never two of them, and none is left  *)
(* when the workflow has gone on.                                           *)
THEOREM ApprovalsFollow == Spec => []ApprovalsFollowReviews
<1>1. IInv => ApprovalsFollowReviews
  BY DEF IInv
<1> QED
  BY Invariance, <1>1, PTL

(* Whatever users change and however long research and budgets take, the   *)
(* gate that accepted a route or target review at the API accepts it when   *)
(* the workflow records it, so no such review ends the mission.             *)
THEOREM AcceptedStand == Spec => []AcceptedReviewsStand
<1>1. IInv => AcceptedReviewsStand
  BY DEF IInv, StandInv, Judged, AcceptedReviewsStand
<1> QED
  BY Invariance, <1>1, PTL
=============================================================================
