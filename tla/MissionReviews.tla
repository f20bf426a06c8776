--------------------------- MODULE MissionReviews ---------------------------
(***************************************************************************)
(* The reviews of a mission: what the agents propose, what users decide at *)
(* the API, and what the activities of the mission's workflow record.  The *)
(* API checks a submission against the database and then signals it; the   *)
(* workflow records it later, after further research and after whatever    *)
(* other users have changed.                                               *)
(*                                                                         *)
(* MissionWorkflow models the workflow's own state; here are the rows.     *)
(* Claims are those of high impact, and a target is an organization whose  *)
(* best assessment has passed the gate.                                    *)
(***************************************************************************)
EXTENDS Naturals, FiniteSets

CONSTANTS Users, Claims, Routes, Orgs,
          None,
          Commands,     \* the API commands of this instance
          MaxCommands,  \* bound: commands users issue
          MaxOver       \* bound: how often a step finds the budget exhausted

ASSUME ReviewsAssumption ==
  /\ MaxCommands \in Nat /\ MaxOver \in Nat
  /\ None \notin Routes \cup {"yes", "capability", "route"}

VARIABLES stage, claims, routes, targets, opportunities,  \* PostgreSQL
          open,                                 \* pending approvals of each type
          pc, blocked, reviewed, recording, asked, granted, selected,  \* the workflow
          users, issued, overs

rows == <<stage, claims, routes, targets, opportunities, open>>
wait == <<blocked, granted, overs>>
reviews == <<reviewed, recording>>
flow == <<pc, wait, reviews, asked, selected>>
api == <<users, issued>>
vars == <<rows, flow, api>>

Gates == {"capability", "route", "target"}
Types == Gates \cup {"budget"}
Absent == "absent"
Resolved == {"user_confirmed", "contradicted", "unknown"}
ClaimStatus == {"observed"} \cup Resolved
RouteStatus == {Absent, "proposed", "approved", "deprioritized"}
Awaiting == [capability |-> "awaiting_capability_review", route |-> "awaiting_route_review",
             target |-> "awaiting_target_review"]
Mark == [capability |-> "markCapability", route |-> "markRoute", target |-> "markTarget"]
Record == [capability |-> "recordCapability", route |-> "recordRoute", target |-> "recordTarget"]
Stages == {Awaiting[g] : g \in Gates} \cup
          {"compiling", "ingesting_company_data", "researching_routes", "researching_ecosystem",
           "researching_targets", "researching_contacts", "awaiting_budget_review", "active"}
AgentSteps == {"compile", "extract", "routes", "ecosystem", "rank", "research"}
PC == AgentSteps \cup Gates \cup {Mark[g] : g \in Gates} \cup {Record[g] : g \in Gates}
      \cup {"commitCapability", "ingest", "create", "generating", "failed"}
Idle == [op |-> "idle"]

Present == {c \in Claims : claims[c].status # Absent}
Proposed == {r \in Routes : routes[r].status # Absent}
Approved == {r \in Routes : routes[r].status = "approved"}
Candidates == {o \in Orgs : targets[o] # None}
OneToThree(S) == S # {} /\ Cardinality(S) <= 3

Init ==
  /\ stage = "compiling" /\ open = [t \in Types |-> 0]
  /\ claims = [c \in Claims |-> [status |-> Absent, sourced |-> FALSE]]
  /\ routes = [r \in Routes |-> [status |-> Absent, fit |-> FALSE]]
  /\ targets = [o \in Orgs |-> None] /\ opportunities = {}
  /\ pc = "compile" /\ blocked = FALSE /\ granted = FALSE
  /\ reviewed = [g \in Gates |-> {}] /\ recording = {} /\ asked = None /\ selected = {}
  /\ users = [u \in Users |-> Idle] /\ issued = 0 /\ overs = 0

-----------------------------------------------------------------------------
(* The steps of the workflow. *)
At(p) == pc = p /\ ~blocked

(* compileMission; without a supplier there are no capabilities to review.  *)
CompileMission ==
  /\ At("compile") /\ stage' = "compiling" /\ pc' \in {"ingest", "routes"}
  /\ UNCHANGED <<claims, routes, targets, opportunities, open, wait, reviews, asked, selected,
                 api>>

IngestCompanySources ==
  /\ At("ingest") /\ stage' = "ingesting_company_data" /\ pc' = "extract"
  /\ UNCHANGED <<claims, routes, targets, opportunities, open, wait, reviews, asked, selected,
                 api>>

(* extractCapabilityClaims adds claims, with or without evidence, at first  *)
(* and whenever a user asks for research during one of the first reviews.   *)
ExtractCapabilityClaims ==
  /\ At("extract") \/ At("research")
  /\ \E new \in SUBSET (Claims \ Present) :
       \E says \in [new -> [status : {"observed", "unknown"}, sourced : BOOLEAN]] :
         claims' = [c \in Claims |-> IF c \in new THEN says[c] ELSE claims[c]]
  /\ pc' = IF pc = "extract" THEN "markCapability" ELSE asked
  /\ asked' = IF pc = "research" THEN None ELSE asked
  /\ UNCHANGED <<stage, routes, targets, opportunities, open, wait, reviews, selected, api>>

(* The approval of the review: one if none is open; for the routes only if  *)
(* their artifact has a current version, which it gets from a review.       *)
Opened(g) == IF g = "route" \/ open[g] > 0 THEN open[g] ELSE 1
MarkAwaiting(g) ==
  /\ At(Mark[g]) /\ stage' = Awaiting[g] /\ open' = [open EXCEPT ![g] = Opened(g)]
  /\ pc' = g
  /\ UNCHANGED <<claims, routes, targets, opportunities, wait, reviews, asked, selected, api>>

(* The wait of a review ends with a submission; until then the first two    *)
(* take up requests for research.                                           *)
TakeResearch(g) ==
  /\ At(g) /\ g # "target" /\ asked = "yes" /\ asked' = g /\ pc' = "research"
  /\ UNCHANGED <<rows, wait, reviews, selected, api>>

TakeReviewOfStage(g) ==
  /\ At(g) /\ stage = Awaiting[g] /\ (g # "target" => asked # "yes") /\ reviewed[g] # {}
  /\ recording' = reviewed[g] /\ pc' = Record[g]
  /\ UNCHANGED <<rows, wait, reviewed, asked, selected, api>>
TakeReview(g) ==
  /\ At(g) /\ (g # "target" => asked # "yes") /\ reviewed[g] # {}
  /\ recording' = reviewed[g] /\ pc' = Record[g]
  /\ UNCHANGED <<rows, wait, reviewed, asked, selected, api>>

(* The gates of the three reviews, over the rows of this moment. *)
CapabilityGate(decided) ==
  /\ Present # {} /\ \A c \in Present : c \in decided /\ claims[c].status \in Resolved
  /\ \E c \in Present : claims[c].status = "user_confirmed"
  /\ \A c \in Present : claims[c].status \in {"user_confirmed", "contradicted"} => claims[c].sourced
RouteGate(chosen) == OneToThree(chosen) /\ \A r \in chosen : r \in Proposed /\ routes[r].fit
TargetGate(chosen) == OneToThree(chosen) /\ chosen \subseteq Candidates
Gate(g, choice) == CASE g = "capability" -> CapabilityGate(choice)
                     [] g = "route" -> RouteGate(choice)
                     [] g = "target" -> TargetGate(choice)

(* Every review is judged once more when it is recorded, and its approvals  *)
(* are closed.  The activity has one attempt: a refusal ends the workflow.  *)
Accepted(g) == Gate(g, recording)
ClosedButTargets(g) == IF g = "target" THEN open ELSE [open EXCEPT ![g] = 0]
Closed(g) == [open EXCEPT ![g] = 0]

(* recordCapabilityReview reads the claims without a lock on them; what is  *)
(* written later is the review's, whatever has become of them.  It holds the*)
(* row of the mission meanwhile.  The other two are judged by what nobody   *)
(* else writes, and are one step each.                                      *)
JudgeCapabilityReview ==
  /\ At("recordCapability") /\ Accepted("capability") /\ pc' = "commitCapability"
  /\ UNCHANGED <<rows, wait, reviews, asked, selected, api>>
MissionHeld == pc = "commitCapability"

RecordCapabilityReview ==
  /\ At("commitCapability")
  /\ stage' = "researching_routes" /\ open' = Closed("capability") /\ pc' = "routes"
  /\ UNCHANGED <<claims, routes, targets, opportunities, wait, reviews, asked, selected, api>>

ResearchMarketRoutes ==
  /\ At("routes") /\ pc' = "markRoute"
  /\ \E new \in SUBSET Routes : \E fits \in [new -> BOOLEAN] :
       routes' = [r \in Routes |-> IF r \in new THEN [status |-> "proposed", fit |-> fits[r]]
                                   ELSE routes[r]]
  /\ UNCHANGED <<stage, claims, targets, opportunities, open, wait, reviews, asked, selected,
                 api>>

(* recordRouteReview approves the chosen routes and puts every other aside. *)
RecordRouteReview ==
  /\ At("recordRoute") /\ Accepted("route")
  /\ routes' = [r \in Routes |->
       IF r \in Proposed
       THEN [routes[r] EXCEPT !.status = IF r \in recording THEN "approved"
                                         ELSE "deprioritized"]
       ELSE routes[r]]
  /\ stage' = "researching_ecosystem" /\ open' = Closed("route") /\ pc' = "ecosystem"
  /\ UNCHANGED <<claims, targets, opportunities, wait, reviews, asked, selected, api>>

(* discoverEcosystem and resolveEntities find organizations. *)
DiscoverEcosystem ==
  /\ At("ecosystem") /\ pc' = "rank"
  /\ UNCHANGED <<rows, wait, reviews, asked, selected, api>>

(* rankTargets: a target on a route that is not approved by now is refused. *)
RankTargets ==
  /\ At("rank") /\ targets' \in [Orgs -> Approved \cup {None}]
  /\ stage' = "researching_targets" /\ pc' = "markTarget"
  /\ UNCHANGED <<claims, routes, opportunities, open, wait, reviews, asked, selected, api>>

RecordTargetReview ==
  /\ At("recordTarget") /\ Accepted("target")
  /\ selected' = recording
  /\ stage' = "researching_contacts" /\ open' = Closed("target") /\ pc' = "create"
  /\ UNCHANGED <<claims, routes, targets, opportunities, wait, reviews, asked, api>>

(* createOpportunity, for one selected target after the other: its route    *)
(* must still be approved.                                                  *)
OnApprovedRoute(o) == targets[o] \in Approved
CreateOpportunity(o) ==
  /\ At("create") /\ o \in selected /\ OnApprovedRoute(o)
  /\ opportunities' = opportunities \cup {<<o, targets[o]>>}
  /\ selected' = selected \ {o} /\ pc' = IF selected = {o} THEN "generating" ELSE pc
  /\ UNCHANGED <<stage, claims, routes, targets, open, wait, reviews, asked, api>>

(* enforceBudget, before an agent starts: the stage of the row, another     *)
(* approval, and a failure that makes the step wait for a budget.           *)
ExhaustBudget ==
  /\ \E p \in AgentSteps : At(p)
  /\ overs < MaxOver /\ overs' = overs + 1
  /\ stage' = "awaiting_budget_review" /\ open' = [open EXCEPT !["budget"] = @ + 1]
  /\ blocked' = TRUE
  /\ UNCHANGED <<claims, routes, targets, opportunities, pc, granted, reviews, asked, selected, api>>

(* applyBudget; the step is tried again. *)
ApplyBudget ==
  /\ blocked /\ granted /\ blocked' = FALSE /\ granted' = FALSE
  /\ UNCHANGED <<rows, pc, overs, reviews, asked, selected, api>>

(* A failed activity, one of a gate that refuses among them, ends the       *)
(* workflow.                                                                *)
Fail ==
  /\ ~blocked /\ pc \notin Gates \cup {"generating", "failed"} /\ pc' = "failed"
  /\ UNCHANGED <<rows, wait, reviews, asked, selected, api>>

Step ==
  \/ CompileMission \/ IngestCompanySources \/ ExtractCapabilityClaims
  \/ \E g \in Gates : MarkAwaiting(g) \/ TakeResearch(g) \/ TakeReview(g)
  \/ JudgeCapabilityReview \/ RecordCapabilityReview \/ ResearchMarketRoutes
  \/ RecordRouteReview \/ DiscoverEcosystem \/ RankTargets \/ RecordTargetReview
  \/ \E o \in Orgs : CreateOpportunity(o)
  \/ ApplyBudget \/ Fail

-----------------------------------------------------------------------------
(* The API. *)
Issue(op) == op \in Commands /\ issued < MaxCommands /\ issued' = issued + 1
Is(u, op) == users[u].op = op
Continue(u, next) == users' = [users EXCEPT ![u] = next]
Running == pc # "failed"

(* completeCapabilityReview, completeRouteReview, completeTargetReview: the *)
(* mission awaits the review, and the gate accepts the choice.              *)
CheckReview(u, g, choice) ==
  /\ Is(u, "idle") /\ Issue("review") /\ stage = Awaiting[g] /\ Gate(g, choice)
  /\ Continue(u, [op |-> "submit", gate |-> g, choice |-> choice])
  /\ UNCHANGED <<rows, flow>>

SubmitReview(u) ==
  /\ Is(u, "submit") /\ Running /\ Continue(u, Idle)
  /\ reviewed' = [reviewed EXCEPT ![users[u].gate] = users[u].choice]
  /\ UNCHANGED <<rows, pc, wait, recording, asked, selected, issued>>

(* updateCapability and updateRoute change a row at any time, and lock no   *)
(* other; of a route users change its status and wording, not what the gate *)
(* looks at.  A claim whose impact is changed is left out.                  *)
UpdateCapability(c, to) ==
  /\ Issue("claim") /\ c \in Present /\ claims' = [claims EXCEPT ![c].status = to]
  /\ UNCHANGED <<stage, routes, targets, opportunities, open, flow, users>>

UpdateRouteAndFit(r, to) ==
  /\ Issue("route") /\ r \in Proposed /\ routes' = [routes EXCEPT ![r] = [status |-> to, fit |-> FALSE]]
  /\ UNCHANGED <<stage, claims, targets, opportunities, open, flow, users>>
UpdateRoute(r, to) ==
  /\ Issue("route") /\ r \in Proposed /\ routes' = [routes EXCEPT ![r].status = to]
  /\ UNCHANGED <<stage, claims, targets, opportunities, open, flow, users>>

ResearchCapabilities ==
  /\ Issue("research") /\ Running /\ asked = None /\ asked' = "yes"
  /\ UNCHANGED <<rows, pc, wait, reviews, selected, users>>

(* updateMission with a budget: it reads the stage, later makes it `active` *)
(* if it had read the budget review, and signals the workflow.              *)
ReadStage(u) ==
  /\ Is(u, "idle") /\ Issue("budget") /\ Continue(u, [op |-> "budget", read |-> stage])
  /\ UNCHANGED <<rows, flow>>

UpdateMission(u) ==
  /\ Is(u, "budget") /\ ~MissionHeld /\ Continue(u, [op |-> "grant"])
  /\ stage' = IF users[u].read = "awaiting_budget_review" THEN "active" ELSE stage
  /\ UNCHANGED <<claims, routes, targets, opportunities, open, flow, issued>>

GrantBudget(u) ==
  /\ Is(u, "grant") /\ Running /\ granted' = TRUE /\ Continue(u, Idle)
  /\ UNCHANGED <<rows, pc, blocked, overs, reviews, asked, selected, issued>>

Request ==
  \/ \E u \in Users, g \in Gates : \E choice \in SUBSET (CASE g = "capability" -> Claims
                                                           [] g = "route" -> Routes
                                                           [] g = "target" -> Orgs) :
       CheckReview(u, g, choice)
  \/ \E u \in Users : ReadStage(u)
  \/ \E c \in Claims, to \in ClaimStatus : UpdateCapability(c, to)
  \/ \E r \in Routes, to \in {"approved", "deprioritized"} : UpdateRoute(r, to)
  \/ ResearchCapabilities
Serve == \E u \in Users : SubmitReview(u) \/ UpdateMission(u) \/ GrantBudget(u)

Next == Step \/ ExhaustBudget \/ Request \/ Serve
Spec == Init /\ [][Next]_vars
(* An activity answers or fails, and the workflow's tasks are dispatched. *)
FairSpec == Spec /\ WF_vars(Step)

-----------------------------------------------------------------------------
(* Every variable keeps its kind. *)
TypeOK ==
  /\ stage \in Stages /\ open \in [Types -> Nat] /\ pc \in PC
  /\ claims \in [Claims -> [status : {Absent} \cup ClaimStatus, sourced : BOOLEAN]]
  /\ routes \in [Routes -> [status : RouteStatus, fit : BOOLEAN]]
  /\ targets \in [Orgs -> Routes \cup {None}] /\ opportunities \subseteq Orgs \X Routes
  /\ blocked \in BOOLEAN /\ granted \in BOOLEAN /\ overs \in 0 .. MaxOver
  /\ reviewed \in [Gates -> SUBSET (Claims \cup Routes \cup Orgs)]
  /\ recording \subseteq Claims \cup Routes \cup Orgs
  /\ asked \in {None, "yes", "capability", "route"} /\ selected \subseteq Orgs
  /\ issued \in 0 .. MaxCommands

(* A route or target review that the API has accepted is accepted again     *)
(* when it is recorded, after research, budget waits, other submissions and *)
(* whatever users have done to the routes: were it refused, the one attempt *)
(* of its activity would be used up and the mission's workflow would end.   *)
AcceptedReviewsStand == \A g \in {"route", "target"} : pc = Record[g] => Gate(g, recording)

(* The approval of a capability or target review is open exactly while the  *)
(* workflow waits for the review or records it.                             *)
Reviewing(g) ==
  \/ pc \in {g, Record[g]} \/ (g = "capability" /\ pc = "commitCapability")
  \/ pc = "research" /\ asked = g
ApprovalsFollowReviews ==
  pc # "failed" => \A g \in {"capability", "target"} : open[g] = IF Reviewing(g) THEN 1 ELSE 0

(* A submission that reaches the workflow in its review leads on, unless a  *)
(* step waits for a budget.                                                 *)
SubmittedReviewSettles ==
  \A g \in Gates : (pc = g /\ reviewed[g] # {}) ~> ~Reviewing(g) \/ blocked

(* The acceptance list of BM1 has a completed capability review mean that   *)
(* every claim of high impact has been dealt with as the route research     *)
(* begins: so it is when the review is judged, not when it is recorded.     *)
RecordedReviewIsCurrent ==
  [][pc = "commitCapability" /\ pc' = "routes" =>
       \A c \in Present : c \in recording /\ claims[c].status \in Resolved]_vars

(* The analysis of the route research lists a pending market_route approval *)
(* among what markMissionAwaitingRouteReview leaves behind.                 *)
RouteReviewIsListed == pc = "route" => open["route"] > 0

(* The analysis of the capability research says that after budgetUpdated    *)
(* the mission is back in the stage it came from: a review that goes on     *)
(* waiting can be submitted.                                                *)
BackInReview == \A g \in Gates : At(g) /\ asked = None => stage = Awaiting[g]
=============================================================================
