--------------------------- MODULE MissionWorkflow ---------------------------
(* The mission workflow, packages/workflows/src/mission-workflow.ts: a       *)
(* coroutine that runs from one await to the next, and signal handlers that  *)
(* run between. An action is a signal, or what one answer or one condition   *)
(* that has come true lets the workflow do up to its next awaits. `pc` names *)
(* what the main coroutine awaits; the steps are coroutines of their own.    *)
EXTENDS Naturals, SequencesExt

CONSTANTS Opportunities,  \* the targets the user selects
          Routes,         \* the routes the user approves
          Refreshes,      \* requests to refresh the mission
          Researches,     \* requests to research its capabilities again
          Budgets,
          None,
          MaxPauses, MaxUpdates, MaxOver, MaxContinues  \* bounds of the model

Requests == Refreshes \cup Researches

ASSUME NonEmpty == Routes # {} /\ Opportunities # {}
ASSUME NoneIsNothing == None \notin Requests \cup Opportunities \cup Budgets
ASSUME RequestsDiffer == Refreshes \cap Researches = {}
ASSUME Bounds == {MaxPauses, MaxUpdates, MaxOver, MaxContinues} \subseteq Nat

VARIABLES
    pc,       \* what the main coroutine awaits
    step,     \* each step: where it is, previousStage, the budget it is applying
    waiting,  \* the steps that wait for a budget, in the order in which they began to
    state,    \* the workflow's state, which Continue As New keeps
    local,    \* its local variables, which it does not
    hand,     \* the request, target or budget in hand
    todo,     \* the targets that have no opportunity yet
    gone,     \* opportunities whose workflow has ended
    recorded, \* the payload in the idempotency record of updateMissionBudget
    sent, taken,  \* requests sent, and how often each was taken up
    count     \* counters for the bounds

flow == <<pc, step, waiting>>
work == <<hand, todo, taken>>
world == <<gone, recorded, sent, count>>
vars == <<flow, state, local, work, world>>

Gates == {"capability", "route", "target"}
(* The nodes at which steps run, and the steps of each. *)
StepsOf == [load |-> {"loadMission"}, compile |-> {"compileMission"},
            ingest |-> {"ingestCompanySources"}, claims |-> {"extractCapabilityClaims"},
            routes |-> {"researchMarketRoutes", "researchCompetitors", "researchExpertSignals"},
            ecosystem |-> Routes, resolve |-> {"resolveEntities"}, rank |-> {"rankTargets"},
            researchCapability |-> {"requested"}, researchRoute |-> {"requested"},
            research |-> {"requested"}]
StepNodes == DOMAIN StepsOf
Steps == UNION {StepsOf[n] : n \in StepNodes}
(* The nodes that wait for one activity, child workflow or signal to one. *)
CallNodes == {"markCapability", "recordCapability", "markRoute", "recordRoute", "markTarget",
              "recordTarget", "create", "start", "recordChild", "markAction", "markActive",
              "schedule", "pauseRow", "resumeRow", "update", "tell", "refresh", "complete"}
WaitNodes == {"awaitCapability", "awaitRoute", "awaitTarget", "awaitActions", "awaitApproval",
              "awaitResume", "idle"}
Nodes == StepNodes \cup CallNodes \cup WaitNodes \cup {"completed", "failed"}
Open == pc \notin {"completed", "failed"}

(* The nodes of a review: while its row is in the review's stage. *)
Mark == [capability |-> "markCapability", route |-> "markRoute", target |-> "markTarget"]
Await == [capability |-> "awaitCapability", route |-> "awaitRoute", target |-> "awaitTarget"]
Record == [capability |-> "recordCapability", route |-> "recordRoute", target |-> "recordTarget"]
Research == [capability |-> "researchCapability", route |-> "researchRoute"]

(* What follows when the steps or the call of a node are done. *)
After == [load |-> {"compile"}, compile |-> {"ingest", "routes"},  \* supplierKnown or not
          ingest |-> {"claims"}, claims |-> {"markCapability"}, recordCapability |-> {"routes"},
          routes |-> {"markRoute"}, recordRoute |-> {"ecosystem"}, ecosystem |-> {"resolve"},
          resolve |-> {"rank"}, rank |-> {"markTarget"}, markAction |-> {"awaitApproval"},
          markActive |-> {"schedule"}, pauseRow |-> {"awaitResume"}, complete |-> {"completed"}]

(* The assignments to the stage and the approvals on the way to a node. *)
StageAt == [ingest |-> "ingesting_company_data", claims |-> "researching_capabilities",
            awaitCapability |-> "awaiting_capability_review", routes |-> "researching_routes",
            awaitRoute |-> "awaiting_route_review", ecosystem |-> "researching_ecosystem",
            rank |-> "researching_targets", awaitTarget |-> "awaiting_target_review",
            create |-> "researching_contacts", awaitActions |-> "generating_actions",
            markAction |-> "awaiting_action_review", markActive |-> "active"]
Stages == {StageAt[n] : n \in DOMAIN StageAt} \cup {"compiling", "awaiting_budget_review"}
Asks(n) == {g \in Gates : Await[g] = n} \cup IF n = "markAction" THEN {"action"} ELSE {}
Clears(n) == IF n = "markActive" THEN {"action"} ELSE {}

(* What an opportunity has reported: anything before its first card, the     *)
(* card, its approval, what interactions lead to, and its end.               *)
Milestones == <<"researching", "action_ready", "approved", "engaged", "closed">>
Settled == {"action_ready", "approved", "closed"}
Children == {o \in Opportunities : state.known[o] # "none"}
AllSettled == \A o \in Children : state.known[o] \in Settled

Off == [at |-> "off", before |-> None, budget |-> None]
StepStates == [at : {"off", "held", "running", "blocked", "updating", "telling", "done"},
               before : Stages \cup {None}, budget : Budgets \cup {None}]

FlowTypes ==
    pc \in Nodes /\ step \in [Steps -> StepStates] /\ waiting \in Seq(Steps)
States == [stage : Stages, approvals : SUBSET (Gates \cup {"budget", "action"}),
           paused : BOOLEAN, refresh : Seq(Refreshes), research : Seq(Researches),
           known : [Opportunities -> ToSet(Milestones) \cup {"none"}]]
Locals == [reviewed : SUBSET Gates, complete : BOOLEAN, budget : Budgets \cup {None},
           refresh : Seq(Refreshes), research : Seq(Researches)]
WorkTypes ==
    /\ hand \in Requests \cup Opportunities \cup Budgets \cup {None}
    /\ todo \subseteq Opportunities /\ taken \in [Requests -> Nat]
WorldTypes ==
    /\ gone \subseteq Opportunities /\ recorded \in Budgets \cup {None} /\ sent \subseteq Requests
    /\ count \in [pauses : 0..MaxPauses, updates : 0..MaxUpdates, overs : 0..MaxOver,
                  continues : 0..MaxContinues]
(* The shape of the workflow's state, with every step waiting or at work.    *)
TypeOK == FlowTypes /\ state \in States /\ local \in Locals /\ WorkTypes /\ WorldTypes

-----------------------------------------------------------------------------
(* Going on to a node. *)

(* awaitResume: a step is held while the mission is paused. *)
Begun == [Off EXCEPT !.at = IF state.paused /\ ~local.complete THEN "held" ELSE "running"]

Passed(n) == [state EXCEPT !.stage = IF n \in DOMAIN StageAt THEN StageAt[n] ELSE @,
                           !.approvals = (@ \cup Asks(n)) \ Clears(n)]

Go(n) ==
    /\ pc' = n /\ UNCHANGED waiting
    /\ step' = [s \in Steps |-> IF n \in StepNodes /\ s \in StepsOf[n] THEN Begun ELSE Off]

Enter(n) == Go(n) /\ state' = Passed(n)

(* An error that no step catches ends the workflow. *)
Fail == pc' = "failed" /\ UNCHANGED <<step, waiting, state, local, work, world>>

-----------------------------------------------------------------------------
(* Signals. *)

Handle(st, loc) == state' = st /\ local' = loc /\ UNCHANGED <<flow, work>>

(* The API accepts a review while the mission's row is in the review's stage: *)
(* from the commit of the activity that marks it, not from its answer.        *)
Review(g) ==
    /\ pc \in {Mark[g], Await[g], Record[g]} \cup {Research[h] : h \in DOMAIN Research \cap {g}}
    /\ Handle([state EXCEPT !.approvals = @ \ {g}], [local EXCEPT !.reviewed = @ \cup {g}])
    /\ UNCHANGED world

SetPaused(b) ==
    /\ Open /\ state.paused # b
    /\ count' = [count EXCEPT !.pauses = IF b THEN @ + 1 ELSE @] /\ count'.pauses <= MaxPauses
    /\ Handle([state EXCEPT !.paused = b], local)
    /\ UNCHANGED <<gone, recorded, sent>>

Queued(q, r) == IF r \in ToSet(q) THEN q ELSE Append(q, r)

Request(r) ==
    /\ Open /\ r \notin sent /\ sent' = sent \cup {r}
    /\ LET q == IF r \in Refreshes THEN Queued(local.refresh, r) ELSE Queued(local.research, r)
       IN IF r \in Refreshes
          THEN Handle([state EXCEPT !.refresh = q], [local EXCEPT !.refresh = q])
          ELSE Handle([state EXCEPT !.research = q], [local EXCEPT !.research = q])
    /\ UNCHANGED <<gone, recorded, count>>

UpdateBudget(b) ==
    /\ Open /\ count.updates < MaxUpdates /\ count' = [count EXCEPT !.updates = @ + 1]
    /\ Handle(state, [local EXCEPT !.budget = b])
    /\ UNCHANGED <<gone, recorded, sent>>

RequestCompletion ==
    /\ Open /\ Handle(state, [local EXCEPT !.complete = TRUE]) /\ UNCHANGED world

ReportMilestone(o) ==
    /\ Open /\ o \notin gone
    /\ \E i \in 1 .. Len(Milestones) - 1 :
         /\ state.known[o] = Milestones[i]
         /\ Handle([state EXCEPT !.known[o] = Milestones[i + 1]], local)
    /\ UNCHANGED world

(* A child workflow ends: it is done, or an activity of its own has failed. *)
ChildEnds(o) ==
    /\ Open /\ o \in Children \ gone /\ gone' = gone \cup {o}
    /\ UNCHANGED <<flow, state, local, work, recorded, sent, count>>

-----------------------------------------------------------------------------
(* The active loop: a turn goes through the pause, the budget and the two    *)
(* queues, up to the first await, and may end in Continue As New.            *)

Taken(r) == hand' = r /\ taken' = [taken EXCEPT ![r] = @ + 1]

\* Mutant: the state's list of requests is not updated.
TakeRefreshAlone ==
    /\ local.refresh # <<>> /\ Taken(Head(local.refresh)) /\ Go("refresh")
    /\ local' = [local EXCEPT !.refresh = Tail(@)]
    /\ UNCHANGED <<state, count>>

TakeRefresh ==
    /\ local.refresh # <<>> /\ Taken(Head(local.refresh)) /\ Go("refresh")
    /\ local' = [local EXCEPT !.refresh = Tail(@)]
    /\ state' = [state EXCEPT !.refresh = local'.refresh]
    /\ UNCHANGED count

TakeResearch(n) ==
    /\ local.research # <<>> /\ Taken(Head(local.research)) /\ Go(n)
    /\ local' = [local EXCEPT !.research = Tail(@)]
    /\ state' = [state EXCEPT !.research = local'.research]
    /\ UNCHANGED count

Fresh == [reviewed |-> {}, complete |-> FALSE, budget |-> None,
          refresh |-> state.refresh, research |-> state.research]

ContinueAsNew ==
    /\ count.continues < MaxContinues /\ count' = [count EXCEPT !.continues = @ + 1]
    /\ Go("idle") /\ local' = Fresh /\ hand' = None /\ UNCHANGED <<state, taken>>

EndOfTurn ==
    \/ ContinueAsNew
    \/ /\ Go(IF local.complete THEN "complete" ELSE "idle")
       /\ hand' = None /\ UNCHANGED <<state, local, taken, count>>

FromResearches == TakeResearch("research") \/ (local.research = <<>> /\ EndOfTurn)
FromQueues == TakeRefresh \/ (local.refresh = <<>> /\ FromResearches)

FromBudget ==
    \/ /\ local.budget # None /\ Go("update") /\ hand' = local.budget
       /\ local' = [local EXCEPT !.budget = None] /\ UNCHANGED <<state, taken, count>>
    \/ local.budget = None /\ FromQueues

Pass(n) == Enter(n) /\ UNCHANGED <<local, hand, taken, count>>
TurnFrame == UNCHANGED <<todo, gone, recorded, sent>>

\* Mutant: the condition does not look at the requests to research.
WakeIdleDeaf ==
    /\ pc = "idle"
    /\ \/ local.complete \/ state.paused \/ local.budget # None
       \/ local.refresh # <<>> \/ count.continues < MaxContinues
    /\ IF state.paused THEN Pass("pauseRow") ELSE FromBudget
    /\ TurnFrame

WakeIdle ==
    /\ pc = "idle"
    /\ \/ local.complete \/ state.paused \/ local.budget # None
       \/ local.refresh # <<>> \/ local.research # <<>> \/ count.continues < MaxContinues
    /\ IF state.paused THEN Pass("pauseRow") ELSE FromBudget
    /\ TurnFrame

WakeResume ==
    /\ pc = "awaitResume" /\ (~state.paused \/ local.complete)
    /\ IF local.complete THEN FromBudget ELSE Pass("resumeRow")
    /\ TurnFrame

ResumeRowDone == pc = "resumeRow" /\ FromBudget /\ TurnFrame

(* updateMissionBudget has one idempotency key for the mission: a payload    *)
(* other than the recorded one is refused, with an error no step catches.    *)
Accepted(b) == recorded \in {None, b}

UpdateDone ==
    /\ pc = "update" /\ Accepted(hand) /\ recorded' = hand
    /\ IF Children = {} THEN FromQueues ELSE Pass("tell")
    /\ UNCHANGED <<todo, gone, sent>>

(* A signal to a workflow that has ended fails. *)
TellDone == pc = "tell" /\ Children \cap gone = {} /\ FromQueues /\ TurnFrame

RefreshDone == pc = "refresh" /\ FromQueues /\ TurnFrame

-----------------------------------------------------------------------------
(* Reviews. A wait that is over before it begins takes no request. *)

Answered(g) == g \in local.reviewed \/ local.complete
AfterReview(g) == IF local.complete THEN "complete" ELSE Record[g]

MarkDone(g) ==
    /\ pc = Mark[g] /\ Go(IF Answered(g) THEN AfterReview(g) ELSE Await[g])
    /\ state' = Passed(Await[g])
    /\ UNCHANGED <<local, work, world>>

WakeResearch(g) == pc = Await[g] /\ g \in DOMAIN Research /\ TakeResearch(Research[g]) /\ TurnFrame

WakeReview(g) ==
    /\ pc = Await[g] /\ Answered(g) /\ (g \in DOMAIN Research => local.research = <<>>)
    /\ Pass(AfterReview(g)) /\ TurnFrame

ResearchDone(g) ==
    \/ TakeResearch(Research[g])
    \/ /\ local.research = <<>> /\ hand' = None
       /\ Enter(IF Answered(g) THEN AfterReview(g) ELSE Await[g])
       /\ UNCHANGED <<local, taken, count>>

-----------------------------------------------------------------------------
(* Steps. *)

(* The main coroutine goes on when all the steps of its node are done. *)
StepsDone ==
    \/ \E n \in DOMAIN After : pc = n /\ \E m \in After[n] : Pass(m)
    \/ \E g \in DOMAIN Research : pc = Research[g] /\ ResearchDone(g)
    \/ pc = "research" /\ FromResearches

At(s, x) == pc \in StepNodes /\ step[s].at = x

StepSucceeds(s) ==
    /\ At(s, "running")
    /\ IF \A t \in StepsOf[pc] \ {s} : step[t].at = "done" THEN StepsDone
       ELSE /\ step' = [step EXCEPT ![s].at = "done"]
            /\ UNCHANGED <<pc, waiting, state, local, hand, taken, count>>
    /\ TurnFrame

\* Mutant: previousStage is not set.
StepForgetsStage(s) ==
    /\ At(s, "running") /\ s # "loadMission"
    /\ count.overs < MaxOver /\ count' = [count EXCEPT !.overs = @ + 1]
    /\ step' = [step EXCEPT ![s].at = "blocked"]
    /\ waiting' = Append(waiting, s)
    /\ state' = [state EXCEPT !.stage = "awaiting_budget_review", !.approvals = @ \cup {"budget"}]
    /\ UNCHANGED <<pc, local, work, gone, recorded, sent>>

StepOverBudget(s) ==
    /\ At(s, "running") /\ s # "loadMission"
    /\ count.overs < MaxOver /\ count' = [count EXCEPT !.overs = @ + 1]
    /\ step' = [step EXCEPT ![s] = [at |-> "blocked", before |-> state.stage, budget |-> None]]
    /\ waiting' = Append(waiting, s)
    /\ state' = [state EXCEPT !.stage = "awaiting_budget_review", !.approvals = @ \cup {"budget"}]
    /\ UNCHANGED <<pc, local, work, gone, recorded, sent>>

StepFails(s) == At(s, "running") /\ Fail

(* The condition of all steps that are held comes true at once. *)
WakeHeld ==
    /\ ~state.paused \/ local.complete
    /\ \E s \in Steps : At(s, "held")
    /\ step' = [s \in Steps |-> IF step[s].at = "held" THEN Begun ELSE step[s]]
    /\ UNCHANGED <<pc, waiting, state, local, work, world>>

(* So does that of all steps that wait for a budget. The first takes it; the *)
(* others find nothing to apply, restore the stage each had found, and try   *)
(* again while the first is still applying it.                               *)
WakeBlocked ==
    /\ pc \in StepNodes /\ waiting # <<>> /\ local.budget # None /\ ~local.complete
    /\ LET first == Head(waiting)
           rest == Tail(waiting)
       IN /\ step' = [s \in Steps |->
                        IF s = first THEN [step[s] EXCEPT !.at = "updating", !.budget = local.budget]
                        ELSE IF s \in ToSet(rest) THEN Begun ELSE step[s]]
          /\ state' = IF rest = <<>> THEN state
                      ELSE [state EXCEPT !.stage = step[Last(rest)].before,
                                         !.approvals = @ \ {"budget"}]
    /\ local' = [local EXCEPT !.budget = None] /\ waiting' = <<>>
    /\ UNCHANGED <<pc, work, world>>

(* When completion is requested instead, the error is thrown again. *)
GiveUpBlocked == pc \in StepNodes /\ waiting # <<>> /\ local.complete /\ Fail

\* Mutant: the step is tried again without a look at the pause.
RestoreAtOnce(s) ==
    /\ step' = [step EXCEPT ![s] = [Off EXCEPT !.at = "running"]]
    /\ state' = [state EXCEPT !.stage = step[s].before, !.approvals = @ \ {"budget"}]

\* Mutant: the stage is not restored.
RestoreNoStage(s) ==
    /\ step' = [step EXCEPT ![s] = Begun]
    /\ state' = [state EXCEPT !.approvals = @ \ {"budget"}]

Restore(s) ==
    /\ step' = [step EXCEPT ![s] = Begun]
    /\ state' = [state EXCEPT !.stage = step[s].before, !.approvals = @ \ {"budget"}]

StepUpdateDone(s) ==
    /\ At(s, "updating") /\ Accepted(step[s].budget) /\ recorded' = step[s].budget
    /\ IF Children = {} THEN Restore(s)
       ELSE step' = [step EXCEPT ![s].at = "telling"] /\ UNCHANGED state
    /\ UNCHANGED <<pc, waiting, local, work, gone, sent, count>>

StepTellDone(s) ==
    /\ At(s, "telling") /\ Children \cap gone = {} /\ Restore(s)
    /\ UNCHANGED <<pc, waiting, local, work, world>>

BudgetFails(s) == (At(s, "updating") \/ At(s, "telling")) /\ Fail

-----------------------------------------------------------------------------
(* Opportunities, activation and the end. *)

NextTarget(left) ==
    IF left = {} THEN Enter("awaitActions") /\ hand' = None /\ todo' = left
    ELSE Enter("create") /\ \E o \in left : hand' = o /\ todo' = left \ {o}

TargetStep ==
    /\ \/ pc = "recordTarget" /\ NextTarget(Opportunities)
       \/ pc = "create" /\ Enter("start") /\ UNCHANGED <<hand, todo>>
       \/ /\ pc = "start" /\ Go("recordChild")
          /\ state' = [state EXCEPT !.known[hand] = "researching"] /\ UNCHANGED <<hand, todo>>
       \/ pc = "recordChild" /\ NextTarget(todo)
    /\ UNCHANGED <<local, taken, world>>

WakeActions ==
    /\ pc = "awaitActions" /\ (AllSettled \/ local.complete)
    /\ Pass(IF local.complete THEN "complete" ELSE "markAction") /\ TurnFrame

WakeApproval ==
    /\ pc = "awaitApproval" /\ (local.complete \/ \E o \in Children : state.known[o] = "approved")
    /\ Pass(IF local.complete THEN "complete" ELSE "markActive") /\ TurnFrame

ScheduleDone ==
    pc = "schedule" /\ Pass(IF local.complete THEN "complete" ELSE "idle") /\ TurnFrame

CallDone == \E n \in CallNodes \cap DOMAIN After : pc = n /\ (\E m \in After[n] : Pass(m)) /\ TurnFrame
CallFails == pc \in CallNodes /\ Fail

-----------------------------------------------------------------------------
Init ==
    /\ pc = "load" /\ waiting = <<>>
    /\ step = [s \in Steps |-> [Off EXCEPT !.at = IF s = "loadMission" THEN "running" ELSE "off"]]
    /\ state = [stage |-> "compiling", approvals |-> {}, paused |-> FALSE, refresh |-> <<>>,
                research |-> <<>>, known |-> [o \in Opportunities |-> "none"]]
    /\ local = Fresh /\ hand = None /\ todo = {} /\ taken = [r \in Requests |-> 0]
    /\ gone = {} /\ recorded = None /\ sent = {}
    /\ count = [pauses |-> 0, updates |-> 0, overs |-> 0, continues |-> 0]

Signal ==
    \/ RequestCompletion
    \/ \E g \in Gates : Review(g)
    \/ \E b \in BOOLEAN : SetPaused(b)
    \/ \E r \in Requests : Request(r)
    \/ \E b \in Budgets : UpdateBudget(b)
    \/ \E o \in Opportunities : ReportMilestone(o) \/ ChildEnds(o)

Step(s) == StepSucceeds(s) \/ StepOverBudget(s) \/ StepFails(s)
           \/ StepUpdateDone(s) \/ StepTellDone(s) \/ BudgetFails(s)

Progress ==
    \/ \E s \in Steps : Step(s)
    \/ \E g \in Gates : MarkDone(g) \/ WakeResearch(g) \/ WakeReview(g)
    \/ WakeHeld \/ WakeBlocked \/ GiveUpBlocked
    \/ TargetStep \/ WakeActions \/ WakeApproval \/ ScheduleDone \/ CallDone \/ CallFails
    \/ WakeIdle \/ WakeResume \/ ResumeRowDone \/ UpdateDone \/ TellDone \/ RefreshDone

Next == Signal \/ Progress
Spec == Init /\ [][Next]_vars

(* Workflow tasks are dispatched, and an activity, a child workflow or a     *)
(* signal is answered or times out. Nothing is assumed of users and children.*)
FairSpec == Spec /\ WF_vars(Progress)

-----------------------------------------------------------------------------
QueueOf(r) == IF r \in Refreshes THEN local.refresh ELSE local.research
IsOnceIn(r, q) == \E i \in DOMAIN q : q[i] = r /\ \A j \in DOMAIN q : q[j] = r => j = i

(* A request to refresh or to research is queued or was taken up, once:      *)
(* never forgotten and never taken up again, through the copies of the       *)
(* queues, the review loops, the active loop and Continue As New.            *)
RequestsTakenOnce ==
    \A r \in sent : \/ taken[r] = 0 /\ IsOnceIn(r, QueueOf(r))
                    \/ taken[r] = 1 /\ r \notin ToSet(QueueOf(r))

(* No step's activity starts while the mission is paused, whether the step   *)
(* is new, was held, or is tried again after a budget review, unless         *)
(* completion has been requested.                                            *)
PauseHolds ==
    [][\A s \in Steps : step[s].at # "running" /\ step'[s].at = "running"
                           => ~state.paused \/ local.complete]_vars

ActiveLoop == {"idle", "pauseRow", "awaitResume", "resumeRow", "update", "tell", "refresh", "research"}

(* In the active loop the stage is `active` unless the step there is in a    *)
(* budget review: Continue As New hands the stage on, and a run that is not  *)
(* given `active` starts the mission from the beginning.                     *)
ActiveLoopIsActive ==
    pc \in ActiveLoop /\ step["requested"].at \notin {"blocked", "updating", "telling"}
        => state.stage = "active"

StepRests(s) ==
    \/ step[s].at \in {"off", "done"}
    \/ step[s].at = "held" /\ state.paused
    \/ step[s].at = "blocked" /\ local.budget = None
Rests ==
    \/ ~Open
    \/ /\ ~local.complete
       /\ \/ \E g \in Gates : /\ pc = Await[g] /\ g \notin local.reviewed
                              /\ g # "target" => local.research = <<>>
          \/ pc = "awaitActions" /\ ~AllSettled
          \/ pc = "awaitApproval" /\ \A o \in Children : state.known[o] # "approved"
          \/ pc = "awaitResume" /\ state.paused
          \/ pc = "idle" /\ ~state.paused /\ local.budget = None
                         /\ local.refresh = <<>> /\ local.research = <<>>
          \/ pc \in StepNodes /\ \A s \in Steps : StepRests(s)

(* The workflow comes to rest only where it waits for somebody else: for a   *)
(* review, an opportunity, a resume, a budget that has not arrived, or for   *)
(* the next signal with nothing left to do. Every other signal is served.    *)
ServesWhatItHas == []<>Rests

(* "budgetUpdated returns to the original stage" (mission lifecycle): a      *)
(* budget update that is under way is accepted.                              *)
BudgetUpdatesAccepted ==
    /\ \A s \in Steps : At(s, "updating") => Accepted(step[s].budget)
    /\ pc = "update" => Accepted(hand)

(* Step 15 of the mission workflow in the product requirements: it waits     *)
(* until every opportunity is ready for action or has ended. When each has   *)
(* got a card or has no workflow any more, the wait is over.                 *)
ReadyOrEndedReleases ==
    pc = "awaitActions" /\ (\A o \in Children : o \in gone \/ state.known[o] # "researching")
        => AllSettled
=============================================================================
