----------------------- MODULE MissionWorkflow_proofs -----------------------
(***************************************************************************)
(* Theorems of MissionWorkflow, for any targets, routes, requests, budgets *)
(* and bounds.  A step that waits for a budget holds a stage to go back to *)
(* and belongs to the node at which the main coroutine waits, so nothing   *)
(* waits when that coroutine goes on; the active loop therefore always     *)
(* finds its own stage again.  The copies of the queues agree, so a run    *)
(* that continues another starts with what that one had left.              *)
(***************************************************************************)
EXTENDS MissionWorkflow, TLAPS

InReview == {"blocked", "updating", "telling"}
LoopNodes == ActiveLoop \cup {"markActive", "schedule"}

\* A step is at work only at its node; one in a budget review has a stage to
\* restore, which is `active` in the active loop.
StepInv ==
    \A s \in Steps :
        /\ Open /\ step[s].at # "off" => pc \in StepNodes /\ s \in StepsOf[pc]
        /\ step[s].at \in InReview => step[s].before \in Stages
        /\ pc = "research" /\ step[s].at \in InReview => step[s].before = "active"

\* The steps that wait for a budget are blocked, and wait once.
WaitInv ==
    \A i \in DOMAIN waiting :
        /\ step[waiting[i]].at = "blocked"
        /\ \A j \in DOMAIN waiting : waiting[i] = waiting[j] => i = j

LoopInv == pc \in LoopNodes /\ step["requested"].at \notin InReview => state.stage = "active"

\* The queues and their copies agree; what was not sent is in none of them.
QueueInv ==
    /\ state.refresh = local.refresh /\ state.research = local.research
    /\ \A r \in Requests \ sent : taken[r] = 0 /\ r \notin ToSet(QueueOf(r))
    /\ RequestsTakenOnce

\* The budget in hand is one.
HandInv == pc = "update" => hand \in Budgets

FlowInv == FlowTypes /\ StepInv /\ WaitInv /\ LoopInv /\ HandInv
DataInv == state \in States /\ local \in Locals /\ WorkTypes /\ WorldTypes /\ QueueInv
IInv == FlowInv /\ DataInv

-----------------------------------------------------------------------------
(* The nodes. *)

LEMMA StepNodesAre ==
    StepNodes = {"load", "compile", "ingest", "claims", "routes", "ecosystem", "resolve", "rank",
                 "researchCapability", "researchRoute", "research"}
  BY DEF StepNodes, StepsOf

LEMMA StepsAre == /\ \A n \in StepNodes : StepsOf[n] \subseteq Steps
                  /\ "requested" \in Steps /\ StepsOf["research"] = {"requested"}
<1>1. \A n \in StepNodes : StepsOf[n] \subseteq Steps
  BY DEF Steps
<1>2. "research" \in StepNodes /\ StepsOf["research"] = {"requested"}
  BY StepNodesAre DEF StepsOf
<1> QED
  BY <1>1, <1>2

\* What follows the steps or the call of a node is a node, and one of the
\* active loop follows only one of the active loop.
LEMMA AfterNodes ==
    \A n \in DOMAIN After : \A m \in After[n] : m \in Nodes \ {"update"} /\ (m \in LoopNodes => n \in LoopNodes)
  BY StepNodesAre DEF After, Nodes, CallNodes, WaitNodes, LoopNodes, ActiveLoop

\* The nodes of a review, outside the active loop.
LEMMA ReviewNodes ==
    \A g \in Gates :
        /\ {Await[g], Record[g]} \subseteq Nodes \ LoopNodes
        /\ g \in DOMAIN Research => Research[g] \in Nodes \ LoopNodes
  BY StepNodesAre DEF Gates, Await, Record, Research, Nodes, CallNodes, WaitNodes, LoopNodes, ActiveLoop

-----------------------------------------------------------------------------
(* Going on. *)

LEMMA BegunType == /\ Begun \in StepStates /\ Off \in StepStates
                   /\ Begun.at \notin InReview /\ Off.at = "off"
                   /\ Begun.at = "running" => ~state.paused \/ local.complete
  BY DEF Begun, Off, StepStates, InReview

\* With no step blocked, none waits.
LEMMA NobodyWaits ==
  ASSUME FlowTypes, WaitInv, \A s \in Steps : step[s].at # "blocked"
  PROVE  waiting = <<>>
<1>1. waiting \in Seq(Steps)
  BY DEF FlowTypes
<1>2. \A i \in 1..Len(waiting) : waiting[i] \in Steps /\ i \in DOMAIN waiting
  BY <1>1
<1>3. Len(waiting) = 0
  BY <1>1, <1>2 DEF WaitInv
<1> QED
  BY <1>1, <1>3

LEMMA NobodyWaitsHere ==
  ASSUME FlowInv, Open, pc \notin StepNodes
  PROVE  waiting = <<>> /\ \A s \in Steps : step[s].at = "off"
<1>1. \A s \in Steps : step[s].at = "off"
  BY DEF FlowInv, StepInv
<1> QED
  BY <1>1, NobodyWaits DEF FlowInv

LEMMA GoInv ==
  ASSUME NEW n \in Nodes, waiting = <<>>, Go(n), n \in LoopNodes => state'.stage = "active",
         n = "update" => hand' \in Budgets
  PROVE  FlowInv'
<1>1. \A s \in Steps : step'[s] \in {Begun, Off} /\ step'[s].at \notin InReview
  BY BegunType DEF Go, InReview
<1>2. FlowTypes'
  BY BegunType DEF Go, FlowTypes
<1>3. StepInv'
  BY <1>1, BegunType DEF Go, StepInv
<1>4. WaitInv'
  BY DEF Go, WaitInv
<1>5. LoopInv'
  BY <1>1 DEF Go, LoopInv
<1> QED
  BY <1>2, <1>3, <1>4, <1>5 DEF FlowInv, HandInv, Go

LEMMA PassedState ==
  ASSUME state \in States, NEW n
  PROVE  /\ Passed(n) \in States
         /\ Passed(n).refresh = state.refresh /\ Passed(n).research = state.research
         /\ n \in LoopNodes => Passed(n).stage = IF n = "markActive" THEN "active" ELSE state.stage
<1>1. Asks(n) \subseteq Gates \cup {"budget", "action"}
  BY DEF Asks
<1>2. n \in DOMAIN StageAt => StageAt[n] \in Stages
  BY DEF Stages
<1>3. n \in LoopNodes /\ n \in DOMAIN StageAt => n = "markActive"
  BY DEF LoopNodes, ActiveLoop, StageAt
<1>4. "markActive" \in DOMAIN StageAt
  BY DEF StageAt
<1>5. StageAt["markActive"] = "active"
  BY DEF StageAt
<1>6. /\ Passed(n).stage = IF n \in DOMAIN StageAt THEN StageAt[n] ELSE state.stage
      /\ Passed(n).refresh = state.refresh /\ Passed(n).research = state.research
  BY DEF States, Passed
<1>7. Passed(n) \in States
  BY <1>1, <1>2 DEF States, Passed
<1> QED
  BY <1>3, <1>4, <1>5, <1>6, <1>7

-----------------------------------------------------------------------------
(* The queues. *)

LEMMA TailKeeps ==
  ASSUME NEW S, NEW q \in Seq(S), q # <<>>, NEW r
  PROVE  /\ Tail(q) \in Seq(S) /\ Head(q) \in S /\ Head(q) \in ToSet(q)
         /\ r \notin ToSet(q) => r \notin ToSet(Tail(q))
         /\ IsOnceIn(Head(q), q) => Head(q) \notin ToSet(Tail(q))
         /\ r # Head(q) /\ IsOnceIn(r, q) => IsOnceIn(r, Tail(q))
<1>1. Tail(q) \in Seq(S) /\ Head(q) \in S /\ Len(q) \in Nat \ {0} /\ Head(q) = q[1]
  OBVIOUS
<1>2. DOMAIN q = 1..Len(q) /\ DOMAIN Tail(q) = 1..(Len(q) - 1)
  OBVIOUS
<1>3. \A i \in DOMAIN Tail(q) : i + 1 \in DOMAIN q /\ i # 0 /\ Tail(q)[i] = q[i + 1]
  BY <1>1, <1>2
<1>4. Head(q) \in ToSet(q)
  BY <1>1, <1>2 DEF ToSet
<1>5. r \notin ToSet(q) => r \notin ToSet(Tail(q))
  BY <1>3 DEF ToSet
<1>6. IsOnceIn(Head(q), q) => Head(q) \notin ToSet(Tail(q))
  BY <1>1, <1>2, <1>3 DEF ToSet, IsOnceIn
<1>7. ASSUME r # Head(q), IsOnceIn(r, q)
      PROVE  IsOnceIn(r, Tail(q))
  <2>1. PICK i \in DOMAIN q : q[i] = r /\ \A j \in DOMAIN q : q[j] = r => j = i
    BY <1>7 DEF IsOnceIn
  <2>2. i - 1 \in DOMAIN Tail(q) /\ Tail(q)[i - 1] = r
    BY <1>1, <1>2, <1>3, <1>7, <2>1
  <2>3. \A j \in DOMAIN Tail(q) : Tail(q)[j] = r => j = i - 1
    BY <1>2, <1>3, <2>1
  <2> QED
    BY <2>2, <2>3 DEF IsOnceIn
<1> QED
  BY <1>1, <1>4, <1>5, <1>6, <1>7

LEMMA QueuedOnce ==
  ASSUME NEW S, NEW q \in Seq(S), NEW r \in S, r \notin ToSet(q), NEW t
  PROVE  /\ Queued(q, r) \in Seq(S) /\ IsOnceIn(r, Queued(q, r))
         /\ t # r /\ t \notin ToSet(q) => t \notin ToSet(Queued(q, r))
         /\ t # r /\ IsOnceIn(t, q) => IsOnceIn(t, Queued(q, r))
<1>1. Queued(q, r) = Append(q, r)
  BY DEF Queued
<1>2. DOMAIN q = 1..Len(q) /\ DOMAIN Append(q, r) = 1..(Len(q) + 1) /\ Len(q) \in Nat
  OBVIOUS
<1>3. \A i \in DOMAIN Append(q, r) : Append(q, r)[i] = IF i \in DOMAIN q THEN q[i] ELSE r
  BY <1>2
<1>4. Len(q) + 1 \in DOMAIN Append(q, r) \ DOMAIN q
      /\ \A i \in DOMAIN Append(q, r) \ DOMAIN q : i = Len(q) + 1
      /\ DOMAIN q \subseteq DOMAIN Append(q, r)
  BY <1>2
<1>5. \A i \in DOMAIN q : q[i] # r
  BY DEF ToSet
<1>6. IsOnceIn(r, Append(q, r))
  BY <1>3, <1>4, <1>5 DEF IsOnceIn
<1>7. t # r /\ t \notin ToSet(q) => t \notin ToSet(Append(q, r))
  BY <1>3 DEF ToSet
<1>8. t # r /\ IsOnceIn(t, q) => IsOnceIn(t, Append(q, r))
  BY <1>3, <1>4 DEF IsOnceIn
<1>9. Append(q, r) \in Seq(S)
  OBVIOUS
<1> QED
  BY <1>1, <1>6, <1>7, <1>8, <1>9

\* A step that does not touch the queues.
LEMMA QueueFrame ==
  ASSUME QueueInv, sent' = sent, taken' = taken,
         state'.refresh = state.refresh, state'.research = state.research,
         local'.refresh = local.refresh, local'.research = local.research
  PROVE  QueueInv'
  BY DEF QueueInv, RequestsTakenOnce, QueueOf

\* A request leaves the head of its queue and is taken up.
LEMMA QueueTaken ==
  ASSUME DataInv, sent' = sent, NEW r \in Requests, NEW S,
         QueueOf(r) \in Seq(S), QueueOf(r) # <<>>, r = Head(QueueOf(r)), Taken(r),
         state'.refresh = local'.refresh, state'.research = local'.research,
         \A x : QueueOf(x)' = IF x \in Refreshes <=> r \in Refreshes
                              THEN Tail(QueueOf(r)) ELSE QueueOf(x)
  PROVE  QueueInv' /\ (todo' = todo => WorkTypes')
<1>1. r \in sent /\ taken[r] = 0 /\ IsOnceIn(r, QueueOf(r))
  BY TailKeeps DEF DataInv, QueueInv, RequestsTakenOnce
<1>2. hand' = r /\ taken' = [taken EXCEPT ![r] = 1] /\ taken \in [Requests -> Nat]
  BY <1>1 DEF Taken, DataInv, WorkTypes
<1>3. taken'[r] = 1 /\ r \notin ToSet(QueueOf(r)')
  BY <1>1, <1>2, TailKeeps
<1>4. ASSUME NEW x, x # r
      PROVE  /\ x \notin ToSet(QueueOf(x)) => x \notin ToSet(QueueOf(x)')
             /\ IsOnceIn(x, QueueOf(x)) => IsOnceIn(x, QueueOf(x)')
  <2>1. CASE x \in Refreshes <=> r \in Refreshes
    BY <1>4, <2>1, TailKeeps DEF QueueOf
  <2>2. CASE ~(x \in Refreshes <=> r \in Refreshes)
    BY <2>2
  <2> QED
    BY <2>1, <2>2
<1>5. \A x \in Requests : x # r => taken'[x] = taken[x]
  BY <1>2
<1>6. \A x \in Requests \ sent' : taken'[x] = 0 /\ x \notin ToSet(QueueOf(x)')
  BY <1>1, <1>4, <1>5 DEF DataInv, QueueInv
<1>7. \A x \in sent' : \/ taken'[x] = 0 /\ IsOnceIn(x, QueueOf(x)')
                       \/ taken'[x] = 1 /\ x \notin ToSet(QueueOf(x)')
  BY <1>3, <1>4, <1>5 DEF DataInv, WorldTypes, QueueInv, RequestsTakenOnce
<1>8. QueueInv'
  BY <1>6, <1>7 DEF QueueInv, RequestsTakenOnce
<1>9. todo' = todo => WorkTypes'
  BY <1>2 DEF DataInv, WorkTypes
<1> QED
  BY <1>8, <1>9

LEMMA TakeRefreshInv ==
  ASSUME DataInv, sent' = sent, todo' = todo, TakeRefresh
  PROVE  state' \in States /\ local' \in Locals /\ QueueInv' /\ WorkTypes'
<1>1. PICK r : r = Head(local.refresh)
  OBVIOUS
<1>2. local.refresh \in Seq(Refreshes) /\ r \in Refreshes /\ Tail(local.refresh) \in Seq(Refreshes)
  BY <1>1, TailKeeps DEF TakeRefresh, DataInv, Locals
<1>3. /\ state' \in States /\ local' \in Locals
      /\ state'.refresh = Tail(local.refresh) /\ local'.refresh = Tail(local.refresh)
      /\ state'.research = state.research /\ local'.research = local.research
  BY <1>2 DEF TakeRefresh, DataInv, States, Locals
<1>4. r \in Requests /\ QueueOf(r) = local.refresh
  BY <1>2 DEF Requests, QueueOf
<1>5. \A x : QueueOf(x)' = IF x \in Refreshes <=> r \in Refreshes
                           THEN Tail(QueueOf(r)) ELSE QueueOf(x)
  BY <1>2, <1>3, <1>4 DEF QueueOf
<1> QED
  BY <1>1, <1>2, <1>3, <1>4, <1>5, QueueTaken DEF TakeRefresh, DataInv, QueueInv

LEMMA TakeResearchInv ==
  ASSUME DataInv, sent' = sent, todo' = todo, NEW n, TakeResearch(n)
  PROVE  state' \in States /\ local' \in Locals /\ QueueInv' /\ WorkTypes'
<1>1. PICK r : r = Head(local.research)
  OBVIOUS
<1>2. local.research \in Seq(Researches) /\ r \in Researches /\ Tail(local.research) \in Seq(Researches)
  BY <1>1, TailKeeps DEF TakeResearch, DataInv, Locals
<1>3. /\ state' \in States /\ local' \in Locals
      /\ state'.research = Tail(local.research) /\ local'.research = Tail(local.research)
      /\ state'.refresh = state.refresh /\ local'.refresh = local.refresh
  BY <1>2 DEF TakeResearch, DataInv, States, Locals
<1>4. r \in Requests /\ r \notin Refreshes /\ QueueOf(r) = local.research
  BY <1>2, RequestsDiffer DEF Requests, QueueOf
<1>5. \A x : QueueOf(x)' = IF x \in Refreshes <=> r \in Refreshes
                           THEN Tail(QueueOf(r)) ELSE QueueOf(x)
  BY <1>2, <1>3, <1>4 DEF QueueOf
<1> QED
  BY <1>1, <1>2, <1>3, <1>4, <1>5, QueueTaken DEF TakeResearch, DataInv, QueueInv

-----------------------------------------------------------------------------
(* Signals. *)

LEMMA FlowFrame ==
  ASSUME FlowInv, UNCHANGED flow, hand' = hand, state'.stage = state.stage
  PROVE  FlowInv'
  BY DEF flow, FlowInv, FlowTypes, StepInv, WaitInv, LoopInv, HandInv, Open

LEMMA DataFrame ==
  ASSUME DataInv, UNCHANGED work, sent' = sent, WorldTypes',
         state' \in States, state'.refresh = state.refresh, state'.research = state.research,
         local' \in Locals, local'.refresh = local.refresh, local'.research = local.research
  PROVE  DataInv'
<1>1. QueueInv'
  BY QueueFrame DEF DataInv, work
<1> QED
  BY <1>1 DEF DataInv, WorkTypes, work

LEMMA RequestInv ==
  ASSUME IInv, NEW r \in Requests, Request(r)
  PROVE  IInv'
<1>1. r \notin sent /\ sent' = sent \cup {r} /\ UNCHANGED <<flow, work, gone, recorded, count>>
  BY DEF Request, Handle
<1>2. taken[r] = 0 /\ r \notin ToSet(QueueOf(r))
  BY <1>1 DEF IInv, DataInv, QueueInv
<1>3. QueueOf(r) \in Seq(IF r \in Refreshes THEN Refreshes ELSE Researches)
      /\ r \in IF r \in Refreshes THEN Refreshes ELSE Researches
  BY DEF QueueOf, IInv, DataInv, Locals, Requests
<1>4. PICK q : q = Queued(QueueOf(r), r)
  OBVIOUS
<1>5. /\ state' \in States /\ local' \in Locals /\ state'.stage = state.stage
      /\ state'.refresh = local'.refresh /\ state'.research = local'.research
      /\ \A x : QueueOf(x)' = IF x \in Refreshes <=> r \in Refreshes THEN q ELSE QueueOf(x)
  <2>1. CASE r \in Refreshes
    <3>1. q \in Seq(Refreshes)
      BY <1>2, <1>3, <1>4, <2>1, QueuedOnce
    <3>2. state' = [state EXCEPT !.refresh = q] /\ local' = [local EXCEPT !.refresh = q]
      BY <1>4, <2>1 DEF Request, Handle, QueueOf
    <3> QED
      BY <2>1, <3>1, <3>2 DEF QueueOf, IInv, DataInv, States, Locals, QueueInv
  <2>2. CASE r \notin Refreshes
    <3>1. q \in Seq(Researches)
      BY <1>2, <1>3, <1>4, <2>2, QueuedOnce
    <3>2. state' = [state EXCEPT !.research = q] /\ local' = [local EXCEPT !.research = q]
      BY <1>4, <2>2 DEF Request, Handle, QueueOf
    <3> QED
      BY <2>2, <3>1, <3>2 DEF QueueOf, IInv, DataInv, States, Locals, QueueInv
  <2> QED
    BY <2>1, <2>2
<1>6. IsOnceIn(r, QueueOf(r)')
  BY <1>2, <1>3, <1>4, <1>5, QueuedOnce
<1>7. ASSUME NEW x, x # r
      PROVE  /\ x \notin ToSet(QueueOf(x)) => x \notin ToSet(QueueOf(x)')
             /\ IsOnceIn(x, QueueOf(x)) => IsOnceIn(x, QueueOf(x)')
  <2>1. CASE x \in Refreshes <=> r \in Refreshes
    BY <1>2, <1>3, <1>4, <1>5, <1>7, <2>1, QueuedOnce DEF QueueOf
  <2>2. CASE ~(x \in Refreshes <=> r \in Refreshes)
    BY <1>5, <2>2
  <2> QED
    BY <2>1, <2>2
<1>8. QueueInv'
  <2>1. \A x \in Requests \ sent' : taken'[x] = 0 /\ x \notin ToSet(QueueOf(x)')
    BY <1>1, <1>7 DEF IInv, DataInv, QueueInv, work
  <2>2. \A x \in sent' : \/ taken'[x] = 0 /\ IsOnceIn(x, QueueOf(x)')
                         \/ taken'[x] = 1 /\ x \notin ToSet(QueueOf(x)')
    BY <1>1, <1>2, <1>6, <1>7 DEF IInv, DataInv, QueueInv, RequestsTakenOnce, work
  <2> QED
    BY <1>5, <2>1, <2>2 DEF QueueInv, RequestsTakenOnce
<1> QED
  BY <1>1, <1>5, <1>8, FlowFrame DEF IInv, DataInv, WorkTypes, WorldTypes, work

LEMMA SignalInv ==
  ASSUME IInv, Signal
  PROVE  IInv'
<1> USE DEF Handle, IInv, world, work
<1>1. CASE RequestCompletion
  BY <1>1, FlowFrame, DataFrame DEF RequestCompletion, DataInv, Locals, WorldTypes
<1>2. ASSUME NEW g \in Gates, Review(g) PROVE IInv'
  BY <1>2, FlowFrame, DataFrame DEF Review, DataInv, States, Locals, WorldTypes
<1>3. ASSUME NEW b \in BOOLEAN, SetPaused(b) PROVE IInv'
  <2>1. state' \in States /\ state'.stage = state.stage
        /\ state'.refresh = state.refresh /\ state'.research = state.research
    BY <1>3 DEF SetPaused, DataInv, States
  <2>2. count' \in [pauses : 0..MaxPauses, updates : 0..MaxUpdates, overs : 0..MaxOver,
                    continues : 0..MaxContinues]
    BY <1>3, Bounds DEF SetPaused, DataInv, WorldTypes
  <2> QED
    BY <1>3, <2>1, <2>2, FlowFrame, DataFrame DEF SetPaused, DataInv, WorldTypes
<1>4. ASSUME NEW r \in Requests, Request(r) PROVE IInv'
  BY <1>4, RequestInv
<1>5. ASSUME NEW b \in Budgets, UpdateBudget(b) PROVE IInv'
  <2>1. count' \in [pauses : 0..MaxPauses, updates : 0..MaxUpdates, overs : 0..MaxOver,
                    continues : 0..MaxContinues]
    BY <1>5, Bounds DEF UpdateBudget, DataInv, WorldTypes
  <2> QED
    BY <1>5, <2>1, FlowFrame, DataFrame DEF UpdateBudget, DataInv, Locals, WorldTypes
<1>6. ASSUME NEW o \in Opportunities, ReportMilestone(o) PROVE IInv'
  <2>1. PICK i \in 1 .. Len(Milestones) - 1 :
          state' = [state EXCEPT !.known[o] = Milestones[i + 1]] /\ local' = local
    BY <1>6 DEF ReportMilestone
  <2>2. Milestones[i + 1] \in ToSet(Milestones)
    BY <2>1 DEF Milestones, ToSet
  <2>3. state' \in States /\ state'.stage = state.stage
        /\ state'.refresh = state.refresh /\ state'.research = state.research
    BY <2>1, <2>2 DEF DataInv, States
  <2> QED
    BY <1>6, <2>1, <2>3, FlowFrame, DataFrame DEF ReportMilestone, DataInv, WorldTypes
<1>7. ASSUME NEW o \in Opportunities, ChildEnds(o) PROVE IInv'
  BY <1>7, FlowFrame, DataFrame DEF ChildEnds, Children, DataInv, WorldTypes
<1> QED
  BY <1>1, <1>2, <1>3, <1>4, <1>5, <1>6, <1>7 DEF Signal

-----------------------------------------------------------------------------
(* The active loop. *)

\* What a turn leaves alone; the call before it may have recorded a budget.
Aside == UNCHANGED <<todo, gone, sent>> /\ recorded' \in Budgets \cup {None}

LEMMA AsideFrame ==
  ASSUME IInv, TurnFrame
  PROVE  Aside
  BY DEF TurnFrame, Aside, IInv, DataInv, WorldTypes

LEMMA PassInv ==
  ASSUME IInv, waiting = <<>>, Aside, NEW n \in Nodes \ {"update"}, Pass(n),
         n \in LoopNodes => n = "markActive" \/ state.stage = "active"
  PROVE  IInv'
<1>1. state' = Passed(n) /\ Go(n) /\ UNCHANGED <<local, hand, taken, count>>
  BY DEF Pass, Enter
<1>2. state' \in States /\ state'.refresh = state.refresh /\ state'.research = state.research
      /\ (n \in LoopNodes => state'.stage = "active")
  BY <1>1, PassedState DEF IInv, DataInv
<1> QED
  BY <1>1, <1>2, GoInv, DataFrame DEF IInv, DataInv, Aside, WorldTypes, work

LEMMA LoopTargets ==
    /\ {"idle", "update", "tell", "refresh", "research", "pauseRow", "resumeRow"} \subseteq Nodes
    /\ "complete" \in Nodes \ LoopNodes /\ LoopNodes \subseteq Nodes
  BY StepNodesAre DEF Nodes, CallNodes, WaitNodes, LoopNodes, ActiveLoop

LEMMA FromResearchesInv ==
  ASSUME IInv, waiting = <<>>, state.stage = "active", Aside, FromResearches
  PROVE  IInv'
<1> USE DEF IInv, Aside
<1>1. CASE TakeResearch("research")
  <2>1. Go("research") /\ state' = [state EXCEPT !.research = local'.research] /\ count' = count
    BY <1>1 DEF TakeResearch
  <2>2. state'.stage = "active"
    BY <2>1 DEF DataInv, States
  <2> QED
    BY <1>1, <2>1, <2>2, TakeResearchInv, GoInv, LoopTargets DEF DataInv, WorldTypes
<1>2. CASE ContinueAsNew
  <2>1. Fresh \in Locals /\ Fresh.refresh = local.refresh /\ Fresh.research = local.research
    BY DEF Fresh, DataInv, Locals, States, QueueInv
  <2>2. count' \in [pauses : 0..MaxPauses, updates : 0..MaxUpdates, overs : 0..MaxOver,
                    continues : 0..MaxContinues]
    BY <1>2, Bounds DEF ContinueAsNew, DataInv, WorldTypes
  <2>3. QueueInv'
    BY <1>2, <2>1, QueueFrame DEF ContinueAsNew, DataInv
  <2> QED
    BY <1>2, <2>1, <2>2, <2>3, GoInv, LoopTargets DEF ContinueAsNew, DataInv, WorkTypes, WorldTypes
<1>3. CASE /\ Go(IF local.complete THEN "complete" ELSE "idle")
           /\ hand' = None /\ UNCHANGED <<state, local, taken, count>>
  <2>1. QueueInv'
    BY <1>3, QueueFrame DEF DataInv
  <2> QED
    BY <1>3, <2>1, GoInv, LoopTargets DEF DataInv, WorkTypes, WorldTypes
<1> QED
  BY <1>1, <1>2, <1>3 DEF FromResearches, EndOfTurn

LEMMA FromQueuesInv ==
  ASSUME IInv, waiting = <<>>, state.stage = "active", Aside, FromQueues
  PROVE  IInv'
<1>1. CASE TakeRefresh
  <2>1. Go("refresh") /\ state' = [state EXCEPT !.refresh = local'.refresh] /\ count' = count
    BY <1>1 DEF TakeRefresh
  <2>2. state'.stage = "active"
    BY <2>1 DEF IInv, DataInv, States
  <2> QED
    BY <1>1, <2>1, <2>2, TakeRefreshInv, GoInv, LoopTargets DEF IInv, Aside, DataInv, WorldTypes
<1> QED
  BY <1>1, FromResearchesInv DEF FromQueues

LEMMA FromBudgetInv ==
  ASSUME IInv, waiting = <<>>, state.stage = "active", Aside, FromBudget
  PROVE  IInv'
<1>1. CASE local.budget # None /\ Go("update") /\ hand' = local.budget
           /\ local' = [local EXCEPT !.budget = None] /\ UNCHANGED <<state, taken, count>>
  <2>1. hand' \in Budgets /\ local' \in Locals
        /\ local'.refresh = local.refresh /\ local'.research = local.research
    BY <1>1 DEF IInv, DataInv, Locals
  <2>2. QueueInv'
    BY <1>1, <2>1, QueueFrame DEF IInv, DataInv, Aside
  <2> QED
    BY <1>1, <2>1, <2>2, GoInv, LoopTargets DEF IInv, DataInv, Aside, WorkTypes, WorldTypes
<1> QED
  BY <1>1, FromQueuesInv DEF FromBudget

\* Nothing waits in the loop but for its own step, and the stage is `active`.
LEMMA LoopRests ==
  ASSUME IInv, pc \in LoopNodes \ {"research"}
  PROVE  waiting = <<>> /\ state.stage = "active"
<1>1. Open /\ pc \notin StepNodes
  BY StepNodesAre DEF LoopNodes, ActiveLoop, Open
<1> QED
  BY <1>1, NobodyWaitsHere, StepsAre DEF IInv, FlowInv, LoopInv, InReview

LEMMA LoopStepInv ==
  ASSUME IInv, WakeIdle \/ WakeResume \/ ResumeRowDone \/ UpdateDone \/ TellDone \/ RefreshDone
  PROVE  IInv'
<1>1. pc \in LoopNodes \ {"research"}
  BY DEF WakeIdle, WakeResume, ResumeRowDone, UpdateDone, TellDone, RefreshDone, LoopNodes, ActiveLoop
<1>2. waiting = <<>> /\ state.stage = "active"
  BY <1>1, LoopRests
<1>3. CASE WakeIdle
  BY <1>2, <1>3, AsideFrame, FromBudgetInv, PassInv, LoopTargets DEF WakeIdle
<1>4. CASE WakeResume
  BY <1>2, <1>4, AsideFrame, FromBudgetInv, PassInv, LoopTargets DEF WakeResume
<1>5. CASE ResumeRowDone
  BY <1>2, <1>5, AsideFrame, FromBudgetInv DEF ResumeRowDone
<1>6. CASE UpdateDone
  <2>1. recorded' \in Budgets \cup {None}
    BY <1>6 DEF UpdateDone, IInv, FlowInv, HandInv
  <2> QED
    BY <1>2, <1>6, <2>1, FromQueuesInv, PassInv, LoopTargets DEF UpdateDone, Aside
<1>7. CASE TellDone
  BY <1>2, <1>7, AsideFrame, FromQueuesInv DEF TellDone
<1>8. CASE RefreshDone
  BY <1>2, <1>8, AsideFrame, FromQueuesInv DEF RefreshDone
<1> QED
  BY <1>3, <1>4, <1>5, <1>6, <1>7, <1>8

-----------------------------------------------------------------------------
(* Reviews, opportunities, activation and the end. *)

\* Going on outside the active loop.
LEMMA ElsewhereInv ==
  ASSUME IInv, waiting = <<>>, NEW n \in Nodes \ LoopNodes, Go(n), WorkTypes', taken' = taken,
         UNCHANGED <<local, world>>,
         state' \in States, state'.refresh = state.refresh, state'.research = state.research
  PROVE  IInv'
<1>1. n # "update"
  BY DEF LoopNodes, ActiveLoop
<1>2. QueueInv'
  BY QueueFrame DEF IInv, DataInv, world
<1> QED
  BY <1>1, <1>2, GoInv DEF IInv, DataInv, WorldTypes, world

LEMMA FailInv ==
  ASSUME IInv, Fail
  PROVE  IInv'
<1>1. "failed" \in Nodes \ (LoopNodes \cup StepNodes)
  BY StepNodesAre DEF Nodes, LoopNodes, ActiveLoop
<1>2. FlowInv'
  BY <1>1, StepNodesAre
     DEF Fail, IInv, FlowInv, FlowTypes, StepInv, WaitInv, LoopInv, HandInv, Open
<1>3. QueueInv'
  BY QueueFrame DEF Fail, IInv, DataInv, work, world
<1> QED
  BY <1>2, <1>3 DEF Fail, IInv, DataInv, WorkTypes, WorldTypes, work, world

LEMMA ReviewInv ==
  ASSUME IInv, NEW g \in Gates, MarkDone(g) \/ WakeResearch(g) \/ WakeReview(g)
  PROVE  IInv'
<1>1. Open /\ pc \notin StepNodes
  BY StepNodesAre DEF MarkDone, WakeResearch, WakeReview, Gates, Mark, Await, Open
<1>2. waiting = <<>>
  BY <1>1, NobodyWaitsHere DEF IInv
<1>3. {Await[g], AfterReview(g)} \subseteq Nodes \ LoopNodes
  BY ReviewNodes, LoopTargets DEF AfterReview
<1>4. CASE MarkDone(g)
  <2>1. PICK n \in Nodes \ LoopNodes : Go(n)
    BY <1>3, <1>4 DEF MarkDone
  <2>2. state' \in States /\ state'.refresh = state.refresh /\ state'.research = state.research
    BY <1>4, PassedState DEF MarkDone, IInv, DataInv
  <2> QED
    BY <1>2, <1>4, <2>1, <2>2, ElsewhereInv DEF MarkDone, IInv, DataInv, WorkTypes, work
<1>5. CASE WakeResearch(g)
  <2>1. Research[g] \in Nodes \ LoopNodes
    BY <1>5, ReviewNodes DEF WakeResearch
  <2>2. Research[g] # "update"
    BY <2>1 DEF LoopNodes, ActiveLoop
  <2> QED
    BY <1>2, <1>5, <2>1, <2>2, GoInv, TakeResearchInv
       DEF WakeResearch, TakeResearch, TurnFrame, IInv, DataInv, WorldTypes
<1>6. CASE WakeReview(g)
  <2>1. AfterReview(g) \in Nodes \ {"update"}
    BY <1>3 DEF LoopNodes, ActiveLoop
  <2> QED
    BY <1>2, <1>3, <1>6, <2>1, PassInv, AsideFrame DEF WakeReview
<1> QED
  BY <1>4, <1>5, <1>6

LEMMA OuterNodes ==
    /\ {"awaitActions", "create", "start", "recordChild", "complete", "markAction"} \subseteq Nodes \ LoopNodes
    /\ \A n \in CallNodes \cup WaitNodes : n \notin StepNodes \cup {"completed", "failed"}
  BY StepNodesAre DEF Nodes, CallNodes, WaitNodes, LoopNodes, ActiveLoop

LEMMA NextTargetInv ==
  ASSUME IInv, waiting = <<>>, NEW left \in SUBSET Opportunities, NextTarget(left),
         UNCHANGED <<local, taken, world>>
  PROVE  IInv'
<1>1. PICK n \in {"awaitActions", "create"} : Enter(n)
  BY DEF NextTarget
<1>2. state' \in States /\ state'.refresh = state.refresh /\ state'.research = state.research
  BY <1>1, PassedState DEF Enter, IInv, DataInv
<1>3. WorkTypes'
  BY DEF NextTarget, IInv, DataInv, WorkTypes
<1> QED
  BY <1>1, <1>2, <1>3, OuterNodes, ElsewhereInv DEF Enter

LEMMA TargetStepInv ==
  ASSUME IInv, TargetStep
  PROVE  IInv'
<1>1. UNCHANGED <<local, taken, world>>
  BY DEF TargetStep
<1>2. waiting = <<>>
  <2>1. pc \in CallNodes
    BY DEF TargetStep, CallNodes
  <2> QED
    BY <2>1, OuterNodes, NobodyWaitsHere DEF IInv, Open
<1>3. CASE NextTarget(Opportunities)
  BY <1>1, <1>2, <1>3, NextTargetInv
<1>4. CASE NextTarget(todo)
  BY <1>1, <1>2, <1>4, NextTargetInv DEF IInv, DataInv, WorkTypes
<1>5. CASE Enter("start") /\ UNCHANGED <<hand, todo>>
  <2>1. state' \in States /\ state'.refresh = state.refresh /\ state'.research = state.research
    BY <1>5, PassedState DEF Enter, IInv, DataInv
  <2> QED
    BY <1>1, <1>2, <1>5, <2>1, OuterNodes, ElsewhereInv DEF Enter, IInv, DataInv, WorkTypes
<1>6. CASE /\ Go("recordChild") /\ UNCHANGED <<hand, todo>>
           /\ state' = [state EXCEPT !.known[hand] = "researching"]
  <2>1. "researching" \in ToSet(Milestones)
    <3>1. Milestones[1] = "researching" /\ 1 \in DOMAIN Milestones
      BY DEF Milestones
    <3> QED
      BY <3>1 DEF ToSet
  <2>2. state' \in States /\ state'.refresh = state.refresh /\ state'.research = state.research
    BY <1>6, <2>1 DEF IInv, DataInv, States
  <2> QED
    BY <1>1, <1>2, <1>6, <2>2, OuterNodes, ElsewhereInv DEF IInv, DataInv, WorkTypes
<1> QED
  BY <1>3, <1>4, <1>5, <1>6 DEF TargetStep

LEMMA OuterStepInv ==
  ASSUME IInv, WakeActions \/ WakeApproval \/ ScheduleDone \/ CallDone
  PROVE  IInv'
<1>1. pc \in CallNodes \cup WaitNodes /\ Aside
  BY AsideFrame DEF WakeActions, WakeApproval, ScheduleDone, CallDone, CallNodes, WaitNodes
<1>2. waiting = <<>> /\ (pc \in LoopNodes => state.stage = "active")
  <2>1. pc # "research"
    BY <1>1, OuterNodes, StepNodesAre
  <2> QED
    BY <1>1, <2>1, OuterNodes, NobodyWaitsHere, LoopRests DEF IInv, Open
<1>3. PICK n \in Nodes : Pass(n) /\ n # "update"
                         /\ (n \in LoopNodes => n = "markActive" \/ pc \in LoopNodes)
  <2>1. CASE WakeActions \/ WakeApproval
    BY <2>1, OuterNodes, LoopTargets DEF WakeActions, WakeApproval, LoopNodes
  <2>2. CASE ScheduleDone
    BY <2>2, OuterNodes, LoopTargets DEF ScheduleDone, LoopNodes
  <2>3. CASE CallDone
    BY <2>3, AfterNodes DEF CallDone
  <2> QED
    BY <2>1, <2>2, <2>3
<1> QED
  BY <1>1, <1>2, <1>3, PassInv

-----------------------------------------------------------------------------
(* Steps. *)

\* The last step of a node: no step is left in a budget review.
LEMMA StepsDoneInv ==
  ASSUME IInv, NEW s \in Steps, At(s, "running"),
         \A t \in StepsOf[pc] \ {s} : step[t].at = "done", StepsDone, TurnFrame
  PROVE  IInv'
<1>1. Open /\ pc \in StepNodes
  BY StepNodesAre DEF At, Open
<1>2. \A t \in Steps : step[t].at \in {"off", "done", "running"}
  BY <1>1 DEF At, IInv, FlowInv, StepInv
<1>3. waiting = <<>>
  BY <1>2, NobodyWaits DEF IInv, FlowInv
<1>4. pc \in LoopNodes => state.stage = "active"
  BY <1>2, StepsAre DEF IInv, FlowInv, LoopInv, InReview
<1>5. CASE \E n \in DOMAIN After : pc = n /\ \E m \in After[n] : Pass(m)
  <2>1. PICK m \in Nodes \ {"update"} : Pass(m) /\ (m \in LoopNodes => pc \in LoopNodes)
    BY <1>5, AfterNodes
  <2> QED
    BY <1>3, <1>4, <2>1, AsideFrame, PassInv
<1>6. ASSUME NEW g \in DOMAIN Research, pc = Research[g], ResearchDone(g)
      PROVE  IInv'
  <2>1. g \in Gates
    BY DEF Research, Gates
  <2>2. {Research[g], Await[g], AfterReview(g)} \subseteq Nodes \ LoopNodes
    BY <2>1, ReviewNodes, LoopTargets DEF AfterReview
  <2>3. \A n \in Nodes \ LoopNodes : n # "update"
    BY DEF LoopNodes, ActiveLoop
  <2>4. CASE TakeResearch(Research[g])
    BY <1>3, <2>2, <2>3, <2>4, GoInv, TakeResearchInv
       DEF TakeResearch, TurnFrame, IInv, DataInv, WorldTypes
  <2>5. CASE /\ local.research = <<>> /\ hand' = None
             /\ Enter(IF Answered(g) THEN AfterReview(g) ELSE Await[g])
             /\ UNCHANGED <<local, taken, count>>
    <3>1. PICK n \in Nodes \ LoopNodes : Enter(n)
      BY <2>2, <2>5
    <3>2. state' \in States /\ state'.refresh = state.refresh /\ state'.research = state.research
      BY <3>1, PassedState DEF Enter, IInv, DataInv
    <3> QED
      BY <1>3, <2>5, <3>1, <3>2, ElsewhereInv DEF Enter, TurnFrame, world, IInv, DataInv, WorkTypes
  <2> QED
    BY <1>6, <2>4, <2>5 DEF ResearchDone
<1>7. CASE pc = "research" /\ FromResearches
  <2>1. pc \in LoopNodes
    BY <1>7 DEF LoopNodes, ActiveLoop
  <2> QED
    BY <1>3, <1>4, <1>7, <2>1, AsideFrame, FromResearchesInv
<1> QED
  BY <1>5, <1>6, <1>7 DEF StepsDone

\* One step goes on at its node.
LEMMA OneStep ==
  ASSUME FlowInv, NEW s \in Steps, pc \in StepNodes, s \in StepsOf[pc], step[s].at # "blocked",
         NEW x \in StepStates, step' = [step EXCEPT ![s] = x], UNCHANGED <<pc, waiting, hand>>,
         x.at # "off", x.at \in InReview => step[s].at \in InReview /\ x.before = step[s].before,
         \/ state'.stage = state.stage /\ (step[s].at \in InReview => x.at \in InReview)
         \/ step[s].at \in InReview /\ state'.stage = step[s].before
  PROVE  FlowInv'
<1>1. step \in [Steps -> StepStates] /\ waiting \in Seq(Steps)
  BY DEF FlowInv, FlowTypes
<1>2. step'[s] = x /\ \A t \in Steps : t # s => step'[t] = step[t]
  BY <1>1
<1>3. FlowTypes'
  BY <1>1 DEF FlowInv, FlowTypes
<1>4. StepInv'
  BY <1>2 DEF FlowInv, StepInv, Open
<1>5. WaitInv'
  <2>1. \A i \in DOMAIN waiting : waiting[i] \in Steps /\ waiting[i] # s
    BY <1>1 DEF FlowInv, WaitInv
  <2> QED
    BY <1>2, <2>1 DEF FlowInv, WaitInv
<1>6. LoopInv'
  <2>1. SUFFICES ASSUME pc \in LoopNodes, step'["requested"].at \notin InReview
                 PROVE  state'.stage = "active"
    BY DEF LoopInv
  <2>2. pc = "research" /\ s = "requested"
    BY <2>1, StepNodesAre, StepsAre DEF LoopNodes, ActiveLoop
  <2> QED
    BY <1>2, <2>1, <2>2 DEF FlowInv, LoopInv, StepInv
<1> QED
  BY <1>3, <1>4, <1>5, <1>6 DEF FlowInv, HandInv

LEMMA AtNode ==
  ASSUME FlowInv, NEW s \in Steps, NEW at \in {"running", "updating", "telling"}, At(s, at)
  PROVE  Open /\ pc \in StepNodes /\ s \in StepsOf[pc] /\ step[s].at = at /\ step[s] \in StepStates
BY StepNodesAre DEF At, Open, FlowInv, FlowTypes, StepInv

LEMMA RestoreInv ==
  ASSUME IInv, NEW s \in Steps, At(s, "updating") \/ At(s, "telling"), Restore(s),
         UNCHANGED <<pc, waiting, local, work, gone, sent, count>>,
         recorded' \in Budgets \cup {None}
  PROVE  IInv'
<1>1. pc \in StepNodes /\ s \in StepsOf[pc] /\ step[s].at \in InReview \ {"blocked"}
  BY AtNode DEF IInv, InReview
<1>2. step[s].before \in Stages
  BY <1>1 DEF IInv, FlowInv, StepInv
<1>3. /\ state' \in States /\ state'.stage = step[s].before
      /\ state'.refresh = state.refresh /\ state'.research = state.research
  BY <1>2 DEF Restore, IInv, DataInv, States
<1>4. Begun.at # "off"
  BY DEF Begun, Off
<1>5. FlowInv'
  BY <1>1, <1>3, <1>4, BegunType, OneStep DEF Restore, IInv, work
<1> QED
  BY <1>3, <1>5, DataFrame DEF IInv, DataInv, WorldTypes, work

LEMMA OverBudgetInv ==
  ASSUME IInv, NEW s \in Steps, StepOverBudget(s)
  PROVE  IInv'
<1>1. pc \in StepNodes /\ s \in StepsOf[pc] /\ step[s].at = "running"
  BY AtNode DEF StepOverBudget, IInv
<1> DEFINE x == [at |-> "blocked", before |-> state.stage, budget |-> None]
<1>2. state.stage \in Stages /\ x \in StepStates /\ "awaiting_budget_review" \in Stages
  BY DEF IInv, DataInv, States, StepStates, Stages
<1>3. step \in [Steps -> StepStates] /\ waiting \in Seq(Steps)
  BY DEF IInv, FlowInv, FlowTypes
<1>4. step'[s] = x /\ \A t \in Steps : t # s => step'[t] = step[t]
  BY <1>3 DEF StepOverBudget
<1>5. pc' = pc /\ hand' = hand /\ waiting' = Append(waiting, s)
  BY DEF StepOverBudget, work
<1>6. FlowTypes'
  BY <1>2, <1>3, <1>5 DEF StepOverBudget, IInv, FlowInv, FlowTypes
<1>7. pc = "research" => s = "requested" /\ state.stage = "active"
  <2>1. "research" \in LoopNodes
    BY DEF LoopNodes, ActiveLoop
  <2> QED
    BY <1>1, <2>1, StepsAre DEF IInv, FlowInv, LoopInv, InReview
<1>8. StepInv'
  BY <1>1, <1>2, <1>4, <1>5, <1>7 DEF IInv, FlowInv, StepInv, Open
<1>9. WaitInv'
  <2>1. \A i \in DOMAIN waiting : waiting[i] \in Steps /\ waiting[i] # s
    BY <1>1, <1>3 DEF IInv, FlowInv, WaitInv
  <2>2. DOMAIN waiting = 1..Len(waiting) /\ DOMAIN waiting' = 1..(Len(waiting) + 1) /\ Len(waiting) \in Nat
    BY <1>3, <1>5
  <2>3. \A i \in DOMAIN waiting' : waiting'[i] = IF i \in DOMAIN waiting THEN waiting[i] ELSE s
    BY <1>3, <1>5, <2>2
  <2>4. \A i \in DOMAIN waiting' \ DOMAIN waiting : i = Len(waiting) + 1
    BY <2>2
  <2> QED
    BY <1>4, <2>1, <2>3, <2>4 DEF IInv, FlowInv, WaitInv
<1>10. LoopInv'
  <2>1. pc \in LoopNodes => pc = "research"
    BY <1>1, StepNodesAre DEF LoopNodes, ActiveLoop
  <2> QED
    BY <1>4, <1>5, <1>7, <2>1 DEF LoopInv, InReview
<1>11. /\ state' \in States
       /\ state'.refresh = state.refresh /\ state'.research = state.research
  BY <1>2 DEF StepOverBudget, IInv, DataInv, States
<1>12. WorldTypes'
  BY Bounds DEF StepOverBudget, IInv, DataInv, WorldTypes
<1> QED
  BY <1>5, <1>6, <1>8, <1>9, <1>10, <1>11, <1>12, DataFrame
     DEF StepOverBudget, IInv, FlowInv, HandInv, DataInv

LEMMA WakeHeldInv ==
  ASSUME IInv, WakeHeld
  PROVE  IInv'
<1>1. \A s \in Steps : step'[s] = IF step[s].at = "held" THEN Begun ELSE step[s]
  BY DEF WakeHeld
<1>2. UNCHANGED <<pc, waiting, state, local, work, world>>
  BY DEF WakeHeld
<1>3. FlowTypes'
  BY <1>2, BegunType DEF WakeHeld, IInv, FlowInv, FlowTypes
<1>4. StepInv'
  BY <1>1, <1>2, BegunType DEF IInv, FlowInv, StepInv, InReview, Open
<1>5. WaitInv'
  <2>1. \A i \in DOMAIN waiting : waiting[i] \in Steps
    BY DEF IInv, FlowInv, FlowTypes
  <2> QED
    BY <1>1, <1>2, <2>1 DEF IInv, FlowInv, WaitInv
<1>6. LoopInv'
  BY <1>1, <1>2, StepsAre DEF IInv, FlowInv, LoopInv, InReview
<1> QED
  BY <1>2, <1>3, <1>4, <1>5, <1>6, DataFrame
     DEF IInv, FlowInv, HandInv, DataInv, WorldTypes, work, world

\* In the active loop only the step there can wait, so the stage is not set.
LEMMA WakeBlockedInv ==
  ASSUME IInv, WakeBlocked
  PROVE  IInv'
<1> DEFINE first == Head(waiting)
           rest == Tail(waiting)
<1>1. waiting \in Seq(Steps) /\ Len(waiting) \in Nat \ {0} /\ first = waiting[1]
      /\ \A i \in 1..Len(waiting) : waiting[i] \in Steps /\ i \in DOMAIN waiting
  <2>1. waiting \in Seq(Steps) /\ waiting # <<>>
    BY DEF WakeBlocked, IInv, FlowInv, FlowTypes
  <2> QED
    BY <2>1
<1>2. first \in Steps /\ step[first].at = "blocked"
  BY <1>1 DEF IInv, FlowInv, WaitInv
<1>3. \A s \in ToSet(rest) : s \in Steps /\ step[s].at = "blocked"
  <2>1. rest \in Seq(Steps) /\ \A i \in DOMAIN rest : i + 1 \in 1..Len(waiting) /\ rest[i] = waiting[i + 1]
    BY <1>1
  <2> QED
    BY <1>1, <2>1 DEF ToSet, IInv, FlowInv, WaitInv
<1>4. local.budget \in Budgets /\ local' = [local EXCEPT !.budget = None]
      /\ UNCHANGED <<pc, work, world>> /\ waiting' = <<>>
  BY DEF WakeBlocked, IInv, DataInv, Locals
<1>5. \A s \in Steps : step'[s] = IF s = first THEN [step[s] EXCEPT !.at = "updating", !.budget = local.budget]
                                  ELSE IF s \in ToSet(rest) THEN Begun ELSE step[s]
  BY DEF WakeBlocked
<1>6. step \in [Steps -> StepStates]
  BY DEF IInv, FlowInv, FlowTypes
<1>7. step'[first] \in StepStates /\ step'[first].at = "updating"
      /\ step'[first].before = step[first].before
  BY <1>2, <1>4, <1>5, <1>6 DEF StepStates
<1>8. FlowTypes'
  <2>1. \A s \in Steps : step'[s] \in StepStates
    BY <1>5, <1>6, <1>7, BegunType
  <2>2. step' = [s \in Steps |-> step'[s]]
    BY DEF WakeBlocked
  <2>3. step' \in [Steps -> StepStates]
    BY <2>1, <2>2
  <2> QED
    BY <1>4, <2>3 DEF IInv, FlowInv, FlowTypes
<1>9. StepInv'
  BY <1>2, <1>3, <1>4, <1>5, <1>7, BegunType DEF IInv, FlowInv, StepInv, InReview, Open
<1>10. WaitInv'
  BY <1>4 DEF WaitInv
<1>11. LoopInv'
  <2>1. SUFFICES ASSUME pc \in LoopNodes
                 PROVE  step'["requested"].at \in InReview
    BY <1>4 DEF LoopInv
  <2>2. pc = "research"
    BY <2>1, StepNodesAre DEF WakeBlocked, LoopNodes, ActiveLoop
  <2>3. first = "requested"
    BY <1>2, <2>2, StepsAre, StepNodesAre DEF IInv, FlowInv, StepInv, Open
  <2> QED
    BY <1>7, <2>3 DEF InReview
<1>12. state' \in States /\ state'.refresh = state.refresh /\ state'.research = state.research
  <2>1. CASE rest = <<>>
    BY <2>1 DEF WakeBlocked, IInv, DataInv
  <2>2. CASE rest # <<>>
    <3>1. Last(rest) \in ToSet(rest)
      <4>1. Len(rest) \in DOMAIN rest
        BY <1>1, <2>2
      <4> QED
        BY <4>1 DEF Last, ToSet
    <3>2. step[Last(rest)].before \in Stages
      BY <1>3, <3>1 DEF IInv, FlowInv, StepInv, InReview
    <3> QED
      BY <2>2, <3>2 DEF WakeBlocked, IInv, DataInv, States
  <2> QED
    BY <2>1, <2>2
<1>13. local' \in Locals /\ local'.refresh = local.refresh /\ local'.research = local.research
  BY <1>4 DEF IInv, DataInv, Locals
<1> QED
  BY <1>4, <1>8, <1>9, <1>10, <1>11, <1>12, <1>13, DataFrame
     DEF IInv, FlowInv, HandInv, DataInv, WorldTypes, work, world

LEMMA StepActionInv ==
  ASSUME IInv, NEW s \in Steps, Step(s)
  PROVE  IInv'
<1>1. CASE StepSucceeds(s)
  <2>1. Open /\ pc \in StepNodes /\ s \in StepsOf[pc] /\ step[s].at = "running" /\ step[s] \in StepStates
    BY <1>1, AtNode DEF StepSucceeds, IInv
  <2>2. CASE /\ step' = [step EXCEPT ![s].at = "done"]
             /\ UNCHANGED <<pc, waiting, state, local, hand, taken, count>>
    <3>1. [step[s] EXCEPT !.at = "done"] \in StepStates
      BY <2>1 DEF StepStates
    <3>2. FlowInv'
      BY <2>1, <2>2, <3>1, OneStep DEF IInv, InReview, StepStates
    <3> QED
      BY <1>1, <2>2, <3>2, DataFrame DEF StepSucceeds, TurnFrame, IInv, DataInv, WorldTypes, work
  <2> QED
    BY <1>1, <2>2, StepsDoneInv DEF StepSucceeds
<1>2. CASE StepOverBudget(s)
  BY <1>2, OverBudgetInv
<1>3. CASE StepFails(s) \/ BudgetFails(s)
  BY <1>3, FailInv DEF StepFails, BudgetFails
<1>4. CASE StepUpdateDone(s)
  <2>1. pc \in StepNodes /\ s \in StepsOf[pc] /\ step[s].at = "updating" /\ step[s] \in StepStates
    BY <1>4, AtNode DEF StepUpdateDone, IInv
  <2>2. recorded' \in Budgets \cup {None}
    BY <1>4, <2>1 DEF StepUpdateDone, StepStates
  <2>3. CASE step' = [step EXCEPT ![s].at = "telling"] /\ UNCHANGED state
    <3>1. [step[s] EXCEPT !.at = "telling"] \in StepStates
      BY <2>1 DEF StepStates
    <3>2. FlowInv'
      BY <1>4, <2>1, <2>3, <3>1, OneStep DEF StepUpdateDone, IInv, InReview, StepStates, work
    <3> QED
      BY <1>4, <2>2, <2>3, <3>2, DataFrame DEF StepUpdateDone, IInv, DataInv, WorldTypes
  <2> QED
    BY <1>4, <2>2, <2>3, RestoreInv DEF StepUpdateDone
<1>5. CASE StepTellDone(s)
  BY <1>5, RestoreInv DEF StepTellDone, world, IInv, DataInv, WorldTypes
<1> QED
  BY <1>1, <1>2, <1>3, <1>4, <1>5 DEF Step

-----------------------------------------------------------------------------
(* The theorems. *)

LEMMA InitInv == Init => IInv
<1> SUFFICES ASSUME Init PROVE IInv
  OBVIOUS
<1>1. "load" \in Nodes \ LoopNodes /\ "load" \in StepNodes /\ StepsOf["load"] = {"loadMission"}
  BY StepNodesAre DEF Nodes, LoopNodes, ActiveLoop, StepsOf
<1>2. FlowTypes
  BY <1>1 DEF Init, FlowTypes, Off, StepStates
<1>3. StepInv
  BY <1>1, StepNodesAre DEF Init, StepInv, Off, InReview, Open
<1>4. WaitInv /\ LoopInv /\ HandInv
  BY <1>1, StepNodesAre DEF Init, WaitInv, LoopInv, HandInv
<1>5. state \in States
  BY DEF Init, States, Stages
<1>6. local \in Locals /\ local.refresh = <<>> /\ local.research = <<>>
      /\ state.refresh = <<>> /\ state.research = <<>>
  BY DEF Init, Fresh, Locals
<1>7. WorkTypes /\ WorldTypes
  BY Bounds DEF Init, WorkTypes, WorldTypes
<1>8. QueueInv
  BY <1>6 DEF Init, QueueInv, QueueOf, RequestsTakenOnce, ToSet
<1> QED
  BY <1>2, <1>3, <1>4, <1>5, <1>6, <1>7, <1>8 DEF IInv, FlowInv, DataInv

LEMMA NextInv == IInv /\ [Next]_vars => IInv'
<1> SUFFICES ASSUME IInv, [Next]_vars PROVE IInv'
  OBVIOUS
<1>1. CASE Signal
  BY <1>1, SignalInv
<1>2. CASE Progress
  <2>1. CASE \E s \in Steps : Step(s)
    BY <2>1, StepActionInv
  <2>2. CASE \E g \in Gates : MarkDone(g) \/ WakeResearch(g) \/ WakeReview(g)
    BY <2>2, ReviewInv
  <2>3. CASE GiveUpBlocked \/ CallFails
    BY <2>3, FailInv DEF GiveUpBlocked, CallFails
  <2>4. CASE WakeIdle \/ WakeResume \/ ResumeRowDone \/ UpdateDone \/ TellDone \/ RefreshDone
    BY <2>4, LoopStepInv
  <2>5. CASE WakeActions \/ WakeApproval \/ ScheduleDone \/ CallDone
    BY <2>5, OuterStepInv
  <2> QED
    BY <1>2, <2>1, <2>2, <2>3, <2>4, <2>5, WakeHeldInv, WakeBlockedInv, TargetStepInv DEF Progress
<1>3. CASE UNCHANGED vars
  BY <1>3, FlowFrame, DataFrame DEF vars, IInv, DataInv, WorldTypes, work, world
<1> QED
  BY <1>1, <1>2, <1>3 DEF Next

LEMMA Invariance == Spec => []IInv
  BY InitInv, NextInv, PTL DEF Spec

\* Every variable keeps its type, whatever the order of signals and answers:
\* a budget review always has a stage to go back to.
THEOREM TypeCorrect == Spec => []TypeOK
<1>1. IInv => TypeOK
  BY DEF IInv, FlowInv, DataInv, TypeOK
<1> QED
  BY <1>1, Invariance, PTL

\* A request is in its queue or was taken up, once, in every review loop, in
\* the active loop and across any number of continuations.
THEOREM RequestsSurvive == Spec => []RequestsTakenOnce
<1>1. IInv => RequestsTakenOnce
  BY DEF IInv, DataInv, QueueInv
<1> QED
  BY <1>1, Invariance, PTL

\* The active loop finds its stage again after every budget review in it.
THEOREM LoopKeepsStage == Spec => []ActiveLoopIsActive
<1>1. IInv => ActiveLoopIsActive
  BY DEF IInv, FlowInv, LoopInv, LoopNodes, InReview, ActiveLoopIsActive
<1> QED
  BY <1>1, Invariance, PTL

-----------------------------------------------------------------------------
(* The pause. *)

\* No activity starts in this step of the workflow unless it may.
Starts == \A s \in Steps : step[s].at # "running" /\ step'[s].at = "running"
                              => ~state.paused \/ local.complete

LEMMA GoStarts ==
  ASSUME NEW n, Go(n)
  PROVE  Starts
BY BegunType DEF Go, Starts

\* A step, given what it becomes.
LEMMA OneStarts ==
  ASSUME FlowTypes, NEW s \in Steps, NEW x, step' = [step EXCEPT ![s] = x],
         x.at # "running" \/ x = Begun
  PROVE  Starts
BY BegunType DEF FlowTypes, Starts

\* Every turn of the active loop goes on to one node.
LEMMA TurnsGo ==
  FromBudget \/ FromQueues \/ FromResearches => \E n : Go(n)
<1>1. FromResearches => \E n : Go(n)
  BY DEF FromResearches, TakeResearch, EndOfTurn, ContinueAsNew
<1>2. FromQueues => \E n : Go(n)
  BY <1>1 DEF FromQueues, TakeRefresh
<1>3. FromBudget => \E n : Go(n)
  BY <1>2 DEF FromBudget
<1> QED
  BY <1>1, <1>2, <1>3

LEMMA StepsStart ==
  ASSUME FlowTypes, NEW s \in Steps, Step(s)
  PROVE  Starts
<1>1. CASE StepSucceeds(s)
  <2>1. CASE step' = [step EXCEPT ![s].at = "done"]
    <3>1. [step[s] EXCEPT !.at = "done"].at # "running"
      BY DEF FlowTypes, StepStates
    <3> QED
      BY <2>1, <3>1, OneStarts
  <2>2. CASE StepsDone
    <3>1. \E n : Go(n)
      BY <2>2, TurnsGo DEF StepsDone, Pass, Enter, ResearchDone, TakeResearch
    <3> QED
      BY <3>1, GoStarts
  <2> QED
    BY <1>1, <2>1, <2>2 DEF StepSucceeds
<1>2. CASE StepOverBudget(s)
  BY <1>2, OneStarts DEF StepOverBudget
<1>3. CASE StepFails(s) \/ BudgetFails(s)
  BY <1>3 DEF StepFails, BudgetFails, Fail, Starts
<1>4. CASE StepUpdateDone(s) \/ StepTellDone(s)
  <2>1. CASE Restore(s)
    BY <2>1, OneStarts DEF Restore
  <2>2. CASE step' = [step EXCEPT ![s].at = "telling"]
    <3>1. [step[s] EXCEPT !.at = "telling"].at # "running"
      BY DEF FlowTypes, StepStates
    <3> QED
      BY <2>2, <3>1, OneStarts
  <2> QED
    BY <1>4, <2>1, <2>2 DEF StepUpdateDone, StepTellDone
<1> QED
  BY <1>1, <1>2, <1>3, <1>4 DEF Step

LEMMA WakesStart ==
  ASSUME FlowTypes, WakeHeld \/ WakeBlocked
  PROVE  Starts
<1>1. CASE WakeHeld
  BY <1>1, BegunType DEF WakeHeld, Starts
<1>2. CASE WakeBlocked
  <2>1. \A s \in Steps : [step[s] EXCEPT !.at = "updating", !.budget = local.budget].at # "running"
    BY DEF FlowTypes, StepStates
  <2>2. \A s \in Steps : \/ step'[s] = [step[s] EXCEPT !.at = "updating", !.budget = local.budget]
                         \/ step'[s] = Begun
                         \/ step'[s] = step[s]
    BY <1>2 DEF WakeBlocked
  <2> QED
    BY <2>1, <2>2, BegunType DEF Starts
<1> QED
  BY <1>1, <1>2

\* Whatever brings a step to its activity, a new node, a resume or a budget,
\* looks at the pause first.
THEOREM PausedStepsWait == Spec => PauseHolds
<1>1. ASSUME IInv, Next PROVE Starts
  <2> USE DEF IInv, FlowInv
  <2>1. CASE Signal
    BY <1>1, <2>1 DEF Signal, RequestCompletion, Review, SetPaused, Request, UpdateBudget,
                      ReportMilestone, ChildEnds, Handle, flow, Starts
  <2>2. CASE \E s \in Steps : Step(s)
    BY <1>1, <2>2, StepsStart
  <2>3. CASE WakeHeld \/ WakeBlocked
    BY <1>1, <2>3, WakesStart
  <2>4. CASE GiveUpBlocked \/ CallFails
    BY <2>4 DEF GiveUpBlocked, CallFails, Fail, Starts
  <2>5. CASE \E g \in Gates : MarkDone(g) \/ WakeResearch(g) \/ WakeReview(g)
    BY <2>5, GoStarts DEF MarkDone, WakeResearch, WakeReview, TakeResearch, Pass, Enter
  <2>6. CASE TargetStep
    BY <2>6, GoStarts DEF TargetStep, NextTarget, Enter
  <2>7. CASE WakeActions \/ WakeApproval \/ ScheduleDone \/ CallDone
    BY <2>7, GoStarts DEF WakeActions, WakeApproval, ScheduleDone, CallDone, Pass, Enter
  <2>8. CASE WakeIdle \/ WakeResume \/ ResumeRowDone \/ UpdateDone \/ TellDone \/ RefreshDone
    <3>1. \E n : Go(n)
      BY <2>8, TurnsGo DEF WakeIdle, WakeResume, ResumeRowDone, UpdateDone, TellDone, RefreshDone,
                           Pass, Enter
    <3> QED
      BY <3>1, GoStarts
  <2> QED
    BY <1>1, <2>1, <2>2, <2>3, <2>4, <2>5, <2>6, <2>7, <2>8 DEF Next, Progress
<1>2. IInv /\ [Next]_vars => [Starts]_vars
  BY <1>1
<1> QED
  BY <1>2, Invariance, PTL DEF Spec, PauseHolds, Starts
=============================================================================
