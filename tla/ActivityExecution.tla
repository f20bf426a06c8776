------------------------- MODULE ActivityExecution -------------------------
(***************************************************************************)
(* One mission, the Temporal runs of its workflow, and the activity        *)
(* attempts those runs (and the mission's child workflows) schedule on the *)
(* workers.  Every business write of the worker goes through one of three  *)
(* wrappers of apps/worker/src/activities.ts:                              *)
(*                                                                         *)
(*   prepared            owner check, two lookups, work outside any        *)
(*                       transaction, cache the result, then idempotent    *)
(*   idempotent          one transaction: owner check, lookup, mission     *)
(*   idempotentMutation  state check, abort check, work, record            *)
(*                                                                         *)
(* All of them lock the mission row with `for update`, and so do           *)
(* startMission, reconcileClosedMission and registerMissionRecovery.  A    *)
(* transaction that calls something else while it holds the row (Temporal, *)
(* or the work of the activity) is two actions with the row locked in      *)
(* between; a shorter one is one action that waits for the row.            *)
(***************************************************************************)
EXTENDS Naturals, FiniteSets

CONSTANTS Attempts,   \* activity attempts, as the workers see them
          Keys,       \* the business steps (activity type and businessId)
          KeyInfo,    \* [Keys -> [kind, level, payloads, completes]]
          MaxRuns,    \* bound on the runs of the mission's workflow id
          None        \* "no value"

Runs == 1..MaxRuns
Scopes == 0..MaxRuns
Slots == Scopes \X Keys

Levels == {"mission", "opportunity", "independent"}
Kinds == {"prepared", "mutation", "agent"}

\* kind: the wrapper the activity uses; "agent" is an idempotent activity
\*   that runs an agent inside its transaction.
\* level: the workflow that schedules it: the mission's; an opportunity's that
\*   the mission started; or one that names no owner run, which are the refresh
\*   workflow and the opportunities the API starts.
\* payloads: how many different payloads the workflow can send under the key.
\* completes: the activity is markMissionCompleted.
ASSUME KeyInfoAssumption ==
    KeyInfo \in [Keys -> [kind: Kinds, level: Levels, payloads: Nat, completes: BOOLEAN]]
ASSUME MaxRunsAssumption == MaxRuns \in Nat \ {0}
ASSUME NoneAssumption == None \notin Attempts /\ None \notin Keys

VARIABLES
    mission,     \* missions row: status and current_stage
    owner,       \* workflow_instances.run_id of the mission, 0 without a row
    rowLock,     \* who holds the mission row across a call to Temporal
    latest,      \* the run describeMission answers with, 0 before the first
    run,         \* Temporal: each run's status, the first run of its chain,
                 \*   and whether a reset created it
    served,      \* the runs that have been the owner
    recovered,   \* executions whose recovery has an idempotency record
    registering, \* the run a registration has seen as current, 0 if none
    pc, call,    \* per attempt: control point and activity input
    local,       \* per attempt: the prepared result it holds
    answer,      \* per attempt: the value it returns
    error,       \* per attempt: the failure it throws
    timedOut,    \* attempts the Temporal server has given up on
    aborted,     \* attempts whose cancellation signal has fired
    record,      \* idempotency_records of completed activities
    cache,       \* idempotency_records of prepared results
    effects      \* what the committed work() of each key has written

rowVars == <<mission, owner, rowLock>>
temporalVars == <<latest, run>>
recoveryVars == <<served, recovered, registering>>
attemptVars == <<pc, call, local, answer, error, timedOut, aborted>>
storeVars == <<record, cache, effects>>
vars == <<rowVars, temporalVars, recoveryVars, attemptVars, storeVars>>

-----------------------------------------------------------------------------
Terminal == {"failed", "completed"}
MissionStatus == {"draft", "running", "paused"} \cup Terminal
\* "working" stands for every stage between draft and the terminal ones
\* except the budget review.
MissionStage == {"draft", "working", "awaiting_budget_review"} \cup Terminal
RunStatus == {"none", "RUNNING", "COMPLETED", "FAILED", "CONTINUED_AS_NEW"}
\* FAILED also stands for CANCELLED, TERMINATED and TIMED_OUT.
ClosedStatus == {"COMPLETED", "FAILED"}

NoLock == [by |-> "none", run |-> 0, who |-> None]
Holds(by, r, a) == [by |-> by, run |-> r, who |-> a]
NoCall == [run |-> 0, level |-> "mission", claim |-> 0, slot |-> <<0, None>>, payload |-> 0]
NoEntry == [payload |-> 0, value |-> None]

Calls == [run: Runs, level: Levels, claim: 0..MaxRuns, slot: Slots, payload: Nat \ {0}]
Entries == [payload: Nat, value: Attempts]
ControlPoints == {"idle", "scheduled", "owned", "missed", "preparing", "computed",
                  "stored", "ready", "working", "answered", "done", "failed"}
Errors == {"none", "ACTIVITY_STALE_OWNER", "ACTIVITY_IDEMPOTENCY_CONFLICT",
           "MISSION_TERMINAL", "ABORTED", "MISSION_BUDGET_EXHAUSTED", "WORK_FAILED"}

Info(a) == KeyInfo[call[a].slot[2]]
RowNeverLocked == TRUE   \* mutant: a transaction that omits "for update"
RowFree == rowLock = NoLock

MissionNeverTerminal == FALSE   \* mutant: no terminal check before the work
MissionIsTerminal == mission.status \in Terminal

\* describeMission: the run the workflow id now names.
AnyRunIsCurrent(r) == TRUE   \* mutant: the answer is not compared
IsCurrent(r) == latest = r
Live(a) == pc[a] \notin {"idle", "done", "failed"}

Init ==
    /\ mission = [status |-> "draft", stage |-> "draft"]
    /\ owner = 0
    /\ rowLock = NoLock
    /\ latest = 0
    /\ run = [r \in Runs |-> [status |-> "none", first |-> r, reset |-> FALSE]]
    /\ served = {}
    /\ recovered = {}
    /\ registering = 0
    /\ pc = [a \in Attempts |-> "idle"]
    /\ call = [a \in Attempts |-> NoCall]
    /\ local = [a \in Attempts |-> None]
    /\ answer = [a \in Attempts |-> None]
    /\ error = [a \in Attempts |-> "none"]
    /\ timedOut = {}
    /\ aborted = {}
    /\ record = [s \in Slots |-> NoEntry]
    /\ cache = [s \in Slots |-> NoEntry]
    /\ effects = [s \in Slots |-> {}]

-----------------------------------------------------------------------------
(* The start command: the transaction locks the row, starts the workflow,  *)
(* and commits or rolls back afterwards.                                   *)

StartWorkflow ==
    /\ RowFree
    /\ mission.stage \in {"draft", "failed", "awaiting_budget_review"}
    /\ latest > 0 => run[latest].status # "RUNNING"
    /\ latest < MaxRuns
    /\ latest' = latest + 1
    /\ run' = [run EXCEPT ![latest + 1] = [status |-> "RUNNING", first |-> latest + 1, reset |-> FALSE]]
    /\ rowLock' = Holds("start", latest + 1, None)
    /\ UNCHANGED <<mission, owner, recoveryVars, attemptVars, storeVars>>

StartCommit ==
    /\ rowLock.by = "start"
    /\ owner' = rowLock.run
    /\ served' = served \cup {rowLock.run}
    /\ mission' = [status |-> "running", stage |-> "working"]
    /\ rowLock' = NoLock
    /\ UNCHANGED <<temporalVars, recovered, registering, attemptVars, storeVars>>

StartRollback ==
    /\ rowLock.by = "start"
    /\ rowLock' = NoLock
    /\ UNCHANGED <<mission, owner, temporalVars, recoveryVars, attemptVars, storeVars>>

-----------------------------------------------------------------------------
(* Temporal: runs close, continue as new and are reset.                    *)

\* A failure the workflow does not catch: any but the budget's, and the
\* timeout of an attempt (maximumAttempts is 1).
Doomed(a) == a \in timedOut \/ (pc[a] = "failed" /\ error[a] # "MISSION_BUDGET_EXHAUSTED")

MissionAttempts(r) == {a \in Attempts : call[a].run = r /\ call[a].level = "mission"}

\* The workflow returns only after markMissionCompleted has answered.
RunCompletes(r) ==
    /\ run[r].status = "RUNNING"
    /\ \E a \in MissionAttempts(r) : pc[a] = "done" /\ Info(a).completes
    /\ run' = [run EXCEPT ![r].status = "COMPLETED"]
    /\ UNCHANGED <<rowVars, latest, recoveryVars, attemptVars, storeVars>>

\* A failed activity, an external cancel or terminate, a workflow timeout.
RunFails(r) ==
    /\ run[r].status = "RUNNING"
    /\ run' = [run EXCEPT ![r].status = "FAILED"]
    /\ UNCHANGED <<rowVars, latest, recoveryVars, attemptVars, storeVars>>

\* The active loop continues as new with no activity outstanding; the new
\* run keeps the input, hence the execution identity.
RunContinuesAsNew(r) ==
    /\ run[r].status = "RUNNING"
    /\ \E a \in MissionAttempts(r) : pc[a] = "done"
    /\ \A a \in MissionAttempts(r) : pc[a] = "done" /\ ~Info(a).completes
    /\ latest < MaxRuns
    /\ latest' = latest + 1
    /\ run' = [run EXCEPT ![r].status = "CONTINUED_AS_NEW",
                          ![latest + 1] = [status |-> "RUNNING", first |-> run[r].first,
                                           reset |-> FALSE]]
    /\ UNCHANGED <<rowVars, recoveryVars, attemptVars, storeVars>>

\* recoverMission: reset a run of the mission; Temporal terminates the
\* current run and replays the history up to the boundary in a new one.
ResetRun(r) ==
    /\ run[r].status # "none"
    /\ r \in served
    /\ latest < MaxRuns
    /\ latest' = latest + 1
    /\ run' = [s \in Runs |->
                 CASE s = latest + 1 -> [status |-> "RUNNING", first |-> run[r].first, reset |-> TRUE]
                   [] s = latest /\ run[s].status = "RUNNING" -> [run[s] EXCEPT !.status = "FAILED"]
                   [] OTHER -> run[s]]
    /\ UNCHANGED <<rowVars, recoveryVars, attemptVars, storeVars>>

\* registerMissionRecovery describes the workflow before its transaction ...
RegisterDescribe(r) ==
    /\ registering = 0
    /\ IsCurrent(r)
    /\ run[r].status = "RUNNING"
    /\ run[r].reset
    /\ registering' = r
    /\ UNCHANGED <<rowVars, temporalVars, served, recovered, attemptVars, storeVars>>

\* ... and its record is keyed by the execution, with the run not hashed: a
\* second recovery of the same execution finds the record and returns.
RegisterCommit ==
    /\ registering # 0
    /\ RowFree
    /\ registering' = 0
    /\ IF run[registering].first \in recovered
       THEN UNCHANGED <<mission, owner, served, recovered>>
       ELSE /\ owner' = registering
            /\ served' = served \cup {registering}
            /\ mission' = [status |-> "paused", stage |-> "working"]
            /\ recovered' = recovered \cup {run[registering].first}
    /\ UNCHANGED <<rowLock, temporalVars, attemptVars, storeVars>>

-----------------------------------------------------------------------------
(* reconcileClosedMission, every 15 seconds for each closed run Temporal   *)
(* lists: describe under the row lock, then write.                         *)

\* mutant: only the run that workflow_instances names
OwnRunClosed(r) == run[r].status \in ClosedStatus /\ owner = r
Closed(r) == run[r].status \in ClosedStatus

ReconcileDescribe(r) ==
    /\ Closed(r)
    /\ RowFree
    /\ ~MissionIsTerminal
    /\ IsCurrent(r)
    /\ rowLock' = Holds("reconcile", r, None)
    /\ UNCHANGED <<mission, owner, temporalVars, recoveryVars, attemptVars, storeVars>>

ReconcileCommit ==
    /\ rowLock.by = "reconcile"
    /\ LET status == IF run[rowLock.run].status = "COMPLETED" THEN "completed" ELSE "failed"
       IN  mission' = [status |-> status, stage |-> status]
    /\ rowLock' = NoLock
    /\ UNCHANGED <<owner, temporalVars, recoveryVars, attemptVars, storeVars>>

-----------------------------------------------------------------------------
(* An activity attempt.  A worker that crashes is an attempt that takes no *)
(* further step; an attempt the server has given up on may still run.      *)

\* owner check: the run an attempt claims to act for against the stored one.
Unfenced(a) == TRUE   \* mutant: no owner check
FenceOK(a) == call[a].level = "independent" \/ (owner # 0 /\ owner = call[a].claim)

NothingKnown(a) == NoEntry   \* mutant: no lookup before the work
Known(a) == record[call[a].slot]
Prepared(a) == cache[call[a].slot]
NeverConflicts(a, entry) == FALSE   \* mutant: the request hash is not compared
Conflicts(a, entry) == entry # NoEntry /\ entry.payload # call[a].payload

GoTo(a, point) == pc' = [pc EXCEPT ![a] = point]
Fail(a, e) ==
    /\ GoTo(a, "failed")
    /\ error' = [error EXCEPT ![a] = e]
    /\ UNCHANGED <<local, answer>>
Advance(a, point) ==
    /\ GoTo(a, point)
    /\ UNCHANGED <<local, answer, error>>
Answer(a, value) ==
    /\ GoTo(a, "answered")
    /\ answer' = [answer EXCEPT ![a] = value]
    /\ UNCHANGED <<local, error>>
Hold(a, point, value) ==
    /\ GoTo(a, point)
    /\ local' = [local EXCEPT ![a] = value]
    /\ UNCHANGED <<answer, error>>

worldVars == <<temporalVars, recoveryVars, call, timedOut, aborted>>

\* What the scheduling workflow puts in the activity's input (activityScope).
Claim(r, level) == CASE level = "mission" -> r
                     [] level = "opportunity" -> run[r].first
                     [] OTHER -> 0
Scope(r, level) == IF level = "mission" THEN run[r].first ELSE 0

\* maximumAttempts is 1 for the mission's and the opportunities' activities;
\* the refresh workflow retries once the previous attempt is over.
MaySchedule(r, k) ==
    LET level == KeyInfo[k].level
        slot == <<Scope(r, level), k>>
        sameSlot == {a \in Attempts : call[a].run = r /\ call[a].slot = slot}
    IN  CASE level = "mission" ->
                /\ run[r].status = "RUNNING"
                /\ \A a \in MissionAttempts(r) : ~Doomed(a)
                /\ \A a \in sameSlot : ~Live(a)
          [] level = "opportunity" ->
                /\ r \in served
                /\ \A a \in sameSlot : ~Doomed(a) /\ ~Live(a)
          [] OTHER ->
                /\ r \in served
                /\ \A a \in Attempts : call[a].slot = slot => ~Live(a) \/ a \in timedOut

Schedule(a, r, k, p) ==
    LET level == KeyInfo[k].level IN
    /\ pc[a] = "idle"
    /\ MaySchedule(r, k)
    /\ call' = [call EXCEPT ![a] = [run |-> r, level |-> level, claim |-> Claim(r, level),
                                    slot |-> <<Scope(r, level), k>>, payload |-> p]]
    /\ Advance(a, IF KeyInfo[k].kind = "prepared" THEN "scheduled" ELSE "ready")
    /\ UNCHANGED <<rowVars, temporalVars, recoveryVars, timedOut, aborted, storeVars>>

CheckOwner(a) ==
    /\ pc[a] = "scheduled"
    /\ RowFree
    /\ IF FenceOK(a) THEN Advance(a, "owned") ELSE Fail(a, "ACTIVITY_STALE_OWNER")
    /\ UNCHANGED <<rowVars, worldVars, storeVars>>

LookupCompleted(a) ==
    /\ pc[a] = "owned"
    /\ \/ Conflicts(a, Known(a)) /\ Fail(a, "ACTIVITY_IDEMPOTENCY_CONFLICT")
       \/ Known(a) # NoEntry /\ ~Conflicts(a, Known(a)) /\ Answer(a, Known(a).value)
       \/ Known(a) = NoEntry /\ Advance(a, "missed")
    /\ UNCHANGED <<rowVars, worldVars, storeVars>>

LookupPrepared(a) ==
    /\ pc[a] = "missed"
    /\ \/ Conflicts(a, Prepared(a)) /\ Fail(a, "ACTIVITY_IDEMPOTENCY_CONFLICT")
       \/ /\ ~Conflicts(a, Prepared(a))
          /\ \/ a \in aborted /\ Fail(a, "ABORTED")
             \/ a \notin aborted /\ Prepared(a) # NoEntry /\ Hold(a, "ready", Prepared(a).value)
             \/ a \notin aborted /\ Prepared(a) = NoEntry /\ Advance(a, "preparing")
    /\ UNCHANGED <<rowVars, worldVars, storeVars>>

\* The agent, the connectors and the model provider run in no transaction.
Prepare(a) ==
    /\ pc[a] = "preparing"
    /\ IF a \in aborted THEN Fail(a, "ABORTED")
       ELSE Hold(a, "computed", a) \/ Fail(a, "WORK_FAILED")
    /\ UNCHANGED <<rowVars, worldVars, storeVars>>

\* enforceBudget, before the agent runs: a transaction of its own moves the
\* mission to the budget review, whatever its state.
PrepareOverBudget(a) ==
    /\ pc[a] = "preparing"
    /\ RowFree
    /\ mission' = [mission EXCEPT !.stage = "awaiting_budget_review"]
    /\ Fail(a, "MISSION_BUDGET_EXHAUSTED")
    /\ UNCHANGED <<owner, rowLock, worldVars, storeVars>>

StorePrepared(a) ==
    LET s == call[a].slot IN
    /\ pc[a] = "computed"
    /\ cache' = IF cache[s] = NoEntry   \* onConflictDoNothing
                THEN [cache EXCEPT ![s] = [payload |-> call[a].payload, value |-> local[a]]]
                ELSE cache
    /\ Advance(a, "stored")
    /\ UNCHANGED <<rowVars, worldVars, record, effects>>

\* mutant: the attempt commits its own result, not the persisted one
KeepOwnResult(a) ==
    /\ pc[a] = "stored"
    /\ Advance(a, "ready")
    /\ UNCHANGED <<rowVars, worldVars, storeVars>>

ReadPrepared(a) ==
    /\ pc[a] = "stored"
    /\ Hold(a, "ready", Prepared(a).value)
    /\ UNCHANGED <<rowVars, worldVars, storeVars>>

\* idempotent and idempotentMutation, up to the work.
BeginCommit(a) ==
    /\ pc[a] = "ready"
    /\ RowFree
    /\ \/ ~FenceOK(a) /\ Fail(a, "ACTIVITY_STALE_OWNER") /\ UNCHANGED rowLock
       \/ /\ FenceOK(a) /\ Known(a) # NoEntry
          /\ \/ Conflicts(a, Known(a)) /\ Fail(a, "ACTIVITY_IDEMPOTENCY_CONFLICT")
             \/ ~Conflicts(a, Known(a)) /\ Answer(a, Known(a).value)
          /\ UNCHANGED rowLock
       \/ /\ FenceOK(a) /\ Known(a) = NoEntry
          /\ \/ MissionIsTerminal /\ Fail(a, "MISSION_TERMINAL") /\ UNCHANGED rowLock
             \/ ~MissionIsTerminal /\ a \in aborted /\ Fail(a, "ABORTED") /\ UNCHANGED rowLock
             \/ /\ ~MissionIsTerminal /\ a \notin aborted
                /\ Advance(a, "working")
                /\ rowLock' = Holds("attempt", 0, a)
    /\ UNCHANGED <<mission, owner, worldVars, storeVars>>

\* What the work of a mission's activity may make of the mission row.
AfterWork(a) ==
    IF Info(a).completes THEN {[status |-> "completed", stage |-> "completed"]}
    ELSE IF call[a].level = "mission"
         THEN {mission, [mission EXCEPT !.status = "paused"], [status |-> "running", stage |-> "working"]}
         ELSE {mission}

Written(a) == IF Info(a).kind = "prepared" THEN local[a] ELSE a

\* The work, the last abort check, the record, and the commit.
FinishCommit(a) ==
    LET s == call[a].slot IN
    /\ pc[a] = "working"
    /\ a \notin aborted
    /\ effects' = [effects EXCEPT ![s] = @ \cup {Written(a)}]
    /\ record' = [record EXCEPT ![s] = [payload |-> call[a].payload, value |-> Written(a)]]
    /\ mission' \in AfterWork(a)
    /\ rowLock' = NoLock
    /\ Answer(a, Written(a))
    /\ UNCHANGED <<owner, worldVars, cache>>

\* The transaction rolls back: the work fails, its agent is over budget (the
\* writes of enforceBudget join this transaction and roll back with it), the
\* abort check throws, or the worker dies and its connection drops.
RollBack(a) ==
    /\ pc[a] = "working"
    /\ \/ a \in aborted /\ Fail(a, "ABORTED")
       \/ Fail(a, "WORK_FAILED")
       \/ Info(a).kind = "agent" /\ Fail(a, "MISSION_BUDGET_EXHAUSTED")
    /\ rowLock' = NoLock
    /\ UNCHANGED <<mission, owner, worldVars, storeVars>>

\* The server accepts the response of an attempt it still waits for; any
\* other response is dropped.
Respond(a) ==
    /\ pc[a] = "answered"
    /\ a \notin timedOut
    /\ call[a].level = "mission" => run[call[a].run].status = "RUNNING"
    /\ Advance(a, "done")
    /\ UNCHANGED <<rowVars, worldVars, storeVars>>

\* startToCloseTimeout or heartbeatTimeout, or the close of the opportunity or
\* refresh workflow that waits for the attempt.
TimeOut(a) ==
    /\ Live(a)
    /\ a \notin timedOut
    /\ timedOut' = timedOut \cup {a}
    /\ UNCHANGED <<rowVars, temporalVars, recoveryVars, pc, call, local, answer, error,
                   aborted, storeVars>>

\* The next heartbeat of an attempt nobody waits for cancels it.
Abort(a) ==
    /\ Live(a)
    /\ a \notin aborted
    /\ \/ a \in timedOut
       \/ call[a].level = "mission" /\ run[call[a].run].status # "RUNNING"
    /\ aborted' = aborted \cup {a}
    /\ UNCHANGED <<rowVars, temporalVars, recoveryVars, pc, call, local, answer, error,
                   timedOut, storeVars>>

-----------------------------------------------------------------------------
Start == StartWorkflow \/ StartCommit \/ StartRollback
RunStep(r) == \/ RunCompletes(r)
              \/ RunFails(r)
              \/ RunContinuesAsNew(r)
              \/ ResetRun(r)
Register == RegisterCommit \/ \E r \in Runs : RegisterDescribe(r)
Reconcile == ReconcileCommit \/ \E r \in Runs : ReconcileDescribe(r)

Attempt(a) ==
    \/ \E r \in Runs, k \in Keys : \E p \in 1..KeyInfo[k].payloads : Schedule(a, r, k, p)
    \/ CheckOwner(a)
    \/ LookupCompleted(a)
    \/ LookupPrepared(a)
    \/ Prepare(a)
    \/ PrepareOverBudget(a)
    \/ StorePrepared(a)
    \/ ReadPrepared(a)
    \/ BeginCommit(a)
    \/ FinishCommit(a)
    \/ RollBack(a)
    \/ Respond(a)
    \/ TimeOut(a)
    \/ Abort(a)

Next ==
    \/ Start
    \/ \E r \in Runs : RunStep(r)
    \/ Register
    \/ Reconcile
    \/ \E a \in Attempts : Attempt(a)

Spec == Init /\ [][Next]_vars

-----------------------------------------------------------------------------
(* Properties.                                                             *)

RowTypes ==
    /\ mission \in [status: MissionStatus, stage: MissionStage]
    /\ owner \in 0..MaxRuns
    /\ rowLock \in [by: {"none", "start", "reconcile", "attempt"}, run: 0..MaxRuns,
                    who: Attempts \cup {None}]
TemporalTypes ==
    /\ latest \in 0..MaxRuns
    /\ run \in [Runs -> [status: RunStatus, first: Runs, reset: BOOLEAN]]
    /\ served \subseteq Runs
    /\ recovered \subseteq Runs
    /\ registering \in 0..MaxRuns
AttemptTypes ==
    /\ pc \in [Attempts -> ControlPoints]
    /\ call \in [Attempts -> Calls \cup {NoCall}]
    /\ local \in [Attempts -> Attempts \cup {None}]
    /\ answer \in [Attempts -> Attempts \cup {None}]
    /\ error \in [Attempts -> Errors]
    /\ timedOut \subseteq Attempts
    /\ aborted \subseteq Attempts
StoreTypes ==
    /\ record \in [Slots -> Entries \cup {NoEntry}]
    /\ cache \in [Slots -> Entries \cup {NoEntry}]
    /\ effects \in [Slots -> SUBSET Attempts]

\* The shape of the database rows, of the runs and of the attempts.
\* Every variable keeps its type, whatever the order of the steps.
TypeOK == RowTypes /\ TemporalTypes /\ AttemptTypes /\ StoreTypes

\* docs/workflows.md:45, "a retry returns the existing result for the same
\* key": two attempts at one business step, of whatever run, in whatever order
\* and however late, never both commit their work, not even the same work.
ExactlyOneEffect ==
    [][\A a \in Attempts : pc[a] = "working" /\ pc'[a] = "answered" =>
            effects[call[a].slot] = {}]_vars

\* ... and every attempt that is answered is told the value that was written,
\* for the very payload it sent.
SameAnswer ==
    \A a \in Attempts : pc[a] \in {"answered", "done"} =>
        /\ record[call[a].slot] = [payload |-> call[a].payload, value |-> answer[a]]
        /\ effects[call[a].slot] = {answer[a]}

\* The result a prepared step commits is the first one that was cached, also
\* when attempts that were given up on computed others meanwhile.
CommittedWasPrepared ==
    \A a \in Attempts : pc[a] \in {"answered", "done"} /\ Info(a).kind = "prepared" =>
        cache[call[a].slot].value = answer[a]

\* assertExecutionOwner: what a fenced attempt writes is written while the run
\* it acts for is still the owner, though the check came before the work.
OnlyOwnerCommits ==
    [][\A a \in Attempts : pc[a] = "working" /\ pc'[a] = "answered" =>
            call[a].level = "independent" \/ owner = call[a].claim]_vars

\* An activity that commits late never gives a closed mission another status.
LateActivityNeverRevives ==
    [][mission.status \in Terminal /\ mission'.status # mission.status => owner' # owner]_vars

\* apps/worker/src/activities.ts:114, "A stale closed execution must never
\* terminate a newer run of this Mission", for the newer runs that the start
\* command and Continue As New create: what a reconciliation closes is a mission
\* whose current run is closed, unless a reset came in between.
ReconcileSparesNewerRun ==
    [][rowLock.by = "reconcile" /\ mission' # mission =>
         \/ latest = rowLock.run /\ run[latest].status \in ClosedStatus
         \/ \E q \in Runs : q > rowLock.run /\ run[q].reset]_vars

\* The steps of the mission: its idempotency records make them exactly-once.
Abstract == INSTANCE ExactlyOnce WITH
    Requests <- Attempts, Steps <- Slots, Values <- Attempts, NoStep <- NoCall.slot,
    step <- [a \in Attempts |-> call[a].slot], effect <- effects, reply <- answer
ImplementsExactlyOnce == Abstract!Spec

\* The timer of apps/worker/src/main.ts retries reconciliation every 15 s; a
\* transaction that holds the row ends, if only because its connection drops.
FairSpec ==
    /\ Spec
    /\ WF_vars(\E r \in Runs : ReconcileDescribe(r))
    /\ WF_vars(ReconcileCommit)
    /\ WF_vars(StartCommit \/ StartRollback)
    /\ \A a \in Attempts : WF_vars(FinishCommit(a) \/ RollBack(a))

\* A mission whose workflow has closed does not stay running: it becomes
\* terminal, unless a new run takes over.
ClosedMissionSettles ==
    (\E r \in Runs : r = latest /\ run[r].status \in ClosedStatus) ~>
        (mission.status \in Terminal \/ \E r \in Runs : r = latest /\ run[r].status = "RUNNING")

-----------------------------------------------------------------------------
(* What the documents and comments say and the code does not do.           *)

\* docs/workflows.md:45, "histories use Continue As New with restored state":
\* the run that continues the mission's workflow can go on working.
ContinuedRunCanWork ==
    \A a \in Attempts : error[a] = "ACTIVITY_STALE_OWNER" /\ call[a].level = "mission" =>
        LET r == call[a].run IN ~(r = latest /\ run[r].first # r /\ ~run[r].reset)

\* docs/architecture.md, "exhaustion moves the Mission to budget review".
ExhaustionMovesToReview ==
    [][\A a \in Attempts : error'[a] = "MISSION_BUDGET_EXHAUSTED" /\ error[a] = "none" =>
            mission'.stage = "awaiting_budget_review"]_vars

\* apps/worker/src/activities.ts:114, for every newer run, a reset one too.
ReconcileSparesEveryNewerRun ==
    [][rowLock.by = "reconcile" /\ mission' # mission =>
            run[latest].status \in ClosedStatus]_vars

=============================================================================
