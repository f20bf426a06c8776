--------------------------- MODULE ActiveMission ---------------------------
(***************************************************************************)
(* A mission from its activation on: users pause, resume and complete it   *)
(* and ask for refreshes, its workflow serves them, a weekly schedule      *)
(* starts refreshes of its own, and what they find ends in versions of one *)
(* refresh proposal.  At the end the workflow closes and a timer settles   *)
(* the row.                                                                *)
(*                                                                         *)
(* A user's command reads the row, signals the workflow and writes the row *)
(* in three steps.  The activities of a refresh are transactions that hold *)
(* the mission's row from their first read to their commit; each can fail, *)
(* or commit and lose its answer, and is tried again.  What an activity    *)
(* committed it answers again from its idempotency record.  Attempts that  *)
(* outlive their timeout, owners and newer runs are in ActivityExecution,  *)
(* budgets and Continue As New in MissionWorkflow.                         *)
(***************************************************************************)
EXTENDS Naturals, Sequences, FiniteSets

CONSTANTS Users,
          Requests,      \* ids of refreshes users ask for
          Weeks,         \* refreshes the weekly schedule starts
          Sources,
          Contents,      \* what a source's page can say
          Original,      \* what it said when it was first stored
          MaxAttempts,   \* attempts at an activity of a refresh, 5 in the code
          MaxFaults,     \* bound: attempts that fail or are not answered
          None

ASSUME ActiveMissionAssumption ==
    /\ Original \in Contents /\ MaxAttempts \in Nat \ {0} /\ MaxFaults \in Nat
    /\ Requests \cap Weeks = {}
    /\ None \notin Requests \cup Weeks
    /\ {"scope", "proposal"} \cap Sources = {}
    /\ {"idle", "pausing", "held", "resuming", "completing"} \cap Requests = {}

VARIABLES
    row,        \* missions.status
    mission,    \* the workflow
    user,       \* the command each user has in flight
    snapshots,  \* stored contents of sources
    refresh,    \* the refresh workflows
    open,       \* transactions of their activities
    records,    \* their idempotency records
    versions,   \* of the refresh proposal
    faults

database == <<snapshots, open, records, versions>>
vars == <<row, mission, user, refresh, database, faults>>

Refreshes == Requests \cup Weeks
Terminal == {"completed", "failed"}
Stored == [source : Sources, content : Contents, by : Refreshes \cup {None}]
Parts == {"scope", "proposal"} \cup Sources

Idle == [command |-> "none", step |-> "none"]
Unasked == [at |-> "none", todo |-> {}, found |-> {}, tries |-> [p \in Parts |-> 0]]

FirstSnapshots == {[source |-> s, content |-> Original, by |-> None] : s \in Sources}

Init ==
    /\ row = "running"
    /\ mission = [status |-> "RUNNING", at |-> "idle", paused |-> FALSE,
                  complete |-> FALSE, queue |-> <<>>]
    /\ user = [u \in Users |-> Idle]
    /\ snapshots = FirstSnapshots
    /\ refresh = [r \in Refreshes |-> Unasked]
    /\ open = {} /\ records = {}
    /\ versions = <<>> /\ faults = 0

\* Commands and activities that write the mission wait for its row.
RowNeverLocked == TRUE   \* mutant: no select ... for update
RowFree == open = {}

-----------------------------------------------------------------------------
(* Commands. *)

Running == mission.status = "RUNNING"

Expects(command) == IF command = "pause" THEN "running" ELSE "paused"

ReadMission(u) ==
    \E command \in {"pause", "resume"} :
        /\ user[u] = Idle
        /\ row = Expects(command)
        /\ user' = [user EXCEPT ![u] = [command |-> command, step |-> "send"]]
        /\ UNCHANGED <<row, mission, refresh, database, faults>>

\* The signal fails once the workflow has closed, and the command with it.
Send(u) ==
    /\ user[u].step = "send"
    /\ IF Running
       THEN /\ mission' = [mission EXCEPT !.paused = (user[u].command = "pause")]
            /\ user' = [user EXCEPT ![u].step = "write"]
       ELSE UNCHANGED mission /\ user' = [user EXCEPT ![u] = Idle]
    /\ UNCHANGED <<row, refresh, database, faults>>

\* By id, whatever the status is by now.
WriteMission(u) ==
    /\ user[u].step = "write" /\ RowFree
    /\ row' = IF user[u].command = "pause" THEN "paused" ELSE "running"
    /\ user' = [user EXCEPT ![u] = Idle]
    /\ UNCHANGED <<mission, refresh, database, faults>>

\* Reads the row, and signals; an action card of an active mission is approved.
CompleteMission ==
    /\ Running /\ row \in {"running", "paused"} /\ ~mission.complete
    /\ mission' = [mission EXCEPT !.complete = TRUE]
    /\ UNCHANGED <<row, user, refresh, database, faults>>

\* A refresh is only signalled; so is more research on a proposal or contacts.
RequestRefresh(r) ==
    /\ Running /\ refresh[r] = Unasked
    /\ refresh' = [refresh EXCEPT ![r].at = "queued"]
    /\ mission' = [mission EXCEPT !.queue = Append(@, r)]
    /\ UNCHANGED <<row, user, database, faults>>

-----------------------------------------------------------------------------
(* The mission's workflow. *)

WakesDeaf == mission.complete \/ mission.paused   \* mutant: forgets the queue
Wakes == mission.complete \/ mission.paused \/ mission.queue # <<>>

\* Where it goes on when nothing, or no longer anything, holds it: first all
\* requests, even after one to complete.
Drained(m) ==
    IF m.queue # <<>> THEN [m EXCEPT !.at = Head(m.queue), !.queue = Tail(m.queue)]
    ELSE [m EXCEPT !.at = IF m.complete THEN "completing" ELSE "idle"]

\* It starts the refresh whose result it waits for.
Goes(m) ==
    /\ mission' = m
    /\ refresh' = IF m.at \in Requests THEN [refresh EXCEPT ![m.at].at = "scope"] ELSE refresh

Wake ==
    /\ Running /\ mission.at = "idle" /\ Wakes
    /\ Goes(IF mission.paused THEN [mission EXCEPT !.at = "pausing"] ELSE Drained(mission))
    /\ UNCHANGED <<row, user, database, faults>>

WakeHeld ==
    /\ Running /\ mission.at = "held" /\ (mission.complete \/ ~mission.paused)
    /\ Goes(IF mission.complete THEN Drained(mission) ELSE [mission EXCEPT !.at = "resuming"])
    /\ UNCHANGED <<row, user, database, faults>>

RefreshReturns ==
    /\ Running /\ mission.at \in Requests
    /\ \/ refresh[mission.at].at = "done" /\ Goes(Drained(mission))
       \/ /\ refresh[mission.at].at = "failed"
          /\ mission' = [mission EXCEPT !.status = "FAILED"] /\ UNCHANGED refresh
    /\ UNCHANGED <<row, user, database, faults>>

\* setMissionPaused, markMissionCompleted: never tried again, and refused when
\* the row is terminal, which it is only after the workflow has closed.
StatusOf(at) == CASE at = "pausing" -> "paused" [] at = "resuming" -> "running"
                  [] at = "completing" -> "completed"

UpdateMissionState ==
    /\ Running /\ mission.at \in {"pausing", "resuming", "completing"} /\ RowFree
    /\ row \notin Terminal
    /\ row' = StatusOf(mission.at)
    /\ \/ /\ Goes(CASE mission.at = "pausing" -> [mission EXCEPT !.at = "held"]
                    [] mission.at = "resuming" -> Drained(mission)
                    [] mission.at = "completing" -> [mission EXCEPT !.status = "COMPLETED"])
          /\ UNCHANGED faults
       \/ /\ faults < MaxFaults /\ faults' = faults + 1   \* its answer is lost
          /\ mission' = [mission EXCEPT !.status = "FAILED"] /\ UNCHANGED refresh
    /\ UNCHANGED <<user, database>>

\* An activity fails, or somebody terminates the workflow; a refresh it waits
\* for is terminated with it.
MissionFails ==
    /\ Running
    /\ faults < MaxFaults /\ faults' = faults + 1
    /\ mission' = [mission EXCEPT !.status = "FAILED"]
    /\ refresh' = IF mission.at \in Requests /\ refresh[mission.at].at # "done"
                  THEN [refresh EXCEPT ![mission.at].at = "failed"] ELSE refresh
    /\ UNCHANGED <<row, user, database>>

\* reconcileTimer, for the closed workflow of a row that is not terminal.
UnsettledRunning == row = "running"   \* mutant: a row that was paused late stays
Unsettled == row \notin Terminal

Reconcile ==
    /\ ~Running /\ Unsettled /\ RowFree
    /\ row' = IF mission.status = "COMPLETED" THEN "completed" ELSE "failed"
    /\ UNCHANGED <<mission, user, refresh, database, faults>>

-----------------------------------------------------------------------------
(* Refreshes. *)

\* The schedule skips a week while its last refresh runs, and outlives the
\* mission.
StartWeek(r) ==
    /\ refresh[r] = Unasked
    /\ \A w \in Weeks : refresh[w].at \in {"none", "done", "failed"}
    /\ refresh' = [refresh EXCEPT ![r].at = "scope"]
    /\ UNCHANGED <<row, mission, user, database, faults>>

\* What it does next: after the scope all sources side by side, and after the
\* last of them the proposal.  What a refresh does to contacts is part of
\* Opportunity; to competitors it does nothing.
Scheduled(r) ==
    CASE refresh[r].at = "scope" -> {"scope"}
      [] refresh[r].at = "parts" /\ refresh[r].todo # {} -> refresh[r].todo
      [] refresh[r].at = "parts" /\ refresh[r].todo = {} -> {"proposal"}
      [] OTHER -> {}

NothingKnown(r, p) == {}   \* mutant: a committed activity is executed again
Known(r, p) == {k \in records : k.by = r /\ k.part = p}

\* The refresh goes on with an answer, the snapshot a source is found to have
\* changed to or nothing, unless it has ended by then.
Answered(r, p, answer) ==
    IF refresh[r].at = "failed" THEN UNCHANGED refresh
    ELSE CASE p = "scope" ->
                refresh' = [refresh EXCEPT ![r].at = "parts", ![r].todo = Sources]
           [] p = "proposal" -> refresh' = [refresh EXCEPT ![r].at = "done"]
           [] OTHER -> refresh' = [refresh EXCEPT ![r].todo = @ \ {p},
                                                  ![r].found = @ \cup answer]

\* An attempt that fails, or is not answered, is followed by another or by the
\* end of the refresh.
NotAnswered(r, p) ==
    /\ faults < MaxFaults /\ faults' = faults + 1
    /\ IF refresh[r].tries[p] + 1 < MaxAttempts
       THEN refresh' = [refresh EXCEPT ![r].tries[p] = @ + 1]
       ELSE refresh' = [refresh EXCEPT ![r].at = "failed"]

\* What an attempt reads in its transaction: what the page says, unless that is
\* stored already; the number of the last version.
\* Mutant: the page is compared with the first snapshot alone.
IsFirst(s, c) == c = Original

IsStored(s, c) == \E x \in snapshots : x.source = s /\ x.content = c
Reads(p) ==
    CASE p \in Sources -> {IF IsStored(p, c) THEN {} ELSE {c} : c \in Contents}
      [] p = "proposal" -> {{Len(versions)}}
      [] OTHER -> {{}}

Begin(r, p) ==
    /\ p \in Scheduled(r) /\ Known(r, p) = {} /\ RowFree
    /\ ~\E t \in open : t.by = r /\ t.part = p   \* the advisory lock
    /\ IF row \in Terminal
       THEN /\ refresh' = [refresh EXCEPT ![r].at = "failed"]
            /\ UNCHANGED open
       ELSE /\ \E read \in Reads(p) : open' = open \cup {[by |-> r, part |-> p, read |-> read]}
            /\ UNCHANGED refresh
    /\ UNCHANGED <<row, mission, user, snapshots, records, versions, faults>>

\* What it writes: a snapshot or the next version.
Answer(t) ==
    IF t.part \in Sources THEN {[source |-> t.part, content |-> c, by |-> t.by] : c \in t.read}
    ELSE {}
NewVersion(t) ==
    [number |-> 1 + CHOOSE n \in t.read : TRUE, by |-> t.by, lists |-> refresh[t.by].found]

Commit(t) ==
    /\ t \in open /\ open' = open \ {t}
    /\ snapshots' = snapshots \cup Answer(t)
    /\ versions' = IF t.part = "proposal" THEN Append(versions, NewVersion(t)) ELSE versions
    /\ records' = records \cup {[by |-> t.by, part |-> t.part, answer |-> Answer(t)]}
    /\ \/ Answered(t.by, t.part, Answer(t)) /\ UNCHANGED faults
       \/ NotAnswered(t.by, t.part)
    /\ UNCHANGED <<row, mission, user>>

\* A later attempt at what has been committed.
Repeat(r, p) ==
    /\ p \in Scheduled(r)
    /\ \E k \in Known(r, p) : Answered(r, p, k.answer)
    /\ UNCHANGED <<row, mission, user, database, faults>>

AttemptFails(t) ==
    /\ t \in open /\ open' = open \ {t}
    /\ NotAnswered(t.by, t.part)
    /\ UNCHANGED <<row, mission, user, snapshots, records, versions>>

-----------------------------------------------------------------------------
Command(u) == ReadMission(u) \/ Send(u) \/ WriteMission(u)
Workflow == Wake \/ WakeHeld \/ RefreshReturns \/ UpdateMissionState
Attempt(r) == \E p \in Parts : Begin(r, p) \/ Repeat(r, p)

Next ==
    \/ \E u \in Users : Command(u)
    \/ \E r \in Requests : RequestRefresh(r)
    \/ CompleteMission
    \/ Workflow \/ MissionFails \/ Reconcile
    \/ \E r \in Weeks : StartWeek(r)
    \/ \E r \in Refreshes : Attempt(r)
    \/ \E t \in open : Commit(t) \/ AttemptFails(t)

Spec == Init /\ [][Next]_vars

\* Temporal dispatches workflow tasks and activities, a request that was taken
\* is worked off, a transaction ends, and the timer goes on; users, the weekly
\* schedule do as they please.
FairSpec ==
    /\ Spec
    /\ \A u \in Users : WF_vars(Send(u)) /\ WF_vars(WriteMission(u))
    /\ WF_vars(Workflow) /\ WF_vars(Reconcile)
    /\ \A r \in Refreshes : WF_vars(Attempt(r))
    /\ WF_vars(\E t \in open : Commit(t) \/ AttemptFails(t))

-----------------------------------------------------------------------------
TypeOK ==
    /\ row \in {"running", "paused"} \cup Terminal
    /\ mission \in [status : {"RUNNING", "COMPLETED", "FAILED"},
                    at : {"idle", "pausing", "held", "resuming", "completing"} \cup Requests,
                    paused : BOOLEAN, complete : BOOLEAN, queue : Seq(Requests)]
    /\ user \in [Users -> [command : {"none", "pause", "resume"}, step : {"none", "send", "write"}]]
    /\ snapshots \subseteq Stored
    /\ refresh \in [Refreshes ->
           [at : {"none", "queued", "scope", "parts", "done", "failed"},
            todo : SUBSET Sources, found : SUBSET Stored,
            tries : [Parts -> 0 .. MaxAttempts - 1]]]
    /\ \A t \in open : t.by \in Refreshes /\ t.part \in Parts
    /\ \A k \in records : k.by \in Refreshes /\ k.part \in Parts
    /\ \A v \in DOMAIN versions :
           versions[v].by \in Refreshes /\ versions[v].lists \subseteq Stored
    /\ faults \in 0 .. MaxFaults

\* What a transaction has read still holds when it writes: the number a
\* proposal takes is the next one, and the snapshot a source changed to is not
\* stored yet, although manual and weekly refreshes of one mission run side by
\* side (idempotent's row lock; the unique indexes would refuse both).
ReadsHold ==
    \A t \in open :
        /\ t.part = "proposal" => t.read = {Len(versions)}
        /\ t.part \in Sources => \A c \in t.read : ~IsStored(t.part, c)

\* A proposal lists exactly the changes its refresh has stored, each once:
\* none is left out because an answer was lost and the attempt after it found
\* the page stored already, and there is one proposal for a refresh
\* (refreshWorkflow, createRefreshProposal).
ProposalListsChanges ==
    \A v \in DOMAIN versions :
        /\ versions[v].number = v
        /\ versions[v].lists = {x \in snapshots : x.by = versions[v].by}
        /\ \A w \in DOMAIN versions : versions[w].by = versions[v].by => w = v

Reports == INSTANCE ChangeReports WITH
    Before <- FirstSnapshots, found <- snapshots, reports <- versions

\* Taken together, the activities of all refreshes behave as if each found its
\* changes and reported on them in single steps: no content is stored twice,
\* nothing is stored for a refresh that has its proposal, and a proposal that
\* was made stays as it is (refreshSource, createRefreshProposal, idempotent).
ImplementsChangeReports == Reports!Spec

\* Once the workflow has closed the row ends terminal and stays so, although
\* commands that were signalled before write it afterwards (pauseMission,
\* resumeMission, reconcileClosedMission).
ClosedMissionEndsTerminal == ~Running ~> [](row \in Terminal)

\* A refresh that the workflow was asked for ends in a proposal, unless the
\* mission is paused or its workflow closes; and one that was started ends.
RefreshAnswered ==
    \A r \in Refreshes :
        /\ refresh[r].at = "queued" ~> refresh[r].at = "done" \/ mission.paused \/ ~Running
        /\ refresh[r].at = "scope" ~> refresh[r].at \in {"done", "failed"}
=============================================================================
