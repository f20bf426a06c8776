-------------------------- MODULE OutboxProjector --------------------------
(***************************************************************************)
(* The events of one mission on their way from the transaction that        *)
(* appends them to the read models: packages/database/src/events.ts        *)
(* (domain_events and outbox_events), the SQL function claim_outbox_batch, *)
(* and the Projector of apps/projector/src/projector.ts.                   *)
(*                                                                         *)
(* An event stands for the change of the mission's rows its transaction    *)
(* made, so a read of those rows is the set of the events committed when   *)
(* the reading statement began.  A projection transaction is several       *)
(* statements, each with a snapshot of its own (read committed); the row   *)
(* of the dashboard it upserts stays locked until it ends.                 *)
(***************************************************************************)
EXTENDS Naturals, FiniteSets

CONSTANTS Events,       \* a set of naturals, in the order of occurred_at
          Silent,       \* those whose payload names no mission
          Projectors,   \* the projector processes
          BatchSize,    \* rows one claim may lease (50 in the code)
          MaxAttempts,  \* attempts after which a failure is final (10)
          MaxCrashes,   \* bound: crashes of projector processes, lost answers
          None          \* "no value"

ASSUME EventsAssumption == Events \subseteq Nat /\ Silent \subseteq Events
ASSUME BatchAssumption == BatchSize \in Nat \ {0}
ASSUME AttemptsAssumption == MaxAttempts \in Nat \ {0} /\ MaxCrashes \in Nat
ASSUME NoneAssumption == None \notin Projectors /\ None \notin Events

VARIABLES
    status,       \* outbox_events.status, "absent" before the event commits
    attempts,     \* outbox_events.attempts, counted up to MaxAttempts
    leased,       \* events whose lease_expires_at is in the future
    due,          \* events whose next_attempt_at has passed
    timeline,     \* timeline_read_model: its event_ids
    dashboard,    \* mission_dashboard_read_model: the changes it shows
    progress,     \* mission_progress_read_model: the changes it shows
    notified,     \* events sent with pg_notify on mission_events
    rowLock,      \* who holds the mission's dashboard row
    pc,           \* per projector: control point
    batch,        \* per projector: claimed rows still to process
    current,      \* per projector: the row being processed
    seen,         \* per projector: what the dashboard SELECT returned
    fresh,        \* per projector: what the progress SELECT returned
    crashes

outboxVars == <<status, attempts, leased, due>>
readVars == <<timeline, dashboard, progress, notified>>
processVars == <<pc, batch, current, seen, fresh>>
vars == <<outboxVars, readVars, rowLock, processVars, crashes>>

Statuses == {"absent", "pending", "processing", "published", "failed"}

\* Control points: idle is the loop between two claims, next the loop over a
\* batch; dashboard, write, progress and commit are inside the transaction.
InTransaction == {"dashboard", "write", "progress", "commit"}
ControlPoints == {"idle", "next", "notify", "record"} \cup InTransaction

TypeOK ==
    /\ status \in [Events -> Statuses]
    /\ attempts \in [Events -> 0..MaxAttempts]
    /\ leased \subseteq Events /\ due \subseteq Events
    /\ timeline \subseteq Events /\ notified \subseteq Events
    /\ dashboard \subseteq Events /\ progress \subseteq Events
    /\ rowLock \in Projectors \cup {None}
    /\ pc \in [Projectors -> ControlPoints]
    /\ batch \in [Projectors -> SUBSET Events]
    /\ current \in [Projectors -> Events \cup {None}]
    /\ seen \in [Projectors -> SUBSET Events]
    /\ fresh \in [Projectors -> SUBSET Events]
    /\ crashes \in 0..MaxCrashes
    /\ \A p \in Projectors : current[p] = None <=> pc[p] \in {"idle", "next"}

Init ==
    /\ status = [e \in Events |-> "absent"]
    /\ attempts = [e \in Events |-> 0]
    /\ leased = {} /\ due = {}
    /\ timeline = {} /\ dashboard = {} /\ progress = {} /\ notified = {}
    /\ rowLock = None
    /\ pc = [p \in Projectors |-> "idle"]
    /\ batch = [p \in Projectors |-> {}]
    /\ current = [p \in Projectors |-> None]
    /\ seen = [p \in Projectors |-> {}]
    /\ fresh = [p \in Projectors |-> {}]
    /\ crashes = 0

-----------------------------------------------------------------------------
\* The command side.

Committed == {e \in Events : status[e] # "absent"}

\* A transaction that changes the mission's rows commits, with its event and
\* the event's outbox row.  The order of commits is not that of occurred_at,
\* which is when the transaction began.
AppendEvent(e) ==
    /\ status[e] = "absent"
    /\ status' = [status EXCEPT ![e] = "pending"]
    /\ due' = due \cup {e}
    /\ UNCHANGED <<attempts, leased, readVars, rowLock, processVars, crashes>>

-----------------------------------------------------------------------------
\* One projector.

\* Mutant: rows whose lease has run out are not taken back.
OnlyPending == {e \in due : status[e] = "pending"}

\* What claim_outbox_batch may lease.
Claimable ==
    {e \in due : \/ status[e] = "pending"
                 \/ status[e] = "processing" /\ e \notin leased}

\* The loop over the batch has no row at hand.
Cleared(p) == [current EXCEPT ![p] = None]

\* The first BatchSize of the claimable rows, by created_at.
Oldest(rows) ==
    /\ Cardinality(rows) <= BatchSize
    /\ Cardinality(rows) = BatchSize \/ rows = Claimable
    /\ \A e \in rows, f \in Claimable \ rows : e < f

Claim(p) == \E rows \in SUBSET Claimable :
    /\ pc[p] = "idle"
    /\ rows # {}
    /\ Oldest(rows)
    /\ status' = [e \in Events |-> IF e \in rows THEN "processing" ELSE status[e]]
    /\ attempts' = [e \in Events |->
                       IF e \in rows /\ attempts[e] < MaxAttempts
                       THEN attempts[e] + 1 ELSE attempts[e]]
    /\ leased' = leased \cup rows
    /\ batch' = [batch EXCEPT ![p] = rows]
    /\ pc' = [pc EXCEPT ![p] = "next"]
    /\ UNCHANGED <<due, readVars, rowLock, current, seen, fresh, crashes>>

\* The transaction of the next row begins.  An event that names a mission is
\* inserted into the timeline, which waits for another projector's insert of
\* the same event to commit or roll back.
Open(p) == \E e \in batch[p] :
    /\ pc[p] = "next"
    /\ \A f \in batch[p] : e <= f
    /\ \/ e \in timeline \cup Silent
       \/ \A q \in Projectors : ~(current[q] = e /\ pc[q] \in InTransaction)
    /\ current' = [current EXCEPT ![p] = e]
    /\ batch' = [batch EXCEPT ![p] = @ \ {e}]
    /\ pc' = [pc EXCEPT ![p] = IF e \in Silent THEN "commit" ELSE "dashboard"]
    /\ UNCHANGED <<outboxVars, readVars, rowLock, seen, fresh, crashes>>

Polls(p) == /\ pc[p] = "next" /\ batch[p] = {}
            /\ pc' = [pc EXCEPT ![p] = "idle"]
            /\ UNCHANGED <<outboxVars, readVars, rowLock, batch, current,
                           seen, fresh, crashes>>

\* Mutant: the dashboard query's answer is kept for the next event.
CachedSnapshot(p) == IF seen[p] = {} THEN Committed ELSE seen[p]

\* What a statement that starts now reads.
Snapshot(p) == Committed

\* INSERT ... SELECT ... ON CONFLICT DO UPDATE: the snapshot is taken first,
\* then the statement waits for the row.
ReadDashboard(p) ==
    /\ pc[p] = "dashboard"
    /\ seen' = [seen EXCEPT ![p] = Snapshot(p)]
    /\ pc' = [pc EXCEPT ![p] = "write"]
    /\ UNCHANGED <<outboxVars, readVars, rowLock, batch, current, fresh, crashes>>

\* Mutant: the upsert does not hold the row.
RowNeverLocked == TRUE

RowFree == rowLock = None

WriteDashboard(p) ==
    /\ pc[p] = "write"
    /\ RowFree
    /\ rowLock' = p
    /\ pc' = [pc EXCEPT ![p] = "progress"]
    /\ UNCHANGED <<outboxVars, readVars, batch, current, seen, fresh, crashes>>

\* Mutant: the event is announced before its transaction commits.
NotifyFirst(p) ==
    /\ pc[p] = "progress"
    /\ fresh' = [fresh EXCEPT ![p] = Committed]
    /\ notified' = notified \cup {current[p]}
    /\ pc' = [pc EXCEPT ![p] = "commit"]
    /\ UNCHANGED <<outboxVars, timeline, dashboard, progress,
                   rowLock, batch, current, seen, crashes>>

\* The SELECT of the progress row's values; its upsert and the runs' upserts
\* follow without another read of the mission.
ReadProgress(p) ==
    /\ pc[p] = "progress"
    /\ fresh' = [fresh EXCEPT ![p] = Committed]
    /\ pc' = [pc EXCEPT ![p] = "commit"]
    /\ UNCHANGED <<outboxVars, readVars, rowLock, batch, current, seen, crashes>>

Unlocked(p) == IF rowLock = p THEN None ELSE rowLock

\* Mutant: the progress row repeats what the dashboard statement read.
ShowsSeen(p) ==
    IF current[p] \in Silent
    THEN UNCHANGED <<timeline, dashboard, progress>>
    ELSE /\ timeline' = timeline \cup {current[p]}
         /\ dashboard' = seen[p]
         /\ progress' = seen[p]

\* What a committed projection of current[p] adds to the read models.
Shows(p) ==
    IF current[p] \in Silent
    THEN UNCHANGED <<timeline, dashboard, progress>>
    ELSE /\ timeline' = timeline \cup {current[p]}
         /\ dashboard' = seen[p]
         /\ progress' = fresh[p]

\* The checkpoint and the outbox row are the last writes.  Only an event that
\* names a mission is announced.
Commit(p) ==
    /\ pc[p] = "commit"
    /\ Shows(p)
    /\ status' = [status EXCEPT ![current[p]] = "published"]
    /\ leased' = leased \ {current[p]}
    /\ rowLock' = Unlocked(p)
    /\ IF current[p] \in Silent
       THEN /\ pc' = [pc EXCEPT ![p] = "next"]
            /\ current' = Cleared(p)
       ELSE /\ pc' = [pc EXCEPT ![p] = "notify"]
            /\ UNCHANGED current
    /\ UNCHANGED <<attempts, due, notified, batch, seen, fresh, crashes>>

Notify(p) ==
    /\ pc[p] = "notify"
    /\ notified' = notified \cup {current[p]}
    /\ pc' = [pc EXCEPT ![p] = "next"]
    /\ current' = Cleared(p)
    /\ UNCHANGED <<outboxVars, timeline, dashboard, progress,
                   rowLock, batch, seen, fresh, crashes>>

\* The event is announced, but the answer is lost: to the projector this is a
\* failure like any other.
LoseAnswer(p) ==
    /\ pc[p] = "notify"
    /\ crashes < MaxCrashes
    /\ crashes' = crashes + 1
    /\ notified' = notified \cup {current[p]}
    /\ pc' = [pc EXCEPT ![p] = "record"]
    /\ UNCHANGED <<outboxVars, timeline, dashboard, progress,
                   rowLock, batch, current, seen, fresh>>

Announce(p) == Notify(p) \/ LoseAnswer(p)

\* A statement fails and the transaction rolls back, or the commit's answer or
\* the notification is lost after the transaction committed.
Fail(p) ==
    /\ pc[p] \in InTransaction \cup {"notify"}
    /\ rowLock' = Unlocked(p)
    /\ pc' = [pc EXCEPT ![p] = "record"]
    /\ UNCHANGED <<outboxVars, readVars, batch, current, seen, fresh, crashes>>

\* recordFailure: whatever the row's status is by now.
RecordFailure(p) ==
    /\ pc[p] = "record"
    /\ status' = [status EXCEPT ![current[p]] =
                     IF attempts[current[p]] >= MaxAttempts THEN "failed" ELSE "pending"]
    /\ leased' = leased \ {current[p]}
    /\ due' = due \ {current[p]}
    /\ pc' = [pc EXCEPT ![p] = "next"]
    /\ current' = Cleared(p)
    /\ UNCHANGED <<attempts, readVars, rowLock, batch, seen, fresh, crashes>>

\* The process ends at any point but between two claims (SIGTERM closes the
\* client under a running batch; a failure of recordFailure is not caught) and
\* starts again.  Its transaction rolls back; its leases stay.
Crash(p) ==
    /\ pc[p] # "idle"
    /\ crashes < MaxCrashes
    /\ crashes' = crashes + 1
    /\ rowLock' = Unlocked(p)
    /\ pc' = [pc EXCEPT ![p] = "idle"]
    /\ batch' = [batch EXCEPT ![p] = {}]
    /\ current' = Cleared(p)
    /\ seen' = [seen EXCEPT ![p] = {}]
    /\ fresh' = [fresh EXCEPT ![p] = {}]
    /\ UNCHANGED <<outboxVars, readVars>>

-----------------------------------------------------------------------------
\* The passing of time.

ExpireLease(e) ==
    /\ e \in leased
    /\ leased' = leased \ {e}
    /\ UNCHANGED <<status, attempts, due, readVars, rowLock, processVars, crashes>>

BecomeDue(e) ==
    /\ status[e] # "absent" /\ e \notin due
    /\ due' = due \cup {e}
    /\ UNCHANGED <<status, attempts, leased, readVars, rowLock, processVars, crashes>>

-----------------------------------------------------------------------------
Project(p) ==
    \/ Claim(p) \/ Open(p) \/ Polls(p)
    \/ ReadDashboard(p) \/ WriteDashboard(p) \/ ReadProgress(p)
    \/ Commit(p) \/ Notify(p) \/ RecordFailure(p)

Next ==
    \/ \E e \in Events : AppendEvent(e) \/ ExpireLease(e) \/ BecomeDue(e)
    \/ \E p \in Projectors : Project(p) \/ LoseAnswer(p) \/ Fail(p) \/ Crash(p)

Spec == Init /\ [][Next]_vars

\* A projector process keeps running its loop (it is restarted when it ends)
\* and time passes.  Nothing makes a command commit, and failures and crashes
\* need not happen.
FairSpec ==
    /\ Spec
    /\ \A p \in Projectors : WF_vars(Project(p))
    /\ \A e \in Events : WF_vars(ExpireLease(e)) /\ WF_vars(BecomeDue(e))

-----------------------------------------------------------------------------
\* Properties.

\* An event whose outbox row is published is in the timeline and the progress
\* row shows the change it stands for, however many projectors run, crash and
\* project the event again (Projector.process, Projector.project).
PublishedIsShown ==
    \A e \in Events \ Silent :
        status[e] = "published" => e \in timeline /\ e \in progress

\* With one consumer the dashboard shows every published event too.  It does
\* not with two: the SELECT of its upsert reads before the upsert waits for
\* the row, and then overwrites a newer dashboard.
DashboardIsCurrent ==
    \A e \in Events \ Silent : status[e] = "published" => e \in dashboard

\* The progress row never loses a change it showed, although events are
\* projected late, twice and out of order: its values are read while the
\* dashboard's row is locked.
ProgressNeverRegresses == [][progress \subseteq progress']_vars

\* When the web client hears of an event and fetches the read models again,
\* with one consumer they all show it: pg_notify follows the commit.
NotifiedIsVisible ==
    notified \subseteq (timeline \cap dashboard \cap progress)

\* A committed event ends published, or failed after its last attempt, and
\* stays so: no lost lease, crash or failure leaves it in the outbox forever.
EventsSettle ==
    \A e \in Events :
        status[e] # "absent" ~> [](status[e] \in {"published", "failed"})

-----------------------------------------------------------------------------
(* The read models as their readers see them.                               *)
ReadModel == [timeline |-> timeline, dashboard |-> dashboard, progress |-> progress]
Lasting == {"timeline", "progress"}
All == {"timeline", "dashboard", "progress"}

Shared == INSTANCE ReadModels WITH
    Models <- Lasting, shown <- [m \in Lasting |-> ReadModel[m]],
    recorded <- Committed, told <- notified

\* Any number of projectors together keep the promise of ReadModels with the
\* timeline and the progress row: neither loses what it showed nor shows what
\* has not committed, and pg_notify comes after both show the event.
ImplementsReadModels == Shared!Spec

Single == INSTANCE ReadModels WITH
    Models <- All, shown <- [m \in All |-> ReadModel[m]],
    recorded <- Committed, told <- notified

\* One projector keeps it with the dashboard, too.
ImplementsAllReadModels == Single!Spec
=============================================================================
