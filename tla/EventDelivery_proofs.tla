------------------------ MODULE EventDelivery_proofs ------------------------
(***************************************************************************)
(* Theorems of OutboxProjector and of EventDelivery, which adds the API    *)
(* process and the page to it: for any events, projectors, batch size,     *)
(* number of attempts and size of the buffer.                              *)
(*                                                                         *)
(* The progress row shows every published event because a projector that   *)
(* is about to write it has read it under the lock of the dashboard's row, *)
(* so what it read holds everything shown so far.  The dashboard does only *)
(* while there is one projector.  The page is told of all it is owed       *)
(* because the buffer keeps the order of the announcements: what followed  *)
(* the page's id follows it until the id itself is displaced, and then the *)
(* page is told to start over.  An event that is announced twice breaks    *)
(* this order, so what a page may miss by its id is set apart.             *)
(***************************************************************************)
EXTENDS EventDelivery, SequenceTheorems, WellFoundedInduction, TLAPS

\* p's transaction has upserted the dashboard and holds its row.
Writing(p) ==
    \/ pc[p] = "progress"
    \/ pc[p] = "commit" /\ current[p] \notin Silent

RowInv == \A p \in Projectors : Writing(p) <=> rowLock = p

\* A claimed row is that of a committed event, and only an event that names a
\* mission reaches the dashboard.
ClaimInv ==
    \A p \in Projectors :
        /\ batch[p] \subseteq Committed
        /\ current[p] # None => current[p] \in Committed
        /\ pc[p] \in {"dashboard", "write", "progress", "notify"} =>
               current[p] \notin Silent

\* What a projector is about to write to the progress row holds what the row
\* shows, and the event.
FreshInv ==
    \A p \in Projectors :
        pc[p] = "commit" /\ current[p] \notin Silent =>
            /\ progress \subseteq fresh[p] /\ current[p] \in fresh[p]
            /\ fresh[p] \subseteq Committed

ShownInv == progress \subseteq Committed /\ PublishedIsShown

IInv == TypeOK /\ RowInv /\ ClaimInv /\ FreshInv /\ ShownInv

-----------------------------------------------------------------------------
THEOREM InitInv == Init => IInv
<1> SUFFICES ASSUME Init PROVE IInv
  OBVIOUS
<1>1. TypeOK
  BY AttemptsAssumption DEF Init, TypeOK, Statuses, ControlPoints
<1>2. RowInv
  BY NoneAssumption DEF Init, RowInv, Writing
<1>3. ClaimInv /\ FreshInv /\ ShownInv
  BY DEF Init, ClaimInv, FreshInv, ShownInv, PublishedIsShown
<1> QED
  BY <1>1, <1>2, <1>3 DEF IInv

LEMMA AppendInv == ASSUME IInv, NEW e \in Events, AppendEvent(e) PROVE IInv'
<1> USE DEF IInv, AppendEvent, readVars, processVars
<1>1. TypeOK'
  BY DEF TypeOK, Statuses
<1>2. Committed \subseteq Committed'
  BY DEF TypeOK, Committed
<1>3. RowInv' /\ ClaimInv' /\ FreshInv'
  BY <1>2 DEF RowInv, Writing, ClaimInv, FreshInv
<1>4. ShownInv'
  BY <1>2 DEF TypeOK, ShownInv, PublishedIsShown
<1> QED
  BY <1>1, <1>3, <1>4

\* Time changes neither a status nor a read model.
LEMMA TimeInv ==
    ASSUME IInv, NEW e \in Events, ExpireLease(e) \/ BecomeDue(e) PROVE IInv'
<1> USE DEF IInv, ExpireLease, BecomeDue, readVars, processVars
<1>1. TypeOK'
  BY DEF TypeOK
<1>2. RowInv' /\ ClaimInv' /\ FreshInv' /\ ShownInv'
  BY DEF RowInv, Writing, ClaimInv, FreshInv, ShownInv, PublishedIsShown, Committed
<1> QED
  BY <1>1, <1>2

LEMMA ClaimStepInv == ASSUME IInv, NEW p \in Projectors, Claim(p) PROVE IInv'
<1> USE DEF IInv, readVars
<1>1. PICK rows \in SUBSET Claimable :
        /\ pc[p] = "idle"
        /\ status' = [e \in Events |-> IF e \in rows THEN "processing" ELSE status[e]]
        /\ attempts' = [e \in Events |->
                          IF e \in rows /\ attempts[e] < MaxAttempts
                          THEN attempts[e] + 1 ELSE attempts[e]]
        /\ leased' = leased \cup rows
        /\ batch' = [batch EXCEPT ![p] = rows]
        /\ pc' = [pc EXCEPT ![p] = "next"]
        /\ UNCHANGED <<due, readVars, rowLock, current, seen, fresh, crashes>>
  BY DEF Claim
<1>2. rows \subseteq Committed /\ rows \subseteq Events
  BY DEF Claimable, Committed, TypeOK
<1>3. TypeOK'
  <2>1. attempts' \in [Events -> 0..MaxAttempts]
    BY <1>1, AttemptsAssumption DEF TypeOK
  <2> QED
    BY <1>1, <1>2, <2>1 DEF TypeOK, Statuses, ControlPoints
<1>4. Committed' = Committed
  BY <1>1, <1>2 DEF Committed
<1>5. RowInv' /\ FreshInv'
  BY <1>1, <1>4 DEF RowInv, Writing, FreshInv, TypeOK
<1>6. ClaimInv'
  BY <1>1, <1>2, <1>4 DEF ClaimInv, TypeOK
<1>7. ShownInv'
  BY <1>1, <1>4 DEF ShownInv, PublishedIsShown
<1> QED
  BY <1>3, <1>5, <1>6, <1>7

\* The steps of a projector that leave the outbox and the read models alone.
LEMMA OpenInv == ASSUME IInv, NEW p \in Projectors, Open(p) PROVE IInv'
<1> USE DEF IInv, readVars, outboxVars
<1>1. PICK e \in batch[p] :
        /\ pc[p] = "next"
        /\ current' = [current EXCEPT ![p] = e]
        /\ batch' = [batch EXCEPT ![p] = @ \ {e}]
        /\ pc' = [pc EXCEPT ![p] = IF e \in Silent THEN "commit" ELSE "dashboard"]
        /\ UNCHANGED <<outboxVars, readVars, rowLock, seen, fresh, crashes>>
  BY DEF Open
<1>2. e \in Events /\ e # None
  BY NoneAssumption DEF TypeOK
<1>3. TypeOK'
  BY <1>1, <1>2 DEF TypeOK, ControlPoints, InTransaction
<1>4. RowInv' /\ FreshInv'
  BY <1>1, NoneAssumption DEF RowInv, Writing, FreshInv, ClaimInv, Committed, TypeOK
<1>5. ClaimInv'
  BY <1>1, <1>2 DEF ClaimInv, Committed, TypeOK
<1>6. ShownInv'
  BY <1>1 DEF ShownInv, PublishedIsShown, Committed
<1> QED
  BY <1>3, <1>4, <1>5, <1>6

LEMMA PollsInv == ASSUME IInv, NEW p \in Projectors, Polls(p) PROVE IInv'
<1> USE DEF IInv, Polls, readVars, outboxVars
<1>1. TypeOK'
  BY DEF TypeOK, ControlPoints
<1>2. RowInv' /\ FreshInv' /\ ClaimInv'
  BY DEF RowInv, Writing, FreshInv, ClaimInv, Committed, TypeOK
<1>3. ShownInv'
  BY DEF ShownInv, PublishedIsShown, Committed
<1> QED
  BY <1>1, <1>2, <1>3

LEMMA ReadDashboardInv ==
    ASSUME IInv, NEW p \in Projectors, ReadDashboard(p) PROVE IInv'
<1> USE DEF IInv, ReadDashboard, readVars, outboxVars
<1>1. TypeOK'
  BY DEF TypeOK, ControlPoints, InTransaction, Snapshot, Committed
<1>2. RowInv' /\ FreshInv' /\ ClaimInv'
  BY DEF RowInv, Writing, FreshInv, ClaimInv, Committed, TypeOK
<1>3. ShownInv'
  BY DEF ShownInv, PublishedIsShown, Committed
<1> QED
  BY <1>1, <1>2, <1>3

LEMMA WriteDashboardInv ==
    ASSUME IInv, NEW p \in Projectors, WriteDashboard(p) PROVE IInv'
<1> USE DEF IInv, WriteDashboard, RowFree, readVars, outboxVars
<1>1. TypeOK'
  BY DEF TypeOK, ControlPoints, InTransaction
<1>2. RowInv'
  BY NoneAssumption DEF RowInv, Writing, TypeOK
<1>3. FreshInv' /\ ClaimInv'
  BY DEF FreshInv, ClaimInv, Committed, TypeOK
<1>4. ShownInv'
  BY DEF ShownInv, PublishedIsShown, Committed
<1> QED
  BY <1>1, <1>2, <1>3, <1>4

LEMMA ReadProgressInv ==
    ASSUME IInv, NEW p \in Projectors, ReadProgress(p) PROVE IInv'
<1> USE DEF IInv, ReadProgress, readVars, outboxVars
<1>1. TypeOK'
  BY DEF TypeOK, ControlPoints, InTransaction, Committed
<1>2. RowInv' /\ ClaimInv'
  BY DEF RowInv, Writing, ClaimInv, Committed, TypeOK
<1>3. FreshInv'
  BY DEF FreshInv, ClaimInv, ShownInv, Committed, TypeOK
<1>4. ShownInv'
  BY DEF ShownInv, PublishedIsShown, Committed
<1> QED
  BY <1>1, <1>2, <1>3, <1>4

-----------------------------------------------------------------------------
LEMMA CommitInv == ASSUME IInv, NEW p \in Projectors, Commit(p) PROVE IInv'
<1> USE DEF IInv, Commit, Cleared
<1>1. current[p] \in Events /\ current[p] \in Committed
  BY DEF TypeOK, ClaimInv
<1>2. TypeOK'
  <2>1. timeline' \subseteq Events /\ dashboard' \subseteq Events /\ progress' \subseteq Events
    BY <1>1 DEF TypeOK, Shows
  <2>2. status' \in [Events -> Statuses]
    BY <1>1 DEF TypeOK, Statuses
  <2>3. rowLock' \in Projectors \cup {None}
    BY DEF TypeOK, Unlocked
  <2>4. /\ pc' \in [Projectors -> ControlPoints]
        /\ current' \in [Projectors -> Events \cup {None}]
        /\ \A q \in Projectors : current'[q] = None <=> pc'[q] \in {"idle", "next"}
    BY <1>1, NoneAssumption DEF TypeOK, ControlPoints
  <2> QED
    BY <2>1, <2>2, <2>3, <2>4 DEF TypeOK
<1>3. Committed' = Committed
  BY <1>1 DEF TypeOK, Committed
<1>4. RowInv'
  BY NoneAssumption DEF RowInv, Writing, Unlocked, TypeOK
<1>5. ClaimInv'
  BY <1>3, NoneAssumption DEF ClaimInv, TypeOK
<1>6. FreshInv'
  <2> SUFFICES ASSUME NEW q \in Projectors, pc'[q] = "commit", current'[q] \notin Silent
               PROVE /\ progress' \subseteq fresh'[q] /\ current'[q] \in fresh'[q]
                     /\ fresh'[q] \subseteq Committed'
    BY DEF FreshInv
  <2>1. q # p /\ pc[q] = "commit" /\ current[q] = current'[q] /\ fresh'[q] = fresh[q]
    BY DEF TypeOK
  <2>2. rowLock = q
    BY <2>1 DEF RowInv, Writing
  <2>3. current[p] \in Silent
    BY <2>1, <2>2 DEF RowInv, Writing
  <2> QED
    BY <1>3, <2>1, <2>3 DEF Shows, FreshInv
<1>7. ShownInv'
  <2>1. CASE current[p] \in Silent
    BY <1>1, <1>3, <2>1 DEF ShownInv, PublishedIsShown, Shows, TypeOK
  <2>2. CASE current[p] \notin Silent
    <3>1. progress \subseteq progress' /\ current[p] \in progress'
      BY <2>2 DEF FreshInv, Shows
    <3>2. progress' \subseteq Committed'
      BY <2>2, <1>3 DEF Shows, FreshInv
    <3> QED
      BY <2>2, <3>1, <3>2 DEF ShownInv, PublishedIsShown, Shows, TypeOK
  <2> QED
    BY <2>1, <2>2
<1> QED
  BY <1>2, <1>4, <1>5, <1>6, <1>7

LEMMA NotifyInv == ASSUME IInv, NEW p \in Projectors, Notify(p) PROVE IInv'
<1> USE DEF IInv, Notify, Cleared, outboxVars
<1>1. TypeOK'
  BY NoneAssumption DEF TypeOK, ControlPoints
<1>2. RowInv' /\ FreshInv' /\ ClaimInv'
  BY NoneAssumption DEF RowInv, Writing, FreshInv, ClaimInv, Committed, TypeOK
<1>3. ShownInv'
  BY DEF ShownInv, PublishedIsShown, Committed
<1> QED
  BY <1>1, <1>2, <1>3

LEMMA LoseAnswerInv ==
    ASSUME IInv, NEW p \in Projectors, LoseAnswer(p) PROVE IInv'
<1> USE DEF IInv, LoseAnswer, outboxVars
<1>1. TypeOK'
  BY AttemptsAssumption DEF TypeOK, ControlPoints
<1>2. RowInv' /\ FreshInv' /\ ClaimInv'
  BY DEF RowInv, Writing, FreshInv, ClaimInv, Committed, TypeOK
<1>3. ShownInv'
  BY DEF ShownInv, PublishedIsShown, Committed
<1> QED
  BY <1>1, <1>2, <1>3

LEMMA FailInv == ASSUME IInv, NEW p \in Projectors, Fail(p) PROVE IInv'
<1> USE DEF IInv, Fail, Unlocked, outboxVars, readVars
<1>1. TypeOK'
  BY DEF TypeOK, ControlPoints, InTransaction
<1>2. RowInv'
  BY NoneAssumption DEF RowInv, Writing, TypeOK
<1>3. FreshInv' /\ ClaimInv'
  BY DEF FreshInv, ClaimInv, Committed, TypeOK
<1>4. ShownInv'
  BY DEF ShownInv, PublishedIsShown, Committed
<1> QED
  BY <1>1, <1>2, <1>3, <1>4

LEMMA RecordFailureInv ==
    ASSUME IInv, NEW p \in Projectors, RecordFailure(p) PROVE IInv'
<1> USE DEF IInv, RecordFailure, Cleared, readVars
<1>1. current[p] \in Events /\ current[p] \in Committed
  BY DEF TypeOK, ClaimInv
<1>2. TypeOK'
  BY <1>1, NoneAssumption DEF TypeOK, ControlPoints, Statuses
<1>3. Committed' = Committed
  BY <1>1 DEF TypeOK, Committed
<1>4. RowInv'
  BY NoneAssumption DEF RowInv, Writing, TypeOK
<1>5. FreshInv' /\ ClaimInv'
  BY <1>3, NoneAssumption DEF FreshInv, ClaimInv, TypeOK
<1>6. ShownInv'
  BY <1>1, <1>3 DEF ShownInv, PublishedIsShown, TypeOK
<1> QED
  BY <1>2, <1>4, <1>5, <1>6

LEMMA CrashInv == ASSUME IInv, NEW p \in Projectors, Crash(p) PROVE IInv'
<1> USE DEF IInv, Crash, Cleared, Unlocked, outboxVars, readVars
<1>1. TypeOK'
  BY AttemptsAssumption DEF TypeOK, ControlPoints
<1>2. RowInv'
  BY NoneAssumption DEF RowInv, Writing, TypeOK
<1>3. FreshInv' /\ ClaimInv'
  BY NoneAssumption DEF FreshInv, ClaimInv, Committed, TypeOK
<1>4. ShownInv'
  BY DEF ShownInv, PublishedIsShown, Committed
<1> QED
  BY <1>1, <1>2, <1>3, <1>4

LEMMA StutterInv == IInv /\ UNCHANGED vars => IInv'
BY DEF IInv, TypeOK, RowInv, Writing, ClaimInv, FreshInv, ShownInv, PublishedIsShown,
       Committed, vars, outboxVars, readVars, processVars

-----------------------------------------------------------------------------
\* IInv holds in every state the projectors, the commands and time can reach.
THEOREM Invariance == Spec => []IInv
<1>1. IInv /\ [Next]_vars => IInv'
  <2> SUFFICES ASSUME IInv, [Next]_vars PROVE IInv'
    OBVIOUS
  <2>1. CASE \E e \in Events : AppendEvent(e) \/ ExpireLease(e) \/ BecomeDue(e)
    BY <2>1, AppendInv, TimeInv
  <2>2. ASSUME NEW p \in Projectors, Project(p) PROVE IInv'
    BY <2>2, ClaimStepInv, OpenInv, PollsInv, ReadDashboardInv, WriteDashboardInv,
       ReadProgressInv, CommitInv, NotifyInv, RecordFailureInv DEF Project
  <2>3. CASE \E p \in Projectors : LoseAnswer(p) \/ Fail(p) \/ Crash(p)
    BY <2>3, LoseAnswerInv, FailInv, CrashInv
  <2>4. CASE UNCHANGED vars
    BY <2>4, StutterInv
  <2> QED
    BY <2>1, <2>2, <2>3, <2>4 DEF Next
<1> QED
  BY InitInv, <1>1, PTL DEF Spec

\* Every variable keeps its type, and a projector is at a row exactly while it
\* processes one.
THEOREM TypeCorrect == Spec => []TypeOK
<1>1. IInv => TypeOK
  BY DEF IInv
<1> QED
  BY Invariance, <1>1, PTL

\* Every event whose outbox row says published is in the timeline and shown by
\* the progress row, with any number of projectors, crashes and repetitions.
THEOREM PublishedIsProjected == Spec => []PublishedIsShown
<1>1. IInv => PublishedIsShown
  BY DEF IInv, ShownInv
<1> QED
  BY Invariance, <1>1, PTL

\* The progress row never goes back to an older state of the mission.
THEOREM ProgressIsMonotone == Spec => ProgressNeverRegresses
<1>1. IInv /\ [Next]_vars => [progress \subseteq progress']_vars
  <2> SUFFICES ASSUME IInv, Next PROVE progress \subseteq progress'
    OBVIOUS
  <2>1. ASSUME NEW p \in Projectors, Commit(p) PROVE progress \subseteq progress'
    BY <2>1 DEF IInv, FreshInv, Commit, Shows
  <2>2. (\A p \in Projectors : ~Commit(p)) => progress' = progress
    BY DEF Next, Project, AppendEvent, ExpireLease, BecomeDue, Claim, Open, Polls,
           ReadDashboard, WriteDashboard, ReadProgress, Notify, RecordFailure,
           LoseAnswer, Fail, Crash, readVars
  <2> QED
    BY <2>1, <2>2
<1> QED
  BY Invariance, <1>1, PTL DEF Spec, ProgressNeverRegresses

-----------------------------------------------------------------------------
\* With one projector, nothing changes the dashboard between the SELECT of its
\* upsert and the commit.

OneProjector == \A p, q \in Projectors : p = q

SeenInv ==
    \A p \in Projectors :
        pc[p] \in {"write", "progress", "commit"} /\ current[p] \notin Silent =>
            /\ dashboard \subseteq seen[p] /\ current[p] \in seen[p]
            /\ seen[p] \subseteq Committed

\* The event a projector is about to announce is shown everywhere.
VisibleInv ==
    /\ dashboard \subseteq Committed
    /\ DashboardIsCurrent
    /\ NotifiedIsVisible
    /\ \A p \in Projectors :
           pc[p] = "notify" => current[p] \in timeline \cap dashboard \cap progress

AloneInv == SeenInv /\ VisibleInv

\* A committed projection shows all that was shown, and its event.
LEMMA CommitGrows ==
    ASSUME IInv, AloneInv, NEW p \in Projectors, Commit(p)
    PROVE  /\ timeline \subseteq timeline' /\ dashboard \subseteq dashboard'
           /\ progress \subseteq progress' /\ dashboard' \subseteq Committed
           /\ current[p] \notin Silent =>
                  current[p] \in timeline' \cap dashboard' \cap progress'
<1> USE DEF Commit, Shows, IInv, FreshInv, AloneInv, SeenInv, VisibleInv
<1>1. CASE current[p] \in Silent
  BY <1>1
<1>2. CASE current[p] \notin Silent
  BY <1>2
<1> QED
  BY <1>1, <1>2

LEMMA CommitAlone ==
    ASSUME OneProjector, IInv, AloneInv, NEW p \in Projectors, Commit(p)
    PROVE  AloneInv'
<1>1. current[p] \in Events /\ current[p] \in Committed
  BY DEF Commit, IInv, TypeOK, ClaimInv
<1>2. Committed' = Committed
  BY <1>1 DEF Commit, IInv, TypeOK, Committed
<1>3. pc'[p] \in {"next", "notify"} /\ (pc'[p] = "notify" =>
          current'[p] = current[p] /\ current[p] \notin Silent)
  BY DEF Commit, IInv, TypeOK
<1>4. SeenInv'
  BY <1>3 DEF SeenInv, OneProjector
<1>5. DashboardIsCurrent'
  BY <1>1, CommitGrows DEF Commit, IInv, TypeOK, AloneInv, VisibleInv, DashboardIsCurrent
<1>6. NotifiedIsVisible'
  BY CommitGrows DEF Commit, AloneInv, VisibleInv, NotifiedIsVisible
<1>7. ASSUME NEW q \in Projectors, pc'[q] = "notify"
      PROVE  current'[q] \in timeline' \cap dashboard' \cap progress'
  BY <1>3, <1>7, CommitGrows DEF OneProjector
<1> QED
  BY <1>2, <1>4, <1>5, <1>6, <1>7, CommitGrows DEF AloneInv, VisibleInv

LEMMA AloneStep == OneProjector /\ IInv /\ AloneInv /\ [Next]_vars => AloneInv'
<1> SUFFICES ASSUME OneProjector, IInv, AloneInv, [Next]_vars PROVE AloneInv'
  OBVIOUS
<1> USE DEF AloneInv, SeenInv, VisibleInv, DashboardIsCurrent, NotifiedIsVisible, Committed
<1>1. ASSUME NEW e \in Events, AppendEvent(e) PROVE AloneInv'
  BY <1>1 DEF AppendEvent, readVars, processVars, IInv, TypeOK
<1>2. ASSUME NEW e \in Events, ExpireLease(e) \/ BecomeDue(e) PROVE AloneInv'
  BY <1>2 DEF ExpireLease, BecomeDue, readVars, processVars
<1>3. ASSUME NEW p \in Projectors, Claim(p) PROVE AloneInv'
  BY <1>3 DEF Claim, Claimable, readVars, IInv, TypeOK
<1>4. ASSUME NEW p \in Projectors, Open(p) PROVE AloneInv'
  BY <1>4 DEF Open, outboxVars, readVars, IInv, TypeOK
<1>5. ASSUME NEW p \in Projectors, Polls(p) PROVE AloneInv'
  BY <1>5 DEF Polls, outboxVars, readVars, IInv, TypeOK
<1>6. ASSUME NEW p \in Projectors, ReadDashboard(p) PROVE AloneInv'
  <2>1. current[p] \in Committed
    BY <1>6 DEF ReadDashboard, IInv, TypeOK, ClaimInv
  <2> QED
    BY <1>6, <2>1 DEF ReadDashboard, Snapshot, outboxVars, readVars, IInv, TypeOK
<1>7. ASSUME NEW p \in Projectors, WriteDashboard(p) \/ ReadProgress(p) PROVE AloneInv'
  BY <1>7 DEF WriteDashboard, ReadProgress, outboxVars, readVars, IInv, TypeOK
<1>8. ASSUME NEW p \in Projectors, Commit(p) PROVE AloneInv'
  BY <1>8, CommitAlone
<1>9. ASSUME NEW p \in Projectors, Announce(p) PROVE AloneInv'
  BY <1>9 DEF Announce, Notify, LoseAnswer, Cleared, outboxVars, IInv, TypeOK, OneProjector
<1>10. ASSUME NEW p \in Projectors, RecordFailure(p) PROVE AloneInv'
  <2>1. current[p] \in Events /\ current[p] \in Committed
    BY <1>10 DEF RecordFailure, IInv, TypeOK, ClaimInv
  <2> QED
    BY <1>10, <2>1 DEF RecordFailure, Cleared, readVars, IInv, TypeOK, OneProjector
<1>11. ASSUME NEW p \in Projectors, Fail(p) \/ Crash(p) PROVE AloneInv'
  BY <1>11 DEF Fail, Crash, Cleared, outboxVars, readVars, IInv, TypeOK, OneProjector
<1>12. CASE UNCHANGED vars
  BY <1>12 DEF vars, outboxVars, readVars, processVars
<1> QED
  BY <1>1, <1>2, <1>3, <1>4, <1>5, <1>6, <1>7, <1>8, <1>9, <1>10, <1>11, <1>12
     DEF Next, Project, Announce

THEOREM AloneInvariance == OneProjector => (Spec => []AloneInv)
<1> SUFFICES ASSUME OneProjector PROVE Spec => []AloneInv
  OBVIOUS
<1>1. Init => AloneInv
  BY DEF Init, AloneInv, SeenInv, VisibleInv, DashboardIsCurrent, NotifiedIsVisible
<1>2. IInv /\ AloneInv /\ [Next]_vars => AloneInv'
  BY AloneStep
<1> QED
  BY Invariance, <1>1, <1>2, PTL DEF Spec

\* With one projector the dashboard, too, shows every published event.
THEOREM OneConsumerDashboard == OneProjector => (Spec => []DashboardIsCurrent)
<1>1. AloneInv => DashboardIsCurrent
  BY DEF AloneInv, VisibleInv
<1> QED
  BY AloneInvariance, <1>1, PTL

\* With one projector an announced event is visible in every read model.
THEOREM AnnouncedIsVisible == OneProjector => (Spec => []NotifiedIsVisible)
<1>1. AloneInv => NotifiedIsVisible
  BY DEF AloneInv, VisibleInv
<1> QED
  BY AloneInvariance, <1>1, PTL

-----------------------------------------------------------------------------
(* The refinement of ReadModels: a command's transaction is Record, a          *)
(* committed projection Show, a notification Tell; nothing else is visible.    *)

\* What any number of projectors announce has been projected.
ToldInv ==
    /\ timeline \subseteq Committed
    /\ \A p \in Projectors :
           pc[p] = "notify" => current[p] \in timeline \cap progress

\* The three kinds of step a reader can tell apart.
LEMMA ReaderStep ==
    ASSUME IInv, [Next]_vars
    PROVE  \/ UNCHANGED <<Committed, readVars>>
           \/ \E e \in Events : /\ e \notin Committed /\ Committed' = Committed \cup {e}
                                /\ UNCHANGED readVars
           \/ \E p \in Projectors : (Commit(p) \/ Announce(p)) /\ Committed' = Committed
<1>0. TypeOK /\ ClaimInv
  BY DEF IInv
<1>1. ASSUME NEW e \in Events, AppendEvent(e)
      PROVE  /\ e \notin Committed /\ Committed' = Committed \cup {e}
             /\ UNCHANGED readVars
  BY <1>0, <1>1 DEF AppendEvent, Committed, TypeOK
<1>2. ASSUME NEW e \in Events, ExpireLease(e) \/ BecomeDue(e)
      PROVE  UNCHANGED <<Committed, readVars>>
  BY <1>2 DEF ExpireLease, BecomeDue, Committed
<1>3. ASSUME NEW p \in Projectors, Claim(p) PROVE UNCHANGED <<Committed, readVars>>
  <2>1. PICK rows \in SUBSET Claimable :
          /\ status' = [e \in Events |-> IF e \in rows THEN "processing" ELSE status[e]]
          /\ UNCHANGED readVars
    BY <1>3 DEF Claim
  <2>2. rows \subseteq Committed
    BY <1>0, <2>1 DEF Claimable, Committed, TypeOK
  <2> QED
    BY <2>1, <2>2 DEF Committed
<1>4. ASSUME NEW p \in Projectors,
             \/ Open(p) \/ Polls(p) \/ ReadDashboard(p) \/ WriteDashboard(p)
             \/ ReadProgress(p) \/ Fail(p) \/ Crash(p)
      PROVE  UNCHANGED <<Committed, readVars>>
  BY <1>4 DEF Open, Polls, ReadDashboard, WriteDashboard, ReadProgress, Fail, Crash,
              Committed, outboxVars
<1>5. ASSUME NEW p \in Projectors, RecordFailure(p) PROVE UNCHANGED <<Committed, readVars>>
  <2>1. current[p] \in Events /\ current[p] \in Committed
    BY <1>0, <1>5 DEF RecordFailure, TypeOK, ClaimInv
  <2> QED
    BY <1>0, <1>5, <2>1 DEF RecordFailure, Committed, TypeOK
<1>6. ASSUME NEW p \in Projectors, Commit(p) PROVE Committed' = Committed
  <2>1. current[p] \in Events /\ current[p] \in Committed
    BY <1>0, <1>6 DEF Commit, TypeOK, ClaimInv
  <2> QED
    BY <1>0, <1>6, <2>1 DEF Commit, Committed, TypeOK
<1>7. ASSUME NEW p \in Projectors, Announce(p) PROVE Committed' = Committed
  BY <1>7 DEF Announce, Notify, LoseAnswer, Committed, outboxVars
<1>8. CASE UNCHANGED vars
  BY <1>8 DEF vars, outboxVars, Committed
<1> QED
  BY <1>1, <1>2, <1>3, <1>4, <1>5, <1>6, <1>7, <1>8 DEF Next, Project, Announce

\* A committed projection takes nothing from the timeline and the progress row.
LEMMA CommitShows ==
    ASSUME IInv, ToldInv, NEW p \in Projectors, Commit(p), Committed' = Committed
    PROVE  /\ timeline \subseteq timeline' /\ timeline' \subseteq Committed
           /\ progress \subseteq progress' /\ progress' \subseteq Committed
           /\ current[p] \notin Silent => current[p] \in timeline' \cap progress'
<1>1. current[p] \in Committed
  BY DEF Commit, IInv, TypeOK, ClaimInv
<1>2. CASE current[p] \in Silent
  BY <1>2 DEF Commit, Shows, IInv, ShownInv, ToldInv
<1>3. CASE current[p] \notin Silent
  BY <1>1, <1>3 DEF Commit, Shows, IInv, FreshInv, ToldInv
<1> QED
  BY <1>2, <1>3

LEMMA ToldStep == IInv /\ ToldInv /\ [Next]_vars => ToldInv'
<1> SUFFICES ASSUME IInv, ToldInv, [Next]_vars PROVE ToldInv'
  OBVIOUS
<1>0. /\ TypeOK /\ timeline \subseteq timeline' /\ progress \subseteq progress'
      /\ timeline' \subseteq Committed'
  BY ReaderStep, CommitShows DEF IInv, ToldInv, Announce, Notify, LoseAnswer, readVars
<1> SUFFICES ASSUME NEW p \in Projectors, pc'[p] = "notify"
             PROVE  current'[p] \in timeline' \cap progress'
  BY <1>0 DEF ToldInv
<1>1. CASE pc[p] = "notify" /\ current'[p] = current[p]
  BY <1>0, <1>1 DEF ToldInv
<1>2. CASE Commit(p)
  <2>1. current'[p] = current[p] /\ current[p] \notin Silent
    BY <1>0, <1>2 DEF Commit, TypeOK
  <2>2. Committed' = Committed
    BY <1>0, <1>2 DEF Commit, Committed, IInv, TypeOK, ClaimInv
  <2> QED
    BY <1>2, <2>1, <2>2, CommitShows
<1>3. Commit(p) \/ (pc[p] = "notify" /\ current'[p] = current[p])
  <2>1. ASSUME NEW q \in Projectors, Project(q) \/ LoseAnswer(q) \/ Fail(q) \/ Crash(q),
               q # p
        PROVE  pc'[p] = pc[p] /\ current'[p] = current[p]
    BY <1>0, <2>1 DEF Project, Claim, Open, Polls, ReadDashboard, WriteDashboard,
       ReadProgress, Commit, Notify, RecordFailure, LoseAnswer, Fail, Crash, Cleared,
       TypeOK
  <2>2. Project(p) \/ LoseAnswer(p) \/ Fail(p) \/ Crash(p) => Commit(p)
    BY <1>0 DEF Project, Claim, Open, Polls, ReadDashboard, WriteDashboard,
       ReadProgress, Notify, RecordFailure, LoseAnswer, Fail, Crash, TypeOK
  <2>3. ASSUME NEW e \in Events, AppendEvent(e) \/ ExpireLease(e) \/ BecomeDue(e)
        PROVE  pc' = pc /\ current' = current
    BY <2>3 DEF AppendEvent, ExpireLease, BecomeDue, processVars
  <2>4. CASE UNCHANGED vars
    BY <2>4 DEF vars, processVars
  <2> QED
    BY <2>1, <2>2, <2>3, <2>4 DEF Next
<1> QED
  BY <1>1, <1>2, <1>3

LEMMA SharedStep ==
    IInv /\ ToldInv /\ [Next]_vars =>
        [Shared!Next]_<<Committed, [m \in Lasting |-> ReadModel[m]], notified>>
<1> SUFFICES ASSUME IInv, ToldInv, [Next]_vars
             PROVE  [Shared!Next]_<<Committed, [m \in Lasting |-> ReadModel[m]], notified>>
  OBVIOUS
<1> USE DEF Lasting, ReadModel
<1>1. CASE UNCHANGED <<Committed, readVars>>
  BY <1>1 DEF readVars
<1>2. CASE \E e \in Events : /\ e \notin Committed /\ Committed' = Committed \cup {e}
                             /\ UNCHANGED readVars
  BY <1>2 DEF readVars, Shared!Next, Shared!Record
<1>3. ASSUME NEW p \in Projectors, Commit(p), Committed' = Committed
      PROVE  Shared!Show
  <2>1. /\ timeline \subseteq timeline' /\ timeline' \subseteq Committed
        /\ progress \subseteq progress' /\ progress' \subseteq Committed
    BY <1>3, CommitShows
  <2>2. [m \in Lasting |-> ReadModel[m]]' \in [Lasting -> SUBSET Committed]
    BY <2>1
  <2>3. \A m \in Lasting :
            [n \in Lasting |-> ReadModel[n]][m] \subseteq [n \in Lasting |-> ReadModel[n]]'[m]
    BY <2>1
  <2> QED
    BY <1>3, <2>2, <2>3 DEF Shared!Show, Commit
<1>4. ASSUME NEW p \in Projectors, Announce(p), Committed' = Committed
      PROVE  \E e \in Events : Shared!Tell(e)
  <2>1. current[p] \in Events
    BY <1>4 DEF Announce, Notify, LoseAnswer, IInv, TypeOK
  <2> QED
    BY <1>4, <2>1 DEF Shared!Tell, Announce, Notify, LoseAnswer, ToldInv
<1> QED
  BY <1>1, <1>2, <1>3, <1>4, ReaderStep DEF Shared!Next

\* Any number of projectors together implement ReadModels with the timeline
\* and the progress row, whatever fails, crashes or is projected again.
THEOREM SharedReadModels == Spec => ImplementsReadModels
<1>1. Init => ToldInv /\ Shared!Init
  BY DEF Init, ToldInv, Shared!Init, Committed, Lasting, ReadModel
<1>2. IInv /\ ToldInv /\ [Next]_vars => ToldInv'
  BY ToldStep
<1> QED
  BY Invariance, <1>1, <1>2, SharedStep, PTL DEF Spec, ImplementsReadModels, Shared!Spec

LEMMA SingleStep ==
    IInv /\ ToldInv /\ AloneInv /\ [Next]_vars =>
        [Single!Next]_<<Committed, [m \in All |-> ReadModel[m]], notified>>
<1> SUFFICES ASSUME IInv, ToldInv, AloneInv, [Next]_vars
             PROVE  [Single!Next]_<<Committed, [m \in All |-> ReadModel[m]], notified>>
  OBVIOUS
<1> USE DEF All, ReadModel
<1>1. CASE UNCHANGED <<Committed, readVars>>
  BY <1>1 DEF readVars
<1>2. CASE \E e \in Events : /\ e \notin Committed /\ Committed' = Committed \cup {e}
                             /\ UNCHANGED readVars
  BY <1>2 DEF readVars, Single!Next, Single!Record
<1>3. ASSUME NEW p \in Projectors, Commit(p), Committed' = Committed
      PROVE  Single!Show
  <2>1. /\ timeline \subseteq timeline' /\ timeline' \subseteq Committed
        /\ progress \subseteq progress' /\ progress' \subseteq Committed
        /\ dashboard \subseteq dashboard' /\ dashboard' \subseteq Committed
    BY <1>3, CommitShows, CommitGrows
  <2>2. [m \in All |-> ReadModel[m]]' \in [All -> SUBSET Committed]
    BY <2>1
  <2>3. \A m \in All :
            [n \in All |-> ReadModel[n]][m] \subseteq [n \in All |-> ReadModel[n]]'[m]
    BY <2>1
  <2> QED
    BY <1>3, <2>2, <2>3 DEF Single!Show, Commit
<1>4. ASSUME NEW p \in Projectors, Announce(p), Committed' = Committed
      PROVE  \E e \in Events : Single!Tell(e)
  <2>1. current[p] \in Events
    BY <1>4 DEF Announce, Notify, LoseAnswer, IInv, TypeOK
  <2> QED
    BY <1>4, <2>1 DEF Single!Tell, Announce, Notify, LoseAnswer, AloneInv, VisibleInv
<1> QED
  BY <1>1, <1>2, <1>3, <1>4, ReaderStep DEF Single!Next

\* One projector implements it with the dashboard, too.
THEOREM SingleReadModels == OneProjector => (Spec => ImplementsAllReadModels)
<1> SUFFICES ASSUME OneProjector PROVE Spec => ImplementsAllReadModels
  OBVIOUS
<1>1. Init => ToldInv /\ Single!Init
  BY DEF Init, ToldInv, Single!Init, Committed, All, ReadModel
<1>2. IInv /\ ToldInv /\ [Next]_vars => ToldInv'
  BY ToldStep
<1> QED
  BY Invariance, AloneInvariance, <1>1, <1>2, SingleStep, PTL
     DEF Spec, ImplementsAllReadModels, Single!Spec

-----------------------------------------------------------------------------
(* EventDelivery adds readers to the projector's steps and takes none away. *)

\* A step of the projector, the commands or time is one of OutboxProjector;
\* what the stream and the page do changes nothing of it.
LEMMA DeliveryStep == DeliveryNext => [Next]_vars
<1> SUFFICES ASSUME DeliveryNext PROVE [Next]_vars
  OBVIOUS
<1>1. CASE \E e \in Events : Command(e) \/ Elapse(e)
  BY <1>1 DEF Command, Elapse, Next
<1>2. CASE \E p \in Projectors : ProjectOn(p) \/ Stumble(p) \/ LoseNotification(p)
  BY <1>2 DEF ProjectOn, Stumble, LoseNotification, Announce, Project, Next
<1>3. CASE Fetch \/ Connect \/ Receive \/ LoseStream \/ RestartProcess
  BY <1>3 DEF Fetch, Connect, Receive, LoseStream, RestartProcess, Break
<1> QED
  BY <1>1, <1>2, <1>3 DEF DeliveryNext

\* Whatever streams and processes do, the projector and its read models behave
\* as OutboxProjector says: the API's listeners are readers.
THEOREM DeliveryProjects == DeliverySpec => Spec
<1>1. DeliveryInit => Init
  BY DEF DeliveryInit
<1>2. [DeliveryNext]_allVars => [Next]_vars
  BY DeliveryStep DEF allVars
<1> QED
  BY <1>1, <1>2, PTL DEF DeliverySpec, Spec

-----------------------------------------------------------------------------
(* The buffer and what a stream is sent from it.                            *)

LEMMA KeptIsSuffix ==
  ASSUME NEW S, NEW s \in Seq(S), s # <<>>
  PROVE  \E d \in Nat :
           /\ Kept(s) \in Seq(S) /\ d < Len(s)
           /\ Len(Kept(s)) = Len(s) - d /\ Len(Kept(s)) <= Buffer
           /\ \A i \in 1 .. Len(Kept(s)) : Kept(s)[i] = s[i + d]
<1> DEFINE d == IF Len(s) - Buffer > 0 THEN Len(s) - Buffer ELSE 0
<1>1. Len(s) \in Nat /\ Len(s) > 0 /\ Buffer \in Nat /\ Buffer > 0
  BY DeliveryAssumption
<1>2. Max({0, Len(s) - Buffer}) = d
  BY <1>1 DEF Max
<1>3. d \in Nat /\ d < Len(s) /\ Len(s) - d <= Buffer
  BY <1>1
<1>4. Kept(s) = SubSeq(s, 1 + d, Len(s))
  BY <1>2 DEF Kept
<1> HIDE DEF d
<1>5. 1 + d \in 1 .. Len(s)
  BY <1>1, <1>3
<1>6. /\ SubSeq(s, 1 + d, Len(s)) \in Seq(S)
      /\ Len(SubSeq(s, 1 + d, Len(s))) = Len(s) - d
      /\ \A i \in 1 .. Len(s) - d : SubSeq(s, 1 + d, Len(s))[i] = s[i + d]
  BY <1>1, <1>3, <1>5, SubSeqProperties
<1> QED
  BY <1>3, <1>4, <1>6

\* Only an event that was announced again is in the buffer twice.
HistoryInv ==
    \A i, j \in DOMAIN history : history[i] = history[j] => i = j \/ history[i] \in again

LEMMA LeastIsMember ==
  ASSUME NEW n \in Nat, NEW S \in SUBSET (1 .. n), S # {}
  PROVE  Min(S) \in S
<1> DEFINE less == {ss \in Nat \X Nat : ss[1] < ss[2]}
<1>1. less = OpToRel(<, Nat)
  BY DEF OpToRel
<1>2. IsWellFoundedOn(less, Nat)
  BY <1>1, NatLessThanWellFounded
<1>3. S \subseteq Nat
  OBVIOUS
<1> HIDE DEF less
<1>4. PICK x \in S : \A y \in S : ~(<<y, x>> \in less)
  BY <1>2, <1>3, WFMin
<1>5. \A y \in S : x <= y
  <2> SUFFICES ASSUME NEW y \in S PROVE x <= y
    OBVIOUS
  <2>1. x \in Nat /\ y \in Nat
    BY <1>3
  <2>2. ~(y < x)
    <3>1. <<y, x>> \in Nat \X Nat /\ <<y, x>>[1] = y /\ <<y, x>>[2] = x
      BY <2>1
    <3> QED
      BY <1>4, <3>1 DEF less
  <2> QED
    BY <2>1, <2>2
<1> QED
  BY <1>5 DEF Min

LEMMA ReplayIsSuffix ==
  ASSUME NEW id, id # None, history \in Seq(Events)
  PROVE  /\ id \notin ToSet(history) => Replay(id) = <<Reset>>
         /\ id \in ToSet(history) =>
              \E i \in DOMAIN history : /\ history[i] = id
                                        /\ Replay(id) = SubSeq(history, 1 + i, Len(history))
<1>1. id \notin ToSet(history) => Replay(id) = <<Reset>>
  BY DEF Replay
<1>2. ASSUME id \in ToSet(history)
      PROVE  \E i \in DOMAIN history : /\ history[i] = id
                                       /\ Replay(id) = SubSeq(history, 1 + i, Len(history))
  <2> DEFINE places == {k \in 1 .. Len(history) : history[k] = id}
  <2>1. DOMAIN history = 1 .. Len(history) /\ Len(history) \in Nat
    OBVIOUS
  <2>2. places # {} /\ places \in SUBSET (1 .. Len(history))
    BY <1>2, <2>1 DEF ToSet
  <2>3. SelectInSeq(history, LAMBDA e : e = id) = Min(places)
    BY <2>2 DEF SelectInSeq
  <2>4. Min(places) \in places
    BY <2>1, <2>2, LeastIsMember
  <2> QED
    BY <1>2, <2>1, <2>3, <2>4 DEF Replay
<1> QED
  BY <1>1, <1>2

\* A client that comes back with the id a, if it is in the log, is sent b.
Follows(log, a, b) ==
    \A i \in DOMAIN log : log[i] = a => \E j \in DOMAIN log : j > i /\ log[j] = b

\* A newly announced event follows all others, and what followed another event
\* still does after it has displaced the oldest one.
LEMMA RecordFollows ==
  ASSUME history \in Seq(Events), NEW e \in Events, history' = Kept(Append(history, e)),
         HistoryInv, again' = again \cup ({e} \cap notified),
         ToSet(history) \subseteq notified
  PROVE  /\ history' \in Seq(Events) /\ ToSet(history') \subseteq ToSet(history) \cup {e}
         /\ HistoryInv'
         /\ \A a, b : a # e => /\ Follows(history', a, e)
                              /\ (Follows(history, a, b) => Follows(history', a, b))
<1> DEFINE s == Append(history, e)
<1>1. /\ s \in Seq(Events) /\ Len(s) = Len(history) + 1 /\ Len(history) \in Nat
      /\ s[Len(s)] = e /\ \A i \in 1 .. Len(history) : s[i] = history[i]
  OBVIOUS
<1> HIDE DEF s
<1>2. s # <<>> /\ history' = Kept(s)
  <2>1. history' = Kept(s)
    BY DEF s
  <2> QED
    BY <1>1, <2>1
<1>3. PICK d \in Nat : /\ history' \in Seq(Events) /\ d < Len(s)
                      /\ Len(history') = Len(s) - d
                      /\ \A i \in 1 .. Len(history') : history'[i] = s[i + d]
  <2>1. \E d \in Nat :
           /\ Kept(s) \in Seq(Events) /\ d < Len(s)
           /\ Len(Kept(s)) = Len(s) - d
           /\ \A i \in 1 .. Len(Kept(s)) : Kept(s)[i] = s[i + d]
    BY <1>1, <1>2, KeptIsSuffix
  <2> QED
    BY <1>2, <2>1
<1>4. /\ DOMAIN history = 1 .. Len(history) /\ DOMAIN history' = 1 .. Len(history')
      /\ Len(history') \in Nat
  BY <1>3
<1>5. ASSUME NEW i \in DOMAIN history'
      PROVE  \/ i = Len(history') /\ history'[i] = e
             \/ /\ i < Len(history') /\ i + d \in DOMAIN history
                /\ history'[i] = history[i + d]
  BY <1>1, <1>3, <1>4
<1>6. ToSet(history') \subseteq ToSet(history) \cup {e}
  BY <1>5 DEF ToSet
<1>7. HistoryInv'
  <2> SUFFICES ASSUME NEW i \in DOMAIN history', NEW j \in DOMAIN history',
                      history'[i] = history'[j], history'[i] \notin again'
               PROVE  i = j
    BY DEF HistoryInv
  <2>1. CASE i < Len(history') /\ j < Len(history')
    <3>1. i + d = j + d
      BY <1>5, <2>1 DEF HistoryInv
    <3> QED
      BY <3>1, <1>4
  <2>2. e \notin again' => \A k \in DOMAIN history : history[k] # e
    BY DEF ToSet
  <2> QED
    BY <1>4, <1>5, <2>1, <2>2
<1>8. ASSUME NEW a, a # e PROVE Follows(history', a, e)
  BY <1>1, <1>3, <1>4, <1>5, <1>8 DEF Follows
<1>9. ASSUME NEW a, NEW b, a # e, Follows(history, a, b) PROVE Follows(history', a, b)
  <2> SUFFICES ASSUME NEW i \in DOMAIN history', history'[i] = a
               PROVE  \E j \in DOMAIN history' : j > i /\ history'[j] = b
    BY DEF Follows
  <2>1. i + d \in DOMAIN history /\ history[i + d] = a
    BY <1>5, <1>9
  <2>2. PICK k \in DOMAIN history : k > i + d /\ history[k] = b
    BY <1>9, <2>1 DEF Follows
  <2>3. k - d \in DOMAIN history' /\ k - d > i /\ (k - d) + d = k
    BY <1>1, <1>3, <1>4, <2>2
  <2>4. history'[k - d] = b
    BY <1>1, <1>3, <1>4, <2>2, <2>3
  <2> QED
    BY <2>3, <2>4
<1> QED
  BY <1>3, <1>6, <1>7, <1>8, <1>9

-----------------------------------------------------------------------------
(* What a page with nothing to receive and nothing to fetch is owed, it shows: *)
(* until then what it is owed is in its inbox, or follows its id in the buffer *)
(* it is going to be sent from.                                                *)

KindInv ==
    /\ history \in Seq(Events) /\ ToSet(history) \subseteq notified
    /\ inbox \in Seq(Events \cup {None}) /\ ToSet(inbox) \subseteq notified \cup {Reset}
    /\ last \in notified \cup {None}
    /\ owed \subseteq notified \cap Watched /\ again \subseteq notified
    /\ last = None => owed = {}
    /\ stream \in {"none", "open", "broken"}
    /\ stream = "none" => last = None
    /\ stream # "open" => inbox = <<>>

\* The messages of the open stream are in the buffer's order; a request to
\* start over comes first, and only to a page whose id is gone from the buffer.
\* An event that was announced again may have moved to the end of the buffer.
InboxInv ==
    /\ \A n \in DOMAIN inbox :
           inbox[n] = Reset => /\ n = 1 /\ last # None
                               /\ last \notin again => last \notin ToSet(history)
    /\ \A m, n \in DOMAIN inbox :
           m < n => inbox[m] \in {Reset} \cup again \/ Follows(history, inbox[m], inbox[n])
    /\ last \notin {None} \cup again =>
           \A n \in DOMAIN inbox : Follows(history, last, inbox[n])

\* The page is yet to hear of e.
Coming(e) ==
    IF stream = "open" THEN {e, Reset} \cap ToSet(inbox) # {}
    ELSE last \in again \/ Follows(history, last, e)

OwedInv == \A e \in owed : e \in page \cup missed \/ stale \/ Coming(e)

DInv == KindInv /\ HistoryInv /\ InboxInv /\ OwedInv

LEMMA DeliveryInitInv == DeliveryInit => DInv
<1> SUFFICES ASSUME DeliveryInit PROVE DInv
  OBVIOUS
<1> USE DEF DeliveryInit, Init
<1>1. ToSet(history) = {} /\ ToSet(inbox) = {}
  BY DEF ToSet
<1>2. KindInv
  BY <1>1 DEF KindInv
<1> QED
  BY <1>2 DEF DInv, HistoryInv, InboxInv, OwedInv

\* A step that leaves the buffer and the page alone and silences no event.
LEMMA IdleInv ==
  ASSUME DInv, UNCHANGED <<history, pageVars, debtVars>>, notified \subseteq notified'
  PROVE  DInv'
<1> USE DEF pageVars, debtVars, DInv
<1>1. KindInv'
  BY DEF KindInv, ToSet
<1>2. HistoryInv' /\ InboxInv' /\ OwedInv'
  BY DEF HistoryInv, InboxInv, OwedInv, Coming, Follows, ToSet
<1> QED
  BY <1>1, <1>2

\* The process that hears of a new event.
LEMMA RecordInv ==
  ASSUME TypeOK, DInv, NEW e \in Events, Record(e),
         notified' = notified \cup {e}
  PROVE  DInv'
<1> USE DEF DInv
<1>0. e # None /\ None \notin notified /\ Reset = None
  BY NoneAssumption DEF TypeOK, Reset
<1>1. /\ history' \in Seq(Events) /\ ToSet(history') \subseteq ToSet(history) \cup {e}
      /\ HistoryInv'
      /\ \A a, b : a # e => /\ Follows(history', a, e)
                           /\ (Follows(history, a, b) => Follows(history', a, b))
  BY RecordFollows DEF KindInv, Record
<1>2. \A a, b : a # e /\ Follows(history, a, b) => Follows(history', a, b)
  BY <1>1
<1>3. /\ last' = last /\ stream' = stream /\ again' = again \cup ({e} \cap notified)
      /\ \A a \in notified \cup {None} : a = e => a \in again'
  BY <1>0 DEF Record
<1>4. CASE stream = "open"
  <2>1. inbox' = Append(inbox, e) /\ inbox \in Seq(Events \cup {None})
    BY <1>4 DEF Record, KindInv
  <2>2. /\ inbox' \in Seq(Events \cup {None})
        /\ DOMAIN inbox' = 1 .. Len(inbox) + 1 /\ DOMAIN inbox = 1 .. Len(inbox)
        /\ Len(inbox) \in Nat /\ inbox'[Len(inbox) + 1] = e
        /\ \A n \in DOMAIN inbox : /\ inbox'[n] = inbox[n]
                                   /\ inbox[n] = e => e \in again'
    <3>1. \A n \in DOMAIN inbox : inbox[n] \in notified \cup {None}
      BY <1>0 DEF KindInv, ToSet
    <3> QED
      BY <1>3, <2>1, <3>1
  <2>3. ToSet(inbox') = ToSet(inbox) \cup {e}
    BY <2>2 DEF ToSet
  <2>4. KindInv'
    BY <1>1, <1>3, <1>4, <2>2, <2>3 DEF KindInv, Record
  <2>5. InboxInv'
    <3>1. \A n \in DOMAIN inbox' : n \in DOMAIN inbox \/ n = Len(inbox) + 1
      BY <2>2
    <3>2. ASSUME NEW n \in DOMAIN inbox', inbox'[n] = Reset
          PROVE  /\ n = 1 /\ last' # None
                 /\ last' \notin again' => last' \notin ToSet(history')
      <4>1. n \in DOMAIN inbox /\ inbox[n] = Reset
        BY <1>0, <2>2, <3>1, <3>2
      <4> QED
        BY <1>1, <1>3, <4>1 DEF InboxInv, KindInv
    <3>3. ASSUME NEW m \in DOMAIN inbox', NEW n \in DOMAIN inbox', m < n,
                 inbox'[m] \notin {Reset} \cup again'
          PROVE  Follows(history', inbox'[m], inbox'[n])
      <4>1. m \in DOMAIN inbox
        BY <2>2, <3>1, <3>3
      <4>0. inbox[m] # e /\ inbox[m] \notin {Reset} \cup again
        BY <1>3, <2>2, <3>3, <4>1
      <4>2. CASE n \in DOMAIN inbox
        <5>1. Follows(history, inbox[m], inbox[n])
          BY <3>3, <4>0, <4>1, <4>2 DEF InboxInv
        <5> QED
          BY <1>2, <2>2, <4>0, <4>1, <4>2, <5>1
      <4>3. CASE n = Len(inbox) + 1
        BY <1>1, <2>2, <4>0, <4>1, <4>3
      <4> QED
        BY <3>1, <4>2, <4>3
    <3>4. ASSUME last' \notin {None} \cup again', NEW n \in DOMAIN inbox'
          PROVE  Follows(history', last', inbox'[n])
      <4>0. last # e /\ last \notin {None} \cup again
        BY <1>3, <3>4 DEF KindInv
      <4>1. CASE n \in DOMAIN inbox
        BY <1>2, <1>3, <2>2, <4>0, <4>1 DEF InboxInv
      <4>2. CASE n = Len(inbox) + 1
        BY <1>1, <1>3, <2>2, <4>0, <4>2
      <4> QED
        BY <3>1, <4>1, <4>2
    <3> QED
      BY <3>2, <3>3, <3>4 DEF InboxInv, Reset
  <2>6. OwedInv'
    BY <1>3, <1>4, <2>3 DEF OwedInv, Coming, Record
  <2> QED
    BY <1>1, <2>4, <2>5, <2>6
<1>5. CASE stream # "open"
  <2>1. inbox' = <<>> /\ inbox = <<>>
    BY <1>5 DEF Record, KindInv
  <2>2. KindInv'
    BY <1>1, <1>3, <1>5, <2>1 DEF KindInv, Record
  <2>3. InboxInv'
    BY <2>1 DEF InboxInv
  <2>4. OwedInv'
    <3> SUFFICES ASSUME NEW f \in owed', f \notin page' \cup missed', ~stale',
                        last' \notin again'
                 PROVE  Follows(history', last', f)
      BY <1>3, <1>5 DEF OwedInv, Coming
    <3>0. last # e /\ last \notin again
      BY <1>3 DEF KindInv
    <3>1. CASE f = e
      BY <1>1, <1>3, <3>0, <3>1
    <3>2. CASE f \in owed
      <4>1. Follows(history, last, f)
        BY <1>5, <3>0, <3>2 DEF OwedInv, Coming, Record
      <4> QED
        BY <1>2, <1>3, <3>0, <4>1
    <3> QED
      BY <3>1, <3>2 DEF Record
  <2> QED
    BY <1>1, <2>2, <2>3, <2>4
<1> QED
  BY <1>4, <1>5

LEMMA FetchInv == ASSUME DInv, NotifiedIsVisible, Fetch PROVE DInv'
<1> USE DEF Fetch, DInv, vars, readVars, debtVars
<1>1. KindInv'
  BY DEF KindInv, ToSet
<1>2. HistoryInv' /\ InboxInv'
  BY DEF HistoryInv, InboxInv, Follows, ToSet
<1>3. owed' \subseteq page'
  BY DEF KindInv, NotifiedIsVisible, Visible
<1> QED
  BY <1>1, <1>2, <1>3 DEF OwedInv

\* A page that comes back gets everything that follows its id, or the request
\* to start over.
LEMMA ConnectInv == ASSUME TypeOK, DInv, Connect PROVE DInv'
<1> USE DEF DInv
<1>0. /\ stream' = "open" /\ inbox' = Replay(last)
      /\ UNCHANGED <<notified, history, last, stale, page, owed, again>>
      /\ missed' = IF last \in again THEN missed \cup (owed \ page) ELSE missed
      /\ stream # "open" /\ inbox = <<>> /\ last \in Events \cup {None}
  BY DEF Connect, KindInv, TypeOK, vars, readVars
<1>1. HistoryInv'
  BY <1>0 DEF HistoryInv
<1>2. CASE last = None
  <2>1. inbox' = <<>> /\ owed' = {} /\ ToSet(inbox') = {}
    BY <1>0, <1>2 DEF Replay, KindInv, ToSet
  <2>2. KindInv'
    BY <1>0, <2>1 DEF KindInv, ToSet
  <2> QED
    BY <1>1, <2>1, <2>2 DEF InboxInv, OwedInv
<1>3. CASE last # None /\ last \notin ToSet(history)
  <2>1. inbox' = <<Reset>>
    BY <1>0, <1>3, ReplayIsSuffix DEF KindInv
  <2>2. /\ ToSet(inbox') = {Reset} /\ inbox' \in Seq(Events \cup {None})
        /\ DOMAIN inbox' = {1} /\ inbox'[1] = Reset
    BY <2>1 DEF ToSet, Reset
  <2>3. KindInv'
    BY <1>0, <2>2 DEF KindInv, ToSet
  <2>4. InboxInv'
    <3>1. Follows(history, last, Reset) /\ last' \notin ToSet(history') /\ last' # None
      BY <1>0, <1>3 DEF Follows, ToSet
    <3> QED
      BY <1>0, <2>2, <3>1 DEF InboxInv, Reset
  <2>5. OwedInv'
    BY <1>0, <2>2 DEF OwedInv, Coming, Reset
  <2> QED
    BY <1>1, <2>3, <2>4, <2>5
<1>4. CASE last # None /\ last \in ToSet(history)
  <2>1. PICK i \in DOMAIN history :
          history[i] = last /\ inbox' = SubSeq(history, 1 + i, Len(history))
    BY <1>0, <1>4, ReplayIsSuffix DEF KindInv
  <2>2. /\ DOMAIN history = 1 .. Len(history) /\ Len(history) \in Nat
        /\ history \in Seq(Events)
    BY DEF KindInv
  <2>3. /\ inbox' \in Seq(Events) /\ DOMAIN inbox' = 1 .. Len(history) - i
        /\ \A n \in DOMAIN inbox' : n + i \in DOMAIN history /\ inbox'[n] = history[n + i]
    <3>1. CASE i = Len(history)
      BY <2>1, <2>2, <3>1
    <3>2. CASE i < Len(history)
      <4>1. 1 + i \in 1 .. Len(history)
        BY <2>2, <3>2
      <4> QED
        BY <2>1, <2>2, <4>1, SubSeqProperties
    <3> QED
      BY <2>2, <3>1, <3>2
  <2>4. ToSet(inbox') \subseteq ToSet(history)
    BY <2>3 DEF ToSet
  <2>5. KindInv'
    <3>1. inbox' \in Seq(Events \cup {None})
      BY <2>3
    <3> QED
      BY <1>0, <2>4, <3>1 DEF KindInv, ToSet
  <2>6. InboxInv'
    <3>1. \A n \in DOMAIN inbox' : inbox'[n] # Reset
      BY <2>2, <2>3, NoneAssumption DEF Reset
    <3>2. ASSUME NEW m \in 0 .. Len(history), NEW n \in DOMAIN inbox', m < n,
                 m + i \in DOMAIN history, history[m + i] \notin again
          PROVE  Follows(history, history[m + i], inbox'[n])
      <4>1. n + i > m + i /\ n + i \in DOMAIN history /\ history[n + i] = inbox'[n]
        BY <2>2, <2>3, <3>2
      <4>2. \A k \in DOMAIN history : history[k] = history[m + i] => k = m + i
        BY <3>2 DEF HistoryInv
      <4> QED
        BY <4>1, <4>2 DEF Follows
    <3>3. ASSUME NEW m \in DOMAIN inbox', NEW n \in DOMAIN inbox', m < n,
                 inbox'[m] \notin again
          PROVE  Follows(history', inbox'[m], inbox'[n])
      <4>1. /\ m \in 0 .. Len(history) /\ m + i \in DOMAIN history
            /\ inbox'[m] = history[m + i]
        BY <2>2, <2>3
      <4> QED
        BY <1>0, <3>2, <3>3, <4>1
    <3>4. ASSUME NEW n \in DOMAIN inbox', last \notin again
          PROVE  Follows(history', last', inbox'[n])
      <4>1. /\ 0 \in 0 .. Len(history) /\ 0 < n
            /\ 0 + i \in DOMAIN history /\ history[0 + i] = last
        BY <2>1, <2>2, <2>3
      <4> QED
        BY <1>0, <3>2, <3>4, <4>1
    <3> QED
      BY <1>0, <3>1, <3>3, <3>4 DEF InboxInv, Reset
  <2>7. OwedInv'
    <3> SUFFICES ASSUME NEW e \in owed, e \notin page \cup missed', ~stale
                 PROVE  e \in ToSet(inbox')
      BY <1>0 DEF OwedInv, Coming
    <3>1. Follows(history, last, e)
      BY <1>0 DEF OwedInv, Coming
    <3>2. PICK j \in DOMAIN history : j > i /\ history[j] = e
      BY <2>1, <3>1 DEF Follows
    <3>3. j - i \in DOMAIN inbox' /\ (j - i) + i = j
      BY <2>2, <2>3, <3>2
    <3>4. inbox'[j - i] = e
      BY <2>3, <3>2, <3>3
    <3> QED
      BY <3>3, <3>4 DEF ToSet
  <2> QED
    BY <1>1, <2>5, <2>6, <2>7
<1> QED
  BY <1>2, <1>3, <1>4

\* The first message is taken from the stream.
LEMMA ReceiveInv == ASSUME TypeOK, DInv, Receive PROVE DInv'
<1> USE DEF DInv
<1>0. /\ inbox # <<>> /\ inbox' = Tail(inbox) /\ stream' = stream /\ stream = "open"
      /\ last' = IF inbox[1] = Reset THEN last ELSE inbox[1]
      /\ stale' = (stale \/ inbox[1] \in Watched \cup {Reset})
      /\ UNCHANGED <<notified, history, page, debtVars>>
  BY DEF Receive, KindInv, vars, readVars
<1> USE DEF debtVars
<1>1. /\ inbox \in Seq(Events \cup {None}) /\ DOMAIN inbox = 1 .. Len(inbox)
      /\ Len(inbox) \in Nat /\ Len(inbox) > 0
      /\ inbox' \in Seq(Events \cup {None}) /\ DOMAIN inbox' = 1 .. Len(inbox) - 1
      /\ \A n \in DOMAIN inbox' : n + 1 \in DOMAIN inbox /\ inbox'[n] = inbox[n + 1]
  BY <1>0 DEF KindInv
<1>2. ToSet(inbox) = {inbox[1]} \cup ToSet(inbox')
  <2>1. \A n \in DOMAIN inbox :
            n = 1 \/ (n - 1 \in DOMAIN inbox' /\ inbox'[n - 1] = inbox[n])
    BY <1>1
  <2> QED
    BY <1>1, <2>1 DEF ToSet
<1>3. inbox[1] = Reset => last # None
  BY <1>1 DEF InboxInv
<1>4. KindInv'
  <2>1. last' \in notified \cup {None} /\ (last' = None => last = None)
    BY <1>0, <1>2, <1>3 DEF KindInv, Reset
  <2> QED
    BY <1>0, <1>1, <1>2, <2>1 DEF KindInv, ToSet
<1>5. \A n \in DOMAIN inbox' : inbox'[n] # Reset
  <2>1. \A n \in DOMAIN inbox' : n + 1 # 1
    BY <1>1
  <2> QED
    BY <1>1, <2>1 DEF InboxInv
<1>6. InboxInv'
  <2>1. ASSUME NEW m \in DOMAIN inbox', NEW n \in DOMAIN inbox', m < n,
               inbox'[m] \notin again
        PROVE  Follows(history', inbox'[m], inbox'[n])
    <3>1. m + 1 < n + 1 /\ inbox[m + 1] \notin {Reset} \cup again
      BY <1>1, <1>5, <2>1
    <3> QED
      BY <1>0, <1>1, <3>1 DEF InboxInv
  <2>2. ASSUME NEW n \in DOMAIN inbox', last' \notin {None} \cup again
        PROVE  Follows(history', last', inbox'[n])
    <3>1. 1 \in DOMAIN inbox /\ n + 1 \in DOMAIN inbox /\ 1 < n + 1
      BY <1>1
    <3>2. CASE inbox[1] = Reset
      BY <1>0, <1>1, <2>2, <3>1, <3>2 DEF InboxInv
    <3>3. CASE inbox[1] # Reset
      BY <1>0, <1>1, <2>2, <3>1, <3>3 DEF InboxInv
    <3> QED
      BY <3>2, <3>3
  <2> QED
    BY <1>0, <1>5, <2>1, <2>2 DEF InboxInv, Reset
<1>7. OwedInv'
  <2> SUFFICES ASSUME NEW e \in owed, e \notin page \cup missed, ~stale'
               PROVE  e \in ToSet(inbox')
    BY <1>0 DEF OwedInv, Coming
  <2>1. inbox[1] # e /\ inbox[1] # Reset /\ ~stale
    BY <1>0 DEF KindInv
  <2>2. {e, Reset} \cap ToSet(inbox) # {}
    BY <1>0, <2>1 DEF OwedInv, Coming
  <2>3. Reset \notin ToSet(inbox')
    BY <1>5 DEF ToSet
  <2> QED
    BY <1>2, <2>1, <2>2, <2>3
<1>8. HistoryInv'
  BY <1>0 DEF HistoryInv
<1> QED
  BY <1>4, <1>6, <1>7, <1>8

\* What was on the stream follows the page's id in the buffer, if the buffer
\* still holds that id.
LEMMA LoseStreamInv == ASSUME DInv, LoseStream PROVE DInv'
<1> USE DEF DInv
<1>0. /\ stream = "open" /\ stream' = "broken" /\ inbox' = <<>>
      /\ UNCHANGED <<notified, history, last, stale, page, owed, again, missed>>
  BY DEF LoseStream, Break, vars, readVars, debtVars
<1>1. ToSet(inbox') = {}
  BY <1>0 DEF ToSet
<1>2. KindInv'
  BY <1>0, <1>1 DEF KindInv, ToSet
<1>3. HistoryInv' /\ InboxInv'
  BY <1>0 DEF HistoryInv, InboxInv
<1>4. OwedInv'
  <2> SUFFICES ASSUME NEW e \in owed, e \notin page \cup missed, ~stale, last \notin again
               PROVE  Follows(history, last, e)
    BY <1>0 DEF OwedInv, Coming
  <2>1. last # None /\ {e, Reset} \cap ToSet(inbox) # {}
    BY <1>0 DEF KindInv, OwedInv, Coming
  <2>2. PICK n \in DOMAIN inbox : inbox[n] \in {e, Reset}
    BY <2>1 DEF ToSet
  <2>3. CASE inbox[n] = e
    BY <2>1, <2>3 DEF InboxInv
  <2>4. CASE inbox[n] = Reset
    BY <2>4 DEF InboxInv, Follows, ToSet
  <2> QED
    BY <2>2, <2>3, <2>4
<1> QED
  BY <1>2, <1>3, <1>4

LEMMA RestartInv == ASSUME DInv, RestartProcess PROVE DInv'
<1> USE DEF DInv
<1>0. /\ stream' = (IF stream = "open" THEN "broken" ELSE stream)
      /\ history' = <<>> /\ inbox' = <<>>
      /\ UNCHANGED <<notified, last, stale, page, owed, again, missed>>
  BY DEF RestartProcess, Break, vars, readVars, debtVars
<1>1. ToSet(inbox') = {} /\ ToSet(history') = {} /\ \A a, b : Follows(history', a, b)
  BY <1>0 DEF ToSet, Follows
<1>2. KindInv'
  BY <1>0, <1>1 DEF KindInv, ToSet
<1>3. HistoryInv' /\ InboxInv'
  BY <1>0 DEF HistoryInv, InboxInv
<1>4. OwedInv'
  BY <1>0, <1>1 DEF OwedInv, Coming, KindInv
<1> QED
  BY <1>2, <1>3, <1>4

\* An announcement is never taken back.
LEMMA AnnouncedStays == [Next]_vars => notified \subseteq notified'
  BY DEF Next, Project, AppendEvent, ExpireLease, BecomeDue, Claim, Open, Polls,
         ReadDashboard, WriteDashboard, ReadProgress, Commit, Notify, RecordFailure,
         LoseAnswer, Fail, Crash, vars, readVars

LEMMA DeliveryInvStep ==
    IInv /\ NotifiedIsVisible /\ DInv /\ [DeliveryNext]_allVars => DInv'
<1> SUFFICES ASSUME IInv, NotifiedIsVisible, DInv, [DeliveryNext]_allVars
             PROVE  DInv'
  OBVIOUS
<1>0. TypeOK /\ notified \subseteq notified'
  BY DeliveryStep, AnnouncedStays DEF IInv, allVars
<1>1. CASE UNCHANGED deliveryVars
  BY <1>0, <1>1, IdleInv DEF deliveryVars
<1>2. ASSUME NEW p \in Projectors, Announce(p), Record(current[p]) PROVE DInv'
  <2>1. current[p] \in Events /\ notified' = notified \cup {current[p]}
    BY <1>0, <1>2 DEF Announce, Notify, LoseAnswer, TypeOK
  <2> QED
    BY <1>0, <1>2, <2>1, RecordInv
<1>3. ASSUME NEW p \in Projectors, LoseNotification(p) PROVE DInv'
  BY <1>0, <1>3, IdleInv DEF LoseNotification
<1>4. CASE Fetch \/ Connect \/ Receive \/ LoseStream \/ RestartProcess
  BY <1>0, <1>4, FetchInv, ConnectInv, ReceiveInv, LoseStreamInv, RestartInv
<1>5. ASSUME NEW p \in Projectors, ProjectOn(p), pc[p] = "notify"
      PROVE  Announce(p) /\ Record(current[p])
  BY <1>5 DEF ProjectOn, Project, Claim, Open, Polls, ReadDashboard, WriteDashboard,
              ReadProgress, Commit, RecordFailure, Announce
<1> QED
  BY <1>1, <1>2, <1>3, <1>4, <1>5
     DEF DeliveryNext, Command, Elapse, ProjectOn, Stumble, Announce, allVars

-----------------------------------------------------------------------------
\* With one projector a page with an open stream that has nothing more to
\* receive or to fetch shows every watched event recorded since it had an id,
\* for any size of the buffer and whatever streams, connections and processes
\* broke before; but for what it may have missed when it came back with the id
\* of an event that was announced twice.
THEOREM QuietPage == OneProjector => (DeliverySpec => []QuietPageIsCurrent)
<1> SUFFICES ASSUME OneProjector PROVE DeliverySpec => []QuietPageIsCurrent
  OBVIOUS
<1>1. Spec => []NotifiedIsVisible
  BY AnnouncedIsVisible
<1>2. DInv => QuietPageIsCurrent
  BY DEF DInv, OwedInv, Coming, QuietPageIsCurrent, Quiet, ToSet
<1> QED
  BY DeliveryProjects, Invariance, DeliveryInitInv, DeliveryInvStep, <1>1, <1>2, PTL
     DEF DeliverySpec
=============================================================================
