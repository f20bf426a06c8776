---------------------- MODULE ActivityExecution_proofs ----------------------
(***************************************************************************)
(* Proofs about ActivityExecution, for any number of attempts, business    *)
(* steps and runs: the types, that every business step takes effect at     *)
(* most once and answers with what it wrote, that only attempts of the     *)
(* owner run commit, that a late activity never revives a closed mission,  *)
(* and that the protocol implements ExactlyOnce.                           *)
(***************************************************************************)
EXTENDS ActivityExecution, TLAPS

\* What an attempt has been asked to do.
CallInv ==
    \A a \in Attempts :
        /\ pc[a] = "idle" => call[a] = NoCall
        /\ pc[a] # "idle" =>
             /\ call[a] \in Calls
             /\ call[a].level = KeyInfo[call[a].slot[2]].level

\* Who holds the mission row, and for what.
LockInv ==
    /\ rowLock.by = "start" => rowLock.run \in Runs
    /\ \A a \in Attempts : pc[a] = "working" => rowLock = Holds("attempt", 0, a)

\* A step has its record exactly when it has taken effect, and the record
\* holds what it wrote.
RecordInv ==
    \A s \in Slots : effects[s] = IF record[s] = NoEntry THEN {} ELSE {record[s].value}

\* The attempt at work still acts for the owner, finds no record of its step
\* and an open mission: it checked under the lock that it still holds.
WorkInv ==
    \A a \in Attempts : pc[a] = "working" =>
        /\ record[call[a].slot] = NoEntry
        /\ FenceOK(a)
        /\ mission.status \notin Terminal

\* The prepared result an attempt holds, and where it comes from.
LocalInv ==
    \A a \in Attempts :
        /\ pc[a] = "computed" => local[a] \in Attempts
        /\ pc[a] = "stored" => cache[call[a].slot] # NoEntry
        /\ pc[a] \in {"ready", "working"} /\ Info(a).kind = "prepared" =>
             /\ cache[call[a].slot] # NoEntry
             /\ local[a] = cache[call[a].slot].value

\* The record of a prepared step holds the result that was cached.
CacheInv ==
    \A s \in Slots : record[s] # NoEntry /\ KeyInfo[s[2]].kind = "prepared" =>
        /\ cache[s] # NoEntry
        /\ record[s].value = cache[s].value

AnswerInv ==
    \A a \in Attempts :
        /\ answer[a] # None => pc[a] \in {"answered", "done"}
        /\ pc[a] \in {"answered", "done"} =>
             /\ record[call[a].slot] = [payload |-> call[a].payload, value |-> answer[a]]

IInv == /\ TypeOK
        /\ CallInv
        /\ LockInv
        /\ RecordInv
        /\ WorkInv
        /\ LocalInv
        /\ CacheInv
        /\ AnswerInv
-----------------------------------------------------------------------------
THEOREM InitInv == Init => IInv
<1> SUFFICES ASSUME Init PROVE IInv
  OBVIOUS
<1> USE DEF Init
<1>1. TypeOK
  <2>1. RowTypes
    BY MaxRunsAssumption DEF RowTypes, MissionStatus, MissionStage, NoLock
  <2>2. TemporalTypes
    BY MaxRunsAssumption DEF TemporalTypes, RunStatus, Runs
  <2>3. AttemptTypes
    BY DEF AttemptTypes, ControlPoints, Errors
  <2>4. StoreTypes
    BY DEF StoreTypes
  <2> QED
    BY <2>1, <2>2, <2>3, <2>4 DEF TypeOK
<1>2. CallInv
  BY DEF CallInv
<1>3. LockInv
  BY DEF LockInv, NoLock
<1>4. RecordInv
  BY DEF RecordInv
<1>5. WorkInv
  BY DEF WorkInv
<1>6. LocalInv
  BY DEF LocalInv
<1>7. CacheInv
  BY DEF CacheInv
<1>8. AnswerInv
  BY DEF AnswerInv
<1> QED
  BY <1>1, <1>2, <1>3, <1>4, <1>5, <1>6, <1>7, <1>8 DEF IInv

WorldStep == Start \/ (\E r \in Runs : RunStep(r)) \/ Register \/ Reconcile

\* The steps of the start command, of the runs, of recovery and of
\* reconciliation leave attempts and idempotency records alone, and those that
\* write the mission row or its owner are no attempt's lock.
LEMMA WorldFrame ==
  WorldStep => /\ UNCHANGED <<attemptVars, storeVars>>
               /\ \/ UNCHANGED <<mission, owner, rowLock>>
                  \/ RowFree /\ mission' = mission /\ owner' = owner /\ rowLock'.by # "attempt"
                  \/ RowFree /\ rowLock' = rowLock
                  \/ rowLock.by \in {"start", "reconcile"} /\ rowLock' = NoLock
<1> SUFFICES ASSUME WorldStep
             PROVE  /\ UNCHANGED <<attemptVars, storeVars>>
                    /\ \/ UNCHANGED <<mission, owner, rowLock>>
                       \/ RowFree /\ mission' = mission /\ owner' = owner /\ rowLock'.by # "attempt"
                       \/ RowFree /\ rowLock' = rowLock
                       \/ rowLock.by \in {"start", "reconcile"} /\ rowLock' = NoLock
  OBVIOUS
<1> USE DEF attemptVars, storeVars, recoveryVars, temporalVars, rowVars
<1>1. CASE Start
  BY <1>1 DEF Start, StartWorkflow, StartCommit, StartRollback, Holds
<1>2. CASE \E r \in Runs : RunStep(r)
  BY <1>2 DEF RunStep, RunCompletes, RunFails, RunContinuesAsNew, ResetRun
<1>3. CASE Register
  BY <1>3 DEF Register, RegisterDescribe, RegisterCommit
<1>4. CASE Reconcile
  BY <1>4 DEF Reconcile, ReconcileDescribe, ReconcileCommit, Holds
<1> QED
  BY <1>1, <1>2, <1>3, <1>4 DEF WorldStep

LEMMA WorldTypes == TypeOK /\ LockInv /\ WorldStep => TypeOK'
<1> SUFFICES ASSUME TypeOK, LockInv, WorldStep PROVE TypeOK'
  OBVIOUS
<1> USE DEF attemptVars, storeVars, recoveryVars, temporalVars, rowVars
<1>1. AttemptTypes' /\ StoreTypes'
  BY WorldFrame DEF TypeOK, AttemptTypes, StoreTypes
<1>2. RowTypes'
  <2> USE MaxRunsAssumption DEF TypeOK, RowTypes
  <2>1. CASE StartWorkflow
    BY <2>1 DEF StartWorkflow, Holds, TemporalTypes
  <2>2. CASE StartCommit
    BY <2>2 DEF StartCommit, NoLock, MissionStatus, MissionStage, LockInv
  <2>3. CASE StartRollback
    BY <2>3 DEF StartRollback, NoLock
  <2>4. ASSUME NEW r \in Runs, RunStep(r) PROVE RowTypes'
    BY <2>4 DEF RunStep, RunCompletes, RunFails, RunContinuesAsNew, ResetRun
  <2>5. ASSUME NEW r \in Runs, RegisterDescribe(r) PROVE RowTypes'
    BY <2>5 DEF RegisterDescribe
  <2>6. CASE RegisterCommit
    BY <2>6 DEF RegisterCommit, MissionStatus, MissionStage, TemporalTypes
  <2>7. ASSUME NEW r \in Runs, ReconcileDescribe(r) PROVE RowTypes'
    BY <2>7 DEF ReconcileDescribe, Holds, Runs
  <2>8. CASE ReconcileCommit
    BY <2>8 DEF ReconcileCommit, NoLock, MissionStatus, MissionStage, Terminal
  <2> HIDE DEF TypeOK, RowTypes
  <2> QED
    BY <2>1, <2>2, <2>3, <2>4, <2>5, <2>6, <2>7, <2>8
       DEF WorldStep, Start, Register, Reconcile
<1>3. TemporalTypes'
  <2> USE MaxRunsAssumption DEF TypeOK, TemporalTypes
  <2>1. CASE StartWorkflow
    <3>1. latest + 1 \in Runs /\ latest + 1 \in 0..MaxRuns
      BY <2>1 DEF StartWorkflow, Runs
    <3>2. [status |-> "RUNNING", first |-> latest + 1, reset |-> FALSE]
            \in [status: RunStatus, first: Runs, reset: BOOLEAN]
      BY <3>1 DEF RunStatus
    <3>3. latest' = latest + 1 /\ UNCHANGED recoveryVars
          /\ run' = [run EXCEPT ![latest + 1] = [status |-> "RUNNING", first |-> latest + 1, reset |-> FALSE]]
      BY <2>1 DEF StartWorkflow
    <3>4. run' \in [Runs -> [status: RunStatus, first: Runs, reset: BOOLEAN]]
      BY <3>2, <3>3
    <3> QED
      BY <3>1, <3>3, <3>4 DEF recoveryVars
  <2>2. CASE StartCommit
    BY <2>2 DEF StartCommit, LockInv
  <2>3. CASE StartRollback
    BY <2>3 DEF StartRollback
  <2>4. ASSUME NEW r \in Runs, RunStep(r) PROVE TemporalTypes'
    <3> USE DEF RunStatus, Runs
    <3>1. CASE RunCompletes(r)
      BY <3>1 DEF RunCompletes
    <3>2. CASE RunFails(r)
      BY <3>2 DEF RunFails
    <3>3. CASE RunContinuesAsNew(r)
      <4>1. latest + 1 \in 0..MaxRuns
        BY <3>3 DEF RunContinuesAsNew
      <4>2. run' \in [Runs -> [status: RunStatus, first: Runs, reset: BOOLEAN]]
        BY <3>3, <4>1 DEF RunContinuesAsNew
      <4> QED
        BY <3>3, <4>1, <4>2 DEF RunContinuesAsNew
    <3>4. CASE ResetRun(r)
      <4>1. latest + 1 \in 0..MaxRuns
        BY <3>4 DEF ResetRun
      <4>2. run' \in [Runs -> [status: RunStatus, first: Runs, reset: BOOLEAN]]
        BY <3>4, <4>1 DEF ResetRun
      <4> QED
        BY <3>4, <4>1, <4>2 DEF ResetRun
    <3> QED
      BY <2>4, <3>1, <3>2, <3>3, <3>4 DEF RunStep
  <2>5. ASSUME NEW r \in Runs, RegisterDescribe(r) PROVE TemporalTypes'
    BY <2>5 DEF RegisterDescribe, Runs
  <2>6. CASE RegisterCommit
    <3>1. registering \in Runs
      BY <2>6 DEF RegisterCommit, Runs
    <3>2. run[registering].first \in Runs
      BY <3>1
    <3>3. UNCHANGED <<latest, run>> /\ registering' = 0
      BY <2>6 DEF RegisterCommit
    <3>4. served' \subseteq Runs /\ recovered' \subseteq Runs
      <4>1. CASE run[registering].first \in recovered
        BY <2>6, <4>1 DEF RegisterCommit
      <4>2. CASE run[registering].first \notin recovered
        BY <2>6, <3>1, <3>2, <4>2 DEF RegisterCommit
      <4> QED
        BY <4>1, <4>2
    <3> QED
      BY <3>3, <3>4
  <2>7. ASSUME NEW r \in Runs, ReconcileDescribe(r) PROVE TemporalTypes'
    BY <2>7 DEF ReconcileDescribe
  <2>8. CASE ReconcileCommit
    BY <2>8 DEF ReconcileCommit
  <2> HIDE DEF TypeOK, TemporalTypes
  <2> QED
    BY <2>1, <2>2, <2>3, <2>4, <2>5, <2>6, <2>7, <2>8
       DEF WorldStep, Start, Register, Reconcile
<1> QED
  BY <1>1, <1>2, <1>3 DEF TypeOK

LEMMA WorldInv == IInv /\ WorldStep => IInv'
<1> SUFFICES ASSUME IInv, WorldStep PROVE IInv'
  OBVIOUS
<1>1. TypeOK'
  BY WorldTypes DEF IInv
<1>2. UNCHANGED <<attemptVars, storeVars>>
  BY WorldFrame
<1>3. CallInv' /\ RecordInv' /\ LocalInv' /\ CacheInv' /\ AnswerInv'
  BY <1>2 DEF IInv, CallInv, RecordInv, LocalInv, CacheInv, AnswerInv, Info, attemptVars,
      storeVars
<1>4. ASSUME NEW a \in Attempts, pc'[a] = "working"
      PROVE  UNCHANGED <<mission, owner, rowLock>>
  <2>1. rowLock = Holds("attempt", 0, a)
    BY <1>2, <1>4 DEF IInv, LockInv, attemptVars
  <2> QED
    BY <2>1, WorldFrame DEF RowFree, NoLock, Holds
<1>5. LockInv'
  <2>1. ASSUME rowLock'.by = "start" PROVE rowLock'.run \in Runs
    <3> USE DEF rowVars
    <3>1. CASE StartWorkflow
      <4>1. latest + 1 \in Runs /\ rowLock'.run = latest + 1
        BY <3>1, MaxRunsAssumption DEF StartWorkflow, Holds, IInv, TypeOK, TemporalTypes, Runs
      <4> QED
        BY <4>1
    <3>2. CASE StartCommit \/ StartRollback \/ ReconcileCommit
      BY <2>1, <3>2 DEF StartCommit, StartRollback, ReconcileCommit, NoLock
    <3>3. CASE \E r \in Runs : RunStep(r)
      BY <2>1, <3>3 DEF RunStep, RunCompletes, RunFails, RunContinuesAsNew, ResetRun,
          IInv, LockInv
    <3>4. CASE Register
      BY <2>1, <3>4 DEF Register, RegisterDescribe, RegisterCommit, IInv, LockInv
    <3>5. CASE \E r \in Runs : ReconcileDescribe(r)
      BY <2>1, <3>5 DEF ReconcileDescribe, Holds
    <3> QED
      BY <3>1, <3>2, <3>3, <3>4, <3>5 DEF WorldStep, Start, Reconcile
  <2>2. ASSUME NEW a \in Attempts, pc'[a] = "working" PROVE rowLock' = Holds("attempt", 0, a)
    BY <1>2, <1>4, <2>2 DEF IInv, LockInv, attemptVars
  <2> QED
    BY <2>1, <2>2 DEF LockInv, Holds
<1>6. WorkInv'
  BY <1>2, <1>4 DEF IInv, WorkInv, FenceOK, attemptVars, storeVars
<1> QED
  BY <1>1, <1>3, <1>5, <1>6 DEF IInv

LEMMA SlotOf ==
  ASSUME IInv, NEW a \in Attempts, pc[a] # "idle"
  PROVE  /\ call[a].slot \in Slots
         /\ call[a].payload \in Nat
         /\ call[a].level = KeyInfo[call[a].slot[2]].level
         /\ KeyInfo[call[a].slot[2]] \in [kind: Kinds, level: Levels, payloads: Nat, completes: BOOLEAN]
<1>1. call[a] \in Calls /\ call[a].level = KeyInfo[call[a].slot[2]].level
  BY DEF IInv, CallInv
<1>2. call[a].slot \in Slots /\ call[a].payload \in Nat /\ call[a].slot[2] \in Keys
  BY <1>1 DEF Calls, Slots
<1> QED
  BY <1>1, <1>2, KeyInfoAssumption

LEMMA CheckOwnerInv == ASSUME IInv, NEW a \in Attempts, CheckOwner(a) PROVE IInv'
<1> USE DEF IInv, CheckOwner, Fail, Advance, GoTo, worldVars, rowVars, temporalVars,
    recoveryVars, storeVars
<1>1. RowTypes'
  BY DEF TypeOK, RowTypes
<1>2. TemporalTypes'
  BY DEF TypeOK, TemporalTypes
<1>3. AttemptTypes'
  BY DEF TypeOK, AttemptTypes, ControlPoints, Errors
<1>4. StoreTypes'
  BY DEF TypeOK, StoreTypes
<1>5. CallInv'
  BY DEF TypeOK, AttemptTypes, CallInv
<1>6. LockInv'
  BY DEF TypeOK, AttemptTypes, LockInv
<1>7. RecordInv'
  BY DEF RecordInv
<1>8. WorkInv'
  BY DEF TypeOK, AttemptTypes, WorkInv, LockInv, RowFree, NoLock, Holds
<1>9. LocalInv'
  BY DEF TypeOK, AttemptTypes, LocalInv, Info
<1>10. CacheInv'
  BY DEF CacheInv
<1>11. AnswerInv'
  BY DEF TypeOK, AttemptTypes, AnswerInv
<1> QED
  BY <1>1, <1>2, <1>3, <1>4, <1>5, <1>6, <1>7, <1>8, <1>9, <1>10, <1>11 DEF TypeOK

LEMMA LookupCompletedInv == ASSUME IInv, NEW a \in Attempts, LookupCompleted(a) PROVE IInv'
<1> USE DEF IInv, LookupCompleted, Fail, Advance, Answer, GoTo, worldVars, rowVars,
    temporalVars, recoveryVars, storeVars
<1>1. RowTypes'
  BY DEF TypeOK, RowTypes
<1>2. TemporalTypes'
  BY DEF TypeOK, TemporalTypes
<1>3. AttemptTypes'
  BY DEF TypeOK, AttemptTypes, StoreTypes, ControlPoints, Errors, Known, CallInv, Calls,
      Entries, NoEntry
<1>4. StoreTypes'
  BY DEF TypeOK, StoreTypes
<1>5. CallInv'
  BY DEF TypeOK, AttemptTypes, CallInv
<1>6. LockInv'
  BY DEF TypeOK, AttemptTypes, LockInv
<1>7. RecordInv'
  BY DEF RecordInv
<1>8. WorkInv'
  BY DEF TypeOK, AttemptTypes, WorkInv, FenceOK
<1>9. LocalInv'
  BY DEF TypeOK, AttemptTypes, LocalInv, Info
<1>10. CacheInv'
  BY DEF CacheInv
<1>11. AnswerInv'
  BY DEF TypeOK, AttemptTypes, StoreTypes, AnswerInv, Known, Conflicts, CallInv, Calls, Entries
<1> QED
  BY <1>1, <1>2, <1>3, <1>4, <1>5, <1>6, <1>7, <1>8, <1>9, <1>10, <1>11 DEF TypeOK

LEMMA LookupPreparedInv == ASSUME IInv, NEW a \in Attempts, LookupPrepared(a) PROVE IInv'
<1> USE DEF IInv, LookupPrepared, Fail, Advance, Hold, GoTo, worldVars, rowVars,
    temporalVars, recoveryVars, storeVars
<1>1. RowTypes'
  BY DEF TypeOK, RowTypes
<1>2. TemporalTypes'
  BY DEF TypeOK, TemporalTypes
<1>3. AttemptTypes'
  <2>1. Prepared(a) # NoEntry => Prepared(a).value \in Attempts
    BY SlotOf DEF Prepared, TypeOK, StoreTypes, Entries
  <2> QED
    BY <2>1 DEF TypeOK, AttemptTypes, ControlPoints, Errors
<1>4. StoreTypes'
  BY DEF TypeOK, StoreTypes
<1>5. CallInv'
  BY DEF TypeOK, AttemptTypes, CallInv
<1>6. LockInv'
  BY DEF TypeOK, AttemptTypes, LockInv
<1>7. RecordInv'
  BY DEF RecordInv
<1>8. WorkInv'
  BY DEF TypeOK, AttemptTypes, WorkInv, FenceOK
<1>9. LocalInv'
  BY DEF TypeOK, AttemptTypes, LocalInv, Info, Prepared
<1>10. CacheInv'
  BY DEF CacheInv
<1>11. AnswerInv'
  BY DEF TypeOK, AttemptTypes, AnswerInv
<1> QED
  BY <1>1, <1>2, <1>3, <1>4, <1>5, <1>6, <1>7, <1>8, <1>9, <1>10, <1>11 DEF TypeOK

LEMMA PrepareInv == ASSUME IInv, NEW a \in Attempts, Prepare(a) PROVE IInv'
<1> USE DEF IInv, Prepare, Fail, Hold, GoTo, worldVars, rowVars, temporalVars,
    recoveryVars, storeVars
<1>1. RowTypes'
  BY DEF TypeOK, RowTypes
<1>2. TemporalTypes'
  BY DEF TypeOK, TemporalTypes
<1>3. AttemptTypes'
  BY DEF TypeOK, AttemptTypes, ControlPoints, Errors
<1>4. StoreTypes'
  BY DEF TypeOK, StoreTypes
<1>5. CallInv'
  BY DEF TypeOK, AttemptTypes, CallInv
<1>6. LockInv'
  BY DEF TypeOK, AttemptTypes, LockInv
<1>7. RecordInv'
  BY DEF RecordInv
<1>8. WorkInv'
  BY DEF TypeOK, AttemptTypes, WorkInv, FenceOK
<1>9. LocalInv'
  BY DEF TypeOK, AttemptTypes, LocalInv, Info
<1>10. CacheInv'
  BY DEF CacheInv
<1>11. AnswerInv'
  BY DEF TypeOK, AttemptTypes, AnswerInv
<1> QED
  BY <1>1, <1>2, <1>3, <1>4, <1>5, <1>6, <1>7, <1>8, <1>9, <1>10, <1>11 DEF TypeOK

LEMMA PrepareOverBudgetInv == ASSUME IInv, NEW a \in Attempts, PrepareOverBudget(a) PROVE IInv'
<1> USE DEF IInv, PrepareOverBudget, Fail, GoTo, worldVars, temporalVars, recoveryVars,
    storeVars
<1>1. RowTypes'
  BY DEF TypeOK, RowTypes, MissionStage
<1>2. TemporalTypes'
  BY DEF TypeOK, TemporalTypes
<1>3. AttemptTypes'
  BY DEF TypeOK, AttemptTypes, ControlPoints, Errors
<1>4. StoreTypes'
  BY DEF TypeOK, StoreTypes
<1>5. CallInv'
  BY DEF TypeOK, AttemptTypes, CallInv
<1>6. LockInv'
  BY DEF TypeOK, AttemptTypes, LockInv
<1>7. RecordInv'
  BY DEF RecordInv
<1>8. WorkInv'
  BY DEF TypeOK, AttemptTypes, WorkInv, LockInv, RowFree, NoLock, Holds
<1>9. LocalInv'
  BY DEF TypeOK, AttemptTypes, LocalInv, Info
<1>10. CacheInv'
  BY DEF CacheInv
<1>11. AnswerInv'
  BY DEF TypeOK, AttemptTypes, AnswerInv
<1> QED
  BY <1>1, <1>2, <1>3, <1>4, <1>5, <1>6, <1>7, <1>8, <1>9, <1>10, <1>11 DEF TypeOK

LEMMA StorePreparedInv == ASSUME IInv, NEW a \in Attempts, StorePrepared(a) PROVE IInv'
<1> USE DEF IInv, StorePrepared, Advance, GoTo, worldVars, rowVars, temporalVars,
    recoveryVars, attemptVars, storeVars
<1>1. call[a].slot \in Slots /\ call[a].payload \in Nat /\ local[a] \in Attempts
  BY SlotOf DEF LocalInv
<1>2. /\ cache' \in [Slots -> Entries \cup {NoEntry}]
      /\ cache'[call[a].slot] # NoEntry
      /\ \A s \in Slots : cache[s] # NoEntry => cache'[s] = cache[s]
  BY <1>1, NoneAssumption DEF TypeOK, StoreTypes, Entries, NoEntry
<1>3. RowTypes' /\ TemporalTypes' /\ CallInv' /\ LockInv' /\ RecordInv'
  BY DEF TypeOK, AttemptTypes, RowTypes, TemporalTypes, CallInv, LockInv, RecordInv
<1>4. AttemptTypes' /\ StoreTypes'
  BY <1>2 DEF TypeOK, AttemptTypes, StoreTypes, ControlPoints
<1>5. WorkInv' /\ AnswerInv'
  BY DEF TypeOK, AttemptTypes, WorkInv, FenceOK, AnswerInv
<1>6. LocalInv'
  <2> SUFFICES ASSUME NEW b \in Attempts
               PROVE  /\ pc'[b] = "computed" => local[b] \in Attempts
                      /\ pc'[b] = "stored" => cache'[call[b].slot] # NoEntry
                      /\ pc'[b] \in {"ready", "working"} /\ Info(b).kind = "prepared" =>
                           /\ cache'[call[b].slot] # NoEntry
                           /\ local[b] = cache'[call[b].slot].value
    BY DEF LocalInv, Info
  <2>1. CASE b = a
    BY <2>1, <1>2 DEF TypeOK, AttemptTypes
  <2>2. CASE b # a
    <3>1. pc'[b] = pc[b]
      BY <2>2 DEF TypeOK, AttemptTypes
    <3>2. CASE pc[b] = "idle"
      BY <3>1, <3>2
    <3>3. CASE pc[b] # "idle"
      BY <1>2, <3>1, <3>3, SlotOf DEF LocalInv
    <3> QED
      BY <3>2, <3>3
  <2> QED
    BY <2>1, <2>2
<1>7. CacheInv'
  BY <1>2 DEF TypeOK, StoreTypes, CacheInv
<1> QED
  BY <1>3, <1>4, <1>5, <1>6, <1>7 DEF TypeOK

LEMMA ReadPreparedInv == ASSUME IInv, NEW a \in Attempts, ReadPrepared(a) PROVE IInv'
<1> USE DEF IInv, ReadPrepared, Hold, GoTo, worldVars, rowVars, temporalVars,
    recoveryVars, storeVars
<1>1. RowTypes'
  BY DEF TypeOK, RowTypes
<1>2. TemporalTypes'
  BY DEF TypeOK, TemporalTypes
<1>3. AttemptTypes'
  BY DEF TypeOK, AttemptTypes, StoreTypes, ControlPoints, Prepared, CallInv, Calls,
      Entries, LocalInv
<1>4. StoreTypes'
  BY DEF TypeOK, StoreTypes
<1>5. CallInv'
  BY DEF TypeOK, AttemptTypes, CallInv
<1>6. LockInv'
  BY DEF TypeOK, AttemptTypes, LockInv
<1>7. RecordInv'
  BY DEF RecordInv
<1>8. WorkInv'
  BY DEF WorkInv, FenceOK
<1>9. LocalInv'
  BY DEF TypeOK, AttemptTypes, LocalInv, Info, Prepared
<1>10. CacheInv'
  BY DEF CacheInv
<1>11. AnswerInv'
  BY DEF TypeOK, AttemptTypes, AnswerInv
<1> QED
  BY <1>1, <1>2, <1>3, <1>4, <1>5, <1>6, <1>7, <1>8, <1>9, <1>10, <1>11 DEF TypeOK

\* What the owner check, the lookup, the state check and the abort check let through.
LEMMA BeginCommitCases ==
  ASSUME NEW a \in Attempts, BeginCommit(a)
  PROVE  /\ pc[a] = "ready" /\ RowFree
         /\ UNCHANGED <<mission, owner, worldVars, storeVars>>
         /\ \/ UNCHANGED rowLock /\ \E e \in Errors : Fail(a, e)
            \/ /\ UNCHANGED rowLock
               /\ Known(a) # NoEntry /\ ~Conflicts(a, Known(a))
               /\ Answer(a, Known(a).value)
            \/ /\ rowLock' = Holds("attempt", 0, a)
               /\ Known(a) = NoEntry /\ FenceOK(a) /\ ~MissionIsTerminal
               /\ Advance(a, "working")
<1>1. pc[a] = "ready" /\ RowFree /\ UNCHANGED <<mission, owner, worldVars, storeVars>>
  BY DEF BeginCommit
<1> QED
  BY <1>1 DEF BeginCommit, Errors

LEMMA BeginCommitInv == ASSUME IInv, NEW a \in Attempts, BeginCommit(a) PROVE IInv'
<1> USE DEF IInv, worldVars, rowVars, temporalVars, recoveryVars, attemptVars, storeVars
<1>1. pc[a] = "ready" /\ RowFree /\ UNCHANGED <<mission, owner, worldVars, storeVars>>
  BY BeginCommitCases
<1>2. call[a].slot \in Slots
  BY <1>1, SlotOf
<1>3. TemporalTypes' /\ StoreTypes' /\ RecordInv' /\ CacheInv'
  BY <1>1 DEF TypeOK, TemporalTypes, StoreTypes, RecordInv, CacheInv
<1>4. \A b \in Attempts : pc[b] # "working"
  BY <1>1 DEF LockInv, RowFree, NoLock, Holds
<1>5. CASE UNCHANGED rowLock /\ \E e \in Errors : Fail(a, e)
  <2> USE <1>1, <1>5 DEF Fail, GoTo
  <2>1. RowTypes' /\ LockInv' /\ CallInv'
    BY DEF TypeOK, RowTypes, AttemptTypes, LockInv, CallInv
  <2>2. AttemptTypes'
    BY DEF TypeOK, AttemptTypes, ControlPoints
  <2>3. WorkInv' /\ LocalInv' /\ AnswerInv'
    BY <1>4 DEF TypeOK, AttemptTypes, WorkInv, LocalInv, AnswerInv, Info
  <2> QED
    BY <1>3, <2>1, <2>2, <2>3 DEF TypeOK
<1>6. CASE /\ UNCHANGED rowLock
           /\ Known(a) # NoEntry /\ ~Conflicts(a, Known(a))
           /\ Answer(a, Known(a).value)
  <2> USE <1>1, <1>6 DEF Answer, GoTo
  <2>1. Known(a) \in Entries /\ Known(a) = record[call[a].slot]
    BY <1>2 DEF Known, TypeOK, StoreTypes
  <2>2. RowTypes' /\ LockInv' /\ CallInv'
    BY DEF TypeOK, RowTypes, AttemptTypes, LockInv, CallInv
  <2>3. AttemptTypes'
    BY <2>1 DEF TypeOK, AttemptTypes, ControlPoints, Entries
  <2>4. WorkInv' /\ LocalInv'
    BY <1>4 DEF TypeOK, AttemptTypes, WorkInv, LocalInv, Info
  <2>5. Known(a) = [payload |-> call[a].payload, value |-> Known(a).value]
    BY <2>1 DEF Conflicts, Entries
  <2>6. AnswerInv'
    BY <2>1, <2>5 DEF TypeOK, AttemptTypes, AnswerInv
  <2> QED
    BY <1>3, <2>2, <2>3, <2>4, <2>6 DEF TypeOK
<1>7. CASE /\ rowLock' = Holds("attempt", 0, a)
           /\ Known(a) = NoEntry /\ FenceOK(a) /\ ~MissionIsTerminal
           /\ Advance(a, "working")
  <2> USE <1>1, <1>7 DEF Advance, GoTo
  <2>1. RowTypes'
    BY MaxRunsAssumption DEF TypeOK, RowTypes, Holds
  <2>2. LockInv'
    BY <1>4 DEF TypeOK, AttemptTypes, LockInv, Holds
  <2>3. AttemptTypes' /\ CallInv'
    BY DEF TypeOK, AttemptTypes, ControlPoints, CallInv
  <2>4. WorkInv'
    BY <1>4 DEF TypeOK, AttemptTypes, WorkInv, FenceOK, Known, MissionIsTerminal
  <2>5. LocalInv' /\ AnswerInv'
    BY DEF TypeOK, AttemptTypes, LocalInv, AnswerInv, Info
  <2> QED
    BY <1>3, <2>1, <2>2, <2>3, <2>4, <2>5 DEF TypeOK
<1> QED
  BY <1>5, <1>6, <1>7, BeginCommitCases

LEMMA FinishCommitInv == ASSUME IInv, NEW a \in Attempts, FinishCommit(a) PROVE IInv'
<1> USE DEF IInv, FinishCommit, Answer, GoTo, worldVars, rowVars, temporalVars,
    recoveryVars, attemptVars, storeVars
<1> DEFINE s == call[a].slot
<1>1. /\ s \in Slots /\ call[a].payload \in Nat /\ record[s] = NoEntry
      /\ KeyInfo[s[2]] \in [kind: Kinds, level: Levels, payloads: Nat, completes: BOOLEAN]
  BY SlotOf DEF WorkInv
<1>2. Written(a) \in Attempts
  <2>1. CASE Info(a).kind = "prepared"
    BY <1>1, <2>1 DEF Written, LocalInv, TypeOK, StoreTypes, Entries
  <2>2. CASE Info(a).kind # "prepared"
    BY <2>2 DEF Written
  <2> QED
    BY <2>1, <2>2
<1>3. \A b \in Attempts : b # a => pc[b] # "working"
  BY DEF LockInv, Holds
<1>4. RowTypes'
  <2>1. mission \in [status: MissionStatus, stage: MissionStage]
    BY DEF TypeOK, RowTypes
  <2>2. AfterWork(a) \subseteq [status: MissionStatus, stage: MissionStage]
    BY <2>1 DEF AfterWork, MissionStatus, MissionStage, Terminal
  <2> QED
    BY <2>2, MaxRunsAssumption DEF TypeOK, RowTypes, NoLock
<1>5. TemporalTypes' /\ CallInv'
  BY DEF TypeOK, TemporalTypes, AttemptTypes, CallInv
<1>6. AttemptTypes'
  BY <1>2 DEF TypeOK, AttemptTypes, ControlPoints
<1>7. [payload |-> call[a].payload, value |-> Written(a)] \in Entries
  BY <1>1, <1>2 DEF Entries
<1>8. StoreTypes'
  BY <1>1, <1>2, <1>7 DEF TypeOK, StoreTypes
<1>9. LockInv'
  BY <1>3 DEF TypeOK, AttemptTypes, LockInv, NoLock
<1>10. /\ record'[s] = [payload |-> call[a].payload, value |-> Written(a)]
       /\ effects'[s] = {Written(a)}
       /\ \A t \in Slots : t # s => record'[t] = record[t] /\ effects'[t] = effects[t]
  BY <1>1 DEF TypeOK, StoreTypes, RecordInv
<1>11. record'[s] # NoEntry
  BY <1>2, <1>10, NoneAssumption DEF NoEntry
<1>12. RecordInv'
  <2> SUFFICES ASSUME NEW t \in Slots
               PROVE  effects'[t] = IF record'[t] = NoEntry THEN {} ELSE {record'[t].value}
    BY DEF RecordInv
  <2>1. CASE t = s
    BY <1>10, <1>11, <2>1
  <2>2. CASE t # s
    BY <1>10, <2>2 DEF RecordInv
  <2> QED
    BY <2>1, <2>2
<1>13. WorkInv'
  BY <1>3 DEF TypeOK, AttemptTypes, WorkInv
<1>14. LocalInv'
  BY DEF TypeOK, AttemptTypes, LocalInv, Info
<1>15. CacheInv'
  BY <1>10 DEF CacheInv, LocalInv, Written, Info
<1>16. AnswerInv'
  <2> SUFFICES ASSUME NEW b \in Attempts
               PROVE  /\ answer'[b] # None => pc'[b] \in {"answered", "done"}
                      /\ pc'[b] \in {"answered", "done"} =>
                           record'[call[b].slot] = [payload |-> call[b].payload, value |-> answer'[b]]
    BY DEF AnswerInv
  <2>1. CASE b = a
    BY <1>10, <2>1 DEF TypeOK, AttemptTypes
  <2>2. CASE b # a
    <3>1. pc'[b] = pc[b] /\ answer'[b] = answer[b]
      BY <2>2 DEF TypeOK, AttemptTypes
    <3>2. ASSUME pc[b] \in {"answered", "done"}
          PROVE  record'[call[b].slot] = [payload |-> call[b].payload, value |-> answer[b]]
      <4>1. call[b].slot \in Slots
        BY <3>2, SlotOf
      <4>2. record[call[b].slot] = [payload |-> call[b].payload, value |-> answer[b]]
        BY <3>2 DEF AnswerInv
      <4>3. call[b].payload # 0
        BY <3>2 DEF CallInv, Calls
      <4>4. call[b].slot # s
        BY <1>1, <4>2, <4>3 DEF NoEntry
      <4> QED
        BY <1>10, <4>1, <4>2, <4>4
    <3> QED
      BY <3>1, <3>2 DEF AnswerInv
  <2> QED
    BY <2>1, <2>2
<1> QED
  BY <1>4, <1>5, <1>6, <1>8, <1>9, <1>12, <1>13, <1>14, <1>15, <1>16 DEF TypeOK

LEMMA RollBackInv == ASSUME IInv, NEW a \in Attempts, RollBack(a) PROVE IInv'
<1> USE DEF IInv, worldVars, rowVars, temporalVars, recoveryVars, attemptVars, storeVars
<1>1. /\ pc[a] = "working" /\ rowLock' = NoLock
      /\ UNCHANGED <<mission, owner, worldVars, storeVars>>
      /\ \E e \in Errors : Fail(a, e)
  BY DEF RollBack, Errors
<1>2. \A b \in Attempts : b # a => pc[b] # "working"
  BY <1>1 DEF LockInv, Holds
<1>3. RowTypes'
  BY <1>1, MaxRunsAssumption DEF TypeOK, RowTypes, NoLock
<1>4. TemporalTypes' /\ StoreTypes' /\ RecordInv' /\ CacheInv'
  BY <1>1 DEF TypeOK, TemporalTypes, StoreTypes, RecordInv, CacheInv
<1>5. AttemptTypes' /\ CallInv'
  BY <1>1 DEF Fail, GoTo, TypeOK, AttemptTypes, ControlPoints, CallInv
<1>6. LockInv' /\ WorkInv'
  BY <1>1, <1>2 DEF Fail, GoTo, TypeOK, AttemptTypes, LockInv, WorkInv, NoLock
<1>7. LocalInv' /\ AnswerInv'
  BY <1>1 DEF Fail, GoTo, TypeOK, AttemptTypes, LocalInv, AnswerInv, Info
<1> QED
  BY <1>3, <1>4, <1>5, <1>6, <1>7 DEF TypeOK

LEMMA RespondInv == ASSUME IInv, NEW a \in Attempts, Respond(a) PROVE IInv'
<1> USE DEF IInv, Respond, Advance, GoTo, worldVars, rowVars, temporalVars, recoveryVars,
    storeVars
<1>1. RowTypes'
  BY DEF TypeOK, RowTypes
<1>2. TemporalTypes'
  BY DEF TypeOK, TemporalTypes
<1>3. AttemptTypes'
  BY DEF TypeOK, AttemptTypes, ControlPoints, Errors
<1>4. StoreTypes'
  BY DEF TypeOK, StoreTypes
<1>5. CallInv'
  BY DEF TypeOK, AttemptTypes, CallInv
<1>6. LockInv'
  BY DEF TypeOK, AttemptTypes, LockInv
<1>7. RecordInv'
  BY DEF RecordInv
<1>8. WorkInv'
  BY DEF WorkInv, FenceOK
<1>9. LocalInv'
  BY DEF TypeOK, AttemptTypes, LocalInv, Info
<1>10. CacheInv'
  BY DEF CacheInv
<1>11. AnswerInv'
  BY DEF TypeOK, AttemptTypes, AnswerInv
<1> QED
  BY <1>1, <1>2, <1>3, <1>4, <1>5, <1>6, <1>7, <1>8, <1>9, <1>10, <1>11 DEF TypeOK

LEMMA TimeOutInv == ASSUME IInv, NEW a \in Attempts, TimeOut(a) PROVE IInv'
<1> USE DEF IInv, TimeOut, rowVars, temporalVars, recoveryVars, storeVars
<1>1. RowTypes'
  BY DEF TypeOK, RowTypes
<1>2. TemporalTypes'
  BY DEF TypeOK, TemporalTypes
<1>3. AttemptTypes'
  BY DEF TypeOK, AttemptTypes, ControlPoints, Errors
<1>4. StoreTypes'
  BY DEF TypeOK, StoreTypes
<1>5. CallInv'
  BY DEF TypeOK, AttemptTypes, CallInv
<1>6. LockInv'
  BY DEF TypeOK, AttemptTypes, LockInv
<1>7. RecordInv'
  BY DEF RecordInv
<1>8. WorkInv'
  BY DEF WorkInv, FenceOK
<1>9. LocalInv'
  BY DEF TypeOK, AttemptTypes, LocalInv, Info
<1>10. CacheInv'
  BY DEF CacheInv
<1>11. AnswerInv'
  BY DEF TypeOK, AttemptTypes, AnswerInv
<1> QED
  BY <1>1, <1>2, <1>3, <1>4, <1>5, <1>6, <1>7, <1>8, <1>9, <1>10, <1>11 DEF TypeOK

LEMMA AbortInv == ASSUME IInv, NEW a \in Attempts, Abort(a) PROVE IInv'
<1> USE DEF IInv, Abort, rowVars, temporalVars, recoveryVars, storeVars
<1>1. RowTypes'
  BY DEF TypeOK, RowTypes
<1>2. TemporalTypes'
  BY DEF TypeOK, TemporalTypes
<1>3. AttemptTypes'
  BY DEF TypeOK, AttemptTypes, ControlPoints, Errors
<1>4. StoreTypes'
  BY DEF TypeOK, StoreTypes
<1>5. CallInv'
  BY DEF TypeOK, AttemptTypes, CallInv
<1>6. LockInv'
  BY DEF TypeOK, AttemptTypes, LockInv
<1>7. RecordInv'
  BY DEF RecordInv
<1>8. WorkInv'
  BY DEF WorkInv, FenceOK
<1>9. LocalInv'
  BY DEF TypeOK, AttemptTypes, LocalInv, Info
<1>10. CacheInv'
  BY DEF CacheInv
<1>11. AnswerInv'
  BY DEF TypeOK, AttemptTypes, AnswerInv
<1> QED
  BY <1>1, <1>2, <1>3, <1>4, <1>5, <1>6, <1>7, <1>8, <1>9, <1>10, <1>11 DEF TypeOK

LEMMA ScheduleInv ==
  ASSUME IInv, NEW a \in Attempts, NEW r \in Runs, NEW k \in Keys,
         NEW p \in 1..KeyInfo[k].payloads, Schedule(a, r, k, p)
  PROVE  IInv'
<1> DEFINE level == KeyInfo[k].level
           point == IF KeyInfo[k].kind = "prepared" THEN "scheduled" ELSE "ready"
           new == [run |-> r, level |-> level, claim |-> Claim(r, level),
                   slot |-> <<Scope(r, level), k>>, payload |-> p]
<1> USE DEF IInv, rowVars, temporalVars, recoveryVars, attemptVars, storeVars
<1>1. KeyInfo[k] \in [kind: Kinds, level: Levels, payloads: Nat, completes: BOOLEAN]
  BY KeyInfoAssumption
<1>2. /\ pc[a] = "idle" /\ pc' = [pc EXCEPT ![a] = point]
      /\ call' = [call EXCEPT ![a] = new]
      /\ UNCHANGED <<local, answer, error, timedOut, aborted,
                     rowVars, temporalVars, recoveryVars, storeVars>>
  BY DEF Schedule, Advance, GoTo
<1>3. r \in 0..MaxRuns /\ run[r].first \in 0..MaxRuns
  BY DEF TypeOK, TemporalTypes, Runs
<1>4. Claim(r, level) \in 0..MaxRuns /\ Scope(r, level) \in Scopes
  BY <1>3, MaxRunsAssumption DEF Claim, Scope, Scopes
<1>5. new \in Calls
  BY <1>1, <1>4 DEF Calls, Slots
<1>6. RowTypes' /\ TemporalTypes' /\ StoreTypes' /\ RecordInv' /\ CacheInv'
  BY <1>2 DEF TypeOK, RowTypes, TemporalTypes, StoreTypes, RecordInv, CacheInv
<1>7. AttemptTypes'
  BY <1>2, <1>5 DEF TypeOK, AttemptTypes, ControlPoints
<1>8. CallInv'
  BY <1>2, <1>5 DEF TypeOK, AttemptTypes, CallInv
<1>9. LockInv' /\ WorkInv'
  BY <1>2 DEF TypeOK, AttemptTypes, LockInv, WorkInv, FenceOK
<1>10. LocalInv'
  <2> SUFFICES ASSUME NEW b \in Attempts
               PROVE  /\ pc'[b] = "computed" => local[b] \in Attempts
                      /\ pc'[b] = "stored" => cache[call'[b].slot] # NoEntry
                      /\ pc'[b] \in {"ready", "working"} /\ KeyInfo[call'[b].slot[2]].kind = "prepared" =>
                           /\ cache[call'[b].slot] # NoEntry
                           /\ local[b] = cache[call'[b].slot].value
    BY <1>2 DEF LocalInv, Info
  <2>1. CASE b = a
    BY <1>2, <2>1 DEF TypeOK, AttemptTypes
  <2>2. CASE b # a
    BY <1>2, <2>2 DEF TypeOK, AttemptTypes, LocalInv, Info
  <2> QED
    BY <2>1, <2>2
<1>11. AnswerInv'
  BY <1>2 DEF TypeOK, AttemptTypes, AnswerInv
<1> QED
  BY <1>6, <1>7, <1>8, <1>9, <1>10, <1>11 DEF TypeOK

LEMMA AttemptInv == ASSUME IInv, NEW a \in Attempts, Attempt(a) PROVE IInv'
  BY ScheduleInv, CheckOwnerInv, LookupCompletedInv, LookupPreparedInv, PrepareInv,
     PrepareOverBudgetInv, StorePreparedInv, ReadPreparedInv, BeginCommitInv,
     FinishCommitInv, RollBackInv, RespondInv, TimeOutInv, AbortInv DEF Attempt

LEMMA StutterInv == IInv /\ UNCHANGED vars => IInv'
<1> SUFFICES ASSUME IInv, UNCHANGED vars PROVE IInv'
  OBVIOUS
<1> USE DEF IInv, vars, rowVars, temporalVars, recoveryVars, attemptVars, storeVars
<1>1. TypeOK'
  BY DEF TypeOK, RowTypes, TemporalTypes, AttemptTypes, StoreTypes
<1>2. CallInv' /\ LockInv' /\ RecordInv' /\ WorkInv'
  BY DEF CallInv, LockInv, RecordInv, WorkInv, FenceOK
<1>3. LocalInv' /\ CacheInv' /\ AnswerInv'
  BY DEF LocalInv, CacheInv, AnswerInv, Info
<1> QED
  BY <1>1, <1>2, <1>3

\* IInv holds in every state the worker, Temporal and the API reach together.
THEOREM Invariance == Spec => []IInv
<1>1. Init => IInv
  BY InitInv
<1>2. IInv /\ [Next]_vars => IInv'
  BY WorldInv, AttemptInv, StutterInv DEF Next, WorldStep
<1> QED
  BY <1>1, <1>2, PTL DEF Spec

-----------------------------------------------------------------------------
\* Every variable keeps its type.
THEOREM TypeCorrect == Spec => []TypeOK
<1>1. IInv => TypeOK
  BY DEF IInv
<1> QED
  BY <1>1, Invariance, PTL

\* However many attempts of however many runs race for a business step, at
\* most one of them commits its work.
THEOREM EffectsAreUnique == Spec => ExactlyOneEffect
<1>1. IInv => \A a \in Attempts : pc[a] = "working" /\ pc'[a] = "answered" =>
                 effects[call[a].slot] = {}
  BY DEF IInv, CallInv, Calls, WorkInv, RecordInv
<1> QED
  BY <1>1, Invariance, PTL DEF ExactlyOneEffect

\* Every attempt that is answered is told what was written, for its payload.
THEOREM AnswersAgree == Spec => []SameAnswer
<1>1. IInv => SameAnswer
  <2> SUFFICES ASSUME IInv, NEW a \in Attempts, pc[a] \in {"answered", "done"}
               PROVE  /\ record[call[a].slot] = [payload |-> call[a].payload, value |-> answer[a]]
                      /\ effects[call[a].slot] = {answer[a]}
    BY DEF SameAnswer
  <2>1. record[call[a].slot] = [payload |-> call[a].payload, value |-> answer[a]]
    BY DEF IInv, AnswerInv
  <2>2. call[a].slot \in Slots /\ call[a].payload # 0
    BY SlotOf DEF IInv, CallInv, Calls
  <2>3. record[call[a].slot] # NoEntry
    BY <2>1, <2>2 DEF NoEntry
  <2>4. effects[call[a].slot] = {record[call[a].slot].value}
    BY <2>2, <2>3 DEF IInv, RecordInv
  <2> QED
    BY <2>1, <2>4
<1> QED
  BY <1>1, Invariance, PTL

\* What a prepared step answers is the first result that was cached for it.
THEOREM FirstPreparedWins == Spec => []CommittedWasPrepared
<1>1. IInv => CommittedWasPrepared
  <2> SUFFICES ASSUME IInv, NEW a \in Attempts, pc[a] \in {"answered", "done"},
                      Info(a).kind = "prepared"
               PROVE  cache[call[a].slot].value = answer[a]
    BY DEF CommittedWasPrepared
  <2>1. record[call[a].slot] = [payload |-> call[a].payload, value |-> answer[a]]
    BY DEF IInv, AnswerInv
  <2>2. call[a].slot \in Slots /\ call[a].payload # 0
    BY SlotOf DEF IInv, CallInv, Calls
  <2>3. record[call[a].slot] # NoEntry
    BY <2>1, <2>2 DEF NoEntry
  <2> QED
    BY <2>1, <2>2, <2>3 DEF IInv, CacheInv, Info
<1> QED
  BY <1>1, Invariance, PTL

\* The fence holds when the work commits, not only when it was checked.
THEOREM CommitsAreFenced == Spec => OnlyOwnerCommits
<1>1. IInv => \A a \in Attempts : pc[a] = "working" /\ pc'[a] = "answered" =>
                 call[a].level = "independent" \/ owner = call[a].claim
  BY DEF IInv, WorkInv, FenceOK
<1> QED
  BY <1>1, Invariance, PTL DEF OnlyOwnerCommits

-----------------------------------------------------------------------------
\* The owner is a run that exists, a recovered one only once; the run that a
\* start or a registration is about to make the owner is another one; and a
\* reconciliation that holds the row found the mission open.
OwnerInv ==
    /\ owner <= latest
    /\ owner # 0 /\ run[owner].reset => run[owner].first \in recovered
    /\ registering # 0 => registering <= latest /\ run[registering].reset
    /\ rowLock.by = "start" => rowLock.run # owner /\ rowLock.run <= latest
                               /\ ~run[rowLock.run].reset
    /\ rowLock.by = "reconcile" => mission.status \notin Terminal

LEMMA OwnerInit == Init => OwnerInv
  BY DEF Init, OwnerInv, NoLock

\* A step of a run adds runs and closes runs; it resets none that exists.
LEMMA RunStepFrame ==
  ASSUME IInv, NEW r \in Runs, RunStep(r)
  PROVE  /\ UNCHANGED <<mission, owner, rowLock, recovered, registering>>
         /\ latest' >= latest /\ latest \in Nat
         /\ \A q \in Runs : q <= latest => run'[q].reset = run[q].reset /\ run'[q].first = run[q].first
<1> USE DEF rowVars, recoveryVars, IInv, TypeOK, TemporalTypes
<1>1. CASE RunCompletes(r)
  BY <1>1 DEF RunCompletes
<1>2. CASE RunFails(r)
  BY <1>2 DEF RunFails
<1>3. CASE RunContinuesAsNew(r)
  <2>1. latest' = latest + 1 /\ latest \in Nat
    BY <1>3, MaxRunsAssumption DEF RunContinuesAsNew
  <2>2. \A q \in Runs : q # latest + 1 => run'[q].reset = run[q].reset /\ run'[q].first = run[q].first
    BY <1>3 DEF RunContinuesAsNew
  <2>3. UNCHANGED <<mission, owner, rowLock, recovered, registering>>
    BY <1>3 DEF RunContinuesAsNew
  <2>4. \A q \in Runs : q <= latest => q # latest + 1
    BY <2>1 DEF Runs
  <2> QED
    BY <2>1, <2>2, <2>3, <2>4
<1>4. CASE ResetRun(r)
  <2>1. latest' = latest + 1 /\ latest \in Nat
    BY <1>4, MaxRunsAssumption DEF ResetRun
  <2>2. \A q \in Runs : q # latest + 1 => run'[q].reset = run[q].reset /\ run'[q].first = run[q].first
    BY <1>4, <2>1 DEF ResetRun
  <2>3. UNCHANGED <<mission, owner, rowLock, recovered, registering>>
    BY <1>4 DEF ResetRun
  <2>4. \A q \in Runs : q <= latest => q # latest + 1
    BY <2>1 DEF Runs
  <2> QED
    BY <2>1, <2>2, <2>3, <2>4
<1> QED
  BY <1>1, <1>2, <1>3, <1>4 DEF RunStep

LEMMA OwnerStep == IInv /\ OwnerInv /\ [Next]_vars => OwnerInv'
<1> SUFFICES ASSUME IInv, OwnerInv, [Next]_vars PROVE OwnerInv'
  OBVIOUS
<1>1. /\ latest \in 0..MaxRuns /\ owner \in 0..MaxRuns /\ registering \in 0..MaxRuns
      /\ run \in [Runs -> [status: RunStatus, first: Runs, reset: BOOLEAN]]
      /\ rowLock.by = "start" => rowLock.run \in Runs
  BY DEF IInv, TypeOK, TemporalTypes, RowTypes, LockInv
<1> USE <1>1, MaxRunsAssumption DEF Runs
<1>2. CASE StartWorkflow
  <2>1. /\ latest' = latest + 1 /\ latest + 1 \in Runs /\ rowLock'.by = "start"
        /\ rowLock'.run = latest + 1 /\ UNCHANGED <<mission, owner, recovered, registering>>
    BY <1>2 DEF StartWorkflow, Holds, recoveryVars
  <2>2. ~run'[latest + 1].reset /\ \A q \in Runs : q # latest + 1 => run'[q] = run[q]
    BY <1>2, <2>1 DEF StartWorkflow
  <2>3. owner <= latest /\ owner # latest + 1 /\ (owner # 0 => owner \in Runs)
    BY DEF OwnerInv
  <2>4. registering # 0 => registering <= latest /\ registering # latest + 1 /\ registering \in Runs
    BY DEF OwnerInv
  <2>5. owner' <= latest'
    BY <2>1, <2>3
  <2>6. owner' # 0 /\ run'[owner'].reset => run'[owner'].first \in recovered'
    BY <2>1, <2>2, <2>3 DEF OwnerInv
  <2>7. registering' # 0 => registering' <= latest' /\ run'[registering'].reset
    BY <2>1, <2>2, <2>4 DEF OwnerInv
  <2>8. rowLock'.run # owner' /\ rowLock'.run <= latest' /\ ~run'[rowLock'.run].reset
    BY <2>1, <2>2, <2>3
  <2> QED
    BY <2>1, <2>5, <2>6, <2>7, <2>8 DEF OwnerInv
<1>3. CASE StartCommit
  BY <1>3 DEF StartCommit, OwnerInv, NoLock, temporalVars
<1>4. CASE StartRollback
  BY <1>4 DEF StartRollback, OwnerInv, NoLock, temporalVars, recoveryVars
<1>5. ASSUME NEW r \in Runs, RunStep(r) PROVE OwnerInv'
  <2>1. /\ UNCHANGED <<mission, owner, rowLock, recovered, registering>> /\ latest' >= latest
        /\ \A q \in Runs : q <= latest => run'[q].reset = run[q].reset /\ run'[q].first = run[q].first
    BY <1>5, RunStepFrame
  <2>2. latest' \in Nat
    <3>1. IInv'
      BY <1>5, WorldInv DEF WorldStep
    <3> QED
      BY <3>1 DEF IInv, TypeOK, TemporalTypes
  <2>3. owner <= latest' /\ (owner # 0 => owner \in Runs /\ owner <= latest)
    BY <2>1, <2>2 DEF OwnerInv
  <2>4. registering # 0 => registering \in Runs /\ registering <= latest /\ registering <= latest'
    BY <2>1, <2>2 DEF OwnerInv
  <2>5. rowLock.by = "start" => rowLock.run <= latest'
    BY <2>1, <2>2 DEF OwnerInv
  <2> QED
    BY <2>1, <2>4, <2>5, <2>3 DEF OwnerInv
<1>6. ASSUME NEW r \in Runs, RegisterDescribe(r) PROVE OwnerInv'
  BY <1>6 DEF RegisterDescribe, OwnerInv, IsCurrent, rowVars, temporalVars
<1>7. CASE RegisterCommit
  <2> USE <1>7 DEF RegisterCommit, temporalVars
  <2>1. rowLock' = rowLock /\ rowLock.by = "none" /\ registering' = 0 /\ registering # 0
        /\ UNCHANGED <<latest, run>> /\ registering <= latest
    BY DEF OwnerInv, RowFree, NoLock
  <2>2. CASE run[registering].first \in recovered
    BY <2>1, <2>2 DEF OwnerInv
  <2>3. CASE run[registering].first \notin recovered
    BY <2>1, <2>3 DEF OwnerInv
  <2> QED
    BY <2>2, <2>3
<1>8. ASSUME NEW r \in Runs, ReconcileDescribe(r) PROVE OwnerInv'
  BY <1>8 DEF ReconcileDescribe, OwnerInv, Holds, MissionIsTerminal, temporalVars, recoveryVars
<1>9. CASE ReconcileCommit
  BY <1>9 DEF ReconcileCommit, OwnerInv, NoLock, temporalVars, recoveryVars
<1>10. ASSUME NEW a \in Attempts, Attempt(a) PROVE OwnerInv'
  <2>1. UNCHANGED <<owner, latest, run, recovered, registering>>
    BY <1>10 DEF Attempt, Schedule, CheckOwner, LookupCompleted, LookupPrepared, Prepare,
       PrepareOverBudget, StorePrepared, ReadPrepared, BeginCommit, FinishCommit, RollBack,
       Respond, TimeOut, Abort, worldVars, rowVars, temporalVars, recoveryVars
  <2>2. rowLock'.by \in {"start", "reconcile"} => UNCHANGED <<rowLock, mission>>
    BY <1>10 DEF Attempt, Schedule, CheckOwner, LookupCompleted, LookupPrepared, Prepare,
       PrepareOverBudget, StorePrepared, ReadPrepared, BeginCommit, FinishCommit, RollBack,
       Respond, TimeOut, Abort, rowVars, RowFree, NoLock, Holds
  <2> QED
    BY <2>1, <2>2 DEF OwnerInv
<1>11. CASE UNCHANGED vars
  BY <1>11 DEF vars, rowVars, temporalVars, recoveryVars, OwnerInv
<1> QED
  BY <1>2, <1>3, <1>4, <1>5, <1>6, <1>7, <1>8, <1>9, <1>10, <1>11
     DEF Next, Start, Register, Reconcile

\* Only a new start or a registered recovery gives a closed mission another
\* status: no activity does, however late it commits.
THEOREM ClosedStaysClosed == Spec => LateActivityNeverRevives
<1>1. IInv /\ OwnerInv /\ [Next]_vars =>
        (mission.status \in Terminal /\ mission'.status # mission.status => owner' # owner)
  <2> SUFFICES ASSUME IInv, OwnerInv, Next, mission.status \in Terminal,
                      mission'.status # mission.status
               PROVE  owner' # owner
    BY DEF vars, rowVars
  <2>1. CASE Start
    BY <2>1 DEF Start, StartWorkflow, StartCommit, StartRollback, OwnerInv, rowVars
  <2>2. CASE \E r \in Runs : RunStep(r)
    BY <2>2, RunStepFrame
  <2>3. CASE Register
    BY <2>3 DEF Register, RegisterDescribe, RegisterCommit, OwnerInv, rowVars
  <2>4. CASE Reconcile
    BY <2>4 DEF Reconcile, ReconcileDescribe, ReconcileCommit, OwnerInv, rowVars
  <2>5. ASSUME NEW a \in Attempts, Attempt(a) PROVE FALSE
    <3>1. CASE FinishCommit(a)
      BY <3>1 DEF FinishCommit, IInv, WorkInv
    <3>2. CASE PrepareOverBudget(a)
      BY <3>2 DEF PrepareOverBudget, IInv, TypeOK, RowTypes
    <3>3. CASE ~FinishCommit(a) /\ ~PrepareOverBudget(a)
      BY <2>5, <3>3 DEF Attempt, Schedule, CheckOwner, LookupCompleted, LookupPrepared, Prepare,
         StorePrepared, ReadPrepared, BeginCommit, RollBack, Respond, TimeOut, Abort, rowVars
    <3> QED
      BY <3>1, <3>2, <3>3
  <2> QED
    BY <2>1, <2>2, <2>3, <2>4, <2>5 DEF Next
<1>2. Spec => []OwnerInv
  BY OwnerInit, OwnerStep, Invariance, PTL DEF Spec
<1> QED
  BY <1>1, <1>2, Invariance, PTL DEF Spec, LateActivityNeverRevives

-----------------------------------------------------------------------------
(* Only the latest run is open.  Under a reconciliation's lock the run it   *)
(* described stays closed, and only a reset makes another one current: a    *)
(* start needs the row, and a closed run does not continue as new.          *)
OpenInv == \A q \in Runs : run[q].status = "RUNNING" => q = latest
HeldInv ==
    rowLock.by = "reconcile" =>
        /\ rowLock.run \in Runs /\ run[rowLock.run].status \in ClosedStatus
        /\ rowLock.run <= latest
        /\ latest = rowLock.run \/ \E q \in Runs : q > rowLock.run /\ q <= latest /\ run[q].reset

LEMMA HeldInit == Init => OpenInv /\ HeldInv
  BY DEF Init, OpenInv, HeldInv, NoLock

\* What a run's step does to the runs that exist.
LEMMA RunStepOpen ==
  ASSUME IInv, OpenInv, NEW r \in Runs, RunStep(r)
  PROVE  /\ OpenInv'
         /\ \A q \in Runs : q <= latest /\ run[q].status \in ClosedStatus => run'[q] = run[q]
         /\ latest' # latest =>
              \/ run[latest].status \notin ClosedStatus
              \/ latest' = latest + 1 /\ latest' \in Runs /\ run'[latest'].reset
<1> USE MaxRunsAssumption DEF Runs, ClosedStatus
<1>0. /\ latest \in 0 .. MaxRuns
      /\ run \in [Runs -> [status: RunStatus, first: Runs, reset: BOOLEAN]]
  BY DEF IInv, TypeOK, TemporalTypes
<1>1. CASE RunCompletes(r) \/ RunFails(r)
  BY <1>0, <1>1 DEF RunCompletes, RunFails, OpenInv
<1>2. CASE RunContinuesAsNew(r)
  <2>1. r = latest /\ latest' = latest + 1 /\ latest + 1 \in Runs
    BY <1>0, <1>2 DEF RunContinuesAsNew, OpenInv
  <2>2. /\ \A q \in Runs : q # latest /\ q # latest + 1 => run'[q] = run[q]
        /\ run'[latest].status = "CONTINUED_AS_NEW"
    BY <1>0, <1>2, <2>1 DEF RunContinuesAsNew
  <2>3. run[latest].status = "RUNNING"
    BY <1>2, <2>1 DEF RunContinuesAsNew
  <2>4. OpenInv'
    BY <1>0, <2>1, <2>2 DEF OpenInv
  <2> QED
    BY <1>0, <2>1, <2>2, <2>3, <2>4
<1>3. CASE ResetRun(r)
  <2>1. latest' = latest + 1 /\ latest + 1 \in Runs
    BY <1>0, <1>3 DEF ResetRun
  <2>2. /\ run'[latest + 1].reset
        /\ \A q \in Runs : q # latest + 1 =>
             run'[q] = IF q = latest /\ run[q].status = "RUNNING"
                       THEN [run[q] EXCEPT !.status = "FAILED"] ELSE run[q]
    BY <1>3, <2>1 DEF ResetRun
  <2>3. OpenInv'
    BY <1>0, <2>1, <2>2 DEF OpenInv
  <2>4. \A q \in Runs : q # latest + 1 /\ run[q].status # "RUNNING" => run'[q] = run[q]
    BY <2>2
  <2>5. \A q \in Runs : q <= latest => q # latest + 1
    BY <1>0
  <2>6. \A q \in Runs : run[q].status \in ClosedStatus => run[q].status # "RUNNING"
    OBVIOUS
  <2> HIDE DEF ClosedStatus
  <2> QED
    BY <2>1, <2>2, <2>3, <2>4, <2>5, <2>6
<1> QED
  BY <1>1, <1>2, <1>3 DEF RunStep

\* Whoever else takes steps leaves the runs, or the lock, as they are.
LEMMA HeldStep == IInv /\ OpenInv /\ HeldInv /\ [Next]_vars => OpenInv' /\ HeldInv'
<1> SUFFICES ASSUME IInv, OpenInv, HeldInv, [Next]_vars PROVE OpenInv' /\ HeldInv'
  OBVIOUS
<1>0. /\ latest \in 0 .. MaxRuns
      /\ run \in [Runs -> [status: RunStatus, first: Runs, reset: BOOLEAN]]
  BY DEF IInv, TypeOK, TemporalTypes
<1> USE <1>0, MaxRunsAssumption DEF Runs
<1>1. CASE StartWorkflow
  <2>1. /\ latest' = latest + 1 /\ latest + 1 \in Runs /\ rowLock'.by = "start"
        /\ \A q \in Runs : q # latest + 1 => run'[q] = run[q]
        /\ latest \in Runs => run[latest].status # "RUNNING"
    BY <1>1 DEF StartWorkflow, Holds
  <2>2. \A q \in Runs : run'[q].status = "RUNNING" => q = latest + 1
    BY <2>1 DEF OpenInv
  <2> QED
    BY <2>1, <2>2 DEF OpenInv, HeldInv
<1>2. CASE StartCommit \/ StartRollback \/ ReconcileCommit
  <2>1. rowLock'.by = "none" /\ UNCHANGED <<latest, run>>
    BY <1>2 DEF StartCommit, StartRollback, ReconcileCommit, NoLock, temporalVars
  <2> QED
    BY <2>1 DEF OpenInv, HeldInv
<1>3. ASSUME NEW r \in Runs, RunStep(r) PROVE OpenInv' /\ HeldInv'
  <2>1. /\ OpenInv' /\ rowLock' = rowLock /\ latest' >= latest
        /\ \A q \in Runs : q <= latest /\ run[q].status \in ClosedStatus => run'[q] = run[q]
        /\ latest' # latest =>
              \/ run[latest].status \notin ClosedStatus
              \/ latest' = latest + 1 /\ latest' \in Runs /\ run'[latest'].reset
        /\ \A q \in Runs : q <= latest => run'[q].reset = run[q].reset
    BY <1>3, RunStepOpen, RunStepFrame
  <2>2. ASSUME rowLock.by = "reconcile"
        PROVE  /\ rowLock.run \in Runs /\ run'[rowLock.run].status \in ClosedStatus
               /\ rowLock.run <= latest'
               /\ \/ latest' = rowLock.run
                  \/ \E q \in Runs : q > rowLock.run /\ q <= latest' /\ run'[q].reset
    <3>0. latest' \in Nat
      <4>1. IInv'
        BY <1>3, WorldInv DEF WorldStep
      <4> QED
        BY <4>1 DEF IInv, TypeOK, TemporalTypes
    <3>1. /\ rowLock.run \in Runs /\ run[rowLock.run].status \in ClosedStatus
          /\ rowLock.run <= latest
          /\ latest = rowLock.run \/ \E q \in Runs : q > rowLock.run /\ q <= latest /\ run[q].reset
      BY <2>2 DEF HeldInv
    <3>4. run'[rowLock.run] = run[rowLock.run]
      <4> HIDE <1>0
      <4> QED
        BY <2>1, <3>1
    <3>5. rowLock.run <= latest'
      <4>1. /\ rowLock.run \in Nat /\ latest \in Nat /\ latest' \in Nat
            /\ rowLock.run <= latest /\ latest <= latest'
        BY <2>1, <3>0, <3>1
      <4> QED
        BY <4>1
    <3>2. CASE \E q \in Runs : q > rowLock.run /\ q <= latest /\ run[q].reset
      <4>1. PICK q \in Runs : q > rowLock.run /\ q <= latest /\ run[q].reset
        BY <3>2
      <4>2. run'[q].reset /\ q <= latest'
        BY <2>1, <3>0, <4>1
      <4> QED
        BY <3>1, <3>4, <3>5, <4>1, <4>2
    <3>3. CASE latest = rowLock.run
      <4>2. latest' # latest => /\ latest' \in Runs /\ latest' > rowLock.run
                                /\ run'[latest'].reset
        BY <2>1, <3>0, <3>1, <3>3
      <4>3. CASE latest' = latest
        BY <3>1, <3>3, <3>4, <3>5, <4>3
      <4>4. CASE latest' # latest
        <5>1. \E q \in Runs : q > rowLock.run /\ q <= latest' /\ run'[q].reset
          BY <3>0, <4>2, <4>4
        <5> QED
          BY <3>1, <3>4, <3>5, <5>1
      <4> QED
        BY <4>3, <4>4
    <3> QED
      BY <3>1, <3>2, <3>3
  <2> QED
    BY <2>1, <2>2 DEF HeldInv
<1>4. CASE Register
  BY <1>4 DEF Register, RegisterDescribe, RegisterCommit, OpenInv, HeldInv, rowVars, temporalVars
<1>5. ASSUME NEW r \in Runs, ReconcileDescribe(r) PROVE OpenInv' /\ HeldInv'
  BY <1>5 DEF ReconcileDescribe, Closed, IsCurrent, Holds, OpenInv, HeldInv, temporalVars
<1>6. ASSUME NEW a \in Attempts, Attempt(a) PROVE OpenInv' /\ HeldInv'
  <2>1. UNCHANGED <<latest, run>>
    BY <1>6 DEF Attempt, Schedule, CheckOwner, LookupCompleted, LookupPrepared, Prepare,
       PrepareOverBudget, StorePrepared, ReadPrepared, BeginCommit, FinishCommit, RollBack,
       Respond, TimeOut, Abort, worldVars, temporalVars
  <2>2. rowLock'.by = "reconcile" => rowLock' = rowLock
    BY <1>6 DEF Attempt, Schedule, CheckOwner, LookupCompleted, LookupPrepared, Prepare,
       PrepareOverBudget, StorePrepared, ReadPrepared, BeginCommit, FinishCommit, RollBack,
       Respond, TimeOut, Abort, rowVars, NoLock, Holds
  <2> QED
    BY <2>1, <2>2 DEF OpenInv, HeldInv
<1>7. CASE UNCHANGED vars
  BY <1>7 DEF vars, rowVars, temporalVars, OpenInv, HeldInv
<1> QED
  BY <1>1, <1>2, <1>3, <1>4, <1>5, <1>6, <1>7 DEF Next, Start, Reconcile

\* A reconciliation closes a mission only on the word of its current run, and
\* between its answer and its write nothing but a reset makes another current.
THEOREM NewerRunsAreSpared == Spec => ReconcileSparesNewerRun
<1>1. IInv /\ HeldInv /\ [Next]_vars =>
        (rowLock.by = "reconcile" /\ mission' # mission =>
           \/ latest = rowLock.run /\ run[latest].status \in ClosedStatus
           \/ \E q \in Runs : q > rowLock.run /\ run[q].reset)
  BY DEF HeldInv
<1>2. Spec => [](OpenInv /\ HeldInv)
  BY HeldInit, HeldStep, Invariance, PTL DEF Spec
<1> QED
  BY <1>1, <1>2, Invariance, PTL DEF Spec, ReconcileSparesNewerRun

-----------------------------------------------------------------------------
(* The refinement: to submit is to schedule, to execute is to commit, and  *)
(* to recall is to be answered from the record.                            *)

LEMMA AbstractInit == Init => Abstract!Init
  BY DEF Init, Abstract!Init

LEMMA AbstractRecall ==
  ASSUME IInv, NEW a \in Attempts, pc[a] \in {"owned", "ready"}, Known(a) # NoEntry,
         Answer(a, Known(a).value), UNCHANGED <<call, effects>>
  PROVE  Abstract!Recall(a)
<1>1. call[a].slot \in Slots
  BY SlotOf
<1>2. call[a].slot # NoCall.slot
  BY <1>1, NoneAssumption DEF NoCall, Slots
<1>3. answer[a] = None
  BY DEF IInv, AnswerInv
<1>4. Known(a).value \in effects[call[a].slot]
  BY <1>1 DEF IInv, RecordInv, Known
<1> QED
  BY <1>1, <1>2, <1>3, <1>4 DEF Abstract!Recall, Answer

LEMMA AbstractExecute ==
  ASSUME IInv, NEW a \in Attempts, FinishCommit(a)
  PROVE  Abstract!Execute(a, Written(a)) /\ Written(a) \in Attempts
<1>1. call[a].slot \in Slots /\ pc[a] = "working" /\ pc'[a] = "answered" /\ UNCHANGED call
  BY SlotOf DEF FinishCommit, worldVars, Answer, GoTo, IInv, TypeOK, AttemptTypes
<1>2. call[a].slot # NoCall.slot
  BY <1>1, NoneAssumption DEF NoCall, Slots
<1>3. answer[a] = None
  BY <1>1 DEF IInv, AnswerInv
<1>4. effects[call[a].slot] = {}
  BY <1>1 DEF IInv, WorkInv, RecordInv
<1>5. effects' = [effects EXCEPT ![call[a].slot] = {Written(a)}]
  BY <1>4 DEF FinishCommit
<1>6. Written(a) \in Attempts
  <2>1. record'[call[a].slot] = [payload |-> call[a].payload, value |-> Written(a)]
    BY <1>1 DEF FinishCommit, IInv, TypeOK, StoreTypes
  <2>2. call[a].payload # 0
    BY <1>1 DEF IInv, CallInv, Calls
  <2>3. record'[call[a].slot] # NoEntry
    BY <2>1, <2>2 DEF NoEntry
  <2>4. record'[call[a].slot] \in Entries
    BY <1>1, <2>3, FinishCommitInv DEF IInv, TypeOK, StoreTypes
  <2> QED
    BY <2>1, <2>4 DEF Entries
<1> QED
  BY <1>1, <1>2, <1>3, <1>4, <1>5, <1>6 DEF Abstract!Execute, FinishCommit, Answer

LEMMA AbstractSubmit ==
  ASSUME IInv, NEW a \in Attempts, NEW r \in Runs, NEW k \in Keys,
         NEW p \in 1..KeyInfo[k].payloads, Schedule(a, r, k, p)
  PROVE  Abstract!Submit(a, <<Scope(r, KeyInfo[k].level), k>>)
         /\ <<Scope(r, KeyInfo[k].level), k>> \in Slots
<1> DEFINE s == <<Scope(r, KeyInfo[k].level), k>>
<1>1. pc[a] = "idle" /\ pc'[a] # "idle" /\ UNCHANGED <<effects, answer>>
  BY DEF Schedule, Advance, GoTo, storeVars, IInv, TypeOK, AttemptTypes
<1>2. call[a] = NoCall
  BY <1>1 DEF IInv, CallInv
<1>3. /\ call'[a].slot = s
      /\ \A b \in Attempts : b # a => call'[b] = call[b]
  BY DEF Schedule, IInv, TypeOK, AttemptTypes
<1>4. s \in Slots
  BY <1>1, <1>3, ScheduleInv, SlotOf DEF IInv, CallInv, Calls, Slots
<1> QED
  BY <1>1, <1>2, <1>3, <1>4 DEF Abstract!Submit

LEMMA AbstractStep == IInv /\ [Next]_vars => [Abstract!Next]_Abstract!vars
<1> SUFFICES ASSUME IInv, [Next]_vars PROVE [Abstract!Next]_Abstract!vars
  OBVIOUS
<1> USE DEF Abstract!vars
<1>1. ASSUME UNCHANGED <<call, effects, answer>> PROVE UNCHANGED Abstract!vars
  BY <1>1
<1>2. CASE WorldStep
  BY <1>1, <1>2, WorldFrame DEF attemptVars, storeVars
<1>3. ASSUME NEW a \in Attempts, Attempt(a) PROVE [Abstract!Next]_Abstract!vars
  <2> USE DEF rowVars, temporalVars, recoveryVars, attemptVars, storeVars, worldVars
  <2>1. ASSUME NEW r \in Runs, NEW k \in Keys, NEW p \in 1..KeyInfo[k].payloads, Schedule(a, r, k, p)
        PROVE  Abstract!Next
    <3> DEFINE s == <<Scope(r, KeyInfo[k].level), k>>
    <3>1. s \in Slots /\ Abstract!Submit(a, s)
      BY <2>1, AbstractSubmit
    <3> HIDE DEF s
    <3>2. \E t \in Slots : Abstract!Submit(a, t)
      BY <3>1 DEF Abstract!Submit
    <3> QED
      BY <3>2 DEF Abstract!Next
  <2>2. CASE LookupCompleted(a)
    BY <1>1, <2>2, AbstractRecall DEF LookupCompleted, Fail, Advance, Abstract!Next
  <2>3. CASE BeginCommit(a)
    BY <1>1, <2>3, AbstractRecall, BeginCommitCases DEF Fail, Advance, Abstract!Next
  <2>4. CASE FinishCommit(a)
    BY <2>4, AbstractExecute DEF Abstract!Next
  <2>5. CASE CheckOwner(a) \/ LookupPrepared(a) \/ Prepare(a) \/ PrepareOverBudget(a)
    BY <1>1, <2>5 DEF CheckOwner, LookupPrepared, Prepare, PrepareOverBudget, Fail,
        Advance, Hold
  <2>6. CASE StorePrepared(a) \/ ReadPrepared(a) \/ RollBack(a)
    BY <1>1, <2>6 DEF StorePrepared, ReadPrepared, RollBack, Fail, Advance, Hold
  <2>7. CASE Respond(a) \/ TimeOut(a) \/ Abort(a)
    BY <1>1, <2>7 DEF Respond, TimeOut, Abort, Advance
  <2> QED
    BY <1>3, <2>1, <2>2, <2>3, <2>4, <2>5, <2>6, <2>7 DEF Attempt
<1>4. CASE UNCHANGED vars
  BY <1>1, <1>4 DEF vars, attemptVars, storeVars
<1> QED
  BY <1>2, <1>3, <1>4 DEF Next, WorldStep

\* The three wrappers, with all their runs, races and caches, are an
\* exactly-once service.
THEOREM Refinement == Spec => ImplementsExactlyOnce
<1>1. Init => Abstract!Init
  BY AbstractInit
<1>2. IInv /\ [Next]_vars => [Abstract!Next]_Abstract!vars
  BY AbstractStep
<1> QED
  BY <1>1, <1>2, Invariance, PTL DEF Spec, ImplementsExactlyOnce, Abstract!Spec
=============================================================================
