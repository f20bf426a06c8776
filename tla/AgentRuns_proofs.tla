-------------------------- MODULE AgentRuns_proofs --------------------------
(***************************************************************************)
(* Theorems of AgentRuns, for any steps, evidence and bounds.  What is     *)
(* cached is supported, a late answer is dropped and a failure stands      *)
(* because an activity that asks, validates or reviews has its run under   *)
(* way; the audit accounts for every request because an attempt's number is*)
(* that of the requests announced before it, whichever write failed, or    *)
(* lost its answer, on the way.                                            *)
(***************************************************************************)
EXTENDS AgentRuns, FiniteSetTheorems, SequenceTheorems, TLAPS

Before == {"check", "start", "refused"}
Collecting == {"query", "tool", "toolCompleted", "toolFailed", "context"}
Asking == Outcomes \cup {"attempt", "send", "request"}
Reviewing == Asking \cup {"reviewContext", "keepReview", "failReview"}
Accepted == {"complete", "cache", "cached"}
Reviewed == {"absent", "succeeded"}

(* The rows are those of an activity that is where pc says.  What has been  *)
(* completed may fail yet: its answer is lost.                              *)
RowInv(s) ==
  /\ pc[s] \in Before => runs[s]["task"] = NoRun
  /\ pc[s] \notin Before \cup Stopped \cup {"cache", "fail"} => runs[s]["task"].status = "running"
  /\ pc[s] = "fail" => runs[s]["task"].status \in {"running", "succeeded"}
  /\ pc[s] \in {"cache", "cached"} \/ cache[s] # NoOutput => runs[s]["task"].status = "succeeded"
  /\ pc[s] \in Before \cup Collecting =>
       phase[s] = "task" /\ runs[s]["task"].audit = <<>> /\ sent[s]["task"] = 0
  /\ pc[s] \in {"validate", "startReview"} => phase[s] = "task"
  /\ pc[s] \in {"reviewContext", "keepReview", "failReview"} => phase[s] = "review"
  /\ phase[s] = "task" => sent[s]["review"] = 0
  /\ phase[s] = "task" /\ pc[s] \notin {"fail", "failed", "crashed"} => runs[s]["review"] = NoRun
  /\ phase[s] = "review" /\ pc[s] \in Reviewing \ {"failReview"} =>
       runs[s]["review"].status = "running"
  /\ pc[s] = "failReview" => runs[s]["review"].status \in {"running", "succeeded"}
  /\ pc[s] = "reviewContext" => runs[s]["review"].audit = <<>> /\ sent[s]["review"] = 0
  /\ pc[s] \in Accepted \/ runs[s]["task"].status = "succeeded"
       => runs[s]["review"].status \in Reviewed

(* What is accepted cites the context, and a paraphrase has been reviewed.  *)
Supported(s) ==
  /\ output[s].by \in {"nothing", "quote", "paraphrase"}
  /\ output[s].by # "nothing" => Cited(s)
  /\ output[s].by = "paraphrase" => runs[s]["review"].status = "succeeded" /\ supports[s]
OutputInv(s) ==
  /\ runs[s]["task"].context \subseteq evidence
  /\ (phase[s] = "review" /\ pc[s] \in Reviewing) \/ pc[s] = "startReview"
       => output[s].by = "paraphrase" /\ Cited(s)
  /\ pc[s] \in Accepted \/ cache[s] # NoOutput => Supported(s)
  /\ cache[s] # NoOutput => pc[s] \in {"cached", "failed"} /\ cache[s] = output[s]

(* A late answer leads to a failure and nowhere else.                       *)
LateInv(s) ==
  late[s] =>
    /\ cache[s] = NoOutput
    /\ \/ pc[s] \in Outcomes /\ Aborted(s)
       \/ pc[s] \in {"fail", "failReview", "failed", "crashed"}

Announced(audit) == {n \in DOMAIN audit : audit[n] = "started"}
Alternates(audit) ==
  \A n \in DOMAIN audit :
    /\ audit[n] = "started" <=> n % 2 = 1
    /\ n < Len(audit) /\ n % 2 = 0 => audit[n] = "transient"

AuditInv(s) ==
  \A k \in Kinds :
    /\ Alternates(runs[s][k].audit)
    /\ sent[s][k] <= Cardinality(Announced(runs[s][k].audit))
    /\ Cardinality(Announced(runs[s][k].audit)) <= MaxAttempts

(* The attempt under way is the one its run's audit has announced last, or  *)
(* will announce next.                                                      *)
TurnInv(s) ==
  LET audit == runs[s][phase[s]].audit
      announced == Cardinality(Announced(audit)) IN
    /\ pc[s] = "attempt" =>
         /\ attempt[s] >= 1 /\ Len(audit) = 2 * (attempt[s] - 1)
         /\ announced = attempt[s] - 1
         /\ Len(audit) > 0 => audit[Len(audit)] = "transient"
    /\ pc[s] \in Asking \ {"attempt"} =>
         Len(audit) = 2 * attempt[s] - 1 /\ announced = attempt[s]
    /\ pc[s] = "send" => sent[s][phase[s]] < attempt[s]

LocalInv(s) == RowInv(s) /\ OutputInv(s) /\ LateInv(s) /\ AuditInv(s) /\ TurnInv(s)
IInv == TypeOK /\ \A s \in Steps : LocalInv(s)

-----------------------------------------------------------------------------
(* What a write leaves of the rows.                                         *)
LEMMA NewRows ==
  /\ NoRun \in RunRow /\ NewRun \in RunRow
  /\ NewRun.status = "running" /\ NewRun.context = {} /\ NewRun.audit = <<>>
<1>1. NoRun \in RunRow
  BY DEF NoRun, RunRow
<1>2. NewRun \in RunRow
  BY <1>1 DEF NewRun, RunRow
<1>3. NewRun.status = "running" /\ NewRun.context = {} /\ NewRun.audit = <<>>
  BY DEF NewRun, NoRun
<1> QED
  BY <1>1, <1>2, <1>3

Becomes(s, k, status, context, audit) ==
  /\ runs'[s][k].status = status /\ runs'[s][k].context = context /\ runs'[s][k].audit = audit
  /\ \A j \in Kinds \ {k} : runs'[s][j] = runs[s][j]
Others(s) ==
  /\ runs' \in [Steps -> [Kinds -> RunRow]]
  /\ \A t \in Steps \ {s} : runs'[t] = runs[t]

LEMMA SetRow ==
  ASSUME runs \in [Steps -> [Kinds -> RunRow]], NEW s \in Steps, NEW k \in Kinds,
         NEW row \in RunRow, runs' = [runs EXCEPT ![s][k] = row]
  PROVE  Others(s) /\ Becomes(s, k, row.status, row.context, row.audit)
<1>1. runs' = [runs EXCEPT ![s] = [runs[s] EXCEPT ![k] = row]]
  OBVIOUS
<1>2. [runs[s] EXCEPT ![k] = row] \in [Kinds -> RunRow]
  OBVIOUS
<1> QED
  BY <1>1, <1>2 DEF Others, Becomes

LEMMA SetStatus ==
  ASSUME runs \in [Steps -> [Kinds -> RunRow]], NEW s \in Steps, NEW k \in Kinds,
         NEW value \in {"running", "succeeded", "failed"},
         runs' = Set(runs, s, k, "status", value)
  PROVE  Others(s) /\ Becomes(s, k, value, runs[s][k].context, runs[s][k].audit)
<1>1. runs[s][k] \in RunRow
  OBVIOUS
<1> DEFINE row == [runs[s][k] EXCEPT !.status = value]
<1>2. /\ row \in RunRow /\ row.status = value
      /\ row.context = runs[s][k].context /\ row.audit = runs[s][k].audit
  BY <1>1 DEF RunRow
<1>3. runs' = [runs EXCEPT ![s][k] = row]
  BY DEF Set
<1>4. Others(s) /\ Becomes(s, k, row.status, row.context, row.audit)
  BY <1>2, <1>3, SetRow
<1> QED
  BY <1>2, <1>4

LEMMA SetContext ==
  ASSUME runs \in [Steps -> [Kinds -> RunRow]], NEW s \in Steps, NEW k \in Kinds,
         NEW value \in SUBSET Evidence, runs[s][k].status = "running",
         runs' = Set(runs, s, k, "context", value)
  PROVE  Others(s) /\ Becomes(s, k, "running", value, runs[s][k].audit)
<1>1. runs[s][k] \in RunRow
  OBVIOUS
<1> DEFINE row == [runs[s][k] EXCEPT !.context = value]
<1>2. /\ row \in RunRow /\ row.status = "running"
      /\ row.context = value /\ row.audit = runs[s][k].audit
  BY <1>1 DEF RunRow
<1>3. runs' = [runs EXCEPT ![s][k] = row]
  BY DEF Set
<1>4. Others(s) /\ Becomes(s, k, row.status, row.context, row.audit)
  BY <1>2, <1>3, SetRow
<1> QED
  BY <1>2, <1>4

LEMMA AuditedRow ==
  ASSUME runs \in [Steps -> [Kinds -> RunRow]], NEW s \in Steps, phase[s] \in Kinds,
         runs[s][phase[s]].status = "running",
         NEW event \in {"started"} \cup Outcomes, runs' = Audited(s, event)
  PROVE  /\ Others(s)
         /\ Becomes(s, phase[s], "running", runs[s][phase[s]].context,
                    Append(runs[s][phase[s]].audit, event))
<1> DEFINE k == phase[s]
           longer == Append(runs[s][k].audit, event)
           row == [runs[s][k] EXCEPT !.audit = longer]
<1>1. runs[s][k] \in RunRow
  OBVIOUS
<1>2. longer \in Seq({"started"} \cup Outcomes)
  BY <1>1 DEF RunRow
<1>3. /\ row \in RunRow /\ row.status = "running"
      /\ row.context = runs[s][k].context /\ row.audit = longer
  BY <1>1, <1>2 DEF RunRow
<1>4. runs' = [runs EXCEPT ![s][k] = row]
  BY DEF Audited, Set
<1>5. Others(s) /\ Becomes(s, k, row.status, row.context, row.audit)
  BY <1>3, <1>4, SetRow
<1> QED
  BY <1>3, <1>5

(* A write that is under way has its run under way.                         *)
LEMMA Effects ==
  ASSUME TypeOK, NEW s \in Steps, RowInv(s), Store(s)
  PROVE  /\ Others(s)
         /\ pc[s] = "start" => Becomes(s, "task", "running", {}, <<>>)
         /\ pc[s] = "context" => Becomes(s, "task", "running", evidence, runs[s]["task"].audit)
         /\ pc[s] \in Outcomes \cup {"attempt"} =>
              Becomes(s, phase[s], "running", runs[s][phase[s]].context,
                      Append(runs[s][phase[s]].audit,
                             IF pc[s] = "attempt" THEN "started" ELSE pc[s]))
         /\ pc[s] = "startReview" => Becomes(s, "review", "running", {}, <<>>)
         /\ pc[s] = "reviewContext" =>
              Becomes(s, "review", "running", runs[s]["task"].context, runs[s]["review"].audit)
         /\ pc[s] = "keepReview" =>
              Becomes(s, "review", "succeeded", runs[s]["review"].context, runs[s]["review"].audit)
         /\ pc[s] = "failReview" =>
              Becomes(s, "review", "failed", runs[s]["review"].context, runs[s]["review"].audit)
         /\ pc[s] = "complete" =>
              Becomes(s, "task", "succeeded", runs[s]["task"].context, runs[s]["task"].audit)
         /\ pc[s] = "fail" =>
              Becomes(s, "task", "failed", runs[s]["task"].context, runs[s]["task"].audit)
         /\ pc[s] \in {"query", "toolCompleted", "toolFailed", "cache"} => runs' = runs
<1> USE DEF TypeOK
<1>1. /\ runs' = Row(s) /\ Writing(s) /\ pc[s] \in PC /\ phase[s] \in Kinds
      /\ runs[s]["task"] \in RunRow /\ runs[s]["review"] \in RunRow
      /\ evidence \in SUBSET Evidence /\ {"task", "review"} = Kinds
      /\ runs \in [Steps -> [Kinds -> RunRow]]
  BY DEF Store, Kinds
<1>3. CASE pc[s] = "start"
  <2>1. runs' = [runs EXCEPT ![s]["task"] = NewRun]
    BY <1>1, <1>3 DEF Row, Outcomes
  <2>2. Others(s) /\ Becomes(s, "task", NewRun.status, NewRun.context, NewRun.audit)
    BY <1>1, <2>1, NewRows, SetRow
  <2> QED
    BY <1>3, <2>2, NewRows DEF Outcomes
<1>4. CASE pc[s] = "context"
  <2>1. runs' = Set(runs, s, "task", "context", evidence) /\ runs[s]["task"].status = "running"
    BY <1>1, <1>4 DEF Row, Citable, RowInv, Before, Stopped, Outcomes
  <2>2. Others(s) /\ Becomes(s, "task", "running", evidence, runs[s]["task"].audit)
    BY <1>1, <2>1, SetContext
  <2> QED
    BY <1>4, <2>2 DEF Outcomes
<1>5. CASE pc[s] \in Outcomes \cup {"attempt"}
  <2> DEFINE event == IF pc[s] = "attempt" THEN "started" ELSE pc[s]
  <2>1. /\ runs' = Audited(s, event) /\ event \in {"started"} \cup Outcomes
        /\ runs[s][phase[s]].status = "running"
    BY <1>1, <1>5 DEF Row, Outcomes, RowInv, Before, Stopped, Reviewing, Asking
  <2>2. /\ Others(s)
        /\ Becomes(s, phase[s], "running", runs[s][phase[s]].context,
                   Append(runs[s][phase[s]].audit, event))
    BY <1>1, <2>1, AuditedRow
  <2> QED
    BY <1>5, <2>2 DEF Outcomes
<1>6. CASE pc[s] = "startReview"
  <2>1. runs' = [runs EXCEPT ![s]["review"] = NewRun]
    BY <1>1, <1>6 DEF Row, Outcomes
  <2>2. Others(s) /\ Becomes(s, "review", NewRun.status, NewRun.context, NewRun.audit)
    BY <1>1, <2>1, NewRows, SetRow
  <2> QED
    BY <1>6, <2>2, NewRows DEF Outcomes
<1>7. CASE pc[s] = "reviewContext"
  <2>1. /\ runs' = Set(runs, s, "review", "context", runs[s]["task"].context)
        /\ runs[s]["review"].status = "running" /\ runs[s]["task"].context \in SUBSET Evidence
    BY <1>1, <1>7 DEF Row, Outcomes, RowInv, Reviewing, RunRow
  <2>2. /\ Others(s)
        /\ Becomes(s, "review", "running", runs[s]["task"].context, runs[s]["review"].audit)
    BY <1>1, <2>1, SetContext
  <2> QED
    BY <1>7, <2>2 DEF Outcomes
<1>8. CASE pc[s] \in {"keepReview", "failReview", "complete", "fail"}
  <2> DEFINE k == IF pc[s] \in {"complete", "fail"} THEN "task" ELSE "review"
             status == IF pc[s] \in {"complete", "keepReview"} THEN "succeeded" ELSE "failed"
  <2>1. runs' = Set(runs, s, k, "status", status) /\ k \in Kinds
        /\ status \in {"running", "succeeded", "failed"}
    BY <1>1, <1>8 DEF Row, Outcomes
  <2>2. Others(s) /\ Becomes(s, k, status, runs[s][k].context, runs[s][k].audit)
    BY <1>1, <2>1, SetStatus
  <2> QED
    BY <1>8, <2>2 DEF Outcomes
<1>9. CASE pc[s] \in {"query", "toolCompleted", "toolFailed", "cache"}
  <2>1. runs' = runs
    BY <1>1, <1>9 DEF Row, Outcomes
  <2> QED
    BY <1>1, <1>9, <2>1 DEF Others, Outcomes
<1> QED
  BY <1>1, <1>3, <1>4, <1>5, <1>6, <1>7, <1>8, <1>9 DEF Writing, PC, Stopped

-----------------------------------------------------------------------------
(* Every variable keeps its kind.                                           *)
LEMMA StoreType ==
  ASSUME TypeOK, NEW s \in Steps, RowInv(s), Store(s)
  PROVE  /\ runs' \in [Steps -> [Kinds -> RunRow]] /\ searched' \in Nat
         /\ evidence \subseteq evidence' /\ evidence' \subseteq Evidence /\ limit' = limit
         /\ cache' \in [Steps -> Outputs \cup {NoOutput}]
         /\ \A t \in Steps \ {s} : cache'[t] = cache[t]
         /\ cache'[s] = IF pc[s] = "cache" THEN output[s] ELSE cache[s]
         /\ pc[s] # "toolCompleted" => evidence' = evidence
<1>1. runs' \in [Steps -> [Kinds -> RunRow]]
  BY Effects DEF Others
<1> QED
  BY <1>1 DEF Store, TypeOK

LEMMA TypePlain ==
  ASSUME TypeOK, NEW s \in Steps,
         \/ EnforceBudget(s) \/ ToolAnswers(s) \/ ToolBreaks(s) \/ NoMoreQueries(s) \/ Send(s)
         \/ ProviderAnswers(s) \/ Validate(s) \/ WriteFails(s) \/ Cancel(s) \/ Expire(s)
  PROVE  TypeOK'
<1> USE AgentRunsAssumption
    DEF TypeOK, db, work, abort, history, At, Goto, PC, Stopped, Outcomes
<1>1. CASE EnforceBudget(s)
  BY <1>1 DEF EnforceBudget
<1>2. CASE ToolAnswers(s)
  BY <1>2 DEF ToolAnswers
<1>3. CASE ToolBreaks(s)
  BY <1>3 DEF ToolBreaks
<1>4. CASE NoMoreQueries(s)
  BY <1>4 DEF NoMoreQueries
<1>5. CASE Send(s)
  BY <1>5 DEF Send, Kinds
<1>6. CASE ProviderAnswers(s)
  BY <1>6 DEF ProviderAnswers, Aborted
<1>7. CASE Validate(s)
  BY <1>7 DEF Validate
<1>8. CASE WriteFails(s)
  <2>1. OnFault(s) \in PC
    BY DEF OnFault, Failing
  <2> QED
    BY <1>8, <2>1 DEF WriteFails
<1>9. CASE Cancel(s)
  BY <1>9 DEF Cancel
<1>10. CASE Expire(s)
  BY <1>10 DEF Expire
<1> QED
  BY <1>1, <1>2, <1>3, <1>4, <1>5, <1>6, <1>7, <1>8, <1>9, <1>10

LEMMA Succeeds ==
  ASSUME NEW s \in Steps, AttemptSucceeded(s)
  PROVE  /\ \E p \in {"validate", "keepReview", Failing(s)} : Goto(s, p)
         /\ output' = output \/ \E o \in Outputs : output' = [output EXCEPT ![s] = o]
         /\ supports' = supports \/ \E yes \in BOOLEAN : supports' = [supports EXCEPT ![s] = yes]
BY DEF AttemptSucceeded

(* Then the steps that write.                                               *)
Writers(s) ==
  \/ StartRun(s) \/ ToolStarted(s) \/ ToolCompleted(s) \/ ToolFailed(s) \/ ContextReady(s)
  \/ AttemptFailed(s) \/ AttemptSucceeded(s) \/ StartReview(s) \/ ReviewContext(s)
  \/ KeepReview(s) \/ Complete(s) \/ FailRun(s) \/ AnswerLost(s)
LEMMA TypeRows ==
  ASSUME TypeOK, NEW s \in Steps, RowInv(s),
         Writers(s) \/ AttemptStarted(s) \/ StorePrepared(s)
  PROVE  TypeOK'
<1> USE AgentRunsAssumption
    DEF TypeOK, work, abort, history, At, Goto, PC, Stopped, Outcomes
<1> DEFINE Kept == /\ runs' \in [Steps -> [Kinds -> RunRow]] /\ searched' \in Nat
                   /\ evidence' \subseteq Evidence /\ limit' \in Nat
                   /\ cache' \in [Steps -> Outputs \cup {NoOutput}]
<1>1. Store(s) => Kept
  BY StoreType
<1>2. CASE Writers(s)
  <2>1. Store(s)
    BY <1>2 DEF Writers, StartRun, ToolStarted, ToolCompleted, ToolFailed, ContextReady,
                AttemptFailed, AttemptSucceeded, StartReview, ReviewContext, KeepReview,
                Complete, FailRun, AnswerLost
  <2>2. Kept /\ Writing(s)
    BY <1>1, <2>1 DEF Store
  <2> HIDE DEF Kept
  <2>3. CASE StartRun(s) \/ ToolCompleted(s) \/ ToolFailed(s)
    BY <2>2, <2>3 DEF Kept, StartRun, ToolCompleted, ToolFailed
  <2>9. CASE ToolStarted(s)
    <3>1. queries' \in [Steps -> 0 .. MaxQueries]
      BY <2>2, <2>9 DEF ToolStarted, Writing
    <3> QED
      BY <2>2, <2>9, <3>1 DEF Kept, ToolStarted
  <2>4. CASE ContextReady(s) \/ ReviewContext(s)
    <3>1. attempt' \in [Steps -> 0 .. MaxAttempts] /\ overdue' \in [Steps -> BOOLEAN]
      <4>1. /\ attempt' = [attempt EXCEPT ![s] = 1]
            /\ overdue' = [overdue EXCEPT ![s] = FALSE]
        BY <2>4 DEF ContextReady, ReviewContext, Generate
      <4>2. 1 \in 0 .. MaxAttempts
        OBVIOUS
      <4> QED
        BY <4>1, <4>2
    <3>2. pc' \in [Steps -> PC]
      BY <2>4 DEF ContextReady, ReviewContext, Generate
    <3> QED
      BY <2>2, <2>4, <3>1, <3>2 DEF Kept, ContextReady, ReviewContext
  <2>10. CASE StartReview(s)
    BY <2>2, <2>10 DEF Kept, StartReview, Kinds
  <2>5. CASE AttemptFailed(s)
    BY <2>2, <2>5 DEF Kept, AttemptFailed, Failing
  <2>6. CASE AttemptSucceeded(s)
    <3>1. output' \in [Steps -> Outputs \cup {NoOutput}] /\ supports' \in [Steps -> BOOLEAN]
      BY <2>6, Succeeds
    <3>2. pc' \in [Steps -> PC]
      BY <2>6, Succeeds DEF Failing
    <3> QED
      BY <2>2, <2>6, <3>1, <3>2 DEF Kept, AttemptSucceeded
  <2>7. CASE KeepReview(s) \/ Complete(s) \/ FailRun(s)
    BY <2>2, <2>7 DEF Kept, KeepReview, Complete, FailRun, AfterFailure
  <2>8. CASE AnswerLost(s)
    <3>1. OnFault(s) \in PC
      BY DEF OnFault, Failing
    <3> QED
      BY <2>2, <2>8, <3>1 DEF Kept, AnswerLost
  <2> QED
    BY <1>2, <2>3, <2>4, <2>5, <2>6, <2>7, <2>8, <2>9, <2>10 DEF Writers
<1>3. CASE AttemptStarted(s)
  <2>1. Kept
    BY <1>1, <1>3 DEF AttemptStarted, db
  <2> QED
    BY <1>3, <2>1 DEF AttemptStarted, Failing
<1>4. CASE StorePrepared(s)
  <2>1. Kept
    BY <1>1, <1>4 DEF StorePrepared, db
  <2> QED
    BY <1>4, <2>1 DEF StorePrepared
<1> QED
  BY <1>2, <1>3, <1>4

-----------------------------------------------------------------------------
(* The audit of a run gains "started" at odd places, outcomes at even ones. *)
LEMMA AppendAudit ==
  ASSUME NEW audit \in Seq({"started"} \cup Outcomes), Alternates(audit),
         NEW event \in {"started"} \cup Outcomes,
         IF event = "started"
         THEN Len(audit) % 2 = 0 /\ (Len(audit) > 0 => audit[Len(audit)] = "transient")
         ELSE Len(audit) % 2 = 1
  PROVE  /\ Alternates(Append(audit, event))
         /\ Len(Append(audit, event)) = Len(audit) + 1
         /\ Append(audit, event)[Len(audit) + 1] = event
         /\ Cardinality(Announced(audit)) \in Nat
         /\ Cardinality(Announced(Append(audit, event))) =
              IF event = "started" THEN Cardinality(Announced(audit)) + 1
                                   ELSE Cardinality(Announced(audit))
<1> DEFINE next == Append(audit, event)
           last == Len(audit) + 1
<1>1. /\ Len(next) = last /\ last \in Nat /\ DOMAIN next = 1 .. last
      /\ DOMAIN audit = 1 .. Len(audit)
      /\ \A n \in 1 .. Len(audit) : next[n] = audit[n]
      /\ next[last] = event
  BY AppendProperties
<1>2. Alternates(next)
  <2> SUFFICES ASSUME NEW n \in 1 .. last
               PROVE  /\ next[n] = "started" <=> n % 2 = 1
                      /\ n < last /\ n % 2 = 0 => next[n] = "transient"
    BY <1>1 DEF Alternates
  <2>1. CASE n = last
    BY <2>1, <1>1 DEF Outcomes
  <2>2. CASE n # last
    BY <2>2, <1>1 DEF Alternates
  <2> QED
    BY <2>1, <2>2
<1>3. IsFiniteSet(Announced(audit)) /\ Cardinality(Announced(audit)) \in Nat
  <2>1. IsFiniteSet(1 .. Len(audit))
    BY FS_Interval
  <2> QED
    BY <1>1, <2>1, FS_Subset, FS_CardinalityType DEF Announced
<1>4. last \notin Announced(audit)
  BY <1>1 DEF Announced
<1>5. Announced(next) = IF event = "started" THEN Announced(audit) \cup {last}
                                             ELSE Announced(audit)
  BY <1>1 DEF Announced
<1> QED
  BY <1>1, <1>2, <1>3, <1>4, <1>5, FS_AddElement

-----------------------------------------------------------------------------
(* What LocalInv(s) speaks of, but for where s is and whether it is aborted.*)
Same(s) ==
  /\ runs'[s] = runs[s] /\ cache'[s] = cache[s] /\ phase'[s] = phase[s]
  /\ attempt'[s] = attempt[s] /\ output'[s] = output[s] /\ supports'[s] = supports[s]
  /\ sent'[s] = sent[s] /\ late'[s] = late[s]
  /\ evidence \subseteq evidence'

LEMMA Frame ==
  ASSUME TypeOK, NEW s \in Steps, LocalInv(s), Same(s), pc'[s] = pc[s],
         Aborted(s) => Aborted(s)'
  PROVE  LocalInv(s)'
<1> USE DEF LocalInv, Same
<1>1. RowInv(s)' /\ LateInv(s)'
  BY DEF RowInv, LateInv
<1>2. OutputInv(s)'
  BY DEF OutputInv, Supported, Cited
<1>3. AuditInv(s)' /\ TurnInv(s)'
  BY DEF AuditInv, TurnInv
<1> QED
  BY <1>1, <1>2, <1>3

(* The steps that only lead on, in order or to a failure.                   *)
Moves(s, p, q) ==
  \/ p = "check" /\ q \in {"refused", "start"}
  \/ p = "refused" /\ q = "check"
  \/ p \in Collecting /\ q \in Collecting
  \/ p = "validate" /\ q = "complete"
     /\ (output[s].by = "nothing" \/ (Cited(s) /\ output[s].by = "quote"))
  \/ p = "validate" /\ q = "startReview" /\ Cited(s) /\ output[s].by = "paraphrase"
  \/ p = "send" /\ q = "permanent"
  \/ p \notin Before \cup Stopped \cup {"cache"} /\ q = "fail"
  \/ phase[s] = "review" /\ p \in Reviewing /\ q = "failReview"
  \/ p \notin Stopped /\ q \in {"failed", "crashed"}

LEMMA Moving ==
  ASSUME TypeOK, NEW s \in Steps, LocalInv(s), Same(s), Moves(s, pc[s], pc'[s]),
         Aborted(s) => Aborted(s)'
  PROVE  LocalInv(s)'
<1> USE DEF LocalInv, Same, Moves, Before, Collecting, Stopped, Reviewing, Asking, Outcomes
<1>1. RowInv(s)'
  <2>1. CASE pc[s] \in Before \cup Collecting \cup {"validate", "send"}
             /\ pc'[s] \notin {"failReview", "failed", "crashed"}
    BY <2>1 DEF RowInv, Accepted, Reviewed, NoRun
  <2>2. CASE pc'[s] \in {"fail", "failReview", "failed", "crashed"}
    BY <2>2 DEF RowInv, Accepted
  <2> QED
    BY <2>1, <2>2
<1>2. OutputInv(s)'
  BY DEF OutputInv, Supported, Cited, Accepted
<1>3. LateInv(s)'
  BY DEF LateInv
<1>4. AuditInv(s)' /\ TurnInv(s)'
  BY DEF AuditInv, TurnInv
<1> QED
  BY <1>1, <1>2, <1>3, <1>4

(* Nothing another activity does is seen in the local state of this one.    *)
Elsewhere(s) ==
  \A t \in Steps \ {s} :
    Same(t) /\ pc'[t] = pc[t] /\ cancelled'[t] = cancelled[t] /\ overdue'[t] = overdue[t]

LEMMA OneMoves ==
  ASSUME IInv, NEW s \in Steps, TypeOK', Elsewhere(s), LocalInv(s)'
  PROVE  IInv'
<1>1. ASSUME NEW t \in Steps \ {s} PROVE LocalInv(t)'
  BY <1>1, Frame DEF IInv, Elsewhere, Aborted
<1> QED
  BY <1>1 DEF IInv

LEMMA QuietInv ==
  ASSUME IInv, NEW s \in Steps,
         \/ EnforceBudget(s) \/ ToolStarted(s) \/ ToolAnswers(s) \/ ToolBreaks(s)
         \/ ToolCompleted(s) \/ ToolFailed(s) \/ NoMoreQueries(s) \/ Validate(s)
         \/ WriteFails(s)
  PROVE  IInv'
<1> USE DEF IInv, db, work, abort, history, At, Goto
<1>1. TypeOK'
  BY TypePlain, TypeRows DEF LocalInv, Writers
<1>2. /\ UNCHANGED <<runs, phase, attempt, output, supports, sent, late, cancelled, overdue>>
      /\ \A t \in Steps : cache'[t] = cache[t]
      /\ evidence \subseteq evidence'
  <2>1. CASE ToolStarted(s) \/ ToolCompleted(s) \/ ToolFailed(s)
    <3>1. Store(s) /\ pc[s] \in {"query", "toolCompleted", "toolFailed"}
          /\ UNCHANGED <<phase, attempt, output, supports, sent, late, cancelled, overdue>>
      BY <2>1 DEF ToolStarted, ToolCompleted, ToolFailed
    <3> QED
      BY <3>1, Effects, StoreType DEF LocalInv
  <2>2. CASE ~(ToolStarted(s) \/ ToolCompleted(s) \/ ToolFailed(s))
    BY <2>2 DEF EnforceBudget, ToolAnswers, ToolBreaks, NoMoreQueries, Validate, WriteFails
  <2> QED
    BY <2>1, <2>2
<1>3. pc[s] \in PC /\ phase[s] \in Kinds /\ RowInv(s)
  BY DEF TypeOK, LocalInv
<1>4. /\ Moves(s, pc[s], pc'[s])
      /\ \A t \in Steps \ {s} : pc'[t] = pc[t]
  <2> USE DEF Moves, Before, Collecting, Stopped, TypeOK
  <2>1. CASE EnforceBudget(s)
    BY <2>1 DEF EnforceBudget
  <2>2. CASE ToolStarted(s) \/ ToolAnswers(s) \/ ToolBreaks(s)
    BY <2>2 DEF ToolStarted, ToolAnswers, ToolBreaks
  <2>3. CASE ToolCompleted(s) \/ ToolFailed(s) \/ NoMoreQueries(s)
    BY <2>3 DEF ToolCompleted, ToolFailed, NoMoreQueries
  <2>4. CASE Validate(s)
    BY <2>4 DEF Validate
  <2>5. CASE WriteFails(s)
    <3>1. pc' = [pc EXCEPT ![s] = OnFault(s)] /\ Writing(s)
      BY <2>5 DEF WriteFails
    <3>2. Moves(s, pc[s], OnFault(s))
      BY <3>1, <1>3 DEF OnFault, Failing, Writing, PC, Outcomes, Kinds, Reviewing, Asking, RowInv
    <3> QED
      BY <3>1, <3>2
  <2> QED
    BY <2>1, <2>2, <2>3, <2>4, <2>5
<1>5. LocalInv(s)'
  BY <1>2, <1>4, Moving DEF Same, Aborted
<1>6. Elsewhere(s)
  BY <1>2, <1>4 DEF Elsewhere, Same
<1> QED
  BY <1>1, <1>5, <1>6, OneMoves

(* A signal only makes an activity aborted.                                 *)
LEMMA SignalInv ==
  ASSUME IInv, NEW s \in Steps, Cancel(s) \/ Expire(s) PROVE IInv'
<1> USE DEF IInv, db, work, abort, history
<1>1. TypeOK'
  BY TypePlain
<1>2. \A t \in Steps : Same(t) /\ pc'[t] = pc[t] /\ (Aborted(t) => Aborted(t)')
  BY DEF Cancel, Expire, Same, Aborted, TypeOK
<1> QED
  BY <1>1, <1>2, Frame

LEMMA CrashInv == ASSUME IInv, Crash PROVE IInv'
<1> USE DEF IInv, Crash, db, work, abort, history
<1>1. TypeOK'
  BY AgentRunsAssumption DEF TypeOK, PC, Stopped
<1>2. ASSUME NEW s \in Steps PROVE LocalInv(s)'
  <2>1. Same(s) /\ (Aborted(s) => Aborted(s)')
    BY DEF Same, Aborted
  <2>2. pc'[s] = pc[s] \/ Moves(s, pc[s], pc'[s])
    BY DEF Moves, TypeOK
  <2> QED
    BY <2>1, <2>2, Frame, Moving
<1> QED
  BY <1>1, <1>2

LEMMA GrantInv == ASSUME IInv, GrantBudget PROVE IInv'
<1> USE DEF IInv, GrantBudget, work, abort, history
<1>1. TypeOK'
  BY AgentRunsAssumption DEF TypeOK, PC, Stopped
<1>2. ASSUME NEW s \in Steps PROVE LocalInv(s)'
  <2>1. Same(s) /\ (Aborted(s) => Aborted(s)')
    BY DEF Same, Aborted
  <2>2. pc'[s] = pc[s] \/ Moves(s, pc[s], pc'[s])
    BY DEF Moves, TypeOK
  <2> QED
    BY <2>1, <2>2, Frame, Moving
<1> QED
  BY <1>1, <1>2

-----------------------------------------------------------------------------
(* What the writes leave of the audits.                                     *)
LEMMA EmptyAudit ==
  Announced(<<>>) = {} /\ Alternates(<<>>) /\ Len(<<>>) = 0 /\ Cardinality(Announced(<<>>)) = 0
<1>1. Announced(<<>>) = {} /\ Alternates(<<>>) /\ Len(<<>>) = 0
  BY DEF Announced, Alternates
<1> QED
  BY <1>1, FS_EmptySet

LEMMA AttemptAnnounced ==
  ASSUME IInv, NEW s \in Steps, pc[s] = "attempt", Store(s)
  PROVE  LET k == phase[s] IN
         /\ Becomes(s, k, "running", runs[s][k].context, runs'[s][k].audit)
         /\ Alternates(runs'[s][k].audit) /\ Len(runs'[s][k].audit) = 2 * attempt[s] - 1
         /\ Cardinality(Announced(runs'[s][k].audit)) = attempt[s]
         /\ sent[s][k] < attempt[s] /\ attempt[s] <= MaxAttempts
<1> USE DEF IInv
<1> DEFINE k == phase[s]
           old == runs[s][k].audit
           new == Append(old, "started")
<1>1. k \in Kinds /\ LocalInv(s) /\ runs[s][k] \in RunRow
  BY DEF TypeOK
<1>2. Becomes(s, k, "running", runs[s][k].context, new)
  BY <1>1, Effects DEF LocalInv
<1>3. /\ old \in Seq({"started"} \cup Outcomes) /\ Alternates(old)
      /\ attempt[s] \in 1 .. MaxAttempts /\ Len(old) = 2 * (attempt[s] - 1)
      /\ Cardinality(Announced(old)) = attempt[s] - 1
      /\ Len(old) > 0 => old[Len(old)] = "transient"
  BY <1>1, AgentRunsAssumption DEF LocalInv, AuditInv, TurnInv, TypeOK, RunRow
<1>4. Len(old) % 2 = 0
  BY <1>3
<1>5. /\ Alternates(new) /\ Len(new) = Len(old) + 1
      /\ Cardinality(Announced(new)) = Cardinality(Announced(old)) + 1
  BY <1>3, <1>4, AppendAudit
<1>6. sent[s][k] \in Nat /\ sent[s][k] <= Cardinality(Announced(old))
  BY <1>1 DEF LocalInv, AuditInv, TypeOK
<1>7. runs'[s][k].audit = new
  BY <1>2 DEF Becomes
<1>8. Len(new) = 2 * attempt[s] - 1 /\ Cardinality(Announced(new)) = attempt[s]
      /\ sent[s][k] < attempt[s] /\ attempt[s] <= MaxAttempts
  <2>1. attempt[s] \in Nat /\ Len(old) \in Nat
    BY <1>3
  <2>2. Len(new) = 2 * attempt[s] - 1
    BY <1>3, <1>5, <2>1
  <2>3. Cardinality(Announced(new)) = attempt[s]
    BY <1>3, <1>5, <2>1
  <2> QED
    BY <1>3, <1>6, <2>1, <2>2, <2>3
<1> QED
  BY <1>2, <1>5, <1>7, <1>8

LEMMA OutcomeRecorded ==
  ASSUME IInv, NEW s \in Steps, pc[s] \in Outcomes, Store(s)
  PROVE  LET k == phase[s]  audit == runs'[s][k].audit IN
         /\ Becomes(s, k, "running", runs[s][k].context, audit)
         /\ Alternates(audit) /\ Len(audit) = 2 * attempt[s] /\ audit[Len(audit)] = pc[s]
         /\ Cardinality(Announced(audit)) = attempt[s]
         /\ sent[s][k] <= attempt[s] /\ attempt[s] <= MaxAttempts
<1> USE DEF IInv
<1> DEFINE k == phase[s]
           old == runs[s][k].audit
           new == Append(old, pc[s])
<1>1. phase[s] \in Kinds /\ LocalInv(s) /\ attempt[s] \in 0 .. MaxAttempts
      /\ runs[s][k] \in RunRow
  BY DEF TypeOK
<1>2. Becomes(s, k, "running", runs[s][k].context, new)
  BY <1>1, Effects DEF LocalInv, Outcomes
<1>3. /\ old \in Seq({"started"} \cup Outcomes) /\ Alternates(old)
      /\ Len(old) = 2 * attempt[s] - 1 /\ Cardinality(Announced(old)) = attempt[s]
  BY <1>1 DEF LocalInv, AuditInv, TurnInv, RunRow, Asking, Outcomes
<1>4. Len(old) % 2 = 1 /\ pc[s] # "started"
  BY <1>1, <1>3 DEF Outcomes
<1>5. /\ Alternates(new) /\ Len(new) = Len(old) + 1 /\ new[Len(old) + 1] = pc[s]
      /\ Cardinality(Announced(new)) = Cardinality(Announced(old))
  BY <1>3, <1>4, AppendAudit
<1>6. runs'[s][k].audit = new
  BY <1>2 DEF Becomes
<1>7. sent[s][k] <= Cardinality(Announced(old)) /\ attempt[s] <= MaxAttempts
  BY <1>1, <1>3 DEF LocalInv, AuditInv
<1>8. Len(new) = 2 * attempt[s] /\ new[Len(new)] = pc[s]
  BY <1>1, <1>3, <1>5
<1> QED
  BY <1>2, <1>3, <1>5, <1>6, <1>7, <1>8

LEMMA StoreAudits ==
  ASSUME IInv, NEW s \in Steps, Store(s), sent' = sent
  PROVE  AuditInv(s)'
<1> USE DEF IInv
<1>1. /\ TypeOK /\ RowInv(s) /\ AuditInv(s) /\ phase[s] \in Kinds /\ pc[s] \in PC
      /\ {"task", "review"} = Kinds /\ Writing(s)
  BY DEF LocalInv, TypeOK, Kinds, Store
<1>2. CASE \A k \in Kinds : runs'[s][k].audit = runs[s][k].audit
  BY <1>1, <1>2 DEF AuditInv
<1>3. CASE pc[s] = "start"
  <2>1. Becomes(s, "task", "running", {}, <<>>)
    BY <1>1, <1>3, Effects
  <2>2. sent[s]["task"] = 0 /\ runs[s]["task"].audit = <<>>
    BY <1>1, <1>3 DEF RowInv, Before
  <2>3. \A k \in Kinds : runs'[s][k].audit = runs[s][k].audit
    BY <1>1, <2>1, <2>2 DEF Becomes
  <2> QED
    BY <1>2, <2>3
<1>4. CASE pc[s] = "startReview"
  <2>1. Becomes(s, "review", "running", {}, <<>>)
    BY <1>1, <1>4, Effects
  <2>2. runs[s]["review"].audit = <<>>
    BY <1>1, <1>4 DEF RowInv, NoRun
  <2>3. \A k \in Kinds : runs'[s][k].audit = runs[s][k].audit
    BY <1>1, <2>1, <2>2 DEF Becomes
  <2> QED
    BY <1>2, <2>3
<1>5. CASE pc[s] \in {"context", "reviewContext", "keepReview", "failReview", "complete", "fail"}
  <2>1. \A k \in Kinds : runs'[s][k].audit = runs[s][k].audit
    BY <1>1, <1>5, Effects DEF Becomes
  <2> QED
    BY <1>2, <2>1
<1>6. CASE pc[s] \in {"query", "toolCompleted", "toolFailed", "cache"}
  <2>1. runs' = runs
    BY <1>1, <1>6, Effects
  <2> QED
    BY <1>2, <2>1
<1>7. CASE pc[s] = "attempt"
  <2>1. \A j \in Kinds \ {phase[s]} : runs'[s][j] = runs[s][j]
    BY <1>7, AttemptAnnounced DEF Becomes
  <2>2. sent[s][phase[s]] \in Nat /\ attempt[s] \in Nat
    BY <1>1 DEF TypeOK
  <2>3. LET audit == runs'[s][phase[s]].audit IN
        /\ Alternates(audit) /\ sent[s][phase[s]] <= Cardinality(Announced(audit))
        /\ Cardinality(Announced(audit)) <= MaxAttempts
    BY <1>7, <2>2, AttemptAnnounced
  <2> QED
    BY <1>1, <2>1, <2>3 DEF AuditInv
<1>8. CASE pc[s] \in Outcomes
  <2>1. \A j \in Kinds \ {phase[s]} : runs'[s][j] = runs[s][j]
    BY <1>8, OutcomeRecorded DEF Becomes
  <2>2. LET audit == runs'[s][phase[s]].audit IN
        /\ Alternates(audit) /\ sent[s][phase[s]] <= Cardinality(Announced(audit))
        /\ Cardinality(Announced(audit)) <= MaxAttempts
    BY <1>8, OutcomeRecorded
  <2> QED
    BY <1>1, <2>1, <2>2 DEF AuditInv
<1> QED
  BY <1>1, <1>3, <1>4, <1>5, <1>6, <1>7, <1>8 DEF Writing, PC, Stopped

(* A write alters nothing that the other activities know of.                *)
LEMMA StoreElsewhere ==
  ASSUME IInv, NEW s \in Steps, Store(s), UNCHANGED <<abort, history>>,
         \A t \in Steps \ {s} : /\ pc'[t] = pc[t] /\ phase'[t] = phase[t]
                                /\ attempt'[t] = attempt[t] /\ output'[t] = output[t]
                                /\ supports'[t] = supports[t]
  PROVE  Elsewhere(s)
<1>1. /\ \A t \in Steps \ {s} : runs'[t] = runs[t] /\ cache'[t] = cache[t]
      /\ evidence \subseteq evidence'
  BY Effects, StoreType DEF IInv, LocalInv, Others
<1> QED
  BY <1>1 DEF Elsewhere, Same, abort, history

-----------------------------------------------------------------------------
(* A run begins with an empty row, and so does its review; each is then     *)
(* given its context.                                                       *)
LEMMA StartRunInv == ASSUME IInv, NEW s \in Steps, StartRun(s) PROVE IInv'
<1> USE DEF IInv, StartRun, work, abort, history, At, Goto
<1>1. TypeOK' /\ LocalInv(s)
  BY TypeRows DEF LocalInv, Writers
<1>2. Elsewhere(s)
  BY StoreElsewhere DEF TypeOK
<1>3. /\ pc[s] = "start" /\ pc'[s] = "query"
      /\ phase[s] = "task" /\ ~late[s] /\ sent[s]["task"] = 0 /\ sent[s]["review"] = 0
      /\ runs[s]["review"] = NoRun /\ cache[s] = NoOutput
      /\ runs[s]["task"] = NoRun /\ runs[s]["task"].audit = <<>>
  BY <1>1 DEF TypeOK, LocalInv, RowInv, OutputInv, LateInv, Before, Outcomes
<1>4. /\ runs'[s]["task"].status = "running" /\ runs'[s]["task"].context = {}
      /\ runs'[s]["task"].audit = <<>> /\ runs'[s]["review"] = runs[s]["review"]
      /\ cache'[s] = cache[s]
  BY <1>1, <1>3, Effects, StoreType DEF LocalInv, Becomes, Kinds
<1>5. RowInv(s)'
  BY <1>3, <1>4 DEF RowInv, Before, Collecting, Stopped, Accepted, Reviewed, Reviewing, Asking,
                    Outcomes, NoRun
<1>6. OutputInv(s)' /\ LateInv(s)'
  BY <1>3, <1>4 DEF OutputInv, LateInv, Accepted
<1>7. AuditInv(s)' /\ TurnInv(s)'
  BY <1>3, StoreAudits DEF TurnInv, Asking, Outcomes
<1> QED
  BY <1>1, <1>2, <1>5, <1>6, <1>7, OneMoves DEF LocalInv

LEMMA ContextReadyInv == ASSUME IInv, NEW s \in Steps, ContextReady(s) PROVE IInv'
<1> USE DEF IInv, ContextReady, Generate, At, Goto
<1>1. TypeOK' /\ LocalInv(s)
  BY TypeRows DEF LocalInv, Writers
<1>2. /\ pc[s] = "context" /\ pc'[s] = "attempt" /\ attempt'[s] = 1 /\ phase'[s] = "task"
      /\ phase[s] = "task" /\ ~late'[s] /\ sent' = sent
      /\ runs[s]["task"].audit = <<>> /\ cache[s] = NoOutput
  BY <1>1 DEF TypeOK, LocalInv, RowInv, OutputInv, LateInv, Before, Collecting, Outcomes, history
<1>3. Elsewhere(s)
  <2>1. /\ \A t \in Steps \ {s} : runs'[t] = runs[t] /\ cache'[t] = cache[t]
        /\ evidence \subseteq evidence'
    BY <1>1, Effects, StoreType DEF LocalInv, Others
  <2> QED
    BY <2>1 DEF TypeOK, Elsewhere, Same, history
<1>4. /\ runs'[s]["task"].status = "running" /\ runs'[s]["task"].context = evidence
      /\ runs'[s]["task"].audit = <<>> /\ runs'[s]["review"] = runs[s]["review"]
      /\ cache'[s] = NoOutput /\ evidence' = evidence
  BY <1>1, <1>2, Effects, StoreType DEF LocalInv, Becomes, Kinds
<1>5. RowInv(s)' /\ OutputInv(s)' /\ LateInv(s)'
  BY <1>1, <1>2, <1>4
     DEF LocalInv, RowInv, OutputInv, LateInv, Before, Collecting, Stopped, Accepted, Reviewing,
         NoRun, Reviewed
<1>6. AuditInv(s)'
  BY <1>2, StoreAudits
<1>7. TurnInv(s)'
  BY <1>2, <1>4, EmptyAudit DEF TurnInv, Asking, Outcomes
<1> QED
  BY <1>1, <1>3, <1>5, <1>6, <1>7, OneMoves DEF LocalInv

LEMMA StartReviewInv == ASSUME IInv, NEW s \in Steps, StartReview(s) PROVE IInv'
<1> USE DEF IInv, StartReview, abort, history, At, Goto
<1>1. TypeOK' /\ LocalInv(s)
  BY TypeRows DEF LocalInv, Writers
<1>2. Elsewhere(s)
  BY StoreElsewhere DEF TypeOK
<1>3. /\ pc[s] = "startReview" /\ pc'[s] = "reviewContext" /\ phase'[s] = "review"
      /\ phase[s] = "task" /\ ~late'[s] /\ sent' = sent /\ sent[s]["review"] = 0
      /\ runs[s]["task"].status = "running" /\ cache[s] = NoOutput
  BY <1>1 DEF TypeOK, LocalInv, RowInv, OutputInv, LateInv, Before, Stopped, Outcomes
<1>4. /\ runs'[s]["task"] = runs[s]["task"] /\ runs'[s]["review"].status = "running"
      /\ runs'[s]["review"].audit = <<>> /\ cache'[s] = NoOutput /\ evidence' = evidence
  BY <1>1, <1>3, Effects, StoreType DEF LocalInv, Becomes, Kinds
<1>5. RowInv(s)' /\ LateInv(s)'
  BY <1>3, <1>4 DEF RowInv, LateInv, Before, Collecting, Stopped, Accepted, Reviewed
<1>6. OutputInv(s)'
  BY <1>1, <1>3, <1>4 DEF LocalInv, OutputInv, Cited, Accepted
<1>7. AuditInv(s)' /\ TurnInv(s)'
  BY <1>3, StoreAudits DEF TurnInv, Asking, Outcomes
<1> QED
  BY <1>1, <1>2, <1>5, <1>6, <1>7, OneMoves DEF LocalInv

LEMMA ReviewContextInv == ASSUME IInv, NEW s \in Steps, ReviewContext(s) PROVE IInv'
<1> USE DEF IInv, ReviewContext, Generate, At, Goto
<1>1. TypeOK' /\ LocalInv(s)
  BY TypeRows DEF LocalInv, Writers
<1>2. /\ pc[s] = "reviewContext" /\ pc'[s] = "attempt" /\ attempt'[s] = 1
      /\ phase'[s] = "review" /\ phase[s] = "review" /\ ~late'[s] /\ sent' = sent
      /\ runs[s]["task"].status = "running" /\ cache[s] = NoOutput
      /\ runs[s]["review"].audit = <<>>
  BY <1>1 DEF TypeOK, LocalInv, RowInv, OutputInv, LateInv, Before, Stopped, Outcomes, history
<1>3. Elsewhere(s)
  <2>1. /\ \A t \in Steps \ {s} : runs'[t] = runs[t] /\ cache'[t] = cache[t]
        /\ evidence \subseteq evidence'
    BY <1>1, Effects, StoreType DEF LocalInv, Others
  <2> QED
    BY <2>1 DEF TypeOK, Elsewhere, Same, history
<1>4. /\ runs'[s]["task"] = runs[s]["task"] /\ runs'[s]["review"].status = "running"
      /\ runs'[s]["review"].audit = <<>> /\ cache'[s] = NoOutput /\ evidence' = evidence
  BY <1>1, <1>2, Effects, StoreType DEF LocalInv, Becomes, Kinds
<1>5. RowInv(s)' /\ LateInv(s)'
  BY <1>2, <1>4 DEF RowInv, LateInv, Before, Collecting, Stopped, Accepted, Reviewed
<1>6. OutputInv(s)'
  BY <1>1, <1>2, <1>4 DEF LocalInv, OutputInv, Cited, Accepted, Reviewing
<1>7. AuditInv(s)'
  BY <1>2, StoreAudits
<1>8. TurnInv(s)'
  BY <1>2, <1>4, EmptyAudit DEF TurnInv, Asking, Outcomes
<1> QED
  BY <1>1, <1>3, <1>5, <1>6, <1>7, <1>8, OneMoves DEF LocalInv

-----------------------------------------------------------------------------
(* One attempt: announced, sent, answered, recorded.                        *)
LEMMA AttemptStartedInv == ASSUME IInv, NEW s \in Steps, AttemptStarted(s) PROVE IInv'
<1> USE DEF IInv, At, Goto
<1>1. TypeOK' /\ LocalInv(s)
  BY TypeRows DEF LocalInv
<1>2. /\ pc[s] = "attempt" /\ phase[s] \in Kinds
      /\ UNCHANGED <<work, abort, faults, history>>
  BY DEF AttemptStarted, TypeOK
<1> USE DEF work, abort, history
<1>3. CASE Aborted(s)
  <2>1. UNCHANGED db /\ pc' = [pc EXCEPT ![s] = Failing(s)]
    BY <1>3 DEF AttemptStarted
  <2>2. Moves(s, pc[s], pc'[s]) /\ Same(s) /\ (Aborted(s) => Aborted(s)')
    BY <1>2, <2>1 DEF db, Moves, Failing, Same, Aborted, TypeOK, Kinds, Reviewing, Asking, Before,
                      Stopped
  <2>3. Elsewhere(s)
    BY <1>2, <2>1 DEF db, Elsewhere, Same, TypeOK
  <2> QED
    BY <1>1, <2>2, <2>3, Moving, OneMoves
<1>4. CASE ~Aborted(s)
  <2>1. Store(s) /\ pc' = [pc EXCEPT ![s] = "send"] /\ pc'[s] = "send"
    BY <1>4 DEF AttemptStarted, TypeOK
  <2>2. Elsewhere(s)
    BY <1>2, <2>1, StoreElsewhere DEF TypeOK
  <2> DEFINE k == phase[s]
             new == runs'[s][k].audit
  <2>3. /\ Becomes(s, k, "running", runs[s][k].context, new)
        /\ Len(new) = 2 * attempt[s] - 1 /\ Cardinality(Announced(new)) = attempt[s]
        /\ sent[s][k] < attempt[s]
    BY <1>2, <2>1, AttemptAnnounced
  <2>4. /\ runs[s][k].status = "running" /\ runs[s]["task"].status = "running"
        /\ cache[s] = NoOutput
    BY <1>1, <1>2 DEF LocalInv, RowInv, OutputInv, Before, Stopped, Reviewing, Asking, Kinds
  <2>5. /\ runs'[s]["task"].status = "running"
        /\ runs'[s]["task"].context = runs[s]["task"].context
        /\ runs'[s]["review"].status = runs[s]["review"].status
        /\ k = "task" => runs'[s]["review"] = runs[s]["review"]
        /\ cache'[s] = NoOutput /\ evidence' = evidence
    BY <1>1, <1>2, <2>1, <2>3, <2>4, StoreType DEF Becomes, Kinds, LocalInv
  <2>6. RowInv(s)' /\ LateInv(s)'
    BY <1>1, <1>2, <2>1, <2>5 DEF LocalInv, RowInv, LateInv, Before, Collecting, Stopped, Accepted,
                                  Reviewing, Asking, Outcomes
  <2>7. OutputInv(s)'
    BY <1>1, <1>2, <2>1, <2>5 DEF LocalInv, OutputInv, Cited, Accepted, Reviewing, Asking
  <2>8. AuditInv(s)'
    BY <1>2, <2>1, StoreAudits
  <2>9. TurnInv(s)'
    BY <1>2, <2>1, <2>3 DEF TurnInv, Asking, Outcomes
  <2> QED
    BY <1>1, <2>2, <2>6, <2>7, <2>8, <2>9, OneMoves DEF LocalInv
<1> QED
  BY <1>3, <1>4

LEMMA SendInv == ASSUME IInv, NEW s \in Steps, Send(s) PROVE IInv'
<1> USE DEF IInv, db, work, abort, history, At, Goto
<1>1. TypeOK'
  BY TypePlain
<1>2. /\ pc[s] = "send" /\ phase[s] \in Kinds /\ LocalInv(s)
      /\ UNCHANGED <<db, work, abort, faults, late>>
  BY DEF Send, TypeOK
<1>3. Elsewhere(s)
  BY <1>2 DEF Send, Elsewhere, Same, TypeOK
<1>4. CASE Aborted(s)
  <2>1. Moves(s, pc[s], pc'[s]) /\ Same(s) /\ (Aborted(s) => Aborted(s)')
    BY <1>2, <1>4 DEF Send, Moves, Same, Aborted, TypeOK
  <2> QED
    BY <1>1, <1>3, <2>1, Moving, OneMoves
<1>5. CASE ~Aborted(s)
  <2> DEFINE k == phase[s]
             announced == Cardinality(Announced(runs[s][k].audit))
  <2>1. /\ pc'[s] = "request" /\ sent'[s][k] = sent[s][k] + 1
        /\ \A j \in Kinds \ {k} : sent'[s][j] = sent[s][j]
    BY <1>2, <1>5 DEF Send, TypeOK
  <2>2. sent[s][k] < attempt[s] /\ announced = attempt[s]
    BY <1>2 DEF LocalInv, TurnInv, Asking
  <2>3. sent[s][k] \in Nat /\ attempt[s] \in Nat
    BY <1>2 DEF TypeOK
  <2>4. AuditInv(s)'
    BY <1>2, <2>1, <2>2, <2>3 DEF LocalInv, AuditInv
  <2>5. RowInv(s)' /\ LateInv(s)'
    BY <1>2, <2>1 DEF LocalInv, RowInv, LateInv, Before, Collecting, Stopped, Accepted,
                      Reviewing, Asking, Outcomes, Kinds
  <2>6. OutputInv(s)'
    BY <1>2, <2>1 DEF LocalInv, OutputInv, Cited, Accepted, Reviewing, Asking
  <2>7. TurnInv(s)'
    BY <1>2, <2>1 DEF LocalInv, TurnInv, Asking, Outcomes
  <2> QED
    BY <1>1, <1>3, <2>4, <2>5, <2>6, <2>7, OneMoves DEF LocalInv
<1> QED
  BY <1>4, <1>5

LEMMA ProviderAnswersInv == ASSUME IInv, NEW s \in Steps, ProviderAnswers(s) PROVE IInv'
<1> USE DEF IInv, ProviderAnswers, db, work, abort, history, At, Goto
<1>1. TypeOK'
  BY TypePlain
<1>2. Elsewhere(s)
  BY DEF Elsewhere, Same, TypeOK
<1>3. /\ pc[s] = "request" /\ LocalInv(s) /\ pc'[s] \in Outcomes
      /\ late'[s] = (late[s] \/ Aborted(s))
  BY DEF TypeOK
<1>4. RowInv(s)'
  BY <1>3 DEF LocalInv, RowInv, Before, Collecting, Stopped, Accepted, Reviewing, Asking, Outcomes
<1>5. OutputInv(s)'
  BY <1>3 DEF LocalInv, OutputInv, Cited, Accepted, Reviewing, Asking, Outcomes
<1>6. LateInv(s)'
  BY <1>3 DEF LocalInv, LateInv, OutputInv, Aborted, Outcomes
<1>7. AuditInv(s)' /\ TurnInv(s)'
  BY <1>3 DEF LocalInv, AuditInv, TurnInv, Asking, Outcomes
<1> QED
  BY <1>1, <1>2, <1>4, <1>5, <1>6, <1>7, OneMoves DEF LocalInv

(* What a recorded outcome leaves to be seen by the row's invariants.        *)
LEMMA OutcomeSeen ==
  ASSUME IInv, NEW s \in Steps, pc[s] \in Outcomes, Store(s)
  PROVE  /\ runs'[s]["task"].status = "running" /\ runs[s]["task"].status = "running"
         /\ runs'[s]["task"].context = runs[s]["task"].context
         /\ runs'[s]["review"].status = runs[s]["review"].status
         /\ phase[s] = "task" => runs'[s]["review"] = runs[s]["review"]
         /\ cache[s] = NoOutput /\ cache'[s] = NoOutput /\ evidence' = evidence
<1>1. TypeOK /\ LocalInv(s) /\ phase[s] \in Kinds
  BY DEF IInv, TypeOK
<1>2. Becomes(s, phase[s], "running", runs[s][phase[s]].context, runs'[s][phase[s]].audit)
  BY OutcomeRecorded
<1>3. /\ runs[s][phase[s]].status = "running" /\ runs[s]["task"].status = "running"
      /\ cache[s] = NoOutput
  BY <1>1 DEF LocalInv, RowInv, OutputInv, Before, Stopped, Reviewing, Asking, Outcomes, Kinds
<1>4. cache'[s] = NoOutput /\ evidence' = evidence
  BY <1>1, <1>3, StoreType DEF LocalInv, Outcomes
<1> QED
  BY <1>1, <1>2, <1>3, <1>4 DEF Becomes, Kinds

(* Recorded, an attempt that failed is tried again or leads to a failure.   *)
LEMMA AttemptFailedInv == ASSUME IInv, NEW s \in Steps, AttemptFailed(s) PROVE IInv'
<1> USE DEF IInv, abort, history, At, Goto
<1>1. TypeOK' /\ LocalInv(s)
  BY TypeRows DEF LocalInv, Writers
<1>2. /\ pc[s] \in {"transient", "permanent"} /\ pc[s] \in Outcomes /\ Store(s)
      /\ phase[s] \in Kinds /\ attempt[s] \in Nat
      /\ UNCHANGED <<phase, queries, result, collected, output, supports, abort, faults, history>>
  BY DEF AttemptFailed, TypeOK, Outcomes
<1>3. /\ pc'[s] \in {"attempt", Failing(s)}
      /\ pc'[s] = "attempt" => attempt'[s] = attempt[s] + 1 /\ pc[s] = "transient" /\ ~Aborted(s)
      /\ \A t \in Steps \ {s} : pc'[t] = pc[t] /\ attempt'[t] = attempt[t]
  BY DEF AttemptFailed, TypeOK, Failing
<1>4. Elsewhere(s)
  BY <1>2, <1>3, StoreElsewhere
<1>5. RowInv(s)'
  BY <1>1, <1>2, <1>3, OutcomeSeen
     DEF LocalInv, RowInv, Failing, Before, Collecting, Stopped, Accepted, Reviewing, Asking,
         Outcomes, Kinds
<1>6. OutputInv(s)'
  BY <1>1, <1>2, <1>3, OutcomeSeen
     DEF LocalInv, OutputInv, Cited, Failing, Accepted, Reviewing, Asking, Outcomes, Kinds
<1>7. LateInv(s)'
  BY <1>1, <1>2, <1>3, OutcomeSeen DEF LocalInv, LateInv, Failing, Outcomes, Aborted
<1>8. AuditInv(s)'
  BY <1>2, StoreAudits
<1>9. TurnInv(s)'
  <2>1. LET audit == runs'[s][phase[s]].audit IN
        /\ Len(audit) = 2 * attempt[s] /\ audit[Len(audit)] = pc[s]
        /\ Cardinality(Announced(audit)) = attempt[s]
    BY <1>2, OutcomeRecorded
  <2>2. phase'[s] = phase[s] /\ (pc'[s] = "attempt" \/ pc'[s] \notin Asking)
    BY <1>2, <1>3 DEF Failing, Asking, Outcomes, Kinds
  <2>3. pc'[s] = "attempt" => /\ attempt'[s] >= 1 /\ attempt'[s] - 1 = attempt[s]
                             /\ pc[s] = "transient" /\ pc'[s] # "send"
    BY <1>2, <1>3
  <2> QED
    BY <2>1, <2>2, <2>3 DEF TurnInv, Asking
<1> QED
  BY <1>1, <1>4, <1>5, <1>6, <1>7, <1>8, <1>9, OneMoves DEF LocalInv

(* So does a late answer; one in time is validated, or ends the review.     *)
LEMMA AttemptSucceededInv == ASSUME IInv, NEW s \in Steps, AttemptSucceeded(s) PROVE IInv'
<1> USE DEF IInv, abort, history, At, Goto
<1>1. TypeOK' /\ LocalInv(s)
  BY TypeRows DEF LocalInv, Writers
<1>2. /\ pc[s] = "succeeded" /\ pc[s] \in Outcomes /\ Store(s) /\ phase[s] \in Kinds
      /\ UNCHANGED <<phase, queries, result, collected, attempt, abort, faults, history>>
  BY DEF AttemptSucceeded, TypeOK, Outcomes
<1>3. \/ /\ ~Aborted(s) /\ phase[s] = "task" /\ pc'[s] = "validate"
      \/ /\ ~Aborted(s) /\ phase[s] = "review" /\ pc'[s] = "keepReview" /\ output' = output
      \/ /\ pc'[s] = Failing(s) /\ output' = output
  BY DEF AttemptSucceeded, InTime, TypeOK
<1>4. \A t \in Steps \ {s} : pc'[t] = pc[t] /\ output'[t] = output[t] /\ supports'[t] = supports[t]
  <2>1. \A t \in Steps \ {s} : pc'[t] = pc[t]
    BY Succeeds DEF TypeOK
  <2>2. \A t \in Steps \ {s} : output'[t] = output[t]
    BY Succeeds DEF TypeOK
  <2>3. \A t \in Steps \ {s} : supports'[t] = supports[t]
    <3>1. CASE supports' = supports
      BY <3>1
    <3>2. ASSUME NEW yes \in BOOLEAN, supports' = [supports EXCEPT ![s] = yes]
          PROVE  \A t \in Steps \ {s} : supports'[t] = supports[t]
      BY <3>2 DEF TypeOK
    <3> QED
      BY <3>1, <3>2, Succeeds
  <2> QED
    BY <2>1, <2>2, <2>3
<1>5. Elsewhere(s)
  BY <1>2, <1>4, StoreElsewhere
<1>6. RowInv(s)'
  BY <1>1, <1>2, <1>3, OutcomeSeen
     DEF LocalInv, RowInv, Failing, Before, Collecting, Stopped, Accepted, Reviewing, Asking,
         Outcomes, Kinds
<1>7. OutputInv(s)'
  BY <1>1, <1>2, <1>3, OutcomeSeen
     DEF LocalInv, OutputInv, Cited, Failing, Accepted, Reviewing, Asking, Outcomes, Kinds
<1>8. LateInv(s)'
  BY <1>1, <1>2, <1>3, OutcomeSeen DEF LocalInv, LateInv, Failing, Outcomes, Aborted
<1>9. AuditInv(s)' /\ TurnInv(s)'
  BY <1>2, <1>3, StoreAudits DEF TurnInv, Failing, Asking, Outcomes, Kinds
<1> QED
  BY <1>1, <1>5, <1>6, <1>7, <1>8, <1>9, OneMoves DEF LocalInv

-----------------------------------------------------------------------------
(* How a run and its review end.                                            *)
LEMMA KeepReviewInv == ASSUME IInv, NEW s \in Steps, KeepReview(s) PROVE IInv'
<1> USE DEF IInv, KeepReview, work, abort, history, At, Goto
<1>1. TypeOK' /\ LocalInv(s)
  BY TypeRows DEF LocalInv, Writers
<1>2. /\ pc[s] = "keepReview" /\ phase[s] = "review" /\ cache[s] = NoOutput
      /\ pc'[s] = IF supports[s] THEN "complete" ELSE "fail"
  BY <1>1 DEF TypeOK, LocalInv, RowInv, OutputInv
<1>3. /\ runs'[s]["review"].status = "succeeded" /\ runs'[s]["task"] = runs[s]["task"]
      /\ cache'[s] = NoOutput /\ evidence' = evidence
  BY <1>1, <1>2, Effects, StoreType DEF LocalInv, Becomes, Kinds
<1>4. Elsewhere(s)
  BY StoreElsewhere DEF TypeOK
<1>5. RowInv(s)' /\ LateInv(s)'
  BY <1>1, <1>2, <1>3 DEF LocalInv, RowInv, LateInv, Before, Collecting, Stopped, Accepted,
                          Reviewed, Reviewing, Asking, Outcomes
<1>6. OutputInv(s)'
  BY <1>1, <1>2, <1>3 DEF LocalInv, OutputInv, Supported, Cited, Accepted, Reviewing, Asking,
                          Outcomes
<1>7. AuditInv(s)' /\ TurnInv(s)'
  BY <1>2, StoreAudits DEF TurnInv, Asking, Outcomes
<1> QED
  BY <1>1, <1>4, <1>5, <1>6, <1>7, OneMoves DEF LocalInv

LEMMA CompleteInv == ASSUME IInv, NEW s \in Steps, Complete(s) PROVE IInv'
<1> USE DEF IInv, Complete, work, abort, history, At, Goto
<1>1. TypeOK' /\ LocalInv(s)
  BY TypeRows DEF LocalInv, Writers
<1>2. pc[s] = "complete" /\ pc'[s] = "cache" /\ cache[s] = NoOutput
  BY <1>1 DEF TypeOK, LocalInv, OutputInv
<1>3. /\ runs'[s]["task"].status = "succeeded" /\ runs'[s]["review"] = runs[s]["review"]
      /\ runs'[s]["task"].context = runs[s]["task"].context
      /\ cache'[s] = NoOutput /\ evidence' = evidence
  BY <1>1, <1>2, Effects, StoreType DEF LocalInv, Becomes, Kinds
<1>4. Elsewhere(s)
  BY StoreElsewhere DEF TypeOK
<1>5. RowInv(s)' /\ LateInv(s)'
  BY <1>1, <1>2, <1>3 DEF LocalInv, RowInv, LateInv, Before, Collecting, Stopped, Accepted,
                          Reviewed, Reviewing, Asking, Outcomes
<1>6. OutputInv(s)'
  BY <1>1, <1>2, <1>3 DEF LocalInv, OutputInv, Supported, Cited, Accepted, Reviewing, Asking,
                          Outcomes
<1>7. AuditInv(s)' /\ TurnInv(s)'
  BY <1>2, StoreAudits DEF TurnInv, Asking, Outcomes
<1> QED
  BY <1>1, <1>4, <1>5, <1>6, <1>7, OneMoves DEF LocalInv

LEMMA FailRunInv == ASSUME IInv, NEW s \in Steps, FailRun(s) PROVE IInv'
<1> USE DEF IInv, FailRun, work, abort, history, At, Goto
<1>1. TypeOK' /\ LocalInv(s)
  BY TypeRows DEF LocalInv, Writers
<1>2. /\ \/ pc[s] = "failReview" /\ pc'[s] = "fail"
         \/ pc[s] = "fail" /\ pc'[s] = "failed"
      /\ cache[s] = NoOutput
  BY <1>1 DEF TypeOK, LocalInv, OutputInv, AfterFailure
<1>3. /\ pc[s] = "failReview" => runs'[s]["task"] = runs[s]["task"]
      /\ pc[s] = "fail" => /\ runs'[s]["task"].status = "failed"
                           /\ runs'[s]["task"].context = runs[s]["task"].context
                           /\ runs'[s]["review"] = runs[s]["review"]
      /\ cache'[s] = NoOutput /\ evidence' = evidence
  BY <1>1, <1>2, Effects, StoreType DEF LocalInv, Becomes, Kinds
<1>4. Elsewhere(s)
  BY StoreElsewhere DEF TypeOK
<1>5. RowInv(s)' /\ LateInv(s)'
  BY <1>1, <1>2, <1>3 DEF LocalInv, RowInv, LateInv, Before, Collecting, Stopped, Accepted,
                          Reviewed, Reviewing, Asking, Outcomes
<1>6. OutputInv(s)'
  BY <1>1, <1>2, <1>3 DEF LocalInv, OutputInv, Accepted, Reviewing, Asking, Outcomes
<1>7. AuditInv(s)' /\ TurnInv(s)'
  BY <1>2, StoreAudits DEF TurnInv, Asking, Outcomes
<1> QED
  BY <1>1, <1>4, <1>5, <1>6, <1>7, OneMoves DEF LocalInv

LEMMA StorePreparedInv == ASSUME IInv, NEW s \in Steps, StorePrepared(s) PROVE IInv'
<1> USE DEF IInv, At, Goto
<1>1. TypeOK' /\ LocalInv(s)
  BY TypeRows DEF LocalInv
<1>2. /\ pc[s] = "cache" /\ cache[s] = NoOutput /\ UNCHANGED <<work, abort, faults, history>>
      /\ \A t \in Steps \ {s} : pc'[t] = pc[t]
  BY <1>1 DEF StorePrepared, LocalInv, OutputInv, TypeOK
<1>3. /\ runs' = runs /\ evidence' = evidence
      /\ \A t \in Steps \ {s} : cache'[t] = cache[t]
      /\ \/ pc'[s] = "failed" /\ cache'[s] = NoOutput
         \/ pc'[s] = "cached" /\ cache'[s] = output[s]
  <2>1. CASE cancelled[s]
    BY <1>2, <2>1 DEF StorePrepared, db, TypeOK
  <2>2. CASE ~cancelled[s]
    <3>1. Store(s) /\ pc'[s] = "cached"
      BY <2>2 DEF StorePrepared, TypeOK
    <3> QED
      BY <1>1, <1>2, <3>1, Effects, StoreType DEF LocalInv
  <2> QED
    BY <2>1, <2>2
<1> USE DEF work, abort, history
<1>4. Elsewhere(s)
  BY <1>2, <1>3 DEF Elsewhere, Same
<1>5. RowInv(s)' /\ LateInv(s)'
  BY <1>1, <1>2, <1>3 DEF LocalInv, RowInv, LateInv, Before, Collecting, Stopped, Accepted,
                          Reviewing, Asking, Outcomes
<1>6. OutputInv(s)'
  BY <1>1, <1>2, <1>3 DEF LocalInv, OutputInv, Supported, Cited, Accepted, Reviewing, Asking,
                          Outcomes
<1>7. AuditInv(s)' /\ TurnInv(s)'
  BY <1>1, <1>2, <1>3 DEF LocalInv, AuditInv, TurnInv, Asking, Outcomes
<1> QED
  BY <1>1, <1>4, <1>5, <1>6, <1>7, OneMoves DEF LocalInv

-----------------------------------------------------------------------------
(* A write whose answer is lost has been made; the run goes where a failed  *)
(* one would have led it.                                                   *)
LEMMA AnswerLostInv == ASSUME IInv, NEW s \in Steps, AnswerLost(s) PROVE IInv'
<1> USE DEF IInv, AnswerLost, work, abort, history, Goto
<1>1. TypeOK' /\ LocalInv(s)
  BY TypeRows DEF LocalInv, Writers
<1>2. /\ Store(s) /\ Writing(s) /\ pc[s] \in PC /\ phase[s] \in Kinds /\ pc'[s] = OnFault(s)
      /\ pc[s] \notin Stopped \cup {"check", "tool", "send", "request", "validate"}
      /\ UNCHANGED <<work, abort, history>>
  BY DEF TypeOK, Store, Writing
<1>3. Elsewhere(s)
  BY <1>2, StoreElsewhere DEF TypeOK
<1>4. /\ evidence \subseteq evidence' /\ cache[s] = NoOutput
      /\ cache'[s] = IF pc[s] = "cache" THEN output[s] ELSE NoOutput
  BY <1>1, <1>2, StoreType DEF LocalInv, OutputInv, Stopped
<1>5. AuditInv(s)'
  BY <1>2, StoreAudits
<1>6. TurnInv(s)' /\ LateInv(s)'
  BY <1>1, <1>2, <1>4 DEF LocalInv, TurnInv, LateInv, OnFault, Failing, Asking, Outcomes, Stopped
<1>7. RowInv(s)' /\ OutputInv(s)'
  <2> USE DEF LocalInv, RowInv, OutputInv, OnFault, Failing, Before, Collecting, Stopped,
              Accepted, Reviewed, Reviewing, Asking, Outcomes, Kinds
  <2>1. CASE pc[s] \in {"query", "toolCompleted", "toolFailed", "cache"}
    <3>1. runs' = runs /\ pc'[s] = IF pc[s] = "cache" THEN "failed"
                                   ELSE IF pc[s] = "toolCompleted" THEN "toolFailed" ELSE "fail"
      BY <1>1, <1>2, <2>1, Effects
    <3>2. RowInv(s)'
      BY <1>1, <1>2, <1>4, <2>1, <3>1
    <3>3. OutputInv(s)'
      BY <1>1, <1>2, <1>4, <2>1, <3>1 DEF Supported, Cited
    <3> QED
      BY <3>2, <3>3
  <2>2. CASE pc[s] = "start"
    <3>1. Becomes(s, "task", "running", {}, <<>>) /\ pc'[s] = "failed"
      BY <1>1, <1>2, <2>2, Effects
    <3> QED
      BY <1>1, <1>2, <1>4, <2>2, <3>1 DEF Becomes
  <2>3. CASE pc[s] = "context"
    <3>1. /\ Becomes(s, "task", "running", evidence, runs[s]["task"].audit)
          /\ pc'[s] = "fail"
      BY <1>1, <1>2, <2>3, Effects
    <3> QED
      BY <1>1, <1>2, <1>4, <2>3, <3>1 DEF Becomes, NoRun
  <2>4. CASE pc[s] = "startReview"
    <3>1. Becomes(s, "review", "running", {}, <<>>) /\ pc'[s] = "fail"
      BY <1>1, <1>2, <2>4, Effects
    <3> QED
      BY <1>1, <1>2, <1>4, <2>4, <3>1 DEF Becomes
  <2>5. CASE pc[s] \in Outcomes \cup {"attempt"}
    <3>1. /\ runs'[s]["task"].status = "running"
          /\ runs'[s]["task"].context = runs[s]["task"].context
          /\ runs'[s]["review"].status = runs[s]["review"].status
      <4>1. Becomes(s, phase[s], "running", runs[s][phase[s]].context, runs'[s][phase[s]].audit)
        BY <1>2, <2>5, OutcomeRecorded, AttemptAnnounced
      <4> QED
        BY <1>1, <1>2, <2>5, <4>1 DEF Becomes
    <3>2. pc'[s] = IF phase[s] = "task" THEN "fail" ELSE "failReview"
      BY <1>2, <2>5
    <3>3. runs'[s]["review"].status \in {"absent", "running"}
      BY <1>1, <1>2, <2>5, <3>1 DEF NoRun
    <3>4. RowInv(s)'
      BY <1>1, <1>2, <1>4, <2>5, <3>1, <3>2
    <3>5. OutputInv(s)'
      BY <1>1, <1>2, <1>4, <2>5, <3>1, <3>2 DEF Cited
    <3> QED
      BY <3>4, <3>5
  <2>6. CASE pc[s] \in {"reviewContext", "keepReview", "failReview"}
    <3>1. /\ runs'[s]["task"] = runs[s]["task"]
          /\ pc[s] = "reviewContext" => runs'[s]["review"].status = "running"
          /\ pc[s] = "keepReview" => runs'[s]["review"].status = "succeeded"
      BY <1>1, <1>2, <2>6, Effects DEF Becomes
    <3>2. pc'[s] = IF pc[s] = "failReview" THEN "fail" ELSE "failReview"
      BY <1>1, <1>2, <2>6
    <3>3. RowInv(s)'
      BY <1>1, <1>2, <1>4, <2>6, <3>1, <3>2
    <3>4. OutputInv(s)'
      BY <1>1, <1>2, <1>4, <2>6, <3>1, <3>2 DEF Cited
    <3> QED
      BY <3>3, <3>4
  <2>7. CASE pc[s] \in {"complete", "fail"}
    <3>1. /\ runs'[s]["task"].status = IF pc[s] = "complete" THEN "succeeded" ELSE "failed"
          /\ runs'[s]["task"].context = runs[s]["task"].context
          /\ runs'[s]["review"] = runs[s]["review"]
          /\ pc'[s] = IF pc[s] = "complete" THEN "fail" ELSE "failed"
      BY <1>1, <1>2, <2>7, Effects DEF Becomes
    <3> QED
      BY <1>1, <1>2, <1>4, <2>7, <3>1
  <2> QED
    BY <1>2, <2>1, <2>2, <2>3, <2>4, <2>5, <2>6, <2>7 DEF PC
<1> QED
  BY <1>1, <1>3, <1>5, <1>6, <1>7, OneMoves DEF LocalInv

-----------------------------------------------------------------------------
LEMMA InitInv == Init => IInv
<1> SUFFICES ASSUME Init PROVE IInv
  OBVIOUS
<1> USE DEF Init
<1>1. NoRun \in RunRow /\ NoRun.status = "absent" /\ NoRun.context = {} /\ NoRun.audit = <<>>
  BY NewRows DEF NoRun
<1>2. TypeOK
  BY <1>1, AgentRunsAssumption DEF TypeOK, PC, Kinds, Stopped, Outcomes
<1>3. ASSUME NEW s \in Steps PROVE LocalInv(s)
  <2>1. RowInv(s) /\ LateInv(s)
    BY <1>1 DEF RowInv, LateInv, Kinds, Before, Stopped, Accepted, Reviewed
  <2>2. OutputInv(s)
    BY <1>1 DEF OutputInv, Kinds, Accepted
  <2>3. Announced(<<>>) = {} /\ Alternates(<<>>)
    BY DEF Announced, Alternates
  <2>4. Cardinality(Announced(<<>>)) = 0
    BY <2>3, FS_EmptySet
  <2>5. AuditInv(s)
    BY <1>1, <2>3, <2>4, AgentRunsAssumption DEF AuditInv
  <2>6. TurnInv(s)
    BY DEF TurnInv, Asking, Outcomes
  <2> QED
    BY <2>1, <2>2, <2>5, <2>6 DEF LocalInv
<1> QED
  BY <1>2, <1>3 DEF IInv

THEOREM StepInv == IInv /\ [Next]_vars => IInv'
<1> SUFFICES ASSUME IInv, [Next]_vars PROVE IInv'
  OBVIOUS
<1>1. ASSUME NEW s \in Steps, Run(s) PROVE IInv'
  BY <1>1, QuietInv, StartRunInv, ContextReadyInv, AttemptStartedInv, SendInv,
     ProviderAnswersInv, AttemptFailedInv, AttemptSucceededInv, StartReviewInv, ReviewContextInv,
     KeepReviewInv, CompleteInv, FailRunInv, StorePreparedInv
     DEF Run
<1>2. ASSUME NEW s \in Steps, WriteFails(s) \/ AnswerLost(s) PROVE IInv'
  BY <1>2, QuietInv, AnswerLostInv
<1>3. ASSUME NEW s \in Steps, Cancel(s) \/ Expire(s) PROVE IInv'
  BY <1>3, SignalInv
<1>4. CASE Crash \/ GrantBudget
  BY <1>4, CrashInv, GrantInv
<1>5. CASE UNCHANGED vars
  <2>1. TypeOK'
    BY <1>5 DEF IInv, TypeOK, vars, db, work, abort, history
  <2>2. \A s \in Steps : Same(s) /\ pc'[s] = pc[s] /\ (Aborted(s) => Aborted(s)')
    BY <1>5 DEF Same, Aborted, vars, db, work, abort, history
  <2> QED
    BY <2>1, <2>2, Frame DEF IInv
<1> QED
  BY <1>1, <1>2, <1>3, <1>4, <1>5 DEF Next

THEOREM Invariance == Spec => []IInv
<1> QED
  BY InitInv, StepInv, PTL DEF Spec

(* Every variable keeps its kind.                                           *)
THEOREM TypeCorrect == Spec => []TypeOK
<1>1. IInv => TypeOK
  BY DEF IInv
<1> QED
  BY Invariance, <1>1, PTL

(* Whichever writes fail and whenever a signal comes, no request leaves     *)
(* without a record, and only transient failures are followed by another.   *)
THEOREM RequestsLeaveARecord == Spec => []RequestsAreAudited
<1>1. IInv => RequestsAreAudited
  BY DEF IInv, LocalInv, AuditInv, RequestsAreAudited, Announced, Alternates
<1> QED
  BY Invariance, <1>1, PTL

(* What agents hand to the business state is supported.                     *)
THEOREM OutputsAreSupported == Spec => []CachedIsSupported
<1>1. ASSUME IInv, NEW s \in Steps, cache[s] # NoOutput
      PROVE  /\ runs[s]["task"].status = "succeeded"
             /\ cache[s].by \in {"quote", "paraphrase"} =>
                  /\ cache[s].cites # {}
                  /\ cache[s].cites \subseteq evidence \cap runs[s]["task"].context
             /\ cache[s].by = "paraphrase" =>
                  runs[s]["review"].status = "succeeded" /\ supports[s]
             /\ cache[s].by # "contact"
  <2>1. cache[s] = output[s] /\ OutputInv(s) /\ RowInv(s)
    BY <1>1 DEF IInv, LocalInv, OutputInv
  <2> QED
    BY <1>1, <2>1 DEF OutputInv, RowInv, Supported, Cited
<1>2. NoOutput.by = "none"
  BY DEF NoOutput
<1>3. IInv => CachedIsSupported
  BY <1>1, <1>2 DEF CachedIsSupported
<1> QED
  BY Invariance, <1>3, PTL

(* An answer that came too late reaches no business state.                  *)
THEOREM LateIsDropped == Spec => []LateOutputIsDropped
<1>1. IInv => LateOutputIsDropped
  BY DEF IInv, LocalInv, LateInv, OutputInv, LateOutputIsDropped, Outcomes
<1> QED
  BY Invariance, <1>1, PTL

-----------------------------------------------------------------------------
(* Only a row whose run has not failed is written, and one that has         *)
(* succeeded only by the record of a failure.                               *)
Stands(s, k) ==
  /\ runs[s][k].status = "failed" => runs'[s][k] = runs[s][k]
  /\ runs[s][k].status = "succeeded"
       => runs'[s][k] \in {runs[s][k], [runs[s][k] EXCEPT !.status = "failed"]}
AllStand == \A s \in Steps, k \in Kinds : Stands(s, k)

LEMMA StoresSpareFailed == ASSUME IInv, NEW s \in Steps, Store(s) PROVE AllStand
<1>1. /\ TypeOK /\ RowInv(s) /\ phase[s] \in Kinds /\ Writing(s) /\ pc[s] \in PC
      /\ Kinds = {"task", "review"}
      /\ runs[s]["task"] \in RunRow /\ runs[s]["review"] \in RunRow
  BY DEF IInv, LocalInv, TypeOK, Store, Kinds
<1>2. \A t \in Steps \ {s}, k \in Kinds : Stands(t, k)
  BY <1>1, Effects DEF Others, Stands
<1>3. CASE pc[s] \in {"start", "context", "complete"}
  <2>1. /\ runs'[s]["review"] = runs[s]["review"]
        /\ runs[s]["task"].status \notin {"succeeded", "failed"}
    BY <1>1, <1>3, Effects DEF Becomes, RowInv, Before, Stopped, NoRun
  <2> QED
    BY <1>1, <1>2, <2>1 DEF AllStand, Stands
<1>4. CASE pc[s] \in Outcomes \cup {"attempt"}
  <2>1. /\ \A k \in Kinds \ {phase[s]} : runs'[s][k] = runs[s][k]
        /\ runs[s][phase[s]].status = "running"
    BY <1>1, <1>4, Effects DEF Becomes, RowInv, Before, Stopped, Reviewing, Asking, Outcomes
  <2> QED
    BY <1>1, <1>2, <2>1 DEF AllStand, Stands
<1>5. CASE pc[s] \in {"startReview", "reviewContext", "keepReview"}
  <2>1. /\ runs'[s]["task"] = runs[s]["task"]
        /\ runs[s]["review"].status \notin {"succeeded", "failed"}
    BY <1>1, <1>5, Effects DEF Becomes, RowInv, Reviewing, NoRun
  <2> QED
    BY <1>1, <1>2, <2>1 DEF AllStand, Stands
<1>6. CASE pc[s] \in {"failReview", "fail"}
  <2> DEFINE k == IF pc[s] = "fail" THEN "task" ELSE "review"
  <2>1. /\ k \in Kinds /\ runs[s][k] \in RunRow /\ runs[s][k].status \in {"running", "succeeded"}
        /\ Becomes(s, k, "failed", runs[s][k].context, runs[s][k].audit)
    BY <1>1, <1>6, Effects DEF RowInv
  <2>2. runs'[s][k] = [runs[s][k] EXCEPT !.status = "failed"]
    <3>1. runs'[s][k] \in RunRow
      BY <1>1, <2>1, Effects DEF Others
    <3> QED
      BY <2>1, <3>1 DEF Becomes, RunRow
  <2>3. \A j \in Kinds \ {k} : runs'[s][j] = runs[s][j]
    BY <2>1 DEF Becomes
  <2>4. Stands(s, k)
    BY <2>1, <2>2 DEF Stands
  <2>5. \A j \in Kinds \ {k} : Stands(s, j)
    BY <2>3 DEF Stands
  <2> QED
    BY <1>2, <2>4, <2>5 DEF AllStand
<1>7. CASE pc[s] \in {"query", "toolCompleted", "toolFailed", "cache"}
  <2>1. runs' = runs
    BY <1>1, <1>7, Effects
  <2> QED
    BY <2>1 DEF AllStand, Stands
<1> QED
  BY <1>1, <1>3, <1>4, <1>5, <1>6, <1>7 DEF Writing, PC, Stopped

LEMMA StepsSpareFailed == ASSUME IInv, [Next]_vars PROVE AllStand
<1>1. CASE UNCHANGED runs
  BY <1>1 DEF AllStand, Stands
<1>2. ASSUME NEW s \in Steps, Store(s) PROVE AllStand
  BY <1>2, StoresSpareFailed
<1>3. ASSUME NEW s \in Steps, Run(s) \/ WriteFails(s) \/ AnswerLost(s) \/ Cancel(s) \/ Expire(s)
      PROVE  Store(s) \/ UNCHANGED runs
  <2>1. CASE Writers(s) \/ AttemptStarted(s) \/ StorePrepared(s)
    BY <2>1 DEF Writers, StartRun, ToolStarted, ToolCompleted, ToolFailed, ContextReady,
                AttemptFailed, AttemptSucceeded, StartReview, ReviewContext, KeepReview,
                Complete, FailRun, AnswerLost, AttemptStarted, StorePrepared, db
  <2>2. CASE \/ EnforceBudget(s) \/ ToolAnswers(s) \/ ToolBreaks(s) \/ NoMoreQueries(s) \/ Send(s)
             \/ ProviderAnswers(s) \/ Validate(s) \/ WriteFails(s) \/ Cancel(s) \/ Expire(s)
    BY <2>2 DEF EnforceBudget, ToolAnswers, ToolBreaks, NoMoreQueries, Send, ProviderAnswers,
                Validate, WriteFails, Cancel, Expire, db
  <2> QED
    BY <1>3, <2>1, <2>2 DEF Run, Writers
<1>4. Crash \/ GrantBudget \/ UNCHANGED vars => UNCHANGED runs
  BY DEF Crash, GrantBudget, vars, db
<1> QED
  BY <1>1, <1>2, <1>3, <1>4 DEF Next

(* What a run has failed with stands, one that has succeeded loses nothing  *)
(* but its success, and no task succeeds past its review, whichever writes  *)
(* fail and whichever answers are lost.                                     *)
THEOREM FailuresLast == Spec => FailuresStand
<1>1. ASSUME IInv, IInv', [Next]_vars
      PROVE  \A s \in Steps :
               /\ \A k \in Kinds : Stands(s, k)
               /\ runs'[s]["task"].status = "succeeded"
                    => runs'[s]["review"].status \in {"absent", "succeeded"}
  <2>1. AllStand
    BY <1>1, StepsSpareFailed
  <2>2. \A s \in Steps : RowInv(s)'
    BY <1>1 DEF IInv, LocalInv
  <2> QED
    BY <2>1, <2>2 DEF AllStand, RowInv, Reviewed
<1> QED
  BY Invariance, <1>1, PTL DEF Spec, FailuresStand, Stands
=============================================================================
