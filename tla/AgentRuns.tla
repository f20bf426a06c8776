----------------------------- MODULE AgentRuns -----------------------------
(***************************************************************************)
(* The agents of one mission: activities that run side by side in a worker,*)
(* each asking an agent for an output.  A run checks the mission's budget, *)
(* collects evidence through connectors, builds a context of what the      *)
(* database has of it, asks the model provider at most three times,        *)
(* validates what the answer cites, has paraphrases reviewed by a second   *)
(* run, and hands the output to prepared(), which caches it.               *)
(*                                                                         *)
(* What PostgreSQL keeps is written in transactions of their own, whatever *)
(* becomes of the activity.  Each of these writes can fail, or commit and  *)
(* lose its answer, which the worker cannot tell apart; the activity can be*)
(* cancelled and the provider's deadline can pass at any moment; and the   *)
(* worker can stop, which nobody repairs.                                  *)
(***************************************************************************)
EXTENDS Naturals, Sequences, FiniteSets

CONSTANTS Steps,        \* activities that need an agent
          Evidence,     \* pieces of evidence the connectors can find
          MaxQueries,   \* connector calls a run may make
          StopAt,       \* evidenceStopThreshold
          MaxAttempts,  \* requests to the provider, 3 in the code
          Limit,        \* the budget's connector calls at first
          MaxGrants,    \* bound: how often a user raises it by one
          MaxFaults     \* bound: failed or unanswered writes and stopped workers

ASSUME AgentRunsAssumption ==
  /\ MaxQueries \in Nat /\ StopAt \in Nat /\ MaxAttempts \in Nat \ {0}
  /\ Limit \in Nat /\ MaxGrants \in Nat /\ MaxFaults \in Nat

VARIABLES runs, searched, evidence, cache, limit,      \* PostgreSQL
          pc, phase, queries, result, collected, attempt, output, supports,
          cancelled, overdue,                          \* the abort signals
          faults,
          sent, late                                   \* history

db == <<runs, searched, evidence, cache, limit>>
work == <<phase, queries, result, collected, attempt, output, supports>>
abort == <<cancelled, overdue>>
history == <<sent, late>>
vars == <<db, pc, work, abort, faults, history>>

Kinds == {"task", "review"}
NoRun == [status |-> "absent", context |-> {}, audit |-> <<>>]
NewRun == [NoRun EXCEPT !.status = "running"]
(* What an answer concludes: nothing, or something that its evidence says   *)
(* word for word, paraphrased, or about a contact, which is never reviewed. *)
Outputs == [cites : SUBSET Evidence, by : {"nothing", "quote", "paraphrase", "contact"}]
NoOutput == [cites |-> {}, by |-> "none"]
Outcomes == {"transient", "permanent", "succeeded"}
Stopped == {"refused", "cached", "failed", "crashed"}
PC == Stopped \cup Outcomes \cup
      {"check", "start", "query", "tool", "toolCompleted", "toolFailed", "context", "attempt",
       "send", "request", "validate", "startReview", "reviewContext", "keepReview", "failReview",
       "complete", "fail", "cache"}

Aborted(s) == cancelled[s] \/ overdue[s]
At(s, p) == pc[s] = p
Goto(s, p) == pc' = [pc EXCEPT ![s] = p]
Set(run, s, k, field, value) == [run EXCEPT ![s][k][field] = value]
FailingTask(s) == IF phase[s] = "task" THEN "fail" ELSE "failed"
Failing(s) == IF phase[s] = "task" THEN "fail" ELSE "failReview"

Init ==
  /\ runs = [s \in Steps |-> [k \in Kinds |-> NoRun]]
  /\ searched = 0 /\ evidence = {} /\ cache = [s \in Steps |-> NoOutput] /\ limit = Limit
  /\ pc = [s \in Steps |-> "check"] /\ phase = [s \in Steps |-> "task"]
  /\ queries = [s \in Steps |-> 0] /\ attempt = [s \in Steps |-> 0]
  /\ result = [s \in Steps |-> {}] /\ collected = [s \in Steps |-> {}]
  /\ output = [s \in Steps |-> NoOutput] /\ supports = [s \in Steps |-> FALSE]
  /\ cancelled = [s \in Steps |-> FALSE] /\ overdue = [s \in Steps |-> FALSE]
  /\ faults = 0
  /\ sent = [s \in Steps |-> [k \in Kinds |-> 0]] /\ late = [s \in Steps |-> FALSE]

-----------------------------------------------------------------------------
(* The writes of a run: where each is made, and what it leaves.  A run that *)
(* ends is updated by its id alone, whatever its status is.                 *)
CitableWithResults(s) == evidence \cup collected[s]
Citable(s) == evidence
Audited(s, event) == Set(runs, s, phase[s], "audit", Append(runs[s][phase[s]].audit, event))
Row(s) ==
  CASE pc[s] = "start" -> [runs EXCEPT ![s]["task"] = NewRun]
    [] pc[s] = "context" -> Set(runs, s, "task", "context", Citable(s))
    [] pc[s] = "attempt" -> Audited(s, "started")
    [] pc[s] \in Outcomes -> Audited(s, pc[s])
    [] pc[s] = "startReview" -> [runs EXCEPT ![s]["review"] = NewRun]
    [] pc[s] = "reviewContext" -> Set(runs, s, "review", "context", runs[s]["task"].context)
    [] pc[s] = "keepReview" -> Set(runs, s, "review", "status", "succeeded")
    [] pc[s] = "failReview" -> Set(runs, s, "review", "status", "failed")
    [] pc[s] = "complete" -> Set(runs, s, "task", "status", "succeeded")
    [] pc[s] = "fail" -> Set(runs, s, "task", "status", "failed")
    [] OTHER -> runs

Writing(s) ==
  /\ pc[s] \notin Stopped \cup {"check", "tool", "send", "request", "validate"}
  /\ pc[s] = "query" => queries[s] < MaxQueries
  /\ pc[s] = "attempt" => ~Aborted(s)
  /\ pc[s] = "cache" => ~cancelled[s]
Store(s) ==
  /\ Writing(s) /\ runs' = Row(s)
  /\ searched' = IF pc[s] = "query" THEN searched + 1 ELSE searched
  /\ evidence' = IF pc[s] = "toolCompleted" THEN evidence \cup result[s] ELSE evidence
  /\ cache' = IF pc[s] = "cache" THEN [cache EXCEPT ![s] = output[s]] ELSE cache
  /\ UNCHANGED limit

(* enforceBudget counts what is there, without a lock. *)
EnforceBudget(s) ==
  /\ At(s, "check") /\ Goto(s, IF searched >= limit THEN "refused" ELSE "start")
  /\ UNCHANGED <<db, work, abort, faults, history>>

StartRun(s) ==
  /\ At(s, "start") /\ Store(s) /\ Goto(s, "query")
  /\ UNCHANGED <<work, abort, faults, history>>

(* One call after the other.  What a result contains counts towards the     *)
(* threshold before it is stored; a call that fails, or whose result cannot *)
(* be stored, is recorded as failed and does not stop the run.              *)
ToolStarted(s) ==
  /\ At(s, "query") /\ Store(s) /\ Goto(s, "tool")
  /\ queries' = [queries EXCEPT ![s] = @ + 1]
  /\ UNCHANGED <<phase, result, collected, attempt, output, supports, abort, faults, history>>

ToolAnswers(s) ==
  /\ At(s, "tool")
  /\ \E found \in SUBSET Evidence :
       /\ result' = [result EXCEPT ![s] = found]
       /\ collected' = [collected EXCEPT ![s] = @ \cup found]
  /\ Goto(s, "toolCompleted")
  /\ UNCHANGED <<db, phase, queries, attempt, output, supports, abort, faults, history>>

ToolBreaks(s) ==
  /\ At(s, "tool") /\ Goto(s, "toolFailed")
  /\ UNCHANGED <<db, work, abort, faults, history>>

ToolCompleted(s) ==
  /\ At(s, "toolCompleted") /\ Store(s)
  /\ Goto(s, IF Cardinality(collected[s]) >= StopAt THEN "context" ELSE "query")
  /\ UNCHANGED <<work, abort, faults, history>>

ToolFailed(s) ==
  /\ At(s, "toolFailed") /\ Store(s) /\ Goto(s, "query")
  /\ UNCHANGED <<work, abort, faults, history>>

NoMoreQueries(s) ==
  /\ At(s, "query") /\ Goto(s, "context")
  /\ UNCHANGED <<db, work, abort, faults, history>>

(* The context is what the database has by now, from all the runs.  A call  *)
(* of the provider begins with its first attempt and a new deadline.        *)
Generate(s) ==
  /\ Goto(s, "attempt")
  /\ attempt' = [attempt EXCEPT ![s] = 1] /\ overdue' = [overdue EXCEPT ![s] = FALSE]
ContextReady(s) ==
  /\ At(s, "context") /\ Store(s) /\ Generate(s)
  /\ UNCHANGED <<phase, queries, result, collected, output, supports, cancelled, faults, history>>

-----------------------------------------------------------------------------
(* generate(), for the run and for its review. *)
AttemptStarted(s) ==
  /\ At(s, "attempt")
  /\ IF Aborted(s) THEN Goto(s, Failing(s)) /\ UNCHANGED db ELSE Goto(s, "send") /\ Store(s)
  /\ UNCHANGED <<work, abort, faults, history>>

(* An aborted signal keeps the client from sending. *)
Send(s) ==
  /\ At(s, "send") /\ Goto(s, IF Aborted(s) THEN "permanent" ELSE "request")
  /\ sent' = IF Aborted(s) THEN sent ELSE [sent EXCEPT ![s][phase[s]] = @ + 1]
  /\ UNCHANGED <<db, work, abort, faults, late>>

(* The provider answers, is unavailable for now, or refuses, which stands   *)
(* for a timeout too; after an abort the failure is final, but an answer    *)
(* may have arrived.                                                        *)
ProviderAnswers(s) ==
  /\ At(s, "request")
  /\ \E outcome \in Outcomes : (Aborted(s) => outcome # "transient") /\ Goto(s, outcome)
  /\ late' = [late EXCEPT ![s] = @ \/ Aborted(s)]
  /\ UNCHANGED <<db, work, abort, faults, sent>>

(* The outcome is recorded first.  Then only a transient failure is tried   *)
(* again, and only before the third attempt and while nothing is aborted.   *)
AttemptFailed(s) ==
  /\ pc[s] \in {"transient", "permanent"} /\ Store(s)
  /\ LET again == pc[s] = "transient" /\ attempt[s] < MaxAttempts /\ ~Aborted(s) IN
       /\ Goto(s, IF again THEN "attempt" ELSE Failing(s))
       /\ attempt' = IF again THEN [attempt EXCEPT ![s] = @ + 1] ELSE attempt
  /\ UNCHANGED <<phase, queries, result, collected, output, supports, abort, faults, history>>

(* Late output cannot advance business state; and the answer must parse.    *)
InTimeUnlessCancelled(s) == ~cancelled[s]
InTime(s) == ~Aborted(s)
AttemptSucceeded(s) ==
  /\ At(s, "succeeded") /\ Store(s)
  /\ \/ /\ InTime(s) /\ phase[s] = "task" /\ Goto(s, "validate")
        /\ \E o \in Outputs : output' = [output EXCEPT ![s] = o]
        /\ UNCHANGED supports
     \/ /\ InTime(s) /\ phase[s] = "review" /\ Goto(s, "keepReview")
        /\ \E yes \in BOOLEAN : supports' = [supports EXCEPT ![s] = yes]
        /\ UNCHANGED output
     \/ Goto(s, Failing(s)) /\ UNCHANGED <<output, supports>>
  /\ UNCHANGED <<phase, queries, result, collected, attempt, abort, faults, history>>

-----------------------------------------------------------------------------
(* EvidenceValidator: only what the run's context lists may be cited, and   *)
(* something must be.  What is wrong with the words alone can be reviewed.  *)
Cited(s) == output[s].cites # {} /\ output[s].cites \subseteq runs[s]["task"].context
Validate(s) ==
  /\ At(s, "validate")
  /\ LET o == output[s] IN
       Goto(s, IF o.by = "nothing" \/ (Cited(s) /\ o.by = "quote") THEN "complete"
               ELSE IF Cited(s) /\ o.by = "paraphrase" THEN "startReview" ELSE "fail")
  /\ UNCHANGED <<db, work, abort, faults, history>>

(* The review's run, which the budget does not check, and its context.      *)
StartReview(s) ==
  /\ At(s, "startReview") /\ Store(s) /\ Goto(s, "reviewContext")
  /\ phase' = [phase EXCEPT ![s] = "review"]
  /\ UNCHANGED <<queries, result, collected, attempt, output, supports, abort, faults, history>>

ReviewContext(s) ==
  /\ At(s, "reviewContext") /\ Store(s) /\ Generate(s)
  /\ UNCHANGED <<phase, queries, result, collected, output, supports, cancelled, faults, history>>

(* The review's run is complete whatever it has found; the validator then   *)
(* judges once more.                                                        *)
KeepReview(s) ==
  /\ At(s, "keepReview") /\ Store(s) /\ Goto(s, IF supports[s] THEN "complete" ELSE "fail")
  /\ UNCHANGED <<work, abort, faults, history>>

Complete(s) ==
  /\ At(s, "complete") /\ Store(s) /\ Goto(s, "cache")
  /\ UNCHANGED <<work, abort, faults, history>>

(* A review that fails fails its task. *)
AfterFailureGoOn(s) == IF pc[s] = "failReview" THEN "complete" ELSE "failed"
AfterFailure(s) == IF pc[s] = "failReview" THEN "fail" ELSE "failed"
FailRun(s) ==
  /\ pc[s] \in {"failReview", "fail"} /\ Store(s) /\ Goto(s, AfterFailure(s))
  /\ UNCHANGED <<work, abort, faults, history>>

(* prepared() keeps the output, unless the activity is cancelled. *)
StorePrepared(s) ==
  /\ At(s, "cache")
  /\ IF cancelled[s] THEN Goto(s, "failed") /\ UNCHANGED db ELSE Goto(s, "cached") /\ Store(s)
  /\ UNCHANGED <<work, abort, faults, history>>

(* Where the failure of a write leads, or the loss of its answer.  When an  *)
(* attempt cannot be recorded a file keeps the event and no further request *)
(* is made.                                                                 *)
OnFaultGoOn(s) ==
  CASE pc[s] \in {"start", "fail", "cache"} -> "failed"
    [] pc[s] = "toolCompleted" -> "toolFailed"
    [] pc[s] = "transient" -> "attempt"
    [] OTHER -> "fail"
OnFault(s) ==
  CASE pc[s] \in {"start", "fail", "cache"} -> "failed"
    [] pc[s] = "toolCompleted" -> "toolFailed"
    [] pc[s] \in {"query", "toolFailed", "context", "startReview", "complete", "failReview"}
         -> "fail"
    [] OTHER -> Failing(s)
WriteFails(s) ==
  /\ Writing(s) /\ UNCHANGED db /\ Goto(s, OnFault(s))
  /\ faults < MaxFaults /\ faults' = faults + 1
  /\ UNCHANGED <<work, abort, history>>
AnswerLost(s) ==
  /\ Store(s) /\ Goto(s, OnFault(s))
  /\ faults < MaxFaults /\ faults' = faults + 1
  /\ UNCHANGED <<work, abort, history>>

Run(s) ==
  \/ EnforceBudget(s) \/ StartRun(s) \/ ToolStarted(s) \/ ToolAnswers(s) \/ ToolBreaks(s)
  \/ ToolCompleted(s) \/ ToolFailed(s) \/ NoMoreQueries(s) \/ ContextReady(s)
  \/ AttemptStarted(s) \/ Send(s) \/ ProviderAnswers(s) \/ AttemptFailed(s)
  \/ AttemptSucceeded(s) \/ Validate(s) \/ StartReview(s) \/ ReviewContext(s)
  \/ KeepReview(s) \/ Complete(s) \/ FailRun(s) \/ StorePrepared(s)

(* Temporal cancels the activity, and the worker learns it by a heartbeat;  *)
(* or the provider's deadline passes.                                       *)
Cancel(s) ==
  /\ pc[s] \notin Stopped /\ ~cancelled[s] /\ cancelled' = [cancelled EXCEPT ![s] = TRUE]
  /\ UNCHANGED <<db, pc, work, overdue, faults, history>>
Expire(s) ==
  /\ pc[s] \in Outcomes \cup {"attempt", "send", "request"} /\ ~overdue[s]
  /\ overdue' = [overdue EXCEPT ![s] = TRUE]
  /\ UNCHANGED <<db, pc, work, cancelled, faults, history>>

(* The worker stops with all that is under way in it. *)
Crash ==
  /\ faults < MaxFaults /\ faults' = faults + 1
  /\ \E s \in Steps : pc[s] \notin Stopped
  /\ pc' = [s \in Steps |-> IF pc[s] \in Stopped THEN pc[s] ELSE "crashed"]
  /\ UNCHANGED <<db, work, abort, history>>

(* A user raises the budget, and the workflow's step tries once more. *)
GrantBudget ==
  /\ limit < Limit + MaxGrants /\ limit' = limit + 1
  /\ pc' = [s \in Steps |-> IF pc[s] = "refused" THEN "check" ELSE pc[s]]
  /\ UNCHANGED <<runs, searched, evidence, cache, work, abort, faults, history>>

Next ==
  \/ \E s \in Steps : Run(s) \/ WriteFails(s) \/ AnswerLost(s) \/ Cancel(s) \/ Expire(s)
  \/ Crash \/ GrantBudget

Spec == Init /\ [][Next]_vars
(* The worker goes on, and connectors and the provider answer or time out. *)
FairSpec == Spec /\ \A s \in Steps : WF_vars(Run(s))

-----------------------------------------------------------------------------
RunRow == [status : {"absent", "running", "succeeded", "failed"}, context : SUBSET Evidence,
           audit : Seq({"started"} \cup Outcomes)]

(* Every variable keeps its kind. *)
TypeOK ==
  /\ runs \in [Steps -> [Kinds -> RunRow]]
  /\ searched \in Nat /\ evidence \subseteq Evidence /\ limit \in Nat
  /\ cache \in [Steps -> Outputs \cup {NoOutput}]
  /\ pc \in [Steps -> PC] /\ phase \in [Steps -> Kinds]
  /\ queries \in [Steps -> 0 .. MaxQueries] /\ attempt \in [Steps -> 0 .. MaxAttempts]
  /\ result \in [Steps -> SUBSET Evidence] /\ collected \in [Steps -> SUBSET Evidence]
  /\ output \in [Steps -> Outputs \cup {NoOutput}] /\ supports \in [Steps -> BOOLEAN]
  /\ cancelled \in [Steps -> BOOLEAN] /\ overdue \in [Steps -> BOOLEAN]
  /\ faults \in 0 .. MaxFaults
  /\ sent \in [Steps -> [Kinds -> Nat]] /\ late \in [Steps -> BOOLEAN]

(* The audit of a run accounts for every request to the provider: each is   *)
(* announced before it leaves and the outcome of the last is known before   *)
(* the next, there are at most three, and only transient failures are       *)
(* followed by another, whichever writes fail and whenever the signal comes.*)
RequestsAreAudited ==
  \A s \in Steps, k \in Kinds :
    LET audit == runs[s][k].audit
        started == {n \in DOMAIN audit : audit[n] = "started"} IN
      /\ sent[s][k] <= Cardinality(started) /\ Cardinality(started) <= MaxAttempts
      /\ \A n \in DOMAIN audit :
           /\ audit[n] = "started" <=> n % 2 = 1
           /\ n < Len(audit) /\ n % 2 = 0 => audit[n] = "transient"

(* An output that reaches the business state cites only stored evidence     *)
(* that its run lists, its run has succeeded, and a paraphrase has been     *)
(* confirmed by a review that has succeeded too.                            *)
CachedIsSupported ==
  \A s \in Steps : LET o == cache[s] IN
    /\ o # NoOutput => runs[s]["task"].status = "succeeded"
    /\ o.by \in {"quote", "paraphrase"} =>
         o.cites # {} /\ o.cites \subseteq evidence \cap runs[s]["task"].context
    /\ o.by = "paraphrase" => runs[s]["review"].status = "succeeded" /\ supports[s]
    /\ o.by # "contact"

(* "Late output cannot advance business state": an answer that came after   *)
(* the cancellation or the deadline is kept in the audit and nowhere else.  *)
LateOutputIsDropped == \A s \in Steps : late[s] => cache[s] = NoOutput

(* A failure stands, whichever answers are lost: no later write of the run  *)
(* or of its review turns it into a success or changes what it had recorded.*)
(* A success can still become a failure, when the answer of complete() is   *)
(* lost, but loses nothing of its record; and no task succeeds over a review*)
(* that failed or is under way.                                             *)
FailuresStand ==
  [][\A s \in Steps :
       /\ \A k \in Kinds :
            /\ runs[s][k].status = "failed" => runs'[s][k] = runs[s][k]
            /\ runs[s][k].status = "succeeded"
                 => runs'[s][k] \in {runs[s][k], [runs[s][k] EXCEPT !.status = "failed"]}
       /\ runs'[s]["task"].status = "succeeded"
            => runs'[s]["review"].status \in {"absent", "succeeded"}]_vars

(* A run that is under way ends in its row, whichever write fails or signal *)
(* comes, unless the worker stops, the very record of a failure fails, or   *)
(* the answer to its start is lost, whereupon nobody knows its id.          *)
RunsSettle ==
  \A s \in Steps, k \in Kinds :
    runs[s][k].status = "running"
      ~> \/ runs[s][k].status # "running" \/ pc[s] = "crashed"
         \/ pc[s] = "failed" /\ faults > 0

(* What a reader of the rows expects: a run that has succeeded stays so.    *)
SuccessStands ==
  [][\A s \in Steps, k \in Kinds : runs[s][k].status = "succeeded"
                                   => runs'[s][k].status = "succeeded"]_vars

(* The PRD, section 22.4, has the search quota checked before every         *)
(* external call: none is made once the quota is used up.                   *)
SearchQuotaHolds == [][searched' > searched => searched < limit]_vars
=============================================================================
