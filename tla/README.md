# Market entry agent: TLA+ models and proofs

This directory holds TLA+ models of the market entry agent, TLC runs that check
them on small instances, and TLAPS proofs of their main properties for every
value of the constants. Source paths below are relative to the repository
root (`src/`). `PROJECT.json` maps every definition to its lines.

## 1. The system

A *mission* is a long research job for one company. The API starts a Temporal
workflow for it; the workflow calls *activities* on workers; activities run
agents and write facts, artifacts, domain events and outbox rows to PostgreSQL;
a projector turns the outbox into read models that the web client fetches.

| Part | State it keeps | Operations | Interacts by |
|---|---|---|---|
| Activity execution: `apps/worker/src/activities.ts`, `execution-interceptor.ts`, `main.ts` | `idempotency_records`, mission row, `workflow_instances.run_id`, abort signal | `prepared`, `idempotent`, `idempotentMutation`, `assertExecutionOwner`, `registerMissionRecovery`, `reconcileClosedMission`, `enforceBudget` | row lock on the mission, advisory locks, Temporal describe, 15 s timer |
| Temporal gateway: `packages/workflows/src/client.ts` | none (the Temporal server's runs) | start, describe, list closed, reset, signal, query, schedule | gRPC |
| Domain events and outbox: `packages/database/src/events.ts` | `domain_events`, `outbox_events` | append (version per aggregate), enqueue | the caller's transaction |
| Outbox projector: `apps/projector`, `claim_outbox_batch` | leases, attempts, read models, checkpoint | claim, project, publish, notify, record failure | SQL, `pg_notify` |
| Mission workflow: `mission-workflow.ts` | workflow state, signal queues | stages, review waits, budget wait, pause, refresh, Continue As New, completion | signals, activities, child workflows |
| Opportunity workflow: `opportunity-workflow.ts` | workflow state, decision and interaction queues | qualification, card revision loop, interactions, research | signals, milestone reports |
| Refresh workflow: `refresh-workflow.ts` | none | monitored sources, proposals | retried activities |
| Mission command API: `market.service.ts` | mission, claim, route and approval rows | create, start, pause, resume, update, complete, reviews, refreshes | transactions, signals |
| Action cards, opportunities, contacts (API): `market.service.ts` | their rows and versions | decide, revise, execute, export, interact | transactions, signals |
| Domain rules: `packages/domain`, `packages/policies` | none | transitions, gates, scoring, budget state | pure calls |
| HTTP idempotency: `idempotency.interceptor.ts` | records | intercept, replay | the request's transaction |
| Event stream and page: `event-stream.service.ts`, `sse-bridge.tsx` | recent event buffer, last event id | listen, stream, replay, refetch | `pg_notify`, server-sent events |
| Agent runtime: `packages/agents`, `run-store.ts` | `agent_runs`, `tool_runs`, evidence, the abort signal | budget check, connectors, provider attempts, validation, content review | transactions of their own, HTTP, heartbeats |
| Authentication, connectors, evidence parsing, schema, web pages, configuration, scripts | | | not modelled |

What is hard in it: an attempt at an activity that the server has given up on
keeps running; two attempts at one step overlap; the workflow is restarted, reset
or continued as new under running attempts; the database and Temporal are
described and written at different moments; a projector's lease runs out while it
works; transactions read with one snapshot per statement; notifications are sent
after commits and can be lost. `PROJECT.json` lists these under "hazards", each
at its line.

What makes each part correct: a business step takes effect once and every attempt
is told the same result; only the run that owns the mission writes for it; a closed
workflow leaves no running mission, and a terminal mission stays terminal; every
event reaches the read models or is given up on visibly, and the read models never
go back; a workflow leaves no signal unread and no wait it cannot leave; a card is
executed only in the version that was approved.

## 2. Modules

| Module | What it is | Section |
|---|---|---|
| `ActivityExecution` | one mission, the runs of its workflow, attempts at activities | 3 |
| `ExactlyOnce` | abstract: what the idempotency records promise | 3 |
| `OutboxProjector` | outbox rows, projector processes, read models | 4 |
| `ReadModels` | abstract: what outbox and projection promise the readers of a mission | 4 |
| `EventDelivery` | composes the projector with the API's event stream and a page | 4 |
| `MissionWorkflow` | one run of the mission workflow and those that continue it | 5 |
| `MissionReviews` | the rows the reviews are about: agents, users, recording activities | 6 |
| `ActiveMission` | an active mission: pause, resume, complete, refreshes, closing | 7 |
| `ChangeReports` | abstract: what refreshes find and report | 7 |
| `Opportunity` | one opportunity: row, contacts, card versions, interactions, its workflow, users | 8 |
| `CardReview` | abstract: what the review of a card's versions promises | 8 |
| `AgentRuns` | the agent runs of a mission, up to the cached output | 9 |
| `DomainRules` | transition tables, gates, verification status (no state) | 8 |
| `Scoring` | the opportunity score, with its theorems (no state) | 11 |
| `*_proofs` | theorems and proofs about the module they are named after, and the one it extends | 11 |
| `MC*` | constants and symmetry for TLC | 10 |

`EventDelivery` extends `OutboxProjector` and adds a reader of its notifications to
every action; `Opportunity` extends `DomainRules`. The mission is cut by question:
`ActivityExecution` is about attempts, owners and retries, and takes the work of a step
as one effect; `MissionWorkflow` is about the workflow's coroutines, and takes an
activity as one answer; `MissionReviews` and `ActiveMission` are about the rows those
activities and the users write, and take the workflow as one coroutine. The code on
either side of each cut sees only the answer.

## 3. ActivityExecution

**State.** `mission` is the status and stage of the row (`draft`, the terminal
stages, the budget review, and `working` for all others), `owner` is
`workflow_instances.run_id`, `rowLock` says who holds the row across a call to
something else. `latest` and `run` are Temporal's answers about the workflow id.
For each attempt there are its control point, input, prepared result, answer and
error, and whether the server has given up on it (`timedOut`) and its signal has
fired (`aborted`). `record` and `cache` are the two kinds of idempotency record;
`effects` collects what the committed work of each step wrote. `served` only says
which runs can have attempts.

**Actions.** `StartWorkflow`/`StartCommit`/`StartRollback` are `startMission`: the
workflow is started inside the transaction that locks the row. `RunCompletes`,
`RunFails`, `RunContinuesAsNew` and `ResetRun` are Temporal and `recoverMission`.
`RegisterDescribe`/`RegisterCommit` are `registerMissionRecovery`, whose describe
precedes its transaction. `ReconcileDescribe`/`ReconcileCommit` are
`reconcileClosedMission`, whose describe is inside. An attempt of a prepared
activity goes through `CheckOwner`, `LookupCompleted`, `LookupPrepared`, `Prepare`
(or `PrepareOverBudget`), `StorePrepared`, `ReadPrepared` and then, like the other
kinds, `BeginCommit` and `FinishCommit` or `RollBack`. A transaction that calls
out while it holds the row is two actions; a shorter one is one action that waits
for the row. The advisory lock on the key is subsumed by the row lock, which is
taken first and held to the commit.

**Abstraction.** Work is one value per step, named after the attempt that computed
it. `KeyInfo` gives each business step its wrapper, the workflow level that
schedules it, how many different payloads its workflow can send under that key, and
whether it completes the mission. `archived` missions, which no code path of the
mission's life reaches, are left out. A worker crash is an attempt that takes no further step,
or `RollBack` if it held a transaction.

## 4. OutboxProjector

**State.** An event stands for the change of the mission's rows that its
transaction made, so any read of those rows is a set of events: `dashboard` and
`progress` are the sets the two rows show. `status`, `attempts`, `leased` and `due`
are the columns of an outbox row (`attempts` stops counting at `MaxAttempts`, the
only value it is compared with). Each projector has its batch, the row at hand and
what its two SELECTs returned.

**Actions.** `Append` is a command's transaction. `Claim` is `claim_outbox_batch`:
the oldest rows that are pending or whose lease has run out. `Open` begins the
transaction of the next row and inserts the timeline row; `ReadDashboard` and
`WriteDashboard` are one INSERT ... SELECT ... ON CONFLICT statement, split where it
waits for the row; `ReadProgress` is the later SELECT; `Commit` makes it all
visible with the published status; `Notify` follows. `LoseAnswer` is a notification that
goes out while its answer does not come back, so that the event is recorded as failed and
announced again later. `Fail` and `RecordFailure` are the catch clause, before or after the
commit; `Crash` ends a process, also in the middle of a batch. `ExpireLease` and `BecomeDue`
are time.

**Refinement.** `ReadModels` has three variables: what is recorded, what each read model
shows, what was told. `Shared` maps it to the timeline and the progress row, for any number
of projectors, `Single` to the dashboard as well, for one: with two projectors the dashboard
can go back, so that no mapping of it exists.

**Abstraction.** One mission, plus `Silent` events that name none: the runs have none of
those, the theorems cover any set of them. Read model columns are not told apart; `read_model_version` and `last_event_id`, which are
those of the event projected last, are left out, and `agent_runs` is read like the
other rows. A process that crashed is gone before its successor starts; the run with two projectors
covers the overlap.

**EventDelivery.** An API process listens to `mission_events`: whenever the projector
announces an event, `Record` puts it into the mission's buffer (the last `Buffer`, 100 in
the code) and onto the open stream. `Connect` is `stream()`: all that follows the
`Last-Event-ID`, or a request to start over when the id is not in the buffer. `Receive`
and `Fetch` are `SseBridge` and the page's queries. Streams break, the process restarts
with an empty buffer, a notification finds nobody listening. One process and one page; a
page's queries are one snapshot; heartbeats are left out. Three history variables serve the
properties: what the page is `owed`, which events were recorded `again`, and what the page
may have `missed` by coming back with the id of one of those: the replay follows the first
copy of that id in the buffer, and when that has left the buffer, the second.

## 5. MissionWorkflow

**State.** `pc` is what the main coroutine awaits and `step` what each step (one call of
`executeMissionStep`, a coroutine of its own) is doing: held by the pause, running its
activity, blocked on a budget, applying one. `state` is the object that queries return
and Continue As New hands on; `local` are the variables that it does not hand on, with
the queues of which `state` holds a copy. `hand` and `todo` are what a call is about and
the targets left; `known` is what each opportunity has reported, `gone` the opportunities
whose workflow has ended. `recorded` is the payload under the idempotency key of
`updateMissionBudget`. `sent` and `taken` count requests for the properties, `count`
bounds the model.

**Actions.** A workflow runs from one await to the next without interruption, so an
action is a signal handler, or one answer or one condition that has come true with
everything up to the next awaits. The active loop is written so: `WakeIdle`,
`WakeResume`, `ResumeRowDone`, `UpdateDone`, `TellDone`, `RefreshDone` and the end of a
requested research step each continue the turn at the place where the code does
(`FromBudget`, `FromQueues`, `FromResearches`, `EndOfTurn`), with Continue As New as one
outcome. `StepOverBudget` is the budget error of a step, which saves the stage it finds;
`WakeBlocked` is the one signal that satisfies the condition of every blocked step: the
first takes the budget, the others restore and try again. `ActivityFailure`s that no step
catches end the workflow (`StepFails`, `CallFails`, `BudgetFails`).

**Abstraction.** What a step computes is left out; the routes and targets that a review
selects are constants. A request is one member of `Refreshes` or `Researches` and is sent
once. Left out of the state: candidate identifiers, `completedSteps`, the active flag of a
budget review, which follow `stage` and `step`. `loadMission` charges nothing and cannot
be over budget. A review arrives while the mission's row is in the stage of that review,
which is where the API accepts it. A milestone that arrives before the parent has recorded
the child is not modelled. A condition that already holds is left by a step of its own,
which adds an interleaving and removes none.

## 6. MissionReviews

**State.** The mission's `stage`, its claims of high impact, routes, targets (an
organization's best assessment that passed the gate, by its route), opportunities, and
how many approvals of each type are `open`; the workflow's place (`pc`), the reviews it
has been told of (`reviewed`), the one it hands to the recording activity (`recording`), a
request for research (`asked`) and whether a step is
blocked on the budget; each user's submission or budget update under way.

**Actions.** The activities from `compileMission` to `createOpportunity` in the order of
`mission-workflow.ts`, each one transaction: agents may add any claims, routes and
targets the schema allows, `MarkAwaiting` opens the approval, `TakeResearch` and
`TakeReview` are the loop of a review, `Record...Review` judges the gate once more and
closes the approvals. `JudgeCapabilityReview` and `RecordCapabilityReview` are one activity:
it reads the claims without a lock on them and commits later, while `UpdateCapability` locks
nothing but its claim, so the claims may change in between (`UpdateMission`, which writes
the mission's row, waits). What the other two gates look at is written by no one else, so
they are one step each. `CheckReview`/`SubmitReview` are the API's three `complete...Review`
(the rows are read, then the signal is sent), `ReadStage`/`UpdateMission`/`GrantBudget`
are `updateMission`, `UpdateCapability` and `UpdateRoute` are the direct edits. A refused
gate is a failed activity, which has one attempt and ends the workflow.

**Abstraction.** Evidence of a claim is one bit (`sourced`), what a route must have to be
approved is one bit (`fit`), which the fields a user can edit do not touch. Left out: superseded claims and those of lower impact,
targets beyond the tenth, the versions of the routes' artifact.

## 7. ActiveMission

**State.** The row's status; the workflow's place, flags and queue of refresh requests;
the command each user has in flight; stored snapshots of the sources; the refresh
workflows with their remaining sources, what they found and the attempts used; open
transactions, idempotency records and the versions of the refresh proposal.

**Actions.** `ReadMission`, `Send`, `WriteMission` are `pauseMission` and
`resumeMission`: read, signal, write by id. `CompleteMission` and `RequestRefresh` signal.
`Wake`, `WakeHeld`, `RefreshReturns` and `UpdateMissionState` are the active loop with
the requests first, as the code has it. `Begin`, `Commit`, `AttemptFails` and `Repeat`
are an attempt at an activity of a refresh: it holds the mission's row from its reads
to its commit, may fail, may commit and lose its answer, and a later attempt answers from
the record. `StartWeek` is the schedule, which outlives the mission; `Reconcile` is the
timer.

**Refinement.** `ChangeReports` has two variables, what was found and what was reported, and
two actions: a refresh finds a new content of a source, or reports on all it has found, once
and last. They are mapped to the snapshots and the versions, so a step of the abstract
module is a commit and every other step, lost answers, second attempts and failures among
them, is a stutter.

**Abstraction.** Accepting and deferring proposals is left out, and so are competitors
(a refresh changes nothing) and contacts (`SetContact` of `Opportunity`). Completion reads
the row and signals in one step, since it writes nothing. What a page says is a member of
`Contents`.

## 8. Opportunity, CardReview and DomainRules

**State.** The row's status, the contact points' statuses, the versions of the card with
their approvals, the interactions; of the workflow: the activity or condition it is at
(`pc`) and what holds it there (`waiting`), the current version, the queues of decisions,
interactions and research requests; each user's command under way.

**Actions.** Each activity of `opportunity-workflow.ts` is one transaction; what the
workflow does with the answer of `buildActionCard` is a step of its own, because a signal
can come in between. `OverBudget` and `WakeBudget` are the budget wait of `run()`,
`ContinueAsNew` keeps what the code serialises. The API's commands are one step per
transaction and per signal: `AcceptDecision`/`SendDecision`, `ReadCard`/`InsertVersion`/
`AnnounceVersion`/`CommitVersion`, `ReadExecutable`/`ExecuteCard`, `ReadExportable`/
`ExportCard`, `CheckMove`/`WriteMove`, `StoreInteraction`/`TellInteraction`/
`CommitInteraction`, `SetContact`. A request with an Idempotency-Key (`keyed`) runs in one
transaction, so its signal leaves before its commit, and `Drop` can roll it back after the
signal. `Drop` also stands for a crashed API process and a signal refused by a closed
workflow.

`CardReview` states what users may rely on: versions are only added; each is approved or
sent back at most once, on a decision submitted for that very version; only approved ones
ship. `ImplementsCardReview` is the refinement. `DomainRules` has the three transition
tables, the statuses at which the card gates admit an opportunity, and
`deriveContactVerificationStatus`.

**Abstraction.** What else the gates ask of an agent's output, and what an interpretation
proposes, are free choices. `updateContact` reads the contact's status and writes it in one
step. Left out: priorities, scores, unknowns, the text of feedback,
creating opportunities by hand, replays of stored responses.

## 9. AgentRuns

**State.** The run rows of a task and of its content review with context and audit, the
stored evidence, the search calls used and allowed, the cached output; of the worker: the
place in `execute()`, what connectors have returned, the attempt, the two abort signals.

**Actions.** `EnforceBudget`, `StartRun`, the loop over connector calls, `ContextReady`,
the provider's attempts (`AttemptStarted`, `Send`, `ProviderAnswers`, `AttemptFailed`,
`AttemptSucceeded`), `Validate`, the review as a second run, `Complete`, `FailRun`,
`StorePrepared`. `Row` says what each write leaves, `Store` commits it. Every one of these
writes can fail (`WriteFails`), or commit and lose its answer (`AnswerLost`), with the catch
clause that either leads to in `OnFault`; cancellation and the deadline come at any moment; the worker can
stop. An output is what it cites and whether it quotes, paraphrases, names a contact or
concludes nothing, which is what the validator tells apart.

**Abstraction.** Prompts, skills and words. The legacy context without a repository is left
out.

## 10. Runs

All runs say `CHECK_DEADLOCK FALSE`: when every attempt is done and every run closed, every
event settled, or the workflow has ended, the system rests.

| Run | Bounds | Shows |
|---|---|---|
| `ActivityKinds` | two attempts, five kinds of step, two runs | `SameAnswer`, `OnlyOwnerCommits`, `LateActivityNeverRevives`, `ReconcileSparesNewerRun`, refinement of `ExactlyOnce` |
| `ActivitySettles` | three attempts at one prepared step, two runs; fairness | `CommittedWasPrepared`, `ExactlyOneEffect`, `ClosedMissionSettles` |
| `TwoProjectors` | two events of the mission, two projectors, batches of two, two attempts, one crash or lost answer | `PublishedIsShown`, refinement of `ReadModels` (timeline, progress row) |
| `OneProjector` | two events (one watched), batches of two, two attempts, one crash or lost answer, one broken connection, a buffer of one; fairness | `DashboardIsCurrent`, `EventsSettle`, `QuietPageIsCurrent`, `PageCatchesUp`, refinement of `ReadModels` with the dashboard |
| `MissionSignals` | one opportunity, route, refresh, research request and budget; one pause, one budget update, two steps over budget, one Continue As New; fairness | `TypeOK`, `RequestsTakenOnce`, `ActiveLoopIsActive`, `PauseHolds`, `ServesWhatItHas` |
| `MissionReviews` | two users, four commands, two claims, one route, one target, one exhausted budget; fairness | `ApprovalsFollowReviews`, `AcceptedReviewsStand`, `SubmittedReviewSettles` |
| `ActiveMission` | one user, a requested and a weekly refresh, one source with two contents, two attempts, two faults; fairness | `ReadsHold`, `ProposalListsChanges`, `ClosedMissionEndsTerminal`, `RefreshAnswered`, refinement of `ChangeReports` |
| `CardVersions` | two users, four keyed commands, three versions, one contact | `ApprovalsAgree`, `DecisionIsOpen`, `CardsFollowTable`, refinement of `CardReview` |
| `FollowUp` | one user, four commands with and without a key, two interactions, two versions, one research request; fairness | `HeardOnce`, `DecisionTakesEffect`, `InteractionIsHeard` |
| `OneAgent` | one step with its review, two pieces of evidence, two connector calls, three attempts, two faults (failed or unanswered writes, stops); fairness | `RequestsAreAudited`, `CachedIsSupported`, `LateOutputIsDropped`, `FailuresStand`, `RunsSettle` |

Two runs are enough for an owner to be superseded, two attempts for a race at one step,
and three for a late one to meet two that raced; two payloads for a conflict. Two events
and a batch of two make a late, repeated or reordered projection; a buffer of one
overflows. Three parallel steps (the market research) and two budget errors make a blocked
step overtake another. Two users with four commands between them make every pair of an
edit, a decision, an execution and a submission cross, with one command left to change
what the first has read. Two refreshes make a version number and a snapshot contested; two
faults make an activity fail for good or lose an answer and fail. Constants that bound the
models: `MaxRuns`, `MaxCrashes`, `MaxAttempts`, `BatchSize`, `Buffer`, `MaxBreaks`,
`MaxPauses`, `MaxUpdates`, `MaxOver`, `MaxContinues`, `MaxCommands`, `MaxVersions`,
`MaxResearch`, `MaxQueries`, `MaxGrants`, `MaxFaults` and the sets themselves. Symmetry is
used for attempts, projectors and users, in safety runs only.

`CardVersions` has keyed requests only: an edit without a key or one rolled back after its
signal makes a version current that is not there, which is one of the behaviours listed
below. Every module has a `TypeOK`; a run lists it where it says more than the kinds of
the variables.

**Fairness.** `ActivityExecution!FairSpec` assumes that the reconciliation timer keeps
firing (`main.ts`, every 15 s, errors caught and retried) and that transactions that hold
the row end (the client finishes or its connection drops). It assumes nothing about
starts, attempts or Temporal. `EventDelivery!FairDelivery` assumes that a projector keeps
taking its steps, being restarted when it ends, that leases run out and backoffs pass,
and that an open page runs its handlers and reconnects, which `EventSource` does.
The workflow modules assume that workflow tasks are dispatched and that an activity, a
child's start or a signal is answered or times out (each has a timeout in the code);
`ActiveMission` also that a command that has read the row goes on, since its steps are one
request, and that the weekly refresh, once started, is worked off. `AgentRuns!FairSpec`
assumes that connectors and the provider answer or time out (the client sets deadlines).
Nothing is assumed of users and of opportunities' workflows as seen by the mission's.
Failures and crashes are never forced; crashes and faults are finitely many.

**What the code does differently from its documents.** Two runs are expected to find a
violation (details and quotes under "findings"):

| Run | Statement | What happens |
|---|---|---|
| `ContinueAsNew` | histories continue as new | the new run is refused by the owner check |
| `SecondBudget` | a budget update returns to the original stage | a second, different budget meets the first one's idempotency key and ends the workflow |

The other disagreements met while modelling are stated in the modules, each with a
configuration under which TLC finds the violation:

| Configuration, module | Statement and where it is made | What happens |
|---|---|---|
| `BudgetRollback`, `MCActivityExecution` | exhaustion moves the mission to budget review (docs/architecture.md:81) | rolled back with the activity's transaction when it joins the ambient one (activities.ts:291) |
| `ReconcileReset`, `MCActivityExecution` | a stale closed execution never terminates a newer run (activities.ts:114) | a reset takes no lock on the row |
| `LostAnswer`, `MCEventDelivery` | a reconnecting client falls back to a full refetch when necessary (docs/api.md:147) | an event announced twice, its first copy gone from the buffer: only what follows the second is replayed, and no refetch asked for (event-stream.service.ts:46) |
| `EndedOpportunity`, `MCMissionWorkflow` | opportunities that have ended do not hold the mission up (PRD:4127) | a child that ends without a milestone, or has moved on, is waited for (mission-workflow.ts:173) |
| `StoredBeforeTold`, `MCOpportunity` | the transaction commits first, the signal is sent afterwards (docs/逻辑图审计/08-互动与刷新/01-interaction-record/ASCII-IA工程解析.md:131) | with a key the signal precedes the commit (idempotency.interceptor.ts:37) |
| `RevisionAfterResponse`, `MCOpportunity` | an interaction can regenerate another card (docs/workflows.md:37) | the card's gate admits no status after the approval, and the failed activity ends the workflow (opportunity-workflow.ts:151) |
| `BudgetStage`, `MCMissionReviews` | after budgetUpdated the mission is back in the original stage (docs/逻辑图审计/02-企业能力证据/03-capability-research/ASCII-IA工程解析.md:98) | updateMission writes `active` whatever the origin (market.service.ts:130); the review can no longer be submitted |
| `RouteApproval`, `MCMissionReviews` | the route review leaves a pending approval (docs/逻辑图审计/03-市场进入路线/01-route-research/ASCII-IA工程解析.md:101) | the artifact has no current version yet, and none is opened (activities.ts:427) |
| `ReopenedClaim`, `MCMissionReviews` | a completed capability review means that every high-impact claim has been dealt with as the route research begins (docs/testing/README.md:175) | a claim reopened between the gate's read (activities.ts:365) and the commit is recorded undecided; `updateCapability` (market.service.ts:312) takes no lock that would keep it from that |
| `SearchQuota`, `MCAgentRuns` | the search quota is checked before every external call (PRD, section 22.4) | it is checked before the run, without a lock (activities.ts:274) |

The audit documents quoted here (docs/逻辑图审计, dated 2026-09-03) describe an earlier
implementation in places, the cards' among them; the rows above quote what they say of
flows the code still has.

`LostSuccess` (`MCAgentRuns`) shows a behaviour that no document denies: an agent run, or
its review, that has succeeded becomes failed when the answer of `complete()` is lost after
its commit, as `fail()` updates the row by id whatever its status is (run-store.ts:141). This
is why `FailuresStand` lets a success be turned into a failure, and nothing else.

Seen while modelling, with no document that says otherwise and no property: a late attempt
over budget rewrites the stage of a terminal mission; a reset registered after it was
superseded makes the older run the owner; a second recovery of one execution is ignored; a
crash between a projection's commit and its notification, a lost `LISTEN` connection and an
event between the page's rendering and its first stream leave that event unannounced; the
read models' `read_model_version` can go back; a capability review
that the API has accepted is refused, and ends the workflow, when a claim is reopened or
research adds one before it is recorded; a completion or budget signal in the turn
that continues as new is lost; a review can leave the workflow's list before its approval
enters it; a ranking without a passing target or an extraction without a claim of high
impact leaves a review nobody can complete; an archived target can be selected; a pause and
resume leave an opportunity at `target_identified`, from which its approval is refused;
archiving an opportunity never reaches its workflow; automatic verification overwrites a
manual confirmation; `updateOpportunity` and an unkeyed `executeActionCard` write what they
checked in an earlier transaction; an opportunity a user created makes the mission fail at
starting the same child; crossing pause and resume can leave the row and the workflow apart
until it closes; a change stored by a refresh that fails later is in no proposal, nor is a
page that has gone back to an old content; the weekly schedule outlives its mission; one
failing manual refresh ends the mission's workflow; the endpoint of an HTTP idempotency
record is a route pattern, so that one key used on two missions replays the first answer.

## 11. Proofs

`tlapm` checks every proof. Assumptions are those named in the modules: the constants'
types, at least one run, attempt and batch slot, that `None` is none of the values, and
that names of requests, sources, routes and interactions are not those of control points
which share a variable with them. No bound of the TLC runs is assumed.

*ActivityExecution.* The properties about effects and answers are not inductive: what
protects them is that whoever is working holds the row, so `IInv` adds that (`LockInv`),
that a record and the effect of its step agree (`RecordInv`), that an attempt at work found
no record, the owner it claims and a live mission (`WorkInv`), and that what it holds is
what the cache holds (`LocalInv`, `CacheInv`). Steps of the environment are handled once
(`WorldInv`), steps of attempts by one lemma each. From `IInv`: `TypeCorrect`,
`EffectsAreUnique`, `AnswersAgree`, `FirstPreparedWins`, `CommitsAreFenced` and
`Refinement`, whose step lemmas map a first commit to `Execute`, an answer from a record to
`Recall`, and all else to a stutter. `ClosedStaysClosed` needs a second invariant
(`OwnerInv`), `NewerRunsAreSpared` a third: only the latest run is open (`OpenInv`), so
that under a reconciliation's lock the run it described stays closed and nothing but a
reset makes another one current (`HeldInv`).

*OutboxProjector.* `IInv` says that a projector which has upserted the dashboard holds its
row (`RowInv`) and that what it has read for the progress row contains everything shown and
its own event (`FreshInv`); the lock is what keeps that true while others commit. From it:
`TypeCorrect`, `PublishedIsProjected`, `ProgressIsMonotone`. `SharedReadModels` needs one
more fact, that what is being announced or was announced is shown (`ToldInv`); then a commit
is a `Show`, an append a `Record`, a notification a `Tell`, whether or not its answer comes
back, and no other step is seen by a reader (`ReaderStep`). With one projector
(`OneProjector`, an assumption of these theorems alone) `AloneInv` adds the same for the
dashboard: `OneConsumerDashboard`, `AnnouncedIsVisible` and `SingleReadModels`.

*EventDelivery* (`EventDelivery_proofs` holds the projector's proofs, too). Its steps are
steps of `OutboxProjector` or change nothing of it, so all of the above holds of it
(`DeliveryProjects`). `QuietPage` rests on an invariant about where an event the page is owed
can be (`DInv`): the page shows it, or it was missed as described above, or the page is
stale and a fetch will show it, or it is on the open stream, or a request to start over is,
or, when the stream is broken, it follows the page's id in the buffer or that id is gone.
What keeps this true is that an event which follows another in the buffer goes on following
it until that one is displaced or announced again (`Follows`, `RecordFollows`), for any
size of the buffer. Only that a fetch shows what was announced needs one projector: with
two the dashboard itself can be out of date.

*MissionWorkflow.* `FlowInv` says that a step is at work only at the node the main
coroutine waits at and that one in a budget review has a stage to restore, `active` in the
active loop (`StepInv`), that those in line are blocked and in line once (`WaitInv`), and
what the stage then is (`LoopInv`). That is why nothing waits when the main coroutine goes
on, and why one signal that wakes all blocked steps cannot set the stage of the loop.
`DataInv` adds that the queues and their copies agree and hold nothing that was not sent
(`QueueInv`), which Continue As New relies on. `GoInv` covers every step that goes on to a
node, `OneStep` every step of one step. From `IInv`: `TypeCorrect`, `RequestsSurvive`,
`LoopKeepsStage`, and `PausedStepsWait`, for any number of routes, targets, requests and
budgets and without the bounds of the runs.

*MissionReviews.* The approvals follow the workflow's place, which `ApprovalsFollowReviews`
says itself; to be inductive it lacks only that research in progress was asked for in one
of the first two reviews and leads back there (`AskedInv`). From it `ApprovalsFollow`.
`AcceptedStand` is about a review on its way from the API's check to the activity that
records it, in a user's hands, in the workflow's or in the activity's (`StandInv`). No step
takes away a proposed route, what the gate looks at in it, or a candidate target
(`GatesKept`): the activities that write routes and targets anew run while there are none
(`NothingYet`), and users change neither. So what one of these two gates has accepted it goes
on accepting. Of the capability review this does not hold: claims change.

*ActiveMission.* An activity of a refresh holds the mission's row from its reads to its
commit, so there is one open transaction and what it is about has no record (`OpenInv`).
A record's answer is what its activity has stored (`RecordInv`), hence a refresh has found
what the sources that answered have stored, retried or not (`FoundInv`), and its proposal
lists that (`VersionInv`); a request waits in line once, before it is served (`QueueInv`).
From these `ReadsStand` and `ProposalsList`;
and, as a transaction has read one page (`OneReading`) and a refresh with a proposal has
records of all its sources (`ReportedIsRecorded`), `ChangesAreReported`: `ChangeReports` is
implemented, commit by commit.

*Opportunity.* Every step leaves the versions alone, adds one in review, records a decision
asked for on one in review, or ships an approved one (`Step`). The API's commands write on
what an earlier transaction read; that is safe because what they rely on, that a version
was approved, is never taken back (`ReadsInv`). From `IInv`: `ApprovalsStayInStep`,
`TableIsFollowed`, and `CardReviewIsImplemented`, which maps the four kinds of step to
`CardReview`'s. An interaction is in one place, a user's command, the queue or the
workflow's hands (`HeardInv`): `InteractionsWaitOnce`. `DecisionsFindReview` assumes that
requests carry keys (`Keyed \subseteq {TRUE}`, an assumption of this theorem alone): an
edit is then announced under a number that no version has yet (`KeyedInv`). The web
client's requests do carry keys; a mixture breaks the property, as TLC shows with
`Keyed = {TRUE, FALSE}` and four commands: a keyed edit that is announced and rolled back
leaves its number to an unkeyed one, a decision on that version is recorded, the late
announcement makes the version current again, and a second decision on it fails the
workflow.

*AgentRuns.* The run rows follow the place of `execute()` (`RowInv`); what is accepted
cites the context, and a paraphrase has been reviewed (`OutputInv`); a late answer leads
to a failure (`LateInv`); an audit is attempts and outcomes in turn (`AuditInv`), and the
attempt under way is the one it announced last or will announce next, whichever write
failed (`TurnInv`). From these `OutputsAreSupported`, `LateIsDropped`,
`RequestsLeaveARecord`, and `FailuresLast`: a run that has failed is written to by nobody,
because every way on from the record of a failure, answered or not, leads away from that run.

*Scoring.* `scoreOpportunity` in integers: the mean of eight bounded dimensions with their
weights, times the multipliers of evidence and contact path. The code computes in doubles
and rounds the product; compared over all sums that can occur, doubles differ from the
exact value only where that is a tie, so a score is any integer within one half of the exact
value (`IsScore`), and the theorems hold however ties fall: `ScoreIsBounded`,
`UnverifiedScoresLower`, `BetterNeverScoresLower`.

Only model-checked: the liveness properties, as fairness and ENABLED are outside the
prover's reach. Every invariant and action property of a passing run is a theorem.

## 12. Not modelled

Prompts, skills, connectors and evidence parsing; table definitions, row-level security and
seed data; authentication and roles; the web client but for its event stream;
configuration, telemetry, deployment and scripts. They keep no state that several actors
share, or their content is what the models leave to free choice. Also left out: workflow
queries and what only they show; `expectedAggregateVersion` of the event writer, which no
caller passes; reads and creation of drafts, entities and targets through the API;
accepting and deferring refresh proposals; replays of stored HTTP responses.

What is left to do: acceptance of refresh proposals.

## 13. Running

    tlc -workers 2 -config ActivityKinds.cfg MCActivityExecution
    tlc -workers 2 -config OneProjector.cfg MCEventDelivery
    tlc -workers 2 -config MissionSignals.cfg MCMissionWorkflow
    tlc -workers 2 -config MissionReviews.cfg MCMissionReviews
    tlc -workers 2 -config ActiveMission.cfg MCActiveMission
    tlc -workers 2 -config CardVersions.cfg MCOpportunity
    tlc -workers 2 -config OneAgent.cfg MCAgentRuns
    tlapm ActivityExecution_proofs.tla
    tlapm EventDelivery_proofs.tla
    tlapm MissionWorkflow_proofs.tla
    tlapm MissionReviews_proofs.tla
    tlapm ActiveMission_proofs.tla
    tlapm Opportunity_proofs.tla
    tlapm AgentRuns_proofs.tla
    tlapm Scoring.tla
