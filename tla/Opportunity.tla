---------------------------- MODULE Opportunity ----------------------------
(***************************************************************************)
(* One opportunity: its row, its contact points, the versions of its       *)
(* action card with their approvals, its interactions, the workflow that   *)
(* drives it and the users whose API commands race with the workflow.      *)
(*                                                                         *)
(* An activity of the workflow is one transaction and one step; what the   *)
(* workflow does with the answer of buildActionCard is a step of its own,  *)
(* because a signal can come in between.  An API command is one step per   *)
(* transaction and per signal, and it keeps what it read.  Every activity  *)
(* has one attempt, so a failure other than an exhausted budget ends the   *)
(* workflow: also that of two transactions which insert the same version   *)
(* and of which PostgreSQL gives up one.                                   *)
(*                                                                         *)
(* A request that carries an Idempotency-Key, as the web client's do, runs *)
(* in one transaction from its first read to its answer: its signals leave *)
(* before its writes are committed, and the writes can still be rolled     *)
(* back.  Without a key each write is committed by itself, before the      *)
(* signal.                                                                 *)
(***************************************************************************)
EXTENDS DomainRules, Sequences, FiniteSets

CONSTANTS Users,         \* users with a command under way at the API
          Contacts,      \* public contact points the finder can discover
          Interactions,  \* interactions users can record
          Commands,      \* the API commands of this instance
          Keyed,         \* whether requests carry an Idempotency-Key
          Proposals,     \* statuses the interpreter can propose
          MaxVersions,   \* bound: versions of the card
          MaxResearch,   \* bound: manual research requests
          MaxCommands    \* bound: commands users issue

ASSUME OpportunityAssumption ==
  /\ Proposals \subseteq OpportunityStatus /\ Keyed \subseteq BOOLEAN
  /\ MaxVersions \in Nat /\ MaxResearch \in Nat /\ MaxCommands \in Nat
  /\ "none" \notin Interactions

VARIABLES row, contacts, cards, interactions,      \* PostgreSQL
          pc, status, current, paused, waiting,    \* the workflow's state
          decisions, queue, researches, granted, held,
          hearing, unverified, answer,
          users, issued,                           \* the API
          asked                                    \* history: decisions accepted

stored == <<row, contacts, cards, interactions>>
signals == <<current, paused, decisions, queue, researches, granted>>
work == <<status, held, hearing, unverified, answer>>
control == <<pc, waiting>>
vars == <<stored, control, work, signals, users, issued, asked>>

Versions == 1 .. MaxVersions
Verdicts == {"approve", "request_changes"}
Decision == [version : Versions, verdict : Verdicts]
Approval == {"pending", "approved", "changes_requested"}
Card == [status : CardStatus, type : CardType, approval : Approval]
None == "none"
NoDecision == [version |-> 0, verdict |-> None]
Idle == [op |-> "idle"]

(* The workflow's points of control: the activity it awaits, or the        *)
(* condition ("review": the card's decision; "follow": an interaction).    *)
Quiet == {"resolve", "qualify", "research", "probe", "interpret"}
Builds == {"build", "rebuild", "revise", "regenerate"}
Activities == Quiet \cup Builds \cup
              {"map", "find", "verify", "evaluate", "record", "apply", "close"}
Ended == {"closed", "failed"}
PC == Activities \cup {"review", "drain", "follow"} \cup Ended

(* Those that call an agent, so that the budget can be exhausted, and those *)
(* that the workflow wraps in run() and holds back while it is paused.      *)
UsesAgent == Builds \cup {"map", "find", "qualify", "research", "probe", "interpret"}
Wrapped == Activities \ {"evaluate", "record", "close"}

(* A request with a key has inserted a version and not committed it: who    *)
(* wants to insert another one waits.                                       *)
Inserting(u) == users[u].op = "commit" \/ (users[u].op = "announce" /\ users[u].keyed)
NoneInserting == \A u \in Users : ~Inserting(u)
Stored(i) == interactions[i] \in {"pending", "interpreted"}

Following == [resolve |-> "map", qualify |-> "build", build |-> "review",
              research |-> "rebuild", rebuild |-> "drain", revise |-> "review",
              probe |-> "follow", interpret |-> "apply", regenerate |-> "follow"]

CanMove(to) == row = to \/ to \in OpportunityNext[row]
Primary == \E c \in Contacts : contacts[c] \in VerifiedStatus
TypeOfCard == IF Primary THEN "outreach" ELSE "research"
Running == pc \notin Ended

Init ==
  /\ row = "target_identified" /\ status = "target_identified"
  /\ contacts = [c \in Contacts |-> "absent"]
  /\ cards = <<>> /\ current = 0
  /\ interactions = [i \in Interactions |-> "absent"]
  /\ pc = "resolve" /\ waiting = "start" /\ paused = FALSE
  /\ decisions = <<>> /\ queue = <<>> /\ researches = 0 /\ granted = FALSE
  /\ held = NoDecision /\ hearing = None /\ unverified = {} /\ answer = 0
  /\ users = [u \in Users |-> Idle] /\ issued = 0
  /\ asked = {}

-----------------------------------------------------------------------------
(* The workflow. *)

(* run(): an activity it wraps starts once the workflow is not paused; a     *)
(* pause that comes later does not stop it.                                 *)
At(p) == pc = p /\ waiting = "no"
Goto(p) == pc' = p /\ waiting' = IF p \in Wrapped THEN "start" ELSE "no"

Start ==
  /\ waiting = "start" /\ ~paused /\ waiting' = "no"
  /\ UNCHANGED <<stored, pc, work, signals, users, issued, asked>>

(* resolveEntity, qualifyOpportunity, runFocusedOpportunityResearch and     *)
(* interpretInteraction change nothing that another activity reads; the     *)
(* last one reads the interaction.                                          *)
QuietDone ==
  /\ \E p \in Quiet : At(p) /\ Goto(Following[p])
  /\ pc = "interpret" => Stored(hearing)
  /\ UNCHANGED <<stored, work, signals, users, issued, asked>>

MapStakeholders ==
  /\ At("map") /\ CanMove("stakeholder_mapped") /\ Goto("find")
  /\ row' = "stakeholder_mapped" /\ status' = "stakeholder_mapped"
  /\ UNCHANGED <<contacts, cards, interactions, held, hearing, unverified, answer, signals,
                 users, issued, asked>>

FindContactPaths ==
  /\ At("find")
  /\ \E found \in SUBSET Contacts :
       LET to == IF found = {} THEN row ELSE "contact_path_found" IN
         /\ CanMove(to) /\ row' = to
         /\ contacts' = [c \in Contacts |-> IF c \in found THEN "discovered" ELSE contacts[c]]
         /\ status' = IF found = {} THEN "stakeholder_mapped" ELSE to
         /\ unverified' = found
         /\ Goto(IF found = {} THEN "evaluate" ELSE "verify")
  /\ UNCHANGED <<cards, interactions, held, hearing, answer, signals, users, issued, asked>>

(* verifyContactPoint writes what the connector's facts derive, over        *)
(* whatever status the contact has by then; the contacts are verified in    *)
(* parallel and the last one leads on.  It reads the row's status without a *)
(* lock and moves the row under one, so that it may undo a pause which the  *)
(* row got in between.                                                      *)
VerifiedRow(verdict) ==
  CASE verdict \in VerifiedStatus /\ row = "contact_path_found" -> {"contact_path_verified"}
    [] verdict \in VerifiedStatus /\ row = "paused" -> {row, "contact_path_verified"}
    [] OTHER -> {row}
VerifyContactPoint(c) ==
  /\ At("verify") /\ c \in unverified /\ unverified' = unverified \ {c}
  /\ \E f \in Facts :
       /\ ~f.manual
       /\ contacts' = [contacts EXCEPT ![c] = DerivedStatus(f)]
       /\ row' \in VerifiedRow(DerivedStatus(f))
  /\ IF unverified = {c} THEN Goto("evaluate") ELSE UNCHANGED control
  /\ UNCHANGED <<cards, interactions, status, held, hearing, answer, signals, users, issued, asked>>

EvaluateContactPath ==
  /\ At("evaluate") /\ Goto("qualify")
  /\ status' = IF Primary THEN "contact_path_verified" ELSE status
  /\ UNCHANGED <<stored, held, hearing, unverified, answer, signals, users, issued, asked>>

(* buildActionCard: under the lock of the row, the card is an outreach if a *)
(* contact is verified, the gate of its type must admit the row's status,   *)
(* and the version follows the last one.                                    *)
BuildActionCard ==
  /\ \E p \in Builds : At(p)
  /\ answer = 0 /\ NoneInserting /\ Len(cards) < MaxVersions
  /\ row \in CardGate[TypeOfCard] /\ CanMove("action_ready")
  /\ cards' = Append(cards, [status |-> "review", type |-> TypeOfCard, approval |-> "pending"])
  /\ row' = "action_ready" /\ answer' = Len(cards) + 1
  /\ UNCHANGED <<contacts, interactions, control, status, held, hearing, unverified, signals,
                 users, issued, asked>>

(* The workflow takes the new version for the current one. *)
BuildAnswered ==
  /\ answer # 0 /\ current' = answer /\ answer' = 0
  /\ status' = IF pc = "build" THEN "action_ready" ELSE status
  /\ Goto(Following[pc])
  /\ UNCHANGED <<stored, held, hearing, unverified, paused, decisions, queue, researches, granted,
                 users, issued, asked>>

(* The review loop wakes on a decision or a research request. *)
ReviewWakesOnResearch == researches > 0
ReviewWakes == decisions # <<>> \/ researches > 0
WakeReview ==
  /\ pc = "review" /\ ~paused /\ ReviewWakes
  /\ Goto("drain")
  /\ UNCHANGED <<stored, work, signals, users, issued, asked>>

(* Requests for research come first; then one decision, which counts only   *)
(* for the current version; an opportunity has one card, so that the number *)
(* tells it.                                                                *)
CountsAlways(d) == TRUE
Counts(d) == d.version = current
DrainResearch ==
  /\ pc = "drain" /\ researches > 0 /\ researches' = researches - 1
  /\ Goto("research")
  /\ UNCHANGED <<stored, work, current, paused, decisions, queue, granted,
                 users, issued, asked>>
DrainDecision ==
  /\ pc = "drain" /\ researches = 0
  /\ LET taken == decisions # <<>> /\ Counts(Head(decisions)) IN
       /\ held' = IF taken THEN Head(decisions) ELSE held
       /\ Goto(IF taken THEN "record" ELSE "review")
  /\ decisions' = IF decisions = <<>> THEN <<>> ELSE Tail(decisions)
  /\ UNCHANGED <<stored, status, hearing, unverified, answer, current, paused, queue,
                 researches, granted, users, issued, asked>>

(* recordActionCardDecision: the card must be in review, and an approval    *)
(* moves the opportunity in the same transaction.                           *)
RecordedOnCardOnly(card, verdict) == [card EXCEPT !.status = verdict]
Recorded(card, verdict) == [card EXCEPT !.status = verdict, !.approval = verdict]
RecordDecision ==
  /\ At("record") /\ cards[held.version].status = "review"
  /\ LET approves == held.verdict = "approve"
         verdict == IF approves THEN "approved" ELSE "changes_requested"
         to == IF approves THEN "approved" ELSE row IN
       /\ CanMove(to) /\ row' = to
       /\ cards' = [cards EXCEPT ![held.version] = Recorded(@, verdict)]
       /\ status' = IF approves THEN "approved" ELSE status
       /\ Goto(IF approves THEN "follow" ELSE "revise")
  /\ held' = NoDecision
  /\ UNCHANGED <<contacts, interactions, hearing, unverified, answer, signals, users, issued, asked>>

(* The interaction loop: research first, then one interaction. *)
EndStatus == {"won", "lost", "archived"}
WakeProbe ==
  /\ pc = "follow" /\ status \notin EndStatus /\ ~paused
  /\ researches > 0 /\ researches' = researches - 1 /\ Goto("probe")
  /\ UNCHANGED <<stored, work, current, paused, decisions, queue, granted,
                 users, issued, asked>>
WakeInteractionKept ==
  /\ pc = "follow" /\ status \notin EndStatus /\ ~paused /\ researches = 0 /\ queue # <<>>
  /\ hearing' = Head(queue) /\ Goto("interpret")
  /\ UNCHANGED <<stored, status, held, unverified, answer, signals, users, issued, asked>>
WakeInteraction ==
  /\ pc = "follow" /\ status \notin EndStatus /\ ~paused
  /\ researches = 0 /\ queue # <<>>
  /\ hearing' = Head(queue) /\ queue' = Tail(queue) /\ Goto("interpret")
  /\ UNCHANGED <<stored, status, held, unverified, answer, current, paused, decisions,
                 researches, granted, users, issued, asked>>

(* applyInteractionInterpretation, with any proposal of the interpreter:    *)
(* the contacts take any status it names, the row a legal move or none.     *)
ApplyInterpretation ==
  /\ At("apply")
  /\ \E to \in Proposals \cup {row} : CanMove(to) /\ row' = to /\ status' = to
  /\ \E new \in [Contacts -> ContactStatus] :
       contacts' = [c \in Contacts |-> IF contacts[c] = "absent" THEN "absent" ELSE new[c]]
  /\ interactions' = [interactions EXCEPT ![hearing] = "interpreted"]
  /\ \E again \in BOOLEAN : Goto(IF again THEN "regenerate" ELSE "follow")
  /\ hearing' = None
  /\ UNCHANGED <<cards, held, unverified, answer, signals, users, issued, asked>>

(* The queues of interactions and research survive a Continue As New; the   *)
(* decisions and a budget that arrived early do not.                        *)
ContinueAsNewEmpty ==
  /\ pc = "follow" /\ status \notin EndStatus
  /\ Goto(IF status = "action_ready" THEN "review" ELSE "follow")
  /\ decisions' = <<>> /\ granted' = FALSE /\ queue' = <<>>
  /\ UNCHANGED <<stored, work, current, paused, researches, users, issued, asked>>
ContinueAsNew ==
  /\ pc = "follow" /\ status \notin EndStatus
  /\ Goto(IF status = "action_ready" THEN "review" ELSE "follow")
  /\ decisions' = <<>> /\ granted' = FALSE
  /\ UNCHANGED <<stored, work, current, paused, queue, researches, users, issued, asked>>

LeaveFollow ==
  /\ pc = "follow" /\ status \in EndStatus /\ Goto("close")
  /\ UNCHANGED <<stored, work, signals, users, issued, asked>>

CloseOpportunity ==
  /\ At("close") /\ Goto("closed")
  /\ UNCHANGED <<stored, work, signals, users, issued, asked>>

(* An exhausted budget: run() waits for the mission's signal, and one that  *)
(* came before lets the wait pass at once.                                  *)
OverBudget ==
  /\ \E p \in UsesAgent : At(p)
  /\ answer = 0 /\ waiting' = "budget"
  /\ UNCHANGED <<stored, pc, work, signals, users, issued, asked>>

WakeBudget ==
  /\ waiting = "budget" /\ granted /\ waiting' = "start" /\ granted' = FALSE
  /\ UNCHANGED <<stored, pc, work, current, paused, decisions, queue, researches,
                 users, issued, asked>>

(* opportunityBudgetUpdated, from the mission's workflow. *)
GrantBudget ==
  /\ Running /\ ~granted /\ granted' = TRUE
  /\ UNCHANGED <<stored, control, work, current, paused, decisions, queue, researches,
                 users, issued, asked>>

(* Any other failure of an activity ends the workflow. *)
Fail ==
  /\ \E p \in Activities : At(p)
  /\ answer = 0 /\ Goto("failed") /\ held' = NoDecision /\ hearing' = None
  /\ unverified' = {}
  /\ UNCHANGED <<stored, status, answer, signals, users, issued, asked>>

Workflow ==
  \/ Start \/ QuietDone \/ MapStakeholders \/ FindContactPaths
  \/ \E c \in Contacts : VerifyContactPoint(c)
  \/ EvaluateContactPath \/ BuildActionCard \/ BuildAnswered
  \/ WakeReview \/ DrainResearch \/ DrainDecision \/ RecordDecision
  \/ WakeProbe \/ WakeInteraction \/ ApplyInterpretation \/ LeaveFollow
  \/ CloseOpportunity \/ WakeBudget \/ Fail

-----------------------------------------------------------------------------
(* The API.  A user's command is a record of what it still has to do.       *)
On(op, v, k) == [op |-> op, version |-> v, keyed |-> k]
Move(op, to, v) == [op |-> op, to |-> to, ships |-> v]
Revised(v) == [cards[v] EXCEPT !.status = "review", !.approval = "pending"]
Executed(v) == IF v = 0 THEN cards ELSE [cards EXCEPT ![v].status = "executed"]

Issue(u, op) == users[u] = Idle /\ op \in Commands /\ issued < MaxCommands /\ issued' = issued + 1
Is(u, op) == users[u].op = op
Continue(u, next) == users' = [users EXCEPT ![u] = next]

(* decideActionCard: accepted for a version that is in review, then sent.   *)
AcceptDecision(u, d) ==
  /\ Issue(u, "decide") /\ d.version \in DOMAIN cards
  /\ cards[d.version].status = "review"
  /\ Continue(u, [op |-> "send", decision |-> d])
  /\ asked' = asked \cup {d}
  /\ UNCHANGED <<stored, control, work, signals>>

SendDecision(u) ==
  /\ Is(u, "send") /\ Running /\ Continue(u, Idle)
  /\ decisions' = Append(decisions, users[u].decision)
  /\ UNCHANGED <<stored, control, work, current, paused, queue,
                 researches, granted, issued, asked>>

(* updateActionCard with new content: it reads a version, inserts the next  *)
(* one without a lock, and tells the workflow.                              *)
ReadCard(u, v, k) ==
  /\ Issue(u, "edit") /\ v \in DOMAIN cards
  /\ cards[v].status \in {"draft", "review", "changes_requested"}
  /\ Continue(u, On("edit", v, k))
  /\ UNCHANGED <<stored, control, work, signals, asked>>

InsertVersion(u) ==
  LET v == users[u].version IN
    /\ Is(u, "edit") /\ NoneInserting /\ v = Len(cards) /\ v < MaxVersions
    /\ cards' = IF users[u].keyed THEN cards ELSE Append(cards, Revised(v))
    /\ Continue(u, On("announce", v + 1, users[u].keyed))
    /\ UNCHANGED <<row, contacts, interactions, control, work, signals, issued, asked>>

AnnounceVersion(u) ==
  /\ Is(u, "announce") /\ Running /\ current' = users[u].version
  /\ Continue(u, IF users[u].keyed THEN [users[u] EXCEPT !.op = "commit"] ELSE Idle)
  /\ UNCHANGED <<stored, control, work, paused, decisions, queue,
                 researches, granted, issued, asked>>

CommitVersionInPlace(u) ==
  /\ Is(u, "commit") /\ Continue(u, Idle)
  /\ cards' = [cards EXCEPT ![Len(cards)] = Revised(Len(cards))]
  /\ UNCHANGED <<row, contacts, interactions, control, work, signals, issued, asked>>
CommitVersion(u) ==
  /\ Is(u, "commit") /\ Continue(u, Idle)
  /\ cards' = Append(cards, Revised(Len(cards)))
  /\ UNCHANGED <<row, contacts, interactions, control, work, signals, issued, asked>>

(* executeActionCard: the card, then the opportunity, each after a read of  *)
(* its own; without a key the card is committed first.                      *)
ReadExecutable(u, v, k) ==
  /\ Issue(u, "execute") /\ v \in DOMAIN cards /\ "executed" \in CardNext[cards[v].status]
  /\ Continue(u, IF k THEN Move("move", "contacted", v) ELSE On("execute", v, k))
  /\ UNCHANGED <<stored, control, work, signals, asked>>

ExecuteCard(u) ==
  /\ Is(u, "execute") /\ Continue(u, Move("move", "contacted", 0))
  /\ cards' = Executed(users[u].version)
  /\ UNCHANGED <<row, contacts, interactions, control, work, signals, issued, asked>>

(* actionCardExport: the update repeats the status it depends on. *)
ReadExportable(u, v) ==
  /\ Issue(u, "export") /\ v \in DOMAIN cards /\ cards[v].status = "approved"
  /\ Continue(u, On("export", v, FALSE))
  /\ UNCHANGED <<stored, control, work, signals, asked>>

ExportedAlways(card) == [card EXCEPT !.status = "exported"]
Exported(card) == IF card.status = "approved" THEN [card EXCEPT !.status = "exported"] ELSE card
ExportCard(u) ==
  /\ Is(u, "export") /\ Continue(u, Idle)
  /\ cards' = [cards EXCEPT ![users[u].version] = Exported(@)]
  /\ UNCHANGED <<row, contacts, interactions, control, work, signals, issued, asked>>

(* pauseOpportunity and resumeOpportunity signal first and move the row     *)
(* afterwards; a resume names no status and gets target_identified.         *)
SignalPause(u, on) ==
  /\ Issue(u, IF on THEN "pause" ELSE "resume") /\ Running /\ paused' = on
  /\ Continue(u, Move("move", IF on THEN "paused" ELSE "target_identified", 0))
  /\ UNCHANGED <<stored, control, work, current, decisions, queue,
                 researches, granted, asked>>

(* archiveOpportunity moves the row and tells nobody. *)
Archive(u) ==
  /\ Issue(u, "archive") /\ Continue(u, Move("move", "archived", 0))
  /\ UNCHANGED <<stored, control, work, signals, asked>>

(* updateOpportunity: reads, checks the table, and writes without a lock    *)
(* and without repeating the check.                                         *)
CheckMove(u) ==
  /\ Is(u, "move")
  /\ Continue(u, IF users[u].to \in OpportunityNext[row]
                 THEN [users[u] EXCEPT !.op = "write"] ELSE Idle)
  /\ UNCHANGED <<stored, control, work, signals, issued, asked>>

WriteMove(u) ==
  /\ Is(u, "write") /\ Continue(u, Idle)
  /\ row' = users[u].to /\ cards' = Executed(users[u].ships)
  /\ UNCHANGED <<contacts, interactions, control, work, signals, issued, asked>>

(* researchOpportunity and regenerateActionCard. *)
AskResearch(u) ==
  /\ Issue(u, "research") /\ Running /\ researches < MaxResearch
  /\ researches' = researches + 1
  /\ UNCHANGED <<stored, control, work, current, paused, decisions,
                 queue, granted, users, asked>>

(* addInteraction: stored as pending and told to the workflow, with a key   *)
(* in the other order for everyone else.  Each is told at most once, so that*)
(* the handler's check for one it knows is left out.                        *)
StoreInteraction(u, i, k) ==
  /\ Issue(u, "interact") /\ interactions[i] = "absent"
  /\ interactions' = [interactions EXCEPT ![i] = IF k THEN "uncommitted" ELSE "pending"]
  /\ Continue(u, [op |-> "tell", interaction |-> i])
  /\ UNCHANGED <<row, contacts, cards, control, work, signals, asked>>

TellInteraction(u) ==
  LET i == users[u].interaction IN
    /\ Is(u, "tell") /\ Running /\ queue' = Append(queue, i)
    /\ Continue(u, IF Stored(i) THEN Idle ELSE [users[u] EXCEPT !.op = "keep"])
    /\ UNCHANGED <<stored, control, work, current, paused, decisions,
                   researches, granted, issued, asked>>

CommitInteraction(u) ==
  /\ Is(u, "keep") /\ Continue(u, Idle)
  /\ interactions' = [interactions EXCEPT ![users[u].interaction] = "pending"]
  /\ UNCHANGED <<row, contacts, cards, control, work, signals, issued, asked>>

(* confirmContact and verifyContact write whatever the status is; a change  *)
(* through updateContact (also markContactStale's, which the refresh        *)
(* workflow's refreshContact repeats) follows the table.                    *)
SetContact(u, c, s) ==
  /\ Issue(u, "contact") /\ contacts[c] # "absent"
  /\ s \in {"stale", "invalid"} => s \in ContactNext[contacts[c]]
  /\ contacts' = [contacts EXCEPT ![c] = s]
  /\ UNCHANGED <<row, cards, interactions, control, work, signals,
                 users, asked>>

(* The request dies between two steps: the process stops, the signal is     *)
(* refused because the workflow has ended, or the insert finds its version  *)
(* taken.  What it has not committed is rolled back.                        *)
Drop(u) ==
  /\ users[u] # Idle /\ Continue(u, Idle)
  /\ UNCHANGED <<stored, control, work, signals, issued, asked>>

Request(u) ==
  \/ \E d \in Decision : AcceptDecision(u, d)
  \/ \E v \in Versions : ReadExportable(u, v)
                       \/ \E k \in Keyed : ReadCard(u, v, k) \/ ReadExecutable(u, v, k)
  \/ \E on \in BOOLEAN : SignalPause(u, on)
  \/ Archive(u) \/ AskResearch(u)
  \/ \E i \in Interactions, k \in Keyed : StoreInteraction(u, i, k)
  \/ \E c \in Contacts, s \in ContactStatus : SetContact(u, c, s)

Serve(u) ==
  \/ SendDecision(u) \/ InsertVersion(u) \/ AnnounceVersion(u) \/ CommitVersion(u)
  \/ ExecuteCard(u) \/ ExportCard(u) \/ CheckMove(u) \/ WriteMove(u)
  \/ TellInteraction(u) \/ CommitInteraction(u)

Next ==
  \/ Workflow \/ OverBudget \/ GrantBudget \/ ContinueAsNew
  \/ \E u \in Users : Request(u) \/ Serve(u) \/ Drop(u)

Spec == Init /\ [][Next]_vars

(* An activity answers or fails and the workflow's next task is dispatched. *)
FairSpec == Spec /\ WF_vars(Workflow)

-----------------------------------------------------------------------------
Commanded ==
  {Idle} \cup [op : {"send"}, decision : Decision]
         \cup [op : {"edit", "announce", "commit", "execute", "export"},
               version : Versions, keyed : BOOLEAN]
         \cup [op : {"move", "write"}, to : OpportunityStatus, ships : 0 .. MaxVersions]
         \cup [op : {"tell", "keep"}, interaction : Interactions]

(* Every variable keeps its kind. *)
TypeOK ==
  /\ row \in OpportunityStatus /\ status \in OpportunityStatus
  /\ contacts \in [Contacts -> ContactStatus \cup {"absent"}]
  /\ cards \in Seq(Card) /\ Len(cards) <= MaxVersions
  /\ interactions \in [Interactions -> {"absent", "uncommitted", "pending", "interpreted"}]
  /\ pc \in PC /\ waiting \in {"no", "start", "budget"} /\ paused \in BOOLEAN
  /\ current \in 0 .. MaxVersions /\ answer \in 0 .. MaxVersions
  /\ decisions \in Seq(Decision) /\ queue \in Seq(Interactions)
  /\ researches \in 0 .. MaxResearch /\ granted \in BOOLEAN
  /\ held \in {NoDecision} \cup Decision /\ hearing \in {None} \cup Interactions
  /\ unverified \in SUBSET Contacts
  /\ users \in [Users -> Commanded] /\ issued \in 0 .. MaxCommands
  /\ asked \in SUBSET Decision

Approved(v) == cards[v].status \in {"approved", "exported", "executed"}

(* The approval that is listed for a version says what the version's status *)
(* says, whichever of the worker and the API wrote last.                    *)
ApprovalsAgree ==
  \A v \in DOMAIN cards :
    cards[v].approval = IF Approved(v) THEN "approved"
                        ELSE IF cards[v].status = "review" THEN "pending"
                        ELSE "changes_requested"

(* The API executes and exports on what it read; still no version leaves    *)
(* the table of its statuses, and an executed one is not exported again.    *)
CardsFollowTable ==
  [][\A v \in DOMAIN cards :
       cards'[v].status \in CardNext[cards[v].status] \cup {cards[v].status}]_vars

(* Until a version is approved, a decision that the workflow takes up finds *)
(* its version in review: two users who decide the same version, or edit it *)
(* meanwhile, never fail the workflow with a version conflict.  This is so  *)
(* for requests with a key, as the web client's are.                        *)
DecisionIsOpen ==
  pc = "record" /\ (\A v \in DOMAIN cards : ~Approved(v))
    => cards[held.version].status = "review"

(* An interaction that waits for the workflow or is in its hands has not    *)
(* been interpreted, and waits only once.                                   *)
HeardOnce ==
  /\ \A m \in 1 .. Len(queue) : interactions[queue[m]] # "interpreted" /\ hearing # queue[m]
  /\ \A m, n \in 1 .. Len(queue) : queue[m] = queue[n] => m = n
  /\ pc \in {"interpret", "apply"} => interactions[hearing] # "interpreted"

(* The audit of the interaction flow says that the transaction commits      *)
(* first and the signal is sent afterwards: what the workflow is told about *)
(* is stored.                                                               *)
StoredBeforeTold == \A n \in 1 .. Len(queue) : Stored(queue[n])

(* The review of the card's versions is what CardReview promises. *)
Review == INSTANCE CardReview WITH
  versions <- [v \in DOMAIN cards |->
                 IF cards[v].status \in {"exported", "executed"} THEN "shipped"
                 ELSE IF cards[v].status = "changes_requested" THEN "returned"
                 ELSE cards[v].status]
ImplementsCardReview == Review!Spec

Held == paused \/ waiting = "budget" \/ pc \in Ended

(* A decision for the current version that reaches the workflow in its      *)
(* review is recorded, unless another version becomes the current one, the  *)
(* workflow is paused, waits for a budget or ends.                          *)
DecisionTakesEffect ==
  \A v \in Versions :
    (/\ pc \in {"review", "drain", "record"} /\ current = v
     /\ \E n \in DOMAIN decisions : decisions[n].version = v)
      ~> (v \in DOMAIN cards /\ cards[v].status # "review") \/ current # v \/ Held

(* An interaction that reaches the workflow after the approval is           *)
(* interpreted, unless the workflow is paused, waits for a budget or ends.  *)
InteractionIsHeard ==
  \A i \in Interactions :
    (pc = "follow" /\ \E n \in DOMAIN queue : queue[n] = i)
      ~> interactions[i] = "interpreted" \/ Held

(* docs/workflows.md:37: an interaction can regenerate another card.  When  *)
(* the workflow turns to it, the gate of the card must admit the row.       *)
RevisionAfterResponse ==
  pc = "regenerate" /\ answer = 0 => row \in CardGate[TypeOfCard] /\ CanMove("action_ready")
=============================================================================
