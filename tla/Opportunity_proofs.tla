------------------------- MODULE Opportunity_proofs -------------------------
(***************************************************************************)
(* Theorems of Opportunity, for any users, contacts, interactions,         *)
(* commands and bounds, with and without keys.  Every step leaves the      *)
(* card's versions alone, adds one in review, records a decision that was  *)
(* asked for on one in review, or ships one that was approved: API         *)
(* commands write on what they read before, which is safe because what was *)
(* approved stays so.  From this follow the agreement of the two statuses, *)
(* the table of transitions and the refinement of CardReview.              *)
(***************************************************************************)
EXTENDS Opportunity, TLAPS

Live == {"review", "approved", "changes_requested", "exported", "executed"}

KindInv ==
  /\ cards \in Seq(Card) /\ users \in [Users -> Commanded]
  /\ asked \subseteq Decision /\ decisions \in Seq(Decision)
  /\ held \in {NoDecision} \cup Decision

\* Statuses that cards have, and the approvals that go with them.
CardInv ==
  /\ \A v \in DOMAIN cards : cards[v].status \in Live
  /\ ApprovalsAgree

\* What was accepted as a decision is about a version, and what the workflow
\* has taken up was accepted.
AskedInv ==
  /\ \A d \in asked : d.version \in DOMAIN cards
  /\ \A n \in DOMAIN decisions : decisions[n] \in asked
  /\ held = NoDecision \/ held \in asked
  /\ pc = "record" => held # NoDecision
  /\ answer # 0 => pc \in Builds

\* What a command has read and still relies on.
Relies(c) ==
  /\ c.op = "send" => c.decision \in asked
  /\ c.op \in {"edit", "execute", "export"} => c.version \in DOMAIN cards
  /\ c.op \in {"announce", "commit"} => cards # <<>>
  /\ c.op = "execute" => Approved(c.version)
  /\ c.op \in {"move", "write"} /\ c.ships # 0 => c.ships \in DOMAIN cards /\ Approved(c.ships)
Reads(u) == Relies(users[u])
ReadsInv == \A u \in Users : Reads(u)

IInv == KindInv /\ CardInv /\ AskedInv /\ ReadsInv

-----------------------------------------------------------------------------
(* What a step can do to the versions. *)
Same == cards' = cards
Added ==
  \E c \in Card : c.status = "review" /\ c.approval = "pending" /\ cards' = Append(cards, c)
Decides(v, verdict) ==
  /\ cards[v].status = "review" /\ [version |-> v, verdict |-> verdict] \in asked
  /\ cards' = [cards EXCEPT ![v] =
       Recorded(cards[v], IF verdict = "approve" THEN "approved" ELSE "changes_requested")]
Ships(v, to) ==
  /\ to \in CardNext[cards[v].status] \cup {cards[v].status} /\ Approved(v)
  /\ cards' = [cards EXCEPT ![v] = [cards[v] EXCEPT !.status = to]]
Step ==
  \/ Same
  \/ /\ asked' = asked
     /\ \/ Added
        \/ RecordDecision /\ \E v \in DOMAIN cards, verdict \in Verdicts : Decides(v, verdict)
        \/ \E v \in DOMAIN cards, to \in {"exported", "executed"} : Ships(v, to)

LEMMA RevisedIsNew ==
  ASSUME IInv, NEW v \in DOMAIN cards
  PROVE  Revised(v) \in Card /\ Revised(v).status = "review" /\ Revised(v).approval = "pending"
<1>1. cards[v] \in Card
  BY DEF IInv, KindInv
<1> QED
  BY <1>1 DEF Revised, Card, CardStatus, CardNext, Approval

LEMMA ExecutedShips ==
  ASSUME IInv, NEW v, (v \in DOMAIN cards /\ Approved(v)) \/ v = 0, cards' = Executed(v)
  PROVE  Same \/ \E w \in DOMAIN cards : Ships(w, "executed")
<1>1. CASE v = 0
  BY <1>1 DEF Executed, Same
<1>2. CASE v # 0
  <2>1. v \in DOMAIN cards /\ Approved(v)
    BY <1>2
  <2>2. "executed" \in CardNext[cards[v].status] \cup {cards[v].status}
    BY <2>1 DEF Approved, CardNext
  <2>3. cards' = [cards EXCEPT ![v] = [cards[v] EXCEPT !.status = "executed"]]
    BY <1>2, <2>1 DEF Executed
  <2> QED
    BY <2>1, <2>2, <2>3 DEF Ships
<1> QED
  BY <1>1, <1>2

LEMMA WorkflowCards == ASSUME IInv, Workflow PROVE Step
<1> USE DEF IInv, stored
<1>1. CASE BuildActionCard
  <2> DEFINE c == [status |-> "review", type |-> TypeOfCard, approval |-> "pending"]
  <2>1. c \in Card
    BY DEF Card, CardStatus, CardNext, CardType, CardGate, TypeOfCard, Approval
  <2> QED
    BY <1>1, <2>1 DEF BuildActionCard, Step, Added
<1>2. CASE RecordDecision
  <2> DEFINE v == held.version
             verdict == held.verdict
  <2>1. held \in asked /\ held \in Decision
    BY <1>2 DEF RecordDecision, At, AskedInv, KindInv
  <2>2. v \in DOMAIN cards /\ verdict \in Verdicts /\ held = [version |-> v, verdict |-> verdict]
    BY <2>1 DEF AskedInv, Decision
  <2>3. Decides(v, verdict) /\ asked' = asked
    BY <1>2, <2>1, <2>2 DEF RecordDecision, Decides
  <2> QED
    BY <1>2, <2>2, <2>3 DEF Step
<1>3. CASE \/ Start \/ QuietDone \/ MapStakeholders \/ FindContactPaths
           \/ EvaluateContactPath \/ BuildAnswered \/ (\E c \in Contacts : VerifyContactPoint(c))
           \/ WakeReview \/ DrainResearch \/ DrainDecision
  BY <1>3 DEF Start, QuietDone, MapStakeholders, FindContactPaths, EvaluateContactPath,
     BuildAnswered, VerifyContactPoint, WakeReview, DrainResearch, DrainDecision, Step, Same
<1>4. CASE \/ WakeProbe \/ WakeInteraction \/ ApplyInterpretation \/ LeaveFollow
           \/ CloseOpportunity \/ WakeBudget \/ Fail
  BY <1>4 DEF WakeProbe, WakeInteraction, ApplyInterpretation, LeaveFollow, CloseOpportunity,
     WakeBudget, Fail, Step, Same
<1> QED
  BY <1>1, <1>2, <1>3, <1>4 DEF Workflow

LEMMA ServeCards == ASSUME IInv, NEW u \in Users, Serve(u) PROVE Step
<1> USE DEF IInv, stored
<1>1. Reads(u) /\ users[u] \in Commanded /\ cards \in Seq(Card)
  BY DEF ReadsInv, KindInv
<1>2. CASE InsertVersion(u)
  <2>1. users[u].version \in DOMAIN cards
    BY <1>1, <1>2 DEF InsertVersion, Is, Reads, Relies
  <2> QED
    BY <1>2, <2>1, RevisedIsNew DEF InsertVersion, Step, Same, Added
<1>3. CASE CommitVersion(u)
  <2>1. Len(cards) \in DOMAIN cards
    BY <1>1, <1>3 DEF CommitVersion, Is, Reads, Relies
  <2> QED
    BY <1>3, <2>1, RevisedIsNew DEF CommitVersion, Step, Added
<1>4. CASE ExecuteCard(u)
  <2>1. users[u].version \in DOMAIN cards /\ Approved(users[u].version)
    BY <1>1, <1>4 DEF ExecuteCard, Is, Reads, Relies
  <2> QED
    BY <1>4, <2>1, ExecutedShips DEF ExecuteCard, Step
<1>5. CASE WriteMove(u)
  <2>1. \/ users[u].ships \in DOMAIN cards /\ Approved(users[u].ships)
        \/ users[u].ships = 0
    BY <1>1, <1>5 DEF WriteMove, Is, Reads, Relies
  <2> QED
    BY <1>5, <2>1, ExecutedShips DEF WriteMove, Step
<1>6. CASE ExportCard(u)
  <2> DEFINE v == users[u].version
  <2>1. v \in DOMAIN cards
    BY <1>1, <1>6 DEF ExportCard, Is, Reads, Relies
  <2>2. CASE cards[v].status = "approved"
    <3>1. "exported" \in CardNext[cards[v].status] /\ Approved(v)
      BY <2>2 DEF CardNext, Approved
    <3>2. cards' = [cards EXCEPT ![v] = [cards[v] EXCEPT !.status = "exported"]]
      BY <1>6, <2>1, <2>2 DEF ExportCard, Exported
    <3> QED
      BY <1>6, <2>1, <3>1, <3>2 DEF ExportCard, Ships, Step
  <2>3. CASE cards[v].status # "approved"
    BY <1>1, <1>6, <2>1, <2>3 DEF ExportCard, Exported, Step, Same
  <2> QED
    BY <2>2, <2>3
<1>7. CASE \/ SendDecision(u) \/ AnnounceVersion(u) \/ CheckMove(u)
           \/ TellInteraction(u) \/ CommitInteraction(u)
  BY <1>7 DEF SendDecision, AnnounceVersion, CheckMove, TellInteraction, CommitInteraction,
     Step, Same
<1> QED
  BY <1>2, <1>3, <1>4, <1>5, <1>6, <1>7 DEF Serve

LEMMA NextCards == ASSUME IInv, [Next]_vars PROVE Step
<1> USE DEF stored
<1>1. CASE OverBudget \/ GrantBudget \/ ContinueAsNew \/ UNCHANGED vars
  BY <1>1 DEF OverBudget, GrantBudget, ContinueAsNew, vars, Step, Same
<1>2. ASSUME NEW u \in Users, Request(u) \/ Drop(u) PROVE Step
  BY <1>2 DEF Request, Drop, AcceptDecision, ReadCard, ReadExecutable, ReadExportable,
     SignalPause, Archive, AskResearch, StoreInteraction, SetContact, Step, Same
<1> QED
  BY <1>1, <1>2, WorkflowCards, ServeCards DEF Next

-----------------------------------------------------------------------------
(* What no step takes away. *)
Kept ==
  /\ cards' \in Seq(Card) /\ DOMAIN cards \subseteq DOMAIN cards'
  /\ \A v \in DOMAIN cards' : cards'[v].status \in Live
  /\ ApprovalsAgree'
  /\ \A v \in DOMAIN cards :
       /\ cards'[v].status \in CardNext[cards[v].status] \cup {cards[v].status}
       /\ Approved(v) => Approved(v)'

LEMMA StepKeeps == ASSUME IInv, Step PROVE Kept
<1> USE DEF IInv, KindInv, CardInv
<1>1. CASE Same
  BY <1>1 DEF Same, Kept, ApprovalsAgree, Approved
<1>2. CASE Added
  <2>1. PICK c \in Card : /\ c.status = "review" /\ c.approval = "pending"
                          /\ cards' = Append(cards, c)
    BY <1>2 DEF Added
  <2>2. /\ cards' \in Seq(Card) /\ DOMAIN cards' = DOMAIN cards \cup {Len(cards) + 1}
        /\ \A v \in DOMAIN cards : cards'[v] = cards[v]
        /\ cards'[Len(cards) + 1] = c
    BY <2>1
  <2> QED
    BY <2>1, <2>2 DEF Kept, ApprovalsAgree, Approved, Live
<1>3. ASSUME NEW v \in DOMAIN cards, NEW card \in Card, card.status \in Live,
             cards' = [cards EXCEPT ![v] = card],
             card.status \in CardNext[cards[v].status] \cup {cards[v].status},
             card.approval = IF card.status \in {"approved", "exported", "executed"}
                             THEN "approved" ELSE "changes_requested",
             card.status # "review",
             Approved(v) => card.status \in {"approved", "exported", "executed"}
      PROVE  Kept
  <2>1. /\ cards' \in Seq(Card) /\ DOMAIN cards' = DOMAIN cards /\ cards'[v] = card
        /\ \A w \in DOMAIN cards \ {v} : cards'[w] = cards[w]
    BY <1>3
  <2> QED
    BY <1>3, <2>1 DEF Kept, ApprovalsAgree, Approved, Live
<1>4. ASSUME NEW v \in DOMAIN cards, NEW verdict \in Verdicts, Decides(v, verdict) PROVE Kept
  <2> DEFINE to == IF verdict = "approve" THEN "approved" ELSE "changes_requested"
             card == Recorded(cards[v], to)
  <2>1. cards[v] \in Card /\ cards[v].status = "review"
    BY <1>4 DEF Decides
  <2>2. card \in Card /\ card.status = to /\ card.approval = to
    BY <2>1 DEF Recorded, Card, CardStatus, CardNext, Approval
  <2>3. to \in CardNext[cards[v].status]
    BY <2>1 DEF CardNext
  <2>4. cards' = [cards EXCEPT ![v] = card]
    BY <1>4 DEF Decides
  <2>5. ~Approved(v)
    BY <2>1 DEF Approved
  <2> QED
    BY <1>3, <2>2, <2>3, <2>4, <2>5 DEF Live
<1>5. ASSUME NEW v \in DOMAIN cards, NEW to \in {"exported", "executed"}, Ships(v, to) PROVE Kept
  <2> DEFINE card == [cards[v] EXCEPT !.status = to]
  <2>1. cards[v] \in Card /\ cards[v].approval = "approved"
    BY <1>5 DEF Ships, ApprovalsAgree
  <2>2. card \in Card /\ card.status = to /\ card.approval = "approved"
    BY <2>1 DEF Card, CardStatus, CardNext
  <2>3. cards' = [cards EXCEPT ![v] = card]
        /\ to \in CardNext[cards[v].status] \cup {cards[v].status}
    BY <1>5 DEF Ships
  <2> QED
    BY <1>3, <2>2, <2>3 DEF Live
<1> QED
  BY <1>1, <1>2, <1>4, <1>5 DEF Step

LEMMA ReadsKept ==
  ASSUME IInv, Kept, asked \subseteq asked', NEW u \in Users, users'[u] = users[u]
  PROVE  Reads(u)'
<1>1. Reads(u)
  BY DEF IInv, ReadsInv
<1>2. cards # <<>> => cards' # <<>>
  BY DEF Kept, IInv, KindInv
<1> QED
  BY <1>1, <1>2 DEF Reads, Relies, Is, Kept, Approved

\* What the workflow does: it takes up decisions that were accepted.
LEMMA WorkflowInv ==
  ASSUME IInv, Workflow \/ OverBudget \/ GrantBudget \/ ContinueAsNew \/ UNCHANGED vars
  PROVE  IInv'
<1> USE DEF stored, control, work, signals
<1>1. Kept /\ UNCHANGED <<users, asked>>
  <2>1. Kept
    BY NextCards, StepKeeps DEF Next
  <2>2. UNCHANGED <<users, asked>>
    BY DEF Workflow, Start, QuietDone, MapStakeholders, FindContactPaths, EvaluateContactPath,
       VerifyContactPoint, BuildActionCard, BuildAnswered, WakeReview, DrainResearch,
       DrainDecision, RecordDecision, WakeProbe, WakeInteraction, ApplyInterpretation,
       LeaveFollow, CloseOpportunity, WakeBudget, Fail, OverBudget, GrantBudget,
       ContinueAsNew, vars
  <2> QED
    BY <2>1, <2>2
<1>2. ReadsInv'
  BY <1>1, ReadsKept DEF ReadsInv
<1>3. CardInv' /\ \A d \in asked' : d.version \in DOMAIN cards'
  BY <1>1 DEF IInv, CardInv, AskedInv, Kept
<1> DEFINE drained == decisions' = decisions \/ decisions' = <<>>
             \/ (decisions # <<>> /\ decisions' = Tail(decisions))
           taken == \/ held' = held /\ pc' # "record"
                    \/ held' = held /\ pc' = pc
                    \/ held' = NoDecision /\ pc' # "record"
                    \/ decisions # <<>> /\ held' = Head(decisions) /\ answer = 0
           answered == \/ answer' = answer /\ pc' = pc
                       \/ answer' = answer /\ pc \notin Builds
                       \/ answer' = answer /\ answer = 0
                       \/ pc \in Builds /\ pc' = pc
                       \/ answer' = 0
<1>4. drained /\ taken /\ answered
  <2> USE DEF Goto, At, Builds, Quiet
  <2>1. CASE Start \/ OverBudget \/ GrantBudget \/ WakeBudget \/ BuildActionCard \/ UNCHANGED vars
    BY <2>1 DEF Start, OverBudget, GrantBudget, WakeBudget, BuildActionCard, vars
  <2>2. CASE QuietDone
    BY <2>2 DEF QuietDone, Following
  <2>3. CASE MapStakeholders \/ FindContactPaths \/ EvaluateContactPath
             \/ \E c \in Contacts : VerifyContactPoint(c)
    BY <2>3 DEF MapStakeholders, FindContactPaths, EvaluateContactPath, VerifyContactPoint
  <2>4. CASE BuildAnswered
    BY <2>4 DEF BuildAnswered, Following, IInv, AskedInv
  <2>5. CASE DrainDecision
    BY <2>5 DEF DrainDecision, IInv, AskedInv
  <2>6. CASE WakeReview \/ DrainResearch \/ RecordDecision
    BY <2>6 DEF WakeReview, DrainResearch, RecordDecision
  <2>7. CASE WakeProbe \/ WakeInteraction \/ ApplyInterpretation \/ ContinueAsNew
    BY <2>7 DEF WakeProbe, WakeInteraction, ApplyInterpretation, ContinueAsNew
  <2>8. CASE LeaveFollow \/ CloseOpportunity \/ Fail
    BY <2>8 DEF LeaveFollow, CloseOpportunity, Fail
  <2> QED
    BY <2>1, <2>2, <2>3, <2>4, <2>5, <2>6, <2>7, <2>8 DEF Workflow
<1>5. decisions \in Seq(Decision) /\ \A n \in DOMAIN decisions : decisions[n] \in asked
  BY DEF IInv, KindInv, AskedInv
<1>6. /\ decisions' \in Seq(Decision) /\ \A n \in DOMAIN decisions' : decisions'[n] \in asked
      /\ decisions # <<>> => Head(decisions) \in asked
  <2>1. decisions # <<>> =>
          /\ Tail(decisions) \in Seq(Decision) /\ Head(decisions) = decisions[1]
          /\ 1 \in DOMAIN decisions
          /\ \A n \in DOMAIN Tail(decisions) :
               n + 1 \in DOMAIN decisions /\ Tail(decisions)[n] = decisions[n + 1]
    BY <1>5
  <2>2. CASE decisions' = decisions
    BY <1>5, <2>1, <2>2
  <2>3. CASE decisions' = <<>>
    BY <1>5, <2>1, <2>3
  <2>4. CASE decisions # <<>> /\ decisions' = Tail(decisions)
    BY <1>5, <2>1, <2>4
  <2> QED
    BY <1>4, <2>2, <2>3, <2>4
<1>7. KindInv'
  BY <1>1, <1>4, <1>6 DEF IInv, KindInv, Kept
<1>8. \A d \in asked : d # NoDecision
  BY DEF IInv, KindInv, Decision, NoDecision, Versions
<1>9. AskedInv'
  BY <1>1, <1>3, <1>4, <1>6, <1>8 DEF IInv, AskedInv
<1> QED
  BY <1>2, <1>3, <1>7, <1>9 DEF IInv

\* A user goes on with what the next step of the command relies on.
Goes(u, c) == c \in Commanded /\ Relies(c)' /\ users' = [users EXCEPT ![u] = c]

\* What users do.  A command that goes on has read what it goes on with.
LEMMA UserInv ==
  ASSUME IInv, NEW u \in Users, Request(u) \/ Serve(u) \/ Drop(u)
  PROVE  IInv'
<1> USE DEF stored, control, work, signals, Continue
<1>1. Kept
  BY NextCards, StepKeeps DEF Next
<1>2. users \in [Users -> Commanded] /\ Reads(u) /\ users[u] \in Commanded
  BY DEF IInv, KindInv, ReadsInv
<1>3. /\ UNCHANGED <<pc, held, answer>>
      /\ asked \subseteq asked' /\ asked' \subseteq Decision
      /\ \A d \in asked' : d.version \in DOMAIN cards
  BY DEF IInv, KindInv, AskedInv, Request, Serve, Drop, AcceptDecision, ReadCard, ReadExecutable,
     ReadExportable, SignalPause, Archive, AskResearch, StoreInteraction, SetContact,
     SendDecision, InsertVersion, AnnounceVersion, CommitVersion, ExecuteCard, ExportCard,
     CheckMove, WriteMove, TellInteraction, CommitInteraction
<1>4. decisions' \in Seq(Decision) /\ \A n \in DOMAIN decisions' : decisions'[n] \in asked
  <2>1. decisions \in Seq(Decision) /\ \A n \in DOMAIN decisions : decisions[n] \in asked
    BY DEF IInv, KindInv, AskedInv
  <2>2. CASE SendDecision(u)
    <3> DEFINE d == users[u].decision
    <3>1. decisions' = Append(decisions, d) /\ d \in asked /\ d \in Decision
      BY <1>2, <2>2 DEF SendDecision, Is, Reads, Relies, IInv, KindInv
    <3>2. /\ Append(decisions, d) \in Seq(Decision)
          /\ DOMAIN Append(decisions, d) = DOMAIN decisions \cup {Len(decisions) + 1}
          /\ \A n \in DOMAIN decisions : Append(decisions, d)[n] = decisions[n]
          /\ Append(decisions, d)[Len(decisions) + 1] = d
      BY <2>1, <3>1
    <3> QED
      BY <2>1, <3>1, <3>2
  <2>3. CASE ~SendDecision(u)
    <3>1. decisions' = decisions
      BY <2>3 DEF Request, Serve, Drop, AcceptDecision, ReadCard, ReadExecutable, ReadExportable,
         SignalPause, Archive, AskResearch, StoreInteraction, SetContact, InsertVersion,
         AnnounceVersion, CommitVersion, ExecuteCard, ExportCard, CheckMove, WriteMove,
         TellInteraction, CommitInteraction
    <3> QED
      BY <2>1, <3>1
  <2> QED
    BY <2>2, <2>3
<1>5. CardInv' /\ AskedInv'
  BY <1>1, <1>3, <1>4 DEF IInv, CardInv, AskedInv, Kept
\* The user's next step.
<1>6. ASSUME NEW c, Goes(u, c)
      PROVE  users' \in [Users -> Commanded] /\ ReadsInv'
  <2>1. /\ users' \in [Users -> Commanded] /\ users'[u] = c
        /\ \A w \in Users \ {u} : users'[w] = users[w]
    BY <1>2, <1>6 DEF Goes
  <2>2. Reads(u)'
    BY <1>6, <2>1 DEF Goes, Reads
  <2> QED
    BY <1>1, <1>3, <2>1, <2>2, ReadsKept DEF ReadsInv
<1>7. ASSUME UNCHANGED users PROVE users' \in [Users -> Commanded] /\ ReadsInv'
  BY <1>1, <1>2, <1>3, <1>7, ReadsKept DEF ReadsInv
<1>8. users' \in [Users -> Commanded] /\ ReadsInv'
  <2>1. /\ Versions = 1 .. MaxVersions /\ MaxVersions \in Nat
        /\ \A v \in DOMAIN cards : /\ v \in DOMAIN cards' /\ cards' # <<>>
                                   /\ Approved(v) => Approved(v)'
    BY <1>1, OpportunityAssumption DEF Versions, Kept
  <2>2. CASE \E c : Goes(u, c)
    BY <1>6, <2>2
  <2>3. CASE \/ AskResearch(u)
             \/ \E c \in Contacts, s \in ContactStatus : SetContact(u, c, s)
    BY <1>7, <2>3 DEF AskResearch, SetContact
  <2>4. CASE \/ Drop(u) \/ SendDecision(u) \/ CommitVersion(u) \/ WriteMove(u) \/ ExportCard(u)
             \/ CommitInteraction(u)
    <3>1. Goes(u, Idle)
      BY <2>4 DEF Goes, Drop, SendDecision, CommitVersion, WriteMove, ExportCard, CommitInteraction,
         Idle, Commanded, Relies
    <3> QED
      BY <2>2, <3>1
  <2>5. ASSUME NEW d \in Decision, AcceptDecision(u, d) PROVE \E c : Goes(u, c)
    <3>1. Goes(u, [op |-> "send", decision |-> d])
      BY <2>5 DEF Goes, AcceptDecision, Commanded, Relies
    <3> QED
      BY <3>1
  <2>6. ASSUME NEW v \in Versions, ReadExportable(u, v) PROVE \E c : Goes(u, c)
    <3>1. Goes(u, On("export", v, FALSE))
      BY <2>1, <2>6 DEF Goes, ReadExportable, On, Commanded, Relies
    <3> QED
      BY <3>1
  <2>7. ASSUME NEW v \in Versions, NEW k \in Keyed, ReadCard(u, v, k) PROVE \E c : Goes(u, c)
    <3>1. Goes(u, On("edit", v, k))
      BY <2>1, <2>7, OpportunityAssumption DEF Goes, ReadCard, On, Commanded, Relies
    <3> QED
      BY <3>1
  <2>8. ASSUME NEW v \in Versions, NEW k \in Keyed, ReadExecutable(u, v, k) PROVE \E c : Goes(u, c)
    <3>1. v \in DOMAIN cards /\ Approved(v)
      BY <2>8 DEF ReadExecutable, Approved, CardNext, IInv, CardInv, Live
    <3>2. CASE k
      <4>1. Goes(u, Move("move", "contacted", v))
        BY <2>1, <2>8, <3>1, <3>2 DEF Goes, ReadExecutable, Move, Commanded, Relies,
           OpportunityStatus, OpportunityNext
      <4> QED
        BY <4>1
    <3>3. CASE ~k
      <4>1. Goes(u, On("execute", v, k))
        BY <2>1, <2>8, <3>1, <3>3, OpportunityAssumption
        DEF Goes, ReadExecutable, On, Commanded, Relies
      <4> QED
        BY <4>1
    <3> QED
      BY <3>2, <3>3
  <2>9. ASSUME NEW on \in BOOLEAN, SignalPause(u, on) \/ Archive(u) PROVE \E c : Goes(u, c)
    <3>1. PICK to \in OpportunityStatus : users' = [users EXCEPT ![u] = Move("move", to, 0)]
      BY <2>9 DEF SignalPause, Archive, OpportunityStatus, OpportunityNext
    <3>2. Goes(u, Move("move", to, 0))
      BY <2>1, <3>1 DEF Goes, Move, Commanded, Relies
    <3> QED
      BY <3>2
  <2>10. ASSUME NEW i \in Interactions, NEW k \in Keyed, StoreInteraction(u, i, k)
         PROVE  \E c : Goes(u, c)
    <3>1. Goes(u, [op |-> "tell", interaction |-> i])
      BY <2>10 DEF Goes, StoreInteraction, Commanded, Relies
    <3> QED
      BY <3>1
  <2>11. CASE InsertVersion(u)
    <3>1. users[u].version \in DOMAIN cards /\ users[u].keyed \in BOOLEAN
          /\ users[u].version + 1 \in Versions
      BY <1>2, <2>1, <2>11 DEF InsertVersion, Is, Reads, Relies, Commanded, Idle
    <3>2. PICK c \in Commanded : c = On("announce", users[u].version + 1, users[u].keyed)
      BY <3>1 DEF On, Commanded
    <3>3. Goes(u, c)
      BY <2>1, <2>11, <3>1, <3>2 DEF Goes, InsertVersion, On, Relies
    <3> QED
      BY <2>2, <3>3
  <2>12. CASE AnnounceVersion(u)
    <3>1. CASE users[u].keyed
      <4>1. users[u] \in [op : {"edit", "announce", "commit", "execute", "export"},
                          version : Versions, keyed : BOOLEAN]
        BY <1>2, <2>12 DEF AnnounceVersion, Is, Commanded, Idle
      <4> DEFINE next == [users[u] EXCEPT !.op = "commit"]
      <4>2. next \in Commanded /\ next.op = "commit"
        BY <4>1 DEF Commanded
      <4>3. PICK c \in Commanded : c = next /\ c.op = "commit"
        BY <4>2
      <4>4. cards # <<>> /\ cards' = cards
        BY <1>2, <2>12 DEF AnnounceVersion, Is, Reads, Relies
      <4>5. Goes(u, c)
        BY <2>12, <3>1, <4>3, <4>4 DEF Goes, AnnounceVersion, Relies
      <4> QED
        BY <2>2, <4>5
    <3>2. CASE ~users[u].keyed
      <4>1. Goes(u, Idle)
        BY <2>12, <3>2 DEF Goes, AnnounceVersion, Idle, Commanded, Relies
      <4> QED
        BY <2>2, <4>1
    <3> QED
      BY <3>1, <3>2
  <2>13. CASE ExecuteCard(u)
    <3>1. Goes(u, Move("move", "contacted", 0))
      BY <2>1, <2>13 DEF Goes, ExecuteCard, Move, Commanded, Relies,
         OpportunityStatus, OpportunityNext
    <3> QED
      BY <2>2, <3>1
  <2>14. CASE CheckMove(u)
    <3>1. CASE users' = [users EXCEPT ![u] = Idle]
      <4>1. Goes(u, Idle)
        BY <3>1 DEF Goes, Idle, Commanded, Relies
      <4> QED
        BY <2>2, <4>1
    <3>2. CASE users' = [users EXCEPT ![u] = [users[u] EXCEPT !.op = "write"]]
      <4>1. users[u] \in [op : {"move", "write"}, to : OpportunityStatus, ships : 0 .. MaxVersions]
        BY <1>2, <2>14 DEF CheckMove, Is, Commanded, Idle
      <4> DEFINE next == [users[u] EXCEPT !.op = "write"]
      <4>2. next \in Commanded /\ next.op = "write" /\ next.ships = users[u].ships
        BY <4>1 DEF Commanded
      <4>3. PICK c \in Commanded : c = next /\ c.op = "write" /\ c.ships = users[u].ships
        BY <4>2
      <4>4. c.ships # 0 => c.ships \in DOMAIN cards /\ Approved(c.ships)
        BY <1>2, <2>14, <4>3 DEF CheckMove, Is, Reads, Relies
      <4>5. Relies(c)'
        BY <2>1, <4>3, <4>4 DEF Relies
      <4> QED
        BY <2>2, <3>2, <4>3, <4>5 DEF Goes
    <3> QED
      BY <2>14, <3>1, <3>2 DEF CheckMove
  <2>15. CASE TellInteraction(u)
    <3>1. CASE users' = [users EXCEPT ![u] = Idle]
      <4>1. Goes(u, Idle)
        BY <3>1 DEF Goes, Idle, Commanded, Relies
      <4> QED
        BY <2>2, <4>1
    <3>2. CASE users' = [users EXCEPT ![u] = [users[u] EXCEPT !.op = "keep"]]
      <4>1. users[u] \in [op : {"tell", "keep"}, interaction : Interactions]
        BY <1>2, <2>15 DEF TellInteraction, Is, Commanded, Idle
      <4> DEFINE next == [users[u] EXCEPT !.op = "keep"]
      <4>2. next \in Commanded /\ next.op = "keep"
        BY <4>1 DEF Commanded
      <4>3. PICK c \in Commanded : c = next /\ c.op = "keep"
        BY <4>2
      <4>4. Goes(u, c)
        BY <3>2, <4>3 DEF Goes, Relies
      <4> QED
        BY <2>2, <4>4
    <3> QED
      BY <2>15, <3>1, <3>2 DEF TellInteraction
  <2>16. CASE Request(u)
    BY <2>2, <2>3, <2>5, <2>6, <2>7, <2>8, <2>9, <2>10, <2>16 DEF Request
  <2> QED
    BY <2>4, <2>11, <2>12, <2>13, <2>14, <2>15, <2>16 DEF Serve
<1> QED
  BY <1>1, <1>3, <1>4, <1>5, <1>8 DEF IInv, KindInv, Kept

-----------------------------------------------------------------------------
LEMMA InitInv == Init => IInv
<1> SUFFICES ASSUME Init PROVE IInv
  OBVIOUS
<1> USE DEF Init
<1>1. KindInv
  BY DEF KindInv, Commanded
<1>2. CardInv /\ AskedInv
  BY DEF CardInv, AskedInv, ApprovalsAgree
<1>3. ReadsInv
  BY DEF ReadsInv, Reads, Relies, Idle
<1> QED
  BY <1>1, <1>2, <1>3 DEF IInv

LEMMA StepInv == IInv /\ [Next]_vars => IInv'
  BY WorkflowInv, UserInv DEF Next

LEMMA Invariance == Spec => []IInv
  BY InitInv, StepInv, PTL DEF Spec

\* The worker's transaction and the API's two writes, each on what it has read
\* before, leave a version's approval in step with its status.
THEOREM ApprovalsStayInStep == Spec => []ApprovalsAgree
<1>1. IInv => ApprovalsAgree
  BY DEF IInv, CardInv
<1> QED
  BY <1>1, Invariance, PTL

\* No step, and no export or execution that comes late, takes a version where
\* the table of its statuses does not lead.
THEOREM TableIsFollowed == Spec => CardsFollowTable
<1>1. ASSUME IInv, [Next]_vars
      PROVE  [\A v \in DOMAIN cards :
                cards'[v].status \in CardNext[cards[v].status] \cup {cards[v].status}]_vars
  <2>1. Kept
    BY <1>1, NextCards, StepKeeps
  <2> QED
    BY <2>1 DEF Kept
<1> QED
  BY <1>1, Invariance, PTL DEF Spec, CardsFollowTable

\* The versions as CardReview sees them.
Seen(s) ==
  IF s \in {"exported", "executed"} THEN "shipped"
  ELSE IF s = "changes_requested" THEN "returned" ELSE s
Reviewed == [v \in DOMAIN cards |-> Seen(cards[v].status)]

LEMMA AskStep ==
  ASSUME IInv, [Next]_vars, asked' # asked
  PROVE  \E d \in Decision : /\ d.version \in DOMAIN cards /\ cards[d.version].status = "review"
                             /\ asked' = asked \cup {d} /\ cards' = cards
<1> USE DEF stored, work, signals, control
<1>1. ~(Workflow \/ OverBudget \/ GrantBudget \/ ContinueAsNew \/ UNCHANGED vars)
  BY DEF Workflow, Start, QuietDone, MapStakeholders, FindContactPaths, EvaluateContactPath,
     VerifyContactPoint, BuildActionCard, BuildAnswered, WakeReview, DrainResearch,
     DrainDecision, RecordDecision, WakeProbe, WakeInteraction, ApplyInterpretation,
     LeaveFollow, CloseOpportunity, WakeBudget, Fail, OverBudget, GrantBudget,
     ContinueAsNew, vars
<1>2. PICK u \in Users : Request(u) \/ Serve(u) \/ Drop(u)
  BY <1>1 DEF Next
<1>3. \E d \in Decision : AcceptDecision(u, d)
  BY <1>2 DEF Request, Serve, Drop, ReadCard, ReadExecutable, ReadExportable, SignalPause,
     Archive, AskResearch, StoreInteraction, SetContact, SendDecision, InsertVersion,
     AnnounceVersion, CommitVersion, ExecuteCard, ExportCard, CheckMove, WriteMove,
     TellInteraction, CommitInteraction
<1> QED
  BY <1>3 DEF AcceptDecision

LEMMA ReviewStep ==
  ASSUME IInv, [Next]_vars
  PROVE  Review!Next \/ (Reviewed' = Reviewed /\ asked' = asked)
<1>1. cards \in Seq(Card) /\ DOMAIN Reviewed = DOMAIN cards /\ cards' \in Seq(Card)
  BY NextCards, StepKeeps DEF IInv, KindInv, Reviewed, Kept
<1> USE DEF Reviewed, Seen
<1>2. CASE asked' # asked
  <2>1. PICK d \in Decision : /\ d.version \in DOMAIN cards /\ cards[d.version].status = "review"
                              /\ asked' = asked \cup {d} /\ cards' = cards
    BY <1>2, AskStep
  <2>2. /\ d.verdict \in {"approve", "request_changes"}
        /\ d = [version |-> d.version, verdict |-> d.verdict]
        /\ Reviewed[d.version] = "review" /\ Reviewed' = Reviewed
    BY <2>1 DEF Decision, Verdicts
  <2>3. Review!Ask(d.version, d.verdict)
    BY <2>1, <2>2 DEF Review!Ask
  <2> QED
    BY <1>1, <2>1, <2>2, <2>3 DEF Review!Next
<1>3. CASE asked' = asked /\ Same
  BY <1>3 DEF Same
<1>4. CASE asked' = asked /\ Added
  <2>1. PICK c \in Card : c.status = "review" /\ cards' = Append(cards, c)
    BY <1>4 DEF Added
  <2>2. /\ DOMAIN cards = 1 .. Len(cards) /\ Len(cards) \in Nat
        /\ DOMAIN cards' = 1 .. Len(cards) + 1 /\ cards'[Len(cards) + 1] = c
        /\ \A v \in 1 .. Len(cards) : cards'[v] = cards[v]
    BY <1>1, <2>1
  <2>3. Reviewed' = Append(Reviewed, "review")
    <3>1. Len(Reviewed) = Len(cards)
      BY <1>1, <2>2
    <3>2. Append(Reviewed, "review") =
            [v \in 1 .. Len(cards) + 1 |-> IF v = Len(cards) + 1 THEN "review" ELSE Reviewed[v]]
      BY <3>1
    <3> QED
      BY <2>1, <2>2, <3>2
  <2>4. Review!Propose
    BY <1>4, <2>3 DEF Review!Propose
  <2> QED
    BY <2>4 DEF Review!Next
<1>5. ASSUME asked' = asked, NEW v \in DOMAIN cards, NEW verdict \in Verdicts, Decides(v, verdict)
      PROVE  Review!Next
  <2>1. /\ Reviewed[v] = "review" /\ [version |-> v, verdict |-> verdict] \in asked
        /\ DOMAIN cards' = DOMAIN cards
        /\ cards'[v].status = IF verdict = "approve" THEN "approved" ELSE "changes_requested"
        /\ \A w \in DOMAIN cards \ {v} : cards'[w] = cards[w]
    <3> DEFINE to == IF verdict = "approve" THEN "approved" ELSE "changes_requested"
               card == Recorded(cards[v], to)
    <3>1. cards[v] \in Card
      BY <1>1
    <3>2. card.status = to
      BY <3>1 DEF Recorded, Card
    <3>3. cards' = [cards EXCEPT ![v] = card]
      BY <1>5 DEF Decides
    <3> HIDE DEF card
    <3> QED
      BY <1>1, <1>5, <3>2, <3>3 DEF Decides
  <2>2. Reviewed' = [Reviewed EXCEPT ![v] = IF verdict = "approve" THEN "approved" ELSE "returned"]
    BY <1>1, <2>1
  <2>3. Review!Decide(v, verdict)
    BY <1>5, <2>1, <2>2 DEF Review!Decide
  <2> QED
    BY <1>1, <2>3 DEF Review!Next, Verdicts
<1>6. ASSUME asked' = asked, NEW v \in DOMAIN cards, NEW to \in {"exported", "executed"},
             Ships(v, to)
      PROVE  Review!Next \/ Reviewed' = Reviewed
  <2>1. /\ DOMAIN cards' = DOMAIN cards /\ cards'[v].status = to
        /\ \A w \in DOMAIN cards \ {v} : cards'[w] = cards[w]
    BY <1>1, <1>6 DEF Ships, Card
  <2>2. Reviewed' = [Reviewed EXCEPT ![v] = "shipped"]
    BY <1>1, <2>1
  <2>3. CASE cards[v].status = "approved"
    <3>1. Review!Ship(v)
      BY <1>6, <2>2, <2>3 DEF Review!Ship
    <3> QED
      BY <1>1, <3>1 DEF Review!Next
  <2>4. CASE cards[v].status # "approved"
    <3>1. Reviewed[v] = "shipped"
      BY <1>6, <2>4 DEF Ships, Approved
    <3> QED
      BY <2>2, <3>1
  <2> QED
    BY <2>3, <2>4
<1> QED
  BY <1>2, <1>3, <1>4, <1>5, <1>6, NextCards DEF Step

\* Opportunity implements CardReview: versions are only added, each is decided
\* at most once and as a user asked, and ships only once it is approved.
THEOREM CardReviewIsImplemented == Spec => ImplementsCardReview
<1>1. Init => Review!Init
  BY DEF Init, Review!Init
<1>2. IInv /\ [Next]_vars => [Review!Next]_<<Reviewed, asked>>
  BY ReviewStep
<1> QED
  BY <1>1, <1>2, Invariance, PTL DEF Spec, ImplementsCardReview, Review!Spec, Reviewed, Seen

-----------------------------------------------------------------------------
(* Interactions: from the command that stores one through the queue into    *)
(* the workflow's hands, each is in one place.                              *)
Unheard == {"uncommitted", "pending"}
Telling(u) == users[u].op = "tell"
Keeping(u) == users[u].op = "keep"

QueueInv ==
  /\ interactions \in [Interactions -> {"absent", "interpreted"} \cup Unheard]
  /\ queue \in Seq(Interactions)
  /\ \A m \in DOMAIN queue : interactions[queue[m]] \in Unheard /\ hearing # queue[m]
  /\ \A m, n \in DOMAIN queue : queue[m] = queue[n] => m = n
HearingInv ==
  /\ pc \in {"interpret", "apply"} =>
       hearing \in Interactions /\ interactions[hearing] \in Unheard
  /\ pc = "apply" => interactions[hearing] = "pending"
  /\ pc \notin {"interpret", "apply"} => hearing = None
TellersInv ==
  /\ \A u \in Users : Telling(u) =>
       /\ interactions[users[u].interaction] \in Unheard /\ hearing # users[u].interaction
       /\ \A m \in DOMAIN queue : queue[m] # users[u].interaction
  /\ \A u \in Users : Keeping(u) => interactions[users[u].interaction] = "uncommitted"
  /\ \A u, w \in Users :
       (Telling(u) \/ Keeping(u)) /\ (Telling(w) \/ Keeping(w))
         /\ users[u].interaction = users[w].interaction => u = w
HeardInv == QueueInv /\ HearingInv /\ TellersInv

LEMMA HeardWorkflow ==
  ASSUME IInv, HeardInv, Workflow \/ OverBudget \/ GrantBudget \/ ContinueAsNew \/ UNCHANGED vars
  PROVE  HeardInv'
<1> USE DEF HeardInv, stored, control, work, signals
<1>1. UNCHANGED users
  BY DEF Workflow, Start, QuietDone, MapStakeholders, FindContactPaths, EvaluateContactPath,
     VerifyContactPoint, BuildActionCard, BuildAnswered, WakeReview, DrainResearch,
     DrainDecision, RecordDecision, WakeProbe, WakeInteraction, ApplyInterpretation,
     LeaveFollow, CloseOpportunity, WakeBudget, Fail, OverBudget, GrantBudget,
     ContinueAsNew, vars
<1> DEFINE elsewhere == pc' = pc \/ (pc \notin {"interpret", "apply"}
                                       /\ pc' \notin {"interpret", "apply"})
<1>2. ASSUME UNCHANGED <<interactions, queue, hearing>>, elsewhere PROVE HeardInv'
  BY <1>1, <1>2 DEF QueueInv, HearingInv, TellersInv, Telling, Keeping
<1>3. ASSUME UNCHANGED <<interactions, queue>>, hearing' = None,
             pc' \notin {"interpret", "apply"}
      PROVE  HeardInv'
  <2>1. queue \in Seq(Interactions) /\ \A m \in DOMAIN queue : queue[m] # None
    BY OpportunityAssumption DEF QueueInv, None
  <2>2. \A u \in Users : Telling(u) => users[u].interaction \in Interactions
    BY DEF IInv, KindInv, Commanded, Telling, Idle
  <2>3. \A u \in Users : Telling(u) => users[u].interaction # None
    BY <2>2, OpportunityAssumption DEF None
  <2> QED
    BY <1>1, <1>3, <2>1, <2>3 DEF QueueInv, HearingInv, TellersInv, Telling, Keeping
<1>4. CASE Start \/ OverBudget \/ GrantBudget \/ WakeBudget \/ BuildActionCard \/ UNCHANGED vars
  BY <1>2, <1>4 DEF Start, OverBudget, GrantBudget, WakeBudget, BuildActionCard, vars
<1>5. CASE \/ MapStakeholders \/ FindContactPaths \/ EvaluateContactPath
           \/ \E c \in Contacts : VerifyContactPoint(c)
  BY <1>2, <1>5
  DEF MapStakeholders, FindContactPaths, EvaluateContactPath, VerifyContactPoint, Goto, At
<1>6. CASE WakeReview \/ DrainResearch \/ DrainDecision \/ RecordDecision \/ WakeProbe
  BY <1>2, <1>6 DEF WakeReview, DrainResearch, DrainDecision, RecordDecision, WakeProbe, Goto, At
<1>7. CASE BuildAnswered
  <2>1. pc \in Builds
    BY <1>7 DEF BuildAnswered, IInv, AskedInv
  <2> QED
    BY <1>2, <1>7, <2>1 DEF BuildAnswered, Goto, Builds, Following
<1>8. CASE LeaveFollow \/ CloseOpportunity \/ ContinueAsNew
  BY <1>2, <1>8 DEF LeaveFollow, CloseOpportunity, ContinueAsNew, Goto, At
<1>9. CASE Fail
  BY <1>3, <1>9 DEF Fail, Goto
<1>10. CASE QuietDone
  <2>1. CASE pc # "interpret"
    BY <1>2, <1>10, <2>1 DEF QuietDone, At, Goto, Quiet, Following
  <2>2. CASE pc = "interpret"
    <3>1. /\ pc' = "apply" /\ UNCHANGED <<interactions, queue, hearing>>
          /\ interactions[hearing] = "pending"
      BY <1>10, <2>2 DEF QuietDone, At, Goto, Following, Stored, HearingInv, Unheard
    <3> QED
      BY <1>1, <2>2, <3>1 DEF QueueInv, HearingInv, TellersInv, Telling, Keeping
  <2> QED
    BY <2>1, <2>2
<1>11. CASE WakeInteraction
  <2>1. /\ queue \in Seq(Interactions) /\ queue # <<>> /\ pc' = "interpret"
        /\ hearing' = Head(queue) /\ queue' = Tail(queue) /\ UNCHANGED interactions
    BY <1>11 DEF WakeInteraction, Goto, QueueInv
  <2>2. /\ Head(queue) = queue[1] /\ 1 \in DOMAIN queue /\ Head(queue) \in Interactions
        /\ Tail(queue) \in Seq(Interactions)
        /\ \A n \in DOMAIN Tail(queue) :
             n \in Nat /\ n # 0 /\ n + 1 \in DOMAIN queue /\ Tail(queue)[n] = queue[n + 1]
    BY <2>1
  <2>3. \A n \in DOMAIN Tail(queue) : n + 1 # 1 /\ Tail(queue)[n] # queue[1]
    BY <2>2 DEF QueueInv
  <2>4. QueueInv'
    BY <2>1, <2>2, <2>3 DEF QueueInv
  <2>5. HearingInv'
    BY <2>1, <2>2 DEF QueueInv, HearingInv
  <2>6. TellersInv'
    BY <1>1, <2>1, <2>2 DEF TellersInv, Telling, Keeping
  <2> QED
    BY <2>4, <2>5, <2>6
<1>12. CASE ApplyInterpretation
  <2>1. /\ pc' \in {"regenerate", "follow"} /\ hearing' = None /\ UNCHANGED queue
        /\ hearing \in Interactions /\ interactions[hearing] = "pending"
        /\ interactions' = [interactions EXCEPT ![hearing] = "interpreted"]
    BY <1>12 DEF ApplyInterpretation, Goto, At, HearingInv
  <2>2. /\ interactions' \in [Interactions -> {"absent", "interpreted"} \cup Unheard]
        /\ \A i \in Interactions \ {hearing} : interactions'[i] = interactions[i]
    BY <2>1 DEF QueueInv
  <2>3. \A m \in DOMAIN queue : queue[m] \in Interactions \ {hearing} /\ queue[m] # None
    BY OpportunityAssumption DEF QueueInv, None
  <2>4. \A u \in Users : Telling(u) \/ Keeping(u) =>
          users[u].interaction \in Interactions \ {hearing} /\ users[u].interaction # None
    <3>1. \A u \in Users : Telling(u) \/ Keeping(u) => users[u].interaction \in Interactions
      BY DEF IInv, KindInv, Commanded, Telling, Keeping, Idle
    <3> QED
      BY <2>1, <3>1, OpportunityAssumption DEF TellersInv, None
  <2>5. QueueInv' /\ HearingInv'
    BY <2>1, <2>2, <2>3 DEF QueueInv, HearingInv
  <2>6. TellersInv'
    BY <1>1, <2>1, <2>2, <2>4 DEF TellersInv, Telling, Keeping
  <2> QED
    BY <2>5, <2>6
<1> QED
  BY <1>4, <1>5, <1>6, <1>7, <1>8, <1>9, <1>10, <1>11, <1>12 DEF Workflow

LEMMA HeardUser ==
  ASSUME IInv, HeardInv, NEW u \in Users, Request(u) \/ Serve(u) \/ Drop(u)
  PROVE  HeardInv'
<1> USE DEF HeardInv, stored, control, work, signals, Continue
<1>1. users \in [Users -> Commanded] /\ users[u] \in Commanded
  BY DEF IInv, KindInv
<1>2. UNCHANGED <<pc, hearing>>
  BY DEF Request, Serve, Drop, AcceptDecision, ReadCard, ReadExecutable, ReadExportable,
     SignalPause, Archive, AskResearch, StoreInteraction, SetContact, SendDecision, InsertVersion,
     AnnounceVersion, CommitVersion, ExecuteCard, ExportCard, CheckMove, WriteMove,
     TellInteraction, CommitInteraction
\* A user that turns to something else.
<1>3. ASSUME UNCHANGED <<interactions, queue>>, \A w \in Users \ {u} : users'[w] = users[w],
             users'[u] = users[u] \/ users'[u].op \notin {"tell", "keep"}
      PROVE  HeardInv'
  <2>1. QueueInv' /\ HearingInv'
    BY <1>2, <1>3 DEF QueueInv, HearingInv
  <2>2. TellersInv'
    BY <1>2, <1>3 DEF TellersInv, Telling, Keeping
  <2> QED
    BY <2>1, <2>2
<1>4. ASSUME NEW i \in Interactions, NEW k \in Keyed, StoreInteraction(u, i, k) PROVE HeardInv'
  <2>1. /\ interactions[i] = "absent" /\ UNCHANGED queue
        /\ users'[u].op = "tell" /\ users'[u].interaction = i
        /\ \A w \in Users \ {u} : users'[w] = users[w]
    BY <1>1, <1>4 DEF StoreInteraction
  <2>2. /\ interactions' \in [Interactions -> {"absent", "interpreted"} \cup Unheard]
        /\ interactions'[i] \in Unheard
        /\ \A j \in Interactions \ {i} : interactions'[j] = interactions[j]
    BY <1>4 DEF StoreInteraction, QueueInv, Unheard
  <2>3. \A m \in DOMAIN queue : queue[m] \in Interactions \ {i}
    BY <2>1 DEF QueueInv, Unheard
  <2>4. hearing # i
    BY <2>1, OpportunityAssumption DEF HearingInv, Unheard, None
  <2>5. \A w \in Users : Telling(w) \/ Keeping(w) => users[w].interaction \in Interactions \ {i}
    <3>1. \A w \in Users : Telling(w) \/ Keeping(w) => users[w].interaction \in Interactions
      BY <1>1 DEF Commanded, Telling, Keeping, Idle
    <3> QED
      BY <2>1, <3>1 DEF TellersInv, Unheard
  <2>6. QueueInv'
    BY <1>2, <2>1, <2>2, <2>3 DEF QueueInv
  <2>7. HearingInv'
    BY <1>2, <2>2, <2>4 DEF HearingInv
  <2>8. TellersInv'
    BY <1>2, <2>1, <2>2, <2>3, <2>4, <2>5 DEF TellersInv, Telling, Keeping
  <2> QED
    BY <2>6, <2>7, <2>8
<1>5. CASE TellInteraction(u)
  <2> DEFINE i == users[u].interaction
  <2>1. /\ Telling(u) /\ i \in Interactions /\ UNCHANGED interactions
        /\ queue' = Append(queue, i)
        /\ \A w \in Users \ {u} : users'[w] = users[w]
    BY <1>1, <1>5 DEF TellInteraction, Is, Telling, Commanded, Idle
  <2>2. /\ queue \in Seq(Interactions) /\ queue' \in Seq(Interactions)
        /\ DOMAIN queue' = DOMAIN queue \cup {Len(queue) + 1} /\ Len(queue) + 1 \notin DOMAIN queue
        /\ \A m \in DOMAIN queue : queue'[m] = queue[m]
        /\ queue'[Len(queue) + 1] = i
    BY <2>1 DEF QueueInv
  <2>3. /\ interactions[i] \in Unheard /\ hearing # i /\ \A m \in DOMAIN queue : queue[m] # i
    BY <2>1 DEF TellersInv
  <2>4. \/ users'[u] = Idle
        \/ /\ users'[u].op = "keep" /\ users'[u].interaction = i
           /\ interactions[i] = "uncommitted"
    <3>1. CASE Stored(i)
      BY <1>1, <1>5, <3>1 DEF TellInteraction
    <3>2. CASE ~Stored(i)
      <4>1. users[u] \in [op : {"tell", "keep"}, interaction : Interactions]
        BY <1>1, <2>1 DEF Commanded, Telling, Idle
      <4>2. users'[u] = [users[u] EXCEPT !.op = "keep"]
        BY <1>1, <1>5, <3>2 DEF TellInteraction
      <4> QED
        BY <2>3, <3>2, <4>1, <4>2 DEF Stored, Unheard
    <3> QED
      BY <3>1, <3>2
  <2>5. QueueInv'
    BY <1>2, <2>1, <2>2, <2>3 DEF QueueInv
  <2>6. HearingInv'
    BY <1>2, <2>1 DEF HearingInv
  <2>7. \A w \in Users \ {u} : Telling(w) \/ Keeping(w) => users[w].interaction # i
    BY <2>1 DEF TellersInv
  <2>8. TellersInv'
    BY <1>2, <2>1, <2>2, <2>4, <2>7 DEF TellersInv, Telling, Keeping, Idle
  <2> QED
    BY <2>5, <2>6, <2>8
<1>6. CASE CommitInteraction(u)
  <2> DEFINE i == users[u].interaction
  <2>1. /\ Keeping(u) /\ i \in Interactions /\ UNCHANGED queue
        /\ interactions' = [interactions EXCEPT ![i] = "pending"]
        /\ interactions[i] = "uncommitted" /\ users'[u] = Idle
        /\ \A w \in Users \ {u} : users'[w] = users[w]
    BY <1>1, <1>6 DEF CommitInteraction, Is, Keeping, Commanded, Idle, TellersInv
  <2>2. /\ interactions' \in [Interactions -> {"absent", "interpreted"} \cup Unheard]
        /\ interactions'[i] = "pending"
        /\ \A j \in Interactions \ {i} : interactions'[j] = interactions[j]
    BY <2>1 DEF QueueInv, Unheard
  <2>3. \A w \in Users \ {u} : Telling(w) \/ Keeping(w) =>
          users[w].interaction \in Interactions \ {i}
    <3>1. \A w \in Users : Telling(w) \/ Keeping(w) => users[w].interaction \in Interactions
      BY <1>1 DEF Commanded, Telling, Keeping, Idle
    <3> QED
      BY <2>1, <3>1 DEF TellersInv
  <2>4. QueueInv'
    BY <1>2, <2>1, <2>2 DEF QueueInv, Unheard
  <2>5. HearingInv'
    BY <1>2, <2>2 DEF HearingInv, Unheard
  <2>6. TellersInv'
    BY <1>2, <2>1, <2>2, <2>3 DEF TellersInv, Telling, Keeping, Idle
  <2> QED
    BY <2>4, <2>5, <2>6
<1>7. CASE \/ Drop(u) \/ SendDecision(u) \/ InsertVersion(u) \/ AnnounceVersion(u)
           \/ CommitVersion(u) \/ ExecuteCard(u) \/ ExportCard(u) \/ WriteMove(u)
  <2>1. UNCHANGED <<interactions, queue>>
    BY <1>7 DEF Drop, SendDecision, InsertVersion, AnnounceVersion, CommitVersion, ExecuteCard,
       ExportCard, WriteMove
  <2>2. \A w \in Users \ {u} : users'[w] = users[w]
    BY <1>1, <1>7 DEF Drop, SendDecision, InsertVersion, AnnounceVersion, CommitVersion,
       ExecuteCard, ExportCard, WriteMove
  <2>3. users'[u].op \notin {"tell", "keep"}
    <3>1. CASE ~AnnounceVersion(u)
      BY <1>1, <1>7, <3>1 DEF Drop, SendDecision, InsertVersion, CommitVersion, ExecuteCard,
         ExportCard, WriteMove, On, Move, Idle
    <3>2. CASE AnnounceVersion(u)
      <4>1. users[u] \in [op : {"edit", "announce", "commit", "execute", "export"},
                          version : Versions, keyed : BOOLEAN]
        BY <1>1, <3>2 DEF AnnounceVersion, Is, Commanded, Idle
      <4>2. users'[u] = [users[u] EXCEPT !.op = "commit"] \/ users'[u] = Idle
        BY <1>1, <3>2 DEF AnnounceVersion
      <4> QED
        BY <4>1, <4>2 DEF Idle
    <3> QED
      BY <3>1, <3>2
  <2> QED
    BY <1>3, <2>1, <2>2, <2>3
<1>8. CASE CheckMove(u)
  <2>1. UNCHANGED <<interactions, queue>> /\ \A w \in Users \ {u} : users'[w] = users[w]
    BY <1>1, <1>8 DEF CheckMove
  <2>2. users[u] \in [op : {"move", "write"}, to : OpportunityStatus, ships : 0 .. MaxVersions]
    BY <1>1, <1>8 DEF CheckMove, Is, Commanded, Idle
  <2>3. users'[u] = [users[u] EXCEPT !.op = "write"] \/ users'[u] = Idle
    BY <1>1, <1>8 DEF CheckMove
  <2> QED
    BY <1>3, <2>1, <2>2, <2>3 DEF Idle
<1>9. ASSUME Request(u), ~\E i \in Interactions, k \in Keyed : StoreInteraction(u, i, k)
      PROVE  HeardInv'
  <2>1. UNCHANGED <<interactions, queue>>
    BY <1>9 DEF Request, AcceptDecision, ReadCard, ReadExecutable, ReadExportable, SignalPause,
       Archive, AskResearch, SetContact
  <2>2. /\ \A w \in Users \ {u} : users'[w] = users[w]
        /\ users'[u] = users[u] \/ users'[u].op \notin {"tell", "keep"}
    BY <1>1, <1>9 DEF Request, AcceptDecision, ReadCard, ReadExecutable, ReadExportable,
       SignalPause, Archive, AskResearch, SetContact, On, Move
  <2> QED
    BY <1>3, <2>1, <2>2
<1> QED
  BY <1>4, <1>5, <1>6, <1>7, <1>8, <1>9 DEF Serve

LEMMA HeardInvariance == Spec => []HeardInv
<1>1. Init => HeardInv
  BY DEF Init, HeardInv, QueueInv, HearingInv, TellersInv, Telling, Keeping, Idle
<1>2. IInv /\ HeardInv /\ [Next]_vars => HeardInv'
  BY HeardWorkflow, HeardUser DEF Next
<1> QED
  BY <1>1, <1>2, Invariance, PTL DEF Spec

\* An interaction waits for the workflow or is in its hands once, and only
\* before it is interpreted, whatever commands are cut off or come twice.
THEOREM InteractionsWaitOnce == Spec => []HeardOnce
<1>1. HeardInv => HeardOnce
  <2> SUFFICES ASSUME HeardInv PROVE HeardOnce
    OBVIOUS
  <2>1. DOMAIN queue = 1 .. Len(queue)
    BY DEF HeardInv, QueueInv
  <2> QED
    BY <2>1 DEF HeardInv, QueueInv, HearingInv, HeardOnce, Unheard
<1> QED
  BY <1>1, HeardInvariance, PTL

-----------------------------------------------------------------------------
(* With keys, a version is announced before it is committed, so that it is  *)
(* new when it becomes the current one, and only one is on its way.         *)
NoneApproved == \A v \in DOMAIN cards : ~Approved(v)
InReview(v) == v \in DOMAIN cards => cards[v].status = "review"
AfterApproval == {"follow", "probe", "interpret", "apply", "regenerate", "close", "closed"}

KeyedInv ==
  /\ \A u \in Users : users[u].op \in {"edit", "announce"} => users[u].keyed
  /\ \A u \in Users : Is(u, "announce") => users[u].version = Len(cards) + 1
  /\ \A u, w \in Users : Inserting(u) /\ Inserting(w) => u = w
OpenInv ==
  NoneApproved =>
    /\ pc \notin AfterApproval
    /\ pc \in {"review", "drain", "research", "rebuild"} => InReview(current)
    /\ pc = "record" => InReview(held.version)
    /\ answer # 0 => InReview(answer)

LEMMA KeyedWorkflow ==
  ASSUME IInv, KeyedInv, Workflow \/ OverBudget \/ GrantBudget \/ ContinueAsNew \/ UNCHANGED vars
  PROVE  KeyedInv'
<1> USE DEF stored, control, work, signals
<1>1. UNCHANGED users
  BY DEF Workflow, Start, QuietDone, MapStakeholders, FindContactPaths, EvaluateContactPath,
     VerifyContactPoint, BuildActionCard, BuildAnswered, WakeReview, DrainResearch,
     DrainDecision, RecordDecision, WakeProbe, WakeInteraction, ApplyInterpretation,
     LeaveFollow, CloseOpportunity, WakeBudget, Fail, OverBudget, GrantBudget,
     ContinueAsNew, vars
<1>2. Len(cards') = Len(cards) \/ \A u \in Users : ~Is(u, "announce")
  <2>1. CASE BuildActionCard
    BY <2>1 DEF BuildActionCard, NoneInserting, Inserting, KeyedInv, Is
  <2>2. CASE RecordDecision
    BY <2>2 DEF RecordDecision, IInv, KindInv
  <2>3. CASE ~BuildActionCard /\ ~RecordDecision
    <3>1. UNCHANGED cards
      BY <2>3 DEF Workflow, Start, QuietDone, MapStakeholders, FindContactPaths,
         EvaluateContactPath, VerifyContactPoint, BuildAnswered, WakeReview, DrainResearch,
         DrainDecision, WakeProbe, WakeInteraction, ApplyInterpretation, LeaveFollow,
         CloseOpportunity, WakeBudget, Fail, OverBudget, GrantBudget, ContinueAsNew, vars
    <3> QED
      BY <3>1
  <2> QED
    BY <2>1, <2>2, <2>3
<1> QED
  BY <1>1, <1>2 DEF KeyedInv, Inserting, Is

LEMMA KeyedUser ==
  ASSUME Keyed \subseteq {TRUE}, IInv, KeyedInv, NEW u \in Users,
         Request(u) \/ Serve(u) \/ Drop(u)
  PROVE  KeyedInv'
<1> USE DEF stored, control, work, signals, Continue
<1>1. users \in [Users -> Commanded] /\ users[u] \in Commanded /\ cards \in Seq(Card)
  BY DEF IInv, KindInv
\* A user that inserts no version.
<1>2. ASSUME Len(cards') = Len(cards), \A w \in Users \ {u} : users'[w] = users[w],
             \/ users'[u] = users[u] \/ users'[u].op \notin {"edit", "announce", "commit"}
             \/ users'[u].op = "edit" /\ users'[u].keyed
      PROVE  KeyedInv'
  BY <1>2 DEF KeyedInv, Inserting, Is
<1>3. CASE InsertVersion(u)
  <2>1. Reads(u) /\ users[u].keyed
    BY <1>3 DEF InsertVersion, Is, KeyedInv, IInv, ReadsInv
  <2>2. users[u].version = Len(cards) /\ cards' = cards /\ NoneInserting
    BY <1>3, <2>1 DEF InsertVersion
  <2>3. /\ users'[u].op = "announce" /\ users'[u].version = Len(cards) + 1 /\ users'[u].keyed
        /\ \A w \in Users \ {u} : users'[w] = users[w]
    BY <1>1, <1>3, <2>1, <2>2 DEF InsertVersion, On
  <2> QED
    BY <2>2, <2>3 DEF KeyedInv, NoneInserting, Inserting, Is
<1>4. CASE AnnounceVersion(u)
  <2>1. users[u].op = "announce" /\ users[u].keyed /\ cards' = cards
    BY <1>4 DEF AnnounceVersion, Is, KeyedInv
  <2>2. users[u] \in [op : {"edit", "announce", "commit", "execute", "export"},
                      version : Versions, keyed : BOOLEAN]
    BY <1>1, <2>1 DEF Commanded, Idle
  <2>3. users'[u] = [users[u] EXCEPT !.op = "commit"]
    BY <1>1, <1>4, <2>1 DEF AnnounceVersion
  <2>4. users'[u].op = "commit"
    BY <2>2, <2>3
  <2>5. \A w \in Users \ {u} : users'[w] = users[w]
    BY <1>1, <1>4 DEF AnnounceVersion
  <2>6. \A w \in Users \ {u} : ~Inserting(w) /\ users[w].op # "announce"
    BY <2>1 DEF KeyedInv, Inserting
  <2> QED
    BY <2>1, <2>4, <2>5, <2>6 DEF KeyedInv, Inserting, Is
<1>5. CASE CommitVersion(u)
  <2>1. users[u].op = "commit" /\ users'[u].op = "idle"
        /\ \A w \in Users \ {u} : users'[w] = users[w]
    BY <1>1, <1>5 DEF CommitVersion, Is, Idle
  <2>2. \A w \in Users \ {u} : ~Inserting(w) /\ users[w].op # "announce"
    BY <2>1 DEF KeyedInv, Inserting
  <2> QED
    BY <2>1, <2>2 DEF KeyedInv, Inserting, Is
<1>6. CASE Drop(u) \/ SendDecision(u) \/ ExecuteCard(u) \/ ExportCard(u) \/ WriteMove(u)
           \/ CommitInteraction(u)
  <2>1. Len(cards') = Len(cards)
    BY <1>1, <1>6 DEF Drop, SendDecision, ExecuteCard, ExportCard, WriteMove, CommitInteraction,
       Executed
  <2>2. users'[u].op \in {"idle", "move"} /\ \A w \in Users \ {u} : users'[w] = users[w]
    BY <1>1, <1>6 DEF Drop, SendDecision, ExecuteCard, ExportCard, WriteMove, CommitInteraction,
       Move, Idle
  <2> QED
    BY <1>2, <2>1, <2>2
<1>7. CASE CheckMove(u) \/ TellInteraction(u)
  <2>1. cards' = cards /\ \A w \in Users \ {u} : users'[w] = users[w]
    BY <1>1, <1>7 DEF CheckMove, TellInteraction
  <2>2. users'[u].op \in {"idle", "write", "keep"}
    <3>1. \/ users[u] \in [op : {"move", "write"}, to : OpportunityStatus, ships : 0 .. MaxVersions]
          \/ users[u] \in [op : {"tell", "keep"}, interaction : Interactions]
      BY <1>1, <1>7 DEF CheckMove, TellInteraction, Is, Commanded, Idle
    <3>2. \/ users'[u] = [users[u] EXCEPT !.op = "write"] \/ users'[u] = Idle
          \/ users'[u] = [users[u] EXCEPT !.op = "keep"]
      BY <1>1, <1>7 DEF CheckMove, TellInteraction
    <3> QED
      BY <3>1, <3>2 DEF Idle
  <2> QED
    BY <1>2, <2>1, <2>2
<1>8. CASE Request(u)
  <2>1. cards' = cards
    BY <1>8 DEF Request, AcceptDecision, ReadCard, ReadExecutable, ReadExportable, SignalPause,
       Archive, AskResearch, StoreInteraction, SetContact
  <2>2. \A w \in Users \ {u} : users'[w] = users[w]
    BY <1>1, <1>8 DEF Request, AcceptDecision, ReadCard, ReadExecutable, ReadExportable,
       SignalPause, Archive, AskResearch, StoreInteraction, SetContact
  <2>3. CASE \E v \in Versions, k \in Keyed : ReadCard(u, v, k)
    <3>1. PICK v \in Versions : users' = [users EXCEPT ![u] = On("edit", v, TRUE)]
      BY <2>3 DEF ReadCard
    <3>2. users'[u].op = "edit" /\ users'[u].keyed
      BY <1>1, <3>1 DEF On
    <3> QED
      BY <1>2, <2>1, <2>2, <3>2
  <2>4. CASE ~\E v \in Versions, k \in Keyed : ReadCard(u, v, k)
    <3>1. users'[u] = users[u] \/ users'[u].op \notin {"edit", "announce", "commit"}
      BY <1>1, <1>8, <2>4 DEF Request, AcceptDecision, ReadExecutable, ReadExportable,
         SignalPause, Archive, AskResearch, StoreInteraction, SetContact, On, Move
    <3> QED
      BY <1>2, <2>1, <2>2, <3>1
  <2> QED
    BY <2>3, <2>4
<1> QED
  BY <1>3, <1>4, <1>5, <1>6, <1>7, <1>8 DEF Serve

\* Only the workflow's record takes a version out of review before an approval.
LEMMA ReviewKept ==
  ASSUME IInv, [Next]_vars, ~RecordDecision, NoneApproved', NEW v, InReview(v)
  PROVE  InReview(v)'
<1>1. Step /\ Kept /\ cards \in Seq(Card)
  BY NextCards, StepKeeps DEF IInv, KindInv
<1>2. NoneApproved
  BY <1>1 DEF NoneApproved, Kept
<1>3. CASE Same
  BY <1>3 DEF Same, InReview
<1>4. CASE Added
  BY <1>1, <1>4 DEF Added, InReview
<1>5. \A w \in DOMAIN cards, to \in {"exported", "executed"} : ~Ships(w, to)
  BY <1>2 DEF NoneApproved, Ships
<1> QED
  BY <1>1, <1>3, <1>4, <1>5 DEF Step

LEMMA OpenWorkflow ==
  ASSUME IInv, OpenInv, NoneApproved',
         Workflow \/ OverBudget \/ GrantBudget \/ ContinueAsNew \/ UNCHANGED vars
  PROVE  OpenInv'
<1> USE DEF stored, control, work, signals
<1>1. /\ NoneApproved /\ pc \notin AfterApproval
      /\ pc \in {"review", "drain", "research", "rebuild"} => InReview(current)
      /\ pc = "record" => InReview(held.version)
      /\ answer # 0 => InReview(answer) /\ pc \in Builds
  <2>1. NoneApproved
    BY NextCards, StepKeeps DEF NoneApproved, Kept, Next
  <2> QED
    BY <2>1 DEF OpenInv, IInv, AskedInv
<1>2. ASSUME ~RecordDecision, NEW v, InReview(v) PROVE InReview(v)'
  BY <1>2, ReviewKept DEF Next
<1> DEFINE looks == {"review", "drain", "research", "rebuild"}
\* A step before an approval that is not one of those below.
<1>3. ASSUME ~RecordDecision, UNCHANGED <<current, held, answer>>,
             pc' \notin AfterApproval, pc' \in looks => pc \in looks,
             pc' = "record" => pc = "record"
      PROVE  OpenInv'
  BY <1>1, <1>2, <1>3 DEF OpenInv, InReview
<1>4. CASE Start \/ OverBudget \/ GrantBudget \/ WakeBudget \/ UNCHANGED vars
  <2>1. ~RecordDecision /\ UNCHANGED <<pc, current, held, answer>>
    BY <1>1, <1>4 DEF Start, OverBudget, GrantBudget, WakeBudget, vars, RecordDecision, At, Goto,
       UsesAgent, Builds
  <2> QED
    BY <1>1, <1>3, <2>1
<1>5. pc # "record" => ~RecordDecision
  BY DEF RecordDecision, At
<1> USE DEF At, Goto
<1>6. CASE QuietDone
  BY <1>1, <1>3, <1>5, <1>6 DEF QuietDone, Quiet, Following, AfterApproval
<1>7. CASE \/ MapStakeholders \/ FindContactPaths \/ EvaluateContactPath
           \/ \E c \in Contacts : VerifyContactPoint(c)
  <2>1. /\ pc # "record" /\ UNCHANGED <<current, held, answer>>
        /\ pc' \in {"find", "evaluate", "verify", "qualify"}
    BY <1>7 DEF MapStakeholders, FindContactPaths, EvaluateContactPath, VerifyContactPoint
  <2> QED
    BY <1>3, <1>5, <2>1 DEF AfterApproval
<1>8. CASE BuildActionCard
  <2>1. /\ pc \in Builds /\ UNCHANGED <<pc, current, held>> /\ answer' = Len(cards) + 1
        /\ cards'[Len(cards) + 1].status = "review"
    BY <1>8 DEF BuildActionCard, IInv, KindInv
  <2>2. pc # "record"
    BY <2>1 DEF Builds
  <2> QED
    BY <1>1, <1>2, <1>5, <2>1, <2>2 DEF OpenInv, InReview
<1>9. CASE BuildAnswered
  <2>1. /\ pc \in Builds /\ current' = answer /\ answer' = 0 /\ InReview(answer)
        /\ UNCHANGED <<held, cards>>
    BY <1>1, <1>9 DEF BuildAnswered
  <2>2. pc' \in {"review", "drain"}
    BY <1>1, <1>9, <2>1 DEF BuildAnswered, Builds, Following, AfterApproval
  <2> QED
    BY <2>1, <2>2 DEF OpenInv, InReview, AfterApproval
<1>10. CASE WakeReview \/ DrainResearch
  <2>1. /\ pc \in {"review", "drain"} /\ pc' \in {"drain", "research"}
        /\ UNCHANGED <<current, held, answer>>
    BY <1>10 DEF WakeReview, DrainResearch
  <2> QED
    BY <1>3, <1>5, <2>1 DEF AfterApproval
<1>11. CASE DrainDecision
  <2>1. /\ pc = "drain" /\ UNCHANGED <<current, answer, cards>> /\ InReview(current)
        /\ \/ held' = held /\ pc' = "review"
           \/ held'.version = current /\ pc' = "record"
    BY <1>1, <1>11 DEF DrainDecision, Counts
  <2> QED
    BY <1>1, <2>1 DEF OpenInv, InReview, AfterApproval, Builds
<1>12. CASE RecordDecision
  <2>1. answer = 0 /\ answer' = 0 /\ pc' \in {"follow", "revise"}
    BY <1>1, <1>12 DEF RecordDecision, Builds
  <2>2. pc' # "follow"
    <3>1. SUFFICES ASSUME held.verdict = "approve" PROVE FALSE
      BY <1>12 DEF RecordDecision
    <3>2. held \in asked /\ held.version \in DOMAIN cards /\ cards \in Seq(Card)
      BY <1>12 DEF RecordDecision, IInv, KindInv, AskedInv
    <3>3. cards[held.version] \in Card
      BY <3>2
    <3>4. Recorded(cards[held.version], "approved").status = "approved"
      BY <3>3 DEF Recorded, Card
    <3>5. cards' = [cards EXCEPT ![held.version] = Recorded(cards[held.version], "approved")]
      BY <1>12, <3>1 DEF RecordDecision
    <3>6. held.version \in DOMAIN cards' /\ cards'[held.version].status = "approved"
      BY <3>2, <3>4, <3>5
    <3> QED
      BY <3>6 DEF NoneApproved, Approved
  <2> QED
    BY <2>1, <2>2 DEF OpenInv, AfterApproval
<1>13. CASE WakeProbe \/ WakeInteraction \/ ApplyInterpretation \/ ContinueAsNew
            \/ LeaveFollow \/ CloseOpportunity
  BY <1>1, <1>13 DEF WakeProbe, WakeInteraction, ApplyInterpretation, ContinueAsNew, LeaveFollow,
     CloseOpportunity, AfterApproval
<1>14. CASE Fail
  BY <1>1, <1>14 DEF Fail, OpenInv, AfterApproval
<1> QED
  BY <1>4, <1>6, <1>7, <1>8, <1>9, <1>10, <1>11, <1>12, <1>13, <1>14 DEF Workflow

LEMMA OpenUser ==
  ASSUME IInv, KeyedInv, OpenInv, NoneApproved', NEW u \in Users,
         Request(u) \/ Serve(u) \/ Drop(u)
  PROVE  OpenInv'
<1> USE DEF stored, control, work, signals
<1>1. UNCHANGED <<pc, held, answer, status>>
  BY DEF Request, Serve, Drop, AcceptDecision, ReadCard, ReadExecutable, ReadExportable,
     SignalPause, Archive, AskResearch, StoreInteraction, SetContact, SendDecision, InsertVersion,
     AnnounceVersion, CommitVersion, ExecuteCard, ExportCard, CheckMove, WriteMove,
     TellInteraction, CommitInteraction
<1>2. ~RecordDecision
  BY <1>1 DEF RecordDecision, At, Goto
<1>3. NoneApproved
  BY NextCards, StepKeeps DEF NoneApproved, Kept, Next
<1>4. ASSUME NEW v, InReview(v) PROVE InReview(v)'
  BY <1>2, <1>4, ReviewKept DEF Next
<1>5. CASE AnnounceVersion(u)
  <2>1. current' = Len(cards) + 1 /\ cards' = cards
    BY <1>5 DEF AnnounceVersion, KeyedInv
  <2>2. InReview(current)'
    BY <2>1 DEF InReview, IInv, KindInv
  <2> QED
    BY <1>1, <1>3, <1>4, <2>2 DEF OpenInv, InReview
<1>6. CASE ~AnnounceVersion(u)
  <2>1. UNCHANGED current
    BY <1>6 DEF Request, Serve, Drop, AcceptDecision, ReadCard, ReadExecutable, ReadExportable,
       SignalPause, Archive, AskResearch, StoreInteraction, SetContact, SendDecision,
       InsertVersion, CommitVersion, ExecuteCard, ExportCard, CheckMove, WriteMove,
       TellInteraction, CommitInteraction
  <2> QED
    BY <1>1, <1>3, <1>4, <2>1 DEF OpenInv, InReview
<1> QED
  BY <1>5, <1>6

\* As long as requests carry keys, as the web client's do, the workflow never
\* takes up a decision on a version that is no longer in review: edits that are
\* rolled back after they were announced, and decisions of several users on one
\* version, do not fail it.
THEOREM DecisionsFindReview ==
  ASSUME Keyed \subseteq {TRUE}
  PROVE  Spec => []DecisionIsOpen
<1>1. Init => KeyedInv /\ OpenInv
  BY DEF Init, KeyedInv, OpenInv, Inserting, Is, Idle, AfterApproval, InReview
<1>2. IInv /\ KeyedInv /\ [Next]_vars => KeyedInv'
  BY KeyedWorkflow, KeyedUser DEF Next
<1>3. IInv /\ KeyedInv /\ OpenInv /\ [Next]_vars => OpenInv'
  BY OpenWorkflow, OpenUser DEF Next, OpenInv
<1>4. IInv /\ OpenInv => DecisionIsOpen
  BY DEF IInv, AskedInv, OpenInv, DecisionIsOpen, NoneApproved, InReview
<1> QED
  BY <1>1, <1>2, <1>3, <1>4, Invariance, PTL DEF Spec
=============================================================================
