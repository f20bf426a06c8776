------------------------ MODULE ActiveMission_proofs ------------------------
(***************************************************************************)
(* Theorems of ActiveMission, for any users, requests, weeks, sources,     *)
(* contents, number of attempts and faults.  What a transaction has read   *)
(* holds because it is alone while it holds the mission's row.  A proposal *)
(* lists what its refresh stored because an activity whose answer is lost  *)
(* answers from its record with the same changes, so that a refresh which  *)
(* knows its sources' answers knows all it has stored.                     *)
(***************************************************************************)
EXTENDS ActiveMission, TLAPS

Recorded(r, p) == \E k \in records : k.by = r /\ k.part = p
Changes(r) == {x \in snapshots : x.by = r}
ChangesOf(r, s) == {x \in snapshots : x.by = r /\ x.source = s}

Version == [number : Nat, by : Refreshes, lists : SUBSET Stored]
Transaction == [by : Refreshes, part : Parts, read : SUBSET (Contents \cup Nat)]
Answers == [by : Refreshes, part : Parts, answer : SUBSET Stored]

Progress ==
    [at : {"none", "queued", "scope", "parts", "done", "failed"},
     todo : SUBSET Sources, found : SUBSET Stored, tries : [Parts -> 0 .. MaxAttempts - 1]]

KindInv ==
    /\ open \subseteq Transaction /\ records \subseteq Answers
    /\ versions \in Seq(Version)

\* Requests wait in line once, and only until they are served.
Waiting == {"none", "queued"}
QueueInv ==
    /\ mission.at \in Requests => refresh[mission.at].at \notin Waiting
    /\ \A n \in DOMAIN mission.queue : refresh[mission.queue[n]].at = "queued"
    /\ \A m, n \in DOMAIN mission.queue : mission.queue[m] = mission.queue[n] => m = n

\* A transaction holds the row alone, and what it does has not been done.
OpenInv ==
    /\ \A t, u \in open : t = u
    /\ \A t \in open :
         /\ ~Recorded(t.by, t.part)
         /\ refresh[t.by].at \notin {"none", "queued", "done"}
         /\ t.part \in Sources => t.read \subseteq Contents /\ refresh[t.by].at # "scope"
         /\ refresh[t.by].at = "parts" => t.part # "scope"
         /\ t.part = "proposal" =>
              /\ refresh[t.by].at # "scope" /\ refresh[t.by].found = Changes(t.by)
              /\ \A s \in Sources : Recorded(t.by, s)
              /\ refresh[t.by].at = "parts" => refresh[t.by].todo = {}

\* A record's answer is what its activity has stored.
RecordInv ==
    /\ \A k \in records : k.answer = IF k.part \in Sources THEN ChangesOf(k.by, k.part) ELSE {}
    /\ \A x \in snapshots : x.by = None \/ Recorded(x.by, x.source)

\* A refresh has found what the sources that answered have stored.
FoundInv ==
    \A r \in Refreshes :
        /\ refresh[r].at \in {"none", "queued", "scope"} =>
             /\ refresh[r].found = {}
             /\ \A k \in records : k.by = r => k.part = "scope"
        /\ refresh[r].at = "parts" =>
             /\ refresh[r].found = {x \in Changes(r) : x.source \notin refresh[r].todo}
             /\ \A s \in Sources \ refresh[r].todo : Recorded(r, s)

Listed(v) ==
    /\ versions[v].number = v
    /\ Recorded(versions[v].by, "proposal")
    /\ \A s \in Sources : Recorded(versions[v].by, s)
    /\ versions[v].lists = Changes(versions[v].by)
    /\ \A w \in DOMAIN versions : versions[w].by = versions[v].by => w = v
VersionInv == \A v \in DOMAIN versions : Listed(v)

IInv ==
    /\ TypeOK /\ KindInv /\ QueueInv /\ OpenInv /\ ReadsHold
    /\ RecordInv /\ FoundInv /\ VersionInv

-----------------------------------------------------------------------------
\* Refreshes move on while no activity commits: one that waited begins, one
\* that began ends, and the rest keep what they know.
Moved(r) ==
    /\ refresh'[r].found = refresh[r].found /\ refresh'[r].todo = refresh[r].todo
    /\ \/ refresh'[r].at = refresh[r].at
       \/ refresh[r].at \in {"none", "queued"} /\ refresh'[r].at \in {"queued", "scope"}
       \/ refresh'[r].at = "failed"

LEMMA Moving ==
    ASSUME IInv, \A r \in Refreshes : Moved(r),
           open' \subseteq open, UNCHANGED <<snapshots, records, versions>>
    PROVE  KindInv' /\ OpenInv' /\ ReadsHold' /\ RecordInv' /\ FoundInv' /\ VersionInv'
<1> USE DEF IInv
<1>1. KindInv' /\ ReadsHold'
  BY DEF KindInv, ReadsHold, IsStored
<1>2. RecordInv'
  BY DEF RecordInv, Recorded, ChangesOf
<1>3. VersionInv'
  BY DEF VersionInv, Listed, Recorded, Changes
<1>4. OpenInv'
  <2>1. \A t, u \in open' : t = u
    BY DEF OpenInv
  <2>2. ASSUME NEW t \in open'
        PROVE  /\ ~Recorded(t.by, t.part)'
               /\ refresh'[t.by].at \notin {"none", "queued", "done"}
               /\ t.part \in Sources => t.read \subseteq Contents /\ refresh'[t.by].at # "scope"
               /\ refresh'[t.by].at = "parts" => t.part # "scope"
               /\ t.part = "proposal" =>
                    /\ refresh'[t.by].at # "scope" /\ refresh'[t.by].found = Changes(t.by)'
                    /\ \A s \in Sources : Recorded(t.by, s)'
                    /\ refresh'[t.by].at = "parts" => refresh'[t.by].todo = {}
    <3>1. t \in open /\ t.by \in Refreshes
      BY DEF TypeOK
    <3>2. Moved(t.by)
      BY <3>1
    <3> QED
      BY <3>1, <3>2 DEF OpenInv, Moved, Recorded, Changes
  <2> QED
    BY <2>1, <2>2 DEF OpenInv
<1>5. FoundInv'
  <2> SUFFICES ASSUME NEW r \in Refreshes
               PROVE  /\ refresh'[r].at \in {"none", "queued", "scope"} =>
                           /\ refresh'[r].found = {}
                           /\ \A k \in records' : k.by = r => k.part = "scope"
                      /\ refresh'[r].at = "parts" =>
                           /\ refresh'[r].found =
                                {x \in Changes(r)' : x.source \notin refresh'[r].todo}
                           /\ \A s \in Sources \ refresh'[r].todo : Recorded(r, s)'
    BY DEF FoundInv
  <2>1. Moved(r)
    OBVIOUS
  <2> QED
    BY <2>1 DEF FoundInv, Moved, Recorded, Changes
<1> QED
  BY <1>1, <1>2, <1>3, <1>4, <1>5

\* The line moves only in the workflow and by a request.
Orderly(r) ==
    \/ refresh'[r].at = refresh[r].at
    \/ refresh[r].at \notin Waiting /\ refresh'[r].at \notin Waiting

LEMMA SameLine ==
    ASSUME IInv, mission'.queue = mission.queue,
           mission'.at = mission.at \/ mission'.at \notin Requests,
           \A r \in Refreshes : Orderly(r)
    PROVE  QueueInv'
<1>1. \A n \in DOMAIN mission.queue : mission.queue[n] \in Refreshes
  BY DEF IInv, TypeOK, Refreshes
<1>2. Requests \subseteq Refreshes
  BY DEF Refreshes
<1> QED
  BY <1>1, <1>2 DEF IInv, QueueInv, Waiting, Orderly

\* Commands and the timer.
LEMMA CommandInv ==
    ASSUME IInv,
           \/ \E u \in Users : Command(u)
           \/ CompleteMission \/ Reconcile
    PROVE  IInv'
<1> USE DEF IInv, database
<1>1. TypeOK'
  <2>1. ASSUME NEW u \in Users, ReadMission(u) PROVE TypeOK'
    BY <2>1 DEF ReadMission, TypeOK, Idle
  <2>2. ASSUME NEW u \in Users, Send(u) PROVE TypeOK'
    <3>1. mission' = mission
          \/ \E paused \in BOOLEAN : mission' = [mission EXCEPT !.paused = paused]
      BY <2>2 DEF Send
    <3>2. user' \in [Users -> [command : {"none", "pause", "resume"},
                              step : {"none", "send", "write"}]]
      BY <2>2 DEF Send, TypeOK, Idle
    <3> QED
      BY <2>2, <3>1, <3>2 DEF Send, TypeOK
  <2>3. ASSUME NEW u \in Users, WriteMission(u) PROVE TypeOK'
    BY <2>3 DEF WriteMission, TypeOK, Idle
  <2>4. CASE CompleteMission
    BY <2>4 DEF CompleteMission, TypeOK
  <2>5. CASE Reconcile
    BY <2>5 DEF Reconcile, TypeOK, Terminal
  <2> QED
    BY <2>1, <2>2, <2>3, <2>4, <2>5 DEF Command
<1>2. UNCHANGED <<refresh, snapshots, records, versions, open>>
      /\ mission'.queue = mission.queue /\ mission'.at = mission.at
  <2>1. ASSUME NEW u \in Users, Command(u)
        PROVE  /\ UNCHANGED <<refresh, database>>
               /\ mission'.queue = mission.queue /\ mission'.at = mission.at
    BY <2>1 DEF Command, ReadMission, Send, WriteMission, TypeOK
  <2>2. CASE CompleteMission \/ Reconcile
    BY <2>2 DEF CompleteMission, Reconcile, TypeOK
  <2> QED
    BY <2>1, <2>2
<1>3. \A r \in Refreshes : Moved(r) /\ Orderly(r)
  BY <1>2 DEF Moved, Orderly
<1>4. QueueInv'
  BY <1>2, <1>3, SameLine
<1> QED
  BY <1>1, <1>2, <1>3, <1>4, Moving

-----------------------------------------------------------------------------
\* The workflow takes the next request, which has waited, or none.
NextState(m) ==
    /\ m \in [status : {"RUNNING", "COMPLETED", "FAILED"},
              at : {"idle", "pausing", "held", "resuming", "completing"} \cup Requests,
              paused : BOOLEAN, complete : BOOLEAN, queue : Seq(Requests)]
    /\ \/ m.queue = mission.queue /\ m.at \notin Requests
       \/ /\ mission.queue # <<>> /\ m.queue = Tail(mission.queue)
          /\ m.at = Head(mission.queue)

LEMMA DrainedNext == ASSUME IInv PROVE NextState(Drained(mission))
<1>1. mission \in [status : {"RUNNING", "COMPLETED", "FAILED"},
                  at : {"idle", "pausing", "held", "resuming", "completing"} \cup Requests,
                  paused : BOOLEAN, complete : BOOLEAN, queue : Seq(Requests)]
  BY DEF IInv, TypeOK
<1>2. CASE mission.queue # <<>>
  <2>1. Head(mission.queue) \in Requests /\ Tail(mission.queue) \in Seq(Requests)
    BY <1>1, <1>2
  <2> QED
    BY <1>1, <1>2, <2>1 DEF Drained, NextState
<1>3. CASE mission.queue = <<>>
  BY <1>1, <1>3, ActiveMissionAssumption DEF Drained, NextState
<1> QED
  BY <1>2, <1>3

LEMMA SetAt ==
    ASSUME IInv, NEW r \in Refreshes,
           NEW at \in {"none", "queued", "scope", "parts", "done", "failed"},
           refresh' = [refresh EXCEPT ![r].at = at]
    PROVE  /\ refresh' \in [Refreshes -> Progress]
           /\ refresh'[r] = [refresh[r] EXCEPT !.at = at]
           /\ refresh'[r].at = at /\ refresh'[r].found = refresh[r].found
           /\ refresh'[r].todo = refresh[r].todo
           /\ \A q \in Refreshes \ {r} : refresh'[q] = refresh[q]
<1>1. refresh \in [Refreshes -> Progress]
  BY DEF IInv, TypeOK, Progress
<1>2. refresh[r] \in Progress
  BY <1>1
<1>3. [refresh[r] EXCEPT !.at = at] \in Progress
  BY <1>2 DEF Progress
<1> QED
  BY <1>1, <1>2, <1>3 DEF Progress

LEMMA GoesInv ==
    ASSUME IInv, NEW m, NextState(m), Goes(m),
           row' \in {"running", "paused"} \cup Terminal, UNCHANGED <<user, database, faults>>
    PROVE  IInv'
<1> USE DEF IInv, database
<1>1. CASE m.at \notin Requests
  <2>1. /\ mission' = m /\ refresh' = refresh /\ m.queue = mission.queue
        /\ m.at \notin Requests
    <3>1. mission.queue # <<>> => Head(mission.queue) \in Requests
      BY DEF TypeOK
    <3> QED
      BY <1>1, <3>1 DEF Goes, NextState
  <2>2. TypeOK'
    BY <2>1 DEF TypeOK, NextState
  <2>3. \A r \in Refreshes : Moved(r) /\ Orderly(r)
    BY <2>1 DEF Moved, Orderly
  <2>4. QueueInv'
    BY <2>1, <2>3, SameLine
  <2> QED
    BY <2>2, <2>3, <2>4, Moving
<1>2. CASE m.at \in Requests
  <2> DEFINE line == mission.queue
  <2>1. /\ mission' = m /\ line \in Seq(Requests) /\ line # <<>>
        /\ m.queue = Tail(line) /\ m.at = Head(line)
        /\ refresh' = [refresh EXCEPT ![m.at].at = "scope"]
    BY <1>2 DEF Goes, NextState, TypeOK
  <2>2. refresh[m.at].at = "queued"
    BY <2>1 DEF QueueInv
  <2>3. m.at \in Refreshes
    BY <1>2 DEF Refreshes
  <2>4. /\ \A r \in Refreshes \ {m.at} : refresh'[r] = refresh[r]
        /\ refresh'[m.at] = [refresh[m.at] EXCEPT !.at = "scope"]
        /\ refresh \in [Refreshes -> Progress] /\ refresh' \in [Refreshes -> Progress]
    BY <2>1, <2>3, SetAt DEF TypeOK, Progress
  <2>5. TypeOK'
    BY <2>1, <2>4 DEF TypeOK, NextState, Progress
  <2>6. QueueInv'
    <3>1. /\ DOMAIN Tail(line) = 1 .. Len(line) - 1 /\ DOMAIN line = 1 .. Len(line)
          /\ Len(line) \in Nat
          /\ \A n \in 1 .. Len(line) - 1 : Tail(line)[n] = line[n + 1]
          /\ Head(line) = line[1]
      BY <2>1
    <3>2. ASSUME NEW n \in 1 .. Len(line) - 1
          PROVE  refresh'[Tail(line)[n]].at = "queued"
      <4>1. n + 1 \in DOMAIN line /\ 1 \in DOMAIN line /\ n + 1 # 1
        BY <3>1
      <4>2. line[n + 1] # m.at /\ refresh[line[n + 1]].at = "queued"
        BY <2>1, <3>1, <4>1 DEF QueueInv
      <4>3. line[n + 1] \in Refreshes
        BY <2>1, <4>1 DEF Refreshes
      <4> QED
        BY <2>4, <3>1, <4>2, <4>3
    <3>3. ASSUME NEW i \in 1 .. Len(line) - 1, NEW n \in 1 .. Len(line) - 1,
                 Tail(line)[i] = Tail(line)[n]
          PROVE  i = n
      <4>1. i + 1 \in DOMAIN line /\ n + 1 \in DOMAIN line
        BY <3>1
      <4> QED
        BY <3>1, <3>3, <4>1 DEF QueueInv
    <3> QED
      BY <2>1, <2>3, <2>4, <3>1, <3>2, <3>3 DEF QueueInv, Waiting, Progress
  <2>7. \A r \in Refreshes : Moved(r)
    <3>1. Moved(m.at)
      BY <2>2, <2>3, <2>4 DEF Moved, Progress
    <3> QED
      BY <2>4, <3>1 DEF Moved
  <2> QED
    BY <2>5, <2>6, <2>7, Moving
<1> QED
  BY <1>1, <1>2

LEMMA WorkflowInv == ASSUME IInv, Workflow PROVE IInv'
<1> USE DEF IInv, database
<1>1. mission \in [status : {"RUNNING", "COMPLETED", "FAILED"},
                  at : {"idle", "pausing", "held", "resuming", "completing"} \cup Requests,
                  paused : BOOLEAN, complete : BOOLEAN, queue : Seq(Requests)]
  BY DEF TypeOK
<1>2. /\ NextState(Drained(mission))
      /\ NextState([mission EXCEPT !.at = "pausing"]) /\ NextState([mission EXCEPT !.at = "held"])
      /\ NextState([mission EXCEPT !.at = "resuming"])
  BY <1>1, DrainedNext, ActiveMissionAssumption DEF NextState
<1>3. row \in {"running", "paused"} \cup Terminal
  BY DEF TypeOK
\* What leaves the refreshes and the line alone.
<1>4. ASSUME refresh' = refresh, UNCHANGED <<user, database>>, faults' \in 0 .. MaxFaults,
             row' \in {"running", "paused"} \cup Terminal,
             NEW status \in {"COMPLETED", "FAILED"}, mission' = [mission EXCEPT !.status = status]
      PROVE  IInv'
  <2>1. TypeOK'
    BY <1>1, <1>4 DEF TypeOK
  <2>2. \A r \in Refreshes : Moved(r) /\ Orderly(r)
    BY <1>4 DEF Moved, Orderly
  <2>3. QueueInv'
    BY <1>1, <1>4, <2>2, SameLine
  <2> QED
    BY <1>4, <2>1, <2>2, <2>3, Moving
<1>5. CASE Wake
  BY <1>2, <1>3, <1>5, GoesInv DEF Wake
<1>6. CASE WakeHeld
  BY <1>2, <1>3, <1>6, GoesInv DEF WakeHeld
<1>7. CASE RefreshReturns
  <2>1. CASE Goes(Drained(mission))
    BY <1>2, <1>3, <1>7, <2>1, GoesInv DEF RefreshReturns
  <2>2. CASE mission' = [mission EXCEPT !.status = "FAILED"] /\ UNCHANGED refresh
    <3>1. faults' \in 0 .. MaxFaults /\ UNCHANGED <<row, user, database>>
      BY <1>7 DEF RefreshReturns, TypeOK
    <3> QED
      BY <1>3, <1>4, <2>2, <3>1
  <2> QED
    BY <1>7, <2>1, <2>2 DEF RefreshReturns
<1>8. CASE UpdateMissionState
  <2>1. /\ mission.at \in {"pausing", "resuming", "completing"}
        /\ row' \in {"running", "paused"} \cup Terminal /\ UNCHANGED <<user, database>>
    BY <1>8 DEF UpdateMissionState, StatusOf, Terminal
  <2>2. CASE faults' = faults /\ mission.at = "pausing" /\ Goes([mission EXCEPT !.at = "held"])
    BY <1>2, <2>1, <2>2, GoesInv
  <2>3. CASE faults' = faults /\ mission.at = "resuming" /\ Goes(Drained(mission))
    BY <1>2, <2>1, <2>3, GoesInv
  <2>4. CASE faults' = faults /\ mission.at = "completing"
             /\ Goes([mission EXCEPT !.status = "COMPLETED"])
    <3>1. mission' = [mission EXCEPT !.status = "COMPLETED"] /\ refresh' = refresh
      BY <1>1, <2>4, ActiveMissionAssumption DEF Goes
    <3> QED
      BY <1>4, <2>1, <2>4, <3>1 DEF TypeOK
  <2>5. CASE faults' = faults + 1 /\ mission' = [mission EXCEPT !.status = "FAILED"]
             /\ faults < MaxFaults /\ UNCHANGED refresh
    <3>1. faults' \in 0 .. MaxFaults
      BY <2>5, ActiveMissionAssumption DEF TypeOK
    <3> QED
      BY <1>4, <2>1, <2>5, <3>1
  <2> QED
    BY <1>8, <2>1, <2>2, <2>3, <2>4, <2>5 DEF UpdateMissionState
<1> QED
  BY <1>5, <1>6, <1>7, <1>8 DEF Workflow

\* Terminated, the workflow takes along a refresh it waits for.
LEMMA MissionFailsInv == ASSUME IInv, MissionFails PROVE IInv'
<1> USE DEF IInv, database
<1>1. /\ UNCHANGED <<row, user, database>> /\ faults' \in 0 .. MaxFaults
      /\ mission' = [mission EXCEPT !.status = "FAILED"]
  BY ActiveMissionAssumption DEF MissionFails, TypeOK
<1>2. CASE refresh' = refresh
  <2>1. TypeOK'
    BY <1>1, <1>2 DEF TypeOK
  <2>2. \A r \in Refreshes : Moved(r) /\ Orderly(r)
    BY <1>2 DEF Moved, Orderly
  <2>3. QueueInv'
    BY <1>1, <2>2, SameLine DEF TypeOK
  <2> QED
    BY <1>1, <2>1, <2>2, <2>3, Moving
<1>3. CASE refresh' # refresh
  <2> DEFINE r == mission.at
  <2>1. /\ r \in Refreshes /\ refresh' = [refresh EXCEPT ![r].at = "failed"]
    BY <1>3 DEF MissionFails, Refreshes
  <2>2. /\ refresh' \in [Refreshes -> Progress] /\ refresh'[r].at = "failed"
        /\ refresh'[r].found = refresh[r].found /\ refresh'[r].todo = refresh[r].todo
        /\ \A q \in Refreshes \ {r} : refresh'[q] = refresh[q]
    BY <2>1, SetAt
  <2>3. TypeOK'
    BY <1>1, <2>2 DEF TypeOK, Progress
  <2>4. refresh[r].at \notin Waiting
    BY <1>3 DEF MissionFails, QueueInv
  <2>5. \A q \in Refreshes : Moved(q) /\ Orderly(q)
    BY <2>2, <2>4 DEF Moved, Orderly, Waiting
  <2>6. QueueInv'
    BY <1>1, <2>5, SameLine DEF TypeOK
  <2> QED
    BY <1>1, <2>3, <2>5, <2>6, Moving
<1> QED
  BY <1>2, <1>3

LEMMA RequestInv == ASSUME IInv, NEW r \in Requests, RequestRefresh(r) PROVE IInv'
<1> USE DEF IInv, database
<1> DEFINE line == mission.queue
<1>1. /\ mission' = [mission EXCEPT !.queue = Append(line, r)] /\ line \in Seq(Requests)
      /\ refresh' = [refresh EXCEPT ![r].at = "queued"] /\ refresh[r].at = "none"
      /\ UNCHANGED <<row, user, database, faults>> /\ r \in Refreshes
  BY DEF RequestRefresh, TypeOK, Unasked, Refreshes
<1>2. /\ refresh' \in [Refreshes -> Progress] /\ refresh'[r].at = "queued"
      /\ refresh'[r].found = refresh[r].found /\ refresh'[r].todo = refresh[r].todo
      /\ \A q \in Refreshes \ {r} : refresh'[q] = refresh[q]
  BY <1>1, SetAt
<1>3. TypeOK'
  <2>1. Append(line, r) \in Seq(Requests)
    BY <1>1
  <2>2. mission' \in [status : {"RUNNING", "COMPLETED", "FAILED"},
                     at : {"idle", "pausing", "held", "resuming", "completing"} \cup Requests,
                     paused : BOOLEAN, complete : BOOLEAN, queue : Seq(Requests)]
    BY <1>1, <2>1 DEF TypeOK
  <2> QED
    BY <1>1, <1>2, <2>2 DEF TypeOK, Progress
<1>4. \A q \in Refreshes : Moved(q)
  BY <1>1, <1>2 DEF Moved
<1>5. QueueInv'
  <2>1. /\ DOMAIN Append(line, r) = 1 .. Len(line) + 1 /\ DOMAIN line = 1 .. Len(line)
        /\ Len(line) \in Nat
        /\ \A n \in 1 .. Len(line) : Append(line, r)[n] = line[n] /\ line[n] \in Refreshes
        /\ Append(line, r)[Len(line) + 1] = r
    BY <1>1 DEF Refreshes
  <2>2. \A n \in 1 .. Len(line) : line[n] # r
    BY <1>1, <2>1 DEF QueueInv
  <2>3. mission'.queue = Append(line, r) /\ mission'.at = mission.at
    BY <1>1 DEF TypeOK
  <2>4. mission'.at \in Requests => refresh'[mission'.at].at \notin Waiting
    <3>1. mission.at \in Requests => mission.at \in Refreshes /\ mission.at # r
      BY <1>1 DEF QueueInv, Refreshes, Waiting
    <3> QED
      BY <1>2, <2>3, <3>1 DEF QueueInv
  <2>5. \A n \in 1 .. Len(line) + 1 : refresh'[Append(line, r)[n]].at = "queued"
    BY <1>2, <2>1, <2>2 DEF QueueInv
  <2>6. \A m, n \in 1 .. Len(line) + 1 : Append(line, r)[m] = Append(line, r)[n] => m = n
    <3>1. \A n \in 1 .. Len(line) + 1 : n \in 1 .. Len(line) \/ n = Len(line) + 1
      BY <2>1
    <3> QED
      BY <2>1, <2>2, <3>1 DEF QueueInv
  <2> QED
    BY <2>1, <2>3, <2>4, <2>5, <2>6 DEF QueueInv
<1> QED
  BY <1>1, <1>3, <1>4, <1>5, Moving

LEMMA StartWeekInv == ASSUME IInv, NEW r \in Weeks, StartWeek(r) PROVE IInv'
<1> USE DEF IInv, database
<1>1. /\ refresh' = [refresh EXCEPT ![r].at = "scope"] /\ refresh[r].at = "none"
      /\ UNCHANGED <<row, mission, user, database, faults>> /\ r \in Refreshes
  BY DEF StartWeek, TypeOK, Unasked, Refreshes
<1>2. /\ refresh' \in [Refreshes -> Progress] /\ refresh'[r].at = "scope"
      /\ refresh'[r].found = refresh[r].found /\ refresh'[r].todo = refresh[r].todo
      /\ \A q \in Refreshes \ {r} : refresh'[q] = refresh[q]
  BY <1>1, SetAt
<1>3. TypeOK'
  BY <1>1, <1>2 DEF TypeOK, Progress
<1>4. \A q \in Refreshes : Moved(q)
  BY <1>1, <1>2 DEF Moved
<1>5. QueueInv'
  <2>1. \A n \in DOMAIN mission.queue : mission.queue[n] \in Refreshes \ {r}
    BY <1>1, ActiveMissionAssumption DEF TypeOK, Refreshes
  <2>2. mission.at \in Requests => mission.at \in Refreshes \ {r}
    BY <1>1, ActiveMissionAssumption DEF Refreshes
  <2> QED
    BY <1>1, <1>2, <2>1, <2>2 DEF QueueInv
<1> QED
  BY <1>1, <1>3, <1>4, <1>5, Moving

-----------------------------------------------------------------------------
\* An attempt that is not answered leaves what the refresh knows.
LEMMA NotAnsweredMoves ==
    ASSUME IInv, NEW r \in Refreshes, NEW p \in Parts, NotAnswered(r, p),
           refresh[r].at \notin Waiting
    PROVE  /\ refresh' \in [Refreshes -> Progress] /\ faults' \in 0 .. MaxFaults
           /\ \A q \in Refreshes : Moved(q) /\ Orderly(q)
           /\ \A q \in Refreshes : refresh'[q].at \in {refresh[q].at, "failed"}
<1> DEFINE again == [refresh[r] EXCEPT !.tries[p] = @ + 1]
           ended == [refresh[r] EXCEPT !.at = "failed"]
<1>1. refresh \in [Refreshes -> Progress] /\ refresh[r] \in Progress
  BY DEF IInv, TypeOK, Progress
<1>2. faults' \in 0 .. MaxFaults
  BY ActiveMissionAssumption DEF NotAnswered, IInv, TypeOK
<1>3. ended \in Progress /\ ended.at = "failed" /\ ended.found = refresh[r].found
      /\ ended.todo = refresh[r].todo
  BY <1>1 DEF Progress
<1>4. /\ refresh[r].tries[p] + 1 < MaxAttempts => again \in Progress
      /\ again.at = refresh[r].at /\ again.found = refresh[r].found
      /\ again.todo = refresh[r].todo
  <2>1. refresh[r].tries \in [Parts -> 0 .. MaxAttempts - 1]
    BY <1>1 DEF Progress
  <2>2. refresh[r].tries[p] + 1 < MaxAttempts =>
          [refresh[r].tries EXCEPT ![p] = @ + 1] \in [Parts -> 0 .. MaxAttempts - 1]
    BY <2>1, ActiveMissionAssumption
  <2> QED
    BY <1>1, <2>2 DEF Progress
<1>5. CASE refresh[r].tries[p] + 1 < MaxAttempts
  <2>1. refresh' = [refresh EXCEPT ![r].tries[p] = @ + 1]
    BY <1>5 DEF NotAnswered
  <2>2. refresh' = [refresh EXCEPT ![r] = again]
    BY <1>1, <2>1 DEF Progress
  <2>3. refresh'[r] = again /\ \A q \in Refreshes \ {r} : refresh'[q] = refresh[q]
    BY <1>1, <2>2
  <2>4. refresh' \in [Refreshes -> Progress]
    BY <1>1, <1>4, <1>5, <2>2
  <2> QED
    BY <1>2, <1>4, <1>5, <2>3, <2>4 DEF Moved, Orderly
<1>6. CASE ~(refresh[r].tries[p] + 1 < MaxAttempts)
  <2>1. refresh' = [refresh EXCEPT ![r].at = "failed"]
    BY <1>6 DEF NotAnswered
  <2>2. /\ refresh' \in [Refreshes -> Progress] /\ refresh'[r] = ended
        /\ \A q \in Refreshes \ {r} : refresh'[q] = refresh[q]
    BY <2>1, SetAt
  <2> QED
    BY <1>2, <1>3, <2>2 DEF Moved, Orderly, Waiting
<1> QED
  BY <1>5, <1>6

LEMMA AttemptFailsInv == ASSUME IInv, NEW t \in open, AttemptFails(t) PROVE IInv'
<1> USE DEF IInv, AttemptFails
<1>1. t.by \in Refreshes /\ t.part \in Parts /\ refresh[t.by].at \notin Waiting
  BY DEF TypeOK, OpenInv, Waiting
<1>2. /\ refresh' \in [Refreshes -> Progress] /\ faults' \in 0 .. MaxFaults
      /\ \A q \in Refreshes : Moved(q) /\ Orderly(q)
  BY <1>1, NotAnsweredMoves
<1>3. TypeOK'
  BY <1>2 DEF TypeOK, Progress
<1>4. QueueInv'
  BY <1>2, SameLine
<1> QED
  BY <1>2, <1>3, <1>4, Moving

\* A transaction begins when the row is free, at something that is not done.
LEMMA BeginInv == ASSUME IInv, NEW r \in Refreshes, NEW p \in Parts, Begin(r, p) PROVE IInv'
<1> USE DEF IInv
<1>1. /\ p \in Scheduled(r) /\ ~Recorded(r, p) /\ open = {}
      /\ UNCHANGED <<row, mission, user, snapshots, records, versions, faults>>
  BY DEF Begin, Known, Recorded, RowFree
<1>2. /\ refresh[r].at \in {"scope", "parts"}
      /\ p = "scope" <=> refresh[r].at = "scope"
      /\ p = "proposal" => refresh[r].at = "parts" /\ refresh[r].todo = {}
  BY <1>1, ActiveMissionAssumption DEF Scheduled, TypeOK
<1>3. CASE open' = open /\ refresh' = [refresh EXCEPT ![r].at = "failed"]
  <2>1. /\ refresh' \in [Refreshes -> Progress] /\ refresh'[r].at = "failed"
        /\ refresh'[r].found = refresh[r].found /\ refresh'[r].todo = refresh[r].todo
        /\ \A q \in Refreshes \ {r} : refresh'[q] = refresh[q]
    BY <1>3, SetAt
  <2>2. TypeOK'
    BY <1>1, <1>3, <2>1 DEF TypeOK, Progress
  <2>3. \A q \in Refreshes : Moved(q) /\ Orderly(q)
    BY <1>2, <2>1 DEF Moved, Orderly, Waiting
  <2>4. QueueInv'
    BY <1>1, <2>3, SameLine
  <2> QED
    BY <1>1, <1>3, <2>2, <2>3, <2>4, Moving
<1>4. ASSUME refresh' = refresh, NEW read \in Reads(p),
             open' = open \cup {[by |-> r, part |-> p, read |-> read]}
      PROVE  IInv'
  <2> DEFINE t == [by |-> r, part |-> p, read |-> read]
  <2>1. open' = {t} /\ t.by = r /\ t.part = p /\ t.read = read
    BY <1>1, <1>4
  <2>2. /\ read \in SUBSET (Contents \cup Nat)
        /\ p \in Sources => read \subseteq Contents /\ \A c \in read : ~IsStored(p, c)
        /\ p = "proposal" => read = {Len(versions)}
    BY ActiveMissionAssumption DEF Reads, KindInv
  <2>3. TypeOK' /\ KindInv'
    BY <1>1, <1>4, <2>1, <2>2 DEF TypeOK, KindInv, Transaction
  <2>4. ReadsHold'
    BY <1>1, <2>1, <2>2 DEF ReadsHold, IsStored
  <2>5. p = "proposal" => /\ refresh[r].found = Changes(r)
                          /\ \A s \in Sources : Recorded(r, s)
    BY <1>2 DEF FoundInv
  <2>6. OpenInv'
    <3>1. /\ ~Recorded(r, p)' /\ Changes(r)' = Changes(r)
          /\ \A s \in Sources : Recorded(r, s)' = Recorded(r, s)
      BY <1>1 DEF Recorded, Changes
    <3>2. p \in Sources => p # "scope" /\ p # "proposal"
      BY ActiveMissionAssumption
    <3> QED
      BY <1>2, <1>4, <2>1, <2>2, <2>5, <3>1, <3>2 DEF OpenInv
  <2>7. QueueInv' /\ RecordInv'
    BY <1>1, <1>4 DEF QueueInv, RecordInv, Recorded, ChangesOf
  <2>8. FoundInv' /\ VersionInv'
    BY <1>1, <1>4 DEF FoundInv, VersionInv, Listed, Recorded, Changes
  <2> QED
    BY <2>3, <2>4, <2>6, <2>7, <2>8
<1> QED
  BY <1>3, <1>4 DEF Begin

-----------------------------------------------------------------------------
\* An answer moves its refresh, unless that has ended, and no other.
LEMMA AnsweredMoves ==
    ASSUME IInv, NEW r \in Refreshes, NEW p \in Parts, NEW answer \in SUBSET Stored,
           Answered(r, p, answer), refresh[r].at \notin Waiting
    PROVE  /\ refresh' \in [Refreshes -> Progress] /\ \A q \in Refreshes : Orderly(q)
           /\ \A q \in Refreshes \ {r} : refresh'[q] = refresh[q]
           /\ refresh[r].at = "failed" => refresh'[r] = refresh[r]
           /\ refresh[r].at # "failed" /\ p = "scope" =>
                refresh'[r].at = "parts" /\ refresh'[r].todo = Sources
                  /\ refresh'[r].found = refresh[r].found
           /\ refresh[r].at # "failed" /\ p = "proposal" => refresh'[r].at = "done"
           /\ refresh[r].at # "failed" /\ p \in Sources =>
                refresh'[r].at = refresh[r].at /\ refresh'[r].todo = refresh[r].todo \ {p}
                  /\ refresh'[r].found = refresh[r].found \cup answer
<1>1. refresh \in [Refreshes -> Progress] /\ refresh[r] \in Progress
  BY DEF IInv, TypeOK, Progress
<1>2. p \in Sources => p # "scope" /\ p # "proposal"
  BY ActiveMissionAssumption
<1>3. CASE refresh[r].at = "failed"
  BY <1>1, <1>3 DEF Answered, Orderly
<1>4. CASE refresh[r].at # "failed" /\ p = "scope"
  <2> DEFINE next == [refresh[r] EXCEPT !.at = "parts", !.todo = Sources]
  <2>1. refresh' = [refresh EXCEPT ![r] = next]
    BY <1>1, <1>4 DEF Answered, Progress
  <2>2. /\ next \in Progress /\ next.at = "parts" /\ next.todo = Sources
        /\ next.found = refresh[r].found
    BY <1>1 DEF Progress
  <2> QED
    BY <1>1, <1>2, <1>4, <2>1, <2>2 DEF Orderly, Waiting
<1>5. CASE refresh[r].at # "failed" /\ p = "proposal"
  <2>1. refresh' = [refresh EXCEPT ![r].at = "done"]
    BY <1>5 DEF Answered
  <2> QED
    BY <1>2, <1>5, <2>1, SetAt DEF Orderly, Waiting
<1>6. CASE refresh[r].at # "failed" /\ p \in Sources
  <2> DEFINE next == [refresh[r] EXCEPT !.todo = refresh[r].todo \ {p},
                                        !.found = refresh[r].found \cup answer]
  <2>1. refresh' = [refresh EXCEPT ![r] = next]
    BY <1>1, <1>2, <1>6 DEF Answered, Progress
  <2>2. /\ next \in Progress /\ next.at = refresh[r].at
        /\ next.todo = refresh[r].todo \ {p} /\ next.found = refresh[r].found \cup answer
    BY <1>1 DEF Progress
  <2> QED
    BY <1>1, <1>2, <1>6, <2>1, <2>2 DEF Orderly
<1> QED
  BY <1>3, <1>4, <1>5, <1>6 DEF Parts

\* What has been committed is answered again, and with the same changes.
LEMMA RepeatInv == ASSUME IInv, NEW r \in Refreshes, NEW p \in Parts, Repeat(r, p) PROVE IInv'
<1> USE DEF IInv, database
<1>1. PICK k \in Known(r, p) : Answered(r, p, k.answer)
  BY DEF Repeat
<1>2. /\ k \in records /\ k.by = r /\ k.part = p /\ Recorded(r, p) /\ k.answer \in SUBSET Stored
      /\ p \in Scheduled(r) /\ UNCHANGED <<row, mission, user, database, faults>>
  BY <1>1 DEF Repeat, Known, Recorded, KindInv, Answers
<1>3. /\ refresh[r].at \in {"scope", "parts"}
      /\ p = "scope" <=> refresh[r].at = "scope"
      /\ p = "proposal" => refresh[r].at = "parts" /\ refresh[r].todo = {}
      /\ p \in Sources => p \in refresh[r].todo
  BY <1>2, ActiveMissionAssumption DEF Scheduled, TypeOK
<1> DEFINE scoped == refresh'[r].at = "parts" /\ refresh'[r].todo = Sources
                       /\ refresh'[r].found = refresh[r].found
           learned == refresh'[r].at = "parts" /\ refresh'[r].todo = refresh[r].todo \ {p}
                       /\ refresh'[r].found = refresh[r].found \cup ChangesOf(r, p)
<1>4. /\ refresh' \in [Refreshes -> Progress] /\ \A q \in Refreshes : Orderly(q)
      /\ \A q \in Refreshes \ {r} : refresh'[q] = refresh[q]
      /\ p = "scope" => scoped
      /\ p = "proposal" => refresh'[r].at = "done"
      /\ p \in Sources => learned
  <2>1. refresh[r].at \notin Waiting /\ refresh[r].at # "failed"
    BY <1>3 DEF Waiting
  <2>2. p \in Sources => k.answer = ChangesOf(r, p)
    BY <1>2 DEF RecordInv
  <2>3. p \in Sources => refresh[r].at = "parts"
    BY <1>3, ActiveMissionAssumption
  <2> QED
    BY <1>1, <1>2, <2>1, <2>2, <2>3, AnsweredMoves
<1>5. TypeOK' /\ KindInv' /\ ReadsHold'
  BY <1>2, <1>4 DEF TypeOK, KindInv, ReadsHold, IsStored, Progress
<1>6. QueueInv'
  BY <1>2, <1>4, SameLine
<1>7. RecordInv' /\ VersionInv'
  <2>1. UNCHANGED <<snapshots, records, versions>>
    BY <1>2
  <2>2. RecordInv'
    BY <2>1 DEF RecordInv, Recorded, ChangesOf
  <2>3. VersionInv'
    BY <2>1 DEF VersionInv, Listed, Recorded, Changes
  <2> QED
    BY <2>2, <2>3
<1>8. OpenInv'
  <2> SUFFICES ASSUME NEW t \in open
               PROVE  /\ ~Recorded(t.by, t.part)
                      /\ refresh'[t.by].at \notin {"none", "queued", "done"}
                      /\ t.part \in Sources => t.read \subseteq Contents /\ refresh'[t.by].at # "scope"
                      /\ refresh'[t.by].at = "parts" => t.part # "scope"
                      /\ t.part = "proposal" =>
                           /\ refresh'[t.by].at # "scope" /\ refresh'[t.by].found = Changes(t.by)
                           /\ \A s \in Sources : Recorded(t.by, s)
                           /\ refresh'[t.by].at = "parts" => refresh'[t.by].todo = {}
    BY <1>2 DEF OpenInv, Recorded, Changes
  <2>1. t.by \in Refreshes /\ t.part \in Parts
    BY DEF TypeOK
  <2>2. CASE t.by # r
    BY <1>4, <2>1, <2>2 DEF OpenInv
  <2>3. CASE t.by = r
    <3>1. t.part # p /\ ~Recorded(r, t.part)
      BY <1>2, <2>3 DEF OpenInv
    <3>2. refresh[r].at = "parts" /\ p \in Sources /\ t.part \in Sources
      <4>1. refresh[r].at # "scope"
        BY <1>3, <2>1, <2>3, <3>1 DEF OpenInv, Parts
      <4>2. p # "scope" /\ refresh[r].at = "parts" /\ t.part # "scope"
        BY <1>3, <2>3, <4>1 DEF OpenInv
      <4>3. refresh[r].todo # {}
        BY <1>3, <2>1, <2>3, <3>1, <4>2 DEF FoundInv, Parts
      <4>4. t.part # "proposal" /\ p # "proposal"
        BY <1>3, <2>3, <4>2, <4>3 DEF OpenInv
      <4> QED
        BY <2>1, <4>2, <4>4 DEF Parts
    <3> QED
      BY <1>4, <2>3, <3>1, <3>2, ActiveMissionAssumption DEF OpenInv
  <2> QED
    BY <2>2, <2>3
<1>9. FoundInv'
  <2>1. /\ records' = records
        /\ \A q \in Refreshes : Changes(q)' = Changes(q)
        /\ \A q, s : Recorded(q, s)' = Recorded(q, s)
    BY <1>2 DEF Changes, Recorded
  <2>2. /\ refresh'[r].at \notin {"none", "queued", "scope"}
        /\ refresh'[r].at = "parts" =>
             /\ refresh'[r].found = {x \in Changes(r) : x.source \notin refresh'[r].todo}
             /\ \A s \in Sources \ refresh'[r].todo : Recorded(r, s)
    <3>1. CASE p = "scope"
      <4>1. \A x \in Changes(r) : x.source \in Sources
        BY DEF Changes, TypeOK, Stored
      <4>2. refresh[r].found = {}
        BY <1>3, <3>1 DEF FoundInv
      <4> QED
        BY <1>4, <3>1, <4>1, <4>2
    <3>2. CASE p = "proposal"
      BY <1>4, <3>2
    <3>3. CASE p \in Sources
      <4>1. refresh[r].at = "parts"
        BY <1>3, <3>3, ActiveMissionAssumption
      <4>2. refresh[r].found = {x \in Changes(r) : x.source \notin refresh[r].todo}
            /\ \A s \in Sources \ refresh[r].todo : Recorded(r, s)
        BY <4>1 DEF FoundInv
      <4> QED
        BY <1>2, <1>3, <1>4, <3>3, <4>2 DEF Changes, ChangesOf
    <3> QED
      BY <3>1, <3>2, <3>3 DEF Parts
  <2> QED
    BY <1>4, <2>1, <2>2 DEF FoundInv
<1> QED
  BY <1>5, <1>6, <1>7, <1>8, <1>9

-----------------------------------------------------------------------------
\* What a transaction stores is new, its own, and what its record says.
Stores(t) ==
    /\ open = {t} /\ open' = {}
    /\ t \in Transaction /\ ~Recorded(t.by, t.part)
    /\ Answer(t) \in SUBSET Stored
    /\ \A x \in Answer(t) : t.part \in Sources /\ x.by = t.by /\ x.source = t.part
    /\ \A x \in snapshots : x.by = t.by => x.source # t.part
    /\ snapshots' = snapshots \cup Answer(t)
    /\ \A r \in Refreshes \ {t.by} : Changes(r)' = Changes(r)
    /\ Changes(t.by)' = Changes(t.by) \cup Answer(t)
    /\ records' = records \cup {[by |-> t.by, part |-> t.part, answer |-> Answer(t)]}
    /\ \A r, p : Recorded(r, p)' <=> Recorded(r, p) \/ (r = t.by /\ p = t.part)

LEMMA CommitStores == ASSUME IInv, NEW t \in open, Commit(t) PROVE Stores(t)
<1> USE DEF IInv, Commit
<1>1. open = {t} /\ open' = {} /\ t \in Transaction /\ ~Recorded(t.by, t.part)
  BY DEF OpenInv, KindInv
<1>2. /\ Answer(t) \in SUBSET Stored
      /\ \A x \in Answer(t) : t.part \in Sources /\ x.by = t.by /\ x.source = t.part
  BY <1>1 DEF Answer, Stored, OpenInv, Transaction
<1>3. \A x \in snapshots : x.by = t.by => x.source # t.part
  BY <1>1, ActiveMissionAssumption DEF RecordInv, Recorded, Transaction, Refreshes
<1>4. snapshots' = snapshots \cup Answer(t)
      /\ records' = records \cup {[by |-> t.by, part |-> t.part, answer |-> Answer(t)]}
  OBVIOUS
<1>5. /\ \A r \in Refreshes \ {t.by} : Changes(r)' = Changes(r)
      /\ Changes(t.by)' = Changes(t.by) \cup Answer(t)
  BY <1>2, <1>4 DEF Changes
<1>6. \A r, p : Recorded(r, p)' <=> Recorded(r, p) \/ (r = t.by /\ p = t.part)
  <2> DEFINE record == [by |-> t.by, part |-> t.part, answer |-> Answer(t)]
  <2>1. \A k : k \in records' <=> k \in records \/ k = record
    BY <1>4
  <2>2. record.by = t.by /\ record.part = t.part
    OBVIOUS
  <2> HIDE DEF record
  <2> QED
    BY <2>1, <2>2 DEF Recorded
<1> QED
  BY <1>1, <1>2, <1>3, <1>4, <1>5, <1>6 DEF Stores

\* Its refresh then learns the answer, or tries again what is recorded now.
LEMMA CommitInv == ASSUME IInv, NEW t \in open, Commit(t) PROVE IInv'
<1> USE DEF IInv
<1> DEFINE r == t.by
           p == t.part
<1>1. Stores(t)
  BY CommitStores
<1>2. /\ r \in Refreshes /\ p \in Parts /\ UNCHANGED <<row, mission, user>>
      /\ refresh[r].at \notin {"none", "queued", "done"}
  BY <1>1 DEF Stores, Transaction, OpenInv, Commit
<1>3. refresh[r].at \in {"scope", "parts", "failed"}
  BY <1>2 DEF TypeOK
<1>4. /\ refresh[r].at = "scope" => p = "scope"
      /\ refresh[r].at = "parts" => p # "scope"
  BY <1>2 DEF OpenInv, Parts
\* The refresh fails or stays, or it goes on.
<1> DEFINE moved == /\ refresh'[r].at \in {refresh[r].at, "failed"}
                    /\ refresh'[r].todo = refresh[r].todo
                    /\ refresh'[r].found = refresh[r].found
           scoped == /\ refresh'[r].at = "parts" /\ refresh'[r].todo = Sources
                     /\ refresh'[r].found = refresh[r].found
           learned == /\ refresh'[r].at = "parts" /\ refresh'[r].todo = refresh[r].todo \ {p}
                      /\ refresh'[r].found = refresh[r].found \cup Answer(t)
<1>5. /\ refresh' \in [Refreshes -> Progress] /\ faults' \in 0 .. MaxFaults
      /\ \A q \in Refreshes : Orderly(q)
      /\ \A q \in Refreshes \ {r} : refresh'[q].at \in {refresh[q].at, "failed"}
           /\ refresh'[q].todo = refresh[q].todo /\ refresh'[q].found = refresh[q].found
      /\ \/ moved
         \/ p = "scope" /\ refresh[r].at = "scope" /\ scoped
         \/ p = "proposal" /\ refresh'[r].at = "done"
         \/ p \in Sources /\ refresh[r].at = "parts" /\ learned
  <2>1. refresh[r].at \notin Waiting
    BY <1>2 DEF Waiting
  <2>2. CASE NotAnswered(r, p)
    BY <1>2, <2>1, <2>2, NotAnsweredMoves DEF Moved, Waiting
  <2>3. CASE Answered(r, p, Answer(t)) /\ UNCHANGED faults
    <3>1. p \in Sources => refresh[r].at \in {"parts", "failed"}
      BY <1>3, <1>4, ActiveMissionAssumption
    <3>2. Answer(t) \in SUBSET Stored /\ faults' \in 0 .. MaxFaults
      BY <1>1, <2>3 DEF Stores, TypeOK
    <3>3. /\ refresh' \in [Refreshes -> Progress] /\ \A q \in Refreshes : Orderly(q)
          /\ \A q \in Refreshes \ {r} : refresh'[q] = refresh[q]
          /\ refresh[r].at = "failed" => refresh'[r] = refresh[r]
          /\ refresh[r].at # "failed" /\ p = "scope" => scoped
          /\ refresh[r].at # "failed" /\ p = "proposal" => refresh'[r].at = "done"
          /\ refresh[r].at = "parts" /\ p \in Sources => learned
      BY <1>2, <2>1, <2>3, <3>2, AnsweredMoves
    <3> QED
      BY <1>2, <1>3, <1>4, <3>1, <3>2, <3>3 DEF Parts
  <2> QED
    BY <2>2, <2>3 DEF Commit
<1>6. QueueInv'
  BY <1>2, <1>5, SameLine
<1>7. OpenInv' /\ ReadsHold'
  BY <1>1 DEF Stores, OpenInv, ReadsHold
<1>8. RecordInv'
  <2>1. ASSUME NEW k \in records'
        PROVE  k.answer = IF k.part \in Sources THEN ChangesOf(k.by, k.part)' ELSE {}
    <3>1. CASE k \in records
      <4>1. ~(k.by = r /\ k.part = p)
        BY <1>1, <3>1 DEF Stores, Recorded
      <4>2. ChangesOf(k.by, k.part)' = ChangesOf(k.by, k.part)
        BY <1>1, <4>1 DEF Stores, ChangesOf
      <4> QED
        BY <3>1, <4>2 DEF RecordInv
    <3>2. CASE k = [by |-> r, part |-> p, answer |-> Answer(t)]
      <4>1. p \in Sources => ChangesOf(r, p)' = Answer(t)
        BY <1>1 DEF Stores, ChangesOf
      <4>2. p \notin Sources => Answer(t) = {}
        BY DEF Answer
      <4> QED
        BY <3>2, <4>1, <4>2
    <3> QED
      BY <1>1, <2>1, <3>1, <3>2 DEF Stores
  <2>2. ASSUME NEW x \in snapshots'
        PROVE  x.by = None \/ Recorded(x.by, x.source)'
    BY <1>1 DEF Stores, RecordInv
  <2> QED
    BY <2>1, <2>2 DEF RecordInv
<1>9. FoundInv'
  <2>1. ASSUME NEW q \in Refreshes \ {r}
        PROVE  /\ refresh'[q].at \in {"none", "queued", "scope"} =>
                    /\ refresh'[q].found = {}
                    /\ \A k \in records' : k.by = q => k.part = "scope"
               /\ refresh'[q].at = "parts" =>
                    /\ refresh'[q].found = {x \in Changes(q)' : x.source \notin refresh'[q].todo}
                    /\ \A s \in Sources \ refresh'[q].todo : Recorded(q, s)'
    BY <1>1, <1>5 DEF FoundInv, Stores
  <2>2. refresh'[r].at \in {"none", "queued", "scope"} =>
          /\ refresh'[r].found = {}
          /\ \A k \in records' : k.by = r => k.part = "scope"
    <3>1. refresh'[r].at \in {"none", "queued", "scope"} => moved /\ refresh[r].at = "scope"
      BY <1>3, <1>5
    <3>2. refresh[r].at = "scope" => /\ p = "scope" /\ refresh[r].found = {}
                                     /\ \A k \in records : k.by = r => k.part = "scope"
      BY <1>2, <1>4 DEF FoundInv
    <3> QED
      BY <1>1, <3>1, <3>2 DEF Stores
  <2>3. refresh'[r].at = "parts" =>
          /\ refresh'[r].found = {x \in Changes(r)' : x.source \notin refresh'[r].todo}
          /\ \A s \in Sources \ refresh'[r].todo : Recorded(r, s)'
    <3>1. refresh[r].at = "parts" =>
            /\ refresh[r].found = {x \in Changes(r) : x.source \notin refresh[r].todo}
            /\ \A s \in Sources \ refresh[r].todo : Recorded(r, s)
      BY <1>2 DEF FoundInv
    <3>2. CASE moved
      <4>1. refresh[r].at = "parts" /\ p \in Sources => p \in refresh[r].todo
        BY <1>1, <3>1 DEF Stores
      <4>2. refresh'[r].at = "parts" => refresh[r].at = "parts"
        BY <3>2
      <4> QED
        BY <1>1, <3>1, <3>2, <4>1, <4>2 DEF Stores
    <3>3. CASE p = "scope" /\ refresh[r].at = "scope" /\ scoped
      <4>1. p \notin Sources /\ Answer(t) = {} /\ refresh[r].found = {}
        BY <1>2, <3>3, ActiveMissionAssumption DEF Answer, FoundInv
      <4>2. \A x \in Changes(r)' : x.source \in Sources
        BY <1>1, <4>1 DEF Stores, Changes, TypeOK, Stored
      <4> QED
        BY <3>3, <4>1, <4>2
    <3>4. CASE p \in Sources /\ refresh[r].at = "parts" /\ learned
      BY <1>1, <3>1, <3>4 DEF Stores, Changes
    <3> QED
      BY <1>5, <3>2, <3>3, <3>4
  <2> QED
    BY <1>2, <2>1, <2>2, <2>3 DEF FoundInv
<1>10. versions' \in Seq(Version) /\ VersionInv'
  <2>1. CASE p # "proposal"
    <3>1. versions' = versions
      BY <2>1 DEF Commit
    <3>2. ASSUME NEW v \in DOMAIN versions
          PROVE  Changes(versions[v].by)' = Changes(versions[v].by)
      <4>1. versions[v].by \in Refreshes
        BY DEF TypeOK
      <4>2. versions[v].by = r => p \notin Sources
        BY <1>1 DEF VersionInv, Listed, Stores
      <4>3. p \notin Sources => Answer(t) = {}
        BY DEF Answer
      <4> QED
        BY <1>1, <3>1, <4>1, <4>2, <4>3 DEF Stores
    <3>3. VersionInv'
      BY <1>1, <3>1, <3>2 DEF VersionInv, Listed, Stores
    <3> QED
      BY <3>1, <3>3 DEF KindInv
  <2>2. CASE p = "proposal"
    <3> DEFINE v0 == NewVersion(t)
               last == Len(versions)
    <3>1. /\ versions' = Append(versions, v0) /\ versions \in Seq(Version)
          /\ v0.by = r /\ v0.number = 1 + last /\ v0.lists = Changes(r) /\ v0 \in Version
      <4>1. refresh[r].found = Changes(r) /\ t.read = {last} /\ last \in Nat
        BY <2>2 DEF OpenInv, ReadsHold, KindInv
      <4>2. Changes(r) \in SUBSET Stored
        BY DEF Changes, TypeOK
      <4> QED
        BY <1>2, <2>2, <4>1, <4>2 DEF Commit, NewVersion, KindInv, Version
    <3>2. /\ versions' \in Seq(Version) /\ DOMAIN versions' = 1 .. last + 1
          /\ DOMAIN versions = 1 .. last /\ last \in Nat /\ versions'[last + 1] = v0
          /\ \A v \in 1 .. last : versions'[v] = versions[v]
      BY <3>1
    <3>3. Answer(t) = {} /\ \A q \in Refreshes : Changes(q)' = Changes(q)
      BY <1>1, <2>2, ActiveMissionAssumption DEF Answer, Stores
    <3>4. Recorded(r, "proposal")' /\ \A s \in Sources : Recorded(r, s)'
      BY <1>1, <2>2 DEF OpenInv, Stores
    <3>5. ASSUME NEW v \in 1 .. last
          PROVE  versions[v].by # r /\ versions[v].by \in Refreshes
      BY <1>1, <2>2, <3>2 DEF VersionInv, Listed, Stores, TypeOK
    <3>6. ASSUME NEW v \in 1 .. last
          PROVE  Listed(v)'
      <4>1. /\ versions'[v] = versions[v] /\ versions[v].number = v
            /\ Recorded(versions[v].by, "proposal")
            /\ \A s \in Sources : Recorded(versions[v].by, s)
            /\ versions[v].lists = Changes(versions[v].by)
            /\ \A w \in DOMAIN versions : versions[w].by = versions[v].by => w = v
        BY <3>2 DEF VersionInv, Listed
      <4>2. \A w \in DOMAIN versions' : w \in 1 .. last \/ w = last + 1
        BY <3>2
      <4>3. \A q, s : Recorded(q, s) => Recorded(q, s)'
        BY <1>1 DEF Stores
      <4> QED
        BY <3>1, <3>2, <3>3, <3>5, <4>1, <4>2, <4>3 DEF Listed
    <3>7. /\ versions'[last + 1].number = last + 1
          /\ versions'[last + 1].lists = Changes(r)' /\ versions'[last + 1].by = r
          /\ \A w \in DOMAIN versions' : versions'[w].by = r => w = last + 1
      BY <1>2, <3>1, <3>2, <3>3, <3>5
    <3>8. ASSUME NEW v \in DOMAIN versions'
          PROVE  Listed(v)'
      <4>1. CASE v \in 1 .. last
        BY <3>6, <4>1
      <4>2. CASE v = last + 1
        BY <3>4, <3>7, <4>2 DEF Listed
      <4> QED
        BY <3>2, <4>1, <4>2
    <3> QED
      BY <3>2, <3>8 DEF VersionInv, Listed
  <2> QED
    BY <2>1, <2>2
<1>11. KindInv'
  <2>1. open' \subseteq Transaction
    BY <1>1 DEF Stores
  <2>2. [by |-> r, part |-> p, answer |-> Answer(t)] \in Answers
    BY <1>1, <1>2 DEF Stores, Answers
  <2>3. records' \subseteq Answers
    BY <1>1, <2>2 DEF Stores, KindInv
  <2> QED
    BY <1>10, <2>1, <2>3 DEF KindInv
<1>12. TypeOK'
  <2>1. /\ snapshots' \subseteq Stored
        /\ \A u \in open' : u.by \in Refreshes /\ u.part \in Parts
        /\ \A k \in records' : k.by \in Refreshes /\ k.part \in Parts
    BY <1>1, <1>11 DEF Stores, TypeOK, KindInv, Answers
  <2>2. \A v \in DOMAIN versions' :
            versions'[v].by \in Refreshes /\ versions'[v].lists \subseteq Stored
    <3>1. \A v \in DOMAIN versions' : versions'[v] \in Version
      BY <1>10
    <3> QED
      BY <3>1 DEF Version
  <2> QED
    BY <1>2, <1>5, <2>1, <2>2 DEF TypeOK, Progress
<1> QED
  BY <1>6, <1>7, <1>8, <1>9, <1>10, <1>11, <1>12

-----------------------------------------------------------------------------
LEMMA InitInv == Init => IInv
<1> SUFFICES ASSUME Init PROVE IInv
  OBVIOUS
<1> USE ActiveMissionAssumption DEF Init, FirstSnapshots
<1>1. TypeOK
  <2>1. /\ Unasked.at = "none" /\ Unasked.todo = {} /\ Unasked.found = {}
        /\ Unasked.tries \in [Parts -> 0 .. MaxAttempts - 1]
    BY DEF Unasked
  <2>2. refresh \in [Refreshes ->
           [at : {"none", "queued", "scope", "parts", "done", "failed"},
            todo : SUBSET Sources, found : SUBSET Stored,
            tries : [Parts -> 0 .. MaxAttempts - 1]]]
    BY <2>1 DEF Unasked
  <2>3. snapshots \subseteq Stored
    BY DEF Stored
  <2> QED
    BY <2>2, <2>3 DEF TypeOK, Idle
<1>2. KindInv /\ QueueInv /\ OpenInv /\ ReadsHold
  BY DEF KindInv, QueueInv, OpenInv, ReadsHold
<1>3. RecordInv
  BY DEF RecordInv
<1>4. FoundInv
  BY DEF FoundInv, Unasked
<1>5. VersionInv
  BY DEF VersionInv, Listed
<1> QED
  BY <1>1, <1>2, <1>3, <1>4, <1>5 DEF IInv

LEMMA StepInv == IInv /\ [Next]_vars => IInv'
<1> SUFFICES ASSUME IInv, [Next]_vars PROVE IInv'
  OBVIOUS
<1>1. CASE \/ \E u \in Users : Command(u)
           \/ CompleteMission \/ Reconcile
  BY <1>1, CommandInv
<1>2. CASE \E r \in Requests : RequestRefresh(r)
  BY <1>2, RequestInv
<1>3. CASE Workflow
  BY <1>3, WorkflowInv
<1>4. CASE MissionFails
  BY <1>4, MissionFailsInv
<1>5. CASE \E r \in Weeks : StartWeek(r)
  BY <1>5, StartWeekInv
<1>6. ASSUME NEW r \in Refreshes, Attempt(r) PROVE IInv'
  BY <1>6, BeginInv, RepeatInv DEF Attempt
<1>7. ASSUME NEW t \in open, Commit(t) \/ AttemptFails(t) PROVE IInv'
  BY <1>7, CommitInv, AttemptFailsInv
<1>8. CASE UNCHANGED vars
  <2>1. UNCHANGED <<row, mission, user, snapshots, refresh, open, records, versions, faults>>
    BY <1>8 DEF vars, database
  <2>2. TypeOK' /\ KindInv' /\ QueueInv' /\ ReadsHold'
    BY <2>1 DEF IInv, TypeOK, KindInv, QueueInv, ReadsHold, IsStored
  <2>3. OpenInv' /\ RecordInv' /\ FoundInv'
    BY <2>1 DEF IInv, OpenInv, RecordInv, FoundInv, Recorded, Changes, ChangesOf
  <2>4. VersionInv'
    BY <2>1 DEF IInv, VersionInv, Listed, Recorded, Changes
  <2> QED
    BY <2>2, <2>3, <2>4 DEF IInv
<1> QED
  BY <1>1, <1>2, <1>3, <1>4, <1>5, <1>6, <1>7, <1>8 DEF Next

LEMMA Invariance == Spec => []IInv
  BY InitInv, StepInv, PTL DEF Spec

\* Rows, the workflow, refreshes and what they have stored keep their kinds.
THEOREM TypeCorrect == Spec => []TypeOK
  BY Invariance, PTL DEF IInv

\* When an activity of a refresh writes, what it has read of the mission's
\* snapshots and proposals is still so, however many refreshes run: the next
\* number is free, and no other has stored the same change.
THEOREM ReadsStand == Spec => []ReadsHold
  BY Invariance, PTL DEF IInv

\* Each version of the refresh proposal is numbered by its place, is the only
\* one of its refresh and lists all that refresh has stored and nothing else,
\* whatever answers were lost and whatever attempts were repeated.
THEOREM ProposalsList == Spec => []ProposalListsChanges
<1>1. IInv => ProposalListsChanges
  BY DEF IInv, VersionInv, Listed, ProposalListsChanges, Changes
<1> QED
  BY <1>1, Invariance, PTL

-----------------------------------------------------------------------------
(* ActiveMission implements ChangeReports: a change is found, and a refresh   *)
(* reports, when the transaction commits; nothing else is seen of it.         *)

\* The page says one thing at a time.
OneReading == \A t \in open : t.part \in Sources => \E c \in Contents : t.read \subseteq {c}

LEMMA OneReadingStep == IInv /\ OneReading /\ [Next]_vars => OneReading'
<1> SUFFICES ASSUME IInv, OneReading, [Next]_vars PROVE OneReading'
  OBVIOUS
<1>1. CASE open' \subseteq open
  BY <1>1 DEF OneReading
<1>2. ASSUME NEW r \in Refreshes, NEW p \in Parts, Begin(r, p) PROVE OneReading'
  <2>1. CASE row \in Terminal
    BY <1>2, <2>1 DEF Begin, OneReading
  <2>2. CASE row \notin Terminal
    <3>1. PICK read \in Reads(p) : open' = open \cup {[by |-> r, part |-> p, read |-> read]}
      BY <1>2, <2>2 DEF Begin
    <3>2. p \in Sources => \E c \in Contents : read \subseteq {c}
      BY ActiveMissionAssumption DEF Reads
    <3> QED
      BY <3>1, <3>2 DEF OneReading
  <2> QED
    BY <2>1, <2>2
<1>3. CASE \E u \in Users : Command(u)
  BY <1>1, <1>3 DEF Command, ReadMission, Send, WriteMission, database
<1>4. CASE CompleteMission \/ MissionFails \/ Reconcile \/ Workflow
  BY <1>1, <1>4 DEF CompleteMission, MissionFails, Reconcile, Workflow, Wake, WakeHeld,
                    RefreshReturns, UpdateMissionState, database
<1>5. ASSUME NEW r \in Refreshes, RequestRefresh(r) \/ StartWeek(r) PROVE OneReading'
  BY <1>1, <1>5 DEF RequestRefresh, StartWeek, database
<1>6. ASSUME NEW r \in Refreshes, NEW p \in Parts, Repeat(r, p) PROVE OneReading'
  BY <1>1, <1>6 DEF Repeat, database
<1>7. ASSUME NEW t \in open, Commit(t) \/ AttemptFails(t) PROVE OneReading'
  BY <1>1, <1>7 DEF Commit, AttemptFails
<1>8. CASE UNCHANGED vars
  BY <1>1, <1>8 DEF vars, database
<1> QED
  BY <1>2, <1>3, <1>4, <1>5, <1>6, <1>7, <1>8 DEF Next, Attempt, Refreshes

\* A refresh that has its proposal has a record of it and of all its sources.
LEMMA ReportedIsRecorded ==
    ASSUME IInv, NEW r \in Refreshes, Reports!Reported(r)
    PROVE  Recorded(r, "proposal") /\ \A s \in Sources : Recorded(r, s)
BY DEF Reports!Reported, IInv, VersionInv, Listed

LEMMA CommitReports ==
    ASSUME IInv, OneReading, NEW t \in open, Commit(t)
    PROVE  [Reports!Next]_<<snapshots, versions>>
<1>1. t.by \in Refreshes /\ t.part \in Parts /\ ~Recorded(t.by, t.part)
  BY DEF IInv, KindInv, Transaction, OpenInv
<1>2. CASE t.part \in Sources
  <2>1. ~Reports!Reported(t.by)
    BY <1>1, <1>2, ReportedIsRecorded
  <2>2. t.part # "proposal" /\ UNCHANGED versions
    BY <1>2, ActiveMissionAssumption DEF Commit
  <2>3. snapshots' = snapshots \cup {[source |-> t.part, content |-> c, by |-> t.by] : c \in t.read}
    BY <1>2 DEF Commit, Answer
  <2>4. CASE t.read = {}
    BY <2>2, <2>3, <2>4
  <2>5. CASE t.read # {}
    <3>1. PICK c \in Contents : t.read = {c}
      BY <1>2, <2>5 DEF OneReading
    <3>2. \A x \in snapshots : ~(x.source = t.part /\ x.content = c)
      BY <1>2, <3>1 DEF IInv, ReadsHold, IsStored
    <3>3. snapshots' = snapshots \cup {[source |-> t.part, content |-> c, by |-> t.by]}
      BY <2>3, <3>1
    <3>4. Reports!Find(t.by, t.part, c)
      BY <2>1, <2>2, <3>2, <3>3 DEF Reports!Find
    <3> QED
      BY <1>1, <1>2, <3>1, <3>4 DEF Reports!Next
  <2> QED
    BY <2>4, <2>5
<1>3. CASE t.part = "proposal"
  <2>1. ~Reports!Reported(t.by)
    BY <1>1, <1>3, ReportedIsRecorded
  <2>2. UNCHANGED snapshots
    BY <1>3, ActiveMissionAssumption DEF Commit, Answer
  <2>3. versions \in Seq(Version) /\ Len(versions) \in Nat
    BY DEF IInv, KindInv
  <2>4. t.read = {Len(versions)} /\ refresh[t.by].found = Changes(t.by)
    BY <1>3 DEF IInv, ReadsHold, OpenInv
  <2>5. NewVersion(t) = [number |-> Len(versions) + 1, by |-> t.by,
                         lists |-> {x \in snapshots : x.by = t.by}]
    <3>1. (CHOOSE n \in t.read : TRUE) = Len(versions)
      BY <2>4
    <3>2. 1 + Len(versions) = Len(versions) + 1
      BY <2>3
    <3> QED
      BY <2>4, <3>1, <3>2 DEF NewVersion, Changes
  <2>6. versions' = Append(versions, NewVersion(t))
    BY <1>3 DEF Commit
  <2> QED
    BY <1>1, <2>1, <2>2, <2>5, <2>6 DEF Reports!Next, Reports!Report
<1>4. CASE t.part = "scope"
  BY <1>4, ActiveMissionAssumption DEF Commit, Answer
<1> QED
  BY <1>1, <1>2, <1>3, <1>4 DEF Parts

LEMMA ReportsStep ==
    IInv /\ OneReading /\ [Next]_vars => [Reports!Next]_<<snapshots, versions>>
<1> SUFFICES ASSUME IInv, OneReading, [Next]_vars
             PROVE  [Reports!Next]_<<snapshots, versions>>
  OBVIOUS
<1>1. CASE UNCHANGED <<snapshots, versions>>
  BY <1>1
<1>2. CASE \E u \in Users : Command(u)
  BY <1>1, <1>2 DEF Command, ReadMission, Send, WriteMission, database
<1>3. CASE CompleteMission \/ MissionFails \/ Reconcile \/ Workflow
  BY <1>1, <1>3 DEF CompleteMission, MissionFails, Reconcile, Workflow, Wake, WakeHeld,
                    RefreshReturns, UpdateMissionState, database
<1>4. ASSUME NEW r \in Refreshes, RequestRefresh(r) \/ StartWeek(r) \/ Attempt(r)
      PROVE  UNCHANGED <<snapshots, versions>>
  BY <1>4 DEF RequestRefresh, StartWeek, Attempt, Begin, Repeat, database
<1>5. ASSUME NEW t \in open, Commit(t) \/ AttemptFails(t)
      PROVE  [Reports!Next]_<<snapshots, versions>>
  BY <1>5, CommitReports DEF AttemptFails
<1>6. CASE UNCHANGED vars
  BY <1>1, <1>6 DEF vars, database
<1> QED
  BY <1>1, <1>2, <1>3, <1>4, <1>5, <1>6 DEF Next, Refreshes

\* However many refreshes run side by side, fail, lose their answers and are
\* tried again: no change is found twice, a refresh reports once, on all it has
\* found, finds nothing after that, and no report is ever altered.
THEOREM ChangesAreReported == Spec => ImplementsChangeReports
<1>1. Init => OneReading /\ Reports!Init
  BY DEF Init, OneReading, Reports!Init
<1> QED
  BY <1>1, Invariance, OneReadingStep, ReportsStep, PTL
     DEF Spec, ImplementsChangeReports, Reports!Spec
=============================================================================
