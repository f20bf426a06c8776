----------------------------- MODULE CardReview -----------------------------
(***************************************************************************)
(* What the action card's review promises.  Versions are only ever added,  *)
(* each to be reviewed; a version is approved or sent back at most once,   *)
(* and only on a decision a user has submitted for that very version; only *)
(* an approved version ships, and a shipped one stays.                     *)
(***************************************************************************)
EXTENDS Naturals, Sequences

VARIABLES versions, asked

Propose == versions' = Append(versions, "review") /\ UNCHANGED asked

Ask(v, verdict) ==
  /\ versions[v] = "review"
  /\ asked' = asked \cup {[version |-> v, verdict |-> verdict]}
  /\ UNCHANGED versions

Decide(v, verdict) ==
  /\ versions[v] = "review" /\ [version |-> v, verdict |-> verdict] \in asked
  /\ versions' = [versions EXCEPT ![v] = IF verdict = "approve" THEN "approved" ELSE "returned"]
  /\ UNCHANGED asked

Ship(v) ==
  /\ versions[v] = "approved"
  /\ versions' = [versions EXCEPT ![v] = "shipped"]
  /\ UNCHANGED asked

Init == versions = <<>> /\ asked = {}

Next ==
  \/ Propose
  \/ \E v \in DOMAIN versions :
       \/ \E verdict \in {"approve", "request_changes"} : Ask(v, verdict) \/ Decide(v, verdict)
       \/ Ship(v)

Spec == Init /\ [][Next]_<<versions, asked>>
=============================================================================
