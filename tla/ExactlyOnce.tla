----------------------------- MODULE ExactlyOnce -----------------------------
(***************************************************************************)
(* What the idempotency records promise the workflows, with no runs, locks *)
(* or caches: a business step takes effect at most once, however many      *)
(* requests name it, and every request that is answered is told the one    *)
(* value that took effect.                                                 *)
(***************************************************************************)
CONSTANTS Requests, Steps, Values, None, NoStep

VARIABLES step,    \* the business step each request names
          effect,  \* the values each step has written
          reply    \* the value each request is answered with

vars == <<step, effect, reply>>

Init ==
    /\ step = [q \in Requests |-> NoStep]
    /\ effect = [s \in Steps |-> {}]
    /\ reply = [q \in Requests |-> None]

Submit(q, s) ==
    /\ step[q] = NoStep
    /\ step' = [step EXCEPT ![q] = s]
    /\ UNCHANGED <<effect, reply>>

Execute(q, v) ==
    /\ step[q] # NoStep
    /\ reply[q] = None
    /\ effect[step[q]] = {}
    /\ effect' = [effect EXCEPT ![step[q]] = {v}]
    /\ reply' = [reply EXCEPT ![q] = v]
    /\ UNCHANGED step

Recall(q) ==
    /\ step[q] # NoStep
    /\ reply[q] = None
    /\ \E v \in effect[step[q]] : reply' = [reply EXCEPT ![q] = v]
    /\ UNCHANGED <<step, effect>>

Next == \E q \in Requests :
    \/ \E s \in Steps : Submit(q, s)
    \/ \E v \in Values : Execute(q, v)
    \/ Recall(q)

Spec == Init /\ [][Next]_vars
=============================================================================
