----------------------------- MODULE ReadModels -----------------------------
(***************************************************************************)
(* What the outbox and its projection promise to those who read a mission. *)
(* An event is recorded once.  A read model shows only what is recorded,   *)
(* and never less than it did.  An event is announced only when all the    *)
(* read models show it: who hears of it and looks, sees it.                *)
(***************************************************************************)
CONSTANTS Events, Models
VARIABLES recorded, shown, told

Init == recorded = {} /\ shown = [m \in Models |-> {}] /\ told = {}

Record(e) ==
  /\ e \notin recorded
  /\ recorded' = recorded \cup {e} /\ UNCHANGED <<shown, told>>

Show ==
  /\ shown' \in [Models -> SUBSET recorded]
  /\ \A m \in Models : shown[m] \subseteq shown'[m]
  /\ UNCHANGED <<recorded, told>>

Tell(e) ==
  /\ \A m \in Models : e \in shown[m]
  /\ told' = told \cup {e} /\ UNCHANGED <<recorded, shown>>

Next == Show \/ \E e \in Events : Record(e) \/ Tell(e)

Spec == Init /\ [][Next]_<<recorded, shown, told>>
=============================================================================
