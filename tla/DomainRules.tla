---------------------------- MODULE DomainRules ----------------------------
(***************************************************************************)
(* The pure rules of packages/domain that the worker and the API both      *)
(* apply: the transition tables, the gates on action cards and the         *)
(* derivation of a contact's verification status.  No state: the modules   *)
(* that own the rows extend this one.                                      *)
(***************************************************************************)
EXTENDS Integers

(* opportunityTransitions. *)
OpportunityNext == [
  observed              |-> {"target_identified", "archived"},
  target_identified     |-> {"stakeholder_mapped", "paused", "archived", "lost"},
  stakeholder_mapped    |-> {"contact_path_found", "action_ready", "paused",
                             "archived", "lost"},
  contact_path_found    |-> {"contact_path_verified", "action_ready", "paused",
                             "archived", "lost"},
  contact_path_verified |-> {"action_ready", "paused", "archived", "lost"},
  action_ready          |-> {"approved", "paused", "archived", "lost"},
  approved              |-> {"contacted", "paused", "archived", "lost"},
  contacted             |-> {"responded", "paused", "lost"},
  responded             |-> {"qualified", "paused", "lost"},
  qualified             |-> {"meeting", "supplier_registration", "sample",
                             "quotation", "paused", "lost"},
  meeting               |-> {"supplier_registration", "sample", "quotation",
                             "qualified", "paused", "lost"},
  supplier_registration |-> {"sample", "quotation", "qualified", "paused", "lost"},
  sample                |-> {"quotation", "qualified", "paused", "lost"},
  quotation             |-> {"won", "qualified", "paused", "lost"},
  won                   |-> {},
  paused                |-> {"target_identified", "stakeholder_mapped",
                             "contact_path_found", "contact_path_verified",
                             "action_ready", "approved", "contacted", "responded",
                             "qualified", "meeting", "supplier_registration",
                             "sample", "quotation", "archived", "lost"},
  archived              |-> {},
  lost                  |-> {}]
OpportunityStatus == DOMAIN OpportunityNext

(* actionCardTransitions. *)
CardNext == [
  draft             |-> {"review", "cancelled"},
  review            |-> {"approved", "changes_requested", "cancelled"},
  approved          |-> {"exported", "executed", "changes_requested", "cancelled"},
  changes_requested |-> {"draft", "review", "cancelled"},
  exported          |-> {"executed", "cancelled"},
  executed          |-> {"completed"},
  completed         |-> {},
  cancelled         |-> {}]
CardStatus == DOMAIN CardNext

(* contactTransitions. *)
ContactNext == [
  discovered         |-> {"format_valid", "source_confirmed", "stale", "invalid"},
  format_valid       |-> {"source_confirmed", "cross_confirmed", "stale", "invalid"},
  source_confirmed   |-> {"cross_confirmed", "manually_confirmed", "stale", "invalid"},
  cross_confirmed    |-> {"manually_confirmed", "stale", "invalid"},
  manually_confirmed |-> {"stale", "invalid"},
  stale              |-> {"format_valid", "source_confirmed", "cross_confirmed",
                          "manually_confirmed", "invalid"},
  invalid            |-> {"discovered"}]
ContactStatus == DOMAIN ContactNext
VerifiedStatus == {"source_confirmed", "cross_confirmed", "manually_confirmed"}

(* deriveContactVerificationStatus without an override; the groups are    *)
(* counted up to two, which is all that the function tells apart.          *)
Facts == [manual : BOOLEAN, official : BOOLEAN, groups : 0 .. 2, reachable : BOOLEAN]
DerivedStatus(f) ==
  CASE f.manual                                         -> "manually_confirmed"
    [] ~f.manual /\ f.groups + (IF f.official THEN 1 ELSE 0) >= 2
                                                        -> "cross_confirmed"
    [] ~f.manual /\ f.official /\ f.groups = 0          -> "source_confirmed"
    [] ~f.manual /\ ~f.official /\ f.groups < 2 /\ f.reachable
                                                        -> "format_valid"
    [] OTHER                                            -> "discovered"

(* The statuses of an opportunity at which actionCardGate admits an        *)
(* outreach card and researchActionCardGate a research card.  What else    *)
(* the gates ask of the agent's output (evidence, plan, content, unknowns) *)
(* is an outcome of the agent and not of these rules.                      *)
Actionable == {"contact_path_verified", "action_ready", "approved"}
Researchable == {"stakeholder_mapped", "contact_path_found", "contact_path_verified",
                 "action_ready"}
CardGate == [outreach |-> Actionable, research |-> Researchable]
CardType == DOMAIN CardGate
=============================================================================
