---------------------------- MODULE ChangeReports ----------------------------
(***************************************************************************)
(* What the refreshes of a mission promise those who review them, with no  *)
(* transactions, attempts or records.  A content of a source is found      *)
(* once, by one refresh.  A refresh reports at most once, on all it has    *)
(* found and nothing else, and finds nothing after its report.  Reports    *)
(* are numbered and stay as they are.                                      *)
(***************************************************************************)
EXTENDS Naturals, Sequences

CONSTANTS Refreshes, Sources, Contents,
          Before      \* what was stored before the first refresh

VARIABLES found,     \* contents of sources, each with the refresh that found it
          reports

Init == found = Before /\ reports = <<>>

Reported(r) == \E n \in DOMAIN reports : reports[n].by = r

Find(r, s, c) ==
  /\ ~Reported(r)
  /\ \A x \in found : ~(x.source = s /\ x.content = c)
  /\ found' = found \cup {[source |-> s, content |-> c, by |-> r]}
  /\ UNCHANGED reports

Report(r) ==
  /\ ~Reported(r)
  /\ reports' = Append(reports, [number |-> Len(reports) + 1, by |-> r,
                                 lists |-> {x \in found : x.by = r}])
  /\ UNCHANGED found

Next == \E r \in Refreshes :
  \/ Report(r)
  \/ \E s \in Sources, c \in Contents : Find(r, s, c)

Spec == Init /\ [][Next]_<<found, reports>>
=============================================================================
