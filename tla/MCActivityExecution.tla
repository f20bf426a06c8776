------------------------ MODULE MCActivityExecution ------------------------
EXTENDS ActivityExecution, TLC

CONSTANTS a1, a2, a3, prep, flag, budget, finish, report, agent, refresh

Key(kind, level, payloads) ==
    [kind |-> kind, level |-> level, payloads |-> payloads, completes |-> FALSE]

\* compileMission and the other agent steps; setMissionPaused and the other
\* updates of the mission row; updateMissionBudget, whose key is the mission
\* id whatever the budget; markMissionCompleted; reportOpportunityMilestone,
\* whose key is the milestone whatever it reports; interpretInteraction; the
\* refresh workflow's refreshSource.
AllKeys == (prep :> Key("prepared", "mission", 1)) @@
           (flag :> Key("mutation", "mission", 1)) @@
           (budget :> Key("mutation", "mission", 2)) @@
           (finish :> [Key("mutation", "mission", 1) EXCEPT !.completes = TRUE]) @@
           (report :> Key("mutation", "opportunity", 2)) @@
           (agent :> Key("agent", "opportunity", 1)) @@
           (refresh :> Key("prepared", "independent", 1))

MCKeyInfo == [k \in Keys |-> AllKeys[k]]
Symmetric == Permutations(Attempts)
=============================================================================
