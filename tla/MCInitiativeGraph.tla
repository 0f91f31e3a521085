------------------------- MODULE MCInitiativeGraph ----------------------------
(* Two planned Builds and a third node, a Repair or not.                      *)
EXTENDS InitiativeGraph, TLC
MCEdge == {[from |-> "first", to |-> "second", type |-> "blocks"],
           [from |-> "first", to |-> "third", type |-> "informs"],
           [from |-> "second", to |-> "third", type |-> "blocks"]}
MCMoves == {<<"first", "triage", "stuck">>}
           \cup {<<t, "triage", "completed">> : t \in Task}
===============================================================================
