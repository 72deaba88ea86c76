---------------------------- MODULE WaitForGraph ----------------------------
(* What a deadlock is, for a wait-for graph: graph[t] are the transactions *)
(* that t waits for.                                                       *)
EXTENDS Global

\* Some transactions all wait for a member of their own group.
HasCycle(graph) ==
  \E C \in SUBSET Tran : C # {} /\ \A t \in C : graph[t] \cap C # {}
=============================================================================
