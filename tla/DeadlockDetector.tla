-------------------------- MODULE DeadlockDetector --------------------------
(***************************************************************************)
(* detect_deadlock and wait_for_graph_dfs of the lock manager, step by     *)
(* step: a depth-first search with an explicit stack for the recursive     *)
(* calls, over any wait-for graph.  The loops run over unordered           *)
(* containers, so the order of roots and successors is unspecified.        *)
(*                                                                         *)
(* The rest of the specification uses HasCycle for the answer, in one      *)
(* step; that the search gives this answer is what is shown here.          *)
(***************************************************************************)
EXTENDS WaitForGraph, Sequences

VARIABLES
  graph,     \* wait_for_graph_, which does not change during the search
  visited,   \* the dfs_status of every transaction
  stack,     \* the transactions of the active calls, the outermost first
  pending,   \* per active call: successors the loop has not reached
  roots,     \* tran_set: keys the outer loop has not reached
  answer     \* "searching", then whether there is a deadlock

vars == <<graph, visited, stack, pending, roots, answer>>

TypeOK ==
  /\ graph \in [Tran -> SUBSET Tran]
  /\ visited \in [Tran -> {"NOT_VISIT", "ON_PATH", "VISITED"}]
  /\ stack \in Seq(Tran)
  /\ pending \in [Tran -> SUBSET Tran]
  /\ roots \subseteq Tran
  /\ answer \in {"searching", "deadlock", "none"}

\* The transactions with an entry in wait_for_graph_.
Keys(g) == {t \in Tran : g[t] # {}}

Init ==
  /\ graph \in [Tran -> SUBSET Tran]
  /\ visited = [t \in Tran |-> "NOT_VISIT"]
  /\ stack = <<>>
  /\ pending = [t \in Tran |-> {}]
  /\ roots = Keys(graph)
  /\ answer = "searching"

Top == stack[Len(stack)]

\* wait_for_graph_dfs(t): t is put on the path.
Call(t) ==
  /\ visited' = [visited EXCEPT ![t] = "ON_PATH"]
  /\ stack' = Append(stack, t)

\* Faulty variant: the outer loop does not advance.
TakeRootStays(t) ==
  /\ answer = "searching" /\ stack = <<>>
  /\ t \in roots
  /\ IF visited[t] = "NOT_VISIT"
     THEN Call(t) /\ pending' = [pending EXCEPT ![t] = graph[t]]
     ELSE UNCHANGED <<visited, stack, pending>>
  /\ UNCHANGED <<graph, roots, answer>>

\* The outer loop reaches the key t.
TakeRoot(t) ==
  /\ answer = "searching" /\ stack = <<>>
  /\ t \in roots
  /\ roots' = roots \ {t}
  /\ IF visited[t] = "NOT_VISIT"
     THEN Call(t) /\ pending' = [pending EXCEPT ![t] = graph[t]]
     ELSE UNCHANGED <<visited, stack, pending>>
  /\ UNCHANGED <<graph, answer>>

\* Faulty variant: every node reached twice counts as a cycle.
MeetsPathAnyVisited(u) == visited[u] # "NOT_VISIT"

\* A successor on the path closes a cycle.
MeetsPath(u) == visited[u] = "ON_PATH"

\* The innermost call looks at its successor u.
Follow(u) ==
  /\ answer = "searching" /\ stack # <<>>
  /\ u \in pending[Top]
  /\ \/ /\ MeetsPath(u)
        /\ answer' = "deadlock"
        /\ UNCHANGED <<visited, stack, pending>>
     \/ /\ ~MeetsPath(u) /\ visited[u] = "NOT_VISIT"
        /\ Call(u)
        /\ pending' = [pending EXCEPT ![Top] = @ \ {u}, ![u] = graph[u]]
        /\ UNCHANGED answer
     \/ /\ ~MeetsPath(u) /\ visited[u] = "VISITED"
        /\ pending' = [pending EXCEPT ![Top] = @ \ {u}]
        /\ UNCHANGED <<visited, stack, answer>>
  /\ UNCHANGED <<graph, roots>>

\* Faulty variant: a node is left on the path.
ReturnStaysOnPath ==
  /\ answer = "searching" /\ stack # <<>>
  /\ pending[Top] = {}
  /\ stack' = SubSeq(stack, 1, Len(stack) - 1)
  /\ UNCHANGED <<graph, visited, pending, roots, answer>>

\* The innermost call returns.
Return ==
  /\ answer = "searching" /\ stack # <<>>
  /\ pending[Top] = {}
  /\ visited' = [visited EXCEPT ![Top] = "VISITED"]
  /\ stack' = SubSeq(stack, 1, Len(stack) - 1)
  /\ UNCHANGED <<graph, pending, roots, answer>>

\* The outer loop ends.
ReturnFalse ==
  /\ answer = "searching" /\ stack = <<>> /\ roots = {}
  /\ answer' = "none"
  /\ UNCHANGED <<graph, visited, stack, pending, roots>>

Terminated == answer # "searching" /\ UNCHANGED vars

Next ==
  \/ \E t \in Tran : TakeRoot(t) \/ Follow(t)
  \/ Return \/ ReturnFalse \/ Terminated

Spec == Init /\ [][Next]_vars /\ WF_vars(Next)

-----------------------------------------------------------------------------

(* The search is right, for every graph and every order of iteration: it   *)
(* reports a deadlock exactly when some transactions all wait within their *)
(* own group.                                                              *)
DetectsExactly ==
  /\ answer = "deadlock" => HasCycle(graph)
  /\ answer = "none" => ~HasCycle(graph)

(* The search comes to an end, whatever cycles the graph has.              *)
Termination == <>(answer # "searching")

-----------------------------------------------------------------------------
(* The inductive invariant. *)

\* The stack is a path of the graph made of the nodes marked ON_PATH.
PathInv ==
  /\ \A i \in 1 .. Len(stack) : visited[stack[i]] = "ON_PATH"
  /\ \A t \in Tran : visited[t] = "ON_PATH" => \E i \in 1 .. Len(stack) : stack[i] = t
  /\ \A i, j \in 1 .. Len(stack) : stack[i] = stack[j] => i = j
  /\ \A i \in 1 .. Len(stack) - 1 : stack[i + 1] \in graph[stack[i]]

\* A call has nothing left to look at but its pending successors.
PendingInv ==
  /\ \A i \in 1 .. Len(stack) : pending[stack[i]] \subseteq graph[stack[i]]
  /\ \A i \in 1 .. Len(stack) : \A u \in graph[stack[i]] \ pending[stack[i]] :
       visited[u] = "VISITED" \/ (i < Len(stack) /\ u = stack[i + 1])

\* A finished node leads to finished nodes only, and to no cycle.
VisitedInv ==
  /\ \A t \in Tran : visited[t] = "VISITED" =>
       \A u \in graph[t] : visited[u] = "VISITED"
  /\ \A C \in SUBSET {t \in Tran : visited[t] = "VISITED"} :
       C # {} => \E t \in C : graph[t] \cap C = {}

\* Every key is a root to come, on the path, or finished.
RootsInv == \A t \in Keys(graph) : visited[t] = "NOT_VISIT" => t \in roots

DetectorInv ==
  /\ TypeOK /\ VisitedInv /\ DetectsExactly
  /\ answer = "searching" => PathInv /\ PendingInv /\ RootsInv
=============================================================================
