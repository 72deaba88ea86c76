----------------------- MODULE DeadlockDetectorProofs -----------------------
(***************************************************************************)
(* The search of DeadlockDetector is right for every set of transactions   *)
(* and every wait-for graph.                                               *)
(***************************************************************************)
EXTENDS DeadlockDetector, SequenceTheorems, TLAPS

(* Putting a new node on the path keeps the path a path of the graph.      *)
LEMMA CallKeepsPath ==
  ASSUME TypeOK, PathInv, NEW t \in Tran, visited[t] = "NOT_VISIT", Call(t),
         graph' = graph,
         stack = <<>> \/ t \in graph[Top]
  PROVE  PathInv'
<1>1. /\ visited' = [visited EXCEPT ![t] = "ON_PATH"]
      /\ stack' = Append(stack, t)
  BY DEF Call
<1>2. /\ Len(stack') = Len(stack) + 1
      /\ Len(stack) \in Nat
      /\ stack'[Len(stack')] = t
      /\ \A i \in 1 .. Len(stack) : stack'[i] = stack[i] /\ stack[i] \in Tran
  BY <1>1 DEF TypeOK
<1>3. \A i \in 1 .. Len(stack) : stack[i] # t
  BY DEF PathInv
<1>4. \A i \in 1 .. Len(stack') : visited'[stack'[i]] = "ON_PATH"
  BY <1>1, <1>2 DEF TypeOK, PathInv
<1>5. \A u \in Tran : visited'[u] = "ON_PATH" => \E i \in 1 .. Len(stack') : stack'[i] = u
  <2> SUFFICES ASSUME NEW u \in Tran, visited'[u] = "ON_PATH"
               PROVE  \E i \in 1 .. Len(stack') : stack'[i] = u
    OBVIOUS
  <2>1. CASE u = t
    BY <2>1, <1>2
  <2>2. CASE u # t
    <3>1. visited[u] = "ON_PATH"
      BY <2>2, <1>1 DEF TypeOK
    <3>2. PICK i \in 1 .. Len(stack) : stack[i] = u
      BY <3>1 DEF PathInv
    <3> QED BY <3>2, <1>2
  <2> QED BY <2>1, <2>2
<1>6. \A i, j \in 1 .. Len(stack') : stack'[i] = stack'[j] => i = j
  <2> SUFFICES ASSUME NEW i \in 1 .. Len(stack'), NEW j \in 1 .. Len(stack'),
                      stack'[i] = stack'[j]
               PROVE  i = j
    OBVIOUS
  <2>1. CASE i = Len(stack') \/ j = Len(stack')
    BY <2>1, <1>2, <1>3
  <2>2. CASE i # Len(stack') /\ j # Len(stack')
    <3>1. i \in 1 .. Len(stack) /\ j \in 1 .. Len(stack)
      BY <2>2, <1>2
    <3> QED BY <3>1, <1>2 DEF PathInv
  <2> QED BY <2>1, <2>2
<1>7. \A i \in 1 .. Len(stack') - 1 : stack'[i + 1] \in graph'[stack'[i]]
  <2> SUFFICES ASSUME NEW i \in 1 .. Len(stack') - 1
               PROVE  stack'[i + 1] \in graph[stack'[i]]
    OBVIOUS
  <2>1. CASE i = Len(stack)
    BY <2>1, <1>2 DEF Top
  <2>2. CASE i # Len(stack)
    <3>1. i \in 1 .. Len(stack) - 1 /\ i \in 1 .. Len(stack) /\ i + 1 \in 1 .. Len(stack)
      BY <2>2, <1>2
    <3> QED BY <3>1, <1>2 DEF PathInv
  <2> QED BY <2>1, <2>2
<1> QED BY <1>4, <1>5, <1>6, <1>7 DEF PathInv

(* A node put on the path has all its successors pending.                  *)
LEMMA CallKeepsPending ==
  ASSUME TypeOK, PathInv, PendingInv, NEW t \in Tran, visited[t] = "NOT_VISIT",
         Call(t), graph' = graph,
         \/ stack = <<>> /\ pending' = [pending EXCEPT ![t] = graph[t]]
         \/ stack # <<>> /\ pending' = [pending EXCEPT ![Top] = @ \ {t}, ![t] = graph[t]]
  PROVE  PendingInv'
<1>1. /\ visited' = [visited EXCEPT ![t] = "ON_PATH"]
      /\ stack' = Append(stack, t)
  BY DEF Call
<1>2. /\ Len(stack') = Len(stack) + 1
      /\ Len(stack) \in Nat
      /\ stack'[Len(stack')] = t
      /\ \A i \in 1 .. Len(stack) : stack'[i] = stack[i] /\ stack[i] \in Tran
      /\ stack # <<>> => Len(stack) > 0
  BY <1>1 DEF TypeOK
<1>3. \A i \in 1 .. Len(stack) : stack[i] # t
  BY DEF PathInv
<1>4. pending'[t] = graph[t]
  BY DEF TypeOK
<1>5. \A i \in 1 .. Len(stack) :
        pending'[stack[i]] = IF i = Len(stack) THEN pending[stack[i]] \ {t}
                             ELSE pending[stack[i]]
  <2> SUFFICES ASSUME NEW i \in 1 .. Len(stack)
               PROVE  pending'[stack[i]] = IF i = Len(stack) THEN pending[stack[i]] \ {t}
                                           ELSE pending[stack[i]]
    OBVIOUS
  <2>1. stack # <<>> /\ Len(stack) > 0 /\ Len(stack) \in 1 .. Len(stack)
    BY <1>2
  <2>2. pending' = [pending EXCEPT ![Top] = @ \ {t}, ![t] = graph[t]]
    BY <2>1
  <2>3. stack[i] # t /\ stack[i] \in Tran /\ (stack[i] = Top <=> i = Len(stack))
    BY <2>1, <1>2, <1>3 DEF PathInv, Top
  <2> QED BY <2>2, <2>3 DEF TypeOK
<1>6. \A i \in 1 .. Len(stack') : pending'[stack'[i]] \subseteq graph[stack'[i]]
  <2> SUFFICES ASSUME NEW i \in 1 .. Len(stack')
               PROVE  pending'[stack'[i]] \subseteq graph[stack'[i]]
    OBVIOUS
  <2>1. CASE i = Len(stack')
    BY <2>1, <1>2, <1>4
  <2>2. CASE i # Len(stack')
    <3>1. i \in 1 .. Len(stack)
      BY <2>2, <1>2
    <3> QED BY <3>1, <1>2, <1>5 DEF PendingInv
  <2> QED BY <2>1, <2>2
<1>7. \A i \in 1 .. Len(stack') : \A u \in graph[stack'[i]] \ pending'[stack'[i]] :
        visited'[u] = "VISITED" \/ (i < Len(stack') /\ u = stack'[i + 1])
  <2> SUFFICES ASSUME NEW i \in 1 .. Len(stack'),
                      NEW u \in graph[stack'[i]] \ pending'[stack'[i]]
               PROVE  visited'[u] = "VISITED" \/ (i < Len(stack') /\ u = stack'[i + 1])
    OBVIOUS
  <2>1. CASE i = Len(stack')
    BY <2>1, <1>2, <1>4
  <2>2. CASE i # Len(stack')
    <3>1. i \in 1 .. Len(stack) /\ stack'[i] = stack[i] /\ u \in Tran /\ i < Len(stack')
      BY <2>2, <1>2 DEF TypeOK
    <3>2. CASE u \in pending[stack[i]]
      <4>1. u \notin pending'[stack[i]]
        BY <3>1
      <4>2. i = Len(stack) /\ u = t
        BY <4>1, <3>1, <3>2, <1>5
      <4> QED BY <4>2, <3>1, <1>2
    <3>3. CASE u \notin pending[stack[i]]
      <4>1. visited[u] = "VISITED" \/ (i < Len(stack) /\ u = stack[i + 1])
        BY <3>1, <3>3 DEF PendingInv
      <4>2. CASE visited[u] = "VISITED"
        BY <4>2, <3>1, <1>1 DEF TypeOK
      <4>3. CASE i < Len(stack) /\ u = stack[i + 1]
        <5>1. i + 1 \in 1 .. Len(stack)
          BY <4>3, <3>1, <1>2
        <5> QED BY <5>1, <4>3, <3>1, <1>2
      <4> QED BY <4>1, <4>2, <4>3
    <3> QED BY <3>2, <3>3
  <2> QED BY <2>1, <2>2
<1> QED BY <1>6, <1>7 DEF PendingInv

(* When a call returns, its node is finished: nothing it leads to is on a  *)
(* cycle, so it adds none.                                                 *)
LEMMA ReturnKeepsVisited ==
  ASSUME TypeOK, PathInv, PendingInv, VisitedInv, Return
  PROVE  VisitedInv'
<1> DEFINE n == Top
           Old == {t \in Tran : visited[t] = "VISITED"}
<1>1. /\ n \in Tran /\ visited[n] = "ON_PATH"
      /\ visited' = [visited EXCEPT ![n] = "VISITED"]
      /\ graph' = graph
  BY DEF Return, TypeOK, PathInv, Top
<1>2. \A u \in graph[n] : u \in Old
  BY <1>1 DEF Return, TypeOK, PendingInv, Top
<1>3. \A t \in Old : graph[t] \subseteq Old
  BY DEF VisitedInv, TypeOK
<1>4. \A t \in Tran : visited'[t] = "VISITED" <=> t \in Old \cup {n}
  BY <1>1 DEF TypeOK
<1>5. ASSUME NEW t \in Tran, visited'[t] = "VISITED", NEW u \in graph[t]
      PROVE  visited'[u] = "VISITED"
  BY <1>1, <1>2, <1>3, <1>4, <1>5 DEF TypeOK
<1>6. ASSUME NEW C \in SUBSET {t \in Tran : visited'[t] = "VISITED"}, C # {}
      PROVE  \E t \in C : graph[t] \cap C = {}
  <2> SUFFICES ASSUME \A t \in C : graph[t] \cap C # {}
               PROVE  FALSE
    OBVIOUS
  <2> DEFINE D == C \ {n}
  <2>1. C \subseteq Old \cup {n}
    BY <1>4
  <2>2. D \in SUBSET {t \in Tran : visited[t] = "VISITED"}
    BY <2>1
  <2>3. n \notin Old
    BY <1>1
  <2>4. \A t \in C : graph[t] \cap D # {}
    <3> SUFFICES ASSUME NEW t \in C
                 PROVE  graph[t] \cap D # {}
      OBVIOUS
    <3>1. graph[t] \subseteq Old
      BY <1>2, <1>3, <2>1
    <3>2. PICK u \in graph[t] : u \in C
      OBVIOUS
    <3> QED BY <3>1, <3>2, <2>3
  <2>5. D # {}
    BY <1>6, <2>4
  <2>6. PICK t \in D : graph[t] \cap D = {}
    BY <2>2, <2>5 DEF VisitedInv
  <2> QED BY <2>4, <2>6
<1> QED BY <1>1, <1>5, <1>6 DEF VisitedInv

(* The shortened stack is still the path, and the caller's successor that  *)
(* was searched is finished.                                               *)
LEMMA ReturnKeepsPath ==
  ASSUME TypeOK, PathInv, PendingInv, Return
  PROVE  PathInv' /\ PendingInv'
<1> DEFINE n == Len(stack)
<1>1. /\ n \in Nat /\ n > 0
      /\ Len(stack') = n - 1
      /\ \A i \in 1 .. n - 1 : stack'[i] = stack[i]
      /\ \A i \in 1 .. n : stack[i] \in Tran
      /\ visited' = [visited EXCEPT ![stack[n]] = "VISITED"]
      /\ graph' = graph /\ pending' = pending
  <2>1. n \in Nat /\ n > 0 /\ \A i \in 1 .. n : stack[i] \in Tran
    BY DEF Return, TypeOK
  <2>2. stack' = SubSeq(stack, 1, n - 1)
    BY DEF Return
  <2> HIDE DEF n
  <2>3. Len(stack') = n - 1 /\ \A i \in 1 .. n - 1 : stack'[i] = stack[i]
    BY <2>1, <2>2, SubSeqProperties, SMTT(30)
  <2>4. /\ visited' = [visited EXCEPT ![stack[n]] = "VISITED"]
        /\ graph' = graph /\ pending' = pending
    BY DEF Return, Top, n
  <2> QED BY <2>1, <2>3, <2>4
<1>2. \A i \in 1 .. n - 1 : stack[i] # stack[n]
  BY <1>1 DEF PathInv
<1>3. PathInv'
  <2>1. \A i \in 1 .. n - 1 : visited'[stack'[i]] = "ON_PATH"
    BY <1>1, <1>2 DEF PathInv, TypeOK
  <2>2. ASSUME NEW t \in Tran, visited'[t] = "ON_PATH"
        PROVE  \E i \in 1 .. n - 1 : stack'[i] = t
    <3>1. t # stack[n] /\ visited[t] = "ON_PATH"
      BY <1>1, <2>2 DEF TypeOK
    <3>2. PICK i \in 1 .. n : stack[i] = t
      BY <3>1 DEF PathInv
    <3> QED BY <3>1, <3>2, <1>1
  <2>3. \A i, j \in 1 .. n - 1 : stack'[i] = stack'[j] => i = j
    BY <1>1 DEF PathInv
  <2>4. \A i \in 1 .. (n - 1) - 1 : stack'[i + 1] \in graph'[stack'[i]]
    BY <1>1 DEF PathInv
  <2> QED BY <1>1, <2>1, <2>2, <2>3, <2>4 DEF PathInv
<1>4. PendingInv'
  <2>1. ASSUME NEW i \in 1 .. n - 1
        PROVE  pending'[stack'[i]] \subseteq graph'[stack'[i]]
    <3>1. stack'[i] = stack[i] /\ i \in 1 .. n
      BY <1>1
    <3> QED BY <1>1, <3>1 DEF PendingInv
  <2>2. ASSUME NEW i \in 1 .. n - 1, NEW u \in graph'[stack'[i]] \ pending'[stack'[i]]
        PROVE  visited'[u] = "VISITED" \/ (i < n - 1 /\ u = stack'[i + 1])
    <3>1. stack'[i] = stack[i] /\ i \in 1 .. n /\ u \in Tran
      BY <1>1, <2>2 DEF TypeOK
    <3>2. u \in graph[stack[i]] \ pending[stack[i]]
      BY <1>1, <2>2, <3>1
    <3>3. visited[u] = "VISITED" \/ (i < n /\ u = stack[i + 1])
      BY <3>1, <3>2 DEF PendingInv
    <3>4. CASE visited[u] = "VISITED"
      BY <1>1, <3>1, <3>4 DEF TypeOK
    <3>5. CASE u = stack[i + 1] /\ i = n - 1
      BY <1>1, <3>1, <3>5 DEF TypeOK
    <3>6. CASE u = stack[i + 1] /\ i < n - 1
      BY <1>1, <3>6
    <3> QED BY <3>3, <3>4, <3>5, <3>6, <1>1
  <2> QED BY <1>1, <2>1, <2>2 DEF PendingInv
<1> QED BY <1>3, <1>4

(* A successor on the path closes a cycle: the path from it to the top.    *)
LEMMA PathClosesCycle ==
  ASSUME TypeOK, PathInv, PendingInv, stack # <<>>,
         NEW u \in pending[Top], visited[u] = "ON_PATH"
  PROVE  HasCycle(graph)
<1> DEFINE n == Len(stack)
<1>1. n \in Nat /\ n > 0 /\ Top = stack[n] /\ \A i \in 1 .. n : stack[i] \in Tran
  BY DEF TypeOK, Top
<1>2. u \in graph[stack[n]] /\ u \in Tran
  BY <1>1 DEF PendingInv, TypeOK
<1>3. PICK k \in 1 .. n : stack[k] = u
  BY <1>2 DEF PathInv
<1> DEFINE C == {stack[i] : i \in k .. n}
<1>4. C \in SUBSET Tran /\ C # {}
  BY <1>1, <1>3
<1>5. ASSUME NEW t \in C
      PROVE  graph[t] \cap C # {}
  <2>1. PICK i \in k .. n : t = stack[i]
    OBVIOUS
  <2>2. CASE i = n
    <3>1. u \in C
      BY <1>3
    <3> QED BY <3>1, <2>1, <2>2, <1>2
  <2>3. CASE i # n
    <3>1. i \in 1 .. n - 1 /\ i + 1 \in k .. n
      BY <1>1, <1>3, <2>3
    <3>2. stack[i + 1] \in graph[stack[i]]
      BY <3>1 DEF PathInv
    <3> QED BY <3>1, <3>2, <2>1
  <2> QED BY <2>2, <2>3
<1> QED BY <1>4, <1>5 DEF HasCycle

(* With every key searched, no group of transactions waits within itself.  *)
LEMMA NoRootsNoCycle ==
  ASSUME TypeOK, PathInv, RootsInv, VisitedInv, stack = <<>>, roots = {}
  PROVE  ~HasCycle(graph)
<1> SUFFICES ASSUME NEW C \in SUBSET Tran, C # {}, \A t \in C : graph[t] \cap C # {}
             PROVE  FALSE
  BY DEF HasCycle
<1>1. \A t \in C : visited[t] = "VISITED"
  <2> SUFFICES ASSUME NEW t \in C
               PROVE  visited[t] = "VISITED"
    OBVIOUS
  <2>1. t \in Keys(graph)
    BY DEF Keys
  <2>2. visited[t] # "NOT_VISIT"
    BY <2>1 DEF RootsInv
  <2>3. visited[t] # "ON_PATH"
    BY DEF PathInv
  <2> QED BY <2>2, <2>3 DEF TypeOK
<1>2. C \in SUBSET {t \in Tran : visited[t] = "VISITED"}
  BY <1>1
<1> QED BY <1>2 DEF VisitedInv

(* Every step of the search keeps the inductive invariant.                 *)
LEMMA DetectorInductive == DetectorInv /\ [Next]_vars => DetectorInv'
<1> SUFFICES ASSUME DetectorInv, [Next]_vars
             PROVE  DetectorInv'
  OBVIOUS
<1>0. TypeOK /\ VisitedInv /\ DetectsExactly
  BY DEF DetectorInv
<1>1. ASSUME NEW t \in Tran, TakeRoot(t)
      PROVE  DetectorInv'
  <2>1. PathInv /\ PendingInv /\ RootsInv
    BY <1>1 DEF DetectorInv, TakeRoot
  <2>2. TypeOK'
    <3>1. CASE visited[t] = "NOT_VISIT"
      <4>1. visited' \in [Tran -> {"NOT_VISIT", "ON_PATH", "VISITED"}]
        BY <1>0, <1>1, <3>1 DEF TypeOK, TakeRoot, Call
      <4>2. stack' \in Seq(Tran)
        <5>1. stack' = Append(stack, t) /\ stack \in Seq(Tran)
          BY <1>0, <1>1, <3>1 DEF TypeOK, TakeRoot, Call
        <5> QED BY <5>1
      <4>3. pending' \in [Tran -> SUBSET Tran]
        BY <1>0, <1>1, <3>1 DEF TypeOK, TakeRoot
      <4> QED BY <1>0, <1>1, <4>1, <4>2, <4>3 DEF TypeOK, TakeRoot
    <3>2. CASE visited[t] # "NOT_VISIT"
      BY <1>0, <1>1, <3>2 DEF TypeOK, TakeRoot
    <3> QED BY <3>1, <3>2
  <2>3. \A u \in Tran : visited'[u] = "VISITED" <=> visited[u] = "VISITED"
    BY <1>0, <1>1 DEF TypeOK, TakeRoot, Call
  <2>4. VisitedInv'
    <3>1. graph' = graph
      BY <1>1 DEF TakeRoot
    <3> QED BY <1>0, <2>3, <3>1 DEF VisitedInv, TypeOK
  <2>5. DetectsExactly'
    BY <1>0, <1>1 DEF DetectsExactly, TakeRoot
  <2>6. RootsInv'
    BY <1>0, <1>1, <2>1 DEF RootsInv, TakeRoot, Call, Keys, TypeOK
  <2>7. PathInv' /\ PendingInv'
    <3>1. CASE visited[t] = "NOT_VISIT"
      <4>1. PathInv'
        BY <1>0, <1>1, <2>1, <3>1, CallKeepsPath DEF TakeRoot
      <4>2. PendingInv'
        BY <1>0, <1>1, <2>1, <3>1, CallKeepsPending DEF TakeRoot
      <4> QED BY <4>1, <4>2
    <3>2. CASE visited[t] # "NOT_VISIT"
      BY <1>1, <2>1, <3>2 DEF TakeRoot, PathInv, PendingInv
    <3> QED BY <3>1, <3>2
  <2> QED BY <2>2, <2>4, <2>5, <2>6, <2>7 DEF DetectorInv
<1>2. ASSUME NEW t \in Tran, Follow(t)
      PROVE  DetectorInv'
  <2>1. /\ PathInv /\ PendingInv /\ RootsInv
        /\ answer = "searching" /\ stack # <<>> /\ t \in pending[Top]
        /\ graph' = graph /\ roots' = roots
    BY <1>2 DEF DetectorInv, Follow
  <2>2. Top \in Tran /\ t \in graph[Top] /\ Len(stack) \in Nat /\ Len(stack) > 0
    BY <1>0, <2>1 DEF TypeOK, Top, PendingInv
  <2>3. CASE MeetsPath(t)
    <3>1. answer' = "deadlock" /\ UNCHANGED <<visited, stack, pending>>
      BY <1>2, <2>3 DEF Follow
    <3>2. HasCycle(graph)
      BY <1>0, <2>1, <2>3, PathClosesCycle DEF MeetsPath
    <3>3. TypeOK' /\ VisitedInv'
      BY <1>0, <2>1, <3>1 DEF TypeOK, VisitedInv
    <3>4. DetectsExactly'
      BY <2>1, <3>1, <3>2 DEF DetectsExactly
    <3> QED BY <3>1, <3>3, <3>4 DEF DetectorInv
  <2>4. CASE visited[t] = "NOT_VISIT"
    <3>1. /\ Call(t) /\ answer' = answer
          /\ pending' = [pending EXCEPT ![Top] = @ \ {t}, ![t] = graph[t]]
      BY <1>2, <2>4 DEF Follow, MeetsPath
    <3>2. TypeOK'
      BY <1>0, <2>1, <2>2, <3>1 DEF TypeOK, Call
    <3>3. \A u \in Tran : visited'[u] = "VISITED" <=> visited[u] = "VISITED"
      BY <1>0, <2>4, <3>1 DEF TypeOK, Call
    <3>4. VisitedInv'
      BY <1>0, <2>1, <3>3 DEF VisitedInv, TypeOK
    <3>5. PathInv'
      BY <1>0, <2>1, <2>2, <2>4, <3>1, CallKeepsPath
    <3>6. PendingInv'
      BY <1>0, <2>1, <2>4, <3>1, CallKeepsPending
    <3>7. RootsInv' /\ DetectsExactly'
      BY <1>0, <2>1, <3>1 DEF RootsInv, Keys, TypeOK, Call, DetectsExactly
    <3> QED BY <3>2, <3>4, <3>5, <3>6, <3>7 DEF DetectorInv
  <2>5. CASE visited[t] = "VISITED"
    <3>1. /\ UNCHANGED <<visited, stack, answer>>
          /\ pending' = [pending EXCEPT ![Top] = @ \ {t}]
      BY <1>2, <2>5 DEF Follow, MeetsPath
    <3>2. TypeOK' /\ VisitedInv' /\ DetectsExactly' /\ PathInv' /\ RootsInv'
      BY <1>0, <2>1, <2>2, <3>1
         DEF TypeOK, VisitedInv, DetectsExactly, PathInv, RootsInv, Keys
    <3>3. \A i \in 1 .. Len(stack) :
             pending'[stack[i]] \subseteq pending[stack[i]]
             /\ pending[stack[i]] \subseteq pending'[stack[i]] \cup {t}
      BY <1>0, <2>2, <3>1 DEF TypeOK
    <3>4. PendingInv'
      BY <2>1, <2>5, <3>1, <3>3 DEF PendingInv
    <3> QED BY <3>2, <3>4 DEF DetectorInv
  <2> QED BY <2>3, <2>4, <2>5, <1>2 DEF Follow
<1>3. ASSUME Return
      PROVE  DetectorInv'
  <2>1. PathInv /\ PendingInv /\ RootsInv
    BY <1>3 DEF DetectorInv, Return
  <2>2. PathInv' /\ PendingInv' /\ VisitedInv'
    BY <1>0, <1>3, <2>1, ReturnKeepsPath, ReturnKeepsVisited
  <2>3. Len(stack) \in Nat /\ Len(stack) > 0 /\ Top \in Tran
    BY <1>0, <1>3 DEF Return, TypeOK, Top
  <2>4. stack' \in Seq(Tran)
    <3>1. \A i \in 1 .. Len(stack) - 1 : stack[i] \in Tran
      BY <1>0, <2>3 DEF TypeOK
    <3> QED BY <1>3, <2>3, <3>1, SubSeqProperties DEF Return
  <2>5. TypeOK' /\ DetectsExactly' /\ RootsInv'
    BY <1>0, <1>3, <2>1, <2>3, <2>4 DEF Return, TypeOK, DetectsExactly, RootsInv, Keys
  <2> QED BY <2>2, <2>5 DEF DetectorInv
<1>4. ASSUME ReturnFalse
      PROVE  DetectorInv'
  <2>1. PathInv /\ RootsInv
    BY <1>4 DEF DetectorInv, ReturnFalse
  <2>2. ~HasCycle(graph)
    BY <1>0, <1>4, <2>1, NoRootsNoCycle DEF ReturnFalse
  <2>3. TypeOK' /\ VisitedInv'
    BY <1>0, <1>4 DEF TypeOK, VisitedInv, ReturnFalse
  <2>4. DetectsExactly' /\ answer' # "searching"
    BY <1>4, <2>2 DEF DetectsExactly, ReturnFalse
  <2> QED BY <2>3, <2>4 DEF DetectorInv
<1>5. ASSUME UNCHANGED vars
      PROVE  DetectorInv'
  BY <1>5 DEF vars, DetectorInv, TypeOK, VisitedInv, DetectsExactly, PathInv,
              PendingInv, RootsInv, Keys
<1> QED BY <1>1, <1>2, <1>3, <1>4, <1>5 DEF Next, Terminated

(* The search starts in the inductive invariant.                           *)
LEMMA DetectorInit == Init => DetectorInv
BY DEF Init, DetectorInv, TypeOK, VisitedInv, DetectsExactly, PathInv,
       PendingInv, RootsInv, Keys

(* The inductive invariant holds throughout the search.                    *)
THEOREM DetectorInvariant == Spec => []DetectorInv
BY DetectorInit, DetectorInductive, PTL DEF Spec

(* detect_deadlock answers HasCycle, for any number of transactions, any   *)
(* wait-for graph and any order in which its containers are iterated.      *)
THEOREM DetectorCorrect == Spec => []DetectsExactly
<1>1. DetectorInv => DetectsExactly
  BY DEF DetectorInv
<1> QED BY DetectorInvariant, <1>1, PTL

-----------------------------------------------------------------------------
(* The search advances. *)

Unvisited == {t \in Tran : visited[t] = "NOT_VISIT"}
OnPath == {t \in Tran : visited[t] = "ON_PATH"}

\* The measure of the search: what it has not visited, and for the same of
\* that the roots to come, the calls to return from and their successors.
SearchMoves ==
  answer' = "searching" =>
    /\ Unvisited' \subseteq Unvisited
    /\ Unvisited' = Unvisited =>
         /\ roots' \subseteq roots /\ OnPath' \subseteq OnPath
         /\ \A t \in Tran : pending'[t] \subseteq pending[t]
         /\ roots' # roots \/ OnPath' # OnPath \/ pending' # pending

(* Each step of the search visits a node for the first time or uses up a   *)
(* root, a successor or a call, whatever the graph: this is the safety     *)
(* half of Termination, and every recursion of wait_for_graph_dfs returns. *)
THEOREM SearchAdvances == Spec => [][SearchMoves]_vars
<1>1. ASSUME DetectorInv, Next
      PROVE  SearchMoves
  <2> DEFINE Moves == /\ Unvisited' \subseteq Unvisited
                      /\ Unvisited' = Unvisited =>
                           /\ roots' \subseteq roots /\ OnPath' \subseteq OnPath
                           /\ \A t \in Tran : pending'[t] \subseteq pending[t]
                           /\ roots' # roots \/ OnPath' # OnPath \/ pending' # pending
  <2> SUFFICES ASSUME answer' = "searching"
               PROVE  Moves
    BY DEF SearchMoves
  <2>0. TypeOK
    BY <1>1 DEF DetectorInv
  <2>1. ASSUME NEW t \in Tran, Call(t), visited[t] = "NOT_VISIT"
        PROVE  Unvisited' \subseteq Unvisited /\ Unvisited' # Unvisited
    <3>1. visited' = [visited EXCEPT ![t] = "ON_PATH"]
      BY <2>1 DEF Call
    <3>2. t \in Unvisited /\ t \notin Unvisited'
      BY <2>0, <2>1, <3>1 DEF Unvisited, TypeOK
    <3>3. Unvisited' \subseteq Unvisited
      BY <2>0, <3>1 DEF Unvisited, TypeOK
    <3> QED BY <3>2, <3>3
  <2>2. ASSUME NEW t \in Tran, TakeRoot(t)
        PROVE  Moves
    <3>1. CASE visited[t] = "NOT_VISIT"
      BY <2>1, <2>2, <3>1 DEF TakeRoot
    <3>2. CASE visited[t] # "NOT_VISIT"
      BY <2>2, <3>2 DEF TakeRoot, Unvisited, OnPath
    <3> QED BY <3>1, <3>2
  <2>3. ASSUME NEW u \in Tran, Follow(u)
        PROVE  Moves
    <3>1. CASE visited[u] = "NOT_VISIT" /\ Call(u)
      BY <2>1, <3>1
    <3>2. CASE pending' = [pending EXCEPT ![Top] = @ \ {u}] /\ UNCHANGED visited
      <4>1. Top \in Tran /\ u \in pending[Top]
        BY <2>0, <2>3 DEF Follow, Top, TypeOK
      <4>2. pending'[Top] # pending[Top] /\ \A t \in Tran : pending'[t] \subseteq pending[t]
        BY <2>0, <3>2, <4>1 DEF TypeOK
      <4> QED BY <2>3, <3>2, <4>2 DEF Follow, Unvisited, OnPath
    <3> QED BY <2>3, <3>1, <3>2 DEF Follow
  <2>4. CASE Return
    <3>1. Top \in Tran /\ visited[Top] = "ON_PATH"
      <4>1. Len(stack) \in 1 .. Len(stack)
        BY <2>0, <2>4 DEF Return, TypeOK
      <4> QED BY <1>1, <2>0, <2>4, <4>1 DEF Return, Top, TypeOK, DetectorInv, PathInv
    <3>2. visited' = [visited EXCEPT ![Top] = "VISITED"] /\ UNCHANGED <<roots, pending>>
      BY <2>4 DEF Return
    <3> HIDE DEF Top
    <3>3. Unvisited' = Unvisited /\ OnPath' = OnPath \ {Top} /\ Top \in OnPath
      BY <2>0, <3>1, <3>2 DEF Unvisited, OnPath, TypeOK
    <3> QED BY <3>2, <3>3
  <2>5. CASE ReturnFalse \/ Terminated
    BY <2>5 DEF ReturnFalse, Terminated, vars
  <2> QED BY <1>1, <2>2, <2>3, <2>4, <2>5 DEF Next
<1>2. DetectorInv /\ [Next]_vars => [SearchMoves]_vars
  BY <1>1
<1> QED BY <1>2, DetectorInvariant, PTL DEF Spec
=============================================================================
