---------------------------- MODULE HarnessProofs ----------------------------
(***************************************************************************)
(* The test harness settles every child before it compares anything, and   *)
(* says Pass exactly when the expected lines are there, for any set of     *)
(* scripts and any expected files that are like those of test/output; and  *)
(* what it executes is what the scripts say.                               *)
(***************************************************************************)
EXTENDS Harness, SequenceTheorems, FiniteSetTheorems, TLAPS

(* One sequence is a prefix of another when it agrees with it line by line.*)
LEMMA PrefixByLine ==
  ASSUME NEW s \in Seq(STRING), NEW t \in Seq(STRING)
  PROVE  IsPrefix(s, t) <=> Len(s) <= Len(t) /\ \A k \in 1 .. Len(s) : s[k] = t[k]
<1>1. CASE Len(s) <= Len(t)
  <2>1. /\ SubSeq(s, 1, Len(s)) = [k \in 1 .. Len(s) |-> s[k]]
        /\ SubSeq(t, 1, Len(s)) = [k \in 1 .. Len(s) |-> t[k]]
    BY <1>1
  <2> QED BY <1>1, <2>1 DEF IsPrefix
<1>2. CASE ~(Len(s) <= Len(t))
  BY <1>2 DEF IsPrefix
<1> QED BY <1>1, <1>2

(* What the harness and a script leave in test/.                           *)
LEMMA FileContents ==
  /\ Missing \in Contents
  /\ \A d \in Seq(STRING) : Produced(d) \in Contents /\ Produced(d).exists
  /\ Produced(<<>>) \in Contents
<1>1. <<>> \in Seq(STRING)
  OBVIOUS
<1>2. \A d \in Seq(STRING) : Produced(d) \in Contents /\ Produced(d).exists
  BY DEF Produced, Contents
<1>3. Missing \in Contents
  BY <1>1 DEF Missing, Contents
<1> QED BY <1>1, <1>2, <1>3

(* The harness starts with nothing read, reported or compared.             *)
LEMMA HarnessStarts == Init => SettledInv
<1> SUFFICES ASSUME Init PROVE SettledInv
  OBVIOUS
<1>1. HarnessTypeOK
  <2>1. \A r \in {Missing} \cup {Produced(d) : d \in Dumps} : r \in Contents
    BY ExpectedAssumption, FileContents
  <2>2. output \in [File -> Contents]
    BY <2>1 DEF Init
  <2>3. child \in [File -> {"none", "started", "reading", "dumping", "spinning",
                           "exited", "died"}]
    BY DEF Init
  <2> QED BY <2>2, <2>3 DEF Init, HarnessTypeOK
<1>2. ChildrenInv
  BY DEF Init, ChildrenInv, Checking, Finished
<1>3. OutputInv
  BY DEF Init, OutputInv
<1>4. CompareInv
  BY DEF Init, CompareInv
<1>5. VerdictsRight /\ \A f \in File : verdict[f] = "none"
  BY DEF Init, VerdictsRight
<1> QED BY <1>1, <1>2, <1>3, <1>4, <1>5 DEF SettledInv

(* A process that executes a script touches nothing but its own entries,   *)
(* and it runs only while its script is neither settled nor compared.      *)
LEMMA ExecuteKeeps ==
  ASSUME SettledInv, NEW f \in File, ExecuteScript(f)
  PROVE  SettledInv'
<1> USE DEF parentVars, checkVars
<1>1. /\ HarnessTypeOK /\ ChildrenInv /\ OutputInv
      /\ UNCHANGED <<parentVars, checkVars>>
  BY DEF SettledInv, ExecuteScript
<1>2. /\ child[f] \in {"started", "reading", "dumping", "spinning"}
      /\ \E c \in {"reading", "dumping", "spinning", "exited", "died"} :
           child' = [child EXCEPT ![f] = c]
  BY DEF ExecuteScript, OpenFiles, ReadLine, Drain, Spin, Dump, childVars, HarnessTypeOK, SettledInv
<1>3. ~Checking /\ \A g \in File : verdict[g] = "none"
  BY <1>1, <1>2 DEF SettledInv, ChildrenInv, Checking, Finished
<1>4. \A g \in File \ {f} : child'[g] = child[g] /\ output'[g] = output[g]
  BY <1>1 DEF ExecuteScript, OpenFiles, ReadLine, Drain, Spin, Dump, childVars, HarnessTypeOK
<1>5. /\ output' \in [File -> Contents]
      /\ mode # "print" =>
           /\ child'[f] # "exited" => output'[f] = Produced(<<>>)
           /\ child'[f] = "exited" => output'[f].exists
  <2>1. CASE OpenFiles(f)
    BY <1>1, <2>1, FileContents DEF OpenFiles, HarnessTypeOK
  <2>2. CASE ReadLine(f) \/ Drain(f) \/ Spin(f)
    <3>1. output' = output /\ child[f] \in {"reading", "spinning"} /\ child'[f] # "exited"
      BY <1>1, <2>2 DEF ReadLine, Drain, Spin, childVars, HarnessTypeOK
    <3> QED BY <1>1, <3>1 DEF OutputInv, HarnessTypeOK
  <2>3. CASE Dump(f)
    <3>1. \A d \in Dumps : Produced(d) \in Contents /\ Produced(d).exists
      BY ExpectedAssumption, FileContents
    <3> QED BY <1>1, <2>3, <3>1 DEF Dump, HarnessTypeOK
  <2> QED BY <2>1, <2>2, <2>3 DEF ExecuteScript
<1>6. HarnessTypeOK'
  <2>1. child' \in [File -> {"none", "started", "reading", "dumping", "spinning",
                            "exited", "died"}]
    BY <1>1, <1>2 DEF HarnessTypeOK
  <2> QED BY <1>1, <1>5, <2>1 DEF HarnessTypeOK
<1>7. OutputInv'
  BY <1>1, <1>4, <1>5 DEF OutputInv, HarnessTypeOK
<1>8. ChildrenInv'
  BY <1>1, <1>2, <1>3 DEF ChildrenInv, Checking, Finished, HarnessTypeOK
<1>9. CompareInv' /\ VerdictsRight' /\ \A g \in File : verdict'[g] = "none"
  BY <1>1, <1>3 DEF CompareInv, VerdictsRight, Checking
<1> QED BY <1>6, <1>7, <1>8, <1>9 DEF SettledInv

(* Forking, waiting and coming to the end of the scan.                     *)
LEMMA ScanKeeps ==
  ASSUME SettledInv,
         \/ \E f \in File : Fork(f) \/ Reap(f)
         \/ NoChildLeft \/ ScanEnds \/ Return
  PROVE  SettledInv'
<1> USE DEF childVars, checkVars
<1>1. HarnessTypeOK /\ ChildrenInv /\ OutputInv
  BY DEF SettledInv
<1>2. ~Checking /\ \A g \in File : verdict[g] = "none"
  BY DEF SettledInv, Checking, Fork, Reap, NoChildLeft, ScanEnds, Return
<1>3. mode' = mode /\ output' = output /\ verdict' = verdict /\ phase' # "compare"
  BY DEF Fork, Reap, NoChildLeft, ScanEnds, Return
<1>4. CompareInv' /\ VerdictsRight' /\ \A g \in File : verdict'[g] = "none"
  BY <1>2, <1>3 DEF CompareInv, VerdictsRight
<1>5. ASSUME NEW f \in File, Fork(f)
      PROVE  HarnessTypeOK' /\ ChildrenInv' /\ OutputInv'
  <2>1. HarnessTypeOK'
    BY <1>1, <1>5 DEF HarnessTypeOK, Fork
  <2>2. ChildrenInv'
    BY <1>1, <1>5 DEF HarnessTypeOK, ChildrenInv, Checking, Finished, Fork
  <2>3. OutputInv'
    BY <1>1, <1>5 DEF HarnessTypeOK, OutputInv, Fork
  <2> QED BY <2>1, <2>2, <2>3
<1>6. ASSUME NEW f \in File, Reap(f)
      PROVE  HarnessTypeOK' /\ ChildrenInv' /\ OutputInv'
  <2>1. HarnessTypeOK' /\ OutputInv'
    <3>1. HarnessTypeOK'
      BY <1>1, <1>6 DEF HarnessTypeOK, Reap
    <3>2. OutputInv'
      BY <1>1, <1>6 DEF OutputInv, Reap
    <3> QED BY <3>1, <3>2
  <2>2. mode = "all" => f = current
    BY <1>1, <1>6 DEF ChildrenInv, Children, Reap
  <2>3. ChildrenInv'
    BY <1>1, <1>6, <2>2 DEF HarnessTypeOK, ChildrenInv, Checking, Finished, Reap
  <2> QED BY <2>1, <2>3
<1>7. CASE NoChildLeft
  <2>1. HarnessTypeOK' /\ OutputInv'
    BY <1>1, <1>7 DEF HarnessTypeOK, OutputInv, NoChildLeft
  <2>2. ChildrenInv'
    BY <1>1, <1>7 DEF HarnessTypeOK, ChildrenInv, Checking, Finished, Children, NoChildLeft
  <2> QED BY <1>2, <1>4, <2>1, <2>2 DEF SettledInv
<1>8. CASE ScanEnds \/ Return
  <2>1. HarnessTypeOK' /\ OutputInv'
    BY <1>1, <1>8 DEF HarnessTypeOK, OutputInv, ScanEnds, Return
  <2>2. ChildrenInv'
    BY <1>1, <1>8 DEF HarnessTypeOK, ChildrenInv, Checking, Finished, ScanEnds, Return
  <2> QED BY <1>2, <1>4, <2>1, <2>2 DEF SettledInv
<1> QED BY <1>4, <1>5, <1>6, <1>7, <1>8 DEF SettledInv

(* What a getline that finds a line does.                                  *)
LEMMA GetlineReads ==
  ASSUME NEW file, file.lines \in Seq(STRING),
         NEW n \in 1 .. Len(file.lines), NEW text
  PROVE  LET g == Getline([file |-> file, next |-> n, state |-> "good"], text)
         IN /\ g.ok /\ g.text = file.lines[n]
            /\ g.stream = [file |-> file, next |-> n + 1,
                           state |-> IF n + 1 <= Len(file.lines) \/ file.newline
                                     THEN "good" ELSE "bad"]
<1> DEFINE st == [file |-> file, next |-> n, state |-> "good"]
           state_ == IF n < Len(file.lines) \/ file.newline THEN "good" ELSE "bad"
<1>1. Len(file.lines) \in Nat /\ ~(n > Len(file.lines)) /\ n \in Nat
  OBVIOUS
<1>2. n < Len(file.lines) <=> n + 1 <= Len(file.lines)
  BY <1>1
<1>3. Getline(st, text) = [ok |-> TRUE, text |-> file.lines[n],
                           stream |-> [file |-> file, next |-> n + 1, state |-> state_]]
  BY <1>1 DEF Getline, AtEnd
<1> HIDE DEF state_
<1>4. state_ = IF n + 1 <= Len(file.lines) \/ file.newline THEN "good" ELSE "bad"
  BY <1>2 DEF state_
<1> QED BY <1>3, <1>4

(* Opening the two files of a script whose process is settled.             *)
LEMMA OpenPairKeeps ==
  ASSUME SettledInv, NEW f \in File, OpenPair(f)
  PROVE  SettledInv'
<1> USE DEF childVars
<1>1. /\ HarnessTypeOK /\ ChildrenInv /\ OutputInv /\ VerdictsRight
      /\ phase = "check" /\ phase' = "compare" /\ f \in todo /\ todo' = todo \ {f}
      /\ current' = f /\ mode' = mode /\ verdict' = verdict
      /\ UNCHANGED <<reaped, failed, child, output>>
  BY DEF SettledInv, OpenPair
<1>2. HarnessTypeOK' /\ OutputInv' /\ VerdictsRight'
  BY <1>1 DEF HarnessTypeOK, OutputInv, VerdictsRight
<1>3. ChildrenInv' /\ child[f] \in {"exited", "died"}
  BY <1>1 DEF HarnessTypeOK, ChildrenInv, Checking, Finished
<1>4. CompareInv'
  <2> SUFFICES ASSUME mode # "print" PROVE CompareInv'
    BY <1>1 DEF CompareInv
  <2>1. output[f].exists
    BY <1>1, <1>3 DEF OutputInv, Produced
  <2>2. /\ Expected[f] \in Seq(STRING) /\ Len(Expected[f]) \in Nat /\ Len(Expected[f]) > 0
        /\ Len(output[f].lines) \in Nat
    <3>1. Expected[f] \in Seq(STRING) /\ Len(Expected[f]) > 0
      BY ExpectedAssumption
    <3>2. output[f].lines \in Seq(STRING)
      BY <1>1 DEF HarnessTypeOK, Contents
    <3> QED BY <3>1, <3>2
  <2>3. /\ resultFile' = [file |-> Provided(Expected[f]), next |-> 1, state |-> "good"]
        /\ outputFile' = [file |-> output[f], next |-> 1, state |-> "good"]
        /\ resultLine' = outputLine'
    BY <2>1 DEF OpenPair, Open, Provided
  <2> QED BY <1>1, <2>2, <2>3 DEF CompareInv
<1> QED BY <1>1, <1>2, <1>3, <1>4 DEF SettledInv, Checking

(* A turn of the comparison loop.                                          *)
LEMMA CompareLineKeeps ==
  ASSUME SettledInv, CompareLine
  PROVE  SettledInv'
<1> USE DEF childVars
<1>1. /\ HarnessTypeOK /\ ChildrenInv /\ OutputInv /\ VerdictsRight /\ CompareInv
      /\ phase = "compare"
      /\ UNCHANGED <<mode, todo, current, reaped, failed, child, output>>
  BY DEF SettledInv, CompareLine
<1>2. \/ phase' = "compare" /\ verdict' = verdict
      \/ /\ phase' = "check"
         /\ \E v \in {"pass", "fail"} : verdict' = [verdict EXCEPT ![current] = v]
  BY <1>1 DEF CompareLine
<1>3. HarnessTypeOK' /\ ChildrenInv' /\ OutputInv' /\ Checking'
  <2>1. verdict' \in [File -> {"none", "pass", "fail"}]
    BY <1>1, <1>2 DEF HarnessTypeOK
  <2>2. HarnessTypeOK'
    BY <1>1, <1>2, <2>1 DEF HarnessTypeOK
  <2>3. ChildrenInv' /\ OutputInv' /\ Checking'
    BY <1>1, <1>2 DEF ChildrenInv, OutputInv, Checking, Finished
  <2> QED BY <2>2, <2>3
<1>4. CASE mode = "print"
  BY <1>1, <1>3, <1>4 DEF SettledInv, CompareInv, VerdictsRight
<1>5. CASE mode # "print"
  <2> DEFINE E == Expected[current]
             L == output[current].lines
             n == resultFile.next
  <2>1. /\ current \in File /\ E \in Seq(STRING) /\ Len(E) \in Nat /\ Len(E) > 0
        /\ L \in Seq(STRING) /\ Len(L) \in Nat
        /\ \A k \in 1 .. Len(E) : E[k] # Blank
        /\ output[current].newline = TRUE
    <3>1. current \in File /\ L \in Seq(STRING) /\ output[current].newline = TRUE
      BY <1>1 DEF HarnessTypeOK, Contents
    <3>2. /\ E \in Seq(STRING) /\ Len(E) > 0
          /\ \A k \in DOMAIN E : E[k] # Blank
      BY <3>1, ExpectedAssumption
    <3> QED BY <3>1, <3>2
  <2>2. /\ n \in 1 .. Len(E) + 1 /\ n <= Len(L) + 1
        /\ resultFile = [file |-> Provided(E), next |-> n,
                         state |-> IF n <= Len(E) THEN "good" ELSE "bad"]
        /\ outputFile = [file |-> output[current], next |-> n, state |-> "good"]
        /\ \A k \in 1 .. n - 1 : E[k] = L[k]
        /\ resultLine = outputLine
    BY <1>1, <1>5 DEF CompareInv
  <2>3. IsPrefix(E, L) <=> Len(E) <= Len(L) /\ \A k \in 1 .. Len(E) : E[k] = L[k]
    BY <2>1, PrefixByLine
  <2>4. child[current] \in {"exited", "died"} /\ (child[current] = "died" => Len(L) = 0)
    <3>1. child[current] \in {"exited", "died"}
      BY <1>1 DEF ChildrenInv, Checking, Finished, HarnessTypeOK
    <3>2. child[current] = "died" => L = <<>>
      BY <1>1, <1>5, <2>1 DEF OutputInv, Produced
    <3>3. Len(<<>>) = 0
      OBVIOUS
    <3> QED BY <3>1, <3>2, <3>3
\* The loop goes on, or ends with the right verdict.
  <2>5. \/ /\ n <= Len(E) /\ n <= Len(L) /\ E[n] = L[n]
           /\ phase' = "compare" /\ verdict' = verdict
           /\ resultLine' = E[n] /\ outputLine' = L[n]
           /\ resultFile' = [file |-> Provided(E), next |-> n + 1,
                             state |-> IF n + 1 <= Len(E) THEN "good" ELSE "bad"]
           /\ outputFile' = [file |-> output[current], next |-> n + 1, state |-> "good"]
        \/ /\ phase' = "check"
           /\ verdict' = [verdict EXCEPT ![current] =
                             IF n > Len(E) THEN "pass" ELSE "fail"]
           /\ n <= Len(L) /\ n <= Len(E) => E[n] # L[n]
    <3> DEFINE R == Getline(resultFile, resultLine)
               O == Getline(outputFile, outputLine)
    <3>1. CASE n > Len(E)
      <4>1. ~R.ok /\ R.text = resultLine
        BY <2>1, <2>2, <3>1 DEF Getline, AtEnd
      <4> HIDE DEF R, O
      <4>2. /\ phase' = "check"
            /\ verdict' = [verdict EXCEPT ![current] =
                              IF R.text = outputLine THEN "pass" ELSE "fail"]
        BY <4>1 DEF CompareLine, R, O
      <4> QED BY <2>1, <2>2, <3>1, <4>1, <4>2
    <3>2. CASE n <= Len(E)
      <4>1. /\ R.ok /\ R.text = E[n]
            /\ R.stream = [file |-> Provided(E), next |-> n + 1,
                           state |-> IF n + 1 <= Len(E) THEN "good" ELSE "bad"]
        <5> DEFINE F == resultFile.file
        <5>1. F = Provided(E) /\ F.lines = E /\ F.newline = FALSE /\ n \in 1 .. Len(E)
          BY <2>1, <2>2, <3>2 DEF Provided
        <5>2. resultFile = [file |-> F, next |-> n, state |-> "good"]
          BY <2>2, <3>2, <5>1
        <5>3. LET g == Getline([file |-> F, next |-> n, state |-> "good"], resultLine)
              IN /\ g.ok /\ g.text = F.lines[n]
                 /\ g.stream = [file |-> F, next |-> n + 1,
                                state |-> IF n + 1 <= Len(F.lines) \/ F.newline
                                          THEN "good" ELSE "bad"]
          <6>1. F.lines \in Seq(STRING) /\ n \in 1 .. Len(F.lines)
            BY <2>1, <5>1
          <6> HIDE DEF F, n
          <6> QED BY ONLY <6>1, GetlineReads
        <5> HIDE DEF F, E, n
        <5> QED BY <5>1, <5>2, <5>3
      <4>2. n > Len(L) => ~O.ok /\ O.text = Blank
        BY <2>1, <2>2 DEF Getline, AtEnd
      <4>3. n <= Len(L) => /\ O.ok /\ O.text = L[n]
                           /\ O.stream = [file |-> output[current], next |-> n + 1,
                                          state |-> "good"]
        BY <2>1, <2>2, GetlineReads
      <4>4. E[n] # Blank
        BY <2>1, <2>2, <3>2
      <4> HIDE DEF R, O
      <4>5. /\ resultFile' = R.stream /\ resultLine' = R.text
            /\ outputFile' = O.stream /\ outputLine' = O.text
            /\ IF O.ok /\ R.text = O.text THEN UNCHANGED <<phase, verdict>>
               ELSE /\ phase' = "check"
                    /\ verdict' = [verdict EXCEPT ![current] =
                                      IF R.text = O.text THEN "pass" ELSE "fail"]
        BY <4>1 DEF CompareLine, R, O
      <4>6. CASE n > Len(L)
        BY <2>1, <2>2, <3>2, <4>1, <4>2, <4>4, <4>5, <4>6
      <4>7. CASE n <= Len(L)
        BY <1>1, <2>1, <2>2, <3>2, <4>1, <4>3, <4>5, <4>7
      <4> QED BY <2>1, <2>2, <4>6, <4>7
    <3> QED BY <2>1, <2>2, <3>1, <3>2
  <2> HIDE DEF E, L, n
  <2>6. CASE phase' = "compare"
    <3>1. /\ n <= Len(E) /\ n <= Len(L) /\ E[n] = L[n] /\ verdict' = verdict
          /\ resultLine' = outputLine'
          /\ resultFile' = [file |-> Provided(E), next |-> n + 1,
                            state |-> IF n + 1 <= Len(E) THEN "good" ELSE "bad"]
          /\ outputFile' = [file |-> output[current], next |-> n + 1, state |-> "good"]
      BY <2>1, <2>2, <2>5, <2>6
    <3>2. n + 1 \in 1 .. Len(E) + 1 /\ n + 1 <= Len(L) + 1
      BY <2>1, <2>2, <3>1
    <3>3. \A k \in 1 .. n : E[k] = L[k]
      BY <2>1, <2>2, <3>1
    <3>4. CompareInv'
      BY <1>1, <2>1, <2>2, <3>1, <3>2, <3>3 DEF CompareInv, E, L
    <3>5. VerdictsRight'
      BY <1>1, <3>1 DEF VerdictsRight
    <3> QED BY <1>3, <3>4, <3>5 DEF SettledInv
  <2>7. CASE phase' # "compare"
    <3>1. /\ verdict' = [verdict EXCEPT ![current] = IF n > Len(E) THEN "pass" ELSE "fail"]
          /\ n <= Len(L) /\ n <= Len(E) => E[n] # L[n]
      BY <2>5, <2>7
    <3>2. n > Len(E) <=> child[current] = "exited" /\ IsPrefix(E, L)
      BY <2>1, <2>2, <2>3, <2>4, <3>1
    <3>3. VerdictsRight'
      BY <1>1, <3>1, <3>2 DEF VerdictsRight, HarnessTypeOK, E, L
    <3>4. CompareInv'
      BY <2>7 DEF CompareInv
    <3> QED BY <1>3, <3>3, <3>4 DEF SettledInv
  <2> QED BY <2>6, <2>7
<1> QED BY <1>4, <1>5

(* The harness keeps its invariant.                                        *)
LEMMA HarnessKeeps == SettledInv /\ [Next]_vars => SettledInv'
<1> SUFFICES ASSUME SettledInv, [Next]_vars PROVE SettledInv'
  OBVIOUS
<1>1. CASE UNCHANGED vars
  BY <1>1 DEF vars, parentVars, childVars, checkVars, SettledInv, HarnessTypeOK,
     ChildrenInv, OutputInv, CompareInv, VerdictsRight, Checking, Finished
<1>2. CASE \E f \in File : ExecuteScript(f)
  BY <1>2, ExecuteKeeps
<1>3. CASE \/ \E f \in File : Fork(f) \/ Reap(f)
           \/ NoChildLeft \/ ScanEnds \/ Return
  BY <1>3, ScanKeeps
<1>4. CASE \E f \in File : OpenPair(f)
  BY <1>4, OpenPairKeeps
<1>5. CASE CompareLine
  BY <1>5, CompareLineKeeps
<1>6. CASE CheckEnds
  <2>1. HarnessTypeOK'
    BY <1>6 DEF CheckEnds, childVars, checkVars, SettledInv, HarnessTypeOK
  <2>2. ChildrenInv' /\ OutputInv' /\ CompareInv'
    BY <1>6 DEF CheckEnds, childVars, SettledInv, ChildrenInv, OutputInv, CompareInv,
                Checking, Finished
  <2>3. VerdictsRight' /\ Checking'
    BY <1>6 DEF CheckEnds, childVars, checkVars, SettledInv, VerdictsRight, Checking
  <2> QED BY <2>1, <2>2, <2>3 DEF SettledInv
<1> QED BY <1>1, <1>2, <1>3, <1>4, <1>5, <1>6 DEF Next, Parent, Terminated

(* In every state the harness can reach its children are in order and the  *)
(* comparison has read the same lines of both files.                       *)
LEMMA Settled == Spec => []SettledInv
BY HarnessStarts, HarnessKeeps, PTL DEF Spec

(* No output file is compared before every script has been executed to its *)
(* end, and what is reported as failed is what failed.                     *)
THEOREM ChildrenAreSettled == Spec => []ChildrenSettled
<1>1. SettledInv => ChildrenSettled
  BY DEF SettledInv, HarnessTypeOK, ChildrenInv, ChildrenSettled, Checking, Finished
<1> QED BY <1>1, Settled, PTL

(* Pass means that the process of this run came to its end and its file    *)
(* starts with all the expected lines.                                     *)
THEOREM VerdictsAreRight == Spec => []VerdictsRight
<1>1. SettledInv => VerdictsRight
  BY DEF SettledInv
<1> QED BY <1>1, Settled, PTL

-----------------------------------------------------------------------------
(* Sequences of symbols.                                                   *)

(* A sequence of one is its element.                                       *)
LEMMA Singleton ==
  ASSUME NEW S, NEW s \in Seq(S), Len(s) = 1
  PROVE  s = <<s[1]>>
<1>1. s = [k \in 1 .. 1 |-> s[k]]
  OBVIOUS
<1>2. <<s[1]>> \in Seq(S) /\ Len(<<s[1]>>) = 1 /\ <<s[1]>>[1] = s[1]
  OBVIOUS
<1> QED BY <1>2, SeqEqual

(* Symbols of a line, one or more.                                         *)
LEMMA OneSymbol ==
  ASSUME NEW S, NEW s \in Seq(S), NEW k \in 1 .. Len(s)
  PROVE  SubSeq(s, k, k) = <<s[k]>>
<1>1. /\ SubSeq(s, k, k) \in Seq(S) /\ Len(SubSeq(s, k, k)) = 1
      /\ SubSeq(s, k, k)[1] = s[k]
  OBVIOUS
<1> QED BY <1>1, Singleton

LEMMA PartOf ==
  ASSUME NEW S, NEW s \in Seq(S), NEW m \in 1 .. Len(s), NEW n \in m .. Len(s)
  PROVE  /\ SubSeq(s, m, n) \in Seq(S) /\ Len(SubSeq(s, m, n)) = n - m + 1
         /\ \A k \in 1 .. n - m + 1 : SubSeq(s, m, n)[k] = s[m + k - 1]
BY SubSeqProperties

(* What it is for a line to start with a word, of one symbol or of two.    *)
LEMMA StartsWithOne ==
  ASSUME NEW S, NEW s \in Seq(S), NEW w, Len(s) >= 1
  PROVE  IsPrefix(<<w>>, s) <=> s[1] = w
<1>1. SubSeq(s, 1, 1) = [k \in 1 .. 1 |-> s[k]]
  OBVIOUS
<1>2. SubSeq(<<w>>, 1, 1) = [k \in 1 .. 1 |-> w]
  OBVIOUS
<1>3. [k \in 1 .. 1 |-> s[k]] = [k \in 1 .. 1 |-> w] <=> s[1] = w
  OBVIOUS
<1> QED BY <1>1, <1>2, <1>3 DEF IsPrefix

LEMMA StartsWithTwo ==
  ASSUME NEW S, NEW s \in Seq(S), NEW v, NEW w, Len(s) >= 2
  PROVE  IsPrefix(<<v, w>>, s) <=> s[1] = v /\ s[2] = w
<1> DEFINE f == [k \in 1 .. 2 |-> IF k = 1 THEN v ELSE w]
<1>1. SubSeq(s, 1, 2) = [k \in 1 .. 2 |-> s[k]]
  OBVIOUS
<1>2. SubSeq(<<v, w>>, 1, 2) = f
  OBVIOUS
<1>3. [k \in 1 .. 2 |-> s[k]] = f <=> s[1] = v /\ s[2] = w
  OBVIOUS
<1> QED BY <1>1, <1>2, <1>3 DEF IsPrefix

(* find_first_of returns the place of the first such symbol, 0 if there is *)
(* none.                                                                   *)
LEMMA FirstOfIs ==
  ASSUME NEW S, NEW s \in Seq(S), NEW symbol, NEW k \in 1 .. Len(s), s[k] = symbol,
         \A j \in 1 .. k - 1 : s[j] # symbol
  PROVE  FirstOf(s, symbol) = k
<1> DEFINE I == {j \in 1 .. Len(s) : s[j] = symbol}
<1>1. k \in I /\ \A j \in I : k <= j
  OBVIOUS
<1>2. Min(I) = k
  BY <1>1 DEF Min
<1> QED BY <1>1, <1>2 DEF FirstOf, SelectInSeq

LEMMA FirstOfNone ==
  ASSUME NEW S, NEW s \in Seq(S), NEW symbol, \A j \in 1 .. Len(s) : s[j] # symbol
  PROVE  FirstOf(s, symbol) = 0
BY DEF FirstOf, SelectInSeq

(* The text up to the first comma, and the text past it.                   *)
LEMMA SplitAtComma ==
  ASSUME NEW s, NEW k, FirstOf(s, Comma) = k, k # 0
  PROVE  Token(s) = SubSeq(s, 1, k - 1) /\ Rest(s) = SubSeq(s, k + 1, Len(s))
BY Zenon DEF Token, Rest

(* Of the words that a line starts with, the first in the order of the     *)
(* branches counts.                                                        *)
LEMMA FirstWordIs ==
  ASSUME NEW s, NEW k \in 1 .. 8, IsPrefix(Keywords[k].word, s),
         \A j \in 1 .. k - 1 : ~IsPrefix(Keywords[j].word, s)
  PROVE  FirstWord(s) = k
<1> DEFINE I == {j \in 1 .. Len(Keywords) : IsPrefix(Keywords[j].word, s)}
<1>1. Len(Keywords) = 8
  BY DEF Keywords
<1>2. k \in I /\ \A j \in I : k <= j
  BY <1>1
<1>3. Min(I) = k
  BY <1>2 DEF Min
<1> QED BY <1>2, <1>3 DEF FirstWord, SelectInSeq

(* The words: a line of at least two symbols is recognised by its first,   *)
(* or its first two.                                                       *)
LEMMA WordOf ==
  ASSUME NEW S, NEW s \in Seq(S), Len(s) >= 2
  PROVE  /\ s[1] = "begin" /\ s[2] = "RO" => FirstWord(s) = 1
         /\ s[1] = "begin" /\ s[2] # "RO" => FirstWord(s) = 2
         /\ s[1] = "end" => FirstWord(s) = 3
         /\ s[1] = "dump" => FirstWord(s) = 4
         /\ s[1] = "recover" => FirstWord(s) = 5
         /\ s[1] = "fail" => FirstWord(s) = 6
         /\ s[1] = "W" => FirstWord(s) = 7
         /\ s[1] = "R" => FirstWord(s) = 8
         /\ s[1] = "commit" => FirstWord(s) = 0
<1> DEFINE word(k) == Keywords[k].word
<1>1. /\ word(1) = <<"begin", "RO">> /\ word(2) = <<"begin">> /\ word(3) = <<"end">>
      /\ word(4) = <<"dump">> /\ word(5) = <<"recover">> /\ word(6) = <<"fail">>
      /\ word(7) = <<"W">> /\ word(8) = <<"R">>
  BY DEF Keywords
<1>2. /\ IsPrefix(word(1), s) <=> s[1] = "begin" /\ s[2] = "RO"
      /\ IsPrefix(word(2), s) <=> s[1] = "begin"
      /\ IsPrefix(word(3), s) <=> s[1] = "end"
      /\ IsPrefix(word(4), s) <=> s[1] = "dump"
      /\ IsPrefix(word(5), s) <=> s[1] = "recover"
      /\ IsPrefix(word(6), s) <=> s[1] = "fail"
      /\ IsPrefix(word(7), s) <=> s[1] = "W"
      /\ IsPrefix(word(8), s) <=> s[1] = "R"
  BY <1>1, StartsWithOne, StartsWithTwo
<1> DEFINE P(k) == IsPrefix(word(k), s)
<1>3. \A k \in 1 .. 8 : P(k) /\ (\A j \in 1 .. k - 1 : ~P(j)) => FirstWord(s) = k
  BY FirstWordIs
<1>4. (\A k \in 1 .. 8 : ~P(k)) => FirstWord(s) = 0
  <2>1. Len(Keywords) = 8
    BY DEF Keywords
  <2> QED BY <2>1 DEF FirstWord, SelectInSeq
<1> HIDE DEF word
<1> QED BY <1>2, <1>3, <1>4

(* Reading the numeral of a number gives the number.                       *)
LEMMA StoiNumeral ==
  ASSUME NEW n \in Numbers
  PROVE  Stoi(<<ToString(n)>>) = n /\ n # NoNumber
<1>1. n \in Nat
  <2>1. MaxNumber \in Nat
    BY NumeralAssumption
  <2> QED BY <2>1 DEF Numbers
<1>2. {m \in Numbers : <<ToString(n)>> # <<>> /\ <<ToString(n)>>[1] = ToString(m)} = {n}
  BY NumeralAssumption
<1> QED BY <1>1, <1>2 DEF Stoi, NoNumber


\* The symbols of the lines.
Symbols ==
  {"begin", "RO", "end", "dump", "recover", "fail", "W", "R", "commit",
   "(", ")", Comma, "T", "x", "1"} \cup {ToString(n) : n \in Numbers}

(* The symbols of a line, one by one.                                      *)
LEMMA SymbolsOf ==
  /\ {"begin", "RO", "end", "dump", "recover", "fail", "W", "R", "commit",
      "(", ")", Comma, "T", "x", "1"} \subseteq Symbols
  /\ \A n \in Numbers : ToString(n) \in Symbols /\ ToString(n) \notin {"(", ")", Comma}
  /\ Comma \notin {"(", ")", "T", "x", "W", "R"}
BY NumeralAssumption DEF Symbols, Comma

(* begin and end: the number past the letter T.                            *)
LEMMA BeginFields ==
  ASSUME NEW n \in Numbers, NEW w \in {"begin", "end"}, NEW type \in {"BEGIN", "END"}
  PROVE  LET l == <<w, "(", "T", ToString(n), ")">>
         IN /\ l \in Seq(Symbols) /\ Len(l) = 5 /\ l[1] = w /\ l[2] = "("
            /\ Fields(type, l) = [type |-> type, tran |-> n]
<1> DEFINE l == <<w, "(", "T", ToString(n), ")">>
<1>1. l \in Seq(Symbols)
  <2>1. /\ w \in Symbols /\ "(" \in Symbols /\ "T" \in Symbols
        /\ ToString(n) \in Symbols /\ ")" \in Symbols
    BY SymbolsOf
  <2> QED BY <2>1
<1>2. /\ Len(l) = 5
      /\ l[1] = w /\ l[2] = "(" /\ l[3] = "T" /\ l[4] = ToString(n) /\ l[5] = ")"
  OBVIOUS
<1> HIDE DEF l
<1>3. FirstOf(l, "(") = 2
  <2>1. l[1] # "("
    BY <1>2
  <2>2. \A j \in 1 .. 2 - 1 : l[j] # "("
    BY <2>1
  <2> QED BY <1>1, <1>2, <2>2, FirstOfIs
<1>4. FirstOf(l, ")") = 5
  <2>1. l[1] # ")" /\ l[2] # ")" /\ l[3] # ")" /\ l[4] # ")"
    BY <1>2, SymbolsOf
  <2>2. \A j \in 1 .. 5 - 1 : l[j] # ")"
    BY <2>1
  <2> QED BY <1>1, <1>2, <2>2, FirstOfIs
<1>5. SubSeq(l, 4, 4) = <<ToString(n)>>
  BY <1>1, <1>2, OneSymbol
<1>6. Stoi(SubSeq(l, 4, 4)) = n
  BY <1>5, StoiNumeral
<1>7. Fields(type, l) = [type |-> type, tran |-> n]
  BY <1>3, <1>4, <1>6 DEF Fields
<1> QED BY <1>1, <1>2, <1>7 DEF l

(* The rest of the constructor, once the branch and its fields are known.  *)
LEMMA ParseIs ==
  ASSUME NEW s, NEW k, k # 0, FirstWord(s) = k, NEW i, Fields(Keywords[k].type, s) = i,
         \A f \in DOMAIN i \ {"type"} : i[f] # NoNumber
  PROVE  Parse(s) = i
BY Zenon DEF Parse

LEMMA KeywordTypes ==
  /\ Keywords[1].type = "BEGINO" /\ Keywords[2].type = "BEGIN" /\ Keywords[3].type = "END"
  /\ Keywords[4].type = "DUMP" /\ Keywords[5].type = "RECOVER" /\ Keywords[6].type = "FAIL"
  /\ Keywords[7].type = "WRITE" /\ Keywords[8].type = "READ"
BY DEF Keywords

(* beginRO: its word is two symbols.                                       *)
LEMMA BeginROFields ==
  ASSUME NEW n \in Numbers
  PROVE  LET l == <<"begin", "RO", "(", "T", ToString(n), ")">>
         IN /\ l \in Seq(Symbols) /\ Len(l) = 6 /\ l[1] = "begin" /\ l[2] = "RO"
            /\ Fields("BEGINO", l) = [type |-> "BEGINO", tran |-> n]
<1> DEFINE l == <<"begin", "RO", "(", "T", ToString(n), ")">>
<1>1. l \in Seq(Symbols)
  <2>1. /\ "begin" \in Symbols /\ "RO" \in Symbols /\ "(" \in Symbols /\ "T" \in Symbols
        /\ ToString(n) \in Symbols /\ ")" \in Symbols
    BY SymbolsOf
  <2> QED BY <2>1
<1>2. /\ Len(l) = 6 /\ l[1] = "begin" /\ l[2] = "RO" /\ l[3] = "("
      /\ l[4] = "T" /\ l[5] = ToString(n) /\ l[6] = ")"
  OBVIOUS
<1> HIDE DEF l
<1>3. FirstOf(l, "(") = 3
  <2>1. \A j \in 1 .. 3 - 1 : l[j] # "("
    BY <1>2
  <2> QED BY <1>1, <1>2, <2>1, FirstOfIs
<1>4. FirstOf(l, ")") = 6
  <2>1. l[5] # ")"
    BY <1>2, SymbolsOf
  <2>2. \A j \in 1 .. 6 - 1 : l[j] # ")"
    BY <1>2, <2>1
  <2> QED BY <1>1, <1>2, <2>2, FirstOfIs
<1>5. SubSeq(l, 5, 5) = <<ToString(n)>>
  <2>1. 5 \in 1 .. Len(l)
    BY <1>2
  <2>2. SubSeq(l, 5, 5) = <<l[5]>>
    BY ONLY <1>1, <2>1, OneSymbol
  <2> QED BY <1>2, <2>2
<1>6. Stoi(SubSeq(l, 5, 5)) = n
  BY <1>5, StoiNumeral
<1>7. Fields("BEGINO", l) = [type |-> "BEGINO", tran |-> n]
  BY <1>3, <1>4, <1>6 DEF Fields
<1> QED BY <1>1, <1>2, <1>7 DEF l

(* fail and recover: the number is not past a letter.                      *)
LEMMA SiteFields ==
  ASSUME NEW n \in Numbers, NEW w \in {"recover", "fail"}, NEW type \in {"RECOVER", "FAIL"}
  PROVE  LET l == <<w, "(", ToString(n), ")">>
         IN /\ l \in Seq(Symbols) /\ Len(l) = 4 /\ l[1] = w
            /\ Fields(type, l) = [type |-> type, site |-> n]
<1> DEFINE l == <<w, "(", ToString(n), ")">>
<1>1. l \in Seq(Symbols)
  <2>1. w \in Symbols /\ "(" \in Symbols /\ ToString(n) \in Symbols /\ ")" \in Symbols
    BY SymbolsOf
  <2> QED BY <2>1
<1>2. Len(l) = 4 /\ l[1] = w /\ l[2] = "(" /\ l[3] = ToString(n) /\ l[4] = ")"
  OBVIOUS
<1> HIDE DEF l
<1>3. FirstOf(l, "(") = 2
  <2>1. \A j \in 1 .. 2 - 1 : l[j] # "("
    BY <1>2
  <2> QED BY <1>1, <1>2, <2>1, FirstOfIs
<1>4. FirstOf(l, ")") = 4
  <2>1. l[1] # ")" /\ l[2] # ")" /\ l[3] # ")"
    BY <1>2, SymbolsOf
  <2>2. \A j \in 1 .. 4 - 1 : l[j] # ")"
    BY <2>1
  <2> QED BY <1>1, <1>2, <2>2, FirstOfIs
<1>5. SubSeq(l, 3, 3) = <<ToString(n)>>
  BY <1>1, <1>2, OneSymbol
<1>6. Stoi(SubSeq(l, 3, 3)) = n
  BY <1>5, StoiNumeral
<1>7. Fields(type, l) = [type |-> type, site |-> n]
  BY <1>3, <1>4, <1>6 DEF Fields
<1> QED BY <1>1, <1>2, <1>7 DEF l

(* All but the first of two symbols.                                       *)
LEMMA TailOfTwo ==
  ASSUME NEW S, NEW s \in Seq(S), Len(s) = 2
  PROVE  Tail(s) = <<s[2]>>
<1>1. s # <<>>
  OBVIOUS
<1>2. Tail(s) \in Seq(S) /\ Len(Tail(s)) = 1 /\ Tail(s)[1] = s[2]
  BY <1>1, HeadTailProperties
<1> QED BY <1>2, Singleton

(* The texts between the commas: T's number, x and its number, and, of a W *)
(* line, the value.                                                        *)
LEMMA TokensOf ==
  ASSUME NEW s \in Seq(Symbols), NEW n \in Numbers, NEW x \in Numbers, Len(s) \in {4, 6},
         s[1] = ToString(n), s[2] = Comma, s[3] = "x", s[4] = ToString(x),
         Len(s) = 6 => s[5] = Comma /\ \E v \in Numbers : s[6] = ToString(v)
  PROVE  /\ Stoi(Tokens(s)[1]) = n
         /\ Stoi(Tail(Tokens(s)[2])) = x
         /\ Len(s) = 6 => \A v \in Numbers : s[6] = ToString(v) => Stoi(Tokens(s)[3]) = v
<1> DEFINE r == SubSeq(s, 3, Len(s))
<1>1. FirstOf(s, Comma) = 2
  <2>1. \A j \in 1 .. 2 - 1 : s[j] # Comma
    BY SymbolsOf
  <2> QED BY <2>1, FirstOfIs
<1>2. Token(s) = SubSeq(s, 1, 2 - 1) /\ Rest(s) = SubSeq(s, 2 + 1, Len(s))
  BY <1>1, SplitAtComma, 2 # 0
<1>3. Token(s) = <<ToString(n)>> /\ Rest(s) = r
  <2>1. SubSeq(s, 1, 1) = <<s[1]>>
    BY OneSymbol
  <2> QED BY <1>2, <2>1
<1>4. /\ r \in Seq(Symbols) /\ Len(r) = Len(s) - 2
      /\ r[1] = "x" /\ r[2] = ToString(x)
      /\ Len(s) = 6 => r[3] = Comma /\ r[4] = s[6]
  BY PartOf
<1> HIDE DEF r
<1>5. r[1] # Comma /\ r[2] # Comma
  BY <1>4, SymbolsOf
<1>6. Token(r) = SubSeq(r, 1, 2)
  <2>1. CASE Len(s) = 4
    <3>1. \A j \in 1 .. Len(r) : r[j] # Comma
      BY <1>4, <1>5, <2>1
    <3>2. FirstOf(r, Comma) = 0
      BY <1>4, <3>1, FirstOfNone
    <3>3. SubSeq(r, 1, 2) = r
      BY <1>4, <2>1
    <3> QED BY <3>2, <3>3, Zenon DEF Token
  <2>2. CASE Len(s) = 6
    <3>1. \A j \in 1 .. 3 - 1 : r[j] # Comma
      BY <1>5
    <3>0. r \in Seq(Symbols) /\ r[3] = Comma /\ 3 \in 1 .. Len(r)
      BY <1>4, <2>2
    <3>2. FirstOf(r, Comma) = 3
      BY <3>0, <3>1, FirstOfIs, Zenon
    <3>3. Token(r) = SubSeq(r, 1, 3 - 1)
      BY <3>2, SplitAtComma, 3 # 0
    <3> QED BY <3>3
  <2> QED BY <2>1, <2>2
<1>7. Tail(Token(r)) = <<ToString(x)>>
  <2> DEFINE t == SubSeq(r, 1, 2)
  <2>1. t \in Seq(Symbols) /\ Len(t) = 2 /\ t[2] = ToString(x)
    BY <1>4, PartOf
  <2> HIDE DEF t
  <2> QED BY <1>6, <2>1, TailOfTwo DEF t
<1>8. ASSUME Len(s) = 6, NEW v \in Numbers, s[6] = ToString(v)
      PROVE  Stoi(Token(Rest(r))) = v
  <2> DEFINE q == Rest(r)
  <2>0. Len(r) = 4 /\ r[3] = Comma /\ r[4] = ToString(v)
    BY <1>4, <1>8
  <2>1. q = SubSeq(r, 4, 4)
    <3>1. \A j \in 1 .. 3 - 1 : r[j] # Comma
      BY <1>5
    <3>2. FirstOf(r, Comma) = 3
      BY ONLY <1>4, <2>0, <3>1, 3 \in 1 .. 4, FirstOfIs
    <3>3. Rest(r) = SubSeq(r, 3 + 1, Len(r))
      BY <3>2, SplitAtComma, 3 # 0
    <3> QED BY <2>0, <3>3
  <2>2. q = <<ToString(v)>>
    <3>1. SubSeq(r, 4, 4) = <<r[4]>>
      BY ONLY <1>4, <2>0, 4 \in 1 .. 4, OneSymbol
    <3> QED BY <2>0, <2>1, <3>1
  <2>3. q \in Seq(Symbols) /\ Len(q) = 1 /\ q[1] = ToString(v)
    BY <2>2, SymbolsOf
  <2> HIDE DEF q
  <2>4. \A j \in 1 .. Len(q) : q[j] # Comma
    BY <2>3, SymbolsOf
  <2>5. FirstOf(q, Comma) = 0
    BY <2>3, <2>4, FirstOfNone
  <2>6. Token(q) = q
    BY <2>5, Zenon DEF Token
  <2> QED BY <2>2, <2>6, StoiNumeral DEF q
<1>9. Tokens(s) = <<Token(s), Token(r), Token(Rest(r))>>
  BY <1>3, Zenon DEF Tokens
<1>10. /\ Tokens(s)[1] = Token(s) /\ Tokens(s)[2] = Token(r)
       /\ Tokens(s)[3] = Token(Rest(r))
  BY <1>9
<1> QED BY <1>3, <1>7, <1>8, <1>10, StoiNumeral

(* R: the numbers of T and x.                                              *)
LEMMA ReadFields ==
  ASSUME NEW n \in Numbers, NEW x \in Numbers
  PROVE  LET l == <<"R", "(", "T", ToString(n), Comma, "x", ToString(x), ")">>
         IN /\ l \in Seq(Symbols) /\ Len(l) = 8 /\ l[1] = "R"
            /\ Fields("READ", l) = [type |-> "READ", tran |-> n, var |-> x]
<1> DEFINE l == <<"R", "(", "T", ToString(n), Comma, "x", ToString(x), ")">>
           s == SubSeq(l, 4, 7)
<1>1. l \in Seq(Symbols)
  <2>1. /\ "R" \in Symbols /\ "(" \in Symbols /\ "T" \in Symbols /\ Comma \in Symbols
        /\ ToString(n) \in Symbols /\ "x" \in Symbols /\ ToString(x) \in Symbols /\ ")" \in Symbols
    BY SymbolsOf
  <2> QED BY <2>1
<1>2. /\ Len(l) = 8 /\ l[1] = "R" /\ l[2] = "(" /\ l[3] = "T" /\ l[4] = ToString(n)
      /\ l[5] = Comma /\ l[6] = "x" /\ l[7] = ToString(x) /\ l[8] = ")"
  OBVIOUS
<1> HIDE DEF l
<1>3. FirstOf(l, "(") = 2
  <2>1. \A j \in 1 .. 2 - 1 : l[j] # "("
    BY <1>2
  <2> QED BY ONLY <1>1, <1>2, <2>1, 2 \in 1 .. 8, FirstOfIs
<1>4. FirstOf(l, ")") = 8
  <2>1. l[4] # ")" /\ l[5] # ")" /\ l[7] # ")"
    BY <1>2, SymbolsOf
  <2>2. \A j \in 1 .. 8 - 1 : l[j] # ")"
    BY <1>2, <2>1
  <2> QED BY ONLY <1>1, <1>2, <2>2, 8 \in 1 .. 8, FirstOfIs
<1>5. /\ s \in Seq(Symbols) /\ Len(s) = 4 /\ s[1] = ToString(n) /\ s[2] = Comma
      /\ s[3] = "x" /\ s[4] = ToString(x)
  <2>1. 4 \in 1 .. Len(l) /\ 7 \in 4 .. Len(l)
    BY <1>2
  <2>2. /\ s \in Seq(Symbols) /\ Len(s) = 7 - 4 + 1
        /\ \A k \in 1 .. 7 - 4 + 1 : s[k] = l[4 + k - 1]
    BY ONLY <1>1, <2>1, PartOf
  <2> HIDE DEF s
  <2> QED BY <1>2, <2>2
<1>6. Stoi(Tokens(s)[1]) = n /\ Stoi(Tail(Tokens(s)[2])) = x
  <2> HIDE DEF s
  <2> QED BY <1>5, TokensOf
<1>7. Fields("READ", l) = [type |-> "READ", tran |-> n, var |-> x]
  BY <1>3, <1>4, <1>6 DEF Fields
<1> QED BY <1>1, <1>2, <1>7 DEF l

(* W: the value too.                                                       *)
LEMMA WriteFields ==
  ASSUME NEW n \in Numbers, NEW x \in Numbers, NEW v \in Numbers
  PROVE  LET l == <<"W", "(", "T", ToString(n), Comma, "x", ToString(x), Comma, ToString(v), ")">>
         IN /\ l \in Seq(Symbols) /\ Len(l) = 10 /\ l[1] = "W"
            /\ Fields("WRITE", l) = [type |-> "WRITE", tran |-> n, var |-> x, value |-> v]
<1> DEFINE l == <<"W", "(", "T", ToString(n), Comma, "x", ToString(x), Comma, ToString(v), ")">>
           s == SubSeq(l, 4, 9)
<1>1. l \in Seq(Symbols)
  <2>1. /\ "W" \in Symbols /\ "(" \in Symbols /\ "T" \in Symbols /\ Comma \in Symbols
        /\ ToString(n) \in Symbols /\ "x" \in Symbols /\ ToString(x) \in Symbols
        /\ ToString(v) \in Symbols /\ ")" \in Symbols
    BY SymbolsOf
  <2> QED BY <2>1
<1>2. /\ Len(l) = 10 /\ l[1] = "W" /\ l[2] = "(" /\ l[3] = "T" /\ l[4] = ToString(n)
      /\ l[5] = Comma /\ l[6] = "x" /\ l[7] = ToString(x) /\ l[8] = Comma
      /\ l[9] = ToString(v) /\ l[10] = ")"
  OBVIOUS
<1> HIDE DEF l
<1>3. FirstOf(l, "(") = 2
  <2>1. \A j \in 1 .. 2 - 1 : l[j] # "("
    BY <1>2
  <2> QED BY ONLY <1>1, <1>2, <2>1, 2 \in 1 .. 10, FirstOfIs
<1>4. FirstOf(l, ")") = 10
  <2>1. l[4] # ")" /\ l[5] # ")" /\ l[7] # ")" /\ l[8] # ")" /\ l[9] # ")"
    BY <1>2, SymbolsOf
  <2>2. \A j \in 1 .. 10 - 1 : l[j] # ")"
    BY <1>2, <2>1
  <2> QED BY ONLY <1>1, <1>2, <2>2, 10 \in 1 .. 10, FirstOfIs
<1>5. /\ s \in Seq(Symbols) /\ Len(s) = 6 /\ s[1] = ToString(n) /\ s[2] = Comma
      /\ s[3] = "x" /\ s[4] = ToString(x) /\ s[5] = Comma /\ s[6] = ToString(v)
  <2>1. 4 \in 1 .. Len(l) /\ 9 \in 4 .. Len(l)
    BY <1>2
  <2>2. /\ s \in Seq(Symbols) /\ Len(s) = 9 - 4 + 1
        /\ \A k \in 1 .. 9 - 4 + 1 : s[k] = l[4 + k - 1]
    BY ONLY <1>1, <2>1, PartOf
  <2> HIDE DEF s
  <2> QED BY <1>2, <2>2
<1>6. /\ Stoi(Tokens(s)[1]) = n /\ Stoi(Tail(Tokens(s)[2])) = x
      /\ Stoi(Tokens(s)[3]) = v
  <2> HIDE DEF s
  <2> QED BY <1>5, TokensOf
<1>7. Fields("WRITE", l) = [type |-> "WRITE", tran |-> n, var |-> x, value |-> v]
  BY <1>3, <1>4, <1>6 DEF Fields
<1> QED BY <1>1, <1>2, <1>7 DEF l

(* The constructor recovers every instruction from its line in the format  *)
(* of test/input, whatever its numbers are, and tells a line that starts   *)
(* with no word and a line without a number from all others.               *)
THEOREM ParseInvertsFormat == \A i \in Instructions : Parse(Format(i)) = i
<1> SUFFICES ASSUME NEW i \in Instructions PROVE Parse(Format(i)) = i
  OBVIOUS
<1>1. CASE i \in [type : {"BEGINO"}, tran : Numbers]
  <2> DEFINE n == i.tran
             l == <<"begin", "RO", "(", "T", ToString(n), ")">>
  <2>1. n \in Numbers /\ i = [type |-> "BEGINO", tran |-> n]
    BY <1>1
  <2>2. Format(i) = l
    BY <2>1 DEF Format
  <2>3. /\ l \in Seq(Symbols) /\ Len(l) = 6 /\ l[1] = "begin" /\ l[2] = "RO"
        /\ Fields("BEGINO", l) = i
    BY <2>1, BeginROFields
  <2>4. n # NoNumber
    BY <2>1, StoiNumeral
  <2> HIDE DEF l, n
  <2>5. FirstWord(l) = 1
    <3>1. Len(l) >= 2
      BY <2>3
    <3> QED BY ONLY <2>3, <3>1, WordOf
  <2>6. \A f \in DOMAIN i \ {"type"} : i[f] # NoNumber
    BY <2>1, <2>4
  <2> QED BY <2>2, <2>3, <2>5, <2>6, ParseIs, KeywordTypes
<1>2. CASE i \in [type : {"BEGIN"}, tran : Numbers]
  <2> DEFINE n == i.tran
             l == <<"begin", "(", "T", ToString(n), ")">>
  <2>1. n \in Numbers /\ i = [type |-> "BEGIN", tran |-> n]
    BY <1>2
  <2>2. Format(i) = l
    BY <2>1 DEF Format
  <2>3. /\ l \in Seq(Symbols) /\ Len(l) = 5 /\ l[1] = "begin" /\ l[2] = "("
        /\ Fields("BEGIN", l) = i
    BY <2>1, BeginFields
  <2>4. n # NoNumber
    BY <2>1, StoiNumeral
  <2> HIDE DEF l, n
  <2>5. FirstWord(l) = 2
    <3>1. Len(l) >= 2
      BY <2>3
    <3> QED BY ONLY <2>3, <3>1, WordOf
  <2>6. \A f \in DOMAIN i \ {"type"} : i[f] # NoNumber
    BY <2>1, <2>4
  <2> QED BY <2>2, <2>3, <2>5, <2>6, ParseIs, KeywordTypes
<1>3. CASE i \in [type : {"END"}, tran : Numbers]
  <2> DEFINE n == i.tran
             l == <<"end", "(", "T", ToString(n), ")">>
  <2>1. n \in Numbers /\ i = [type |-> "END", tran |-> n]
    BY <1>3
  <2>2. Format(i) = l
    BY <2>1 DEF Format
  <2>3. /\ l \in Seq(Symbols) /\ Len(l) = 5 /\ l[1] = "end"
        /\ Fields("END", l) = i
    BY <2>1, BeginFields
  <2>4. n # NoNumber
    BY <2>1, StoiNumeral
  <2> HIDE DEF l, n
  <2>5. FirstWord(l) = 3
    <3>1. Len(l) >= 2
      BY <2>3
    <3> QED BY ONLY <2>3, <3>1, WordOf
  <2>6. \A f \in DOMAIN i \ {"type"} : i[f] # NoNumber
    BY <2>1, <2>4
  <2> QED BY <2>2, <2>3, <2>5, <2>6, ParseIs, KeywordTypes
<1>4. CASE i \in [type : {"RECOVER"}, site : Numbers]
  <2> DEFINE n == i.site
             l == <<"recover", "(", ToString(n), ")">>
  <2>1. n \in Numbers /\ i = [type |-> "RECOVER", site |-> n]
    BY <1>4
  <2>2. Format(i) = l
    BY <2>1 DEF Format
  <2>3. /\ l \in Seq(Symbols) /\ Len(l) = 4 /\ l[1] = "recover"
        /\ Fields("RECOVER", l) = i
    BY <2>1, SiteFields
  <2>4. n # NoNumber
    BY <2>1, StoiNumeral
  <2> HIDE DEF l, n
  <2>5. FirstWord(l) = 5
    <3>1. Len(l) >= 2
      BY <2>3
    <3> QED BY ONLY <2>3, <3>1, WordOf
  <2>6. \A f \in DOMAIN i \ {"type"} : i[f] # NoNumber
    BY <2>1, <2>4
  <2> QED BY <2>2, <2>3, <2>5, <2>6, ParseIs, KeywordTypes
<1>5. CASE i \in [type : {"FAIL"}, site : Numbers]
  <2> DEFINE n == i.site
             l == <<"fail", "(", ToString(n), ")">>
  <2>1. n \in Numbers /\ i = [type |-> "FAIL", site |-> n]
    BY <1>5
  <2>2. Format(i) = l
    BY <2>1 DEF Format
  <2>3. /\ l \in Seq(Symbols) /\ Len(l) = 4 /\ l[1] = "fail"
        /\ Fields("FAIL", l) = i
    BY <2>1, SiteFields
  <2>4. n # NoNumber
    BY <2>1, StoiNumeral
  <2> HIDE DEF l, n
  <2>5. FirstWord(l) = 6
    <3>1. Len(l) >= 2
      BY <2>3
    <3> QED BY ONLY <2>3, <3>1, WordOf
  <2>6. \A f \in DOMAIN i \ {"type"} : i[f] # NoNumber
    BY <2>1, <2>4
  <2> QED BY <2>2, <2>3, <2>5, <2>6, ParseIs, KeywordTypes
<1>6. CASE i \in [type : {"WRITE"}, tran : Numbers, var : Numbers, value : Numbers]
  <2> DEFINE n == i.tran
             x == i.var
             v == i.value
             l == <<"W", "(", "T", ToString(n), Comma, "x", ToString(x), Comma, ToString(v), ")">>
  <2>1. /\ n \in Numbers /\ x \in Numbers /\ v \in Numbers
        /\ i = [type |-> "WRITE", tran |-> n, var |-> x, value |-> v]
    BY <1>6
  <2>2. Format(i) = l
    BY <2>1 DEF Format
  <2>3. /\ l \in Seq(Symbols) /\ Len(l) = 10 /\ l[1] = "W"
        /\ Fields("WRITE", l) = i
    BY <2>1, WriteFields
  <2>4. n # NoNumber /\ x # NoNumber /\ v # NoNumber
    BY <2>1, StoiNumeral
  <2> HIDE DEF l, n, x, v
  <2>5. FirstWord(l) = 7
    <3>1. Len(l) >= 2
      BY <2>3
    <3> QED BY ONLY <2>3, <3>1, WordOf
  <2>6. \A f \in DOMAIN i \ {"type"} : i[f] # NoNumber
    BY <2>1, <2>4
  <2> QED BY <2>2, <2>3, <2>5, <2>6, ParseIs, KeywordTypes
<1>7. CASE i \in [type : {"READ"}, tran : Numbers, var : Numbers]
  <2> DEFINE n == i.tran
             x == i.var
             l == <<"R", "(", "T", ToString(n), Comma, "x", ToString(x), ")">>
  <2>1. n \in Numbers /\ x \in Numbers /\ i = [type |-> "READ", tran |-> n, var |-> x]
    BY <1>7
  <2>2. Format(i) = l
    BY <2>1 DEF Format
  <2>3. /\ l \in Seq(Symbols) /\ Len(l) = 8 /\ l[1] = "R"
        /\ Fields("READ", l) = i
    BY <2>1, ReadFields
  <2>4. n # NoNumber /\ x # NoNumber
    BY <2>1, StoiNumeral
  <2> HIDE DEF l, n, x
  <2>5. FirstWord(l) = 8
    <3>1. Len(l) >= 2
      BY <2>3
    <3> QED BY ONLY <2>3, <3>1, WordOf
  <2>6. \A f \in DOMAIN i \ {"type"} : i[f] # NoNumber
    BY <2>1, <2>4
  <2> QED BY <2>2, <2>3, <2>5, <2>6, ParseIs, KeywordTypes
<1>8. CASE i = [type |-> "DUMP"]
  <2> DEFINE l == <<"dump", "(", ")">>
  <2>1. Format(i) = l
    BY <1>8 DEF Format
  <2>2. "dump" \in Symbols /\ "(" \in Symbols /\ ")" \in Symbols
    BY SymbolsOf
  <2>3. l \in Seq(Symbols) /\ Len(l) = 3 /\ l[1] = "dump"
    BY <2>2
  <2> HIDE DEF l
  <2>4. FirstWord(l) = 4
    <3>1. Len(l) >= 2
      BY <2>3
    <3> QED BY ONLY <2>3, <3>1, WordOf
  <2>5. Fields("DUMP", l) = i
    BY <1>8 DEF Fields
  <2>6. \A f \in DOMAIN i \ {"type"} : i[f] # NoNumber
    BY <1>8
  <2> QED BY <2>1, <2>4, <2>5, <2>6, ParseIs, KeywordTypes
<1>9. CASE i = [type |-> "UNKNOWN"]
  <2> DEFINE l == <<"commit", "(", "T", "1", ")">>
  <2>1. Format(i) = l
    BY <1>9 DEF Format
  <2>2. /\ "commit" \in Symbols /\ "(" \in Symbols /\ "T" \in Symbols /\ "1" \in Symbols
        /\ ")" \in Symbols
    BY SymbolsOf
  <2>3. l \in Seq(Symbols) /\ Len(l) = 5 /\ l[1] = "commit"
    BY <2>2
  <2> HIDE DEF l
  <2>4. FirstWord(l) = 0
    <3>1. Len(l) >= 2
      BY <2>3
    <3> QED BY ONLY <2>3, <3>1, WordOf
  <2>5. Parse(l) = Unknown
    BY <2>4, Zenon DEF Parse
  <2> QED BY <1>9, <2>1, <2>5 DEF Unknown
<1>10. CASE i = [type |-> "INVALID"]
  <2> DEFINE l == <<"begin", "(", "T", ")">>
  <2>1. Format(i) = l
    BY <1>10 DEF Format
  <2>2. "begin" \in Symbols /\ "(" \in Symbols /\ "T" \in Symbols /\ ")" \in Symbols
    BY SymbolsOf
  <2>3. l \in Seq(Symbols) /\ Len(l) = 4
    BY <2>2
  <2>4. l[1] = "begin" /\ l[2] = "(" /\ l[3] = "T" /\ l[4] = ")"
    OBVIOUS
  <2> HIDE DEF l
  <2>5. FirstWord(l) = 2
    BY ONLY <2>3, <2>4, WordOf
  <2>6. FirstOf(l, "(") = 2 /\ FirstOf(l, ")") = 4
    <3>1. (\A j \in 1 .. 2 - 1 : l[j] # "(") /\ (\A j \in 1 .. 4 - 1 : l[j] # ")")
      BY <2>4
    <3>2. FirstOf(l, "(") = 2
      BY ONLY <2>3, <2>4, <3>1, 2 \in 1 .. 4, FirstOfIs
    <3>3. FirstOf(l, ")") = 4
      BY ONLY <2>3, <2>4, <3>1, 4 \in 1 .. 4, FirstOfIs
    <3> QED BY <3>2, <3>3
  <2>7. SubSeq(l, 4, 3) = <<>>
    BY SubSeqEmpty
  <2>8. Fields("BEGIN", l) = [type |-> "BEGIN", tran |-> NoNumber]
    <3>1. Stoi(SubSeq(l, 4, 3)) = NoNumber
      BY <2>7 DEF Stoi
    <3> QED BY <2>6, <3>1 DEF Fields
  <2>9. Parse(l) = Invalid
    <3> DEFINE r == Fields("BEGIN", l)
    <3>1. "tran" \in DOMAIN r \ {"type"} /\ r["tran"] = NoNumber
      BY <2>8
    <3> HIDE DEF r
    <3> QED BY <2>5, <3>1, KeywordTypes, Zenon DEF Parse, r
  <2> QED BY <1>10, <2>1, <2>9 DEF Invalid
<1> QED
  BY <1>1, <1>2, <1>3, <1>4, <1>5, <1>6, <1>7, <1>8, <1>9, <1>10 DEF Instructions

-----------------------------------------------------------------------------
(* The scripts as the constructor understands them.                        *)

(* The place of an element among those of a finite set of numbers.         *)
LEMMA PlaceAmong ==
  ASSUME NEW n \in Nat, NEW A \in SUBSET (1 .. n)
  PROVE  /\ IsFiniteSet(A) /\ Cardinality(A) \in Nat
         /\ \A k \in A : Cardinality({j \in A : j <= k}) \in 1 .. Cardinality(A)
<1>1. IsFiniteSet(A)
  <2>1. IsFiniteSet(1 .. n)
    BY 1 \in Int, n \in Int, FS_Interval
  <2> QED BY <2>1, FS_Subset
<1>2. Cardinality(A) \in Nat
  BY <1>1, FS_CardinalityType
<1>3. ASSUME NEW k \in A
      PROVE  Cardinality({j \in A : j <= k}) \in 1 .. Cardinality(A)
  <2> DEFINE B == {j \in A : j <= k}
  <2>1. B \in SUBSET A /\ k \in B
    OBVIOUS
  <2> HIDE DEF B
  <2>2. IsFiniteSet(B) /\ Cardinality(B) <= Cardinality(A)
    BY <1>1, <2>1, FS_Subset
  <2>3. Cardinality(B) \in Nat /\ Cardinality(B) # 0
    BY <2>1, <2>2, FS_CardinalityType, FS_EmptySet
  <2>4. Cardinality(B) \in 1 .. Cardinality(A)
    BY <1>2, <2>2, <2>3
  <2> QED BY <2>4 DEF B
<1> QED BY <1>1, <1>2, <1>3

(* Nothing is read at first, and the scripts are understood.               *)
LEMMA ScriptStarts == Init => ScriptInv
<1> SUFFICES ASSUME Init PROVE ScriptInv
  OBVIOUS
<1>1. ASSUME NEW f \in File
      PROVE  [k \in DOMAIN Script[f] |-> Parse(Format(Script[f][k]))] = Script[f]
  <2>1. Script[f] \in Seq(Instructions)
    BY FormatAssumption
  <2>2. \A k \in DOMAIN Script[f] : Parse(Format(Script[f][k])) = Script[f][k]
    BY <2>1, ParseInvertsFormat
  <2>3. Script[f] = [k \in DOMAIN Script[f] |-> Script[f][k]]
    BY <2>1
  <2> QED BY <2>2, <2>3
<1>2. script = [f \in File |-> Script[f]]
  BY <1>1 DEF Init
<1>3. /\ line \in [File -> Nat] /\ \A f \in File : line[f] <= Len(Script[f])
  <2>1. \A f \in File : Len(Script[f]) \in Nat
    BY FormatAssumption
  <2> QED BY <2>1 DEF Init
<1>4. given \in [File -> Seq(Instructions)]
  BY DEF Init
<1>5. ASSUME NEW f \in File PROVE LinesRead(f) = {} /\ Len(given[f]) = 0
  BY DEF Init, LinesRead
<1>6. ScriptUnderstood
  BY <1>5, FS_EmptySet DEF ScriptUnderstood
<1> QED BY <1>2, <1>3, <1>4, <1>6 DEF ScriptInv

(* A line read is passed on unless it is a dump or the process dies of it. *)
LEMMA ReadLineUnderstands ==
  ASSUME ScriptInv, NEW f \in File, ReadLine(f)
  PROVE  ScriptInv'
<1> DEFINE k == line[f] + 1
           i == Script[f][k]
           A == LinesRead(f)
           B == {j \in 1 .. line'[f] : Script[f][j].type # "DUMP"}
<1>1. /\ script = [g \in File |-> Script[g]] /\ script[f] = Script[f]
      /\ line \in [File -> Nat] /\ \A g \in File : line[g] <= Len(Script[g])
      /\ given \in [File -> Seq(Instructions)] /\ ScriptUnderstood
  BY DEF ScriptInv
<1>2. k \in 1 .. Len(Script[f]) /\ i \in Instructions /\ Len(Script[f]) \in Nat
  <2>1. Script[f] \in Seq(Instructions)
    BY FormatAssumption
  <2>2. k <= Len(Script[f])
    BY <1>1 DEF ReadLine
  <2> QED BY <1>1, <2>1, <2>2
<1>3. /\ script' = script
      /\ \/ i.type = "DUMP" /\ given' = given /\ line' = [line EXCEPT ![f] = k]
         \/ line' = line /\ given' = given
         \/ /\ i.type # "DUMP" /\ line' = [line EXCEPT ![f] = k]
            /\ given' = [given EXCEPT ![f] = Append(@, i)]
  BY <1>1 DEF ReadLine
<1>4. line[f] \in Nat /\ A = {j \in 1 .. line[f] : Script[f][j].type # "DUMP"}
  BY <1>1 DEF LinesRead
<1>5. /\ Len(given[f]) = Cardinality(A) /\ given[f] \in Seq(Instructions)
      /\ \A m \in A : given[f][Cardinality({j \in A : j <= m})] = Script[f][m]
  BY <1>1 DEF ScriptUnderstood
<1>6. /\ line' \in [File -> Nat] /\ \A g \in File : line'[g] <= Len(Script[g])
      /\ given' \in [File -> Seq(Instructions)]
  <2>1. line' \in [File -> Nat] /\ given' \in [File -> Seq(Instructions)]
    <3> HIDE DEF i
    <3>1. k \in Nat /\ Append(given[f], i) \in Seq(Instructions)
      BY <1>1, <1>2
    <3> QED BY <1>1, <1>3, <3>1
  <2>2. \A g \in File : line'[g] <= Len(Script[g])
    BY <1>1, <1>2, <1>3
  <2> QED BY <2>1, <2>2
<1>7. \A g \in File \ {f} : line'[g] = line[g] /\ given'[g] = given[g]
  BY <1>1, <1>3
<1>8. /\ Len(given'[f]) = Cardinality(B)
      /\ \A m \in B : given'[f][Cardinality({j \in B : j <= m})] = Script[f][m]
  <2>1. CASE line'[f] = line[f] /\ given' = given
    BY <1>4, <1>5, <2>1
  <2>2. CASE i.type = "DUMP" /\ given' = given /\ line'[f] = k
    <3>1. A = B
      BY <1>4, <2>2
    <3> QED BY <1>5, <2>2, <3>1
  <2>3. CASE i.type # "DUMP" /\ line'[f] = k /\ given'[f] = Append(given[f], i)
    <3> DEFINE c == Cardinality(A)
    <3>1. A \in SUBSET (1 .. line[f]) /\ B = A \cup {k} /\ k \notin A
      BY <1>4, <2>3
    <3>2. /\ IsFiniteSet(A) /\ c \in Nat
          /\ \A m \in A : Cardinality({j \in A : j <= m}) \in 1 .. c
      BY <1>4, <3>1, PlaceAmong
    <3>3. Cardinality(B) = c + 1
      BY <3>1, <3>2, FS_AddElement
    <3>4. ASSUME NEW m \in A PROVE {j \in B : j <= m} = {j \in A : j <= m}
      BY <1>4, <3>1
    <3>5. {j \in B : j <= k} = B
      BY <1>4, <3>1
    <3> HIDE DEF A, B, c, i, k
    <3>6. /\ Len(Append(given[f], i)) = c + 1
          /\ \A n \in 1 .. c : Append(given[f], i)[n] = given[f][n]
          /\ Append(given[f], i)[c + 1] = i
      BY <1>2, <1>5, AppendProperties DEF c
    <3>7. ASSUME NEW m \in B
          PROVE  given'[f][Cardinality({j \in B : j <= m})] = Script[f][m]
      <4>1. CASE m \in A
        BY <1>5, <2>3, <3>2, <3>4, <3>6, <4>1
      <4>2. CASE m = k
        BY <2>3, <3>3, <3>5, <3>6, <4>2 DEF i
      <4> QED BY <3>1, <4>1, <4>2
    <3> QED BY <2>3, <3>3, <3>6, <3>7
  <2> QED BY <1>1, <1>3, <2>1, <2>2, <2>3
<1>9. ScriptUnderstood'
  <2> SUFFICES ASSUME NEW g \in File
               PROVE  /\ Len(given'[g]) = Cardinality(LinesRead(g)')
                      /\ \A m \in LinesRead(g)' :
                           given'[g][Cardinality({j \in LinesRead(g)' : j <= m})] = Script[g][m]
    BY DEF ScriptUnderstood
  <2>1. CASE g = f
    <3>1. LinesRead(f)' = B
      BY DEF LinesRead
    <3> HIDE DEF B
    <3> QED BY <1>8, <2>1, <3>1
  <2>2. CASE g # f
    <3>1. LinesRead(g)' = LinesRead(g)
      BY <1>7, <2>2 DEF LinesRead
    <3> QED BY <1>1, <1>7, <2>2, <3>1 DEF ScriptUnderstood
  <2> QED BY <2>1, <2>2
<1> QED BY <1>1, <1>3, <1>6, <1>9 DEF ScriptInv

(* Everything else leaves alone what has been read.                        *)
LEMMA NextUnderstands == ScriptInv /\ [Next]_vars => ScriptInv'
<1> SUFFICES ASSUME ScriptInv, [Next]_vars PROVE ScriptInv'
  OBVIOUS
<1>1. CASE \E f \in File : ReadLine(f)
  BY <1>1, ReadLineUnderstands
<1>2. CASE UNCHANGED <<script, line, given>>
  BY <1>2 DEF ScriptInv, ScriptUnderstood, LinesRead
<1>3. \/ \E f \in File : ReadLine(f)
      \/ UNCHANGED <<script, line, given>>
  BY DEF Next, Parent, Terminated, ExecuteScript, OpenFiles, Drain, Spin, Dump, Fork, Reap,
     NoChildLeft, ScanEnds, Return, OpenPair, CompareLine, CheckEnds,
     vars, childVars, parentVars, checkVars
<1> QED BY <1>1, <1>2, <1>3

(* In every state the harness can reach its children are in order, the     *)
(* comparison has read the same lines of both files, and every line read   *)
(* so far has been understood as it is written.                            *)
THEOREM HarnessInvariant == Spec => []HarnessInv
<1>1. Init => HarnessInv
  BY HarnessStarts, ScriptStarts DEF HarnessInv
<1>2. HarnessInv /\ [Next]_vars => HarnessInv'
  BY HarnessKeeps, NextUnderstands DEF HarnessInv
<1> QED BY <1>1, <1>2, PTL DEF Spec

(* What is passed to add_instruction is what the script says, line by line *)
(* without the dumps, for every script in the format of test/input.        *)
THEOREM ScriptsAreUnderstood == Spec => []ScriptUnderstood
<1>1. HarnessInv => ScriptUnderstood
  BY DEF HarnessInv, ScriptInv
<1> QED BY <1>1, HarnessInvariant, PTL

-----------------------------------------------------------------------------
(* Every step brings the harness nearer to its end.                        *)

(* Every child before the entry at hand is reaped, so only the process the *)
(* parent waits for, or is itself, can run.                                *)
LEMMA OneRuns ==
  ASSUME SettledInv, NEW f \in Running
  PROVE  f \in File /\ f = current /\ phase \in {"wait", "execute"}
<1>1. /\ f \in File /\ child[f] \in {"started", "reading", "dumping", "spinning"}
      /\ HarnessTypeOK /\ ChildrenInv
  BY DEF Running, SettledInv
<1>2. CASE mode = "all"
  <2>1. f \notin reaped /\ child[f] # "none"
    BY <1>1, <1>2 DEF ChildrenInv, Finished
  <2>2. phase \notin {"execute", "dead", "check", "compare", "done"}
    BY <1>1, <1>2, <2>1 DEF ChildrenInv, Checking
  <2> QED BY <1>1, <1>2, <2>1, <2>2 DEF ChildrenInv, HarnessTypeOK
<1>3. CASE mode # "all"
  <2>1. f = current
    BY <1>1, <1>3 DEF ChildrenInv
  <2> QED BY <1>1, <1>3, <2>1 DEF ChildrenInv, HarnessTypeOK, Checking, Finished
<1> QED BY <1>2, <1>3

(* A process reads one more line or is a part further; a drain loop that   *)
(* spins changes nothing.                                                  *)
LEMMA ProcessMoves ==
  ASSUME HarnessInv, NEW f \in File, ExecuteScript(f), vars' # vars
  PROVE  /\ Running = {current} /\ phase \in {"wait", "execute"}
         /\ ChildMoves(current) /\ UNCHANGED <<parentVars, checkVars>>
         /\ \A g \in File \ {current} :
              child'[g] = child[g] /\ line'[g] = line[g] /\ output'[g] = output[g]
<1>1. /\ SettledInv /\ HarnessTypeOK
      /\ script[f] = Script[f] /\ line \in [File -> Nat] /\ line[f] <= Len(Script[f])
  BY DEF HarnessInv, SettledInv, ScriptInv
<1>2. UNCHANGED <<parentVars, checkVars>> /\ childVars' # childVars
  BY DEF ExecuteScript, vars
<1>3. OpenFiles(f) \/ ReadLine(f) \/ Drain(f) \/ Dump(f)
  BY <1>2 DEF ExecuteScript, Spin
<1>4. f \in Running
  BY <1>3 DEF Running, OpenFiles, ReadLine, Drain, Dump
<1>5. f = current /\ phase \in {"wait", "execute"} /\ Running = {current}
  BY <1>1, <1>4, OneRuns
<1>6. ChildMoves(f)
  <2>1. CASE OpenFiles(f)
    <3>1. line' = line /\ child[f] = "started" /\ child'[f] = "reading"
      BY <1>1, <2>1 DEF OpenFiles, HarnessTypeOK
    <3> QED BY <3>1 DEF ChildMoves, ChildPart
  <2>2. CASE ReadLine(f)
    <3>1. child[f] = "reading" /\ line[f] + 1 <= Len(Script[f])
      BY <1>1, <2>2 DEF ReadLine
    <3>2. CASE line' = [line EXCEPT ![f] = line[f] + 1]
      <4>1. Len(Script[f]) \in Nat /\ line[f] \in Nat
        BY <1>1, FormatAssumption
      <4> QED BY <1>1, <3>1, <3>2, <4>1 DEF ChildMoves
    <3>3. CASE line' = line /\ child' = [child EXCEPT ![f] = "died"]
      <4>1. child'[f] = "died"
        BY <1>1, <3>3 DEF HarnessTypeOK
      <4> QED BY <3>1, <3>3, <4>1 DEF ChildMoves, ChildPart
    <3> QED BY <2>2, <3>2, <3>3 DEF ReadLine
  <2>3. CASE Drain(f)
    <3>1. /\ line' = line /\ child[f] = "reading"
          /\ child'[f] \in {"dumping", "died", "spinning"}
      BY <1>1, <2>3 DEF Drain, HarnessTypeOK
    <3> QED BY <3>1 DEF ChildMoves, ChildPart
  <2>4. CASE Dump(f)
    <3>1. line' = line /\ child[f] = "dumping" /\ child'[f] = "exited"
      BY <1>1, <2>4 DEF Dump, HarnessTypeOK
    <3> QED BY <3>1 DEF ChildMoves, ChildPart
  <2> QED BY <1>3, <2>1, <2>2, <2>3, <2>4
<1>7. ASSUME NEW g \in File \ {f}
      PROVE  child'[g] = child[g] /\ line'[g] = line[g] /\ output'[g] = output[g]
  BY <1>1, <1>3 DEF OpenFiles, ReadLine, Drain, Dump, HarnessTypeOK
<1> QED BY <1>2, <1>5, <1>6, <1>7

(* The parent moves only when no process runs, and touches none that does. *)
LEMMA HarnessMoves ==
  ASSUME HarnessInv, Parent
  PROVE  /\ Running = {} /\ ParentMoves
         /\ UNCHANGED <<script, line, given, output>>
<1>1. SettledInv /\ HarnessTypeOK /\ ChildrenInv
  BY DEF HarnessInv, SettledInv
<1> USE DEF childVars, checkVars
<1>2. ASSUME NEW f \in File, Fork(f)
      PROVE  /\ Running = {} /\ ParentMoves
             /\ UNCHANGED <<script, line, given, output>>
  <2>1. Running = {}
    BY <1>1, <1>2, OneRuns DEF Fork
  <2>2. ParentPart(phase') = ParentPart(phase)
    BY <1>2 DEF Fork, ParentPart
  <2> QED BY <1>2, <2>1, <2>2 DEF Fork, ParentMoves
<1>3. ASSUME NEW f \in File, Reap(f)
      PROVE  /\ Running = {} /\ ParentMoves
             /\ UNCHANGED <<script, line, given, output>>
  <2>1. /\ phase = "wait" /\ phase' \in {"wait", "scan"} /\ todo' = todo
        /\ reaped' = reaped \cup {f} /\ f \notin reaped /\ child[f] \in {"exited", "died"}
    BY <1>3 DEF Reap, Children
  <2>2. f = current
    BY <1>1, <1>3, <2>1 DEF ChildrenInv, Children, Reap
  <2>3. Running = {}
    BY <1>1, <2>1, <2>2, OneRuns DEF Running
  <2>4. ParentPart(phase') = ParentPart(phase)
    BY <2>1 DEF ParentPart
  <2> QED BY <1>3, <2>1, <2>3, <2>4 DEF Reap, ParentMoves
<1>4. CASE NoChildLeft
  <2>1. Running = {}
    BY <1>1, <1>4 DEF NoChildLeft, Children, Running, ChildrenInv, Finished
  <2>2. ParentPart(phase') = ParentPart(phase)
    BY <1>4 DEF NoChildLeft, ParentPart
  <2> QED BY <1>4, <2>1, <2>2 DEF NoChildLeft, ParentMoves
<1>5. CASE ScanEnds
  <2>1. Running = {}
    BY <1>1, <1>5, OneRuns DEF ScanEnds
  <2>2. ParentPart(phase') > ParentPart(phase)
    BY <1>5 DEF ScanEnds, ParentPart
  <2> QED BY <1>5, <2>1, <2>2 DEF ScanEnds, ParentMoves
<1>6. CASE Return
  <2>1. Running = {}
    BY <1>1, <1>6, OneRuns DEF Return, Running
  <2>2. ParentPart(phase') > ParentPart(phase)
    BY <1>6 DEF Return, ParentPart
  <2> QED BY <1>6, <2>1, <2>2 DEF Return, ParentMoves
<1>7. ASSUME NEW f \in File, OpenPair(f)
      PROVE  /\ Running = {} /\ ParentMoves
             /\ UNCHANGED <<script, line, given, output>>
  <2>1. Running = {}
    BY <1>1, <1>7, OneRuns DEF OpenPair
  <2>2. ParentPart(phase') = ParentPart(phase)
    BY <1>7 DEF OpenPair, ParentPart
  <2> QED BY <1>7, <2>1, <2>2 DEF OpenPair, ParentMoves
<1>8. CASE CompareLine
  <2> DEFINE result == Getline(resultFile, resultLine)
  <2>1. /\ phase = "compare" /\ resultFile' = result.stream /\ todo' = todo
        /\ reaped' = reaped /\ current' = current
        /\ UNCHANGED <<script, line, given, output>>
        /\ phase' = "check" \/ (phase' = "compare" /\ result.ok)
    BY <1>8 DEF CompareLine
  <2>2. Running = {}
    BY <1>1, <2>1, OneRuns
  <2>3. ParentPart(phase') = ParentPart(phase)
    BY <2>1 DEF ParentPart
  <2>4. ASSUME result.ok
        PROVE  /\ ~AtEnd(resultFile)
               /\ result.stream.file = resultFile.file
               /\ result.stream.next = resultFile.next + 1
    <3>1. ~AtEnd(resultFile)
      BY <2>4 DEF Getline
    <3>2. \E st : result.stream =
            [file |-> resultFile.file, next |-> resultFile.next + 1, state |-> st]
      BY <2>4 DEF Getline
    <3> HIDE DEF result
    <3> QED BY <3>1, <3>2
  <2> HIDE DEF result
  <2>5. phase' = "compare" =>
          ~AtEnd(resultFile) /\ resultFile'.file = resultFile.file
          /\ resultFile'.next = resultFile.next + 1
    <3>1. phase' = "compare" => result.ok
      BY <2>1
    <3> QED BY <2>1, <2>4, <3>1
  <2> QED BY <2>1, <2>2, <2>3, <2>5 DEF ParentMoves
<1>9. CASE CheckEnds
  <2>1. Running = {}
    BY <1>1, <1>9, OneRuns DEF CheckEnds
  <2>2. ParentPart(phase') > ParentPart(phase)
    BY <1>9 DEF CheckEnds, ParentPart
  <2> QED BY <1>9, <2>1, <2>2 DEF CheckEnds, ParentMoves
<1> QED BY <1>2, <1>3, <1>4, <1>5, <1>6, <1>7, <1>8, <1>9 DEF Parent

(* No step is wasted and no two processes run at once: whatever the        *)
(* scripts, each step reads a line, reaps a child, takes an entry or ends  *)
(* a part, so only a drain loop that spins keeps the harness from its end. *)
THEOREM HarnessGoesOn == Spec => HarnessAdvances
<1>1. HarnessInv /\ [Next]_vars =>
        [\/ /\ Running = {} /\ ParentMoves
            /\ UNCHANGED <<script, line, given, output>>
         \/ /\ Running = {current} /\ phase \in {"wait", "execute"}
            /\ ChildMoves(current) /\ UNCHANGED <<parentVars, checkVars>>
            /\ \A g \in File \ {current} :
                 child'[g] = child[g] /\ line'[g] = line[g] /\ output'[g] = output[g]]_vars
  BY ProcessMoves, HarnessMoves DEF Next, Terminated
<1> QED BY <1>1, HarnessInvariant, PTL DEF Spec, HarnessAdvances

=============================================================================
