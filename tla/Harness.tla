------------------------------ MODULE Harness ------------------------------
(***************************************************************************)
(* The test harness of main.cpp.  With "all" it forks a child for each     *)
(* script, waits for it, reports those that failed, and compares each      *)
(* output file with the expected one; with a file name it executes that    *)
(* script itself and then compares.  What a script does to the database is *)
(* the subject of module RepCRec; here a request succeeds or ends the      *)
(* process, and the drain loop ends or spins for ever.                     *)
(***************************************************************************)
EXTENDS Instruction

CONSTANTS
  File,       \* the scripts in test/input
  Script,     \* Script[f]: the instructions that f writes down
  Expected,   \* Expected[f]: the lines of its file in test/output
  Dumps       \* bound: the final dumps a script may produce

\* The line with nothing on it.
Blank == ""

\* The scripts are in the format of test/input, or break it as named there.
ASSUME FormatAssumption == \A f \in File : Script[f] \in Seq(Instructions)

\* As in test/output: files are not empty and have no blank line.
ASSUME ExpectedAssumption ==
  /\ \A f \in File : /\ Expected[f] \in Seq(STRING) /\ Len(Expected[f]) > 0
                     /\ \A k \in DOMAIN Expected[f] : Expected[f][k] # Blank
  /\ Dumps \subseteq Seq(STRING)

VARIABLES
  mode,        \* argv: "all", or "test" or "print" with a file name
  phase,       \* where the parent is
  todo,        \* entries readdir has not returned, or fileNames to compare
  current,     \* the entry at hand
  child,       \* per script: how far the process that executes it is
  script,      \* per script: its lines, as the parser understands them
  line,        \* per script: lines read
  given,       \* per script: the instructions passed to add_instruction
  reaped,      \* the children that wait has returned
  failed,      \* the scripts reported on stderr
  output,      \* per script: its file in test/, from this or an earlier run
  resultFile, outputFile, resultLine, outputLine,  \* the comparison
  verdict      \* per script: what was printed

parentVars == <<mode, phase, todo, current, reaped, failed>>
childVars == <<child, script, line, given, output>>
checkVars == <<resultFile, outputFile, resultLine, outputLine, verdict>>
vars == <<parentVars, childVars, checkVars>>

\* A file: whether it is there, its lines, and whether the last is
\* terminated.  Those of test/output are not, those of dump are.
Missing == [exists |-> FALSE, lines |-> <<>>, newline |-> TRUE]
Produced(lines) == [exists |-> TRUE, lines |-> lines, newline |-> TRUE]
Provided(lines) == [exists |-> TRUE, lines |-> lines, newline |-> FALSE]

\* An input stream; it is bad once getline would fail at once.
Open(file) ==
  [file |-> file, next |-> 1, state |-> IF file.exists THEN "good" ELSE "bad"]

\* All lines have been read.
AtEnd(stream) == stream.next > Len(stream.file.lines)

\* std::getline(stream, text): it clears the text unless the stream has
\* failed or seen the end of the file before.
Getline(stream, text) ==
  LET lines == stream.file.lines
  IN IF stream.state = "bad" THEN [ok |-> FALSE, text |-> text, stream |-> stream]
     ELSE IF AtEnd(stream)
       THEN [ok |-> FALSE, text |-> Blank, stream |-> [stream EXCEPT !.state = "bad"]]
     ELSE [ok |-> TRUE, text |-> lines[stream.next],
           stream |-> [file |-> stream.file, next |-> stream.next + 1,
                       state |-> IF stream.next < Len(lines) \/ stream.file.newline
                                 THEN "good" ELSE "bad"]]

Init ==
  /\ mode \in {"all", "test", "print"}
  /\ current \in File
  /\ phase = IF mode = "all" THEN "scan" ELSE "execute"
  /\ todo = IF mode = "all" THEN File ELSE {}
  /\ child = [f \in File |-> IF mode # "all" /\ f = current THEN "started" ELSE "none"]
  /\ script = [f \in File |-> [k \in DOMAIN Script[f] |-> Parse(Format(Script[f][k]))]]
  /\ line = [f \in File |-> 0]
  /\ given = [f \in File |-> <<>>]
  /\ reaped = {} /\ failed = {}
  /\ output \in [File -> {Missing} \cup {Produced(d) : d \in Dumps}]
  /\ resultFile = Open(Missing) /\ outputFile = Open(Missing)
  /\ resultLine = Blank /\ outputLine = Blank
  /\ verdict = [f \in File |-> "none"]

-----------------------------------------------------------------------------
(* execute_advanced_database(f, mode), in a child or in the program.       *)

\* Faulty variant: the output file is not truncated.
OpenFilesKeepsOutput(f) ==
  /\ child[f] = "started"
  /\ child' = [child EXCEPT ![f] = "reading"]
  /\ UNCHANGED <<script, line, given, output>>

\* Opening the output file truncates it.
OpenFiles(f) ==
  /\ child[f] = "started"
  /\ child' = [child EXCEPT ![f] = "reading"]
  /\ output' = IF mode = "print" THEN output
               ELSE [output EXCEPT ![f] = Produced(<<>>)]
  /\ UNCHANGED <<script, line, given>>

\* A line dump is skipped; any other is parsed, and executed unless the
\* parser or add_instruction throws.  Executing it may end the process.
ReadLine(f) ==
  LET k == line[f] + 1
      i == script[f][k]
  IN /\ child[f] = "reading" /\ k <= Len(script[f])
     /\ IF i.type = "DUMP"
        THEN UNCHANGED <<child, given>> /\ line' = [line EXCEPT ![f] = k]
        ELSE IF i.type \in {"UNKNOWN", "INVALID"}
        THEN child' = [child EXCEPT ![f] = "died"] /\ UNCHANGED <<line, given>>
        ELSE /\ \E next \in {"reading", "died"} : child' = [child EXCEPT ![f] = next]
             /\ line' = [line EXCEPT ![f] = k]
             /\ given' = [given EXCEPT ![f] = Append(@, i)]
     /\ UNCHANGED <<script, output>>

\* The drain loop comes to an end, the process, or never.
Drain(f) ==
  /\ child[f] = "reading" /\ line[f] = Len(script[f])
  /\ \E next \in {"dumping", "died", "spinning"} : child' = [child EXCEPT ![f] = next]
  /\ UNCHANGED <<script, line, given, output>>

Spin(f) == child[f] = "spinning" /\ UNCHANGED childVars

\* The final dump, which is all that goes to the output file.
Dump(f) ==
  /\ child[f] = "dumping"
  /\ child' = [child EXCEPT ![f] = "exited"]
  /\ \E d \in Dumps :
       output' = IF mode = "print" THEN output
                 ELSE [output EXCEPT ![f] = Produced(d)]
  /\ UNCHANGED <<script, line, given>>

ExecuteScript(f) ==
  /\ OpenFiles(f) \/ ReadLine(f) \/ Drain(f) \/ Spin(f) \/ Dump(f)
  /\ UNCHANGED <<parentVars, checkVars>>

-----------------------------------------------------------------------------
(* The parent.                                                             *)

\* Faulty variant: the parent goes on with the next entry.
ForkGoesOn(f) ==
  /\ phase = "scan" /\ f \in todo
  /\ todo' = todo \ {f}
  /\ current' = f
  /\ child' = [child EXCEPT ![f] = "started"]
  /\ UNCHANGED <<mode, phase, reaped, failed, script, line, given, output, checkVars>>

Fork(f) ==
  /\ phase = "scan" /\ f \in todo
  /\ phase' = "wait"
  /\ todo' = todo \ {f}
  /\ current' = f
  /\ child' = [child EXCEPT ![f] = "started"]
  /\ UNCHANGED <<mode, reaped, failed, script, line, given, output, checkVars>>

Children == {f \in File : child[f] # "none"} \ reaped

\* wait(&status) returns a child.  If it failed the entry at hand is
\* reported and the loop is left, else it goes on to wait.
Reap(f) ==
  /\ phase = "wait" /\ f \in Children
  /\ child[f] \in {"exited", "died"}
  /\ reaped' = reaped \cup {f}
  /\ IF child[f] = "died"
     THEN failed' = failed \cup {current} /\ phase' = "scan"
     ELSE UNCHANGED <<failed, phase>>
  /\ UNCHANGED <<mode, todo, current, childVars, checkVars>>

\* Faulty variant: ECHILD does not end the loop.
NoChildLeftGoesOn ==
  /\ phase = "wait" /\ Children = {}
  /\ UNCHANGED vars

\* wait fails with ECHILD.
NoChildLeft ==
  /\ phase = "wait" /\ Children = {}
  /\ phase' = "scan"
  /\ UNCHANGED <<mode, todo, current, reaped, failed, childVars, checkVars>>

ScanEnds ==
  /\ phase = "scan" /\ todo = {}
  /\ phase' = "check"
  /\ todo' = File
  /\ UNCHANGED <<mode, current, reaped, failed, childVars, checkVars>>

\* With a file name, the program has executed the script itself.
Return ==
  /\ phase = "execute"
  /\ child[current] \in {"exited", "died"}
  /\ phase' = IF child[current] = "exited" THEN "check" ELSE "dead"
  /\ todo' = {current}
  /\ UNCHANGED <<mode, current, reaped, failed, childVars, checkVars>>

\* execute_test_case_check opens the two files of f.
OpenPair(f) ==
  /\ phase = "check" /\ f \in todo
  /\ phase' = "compare"
  /\ todo' = todo \ {f}
  /\ current' = f
  /\ resultFile' = Open(Provided(Expected[f])) /\ outputFile' = Open(output[f])
  /\ resultLine' = Blank /\ outputLine' = Blank
  /\ UNCHANGED <<mode, reaped, failed, childVars, verdict>>

\* Faulty variant: the output file is read first.
CompareLineOutputFirst ==
  LET ours == Getline(outputFile, outputLine)
      result == IF ours.ok THEN Getline(resultFile, resultLine)
                ELSE [ok |-> FALSE, text |-> resultLine, stream |-> resultFile]
  IN /\ phase = "compare"
     /\ resultFile' = result.stream /\ resultLine' = result.text
     /\ outputFile' = ours.stream /\ outputLine' = ours.text
     /\ IF result.ok /\ ours.ok /\ result.text = ours.text
        THEN UNCHANGED <<phase, verdict>>
        ELSE /\ phase' = "check"
             /\ verdict' = [verdict EXCEPT ![current] =
                  IF result.text = ours.text THEN "pass" ELSE "fail"]
     /\ UNCHANGED <<mode, todo, current, reaped, failed, childVars>>

\* A line of each file, the output only if there was one in the result.
\* The loop ends at a difference or at an end; what counts is then whether
\* the two strings are equal.
CompareLine ==
  LET result == Getline(resultFile, resultLine)
      ours == IF result.ok THEN Getline(outputFile, outputLine)
              ELSE [ok |-> FALSE, text |-> outputLine, stream |-> outputFile]
  IN /\ phase = "compare"
     /\ resultFile' = result.stream /\ resultLine' = result.text
     /\ outputFile' = ours.stream /\ outputLine' = ours.text
     /\ IF result.ok /\ ours.ok /\ result.text = ours.text
        THEN UNCHANGED <<phase, verdict>>
        ELSE /\ phase' = "check"
             /\ verdict' = [verdict EXCEPT ![current] =
                  IF result.text = ours.text THEN "pass" ELSE "fail"]
     /\ UNCHANGED <<mode, todo, current, reaped, failed, childVars>>

CheckEnds ==
  /\ phase = "check" /\ todo = {}
  /\ phase' = "done"
  /\ UNCHANGED <<mode, todo, current, reaped, failed, childVars, checkVars>>

Terminated == phase \in {"done", "dead"} /\ UNCHANGED vars

Parent ==
  \/ \E f \in File : Fork(f) \/ Reap(f) \/ OpenPair(f)
  \/ NoChildLeft \/ ScanEnds \/ Return
  \/ CompareLine \/ CheckEnds

Next == Parent \/ (\E f \in File : ExecuteScript(f)) \/ Terminated

\* The operating system runs the parent and every child.
Spec ==
  /\ Init /\ [][Next]_vars
  /\ WF_vars(Parent) /\ \A f \in File : WF_vars(ExecuteScript(f))

-----------------------------------------------------------------------------

\* The lines of f read so far that are not dump lines.
LinesRead(f) == {k \in 1 .. line[f] : Script[f][k].type # "DUMP"}

(* The constructor of Instruction understands the format of test/input:    *)
(* what is passed to add_instruction is what the script says, line by      *)
(* line without the dumps.                                                 *)
ScriptUnderstood ==
  \A f \in File :
    /\ Len(given[f]) = Cardinality(LinesRead(f))
    /\ \A k \in LinesRead(f) :
         given[f][Cardinality({j \in LinesRead(f) : j <= k})] = Script[f][k]

(* Once the comparison starts, every script of test/input has been         *)
(* executed to its end, and the scripts reported are those that failed.    *)
ChildrenSettled ==
  mode = "all" /\ phase \in {"check", "compare", "done"} =>
    \A f \in File : /\ f \in reaped
                    /\ child[f] \in {"exited", "died"}
                    /\ f \in failed <=> child[f] = "died"

(* Pass is printed exactly for the scripts whose process has come to its   *)
(* normal end in this run and has produced all the expected lines; what an *)
(* earlier run left in test/ does not count.  In mode print it does count: *)
(* there the output of an earlier run is what is compared.                 *)
VerdictsRight ==
  mode # "print" =>
    \A f \in File : verdict[f] # "none" =>
      (verdict[f] = "pass" <=>
         child[f] = "exited" /\ IsPrefix(Expected[f], output[f].lines))

(* The program ends unless the drain loop of some script does not.         *)
HarnessEnds ==
  <>(phase \in {"done", "dead"} \/ \E f \in File : child[f] = "spinning")

-----------------------------------------------------------------------------
(* The inductive invariant.  SettledInv is behind ChildrenSettled and      *)
(* VerdictsRight, ScriptInv behind ScriptUnderstood.                       *)

Finished == {f \in File : child[f] \in {"exited", "died"}}
Checking == phase \in {"check", "compare", "done"}

\* What is in test/.
Contents == [exists : BOOLEAN, lines : Seq(STRING), newline : {TRUE}]

HarnessTypeOK ==
  /\ mode \in {"all", "test", "print"} /\ current \in File
  /\ phase \in {"scan", "wait", "execute", "check", "compare", "done", "dead"}
  /\ todo \subseteq File /\ reaped \subseteq File /\ failed \subseteq File
  /\ child \in [File -> {"none", "started", "reading", "dumping", "spinning",
                         "exited", "died"}]
  /\ output \in [File -> Contents]
  /\ verdict \in [File -> {"none", "pass", "fail"}]

\* Every child but the one of the entry at hand is reaped before the next.
ChildrenInv ==
  /\ mode = "all" =>
       /\ phase \notin {"execute", "dead"}
       /\ phase \in {"scan", "wait"} => todo = {f \in File : child[f] = "none"}
       /\ phase = "scan" => File \ todo \subseteq reaped
       /\ phase = "wait" => current \notin todo /\ File \ todo \subseteq reaped \cup {current}
       /\ Checking => reaped = File
       /\ reaped \subseteq Finished
       /\ failed = {f \in reaped : child[f] = "died"}
  /\ mode # "all" =>
       /\ phase \notin {"scan", "wait"} /\ todo \subseteq {current}
       /\ \A f \in File \ {current} : child[f] = "none"
       /\ phase # "execute" => current \in Finished

\* The output file of this run is empty up to the dump.
OutputInv ==
  mode # "print" =>
    \A f \in File :
      /\ child[f] \in {"reading", "dumping", "spinning", "died"} => output[f] = Produced(<<>>)
      /\ child[f] = "exited" => output[f].exists

\* The comparison has read the same lines from both files.
CompareInv ==
  phase = "compare" /\ mode # "print" =>
    LET expected == Expected[current]
        ours == output[current].lines
        n == resultFile.next
    IN /\ n \in 1 .. Len(expected) + 1 /\ n <= Len(ours) + 1
       /\ resultFile = [file |-> Provided(expected), next |-> n,
                        state |-> IF n <= Len(expected) THEN "good" ELSE "bad"]
       /\ outputFile = [file |-> output[current], next |-> n, state |-> "good"]
       /\ \A k \in 1 .. n - 1 : expected[k] = ours[k]
       /\ resultLine = outputLine

\* The parent, its children and what it compares.
SettledInv ==
  /\ HarnessTypeOK /\ ChildrenInv /\ OutputInv /\ CompareInv
  /\ ~Checking => \A f \in File : verdict[f] = "none"
  /\ VerdictsRight

\* Every line has been understood as it is written, UNKNOWN and INVALID
\* included.
ScriptInv ==
  /\ script = [f \in File |-> Script[f]]
  /\ line \in [File -> Nat] /\ \A f \in File : line[f] <= Len(Script[f])
  /\ given \in [File -> Seq(Instructions)]
  /\ ScriptUnderstood

HarnessInv == SettledInv /\ ScriptInv

-----------------------------------------------------------------------------
(* What HarnessEnds rests on.                                              *)

Running == {f \in File : child[f] \in {"started", "reading", "dumping", "spinning"}}

\* The parts of the program and of a process, in the order they come.
ParentPart(p) == CASE p \in {"scan", "wait", "execute"} -> 0
                   [] p \in {"check", "compare"} -> 1
                   [] p \in {"done", "dead"} -> 2
ChildPart(c) == CASE c = "none" -> 0
                  [] c = "started" -> 1
                  [] c = "reading" -> 2
                  [] c \in {"dumping", "spinning"} -> 3
                  [] c \in {"exited", "died"} -> 4

\* The parent is a part further; or has fewer entries left; or has one more
\* child reaped; or is done with the entry at hand or the next line of it.
ParentMoves ==
  \/ ParentPart(phase') > ParentPart(phase)
  \/ /\ ParentPart(phase') = ParentPart(phase)
     /\ \/ todo' \subseteq todo /\ todo' # todo
        \/ todo' = todo /\ reaped \subseteq reaped' /\ reaped' # reaped
        \/ /\ todo' = todo /\ reaped' = reaped
           /\ \/ phase \in {"wait", "compare"} /\ phase' \in {"scan", "check"}
              \/ /\ phase = "compare" /\ phase' = "compare" /\ current' = current
                 /\ ~AtEnd(resultFile) /\ resultFile'.file = resultFile.file
                 /\ resultFile'.next = resultFile.next + 1

\* The process has read one more line, or is a part further.
ChildMoves(f) ==
  \/ line'[f] = line[f] + 1 /\ line[f] < Len(Script[f]) /\ child[f] = "reading"
  \/ line'[f] = line[f] /\ ChildPart(child'[f]) > ChildPart(child[f])

(* The program does one thing at a time and every step brings it nearer    *)
(* to its end: no process runs unless the parent waits for it, none        *)
(* touches what belongs to another script, and the parent touches no       *)
(* process that runs.                                                      *)
HarnessAdvances ==
  [][\/ /\ Running = {} /\ ParentMoves
        /\ UNCHANGED <<script, line, given, output>>
     \/ /\ Running = {current} /\ phase \in {"wait", "execute"}
        /\ ChildMoves(current) /\ UNCHANGED <<parentVars, checkVars>>
        /\ \A g \in File \ {current} :
             child'[g] = child[g] /\ line'[g] = line[g] /\ output'[g] = output[g]]_vars
=============================================================================
