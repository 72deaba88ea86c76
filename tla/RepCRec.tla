------------------------------ MODULE RepCRec ------------------------------
(***************************************************************************)
(* The program (main.cpp): it reads a script line by line, stamps each     *)
(* line and executes it, then keeps calling execute_instructions until no  *)
(* request is blocked, and dumps the sites.                                *)
(*                                                                         *)
(* Scripts are well formed in the way all of test/input is: a transaction  *)
(* begins once, asks nothing before it begins or after it ends, and a      *)
(* read-only transaction does not write.  Lines of a transaction that the  *)
(* system has aborted meanwhile do occur.                                  *)
(***************************************************************************)
EXTENDS TransactionManager

CONSTANTS
  ScriptVars,    \* ScriptVars[t]: the variables the lines of t name
  WriteValues,   \* WriteValues[t][n]: the values t may write when it has read
                 \* or written n times before
  ReadOnlyTran,  \* transactions begun with beginRO
  MaxOps,        \* bound: MaxOps[t] is the number of reads and writes of t
  MaxFaults      \* bound: fail and recover lines per script

ASSUME ScriptAssumption ==
  /\ ScriptVars \in [Tran -> SUBSET Var]
  /\ \A t \in Tran : \A n \in 0 .. MaxOps[t] : WriteValues[t][n] \subseteq Value
  /\ ReadOnlyTran \subseteq Tran
  /\ MaxOps \in [Tran -> Nat]
  /\ MaxFaults \in Nat

VARIABLES
  currTimestamp,  \* curr_timestamp, counted from 0 instead of 10000
  phase,          \* "reading", "draining" or "dumped"
  ended,          \* transactions whose end line has been read
  opCount,        \* reads and writes read so far, per transaction
  faultCount      \* fail and recover lines read so far

scriptVars == <<ended, opCount, faultCount>>
vars == <<tmVars, currTimestamp, phase, scriptVars>>

TypeOK ==
  /\ SiteTypeOK /\ LockTypeOK /\ TranTypeOK /\ TMTypeOK
  /\ currTimestamp \in Nat
  /\ phase \in {"reading", "draining", "dumped"}
  /\ ended \subseteq Tran
  /\ opCount \in [Tran -> Nat]
  /\ faultCount \in 0 .. MaxFaults

Init ==
  /\ SiteInit /\ LockInit /\ TranInit /\ TMInit
  /\ currTimestamp = 0
  /\ phase = "reading"
  /\ ended = {}
  /\ opCount = [t \in Tran |-> 0]
  /\ faultCount = 0

-----------------------------------------------------------------------------
(* Reading a line: ++curr_timestamp, add_instruction. *)

\* Faulty variant: the clock stands still.
AddInstructionKeepsClock(r) ==
  /\ phase = "reading" /\ pc = "ready"
  /\ request' = r
  /\ pc' = "execute"
  /\ lastRead' = None
  /\ UNCHANGED <<siteVars, lockVars, tranVars, blockedQueue, siteWaitingMap,
                 currTimestamp, loopVars, phase>>

AddInstruction(r) ==
  /\ phase = "reading" /\ pc = "ready"
  /\ currTimestamp' = currTimestamp + 1
  /\ request' = r
  /\ pc' = "execute"
  /\ lastRead' = None
  /\ UNCHANGED <<siteVars, lockVars, tranVars, blockedQueue, siteWaitingMap,
                 loopVars, phase>>

BeginLine(t) ==
  /\ status[t] = "none"
  /\ AddInstruction([type |-> IF t \in ReadOnlyTran THEN "BEGINO" ELSE "BEGIN",
                     timestamp |-> currTimestamp + 1, tran |-> t])
  /\ UNCHANGED scriptVars

\* Another read or write of t may follow in the script.
MoreOps(t) == status[t] # "none" /\ t \notin ended /\ opCount[t] < MaxOps[t]

ReadLine(t, x) ==
  /\ MoreOps(t)
  /\ AddInstruction([type |-> "READ", timestamp |-> currTimestamp + 1,
                     tran |-> t, var |-> x])
  /\ opCount' = [opCount EXCEPT ![t] = @ + 1]
  /\ UNCHANGED <<ended, faultCount>>

WriteLine(t, x, v) ==
  /\ MoreOps(t) /\ t \notin ReadOnlyTran
  /\ AddInstruction([type |-> "WRITE", timestamp |-> currTimestamp + 1,
                     tran |-> t, var |-> x, value |-> v])
  /\ opCount' = [opCount EXCEPT ![t] = @ + 1]
  /\ UNCHANGED <<ended, faultCount>>

EndLine(t) ==
  /\ status[t] # "none" /\ t \notin ended
  /\ AddInstruction([type |-> "END", timestamp |-> currTimestamp + 1, tran |-> t])
  /\ ended' = ended \cup {t}
  /\ UNCHANGED <<opCount, faultCount>>

FaultLine(kind, s) ==
  /\ faultCount < MaxFaults
  /\ AddInstruction([type |-> kind, timestamp |-> currTimestamp + 1, site |-> s])
  /\ faultCount' = faultCount + 1
  /\ UNCHANGED <<ended, opCount>>

-----------------------------------------------------------------------------
(* After the last line. *)

EndOfFile ==
  /\ phase = "reading" /\ pc = "ready"
  /\ phase' = "draining"
  /\ UNCHANGED <<tmVars, currTimestamp, scriptVars>>

\* is_all_instructions_finished, outside of execute_instructions.
IsAllInstructionsFinished ==
  request = None /\ \A t \in Tran : blockedQueue[t] = {}

\* Another pass; the timestamps from here on are only printed.
DrainPass ==
  /\ phase = "draining" /\ pc = "ready"
  /\ ~IsAllInstructionsFinished
  /\ pc' = "execute"
  /\ UNCHANGED <<dbVars, loopVars, request, currTimestamp, phase, scriptVars>>

Dump ==
  /\ phase = "draining" /\ pc = "ready"
  /\ IsAllInstructionsFinished
  /\ phase' = "dumped"
  /\ request' = [type |-> "DUMP", timestamp |-> currTimestamp]
  /\ pc' = "execute"
  /\ UNCHANGED <<dbVars, loopVars, currTimestamp, scriptVars>>

\* The process has returned from main or died.
Terminated ==
  /\ pc \in {"thrown", "undefined"} \/ (phase = "dumped" /\ pc = "ready")
  /\ UNCHANGED vars

-----------------------------------------------------------------------------

ReadScript ==
  \/ \E t \in Tran : BeginLine(t) \/ EndLine(t)
  \/ \E t \in Tran : \E x \in ScriptVars[t] : ReadLine(t, x)
  \/ \E t \in Tran : \E x \in ScriptVars[t], v \in WriteValues[t][opCount[t]] :
       WriteLine(t, x, v)
  \/ \E kind \in {"FAIL", "RECOVER"}, s \in Site : FaultLine(kind, s)

Execute ==
  ExecuteInstructions /\ UNCHANGED <<currTimestamp, phase, scriptVars>>

Next ==
  \/ ReadScript \/ Execute
  \/ EndOfFile \/ DrainPass \/ Dump
  \/ Terminated

\* One process runs the program; nothing but its own end stops it.
Spec == Init /\ [][Next]_vars /\ WF_vars(Next)
=============================================================================
