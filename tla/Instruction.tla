---------------------------- MODULE Instruction ----------------------------
(***************************************************************************)
(* The parser of script lines (class Instruction).  A line is a sequence   *)
(* of symbols: a word, a letter, a numeral, a bracket or a comma; beginRO  *)
(* is two of them, since the word begin is found at its start too.  An     *)
(* instruction is a record of the fields the constructor sets; it leaves   *)
(* the others uninitialized.                                               *)
(***************************************************************************)
EXTENDS Integers, Sequences, SequencesExt

CONSTANT MaxNumber  \* bound: the numbers in a script

Numbers == 0 .. MaxNumber

Comma == ","

\* The numerals of two numbers differ, and none is a bracket or a comma.
ASSUME NumeralAssumption ==
  /\ MaxNumber \in Nat
  /\ \A n \in Numbers :
       /\ ToString(n) \notin {"(", ")", Comma}
       /\ \A m \in Numbers : ToString(m) = ToString(n) => m = n

\* Faulty variant: begin is tried before beginRO.
KeywordsShortFirst ==
  << [word |-> <<"begin">>, type |-> "BEGIN"],
     [word |-> <<"begin", "RO">>, type |-> "BEGINO"],
     [word |-> <<"end">>, type |-> "END"],
     [word |-> <<"dump">>, type |-> "DUMP"],
     [word |-> <<"recover">>, type |-> "RECOVER"],
     [word |-> <<"fail">>, type |-> "FAIL"],
     [word |-> <<"W">>, type |-> "WRITE"],
     [word |-> <<"R">>, type |-> "READ"] >>

\* The words a line may start with, in the order in which they are tried,
\* and the InstructType each stands for.
Keywords ==
  << [word |-> <<"begin", "RO">>, type |-> "BEGINO"],
     [word |-> <<"begin">>, type |-> "BEGIN"],
     [word |-> <<"end">>, type |-> "END"],
     [word |-> <<"dump">>, type |-> "DUMP"],
     [word |-> <<"recover">>, type |-> "RECOVER"],
     [word |-> <<"fail">>, type |-> "FAIL"],
     [word |-> <<"W">>, type |-> "WRITE"],
     [word |-> <<"R">>, type |-> "READ"] >>

\* The first of the words that the line starts with, 0 if there is none.
FirstWord(line) == SelectInSeq(Keywords, LAMBDA w : IsPrefix(w.word, line))

\* find_first_of: 0 if there is none.
FirstOf(line, symbol) == SelectInSeq(line, LAMBDA c : c = symbol)

\* std::stoi, which throws if the text does not start with a number.
NoNumber == -1
Stoi(text) ==
  LET values == {n \in Numbers : text # <<>> /\ text[1] = ToString(n)}
  IN IF values = {} THEN NoNumber ELSE CHOOSE n \in values : TRUE

\* The loop of the W and R branches splits the text at its commas.
Token(text) ==
  IF FirstOf(text, Comma) = 0 THEN text ELSE SubSeq(text, 1, FirstOf(text, Comma) - 1)
Rest(text) ==
  IF FirstOf(text, Comma) = 0 THEN <<>> ELSE SubSeq(text, FirstOf(text, Comma) + 1, Len(text))
Tokens(text) == <<Token(text), Token(Rest(text)), Token(Rest(Rest(text)))>>

Unknown == [type |-> "UNKNOWN"]
Invalid == [type |-> "INVALID"]   \* std::stoi throws in the constructor

\* What each branch reads: the text of T1 and x1 is read past the letter,
\* the number of a site is not preceded by one.
Fields(type, line) ==
  LET start == FirstOf(line, "(") + 1
      text(first) == SubSeq(line, first, FirstOf(line, ")") - 1)
      tokens == Tokens(text(start + 1))
  IN CASE type \in {"BEGINO", "BEGIN", "END"} ->
            [type |-> type, tran |-> Stoi(text(start + 1))]
       [] type \in {"RECOVER", "FAIL"} ->
            [type |-> type, site |-> Stoi(text(start))]
       [] type = "WRITE" ->
            [type |-> type, tran |-> Stoi(tokens[1]),
             var |-> Stoi(Tail(tokens[2])), value |-> Stoi(tokens[3])]
       [] type = "READ" ->
            [type |-> type, tran |-> Stoi(tokens[1]), var |-> Stoi(Tail(tokens[2]))]
       [] type = "DUMP" -> [type |-> type]

\* Instruction(insr).
Parse(line) ==
  LET instruction == Fields(Keywords[FirstWord(line)].type, line)
  IN IF FirstWord(line) = 0 THEN Unknown
     ELSE IF \E f \in DOMAIN instruction \ {"type"} : instruction[f] = NoNumber
     THEN Invalid
     ELSE instruction

-----------------------------------------------------------------------------
(* The format of the scripts in test/input, and lines that break it.      *)

\* The lines of a script: UNKNOWN starts with no word, INVALID has no number.
Instructions ==
       [type : {"BEGINO", "BEGIN", "END"}, tran : Numbers]
  \cup [type : {"RECOVER", "FAIL"}, site : Numbers]
  \cup [type : {"WRITE"}, tran : Numbers, var : Numbers, value : Numbers]
  \cup [type : {"READ"}, tran : Numbers, var : Numbers]
  \cup [type : {"DUMP", "UNKNOWN", "INVALID"}]

Format(i) ==
  CASE i.type = "BEGINO"  -> <<"begin", "RO", "(", "T", ToString(i.tran), ")">>
    [] i.type = "BEGIN"   -> <<"begin", "(", "T", ToString(i.tran), ")">>
    [] i.type = "END"     -> <<"end", "(", "T", ToString(i.tran), ")">>
    [] i.type = "DUMP"    -> <<"dump", "(", ")">>
    [] i.type = "RECOVER" -> <<"recover", "(", ToString(i.site), ")">>
    [] i.type = "FAIL"    -> <<"fail", "(", ToString(i.site), ")">>
    [] i.type = "WRITE"   -> <<"W", "(", "T", ToString(i.tran), Comma, "x", ToString(i.var),
                               Comma, ToString(i.value), ")">>
    [] i.type = "READ"    -> <<"R", "(", "T", ToString(i.tran), Comma, "x", ToString(i.var), ")">>
    [] i.type = "UNKNOWN" -> <<"commit", "(", "T", "1", ")">>
    [] i.type = "INVALID" -> <<"begin", "(", "T", ")">>
=============================================================================
