---------------------------- MODULE Transaction ----------------------------
(***************************************************************************)
(* The transactions (repcrec/transaction) and the transaction manager's    *)
(* table of them.  status[t] = "active" means that t is in transactions_   *)
(* and in transactions_set_; "committed" and "aborted" are the two ways    *)
(* the program reports that it left.                                       *)
(***************************************************************************)
EXTENDS SiteManager

VARIABLES
  status,         \* where a transaction is in its life
  beginTime,      \* Transaction::timestamp_
  isReadOnly,     \* Transaction::is_read_only_
  writeRecords,   \* write_records_ = write_accessed_sites_, None when absent
  readRecords,    \* read_accessed_sites_, None when absent
  lastCommitted   \* history: the value last committed to each variable

tranVars == <<status, beginTime, isReadOnly, writeRecords, readRecords,
              lastCommitted>>

NoRecords == [s \in Site |-> [x \in Var |-> None]]

Records == [Site -> [Var -> Value \cup {None}]]

TranTypeOK ==
  /\ status \in [Tran -> {"none", "active", "committed", "aborted"}]
  /\ beginTime \in [Tran -> Nat]
  /\ isReadOnly \in [Tran -> BOOLEAN]
  /\ writeRecords \in [Tran -> Records]
  /\ readRecords \in [Tran -> Records]
  /\ lastCommitted \in [Var -> Value]

TranInit ==
  /\ status = [t \in Tran |-> "none"]
  /\ beginTime = [t \in Tran |-> 0]
  /\ isReadOnly = [t \in Tran |-> FALSE]
  /\ writeRecords = [t \in Tran |-> NoRecords]
  /\ readRecords = [t \in Tran |-> NoRecords]
  /\ lastCommitted = [x \in Var |-> InitialValue(x)]

\* TransactionManager::transactions_.
Transactions == {t \in Tran : status[t] = "active"}

\* Transaction::is_written_into_site.
IsWrittenIntoSite(t, s) == \E x \in Var : writeRecords[t][s][x] # None

-----------------------------------------------------------------------------

\* Faulty variant: a transaction is stamped with the next line's time.
AddTransactionLater(t, ts, ro) ==
  /\ status' = [status EXCEPT ![t] = "active"]
  /\ beginTime' = [beginTime EXCEPT ![t] = ts + 1]
  /\ isReadOnly' = [isReadOnly EXCEPT ![t] = ro]
  /\ UNCHANGED <<writeRecords, readRecords, lastCommitted>>

\* Transaction::Transaction and TransactionManager::add_transaction.
AddTransaction(t, ts, ro) ==
  /\ status' = [status EXCEPT ![t] = "active"]
  /\ beginTime' = [beginTime EXCEPT ![t] = ts]
  /\ isReadOnly' = [isReadOnly EXCEPT ![t] = ro]
  /\ UNCHANGED <<writeRecords, readRecords, lastCommitted>>

\* Faulty variant: only one of the sites is told.
UpdateValuesOnce(t, S, x, v) ==
  /\ writeRecords' = [writeRecords EXCEPT ![t] =
       [s \in Site |-> [y \in Var |->
          IF s \in S /\ y = x /\ \A u \in S : s <= u THEN v ELSE writeRecords[t][s][y]]]]
  /\ UNCHANGED <<status, beginTime, isReadOnly, readRecords, lastCommitted>>

\* Transaction::update_values at the sites S.
UpdateValues(t, S, x, v) ==
  /\ writeRecords' = [writeRecords EXCEPT ![t] =
       [s \in Site |-> [y \in Var |->
          IF s \in S /\ y = x THEN v ELSE writeRecords[t][s][y]]]]
  /\ UNCHANGED <<status, beginTime, isReadOnly, readRecords, lastCommitted>>

\* Transaction::add_read_history.
AddReadHistory(t, s, x, v) ==
  /\ readRecords' = [readRecords EXCEPT ![t][s][x] = v]
  /\ UNCHANGED <<status, beginTime, isReadOnly, writeRecords, lastCommitted>>

\* The transactions of T leave transactions_ and their objects are freed.
Evict(T, outcome) ==
  /\ status' = [t \in Tran |-> IF t \in T THEN outcome ELSE status[t]]
  /\ writeRecords' = [t \in Tran |->
                        IF t \in T THEN NoRecords ELSE writeRecords[t]]
  /\ readRecords' = [t \in Tran |->
                       IF t \in T THEN NoRecords ELSE readRecords[t]]
  /\ UNCHANGED <<beginTime, isReadOnly>>

\* Faulty variant: only the written sites are checked.
CanCommitUnread(t) ==
  \A s \in Site : IsWrittenIntoSite(t, s) => writeAvailable[s]

\* The checks of Transaction::commit: every site written is up, every copy
\* in the read history can still be read.
CanCommit(t) ==
  /\ \A s \in Site : IsWrittenIntoSite(t, s) => writeAvailable[s]
  /\ \A s \in Site, x \in Var :
       readRecords[t][s][x] # None => readAvailable[s][x]

\* The updates of Transaction::commit, stamped with the commit time.
InstallWrites(t, ts) ==
  /\ AssignVar(writeRecords[t], ts)
  /\ SetReadAvailable({c \in Site \X Var : writeRecords[t][c[1]][c[2]] # None})
  /\ UNCHANGED writeAvailable
  /\ lastCommitted' = [x \in Var |->
       IF \E s \in Site : writeRecords[t][s][x] # None
       THEN writeRecords[t][CHOOSE s \in Site : writeRecords[t][s][x] # None][x]
       ELSE lastCommitted[x]]
=============================================================================
