# RepCRec in TLA+

RepCRec simulates a replicated, distributed database: it reads a script of
transactions (`begin(T1)`, `W(T1,x2,5)`, `fail(3)`, ...), executes it with
two-phase locking over ten sites with available-copies replication and
multi-version reads, and dumps the sites. This directory holds a TLA+ model of
it, the TLC runs that check the model, and theorems that TLAPS proves.

Everything is translated from `src/repcrec/**` and `src/main.cpp`. `PROJECT.json` maps every
definition to the lines it models.

## Inventory

The database is one process with one thread (with `all`, the harness runs one such process
per script and waits for each). Nothing runs in parallel, but a
transaction's requests are split over many calls of `execute_instructions`, the
requests of several transactions interleave as the script says, blocked requests
are executed later, sites fail and recover between any two of them, and the loops
over unordered containers run in an order nobody fixed.

| Component | State | Operations | Talks to |
|---|---|---|---|
| Driver (`main.cpp`) | `curr_timestamp`; the output files; the verdicts | execute a script (read a line, drain, dump), run all scripts in child processes, compare the outputs | Instruction, Transaction Manager, the operating system |
| Instruction | a parsed line | the constructor parses | Driver |
| Transaction Manager | `request_`, `transactions_`, `transactions_set_`, `blocked_transactions_queue_`, `site_waiting_map_` | `add_instruction`, `execute_instructions`, `abort_transaction`, `evict_transaction` | all (singleton) |
| Request (7 classes) | type, timestamp, transaction, site, variable, value | `exec()` | Transaction Manager, Lock Manager, Site, Transaction |
| Lock Manager | `lock_table_`, `wait_for_graph_` | `try_acquire_write_lock`, `assign_*`, `release_locks`, `detect_deadlock` | Site, Variable, Transaction Manager |
| Transaction | begin time, `write_records_`, `read_accessed_sites_` | `update_values`, `add_read_history`, `commit` | Site, Transaction Manager |
| Site, Site Manager | `write_available_`, `read_available_map_` | `set_unavailable`, `set_*_available`, `assign_var` | Variable |
| Variable | `value_`, `versions_`, lock owners | `get_value`, `set_value`, owner bookkeeping | - |

What makes each correct, and what is hard about it:

* **Lock Manager**: locks exclude each other although they are granted per copy
  at the sites that happen to be up; every lock can be found again when it has
  to be released; the deadlock search is right; the wait-for graph names only
  transactions that run.
* **Transaction Manager**: deadlocks are broken; each call returns; the blocked
  queue holds requests of running transactions although retried requests abort
  transactions while the loop walks the queue; the drain loop ends.
* **Site, Variable**: a copy that can be read is current, whatever failures and
  recoveries came in between; read availability follows the sites.
* **Transaction**: what is to be installed at commit is covered by locks and by
  sites that stayed up; a read-only transaction reads one snapshot; a commit
  installs all that was asked for.
* **All of these together**: to its read-write transactions the system looks like one copy of the
  data with serializable commits.
* **Driver, Instruction**: a line is understood as it is written; every script is executed and
  judged by what this run produced.

`PROJECT.json` lists under `hazards` each place where this can go wrong, with its
line.

## Modules

| Module | Models | Extends |
|---|---|---|
| `Global` | `global.h`: sites, variables, placement, the odd variables of a site | - |
| `SiteManager` | Site, Site Manager, the value part of Variable | `Global` |
| `WaitForGraph` | what a deadlock is: `HasCycle(graph)` | `Global` |
| `LockManager` | Lock Manager, the lock part of Variable | `SiteManager`, `WaitForGraph` |
| `Transaction` | Transaction and the table of transactions | `SiteManager` |
| `TransactionManager` | Transaction Manager, `exec()` of the requests | `LockManager`, `Transaction` |
| `RepCRec` | the driver; the whole specification `Spec` | `TransactionManager` |
| `Properties` | invariants, action properties, liveness of `RepCRec` | `RepCRec` |
| `LockScan` | the loop of `try_acquire_write_lock`, copy by copy, beside the program | `Properties` |
| `Promises` | history variables; what the README and the comments promise of reads, writes and commits, and what holds of it | `Properties` |
| `Snapshots` | history variables; what is promised of read-only transactions, and what holds of it | `Properties` |
| `OneCopy` | the abstract specification: one copy of every variable; its two theorems | `TLAPS` |
| `Refinement` | the mapping, `Copy == INSTANCE OneCopy WITH ...` | `Promises` |
| `DeadlockDetector` | `detect_deadlock` and its depth-first search, step by step | `WaitForGraph` |
| `Instruction` | the parser of script lines | - |
| `Harness` | `main`, `fork`/`wait`, `execute_test_case_check` | `Instruction` |
| `MCScripts` | the scripts of the instances: who writes what, where and how often | `Properties` |
| `MCRepCRec`, `MCLockScan`, `MCPromises`, `MCSnapshots`, `MCDeadlockDetector`, `MCHarness` | values of the constants for TLC | |
| `DeadlockDetectorProofs` | the search is right and advances | `DeadlockDetector`, `TLAPS` |
| `RepCRecTypes` | type correctness of the whole program | `RepCRec`, `TLAPS` |
| `LockProofs` | every request keeps the lock invariant; the scan of the copies is right | `LockScan`, `RepCRecTypes` |
| `RepCRecSafety` | `SafetyInv` is inductive, and what follows from it | `LockProofs` |
| `CopyProofs` | `CopyInv` is inductive on top of it, strict two-phase locking, stale copies, snapshots, stamps, the drain loop | `RepCRecSafety`, `Snapshots` |
| `RefinementProofs` | `RepCRec` implements `OneCopy`; which reads stay firm, which updates are lost | `CopyProofs`, `Refinement` |
| `HarnessProofs` | lines are understood, children are settled, verdicts are right, one process runs at a time | `Harness`, `TLAPS` |

How the state corresponds to the code:

* A map of the code is a total function; an absent entry is `None` or `{}`.
  `status[t] = "active"` means that `t` is in `transactions_` (and
  `transactions_set_`). `write_records_` and `write_accessed_sites_` always hold
  the same and are one variable. `lastCommitted`, `lastRead` and the variables
  of `Promises` and `Snapshots` are history: they record and never steer. `PromiseSpec` and `SnapshotSpec` are
  `Spec` with the history variables of the one or the other.
* One call of `execute_instructions` is several steps, so that the checks look at
  every intermediate state. `pc` says where it is: `execute` (deadlocks are
  broken, one abort per step, then the current request runs), `retry` (the walk
  of the blocked queue, one transaction or one request per step), `ready`
  (outside). `thrown` is a process ended by an exception, `undefined` one that ran
  into undefined behaviour.
* The walk of `blocked_transactions_queue_` takes the transactions in any order
  (an `unordered_map`) and works on a copy of each queue (`retryQueue`), as the code
  does. When a retried `end` fails to commit, `abort_transaction` erases the
  entry the iterator stands on. What happens next is undefined in C++; the model
  lets the walk go on, end early, or the process die.
* `release_locks` erases the released transaction from a *copy* of each edge set.
  So `WaitForGraphWithout` drops an edge set only when it held nothing else.
* Reads ask `try_acquire_write_lock` too (request.cc:184 and 223; `try_acquire_read_lock`
  has no caller), so a read waits for the readers of other transactions.
* `try_acquire_write_lock` scans the copies by site and stops at the first that
  decides the answer: `StopCopies`, `FirstStop`, `LockStatus`, `LockOwners` give it in one step. In
  `LockScan` the loop itself runs, statement by statement, whenever a read or write may call it, and
  `ScanInv` compares what it returns with them.
* Timestamps count the script lines from 0 instead of 10000. The versions are a
  set of `[ts, val]` records with at most one record per timestamp.

* In `OneCopy` a transaction has pending values and values it has seen; a read needs that nobody is
  about to write the variable, a write that nobody else has read it. `db` is `lastCommitted`, `pending[t][x]`
  is the value recorded at the sites for `x`, `seen` is a history variable of `Promises`. Waiting,
  retrying, failures that hit nobody and recoveries are stuttering steps; an abort of several
  writers of a failed site is one step.
* A script line in `Instruction` is a sequence of symbols; `beginRO` is two of them, because the code
  looks for `begin` at its start as well. In `Harness` a request succeeds or ends the process, and the drain
  loop ends, spins or ends the process: which of these happens to what is the subject of `RepCRec`. An input stream
  has the state that decides what `std::getline` does: at the end of a file it clears the string the first
  time and leaves it alone afterwards.

Abstracted: the text of the messages and of the dump; values: `WriteValues` says what a
transaction may write as its first and as its second operation. In most instances that is its own name (`TranWrites`), so two
writers never agree by chance; in `Mixed` the second operation of the busy transaction writes 0 (`OwnWrites`), so that no two
writes of a script agree, and a lost update is not covered up by another write. `Request` timestamps matter only for the order in a queue, the
begin time and the version stamps, which is what the model keeps them for.

## Deviations from the documents

The model follows the code where the code does not do what a document or a
comment says. Five have a run with a counterexample found by TLC, and the
program itself behaves in the same way when it is fed the script of the
counterexample:

| Run | What happens |
|---|---|
| `LostRetriedWrite` | a queued write that blocks again while it is retried is erased from the queue |
| `LateStampedSnapshot` | an `end` that waited is stamped with the time of its script line, and changes the snapshot of a read-only transaction that began meanwhile |
| `UncheckedReadSite` | the read of an even variable leaves no history, so `commit` does not check its site (request.cc:244, against transaction.h:31) |
| `OvertakenRequest` | a read or write of a waiting transaction runs ahead of its queued requests (transaction_manager.cc:88, against the comment in line 82) |
| `DrainHangs` | a waiter keeps an edge to a transaction that is gone, and the drain loop spins for ever |

The others are in the model as well and have no run of their own:

* The second write of a transaction to an even variable is answered HAS_WRITE_LOCK with no sites, and is
  recorded nowhere (lock_manager.cc:95, request.cc:97). A write to an odd variable whose site is down is dropped and
  its transaction commits (request.cc:47). Both are against README.md:55, like `LostRetriedWrite`.
  A queued write that is retried after a younger one of its transaction has run (`OvertakenRequest`) replaces the value of the younger one. These four are the
  only ways an update gets lost: that is `LostUpdatesExplained`.
* Reading a variable one has locked already throws `error status!` (request.cc:254). A retried
  `end` that fails to commit erases the entry under the iterator of the walk (transaction_manager.cc:109 and 152), which is undefined
  behaviour. `CrashesExplained` says that nothing else ends the process.
* A read-write transaction reads an even variable at a site that is up, readable or not (request.cc:246,
  against README.md:61). What it finds there is explained by `StaleCopiesMissedCommit`: a copy differs from what was committed last only if
  the last commit missed it. `FirmReadsHold` says what holds of the reads at readable copies: what they have read stays
  committed until their transaction ends or the site fails.
* A copy that missed a commit while its site was down has a gap in its versions after the next commit makes it
  readable, and serves it to a read-only transaction that began in between (variable.cc:61). This and the late stamp are the only
  ways a snapshot goes wrong: that is `SnapshotsExplained`.

In the harness, a comparison in mode `print` judges the output file of an earlier run, since nothing is written; and a
script without an expected file would pass, since neither string is ever read. `VerdictsRight` excludes the first by name and
`ExpectedAssumption` the second: every script of `test/input` has an expected file, none of which is empty or has an empty line.
Only the final dump goes to the output file (everything else is printed), so that is all that is compared.

## Runs

All instances have two sites and four variables: the smallest placement with
variables of both kinds and with two odd variables on one site and none on the other.
Two transactions are enough for a conflict, a deadlock and a wait; three are used
where a waiter needs two owners. `Vars` names the variables in use and `Busy` the
transactions with two reads or writes; the others have one; `MaxFaults` bounds the `fail`
and `recover` lines. Every script within these bounds is explored, with every order of
iteration. Only `DrainHangs` narrows the scripts further: three transactions that only read,
on `x1` and `x3`, where each of the two that are not busy reads a variable of its own.

| Run | Instance | Distinct states | Shows |
|---|---|---|---|
| `Faults` | 2 transactions of 2 operations on `x2`, 2 faults | 0.57 M | locks exclude each other, one writer per variable, pending writes are covered, no lock or wait outlives its transaction, readable copies are current and the others are stale only where a commit missed them, no end is lost in the blocked queue, locking is strict two-phase |
| `Scan` | 2 transactions on `x1` and `x2`, one of 2 operations, 2 faults | 2.77 M | the loop of `try_acquire_write_lock` gives the answers of `LockStatus` |
| `Mixed` | 2 transactions on `x1` and `x2`, one of 2 operations, 1 fault | 0.46 M | the program implements `OneCopy` and its commits are serializable; `SafetyInv` and `SeenInv`, the inductive invariants, when retried commits fail (only reads of odd variables leave a history that makes them fail); the process dies for two reasons only; every abort has a cause; updates are lost in four ways only; what was read at a readable copy stays committed until its site fails; no commit has read a variable whose only copy is at a site that is down; each drain pass retries somebody, or somebody is queued whom nothing wakes (`NothingWakes`); timestamps tell transactions, queued requests and versions apart |
| `ReadOnly` | a read-write transaction of 2 operations and a read-only one on `x1`, `x2`, 2 faults | 0.72 M | a snapshot read goes wrong for two reasons only, and a commit comes late only after its end has waited; no transaction goes on waiting for a site that is up; `CopyInv`, the inductive invariant of the copies (read availability follows the sites, readable copies are current, records reach all of them); the drain loop ends once all sites are up |
| `Deadlock` | 2 transactions of 2 operations on `x2`, `x4` | 0.12 M | every deadlock is broken, every call returns, the program ends and dumps after all ends; without failures all copies keep the same versions |
| `Detector` | every wait-for graph of 3 transactions | 7782 | the search is right and ends |
| `Harness` | 4 scripts: every kind of line, a dump only, an unknown word, a missing number; two possible dumps; all three modes; any files left from before | 19074 | lines are understood; every child is waited for and the failed ones are reported; Pass means what it says; the harness ends unless a script spins |

Two faults let a site fail and recover, or fail while the other is down. In `Mixed` one fault is enough for what
its properties are about: a failure makes a queued `end` fail, cuts a reader's copy off, or lets a writer miss a site or lose a write.
Three of the four ways to lose an update occur there. The fourth, a write that blocks again while it is retried, takes
three transactions, as in `LostRetriedWrite`; `LostUpdatesExplained`, `FirmReadsHold`, `StaleCopiesMissedCommit` and `AbortsExplained` were
also checked with three transactions on `x1` without faults and on `x2` with one, which takes longer than a run should, and the theorems cover it.
The five runs that expect a violation are in the table above; their instances are the
smallest that show it.

`Faults` uses symmetry of the transactions; it checks invariants
and action properties only. Runs with liveness use no symmetry. Deadlock is checked in every run: `Terminated`
is the only step of a program that has ended.

With fail lines `OneCopy` leaves open what a read of a replicated (`Exposed`) variable returns and whether it
holds off writers, because the code keeps neither promise: such a read may be served by a stale copy and locks
the readable copies only. Everything about writes and commits, and the reads of variables with one copy, stays in
force. That is what `Mixed` checks; without fail lines nothing is exposed, and that case is in the theorem.

In `ReadOnly` the end of the writer can wait, for a site, while the read-only transaction begins: `SnapshotReads` does not hold there,
any more than in `LateStampedSnapshot`, and `SnapshotsExplained` names the two causes. The history variable `late`
has the variables for which a commit came too late (`TooLate`), `Missed` is a copy with a gap. For a gap to matter it takes
two writers, a failure and a recovery. `SnapshotsExplained` and its invariant `SnapshotInv` were checked with TLC on such an instance too
(two writers and a reader on `x2`, 2 faults, where both causes occur; with the one writer of `ReadOnly` no gap is ever read), and on those of `LateStampedSnapshot` with one fault
and of `ReadOnly`; the first two take longer than a run should, and the theorems cover them.

For every property of a passing run `PROJECT.json` names a mutant: a definition
marked *Faulty variant* in the modules that breaks the property when it replaces the
original.

### Fairness

`Spec` has `WF_vars(Next)`: the process keeps running. There is one thread and no
blocking call in it, so this is what the operating system gives it. It does not make
any particular choice fair: the script may go on as long as the bounds allow, and the
walk takes the queue in any order. `DrainEnds` therefore assumes that the whole script was
read and that every running transaction has its `end` in it; its passing run
has no faults, since a site that never recovers keeps its waiters waiting by design. `DrainEndsWhenUp` has the faults
and assumes that every site is up when the script is over.

`Harness` has weak fairness for the parent and for each child: they are processes that the operating system
schedules independently. A child whose drain loop spins takes steps for ever, so `HarnessEnds` says that the harness ends
unless there is one; `DrainHangs` shows that there may be.

## Proofs

Checked by TLAPS for every value of the constants, from `GlobalAssumption` (an
even number of sites, twice as many variables, `None` is no transaction, value or site),
`ReadAssumption` and `RequestAssumption` (nor a read or a request), `ScriptAssumption` (the scripts use existing variables, and values that exist) and, for the harness,
`ExpectedAssumption` (the expected files, see above), `FormatAssumption` (the scripts consist of lines as in `test/input`, or of the two that
break the format) and `NumeralAssumption` (the numerals of two numbers differ, and none is a bracket or a comma), which TLC evaluates up to `MaxNumber`.

* `DeadlockDetectorProofs!DetectorCorrect`: `Spec => []DetectsExactly`. Whenever
  `detect_deadlock` returns, it is right, for any graph, any number of
  transactions and any iteration order. The invariant `DetectorInv` (checked by
  `Detector`, proved as `DetectorInvariant`) says
  that the call stack is a path of the graph made of exactly the ON_PATH nodes, that all successors a
  call is done with are finished (or are the call above it), and that finished nodes lead to finished
  nodes only and contain no cycle. The two lemmas that use it are `PathClosesCycle`: an edge back to
  the stack closes a cycle; and `NoRootsNoCycle`: with all keys finished there is none. `SearchAdvances` gives the measure: every step visits a node for the first
  time, or uses up a root, a successor or a call.
* `RepCRecTypes!TypeCorrect`: `Spec => []TypeOK` for the whole program. Besides the types it shows
  that every copy keeps a version older than any transaction, so that
  `prev(versions_.upper_bound(ts))` in `Variable::get_value` is defined. One lemma per request
  class (`ExecWriteType`, ...), one for each part of the loop, combined in `NextType`.
* `RepCRecSafety!SafetyInvariant`: `Spec => []SafetyInv`. None of the safety properties is
  inductive alone. `SafetyInv` has, besides the types,
  - `LockInv`: no two holders of a copy, one writer per variable, every lock recorded in
    `lock_table_` by a running transaction, and (`RecordsLocked`) the exclusive locks are exactly the
    copies with a pending write, all at sites that are up. `WriteLockGranted` needs the last part: a
    lock is granted at the up copies only, and another writer could sit on a copy that is down if a
    failure did not abort it;
  - `QueueInv`: what is queued of a transaction is its own, and its `end` is the youngest of it. So
    when a retried `end` aborts or commits its transaction, nothing of that transaction is left in the copy
    the loop walks, and the loop never looks up a transaction that is gone;
  - `WalkInv`, `BegunInv`, `RequestInv`: the walk retries one running transaction at a time and
    visits none twice; a transaction that has not begun is nowhere queued; the current request is younger than what
    is queued of its transaction.

  `ExecLocks` (module `LockProofs`) and `ExecEffect` say what executing any request does to locks and
  queues; one lemma per step of the loop uses them; `NextSafe` combines these. `LocksExclude`, `WritersAlone`, `LocksOwned`,
  `WritesCovered`, `DeadlocksHaveVictims` and `QueuesRun` are what follows: `LockExclusion`, `OneWriter`, `NoOrphanLocks`, `PendingWritesCovered`,
  `WaitersRun` and, with no run of its own since it is a part of `SafetyInv`, `RetriesRun`. The theorems cover the `undefined` branches of the walk as well, since the model allows them.
* `CopyProofs!CopyInvariant`: `Spec => []CopyInv`. That a readable copy is current needs
  `RecordsComplete`, that a transaction's records for a variable reach every copy that can be read
  and agree: a copy that missed the write because its site was down cannot become readable before the
  commit, for even variables since recovery does not restore them and nobody else can write, for
  odd ones since they have no other copy (`HomesCurrent`). `HomeRecovers` proves the arithmetic of
  `RecoveryRequest::exec` for every even number of sites. `CopiesCurrent`, `SitesReadable` and `WaitersOfDownSites` follow.
* `RepCRecSafety!CrashesKnown`: `Spec => []CrashesExplained`. `ThrowerHoldsLock`: of the answers of the lock test only two
  make a read throw, and both mean that the transaction holds a lock of the variable. `RetryCrash`: an entry is erased
  under the iterator only by a queued `end` that cannot commit, of a transaction the walk has visited.
* `RepCRecSafety!EndsNotLost` and `RepCRecSafety!DumpWaitsForEnds`: `Spec => []EndsPending` and `Spec => DumpAfterEnds`. `EndsPending` is inductive
  with `SafetyInv` and `EndsBegun` (an end line comes after its begin line). `ExecRuns`: executing a request takes nothing from the queue
  of a transaction that goes on running, and an end leaves its transaction in no case. So an end leaves the queue only when the walk copies it, and the copy
  only when it is executed; what the walk skips stays queued, because it is not in `finished_set`. The dump follows: with all queues empty and no walk
  there is no place for an end to wait.
* `CopyProofs!LocksKept` and `CopyProofs!AbortsCaused`: `Spec => StrictTwoPhase` and `Spec => AbortsExplained`, action properties, from `SafetyInv`
  and `CopyInv`. `AbortsCaused` needs `RecordsLocked`: the writers of a failed site are gone, so
  the first check of `Transaction::commit` always succeeds and an end fails for its reads only. Of a deadlock it says what the code does
  (transaction_manager.cc:66): the victim is the youngest of all running transactions, which need not be on the cycle. If T1 reads `x2`, T2 waits to write
  it and T1 writes it, T1 waits for itself and T2 is aborted first.
* `CopyProofs!StaleCopiesExplained`: `Spec => []StaleCopiesMissedCommit`. `CommitWrites`: by `RecordsComplete` a commit installs one value at all the copies
  it reaches, with one stamp. By `StampsUnique` that stamp is no older version's, so a copy it does not reach lacks the version, also when the commit is late.
* `CopyProofs!DrainsAdvance`: `Spec => DrainAdvances`. Every pass of the drain loop retries a transaction, which the loop then does not retry again
  within the pass, or there is a queued transaction for one of the three reasons of `NothingWakes`: its site is down; it waits for a transaction that
  has no `end` in the script; or the two or more it waited for are all gone and nobody has dropped the edges. That there is no fourth reason
  is `SpinsForReason`: if everybody who is queued waits for somebody with requests in the queue, they wait in a circle, which `detect_deadlock`
  would have found. It needs `DrainInv` (`DrainInvariant`), above all `EdgesCurrent`: who waits for one transaction only waits for one
  that runs, although `release_locks` erases from copies of the edge sets. `TwoDrainFreely` draws the consequence: two
  transactions never hang once all sites are up, which is why `DrainHangs` takes three.
* `CopyProofs!CallsAdvance`: no step of a call of `execute_instructions` leaves its measure as it was: the loop over deadlocks has fewer
  transactions each time, the walk fewer transactions to visit or fewer requests of one, and no request it executes adds to them.
* `CopyProofs!StampsAreUnique` and `CopyProofs!VersionsStay`: `Spec => []StampsUnique` and `Spec => VersionsKept`. `transactions_set_` is ordered by
  begin time and a request queue by timestamp, and both take equal for the same; `versions_` is a map from stamps. `PendingSteps` says where requests
  still to be executed come from, `BeginsLater` and `StampsPast` that what is new is younger than what is there. So no commit overwrites a version.
* `CopyProofs!AlikeUntilFailure`: `Spec => [](CopiesAlike /\ NothingDown)`. As long as nothing is down, every copy is readable, so by `RecordsComplete`
  a commit has a record for each copy of what it writes and stamps them all alike.
* `CopyProofs!SnapshotInvariant`: `SnapshotSpec => []SnapshotInv`, and from it `SnapshotReadsExplained` and `LateEndsHaveWaited`. What a reader finds is decided by the
  versions up to its begin time (`UptoDecides`), so the invariant speaks of `GetValue` at a time: for a transaction that is still to begin, at the current line
  (`SnapshotsReady`), for one that runs, at its begin time (`SnapshotsKept`). `StampsPast` is what makes an end that did not wait harmless: its stamp is
  younger than every begin and every version. `CommitKeepsSnapshot` and `CommitReadiesSnapshot` are the two cases of a commit. The gap is needed
  as a second excuse: a copy may lack the version a reader is entitled to, and become readable later.
* `LockProofs!ScanCorrect`: `ScanSpec => []ScanInv`. The invariant `ScanProgress` says that the copies passed so far
  can all be locked and are the ones named in the answer, and that its status is that of the promotions among
  them; so the first copy that stops the loop is `FirstStop`, and the loop that ends has named `UpCopies`. It is for any number of
  sites, which the runs with two cannot show.
* `OneCopy!Serializable`: the commits of `OneCopy` are serializable in their order, from `OneCopyInv`: no pending write meets
  a read or another pending write, so what is seen stays committed. The assumption `ConstantsOK` is about its constants
  only, and `RefinementProofs` discharges it.
* `RefinementProofs!Refines`: `PromiseSpec => ImplementsOneCopy`. On top of `SafetyInv` and `CopyInv` the mapping needs `SeenInv`
  (`RefinementInvariant`): a transaction that has read a protected variable holds a lock on every copy of it until it ends, also when the site
  fails and recovers, since locks outlive a failure. `PendingRecords` shows that the records a transaction has for a variable
  agree, so that the choice in `PendingValue` is none; `ExecMaps` maps each request, `AbortMaps` the aborts.
  `CommitsSerializable` carries `SerialCommits` over.
* `RefinementProofs!HomesUpAtCommit`: `PromiseSpec => CommitsWithHomesUp`, with `HomeReadsRecorded`: what a running transaction has read of a variable with one
  copy is in its read history, which `Transaction::commit` checks. For the replicated ones this is not so (`UncheckedReadSite`).
* `RefinementProofs!FirmReadsStay`: `PromiseSpec => []FirmReadsHold`. The invariant `FirmReads` adds that the reader still holds a lock of the copy it has read.
  A commit has exclusive locks on all it writes (`RecordsLocked`), and by `RecordsComplete` whoever writes a variable writes every readable copy of it, also the one
  the reader has locked. This holds for replicated variables under failures, where `SeenInv` and `OneCopy` say nothing.
* `RefinementProofs!LostUpdatesAccounted`: `PromiseSpec => LostUpdatesExplained`. `AskedInv`: what a running transaction has asked to write last is still to be
  executed (`StillQueued`), or has a record somewhere, or is `lost`. `WriteLands` says that a write which is executed and not dropped leaves a record, `AskedFate` follows what is
  asked through each step. When the end is executed nothing of its transaction is queued (`EndComesLast`), so what is not lost has a record, and `CommitsAsked` finds it committed.
  `OneKind` (nobody shares a copy with an exclusive lock) tells that a write answered with no sites is one of the cases of `DropsWrite`.
* `HarnessProofs!ParseInvertsFormat`: `\A i \in Instructions : Parse(Format(i)) = i`. The word of each branch is found at the start of its own lines
  and of no line of an earlier branch (`WordOf`, which is where `beginRO` before `begin` matters), the brackets and commas
  are where `find_first_of` and the loop look for them, and a numeral is none of these and stands for one number. From it `ScriptsAreUnderstood`: `Spec => []ScriptUnderstood`, with
  `ScriptInv`, by counting the lines read that are not dumps.
* `HarnessProofs!HarnessInvariant`: `Spec => []HarnessInv`, where `HarnessInv` is `SettledInv` and `ScriptInv`; `ChildrenAreSettled` and `VerdictsAreRight` follow. `ChildrenInv`: whenever
  the parent returns to the directory, every child so far is reaped, since it leaves the wait loop at a failed child or when
  there is none, and there is one child at a time. `CompareInv`: both files have been read up to the same line and agree
  there, so at the end of the output the cleared string differs from the expected line, which is not empty.
* `HarnessProofs!HarnessGoesOn`: `Spec => HarnessAdvances`. No process runs but the one the parent waits for, or is itself (`OneRuns`), and each step
  reads a line, reaps a child, takes an entry or ends a part.

Only model-checked: liveness (`DeadlockBroken`, `ExecuteReturns`, `DrainEnds`, `DrainEndsWhenUp`, `Termination`, `HarnessEnds`), which
TLAPS does not cover. What is proved is the safety half of each, that every step makes progress: `CallsAdvance` for the first two, `DrainsAdvance`
and `TwoDrainFreely` for the drain loop, `SearchAdvances` and `HarnessGoesOn` for the last two. That a step is always possible is the deadlock
check of the runs, and the end of the argument, that a measure cannot decrease for ever, is left to TLC.

Each of these was checked with TLC before it was proved, on the instances of `Mixed`, `Detector` and `Harness`, `DrainMoves` also on that of `DrainHangs` and with three
transactions on `x1` and `x2` and one fault (3.8 M states), where all three reasons of `NothingWakes` occur.

`SnapshotReads`, `CommitsAllUpdates`, `CommitsWithSitesUp`, `QueuedRequestsFirst` and, for three transactions, `DrainEnds` are not properties of the program.
The theorems say what the code keeps, not what the README promises.

## Not modelled

* `try_acquire_read_lock`, `remove_self_from_wait_for_graph`, `SiteManager::set_unavailable`,
  `waiting_var_id_`: no caller, or never read.
* Scripts that are not well formed (a request before `begin` or after `end`, a second `begin`, a write of
  a read-only transaction): none of `test/input` is, and `ReadScript` does not produce them. Of lines that
  break the format, `Harness` has an unknown word and a missing number; a line without brackets or
  with too few commas runs out of the bounds of a string or vector, and is left out.
* The text of the messages and the layout of the dump; listing the directories; a `fork` that fails.
* Integer overflow: identifiers and timestamps stay small.
* The build files, the test data and the documents have no behaviour; the data fixes which scripts are
  well formed, the documents are what the promises are taken from.

## What could come next

An abstract specification of the walk of the blocked queue (each queued request of a transaction that can go on
is executed once, in time order, within one call).
