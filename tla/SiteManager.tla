---------------------------- MODULE SiteManager ----------------------------
(***************************************************************************)
(* The sites and the copies of the variables they store                    *)
(* (repcrec/site_manager, repcrec/site, and the value part of              *)
(* repcrec/variable).  A site is write-available as a whole and            *)
(* read-available per variable; a copy has a current value and a           *)
(* timestamped version history for the read-only transactions.             *)
(***************************************************************************)
EXTENDS Global

VARIABLES
  writeAvailable,   \* Site::write_available_
  readAvailable,    \* Site::read_available_map_
  value,            \* Variable::value_ of the copy at a site
  versions          \* Variable::versions_, a set of [ts, val]

siteVars == <<writeAvailable, readAvailable, value, versions>>

Version == [ts : Nat \cup {-1}, val : Value]

SiteTypeOK ==
  /\ writeAvailable \in [Site -> BOOLEAN]
  /\ readAvailable \in [Site -> [Var -> BOOLEAN]]
  /\ value \in [Site -> [Var -> Value]]
  /\ versions \in [Site -> [Var -> SUBSET Version]]
  /\ \A s \in Site, x \in Var : \E v \in versions[s][x] : v.ts = -1

\* The constructors of SiteManager, Site and Variable.
SiteInit ==
  /\ writeAvailable = [s \in Site |-> TRUE]
  /\ readAvailable = [s \in Site |-> [x \in Var |-> TRUE]]
  /\ value = [s \in Site |-> [x \in Var |-> InitialValue(x)]]
  /\ versions = [s \in Site |->
                   [x \in Var |-> {[ts |-> -1, val |-> InitialValue(x)]}]]

\* The sites a lock on x is asked at: those that store x and are up.
UpCopies(x) == {s \in CopySites(x) : writeAvailable[s]}

\* Faulty variant: the newest version, whatever the timestamp.
GetValueNewest(s, x, ts) ==
  (CHOOSE v \in versions[s][x] : \A u \in versions[s][x] : u.ts <= v.ts).val

\* Variable::get_value(timestamp): the last version not after the timestamp.
GetValue(s, x, ts) ==
  LET old == {v \in versions[s][x] : v.ts <= ts}
  IN  (CHOOSE v \in old : \A u \in old : u.ts <= v.ts).val

\* Site::set_unavailable: nothing of the site can be read or written.
SetUnavailable(s) ==
  /\ writeAvailable' = [writeAvailable EXCEPT ![s] = FALSE]
  /\ readAvailable' = [readAvailable EXCEPT ![s] = [x \in Var |-> FALSE]]
  /\ UNCHANGED <<value, versions>>

\* Site::set_write_available.
SetWriteAvailable(s) == writeAvailable' = [writeAvailable EXCEPT ![s] = TRUE]

\* Site::set_read_available for every copy <<s, x>> of C.
SetReadAvailable(C) ==
  readAvailable' = [s \in Site |->
                      [x \in Var |-> readAvailable[s][x] \/ <<s, x>> \in C]]

\* Faulty variant: a commit replaces the version history.
AssignVarForgets(w, ts) ==
  LET written(s, x) == w[s][x] # None IN
  /\ value' = [s \in Site |-> [x \in Var |->
                 IF written(s, x) THEN w[s][x] ELSE value[s][x]]]
  /\ versions' = [s \in Site |-> [x \in Var |->
                    IF written(s, x) THEN {[ts |-> ts, val |-> w[s][x]]}
                    ELSE versions[s][x]]]

\* Faulty variant: the current value is that of the newest version.
AssignVarNewestWins(w, ts) ==
  LET newest(s, x) == w[s][x] # None /\ \A v \in versions[s][x] : v.ts < ts IN
  /\ value' = [s \in Site |-> [x \in Var |->
                 IF newest(s, x) THEN w[s][x] ELSE value[s][x]]]
  /\ versions' = [s \in Site |-> [x \in Var |->
                    IF w[s][x] # None
                    THEN versions[s][x] \cup {[ts |-> ts, val |-> w[s][x]]}
                    ELSE versions[s][x]]]

\* Site::assign_var / Variable::set_value for every record of w.
AssignVar(w, ts) ==
  /\ value' = [s \in Site |-> [x \in Var |->
                 IF w[s][x] # None THEN w[s][x] ELSE value[s][x]]]
  /\ versions' = [s \in Site |-> [x \in Var |->
                    IF w[s][x] # None
                    THEN {v \in versions[s][x] : v.ts # ts}
                           \cup {[ts |-> ts, val |-> w[s][x]]}
                    ELSE versions[s][x]]]
=============================================================================
