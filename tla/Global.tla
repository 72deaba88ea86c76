------------------------------- MODULE Global -------------------------------
(***************************************************************************)
(* The data every component shares (repcrec/global.h): the sites, the      *)
(* variables, how variables are placed on sites and which of them a site   *)
(* gets back when it recovers.  The program fixes SITE_COUNT = 10 and      *)
(* VAR_COUNT = 20; the model keeps the same placement arithmetic for any   *)
(* even SITE_COUNT with VAR_COUNT = 2 * SITE_COUNT.                        *)
(***************************************************************************)
EXTENDS Integers

CONSTANTS
  SITE_COUNT,   \* number of sites
  VAR_COUNT,    \* number of variables
  Tran,         \* identifiers of the transactions of a script
  Value,        \* values a variable can hold
  None          \* the -1 / nullptr of the code

Site == 1 .. SITE_COUNT
Var  == 1 .. VAR_COUNT

\* (var_id & 0x01) == 1: an odd variable lives on one site only.
IsOdd(x) == x % 2 = 1

\* The one site that stores the odd variable x.
HomeSite(x) == 1 + (x % SITE_COUNT)

\* The sites that store x: an even variable is replicated everywhere.
CopySites(x) == IF IsOdd(x) THEN {HomeSite(x)} ELSE Site

\* The value a Variable object is constructed with.
InitialValue(x) == x * 10

\* Faulty variant: the second odd variable of a site is forgotten.
UniqueVarsMissesSecond(s) == IF IsOdd(s - 1) THEN {s - 1} ELSE {}

\* unique_id_1 and unique_id_2: the odd variables of a recovering site.
UniqueVars(s) == IF IsOdd(s - 1) THEN {s - 1, s - 1 + SITE_COUNT} ELSE {}

ASSUME GlobalAssumption ==
  /\ SITE_COUNT \in Nat \ {0}
  /\ SITE_COUNT % 2 = 0
  /\ VAR_COUNT = 2 * SITE_COUNT
  /\ None \notin Tran
  /\ None \notin Value
  /\ None \notin Site
  /\ \A x \in Var : InitialValue(x) \in Value
=============================================================================
