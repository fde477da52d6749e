------------------------------ MODULE Firewall ------------------------------
(***************************************************************************)
(* What site blocking changes outside the listener's process: the nftables *)
(* table the root helper distractions-nft owns and the cgroup of           *)
(* app-distraction.slice that the table names.  The kernel keeps both when *)
(* the listener ends, and other programs may change both.                  *)
(*                                                                         *)
(* The helper is modelled by what each command does to the table.  A call  *)
(* of it ("sudo -n distractions-nft replace|flush|check ds") has three     *)
(* ends: it answers, it fails with no effect, or it outlives its deadline, *)
(* when the caller cannot tell whether root's child committed already,     *)
(* will commit later or was killed in time.                                *)
(***************************************************************************)
EXTENDS Naturals

CONSTANTS
  Policies,  \* the non-empty, normalized address sets resolution may give
  MaxFaults  \* bound on the environment's faults in one behaviour

(***************************************************************************)
(* The two desired policies that are no address set: NoAddrs is "block     *)
(* nothing", which the helper renders as the table holding only the reset  *)
(* rule.  Absent is no table at all, Drifted a table somebody else edited. *)
(***************************************************************************)
NoAddrs == "NoAddrs"
Absent  == "Absent"
Drifted == "Drifted"

ASSUME FirewallAssumption ==
  /\ Policies # {}
  /\ {NoAddrs, Absent, Drifted} \intersect Policies = {}
  /\ MaxFaults \in Nat

Desired == Policies \union {NoAddrs}

VARIABLES
  helper,  \* the wrapper is installed at its canonical path
  table,   \* the table in the kernel: its policy, the slice its rules name
  slice,   \* identity (dev, ino) of the live slice cgroup, 0 while missing
  slices,  \* how many slice cgroups there have been
  late,    \* commands root still runs although their caller gave them up
  intact,  \* history: nothing touched table or slice since it was verified
  faults   \* faults so far, at most MaxFaults

fwVars == <<helper, table, slice, slices, late, intact, faults>>

Tables == [policy : Desired \union {Absent, Drifted}, slice : Nat]

FirewallTypeOK ==
  /\ helper \in BOOLEAN
  /\ table \in Tables
  /\ slice \in Nat
  /\ slices \in Nat
  /\ late \in SUBSET Desired
  /\ intact \in BOOLEAN
  /\ faults \in 0..MaxFaults

FirewallInit ==
  /\ helper \in BOOLEAN
  /\ table = [policy |-> Absent, slice |-> 0]
  /\ slice = 0
  /\ slices = 0
  /\ late = {}
  /\ intact = FALSE
  /\ faults = 0

Blocking == table.policy \in Policies \union {Drifted}

Fault == faults < MaxFaults /\ faults' = faults + 1

-----------------------------------------------------------------------------
(* The helper's commands. *)

\* replace refuses to render a rule on a slice that does not exist; flush
\* needs neither the slice nor an address.
Loadable(p) == p = NoAddrs \/ slice # 0

\* One nft transaction destroys the old table and creates the new one.
Load(p) ==
  /\ Loadable(p)
  /\ table' = [policy |-> p, slice |-> IF p = NoAddrs THEN 0 ELSE slice]

\* check: the listing is the policy, and its rules name the live slice.  (The
\* kernel keeps an id, nft lists a path only while that id is alive.)
Verifies(p) == /\ helper
               /\ slice # 0
               /\ table = [policy |-> p, slice |-> slice]

\* The caller of replace or flush was not answered.
Unanswered(p) ==
  /\ helper
  /\ intact' = FALSE
  /\ \/ UNCHANGED <<table, late>>
     \/ Load(p) /\ UNCHANGED late
     \/ late' = late \union {p} /\ UNCHANGED table

-----------------------------------------------------------------------------
(* The environment. *)

\* A command its caller gave up commits after all.
CommitLate ==
  \E p \in late :
    /\ Load(p)
    /\ late' = late \ {p}
    /\ intact' = FALSE
    /\ UNCHANGED <<helper, slice, slices, faults>>

\* Another program edits the table.
Drift ==
  /\ Fault
  /\ helper
  /\ table' = [table EXCEPT !.policy = Drifted]
  /\ intact' = FALSE
  /\ UNCHANGED <<helper, slice, slices, late>>

\* The slice unit stops; its cgroup, and the id the table keeps, are gone.
LoseSlice ==
  /\ Fault
  /\ slice # 0
  /\ slice' = 0
  /\ intact' = FALSE
  /\ UNCHANGED <<helper, table, slices, late>>

\* Setup installs the wrapper while the listener runs.
InstallHelper ==
  /\ ~helper
  /\ helper' = TRUE
  /\ UNCHANGED <<table, slice, slices, late, intact, faults>>

Environment == CommitLate \/ Drift \/ LoseSlice \/ InstallHelper
=============================================================================
