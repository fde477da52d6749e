------------------------------- MODULE Rules -------------------------------
(***************************************************************************)
(* The window rules of hypr.py.  apply_rules gives every name its rule in  *)
(* the compositor, one `hyprctl eval` each, retires the names it no longer *)
(* wants and then records what it left there in two files: rules.json, the *)
(* names, and rule-specs.json, the class each was set with.  The first     *)
(* call that fails undoes the batch from those files.                      *)
(*                                                                         *)
(* A class pattern is a version in 1..Versions, and 0 stands for no rule.  *)
(* The order of the names within a batch is left open.  A call that fails  *)
(* may have done nothing, may have retired the rule it was to replace, or  *)
(* may have done all of it and lost its answer.                            *)
(***************************************************************************)
EXTENDS Naturals, FiniteSets

CONSTANTS
  Names,      \* names of rules
  Versions,   \* class patterns a name may stand for
  MaxFaults   \* bound on the failures of hyprctl

ASSUME RulesAssumption == Versions \in Nat /\ MaxFaults \in Nat

VARIABLES
  entries,    \* the list the batch is made from: _entries, as a class per name
  live,       \* the compositor's rules
  registry,   \* rules.json
  specs,      \* rule-specs.json
  batch,      \* where apply_rules is, what it has left and what it made
  astray,     \* history: a rollback failed or a batch was cut off by a kill
  faults      \* failures so far

rules == <<entries, live, registry, specs, batch, astray>>

Classes == 0..Versions
Wanted == {n \in Names : entries[n] # 0}

BatchRest == [at |-> "none", todo |-> {}, made |-> {}, ok |-> TRUE]

Batches == [at : {"none", "set", "undo", "drop", "specs", "done"},
            todo : SUBSET Names, made : SUBSET Names, ok : BOOLEAN]

RulesTypeOK ==
  /\ entries \in [Names -> Classes]
  /\ live \in [Names -> Classes]
  /\ registry \in SUBSET Names
  /\ specs \in [Names -> Classes]
  /\ batch \in Batches
  /\ astray \in BOOLEAN
  /\ faults \in 0..MaxFaults

RulesInit ==
  /\ entries = [n \in Names |-> 0]
  /\ live = entries /\ specs = entries
  /\ registry = {}
  /\ batch = BatchRest
  /\ astray = FALSE
  /\ faults = 0

Fault == faults < MaxFaults /\ faults' = faults + 1

(* apply_rules begins: every wanted name is set anew.                      *)
BeginBatch == batch' = [at |-> "set", todo |-> {n \in Names : entries'[n] # 0}, made |-> {}, ok |-> TRUE]

SetRule(n) ==
  /\ batch.at = "set" /\ n \in batch.todo
  /\ live' = [live EXCEPT ![n] = entries[n]]
  /\ batch' = [batch EXCEPT !.todo = @ \ {n}, !.made = @ \union {n}]
  /\ UNCHANGED <<entries, registry, specs, astray, faults>>

UndoneMade(n) == batch.made   \* forgets the one that failed

(* _rollback_created: what the batch made, and the one that failed.        *)
Undone(n) == batch.made \union {n}

SetFails(n) ==
  /\ batch.at = "set" /\ n \in batch.todo
  /\ Fault
  /\ \E c \in {live[n], 0, entries[n]} : live' = [live EXCEPT ![n] = c]
  /\ batch' = [batch EXCEPT !.at = "undo", !.todo = Undone(n), !.ok = FALSE]
  /\ UNCHANGED <<entries, registry, specs, astray>>

UndoRule(n) ==
  /\ batch.at = "undo" /\ n \in batch.todo
  /\ live' = [live EXCEPT ![n] = specs[n]]
  /\ batch' = [batch EXCEPT !.todo = @ \ {n}]
  /\ UNCHANGED <<entries, registry, specs, astray, faults>>

UndoFails(n) ==
  /\ batch.at = "undo" /\ n \in batch.todo
  /\ Fault
  /\ \E c \in {live[n], 0, specs[n]} : live' = [live EXCEPT ![n] = c]
  /\ batch' = [batch EXCEPT !.todo = @ \ {n}]
  /\ astray' = TRUE
  /\ UNCHANGED <<entries, registry, specs>>

(* The names that are recorded and no longer wanted; `made` now collects   *)
(* those that stay recorded because they could not be retired.             *)
BeginDrop ==
  /\ batch.at = "set" /\ batch.todo = {}
  /\ batch' = [batch EXCEPT !.at = "drop", !.todo = registry \ Wanted, !.made = {}]
  /\ UNCHANGED <<entries, live, registry, specs, astray, faults>>

DropRule(n) ==
  /\ batch.at = "drop" /\ n \in batch.todo
  /\ live' = [live EXCEPT ![n] = 0]
  /\ batch' = [batch EXCEPT !.todo = @ \ {n}]
  /\ UNCHANGED <<entries, registry, specs, astray, faults>>

DropFails(n) ==
  /\ batch.at = "drop" /\ n \in batch.todo
  /\ Fault
  /\ \E c \in {live[n], 0} : live' = [live EXCEPT ![n] = c]
  /\ batch' = [batch EXCEPT !.todo = @ \ {n}, !.made = @ \union {n}]
  /\ UNCHANGED <<entries, registry, specs, astray>>

WriteNames ==
  /\ batch.at = "drop" /\ batch.todo = {}
  /\ registry' = Wanted \union batch.made
  /\ batch' = [batch EXCEPT !.at = "specs"]
  /\ UNCHANGED <<entries, live, specs, astray, faults>>

(* A name that stays keeps the class it was recorded with.                 *)
WriteSpecs ==
  /\ batch.at = "specs"
  /\ specs' = [n \in Names |-> IF n \in Wanted THEN entries[n]
                               ELSE IF n \in batch.made THEN specs[n] ELSE 0]
  /\ batch' = [batch EXCEPT !.at = "done"]
  /\ UNCHANGED <<entries, live, registry, astray, faults>>

EndUndo ==
  /\ batch.at = "undo" /\ batch.todo = {}
  /\ batch' = [batch EXCEPT !.at = "done"]
  /\ UNCHANGED <<entries, live, registry, specs, astray, faults>>

BatchStep ==
  \/ BeginDrop \/ WriteNames \/ WriteSpecs \/ EndUndo
  \/ \E n \in Names : SetRule(n) \/ SetFails(n) \/ UndoRule(n) \/ UndoFails(n)
                      \/ DropRule(n) \/ DropFails(n)

(* A kill leaves the compositor and the two files as they are.             *)
BatchCutOff == astray' = (astray \/ batch.at \notin {"none", "done"})

(***************************************************************************)
(* What apply_rules promises with its comment "Restore the previous active *)
(* set after a failed batch": between batches the compositor holds no rule *)
(* that the two files do not name, with the class they give, so that a     *)
(* later batch can retire it.  A second failure, within the rollback, and  *)
(* a kill within a batch are outside of it.                                *)
(***************************************************************************)
RulesAreRegistered ==
  batch.at = "none" /\ ~astray =>
    \A n \in Names : live[n] # 0 => n \in registry /\ live[n] = specs[n]
-----------------------------------------------------------------------------
(* What makes it inductive.  A rule is named when the files would let a    *)
(* later batch retire it, and given when this batch may have set it.       *)
Named(n) == live[n] # 0 => n \in registry /\ live[n] = specs[n]
Given(n) == live[n] \in {0, entries[n]}

(* The names that are not wanted: what is left of them can still be named. *)
Leftover(names) ==
  \A n \in Names \ Wanted : live[n] # 0 => n \in names /\ live[n] = specs[n]

BatchInv ==
  ~astray =>
    /\ batch.at # "specs" => \A n \in Names : specs[n] # 0 => n \in registry
    /\ batch.at \in {"none", "done"} => \A n \in Names : Named(n)
    /\ batch.at = "set" =>
         /\ batch.todo \union batch.made = Wanted
         /\ \A n \in batch.made : Given(n)
         /\ \A n \in Names \ batch.made : Named(n)
    /\ batch.at = "undo" => \A n \in Names \ batch.todo : Named(n)
    /\ batch.at \in {"drop", "specs"} => \A n \in Wanted : Given(n)
    /\ batch.at = "drop" =>
         /\ batch.todo \union batch.made \subseteq registry \ Wanted
         /\ Leftover(batch.todo \union batch.made)
    /\ batch.at = "specs" =>
         /\ registry = Wanted \union batch.made
         /\ Leftover(batch.made)
=============================================================================
