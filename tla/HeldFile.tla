----------------------------- MODULE HeldFile ------------------------------
(***************************************************************************)
(* held.jsonl: the file the listener appends held notifications to and     *)
(* whoever marks a boundary claims.  There is no lock on it.  Appending is *)
(* an open, a write, a read and perhaps a replacement; claiming is a       *)
(* rename, a read and an unlink.  The listener does the first, the         *)
(* listener and the unlock command do the second, so a claim may fall      *)
(* between any two steps of an append.                                     *)
(*                                                                         *)
(* A record is its number in the order of arrival; a file is the set of    *)
(* records in it.  FILE_CAP is counted in records.                         *)
(***************************************************************************)
EXTENDS Naturals, FiniteSets

CONSTANTS
  Processes,   \* whoever may claim the file
  FileCap,     \* records that fit under FILE_CAP
  MaxRecords   \* bound on the records of one behaviour

ASSUME HeldFileAssumption ==
  /\ FileCap \in Nat \ {0}
  /\ MaxRecords \in Nat
  /\ {"none", "held", "gone"} \intersect Processes = {}

Records == 1..MaxRecords
\* A path nothing is at: a set that is no set of records.
NoFile  == {0}
Files   == (SUBSET Records) \union {NoFile}

VARIABLES
  held,     \* the file at held.jsonl
  claims,   \* claims[p]: the file at .held.jsonl.<p>.taken
  handle,   \* where the file open for appending is: "none" when no file is
            \* open, "held", the process that renamed it, "gone" once unlinked
  tmp,      \* what _trim is about to put in the place of held.jsonl
  leaked,   \* records in files a listener claimed and was killed over
  arrived,  \* history: the records so far
  kept,     \* history: records whose append_held returned True
  handed,   \* history: records some boundary was given
  repeated, \* history: records two boundaries were given
  restored  \* history: records a trim put back that were no longer at the path

heldVars == <<held, claims, handle, tmp, leaked, arrived, kept, handed, repeated, restored>>

HeldTypeOK ==
  /\ held \in Files
  /\ claims \in [Processes -> Files]
  /\ handle \in {"none", "held", "gone"} \union Processes
  /\ tmp \in SUBSET Records
  /\ leaked \in SUBSET Records
  /\ arrived \in 0..MaxRecords
  /\ kept \in SUBSET Records
  /\ handed \in SUBSET Records
  /\ repeated \in SUBSET Records
  /\ restored \in SUBSET Records

HeldInit ==
  /\ held = NoFile
  /\ claims = [p \in Processes |-> NoFile]
  /\ handle = "none"
  /\ tmp = {} /\ leaked = {}
  /\ arrived = 0
  /\ kept = {} /\ handed = {} /\ repeated = {} /\ restored = {}

-----------------------------------------------------------------------------
(***************************************************************************)
(* append_held, by the listener.                                           *)
(***************************************************************************)

\* open_private creates the file when there is none.
Open ==
  /\ arrived < MaxRecords
  /\ arrived' = arrived + 1
  /\ held' = IF held = NoFile THEN {} ELSE held
  /\ handle' = "held"
  /\ UNCHANGED <<claims, tmp, leaked, kept, handed, repeated, restored>>

\* The line goes to the file that was opened, wherever that file is by now.
Write ==
  /\ held' = IF handle = "held" THEN held \union {arrived} ELSE held
  /\ claims' = IF handle \in Processes
               THEN [claims EXCEPT ![handle] = @ \union {arrived}]
               ELSE claims
  /\ handle' = "none"
  /\ UNCHANGED <<tmp, arrived, leaked, kept, handed, repeated, restored>>

\* Mutant: the newest are cut.
Oldest(S) == {r \in S : Cardinality({q \in S : q < r}) < FileCap}

\* The records of S that fit, the oldest cut first.
Newest(S) == {r \in S : Cardinality({q \in S : q > r}) < FileCap}

\* _trim reads the path again.  Nothing there: append_held returns False.
TrimFindsNone ==
  /\ held = NoFile
  /\ UNCHANGED heldVars

TrimFits ==
  /\ held # NoFile
  /\ Cardinality(held) <= FileCap
  /\ kept' = kept \union {arrived}
  /\ UNCHANGED <<held, claims, handle, tmp, leaked, arrived, handed, repeated, restored>>

TrimCuts ==
  /\ held # NoFile
  /\ Cardinality(held) > FileCap
  /\ tmp' = Newest(held)
  /\ UNCHANGED <<held, claims, handle, arrived, leaked, kept, handed, repeated, restored>>

\* os.replace puts the trimmed copy at the path, whatever is there: after a claim
\* that fell in between, records that were claimed are at the path again.
Replace ==
  /\ held' = tmp
  /\ tmp' = {}
  /\ kept' = kept \union {arrived}
  /\ restored' = restored \union (tmp \ held)
  /\ UNCHANGED <<claims, handle, leaked, arrived, handed, repeated>>

\* The listener p dies: its open file is closed, and a file it had claimed stays
\* behind under a name that holds its pid.
Close(p) ==
  /\ handle' = "none"
  /\ tmp' = {}
  /\ leaked' = leaked \union (claims[p] \ NoFile)
  /\ claims' = [claims EXCEPT ![p] = NoFile]
  /\ UNCHANGED <<held, arrived, kept, handed, repeated, restored>>

-----------------------------------------------------------------------------
(***************************************************************************)
(* take, by process p.                                                     *)
(***************************************************************************)

\* Mutant: the file is read where it is and removed afterwards.
ClaimCopies(p) ==
  /\ held # NoFile
  /\ claims' = [claims EXCEPT ![p] = held]
  /\ UNCHANGED <<held, handle, tmp, arrived, leaked, kept, handed, repeated, restored>>

\* The rename is the claim; an append in progress follows the file.
Claim(p) ==
  /\ held # NoFile
  /\ held' = NoFile
  /\ claims' = [claims EXCEPT ![p] = held]
  /\ handle' = IF handle = "held" THEN p ELSE handle
  /\ UNCHANGED <<tmp, arrived, leaked, kept, handed, repeated, restored>>

\* Nothing to rename, or the rename failed: no records.
ClaimsNothing == UNCHANGED heldVars

ReadClaim(p) ==
  /\ handed' = handed \union claims[p]
  /\ repeated' = repeated \union (handed \intersect claims[p])
  /\ UNCHANGED <<held, claims, handle, tmp, arrived, leaked, kept, restored>>

Unlink(p) ==
  /\ claims' = [claims EXCEPT ![p] = NoFile]
  /\ handle' = IF handle = p THEN "gone" ELSE handle
  /\ UNCHANGED <<held, tmp, arrived, leaked, kept, handed, repeated, restored>>

-----------------------------------------------------------------------------
(***************************************************************************)
(* Properties.                                                             *)
(***************************************************************************)

\* A record is in some file, or a boundary was given it.
Accounted(r) ==
  \/ r \in held \union handed \union leaked
  \/ \E p \in Processes : r \in claims[p]

\* Fewer than FileCap records are newer.
Recent(r) == Cardinality({q \in 1..arrived : q > r}) < FileCap

\* A record whose append returned True is never lost while fewer than FileCap
\* newer ones arrived: _trim cuts only the oldest, and a claim that takes the
\* file from under an append makes the append return False (append_held, _trim,
\* take).
NewestAreKept ==
  \A r \in kept : Recent(r) => Accounted(r)

\* "Gets every record exactly once" (summary.take): no record is given to two
\* boundaries.
SummarisedOnce == repeated = {}

\* A record is given to two boundaries only where a claim fell between a trim's
\* read of held.jsonl and its replacement, which puts claimed records back (_trim):
\* claims that race each other, an append under way or a killed process repeat
\* nothing.
OnlyTrimsRepeat == repeated \subseteq restored
=============================================================================
