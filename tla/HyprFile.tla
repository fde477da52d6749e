------------------------------ MODULE HyprFile ------------------------------
(***************************************************************************)
(* The Hyprland file that setup.py writes, its digest in hypr.json, the    *)
(* marked line that loads it from hyprland.lua, and hypr-backup.  sync_hypr *)
(* reads all of them, then writes file, record and line in that order;     *)
(* remove_hypr takes back line, file and record.  The person edits or      *)
(* deletes the file at any time, also between a read of it and what that   *)
(* read decided.  A file is the version of the plugin that shipped it, or  *)
(* Edited; the rest of hyprland.lua is left out.                           *)
(***************************************************************************)
EXTENDS Integers

CONSTANT MaxVersions   \* bound on the versions of the plugin

ASSUME HyprAssumption == MaxVersions \in Nat \ {0}

VARIABLES
  version,   \* of the plugin that is installed now
  pasted,    \* old snippets are still pasted in the person's own files
  hfile,     \* the Hyprland file
  hdigest,   \* the version whose digest hypr.json holds, 0 for no record
  hline,     \* hyprland.lua has the marked line
  hbackup,   \* what hypr-backup holds
  hplan,     \* what a sync decided to write
  edit       \* history: the person's edit of the file stands, or was overtaken

hypr == <<hfile, hdigest, hline, hbackup, hplan, edit>>

Versions == 1..MaxVersions
NoFile == 0
Edited == -1   \* the person's latest edit
Older == -2    \* an edit before that one
NoPlan == [file |-> FALSE, digest |-> 0, line |-> FALSE]

HyprTypeOK ==
  /\ version \in Versions /\ pasted \in BOOLEAN
  /\ hfile \in {NoFile, Edited} \union Versions
  /\ hbackup \in {NoFile, Edited, Older} \union Versions
  /\ hdigest \in {0} \union Versions
  /\ hline \in BOOLEAN
  /\ hplan \in [file : BOOLEAN, digest : {0} \union Versions, line : BOOLEAN]
  /\ edit \in {"none", "stands", "overtaken"}

HyprInit ==
  /\ version = 1 /\ pasted \in BOOLEAN
  /\ hfile = NoFile /\ hdigest = 0 /\ hline = FALSE /\ hbackup = NoFile
  /\ hplan = NoPlan /\ edit = "none"
-----------------------------------------------------------------------------
WasEditedBlind == FALSE   \* takes every other file for an older one of its own

(* A file that is neither what would be written nor what is on record.     *)
WasEdited == hfile \notin {NoFile, version} /\ (hdigest = 0 \/ hfile # hdigest)

PlanHypr ==
  LET fresh == hfile # version /\ ~WasEdited IN
    /\ hplan' = [file |-> fresh, line |-> ~hline,
                 digest |-> IF fresh \/ (hdigest = 0 /\ hfile = version) THEN version ELSE hdigest]
    /\ UNCHANGED <<hfile, hdigest, hline, hbackup, edit>>

(* The file as it was read decides: an edit made since is overwritten.     *)
WriteFile ==
  /\ hfile' = IF hplan.file THEN version ELSE hfile
  /\ hplan' = [hplan EXCEPT !.file = FALSE]
  /\ UNCHANGED <<hdigest, hline, hbackup, edit>>

WriteDigest == hdigest' = hplan.digest /\ UNCHANGED <<hfile, hline, hbackup, hplan, edit>>

WriteLine ==
  /\ hline' = (hline \/ hplan.line)
  /\ hplan' = NoPlan
  /\ UNCHANGED <<hfile, hdigest, hbackup, edit>>

DropPlan == hplan' = NoPlan /\ UNCHANGED <<hfile, hdigest, hline, hbackup, edit>>
-----------------------------------------------------------------------------
(* What a remove takes back, in this order.                                *)
DropLine == hline' = FALSE /\ UNCHANGED <<hfile, hdigest, hbackup, hplan, edit>>

(* What the read of the file decides: one that is as recorded is unlinked, *)
(* any other is moved aside whole, one that is on no record is left.       *)
FileStep == IF hdigest = 0 \/ hfile = NoFile THEN "digest"
            ELSE IF hfile = hdigest THEN "unlink" ELSE "aside"

(* Whatever is at the path by then goes.                                   *)
UnlinkFile ==
  /\ hfile # NoFile /\ hfile' = NoFile
  /\ UNCHANGED <<hdigest, hline, hbackup, hplan, edit>>

(* hypr-backup keeps one file: what was moved there before makes room.     *)
ClearAside == hbackup' = NoFile /\ UNCHANGED <<hfile, hdigest, hline, hplan, edit>>

MoveAside ==
  /\ hfile # NoFile /\ hfile' = NoFile /\ hbackup' = hfile
  /\ UNCHANGED <<hdigest, hline, hplan, edit>>

DropDigest == hdigest' = 0 /\ UNCHANGED <<hfile, hline, hbackup, hplan, edit>>
-----------------------------------------------------------------------------
(* "decided": what is at the path is written over or unlinked without a    *)
(* further look.                                                           *)
EditFile(decided) ==
  /\ hfile # NoFile
  /\ hfile' = Edited
  /\ hbackup' = IF hbackup = Edited THEN Older ELSE hbackup
  /\ edit' = IF decided THEN "overtaken" ELSE "stands"
  /\ UNCHANGED <<hdigest, hline, hplan>>

DeleteFile ==
  /\ hfile # NoFile
  /\ hfile' = NoFile
  /\ edit' = "none"
  /\ UNCHANGED <<hdigest, hline, hbackup, hplan>>
=============================================================================
