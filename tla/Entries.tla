------------------------------ MODULE Entries ------------------------------
(***************************************************************************)
(* The launcher entries of setup.py: files in the person's applications    *)
(* directory, the entries they shadow kept in entries-backup, the manifest *)
(* entries.json, and the handler file the default browser may point at.    *)
(* setup writes them, the listener's refresh keeps them written and        *)
(* `setup --remove` takes them back, one transaction at a time under the   *)
(* entries lock.  Omarchy and the person install and remove entries in     *)
(* that directory at any time, and take no lock.                           *)
(*                                                                         *)
(* One action is one file operation.  Each may fail, which undoes a sync   *)
(* from its journal and ends a remove, and the process may be killed       *)
(* between any two.  What is in a file is abstracted to who wrote it: the  *)
(* plugin, or one installation, which is that of a web app or of another   *)
(* program's entry.  Texts, entries that cannot be parsed (kept as they    *)
(* are) or have no Exec, and the desktop cache are left out, and the       *)
(* browser that was displaced is on record.                                *)
(***************************************************************************)
EXTENDS Integers, Sequences, FiniteSets

CONSTANTS
  Apps,         \* paths of the entries that may be installed
  Handler,      \* the handler file
  NoPath,       \* no entry
  MaxInstalls,  \* bound on the installations at those paths
  MaxEdits,     \* bound on what else the person does
  MaxRuns,      \* bound on the transactions
  MaxFaults,    \* bound on the calls that fail
  MaxKills      \* bound on the processes that are killed

ASSUME EntriesAssumption ==
  /\ Handler \notin Apps /\ NoPath \notin Apps \union {Handler}
  /\ MaxInstalls \in Nat \ {0}
  /\ {MaxEdits, MaxRuns, MaxFaults, MaxKills} \subseteq Nat

Paths == Apps \union {Handler}

VARIABLES
  file,      \* the applications directory
  backup,    \* entries-backup, by the path a file is the twin of
  stage,     \* the copies moved aside during a transaction
  manifest,  \* entries.json: what it says of each path
  onFile,    \* entries.json exists
  default,   \* the default browser is the plugin's handler
  listed,    \* the configuration's list, as paths
  links,     \* open_links_in_space
  tx,        \* the transaction that holds the entries lock
  journal,   \* its journal
  newest,    \* history: the installation the person has at a path, 0 for none
  before,    \* history: the directories when the transaction began
  raced,     \* history: paths written by others during a transaction
  deleted,   \* history: paths at which a remove deleted what had come there since
  discarded, \* history: by path, the installations a sync took from a dropped path
  cut,       \* history: a transaction was cut off, and mended since
  spent      \* what was used up of each bound

dirs == <<file, backup, stage>>
record == <<manifest, onFile>>
config == <<default, listed, links>>
history == <<newest, before, raced, deleted, discarded>>
evars == <<dirs, record, config, tx, journal, history, cut, spent>>

Nothing == 0
Own == -1
Foreign(content) == content > 0

(* The n-th installation is n when it is a web app of Omarchy's, and       *)
(* MaxInstalls + n when its Exec starts another program.                   *)
Installations == 1..(2 * MaxInstalls)
WebApp(content) == content \in 1..MaxInstalls
Contents == {Own, Nothing} \union Installations
Says == {"absent", "bare", "backed"}   \* not recorded, recorded without and with a backup
AllAbsent == [p \in Paths |-> "absent"]
Rest == [who |-> "none", at |-> "none", todo |-> {}, plan |-> {}, cur |-> NoPath,
         files |-> AllAbsent, set |-> FALSE]

Steps == {"none", "ask", "plan", "drop", "back", "write", "shelve", "put", "clean", "default",
          "undo", "unlink", "bring"}

Files  == [Paths -> Contents]
Txs    == [who : {"none", "setup", "refresh", "remove"}, at : Steps, todo : SUBSET Paths,
           plan : SUBSET Paths, cur : Paths \union {NoPath}, files : [Paths -> Says], set : BOOLEAN]
Moves  == {"wrote", "staged", "aside", "shelved", "home"}
Bounds == {"installs", "edits", "runs", "faults", "kills"}

EntriesTypeOK ==
  /\ file \in Files /\ backup \in Files /\ stage \in Files
  /\ manifest \in [Paths -> Says] /\ onFile \in BOOLEAN
  /\ default \in BOOLEAN /\ links \in BOOLEAN /\ listed \in SUBSET Apps
  /\ tx \in Txs
  /\ journal \in Seq([op : Moves, p : Paths])
  /\ newest \in [Paths -> {0} \union Installations]
  /\ before \in [file : Files, backup : Files]
  /\ raced \in SUBSET Paths /\ deleted \in SUBSET Paths
  /\ discarded \in [Paths -> SUBSET Installations]
  /\ cut \in {"no", "cut", "mended"}
  /\ spent \in [Bounds -> Nat]

EntriesInit ==
  /\ newest \in [Paths -> {0, 1, MaxInstalls + 1}] /\ newest[Handler] = 0
  /\ file = newest
  /\ backup = [p \in Paths |-> Nothing] /\ stage = backup
  /\ manifest = AllAbsent /\ onFile = FALSE
  /\ default = FALSE /\ links = TRUE
  /\ listed \in SUBSET Apps
  /\ tx = Rest /\ journal = <<>>
  /\ before = [file |-> file, backup |-> backup]
  /\ raced = {} /\ deleted = {} /\ discarded = [p \in Paths |-> {}]
  /\ cut = "no"
  /\ spent = [b \in Bounds |-> IF b = "installs" THEN 1 ELSE 0]

Spend(b, max) == spent[b] < max /\ spent' = [spent EXCEPT ![b] = @ + 1]
Free == tx.at = "none"
Step(at) == tx.at = at /\ tx.todo # {}
Over(at) == tx.at = at /\ tx.todo = {}
Owned == {p \in Paths : manifest[p] # "absent"}
Held(p) == manifest[p] = "backed" /\ backup[p] # Nothing
Mended == IF cut = "cut" THEN "mended" ELSE cut
-----------------------------------------------------------------------------
(* Omarchy installs a web app, or writes its entry anew, or the person     *)
(* puts an entry of another program there.                                 *)
Install(p) ==
  /\ p \in Apps
  /\ Spend("installs", MaxInstalls)
  /\ \E content \in {spent'["installs"], MaxInstalls + spent'["installs"]} :
       /\ file' = [file EXCEPT ![p] = content]
       /\ newest' = [newest EXCEPT ![p] = content]
  /\ raced' = IF Free THEN raced ELSE raced \union {p}
  /\ UNCHANGED <<backup, stage, record, config, tx, journal, before, deleted, discarded, cut>>

(* The person removes a launcher: what it started is gone.                 *)
Uninstall(p) ==
  /\ p \in Apps /\ file[p] # Nothing
  /\ Spend("edits", MaxEdits)
  /\ file' = [file EXCEPT ![p] = Nothing]
  /\ newest' = [newest EXCEPT ![p] = 0]
  /\ raced' = IF Free THEN raced ELSE raced \union {p}
  /\ UNCHANGED <<backup, stage, record, config, tx, journal, before, deleted, discarded, cut>>

Edit ==
  /\ Spend("edits", MaxEdits)
  /\ \/ \E l \in SUBSET Apps : listed' = l /\ UNCHANGED <<default, links>>
     \/ links' = ~links /\ UNCHANGED <<default, listed>>
     \/ default' = FALSE /\ UNCHANGED <<listed, links>>   \* another browser is chosen
  /\ UNCHANGED <<dirs, record, tx, journal, history, cut>>
-----------------------------------------------------------------------------
(***************************************************************************)
(* The entries lock: setup and remove wait for it, the refresh steps aside *)
(* and writes nothing where no setup has written the manifest.             *)
(***************************************************************************)
Begin(who, at) ==
  /\ Free
  /\ Spend("runs", MaxRuns)
  /\ tx' = [Rest EXCEPT !.who = who, !.at = at, !.todo = IF who = "remove" THEN Owned ELSE {}]
  /\ journal' = <<>>
  /\ before' = [file |-> file, backup |-> backup]
  /\ UNCHANGED <<dirs, record, config, newest, raced, deleted, discarded, cut>>

BeginSetup   == Begin("setup", "ask")
BeginRefresh == onFile /\ Begin("refresh", "plan")
BeginRemove  == Begin("remove", IF Owned = {} THEN "unlink" ELSE "ask")

Ends == tx' = Rest /\ journal' = <<>>

RestoresLate(answered) == FALSE   \* hands the default back when the handler is gone

(* The default is handed back before the handler file goes.                *)
Restores(answered) == answered /\ default /\ ~(tx.who = "setup" /\ links)

(***************************************************************************)
(* default_handler and _restore_handler.  A query that is not answered and *)
(* a default that could not be handed back keep the handler, and stop a    *)
(* remove; xdg-settings may have done what it reports it could not.        *)
(***************************************************************************)
KeepsHandler(answered, restored) ==
  ~links /\ IF answered THEN default /\ ~restored ELSE Handler \in Owned

Asked(answered, restored) ==
  IF tx.who = "setup"
    THEN /\ tx' = [tx EXCEPT !.at = "plan", !.set = links /\ answered /\ ~default,
                             !.plan = IF links \/ KeepsHandler(answered, restored) THEN {Handler} ELSE {}]
         /\ UNCHANGED journal
    ELSE IF answered /\ restored THEN tx' = [tx EXCEPT !.at = "unlink"] /\ UNCHANGED journal
                                 ELSE Ends

Ask ==
  /\ tx.at = "ask"
  /\ default' = (default /\ ~Restores(TRUE))
  /\ Asked(TRUE, TRUE)
  /\ UNCHANGED <<dirs, record, listed, links, history, cut, spent>>

AskFails ==
  /\ tx.at = "ask"
  /\ Spend("faults", MaxFaults)
  /\ \/ Asked(FALSE, FALSE) /\ UNCHANGED default
     \/ Restores(TRUE) /\ default' \in {TRUE, FALSE} /\ Asked(TRUE, FALSE)
  /\ UNCHANGED <<dirs, record, listed, links, history, cut>>

(***************************************************************************)
(* _plan: the listed products, every web app present that is not one, and  *)
(* the handler.  The refresh keeps the handler when it is on record.  What *)
(* is at a path, or in its backup where that is the plugin's launcher, is  *)
(* forwarded when it is a web app; any other entry is not in the plan.     *)
(***************************************************************************)
Forwarded(p) ==
  p \in Apps \ listed /\ (WebApp(file[p]) \/ (file[p] = Own /\ Held(p) /\ WebApp(backup[p])))

Planned ==
  listed \union {p \in Paths : Forwarded(p)}
         \union (IF tx.who = "refresh" THEN Owned \intersect {Handler} ELSE tx.plan)

Unchanged == Owned = Planned /\ \A p \in Owned : file[p] = Own

(* Where the writers agree the texts still may not.                        *)
Plan ==
  /\ tx.at = "plan"
  /\ \/ Unchanged /\ onFile /\ tx' = [tx EXCEPT !.at = "clean"]
     \/ tx' = [tx EXCEPT !.at = "drop", !.todo = Owned \ Planned, !.plan = Planned]
  /\ UNCHANGED <<dirs, record, config, journal, history, cut, spent>>

Log(op, p) == journal' = Append(journal, [op |-> op, p |-> p])
unwritten == <<record, config, history, cut, spent>>

(* An entry the plan no longer has hands back what it shadowed; one that    *)
(* somebody removed shadows nothing.  Whatever is there is moved aside, to *)
(* be discarded at the end, also what the plugin did not write.            *)
DropEntry(p) ==
  /\ Step("drop") /\ p \in tx.todo
  /\ IF file[p] # Nothing
       THEN /\ stage' = [stage EXCEPT ![p] = file[p]]
            /\ file' = [file EXCEPT ![p] = Nothing]
            /\ Log("staged", p)
            /\ tx' = [tx EXCEPT !.todo = @ \ {p}, !.at = IF Held(p) THEN "back" ELSE "drop", !.cur = p]
            /\ discarded' = [discarded EXCEPT ![p] = @ \union ({file[p]} \intersect Installations)]
            /\ UNCHANGED backup
       ELSE /\ tx' = [tx EXCEPT !.todo = @ \ {p}]
            /\ IF Held(p)
                 THEN /\ stage' = [stage EXCEPT ![p] = backup[p]]
                      /\ backup' = [backup EXCEPT ![p] = Nothing]
                      /\ Log("aside", p)
                 ELSE UNCHANGED <<stage, backup, journal>>
            /\ UNCHANGED <<file, discarded>>
  /\ UNCHANGED <<record, config, newest, before, raced, deleted, cut, spent>>

HandBack ==
  /\ tx.at = "back"
  /\ file' = [file EXCEPT ![tx.cur] = backup[tx.cur]]
  /\ backup' = [backup EXCEPT ![tx.cur] = Nothing]
  /\ Log("home", tx.cur)
  /\ tx' = [tx EXCEPT !.at = "drop", !.cur = NoPath]
  /\ UNCHANGED <<stage, unwritten>>

BeginWrite ==
  /\ Over("drop")
  /\ tx' = [tx EXCEPT !.at = "write", !.todo = tx.plan]
  /\ UNCHANGED <<dirs, journal, unwritten>>

NotMine(p) == file[p] # Nothing   \* shelves the plugin's own launcher as well

(* _own_file: a file at a planned path that the plugin did not write.      *)
IsForeign(p) == Foreign(file[p])

(* What is at a planned path is moved aside whole: somebody else's to the  *)
(* backup, where it takes the place of an older one, the plugin's to the   *)
(* stage.                                                                  *)
WriteEntry(p) ==
  /\ Step("write") /\ p \in tx.todo
  /\ IF IsForeign(p) /\ Held(p)
       THEN /\ stage' = [stage EXCEPT ![p] = backup[p]]
            /\ backup' = [backup EXCEPT ![p] = Nothing]
            /\ Log("aside", p)
            /\ tx' = [tx EXCEPT !.todo = @ \ {p}, !.at = "shelve", !.cur = p]
            /\ UNCHANGED file
       ELSE /\ tx' = [tx EXCEPT !.todo = @ \ {p}, !.cur = p,
                                !.at = IF IsForeign(p) THEN "shelve" ELSE "put",
                                !.files[p] = IF manifest[p] = "backed" THEN "backed" ELSE "bare"]
            /\ IF file[p] # Nothing /\ ~IsForeign(p)
                 THEN /\ stage' = [stage EXCEPT ![p] = file[p]]
                      /\ file' = [file EXCEPT ![p] = Nothing]
                      /\ Log("staged", p)
                 ELSE UNCHANGED <<stage, file, journal>>
            /\ UNCHANGED backup
  /\ UNCHANGED unwritten

Shelve ==
  /\ tx.at = "shelve"
  /\ backup' = [backup EXCEPT ![tx.cur] = file[tx.cur]]
  /\ file' = [file EXCEPT ![tx.cur] = Nothing]
  /\ Log("shelved", tx.cur)
  /\ tx' = [tx EXCEPT !.at = "put", !.files[tx.cur] = "backed"]
  /\ UNCHANGED <<stage, unwritten>>

Put ==
  /\ tx.at = "put"
  /\ file' = [file EXCEPT ![tx.cur] = Own]
  /\ Log("wrote", tx.cur)
  /\ tx' = [tx EXCEPT !.at = "write", !.cur = NoPath]
  /\ UNCHANGED <<backup, stage, unwritten>>

(* The manifest is written before the files that were shelved are known.   *)
RecordPlanned ==
  /\ Over("write")
  /\ manifest' = [p \in Paths |-> IF tx.files[p] = "absent" THEN "absent" ELSE IF p \in Owned THEN manifest[p] ELSE "bare"]
  /\ onFile' = TRUE
  /\ tx' = [tx EXCEPT !.at = "clean"]
  /\ UNCHANGED <<dirs, config, journal, history, cut, spent>>

(* The manifest is written last, after every file it names.                *)
Record ==
  /\ Over("write")
  /\ manifest' = tx.files /\ onFile' = TRUE
  /\ tx' = [tx EXCEPT !.at = "clean"]
  /\ UNCHANGED <<dirs, config, journal, history, cut, spent>>

(* The copies are discarded; setup then asks for the default browser.      *)
Clean ==
  /\ tx.at = "clean"
  /\ stage' = [p \in Paths |-> IF \E i \in DOMAIN journal : journal[i] \in [op : {"staged", "aside"}, p : {p}]
                               THEN Nothing ELSE stage[p]]
  /\ cut' = Mended
  /\ IF tx.set THEN tx' = [tx EXCEPT !.at = "default"] /\ UNCHANGED journal ELSE Ends
  /\ UNCHANGED <<file, backup, record, config, history, spent>>

SetDefault ==
  /\ tx.at = "default"
  /\ default' = TRUE
  /\ Ends
  /\ UNCHANGED <<dirs, record, listed, links, history, cut, spent>>

SetDefaultFails ==
  /\ tx.at = "default"
  /\ Spend("faults", MaxFaults)
  /\ default' \in {default, TRUE}
  /\ Ends
  /\ UNCHANGED <<dirs, record, listed, links, history, cut>>
-----------------------------------------------------------------------------
(* _rollback: the journal, newest first; a step that fails is passed over. *)
SyncFails ==
  /\ tx.at \in {"drop", "back", "write", "shelve", "put"}
  /\ Spend("faults", MaxFaults)
  /\ tx' = [tx EXCEPT !.at = "undo"]
  /\ UNCHANGED <<dirs, record, config, journal, history, cut>>

NextUndoneFirst == Head(journal)   \* in the order it was done
NextUndone == journal[Len(journal)]

UndoStep ==
  /\ tx.at = "undo" /\ journal # <<>>
  /\ LET p == NextUndone.p IN
       CASE NextUndone.op = "wrote" ->
              file' = [file EXCEPT ![p] = Nothing] /\ UNCHANGED <<backup, stage>>
         [] NextUndone.op = "staged" ->
              file' = [file EXCEPT ![p] = stage[p]] /\ stage' = [stage EXCEPT ![p] = Nothing] /\ UNCHANGED backup
         [] NextUndone.op = "aside" ->
              backup' = [backup EXCEPT ![p] = stage[p]] /\ stage' = [stage EXCEPT ![p] = Nothing] /\ UNCHANGED file
         [] NextUndone.op = "shelved" ->
              file' = [file EXCEPT ![p] = backup[p]] /\ backup' = [backup EXCEPT ![p] = Nothing] /\ UNCHANGED stage
         [] NextUndone.op = "home" ->
              backup' = [backup EXCEPT ![p] = file[p]] /\ file' = [file EXCEPT ![p] = Nothing] /\ UNCHANGED stage
  /\ discarded' = IF NextUndone.op = "staged"
                  THEN [discarded EXCEPT ![NextUndone.p] = @ \ {stage[NextUndone.p]}] ELSE discarded
  /\ journal' = SubSeq(journal, 1, Len(journal) - 1)
  /\ UNCHANGED <<record, config, tx, newest, before, raced, deleted, cut, spent>>

UndoFails ==
  /\ tx.at = "undo" /\ journal # <<>>
  /\ Spend("faults", MaxFaults)
  /\ journal' = SubSeq(journal, 1, Len(journal) - 1)
  /\ cut' = "cut"
  /\ UNCHANGED <<dirs, record, config, tx, history>>

Undone ==
  /\ tx.at = "undo" /\ journal = <<>>
  /\ Ends
  /\ UNCHANGED <<dirs, unwritten>>
-----------------------------------------------------------------------------
(* _remove_entries: each recorded path, whatever is there, and the backup  *)
(* home unless somebody had removed the launcher.  An entry that came      *)
(* there since is deleted with the path; it is no such entry that is there *)
(* when the recorded backup is missing, for a remove that failed brought   *)
(* it home.                                                                *)
Unlink(p) ==
  /\ Step("unlink") /\ p \in tx.todo
  /\ file' = [file EXCEPT ![p] = Nothing]
  /\ deleted' = IF Foreign(file[p]) /\ (manifest[p] = "backed" => Held(p)) THEN deleted \union {p} ELSE deleted
  /\ tx' = [tx EXCEPT !.todo = @ \ {p}, !.cur = p, !.at = IF Held(p) THEN "bring" ELSE "unlink",
                      !.set = file[p] # Nothing]
  /\ UNCHANGED <<backup, stage, record, config, journal, newest, before, raced, discarded, cut, spent>>

Bring ==
  /\ tx.at = "bring"
  /\ file' = IF tx.set THEN [file EXCEPT ![tx.cur] = backup[tx.cur]] ELSE file
  /\ backup' = [backup EXCEPT ![tx.cur] = Nothing]
  /\ deleted' = IF tx.set THEN deleted ELSE deleted \union {tx.cur}
  /\ tx' = [tx EXCEPT !.at = "unlink"]
  /\ UNCHANGED <<stage, record, config, journal, newest, before, raced, discarded, cut, spent>>

Forget ==
  /\ Over("unlink")
  /\ manifest' = AllAbsent /\ onFile' = FALSE
  /\ Ends
  /\ UNCHANGED <<dirs, config, history, cut, spent>>

RemoveFails ==
  /\ tx.at \in {"unlink", "bring"}
  /\ Spend("faults", MaxFaults)
  /\ Ends
  /\ cut' = "cut"
  /\ UNCHANGED <<dirs, record, config, history>>

Killed ==
  /\ ~Free
  /\ Spend("kills", MaxKills)
  /\ Ends
  /\ cut' = "cut"
  /\ UNCHANGED <<dirs, record, config, history>>
-----------------------------------------------------------------------------
Transaction ==
  \/ Ask \/ AskFails \/ Plan
  \/ \E p \in Paths : DropEntry(p) \/ WriteEntry(p) \/ Unlink(p)
  \/ HandBack \/ BeginWrite \/ Shelve \/ Put \/ Record \/ Clean \/ SetDefault \/ SetDefaultFails
  \/ SyncFails \/ UndoStep \/ UndoFails \/ Undone
  \/ Bring \/ Forget \/ RemoveFails \/ Killed

Person == Edit \/ \E p \in Paths : Install(p) \/ Uninstall(p)

EntriesNext == Transaction \/ Person \/ BeginSetup \/ BeginRefresh \/ BeginRemove
EntriesSpec == EntriesInit /\ [][EntriesNext]_evars
-----------------------------------------------------------------------------
Sound(p) == cut = "no" /\ p \notin raced

(* An entry of another program that a sync found at a path it dropped.     *)
Dropped(p) == newest[p] \in discarded[p] /\ ~WebApp(newest[p])

(***************************************************************************)
(* What the person has at a path is there, or in the backup, or in the     *)
(* copy a running transaction moved aside, at every step of every sync and *)
(* of every rollback, whatever was installed before it.  A web app is      *)
(* never discarded, and another program's entry only where the plan        *)
(* dropped its path.  Out of it are the paths somebody wrote under a       *)
(* running transaction, what a remove deletes at a recorded path, and what *)
(* was cut off.                                                            *)
(***************************************************************************)
SyncsDeleteOnlyDropped ==
  \A p \in Apps : newest[p] # 0 /\ Sound(p) /\ p \notin deleted /\ ~Dropped(p) =>
    newest[p] \in {file[p], backup[p], stage[p]}

(* An entry that is out of sight can come back: between transactions it is *)
(* at its path, or in a backup the manifest names.                         *)
ShadowedIsRecorded ==
  Free => \A p \in Apps : newest[p] # 0 /\ Sound(p) /\ p \notin deleted /\ ~Dropped(p) /\ file[p] # newest[p] =>
            manifest[p] = "backed" /\ backup[p] = newest[p]

(* Between transactions every launcher of the plugin is recorded, so that  *)
(* a remove finds it.                                                      *)
OwnFilesAreRecorded ==
  Free => \A p \in Paths : Sound(p) /\ file[p] = Own => p \in Owned

(***************************************************************************)
(* Between transactions the manifest is true: it names the backup of every *)
(* entry that is out of sight, unless a sync discarded it, and every       *)
(* launcher of the plugin.                                                 *)
(***************************************************************************)
ManifestIsTrue == ShadowedIsRecorded /\ OwnFilesAreRecorded

(***************************************************************************)
(* "Nothing this plugin did not write is ever edited or deleted"           *)
(* (_sync_files), "every backup home" (remove_entries): an entry that      *)
(* nobody removed is never lost, to a sync or to a remove, one that failed *)
(* at a later file and is run again included.  Out of it are the paths     *)
(* somebody wrote under a running transaction, and what had come to a      *)
(* recorded path since, which a remove is said to delete ("deletes exactly *)
(* the manifest's paths", docs/internals.md).                              *)
(***************************************************************************)
NothingForeignIsDeleted ==
  \A p \in Apps : newest[p] # 0 /\ p \notin raced \union deleted =>
    newest[p] \in {file[p], backup[p], stage[p]}

(***************************************************************************)
(* A default browser that is the plugin has its handler file: it is handed *)
(* back before the file goes, and switched only after the file is written. *)
(* After a kill that holds again from the next completed sync on.          *)
(***************************************************************************)
DefaultIsServed == Free /\ default /\ cut # "cut" => file[Handler] = Own

(***************************************************************************)
(* "Finished or rolled back as one": a sync that failed leaves both        *)
(* directories as it found them, and the manifest true of them.            *)
(***************************************************************************)
FailedRunLeavesNoTrace ==
  [][\A p \in Paths :
       tx.at = "undo" /\ tx'.at = "none" /\ Sound(p) /\ cut' = "no" =>
         file'[p] = before.file[p] /\ backup'[p] = before.backup[p]]_evars
=============================================================================
