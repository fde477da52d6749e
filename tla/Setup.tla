-------------------------------- MODULE Setup --------------------------------
(***************************************************************************)
(* The life of an installation in setup.py: `setup --core`, which the bar  *)
(* widget runs on every load; `setup`, which a person runs, and `setup     *)
(* --remove`.  One of them at a time holds the core lock: the widget's run *)
(* steps aside while another holds it, the others wait.  core.json is how  *)
(* the widget's run knows that it has nothing to do.  Outside the lock run *)
(* the listener, which loads the firewall table through the helper, and    *)
(* `site-block on|off`.                                                    *)
(*                                                                         *)
(* One action is one part that is installed or removed.  Each may fail,    *)
(* which a setup carries on from and a remove stops at, and the run may be *)
(* killed at each.  Entries has the launcher entries in detail and         *)
(* HyprFile the Hyprland file, whose writes are steps here.                *)
(***************************************************************************)
EXTENDS HyprFile, FiniteSets

CONSTANTS
  MaxRuns,     \* bound on the runs that hold the core lock
  MaxFaults,   \* bound on the steps that fail
  MaxKills,    \* bound on the runs that are killed
  MaxActs      \* bound on what the person does beside them

ASSUME SetupAssumption == {MaxRuns, MaxFaults, MaxKills, MaxActs} \subseteq Nat

VARIABLES
  outcome,     \* core.json: how the last setup ended, "none" without a record
  recorded,    \* core.json: the version that wrote it
  answers,     \* the questions the configuration answers
  block,       \* site blocking is enabled
  parts,       \* the slice, the hook and the launcher entries that are installed
  clone,       \* the notifications clone: none, ours, or a stray without a record
  root,        \* the helper, its grant and root's record
  table,       \* the firewall table
  listener,    \* a listener runs
  run,         \* the run that holds the core lock
  gone,        \* history: a remove began, and no setup by hand since
  removed,     \* history: a remove said it was done, and nothing was done since
  cores,       \* history: by version, the widget's runs that set the core up
  marks,       \* history: what went wrong in a way that a later run cannot see
  spent        \* what was used up of each bound

record == <<outcome, recorded>>
config == <<answers, block>>
lasting == <<parts, clone, root, table>>
history == <<gone, removed, cores, marks>>
svars == <<version, pasted, hypr, record, config, lasting, listener, run, history, spent>>

UserParts == {"slice", "hook", "entries"}
RootFiles == {"wrapper", "grant", "record"}
Outcomes == {"none", "ok", "existing", "removed", "failed", "running", "setup"}
Rest == [who |-> "none", at |-> "none", ok |-> TRUE, retry |-> FALSE, half |-> FALSE]

TypeOK ==
  /\ HyprTypeOK
  /\ outcome \in Outcomes /\ recorded \in {0} \union Versions
  /\ answers \subseteq {"links", "block"} /\ block \in BOOLEAN
  /\ parts \subseteq UserParts
  /\ clone \in {"none", "ours", "stray"}
  /\ root \subseteq RootFiles
  /\ table \in {"none", "flushed", "blocking"}
  /\ listener \in BOOLEAN
  /\ run \in [who : {"none", "core", "setup", "remove"}, ok : BOOLEAN, retry : BOOLEAN, half : BOOLEAN,
              at : {"none", "root", "slice", "hook", "hypr", "file", "digest", "line", "entries", "clone",
                    "rescan", "start", "stop", "flush", "unlink", "aside", "move", "destroy", "rm"}]
  /\ {gone, removed} \subseteq BOOLEAN
  /\ cores \in [Versions -> Nat]
  /\ marks \subseteq {"unrecorded", "cut", "torn", "joined"}
  /\ spent \in [{"runs", "faults", "kills", "acts"} -> Nat]

Init ==
  /\ HyprInit
  /\ outcome = "none" /\ recorded = 0
  /\ answers = {} /\ block = TRUE
  /\ parts = {} /\ clone = "none" /\ root = {} /\ table = "none"
  /\ listener = FALSE
  /\ run = Rest
  /\ gone = FALSE /\ removed = FALSE /\ cores = [v \in Versions |-> 0] /\ marks = {}
  /\ spent = [b \in {"runs", "faults", "kills", "acts"} |-> 0]

Spend(b, max) == spent[b] < max /\ spent' = [spent EXCEPT ![b] = @ + 1]
Free == run.at = "none"
Installs == run.who \in {"core", "setup"}
Removes == run.who = "remove"
Mark(m) == marks' = marks \union {m}

(* helper_installed; site_block_answered.                                  *)
Helped == "wrapper" \in root
Answered == answers # {} \/ Helped
-----------------------------------------------------------------------------
(***************************************************************************)
(* _write_core_record.  A record that cannot be written is reported and    *)
(* the run goes on.                                                        *)
(***************************************************************************)
Write(o) ==
  \/ outcome' = o /\ recorded' = version /\ UNCHANGED <<marks, spent>>
  \/ /\ spent["faults"] < MaxFaults
     /\ spent' = [spent EXCEPT !["faults"] = @ + 1]
     /\ Mark("unrecorded") /\ UNCHANGED record

Begins(who, at) ==
  /\ run' = [Rest EXCEPT !.who = who, !.at = at, !.retry = outcome \in {"failed", "running"}]
  /\ removed' = FALSE
standing == <<version, pasted, hypr, lasting, listener>>

(* Nothing to do: it was removed, or this version has run.                 *)
CoreRests == outcome = "removed" \/ (outcome # "none" /\ recorded = version)
CoreRetries == outcome \in {"failed", "running"}

(* A core that nobody set up is set up once, named before its first step.  *)
BeginCore ==
  /\ Free /\ ~CoreRests
  /\ CoreRetries \/ (hdigest = 0 /\ "entries" \notin parts /\ ~Answered)
  /\ Write("running")
  /\ Begins("core", "slice")
  /\ cores' = [cores EXCEPT ![version] = @ + 1]
  /\ UNCHANGED <<standing, config, gone>>

(* An installation that is already there is only named; so is one that was *)
(* removed before removals left a record.                                  *)
NameCore ==
  /\ Free /\ ~CoreRests /\ ~CoreRetries
  /\ \/ (hdigest # 0 \/ "entries" \in parts) /\ Write("existing")
     \/ hdigest = 0 /\ "entries" \notin parts /\ Answered /\ Write("removed")
  /\ UNCHANGED <<standing, config, run, gone, removed, cores>>

(* setup asks both questions first and keeps the answers.                  *)
BeginSetup ==
  /\ Free
  /\ Spend("runs", MaxRuns)
  /\ answers' \in {{"links"}, {"links", "block"}} /\ answers \subseteq answers'
  /\ IF "block" \in answers' \ answers THEN block' \in BOOLEAN ELSE UNCHANGED block
  /\ Begins("setup", IF block' /\ ("block" \in answers' \/ Helped) THEN "root" ELSE "slice")
  /\ gone' = FALSE
  /\ UNCHANGED <<standing, record, cores, marks>>

BeginRemoveBare ==   \* a removal that is not on record until it is complete
  /\ Free
  /\ Spend("runs", MaxRuns)
  /\ Begins("remove", "stop")
  /\ gone' = TRUE
  /\ UNCHANGED <<standing, config, record, cores, marks>>

(* The choice outlives the removal, and is on record before anything goes. *)
BeginRemove ==
  /\ Free
  /\ spent["runs"] < MaxRuns
  /\ \/ /\ outcome' = "removed" /\ recorded' = version
        /\ spent' = [spent EXCEPT !["runs"] = @ + 1] /\ UNCHANGED marks
     \/ /\ spent["faults"] < MaxFaults
        /\ spent' = [spent EXCEPT !["runs"] = @ + 1, !["faults"] = @ + 1]
        /\ Mark("unrecorded") /\ UNCHANGED record
  /\ Begins("remove", "stop")
  /\ gone' = TRUE
  /\ UNCHANGED <<standing, config, cores>>
-----------------------------------------------------------------------------
(***************************************************************************)
(* A setup's steps, in order.  A part that fails costs the exit code and   *)
(* nothing else.                                                           *)
(***************************************************************************)
Next_(at) == [root |-> "slice", slice |-> "hook", hook |-> "hypr", hypr |-> "entries", file |-> "entries",
              digest |-> "entries", line |-> "entries", entries |-> "clone", clone |-> "rescan"][at]
GoesOn(at) == run' = [run EXCEPT !.at = at]
FailsTo(at) == run' = [run EXCEPT !.at = at, !.ok = FALSE]
At(at) == Installs /\ run.at = at
around == <<version, pasted, record, config, listener, gone, removed, cores>>

InstallRoot ==
  /\ At("root")
  /\ root' = RootFiles
  /\ GoesOn("slice")
  /\ UNCHANGED <<around, hypr, parts, clone, table, marks, spent>>

(* The wrapper lands before the grant that names it, root's record last.   *)
(* A refusal or a missing password costs site blocking and the exit code.  *)
InstallRootFails ==
  /\ At("root")
  /\ Spend("faults", MaxFaults)
  /\ root' \in {root, root \union {"wrapper"}, root \union {"wrapper", "grant"}}
  /\ GoesOn("slice")
  /\ UNCHANGED <<around, hypr, parts, clone, table, marks>>

InstallPart ==
  /\ Installs /\ run.at \in UserParts
  /\ parts' = parts \union {run.at}
  /\ GoesOn(Next_(run.at))
  /\ UNCHANGED <<around, hypr, clone, root, table, marks, spent>>

InstallPartFails ==
  /\ Installs /\ run.at \in UserParts
  /\ Spend("faults", MaxFaults)
  /\ parts' \in {parts} \union {parts \union ({run.at} \ {"entries"})}
  /\ FailsTo(Next_(run.at))
  /\ UNCHANGED <<around, hypr, clone, root, table, marks>>

InstallHypr ==
  /\ Installs
  /\ \/ run.at = "hypr" /\ pasted /\ UNCHANGED hypr /\ GoesOn("entries")
     \/ run.at = "hypr" /\ ~pasted /\ PlanHypr /\ GoesOn("file")
     \/ run.at = "file" /\ WriteFile /\ GoesOn("digest")
     \/ run.at = "digest" /\ WriteDigest /\ GoesOn("line")
     \/ run.at = "line" /\ WriteLine /\ GoesOn("entries")
  /\ UNCHANGED <<around, lasting, marks, spent>>

InstallHyprFails ==
  /\ Installs /\ run.at \in {"file", "digest", "line"}
  /\ Spend("faults", MaxFaults)
  /\ DropPlan
  /\ FailsTo("entries")
  /\ Mark("cut")
  /\ UNCHANGED <<around, lasting>>

(* A clone that has no record is taken for somebody else's and left alone. *)
InstallClone ==
  /\ At("clone")
  /\ clone' = IF clone = "none" THEN "ours" ELSE clone
  /\ GoesOn("rescan")
  /\ UNCHANGED <<around, hypr, parts, root, table, marks, spent>>

InstallCloneFails ==
  /\ At("clone")
  /\ Spend("faults", MaxFaults)
  /\ clone' \in {"none", "stray"} \union {clone}
  /\ FailsTo("rescan")
  /\ UNCHANGED <<around, hypr, parts, root, table, marks>>

Rescan ==
  /\ At("rescan")
  /\ \/ GoesOn("start") /\ UNCHANGED spent
     \/ Spend("faults", MaxFaults) /\ FailsTo("start")
  /\ UNCHANGED <<around, hypr, lasting, marks>>

(***************************************************************************)
(* The widget's run, and a setup that retries one that failed or was cut   *)
(* short, end with a running listener, and only then with a good record.   *)
(***************************************************************************)
Verdict(ok) ==
  IF run.who = "core" THEN IF ok THEN "ok" ELSE "failed"
                      ELSE IF run.retry /\ ~ok THEN "failed" ELSE "setup"

Finish ==
  /\ At("start")
  /\ Write(Verdict(run.ok))
  /\ listener' = (listener \/ run.who = "core" \/ run.retry)
  /\ run' = Rest
  /\ UNCHANGED <<version, pasted, hypr, config, lasting, gone, removed, cores>>

FinishFails ==
  /\ At("start") /\ (run.who = "core" \/ run.retry) /\ ~listener
  /\ Spend("faults", MaxFaults)
  /\ outcome' = Verdict(FALSE) /\ recorded' = version
  /\ run' = Rest
  /\ UNCHANGED <<version, pasted, hypr, config, lasting, listener, gone, removed, cores, marks>>
-----------------------------------------------------------------------------
(***************************************************************************)
(* A remove's steps: the listener, then what needs no root, the block      *)
(* flushed while the helper and its grant are there, and root's files      *)
(* last.  What fails ends it; it is run again.                             *)
(***************************************************************************)
Drops(at) == Removes /\ run.at = at
removing == <<version, pasted, record, config, gone, cores>>

StopListenerNot ==   \* does not wait until it has gone
  /\ Drops("stop")
  /\ GoesOn("entries")
  /\ UNCHANGED <<removing, listener, hypr, lasting, removed, marks, spent>>

StopListener ==
  /\ Drops("stop")
  /\ listener' = FALSE
  /\ GoesOn("entries")
  /\ UNCHANGED <<removing, hypr, lasting, removed, marks, spent>>

(* Two of root's files stand for the three.                                *)
DropPart ==
  LET half == root \intersect {"wrapper", "record"} # {} IN
  /\ Removes /\ run.at \in UserParts
  /\ parts' = parts \ {run.at}
  /\ \/ run.at = "entries" /\ run' = [run EXCEPT !.half = half, !.at = IF half THEN "flush" ELSE "slice"]
     \/ run.at = "slice" /\ GoesOn("hook")
     \/ run.at = "hook" /\ GoesOn("line")
  /\ UNCHANGED <<removing, listener, hypr, clone, root, table, removed, marks, spent>>

Flush ==
  /\ Drops("flush") /\ "wrapper" \in root
  /\ table' = "flushed"
  /\ GoesOn("slice")
  /\ UNCHANGED <<removing, listener, hypr, parts, clone, root, removed, marks, spent>>

(* remove_hypr decides on the file from one read of it and acts on it in   *)
(* steps of their own; a file that is gone by then is an error.            *)
DropFile ==
  \/ run.at = "unlink" /\ UnlinkFile /\ GoesOn("digest")
  \/ run.at = "aside" /\ ClearAside /\ GoesOn("move")
  \/ run.at = "move" /\ MoveAside /\ GoesOn("digest")

DropHyprRecordFirst ==
  /\ Removes
  /\ \/ run.at = "line" /\ DropLine /\ GoesOn("digest")
     \/ run.at = "digest" /\ DropDigest /\ GoesOn("file")
     \/ /\ run.at = "file" /\ UNCHANGED hypr
        /\ GoesOn(IF FileStep # "digest" THEN FileStep ELSE IF run.half THEN "destroy" ELSE "clone")
     \/ DropFile
  /\ UNCHANGED <<removing, listener, lasting, removed, marks, spent>>

DropHypr ==
  /\ Removes
  /\ \/ run.at = "line" /\ DropLine /\ GoesOn("file")
     \/ run.at = "file" /\ GoesOn(FileStep) /\ UNCHANGED hypr
     \/ DropFile
     \/ run.at = "digest" /\ DropDigest /\ GoesOn(IF run.half THEN "destroy" ELSE "clone")
  /\ UNCHANGED <<removing, listener, lasting, removed, marks, spent>>

Destroy ==
  /\ Drops("destroy")
  /\ table' = "none"
  /\ GoesOn("rm")
  /\ UNCHANGED <<removing, listener, hypr, parts, clone, root, removed, marks, spent>>

RemoveRoot ==
  /\ Drops("rm")
  /\ root' = {}
  /\ GoesOn("clone")
  /\ UNCHANGED <<removing, listener, hypr, parts, clone, table, removed, marks, spent>>

DropClone ==
  /\ Drops("clone")
  /\ clone' = IF clone = "ours" THEN "none" ELSE clone
  /\ GoesOn("rescan")
  /\ UNCHANGED <<removing, listener, hypr, parts, root, table, removed, marks, spent>>

RemoveDone ==
  /\ Drops("rescan")
  /\ run' = Rest
  /\ removed' = TRUE
  /\ UNCHANGED <<removing, listener, hypr, lasting, marks, spent>>

(* What is missing when its step comes.                                    *)
Impossible ==
  \/ run.at = "flush" /\ "wrapper" \notin root
  \/ run.at \in {"unlink", "move"} /\ hfile = NoFile

(* A step that failed may have done its part; rm may have done some of it. *)
RemoveFails ==
  /\ Removes /\ run.at # "file"
  /\ IF Impossible THEN UNCHANGED spent ELSE Spend("faults", MaxFaults)
  /\ listener' \in IF run.at = "stop" THEN {listener, FALSE} ELSE {listener}
  /\ parts' \in IF run.at \in {"slice", "hook"} THEN {parts, parts \ {run.at}} ELSE {parts}
  /\ \/ root' = root /\ UNCHANGED marks
     \/ run.at = "rm" /\ root' \in SUBSET root \ {root} /\ Mark("torn")
  /\ run' = Rest
  /\ UNCHANGED <<removing, hypr, clone, table, removed>>

(* A core that is interrupted may still write that it failed.              *)
Killed ==
  /\ ~Free
  /\ Spend("kills", MaxKills)
  /\ clone' \in IF At("clone") THEN {clone, "stray"} ELSE {clone}
  /\ root' \in IF At("root") THEN {root, root \union {"wrapper"}} ELSE {root}
  /\ IF Installs /\ run.at \in {"file", "digest", "line"} THEN DropPlan /\ Mark("cut") ELSE UNCHANGED <<hypr, marks>>
  /\ \/ UNCHANGED record
     \/ run.who = "core" /\ outcome' = "failed" /\ recorded' = version
  /\ run' = Rest
  /\ UNCHANGED <<version, pasted, config, parts, table, listener, gone, removed, cores>>
-----------------------------------------------------------------------------
(***************************************************************************)
(* The listener loads or flushes the table through the helper; a login, or *)
(* the person, starts it, also while a remove runs.                        *)
(***************************************************************************)
Applies ==
  /\ listener /\ {"wrapper", "grant"} \subseteq root
  /\ table' = IF block THEN "blocking" ELSE "flushed"
  /\ table' # table
  /\ UNCHANGED <<version, pasted, hypr, record, config, parts, clone, root, listener, run, history, spent>>

During == IF Removes THEN Mark("joined") ELSE UNCHANGED marks
beside == <<record, run, gone, cores, clone, parts>>

StartListener ==
  /\ ~listener
  /\ Spend("acts", MaxActs)
  /\ listener' = TRUE /\ removed' = FALSE /\ During
  /\ UNCHANGED <<beside, version, pasted, hypr, config, root, table>>

(* `site-block on` installs the helper, `off` flushes the table, in        *)
(* processes of their own and outside the core lock.                       *)
SwitchBlock ==
  /\ Spend("acts", MaxActs)
  /\ answers' = answers \union {"block"} /\ block' \in BOOLEAN
  /\ root' \in IF block' THEN {RootFiles, root} ELSE {root}
  /\ table' \in IF ~block' /\ {"wrapper", "grant"} \subseteq root THEN {"flushed", table} ELSE {table}
  /\ removed' = FALSE /\ During
  /\ UNCHANGED <<beside, version, pasted, hypr, listener>>

Edit ==
  /\ Spend("acts", MaxActs)
  /\ \/ EditFile(hplan.file \/ run.at = "unlink") /\ UNCHANGED <<version, pasted>>
     \/ DeleteFile /\ UNCHANGED <<version, pasted>>
     \/ pasted' = ~pasted /\ UNCHANGED <<version, hypr>>
  /\ UNCHANGED <<beside, config, root, table, listener, removed, marks>>

Update ==
  /\ Free /\ version < MaxVersions
  /\ version' = version + 1
  /\ UNCHANGED <<pasted, hypr, record, config, lasting, listener, run, history, spent>>

Installing ==
  \/ InstallRoot \/ InstallRootFails \/ InstallPart \/ InstallPartFails \/ InstallHypr \/ InstallHyprFails
  \/ InstallClone \/ InstallCloneFails \/ Rescan \/ Finish \/ FinishFails
Removing ==
  \/ StopListener \/ DropPart \/ Flush \/ DropHypr \/ Destroy \/ RemoveRoot \/ DropClone \/ RemoveDone \/ RemoveFails

Next ==
  \/ BeginCore \/ NameCore \/ BeginSetup \/ BeginRemove
  \/ Installing \/ Removing \/ Killed
  \/ Applies \/ StartListener \/ SwitchBlock \/ Edit \/ Update

Spec == Init /\ [][Next]_svars
-----------------------------------------------------------------------------
(***************************************************************************)
(* "The choice outlives the removal": from the moment a remove began until *)
(* a person runs setup again, no run of the widget adds anything, in this  *)
(* version or the next, also when the remove failed or was killed halfway. *)
(* A record that could not be written is out of it.                        *)
(***************************************************************************)
RemovalStands ==
  [][gone /\ gone' /\ "unrecorded" \notin marks' =>
       /\ parts' \subseteq parts /\ (hline' => hline) /\ hdigest' \in {hdigest, 0}
       /\ (clone' # clone => clone' = "none")]_svars

(***************************************************************************)
(* "Usually nothing; once per version, the core": whatever fails or is     *)
(* killed, the widget sets the core up at most once for a version, though  *)
(* every load of the bar runs it and the setup reloads the bar.            *)
(***************************************************************************)
CoreRunsOncePerVersion == "unrecorded" \notin marks => \A v \in Versions : cores[v] <= 1

(***************************************************************************)
(* A remove that says it is done leaves nothing: no part, no line or       *)
(* record, no file on record, no helper and no table, however many times   *)
(* it failed and was run again.  Out of it are an rm that did some of its  *)
(* files, a Hyprland file whose record was cut off, and what the person    *)
(* installed or started beside it.                                         *)
(***************************************************************************)
RemovedIsGone ==
  removed =>
    /\ parts = {} /\ clone # "ours" /\ ~hline /\ hdigest = 0
    /\ hfile \in Versions => "cut" \in marks
    /\ root # {} => marks \intersect {"torn", "joined"} # {}
    /\ table # "none" => "joined" \in marks

(***************************************************************************)
(* A block can be ended without a password: while the table blocks, the    *)
(* helper is there, since a remove stops the listener before it flushes    *)
(* and destroys the table before it deletes the helper.  A listener that   *)
(* is started while a remove runs is out of it.                            *)
(***************************************************************************)
BlockHasHelper == table = "blocking" /\ "joined" \notin marks => "wrapper" \in root

(***************************************************************************)
(* A file the person edited is theirs: the latest edit stays where it is   *)
(* or goes to hypr-backup, through updates, setups and removes, whichever  *)
(* of them fail or are killed between its read, the room made for it and   *)
(* its move.  Out of it are an edit of a file that a setup or a remove had *)
(* read unedited and was about to write over or unlink, and a write that   *)
(* was cut off from its record.                                            *)
(***************************************************************************)
EditedIsKept == edit = "stands" /\ "cut" \notin marks => Edited \in {hfile, hbackup}

(***************************************************************************)
(* A core is recorded as working only when it is: every part installed,    *)
(* and the failure of an earlier run is cleared only by one that put all   *)
(* of them in place and left a listener running.                           *)
(***************************************************************************)
WorkingIsRecorded ==
  [][outcome # outcome' /\ (outcome' = "ok" \/ (outcome \in {"failed", "running"} /\ outcome' = "setup")) =>
       parts = UserParts /\ clone # "none" /\ listener']_svars
=============================================================================
