---------------------------- MODULE SetupProofs ----------------------------
(***************************************************************************)
(* Proofs about Setup and HyprFile, for every number of versions, runs,    *)
(* failures, kills and acts of the person.                                 *)
(***************************************************************************)
EXTENDS Setup, TLAPS

Whos == {"none", "core", "setup", "remove"}
Ats  == {"none", "root", "slice", "hook", "hypr", "file", "digest", "line", "entries", "clone",
         "rescan", "start", "stop", "flush", "unlink", "aside", "move", "destroy", "rm"}
RunType == run \in [who : Whos, ok : BOOLEAN, retry : BOOLEAN, half : BOOLEAN, at : Ats]
Bounds == {"runs", "faults", "kills", "acts"}

-----------------------------------------------------------------------------
(***************************************************************************)
(* Types.                                                                  *)
(***************************************************************************)
\* What follows a user part.
LEMMA NextAt ==
  ASSUME NEW at \in UserParts PROVE Next_(at) \in {"hook", "hypr", "clone"}
  <1>1. CASE at = "slice"
    BY <1>1 DEF Next_
  <1>2. CASE at = "hook"
    BY <1>2 DEF Next_
  <1>3. CASE at = "entries"
    BY <1>3 DEF Next_
  <1> QED
    BY <1>1, <1>2, <1>3 DEF UserParts

\* Using up a bound counts.
LEMMA SpendType ==
  ASSUME spent \in [Bounds -> Nat], NEW b \in Bounds, NEW max, Spend(b, max)
  PROVE  spent' \in [Bounds -> Nat]
  BY DEF Spend

\* A run that goes on keeps all but its step.
LEMMA GoesOnType ==
  ASSUME RunType, NEW at \in Ats, GoesOn(at)
  PROVE  RunType' /\ run'.at = at /\ run'.who = run.who /\ run'.half = run.half
  BY DEF RunType, GoesOn

\* So does one whose step failed.
LEMMA FailsToType ==
  ASSUME RunType, NEW at \in Ats, FailsTo(at)
  PROVE  RunType' /\ run'.at = at /\ run'.who = run.who /\ run'.half = run.half
  BY DEF RunType, FailsTo

\* A run begins with a name and a first step.
LEMMA BeginsType ==
  ASSUME NEW who \in Whos, NEW at \in Ats, Begins(who, at)
  PROVE  RunType' /\ run'.at = at /\ run'.who = who /\ removed' = FALSE
  <1>1. ASSUME NEW again \in BOOLEAN,
               run' = [who |-> who, at |-> at, ok |-> TRUE, retry |-> again, half |-> FALSE]
        PROVE  RunType' /\ run'.at = at /\ run'.who = who
    BY <1>1 DEF RunType
  <1>2. (outcome \in {"failed", "running"}) \in BOOLEAN
    OBVIOUS
  <1>3. run' = [who |-> who, at |-> at, ok |-> TRUE, retry |-> outcome \in {"failed", "running"},
                half |-> FALSE]
    BY DEF Begins, Rest
  <1> QED
    BY <1>1, <1>2, <1>3 DEF Begins

\* A run that begins after a failure knows it.
LEMMA BeginsRetry ==
  ASSUME NEW who, NEW at, Begins(who, at), outcome \in {"failed", "running"}
  PROVE  run'.retry
  BY DEF Begins, Rest

\* A run that is over has neither name nor step.
LEMMA RestType ==
  ASSUME run' = Rest PROVE RunType' /\ run'.at = "none" /\ run'.who = "none"
  BY DEF RunType, Rest, Whos, Ats

\* A record is written, or that it was not is marked.
LEMMA WriteMakes ==
  ASSUME NEW o, Write(o)
  PROVE  /\ outcome' \in {o, outcome} /\ recorded' \in {version, recorded}
         /\ marks' \in {marks, marks \union {"unrecorded"}}
  BY DEF Write, Mark, record

\* Writing a record counts at most a failure.
LEMMA WriteSpent ==
  ASSUME spent \in [Bounds -> Nat], NEW o, Write(o)
  PROVE  spent' \in [Bounds -> Nat]
  BY DEF Write, Bounds

\* A remove takes back line, file and record in this order.
LEMMA DropHyprMoves ==
  ASSUME RunType, DropHypr
  PROVE  /\ RunType' /\ Removes /\ Removes'
         /\ run'.who = run.who /\ run'.ok = run.ok /\ run'.retry = run.retry /\ run'.half = run.half
         /\ \/ run.at = "line" /\ run'.at = "file" /\ DropLine
            \/ run.at = "file" /\ run'.at = FileStep /\ UNCHANGED hypr
            \/ run.at = "unlink" /\ run'.at = "digest" /\ UnlinkFile
            \/ run.at = "aside" /\ run'.at = "move" /\ ClearAside
            \/ run.at = "move" /\ run'.at = "digest" /\ MoveAside
            \/ run.at = "digest" /\ run'.at = (IF run.half THEN "destroy" ELSE "clone") /\ DropDigest
  <1>1. PICK at \in Ats :
          /\ GoesOn(at)
          /\ \/ run.at = "line" /\ at = "file" /\ DropLine
             \/ run.at = "file" /\ at = FileStep /\ UNCHANGED hypr
             \/ run.at = "unlink" /\ at = "digest" /\ UnlinkFile
             \/ run.at = "aside" /\ at = "move" /\ ClearAside
             \/ run.at = "move" /\ at = "digest" /\ MoveAside
             \/ run.at = "digest" /\ at = (IF run.half THEN "destroy" ELSE "clone") /\ DropDigest
    BY DEF DropHypr, DropFile, FileStep, Ats
  <1>2. /\ RunType' /\ run'.at = at
        /\ run'.who = run.who /\ run'.ok = run.ok /\ run'.retry = run.retry /\ run'.half = run.half
    BY <1>1 DEF RunType, GoesOn
  <1> QED
    BY <1>1, <1>2 DEF DropHypr, Removes

-----------------------------------------------------------------------------
(***************************************************************************)
(* Where a run can be.                                                     *)
(***************************************************************************)
SetupAts  == {"root", "slice", "hook", "hypr", "file", "digest", "line", "entries", "clone",
              "rescan", "start"}
RemoveAts == {"stop", "entries", "flush", "slice", "hook", "line", "file", "unlink", "aside", "move",
              "digest", "destroy", "rm", "clone", "rescan"}

PathInv ==
  /\ RunType
  /\ Installs => run.at \in SetupAts
  /\ Removes => run.at \in RemoveAts
  /\ Removes /\ run.at = "flush" => run.half
  /\ run.who = "none" <=> run.at = "none"

\* A run that is over is at no step.
LEMMA RestPath == ASSUME run' = Rest PROVE PathInv'
  BY DEF PathInv, RunType, Rest, Whos, Ats, Installs, Removes

\* A run moves along its own steps.
LEMMA PathNext ==
  ASSUME PathInv, [Next]_svars
  PROVE  PathInv'
  <1> USE DEF PathInv, Installs, Removes, SetupAts, RemoveAts, Whos, Ats
  <1>1. CASE BeginCore
    <2>1. Begins("core", "slice")
      BY <1>1 DEF BeginCore
    <2> QED
      BY <2>1, BeginsType
  <1>2. CASE NameCore
    BY <1>2 DEF NameCore, RunType
  <1>3. CASE BeginSetup
    <2>1. Begins("setup", "root") \/ Begins("setup", "slice")
      BY <1>3 DEF BeginSetup
    <2> QED
      BY <2>1, BeginsType
  <1>4. CASE BeginRemove
    <2>1. Begins("remove", "stop")
      BY <1>4 DEF BeginRemove
    <2> QED
      BY <2>1, BeginsType
  <1>5. CASE InstallRoot \/ InstallRootFails
    BY <1>5 DEF InstallRoot, At, GoesOn, RunType, InstallRootFails
  <1>6. CASE InstallPart
    <2>1. run.at \in UserParts /\ GoesOn(Next_(run.at)) /\ Installs
      BY <1>6 DEF InstallPart
    <2>2. Next_(run.at) \in {"hook", "hypr", "clone"}
      BY <2>1, NextAt
    <2> QED
      BY <2>1, <2>2, GoesOnType
  <1>7. CASE InstallPartFails
    <2>1. run.at \in UserParts /\ FailsTo(Next_(run.at)) /\ Installs
      BY <1>7 DEF InstallPartFails
    <2>2. Next_(run.at) \in {"hook", "hypr", "clone"}
      BY <2>1, NextAt
    <2> QED
      BY <2>1, <2>2, FailsToType
  <1>8. CASE InstallHypr \/ InstallHyprFails \/ InstallClone \/ InstallCloneFails
    BY <1>8 DEF InstallHypr, GoesOn, RunType, InstallHyprFails, FailsTo, InstallClone,
         At, InstallCloneFails
  <1>9. CASE Rescan
    BY <1>9 DEF Rescan, At, GoesOn, FailsTo, RunType
  <1>10. CASE Finish
    BY <1>10, RestPath DEF Finish
  <1>11. CASE FinishFails
    BY <1>11, RestPath DEF FinishFails
  <1>12. CASE StopListener
    BY <1>12 DEF StopListener, Drops, GoesOn, RunType
  <1>13. CASE DropPart
    BY <1>13 DEF DropPart, GoesOn, RunType, UserParts
  <1>14. CASE Flush
    BY <1>14 DEF Flush, Drops, GoesOn, RunType
  <1>15. CASE DropHypr
    BY <1>15, DropHyprMoves DEF FileStep
  <1>16. CASE Destroy \/ RemoveRoot \/ DropClone
    BY <1>16 DEF Destroy, Drops, GoesOn, RunType, RemoveRoot, DropClone
  <1>17. CASE RemoveDone
    BY <1>17, RestPath DEF RemoveDone
  <1>18. CASE RemoveFails
    BY <1>18, RestPath DEF RemoveFails
  <1>19. CASE Killed
    BY <1>19, RestPath DEF Killed
  <1>20. CASE Applies \/ StartListener \/ SwitchBlock \/ Edit
    BY <1>20 DEF Applies, RunType, StartListener, beside, SwitchBlock, Edit
  <1>21. CASE Update \/ UNCHANGED svars
    BY <1>21 DEF Update, RunType, svars
  <1> QED
    BY <1>1, <1>2, <1>3, <1>4, <1>5, <1>6, <1>7, <1>8, <1>9, <1>10, <1>11, <1>12, <1>13,
       <1>14, <1>15, <1>16, <1>17, <1>18, <1>19, <1>20, <1>21 DEF Next, Installing, Removing

-----------------------------------------------------------------------------
(***************************************************************************)
(* The invariants, by what the properties ask.                             *)
(***************************************************************************)

\* What is counted and planned.
Shape ==
  /\ version \in Versions
  /\ cores \in [Versions -> Nat]
  /\ parts \subseteq UserParts

\* The version that set the core up is on record.
OnceInv == "unrecorded" \notin marks =>
  /\ \A v \in Versions : cores[v] <= 1 /\ (cores[v] # 0 => v <= version)
  /\ cores[version] # 0 => outcome # "none" /\ recorded = version

\* After a remove has begun its record says so and nothing installs.
StandInv == gone /\ "unrecorded" \notin marks => outcome = "removed" /\ ~Installs

\* A table has a helper; a remove has stopped the listener, and takes the table
\* before the helper.
AfterFlush == {"slice", "hook", "line", "file", "unlink", "aside", "move", "digest", "destroy", "rm",
               "clone", "rescan"}

TableInv == "joined" \notin marks =>
  /\ table # "none" => "wrapper" \in root
  /\ Removes /\ run.at # "stop" => ~listener
  /\ Removes /\ run.at \in {"rm", "clone", "rescan"} => table = "none"
  /\ Removes /\ run.at \in AfterFlush /\ ~run.half => table = "none"
  /\ removed => ~listener /\ table = "none"

\* Root's files are there with the wrapper or not at all.
RootInv == marks \intersect {"torn", "joined"} = {} =>
  /\ root = {} \/ "wrapper" \in root
  /\ Removes /\ run.at \in AfterFlush /\ ~run.half => root = {}
  /\ Removes /\ run.at \in {"clone", "rescan"} => root = {}
  /\ removed => root = {}

\* A remove leaves behind it nothing that it has passed.
GoneInv ==
  /\ Removes /\ run.at \notin {"stop", "entries"} => "entries" \notin parts
  /\ Removes /\ run.at \notin {"stop", "entries", "flush", "slice"} => "slice" \notin parts
  /\ Removes /\ run.at \notin {"stop", "entries", "flush", "slice", "hook"} => "hook" \notin parts
  /\ Removes /\ run.at \in AfterFlush \ {"slice", "hook", "line"} => ~hline
  /\ Removes /\ run.at \in {"destroy", "rm", "clone", "rescan"} => hdigest = 0
  /\ Removes /\ run.at = "rescan" => clone # "ours"
  /\ removed => run.at = "none" /\ parts = {} /\ ~hline /\ hdigest = 0 /\ clone # "ours"

\* A file of the plugin's is the one on record, or the one about to be recorded,
\* and a sync that writes has not seen an edit; nor has a remove that unlinks, and
\* one that moves a file aside has seen nothing else.
FileInv == "cut" \notin marks =>
  /\ hfile \in Versions =>
       /\ Installs /\ run.at = "file" /\ ~hplan.file => hfile = hplan.digest
       /\ Installs /\ run.at = "digest" => hfile = hplan.digest
       /\ ~(Installs /\ run.at = "digest") => hfile = hdigest
       /\ ~(Removes /\ run.at \in {"aside", "move", "digest"})
  /\ hplan.file => hplan.digest = version
  /\ edit = "stands" => Edited \in {hfile, hbackup}
  /\ edit = "stands" /\ hplan.file => hbackup = Edited
  /\ edit = "stands" /\ Removes /\ run.at = "unlink" => hbackup = Edited
  /\ edit = "stands" /\ Removes /\ run.at \in {"aside", "move"} => hfile = Edited

\* The types of the sets, of the flags, of what was spent and of the Hyprland file.
SetTypes ==
  /\ outcome \in Outcomes /\ recorded \in {0} \union Versions
  /\ answers \subseteq {"links", "block"}
  /\ clone \in {"none", "ours", "stray"}
  /\ root \subseteq RootFiles
  /\ table \in {"none", "flushed", "blocking"}
  /\ marks \subseteq {"unrecorded", "cut", "torn", "joined"}

FlagTypes ==
  /\ pasted \in BOOLEAN /\ hline \in BOOLEAN /\ block \in BOOLEAN /\ listener \in BOOLEAN
  /\ gone \in BOOLEAN /\ removed \in BOOLEAN

SpentType == spent \in [Bounds -> Nat]

HyprTypes ==
  /\ version \in Versions
  /\ hfile \in {NoFile, Edited} \union Versions
  /\ hbackup \in {NoFile, Edited, Older} \union Versions
  /\ edit \in {"none", "stands", "overtaken"}
  /\ hdigest \in {0} \union Versions
  /\ hplan \in [file : BOOLEAN, digest : {0} \union Versions, line : BOOLEAN]
  /\ hplan.file => Installs /\ run.at = "file"

\* A run that has not failed has installed all that it has passed.
OkInv ==
  /\ Installs /\ run.ok =>
       /\ run.at \notin {"root", "slice"} => "slice" \in parts
       /\ run.at \notin {"root", "slice", "hook"} => "hook" \in parts
       /\ run.at \in {"clone", "rescan", "start"} => "entries" \in parts
       /\ run.at \in {"rescan", "start"} => clone # "none"
  /\ run.who = "setup" /\ outcome \in {"failed", "running"} => run.retry

\* Versions, counts and parts.
LEMMA ShapeNext ==
  ASSUME Shape, [Next]_svars
  PROVE  Shape'
  <1> USE HyprAssumption DEF Shape, Versions, UserParts
  <1>1. CASE BeginCore
    BY <1>1 DEF BeginCore, Free, CoreRests, CoreRetries, standing, lasting
  <1>2. CASE NameCore
    BY <1>2 DEF NameCore, Free, CoreRests, CoreRetries, standing, lasting
  <1>3. CASE BeginSetup
    BY <1>3 DEF BeginSetup, Free, standing, lasting
  <1>4. CASE BeginRemove
    BY <1>4 DEF BeginRemove, Free, standing, lasting
  <1>5. CASE InstallRoot \/ InstallRootFails \/ InstallPart \/ InstallPartFails
    BY <1>5 DEF InstallRoot, At, around, InstallRootFails, InstallPart, Installs,
         UserParts, InstallPartFails
  <1>6. CASE InstallHypr \/ InstallHyprFails \/ InstallClone \/ InstallCloneFails
    BY <1>6 DEF InstallHypr, Installs, around, lasting, InstallHyprFails, DropPlan,
         InstallClone, At, InstallCloneFails
  <1>7. CASE Rescan \/ Finish \/ FinishFails \/ StopListener
    BY <1>7 DEF Rescan, At, around, lasting, Finish, Verdict, FinishFails, StopListener,
         Drops, Removes, removing
  <1>8. CASE DropPart \/ Flush \/ DropHypr \/ Destroy
    BY <1>8 DEF DropPart, Removes, removing, UserParts, Flush, Drops, DropHypr, lasting,
         Destroy
  <1>9. CASE RemoveRoot \/ DropClone \/ RemoveDone \/ RemoveFails
    BY <1>9 DEF RemoveRoot, Drops, Removes, removing, DropClone, RemoveDone, lasting,
         RemoveFails
  <1>10. CASE Killed \/ Applies \/ StartListener \/ SwitchBlock
    BY <1>10 DEF Killed, Free, At, Installs, DropPlan, Applies, history, StartListener,
         beside, Removes, SwitchBlock
  <1>11. CASE Edit
    BY <1>11 DEF Edit, beside
  <1>12. CASE Update
    BY <1>12 DEF Update, Free, lasting, history
  <1>13. CASE UNCHANGED svars
    BY <1>13 DEF svars, lasting, history
  <1> QED
    BY <1>1, <1>2, <1>3, <1>4, <1>5, <1>6, <1>7, <1>8, <1>9, <1>10, <1>11, <1>12, <1>13 DEF
       Next, Installing, Removing

\* Every record names the version that made it.
LEMMA OnceNext ==
  ASSUME Shape, OnceInv, [Next]_svars
  PROVE  OnceInv'
  <1> USE HyprAssumption DEF Shape, OnceInv, Versions
  <1>1. CASE BeginCore \/ NameCore \/ BeginSetup \/ BeginRemove
    BY <1>1 DEF BeginCore, Free, CoreRests, CoreRetries, Write, Mark, standing,
         NameCore, BeginSetup, record, BeginRemove
  <1>2. CASE InstallRoot \/ InstallRootFails \/ InstallPart \/ InstallPartFails
    BY <1>2 DEF InstallRoot, At, around, record, InstallRootFails, InstallPart,
         Installs, InstallPartFails
  <1>3. CASE InstallHypr \/ InstallHyprFails \/ InstallClone \/ InstallCloneFails
    BY <1>3 DEF InstallHypr, Installs, around, record, InstallHyprFails, DropPlan, Mark,
         InstallClone, At, InstallCloneFails
  <1>4. CASE Rescan \/ Finish \/ FinishFails \/ StopListener
    BY <1>4 DEF Rescan, At, around, record, Finish, Write, Mark, Verdict, FinishFails,
         StopListener, Drops, Removes, removing
  <1>5. CASE DropPart \/ Flush \/ DropHypr \/ Destroy
    BY <1>5 DEF DropPart, Removes, removing, record, Flush, Drops, DropHypr, Destroy
  <1>6. CASE RemoveRoot \/ DropClone \/ RemoveDone \/ RemoveFails
    BY <1>6 DEF RemoveRoot, Drops, Removes, removing, record, DropClone, RemoveDone,
         RemoveFails, Mark
  <1>7. CASE Killed \/ Applies \/ StartListener \/ SwitchBlock
    BY <1>7 DEF Killed, Free, At, Installs, record, DropPlan, Mark, Applies, history,
         StartListener, beside, Removes, During, SwitchBlock
  <1>8. CASE Edit \/ Update \/ UNCHANGED svars
    BY <1>8 DEF Edit, beside, record, Update, Free, history, svars
  <1> QED
    BY <1>1, <1>2, <1>3, <1>4, <1>5, <1>6, <1>7, <1>8 DEF Next, Installing, Removing

\* A removal on record keeps the widget from setting up.
LEMMA StandNext ==
  ASSUME PathInv, StandInv, [Next]_svars
  PROVE  StandInv'
  <1> USE DEF PathInv, StandInv, Installs, Removes
  <1>1. CASE BeginCore
    BY <1>1, BeginsType DEF BeginCore, Free, CoreRests, CoreRetries, Write, Mark, RunType, Whos, Ats
  <1>2. CASE NameCore
    BY <1>2 DEF NameCore, Free, CoreRests, CoreRetries, Write, Mark, RunType
  <1>3. CASE BeginSetup
    BY <1>3, BeginsType DEF BeginSetup, Free, record, RunType, Whos, Ats
  <1>4. CASE BeginRemove
    BY <1>4, BeginsType DEF BeginRemove, Free, Mark, record, RunType, Whos, Ats
  <1>5. CASE InstallRoot \/ InstallRootFails
    BY <1>5 DEF InstallRoot, At, around, record, GoesOn, RunType, InstallRootFails
  <1>6. CASE InstallPart
    BY <1>6, NextAt DEF InstallPart, Installs, around, record, UserParts, GoesOn, RunType
  <1>7. CASE InstallPartFails
    BY <1>7, NextAt DEF InstallPartFails, Installs, around, record, UserParts, FailsTo, RunType
  <1>8. CASE InstallHypr \/ InstallHyprFails \/ InstallClone \/ InstallCloneFails
    BY <1>8 DEF InstallHypr, Installs, around, record, GoesOn, RunType,
         InstallHyprFails, DropPlan, Mark, FailsTo, InstallClone, At, InstallCloneFails
  <1>9. CASE Rescan
    BY <1>9 DEF Rescan, At, around, record, GoesOn, FailsTo, RunType
  <1>10. CASE Finish
    BY <1>10, RestType DEF Finish, At, Write, Mark, record, Verdict, RunType
  <1>11. CASE FinishFails
    BY <1>11, RestType DEF FinishFails, At, Verdict, RunType
  <1>12. CASE StopListener \/ DropPart \/ Flush \/ DropHypr
    <2>1. CASE DropHypr
      BY <2>1, DropHyprMoves DEF DropHypr, removing, record, Removes
    <2> QED
      BY <1>12, <2>1 DEF StopListener, Drops, Removes, removing, record, GoesOn, RunType,
         DropPart, UserParts, Flush
  <1>13. CASE Destroy \/ RemoveRoot \/ DropClone
    BY <1>13 DEF Destroy, Drops, Removes, removing, record, GoesOn, RunType, RemoveRoot,
         DropClone
  <1>14. CASE RemoveDone
    BY <1>14, RestType DEF RemoveDone, Drops, Removes, removing, record, RunType
  <1>15. CASE RemoveFails
    BY <1>15, RestType DEF RemoveFails, Removes, removing, record, Mark, RunType
  <1>16. CASE Killed
    BY <1>16, RestType DEF Killed, Free, At, Installs, record, DropPlan, Mark, RunType
  <1>17. CASE Applies \/ StartListener \/ SwitchBlock \/ Edit
    BY <1>17 DEF Applies, record, history, RunType, StartListener, beside, Removes,
         During, Mark, SwitchBlock, Edit
  <1>18. CASE Update \/ UNCHANGED svars
    BY <1>18 DEF Update, Free, record, history, RunType, svars
  <1> QED
    BY <1>1, <1>2, <1>3, <1>4, <1>5, <1>6, <1>7, <1>8, <1>9, <1>10, <1>11, <1>12, <1>13,
       <1>14, <1>15, <1>16, <1>17, <1>18 DEF Next, Installing, Removing

\* The table goes before the helper.
LEMMA TableNext ==
  ASSUME PathInv, TableInv, GoneInv, [Next]_svars
  PROVE  TableInv'
  <1> USE DEF PathInv, TableInv, AfterFlush, Installs, Removes
  <1>1. CASE BeginCore
    BY <1>1, BeginsType DEF BeginCore, Free, CoreRests, CoreRetries, Write, Mark, standing,
       lasting, RunType, Spend, Whos, Ats
  <1>2. CASE NameCore
    BY <1>2 DEF NameCore, Free, CoreRests, CoreRetries, Write, Mark, standing, lasting,
         RunType, Spend
  <1>3. CASE BeginSetup
    BY <1>3, BeginsType DEF BeginSetup, Free, standing, lasting, RunType, Spend, Whos, Ats
  <1>4. CASE BeginRemove
    BY <1>4, BeginsType DEF BeginRemove, Free, standing, Mark, lasting, RunType, Spend, Whos, Ats
  <1>5. CASE InstallRoot \/ InstallRootFails
    BY <1>5 DEF InstallRoot, At, around, RootFiles, GoesOn, RunType, Spend,
         InstallRootFails
  <1>6. CASE InstallPart
    BY <1>6, NextAt DEF InstallPart, Installs, around, UserParts, GoesOn, RunType, Spend
  <1>7. CASE InstallPartFails
    BY <1>7, NextAt DEF InstallPartFails, Installs, around, UserParts, FailsTo, RunType, Spend
  <1>8. CASE InstallHypr \/ InstallHyprFails \/ InstallClone \/ InstallCloneFails
    BY <1>8 DEF InstallHypr, Installs, around, lasting, GoesOn, RunType, Spend,
         InstallHyprFails, DropPlan, Mark, FailsTo, InstallClone, At, InstallCloneFails
  <1>9. CASE Rescan
    BY <1>9 DEF Rescan, At, around, lasting, GoesOn, FailsTo, RunType, Spend
  <1>10. CASE Finish
    <2>1. ~removed'
      BY <1>10 DEF GoneInv, Finish, At
    <2>2. ~Removes' /\ table' = table /\ root' = root /\ marks \subseteq marks'
      BY <1>10, RestType DEF Finish, Write, Mark, lasting
    <2> QED
      BY <2>1, <2>2
  <1>11. CASE FinishFails
    BY <1>11, RestType DEF FinishFails, At, lasting, Verdict, RunType, Spend
  <1>12. CASE StopListener \/ DropPart
    BY <1>12 DEF StopListener, Drops, Removes, lasting, GoesOn, RunType, Spend,
         DropPart, UserParts
  <1>13. CASE Flush
    <2>1. run.half /\ run'.half = run.half /\ run'.at = "slice" /\ run'.who = run.who
      BY <1>13 DEF Flush, Drops, GoesOn, RunType
    <2>2. ~removed
      BY <1>13 DEF GoneInv, Flush, Drops
    <2> QED
      BY <1>13, <2>1, <2>2 DEF Flush, Drops
  <1>14. CASE DropHypr \/ Destroy \/ RemoveRoot \/ DropClone
    <2>1. CASE DropHypr
      BY <2>1, DropHyprMoves DEF DropHypr, FileStep, lasting, removing, AfterFlush, Removes
    <2> QED
      BY <1>14, <2>1 DEF Removes, lasting, GoesOn, RunType, Spend, Destroy, Drops,
         RemoveRoot, DropClone
  <1>15. CASE RemoveDone
    BY <1>15, RestType DEF RemoveDone, Drops, Removes, lasting, RunType, Spend
  <1>16. CASE RemoveFails
    BY <1>16, RestType DEF RemoveFails, Removes, Mark, RunType, Spend
  <1>17. CASE Killed
    BY <1>17, RestType DEF Killed, Free, At, Installs, DropPlan, Mark, RunType, Spend
  <1>18. CASE Applies \/ StartListener \/ SwitchBlock \/ Edit
    BY <1>18 DEF Applies, history, RunType, Spend, StartListener, beside, Removes,
         During, Mark, SwitchBlock, RootFiles, Edit
  <1>19. CASE Update \/ UNCHANGED svars
    BY <1>19 DEF Update, Free, lasting, history, RunType, Spend, svars
  <1> QED
    BY <1>1, <1>2, <1>3, <1>4, <1>5, <1>6, <1>7, <1>8, <1>9, <1>10, <1>11, <1>12, <1>13,
       <1>14, <1>15, <1>16, <1>17, <1>18, <1>19 DEF Next, Installing, Removing

\* Root files go together.
LEMMA RootNext ==
  ASSUME PathInv, RootInv, GoneInv, [Next]_svars
  PROVE  RootInv'
  <1> USE DEF PathInv, RootInv, AfterFlush, Installs, Removes
  <1>1. CASE BeginCore
    BY <1>1, BeginsType DEF BeginCore, Free, CoreRests, CoreRetries, Write, Mark, standing,
       lasting, RunType, RootFiles, Whos, Ats
  <1>2. CASE NameCore
    BY <1>2 DEF NameCore, Free, CoreRests, CoreRetries, Write, Mark, standing, lasting,
         RunType, RootFiles
  <1>3. CASE BeginSetup
    BY <1>3, BeginsType DEF BeginSetup, Free, standing, lasting, RunType, RootFiles, Whos, Ats
  <1>4. CASE BeginRemove
    BY <1>4, BeginsType DEF BeginRemove, Free, standing, Mark, lasting, RunType, RootFiles,
       Whos, Ats
  <1>5. CASE InstallRoot
    <2>1. ~removed /\ removed' = removed
      BY <1>5 DEF GoneInv, InstallRoot, At, around
    <2> QED
      BY <1>5, <2>1 DEF InstallRoot, At, RootFiles, GoesOn, RunType
  <1>6. CASE InstallRootFails
    <2>1. ~removed /\ removed' = removed
      BY <1>6 DEF GoneInv, InstallRootFails, At, around
    <2> QED
      BY <1>6, <2>1 DEF InstallRootFails, At, GoesOn, RunType
  <1>7. CASE InstallPart
    BY <1>7, NextAt DEF InstallPart, Installs, around, UserParts, GoesOn, RunType, RootFiles
  <1>8. CASE InstallPartFails
    BY <1>8, NextAt DEF InstallPartFails, Installs, around, UserParts, FailsTo, RunType, RootFiles
  <1>9. CASE InstallHypr \/ InstallHyprFails \/ InstallClone \/ InstallCloneFails
    BY <1>9 DEF InstallHypr, Installs, around, lasting, GoesOn, RunType, RootFiles,
         InstallHyprFails, DropPlan, Mark, FailsTo, InstallClone, At, InstallCloneFails
  <1>10. CASE Rescan
    BY <1>10 DEF Rescan, At, around, lasting, GoesOn, FailsTo, RunType, RootFiles
  <1>11. CASE Finish
    BY <1>11, RestType DEF Finish, At, Write, Mark, lasting, Verdict, RunType, RootFiles
  <1>12. CASE FinishFails
    BY <1>12, RestType DEF FinishFails, At, lasting, Verdict, RunType, RootFiles
  <1>13. CASE StopListener \/ DropPart \/ Flush \/ DropHypr
    <2>1. CASE DropHypr
      BY <2>1, DropHyprMoves DEF DropHypr, FileStep, lasting, removing, AfterFlush, Removes
    <2> QED
      BY <1>13, <2>1 DEF StopListener, Drops, Removes, lasting, GoesOn, RunType, RootFiles,
         DropPart, UserParts, Flush
  <1>14. CASE Destroy \/ RemoveRoot \/ DropClone
    BY <1>14 DEF Destroy, Drops, Removes, GoesOn, RunType, RootFiles, RemoveRoot,
         DropClone
  <1>15. CASE RemoveDone
    BY <1>15, RestType DEF RemoveDone, Drops, Removes, lasting, RunType, RootFiles
  <1>16. CASE RemoveFails
    BY <1>16, RestType DEF RemoveFails, Removes, Mark, RunType, RootFiles
  <1>17. CASE Killed
    <2>1. ~removed /\ removed' = removed
      BY <1>17 DEF GoneInv, Killed, Free, At, around
    <2> QED
      BY <1>17, <2>1, RestType DEF Killed, At, Installs, Mark
  <1>18. CASE Applies \/ StartListener \/ SwitchBlock \/ Edit
    BY <1>18 DEF Applies, history, RunType, RootFiles, StartListener, beside, Removes,
         During, Mark, SwitchBlock, Edit
  <1>19. CASE Update \/ UNCHANGED svars
    BY <1>19 DEF Update, Free, lasting, history, RunType, RootFiles, svars
  <1> QED
    BY <1>1, <1>2, <1>3, <1>4, <1>5, <1>6, <1>7, <1>8, <1>9, <1>10, <1>11, <1>12, <1>13,
       <1>14, <1>15, <1>16, <1>17, <1>18, <1>19 DEF Next, Installing, Removing

\* What a remove has passed is gone.
LEMMA GoneNext ==
  ASSUME PathInv, Shape, GoneInv, [Next]_svars
  PROVE  GoneInv'
  <1> USE DEF PathInv, Shape, GoneInv, Installs, Removes, AfterFlush
  <1>1. CASE BeginCore
    BY <1>1, BeginsType DEF BeginCore, Free, CoreRests, CoreRetries, standing, hypr, lasting,
       RunType, Whos, Ats
  <1>2. CASE NameCore
    BY <1>2 DEF NameCore, Free, CoreRests, CoreRetries, standing, hypr, lasting, RunType
  <1>3. CASE BeginSetup
    BY <1>3, BeginsType DEF BeginSetup, Free, standing, hypr, lasting, RunType, Whos, Ats
  <1>4. CASE BeginRemove
    BY <1>4, BeginsType DEF BeginRemove, Free, standing, hypr, lasting, RunType, Whos, Ats
  <1>5. CASE InstallRoot \/ InstallRootFails
    BY <1>5 DEF InstallRoot, At, around, hypr, GoesOn, RunType, InstallRootFails
  <1>6. CASE InstallPart
    BY <1>6, NextAt DEF InstallPart, Installs, around, hypr, UserParts, GoesOn, RunType
  <1>7. CASE InstallPartFails
    BY <1>7, NextAt DEF InstallPartFails, Installs, around, hypr, UserParts, FailsTo, RunType
  <1>8. CASE InstallHypr
    BY <1>8 DEF InstallHypr, Installs, around, lasting, hypr, GoesOn, RunType, PlanHypr,
       WasEdited, WriteFile, WriteDigest, WriteLine, NoPlan
  <1>9. CASE InstallHyprFails
    BY <1>9 DEF InstallHyprFails, Installs, around, lasting, DropPlan, FailsTo, RunType, NoPlan
  <1>10. CASE InstallClone
    BY <1>10 DEF InstallClone, At, around, hypr, GoesOn, RunType
  <1>11. CASE InstallCloneFails
    BY <1>11 DEF InstallCloneFails, At, around, hypr, FailsTo, RunType
  <1>12. CASE Rescan
    BY <1>12 DEF Rescan, At, around, hypr, lasting, GoesOn, FailsTo, RunType
  <1>13. CASE Finish
    BY <1>13, RestType DEF Finish, At, hypr, lasting, Verdict, RunType
  <1>14. CASE FinishFails
    BY <1>14, RestType DEF FinishFails, At, hypr, lasting, Verdict, RunType
  <1>15. CASE StopListener
    BY <1>15 DEF StopListener, Drops, Removes, hypr, lasting, GoesOn, RunType
  <1>16. CASE DropPart
    BY <1>16 DEF DropPart, Removes, hypr, UserParts, GoesOn, RunType
  <1>17. CASE Flush
    BY <1>17 DEF Flush, Drops, Removes, hypr, GoesOn, RunType
  <1>18. CASE DropHypr
    <2>1. /\ Removes /\ Removes' /\ parts' = parts /\ clone' = clone /\ removed' = removed
      BY <1>18, DropHyprMoves DEF DropHypr, lasting
    <2>2. CASE run.at = "line" /\ run'.at = "file" /\ DropLine
      BY <2>1, <2>2 DEF DropLine
    <2>3. CASE run.at \in {"file", "unlink", "aside", "move"} /\ UNCHANGED hline
               /\ run'.at \in {"unlink", "aside", "move", "digest"}
      BY <2>1, <2>3
    <2>4. CASE run.at = "digest" /\ run'.at \in {"destroy", "clone"} /\ DropDigest
      BY <2>1, <2>4 DEF DropDigest
    <2> QED
      BY <1>18, DropHyprMoves, <2>2, <2>3, <2>4
      DEF FileStep, hypr, UnlinkFile, ClearAside, MoveAside
  <1>19. CASE Destroy \/ RemoveRoot \/ DropClone
    BY <1>19 DEF Destroy, Drops, Removes, hypr, GoesOn, RunType, RemoveRoot, DropClone
  <1>20. CASE RemoveDone
    <2>1. parts = {} /\ ~hline /\ hdigest = 0 /\ clone # "ours"
      BY <1>20 DEF RemoveDone, Drops, UserParts
    <2>2. run'.at = "none" /\ run'.who = "none"
      BY <1>20, RestType DEF RemoveDone
    <2>3. parts' = parts /\ hline' = hline /\ hdigest' = hdigest /\ clone' = clone
      BY <1>20 DEF RemoveDone, hypr, lasting
    <2> QED
      BY <2>1, <2>2, <2>3
  <1>21. CASE RemoveFails
    BY <1>21, RestType DEF RemoveFails, Removes, hypr, RunType
  <1>22. CASE Killed
    BY <1>22, RestType DEF Killed, Free, At, Installs, hypr, DropPlan, RunType, NoPlan
  <1>23. CASE Applies \/ StartListener \/ SwitchBlock
    BY <1>23 DEF Applies, hypr, history, RunType, StartListener, beside, Removes,
         SwitchBlock
  <1>24. CASE Edit
    <2>1. parts' = parts /\ hline' = hline /\ hdigest' = hdigest /\ clone' = clone
          /\ run' = run /\ removed' = removed
      BY <1>24 DEF Edit, beside, hypr, EditFile, DeleteFile
    <2> QED
      BY <2>1
  <1>25. CASE Update \/ UNCHANGED svars
    BY <1>25 DEF Update, Free, hypr, lasting, history, RunType, svars
  <1> QED
    BY <1>1, <1>2, <1>3, <1>4, <1>5, <1>6, <1>7, <1>8, <1>9, <1>10, <1>11, <1>12, <1>13,
       <1>14, <1>15, <1>16, <1>17, <1>18, <1>19, <1>20, <1>21, <1>22, <1>23, <1>24, <1>25 DEF
       Next, Installing, Removing

\* Types of the Hyprland file.
LEMMA HyprTypesNext ==
  ASSUME PathInv, HyprTypes, [Next]_svars
  PROVE  HyprTypes'
  <1> USE HyprAssumption DEF PathInv, HyprTypes, Installs, Removes
  <1>1. CASE BeginCore
    BY <1>1, BeginsType DEF BeginCore, Free, CoreRests, CoreRetries, standing, hypr, RunType,
       Versions, NoPlan, Whos, Ats
  <1>2. CASE NameCore
    BY <1>2 DEF NameCore, Free, CoreRests, CoreRetries, standing, hypr, RunType,
         Versions, NoPlan
  <1>3. CASE BeginSetup
    BY <1>3, BeginsType DEF BeginSetup, Free, standing, hypr, RunType, Versions, NoPlan, Whos, Ats
  <1>4. CASE BeginRemove
    BY <1>4, BeginsType DEF BeginRemove, Free, standing, hypr, RunType, Versions, NoPlan, Whos, Ats
  <1>5. CASE InstallRoot \/ InstallRootFails
    BY <1>5 DEF InstallRoot, At, around, hypr, GoesOn, RunType, Versions, NoPlan,
         InstallRootFails
  <1>6. CASE InstallPart
    BY <1>6, NextAt DEF InstallPart, Installs, around, hypr, UserParts, GoesOn, RunType,
       Versions, NoPlan
  <1>7. CASE InstallPartFails
    BY <1>7, NextAt DEF InstallPartFails, Installs, around, hypr, UserParts, FailsTo, RunType,
       Versions, NoPlan
  <1>8. CASE InstallHypr
    <2>0. Installs' <=> Installs
      BY <1>8 DEF InstallHypr, GoesOn, RunType
    <2>1. CASE run.at = "hypr" /\ UNCHANGED hypr /\ GoesOn("entries")
      BY <1>8, <2>1 DEF InstallHypr, around, hypr
    <2>2. CASE run.at = "hypr" /\ PlanHypr /\ GoesOn("file")
      <3>1. hplan' \in [file : BOOLEAN, digest : {0} \union Versions, line : BOOLEAN]
        <4> DEFINE fresh == hfile # version /\ ~WasEdited
                   was == IF fresh \/ (hdigest = 0 /\ hfile = version) THEN version ELSE hdigest
        <4>1. hplan' = [file |-> fresh, line |-> ~hline, digest |-> was]
          BY <2>2 DEF PlanHypr
        <4>2. fresh \in BOOLEAN /\ (~hline) \in BOOLEAN /\ was \in {0} \union Versions
          OBVIOUS
        <4> HIDE DEF fresh, was
        <4> QED
          BY <4>1, <4>2
      <3>2. run'.at = "file" /\ Installs'
        BY <1>8, <2>0, <2>2 DEF InstallHypr, GoesOn, RunType
      <3> QED
        BY <1>8, <2>2, <3>1, <3>2 DEF InstallHypr, PlanHypr, around
    <2>3. CASE run.at = "file" /\ WriteFile /\ GoesOn("digest")
      BY <1>8, <2>3 DEF InstallHypr, WriteFile, around
    <2>4. CASE run.at = "digest" /\ WriteDigest /\ GoesOn("line")
      BY <1>8, <2>4 DEF InstallHypr, WriteDigest, around
    <2>5. CASE run.at = "line" /\ WriteLine /\ GoesOn("entries")
      BY <1>8, <2>5 DEF InstallHypr, WriteLine, NoPlan, around
    <2> QED
      BY <1>8, <2>1, <2>2, <2>3, <2>4, <2>5 DEF InstallHypr
  <1>9. CASE InstallHyprFails
    BY <1>9 DEF InstallHyprFails, Installs, around, DropPlan, FailsTo, RunType, NoPlan, Versions
  <1>10. CASE InstallClone
    BY <1>10 DEF InstallClone, At, around, hypr, GoesOn, RunType, Versions, NoPlan
  <1>11. CASE InstallCloneFails
    BY <1>11 DEF InstallCloneFails, At, around, hypr, FailsTo, RunType, Versions, NoPlan
  <1>12. CASE Rescan
    BY <1>12 DEF Rescan, At, around, hypr, GoesOn, FailsTo, RunType, Versions, NoPlan
  <1>13. CASE Finish
    BY <1>13, RestType DEF Finish, At, hypr, Verdict, RunType, Versions, NoPlan
  <1>14. CASE FinishFails
    BY <1>14, RestType DEF FinishFails, At, hypr, Verdict, RunType, Versions, NoPlan
  <1>15. CASE StopListener \/ DropPart \/ Flush \/ DropHypr
    BY <1>15 DEF StopListener, Drops, Removes, removing, hypr, GoesOn, RunType,
         Versions, NoPlan, DropPart, UserParts, Flush, DropHypr, DropLine, DropFile, FileStep,
            UnlinkFile, ClearAside, MoveAside,
         DropDigest
  <1>16. CASE Destroy \/ RemoveRoot \/ DropClone
    BY <1>16 DEF Destroy, Drops, Removes, removing, hypr, GoesOn, RunType, Versions,
         NoPlan, RemoveRoot, DropClone
  <1>17. CASE RemoveDone
    BY <1>17, RestType DEF RemoveDone, Drops, Removes, removing, hypr, RunType, Versions, NoPlan
  <1>18. CASE RemoveFails
    BY <1>18, RestType DEF RemoveFails, Removes, removing, hypr, RunType, Versions, NoPlan
  <1>19. CASE Killed
    <2>1. version' = version /\ run'.who = "none"
      BY <1>19, RestType DEF Killed
    <2>2. CASE Installs /\ run.at \in {"file", "digest", "line"}
      <3>1. hplan' = NoPlan /\ hfile' = hfile /\ hdigest' = hdigest
            /\ hbackup' = hbackup /\ edit' = edit
        BY <1>19, <2>2 DEF Killed, DropPlan
      <3>2. NoPlan \in [file : BOOLEAN, digest : {0} \union Versions, line : BOOLEAN] /\ ~NoPlan.file
        BY DEF NoPlan
      <3> QED
        BY <2>1, <3>1, <3>2
    <2>3. CASE ~(Installs /\ run.at \in {"file", "digest", "line"})
      BY <1>19, <2>1, <2>3 DEF Killed, hypr
    <2> QED
      BY <2>2, <2>3
  <1>20. CASE Applies \/ StartListener \/ SwitchBlock
    BY <1>20 DEF Applies, hypr, RunType, Versions, NoPlan, StartListener, beside,
         Removes, SwitchBlock
  <1>21. CASE Edit
    <2>1. version' = version /\ run' = run /\ hplan' = hplan /\ hdigest' = hdigest
      BY <1>21 DEF Edit, beside, hypr, EditFile, DeleteFile
    <2>2. hfile' \in {hfile, Edited, NoFile} /\ hbackup' \in {hbackup, Older}
          /\ edit' \in {edit, "none", "stands", "overtaken"}
      BY <1>21 DEF Edit, hypr, EditFile, DeleteFile
    <2> QED
      BY <2>1, <2>2
  <1>22. CASE Update \/ UNCHANGED svars
    BY <1>22 DEF Update, Free, hypr, RunType, Versions, NoPlan, svars
  <1> QED
    BY <1>1, <1>2, <1>3, <1>4, <1>5, <1>6, <1>7, <1>8, <1>9, <1>10, <1>11, <1>12, <1>13,
       <1>14, <1>15, <1>16, <1>17, <1>18, <1>19, <1>20, <1>21, <1>22 DEF Next, Installing,
       Removing

\* The record and the edit.
LEMMA FileNext ==
  ASSUME PathInv, HyprTypes, FileInv, [Next]_svars
  PROVE  FileInv'
  <1> USE HyprAssumption DEF PathInv, HyprTypes, Installs, Removes, FileInv, NoFile, Edited, Versions
  <1>1. CASE BeginCore
    BY <1>1, BeginsType DEF BeginCore, Free, CoreRests, CoreRetries, Write, Mark, standing,
       hypr, RunType, Versions, NoPlan, Whos, Ats
  <1>2. CASE NameCore
    BY <1>2 DEF NameCore, Free, CoreRests, CoreRetries, Write, Mark, standing, hypr,
         RunType, Versions, NoPlan
  <1>3. CASE BeginSetup
    BY <1>3, BeginsType DEF BeginSetup, Free, standing, hypr, RunType, Versions, NoPlan, Whos, Ats
  <1>4. CASE BeginRemove
    BY <1>4, BeginsType DEF BeginRemove, Free, standing, Mark, hypr, RunType, Versions,
       NoPlan, Whos, Ats
  <1>5. CASE InstallRoot \/ InstallRootFails
    BY <1>5 DEF InstallRoot, At, around, hypr, GoesOn, RunType, Versions, NoPlan,
         InstallRootFails
  <1>6. CASE InstallPart
    BY <1>6, NextAt DEF InstallPart, Installs, around, hypr, UserParts, GoesOn, RunType,
       Versions, NoPlan
  <1>7. CASE InstallPartFails
    BY <1>7, NextAt DEF InstallPartFails, Installs, around, hypr, UserParts, FailsTo, RunType,
       Versions, NoPlan
  <1>8. CASE InstallHypr
    <2>1. CASE run.at = "hypr" /\ UNCHANGED hypr /\ GoesOn("entries")
      BY <1>8, <2>1 DEF InstallHypr, around, hypr, GoesOn, RunType
    <2>2. CASE run.at = "hypr" /\ PlanHypr /\ GoesOn("file")
      <3>1. /\ Installs' /\ run'.at = "file" /\ marks' = marks /\ version' = version
            /\ hfile' = hfile /\ hdigest' = hdigest /\ hbackup' = hbackup /\ edit' = edit
        BY <1>8, <2>2 DEF InstallHypr, PlanHypr, around, GoesOn, RunType
      <3>2. hplan'.file => hfile # version /\ ~WasEdited /\ hplan'.digest = version
        BY <2>2 DEF PlanHypr
      <3>3. ~hplan'.file /\ hfile \in Versions /\ hfile = hdigest => hplan'.digest = hfile
        BY <2>2 DEF PlanHypr, WasEdited
      <3>4. hplan'.file => hfile # Edited
        BY <3>2 DEF WasEdited
      <3> QED
        BY <1>8, <2>2, <3>1, <3>2, <3>3, <3>4
    <2>3. CASE run.at = "file" /\ WriteFile /\ GoesOn("digest")
      BY <1>8, <2>3 DEF InstallHypr, WriteFile, around, GoesOn, RunType
    <2>4. CASE run.at = "digest" /\ WriteDigest /\ GoesOn("line")
      BY <1>8, <2>4 DEF InstallHypr, WriteDigest, around, GoesOn, RunType
    <2>5. CASE run.at = "line" /\ WriteLine /\ GoesOn("entries")
      BY <1>8, <2>5 DEF InstallHypr, WriteLine, NoPlan, around, GoesOn, RunType
    <2> QED
      BY <1>8, <2>1, <2>2, <2>3, <2>4, <2>5 DEF InstallHypr
  <1>9. CASE InstallHyprFails
    BY <1>9 DEF InstallHyprFails, Installs, around, DropPlan, Mark, FailsTo, RunType, NoPlan,
       Versions
  <1>10. CASE InstallClone
    BY <1>10 DEF InstallClone, At, around, hypr, GoesOn, RunType, Versions, NoPlan
  <1>11. CASE InstallCloneFails
    BY <1>11 DEF InstallCloneFails, At, around, hypr, FailsTo, RunType, Versions, NoPlan
  <1>12. CASE Rescan
    BY <1>12 DEF Rescan, At, around, hypr, GoesOn, FailsTo, RunType, Versions, NoPlan
  <1>13. CASE Finish
    BY <1>13, RestType DEF Finish, At, Write, Mark, hypr, Verdict, RunType, Versions, NoPlan
  <1>14. CASE FinishFails
    BY <1>14, RestType DEF FinishFails, At, hypr, Verdict, RunType, Versions, NoPlan
  <1>15. CASE StopListener
    BY <1>15 DEF StopListener, Drops, Removes, removing, hypr, GoesOn, RunType, Versions, NoPlan
  <1>16. CASE DropPart
    BY <1>16 DEF DropPart, Removes, removing, hypr, UserParts, GoesOn, RunType, Versions, NoPlan
  <1>17. CASE Flush
    BY <1>17 DEF Flush, Drops, Removes, removing, hypr, GoesOn, RunType, Versions, NoPlan
  <1>18. CASE DropHypr
    <2>1. /\ Removes /\ Removes' /\ version' = version /\ marks' = marks /\ ~hplan.file
          /\ ~Installs /\ ~Installs'
      BY <1>18, DropHyprMoves DEF DropHypr, removing
    <2>2. CASE run.at = "line" /\ run'.at = "file" /\ DropLine
      BY <2>1, <2>2 DEF DropLine
    <2>3. CASE run.at = "file" /\ run'.at = FileStep /\ UNCHANGED hypr
      BY <2>1, <2>3 DEF FileStep, hypr
    <2>4. CASE run.at = "unlink" /\ run'.at = "digest" /\ UnlinkFile
      BY <2>1, <2>4 DEF UnlinkFile
    <2>5. CASE run.at = "aside" /\ run'.at = "move" /\ ClearAside
      BY <2>1, <2>5 DEF ClearAside
    <2>6. CASE run.at = "move" /\ run'.at = "digest" /\ MoveAside
      BY <2>1, <2>6 DEF MoveAside
    <2>7. CASE run.at = "digest" /\ run'.at \in {"destroy", "clone"} /\ DropDigest
      BY <2>1, <2>7 DEF DropDigest
    <2> QED
      BY <1>18, DropHyprMoves, <2>2, <2>3, <2>4, <2>5, <2>6, <2>7
  <1>19. CASE Destroy \/ RemoveRoot \/ DropClone
    BY <1>19 DEF Destroy, Drops, Removes, removing, hypr, GoesOn, RunType, Versions,
         NoPlan, RemoveRoot, DropClone
  <1>20. CASE RemoveDone
    BY <1>20, RestType DEF RemoveDone, Drops, Removes, removing, hypr, RunType, Versions, NoPlan
  <1>21. CASE RemoveFails
    BY <1>21, RestType DEF RemoveFails, Removes, removing, hypr, Mark, RunType, Versions, NoPlan
  <1>22. CASE Killed
    BY <1>22, RestType DEF Killed, Free, At, Installs, hypr, DropPlan, Mark, RunType, NoPlan,
       Versions
  <1>23. CASE Applies \/ StartListener \/ SwitchBlock
    BY <1>23 DEF Applies, hypr, history, RunType, Versions, NoPlan, StartListener,
         beside, Removes, During, Mark, SwitchBlock
  <1>24. CASE Edit
    <2>1. version' = version /\ run' = run /\ hplan' = hplan /\ hdigest' = hdigest /\ marks' = marks
      BY <1>24 DEF Edit, beside, hypr, EditFile, DeleteFile
    <2>2. CASE EditFile(hplan.file \/ run.at = "unlink")
      <3>1. hfile' = Edited /\ (edit' = "stands" => ~hplan.file /\ run.at # "unlink")
        BY <2>2 DEF EditFile
      <3> QED
        BY <2>1, <3>1
    <2>3. CASE DeleteFile
      BY <2>1, <2>3 DEF DeleteFile
    <2>4. CASE UNCHANGED hypr
      BY <2>1, <2>4 DEF hypr
    <2> QED
      BY <1>24, <2>2, <2>3, <2>4 DEF Edit
  <1>25. CASE Update \/ UNCHANGED svars
    BY <1>25 DEF Update, Free, hypr, history, RunType, Versions, NoPlan, svars
  <1> QED
    BY <1>1, <1>2, <1>3, <1>4, <1>5, <1>6, <1>7, <1>8, <1>9, <1>10, <1>11, <1>12, <1>13,
       <1>14, <1>15, <1>16, <1>17, <1>18, <1>19, <1>20, <1>21, <1>22, <1>23, <1>24, <1>25 DEF
       Next, Installing, Removing

\* What is ok is in place.
LEMMA OkNext ==
  ASSUME PathInv, Shape, OkInv, [Next]_svars
  PROVE  OkInv'
  <1> USE DEF PathInv, Shape, OkInv, UserParts, Installs, Removes
  <1>1. CASE BeginCore
    BY <1>1, BeginsType DEF BeginCore, Free, CoreRests, CoreRetries, Write, standing, lasting,
       RunType, Whos, Ats
  <1>2. CASE NameCore
    BY <1>2 DEF NameCore, Free, CoreRests, CoreRetries, Write, standing, lasting,
         RunType
  <1>3. CASE BeginSetup
    <2>1. Begins("setup", "root") \/ Begins("setup", "slice")
      BY <1>3 DEF BeginSetup
    <2>2. outcome' = outcome
      BY <1>3 DEF BeginSetup, record
    <2> QED
      BY <2>1, <2>2, BeginsType, BeginsRetry DEF Whos, Ats
  <1>4. CASE BeginRemove
    BY <1>4, BeginsType DEF BeginRemove, Free, standing, record, lasting, RunType, Whos, Ats
  <1>5. CASE InstallRoot \/ InstallRootFails
    BY <1>5 DEF InstallRoot, At, around, record, GoesOn, RunType, InstallRootFails
  <1>6. CASE InstallPart
    <2>1. run.at \in UserParts /\ parts' = parts \union {run.at} /\ outcome' = outcome /\ clone' = clone
      BY <1>6 DEF InstallPart, around, record
    <2>2. run'.who = run.who /\ run'.ok = run.ok /\ run'.retry = run.retry /\ run'.at = Next_(run.at)
      BY <1>6, <2>1, NextAt DEF InstallPart, GoesOn, RunType
    <2>3. CASE run.at = "slice"
      BY <2>1, <2>2, <2>3 DEF Next_
    <2>4. CASE run.at = "hook"
      BY <2>1, <2>2, <2>4 DEF Next_
    <2>5. CASE run.at = "entries"
      BY <2>1, <2>2, <2>5 DEF Next_
    <2> QED
      BY <2>1, <2>3, <2>4, <2>5
  <1>7. CASE InstallPartFails
    BY <1>7, NextAt DEF InstallPartFails, Installs, around, record, UserParts, FailsTo, RunType
  <1>8. CASE InstallHypr
    BY <1>8 DEF InstallHypr, Installs, around, record, lasting, GoesOn, RunType
  <1>9. CASE InstallHyprFails
    BY <1>9 DEF InstallHyprFails, Installs, around, record, lasting, DropPlan, FailsTo, RunType
  <1>10. CASE InstallClone
    BY <1>10 DEF InstallClone, At, around, record, GoesOn, RunType
  <1>11. CASE InstallCloneFails
    BY <1>11 DEF InstallCloneFails, At, around, record, FailsTo, RunType
  <1>12. CASE Rescan
    BY <1>12 DEF Rescan, At, around, record, lasting, GoesOn, FailsTo, RunType
  <1>13. CASE Finish
    BY <1>13, RestType DEF Finish, At, Write, lasting, record, Verdict, RunType
  <1>14. CASE FinishFails
    BY <1>14, RestType DEF FinishFails, At, lasting, Verdict, RunType
  <1>15. CASE StopListener
    BY <1>15 DEF StopListener, Drops, Removes, removing, record, lasting, GoesOn, RunType
  <1>16. CASE DropPart
    BY <1>16 DEF DropPart, Removes, removing, record, UserParts, GoesOn, RunType
  <1>17. CASE Flush
    BY <1>17 DEF Flush, Drops, Removes, removing, record, GoesOn, RunType
  <1>18. CASE DropHypr
    BY <1>18, DropHyprMoves DEF DropHypr, removing, record, lasting
  <1>19. CASE Destroy \/ RemoveRoot \/ DropClone
    BY <1>19 DEF Destroy, Drops, Removes, removing, record, GoesOn, RunType, RemoveRoot,
         DropClone
  <1>20. CASE RemoveDone
    BY <1>20, RestType DEF RemoveDone, Drops, Removes, removing, record, lasting, RunType
  <1>21. CASE RemoveFails
    BY <1>21, RestType DEF RemoveFails, Removes, removing, record, RunType
  <1>22. CASE Killed
    BY <1>22, RestType DEF Killed, Free, At, Installs, record, DropPlan, RunType
  <1>23. CASE Applies \/ StartListener \/ SwitchBlock \/ Edit
    BY <1>23 DEF Applies, record, RunType, StartListener, beside, Removes, SwitchBlock,
         Edit
  <1>24. CASE Update \/ UNCHANGED svars
    BY <1>24 DEF Update, Free, record, lasting, RunType, svars
  <1> QED
    BY <1>1, <1>2, <1>3, <1>4, <1>5, <1>6, <1>7, <1>8, <1>9, <1>10, <1>11, <1>12, <1>13,
       <1>14, <1>15, <1>16, <1>17, <1>18, <1>19, <1>20, <1>21, <1>22, <1>23, <1>24 DEF Next,
       Installing, Removing

\* Types of the sets.
LEMMA SetTypesNext ==
  ASSUME version \in Versions, SetTypes, [Next]_svars
  PROVE  SetTypes'
  <1> USE HyprAssumption DEF SetTypes, Outcomes, RootFiles
  <1>1. CASE BeginCore
    <2>1. Write("running")
      BY <1>1 DEF BeginCore
    <2>2. /\ outcome' \in Outcomes /\ recorded' \in {0} \union Versions
          /\ marks' \subseteq {"unrecorded", "cut", "torn", "joined"}
      BY <2>1, WriteMakes
    <2>3. UNCHANGED <<answers, clone, root, table>>
      BY <1>1 DEF BeginCore, standing, config, lasting
    <2> QED
      BY <2>2, <2>3
  <1>2. CASE NameCore
    <2>1. Write("existing") \/ Write("removed")
      BY <1>2 DEF NameCore
    <2>2. /\ outcome' \in Outcomes /\ recorded' \in {0} \union Versions
          /\ marks' \subseteq {"unrecorded", "cut", "torn", "joined"}
      BY <2>1, WriteMakes
    <2>3. UNCHANGED <<answers, clone, root, table>>
      BY <1>2 DEF NameCore, standing, config, lasting
    <2> QED
      BY <2>2, <2>3
  <1>3. CASE BeginSetup \/ BeginRemove \/ InstallRoot \/ InstallRootFails
    BY <1>3 DEF BeginSetup, Free, standing, record, lasting, Verdict, BeginRemove,
         config, Mark, InstallRoot, At, around, RootFiles, InstallRootFails
  <1>4. CASE InstallPart \/ InstallPartFails \/ InstallHypr \/ InstallHyprFails
    BY <1>4 DEF InstallPart, Installs, around, record, config, Verdict,
         InstallPartFails, InstallHypr, lasting, InstallHyprFails, DropPlan, Mark
  <1>5. CASE InstallClone \/ InstallCloneFails \/ Rescan \/ Finish
    BY <1>5 DEF InstallClone, At, around, record, config, Verdict, InstallCloneFails,
         Rescan, lasting, Finish, Write, Mark
  <1>6. CASE FinishFails \/ StopListener \/ DropPart \/ Flush
    BY <1>6 DEF FinishFails, At, config, lasting, Verdict, StopListener, Drops, Removes,
         removing, record, DropPart, Flush
  <1>7. CASE DropHypr \/ Destroy \/ RemoveRoot \/ DropClone
    BY <1>7 DEF DropHypr, Removes, removing, record, config, lasting, Verdict, Destroy,
         Drops, RemoveRoot, DropClone
  <1>8. CASE RemoveDone \/ RemoveFails \/ Killed \/ Applies
    BY <1>8 DEF RemoveDone, Drops, Removes, removing, record, config, lasting, Verdict,
         RemoveFails, Mark, Killed, Free, At, Installs, DropPlan, Applies, history
  <1>9. CASE StartListener \/ SwitchBlock \/ Edit \/ Update
    BY <1>9 DEF StartListener, beside, config, record, Removes, During, Mark, Verdict,
         SwitchBlock, RootFiles, Edit, Update, Free, lasting, history
  <1>10. CASE UNCHANGED svars
    BY <1>10 DEF svars, record, config, lasting, history
  <1> QED
    BY <1>1, <1>2, <1>3, <1>4, <1>5, <1>6, <1>7, <1>8, <1>9, <1>10 DEF Next, Installing, Removing

\* Types of the flags.
LEMMA FlagTypesNext ==
  ASSUME FlagTypes, [Next]_svars
  PROVE  FlagTypes'
  <1> USE DEF FlagTypes
  <1>1. CASE BeginCore \/ NameCore \/ BeginSetup \/ BeginRemove
    BY <1>1 DEF BeginCore, Free, CoreRests, CoreRetries, standing, config, hypr, Begins,
         NameCore, BeginSetup, BeginRemove
  <1>2. CASE InstallRoot \/ InstallRootFails \/ InstallPart \/ InstallPartFails
    BY <1>2 DEF InstallRoot, At, around, config, hypr, Begins, InstallRootFails,
         InstallPart, Installs, InstallPartFails
  <1>3. CASE InstallHypr \/ InstallHyprFails \/ InstallClone \/ InstallCloneFails
    BY <1>3 DEF InstallHypr, Installs, around, config, hypr, PlanHypr, WriteFile,
         WriteDigest, WriteLine, NoPlan, Begins, InstallHyprFails, DropPlan,
         InstallClone, At, InstallCloneFails
  <1>4. CASE Rescan \/ Finish \/ FinishFails \/ StopListener
    BY <1>4 DEF Rescan, At, around, config, hypr, Begins, Finish, Verdict, FinishFails,
         StopListener, Drops, Removes, removing
  <1>5. CASE DropPart \/ Flush \/ DropHypr \/ Destroy
    BY <1>5 DEF DropPart, Removes, removing, config, hypr, Begins, Flush, Drops,
         DropHypr, DropLine, DropFile, FileStep,
            UnlinkFile, ClearAside, MoveAside, DropDigest, Destroy
  <1>6. CASE RemoveRoot \/ DropClone \/ RemoveDone \/ RemoveFails
    BY <1>6 DEF RemoveRoot, Drops, Removes, removing, config, hypr, Begins, DropClone,
         RemoveDone, RemoveFails
  <1>7. CASE Killed \/ Applies \/ StartListener \/ SwitchBlock
    BY <1>7 DEF Killed, Free, At, Installs, config, hypr, DropPlan, NoPlan, Begins,
         Applies, history, StartListener, beside, Removes, SwitchBlock
  <1>8. CASE Edit \/ Update \/ UNCHANGED svars
    BY <1>8 DEF Edit, beside, config, hypr, EditFile, DeleteFile, Begins, Update, Free,
         history, svars
  <1> QED
    BY <1>1, <1>2, <1>3, <1>4, <1>5, <1>6, <1>7, <1>8 DEF Next, Installing, Removing

\* Type of what was spent.
LEMMA SpentTypeNext ==
  ASSUME SpentType, [Next]_svars
  PROVE  SpentType'
  <1> USE SpendType DEF SpentType, Bounds
  <1>1. CASE BeginCore
    BY <1>1, WriteSpent DEF BeginCore
  <1>2. CASE NameCore
    BY <1>2, WriteSpent DEF NameCore
  <1>3. CASE BeginSetup \/ BeginRemove \/ InstallRoot \/ InstallRootFails
    BY <1>3 DEF BeginSetup, Free, BeginRemove, InstallRoot, At, InstallRootFails
  <1>4. CASE InstallPart \/ InstallPartFails \/ InstallHypr \/ InstallHyprFails
    BY <1>4 DEF InstallPart, Installs, InstallPartFails, InstallHypr, InstallHyprFails,
         DropPlan
  <1>5. CASE InstallClone \/ InstallCloneFails \/ Rescan
    BY <1>5 DEF InstallClone, At, InstallCloneFails, Rescan
  <1>6. CASE Finish
    BY <1>6, WriteSpent DEF Finish
  <1>7. CASE FinishFails \/ StopListener \/ DropPart \/ Flush
    BY <1>7 DEF FinishFails, At, Verdict, StopListener, Drops, Removes, DropPart, Flush
  <1>8. CASE DropHypr \/ Destroy \/ RemoveRoot \/ DropClone
    BY <1>8 DEF DropHypr, Removes, Destroy, Drops, RemoveRoot, DropClone
  <1>9. CASE RemoveDone \/ RemoveFails \/ Killed \/ Applies
    BY <1>9 DEF RemoveDone, Drops, Removes, RemoveFails, Killed, Free, At, Installs,
         DropPlan, Applies
  <1>10. CASE StartListener \/ SwitchBlock \/ Edit \/ Update
    BY <1>10 DEF StartListener, Removes, SwitchBlock, Edit, Update, Free
  <1>11. CASE UNCHANGED svars
    BY <1>11 DEF svars
  <1> QED
    BY <1>1, <1>2, <1>3, <1>4, <1>5, <1>6, <1>7, <1>8, <1>9, <1>10, <1>11 DEF Next,
       Installing, Removing

\* No step adds anything after a remove.
LEMMA StandStep ==
  ASSUME PathInv, StandInv, [Next]_svars, gone, gone', "unrecorded" \notin marks'
  PROVE  /\ parts' \subseteq parts /\ (hline' => hline) /\ hdigest' \in {hdigest, 0}
         /\ (clone' # clone => clone' = "none")
  <1> USE DEF StandInv, PathInv
  <1>1. CASE BeginCore \/ NameCore \/ BeginSetup \/ BeginRemove
    BY <1>1 DEF BeginCore, Free, CoreRests, CoreRetries, Write, Mark, standing, hypr,
         lasting, NameCore, BeginSetup, record, BeginRemove
  <1>2. CASE InstallRoot \/ InstallRootFails \/ InstallPart \/ InstallPartFails
    BY <1>2 DEF InstallRoot, At, around, record, hypr, Mark, InstallRootFails,
         InstallPart, Installs, UserParts, InstallPartFails
  <1>3. CASE InstallHypr \/ InstallHyprFails \/ InstallClone \/ InstallCloneFails
    BY <1>3 DEF InstallHypr, Installs, around, record, lasting, hypr, PlanHypr,
         WasEdited, WriteFile, WriteDigest, WriteLine, NoPlan, Mark, InstallHyprFails,
         DropPlan, InstallClone, At, InstallCloneFails
  <1>4. CASE Rescan \/ Finish \/ FinishFails \/ StopListener
    BY <1>4 DEF Rescan, At, around, record, hypr, lasting, Mark, Finish, Write, Verdict,
         FinishFails, StopListener, Drops, Removes, removing
  <1>5. CASE DropPart \/ Flush \/ DropHypr \/ Destroy
    BY <1>5 DEF DropPart, Removes, removing, record, hypr, UserParts, Mark, Flush,
         Drops, DropHypr, lasting, DropLine, DropFile, FileStep,
            UnlinkFile, ClearAside, MoveAside, DropDigest, Destroy
  <1>6. CASE RemoveRoot
    BY <1>6 DEF RemoveRoot, Drops, Removes, removing, record, hypr, Mark
  <1>7. CASE DropClone
    BY <1>7 DEF DropClone, Drops, Removes, removing, record, hypr, Mark
  <1>8. CASE RemoveDone
    BY <1>8 DEF RemoveDone, Drops, Removes, removing, record, hypr, lasting, Mark
  <1>9. CASE RemoveFails
    BY <1>9 DEF RemoveFails, Removes, removing, record, hypr, Mark
  <1>10. CASE Killed \/ Applies \/ StartListener \/ SwitchBlock
    BY <1>10 DEF Killed, Free, At, Installs, hypr, record, DropPlan, Mark, NoPlan,
         Applies, history, StartListener, beside, Removes, During, SwitchBlock
  <1>11. CASE Edit \/ Update \/ UNCHANGED svars
    BY <1>11 DEF Edit, beside, record, hypr, EditFile, DeleteFile, Mark, Update, Free,
         lasting, history, svars
  <1> QED
    BY <1>1, <1>2, <1>3, <1>4, <1>5, <1>6, <1>7, <1>8, <1>9, <1>10, <1>11 DEF Next,
       Installing, Removing

\* Only a run that is ok records that it is.
LEMMA WorkStep ==
  ASSUME PathInv, Shape, OkInv, [Next]_svars, outcome # outcome',
         outcome' = "ok" \/ (outcome \in {"failed", "running"} /\ outcome' = "setup")
  PROVE  parts = UserParts /\ clone # "none" /\ listener'
  <1> USE DEF OkInv, Shape, PathInv, Installs
  <1>1. CASE BeginCore
    <2>1. outcome' \in {"running", outcome}
      BY <1>1, WriteMakes DEF BeginCore
    <2> QED
      BY <2>1
  <1>2. CASE NameCore
    <2>1. outcome' \in {"existing", "removed", outcome}
      BY <1>2, WriteMakes DEF NameCore
    <2> QED
      BY <2>1
  <1>3. CASE BeginSetup \/ BeginRemove \/ InstallRoot \/ InstallRootFails
    BY <1>3 DEF BeginSetup, Free, standing, record, lasting, Verdict, BeginRemove,
         InstallRoot, At, around, InstallRootFails
  <1>4. CASE InstallPart \/ InstallPartFails \/ InstallHypr \/ InstallHyprFails
    BY <1>4 DEF InstallPart, Installs, around, record, UserParts, Verdict,
         InstallPartFails, InstallHypr, lasting, InstallHyprFails, DropPlan
  <1>5. CASE InstallClone \/ InstallCloneFails \/ Rescan
    BY <1>5 DEF InstallClone, At, around, record, Verdict, InstallCloneFails, Rescan,
         lasting
  <1>6. CASE Finish
    <2>1. Installs /\ run.at = "start" /\ outcome' = Verdict(run.ok)
      BY <1>6, WriteMakes DEF Finish, At
    <2>2. run.ok
      BY <2>1 DEF Verdict
    <2>3. listener'
      BY <1>6, <2>1 DEF Finish, Verdict
    <2>4. parts = UserParts
      BY <2>1, <2>2 DEF UserParts
    <2>5. clone # "none"
      BY <2>1, <2>2
    <2> QED
      BY <2>3, <2>4, <2>5
  <1>7. CASE FinishFails \/ StopListener \/ DropPart \/ Flush
    BY <1>7 DEF FinishFails, At, lasting, Verdict, StopListener, Drops, Removes,
         removing, record, DropPart, UserParts, Flush
  <1>8. CASE DropHypr \/ Destroy \/ RemoveRoot \/ DropClone
    BY <1>8 DEF DropHypr, Removes, removing, record, lasting, Verdict, Destroy, Drops,
         RemoveRoot, DropClone
  <1>9. CASE RemoveDone \/ RemoveFails \/ Killed \/ Applies
    BY <1>9 DEF RemoveDone, Drops, Removes, removing, record, lasting, Verdict,
         RemoveFails, Killed, Free, At, Installs, DropPlan, Applies
  <1>10. CASE StartListener \/ SwitchBlock \/ Edit \/ Update
    BY <1>10 DEF StartListener, beside, record, Removes, Verdict, SwitchBlock, Edit,
         Update, Free, lasting
  <1>11. CASE UNCHANGED svars
    BY <1>11 DEF svars, record, lasting
  <1> QED
    BY <1>1, <1>2, <1>3, <1>4, <1>5, <1>6, <1>7, <1>8, <1>9, <1>10, <1>11 DEF Next,
       Installing, Removing

-----------------------------------------------------------------------------
\* The inductive invariant.
Inv ==
  /\ PathInv /\ Shape /\ HyprTypes /\ SetTypes /\ FlagTypes /\ SpentType
  /\ OnceInv /\ StandInv /\ TableInv /\ RootInv /\ GoneInv /\ FileInv /\ OkInv

\* Initially nothing is installed and nothing runs.
LEMMA InitHolds == ASSUME Init PROVE Inv
  <1> USE DEF Init, HyprInit
  <1>1. run.who = "none" /\ run.at = "none" /\ RunType
    BY DEF Rest, RunType, Whos, Ats
  <1>2. PathInv
    BY <1>1 DEF PathInv, Installs, Removes
  <1>3. version \in Versions
    BY HyprAssumption DEF Versions
  <1>4. Shape
    BY <1>3 DEF Shape
  <1>5. HyprTypes
    <2>1. NoPlan \in [file : BOOLEAN, digest : {0} \union Versions, line : BOOLEAN] /\ ~NoPlan.file
      BY DEF NoPlan
    <2> QED
      BY <1>3, <2>1 DEF HyprTypes
  <1>6. SetTypes
    BY DEF SetTypes, Outcomes
  <1>7. FlagTypes
    BY DEF FlagTypes
  <1>8. SpentType
    BY DEF SpentType, Bounds
  <1>9. OnceInv
    BY <1>3 DEF OnceInv
  <1>10. StandInv /\ TableInv /\ RootInv /\ GoneInv /\ OkInv
    BY <1>1 DEF StandInv, TableInv, RootInv, GoneInv, OkInv, Installs, Removes
  <1>11. FileInv
    BY <1>3, HyprAssumption DEF FileInv, NoPlan, NoFile, Versions
  <1> QED
    BY <1>2, <1>4, <1>5, <1>6, <1>7, <1>8, <1>9, <1>10, <1>11 DEF Inv

\* Every step keeps the invariant.
LEMMA InvNext == ASSUME Inv, [Next]_svars PROVE Inv'
  BY PathNext, ShapeNext, HyprTypesNext, SetTypesNext, FlagTypesNext, SpentTypeNext, OnceNext,
     StandNext, TableNext, RootNext, GoneNext, FileNext, OkNext DEF Inv, HyprTypes

(***************************************************************************)
(* The invariant holds of every behaviour: every failure, kill, update and *)
(* act of the person beside a run.                                         *)
(***************************************************************************)
THEOREM SetupSafe == Spec => []Inv
  BY InitHolds, InvNext, PTL DEF Spec

(***************************************************************************)
(* Every variable keeps its type; so a run is always at a step it has.     *)
(***************************************************************************)
THEOREM SetupTypeCorrect == Spec => []TypeOK
  <1>1. ASSUME Inv PROVE TypeOK
    <2>1. HyprTypeOK
      BY <1>1, Zenon DEF Inv, HyprTypes, SetTypes, FlagTypes, HyprTypeOK
    <2> QED
      BY <1>1, <2>1, Zenon
      DEF Inv, PathInv, RunType, Whos, Ats, Bounds, Shape, SetTypes, FlagTypes, SpentType, TypeOK
  <1> QED
    BY <1>1, SetupSafe, PTL

(***************************************************************************)
(* The widget sets the core up at most once for a version, whatever fails. *)
(***************************************************************************)
THEOREM OncePerVersion == Spec => []CoreRunsOncePerVersion
  <1>1. Inv => CoreRunsOncePerVersion
    BY DEF Inv, OnceInv, CoreRunsOncePerVersion
  <1> QED
    BY <1>1, SetupSafe, PTL

(***************************************************************************)
(* A remove that says it is done leaves no part, record, helper or table.  *)
(***************************************************************************)
THEOREM NothingIsLeft == Spec => []RemovedIsGone
  <1>1. ASSUME Inv PROVE RemovedIsGone
    <2>1. SUFFICES ASSUME removed PROVE RemovedIsGone
      BY DEF RemovedIsGone
    <2>2. parts = {} /\ clone # "ours" /\ ~hline /\ hdigest = 0
      BY <1>1, <2>1 DEF Inv, GoneInv
    <2>3. run.at = "none"
      BY <1>1, <2>1 DEF Inv, GoneInv
    <2>4. hfile \in Versions => "cut" \in marks
      <3>1. SUFFICES ASSUME hfile \in Versions, "cut" \notin marks PROVE FALSE
        OBVIOUS
      <3>2. hfile = hdigest
        BY <1>1, <2>3, <3>1 DEF Inv, FileInv
      <3> QED
        BY <2>2, <3>1, <3>2, HyprAssumption DEF Versions
    <2>5. root # {} => marks \intersect {"torn", "joined"} # {}
      BY <1>1, <2>1 DEF Inv, RootInv
    <2>6. table # "none" => "joined" \in marks
      BY <1>1, <2>1 DEF Inv, TableInv
    <2> QED
      BY <2>2, <2>4, <2>5, <2>6 DEF RemovedIsGone
  <1> QED
    BY <1>1, SetupSafe, PTL

(***************************************************************************)
(* While the table blocks, the helper that can end it is there.            *)
(***************************************************************************)
THEOREM BlockCanBeEnded == Spec => []BlockHasHelper
  <1>1. Inv => BlockHasHelper
    BY DEF Inv, TableInv, BlockHasHelper
  <1> QED
    BY <1>1, SetupSafe, PTL

(***************************************************************************)
(* An edited Hyprland file stays or goes to hypr-backup.                   *)
(***************************************************************************)
THEOREM EditsAreKept == Spec => []EditedIsKept
  <1>1. Inv => EditedIsKept
    BY DEF Inv, FileInv, EditedIsKept
  <1> QED
    BY <1>1, SetupSafe, PTL

(***************************************************************************)
(* Nothing that a remove began to take comes back before a person runs     *)
(* setup.                                                                  *)
(***************************************************************************)
THEOREM RemovalIsKept == Spec => RemovalStands
  <1>1. ASSUME Inv, [Next]_svars, gone, gone', "unrecorded" \notin marks'
        PROVE  /\ parts' \subseteq parts /\ (hline' => hline) /\ hdigest' \in {hdigest, 0}
               /\ (clone' # clone => clone' = "none")
    BY <1>1, StandStep DEF Inv
  <1>2. Inv /\ [Next]_svars => [gone /\ gone' /\ "unrecorded" \notin marks' =>
          /\ parts' \subseteq parts /\ (hline' => hline) /\ hdigest' \in {hdigest, 0}
          /\ (clone' # clone => clone' = "none")]_svars
    BY <1>1
  <1> QED
    BY <1>2, SetupSafe, PTL DEF Spec, RemovalStands

(***************************************************************************)
(* A core on record as working is installed, and its listener runs.        *)
(***************************************************************************)
THEOREM WorkingIsTrue == Spec => WorkingIsRecorded
  <1>1. ASSUME Inv, [Next]_svars, outcome # outcome',
               outcome' = "ok" \/ (outcome \in {"failed", "running"} /\ outcome' = "setup")
        PROVE  parts = UserParts /\ clone # "none" /\ listener'
    BY <1>1, WorkStep DEF Inv
  <1>2. Inv /\ [Next]_svars =>
          [outcome # outcome' /\ (outcome' = "ok" \/ (outcome \in {"failed", "running"} /\ outcome' = "setup")) =>
             parts = UserParts /\ clone # "none" /\ listener']_svars
    BY <1>1
  <1> QED
    BY <1>2, SetupSafe, PTL DEF Spec, WorkingIsRecorded
=============================================================================
