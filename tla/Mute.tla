-------------------------------- MODULE Mute --------------------------------
(***************************************************************************)
(* The sound mute of the listener (hold.Mute): while the hold is on it     *)
(* mutes the streams of the slice and of the listed apps, one pactl call   *)
(* each, and writes muted.json when a scan ends; afterwards it unmutes     *)
(* what that record names and every muted stream of the slice.  A key on   *)
(* the WirePlumber hook's metadata mutes new streams of the slice at       *)
(* creation, with or without a listener.                                   *)
(*                                                                         *)
(* A list (pactl list) and the decisions taken from it are one step, each  *)
(* set-sink-input-mute is one.  An index gets a new stream when the job    *)
(* that read it and the events of the old one are done; an identity        *)
(* (pid:starttime) decides slice membership and listing.  pactl and the    *)
(* hook are installed.                                                     *)
(***************************************************************************)
EXTENDS Naturals, Functions

CONSTANTS
  Indices,   \* sink-input indices
  Slice,     \* identities of processes in the slice
  Listed,    \* identities the catalog attributes outside the slice
  Others,    \* identities of everything else
  None,      \* no stream, no record
  MaxFaults  \* bound on the environment's faults in one behaviour

ASSUME MuteAssumption ==
  /\ MaxFaults \in Nat
  /\ None \notin Slice \union Listed \union Others
  /\ Slice \intersect Others = {}
  /\ Listed \intersect Others = {}

Idents  == Slice \union Listed \union Others
Records == [Indices -> Idents \union {None}]
NoRecord == [i \in Indices |-> None]

VARIABLES
  stream,   \* the sink inputs
  muted,    \* the muted ones
  key,      \* the hold key is set on the hook's metadata
  file,     \* muted.json
  up,       \* the listener runs
  on,       \* the hold the listener was told last
  started,  \* sync has run once
  active,   \* Mute.active
  owned,    \* Mute.owned
  sweep,    \* a release could not list and is still owed
  tail,     \* pactl subscribe runs; its unread events:
  dirty,    \*   a new or changed sink input
  removed,  \*   the indices of the removed ones
  job,      \* the scan or release in progress
  hand,     \* history: streams the person muted
  freed,    \* history: audible streams the person unmuted since the hold began
  unsure,   \* history: mutes a fault left without a record or a sweep
  faults    \* faults so far, at most MaxFaults

server == <<stream, muted, key, hand, freed>>
events == <<tail, dirty, removed>>
memory == <<on, started, active, owned, sweep>>
vars   == <<server, events, memory, file, up, job, unsure, faults>>

NoJob == [kind |-> "none", listed |-> FALSE, todo |-> {}, kept |-> NoRecord,
          last |-> FALSE]

Jobs == [kind : {"none", "scan", "release"}, listed : BOOLEAN,
         todo : SUBSET Indices, kept : Records, last : BOOLEAN]

TypeOK ==
  /\ stream \in Records
  /\ muted \in SUBSET Indices
  /\ key \in BOOLEAN
  /\ file \in Records
  /\ up \in BOOLEAN /\ on \in BOOLEAN /\ started \in BOOLEAN
  /\ active \in BOOLEAN /\ sweep \in BOOLEAN
  /\ owned \in Records
  /\ tail \in BOOLEAN /\ dirty \in BOOLEAN
  /\ removed \in SUBSET Indices
  /\ job \in Jobs
  /\ hand \in SUBSET Indices /\ freed \in SUBSET Indices
  /\ unsure \in SUBSET Indices
  /\ faults \in 0..MaxFaults

Init ==
  /\ stream \in [Indices -> {None} \union Others]
  /\ muted = {} /\ hand = {} /\ freed = {} /\ unsure = {}
  /\ key = FALSE
  /\ file = NoRecord
  /\ up = FALSE
  /\ on = FALSE /\ started = FALSE /\ active = FALSE /\ sweep = FALSE
  /\ owned = NoRecord
  /\ tail = FALSE /\ dirty = FALSE /\ removed = {}
  /\ job = NoJob
  /\ faults = 0

Fault == faults < MaxFaults /\ faults' = faults + 1
Busy  == job.kind # "none"

(***************************************************************************)
(* The sound server, its clients and the person.                           *)
(***************************************************************************)
Noticed == dirty' = (tail \/ dirty)

StreamStarts(i) ==
  /\ stream[i] = None
  /\ i \notin removed \union job.todo
  /\ \E id \in Idents :
       /\ stream' = [stream EXCEPT ![i] = id]
       /\ LET hooked == key /\ id \in Slice
          IN /\ muted' = IF hooked THEN muted \union {i} ELSE muted
             /\ unsure' = IF hooked /\ up /\ started /\ ~active THEN unsure \union {i} ELSE unsure
  /\ Noticed
  /\ UNCHANGED <<key, hand, freed, tail, removed, memory, file, up, job, faults>>

StreamEnds(i) ==
  /\ stream[i] # None
  /\ stream' = [stream EXCEPT ![i] = None]
  /\ muted' = muted \ {i}
  /\ hand' = hand \ {i}
  /\ freed' = freed \ {i}
  /\ unsure' = unsure \ {i}
  /\ removed' = IF tail THEN removed \union {i} ELSE removed
  /\ UNCHANGED <<key, tail, dirty, memory, file, up, job, faults>>

(* The plugin takes the mute of i for its own; what a record that is about *)
(* to go or that a failed save left out of the file, or a call on its way, *)
(* makes of it is unsure.                                                  *)
Recorded(i) == stream[i] \in {owned[i], file[i]}
Claimed(i)  == IF job.listed THEN i \in job.todo \/ stream[i] = job.kept[i]
                             ELSE stream[i] = owned[i]
Unsaved(i)  == ~job.listed /\ stream[i] # file[i]

PersonMutes(i) ==
  /\ stream[i] # None
  /\ i \notin muted
  /\ muted' = muted \union {i}
  /\ hand' = IF Claimed(i) THEN hand ELSE hand \union {i}
  /\ freed' = freed \ {i}
  /\ unsure' = IF \/ i \in job.todo
                  \/ ~Claimed(i) /\ Recorded(i)
                  \/ Claimed(i) /\ Unsaved(i)
               THEN unsure \union {i} ELSE unsure
  /\ Noticed
  /\ UNCHANGED <<stream, key, tail, removed, memory, file, up, job, faults>>

PersonUnmutes(i) ==
  /\ i \in muted
  /\ muted' = muted \ {i}
  /\ hand' = hand \ {i}
  /\ freed' = IF started => active THEN freed \union {i} ELSE freed
  /\ unsure' = unsure \ {i}
  /\ Noticed
  /\ UNCHANGED <<stream, key, tail, removed, memory, file, up, job, faults>>

(* WirePlumber restarts: its metadata object comes back without the key.   *)
HookRestarts ==
  /\ key
  /\ key' = FALSE
  /\ UNCHANGED <<stream, muted, hand, freed, events, memory, file, up, job, unsure, faults>>

(***************************************************************************)
(* Mute.sync, tick, stop, and the jobs they start.                         *)
(***************************************************************************)
HoldKey(value) ==
  \/ key' = value /\ UNCHANGED faults
  \/ key # value /\ Fault /\ UNCHANGED key

Begin(kind, last) == job' = [NoJob EXCEPT !.kind = kind, !.last = last]

NoTail == tail' = FALSE /\ dirty' = FALSE /\ removed' = {}

(* release: forgets the tail and takes the record, from the file if the    *)
(* memory has none.                                                        *)
BeginRelease(last) ==
  /\ Begin("release", last)
  /\ active' = FALSE
  /\ NoTail
  /\ owned' = IF owned # NoRecord THEN owned ELSE file

MustRelease      == active \/ ~started \/ file # NoRecord

ScanOnce == IF active THEN UNCHANGED job ELSE Begin("scan", FALSE)
ScanOn   == Begin("scan", FALSE)

Sync(value) ==
  /\ up /\ ~Busy
  /\ on' = value
  /\ started' = TRUE
  /\ freed' = IF value THEN freed ELSE {}
  /\ HoldKey(value)
  /\ \/ /\ value
        /\ active' = TRUE
        /\ owned' = IF active THEN owned ELSE file
        /\ ScanOn
        /\ UNCHANGED events
     \/ /\ ~value
        /\ MustRelease
        /\ BeginRelease(FALSE)
     \/ /\ ~value
        /\ ~MustRelease
        /\ UNCHANGED <<job, active, events, owned>>
  /\ UNCHANGED <<stream, muted, hand, sweep, file, up, unsure>>

(* tick: RELEASE_RETRY has passed.                                         *)
OwedRecords == owned # NoRecord    \* forgets the sweep
Owed        == owned # NoRecord \/ sweep

RetryRelease ==
  /\ up /\ ~Busy
  /\ ~active
  /\ Owed
  /\ BeginRelease(FALSE)
  /\ UNCHANGED <<server, on, started, sweep, file, up, unsure, faults>>

(* pump: drop the records of the removed streams, then scan once.          *)
Forgotten     == [i \in Indices |-> IF i \in removed THEN None ELSE owned[i]]

Pump ==
  /\ up /\ ~Busy
  /\ tail /\ (dirty \/ removed # {})
  /\ owned' = Forgotten
  /\ file' = IF Forgotten # owned THEN Forgotten ELSE file
  /\ dirty' = FALSE /\ removed' = {}
  /\ IF dirty /\ active THEN Begin("scan", FALSE) ELSE UNCHANGED job
  /\ UNCHANGED <<server, tail, on, started, active, sweep, up, unsure, faults>>

(* What one list decides: the streams to set and the records to keep.      *)
Member(i) == stream[i] \in Slice \union Listed

Own(i) == owned[i] # None /\ owned[i] = stream[i]

ScanPlanForgets == [todo |-> {i \in Indices \ muted : ~Own(i) /\ Member(i)},
                    kept |-> NoRecord]
ScanPlan ==
  [todo |-> {i \in Indices \ muted : ~Own(i) /\ Member(i)},
   kept |-> [i \in Indices |-> IF Own(i) /\ i \in muted THEN owned[i] ELSE None]]

ReleasePlanSweeps == [todo |-> {i \in muted : Member(i)}, kept |-> NoRecord]
ReleasePlan ==
  [todo |-> {i \in muted : Own(i) \/ stream[i] \in Slice},
   kept |-> NoRecord]

List ==
  /\ Busy /\ ~job.listed
  /\ LET plan == IF job.kind = "scan" THEN ScanPlan ELSE ReleasePlan
     IN job' = [job EXCEPT !.listed = TRUE, !.todo = plan.todo, !.kept = plan.kept]
  /\ UNCHANGED <<server, events, memory, file, up, unsure, faults>>

(* One set-sink-input-mute.  It fails for a stream that is gone.           *)
Set(i) ==
  /\ job.listed
  /\ i \in job.todo
  /\ LET scan == job.kind = "scan"
         record(keep) == job' = [job EXCEPT !.todo = @ \ {i},
                                   !.kept[i] = IF keep THEN stream[i] ELSE None]
     IN \/ /\ stream[i] # None
           /\ muted' = IF scan THEN muted \union {i} ELSE muted \ {i}
           /\ freed' = IF scan THEN freed \ {i} ELSE freed
           /\ IF ~scan /\ (i \notin hand \/ stream[i] \in Slice)
              THEN hand' = hand \ {i} /\ unsure' = unsure \ {i}
              ELSE UNCHANGED <<hand, unsure>>
           /\ record(scan)
           /\ UNCHANGED faults
        \/ /\ IF stream[i] = None THEN UNCHANGED faults ELSE Fault
           /\ record(~scan)
           /\ UNCHANGED <<muted, hand, freed, unsure>>
  /\ UNCHANGED <<stream, key, events, memory, file, up>>

(* The end of a job: the memory and the file become what was kept.  The    *)
(* job of a stop is the last of its process.                               *)
Dies ==
  /\ up' = FALSE
  /\ on' = FALSE /\ started' = FALSE /\ active' = FALSE /\ sweep' = FALSE
  /\ owned' = NoRecord

Done(record, owe) ==
  /\ job' = NoJob
  /\ IF job.last THEN Dies
     ELSE /\ owned' = record
          /\ sweep' = owe
          /\ UNCHANGED <<up, on, started, active>>

NoNews(record) == job.kind = "scan" /\ record = owned

Save(record) ==
  \/ /\ file' = IF NoNews(record) THEN file ELSE record
     /\ UNCHANGED <<unsure, faults>>
  \/ /\ ~NoNews(record)
     /\ Fault
     /\ unsure' = unsure \union {i \in muted : record[i] # None /\ file[i] # record[i]}
     /\ UNCHANGED file

JobEnds ==
  /\ job.listed
  /\ job.todo = {}
  /\ Done(job.kept, IF job.kind = "release" THEN FALSE ELSE sweep)
  /\ Save(job.kept)
  /\ tail' = (job.kind = "scan")
  /\ UNCHANGED <<stream, muted, key, hand, freed, dirty, removed>>

(* pactl list failed: a scan changes nothing, a release owes the sweep.    *)
ListFails ==
  /\ Busy /\ ~job.listed
  /\ Fault
  /\ Done(owned, sweep \/ job.kind = "release")
  /\ file' = IF job.kind = "release" THEN owned ELSE file
  /\ UNCHANGED <<server, events, unsure>>

(***************************************************************************)
(* The listener's life.                                                    *)
(***************************************************************************)
Start ==
  /\ ~up
  /\ up' = TRUE
  /\ UNCHANGED <<server, events, memory, file, job, unsure, faults>>

Stop ==
  /\ up /\ ~Busy
  /\ HoldKey(FALSE)
  /\ BeginRelease(TRUE)
  /\ freed' = {}
  /\ UNCHANGED <<stream, muted, hand, on, started, sweep, file, up, unsure>>

Killed ==
  /\ up
  /\ Fault
  /\ Dies
  /\ job' = NoJob
  /\ NoTail
  /\ unsure' = unsure \union
       {i \in muted \ hand : stream[i] \in Listed \ Slice /\ stream[i] # file[i]}
  /\ UNCHANGED <<server, file>>

Listener ==
  \/ \E value \in BOOLEAN : Sync(value)
  \/ RetryRelease \/ Pump \/ List \/ JobEnds \/ ListFails \/ Start \/ Stop \/ Killed
  \/ \E i \in Indices : Set(i)

Environment ==
  \/ HookRestarts
  \/ \E i \in Indices :
       StreamStarts(i) \/ StreamEnds(i) \/ PersonMutes(i) \/ PersonUnmutes(i)

Next == Listener \/ Environment
Spec == Init /\ [][Next]_vars

(***************************************************************************)
(* The listener's steps are taken, a stopped one is started again, and it  *)
(* syncs once a period with the hold it has.                               *)
(***************************************************************************)
Fairness ==
  /\ WF_vars(RetryRelease) /\ WF_vars(Pump) /\ WF_vars(List) /\ WF_vars(JobEnds)
  /\ WF_vars(\E i \in Indices : Set(i))
  /\ WF_vars(Start)
  /\ WF_vars(Sync(on))

FairSpec == Spec /\ Fairness
-----------------------------------------------------------------------------
(***************************************************************************)
(* A stream outside the slice that the person muted stays muted: only a    *)
(* record whose identity matches, and the sweep of the slice, unmute.      *)
(***************************************************************************)
HandMutesStay == {i \in hand \ unsure : stream[i] \notin Slice} \subseteq muted

(* A mute of the plugin outside the slice has a record, in the memory, in  *)
(* the file or in the scan that will write it: nothing else unmutes it.    *)
MutesHaveRecords ==
  \A i \in muted \ (hand \union unsure) :
    stream[i] \in Slice \union {owned[i], file[i], job.kept[i]}

(* "a mute that outlived its record is not stuck": with the hold off and   *)
(* no release owed nor recorded, no stream of the slice is muted, whatever *)
(* crash, restart or failed call came before, but by the person or by a    *)
(* hook whose key could not be deleted.                                    *)
SliceIsAudible ==
  (up /\ started /\ ~active /\ ~Busy /\ owned = NoRecord /\ file = NoRecord /\ ~sweep)
    => {i \in muted : stream[i] \in Slice} \subseteq hand \union unsure

(***************************************************************************)
(* No mute of the plugin is orphaned: outside the slice it has a record to *)
(* be released by, inside the slice the sweep has seen to it.              *)
(***************************************************************************)
MutesAreKnown == MutesHaveRecords /\ SliceIsAudible

(***************************************************************************)
(* A hold that ended is heard again: every stream is unmuted in the end,   *)
(* over failed calls and lists, but those the person or a fault muted.     *)
(***************************************************************************)
OffReleases ==
  <>[](~on /\ up /\ started) => []<>(muted \subseteq hand \union unsure)

(***************************************************************************)
(* A hold that stays on silences every member stream once the environment  *)
(* is quiet, those that no event of pactl subscribe announced included.    *)
(* One that the person unmuted under this hold is out of it: scan says     *)
(* that it "is then left alone".                                           *)
(***************************************************************************)
OnSilences ==
  (<>[](on /\ up) /\ <>[][Listener]_vars)
    => <>[](\A i \in Indices : Member(i) /\ i \notin freed => i \in muted)
=============================================================================
