----------------------------- MODULE MuteProofs -----------------------------
(***************************************************************************)
(* Proofs about Mute, for every set of indices and identities and every    *)
(* number of faults.                                                       *)
(***************************************************************************)
EXTENDS Mute, TLAPS

\* A job has read nothing before it listed; a scan is of an active hold and never
\* the last job, a release is of one that is over.
JobInv ==
  /\ ~job.listed => job.todo = {} /\ job.kept = NoRecord
  /\ ~Busy => ~job.listed
  /\ job.kind = "scan" => active /\ ~job.last
  /\ job.kind = "release" => ~active
  /\ Busy \/ started \/ active => up

\* A mute is one of a stream, a removal of one that is gone, and a record never
\* names a process that is neither of the slice nor listed.
StreamInv ==
  /\ \A i \in muted : stream[i] # None
  /\ \A i \in removed : stream[i] = None
  /\ \A i \in Indices : {owned[i], file[i], job.kept[i]} \subseteq Slice \union Listed \union {None}

\* A scan is still to mute members, a release to unmute what is the slice's or
\* recorded: what changed since the list is gone or in doubt.
TodoInv ==
  \A i \in job.todo :
    /\ job.kind = "scan" => (stream[i] # None => Member(i)) /\ (i \in muted => i \in unsure)
    /\ job.kind = "release" => stream[i] \in Slice \union {None, owned[i]}

\* The mutes of the person and of the plugin that no fault put in doubt.
ByHand   == hand \ unsure
ByPlugin == muted \ (hand \union unsure)

\* Nothing names what the person muted outside the slice, and nothing is about to
\* unmute it.
HandInv ==
  \A i \in ByHand : stream[i] \notin Slice =>
    /\ i \in muted \ job.todo
    /\ stream[i] \notin {None, owned[i], file[i], job.kept[i]}

\* Where the record of a mute of the plugin is: in the list that was read, in the
\* memory while a job or the hold is on, in the file otherwise.
KnownInv ==
  \A i \in ByPlugin : stream[i] \notin Slice =>
    /\ job.listed => stream[i] = job.kept[i] \/ (job.kind = "release" /\ i \in job.todo)
    /\ ~job.listed /\ (Busy \/ active) => stream[i] = owned[i]
    /\ ~Busy /\ ~active => stream[i] = file[i] /\ (owned = NoRecord \/ stream[i] = owned[i])

\* Of the slice, a release that listed is about to unmute it or keeps its record,
\* and one that is over and owes no sweep has.
SweepInv ==
  \A i \in ByPlugin : stream[i] \in Slice /\ started =>
    /\ ~active /\ ~Busy /\ ~sweep => stream[i] = owned[i]
    /\ job.kind = "release" /\ job.listed => i \in job.todo \/ stream[i] = job.kept[i]

\* The inductive invariant.
Inv == TypeOK /\ JobInv /\ StreamInv /\ TodoInv /\ HandInv /\ KnownInv /\ SweepInv
-----------------------------------------------------------------------------
\* A record keeps its shape when streams are dropped from it.
LEMMA NoRecordType == NoRecord \in Records
  BY DEF NoRecord, Records

\* Begin starts a job that has read nothing.
LEMMA BeginJob ==
  ASSUME NEW kind, NEW last, Begin(kind, last)
  PROVE  job' = [kind |-> kind, listed |-> FALSE, todo |-> {}, kept |-> NoRecord, last |-> last]
  BY DEF Begin, NoJob

\* Field by field.
LEMMA BeginFields ==
  ASSUME NEW kind, NEW last, Begin(kind, last)
  PROVE  job'.kind = kind /\ ~job'.listed /\ job'.todo = {} /\ job'.kept = NoRecord /\ job'.last = last
  BY BeginJob

\* What a Set makes of the job: the stream is off the list, and on the record or
\* not.
LEMMA SetJob ==
  ASSUME TypeOK, NEW i \in Indices, Set(i)
  PROVE  /\ job' \in Jobs
         /\ job'.kind = job.kind /\ job'.listed = job.listed /\ job'.last = job.last
         /\ job'.todo = job.todo \ {i}
         /\ \A j \in Indices \ {i} : job'.kept[j] = job.kept[j]
         /\ job'.kept[i] \in {stream[i], None}
         /\ \/ /\ stream[i] # None
               /\ job'.kept[i] = IF job.kind = "scan" THEN stream[i] ELSE None
               /\ muted' = IF job.kind = "scan" THEN muted \union {i} ELSE muted \ {i}
            \/ /\ job'.kept[i] = IF job.kind = "scan" THEN None ELSE stream[i]
               /\ UNCHANGED <<muted, hand, unsure>>
  <1>1. PICK keep \in BOOLEAN :
          /\ job' = [job EXCEPT !.todo = @ \ {i}, !.kept[i] = IF keep THEN stream[i] ELSE None]
          /\ \/ /\ stream[i] # None
                /\ keep = (job.kind = "scan")
                /\ muted' = IF job.kind = "scan" THEN muted \union {i} ELSE muted \ {i}
             \/ /\ keep = (job.kind # "scan")
                /\ UNCHANGED <<muted, hand, unsure>>
    BY DEF Set
  <1>2. job \in Jobs /\ stream[i] \in Idents \union {None}
    BY DEF TypeOK, Records
  <1>3. job'.kept = [job.kept EXCEPT ![i] = IF keep THEN stream[i] ELSE None]
    BY <1>1, <1>2 DEF Jobs
  <1>4. job'.kept \in Records
    BY <1>2, <1>3 DEF Jobs, Records
  <1>5. job' \in Jobs
    BY <1>1, <1>2, <1>4 DEF Jobs
  <1>6. job'.kind = job.kind /\ job'.listed = job.listed /\ job'.last = job.last
    BY <1>1, <1>2 DEF Jobs
  <1>7. job'.todo = job.todo \ {i}
    BY <1>1, <1>2 DEF Jobs
  <1>8. \A j \in Indices \ {i} : job'.kept[j] = job.kept[j]
    BY <1>2, <1>3 DEF Jobs, Records
  <1>9. job'.kept[i] = IF keep THEN stream[i] ELSE None
    BY <1>2, <1>3 DEF Jobs, Records
  <1> QED
    BY <1>1, <1>5, <1>6, <1>7, <1>8, <1>9

\* Begin starts a job.
LEMMA BeginType ==
  ASSUME NEW kind \in {"none", "scan", "release"}, NEW last \in BOOLEAN, Begin(kind, last)
  PROVE  job' \in Jobs
  <1>1. job' = [kind |-> kind, listed |-> FALSE, todo |-> {}, kept |-> NoRecord, last |-> last]
    BY BeginJob
  <1> QED
    BY <1>1, NoRecordType DEF Jobs

\* A release starts after the hold, with the record of the memory or of the file.
LEMMA ReleaseBegins ==
  ASSUME NEW last, BeginRelease(last)
  PROVE  /\ job'.kind = "release" /\ ~job'.listed /\ job'.todo = {} /\ job'.kept = NoRecord
         /\ ~active' /\ owned' = IF owned # NoRecord THEN owned ELSE file
  <1>1. Begin("release", last)
    BY DEF BeginRelease
  <1>2. job' = [kind |-> "release", listed |-> FALSE, todo |-> {}, kept |-> NoRecord, last |-> last]
    BY <1>1, BeginJob
  <1> QED
    BY <1>2 DEF BeginRelease

\* A fault is counted.
LEMMA FaultType == ASSUME TypeOK, Fault PROVE faults' \in 0..MaxFaults
  BY MuteAssumption DEF TypeOK, Fault

\* Telling the hook sets its key or counts a fault.
LEMMA HoldKeyType ==
  ASSUME TypeOK, NEW value \in BOOLEAN, HoldKey(value)
  PROVE  key' \in BOOLEAN /\ faults' \in 0..MaxFaults
  BY FaultType DEF TypeOK, HoldKey

\* A release forgets the tail, keeps or reads the record and starts a job.
LEMMA ReleaseType ==
  ASSUME TypeOK, NEW last \in BOOLEAN, BeginRelease(last)
  PROVE  /\ job' \in Jobs /\ owned' \in Records
         /\ active' = FALSE /\ tail' = FALSE /\ dirty' = FALSE /\ removed' = {}
  BY BeginType DEF TypeOK, BeginRelease, NoTail

\* A job ends in a record, in a process or in none.
LEMMA DoneType ==
  ASSUME TypeOK, NEW record \in Records, NEW owe \in BOOLEAN, Done(record, owe)
  PROVE  /\ job' = NoJob /\ NoJob \in Jobs /\ owned' \in Records
         /\ up' \in BOOLEAN /\ on' \in BOOLEAN /\ started' \in BOOLEAN
         /\ active' \in BOOLEAN /\ sweep' \in BOOLEAN
  <1>1. NoJob \in Jobs
    BY NoRecordType DEF NoJob, Jobs
  <1> QED
    BY <1>1, NoRecordType DEF TypeOK, Done, Dies

\* Every variable keeps its type.
LEMMA TypeNext == ASSUME TypeOK, [Next]_vars PROVE TypeOK'
  <1> USE DEF TypeOK
  <1>1. ASSUME NEW value \in BOOLEAN, Sync(value) PROVE TypeOK'
    <2>1. key' \in BOOLEAN /\ faults' \in 0..MaxFaults
      BY <1>1, HoldKeyType DEF Sync
    <2>2. on' \in BOOLEAN /\ started' \in BOOLEAN /\ freed' \in SUBSET Indices
      BY <1>1 DEF Sync
    <2>3. UNCHANGED <<stream, muted, hand, sweep, file, up, unsure>>
      BY <1>1 DEF Sync
    <2>4. /\ job' \in Jobs /\ owned' \in Records /\ active' \in BOOLEAN
          /\ tail' \in BOOLEAN /\ dirty' \in BOOLEAN /\ removed' \in SUBSET Indices
      <3>1. CASE active' = TRUE /\ owned' = (IF active THEN owned ELSE file) /\ ScanOn /\ UNCHANGED events
        BY <3>1, BeginType DEF ScanOn, events
      <3>2. CASE BeginRelease(FALSE)
        BY <3>2, ReleaseType
      <3>3. CASE UNCHANGED <<job, active, events, owned>>
        BY <3>3 DEF events
      <3> QED
        BY <1>1, <3>1, <3>2, <3>3 DEF Sync
    <2> QED
      BY <2>1, <2>2, <2>3, <2>4
  <1>2. CASE RetryRelease
    BY <1>2, ReleaseType DEF RetryRelease, server
  <1>3. CASE Pump
    <2>1. Forgotten \in Records
      BY DEF Forgotten, Records
    <2>2. job' \in Jobs
      BY <1>3, BeginType DEF Pump
    <2> QED
      BY <1>3, <2>1, <2>2 DEF Pump, server
  <1>4. CASE List
    <2>1. ScanPlan.todo \in SUBSET Indices /\ ScanPlan.kept \in Records
      BY DEF ScanPlan, Records
    <2>2. ReleasePlan.todo \in SUBSET Indices /\ ReleasePlan.kept \in Records
      BY NoRecordType DEF ReleasePlan
    <2>3. job' \in Jobs
      BY <1>4, <2>1, <2>2 DEF List, Jobs
    <2> QED
      BY <1>4, <2>3 DEF List, server, events, memory
  <1>5. ASSUME NEW i \in Indices, Set(i) PROVE TypeOK'
    <2>1. job' \in Jobs
      BY <1>5, SetJob
    <2>2. faults' \in 0..MaxFaults
      BY <1>5, FaultType DEF Set
    <2>3. /\ muted' \in SUBSET Indices /\ hand' \in SUBSET Indices
          /\ freed' \in SUBSET Indices /\ unsure' \in SUBSET Indices
      BY <1>5 DEF Set
    <2> QED
      BY <1>5, <2>1, <2>2, <2>3 DEF Set, events, memory
  <1>6. CASE JobEnds
    <2>1. job.kept \in Records
      BY DEF Jobs
    <2>2. (IF job.kind = "release" THEN FALSE ELSE sweep) \in BOOLEAN
      OBVIOUS
    <2>3. /\ job' \in Jobs /\ owned' \in Records
          /\ up' \in BOOLEAN /\ on' \in BOOLEAN /\ started' \in BOOLEAN
          /\ active' \in BOOLEAN /\ sweep' \in BOOLEAN
      BY <1>6, <2>1, <2>2, DoneType DEF JobEnds
    <2>4. file' \in Records /\ unsure' \in SUBSET Indices /\ faults' \in 0..MaxFaults
      BY <1>6, <2>1, FaultType DEF JobEnds, Save
    <2>5. tail' \in BOOLEAN /\ UNCHANGED <<stream, muted, key, hand, freed, dirty, removed>>
      BY <1>6 DEF JobEnds
    <2> QED
      BY <2>3, <2>4, <2>5
  <1>7. CASE ListFails
    <2>1. (sweep \/ job.kind = "release") \in BOOLEAN
      OBVIOUS
    <2>2. /\ job' \in Jobs /\ owned' \in Records
          /\ up' \in BOOLEAN /\ on' \in BOOLEAN /\ started' \in BOOLEAN
          /\ active' \in BOOLEAN /\ sweep' \in BOOLEAN
      BY <1>7, <2>1, DoneType DEF ListFails
    <2>3. file' \in Records /\ faults' \in 0..MaxFaults
      BY <1>7, FaultType DEF ListFails
    <2> QED
      BY <1>7, <2>2, <2>3 DEF ListFails, server, events
  <1>8. CASE Start
    BY <1>8 DEF Start, server, events, memory
  <1>9. CASE Stop
    <2>1. key' \in BOOLEAN /\ faults' \in 0..MaxFaults
      BY <1>9, HoldKeyType DEF Stop
    <2> QED
      BY <1>9, <2>1, ReleaseType DEF Stop
  <1>10. CASE Killed
    <2>1. job' \in Jobs
      BY <1>10, NoRecordType DEF Killed, NoJob, Jobs
    <2>2. unsure' \in SUBSET Indices
      BY <1>10 DEF Killed
    <2>3. faults' \in 0..MaxFaults
      BY <1>10, FaultType DEF Killed
    <2> QED
      BY <1>10, <2>1, <2>2, <2>3, NoRecordType DEF Killed, Dies, NoTail, server
  <1>11. CASE HookRestarts
    BY <1>11 DEF HookRestarts, events, memory
  <1>12. ASSUME NEW i \in Indices, StreamStarts(i) PROVE TypeOK'
    BY <1>12 DEF StreamStarts, Noticed, memory, Records
  <1>13. ASSUME NEW i \in Indices, StreamEnds(i) PROVE TypeOK'
    BY <1>13 DEF StreamEnds, memory, Records
  <1>14. ASSUME NEW i \in Indices, PersonMutes(i) PROVE TypeOK'
    BY <1>14 DEF PersonMutes, Noticed, memory
  <1>15. ASSUME NEW i \in Indices, PersonUnmutes(i) PROVE TypeOK'
    BY <1>15 DEF PersonUnmutes, Noticed, memory
  <1>16. CASE UNCHANGED vars
    BY <1>16 DEF vars, server, events, memory
  <1> QED
    BY <1>1, <1>2, <1>3, <1>4, <1>5, <1>6, <1>7, <1>8, <1>9, <1>10, <1>11, <1>12, <1>13, <1>14,
       <1>15, <1>16 DEF Next, Listener, Environment
-----------------------------------------------------------------------------
\* The jobs follow the hold and the listener's life.
LEMMA JobNext == ASSUME TypeOK, JobInv, [Next]_vars PROVE JobInv'
  <1> USE DEF JobInv, Busy
  <1>0. job \in Jobs
    BY DEF TypeOK
  <1>1. ASSUME NEW value \in BOOLEAN, Sync(value) PROVE JobInv'
    <2>1. up /\ job.kind = "none" /\ started' = TRUE /\ up' = up
      BY <1>1 DEF Sync
    <2>2. CASE active' = TRUE /\ ScanOn
      <3>1. job' = [kind |-> "scan", listed |-> FALSE, todo |-> {}, kept |-> NoRecord, last |-> FALSE]
        BY <2>2, BeginJob DEF ScanOn
      <3> QED
        BY <2>1, <2>2, <3>1 DEF NoRecord
    <2>3. CASE BeginRelease(FALSE)
      <3>1. job' = [kind |-> "release", listed |-> FALSE, todo |-> {}, kept |-> NoRecord, last |-> FALSE]
        BY <2>3, BeginJob DEF BeginRelease
      <3> QED
        BY <2>1, <2>3, <3>1 DEF BeginRelease, NoRecord
    <2>4. CASE UNCHANGED <<job, active>>
      BY <2>1, <2>4 DEF NoRecord
    <2> QED
      BY <1>1, <2>2, <2>3, <2>4 DEF Sync
  <1>2. CASE RetryRelease
    <2>1. job' = [kind |-> "release", listed |-> FALSE, todo |-> {}, kept |-> NoRecord, last |-> FALSE]
      BY <1>2, BeginJob DEF RetryRelease, BeginRelease
    <2> QED
      BY <1>2, <2>1 DEF RetryRelease, BeginRelease, NoRecord
  <1>3. CASE Pump
    <2>1. CASE Begin("scan", FALSE) /\ active
      <3>1. job' = [kind |-> "scan", listed |-> FALSE, todo |-> {}, kept |-> NoRecord, last |-> FALSE]
        BY <2>1, BeginJob
      <3> QED
        BY <1>3, <2>1, <3>1 DEF Pump, NoRecord
    <2>2. CASE UNCHANGED job
      BY <1>3, <2>2 DEF Pump, NoRecord
    <2> QED
      BY <1>3, <2>1, <2>2 DEF Pump
  <1>4. CASE List
    <2>1. job'.listed = TRUE /\ job'.kind = job.kind /\ job'.last = job.last
      BY <1>0, <1>4 DEF List, Jobs
    <2> QED
      BY <1>4, <2>1 DEF List, memory
  <1>5. ASSUME NEW i \in Indices, Set(i) PROVE JobInv'
    BY <1>5, SetJob DEF Set, memory
  <1>6. CASE JobEnds
    <2>1. job' = NoJob /\ up
      BY <1>6 DEF JobEnds, Done
    <2>2. CASE Dies
      BY <2>1, <2>2 DEF Dies, NoJob, NoRecord
    <2>3. CASE UNCHANGED <<up, started, active>>
      BY <2>1, <2>3 DEF NoJob, NoRecord
    <2> QED
      BY <1>6, <2>2, <2>3 DEF JobEnds, Done
  <1>7. CASE ListFails
    <2>1. job' = NoJob /\ up
      BY <1>7 DEF ListFails, Done
    <2>2. CASE Dies
      BY <2>1, <2>2 DEF Dies, NoJob, NoRecord
    <2>3. CASE UNCHANGED <<up, started, active>>
      BY <2>1, <2>3 DEF NoJob, NoRecord
    <2> QED
      BY <1>7, <2>2, <2>3 DEF ListFails, Done
  <1>8. CASE Start
    BY <1>8 DEF Start, memory, NoRecord
  <1>9. CASE Stop
    <2>1. job' = [kind |-> "release", listed |-> FALSE, todo |-> {}, kept |-> NoRecord, last |-> TRUE]
      BY <1>9, BeginJob DEF Stop, BeginRelease
    <2> QED
      BY <1>9, <2>1 DEF Stop, BeginRelease, NoRecord
  <1>10. CASE Killed
    BY <1>10 DEF Killed, Dies, NoJob, NoRecord
  <1>11. CASE HookRestarts
    BY <1>11 DEF HookRestarts, memory, NoRecord
  <1>12. ASSUME NEW i \in Indices, StreamStarts(i) PROVE JobInv'
    BY <1>12 DEF StreamStarts, memory, NoRecord
  <1>13. ASSUME NEW i \in Indices, StreamEnds(i) PROVE JobInv'
    BY <1>13 DEF StreamEnds, memory, NoRecord
  <1>14. ASSUME NEW i \in Indices, PersonMutes(i) PROVE JobInv'
    BY <1>14 DEF PersonMutes, memory, NoRecord
  <1>15. ASSUME NEW i \in Indices, PersonUnmutes(i) PROVE JobInv'
    BY <1>15 DEF PersonUnmutes, memory, NoRecord
  <1>16. CASE UNCHANGED vars
    BY <1>16 DEF vars, memory, NoRecord
  <1> QED
    BY <1>1, <1>2, <1>3, <1>4, <1>5, <1>6, <1>7, <1>8, <1>9, <1>10, <1>11, <1>12, <1>13, <1>14,
       <1>15, <1>16 DEF Next, Listener, Environment

\* The records a job or a pump makes name what the old ones named or what a list
\* found to be a member.
LEMMA StreamNext == ASSUME TypeOK, JobInv, StreamInv, TodoInv, [Next]_vars PROVE StreamInv'
  <1> USE DEF StreamInv, Busy
  <1> DEFINE Named == Slice \union Listed \union {None}
  <1>0. /\ job \in Jobs /\ job.kept \in Records /\ job.todo \in SUBSET Indices
        /\ stream \in Records /\ owned \in Records /\ file \in Records
    BY DEF TypeOK, Jobs
  <1>e. \A i \in Indices : NoRecord[i] = None
    BY DEF NoRecord
  <1>1. ASSUME NEW value \in BOOLEAN, Sync(value) PROVE StreamInv'
    <2>1. \A i \in Indices : owned'[i] \in Named
      BY <1>1 DEF Sync, BeginRelease
    <2>2. \A i \in Indices : job'.kept[i] \in Named
      BY <1>0, <1>1, <1>e, BeginFields DEF Sync, ScanOn, BeginRelease
    <2>3. removed' \subseteq removed
      BY <1>1 DEF Sync, BeginRelease, NoTail, events
    <2> QED
      BY <1>1, <2>1, <2>2, <2>3 DEF Sync
  <1>2. CASE RetryRelease
    <2>1. \A i \in Indices : job'.kept[i] \in Named
      BY <1>2, <1>e, BeginFields DEF RetryRelease, BeginRelease
    <2> QED
      BY <1>2, <2>1 DEF RetryRelease, BeginRelease, NoTail, server
  <1>3. CASE Pump
    <2>1. \A i \in Indices : Forgotten[i] \in {None, owned[i]}
      BY DEF Forgotten
    <2>2. \A i \in Indices : job'.kept[i] \in Named
      BY <1>3, <1>e, BeginFields DEF Pump
    <2> QED
      BY <1>3, <2>1, <2>2 DEF Pump, server
  <1>4. CASE List
    <2>1. \A i \in Indices : ScanPlan.kept[i] \in {None, owned[i]}
      BY DEF ScanPlan
    <2>2. job'.kept \in {ScanPlan.kept, NoRecord}
      BY <1>0, <1>4 DEF List, ReleasePlan, Jobs
    <2>3. \A i \in Indices : job'.kept[i] \in Named
      BY <1>e, <2>1, <2>2
    <2> QED
      BY <1>4, <2>3 DEF List, server, events, memory
  <1>5. ASSUME NEW i \in Indices, Set(i) PROVE StreamInv'
    <2>1. job'.kept[i] \in {stream[i], None} /\ \A j \in Indices \ {i} : job'.kept[j] = job.kept[j]
      BY <1>5, SetJob
    <2>2. stream[i] \in Named
      <3>1. job.kind \in {"scan", "release"} /\ i \in job.todo
        BY <1>0, <1>5 DEF Set, JobInv, Jobs
      <3>2. CASE job.kind = "scan"
        BY <3>1, <3>2 DEF TodoInv, Member
      <3>3. CASE job.kind = "release"
        BY <1>0, <3>1, <3>3 DEF TodoInv
      <3> QED
        BY <3>1, <3>2, <3>3
    <2>3. \A j \in Indices : job'.kept[j] \in Named
      BY <2>1, <2>2
    <2>4. \A j \in muted' : stream[j] # None
      BY <1>5, SetJob
    <2> QED
      BY <1>5, <2>3, <2>4 DEF Set, events, memory
  <1>6. CASE JobEnds
    <2>1. owned' \in {job.kept, NoRecord} /\ job'.kept = NoRecord
      BY <1>6 DEF JobEnds, Done, Dies, NoJob
    <2>2. file' \in {job.kept, file}
      BY <1>6 DEF JobEnds, Save
    <2> QED
      BY <1>6, <1>e, <2>1, <2>2 DEF JobEnds
  <1>7. CASE ListFails
    <2>1. owned' \in {owned, NoRecord} /\ job'.kept = NoRecord
      BY <1>7 DEF ListFails, Done, Dies, NoJob
    <2>2. file' \in {owned, file}
      BY <1>7 DEF ListFails
    <2> QED
      BY <1>7, <1>e, <2>1, <2>2 DEF ListFails, server, events
  <1>8. CASE Start
    BY <1>8 DEF Start, server, events, memory
  <1>9. CASE Stop
    <2>1. \A i \in Indices : job'.kept[i] \in Named
      BY <1>9, <1>e, BeginFields DEF Stop, BeginRelease
    <2> QED
      BY <1>9, <2>1 DEF Stop, BeginRelease, NoTail
  <1>10. CASE Killed
    BY <1>10, <1>e DEF Killed, Dies, NoTail, NoJob, server
  <1>11. CASE HookRestarts
    BY <1>11 DEF HookRestarts, events, memory
  <1>12. ASSUME NEW i \in Indices, StreamStarts(i) PROVE StreamInv'
    <2>1. PICK id \in Idents : /\ stream' = [stream EXCEPT ![i] = id]
                               /\ muted' \subseteq muted \union {i}
      BY <1>12 DEF StreamStarts
    <2>2. id # None
      BY MuteAssumption DEF Idents
    <2>3. muted' \in SUBSET Indices /\ removed \in SUBSET Indices
      BY <1>12, <2>1 DEF TypeOK
    <2> QED
      BY <1>0, <1>12, <2>1, <2>2, <2>3 DEF StreamStarts, memory, Records
  <1>13. ASSUME NEW i \in Indices, StreamEnds(i) PROVE StreamInv'
    <2>1. muted \in SUBSET Indices /\ removed \in SUBSET Indices
      BY DEF TypeOK
    <2> QED
      BY <1>0, <1>13, <2>1 DEF StreamEnds, memory, Records
  <1>14. ASSUME NEW i \in Indices, PersonMutes(i) PROVE StreamInv'
    BY <1>14 DEF PersonMutes, memory
  <1>15. ASSUME NEW i \in Indices, PersonUnmutes(i) PROVE StreamInv'
    BY <1>15 DEF PersonUnmutes, memory
  <1>16. CASE UNCHANGED vars
    BY <1>16 DEF vars, server, events, memory
  <1> QED
    BY <1>1, <1>2, <1>3, <1>4, <1>5, <1>6, <1>7, <1>8, <1>9, <1>10, <1>11, <1>12, <1>13, <1>14,
       <1>15, <1>16 DEF Next, Listener, Environment
-----------------------------------------------------------------------------
\* A call that is still to be made is of a stream that is as it was listed, has
\* gone or is in doubt.
LEMMA TodoNext == ASSUME TypeOK, JobInv, TodoInv, [Next]_vars PROVE TodoInv'
  <1> USE DEF TodoInv, Member
  <1>0. job \in Jobs /\ job.todo \in SUBSET Indices /\ stream \in Records /\ owned \in Records
    BY DEF TypeOK, Jobs
  <1>1. ASSUME NEW value \in BOOLEAN, Sync(value) PROVE TodoInv'
    <2>1. job.todo = {}
      BY <1>1 DEF Sync, JobInv
    <2>2. job'.todo = {}
      BY <1>1, <2>1, BeginFields DEF Sync, ScanOn, BeginRelease
    <2> QED
      BY <2>2
  <1>2. CASE RetryRelease
    BY <1>2, BeginFields DEF RetryRelease, BeginRelease
  <1>3. CASE Pump
    <2>1. job.todo = {}
      BY <1>3 DEF Pump, JobInv
    <2>2. job'.todo = {}
      BY <1>3, <2>1, BeginFields DEF Pump
    <2> QED
      BY <2>2
  <1>4. CASE List
    <2>1. CASE job.kind = "scan"
      <3>1. job'.kind = "scan" /\ job'.todo = ScanPlan.todo
        BY <1>0, <1>4, <2>1 DEF List, Jobs
      <3> QED
        BY <1>4, <3>1 DEF List, ScanPlan, server
    <2>2. CASE job.kind # "scan"
      <3>1. job'.kind # "scan" /\ job'.todo = ReleasePlan.todo
        BY <1>0, <1>4, <2>2 DEF List, Jobs
      <3> QED
        BY <1>4, <3>1 DEF List, ReleasePlan, Own, server, memory
    <2> QED
      BY <2>1, <2>2
  <1>5. ASSUME NEW i \in Indices, Set(i) PROVE TodoInv'
    <2>1. job'.kind = job.kind /\ job'.todo = job.todo \ {i}
      BY <1>5, SetJob
    <2>2. /\ muted' \subseteq muted \union {i}
          /\ unsure \ {i} \subseteq unsure'
          /\ UNCHANGED <<stream, owned>>
      BY <1>5 DEF Set, memory
    <2> QED
      BY <2>1, <2>2
  <1>6. CASE JobEnds
    BY <1>6 DEF JobEnds, Done, NoJob
  <1>7. CASE ListFails
    BY <1>7 DEF ListFails, Done, NoJob
  <1>8. CASE Start
    BY <1>8 DEF Start, server, memory
  <1>9. CASE Stop
    BY <1>9, BeginFields DEF Stop, BeginRelease
  <1>10. CASE Killed
    BY <1>10 DEF Killed, NoJob
  <1>11. CASE HookRestarts
    BY <1>11 DEF HookRestarts, memory
  <1>12. ASSUME NEW i \in Indices, StreamStarts(i) PROVE TodoInv'
    <2>1. /\ i \notin job.todo /\ UNCHANGED <<job, owned>>
          /\ muted' \subseteq muted \union {i}
          /\ unsure \subseteq unsure'
          /\ \A j \in Indices \ {i} : stream'[j] = stream[j]
      BY <1>0, <1>12 DEF StreamStarts, memory, Records
    <2> QED
      BY <1>0, <2>1
  <1>13. ASSUME NEW i \in Indices, StreamEnds(i) PROVE TodoInv'
    <2>1. /\ UNCHANGED <<job, owned>>
          /\ muted' = muted \ {i} /\ unsure' = unsure \ {i}
          /\ stream'[i] = None
          /\ \A j \in Indices \ {i} : stream'[j] = stream[j]
      BY <1>0, <1>13 DEF StreamEnds, memory, Records
    <2> QED
      BY <1>0, <2>1
  <1>14. ASSUME NEW i \in Indices, PersonMutes(i) PROVE TodoInv'
    BY <1>14 DEF PersonMutes, memory
  <1>15. ASSUME NEW i \in Indices, PersonUnmutes(i) PROVE TodoInv'
    BY <1>15 DEF PersonUnmutes, memory
  <1>16. CASE UNCHANGED vars
    BY <1>16 DEF vars, server, memory
  <1> QED
    BY <1>1, <1>2, <1>3, <1>4, <1>5, <1>6, <1>7, <1>8, <1>9, <1>10, <1>11, <1>12, <1>13, <1>14,
       <1>15, <1>16 DEF Next, Listener, Environment

\* Whatever becomes a record named the stream before, was read from the file or
\* was found muted by the plugin.
LEMMA HandNext ==
  ASSUME TypeOK, JobInv, StreamInv, TodoInv, HandInv, [Next]_vars
  PROVE  HandInv'
  <1> USE DEF HandInv, ByHand
  <1>0. /\ job \in Jobs /\ job.kept \in Records /\ job.todo \in SUBSET Indices
        /\ stream \in Records /\ owned \in Records /\ file \in Records
        /\ hand \in SUBSET Indices /\ None \notin Slice
    BY MuteAssumption DEF TypeOK, Jobs
  <1>e. \A i \in Indices : NoRecord[i] = None
    BY DEF NoRecord
  <1>1. ASSUME NEW value \in BOOLEAN, Sync(value) PROVE HandInv'
    <2>1. \A i \in Indices : owned'[i] \in {owned[i], file[i]}
      BY <1>1 DEF Sync, BeginRelease
    <2>2. \A i \in Indices : job'.kept[i] \in {None, job.kept[i]} /\ i \notin job'.todo
      BY <1>1, <1>e, BeginFields DEF Sync, ScanOn, BeginRelease, JobInv
    <2> QED
      BY <1>0, <1>1, <2>1, <2>2 DEF Sync
  <1>2. CASE RetryRelease
    <2>1. \A i \in Indices : owned'[i] \in {owned[i], file[i]}
      BY <1>2 DEF RetryRelease, BeginRelease
    <2>2. \A i \in Indices : job'.kept[i] = None /\ i \notin job'.todo
      BY <1>2, <1>e, BeginFields DEF RetryRelease, BeginRelease
    <2> QED
      BY <1>0, <1>2, <2>1, <2>2 DEF RetryRelease, server
  <1>3. CASE Pump
    <2>1. \A i \in Indices : Forgotten[i] \in {None, owned[i]}
      BY DEF Forgotten
    <2>2. \A i \in Indices : job'.kept[i] \in {None, job.kept[i]} /\ i \notin job'.todo
      BY <1>3, <1>e, BeginFields DEF Pump, JobInv
    <2> QED
      BY <1>0, <1>3, <2>1, <2>2 DEF Pump, server
  <1>4. CASE List
    <2>1. \A i \in Indices : ScanPlan.kept[i] \in {None, owned[i]} /\ ReleasePlan.kept[i] = None
      BY <1>e DEF ScanPlan, ReleasePlan
    <2>2. \A i \in Indices : job'.kept[i] \in {None, owned[i]}
      BY <1>0, <1>4, <2>1 DEF List, Jobs
    <2>3. job'.todo \in {ScanPlan.todo, ReleasePlan.todo}
      BY <1>0, <1>4 DEF List, Jobs
    <2>4. \A i \in ByHand : stream[i] \notin Slice => i \notin ScanPlan.todo \union ReleasePlan.todo
      BY DEF ScanPlan, ReleasePlan, Own
    <2> QED
      BY <1>0, <1>4, <2>2, <2>3, <2>4 DEF List, server, memory
  <1>5. ASSUME NEW i \in Indices, Set(i) PROVE HandInv'
    <2>1. job'.todo = job.todo \ {i} /\ \A j \in Indices \ {i} : job'.kept[j] = job.kept[j]
      BY <1>5, SetJob
    <2>2. /\ i \in job.todo /\ UNCHANGED <<stream, owned, file>>
          /\ \/ hand' = hand \ {i} /\ unsure' = unsure \ {i}
             \/ UNCHANGED <<hand, unsure>>
          /\ muted \ {i} \subseteq muted'
      BY <1>5 DEF Set, memory
    <2>3. i \in ByHand' => stream[i] \in Slice
      BY <2>2
    <2> QED
      BY <1>0, <2>1, <2>2, <2>3
  <1>6. CASE JobEnds
    <2>1. owned' \in {job.kept, NoRecord} /\ job'.kept = NoRecord /\ job'.todo = {}
      BY <1>6 DEF JobEnds, Done, Dies, NoJob
    <2>2. file' \in {job.kept, file} /\ unsure \subseteq unsure' /\ UNCHANGED <<stream, muted, hand>>
      BY <1>6 DEF JobEnds, Save
    <2> QED
      BY <1>0, <1>e, <2>1, <2>2
  <1>7. CASE ListFails
    <2>1. owned' \in {owned, NoRecord} /\ job'.kept = NoRecord /\ job'.todo = {}
      BY <1>7 DEF ListFails, Done, Dies, NoJob
    <2>2. file' \in {owned, file} /\ UNCHANGED <<stream, muted, hand, unsure>>
      BY <1>7 DEF ListFails, server
    <2> QED
      BY <1>0, <1>e, <2>1, <2>2
  <1>8. CASE Start
    BY <1>8 DEF Start, server, memory
  <1>9. CASE Stop
    <2>1. \A i \in Indices : owned'[i] \in {owned[i], file[i]}
      BY <1>9 DEF Stop, BeginRelease
    <2>2. \A i \in Indices : job'.kept[i] = None /\ i \notin job'.todo
      BY <1>9, <1>e, BeginFields DEF Stop, BeginRelease
    <2> QED
      BY <1>0, <1>9, <2>1, <2>2 DEF Stop
  <1>10. CASE Killed
    <2>1. owned' = NoRecord /\ job'.kept = NoRecord /\ job'.todo = {}
      BY <1>10 DEF Killed, Dies, NoJob
    <2>2. unsure \subseteq unsure' /\ UNCHANGED <<stream, muted, hand, file>>
      BY <1>10 DEF Killed, server
    <2> QED
      BY <1>0, <1>e, <2>1, <2>2
  <1>11. CASE HookRestarts
    BY <1>11 DEF HookRestarts, memory
  <1>12. ASSUME NEW i \in Indices, StreamStarts(i) PROVE HandInv'
    <2>1. /\ UNCHANGED <<job, owned, file, hand>>
          /\ muted \subseteq muted' /\ unsure \subseteq unsure'
          /\ stream[i] = None
          /\ \A j \in Indices \ {i} : stream'[j] = stream[j]
      BY <1>0, <1>12 DEF StreamStarts, memory, Records
    <2>2. i \notin ByHand
      BY <1>0, <2>1
    <2> QED
      BY <1>0, <2>1, <2>2
  <1>13. ASSUME NEW i \in Indices, StreamEnds(i) PROVE HandInv'
    <2>1. /\ UNCHANGED <<job, owned, file>>
          /\ muted' = muted \ {i} /\ hand' = hand \ {i} /\ unsure' = unsure \ {i}
          /\ \A j \in Indices \ {i} : stream'[j] = stream[j]
      BY <1>0, <1>13 DEF StreamEnds, memory, Records
    <2> QED
      BY <1>0, <2>1
  <1>14. ASSUME NEW i \in Indices, PersonMutes(i) PROVE HandInv'
    <2>1. /\ UNCHANGED <<stream, job, owned, file>> /\ stream[i] # None
          /\ muted' = muted \union {i}
          /\ hand' \subseteq hand \union {i} /\ unsure \subseteq unsure'
      BY <1>14 DEF PersonMutes, memory
    <2>2. ASSUME i \in ByHand', i \notin hand
          PROVE  i \notin job.todo /\ stream[i] \notin {owned[i], file[i], job.kept[i]}
      <3>1. ~Claimed(i) /\ i \notin job.todo /\ ~Recorded(i)
        BY <1>14, <2>2 DEF PersonMutes
      <3>2. ~job.listed => job.kept[i] = None
        BY <1>e DEF JobInv
      <3> QED
        BY <2>1, <3>1, <3>2 DEF Claimed, Recorded
    <2> QED
      BY <1>0, <2>1, <2>2
  <1>15. ASSUME NEW i \in Indices, PersonUnmutes(i) PROVE HandInv'
    BY <1>0, <1>15 DEF PersonUnmutes, memory
  <1>16. CASE UNCHANGED vars
    BY <1>16 DEF vars, server, memory
  <1> QED
    BY <1>1, <1>2, <1>3, <1>4, <1>5, <1>6, <1>7, <1>8, <1>9, <1>10, <1>11, <1>12, <1>13, <1>14,
       <1>15, <1>16 DEF Next, Listener, Environment

\* What begins a job, or none, hands every mute of the plugin its record.
LEMMA ReleaseKnows ==
  ASSUME TypeOK, JobInv, StreamInv, KnownInv, ~Busy, NEW last, BeginRelease(last),
         NEW i \in ByPlugin, stream[i] \notin Slice
  PROVE  owned'[i] = stream[i]
  <1>1. stream[i] # None /\ owned \in Records /\ i \in Indices
    BY DEF StreamInv, ByPlugin, TypeOK
  <1>2. owned = NoRecord => owned[i] # stream[i]
    BY <1>1 DEF NoRecord
  <1>3. ~job.listed
    BY DEF JobInv
  <1>4. CASE active
    BY <1>2, <1>3, <1>4 DEF KnownInv, BeginRelease
  <1>5. CASE ~active
    BY <1>2, <1>5 DEF KnownInv, BeginRelease
  <1> QED
    BY <1>4, <1>5

\* The record of a mute passes from the memory to the list of a job and back, and
\* to the file unless the save fails.
LEMMA KnownNext ==
  ASSUME TypeOK, JobInv, StreamInv, TodoInv, KnownInv, [Next]_vars
  PROVE  KnownInv'
  <1> USE DEF KnownInv, ByPlugin
  <1>0. /\ job \in Jobs /\ job.kept \in Records /\ job.todo \in SUBSET Indices
        /\ stream \in Records /\ owned \in Records /\ file \in Records
        /\ muted \in SUBSET Indices /\ None \notin Slice
    BY MuteAssumption DEF TypeOK, Jobs
  <1>e. \A i \in Indices : NoRecord[i] = None
    BY DEF NoRecord
  <1>1. ASSUME NEW value \in BOOLEAN, Sync(value) PROVE KnownInv'
    <2>1. ~Busy /\ ~job.listed /\ UNCHANGED <<stream, muted, hand, unsure, file>>
      BY <1>1 DEF Sync, JobInv
    <2>2. CASE active' = TRUE /\ owned' = (IF active THEN owned ELSE file) /\ ScanOn
      <3>1. ~job'.listed
        BY <2>2, BeginFields DEF ScanOn
      <3>2. \A i \in ByPlugin : stream[i] \notin Slice => owned'[i] = stream[i]
        BY <2>1, <2>2
      <3> QED
        BY <2>1, <2>2, <3>1, <3>2
    <2>3. CASE BeginRelease(FALSE)
      <3>1. ~job'.listed /\ Busy'
        BY <2>3, ReleaseBegins DEF Busy
      <3> QED
        BY <2>1, <2>3, <3>1, ReleaseKnows
    <2>4. CASE UNCHANGED <<job, active, events, owned>>
      BY <2>1, <2>4 DEF Busy
    <2> QED
      BY <1>1, <2>2, <2>3, <2>4 DEF Sync
  <1>2. CASE RetryRelease
    <2>1. ~job'.listed /\ Busy' /\ ~Busy /\ UNCHANGED <<stream, muted, hand, unsure>>
      BY <1>2, ReleaseBegins DEF RetryRelease, Busy, server
    <2> QED
      BY <1>2, <2>1, ReleaseKnows DEF RetryRelease
  <1>3. CASE Pump
    <2>1. ~Busy /\ ~job.listed /\ UNCHANGED <<stream, muted, hand, unsure, active>>
      BY <1>3 DEF Pump, JobInv, server
    <2>2. owned' = Forgotten /\ file' = IF Forgotten # owned THEN Forgotten ELSE file
      BY <1>3 DEF Pump
    <2>3. \A i \in muted : i \in Indices /\ Forgotten[i] = owned[i]
      BY <1>0 DEF Forgotten, StreamInv
    <2>4. ~job'.listed /\ (Busy' => active)
      BY <1>3, <2>1, BeginFields DEF Pump, Busy
    <2>5. CASE active
      BY <2>1, <2>2, <2>3, <2>4, <2>5
    <2>6. CASE ~active
      <3>1. ASSUME NEW i \in ByPlugin, stream[i] \notin Slice
            PROVE  stream[i] = file'[i] /\ (owned' = NoRecord \/ stream[i] = owned'[i])
        <4>1. CASE Forgotten = owned
          BY <2>1, <2>2, <2>6, <3>1, <4>1
        <4>2. CASE Forgotten # owned
          <5>1. owned # NoRecord
            BY <4>2, <1>e DEF Forgotten, NoRecord
          <5> QED
            BY <2>1, <2>2, <2>3, <2>6, <3>1, <4>2, <5>1
        <4> QED
          BY <4>1, <4>2
      <3> QED
        BY <2>1, <2>4, <2>6, <3>1
    <2> QED
      BY <2>5, <2>6
  <1>4. CASE List
    <2>1. ASSUME NEW i \in ByPlugin, stream[i] \notin Slice
          PROVE  stream[i] = job'.kept[i] \/ (job'.kind = "release" /\ i \in job'.todo)
      <3>1. i \in muted /\ i \in Indices /\ Own(i)
        BY <1>0, <1>4, <2>1 DEF List, Own, StreamInv
      <3>2. CASE job.kind = "scan"
        <4>1. job'.kept = ScanPlan.kept
          BY <1>0, <1>4, <3>2 DEF List, Jobs
        <4>2. ScanPlan.kept[i] = owned[i]
          BY <3>1 DEF ScanPlan
        <4> QED
          BY <3>1, <4>1, <4>2 DEF Own
      <3>3. CASE job.kind = "release"
        <4>1. job'.kind = "release" /\ job'.todo = ReleasePlan.todo
          BY <1>0, <1>4, <3>3 DEF List, Jobs
        <4> QED
          BY <3>1, <4>1 DEF ReleasePlan
      <3> QED
        BY <1>0, <1>4, <3>2, <3>3 DEF List, Busy, Jobs
    <2>2. job'.listed /\ UNCHANGED <<stream, muted, hand, unsure>>
      BY <1>0, <1>4 DEF List, Jobs, server
    <2>3. Busy'
      BY <1>0, <1>4 DEF List, Jobs, Busy
    <2> QED
      BY <2>1, <2>2, <2>3
  <1>5. ASSUME NEW i \in Indices, Set(i) PROVE KnownInv'
    <2>1. /\ job'.kind = job.kind /\ job'.listed /\ Busy' /\ job.listed /\ UNCHANGED stream
          /\ job'.todo = job.todo \ {i} /\ \A j \in Indices \ {i} : job'.kept[j] = job.kept[j]
      BY <1>5, SetJob DEF Set, JobInv, Busy
    <2>2. \A j \in Indices \ {i} : j \in ByPlugin' => j \in ByPlugin
      BY <1>5 DEF Set
    <2>3. ASSUME i \in ByPlugin' PROVE stream[i] = job'.kept[i]
      <3>1. i \in job.todo /\ job.kind \in {"scan", "release"}
        BY <1>0, <1>5 DEF Set, JobInv, Busy, Jobs
      <3>2. CASE job.kind = "scan"
        <4>1. i \in muted => i \in unsure
          BY <3>1, <3>2 DEF TodoInv
        <4>2. job'.kept[i] = stream[i] \/ UNCHANGED <<muted, hand, unsure>>
          BY <1>5, <3>2, SetJob
        <4> QED
          BY <2>3, <4>1, <4>2
      <3>3. CASE job.kind = "release"
        BY <1>5, <2>3, <3>3, SetJob
      <3> QED
        BY <3>1, <3>2, <3>3
    <2>4. \A j \in ByPlugin' \ {i} : j \in ByPlugin /\ j \in Indices
      BY <1>0, <1>5, <2>2 DEF Set
    <2> QED
      BY <2>1, <2>3, <2>4
  <1>6. CASE JobEnds
    <2>1. job' = NoJob /\ ~Busy' /\ ~job'.listed /\ UNCHANGED <<stream, muted, hand>>
      BY <1>6 DEF JobEnds, Done, NoJob, Busy
    <2>2. unsure \subseteq unsure'
      BY <1>6 DEF JobEnds, Save
    <2>3. \A i \in ByPlugin : stream[i] \notin Slice => stream[i] = job.kept[i]
      BY <1>6 DEF JobEnds
    <2>4. CASE job.kind = "scan"
      <3>1. owned' = job.kept /\ active'
        BY <1>6, <2>4 DEF JobEnds, Done, JobInv
      <3> QED
        BY <2>1, <2>2, <2>3, <3>1
    <2>5. CASE job.kind = "release"
      <3>1. owned' \in {job.kept, NoRecord} /\ ~active'
        BY <1>6, <2>5 DEF JobEnds, Done, Dies, JobInv
      <3>2. ASSUME NEW i \in ByPlugin', stream[i] \notin Slice PROVE stream[i] = file'[i]
        <4>1. i \in ByPlugin /\ stream[i] = job.kept[i] /\ stream[i] # None
          BY <2>1, <2>2, <2>3, <3>2 DEF StreamInv
        <4>2. CASE file' = job.kept
          BY <4>1, <4>2
        <4>3. CASE UNCHANGED file /\ unsure' = unsure \union {j \in muted : job.kept[j] # None /\ file[j] # job.kept[j]}
          <5>1. i \in muted /\ i \notin unsure'
            BY <2>1, <3>2
          <5>2. ~(job.kept[i] # None /\ file[i] # job.kept[i])
            BY <4>3, <5>1
          <5> QED
            BY <4>1, <4>3, <5>2
        <4> QED
          BY <1>6, <2>5, <4>2, <4>3 DEF JobEnds, Save, NoNews
      <3> QED
        BY <2>1, <2>2, <2>3, <3>1, <3>2
    <2> QED
      BY <1>0, <1>6, <2>4, <2>5 DEF JobEnds, JobInv, Busy, Jobs
  <1>7. CASE ListFails
    <2>1. /\ job' = NoJob /\ ~Busy' /\ ~job'.listed /\ Busy /\ ~job.listed
          /\ UNCHANGED <<stream, muted, hand, unsure>>
      BY <1>7 DEF ListFails, Done, NoJob, Busy, server
    <2>2. \A i \in ByPlugin : stream[i] \notin Slice => stream[i] = owned[i]
      BY <2>1
    <2>3. CASE job.kind = "scan"
      <3>1. owned' = owned /\ active'
        BY <1>7, <2>3 DEF ListFails, Done, JobInv
      <3> QED
        BY <2>1, <2>2, <3>1
    <2>4. CASE job.kind = "release"
      <3>1. owned' \in {owned, NoRecord} /\ file' = owned /\ ~active'
        BY <1>7, <2>4 DEF ListFails, Done, Dies, JobInv
      <3> QED
        BY <2>1, <2>2, <3>1
    <2> QED
      BY <1>0, <2>1, <2>3, <2>4 DEF Busy, Jobs
  <1>8. CASE Start
    BY <1>8 DEF Start, Busy, server, memory
  <1>9. CASE Stop
    <2>1. ~job'.listed /\ Busy' /\ ~Busy /\ UNCHANGED <<stream, muted, hand, unsure>>
      BY <1>9, ReleaseBegins DEF Stop, Busy
    <2> QED
      BY <1>9, <2>1, ReleaseKnows DEF Stop
  <1>10. CASE Killed
    <2>1. /\ owned' = NoRecord /\ ~job'.listed /\ ~Busy' /\ ~active'
          /\ UNCHANGED <<stream, muted, hand, file>>
      BY <1>10 DEF Killed, Dies, NoJob, Busy, server
    <2>2. ASSUME NEW i \in ByPlugin', stream[i] \notin Slice PROVE stream[i] = file[i]
      <3>1. i \in ByPlugin /\ i \in muted \ hand /\ i \in Indices /\ i \notin unsure'
        BY <1>0, <1>10, <2>1, <2>2 DEF Killed
      <3>2. stream[i] # None /\ {owned[i], file[i], job.kept[i]} \subseteq Slice \union Listed \union {None}
        BY <3>1 DEF StreamInv
      <3>3. stream[i] \in {owned[i], file[i], job.kept[i]}
        <4>1. CASE job.listed
          BY <2>2, <3>1, <3>2, <4>1 DEF TodoInv
        <4>2. CASE ~job.listed
          BY <2>2, <3>1, <4>2
        <4> QED
          BY <4>1, <4>2
      <3>4. stream[i] \in Listed \ Slice
        BY <2>2, <3>2, <3>3
      <3> QED
        BY <1>10, <3>1, <3>4 DEF Killed
    <2> QED
      BY <2>1, <2>2
  <1>11. CASE HookRestarts
    BY <1>11 DEF HookRestarts, memory, Busy
  <1>12. ASSUME NEW i \in Indices, StreamStarts(i) PROVE KnownInv'
    <2>1. PICK id \in Idents :
            /\ stream' = [stream EXCEPT ![i] = id]
            /\ muted' = IF key /\ id \in Slice THEN muted \union {i} ELSE muted
            /\ unsure \subseteq unsure'
      BY <1>12 DEF StreamStarts
    <2>2. stream'[i] = id /\ \A j \in Indices \ {i} : stream'[j] = stream[j]
      BY <1>0, <2>1 DEF Records
    <2>3. i \notin muted
      BY <1>12 DEF StreamStarts, StreamInv
    <2>4. UNCHANGED <<job, owned, file, hand, active>> /\ (Busy' <=> Busy)
      BY <1>12 DEF StreamStarts, memory, Busy
    <2>5. \A j \in ByPlugin' : stream'[j] \notin Slice => j \in ByPlugin \ {i}
      BY <2>1, <2>2, <2>3, <2>4
    <2> QED
      BY <1>0, <2>2, <2>4, <2>5
  <1>13. ASSUME NEW i \in Indices, StreamEnds(i) PROVE KnownInv'
    <2>1. ByPlugin' \subseteq ByPlugin \ {i} /\ \A j \in Indices \ {i} : stream'[j] = stream[j]
      BY <1>0, <1>13 DEF StreamEnds, Records
    <2>2. UNCHANGED <<job, owned, file, active>> /\ (Busy' <=> Busy)
      BY <1>13 DEF StreamEnds, memory, Busy
    <2> QED
      BY <1>0, <2>1, <2>2
  <1>14. ASSUME NEW i \in Indices, PersonMutes(i) PROVE KnownInv'
    <2>1. UNCHANGED <<stream, job, owned, file, active>> /\ (Busy' <=> Busy)
      BY <1>14 DEF PersonMutes, memory, Busy
    <2>2. ByPlugin' \subseteq ByPlugin \union {i}
      BY <1>14 DEF PersonMutes
    <2>3. ASSUME i \in ByPlugin'
          PROVE  IF job.listed THEN stream[i] = job.kept[i] ELSE stream[i] = owned[i] /\ stream[i] = file[i]
      <3>1. Claimed(i) /\ i \notin job.todo /\ ~Unsaved(i)
        BY <1>14, <2>3 DEF PersonMutes
      <3> QED
        BY <3>1 DEF Claimed, Unsaved
    <2>4. job.listed => Busy
      BY DEF JobInv
    <2> QED
      BY <2>1, <2>2, <2>3, <2>4
  <1>15. ASSUME NEW i \in Indices, PersonUnmutes(i) PROVE KnownInv'
    BY <1>15 DEF PersonUnmutes, memory, Busy
  <1>16. CASE UNCHANGED vars
    BY <1>16 DEF vars, server, memory, Busy
  <1> QED
    BY <1>1, <1>2, <1>3, <1>4, <1>5, <1>6, <1>7, <1>8, <1>9, <1>10, <1>11, <1>12, <1>13, <1>14,
       <1>15, <1>16 DEF Next, Listener, Environment

\* A release unmutes what it finds muted in the slice; a new mute there is of a hook
\* whose key stayed, of the person or of the next hold.
LEMMA SweepNext ==
  ASSUME TypeOK, JobInv, StreamInv, TodoInv, SweepInv, [Next]_vars
  PROVE  SweepInv'
  <1> USE DEF SweepInv, ByPlugin
  <1>0. /\ job \in Jobs /\ job.kept \in Records /\ job.todo \in SUBSET Indices
        /\ stream \in Records /\ owned \in Records /\ muted \in SUBSET Indices
    BY DEF TypeOK, Jobs
  <1>1. ASSUME NEW value \in BOOLEAN, Sync(value) PROVE SweepInv'
    <2>1. ~Busy /\ ~job.listed /\ UNCHANGED <<stream, muted, hand, unsure, sweep>>
      BY <1>1 DEF Sync, JobInv
    <2>2. CASE active' = TRUE /\ ScanOn
      BY <2>2, BeginFields DEF ScanOn
    <2>3. CASE BeginRelease(FALSE)
      BY <2>3, ReleaseBegins DEF Busy
    <2>4. CASE ~MustRelease /\ UNCHANGED <<job, active, events, owned>>
      BY <2>1, <2>4 DEF Busy, MustRelease
    <2> QED
      BY <1>1, <2>2, <2>3, <2>4 DEF Sync
  <1>2. CASE RetryRelease
    BY <1>2, ReleaseBegins DEF RetryRelease, Busy
  <1>3. CASE Pump
    <2>1. ~Busy /\ ~job.listed /\ UNCHANGED <<stream, muted, hand, unsure, active, sweep, started>>
      BY <1>3 DEF Pump, JobInv, server
    <2>2. owned' = Forgotten
      BY <1>3 DEF Pump
    <2>3. \A i \in muted : i \in Indices /\ Forgotten[i] = owned[i]
      BY <1>0 DEF Forgotten, StreamInv
    <2>4. ~job'.listed
      BY <1>3, <2>1, BeginFields DEF Pump
    <2> QED
      BY <2>1, <2>2, <2>3, <2>4
  <1>4. CASE List
    <2>1. UNCHANGED <<stream, muted, hand, unsure, started>> /\ job'.kind = job.kind /\ Busy'
      BY <1>0, <1>4 DEF List, Jobs, Busy, server, memory
    <2>2. job.kind = "release" => job'.todo = ReleasePlan.todo
      BY <1>0, <1>4 DEF List, Jobs
    <2>3. \A i \in muted : stream[i] \in Slice => i \in ReleasePlan.todo
      BY DEF ReleasePlan
    <2> QED
      BY <2>1, <2>2, <2>3
  <1>5. ASSUME NEW i \in Indices, Set(i) PROVE SweepInv'
    <2>1. /\ job'.kind = job.kind /\ Busy' /\ job.listed /\ UNCHANGED <<stream, started>>
          /\ job'.todo = job.todo \ {i} /\ \A j \in Indices \ {i} : job'.kept[j] = job.kept[j]
      BY <1>5, SetJob DEF Set, JobInv, Busy, memory
    <2>2. \A j \in Indices \ {i} : j \in ByPlugin' => j \in ByPlugin
      BY <1>5 DEF Set
    <2>3. i \in ByPlugin' /\ job.kind = "release" => stream[i] = job'.kept[i]
      BY <1>5, SetJob
    <2>4. \A j \in ByPlugin' \ {i} : j \in ByPlugin /\ j \in Indices
      BY <1>0, <1>5, <2>2 DEF Set
    <2> QED
      BY <2>1, <2>3, <2>4
  <1>6. CASE JobEnds
    <2>1. job' = NoJob /\ job'.kind = "none" /\ UNCHANGED <<stream, muted, hand>> /\ unsure \subseteq unsure'
      BY <1>6 DEF JobEnds, Done, NoJob, Save
    <2>2. CASE started' /\ ~active'
      <3>1. owned' = job.kept /\ UNCHANGED <<started, active>>
        BY <1>6, <2>2 DEF JobEnds, Done, Dies
      <3>2. job.kind = "release"
        BY <1>0, <1>6, <2>2, <3>1 DEF JobEnds, JobInv, Busy, Jobs
      <3> QED
        BY <1>6, <2>1, <2>2, <3>1, <3>2 DEF JobEnds
    <2>3. CASE ~started' \/ active'
      BY <2>1, <2>3
    <2> QED
      BY <2>2, <2>3
  <1>7. CASE ListFails
    <2>1. job'.kind = "none" /\ (started' /\ ~active' => sweep')
      <3>1. CASE Dies
        BY <1>7, <3>1 DEF ListFails, Done, NoJob, Dies
      <3>2. CASE ~job.last
        <4>1. sweep' = (sweep \/ job.kind = "release") /\ active' = active /\ job' = NoJob
          BY <1>7, <3>2 DEF ListFails, Done
        <4> QED
          BY <1>0, <1>7, <4>1 DEF ListFails, NoJob, JobInv, Busy, Jobs
      <3> QED
        BY <1>7, <3>1, <3>2 DEF ListFails, Done
    <2> QED
      BY <2>1
  <1>8. CASE Start
    BY <1>8 DEF Start, JobInv, memory
  <1>9. CASE Stop
    BY <1>9, ReleaseBegins DEF Stop, Busy
  <1>10. CASE Killed
    BY <1>10 DEF Killed, Dies
  <1>11. CASE HookRestarts
    BY <1>11 DEF HookRestarts, memory, Busy
  <1>12. ASSUME NEW i \in Indices, StreamStarts(i) PROVE SweepInv'
    <2>1. UNCHANGED <<job, owned, hand, active, started, sweep, up>> /\ (Busy' <=> Busy)
      BY <1>12 DEF StreamStarts, memory, Busy
    <2>2. \A j \in Indices \ {i} : stream'[j] = stream[j]
      BY <1>0, <1>12 DEF StreamStarts, Records
    <2>3. ByPlugin' \subseteq ByPlugin \union {i} /\ i \notin muted
      BY <1>12 DEF StreamStarts, StreamInv
    <2>4. i \in ByPlugin' => ~(up /\ started /\ ~active)
      BY <1>12, <2>3 DEF StreamStarts
    <2> QED
      BY <1>0, <2>1, <2>2, <2>3, <2>4 DEF JobInv
  <1>13. ASSUME NEW i \in Indices, StreamEnds(i) PROVE SweepInv'
    <2>1. ByPlugin' \subseteq ByPlugin \ {i} /\ \A j \in Indices \ {i} : stream'[j] = stream[j]
      BY <1>0, <1>13 DEF StreamEnds, Records
    <2>2. UNCHANGED <<job, owned, active, started, sweep>> /\ (Busy' <=> Busy)
      BY <1>13 DEF StreamEnds, memory, Busy
    <2> QED
      BY <1>0, <2>1, <2>2
  <1>14. ASSUME NEW i \in Indices, PersonMutes(i) PROVE SweepInv'
    <2>1. UNCHANGED <<stream, job, owned, active, started, sweep>> /\ (Busy' <=> Busy)
      BY <1>14 DEF PersonMutes, memory, Busy
    <2>2. ByPlugin' \subseteq ByPlugin \union {i}
      BY <1>14 DEF PersonMutes
    <2>3. i \in ByPlugin' => IF job.listed THEN stream[i] = job.kept[i] ELSE stream[i] = owned[i]
      BY <1>14 DEF PersonMutes, Claimed
    <2> QED
      BY <2>1, <2>2, <2>3 DEF JobInv
  <1>15. ASSUME NEW i \in Indices, PersonUnmutes(i) PROVE SweepInv'
    BY <1>15 DEF PersonUnmutes, memory, Busy
  <1>16. CASE UNCHANGED vars
    BY <1>16 DEF vars, server, memory, Busy
  <1> QED
    BY <1>1, <1>2, <1>3, <1>4, <1>5, <1>6, <1>7, <1>8, <1>9, <1>10, <1>11, <1>12, <1>13, <1>14,
       <1>15, <1>16 DEF Next, Listener, Environment
-----------------------------------------------------------------------------
\* Initially nobody has muted anything.
LEMMA InitHolds == ASSUME Init PROVE Inv
  <1> USE DEF Init
  <1>1. NoRecord \in Records /\ (\A i \in Indices : NoRecord[i] = None)
    BY NoRecordType DEF NoRecord
  <1>2. job = [kind |-> "none", listed |-> FALSE, todo |-> {}, kept |-> NoRecord, last |-> FALSE]
    BY DEF NoJob
  <1>3. TypeOK
    <2>1. stream \in Records
      BY DEF Records, Idents
    <2>2. faults \in 0..MaxFaults
      BY MuteAssumption
    <2>3. job \in Jobs
      BY <1>1, <1>2 DEF Jobs
    <2> QED
      BY <1>1, <2>1, <2>2, <2>3 DEF TypeOK
  <1>4. JobInv /\ TodoInv
    BY <1>2 DEF JobInv, TodoInv, Busy
  <1>5. StreamInv
    BY <1>1, <1>2 DEF StreamInv
  <1>6. HandInv /\ KnownInv /\ SweepInv
    BY DEF HandInv, KnownInv, SweepInv, ByHand, ByPlugin
  <1> QED
    BY <1>3, <1>4, <1>5, <1>6 DEF Inv

\* Every step keeps the invariant.
LEMMA InvNext == ASSUME Inv, [Next]_vars PROVE Inv'
  BY TypeNext, JobNext, StreamNext, TodoNext, HandNext, KnownNext, SweepNext DEF Inv

(***************************************************************************)
(* The invariant holds of every behaviour, whatever fails or is killed.    *)
(***************************************************************************)
THEOREM MuteSafe == Spec => []Inv
  BY InitHolds, InvNext, PTL DEF Spec

(***************************************************************************)
(* Every variable of the mute keeps its type.                              *)
(***************************************************************************)
THEOREM MuteTypeCorrect == Spec => []TypeOK
  <1>1. Inv => TypeOK
    BY DEF Inv
  <1> QED
    BY <1>1, MuteSafe, PTL

(***************************************************************************)
(* No scan, release, pump or crash of hold.Mute unmutes what the person    *)
(* muted outside the slice.                                                *)
(***************************************************************************)
THEOREM HandsStay == Spec => []HandMutesStay
  <1>1. Inv => HandMutesStay
    BY DEF Inv, HandInv, ByHand, HandMutesStay
  <1> QED
    BY <1>1, MuteSafe, PTL

(***************************************************************************)
(* No mute of hold.Mute is orphaned: outside the slice a record names it,  *)
(* inside the slice a release that is over and owes no sweep has seen to   *)
(* it.                                                                     *)
(***************************************************************************)
THEOREM Known == Spec => []MutesAreKnown
  <1>1. ASSUME Inv PROVE MutesHaveRecords
    <2>1. SUFFICES ASSUME NEW i \in ByPlugin, stream[i] \notin Slice
                   PROVE  stream[i] \in {owned[i], file[i], job.kept[i]}
      BY DEF MutesHaveRecords, ByPlugin
    <2>2. stream[i] # None /\ TodoInv /\ KnownInv
      BY <1>1 DEF Inv, StreamInv, ByPlugin
    <2>3. CASE job.listed
      BY <2>1, <2>2, <2>3 DEF KnownInv, TodoInv
    <2>4. CASE ~job.listed
      BY <2>1, <2>2, <2>4 DEF KnownInv
    <2> QED
      BY <2>3, <2>4
  <1>2. ASSUME Inv PROVE SliceIsAudible
    <2>1. SUFFICES ASSUME started, ~active, ~Busy, owned = NoRecord, ~sweep,
                          NEW i \in muted, stream[i] \in Slice, i \notin hand \union unsure
                   PROVE  FALSE
      BY DEF SliceIsAudible
    <2>2. stream[i] = owned[i] /\ stream[i] # None /\ i \in Indices
      BY <1>2, <2>1 DEF Inv, SweepInv, StreamInv, ByPlugin, TypeOK
    <2> QED
      BY <2>1, <2>2 DEF NoRecord
  <1> QED
    BY <1>1, <1>2, MuteSafe, PTL DEF MutesAreKnown
=============================================================================
