-------------------------- MODULE ReconcileProofs --------------------------
(***************************************************************************)
(* Proofs about Reconcile, for every value of its constants: any number of *)
(* clients, configurations, addresses, faults and listeners.               *)
(***************************************************************************)
EXTENDS Reconcile, TLAPS

(***************************************************************************)
(* What the constants give.                                                *)
(***************************************************************************)
\* "block nothing" is a policy and, as a baseline, no baseline at all.
LEMMA NoAddrsTyped == NoAddrs \in Desired /\ NoBaseline \in Baselines
  BY DEF Desired, NoBaseline, Baselines

\* Resolution only answers with policies.
LEMMA AnswersTyped ==
  ASSUME NEW config \in Configs, NEW p \in Answers[config]
  PROVE  p \in Desired
  BY ReconcileAssumption DEF ReconcileAssumption

\* The three markers are different from each other and are no address sets.
LEMMA MarkersDistinct ==
  /\ NoAddrs # Absent /\ NoAddrs # Drifted /\ Absent # Drifted
  /\ NoAddrs \notin Policies /\ Absent \notin Policies /\ Drifted \notin Policies
  BY FirewallAssumption DEF FirewallAssumption, NoAddrs, Absent, Drifted

(***************************************************************************)
(* Type correctness of the parts the actions are made of.                  *)
(***************************************************************************)
\* The fault counter stays within its bound.
LEMMA FaultTyped ==
  ASSUME FirewallTypeOK, Fault
  PROVE  faults' \in 0..MaxFaults
  BY FirewallAssumption DEF FirewallAssumption, FirewallTypeOK, Fault

LEMMA CommandFailsTyped ==
  ASSUME FirewallTypeOK, CommandFails
  PROVE  faults' \in 0..MaxFaults
  BY FaultTyped DEF CommandFails, FirewallTypeOK

\* A command that loads a policy leaves a well-formed table.
LEMMA LoadTyped ==
  ASSUME FirewallTypeOK, NEW p \in Desired, Load(p)
  PROVE  table' \in Tables
  BY DEF FirewallTypeOK, Load, Tables

LEMMA UnansweredTyped ==
  ASSUME FirewallTypeOK, NEW p \in Desired, Unanswered(p)
  PROVE  table' \in Tables /\ late' \in SUBSET Desired /\ intact' \in BOOLEAN
  BY LoadTyped DEF FirewallTypeOK, Unanswered

\* A worker starts, or is gone, with well-formed locals.
LEMMA LocalsTyped ==
  ASSUME NEW config \in Configs, NEW start \in {"idle", "resolve"}, Locals(start, config)
  PROVE  WorkerTypeOK'
  BY DEF Locals, WorkerTypeOK, PCs, Waiting, Desired, Replies

LEMMA InvalidatedTyped ==
  ASSUME LoopTypeOK, NEW config
  PROVE  Invalidated(config) \in Baselines
  BY NoAddrsTyped DEF LoopTypeOK, Invalidated

LEMMA RequestTyped ==
  ASSUME LoopTypeOK, WorkerTypeOK, NEW config \in Configs, Request(config)
  PROVE  WorkerTypeOK' /\ rerun' \in BOOLEAN /\ baseline' \in Baselines
  <1>1. baseline' \in Baselines
    BY InvalidatedTyped DEF Request
  <1>2. CASE busy
    BY <1>1, <1>2 DEF Request, WorkerTypeOK, Waiting
  <1>3. CASE ~busy
    BY <1>1, <1>3, LocalsTyped DEF Request, Launch, LoopTypeOK
  <1>4. QED BY <1>2, <1>3

LEMMA AdoptedTyped ==
  ASSUME CliTypeOK
  PROVE  Adopted \in [Clients -> ConnStates]
  BY DEF CliTypeOK, Adopted, ConnStates, Waiting

(***************************************************************************)
(* Type correctness.  One step per action of Next, and under it one for    *)
(* what the action leaves alone and one per part of TypeOK it changes.     *)
(***************************************************************************)
LEMMA TypeInit == Init => TypeOK
  <1> SUFFICES ASSUME Init PROVE TypeOK
    OBVIOUS
  <1>1. FirewallTypeOK
    <2>1. table \in Tables
      BY DEF Init, FirewallInit, Tables
    <2>2. faults \in 0..MaxFaults
      BY FirewallAssumption DEF FirewallAssumption, Init, FirewallInit
    <2>3. QED BY <2>1, <2>2 DEF Init, FirewallInit, FirewallTypeOK
  <1>2. FilesTypeOK
    BY DEF Init, FilesTypeOK
  <1>3. LoopTypeOK
    <2>1. boots \in 0..MaxBoots
      BY ReconcileAssumption DEF ReconcileAssumption, Init
    <2>2. QED BY <2>1, NoAddrsTyped DEF Init, LoopTypeOK
  <1>4. WorkerTypeOK
    BY NoAddrsTyped DEF Init, WorkerTypeOK, PCs, Waiting, Replies
  <1>5. CliTypeOK
    BY DEF Init, CliTypeOK, CommandStates, ConnStates
  <1>6. QED BY <1>1, <1>2, <1>3, <1>4, <1>5 DEF TypeOK

LEMMA TypeNext == TypeOK /\ [Next]_vars => TypeOK'
  <1> SUFFICES ASSUME TypeOK, [Next]_vars PROVE TypeOK'
    OBVIOUS
  <1> USE DEF TypeOK
  <1>f. UNCHANGED fwVars => FirewallTypeOK'
    BY DEF fwVars, FirewallTypeOK
  <1>g. UNCHANGED files => FilesTypeOK'
    BY DEF files, FilesTypeOK
  <1>l. UNCHANGED loop => LoopTypeOK'
    BY DEF loop, LoopTypeOK
  <1>w. UNCHANGED worker => WorkerTypeOK'
    BY DEF worker, WorkerTypeOK
  <1>c. UNCHANGED cli => CliTypeOK'
    BY DEF cli, CliTypeOK
  <1>1. ASSUME Boot PROVE TypeOK'
    <2>1. FirewallTypeOK' /\ CliTypeOK'
      BY <1>1, <1>f, <1>c DEF Boot, cli
    <2>2. FilesTypeOK'
      BY <1>1 DEF Boot, FilesTypeOK
    <2>3. LoopTypeOK'
      <3>1. cfg' \in Configs
        BY <1>1 DEF Boot, FilesTypeOK
      <3>2. boots' \in 0..MaxBoots
        BY <1>1, ReconcileAssumption DEF ReconcileAssumption, Boot, LoopTypeOK
      <3>3. QED BY <1>1, <3>1, <3>2 DEF Boot, LoopTypeOK
    <2>4. WorkerTypeOK'
      BY <1>1, LocalsTyped DEF Boot, Launch, FilesTypeOK, WorkerTypeOK
    <2>q. QED BY <2>1, <2>2, <2>3, <2>4
  <1>2. ASSUME Bind PROVE TypeOK'
    <2>1. FirewallTypeOK' /\ FilesTypeOK' /\ WorkerTypeOK' /\ CliTypeOK'
      BY <1>2, <1>f, <1>g, <1>w, <1>c DEF Bind, worker, cli
    <2>2. LoopTypeOK'
      BY <1>2 DEF Bind, LoopTypeOK
    <2>q. QED BY <2>1, <2>2
  <1>3. ASSUME Periodic PROVE TypeOK'
    <2>1. FirewallTypeOK' /\ FilesTypeOK'
      BY <1>3, <1>f, <1>g DEF Periodic, files
    <2>2. LoopTypeOK'
      BY <1>3, RequestTyped DEF Periodic, LoopTypeOK
    <2>3. WorkerTypeOK'
      <3>1. CASE busy
        BY <1>3, <1>w, <3>1 DEF Periodic
      <3>2. CASE ~busy
        BY <1>3, <3>2, RequestTyped DEF Periodic, LoopTypeOK
      <3>3. QED BY <3>1, <3>2
    <2>4. CliTypeOK'
      BY <1>3, AdoptedTyped DEF Periodic, CliTypeOK
    <2>q. QED BY <2>1, <2>2, <2>3, <2>4
  <1>4. ASSUME TakeStale PROVE TypeOK'
    <2>1. FirewallTypeOK' /\ FilesTypeOK' /\ CliTypeOK'
      BY <1>4, <1>f, <1>g, <1>c DEF TakeStale, files, cli
    <2>2. LoopTypeOK'
      BY <1>4, NoAddrsTyped DEF TakeStale, LoopTypeOK
    <2>3. WorkerTypeOK'
      BY <1>4, LocalsTyped DEF TakeStale, Launch, LoopTypeOK
    <2>q. QED BY <2>1, <2>2, <2>3
  <1>5. ASSUME TakeCurrent PROVE TypeOK'
    <2>1. FirewallTypeOK'
      BY <1>5, <1>f DEF TakeCurrent
    <2>2. FilesTypeOK'
      BY <1>5 DEF TakeCurrent, WorkerTypeOK, FilesTypeOK
    <2>3. LoopTypeOK'
      BY <1>5, InvalidatedTyped DEF TakeCurrent, LoopTypeOK
    <2>4. WorkerTypeOK'
      BY <1>5, LocalsTyped DEF TakeCurrent, Launch, LoopTypeOK, WorkerTypeOK
    <2>5. CliTypeOK'
      BY <1>5 DEF TakeCurrent, Reply, WorkerTypeOK, ConnStates, Replies, CliTypeOK
    <2>q. QED BY <2>1, <2>2, <2>3, <2>4, <2>5
  <1>6. ASSUME NEW x \in Clients, Accept(x) PROVE TypeOK'
    <2>1. FirewallTypeOK' /\ FilesTypeOK' /\ LoopTypeOK' /\ WorkerTypeOK'
      BY <1>6, <1>f, <1>g, <1>l, <1>w DEF Accept, files, loop, worker
    <2>2. CliTypeOK'
      BY <1>6 DEF Accept, ConnStates, CliTypeOK
    <2>q. QED BY <2>1, <2>2
  <1>7. ASSUME NEW x \in Clients, RefuseReload(x) PROVE TypeOK'
    <2>1. FirewallTypeOK' /\ FilesTypeOK' /\ LoopTypeOK' /\ WorkerTypeOK'
      BY <1>7, <1>f, <1>g, <1>l, <1>w DEF RefuseReload, files, loop, worker
    <2>2. CliTypeOK'
      BY <1>7 DEF RefuseReload, ConnStates, Replies, CliTypeOK
    <2>q. QED BY <2>1, <2>2
  <1>8. ASSUME NEW x \in Clients, Reload(x) PROVE TypeOK'
    <2>1. FirewallTypeOK'
      BY <1>8, <1>f DEF Reload
    <2>2. FilesTypeOK'
      BY <1>8 DEF Reload, FilesTypeOK
    <2>3. LoopTypeOK'
      BY <1>8, RequestTyped DEF Reload, FilesTypeOK, LoopTypeOK
    <2>4. WorkerTypeOK'
      BY <1>8, RequestTyped DEF Reload, FilesTypeOK, WorkerTypeOK
    <2>5. CliTypeOK'
      BY <1>8, AdoptedTyped DEF Reload, ConnStates, Waiting, CliTypeOK
    <2>q. QED BY <2>1, <2>2, <2>3, <2>4, <2>5
  <1>9. ASSUME NEW x \in Clients, Refresh(x) PROVE TypeOK'
    <2>1. FirewallTypeOK' /\ FilesTypeOK'
      BY <1>9, <1>f, <1>g DEF Refresh, files
    <2>2. LoopTypeOK'
      BY <1>9, RequestTyped DEF Refresh, LoopTypeOK
    <2>3. WorkerTypeOK'
      BY <1>9, RequestTyped DEF Refresh, LoopTypeOK, WorkerTypeOK
    <2>4. CliTypeOK'
      BY <1>9, AdoptedTyped DEF Refresh, ConnStates, Waiting, CliTypeOK
    <2>q. QED BY <2>1, <2>2, <2>3, <2>4
  <1>10. ASSUME NEW x \in Clients, Drop(x) PROVE TypeOK'
    <2>1. FirewallTypeOK' /\ FilesTypeOK' /\ LoopTypeOK' /\ WorkerTypeOK'
      BY <1>10, <1>f, <1>g, <1>l, <1>w DEF Drop, files, loop, worker
    <2>2. CliTypeOK'
      BY <1>10 DEF Drop, ConnStates, CliTypeOK
    <2>q. QED BY <2>1, <2>2
  <1>11. ASSUME NEW x \in Clients, Edit(x) PROVE TypeOK'
    <2>1. FirewallTypeOK' /\ LoopTypeOK' /\ WorkerTypeOK'
      BY <1>11, <1>f, <1>l, <1>w DEF Edit, loop, worker
    <2>2. FilesTypeOK'
      BY <1>11, ReconcileAssumption DEF Edit, ReconcileAssumption, FilesTypeOK
    <2>3. CliTypeOK'
      BY <1>11 DEF Edit, CommandStates, CliTypeOK
    <2>q. QED BY <2>1, <2>2, <2>3
  <1>12. ASSUME NEW x \in Clients, Connect(x) PROVE TypeOK'
    <2>1. FirewallTypeOK' /\ FilesTypeOK' /\ LoopTypeOK' /\ WorkerTypeOK'
      BY <1>12, <1>f, <1>g, <1>l, <1>w DEF Connect, files, loop, worker
    <2>2. CliTypeOK'
      BY <1>12 DEF Connect, CommandStates, ConnStates, CliTypeOK
    <2>q. QED BY <2>1, <2>2
  <1>13. ASSUME NEW x \in Clients, Leave(x) PROVE TypeOK'
    <2>1. FirewallTypeOK' /\ FilesTypeOK' /\ LoopTypeOK' /\ WorkerTypeOK'
      BY <1>13, <1>f, <1>g, <1>l, <1>w DEF Leave, files, loop, worker
    <2>2. CliTypeOK'
      BY <1>13 DEF Leave, CommandStates, CliTypeOK
    <2>q. QED BY <2>1, <2>2
  <1>14. ASSUME NEW x \in Clients, FlushBlock(x) PROVE TypeOK'
    <2>1. FilesTypeOK' /\ LoopTypeOK' /\ WorkerTypeOK'
      BY <1>14, <1>g, <1>l, <1>w DEF FlushBlock, files, loop, worker
    <2>2. FirewallTypeOK'
      BY <1>14, FaultTyped, LoadTyped, UnansweredTyped, NoAddrsTyped DEF FlushBlock, FirewallTypeOK
    <2>3. CliTypeOK'
      BY <1>14 DEF FlushBlock, CommandStates, CliTypeOK
    <2>q. QED BY <2>1, <2>2, <2>3
  <1>15. ASSUME Stop PROVE TypeOK'
    <2>1. FirewallTypeOK' /\ FilesTypeOK' /\ WorkerTypeOK'
      BY <1>15, <1>f, <1>g, <1>w DEF Stop, files, worker
    <2>2. LoopTypeOK'
      BY <1>15, NoAddrsTyped DEF Stop, LoopTypeOK
    <2>3. CliTypeOK'
      BY <1>15 DEF Stop, ConnStates, CliTypeOK
    <2>q. QED BY <2>1, <2>2, <2>3
  <1>16. ASSUME Exit PROVE TypeOK'
    <2>1. FilesTypeOK' /\ CliTypeOK'
      BY <1>16, <1>g, <1>c DEF Exit, files, cli
    <2>2. FirewallTypeOK'
      BY <1>16 DEF Exit, WorkerTypeOK, FirewallTypeOK
    <2>3. LoopTypeOK'
      BY <1>16, NoAddrsTyped DEF Exit, LoopTypeOK
    <2>4. WorkerTypeOK'
      BY <1>16, LocalsTyped DEF Exit, LoopTypeOK, WorkerTypeOK
    <2>q. QED BY <2>1, <2>2, <2>3, <2>4
  <1>17. ASSUME Resolve PROVE TypeOK'
    <2>1. FirewallTypeOK' /\ FilesTypeOK' /\ LoopTypeOK' /\ CliTypeOK'
      BY <1>17, <1>f, <1>g, <1>l, <1>c DEF Resolve, WorkerUnchanged, files, loop, cli
    <2>2. WorkerTypeOK'
      BY <1>17, NoAddrsTyped, AnswersTyped DEF Resolve, WorkerUnchanged, PCs, WorkerTypeOK
    <2>q. QED BY <2>1, <2>2
  <1>18. ASSUME ResolveRaises PROVE TypeOK'
    <2>1. FilesTypeOK' /\ CliTypeOK'
      BY <1>18, <1>g, <1>c DEF ResolveRaises, WorkerUnchanged, files, cli
    <2>2. FirewallTypeOK'
      BY <1>18, FaultTyped DEF ResolveRaises, FirewallTypeOK
    <2>3. LoopTypeOK'
      BY <1>18, NoAddrsTyped DEF ResolveRaises, WorkerUnchanged, LoopTypeOK
    <2>4. WorkerTypeOK'
      BY <1>18 DEF ResolveRaises, WorkerUnchanged, PCs, WorkerTypeOK
    <2>q. QED BY <2>1, <2>2, <2>3, <2>4
  <1>19. ASSUME StartSlice PROVE TypeOK'
    <2>1. FilesTypeOK' /\ LoopTypeOK' /\ CliTypeOK'
      BY <1>19, <1>g, <1>l, <1>c DEF StartSlice, WorkerUnchanged, files, loop, cli
    <2>2. FirewallTypeOK'
      BY <1>19 DEF StartSlice, FirewallTypeOK
    <2>3. WorkerTypeOK'
      BY <1>19 DEF StartSlice, WorkerUnchanged, PCs, WorkerTypeOK
    <2>q. QED BY <2>1, <2>2, <2>3
  <1>20. ASSUME StartSliceFails PROVE TypeOK'
    <2>1. FilesTypeOK' /\ CliTypeOK'
      BY <1>20, <1>g, <1>c DEF StartSliceFails, WorkerUnchanged, files, cli
    <2>2. FirewallTypeOK'
      BY <1>20, CommandFailsTyped DEF StartSliceFails, FirewallTypeOK
    <2>3. LoopTypeOK'
      BY <1>20, NoAddrsTyped DEF StartSliceFails, WorkerUnchanged, LoopTypeOK
    <2>4. WorkerTypeOK'
      BY <1>20 DEF StartSliceFails, WorkerUnchanged, PCs, WorkerTypeOK
    <2>q. QED BY <2>1, <2>2, <2>3, <2>4
  <1>21. ASSUME BeginReconcile PROVE TypeOK'
    <2>1. FirewallTypeOK' /\ FilesTypeOK' /\ CliTypeOK'
      BY <1>21, <1>f, <1>g, <1>c DEF BeginReconcile, WorkerUnchanged, files, cli
    <2>2. LoopTypeOK'
      BY <1>21, NoAddrsTyped DEF BeginReconcile, WorkerUnchanged, LoopTypeOK
    <2>3. WorkerTypeOK'
      BY <1>21 DEF BeginReconcile, WorkerUnchanged, PCs, WorkerTypeOK
    <2>q. QED BY <2>1, <2>2, <2>3
  <1>22. ASSUME Recheck PROVE TypeOK'
    <2>1. FilesTypeOK' /\ CliTypeOK'
      BY <1>22, <1>g, <1>c DEF Recheck, WorkerUnchanged, files, cli
    <2>2. FirewallTypeOK'
      BY <1>22, CommandFailsTyped DEF Recheck, FirewallTypeOK
    <2>3. LoopTypeOK'
      BY <1>22, NoAddrsTyped DEF Recheck, WorkerUnchanged, LoopTypeOK
    <2>4. WorkerTypeOK'
      BY <1>22 DEF Recheck, Return, WorkerUnchanged, PCs, WorkerTypeOK
    <2>q. QED BY <2>1, <2>2, <2>3, <2>4
  <1>23. ASSUME Flush PROVE TypeOK'
    <2>1. FilesTypeOK' /\ LoopTypeOK' /\ CliTypeOK'
      BY <1>23, <1>g, <1>l, <1>c DEF Flush, WorkerUnchanged, files, loop, cli
    <2>2. FirewallTypeOK'
      BY <1>23, CommandFailsTyped, LoadTyped, UnansweredTyped, NoAddrsTyped DEF Flush, FirewallTypeOK
    <2>3. WorkerTypeOK'
      BY <1>23 DEF Flush, Return, WorkerUnchanged, PCs, WorkerTypeOK
    <2>q. QED BY <2>1, <2>2, <2>3
  <1>24. ASSUME Replace PROVE TypeOK'
    <2>1. FilesTypeOK' /\ LoopTypeOK' /\ CliTypeOK'
      BY <1>24, <1>g, <1>l, <1>c DEF Replace, WorkerUnchanged, files, loop, cli
    <2>2. FirewallTypeOK'
      BY <1>24, CommandFailsTyped, LoadTyped, UnansweredTyped DEF Replace, WorkerTypeOK, FirewallTypeOK
    <2>3. WorkerTypeOK'
      BY <1>24 DEF Replace, Return, WorkerUnchanged, PCs, WorkerTypeOK
    <2>q. QED BY <2>1, <2>2, <2>3
  <1>25. ASSUME Verify PROVE TypeOK'
    <2>1. FilesTypeOK' /\ LoopTypeOK' /\ CliTypeOK'
      BY <1>25, <1>g, <1>l, <1>c DEF Verify, WorkerUnchanged, files, loop, cli
    <2>2. FirewallTypeOK'
      BY <1>25, CommandFailsTyped DEF Verify, FirewallTypeOK
    <2>3. WorkerTypeOK'
      BY <1>25 DEF Verify, Return, WorkerUnchanged, PCs, FirewallTypeOK, WorkerTypeOK
    <2>q. QED BY <2>1, <2>2, <2>3
  <1>26. ASSUME Keep PROVE TypeOK'
    <2>1. FirewallTypeOK' /\ FilesTypeOK' /\ CliTypeOK'
      BY <1>26, <1>f, <1>g, <1>c DEF Keep, WorkerUnchanged, files, cli
    <2>2. LoopTypeOK'
      BY <1>26 DEF Keep, WorkerUnchanged, WorkerTypeOK, Baselines, LoopTypeOK
    <2>3. WorkerTypeOK'
      BY <1>26 DEF Keep, WorkerUnchanged, PCs, WorkerTypeOK
    <2>q. QED BY <2>1, <2>2, <2>3
  <1>27. ASSUME Observe PROVE TypeOK'
    <2>1. FirewallTypeOK' /\ FilesTypeOK' /\ LoopTypeOK' /\ CliTypeOK'
      BY <1>27, <1>f, <1>g, <1>l, <1>c DEF Observe, WorkerUnchanged, files, loop, cli
    <2>2. WorkerTypeOK'
      BY <1>27 DEF Observe, WorkerUnchanged, PCs, Replies, WorkerTypeOK
    <2>q. QED BY <2>1, <2>2
  <1>28. ASSUME Publish PROVE TypeOK'
    <2>1. FirewallTypeOK' /\ FilesTypeOK' /\ CliTypeOK'
      BY <1>28, <1>f, <1>g, <1>c DEF Publish, files, cli
    <2>2. LoopTypeOK'
      BY <1>28 DEF Publish, LoopTypeOK
    <2>3. WorkerTypeOK'
      BY <1>28 DEF Publish, PCs, WorkerTypeOK
    <2>q. QED BY <2>1, <2>2, <2>3
  <1>29. ASSUME Wake PROVE TypeOK'
    <2>1. FirewallTypeOK' /\ FilesTypeOK' /\ CliTypeOK'
      BY <1>29, <1>f, <1>g, <1>c DEF Wake, WorkerUnchanged, files, cli
    <2>2. LoopTypeOK'
      BY <1>29 DEF Wake, WorkerUnchanged, LoopTypeOK
    <2>3. WorkerTypeOK'
      BY <1>29 DEF Wake, WorkerUnchanged, PCs, WorkerTypeOK
    <2>q. QED BY <2>1, <2>2, <2>3
  <1>30. ASSUME CommitLate, UNCHANGED <<files, loop, worker, cli>> PROVE TypeOK'
    <2>1. FilesTypeOK' /\ LoopTypeOK' /\ WorkerTypeOK' /\ CliTypeOK'
      BY <1>30, <1>g, <1>l, <1>w, <1>c
    <2>2. FirewallTypeOK'
      BY <1>30, LoadTyped DEF CommitLate, FirewallTypeOK
    <2>q. QED BY <2>1, <2>2
  <1>31. ASSUME Drift, UNCHANGED <<files, loop, worker, cli>> PROVE TypeOK'
    <2>1. FilesTypeOK' /\ LoopTypeOK' /\ WorkerTypeOK' /\ CliTypeOK'
      BY <1>31, <1>g, <1>l, <1>w, <1>c
    <2>2. FirewallTypeOK'
      BY <1>31, FaultTyped DEF Drift, Tables, FirewallTypeOK
    <2>q. QED BY <2>1, <2>2
  <1>32. ASSUME LoseSlice, UNCHANGED <<files, loop, worker, cli>> PROVE TypeOK'
    <2>1. FilesTypeOK' /\ LoopTypeOK' /\ WorkerTypeOK' /\ CliTypeOK'
      BY <1>32, <1>g, <1>l, <1>w, <1>c
    <2>2. FirewallTypeOK'
      BY <1>32, FaultTyped DEF LoseSlice, FirewallTypeOK
    <2>q. QED BY <2>1, <2>2
  <1>33. ASSUME InstallHelper, UNCHANGED <<files, loop, worker, cli>> PROVE TypeOK'
    <2>1. FilesTypeOK' /\ LoopTypeOK' /\ WorkerTypeOK' /\ CliTypeOK'
      BY <1>33, <1>g, <1>l, <1>w, <1>c
    <2>2. FirewallTypeOK'
      BY <1>33 DEF InstallHelper, FirewallTypeOK
    <2>q. QED BY <2>1, <2>2
  <1>34. CASE UNCHANGED vars
    BY <1>34, <1>f, <1>g, <1>l, <1>w, <1>c DEF vars
  <1>q. QED
    BY <1>1, <1>2, <1>3, <1>4, <1>5, <1>6, <1>7, <1>8, <1>9, <1>10, <1>11,
       <1>12, <1>13, <1>14, <1>15, <1>16, <1>17, <1>18, <1>19, <1>20, <1>21,
       <1>22, <1>23, <1>24, <1>25, <1>26, <1>27, <1>28, <1>29, <1>30, <1>31,
       <1>32, <1>33, <1>34
    DEF Next, Loop, Commands, Worker, Firewalled, Environment

\* Every variable keeps its type.
THEOREM TypeCorrect == Spec => []TypeOK
  <1>1. QED BY TypeInit, TypeNext, PTL DEF Spec
-----------------------------------------------------------------------------
(***************************************************************************)
(* Safety.  Inv is inductive relative to TypeOK: each of its parts is      *)
(* preserved by every step that starts from all of them.                   *)
(***************************************************************************)
\* A request leaves a worker out: the obsolete one, with a follow-up owed, or a
\* new one with the given configuration.
LEMMA RequestEffect ==
  ASSUME NEW config, Request(config)
  PROVE  /\ busy'
         /\ \/ /\ busy
               /\ rerun'
               /\ wgen' = Superseded
               /\ UNCHANGED <<pc, wcfg, desired, ident, result, extra>>
            \/ /\ ~busy
               /\ UNCHANGED rerun
               /\ pc' = "resolve"
               /\ wgen' = Latest
               /\ wcfg' = config
  BY DEF Request, Launch, Locals, busy

\* A waiting client is in no other state.
LEMMA Distinct ==
  /\ Latest # Superseded
  /\ Waiting = {Latest, Superseded}
  /\ "none" \notin Waiting /\ "queued" \notin Waiting /\ "sent" \notin Waiting
  /\ "refused" \notin Waiting /\ "closed" \notin Waiting
  /\ \A r \in Replies : r \notin Waiting
  BY DEF Latest, Superseded, Waiting, Replies

\* Nobody has a connection before it asked for one.
LEMMA CommandInvNext == TypeOK /\ Inv /\ [Next]_vars => CommandInv'
  <1> SUFFICES ASSUME TypeOK, Inv, [Next]_vars PROVE CommandInv'
    OBVIOUS
  <1>u. UNCHANGED <<cmd, conn>> => CommandInv'
    BY DEF Inv, CommandInv
  <1>1. ASSUME Periodic PROVE CommandInv'
    BY <1>1, RequestEffect, Distinct DEF Periodic, Invalidated, Adopted, Inv,
      CommandInv, cli, worker
  <1>2. ASSUME TakeCurrent PROVE CommandInv'
    BY <1>2, Distinct DEF TakeCurrent, Launch, Locals, Invalidated, Reply,
      Inv, CommandInv, cli, TypeOK, CliTypeOK, Latest, Superseded
  <1>3. ASSUME NEW x \in Clients, Accept(x) PROVE CommandInv'
    BY <1>3, Distinct DEF Accept, Inv, CommandInv, cli, TypeOK, CliTypeOK,
      Latest, Superseded
  <1>4. ASSUME NEW x \in Clients, RefuseReload(x) PROVE CommandInv'
    BY <1>4, Distinct DEF RefuseReload, Inv, CommandInv, cli, TypeOK,
      CliTypeOK, Latest, Superseded
  <1>5. ASSUME NEW x \in Clients, Reload(x) PROVE CommandInv'
    BY <1>5, RequestEffect, Distinct DEF Reload, Invalidated, Adopted, Inv,
      CommandInv, cli
  <1>6. ASSUME NEW x \in Clients, Refresh(x) PROVE CommandInv'
    BY <1>6, RequestEffect, Distinct DEF Refresh, Invalidated, Adopted, Inv,
      CommandInv, cli
  <1>7. ASSUME NEW x \in Clients, Drop(x) PROVE CommandInv'
    BY <1>7, Distinct DEF Drop, Inv, CommandInv, cli, TypeOK, CliTypeOK,
      Latest, Superseded
  <1>8. ASSUME NEW x \in Clients, Edit(x) PROVE CommandInv'
    BY <1>8, Distinct DEF Edit, Inv, CommandInv, cli, TypeOK, CliTypeOK,
      Latest, Superseded
  <1>9. ASSUME NEW x \in Clients, Connect(x) PROVE CommandInv'
    BY <1>9, Distinct DEF Connect, Inv, CommandInv, TypeOK, CliTypeOK, Latest,
      Superseded
  <1>10. ASSUME NEW x \in Clients, Leave(x) PROVE CommandInv'
    BY <1>10, Distinct DEF Leave, Inv, CommandInv, cli, TypeOK, CliTypeOK,
      Latest, Superseded
  <1>11. ASSUME NEW x \in Clients, FlushBlock(x) PROVE CommandInv'
    BY <1>11, Distinct DEF FlushBlock, Unanswered, Load, Inv, CommandInv, cli,
      TypeOK, CliTypeOK, Latest, Superseded
  <1>12. ASSUME Stop PROVE CommandInv'
    BY <1>12, Distinct DEF Stop, Inv, CommandInv, cli, TypeOK, CliTypeOK,
      Latest, Superseded
  <1>13. CASE Boot \/ Bind \/ TakeStale \/
          Exit \/ Resolve \/ ResolveRaises \/
          StartSlice \/ StartSliceFails \/ BeginReconcile \/
          Recheck \/ Flush \/ Replace \/
          Verify \/ Keep \/ Observe \/
          Publish \/ Wake \/ (CommitLate /\ UNCHANGED <<files, loop, worker, cli>>) \/
          (Drift /\ UNCHANGED <<files, loop, worker, cli>>) \/ (LoseSlice /\ UNCHANGED <<files, loop, worker, cli>>) \/ (InstallHelper /\ UNCHANGED <<files, loop, worker, cli>>)
    BY <1>13, <1>u DEF Boot, Bind, TakeStale, Exit, Resolve, ResolveRaises,
      StartSlice, StartSliceFails, BeginReconcile, Recheck, Flush, Replace, Verify,
      Keep, Observe, Publish, Wake, CommitLate, Drift, LoseSlice, InstallHelper,
      WorkerUnchanged, cli
  <1>14. CASE UNCHANGED vars
    BY <1>14, <1>u DEF vars, cli
  <1>q. QED
    BY <1>1, <1>2, <1>3, <1>4, <1>5, <1>6, <1>7, <1>8, <1>9, <1>10, <1>11,
       <1>12, <1>13, <1>14
    DEF Next, Loop, Commands, Worker, Firewalled, Environment

\* No step hands an item over early, leaves a worker or a baseline behind
\* the process, or makes a client wait for a listener that does not serve.
LEMMA HandoverInvNext == TypeOK /\ Inv /\ [Next]_vars => HandoverInv'
  <1> SUFFICES ASSUME TypeOK, Inv, [Next]_vars PROVE HandoverInv'
    OBVIOUS
  <1>u. UNCHANGED <<phase, conn, pc, baseline, pending, wake>> => HandoverInv'
    BY DEF Inv, HandoverInv, busy
  <1>1. ASSUME Boot PROVE HandoverInv'
    BY <1>1 DEF Boot, Launch, Locals, Inv, HandoverInv, busy, loop, cli
  <1>2. ASSUME Bind PROVE HandoverInv'
    BY <1>2 DEF Bind, Inv, HandoverInv, busy, loop, worker, cli
  <1>3. ASSUME Periodic PROVE HandoverInv'
    BY <1>3, RequestEffect, Distinct DEF Periodic, Invalidated, Adopted, Inv,
      HandoverInv, busy, loop, TypeOK, CliTypeOK, worker
  <1>4. ASSUME TakeStale PROVE HandoverInv'
    BY <1>4 DEF TakeStale, Launch, Locals, Inv, HandoverInv, busy, loop, cli
  <1>5. ASSUME TakeCurrent PROVE HandoverInv'
    BY <1>5 DEF TakeCurrent, Launch, Locals, Invalidated, Reply, Inv,
      HandoverInv, busy, loop
  <1>6. ASSUME NEW x \in Clients, Accept(x) PROVE HandoverInv'
    BY <1>6 DEF Accept, Inv, HandoverInv, busy, loop, worker
  <1>7. ASSUME NEW x \in Clients, RefuseReload(x) PROVE HandoverInv'
    BY <1>7 DEF RefuseReload, Inv, HandoverInv, busy, loop, worker
  <1>8. ASSUME NEW x \in Clients, Reload(x) PROVE HandoverInv'
    BY <1>8, RequestEffect, Distinct DEF Reload, Invalidated, Adopted, Inv,
      HandoverInv, busy, loop
  <1>9. ASSUME NEW x \in Clients, Refresh(x) PROVE HandoverInv'
    BY <1>9, RequestEffect, Distinct DEF Refresh, Invalidated, Adopted, Inv,
      HandoverInv, busy, loop
  <1>10. ASSUME NEW x \in Clients, Drop(x) PROVE HandoverInv'
    BY <1>10 DEF Drop, Inv, HandoverInv, busy, loop, worker
  <1>11. ASSUME NEW x \in Clients, Connect(x) PROVE HandoverInv'
    BY <1>11, Distinct DEF Connect, Inv, HandoverInv, busy, loop, worker,
      TypeOK, CliTypeOK
  <1>12. ASSUME Stop PROVE HandoverInv'
    BY <1>12, Distinct DEF Stop, Inv, HandoverInv, busy, loop, worker, TypeOK,
      CliTypeOK
  <1>13. ASSUME Exit PROVE HandoverInv'
    BY <1>13 DEF Exit, Locals, Inv, HandoverInv, busy, cli
  <1>14. ASSUME Resolve PROVE HandoverInv'
    BY <1>14 DEF Resolve, WorkerUnchanged, Inv, HandoverInv, busy, loop, cli
  <1>15. ASSUME ResolveRaises PROVE HandoverInv'
    BY <1>15 DEF ResolveRaises, WorkerUnchanged, Inv, HandoverInv, busy, loop,
      cli
  <1>16. ASSUME StartSlice PROVE HandoverInv'
    BY <1>16 DEF StartSlice, WorkerUnchanged, Inv, HandoverInv, busy, loop,
      cli
  <1>17. ASSUME StartSliceFails PROVE HandoverInv'
    BY <1>17 DEF StartSliceFails, WorkerUnchanged, Inv, HandoverInv, busy,
      loop, cli
  <1>18. ASSUME BeginReconcile PROVE HandoverInv'
    BY <1>18 DEF BeginReconcile, WorkerUnchanged, Inv, HandoverInv, busy,
      loop, cli
  <1>19. ASSUME Recheck PROVE HandoverInv'
    BY <1>19 DEF Recheck, Return, WorkerUnchanged, Inv, HandoverInv, busy,
      loop, cli
  <1>20. ASSUME Flush PROVE HandoverInv'
    BY <1>20 DEF Flush, Return, Load, Unanswered, WorkerUnchanged, Inv,
      HandoverInv, busy, loop, cli
  <1>21. ASSUME Replace PROVE HandoverInv'
    BY <1>21 DEF Replace, Return, Load, Unanswered, WorkerUnchanged, Inv,
      HandoverInv, busy, loop, cli
  <1>22. ASSUME Verify PROVE HandoverInv'
    BY <1>22 DEF Verify, Return, WorkerUnchanged, Inv, HandoverInv, busy,
      loop, cli
  <1>23. ASSUME Keep PROVE HandoverInv'
    BY <1>23 DEF Keep, WorkerUnchanged, Inv, HandoverInv, busy, loop, cli
  <1>24. ASSUME Observe PROVE HandoverInv'
    BY <1>24 DEF Observe, WorkerUnchanged, Inv, HandoverInv, busy, loop, cli
  <1>25. ASSUME Publish PROVE HandoverInv'
    BY <1>25 DEF Publish, Inv, HandoverInv, busy, loop, cli
  <1>26. ASSUME Wake PROVE HandoverInv'
    BY <1>26 DEF Wake, WorkerUnchanged, Inv, HandoverInv, busy, loop, cli
  <1>27. CASE (\E x \in Clients : Edit(x)) \/ (\E x \in Clients : Leave(x)) \/ (\E x \in Clients : FlushBlock(x)) \/
          (CommitLate /\ UNCHANGED <<files, loop, worker, cli>>) \/ (Drift /\ UNCHANGED <<files, loop, worker, cli>>) \/ (LoseSlice /\ UNCHANGED <<files, loop, worker, cli>>) \/
          (InstallHelper /\ UNCHANGED <<files, loop, worker, cli>>)
    BY <1>27, <1>u DEF Edit, Leave, FlushBlock, CommitLate, Drift, LoseSlice,
      InstallHelper, loop, worker, cli
  <1>28. CASE UNCHANGED vars
    BY <1>28, <1>u DEF vars, loop, worker, cli
  <1>q. QED
    BY <1>1, <1>2, <1>3, <1>4, <1>5, <1>6, <1>7, <1>8, <1>9, <1>10, <1>11,
       <1>12, <1>13, <1>14, <1>15, <1>16, <1>17, <1>18, <1>19, <1>20, <1>21, <1>22,
       <1>23, <1>24, <1>25, <1>26, <1>27, <1>28
    DEF Next, Loop, Commands, Worker, Firewalled, Environment

\* No step forgets a waiting client: whoever ends a batch, or makes it
\* obsolete, starts or owes the one that will answer.
LEMMA WaitersAreServedNext == TypeOK /\ Inv /\ [Next]_vars => WaitersAreServed'
  <1> SUFFICES ASSUME TypeOK, Inv, [Next]_vars PROVE WaitersAreServed'
    OBVIOUS
  <1>u. UNCHANGED <<phase, conn, pc, wgen, rerun>> => WaitersAreServed'
    BY DEF Inv, WaitersAreServed, busy
  <1>1. ASSUME Boot PROVE WaitersAreServed'
    BY <1>1 DEF Boot, Launch, Locals, Inv, WaitersAreServed, busy, loop, cli
  <1>2. ASSUME Bind PROVE WaitersAreServed'
    BY <1>2, Distinct DEF Bind, Inv, WaitersAreServed, busy, loop, worker,
      cli, TypeOK, CliTypeOK, HandoverInv
  <1>3. ASSUME Periodic PROVE WaitersAreServed'
    BY <1>3, RequestEffect, Distinct DEF Periodic, Invalidated, Adopted, Inv,
      WaitersAreServed, busy, loop, worker
  <1>4. ASSUME TakeStale PROVE WaitersAreServed'
    BY <1>4, Distinct DEF TakeStale, Launch, Locals, Inv, WaitersAreServed,
      busy, loop, cli, TypeOK, CliTypeOK
  <1>5. ASSUME TakeCurrent PROVE WaitersAreServed'
    BY <1>5, Distinct DEF TakeCurrent, Launch, Locals, Invalidated, Reply,
      Inv, WaitersAreServed, busy, loop, TypeOK, CliTypeOK, WorkerTypeOK, Replies
  <1>6. ASSUME NEW x \in Clients, Accept(x) PROVE WaitersAreServed'
    BY <1>6, Distinct DEF Accept, Inv, WaitersAreServed, busy, loop, worker,
      TypeOK, CliTypeOK
  <1>7. ASSUME NEW x \in Clients, RefuseReload(x) PROVE WaitersAreServed'
    BY <1>7, Distinct DEF RefuseReload, Inv, WaitersAreServed, busy, loop,
      worker, TypeOK, CliTypeOK, Replies
  <1>8. ASSUME NEW x \in Clients, Reload(x) PROVE WaitersAreServed'
    BY <1>8, RequestEffect, Distinct DEF Reload, Invalidated, Adopted, Inv,
      WaitersAreServed, busy, loop
  <1>9. ASSUME NEW x \in Clients, Refresh(x) PROVE WaitersAreServed'
    BY <1>9, RequestEffect, Distinct DEF Refresh, Invalidated, Adopted, Inv,
      WaitersAreServed, busy, loop
  <1>10. ASSUME NEW x \in Clients, Drop(x) PROVE WaitersAreServed'
    BY <1>10, Distinct DEF Drop, Inv, WaitersAreServed, busy, loop, worker,
      TypeOK, CliTypeOK
  <1>11. ASSUME NEW x \in Clients, Connect(x) PROVE WaitersAreServed'
    BY <1>11, Distinct DEF Connect, Inv, WaitersAreServed, busy, loop, worker,
      TypeOK, CliTypeOK
  <1>12. ASSUME Stop PROVE WaitersAreServed'
    BY <1>12 DEF Stop, Inv, WaitersAreServed, busy, loop, worker
  <1>13. ASSUME Exit PROVE WaitersAreServed'
    BY <1>13 DEF Exit, Locals, Inv, WaitersAreServed, busy, cli
  <1>14. ASSUME Resolve PROVE WaitersAreServed'
    BY <1>14 DEF Resolve, WorkerUnchanged, Inv, WaitersAreServed, busy, loop,
      worker, cli
  <1>15. ASSUME ResolveRaises PROVE WaitersAreServed'
    BY <1>15 DEF ResolveRaises, WorkerUnchanged, Inv, WaitersAreServed, busy,
      loop, worker, cli
  <1>16. ASSUME StartSlice PROVE WaitersAreServed'
    BY <1>16 DEF StartSlice, WorkerUnchanged, Inv, WaitersAreServed, busy,
      loop, worker, cli
  <1>17. ASSUME StartSliceFails PROVE WaitersAreServed'
    BY <1>17 DEF StartSliceFails, WorkerUnchanged, Inv, WaitersAreServed,
      busy, loop, worker, cli
  <1>18. ASSUME BeginReconcile PROVE WaitersAreServed'
    BY <1>18 DEF BeginReconcile, WorkerUnchanged, Inv, WaitersAreServed, busy,
      loop, worker, cli
  <1>19. ASSUME Recheck PROVE WaitersAreServed'
    BY <1>19 DEF Recheck, Return, WorkerUnchanged, Inv, WaitersAreServed,
      busy, loop, worker, cli
  <1>20. ASSUME Flush PROVE WaitersAreServed'
    BY <1>20 DEF Flush, Return, Load, Unanswered, WorkerUnchanged, Inv,
      WaitersAreServed, busy, loop, worker, cli
  <1>21. ASSUME Replace PROVE WaitersAreServed'
    BY <1>21 DEF Replace, Return, Load, Unanswered, WorkerUnchanged, Inv,
      WaitersAreServed, busy, loop, worker, cli
  <1>22. ASSUME Verify PROVE WaitersAreServed'
    BY <1>22 DEF Verify, Return, WorkerUnchanged, Inv, WaitersAreServed, busy,
      loop, worker, cli
  <1>23. ASSUME Keep PROVE WaitersAreServed'
    BY <1>23 DEF Keep, WorkerUnchanged, Inv, WaitersAreServed, busy, loop,
      worker, cli
  <1>24. ASSUME Observe PROVE WaitersAreServed'
    BY <1>24 DEF Observe, WorkerUnchanged, Inv, WaitersAreServed, busy, loop,
      worker, cli
  <1>25. ASSUME Publish PROVE WaitersAreServed'
    BY <1>25 DEF Publish, Inv, WaitersAreServed, busy, loop, worker, cli
  <1>26. ASSUME Wake PROVE WaitersAreServed'
    BY <1>26 DEF Wake, WorkerUnchanged, Inv, WaitersAreServed, busy, loop,
      worker, cli
  <1>27. CASE (\E x \in Clients : Edit(x)) \/ (\E x \in Clients : Leave(x)) \/ (\E x \in Clients : FlushBlock(x)) \/
          (CommitLate /\ UNCHANGED <<files, loop, worker, cli>>) \/ (Drift /\ UNCHANGED <<files, loop, worker, cli>>) \/ (LoseSlice /\ UNCHANGED <<files, loop, worker, cli>>) \/
          (InstallHelper /\ UNCHANGED <<files, loop, worker, cli>>)
    BY <1>27, <1>u DEF Edit, Leave, FlushBlock, CommitLate, Drift, LoseSlice,
      InstallHelper, loop, worker, cli
  <1>28. CASE UNCHANGED vars
    BY <1>28, <1>u DEF vars, loop, worker, cli
  <1>q. QED
    BY <1>1, <1>2, <1>3, <1>4, <1>5, <1>6, <1>7, <1>8, <1>9, <1>10, <1>11,
       <1>12, <1>13, <1>14, <1>15, <1>16, <1>17, <1>18, <1>19, <1>20, <1>21, <1>22,
       <1>23, <1>24, <1>25, <1>26, <1>27, <1>28
    DEF Next, Loop, Commands, Worker, Firewalled, Environment

\* No step lets a batch with an older configuration count as current.
LEMMA CurrentUsesNewestConfigNext == TypeOK /\ Inv /\ [Next]_vars => CurrentUsesNewestConfig'
  <1> SUFFICES ASSUME TypeOK, Inv, [Next]_vars PROVE CurrentUsesNewestConfig'
    OBVIOUS
  <1>u. UNCHANGED <<phase, pc, wgen, wcfg, cfg, rerun>> => CurrentUsesNewestConfig'
    BY DEF Inv, CurrentUsesNewestConfig, busy
  <1>1. ASSUME Boot PROVE CurrentUsesNewestConfig'
    BY <1>1 DEF Boot, Launch, Locals, Inv, CurrentUsesNewestConfig, busy, loop
  <1>2. ASSUME Bind PROVE CurrentUsesNewestConfig'
    BY <1>2 DEF Bind, Inv, CurrentUsesNewestConfig, busy, loop, worker
  <1>3. ASSUME Periodic PROVE CurrentUsesNewestConfig'
    BY <1>3, RequestEffect, Distinct DEF Periodic, Invalidated, Adopted, Inv,
      CurrentUsesNewestConfig, busy, loop, worker
  <1>4. ASSUME TakeStale PROVE CurrentUsesNewestConfig'
    BY <1>4, Distinct DEF TakeStale, Launch, Locals, Inv,
      CurrentUsesNewestConfig, busy, loop
  <1>5. ASSUME TakeCurrent PROVE CurrentUsesNewestConfig'
    BY <1>5 DEF TakeCurrent, Launch, Locals, Invalidated, Reply, Inv,
      CurrentUsesNewestConfig, busy, loop
  <1>6. ASSUME NEW x \in Clients, Reload(x) PROVE CurrentUsesNewestConfig'
    BY <1>6, RequestEffect, Distinct DEF Reload, Invalidated, Adopted, Inv,
      CurrentUsesNewestConfig, busy, loop
  <1>7. ASSUME NEW x \in Clients, Refresh(x) PROVE CurrentUsesNewestConfig'
    BY <1>7, RequestEffect, Distinct DEF Refresh, Invalidated, Adopted, Inv,
      CurrentUsesNewestConfig, busy, loop
  <1>8. ASSUME Stop PROVE CurrentUsesNewestConfig'
    BY <1>8 DEF Stop, Inv, CurrentUsesNewestConfig, busy, loop, worker
  <1>9. ASSUME Exit PROVE CurrentUsesNewestConfig'
    BY <1>9 DEF Exit, Locals, Inv, CurrentUsesNewestConfig, busy, loop
  <1>10. ASSUME Resolve PROVE CurrentUsesNewestConfig'
    BY <1>10 DEF Resolve, WorkerUnchanged, Inv, CurrentUsesNewestConfig, busy,
      loop, worker
  <1>11. ASSUME ResolveRaises PROVE CurrentUsesNewestConfig'
    BY <1>11 DEF ResolveRaises, WorkerUnchanged, Inv, CurrentUsesNewestConfig,
      busy, loop, worker
  <1>12. ASSUME StartSlice PROVE CurrentUsesNewestConfig'
    BY <1>12 DEF StartSlice, WorkerUnchanged, Inv, CurrentUsesNewestConfig,
      busy, loop, worker
  <1>13. ASSUME StartSliceFails PROVE CurrentUsesNewestConfig'
    BY <1>13 DEF StartSliceFails, WorkerUnchanged, Inv,
      CurrentUsesNewestConfig, busy, loop, worker
  <1>14. ASSUME BeginReconcile PROVE CurrentUsesNewestConfig'
    BY <1>14 DEF BeginReconcile, WorkerUnchanged, Inv,
      CurrentUsesNewestConfig, busy, loop, worker
  <1>15. ASSUME Recheck PROVE CurrentUsesNewestConfig'
    BY <1>15 DEF Recheck, Return, WorkerUnchanged, Inv,
      CurrentUsesNewestConfig, busy, loop, worker
  <1>16. ASSUME Flush PROVE CurrentUsesNewestConfig'
    BY <1>16 DEF Flush, Return, Load, Unanswered, WorkerUnchanged, Inv,
      CurrentUsesNewestConfig, busy, loop, worker
  <1>17. ASSUME Replace PROVE CurrentUsesNewestConfig'
    BY <1>17 DEF Replace, Return, Load, Unanswered, WorkerUnchanged, Inv,
      CurrentUsesNewestConfig, busy, loop, worker
  <1>18. ASSUME Verify PROVE CurrentUsesNewestConfig'
    BY <1>18 DEF Verify, Return, WorkerUnchanged, Inv,
      CurrentUsesNewestConfig, busy, loop, worker
  <1>19. ASSUME Keep PROVE CurrentUsesNewestConfig'
    BY <1>19 DEF Keep, WorkerUnchanged, Inv, CurrentUsesNewestConfig, busy,
      loop, worker
  <1>20. ASSUME Observe PROVE CurrentUsesNewestConfig'
    BY <1>20 DEF Observe, WorkerUnchanged, Inv, CurrentUsesNewestConfig, busy,
      loop, worker
  <1>21. ASSUME Publish PROVE CurrentUsesNewestConfig'
    BY <1>21 DEF Publish, Inv, CurrentUsesNewestConfig, busy, loop, worker
  <1>22. ASSUME Wake PROVE CurrentUsesNewestConfig'
    BY <1>22 DEF Wake, WorkerUnchanged, Inv, CurrentUsesNewestConfig, busy,
      loop, worker
  <1>23. CASE (\E x \in Clients : Accept(x)) \/ (\E x \in Clients : RefuseReload(x)) \/ (\E x \in Clients : Drop(x)) \/
          (\E x \in Clients : Edit(x)) \/ (\E x \in Clients : Connect(x)) \/ (\E x \in Clients : Leave(x)) \/
          (\E x \in Clients : FlushBlock(x)) \/ (CommitLate /\ UNCHANGED <<files, loop, worker, cli>>) \/ (Drift /\ UNCHANGED <<files, loop, worker, cli>>) \/
          (LoseSlice /\ UNCHANGED <<files, loop, worker, cli>>) \/ (InstallHelper /\ UNCHANGED <<files, loop, worker, cli>>)
    BY <1>23, <1>u DEF Accept, RefuseReload, Drop, Edit, Connect, Leave,
      FlushBlock, CommitLate, Drift, LoseSlice, InstallHelper, loop, worker
  <1>24. CASE UNCHANGED vars
    BY <1>24, <1>u DEF vars, loop, worker
  <1>q. QED
    BY <1>1, <1>2, <1>3, <1>4, <1>5, <1>6, <1>7, <1>8, <1>9, <1>10, <1>11,
       <1>12, <1>13, <1>14, <1>15, <1>16, <1>17, <1>18, <1>19, <1>20, <1>21, <1>22,
       <1>23, <1>24
    DEF Next, Loop, Commands, Worker, Firewalled, Environment

\* What a worker wants comes from the configuration it captured.
LEMMA DesiredInvNext == TypeOK /\ Inv /\ [Next]_vars => DesiredInv'
  <1> SUFFICES ASSUME TypeOK, Inv, [Next]_vars PROVE DesiredInv'
    OBVIOUS
  <1>u. UNCHANGED <<pc, desired, wcfg>> => DesiredInv'
    BY DEF Inv, DesiredInv
  <1>1. ASSUME Boot PROVE DesiredInv'
    BY <1>1 DEF Boot, Launch, Locals, Inv, DesiredInv
  <1>2. ASSUME Periodic PROVE DesiredInv'
    BY <1>2, RequestEffect, Distinct DEF Periodic, Invalidated, Adopted, Inv,
      DesiredInv, worker
  <1>3. ASSUME TakeStale PROVE DesiredInv'
    BY <1>3 DEF TakeStale, Launch, Locals, Inv, DesiredInv
  <1>4. ASSUME TakeCurrent PROVE DesiredInv'
    BY <1>4 DEF TakeCurrent, Launch, Locals, Invalidated, Reply, Inv,
      DesiredInv
  <1>5. ASSUME NEW x \in Clients, Reload(x) PROVE DesiredInv'
    BY <1>5, RequestEffect, Distinct DEF Reload, Invalidated, Adopted, Inv,
      DesiredInv
  <1>6. ASSUME NEW x \in Clients, Refresh(x) PROVE DesiredInv'
    BY <1>6, RequestEffect, Distinct DEF Refresh, Invalidated, Adopted, Inv,
      DesiredInv
  <1>7. ASSUME Exit PROVE DesiredInv'
    BY <1>7 DEF Exit, Locals, Inv, DesiredInv
  <1>8. ASSUME Resolve PROVE DesiredInv'
    BY <1>8 DEF Resolve, WorkerUnchanged, Inv, DesiredInv, worker, Wanted
  <1>9. ASSUME ResolveRaises PROVE DesiredInv'
    BY <1>9 DEF ResolveRaises, WorkerUnchanged, Inv, DesiredInv, worker
  <1>10. ASSUME StartSlice PROVE DesiredInv'
    BY <1>10 DEF StartSlice, WorkerUnchanged, Inv, DesiredInv, worker, Wanted,
      PCs
  <1>11. ASSUME StartSliceFails PROVE DesiredInv'
    BY <1>11 DEF StartSliceFails, WorkerUnchanged, Inv, DesiredInv, worker
  <1>12. ASSUME BeginReconcile PROVE DesiredInv'
    BY <1>12 DEF BeginReconcile, WorkerUnchanged, Inv, DesiredInv, worker,
      Wanted
  <1>13. ASSUME Recheck PROVE DesiredInv'
    BY <1>13 DEF Recheck, Return, WorkerUnchanged, Inv, DesiredInv, worker
  <1>14. ASSUME Flush PROVE DesiredInv'
    BY <1>14 DEF Flush, Return, Load, Unanswered, WorkerUnchanged, Inv,
      DesiredInv, worker
  <1>15. ASSUME Replace PROVE DesiredInv'
    BY <1>15 DEF Replace, Return, Load, Unanswered, WorkerUnchanged, Inv,
      DesiredInv, worker
  <1>16. ASSUME Verify PROVE DesiredInv'
    BY <1>16 DEF Verify, Return, WorkerUnchanged, Inv, DesiredInv, worker
  <1>17. ASSUME Keep PROVE DesiredInv'
    BY <1>17 DEF Keep, WorkerUnchanged, Inv, DesiredInv, worker
  <1>18. ASSUME Observe PROVE DesiredInv'
    BY <1>18 DEF Observe, WorkerUnchanged, Inv, DesiredInv, worker
  <1>19. ASSUME Publish PROVE DesiredInv'
    BY <1>19 DEF Publish, Inv, DesiredInv, worker
  <1>20. ASSUME Wake PROVE DesiredInv'
    BY <1>20 DEF Wake, WorkerUnchanged, Inv, DesiredInv, worker
  <1>21. CASE Bind \/ (\E x \in Clients : Accept(x)) \/ (\E x \in Clients : RefuseReload(x)) \/
          (\E x \in Clients : Drop(x)) \/ (\E x \in Clients : Edit(x)) \/ (\E x \in Clients : Connect(x)) \/
          (\E x \in Clients : Leave(x)) \/ (\E x \in Clients : FlushBlock(x)) \/ Stop \/
          (CommitLate /\ UNCHANGED <<files, loop, worker, cli>>) \/ (Drift /\ UNCHANGED <<files, loop, worker, cli>>) \/ (LoseSlice /\ UNCHANGED <<files, loop, worker, cli>>) \/
          (InstallHelper /\ UNCHANGED <<files, loop, worker, cli>>)
    BY <1>21, <1>u DEF Bind, Accept, RefuseReload, Drop, Edit, Connect, Leave,
      FlushBlock, Stop, CommitLate, Drift, LoseSlice, InstallHelper, worker
  <1>22. CASE UNCHANGED vars
    BY <1>22, <1>u DEF vars, worker
  <1>q. QED
    BY <1>1, <1>2, <1>3, <1>4, <1>5, <1>6, <1>7, <1>8, <1>9, <1>10, <1>11,
       <1>12, <1>13, <1>14, <1>15, <1>16, <1>17, <1>18, <1>19, <1>20, <1>21, <1>22
    DEF Next, Loop, Commands, Worker, Firewalled, Environment

\* While a generation is current, its worker's step, baseline and result fit.
LEMMA BaselineInvNext == TypeOK /\ Inv /\ [Next]_vars => BaselineInv'
  <1> SUFFICES ASSUME TypeOK, Inv, [Next]_vars PROVE BaselineInv'
    OBVIOUS
  <1>u. UNCHANGED <<phase, wgen, pc, baseline, desired, result, wcfg>> => BaselineInv'
    BY DEF Inv, BaselineInv, Effective
  <1>1. ASSUME Boot PROVE BaselineInv'
    BY <1>1 DEF Boot, Launch, Locals, Inv, BaselineInv, Effective, loop
  <1>2. ASSUME Bind PROVE BaselineInv'
    BY <1>2 DEF Bind, Inv, BaselineInv, Effective, loop, worker
  <1>3. ASSUME Periodic PROVE BaselineInv'
    BY <1>3, RequestEffect, Distinct DEF Periodic, Invalidated, Adopted, Inv,
      BaselineInv, Effective, loop, worker
  <1>4. ASSUME TakeStale PROVE BaselineInv'
    BY <1>4 DEF TakeStale, Launch, Locals, Inv, BaselineInv, Effective, loop
  <1>5. ASSUME TakeCurrent PROVE BaselineInv'
    BY <1>5 DEF TakeCurrent, Launch, Locals, Invalidated, Reply, Inv,
      BaselineInv, Effective, loop
  <1>6. ASSUME NEW x \in Clients, Reload(x) PROVE BaselineInv'
    BY <1>6, RequestEffect, Distinct DEF Reload, Invalidated, Adopted, Inv,
      BaselineInv, Effective, loop
  <1>7. ASSUME NEW x \in Clients, Refresh(x) PROVE BaselineInv'
    BY <1>7, RequestEffect, Distinct DEF Refresh, Invalidated, Adopted, Inv,
      BaselineInv, Effective, loop
  <1>8. ASSUME Stop PROVE BaselineInv'
    BY <1>8 DEF Stop, Inv, BaselineInv, Effective, worker
  <1>9. ASSUME Exit PROVE BaselineInv'
    BY <1>9 DEF Exit, Locals, Inv, BaselineInv, Effective
  <1>10. ASSUME Resolve PROVE BaselineInv'
    BY <1>10, Distinct DEF Resolve, WorkerUnchanged, Inv, BaselineInv,
      Effective, loop, worker, Current, NoBaseline, NoResult, DesiredInv, TypeOK,
      WorkerTypeOK, LoopTypeOK
  <1>11. ASSUME ResolveRaises PROVE BaselineInv'
    BY <1>11, Distinct DEF ResolveRaises, WorkerUnchanged, Inv, BaselineInv,
      Effective, loop, worker, Current, NoBaseline, NoResult, DesiredInv, TypeOK,
      WorkerTypeOK, LoopTypeOK
  <1>12. ASSUME StartSlice PROVE BaselineInv'
    BY <1>12 DEF StartSlice, WorkerUnchanged, Inv, BaselineInv, Effective,
      loop, worker
  <1>13. ASSUME StartSliceFails PROVE BaselineInv'
    BY <1>13, Distinct DEF StartSliceFails, WorkerUnchanged, Inv, BaselineInv,
      Effective, loop, worker, Current, NoBaseline, NoResult, DesiredInv, TypeOK,
      WorkerTypeOK, LoopTypeOK
  <1>14. ASSUME BeginReconcile PROVE BaselineInv'
    BY <1>14, Distinct DEF BeginReconcile, WorkerUnchanged, Inv, BaselineInv,
      Effective, loop, worker, Current, NoBaseline, NoResult, DesiredInv, TypeOK,
      WorkerTypeOK, LoopTypeOK
  <1>15. ASSUME Recheck PROVE BaselineInv'
    BY <1>15, Distinct DEF Recheck, Return, WorkerUnchanged, Inv, BaselineInv,
      Effective, loop, worker, Current, NoBaseline, NoResult, DesiredInv, TypeOK,
      WorkerTypeOK, LoopTypeOK
  <1>16. ASSUME Flush PROVE BaselineInv'
    BY <1>16, Distinct DEF Flush, Return, Load, Unanswered, WorkerUnchanged,
      Inv, BaselineInv, Effective, loop, worker, Current, NoBaseline, NoResult,
      DesiredInv, TypeOK, WorkerTypeOK, LoopTypeOK
  <1>17. ASSUME Replace PROVE BaselineInv'
    BY <1>17, Distinct DEF Replace, Return, Load, Unanswered, WorkerUnchanged,
      Inv, BaselineInv, Effective, loop, worker, Current, NoBaseline, NoResult,
      DesiredInv, TypeOK, WorkerTypeOK, LoopTypeOK
  <1>18. ASSUME Verify PROVE BaselineInv'
    BY <1>18, Distinct DEF Verify, Return, WorkerUnchanged, Inv, BaselineInv,
      Effective, loop, worker, Current, NoBaseline, NoResult, DesiredInv, TypeOK,
      WorkerTypeOK, LoopTypeOK
  <1>19. ASSUME Keep PROVE BaselineInv'
    BY <1>19, Distinct DEF Keep, WorkerUnchanged, Inv, BaselineInv, Effective,
      loop, worker, Current, NoBaseline, NoResult, DesiredInv, TypeOK, WorkerTypeOK,
      LoopTypeOK
  <1>20. ASSUME Observe PROVE BaselineInv'
    BY <1>20 DEF Observe, WorkerUnchanged, Inv, BaselineInv, Effective, loop,
      worker
  <1>21. ASSUME Publish PROVE BaselineInv'
    BY <1>21 DEF Publish, Inv, BaselineInv, Effective, loop, worker
  <1>22. ASSUME Wake PROVE BaselineInv'
    BY <1>22 DEF Wake, WorkerUnchanged, Inv, BaselineInv, Effective, loop,
      worker
  <1>23. CASE (\E x \in Clients : Accept(x)) \/ (\E x \in Clients : RefuseReload(x)) \/ (\E x \in Clients : Drop(x)) \/
          (\E x \in Clients : Edit(x)) \/ (\E x \in Clients : Connect(x)) \/ (\E x \in Clients : Leave(x)) \/
          (\E x \in Clients : FlushBlock(x)) \/ (CommitLate /\ UNCHANGED <<files, loop, worker, cli>>) \/ (Drift /\ UNCHANGED <<files, loop, worker, cli>>) \/
          (LoseSlice /\ UNCHANGED <<files, loop, worker, cli>>) \/ (InstallHelper /\ UNCHANGED <<files, loop, worker, cli>>)
    BY <1>23, <1>u DEF Accept, RefuseReload, Drop, Edit, Connect, Leave,
      FlushBlock, CommitLate, Drift, LoseSlice, InstallHelper, loop, worker
  <1>24. CASE UNCHANGED vars
    BY <1>24, <1>u DEF vars, loop, worker
  <1>q. QED
    BY <1>1, <1>2, <1>3, <1>4, <1>5, <1>6, <1>7, <1>8, <1>9, <1>10, <1>11,
       <1>12, <1>13, <1>14, <1>15, <1>16, <1>17, <1>18, <1>19, <1>20, <1>21, <1>22,
       <1>23, <1>24
    DEF Next, Loop, Commands, Worker, Firewalled, Environment

\* A baseline that outlives its batch was published as "on".
LEMMA BaselineIsPublishedNext == TypeOK /\ Inv /\ [Next]_vars => BaselineIsPublished'
  <1> SUFFICES ASSUME TypeOK, Inv, [Next]_vars PROVE BaselineIsPublished'
    OBVIOUS
  <1>u. UNCHANGED <<phase, pc, baseline, shown, cfg>> => BaselineIsPublished'
    BY DEF Inv, BaselineIsPublished, busy
  <1>1. ASSUME Boot PROVE BaselineIsPublished'
    BY <1>1 DEF Boot, Launch, Locals, Inv, BaselineIsPublished, busy, loop
  <1>2. ASSUME Bind PROVE BaselineIsPublished'
    BY <1>2, Distinct DEF Bind, Inv, BaselineIsPublished, busy, files, loop,
      worker, HandoverInv, BaselineInv, CurrentUsesNewestConfig, Effective,
      NoBaseline, NoResult
  <1>3. ASSUME Periodic PROVE BaselineIsPublished'
    BY <1>3, RequestEffect, Distinct DEF Periodic, Invalidated, Adopted, Inv,
      BaselineIsPublished, busy, files, loop, worker
  <1>4. ASSUME TakeStale PROVE BaselineIsPublished'
    BY <1>4 DEF TakeStale, Launch, Locals, Inv, BaselineIsPublished, busy,
      files, loop
  <1>5. ASSUME TakeCurrent PROVE BaselineIsPublished'
    BY <1>5, Distinct DEF TakeCurrent, Launch, Locals, Invalidated, Reply,
      Inv, BaselineIsPublished, busy, loop, HandoverInv, BaselineInv,
      CurrentUsesNewestConfig, Effective, NoBaseline, NoResult
  <1>6. ASSUME NEW x \in Clients, Reload(x) PROVE BaselineIsPublished'
    BY <1>6, RequestEffect, Distinct DEF Reload, Invalidated, Adopted, Inv,
      BaselineIsPublished, busy, files, loop
  <1>7. ASSUME NEW x \in Clients, Refresh(x) PROVE BaselineIsPublished'
    BY <1>7, RequestEffect, Distinct DEF Refresh, Invalidated, Adopted, Inv,
      BaselineIsPublished, busy, files, loop
  <1>8. ASSUME Stop PROVE BaselineIsPublished'
    BY <1>8 DEF Stop, Inv, BaselineIsPublished, busy, files, loop, worker
  <1>9. ASSUME Exit PROVE BaselineIsPublished'
    BY <1>9 DEF Exit, Locals, Inv, BaselineIsPublished, busy, files, loop
  <1>10. ASSUME Resolve PROVE BaselineIsPublished'
    BY <1>10 DEF Resolve, WorkerUnchanged, Inv, BaselineIsPublished, busy,
      files, loop
  <1>11. ASSUME ResolveRaises PROVE BaselineIsPublished'
    BY <1>11 DEF ResolveRaises, WorkerUnchanged, Inv, BaselineIsPublished,
      busy, files, loop
  <1>12. ASSUME StartSlice PROVE BaselineIsPublished'
    BY <1>12 DEF StartSlice, WorkerUnchanged, Inv, BaselineIsPublished, busy,
      files, loop
  <1>13. ASSUME StartSliceFails PROVE BaselineIsPublished'
    BY <1>13 DEF StartSliceFails, WorkerUnchanged, Inv, BaselineIsPublished,
      busy, files, loop
  <1>14. ASSUME BeginReconcile PROVE BaselineIsPublished'
    BY <1>14 DEF BeginReconcile, WorkerUnchanged, Inv, BaselineIsPublished,
      busy, files, loop
  <1>15. ASSUME Recheck PROVE BaselineIsPublished'
    BY <1>15 DEF Recheck, Return, WorkerUnchanged, Inv, BaselineIsPublished,
      busy, files, loop
  <1>16. ASSUME Flush PROVE BaselineIsPublished'
    BY <1>16 DEF Flush, Return, Load, Unanswered, WorkerUnchanged, Inv,
      BaselineIsPublished, busy, files, loop
  <1>17. ASSUME Replace PROVE BaselineIsPublished'
    BY <1>17 DEF Replace, Return, Load, Unanswered, WorkerUnchanged, Inv,
      BaselineIsPublished, busy, files, loop
  <1>18. ASSUME Verify PROVE BaselineIsPublished'
    BY <1>18 DEF Verify, Return, WorkerUnchanged, Inv, BaselineIsPublished,
      busy, files, loop
  <1>19. ASSUME Keep PROVE BaselineIsPublished'
    BY <1>19 DEF Keep, WorkerUnchanged, Inv, BaselineIsPublished, busy, files,
      loop
  <1>20. ASSUME Observe PROVE BaselineIsPublished'
    BY <1>20 DEF Observe, WorkerUnchanged, Inv, BaselineIsPublished, busy,
      files, loop
  <1>21. ASSUME Publish PROVE BaselineIsPublished'
    BY <1>21 DEF Publish, Inv, BaselineIsPublished, busy, files, loop
  <1>22. ASSUME Wake PROVE BaselineIsPublished'
    BY <1>22 DEF Wake, WorkerUnchanged, Inv, BaselineIsPublished, busy, files,
      loop
  <1>23. CASE (\E x \in Clients : Accept(x)) \/ (\E x \in Clients : RefuseReload(x)) \/ (\E x \in Clients : Drop(x)) \/
          (\E x \in Clients : Edit(x)) \/ (\E x \in Clients : Connect(x)) \/ (\E x \in Clients : Leave(x)) \/
          (\E x \in Clients : FlushBlock(x)) \/ (CommitLate /\ UNCHANGED <<files, loop, worker, cli>>) \/ (Drift /\ UNCHANGED <<files, loop, worker, cli>>) \/
          (LoseSlice /\ UNCHANGED <<files, loop, worker, cli>>) \/ (InstallHelper /\ UNCHANGED <<files, loop, worker, cli>>)
    BY <1>23, <1>u DEF Accept, RefuseReload, Drop, Edit, Connect, Leave,
      FlushBlock, CommitLate, Drift, LoseSlice, InstallHelper, files, loop, worker
  <1>24. CASE UNCHANGED vars
    BY <1>24, <1>u DEF vars, files, loop, worker
  <1>q. QED
    BY <1>1, <1>2, <1>3, <1>4, <1>5, <1>6, <1>7, <1>8, <1>9, <1>10, <1>11,
       <1>12, <1>13, <1>14, <1>15, <1>16, <1>17, <1>18, <1>19, <1>20, <1>21, <1>22,
       <1>23, <1>24
    DEF Next, Loop, Commands, Worker, Firewalled, Environment

\* Nothing but the environment separates a result from the kernel's table.
LEMMA KernelInvNext == TypeOK /\ Inv /\ [Next]_vars => KernelInv'
  <1> SUFFICES ASSUME TypeOK, Inv, [Next]_vars PROVE KernelInv'
    OBVIOUS
  <1>u. UNCHANGED <<helper, table, late, phase, wgen, intact, pc, desired, ident, slice, result, baseline>> => KernelInv'
    BY DEF Inv, KernelInv, Effective, Holds, Blocking
  <1>1. ASSUME Boot PROVE KernelInv'
    BY <1>1 DEF Boot, Launch, Locals, Inv, KernelInv, Effective, Holds,
      Blocking, fwVars, loop
  <1>2. ASSUME Bind PROVE KernelInv'
    BY <1>2 DEF Bind, Inv, KernelInv, Effective, Holds, Blocking, fwVars,
      loop, worker
  <1>3. ASSUME Periodic PROVE KernelInv'
    BY <1>3, RequestEffect, Distinct DEF Periodic, Invalidated, Adopted, Inv,
      KernelInv, Effective, Holds, Blocking, fwVars, loop, worker
  <1>4. ASSUME TakeStale PROVE KernelInv'
    BY <1>4 DEF TakeStale, Launch, Locals, Inv, KernelInv, Effective, Holds,
      Blocking, fwVars, loop
  <1>5. ASSUME TakeCurrent PROVE KernelInv'
    BY <1>5 DEF TakeCurrent, Launch, Locals, Invalidated, Reply, Inv,
      KernelInv, Effective, Holds, Blocking, fwVars, loop
  <1>6. ASSUME NEW x \in Clients, Reload(x) PROVE KernelInv'
    BY <1>6, RequestEffect, Distinct DEF Reload, Invalidated, Adopted, Inv,
      KernelInv, Effective, Holds, Blocking, fwVars, loop
  <1>7. ASSUME NEW x \in Clients, Refresh(x) PROVE KernelInv'
    BY <1>7, RequestEffect, Distinct DEF Refresh, Invalidated, Adopted, Inv,
      KernelInv, Effective, Holds, Blocking, fwVars, loop
  <1>8. ASSUME NEW x \in Clients, FlushBlock(x) PROVE KernelInv'
    BY <1>8 DEF FlushBlock, Unanswered, Load, Inv, KernelInv, Effective,
      Holds, Blocking, fwVars, loop, worker
  <1>9. ASSUME Stop PROVE KernelInv'
    BY <1>9 DEF Stop, Inv, KernelInv, Effective, Holds, Blocking, fwVars,
      worker
  <1>10. ASSUME Exit PROVE KernelInv'
    BY <1>10 DEF Exit, Locals, Inv, KernelInv, Effective, Holds, Blocking,
      fwVars
  <1>11. ASSUME Resolve PROVE KernelInv'
    BY <1>11, Distinct DEF Resolve, WorkerUnchanged, Inv, KernelInv,
      Effective, Holds, Blocking, fwVars, loop, worker, Current, NoResult,
      BaselineInv, DesiredInv, TypeOK
  <1>12. ASSUME ResolveRaises PROVE KernelInv'
    BY <1>12 DEF ResolveRaises, WorkerUnchanged, Inv, KernelInv, Effective,
      Holds, Blocking, fwVars, loop, worker
  <1>13. ASSUME StartSlice PROVE KernelInv'
    BY <1>13 DEF StartSlice, WorkerUnchanged, Inv, KernelInv, Effective,
      Holds, Blocking, fwVars, loop, worker
  <1>14. ASSUME StartSliceFails PROVE KernelInv'
    BY <1>14 DEF StartSliceFails, WorkerUnchanged, Inv, KernelInv, Effective,
      Holds, Blocking, fwVars, loop, worker
  <1>15. ASSUME BeginReconcile PROVE KernelInv'
    BY <1>15, Distinct DEF BeginReconcile, WorkerUnchanged, Inv, KernelInv,
      Effective, Holds, Blocking, fwVars, loop, worker, Current, NoResult,
      BaselineInv, DesiredInv, TypeOK
  <1>16. ASSUME Recheck PROVE KernelInv'
    BY <1>16, Distinct DEF Recheck, Return, WorkerUnchanged, Inv, KernelInv,
      Effective, Holds, Blocking, fwVars, loop, worker, Current, NoResult,
      BaselineInv, DesiredInv, TypeOK, Verifies, LoopTypeOK, Baselines
  <1>17. ASSUME Flush PROVE KernelInv'
    BY <1>17, Distinct, MarkersDistinct DEF Flush, Return, Load, Unanswered,
      WorkerUnchanged, Inv, KernelInv, Effective, Holds, Blocking, fwVars, loop,
      worker, Current, NoResult, BaselineInv, DesiredInv, TypeOK
  <1>18. ASSUME Replace PROVE KernelInv'
    BY <1>18, Distinct DEF Replace, Return, Load, Unanswered, WorkerUnchanged,
      Inv, KernelInv, Effective, Holds, Blocking, fwVars, loop, worker, Current,
      NoResult, BaselineInv, DesiredInv, TypeOK
  <1>19. ASSUME Verify PROVE KernelInv'
    BY <1>19, Distinct DEF Verify, Return, WorkerUnchanged, Inv, KernelInv,
      Effective, Holds, Blocking, fwVars, loop, worker, Current, NoResult,
      BaselineInv, DesiredInv, TypeOK, Verifies, LoopTypeOK, Baselines
  <1>20. ASSUME Keep PROVE KernelInv'
    BY <1>20 DEF Keep, WorkerUnchanged, Inv, KernelInv, Effective, Holds,
      Blocking, fwVars, loop, worker
  <1>21. ASSUME Observe PROVE KernelInv'
    BY <1>21 DEF Observe, WorkerUnchanged, Inv, KernelInv, Effective, Holds,
      Blocking, fwVars, loop, worker
  <1>22. ASSUME Publish PROVE KernelInv'
    BY <1>22 DEF Publish, Inv, KernelInv, Effective, Holds, Blocking, fwVars,
      loop, worker
  <1>23. ASSUME Wake PROVE KernelInv'
    BY <1>23 DEF Wake, WorkerUnchanged, Inv, KernelInv, Effective, Holds,
      Blocking, fwVars, loop, worker
  <1>24. ASSUME CommitLate, UNCHANGED <<files, loop, worker, cli>> PROVE KernelInv'
    BY <1>24 DEF CommitLate, Load, Inv, KernelInv, Effective, Holds, Blocking,
      files, loop, worker, cli
  <1>25. ASSUME Drift, UNCHANGED <<files, loop, worker, cli>> PROVE KernelInv'
    BY <1>25 DEF Drift, Inv, KernelInv, Effective, Holds, Blocking, files,
      loop, worker, cli
  <1>26. ASSUME LoseSlice, UNCHANGED <<files, loop, worker, cli>> PROVE KernelInv'
    BY <1>26 DEF LoseSlice, Inv, KernelInv, Effective, Holds, Blocking, files,
      loop, worker, cli
  <1>27. ASSUME InstallHelper, UNCHANGED <<files, loop, worker, cli>> PROVE KernelInv'
    BY <1>27 DEF InstallHelper, Inv, KernelInv, Effective, Holds, Blocking,
      files, loop, worker, cli
  <1>28. CASE (\E x \in Clients : Accept(x)) \/ (\E x \in Clients : RefuseReload(x)) \/ (\E x \in Clients : Drop(x)) \/
          (\E x \in Clients : Edit(x)) \/ (\E x \in Clients : Connect(x)) \/ (\E x \in Clients : Leave(x))
    BY <1>28, <1>u DEF Accept, RefuseReload, Drop, Edit, Connect, Leave,
      fwVars, loop, worker
  <1>29. CASE UNCHANGED vars
    BY <1>29, <1>u DEF vars, fwVars, loop, worker
  <1>q. QED
    BY <1>1, <1>2, <1>3, <1>4, <1>5, <1>6, <1>7, <1>8, <1>9, <1>10, <1>11,
       <1>12, <1>13, <1>14, <1>15, <1>16, <1>17, <1>18, <1>19, <1>20, <1>21, <1>22,
       <1>23, <1>24, <1>25, <1>26, <1>27, <1>28, <1>29
    DEF Next, Loop, Commands, Worker, Firewalled, Environment

\* No step publishes what the kernel does not hold.
LEMMA PublishedIsEnforcedNext == TypeOK /\ Inv /\ [Next]_vars => PublishedIsEnforced'
  <1> SUFFICES ASSUME TypeOK, Inv, [Next]_vars PROVE PublishedIsEnforced'
    OBVIOUS
  <1>u. UNCHANGED <<phase, pc, shown, intact, baseline, table, slice>> => PublishedIsEnforced'
    BY DEF Inv, PublishedIsEnforced, Blocking, busy
  <1>1. ASSUME Boot PROVE PublishedIsEnforced'
    BY <1>1 DEF Boot, Launch, Locals, Inv, PublishedIsEnforced, Blocking,
      busy, fwVars, loop
  <1>2. ASSUME Bind PROVE PublishedIsEnforced'
    BY <1>2, Distinct DEF Bind, Inv, PublishedIsEnforced, Blocking, busy,
      fwVars, files, loop, worker, HandoverInv, BaselineInv, KernelInv, Effective,
      Holds, NoResult
  <1>3. ASSUME Periodic PROVE PublishedIsEnforced'
    BY <1>3, RequestEffect, Distinct DEF Periodic, Invalidated, Adopted, Inv,
      PublishedIsEnforced, Blocking, busy, fwVars, files, loop, worker
  <1>4. ASSUME TakeStale PROVE PublishedIsEnforced'
    BY <1>4, Distinct DEF TakeStale, Launch, Locals, Inv, PublishedIsEnforced,
      Blocking, busy, fwVars, files, loop, HandoverInv, BaselineInv, KernelInv,
      Effective, Holds, NoResult, CurrentUsesNewestConfig
  <1>5. ASSUME TakeCurrent PROVE PublishedIsEnforced'
    BY <1>5, Distinct DEF TakeCurrent, Launch, Locals, Invalidated, Reply,
      Inv, PublishedIsEnforced, Blocking, busy, fwVars, loop, HandoverInv,
      BaselineInv, KernelInv, Effective, Holds, NoResult, NoBaseline, TypeOK,
      WorkerTypeOK
  <1>6. ASSUME NEW x \in Clients, Reload(x) PROVE PublishedIsEnforced'
    BY <1>6, RequestEffect, Distinct DEF Reload, Invalidated, Adopted, Inv,
      PublishedIsEnforced, Blocking, busy, fwVars, files, loop
  <1>7. ASSUME NEW x \in Clients, Refresh(x) PROVE PublishedIsEnforced'
    BY <1>7, RequestEffect, Distinct DEF Refresh, Invalidated, Adopted, Inv,
      PublishedIsEnforced, Blocking, busy, fwVars, files, loop
  <1>8. ASSUME NEW x \in Clients, FlushBlock(x) PROVE PublishedIsEnforced'
    BY <1>8 DEF FlushBlock, Unanswered, Load, Inv, PublishedIsEnforced,
      Blocking, busy, fwVars, files, loop, worker
  <1>9. ASSUME Stop PROVE PublishedIsEnforced'
    BY <1>9 DEF Stop, Inv, PublishedIsEnforced, Blocking, busy, fwVars, files,
      worker
  <1>10. ASSUME Exit PROVE PublishedIsEnforced'
    BY <1>10 DEF Exit, Locals, Inv, PublishedIsEnforced, Blocking, busy,
      fwVars, files
  <1>11. ASSUME Resolve PROVE PublishedIsEnforced'
    BY <1>11 DEF Resolve, WorkerUnchanged, Inv, PublishedIsEnforced, Blocking,
      busy, fwVars, files, loop
  <1>12. ASSUME ResolveRaises PROVE PublishedIsEnforced'
    BY <1>12 DEF ResolveRaises, WorkerUnchanged, Inv, PublishedIsEnforced,
      Blocking, busy, fwVars, files, loop
  <1>13. ASSUME StartSlice PROVE PublishedIsEnforced'
    BY <1>13 DEF StartSlice, WorkerUnchanged, Inv, PublishedIsEnforced,
      Blocking, busy, fwVars, files, loop
  <1>14. ASSUME StartSliceFails PROVE PublishedIsEnforced'
    BY <1>14 DEF StartSliceFails, WorkerUnchanged, Inv, PublishedIsEnforced,
      Blocking, busy, fwVars, files, loop
  <1>15. ASSUME BeginReconcile PROVE PublishedIsEnforced'
    BY <1>15 DEF BeginReconcile, WorkerUnchanged, Inv, PublishedIsEnforced,
      Blocking, busy, fwVars, files, loop
  <1>16. ASSUME Recheck PROVE PublishedIsEnforced'
    BY <1>16 DEF Recheck, Return, WorkerUnchanged, Inv, PublishedIsEnforced,
      Blocking, busy, fwVars, files, loop
  <1>17. ASSUME Flush PROVE PublishedIsEnforced'
    BY <1>17 DEF Flush, Return, Load, Unanswered, WorkerUnchanged, Inv,
      PublishedIsEnforced, Blocking, busy, fwVars, files, loop
  <1>18. ASSUME Replace PROVE PublishedIsEnforced'
    BY <1>18 DEF Replace, Return, Load, Unanswered, WorkerUnchanged, Inv,
      PublishedIsEnforced, Blocking, busy, fwVars, files, loop
  <1>19. ASSUME Verify PROVE PublishedIsEnforced'
    BY <1>19 DEF Verify, Return, WorkerUnchanged, Inv, PublishedIsEnforced,
      Blocking, busy, fwVars, files, loop
  <1>20. ASSUME Keep PROVE PublishedIsEnforced'
    BY <1>20 DEF Keep, WorkerUnchanged, Inv, PublishedIsEnforced, Blocking,
      busy, fwVars, files, loop
  <1>21. ASSUME Observe PROVE PublishedIsEnforced'
    BY <1>21 DEF Observe, WorkerUnchanged, Inv, PublishedIsEnforced, Blocking,
      busy, fwVars, files, loop
  <1>22. ASSUME Publish PROVE PublishedIsEnforced'
    BY <1>22 DEF Publish, Inv, PublishedIsEnforced, Blocking, busy, fwVars,
      files, loop
  <1>23. ASSUME Wake PROVE PublishedIsEnforced'
    BY <1>23 DEF Wake, WorkerUnchanged, Inv, PublishedIsEnforced, Blocking,
      busy, fwVars, files, loop
  <1>24. ASSUME CommitLate, UNCHANGED <<files, loop, worker, cli>> PROVE PublishedIsEnforced'
    BY <1>24 DEF CommitLate, Load, Inv, PublishedIsEnforced, Blocking, busy,
      files, loop, worker, cli
  <1>25. ASSUME Drift, UNCHANGED <<files, loop, worker, cli>> PROVE PublishedIsEnforced'
    BY <1>25 DEF Drift, Inv, PublishedIsEnforced, Blocking, busy, files, loop,
      worker, cli
  <1>26. ASSUME LoseSlice, UNCHANGED <<files, loop, worker, cli>> PROVE PublishedIsEnforced'
    BY <1>26 DEF LoseSlice, Inv, PublishedIsEnforced, Blocking, busy, files,
      loop, worker, cli
  <1>27. CASE (\E x \in Clients : Accept(x)) \/ (\E x \in Clients : RefuseReload(x)) \/ (\E x \in Clients : Drop(x)) \/
          (\E x \in Clients : Edit(x)) \/ (\E x \in Clients : Connect(x)) \/ (\E x \in Clients : Leave(x)) \/
          (InstallHelper /\ UNCHANGED <<files, loop, worker, cli>>)
    BY <1>27, <1>u DEF Accept, RefuseReload, Drop, Edit, Connect, Leave,
      InstallHelper, fwVars, files, loop, worker
  <1>28. CASE UNCHANGED vars
    BY <1>28, <1>u DEF vars, fwVars, files, loop, worker
  <1>q. QED
    BY <1>1, <1>2, <1>3, <1>4, <1>5, <1>6, <1>7, <1>8, <1>9, <1>10, <1>11,
       <1>12, <1>13, <1>14, <1>15, <1>16, <1>17, <1>18, <1>19, <1>20, <1>21, <1>22,
       <1>23, <1>24, <1>25, <1>26, <1>27, <1>28
    DEF Next, Loop, Commands, Worker, Firewalled, Environment

\* A program that has not started satisfies the invariant.
LEMMA InvInit == Init => Inv
  BY DEF Init, Inv, CommandInv, HandoverInv, WaitersAreServed, CurrentUsesNewestConfig,
         DesiredInv, BaselineInv, BaselineIsPublished, KernelInv,
         PublishedIsEnforced, FirewallInit, Effective, busy, Waiting, Latest,
         Superseded, Blocking

LEMMA InvNext == TypeOK /\ Inv /\ [Next]_vars => Inv'
  BY CommandInvNext, HandoverInvNext, WaitersAreServedNext, CurrentUsesNewestConfigNext,
     DesiredInvNext, BaselineInvNext, BaselineIsPublishedNext, KernelInvNext,
     PublishedIsEnforcedNext
  DEF Inv

\* The inductive invariant: what the listener, its worker and the kernel have
\* to do with each other at every step.
THEOREM Safety == Spec => []Inv
  <1>1. QED BY TypeCorrect, InvInit, InvNext, PTL DEF Spec

\* No waiting client is ever forgotten.
THEOREM Served == Spec => []WaitersAreServed
  <1>1. Inv => WaitersAreServed
    BY DEF Inv
  <1>2. QED BY <1>1, Safety, PTL

\* Only a batch for the newest configuration counts as current.
THEOREM Newest == Spec => []CurrentUsesNewestConfig
  <1>1. Inv => CurrentUsesNewestConfig
    BY DEF Inv
  <1>2. QED BY <1>1, Safety, PTL

\* No obsolete batch leaves a baseline to trust.
THEOREM NoStaleBaseline == Spec => []BaselineIsPublished
  <1>1. Inv => BaselineIsPublished
    BY DEF Inv
  <1>2. QED BY <1>1, Safety, PTL

\* What is published is what the kernel enforces, until something else
\* touches it.
THEOREM Enforcement == Spec => []PublishedIsEnforced
  <1>1. Inv => PublishedIsEnforced
    BY DEF Inv
  <1>2. QED BY <1>1, Safety, PTL

\* A configuration nobody has read stays announced: the command that wrote it
\* moves from its edit to the queue to the listener, and only the reload that
\* reads the file takes it off.
LEMMA UnreadNext == TypeOK /\ UnreadConfigIsAnnounced /\ [Next]_vars => UnreadConfigIsAnnounced'
  <1> SUFFICES ASSUME TypeOK, UnreadConfigIsAnnounced, [Next]_vars
               PROVE  UnreadConfigIsAnnounced'
    OBVIOUS
  <1>u. UNCHANGED <<file, cfg, phase, kind, cmd, conn>> => UnreadConfigIsAnnounced'
    BY DEF UnreadConfigIsAnnounced
  <1>1. ASSUME Boot PROVE UnreadConfigIsAnnounced'
    BY <1>1 DEF Boot, UnreadConfigIsAnnounced
  <1>2. ASSUME Bind PROVE UnreadConfigIsAnnounced'
    BY <1>2 DEF Bind, UnreadConfigIsAnnounced, files, cli
  <1>3. ASSUME Periodic PROVE UnreadConfigIsAnnounced'
    BY <1>3, Distinct DEF Periodic, Adopted, UnreadConfigIsAnnounced, files
  <1>4. ASSUME TakeCurrent PROVE UnreadConfigIsAnnounced'
    BY <1>4 DEF TakeCurrent, UnreadConfigIsAnnounced, Latest
  <1>5. ASSUME NEW x \in Clients, Accept(x) PROVE UnreadConfigIsAnnounced'
    BY <1>5 DEF Accept, UnreadConfigIsAnnounced, files, loop, TypeOK, CliTypeOK
  <1>6. ASSUME NEW x \in Clients, RefuseReload(x) PROVE UnreadConfigIsAnnounced'
    BY <1>6 DEF RefuseReload, UnreadConfigIsAnnounced, files
  <1>7. ASSUME NEW x \in Clients, Reload(x) PROVE UnreadConfigIsAnnounced'
    BY <1>7 DEF Reload, UnreadConfigIsAnnounced
  <1>8. ASSUME NEW x \in Clients, Refresh(x) PROVE UnreadConfigIsAnnounced'
    BY <1>8, Distinct DEF Refresh, Adopted, UnreadConfigIsAnnounced, files, TypeOK, CliTypeOK
  <1>9. ASSUME NEW x \in Clients, Drop(x) PROVE UnreadConfigIsAnnounced'
    BY <1>9, Distinct DEF Drop, UnreadConfigIsAnnounced, files, loop, TypeOK, CliTypeOK
  <1>10. ASSUME NEW x \in Clients, Edit(x) PROVE UnreadConfigIsAnnounced'
    BY <1>10 DEF Edit, UnreadConfigIsAnnounced, TypeOK, CliTypeOK
  <1>11. ASSUME NEW x \in Clients, Connect(x) PROVE UnreadConfigIsAnnounced'
    BY <1>11 DEF Connect, UnreadConfigIsAnnounced, files, loop, TypeOK, CliTypeOK
  <1>12. ASSUME NEW x \in Clients, Leave(x) PROVE UnreadConfigIsAnnounced'
    BY <1>12 DEF Leave, UnreadConfigIsAnnounced, files, loop, TypeOK, CliTypeOK
  <1>13. ASSUME NEW x \in Clients, FlushBlock(x) PROVE UnreadConfigIsAnnounced'
    BY <1>13 DEF FlushBlock, UnreadConfigIsAnnounced, files, loop, TypeOK, CliTypeOK
  <1>14. ASSUME Stop \/ Exit PROVE UnreadConfigIsAnnounced'
    BY <1>14 DEF Stop, Exit, UnreadConfigIsAnnounced
  <1>15. CASE TakeStale \/ Resolve \/ ResolveRaises \/
          StartSlice \/ StartSliceFails \/ BeginReconcile \/
          Recheck \/ Flush \/ Replace \/
          Verify \/ Keep \/ Observe \/
          Publish \/ Wake \/ (CommitLate /\ UNCHANGED <<files, loop, worker, cli>>) \/
          (Drift /\ UNCHANGED <<files, loop, worker, cli>>) \/ (LoseSlice /\ UNCHANGED <<files, loop, worker, cli>>) \/ (InstallHelper /\ UNCHANGED <<files, loop, worker, cli>>)
    BY <1>15, <1>u DEF TakeStale, Resolve, ResolveRaises,
      StartSlice, StartSliceFails, BeginReconcile, Recheck, Flush, Replace, Verify,
      Keep, Observe, Publish, Wake, WorkerUnchanged, files, loop, cli
  <1>16. CASE UNCHANGED vars
    BY <1>16, <1>u DEF vars, files, loop, cli
  <1>q. QED
    BY <1>1, <1>2, <1>3, <1>4, <1>5, <1>6, <1>7, <1>8, <1>9, <1>10, <1>11,
       <1>12, <1>13, <1>14, <1>15, <1>16
    DEF Next, Loop, Commands, Worker, Firewalled, Environment

\* An unread configuration is always announced or was turned away, whatever the
\* cap on clients, the worker, a stop or a restart do.
THEOREM Announced == Spec => []UnreadConfigIsAnnounced
  <1>1. Init => UnreadConfigIsAnnounced
    BY DEF Init, UnreadConfigIsAnnounced
  <1>2. QED BY <1>1, TypeCorrect, UnreadNext, PTL DEF Spec
-----------------------------------------------------------------------------
(***************************************************************************)
(* What a client is told.  "ok" is only said of a configuration that has   *)
(* been applied, and the listener with its worker, generations and         *)
(* follow-ups implements the service of SiteBlock: every step of Reconcile *)
(* is a step of the service, or one the service does not see.              *)
(***************************************************************************)
\* What the service sees of a connection.
LEMMA AnswerWaiting ==
  ASSUME TypeOK, NEW c \in Clients
  PROVE  Answer(c) = "waiting" <=> conn[c] \in Waiting
  BY Distinct DEF TypeOK, CliTypeOK, ConnStates, Answer, Replies

LEMMA AnswerNone ==
  ASSUME NEW c, conn[c] \in {"none", "queued", "sent", "refused"}
  PROVE  Answer(c) = "none"
  BY Distinct DEF Answer

LEMMA AnswerReply ==
  ASSUME TypeOK, NEW c \in Clients, conn[c] \in Replies \union {"closed"}
  PROVE  Answer(c) = conn[c]
  BY Distinct DEF Answer, Replies

\* The batch that take_result takes while its generation is current was for the
\* configuration in force, and has a result that fits it.
LEMMA TakenResult ==
  ASSUME TypeOK, Inv, TakeCurrent
  PROVE  /\ wcfg = cfg
         /\ result \in {"on", "off", "unavailable"}
         /\ shown' = [status |-> result, observed |-> TRUE]
         /\ result = "on" => cfg \notin Disabled /\ baseline.policy \in Answers[cfg]
         /\ result = "off" => cfg \in Disabled \/ NoAddrs \in Answers[cfg]
  <1>1. busy /\ pc \in {"wake", "done"}
    BY DEF TakeCurrent, Inv, HandoverInv, busy
  <1>2. wcfg = cfg
    BY <1>1 DEF TakeCurrent, Inv, CurrentUsesNewestConfig
  <1>3. Effective
    BY DEF TakeCurrent, Effective
  <1>4. /\ result # NoResult
        /\ result = "off" => NoAddrs \in Wanted(wcfg)
        /\ result = "on" => wcfg \notin Disabled /\ baseline.policy \in Answers[wcfg]
    BY <1>1, <1>3 DEF Inv, BaselineInv
  <1>5. result \in {"on", "off", "unavailable"}
    BY <1>4 DEF TypeOK, WorkerTypeOK
  <1>6. shown' = [status |-> result, observed |-> TRUE]
    BY <1>4 DEF TakeCurrent
  <1>7. QED BY <1>2, <1>4, <1>5, <1>6 DEF Wanted

\* Who waits for the current batch hears its reply, nobody else hears anything.
LEMMA TakenAnswers ==
  ASSUME TypeOK, Inv, TakeCurrent, NEW c \in Clients
  PROVE  /\ conn[c] \in Waiting => conn'[c] = Reply
         /\ conn[c] \notin Waiting => conn'[c] = conn[c]
  BY Distinct DEF TakeCurrent, Inv, WaitersAreServed, TypeOK, CliTypeOK

LEMMA OkNext ==
  ASSUME TypeOK, Inv, [Next]_vars, NEW c \in Clients
  PROVE  OkStep(c)
  <1> SUFFICES ASSUME conn[c] # "ok", conn'[c] = "ok" PROVE TakenIsApplied
    BY DEF OkStep
  <1>1. ASSUME TakeCurrent PROVE TakenIsApplied
    <2>1. Reply = "ok"
      BY <1>1, TakenAnswers
    <2>2. result \in {"on", "off"}
      BY <2>1 DEF Reply
    <2>3. QED BY <1>1, <2>2, TakenResult DEF TakenIsApplied
  <1>2. ASSUME Loop, ~TakeCurrent PROVE conn'[c] # "ok"
    BY <1>2 DEF Loop, Boot, Bind, Periodic, TakeStale, Accept, RefuseReload, Reload,
                Refresh, Drop, Adopted, TypeOK, CliTypeOK, cli, Latest
  <1>3. ASSUME Stop \/ Exit PROVE conn'[c] # "ok"
    BY <1>3 DEF Stop, Exit, cli
  <1>4. ASSUME Worker PROVE conn'[c] # "ok"
    BY <1>4 DEF Worker, Resolve, ResolveRaises, StartSlice, StartSliceFails,
                BeginReconcile, Recheck, Flush, Replace, Verify, Keep, Observe, Publish,
                Wake, WorkerUnchanged, cli
  <1>5. ASSUME Commands PROVE conn'[c] # "ok"
    BY <1>5 DEF Commands, Edit, Connect, Leave, FlushBlock, TypeOK, CliTypeOK
  <1>6. ASSUME Firewalled \/ UNCHANGED vars PROVE conn'[c] # "ok"
    BY <1>6 DEF Firewalled, vars, cli
  <1>7. QED BY <1>1, <1>2, <1>3, <1>4, <1>5, <1>6 DEF Next

\* "ok" means that the configuration in force is applied and published.
THEOREM OkIsTrue == Spec => OkMeansApplied
  <1>1. TypeOK /\ Inv /\ [Next]_vars => [\A c \in Clients : OkStep(c)]_vars
    BY OkNext
  <1>2. QED BY <1>1, TypeCorrect, Safety, PTL DEF Spec, OkMeansApplied

(***************************************************************************)
(* The refinement of SiteBlock.                                            *)
(***************************************************************************)
LEMMA ServiceInit == Init => Service!Init
  <1> SUFFICES ASSUME Init PROVE Service!Init
    OBVIOUS
  <1>1. \A c \in Clients : Answer(c) = "none"
    BY AnswerNone DEF Init
  <1>2. QED BY <1>1 DEF Init, Service!Init, Service!Unobserved, Answered

\* A step that changes no answer and neither the configuration in force nor the
\* published state is none of the service.
LEMMA Unseen ==
  ASSUME UNCHANGED <<cfg, shown>>, \A c \in Clients : Answer(c)' = Answer(c)
  PROVE  UNCHANGED Service!vars
  BY DEF Service!vars, Answered

\* A request that was heard.
LEMMA Heard ==
  ASSUME TypeOK, NEW c \in Clients, conn[c] = "sent", conn' = [Adopted EXCEPT ![c] = Latest],
         cfg' \in Configs, shown' = shown
  PROVE  Service!Next
  <1>1. Answer(c) = "none"
    BY AnswerNone
  <1>2. \A d \in Clients : Answer(d)' = IF d = c THEN "waiting" ELSE Answer(d)
    BY Distinct DEF Adopted, Answer
  <1>3. Answered' = [Answered EXCEPT ![c] = "waiting"]
    BY <1>2 DEF Answered
  <1>4. Service!Ask(c, cfg')
    BY <1>1, <1>3 DEF Service!Ask, Answered
  <1>5. QED BY <1>4 DEF Service!Next

LEMMA ServiceNext == TypeOK /\ Inv /\ [Next]_vars => [Service!Next]_Service!vars
  <1> SUFFICES ASSUME TypeOK, Inv, [Next]_vars PROVE Service!Next \/ UNCHANGED Service!vars
    OBVIOUS
  <1>u. UNCHANGED conn => \A c \in Clients : Answer(c)' = Answer(c)
    BY DEF Answer
  <1>1. ASSUME Boot PROVE Service!Next
    <2>1. \A c \in Clients : Answered[c] # "waiting"
      BY <1>1, AnswerWaiting DEF Boot, Inv, HandoverInv, Answered
    <2>2. cfg' \in Configs
      BY <1>1 DEF Boot, TypeOK, FilesTypeOK
    <2>3. Answered' = Answered
      BY <1>1, <1>u DEF Boot, cli, Answered
    <2>4. Service!Restart
      BY <1>1, <2>1, <2>2, <2>3 DEF Boot, Service!Restart, Service!Unobserved
    <2>5. QED BY <2>4 DEF Service!Next
  <1>2. ASSUME TakeCurrent PROVE Service!Next
    <2>1. Reply \in {"ok", "error", "deferred"} /\ (result = "unavailable" => Reply = "error")
      BY DEF Reply, TypeOK, WorkerTypeOK, Replies
    <2>2. \A c \in Clients :
            Answer(c)' = IF Answer(c) = "waiting" THEN Reply ELSE Answer(c)
      <3>1. TAKE c \in Clients
      <3>2. CASE conn[c] \in Waiting
        <4>1. conn'[c] = Reply
          BY <1>2, <3>2, TakenAnswers
        <4>2. Answer(c)' = Reply
          BY <2>1, <4>1, Distinct DEF Answer, Replies
        <4>3. QED BY <3>2, <4>2, AnswerWaiting
      <3>3. CASE conn[c] \notin Waiting
        <4>1. conn'[c] = conn[c]
          BY <1>2, <3>3, TakenAnswers
        <4>2. Answer(c)' = Answer(c)
          BY <4>1 DEF Answer
        <4>3. QED BY <3>3, <4>2, AnswerWaiting
      <3>4. QED BY <3>2, <3>3
    <2>3. Answered' = [c \in Clients |-> IF Answered[c] = "waiting" THEN Reply ELSE Answered[c]]
      BY <2>2 DEF Answered
    <2>4. cfg \in Disabled => result # "on"
      BY <1>2, TakenResult
    <2>5. Service!Publish(result, Reply)
      BY <1>2, <2>1, <2>3, <2>4, TakenResult DEF Service!Publish, TakeCurrent
    <2>6. QED BY <1>2, <2>1, <2>5, TakenResult DEF Service!Next
  <1>3. ASSUME NEW c \in Clients, Reload(c) \/ Refresh(c) PROVE Service!Next
    BY <1>3, Heard DEF Reload, Refresh, TypeOK, FilesTypeOK, LoopTypeOK, files
  <1>4. ASSUME NEW c \in Clients, RefuseReload(c) PROVE Service!Next
    <2>1. Answer(c) = "none"
      BY <1>4, AnswerNone DEF RefuseReload
    <2>2. \A d \in Clients : Answer(d)' = IF d = c THEN "error" ELSE Answer(d)
      BY <1>4, Distinct DEF RefuseReload, Answer, Replies, TypeOK, CliTypeOK
    <2>3. Answered' = [Answered EXCEPT ![c] = "error"]
      BY <2>2 DEF Answered
    <2>4. Service!Refuse(c)
      BY <1>4, <2>1, <2>3 DEF Service!Refuse, Answered, RefuseReload, files, loop
    <2>5. QED BY <2>4 DEF Service!Next
  <1>5. ASSUME NEW S \in SUBSET {c \in Clients : conn[c] \in Waiting},
               \A c \in Clients : Answer(c)' = IF c \in S THEN "closed" ELSE Answer(c),
               UNCHANGED <<cfg, shown>>
        PROVE  Service!Next
    <2>1. S \in SUBSET {c \in Clients : Answered[c] = "waiting"}
      BY AnswerWaiting DEF Answered
    <2>2. Answered' = [c \in Clients |-> IF c \in S THEN "closed" ELSE Answered[c]]
      BY <1>5 DEF Answered
    <2>3. Service!Close(S)
      BY <1>5, <2>2 DEF Service!Close
    <2>4. QED BY <2>1, <2>3 DEF Service!Next
  <1>6. ASSUME NEW c \in Clients, Drop(c) PROVE Service!Next
    <2>1. {c} \in SUBSET {d \in Clients : conn[d] \in Waiting}
      BY <1>6 DEF Drop
    <2>2. \A d \in Clients : Answer(d)' = IF d \in {c} THEN "closed" ELSE Answer(d)
      BY <1>6, Distinct DEF Drop, Answer, TypeOK, CliTypeOK, Replies
    <2>3. QED BY <1>5, <1>6, <2>1, <2>2 DEF Drop, files, loop
  <1>7. ASSUME Stop PROVE Service!Next
    <2> DEFINE S == {c \in Clients : conn[c] \in Waiting}
    <2>1. ASSUME NEW c \in Clients PROVE Answer(c)' = IF c \in S THEN "closed" ELSE Answer(c)
      <3>1. CASE conn[c] \in {"queued", "sent"}
        BY <1>7, <3>1, Distinct, AnswerNone DEF Stop, Answer
      <3>2. CASE conn[c] \in Waiting
        BY <1>7, <3>2, Distinct DEF Stop, Answer, Replies
      <3>3. CASE conn[c] \notin Waiting \union {"queued", "sent"}
        BY <1>7, <3>3 DEF Stop, Answer
      <3>4. QED BY <3>1, <3>2, <3>3
    <2>2. QED BY <1>5, <1>7, <2>1 DEF Stop, files
  <1>8. ASSUME Periodic PROVE UNCHANGED Service!vars
    <2>1. \A c \in Clients : Answer(c)' = Answer(c)
      BY <1>8, Distinct DEF Periodic, Adopted, Answer
    <2>2. QED BY <1>8, <2>1, Unseen DEF Periodic, files
  <1>9. ASSUME NEW c \in Clients, Accept(c) \/ Connect(c) PROVE UNCHANGED Service!vars
    <2>1. conn[c] \in {"none", "queued"} /\ conn'[c] \in {"queued", "sent", "refused"}
      BY <1>9 DEF Accept, Connect, Inv, CommandInv, TypeOK, CliTypeOK
    <2>2. \A d \in Clients : d # c => conn'[d] = conn[d]
      BY <1>9 DEF Accept, Connect, TypeOK, CliTypeOK
    <2>3. \A d \in Clients : Answer(d)' = Answer(d)
      BY <2>1, <2>2, Distinct DEF Answer
    <2>4. QED BY <1>9, <2>3, Unseen DEF Accept, Connect, files, loop
  <1>10. ASSUME UNCHANGED <<conn, cfg, shown>> PROVE UNCHANGED Service!vars
    BY <1>10, <1>u, Unseen
  <1>11. ASSUME Worker PROVE UNCHANGED <<conn, cfg, shown>>
    BY <1>11 DEF Worker, Resolve, ResolveRaises, StartSlice, StartSliceFails,
                 BeginReconcile, Recheck, Flush, Replace, Verify, Keep, Observe, Publish,
                 Wake, WorkerUnchanged, cli, files
  <1>12. CASE \/ Bind \/ TakeStale \/ Exit \/ Firewalled \/ UNCHANGED vars
              \/ \E c \in Clients : Edit(c) \/ Leave(c) \/ FlushBlock(c)
    <2>1. UNCHANGED <<conn, cfg, shown>>
      BY <1>12 DEF Bind, TakeStale, Exit, Firewalled, vars, Edit, Leave, FlushBlock,
                   files, loop, cli
    <2>2. QED BY <2>1, <1>10
  <1>q. QED
    BY <1>1, <1>2, <1>3, <1>4, <1>6, <1>7, <1>8, <1>9, <1>10, <1>11, <1>12
    DEF Next, Loop, Commands

\* The listener is the service SiteBlock describes.
THEOREM Refinement == Spec => ImplementsSiteBlock
  <1>1. QED
    BY ServiceInit, ServiceNext, TypeCorrect, Safety, PTL
    DEF Spec, ImplementsSiteBlock, Service!Spec
=============================================================================
