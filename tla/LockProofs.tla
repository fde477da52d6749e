----------------------------- MODULE LockProofs -----------------------------
(***************************************************************************)
(* Proofs about Lock and HeldFile, for every set of commands, every cap on *)
(* the held file and every bound on records and kills.                     *)
(*                                                                         *)
(* A step either leaves the lock alone (LockQuiet) or is one of a few      *)
(* actions, and likewise for the held file (HeldQuiet); each part of the   *)
(* invariant has a lemma with one step per action that could disturb it.   *)
(* At the end, the refinement: each step of Lock is a step of OneLock, or   *)
(* one OneLock does not see.                                               *)
(***************************************************************************)
EXTENDS Lock, TLAPS, FiniteSetTheorems

-----------------------------------------------------------------------------
(***************************************************************************)
(* The lock.                                                               *)
(***************************************************************************)

\* Where a process neither holds the flock nor owes anybody a hook.
Idle == {"ask", "check", "go", "done", "off", "idle", "append", "trim", "replace",
         "expire"}

\* A step that changes nothing of the lock.
LockQuiet ==
  /\ UNCHANGED <<lockfile, flock, op, saw, boundary, ended, hooked, again, kills>>
  /\ \A p \in Processes :
       pc'[p] = pc[p] \/ (pc[p] \in Idle \ {"done"} /\ pc'[p] \in Idle)
  /\ \A c \in Commands : op[c] = "lock" => pc'[c] = pc[c]

\* Every other step is one of these.
LEMMA LockSteps ==
  ASSUME TypeOK, [Next]_vars
  PROVE  \/ LockQuiet
         \/ \E c \in Commands : LockAsk(c)
         \/ \E c \in Commands : LockAway(c)
         \/ \E c \in Commands : LockCheck(c)
         \/ \E c \in Commands : LockWrite(c)
         \/ \E c \in Commands : LockHook(c)
         \/ \E c \in Commands : UnlockCheck(c)
         \/ \E c \in Commands : UnlockWrite(c)
         \/ \E c \in Commands : UnlockHook(c)
         \/ \E c \in Commands : Kill(c)
         \/ \E p \in Processes : TakeClaim(p)
         \/ \E p \in Processes : TakeRead(p)
         \/ \E p \in Processes : TakeUnlink(p)
         \/ Expire
         \/ ExpireWrite
         \/ Space
         \/ BoundaryHook
         \/ TimeUp
         \/ ListenerDies
  <1>1. ASSUME NEW c \in Commands, UnlockAsk(c) PROVE LockQuiet
    BY <1>1 DEF UnlockAsk, At, Steps, Goto, loop, history, LockQuiet, Idle
  <1>2. ASSUME NEW c \in Commands, EnterAsk(c) PROVE LockQuiet
    BY <1>2 DEF EnterAsk, At, Steps, Goto, loop, history, LockQuiet, Idle
  <1>3. ASSUME NEW c \in Commands, EnterGo(c) PROVE LockQuiet
    BY <1>3 DEF EnterGo, At, Goto, loop, history, LockQuiet, Idle, TypeOK,
      LockTypeOK
  <1>4. ASSUME Append PROVE LockQuiet
    BY <1>4, LockAssumption DEF Append, At, Steps, Goto, loop, history, LockQuiet, Idle
  <1>5. ASSUME AppendWrite PROVE LockQuiet
    BY <1>5, LockAssumption DEF AppendWrite, At, Steps, Goto, loop, history, LockQuiet, Idle
  <1>6. ASSUME AppendTrim PROVE LockQuiet
    BY <1>6, LockAssumption DEF AppendTrim, At, Steps, Goto, loop, history, LockQuiet, Idle,
      TypeOK, LockTypeOK
  <1>7. ASSUME AppendReplace PROVE LockQuiet
    BY <1>7, LockAssumption DEF AppendReplace, At, Steps, Goto, loop, history, LockQuiet, Idle
  <1>8. ASSUME Tick PROVE LockQuiet
    BY <1>8, LockAssumption DEF Tick, At, Steps, Goto, loop, history, LockQuiet, Idle
  <1>9. ASSUME ListenerStarts PROVE LockQuiet
    BY <1>9, LockAssumption DEF ListenerStarts, At, Steps, Goto, loop, history, LockQuiet, Idle
  <1>10. ASSUME Switch PROVE LockQuiet
    BY <1>10 DEF Switch, loop, history, LockQuiet, Idle
  <1>11. CASE UNCHANGED vars
    BY <1>11 DEF vars, lockVars, loop, history, LockQuiet, Idle
  <1> QED
    BY <1>1, <1>2, <1>3, <1>4, <1>5, <1>6, <1>7, <1>8, <1>9, <1>10, <1>11 DEF
      Next, LockCommand, UnlockCommand, EnterCommand, Take, ListenerStep

\* No step gives the lock's state a value outside its type.
LEMMA LockTypeNext == TypeOK /\ LockInv /\ [Next]_vars => LockTypeOK'
  <1> SUFFICES ASSUME TypeOK, LockInv, [Next]_vars PROVE LockTypeOK'
    OBVIOUS
  <1>1. ASSUME NEW c \in Commands, LockAsk(c) PROVE LockTypeOK'
    BY <1>1, LockAssumption DEF LockAsk, Steps, Goto, loop, history,
      LockTypeOK, Ops, CommandPcs, ListenerPcs, TypeOK
  <1>2. ASSUME NEW c \in Commands, LockAway(c) PROVE LockTypeOK'
    BY <1>2, LockAssumption DEF LockAway, Goto, loop, history, LockTypeOK, Ops,
      CommandPcs, ListenerPcs, TypeOK
  <1>3. ASSUME NEW c \in Commands, LockCheck(c) PROVE LockTypeOK'
    BY <1>3, LockAssumption DEF LockCheck, Goto, Acquire, loop, history,
      LockTypeOK, Ops, CommandPcs, ListenerPcs, TypeOK
  <1>4. ASSUME NEW c \in Commands, LockWrite(c) PROVE LockTypeOK'
    BY <1>4, LockAssumption DEF LockWrite, Release, Goto, loop, history,
      LockTypeOK, Deadlines, Ops, CommandPcs, ListenerPcs, TypeOK
  <1>5. ASSUME NEW c \in Commands, LockHook(c) PROVE LockTypeOK'
    BY <1>5, LockAssumption DEF LockHook, Steps, Goto, loop, history,
      LockTypeOK, Ops, CommandPcs, ListenerPcs, TypeOK
  <1>6. ASSUME NEW c \in Commands, UnlockAsk(c) PROVE LockTypeOK'
    BY <1>6, LockAssumption DEF UnlockAsk, Steps, Goto, loop, history,
      LockTypeOK, Ops, CommandPcs, ListenerPcs, TypeOK
  <1>7. ASSUME NEW c \in Commands, UnlockCheck(c) PROVE LockTypeOK'
    BY <1>7, LockAssumption DEF UnlockCheck, Goto, Acquire, loop, history,
      LockTypeOK, Ops, CommandPcs, ListenerPcs, TypeOK
  <1>8. ASSUME NEW c \in Commands, UnlockWrite(c) PROVE LockTypeOK'
    BY <1>8, LockAssumption DEF UnlockWrite, At, End, Unlocked, Release, Goto,
      LockTypeOK, Deadlines, Ops, CommandPcs, ListenerPcs, TypeOK, LockInv,
      SawInv, InSection
  <1>9. ASSUME NEW c \in Commands, UnlockHook(c) PROVE LockTypeOK'
    BY <1>9, LockAssumption DEF UnlockHook, At, Hook, Goto, LockTypeOK, Ops,
      CommandPcs, ListenerPcs, TypeOK, LockInv, EndInv, Pending
  <1>10. ASSUME NEW c \in Commands, EnterAsk(c) PROVE LockTypeOK'
    BY <1>10, LockAssumption DEF EnterAsk, Steps, Goto, loop, history,
      LockTypeOK, Ops, CommandPcs, ListenerPcs, TypeOK
  <1>11. ASSUME NEW c \in Commands, EnterGo(c) PROVE LockTypeOK'
    BY <1>11, LockAssumption DEF EnterGo, Goto, loop, history, LockTypeOK, Ops,
      CommandPcs, ListenerPcs, TypeOK
  <1>12. ASSUME NEW c \in Commands, Kill(c) PROVE LockTypeOK'
    BY <1>12, LockAssumption DEF Kill, Killed, Goto, LockTypeOK, Ops,
      CommandPcs, ListenerPcs, TypeOK
  <1>13. ASSUME NEW p \in Processes, TakeClaim(p) PROVE LockTypeOK'
    BY <1>13, LockAssumption DEF TakeClaim, Steps, Goto, loop, history,
      AfterTake, LockTypeOK, Ops, CommandPcs, ListenerPcs, TypeOK
  <1>14. ASSUME NEW p \in Processes, TakeRead(p) PROVE LockTypeOK'
    BY <1>14 DEF TakeRead, Steps, Goto, loop, history, LockTypeOK, Ops,
      CommandPcs, ListenerPcs, TypeOK
  <1>15. ASSUME NEW p \in Processes, TakeUnlink(p) PROVE LockTypeOK'
    BY <1>15 DEF TakeUnlink, Steps, Goto, loop, history, AfterTake, LockTypeOK,
      Ops, CommandPcs, ListenerPcs, TypeOK
  <1>16. ASSUME Append PROVE LockTypeOK'
    BY <1>16, LockAssumption DEF Append, Steps, Goto, loop, history,
      LockTypeOK, Ops, ListenerPcs, TypeOK
  <1>17. ASSUME AppendWrite PROVE LockTypeOK'
    BY <1>17, LockAssumption DEF AppendWrite, Steps, Goto, loop, history,
      LockTypeOK, Ops, ListenerPcs, TypeOK
  <1>18. ASSUME AppendTrim PROVE LockTypeOK'
    BY <1>18, LockAssumption DEF AppendTrim, Steps, Goto, loop, history,
      LockTypeOK, Ops, ListenerPcs, TypeOK
  <1>19. ASSUME AppendReplace PROVE LockTypeOK'
    BY <1>19, LockAssumption DEF AppendReplace, Steps, Goto, loop, history,
      LockTypeOK, Ops, ListenerPcs, TypeOK
  <1>20. ASSUME Tick PROVE LockTypeOK'
    BY <1>20, LockAssumption DEF Tick, Steps, Goto, loop, history, LockTypeOK,
      Ops, ListenerPcs, TypeOK
  <1>21. ASSUME Expire PROVE LockTypeOK'
    BY <1>21, LockAssumption DEF Expire, Acquire, Goto, loop, history,
      LockTypeOK, Ops, ListenerPcs, TypeOK
  <1>22. ASSUME ExpireWrite PROVE LockTypeOK'
    BY <1>22, LockAssumption DEF ExpireWrite, At, End, Unlocked, Release, Goto,
      LockTypeOK, Deadlines, Ops, ListenerPcs, TypeOK, LockInv, SawInv,
      InSection
  <1>23. ASSUME Space PROVE LockTypeOK'
    BY <1>23, LockAssumption DEF Space, Goto, Here, history, LockTypeOK, Ops,
      ListenerPcs, TypeOK
  <1>24. ASSUME BoundaryHook PROVE LockTypeOK'
    BY <1>24, LockAssumption DEF BoundaryHook, At, Hook, Goto, LockTypeOK, Ops,
      ListenerPcs, TypeOK, LockInv, EndInv, Pending
  <1>25. ASSUME ListenerStarts PROVE LockTypeOK'
    BY <1>25, LockAssumption DEF ListenerStarts, Steps, Goto, loop, history,
      LockTypeOK, Ops, ListenerPcs, TypeOK
  <1>26. ASSUME TimeUp PROVE LockTypeOK'
    BY <1>26 DEF TimeUp, loop, history, LockTypeOK, Deadlines, Ops,
      ListenerPcs, TypeOK
  <1>27. ASSUME Switch PROVE LockTypeOK'
    BY <1>27 DEF Switch, loop, history, LockTypeOK, Ops, ListenerPcs, TypeOK
  <1>28. ASSUME ListenerDies PROVE LockTypeOK'
    BY <1>28, LockAssumption DEF ListenerDies, Killed, Goto, LockTypeOK, Ops,
      ListenerPcs, TypeOK
  <1>29. CASE UNCHANGED vars
    BY <1>29 DEF vars, lockVars, loop, history, LockTypeOK, Ops, ListenerPcs,
      TypeOK
  <1> QED
    BY <1>1, <1>2, <1>3, <1>4, <1>5, <1>6, <1>7, <1>8, <1>9, <1>10, <1>11,
      <1>12, <1>13, <1>14, <1>15, <1>16, <1>17, <1>18, <1>19, <1>20, <1>21,
      <1>22, <1>23, <1>24, <1>25, <1>26, <1>27, <1>28, <1>29 DEF Next,
      LockCommand, UnlockCommand, EnterCommand, Take, ListenerStep

\* A command stays on the path of what it does.
LEMMA PlaceInvNext == TypeOK /\ LockInv /\ [Next]_vars => PlaceInv'
  <1> SUFFICES ASSUME TypeOK, LockInv, [Next]_vars PROVE PlaceInv'
    OBVIOUS
  <1>1. ASSUME NEW c \in Commands, LockAsk(c) PROVE PlaceInv'
    BY <1>1 DEF LockAsk, Steps, Goto, PlaceInv, LockInv
  <1>2. ASSUME NEW c \in Commands, LockAway(c) PROVE PlaceInv'
    BY <1>2 DEF LockAway, Goto, PlaceInv, LockInv
  <1>3. ASSUME NEW c \in Commands, LockCheck(c) PROVE PlaceInv'
    BY <1>3, LockAssumption DEF LockCheck, Goto, PlaceInv, TypeOK, LockTypeOK,
      LockInv
  <1>4. ASSUME NEW c \in Commands, LockWrite(c) PROVE PlaceInv'
    BY <1>4 DEF LockWrite, Goto, PlaceInv, LockInv
  <1>5. ASSUME NEW c \in Commands, LockHook(c) PROVE PlaceInv'
    BY <1>5 DEF LockHook, Steps, Goto, PlaceInv, LockInv
  <1>6. ASSUME NEW c \in Commands, UnlockCheck(c) PROVE PlaceInv'
    BY <1>6, LockAssumption DEF UnlockCheck, Goto, PlaceInv, TypeOK,
      LockTypeOK, LockInv
  <1>7. ASSUME NEW c \in Commands, UnlockWrite(c) PROVE PlaceInv'
    BY <1>7 DEF UnlockWrite, End, Unlocked, Goto, PlaceInv, LockInv
  <1>8. ASSUME NEW c \in Commands, UnlockHook(c) PROVE PlaceInv'
    BY <1>8 DEF UnlockHook, Hook, Goto, PlaceInv, LockInv
  <1>9. ASSUME NEW c \in Commands, Kill(c) PROVE PlaceInv'
    BY <1>9 DEF Kill, Killed, Goto, PlaceInv, LockInv
  <1>10. ASSUME NEW p \in Processes, TakeClaim(p) PROVE PlaceInv'
    BY <1>10, LockAssumption DEF TakeClaim, At, Steps, Goto, AfterTake,
      PlaceInv, TypeOK, LockTypeOK, LockInv
  <1>11. ASSUME NEW p \in Processes, TakeRead(p) PROVE PlaceInv'
    BY <1>11 DEF TakeRead, At, Steps, Goto, PlaceInv, LockInv
  <1>12. ASSUME NEW p \in Processes, TakeUnlink(p) PROVE PlaceInv'
    BY <1>12 DEF TakeUnlink, At, Steps, Goto, AfterTake, PlaceInv, LockInv
  <1>13. ASSUME Expire PROVE PlaceInv'
    BY <1>13, LockAssumption DEF Expire, Goto, PlaceInv, TypeOK, LockTypeOK,
      LockInv
  <1>14. ASSUME ExpireWrite PROVE PlaceInv'
    BY <1>14, LockAssumption DEF ExpireWrite, End, Unlocked, Goto, PlaceInv,
      LockInv
  <1>15. ASSUME Space PROVE PlaceInv'
    BY <1>15, LockAssumption DEF Space, Goto, Here, PlaceInv, TypeOK,
      LockTypeOK, LockInv
  <1>16. ASSUME BoundaryHook PROVE PlaceInv'
    BY <1>16, LockAssumption DEF BoundaryHook, Hook, Goto, PlaceInv, TypeOK,
      LockTypeOK, LockInv
  <1>17. ASSUME TimeUp PROVE PlaceInv'
    BY <1>17 DEF TimeUp, PlaceInv, LockInv
  <1>18. ASSUME ListenerDies PROVE PlaceInv'
    BY <1>18 DEF ListenerDies, Killed, Goto, PlaceInv, LockInv
  <1>19. ASSUME LockQuiet PROVE PlaceInv'
    BY <1>19, LockAssumption DEF LockQuiet, Idle, PlaceInv, LockInv
  <1> QED
    BY LockSteps, <1>1, <1>2, <1>3, <1>4, <1>5, <1>6, <1>7, <1>8, <1>9, <1>10,
      <1>11, <1>12, <1>13, <1>14, <1>15, <1>16, <1>17, <1>18, <1>19

\* One process at a time is inside the critical section.
LEMMA SectionInvNext == TypeOK /\ LockInv /\ [Next]_vars => SectionInv'
  <1> SUFFICES ASSUME TypeOK, LockInv, [Next]_vars PROVE SectionInv'
    OBVIOUS
  <1>1. ASSUME NEW c \in Commands, LockAsk(c) PROVE SectionInv'
    BY <1>1 DEF LockAsk, At, Steps, Goto, SectionInv, InSection, LockInv
  <1>2. ASSUME NEW c \in Commands, LockAway(c) PROVE SectionInv'
    BY <1>2 DEF LockAway, At, Goto, SectionInv, InSection, LockInv
  <1>3. ASSUME NEW c \in Commands, LockCheck(c) PROVE SectionInv'
    BY <1>3, LockAssumption DEF LockCheck, Goto, Acquire, SectionInv,
      InSection, TypeOK, LockTypeOK, LockInv
  <1>4. ASSUME NEW c \in Commands, LockWrite(c) PROVE SectionInv'
    BY <1>4, LockAssumption DEF LockWrite, At, Release, Goto, SectionInv,
      InSection, TypeOK, LockTypeOK, LockInv
  <1>5. ASSUME NEW c \in Commands, LockHook(c) PROVE SectionInv'
    BY <1>5 DEF LockHook, At, Steps, Goto, SectionInv, InSection, LockInv
  <1>6. ASSUME NEW c \in Commands, UnlockCheck(c) PROVE SectionInv'
    BY <1>6, LockAssumption DEF UnlockCheck, Goto, Acquire, SectionInv,
      InSection, TypeOK, LockTypeOK, LockInv
  <1>7. ASSUME NEW c \in Commands, UnlockWrite(c) PROVE SectionInv'
    BY <1>7, LockAssumption DEF UnlockWrite, At, End, Unlocked, Release, Goto,
      SectionInv, InSection, TypeOK, LockTypeOK, LockInv
  <1>8. ASSUME NEW c \in Commands, UnlockHook(c) PROVE SectionInv'
    BY <1>8 DEF UnlockHook, At, Hook, Goto, SectionInv, InSection, LockInv
  <1>9. ASSUME NEW c \in Commands, Kill(c) PROVE SectionInv'
    BY <1>9, LockAssumption DEF Kill, Killed, Goto, SectionInv, InSection,
      TypeOK, LockTypeOK, LockInv
  <1>10. ASSUME NEW p \in Processes, TakeClaim(p) PROVE SectionInv'
    BY <1>10 DEF TakeClaim, At, Steps, Goto, AfterTake, SectionInv, InSection,
      TypeOK, LockTypeOK, LockInv
  <1>11. ASSUME NEW p \in Processes, TakeRead(p) PROVE SectionInv'
    BY <1>11 DEF TakeRead, At, Steps, Goto, SectionInv, InSection, LockInv
  <1>12. ASSUME NEW p \in Processes, TakeUnlink(p) PROVE SectionInv'
    BY <1>12 DEF TakeUnlink, At, Steps, Goto, AfterTake, SectionInv, InSection,
      LockInv
  <1>13. ASSUME Expire PROVE SectionInv'
    BY <1>13, LockAssumption DEF Expire, Acquire, Goto, SectionInv, InSection,
      TypeOK, LockTypeOK, LockInv
  <1>14. ASSUME ExpireWrite PROVE SectionInv'
    BY <1>14, LockAssumption DEF ExpireWrite, At, End, Unlocked, Release, Goto,
      SectionInv, InSection, TypeOK, LockTypeOK, LockInv
  <1>15. ASSUME Space PROVE SectionInv'
    BY <1>15 DEF Space, Goto, Here, SectionInv, InSection, TypeOK, LockTypeOK,
      LockInv
  <1>16. ASSUME BoundaryHook PROVE SectionInv'
    BY <1>16 DEF BoundaryHook, At, Hook, Goto, SectionInv, InSection, TypeOK,
      LockTypeOK, LockInv
  <1>17. ASSUME TimeUp PROVE SectionInv'
    BY <1>17 DEF TimeUp, SectionInv, InSection, LockInv
  <1>18. ASSUME ListenerDies PROVE SectionInv'
    BY <1>18, LockAssumption DEF ListenerDies, Killed, Goto, SectionInv,
      InSection, TypeOK, LockTypeOK, LockInv
  <1>19. ASSUME LockQuiet PROVE SectionInv'
    BY <1>19 DEF LockQuiet, Idle, SectionInv, InSection, LockInv
  <1> QED
    BY LockSteps, <1>1, <1>2, <1>3, <1>4, <1>5, <1>6, <1>7, <1>8, <1>9, <1>10,
      <1>11, <1>12, <1>13, <1>14, <1>15, <1>16, <1>17, <1>18, <1>19

\* What was found under the flock is not changed by anybody else.
LEMMA ChecksNext == TypeOK /\ LockInv /\ [Next]_vars => ChecksHoldUntilWrites'
  <1> SUFFICES ASSUME TypeOK, LockInv, [Next]_vars PROVE ChecksHoldUntilWrites'
    OBVIOUS
  <1>1. ASSUME NEW c \in Commands, LockAsk(c) PROVE ChecksHoldUntilWrites'
    BY <1>1 DEF LockAsk, At, Steps, Goto, InForce, ChecksHoldUntilWrites,
      Overdue, LockInv
  <1>2. ASSUME NEW c \in Commands, LockAway(c) PROVE ChecksHoldUntilWrites'
    BY <1>2 DEF LockAway, At, Goto, ChecksHoldUntilWrites, InForce, Overdue,
      LockInv
  <1>3. ASSUME NEW c \in Commands, LockCheck(c) PROVE ChecksHoldUntilWrites'
    BY <1>3, LockAssumption DEF LockCheck, At, InForce, Goto,
      ChecksHoldUntilWrites, Overdue, TypeOK, LockTypeOK, LockInv
  <1>4. ASSUME NEW c \in Commands, LockWrite(c) PROVE ChecksHoldUntilWrites'
    BY <1>4, LockAssumption DEF LockWrite, At, Goto, ChecksHoldUntilWrites,
      TypeOK, LockTypeOK, LockInv, SectionInv, InSection
  <1>5. ASSUME NEW c \in Commands, LockHook(c) PROVE ChecksHoldUntilWrites'
    BY <1>5 DEF LockHook, At, Steps, Goto, ChecksHoldUntilWrites, InForce,
      Overdue, LockInv
  <1>6. ASSUME NEW c \in Commands, UnlockCheck(c) PROVE ChecksHoldUntilWrites'
    BY <1>6, LockAssumption DEF UnlockCheck, At, Goto, ChecksHoldUntilWrites,
      TypeOK, LockTypeOK, LockInv, SectionInv, InSection
  <1>7. ASSUME NEW c \in Commands, UnlockWrite(c) PROVE ChecksHoldUntilWrites'
    BY <1>7, LockAssumption DEF UnlockWrite, At, End, Unlocked, Goto,
      ChecksHoldUntilWrites, TypeOK, LockTypeOK, LockInv, SectionInv, InSection
  <1>8. ASSUME NEW c \in Commands, UnlockHook(c) PROVE ChecksHoldUntilWrites'
    BY <1>8 DEF UnlockHook, At, Hook, Goto, ChecksHoldUntilWrites, InForce,
      Overdue, LockInv
  <1>9. ASSUME NEW c \in Commands, Kill(c) PROVE ChecksHoldUntilWrites'
    BY <1>9 DEF Kill, Killed, Goto, ChecksHoldUntilWrites, At, InForce,
      Overdue, LockInv
  <1>10. ASSUME NEW p \in Processes, TakeClaim(p) PROVE ChecksHoldUntilWrites'
    BY <1>10, LockAssumption DEF TakeClaim, At, Steps, Goto, AfterTake,
      ChecksHoldUntilWrites, InForce, Overdue, TypeOK, LockTypeOK, LockInv
  <1>11. ASSUME NEW p \in Processes, TakeRead(p) PROVE ChecksHoldUntilWrites'
    BY <1>11 DEF TakeRead, At, Steps, Goto, ChecksHoldUntilWrites, InForce,
      Overdue, LockInv
  <1>12. ASSUME NEW p \in Processes, TakeUnlink(p) PROVE ChecksHoldUntilWrites'
    BY <1>12 DEF TakeUnlink, At, Steps, Goto, AfterTake, ChecksHoldUntilWrites,
      InForce, Overdue, LockInv
  <1>13. ASSUME Expire PROVE ChecksHoldUntilWrites'
    BY <1>13, LockAssumption DEF Expire, At, Overdue, Goto,
      ChecksHoldUntilWrites, TypeOK, LockTypeOK, LockInv, SectionInv, InSection
  <1>14. ASSUME ExpireWrite PROVE ChecksHoldUntilWrites'
    BY <1>14, LockAssumption DEF ExpireWrite, At, End, Unlocked, Goto,
      ChecksHoldUntilWrites, TypeOK, LockTypeOK, LockInv, SectionInv, InSection
  <1>15. ASSUME Space PROVE ChecksHoldUntilWrites'
    BY <1>15, LockAssumption DEF Space, Goto, Here, ChecksHoldUntilWrites, At,
      InForce, TypeOK, LockTypeOK, LockInv
  <1>16. ASSUME BoundaryHook PROVE ChecksHoldUntilWrites'
    BY <1>16, LockAssumption DEF BoundaryHook, At, Hook, Goto,
      ChecksHoldUntilWrites, InForce, TypeOK, LockTypeOK, LockInv
  <1>17. ASSUME TimeUp PROVE ChecksHoldUntilWrites'
    BY <1>17 DEF TimeUp, ChecksHoldUntilWrites, At, InForce, Overdue, LockInv
  <1>18. ASSUME ListenerDies PROVE ChecksHoldUntilWrites'
    BY <1>18 DEF ListenerDies, Killed, Goto, ChecksHoldUntilWrites, At,
      InForce, Overdue, LockInv
  <1>19. ASSUME LockQuiet PROVE ChecksHoldUntilWrites'
    BY <1>19, LockAssumption DEF LockQuiet, Idle, ChecksHoldUntilWrites, At,
      InForce, Overdue, LockInv
  <1> QED
    BY LockSteps, <1>1, <1>2, <1>3, <1>4, <1>5, <1>6, <1>7, <1>8, <1>9, <1>10,
      <1>11, <1>12, <1>13, <1>14, <1>15, <1>16, <1>17, <1>18, <1>19

\* A lock to be ended is a lock.
LEMMA SawInvNext == TypeOK /\ LockInv /\ [Next]_vars => SawInv'
  <1> SUFFICES ASSUME TypeOK, LockInv, [Next]_vars PROVE SawInv'
    OBVIOUS
  <1>1. ASSUME NEW c \in Commands, LockAsk(c) PROVE SawInv'
    BY <1>1 DEF LockAsk, Steps, Goto, SawInv, InSection, LockInv
  <1>2. ASSUME NEW c \in Commands, LockAway(c) PROVE SawInv'
    BY <1>2 DEF LockAway, Goto, SawInv, InSection, LockInv
  <1>3. ASSUME NEW c \in Commands, LockCheck(c) PROVE SawInv'
    BY <1>3 DEF LockCheck, Goto, SawInv, InSection, TypeOK, LockTypeOK, LockInv
  <1>4. ASSUME NEW c \in Commands, LockWrite(c) PROVE SawInv'
    BY <1>4 DEF LockWrite, Goto, SawInv, InSection, LockInv
  <1>5. ASSUME NEW c \in Commands, LockHook(c) PROVE SawInv'
    BY <1>5 DEF LockHook, Steps, Goto, SawInv, InSection, LockInv
  <1>6. ASSUME NEW c \in Commands, UnlockCheck(c) PROVE SawInv'
    BY <1>6 DEF UnlockCheck, Goto, InForce, SawInv, InSection, TypeOK,
      LockTypeOK, LockInv
  <1>7. ASSUME NEW c \in Commands, UnlockWrite(c) PROVE SawInv'
    BY <1>7 DEF UnlockWrite, End, Unlocked, Goto, SawInv, InSection, LockInv
  <1>8. ASSUME NEW c \in Commands, UnlockHook(c) PROVE SawInv'
    BY <1>8 DEF UnlockHook, Hook, Goto, SawInv, InSection, LockInv
  <1>9. ASSUME NEW c \in Commands, Kill(c) PROVE SawInv'
    BY <1>9 DEF Kill, Killed, Goto, SawInv, InSection, LockInv
  <1>10. ASSUME NEW p \in Processes, TakeClaim(p) PROVE SawInv'
    BY <1>10 DEF TakeClaim, At, Steps, Goto, AfterTake, SawInv, InSection,
      TypeOK, LockTypeOK, LockInv
  <1>11. ASSUME NEW p \in Processes, TakeRead(p) PROVE SawInv'
    BY <1>11 DEF TakeRead, At, Steps, Goto, SawInv, InSection, LockInv
  <1>12. ASSUME NEW p \in Processes, TakeUnlink(p) PROVE SawInv'
    BY <1>12 DEF TakeUnlink, At, Steps, Goto, AfterTake, SawInv, InSection,
      LockInv
  <1>13. ASSUME Expire PROVE SawInv'
    BY <1>13 DEF Expire, Overdue, Goto, SawInv, InSection, TypeOK, LockTypeOK,
      LockInv
  <1>14. ASSUME ExpireWrite PROVE SawInv'
    BY <1>14 DEF ExpireWrite, End, Unlocked, Goto, SawInv, InSection, LockInv
  <1>15. ASSUME Space PROVE SawInv'
    BY <1>15 DEF Space, Goto, Here, SawInv, InSection, TypeOK, LockTypeOK,
      LockInv
  <1>16. ASSUME BoundaryHook PROVE SawInv'
    BY <1>16 DEF BoundaryHook, Hook, Goto, SawInv, InSection, TypeOK,
      LockTypeOK, LockInv
  <1>17. ASSUME TimeUp PROVE SawInv'
    BY <1>17 DEF TimeUp, SawInv, InSection, LockInv
  <1>18. ASSUME ListenerDies PROVE SawInv'
    BY <1>18 DEF ListenerDies, Killed, Goto, SawInv, InSection, LockInv
  <1>19. ASSUME LockQuiet PROVE SawInv'
    BY <1>19 DEF LockQuiet, Idle, SawInv, InSection, LockInv
  <1> QED
    BY LockSteps, <1>1, <1>2, <1>3, <1>4, <1>5, <1>6, <1>7, <1>8, <1>9, <1>10,
      <1>11, <1>12, <1>13, <1>14, <1>15, <1>16, <1>17, <1>18, <1>19

\* A lock is written, ended and hooked in this order, each once.
LEMMA EndInvNext == TypeOK /\ LockInv /\ [Next]_vars => EndInv'
  <1> SUFFICES ASSUME TypeOK, LockInv, [Next]_vars PROVE EndInv'
    OBVIOUS
  <1>1. ASSUME NEW c \in Commands, LockAsk(c) PROVE EndInv'
    BY <1>1 DEF LockAsk, At, Steps, Goto, loop, history, EndInv, Written,
      Pending, LockInv
  <1>2. ASSUME NEW c \in Commands, LockAway(c) PROVE EndInv'
    BY <1>2 DEF LockAway, At, Goto, loop, history, EndInv, Written, Pending,
      LockInv
  <1>3. ASSUME NEW c \in Commands, LockCheck(c) PROVE EndInv'
    BY <1>3, LockAssumption DEF LockCheck, At, Goto, loop, history, EndInv,
      Written, Pending, TypeOK, LockTypeOK, LockInv
  <1>4. ASSUME NEW c \in Commands, LockWrite(c) PROVE EndInv'
    BY <1>4, LockAssumption DEF LockWrite, At, Goto, loop, history, EndInv,
      Written, Pending, TypeOK, LockTypeOK, LockInv
  <1>5. ASSUME NEW c \in Commands, LockHook(c) PROVE EndInv'
    BY <1>5 DEF LockHook, Steps, Goto, loop, history, EndInv, Written, Pending,
      LockInv
  <1>6. ASSUME NEW c \in Commands, UnlockCheck(c) PROVE EndInv'
    BY <1>6, LockAssumption DEF UnlockCheck, Goto, loop, history, EndInv,
      Written, Pending, TypeOK, LockTypeOK, LockInv
  <1>7. ASSUME NEW c \in Commands, UnlockWrite(c) PROVE EndInv'
    BY <1>7, LockAssumption DEF UnlockWrite, At, End, Unlocked, Goto, EndInv,
      Written, Pending, TypeOK, LockTypeOK, LockInv, InSection, SawInv,
      ChecksHoldUntilWrites
  <1>8. ASSUME NEW c \in Commands, UnlockHook(c) PROVE EndInv'
    BY <1>8, LockAssumption DEF UnlockHook, At, Hook, Goto, EndInv, Written,
      Pending, TypeOK, LockTypeOK, LockInv
  <1>9. ASSUME NEW c \in Commands, Kill(c) PROVE EndInv'
    BY <1>9 DEF Kill, Killed, Goto, EndInv, Written, Pending, LockInv
  <1>10. ASSUME NEW p \in Processes, TakeClaim(p) PROVE EndInv'
    BY <1>10, LockAssumption DEF TakeClaim, At, Steps, Goto, loop, history,
      AfterTake, EndInv, Written, Pending, TypeOK, LockTypeOK, LockInv
  <1>11. ASSUME NEW p \in Processes, TakeRead(p) PROVE EndInv'
    BY <1>11 DEF TakeRead, At, Steps, Goto, loop, history, EndInv, Written,
      Pending, LockInv
  <1>12. ASSUME NEW p \in Processes, TakeUnlink(p) PROVE EndInv'
    BY <1>12 DEF TakeUnlink, At, Steps, Goto, loop, history, AfterTake, EndInv,
      Written, Pending, LockInv
  <1>13. ASSUME Expire PROVE EndInv'
    BY <1>13, LockAssumption DEF Expire, Goto, history, EndInv, Written,
      Pending, TypeOK, LockTypeOK, LockInv
  <1>14. ASSUME ExpireWrite PROVE EndInv'
    BY <1>14, LockAssumption DEF ExpireWrite, At, End, Unlocked, Goto, EndInv,
      Written, Pending, TypeOK, LockTypeOK, LockInv, InSection, SawInv,
      ChecksHoldUntilWrites
  <1>15. ASSUME Space PROVE EndInv'
    BY <1>15, LockAssumption DEF Space, Goto, Here, history, EndInv, Written,
      Pending, TypeOK, LockTypeOK, LockInv
  <1>16. ASSUME BoundaryHook PROVE EndInv'
    BY <1>16, LockAssumption DEF BoundaryHook, At, Hook, Goto, EndInv, Written,
      Pending, TypeOK, LockTypeOK, LockInv
  <1>17. ASSUME TimeUp PROVE EndInv'
    BY <1>17 DEF TimeUp, loop, history, EndInv, Written, Pending, LockInv
  <1>18. ASSUME ListenerDies PROVE EndInv'
    BY <1>18, LockAssumption DEF ListenerDies, Killed, Goto, EndInv, Written,
      Pending, TypeOK, LockTypeOK, LockInv
  <1>19. ASSUME LockQuiet PROVE EndInv'
    BY <1>19, LockAssumption DEF LockQuiet, Idle, EndInv, Written, Pending,
      TypeOK, LockTypeOK, LockInv
  <1> QED
    BY LockSteps, <1>1, <1>2, <1>3, <1>4, <1>5, <1>6, <1>7, <1>8, <1>9, <1>10,
      <1>11, <1>12, <1>13, <1>14, <1>15, <1>16, <1>17, <1>18, <1>19

\* Nobody ends or hooks a lock that was ended or hooked.
LEMMA EndsOnceNext == TypeOK /\ LockInv /\ [Next]_vars => EndsOnce'
  <1> SUFFICES ASSUME TypeOK, LockInv, [Next]_vars PROVE EndsOnce'
    OBVIOUS
  <1>1. ASSUME NEW c \in Commands, LockAsk(c) PROVE EndsOnce'
    BY <1>1 DEF LockAsk, Steps, Goto, history, EndsOnce, LockInv
  <1>2. ASSUME NEW c \in Commands, LockAway(c) PROVE EndsOnce'
    BY <1>2 DEF LockAway, Goto, history, EndsOnce, LockInv
  <1>3. ASSUME NEW c \in Commands, LockCheck(c) PROVE EndsOnce'
    BY <1>3 DEF LockCheck, Goto, history, EndsOnce, LockInv
  <1>4. ASSUME NEW c \in Commands, LockWrite(c) PROVE EndsOnce'
    BY <1>4 DEF LockWrite, Goto, history, EndsOnce, LockInv
  <1>5. ASSUME NEW c \in Commands, LockHook(c) PROVE EndsOnce'
    BY <1>5 DEF LockHook, Steps, Goto, history, EndsOnce, LockInv
  <1>6. ASSUME NEW c \in Commands, UnlockCheck(c) PROVE EndsOnce'
    BY <1>6 DEF UnlockCheck, Goto, history, EndsOnce, LockInv
  <1>7. ASSUME NEW c \in Commands, UnlockWrite(c) PROVE EndsOnce'
    BY <1>7 DEF UnlockWrite, At, End, Unlocked, Goto, EndsOnce, LockInv,
      EndInv, ChecksHoldUntilWrites
  <1>8. ASSUME NEW c \in Commands, UnlockHook(c) PROVE EndsOnce'
    BY <1>8, LockAssumption DEF UnlockHook, At, Hook, Goto, EndsOnce, LockInv,
      EndInv, Pending
  <1>9. ASSUME NEW c \in Commands, Kill(c) PROVE EndsOnce'
    BY <1>9 DEF Kill, Killed, Goto, EndsOnce, LockInv
  <1>10. ASSUME NEW p \in Processes, TakeClaim(p) PROVE EndsOnce'
    BY <1>10 DEF TakeClaim, Steps, Goto, history, EndsOnce, LockInv
  <1>11. ASSUME NEW p \in Processes, TakeRead(p) PROVE EndsOnce'
    BY <1>11 DEF TakeRead, Steps, Goto, history, EndsOnce, LockInv
  <1>12. ASSUME NEW p \in Processes, TakeUnlink(p) PROVE EndsOnce'
    BY <1>12 DEF TakeUnlink, Steps, Goto, history, EndsOnce, LockInv
  <1>13. ASSUME Expire PROVE EndsOnce'
    BY <1>13 DEF Expire, Goto, history, EndsOnce, LockInv
  <1>14. ASSUME ExpireWrite PROVE EndsOnce'
    BY <1>14 DEF ExpireWrite, End, Unlocked, Goto, EndsOnce, LockInv, EndInv,
      ChecksHoldUntilWrites
  <1>15. ASSUME Space PROVE EndsOnce'
    BY <1>15 DEF Space, Goto, Here, history, EndsOnce, LockInv
  <1>16. ASSUME BoundaryHook PROVE EndsOnce'
    BY <1>16, LockAssumption DEF BoundaryHook, At, Hook, Goto, EndsOnce,
      LockInv, EndInv, Pending
  <1>17. ASSUME TimeUp PROVE EndsOnce'
    BY <1>17 DEF TimeUp, history, EndsOnce, LockInv
  <1>18. ASSUME ListenerDies PROVE EndsOnce'
    BY <1>18 DEF ListenerDies, Killed, Goto, EndsOnce, LockInv
  <1>19. ASSUME LockQuiet PROVE EndsOnce'
    BY <1>19 DEF LockQuiet, Idle, EndsOnce, LockInv
  <1> QED
    BY LockSteps, <1>1, <1>2, <1>3, <1>4, <1>5, <1>6, <1>7, <1>8, <1>9, <1>10,
      <1>11, <1>12, <1>13, <1>14, <1>15, <1>16, <1>17, <1>18, <1>19

-----------------------------------------------------------------------------
(***************************************************************************)
(* The held file.                                                          *)
(***************************************************************************)

\* Where a process is between two steps on the file.
HeldPlaces == {"append", "trim", "replace", "read", "unlink", "dead"}

\* A step that leaves the files alone.
HeldQuiet ==
  /\ UNCHANGED heldVars
  /\ \A p \in Processes :
       pc'[p] = pc[p] \/ (pc[p] \notin HeldPlaces /\ pc'[p] \notin HeldPlaces)

\* Every other step is one of these.
LEMMA HeldSteps ==
  ASSUME TypeOK, [Next]_vars
  PROVE  \/ HeldQuiet
         \/ Append
         \/ AppendWrite
         \/ AppendTrim
         \/ AppendReplace
         \/ \E p \in Processes : TakeClaim(p)
         \/ \E p \in Processes : TakeRead(p)
         \/ \E p \in Processes : TakeUnlink(p)
         \/ \E c \in Commands : Kill(c)
         \/ ListenerDies
  <1>1. ASSUME NEW c \in Commands, LockAsk(c) PROVE HeldQuiet
    BY <1>1 DEF LockAsk, At, Steps, Goto, HeldQuiet, HeldPlaces
  <1>2. ASSUME NEW c \in Commands, LockAway(c) PROVE HeldQuiet
    BY <1>2 DEF LockAway, At, Goto, HeldQuiet, HeldPlaces
  <1>3. ASSUME NEW c \in Commands, LockCheck(c) PROVE HeldQuiet
    BY <1>3 DEF LockCheck, At, Goto, HeldQuiet, HeldPlaces, TypeOK, LockTypeOK
  <1>4. ASSUME NEW c \in Commands, LockWrite(c) PROVE HeldQuiet
    BY <1>4 DEF LockWrite, At, Goto, HeldQuiet, HeldPlaces
  <1>5. ASSUME NEW c \in Commands, LockHook(c) PROVE HeldQuiet
    BY <1>5 DEF LockHook, At, Steps, Goto, HeldQuiet, HeldPlaces
  <1>6. ASSUME NEW c \in Commands, UnlockAsk(c) PROVE HeldQuiet
    BY <1>6 DEF UnlockAsk, At, Steps, Goto, HeldQuiet, HeldPlaces
  <1>7. ASSUME NEW c \in Commands, UnlockCheck(c) PROVE HeldQuiet
    BY <1>7 DEF UnlockCheck, At, Goto, HeldQuiet, HeldPlaces, TypeOK,
      LockTypeOK
  <1>8. ASSUME NEW c \in Commands, UnlockWrite(c) PROVE HeldQuiet
    BY <1>8 DEF UnlockWrite, At, End, Unlocked, Goto, HeldQuiet, HeldPlaces
  <1>9. ASSUME NEW c \in Commands, UnlockHook(c) PROVE HeldQuiet
    BY <1>9 DEF UnlockHook, At, Hook, Goto, HeldQuiet, HeldPlaces
  <1>10. ASSUME NEW c \in Commands, EnterAsk(c) PROVE HeldQuiet
    BY <1>10 DEF EnterAsk, At, Steps, Goto, HeldQuiet, HeldPlaces
  <1>11. ASSUME NEW c \in Commands, EnterGo(c) PROVE HeldQuiet
    BY <1>11 DEF EnterGo, At, Goto, HeldQuiet, HeldPlaces
  <1>12. ASSUME Tick PROVE HeldQuiet
    BY <1>12 DEF Tick, At, Steps, Goto, HeldQuiet, HeldPlaces
  <1>13. ASSUME Expire PROVE HeldQuiet
    BY <1>13 DEF Expire, At, Goto, HeldQuiet, HeldPlaces, TypeOK, LockTypeOK
  <1>14. ASSUME ExpireWrite PROVE HeldQuiet
    BY <1>14 DEF ExpireWrite, At, End, Unlocked, Goto, HeldQuiet, HeldPlaces
  <1>15. ASSUME Space PROVE HeldQuiet
    BY <1>15 DEF Space, Goto, Here, HeldQuiet, HeldPlaces, TypeOK, LockTypeOK
  <1>16. ASSUME BoundaryHook PROVE HeldQuiet
    BY <1>16 DEF BoundaryHook, At, Hook, Goto, HeldQuiet, HeldPlaces, TypeOK,
      LockTypeOK
  <1>17. ASSUME ListenerStarts PROVE HeldQuiet
    BY <1>17 DEF ListenerStarts, At, Steps, Goto, HeldQuiet, HeldPlaces
  <1>18. ASSUME TimeUp PROVE HeldQuiet
    BY <1>18 DEF TimeUp, HeldQuiet, HeldPlaces
  <1>19. ASSUME Switch PROVE HeldQuiet
    BY <1>19 DEF Switch, HeldQuiet, HeldPlaces
  <1>20. CASE UNCHANGED vars
    BY <1>20 DEF vars, lockVars, HeldQuiet, HeldPlaces
  <1> QED
    BY <1>1, <1>2, <1>3, <1>4, <1>5, <1>6, <1>7, <1>8, <1>9, <1>10, <1>11,
      <1>12, <1>13, <1>14, <1>15, <1>16, <1>17, <1>18, <1>19, <1>20 DEF Next,
      LockCommand, UnlockCommand, EnterCommand, Take, ListenerStep

\* What _trim keeps is part of what it read.
LEMMA NewestSubset == ASSUME NEW S PROVE Newest(S) \subseteq S
  BY DEF Newest

\* An empty file is a file, and so is a file with a record in it.
LEMMA FilesAreThere ==
  /\ {} # NoFile
  /\ \A S \in Files : S # NoFile => S \in SUBSET Records
  /\ \A S, r : r \in S /\ r \in Records => S # NoFile
  /\ \A r \in Records : r \in Nat /\ r # 0 /\ r \notin NoFile
  BY DEF NoFile, Records, Files

\* No step gives a file a content outside its type.
LEMMA HeldTypeNext == TypeOK /\ FileInv /\ [Next]_vars => HeldTypeOK'
  <1> SUFFICES ASSUME TypeOK, FileInv, [Next]_vars PROVE HeldTypeOK'
    OBVIOUS
  <1>1. ASSUME Append PROVE HeldTypeOK'
    BY <1>1, HeldFileAssumption DEF Append, Open, Steps, Goto, HeldTypeOK,
      TypeOK, Files
  <1>2. ASSUME AppendWrite PROVE HeldTypeOK'
    BY <1>2, HeldFileAssumption DEF AppendWrite, Write, Steps, Goto,
      HeldTypeOK, TypeOK, FileInv, HandleInv, ClaimInv, Files
  <1>3. ASSUME AppendTrim PROVE HeldTypeOK'
    BY <1>3, NewestSubset DEF AppendTrim, At, TrimFindsNone, heldVars,
      TrimFits, Steps, Goto, TrimCuts, HeldTypeOK, TypeOK, FileInv, HandleInv,
      Files
  <1>4. ASSUME AppendReplace PROVE HeldTypeOK'
    BY <1>4 DEF AppendReplace, At, Replace, Steps, Goto, HeldTypeOK, TypeOK,
      FileInv, HandleInv, Files
  <1>5. ASSUME NEW p \in Processes, TakeClaim(p) PROVE HeldTypeOK'
    BY <1>5 DEF TakeClaim, At, Claim, Steps, Goto, ClaimsNothing, heldVars,
      HeldTypeOK, TypeOK, ClaimInv, Files
  <1>6. ASSUME NEW p \in Processes, TakeRead(p) PROVE HeldTypeOK'
    BY <1>6 DEF TakeRead, At, ReadClaim, Steps, Goto, HeldTypeOK, TypeOK,
      FileInv, ClaimInv, Files
  <1>7. ASSUME NEW p \in Processes, TakeUnlink(p) PROVE HeldTypeOK'
    BY <1>7 DEF TakeUnlink, Unlink, Steps, Goto, HeldTypeOK, TypeOK, Files
  <1>8. ASSUME NEW c \in Commands, Kill(c) PROVE HeldTypeOK'
    BY <1>8 DEF Kill, Killed, Goto, heldVars, HeldTypeOK, TypeOK
  <1>9. ASSUME ListenerDies PROVE HeldTypeOK'
    BY <1>9, LockAssumption DEF ListenerDies, Killed, Goto, Close, HeldTypeOK,
      TypeOK, Files
  <1>10. ASSUME HeldQuiet PROVE HeldTypeOK'
    BY <1>10 DEF HeldQuiet, HeldPlaces, heldVars, HeldTypeOK, TypeOK
  <1> QED
    BY HeldSteps, <1>1, <1>2, <1>3, <1>4, <1>5, <1>6, <1>7, <1>8, <1>9, <1>10

\* A record gets nowhere before it arrives.
LEMMA NumberInvNext == TypeOK /\ FileInv /\ [Next]_vars => NumberInv'
  <1> SUFFICES ASSUME TypeOK, FileInv, [Next]_vars PROVE NumberInv'
    OBVIOUS
  <1>1. ASSUME Append PROVE NumberInv'
    BY <1>1 DEF Append, Open, Steps, Goto, NumberInv, Records, Accounted,
      TypeOK, HeldTypeOK, FileInv
  <1>2. ASSUME AppendWrite PROVE NumberInv'
    BY <1>2 DEF AppendWrite, Write, Steps, Goto, NumberInv, Records, Accounted,
      FileInv
  <1>3. ASSUME AppendTrim PROVE NumberInv'
    BY <1>3, NewestSubset DEF AppendTrim, TrimFindsNone, heldVars, TrimFits,
      Steps, Goto, TrimCuts, NumberInv, Records, Accounted, FileInv
  <1>4. ASSUME AppendReplace PROVE NumberInv'
    BY <1>4 DEF AppendReplace, Replace, Steps, Goto, NumberInv, Records,
      Accounted, FileInv
  <1>5. ASSUME NEW p \in Processes, TakeClaim(p) PROVE NumberInv'
    BY <1>5, FilesAreThere DEF TakeClaim, Claim, Steps, Goto, ClaimsNothing,
      heldVars, NumberInv, Accounted, TypeOK, HeldTypeOK, FileInv
  <1>6. ASSUME NEW p \in Processes, TakeRead(p) PROVE NumberInv'
    BY <1>6 DEF TakeRead, ReadClaim, Steps, Goto, NumberInv, Accounted, FileInv
  <1>7. ASSUME NEW p \in Processes, TakeUnlink(p) PROVE NumberInv'
    BY <1>7, FilesAreThere DEF TakeUnlink, Unlink, Steps, Goto, NumberInv,
      Accounted, FileInv
  <1>8. ASSUME NEW c \in Commands, Kill(c) PROVE NumberInv'
    BY <1>8 DEF Kill, Killed, Goto, heldVars, NumberInv, Accounted, FileInv
  <1>9. ASSUME ListenerDies PROVE NumberInv'
    <2>1. \A r \in Records : r \in leaked' => r \in leaked \/ r \in claims[Listener]
      BY <1>9 DEF ListenerDies, Close
    <2>2. \A r \in Records, q \in Processes : r \in claims'[q] => r \in claims[q]
      BY <1>9, FilesAreThere DEF ListenerDies, Close
    <2> QED
      BY <1>9, <2>1, <2>2, LockAssumption DEF ListenerDies, Close, NumberInv,
        FileInv, Accounted
  <1>10. ASSUME HeldQuiet PROVE NumberInv'
    BY <1>10 DEF HeldQuiet, HeldPlaces, heldVars, NumberInv, Accounted, FileInv
  <1> QED
    BY HeldSteps, <1>1, <1>2, <1>3, <1>4, <1>5, <1>6, <1>7, <1>8, <1>9, <1>10

\* What is open is what the last open found, wherever it was renamed to.
LEMMA HandleInvNext == TypeOK /\ FileInv /\ [Next]_vars => HandleInv'
  <1> SUFFICES ASSUME TypeOK, FileInv, [Next]_vars PROVE HandleInv'
    OBVIOUS
  <1>1. ASSUME Append PROVE HandleInv'
    <2>1. arrived' \in Records /\ handle' = "held" /\ pc'[Listener] = "append"
      BY <1>1, LockAssumption, HeldFileAssumption DEF Append, Open, Steps,
        Goto, TypeOK, HeldTypeOK, LockTypeOK, Records
    <2>2. held' # NoFile
      BY <1>1, FilesAreThere DEF Append, Open
    <2> QED
      BY <2>1, <2>2 DEF HandleInv
  <1>2. ASSUME AppendWrite PROVE HandleInv'
    BY <1>2, LockAssumption DEF AppendWrite, At, Write, Steps, Goto, HandleInv,
      TypeOK, LockTypeOK, FileInv
  <1>3. ASSUME AppendTrim PROVE HandleInv'
    BY <1>3 DEF AppendTrim, At, TrimFindsNone, heldVars, TrimFits, Steps, Goto,
      TrimCuts, HandleInv, TypeOK, LockTypeOK, FileInv
  <1>4. ASSUME AppendReplace PROVE HandleInv'
    BY <1>4 DEF AppendReplace, At, Replace, Steps, Goto, HandleInv, FileInv
  <1>5. ASSUME NEW p \in Processes, TakeClaim(p) PROVE HandleInv'
    BY <1>5, LockAssumption, HeldFileAssumption DEF TakeClaim, At, Claim,
      Steps, Goto, ClaimsNothing, heldVars, AfterTake, HandleInv, TypeOK,
      LockTypeOK, FileInv
  <1>6. ASSUME NEW p \in Processes, TakeRead(p) PROVE HandleInv'
    BY <1>6 DEF TakeRead, At, ReadClaim, Steps, Goto, HandleInv, FileInv
  <1>7. ASSUME NEW p \in Processes, TakeUnlink(p) PROVE HandleInv'
    BY <1>7, HeldFileAssumption DEF TakeUnlink, At, Unlink, Steps, Goto,
      AfterTake, HandleInv, FileInv
  <1>8. ASSUME NEW c \in Commands, Kill(c) PROVE HandleInv'
    BY <1>8, LockAssumption DEF Kill, Killed, Goto, heldVars, HandleInv,
      FileInv
  <1>9. ASSUME ListenerDies PROVE HandleInv'
    BY <1>9, LockAssumption DEF ListenerDies, Killed, Goto, Close, HandleInv,
      TypeOK, LockTypeOK
  <1>10. ASSUME HeldQuiet PROVE HandleInv'
    BY <1>10, LockAssumption DEF HeldQuiet, HeldPlaces, heldVars, HandleInv,
      FileInv
  <1> QED
    BY HeldSteps, <1>1, <1>2, <1>3, <1>4, <1>5, <1>6, <1>7, <1>8, <1>9, <1>10

\* A claim's file is there from its rename to its unlink.
LEMMA ClaimInvNext == TypeOK /\ FileInv /\ [Next]_vars => ClaimInv'
  <1> SUFFICES ASSUME TypeOK, FileInv, [Next]_vars PROVE ClaimInv'
    OBVIOUS
  <1>1. ASSUME Append PROVE ClaimInv'
    BY <1>1, HeldFileAssumption DEF Append, At, Open, Steps, Goto, ClaimInv,
      FileInv
  <1>2. ASSUME AppendWrite PROVE ClaimInv'
    BY <1>2, HeldFileAssumption, FilesAreThere DEF AppendWrite, At, Write,
      Steps, Goto, ClaimInv, FileInv, HandleInv
  <1>3. ASSUME AppendTrim PROVE ClaimInv'
    BY <1>3 DEF AppendTrim, At, TrimFindsNone, heldVars, TrimFits, Steps, Goto,
      TrimCuts, ClaimInv, TypeOK, LockTypeOK, FileInv
  <1>4. ASSUME AppendReplace PROVE ClaimInv'
    BY <1>4 DEF AppendReplace, At, Replace, Steps, Goto, ClaimInv, FileInv
  <1>5. ASSUME NEW p \in Processes, TakeClaim(p) PROVE ClaimInv'
    BY <1>5 DEF TakeClaim, At, Claim, Steps, Goto, ClaimsNothing, heldVars,
      AfterTake, ClaimInv, TypeOK, HeldTypeOK, LockTypeOK, FileInv
  <1>6. ASSUME NEW p \in Processes, TakeRead(p) PROVE ClaimInv'
    BY <1>6 DEF TakeRead, At, ReadClaim, Steps, Goto, ClaimInv, FileInv
  <1>7. ASSUME NEW p \in Processes, TakeUnlink(p) PROVE ClaimInv'
    BY <1>7, HeldFileAssumption DEF TakeUnlink, Unlink, Steps, Goto, AfterTake,
      ClaimInv, TypeOK, HeldTypeOK, LockTypeOK, FileInv
  <1>8. ASSUME NEW c \in Commands, Kill(c) PROVE ClaimInv'
    BY <1>8 DEF Kill, Killed, Goto, heldVars, ClaimInv, FileInv
  <1>9. ASSUME ListenerDies PROVE ClaimInv'
    BY <1>9, HeldFileAssumption DEF ListenerDies, Killed, Goto, Close,
      ClaimInv, TypeOK, HeldTypeOK, LockTypeOK, FileInv
  <1>10. ASSUME HeldQuiet PROVE ClaimInv'
    BY <1>10 DEF HeldQuiet, HeldPlaces, heldVars, ClaimInv, FileInv
  <1> QED
    BY HeldSteps, <1>1, <1>2, <1>3, <1>4, <1>5, <1>6, <1>7, <1>8, <1>9, <1>10

\* The more records arrived, the more are newer than a given one.
LEMMA NewerGrow ==
  ASSUME NEW m \in Nat, NEW n \in Nat, m <= n, NEW r \in Nat
  PROVE  /\ Cardinality({q \in 1..m : q > r}) <= Cardinality({q \in 1..n : q > r})
         /\ Cardinality({q \in 1..m : q > r}) \in Nat
         /\ Cardinality({q \in 1..n : q > r}) \in Nat
  <1>1. IsFiniteSet({q \in 1..n : q > r})
    <2>1. IsFiniteSet(1..n)
      BY FS_Interval
    <2> QED
      BY <2>1, FS_Subset
  <1>2. {q \in 1..m : q > r} \subseteq {q \in 1..n : q > r}
    OBVIOUS
  <1> QED
    BY <1>1, <1>2, FS_Subset, FS_CardinalityType

\* A recent record is not cut.
LEMMA RecentIsNewest ==
  ASSUME NEW n \in Nat, NEW S \in SUBSET (1..n), NEW r \in S,
         Cardinality({q \in 1..n : q > r}) < FileCap
  PROVE  r \in Newest(S)
  <1>1. IsFiniteSet({q \in 1..n : q > r})
    <2>1. IsFiniteSet(1..n)
      BY FS_Interval
    <2> QED
      BY <2>1, FS_Subset
  <1>2. {q \in S : q > r} \subseteq {q \in 1..n : q > r}
    OBVIOUS
  <1>3. /\ Cardinality({q \in S : q > r}) <= Cardinality({q \in 1..n : q > r})
        /\ Cardinality({q \in S : q > r}) \in Nat
        /\ Cardinality({q \in 1..n : q > r}) \in Nat
    BY <1>1, <1>2, FS_Subset, FS_CardinalityType
  <1>4. Cardinality({q \in S : q > r}) < FileCap
    BY <1>3, HeldFileAssumption
  <1> QED
    BY <1>4 DEF Newest

\* A kept record leaves the files only to a boundary or for newer ones.
LEMMA NewestAreKeptNext == TypeOK /\ FileInv /\ KeptInv /\ [Next]_vars => NewestAreKept'
  <1> SUFFICES ASSUME TypeOK, FileInv, KeptInv, [Next]_vars PROVE NewestAreKept'
    OBVIOUS
  <1>1. ASSUME Append PROVE NewestAreKept'
    <2>1. /\ kept' = kept
          /\ \A r \in Records : Accounted(r) => Accounted(r)'
      BY <1>1, FilesAreThere DEF Append, Open, Accounted
    <2>2. \A r \in kept : Recent(r)' => Recent(r)
      <3> SUFFICES ASSUME NEW r \in kept, Recent(r)' PROVE Recent(r)
        OBVIOUS
      <3>1. arrived \in Nat /\ arrived' \in Nat /\ arrived <= arrived' /\ r \in Nat
        BY <1>1 DEF Append, Open, TypeOK, HeldTypeOK, Records
      <3>2. /\ Cardinality({q \in 1..arrived : q > r})
                 <= Cardinality({q \in 1..arrived' : q > r})
            /\ Cardinality({q \in 1..arrived : q > r}) \in Nat
            /\ Cardinality({q \in 1..arrived' : q > r}) \in Nat
        BY <3>1, NewerGrow
      <3> QED
        BY <3>2, HeldFileAssumption DEF Recent
    <2> QED
      BY <2>1, <2>2 DEF KeptInv, NewestAreKept, TypeOK, HeldTypeOK
  <1>2. ASSUME AppendWrite PROVE NewestAreKept'
    BY <1>2 DEF AppendWrite, Write, Steps, Goto, NewestAreKept, Recent,
      Accounted, KeptInv
  <1>3. ASSUME AppendTrim PROVE NewestAreKept'
    BY <1>3 DEF AppendTrim, At, TrimFindsNone, heldVars, TrimFits, Steps, Goto,
      TrimCuts, NewestAreKept, Recent, Accounted, KeptInv, TrimInv
  <1>4. ASSUME AppendReplace PROVE NewestAreKept'
    <2>1. /\ pc[Listener] = "replace" /\ held' = tmp /\ kept' = kept \union {arrived}
          /\ UNCHANGED <<claims, leaked, handed, arrived>>
      BY <1>4 DEF AppendReplace, Replace, At
    <2>2. ASSUME NEW r \in kept', Recent(r)' PROVE Accounted(r)'
      <3>1. r \in Records /\ Accounted(r) /\ Recent(r)
        BY <2>1, <2>2 DEF TypeOK, HeldTypeOK, FileInv, HandleInv, KeptInv,
          NewestAreKept, TrimInv, Recent
      <3>2. ASSUME r \in held PROVE r \in tmp
        <4>1. held \in SUBSET (1..arrived) /\ arrived \in Nat
          BY <3>1, <3>2, FilesAreThere DEF TypeOK, HeldTypeOK, FileInv,
            NumberInv, Accounted
        <4>2. held # NoFile
          BY <3>1, <3>2, FilesAreThere
        <4> QED
          BY <2>1, <3>1, <3>2, <4>1, <4>2, RecentIsNewest DEF KeptInv, TrimInv,
            Recent
      <3> QED
        BY <2>1, <3>1, <3>2 DEF Accounted
    <2> QED
      BY <2>2 DEF NewestAreKept
  <1>5. ASSUME NEW p \in Processes, TakeClaim(p) PROVE NewestAreKept'
    BY <1>5 DEF TakeClaim, At, Claim, Steps, Goto, ClaimsNothing, heldVars,
      NewestAreKept, Recent, Accounted, TypeOK, HeldTypeOK, FileInv, KeptInv,
      ClaimInv
  <1>6. ASSUME NEW p \in Processes, TakeRead(p) PROVE NewestAreKept'
    BY <1>6 DEF TakeRead, ReadClaim, Steps, Goto, NewestAreKept, Recent,
      Accounted, KeptInv
  <1>7. ASSUME NEW p \in Processes, TakeUnlink(p) PROVE NewestAreKept'
    BY <1>7 DEF TakeUnlink, At, Unlink, Steps, Goto, NewestAreKept, Recent,
      Accounted, KeptInv, LeftInv
  <1>8. ASSUME NEW c \in Commands, Kill(c) PROVE NewestAreKept'
    BY <1>8 DEF Kill, Killed, Goto, heldVars, NewestAreKept, Recent, Accounted,
      KeptInv
  <1>9. ASSUME ListenerDies PROVE NewestAreKept'
    BY <1>9 DEF ListenerDies, Killed, Goto, Close, NewestAreKept, Recent,
      Accounted, KeptInv
  <1>10. ASSUME HeldQuiet PROVE NewestAreKept'
    BY <1>10 DEF HeldQuiet, heldVars, NewestAreKept, Recent, Accounted, KeptInv
  <1> QED
    BY HeldSteps, <1>1, <1>2, <1>3, <1>4, <1>5, <1>6, <1>7, <1>8, <1>9, <1>10

\* A record that was lost leaves the path empty until the next append.
LEMMA TrimInvNext == TypeOK /\ FileInv /\ KeptInv /\ [Next]_vars => TrimInv'
  <1> SUFFICES ASSUME TypeOK, FileInv, KeptInv, [Next]_vars PROVE TrimInv'
    OBVIOUS
  <1>1. ASSUME Append PROVE TrimInv'
    <2>1. /\ arrived \in Nat /\ arrived' = arrived + 1 /\ arrived' \in Records
          /\ arrived \in 0..MaxRecords
          /\ pc'[Listener] = "append"
          /\ held' \subseteq held
          /\ UNCHANGED <<claims, leaked, handed, kept>>
      BY <1>1, LockAssumption, HeldFileAssumption DEF Append, Open, Steps,
        Goto, TypeOK, HeldTypeOK, LockTypeOK, Records
    <2>2. ~(arrived' <= arrived)
      BY <2>1
    <2>3. ~Accounted(arrived') /\ arrived' \notin kept
      BY <2>1, <2>2 DEF FileInv, NumberInv
    <2>4. ~Accounted(arrived)' /\ arrived' \notin kept'
      BY <2>1, <2>3 DEF Accounted
    <2> QED
      BY <2>1, <2>4 DEF TrimInv
  <1>2. ASSUME AppendWrite PROVE TrimInv'
    BY <1>2, LockAssumption DEF AppendWrite, At, Write, Steps, Goto, TrimInv,
      Accounted, TypeOK, LockTypeOK, FileInv, HandleInv
  <1>3. ASSUME AppendTrim PROVE TrimInv'
    BY <1>3 DEF AppendTrim, At, TrimFindsNone, heldVars, TrimFits, Steps, Goto,
      TrimCuts, TrimInv, Accounted, TypeOK, LockTypeOK, KeptInv
  <1>4. ASSUME AppendReplace PROVE TrimInv'
    BY <1>4, LockAssumption DEF AppendReplace, Replace, Steps, Goto, TrimInv,
      TypeOK, LockTypeOK
  <1>5. ASSUME NEW p \in Processes, TakeClaim(p) PROVE TrimInv'
    BY <1>5, LockAssumption DEF TakeClaim, At, Claim, Steps, Goto,
      ClaimsNothing, heldVars, AfterTake, TrimInv, Accounted, TypeOK,
      HeldTypeOK, LockTypeOK, FileInv, KeptInv, ClaimInv
  <1>6. ASSUME NEW p \in Processes, TakeRead(p) PROVE TrimInv'
    BY <1>6 DEF TakeRead, ReadClaim, Steps, Goto, TrimInv, Accounted, KeptInv
  <1>7. ASSUME NEW p \in Processes, TakeUnlink(p) PROVE TrimInv'
    BY <1>7, FilesAreThere DEF TakeUnlink, At, Unlink, Steps, Goto, AfterTake,
      TrimInv, Accounted, FileInv, KeptInv, LeftInv, HandleInv
  <1>8. ASSUME NEW c \in Commands, Kill(c) PROVE TrimInv'
    BY <1>8 DEF Kill, Killed, Goto, heldVars, TrimInv, Accounted, KeptInv
  <1>9. ASSUME ListenerDies PROVE TrimInv'
    BY <1>9, LockAssumption DEF ListenerDies, Killed, Goto, Close, TrimInv,
      TypeOK, LockTypeOK
  <1>10. ASSUME HeldQuiet PROVE TrimInv'
    BY <1>10, LockAssumption DEF HeldQuiet, HeldPlaces, heldVars, TrimInv,
      Accounted, KeptInv
  <1> QED
    BY HeldSteps, <1>1, <1>2, <1>3, <1>4, <1>5, <1>6, <1>7, <1>8, <1>9, <1>10

\* Only records that were not kept are left in a claim that was read.
LEMMA LeftInvNext == TypeOK /\ FileInv /\ KeptInv /\ [Next]_vars => LeftInv'
  <1> SUFFICES ASSUME TypeOK, FileInv, KeptInv, [Next]_vars PROVE LeftInv'
    OBVIOUS
  <1>1. ASSUME Append PROVE LeftInv'
    BY <1>1, LockAssumption DEF Append, Open, Steps, Goto, LeftInv, TypeOK,
      LockTypeOK, KeptInv
  <1>2. ASSUME AppendWrite PROVE LeftInv'
    <2>1. /\ pc[Listener] = "append" /\ pc' = [pc EXCEPT ![Listener] = "trim"]
          /\ UNCHANGED <<handed, kept, arrived>>
          /\ arrived \notin kept /\ ~Accounted(arrived)
          /\ claims \in [Processes -> Files]
          /\ pc \in [Processes -> CommandPcs \union ListenerPcs]
      BY <1>2 DEF AppendWrite, Write, Steps, Goto, At, TypeOK, HeldTypeOK,
        LockTypeOK, KeptInv, TrimInv
    <2>2. SUFFICES ASSUME NEW p \in Processes, pc'[p] = "unlink",
                          NEW r \in claims'[p] \ handed'
                   PROVE  /\ r \notin kept'
                          /\ r = arrived' =>
                               /\ pc'[Listener] # "replace"
                               /\ pc'[Listener] = "trim" => held' = NoFile
      BY DEF LeftInv
    <2>3. p # Listener /\ pc[p] = "unlink" /\ pc'[Listener] = "trim"
      BY <2>1, <2>2, LockAssumption
    <2>4. CASE handle = p
      <3>1. held = NoFile /\ held' = held
        BY <1>2, <2>1, <2>4, HeldFileAssumption DEF FileInv, HandleInv,
          AppendWrite, Write
      <3>2. r \in claims[p] \/ r = arrived
        BY <1>2, <2>1, <2>2, <2>4 DEF AppendWrite, Write
      <3> QED
        BY <2>1, <2>2, <2>3, <3>1, <3>2 DEF KeptInv, LeftInv
    <2>5. CASE handle # p
      <3>1. r \in claims[p]
        BY <1>2, <2>1, <2>2, <2>5 DEF AppendWrite, Write
      <3>2. r # arrived
        BY <2>1, <3>1 DEF Accounted
      <3> QED
        BY <2>1, <2>2, <2>3, <3>1, <3>2 DEF KeptInv, LeftInv
    <2> QED
      BY <2>4, <2>5
  <1>3. ASSUME AppendTrim PROVE LeftInv'
    BY <1>3 DEF AppendTrim, At, TrimFindsNone, heldVars, TrimFits, Steps, Goto,
      TrimCuts, LeftInv, TypeOK, LockTypeOK, KeptInv
  <1>4. ASSUME AppendReplace PROVE LeftInv'
    BY <1>4 DEF AppendReplace, At, Replace, Steps, Goto, LeftInv, KeptInv
  <1>5. ASSUME NEW p \in Processes, TakeClaim(p) PROVE LeftInv'
    BY <1>5, LockAssumption DEF TakeClaim, Claim, Steps, Goto, ClaimsNothing,
      heldVars, AfterTake, LeftInv, TypeOK, HeldTypeOK, LockTypeOK, KeptInv
  <1>6. ASSUME NEW p \in Processes, TakeRead(p) PROVE LeftInv'
    BY <1>6 DEF TakeRead, ReadClaim, Steps, Goto, LeftInv, KeptInv
  <1>7. ASSUME NEW p \in Processes, TakeUnlink(p) PROVE LeftInv'
    BY <1>7 DEF TakeUnlink, Unlink, Steps, Goto, AfterTake, LeftInv, TypeOK,
      LockTypeOK, KeptInv
  <1>8. ASSUME NEW c \in Commands, Kill(c) PROVE LeftInv'
    BY <1>8 DEF Kill, Killed, Goto, heldVars, LeftInv, KeptInv
  <1>9. ASSUME ListenerDies PROVE LeftInv'
    BY <1>9 DEF ListenerDies, Killed, Goto, Close, LeftInv, TypeOK, LockTypeOK,
      KeptInv
  <1>10. ASSUME HeldQuiet PROVE LeftInv'
    BY <1>10, LockAssumption DEF HeldQuiet, HeldPlaces, heldVars, LeftInv,
      KeptInv
  <1> QED
    BY HeldSteps, <1>1, <1>2, <1>3, <1>4, <1>5, <1>6, <1>7, <1>8, <1>9, <1>10

\* A record is in one place unless a trim put it back.
LEMMA OnceInvNext ==
  TypeOK /\ FileInv /\ KeptInv /\ OnceInv /\ [Next]_vars => OnceInv'
  <1> SUFFICES ASSUME TypeOK, FileInv, KeptInv, OnceInv, [Next]_vars
               PROVE  OnceInv'
    OBVIOUS
  <1>1. ASSUME Append PROVE OnceInv'
    BY <1>1 DEF Append, Open, Steps, Goto, OnceInv, OnlyTrimsRepeat
  <1>2. ASSUME AppendWrite PROVE OnceInv'
    <2>1. /\ pc[Listener] = "append" /\ pc' = [pc EXCEPT ![Listener] = "trim"]
          /\ UNCHANGED <<handed, repeated, restored>>
          /\ ~Accounted(arrived)
          /\ claims \in [Processes -> Files]
          /\ pc \in [Processes -> CommandPcs \union ListenerPcs]
      BY <1>2 DEF AppendWrite, Write, Steps, Goto, At, TypeOK, HeldTypeOK,
        LockTypeOK, KeptInv, TrimInv
    <2>2. /\ arrived \notin held /\ arrived \notin handed
          /\ \A p \in Processes : arrived \notin claims[p]
      BY <2>1 DEF Accounted
    <2>3. \A p \in Processes : pc'[p] = "read" => pc[p] = "read" /\ p # Listener
      BY <2>1
    <2>4. \A p \in Processes : \A r : r \in claims'[p] =>
            r \in claims[p] \/ (r = arrived /\ handle = p)
      BY <1>2, <2>1 DEF AppendWrite, Write
    <2>5. \A r : r \in held' => r \in held \/ (r = arrived /\ handle = "held")
      BY <1>2 DEF AppendWrite, Write
    <2>6. handle = "held" => handle \notin Processes
      BY HeldFileAssumption
    <2>7. \A r \in held' : r \in handed' => r \in restored'
      BY <2>1, <2>2, <2>5 DEF OnceInv
    <2>8. ASSUME NEW p \in Processes, pc'[p] = "read", NEW r \in claims'[p]
          PROVE  /\ r \in handed' \union held' => r \in restored'
                 /\ \A q \in Processes : pc'[q] = "read" /\ q # p /\ r \in claims'[q] => r \in restored'
      BY <2>1, <2>2, <2>3, <2>4, <2>5, <2>6, <2>8 DEF OnceInv
    <2>9. OnlyTrimsRepeat'
      BY <2>1 DEF OnceInv, OnlyTrimsRepeat
    <2> QED
      BY <2>7, <2>8, <2>9 DEF OnceInv
  <1>3. ASSUME AppendTrim PROVE OnceInv'
    <2>1. UNCHANGED <<held, claims, handed, repeated, restored>>
      BY <1>3 DEF AppendTrim, TrimFindsNone, TrimFits, TrimCuts, heldVars
    <2>2. \A p \in Processes : pc'[p] = "read" => pc[p] = "read"
      BY <1>3 DEF AppendTrim, Steps, Goto, TypeOK, LockTypeOK
    <2> QED
      BY <2>1, <2>2 DEF OnceInv, OnlyTrimsRepeat
  <1>4. ASSUME AppendReplace PROVE OnceInv'
    <2>1. /\ held' = tmp /\ restored' = restored \union (tmp \ held)
          /\ UNCHANGED <<claims, handed, repeated>>
      BY <1>4 DEF AppendReplace, Replace, Steps
    <2>2. \A p \in Processes : pc'[p] = "read" => pc[p] = "read"
      BY <1>4 DEF AppendReplace, Steps, Goto, TypeOK, LockTypeOK
    <2> QED
      BY <2>1, <2>2 DEF OnceInv, OnlyTrimsRepeat
  <1>5. ASSUME NEW p \in Processes, TakeClaim(p) PROVE OnceInv'
    BY <1>5, LockAssumption, FilesAreThere DEF TakeClaim, Claim, Steps, Goto,
      ClaimsNothing, heldVars, AfterTake, OnceInv, OnlyTrimsRepeat, TypeOK,
      HeldTypeOK, LockTypeOK, FileInv, ClaimInv
  <1>6. ASSUME NEW p \in Processes, TakeRead(p) PROVE OnceInv'
    BY <1>6 DEF TakeRead, At, ReadClaim, Steps, Goto, OnceInv, OnlyTrimsRepeat,
      TypeOK, LockTypeOK
  <1>7. ASSUME NEW p \in Processes, TakeUnlink(p) PROVE OnceInv'
    BY <1>7 DEF TakeUnlink, Unlink, Steps, Goto, AfterTake, OnceInv,
      OnlyTrimsRepeat, TypeOK, LockTypeOK
  <1>8. ASSUME NEW c \in Commands, Kill(c) PROVE OnceInv'
    BY <1>8 DEF Kill, Killed, Goto, heldVars, OnceInv, OnlyTrimsRepeat
  <1>9. ASSUME ListenerDies PROVE OnceInv'
    BY <1>9 DEF ListenerDies, Killed, Goto, Close, OnceInv, OnlyTrimsRepeat,
      TypeOK, LockTypeOK
  <1>10. ASSUME HeldQuiet PROVE OnceInv'
    BY <1>10, LockAssumption DEF HeldQuiet, HeldPlaces, heldVars, OnceInv,
      OnlyTrimsRepeat
  <1> QED
    BY HeldSteps, <1>1, <1>2, <1>3, <1>4, <1>5, <1>6, <1>7, <1>8, <1>9, <1>10

-----------------------------------------------------------------------------
(***************************************************************************)
(* The inductive invariant and the theorems.                               *)
(***************************************************************************)
Safe == TypeOK /\ LockInv /\ FileInv /\ KeptInv

\* Nobody has done anything yet.
LEMMA InitSafe == Init => Safe
  <1> SUFFICES ASSUME Init PROVE Safe
    OBVIOUS
  <1>1. \A p \in Processes : claims[p] = NoFile
    BY DEF Init, HeldInit
  <1>2. TypeOK
    BY LockAssumption, HeldFileAssumption
    DEF Init, HeldInit, TypeOK, HeldTypeOK, LockTypeOK, Files, Unlocked, Deadlines,
        CommandPcs, ListenerPcs
  <1>3. LockInv
    BY LockAssumption
    DEF Init, LockInv, PlaceInv, SectionInv, InSection, ChecksHoldUntilWrites, SawInv,
        EndInv, Pending, EndsOnce, Unlocked, At
  <1>4. ~\E r \in Records : Accounted(r) \/ r \in kept \union tmp
    BY <1>1, FilesAreThere DEF Init, HeldInit, Accounted
  <1>5. FileInv
    BY <1>1, <1>4, LockAssumption, HeldFileAssumption
    DEF Init, HeldInit, FileInv, NumberInv, HandleInv, ClaimInv
  <1>6. KeptInv
    BY <1>1, LockAssumption
    DEF Init, HeldInit, KeptInv, NewestAreKept, TrimInv, LeftInv
  <1> QED
    BY <1>2, <1>3, <1>5, <1>6 DEF Safe

\* Every step keeps every part.
LEMMA NextSafe == Safe /\ [Next]_vars => Safe'
  <1> SUFFICES ASSUME TypeOK, LockInv, FileInv, KeptInv, [Next]_vars PROVE Safe'
    BY DEF Safe
  <1>1. TypeOK'
    BY LockTypeNext, HeldTypeNext DEF TypeOK
  <1>2. LockInv'
    BY PlaceInvNext, SectionInvNext, ChecksNext, SawInvNext, EndInvNext, EndsOnceNext
    DEF LockInv
  <1>3. FileInv'
    BY NumberInvNext, HandleInvNext, ClaimInvNext DEF FileInv
  <1>4. KeptInv'
    BY NewestAreKeptNext, TrimInvNext, LeftInvNext DEF KeptInv
  <1> QED
    BY <1>1, <1>2, <1>3, <1>4 DEF Safe

\* Safe holds in every reachable state.
THEOREM LockSafe == Spec => []Safe
  BY InitSafe, NextSafe, PTL DEF Spec

\* Every variable keeps its type.
THEOREM LockTypeCorrect == Spec => []TypeOK
  <1>1. Safe => TypeOK
    BY DEF Safe
  <1> QED
    BY LockSafe, <1>1, PTL

\* What lock(), unlock() and expire_if_due() found under the flock still holds
\* when they write lock.json, although lock(), the tick and other commands run
\* beside them.
THEOREM Sections == Spec => []ChecksHoldUntilWrites
  <1>1. Safe => ChecksHoldUntilWrites
    BY DEF Safe, LockInv
  <1> QED
    BY LockSafe, <1>1, PTL

\* No lock is ended twice, and no unlock hook runs twice for one lock, whoever
\* ends it and whoever is killed.
THEOREM EndedOnce == Spec => []EndsOnce
  <1>1. Safe => EndsOnce
    BY DEF Safe, LockInv
  <1> QED
    BY LockSafe, <1>1, PTL

\* A lock in force is removed by an unlock command that read it, and by nothing
\* else: not by expire_if_due, and not by another lock.
THEOREM CutShort == Spec => OnlyUnlockCutsShort
  <1>1. ASSUME Safe, [Next]_vars, InForce, lockfile'.lock # lockfile.lock
        PROVE  \E c \in Commands : UnlockWrite(c) /\ saw[c] = lockfile.lock
    <2> USE <1>1
    <2>1. TypeOK /\ ChecksHoldUntilWrites
      BY DEF Safe, LockInv
    <2>2. ~LockQuiet
      BY DEF LockQuiet
    <2>3. \A c \in Commands : ~LockWrite(c)
      BY <2>1 DEF LockWrite, ChecksHoldUntilWrites
    <2>4. ~ExpireWrite
      BY <2>1 DEF ExpireWrite, ChecksHoldUntilWrites, Overdue, InForce
    <2>5. ~TimeUp
      BY <2>1 DEF TimeUp, TypeOK, LockTypeOK
    <2>6. \A c \in Commands : UnlockWrite(c) => saw[c] = lockfile.lock
      BY <2>1 DEF UnlockWrite, ChecksHoldUntilWrites, At
    <2>7. \E c \in Commands : UnlockWrite(c)
      BY <2>1, <2>2, <2>3, <2>4, <2>5, LockSteps
      DEF LockAsk, LockAway, LockCheck, LockHook, UnlockCheck, UnlockHook, Kill, Killed,
          TakeClaim, TakeRead, TakeUnlink, Steps, Expire, Space, BoundaryHook,
          ListenerDies
    <2> QED
      BY <2>6, <2>7
  <1> QED
    BY LockSafe, <1>1, PTL DEF Spec, OnlyUnlockCutsShort

\* A record whose append_held returned True is in a file or was given to a
\* boundary while fewer than FileCap newer ones arrived.
THEOREM Kept == Spec => []NewestAreKept
  <1>1. Safe => NewestAreKept
    BY DEF Safe, KeptInv
  <1> QED
    BY LockSafe, <1>1, PTL

\* However claims, appends, trims and kills interleave, a record that two
\* boundaries were given is one that a trim put back over a claim.
THEOREM Once == Spec => []OnlyTrimsRepeat
  <1>1. Init => OnceInv
    <2> SUFFICES ASSUME Init PROVE OnceInv
      OBVIOUS
    <2>1. pc[Listener] = "idle" /\ \A p \in Processes : pc[p] # "read"
      BY LockAssumption DEF Init
    <2> QED
      BY <2>1 DEF Init, HeldInit, OnceInv, OnlyTrimsRepeat
  <1>2. Safe /\ OnceInv /\ [Next]_vars => OnceInv'
    BY OnceInvNext DEF Safe
  <1>3. OnceInv => OnlyTrimsRepeat
    BY DEF OnceInv
  <1> QED
    BY LockSafe, <1>1, <1>2, <1>3, PTL DEF Spec
-----------------------------------------------------------------------------
(***************************************************************************)
(* The refinement of OneLock.                                              *)
(***************************************************************************)

\* What OneLock sees of a lock depends on these only.
LEMMA PhaseSame ==
  ASSUME NEW l \in Commands, UNCHANGED <<again, hooked, ended, lockfile>>,
         Written(l)' <=> Written(l)
  PROVE  Phase(l)' = Phase(l)
  BY DEF Phase, Overdue

\* A lock that was not ended is seen by lock.json and by its command.
LEMMA PhaseOpen ==
  ASSUME LockInv, NEW l \in Commands, l \notin ended
  PROVE  Phase(l) = IF l = lockfile.lock
                    THEN IF Overdue THEN "overdue" ELSE "standing"
                    ELSE IF Written(l) THEN "over" ELSE "wanted"
  BY DEF LockInv, EndInv, EndsOnce, Phase

\* A lock that was ended is seen by whether its hook ran.
LEMMA PhaseEnded ==
  ASSUME LockInv, NEW l \in ended
  PROVE  Phase(l) = IF l \in hooked THEN "told" ELSE "ended"
  BY DEF LockInv, EndsOnce, Phase

\* A step that OneLock does not see.
LEMMA Unseen ==
  ASSUME \A l \in Commands : Phase(l)' = Phase(l)
  PROVE  UNCHANGED Phases
  BY DEF Phases

\* A step of one lock.
LEMMA OneChanges ==
  ASSUME NEW l \in Commands, NEW x, Phase(l)' = x,
         \A m \in Commands : m # l => Phase(m)' = Phase(m)
  PROVE  TheLock!Becomes(l, x)
  <1>1. \A m \in Commands : Phase(m)' = IF m = l THEN x ELSE Phase(m)
    OBVIOUS
  <1> QED
    BY <1>1 DEF Phases, TheLock!Becomes

\* A command that has not written leaves, by a refusal or a kill.
LEMMA GivenUp ==
  ASSUME TypeOK, LockInv, NEW c \in Commands, ~Written(c), c # lockfile.lock,
         UNCHANGED <<lockfile, op, ended, hooked, again>>, Goto(c, "done") \/ Goto(c, "dead")
  PROVE  TheLock!GiveUp(c) \/ UNCHANGED Phases
  <1>1. c \notin ended
    BY DEF LockInv, EndInv
  <1>2. ASSUME NEW m \in Commands, m # c PROVE Phase(m)' = Phase(m)
    <2>1. pc'[m] = pc[m]
      BY <1>2, LockAssumption DEF Goto, TypeOK, LockTypeOK
    <2>2. Written(m)' <=> Written(m)
      BY <2>1 DEF Written
    <2> QED
      BY <2>2, PhaseSame
  <1>3. CASE op[c] = "lock"
    <2>1. Phase(c) = "wanted"
      BY <1>1, PhaseOpen
    <2>2. Written(c)'
      BY <1>3, LockAssumption DEF Goto, Written, TypeOK, LockTypeOK
    <2>3. Phase(c)' = "over"
      BY <1>1, <2>2 DEF Phase, LockInv, EndInv, EndsOnce
    <2> QED
      BY <1>2, <2>1, <2>3, OneChanges DEF TheLock!GiveUp, Phases
  <1>4. CASE op[c] # "lock"
    <2>1. Phase(c)' = Phase(c)
      BY <1>4, PhaseSame DEF Written
    <2> QED
      BY <1>2, <2>1, Unseen
  <1> QED
    BY <1>3, <1>4

\* The write that ends the lock in lock.json.
LEMMA Ended ==
  ASSUME TypeOK, LockInv, NEW l \in Commands, l = lockfile.lock, End(l),
         UNCHANGED <<op, hooked>>, \A m \in Commands : Written(m)' <=> Written(m)
  PROVE  TheLock!End(l)
  <1>1. l \notin ended /\ l \notin hooked /\ again' = {} /\ lockfile'.lock = NoLock
    BY DEF LockInv, EndInv, EndsOnce, End, Unlocked
  <1>2. Phase(l) \in {"standing", "overdue"}
    BY <1>1, PhaseOpen
  <1>3. Phase(l)' = "ended"
    BY <1>1 DEF Phase, End
  <1>4. ASSUME NEW m \in Commands, m # l PROVE Phase(m)' = Phase(m)
    <2>1. m # lockfile'.lock
      BY <1>1, LockAssumption
    <2> QED
      BY <1>1, <1>4, <2>1 DEF Phase, End, LockInv, EndsOnce
  <1> QED
    BY <1>2, <1>3, <1>4, OneChanges DEF TheLock!End, Phases

\* The unlock hook of a lock that was ended.
LEMMA Told ==
  ASSUME TypeOK, LockInv, NEW p \in Processes, NEW l \in ended \ hooked, Hook(p, l),
         UNCHANGED <<lockfile, op, ended>>, \A m \in Commands : Written(m)' <=> Written(m)
  PROVE  l \in Commands /\ TheLock!Tell(l)
  <1>1. l \in Commands /\ again' = {} /\ again = {} /\ hooked' = hooked \union {l}
    BY DEF TypeOK, LockTypeOK, LockInv, EndsOnce, Hook
  <1>2. Phase(l) = "ended"
    BY PhaseEnded
  <1>3. Phase(l)' = "told"
    BY <1>1 DEF Phase
  <1>4. ASSUME NEW m \in Commands, m # l PROVE Phase(m)' = Phase(m)
    BY <1>1, <1>4 DEF Phase, Overdue
  <1> QED
    BY <1>1, <1>2, <1>3, <1>4, OneChanges DEF TheLock!Tell, Phases

\* Every lock is wanted at first.
LEMMA OneLockInit == Init => TheLock!Init
  BY LockAssumption DEF Init, Unlocked, Written, Phase, Phases, TheLock!Init

\* Every step is a step of OneLock or one it does not see.
LEMMA OneLockNext == TypeOK /\ LockInv /\ [Next]_vars => [TheLock!Next]_Phases
  <1> SUFFICES ASSUME TypeOK, LockInv, [Next]_vars
               PROVE  (\E l \in Commands : \/ TheLock!Give(l) \/ TheLock!GiveUp(l)
                                           \/ TheLock!TimeUp(l) \/ TheLock!End(l)
                                           \/ TheLock!Tell(l))
                      \/ UNCHANGED Phases
    BY DEF TheLock!Next
  <1>u. ASSUME UNCHANGED <<again, hooked, ended, lockfile>>,
               \A m \in Commands : Written(m)' <=> Written(m)
        PROVE  UNCHANGED Phases
    BY <1>u, PhaseSame, Unseen
  <1>1. ASSUME NEW c \in Commands, LockAsk(c) \/ LockCheck(c)
        PROVE  TheLock!GiveUp(c) \/ UNCHANGED Phases
    <2>1. ~Written(c)
      BY <1>1 DEF LockAsk, LockCheck, At, Written
    <2>2. c # lockfile.lock
      BY <2>1, LockAssumption DEF LockInv, EndInv
    <2>a. UNCHANGED <<lockfile, op, ended, hooked, again>>
      BY <1>1 DEF LockAsk, LockCheck, Steps, history
    <2>3. CASE Goto(c, "done")
      BY <2>a, <2>1, <2>2, <2>3, GivenUp
    <2>4. CASE Goto(c, "away") \/ Goto(c, "write")
      <3>1. \A m \in Commands : Written(m)' <=> Written(m)
        BY <2>1, <2>4, <2>a, LockAssumption DEF Goto, Written, TypeOK, LockTypeOK
      <3> QED
        BY <2>a, <3>1, <1>u
    <2> QED
      BY <1>1, <2>3, <2>4 DEF LockAsk, LockCheck, Steps
  <1>2. ASSUME NEW c \in Commands, LockWrite(c) PROVE TheLock!Give(c)
    <2>a. pc' = [pc EXCEPT ![c] = "hook"] /\ op' = op /\ op[c] = "lock" /\ pc[c] = "write"
      BY <1>2 DEF LockWrite, At, Goto
    <2>1. /\ ~Written(c) /\ ~InForce /\ Written(c)'
          /\ \A m \in Commands : m # c => (Written(m)' <=> Written(m))
      <3>1. ~InForce
        BY <2>a DEF At, LockInv, ChecksHoldUntilWrites
      <3>2. pc'[c] = "hook" /\ \A m \in Commands : m # c => pc'[m] = pc[m]
        BY <2>a, LockAssumption DEF TypeOK, LockTypeOK
      <3> QED
        BY <2>a, <3>1, <3>2 DEF Written
    <2>2. c # lockfile.lock /\ c \notin ended /\ c \notin hooked /\ again = {}
      BY <2>1, LockAssumption DEF LockInv, EndInv, EndsOnce
    <2>3. /\ lockfile'.lock = c /\ ~Overdue'
          /\ UNCHANGED <<ended, hooked, again>>
      BY <1>2 DEF LockWrite, Overdue, history
    <2>4. Phase(c) = "wanted" /\ Phase(c)' = "standing"
      <3>1. Phase(c) = "wanted"
        BY <2>1, <2>2, PhaseOpen
      <3>2. Phase(c)' = "standing"
        BY <2>2, <2>3, LockAssumption DEF Phase, Overdue
      <3> QED
        BY <3>1, <3>2
    <2>5. \A m \in Commands : Phase(m) # "standing"
      BY <2>1, <2>2, LockAssumption DEF Phase, InForce, Overdue
    <2>6. ASSUME NEW m \in Commands, m # c
          PROVE  Phase(m)' = IF Phase(m) = "overdue" THEN "over" ELSE Phase(m)
      <3>1. m # lockfile'.lock
        BY <2>3, <2>6
      <3>2. CASE m = lockfile.lock
        <4>1. Written(m) /\ m \notin ended /\ m \notin hooked /\ Overdue
          BY <2>1, <3>2, LockAssumption DEF LockInv, EndInv, InForce, Overdue
        <4> QED
          BY <2>1, <2>2, <2>3, <2>6, <3>1, <3>2, <4>1 DEF Phase
      <3>3. CASE m # lockfile.lock
        BY <2>1, <2>2, <2>3, <2>6, <3>1, <3>3 DEF Phase
      <3> QED
        BY <3>2, <3>3
    <2>7. Phases' = [m \in Commands |-> IF m = c THEN "standing"
                        ELSE IF Phases[m] = "overdue" THEN "over" ELSE Phases[m]]
      BY <2>4, <2>6 DEF Phases
    <2> QED
      BY <2>4, <2>5, <2>7 DEF TheLock!Give, Phases
  <1>3. ASSUME TimeUp PROVE \E l \in Commands : TheLock!TimeUp(l)
    <2> DEFINE l == lockfile.lock
    <2>1. /\ l \in Commands /\ l \notin ended /\ ~Overdue /\ Overdue'
          /\ lockfile'.lock = l /\ UNCHANGED <<ended, hooked, again>>
          /\ \A m \in Commands : Written(m)' <=> Written(m)
      BY <1>3 DEF TimeUp, TypeOK, LockTypeOK, LockInv, EndInv, Overdue, history, Written
    <2>2. Phase(l) = "standing"
      BY <2>1, PhaseOpen
    <2>3. Phase(l)' = "overdue"
      BY <2>1 DEF Phase, LockInv, EndInv, EndsOnce
    <2>4. \A m \in Commands : m # l => Phase(m)' = Phase(m)
      BY <2>1 DEF Phase
    <2>5. TheLock!TimeUp(l)
      BY <2>1, <2>2, <2>3, <2>4, OneChanges DEF TheLock!TimeUp, Phases
    <2> QED
      BY <2>1, <2>5
  <1>4. ASSUME NEW c \in Commands, UnlockWrite(c) PROVE \E l \in Commands : TheLock!End(l)
    <2>1. saw[c] = lockfile.lock /\ saw[c] \in Commands
      BY <1>4, LockAssumption
      DEF UnlockWrite, At, LockInv, ChecksHoldUntilWrites, SawInv, InSection, TypeOK, LockTypeOK
    <2>2. op[c] = "unlock"
      BY <1>4 DEF UnlockWrite, At, LockInv, PlaceInv
    <2>3. \A m \in Commands : Written(m)' <=> Written(m)
      BY <1>4, <2>2 DEF UnlockWrite, Goto, Written, TypeOK, LockTypeOK
    <2> QED
      BY <1>4, <2>1, <2>3, Ended DEF UnlockWrite
  <1>5. ASSUME ExpireWrite PROVE \E l \in Commands : TheLock!End(l)
    <2>1. saw[Listener] = lockfile.lock /\ saw[Listener] \in Commands
      BY <1>5, LockAssumption
      DEF ExpireWrite, At, LockInv, ChecksHoldUntilWrites, SawInv, InSection, TypeOK, LockTypeOK
    <2>2. \A m \in Commands : Written(m)' <=> Written(m)
      BY <1>5, LockAssumption DEF ExpireWrite, Goto, Written, TypeOK, LockTypeOK
    <2> QED
      BY <1>5, <2>1, <2>2, Ended DEF ExpireWrite
  <1>6. ASSUME NEW c \in Commands, UnlockHook(c) PROVE \E l \in Commands : TheLock!Tell(l)
    <2>1. saw[c] \in ended \ hooked
      BY <1>6, LockAssumption DEF UnlockHook, At, LockInv, EndInv, Pending
    <2>2. \A m \in Commands : Written(m)' <=> Written(m)
      BY <1>6 DEF UnlockHook, Goto, Written, TypeOK, LockTypeOK
    <2> QED
      BY <1>6, <2>1, <2>2, Told, LockAssumption DEF UnlockHook
  <1>7. ASSUME BoundaryHook
        PROVE  (\E l \in Commands : TheLock!Tell(l)) \/ UNCHANGED Phases
    <2>1. \A m \in Commands : Written(m)' <=> Written(m)
      BY <1>7, LockAssumption DEF BoundaryHook, Goto, Written, TypeOK, LockTypeOK
    <2>2. CASE boundary = "expiry"
      <3>1. saw[Listener] \in ended \ hooked
        BY <1>7, <2>2, LockAssumption DEF BoundaryHook, At, LockInv, EndInv, Pending
      <3> QED
        BY <1>7, <2>1, <2>2, <3>1, Told, LockAssumption DEF BoundaryHook
    <2>3. CASE boundary # "expiry"
      BY <1>7, <2>1, <2>3, <1>u DEF BoundaryHook
    <2> QED
      BY <2>2, <2>3
  <1>8. ASSUME NEW c \in Commands, Kill(c) PROVE TheLock!GiveUp(c) \/ UNCHANGED Phases
    <2>1. CASE Written(c)
      <3>1. \A m \in Commands : Written(m)' <=> Written(m)
        BY <1>8, <2>1, LockAssumption DEF Kill, Killed, Goto, Written, TypeOK, LockTypeOK
      <3> QED
        BY <1>8, <3>1, <1>u DEF Kill, Killed
    <2>2. CASE ~Written(c)
      <3>1. c # lockfile.lock
        BY <2>2, LockAssumption DEF LockInv, EndInv
      <3> QED
        BY <1>8, <2>2, <3>1, GivenUp DEF Kill, Killed
    <2> QED
      BY <2>1, <2>2
  <1>9. ASSUME NEW c \in Commands, LockAway(c) \/ LockHook(c) PROVE UNCHANGED Phases
    <2>1. \A m \in Commands : Written(m)' <=> Written(m)
      <3>1. \/ pc[c] = "away" /\ pc' = [pc EXCEPT ![c] = "check"]
            \/ pc[c] = "hook" /\ pc' = [pc EXCEPT ![c] = "done"]
        BY <1>9 DEF LockAway, LockHook, At, Steps, Goto
      <3>2. op' = op
        BY <1>9 DEF LockAway, LockHook, Steps
      <3> QED
        BY <3>1, <3>2, LockAssumption DEF Written, TypeOK, LockTypeOK
    <2> QED
      BY <1>9, <2>1, <1>u DEF LockAway, LockHook, Steps, history
  <1>10. ASSUME NEW c \in Commands, UnlockCheck(c) PROVE UNCHANGED Phases
    <2>1. \A m \in Commands : Written(m)' <=> Written(m)
      <3>1. /\ op[c] = "unlock" /\ op' = op
            /\ pc' = [pc EXCEPT ![c] = "done"] \/ pc' = [pc EXCEPT ![c] = "claim"]
        BY <1>10 DEF UnlockCheck, Goto
      <3> QED
        BY <3>1, LockAssumption DEF Written, TypeOK, LockTypeOK
    <2> QED
      BY <1>10, <2>1, <1>u DEF UnlockCheck, history
  <1>11. ASSUME NEW p \in Processes, TakeClaim(p) \/ TakeRead(p) \/ TakeUnlink(p)
         PROVE  UNCHANGED Phases
    <2>1. \A m \in Commands : Written(m)' <=> Written(m)
      BY <1>11, LockAssumption
      DEF TakeClaim, TakeRead, TakeUnlink, At, Steps, Goto, Written, LockInv, PlaceInv,
          TypeOK, LockTypeOK
    <2> QED
      BY <1>11, <2>1, <1>u DEF TakeClaim, TakeRead, TakeUnlink, Steps, history
  <1>12. ASSUME Expire \/ Space \/ ListenerDies PROVE UNCHANGED Phases
    <2>1. \A m \in Commands : Written(m)' <=> Written(m)
      BY <1>12, LockAssumption
      DEF Expire, Space, ListenerDies, Killed, Goto, Written, TypeOK, LockTypeOK
    <2> QED
      BY <1>12, <2>1, <1>u DEF Expire, Space, ListenerDies, Killed, history
  <1>13. ASSUME LockQuiet PROVE UNCHANGED Phases
    <2>1. \A m \in Commands : Written(m)' <=> Written(m)
      BY <1>13 DEF LockQuiet, Written
    <2> QED
      BY <1>13, <2>1, <1>u DEF LockQuiet
  <1> QED
    BY LockSteps, <1>1, <1>2, <1>3, <1>4, <1>5, <1>6, <1>7, <1>8, <1>9, <1>10, <1>11,
      <1>12, <1>13

\* The commands and the tick implement the lock of OneLock.
THEOREM LockRefinement == Spec => ImplementsOneLock
  <1>1. Safe => TypeOK /\ LockInv
    BY DEF Safe
  <1> QED
    BY LockSafe, OneLockInit, OneLockNext, <1>1, PTL
    DEF Spec, ImplementsOneLock, TheLock!Spec
=============================================================================
