------------------------------- MODULE Lock --------------------------------
(***************************************************************************)
(* The lock on the space: lock.json, the commands lock, unlock and enter,  *)
(* the listener's tick that ends a lock whose time is up, and what each    *)
(* boundary does with the held notifications.                              *)
(*                                                                         *)
(* lock, unlock and expire_if_due decide and write under one flock         *)
(* (_with_lockfile).  Everything else reads lock.json without it: the      *)
(* commands' first look, enter, and the tick's raw copy.  The hooks run    *)
(* after the flock was given back.  A lock is named by the command that    *)
(* wrote it, which stands for its purpose.                                 *)
(***************************************************************************)
EXTENDS HeldFile

CONSTANTS
  Commands,  \* the commands of one behaviour, each run once
  Listener,  \* the listener's process
  NoLock,    \* lock.json says unlocked, or nobody holds the flock
  MaxKills   \* bound on processes killed

ASSUME LockAssumption ==
  /\ Processes = Commands \union {Listener}
  /\ Listener \notin Commands
  /\ NoLock \notin Processes
  /\ MaxKills \in Nat

Ops == {"lock", "unlock", "enter"}

\* A deadline: none ("forever"), still to come, or passed.
Deadlines == {"never", "later", "past"}

CommandPcs == {"ask", "away", "check", "write", "claim", "read", "unlink", "end", "hook",
               "go", "done", "dead"}

ListenerPcs == {"off", "idle", "append", "trim", "replace", "expire", "end",
                "claim", "read", "unlink", "hook", "space"}

VARIABLES
  lockfile,  \* lock.json: the lock it names and its deadline
  flock,     \* who holds distraction-space.lockfile.lock
  op,        \* what each command does
  pc,        \* where each process is
  saw,       \* the lock a process decided to end, or is about to write over
  space,     \* the person is on the space
  prev,      \* _Ctx.prev: where the listener saw the person last
  boundary,  \* what the listener is claiming for: "expiry" or "enter"
  ended,     \* history: locks that were ended
  hooked,    \* history: locks whose unlock hook ran
  again,     \* history: locks ended, or hooked, a second time
  kills

loop == <<prev, boundary>>
history == <<ended, hooked, again, kills>>
lockVars == <<lockfile, flock, op, pc, saw, space, loop, history>>
vars == <<heldVars, lockVars>>

LockTypeOK ==
  /\ lockfile \in [lock : Commands \union {NoLock}, until : Deadlines]
  /\ flock \in Processes \union {NoLock}
  /\ op \in [Commands -> Ops]
  /\ pc \in [Processes -> CommandPcs \union ListenerPcs]
  /\ \A c \in Commands : pc[c] \in CommandPcs
  /\ pc[Listener] \in ListenerPcs
  /\ saw \in [Processes -> Commands \union {NoLock}]
  /\ space \in BOOLEAN
  /\ prev \in {"unknown", "on", "off"}
  /\ boundary \in {"expiry", "enter"}
  /\ ended \in SUBSET Commands
  /\ hooked \in SUBSET Commands
  /\ again \in SUBSET Commands
  /\ kills \in 0..MaxKills

TypeOK == HeldTypeOK /\ LockTypeOK

Unlocked == [lock |-> NoLock, until |-> "never"]

\* is_locked: an `until` that passed reads as unlocked.
InForce == lockfile.lock # NoLock /\ lockfile.until # "past"

\* lock.json names a lock whose time is up and nobody ended it yet.
Overdue == lockfile.lock # NoLock /\ lockfile.until = "past"

Init ==
  /\ HeldInit
  /\ lockfile = Unlocked
  /\ flock = NoLock
  /\ op \in [Commands -> Ops]
  /\ pc = [p \in Processes |-> IF p = Listener THEN "idle" ELSE "ask"]
  /\ saw = [p \in Processes |-> NoLock]
  /\ space \in BOOLEAN
  /\ prev = "unknown"
  /\ boundary = "expiry"
  /\ ended = {} /\ hooked = {} /\ again = {}
  /\ kills = 0

At(p, where) == pc[p] = where
Goto(p, where) == pc' = [pc EXCEPT ![p] = where]

\* Nothing but a process's place changes.
Steps(p, where) ==
  /\ Goto(p, where)
  /\ UNCHANGED <<lockfile, flock, op, saw, space, loop, history>>

-----------------------------------------------------------------------------
(***************************************************************************)
(* The critical section, for process p.                                    *)
(***************************************************************************)

Acquire(p) == flock = NoLock /\ flock' = p
Release(p) == flock' = NoLock

\* Mutant: the file is written without the flock.
AcquireNothing(p) == flock' = flock

-----------------------------------------------------------------------------
(***************************************************************************)
(* The lock command.                                                       *)
(***************************************************************************)

\* cmd_lock looks before it asks; an unlocked space goes on to lock().
LockAsk(c) ==
  /\ op[c] = "lock" /\ At(c, "ask")
  /\ Steps(c, IF InForce THEN "done" ELSE "away")
  /\ UNCHANGED heldVars

\* Leaves the space first; it stays when no other workspace is occupied.
LockAway(c) ==
  /\ op[c] = "lock" /\ At(c, "away")
  /\ space' \in {space, FALSE}
  /\ Goto(c, "check")
  /\ UNCHANGED <<lockfile, flock, op, saw, loop, history, heldVars>>

\* Under the flock: somebody else's lock stands, and no hook runs.
LockCheck(c) ==
  /\ op[c] = "lock" /\ At(c, "check")
  /\ flock = NoLock
  /\ IF InForce THEN Goto(c, "done") /\ UNCHANGED flock
                ELSE Acquire(c) /\ Goto(c, "write")
  /\ UNCHANGED <<lockfile, op, saw, space, loop, history, heldVars>>

LockWrite(c) ==
  /\ op[c] = "lock" /\ At(c, "write")
  /\ \E until \in {"never", "later"} : lockfile' = [lock |-> c, until |-> until]
  /\ Release(c) /\ Goto(c, "hook")
  /\ UNCHANGED <<op, saw, space, loop, history, heldVars>>

LockHook(c) ==
  /\ op[c] = "lock" /\ At(c, "hook")
  /\ Steps(c, "done")
  /\ UNCHANGED heldVars

\* The deadline passes.
TimeUp ==
  /\ lockfile.lock # NoLock /\ lockfile.until = "later"
  /\ lockfile' = [lockfile EXCEPT !.until = "past"]
  /\ UNCHANGED <<flock, op, pc, saw, space, loop, history, heldVars>>

-----------------------------------------------------------------------------
(***************************************************************************)
(* The unlock command.                                                     *)
(***************************************************************************)

UnlockAsk(c) ==
  /\ op[c] = "unlock" /\ At(c, "ask")
  /\ Steps(c, IF InForce THEN "check" ELSE "done")
  /\ UNCHANGED heldVars

\* Mutant: the command decides and reads the purpose without the flock.
UnlockCheckUnlocked(c) ==
  /\ op[c] = "unlock" /\ At(c, "check")
  /\ InForce /\ AcquireNothing(c) /\ Goto(c, "claim")
  /\ saw' = [saw EXCEPT ![c] = lockfile.lock]
  /\ UNCHANGED <<lockfile, op, space, loop, history, heldVars>>

\* Under the flock: no lock any more, a reason too short or a log that cannot be
\* written leave the lock as it is; otherwise the purpose is read.
UnlockCheck(c) ==
  /\ op[c] = "unlock" /\ At(c, "check")
  /\ flock = NoLock
  /\ \/ Goto(c, "done") /\ UNCHANGED <<flock, saw>>
     \/ /\ InForce
        /\ Acquire(c) /\ Goto(c, "claim")
        /\ saw' = [saw EXCEPT ![c] = lockfile.lock]
  /\ UNCHANGED <<lockfile, op, space, loop, history, heldVars>>

\* Ending lock l; a second end of the same lock is remembered.
End(l) ==
  /\ lockfile' = Unlocked
  /\ ended' = ended \union {l}
  /\ again' = again \union (ended \intersect {l})

UnlockWrite(c) ==
  /\ op[c] = "unlock" /\ At(c, "end")
  /\ End(saw[c])
  /\ Release(c) /\ Goto(c, "hook")
  /\ UNCHANGED <<op, saw, space, prev, boundary, hooked, kills, heldVars>>

\* The unlock hook for lock l, by p.
Hook(p, l) ==
  /\ hooked' = hooked \union {l}
  /\ again' = again \union (hooked \intersect {l})

UnlockHook(c) ==
  /\ op[c] = "unlock" /\ At(c, "hook")
  /\ Hook(c, saw[c])
  /\ Goto(c, "done")
  /\ UNCHANGED <<lockfile, flock, op, saw, space, prev, boundary, ended, kills, heldVars>>

-----------------------------------------------------------------------------
(***************************************************************************)
(* The enter command, and the person's own workspace switches.             *)
(***************************************************************************)

EnterAsk(c) ==
  /\ op[c] = "enter" /\ At(c, "ask")
  /\ Steps(c, IF space \/ InForce THEN "done" ELSE "go")
  /\ UNCHANGED heldVars

EnterGo(c) ==
  /\ op[c] = "enter" /\ At(c, "go")
  /\ space' \in {space, TRUE}
  /\ Goto(c, "done")
  /\ UNCHANGED <<lockfile, flock, op, saw, loop, history, heldVars>>

Switch ==
  /\ space' = ~space
  /\ UNCHANGED <<lockfile, flock, op, pc, saw, loop, history, heldVars>>

-----------------------------------------------------------------------------
(***************************************************************************)
(* summary.take, by the unlock command under the flock and by the listener *)
(* without it.                                                             *)
(***************************************************************************)

AfterTake(p) == IF p = Listener THEN "hook" ELSE "end"

\* Mutant: with nothing held, the boundary is over.
TakeClaimReturns(p) ==
  /\ At(p, "claim")
  /\ \/ Claim(p) /\ Steps(p, "read")
     \/ ClaimsNothing /\ Steps(p, IF p = Listener THEN "space" ELSE "end")

TakeClaim(p) ==
  /\ At(p, "claim")
  /\ \/ Claim(p) /\ Steps(p, "read")
     \/ ClaimsNothing /\ Steps(p, AfterTake(p))

TakeRead(p) ==
  /\ At(p, "read")
  /\ ReadClaim(p)
  /\ Steps(p, "unlink")

TakeUnlink(p) ==
  /\ At(p, "unlink")
  /\ Unlink(p)
  /\ Steps(p, AfterTake(p))

-----------------------------------------------------------------------------
(***************************************************************************)
(* The listener: one thread, so one of these at a time.                    *)
(***************************************************************************)

\* A listed sender's notification while the hold is on (off-space mode).
Append ==
  /\ At(Listener, "idle") /\ prev = "off"
  /\ Open
  /\ Steps(Listener, "append")

AppendWrite ==
  /\ At(Listener, "append")
  /\ Write
  /\ Steps(Listener, "trim")

AppendTrim ==
  /\ At(Listener, "trim")
  /\ \/ (TrimFindsNone \/ TrimFits) /\ Steps(Listener, "idle")
     \/ TrimCuts /\ Steps(Listener, "replace")

AppendReplace ==
  /\ At(Listener, "replace")
  /\ Replace
  /\ Steps(Listener, "idle")

Tick ==
  /\ At(Listener, "idle")
  /\ Steps(Listener, "expire")
  /\ UNCHANGED heldVars

\* Mutant: the deadline is not looked at again under the flock.
ExpireAny ==
  /\ At(Listener, "expire")
  /\ flock = NoLock
  /\ IF lockfile.lock # NoLock
     THEN /\ Acquire(Listener) /\ Goto(Listener, "end")
          /\ saw' = [saw EXCEPT ![Listener] = lockfile.lock]
     ELSE Goto(Listener, "space") /\ UNCHANGED <<flock, saw>>
  /\ UNCHANGED <<lockfile, op, space, loop, history, heldVars>>

\* Mutant: the tick asks read_lock, which reads an overdue lock as unlocked.
ExpireReadsLock ==
  /\ At(Listener, "expire")
  /\ flock = NoLock
  /\ Steps(Listener, "space")
  /\ UNCHANGED heldVars

\* expire_if_due, under the flock: nothing to end, or an overdue lock.
Expire ==
  /\ At(Listener, "expire")
  /\ flock = NoLock
  /\ IF Overdue
     THEN /\ Acquire(Listener) /\ Goto(Listener, "end")
          /\ saw' = [saw EXCEPT ![Listener] = lockfile.lock]
     ELSE Goto(Listener, "space") /\ UNCHANGED <<flock, saw>>
  /\ UNCHANGED <<lockfile, op, space, loop, history, heldVars>>

ExpireWrite ==
  /\ At(Listener, "end")
  /\ End(saw[Listener])
  /\ Release(Listener) /\ Goto(Listener, "claim")
  /\ boundary' = "expiry"
  /\ UNCHANGED <<op, saw, space, prev, hooked, kills, heldVars>>

Here == IF space THEN "on" ELSE "off"

\* _Ctx.space, from the tick or from a workspace event.  Hyprland may not answer.
Space ==
  /\ pc[Listener] \in {"idle", "space"}
  /\ \/ prev' = prev /\ Goto(Listener, "idle") /\ boundary' = boundary
     \/ /\ Here = "on" /\ prev = "off"
        /\ Goto(Listener, "claim") /\ boundary' = "enter" /\ prev' = prev
     \/ /\ ~(Here = "on" /\ prev = "off")
        /\ Goto(Listener, "idle") /\ boundary' = boundary /\ prev' = Here
  /\ UNCHANGED <<lockfile, flock, op, saw, space, history, heldVars>>

\* The hook of the boundary runs once its records are claimed.
BoundaryHook ==
  /\ At(Listener, "hook")
  /\ \/ /\ boundary = "expiry"
        /\ Hook(Listener, saw[Listener])
        /\ Goto(Listener, "space")
        /\ prev' = prev
     \/ /\ boundary = "enter"
        /\ Goto(Listener, "idle")
        /\ prev' = "on"
        /\ UNCHANGED <<hooked, again>>
  /\ UNCHANGED <<lockfile, flock, op, saw, space, boundary, ended, kills, heldVars>>

-----------------------------------------------------------------------------
(***************************************************************************)
(* A process is killed: the kernel gives its flock back and closes its     *)
(* files.  Another listener may start.                                     *)
(***************************************************************************)
Killed(p) ==
  /\ kills < MaxKills
  /\ kills' = kills + 1
  /\ flock' = IF flock = p THEN NoLock ELSE flock
  /\ UNCHANGED <<lockfile, op, saw, space, boundary, ended, hooked, again>>

Kill(c) ==
  /\ pc[c] \notin {"ask", "done", "dead"}
  /\ Killed(c) /\ Goto(c, "dead")
  /\ prev' = prev
  /\ UNCHANGED heldVars

ListenerDies ==
  /\ pc[Listener] # "off"
  /\ Killed(Listener) /\ Goto(Listener, "off")
  /\ prev' = "unknown"
  /\ Close(Listener)

ListenerStarts ==
  /\ At(Listener, "off")
  /\ Steps(Listener, "idle")
  /\ UNCHANGED heldVars

-----------------------------------------------------------------------------
LockCommand(c) == LockAsk(c) \/ LockAway(c) \/ LockCheck(c) \/ LockWrite(c) \/ LockHook(c)
UnlockCommand(c) == UnlockAsk(c) \/ UnlockCheck(c) \/ UnlockWrite(c) \/ UnlockHook(c)
EnterCommand(c) == EnterAsk(c) \/ EnterGo(c)

Take(p) == TakeClaim(p) \/ TakeRead(p) \/ TakeUnlink(p)

ListenerStep ==
  \/ Append \/ AppendWrite \/ AppendTrim \/ AppendReplace
  \/ Tick \/ Expire \/ ExpireWrite \/ Space \/ BoundaryHook
  \/ ListenerStarts

Next ==
  \/ \E c \in Commands : LockCommand(c) \/ UnlockCommand(c) \/ EnterCommand(c) \/ Kill(c)
  \/ \E p \in Processes : Take(p)
  \/ ListenerStep
  \/ TimeUp
  \/ Switch
  \/ ListenerDies

Spec == Init /\ [][Next]_vars

(***************************************************************************)
(* Between its first look and its end a command runs by itself, and the    *)
(* listener's loop goes round and tests the clock at the end of each turn, *)
(* however many events it served.  Nothing is assumed of the person, of    *)
(* deadlines, of notifications or of Hyprland's answers.                   *)
(***************************************************************************)
Runs(c) == LockAway(c) \/ LockCheck(c) \/ LockWrite(c) \/ UnlockCheck(c) \/ UnlockWrite(c)
             \/ UnlockHook(c) \/ Take(c)

Loops == AppendWrite \/ AppendTrim \/ AppendReplace \/ Expire \/ ExpireWrite
           \/ (At(Listener, "space") /\ Space) \/ BoundaryHook \/ Take(Listener)

FairSpec ==
  /\ Spec
  /\ \A c \in Commands : WF_vars(Runs(c))
  /\ WF_vars(Loops)
  /\ SF_vars(Tick)

-----------------------------------------------------------------------------
(***************************************************************************)
(* Properties.                                                             *)
(***************************************************************************)

\* What a process found under the flock still holds when it writes: lock() finds
\* no lock in force, unlock() and expire_if_due() the lock they read, and that
\* one overdue for the listener (_with_lockfile).
ChecksHoldUntilWrites ==
  /\ \A c \in Commands : At(c, "write") => ~InForce
  /\ \A c \in Commands : pc[c] \in {"claim", "read", "unlink", "end"} => lockfile.lock = saw[c]
  /\ At(Listener, "end") => Overdue /\ lockfile.lock = saw[Listener]

\* No lock is ended twice, by two unlock commands or by one and the tick, and no
\* lock's unlock hook runs twice (unlock, expire_if_due, _Ctx.tick).
EndsOnce == again = {}

\* A lock in force leaves lock.json only because an unlock command that read it
\* ends it: neither another lock, nor the tick, nor an unlock aimed at an
\* earlier lock removes it (tests/test_lock.py, test_expire_race_does_not_drop_new_lock).
OnlyUnlockCutsShort ==
  [][InForce /\ lockfile'.lock # lockfile.lock
       => \E c \in Commands : UnlockWrite(c) /\ saw[c] = lockfile.lock]_vars

\* A lock whose time is up does not stay in lock.json while the listener runs
\* (expire_if_due, _Ctx.tick).
OverdueEnds == \A c \in Commands : (Overdue /\ lockfile.lock = c) ~> (lockfile.lock # c)

\* Each lock that was ended gets its unlock hook (unlock, _Ctx.tick).
EndsAreHooked == \A c \in Commands : (c \in ended) ~> (c \in hooked)

-----------------------------------------------------------------------------
(***************************************************************************)
(* The inductive invariant: LockInv, FileInv, KeptInv and OnceInv.          *)
(***************************************************************************)

\* Which command is where.
PlaceInv ==
  \A c \in Commands :
    /\ pc[c] \in {"away", "write"} => op[c] = "lock"
    /\ pc[c] \in {"claim", "read", "unlink", "end"} => op[c] = "unlock"

InSection(p) ==
  IF p = Listener THEN pc[p] = "end"
                  ELSE pc[p] \in {"write", "claim", "read", "unlink", "end"}

\* Exactly the process inside the critical section holds the flock.
SectionInv == \A p \in Processes : InSection(p) <=> flock = p

\* p ended a lock and has not run its hook.
Pending(p) ==
  IF p = Listener THEN pc[p] \in {"claim", "read", "unlink", "hook"} /\ boundary = "expiry"
                  ELSE pc[p] = "hook" /\ op[p] = "unlock"

Written(l) == op[l] = "lock" /\ pc[l] \in {"hook", "done", "dead"}

\* A lock is written once, ended once, and hooked once after that.
EndInv ==
  /\ lockfile.lock # NoLock => Written(lockfile.lock)
  /\ \A l \in ended : Written(l) /\ l # lockfile.lock
  /\ hooked \subseteq ended
  /\ \A p \in Processes : Pending(p) => saw[p] \in ended \ hooked
  /\ \A p, q \in Processes : Pending(p) /\ Pending(q) /\ p # q => saw[p] # saw[q]

\* Whoever is about to end a lock read which.
SawInv == \A p \in Processes : InSection(p) /\ pc[p] # "write" => saw[p] # NoLock

LockInv ==
  /\ PlaceInv /\ SectionInv
  /\ ChecksHoldUntilWrites
  /\ SawInv
  /\ EndInv
  /\ EndsOnce

\* No record is anywhere before it arrived.
NumberInv == \A r \in Records : Accounted(r) \/ r \in kept \union tmp => r <= arrived

\* A file is open only between an append's open and its write, and the path is
\* empty once that file was claimed.
HandleInv ==
  /\ pc[Listener] \in {"append", "trim", "replace"} => arrived \in Records
  /\ pc[Listener] # "append" => handle = "none"
  /\ pc[Listener] = "append" => handle # "none" /\ (handle = "held" <=> held # NoFile)

\* A claim exists from its rename to its unlink, or stays when its process died.
ClaimInv ==
  \A p \in Processes :
    /\ pc[p] \in {"read", "unlink"} \/ handle = p => claims[p] # NoFile
    /\ pc[p] \notin {"read", "unlink", "dead"} => claims[p] = NoFile

FileInv == NumberInv /\ HandleInv /\ ClaimInv

\* A record is in one place, in held.jsonl, in a claim nobody read, or handed,
\* unless a trim put it back.
OnceInv ==
  /\ OnlyTrimsRepeat
  /\ \A r \in held : r \in handed => r \in restored
  /\ \A p \in Processes : pc[p] = "read" =>
       /\ \A r \in claims[p] : r \in handed \union held => r \in restored
       /\ \A q \in Processes : pc[q] = "read" /\ q # p =>
            \A r \in claims[p] \intersect claims[q] : r \in restored

\* The record being appended is new, and an append whose record was lost finds
\* no file to trim.
TrimInv ==
  /\ pc[Listener] = "append" => arrived \notin kept /\ ~Accounted(arrived)
  /\ pc[Listener] = "trim" => held = NoFile \/ Accounted(arrived)
  /\ pc[Listener] = "replace" => Accounted(arrived) /\ (held = NoFile \/ tmp = Newest(held))

\* A record written into a claim after it was read was not kept, and if its
\* append is still on, that append will find no file.
LeftInv ==
  \A p \in Processes : pc[p] = "unlink" => \A r \in claims[p] \ handed :
    /\ r \notin kept
    /\ r = arrived => pc[Listener] # "replace" /\ (pc[Listener] = "trim" => held = NoFile)

KeptInv == NewestAreKept /\ TrimInv /\ LeftInv
-----------------------------------------------------------------------------
(* The commands, the tick and their flock implement the lock of OneLock.  A    *)
(* lock command that never wrote lock.json gave its lock up.                   *)

Phase(l) == IF l \in again THEN "twice"
            ELSE IF l \in hooked THEN "told"
            ELSE IF l \in ended THEN "ended"
            ELSE IF l = lockfile.lock
                 THEN IF Overdue THEN "overdue" ELSE "standing"
                 ELSE IF Written(l) THEN "over" ELSE "wanted"

Phases == [l \in Commands |-> Phase(l)]

TheLock == INSTANCE OneLock WITH Locks <- Commands, phase <- Phases

\* Whatever the order of lock, unlock and tick, and whoever is killed, there is one
\* lock at a time, which another lock replaces only after its time is up, and it is
\* ended once and its unlock hook runs once (lock, unlock, expire_if_due, _Ctx.tick).
ImplementsOneLock == TheLock!Spec
=============================================================================
