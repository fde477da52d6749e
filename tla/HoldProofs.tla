----------------------------- MODULE HoldProofs -----------------------------
(***************************************************************************)
(* Proofs about Silence and Hold, for every set of keys and lists, every   *)
(* period and retry window and every number of faults.                     *)
(***************************************************************************)
EXTENDS Hold, TLAPS

\* Outside of its calls a push carries nothing; what it takes back it owns.
PushInv ==
  /\ push.pc # "calls" => push.owned = {} /\ push.remove = {} /\ push.add = {}
  /\ push.remove \subseteq push.owned

\* What the plugin has, or is about to put, is not the person's without doubt.
HandInv == (ownedFile \union push.owned \union push.add) \intersect hand \subseteq unsure

\* While it calls, a push knows every key that is silenced and not the person's.
CallInv == push.pc = "calls" => silenced \ (hand \union unsure) \subseteq push.owned

\* The inductive invariant of the list and its record.
KeyInv == PushInv /\ HandInv /\ CallInv /\ HandKeysStay /\ NothingForgotten

\* A push runs only in a listener, and one that will not tell the mute anything
\* has nothing to tell.
MuteInv ==
  /\ alive = "down" => push.pc = "idle"
  /\ alive = "running" /\ push.pc # "idle" /\ ~call => muteOn = holdOn

\* The short retries so far, the time since the last failure and what is left of
\* the window fit into one window.
EpisodeInv ==
  /\ window = NoOutage => shorts = 0
  /\ window # NoOutage => shorts * RetryEvery <= RetryWindow - window
  /\ (alive = "running" /\ push.pc = "idle" /\ ipc = "unavailable" /\ window > 0)
       => shorts * RetryEvery + since <= RetryWindow - window

\* The inductive invariant.
Inv == TypeOK /\ KeyInv /\ MuteInv /\ MuteFollowsHold /\ EpisodeInv
-----------------------------------------------------------------------------
(***************************************************************************)
(* The list and its record.                                                *)
(***************************************************************************)

\* Every step leaves the list and the push alone, is one of the push, of the shell
\* or of the person, or is one of the listener, which begins or drops a push.
Begins ==
  /\ push.pc = "idle"
  /\ \E on \in BOOLEAN, keys \in SUBSET Keys : Begin(on, keys)
  /\ UNCHANGED <<shellVars, ownedFile, unsure, faults>>

Ends ==
  /\ push.pc = "ended"
  /\ push' = NoPush
  /\ UNCHANGED <<shellVars, ownedFile, unsure, faults>>

(* The steps that touch one shell setting.                                 *)
LEMMA KeySteps ==
  ASSUME TypeOK, [Next]_vars
  PROVE  UNCHANGED silVars \/ PushStep \/ ShellStep \/ Begins \/ Ends \/ (Fault /\ PushKilled)
  <1>1. ASSUME NEW force \in BOOLEAN, SyncHold(force) PROVE Begins
    BY <1>1, HoldAssumption DEF SyncHold, Begins, TypeOK, HoldTypeOK
  <1>2. CASE SyncHoldEnds
    BY <1>2 DEF SyncHoldEnds, Ends
  <1>3. CASE Stop
    BY <1>3 DEF Stop, Begins, TypeOK, HoldTypeOK, silVars, shellVars
  <1>4. CASE StopEnds
    BY <1>4 DEF StopEnds, Ends
  <1>5. CASE Killed
    BY <1>5 DEF Killed
  <1>6. CASE Start \/ Tick \/ HoldChanges \/ TableChanges
    BY <1>6 DEF Start, Tick, HoldChanges, TableChanges
  <1>7. CASE UNCHANGED vars
    BY <1>7 DEF vars
  <1> QED
    BY <1>1, <1>2, <1>3, <1>4, <1>5, <1>6, <1>7 DEF Next

\* A fault is counted.
LEMMA FaultType ==
  ASSUME SilenceTypeOK, Fault PROVE faults' \in 0..MaxFaults
  BY SilenceAssumption DEF SilenceTypeOK, Fault

\* A push that returns is a push.
LEMMA ReturnsType ==
  ASSUME SilenceTypeOK, NEW failure \in {"none", Transport, Answered}, Returns(failure)
  PROVE  push' \in Pushes
  BY DEF SilenceTypeOK, Pushes, Returns

\* What is written, or not, are keys.
LEMMA WriteType ==
  ASSUME SilenceTypeOK, WriteOwned(push.owned)
  PROVE  ownedFile' \in SUBSET Keys /\ unsure' \in SUBSET Keys /\ faults' \in 0..MaxFaults
  BY FaultType DEF SilenceTypeOK, Pushes, WriteOwned, Doubt

\* The list, the record and the push keep their types.
LEMMA SilenceTypeNext ==
  ASSUME TypeOK, [Next]_vars
  PROVE  SilenceTypeOK'
  <1> USE DEF SilenceTypeOK
  <1>0. SilenceTypeOK
    BY DEF TypeOK
  <1>1. ASSUME UNCHANGED silVars PROVE SilenceTypeOK'
    BY <1>0, <1>1 DEF silVars, Pushes
  <1>2. ASSUME PushRead PROVE SilenceTypeOK'
    BY <1>0, <1>2 DEF PushRead, ToRemove, ToAdd, shellVars, Pushes
  <1>3. ASSUME NEW k \in Keys, Unsilence(k) PROVE SilenceTypeOK'
    BY <1>0, <1>3 DEF Unsilence, Pushes
  <1>4. ASSUME NEW k \in Keys, SilenceKey(k) PROVE SilenceTypeOK'
    BY <1>0, <1>4 DEF SilenceKey, Pushes
  <1>5. ASSUME NEW k \in Keys, LostAnswer(k) PROVE SilenceTypeOK'
    <2>1. push' \in Pushes
      BY <1>0, <1>5, ReturnsType DEF LostAnswer
    <2>2. faults' \in 0..MaxFaults
      BY <1>0, <1>5, FaultType DEF LostAnswer
    <2>3. silenced' \in SUBSET Keys /\ unsure' \in SUBSET Keys /\ ownedFile' \in SUBSET Keys
      BY <1>0, <1>5 DEF LostAnswer, Pushes
    <2>4. shell' \in BOOLEAN /\ hand' \in SUBSET Keys
      BY <1>0, <1>5 DEF LostAnswer
    <2> QED
      BY <2>1, <2>2, <2>3, <2>4
  <1>6. ASSUME PushDone PROVE SilenceTypeOK'
    <2>1. push' \in Pushes
      BY <1>0, <1>6, ReturnsType DEF PushDone
    <2>2. silenced' \in SUBSET Keys /\ shell' \in BOOLEAN /\ hand' \in SUBSET Keys
      BY <1>0, <1>6 DEF PushDone, shellVars
    <2> QED
      BY <1>0, <1>6, <2>1, <2>2, WriteType DEF PushDone
  <1>7. ASSUME FailedRead PROVE SilenceTypeOK'
    <2>1. push' \in Pushes
      BY <1>0, <1>7, ReturnsType DEF FailedRead
    <2>2. faults' \in 0..MaxFaults
      BY <1>0, <1>7, FaultType DEF FailedRead
    <2>3. UNCHANGED <<silenced, shell, hand, ownedFile, unsure>>
      BY <1>7 DEF FailedRead, shellVars
    <2> QED
      BY <1>0, <2>1, <2>2, <2>3
  <1>8. ASSUME FailedCall PROVE SilenceTypeOK'
    <2>1. push' \in Pushes
      BY <1>0, <1>8, ReturnsType DEF FailedCall
    <2>2. ownedFile' \in SUBSET Keys /\ unsure' \in SUBSET Keys /\ faults' \in 0..MaxFaults
      <3>1. CASE WriteOwned(push.owned)
        BY <1>0, <3>1, WriteType
      <3>2. CASE Fault /\ ownedFile' = push.owned /\ UNCHANGED unsure
        BY <1>0, <3>2, FaultType DEF Pushes
      <3> QED
        BY <1>8, <3>1, <3>2 DEF FailedCall
    <2>3. UNCHANGED <<silenced, shell, hand>>
      BY <1>8 DEF FailedCall, shellVars
    <2> QED
      BY <1>0, <2>1, <2>2, <2>3
  <1>9. ASSUME NEW k \in Keys, PersonSilences(k) PROVE SilenceTypeOK'
    BY <1>0, <1>9 DEF PersonSilences, Recorded
  <1>10. ASSUME NEW k \in Keys, PersonUnsilences(k) PROVE SilenceTypeOK'
    BY <1>0, <1>10 DEF PersonUnsilences
  <1>11. ASSUME ShellStops \/ ShellStarts PROVE SilenceTypeOK'
    <2>1. faults' \in 0..MaxFaults
      BY <1>0, <1>11, FaultType DEF ShellStops, ShellStarts
    <2>2. shell' \in BOOLEAN
      BY <1>11, Zenon DEF ShellStops, ShellStarts
    <2>3. UNCHANGED <<silenced, hand, ownedFile, push, unsure>>
      BY <1>11 DEF ShellStops, ShellStarts
    <2> QED
      BY <1>0, <2>1, <2>2, <2>3
  <1>12. ASSUME Begins PROVE SilenceTypeOK'
    BY <1>0, <1>12 DEF Begins, Begin, NoPush, shellVars, Pushes
  <1>13. ASSUME Ends PROVE SilenceTypeOK'
    BY <1>0, <1>13 DEF Ends, NoPush, shellVars, Pushes
  <1>14. ASSUME Fault /\ PushKilled PROVE SilenceTypeOK'
    <2>1. faults' \in 0..MaxFaults
      BY <1>0, <1>14, FaultType
    <2> QED
      BY <1>0, <1>14, <2>1 DEF PushKilled, NoPush, Doubt, shellVars, Pushes
  <1> QED
    BY KeySteps, <1>1, <1>2, <1>3, <1>4, <1>5, <1>6, <1>7, <1>8, <1>9, <1>10, <1>11, <1>12, <1>13, <1>14 DEF PushStep, ShellStep

\* The hands' keys stay and the plugin's are not forgotten.
LEMMA KeyNext ==
  ASSUME TypeOK, KeyInv, [Next]_vars
  PROVE  KeyInv'
  <1> USE DEF KeyInv, PushInv, HandInv, CallInv, HandKeysStay, NothingForgotten, Recorded
  <1>0. SilenceTypeOK
    BY DEF TypeOK
  <1>1. ASSUME UNCHANGED silVars PROVE KeyInv'
    BY <1>0, <1>1 DEF silVars, SilenceTypeOK, Pushes
  <1>2. ASSUME PushRead PROVE KeyInv'
    BY <1>0, <1>2 DEF PushRead, ToRemove, ToAdd, shellVars, SilenceTypeOK, Pushes
  <1>3. ASSUME NEW k \in Keys, Unsilence(k) PROVE KeyInv'
    BY <1>0, <1>3 DEF Unsilence, SilenceTypeOK, Pushes
  <1>4. ASSUME NEW k \in Keys, SilenceKey(k) PROVE KeyInv'
    BY <1>0, <1>4 DEF SilenceKey, SilenceTypeOK, Pushes
  <1>5. ASSUME NEW k \in Keys, LostAnswer(k) PROVE KeyInv'
    BY <1>0, <1>5 DEF LostAnswer, Returns, Fault, Transport, NextCall, SilenceTypeOK, Pushes
  <1>6. ASSUME PushDone PROVE KeyInv'
    BY <1>0, <1>6 DEF PushDone, Returns, WriteOwned, Doubt, Fault, shellVars, SilenceTypeOK, Pushes
  <1>7. ASSUME FailedRead PROVE KeyInv'
    BY <1>0, <1>7 DEF FailedRead, Returns, Fault, shellVars, Transport, Answered, SilenceTypeOK, Pushes
  <1>8. ASSUME FailedCall PROVE KeyInv'
    BY <1>0, <1>8 DEF FailedCall, Returns, WriteOwned, Doubt, Fault, shellVars, Transport, Answered, SilenceTypeOK, Pushes
  <1>9. ASSUME NEW k \in Keys, PersonSilences(k) PROVE KeyInv'
    BY <1>0, <1>9 DEF PersonSilences, SilenceTypeOK, Pushes
  <1>10. ASSUME NEW k \in Keys, PersonUnsilences(k) PROVE KeyInv'
    BY <1>0, <1>10 DEF PersonUnsilences, SilenceTypeOK, Pushes
  <1>11. ASSUME ShellStops \/ ShellStarts PROVE KeyInv'
    BY <1>0, <1>11 DEF ShellStops, ShellStarts, Fault, SilenceTypeOK, Pushes
  <1>12. ASSUME Begins PROVE KeyInv'
    BY <1>0, <1>12 DEF Begins, Begin, NoPush, shellVars, SilenceTypeOK, Pushes
  <1>13. ASSUME Ends PROVE KeyInv'
    BY <1>0, <1>13 DEF Ends, NoPush, shellVars, SilenceTypeOK, Pushes
  <1>14. ASSUME Fault /\ PushKilled PROVE KeyInv'
    BY <1>0, <1>14 DEF Fault, PushKilled, NoPush, Doubt, shellVars, SilenceTypeOK, Pushes
  <1> QED
    BY KeySteps, <1>1, <1>2, <1>3, <1>4, <1>5, <1>6, <1>7, <1>8, <1>9, <1>10, <1>11, <1>12, <1>13, <1>14 DEF PushStep, ShellStep
-----------------------------------------------------------------------------
(***************************************************************************)
(* The listener's side.                                                    *)
(***************************************************************************)
\* A step of the push is one of a push in progress.
LEMMA PushStepBusy ==
  ASSUME TypeOK, PushStep PROVE push.pc # "idle" /\ push'.pc # "idle"
  <1>0. push \in Pushes
    BY DEF TypeOK, SilenceTypeOK
  <1>1. CASE PushRead
    BY <1>0, <1>1 DEF PushRead, Pushes
  <1>2. ASSUME NEW k \in Keys, Unsilence(k) PROVE push.pc # "idle" /\ push'.pc # "idle"
    BY <1>0, <1>2 DEF Unsilence, Pushes
  <1>3. ASSUME NEW k \in Keys, SilenceKey(k) PROVE push.pc # "idle" /\ push'.pc # "idle"
    BY <1>0, <1>3 DEF SilenceKey, Pushes
  <1>4. ASSUME NEW k \in Keys, LostAnswer(k) PROVE push.pc # "idle" /\ push'.pc # "idle"
    BY <1>0, <1>4 DEF LostAnswer, Returns, Pushes
  <1>5. CASE PushDone
    BY <1>0, <1>5 DEF PushDone, Returns, Pushes
  <1>6. CASE FailedRead
    BY <1>0, <1>6 DEF FailedRead, Returns, Pushes
  <1>7. CASE FailedCall
    BY <1>0, <1>7 DEF FailedCall, Returns, Pushes
  <1> QED
    BY <1>1, <1>2, <1>3, <1>4, <1>5, <1>6, <1>7 DEF PushStep

\* Shell and person do not touch the push.
LEMMA ShellStepApart ==
  ASSUME ShellStep PROVE UNCHANGED push
  BY DEF ShellStep, ShellStops, ShellStarts, PersonSilences, PersonUnsilences

\* What the listener remembers keeps its types.
LEMMA HoldTypeNext ==
  ASSUME TypeOK, [Next]_vars
  PROVE  HoldTypeOK'
  <1> USE HoldAssumption DEF HoldTypeOK, Modes, NoOutage, MaxShorts, Word
  <1>0. HoldTypeOK /\ push \in Pushes
    BY DEF TypeOK, SilenceTypeOK
  <1>1. CASE UNCHANGED holdVars
    BY <1>0, <1>1 DEF holdVars
  <1>2. ASSUME NEW force \in BOOLEAN, SyncHold(force) PROVE HoldTypeOK'
    <2>1. call' \in BOOLEAN
      BY <1>2, Zenon DEF SyncHold, TellsMute
    <2>2. UNCHANGED <<alive, want, table, ipc, since, window, muteOn>>
      BY <1>2 DEF SyncHold
    <2>3. holdOn' \in Modes /\ pushed' \in SUBSET Keys
      BY <1>0, <1>2 DEF SyncHold
    <2>4. (shorts' = shorts + 1 /\ shorts < MaxShorts) \/ shorts' = shorts
      BY <1>2 DEF SyncHold
    <2>5. shorts' \in 0..MaxShorts
      BY <1>0, <2>4
    <2> QED
      BY <1>0, <2>1, <2>2, <2>3, <2>5
  <1>3. CASE SyncHoldEnds
    <2>1. ipc' \in {"off", "on", "unavailable"}
      BY <1>0, <1>3 DEF SyncHoldEnds
    <2>2. since' \in 0..Period /\ window' \in NoOutage..RetryWindow /\ shorts' \in 0..MaxShorts
      <3>1. CASE push.failure = "none"
        BY <1>0, <1>3, <3>1 DEF SyncHoldEnds
      <3>2. CASE push.failure # "none"
        <4>1. since' = 0 /\ shorts' = shorts /\ window' \in {0, RetryWindow, window}
          BY <1>3, <3>2 DEF SyncHoldEnds, WindowAfter
        <4> QED
          BY <1>0, <4>1
      <3> QED
        BY <3>1, <3>2
    <2>3. muteOn' \in Modes
      BY <1>0, <1>3 DEF SyncHoldEnds
    <2>4. call' \in BOOLEAN
      BY <1>3, Zenon DEF SyncHoldEnds
    <2>5. UNCHANGED <<alive, want, table, holdOn, pushed>>
      BY <1>3 DEF SyncHoldEnds
    <2> QED
      BY <1>0, <2>1, <2>2, <2>3, <2>4, <2>5
  <1>4. CASE Start
    <2>1. call' \in BOOLEAN
      BY <1>4, Zenon DEF Start, Fresh
    <2> QED
      BY <1>0, <1>4, <2>1 DEF Start, Fresh
  <1>5. CASE Stop
    BY <1>0, <1>5 DEF Stop
  <1>6. CASE StopEnds
    BY <1>0, <1>6 DEF StopEnds
  <1>7. CASE Killed
    BY <1>0, <1>7 DEF Killed
  <1>8. CASE Tick
    BY <1>0, <1>8 DEF Tick
  <1>9. CASE HoldChanges
    <2>1. want' \in BOOLEAN
      BY <1>9, Zenon DEF HoldChanges
    <2> QED
      BY <1>0, <1>9, <2>1 DEF HoldChanges
  <1>10. CASE TableChanges
    BY <1>0, <1>10 DEF TableChanges
  <1> QED
    BY <1>1, <1>2, <1>3, <1>4, <1>5, <1>6, <1>7, <1>8, <1>9, <1>10 DEF Next, vars

\* The mute has been told, or will be before the push is over.
LEMMA MuteNext ==
  ASSUME TypeOK, MuteInv, MuteFollowsHold, [Next]_vars
  PROVE  MuteInv' /\ MuteFollowsHold'
  <1> USE DEF MuteInv, MuteFollowsHold
  <1>0. push \in Pushes
    BY DEF TypeOK, SilenceTypeOK
  <1>1. CASE PushStep /\ UNCHANGED holdVars
    BY <1>1, PushStepBusy DEF holdVars
  <1>2. CASE ShellStep /\ UNCHANGED holdVars
    BY <1>2, ShellStepApart DEF holdVars
  <1>3. ASSUME NEW force \in BOOLEAN, SyncHold(force) PROVE MuteInv' /\ MuteFollowsHold'
    <2>1. push'.pc = "read" /\ alive = "running" /\ alive' = "running" /\ push.pc = "idle"
      BY <1>3 DEF SyncHold, Begin, NoPush
    <2>2. ~call' => holdOn' = holdOn
      BY <1>3 DEF SyncHold, TellsMute, Changed
    <2>3. muteOn' = muteOn
      BY <1>3 DEF SyncHold
    <2> QED
      BY <2>1, <2>2, <2>3
  <1>4. CASE SyncHoldEnds
    BY <1>4 DEF SyncHoldEnds, NoPush
  <1>5. CASE Start
    BY <1>5 DEF Start, Fresh, silVars
  <1>6. CASE Stop
    BY <1>6 DEF Stop, Begin, NoPush
  <1>7. CASE StopEnds
    BY <1>7 DEF StopEnds, NoPush
  <1>8. CASE Killed
    BY <1>8 DEF Killed, PushKilled, NoPush
  <1>9. CASE Tick \/ HoldChanges \/ TableChanges
    BY <1>9 DEF Tick, HoldChanges, TableChanges, silVars
  <1>10. CASE UNCHANGED vars
    BY <1>10 DEF vars, silVars, holdVars
  <1> QED
    BY <1>1, <1>2, <1>3, <1>4, <1>5, <1>6, <1>7, <1>8, <1>9, <1>10 DEF Next
-----------------------------------------------------------------------------
(***************************************************************************)
(* The episode of short retries.                                           *)
(***************************************************************************)
\* One more of the same length.
LEMMA OneMore == ASSUME NEW a \in Nat, NEW b \in Nat PROVE (a + 1) * b = a * b + b /\ a * b \in Nat
  BY SMT

\* What a tick adds to the time it takes from the window.
LEMMA OneTick ==
  ASSUME NEW spent \in Nat, NEW s \in Int, NEW s2 \in Int, NEW w \in Int, NEW room \in Int,
         spent + s <= room - w, s2 <= s + 1
  PROVE  spent + s2 <= room - (w - 1)
  OBVIOUS

\* Every short retry spends RetryEvery of the one window.
LEMMA EpisodeNext ==
  ASSUME TypeOK, EpisodeInv, [Next]_vars
  PROVE  EpisodeInv'
  <1> USE HoldAssumption DEF EpisodeInv, NoOutage
  <1>0. /\ push \in Pushes /\ since \in 0..Period /\ window \in NoOutage..RetryWindow
        /\ shorts \in Nat /\ RetryEvery \in Nat
    BY DEF TypeOK, SilenceTypeOK, HoldTypeOK, MaxShorts
  <1>1. shorts * RetryEvery \in Nat /\ (shorts + 1) * RetryEvery = shorts * RetryEvery + RetryEvery
    BY <1>0, OneMore
  <1>2. CASE PushStep /\ UNCHANGED holdVars
    BY <1>2, PushStepBusy DEF holdVars
  <1>3. CASE ShellStep /\ UNCHANGED holdVars
    BY <1>3, ShellStepApart DEF holdVars
  <1>4. ASSUME NEW force \in BOOLEAN, SyncHold(force) PROVE EpisodeInv'
    <2>1. push'.pc = "read" /\ UNCHANGED <<window, since>>
      BY <1>4 DEF SyncHold, Begin, NoPush
    <2>2. CASE shorts' = shorts
      BY <2>1, <2>2
    <2>3. CASE shorts' # shorts
      <3>1. shorts' = shorts + 1 /\ Short /\ Retry /\ alive = "running" /\ push.pc = "idle"
        BY <1>4, <2>3 DEF SyncHold
      <3>2. window > 0 /\ since >= RetryEvery /\ ipc = "unavailable"
        BY <3>1 DEF Short, Retry
      <3>3. shorts * RetryEvery + since <= RetryWindow - window
        BY <3>1, <3>2
      <3>4. shorts' * RetryEvery <= RetryWindow - window
        BY <1>0, <1>1, <3>1, <3>2, <3>3
      <3>5. window # -1
        BY <1>0, <3>2
      <3> QED
        BY <2>1, <3>4, <3>5
    <2> QED
      BY <2>2, <2>3
  <1>5. CASE SyncHoldEnds
    <2>1. CASE push.failure = "none"
      BY <1>5, <2>1 DEF SyncHoldEnds, Word
    <2>2. CASE push.failure # "none"
      <3>1. since' = 0 /\ shorts' = shorts
        BY <1>5, <2>2 DEF SyncHoldEnds
      <3>2. \/ window' = 0
            \/ window = -1 /\ window' = RetryWindow
            \/ window # -1 /\ window' = window
        BY <1>5, <2>2 DEF SyncHoldEnds, WindowAfter
      <3>3. window = -1 => shorts * RetryEvery = 0
        BY <1>0
      <3>4. window' # -1 => shorts * RetryEvery <= RetryWindow - window'
        BY <1>0, <1>1, <3>2, <3>3
      <3>5. window' = -1 => shorts = 0
        BY <1>0, <3>2
      <3>6. window' > 0 => shorts * RetryEvery + 0 <= RetryWindow - window'
        BY <1>0, <1>1, <3>2, <3>4
      <3> QED
        BY <3>1, <3>4, <3>5, <3>6
    <2> QED
      BY <2>1, <2>2
  <1>6. CASE Start
    BY <1>0, <1>6 DEF Start, Fresh
  <1>7. CASE Stop \/ StopEnds \/ Killed
    BY <1>7 DEF Stop, StopEnds, Killed, Begin, NoPush
  <1>8. CASE Tick
    <2>1. UNCHANGED <<shorts, alive, push, ipc>>
      BY <1>8 DEF Tick, silVars
    <2>2. since' \in Nat /\ since' <= since + 1
      BY <1>0, <1>8 DEF Tick
    <2>3. IF window > 0 THEN window' = window - 1 ELSE window' = window
      BY <1>8 DEF Tick
    <2>4. CASE window > 0
      <3>1. window' = window - 1 /\ window' # -1 /\ window # -1
        BY <1>0, <2>3, <2>4
      <3>2. shorts * RetryEvery <= RetryWindow - window'
        BY <1>0, <1>1, <3>1
      <3>3. (alive = "running" /\ push.pc = "idle" /\ ipc = "unavailable")
              => shorts * RetryEvery + since' <= RetryWindow - window'
        <4>1. SUFFICES ASSUME alive = "running" /\ push.pc = "idle" /\ ipc = "unavailable"
                       PROVE  shorts * RetryEvery + since' <= RetryWindow - window'
          OBVIOUS
        <4>2. shorts * RetryEvery + since <= RetryWindow - window
          BY <2>4, <4>1
        <4>3. window \in Int /\ since \in Int /\ RetryWindow \in Int
          BY <1>0
        <4> QED
          BY <1>1, <2>2, <3>1, <4>2, <4>3, OneTick
      <3> QED
        BY <2>1, <3>1, <3>2, <3>3
    <2>5. CASE ~(window > 0)
      BY <2>1, <2>3, <2>5
    <2> QED
      BY <2>4, <2>5
  <1>9. CASE HoldChanges \/ TableChanges
    BY <1>9 DEF HoldChanges, TableChanges, silVars
  <1>10. CASE UNCHANGED vars
    BY <1>10 DEF vars, silVars, holdVars
  <1> QED
    BY <1>2, <1>3, <1>4, <1>5, <1>6, <1>7, <1>8, <1>9, <1>10 DEF Next
-----------------------------------------------------------------------------
\* Initially nothing is recorded and nothing runs.
LEMMA InitHolds == ASSUME Init PROVE Inv
  <1> USE HoldAssumption, SilenceAssumption
      DEF Init, SilenceInit, NoPush
  <1>1. SilenceTypeOK
    <2>1. shell \in BOOLEAN
      OBVIOUS
    <2> QED
      BY <2>1 DEF SilenceTypeOK, Pushes
  <1>2. HoldTypeOK
    <2>1. want \in BOOLEAN /\ call \in BOOLEAN
      BY Zenon
    <2>2. table \in Tables /\ holdOn \in Modes /\ alive \in {"down", "running", "stopping"}
          /\ ipc \in {"off", "on", "unavailable"} /\ muteOn \in Modes /\ pushed \in SUBSET Keys
      BY DEF Modes
    <2>3. since \in 0..Period /\ window \in NoOutage..RetryWindow /\ shorts \in 0..MaxShorts
      BY DEF NoOutage, MaxShorts
    <2> QED
      BY <2>1, <2>2, <2>3 DEF HoldTypeOK
  <1>3. KeyInv
    BY DEF KeyInv, PushInv, HandInv, CallInv, HandKeysStay, NothingForgotten, Recorded
  <1>4. MuteInv /\ MuteFollowsHold
    BY DEF MuteInv, MuteFollowsHold
  <1>5. EpisodeInv
    BY DEF EpisodeInv, NoOutage
  <1> QED
    BY <1>1, <1>2, <1>3, <1>4, <1>5 DEF Inv, TypeOK

\* Every step keeps the invariant.
LEMMA InvNext == ASSUME Inv, [Next]_vars PROVE Inv'
  BY SilenceTypeNext, HoldTypeNext, KeyNext, MuteNext, EpisodeNext DEF Inv, TypeOK

(***************************************************************************)
(* The invariant holds of every behaviour, whatever fails or is killed.    *)
(***************************************************************************)
THEOREM HoldSafe == Spec => []Inv
  BY InitHolds, InvNext, PTL DEF Spec

(***************************************************************************)
(* Every variable of the hold keeps its type, the time since the failure   *)
(* and the retry window stay in their ranges.                              *)
(***************************************************************************)
THEOREM HoldTypeCorrect == Spec => []TypeOK
  <1>1. Inv => TypeOK
    BY DEF Inv
  <1> QED
    BY <1>1, HoldSafe, PTL

(***************************************************************************)
(* hold.push never takes back a key the person silenced.                   *)
(***************************************************************************)
THEOREM HandsKept == Spec => []HandKeysStay
  <1>1. Inv => HandKeysStay
    BY DEF Inv, KeyInv
  <1> QED
    BY <1>1, HoldSafe, PTL

(***************************************************************************)
(* Every key the plugin silenced is known to the file or to the push.      *)
(***************************************************************************)
THEOREM Remembered == Spec => []NothingForgotten
  <1>1. Inv => NothingForgotten
    BY DEF Inv, KeyInv
  <1> QED
    BY <1>1, HoldSafe, PTL

(***************************************************************************)
(* sync_hold and the mute agree between two calls.                         *)
(***************************************************************************)
THEOREM MuteTold == Spec => []MuteFollowsHold
  <1>1. Inv => MuteFollowsHold
    BY DEF Inv
  <1> QED
    BY <1>1, HoldSafe, PTL

(***************************************************************************)
(* One outage spends at most one retry window, for every RETRY_EVERY and   *)
(* RETRY_WINDOW.                                                           *)
(***************************************************************************)
THEOREM Episodes == Spec => []EpisodeIsBounded
  <1>1. ASSUME Inv PROVE EpisodeIsBounded
    <2>1. shorts \in Nat /\ RetryEvery \in Nat /\ RetryWindow \in Nat /\ window \in -1..RetryWindow
      BY <1>1, HoldAssumption DEF Inv, TypeOK, HoldTypeOK, MaxShorts, NoOutage
    <2>2. shorts * RetryEvery \in Nat
      BY <2>1, OneMore
    <2>3. CASE window = -1
      BY <1>1, <2>1, <2>3 DEF Inv, EpisodeInv, NoOutage, EpisodeIsBounded
    <2>4. CASE window # -1
      <3>1. shorts * RetryEvery <= RetryWindow - window
        BY <1>1, <2>4 DEF Inv, EpisodeInv, NoOutage
      <3> QED
        BY <2>1, <2>2, <2>4, <3>1 DEF EpisodeIsBounded
    <2> QED
      BY <2>3, <2>4
  <1> QED
    BY <1>1, HoldSafe, PTL

(***************************************************************************)
(* A window an answered failure spent stays spent until a push gets        *)
(* through.                                                                *)
(***************************************************************************)
THEOREM Spent == Spec => SpentStaysSpent
  <1>1. ASSUME [Next]_vars, alive = "running", alive' = "running", window = 0,
               ipc' = "unavailable"
        PROVE  window' = 0
    <2>1. ASSUME NEW force \in BOOLEAN, SyncHold(force) PROVE window' = 0
      BY <1>1, <2>1 DEF SyncHold
    <2>2. CASE SyncHoldEnds
      BY <1>1, <2>2 DEF SyncHoldEnds, WindowAfter, NoOutage, Word
    <2>3. CASE Tick
      BY <1>1, <2>3 DEF Tick
    <2>4. CASE Start \/ Stop \/ StopEnds \/ Killed
      BY <1>1, <2>4 DEF Start, Stop, StopEnds, Killed
    <2>5. CASE HoldChanges \/ TableChanges \/ UNCHANGED holdVars
      BY <1>1, <2>5 DEF HoldChanges, TableChanges, holdVars
    <2> QED
      BY <1>1, <2>1, <2>2, <2>3, <2>4, <2>5 DEF Next, vars
  <1> QED
    BY <1>1, PTL DEF Spec, SpentStaysSpent
=============================================================================
