-------------------------------- MODULE Hold --------------------------------
(***************************************************************************)
(* The notification hold of the listener (_Ctx.sync_hold): which pushes it *)
(* starts, when it tries a failed one again, and when the sound mute is    *)
(* told.  The push itself is Silence's, one step per shell call; the       *)
(* listener waits for it, so that only the shell, the person, time and a   *)
(* SIGKILL move meanwhile.                                                 *)
(*                                                                         *)
(* Time is what the code compares: since counts from the last failure and  *)
(* saturates at Period, window counts down the retry window.  want stands  *)
(* for hold.effective_hold over the config, the space and the lock; the    *)
(* setting mute_sounds is on.                                              *)
(***************************************************************************)
EXTENDS Silence, Integers

CONSTANTS
  Tables,       \* the sets of sender keys the lists may give
  RetryEvery,   \* hold.RETRY_EVERY
  RetryWindow,  \* hold.RETRY_WINDOW
  Period        \* PERIOD

ASSUME HoldAssumption ==
  /\ Tables \subseteq SUBSET Keys
  /\ RetryEvery \in Nat \ {0}
  /\ RetryWindow \in Nat
  /\ Period \in Nat
  /\ RetryEvery <= Period

NoOutage == -1   \* hold_outage_until = 0.0
Modes    == {"unset", "off", "on"}

VARIABLES
  alive,   \* the listener: down, running, or stopping
  want,    \* the effective hold
  table,   \* the sender keys of the lists
  holdOn,  \* hold_on: what the last push was asked
  pushed,  \* pushed: the keys it was asked for
  ipc,     \* hold_ipc
  since,   \* time since hold_failed_at
  window,  \* what is left until hold_outage_until, or NoOutage
  call,    \* the sync_hold in progress is followed by mute.sync
  muteOn,  \* what the sound mute was last told
  shorts   \* history: short retries since a push last got through

holdVars == <<alive, want, table, holdOn, pushed, ipc, since, window, call,
              muteOn, shorts>>
vars     == <<silVars, holdVars>>

MaxShorts == RetryWindow + 1   \* the history counts no further

HoldTypeOK ==
  /\ alive \in {"down", "running", "stopping"}
  /\ want \in BOOLEAN
  /\ table \in Tables
  /\ holdOn \in Modes
  /\ pushed \in SUBSET Keys
  /\ ipc \in {"off", "on", "unavailable"}
  /\ since \in 0..Period
  /\ window \in NoOutage..RetryWindow
  /\ call \in BOOLEAN
  /\ muteOn \in Modes
  /\ shorts \in 0..MaxShorts

(* Both parts have their type.                                             *)
TypeOK == SilenceTypeOK /\ HoldTypeOK

Word(b) == IF b THEN "on" ELSE "off"

(* A new _Ctx.                                                             *)
Fresh ==
  /\ holdOn' = "unset"
  /\ pushed' = {}
  /\ ipc' = "off"
  /\ since' = Period
  /\ window' = NoOutage
  /\ call' = FALSE
  /\ muteOn' = "unset"
  /\ shorts' = 0

Init ==
  /\ SilenceInit
  /\ alive = "down"
  /\ want \in BOOLEAN
  /\ table \in Tables
  /\ holdOn = "unset"
  /\ pushed = {}
  /\ ipc = "off"
  /\ since = Period
  /\ window = NoOutage
  /\ call = FALSE
  /\ muteOn = "unset"
  /\ shorts = 0

(***************************************************************************)
(* sync_hold: asked by boot, a reload and the period with force, by every  *)
(* tick and every lock event without.                                      *)
(***************************************************************************)
Changed == holdOn # Word(want) \/ pushed # table
Short   == ipc = "unavailable" /\ window > 0
RetryInWindow == Short /\ since >= RetryEvery   \* a spent window ends it all
Retry   == /\ ipc = "unavailable"
           /\ since >= IF Short THEN RetryEvery ELSE Period

(* Whether mute.sync follows; without Changed a transition would be lost.  *)
TellsMuteLater(force) == force \/ ~Short
TellsMute(force)      == force \/ Changed \/ ~Short

SyncHold(force) ==
  /\ alive = "running"
  /\ push.pc = "idle"
  /\ force \/ Retry \/ Changed
  /\ Begin(want, table)
  /\ holdOn' = Word(want)
  /\ pushed' = table
  /\ call' = TellsMute(force)
  /\ shorts' = IF Short /\ ~force /\ ~Changed /\ shorts < MaxShorts
               THEN shorts + 1 ELSE shorts
  /\ UNCHANGED <<shellVars, ownedFile, unsure, faults, alive, want, table, ipc,
                 since, window, muteOn>>

WindowReopens(failure) == IF failure = Answered THEN 0 ELSE RetryWindow   \* every failure opens it anew

(* The window after a failure: the first one opens it, a later one leaves  *)
(* it as it is, however much of it is spent.                               *)
WindowAfter(failure) == IF failure = Answered THEN 0
                        ELSE IF window = NoOutage THEN RetryWindow ELSE window

(* What the push came back with, and the mute.sync that follows.           *)
SyncHoldEnds ==
  /\ alive = "running"
  /\ push.pc = "ended"
  /\ push' = NoPush
  /\ IF push.failure = "none"
     THEN /\ ipc' = Word(push.on)
          /\ window' = NoOutage
          /\ shorts' = 0
          /\ UNCHANGED since
     ELSE /\ ipc' = "unavailable"
          /\ since' = 0
          /\ window' = WindowAfter(push.failure)
          /\ UNCHANGED shorts
  /\ muteOn' = IF call THEN holdOn ELSE muteOn
  /\ call' = FALSE
  /\ UNCHANGED <<shellVars, ownedFile, unsure, faults, alive, want, table,
                 holdOn, pushed>>

(***************************************************************************)
(* The listener's life.  A restart knows only what the file says.          *)
(***************************************************************************)
Start ==
  /\ alive = "down"
  /\ alive' = "running"
  /\ Fresh
  /\ UNCHANGED <<silVars, want, table>>

(* release_hold: a stop gives the pushed keys back.                        *)
Stop ==
  /\ alive = "running"
  /\ push.pc = "idle"
  /\ IF pushed = {} THEN alive' = "down" /\ UNCHANGED push
                    ELSE alive' = "stopping" /\ Begin(FALSE, pushed)
  /\ UNCHANGED <<shellVars, ownedFile, unsure, faults, want, table, holdOn,
                 pushed, ipc, since, window, call, muteOn, shorts>>

StopEnds ==
  /\ alive = "stopping"
  /\ push.pc = "ended"
  /\ alive' = "down"
  /\ push' = NoPush
  /\ UNCHANGED <<shellVars, ownedFile, unsure, faults, want, table, holdOn,
                 pushed, ipc, since, window, call, muteOn, shorts>>

Killed ==
  /\ alive # "down"
  /\ Fault
  /\ alive' = "down"
  /\ PushKilled
  /\ UNCHANGED <<want, table, holdOn, pushed, ipc, since, window, call, muteOn,
                 shorts>>

(***************************************************************************)
(* Time, the lock and the space, and the lists.                            *)
(***************************************************************************)
Tick ==
  /\ ipc = "unavailable"
  /\ since < Period \/ window > 0
  /\ since' = IF since < Period THEN since + 1 ELSE since
  /\ window' = IF window > 0 THEN window - 1 ELSE window
  /\ UNCHANGED <<silVars, alive, want, table, holdOn, pushed, ipc, call,
                 muteOn, shorts>>

HoldChanges ==
  /\ want' = ~want
  /\ UNCHANGED <<silVars, alive, table, holdOn, pushed, ipc, since, window,
                 call, muteOn, shorts>>

TableChanges ==
  /\ table' \in Tables \ {table}
  /\ UNCHANGED <<silVars, alive, want, holdOn, pushed, ipc, since, window,
                 call, muteOn, shorts>>

Next ==
  \/ /\ PushStep \/ ShellStep
     /\ UNCHANGED holdVars
  \/ \E force \in BOOLEAN : SyncHold(force)
  \/ SyncHoldEnds
  \/ Start \/ Stop \/ StopEnds \/ Killed
  \/ Tick \/ HoldChanges \/ TableChanges

Spec == Init /\ [][Next]_vars

(***************************************************************************)
(* The listener's own steps are taken, time passes, the service is         *)
(* restarted and a shell that stopped comes back.  Nothing is assumed of   *)
(* the person, the lock, the lists and the faults.                         *)
(***************************************************************************)
Fairness ==
  /\ WF_vars(PushStep /\ UNCHANGED holdVars)
  /\ WF_vars(SyncHold(FALSE))
  /\ WF_vars(SyncHoldEnds)
  /\ WF_vars(StopEnds)
  /\ WF_vars(Start)
  /\ WF_vars(Tick)
  /\ WF_vars(ShellStarts /\ UNCHANGED holdVars)

FairSpec == Spec /\ Fairness
-----------------------------------------------------------------------------
(***************************************************************************)
(* One outage opens one episode of short retries: until a push gets        *)
(* through, no more of them than the window has room for, however long the *)
(* shell stays away and whatever the kinds of its failures.                *)
(***************************************************************************)
EpisodeIsBounded == shorts * RetryEvery <= RetryWindow

(***************************************************************************)
(* An answered failure ends the episode: no short retry while the window   *)
(* of its outage is spent, which only a push that gets through reopens.    *)
(***************************************************************************)
SpentStaysSpent ==
  [][(alive = "running" /\ alive' = "running" /\ window = 0 /\ ipc' = "unavailable")
       => window' = 0]_vars

(***************************************************************************)
(* A short retry skips the mute; a change of the hold never does: between  *)
(* two calls the mute has been told the hold the shell was asked for.      *)
(***************************************************************************)
MuteFollowsHold == (alive = "running" /\ push.pc = "idle") => muteOn = holdOn

(***************************************************************************)
(* When the hold stays off and every period forces a push, as _Ctx.tick    *)
(* does, the shell's list comes to have no key but those of the person and *)
(* those a fault left in doubt, and no key stays recorded: a stale record  *)
(* would give away a key the person silences later.                        *)
(***************************************************************************)
OffGivesBack ==
  (<>[](~want /\ alive = "running") /\ []<><<SyncHold(TRUE)>>_vars)
    => []<>(silenced \subseteq hand \union unsure /\ ownedFile = {})

(***************************************************************************)
(* When the hold stays on over a list that stays, its keys get silenced:   *)
(* an outage is outlived, with or without a spent retry window.            *)
(***************************************************************************)
OnIsReached ==
  \A keys \in Tables :
    <>[](want /\ alive = "running" /\ table = keys) => <>[](ipc = "on" /\ pushed = keys)
=============================================================================
