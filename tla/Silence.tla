------------------------------ MODULE Silence -------------------------------
(***************************************************************************)
(* hold.push: the listener puts its sender keys into the shell's list of   *)
(* silenced senders and takes back only the keys it put there.  The list   *)
(* is the shell's and the person edits it as well; which keys are the      *)
(* plugin's is remembered in silenced-owned.json, read when a push begins  *)
(* and written when it ends, while the list changes one call at a time.    *)
(*                                                                         *)
(* Left out: the text of keys (normalize) and the order of the calls       *)
(* inside one group.  A shell that fails stands for both kinds of failure  *)
(* the code tells apart, and the call whose answer is lost after the shell *)
(* ran it (IPC_TIMEOUT) is an action of its own.                           *)
(***************************************************************************)
EXTENDS Naturals, FiniteSets

CONSTANTS
  Keys,      \* the sender keys the lists may give
  MaxFaults  \* bound on the environment's faults in one behaviour

ASSUME SilenceAssumption == MaxFaults \in Nat

Transport == "transport"
Answered  == "answered"

VARIABLES
  silenced,  \* the shell's silencedSenders
  shell,     \* the shell answers
  ownedFile, \* silenced-owned.json
  push,      \* the push in progress
  hand,      \* history: silenced keys that the person put there
  unsure,    \* history: keys whose record a fault or a hand made doubtful
  faults     \* faults so far, at most MaxFaults

shellVars == <<silenced, shell, hand>>
silVars   == <<silenced, shell, ownedFile, push, hand, unsure, faults>>

NoPush == [pc |-> "idle", on |-> FALSE, keys |-> {}, owned |-> {},
           remove |-> {}, add |-> {}, failure |-> "none"]

Pushes == [pc : {"idle", "read", "calls", "ended"}, on : BOOLEAN,
           keys : SUBSET Keys, owned : SUBSET Keys, remove : SUBSET Keys,
           add : SUBSET Keys, failure : {"none", Transport, Answered}]

SilenceTypeOK ==
  /\ silenced \in SUBSET Keys
  /\ shell \in BOOLEAN
  /\ ownedFile \in SUBSET Keys
  /\ push \in Pushes
  /\ hand \in SUBSET Keys
  /\ unsure \in SUBSET Keys
  /\ faults \in 0..MaxFaults

SilenceInit ==
  /\ silenced \in SUBSET Keys
  /\ shell = TRUE
  /\ ownedFile = {}
  /\ push = NoPush
  /\ hand = silenced
  /\ unsure = {}
  /\ faults = 0

Fault == faults < MaxFaults /\ faults' = faults + 1

(***************************************************************************)
(* The shell and the person.  A key silenced by hand while the record      *)
(* names it, or one that a push is about to silence, has two owners.       *)
(***************************************************************************)
Recorded == ownedFile \union push.owned

PersonSilences(k) ==
  /\ k \notin silenced
  /\ silenced' = silenced \union {k}
  /\ hand' = hand \union {k}
  /\ unsure' = IF k \in Recorded \union push.add THEN unsure \union {k} ELSE unsure
  /\ UNCHANGED <<shell, ownedFile, push, faults>>

PersonUnsilences(k) ==
  /\ k \in silenced
  /\ silenced' = silenced \ {k}
  /\ hand' = hand \ {k}
  /\ UNCHANGED <<shell, ownedFile, push, unsure, faults>>

ShellStops ==
  /\ shell
  /\ Fault
  /\ shell' = FALSE
  /\ UNCHANGED <<silenced, ownedFile, push, hand, unsure>>

ShellStarts ==
  /\ ~shell
  /\ shell' = TRUE
  /\ UNCHANGED <<silenced, ownedFile, push, hand, unsure, faults>>

(***************************************************************************)
(* The push.  Doubt is what a file that stays as it was has not learnt.    *)
(***************************************************************************)
Begin(on, keys) ==
  push' = [NoPush EXCEPT !.pc = "read", !.on = on, !.keys = keys]

Doubt(owned) == owned \ ownedFile

Returns(failure) == push' = [push EXCEPT !.pc = "ended", !.owned = {},
                               !.remove = {}, !.add = {}, !.failure = failure]

(* _write_owned: an OSError is logged and the old file stays.              *)
WriteOwned(owned) ==
  \/ /\ ownedFile' = owned
     /\ UNCHANGED <<unsure, faults>>
  \/ /\ Fault
     /\ unsure' = unsure \union Doubt(owned)
     /\ UNCHANGED ownedFile

(* What the calls will take back and put in, and two ways to get it wrong. *)
ToRemoveListed(owned, wanted) == (owned \intersect push.keys) \ wanted
ToAddAll(wanted)              == wanted

ToRemove(owned, wanted) == owned \ wanted
ToAdd(wanted)           == wanted \ silenced

PushRead ==
  /\ push.pc = "read"
  /\ shell
  /\ LET owned == ownedFile \intersect silenced
         wanted == IF push.on THEN push.keys ELSE {}
     IN push' = [push EXCEPT !.pc = "calls", !.owned = owned,
                   !.remove = ToRemove(owned, wanted), !.add = ToAdd(wanted)]
  /\ UNCHANGED <<shellVars, ownedFile, unsure, faults>>

Unsilence(k) ==
  /\ push.pc = "calls"
  /\ shell
  /\ k \in push.remove
  /\ silenced' = silenced \ {k}
  /\ push' = [push EXCEPT !.owned = @ \ {k}, !.remove = @ \ {k}]
  /\ UNCHANGED <<shell, ownedFile, hand, unsure, faults>>

SilenceKey(k) ==
  /\ push.pc = "calls"
  /\ shell
  /\ push.remove = {}
  /\ k \in push.add
  /\ silenced' = silenced \union {k}
  /\ push' = [push EXCEPT !.owned = @ \union {k}, !.add = @ \ {k}]
  /\ UNCHANGED <<shell, ownedFile, hand, unsure, faults>>

(* The next call of the push, of which the shell runs it or does not.      *)
NextCall(k) == k \in IF push.remove # {} THEN push.remove ELSE push.add

PushDone ==
  /\ push.pc = "calls"
  /\ push.remove = {}
  /\ push.add = {}
  /\ WriteOwned(push.owned)
  /\ Returns("none")
  /\ UNCHANGED shellVars

(* A call fails: no shell to reach, or a shell that reports an error.      *)
FailedRead ==
  /\ push.pc = "read"
  /\ \/ /\ ~shell
        /\ Returns(Transport)
        /\ UNCHANGED faults
     \/ /\ shell
        /\ Fault
        /\ Returns(Answered)
  /\ UNCHANGED <<shellVars, ownedFile, unsure>>

FailedCall ==
  /\ push.pc = "calls"
  /\ \E k \in Keys : NextCall(k)
  /\ \/ /\ ~shell
        /\ WriteOwned(push.owned)
        /\ Returns(Transport)
     \/ /\ shell
        /\ Fault
        /\ ownedFile' = push.owned
        /\ Returns(Answered)
        /\ UNCHANGED unsure
  /\ UNCHANGED shellVars

(* The shell ran the call and the caller gave up waiting for the answer.   *)
LostAnswer(k) ==
  /\ push.pc = "calls"
  /\ shell
  /\ NextCall(k)
  /\ Fault
  /\ silenced' = IF k \in push.remove THEN silenced \ {k} ELSE silenced \union {k}
  /\ unsure' = unsure \union ({k} \ push.owned)
  /\ ownedFile' = push.owned
  /\ Returns(Transport)
  /\ UNCHANGED <<shell, hand>>

(* The listener is killed: what the push did since it read is unrecorded.  *)
PushKilled ==
  /\ push' = NoPush
  /\ unsure' = IF push.pc = "calls" THEN unsure \union Doubt(push.owned) ELSE unsure
  /\ UNCHANGED <<shellVars, ownedFile>>

PushStep ==
  \/ PushRead
  \/ \E k \in Keys : Unsilence(k) \/ SilenceKey(k) \/ LostAnswer(k)
  \/ PushDone
  \/ FailedRead
  \/ FailedCall

ShellStep ==
  \/ ShellStops
  \/ ShellStarts
  \/ \E k \in Keys : PersonSilences(k) \/ PersonUnsilences(k)
-----------------------------------------------------------------------------
(***************************************************************************)
(* "Only keys this plugin put there are ever removed": a key the person    *)
(* silenced stays silenced until the person gives it back, whatever        *)
(* pushes, failures and restarts come in between.                          *)
(***************************************************************************)
HandKeysStay == hand \ unsure \subseteq silenced

(***************************************************************************)
(* No key the plugin silenced is forgotten: it is in the file, or in the   *)
(* push that will write the file, so that a later push gives it back.  A   *)
(* retired key of a shorter list is no exception.                          *)
(***************************************************************************)
NothingForgotten == silenced \ (hand \union unsure) \subseteq Recorded
=============================================================================
