------------------------------ MODULE SiteBlock ------------------------------
(***************************************************************************)
(* What the listener promises whoever asks it to reload or refresh, with   *)
(* no worker, no generations and no baseline: one configuration is in      *)
(* force; now and then the outcome of applying it is published, in one     *)
(* step with the answers to everybody who has asked so far.                *)
(***************************************************************************)
CONSTANTS
  Configs,  \* the valid configurations
  Disabled, \* those that switch the block off
  Clients   \* whoever may ask

VARIABLES
  inforce,  \* the configuration in force
  shown,    \* the published state
  answer    \* per client: none, waiting, its reply, or closed

vars == <<inforce, shown, answer>>

Unobserved == [status |-> "off", observed |-> FALSE]

Init ==
  /\ inforce \in Configs
  /\ shown = Unobserved
  /\ answer = [c \in Clients |-> "none"]

\* A request that is heard waits; a reload also changes what is in force.
Ask(c, config) ==
  /\ answer[c] = "none"
  /\ inforce' = config
  /\ answer' = [answer EXCEPT ![c] = "waiting"]
  /\ UNCHANGED shown

\* A request that cannot be met is refused at once and changes nothing.
Refuse(c) ==
  /\ answer[c] = "none"
  /\ answer' = [answer EXCEPT ![c] = "error"]
  /\ UNCHANGED <<inforce, shown>>

\* A client is dropped unanswered.
Close(S) ==
  /\ answer' = [c \in Clients |-> IF c \in S THEN "closed" ELSE answer[c]]
  /\ UNCHANGED <<inforce, shown>>

\* The outcome for the configuration in force.  Nobody hears ok or deferred
\* unless the block is as asked; a disabled block is never shown as on.
Publish(status, reply) ==
  /\ status = "unavailable" => reply = "error"
  /\ inforce \in Disabled => status # "on"
  /\ shown' = [status |-> status, observed |-> TRUE]
  /\ answer' = [c \in Clients |-> IF answer[c] = "waiting" THEN reply ELSE answer[c]]
  /\ UNCHANGED inforce

\* A new listener starts, with nobody waiting and nothing observed.
Restart ==
  /\ \A c \in Clients : answer[c] # "waiting"
  /\ inforce' \in Configs
  /\ shown' = Unobserved
  /\ UNCHANGED answer

Next ==
  \/ \E c \in Clients, config \in Configs : Ask(c, config)
  \/ \E c \in Clients : Refuse(c)
  \/ \E S \in SUBSET {c \in Clients : answer[c] = "waiting"} : Close(S)
  \/ \E status \in {"on", "off", "unavailable"}, reply \in {"ok", "error", "deferred"} :
       Publish(status, reply)
  \/ Restart

Spec == Init /\ [][Next]_vars
=============================================================================
