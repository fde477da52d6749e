------------------------------- MODULE OneLock -------------------------------
(***************************************************************************)
(* What the person is promised of a lock on the space, with no file, no    *)
(* flock and no processes: one lock stands at a time; a lock that stands   *)
(* gives way to another one only after its time is up; and a lock is ended *)
(* at most once, which is told (by the unlock hook) at most once, after    *)
(* it.  Each step is one lock's, and all locks are seen at one moment.     *)
(***************************************************************************)
CONSTANT Locks

VARIABLE phase \* per lock

Init == phase = [l \in Locks |-> "wanted"]

Becomes(l, next) == phase' = [phase EXCEPT ![l] = next]

\* The lock is given while none stands; one whose time is up is forgotten.
Give(l) ==
  /\ phase[l] = "wanted"
  /\ \A m \in Locks : phase[m] # "standing"
  /\ phase' = [m \in Locks |-> IF m = l THEN "standing"
                               ELSE IF phase[m] = "overdue" THEN "over" ELSE phase[m]]

\* The lock is refused, or whoever wanted it is gone.
GiveUp(l) == phase[l] = "wanted" /\ Becomes(l, "over")

TimeUp(l) == phase[l] = "standing" /\ Becomes(l, "overdue")

End(l) == phase[l] \in {"standing", "overdue"} /\ Becomes(l, "ended")

Tell(l) == phase[l] = "ended" /\ Becomes(l, "told")

Next == \E l \in Locks : Give(l) \/ GiveUp(l) \/ TimeUp(l) \/ End(l) \/ Tell(l)

Spec == Init /\ [][Next]_phase
=============================================================================
