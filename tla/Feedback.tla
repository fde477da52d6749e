------------------------------ MODULE Feedback ------------------------------
(***************************************************************************)
(* The routers of feedback.py: the kernel redirects blocked connections to *)
(* them, each accepted one gets a thread, and the thread shows the block   *)
(* page or the Blocked banner for a listed host and splices any other to   *)
(* its real destination, from a source port of a small range the firewall  *)
(* lets through.  Three counts are shared by the threads, each under a     *)
(* lock of its own: the connections, the splices and the leased ports.     *)
(* What a thread leaves in them on any of its paths is what this module    *)
(* is about.                                                               *)
(*                                                                         *)
(* A reload stops and starts the routers under running threads.  Bytes,    *)
(* parsing and pages are left out: a request is listed or not; one list    *)
(* entry stands for all in the banner's debounce.                          *)
(***************************************************************************)
EXTENDS Naturals, FiniteSets

CONSTANTS
  Threads,     \* handler threads
  Ports,       \* the splice range
  MaxConns,    \* MAX_CONNS
  MaxSplices,  \* MAX_SPLICES
  NoPort,      \* no port
  MaxFaults    \* bound on the failures of socket() and of thread starts

ASSUME FeedbackAssumption ==
  /\ IsFiniteSet(Threads)
  /\ NoPort \notin Ports
  /\ MaxConns \in Nat
  /\ MaxSplices \in Nat
  /\ MaxFaults \in Nat

VARIABLES
  passThrough,  \* site_block.pass_through, as start last saw it
  conns,        \* _conns
  splices,      \* _splices
  leased,       \* _ports_in_use
  thread,       \* each thread: where it is, its port and the refused ones
  bannerAt,     \* _banner_at holds a time less than BANNER_DEBOUNCE_S old
  shown,        \* history: banners shown since it was last without one
  leaked,       \* history: ports whose lease an exception left behind
  faults        \* faults so far, at most MaxFaults

vars == <<passThrough, conns, splices, leased, thread, bannerAt,
          shown, leaked, faults>>

(* Where a thread is.  In Spliced it holds a splice slot, in Leasing a     *)
(* port of its own, in Bound that port is bound by a socket of the thread. *)
Bound   == {"pump", "refused", "failed"}
Leasing == Bound \union {"lease", "free", "freeSkip"}
Spliced == Leasing \union {"acquire", "unslot"}
Serving == Spliced \union {"start", "banner", "fire", "close"}
Places  == Serving \union {"idle"}

Idle == [at |-> "idle", port |-> NoPort, skip |-> {}]

TypeOK ==
  /\ passThrough \in BOOLEAN
  /\ conns \in 0..MaxConns
  /\ splices \in 0..MaxSplices
  /\ leased \in SUBSET Ports
  /\ thread \in [Threads -> [at : Places, port : Ports \union {NoPort}, skip : SUBSET Ports]]
  /\ bannerAt \in BOOLEAN
  /\ shown \in Nat
  /\ leaked \in SUBSET Ports
  /\ faults \in 0..MaxFaults

Init ==
  /\ passThrough \in BOOLEAN
  /\ conns = 0 /\ splices = 0 /\ leased = {}
  /\ thread = [t \in Threads |-> Idle]
  /\ bannerAt = FALSE /\ shown = 0
  /\ leaked = {}
  /\ faults = 0

At(t, place) == thread[t].at = place
Goes(t, place) == thread' = [thread EXCEPT ![t].at = place]
Fault == faults < MaxFaults /\ faults' = faults + 1

shared == <<conns, splices, leased>>
banner == <<bannerAt, shown>>

(***************************************************************************)
(* start, which stops first: the loops end and begin anew, the banners are *)
(* forgotten, and the threads, their slots and their ports left alone.     *)
(***************************************************************************)
Restart ==
  /\ passThrough' \in BOOLEAN
  /\ bannerAt' = FALSE /\ shown' = 0
  /\ UNCHANGED <<shared, thread, leaked, faults>>

(***************************************************************************)
(* _accept_loop: a redirected connection claims a slot before its thread   *)
(* starts; over the cap it is closed and nothing changes.                  *)
(***************************************************************************)
Accept(t) ==
  /\ At(t, "idle")
  /\ conns < MaxConns
  /\ conns' = conns + 1
  /\ Goes(t, "start")
  /\ UNCHANGED <<passThrough, splices, leased, banner, leaked, faults>>

ThreadFailsKeeps(t) ==
  /\ At(t, "start")
  /\ Fault
  /\ thread' = [thread EXCEPT ![t] = Idle]
  /\ UNCHANGED <<passThrough, shared, banner, leaked>>

ThreadFails(t) ==
  /\ At(t, "start")
  /\ Fault
  /\ thread' = [thread EXCEPT ![t] = Idle]
  /\ conns' = conns - 1
  /\ UNCHANGED <<passThrough, splices, leased, banner, leaked>>

(***************************************************************************)
(* _http_conn, _tls_conn and _route: read what there is within the read    *)
(* timeout, then tell the block path from a splice.                        *)
(***************************************************************************)
(* The page, or nothing for a request without a host or a destination.     *)
AnswerPage(t) ==
  /\ At(t, "start")
  /\ Goes(t, "close")
  /\ UNCHANGED <<passThrough, shared, banner, leaked, faults>>

(* A ClientHello for a listed host.                                        *)
BlockHello(t) ==
  /\ At(t, "start")
  /\ Goes(t, "banner")
  /\ UNCHANGED <<passThrough, shared, banner, leaked, faults>>

ClaimSplice(t) ==
  /\ At(t, "start")
  /\ passThrough
  /\ IF splices < MaxSplices THEN splices' = splices + 1 /\ Goes(t, "acquire")
                             ELSE Goes(t, "close") /\ UNCHANGED splices
  /\ UNCHANGED <<passThrough, conns, leased, banner, leaked, faults>>

(***************************************************************************)
(* _open_splice: lease a port nobody has and this splice was not refused,  *)
(* bind and connect; a port the kernel refuses is given back and skipped.  *)
(***************************************************************************)
FreeForAll(t) == Ports \ leased             \* forgets the refused ones
FreeForAny(t) == Ports \ thread[t].skip      \* looks without the lock
FreeFor(t)    == Ports \ (leased \union thread[t].skip)

AcquirePort(t) ==
  /\ At(t, "acquire")
  /\ \/ \E p \in FreeFor(t) :
          /\ leased' = leased \union {p}
          /\ thread' = [thread EXCEPT ![t].at = "lease", ![t].port = p]
     \/ /\ FreeFor(t) = {}
        /\ Goes(t, "unslot")
        /\ UNCHANGED leased
  /\ UNCHANGED <<passThrough, conns, splices, banner, leaked, faults>>

(* socket() raises before the try: the slot is given back, the lease is not *)
SocketFails(t) ==
  /\ At(t, "lease")
  /\ Fault
  /\ leaked' = leaked \union {thread[t].port}
  /\ thread' = [thread EXCEPT ![t].at = "unslot", ![t].port = NoPort]
  /\ UNCHANGED <<passThrough, shared, banner>>

Connect(t) ==
  /\ At(t, "lease")
  /\ Goes(t, "pump") \/ Goes(t, "refused") \/ Goes(t, "failed")
  /\ UNCHANGED <<passThrough, shared, banner, leaked, faults>>

(* The socket is closed before its port is free for another thread.        *)
CloseSocket(t) ==
  /\ \/ At(t, "refused") /\ Goes(t, "freeSkip")
     \/ At(t, "failed") /\ Goes(t, "free")
  /\ UNCHANGED <<passThrough, shared, banner, leaked, faults>>

(* _pump returns: both ends done, an error, or IDLE_TIMEOUT.               *)
PumpEnds(t) ==
  /\ At(t, "pump")
  /\ Goes(t, "failed")
  /\ UNCHANGED <<passThrough, shared, banner, leaked, faults>>

FreePort(t) ==
  /\ leased' = leased \ {thread[t].port}
  /\ \/ /\ At(t, "free")
        /\ thread' = [thread EXCEPT ![t].at = "unslot", ![t].port = NoPort]
     \/ /\ At(t, "freeSkip")
        /\ thread' = [thread EXCEPT ![t].at = "acquire", ![t].port = NoPort,
                                    ![t].skip = @ \union {thread[t].port}]
  /\ UNCHANGED <<passThrough, conns, splices, banner, leaked, faults>>

ReleaseSplice(t) ==
  /\ At(t, "unslot")
  /\ splices' = splices - 1
  /\ Goes(t, "close")
  /\ UNCHANGED <<passThrough, conns, leased, banner, leaked, faults>>

(***************************************************************************)
(* _fire: the debounce is read, the workspace asked, and the debounce read *)
(* again under the lock before the time is set.                            *)
(***************************************************************************)
FirstLook(t) ==
  /\ At(t, "banner")
  /\ IF bannerAt THEN Goes(t, "close") ELSE Goes(t, "fire") \/ Goes(t, "close")
  /\ UNCHANGED <<passThrough, shared, banner, leaked, faults>>

Show(t) ==
  /\ At(t, "fire")
  /\ Goes(t, "close")
  /\ IF bannerAt THEN UNCHANGED banner ELSE bannerAt' = TRUE /\ shown' = shown + 1
  /\ UNCHANGED <<passThrough, shared, leaked, faults>>

DebounceEnds ==
  /\ bannerAt
  /\ bannerAt' = FALSE /\ shown' = 0
  /\ UNCHANGED <<passThrough, shared, thread, leaked, faults>>

(* _serve: the connection is closed and its slot given back.               *)
Close(t) ==
  /\ At(t, "close")
  /\ conns' = conns - 1
  /\ thread' = [thread EXCEPT ![t] = Idle]
  /\ UNCHANGED <<passThrough, splices, leased, banner, leaked, faults>>

Runs(t) ==
  \/ AnswerPage(t) \/ BlockHello(t) \/ ClaimSplice(t) \/ AcquirePort(t) \/ Connect(t)
  \/ CloseSocket(t) \/ FreePort(t) \/ ReleaseSplice(t)
  \/ FirstLook(t) \/ Show(t) \/ Close(t)

Next ==
  \/ Restart \/ DebounceEnds
  \/ \E t \in Threads : \/ Runs(t) \/ Accept(t) \/ PumpEnds(t)
                        \/ ThreadFails(t) \/ SocketFails(t)

Spec == Init /\ [][Next]_vars

(***************************************************************************)
(* A thread takes its steps, each of which has a timeout in the code.  A   *)
(* splice may carry data for ever; only its end is then not its own.       *)
(***************************************************************************)
Fairness == \A t \in Threads : WF_vars(Runs(t))

FairSpec == Spec /\ Fairness
-----------------------------------------------------------------------------
(***************************************************************************)
(* Each count is what the live threads hold, whatever path a thread took   *)
(* and however often the routers were restarted under it; so neither cap   *)
(* is exceeded and neither is used up by threads that ended.               *)
(***************************************************************************)
In(places) == {t \in Threads : thread[t].at \in places}

SlotsAreHeld ==
  /\ conns = Cardinality(In(Serving))
  /\ splices = Cardinality(In(Spliced))

(***************************************************************************)
(* A port is leased to one thread at a time, and stays leased for as long  *)
(* as a socket of that thread is bound to it.                              *)
(***************************************************************************)
LeasesAreExclusive ==
  /\ \A t \in In(Leasing) : thread[t].port \in leased
  /\ \A t, u \in In(Leasing) : thread[t].port = thread[u].port => t = u

(***************************************************************************)
(* Every lease that ended was given back, but for those an exception of    *)
(* socket() left behind.                                                   *)
(***************************************************************************)
LeasesAreReturned == leased = leaked \union {thread[t].port : t \in In(Leasing)}

(***************************************************************************)
(* The table of leases is exact at every moment: a port in use is leased,  *)
(* to one thread, and a leased port is in use or was lost by socket().     *)
(***************************************************************************)
LeasesAreExact == LeasesAreExclusive /\ LeasesAreReturned

(***************************************************************************)
(* One banner per list entry and debounce, however many threads saw the    *)
(* entry at once.                                                          *)
(***************************************************************************)
OneBanner == shown <= 1

(***************************************************************************)
(* A request that was read ends in a splice or is answered and its slot    *)
(* comes back: a range of refused ports does not keep the thread.          *)
(***************************************************************************)
RequestsEnd == \A t \in Threads : At(t, "start") ~> At(t, "idle") \/ At(t, "pump")
=============================================================================
