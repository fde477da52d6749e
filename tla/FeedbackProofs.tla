--------------------------- MODULE FeedbackProofs ---------------------------
(***************************************************************************)
(* Proofs about Feedback, for every finite set of handler threads, every   *)
(* range of ports and every cap: types, the counts, the leases and the     *)
(* banners.                                                                *)
(***************************************************************************)
EXTENDS Feedback, FiniteSetTheorems, TLAPS

\* A port that an exception left leased belongs to no thread.
LeakedAreLost == \A t \in In(Leasing) : thread[t].port \notin leaked

\* Without a running debounce no banner of it was shown.
DebounceInv == OneBanner /\ (~bannerAt => shown = 0)

\* The inductive invariant.
Inv ==
  /\ TypeOK
  /\ SlotsAreHeld
  /\ LeasesAreExclusive /\ LeasesAreReturned /\ LeakedAreLost
  /\ DebounceInv
-----------------------------------------------------------------------------
(***************************************************************************)
(* Counting the threads in a set of places.                                *)
(***************************************************************************)

\* Only t moved.
Moves(t) == \A u \in Threads \ {t} : thread'[u] = thread[u]

\* Any set of threads is finite.
LEMMA InIsFinite ==
  ASSUME NEW S
  PROVE  IsFiniteSet(In(S)) /\ Cardinality(In(S)) \in Nat
  BY FeedbackAssumption, FS_Subset, FS_CardinalityType DEF In

\* A move inside S, or outside of it, leaves its threads as they are.
LEMMA Stays ==
  ASSUME NEW S, NEW t \in Threads, Moves(t), thread'[t].at \in S <=> thread[t].at \in S
  PROVE  In(S)' = In(S)
  BY DEF In, Moves

\* A thread that comes to S adds one.
LEMMA Enters ==
  ASSUME NEW S, NEW t \in Threads, Moves(t), thread'[t].at \in S, thread[t].at \notin S
  PROVE  Cardinality(In(S)') = Cardinality(In(S)) + 1
  <1>1. In(S)' = In(S) \union {t} /\ t \notin In(S)
    BY DEF In, Moves
  <1> QED
    BY <1>1, InIsFinite, FS_AddElement

\* A thread that leaves S takes one away.
LEMMA Leaves ==
  ASSUME NEW S, NEW t \in Threads, Moves(t), thread[t].at \in S, thread'[t].at \notin S
  PROVE  Cardinality(In(S)') = Cardinality(In(S)) - 1 /\ Cardinality(In(S)) > 0
  <1>1. In(S)' = In(S) \ {t} /\ t \in In(S)
    BY DEF In, Moves
  <1>2. Cardinality(In(S)) # 0
    BY <1>1, InIsFinite, FS_EmptySet
  <1>3. IsFiniteSet(In(S)) /\ Cardinality(In(S)) \in Nat
    BY InIsFinite
  <1>4. Cardinality(In(S) \ {t}) = Cardinality(In(S)) - 1
    BY <1>1, <1>3, FS_RemoveElement
  <1> QED
    BY <1>1, <1>2, <1>3, <1>4
-----------------------------------------------------------------------------

\* Every step either moves no thread or is a step of one thread, which then is
\* the only one that moved.
Quiet == UNCHANGED <<conns, splices, leased, thread, leaked>>

(* The steps of the relay, one by one.                                     *)
LEMMA Steps ==
  ASSUME [Next]_vars
  PROVE  Quiet \/ \E t \in Threads : Runs(t) \/ Accept(t) \/ PumpEnds(t)
                                     \/ ThreadFails(t) \/ SocketFails(t)
  BY DEF Next, Restart, DebounceEnds, vars, shared, banner, Quiet

(* A step of one thread leaves the others where they are.                  *)
LEMMA OneMoves ==
  ASSUME TypeOK, NEW t \in Threads,
         Runs(t) \/ Accept(t) \/ PumpEnds(t) \/ ThreadFails(t) \/ SocketFails(t)
  PROVE  Moves(t)
  BY DEF TypeOK, Runs, Moves, Goes, At, AnswerPage, BlockHello, AcquirePort, SocketFails, Connect, CloseSocket, PumpEnds, FreePort, FirstLook, Show, Accept, ThreadFails, ClaimSplice, ReleaseSplice, Close

\* Neither count passes its cap, nor goes below zero: it is what the threads hold.
LEMMA SlotsNext ==
  ASSUME Inv, [Next]_vars
  PROVE  SlotsAreHeld' /\ conns' \in 0..MaxConns /\ splices' \in 0..MaxSplices
  <1> USE DEF Inv
  <1>0. /\ conns \in 0..MaxConns /\ splices \in 0..MaxSplices
        /\ MaxConns \in Nat /\ MaxSplices \in Nat
        /\ conns = Cardinality(In(Serving)) /\ splices = Cardinality(In(Spliced))
    BY FeedbackAssumption DEF TypeOK, SlotsAreHeld
  <1>1. CASE Quiet
    BY <1>0, <1>1 DEF Quiet, In, SlotsAreHeld
  <1>2. ASSUME NEW t \in Threads, Accept(t) PROVE SlotsAreHeld' /\ conns' \in 0..MaxConns /\ splices' \in 0..MaxSplices
    <2>1. Moves(t)
      BY <1>2, OneMoves DEF Runs
    <2>2. thread[t].at = "idle" /\ thread'[t].at = "start"
      BY <1>2 DEF Accept, TypeOK, At, Goes, Idle
    <2>3. Cardinality(In(Serving)') = Cardinality(In(Serving)) + 1
      BY <2>1, <2>2, Enters DEF Serving, Spliced, Leasing, Bound
    <2>4. In(Spliced)' = In(Spliced)
      BY <2>1, <2>2, Stays DEF Serving, Spliced, Leasing, Bound
    <2> QED
      BY <1>0, <1>2, <2>3, <2>4 DEF Accept, SlotsAreHeld
  <1>3. ASSUME NEW t \in Threads, ThreadFails(t) PROVE SlotsAreHeld' /\ conns' \in 0..MaxConns /\ splices' \in 0..MaxSplices
    <2>1. Moves(t)
      BY <1>3, OneMoves DEF Runs
    <2>2. thread[t].at = "start" /\ thread'[t].at = "idle"
      BY <1>3 DEF ThreadFails, TypeOK, At, Goes, Idle
    <2>3. Cardinality(In(Serving)') = Cardinality(In(Serving)) - 1 /\ Cardinality(In(Serving)) > 0
      BY <2>1, <2>2, Leaves DEF Serving, Spliced, Leasing, Bound
    <2>4. In(Spliced)' = In(Spliced)
      BY <2>1, <2>2, Stays DEF Serving, Spliced, Leasing, Bound
    <2> QED
      BY <1>0, <1>3, <2>3, <2>4 DEF ThreadFails, SlotsAreHeld
  <1>4. ASSUME NEW t \in Threads, Close(t) PROVE SlotsAreHeld' /\ conns' \in 0..MaxConns /\ splices' \in 0..MaxSplices
    <2>1. Moves(t)
      BY <1>4, OneMoves DEF Runs
    <2>2. thread[t].at = "close" /\ thread'[t].at = "idle"
      BY <1>4 DEF Close, TypeOK, At, Goes, Idle
    <2>3. Cardinality(In(Serving)') = Cardinality(In(Serving)) - 1 /\ Cardinality(In(Serving)) > 0
      BY <2>1, <2>2, Leaves DEF Serving, Spliced, Leasing, Bound
    <2>4. In(Spliced)' = In(Spliced)
      BY <2>1, <2>2, Stays DEF Serving, Spliced, Leasing, Bound
    <2> QED
      BY <1>0, <1>4, <2>3, <2>4 DEF Close, SlotsAreHeld
  <1>5. ASSUME NEW t \in Threads, ReleaseSplice(t) PROVE SlotsAreHeld' /\ conns' \in 0..MaxConns /\ splices' \in 0..MaxSplices
    <2>1. Moves(t)
      BY <1>5, OneMoves DEF Runs
    <2>2. thread[t].at = "unslot" /\ thread'[t].at = "close"
      BY <1>5 DEF ReleaseSplice, TypeOK, At, Goes, Idle
    <2>3. In(Serving)' = In(Serving)
      BY <2>1, <2>2, Stays DEF Serving, Spliced, Leasing, Bound
    <2>4. Cardinality(In(Spliced)') = Cardinality(In(Spliced)) - 1 /\ Cardinality(In(Spliced)) > 0
      BY <2>1, <2>2, Leaves DEF Serving, Spliced, Leasing, Bound
    <2> QED
      BY <1>0, <1>5, <2>3, <2>4 DEF ReleaseSplice, SlotsAreHeld
  <1>6. ASSUME NEW t \in Threads, ClaimSplice(t) PROVE SlotsAreHeld' /\ conns' \in 0..MaxConns /\ splices' \in 0..MaxSplices
    <2>1. Moves(t) /\ thread[t].at = "start"
      BY <1>6, OneMoves DEF Runs, ClaimSplice, At
    <2>2. CASE splices < MaxSplices
      <3>1. thread'[t].at = "acquire"
        BY <1>6, <2>2 DEF ClaimSplice, TypeOK, At, Goes
      <3>2. In(Serving)' = In(Serving)
        BY <2>1, <3>1, Stays DEF Serving, Spliced, Leasing, Bound
      <3>3. Cardinality(In(Spliced)') = Cardinality(In(Spliced)) + 1
        BY <2>1, <3>1, Enters DEF Serving, Spliced, Leasing, Bound
      <3> QED
        BY <1>0, <1>6, <2>2, <3>2, <3>3 DEF ClaimSplice, SlotsAreHeld
    <2>3. CASE ~(splices < MaxSplices)
      <3>1. thread'[t].at = "close"
        BY <1>6, <2>3 DEF ClaimSplice, TypeOK, At, Goes
      <3>2. In(Serving)' = In(Serving)
        BY <2>1, <3>1, Stays DEF Serving, Spliced, Leasing, Bound
      <3>3. In(Spliced)' = In(Spliced)
        BY <2>1, <3>1, Stays DEF Serving, Spliced, Leasing, Bound
      <3> QED
        BY <1>0, <1>6, <2>3, <3>2, <3>3 DEF ClaimSplice, SlotsAreHeld
    <2> QED
      BY <2>2, <2>3
  <1>7. ASSUME NEW t \in Threads,
               \/ AnswerPage(t) \/ BlockHello(t) \/ AcquirePort(t) \/ SocketFails(t) \/ Connect(t)
               \/ CloseSocket(t) \/ PumpEnds(t) \/ FreePort(t) \/ FirstLook(t) \/ Show(t)
        PROVE  SlotsAreHeld' /\ conns' \in 0..MaxConns /\ splices' \in 0..MaxSplices
    <2>1. Moves(t) /\ UNCHANGED <<conns, splices>>
      BY <1>7, OneMoves DEF Runs, shared, AnswerPage, BlockHello, AcquirePort, SocketFails, Connect, CloseSocket, PumpEnds, FreePort, FirstLook, Show
    <2>2. /\ thread'[t].at \in Serving <=> thread[t].at \in Serving
          /\ thread'[t].at \in Spliced <=> thread[t].at \in Spliced
      BY <1>7 DEF Serving, Spliced, Leasing, Bound, TypeOK, At, Goes, AnswerPage, BlockHello, AcquirePort, SocketFails, Connect, CloseSocket, PumpEnds, FreePort, FirstLook, Show
    <2>3. In(Serving)' = In(Serving) /\ In(Spliced)' = In(Spliced)
      BY <2>1, <2>2, Stays
    <2> QED
      BY <1>0, <2>1, <2>3 DEF SlotsAreHeld
  <1> QED
    BY Steps, <1>1, <1>2, <1>3, <1>4, <1>5, <1>6, <1>7 DEF Runs


\* The rest of the types.
LEMMA TypeNext ==
  ASSUME Inv, [Next]_vars
  PROVE  TypeOK'
  <1> USE FeedbackAssumption DEF TypeOK
  <1>1. TypeOK /\ conns' \in 0..MaxConns /\ splices' \in 0..MaxSplices
    BY SlotsNext DEF Inv
  <1>2. CASE UNCHANGED vars
    BY <1>1, <1>2 DEF vars
  <1>3. CASE Restart \/ DebounceEnds
    <2>1. passThrough' \in BOOLEAN
      BY <1>1, <1>3 DEF Restart, DebounceEnds
    <2>2. bannerAt' \in BOOLEAN
      BY <1>3, Zenon DEF Restart, DebounceEnds
    <2>3. shown' \in Nat /\ UNCHANGED <<leased, thread, leaked, faults>>
      BY <1>3 DEF Restart, DebounceEnds, shared
    <2> QED
      BY <1>1, <2>1, <2>2, <2>3
  <1>4. ASSUME NEW t \in Threads, AnswerPage(t) PROVE TypeOK'
    BY <1>1, <1>4 DEF AnswerPage, At, Goes, shared, banner, Places, Serving, Spliced, Leasing, Bound
  <1>5. ASSUME NEW t \in Threads, BlockHello(t) PROVE TypeOK'
    BY <1>1, <1>5 DEF BlockHello, At, Goes, shared, banner, Places, Serving, Spliced, Leasing, Bound
  <1>6. ASSUME NEW t \in Threads, AcquirePort(t) PROVE TypeOK'
    <2>1. thread' \in [Threads -> [at : Places, port : Ports \union {NoPort}, skip : SUBSET Ports]] /\ leased' \in SUBSET Ports
      <3>1. CASE FreeFor(t) = {} /\ Goes(t, "unslot") /\ UNCHANGED leased
        BY <1>1, <3>1 DEF Goes, Places, Serving, Spliced
      <3>2. ASSUME NEW p \in FreeFor(t), leased' = leased \union {p},
                   thread' = [thread EXCEPT ![t].at = "lease", ![t].port = p]
            PROVE  thread' \in [Threads -> [at : Places, port : Ports \union {NoPort}, skip : SUBSET Ports]] /\ leased' \in SUBSET Ports
        BY <1>1, <3>2 DEF FreeFor, Places, Serving, Spliced, Leasing
      <3> QED
        BY <1>6, <3>1, <3>2 DEF AcquirePort
    <2> QED
      BY <1>1, <1>6, <2>1 DEF AcquirePort, banner
  <1>7. ASSUME NEW t \in Threads, SocketFails(t) PROVE TypeOK'
    <2>1. thread[t].port \in Ports
      BY <1>1, <1>7 DEF SocketFails, At, Inv, LeasesAreExclusive, In, Leasing
    <2> QED
      BY <1>1, <1>7, <2>1 DEF SocketFails, shared, banner, Places, Serving, Spliced, Fault
  <1>8. ASSUME NEW t \in Threads, Connect(t) PROVE TypeOK'
    <2>1. thread' \in [Threads -> [at : Places, port : Ports \union {NoPort}, skip : SUBSET Ports]]
      <3>1. PICK p \in {"pump", "refused", "failed"} : Goes(t, p)
        BY <1>8 DEF Connect
      <3>2. p \in Places
        BY DEF Places, Serving, Spliced, Leasing, Bound
      <3> QED
        BY <1>1, <3>1, <3>2 DEF Goes
    <2> QED
      BY <1>1, <1>8, <2>1 DEF Connect, shared, banner
  <1>9. ASSUME NEW t \in Threads, CloseSocket(t) PROVE TypeOK'
    BY <1>1, <1>9 DEF CloseSocket, At, Goes, shared, banner, Places, Serving, Spliced, Leasing, Bound
  <1>10. ASSUME NEW t \in Threads, PumpEnds(t) PROVE TypeOK'
    BY <1>1, <1>10 DEF PumpEnds, At, Goes, shared, banner, Places, Serving, Spliced, Leasing, Bound
  <1>11. ASSUME NEW t \in Threads, FreePort(t) PROVE TypeOK'
    BY <1>1, <1>11 DEF FreePort, At, Goes, shared, banner, Places, Serving, Spliced, Leasing, Bound
  <1>12. ASSUME NEW t \in Threads, FirstLook(t) PROVE TypeOK'
    BY <1>1, <1>12 DEF FirstLook, At, Goes, shared, banner, Places, Serving, Spliced, Leasing, Bound
  <1>13. ASSUME NEW t \in Threads, Show(t) PROVE TypeOK'
    <2>1. thread' \in [Threads -> [at : Places, port : Ports \union {NoPort}, skip : SUBSET Ports]]
      BY <1>1, <1>13 DEF Show, Goes, Places, Serving
    <2>2. CASE bannerAt
      BY <1>1, <1>13, <2>1, <2>2 DEF Show, shared, banner
    <2>3. CASE ~bannerAt
      BY <1>1, <1>13, <2>1, <2>3 DEF Show, shared
    <2> QED
      BY <2>2, <2>3
  <1>14. ASSUME NEW t \in Threads, Accept(t) PROVE TypeOK'
    BY <1>1, <1>14 DEF Accept, At, Goes, shared, banner, Places, Serving, Spliced, Leasing, Bound
  <1>15. ASSUME NEW t \in Threads, ThreadFails(t) PROVE TypeOK'
    BY <1>1, <1>15 DEF ThreadFails, At, Goes, shared, banner, Places, Serving, Spliced, Leasing, Bound, Idle, Fault
  <1>16. ASSUME NEW t \in Threads, ClaimSplice(t) PROVE TypeOK'
    BY <1>1, <1>16 DEF ClaimSplice, At, Goes, shared, banner, Places, Serving, Spliced, Leasing, Bound
  <1>17. ASSUME NEW t \in Threads, ReleaseSplice(t) PROVE TypeOK'
    BY <1>1, <1>17 DEF ReleaseSplice, At, Goes, shared, banner, Places, Serving, Spliced, Leasing, Bound
  <1>18. ASSUME NEW t \in Threads, Close(t) PROVE TypeOK'
    BY <1>1, <1>18 DEF Close, At, Goes, shared, banner, Places, Serving, Spliced, Leasing, Bound, Idle
  <1> QED
    BY <1>2, <1>3, <1>4, <1>5, <1>6, <1>7, <1>8, <1>9, <1>10, <1>11, <1>12, <1>13, <1>14, <1>15, <1>16, <1>17, <1>18 DEF Next, Runs

\* A lease has one owner and ends by being given back.
LEMMA LeasesNext ==
  ASSUME Inv, [Next]_vars
  PROVE  LeasesAreExclusive' /\ LeasesAreReturned' /\ LeakedAreLost'
  <1> DEFINE Goal == LeasesAreExclusive' /\ LeasesAreReturned' /\ LeakedAreLost'
  <1> USE DEF Inv, LeasesAreExclusive, LeasesAreReturned, LeakedAreLost, In
  <1>1. CASE Quiet
    BY <1>1 DEF Quiet
  <1>2. ASSUME NEW t \in Threads, AcquirePort(t) PROVE Goal
    <2>1. CASE FreeFor(t) = {} /\ Goes(t, "unslot") /\ UNCHANGED leased
      BY <1>2, <2>1 DEF AcquirePort, TypeOK, At, Goes, Leasing, Bound
    <2>2. ASSUME NEW p \in FreeFor(t), leased' = leased \union {p},
                 thread' = [thread EXCEPT ![t].at = "lease", ![t].port = p]
          PROVE  Goal
      <3>1. /\ p \notin leased /\ leaked' = leaked
            /\ Moves(t) /\ thread'[t].at = "lease" /\ thread'[t].port = p
            /\ thread[t].at = "acquire"
        <4>1. p \notin leased /\ leaked' = leaked /\ thread[t].at = "acquire"
          BY <1>2, <2>2 DEF AcquirePort, FreeFor, At
        <4> QED
          BY <4>1, <2>2 DEF TypeOK, Moves
      <3>2. In(Leasing)' = In(Leasing) \union {t} /\ t \notin In(Leasing)
        BY <3>1 DEF Moves, Leasing, Bound
      <3>3. \A u \in In(Leasing) : thread'[u].port = thread[u].port
        BY <3>1, <3>2 DEF Moves
      <3>4. {thread'[u].port : u \in In(Leasing)'} = {thread[u].port : u \in In(Leasing)} \union {p}
        BY <3>1, <3>2, <3>3
      <3>5. LeasesAreReturned'
        BY <2>2, <3>1, <3>4
      <3>6. \A u \in In(Leasing)' : u # t => u \in In(Leasing) /\ thread[u].port \in leased \ leaked
        BY <3>2
      <3>7. LeakedAreLost'
        <4>1. p \notin leaked
          BY <3>1
        <4> QED
          BY <3>1, <3>3, <3>6, <4>1
      <3>8. LeasesAreExclusive'
        <4>1. \A u \in In(Leasing)' : thread'[u].port \in leased'
          <5>1. p \in leased' /\ leased \subseteq leased'
            BY <2>2
          <5> QED
            BY <3>1, <3>3, <3>6, <5>1
        <4>2. \A u \in In(Leasing)' : thread'[u].port = p => u = t
          BY <3>1, <3>3, <3>6
        <4>3. \A u, v \in In(Leasing) : thread'[u].port = thread'[v].port => u = v
          BY <3>3
        <4> QED
          BY <3>1, <3>2, <4>1, <4>2, <4>3
      <3> QED
        BY <3>5, <3>7, <3>8
    <2> QED
      BY <1>2, <2>1, <2>2 DEF AcquirePort
  <1>3. ASSUME NEW t \in Threads, SocketFails(t) PROVE Goal
    <2>1. /\ Moves(t) /\ thread[t].at \in Leasing /\ thread'[t].at \notin Leasing
          /\ leased' = leased /\ leaked' = leaked \union {thread[t].port}
      BY <1>3 DEF SocketFails, shared, TypeOK, At, Moves, Leasing, Bound
    <2>2. In(Leasing)' = In(Leasing) \ {t} /\ t \in In(Leasing)
      BY <2>1 DEF Moves
    <2>3. \A u \in In(Leasing)' : thread'[u].port = thread[u].port
      BY <2>1, <2>2 DEF Moves
    <2>4. LeasesAreReturned'
      BY <2>1, <2>2, <2>3
    <2> QED
      BY <2>1, <2>2, <2>3, <2>4
  <1>4. ASSUME NEW t \in Threads, FreePort(t) PROVE Goal
    <2>1. /\ Moves(t) /\ thread[t].at \in Leasing /\ thread'[t].at \notin Leasing
          /\ leased' = leased \ {thread[t].port} /\ leaked' = leaked
      BY <1>4 DEF FreePort, TypeOK, At, Moves, Leasing, Bound
    <2>2. In(Leasing)' = In(Leasing) \ {t} /\ t \in In(Leasing)
      BY <2>1 DEF Moves
    <2>3. \A u \in In(Leasing)' : thread'[u].port = thread[u].port
      BY <2>1, <2>2 DEF Moves
    <2>4. LeasesAreReturned'
      BY <2>1, <2>2, <2>3
    <2> QED
      BY <2>1, <2>2, <2>3, <2>4
  <1>5. ASSUME NEW t \in Threads,
               \/ AnswerPage(t) \/ BlockHello(t) \/ ClaimSplice(t) \/ Connect(t) \/ CloseSocket(t)
               \/ ReleaseSplice(t) \/ FirstLook(t) \/ Show(t) \/ Close(t) \/ Accept(t)
               \/ PumpEnds(t) \/ ThreadFails(t)
        PROVE  Goal
    <2>1. Moves(t) /\ UNCHANGED <<leased, leaked>>
      BY <1>5, OneMoves DEF Runs, shared, AnswerPage, BlockHello, ClaimSplice, Connect, CloseSocket,
        ReleaseSplice, FirstLook, Show, Close, Accept, PumpEnds, ThreadFails
    <2>2. \/ thread[t].at \notin Leasing /\ thread'[t].at \notin Leasing
          \/ thread[t].at \in Leasing /\ thread'[t].at \in Leasing /\ thread'[t].port = thread[t].port
      BY <1>5 DEF TypeOK, Leasing, Bound, Idle, At, Goes, AnswerPage, BlockHello, ClaimSplice,
        Connect, CloseSocket, ReleaseSplice, FirstLook, Show, Close, Accept, PumpEnds, ThreadFails
    <2>3. In(Leasing)' = In(Leasing)
      BY <2>1, <2>2 DEF Moves
    <2>4. \A u \in In(Leasing) : thread'[u].port = thread[u].port
      BY <2>1, <2>2 DEF Moves
    <2>5. LeasesAreReturned'
      BY <2>1, <2>3, <2>4
    <2> QED
      BY <2>1, <2>3, <2>4, <2>5
  <1> QED
    BY Steps, <1>1, <1>2, <1>3, <1>4, <1>5 DEF Runs

\* A banner is shown only while no debounce runs, and starts one.
LEMMA BannersNext ==
  ASSUME Inv, [Next]_vars
  PROVE  DebounceInv'
  <1> USE DEF Inv, DebounceInv, OneBanner
  <1>1. ASSUME NEW t \in Threads, Show(t) PROVE DebounceInv'
    BY <1>1 DEF Show, banner, TypeOK
  <1>2. CASE Restart \/ DebounceEnds
    BY <1>2 DEF Restart, DebounceEnds
  <1>3. CASE UNCHANGED banner
    BY <1>3 DEF banner
  <1>4. ASSUME NEW t \in Threads,
               \/ AnswerPage(t) \/ BlockHello(t) \/ ClaimSplice(t) \/ AcquirePort(t) \/ Connect(t)
               \/ CloseSocket(t) \/ FreePort(t) \/ ReleaseSplice(t) \/ FirstLook(t) \/ Close(t)
               \/ Accept(t) \/ PumpEnds(t) \/ ThreadFails(t) \/ SocketFails(t)
        PROVE  UNCHANGED banner
    BY <1>4 DEF AnswerPage, BlockHello, ClaimSplice, AcquirePort, Connect, CloseSocket, FreePort,
      ReleaseSplice, FirstLook, Close, Accept, PumpEnds, ThreadFails, SocketFails
  <1>5. CASE UNCHANGED vars
    BY <1>5, <1>3 DEF vars
  <1> QED
    BY <1>1, <1>2, <1>3, <1>4, <1>5 DEF Next, Runs
-----------------------------------------------------------------------------
\* The invariant holds from the start and after every step.
THEOREM FeedbackSafe == Spec => []Inv
  <1>1. Init => Inv
    <2> SUFFICES ASSUME Init PROVE Inv
      OBVIOUS
    <2>1. TypeOK
      <3>1. Idle \in [at : Places, port : Ports \union {NoPort}, skip : SUBSET Ports]
        BY DEF Idle, Places
      <3>2. thread \in [Threads -> [at : Places, port : Ports \union {NoPort}, skip : SUBSET Ports]]
        BY <3>1 DEF Init
      <3> QED
        <4>1. passThrough \in BOOLEAN /\ bannerAt \in BOOLEAN
          BY Zenon DEF Init
        <4>2. conns \in 0..MaxConns /\ splices \in 0..MaxSplices /\ faults \in 0..MaxFaults
          BY FeedbackAssumption DEF Init
        <4> QED
          BY <3>2, <4>1, <4>2 DEF Init, TypeOK
    <2>2. In(Serving) = {} /\ In(Spliced) = {} /\ In(Leasing) = {}
      BY DEF Init, Idle, In, Serving, Spliced, Leasing, Bound
    <2>3. SlotsAreHeld
      BY <2>2, FS_EmptySet DEF Init, SlotsAreHeld
    <2> QED
      BY <2>1, <2>2, <2>3 DEF Init, Inv, LeasesAreExclusive, LeasesAreReturned, LeakedAreLost,
        DebounceInv, OneBanner
  <1>2. Inv /\ [Next]_vars => Inv'
    BY SlotsNext, TypeNext, LeasesNext, BannersNext DEF Inv
  <1> QED
    BY <1>1, <1>2, PTL DEF Spec

\* No count passes its cap, on any path of any thread (_claim_conn, _claim_splice).
THEOREM FeedbackTypeCorrect == Spec => []TypeOK
  <1>1. Inv => TypeOK
    BY DEF Inv
  <1> QED
    BY <1>1, FeedbackSafe, PTL

\* The counts are what the live threads hold (_release_conn, _release_splice).
THEOREM Slots == Spec => []SlotsAreHeld
  <1>1. Inv => SlotsAreHeld
    BY DEF Inv
  <1> QED
    BY <1>1, FeedbackSafe, PTL

\* A port in use is leased, to one splice, until its socket is closed, and a
\* lease that ended was given back unless socket() raised (_acquire_port,
\* _open_splice, _free_port).
THEOREM Leases == Spec => []LeasesAreExact
  <1>1. Inv => LeasesAreExact
    BY DEF Inv, LeasesAreExact
  <1> QED
    BY <1>1, FeedbackSafe, PTL

\* One banner per entry and debounce, however many threads saw it (_fire).
THEOREM Banners == Spec => []OneBanner
  <1>1. Inv => OneBanner
    BY DEF Inv, DebounceInv
  <1> QED
    BY <1>1, FeedbackSafe, PTL
=============================================================================
