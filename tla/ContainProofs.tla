---------------------------- MODULE ContainProofs ----------------------------
(***************************************************************************)
(* Containment for every set of names, addresses and bounds: its types,    *)
(* that a failed batch of rules leaves nothing unrecorded, that a released *)
(* window is left alone, that a release can be pruned, that nothing left   *)
(* to do means nothing left out, and how often a window is offered.        *)
(***************************************************************************)
EXTENDS Contain, TLAPS, FiniteSetTheorems

(* The steps that are about the rules; every other one leaves them alone.  *)
RulesQuiet == UNCHANGED rules /\ faults' \in {faults, faults + 1} /\ (faults' # faults => Fault)

(* Of all steps, these touch what the rules are kept in.                   *)
LEMMA RulesSteps ==
  ASSUME [Next]_vars
  PROVE  \/ RulesQuiet
         \/ BatchStep \/ Scan \/ ScanFails
         \/ Reload \/ Restart \/ TakeReload \/ HyprlandReloads
  <1> USE DEF rules, RulesQuiet
  <1>1. CASE UNCHANGED vars
    BY <1>1 DEF vars
  <1>2. CASE Listener
    <2>1. CASE BatchStep \/ Scan \/ ScanFails \/ TakeReload
      BY <2>1
    <2>2. CASE Connect \/ TakeClose \/ TakeOpen \/ TakeMove \/ Release \/ Expire
      BY <2>2 DEF Connect, TakeClose, TakeOpen, TakeMove, Release, Expire
    <2>3. ASSUME NEW c \in todo, Look(c) \/ LookFails(c) \/ Skip(c) \/ Stays(c) \/ Move(c) \/ MoveFails(c)
          PROVE  RulesQuiet
      BY <2>3 DEF Look, LookFails, Skip, Stays, Move, MoveFails, Fault
    <2> QED
      BY <1>2, <2>1, <2>2, <2>3 DEF Listener
  <1>3. CASE Others
    <2>1. CASE Reload \/ Restart \/ HyprlandReloads
      BY <2>1
    <2>2. CASE Disconnects
      BY <2>2 DEF Disconnects
    <2>3. ASSUME NEW a \in Addrs,
                 (\E k \in Kinds \ {"other"} : WindowOpens(a, k))
                   \/ WindowCloses(a) \/ PersonDrags(a) \/ PersonReleases(a) \/ DeadlinePasses(a)
          PROVE  RulesQuiet
      BY <2>3 DEF WindowOpens, WindowCloses, PersonDrags, PersonReleases, DeadlinePasses
    <2> QED
      BY <1>3, <2>1, <2>2, <2>3 DEF Others
  <1> QED
    BY <1>1, <1>2, <1>3 DEF Next

(* A batch that goes on, or that starts to undo, is a batch.               *)
LEMMA BatchGoesOn ==
  ASSUME NEW b \in Batches, NEW p \in {"none", "set", "undo", "drop", "specs", "done"},
         NEW t \in SUBSET Names, NEW m \in SUBSET Names
  PROVE  /\ [b EXCEPT !.at = p] \in Batches
         /\ [b EXCEPT !.todo = t] \in Batches
         /\ [b EXCEPT !.todo = t, !.made = m] \in Batches
         /\ [b EXCEPT !.at = p, !.todo = t, !.made = m] \in Batches
         /\ [b EXCEPT !.at = p, !.todo = t, !.ok = FALSE] \in Batches
         /\ [at |-> p, todo |-> t, made |-> m, ok |-> TRUE] \in Batches
  BY DEF Batches

(* The sets of names that a batch is given are sets of names.              *)
LEMMA BatchSets ==
  ASSUME RulesTypeOK
  PROVE  /\ batch.todo \in SUBSET Names /\ batch.made \in SUBSET Names
         /\ Wanted \in SUBSET Names /\ registry \in SUBSET Names
  BY DEF RulesTypeOK, Batches, Wanted

(* The types hold of the rules at every step.                              *)
LEMMA RulesTyped ==
  ASSUME RulesTypeOK, [Next]_vars
  PROVE  RulesTypeOK'
  <1>b. batch \in Batches
    BY DEF RulesTypeOK
  <1>f. Fault => faults' \in 0..MaxFaults
    BY RulesAssumption DEF RulesTypeOK, Fault
  <1>a. RulesTypeOK => entries \in [Names -> Classes] /\ live \in [Names -> Classes] /\ specs \in [Names -> Classes] /\ 0 \in Classes
    BY RulesAssumption DEF RulesTypeOK, Classes
  <1>l. ASSUME NEW n \in Names, NEW c \in Classes PROVE [live EXCEPT ![n] = c] \in [Names -> Classes]
    BY <1>a
  <1>0. CASE RulesQuiet
    BY <1>0, <1>f DEF RulesQuiet, rules, RulesTypeOK
  <1>1. ASSUME NEW n \in Names, SetRule(n) \/ UndoRule(n) \/ DropRule(n)
        PROVE  RulesTypeOK'
    <2>1. live' \in [Names -> Classes]
      BY <1>1, <1>a, <1>l DEF SetRule, UndoRule, DropRule
    <2>2. batch' \in Batches
      <3>1. batch.todo \ {n} \in SUBSET Names /\ batch.made \union {n} \in SUBSET Names
        BY BatchSets
      <3>2. /\ [batch EXCEPT !.todo = batch.todo \ {n}] \in Batches
            /\ [batch EXCEPT !.todo = batch.todo \ {n}, !.made = batch.made \union {n}] \in Batches
        BY <1>b, <3>1 DEF Batches
      <3> QED
        BY <1>1, <3>2, Zenon DEF SetRule, UndoRule, DropRule
    <2> QED
      BY <1>1, <2>1, <2>2 DEF SetRule, UndoRule, DropRule, RulesTypeOK
  <1>2. ASSUME NEW n \in Names, SetFails(n) \/ UndoFails(n) \/ DropFails(n)
        PROVE  RulesTypeOK'
    <2>1. live' \in [Names -> Classes]
      <3>1. PICK c : c \in {live[n], 0, entries[n], specs[n]} /\ live' = [live EXCEPT ![n] = c]
        BY <1>2 DEF SetFails, UndoFails, DropFails
      <3>2. c \in Classes
        BY <3>1, <1>a
      <3> QED
        BY <3>1, <3>2, <1>l
    <2>2. batch' \in Batches
      <3>1. batch.todo \ {n} \in SUBSET Names /\ batch.made \union {n} \in SUBSET Names
        BY BatchSets
      <3>2. CASE SetFails(n)
        <4>1. [batch EXCEPT !.at = "undo", !.todo = batch.made \union {n}, !.ok = FALSE] \in Batches
          BY <1>b, <3>1, BatchGoesOn
        <4> QED
          BY <3>2, <4>1, Zenon DEF SetFails, Undone
      <3>3. CASE UndoFails(n) \/ DropFails(n)
        <4>1. /\ [batch EXCEPT !.todo = batch.todo \ {n}] \in Batches
              /\ [batch EXCEPT !.todo = batch.todo \ {n}, !.made = batch.made \union {n}] \in Batches
          BY <1>b, <3>1 DEF Batches
        <4> QED
          BY <3>3, <4>1, Zenon DEF UndoFails, DropFails
      <3> QED
        BY <1>2, <3>2, <3>3
    <2> QED
      BY <1>2, <1>f, <2>1, <2>2 DEF SetFails, UndoFails, DropFails, RulesTypeOK
  <1>3. CASE BeginDrop \/ EndUndo
    <2>1. batch' \in Batches
      <3>1. registry \ Wanted \in SUBSET Names /\ {} \in SUBSET Names
        BY BatchSets
      <3>2. CASE BeginDrop
        BY <3>2, <1>b, <3>1, BatchGoesOn DEF BeginDrop
      <3>3. CASE EndUndo
        BY <3>3, <1>b, <3>1, BatchGoesOn DEF EndUndo
      <3> QED
        BY <1>3, <3>2, <3>3
    <2> QED
      BY <1>3, <2>1 DEF BeginDrop, EndUndo, RulesTypeOK
  <1>4. CASE WriteNames \/ WriteSpecs
    <2>1. batch' \in Batches
      BY <1>4, <1>b, BatchGoesOn DEF WriteNames, WriteSpecs
    <2>2. registry' \in SUBSET Names /\ specs' \in [Names -> Classes]
      BY <1>4, <1>a, BatchSets DEF WriteNames, WriteSpecs
    <2> QED
      BY <1>4, <2>1, <2>2 DEF WriteNames, WriteSpecs, RulesTypeOK
  <1>5. CASE Scan \/ ScanFails
    <2>1. batch' \in Batches
      BY <1>5, <1>b, BatchGoesOn DEF Scan, ScanFails
    <2> QED
      BY <1>5, <1>f, <2>1 DEF Scan, ScanFails, RulesTypeOK
  <1>6. CASE Reload \/ TakeReload \/ Restart
    <2>1. batch' \in Batches
      <3>1. {n \in Names : entries'[n] # 0} \in SUBSET Names /\ {} \in SUBSET Names
        OBVIOUS
      <3>2. BeginBatch => batch' \in Batches
        BY <3>1 DEF BeginBatch, Batches
      <3> QED
        BY <1>6, <3>2 DEF Reload, TakeReload, Restart, Enforce
    <2>2. entries' \in [Names -> Classes]
      BY <1>6, <1>a DEF Reload, TakeReload, Restart, Enforce
    <2> QED
      BY <1>6, <2>1, <2>2 DEF Reload, TakeReload, Restart, BatchCutOff, RulesTypeOK
  <1>7. CASE HyprlandReloads
    BY <1>7, <1>a DEF HyprlandReloads, RulesTypeOK
  <1> QED
    BY RulesSteps, <1>0, <1>1, <1>2, <1>3, <1>4, <1>5, <1>6, <1>7 DEF BatchStep

-----------------------------------------------------------------------------
(* What a batch knows, step by step.  Steps that leave the rules alone, or *)
(* drop all of them in the compositor, cost it nothing.                    *)
LEMMA BatchInvNext ==
  ASSUME RulesTypeOK, BatchInv, [Next]_vars
  PROVE  BatchInv'
  <1> SUFFICES ASSUME ~astray'
               PROVE  BatchInv'
    BY DEF BatchInv
  <1>b. batch \in Batches
    BY DEF RulesTypeOK
  <1>w. UNCHANGED entries => Wanted' = Wanted
    BY DEF Wanted
  <1>n. Wanted \subseteq Names
    BY DEF Wanted
  <1>0. CASE RulesQuiet
    BY <1>0, Zenon DEF RulesQuiet, rules, BatchInv, Named, Given, Leftover, Wanted
  <1>1. ASSUME NEW n \in Names, SetRule(n)
        PROVE  BatchInv'
    <2>1. /\ ~astray /\ batch'.at = "set" /\ batch'.todo = batch.todo \ {n}
          /\ batch'.made = batch.made \union {n} /\ batch.at = "set" /\ n \in batch.todo
      BY <1>1, <1>b DEF SetRule, Batches
    <2>2. live'[n] = entries[n] /\ \A m \in Names \ {n} : live'[m] = live[m]
      BY <1>1 DEF SetRule, RulesTypeOK
    <2> QED
      BY <1>1, <1>n, <1>w, <2>1, <2>2 DEF SetRule, BatchInv, Named, Given
  <1>2. ASSUME NEW n \in Names, SetFails(n)
        PROVE  BatchInv'
    <2>1. /\ ~astray /\ batch'.at = "undo" /\ batch'.todo = batch.made \union {n}
          /\ batch.at = "set"
      BY <1>2, <1>b DEF SetFails, Undone, Batches
    <2>2. \A m \in Names \ {n} : live'[m] = live[m]
      BY <1>2 DEF SetFails, RulesTypeOK
    <2> QED
      BY <1>2, <2>1, <2>2 DEF SetFails, BatchInv, Named
  <1>3. ASSUME NEW n \in Names, UndoRule(n)
        PROVE  BatchInv'
    <2>1. /\ ~astray /\ batch'.at = "undo" /\ batch'.todo = batch.todo \ {n}
          /\ batch.at = "undo"
      BY <1>3, <1>b DEF UndoRule, Batches
    <2>2. live'[n] = specs[n] /\ \A m \in Names \ {n} : live'[m] = live[m]
      BY <1>3 DEF UndoRule, RulesTypeOK
    <2> QED
      BY <1>3, <2>1, <2>2 DEF UndoRule, BatchInv, Named
  <1>4. ASSUME NEW n \in Names, UndoFails(n)
        PROVE  BatchInv'
    BY <1>4 DEF UndoFails
  <1>5. CASE BeginDrop
    <2>1. /\ ~astray /\ batch'.at = "drop" /\ batch'.todo = registry \ Wanted
          /\ batch'.made = {} /\ batch.at = "set" /\ batch.todo = {}
      BY <1>5, <1>b DEF BeginDrop, Batches
    <2>2. batch.made = Wanted /\ (\A m \in Names : specs[m] # 0 => m \in registry)
          /\ (\A m \in Wanted : Given(m)) /\ (\A m \in Names \ Wanted : Named(m))
      BY <2>1 DEF BatchInv
    <2>3. Leftover(registry \ Wanted)
      BY <2>2 DEF Leftover, Named
    <2> QED
      BY <1>5, <1>w, <2>1, <2>2, <2>3 DEF BeginDrop, BatchInv, Given, Leftover
  <1>6. ASSUME NEW n \in Names, DropRule(n)
        PROVE  BatchInv'
    <2>1. /\ ~astray /\ batch'.at = "drop" /\ batch'.todo = batch.todo \ {n}
          /\ batch'.made = batch.made /\ batch.at = "drop" /\ n \in batch.todo
      BY <1>6, <1>b DEF DropRule, Batches
    <2>2. live'[n] = 0 /\ \A m \in Names \ {n} : live'[m] = live[m]
      BY <1>6 DEF DropRule, RulesTypeOK
    <2> QED
      BY <1>6, <1>n, <1>w, <2>1, <2>2 DEF DropRule, BatchInv, Given, Leftover
  <1>7. ASSUME NEW n \in Names, DropFails(n)
        PROVE  BatchInv'
    <2>1. /\ ~astray /\ batch'.at = "drop" /\ batch'.todo = batch.todo \ {n}
          /\ batch'.made = batch.made \union {n} /\ batch.at = "drop" /\ n \in batch.todo
      BY <1>7, <1>b DEF DropFails, Batches
    <2>2. live'[n] \in {live[n], 0} /\ \A m \in Names \ {n} : live'[m] = live[m]
      BY <1>7 DEF DropFails, RulesTypeOK
    <2> QED
      BY <1>7, <1>n, <1>w, <2>1, <2>2 DEF DropFails, BatchInv, Given, Leftover
  <1>8. CASE WriteNames
    <2>1. /\ ~astray /\ batch'.at = "specs" /\ batch'.made = batch.made
          /\ batch.at = "drop" /\ batch.todo = {}
      BY <1>8, <1>b DEF WriteNames, Batches
    <2> QED
      BY <1>8, <1>w, <2>1 DEF WriteNames, BatchInv, Given, Leftover
  <1>9. CASE WriteSpecs
    <2>1. ~astray /\ batch'.at = "done" /\ batch.at = "specs"
      BY <1>9, <1>b DEF WriteSpecs, Batches
    <2>2. /\ registry = Wanted \union batch.made
          /\ \A m \in Wanted : Given(m)
          /\ Leftover(batch.made)
      BY <2>1 DEF BatchInv
    <2>3. ASSUME NEW m \in Names
          PROVE  (specs'[m] # 0 => m \in registry) /\ Named(m)'
      BY <1>9, <2>2, <2>3 DEF WriteSpecs, Named, Given, Leftover
    <2> QED
      BY <1>9, <2>1, <2>3 DEF WriteSpecs, BatchInv
  <1>10. CASE EndUndo \/ Scan \/ ScanFails
    <2>1. /\ ~astray /\ batch'.at \in {"none", "done"}
          /\ batch.at = "done" \/ (batch.at = "undo" /\ batch.todo = {})
      <3>1. CASE EndUndo
        BY <3>1, <1>b DEF EndUndo, Batches
      <3>2. CASE Scan
        BY <3>2, <1>b DEF Scan, Batches
      <3>3. CASE ScanFails
        BY <3>3, <1>b DEF ScanFails, Batches
      <3> QED
        BY <1>10, <3>1, <3>2, <3>3
    <2>2. /\ \A m \in Names : specs[m] # 0 => m \in registry
          /\ \A m \in Names : Named(m)
      BY <2>1 DEF BatchInv
    <2> QED
      BY <1>10, <2>1, <2>2 DEF EndUndo, Scan, ScanFails, BatchInv, Named
  <1>11. CASE Reload \/ Restart \/ TakeReload
    <2>1. /\ ~astray /\ batch.at \in {"none", "done"}
          /\ BeginBatch /\ UNCHANGED <<live, registry, specs>>
      <3>1. CASE Reload \/ TakeReload
        BY <3>1 DEF Reload, TakeReload, Take, Enforce, Idle
      <3>2. CASE Restart
        BY <3>2 DEF Restart, Enforce, BatchCutOff
      <3> QED
        BY <1>11, <3>1, <3>2
    <2>2. /\ batch'.at = "set" /\ batch'.made = {}
          /\ batch'.todo = Wanted'
      BY <2>1 DEF BeginBatch, Wanted
    <2> QED
      BY <2>1, <2>2 DEF BatchInv, Named
  <1>12. CASE HyprlandReloads
    <2>1. UNCHANGED <<entries, registry, specs, batch, astray>> /\ \A m \in Names : live'[m] = 0
      BY <1>12 DEF HyprlandReloads
    <2> QED
      BY <1>n, <1>w, <2>1, BatchSets DEF BatchInv, Named, Given, Leftover
  <1> QED
    BY RulesSteps, <1>0, <1>1, <1>2, <1>3, <1>4, <1>5, <1>6, <1>7, <1>8, <1>9, <1>10, <1>11, <1>12
    DEF BatchStep

-----------------------------------------------------------------------------
(* An address is a window's, never the absence of one.                     *)
LEMMA AddrsAreSome == \A a \in Addrs : a # NoWindow
  BY NoWindowAssumption

(* A line that is written is the last one, or is missed.                   *)
LEMMA TellLines ==
  ASSUME WindowsTypeOK, NEW of \in Happenings, NEW a \in Addrs \union {NoWindow},
         NEW k \in Kinds, Tell(of, a, k), of = "reload" <=> a = NoWindow
  PROVE  /\ events' \in Seq(Line)
         /\ missed' \in SUBSET [of : Happenings, a : Addrs \union {NoWindow}]
         /\ missed \subseteq missed'
         /\ Len(events) <= Len(events')
         /\ \A i \in DOMAIN events : i \in DOMAIN events' /\ events'[i] = events[i]
         /\ \A i \in DOMAIN events' : i \in DOMAIN events \/ (events'[i].of = of /\ events'[i].a = a)
         /\ \/ \E i \in DOMAIN events' : events'[i].of = of /\ events'[i].a = a
            \/ [of |-> of, a |-> a] \in missed'
  <1> DEFINE line == [of |-> of, a |-> a, kind |-> k]
  <1>1. line \in Line
    BY NoWindowAssumption DEF Line
  <1>2. CASE socket
    <2>1. events' = Append(events, line) /\ missed' = missed /\ events \in Seq(Line)
      BY <1>2 DEF Tell, WindowsTypeOK
    <2>2. /\ events' \in Seq(Line) /\ Len(events') = Len(events) + 1 /\ Len(events) \in Nat
          /\ DOMAIN events = 1..Len(events) /\ DOMAIN events' = 1..Len(events')
          /\ events'[Len(events) + 1] = line
          /\ \A i \in 1..Len(events) : events'[i] = events[i]
      BY <1>1, <2>1
    <2>3. line.of = of /\ line.a = a
      OBVIOUS
    <2> QED
      BY <2>1, <2>2, <2>3 DEF WindowsTypeOK
  <1>3. CASE ~socket
    BY <1>3 DEF Tell, WindowsTypeOK
  <1> QED
    BY <1>2, <1>3

(* The line that is taken is the first one.                                *)
LEMMA TakeLines ==
  ASSUME WindowsTypeOK, NEW of, Take(of)
  PROVE  /\ events' \in Seq(Line)
         /\ Len(events) \in Nat \ {0} /\ Len(events') = Len(events) - 1
         /\ Head(events) \in Line /\ Head(events) = events[1] /\ Head(events).of = of
         /\ DOMAIN events = 1..Len(events) /\ DOMAIN events' = 1..Len(events')
         /\ \A i \in DOMAIN events' : events'[i] = events[i + 1]
         /\ ask'.a = ask.a /\ ask'.id = ask.id
  <1>1. events \in Seq(Line) /\ events # <<>> /\ events' = Tail(events) /\ Head(events).of = of
    BY DEF Take, WindowsTypeOK
  <1>2. /\ Len(events) \in Nat \ {0} /\ Len(events') = Len(events) - 1 /\ events' \in Seq(Line)
        /\ DOMAIN events = 1..Len(events) /\ DOMAIN events' = 1..Len(events')
        /\ \A i \in DOMAIN events' : events'[i] = events[i + 1]
        /\ Head(events) = events[1] /\ events[1] \in Line
    BY <1>1
  <1>3. ask'.a = ask.a /\ ask'.id = ask.id
    BY DEF Take
  <1> QED
    BY <1>1, <1>2, <1>3

(* What a window is after one of its two marks was changed.                *)
LEMMA Marked ==
  ASSUME NEW w \in Win, NEW b \in BOOLEAN
  PROVE  /\ [w EXCEPT !.on = b] \in Win /\ [w EXCEPT !.exempt = b] \in Win
         /\ [w EXCEPT !.on = b].id = w.id /\ [w EXCEPT !.on = b].exempt = w.exempt
         /\ [w EXCEPT !.exempt = b].id = w.id /\ [w EXCEPT !.exempt = b].exempt = b
         /\ [w EXCEPT !.exempt = b].on = w.on
  BY DEF Win

(* Every step that a window can notice, and what the loop is doing beside. *)
LEMMA Steps ==
  ASSUME [Next]_vars
  PROVE  \/ UNCHANGED cvars
         \/ Scan \/ ScanFails \/ Connect \/ Reload \/ Restart
         \/ TakeReload \/ TakeClose \/ TakeOpen \/ TakeMove
         \/ Release \/ Expire
         \/ \E c \in todo : Look(c) \/ LookFails(c) \/ Skip(c) \/ Stays(c) \/ Move(c) \/ MoveFails(c)
         \/ HyprlandReloads \/ Disconnects
         \/ \E a \in Addrs :
              \/ \E k \in Kinds \ {"other"} : WindowOpens(a, k)
              \/ WindowCloses(a) \/ PersonDrags(a) \/ PersonReleases(a) \/ DeadlinePasses(a)
  BY DEF Next, Listener, Others, vars

(* The compositor's windows and the lines about them keep their type.      *)
LEMMA WindowsTyped ==
  ASSUME TypeOK, [Next]_vars
  PROVE  WindowsTypeOK'
  <1>t. /\ window \in [Addrs -> Win \union {NoWindow}]
        /\ opens \in 0..MaxOpens
        /\ events \in Seq(Line) /\ <<>> \in Seq(Line)
        /\ missed \in SUBSET [of : Happenings, a : Addrs \union {NoWindow}]
        /\ WindowsTypeOK
    BY DEF TypeOK, WindowsTypeOK
  <1>o. \A a \in Addrs : Open(a) => window[a] \in Win
    BY <1>t DEF Open
  <1>k. \A a \in Addrs : Open(a) => window[a].kind \in Kinds
    BY <1>o DEF Win
  <1>0. CASE UNCHANGED windows
    BY <1>0 DEF windows, TypeOK, WindowsTypeOK
  <1>1. CASE Scan
    BY <1>1 DEF Scan, TypeOK, WindowsTypeOK
  <1>2. CASE Restart
    <2>1. \A a \in Addrs : Open(a) => [window[a] EXCEPT !.exempt = FALSE] \in Win
      BY <1>o, Marked
    <2>2. window' \in [Addrs -> Win \union {NoWindow}]
      BY <1>2, <2>1 DEF Restart
    <2> QED
      BY <1>2, <1>t, <2>2 DEF Restart, WindowsTypeOK
  <1>3. CASE TakeReload \/ TakeClose \/ TakeOpen \/ TakeMove
    <2>1. events' \in Seq(Line)
      BY <1>3, <1>t, TakeLines DEF TakeReload, TakeClose, TakeOpen, TakeMove
    <2> QED
      BY <1>3, <1>t, <2>1 DEF TakeReload, TakeClose, TakeOpen, TakeMove, WindowsTypeOK
  <1>4. CASE Release
    <2> DEFINE granted == [window EXCEPT ![ask.a] = [window[ask.a] EXCEPT !.exempt = TRUE]]
    <2>1. window' = window \/ (window' = granted /\ Open(ask.a))
      BY <1>4 DEF Release, IdAt
    <2>2. window' \in [Addrs -> Win \union {NoWindow}]
      <3>1. CASE ask.a \in Addrs /\ Open(ask.a)
        <4>1. [window[ask.a] EXCEPT !.exempt = TRUE] \in Win
          BY <3>1, <1>o, Marked
        <4> QED
          BY <2>1, <4>1, <1>t
      <3>2. CASE ask.a \notin Addrs
        <4>1. granted = window
          BY <3>2, <1>t
        <4> QED
          BY <2>1, <4>1, <1>t
      <3> QED
        BY <2>1, <3>1, <3>2, <1>t
    <2> QED
      BY <1>4, <1>t, <2>2 DEF Release, WindowsTypeOK
  <1>5. ASSUME NEW c \in todo, Move(c)
        PROVE  WindowsTypeOK'
    <2>1. CASE Open(c.a) /\ ~window[c.a].on
      <3>1. c.a \in Addrs
        BY DEF TypeOK, LoopTypeOK, Found
      <3>2. /\ window' = [window EXCEPT ![c.a] = [window[c.a] EXCEPT !.on = TRUE]]
            /\ Tell("move", c.a, window[c.a].kind) /\ opens' = opens
        BY <1>5, <2>1 DEF Move
      <3>3. window' \in [Addrs -> Win \union {NoWindow}]
        BY <2>1, <3>1, <3>2, <1>t, <1>o, Marked
      <3> QED
        BY <2>1, <3>1, <3>2, <3>3, <1>t, <1>k, AddrsAreSome, TellLines DEF WindowsTypeOK, Happenings
    <2>2. CASE ~(Open(c.a) /\ ~window[c.a].on)
      BY <1>5, <2>2, <1>t DEF Move, WindowsTypeOK
    <2> QED
      BY <2>1, <2>2
  <1>6. CASE HyprlandReloads
    <2>1. Tell("reload", NoWindow, "other") /\ UNCHANGED <<window, opens>>
      BY <1>6 DEF HyprlandReloads
    <2> QED
      BY <2>1, <1>t, TellLines DEF WindowsTypeOK, Happenings, Kinds
  <1>7. CASE Disconnects
    <2>1. \A j \in DOMAIN events : events[j].of \in Happenings /\ events[j].a \in Addrs \union {NoWindow}
      <3>1. \A l \in Line : l.of \in Happenings /\ l.a \in Addrs \union {NoWindow}
        BY DEF Line, Happenings
      <3> QED
        BY <3>1, <1>t
    <2>2. missed' \in SUBSET [of : Happenings, a : Addrs \union {NoWindow}]
      BY <1>7, <1>t, <2>1 DEF Disconnects
    <2> QED
      BY <1>7, <1>t, <2>2 DEF Disconnects, WindowsTypeOK
  <1>8. ASSUME NEW a \in Addrs, NEW k \in Kinds \ {"other"}, WindowOpens(a, k)
        PROVE  WindowsTypeOK'
    <2> DEFINE new == [id |-> opens + 1, kind |-> k, exempt |-> FALSE, on |-> k \in Names /\ live[k] # 0]
    <2>1. /\ window' = [window EXCEPT ![a] = new] /\ opens' = opens + 1
          /\ opens < MaxOpens /\ Tell("open", a, k)
      BY <1>8 DEF WindowOpens
    <2>2. MaxOpens \in Nat
      BY ContainAssumption
    <2>3. opens + 1 \in Ids /\ opens' \in 0..MaxOpens
      BY <2>1, <2>2, <1>t DEF Ids
    <2>b. ASSUME NEW b \in BOOLEAN, NEW j \in Ids
          PROVE  [id |-> j, kind |-> k, exempt |-> FALSE, on |-> b] \in Win
      BY DEF Win
    <2>4. (k \in Names /\ live[k] # 0) \in BOOLEAN
      OBVIOUS
    <2>5. new \in Win
      BY <2>3, <2>4, <2>b
    <2>6. window' \in [Addrs -> Win \union {NoWindow}]
      BY <2>1, <2>5, <1>t
    <2> QED
      BY <2>1, <2>3, <2>6, <1>t, AddrsAreSome, TellLines DEF WindowsTypeOK, Happenings
  <1>9. ASSUME NEW a \in Addrs, WindowCloses(a)
        PROVE  WindowsTypeOK'
    <2>1. /\ window' = [window EXCEPT ![a] = NoWindow] /\ opens' = opens
          /\ Open(a) /\ Tell("close", a, window[a].kind)
      BY <1>9 DEF WindowCloses
    <2> QED
      BY <2>1, <1>t, <1>k, AddrsAreSome, TellLines DEF WindowsTypeOK, Happenings
  <1>10. ASSUME NEW a \in Addrs, PersonDrags(a)
         PROVE  WindowsTypeOK'
    <2>1. /\ window' = [window EXCEPT ![a] = [window[a] EXCEPT !.on = ~window[a].on]] /\ opens' = opens
          /\ Open(a) /\ Tell("move", a, window[a].kind)
      BY <1>10 DEF PersonDrags
    <2>2. (~window[a].on) \in BOOLEAN
      OBVIOUS
    <2>3. [window[a] EXCEPT !.on = ~window[a].on] \in Win
      BY <2>1, <2>2, <1>o, Marked
    <2>4. window' \in [Addrs -> Win \union {NoWindow}]
      BY <2>1, <2>3, <1>t
    <2> QED
      BY <2>1, <2>4, <1>t, <1>k, AddrsAreSome, TellLines DEF WindowsTypeOK, Happenings
  <1>11. ASSUME NEW a \in Addrs, DeadlinePasses(a)
         PROVE  WindowsTypeOK'
    <2>1. window' \in [Addrs -> Win \union {NoWindow}]
      BY <1>11, <1>t, <1>o, Marked DEF DeadlinePasses
    <2> QED
      BY <1>11, <2>1, <1>t DEF DeadlinePasses, WindowsTypeOK
  <1>12. ASSUME NEW c \in todo, Look(c) \/ LookFails(c) \/ Skip(c) \/ Stays(c) \/ MoveFails(c)
         PROVE  UNCHANGED windows
    BY <1>12 DEF Look, LookFails, Skip, Stays, MoveFails, windows
  <1>13. ASSUME UNCHANGED cvars \/ ScanFails \/ Connect \/ Reload \/ Expire
         PROVE  UNCHANGED windows
    BY <1>13 DEF cvars, ScanFails, Connect, Reload, Expire
  <1>14. ASSUME NEW a \in Addrs, PersonReleases(a)
         PROVE  UNCHANGED windows
    BY <1>14 DEF PersonReleases
  <1> QED
    BY Steps, <1>0, <1>1, <1>2, <1>3, <1>4, <1>5, <1>6, <1>7, <1>8, <1>9, <1>10, <1>11, <1>12, <1>13, <1>14

(* A request on its way has at most the lines that wait ahead of it.       *)
AskTypeOK ==
  /\ ask \in [a : Addrs \union {NoWindow}, id : Ids \union {0}, ahead : Nat]
  /\ ask.ahead <= Len(events)

(* The request on its way, and that no more lines are ahead of it than wait. *)
LEMMA AskTyped ==
  ASSUME TypeOK, [Next]_vars
  PROVE  AskTypeOK'
  <1>t. AskTypeOK /\ WindowsTypeOK /\ events \in Seq(Line) /\ Len(events) \in Nat
    BY DEF TypeOK, LoopTypeOK, AskTypeOK, WindowsTypeOK
  <1>n. NoAsk \in [a : Addrs \union {NoWindow}, id : Ids \union {0}, ahead : Nat] /\ NoAsk.ahead = 0
    BY DEF NoAsk
  <1>0. ASSUME ask' = ask, Len(events) <= Len(events')
        PROVE  AskTypeOK'
    <2>1. Len(events') \in Nat
      BY WindowsTyped DEF WindowsTypeOK
    <2> QED
      BY <1>0, <1>t, <2>1 DEF AskTypeOK
  <1>1. CASE Restart \/ Release
    <2>1. ask' = NoAsk /\ Len(events') \in Nat
      BY <1>1, WindowsTyped DEF Restart, Release, WindowsTypeOK
    <2> QED
      BY <2>1, <1>n DEF AskTypeOK
  <1>2. ASSUME NEW of, Take(of)
        PROVE  AskTypeOK'
    <2>1. Len(events') = Len(events) - 1 /\ Len(events) \in Nat \ {0}
      BY <1>2, <1>t, TakeLines
    <2>2. ask' = [ask EXCEPT !.ahead = IF ask.ahead = 0 THEN 0 ELSE ask.ahead - 1]
      BY <1>2 DEF Take
    <2>3. ask.ahead \in Nat /\ ask.ahead <= Len(events)
      BY <1>t DEF AskTypeOK
    <2> QED
      BY <2>1, <2>2, <2>3, <1>t DEF AskTypeOK
  <1>3. CASE Disconnects
    <2>1. ask' = [ask EXCEPT !.ahead = 0] /\ Len(events') = 0
      BY <1>3 DEF Disconnects
    <2> QED
      BY <2>1, <1>t DEF AskTypeOK
  <1>4. ASSUME NEW a \in Addrs, PersonReleases(a)
        PROVE  AskTypeOK'
    <2>1. window[a].id \in Ids
      BY <1>4 DEF PersonReleases, Open, TypeOK, WindowsTypeOK, Win
    <2>2. ask' = [a |-> a, id |-> window[a].id, ahead |-> Len(events)] /\ events' = events
      BY <1>4 DEF PersonReleases, windows
    <2> QED
      BY <2>1, <2>2, <1>t DEF AskTypeOK
  <1>5. ASSUME NEW of \in Happenings, NEW a \in Addrs \union {NoWindow}, NEW k \in Kinds,
               Tell(of, a, k), of = "reload" <=> a = NoWindow, ask' = ask
        PROVE  AskTypeOK'
    BY <1>0, <1>5, <1>t, TellLines
  <1>k. \A a \in Addrs : Open(a) => window[a].kind \in Kinds
    BY DEF Open, TypeOK, WindowsTypeOK, Win
  <1>6. ASSUME NEW c \in todo, Move(c)
        PROVE  AskTypeOK'
    <2>1. c.a \in Addrs /\ "move" \in Happenings
      BY DEF TypeOK, LoopTypeOK, Found, Happenings
    <2>2. ask' = ask /\ (events' = events \/ (Open(c.a) /\ Tell("move", c.a, window[c.a].kind)))
      BY <1>6 DEF Move
    <2> QED
      BY <2>1, <2>2, <1>0, <1>5, <1>k, <1>t, AddrsAreSome
  <1>7. CASE HyprlandReloads
    <2>1. "reload" \in Happenings /\ "other" \in Kinds /\ Tell("reload", NoWindow, "other") /\ ask' = ask
      BY <1>7 DEF HyprlandReloads, Happenings, Kinds
    <2> QED
      BY <2>1, <1>5
  <1>8. ASSUME NEW a \in Addrs, NEW k \in Kinds \ {"other"}, WindowOpens(a, k)
        PROVE  AskTypeOK'
    BY <1>8, <1>5, AddrsAreSome DEF WindowOpens, Happenings
  <1>9. ASSUME NEW a \in Addrs, WindowCloses(a) \/ PersonDrags(a)
        PROVE  AskTypeOK'
    BY <1>9, <1>5, <1>k, AddrsAreSome DEF WindowCloses, PersonDrags, Happenings
  <1>10. ASSUME NEW a \in Addrs, DeadlinePasses(a)
         PROVE  AskTypeOK'
    BY <1>10, <1>0, <1>t DEF DeadlinePasses
  <1>11. ASSUME NEW c \in todo, Look(c) \/ LookFails(c) \/ Skip(c) \/ Stays(c) \/ MoveFails(c)
         PROVE  AskTypeOK'
    <2>1. UNCHANGED <<ask, events>>
      BY <1>11 DEF Look, LookFails, Skip, Stays, MoveFails, windows
    <2> QED
      BY <2>1, <1>0, <1>t
  <1>12. CASE UNCHANGED cvars \/ Scan \/ ScanFails \/ Connect \/ Reload \/ Expire
    <2>1. UNCHANGED <<ask, events>>
      BY <1>12 DEF cvars, Scan, ScanFails, Connect, Reload, Expire, windows
    <2> QED
      BY <2>1, <1>0, <1>t
  <1>13. CASE TakeReload \/ TakeClose \/ TakeOpen \/ TakeMove
    BY <1>13, <1>2 DEF TakeReload, TakeClose, TakeOpen, TakeMove
  <1> QED
    BY Steps, <1>1, <1>3, <1>4, <1>6, <1>7, <1>8, <1>9, <1>10, <1>11, <1>12, <1>13

(* What the loop has found keeps its type.                                 *)
LEMMA FoundTyped ==
  ASSUME TypeOK, [Next]_vars
  PROVE  todo' \in SUBSET Found
  <1>t. todo \in SUBSET Found
    BY DEF TypeOK, LoopTypeOK
  <1>w. \A a \in Addrs : Open(a) => window[a].id \in Ids /\ window[a].kind \in Kinds /\ window[a].on \in BOOLEAN
    BY DEF Open, TypeOK, WindowsTypeOK, Win
  <1>s. ASSUME NEW a \in Addrs, Open(a), NEW b1 \in BOOLEAN, NEW b2 \in BOOLEAN
        PROVE  Snapshot(a, b1, b2) \in Found
    <2>1. ASSUME NEW j \in Ids, NEW k \in Kinds, NEW o \in BOOLEAN
          PROVE  [a |-> a, id |-> j, kind |-> k, on |-> o, fresh |-> b1, opened |-> b2] \in Found
      BY DEF Found
    <2> QED
      BY <1>s, <1>w, <2>1 DEF Snapshot
  <1>l. ASSUME NEW a \in Addrs, NEW k \in Kinds, NEW b \in BOOLEAN
        PROVE  LookUp(a, k, b) \in Found
    BY DEF LookUp, Found
  <1>o. "other" \in Kinds
    BY DEF Kinds
  <1>1. CASE Scan
    <2>1. \A a \in {b \in Addrs : Open(b)} : Snapshot(a, TRUE, FALSE) \in Found
      BY <1>s
    <2> QED
      BY <1>1, <2>1 DEF Scan
  <1>2. CASE Restart
    BY <1>2 DEF Restart
  <1>3. CASE TakeOpen \/ TakeMove
    <2>1. PICK of \in {"open", "move"} : Take(of)
      BY <1>3 DEF TakeOpen, TakeMove
    <2>2. Head(events) \in Line /\ Head(events).of \in {"open", "move"}
      BY <2>1, TakeLines DEF TypeOK
    <2>3. Head(events).a \in Addrs /\ Head(events).kind \in Kinds
      BY <2>2 DEF Line
    <2>4. /\ LookUp(Head(events).a, Head(events).kind, TRUE) \in Found
          /\ LookUp(Head(events).a, "other", FALSE) \in Found
      BY <1>l, <1>o, <2>3
    <2> QED
      BY <1>3, <2>4 DEF TakeOpen, TakeMove
  <1>4. CASE Expire
    <2>1. \A gone \in SUBSET Addrs : AfterExpiry(gone) \in SUBSET Found
      BY <1>l, <1>o DEF AfterExpiry
    <2> QED
      BY <1>4, <2>1 DEF Expire
  <1>5. ASSUME NEW c \in todo, Look(c) \/ LookFails(c)
        PROVE  todo' \in SUBSET Found
    <2>1. c \in Found
      BY <1>t
    <2>2. ASSUME NEW k \in Kinds
          PROVE  [[c EXCEPT !.fresh = TRUE] EXCEPT !.kind = k] \in Found
      BY <2>1 DEF Found
    <2>3. Unread(c) \in SUBSET Found
      BY <2>1, <2>2, <1>o DEF Unread, Found
    <2>4. c.a \in Addrs /\ c.opened \in BOOLEAN
      BY <2>1 DEF Found
    <2>5. Open(c.a) => Snapshot(c.a, TRUE, c.opened) \in Found
      BY <2>4, <1>s
    <2> QED
      BY <1>5, <1>t, <2>3, <2>5 DEF Look, LookFails
  <1>6. ASSUME NEW c \in todo, Skip(c) \/ Stays(c) \/ Move(c) \/ MoveFails(c)
        PROVE  todo' \in SUBSET Found
    BY <1>6, <1>t DEF Skip, Stays, Move, MoveFails
  <1>7. CASE UNCHANGED cvars \/ ScanFails \/ Connect \/ Reload \/ TakeReload \/ TakeClose
              \/ Release \/ HyprlandReloads \/ Disconnects
    BY <1>7, <1>t DEF cvars, ScanFails, Connect, Reload, TakeReload, TakeClose, Release, HyprlandReloads, Disconnects
  <1>8. ASSUME NEW a \in Addrs,
               (\E k \in Kinds \ {"other"} : WindowOpens(a, k))
                 \/ WindowCloses(a) \/ PersonDrags(a) \/ PersonReleases(a) \/ DeadlinePasses(a)
        PROVE  todo' \in SUBSET Found
    BY <1>8, <1>t DEF WindowOpens, WindowCloses, PersonDrags, PersonReleases, DeadlinePasses
  <1> QED
    BY Steps, <1>1, <1>2, <1>3, <1>4, <1>5, <1>6, <1>7, <1>8

(* What the loop remembers of windows, and the bounds.                     *)
MemoryTypeOK ==
  /\ released \in [Addrs -> {"none", "runs", "past"}]
  /\ adopted \in [Addrs -> [id : Ids \union {0}, failed : BOOLEAN] \union {NoWindow}]
  /\ offers \in [Ids -> Nat] /\ failures \in [Ids -> Nat]
  /\ acts \in 0..MaxActs

(* An offer is recorded at the address it was made at.                     *)
LEMMA AdoptTyped ==
  ASSUME MemoryTypeOK, NEW c \in Found, NEW failed \in BOOLEAN, Adopt(c, failed)
  PROVE  /\ adopted' \in [Addrs -> [id : Ids \union {0}, failed : BOOLEAN] \union {NoWindow}]
         /\ offers' \in [Ids -> Nat]
  <1>1. c.a \in Addrs /\ c.id \in Ids \union {0}
    BY DEF Found
  <1>2. [id |-> c.id, failed |-> failed] \in [id : Ids \union {0}, failed : BOOLEAN]
    BY <1>1
  <1>3. \/ UNCHANGED <<adopted, offers>>
        \/ /\ adopted' = [adopted EXCEPT ![c.a] = [id |-> c.id, failed |-> failed]]
           /\ offers' = [offers EXCEPT ![c.id] = offers[c.id] + 1] \/ offers' = offers
    BY DEF Adopt
  <1>4. adopted' \in [Addrs -> [id : Ids \union {0}, failed : BOOLEAN] \union {NoWindow}]
    BY <1>1, <1>2, <1>3 DEF MemoryTypeOK
  <1>5. offers' \in [Ids -> Nat]
    BY <1>1, <1>3 DEF MemoryTypeOK
  <1> QED
    BY <1>4, <1>5

(* What the listener remembers of the windows, and the history.            *)
LEMMA MemoryTyped ==
  ASSUME TypeOK, [Next]_vars
  PROVE  MemoryTypeOK'
  <1>t. MemoryTypeOK
    BY DEF TypeOK, LoopTypeOK, MemoryTypeOK
  <1>f. todo \in SUBSET Found
    BY DEF TypeOK, LoopTypeOK
  <1>h. Happens => acts' \in 0..MaxActs
    BY <1>t, ContainAssumption DEF Happens, MemoryTypeOK
  <1>s. ASSUME NEW ids, Spoils(ids)
        PROVE  failures' \in [Ids -> Nat]
    BY <1>s, <1>t DEF Spoils, MemoryTypeOK
  <1>0. ASSUME UNCHANGED <<records, failures>>, acts' = acts \/ Happens
        PROVE  MemoryTypeOK'
    BY <1>0, <1>t, <1>h DEF records, MemoryTypeOK
  <1>1. CASE Restart
    BY <1>1, <1>t, <1>h DEF Restart, MemoryTypeOK
  <1>2. CASE TakeClose
    BY <1>2, <1>t DEF TakeClose, MemoryTypeOK
  <1>3. CASE Release
    BY <1>3, <1>t DEF Release, MemoryTypeOK
  <1>4. CASE Expire
    <2>1. released' \in [Addrs -> {"none", "runs", "past"}]
      BY <1>4, <1>t DEF Expire, MemoryTypeOK
    <2> QED
      BY <1>4, <1>t, <2>1 DEF Expire, MemoryTypeOK
  <1>5. ASSUME NEW a \in Addrs, DeadlinePasses(a)
        PROVE  MemoryTypeOK'
    BY <1>5, <1>t DEF DeadlinePasses, MemoryTypeOK
  <1>6. ASSUME NEW c \in todo, Stays(c) \/ Move(c)
        PROVE  MemoryTypeOK'
    <2>1. Adopt(c, FALSE) /\ c \in Found /\ FALSE \in BOOLEAN
      BY <1>6, <1>f DEF Stays, Move
    <2> QED
      BY <1>6, <1>t, <2>1, AdoptTyped DEF Stays, Move, MemoryTypeOK
  <1>7. ASSUME NEW c \in todo, MoveFails(c)
        PROVE  MemoryTypeOK'
    <2>1. Adopt(c, TRUE) /\ c \in Found /\ TRUE \in BOOLEAN
      BY <1>7, <1>f DEF MoveFails
    <2> QED
      BY <1>7, <1>t, <1>s, <2>1, AdoptTyped DEF MoveFails, MemoryTypeOK
  <1>8. ASSUME NEW c \in todo, LookFails(c)
        PROVE  MemoryTypeOK'
    BY <1>8, <1>t, <1>s DEF LookFails, records, MemoryTypeOK
  <1>9. CASE ScanFails
    BY <1>9, <1>t, <1>s DEF ScanFails, records, MemoryTypeOK
  <1>10. ASSUME NEW c \in todo, Look(c) \/ Skip(c)
         PROVE  MemoryTypeOK'
    BY <1>10, <1>0 DEF Look, Skip
  <1>11. CASE UNCHANGED cvars \/ Scan \/ Connect \/ Reload \/ TakeReload \/ TakeOpen \/ TakeMove
                \/ HyprlandReloads \/ Disconnects
    BY <1>11, <1>0 DEF cvars, Scan, Connect, Reload, TakeReload, TakeOpen, TakeMove, HyprlandReloads,
      Disconnects, records
  <1>12. ASSUME NEW a \in Addrs,
                (\E k \in Kinds \ {"other"} : WindowOpens(a, k))
                  \/ WindowCloses(a) \/ PersonDrags(a) \/ PersonReleases(a)
         PROVE  MemoryTypeOK'
    BY <1>12, <1>0 DEF WindowOpens, WindowCloses, PersonDrags, PersonReleases
  <1> QED
    BY Steps, <1>1, <1>2, <1>3, <1>4, <1>5, <1>6, <1>7, <1>8, <1>9, <1>10, <1>11, <1>12

(* The connection and the setting.                                         *)
LEMMA SwitchesTyped ==
  ASSUME TypeOK, [Next]_vars
  PROVE  socket' \in BOOLEAN /\ snap' \in BOOLEAN
  <1>t. socket \in BOOLEAN /\ snap \in BOOLEAN
    BY DEF TypeOK, LoopTypeOK
  <1>1. CASE Restart \/ Reload
    BY <1>1, <1>t DEF Restart, Reload, Enforce
  <1>2. CASE Connect \/ Disconnects
    BY <1>2, <1>t DEF Connect, Disconnects
  <1>3. ASSUME NEW c \in todo, Look(c) \/ LookFails(c) \/ Skip(c) \/ Stays(c) \/ Move(c) \/ MoveFails(c)
        PROVE  UNCHANGED <<socket, snap>>
    BY <1>3 DEF Look, LookFails, Skip, Stays, Move, MoveFails
  <1>4. CASE UNCHANGED cvars \/ Scan \/ ScanFails \/ TakeReload \/ TakeClose \/ TakeOpen \/ TakeMove
               \/ Release \/ Expire \/ HyprlandReloads
    BY <1>4, <1>t DEF cvars, Scan, ScanFails, TakeReload, TakeClose, TakeOpen, TakeMove, Release, Expire,
      HyprlandReloads
  <1>5. ASSUME NEW a \in Addrs,
               (\E k \in Kinds \ {"other"} : WindowOpens(a, k))
                 \/ WindowCloses(a) \/ PersonDrags(a) \/ PersonReleases(a) \/ DeadlinePasses(a)
        PROVE  UNCHANGED <<socket, snap>>
    BY <1>5 DEF WindowOpens, WindowCloses, PersonDrags, PersonReleases, DeadlinePasses
  <1> QED
    BY Steps, <1>t, <1>1, <1>2, <1>3, <1>4, <1>5

(* The first state has its types.                                          *)
LEMMA TypeInit == Init => TypeOK
  <1> SUFFICES ASSUME Init PROVE TypeOK
    OBVIOUS
  <1>a. MaxFaults \in Nat /\ MaxOpens \in Nat /\ MaxActs \in Nat /\ Versions \in Nat
    BY RulesAssumption, ContainAssumption
  <1>1. RulesTypeOK
    <2>1. BatchRest \in Batches
      BY DEF Batches, BatchRest
    <2>2. [n \in Names |-> 0] \in [Names -> Classes]
      BY <1>a DEF Classes
    <2>3. /\ entries \in [Names -> Classes] /\ live \in [Names -> Classes] /\ specs \in [Names -> Classes]
          /\ registry \in SUBSET Names /\ batch \in Batches
      BY <2>1, <2>2 DEF Init, RulesInit
    <2>4. astray = FALSE /\ faults = 0
      BY DEF Init, RulesInit
    <2>5. astray \in BOOLEAN
      BY <2>4
    <2>6. faults \in 0..MaxFaults
      BY <2>4, <1>a
    <2> QED
      BY <2>3, <2>5, <2>6 DEF RulesTypeOK
  <1>2. WindowsTypeOK
    BY <1>a DEF Init, WindowsTypeOK
  <1>3. LoopTypeOK
    BY <1>a DEF Init, LoopTypeOK, NoAsk
  <1> QED
    BY <1>1, <1>2, <1>3 DEF TypeOK

(* Every step keeps the types.                                             *)
LEMMA TypeNext == TypeOK /\ [Next]_vars => TypeOK'
  <1> SUFFICES ASSUME TypeOK, [Next]_vars PROVE TypeOK'
    OBVIOUS
  <1>1. RulesTypeOK'
    BY RulesTyped DEF TypeOK
  <1>2. LoopTypeOK'
    BY AskTyped, FoundTyped, MemoryTyped, SwitchesTyped DEF LoopTypeOK, AskTypeOK, MemoryTypeOK
  <1> QED
    BY <1>1, <1>2, WindowsTyped DEF TypeOK

(* Every variable of the rules, the compositor and the loop has its type.  *)
THEOREM ContainTypeCorrect == Spec => []TypeOK
  <1> QED
    BY TypeInit, TypeNext, PTL DEF Spec

(* A failed batch of rules leaves nothing that a later one could not       *)
(* retire: for any names, patterns and number of failed calls.             *)
THEOREM RulesStayRegistered == Spec => []RulesAreRegistered
  <1>1. Init => BatchInv
    BY DEF Init, RulesInit, BatchInv, BatchRest, Named
  <1>2. TypeOK /\ BatchInv /\ [Next]_vars => BatchInv'
    BY BatchInvNext DEF TypeOK
  <1>3. BatchInv => RulesAreRegistered
    BY DEF BatchInv, RulesAreRegistered, Named
  <1> QED
    BY <1>1, <1>2, <1>3, ContainTypeCorrect, PTL DEF Spec

-----------------------------------------------------------------------------
(* The lines that wait: none of them closes a window that is exempt, and   *)
(* those that close the window a request means are ahead of it.            *)
ExemptAt(a) ==
  /\ Open(a) => window[a].id <= opens
  /\ Open(a) /\ window[a].exempt => released[a] = "runs" /\ \A i \in DOMAIN events : ~Closes(i, a)
  /\ ask.a = a /\ Open(a) /\ window[a].id = ask.id => \A i \in DOMAIN events : Closes(i, a) => i <= ask.ahead

(* The invariant, window by window.                                        *)
LEMMA ExemptSplit == ExemptInv <=> ask.id <= opens /\ \A a \in Addrs : ExemptAt(a)
  BY DEF ExemptInv, ExemptAt

(* A line about something else than a close changes nothing for a window   *)
(* whose id, exemption and record stay.                                    *)
LEMMA ExemptKept ==
  ASSUME TypeOK, NEW a \in Addrs, ExemptAt(a), ask' = ask, opens <= opens', opens' \in Nat,
         \/ window'[a] = NoWindow
         \/ /\ Open(a) /\ window'[a].id = window[a].id
            /\ window'[a].exempt => window[a].exempt /\ released'[a] = released[a],
         \A i \in DOMAIN events' : Closes(i, a)' => i \in DOMAIN events /\ Closes(i, a)
  PROVE  ExemptAt(a)'
  <1>1. Open(a) => window[a].id \in Nat
    BY DEF Open, TypeOK, WindowsTypeOK, Win, Ids
  <1>2. opens \in Nat
    BY DEF TypeOK, WindowsTypeOK
  <1> QED
    BY <1>1, <1>2 DEF ExemptAt, Open

(* A line that is taken brings those behind it one place nearer.           *)
LEMMA ExemptTakes ==
  ASSUME TypeOK, NEW a \in Addrs, ExemptAt(a), NEW of, Take(of), UNCHANGED <<window, opens>>,
         released'[a] = released[a]
  PROVE  ExemptAt(a)'
  <1>1. /\ DOMAIN events = 1..Len(events) /\ DOMAIN events' = 1..Len(events')
        /\ Len(events') = Len(events) - 1 /\ Len(events) \in Nat
        /\ \A i \in DOMAIN events' : events'[i] = events[i + 1]
        /\ ask'.a = ask.a /\ ask'.id = ask.id
    BY TakeLines DEF TypeOK
  <1>2. ask.ahead \in Nat /\ ask'.ahead = IF ask.ahead = 0 THEN 0 ELSE ask.ahead - 1
    BY DEF Take, TypeOK, LoopTypeOK
  <1>3. \A i \in DOMAIN events' : i \in Nat /\ i > 0 /\ i + 1 \in DOMAIN events /\ (Closes(i, a)' => Closes(i + 1, a))
    BY <1>1 DEF Closes
  <1>4. ASSUME ask.a = a, Open(a), window[a].id = ask.id, NEW i \in DOMAIN events', Closes(i, a)'
        PROVE  i <= ask'.ahead
    <2>1. i + 1 <= ask.ahead /\ i \in Nat /\ i > 0
      BY <1>3, <1>4 DEF ExemptAt
    <2> QED
      BY <2>1, <1>2
  <1> QED
    BY <1>1, <1>3, <1>4 DEF ExemptAt, Open

(* Every step keeps what is said of the exempt windows.                    *)
LEMMA ExemptNext ==
  ASSUME TypeOK, ExemptInv, [Next]_vars
  PROVE  ExemptInv'
  <1>t. /\ WindowsTypeOK /\ opens \in Nat /\ events \in Seq(Line) /\ DOMAIN events = 1..Len(events)
        /\ Len(events) \in Nat /\ ask.id \in Nat
    BY DEF TypeOK, WindowsTypeOK, LoopTypeOK, Ids
  <1>w. \A a \in Addrs : Open(a) => window[a] \in Win /\ window[a].id \in Nat
    BY DEF Open, TypeOK, WindowsTypeOK, Win, Ids
  <1>k. \A a \in Addrs : Open(a) => window[a].kind \in Kinds
    BY <1>w DEF Win
  <1>n. NoAsk.id = 0 /\ NoAsk.a = NoWindow
    BY DEF NoAsk
  <1>e. \A a \in Addrs : ExemptAt(a)
    BY ExemptSplit
  <1>i. ask.id <= opens
    BY DEF ExemptInv
  <1>u. ASSUME UNCHANGED <<windows, released, ask>>
        PROVE  ExemptInv'
    BY <1>u DEF windows, ExemptInv, Open, Closes
  <1>0. ASSUME NEW of \in Happenings \ {"close"}, NEW b \in Addrs \union {NoWindow}, NEW k \in Kinds,
               Tell(of, b, k), of = "reload" <=> b = NoWindow, UNCHANGED <<opens, released, ask>>,
               \A a \in Addrs : \/ window'[a] = window[a]
                                \/ Open(a) /\ window'[a].id = window[a].id /\ window'[a].exempt = window[a].exempt
        PROVE  ExemptInv'
    <2>1. ASSUME NEW a \in Addrs
          PROVE  ExemptAt(a)'
      <3>1. \A j \in DOMAIN events' : Closes(j, a)' => j \in DOMAIN events /\ Closes(j, a)
        BY <1>0, <1>t, TellLines DEF Closes
      <3> QED
        BY <1>0, <1>e, <1>t, <3>1, ExemptKept DEF Open
    <2> QED
      BY <1>0, <1>i, <2>1 DEF ExemptInv, ExemptAt
  <1>1. ASSUME NEW c \in todo, Move(c)
        PROVE  ExemptInv'
    <2>1. CASE Open(c.a) /\ ~window[c.a].on
      <3>1. c.a \in Addrs /\ "move" \in Happenings
        BY DEF TypeOK, LoopTypeOK, Found, Happenings
      <3>2. /\ window' = [window EXCEPT ![c.a] = [window[c.a] EXCEPT !.on = TRUE]]
            /\ Tell("move", c.a, window[c.a].kind) /\ UNCHANGED <<opens, released, ask>>
        BY <1>1, <2>1 DEF Move
      <3>3. \A a \in Addrs : \/ window'[a] = window[a]
                             \/ Open(a) /\ window'[a].id = window[a].id /\ window'[a].exempt = window[a].exempt
        BY <2>1, <3>1, <3>2, <1>t, <1>w, Marked DEF WindowsTypeOK
      <3> QED
        BY <2>1, <3>1, <3>2, <3>3, <1>k, <1>0, AddrsAreSome
    <2>2. CASE ~(Open(c.a) /\ ~window[c.a].on)
      BY <1>1, <2>2, <1>u DEF Move, windows
    <2> QED
      BY <2>1, <2>2
  <1>2. CASE HyprlandReloads
    <2>1. /\ "reload" \in Happenings /\ "other" \in Kinds /\ Tell("reload", NoWindow, "other")
          /\ UNCHANGED <<window, opens, released, ask>>
      BY <1>2 DEF HyprlandReloads, records, Happenings, Kinds
    <2> QED
      BY <2>1, <1>0
  <1>3. ASSUME NEW b \in Addrs, PersonDrags(b)
        PROVE  ExemptInv'
    <2>1. /\ "move" \in Happenings /\ Open(b) /\ Tell("move", b, window[b].kind)
          /\ window' = [window EXCEPT ![b] = [window[b] EXCEPT !.on = ~window[b].on]]
          /\ UNCHANGED <<opens, released, ask>>
      BY <1>3 DEF PersonDrags, records, Happenings
    <2>2. (~window[b].on) \in BOOLEAN
      OBVIOUS
    <2>3. \A a \in Addrs : \/ window'[a] = window[a]
                           \/ Open(a) /\ window'[a].id = window[a].id /\ window'[a].exempt = window[a].exempt
      BY <2>1, <2>2, <1>t, <1>w, Marked DEF WindowsTypeOK
    <2> QED
      BY <2>1, <2>3, <1>k, <1>0, AddrsAreSome
  <1>4. ASSUME NEW b \in Addrs, NEW k \in Kinds \ {"other"}, WindowOpens(b, k)
        PROVE  ExemptInv'
    <2>1. /\ "open" \in Happenings /\ Tell("open", b, k) /\ opens' = opens + 1
          /\ window'[b].id = opens + 1 /\ ~window'[b].exempt
          /\ \A a \in Addrs \ {b} : window'[a] = window[a]
          /\ UNCHANGED <<released, ask>>
      BY <1>4, <1>t DEF WindowOpens, records, Happenings, WindowsTypeOK
    <2>2. ASSUME NEW a \in Addrs
          PROVE  ExemptAt(a)'
      <3>1. \A j \in DOMAIN events' : Closes(j, a)' => j \in DOMAIN events /\ Closes(j, a)
        BY <2>1, <1>t, AddrsAreSome, TellLines DEF Closes
      <3>2. CASE a = b
        BY <2>1, <3>2, <1>i, <1>t DEF ExemptAt
      <3>3. CASE a # b
        BY <2>1, <3>1, <3>3, <1>e, <1>t, ExemptKept DEF Open
      <3> QED
        BY <3>2, <3>3
    <2> QED
      BY <2>1, <2>2, <1>i, <1>t DEF ExemptInv, ExemptAt
  <1>5. ASSUME NEW b \in Addrs, WindowCloses(b)
        PROVE  ExemptInv'
    <2>1. /\ "close" \in Happenings /\ Open(b) /\ Tell("close", b, window[b].kind)
          /\ window'[b] = NoWindow /\ \A a \in Addrs \ {b} : window'[a] = window[a]
          /\ UNCHANGED <<opens, released, ask>>
      BY <1>5, <1>t DEF WindowCloses, records, Happenings, WindowsTypeOK
    <2>2. ASSUME NEW a \in Addrs
          PROVE  ExemptAt(a)'
      <3>1. CASE a = b
        BY <2>1, <3>1 DEF ExemptAt, Open
      <3>2. CASE a # b
        <4>1. \A j \in DOMAIN events' : Closes(j, a)' => j \in DOMAIN events /\ Closes(j, a)
          <5>1. b # NoWindow /\ window[b].kind \in Kinds
            BY <2>1, <1>k, AddrsAreSome
          <5>2. /\ \A j \in DOMAIN events : events'[j] = events[j]
                /\ \A j \in DOMAIN events' : j \in DOMAIN events \/ events'[j].a = b
            <6>1. /\ WindowsTypeOK /\ "close" \in Happenings /\ b \in Addrs \union {NoWindow}
                  /\ window[b].kind \in Kinds /\ Tell("close", b, window[b].kind)
                  /\ ("close" = "reload" <=> b = NoWindow)
              BY <2>1, <5>1, <1>t
            <6> QED
              BY <6>1, TellLines
          <5> QED
            BY <3>2, <5>2 DEF Closes
        <4> QED
          BY <2>1, <3>2, <4>1, <1>e, <1>t, ExemptKept DEF Open
      <3> QED
        BY <3>1, <3>2
    <2> QED
      BY <2>1, <2>2, <1>i DEF ExemptInv, ExemptAt
  <1>6. CASE Disconnects
    <2>1. events' = <<>> /\ UNCHANGED <<window, opens, released>> /\ ask'.id = ask.id
      BY <1>6 DEF Disconnects, records, TypeOK, LoopTypeOK
    <2> QED
      BY <2>1, <1>e, <1>i DEF ExemptInv, ExemptAt, Open, Closes
  <1>7. ASSUME NEW b \in Addrs, PersonReleases(b)
        PROVE  ExemptInv'
    <2>1. /\ Open(b) /\ UNCHANGED <<window, opens, events, released>>
          /\ ask'.a = b /\ ask'.id = window[b].id /\ ask'.ahead = Len(events)
      BY <1>7 DEF PersonReleases, windows, records
    <2> QED
      BY <2>1, <1>e, <1>t DEF ExemptInv, ExemptAt, Open, Closes
  <1>8. ASSUME NEW b \in Addrs, DeadlinePasses(b)
        PROVE  ExemptInv'
    <2>1. /\ UNCHANGED <<opens, events, ask>>
          /\ \A a \in Addrs \ {b} : window'[a] = window[a] /\ released'[a] = released[a]
          /\ Open(b) => window'[b].id = window[b].id /\ ~window'[b].exempt
          /\ ~Open(b) => window'[b] = NoWindow
      <3>1. released' = [released EXCEPT ![b] = "past"] /\ UNCHANGED <<opens, events, ask>>
            /\ window' = IF Open(b) THEN [window EXCEPT ![b] = [window[b] EXCEPT !.exempt = FALSE]] ELSE window
        BY <1>8 DEF DeadlinePasses
      <3>2. \A a \in Addrs \ {b} : window'[a] = window[a] /\ released'[a] = released[a]
        BY <3>1, <1>t DEF WindowsTypeOK, TypeOK, LoopTypeOK
      <3>3. Open(b) => window'[b].id = window[b].id /\ ~window'[b].exempt
        BY <3>1, <1>t, <1>w, Marked DEF WindowsTypeOK
      <3> QED
        BY <3>1, <3>2, <3>3 DEF Open
    <2> QED
      BY <2>1, <1>e, <1>i DEF ExemptInv, ExemptAt, Open, Closes
  <1>9. CASE Restart
    <2>1. /\ events' = <<>> /\ ask' = NoAsk /\ opens' = opens
          /\ \A a \in Addrs : window'[a] = IF Open(a) THEN [window[a] EXCEPT !.exempt = FALSE] ELSE NoWindow
      BY <1>9 DEF Restart
    <2>2. \A a \in Addrs : IF Open(a) THEN window'[a].id = window[a].id /\ ~window'[a].exempt ELSE window'[a] = NoWindow
      <3>1. ASSUME NEW a \in Addrs, Open(a)
            PROVE  window'[a].id = window[a].id /\ ~window'[a].exempt
        <4>1. window[a] \in Win /\ window'[a] = [window[a] EXCEPT !.exempt = FALSE] /\ FALSE \in BOOLEAN
          BY <2>1, <3>1, <1>w
        <4> QED
          BY <4>1, Marked
      <3> QED
        BY <2>1, <3>1
    <2> QED
      BY <2>1, <2>2, <1>e, <1>n, <1>t DEF ExemptInv, ExemptAt, Open, Closes
  <1>10. CASE TakeReload \/ TakeOpen \/ TakeMove \/ TakeClose
    <2>1. PICK of : Take(of)
      BY <1>10 DEF TakeReload, TakeOpen, TakeMove, TakeClose
    <2>2. UNCHANGED <<window, opens>> /\ ask'.id = ask.id
      BY <1>10, <2>1, <1>t, TakeLines DEF TakeReload, TakeOpen, TakeMove, TakeClose
    <2>3. ASSUME NEW a \in Addrs
          PROVE  ExemptAt(a)'
      <3>1. CASE released'[a] = released[a]
        BY <2>1, <2>2, <3>1, <1>e, ExemptTakes
      <3>2. CASE released'[a] # released[a]
        <4>1. TakeClose /\ Take("close") /\ Head(events).a = a
          BY <1>10, <3>2 DEF TakeReload, TakeOpen, TakeMove, TakeClose, records, TypeOK, LoopTypeOK
        <4>2. 1 \in DOMAIN events /\ Closes(1, a)
          <5>1. Head(events) = events[1] /\ Head(events).of = "close" /\ Len(events) \in Nat \ {0}
            BY <4>1, <1>t, TakeLines
          <5> QED
            BY <4>1, <5>1, <1>t DEF Closes
        <4>3. ~(Open(a) /\ window[a].exempt)
          BY <4>2, <1>e DEF ExemptAt
        <4> DEFINE rest == ask.a = a /\ Open(a) /\ window[a].id = ask.id =>
                             \A i \in DOMAIN events' : Closes(i, a)' => i <= ask'.ahead
        <4>4. rest
          <5>1. /\ DOMAIN events' = 1..Len(events') /\ Len(events') = Len(events) - 1
                /\ \A i \in DOMAIN events' : events'[i] = events[i + 1]
            BY <4>1, <1>t, TakeLines
          <5>2. ask.ahead \in Nat /\ ask'.ahead = IF ask.ahead = 0 THEN 0 ELSE ask.ahead - 1
            BY <4>1 DEF Take, TypeOK, LoopTypeOK
          <5>3. \A i \in DOMAIN events' : i \in Nat /\ i > 0 /\ i + 1 \in DOMAIN events /\ (Closes(i, a)' => Closes(i + 1, a))
            BY <5>1, <1>t DEF Closes
          <5>4. ASSUME ask.a = a, Open(a), window[a].id = ask.id, NEW i \in DOMAIN events', Closes(i, a)'
                PROVE  i <= ask'.ahead
            <6>1. i + 1 <= ask.ahead /\ i \in Nat /\ i > 0
              BY <5>3, <5>4, <1>e DEF ExemptAt
            <6> QED
              BY <6>1, <5>2
          <5> QED
            BY <5>4
        <4>5. ask'.a = ask.a
          BY <4>1, <1>t, TakeLines
        <4> QED
          BY <2>2, <4>3, <4>4, <4>5, <1>e DEF ExemptAt, Open
      <3> QED
        BY <3>1, <3>2
    <2> QED
      BY <2>2, <2>3, <1>i DEF ExemptInv, ExemptAt
  <1>11. CASE Release
    <2>1. ask # NoAsk /\ ask.ahead = 0 /\ ask' = NoAsk /\ UNCHANGED <<opens, events>>
      BY <1>11 DEF Release
    <2>2. ASSUME NEW a \in Addrs
          PROVE  ExemptAt(a)'
      <3>a. a # NoWindow
        BY AddrsAreSome
      <3>1. CASE window'[a] = window[a] /\ released'[a] = released[a]
        BY <2>1, <3>1, <3>a, <1>e, <1>n DEF ExemptAt, Open, Closes
      <3>2. CASE ~(window'[a] = window[a] /\ released'[a] = released[a])
        <4>1. a = ask.a /\ Open(a) /\ released'[a] = "runs"
              /\ window' = IF IdAt(a) = {ask.id} THEN [window EXCEPT ![a] = [window[a] EXCEPT !.exempt = TRUE]] ELSE window
          BY <1>11, <3>2, <1>t DEF Release, Refused, WindowsTypeOK, TypeOK, LoopTypeOK
        <4>2. CASE window[a].id = ask.id
          <5>1. window'[a].id = window[a].id
            BY <4>1, <1>t, <1>w, Marked DEF WindowsTypeOK
          <5>2. \A j \in DOMAIN events : ~Closes(j, a)
            BY <2>1, <4>1, <4>2, <1>e, <1>t DEF ExemptAt
          <5> QED
            BY <2>1, <3>a, <4>1, <5>1, <5>2, <1>e, <1>n DEF ExemptAt, Open, Closes
        <4>3. CASE window[a].id # ask.id
          <5>1. window' = window
            BY <4>1, <4>3 DEF IdAt
          <5> QED
            BY <2>1, <3>a, <4>1, <5>1, <1>e, <1>n DEF ExemptAt, Open, Closes
        <4> QED
          BY <4>2, <4>3
      <3> QED
        BY <3>1, <3>2
    <2> QED
      BY <2>1, <2>2, <1>n, <1>t DEF ExemptInv, ExemptAt
  <1>12. CASE Expire
    <2>1. UNCHANGED <<windows, ask>> /\ \A a \in Addrs : released[a] # "past" => released'[a] = released[a]
      BY <1>12 DEF Expire
    <2> QED
      BY <2>1, <1>e, <1>i DEF windows, ExemptInv, ExemptAt, Open, Closes
  <1>13. ASSUME NEW c \in todo, Look(c) \/ LookFails(c) \/ Skip(c) \/ Stays(c) \/ MoveFails(c)
         PROVE  ExemptInv'
    BY <1>13, <1>u DEF Look, LookFails, Skip, Stays, MoveFails, records
  <1>14. CASE UNCHANGED cvars \/ ScanFails \/ Connect \/ Reload
    BY <1>14, <1>u DEF cvars, ScanFails, Connect, Reload, records
  <1>15. CASE Scan
    BY <1>15 DEF Scan, records, ExemptInv, Open, Closes
  <1> QED
    BY Steps, <1>1, <1>2, <1>3, <1>4, <1>5, <1>6, <1>7, <1>8, <1>9, <1>10, <1>11, <1>12, <1>13, <1>14, <1>15

(* The listener's own steps move no window that is exempt.                 *)
LEMMA AloneStep == TypeOK /\ ExemptInv /\ [Next]_vars
    => \A a \in Addrs : Open(a) /\ window[a].exempt /\ acts' = acts /\ window'[a] # NoWindow
                          => window'[a].on = window[a].on
  <1> SUFFICES ASSUME TypeOK, ExemptInv, [Next]_vars, NEW a \in Addrs,
                      Open(a), window[a].exempt, acts' = acts
               PROVE  window'[a].on = window[a].on
    OBVIOUS
  <1>t. window \in [Addrs -> Win \union {NoWindow}] /\ acts \in Nat /\ todo \in SUBSET Found
    BY ContainAssumption DEF TypeOK, WindowsTypeOK, LoopTypeOK
  <1>w. \A b \in Addrs : Open(b) => window[b] \in Win
    BY <1>t DEF Open
  <1>h. ~Happens
    BY <1>t DEF Happens
  <1>1. ASSUME NEW c \in todo, Move(c)
        PROVE  window'[a] = window[a]
    <2>1. c.a \in Addrs /\ released[c.a] = "none"
      BY <1>1, <1>t DEF Move, Skipped, Found
    <2>2. c.a # a
      BY <2>1 DEF ExemptInv
    <2> QED
      BY <1>1, <2>1, <2>2, <1>t DEF Move
  <1>2. CASE Release
    <2>1. \/ window' = window
          \/ ask.a \in Addrs /\ Open(ask.a) /\ window' = [window EXCEPT ![ask.a] = [window[ask.a] EXCEPT !.exempt = TRUE]]
      BY <1>2, <1>t DEF Release, Refused, IdAt, TypeOK, LoopTypeOK
    <2>2. window'[a] = window[a] \/ window'[a] = [window[a] EXCEPT !.exempt = TRUE]
      BY <2>1, <1>t
    <2>3. window[a] \in Win /\ [window[a] EXCEPT !.exempt = TRUE].on = window[a].on
      BY <1>w, Marked
    <2> QED
      BY <2>2, <2>3
  <1>3. ASSUME NEW b \in Addrs, DeadlinePasses(b)
        PROVE  window'[a].on = window[a].on
    <2>1. window'[a] = window[a] \/ window'[a] = [window[a] EXCEPT !.exempt = FALSE]
      BY <1>3, <1>t DEF DeadlinePasses
    <2> QED
      BY <2>1, <1>w, Marked
  <1>4. CASE UNCHANGED cvars \/ Scan \/ ScanFails \/ Connect \/ TakeReload \/ TakeClose \/ TakeOpen \/ TakeMove
               \/ Expire
    BY <1>4 DEF cvars, windows, Scan, ScanFails, Connect, TakeReload, TakeClose, TakeOpen, TakeMove, Expire
  <1>5. ASSUME NEW c \in todo, Look(c) \/ LookFails(c) \/ Skip(c) \/ Stays(c) \/ MoveFails(c)
        PROVE  window' = window
    BY <1>5 DEF windows, Look, LookFails, Skip, Stays, MoveFails
  <1>6. ~Reload /\ ~Restart /\ ~HyprlandReloads /\ ~Disconnects
    BY <1>h DEF Reload, Restart, HyprlandReloads, Disconnects
  <1>7. ASSUME NEW b \in Addrs,
               (\E k \in Kinds \ {"other"} : WindowOpens(b, k)) \/ WindowCloses(b) \/ PersonDrags(b) \/ PersonReleases(b)
        PROVE  FALSE
    BY <1>h, <1>7 DEF WindowOpens, WindowCloses, PersonDrags, PersonReleases
  <1> QED
    BY Steps, <1>1, <1>2, <1>3, <1>4, <1>5, <1>6, <1>7

(* At first no window is open.                                             *)
LEMMA ExemptInit == Init => ExemptInv
  <1> SUFFICES ASSUME Init PROVE ExemptInv
    OBVIOUS
  <1>1. ask.id = 0 /\ opens = 0 /\ \A a \in Addrs : ~Open(a)
    BY DEF Init, NoAsk, Open
  <1> QED
    BY <1>1 DEF ExemptInv

(* A released window is left alone until its deadline: for any number of   *)
(* windows, addresses used again, lines waiting and failed calls.          *)
THEOREM ReleasedStaysAlone == Spec => ReleasedIsLeftAlone
  <1>1. TypeOK /\ ExemptInv /\ [Next]_vars => ExemptInv'
    BY ExemptNext
  <1>2. TypeOK /\ ExemptInv /\ [Next]_vars =>
          [\A a \in Addrs : Open(a) /\ window[a].exempt /\ acts' = acts /\ window'[a] # NoWindow
                              => window'[a].on = window[a].on]_vars
    BY AloneStep
  <1> QED
    BY ExemptInit, <1>1, <1>2, ContainTypeCorrect, PTL DEF Spec, ReleasedIsLeftAlone

-----------------------------------------------------------------------------
(* What a record is pruned by: its window, the line that tells of the      *)
(* close, or a line that was missed.                                       *)
ClosingLine(a) == \E i \in DOMAIN events : events[i].of = "close" /\ events[i].a = a
ClosingMissed(a) == [of |-> "close", a |-> a] \in missed
PrunableAt(a) == released[a] # "none" => Open(a) \/ ClosingLine(a) \/ ClosingMissed(a)

(* Lines that are added take none away.                                    *)
LEMMA TellKeeps ==
  ASSUME WindowsTypeOK, NEW a \in Addrs, PrunableAt(a), released'[a] = released[a], Open(a) => Open(a)',
         NEW of \in Happenings, NEW b \in Addrs \union {NoWindow}, NEW k \in Kinds,
         Tell(of, b, k), of = "reload" <=> b = NoWindow
  PROVE  PrunableAt(a)'
  <1>1. missed \subseteq missed' /\ \A i \in DOMAIN events : i \in DOMAIN events' /\ events'[i] = events[i]
    BY TellLines
  <1>2. ClosingLine(a) => ClosingLine(a)'
    BY <1>1 DEF ClosingLine
  <1>3. ClosingMissed(a) => ClosingMissed(a)'
    BY <1>1 DEF ClosingMissed
  <1> QED
    BY <1>2, <1>3 DEF PrunableAt

(* Every step leaves each record something that would prune it.            *)
LEMMA PrunableNext ==
  ASSUME TypeOK, RecordsCanBePruned, [Next]_vars
  PROVE  RecordsCanBePruned'
  <1>p. RecordsCanBePruned <=> \A a \in Addrs : PrunableAt(a)
    BY DEF RecordsCanBePruned, PrunableAt, ClosingLine, ClosingMissed
  <1>q. RecordsCanBePruned' <=> \A a \in Addrs : PrunableAt(a)'
    BY DEF RecordsCanBePruned, PrunableAt, ClosingLine, ClosingMissed
  <1> SUFFICES ASSUME NEW a \in Addrs PROVE PrunableAt(a)'
    BY <1>q
  <1>e. PrunableAt(a)
    BY <1>p
  <1>t. /\ WindowsTypeOK /\ window \in [Addrs -> Win \union {NoWindow}] /\ todo \in SUBSET Found
        /\ released \in [Addrs -> {"none", "runs", "past"}] /\ ask.a \in Addrs \union {NoWindow}
    BY DEF TypeOK, WindowsTypeOK, LoopTypeOK
  <1>w. \A b \in Addrs : Open(b) => window[b] \in Win /\ window[b] # NoWindow /\ window[b].kind \in Kinds
    BY <1>t DEF Open, Win
  <1>m. ASSUME NEW w \in Win, NEW x \in BOOLEAN
        PROVE  [w EXCEPT !.on = x] # NoWindow /\ [w EXCEPT !.exempt = x] # NoWindow
    <2>1. [w EXCEPT !.on = x] \in Win /\ [w EXCEPT !.exempt = x] \in Win
      BY Marked
    <2> QED
      BY <2>1, NoWindowAssumption
  <1>u. ASSUME events' = events, missed' = missed, released'[a] \in {released[a], "none"},
               Open(a) => Open(a)'
        PROVE  PrunableAt(a)'
    BY <1>u, <1>e DEF PrunableAt, ClosingLine, ClosingMissed
  <1>1. ASSUME NEW c \in todo, Move(c)
        PROVE  PrunableAt(a)'
    <2>1. CASE Open(c.a) /\ ~window[c.a].on
      <3>1. /\ c.a \in Addrs /\ "move" \in Happenings /\ Tell("move", c.a, window[c.a].kind) /\ released' = released
            /\ window' = [window EXCEPT ![c.a] = [window[c.a] EXCEPT !.on = TRUE]]
        BY <1>1, <2>1, <1>t DEF Move, Found, Happenings
      <3>2. Open(a) => Open(a)'
        BY <2>1, <3>1, <1>t, <1>w, <1>m DEF Open
      <3> QED
        BY <2>1, <3>1, <3>2, <1>e, <1>t, <1>w, AddrsAreSome, TellKeeps
    <2>2. CASE ~(Open(c.a) /\ ~window[c.a].on)
      BY <1>1, <2>2, <1>u DEF Move, Open
    <2> QED
      BY <2>1, <2>2
  <1>2. CASE HyprlandReloads
    <2>1. /\ "reload" \in Happenings /\ "other" \in Kinds /\ Tell("reload", NoWindow, "other")
          /\ UNCHANGED <<window, released>>
      BY <1>2 DEF HyprlandReloads, records, Happenings, Kinds
    <2>2. Open(a) => Open(a)'
      BY <2>1 DEF Open
    <2> QED
      BY <2>1, <2>2, <1>e, <1>t, TellKeeps
  <1>3. ASSUME NEW b \in Addrs, PersonDrags(b)
        PROVE  PrunableAt(a)'
    <2>1. /\ "move" \in Happenings /\ Open(b) /\ Tell("move", b, window[b].kind) /\ released' = released
          /\ window' = [window EXCEPT ![b] = [window[b] EXCEPT !.on = ~window[b].on]]
      BY <1>3 DEF PersonDrags, records, Happenings
    <2>2. (~window[b].on) \in BOOLEAN
      OBVIOUS
    <2>3. Open(a) => Open(a)'
      BY <2>1, <2>2, <1>t, <1>w, <1>m DEF Open
    <2> QED
      BY <2>1, <2>3, <1>e, <1>t, <1>w, AddrsAreSome, TellKeeps
  <1>4. ASSUME NEW b \in Addrs, NEW k \in Kinds \ {"other"}, WindowOpens(b, k)
        PROVE  PrunableAt(a)'
    <2>1. /\ "open" \in Happenings /\ Tell("open", b, k) /\ ~Open(b) /\ released' = released
          /\ \A c \in Addrs \ {b} : window'[c] = window[c]
      BY <1>4, <1>t DEF WindowOpens, records, Happenings
    <2>2. Open(a) => Open(a)'
      BY <2>1 DEF Open
    <2> QED
      BY <2>1, <2>2, <1>e, <1>t, AddrsAreSome, TellKeeps
  <1>5. ASSUME NEW b \in Addrs, WindowCloses(b)
        PROVE  PrunableAt(a)'
    <2>1. /\ "close" \in Happenings /\ Tell("close", b, window[b].kind) /\ Open(b) /\ released' = released
          /\ \A c \in Addrs \ {b} : window'[c] = window[c]
      BY <1>5, <1>t DEF WindowCloses, records, Happenings
    <2>2. CASE a = b
      <3>1. \/ \E i \in DOMAIN events' : events'[i].of = "close" /\ events'[i].a = a
            \/ [of |-> "close", a |-> a] \in missed'
        <4>1. /\ WindowsTypeOK /\ b \in Addrs \union {NoWindow} /\ window[b].kind \in Kinds
              /\ ("close" = "reload" <=> b = NoWindow)
          BY <2>1, <1>t, <1>w, AddrsAreSome
        <4> QED
          BY <2>1, <2>2, <4>1, TellLines
      <3> QED
        BY <3>1 DEF PrunableAt, ClosingLine, ClosingMissed
    <2>3. CASE a # b
      <3>1. Open(a) => Open(a)'
        BY <2>1, <2>3 DEF Open
      <3>2. /\ WindowsTypeOK /\ b \in Addrs \union {NoWindow} /\ window[b].kind \in Kinds
            /\ ("close" = "reload" <=> b = NoWindow)
        BY <2>1, <1>t, <1>w, AddrsAreSome
      <3> QED
        BY <2>1, <3>1, <3>2, <1>e, TellKeeps
    <2> QED
      BY <2>2, <2>3
  <1>6. CASE Disconnects
    <2>1. /\ UNCHANGED <<window, released>>
          /\ missed' = missed \union {[of |-> events[i].of, a |-> events[i].a] : i \in DOMAIN events}
      BY <1>6 DEF Disconnects, records
    <2>2. ClosingLine(a) \/ ClosingMissed(a) => ClosingMissed(a)'
      BY <2>1 DEF ClosingLine, ClosingMissed
    <2> QED
      BY <2>1, <2>2, <1>e DEF PrunableAt, Open
  <1>7. CASE Restart
    BY <1>7 DEF Restart, PrunableAt
  <1>8. CASE TakeReload \/ TakeOpen \/ TakeMove \/ TakeClose
    <2>1. PICK of : Take(of) /\ (of = "close" => TakeClose)
      <3>1. CASE TakeClose
        BY <3>1 DEF TakeClose
      <3>2. CASE TakeReload
        <4>1. Take("reload") /\ "reload" # "close"
          BY <3>2 DEF TakeReload
        <4> QED
          BY <4>1
      <3>3. CASE TakeOpen
        <4>1. Take("open") /\ "open" # "close"
          BY <3>3 DEF TakeOpen
        <4> QED
          BY <4>1
      <3>4. CASE TakeMove
        <4>1. Take("move") /\ "move" # "close"
          BY <3>4 DEF TakeMove
        <4> QED
          BY <4>1
      <3> QED
        BY <1>8, <3>1, <3>2, <3>3, <3>4
    <2>2. UNCHANGED <<window, missed>> /\ (released' = released \/ TakeClose)
      BY <1>8 DEF TakeReload, TakeOpen, TakeMove, TakeClose, records
    <2>3. /\ Len(events) \in Nat \ {0} /\ Len(events') = Len(events) - 1
          /\ Head(events) = events[1] /\ Head(events).of = of
          /\ DOMAIN events = 1..Len(events) /\ DOMAIN events' = 1..Len(events')
          /\ \A i \in DOMAIN events' : events'[i] = events[i + 1]
      BY <2>1, <1>t, TakeLines
    <2>4. released'[a] \in {released[a], "none"}
      BY <2>2, <1>t DEF TakeClose
    <2>5. ASSUME released'[a] # "none", ClosingLine(a)
          PROVE  ClosingLine(a)'
      <3>1. PICK i \in DOMAIN events : events[i].of = "close" /\ events[i].a = a
        BY <2>5 DEF ClosingLine
      <3>2. i # 1
        <4>1. ASSUME i = 1 PROVE FALSE
          <5>1. of = "close" /\ Head(events).a = a
            BY <3>1, <4>1, <2>3
          <5>2. released'[a] = "none"
            BY <5>1, <2>1, <1>t DEF TakeClose
          <5> QED
            BY <5>2, <2>5
        <4> QED
          BY <4>1
      <3>3. i - 1 \in DOMAIN events' /\ events'[i - 1] = events[i]
        BY <3>1, <3>2, <2>3
      <3> QED
        BY <3>1, <3>3 DEF ClosingLine
    <2> QED
      BY <2>2, <2>4, <2>5, <1>e DEF PrunableAt, ClosingMissed, Open
  <1>9. CASE Release
    <2>1. UNCHANGED <<events, missed>>
      BY <1>9 DEF Release
    <2>2. Open(a) => Open(a)'
      <3>1. \/ window' = window
            \/ ask.a \in Addrs /\ Open(ask.a) /\ window' = [window EXCEPT ![ask.a] = [window[ask.a] EXCEPT !.exempt = TRUE]]
        BY <1>9, <1>t, AddrsAreSome DEF Release, Refused, IdAt
      <3>2. Open(a) => window'[a] = window[a] \/ window'[a] = [window[a] EXCEPT !.exempt = TRUE]
        BY <3>1, <1>t
      <3>3. Open(a) => window[a] \in Win /\ window[a] # NoWindow /\ [window[a] EXCEPT !.exempt = TRUE] # NoWindow
        BY <1>w, <1>m
      <3> QED
        BY <3>2, <3>3 DEF Open
    <2>3. released'[a] # released[a] => Open(a)
      BY <1>9, <1>t DEF Release, Refused
    <2> QED
      BY <2>1, <2>2, <2>3, <1>e DEF PrunableAt, ClosingLine, ClosingMissed
  <1>10. CASE Expire
    BY <1>10, <1>t, <1>u DEF Expire, windows, Open
  <1>11. ASSUME NEW b \in Addrs, DeadlinePasses(b)
         PROVE  PrunableAt(a)'
    <2>1. UNCHANGED <<events, missed>> /\ (released'[a] # released[a] => a = b /\ released[a] # "none")
      BY <1>11, <1>t DEF DeadlinePasses
    <2>2. Open(a) => Open(a)'
      <3>1. window'[a] = window[a] \/ (Open(b) /\ window'[a] = [window[a] EXCEPT !.exempt = FALSE])
        BY <1>11, <1>t DEF DeadlinePasses
      <3> QED
        BY <3>1, <1>w, <1>m DEF Open
    <2> QED
      BY <2>1, <2>2, <1>e DEF PrunableAt, ClosingLine, ClosingMissed
  <1>12. ASSUME NEW c \in todo, Look(c) \/ LookFails(c) \/ Skip(c) \/ Stays(c) \/ MoveFails(c)
         PROVE  PrunableAt(a)'
    BY <1>12, <1>u DEF Look, LookFails, Skip, Stays, MoveFails, windows, records, Open
  <1>13. CASE UNCHANGED cvars \/ ScanFails \/ Connect \/ Reload
    BY <1>13, <1>u DEF cvars, ScanFails, Connect, Reload, windows, records, Open
  <1>14. CASE Scan
    <2>1. UNCHANGED <<window, events, released>> /\ missed' = {m \in missed : m.of \in {"close", "reload"}}
      BY <1>14 DEF Scan, records
    <2> QED
      BY <2>1, <1>e DEF PrunableAt, ClosingLine, ClosingMissed, Open
  <1>15. ASSUME NEW b \in Addrs, PersonReleases(b)
         PROVE  PrunableAt(a)'
    BY <1>15, <1>u DEF PersonReleases, windows, records, Open
  <1> QED
    BY Steps, <1>1, <1>2, <1>3, <1>4, <1>5, <1>6, <1>7, <1>8, <1>9, <1>10, <1>11, <1>12, <1>13, <1>14, <1>15

(* No release leaves a record that neither a line still to come nor one    *)
(* that was lost with the connection would have pruned.                    *)
THEOREM RecordsStayPrunable == Spec => []RecordsCanBePruned
  <1>1. Init => RecordsCanBePruned
    BY DEF Init, RecordsCanBePruned
  <1>2. TypeOK /\ RecordsCanBePruned /\ [Next]_vars => RecordsCanBePruned'
    BY PrunableNext
  <1> QED
    BY <1>1, <1>2, ContainTypeCorrect, PTL DEF Spec

-----------------------------------------------------------------------------
(* A line is written: of what, and about which window.                     *)
Told(of, a, k) ==
  /\ Tell(of, a, k)
  /\ of = "reload" <=> a = NoWindow
  /\ of = "close" => WindowCloses(a)
  /\ of = "open" => WindowOpens(a, k)

(* What a step does to the lines, those that wait and those that are lost. *)
LEMMA LineSteps ==
  ASSUME TypeOK, [Next]_vars
  PROVE  \/ UNCHANGED <<events, missed>>
         \/ Scan \/ Restart \/ Disconnects
         \/ TakeReload \/ TakeClose \/ TakeOpen \/ TakeMove
         \/ \E of \in Happenings, a \in Addrs \union {NoWindow}, k \in Kinds : Told(of, a, k)
  <1>k. \A a \in Addrs : Open(a) => window[a].kind \in Kinds
    BY DEF Open, TypeOK, WindowsTypeOK, Win
  <1>h. "open" \in Happenings /\ "move" \in Happenings /\ "close" \in Happenings /\ "reload" \in Happenings /\ "other" \in Kinds
    BY DEF Happenings, Kinds
  <1>1. ASSUME NEW c \in todo, Move(c), Open(c.a) /\ ~window[c.a].on
        PROVE  Told("move", c.a, window[c.a].kind) /\ c.a \in Addrs
    <2>1. c.a \in Addrs
      BY DEF TypeOK, LoopTypeOK, Found
    <2> QED
      BY <1>1, <2>1, AddrsAreSome DEF Move, Told
  <1>2. ASSUME NEW c \in todo, Move(c), ~(Open(c.a) /\ ~window[c.a].on)
        PROVE  UNCHANGED <<events, missed>>
    BY <1>2 DEF Move
  <1>3. ASSUME HyprlandReloads
        PROVE  Told("reload", NoWindow, "other")
    BY <1>3 DEF HyprlandReloads, Told
  <1>4. ASSUME NEW a \in Addrs, NEW k \in Kinds \ {"other"}, WindowOpens(a, k)
        PROVE  Told("open", a, k)
    BY <1>4, AddrsAreSome DEF WindowOpens, Told
  <1>5. ASSUME NEW a \in Addrs, WindowCloses(a)
        PROVE  Told("close", a, window[a].kind) /\ Open(a)
    BY <1>5, AddrsAreSome DEF WindowCloses, Told
  <1>6. ASSUME NEW a \in Addrs, PersonDrags(a)
        PROVE  Told("move", a, window[a].kind) /\ Open(a)
    BY <1>6, AddrsAreSome DEF PersonDrags, Told
  <1>7. ASSUME NEW a \in Addrs, PersonReleases(a) \/ DeadlinePasses(a)
        PROVE  UNCHANGED <<events, missed>>
    BY <1>7 DEF PersonReleases, DeadlinePasses, windows
  <1>8. ASSUME NEW c \in todo, Look(c) \/ LookFails(c) \/ Skip(c) \/ Stays(c) \/ MoveFails(c)
        PROVE  UNCHANGED <<events, missed>>
    BY <1>8 DEF Look, LookFails, Skip, Stays, MoveFails, windows
  <1>9. CASE UNCHANGED cvars \/ ScanFails \/ Connect \/ Reload \/ Release \/ Expire
    BY <1>9 DEF cvars, ScanFails, Connect, Reload, Release, Expire, windows
  <1> QED
    BY Steps, <1>1, <1>2, <1>3, <1>4, <1>5, <1>6, <1>7, <1>8, <1>9, <1>k, <1>h

(* The first line is taken for what it is.                                 *)
LEMMA TakesOne ==
  ASSUME TakeReload \/ TakeClose \/ TakeOpen \/ TakeMove
  PROVE  /\ UNCHANGED <<missed, window, opens>> /\ Idle
         /\ \E of \in Happenings :
              /\ Take(of)
              /\ of = "reload" => TakeReload
              /\ of = "close" => TakeClose
              /\ of = "open" => TakeOpen
              /\ of = "move" => TakeMove
  <1>h. "open" \in Happenings /\ "move" \in Happenings /\ "close" \in Happenings /\ "reload" \in Happenings
    BY DEF Happenings
  <1>1. CASE TakeReload
    BY <1>1, <1>h DEF TakeReload, Take
  <1>2. CASE TakeClose
    BY <1>2, <1>h DEF TakeClose, Take
  <1>3. CASE TakeOpen
    BY <1>3, <1>h DEF TakeOpen, Take
  <1>4. CASE TakeMove
    BY <1>4, <1>h DEF TakeMove, Take
  <1> QED
    BY <1>1, <1>2, <1>3, <1>4

(* A line waits on, is lost with the connection, or is the one taken.      *)
LEMMA LineStays ==
  ASSUME TypeOK, [Next]_vars, ~Restart, NEW i \in DOMAIN events
  PROVE  \/ \E j \in DOMAIN events' : events'[j] = events[i]
         \/ [of |-> events[i].of, a |-> events[i].a] \in missed'
         \/ i = 1 /\ (TakeReload \/ TakeClose \/ TakeOpen \/ TakeMove)
  <1>t. WindowsTypeOK
    BY DEF TypeOK
  <1>1. CASE UNCHANGED events
    BY <1>1
  <1>2. CASE Disconnects
    BY <1>2 DEF Disconnects
  <1>3. CASE TakeReload \/ TakeClose \/ TakeOpen \/ TakeMove
    <2>1. PICK of : Take(of)
      BY <1>3, TakesOne
    <2>2. /\ DOMAIN events = 1..Len(events) /\ DOMAIN events' = 1..Len(events')
          /\ Len(events) \in Nat \ {0} /\ Len(events') = Len(events) - 1
          /\ \A j \in DOMAIN events' : events'[j] = events[j + 1]
      BY <2>1, <1>t, TakeLines
    <2>3. i # 1 => i - 1 \in DOMAIN events' /\ events'[i - 1] = events[i]
      BY <2>2
    <2> QED
      BY <1>3, <2>3
  <1>4. ASSUME NEW of \in Happenings, NEW a \in Addrs \union {NoWindow}, NEW k \in Kinds, Told(of, a, k)
        PROVE  i \in DOMAIN events' /\ events'[i] = events[i]
    BY <1>4, <1>t, TellLines DEF Told
  <1>5. CASE Scan
    BY <1>5 DEF Scan
  <1> QED
    BY LineSteps, <1>1, <1>2, <1>3, <1>4, <1>5

(* What is lost stays lost, unless a scan makes up for it.                 *)
LEMMA MissedStays ==
  ASSUME TypeOK, [Next]_vars, ~Restart, NEW m \in missed
  PROVE  m \in missed' \/ (Scan /\ m.of \notin {"close", "reload"})
  <1>t. WindowsTypeOK
    BY DEF TypeOK
  <1>1. CASE Scan
    BY <1>1 DEF Scan
  <1>2. CASE Disconnects
    BY <1>2 DEF Disconnects
  <1>3. CASE TakeReload \/ TakeClose \/ TakeOpen \/ TakeMove
    BY <1>3, TakesOne
  <1>4. ASSUME NEW of \in Happenings, NEW a \in Addrs \union {NoWindow}, NEW k \in Kinds, Told(of, a, k)
        PROVE  missed \subseteq missed'
    BY <1>4, <1>t, TellLines DEF Told
  <1> QED
    BY LineSteps, <1>1, <1>2, <1>3, <1>4

-----------------------------------------------------------------------------
(* The rules went, and the line that tells of it is still to come or lost. *)
Dropped ==
  \/ \E i \in DOMAIN events : events[i].of = "reload"
  \/ [of |-> "reload", a |-> NoWindow] \in missed

(* A batch that goes well leaves every wanted rule with its class, those   *)
(* that it has set so far while it is at it.                               *)
GivenInv ==
  /\ batch.at = "undo" => ~batch.ok
  /\ batch.at = "set" => batch.todo \union batch.made = Wanted
  /\ batch.at = "drop" => batch.todo \intersect Wanted = {}
  /\ batch.ok /\ ~Dropped =>
       \A n \in Wanted : (batch.at = "set" => n \in batch.made) => live[n] = entries[n]

(* Only a new batch makes up for rules that went.                          *)
LEMMA DroppedStays ==
  ASSUME TypeOK, [Next]_vars, ~Restart, ~TakeReload, Dropped
  PROVE  Dropped'
  <1>1. ASSUME NEW i \in DOMAIN events, events[i].of = "reload"
        PROVE  Dropped'
    <2>1. events[i] \in Line
      BY DEF TypeOK, WindowsTypeOK
    <2>2. events[i].a = NoWindow
      BY <1>1, <2>1 DEF Line
    <2>3. ASSUME TakeClose \/ TakeOpen \/ TakeMove PROVE i # 1
      <3>1. PICK of \in {"close", "open", "move"} : Take(of)
        BY <2>3 DEF TakeClose, TakeOpen, TakeMove
      <3>2. events[1].of = of
        BY <3>1, TakeLines DEF TypeOK
      <3> QED
        BY <1>1, <3>2
    <2> QED
      BY <1>1, <2>2, <2>3, LineStays DEF Dropped
  <1>2. ASSUME [of |-> "reload", a |-> NoWindow] \in missed
        PROVE  Dropped'
    BY <1>2, MissedStays DEF Dropped
  <1> QED
    BY <1>1, <1>2 DEF Dropped

(* Every step keeps what a batch has given.                                *)
LEMMA GivenNext ==
  ASSUME TypeOK, GivenInv, [Next]_vars
  PROVE  GivenInv'
  <1>t. /\ batch \in Batches /\ live \in [Names -> Classes] /\ Wanted \subseteq Names
        /\ batch.todo \in SUBSET Names /\ batch.made \in SUBSET Names
    BY BatchSets DEF TypeOK, RulesTypeOK
  <1>w. UNCHANGED entries => Wanted' = Wanted
    BY DEF Wanted
  <1>n. Restart \/ TakeReload \/ Reload => batch'.at = "set" /\ batch'.made = {} /\ batch'.todo = Wanted'
    BY DEF Restart, TakeReload, Reload, Enforce, BeginBatch, Wanted
  <1>0. CASE RulesQuiet
    <2>1. UNCHANGED <<entries, live, batch, Wanted>>
      BY <1>0, <1>w DEF RulesQuiet, rules
    <2>2. CASE Restart \/ TakeReload
      BY <2>2, <1>n DEF GivenInv
    <2>3. CASE ~Restart /\ ~TakeReload
      BY <2>1, <2>3, DroppedStays DEF GivenInv
    <2> QED
      BY <2>2, <2>3
  <1>1. CASE Restart \/ TakeReload \/ Reload
    BY <1>1, <1>n DEF GivenInv
  <1>2. CASE HyprlandReloads
    <2>1. Tell("reload", NoWindow, "other") /\ UNCHANGED <<entries, batch>>
      BY <1>2 DEF HyprlandReloads
    <2>2. Dropped'
      <3>1. "reload" \in Happenings /\ "other" \in Kinds /\ WindowsTypeOK
        BY DEF Happenings, Kinds, TypeOK
      <3> QED
        BY <2>1, <3>1, TellLines DEF Dropped
    <2> QED
      BY <2>1, <2>2, <1>w DEF GivenInv
  <1>3. CASE Scan \/ ScanFails
    <2>1. /\ UNCHANGED <<entries, live>> /\ batch.at = "done"
          /\ batch'.at = "none" /\ batch'.ok = batch.ok
      BY <1>3, <1>t DEF Scan, ScanFails, Batches
    <2>2. Dropped => Dropped'
      BY <1>n, <2>1, DroppedStays
    <2> QED
      BY <2>1, <2>2, <1>w DEF GivenInv
  <1>4. CASE BatchStep /\ ~Restart /\ ~TakeReload
    <2>d. Dropped => Dropped'
      BY <1>4, DroppedStays
    <2>1. ASSUME NEW n \in Names, SetRule(n)
          PROVE  GivenInv'
      <3>1. /\ batch'.at = "set" /\ batch'.todo = batch.todo \ {n} /\ batch'.ok = batch.ok
            /\ batch'.made = batch.made \union {n} /\ batch.at = "set" /\ n \in batch.todo
        BY <2>1, <1>t DEF SetRule, Batches
      <3>2. live'[n] = entries[n] /\ \A m \in Names \ {n} : live'[m] = live[m]
        BY <2>1, <1>t DEF SetRule
      <3> QED
        BY <2>1, <3>1, <3>2, <2>d, <1>t, <1>w DEF GivenInv, SetRule
    <2>2. ASSUME NEW n \in Names, SetFails(n)
          PROVE  GivenInv'
      <3>1. batch'.at = "undo" /\ ~batch'.ok
        BY <2>2, <1>t DEF SetFails, Batches
      <3> QED
        BY <3>1 DEF GivenInv
    <2>3. ASSUME NEW n \in Names, UndoRule(n) \/ UndoFails(n)
          PROVE  GivenInv'
      <3>1. batch'.at = "undo" /\ batch'.ok = batch.ok /\ batch.at = "undo"
        BY <2>3, <1>t DEF UndoRule, UndoFails, Batches
      <3> QED
        BY <3>1 DEF GivenInv
    <2>4. CASE BeginDrop
      <3>1. /\ batch'.at = "drop" /\ batch'.todo = registry \ Wanted /\ batch'.ok = batch.ok
            /\ batch.at = "set" /\ batch.todo = {}
        BY <2>4, <1>t DEF BeginDrop, Batches
      <3> QED
        BY <2>4, <3>1, <2>d, <1>w DEF GivenInv, BeginDrop
    <2>5. ASSUME NEW n \in Names, DropRule(n) \/ DropFails(n)
          PROVE  GivenInv'
      <3>1. /\ batch'.at = "drop" /\ batch'.todo = batch.todo \ {n} /\ batch'.ok = batch.ok
            /\ batch.at = "drop" /\ n \in batch.todo /\ entries' = entries
        BY <2>5, <1>t DEF DropRule, DropFails, Batches
      <3>2. \A m \in Names \ {n} : live'[m] = live[m]
        BY <2>5, <1>t DEF DropRule, DropFails
      <3> QED
        BY <3>1, <3>2, <2>d, <1>t, <1>w DEF GivenInv
    <2>6. CASE WriteNames \/ WriteSpecs \/ EndUndo
      <3>1. /\ batch'.at \in {"specs", "done"} /\ batch'.ok = batch.ok /\ batch.at # "set"
            /\ UNCHANGED <<entries, live>>
        BY <2>6, <1>t DEF WriteNames, WriteSpecs, EndUndo, Batches
      <3> QED
        BY <3>1, <2>d, <1>w DEF GivenInv
    <2> QED
      BY <1>4, <2>1, <2>2, <2>3, <2>4, <2>5, <2>6 DEF BatchStep
  <1> QED
    BY RulesSteps, <1>0, <1>1, <1>2, <1>3, <1>4

-----------------------------------------------------------------------------
(* The connection changes hands only so.                                   *)
LEMMA SocketSteps ==
  ASSUME [Next]_vars
  PROVE  socket' = socket \/ Connect \/ Disconnects \/ Restart
  <1>1. ASSUME NEW c \in todo, Look(c) \/ LookFails(c) \/ Skip(c) \/ Stays(c) \/ Move(c) \/ MoveFails(c)
        PROVE  socket' = socket
    BY <1>1 DEF Look, LookFails, Skip, Stays, Move, MoveFails
  <1>2. CASE UNCHANGED cvars \/ Scan \/ ScanFails \/ TakeReload \/ TakeClose \/ TakeOpen \/ TakeMove
               \/ Release \/ Expire \/ HyprlandReloads \/ Reload
    BY <1>2 DEF cvars, Scan, ScanFails, TakeReload, TakeClose, TakeOpen, TakeMove, Release, Expire,
      HyprlandReloads, Reload
  <1>3. ASSUME NEW a \in Addrs,
               (\E k \in Kinds \ {"other"} : WindowOpens(a, k))
                 \/ WindowCloses(a) \/ PersonDrags(a) \/ PersonReleases(a) \/ DeadlinePasses(a)
        PROVE  socket' = socket
    BY <1>3 DEF WindowOpens, WindowCloses, PersonDrags, PersonReleases, DeadlinePasses
  <1> QED
    BY Steps, <1>1, <1>2, <1>3

(* A window that is there after a step has just opened, or it is the one   *)
(* from before, and only the person takes it off the space.                *)
LEMMA WindowSteps ==
  ASSUME TypeOK, [Next]_vars, NEW a \in Addrs, Open(a)'
  PROVE  \/ \E k \in Kinds \ {"other"} : WindowOpens(a, k)
         \/ /\ Open(a)
            /\ window'[a].id = window[a].id /\ window'[a].kind = window[a].kind
            /\ window[a].on => window'[a].on \/ PersonDrags(a)
  <1>t. window \in [Addrs -> Win \union {NoWindow}]
    BY DEF TypeOK, WindowsTypeOK
  <1>w. Open(a) => window[a] \in Win
    BY <1>t DEF Open
  <1>m. ASSUME NEW w \in Win, NEW x
        PROVE  /\ [w EXCEPT !.on = x].id = w.id /\ [w EXCEPT !.on = x].kind = w.kind
               /\ [w EXCEPT !.exempt = x].id = w.id /\ [w EXCEPT !.exempt = x].kind = w.kind
               /\ [w EXCEPT !.exempt = x].on = w.on /\ [w EXCEPT !.on = x].on = x
    BY DEF Win
  <1>1. ASSUME window'[a] = window[a]
        PROVE  Open(a)
    BY <1>1 DEF Open
  <1>2. ASSUME NEW c \in todo, Move(c), window'[a] # window[a]
        PROVE  Open(a) /\ window'[a] = [window[a] EXCEPT !.on = TRUE]
    BY <1>2, <1>t DEF Move
  <1>3. ASSUME Release, window'[a] # window[a]
        PROVE  Open(a) /\ window'[a] = [window[a] EXCEPT !.exempt = TRUE]
    BY <1>3, <1>t DEF Release, Refused
  <1>4. ASSUME Restart
        PROVE  Open(a) /\ window'[a] = [window[a] EXCEPT !.exempt = FALSE]
    BY <1>4 DEF Restart, Open
  <1>5. ASSUME NEW b \in Addrs, DeadlinePasses(b), window'[a] # window[a]
        PROVE  Open(a) /\ window'[a] = [window[a] EXCEPT !.exempt = FALSE]
    BY <1>5, <1>t DEF DeadlinePasses
  <1>6. ASSUME NEW b \in Addrs, PersonDrags(b), window'[a] # window[a]
        PROVE  PersonDrags(a) /\ Open(a) /\ window'[a] = [window[a] EXCEPT !.on = ~window[a].on]
    BY <1>6, <1>t DEF PersonDrags
  <1>7. ASSUME NEW b \in Addrs, WindowCloses(b)
        PROVE  window'[a] = window[a]
    BY <1>7, <1>t DEF WindowCloses, Open
  <1>8. ASSUME NEW b \in Addrs, NEW k \in Kinds \ {"other"}, WindowOpens(b, k), window'[a] # window[a]
        PROVE  WindowOpens(a, k)
    BY <1>8, <1>t DEF WindowOpens
  <1>9. ASSUME NEW c \in todo, Look(c) \/ LookFails(c) \/ Skip(c) \/ Stays(c) \/ MoveFails(c)
        PROVE  window' = window
    BY <1>9 DEF Look, LookFails, Skip, Stays, MoveFails, windows
  <1>10. ASSUME NEW b \in Addrs, PersonReleases(b)
         PROVE  window' = window
    BY <1>10 DEF PersonReleases, windows
  <1>11. ASSUME UNCHANGED cvars \/ Scan \/ ScanFails \/ Connect \/ Reload \/ TakeReload \/ TakeClose \/ TakeOpen
                  \/ TakeMove \/ Expire \/ HyprlandReloads \/ Disconnects
         PROVE  window' = window
    BY <1>11 DEF cvars, windows, Scan, ScanFails, Connect, Reload, TakeReload, TakeClose, TakeOpen, TakeMove,
      Expire, HyprlandReloads, Disconnects
  <1>12. \/ window'[a] = window[a]
         \/ /\ Open(a)
            /\ \/ window'[a] = [window[a] EXCEPT !.on = TRUE]
               \/ window'[a] = [window[a] EXCEPT !.exempt = TRUE]
               \/ window'[a] = [window[a] EXCEPT !.exempt = FALSE]
               \/ PersonDrags(a) /\ window'[a] = [window[a] EXCEPT !.on = ~window[a].on]
         \/ \E k \in Kinds \ {"other"} : WindowOpens(a, k)
    BY Steps, <1>2, <1>3, <1>4, <1>5, <1>6, <1>7, <1>8, <1>9, <1>10, <1>11
  <1> QED
    <2>1. ASSUME Open(a), NEW x, window'[a] = [window[a] EXCEPT !.on = x], x = TRUE \/ PersonDrags(a)
          PROVE  /\ window'[a].id = window[a].id /\ window'[a].kind = window[a].kind
                 /\ window'[a].on \/ PersonDrags(a)
      BY <1>w, <1>m, <2>1
    <2>2. ASSUME Open(a), NEW x, window'[a] = [window[a] EXCEPT !.exempt = x]
          PROVE  /\ window'[a].id = window[a].id /\ window'[a].kind = window[a].kind
                 /\ window'[a].on = window[a].on
      BY <1>w, <1>m, <2>2
    <2> QED
      BY <1>1, <1>12, <2>1, <2>2

(* A listener that is not connected has no lines.                          *)
EmptyInv == ~socket => events = <<>>

(* A line that closes an address where a window is has the line of that    *)
(* window behind it.                                                       *)
ReopenAt(a) ==
  Open(a) => \A i \in DOMAIN events : Closes(i, a) =>
               \E j \in DOMAIN events : i < j /\ events[j].of = "open" /\ events[j].a = a

(* No line without a connection.                                           *)
LEMMA EmptyNext ==
  ASSUME TypeOK, EmptyInv, [Next]_vars
  PROVE  EmptyInv'
  <1>1. CASE Connect \/ Disconnects \/ Restart
    BY <1>1 DEF Connect, Disconnects, Restart, EmptyInv
  <1>2. CASE UNCHANGED events /\ socket' = socket
    BY <1>2 DEF EmptyInv
  <1>3. CASE TakeReload \/ TakeClose \/ TakeOpen \/ TakeMove
    <2>1. events # <<>> /\ socket' = socket
      BY <1>3 DEF TakeReload, TakeClose, TakeOpen, TakeMove, Take
    <2> QED
      BY <2>1 DEF EmptyInv
  <1>4. ASSUME NEW of, NEW a, NEW k, Told(of, a, k), socket' = socket
        PROVE  EmptyInv'
    BY <1>4 DEF Told, Tell, EmptyInv
  <1>5. CASE Scan
    BY <1>5 DEF Scan, EmptyInv
  <1> QED
    BY SocketSteps, LineSteps, <1>1, <1>2, <1>3, <1>4, <1>5

(* The window that is there opened after the one that closed.              *)
LEMMA ReopenNext ==
  ASSUME TypeOK, EmptyInv, [Next]_vars, NEW a \in Addrs, ReopenAt(a)
  PROVE  ReopenAt(a)'
  <1> SUFFICES ASSUME Open(a)', NEW i \in DOMAIN events', Closes(i, a)'
               PROVE  \E j \in DOMAIN events' : i < j /\ events'[j].of = "open" /\ events'[j].a = a
    BY DEF ReopenAt
  <1>t. WindowsTypeOK /\ events \in Seq(Line)
    BY DEF TypeOK, WindowsTypeOK
  <1>1. ASSUME NEW k \in Kinds \ {"other"}, WindowOpens(a, k)
        PROVE  \E j \in DOMAIN events' : i < j /\ events'[j].of = "open" /\ events'[j].a = a
    <2>1. socket
      BY <1>1 DEF EmptyInv, WindowOpens, Tell
    <2> DEFINE line == [of |-> "open", a |-> a, kind |-> k]
    <2>2. events' = Append(events, line)
      BY <1>1, <2>1 DEF WindowOpens, Tell
    <2>3. line \in Line
      BY DEF Line, Happenings
    <2>4. /\ DOMAIN events' = 1..(Len(events) + 1) /\ Len(events) \in Nat
          /\ events'[Len(events) + 1] = line
      BY <2>2, <2>3, <1>t
    <2>5. line.of = "open" /\ line.a = a
      OBVIOUS
    <2>6. i # Len(events) + 1
      BY <2>4, <2>5 DEF Closes
    <2> QED
      BY <2>4, <2>5, <2>6
  <1> SUFFICES ASSUME Open(a)
               PROVE  \E j \in DOMAIN events' : i < j /\ events'[j].of = "open" /\ events'[j].a = a
    BY <1>1, WindowSteps
  <1>2. CASE UNCHANGED events
    BY <1>2 DEF ReopenAt, Closes
  <1>3. CASE Scan
    BY <1>3 DEF Scan, ReopenAt, Closes
  <1>4. CASE Restart \/ Disconnects
    BY <1>4 DEF Restart, Disconnects
  <1>5. CASE TakeReload \/ TakeClose \/ TakeOpen \/ TakeMove
    <2>1. PICK of : Take(of)
      BY <1>5, TakesOne
    <2>2. /\ DOMAIN events = 1..Len(events) /\ DOMAIN events' = 1..Len(events')
          /\ Len(events) \in Nat \ {0} /\ Len(events') = Len(events) - 1
          /\ \A j \in DOMAIN events' : events'[j] = events[j + 1]
      BY <2>1, <1>t, TakeLines
    <2>3. i + 1 \in DOMAIN events /\ Closes(i + 1, a)
      BY <2>2 DEF Closes
    <2>4. PICK j \in DOMAIN events : i + 1 < j /\ events[j].of = "open" /\ events[j].a = a
      BY <2>3 DEF ReopenAt
    <2>5. j - 1 \in DOMAIN events' /\ events'[j - 1] = events[j] /\ i < j - 1
      BY <2>2, <2>4
    <2> QED
      BY <2>4, <2>5
  <1>6. ASSUME NEW of \in Happenings, NEW b \in Addrs \union {NoWindow}, NEW k \in Kinds, Told(of, b, k)
        PROVE  \E j \in DOMAIN events' : i < j /\ events'[j].of = "open" /\ events'[j].a = a
    <2>1. /\ \A j \in DOMAIN events : j \in DOMAIN events' /\ events'[j] = events[j]
          /\ i \in DOMAIN events \/ (events'[i].of = of /\ events'[i].a = b)
      BY <1>6, <1>t, TellLines DEF Told
    <2>2. ~(of = "close" /\ b = a)
      <3>1. window \in [Addrs -> Win \union {NoWindow}]
        BY <1>t DEF WindowsTypeOK
      <3> QED
        BY <1>6, <3>1 DEF Told, WindowCloses, Open
    <2>3. i \in DOMAIN events /\ Closes(i, a)
      BY <2>1, <2>2 DEF Closes
    <2>4. PICK j \in DOMAIN events : i < j /\ events[j].of = "open" /\ events[j].a = a
      BY <2>3 DEF ReopenAt
    <2> QED
      BY <2>1, <2>4
  <1> QED
    BY LineSteps, <1>2, <1>3, <1>4, <1>5, <1>6

-----------------------------------------------------------------------------
(* A window that is to be on the space and is not.                         *)
Wants(a) ==
  /\ Open(a) /\ Listed(window[a].kind)
  /\ released[a] = "none" /\ ~Unseen(a)
  /\ ~window[a].on /\ failures[window[a].id] = 0

(* What the loop still has to do will bring it there: a scan, a line that  *)
(* waits, or a window to look up or to place that is this one.             *)
LineFor(a, ofs) == \E i \in DOMAIN events : events[i].of \in ofs /\ events[i].a = a
Sees(c, a) == c.a = a /\ (c.fresh => c.id = window[a].id /\ c.kind = window[a].kind /\ ~c.on)
Due(a) == batch.at # "none" \/ LineFor(a, {"open", "move"}) \/ \E c \in todo : Sees(c, a)

(* Whatever is to be contained is due.                                     *)
DueInv == snap => \A a \in Addrs : Wants(a) => Due(a)

(* The settings are read anew only at a start and at a reload.             *)
LEMMA SettingSteps ==
  ASSUME [Next]_vars, ~Reload, ~Restart
  PROVE  snap' = snap /\ entries' = entries
  <1>1. ASSUME NEW c \in todo, Look(c) \/ LookFails(c) \/ Skip(c) \/ Stays(c) \/ Move(c) \/ MoveFails(c)
        PROVE  snap' = snap
    BY <1>1 DEF Look, LookFails, Skip, Stays, Move, MoveFails
  <1>2. ASSUME UNCHANGED cvars \/ Scan \/ ScanFails \/ TakeReload \/ TakeClose \/ TakeOpen \/ TakeMove
                 \/ Release \/ Expire \/ HyprlandReloads \/ Connect \/ Disconnects
        PROVE  snap' = snap
    BY <1>2 DEF cvars, Scan, ScanFails, TakeReload, TakeClose, TakeOpen, TakeMove, Release, Expire,
      HyprlandReloads, Connect, Disconnects
  <1>3. ASSUME NEW a \in Addrs,
               (\E k \in Kinds \ {"other"} : WindowOpens(a, k))
                 \/ WindowCloses(a) \/ PersonDrags(a) \/ PersonReleases(a) \/ DeadlinePasses(a)
        PROVE  snap' = snap
    BY <1>3 DEF WindowOpens, WindowCloses, PersonDrags, PersonReleases, DeadlinePasses
  <1>4. entries' = entries
    BY RulesSteps DEF RulesQuiet, rules, BatchStep, Scan, ScanFails, TakeReload, HyprlandReloads,
      BeginDrop, WriteNames, WriteSpecs, EndUndo, SetRule, SetFails, UndoRule, UndoFails, DropRule, DropFails
  <1> QED
    BY Steps, <1>1, <1>2, <1>3, <1>4

(* A batch ends with a scan, or one that fails.                            *)
LEMMA BatchEnds ==
  ASSUME TypeOK, [Next]_vars, batch'.at = "none"
  PROVE  ~Reload /\ ~Restart /\ ~TakeReload /\ (batch.at = "none" \/ Scan \/ ScanFails)
  <1>t. batch \in Batches
    BY DEF TypeOK, RulesTypeOK
  <1>1. Reload \/ Restart \/ TakeReload => batch'.at = "set"
    BY DEF Reload, Restart, TakeReload, Enforce, BeginBatch
  <1>2. BatchStep => batch'.at # "none"
    BY <1>t DEF BatchStep, BeginDrop, WriteNames, WriteSpecs, EndUndo, SetRule, SetFails, UndoRule, UndoFails,
      DropRule, DropFails, Batches
  <1>3. RulesQuiet \/ HyprlandReloads => batch' = batch
    BY DEF RulesQuiet, rules, HyprlandReloads
  <1> QED
    BY RulesSteps, <1>1, <1>2, <1>3

(* A record goes with its window's line, or when it has expired.           *)
LEMMA ReleasedSteps ==
  ASSUME TypeOK, [Next]_vars, ~Restart, NEW a \in Addrs, released'[a] = "none"
  PROVE  \/ released[a] = "none"
         \/ TakeClose /\ Head(events).a = a
         \/ Expire /\ released[a] = "past"
  <1>t. released \in [Addrs -> {"none", "runs", "past"}]
    BY DEF TypeOK, LoopTypeOK
  <1>1. CASE TakeClose
    BY <1>1, <1>t DEF TakeClose
  <1>2. CASE Expire
    BY <1>2, <1>t DEF Expire
  <1>3. CASE Release
    BY <1>3, <1>t DEF Release
  <1>4. ASSUME NEW b \in Addrs, DeadlinePasses(b)
        PROVE  released[a] = "none"
    BY <1>4, <1>t DEF DeadlinePasses
  <1>5. ASSUME NEW c \in todo, Look(c) \/ LookFails(c) \/ Skip(c) \/ Stays(c) \/ Move(c) \/ MoveFails(c)
        PROVE  released' = released
    BY <1>5 DEF Look, LookFails, Skip, Stays, Move, MoveFails, records
  <1>6. CASE UNCHANGED cvars \/ Scan \/ ScanFails \/ Connect \/ Reload \/ TakeReload \/ TakeOpen \/ TakeMove
               \/ HyprlandReloads \/ Disconnects
    BY <1>6 DEF cvars, Scan, ScanFails, Connect, Reload, TakeReload, TakeOpen, TakeMove, HyprlandReloads,
      Disconnects, records
  <1>7. ASSUME NEW b \in Addrs,
               (\E k \in Kinds \ {"other"} : WindowOpens(b, k))
                 \/ WindowCloses(b) \/ PersonDrags(b) \/ PersonReleases(b)
        PROVE  released' = released
    BY <1>7 DEF WindowOpens, WindowCloses, PersonDrags, PersonReleases, records
  <1> QED
    BY Steps, <1>1, <1>2, <1>3, <1>4, <1>5, <1>6, <1>7

(* Failures are counted up until the listener starts anew.                 *)
LEMMA FailuresGrow ==
  ASSUME TypeOK, [Next]_vars, ~Restart, NEW i \in Ids
  PROVE  failures'[i] \in {failures[i], failures[i] + 1}
  <1>t. failures \in [Ids -> Nat]
    BY DEF TypeOK, LoopTypeOK
  <1>s. ASSUME NEW ids, Spoils(ids)
        PROVE  failures'[i] \in {failures[i], failures[i] + 1}
    BY <1>s DEF Spoils
  <1>1. ASSUME NEW c \in todo, LookFails(c) \/ MoveFails(c)
        PROVE  failures'[i] \in {failures[i], failures[i] + 1}
    BY <1>1, <1>s DEF LookFails, MoveFails
  <1>2. CASE ScanFails
    BY <1>2, <1>s DEF ScanFails
  <1>3. ASSUME NEW c \in todo, Look(c) \/ Skip(c) \/ Stays(c) \/ Move(c)
        PROVE  failures' = failures
    BY <1>3 DEF Look, Skip, Stays, Move
  <1>4. CASE UNCHANGED cvars \/ Scan \/ Connect \/ Reload \/ TakeReload \/ TakeClose \/ TakeOpen \/ TakeMove
               \/ Release \/ Expire \/ HyprlandReloads \/ Disconnects
    BY <1>4 DEF cvars, Scan, Connect, Reload, TakeReload, TakeClose, TakeOpen, TakeMove, Release, Expire,
      HyprlandReloads, Disconnects
  <1>5. ASSUME NEW b \in Addrs,
               (\E k \in Kinds \ {"other"} : WindowOpens(b, k))
                 \/ WindowCloses(b) \/ PersonDrags(b) \/ PersonReleases(b) \/ DeadlinePasses(b)
        PROVE  failures' = failures
    BY <1>5 DEF WindowOpens, WindowCloses, PersonDrags, PersonReleases, DeadlinePasses
  <1> QED
    BY Steps, <1>1, <1>2, <1>3, <1>4, <1>5

(* What the loop has found it looks up or places.                          *)
LEMMA FoundStays ==
  ASSUME [Next]_vars, ~Restart, ~Scan, NEW c \in todo
  PROVE  c \in todo' \/ Look(c) \/ LookFails(c) \/ Skip(c) \/ Stays(c) \/ Move(c) \/ MoveFails(c)
  <1>1. ASSUME NEW d \in todo, Look(d) \/ LookFails(d) \/ Skip(d) \/ Stays(d) \/ Move(d) \/ MoveFails(d), c # d
        PROVE  c \in todo'
    BY <1>1 DEF Look, LookFails, Skip, Stays, Move, MoveFails
  <1>2. CASE UNCHANGED cvars \/ ScanFails \/ Connect \/ Reload \/ TakeReload \/ TakeClose \/ Release
               \/ HyprlandReloads \/ Disconnects
    BY <1>2 DEF cvars, ScanFails, Connect, Reload, TakeReload, TakeClose, Release, HyprlandReloads, Disconnects
  <1>3. ~TakeOpen /\ ~TakeMove /\ ~Expire
    BY DEF TakeOpen, TakeMove, Take, Expire, Idle
  <1>4. ASSUME NEW b \in Addrs,
               (\E k \in Kinds \ {"other"} : WindowOpens(b, k))
                 \/ WindowCloses(b) \/ PersonDrags(b) \/ PersonReleases(b) \/ DeadlinePasses(b)
        PROVE  todo' = todo
    BY <1>4 DEF WindowOpens, WindowCloses, PersonDrags, PersonReleases, DeadlinePasses
  <1> QED
    BY Steps, <1>1, <1>2, <1>3, <1>4

(* A line that is written waits, or is lost.                               *)
LEMMA ToldIsDue ==
  ASSUME TypeOK, NEW a \in Addrs, NEW of \in {"open", "move"}, NEW k \in Kinds, Tell(of, a, k), ~Unseen(a)'
  PROVE  Due(a)'
  <1>1. of \in Happenings /\ (of = "reload" <=> a = NoWindow)
    BY AddrsAreSome DEF Happenings
  <1>2. \/ \E i \in DOMAIN events' : events'[i].of = of /\ events'[i].a = a
        \/ [of |-> of, a |-> a] \in missed'
    BY <1>1, TellLines DEF TypeOK
  <1>3. [of |-> of, a |-> a].a = a
    OBVIOUS
  <1>4. [of |-> of, a |-> a] \notin missed'
    BY <1>3 DEF Unseen
  <1> QED
    BY <1>2, <1>4 DEF Due, LineFor

(* What the loop is about to look up at an address is the window there.    *)
LEMMA LookUpSees ==
  ASSUME NEW a, NEW k, NEW o
  PROVE  Sees(LookUp(a, k, o), a)'
  <1>1. LookUp(a, k, o).a = a /\ LookUp(a, k, o).fresh = FALSE
    BY DEF LookUp
  <1> QED
    BY <1>1 DEF Sees

(* And so is what it sees of a window that is not on the space.            *)
LEMMA SnapshotIsDue ==
  ASSUME NEW a, NEW f, NEW o, Snapshot(a, f, o) \in todo', ~window[a].on, window' = window
  PROVE  Due(a)'
  <1>1. PICK c \in todo' : c = Snapshot(a, f, o)
    OBVIOUS
  <1>2. c.a = a /\ c.id = window'[a].id /\ c.kind = window'[a].kind /\ ~c.on
    BY <1>1 DEF Snapshot
  <1> QED
    BY <1>1, <1>2 DEF Due, Sees

(* A line that makes a window due does so until it is lost, or the loop    *)
(* has the window to look up.                                              *)
LEMMA LineKeepsDue ==
  ASSUME TypeOK, [Next]_vars, ~Restart, snap, NEW a \in Addrs, LineFor(a, {"open", "move"}), ~Unseen(a)'
  PROVE  Due(a)'
  <1>t. WindowsTypeOK
    BY DEF TypeOK
  <1>1. PICK i \in DOMAIN events : events[i].of \in {"open", "move"} /\ events[i].a = a
    BY DEF LineFor
  <1>2. CASE \E j \in DOMAIN events' : events'[j] = events[i]
    BY <1>1, <1>2 DEF Due, LineFor
  <1>3. [of |-> events[i].of, a |-> events[i].a] \notin missed'
    <2>1. [of |-> events[i].of, a |-> events[i].a].a = a
      BY <1>1
    <2> QED
      BY <2>1 DEF Unseen
  <1>4. CASE i = 1 /\ (TakeReload \/ TakeClose \/ TakeOpen \/ TakeMove)
    <2>1. PICK of \in Happenings : /\ Take(of)
                                   /\ of = "open" => TakeOpen
                                   /\ of = "move" => TakeMove
      BY <1>4, TakesOne
    <2>2. Head(events) = events[1] /\ Head(events).of = of
      BY <2>1, <1>t, TakeLines
    <2>3. Head(events).a = a /\ of \in {"open", "move"}
      BY <1>1, <1>4, <2>2
    <2>4. \E k, o : LookUp(a, k, o) \in todo'
      BY <2>1, <2>3 DEF TakeOpen, TakeMove
    <2> QED
      BY <2>4, LookUpSees DEF Due
  <1> QED
    BY LineStays, <1>2, <1>3, <1>4

(* What the loop has found of a window that is to be contained it keeps,   *)
(* until it has placed the window or a call has failed.                    *)
LEMMA FoundKeepsDue ==
  ASSUME TypeOK, [Next]_vars, ~Restart, ~Scan, snap, NEW a \in Addrs, Wants(a), Wants(a)',
         window'[a].id = window[a].id, window'[a].kind = window[a].kind,
         NEW c \in todo, Sees(c, a)
  PROVE  Due(a)'
  <1>t. /\ window[a].id \in Ids /\ failures \in [Ids -> Nat]
        /\ window \in [Addrs -> Win \union {NoWindow}]
    BY DEF Wants, Open, TypeOK, WindowsTypeOK, LoopTypeOK, Win
  <1>a. c.a = a
    BY DEF Sees
  <1>s. ASSUME Spoils(IdAt(a))
        PROVE  FALSE
    <2>1. failures'[window[a].id] = failures[window[a].id] + 1
      BY <1>s, <1>t DEF Spoils, IdAt, Wants
    <2> QED
      BY <2>1, <1>t DEF Wants
  <1>1. CASE c \in todo'
    BY <1>1 DEF Due, Sees
  <1>2. CASE Look(c)
    <2>1. window' = window /\ Snapshot(a, TRUE, c.opened) \in todo'
      BY <1>2, <1>a DEF Look, windows, Wants
    <2> QED
      BY <2>1, SnapshotIsDue DEF Wants
  <1>3. ~LookFails(c) /\ ~MoveFails(c)
    BY <1>a, <1>s DEF LookFails, MoveFails
  <1>4. ~Skip(c)
    BY <1>a DEF Skip, Skipped, Sees, Wants
  <1>5. ~Stays(c)
    BY DEF Stays, Sees
  <1>6. ~Move(c)
    <2>1. ASSUME Move(c)
          PROVE  window' = [window EXCEPT ![a] = [window[a] EXCEPT !.on = TRUE]]
      BY <2>1, <1>a DEF Move, Wants
    <2>2. window[a] \in Win
      BY <1>t DEF Wants, Open
    <2>3. [window[a] EXCEPT !.on = TRUE].on = TRUE
      BY <2>2 DEF Win
    <2>4. ASSUME Move(c)
          PROVE  FALSE
      BY <2>1, <2>3, <2>4, <1>t DEF Wants
    <2> QED
      BY <2>4
  <1> QED
    BY FoundStays, <1>1, <1>2, <1>3, <1>4, <1>5, <1>6

(* Every step leaves what is to be contained due.                          *)
LEMMA DueNext ==
  ASSUME TypeOK, EmptyInv, \A b \in Addrs : ReopenAt(b), DueInv, [Next]_vars
  PROVE  DueInv'
  <1> SUFFICES ASSUME snap', NEW a \in Addrs, Wants(a)', batch'.at = "none"
               PROVE  Due(a)'
    BY DEF DueInv, Due
  <1>t. /\ WindowsTypeOK /\ failures \in [Ids -> Nat]
        /\ window \in [Addrs -> Win \union {NoWindow}] /\ TypeOK'
    BY TypeNext DEF TypeOK, WindowsTypeOK, LoopTypeOK
  <1>w. \A b \in Addrs : Open(b) => window[b].id \in Ids /\ window[b].kind \in Kinds
    BY <1>t DEF Open, Win
  <1>e. /\ ~Reload /\ ~Restart /\ ~TakeReload /\ snap /\ entries' = entries
        /\ batch.at = "none" \/ Scan \/ ScanFails
    BY BatchEnds, SettingSteps
  <1>u. ~Unseen(a)' /\ Open(a)'
    BY DEF Wants
  <1>1. ASSUME NEW k \in Kinds \ {"other"}, WindowOpens(a, k)
        PROVE  Due(a)'
    BY <1>1, <1>u, ToldIsDue DEF WindowOpens
  <1>2. ASSUME PersonDrags(a)
        PROVE  Due(a)'
    BY <1>2, <1>u, <1>w, ToldIsDue DEF PersonDrags
  <1> SUFFICES ASSUME /\ Open(a)
                      /\ window'[a].id = window[a].id /\ window'[a].kind = window[a].kind
                      /\ ~window[a].on
               PROVE  Due(a)'
    BY <1>u, <1>1, <1>2, WindowSteps DEF Wants
  <1>3. CASE Scan
    <2>1. Snapshot(a, TRUE, FALSE) \in todo' /\ window' = window
      BY <1>3 DEF Scan
    <2> QED
      BY <2>1, SnapshotIsDue
  <1>4. ~ScanFails
    <2>1. ASSUME ScanFails
          PROVE  failures'[window[a].id] = failures[window[a].id] + 1
      <3>1. window[a].id \in UNION {IdAt(b) : b \in Addrs}
        BY DEF IdAt
      <3> QED
        BY <2>1, <3>1, <1>w DEF ScanFails, Spoils
    <2>2. failures[window[a].id] \in Nat /\ failures'[window[a].id] = 0
      BY <1>t, <1>w DEF Wants
    <2> QED
      BY <2>1, <2>2
  <1>5. CASE TakeClose /\ Head(events).a = a
    <2>1. /\ DOMAIN events = 1..Len(events) /\ DOMAIN events' = 1..Len(events')
          /\ Len(events) \in Nat \ {0} /\ Len(events') = Len(events) - 1
          /\ \A j \in DOMAIN events' : events'[j] = events[j + 1]
          /\ Head(events) = events[1] /\ Head(events).of = "close"
      BY <1>5, <1>t, TakeLines DEF TakeClose
    <2>2. 1 \in DOMAIN events /\ Closes(1, a)
      BY <1>5, <2>1 DEF Closes
    <2>3. PICK j \in DOMAIN events : 1 < j /\ events[j].of = "open" /\ events[j].a = a
      BY <2>2 DEF ReopenAt
    <2>4. j - 1 \in DOMAIN events' /\ events'[j - 1] = events[j]
      BY <2>1, <2>3
    <2> QED
      BY <2>3, <2>4 DEF Due, LineFor
  <1>6. CASE Expire /\ released[a] = "past"
    <2>1. LookUp(a, "other", FALSE) \in todo'
      BY <1>6, <1>e DEF Expire, AfterExpiry
    <2> QED
      BY <2>1, LookUpSees DEF Due
  <1>7. CASE ~Scan /\ released[a] = "none"
    <2>1. ~Unseen(a)
      BY <1>7, <1>e, <1>u, MissedStays DEF Unseen
    <2>2. failures[window[a].id] = 0
      <3>1. failures'[window[a].id] \in {failures[window[a].id], failures[window[a].id] + 1} /\ failures[window[a].id] \in Nat
        BY <1>t, <1>w, <1>e, FailuresGrow
      <3>2. failures'[window[a].id] = 0
        BY DEF Wants
      <3> QED
        BY <3>1, <3>2
    <2>3. Wants(a)
      BY <2>1, <2>2, <1>7, <1>e DEF Wants, Listed
    <2>4. LineFor(a, {"open", "move"}) \/ \E c \in todo : Sees(c, a)
      BY <2>3, <1>e, <1>4, <1>7 DEF DueInv, Due
    <2> QED
      BY <2>3, <2>4, <1>e, <1>u, <1>7, LineKeepsDue, FoundKeepsDue
  <1> QED
    BY <1>3, <1>4, <1>5, <1>6, <1>7, <1>e, ReleasedSteps DEF Wants

(* What nothing left to do needs: each part in its turn.                   *)
ContainInv == GivenInv /\ EmptyInv /\ (\A a \in Addrs : ReopenAt(a)) /\ DueInv

(* When nothing is left to do, no listed window that the listener was told *)
(* of is left out and the compositor has every rule: for any windows,      *)
(* addresses used again, lines lost or late, releases and failed calls.    *)
THEOREM NothingLeftOut == Spec => []SettledIsContained
  <1>1. Init => ContainInv
    <2> SUFFICES ASSUME Init PROVE ContainInv
      OBVIOUS
    <2>1. GivenInv
      BY DEF Init, RulesInit, GivenInv, BatchRest, Wanted
    <2>2. EmptyInv /\ \A a \in Addrs : ~Open(a)
      BY DEF Init, EmptyInv, Open
    <2> QED
      BY <2>1, <2>2 DEF ContainInv, ReopenAt, DueInv, Wants
  <1>2. TypeOK /\ ContainInv /\ [Next]_vars => ContainInv'
    BY GivenNext, EmptyNext, ReopenNext, DueNext DEF ContainInv
  <1>3. TypeOK /\ ContainInv => SettledIsContained
    <2> SUFFICES ASSUME TypeOK, ContainInv, Settled PROVE SettledIsContained
      BY DEF SettledIsContained, WindowsAreContained, SettledRulesAreLive
    <2>1. events = <<>> /\ batch.at = "none" /\ todo = {}
      BY DEF Settled, Idle
    <2>2. \A a \in Addrs : ~Due(a)
      BY <2>1 DEF Due, LineFor
    <2>3. WindowsAreContained
      BY <2>2 DEF ContainInv, DueInv, Wants, WindowsAreContained
    <2>4. SettledRulesAreLive
      BY <2>1 DEF ContainInv, GivenInv, Dropped, SettledRulesAreLive
    <2> QED
      BY <2>3, <2>4 DEF SettledIsContained
  <1> QED
    BY <1>1, <1>2, <1>3, ContainTypeCorrect, PTL DEF Spec

-----------------------------------------------------------------------------
(* The lines that still close an address, and a record of an offer.        *)
Late(a) == {i \in DOMAIN events : Closes(i, a)}
Record(i) == [id |-> i, failed |-> FALSE]

(* Whether the next event may offer a window again: its record is another  *)
(* one, or what the loop found at its address is not it.                   *)
Again(a) ==
  \/ adopted[a] # Record(window[a].id)
  \/ \E c \in todo : c.a = a /\ c.fresh /\ c.id # window[a].id

One(b) == IF b THEN 1 ELSE 0

(* Windows have different ids, and what the loop has found is one of them. *)
IdInv ==
  /\ \A a \in Addrs : Open(a) => window[a].id <= opens
  /\ \A a, b \in Addrs : Open(a) /\ Open(b) /\ window[a].id = window[b].id => a = b
  /\ \A c \in todo : c.id <= opens /\ (~c.fresh => c.id = 0)
  /\ \A c \in todo, b \in Addrs : Open(b) /\ c.id = window[b].id => c.a = b
  /\ \A c, d \in todo : c.a = d.a \/ (c.id = d.id /\ c.id # 0) => c = d
  /\ \A i \in Ids : i > opens => offers[i] = 0

(* The lines that close an address are those of earlier windows there.     *)
LateAt(a) == IF Open(a) THEN Cardinality(Late(a)) < window[a].id ELSE Cardinality(Late(a)) <= opens

(* The offers a window got and may still get, the next one among them.     *)
OfferedAt(a) ==
  Open(a) => offers[window[a].id] + One(Again(a)) + Cardinality(Late(a))
               <= window[a].id + failures[window[a].id]

Placed(c) == c.id # 0 => offers[c.id] + One(adopted[c.a] # Record(c.id)) <= c.id + failures[c.id]

OfferInv ==
  /\ \A a \in Addrs : LateAt(a) /\ OfferedAt(a)
  /\ \A c \in todo : Placed(c)
  /\ \A i \in Ids : offers[i] <= i + failures[i]

(* Finitely many lines wait.                                               *)
LEMMA LateFinite ==
  ASSUME TypeOK, NEW a
  PROVE  IsFiniteSet(Late(a)) /\ Cardinality(Late(a)) \in Nat
  <1>1. DOMAIN events = 1..Len(events) /\ Len(events) \in Nat
    BY DEF TypeOK, WindowsTypeOK
  <1>2. IsFiniteSet(1..Len(events))
    BY <1>1, FS_Interval
  <1>3. Late(a) \in SUBSET (1..Len(events))
    BY <1>1 DEF Late
  <1>4. IsFiniteSet(Late(a))
    BY <1>2, <1>3, FS_Subset
  <1> QED
    BY <1>4, FS_CardinalityType

(* A line that closes an address is added by a window that closes there,   *)
(* and goes when it is taken.                                              *)
LEMMA LateSteps ==
  ASSUME TypeOK, [Next]_vars, NEW a \in Addrs
  PROVE  /\ Cardinality(Late(a)') <= Cardinality(Late(a)) + 1
         /\ WindowCloses(a) \/ Cardinality(Late(a)') <= Cardinality(Late(a))
         /\ TakeClose /\ Head(events).a = a => Cardinality(Late(a)') + 1 <= Cardinality(Late(a))
         /\ Cardinality(Late(a)') \in Nat
  <1>t. WindowsTypeOK /\ events \in Seq(Line) /\ DOMAIN events = 1..Len(events) /\ Len(events) \in Nat
    BY DEF TypeOK, WindowsTypeOK
  <1>f. IsFiniteSet(Late(a)) /\ Cardinality(Late(a)) \in Nat
    BY LateFinite
  <1>n. Cardinality(Late(a)') \in Nat
    <2>1. TypeOK'
      BY TypeNext
    <2>2. events' \in Seq(Line)
      BY <2>1 DEF TypeOK, WindowsTypeOK
    <2>3. DOMAIN events' = 1..Len(events') /\ Len(events') \in Nat
      BY <2>2
    <2>4. IsFiniteSet(1..Len(events')) /\ Late(a)' \in SUBSET (1..Len(events'))
      BY <2>3, FS_Interval DEF Late
    <2> QED
      BY <2>4, FS_Subset, FS_CardinalityType
  <1>1. ASSUME NEW of, Take(of)
        PROVE  /\ Cardinality(Late(a)') <= Cardinality(Late(a))
               /\ of = "close" /\ Head(events).a = a => Cardinality(Late(a)') + 1 <= Cardinality(Late(a))
    <2>1. /\ Len(events') = Len(events) - 1 /\ DOMAIN events' = 1..Len(events')
          /\ \A j \in DOMAIN events' : events'[j] = events[j + 1]
          /\ Head(events) = events[1] /\ Head(events).of = of /\ Len(events) # 0
      BY <1>1, <1>t, TakeLines
    <2> DEFINE behind == Late(a) \ {1}
               next == [i \in Late(a)' |-> i + 1]
    <2>2. ASSUME NEW i \in Late(a)'
          PROVE  i \in Nat /\ i + 1 \in behind
      BY <2>1, <1>t DEF Late, Closes
    <2>3. next \in [Late(a)' -> behind]
      BY <2>2
    <2>4. \A i, j \in Late(a)' : next[i] = next[j] => i = j
      BY <2>2
    <2>5. next \in Injection(Late(a)', behind)
      BY <2>3, <2>4 DEF Injection, IsInjective
    <2>6. /\ IsFiniteSet(behind)
          /\ Cardinality(behind) = IF 1 \in Late(a) THEN Cardinality(Late(a)) - 1 ELSE Cardinality(Late(a))
      BY <1>f, FS_RemoveElement
    <2>7. Cardinality(Late(a)') <= Cardinality(behind)
      BY <2>5, <2>6, FS_Injection
    <2>8. of = "close" /\ Head(events).a = a => 1 \in Late(a)
      BY <2>1, <1>t DEF Late, Closes
    <2> QED
      BY <2>6, <2>7, <2>8, <1>f, <1>n
  <1>2. CASE TakeReload \/ TakeClose \/ TakeOpen \/ TakeMove
    <2>1. PICK of : Take(of) /\ (of = "close" => TakeClose)
      BY <1>2, TakesOne
    <2>2. TakeClose => Take("close")
      BY DEF TakeClose
    <2> QED
      BY <2>1, <2>2, <1>1, <1>f, <1>n
  <1>3. ASSUME ~TakeClose, Late(a)' \in SUBSET Late(a)
        PROVE  /\ Cardinality(Late(a)') <= Cardinality(Late(a)) + 1
               /\ Cardinality(Late(a)') <= Cardinality(Late(a))
    BY <1>3, <1>f, <1>n, FS_Subset
  <1>4. ASSUME ~TakeClose, Late(a)' = Late(a)
        PROVE  /\ Cardinality(Late(a)') <= Cardinality(Late(a)) + 1
               /\ Cardinality(Late(a)') <= Cardinality(Late(a))
    BY <1>4, <1>f
  <1>5. CASE ~TakeClose /\ (UNCHANGED events \/ Scan)
    <2>1. Late(a)' = Late(a)
      BY <1>5 DEF Scan, Late, Closes
    <2> QED
      BY <2>1, <1>4, <1>5, <1>n
  <1>6. CASE ~TakeClose /\ (Restart \/ Disconnects)
    <2>1. Late(a)' \in SUBSET Late(a)
      BY <1>6 DEF Restart, Disconnects, Late
    <2> QED
      BY <2>1, <1>3, <1>6, <1>n
  <1>7. ASSUME ~TakeClose, NEW of \in Happenings, NEW b \in Addrs \union {NoWindow}, NEW k \in Kinds, Told(of, b, k)
        PROVE  /\ Cardinality(Late(a)') <= Cardinality(Late(a)) + 1
               /\ WindowCloses(a) \/ Cardinality(Late(a)') <= Cardinality(Late(a))
    <2>0. Tell(of, b, k)
      BY <1>7 DEF Told
    <2>1. CASE ~socket
      <3>1. Late(a)' = Late(a)
        BY <2>0, <2>1 DEF Tell, Late, Closes
      <3> QED
        BY <3>1, <1>4, <1>7
    <2>2. CASE socket
      <3> DEFINE line == [of |-> of, a |-> b, kind |-> k]
      <3>1. events' = Append(events, line)
        BY <2>0, <2>2 DEF Tell
      <3>2. line.of = of /\ line.a = b
        OBVIOUS
      <3>3. line \in Line
        BY <1>7, NoWindowAssumption DEF Line, Told
      <3>4. /\ DOMAIN events' = 1..(Len(events) + 1) /\ events'[Len(events) + 1] = line
            /\ \A i \in DOMAIN events : events'[i] = events[i]
        BY <3>1, <3>3, <1>t
      <3>5. CASE of = "close" /\ b = a
        <4> DEFINE more == Late(a) \union {Len(events) + 1}
        <4>1. Late(a)' \in SUBSET more
          BY <3>4, <1>t DEF Late, Closes
        <4>2. /\ IsFiniteSet(more)
              /\ Cardinality(more) = IF Len(events) + 1 \in Late(a) THEN Cardinality(Late(a)) ELSE Cardinality(Late(a)) + 1
          BY <1>f, FS_AddElement
        <4>3. Cardinality(Late(a)') <= Cardinality(more)
          BY <4>1, <4>2, FS_Subset
        <4>4. Cardinality(Late(a)') <= Cardinality(Late(a)) + 1
          <5> HIDE DEF more
          <5> QED
            BY <4>2, <4>3, <1>f, <1>n
        <4> QED
          BY <4>4, <3>5, <1>7 DEF Told
      <3>6. CASE ~(of = "close" /\ b = a)
        <4>1. Late(a)' = Late(a)
          BY <3>2, <3>4, <3>6, <1>t DEF Late, Closes
        <4> QED
          BY <4>1, <1>4, <1>7
      <3> QED
        BY <3>5, <3>6
    <2> QED
      BY <2>1, <2>2
  <1> QED
    BY LineSteps, <1>2, <1>5, <1>6, <1>7, <1>n

(* A window that opens gets the next id, the others keep theirs.           *)
LEMMA IdSteps ==
  ASSUME TypeOK, [Next]_vars
  PROVE  /\ opens' \in {opens, opens + 1}
         /\ \A a \in Addrs : Open(a)' =>
              \/ Open(a) /\ window'[a].id = window[a].id
              \/ /\ window'[a].id = opens + 1 /\ opens' = opens + 1
                 /\ \A b \in Addrs \ {a} : window'[b] = window[b]
  <1>t. window \in [Addrs -> Win \union {NoWindow}]
    BY DEF TypeOK, WindowsTypeOK
  <1>1. ASSUME NEW a \in Addrs, NEW k \in Kinds \ {"other"}, WindowOpens(a, k)
        PROVE  /\ window'[a].id = opens + 1 /\ opens' = opens + 1
               /\ \A b \in Addrs \ {a} : window'[b] = window[b]
    BY <1>1, <1>t DEF WindowOpens
  <1>2. ASSUME NEW c \in todo, Look(c) \/ LookFails(c) \/ Skip(c) \/ Stays(c) \/ Move(c) \/ MoveFails(c)
        PROVE  opens' = opens
    BY <1>2 DEF Look, LookFails, Skip, Stays, Move, MoveFails, windows
  <1>3. CASE UNCHANGED cvars \/ Scan \/ ScanFails \/ Connect \/ Reload \/ Restart \/ TakeReload \/ TakeClose
               \/ TakeOpen \/ TakeMove \/ Release \/ Expire \/ HyprlandReloads \/ Disconnects
    <2>1. opens' = opens
      BY <1>3 DEF cvars, windows, Scan, ScanFails, Connect, Reload, Restart, TakeReload, TakeClose, TakeOpen,
        TakeMove, Release, Expire, HyprlandReloads, Disconnects
    <2> QED
      BY <2>1, <1>1, WindowSteps
  <1>4. ASSUME NEW b \in Addrs, WindowCloses(b) \/ PersonDrags(b) \/ PersonReleases(b) \/ DeadlinePasses(b)
        PROVE  opens' = opens
    BY <1>4 DEF WindowCloses, PersonDrags, PersonReleases, DeadlinePasses, windows
  <1>5. opens' \in {opens, opens + 1}
    BY Steps, <1>1, <1>2, <1>3, <1>4
  <1> QED
    BY <1>1, <1>5, WindowSteps

(* A window that is looked up is the one at its address, or there is none  *)
(* to be known.                                                            *)
LEMMA LookSteps ==
  ASSUME TypeOK, IdInv, NEW e \in todo, Look(e) \/ LookFails(e)
  PROVE  \E new : /\ todo' \subseteq (todo \ {e}) \union {new}
                  /\ new.a = e.a /\ new.fresh
                  /\ new.id = 0 \/ (Look(e) /\ Open(e.a) /\ new.id = window[e.a].id)
                  /\ Look(e) /\ Open(e.a) => new.id = window[e.a].id
  <1>f. e \in Found /\ e.id = 0
    BY DEF IdInv, TypeOK, LoopTypeOK, Look, LookFails, MayLook
  <1>1. CASE Look(e) /\ Open(e.a)
    <2> DEFINE new == Snapshot(e.a, TRUE, e.opened)
    <2>1. todo' \subseteq (todo \ {e}) \union {new}
      BY <1>1 DEF Look
    <2>2. new.a = e.a /\ new.fresh = TRUE /\ new.id = window[e.a].id
      BY DEF Snapshot
    <2> QED
      BY <1>1, <2>1, <2>2
  <1>2. CASE LookFails(e) \/ ~Open(e.a)
    <2> DEFINE new == [e EXCEPT !.fresh = TRUE, !.kind = IF e.kind = "slice" THEN "other" ELSE e.kind]
    <2>1. todo' \subseteq (todo \ {e}) \union {new}
      BY <1>2 DEF Look, LookFails, Unread
    <2>2. new.a = e.a /\ new.fresh = TRUE /\ new.id = 0
      BY <1>f DEF Found
    <2>3. CASE ~(Look(e) /\ Open(e.a))
      BY <2>1, <2>2, <2>3
    <2> QED
      BY <1>1, <2>3
  <1> QED
    BY <1>1, <1>2

(* What a step leaves the loop to do.                                      *)
LEMMA TodoSteps ==
  ASSUME TypeOK, [Next]_vars
  PROVE  \/ todo' \subseteq todo
         \/ Scan
         \/ \A c \in todo' : c.id = 0 /\ ~c.fresh /\ \A d \in todo' : c.a = d.a => c = d
         \/ \E e \in todo : Look(e) \/ LookFails(e)
  <1>l. ASSUME NEW a, NEW k, NEW o
        PROVE  LookUp(a, k, o).id = 0 /\ ~LookUp(a, k, o).fresh /\ LookUp(a, k, o).a = a
    BY DEF LookUp
  <1>1. CASE TakeOpen \/ TakeMove
    <2>1. PICK a, k, o : todo' \subseteq {LookUp(a, k, o)}
      BY <1>1 DEF TakeOpen, TakeMove
    <2>2. \A c \in todo' : c = LookUp(a, k, o)
      BY <2>1
    <2> QED
      BY <2>2, <1>l
  <1>2. CASE Expire
    <2>1. \A c \in todo' : \E a \in Addrs : c = LookUp(a, "other", FALSE)
      BY <1>2 DEF Expire, AfterExpiry
    <2>2. ASSUME NEW c \in todo'
          PROVE  c.id = 0 /\ ~c.fresh /\ c = LookUp(c.a, "other", FALSE)
      <3>1. PICK a \in Addrs : c = LookUp(a, "other", FALSE)
        BY <2>1
      <3>2. c.id = 0 /\ c.fresh = FALSE /\ c.a = a
        BY <3>1 DEF LookUp
      <3> QED
        BY <3>1, <3>2
    <2>3. ASSUME NEW c \in todo', NEW d \in todo', c.a = d.a
          PROVE  c = d
      BY <2>2, <2>3
    <2> QED
      BY <2>2, <2>3
  <1>3. ASSUME NEW c \in todo, Skip(c) \/ Stays(c) \/ Move(c) \/ MoveFails(c)
        PROVE  todo' \subseteq todo
    BY <1>3 DEF Skip, Stays, Move, MoveFails
  <1>4. CASE UNCHANGED cvars \/ ScanFails \/ Connect \/ Reload \/ Restart \/ TakeReload \/ TakeClose \/ Release
               \/ HyprlandReloads \/ Disconnects
    <2>1. todo' \subseteq todo
      BY <1>4 DEF cvars, ScanFails, Connect, Reload, Restart, TakeReload, TakeClose, Release, HyprlandReloads,
        Disconnects
    <2> QED
      BY <2>1
  <1>5. ASSUME NEW b \in Addrs,
               (\E k \in Kinds \ {"other"} : WindowOpens(b, k))
                 \/ WindowCloses(b) \/ PersonDrags(b) \/ PersonReleases(b) \/ DeadlinePasses(b)
        PROVE  todo' = todo
    BY <1>5 DEF WindowOpens, WindowCloses, PersonDrags, PersonReleases, DeadlinePasses
  <1> QED
    BY Steps, <1>1, <1>2, <1>3, <1>4, <1>5

(* What the loop finds is a window that is there, or none that is known.   *)
LEMMA FoundSteps ==
  ASSUME TypeOK, IdInv, [Next]_vars, NEW c \in todo'
  PROVE  \/ c \in todo
         \/ c.id = 0
         \/ /\ c.a \in Addrs /\ Open(c.a) /\ c.id = window[c.a].id /\ c.fresh
            /\ UNCHANGED <<window, adopted, offers, failures>>
  <1>1. CASE Scan
    <2>1. PICK a \in Addrs : Open(a) /\ c = Snapshot(a, TRUE, FALSE)
      BY <1>1 DEF Scan
    <2>2. c.a = a /\ c.id = window[a].id /\ c.fresh = TRUE
      BY <2>1 DEF Snapshot
    <2> QED
      BY <1>1, <2>1, <2>2 DEF Scan, records
  <1>2. ASSUME NEW e \in todo, Look(e) \/ LookFails(e), c \notin todo
        PROVE  \/ c.id = 0
               \/ /\ c.a \in Addrs /\ Open(c.a) /\ c.id = window[c.a].id /\ c.fresh
                  /\ UNCHANGED <<window, adopted, offers, failures>>
    <2>1. e.a \in Addrs
      BY DEF TypeOK, LoopTypeOK, Found
    <2>2. /\ c.a = e.a /\ c.fresh
          /\ c.id = 0 \/ (Look(e) /\ Open(e.a) /\ c.id = window[e.a].id)
      BY <1>2, LookSteps
    <2> QED
      BY <2>1, <2>2 DEF Look, windows, records
  <1> QED
    BY TodoSteps, <1>1, <1>2

(* Two that the loop has to do are two windows, at two addresses.          *)
LEMMA ApartNext ==
  ASSUME TypeOK, IdInv, [Next]_vars, NEW c \in todo', NEW d \in todo', c.a = d.a \/ (c.id = d.id /\ c.id # 0)
  PROVE  c = d
  <1>1. CASE todo' \subseteq todo
    BY <1>1 DEF IdInv
  <1>2. CASE Scan
    <2>1. PICK a \in Addrs, b \in Addrs : /\ Open(a) /\ c = Snapshot(a, TRUE, FALSE)
                                          /\ Open(b) /\ d = Snapshot(b, TRUE, FALSE)
      BY <1>2 DEF Scan
    <2>2. c.a = a /\ c.id = window[a].id /\ d.a = b /\ d.id = window[b].id
      BY <2>1 DEF Snapshot
    <2>3. a = b
      BY <2>1, <2>2 DEF IdInv
    <2> QED
      BY <2>1, <2>3
  <1>3. CASE \A x \in todo' : x.id = 0 /\ ~x.fresh /\ \A y \in todo' : x.a = y.a => x = y
    BY <1>3
  <1>4. ASSUME NEW e \in todo, Look(e) \/ LookFails(e)
        PROVE  c = d
    <2>1. PICK new : /\ todo' \subseteq (todo \ {e}) \union {new}
                     /\ new.a = e.a
                     /\ new.id = 0 \/ (Open(e.a) /\ new.id = window[e.a].id)
      BY <1>4, LookSteps
    <2>2. e.a \in Addrs
      BY DEF TypeOK, LoopTypeOK, Found
    <2>3. ASSUME NEW x \in todo \ {e}, x.a = new.a \/ (x.id = new.id /\ x.id # 0)
          PROVE  FALSE
      <3>1. x.a = e.a
        BY <2>1, <2>2, <2>3 DEF IdInv
      <3> QED
        BY <3>1 DEF IdInv
    <2>4. CASE c \in todo \ {e} /\ d \in todo \ {e}
      BY <2>4 DEF IdInv
    <2> QED
      BY <2>1, <2>3, <2>4
  <1> QED
    BY TodoSteps, <1>1, <1>2, <1>3, <1>4

(* An offer is made, or the move it goes with fails.                       *)
OfferMade(c) ==
  /\ c.fresh /\ todo' = todo \ {c} /\ failures' = failures
  /\ adopted[c.a] # Record(c.id) /\ adopted' = [adopted EXCEPT ![c.a] = Record(c.id)]
  /\ \/ c.id = 0 /\ offers' = offers
     \/ c.id # 0 /\ offers' = [offers EXCEPT ![c.id] = offers[c.id] + 1]

OfferFails(c) ==
  /\ todo' = todo \ {c} /\ Spoils(IdAt(c.a)) /\ offers' = offers
  /\ adopted' = [adopted EXCEPT ![c.a] = [id |-> c.id, failed |-> TRUE]]

(* What a step does to the offers and to what is remembered of them.       *)
LEMMA OfferSteps ==
  ASSUME TypeOK, [Next]_vars
  PROVE  \/ UNCHANGED <<adopted, offers>>
         \/ Restart
         \/ TakeClose
         \/ \E c \in todo : OfferMade(c) \/ OfferFails(c)
  <1>1. ASSUME NEW c \in todo, Stays(c) \/ Move(c)
        PROVE  UNCHANGED <<adopted, offers>> \/ OfferMade(c)
    <2>1. Adopt(c, FALSE) /\ c.fresh /\ todo' = todo \ {c} /\ failures' = failures
      BY <1>1 DEF Stays, Move
    <2>2. ASSUME ~UNCHANGED <<adopted, offers>>
          PROVE  /\ adopted[c.a] # Record(c.id) /\ adopted' = [adopted EXCEPT ![c.a] = Record(c.id)]
                 /\ \/ c.id = 0 /\ offers' = offers
                    \/ c.id # 0 /\ offers' = [offers EXCEPT ![c.id] = offers[c.id] + 1]
      BY <2>1, <2>2 DEF Adopt, Noted, Record
    <2> QED
      BY <2>1, <2>2 DEF OfferMade
  <1>2. ASSUME NEW c \in todo, MoveFails(c)
        PROVE  UNCHANGED <<adopted, offers>> \/ OfferFails(c)
    BY <1>2 DEF MoveFails, Adopt, OfferFails
  <1>3. ASSUME NEW c \in todo, Look(c) \/ LookFails(c) \/ Skip(c)
        PROVE  UNCHANGED <<adopted, offers>>
    BY <1>3 DEF Look, LookFails, Skip, records
  <1>4. CASE UNCHANGED cvars \/ Scan \/ ScanFails \/ Connect \/ Reload \/ TakeReload \/ TakeOpen \/ TakeMove
               \/ Release \/ Expire \/ HyprlandReloads \/ Disconnects
    BY <1>4 DEF cvars, records, Scan, ScanFails, Connect, Reload, TakeReload, TakeOpen, TakeMove, Release, Expire,
      HyprlandReloads, Disconnects
  <1>5. ASSUME NEW b \in Addrs,
               (\E k \in Kinds \ {"other"} : WindowOpens(b, k))
                 \/ WindowCloses(b) \/ PersonDrags(b) \/ PersonReleases(b) \/ DeadlinePasses(b)
        PROVE  UNCHANGED <<adopted, offers>>
    BY <1>5 DEF WindowOpens, WindowCloses, PersonDrags, PersonReleases, DeadlinePasses, records
  <1> QED
    BY Steps, <1>1, <1>2, <1>3, <1>4, <1>5

(* The ids stay different, and what the loop has found stays one of them.  *)
LEMMA IdNext ==
  ASSUME TypeOK, IdInv, [Next]_vars
  PROVE  IdInv'
  <1>t. /\ opens \in Nat /\ window \in [Addrs -> Win \union {NoWindow}] /\ offers \in [Ids -> Nat]
        /\ todo \in SUBSET Found
    BY DEF TypeOK, WindowsTypeOK, LoopTypeOK
  <1>w. \A a \in Addrs : Open(a) => window[a].id \in Nat \ {0} /\ window[a].id \in Ids
    BY <1>t DEF Open, Win, Ids
  <1>i. \A a \in Addrs : Open(a) => window[a].id <= opens
    BY DEF IdInv
  <1>f. \A c \in todo : c.a \in Addrs /\ c.id \in Nat
    BY <1>t DEF Found, Ids
  <1>1. ASSUME NEW a \in Addrs, Open(a)'
        PROVE  window'[a].id <= opens' /\ window'[a].id \in Nat \ {0}
    BY <1>1, <1>t, <1>w, <1>i, IdSteps
  <1>2. ASSUME NEW a \in Addrs, NEW b \in Addrs, Open(a)', Open(b)', window'[a].id = window'[b].id
        PROVE  a = b
    <2>1. CASE Open(a) /\ window'[a].id = window[a].id /\ Open(b) /\ window'[b].id = window[b].id
      BY <1>2, <2>1 DEF IdInv
    <2>2. ASSUME NEW x \in Addrs, NEW y \in Addrs, window'[x].id = opens + 1, window'[y].id = opens + 1, x # y,
                 Open(y)', \A z \in Addrs \ {x} : window'[z] = window[z]
          PROVE  FALSE
      BY <2>2, <1>t, <1>w, <1>i DEF Open
    <2> QED
      BY <1>2, <2>1, <2>2, IdSteps
  <1>3. ASSUME NEW c \in todo'
        PROVE  c.id <= opens' /\ (~c.fresh => c.id = 0)
    <2>1. CASE c \in todo
      <3>1. c.id <= opens /\ (~c.fresh => c.id = 0)
        BY <2>1 DEF IdInv
      <3> QED
        BY <2>1, <3>1, <1>t, <1>f, IdSteps
    <2>2. CASE c.id = 0
      BY <2>2, <1>t, IdSteps
    <2>3. CASE c.a \in Addrs /\ Open(c.a) /\ c.id = window[c.a].id /\ c.fresh
      BY <2>3, <1>t, <1>w, <1>i, IdSteps
    <2> QED
      BY <2>1, <2>2, <2>3, FoundSteps
  <1>4. ASSUME NEW c \in todo', NEW b \in Addrs, Open(b)', c.id = window'[b].id
        PROVE  c.a = b
    <2>1. CASE c \in todo
      <3>1. c.id <= opens /\ c.id \in Nat
        BY <2>1, <1>f DEF IdInv
      <3>2. Open(b) /\ window'[b].id = window[b].id
        BY <1>4, <3>1, <1>t, IdSteps
      <3> QED
        BY <1>4, <2>1, <3>2 DEF IdInv
    <2>2. CASE c.a \in Addrs /\ Open(c.a) /\ c.id = window[c.a].id /\ window' = window
      <3>1. Open(b) /\ window[b].id = window[c.a].id
        BY <1>4, <2>2 DEF Open
      <3> QED
        BY <2>2, <3>1 DEF IdInv
    <2>3. c.id # 0
      BY <1>1, <1>4
    <2> QED
      BY <2>1, <2>2, <2>3, FoundSteps
  <1>5. ASSUME NEW i \in Ids, i > opens'
        PROVE  offers'[i] = 0
    <2>1. i \in Nat /\ i > opens
      BY <1>5, <1>t, IdSteps DEF Ids
    <2>2. offers[i] = 0
      BY <2>1 DEF IdInv
    <2>3. ASSUME NEW c \in todo, OfferMade(c)
          PROVE  offers'[i] = 0
      <3>1. c.id # i
        BY <2>1, <1>t DEF IdInv
      <3> QED
        BY <2>2, <2>3, <3>1, <1>t DEF OfferMade
    <2>4. Restart => offers'[i] = 0
      BY DEF Restart
    <2>5. TakeClose \/ (\E c \in todo : OfferFails(c)) => offers' = offers
      BY DEF TakeClose, OfferFails
    <2> QED
      BY <2>2, <2>3, <2>4, <2>5, OfferSteps
  <1>6. \A c, d \in todo' : c.a = d.a \/ (c.id = d.id /\ c.id # 0) => c = d
    BY ApartNext
  <1> QED
    BY <1>1, <1>2, <1>3, <1>4, <1>5, <1>6 DEF IdInv

(* The next id is above every line that closes an address.                 *)
LEMMA LateNext ==
  ASSUME TypeOK, IdInv, [Next]_vars, NEW a \in Addrs, LateAt(a)
  PROVE  LateAt(a)'
  <1>t. opens \in Nat /\ window \in [Addrs -> Win \union {NoWindow}]
    BY DEF TypeOK, WindowsTypeOK
  <1>i. Open(a) => window[a].id <= opens /\ window[a].id \in Nat
    BY <1>t DEF Open, Win, Ids, IdInv
  <1>l. /\ Cardinality(Late(a)) \in Nat /\ Cardinality(Late(a)') \in Nat
        /\ Cardinality(Late(a)') <= Cardinality(Late(a)) + 1
        /\ WindowCloses(a) \/ Cardinality(Late(a)') <= Cardinality(Late(a))
    BY LateFinite, LateSteps
  <1>c. WindowCloses(a) => Open(a) /\ ~Open(a)'
    BY <1>t DEF WindowCloses, Open
  <1>1. CASE Open(a)'
    <2>1. Cardinality(Late(a)') <= Cardinality(Late(a))
      BY <1>1, <1>l, <1>c
    <2>2. \/ Open(a) /\ window'[a].id = window[a].id
          \/ window'[a].id = opens + 1
      BY <1>1, IdSteps
    <2>3. Cardinality(Late(a)') < window'[a].id
      BY <2>1, <2>2, <1>t, <1>i, <1>l DEF LateAt
    <2> QED
      BY <1>1, <2>3 DEF LateAt
  <1>2. CASE ~Open(a)'
    <2>1. Cardinality(Late(a)') <= opens
      BY <1>t, <1>i, <1>l, <1>c DEF LateAt
    <2>2. opens' \in {opens, opens + 1}
      BY IdSteps
    <2>3. Cardinality(Late(a)') <= opens'
      BY <2>1, <2>2, <1>t, <1>l
    <2> QED
      BY <1>2, <2>3 DEF LateAt
  <1> QED
    BY <1>1, <1>2

(* A step that makes no offer gives no reason for another one, unless it   *)
(* is a failed call or a line that closes the address.                     *)
LEMMA AgainSteps ==
  ASSUME TypeOK, IdInv, [Next]_vars, NEW a \in Addrs, Open(a), window'[a].id = window[a].id,
         adopted'[a] = adopted[a], Again(a)'
  PROVE  Again(a) \/ failures'[window[a].id] = failures[window[a].id] + 1
  <1>t. window[a].id \in Ids /\ failures \in [Ids -> Nat]
    BY DEF Open, TypeOK, WindowsTypeOK, LoopTypeOK, Win
  <1>1. CASE adopted'[a] # Record(window'[a].id)
    BY <1>1 DEF Again
  <1>2. ASSUME NEW c \in todo', c.a = a, c.fresh, c.id # window'[a].id
        PROVE  Again(a) \/ failures'[window[a].id] = failures[window[a].id] + 1
    <2>1. CASE c \in todo
      BY <1>2, <2>1 DEF Again
    <2>2. CASE Scan
      BY <1>2, <2>2 DEF Scan, Snapshot
    <2>3. ASSUME NEW e \in todo, Look(e) \/ LookFails(e), c \notin todo
          PROVE  failures'[window[a].id] = failures[window[a].id] + 1
      <3>1. c.a = e.a /\ (Look(e) /\ Open(e.a) => c.id = window[e.a].id)
        BY <2>3, LookSteps
      <3>2. LookFails(e) /\ e.a = a
        BY <1>2, <2>3, <3>1
      <3> QED
        BY <3>2, <1>t DEF LookFails, Spoils, IdAt
    <2> QED
      BY <1>2, <2>1, <2>2, <2>3, TodoSteps
  <1> QED
    BY <1>1, <1>2 DEF Again

(* A window that the loop is about to place is offered no more than that.  *)
LEMMA PlacedNext ==
  ASSUME TypeOK, IdInv, OfferInv, [Next]_vars, NEW c \in todo'
  PROVE  Placed(c)'
  <1> SUFFICES ASSUME c.id # 0
               PROVE  offers'[c.id] + One(adopted'[c.a] # Record(c.id)) <= c.id + failures'[c.id]
    BY DEF Placed
  <1>t. /\ offers \in [Ids -> Nat] /\ failures \in [Ids -> Nat] /\ todo \in SUBSET Found
        /\ adopted \in [Addrs -> [id : Ids \union {0}, failed : BOOLEAN] \union {NoWindow}]
        /\ todo' \in SUBSET Found
    BY TypeNext DEF TypeOK, LoopTypeOK
  <1>c. c.a \in Addrs /\ c.id \in Ids /\ c.id \in Nat
    BY <1>t DEF Found, Ids
  <1>n. offers[c.id] \in Nat /\ failures[c.id] \in Nat
    BY <1>t, <1>c
  <1>r. ~Restart
    BY DEF Restart
  <1>f. failures'[c.id] \in {failures[c.id], failures[c.id] + 1}
    BY <1>c, <1>r, FailuresGrow
  <1>1. CASE c \in todo
    <2>1. offers[c.id] + One(adopted[c.a] # Record(c.id)) <= c.id + failures[c.id]
      BY <1>1 DEF OfferInv, Placed
    <2>2. ASSUME NEW d \in todo, OfferMade(d) \/ OfferFails(d)
          PROVE  adopted'[c.a] = adopted[c.a] /\ offers'[c.id] = offers[c.id]
      <3>1. c # d /\ d.a \in Addrs
        BY <2>2, <1>t DEF OfferMade, OfferFails, Found
      <3>2. c.a # d.a /\ c.id # d.id
        BY <1>1, <3>1 DEF IdInv
      <3> QED
        BY <2>2, <3>1, <3>2, <1>t, <1>c DEF OfferMade, OfferFails
    <2>3. ~TakeClose
      BY <1>1 DEF TakeClose, Take, Idle
    <2>4. adopted'[c.a] = adopted[c.a] /\ offers'[c.id] = offers[c.id]
      BY <2>2, <2>3, <1>r, OfferSteps
    <2>5. One(adopted[c.a] # Record(c.id)) \in Nat
      BY DEF One
    <2> QED
      BY <2>1, <2>4, <2>5, <1>n, <1>f, <1>c
  <1>2. CASE /\ c.a \in Addrs /\ Open(c.a) /\ c.id = window[c.a].id
             /\ UNCHANGED <<window, adopted, offers, failures>>
    <2>1. offers[c.id] + One(Again(c.a)) + Cardinality(Late(c.a)) <= c.id + failures[c.id]
      BY <1>2 DEF OfferInv, OfferedAt
    <2>2. Cardinality(Late(c.a)) \in Nat
      BY LateFinite
    <2>3. adopted[c.a] # Record(c.id) => Again(c.a)
      BY <1>2 DEF Again
    <2>4. /\ One(Again(c.a)) \in {0, 1} /\ One(adopted'[c.a] # Record(c.id)) \in {0, 1}
          /\ adopted'[c.a] # Record(c.id) => One(Again(c.a)) = 1
          /\ adopted'[c.a] = Record(c.id) => One(adopted'[c.a] # Record(c.id)) = 0
      BY <1>2, <2>3 DEF One
    <2>5. offers'[c.id] = offers[c.id] /\ failures'[c.id] = failures[c.id]
      BY <1>2
    <2> QED
      BY <2>1, <2>2, <2>4, <2>5, <1>n, <1>c
  <1> QED
    BY <1>1, <1>2, FoundSteps

(* No step brings a window to more offers than it may get.                 *)
LEMMA OfferedNext ==
  ASSUME TypeOK, IdInv, OfferInv, [Next]_vars, NEW a \in Addrs
  PROVE  OfferedAt(a)'
  <1> SUFFICES ASSUME Open(a)'
               PROVE  offers'[window'[a].id] + One(Again(a)') + Cardinality(Late(a)')
                        <= window'[a].id + failures'[window'[a].id]
    BY DEF OfferedAt
  <1>t. /\ offers \in [Ids -> Nat] /\ failures \in [Ids -> Nat] /\ todo \in SUBSET Found
        /\ adopted \in [Addrs -> [id : Ids \union {0}, failed : BOOLEAN] \union {NoWindow}]
        /\ window \in [Addrs -> Win \union {NoWindow}] /\ opens \in Nat
    BY DEF TypeOK, WindowsTypeOK, LoopTypeOK
  <1>p. window'[a].id \in Ids /\ window'[a].id \in Nat \ {0} /\ failures'[window'[a].id] \in Nat
    <2>1. window' \in [Addrs -> Win \union {NoWindow}] /\ failures' \in [Ids -> Nat]
      BY TypeNext DEF TypeOK, WindowsTypeOK, LoopTypeOK
    <2> QED
      BY <2>1 DEF Open, Win, Ids
  <1>o. One(Again(a)') \in {0, 1} /\ One(Again(a)) \in {0, 1}
    BY DEF One
  <1>l. /\ Cardinality(Late(a)) \in Nat /\ Cardinality(Late(a)') \in Nat
        /\ Cardinality(Late(a)') <= Cardinality(Late(a))
        /\ TakeClose /\ Head(events).a = a => Cardinality(Late(a)') + 1 <= Cardinality(Late(a))
    <2>1. ~WindowCloses(a)
      BY <1>t DEF WindowCloses, Open
    <2> QED
      BY <2>1, LateFinite, LateSteps
  <1>1. ASSUME NEW k \in Kinds \ {"other"}, WindowOpens(a, k)
        PROVE  offers'[window'[a].id] + One(Again(a)') + Cardinality(Late(a)')
                 <= window'[a].id + failures'[window'[a].id]
    <2>1. window'[a].id = opens + 1 /\ ~Open(a) /\ offers' = offers
      BY <1>1, <1>t DEF WindowOpens, records
    <2>2. offers[opens + 1] = 0
      BY <2>1, <1>t, <1>p DEF IdInv
    <2>3. Cardinality(Late(a)) <= opens
      BY <2>1 DEF OfferInv, LateAt
    <2> QED
      BY <2>1, <2>2, <2>3, <1>t, <1>p, <1>o, <1>l
  <1>2. CASE Restart
    <2>1. offers'[window'[a].id] = 0
      BY <1>2, <1>p DEF Restart
    <2>2. Late(a)' = {}
      BY <1>2 DEF Restart, Late
    <2>3. Cardinality(Late(a)') = 0
      BY <2>2, FS_EmptySet
    <2> QED
      BY <2>1, <2>3, <1>p, <1>o
  <1>3. ASSUME Open(a), window'[a].id = window[a].id, ~Restart
        PROVE  offers'[window'[a].id] + One(Again(a)') + Cardinality(Late(a)')
                 <= window'[a].id + failures'[window'[a].id]
    <2> DEFINE w == window[a].id
    <2>w. w \in Ids /\ w \in Nat /\ offers[w] \in Nat /\ failures[w] \in Nat /\ window'[a].id = w
      BY <1>3, <1>p, <1>t
    <2>f. failures'[w] \in {failures[w], failures[w] + 1}
      BY <1>3, <2>w, FailuresGrow
    <2>i. offers[w] + One(Again(a)) + Cardinality(Late(a)) <= w + failures[w]
      BY <1>3 DEF OfferInv, OfferedAt
    <2>y. (Again(a) => One(Again(a)) = 1) /\ (~Again(a)' => One(Again(a)') = 0)
      BY DEF One
    <2>z. (Again(a)' => One(Again(a)') = 1) /\ (~Again(a) => One(Again(a)) = 0)
      BY DEF One
    <2> HIDE DEF w
    <2>1. ASSUME offers'[w] = offers[w], Again(a)' => Again(a) \/ failures'[w] = failures[w] + 1
          PROVE  offers'[w] + One(Again(a)') + Cardinality(Late(a)') <= w + failures'[w]
      <3>1. One(Again(a)') <= One(Again(a)) \/ failures'[w] = failures[w] + 1
        BY <2>1, <2>y, <2>z, <1>o
      <3> QED
        BY <3>1, <2>1, <2>w, <2>f, <2>i, <1>o, <1>l
    <2>2. CASE TakeClose /\ Head(events).a = a
      <3>1. offers' = offers /\ failures' = failures
        BY <2>2 DEF TakeClose
      <3> QED
        BY <3>1, <2>2, <2>w, <2>i, <1>o, <1>l
    <2>3. ASSUME adopted'[a] = adopted[a], offers'[w] = offers[w]
          PROVE  offers'[w] + One(Again(a)') + Cardinality(Late(a)') <= w + failures'[w]
      <3>1. Again(a)' => Again(a) \/ failures'[w] = failures[w] + 1
        BY <1>3, <2>3, AgainSteps DEF w
      <3> QED
        BY <2>1, <2>3, <3>1
    <2>4. CASE TakeClose /\ Head(events).a # a
      <3>1. adopted'[a] = adopted[a] /\ offers' = offers
        BY <2>4, <1>t DEF TakeClose
      <3> QED
        BY <2>3, <2>w, <3>1
    <2>5. ASSUME NEW c \in todo, OfferMade(c) \/ OfferFails(c), c.a # a
          PROVE  adopted'[a] = adopted[a] /\ offers'[w] = offers[w]
      <3>1. c.id # w
        BY <1>3, <2>5 DEF IdInv, w
      <3> QED
        BY <2>5, <3>1, <2>w, <1>t DEF OfferMade, OfferFails
    <2>6. ASSUME NEW c \in todo, OfferFails(c), c.a = a
          PROVE  offers'[w] + One(Again(a)') + Cardinality(Late(a)') <= w + failures'[w]
      <3>1. offers' = offers /\ failures'[w] = failures[w] + 1
        BY <1>3, <2>6, <2>w DEF OfferFails, Spoils, IdAt, w
      <3> QED
        BY <3>1, <2>1
    <2>7. ASSUME NEW c \in todo, OfferMade(c), c.a = a, c.id # w
          PROVE  offers'[w] + One(Again(a)') + Cardinality(Late(a)') <= w + failures'[w]
      <3>1. Again(a)
        BY <2>7 DEF Again, OfferMade, w
      <3>2. offers'[w] = offers[w]
        BY <2>7, <2>w, <1>t DEF OfferMade
      <3> QED
        BY <2>1, <3>1, <3>2
    <2>8. ASSUME NEW c \in todo, OfferMade(c), c.a = a, c.id = w
          PROVE  offers'[w] + One(Again(a)') + Cardinality(Late(a)') <= w + failures'[w]
      <3>1. Again(a)
        BY <2>8 DEF Again, OfferMade, w
      <3>2. w # 0
        BY <2>w DEF Ids
      <3>3. offers'[w] = offers[w] + 1
        BY <2>8, <3>2, <2>w, <1>t DEF OfferMade
      <3>4. ~Again(a)'
        <4>1. adopted'[a] = Record(w)
          BY <2>8, <1>t DEF OfferMade
        <4>2. ASSUME NEW d \in todo', d.a = a
              PROVE  FALSE
          <5>1. d \in todo /\ d # c
            BY <2>8 DEF OfferMade
          <5> QED
            BY <2>8, <4>2, <5>1 DEF IdInv
        <4> QED
          BY <4>1, <4>2, <2>w DEF Again
      <3> QED
        <4>1. One(Again(a)) = 1 /\ One(Again(a)') = 0
          BY <3>1, <3>4, <2>y
        <4>2. One(Again(a)') = One(Again(a)) - 1
          BY <4>1
        <4> QED
          BY <3>3, <4>1, <4>2, <2>w, <2>f, <2>i, <1>l
    <2> QED
      BY <2>2, <2>3, <2>4, <2>5, <2>6, <2>7, <2>8, <2>w, <1>3, OfferSteps
  <1> QED
    BY <1>1, <1>2, <1>3, WindowSteps

(* No step brings any window, open or closed, to more offers than that.    *)
LEMMA OfferNext ==
  ASSUME TypeOK, IdInv, OfferInv, [Next]_vars
  PROVE  OfferInv'
  <1>t. offers \in [Ids -> Nat] /\ failures \in [Ids -> Nat] /\ TypeOK'
    BY TypeNext DEF TypeOK, LoopTypeOK
  <1>1. ASSUME NEW i \in Ids
        PROVE  offers'[i] <= i + failures'[i]
    <2>1. offers[i] <= i + failures[i] /\ offers[i] \in Nat /\ failures[i] \in Nat /\ i \in Nat
      BY <1>t DEF OfferInv, Ids
    <2>2. CASE Restart
      BY <2>1, <2>2 DEF Restart
    <2>3. CASE ~Restart /\ offers'[i] = offers[i]
      <3>1. failures'[i] \in {failures[i], failures[i] + 1}
        BY <2>3, FailuresGrow
      <3> QED
        BY <2>1, <2>3, <3>1
    <2>4. ASSUME NEW c \in todo, OfferMade(c), offers'[i] # offers[i]
          PROVE  offers'[i] <= i + failures'[i]
      <3>1. c.id = i /\ c.id # 0 /\ offers'[i] = offers[i] + 1 /\ failures' = failures
        BY <2>4, <1>t DEF OfferMade
      <3>2. offers[i] + One(adopted[c.a] # Record(c.id)) <= i + failures[i]
        BY <3>1 DEF OfferInv, Placed
      <3>3. One(adopted[c.a] # Record(c.id)) = 1
        BY <2>4 DEF OfferMade, One
      <3> QED
        BY <2>1, <3>1, <3>2, <3>3
    <2>5. TakeClose \/ (\E c \in todo : OfferFails(c)) => offers' = offers
      BY DEF TakeClose, OfferFails
    <2> QED
      BY <2>2, <2>3, <2>4, <2>5, OfferSteps
  <1>2. \A a \in Addrs : LateAt(a)' /\ OfferedAt(a)'
    BY LateNext, OfferedNext DEF OfferInv
  <1>3. \A c \in todo' : Placed(c)'
    BY PlacedNext
  <1> QED
    BY <1>1, <1>2, <1>3 DEF OfferInv

(* A window is offered once, once more for each failed call and once for   *)
(* each earlier window: for any number of windows, addresses and lines.    *)
THEOREM FewOffers == Spec => []OffersAreFew
  <1>1. Init => IdInv /\ OfferInv
    <2> SUFFICES ASSUME Init PROVE IdInv /\ OfferInv
      OBVIOUS
    <2>1. /\ \A a \in Addrs : ~Open(a)
          /\ todo = {} /\ events = <<>> /\ opens = 0
          /\ offers = [i \in Ids |-> 0] /\ failures = offers
      BY DEF Init, Open
    <2>2. \A a \in Addrs : Cardinality(Late(a)) = 0
      <3>1. \A a \in Addrs : Late(a) = {}
        BY <2>1 DEF Late
      <3> QED
        BY <3>1, FS_EmptySet
    <2>3. IdInv
      BY <2>1 DEF IdInv
    <2>4. \A i \in Ids : offers[i] <= i + failures[i]
      BY <2>1 DEF Ids
    <2> QED
      BY <2>1, <2>2, <2>3, <2>4 DEF OfferInv, LateAt, OfferedAt
  <1>2. TypeOK /\ IdInv /\ OfferInv /\ [Next]_vars => IdInv' /\ OfferInv'
    BY IdNext, OfferNext
  <1>3. TypeOK /\ OfferInv => OffersAreFew
    <2> SUFFICES ASSUME TypeOK, OfferInv, NEW i \in Ids PROVE offers[i] <= 1 + failures[i] + (i - 1)
      BY DEF OffersAreFew
    <2>1. offers[i] <= i + failures[i] /\ offers[i] \in Nat /\ failures[i] \in Nat /\ i \in Nat
      BY DEF OfferInv, TypeOK, LoopTypeOK, Ids
    <2> QED
      BY <2>1
  <1> QED
    BY <1>1, <1>2, <1>3, ContainTypeCorrect, PTL DEF Spec
=============================================================================
