------------------------------ MODULE Contain ------------------------------
(***************************************************************************)
(* Containment: hypr.py and the listener that drives it.  Windows open,    *)
(* close and are dragged about at any time; the compositor tells of it on  *)
(* socket2, where the line waits until the loop takes it.  The loop looks  *)
(* the window up, runs the layers over it and asks for a silent move, and  *)
(* each of these is a call of its own that may fail.  A window that the    *)
(* person released is exempt until its deadline or until it closes; all    *)
(* the listener has of it is its address.                                  *)
(*                                                                         *)
(* A window's kind stands for what classify finds: a rule's name for the   *)
(* class layer, or slice, adopt and other (a window no list names is like  *)
(* one whose rule is not wanted, and does not open here).  Patterns, web   *)
(* app classes and process ancestry are left out.  The line of an          *)
(* openwindow carries the class.  The Opened banner and the bar's state    *)
(* are left out too.                                                       *)
(***************************************************************************)
EXTENDS Rules, Sequences

CONSTANTS
  Addrs,      \* window addresses; Hyprland uses them again
  NoWindow,   \* no window, or no record
  MaxOpens,   \* bound on the windows that open
  MaxQueue,   \* bound on the lines waiting when something happens
  MaxActs     \* bound on what the person and the compositor do

ASSUME ContainAssumption == {MaxOpens, MaxQueue, MaxActs} \subseteq Nat

VARIABLES
  window,     \* the compositor's windows by address
  opens,      \* windows opened so far
  events,     \* the lines on socket2
  socket,     \* the listener is connected to it
  snap,       \* hypr.snap_back
  released,   \* _released: no record, one that runs or one past its deadline
  adopted,    \* _adopted: the record of an offer
  todo,       \* the windows the loop still has to look up or to place
  ask,        \* a `release` on its way: the address, and the lines ahead of it
  missed,     \* history: lines nobody was connected for
  offers,     \* history: offers made to each window by this listener
  failures,   \* history: lookups and moves of each window that failed
  acts        \* what the person and the compositor did, at most MaxActs

windows == <<window, opens, events, missed>>
records == <<released, adopted, offers>>
cvars == <<windows, socket, snap, records, todo, ask, failures, acts>>
vars == <<rules, faults, cvars>>

Kinds == Names \union {"slice", "adopt", "other"}
Ids == 1..MaxOpens
Win == [id : Ids, kind : Kinds, on : BOOLEAN, exempt : BOOLEAN]

ASSUME NoWindowAssumption == NoWindow \notin Addrs \union Win

Happenings == {"open", "move", "close", "reload"}
Line == [of : Happenings \ {"reload"}, a : Addrs, kind : Kinds]
          \union [of : {"reload"}, a : {NoWindow}, kind : Kinds]
Found == [a : Addrs, id : Ids \union {0}, kind : Kinds, on : BOOLEAN, fresh : BOOLEAN, opened : BOOLEAN]
NoAsk == [a |-> NoWindow, id |-> 0, ahead |-> 0]

WindowsTypeOK ==
  /\ window \in [Addrs -> Win \union {NoWindow}]
  /\ opens \in 0..MaxOpens
  /\ events \in Seq(Line)
  /\ missed \in SUBSET [of : Happenings, a : Addrs \union {NoWindow}]

LoopTypeOK ==
  /\ {socket, snap} \subseteq BOOLEAN
  /\ released \in [Addrs -> {"none", "runs", "past"}]
  /\ adopted \in [Addrs -> [id : Ids \union {0}, failed : BOOLEAN] \union {NoWindow}]
  /\ todo \in SUBSET Found
  /\ ask \in [a : Addrs \union {NoWindow}, id : Ids \union {0}, ahead : Nat]
  /\ ask.ahead <= Len(events)
  /\ {offers, failures} \subseteq [Ids -> Nat]
  /\ acts \in 0..MaxActs

(* Every variable of the rules, the compositor and the loop has its type.  *)
TypeOK == RulesTypeOK /\ WindowsTypeOK /\ LoopTypeOK

Init ==
  /\ RulesInit
  /\ window = [a \in Addrs |-> NoWindow] /\ opens = 0
  /\ events = <<>> /\ missed = {}
  /\ socket = TRUE /\ snap = TRUE
  /\ released = [a \in Addrs |-> "none"]
  /\ adopted = [a \in Addrs |-> NoWindow]
  /\ offers = [i \in Ids |-> 0] /\ failures = offers
  /\ todo = {} /\ ask = NoAsk
  /\ acts = 0

Open(a) == window[a] # NoWindow
Listed(kind) == kind \in {"slice", "adopt"} \/ (kind \in Names /\ entries[kind] # 0)
Idle == batch.at = "none" /\ todo = {}

(* The compositor writes a line; without a reader it is lost.              *)
Tell(of, a, kind) ==
  IF socket THEN events' = Append(events, [of |-> of, a |-> a, kind |-> kind]) /\ UNCHANGED missed
            ELSE missed' = missed \union {[of |-> of, a |-> a]} /\ UNCHANGED events

Happens == acts < MaxActs /\ acts' = acts + 1 /\ Len(events) < MaxQueue

(* A window opens: on the space when a live rule places it.                *)
WindowOpens(a, kind) ==
  /\ Happens
  /\ ~Open(a) /\ opens < MaxOpens
  /\ opens' = opens + 1
  /\ window' = [window EXCEPT ![a] = [id |-> opens + 1, kind |-> kind, exempt |-> FALSE,
                                      on |-> kind \in Names /\ live[kind] # 0]]
  /\ Tell("open", a, kind)
  /\ UNCHANGED <<rules, faults, socket, snap, records, todo, ask, failures>>

WindowCloses(a) ==
  /\ Happens
  /\ Open(a)
  /\ window' = [window EXCEPT ![a] = NoWindow]
  /\ Tell("close", a, window[a].kind)
  /\ UNCHANGED <<rules, faults, opens, socket, snap, records, todo, ask, failures>>

PersonDrags(a) ==
  /\ Happens
  /\ Open(a)
  /\ window' = [window EXCEPT ![a].on = ~@]
  /\ Tell("move", a, window[a].kind)
  /\ UNCHANGED <<rules, faults, opens, socket, snap, records, todo, ask, failures>>

(* A reload of Hyprland's own configuration drops every rule.              *)
HyprlandReloads ==
  /\ Happens
  /\ live' = [n \in Names |-> 0]
  /\ Tell("reload", NoWindow, "other")
  /\ UNCHANGED <<entries, registry, specs, batch, astray, faults, window, opens,
                 socket, snap, records, todo, ask, failures>>

(* Hyprland drops the connection, with the lines nobody has read.          *)
Disconnects ==
  /\ Happens
  /\ socket /\ socket' = FALSE
  /\ events' = <<>>
  /\ missed' = missed \union {[of |-> events[i].of, a |-> events[i].a] : i \in DOMAIN events}
  /\ ask' = [ask EXCEPT !.ahead = 0]
  /\ UNCHANGED <<rules, faults, window, opens, snap, records, todo, failures>>

(* cmd_release: the focused window's address, sent after the lines before. *)
PersonReleases(a) ==
  /\ Happens
  /\ ask = NoAsk /\ Open(a)
  /\ ask' = [a |-> a, id |-> window[a].id, ahead |-> Len(events)]
  /\ UNCHANGED <<rules, faults, windows, socket, snap, records, todo, failures>>

DeadlinePasses(a) ==
  /\ released[a] = "runs"
  /\ released' = [released EXCEPT ![a] = "past"]
  /\ window' = IF Open(a) THEN [window EXCEPT ![a].exempt = FALSE] ELSE window
  /\ UNCHANGED <<rules, faults, opens, events, missed, socket, snap, adopted, offers,
                 todo, ask, failures, acts>>
-----------------------------------------------------------------------------
(***************************************************************************)
(* enforce: the configuration as it is now, the rules and then a scan.     *)
(***************************************************************************)
Enforce ==
  /\ entries' \in [Names -> Classes]
  /\ snap' \in BOOLEAN
  /\ BeginBatch

(* The `reload` of a changed configuration.                                *)
Reload ==
  /\ Idle
  /\ Happens
  /\ Enforce
  /\ UNCHANGED <<live, registry, specs, astray, faults, windows, socket, records, todo, ask, failures>>

(* The listener is killed and started again: what it only remembered is    *)
(* gone, exemptions with it, and it connects when its first scan is over.  *)
Restart ==
  /\ Happens
  /\ Enforce
  /\ BatchCutOff
  /\ released' = [a \in Addrs |-> "none"]
  /\ adopted' = [a \in Addrs |-> NoWindow]
  /\ offers' = [i \in Ids |-> 0] /\ failures' = offers'
  /\ window' = [a \in Addrs |-> IF Open(a) THEN [window[a] EXCEPT !.exempt = FALSE] ELSE NoWindow]
  /\ events' = <<>> /\ missed' = {} /\ socket' = FALSE
  /\ todo' = {} /\ ask' = NoAsk
  /\ UNCHANGED <<live, registry, specs, faults, opens>>

Connect ==
  /\ Idle
  /\ ~socket /\ socket' = TRUE
  /\ UNCHANGED <<rules, faults, windows, snap, records, todo, ask, failures, acts>>

Snapshot(a, fresh, opened) ==
  [a |-> a, id |-> window[a].id, kind |-> window[a].kind, on |-> window[a].on,
   fresh |-> fresh, opened |-> opened]

LookUp(a, kind, opened) == [a |-> a, id |-> 0, kind |-> kind, on |-> FALSE, fresh |-> FALSE, opened |-> opened]

Spoils(ids) == failures' = [i \in Ids |-> IF i \in ids THEN failures[i] + 1 ELSE failures[i]]
IdAt(a) == IF Open(a) THEN {window[a].id} ELSE {}

(***************************************************************************)
(* _scan, at start, after a reload and after `configreloaded`: every       *)
(* window the compositor lists, in one call; if it fails there is no scan. *)
(***************************************************************************)
Scan ==
  /\ batch.at = "done"
  /\ batch' = [batch EXCEPT !.at = "none"]
  /\ todo' = {Snapshot(a, TRUE, FALSE) : a \in {b \in Addrs : Open(b)}}
  /\ missed' = {m \in missed : m.of \in {"close", "reload"}}
  /\ UNCHANGED <<entries, live, registry, specs, astray, faults, window, opens, events,
                 socket, snap, records, ask, failures, acts>>

ScanFails ==
  /\ batch.at = "done"
  /\ Fault
  /\ batch' = [batch EXCEPT !.at = "none"]
  /\ Spoils(UNION {IdAt(a) : a \in Addrs})
  /\ UNCHANGED <<entries, live, registry, specs, astray, windows, socket, snap, records, todo, ask, acts>>
-----------------------------------------------------------------------------
(***************************************************************************)
(* _Ctx.event and handle_event: the next line.                             *)
(***************************************************************************)
Take(of) ==
  /\ Idle
  /\ events # <<>> /\ Head(events).of = of
  /\ events' = Tail(events)
  /\ ask' = [ask EXCEPT !.ahead = IF @ = 0 THEN 0 ELSE @ - 1]

TakeReload ==
  /\ Take("reload")
  /\ entries' = entries /\ BeginBatch
  /\ UNCHANGED <<live, registry, specs, astray, faults, window, opens, missed,
                 socket, snap, records, todo, failures, acts>>

TakeClose ==
  /\ Take("close")
  /\ LET a == Head(events).a IN
       /\ adopted' = [adopted EXCEPT ![a] = NoWindow]
       /\ released' = [released EXCEPT ![a] = "none"]
  /\ UNCHANGED <<rules, faults, window, opens, missed, socket, snap, todo, offers, failures, acts>>

TakeOpen ==
  /\ Take("open")
  /\ todo' = {LookUp(Head(events).a, Head(events).kind, TRUE)}
  /\ UNCHANGED <<rules, faults, window, opens, missed, socket, snap, records, failures, acts>>

(* With snap_back off what the person arranged stands.                     *)
TakeMove ==
  /\ Take("move")
  /\ todo' = IF snap THEN {LookUp(Head(events).a, "other", FALSE)} ELSE {}
  /\ UNCHANGED <<rules, faults, window, opens, missed, socket, snap, records, failures, acts>>

(***************************************************************************)
(* release: refused for a window that is no longer listed, whose           *)
(* closewindow may be behind us.                                           *)
(***************************************************************************)
Refused(a) == ~Open(a)

Release ==
  /\ Idle
  /\ ask # NoAsk /\ ask.ahead = 0
  /\ ask' = NoAsk
  /\ IF Refused(ask.a)
       THEN UNCHANGED <<released, window>>
       ELSE /\ released' = [released EXCEPT ![ask.a] = "runs"]
            /\ window' = IF IdAt(ask.a) = {ask.id} THEN [window EXCEPT ![ask.a].exempt = TRUE] ELSE window
  /\ UNCHANGED <<rules, faults, opens, events, missed, socket, snap, adopted, offers, todo, failures, acts>>

AfterExpiryNothing(gone) == {}   \* the window stays where it is
AfterExpiry(gone) == IF snap THEN {LookUp(a, "other", FALSE) : a \in gone} ELSE {}

(* expire_released, each tick: what is past its deadline is contained anew. *)
Expire ==
  /\ Idle
  /\ LET gone == {a \in Addrs : released[a] = "past"} IN
       /\ gone # {}
       /\ released' = [a \in Addrs |-> IF a \in gone THEN "none" ELSE released[a]]
       /\ todo' = AfterExpiry(gone)
  /\ UNCHANGED <<rules, faults, windows, socket, snap, adopted, offers, ask, failures, acts>>
-----------------------------------------------------------------------------
(* _client_by_address.  A window that is gone, or a lookup that fails,     *)
(* leaves the line of an openwindow with its class alone.                  *)
Unread(c) == IF c.opened THEN {[c EXCEPT !.fresh = TRUE, !.kind = IF @ = "slice" THEN "other" ELSE @]} ELSE {}

MayLook(c) == c \in todo /\ ~c.fresh /\ ~\E d \in todo : d.fresh

Look(c) ==
  /\ MayLook(c)
  /\ todo' = (todo \ {c}) \union (IF Open(c.a) THEN {Snapshot(c.a, TRUE, c.opened)} ELSE Unread(c))
  /\ UNCHANGED <<rules, faults, windows, socket, snap, records, ask, failures, acts>>

LookFails(c) ==
  /\ MayLook(c)
  /\ Fault
  /\ todo' = (todo \ {c}) \union Unread(c)
  /\ Spoils(IdAt(c.a))
  /\ UNCHANGED <<rules, windows, socket, snap, records, ask, acts>>

SkippedUnlisted(c) == (~c.opened /\ ~snap) \/ ~Listed(c.kind)   \* does not look at the exemptions

(* contain: a released window and, unless it is fresh, every window while  *)
(* snap_back is off are skipped before any layer runs.                     *)
Skipped(c) == released[c.a] # "none" \/ (~c.opened /\ ~snap) \/ ~Listed(c.kind)

NotedNever(c, failed) == FALSE   \* offers it with every event

(* _adopt remembers which offer it made at an address.                     *)
Noted(c, failed) == adopted[c.a] = [id |-> c.id, failed |-> failed]

Adopt(c, failed) ==
  IF c.kind # "adopt" \/ Noted(c, failed)
    THEN UNCHANGED <<adopted, offers>>
    ELSE /\ adopted' = [adopted EXCEPT ![c.a] = [id |-> c.id, failed |-> failed]]
         /\ offers' = IF ~failed /\ c.id # 0 THEN [offers EXCEPT ![c.id] = @ + 1] ELSE offers

Skip(c) ==
  /\ c \in todo /\ c.fresh
  /\ Skipped(c)
  /\ todo' = todo \ {c}
  /\ UNCHANGED <<rules, faults, windows, socket, snap, records, ask, failures, acts>>

Stays(c) ==
  /\ c \in todo /\ c.fresh
  /\ ~Skipped(c) /\ c.on
  /\ todo' = todo \ {c}
  /\ Adopt(c, FALSE)
  /\ UNCHANGED <<rules, faults, windows, socket, snap, released, ask, failures, acts>>

(* The move names the address: it takes whichever window has it by now.    *)
Move(c) ==
  /\ c \in todo /\ c.fresh
  /\ ~Skipped(c) /\ ~c.on
  /\ todo' = todo \ {c}
  /\ Adopt(c, FALSE)
  /\ IF Open(c.a) /\ ~window[c.a].on
       THEN window' = [window EXCEPT ![c.a].on = TRUE] /\ Tell("move", c.a, window[c.a].kind)
       ELSE UNCHANGED <<window, events, missed>>
  /\ UNCHANGED <<rules, faults, opens, socket, snap, released, ask, failures, acts>>

MoveFails(c) ==
  /\ c \in todo /\ c.fresh
  /\ ~Skipped(c) /\ ~c.on
  /\ Fault
  /\ todo' = todo \ {c}
  /\ Adopt(c, TRUE)
  /\ Spoils(IdAt(c.a))
  /\ UNCHANGED <<rules, windows, socket, snap, released, ask, acts>>
-----------------------------------------------------------------------------
Listener ==
  \/ BatchStep /\ UNCHANGED cvars
  \/ Scan \/ ScanFails \/ Connect
  \/ TakeReload \/ TakeClose \/ TakeOpen \/ TakeMove
  \/ Release \/ Expire
  \/ \E c \in todo : Look(c) \/ LookFails(c) \/ Skip(c) \/ Stays(c) \/ Move(c) \/ MoveFails(c)

Others ==
  \/ Reload \/ Restart \/ HyprlandReloads \/ Disconnects
  \/ \E a \in Addrs :
       \/ \E k \in Kinds \ {"other"} : WindowOpens(a, k)
       \/ WindowCloses(a) \/ PersonDrags(a) \/ PersonReleases(a) \/ DeadlinePasses(a)

Next == Listener \/ Others
Spec == Init /\ [][Next]_vars
-----------------------------------------------------------------------------
Unseen(a) == \E m \in missed : m.a = a
Settled == Idle /\ socket /\ events = <<>>

(* A listed window the listener has seen and nobody released is on the     *)
(* space whenever the loop has nothing left to do: whatever opened,        *)
(* closed, was dragged, released and expired meanwhile, and in whichever   *)
(* order it was told.  A window with a failed call waits for its next      *)
(* event, and so does one whose line nobody was connected for.             *)
WindowsAreContained ==
  Settled /\ snap =>
    \A a \in Addrs :
      Open(a) /\ Listed(window[a].kind) /\ released[a] = "none" /\ ~Unseen(a)
        => window[a].on \/ failures[window[a].id] # 0

(* After the last batch the compositor has every rule of the list, also    *)
(* when Hyprland dropped them meanwhile: unless that batch failed, or the  *)
(* line that told of it was lost.                                          *)
SettledRulesAreLive ==
  Settled /\ batch.ok /\ [of |-> "reload", a |-> NoWindow] \notin missed =>
    \A n \in Wanted : live[n] = entries[n]

(***************************************************************************)
(* Nothing left to do means nothing left out: the windows there are on the *)
(* space, and the rules are live for the ones to come.                     *)
(***************************************************************************)
SettledIsContained == WindowsAreContained /\ SettledRulesAreLive

(***************************************************************************)
(* A window the person released stays where the person has it until its    *)
(* deadline: no line that is late, of this window or of one that had its   *)
(* address before, no scan and no expiry of another lets the listener move *)
(* it.  (What the person does is counted in acts.)                         *)
(***************************************************************************)
ReleasedIsLeftAlone ==
  [][\A a \in Addrs :
       Open(a) /\ window[a].exempt /\ acts' = acts /\ window'[a] # NoWindow
         => window'[a].on = window[a].on]_vars

(***************************************************************************)
(* _Ctx.release: a record that nothing would ever prune is refused.  Every *)
(* record has a window, or the window's closewindow is still to come, or   *)
(* it was sent while nobody was connected.                                 *)
(***************************************************************************)
RecordsCanBePruned ==
  \A a \in Addrs :
    released[a] # "none" =>
      \/ Open(a)
      \/ \E i \in DOMAIN events : events[i].of = "close" /\ events[i].a = a
      \/ [of |-> "close", a |-> a] \in missed

(***************************************************************************)
(* _adopt: "offer migration once per bounded window identity".  A window   *)
(* is offered it once by a listener, and once more at most for each lookup *)
(* or move of it that failed and for each earlier window, whose late       *)
(* closewindow drops the record at an address they share.                  *)
(***************************************************************************)
OffersAreFew == \A i \in Ids : offers[i] <= 1 + failures[i] + (i - 1)

-----------------------------------------------------------------------------
(***************************************************************************)
(* What makes ReleasedIsLeftAlone inductive: a released window has its     *)
(* record, no line still to come would prune it, and the lines that were   *)
(* ahead of the request are counted down before it is granted.             *)
(***************************************************************************)
Closes(i, a) == events[i].of = "close" /\ events[i].a = a

ExemptInv ==
  /\ \A a \in Addrs : Open(a) => window[a].id <= opens
  /\ ask.id <= opens
  /\ \A a \in Addrs : Open(a) /\ window[a].exempt =>
       released[a] = "runs" /\ \A i \in DOMAIN events : ~Closes(i, a)
  /\ \A a \in Addrs : ask.a = a /\ Open(a) /\ window[a].id = ask.id =>
       \A i \in DOMAIN events : Closes(i, a) => i <= ask.ahead
=============================================================================
