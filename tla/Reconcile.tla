------------------------------ MODULE Reconcile ------------------------------
(***************************************************************************)
(* The listener's event loop and its reconciliation worker (ds/listener.py,*)
(* ds/net.py), the commands that talk to it over its socket, and the       *)
(* firewall both work on.                                                  *)
(*                                                                         *)
(* The event loop is one thread: every action of it is one handler.  Each  *)
(* request (start, reload, refresh, the periodic tick) starts a worker     *)
(* thread, or owes one follow-up while a worker is out.  The worker runs   *)
(* commands that take seconds; it is cut at every command and at every     *)
(* test of current().  What it shares with the loop is ctx.latest, which   *)
(* it reads without a lock, the reconciler's baseline, ctx.pending and the *)
(* wake pipe.                                                              *)
(*                                                                         *)
(* Generations are only ever compared with ctx.latest for equality, and    *)
(* ctx.latest only grows, so a generation is kept as whether it still is   *)
(* the latest one.                                                         *)
(***************************************************************************)
EXTENDS Firewall, FiniteSets

CONSTANTS
  Configs,   \* the valid configurations
  Disabled,  \* those with site_block.enabled false
  Answers,   \* the policies resolving a configuration's hosts may give
  Clients,   \* processes that run a command of the distractions program
  Kinds,     \* the commands they may run
  ClientCap, \* CLIENT_CAP
  MaxBoots   \* bound on the number of listeners started

(* A config file that does not parse or validate. *)
Invalid == "Invalid"

ASSUME ReconcileAssumption ==
  /\ Disabled \subseteq Configs
  /\ Invalid \notin Configs
  /\ Answers \in [Configs -> SUBSET Desired]
  /\ \A c \in Configs : Answers[c] # {}
  /\ Kinds \subseteq {"reload", "refresh", "edit", "off"}
  /\ ClientCap \in Nat \ {0}
  /\ MaxBoots \in Nat

Latest     == "Latest"
Superseded == "Superseded"
Waiting    == {Latest, Superseded}
Replies    == {"ok", "error", "deferred"}
NoResult   == "NoResult"

\* Nothing verified yet; a baseline is only ever kept for a non-empty policy.
NoBaseline == [policy |-> NoAddrs, slice |-> 0]

VARIABLES
  \* the files
  file,     \* config.json
  saved,    \* expansion.json, the last valid configuration a listener read
  shown,    \* state.json: site_block, and whether it was ever observed
  \* the event loop (_Ctx)
  phase,    \* off, boot (before _bind_reload), serving, stopping
  boots,    \* listeners started so far
  cfg,      \* ctx.cfg and ctx.exp, the configuration in force
  rerun,    \* ctx.rerun
  baseline, \* ctx.reconciler.baseline
  pending,  \* ctx.pending holds the worker's item
  wake,     \* a byte is in the wake pipe
  \* the worker (_launch.work); its locals are the item it hands over
  pc,       \* where it is; idle when no batch is out (ctx.busy is false)
  wgen,     \* its generation
  wcfg,     \* the configuration captured at launch
  desired,  \* the policy it resolved
  ident,    \* the identity its check returned
  result,   \* item["result"]
  extra,    \* the launcher refresh and the link check together
  \* the commands
  kind,     \* which command a client runs
  cmd,      \* where that process is
  conn      \* its connection, as the listener sees it (_Client.gen)

files  == <<file, saved, shown>>
loop   == <<phase, boots, cfg, rerun, baseline, pending, wake>>
worker == <<pc, wgen, wcfg, desired, ident, result, extra>>
cli    == <<kind, cmd, conn>>
vars   == <<fwVars, files, loop, worker, cli>>

PCs == {"idle", "resolve", "slice", "reconcile", "flush", "replace", "verify",
        "keep", "recheck", "observe", "publish", "wake", "done"}

Baselines == [policy : Desired, slice : Nat]

FilesTypeOK ==
  /\ file \in Configs \union {Invalid}
  /\ saved \in Configs
  /\ shown \in [status : {"on", "off", "unavailable"}, observed : BOOLEAN]

LoopTypeOK ==
  /\ phase \in {"off", "boot", "serving", "stopping"}
  /\ boots \in 0..MaxBoots
  /\ cfg \in Configs
  /\ rerun \in BOOLEAN
  /\ baseline \in Baselines
  /\ pending \in BOOLEAN
  /\ wake \in BOOLEAN

WorkerTypeOK ==
  /\ pc \in PCs
  /\ wgen \in Waiting
  /\ wcfg \in Configs
  /\ desired \in Desired
  /\ ident \in Nat
  /\ result \in {NoResult, "on", "off", "unavailable"}
  /\ extra \in Replies

CommandStates == {"idle", "edited", "asked", "flush", "done", "blockoff"}
ConnStates == {"none", "queued", "sent", "refused", "closed"} \union Waiting \union Replies

CliTypeOK ==
  /\ kind \in [Clients -> Kinds]
  /\ cmd \in [Clients -> CommandStates]
  /\ conn \in [Clients -> ConnStates]

\* Every variable has its type.
TypeOK == FirewallTypeOK /\ FilesTypeOK /\ LoopTypeOK /\ WorkerTypeOK /\ CliTypeOK

Init ==
  /\ FirewallInit
  /\ file \in Configs
  /\ saved = file
  /\ shown = [status |-> "off", observed |-> FALSE]
  /\ phase = "off"
  /\ boots = 0
  /\ cfg = file
  /\ rerun = FALSE
  /\ baseline = NoBaseline
  /\ pending = FALSE
  /\ wake = FALSE
  /\ pc = "idle"
  /\ wgen = Latest
  /\ wcfg = file
  /\ desired = NoAddrs
  /\ ident = 0
  /\ result = NoResult
  /\ extra = "ok"
  /\ kind \in [Clients -> Kinds]
  /\ cmd = [c \in Clients |-> "idle"]
  /\ conn = [c \in Clients |-> "none"]

busy == pc # "idle"

\* current(): this generation may still apply and observe.
Current == phase # "stopping" /\ wgen = Latest

\* Everybody the listener holds in ctx.clients.
Held == {c \in Clients : conn[c] \in {"sent"} \union Waiting}
-----------------------------------------------------------------------------
(* request() and _launch(), with the configuration that is in force. *)

\* A worker thread's locals as it starts; they are gone when its item is taken.
Locals(start, config) ==
  /\ pc' = start
  /\ wgen' = Latest
  /\ wcfg' = config
  /\ desired' = NoAddrs
  /\ ident' = 0
  /\ result' = NoResult
  /\ extra' = "ok"

Launch(config) == Locals("resolve", config)

\* A disabled block drops the baseline as soon as anybody asks.
Invalidated(config) == IF config \in Disabled THEN NoBaseline ELSE baseline

\* Mutant: waiters stay with the generation they came for.
AdoptedByNobody == [c \in Clients |-> IF conn[c] \in Waiting THEN Superseded ELSE conn[c]]

\* _adopt_waiters: everybody who waits now waits for the new generation.
Adopted == [c \in Clients |-> IF conn[c] \in Waiting THEN Latest ELSE conn[c]]

\* Mutant: the worker that is out stays current.
RequestJoins(config) ==
  /\ baseline' = Invalidated(config)
  /\ \/ busy /\ rerun' = TRUE /\ UNCHANGED worker
     \/ ~busy /\ UNCHANGED rerun /\ Launch(config)

\* A new generation.  A worker that is out becomes obsolete and one follow-up
\* is owed; otherwise the worker starts.
Request(config) ==
  /\ baseline' = Invalidated(config)
  /\ \/ /\ busy
        /\ rerun' = TRUE
        /\ wgen' = Superseded
        /\ UNCHANGED <<pc, wcfg, desired, ident, result, extra>>
     \/ /\ ~busy
        /\ UNCHANGED rerun
        /\ Launch(config)
-----------------------------------------------------------------------------
(* The event loop. *)

\* run() and boot("start"): the lock is free, so no other listener runs.  The
\* context is new; an invalid config falls back on the saved expansion.
Boot ==
  /\ phase = "off"
  /\ boots < MaxBoots
  /\ boots' = boots + 1
  /\ phase' = "boot"
  /\ cfg' = IF file = Invalid THEN saved ELSE file
  /\ saved' = cfg'
  /\ shown' = [status |-> "off", observed |-> FALSE]
  /\ Launch(cfg')
  /\ UNCHANGED <<fwVars, file, rerun, baseline, pending, wake, cli>>

\* _bind_reload: from here on commands reach the listener.
Bind ==
  /\ phase = "boot"
  /\ phase' = "serving"
  /\ UNCHANGED <<fwVars, files, boots, cfg, rerun, baseline, pending, wake, worker, cli>>

\* Mutant: the tick makes the worker that is out obsolete, as a reload does.
PeriodicSupersedes ==
  /\ phase = "serving"
  /\ Request(cfg)
  /\ conn' = Adopted
  /\ UNCHANGED <<fwVars, files, phase, boots, cfg, pending, wake, kind, cmd>>

\* tick() when PERIOD has passed: request("periodic").  While a worker is out
\* it only marks the follow-up; its generation stays the current one.
Periodic ==
  /\ phase = "serving"
  /\ \/ /\ busy
        /\ rerun' = TRUE
        /\ UNCHANGED <<worker, baseline, conn>>
     \/ /\ ~busy
        /\ Request(cfg)
        /\ conn' = Adopted
  /\ UNCHANGED <<fwVars, files, phase, boots, cfg, pending, wake, kind, cmd>>

\* _accept_reload: a connection over the cap is closed with no answer.
Accept(c) ==
  /\ phase = "serving"
  /\ conn[c] = "queued"
  /\ conn' = [conn EXCEPT ![c] =
                IF Cardinality(Held) >= ClientCap THEN "refused" ELSE "sent"]
  /\ UNCHANGED <<fwVars, files, loop, worker, kind, cmd>>

\* _dispatch_client of a reload whose config is invalid.
RefuseReload(c) ==
  /\ phase = "serving"
  /\ conn[c] = "sent"
  /\ kind[c] # "refresh"
  /\ file = Invalid
  /\ conn' = [conn EXCEPT ![c] = "error"]
  /\ UNCHANGED <<fwVars, files, loop, worker, kind, cmd>>

\* Mutant: while a worker is out, a reload only marks the follow-up.
ReloadWhenIdle(c) ==
  /\ phase = "serving"
  /\ conn[c] = "sent"
  /\ kind[c] # "refresh"
  /\ file # Invalid
  /\ cfg' = IF busy THEN cfg ELSE file
  /\ saved' = cfg'
  /\ Request(cfg')
  /\ conn' = [Adopted EXCEPT ![c] = Latest]
  /\ UNCHANGED <<fwVars, file, shown, phase, boots, pending, wake, kind, cmd>>

\* _dispatch_client of a reload: read the config, save it, request.  The
\* request adopts the waiters before this client becomes one of them.
Reload(c) ==
  /\ phase = "serving"
  /\ conn[c] = "sent"
  /\ kind[c] # "refresh"
  /\ file # Invalid
  /\ cfg' = file
  /\ saved' = file
  /\ Request(file)
  /\ conn' = [Adopted EXCEPT ![c] = Latest]
  /\ UNCHANGED <<fwVars, file, shown, phase, boots, pending, wake, kind, cmd>>

\* _dispatch_client of a refresh: request with the configuration in force.
Refresh(c) ==
  /\ phase = "serving"
  /\ conn[c] = "sent"
  /\ kind[c] = "refresh"
  /\ Request(cfg)
  /\ conn' = [Adopted EXCEPT ![c] = Latest]
  /\ UNCHANGED <<fwVars, files, phase, boots, cfg, pending, wake, kind, cmd>>

\* take_result of an obsolete batch: forget the baseline it may have left,
\* publish nothing, answer nobody, start the follow-up with the latest config.
TakeStale ==
  /\ phase = "serving"
  /\ wake
  /\ pending
  /\ wgen = Superseded
  /\ wake' = FALSE
  /\ pending' = FALSE
  /\ baseline' = NoBaseline
  /\ rerun' = FALSE
  /\ IF rerun THEN Launch(cfg) ELSE Locals("idle", cfg)
  /\ UNCHANGED <<fwVars, files, phase, boots, cfg, cli>>

\* Mutants: the block's result is not looked at, or is itself the answer.
ReplyExtra == extra
ReplyResult == result

\* What take_result answers to everybody who waits for the batch.
Reply == IF result \in {"on", "off"} THEN extra ELSE "error"

\* Mutant: a batch that could not apply leaves the state file alone.
TakeCurrentKeepsShown ==
  /\ phase = "serving"
  /\ wake
  /\ pending
  /\ wgen = Latest
  /\ wake' = FALSE
  /\ pending' = FALSE
  /\ shown' = IF result \in {NoResult, "unavailable"} THEN shown
              ELSE [status |-> result, observed |-> TRUE]
  /\ conn' = [c \in Clients |-> IF conn[c] = Latest THEN Reply ELSE conn[c]]
  /\ rerun' = FALSE
  /\ IF rerun THEN baseline' = Invalidated(cfg) /\ Launch(cfg)
              ELSE UNCHANGED baseline /\ Locals("idle", cfg)
  /\ UNCHANGED <<fwVars, file, saved, phase, boots, cfg, kind, cmd>>

\* take_result of the current batch: publish, answer, and start the follow-up
\* that a periodic tick left, as a new periodic request.
TakeCurrent ==
  /\ phase = "serving"
  /\ wake
  /\ pending
  /\ wgen = Latest
  /\ wake' = FALSE
  /\ pending' = FALSE
  /\ shown' = [status |-> IF result = NoResult THEN "unavailable" ELSE result,
               observed |-> shown.observed \/ result # NoResult]
  /\ conn' = [c \in Clients |-> IF conn[c] = Latest THEN Reply ELSE conn[c]]
  /\ rerun' = FALSE
  /\ IF rerun THEN baseline' = Invalidated(cfg) /\ Launch(cfg)
              ELSE UNCHANGED baseline /\ Locals("idle", cfg)
  /\ UNCHANGED <<fwVars, file, saved, phase, boots, cfg, kind, cmd>>

\* _read_client at end of file, _service_clients past the deadline: a client
\* that left, or whose time is up, is dropped.
Drop(c) ==
  /\ phase = "serving"
  /\ conn[c] \in Waiting
  /\ cmd[c] # "asked"
  /\ conn' = [conn EXCEPT ![c] = "closed"]
  /\ UNCHANGED <<fwVars, files, loop, worker, kind, cmd>>

\* SIGTERM: the loop ends; stopping is set, the baseline dropped, every client
\* closed.  A line nobody dispatched is lost with its connection.
Stop ==
  /\ phase \in {"boot", "serving"}
  /\ phase' = "stopping"
  /\ baseline' = NoBaseline
  /\ conn' = [c \in Clients |->
                CASE conn[c] \in {"queued", "sent"} -> "refused"
                  [] conn[c] \in Waiting -> "closed"
                  [] OTHER -> conn[c]]
  /\ UNCHANGED <<fwVars, files, boots, cfg, rerun, pending, wake, worker, kind, cmd>>

\* The process ends after at most three seconds of join, whatever the daemon
\* thread is doing; a command of it may be left behind with root.
Exit ==
  /\ phase = "stopping"
  /\ phase' = "off"
  /\ Locals("idle", cfg)
  /\ rerun' = FALSE
  /\ pending' = FALSE
  /\ wake' = FALSE
  /\ baseline' = NoBaseline
  /\ \/ UNCHANGED late
     \/ pc \in {"flush", "replace"} /\ helper /\ late' = late \union {desired}
  /\ UNCHANGED <<helper, table, slice, slices, intact, faults, files, boots, cfg, cli>>
-----------------------------------------------------------------------------
(* The worker: work() in _launch, _apply, _Reconciler.reconcile. *)

WorkerUnchanged == UNCHANGED <<files, phase, boots, cfg, rerun, pending, wgen, wcfg, cli>>

\* A command fails: the environment's doing, or the cancellation of a stop.
CommandFails == \/ phase = "stopping" /\ UNCHANGED faults
                \/ Fault

\* resolve_batch, skipped when the block is disabled, then current().
Resolve ==
  /\ pc = "resolve"
  /\ desired' \in (IF wcfg \in Disabled THEN {NoAddrs} ELSE Answers[wcfg])
  /\ pc' = IF ~Current THEN "observe"
           ELSE IF desired' = NoAddrs THEN "reconcile" ELSE "slice"
  /\ UNCHANGED <<fwVars, baseline, wake, ident, result, extra>>
  /\ WorkerUnchanged

\* Resolution raises, an unwritable cache for one: work()'s except clause.
ResolveRaises ==
  /\ pc = "resolve"
  /\ wcfg \notin Disabled
  /\ Fault
  /\ baseline' = NoBaseline
  /\ result' = "unavailable"
  /\ pc' = "observe"
  /\ UNCHANGED <<helper, table, slice, slices, late, intact, wake, desired, ident, extra>>
  /\ WorkerUnchanged

\* ensure_slice: systemd starts the unit, with a new cgroup when it was gone.
StartSlice ==
  /\ pc = "slice"
  /\ \/ slice # 0 /\ UNCHANGED <<slice, slices>>
     \/ slice = 0 /\ slice' = slices + 1 /\ slices' = slices + 1
  /\ pc' = "reconcile"
  /\ UNCHANGED <<helper, table, late, intact, faults, baseline, wake, desired, ident, result, extra>>
  /\ WorkerUnchanged

\* Mutant: the baseline survives a slice that does not start.
SliceFailsKeepsBaseline ==
  /\ pc = "slice"
  /\ CommandFails
  /\ result' = "unavailable"
  /\ pc' = "observe"
  /\ UNCHANGED <<helper, table, slice, slices, late, intact, baseline, wake, desired, ident, extra>>
  /\ WorkerUnchanged

\* _apply when the slice does not start: unavailable, and the baseline is dropped.
StartSliceFails ==
  /\ pc = "slice"
  /\ CommandFails
  /\ baseline' = NoBaseline
  /\ result' = "unavailable"
  /\ pc' = "observe"
  /\ UNCHANGED <<helper, table, slice, slices, late, intact, wake, desired, ident, extra>>
  /\ WorkerUnchanged

\* Mutants: a baseline for the same policy is trusted without a check; an empty
\* policy is taken for nothing to do.
BeginTrustsBaseline ==
  /\ pc = "reconcile"
  /\ LET reusable == baseline.policy = desired
     IN /\ pc' = IF ~Current THEN "observe"
                 ELSE IF desired = NoAddrs THEN "flush"
                 ELSE IF reusable THEN "observe" ELSE "replace"
        /\ result' = IF Current /\ desired # NoAddrs /\ reusable THEN "on" ELSE result
        /\ baseline' = IF Current /\ desired # NoAddrs /\ reusable
                       THEN baseline ELSE NoBaseline
  /\ UNCHANGED <<fwVars, wake, desired, ident, extra>>
  /\ WorkerUnchanged

\* reconcile() up to its first command.
BeginReconcile ==
  /\ pc = "reconcile"
  /\ LET reusable == baseline.policy = desired
     IN /\ pc' = IF ~Current THEN "observe"
                 ELSE IF desired = NoAddrs THEN "flush"
                 ELSE IF reusable THEN "recheck" ELSE "replace"
        /\ baseline' = IF Current /\ desired # NoAddrs /\ reusable
                       THEN baseline ELSE NoBaseline
  /\ UNCHANGED <<fwVars, wake, desired, ident, result, extra>>
  /\ WorkerUnchanged

\* reconcile() returns: None once the generation is obsolete.
Return(r) ==
  /\ result' = IF Current THEN r ELSE NoResult
  /\ pc' = "observe"

\* check of the policy the baseline holds.  The identity is the baseline's or
\* the policy has to be replaced.
Recheck ==
  /\ pc = "recheck"
  /\ \/ /\ Verifies(desired)
        /\ Current => slice = baseline.slice
        /\ intact' = TRUE
        /\ baseline' = IF Current THEN baseline ELSE NoBaseline
        /\ Return("on")
        /\ UNCHANGED faults
     \/ /\ \/ CommandFails
           \/ UNCHANGED faults /\ ~(Verifies(desired) /\ (Current => slice = baseline.slice))
        /\ UNCHANGED intact
        /\ baseline' = NoBaseline
        /\ IF Current THEN pc' = "replace" /\ UNCHANGED result
                      ELSE Return(NoResult)
  /\ UNCHANGED <<helper, table, slice, slices, late, wake, desired, ident, extra>>
  /\ WorkerUnchanged

\* _apply_result([]): without a helper there is no table, so nothing to flush.
Flush ==
  /\ pc = "flush"
  /\ \/ ~helper /\ Return("off") /\ UNCHANGED <<table, late, intact, faults>>
     \/ helper /\ Load(NoAddrs) /\ intact' = TRUE /\ Return("off") /\ UNCHANGED <<late, faults>>
     \/ CommandFails /\ Unanswered(NoAddrs) /\ Return("unavailable")
  /\ UNCHANGED <<helper, slice, slices, baseline, wake, desired, ident, extra>>
  /\ WorkerUnchanged

\* _apply_result(desired), replace ds: the helper refuses without a slice.
Replace ==
  /\ pc = "replace"
  /\ \/ /\ helper
        /\ Load(desired)
        /\ intact' = FALSE
        /\ IF Current THEN pc' = "verify" /\ UNCHANGED result
                      ELSE Return(NoResult)
        /\ UNCHANGED <<late, faults>>
     \/ /\ ~helper \/ ~Loadable(desired)
        /\ Return("unavailable")
        /\ UNCHANGED <<table, late, intact, faults>>
     \/ CommandFails /\ Unanswered(desired) /\ Return("unavailable")
  /\ UNCHANGED <<helper, slice, slices, baseline, wake, desired, ident, extra>>
  /\ WorkerUnchanged

\* check of what replace has just loaded, up to the last test of current().
Verify ==
  /\ pc = "verify"
  /\ \/ /\ Verifies(desired)
        /\ intact' = TRUE
        /\ IF Current THEN pc' = "keep" /\ ident' = slice /\ UNCHANGED result
                      ELSE Return(NoResult) /\ UNCHANGED ident
        /\ UNCHANGED faults
     \/ /\ CommandFails \/ (~Verifies(desired) /\ UNCHANGED faults)
        /\ Return("unavailable")
        /\ UNCHANGED <<intact, ident>>
  /\ UNCHANGED <<helper, table, slice, slices, late, baseline, wake, desired, extra>>
  /\ WorkerUnchanged

\* The assignment of the baseline, after the test: the loop may have ended the
\* generation in between.
Keep ==
  /\ pc = "keep"
  /\ baseline' = [policy |-> desired, slice |-> ident]
  /\ result' = "on"
  /\ pc' = "observe"
  /\ UNCHANGED <<fwVars, wake, desired, ident, extra>>
  /\ WorkerUnchanged

\* refresh_entries and _observe_links, for the current generation only.
Observe ==
  /\ pc = "observe"
  /\ extra' \in (IF Current THEN Replies ELSE {"ok"})
  /\ pc' = "publish"
  /\ UNCHANGED <<fwVars, baseline, wake, desired, ident, result>>
  /\ WorkerUnchanged

\* The item is handed over, then the wake pipe written.
Publish ==
  /\ pc = "publish"
  /\ pending' = TRUE
  /\ pc' = "wake"
  /\ UNCHANGED <<fwVars, files, phase, boots, cfg, rerun, baseline, wake,
                 wgen, wcfg, desired, ident, result, extra, cli>>

Wake ==
  /\ pc = "wake"
  /\ wake' = (phase # "stopping")
  /\ pc' = "done"
  /\ UNCHANGED <<fwVars, baseline, desired, ident, result, extra>>
  /\ WorkerUnchanged

Worker == \/ Resolve \/ ResolveRaises \/ StartSlice \/ StartSliceFails
          \/ BeginReconcile \/ Recheck \/ Flush \/ Replace \/ Verify \/ Keep
          \/ Observe \/ Publish \/ Wake
-----------------------------------------------------------------------------
(* The commands.  "edit" stands for every command that goes through         *)
(* config.update; "reload" for distractions reload after an edit by hand,   *)
(* which alone can leave a file that does not validate.                     *)

\* The config file changes; the process has not asked for a reload yet.
Edit(c) ==
  /\ cmd[c] = "idle"
  /\ \/ kind[c] = "edit" /\ file # Invalid /\ file' \in Configs
     \/ kind[c] = "reload" /\ file' \in Configs \union {Invalid}
     \/ kind[c] = "off" /\ file # Invalid /\ file' \in Disabled
  /\ cmd' = [cmd EXCEPT ![c] = "edited"]
  /\ UNCHANGED <<fwVars, saved, shown, loop, worker, kind, conn>>

\* request_reload and _ask: a socket nobody has bound refuses the connection.
Connect(c) ==
  /\ cmd[c] = IF kind[c] = "refresh" THEN "idle" ELSE "edited"
  /\ cmd' = [cmd EXCEPT ![c] = "asked"]
  /\ conn' = [conn EXCEPT ![c] = IF phase = "serving" THEN "queued" ELSE "refused"]
  /\ UNCHANGED <<fwVars, files, loop, worker, kind>>

\* The process has its answer, or waited long enough for one (two seconds for
\* config.update), and carries on whatever it was.
Leave(c) ==
  /\ cmd[c] = "asked"
  /\ cmd' = [cmd EXCEPT ![c] = IF kind[c] = "off" THEN "flush" ELSE "done"]
  /\ UNCHANGED <<fwVars, files, loop, worker, kind, conn>>

\* _flush_block of `site-block off`: the command's own flush, in its own process.
FlushBlock(c) ==
  /\ cmd[c] = "flush"
  /\ \/ ~helper /\ UNCHANGED <<table, late, intact, faults>>
        /\ cmd' = [cmd EXCEPT ![c] = "blockoff"]
     \/ helper /\ Load(NoAddrs) /\ intact' = FALSE
        /\ cmd' = [cmd EXCEPT ![c] = "blockoff"] /\ UNCHANGED <<late, faults>>
     \/ Fault /\ Unanswered(NoAddrs)
        /\ cmd' = [cmd EXCEPT ![c] = "done"]
  /\ UNCHANGED <<helper, slice, slices, files, loop, worker, kind, conn>>
-----------------------------------------------------------------------------
Firewalled == Environment /\ UNCHANGED <<files, loop, worker, cli>>

Loop == \/ Boot \/ Bind \/ Periodic \/ TakeStale \/ TakeCurrent
        \/ \E c \in Clients : Accept(c) \/ RefuseReload(c) \/ Reload(c) \/ Refresh(c) \/ Drop(c)

Commands == \E c \in Clients : Edit(c) \/ Connect(c) \/ Leave(c) \/ FlushBlock(c)

Next == Loop \/ Stop \/ Exit \/ Worker \/ Commands \/ Firewalled

Spec == Init /\ [][Next]_vars

\* Every command the worker runs has a deadline, so the worker ends; the loop
\* serves whatever select reports, and its clock ticks.  Nothing is promised of
\* the commands, of the environment or of whoever stops the listener.
FairSpec ==
  /\ Spec
  /\ WF_vars(Worker)
  /\ WF_vars(Bind)
  /\ WF_vars(Periodic)
  /\ WF_vars(TakeStale \/ TakeCurrent)
  /\ \A c \in Clients : /\ WF_vars(Accept(c))
                         /\ WF_vars(RefuseReload(c) \/ Reload(c) \/ Refresh(c))
-----------------------------------------------------------------------------
(* Properties. *)

\* A client that waits is never forgotten: the batch that is out will answer it,
\* or is obsolete and its follow-up, which will, is owed (request,
\* _adopt_waiters, _follow).
WaitersAreServed ==
  phase = "serving" =>
    \A c \in Clients : conn[c] \in Waiting =>
      /\ conn[c] = Latest
      /\ busy
      /\ wgen = Latest \/ rerun

\* Only the newest configuration is ever published or left as a baseline: the
\* batch that counts as current was launched with the configuration in force,
\* and an obsolete one always has a follow-up (request, _launch, _follow).
CurrentUsesNewestConfig ==
  phase \in {"boot", "serving"} /\ busy =>
    IF wgen = Latest THEN wcfg = cfg ELSE rerun

\* No obsolete batch leaves a baseline that a later check would trust: between
\* batches a baseline is a policy of the configuration in force, and "on" has
\* been published for it (take_result, _Reconciler.invalidate, the unlocked
\* assignment of the baseline in reconcile).
BaselineIsPublished ==
  phase = "serving" /\ ~busy /\ baseline # NoBaseline =>
    /\ shown = [status |-> "on", observed |-> TRUE]
    /\ cfg \notin Disabled
    /\ baseline.policy \in Answers[cfg]

\* What state.json says of the block is what the kernel has, unless something
\* else touched the table or the slice since it was verified (reconcile's order
\* of replace, check and test; take_result).
PublishedIsEnforced ==
  phase = "serving" /\ ~busy /\ shown.observed /\ intact =>
    CASE shown.status = "on" -> /\ baseline # NoBaseline
                                /\ table = baseline
                                /\ slice = baseline.slice
      [] shown.status = "off" -> ~Blocking
      [] OTHER -> TRUE

\* A configuration on disk that differs from the one in force, from boot on, has
\* a command that wrote it and is still on its way to tell the listener, or one
\* the listener turned away unheard; a refresh is no such command
\* (config.update, request_reload, _dispatch_client).
UnreadConfigIsAnnounced ==
  phase \in {"boot", "serving"} /\ file # cfg /\ file # Invalid =>
    \E c \in Clients : /\ kind[c] # "refresh"
                       /\ cmd[c] = "edited" \/ conn[c] \in {"queued", "sent", "refused"}

\* "ok" means done: whoever reads it knows that the configuration in force has
\* been resolved and applied, and that state.json says so (take_result,
\* _reply_waiters; docs/internals.md: rather than receiving success when work
\* is merely queued).
TakenIsApplied ==
  /\ wcfg = cfg
  /\ shown'.observed
  /\ \/ shown'.status = "on" /\ cfg \notin Disabled /\ baseline.policy \in Answers[cfg]
     \/ shown'.status = "off" /\ (cfg \in Disabled \/ NoAddrs \in Answers[cfg])
OkStep(c) == conn[c] # "ok" /\ conn'[c] = "ok" => TakenIsApplied
OkMeansApplied == [][\A c \in Clients : OkStep(c)]_vars

\* A client that waits is answered in the end, whatever else is asked meanwhile,
\* unless it goes away or the listener stops (no lost wake-up or follow-up).
WaitersAreAnswered ==
  \A c \in Clients : conn[c] \in Waiting ~> conn[c] \notin Waiting

\* The block is as the configuration in force wants it.
Enforced ==
  /\ shown.observed
  /\ IF cfg \in Disabled \/ Answers[cfg] = {NoAddrs}
     THEN shown.status = "off" /\ ~Blocking
     ELSE /\ shown.status = "on"
          /\ table.policy \in Answers[cfg]
          /\ table.slice = slice

\* Once faults and requests end, the periodic reconciliation repairs whatever
\* they left, late commits of abandoned commands included, and keeps it so.
Converges == <>[](phase = "serving" /\ helper => Enforced)

\* A configuration the listener was told of, and did not turn away unheard, is
\* the one in force from some time on.
AnnouncedConfigTakesEffect ==
  <>[](/\ phase = "serving"
       /\ file # Invalid
       /\ \A c \in Clients : cmd[c] # "edited" /\ conn[c] # "refused"
       => cfg = file)
-----------------------------------------------------------------------------
(* The inductive invariant behind the safety properties, in parts.              *)

\* The policies a batch for a configuration may want.
Wanted(config) == IF config \in Disabled THEN {NoAddrs} ELSE Answers[config]

\* A process that has not connected has no connection.
CommandInv ==
  \A c \in Clients : cmd[c] \in {"idle", "edited"} => conn[c] = "none"

\* No worker outlives its process, nobody waits for a listener that does not
\* serve, and an item is taken only once it is complete.
HandoverInv ==
  /\ phase # "serving" => \A c \in Clients : conn[c] \notin Waiting
  /\ phase = "off" => pc = "idle" /\ baseline = NoBaseline
  /\ phase = "boot" => busy
  /\ pending => pc \in {"wake", "done"}
  /\ wake => pc = "done"

\* What a worker wants from some step on is a policy of the configuration it
\* captured.
DesiredInv ==
  /\ pc = "reconcile" => desired \in Wanted(wcfg)
  /\ pc = "flush" => desired = NoAddrs /\ NoAddrs \in Wanted(wcfg)
  /\ pc \in {"slice", "recheck", "replace", "verify", "keep"} =>
       /\ wcfg \notin Disabled
       /\ desired \in Answers[wcfg]
       /\ desired # NoAddrs

\* While its generation is current: the baseline and the result of a worker.
Effective == phase \in {"boot", "serving"} /\ wgen = Latest
BaselineInv ==
  Effective =>
    /\ pc \in {"flush", "replace", "verify", "keep"} => baseline = NoBaseline
    /\ pc = "recheck" => baseline.policy = desired
    /\ pc \in {"observe", "publish", "wake", "done"} =>
         /\ result # NoResult
         /\ result = "off" => NoAddrs \in Wanted(wcfg)
         /\ IF result = "on" THEN /\ wcfg \notin Disabled
                                  /\ baseline.policy \in Answers[wcfg]
                                  /\ baseline.policy # NoAddrs
                             ELSE baseline = NoBaseline

\* What the kernel holds while nothing else touched it.
Holds(b) == table = b /\ slice = b.slice
KernelInv ==
  /\ ~helper => table.policy = Absent /\ late = {}
  /\ Effective /\ intact =>
       /\ pc = "keep" => Holds([policy |-> desired, slice |-> ident])
       /\ pc \in {"observe", "publish", "wake", "done"} =>
            /\ result = "on" => Holds(baseline)
            /\ result = "off" => ~Blocking

Inv == /\ CommandInv
       /\ HandoverInv
       /\ WaitersAreServed
       /\ CurrentUsesNewestConfig
       /\ DesiredInv
       /\ BaselineInv
       /\ BaselineIsPublished
       /\ KernelInv
       /\ PublishedIsEnforced
-----------------------------------------------------------------------------
(* The listener implements the service SiteBlock describes.  A client it has   *)
(* not heard, or never heard, has asked nothing of that service.               *)

Answer(c) == CASE conn[c] \in {"none", "queued", "sent", "refused"} -> "none"
               [] conn[c] \in Waiting -> "waiting"
               [] OTHER -> conn[c]

Answered == [c \in Clients |-> Answer(c)]

Service == INSTANCE SiteBlock WITH inforce <- cfg, answer <- Answered

\* Requests are answered together, by one publication that is about the
\* configuration in force, and never by an obsolete batch (take_result).
ImplementsSiteBlock == Service!Spec
=============================================================================
