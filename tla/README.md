# omarchy-distraction-space: verification project

TLA+ models of the distraction space plugin: its listener, the firewall its site
block works on, the lock and the held records, the notification hold and the sound
mute, the containment of windows, the feedback routers, the launcher entries, and the
life of an installation. The models are translated from the source; TLC checks them on
small instances and TLAPS proves safety for every value of the constants.

## 1. The system

One long-lived process per session, the **listener** (`ds/listener.py`), owns the
runtime behaviour. It is a single-threaded `select` loop that ticks once a second,
plus one daemon thread at a time, the **reconciliation worker**, for everything that
runs commands. Short-lived **commands** (`distractions ...`) edit files and ask the
listener over a Unix socket. A **root helper** (`distractions-nft`, through a
passwordless `sudo` grant) changes the one nftables table. Setup installs and
removes all of it.

| component | state it keeps | operations | talks to |
|---|---|---|---|
| Listener loop (`ds/listener.py`) | `_Ctx`: config in force, `latest`, `busy`, `rerun`, `pending`, clients; `state.json`, `expansion.json` | boot, reload, refresh, periodic request, take a result, accept/dispatch/drop clients, stop | worker (`pending` + wake pipe), commands (socket), every component below once per tick |
| Reconciliation worker (`_launch`, `ds/net.py`) | its locals; the reconciler's baseline | resolve, start the slice, recheck / replace / verify / flush, refresh launchers, observe links, hand over | helper, systemd, loop |
| Root helper and table (`distractions-nft`) | table `inet omarchy_ds`, slice cgroup (kernel) | `replace`, `flush`, `check` | worker, `site-block off`, setup |
| Config (`ds/config.py`) | `config.json` | `update` under a flock, then `request_reload` | listener |
| Lock (`ds/lock.py`) | `lock.json` | lock, unlock, lazy expiry, enter/leave hooks | loop's tick, summary |
| Notification hold (`ds/hold.py`, `sync_hold`) | pushed keys, outage window, `silenced-owned.json`, the shell's silenced list | push, release, retry | shell IPC, loop |
| Held records (`ds/state.py`, `ds/summary.py`) | `held.jsonl` and its claim | append and trim, take | capture, loop, `unlock` |
| Sound mute (`hold.Mute`, `ds/wp.py`) | mutes owned, saved to disk | sync, pump, restore | PipeWire |
| Containment (`ds/hypr.py`) | rules, releases, contained windows | events, scan, release, expire | Hyprland |
| Feedback routers (`ds/feedback.py`) | connection counts, port pool, debounce | serve, splice, stop | browser, table's redirects |
| Launcher entries (`ds/setup.py`) | desktop files, `entries.json`, journal | refresh, rollback, defer | worker, setup, remove |
| Setup lifecycle (`ds/setup.py`) | helper, sudoers, units, clone, core record | install, core, remove | root, listener |
| Opening and handing links (`ds/launch.py`, `ds/handoff.py`, `ds/profile.py`) | profile directory, hand-off files | open, forward, import | browser, Hyprland |
| Menus, status, bar (`ds/ui.py`, `ds/state.py`, `BarWidget.qml`) | none | read state, notify | all |

### What is hard

* The worker reads `latest` without a lock, between commands that take seconds,
  while the loop changes it; it assigns the baseline after its last test.
* A command that outlives its deadline may or may not have committed, and root's
  child may commit later.
* The kernel keeps the table over listener restarts; other programs may change it,
  and the slice its rules name.
* Two processes flush: the listener, and `site-block off` on its own.
* A reload may arrive at any point: in the listener's boot, over the cap on
  clients, while a batch is out, while it stops.
* Files are shared by processes without a lock: held records, `lock.json`,
  `silenced-owned.json`, the entries' journal.

### What makes each component correct

* Listener and worker: nobody who waits is forgotten; only the newest configuration
  is published; published means enforced; `ok` means done; faults heal.
* Config: an answered key is never lost; a change is read by the listener.
* Lock: exactly one unlock per lock, by the command or by the expiry; a hook each.
* Hold: what is silenced is owned and is given back; an outage is retried as
  documented. Held records: each is summarised once.
* Mute: every mute the plugin set is undone, after a crash too.
* Containment: an exempt window is contained again after its deadline, never before.
* Feedback: connections stay under their caps, a port is leased once.
* Entries: after any kill the next run restores or completes; the manifest never
  names a file it does not own. Setup: root's changes are all or none; removal ends
  with nothing granted.

## 2. Modules

| module | what it is |
|---|---|
| `Firewall` | the table, the slice and the helper's commands, with the environment's faults |
| `Reconcile` | the listener's loop, the worker and the commands, over `Firewall`; properties; the inductive invariant |
| `SiteBlock` | the abstract service: ask, refuse, publish, close, restart |
| `HeldFile` | `held.jsonl`: appending with its trim, claiming, as the file system does it |
| `OneLock` | the abstract lock: give, give up, time's up, end, tell |
| `Lock` | the lock's file, its commands, the listener's tick and boundaries, over `HeldFile` |
| `Silence` | `hold.push`: the shell's silenced list, one call at a time, and the record of what is the plugin's |
| `Hold` | `sync_hold`: which pushes start, the episode of short retries, the mute, over `Silence` |
| `Mute` | `hold.Mute`: the sink inputs, `muted.json` and the WirePlumber hook's key |
| `Rules` | `apply_rules`: one batch of window rules with its rollback and two registries |
| `Contain` | windows, socket2, exemptions, adoption and scans, over `Rules` |
| `Feedback` | the handler threads with the connection and splice slots, the port pool and the banner |
| `Entries` | the launcher entries: the transactions of setup, refresh and remove under the entries lock |
| `HyprFile` | the Hyprland file with its digest, its line and its backup |
| `Setup` | setup, `setup --core` and `setup --remove` under the core lock, over `HyprFile` |
| `MC*` | instances for TLC |
| `ReconcileProofs` | types; the inductive invariant of the listener and its consequences; the refinement of `SiteBlock` |
| `LockProofs` | the inductive invariants of lock and held file and their consequences; the refinement of `OneLock` |
| `HoldProofs`, `FeedbackProofs`, `ContainProofs`, `SetupProofs`, `MuteProofs`, `EntriesProofs` | the inductive invariants of these modules and their consequences |

### Firewall

`table` is the policy the table enforces (an address set as a model value, `NoAddrs`
after a flush, `Absent`, or `Drifted` after somebody else's edit) and the identity of
the slice its rules name. `slice` is the identity of the live cgroup. `Load` is one
nft transaction (`commit`), `Verifies` is `check_policy`, `Unanswered` is a `replace`
or `flush` whose caller hears an error or nothing: it had no effect, took effect, or
will (`late`). The environment edits the table, loses the slice, commits late,
installs the helper. `MaxFaults` bounds its faults. `intact` is a history variable:
nothing touched table or slice since the last check or flush that succeeded.

### Reconcile

Each handler of the loop is one action; the worker is cut at each command and each
test of `current()`.

| action | code |
|---|---|
| `Boot`, `Bind` | `run`, `_Ctx.boot`, `enforce`; `_bind_reload` |
| `Periodic` | `tick` once `PERIOD` has passed, `request("periodic")` |
| `Accept`, `RefuseReload`, `Reload`, `Refresh`, `Drop` | `_accept_reload`, `_dispatch_client`, `_read_client`, `_service_clients` |
| `TakeStale`, `TakeCurrent` | `take_result`, `_follow`, `_reply_waiters` |
| `Stop`, `Exit` | the `finally` of `_listen`, the end of `run` |
| `Resolve`, `ResolveRaises` | `resolve_batch` and the except clause of `work` |
| `StartSlice`, `StartSliceFails` | `ensure_slice`, `_apply` |
| `BeginReconcile`, `Recheck`, `Flush`, `Replace`, `Verify`, `Keep` | `_Reconciler.reconcile`, `_apply_result`, `_check_result` |
| `Observe`, `Publish`, `Wake` | the end of `work` |
| `Edit`, `Connect`, `Leave`, `FlushBlock` | `config.update`, `request_reload` / `_ask`, `_flush_block` |

A generation number is only compared with `latest` for equality, and `latest` only
grows, so it is kept as `Latest` or `Superseded`. A client's entry in `conn` is its
`_Client.gen` as the listener sees it (`sent` before dispatch, a generation while it
waits, then the reply or `closed`). `baseline` is `_Reconciler.baseline`, with the
empty policy for `None`. `Observe` folds launcher refresh and link check into one
of three outcomes; a first batch, which skips the launchers, is given all three too.

### SiteBlock

No worker, no generations, no baseline: one configuration is in force, and an outcome
is published in one step with the answers to everybody who has asked. `Reconcile`
implements it under `answer <- Answered`, `inforce <- cfg`.

### HeldFile

A record is the number of its arrival and a file is the set of records in it;
`FileCap` is the 64 KiB of `FILE_CAP` counted in records. A path nothing is at holds
`NoFile`. `handle` says where the file that the append opened is by now: still at
`held.jsonl`, renamed by a process that claims it, or unlinked. `leaked` are the
records in a claim whose listener was killed: its file name holds the dead pid, and
nothing reads it again. `restored` is history: records that `Replace` put back at the
path after a claim had taken them.

| action | code |
|---|---|
| `Open`, `Write` | `append_held` up to the end of its `with`, `open_private` |
| `TrimFindsNone`, `TrimFits`, `TrimCuts`, `Replace` | `_trim` (its read, its `os.replace`) and what `append_held` returns |
| `Claim`, `ClaimsNothing`, `ReadClaim`, `Unlink` | `summary.take`: the rename, `_claimed_lines`, the unlink |
| `Close` | the kernel, when the listener dies |

### OneLock

No file, no flock, no processes: a lock is wanted, stands, is overdue, ended and told
(by its unlock hook), or over without an end, because it was never given or because
another lock replaced it when its time was up. `Lock` implements it under
`phase <- Phases`, where a lock ended or told twice has a phase `OneLock` has not, and
a lock command that never wrote `lock.json` gave its lock up. What is not in `OneLock`
is who ends a lock: that is `OnlyUnlockCutsShort`.

### Lock

`lockfile` is `lock.json`; the lock it names is the command that wrote it, which
stands for its purpose, and its deadline is none, to come, or passed. `pc[p]` is where
a command, or the listener, is between two of its reads and writes of shared files;
everything a process does alone is one step. `saw[p]` is the lock whose purpose
`unlock` read, or that the listener found overdue.

| action | code |
|---|---|
| `LockAsk`, `LockAway`, `LockCheck`, `LockWrite`, `LockHook` | `_cli_lock`, the switch away, `_do` under the flock (its test, its write), the hook |
| `UnlockAsk`, `UnlockCheck`, `UnlockWrite`, `UnlockHook` | `_cli_unlock`, `_do` up to the claim, `write_lock`, the hook |
| `EnterAsk`, `EnterGo`, `Switch` | `enter`, `_go_to_space`; the person's own switches, `leave` and `toggle` |
| `TakeClaim`, `TakeRead`, `TakeUnlink` | `take`, by an unlock inside the flock or by the listener outside it |
| `Tick`, `Expire`, `ExpireWrite` | `_Ctx.tick`, `expire_if_due` |
| `Space`, `BoundaryHook` | `_Ctx.space`, the two callers of `summarize` |
| `Append`, `AppendWrite`, `AppendTrim`, `AppendReplace` | `Capture._record` in the loop |
| `Kill`, `ListenerDies`, `ListenerStarts` | a process is killed, which frees its flock; another listener |

The hold is in its off-space mode: the listener records while it last saw the person
off the space. A workspace event carries a name that may be older than the workspace
the person is on; the model reads the current one, and Hyprland may not answer.
`unlock` may also stop under the flock without a reason the model knows (the lock is
gone, the reason is short, the log cannot be written). The listener is one thread: of
the claims, only an unlock's can fall between the steps of an append.

### Silence and Hold

`silenced` is the shell's list, which the person edits too; `ownedFile` is
`silenced-owned.json`; `push` is the push in progress with what it read and what it
has left to call. `hand` and `unsure` are history: which silenced keys the person put
there, and which keys a fault or a second hand left without a true record.

| action | code |
|---|---|
| `Begin`, `PushRead`, `Unsilence`, `SilenceKey`, `PushDone` | `hold.push`: the record and the list, the calls, the record at its end |
| `FailedRead`, `FailedCall`, `LostAnswer`, `PushKilled` | a call that fails, one that was done and timed out, a SIGKILL |
| `PersonSilences`, `PersonUnsilences`, `ShellStops`, `ShellStarts` | the shell and the person |
| `SyncHold`, `SyncHoldEnds` | `_Ctx.sync_hold` up to the push, and from it on (`retry`, the window, `mute.sync`) |
| `Start`, `Stop`, `StopEnds` | `_Ctx.__init__`, `_Ctx.release_hold` at the end of `run` |
| `Tick`, `HoldChanges`, `TableChanges` | time; what `effective_hold` and `sender_table` return |

Time is what the code compares: `since` runs from the last failure up to `Period`,
`window` counts the retry window down.

### Mute

`stream` says which process a sink input belongs to, `owned` is the memory of
`Mute`, `file` is `muted.json`, `key` the hook's key and `job` the scan or release in
progress, of which `List` is the `pactl list` with all that is decided from it, `Set`
one `set-sink-input-mute` and `JobEnds` the save. `Sync`, `RetryRelease`, `Pump` and
`Stop` start jobs; `tail`, `dirty` and `removed` are `pactl subscribe`.

### Rules and Contain

`Rules`: `live` are the compositor's rules, `registry` and `specs` are `rules.json` and
`rule-specs.json`, `batch` is where `apply_rules` is. `SetRule`, `DropRule` and
`UndoRule` are one `hyprctl eval` each, their `...Fails` may have done nothing, half or
all of it; `WriteNames` and `WriteSpecs` are the two files; a kill cuts a batch off
anywhere.

`Contain`: a window has an id of its own, the listener knows its address, which is
used again. `events` are the lines of socket2 that wait, `missed` those that nobody
was connected for, `todo` the windows a scan or an event still has to look up or
place, `ask` a `release` on its way, behind the lines that were there when it was sent.

| action | code |
|---|---|
| `WindowOpens`, `WindowCloses`, `PersonDrags`, `HyprlandReloads`, `Disconnects` | Hyprland and the person, with `Tell` for the line each writes |
| `Enforce` in `Reload`, `Restart`, `TakeReload` | `_Ctx.enforce`, `configreloaded` |
| `Scan`, `ScanFails` | `_scan` |
| `TakeOpen`, `TakeMove`, `TakeClose` | `handle_event` |
| `Look`, `LookFails` | `_client_by_address` |
| `Skip`, `Stays`, `Move`, `MoveFails` | `contain`, `_adopt`, `contain_address` |
| `PersonReleases`, `Release`, `DeadlinePasses`, `Expire` | `cmd_release`, `_Ctx.release`, `released`, `expire_released` |

### Feedback

`thread` says where each handler thread is, its source port and the refused ones it
skips. `Accept`, `ThreadFails`, `Close` are the connection slot; `ClaimSplice`,
`ReleaseSplice` the splice slot; `AcquirePort`, `SocketFails`, `Connect`,
`CloseSocket`, `PumpEnds`, `FreePort` one splice's port; `FirstLook`, `Show` the two
looks of `_fire` around its call of Hyprland. `Restart` is a reload that stops and
starts the routers with threads still running.

### Entries

What is in a file is who wrote it: the plugin, or one installation, of a web app or of
another program's entry. `Forwarded` is `_forward_entry`: only a web app keeps an
unlisted path in the plan, so that a sync drops an owned path which somebody has put
another entry at, and `DropEntry` stages and `Clean` deletes that entry as the code
does. `file`, `backup` and `stage` are the three directories, `manifest` is
`entries.json`, `tx` the transaction and `journal` its undo list; `newest`, `before`,
`deleted` and `discarded` are history. An entry whose `Exec` cannot be parsed (kept in
the plan and not touched) or that has none, the text of entries and the desktop cache
are left out.

| action | code |
|---|---|
| `BeginSetup`, `BeginRefresh`, `BeginRemove` | `sync_entries`, `refresh_entries`, `remove_entries` once they have the lock |
| `Ask`, `AskFails`, `SetDefault`, `SetDefaultFails` | `_restore_handler`, `_set_default` |
| `Plan`, `DropEntry`, `HandBack`, `WriteEntry`, `Shelve`, `Put`, `Record`, `Clean` | `_plan`, `_unchanged`, `_sync_files` |
| `SyncFails`, `UndoStep`, `UndoFails`, `Undone` | its except clause, `_rollback` |
| `Unlink`, `Bring`, `Forget`, `RemoveFails` | `_remove_entries` |
| `Install`, `Uninstall`, `Edit`, `Killed` | Omarchy's installers, the person, a kill |

### HyprFile and Setup

`HyprFile` cuts `sync_hypr` and `remove_hypr` where the person may edit in between: a
remove's read and digest compare (`FileStep`) are one step, its `unlink` another, and so
are the `_unlink` of an earlier backup and the `move`. `Edited` is the person's latest
edit, `Older` one before it, which only a backup can still hold; `edit` tells an edit
that stands from one that fell after the read which decided (`overtaken`).

`run` is the run that holds the core lock and the step it is at; `outcome` and
`recorded` are `core.json`; `parts`, `clone`, `root`, `table` are what is installed.
`marks` is history: what went wrong in a way no later run can see (`unrecorded`: a
core.json that could not be written; `cut`: a kill or a failure between a file and its
record; `torn`: an rm that did a part; `joined`: something started beside a remove).

| action | code |
|---|---|
| `BeginCore`, `NameCore`, `BeginSetup`, `BeginRemove` | `_install_core`, `_install`, `_remove` and what each writes to core.json |
| `InstallRoot`, `InstallPart`, `InstallHypr`, `InstallClone`, `Rescan` and their failures | the steps of `_sync_user_half` |
| `PlanHypr`, `WriteFile`, `WriteDigest`, `WriteLine`; `DropLine`, `FileStep`, `UnlinkFile`, `ClearAside`, `MoveAside`, `DropDigest` | `sync_hypr`; `remove_hypr` (of `HyprFile`; steps of a run) |
| `Finish`, `FinishFails` | `_spawn_listener`, the verdict of a run |
| `StopListener`, `DropPart`, `Flush`, `DropHypr`, `Destroy`, `RemoveRoot`, `DropClone`, `RemoveDone`, `RemoveFails` | `_remove`, in its order; a file that is gone when its `unlink` or `move` comes fails without a fault (`Impossible`) |
| `Applies`, `StartListener`, `SwitchBlock`, `Edit`, `Update`, `Killed` | the listener, autostart, `site-block`, the person, a plugin update, a kill |

## 3. What TLC checks

| run | question | bounds |
|---|---|---|
| `loop` | Do two commands, the tick, the worker and a stop, in any order, keep the promises to those who wait and the service? | 2 clients (reload of an edited or broken file, refresh), 2 configurations, 2 policies, no faults, one listener |
| `live` | Over a fault and a restart, with `site-block off`'s own flush: is what was published still enforced, and a kept baseline true? Are waiters answered, faults repaired, announced configurations put in force? | 1 client, 1 fault, 2 listeners, `FairSpec` |
| `lock_boundaries` | Do three commands, the tick, a held record and a kill, in any order, implement `OneLock`? | 3 commands, 1 record, cap 1, 1 kill |
| `lock_live` | Does an overdue lock end, and each end get its hook? At the cap, are only the oldest records cut, and do only trims repeat records? | 2 commands, 2 records, cap 1, no kills, `FairSpec` |
| `summary_twice` | Is each record given to one boundary? (violated) | as `lock_live`, without fairness |
| `hold` | Does the plugin take back its own keys and only those, with one bounded episode of retries per outage? | 2 keys, 2 lists, 1 fault (a stop of the shell is one), `FairSpec` |
| `mute` | Are records of mutes complete, is a hand's mute kept, is the slice heard again? | 2 sink inputs, 2 identities, 2 faults, `FairSpec` |
| `routers` | Do slots and leases survive every path of a thread and a restart, and does each request end? | 3 threads, 2 ports, 3 connections, 2 splices, 1 fault, `FairSpec` |
| `contain` | Does each window the loop has seen end on the space, are the rules live, is a released window left alone? | 2 addresses, 2 windows opened, 1 rule name with 2 classes, 4 acts, 2 faults, 3 lines waiting |
| `entries` | Does a sync keep and record what it shadows, and a failed one leave no trace? | 1 path and the handler, 2 installations (each a web app or another entry), 1 edit, 3 transactions, 2 faults, 1 kill |
| `foreign_deleted` | Is nothing deleted that the plugin did not write? (violated) | as `entries`, 1 fault, no kill |
| `setup` | Does a removal stand and leave nothing, can a block be ended, is an edit kept? | 2 versions, 3 runs by hand or remove, 1 fault, 1 kill, 1 act beside them |

What a run checks is kept to what only a run shows, or what a reader wants to see on an
instance. These were checked on the same instances while the proofs were made, are
proved in section 4 and are in no cfg: the type invariants other than `Reconcile`'s,
`ChecksHoldUntilWrites`, `EndsOnce`, `OnlyUnlockCutsShort`, `NothingForgotten`,
`SpentStaysSpent`, `OneBanner`, `RecordsCanBePruned`, `CoreRunsOncePerVersion`,
`WorkingIsRecorded`.

Some properties are a conjunction of named parts, two sides of one promise:
`LeasesAreExact` (leased to one thread; given back), `MutesAreKnown` (recorded outside
the slice; swept inside it), `SettledIsContained` (the windows there are; the rules for
those to come), `ManifestIsTrue` (what is shadowed; what is the plugin's own).

Bounds of the site block: two clients are the least for one request to make another's
generation obsolete; two policies for one configuration let DNS move between batches;
one configuration is enabled and one disabled; one fault is a command that fails, or one
whose late commit meets the flush of `site-block off`; two listeners let a late commit
or a baseline cross a restart. Each client runs one command. The cap on clients equals
their number, so no run reaches the branch of `Accept` that turns a connection away;
only the theorems, which hold for every cap, speak of it. Deadlock is not checked: once
its commands are done and the listener has stopped for the last time the system may
stop. Symmetry exchanges the two policies, and the two clients, in `loop`, which has no
liveness property.

Bounds of the lock: each command is a lock, an unlock or an enter, chosen at the start,
so three commands hold a lock with two unlocks, or two locks with one unlock, beside the
tick, which is every pair that may meet under the flock and one that was there before.
One record is enough for a claim to fall between any two steps of its append and for two
boundaries to race for it, and leaves nothing to cut; `lock_live` and `summary_twice`
have two, so that an append meets a file with a record in it and a trim cuts, with a
claim between its read and its replacement. One kill reaches a process that dies in the
critical section or over a claimed file, and those that come after it. Commands are
exchangeable in the runs without liveness. The person may always switch, so TLC's
deadlock check shows nothing here; that nobody waits for the flock for ever is part of
`OverdueEnds` and `EndsAreHooked`.

Bounds of the rest. `hold`: with two keys a push has one done and one to do when it
fails, and a key may leave the list while the other stays; `RetryWindow` has room for
one short retry, so that a second one is seen. Keys stay distinct: only one may be
dropped, and symmetry does not go with liveness. `mute`: one stream may end while
another is muted, an index is given to another stream, and two faults let a kill follow
a failed save. `routers`: three threads exceed the two splice slots and the two ports.
`contain`: two windows are the least for an address to be used again and for one
window's late line to meet another's exemption; four acts are an open, a release, a
close and a second open, and two faults reach a failure within a rollback. `entries`:
three transactions are a setup, a remove and the remove run again; two installations,
one over the other's shadow, of which either may be another program's; one edit is a
change of the list, of `open_links_in_space`, of the default browser, or a launcher
removed. `setup`: a remove, its repetition and a setup between, and a version that comes
in the middle; one edit, start of the listener or `site-block` falls between any two of
their steps, those of a remove's look at the Hyprland file and what it does to it
included; that a second edited file takes the backup's place needs two edits and is left
to the theorem. One fault in `hold` is a shell that stops (and may start again), or a
call, write or process that fails: two at once are left to the theorems of `HoldProofs`.
Deadlock is not checked where bounds use themselves up (`contain`, `entries`, `setup`).

`BaselineIsPublished` is checked in `live`: without faults no batch leaves a
baseline it should not. The `invalidate()` in `take_result` turned out to be a second
line of defence: the property holds without it, because the worker drops its
baseline on each failure itself.

Fairness of the site block (`FairSpec` of `Reconcile`): the worker (every command it
runs has a deadline), the loop's handlers for the socket, the wake pipe and the clock
(`select` reports what is ready, each iteration serves all of it, and its wait is
bounded by the tick), and `Bind`. Nothing is assumed of commands, faults, drops of
clients or stops.

Fairness of the lock (`FairSpec` of `Lock`): a command, once past its first look, and
the listener inside a handler run on (every command of theirs has a deadline), and
the tick is taken again and again (strong fairness: the loop tests the clock at the
end of each turn, however many events it served in it). Nothing is assumed of the
person, of deadlines, of notifications or of Hyprland's answers.

Fairness of the others. `Hold`: the push's calls (each has a timeout), the loop's own
steps, the clock, the service manager that restarts a listener, and a shell that comes
back once it stopped; without that last one no hold can be reached at all. That each
period forces a push (`_Ctx.tick`, ds/listener.py:510-512) is the premise of
`OffGivesBack` itself: a record left behind by a failed write is only taken up by the
next forced push. `Mute`: the
steps of a job, the pump, the retry of a release once a tick, a restart, and a sync
each period with the hold in force. `Feedback`: the steps of a thread, each of which
has a socket timeout; not the end of a splice, which may carry data for ever.
`Contain`, `Entries` and `Setup` have safety properties only.

### What the properties exempt

Histories mark what the code cannot know later, and a property says what it promises
about the rest; the mark is set at the one step where the knowledge is lost. `unsure`
(`Silence`): the answer of a call was lost, a kill or a failed write took the record, or
a key has two owners. `unsure` (`Mute`): a mute before a kill outside the slice, a
failed save or a record it left out of the file, a mute of the person on a stream that a
record or a call is about, a hook whose key could not be deleted. `freed` (`Mute`): the
person unmuted an audible stream under the present hold; `scan` says it leaves such a
stream alone, so `OnSilences` does not ask for it. `restored` (`HeldFile`): a trim put a
record back that a claim had taken. `edit = "overtaken"` (`HyprFile`): the file was
edited after the read that decided to write over it or to unlink it. `astray` (`Rules`):
a failure within the rollback, a kill within a batch. `missed` and `failures`
(`Contain`): lines nobody was connected for, calls that failed. `leaked` (`Feedback`):
the ports of `SocketFails`. `raced`, `cut` (`Entries`): a path that an installer wrote
while a transaction held the lock; a kill, until a later transaction has mended it.
`discarded` (`Entries`): by path, the installations that a sync found at a path it
dropped and deleted; another program's entry among them is exempt, a web app never is.
`deleted` (`Entries`): what a remove deleted at a recorded path. `marks` (`Setup`): see
above.

### Disagreements found

* `foreign_deleted`: ds/setup.py:1896-1897 and docs/internals.md:51 say that "nothing
  the plugin did not write is ever edited or deleted". `_sync_files` stages whatever
  file is at an owned path that the plan no longer carries (ds/setup.py:1934-1935) and
  discards the staged copy (1963-1964). `_forward_entry` keeps such a path planned only
  for a web app. In TLC's trace setup forwards a web app, the person puts an entry of
  another program at its path, and the next refresh, without a failure, a kill or a
  race, brings the web app's old entry home and deletes the person's.
* The same property, with `MaxInstalls = 1` in the cfg, where that cannot happen: a
  remove that is run twice. docs/internals.md:57 says that removal "moves each backup
  home". `_remove_entries` (ds/setup.py:2134) unlinks each path on record without
  asking whose file is there, and drops the record last. When a later step of it fails,
  the web app's own entry is home and still recorded; the rerun that the message asks
  for unlinks it, and no backup is left.
* `summary_twice`: ds/summary.py:167-169 says that a boundary "gets every record
  exactly once". The listener's `_trim` (ds/hold.py:257) reads the file, and replaces
  the path with a shorter copy; an `unlock` that claims and reads the file in between
  is given records which the copy brings back, and the next boundary is given them
  again. That nothing else repeats a record is `OnlyTrimsRepeat`, checked and proved.

The models have these as well; no run is kept for them:

* docs/reference.md:46 says that `site-block off` "empties the table itself
  rather than waiting for the listener" and "blocks no site afterwards". The worker may
  have passed its last test of `current()` before the reload made it obsolete; its
  `replace` then lands after the flush, and sites are blocked until the follow-up
  batch flushes, although the command printed "site blocking: off" and returned 0.
* ds/setup.py:2723 says that a running listener converges on the flush from
  the reload the recorded answer asked for. In the window between `boot` reading the
  file and `_bind_reload`, that reload is refused, nothing re-reads the file later, and
  the listener goes on enforcing the old configuration.
* docs/internals.md:165 has the tick turn every past deadline into
  a write, a notice and the unlock hook. `lock` treats an overdue lock as none and
  overwrites it: the old lock gets none of them.
* The docstring of `Mute.scan` (ds/hold.py:670-674) says of a stream the person
  unmuted that it "is then left alone". The scan that notices drops its record, so the
  scan after the next event finds an audible stream without one and mutes it again.
  The model does what the code does; `OnSilences` asks for neither, and exempts `freed`.
* ds/feedback.py:469 calls `socket()` after the lease and before the `try` that gives
  the port back: at the limit of open files the port is passed over for good.

The code leaves two more interleavings open that no property forbids. `enter` tests
without the flock and switches afterwards, so a lock written in between is in force on
the space. And an `unlock` that claims, reads and unlinks the file between an append's
open and its write makes that record go to a file that is gone; the append then
returns False, so the loss is logged, and `NewestAreKept` speaks only of appends that
returned True.

## 4. What is proved

For every set of clients, configurations and policies, every cap and every bound on
faults and listeners, from `FirewallAssumption` and `ReconcileAssumption` (constants
have the shapes the code gives them) only:

1. `TypeCorrect`: `Spec => []TypeOK`, one step per action, one sub-step per part of
   the state.
2. `Safety`: `Spec => []Inv`. `Inv` is the conjunction of the safety properties and
   of what makes them inductive: `CommandInv` and `HandoverInv` (who may be connected,
   when an item may be taken), `DesiredInv` (a worker only wants what its own
   configuration wants), `BaselineInv` (while a generation is current, its position
   fixes the baseline and the result) and `KernelInv` (while nothing else touched the
   kernel, a result is true of it). `BaselineIsPublished` and `PublishedIsEnforced`
   speak of the time between batches and are not inductive alone: the step that takes
   a result needs to know what the worker left, which is what those parts say.
   `ReconcileProofs` has one lemma per part, with one step per action that changes a
   variable of the part.
3. `Served`, `Newest`, `NoStaleBaseline`, `Enforcement`: the safety properties.
   `Announced` is inductive with the types alone: the steps that could break it are
   the write of a file and the end of a client, and each of them leaves a witness.
4. `OkIsTrue`: the action property `OkMeansApplied`, from `TakenResult`, which says
   what a current batch has achieved when it is taken.
5. `Refinement`: `Spec => ImplementsSiteBlock`. Every step is a step of `SiteBlock` or
   changes nothing of it; only `TakeCurrent` publishes, and only `Reload`, `Refresh`,
   `RefuseReload`, `Drop`, `Stop` and `Boot` are seen besides.

For every set of commands, every cap on the held file and every bound on records and
kills, from `HeldFileAssumption` and `LockAssumption` (process names are not the
words used for places) only:

6. `LockSafe`: `Spec => []Safe`. `Safe` has four parts. `LockInv`: who is inside the
   critical section holds the flock (`SectionInv`), what was decided there still holds
   (`ChecksHoldUntilWrites`), and a lock is written once, ended once and hooked once,
   in this order, with one process owing the hook (`EndInv`), which is what `EndsOnce`
   needs. `FileInv`: where an open file is, when a claim exists, and that no record is
   anywhere before it arrived. `KeptInv`: `NewestAreKept` with what an append knows
   between its steps (`TrimInv`): when its record was lost it will find no file, so it
   will not report it kept; and when it is about to replace the file, the copy is
   `Newest` of what is there, or nothing is there any more. `LeftInv` says the same of
   a record written into a claim that was already read.
7. `LockTypeCorrect`, `Sections`, `EndedOnce`, `Kept`, and the action property
   `CutShort`. `LockRefinement`: `Spec => ImplementsOneLock`. Only `LockWrite` gives,
   `UnlockWrite` and `ExpireWrite` end, `UnlockHook` and `BoundaryHook` tell; a refused
   or killed lock command gives up; `LockInv` says that these find the phase they need.
8. `Once`: `Spec => []OnlyTrimsRepeat`, for every cap and with no assumption that the
   records fit under it, by `OnceInv`: a record that is at two of `held.jsonl`, an
   unread claim and the records handed is one that a trim put back. The plain
   `SummarisedOnce` is false (`summary_twice`).

Every step either leaves the lock alone (`LockQuiet`, lemma `LockSteps`) or is one of
some actions, and likewise for the file (`HeldQuiet`, `HeldSteps`), so a part's lemma
has steps only for the actions that can disturb it.

For every set of keys and lists, every retry interval, window and period (with
`RetryEvery <= Period`), from `SilenceAssumption` and `HoldAssumption`:

9. `HoldSafe`: `Spec => []Safe`. Its parts: `PushInv` (what a push in progress has
   read, done and left, with the record it will write), `HandInv` (a key the person
   put there is in no set of keys to take back), `CallInv` (which of `sync_hold`'s
   passes is in progress), `MuteInv` and `EpisodeInv` (a window that is open has room
   for the retries counted so far). `HandsKept`, `Remembered`, `Episodes`, `MuteTold`
   follow, and the action property `Spent`.

For every finite set of threads, every set of ports and both caps, from
`FeedbackAssumption`:

10. `FeedbackSafe`: the counts are cardinalities of sets of threads, so each step is
    shown to move one thread (`Moves`) and the count with it (`Enters`, `Leaves`).
    `Slots`, `Leases`, `Banners`.

For every set of rule names, classes, addresses and every bound, from
`RulesAssumption`, `ContainAssumption` and `NoWindowAssumption`:

11. `RulesStayRegistered`, by `BatchInv`: at each step of a batch, which names are
    named by the files, which this batch may have set, and which are left over.
12. `ReleasedStaysAlone`: `Spec => ReleasedIsLeftAlone`, by `ExemptInv`: a released
    window has a running record, no line that waits closes it, and the lines that do
    close an older window at its address are among those the request waits behind. The
    property is about `Move`, whose guard looks at the record of an address; what
    could go wrong is a record pruned by a line that was late.
13. `RecordsStayPrunable`: inductive with the types.
14. `NothingLeftOut`: `Spec => []SettledIsContained`, by `ContainInv`. For the rules,
    `GivenInv`: a batch that goes well has given each wanted name its class, unless
    Hyprland dropped the rules and the line that tells of it waits or was lost. For the
    windows, `DueInv`: a window that is to be on the space and is not (`Wants`) is due
    (`Due`): a scan is coming, a line about it waits, or the loop has it to look up or
    to place, and sees it as it is. `ReopenAt` is what a late closewindow needs, which
    lifts the exemption of the window that has the address by now: that window's own
    line is behind it.
15. `FewOffers`: `Spec => []OffersAreFew`, by `IdInv` (what the loop has found is one
    of the windows, each once) and `OfferInv`. The bound on the offers a window had is
    not inductive: it is kept together with the offer that the next event may make
    (`Again`) and with the lines that still close the address (`Late`), each of which
    makes room for one more. The lines are counted, so this proof uses the theorems on
    cardinalities.

For every set of indices and identities and every number of faults, from
`MuteAssumption`:

16. `MuteSafe`: `Spec => []Inv`. `JobInv` and `StreamInv` say what a job has read and
    what records may name; `TodoInv` what a list that was read still says of the
    streams there are now (an index may have been given to another stream since, which
    is where the code leaves `unsure` behind); `HandInv` that nothing names what the
    person muted outside the slice; `KnownInv` where the record of a mute of the plugin
    is at each moment (the list, the memory, the file); `SweepInv` the same for the
    slice. `HandsStay` and `Known` follow.

For every set of paths, every number of installations of either kind, edits,
transactions, faults and kills, from `EntriesAssumption`:

17. `EntriesSafe`: `EntriesSpec => []EntriesIInv`. `TxInv` and `JournalInv` say where
    a transaction is and in which order the journal may have moves of one path;
    `ShapeInv` that the journal tells where what was at a path, and in its backup, is
    by now, so that undoing it backwards ends where the transaction began; `SettledInv`
    that what a record says is true, of the manifest between transactions and, within
    one, of the old record for what was there before and of the new one for what is
    there now; `HandlerInv` and `DefaultInv` that the handler is never shelved, and is
    there as long as the plugin is the default browser. Paths that an installer wrote
    during a transaction (`raced`), and everything from a kill to the next transaction
    that mends it (`cut`), are outside of the last three. That a dropped path may have
    anybody's entry is part of `ShapeInv`, with the staged entry among what was
    `discarded`. `OnlyDroppedDeleted`, `ManifestTrue`, `DefaultServed` follow, and the action property
    `NoTrace` from `ShapeInv` and the empty journal.

For every number of versions, runs, faults, kills and acts, from `HyprAssumption` and
`SetupAssumption`:

18. `SetupSafe`: `PathInv` (what a run has behind it at each step), `OnceInv`
    (core.json has the version of whoever set it up), `StandInv` (what an unfinished or
    finished removal has on record), `TableInv`, `RootInv` and `GoneInv` (what a
    remove has taken down by then), `FileInv` (between a remove's look at the Hyprland
    file and what it does to it, what an edit in between leaves) and `OkInv`. `OncePerVersion`,
    `NothingIsLeft`, `BlockCanBeEnded`, `EditsAreKept`, and the action properties
    `RemovalIsKept` and `WorkingIsTrue`.

Only model-checked: liveness (`WaitersAreAnswered`, `Converges`,
`AnnouncedConfigTakesEffect`, `OverdueEnds`, `EndsAreHooked`, `OffGivesBack`,
`OnIsReached`, `OffReleases`, `OnSilences`, `RequestsEnd`), which the prover does not
reach. Every safety property of a passing run, and every action property, is the
statement of a theorem. The inductive invariants were checked by TLC, on the instances
of the runs, before they were proved.

## 5. Not modelled

* Config: the flock of `update` with its deadline, the ask-once keys and the merge of
  defaults, sequential code over one file. Its write and the reload it asks for are in
  `Reconcile`.
* `site-block on`'s wait for a fresh `state.json`, `ping`, and the text of the sudo
  transaction: `Setup` has what they change.
* Containment's `migrate`, `cycle` and `next`/`prev`, which a person asks for once; the
  bounded size of the offers' memory (`ADOPTED_CAP`); the cached list of clients;
  patterns and process ancestry, which decide only the kind of a window.
* The mute without pactl or without the hook; the reading of /proc.
* Opening and handing links, the profile's import, menus, status, the bar, the command
  line and the catalog: I/O, presentation and static data.

What a further round would take up: the hold's `effective_hold` composed with the lock
and the space; the hand-off file; `Config.update`.

Left out for good: text of notifications and menus, HTML of the block page, parsing of
command lines, QML, the profile import's file copying, the rules' packet matching.
