# mitos-services in TLA+

A verification project for mitos-services, the service manager that mitos-init
starts: TLA+ modules of its components, TLC models that check them on small
instances, and theorems that TLAPS proves for every instance.

## The system

mitos-services is one process. Its **main thread** runs `run_event_loop`
(`main.rs`): it owns the service table, takes requests from atomic flags, waits
for children and dispatches their exits. Beside it run the **control socket's
thread** (`ipc.rs`), one **listener thread per spawned service** (`notify.rs`),
and a memory-pressure monitor (`oom.rs`) that only logs. Outside are the supervised
processes, the kernel, mitos-init (which relays shutdown signals), mitosctl, and
the policy daemon mitos-service.

| Component | State | Operations | Hard behaviour |
|---|---|---|---|
| Boot ordering (`supervisor.rs`: `effective_after`, `topological_order`, `spawn_all`) | order under construction, names spawned | sort, skip, wait for readiness, spawn | cycles, repeated names, failing spawns, services that never get ready |
| Supervision (`supervisor.rs`, `cgroups.rs`) | `services`: pid to definition and restart times | `handle_exit`, `expired_watchdogs`, `reload_services`, `stop_one`, `shutdown_all` | exits and forks at any time, restart budget over time, processes that ignore SIGTERM, pids used again |
| Configuration (`config.rs`, `units.rs`, `timers.rs`) | the files | parse, load, `merge_services` | files that cannot be read, bad lines, a name in two places |
| Transactional reload, targets (`rollback.rs`, `targets.rs`, `main.rs`) | `cfg`, `current_target`, `watch`, timers, host name, log level | reload, isolate, `begin`, `check` | failure inside, at and after the watch window, overlapping reloads |
| Event loop, signals, control socket (`main.rs`, `signals.rs`, `ipc.rs`) | flags, `PENDING_ISOLATE`, `LAST_STATUS` | swaps, waits, the commands of the socket | lost wakeups, races between flag and version, a thread that waits for the other |
| Timers (`timers.rs`) | `STATE`: boot, running, pending, last finished | `tick`, `reap` | reloads during a run, time of first use |
| Apps and the reap chain (`apps.rs`, `main.rs`) | `REGISTRY` | `launch`, `reap`, dispatch of exits | spawn and registration on another thread than reaping, a stuck daemon |
| Notification (`notify.rs`) | `ReadyState`, sockets, threads | `forget`, `listen_for`, `run` | datagrams of an earlier instance |
| Fork to exec (`supervisor.rs`, `timers.rs`, `apps.rs` with `sandbox.rs`, `seccomp.rs`, `users.rs`, `cgroups.rs`, `signals.rs`) | threads' signal masks, the child before exec, cgroup directories | start of a service, a timer's run, an app; stop and shutdown | any call of the child may fail, two ways to drop privileges, inherited masks, directories that survive |
| Journal, logging, memory pressure (`journal.rs`, `logging.rs`, `oom.rs`) | `JOURNAL`, `CURRENT_LEVEL`, `KMSG` | `write_line`, `record`, `recent`, the monitor | several threads between two locks, failing writes |

The components interact through shared state only: the flags of `signals.rs`
(signal handlers and the socket thread store, the main loop swaps), the mutexes
of `ipc.rs`, `apps.rs`, `timers.rs` and `notify.rs`, and the kernel's process
table, which every `waitpid(-1)` drains for all of them.

## The modules

One module per component; an `MC` module gives its constants values; a `Proofs`
module holds the theorems.

**Boot.** Services are positions in the
configuration, so that two definitions of one name stay apart. `Place`,
`FindCycle`, `Drain` and `Sorted` are the turns of `topological_order`; `Skip`,
`Admit`, `SeeReady`, `TimeOut`, `SpawnOk`, `SpawnFails`, `FallBackToShell` and
`Booted` those of `spawn_all`. `MarkReady` is a listener thread.

**Supervisor.** `services` is the table, `pc` the place of the main thread in
waitpid, deadline check, `handle_exit`, `reload_services` and `shutdown_all`. Each
outcome of `handle_exit` is an action (`IgnoreExit`, `Halt`, `StayDown`, `GiveUp`,
`Restart`); `reload_services` goes through its removed pids and its new
definitions one at a time, and `stop_one` is a step of its own, because processes
move meanwhile. The kernel part (`alive`, `zombie`, `doomed`, `main`, `group`) is
external: a killed process runs no more code but dies later; a pid is free once
its zombie is reaped; a process may fork before it is attached to its cgroup.
`log` and `restarts` in the table and `goal`, `kept` are history variables.
cgroup operations are taken to succeed (delegation is available).

**Config.** Operators from what is on disk to definitions: `parse`,
`load_or_default`, `load_units`, `merge_services`, the timers' loader. A line or a
file is a record of what its parser finds in it.

**Reload** extends Config. The service table is seen by name: which definition each
name runs, the rescue shell's among them. `reload_services` is one step, in which
every service it starts may fail. `Reload` (which reads the disk) and `Isolate` are
the branches of the loop, `FailWatched`, `GiveUp`, `HaltUnwatched` and `StayDown`
the outcomes of an exit with the `rollback::check` that follows, `Check` a turn that
finds a child and has nothing else to do. A turn in which there is no child at all (`ECHILD`)
does not come to `rollback::check`, so nothing but a running service (`ServiceRuns`) makes
`Check` sure to happen, and without one the clock may pass the deadline. `sethostname` is taken to succeed; `changed` is history.
**ConfigTransaction** is the abstract specification: one committed configuration, at
most one on trial, which is confirmed, reverted or superseded. `Reload` implements it
with `committed` the watch's `previous` (or `cfg` without a watch) and `trial` the
configuration in force.

**EventLoop.** The flag swaps, the wait and each command in the order of the
code. What a reload does is a new `generation` of the state that a status
describes; the other part of a status, who is ready, is `readiness`, which the listener
threads raise at any time (`mark_ready`), also while a summary is being made. Between `Block` and the next exit only `on_signal` moves the main
thread: a store by the socket thread does not. STATUS is four steps
(`HandleStatus`, `Snapshot`, `Poll`, `Sleep`). LAUNCH takes the socket's thread until
`LaunchEnds`, which may never come, or `LaunchAborts`; Apps has what happens in between.

**Timers.** One step per call, since only the main thread calls. `boot` is empty
until `state()` is first used.

**Apps.** `launch` in steps on the socket's thread (`hash_file`, `Connect`,
`Verdict` or `AskFails`, `Spawn`, `Attach`, `Register`), the reap chain on the
main thread. `Spawn` has three outcomes: no child, a child that runs the program, and a
child that cannot and is already dead; for the last, `WaitChild` is the wait inside
`Command::spawn`, which finds the child, or finds that the main thread has reaped it
and aborts the process (std panics, and the release profile has `panic = "abort"`), or
waits for another process that has the pid by then.
mitos-service is external: absent, answering, stuck with a
backlog of limited length, or sending its response byte by byte without an end.

**Notify.** One service over successive instances. Each has a socket of its own,
which lives on after its path is bound anew; the datagrams carry the sender's
number as history. A listener thread receives a datagram (`recv`) and marks it (`mark`) in
two steps, between which it is in its `hand`. Its specification is called `NotifySpec`, since one module of proofs
extends Timers and Notify.

**Launch.** What becomes of a process around fork and exec. The child is a record
with the sequence of calls it still has to make: `ServiceSteps`, `OneshotSteps` and
`AppSteps` build it from the definition as the code does, `ChildCall` takes one off,
`SpawnFails` ends it at any call whose result the code looks at. `Exec` is followed
by the parent's cgroup operations, each of which may fail. The main thread's startup
decides which threads have the handled signals unblocked (`open`). Whether a program
ends on SIGTERM in time is left open. The filter is
built (`build_program`) and interpreted (`Filter`) instruction by instruction. `Command`
and the kernel are external. It stands beside Supervisor, which has the table and the
pids and takes a spawn as one step that succeeds or fails.

**Journal.** `write_line` in three steps (`WriteLine` stamps, `record` pushes, `WriteKmsg`
or `WriteConsole` writes), taken by any thread at any time, with a level that
changes. Either write may fail; a line that both outputs refused is in `lost`.
`recorded`, `said`, `done` and `lost` are history.

Operators introduced as "Mutant of ..." are altered forms of the definition after
them. They are not used by any specification; putting one in the place of its
original must make the named property fail (`PROJECT.json`, `mutants`), which
shows that the property can see that kind of mistake.

## What the runs show

Passing runs (states are distinct states):

| Run | Instance | Shows |
|---|---|---|
| MCBoot | three services; every pair of dependency keys of five kinds, every triple of `after=`/`requires=`, a repeated name (95 517) | nothing is lost or repeated, order respected, `requires=` exact without cycles, only cycles and what is behind them drained, boot ends |
| MCSupervisorLife | a watched and a critical service, budget 2, window 3, time to 5 (219 753) | the budget holds in every interval, wherever it starts; missed deadlines are acted on |
| MCSupervisorReload | four pids, two reloads out of four configurations (one with a service called `shell`), a fork (481 700) | the table holds only own unreaped children, no strays in cgroups, one instance per name, nobody else's process killed, a reload ends with only services that were asked for and leaves the unchanged ones alone |
| MCReloadSafe | an `init.conf` in four forms or unreadable, two forms of `services.d`, two targets, two reloads, an isolate, window 2 (347 128) | a reload puts in force what the files say; configuration, settings and services in step; the last reload reverts; the watch ends as long as services run; `ConfigTransaction` is implemented |
| MCEventLoop | two clients with any commands, a shutdown signal, a death, a report of readiness, blocking or polling (241 560) | answers are fresh, every client is answered unless a LAUNCH holds the socket; shutdown, reload and isolate requests are honoured if the main thread keeps waking |
| MCTimers | two timers, two reloads (16 150) | no overlap, a boot timer fires once, a finished run frees its timer |
| MCApps | three pids, used again; two launches, a service, a one-shot, a fork, every kind of daemon, a backlog of one (1 549 140) | exits reach their owner, running apps are listed and swept, every launch is answered, each with the exceptions below |
| MCNotify | three instances, four datagrams (42 556) | the record is the current instance's but for what was on its way at `forget`, readiness is not lost |
| MCLaunch | two starts of services, timers' runs or apps; every mixture of sandbox options with five identities, four memory limits; all 27 blocked system calls (173 613) | no program starts with less isolation than asked for and no mount leaks, whichever call fails; privileges suffice at each call; user, group and memory limit are the definition's; signals reach the main thread; the filter is exact |
| MCJournal | three threads, four lines, a journal of two (5 226 237) | LOGS shows the last lines, each thread's in order and without a gap; every line comes out exactly once unless both outputs refuse it |

Runs that fail, each on a sentence of the repository that the code does not keep
(`PROJECT.json`, `findings`, quotes it):

| Run | What happens |
|---|---|
| MCEventLoopUnwoken | RELOAD by socket does not wake the main thread from its `waitpid` |
| MCLaunchUnheard | a service with `user=` owns its notify socket but may not search the 0700 directory it is in |

**Exceptions in the passing properties.** The models also have the behaviours
below. Where one touches a property, the property names it as its exception or
is worded to leave it out.

| Behaviour of the code | Where it shows |
|---|---|
| `requires=` on a cycle: a service may be skipped although its requirement starts later | `RequiresExact` is about boots without a cycle |
| an expired watchdog's pid is killed when it is the one just reaped | `TrackedAreOurs` excepts that pid |
| a child forked before the cgroup attach is outside every sweep | `NoStrays` is about processes in service cgroups |
| `after_ready=` does not order (`supervisor.rs:487`; `config.rs:36` calls it stronger than `after`): a service listed first waits 15 s for something not started and then starts first | `OrderRespected` is about the keys that order |
| a rollback leaves the new timers and published targets (`rollback.rs:98`; `INTEGRATION.md:176`: "the whole reload reverts") | `RunningIsConfigured` leaves the two out |
| a reload that cannot spawn a service is not a failure to its watch | `ReloadServices` and `StayDown` in `Reload` |
| two lines of one name in `init.conf` are both kept (`merge_services` looks at the unit files only; `config.rs:187` speaks of collisions in general) | `ReloadAssumption`; repeated names are in Boot and Supervisor; `BootNamesDistinct` in the theorems |
| a reload that changes a service named like the rescue shell while a rescue shell runs may replace the rescue shell and leave the old service (`supervisor.rs:392`) | `PlainConfigs` in the theorem on `ReloadExact`; the run's configurations have one such definition |
| a second reload replaces the first one's watch and what it would go back to | `LastReloadReverts`; `Supersede` in `ConfigTransaction` |
| a signal between the flag swaps and a blocking `waitpid` is not noticed until something else wakes the thread | `Woken`, the premise of `RequestsHonoured` |
| STATUS raises its flag before it reads the version, and may time out although its dump was published | `EveryClientAnswered` and `FreshStatus` allow the timeout |
| `OnBootSec=` counts from the first use of the timers | `boot` in `Timers`; no property speaks of the start of the program |
| an app reaped before it is registered stays listed, and its entry claims the exit of the process, a service's too, that is given the pid next (`main.rs:220`; `main.rs:207` says an app "is never one of `Supervisor`'s tracked services") | `missed` in `ExitReachesOwner` and `AppsSwept` |
| the watch of a reload is not looked at in a turn in which `waitpid` fails (`main.rs:248-252`); if no child is left, because every spawn of the reload failed, it outlasts its deadline until there is one | `[]<>ServiceRuns`, the premise of `WatchResolves` |
| a service marked ready between the summary (`supervisor.rs:465`) and its publication (`main.rs:172`) is missing from the answer to a STATUS sent after it | `during` in `FreshStatus`, for readiness only |
| `connect` (`apps.rs:133`) has no time limit, and timed-out requests fill a stuck daemon's backlog; the limit on reads is on each of them (`apps.rs:150`), so a response that trickles in is not bounded either (`apps.rs:128-130`: the limit "bounds the worst case") | `LaunchAnswered` excepts a full backlog and `Trickled`; it fails without either |
| a LAUNCH in either state holds all clients behind it | `EveryClientAnswered` |
| a program that cannot be executed: if the main thread reaps its child before `Command::spawn` waits for it, std panics and the process aborts (`Cargo.toml:36`; `APPS.md:55-56` promises `launch failed: <reason>`), or spawn waits for the process that has the pid next | `missed` in `LaunchAnswered`; `LaunchAborts` in `EventLoop` |
| a datagram of the earlier instance that is queued, or received and not yet marked, at `forget` marks the new one | `unread` in `RecordIsCurrent` |
| listener threads of earlier instances never end | `listening` in `Notify` only grows |
| the listener of a service started from the loop has the handled signals unblocked (`signals.rs:99`: delivery "is guaranteed to land" on the main thread) | `MainHears`; Linux tries the main thread first |
| services started at boot and all apps inherit the mask of a thread in which SIGTERM is blocked (`INTEGRATION.md:52`: the default disposition "is still fine"), so that stopping them takes the whole grace and SIGKILL | `open` in `Launch` has the masks; no property speaks of it |
| `user=` without `group=` leaves the group root's (`config.rs:55-56`: "the default group for `user`") | `IdentityAsResolved` is about the group where there is a `group=` or no `user=` |
| with a sandbox, `user=` and no `group=`, root's supplementary groups stay | `IdentityAsResolved` |
| a cgroup directory that could not be removed keeps its limit for a definition without one (`config.rs:27`: none means no limit) | `LimitInForce` |
| `MemoryMax=` beyond 64 bits wraps around | `LimitInForce` |
| read-only paths and capabilities that cannot be had are passed over; timers' runs and rescue shells have no sandbox | `Isolated` |
| the result of the console write is ignored (`logging.rs:77-79`): a line that `/dev/kmsg` refused too is in LOGS only | `lost` in `EveryLineOut` |
| lines of different threads may be recorded out of the order of their stamps | `JournalIsTail` orders each thread's own |

`rollback.rs` itself documents that a rollback undoes an isolate made during the
watch; `Reload` has that behaviour and no property speaks against it.

**Bounds.** Every counter has one: `MaxTime`, `MaxReloads`, `MaxIsolates`,
`MaxForks`, `MaxRuns`, `MaxLaunches`, `MaxServices`, `MaxTimers`, `MaxSignals`,
`MaxDeaths`, `MaxReady`, `MaxChildren`, `MaxInstances`, `MaxSends`, `MaxLogged`. They are chosen so that the cases the
properties are about occur: a budget of 2 over a time of 5 with a window of 3
lets restarts leave the window while others are in it; two reloads are the least
that overlap, two launches the least in which a directory outlives its service, and three instances the least in which a datagram outlives two
restarts; four pids allow a victim that is still dying, its successor, another
service and a forked child; four lines push two out of a journal of two. MCEventLoop's
signal is a shutdown: a reload and a status are asked for through the socket there, which
sets the same flags. The integer
of `parse_size` has 4 bits in MCLaunch, with limits below, at and beyond its end. Windows and budgets are smaller than the code's (10 s and 5);
nothing in the modules depends on the numbers, and the budget theorem is for all
of them. Pids are symmetric in MCSupervisorReload, which checks no liveness. Deadlock is not
checked: the bounds, and the end of boot or of the process, stop every behaviour.

**Fairness.** The threads of the program are scheduled (weak fairness on the main
thread, the socket thread, each listener). SIGKILL takes effect. In `Reload` the
loop polls while it watches, and looks at the watch while a service runs, and time passes. In `EventLoop` a client sends its
line or hangs up (a silent client does hold the socket, as `ipc.rs` says of its
sequential design), and STATUS's 500 ms end (strong fairness on the timeout, since
the deadline passes however often the poll is taken). Nothing obliges a service
to exit, ping, or report ready, nor mitos-service to accept a connection or to end its
response (no fairness on `LaunchOver` in `EventLoop`, nor on a step of `Trickled` in `Apps`). In `Supervisor` the
bounded waits may end at any moment, as nothing relates the speed of a process to
them.

## What is proved

TLAPS proves the theorems below for every value of the constants that satisfies
the assumptions named in the modules: types of the constants, finitely many pids,
threads and clients, and what is said here.

* **BootProofs**: `TypeCorrect`, `NothingLostHolds`, `OrderRespectedHolds`,
  `RequiresExactHolds`, `DrainsOnlyTheCycleHolds`. The assumption is that configurations
  are sequences of definitions. `Partition`
  says that `remaining` holds exactly the positions not yet in `ordered`, which has
  no repetition; `WalkInv` that the fate of everything below `next` is settled;
  `OrderInv` that every name in `placed` is in the undrained part of `ordered`,
  which is what makes `Unblocked` mean that the predecessors are in the order
  already. `ExactInv` says of the walk so far what `RequiresExact` says of its end;
  it is kept because what a service requires comes earlier in the order
  (`OrderRespected`), so that whether it came up is settled for good by then.
  `DrainsOnlyTheCycle` compares what is drained with `Stuck`, the union of all sets of
  services each of which has a predecessor in the set (`Knot`): the services in or behind a cycle.
  Nothing placed is stuck, since the first such one in the order would have a stuck
  predecessor placed before it; and when nothing is ready, what remains is itself a
  knot, which `KnotInv` keeps.
* **SupervisorProofs**: `TypeCorrect`, `RestartBudgetHolds`, `TrackedAreOursHolds`,
  `NoStraysHolds`, `OneInstanceHolds`, `NoFriendlyFireHolds`, `ReloadExactHolds`.
  `RestartBudget` speaks of all restarts of a service, the code of a vector it
  trims, so `BudgetInv` relates them (`Accounted`): no logged restart lies in the
  future, every one younger than a window is still in `restart_times`, and every
  interval so far is within the budget. `OursInv` strengthens `TrackedAreOurs`:
  running and dead pids are disjoint, at most one pid is reaped and only between
  `waitpid` and `handle_exit`, and a victim is untracked and exists only while
  `stop_one` waits. Without it a pid given anew could be one tracked already.
  `GroundInv` adds the kernel's side: a pid that is not running is in no cgroup, every
  child started and not yet doomed is tracked or the victim, shutdown's list covers
  the table. On it rest `StrayInv` (a cgroup with something running in it has a
  service, a victim or shutdown's list behind it) and `UniqueInv` (no two tracked
  services, nor the victim or the service about to start, share a name).
  `ReloadInv` says of each place of `reload_services` which tracked service is still
  to be removed, still in the queue, or already as the new configuration has it.
  Two conditions are hypotheses of theorems and not assumptions of the module, since the
  program can run without them. `BootNamesDistinct`, for `OneInstance` and
  `NoFriendlyFire`: two lines of `init.conf` may carry one name and `spawn_all` then
  starts both; reloads keep a name to one process whatever they are given.
  `PlainConfigs`, for `ReloadExact`, says moreover that no configuration gives one
  name two definitions and that all agree on a service named like the rescue shell.
  The last part was found by the proof, and TLC has a counterexample without it:
  `reload_services` goes by the first instance of the name, which may be a
  rescue shell, and the old service stays.
* **EventLoopProofs**: `TypeCorrect`, `FreshStatusHolds`, `RequestsKeptHolds`. `FreshInv` says that a
  summary about to be published has the current table (no step between
  `TakeStatus` and `publish_status` changes it) and every report marked before a request
  that came earlier, that a waiting client asked no later
  than now, and that a text published since its snapshot is as new as its
  request, but for the readiness of one that came while the summary was being made. `RequestsKept` is what of `RequestsHonoured` is safety: a pending request
  disappears only in the step that turns the main thread to it, an isolate also when
  another replaces it.
* **TimersNotifyProofs**: of Timers, `TypeCorrect`, `NoOverlapHolds`,
  `BootTimerFiresOnceHolds`. A configuration has one timer of a name, and each timer at least one of the two
  settings, as the loader sees to. `OverlapInv` adds to `NoOverlap` that a pid is not
  both alive and a zombie. `FiredInv` says that the one run of a boot timer left a
  trace, in `running` or in `last_finished`, that no reload removes. Of Notify,
  `NotifyTypeCorrect`, `RecordIsCurrentHolds` and `ReadyKeptHolds`. `RecordInv` says that,
  unless something was on its way at the last `forget`, every datagram queued or in a
  listener's hand and the record are the present instance's. `ReadyKept` is what of `ReadyNotLost` is safety: what a
  running instance has said is recorded, in a listener's hand (`Held`) or queued where one reads it; it
  needs `SaidInv`, by which an instance being started has said nothing, and one that was
  given a socket finds its own at the path.
* **ReloadProofs**: `TypeCorrect`, `RunningIsConfiguredHolds`, `LastReloadRevertsHolds`,
  `TransactionImplemented`, `ReloadSeesDiskHolds`. The assumption on configurations is
  that one name has one definition, on the files that a line is a service or a setting
  with at most one value, and that the names in `services.d` are distinct, being those of
  files in one directory. `RunningIsConfigured` is inductive with the types. `TrialInv` relates the
  history of what a reload started to the watch: as long as the window is open, the
  service is in `touched` and `previous` is what the reload replaced, or the rollback is
  already done. The refinement is a step simulation: each action of Reload is a step of
  `ConfigTransaction` or leaves `committed` and `trial` alone. `ReloadSeesDisk` is about
  what the loops of `parse`, `load_units` and `merge_services` compute: `ConfUpto`,
  `UnitsUpto` and `MergedUpto` say what each has after k elements, in terms of the set of
  those elements and, for a key, of the last value given.
* **LaunchProofs**: `IsolatedHolds`, `PrivilegeSufficesHolds`, `IdentityAsResolvedHolds`,
  `MainHearsHolds`, `LimitInForceHolds`, `FilterExactHolds`. `ProcessInv` says of a child
  with calls left to make what it will have by its exec (`Sandboxed`, `Identified`), that
  it is root until nothing needs root (`Able`) and that the mount tree is private before
  a mount (`Discreet`); lemmas about the joined sequences show that `ServiceSteps`,
  `OneshotSteps` and `AppSteps` start it that way for every mixture of options. `HearInv`
  says at each stage of startup which threads have the signals open.
  `LimitInv` says that a service runs at most once, so that nothing else writes to its
  directory. `2^Width` is assumed to be a natural number, which the provers cannot derive
  from `Width` being one. `FilterExact` follows from what the program does from the k-th
  comparison on: it returns `errno` if the call is among the k-th and later ones of the
  list and `allow` otherwise.
* **AppsProofs**: `TypeCorrect`, `ExitReachesOwnerHolds`, `RunningAppsListedHolds`,
  `AppsSweptHolds`. `PidInv` says that a pid is alive, a zombie, with the main thread or
  free, `ListedInv` that a child about to be registered is already in its cgroup;
  `OwnedInv` that, until an exit is missed, each of the three tables names exactly the
  pids in use that its part started, and every process in an app's cgroup has an entry
  or is being killed. The exactness is what is needed: an entry too many would claim
  a pid given out anew. The dead child of a failed spawn is in no table; that `spawn` reaps it
  itself keeps the tables exact, that the main thread reaps it first is a missed exit.
* **JournalProofs**: `TypeCorrect`, `JournalIsTailHolds`, `EveryLineOutHolds`.
  `RecordedInv` says that what is recorded of a thread is its lines from the first on,
  in order, and that the line in its hand is later; `TailInv` gives the journal place by
  place as the end of what was recorded; `OutInv` says that the lines
  done with are those in the outputs, once and in one of the two, and those lost, in neither.

What the recursive definitions compute (`DrainsOnlyTheCycle`, `FilterExact`,
`ReloadSeesDisk`) is proved without an induction theorem, which the provers cannot
instantiate: the lemma `Least` gives the least length, place or index at which a claim
would fail, and the step before it contradicts the choice. That a recursive function
satisfies its equation at all needs a function that does; it is exhibited (`RanSolves`)
or extended from the prefix before (`RunsExist`).

Every invariant and every action property of the passing runs is stated by a theorem.
Only model-checked are the liveness properties (`BootCompletes`, `WatchdogEnforced`,
`WatchResolves`, `EveryClientAnswered`, `RequestsHonoured`, `FinishedRunReleases`,
`LaunchAnswered`, `ReadyNotLost`): fairness is beyond the prover.

## Not modelled

The syntax of the files (records of what the parsers find stand for it, and one
number for the keys taken over as they are); the write of `oom_score_adj`, which
nothing reads back; the single paths and capabilities of the sandbox; the texts of
answers and log lines; the contents of an app's file between its hash and its exec;
mitos-init's side of the shutdown acknowledgement; the length of the shutdown grace,
which may end at any time in the modules; how the inherited signal mask delays the end
of a program, for the same reason. Poisoned mutexes are left out: no thread
panics while it holds one.

## Plan

1. Done: every component modelled and checked; every safety property of the runs proved.
2. Left: the liveness properties, of which the safety part is proved for
   `RequestsHonoured` and `ReadyNotLost`; the same could be done for `EveryClientAnswered`
   (the socket's thread and the main thread never wait for each other).
