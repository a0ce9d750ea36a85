----------------------------- MODULE Supervisor -----------------------------
(***************************************************************************)
(* Supervisor (supervisor.rs) as the main event loop drives it: reaping    *)
(* and handle_exit with the restart budget, expired_watchdogs,             *)
(* reload_services with stop_one, and shutdown_all.  The main thread is    *)
(* the only one that touches the service table; it interleaves with the    *)
(* processes it supervises, which exit, fork and ping when they like, and  *)
(* with the clock.                                                         *)
(*                                                                         *)
(* The kernel (processes, zombies, SIGKILL, cgroup membership) is          *)
(* external: it is modelled by what the code relies on.  A process that    *)
(* has been sent SIGKILL runs no more code but takes a while to die; a     *)
(* SIGTERM may be ignored, so it has no effect of its own.  A pid is free  *)
(* again as soon as its zombie is reaped.  The bounded waits (stop_one's   *)
(* 3 s, the shutdown grace) may run out at any moment, since nothing       *)
(* relates the speed of a process to them.  Option<T> is a set with at     *)
(* most one element.                                                       *)
(***************************************************************************)
EXTENDS Naturals, Sequences, FiniteSets, Functions

CONSTANTS Names,        \* service names
          Shell,        \* the name of the rescue shell
          Defs,         \* the service definitions that configurations use
          Pids,
          BootDefs,     \* the configuration spawn_all was given
          Reloads,      \* the configurations reload_services may be given
          MaxRestarts,  \* MAX_RESTARTS_IN_WINDOW
          Window,       \* BACKOFF_WINDOW, in ticks
          MaxTime, MaxForks, MaxReloads  \* bounds of the model

RestartPolicy == {"never", "always", "on_failure"}

\* rev stands for every field defs_equal compares that has no effect here
\* (path, args, limits, ordering keys, user, sandboxing, ...).
ServiceDef == [name : Names, critical : BOOLEAN, restart : RestartPolicy,
               watchdog : SUBSET Nat, rev : Nat]

fallback_shell == [name |-> Shell, critical |-> TRUE, restart |-> "never",
                   watchdog |-> {}, rev |-> 0]

ASSUME SupervisorAssumption ==
    /\ Shell \in Names /\ IsFiniteSet(Pids)
    /\ fallback_shell \in Defs /\ Defs \subseteq ServiceDef
    /\ BootDefs \subseteq Defs /\ Reloads \subseteq Seq(Defs)
    /\ MaxRestarts \in Nat /\ Window \in Nat
    /\ MaxTime \in Nat /\ MaxForks \in Nat /\ MaxReloads \in Nat

Nowhere == "nowhere"    \* mitos-services' own cgroup

\* One automatic restart: when it happened, and its number, which keeps two
\* restarts at one instant apart.
Stamp == [at : Nat, n : Nat]

Supervised == [def : Defs, restart_times : SUBSET Stamp, started_at : Nat,
               log : SUBSET Stamp,  \* history: every automatic restart so far
               restarts : Nat]      \* history: their number

VARIABLES services,  \* HashMap<pid, Supervised>
          pings,     \* ReadyState: name -> Option<Instant> of the last ping
          pc,        \* where the main thread is
          reaped,    \* Option of the pid and exit status waitpid returned
          removing,  \* reload_services: removed_pids still to be stopped
          queue,     \* reload_services: new_defs still to be reconciled
          victim,    \* stop_one: Option of its pid and name
          names,     \* shutdown_all: all_names
          goal,      \* history: the definitions the reload was given
          kept,      \* history: pids whose definition the reload does not change
          alive, zombie, clean, doomed,  \* kernel: our children's states
          main,      \* kernel: children that spawn_with_history started
          group,     \* kernel: the cgroup of each running process
          now, forks, reloads

superVars  == <<services, pings>>
threadVars == <<pc, reaped, removing, queue, victim, names, goal, kept>>
kernelVars == <<alive, zombie, clean, doomed, main, group>>
countVars  == <<now, forks, reloads>>
vars == <<services, pings, pc, reaped, removing, queue, victim, names, goal, kept,
          alive, zombie, clean, doomed, main, group, now, forks, reloads>>

FreePids == Pids \ (alive \cup zombie)
Tracked == DOMAIN services
TrackedNames == {services[p].def.name : p \in Tracked}

Without(p) == Restrict(services, Tracked \ {p})
With(table, p, sup) == [q \in DOMAIN table \cup {p} |-> IF q = p THEN sup ELSE table[q]]

\* cgroup.kill of service n's cgroup: everything running in it.
InGroup(n) == {p \in alive : group[p] = n}

-----------------------------------------------------------------------------
(* spawn_with_history(def, restart_times) on the table given.  forget and  *)
(* listen_for come first, whatever happens next.  A process may fork       *)
(* before attach has moved it to its cgroup: early is the child it leaves  *)
(* behind in mitos-services' own cgroup.                                   *)

Started(table, p, early, sup) ==
    /\ p \in FreePids
    /\ early \subseteq FreePids \ {p} /\ Cardinality(early) <= 1
    /\ forks + Cardinality(early) <= MaxForks
    /\ services' = With(table, p, sup)
    /\ alive' = alive \cup {p} \cup early
    /\ main' = main \cup {p}
    /\ group' = [group EXCEPT ![p] = sup.def.name]
    /\ forks' = forks + Cardinality(early)

Fresh(def, times, log, restarts) ==
    [def |-> def, restart_times |-> times, started_at |-> now,
     log |-> log, restarts |-> restarts]

SpawnOk(table, sup) ==
    \E p \in Pids : \E early \in SUBSET Pids : Started(table, p, early, sup)

SpawnFails(table) ==
    /\ services' = table
    /\ UNCHANGED <<alive, main, group, forks>>

FallBackToShell(table, def) ==
    /\ def.critical
    /\ \E p \in Pids : Started(table, p, {}, Fresh(fallback_shell, {}, {}, 0))

SpawnWithHistory(table, sup) ==
    /\ pings' = [pings EXCEPT ![sup.def.name] = {}]
    /\ \/ SpawnOk(table, sup)
       \/ SpawnFails(table)
       \/ FallBackToShell(table, sup.def)

-----------------------------------------------------------------------------
(* One turn of the event loop: waitpid, then expired_watchdogs, then       *)
(* handle_exit.                                                            *)

ReapInto(p) ==
    /\ zombie' = zombie \ {p}
    /\ clean' = clean \ {p}
    /\ main' = main \ {p}

WaitReaps ==
    /\ pc = "loop"
    /\ \E p \in zombie : ReapInto(p) /\ reaped' = {[pid |-> p, ok |-> p \in clean]}
    /\ pc' = "expire"
    /\ UNCHANGED <<superVars, removing, queue, victim, names, goal, kept, alive,
                   doomed, group, countVars>>

\* WNOHANG found nothing.  Without a watchdog the wait would block instead.
WaitFindsNothing ==
    /\ pc = "loop"
    /\ zombie = {}
    /\ \E p \in Tracked : services[p].def.watchdog # {}
    /\ reaped' = {}
    /\ pc' = "expire"
    /\ UNCHANGED <<superVars, removing, queue, victim, names, goal, kept,
                   kernelVars, countVars>>

LastSeen(p) ==
    LET ping == pings[services[p].def.name]
    IN  IF ping = {} THEN services[p].started_at ELSE CHOOSE t \in ping : TRUE

ExpiredWatchdogs ==
    {p \in Tracked : \E timeout \in services[p].def.watchdog : now - LastSeen(p) > timeout}

\* Mutant of KillExpired: deadlines are looked at only after an exit.
KillExpiredAfterExit ==
    /\ pc = "expire"
    /\ doomed' = IF reaped = {} THEN doomed ELSE doomed \cup (ExpiredWatchdogs \cap alive)
    /\ pc' = "exit"
    /\ UNCHANGED <<superVars, reaped, removing, queue, victim, names, goal, kept,
                   alive, zombie, clean, main, group, countVars>>

\* kill(pid, SIGKILL) reaches whatever process has that pid now.
KillExpired ==
    /\ pc = "expire"
    /\ doomed' = doomed \cup (ExpiredWatchdogs \cap alive)
    /\ pc' = "exit"
    /\ UNCHANGED <<superVars, reaped, removing, queue, victim, names, goal, kept,
                   alive, zombie, clean, main, group, countVars>>

IgnoreExit ==
    /\ pc = "exit"
    /\ \A r \in reaped : r.pid \notin Tracked
    /\ reaped' = {}
    /\ pc' = "loop"
    /\ UNCHANGED <<superVars, removing, queue, victim, names, goal, kept,
                   kernelVars, countVars>>

ShouldRestart(def, ok) ==
    \/ def.restart = "always"
    \/ def.restart = "on_failure" /\ ~ok

\* Mutant of Restamped: the restart itself is not pushed.
Trimmed(sup) == {r \in sup.restart_times : now - r.at < Window}

\* restart_times after retain and push.
Restamped(sup) ==
    {r \in sup.restart_times : now - r.at < Window} \cup {[at |-> now, n |-> sup.restarts]}

\* Mutants of Exited: kill the pid rather than its cgroup; kill the parent cgroup.
ExitedKillsPid(r) ==
    /\ pc = "exit" /\ r \in reaped /\ r.pid \in Tracked
    /\ doomed' = doomed \cup {r.pid}
    /\ reaped' = {}
    /\ UNCHANGED <<removing, queue, victim, names, goal, kept, zombie, clean, now, reloads>>
ExitedKillsAll(r) ==
    /\ pc = "exit" /\ r \in reaped /\ r.pid \in Tracked
    /\ doomed' = doomed \cup {p \in alive : group[p] # Nowhere}
    /\ reaped' = {}
    /\ UNCHANGED <<removing, queue, victim, names, goal, kept, zombie, clean, now, reloads>>

\* handle_exit for a tracked pid: the common prefix of its outcomes.
Exited(r) ==
    /\ pc = "exit"
    /\ r \in reaped
    /\ r.pid \in Tracked
    /\ doomed' = doomed \cup InGroup(services[r.pid].def.name)
    /\ reaped' = {}
    /\ UNCHANGED <<removing, queue, victim, names, goal, kept, zombie, clean, now, reloads>>

Forgotten(n) == pings' = [pings EXCEPT ![n] = {}]

Halt ==
    \E r \in reaped :
        /\ Exited(r)
        /\ services[r.pid].def.critical
        /\ services' = Without(r.pid)
        /\ Forgotten(services[r.pid].def.name)
        /\ pc' = "halt"
        /\ UNCHANGED <<alive, main, group, forks>>

StayDown ==
    \E r \in reaped :
        /\ Exited(r)
        /\ ~services[r.pid].def.critical
        /\ ~ShouldRestart(services[r.pid].def, r.ok)
        /\ services' = Without(r.pid)
        /\ Forgotten(services[r.pid].def.name)
        /\ pc' = "loop"
        /\ UNCHANGED <<alive, main, group, forks>>

GiveUp ==
    \E r \in reaped :
        /\ Exited(r)
        /\ ~services[r.pid].def.critical
        /\ ShouldRestart(services[r.pid].def, r.ok)
        /\ Cardinality(Restamped(services[r.pid])) > MaxRestarts
        /\ services' = Without(r.pid)
        /\ Forgotten(services[r.pid].def.name)
        /\ pc' = "loop"
        /\ UNCHANGED <<alive, main, group, forks>>

RestartedOf(sup) ==
    Fresh(sup.def, Restamped(sup), sup.log \cup {[at |-> now, n |-> sup.restarts]},
          sup.restarts + 1)

Restart ==
    \E r \in reaped :
        /\ Exited(r)
        /\ ~services[r.pid].def.critical
        /\ ShouldRestart(services[r.pid].def, r.ok)
        /\ Cardinality(Restamped(services[r.pid])) <= MaxRestarts
        /\ SpawnWithHistory(Without(r.pid), RestartedOf(services[r.pid]))
        /\ pc' = "loop"

-----------------------------------------------------------------------------
(* reload_services(new_defs): called for a reload, an isolate or a         *)
(* rollback, the last also after a critical exit.                          *)

BeginReload ==
    /\ pc \in {"loop", "halt"}
    /\ reloads < MaxReloads
    /\ reloads' = reloads + 1
    /\ \E new \in Reloads :
        /\ queue' = new
        /\ removing' = {p \in Tracked :
                          \A i \in DOMAIN new : new[i].name # services[p].def.name}
        /\ goal' = {new[i] : i \in DOMAIN new}
        /\ kept' = {p \in Tracked : services[p].def \in goal'}
    /\ pc' = "remove"
    /\ UNCHANGED <<superVars, reaped, victim, names, kernelVars, now, forks>>

RemoveOne ==
    /\ pc = "remove"
    /\ \E p \in removing \cap Tracked :
        /\ removing' = removing \ {p}
        /\ victim' = {[pid |-> p, name |-> services[p].def.name]}
        /\ services' = Without(p)
    /\ pc' = "stop_removed"
    /\ UNCHANGED <<pings, reaped, queue, names, goal, kept, kernelVars, countVars>>

AllRemoved ==
    /\ pc = "remove"
    /\ removing \cap Tracked = {}
    /\ removing' = {}
    /\ pc' = "reconcile"
    /\ UNCHANGED <<superVars, reaped, queue, victim, names, goal, kept,
                   kernelVars, countVars>>

\* Mutant of StopOne: the cgroup is not swept.
StopOnlyPid(v) ==
    /\ \/ v.pid \in zombie /\ ReapInto(v.pid)
       \/ UNCHANGED <<zombie, clean, main>>
    /\ doomed' = doomed \cup ({v.pid} \cap alive)
    /\ victim' = {}
    /\ UNCHANGED <<services, reaped, removing, queue, names, goal, kept, alive, group, countVars>>

\* stop_one returns: the victim was reaped in time, or it is sent SIGKILL and
\* left for the event loop to reap; its cgroup is swept either way.
StopOne(v) ==
    /\ \/ v.pid \in zombie /\ ReapInto(v.pid)
       \/ UNCHANGED <<zombie, clean, main>>
    /\ doomed' = doomed \cup InGroup(v.name) \cup ({v.pid} \cap alive)
    /\ victim' = {}
    /\ UNCHANGED <<services, reaped, removing, queue, names, goal, kept, alive, group, countVars>>

StopRemoved ==
    /\ pc = "stop_removed"
    /\ \E v \in victim : StopOne(v) /\ Forgotten(v.name)
    /\ pc' = "remove"

Same(p) == services[p].def.name = Head(queue).name

\* Mutants: LeaveUnchanged by name alone; ReplaceChanged without stop_one.
LeaveSameName ==
    /\ pc = "reconcile" /\ queue # <<>>
    /\ \E p \in Tracked : Same(p)
    /\ queue' = Tail(queue)
    /\ UNCHANGED <<superVars, pc, reaped, removing, victim, names, goal, kept,
                   kernelVars, countVars>>
ReplaceWithoutStop ==
    /\ pc = "reconcile" /\ queue # <<>>
    /\ \E p \in Tracked :
        /\ Same(p) /\ services[p].def # Head(queue)
        /\ services' = Without(p)
    /\ pc' = "start"
    /\ UNCHANGED <<pings, reaped, removing, queue, victim, names, goal, kept, kernelVars,
                   countVars>>

\* Instances of one name are found in arbitrary (hash) order.
LeaveUnchanged ==
    /\ pc = "reconcile" /\ queue # <<>>
    /\ \E p \in Tracked : Same(p) /\ services[p].def = Head(queue)
    /\ queue' = Tail(queue)
    /\ UNCHANGED <<superVars, pc, reaped, removing, victim, names, goal, kept,
                   kernelVars, countVars>>

ReplaceChanged ==
    /\ pc = "reconcile" /\ queue # <<>>
    /\ \E p \in Tracked :
        /\ Same(p) /\ services[p].def # Head(queue)
        /\ victim' = {[pid |-> p, name |-> services[p].def.name]}
        /\ services' = Without(p)
    /\ pc' = "stop_changed"
    /\ UNCHANGED <<pings, reaped, removing, queue, names, goal, kept, kernelVars, countVars>>

StopChanged ==
    /\ pc = "stop_changed"
    /\ \E v \in victim : StopOne(v)
    /\ pc' = "start"
    /\ UNCHANGED pings

StartNew ==
    /\ pc = "reconcile" /\ queue # <<>>
    /\ \A p \in Tracked : ~Same(p)
    /\ pc' = "start"
    /\ UNCHANGED <<superVars, reaped, removing, queue, victim, names, goal, kept,
                   kernelVars, countVars>>

StartOne ==
    /\ pc = "start" /\ queue # <<>>
    /\ SpawnWithHistory(services, Fresh(Head(queue), {}, {}, 0))
    /\ queue' = Tail(queue)
    /\ pc' = "reconcile"
    /\ UNCHANGED <<reaped, removing, victim, names, goal, kept, zombie, clean, doomed, now, reloads>>

EndReload ==
    /\ pc = "reconcile" /\ queue = <<>>
    /\ pc' = "loop"
    /\ kept' = {} /\ goal' = {}
    /\ UNCHANGED <<superVars, reaped, removing, queue, victim, names,
                   kernelVars, countVars>>

-----------------------------------------------------------------------------
(* shutdown_all, then acknowledge_shutdown, after which the main thread    *)
(* returns.                                                                *)

BeginShutdown ==
    /\ pc \in {"loop", "halt"}
    /\ names' = TrackedNames
    /\ pc' = "grace"
    /\ UNCHANGED <<superVars, reaped, removing, queue, victim, goal, kept, kernelVars, countVars>>

\* Mutant of GraceReap: the table is left alone.
GraceReapKeeps ==
    /\ pc = "grace"
    /\ Tracked # {}
    /\ \E p \in zombie : ReapInto(p)
    /\ UNCHANGED <<services, pings, pc, reaped, removing, queue, victim, names, goal, kept,
                   alive, doomed, group, countVars>>

GraceReap ==
    /\ pc = "grace"
    /\ Tracked # {}
    /\ \E p \in zombie : ReapInto(p) /\ services' = Without(p)
    /\ UNCHANGED <<pings, pc, reaped, removing, queue, victim, names, goal, kept, alive,
                   doomed, group, countVars>>

GraceOver ==
    /\ pc = "grace"
    /\ doomed' = doomed \cup (Tracked \cap alive) \cup {p \in alive : group[p] \in names}
    /\ pings' = [n \in Names |-> IF n \in names THEN {} ELSE pings[n]]
    /\ pc' = "acked"
    /\ UNCHANGED <<services, reaped, removing, queue, victim, names, goal, kept, alive,
                   zombie, clean, main, group, countVars>>

-----------------------------------------------------------------------------
(* The processes and the clock.                                            *)

Die(p) ==
    /\ p \in alive
    /\ alive' = alive \ {p}
    /\ doomed' = doomed \ {p}
    /\ zombie' = zombie \cup {p}
    /\ group' = [group EXCEPT ![p] = Nowhere]
    /\ UNCHANGED <<superVars, threadVars, main, countVars>>

\* A process exits on its own, with status 0 or not, or of SIGTERM.
Exit(p) == pc # "acked" /\ p \notin doomed /\ Die(p) /\ clean' \in {clean, clean \cup {p}}

DieOfKill(p) == p \in doomed /\ Die(p) /\ clean' = clean

\* A process leaves a child behind, which is reparented to mitos-services.
Fork(p) ==
    /\ p \in alive \ doomed
    /\ pc # "acked"
    /\ forks < MaxForks
    /\ forks' = forks + 1
    /\ \E q \in FreePids : /\ alive' = alive \cup {q}
                           /\ group' = [group EXCEPT ![q] = group[p]]
    /\ UNCHANGED <<superVars, threadVars, zombie, clean, doomed, main, now, reloads>>

\* The listener thread records WATCHDOG=1 of a service that has a watchdog.
Ping(p) ==
    /\ pc # "acked"
    /\ p \in (Tracked \cap alive \cap main) \ doomed
    /\ services[p].def.watchdog # {}
    /\ pings' = [pings EXCEPT ![services[p].def.name] = {now}]
    /\ UNCHANGED <<services, threadVars, kernelVars, countVars>>

Tick ==
    /\ pc # "acked"
    /\ now < MaxTime
    /\ now' = now + 1
    /\ UNCHANGED <<superVars, threadVars, kernelVars, forks, reloads>>

-----------------------------------------------------------------------------
\* The event loop is entered once spawn_all has started some of BootDefs.
Init ==
    /\ now = 0 /\ forks = 0 /\ reloads = 0
    /\ \E S \in SUBSET BootDefs, pid \in [BootDefs -> Pids] :
        /\ \A c, d \in S : pid[c] = pid[d] => c = d
        /\ alive = {pid[d] : d \in S}
        /\ services = [p \in {pid[d] : d \in S} |->
                         Fresh(CHOOSE d \in S : pid[d] = p, {}, {}, 0)]
    /\ pings = [n \in Names |-> {}]
    /\ pc = "loop"
    /\ reaped = {} /\ removing = {} /\ queue = <<>> /\ victim = {}
    /\ names = {} /\ goal = {} /\ kept = {}
    /\ zombie = {} /\ clean = {} /\ doomed = {}
    /\ main = alive
    /\ group = [p \in Pids |-> IF p \in alive THEN services[p].def.name ELSE Nowhere]

\* What the main thread does without being asked.
Proceed ==
    \/ WaitReaps \/ WaitFindsNothing \/ KillExpired
    \/ IgnoreExit \/ Halt \/ StayDown \/ GiveUp \/ Restart
    \/ RemoveOne \/ AllRemoved \/ StopRemoved
    \/ LeaveUnchanged \/ ReplaceChanged \/ StopChanged \/ StartNew \/ StartOne \/ EndReload
    \/ GraceReap \/ GraceOver

\* What signals and the control socket ask for, or a critical exit brings on.
Request == BeginReload \/ BeginShutdown

Processes == \E p \in Pids : Exit(p) \/ DieOfKill(p) \/ Fork(p) \/ Ping(p)

Next == Proceed \/ Request \/ Processes \/ Tick

\* The main thread keeps running, it never stays at a critical exit, and
\* SIGKILL takes effect.  Nothing obliges a process to exit or to ping.
Fairness ==
    /\ WF_vars(Proceed)
    /\ WF_vars(pc = "halt" /\ Request)
    /\ \A p \in Pids : WF_vars(DieOfKill(p))

Spec == Init /\ [][Next]_vars /\ Fairness

-----------------------------------------------------------------------------
(* Properties.                                                             *)

\* Types of the service table, the main thread's state and the kernel's.
TypeOK ==
    /\ Tracked \subseteq Pids /\ \A p \in Tracked : services[p] \in Supervised
    /\ pings \in [Names -> SUBSET Nat]
    /\ pc \in {"loop", "expire", "exit", "halt", "remove", "stop_removed", "reconcile",
               "stop_changed", "start", "grace", "acked"}
    /\ reaped \subseteq [pid : Pids, ok : BOOLEAN]
    /\ removing \subseteq Pids
    /\ queue \in Seq(Defs)
    /\ victim \subseteq [pid : Pids, name : Names]
    /\ names \subseteq Names
    /\ goal \subseteq Defs
    /\ kept \subseteq Pids
    /\ alive \subseteq Pids /\ zombie \subseteq Pids /\ clean \subseteq zombie
    /\ doomed \subseteq alive
    /\ main \subseteq Pids
    /\ group \in [Pids -> Names \cup {Nowhere}]
    /\ now \in Nat /\ forks \in Nat /\ reloads \in Nat

\* The restart budget of handle_exit over a service's whole life, not just
\* over the trimmed vector it looks at: in no interval of BACKOFF_WINDOW,
\* wherever it starts, is a service restarted automatically more than
\* MAX_RESTARTS_IN_WINDOW times.
RestartBudget ==
    \A p \in Tracked : \A t \in 0..MaxTime :
        Cardinality({r \in services[p].log : t <= r.at /\ r.at < t + Window}) <= MaxRestarts

\* Every pid in the service table is an unreaped child that the supervisor
\* itself started, in its own cgroup, never a recycled pid: the one exception
\* is the pid waitpid has just returned and handle_exit is about to remove.
\* What kill() and stop_one send signals to rests on this.
TrackedAreOurs ==
    \A p \in Tracked :
        \/ p \in (alive \cup zombie) \cap main /\ (p \in alive => group[p] = services[p].def.name)
        \/ \E r \in reaped : r.pid = p

\* cgroups.rs: a service that exits or is stopped leaves nothing running in
\* its cgroup.  Whatever runs there and has not been sent SIGKILL belongs to
\* a service still tracked, being stopped, or in shutdown_all's list.
NoStrays ==
    \A p \in alive \ doomed : group[p] # Nowhere =>
        /\ pc # "acked"
        /\ group[p] \in TrackedNames \cup {v.name : v \in victim} \cup names

\* Never two instances of a service at once: restarts and reloads start the
\* next process only when the one before is gone or has been sent SIGKILL.
\* (Two rescue shells share one name.)
OneInstance ==
    \A p, q \in (alive \cap main) \ doomed :
        group[p] = group[q] /\ group[p] # Shell => p = q

\* Until the final kill of shutdown_all, nothing kills a service that is
\* still tracked except its own watchdog: sweeping the cgroup of one service
\* never hits another.  (Two rescue shells share one cgroup.)
NoFriendlyFire ==
    \A p \in Tracked \cap main \cap doomed :
        \/ services[p].def.watchdog # {}
        \/ services[p].def.name = Shell
        \/ pc = "acked"

\* reload_services changes what the configuration changes and no more: a
\* service whose definition the new one repeats keeps its process throughout,
\* whatever fails beside it, and at the end every tracked service runs a
\* definition of the new configuration, or is a rescue shell.  (Reload goes by
\* the first instance it finds of a name: two definitions of a service named
\* like the rescue shell, with a rescue shell running, would break this.)
ReloadExact ==
    /\ \A p \in kept : p \in Tracked /\ services[p].def \in goal
    /\ pc = "reconcile" /\ queue = <<>> =>
        \A p \in Tracked : services[p].def \in goal \cup {fallback_shell}

\* A missed watchdog deadline is acted on: the service is killed, reaped and
\* removed (or pings after all), whatever else the event loop is doing.
WatchdogEnforced ==
    \A p \in Pids : p \in ExpiredWatchdogs ~> (p \notin ExpiredWatchdogs \/ pc = "acked")

=============================================================================
