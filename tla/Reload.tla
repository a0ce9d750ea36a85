------------------------------- MODULE Reload -------------------------------
(***************************************************************************)
(* Transactional reload and targets: the reload and isolate branches of    *)
(* run_event_loop, rollback.rs and targets.rs, with the outcomes of        *)
(* handle_exit that decide the fate of a reload.                           *)
(*                                                                         *)
(* The service table is seen by name, as the definition each name runs,    *)
(* which for "shell" may be the rescue shell's; reload_services is one     *)
(* step here (module Supervisor has its inside), in which any service it   *)
(* starts may fail to spawn.  An automatic restart changes nothing that    *)
(* this module looks at.  The files are not edited while they are read.    *)
(* Option<T> is a set with at most one element.                            *)
(***************************************************************************)
EXTENDS Config

CONSTANTS Names, Targets,
          Inits, UnitDirs, TimerDirs,  \* what init.conf and services.d may hold
          WatchWindow,  \* WATCH_WINDOW, in ticks
          MaxTime, MaxReloads, MaxIsolates  \* bounds of the model

Configs == {Load(i, u) : i \in Inits, u \in UnitDirs}
Disks == [init : Inits, units : UnitDirs, timers : TimerDirs]
Defs == {fallback_shell} \cup UNION {ToSet(c.services) : c \in Configs}

services_in(all, target) == {d \in ToSet(all) : d.target = target}
list(all) == {d.target : d \in ToSet(all)}

\* init.conf may hold two lines for one service, of which each reload would
\* start the one that does not run; and beside a configured shell a critical
\* service may fail and leave a second one.  Both are left to module Supervisor.
\* A line is a service or a setting with at most one value; the names of unit
\* files are those of files in one directory.
ASSUME ReloadAssumption ==
    /\ \A init \in Inits :
        /\ \A a, b \in init : a = b
        /\ \A lines \in init :
            /\ lines \in Seq(ToSet(lines))
            /\ \A l \in ToSet(lines) :
                IF l.key = "service" THEN \E f \in l.fields : l.fields = {f}
                ELSE l.fields = {} /\ \A u, v \in l.value : u = v
    /\ \A files \in UnitDirs :
        /\ files \in Seq(ToSet(files))
        /\ \A j, k \in DOMAIN files : files[j].name = files[k].name => j = k
    /\ \A d \in Defs : d.name \in Names
    /\ \A c \in Configs : c.default_target \in Targets /\ list(c.services) \subseteq Targets
    /\ \A c \in Configs : \A d, e \in ToSet(c.services) :
        /\ d.name = e.name => d = e
        /\ d.name = Shell /\ e.critical => e = d
    /\ WatchWindow \in Nat /\ MaxTime \in Nat /\ MaxReloads \in Nat /\ MaxIsolates \in Nat

VARIABLES disk,            \* init.conf, the unit files and the timer files
          cfg, timer_defs, current_target, watch,  \* run_event_loop's locals
          loglevel, hostname,                      \* process and kernel settings
          published,       \* ipc::LAST_TARGETS
          running,         \* name -> Option of the tracked definition
          stopped,         \* shutdown_all has been called
          changed,         \* history: name -> Option of the reload that started it
          now, reloads, isolates

settings == <<timer_defs, hostname, published>>
vars == <<disk, cfg, timer_defs, current_target, watch, loglevel, hostname, published,
          running, stopped, changed, now, reloads, isolates>>

-----------------------------------------------------------------------------
(* reload_services(new) on a service table: names whose tracked definition *)
(* differs are started, and each of those may fail; a critical one that    *)
(* fails may leave a rescue shell.  A rescue shell of before is stopped,   *)
(* as no longer configured or as different from the service of its name.   *)

Touched(table, new) == {d.name : d \in {d \in new : table[d.name] # {d}}}

Up(new, failed, rescue) ==
    [n \in Names |-> IF n = Shell /\ rescue THEN {fallback_shell}
                     ELSE {d \in new : d.name = n /\ n \notin failed}]

ReloadServices(table, new) ==
    \E failed \in SUBSET Touched(table, new) :
        \E rescue \in {FALSE, \E d \in new : d.critical /\ d.name \in failed} :
            running' = Up(new, failed, rescue)

\* Mutant of begin: no window.
BeginWithoutWindow(touched) ==
    {[deadline |-> now, touched |-> touched, previous |-> cfg, target |-> current_target]}

\* rollback::begin's watch replaces any earlier one.
begin(touched) ==
    {[deadline |-> now + WatchWindow, touched |-> touched, previous |-> cfg,
      target |-> current_target]}

Reload ==
    /\ ~stopped /\ reloads < MaxReloads /\ now + WatchWindow <= MaxTime
    /\ reloads' = reloads + 1
    /\ LET new == Load(disk.init, disk.units)
           subset == services_in(new.services, current_target)
           touched == Touched(running, subset)
       IN  /\ loglevel' = new.loglevel
           /\ hostname' = new.hostname
           /\ timer_defs' = load_timers(disk.timers)
           /\ ReloadServices(running, subset)
           /\ watch' = begin(touched)
           /\ cfg' = new
           /\ published' = [active |-> current_target, available |-> list(new.services)]
           /\ changed' = [n \in Names |->
                            IF n \in touched
                            THEN {[at |-> now, from |-> cfg, no |-> reloads + 1]}
                            ELSE changed[n]]
    /\ UNCHANGED <<disk, current_target, stopped, now, isolates>>

\* An isolate to a target no service is in is ignored.
Isolate ==
    /\ ~stopped /\ isolates < MaxIsolates
    /\ isolates' = isolates + 1
    /\ \E target \in list(cfg.services) :
        LET subset == services_in(cfg.services, target)
        IN  /\ ReloadServices(running, subset)
            /\ changed' = [n \in Names |->
                             IF running[n] = {d \in subset : d.name = n} THEN changed[n] ELSE {}]
            /\ current_target' = target
            /\ published' = [active |-> target, available |-> list(cfg.services)]
    /\ UNCHANGED <<disk, cfg, timer_defs, watch, loglevel, hostname, stopped,
                   now, reloads>>

-----------------------------------------------------------------------------
(* Exits, as handle_exit reports them, each followed by rollback::check.   *)

Gone(n) == [running EXCEPT ![n] = {}]

\* Mutants of RollBack: the loop's own cfg is forgotten; the watch goes on.
RollBackKeepsCfg(w, n) ==
    LET subset == services_in(w.previous.services, w.target)
    IN  /\ ReloadServices(Gone(n), subset)
        /\ changed' = [m \in Names |->
                         IF Gone(n)[m] = {d \in subset : d.name = m} THEN changed[m] ELSE {}]
        /\ loglevel' = w.previous.loglevel
        /\ hostname' = w.previous.hostname
        /\ watch' = {}
        /\ UNCHANGED <<cfg, timer_defs, current_target, published, stopped>>
RollBackKeepsWatch(w, n) ==
    LET subset == services_in(w.previous.services, w.target)
    IN  /\ ReloadServices(Gone(n), subset)
        /\ changed' = [m \in Names |->
                         IF Gone(n)[m] = {d \in subset : d.name = m} THEN changed[m] ELSE {}]
        /\ loglevel' = w.previous.loglevel
        /\ hostname' = w.previous.hostname
        /\ cfg' = w.previous
        /\ UNCHANGED <<watch, timer_defs, current_target, published, stopped>>

\* check with a failed name the watch is responsible for.
RollBack(w, n) ==
    LET subset == services_in(w.previous.services, w.target)
    IN  /\ ReloadServices(Gone(n), subset)
        /\ changed' = [m \in Names |->
                         IF Gone(n)[m] = {d \in subset : d.name = m} THEN changed[m] ELSE {}]
        /\ loglevel' = w.previous.loglevel
        /\ hostname' = w.previous.hostname
        /\ cfg' = w.previous
        /\ watch' = {}
        /\ UNCHANGED <<timer_defs, current_target, published, stopped>>

\* Mutant of KeepWatching: the deadline is not looked at.
WatchForEver == UNCHANGED <<watch, cfg, loglevel, hostname, timer_defs, current_target, published>>

\* check without one.
KeepWatching ==
    /\ watch' = {w \in watch : now < w.deadline}
    /\ UNCHANGED <<cfg, loglevel, hostname, timer_defs, current_target, published>>

Watched(n) == \E w \in watch : n \in w.touched

\* Outcome::Halt of a service the watch covers, and Outcome::GaveUp of one.
FailWatched(n) ==
    /\ ~stopped /\ running[n] # {}
    /\ \E w \in watch : n \in w.touched /\ RollBack(w, n)
    /\ UNCHANGED <<disk, now, reloads, isolates>>

\* Outcome::GaveUp of a service no reload answers for.
GiveUp(n) ==
    /\ ~stopped /\ ~Watched(n)
    /\ \E d \in running[n] : ~d.critical
    /\ running' = Gone(n)
    /\ changed' = [changed EXCEPT ![n] = {}]
    /\ KeepWatching
    /\ UNCHANGED <<disk, stopped, now, reloads, isolates>>

\* Outcome::Halt of a service, or of a rescue shell, no reload answers for:
\* shutdown_all.
HaltUnwatched(n) ==
    /\ ~stopped /\ ~Watched(n)
    /\ \E d \in running[n] : d.critical
    /\ stopped' = TRUE
    /\ running' = Gone(n)
    /\ changed' = [changed EXCEPT ![n] = {}]
    /\ UNCHANGED <<disk, cfg, settings, current_target, watch, loglevel, now, reloads, isolates>>

\* Outcome::Continue: the service stays down, by its restart policy or
\* because the restart could not be spawned.
StayDown(n) ==
    /\ ~stopped
    /\ \E d \in running[n] : ~d.critical
    /\ running' = Gone(n)
    /\ changed' = [changed EXCEPT ![n] = {}]
    /\ KeepWatching
    /\ UNCHANGED <<disk, stopped, now, reloads, isolates>>

ServiceRuns == \E n \in Names : running[n] # {}

\* A turn of the loop that finds a child alive, or reaps one that changes
\* nothing here.  The child may be an app, a timer's run or an orphan; a turn
\* that finds none at all (ECHILD) does not come to rollback::check.
Check ==
    /\ ~stopped /\ watch # {}
    /\ KeepWatching
    /\ UNCHANGED <<disk, running, stopped, changed, now, reloads, isolates>>

-----------------------------------------------------------------------------
\* An edit that no reload of the model will read is left out.
EditDisk ==
    /\ ~stopped /\ reloads < MaxReloads
    /\ disk' \in Disks
    /\ UNCHANGED <<cfg, settings, current_target, watch, loglevel, running, stopped,
                   changed, now, reloads, isolates>>

\* While a watch is active the loop polls far more often than once a tick, so
\* the clock does not run past its deadline unseen as long as there is a child.
Tick ==
    /\ ~stopped /\ now < MaxTime
    /\ ServiceRuns => \A w \in watch : now < w.deadline
    /\ now' = now + 1
    /\ UNCHANGED <<disk, cfg, settings, current_target, watch, loglevel, running,
                   stopped, changed, reloads, isolates>>

\* main after spawn_all, which may have failed to start some services.
Init ==
    /\ disk \in Disks
    /\ cfg = Load(disk.init, disk.units)
    /\ timer_defs = load_timers(disk.timers)
    /\ current_target = cfg.default_target
    /\ watch = {}
    /\ loglevel = cfg.loglevel
    /\ hostname = cfg.hostname
    /\ published = [active |-> current_target, available |-> list(cfg.services)]
    /\ \E failed \in SUBSET {d.name : d \in services_in(cfg.services, current_target)} :
        \E rescue \in {FALSE, \E d \in services_in(cfg.services, current_target) :
                                d.critical /\ d.name \in failed} :
            running = Up(services_in(cfg.services, current_target), failed, rescue)
    /\ stopped = FALSE
    /\ changed = [n \in Names |-> {}]
    /\ now = 0 /\ reloads = 0 /\ isolates = 0

HardFailure(n) == FailWatched(n) \/ GiveUp(n) \/ HaltUnwatched(n)

Next ==
    \/ Reload \/ Isolate \/ Check \/ EditDisk \/ Tick
    \/ \E n \in Names : HardFailure(n) \/ StayDown(n)

\* The loop polls while it watches, and time passes; nothing but a service is
\* sure to be there for waitpid to find.
Spec == Init /\ [][Next]_vars /\ WF_vars(Check /\ ServiceRuns) /\ WF_vars(Tick)

-----------------------------------------------------------------------------
(* Properties.                                                             *)

\* Types of the loop's locals, the settings and the history; the watch is an
\* Option, so at most one reload is on trial.
TypeOK ==
    /\ disk \in Disks
    /\ cfg \in Configs /\ current_target \in Targets
    /\ watch \subseteq [deadline : Nat, touched : SUBSET Names, previous : Configs,
                        target : Targets]
    /\ Cardinality(watch) <= 1
    /\ published \in [active : Targets, available : SUBSET Targets]
    /\ running \in [Names -> SUBSET Defs]
    /\ stopped \in BOOLEAN
    /\ changed \in [Names -> SUBSET [at : Nat, from : Configs, no : Nat]]
    /\ now \in Nat /\ reloads \in Nat /\ isolates \in Nat

\* The services that run, the log level, the host name and the configuration
\* the loop goes by stay in step through every mixture of reload, isolate,
\* failure and rollback: each tracked service runs a definition of cfg, one per
\* name, and only a rescue shell is in nobody's configuration.
RunningIsConfigured ==
    /\ loglevel = cfg.loglevel /\ hostname = cfg.hostname
    /\ \A n \in Names : running[n] \subseteq {d \in ToSet(cfg.services) : d.name = n}
                                              \cup (IF n = Shell THEN {fallback_shell} ELSE {})

\* What the files say, without an order: every line and every file that
\* parses, a file only if no line has its name, the built-in shell for want of
\* a line; and the last value a key is given.
Lines == UNION {ToSet(lines) : lines \in disk.init}
Good(f) == f.good /\ f.path # {}
Inline == {ServiceDef(f, InlineRestart(f.restart)) : f \in {g \in UNION {l.fields : l \in Lines} : Good(g)}}
Files == {ServiceDef(f, UnitRestart(f.restart)) : f \in {g \in ToSet(disk.units) : Good(g)}}
Said ==
    LET base == IF Inline = {} THEN {mitos_shell} ELSE Inline
    IN  base \cup {d \in Files : \A e \in base : e.name # d.name}
LastSaid(key, value) ==
    \E lines \in disk.init : \E k \in DOMAIN lines :
        /\ lines[k].key = key /\ lines[k].value = {value}
        /\ \A j \in k + 1 .. Len(lines) : lines[j].key = key => lines[j].value = {}

\* config.rs of merge_services: "keeps whichever was seen first", and of
\* load_or_default: "so the system is always bootable".  What a reload puts in
\* force is what the files say, no more and no less: bad lines, unreadable files
\* and a name in both places change nothing else, and an init.conf that cannot
\* be read leaves the built-in shell and the default settings beside the files.
ReloadSeesDisk ==
    [][reloads' # reloads =>
        /\ ToSet(cfg'.services) = Said
        /\ \A key \in {"hostname", "loglevel", "default_target"} :
            \/ LastSaid(key, cfg'[key])
            \/ cfg'[key] = Default[key] /\ \A l \in Lines : l.key = key => l.value = {}
        /\ \A d \in ToSet(cfg'.services) :
            d.target = current_target => running'[d.name] \subseteq {d, fallback_shell}]_vars

\* A reload whose changed service fails hard within the watch window is
\* undone, as long as no further reload has come in between.
LastReloadReverts ==
    [][\A n \in Names : \A c \in changed[n] :
         HardFailure(n) /\ c.no = reloads /\ now < c.at + WatchWindow => cfg' = c.from]_vars

\* main.rs polls for "a reload watch's deadline": a watch does not last, and the
\* loop returns to its blocking wait, through overlapping reloads, isolates and
\* exits, as long as there are services.  With no child left waitpid fails with
\* ECHILD, an arm in which the watch is not looked at: it then stays, past its
\* deadline, until there is a child again.
WatchResolves == []<>ServiceRuns => (watch # {} ~> (watch = {} \/ stopped))

\* The abstract specification: the configuration in force is committed or on
\* trial, and a trial ends in one of the ways module ConfigTransaction lists.
Transaction == INSTANCE ConfigTransaction WITH
    committed <- IF watch = {} THEN cfg ELSE (CHOOSE w \in watch : TRUE).previous,
    trial <- IF watch = {} THEN {} ELSE {cfg}
TransactionSpec == Transaction!Spec

=============================================================================
