------------------------------- MODULE Timers -------------------------------
(***************************************************************************)
(* timers.rs: one-shot runs of a timer's paired service, started by tick   *)
(* once per turn of the event loop, claimed by reap when waitpid returns   *)
(* them.  STATE outlives the timer definitions, which a reload replaces.   *)
(* Only the main thread calls in, so each call is one step.  mitos-services *)
(* starts at time 0.  Option<T> is a set with at most one element.         *)
(***************************************************************************)
EXTENDS Naturals, FiniteSets, Functions

CONSTANTS Names,      \* the names timers and services share
          TimerSets,  \* what load_all may yield: sets of TimerDef
          Services,   \* what the configuration may be: sets of service names
          Pids,
          MaxTime, MaxReloads, MaxRuns  \* bounds of the model

TimerDef == [name : Names, on_boot : SUBSET Nat, on_active : SUBSET Nat]

\* parse_timer rejects a timer with neither key; file names are distinct.
ASSUME TimersAssumption ==
    /\ \A ts \in TimerSets :
        /\ ts \subseteq TimerDef
        /\ \A t \in ts : /\ t.on_boot # {} \/ t.on_active # {}
                         /\ Cardinality(t.on_boot) <= 1 /\ Cardinality(t.on_active) <= 1
        /\ \A t, u \in ts : t.name = u.name => t = u
    /\ \A s \in Services : s \subseteq Names
    /\ IsFiniteSet(Pids) /\ MaxTime \in Nat /\ MaxReloads \in Nat /\ MaxRuns \in Nat

VARIABLES timer_defs, services,  \* run_event_loop's locals
          boot,           \* State::boot, none until STATE is first used
          last_finished,  \* name -> Option of the time
          running,        \* names
          pending,        \* pid -> name
          alive, zombie,  \* kernel: one-shots running, and dead but not waited for
          runs,           \* history: name -> runs started
          repeats,        \* history: names that have ever had OnUnitActiveSec=
          now, reloads

state == <<boot, last_finished, running, pending>>
kernel == <<alive, zombie>>
history == <<runs, repeats>>
vars == <<timer_defs, services, boot, last_finished, running, pending, alive, zombie,
          runs, repeats, now, reloads>>

\* state(): get_or_init, the first time it is called.
Initialized == IF boot = {} THEN {now} ELSE boot

\* Mutant of is_due: without OnUnitActiveSec= the boot delay repeats.
DueAgain(t, booted) ==
    LET delays == IF t.on_active # {} THEN t.on_active ELSE t.on_boot
    IN  \/ last_finished[t.name] = {} /\ \E b \in booted, d \in delays : now >= b + d
        \/ \E last \in last_finished[t.name], d \in delays : now >= last + d

\* Before the first run both keys count from boot, OnBootSec= if it is there.
is_due(t, booted) ==
    IF last_finished[t.name] = {}
    THEN \E b \in booted, d \in (IF t.on_boot # {} THEN t.on_boot ELSE t.on_active) : now >= b + d
    ELSE \E last \in last_finished[t.name], d \in t.on_active : now >= last + d

\* Mutant of due_names: a run in progress is not looked at.
DueWhileRunning == {t.name : t \in {t \in timer_defs : is_due(t, Initialized)}}

due_names == {t.name : t \in {t \in timer_defs : t.name \notin running /\ is_due(t, Initialized)}}

\* Due timers without a service are skipped; a spawn may fail, and the timer is
\* then still due at the next tick.
tick ==
    /\ timer_defs # {}
    /\ boot' = Initialized
    /\ \E started \in SUBSET (due_names \cap services) :
        \E pid \in [started -> Pids \ (alive \cup zombie)] :
            /\ \A m, n \in started : pid[m] = pid[n] => m = n
            /\ \A n \in started : runs[n] < MaxRuns
            /\ running' = running \cup started
            /\ pending' = [p \in DOMAIN pending \cup Range(pid) |->
                             IF p \in Range(pid) THEN CHOOSE n \in started : pid[n] = p
                             ELSE pending[p]]
            /\ alive' = alive \cup Range(pid)
            /\ runs' = [n \in Names |-> IF n \in started THEN runs[n] + 1 ELSE runs[n]]
    /\ UNCHANGED <<timer_defs, services, last_finished, zombie, repeats, now, reloads>>

\* Mutant of reap: a timer that is no longer configured is not cleaned up.
ReapConfigured(p) ==
    /\ p \in zombie /\ p \in DOMAIN pending
    /\ zombie' = zombie \ {p} /\ boot' = Initialized
    /\ IF \E t \in timer_defs : t.name = pending[p]
       THEN /\ pending' = Restrict(pending, DOMAIN pending \ {p})
            /\ running' = running \ {pending[p]}
            /\ last_finished' = [last_finished EXCEPT ![pending[p]] = {now}]
       ELSE UNCHANGED <<pending, running, last_finished>>
    /\ UNCHANGED <<timer_defs, services, alive, history, now, reloads>>

reap(p) ==
    /\ p \in zombie
    /\ zombie' = zombie \ {p}
    /\ boot' = Initialized
    /\ p \in DOMAIN pending
    /\ pending' = Restrict(pending, DOMAIN pending \ {p})
    /\ running' = running \ {pending[p]}
    /\ last_finished' = [last_finished EXCEPT ![pending[p]] = {now}]
    /\ UNCHANGED <<timer_defs, services, alive, history, now, reloads>>

\* reap is asked about the exit of a service, which initialises STATE as well.
ReapOther ==
    /\ boot' = Initialized
    /\ UNCHANGED <<timer_defs, services, last_finished, running, pending, kernel, history,
                   now, reloads>>

Repeating(ts) == {t.name : t \in {t \in ts : t.on_active # {}}}

Reload ==
    /\ reloads < MaxReloads /\ reloads' = reloads + 1
    /\ timer_defs' \in TimerSets /\ services' \in Services
    /\ repeats' = repeats \cup Repeating(timer_defs')
    /\ UNCHANGED <<state, kernel, runs, now>>

Exit(p) ==
    /\ p \in alive /\ alive' = alive \ {p} /\ zombie' = zombie \cup {p}
    /\ UNCHANGED <<timer_defs, services, state, history, now, reloads>>

\* spawn_all, a reload or a slow turn may let any time pass between ticks.
Clock ==
    /\ now < MaxTime /\ now' = now + 1
    /\ UNCHANGED <<timer_defs, services, state, kernel, history, reloads>>

Init ==
    /\ timer_defs \in TimerSets /\ services \in Services
    /\ boot = {} /\ last_finished = [n \in Names |-> {}]
    /\ running = {} /\ pending = << >>
    /\ alive = {} /\ zombie = {}
    /\ runs = [n \in Names |-> 0] /\ repeats = Repeating(timer_defs)
    /\ now = 0 /\ reloads = 0

Next == \/ tick \/ ReapOther \/ Reload \/ Clock
        \/ \E p \in Pids : reap(p) \/ Exit(p)

\* The event loop reaps every child that is dead.
Spec == Init /\ [][Next]_vars /\ \A p \in Pids : WF_vars(reap(p))

-----------------------------------------------------------------------------
\* Types of the timers' state; boot is set at most once.
TypeOK ==
    /\ timer_defs \in TimerSets /\ services \in Services
    /\ boot \subseteq Nat /\ Cardinality(boot) <= 1
    /\ last_finished \in [Names -> SUBSET Nat] /\ running \subseteq Names
    /\ DOMAIN pending \subseteq Pids /\ Range(pending) \subseteq Names
    /\ alive \subseteq Pids /\ zombie \subseteq Pids
    /\ runs \in [Names -> Nat] /\ repeats \subseteq Names /\ now \in Nat /\ reloads \in Nat

\* timers.rs: "a run that takes longer than the interval doesn't overlap with
\* itself".  Whatever reloads do to the definitions meanwhile, each name has at
\* most one unreaped run, and running names exactly those that do.
NoOverlap ==
    /\ DOMAIN pending = alive \cup zombie
    /\ \A p, q \in DOMAIN pending : pending[p] = pending[q] => p = q
    /\ running = Range(pending)

\* timers.rs: "a timer with only OnBootSec= set fires exactly once": at most
\* once, through any sequence of reloads that take it away and bring it back.
BootTimerFiresOnce == \A n \in Names \ repeats : runs[n] <= 1

\* A finished run is noticed and frees its timer, even if the timer itself was
\* removed by a reload during the run.
FinishedRunReleases ==
    \A p \in Pids : p \in zombie ~> p \notin zombie /\ p \notin DOMAIN pending

=============================================================================
