-------------------------- MODULE SupervisorProofs --------------------------
(* Theorems about the supervisor, for every set of names, definitions and  *)
(* pids, every configuration and every value of the limits.                *)
EXTENDS Supervisor, FiniteSetTheorems, TLAPS

\* The service table alone: what TypeOK says of it.
TableOK(table) == DOMAIN table \subseteq Pids /\ \A p \in DOMAIN table : table[p] \in Supervised

\* Removing a pid from the table and inserting one keep it well typed.
LEMMA WithoutType == ASSUME TableOK(services), NEW p PROVE TableOK(Without(p))
  BY DEF TableOK, Without, Restrict, Tracked

LEMMA WithType ==
  ASSUME NEW table, TableOK(table), NEW p \in Pids, NEW sup \in Supervised
  PROVE  TableOK(With(table, p, sup))
  BY DEF TableOK, With

\* A freshly spawned service and the rescue shell are well typed.
LEMMA FreshType ==
  ASSUME now \in Nat, NEW def \in Defs, NEW times \in SUBSET Stamp,
         NEW log \in SUBSET Stamp, NEW n \in Nat
  PROVE  Fresh(def, times, log, n) \in Supervised
  BY DEF Fresh, Supervised

LEMMA ShellType == fallback_shell \in Defs
  BY SupervisorAssumption

\* The record that an automatic restart installs is well typed.
LEMMA RestartedType ==
  ASSUME now \in Nat, NEW sup \in Supervised
  PROVE  RestartedOf(sup) \in Supervised
<1>1. [at |-> now, n |-> sup.restarts] \in Stamp
  BY DEF Supervised, Stamp
<1>2. Restamped(sup) \in SUBSET Stamp
  BY <1>1 DEF Restamped, Supervised
<1>3. sup.log \cup {[at |-> now, n |-> sup.restarts]} \in SUBSET Stamp
  BY <1>1 DEF Supervised
<1>4. sup.def \in Defs /\ sup.restarts + 1 \in Nat
  BY DEF Supervised
<1> QED
  BY <1>2, <1>3, <1>4, FreshType DEF RestartedOf

\* spawn_with_history keeps every variable it touches well typed, whichever
\* of its outcomes happens.
LEMMA SpawnType ==
  ASSUME TypeOK, NEW table, TableOK(table), NEW sup \in Supervised,
         SpawnWithHistory(table, sup)
  PROVE  /\ TableOK(services)'
         /\ pings' \in [Names -> SUBSET Nat]
         /\ alive \subseteq alive' /\ alive' \subseteq Pids
         /\ main' \subseteq Pids
         /\ group' \in [Pids -> Names \cup {Nowhere}]
         /\ forks' \in Nat
<1>1. sup.def \in ServiceDef /\ sup.def.name \in Names
  BY SupervisorAssumption DEF Supervised, ServiceDef
<1>2. pings' \in [Names -> SUBSET Nat]
  BY <1>1 DEF SpawnWithHistory, TypeOK
<1>3. ASSUME NEW p \in Pids, NEW early \in SUBSET Pids, NEW s \in Supervised,
             Started(table, p, early, s)
      PROVE  /\ TableOK(services)'
             /\ alive \subseteq alive' /\ alive' \subseteq Pids
             /\ main' \subseteq Pids
             /\ group' \in [Pids -> Names \cup {Nowhere}]
             /\ forks' \in Nat
  <2>1. TableOK(services)'
    BY <1>3, WithType DEF Started, TableOK
  <2>2. s.def.name \in Names
    BY SupervisorAssumption DEF Supervised, ServiceDef
  <2>3. group' \in [Pids -> Names \cup {Nowhere}]
    BY <1>3, <2>2 DEF Started, TypeOK
  <2>4. Cardinality(early) \in Nat
    BY SupervisorAssumption, FS_Subset, FS_CardinalityType
  <2>5. forks' \in Nat
    BY <1>3, <2>4 DEF Started, TypeOK
  <2> QED
    BY <1>3, <2>1, <2>3, <2>5 DEF Started, TypeOK
<1>4. CASE SpawnOk(table, sup)
  BY <1>2, <1>3, <1>4 DEF SpawnOk
<1>5. CASE SpawnFails(table)
  BY <1>2, <1>5 DEF SpawnFails, TypeOK, TableOK
<1>6. CASE FallBackToShell(table, sup.def)
  <2>1. Fresh(fallback_shell, {}, {}, 0) \in Supervised
    BY FreshType, ShellType DEF TypeOK
  <2> QED
    BY <1>2, <1>3, <1>6, <2>1 DEF FallBackToShell
<1> QED
  BY <1>4, <1>5, <1>6 DEF SpawnWithHistory


-----------------------------------------------------------------------------
LEMMA TypeInit == Init => TypeOK
<1> SUFFICES ASSUME Init PROVE TypeOK
  OBVIOUS
<1> USE SupervisorAssumption
<1>1. PICK S \in SUBSET BootDefs, pid \in [BootDefs -> Pids] :
        /\ alive = {pid[d] : d \in S}
        /\ services = [p \in {pid[d] : d \in S} |->
                         Fresh(CHOOSE d \in S : pid[d] = p, {}, {}, 0)]
  BY DEF Init
<1>2. Tracked \subseteq Pids /\ Tracked = alive
  BY <1>1 DEF Tracked
<1>3. ASSUME NEW p \in Tracked PROVE services[p] \in Supervised
  <2>1. PICK d \in S : pid[d] = p
    BY <1>1, <1>3 DEF Tracked
  <2>2. (CHOOSE c \in S : pid[c] = p) \in Defs
    BY <2>1
  <2> QED
    BY <1>1, <1>3, <2>2, FreshType DEF Tracked, Init
<1>4. \A p \in Tracked : services[p].def.name \in Names
  BY <1>3 DEF Supervised, ServiceDef
<1>5. /\ now = 0 /\ forks = 0 /\ reloads = 0
      /\ pings = [n \in Names |-> {}]
      /\ pc = "loop"
      /\ reaped = {} /\ removing = {} /\ queue = <<>> /\ victim = {}
      /\ names = {} /\ goal = {} /\ kept = {}
      /\ zombie = {} /\ clean = {} /\ doomed = {}
      /\ main = alive
      /\ group = [p \in Pids |-> IF p \in alive THEN services[p].def.name ELSE Nowhere]
  BY DEF Init
<1>6. group \in [Pids -> Names \cup {Nowhere}]
  BY <1>2, <1>4, <1>5
<1> QED
  BY <1>2, <1>3, <1>5, <1>6 DEF TypeOK

\* Every step of the event loop keeps the types.
LEMMA TypeStep == TypeOK /\ [Next]_vars => TypeOK'
<1> SUFFICES ASSUME TypeOK, [Next]_vars PROVE TypeOK'
  OBVIOUS
<1> USE SupervisorAssumption DEF TypeOK
<1>0. TableOK(services)
  BY DEF TableOK, Tracked
<1>n. \A p \in Tracked : services[p].def \in Defs /\ services[p].def.name \in Names
  BY DEF Supervised, ServiceDef
<1>a. CASE WaitReaps
  BY <1>a DEF WaitReaps, ReapInto, superVars, countVars, Tracked
<1>b. CASE WaitFindsNothing
  BY <1>b DEF WaitFindsNothing, superVars, kernelVars, countVars, Tracked
<1>c. CASE KillExpired
  BY <1>c DEF KillExpired, superVars, countVars, Tracked
<1>d. CASE IgnoreExit
  BY <1>d DEF IgnoreExit, superVars, kernelVars, countVars, Tracked
<1>e. CASE Halt \/ StayDown \/ GiveUp
  <2>1. PICK r \in reaped : /\ Exited(r)
                            /\ services' = Without(r.pid)
                            /\ Forgotten(services[r.pid].def.name)
                            /\ pc' \in {"halt", "loop"}
                            /\ UNCHANGED <<alive, main, group, forks>>
    BY <1>e DEF Halt, StayDown, GiveUp
  <2>2. TableOK(services)'
    BY <1>0, <2>1, WithoutType DEF TableOK
  <2> QED
    BY <1>n, <2>1, <2>2 DEF Exited, Forgotten, InGroup, TableOK, Tracked
<1>f. CASE Restart
  <2>1. PICK r \in reaped : /\ Exited(r)
                            /\ SpawnWithHistory(Without(r.pid), RestartedOf(services[r.pid]))
                            /\ pc' = "loop"
    BY <1>f DEF Restart
  <2>2. services[r.pid] \in Supervised
    BY <2>1 DEF Exited
  <2>3. TableOK(Without(r.pid)) /\ RestartedOf(services[r.pid]) \in Supervised
    BY <1>0, <2>2, WithoutType, RestartedType
  <2>4. /\ TableOK(services)'
        /\ pings' \in [Names -> SUBSET Nat]
        /\ alive \subseteq alive' /\ alive' \subseteq Pids
        /\ main' \subseteq Pids
        /\ group' \in [Pids -> Names \cup {Nowhere}]
        /\ forks' \in Nat
    BY <2>1, <2>3, SpawnType
  <2> QED
    BY <2>1, <2>4 DEF Exited, InGroup, TableOK, Tracked
<1>g. CASE BeginReload
  <2>1. PICK new \in Reloads :
          /\ queue' = new
          /\ removing' = {p \in Tracked :
                            \A i \in DOMAIN new : new[i].name # services[p].def.name}
          /\ goal' = {new[i] : i \in DOMAIN new}
          /\ kept' = {p \in Tracked : services[p].def \in goal'}
    BY <1>g DEF BeginReload
  <2>2. new \in Seq(Defs)
    OBVIOUS
  <2>3. goal' \subseteq Defs
    BY <2>1, <2>2
  <2> QED
    BY <1>g, <2>1, <2>2, <2>3 DEF BeginReload, superVars, kernelVars, Tracked
<1>h. CASE RemoveOne
  <2>1. PICK p \in removing \cap Tracked :
          /\ removing' = removing \ {p}
          /\ victim' = {[pid |-> p, name |-> services[p].def.name]}
          /\ services' = Without(p)
    BY <1>h DEF RemoveOne
  <2>2. TableOK(services)'
    BY <1>0, <2>1, WithoutType DEF TableOK
  <2>3. p \in Pids
    OBVIOUS
  <2> QED
    BY <1>h, <1>n, <2>1, <2>2, <2>3 DEF RemoveOne, kernelVars, countVars, TableOK, Tracked
<1>i. CASE AllRemoved
  BY <1>i DEF AllRemoved, superVars, kernelVars, countVars, Tracked
<1>j. CASE StopRemoved \/ StopChanged
  BY <1>j DEF StopRemoved, StopChanged, StopOne, ReapInto, Forgotten, InGroup, countVars, Tracked
<1>k. CASE LeaveUnchanged
  BY <1>k DEF LeaveUnchanged, superVars, kernelVars, countVars, Tracked
<1>l. CASE ReplaceChanged
  <2>1. PICK p \in Tracked : /\ victim' = {[pid |-> p, name |-> services[p].def.name]}
                             /\ services' = Without(p)
    BY <1>l DEF ReplaceChanged
  <2>2. TableOK(services)'
    BY <1>0, <2>1, WithoutType DEF TableOK
  <2> QED
    BY <1>l, <1>n, <2>1, <2>2 DEF ReplaceChanged, kernelVars, countVars, TableOK, Tracked
<1>m. CASE StartNew \/ EndReload
  BY <1>m DEF StartNew, EndReload, superVars, kernelVars, countVars, Tracked
<1>o. CASE StartOne
  <2>1. Head(queue) \in Defs /\ Tail(queue) \in Seq(Defs)
    BY <1>o DEF StartOne
  <2>2. Fresh(Head(queue), {}, {}, 0) \in Supervised
    BY <2>1, FreshType
  <2>3. /\ TableOK(services)'
        /\ pings' \in [Names -> SUBSET Nat]
        /\ alive \subseteq alive' /\ alive' \subseteq Pids
        /\ main' \subseteq Pids
        /\ group' \in [Pids -> Names \cup {Nowhere}]
        /\ forks' \in Nat
    BY <1>0, <1>o, <2>2, SpawnType DEF StartOne
  <2> QED
    BY <1>o, <2>1, <2>3 DEF StartOne, TableOK, Tracked
<1>p. CASE BeginShutdown
  BY <1>n, <1>p DEF BeginShutdown, superVars, kernelVars, countVars, Tracked, TrackedNames
<1>q. CASE GraceReap
  <2>1. PICK p \in zombie : ReapInto(p) /\ services' = Without(p)
    BY <1>q DEF GraceReap
  <2>2. TableOK(services)'
    BY <1>0, <2>1, WithoutType DEF TableOK
  <2> QED
    BY <1>q, <2>1, <2>2 DEF GraceReap, ReapInto, countVars, TableOK, Tracked
<1>r. CASE GraceOver
  BY <1>r DEF GraceOver, countVars, Tracked
<1>s. CASE \E p \in Pids : Exit(p) \/ DieOfKill(p)
  BY <1>s DEF Exit, DieOfKill, Die, superVars, threadVars, countVars, Tracked
<1>t. CASE \E p \in Pids : Fork(p)
  BY <1>t DEF Fork, FreePids, superVars, threadVars, Tracked
<1>u. CASE \E p \in Pids : Ping(p)
  BY <1>n, <1>u DEF Ping, threadVars, kernelVars, countVars, Tracked
<1>v. CASE Tick
  BY <1>v DEF Tick, superVars, threadVars, kernelVars, Tracked
<1>w. CASE UNCHANGED vars
  BY <1>w DEF vars, Tracked
<1> QED
  BY <1>a, <1>b, <1>c, <1>d, <1>e, <1>f, <1>g, <1>h, <1>i, <1>j, <1>k, <1>l, <1>m, <1>o,
     <1>p, <1>q, <1>r, <1>s, <1>t, <1>u, <1>v, <1>w DEF Next, Proceed, Request, Processes

\* The supervisor's state is well typed in every reachable state.
THEOREM TypeCorrect == Spec => []TypeOK
  BY TypeInit, TypeStep, PTL DEF Spec

-----------------------------------------------------------------------------
(* The restart budget.  handle_exit only looks at restart_times, which it  *)
(* has trimmed at every restart before, while RestartBudget speaks of all  *)
(* restarts ever.  The strengthening says that trimming never forgets a    *)
(* restart that still counts.                                              *)

InWindow(sup, t) == {r \in sup.log : t <= r.at /\ r.at < t + Window}

Accounted(sup, time) ==
    /\ IsFiniteSet(sup.restart_times)
    /\ \A r \in sup.log : r.at <= time
    /\ \A r \in sup.log : time - r.at < Window => r \in sup.restart_times
    /\ \A t \in 0..MaxTime : Cardinality(InWindow(sup, t)) <= MaxRestarts

BudgetInv == \A p \in Tracked : Accounted(services[p], now)

\* A service started afresh has no restarts to account for.
LEMMA FreshAccounted ==
  ASSUME NEW def, NEW n, NEW time \in Nat
  PROVE  Accounted(Fresh(def, {}, {}, n), time)
  BY SupervisorAssumption, FS_EmptySet DEF Accounted, Fresh, InWindow

\* The passing of time only lets restarts expire.
LEMMA LaterAccounted ==
  ASSUME NEW sup \in Supervised, NEW time \in Nat, Accounted(sup, time)
  PROVE  Accounted(sup, time + 1)
  BY SupervisorAssumption DEF Accounted, Supervised, Stamp

\* The step that matters: a restart that passes handle_exit's test on the
\* trimmed vector keeps every window within the budget.
LEMMA RestartAccounted ==
  ASSUME TypeOK, NEW sup \in Supervised, Accounted(sup, now),
         Cardinality(Restamped(sup)) <= MaxRestarts
  PROVE  Accounted(RestartedOf(sup), now)
<1> DEFINE x == [at |-> now, n |-> sup.restarts]
           new == RestartedOf(sup)
<1>0. now \in Nat /\ Window \in Nat /\ MaxRestarts \in Nat
  BY SupervisorAssumption DEF TypeOK
<1>1. /\ new.log = sup.log \cup {x}
      /\ new.restart_times = Restamped(sup)
      /\ x.at = now
  BY DEF RestartedOf, Fresh
<1>2. \A r \in sup.log : r.at \in Nat /\ r.at <= now
  BY DEF Accounted, Supervised, Stamp
<1>3. IsFiniteSet(Restamped(sup))
  <2>1. IsFiniteSet({r \in sup.restart_times : now - r.at < Window})
    BY FS_Subset DEF Accounted
  <2> QED
    BY <2>1, FS_AddElement DEF Restamped
<1>4. \A r \in new.log : r.at <= now
  BY <1>0, <1>1, <1>2
<1>5. \A r \in new.log : now - r.at < Window => r \in Restamped(sup)
  BY <1>1 DEF Restamped, Accounted
<1>6. ASSUME NEW t \in 0..MaxTime PROVE Cardinality(InWindow(new, t)) <= MaxRestarts
  <2>0. t \in Nat
    BY SupervisorAssumption
  <2>1. CASE t <= now /\ now < t + Window
    <3>1. InWindow(new, t) \subseteq Restamped(sup)
      <4> SUFFICES ASSUME NEW r \in new.log, t <= r.at, r.at < t + Window
                   PROVE  r \in Restamped(sup)
        BY DEF InWindow
      <4>1. r.at \in Nat
        BY <1>0, <1>1, <1>2
      <4>2. now - r.at < Window
        BY <1>0, <2>0, <2>1, <4>1
      <4> QED
        BY <1>5, <4>2
    <3>2. /\ Cardinality(InWindow(new, t)) <= Cardinality(Restamped(sup))
          /\ Cardinality(InWindow(new, t)) \in Nat
          /\ Cardinality(Restamped(sup)) \in Nat
      BY <1>3, <3>1, FS_Subset, FS_CardinalityType
    <3> QED
      BY <1>0, <3>2
  <2>2. CASE ~(t <= now /\ now < t + Window)
    <3>1. InWindow(new, t) = InWindow(sup, t)
      BY <1>1, <2>2 DEF InWindow
    <3> QED
      BY <3>1 DEF Accounted
  <2> QED
    BY <2>1, <2>2
<1> QED
  BY <1>1, <1>3, <1>4, <1>5, <1>6 DEF Accounted

\* spawn_with_history accounts for whatever it puts in the table.
LEMMA SpawnAccounted ==
  ASSUME TypeOK, NEW table, \A p \in DOMAIN table : Accounted(table[p], now),
         NEW sup, Accounted(sup, now), SpawnWithHistory(table, sup)
  PROVE  \A p \in DOMAIN services' : Accounted(services'[p], now)
<1>1. ASSUME NEW s, Accounted(s, now), NEW p, NEW early, Started(table, p, early, s)
      PROVE  \A q \in DOMAIN services' : Accounted(services'[q], now)
  BY <1>1 DEF Started, With
<1>2. CASE SpawnOk(table, sup)
  BY <1>1, <1>2 DEF SpawnOk
<1>3. CASE SpawnFails(table)
  BY <1>3 DEF SpawnFails
<1>4. CASE FallBackToShell(table, sup.def)
  <2>1. Accounted(Fresh(fallback_shell, {}, {}, 0), now)
    BY FreshAccounted DEF TypeOK
  <2> QED
    BY <1>1, <1>4, <2>1 DEF FallBackToShell
<1> QED
  BY <1>2, <1>3, <1>4 DEF SpawnWithHistory

\* Every step preserves the accounting.
LEMMA BudgetStep == TypeOK /\ BudgetInv /\ [Next]_vars => BudgetInv'
<1> SUFFICES ASSUME TypeOK, BudgetInv, [Next]_vars PROVE BudgetInv'
  OBVIOUS
<1> USE DEF BudgetInv, Tracked
<1>0. ASSUME NEW p PROVE \A q \in DOMAIN Without(p) : Accounted(Without(p)[q], now)
  BY DEF Without, Restrict
<1>a. CASE \/ WaitReaps \/ WaitFindsNothing \/ KillExpired \/ IgnoreExit \/ BeginReload
           \/ AllRemoved \/ StopRemoved \/ LeaveUnchanged \/ StopChanged \/ StartNew
           \/ EndReload \/ BeginShutdown \/ GraceOver \/ UNCHANGED vars
  <2>1. services' = services /\ now' = now
    BY <1>a DEF WaitReaps, WaitFindsNothing, KillExpired, IgnoreExit, BeginReload, AllRemoved,
                StopRemoved, LeaveUnchanged, StopChanged, StopOne, StartNew, EndReload,
                BeginShutdown, GraceOver, superVars, countVars, vars
  <2> QED
    BY <2>1
<1>b. CASE Halt \/ StayDown \/ GiveUp \/ RemoveOne \/ ReplaceChanged \/ GraceReap
  <2>1. now' = now /\ \E p : services' = Without(p)
    BY <1>b DEF Halt, StayDown, GiveUp, Exited, RemoveOne, ReplaceChanged, GraceReap, countVars
  <2> QED
    BY <1>0, <2>1
<1>c. CASE Restart
  <2>1. PICK r \in reaped :
          /\ r.pid \in Tracked /\ now' = now
          /\ Cardinality(Restamped(services[r.pid])) <= MaxRestarts
          /\ SpawnWithHistory(Without(r.pid), RestartedOf(services[r.pid]))
    BY <1>c DEF Restart, Exited
  <2>2. Accounted(RestartedOf(services[r.pid]), now)
    BY <2>1, RestartAccounted DEF TypeOK
  <2> QED
    BY <1>0, <2>1, <2>2, SpawnAccounted
<1>d. CASE StartOne
  <2>1. Accounted(Fresh(Head(queue), {}, {}, 0), now)
    BY FreshAccounted DEF TypeOK
  <2>2. now' = now /\ SpawnWithHistory(services, Fresh(Head(queue), {}, {}, 0))
    BY <1>d DEF StartOne
  <2> QED
    BY <2>1, <2>2, SpawnAccounted
<1>e. CASE Processes
  <2>1. services' = services /\ now' = now
    BY <1>e DEF Processes, Exit, DieOfKill, Die, Fork, Ping, superVars, countVars
  <2> QED
    BY <2>1
<1>f. CASE Tick
  <2>1. services' = services /\ now' = now + 1
    BY <1>f DEF Tick, superVars
  <2> QED
    BY <2>1, LaterAccounted DEF TypeOK
<1> QED
  BY <1>a, <1>b, <1>c, <1>d, <1>e, <1>f DEF Next, Proceed, Request

\* No service is ever restarted automatically more than MaxRestarts times in
\* any interval of length Window: handle_exit's test on the trimmed vector
\* enforces the budget over the whole run, wherever the interval starts.
THEOREM RestartBudgetHolds == Spec => []RestartBudget
<1>1. Init => BudgetInv
  <2> SUFFICES ASSUME Init, NEW p \in Tracked PROVE Accounted(services[p], now)
    BY DEF BudgetInv
  <2>1. \E d : services[p] = Fresh(d, {}, {}, 0)
    BY DEF Init, Tracked
  <2>2. now \in Nat
    BY DEF Init
  <2> QED
    BY <2>1, <2>2, FreshAccounted
<1>2. BudgetInv => RestartBudget
  BY DEF BudgetInv, Accounted, RestartBudget, InWindow
<1> QED
  BY <1>1, <1>2, BudgetStep, TypeCorrect, PTL DEF Spec

-----------------------------------------------------------------------------
(* Tracked pids.  A pid may be recycled as soon as its zombie is reaped,   *)
(* so the table must lose a pid no later than the wait that reaps it; the  *)
(* strengthening says where the two places that break this rule for a      *)
(* moment, reaped and victim, stand.                                       *)

OursInv ==
    /\ TrackedAreOurs
    /\ alive \cap zombie = {}
    /\ \A r, s \in reaped : r = s
    /\ reaped # {} => pc \in {"expire", "exit"}
    /\ \A v \in victim : v.pid \notin Tracked
    /\ victim # {} => pc \in {"stop_removed", "stop_changed"}

\* A pid of ours in a given table: alive or zombie, started by us, and in the
\* cgroup of its service.
OursIn(table) ==
    \A p \in DOMAIN table :
        /\ p \in (alive \cup zombie) \cap main
        /\ p \in alive => group[p] = table[p].def.name

\* spawn_with_history on a table without exceptions keeps it that way.
LEMMA SpawnOurs ==
  ASSUME TypeOK, alive \cap zombie = {}, NEW table, OursIn(table), NEW sup,
         SpawnWithHistory(table, sup), zombie' = zombie
  PROVE  TrackedAreOurs' /\ (alive \cap zombie = {})'
<1> USE DEF TypeOK
<1>1. ASSUME NEW s, NEW p \in Pids, NEW early, Started(table, p, early, s)
      PROVE  TrackedAreOurs' /\ (alive \cap zombie = {})'
  <2>1. /\ p \notin alive \cup zombie
        /\ early \cap (alive \cup zombie) = {}
        /\ services' = With(table, p, s)
        /\ alive' = alive \cup {p} \cup early
        /\ main' = main \cup {p}
        /\ group' = [group EXCEPT ![p] = s.def.name]
    BY <1>1 DEF Started, FreePids
  <2>2. p \notin DOMAIN table
    BY <2>1 DEF OursIn
  <2>3. ASSUME NEW q \in DOMAIN services'
        PROVE  /\ q \in (alive' \cup zombie') \cap main'
               /\ q \in alive' => group'[q] = services'[q].def.name
    <3>1. CASE q = p
      BY <2>1, <3>1 DEF With
    <3>2. CASE q # p
      <4>1. q \in DOMAIN table /\ services'[q] = table[q]
        BY <2>1, <2>3, <3>2 DEF With
      <4>2. q \in alive' => q \in alive
        BY <2>1, <4>1 DEF OursIn
      <4>3. q \in Pids
        BY <4>1 DEF OursIn
      <4> QED
        BY <2>1, <3>2, <4>1, <4>2, <4>3 DEF OursIn
    <3> QED
      BY <3>1, <3>2
  <2> QED
    BY <2>1, <2>3 DEF TrackedAreOurs, Tracked
<1>2. CASE SpawnOk(table, sup)
  BY <1>1, <1>2 DEF SpawnOk
<1>3. CASE SpawnFails(table)
  BY <1>3 DEF SpawnFails, OursIn, TrackedAreOurs, Tracked
<1>4. CASE FallBackToShell(table, sup.def)
  BY <1>1, <1>4 DEF FallBackToShell
<1> QED
  BY <1>2, <1>3, <1>4 DEF SpawnWithHistory

\* Every step preserves the strengthening.
LEMMA OursStep == TypeOK /\ OursInv /\ [Next]_vars => OursInv'
<1> SUFFICES ASSUME TypeOK, OursInv, [Next]_vars PROVE OursInv'
  OBVIOUS
<1> USE DEF TypeOK, OursInv, Tracked
<1>0. ASSUME NEW p PROVE /\ DOMAIN Without(p) = Tracked \ {p}
                         /\ \A q \in Tracked \ {p} : Without(p)[q] = services[q]
  BY DEF Without, Restrict
<1>1. reaped = {} => OursIn(services)
  BY DEF TrackedAreOurs, OursIn
<1>a. CASE WaitReaps
  BY <1>a DEF WaitReaps, ReapInto, superVars, TrackedAreOurs
<1>b. CASE \/ WaitFindsNothing \/ KillExpired \/ BeginReload \/ AllRemoved
           \/ LeaveUnchanged \/ StartNew \/ EndReload \/ BeginShutdown \/ GraceOver
           \/ UNCHANGED vars
  BY <1>b DEF WaitFindsNothing, KillExpired, BeginReload, AllRemoved, LeaveUnchanged,
              StartNew, EndReload, BeginShutdown, GraceOver, superVars, kernelVars,
              TrackedAreOurs, vars
<1>c. CASE IgnoreExit
  BY <1>c DEF IgnoreExit, superVars, kernelVars, TrackedAreOurs
<1>d. CASE Halt \/ StayDown \/ GiveUp
  <2>1. PICK r \in reaped :
          /\ services' = Without(r.pid) /\ reaped' = {}
          /\ UNCHANGED <<alive, zombie, main, group, victim>>
          /\ pc = "exit"
    BY <1>d DEF Halt, StayDown, GiveUp, Exited
  <2>2. /\ DOMAIN services' = DOMAIN services \ {r.pid}
        /\ \A q \in DOMAIN services' : services'[q] = services[q]
    BY <1>0, <2>1
  <2> QED
    BY <2>1, <2>2 DEF TrackedAreOurs
<1>e. CASE Restart
  <2>1. PICK r \in reaped :
          /\ SpawnWithHistory(Without(r.pid), RestartedOf(services[r.pid]))
          /\ reaped' = {} /\ pc = "exit"
          /\ UNCHANGED <<zombie, victim>>
    BY <1>e DEF Restart, Exited
  <2>2. OursIn(Without(r.pid))
    <3> SUFFICES ASSUME NEW q \in DOMAIN services, q # r.pid
                 PROVE  /\ q \in (alive \cup zombie) \cap main
                        /\ q \in alive => group[q] = Without(r.pid)[q].def.name
      BY DEF OursIn, Without, Restrict
    <3>1. Without(r.pid)[q] = services[q]
      BY DEF Without, Restrict
    <3> QED
      BY <2>1, <3>1 DEF TrackedAreOurs
  <2>3. TrackedAreOurs' /\ (alive \cap zombie = {})'
    BY <2>1, <2>2, SpawnOurs
  <2> QED
    BY <2>1, <2>3
<1>f. CASE RemoveOne \/ ReplaceChanged
  <2>1. PICK p \in Tracked :
          /\ victim' = {[pid |-> p, name |-> services[p].def.name]}
          /\ services' = Without(p)
          /\ pc' \in {"stop_removed", "stop_changed"}
          /\ pc \in {"remove", "reconcile"}
          /\ UNCHANGED <<alive, zombie, main, group, reaped>>
    BY <1>f DEF RemoveOne, ReplaceChanged, kernelVars
  <2>2. /\ DOMAIN services' = DOMAIN services \ {p}
        /\ \A q \in DOMAIN services' : services'[q] = services[q]
    BY <1>0, <2>1
  <2> QED
    BY <2>1, <2>2 DEF TrackedAreOurs
<1>g. CASE StopRemoved \/ StopChanged
  <2>1. PICK v \in victim :
          /\ \/ zombie' = zombie \ {v.pid} /\ main' = main \ {v.pid}
             \/ UNCHANGED <<zombie, main>>
          /\ victim' = {} /\ services' = services
          /\ UNCHANGED <<alive, group, reaped>>
          /\ pc \in {"stop_removed", "stop_changed"}
    BY <1>g DEF StopRemoved, StopChanged, StopOne, ReapInto
  <2> QED
    BY <1>1, <2>1 DEF TrackedAreOurs, OursIn
<1>h. CASE StartOne
  <2>1. /\ SpawnWithHistory(services, Fresh(Head(queue), {}, {}, 0))
        /\ pc = "start"
        /\ UNCHANGED <<zombie, reaped, victim>>
    BY <1>h DEF StartOne
  <2>2. TrackedAreOurs' /\ (alive \cap zombie = {})'
    BY <1>1, <2>1, SpawnOurs
  <2> QED
    BY <2>1, <2>2
<1>i. CASE GraceReap
  <2>1. PICK p \in zombie : /\ zombie' = zombie \ {p} /\ main' = main \ {p}
                            /\ services' = Without(p)
                            /\ UNCHANGED <<pc, reaped, victim, alive, group>>
    BY <1>i DEF GraceReap, ReapInto
  <2>2. /\ DOMAIN services' = DOMAIN services \ {p}
        /\ \A q \in DOMAIN services' : services'[q] = services[q]
    BY <1>0, <2>1
  <2> QED
    BY <2>1, <2>2 DEF TrackedAreOurs
<1>j. CASE \E p \in Pids : Exit(p) \/ DieOfKill(p)
  <2>1. PICK p \in alive : /\ alive' = alive \ {p} /\ zombie' = zombie \cup {p}
                           /\ group' = [group EXCEPT ![p] = Nowhere]
                           /\ UNCHANGED <<services, pc, reaped, victim, main>>
    BY <1>j DEF Exit, DieOfKill, Die, superVars, threadVars
  <2> QED
    BY <2>1 DEF TrackedAreOurs
<1>k. CASE \E p \in Pids : Fork(p)
  <2>1. PICK p \in Pids, q \in FreePids :
          /\ alive' = alive \cup {q} /\ group' = [group EXCEPT ![q] = group[p]]
          /\ UNCHANGED <<services, pc, reaped, victim, main, zombie>>
    BY <1>k DEF Fork, superVars, threadVars
  <2> QED
    BY <2>1 DEF TrackedAreOurs, FreePids
<1>l. CASE (\E p \in Pids : Ping(p)) \/ Tick
  BY <1>l DEF Ping, Tick, superVars, threadVars, kernelVars, TrackedAreOurs
<1> QED
  BY <1>a, <1>b, <1>c, <1>d, <1>e, <1>f, <1>g, <1>h, <1>i, <1>j, <1>k, <1>l
     DEF Next, Proceed, Request, Processes

LEMMA OursInit == Init => OursInv
<1> SUFFICES ASSUME Init PROVE OursInv
  OBVIOUS
<1>1. Tracked = alive /\ main = alive /\ zombie = {} /\ reaped = {} /\ victim = {}
  BY DEF Init, Tracked
<1>2. \A p \in Tracked : group[p] = services[p].def.name
  BY <1>1, TypeInit DEF Init, TypeOK
<1> QED
  BY <1>1, <1>2 DEF OursInv, TrackedAreOurs

\* Whatever the processes do and however pids are recycled, a pid in the
\* service table is a child the supervisor started and has not reaped, save
\* for the one handle_exit is about to remove.
THEOREM TrackedAreOursHolds == Spec => []TrackedAreOurs
<1>1. OursInv => TrackedAreOurs
  BY DEF OursInv
<1> QED
  BY <1>1, OursInit, OursStep, TypeCorrect, PTL DEF Spec

-----------------------------------------------------------------------------
(* Processes, cgroups and the main thread's place: what NoStrays,          *)
(* OneInstance and NoFriendlyFire rest on.                                 *)

GroundInv ==
    /\ \A p \in Pids \ alive : group[p] = Nowhere
    /\ main \subseteq alive \cup zombie
    /\ \A v, w \in victim : v = w
    /\ \A r \in reaped : r.pid \notin main
    /\ \A v \in victim : /\ v.pid \in (alive \cup zombie) \cap main
                         /\ v.pid \in alive => group[v.pid] = v.name
    /\ names # {} => pc \in {"grace", "acked"}
    /\ pc = "grace" => \A p \in Tracked : services[p].def.name \in names
    /\ pc \in {"stop_changed", "start"} => queue # << >>
    /\ pc = "stop_changed" => \A v \in victim : v.name = Head(queue).name
    /\ \A p \in (alive \cap main) \ doomed : p \in Tracked \/ \E v \in victim : v.pid = p

\* A child p has come, with at most a child of its own, and is in the table as s.
Came(table, p, early, s) ==
    /\ p \in Pids \ (alive \cup zombie)
    /\ early \subseteq Pids \ (alive \cup zombie \cup {p})
    /\ alive' = alive \cup {p} \cup early /\ main' = main \cup {p}
    /\ DOMAIN services' = DOMAIN table \cup {p} /\ services'[p] = s
    /\ \A q \in DOMAIN table : q # p => services'[q] = table[q]
    /\ group'[p] = s.def.name /\ \A q \in Pids : q # p => group'[q] = group[q]

\* The outcomes of spawn_with_history, in those terms.
SpawnOutcome(table, sup) ==
    \/ services' = table /\ UNCHANGED <<alive, main, group>>
    \/ \E p, early : Came(table, p, early, sup)
    \/ \E p, early : Came(table, p, early, Fresh(fallback_shell, {}, {}, 0))

LEMMA SpawnOutcomes ==
  ASSUME TypeOK, NEW table, NEW sup, SpawnWithHistory(table, sup)
  PROVE  SpawnOutcome(table, sup)
<1>1. ASSUME NEW p \in Pids, NEW early \in SUBSET Pids, NEW s, Started(table, p, early, s)
      PROVE  Came(table, p, early, s)
  BY <1>1 DEF Started, Came, With, FreePids, TypeOK
<1>2. CASE SpawnOk(table, sup)
  BY <1>1, <1>2 DEF SpawnOk, SpawnOutcome
<1>3. CASE SpawnFails(table)
  BY <1>3 DEF SpawnFails, SpawnOutcome
<1>4. CASE FallBackToShell(table, sup.def)
  <2>1. PICK p \in Pids : Started(table, p, {}, Fresh(fallback_shell, {}, {}, 0))
    BY <1>4 DEF FallBackToShell
  <2>2. Came(table, p, {}, Fresh(fallback_shell, {}, {}, 0))
    BY <1>1, <2>1
  <2> QED
    BY <2>2 DEF SpawnOutcome
<1> QED
  BY <1>2, <1>3, <1>4 DEF SpawnWithHistory

\* What Restart and StartOne have in common: spawn_with_history on a table
\* that has lost at most the pid just reaped.
Spawning(table, sup) ==
    /\ SpawnOutcome(table, sup)
    /\ DOMAIN table \subseteq Tracked /\ \A q \in DOMAIN table : table[q] = services[q]
    /\ \A q \in Tracked : q \in DOMAIN table <=> \A r \in reaped : r.pid # q
    /\ reaped' = {} /\ UNCHANGED <<zombie, victim, names>>
    /\ sup.def \in Defs /\ pc \in {"exit", "start"} /\ pc' \in {"loop", "reconcile"}

LEMMA RestartSpawns ==
  ASSUME TypeOK, OursInv, Restart
  PROVE  \E r \in reaped :
            /\ r.pid \in Tracked /\ pc = "exit" /\ pc' = "loop"
            /\ Spawning(Without(r.pid), RestartedOf(services[r.pid]))
            /\ RestartedOf(services[r.pid]).def = services[r.pid].def
            /\ DOMAIN Without(r.pid) = Tracked \ {r.pid}
            /\ doomed' = doomed \cup InGroup(services[r.pid].def.name)
            /\ UNCHANGED <<queue, goal, kept, removing>>
<1>1. PICK r \in reaped : /\ Exited(r)
                          /\ SpawnWithHistory(Without(r.pid), RestartedOf(services[r.pid]))
                          /\ pc' = "loop"
  BY DEF Restart
<1>2. SpawnOutcome(Without(r.pid), RestartedOf(services[r.pid]))
  BY <1>1, SpawnOutcomes
<1>3. RestartedOf(services[r.pid]).def = services[r.pid].def
  BY DEF RestartedOf, Fresh
<1>4. r.pid \in Tracked /\ services[r.pid].def \in Defs
  BY <1>1 DEF Exited, TypeOK, Supervised
<1>5. DOMAIN Without(r.pid) = Tracked \ {r.pid}
      /\ \A q \in Tracked \ {r.pid} : Without(r.pid)[q] = services[q]
  BY DEF Without, Restrict, Tracked
<1>6. Spawning(Without(r.pid), RestartedOf(services[r.pid]))
  BY <1>1, <1>2, <1>3, <1>4, <1>5 DEF Spawning, Exited, OursInv
<1> QED
  BY <1>1, <1>3, <1>4, <1>5, <1>6 DEF Exited

LEMMA StartOneSpawns ==
  ASSUME TypeOK, StartOne, reaped = {}
  PROVE  /\ Spawning(services, Fresh(Head(queue), {}, {}, 0))
         /\ Fresh(Head(queue), {}, {}, 0).def = Head(queue)
         /\ pc = "start" /\ pc' = "reconcile" /\ queue # << >> /\ queue' = Tail(queue)
         /\ UNCHANGED <<doomed, goal, kept, removing>>
<1>1. SpawnOutcome(services, Fresh(Head(queue), {}, {}, 0))
  BY SpawnOutcomes DEF StartOne
<1>2. Head(queue) \in Defs
  BY DEF StartOne, TypeOK
<1>3. Fresh(Head(queue), {}, {}, 0).def = Head(queue)
  BY DEF Fresh
<1> QED
  BY <1>1, <1>2, <1>3 DEF StartOne, Spawning, Tracked

\* GroundInv through a spawn.
LEMMA GroundSpawn ==
  ASSUME TypeOK, OursInv, GroundInv, NEW table, NEW sup, Spawning(table, sup),
         doomed \subseteq doomed'
  PROVE  GroundInv'
<1> USE DEF GroundInv, Tracked
<1>0. victim = {} /\ victim' = {} /\ reaped' = {} /\ names = {} /\ names' = {}
  BY DEF Spawning, OursInv
<1>1. \A p \in (alive \cap main) \ doomed : p \in DOMAIN table
  BY <1>0 DEF Spawning
<1>2. CASE services' = table /\ UNCHANGED <<alive, main, group>>
  BY <1>0, <1>1, <1>2 DEF Spawning
<1>3. ASSUME NEW p, NEW early, NEW s, Came(table, p, early, s)
      PROVE  GroundInv'
  <2>1. \A q \in Pids \ alive' : group'[q] = Nowhere
    BY <1>3 DEF Came
  <2>2. main \subseteq Pids
    BY DEF TypeOK
  <2>3. \A q \in (alive' \cap main') \ doomed' : q \in DOMAIN services'
    <3> SUFFICES ASSUME NEW q \in (alive' \cap main') \ doomed', q # p PROVE q \in DOMAIN table
      BY <1>3 DEF Came
    <3>1. q \in main /\ q \notin doomed
      BY <1>3 DEF Came
    <3>2. CASE q \in alive
      BY <3>1, <3>2, <1>1
    <3>3. CASE q \in early
      <4>1. q \notin alive \cup zombie
        BY <1>3, <3>3 DEF Came
      <4> QED
        BY <4>1, <3>1
    <3> QED
      BY <1>3, <3>2, <3>3 DEF Came
  <2>4. main' \subseteq alive' \cup zombie'
    BY <1>3 DEF Came, Spawning
  <2> QED
    BY <1>0, <2>1, <2>3, <2>4 DEF Spawning
<1> QED
  BY <1>2, <1>3 DEF Spawning, SpawnOutcome

LEMMA GroundStep ==
  ASSUME TypeOK, OursInv, GroundInv, [Next]_vars
  PROVE  GroundInv'
<1> USE DEF TypeOK, GroundInv, Tracked
<1>0. ASSUME NEW p PROVE /\ DOMAIN Without(p) = DOMAIN services \ {p}
                         /\ \A q \in DOMAIN services \ {p} : Without(p)[q] = services[q]
  BY DEF Without, Restrict, Tracked
<1>a. CASE WaitReaps
  <2>1. PICK p \in zombie : ReapInto(p) /\ reaped' = {[pid |-> p, ok |-> p \in clean]}
    BY <1>a DEF WaitReaps
  <2>2. /\ pc = "loop" /\ pc' = "expire" /\ UNCHANGED <<services, victim, names, queue, alive, doomed, group>>
        /\ zombie' = zombie \ {p} /\ main' = main \ {p}
    BY <1>a, <2>1 DEF WaitReaps, ReapInto, superVars
  <2>3. victim = {}
    BY <2>2 DEF OursInv
  <2> QED
    BY <2>1, <2>2, <2>3
<1>b. CASE \/ WaitFindsNothing \/ IgnoreExit \/ BeginReload \/ AllRemoved
           \/ LeaveUnchanged \/ StartNew \/ EndReload
  BY <1>b DEF WaitFindsNothing, IgnoreExit, BeginReload, AllRemoved, LeaveUnchanged,
              StartNew, EndReload, superVars, kernelVars, OursInv
<1>c. CASE KillExpired
  BY <1>c DEF KillExpired, superVars
<1>d. CASE Halt \/ StayDown \/ GiveUp
  <2>1. PICK r \in reaped :
          /\ services' = Without(r.pid) /\ reaped' = {} /\ pc = "exit" /\ pc' \in {"loop", "halt"}
          /\ doomed \subseteq doomed'
          /\ UNCHANGED <<alive, zombie, main, group, victim, names, queue>>
    BY <1>d DEF Halt, StayDown, GiveUp, Exited
  <2>2. DOMAIN services' = DOMAIN services \ {r.pid} /\ r.pid \notin main
    BY <1>0, <2>1
  <2> QED
    BY <2>1, <2>2
<1>e. CASE Restart
  <2>1. \E r \in reaped : /\ Spawning(Without(r.pid), RestartedOf(services[r.pid]))
                          /\ doomed \subseteq doomed'
    BY <1>e, RestartSpawns
  <2> QED
    BY <2>1, GroundSpawn
<1>f. CASE RemoveOne \/ ReplaceChanged
  <2>1. PICK p \in DOMAIN services :
          /\ victim' = {[pid |-> p, name |-> services[p].def.name]}
          /\ services' = Without(p)
          /\ pc \in {"remove", "reconcile"}
          /\ \/ pc' = "stop_removed"
             \/ pc' = "stop_changed" /\ queue # << >> /\ services[p].def.name = Head(queue).name
          /\ UNCHANGED <<alive, zombie, main, group, reaped, doomed, names, queue>>
    BY <1>f DEF RemoveOne, ReplaceChanged, Same, kernelVars
  <2>2. DOMAIN services' = DOMAIN services \ {p}
    BY <1>0, <2>1
  <2>3. victim = {} /\ reaped = {} /\ names = {}
    BY <2>1 DEF OursInv
  <2>4. p \in (alive \cup zombie) \cap main /\ (p \in alive => group[p] = services[p].def.name)
    BY <2>1, <2>3 DEF OursInv, TrackedAreOurs
  <2>5. \A v \in victim' : v.pid = p /\ v.name = services[p].def.name
    BY <2>1
  <2>6. \E v \in victim' : v.pid = p
    BY <2>1
  <2>7. \A v, w \in victim' : v = w
    BY <2>1
  <2>8. \A q \in (alive' \cap main') \ doomed' : q \in DOMAIN services' \/ \E v \in victim' : v.pid = q
    BY <2>1, <2>2, <2>3, <2>6
  <2> QED
    BY <2>1, <2>3, <2>4, <2>5, <2>7, <2>8
<1>g. CASE StopRemoved \/ StopChanged
  <2>1. PICK v \in victim :
          /\ \/ v.pid \in zombie /\ zombie' = zombie \ {v.pid} /\ main' = main \ {v.pid}
             \/ UNCHANGED <<zombie, main>>
          /\ victim' = {} /\ services' = services
          /\ doomed' = doomed \cup InGroup(v.name) \cup ({v.pid} \cap alive)
          /\ UNCHANGED <<alive, group, reaped, names, queue>>
          /\ pc \in {"stop_removed", "stop_changed"}
          /\ pc' = IF pc = "stop_changed" THEN "start" ELSE "remove"
    BY <1>g DEF StopRemoved, StopChanged, StopOne, ReapInto
  <2>2. \A q \in (alive' \cap main') \ doomed' : q \in DOMAIN services'
    BY <2>1
  <2> QED
    BY <2>1, <2>2
<1>h. CASE StartOne
  <2>1. reaped = {}
    BY <1>h DEF StartOne, OursInv
  <2> QED
    BY <1>h, <2>1, StartOneSpawns, GroundSpawn
<1>i. CASE BeginShutdown
  <2>1. names' = {services[p].def.name : p \in DOMAIN services} /\ pc' = "grace"
        /\ pc \in {"loop", "halt"}
        /\ UNCHANGED <<services, reaped, queue, victim, alive, zombie, doomed, main, group>>
    BY <1>i DEF BeginShutdown, TrackedNames, superVars, kernelVars
  <2> QED
    BY <2>1
<1>j. CASE GraceReap
  <2>1. PICK p \in zombie : /\ zombie' = zombie \ {p} /\ main' = main \ {p}
                            /\ services' = Without(p)
                            /\ pc = "grace" /\ UNCHANGED <<pc, reaped, victim, names, queue, alive, group, doomed>>
    BY <1>j DEF GraceReap, ReapInto
  <2>2. /\ DOMAIN services' = DOMAIN services \ {p}
        /\ \A q \in DOMAIN services' : services'[q] = services[q]
    BY <2>1 DEF Without, Restrict
  <2>3. victim = {}
    BY <2>1 DEF OursInv
  <2> QED
    BY <2>1, <2>2, <2>3
<1>k. CASE GraceOver
  BY <1>k DEF GraceOver, OursInv
<1>l. CASE \E p \in Pids : Exit(p) \/ DieOfKill(p)
  <2>1. PICK p \in alive : /\ alive' = alive \ {p} /\ zombie' = zombie \cup {p}
                           /\ doomed' = doomed \ {p}
                           /\ group' = [group EXCEPT ![p] = Nowhere]
                           /\ UNCHANGED <<services, pc, reaped, victim, main, names, queue>>
    BY <1>l DEF Exit, DieOfKill, Die, superVars, threadVars
  <2> QED
    BY <2>1
<1>m. CASE \E p \in Pids : Fork(p)
  <2>1. PICK p \in Pids, q \in FreePids :
          /\ alive' = alive \cup {q} /\ group' = [group EXCEPT ![q] = group[p]]
          /\ UNCHANGED <<services, pc, reaped, victim, main, zombie, doomed, names, queue>>
    BY <1>m DEF Fork, superVars, threadVars
  <2>2. q \notin alive \cup zombie /\ q \notin main
    BY <2>1 DEF FreePids
  <2> QED
    BY <2>1, <2>2
<1>n. CASE (\E p \in Pids : Ping(p)) \/ Tick \/ UNCHANGED vars
  BY <1>n DEF Ping, Tick, superVars, threadVars, kernelVars, vars
<1> QED
  BY <1>a, <1>b, <1>c, <1>d, <1>e, <1>f, <1>g, <1>h, <1>i, <1>j, <1>k, <1>l, <1>m, <1>n
     DEF Next, Proceed, Request, Processes

LEMMA GroundInit == Init => GroundInv
<1> SUFFICES ASSUME Init PROVE GroundInv
  OBVIOUS
<1>1. Tracked = alive /\ main = alive /\ zombie = {} /\ reaped = {} /\ victim = {} /\ names = {}
      /\ pc = "loop"
  BY DEF Init, Tracked
<1>2. \A p \in Pids \ alive : group[p] = Nowhere
  BY DEF Init
<1> QED
  BY <1>1, <1>2 DEF GroundInv

-----------------------------------------------------------------------------
(* Strays: nothing runs in the cgroup of a service that is gone.           *)

\* Whose cgroup n is: a tracked service's, the victim's, or one that
\* shutdown_all will kill.
Watched(n) ==
    (\E q \in Tracked : services[q].def.name = n) \/ (\E v \in victim : v.name = n) \/ n \in names

StrayInv == \A p \in alive \ doomed : group[p] # Nowhere => pc # "acked" /\ Watched(group[p])

LEMMA StraySpawn ==
  ASSUME TypeOK, OursInv, GroundInv, StrayInv, NEW table, NEW sup, Spawning(table, sup),
         doomed \subseteq doomed',
         \A q \in Tracked \ DOMAIN table : InGroup(services[q].def.name) \subseteq doomed'
  PROVE  StrayInv'
<1> USE DEF Tracked
<1>1. pc' # "acked" /\ victim = {} /\ victim' = {} /\ names = {}
  BY DEF Spawning, OursInv, GroundInv
<1>2. ASSUME NEW p \in alive \ doomed', group[p] # Nowhere
      PROVE  \E q \in DOMAIN table : table[q].def.name = group[p]
  <2>1. PICK q \in DOMAIN services : services[q].def.name = group[p]
    BY <1>1, <1>2 DEF StrayInv, Watched
  <2>2. q \in DOMAIN table
    BY <1>2, <2>1 DEF InGroup
  <2> QED
    BY <2>1, <2>2 DEF Spawning
<1>3. CASE services' = table /\ UNCHANGED <<alive, main, group>>
  BY <1>1, <1>2, <1>3 DEF StrayInv, Watched
<1>4. ASSUME NEW p, NEW early, NEW s, Came(table, p, early, s) PROVE StrayInv'
  <2>1. p \notin DOMAIN table
    <3>1. \A q \in DOMAIN table : q \in alive \cup zombie \/ \E r \in reaped : r.pid = q
      BY DEF OursInv, TrackedAreOurs, Spawning
    <3> QED
      BY <1>4, <3>1 DEF Came, Spawning
  <2> SUFFICES ASSUME NEW q \in alive' \ doomed', group'[q] # Nowhere
               PROVE  \E o \in DOMAIN services' : services'[o].def.name = group'[q]
    BY <1>1 DEF StrayInv, Watched
  <2>2. CASE q = p
    BY <1>4, <2>2 DEF Came
  <2>3. CASE q # p
    <3>1. q \in Pids /\ group'[q] = group[q]
      BY <1>4, <2>3 DEF Came, TypeOK
    <3>2. q \in alive
      BY <1>4, <2>3, <3>1 DEF Came, GroundInv
    <3> QED
      BY <1>2, <1>4, <2>1, <3>1, <3>2 DEF Came
  <2> QED
    BY <2>2, <2>3
<1> QED
  BY <1>3, <1>4 DEF Spawning, SpawnOutcome

LEMMA StrayStep ==
  ASSUME TypeOK, OursInv, GroundInv, StrayInv, [Next]_vars
  PROVE  StrayInv'
<1> USE DEF StrayInv, Watched, Tracked
<1>a. CASE WaitReaps \/ WaitFindsNothing \/ IgnoreExit \/ KillExpired \/ BeginReload \/ AllRemoved
           \/ LeaveUnchanged \/ StartNew \/ EndReload \/ (\E p \in Pids : Ping(p)) \/ Tick
           \/ UNCHANGED vars
  <2>1. /\ UNCHANGED <<services, victim, names, alive, group>> /\ doomed \subseteq doomed'
        /\ pc' = "acked" => pc = "acked"
    BY <1>a DEF WaitReaps, WaitFindsNothing, IgnoreExit, KillExpired, BeginReload, AllRemoved,
                LeaveUnchanged, StartNew, EndReload, Ping, Tick, superVars, threadVars,
                kernelVars, vars
  <2> QED
    BY <2>1
<1>b. CASE Halt \/ StayDown \/ GiveUp
  <2>1. PICK r \in reaped :
          /\ services' = Without(r.pid) /\ pc' \in {"loop", "halt"}
          /\ doomed' = doomed \cup InGroup(services[r.pid].def.name)
          /\ UNCHANGED <<alive, group, victim, names>>
    BY <1>b DEF Halt, StayDown, GiveUp, Exited
  <2>2. /\ DOMAIN services' = DOMAIN services \ {r.pid}
        /\ \A q \in DOMAIN services' : services'[q] = services[q]
    BY <2>1 DEF Without, Restrict
  <2> QED
    BY <2>1, <2>2 DEF InGroup
<1>c. CASE Restart
  <2>1. PICK r \in reaped :
          /\ Spawning(Without(r.pid), RestartedOf(services[r.pid]))
          /\ DOMAIN Without(r.pid) = Tracked \ {r.pid}
          /\ doomed' = doomed \cup InGroup(services[r.pid].def.name)
    BY <1>c, RestartSpawns
  <2>2. \A q \in Tracked \ DOMAIN Without(r.pid) : InGroup(services[q].def.name) \subseteq doomed'
    BY <2>1
  <2> QED
    BY <2>1, <2>2, StraySpawn
<1>d. CASE RemoveOne \/ ReplaceChanged
  <2>1. PICK p \in DOMAIN services :
          /\ victim' = {[pid |-> p, name |-> services[p].def.name]}
          /\ services' = Without(p)
          /\ pc \in {"remove", "reconcile"} /\ pc' \in {"stop_removed", "stop_changed"}
          /\ UNCHANGED <<alive, group, doomed, names>>
    BY <1>d DEF RemoveOne, ReplaceChanged, kernelVars
  <2>2. /\ DOMAIN services' = DOMAIN services \ {p}
        /\ \A q \in DOMAIN services' : services'[q] = services[q]
    BY <2>1 DEF Without, Restrict
  <2>3. victim = {} /\ \E v \in victim' : v.name = services[p].def.name
    BY <2>1 DEF OursInv
  <2> QED
    BY <2>1, <2>2, <2>3
<1>e. CASE StopRemoved \/ StopChanged
  <2>1. PICK v \in victim :
          /\ doomed' = doomed \cup InGroup(v.name) \cup ({v.pid} \cap alive)
          /\ UNCHANGED <<services, alive, group, names>> /\ pc' \in {"start", "remove"}
    BY <1>e DEF StopRemoved, StopChanged, StopOne
  <2>2. \A w \in victim : w = v
    BY <2>1 DEF GroundInv
  <2> QED
    BY <2>1, <2>2 DEF InGroup
<1>f. CASE StartOne
  <2>1. reaped = {}
    BY <1>f DEF StartOne, OursInv
  <2>2. Spawning(services, Fresh(Head(queue), {}, {}, 0)) /\ UNCHANGED doomed
    BY <1>f, <2>1, StartOneSpawns
  <2> QED
    BY <2>2, StraySpawn
<1>g. CASE BeginShutdown
  <2>1. names = {} /\ UNCHANGED <<services, victim, alive, group, doomed>> /\ pc' = "grace"
    BY <1>g DEF BeginShutdown, GroundInv, superVars, kernelVars
  <2> QED
    BY <2>1
<1>h. CASE GraceReap
  <2>1. PICK p \in zombie : /\ services' = Without(p) /\ pc = "grace"
                            /\ UNCHANGED <<pc, victim, names, alive, group, doomed>>
    BY <1>h DEF GraceReap
  <2>2. victim = {} /\ \A q \in DOMAIN services : services[q].def.name \in names
    BY <2>1 DEF OursInv, GroundInv
  <2> QED
    BY <2>1, <2>2
<1>i. CASE GraceOver
  <2>1. /\ pc = "grace" /\ UNCHANGED <<alive, group>>
        /\ doomed' = doomed \cup (Tracked \cap alive) \cup {p \in alive : group[p] \in names}
    BY <1>i DEF GraceOver
  <2>2. victim = {} /\ \A q \in DOMAIN services : services[q].def.name \in names
    BY <2>1 DEF OursInv, GroundInv
  <2>3. \A p \in alive \ doomed : group[p] # Nowhere => group[p] \in names
    BY <2>2
  <2>4. \A p \in alive \ doomed' : group[p] = Nowhere
    BY <2>1, <2>3
  <2> QED
    BY <2>1, <2>4
<1>j. CASE \E p \in Pids : Exit(p) \/ DieOfKill(p)
  <2>1. PICK p \in alive : /\ alive' = alive \ {p} /\ doomed' = doomed \ {p}
                           /\ group' = [group EXCEPT ![p] = Nowhere]
                           /\ UNCHANGED <<services, pc, victim, names>>
    BY <1>j DEF Exit, DieOfKill, Die, superVars, threadVars
  <2> QED
    BY <2>1 DEF TypeOK
<1>k. CASE \E p \in Pids : Fork(p)
  <2>1. PICK p \in alive \ doomed, q \in FreePids :
          /\ alive' = alive \cup {q} /\ group' = [group EXCEPT ![q] = group[p]]
          /\ UNCHANGED <<services, pc, victim, doomed, names>>
    BY <1>k DEF Fork, superVars, threadVars
  <2> QED
    BY <2>1 DEF TypeOK, FreePids
<1> QED
  BY <1>a, <1>b, <1>c, <1>d, <1>e, <1>f, <1>g, <1>h, <1>i, <1>j, <1>k
     DEF Next, Proceed, Request, Processes

LEMMA GroundInductive == Spec => [](TypeOK /\ OursInv /\ GroundInv)
<1>1. TypeOK /\ OursInv /\ GroundInv /\ [Next]_vars => GroundInv'
  BY GroundStep
<1> QED
  BY <1>1, OursInit, GroundInit, OursStep, TypeCorrect, PTL DEF Spec

\* cgroups.rs: however services fork, exit, are restarted, reloaded or shut
\* down, what runs in a service's cgroup belongs to a service still tracked or
\* being stopped, or has been sent SIGKILL; after shutdown_all nothing else runs.
THEOREM NoStraysHolds == Spec => []NoStrays
<1>1. Init => StrayInv
  <2> SUFFICES ASSUME Init PROVE StrayInv
    OBVIOUS
  <2>1. Tracked = alive /\ pc = "loop"
    BY DEF Init, Tracked
  <2>2. \A p \in Tracked : group[p] = services[p].def.name
    BY <2>1, TypeInit DEF Init, TypeOK
  <2> QED
    BY <2>1, <2>2 DEF StrayInv, Watched
<1>2. StrayInv => NoStrays
  BY DEF StrayInv, Watched, NoStrays, TrackedNames
<1>3. TypeOK /\ OursInv /\ GroundInv /\ StrayInv /\ [Next]_vars => StrayInv'
  BY StrayStep
<1> QED
  BY <1>1, <1>2, <1>3, GroundInductive, PTL DEF Spec

-----------------------------------------------------------------------------
(* One process for each name.  merge_services drops a unit file's service  *)
(* whose name is taken, but two lines of init.conf may carry one name, and *)
(* spawn_all starts both: the theorems below are about a boot without      *)
(* such a pair.  Reloads keep names apart whatever they are given.         *)

BootNamesDistinct == \A c, d \in BootDefs : c.name = d.name /\ c.name # Shell => c = d

\* Rescue shells aside, no two tracked services have one name, and none has
\* the victim's or the one about to be started.
UniqueInv ==
    /\ \A p, q \in Tracked :
        services[p].def.name = services[q].def.name /\ services[p].def.name # Shell => p = q
    /\ \A v \in victim : \A p \in Tracked : services[p].def.name = v.name => v.name = Shell
    /\ pc = "start" => \A p \in Tracked :
        services[p].def.name = Head(queue).name => services[p].def.name = Shell

\* A table that spawn_with_history is called with has only pids of ours.
LEMMA TableOurs ==
  ASSUME OursInv, NEW table, NEW sup, Spawning(table, sup)
  PROVE  OursIn(table)
  BY DEF OursInv, TrackedAreOurs, Spawning, OursIn

\* Uniqueness through a spawn of a name that no other tracked service has.
LEMMA UniqueSpawn ==
  ASSUME TypeOK, OursInv, GroundInv, UniqueInv, NEW table, NEW sup, Spawning(table, sup),
         \A q \in DOMAIN table : table[q].def.name = sup.def.name => sup.def.name = Shell
  PROVE  UniqueInv'
<1> USE DEF UniqueInv, Tracked
<1>1. victim' = {} /\ pc' # "start"
  BY DEF Spawning, OursInv
<1>2. \A p, q \in DOMAIN table : table[p].def.name = table[q].def.name
                                  /\ table[p].def.name # Shell => p = q
  BY DEF Spawning
<1>3. CASE services' = table
  BY <1>1, <1>2, <1>3
<1>4. ASSUME NEW p, NEW early, NEW s, Came(table, p, early, s),
             \A q \in DOMAIN table : table[q].def.name = s.def.name => s.def.name = Shell
      PROVE  UniqueInv'
  <2>1. p \notin DOMAIN table
    BY <1>4, TableOurs DEF OursIn, Came
  <2>2. services'[p] = s /\ DOMAIN services' = DOMAIN table \cup {p}
        /\ \A q \in DOMAIN table : services'[q] = table[q]
    BY <1>4, <2>1 DEF Came
  <2> QED
    BY <1>1, <1>2, <1>4, <2>1, <2>2
<1>5. Fresh(fallback_shell, {}, {}, 0).def.name = Shell
  BY DEF Fresh, fallback_shell
<1> QED
  BY <1>3, <1>4, <1>5 DEF Spawning, SpawnOutcome

LEMMA UniqueStep ==
  ASSUME TypeOK, OursInv, GroundInv, UniqueInv, [Next]_vars
  PROVE  UniqueInv'
<1> USE DEF UniqueInv, Tracked
<1>a. CASE WaitReaps \/ WaitFindsNothing \/ IgnoreExit \/ KillExpired \/ BeginReload \/ AllRemoved
           \/ LeaveUnchanged \/ EndReload \/ BeginShutdown \/ GraceOver \/ Processes \/ Tick
           \/ UNCHANGED vars
  <2>1. UNCHANGED <<services, victim>> /\ (pc' = "start" => pc = "start" /\ UNCHANGED queue)
    BY <1>a DEF WaitReaps, WaitFindsNothing, IgnoreExit, KillExpired, BeginReload, AllRemoved,
                LeaveUnchanged, EndReload, BeginShutdown, GraceOver, Processes, Exit, DieOfKill,
                Die, Fork, Ping, Tick, superVars, threadVars, vars
  <2> QED
    BY <2>1
<1>b. CASE Halt \/ StayDown \/ GiveUp \/ GraceReap
  <2>1. PICK p : services' = Without(p) /\ pc' # "start" /\ UNCHANGED victim
    BY <1>b DEF Halt, StayDown, GiveUp, Exited, GraceReap
  <2>2. /\ DOMAIN services' = DOMAIN services \ {p}
        /\ \A q \in DOMAIN services' : services'[q] = services[q]
    BY <2>1 DEF Without, Restrict
  <2> QED
    BY <2>1, <2>2
<1>c. CASE Restart
  <2>1. PICK r \in reaped :
          /\ r.pid \in Tracked
          /\ Spawning(Without(r.pid), RestartedOf(services[r.pid]))
          /\ RestartedOf(services[r.pid]).def = services[r.pid].def
          /\ DOMAIN Without(r.pid) = Tracked \ {r.pid}
    BY <1>c, RestartSpawns
  <2>2. \A q \in DOMAIN Without(r.pid) :
            Without(r.pid)[q].def.name = services[r.pid].def.name => services[r.pid].def.name = Shell
    BY <2>1 DEF Spawning
  <2> QED
    BY <2>1, <2>2, UniqueSpawn
<1>d. CASE RemoveOne \/ ReplaceChanged
  <2>1. PICK p \in DOMAIN services :
          /\ victim' = {[pid |-> p, name |-> services[p].def.name]}
          /\ services' = Without(p) /\ pc' # "start"
    BY <1>d DEF RemoveOne, ReplaceChanged
  <2>2. /\ DOMAIN services' = DOMAIN services \ {p}
        /\ \A q \in DOMAIN services' : services'[q] = services[q]
    BY <2>1 DEF Without, Restrict
  <2>3. \A v \in victim' : v.name = services[p].def.name
    BY <2>1
  <2> QED
    BY <2>1, <2>2, <2>3
<1>e. CASE StopRemoved \/ StopChanged
  <2>1. PICK v \in victim :
          /\ UNCHANGED <<services, queue>> /\ victim' = {}
          /\ pc' = "start" => pc = "stop_changed"
    BY <1>e DEF StopRemoved, StopChanged, StopOne
  <2> QED
    BY <2>1 DEF GroundInv
<1>f. CASE StartNew
  BY <1>f DEF StartNew, Same, superVars
<1>g. CASE StartOne
  <2>1. reaped = {}
    BY <1>g DEF StartOne, OursInv
  <2>2. /\ Spawning(services, Fresh(Head(queue), {}, {}, 0))
        /\ Fresh(Head(queue), {}, {}, 0).def = Head(queue) /\ pc = "start"
    BY <1>g, <2>1, StartOneSpawns
  <2> QED
    BY <2>2, UniqueSpawn
<1> QED
  BY <1>a, <1>b, <1>c, <1>d, <1>e, <1>f, <1>g DEF Next, Proceed, Request

LEMMA UniqueInit == BootNamesDistinct /\ Init => UniqueInv
<1> SUFFICES ASSUME BootNamesDistinct, Init PROVE UniqueInv
  OBVIOUS
<1>1. PICK S \in SUBSET BootDefs, pid \in [BootDefs -> Pids] :
        /\ \A c, d \in S : pid[c] = pid[d] => c = d
        /\ services = [p \in {pid[d] : d \in S} |->
                         Fresh(CHOOSE d \in S : pid[d] = p, {}, {}, 0)]
  BY DEF Init
<1>2. \A p \in Tracked : services[p].def \in S /\ pid[services[p].def] = p
  <2> SUFFICES ASSUME NEW d \in S
               PROVE  services[pid[d]].def \in S /\ pid[services[pid[d]].def] = pid[d]
    BY <1>1 DEF Tracked
  <2>1. (CHOOSE c \in S : pid[c] = pid[d]) = d
    BY <1>1
  <2>2. services[pid[d]] = Fresh(d, {}, {}, 0)
    BY <1>1, <2>1
  <2> QED
    BY <2>2 DEF Fresh
<1>3. victim = {} /\ pc = "loop"
  BY DEF Init
<1> QED
  BY <1>2, <1>3 DEF UniqueInv, BootNamesDistinct

LEMMA UniqueInductive == BootNamesDistinct => (Spec => []UniqueInv)
<1> SUFFICES ASSUME BootNamesDistinct PROVE Spec => []UniqueInv
  OBVIOUS
<1>1. Init => UniqueInv
  BY UniqueInit
<1>2. TypeOK /\ OursInv /\ GroundInv /\ UniqueInv /\ [Next]_vars => UniqueInv'
  BY UniqueStep
<1> QED
  BY <1>1, <1>2, GroundInductive, PTL DEF Spec

\* Unless two boot definitions share a name, no two processes that the
\* supervisor started for one service run at once, however restarts, reloads,
\* failed spawns and slow deaths come together, until one has been sent SIGKILL.
THEOREM OneInstanceHolds == BootNamesDistinct => (Spec => []OneInstance)
<1> SUFFICES ASSUME BootNamesDistinct PROVE Spec => []OneInstance
  OBVIOUS
<1>1. TypeOK /\ OursInv /\ GroundInv /\ UniqueInv => OneInstance
  <2> SUFFICES ASSUME OursInv, GroundInv, UniqueInv,
                      NEW p \in (alive \cap main) \ doomed, NEW q \in (alive \cap main) \ doomed,
                      group[p] = group[q], group[p] # Shell
               PROVE  p = q
    BY DEF OneInstance
  <2>1. \A o \in (alive \cap main) \ doomed :
          \/ o \in Tracked /\ services[o].def.name = group[o]
          \/ \E v \in victim : v.pid = o /\ v.name = group[o]
    BY DEF OursInv, TrackedAreOurs, GroundInv
  <2> QED
    BY <2>1 DEF UniqueInv, GroundInv
<1> QED
  BY <1>1, UniqueInductive, GroundInductive, PTL

-----------------------------------------------------------------------------
\* NoFriendlyFire through a spawn that dooms at most one cgroup.
LEMMA FireSpawn ==
  ASSUME TypeOK, OursInv, GroundInv, NoFriendlyFire, NEW table, NEW sup, Spawning(table, sup),
         doomed \subseteq doomed', doomed' \subseteq alive,
         \A q \in DOMAIN table : q \in doomed' \ doomed => table[q].def.name = Shell
  PROVE  NoFriendlyFire'
<1> USE DEF NoFriendlyFire, Tracked
<1>1. \A q \in DOMAIN table : q \in DOMAIN services /\ table[q] = services[q] /\ q \in main
  BY TableOurs DEF Spawning, OursIn
<1>2. \A q \in DOMAIN table \cap doomed' :
        table[q].def.watchdog # {} \/ table[q].def.name = Shell
  BY <1>1 DEF Spawning
<1>3. CASE services' = table
  BY <1>2, <1>3
<1>4. ASSUME NEW p, NEW early, NEW s, Came(table, p, early, s) PROVE NoFriendlyFire'
  <2>1. p \notin doomed'
    BY <1>4 DEF Came
  <2>2. \A q \in DOMAIN services' : q # p => q \in DOMAIN table /\ services'[q] = table[q]
    BY <1>4 DEF Came
  <2> QED
    BY <1>2, <2>1, <2>2
<1> QED
  BY <1>3, <1>4 DEF Spawning, SpawnOutcome

LEMMA FireStep ==
  ASSUME TypeOK, OursInv, GroundInv, UniqueInv, NoFriendlyFire, [Next]_vars
  PROVE  NoFriendlyFire'
<1> USE DEF NoFriendlyFire, Tracked
<1>0. \A p \in DOMAIN services \cap main \cap alive : group[p] = services[p].def.name
  BY DEF OursInv, TrackedAreOurs, GroundInv
<1>a. CASE WaitReaps \/ WaitFindsNothing \/ IgnoreExit \/ BeginReload \/ AllRemoved
           \/ LeaveUnchanged \/ StartNew \/ EndReload \/ BeginShutdown \/ Processes \/ Tick
           \/ UNCHANGED vars
  <2>1. UNCHANGED services /\ main' \subseteq main /\ doomed' \subseteq doomed
        /\ (pc = "acked" => pc' = "acked")
    BY <1>a DEF WaitReaps, ReapInto, WaitFindsNothing, IgnoreExit, BeginReload, AllRemoved,
                LeaveUnchanged, StartNew, EndReload, BeginShutdown, Processes, Exit, DieOfKill,
                Die, Fork, Ping, Tick, superVars, threadVars, kernelVars, vars
  <2> QED
    BY <2>1
<1>b. CASE KillExpired
  BY <1>b DEF KillExpired, ExpiredWatchdogs, superVars
<1>c. CASE Halt \/ StayDown \/ GiveUp
  <2>1. PICK r \in reaped :
          /\ services' = Without(r.pid) /\ pc = "exit" /\ r.pid \in DOMAIN services
          /\ doomed' = doomed \cup InGroup(services[r.pid].def.name) /\ UNCHANGED main
    BY <1>c DEF Halt, StayDown, GiveUp, Exited
  <2>2. /\ DOMAIN services' = DOMAIN services \ {r.pid}
        /\ \A q \in DOMAIN services' : services'[q] = services[q]
    BY <2>1 DEF Without, Restrict
  <2>3. \A q \in DOMAIN services' \cap main :
          q \in InGroup(services[r.pid].def.name) => services[q].def.name = Shell
    BY <1>0, <2>1, <2>2 DEF InGroup, UniqueInv
  <2> QED
    BY <2>1, <2>2, <2>3
<1>d. CASE Restart
  <2>1. PICK r \in reaped :
          /\ r.pid \in Tracked
          /\ Spawning(Without(r.pid), RestartedOf(services[r.pid]))
          /\ DOMAIN Without(r.pid) = Tracked \ {r.pid}
          /\ doomed' = doomed \cup InGroup(services[r.pid].def.name)
    BY <1>d, RestartSpawns
  <2>2. \A q \in DOMAIN Without(r.pid) : q \in main /\ Without(r.pid)[q] = services[q]
    BY <2>1, TableOurs DEF OursIn, Spawning
  <2>3. \A q \in DOMAIN Without(r.pid) :
          q \in InGroup(services[r.pid].def.name) => services[q].def.name = Shell
    BY <1>0, <2>1, <2>2 DEF InGroup, UniqueInv
  <2>4. doomed' \subseteq alive
    BY <2>1 DEF InGroup, TypeOK
  <2> QED
    BY <2>1, <2>2, <2>3, <2>4, FireSpawn
<1>e. CASE RemoveOne \/ ReplaceChanged \/ GraceReap
  <2>1. PICK p : /\ services' = Without(p) /\ main' \subseteq main /\ UNCHANGED doomed
                 /\ pc # "acked"
    BY <1>e DEF RemoveOne, ReplaceChanged, GraceReap, ReapInto, kernelVars
  <2>2. /\ DOMAIN services' = DOMAIN services \ {p}
        /\ \A q \in DOMAIN services' : services'[q] = services[q]
    BY <2>1 DEF Without, Restrict
  <2> QED
    BY <2>1, <2>2
<1>f. CASE StopRemoved \/ StopChanged
  <2>1. PICK v \in victim :
          /\ doomed' = doomed \cup InGroup(v.name) \cup ({v.pid} \cap alive)
          /\ UNCHANGED services /\ main' \subseteq main
          /\ pc # "acked"
    BY <1>f DEF StopRemoved, StopChanged, StopOne, ReapInto
  <2>2. v.pid \notin DOMAIN services
    BY <2>1 DEF OursInv
  <2>3. \A q \in DOMAIN services \cap main : q \in InGroup(v.name) => services[q].def.name = Shell
    BY <1>0, <2>1 DEF InGroup, UniqueInv
  <2> QED
    BY <2>1, <2>2, <2>3
<1>g. CASE StartOne
  <2>1. reaped = {}
    BY <1>g DEF StartOne, OursInv
  <2>2. Spawning(services, Fresh(Head(queue), {}, {}, 0)) /\ UNCHANGED doomed
    BY <1>g, <2>1, StartOneSpawns
  <2>3. doomed' \subseteq alive
    BY <2>2 DEF TypeOK
  <2> QED
    BY <2>2, <2>3, FireSpawn
<1>h. CASE GraceOver
  BY <1>h DEF GraceOver
<1> QED
  BY <1>a, <1>b, <1>c, <1>d, <1>e, <1>f, <1>g, <1>h DEF Next, Proceed, Request

\* Unless two boot definitions share a name, no sweep of a cgroup and no kill
\* of a victim hits a service that is still tracked: until the end of
\* shutdown_all only its own watchdog has the supervisor kill it.
THEOREM NoFriendlyFireHolds == BootNamesDistinct => (Spec => []NoFriendlyFire)
<1> SUFFICES ASSUME BootNamesDistinct PROVE Spec => []NoFriendlyFire
  OBVIOUS
<1>1. Init => NoFriendlyFire
  BY DEF Init, NoFriendlyFire
<1>2. TypeOK /\ OursInv /\ GroundInv /\ UniqueInv /\ NoFriendlyFire /\ [Next]_vars => NoFriendlyFire'
  BY FireStep
<1> QED
  BY <1>1, <1>2, UniqueInductive, GroundInductive, PTL DEF Spec

-----------------------------------------------------------------------------
(* Reloads.  reload_services takes whichever instance of a name it finds   *)
(* first, so ReloadExact needs that a configuration does not give one name *)
(* two definitions, and that the configurations agree on what a service    *)
(* named like the rescue shell is: with a rescue shell beside it, a change *)
(* of that service may be made to the rescue shell instead.                *)

Configured == BootDefs \cup UNION {{new[i] : i \in DOMAIN new} : new \in Reloads}

PlainConfigs ==
    /\ BootNamesDistinct
    /\ \A new \in Reloads : \A i, j \in DOMAIN new : new[i].name = new[j].name => new[i] = new[j]
    /\ \A c, d \in Configured : c.name = Shell /\ d.name = Shell => c = d

Reloading == pc \in {"remove", "stop_removed", "reconcile", "stop_changed", "start"}

InQueue(n) == \E i \in DOMAIN queue : queue[i].name = n

(* What is kept is tracked under a definition of the goal, and never in    *)
(* removing; what is tracked is to be removed, still to be reconciled, or  *)
(* as the goal has it.                                                     *)
ReloadInv ==
    /\ \A p \in Tracked : services[p].def \in Configured \cup {fallback_shell}
    /\ ~Reloading => kept = {}
    /\ Reloading => /\ \A i \in DOMAIN queue : queue[i] \in goal
                    /\ \A c, d \in goal : c.name = d.name => c = d
                    /\ goal \subseteq Configured
                    /\ removing \cap kept = {}
    /\ \A p \in kept : p \in Tracked /\ services[p].def \in goal
    /\ pc \in {"remove", "stop_removed"} =>
        \A p \in Tracked : p \in removing \/ InQueue(services[p].def.name)
    /\ pc \in {"reconcile", "stop_changed", "start"} =>
        \A p \in Tracked : services[p].def \in goal \cup {fallback_shell}
                           \/ InQueue(services[p].def.name)

\* What the first of the queue leaves for the rest.
LEMMA QueueTail ==
  ASSUME queue \in Seq(Defs), queue # << >>, queue' = Tail(queue)
  PROVE  /\ \A i \in DOMAIN queue' : \E j \in DOMAIN queue : queue'[i] = queue[j]
         /\ \A n : InQueue(n) => n = Head(queue).name \/ InQueue(n)'
         /\ \E i \in DOMAIN queue : queue[i] = Head(queue)
<1>1. Len(queue) \in Nat /\ Len(queue) >= 1 /\ DOMAIN queue = 1 .. Len(queue)
      /\ Head(queue) = queue[1]
  OBVIOUS
<1>2. DOMAIN queue' = 1 .. Len(queue) - 1 /\ \A i \in 1 .. Len(queue) - 1 : queue'[i] = queue[i + 1]
  BY <1>1
<1>3. \A i \in DOMAIN queue' : i + 1 \in DOMAIN queue
  BY <1>1, <1>2
<1>4. \A j \in DOMAIN queue : j = 1 \/ (j - 1 \in DOMAIN queue' /\ queue'[j - 1] = queue[j])
  BY <1>1, <1>2
<1>5. \A n : InQueue(n) => n = Head(queue).name \/ InQueue(n)'
  BY <1>1, <1>4 DEF InQueue
<1> QED
  BY <1>1, <1>2, <1>3, <1>5

\* Two tracked services with the name at the head of the queue: if one is not
\* alone with it, the name is Shell, and each is as the goal has it or a
\* rescue shell.
LEMMA ShellsAgree ==
  ASSUME PlainConfigs, ReloadInv, Reloading, NEW p \in Tracked, NEW def \in goal,
         services[p].def.name = Shell, def.name = Shell
  PROVE  services[p].def \in goal \cup {fallback_shell}
  BY DEF PlainConfigs, ReloadInv

\* A spawn leaves the rest of the table alone and adds at most the service
\* asked for or a rescue shell.
LEMMA SpawnAdds ==
  ASSUME OursInv, NEW table, NEW sup, Spawning(table, sup)
  PROVE  /\ \A q \in DOMAIN table : q \in DOMAIN services' /\ services'[q] = table[q]
         /\ \A q \in DOMAIN services' \ DOMAIN table : services'[q].def \in {sup.def, fallback_shell}
<1>1. OursIn(table)
  BY TableOurs
<1>2. Fresh(fallback_shell, {}, {}, 0).def = fallback_shell
  BY DEF Fresh
<1>3. CASE services' = table
  BY <1>3
<1>4. ASSUME NEW p, NEW early, NEW s, Came(table, p, early, s), s.def \in {sup.def, fallback_shell}
      PROVE  /\ \A q \in DOMAIN table : q \in DOMAIN services' /\ services'[q] = table[q]
             /\ \A q \in DOMAIN services' \ DOMAIN table :
                  services'[q].def \in {sup.def, fallback_shell}
  <2>1. p \notin DOMAIN table
    BY <1>1, <1>4 DEF Came, OursIn
  <2>2. DOMAIN services' = DOMAIN table \cup {p} /\ services'[p] = s
        /\ \A q \in DOMAIN table : q # p => services'[q] = table[q]
    BY <1>4 DEF Came
  <2> QED
    BY <1>4, <2>1, <2>2
<1> QED
  BY <1>2, <1>3, <1>4 DEF Spawning, SpawnOutcome

LEMMA ReloadStep ==
  ASSUME PlainConfigs, TypeOK, OursInv, GroundInv, UniqueInv, ReloadInv, [Next]_vars
  PROVE  ReloadInv'
<1> USE DEF ReloadInv, Tracked
<1>a. CASE WaitReaps \/ WaitFindsNothing \/ IgnoreExit \/ KillExpired
           \/ BeginShutdown \/ GraceOver \/ Processes \/ Tick \/ UNCHANGED vars
  <2>1. UNCHANGED <<services, queue, goal, kept, removing>>
    BY <1>a DEF WaitReaps, WaitFindsNothing, IgnoreExit, KillExpired, BeginShutdown, GraceOver,
                Processes, Exit, DieOfKill, Die, Fork, Ping, Tick, superVars, threadVars, vars
  <2>2. UNCHANGED pc \/ (~Reloading /\ ~Reloading')
    BY <1>a DEF WaitReaps, WaitFindsNothing, IgnoreExit, KillExpired, BeginShutdown, GraceOver,
                Processes, Exit, DieOfKill, Die, Fork, Ping, Tick, threadVars, vars, Reloading
  <2> QED
    BY <2>1, <2>2 DEF Reloading, InQueue
<1>b. CASE Halt \/ StayDown \/ GiveUp \/ GraceReap
  <2>1. PICK p : services' = Without(p) /\ ~Reloading /\ ~Reloading' /\ UNCHANGED kept
    BY <1>b DEF Halt, StayDown, GiveUp, Exited, GraceReap, Reloading
  <2>2. /\ DOMAIN services' = DOMAIN services \ {p}
        /\ \A q \in DOMAIN services' : services'[q] = services[q]
    BY <2>1 DEF Without, Restrict
  <2> QED
    BY <2>1, <2>2 DEF Reloading
<1>c. CASE Restart
  <2>1. PICK r \in reaped :
          /\ r.pid \in Tracked /\ pc = "exit" /\ pc' = "loop"
          /\ Spawning(Without(r.pid), RestartedOf(services[r.pid]))
          /\ RestartedOf(services[r.pid]).def = services[r.pid].def
          /\ UNCHANGED kept
    BY <1>c, RestartSpawns
  <2>2. \A q \in DOMAIN Without(r.pid) : q \in DOMAIN services /\ Without(r.pid)[q] = services[q]
    BY DEF Without, Restrict
  <2>3. \A q \in DOMAIN services' : services'[q].def \in Configured \cup {fallback_shell}
    BY <2>1, <2>2, SpawnAdds
  <2> QED
    BY <2>1, <2>3 DEF Reloading
<1>d. CASE BeginReload
  <2>1. PICK new \in Reloads :
          /\ queue' = new
          /\ removing' = {p \in DOMAIN services :
                            \A i \in DOMAIN new : new[i].name # services[p].def.name}
          /\ goal' = {new[i] : i \in DOMAIN new}
          /\ kept' = {p \in DOMAIN services : services[p].def \in goal'}
    BY <1>d DEF BeginReload
  <2>2. UNCHANGED services /\ pc' = "remove"
    BY <1>d DEF BeginReload, superVars
  <2>3. goal' \subseteq Configured
    BY <2>1 DEF Configured
  <2>4. \A c, d \in goal' : c.name = d.name => c = d
    BY <2>1 DEF PlainConfigs
  <2>5. \A p \in kept' : p \notin removing'
    BY <2>1
  <2>6. \A p \in DOMAIN services : p \in removing' \/ \E i \in DOMAIN queue' : queue'[i].name = services[p].def.name
    BY <2>1
  <2> QED
    BY <2>1, <2>2, <2>3, <2>4, <2>5, <2>6 DEF Reloading, InQueue
<1>e. CASE RemoveOne
  <2>1. PICK p \in removing \cap DOMAIN services :
          removing' = removing \ {p} /\ services' = Without(p)
    BY <1>e DEF RemoveOne
  <2>2. pc = "remove" /\ pc' = "stop_removed" /\ UNCHANGED <<queue, goal, kept>>
    BY <1>e DEF RemoveOne
  <2>3. /\ DOMAIN services' = DOMAIN services \ {p}
        /\ \A q \in DOMAIN services' : services'[q] = services[q]
    BY <2>1 DEF Without, Restrict
  <2> QED
    BY <2>1, <2>2, <2>3 DEF Reloading, InQueue
<1>f. CASE AllRemoved
  <2>1. /\ pc = "remove" /\ pc' = "reconcile" /\ removing \cap DOMAIN services = {} /\ removing' = {}
        /\ UNCHANGED <<services, queue, goal, kept>>
    BY <1>f DEF AllRemoved, superVars
  <2> QED
    BY <2>1 DEF Reloading, InQueue
<1>g. CASE StopRemoved \/ StopChanged
  <2>1. /\ UNCHANGED <<services, queue, goal, kept, removing>>
        /\ \/ pc = "stop_removed" /\ pc' = "remove"
           \/ pc = "stop_changed" /\ pc' = "start"
    BY <1>g DEF StopRemoved, StopChanged, StopOne
  <2> QED
    BY <2>1 DEF Reloading, InQueue
<1>h. CASE LeaveUnchanged
  <2>1. PICK p \in DOMAIN services : Same(p) /\ services[p].def = Head(queue)
    BY <1>h DEF LeaveUnchanged
  <2>2. /\ pc = "reconcile" /\ pc' = "reconcile" /\ queue # << >> /\ queue' = Tail(queue)
        /\ UNCHANGED <<services, goal, kept, removing>>
    BY <1>h DEF LeaveUnchanged, superVars
  <2>3. queue \in Seq(Defs)
    BY DEF TypeOK
  <2>4. Head(queue) \in goal
    BY <2>2, <2>3, QueueTail DEF Reloading
  <2>5. ASSUME NEW q \in DOMAIN services, services[q].def.name = Head(queue).name
        PROVE  services[q].def \in goal \cup {fallback_shell}
    <3>1. CASE services[q].def.name = Shell
      BY <2>2, <2>4, <2>5, <3>1, ShellsAgree DEF Reloading
    <3>2. CASE services[q].def.name # Shell
      BY <2>1, <2>4, <2>5, <3>2 DEF UniqueInv
    <3> QED
      BY <3>1, <3>2
  <2>6. \A q \in DOMAIN services : services[q].def \in goal \cup {fallback_shell}
                                    \/ InQueue(services[q].def.name)'
    BY <2>2, <2>3, <2>5, QueueTail
  <2>7. \A i \in DOMAIN queue' : queue'[i] \in goal
    BY <2>2, <2>3, QueueTail DEF Reloading
  <2> QED
    BY <2>2, <2>6, <2>7 DEF Reloading, InQueue
<1>i. CASE ReplaceChanged
  <2>1. PICK p \in DOMAIN services :
          Same(p) /\ services[p].def # Head(queue) /\ services' = Without(p)
    BY <1>i DEF ReplaceChanged
  <2>2. /\ pc = "reconcile" /\ pc' = "stop_changed" /\ queue # << >>
        /\ UNCHANGED <<queue, goal, kept, removing>>
    BY <1>i DEF ReplaceChanged
  <2>3. /\ DOMAIN services' = DOMAIN services \ {p}
        /\ \A q \in DOMAIN services' : services'[q] = services[q]
    BY <2>1 DEF Without, Restrict
  <2>4. Head(queue) \in goal
    <3>1. 1 \in DOMAIN queue /\ Head(queue) = queue[1]
      BY <2>2 DEF TypeOK
    <3> QED
      BY <2>2, <3>1 DEF Reloading
  <2>5. p \notin kept
    BY <2>1, <2>2, <2>4 DEF Same, Reloading
  <2> QED
    BY <2>2, <2>3, <2>5 DEF Reloading, InQueue
<1>j. CASE StartNew
  <2>1. pc = "reconcile" /\ pc' = "start" /\ UNCHANGED <<services, queue, goal, kept, removing>>
    BY <1>j DEF StartNew, superVars
  <2> QED
    BY <2>1 DEF Reloading, InQueue
<1>k. CASE StartOne
  <2>1. reaped = {}
    BY <1>k DEF StartOne, OursInv
  <2>2. /\ Spawning(services, Fresh(Head(queue), {}, {}, 0))
        /\ Fresh(Head(queue), {}, {}, 0).def = Head(queue)
        /\ pc = "start" /\ pc' = "reconcile" /\ queue # << >> /\ queue' = Tail(queue)
        /\ UNCHANGED <<goal, kept, removing>>
    BY <1>k, <2>1, StartOneSpawns
  <2>3. queue \in Seq(Defs)
    BY DEF TypeOK
  <2>4. Head(queue) \in goal
    BY <2>2, <2>3, QueueTail DEF Reloading
  <2>5. ASSUME NEW q \in DOMAIN services, services[q].def.name = Head(queue).name
        PROVE  services[q].def \in goal \cup {fallback_shell}
    <3>1. services[q].def.name = Shell
      BY <2>2, <2>5 DEF UniqueInv
    <3> QED
      BY <2>2, <2>4, <2>5, <3>1, ShellsAgree DEF Reloading
  <2>6. \A q \in DOMAIN services : services[q].def \in goal \cup {fallback_shell}
                                    \/ \E i \in DOMAIN queue' : queue'[i].name = services[q].def.name
    <3>1. \A n : InQueue(n) => n = Head(queue).name \/ \E i \in DOMAIN queue' : queue'[i].name = n
      BY <2>2, <2>3, QueueTail DEF InQueue
    <3> QED
      BY <2>2, <2>5, <3>1
  <2>7. \A i \in DOMAIN queue' : queue'[i] \in goal
    BY <2>2, <2>3, QueueTail DEF Reloading
  <2>8. /\ DOMAIN services \subseteq DOMAIN services'
        /\ \A q \in DOMAIN services : services'[q] = services[q]
        /\ \A q \in DOMAIN services' \ DOMAIN services :
             services'[q].def \in {Head(queue), fallback_shell}
    BY <2>2, SpawnAdds
  <2> QED
    BY <2>2, <2>4, <2>6, <2>7, <2>8 DEF Reloading, InQueue
<1>l. CASE EndReload
  <2>1. pc' = "loop" /\ kept' = {} /\ UNCHANGED services
    BY <1>l DEF EndReload, superVars
  <2> QED
    BY <2>1 DEF Reloading
<1> QED
  BY <1>a, <1>b, <1>c, <1>d, <1>e, <1>f, <1>g, <1>h, <1>i, <1>j, <1>k, <1>l
     DEF Next, Proceed, Request

LEMMA ReloadInit == Init => ReloadInv
<1> SUFFICES ASSUME Init PROVE ReloadInv
  OBVIOUS
<1>1. PICK S \in SUBSET BootDefs, pid \in [BootDefs -> Pids] :
        services = [p \in {pid[d] : d \in S} |-> Fresh(CHOOSE d \in S : pid[d] = p, {}, {}, 0)]
  BY DEF Init
<1>2. ASSUME NEW d \in S PROVE services[pid[d]].def \in BootDefs
  <2>1. (CHOOSE c \in S : pid[c] = pid[d]) \in S
    OBVIOUS
  <2> QED
    BY <1>1, <2>1 DEF Fresh
<1>3. \A p \in Tracked : services[p].def \in BootDefs
  BY <1>1, <1>2 DEF Tracked
<1>4. pc = "loop" /\ kept = {}
  BY DEF Init
<1> QED
  BY <1>3, <1>4 DEF ReloadInv, Reloading, Configured

\* A reload, through every failed spawn, slow death and critical exit before
\* it, leaves alone each service whose definition the new configuration
\* repeats, and ends with every tracked service as that configuration has it or
\* a rescue shell, when no configuration gives one name two definitions and all
\* agree on a service named like the rescue shell.
THEOREM ReloadExactHolds == PlainConfigs => (Spec => []ReloadExact)
<1> SUFFICES ASSUME PlainConfigs PROVE Spec => []ReloadExact
  OBVIOUS
<1>1. TypeOK /\ OursInv /\ GroundInv /\ UniqueInv /\ ReloadInv /\ [Next]_vars => ReloadInv'
  BY ReloadStep
<1>2. TypeOK /\ ReloadInv => ReloadExact
  BY DEF ReloadInv, ReloadExact, InQueue, TypeOK
<1>3. Spec => []UniqueInv
  BY UniqueInductive DEF PlainConfigs
<1> QED
  BY <1>1, <1>2, <1>3, ReloadInit, GroundInductive, PTL DEF Spec
=============================================================================
