----------------------------- MODULE AppsProofs -----------------------------
(***************************************************************************)
(* Theorems about on-demand apps and the reap chain, for any set of pids,  *)
(* any number of launches, services, one-shots and forks, and whatever     *)
(* mitos-service does: types, that every exit reaches the part that        *)
(* started the process, that running apps are listed, and that what an app *)
(* leaves behind is killed.                                                *)
(***************************************************************************)
EXTENDS Apps, FiniteSetTheorems, TLAPS

\* The pids that are not free.
Used == alive \cup zombie \cup reaped

\* Sets, numbers and functions, without the Boolean.
Types ==
    /\ daemon \in Daemon /\ backlog \in 0 .. Backlog
    /\ pc \in {"idle", "hash", "connect", "ask", "next_id", "wait", "attach", "register",
               "aborted"}
    /\ id \in Nat /\ child \subseteq Pids /\ reaped \subseteq Pids
    /\ DOMAIN registry \subseteq Pids /\ Range(registry) \subseteq 1 .. id
    /\ services \subseteq Pids /\ oneshots \subseteq Pids
    /\ alive \subseteq Pids /\ zombie \subseteq Pids /\ doomed \subseteq alive
    /\ group \in [Pids -> Nat] /\ owner \in [Pids -> {"app", "service", "timer", "nobody"}]

\* launch holds a child exactly between spawn's fork and the insert, or spawn's
\* own wait, and the connection it waits on is in the backlog.
LaunchInv ==
    /\ child = {} <=> pc \notin {"wait", "attach", "register", "aborted"}
    /\ child # {} => id \in 1 .. id
    /\ pc = "ask" => backlog >= 1

\* A pid is alive, a zombie, with the main thread, or free.
PidInv ==
    /\ alive \cap zombie = {} /\ reaped \cap (alive \cup zombie) = {}
    /\ \A p, q \in reaped : p = q

(* RunningAppsListed, with what makes it inductive: by the time launch     *)
(* registers a child that still runs, the child is in its cgroup.          *)
ListedInv ==
    /\ RunningAppsListed
    /\ pc = "register" => \A p \in child \cap alive : owner[p] = "app" => group[p] = id

(* Unless an exit was missed, the tables name the pids in use by their     *)
(* owners, so that no entry is there for a later process to inherit.       *)
OneshotInv == \A p \in Pids : p \in oneshots <=> p \in Used /\ owner[p] = "timer"

TablesExact ==
    /\ \A p \in Pids : p \in services <=> p \in Used /\ owner[p] = "service"
    /\ child \subseteq alive \cup zombie
    /\ \A p \in child : owner[p] = "app" /\ p \notin DOMAIN registry
    /\ \A p \in DOMAIN registry : p \in Used /\ owner[p] = "app"
    /\ \A p \in reaped : owner[p] = "app" => p \in DOMAIN registry
    /\ \A c \in claimed : c.by = c.owner

SweptInv ==
    \A p \in alive \ doomed :
        group[p] = 0 \/ group[p] \in Range(registry) \/ (pc = "register" /\ group[p] = id)

OwnedInv == missed \/ (OneshotInv /\ TablesExact /\ SweptInv)

-----------------------------------------------------------------------------
LEMMA Interval == \A n, m \in Nat : /\ n + 1 \in Nat /\ n + 1 \in 1 .. n + 1
                                    /\ 1 .. n \subseteq 1 .. n + 1
                                    /\ n \in 0 .. m /\ n < m => n + 1 \in 0 .. m /\ n + 1 >= 1
                                    /\ n \in 0 .. m /\ n >= 1 => n - 1 \in 0 .. m
OBVIOUS

\* What a fork does to the kernel's view.
LEMMA NewChildEffect ==
    ASSUME Types, NEW p \in Pids, NEW who \in {"app", "service", "timer", "nobody"},
           NEW in \in Nat, NewChild(p, who, in)
    PROVE  /\ p \notin Used /\ alive' = alive \cup {p} /\ UNCHANGED <<zombie, doomed>>
           /\ alive' \subseteq Pids /\ doomed \subseteq alive'
           /\ group' \in [Pids -> Nat]
           /\ owner' \in [Pids -> {"app", "service", "timer", "nobody"}]
           /\ owner'[p] = who /\ group'[p] = in
           /\ \A q \in Pids : q # p => owner'[q] = owner[q] /\ group'[q] = group[q]
BY DEF NewChild, FreePids, Used, Types

LEMMA TypeInit == Init => Types /\ LaunchInv /\ PidInv
<1> SUFFICES ASSUME Init PROVE Types /\ LaunchInv /\ PidInv OBVIOUS
<1>1. DOMAIN registry \subseteq Pids /\ Range(registry) \subseteq 1 .. id BY DEF Init, Range
<1>2. 0 \in 0 .. Backlog BY AppsAssumption
<1> QED BY <1>1, <1>2 DEF Init, Types, LaunchInv, PidInv

LEMMA TypeStep == Types /\ LaunchInv /\ [Next]_vars => Types' /\ LaunchInv'
<1> SUFFICES ASSUME Types, LaunchInv, [Next]_vars PROVE Types' /\ LaunchInv' OBVIOUS
<1> USE DEF ipcVars, mainVars, kernelVars
<1>0. Backlog \in Nat /\ backlog \in Nat BY AppsAssumption DEF Types
<1>1. CASE Launch BY <1>1 DEF Launch, Types, LaunchInv
<1>2. CASE hash_file BY <1>2 DEF hash_file, Types, LaunchInv
<1>3. CASE Connect
    <2>1. backlog' \in 0 .. Backlog /\ (pc' = "ask" => backlog' >= 1)
        BY <1>0, <1>3, Interval DEF Connect, Types
    <2> QED BY <1>3, <2>1 DEF Connect, Types, LaunchInv
<1>4. CASE Verdict
    <2>1. backlog' \in 0 .. Backlog BY <1>0, <1>4, Interval DEF Verdict, Types, LaunchInv
    <2> QED BY <1>4, <2>1 DEF Verdict, Types, LaunchInv
<1>5. CASE AskFails
    <2>1. backlog' \in 0 .. Backlog BY <1>0, <1>5, Interval DEF AskFails, Types, LaunchInv
    <2> QED BY <1>5, <2>1 DEF AskFails, Types, LaunchInv
<1>6. CASE Spawn
    <2>1. id' \in Nat /\ id' \in 1 .. id' /\ 1 .. id \subseteq 1 .. id'
        BY <1>6, Interval DEF Spawn, Types
    <2>2. Range(registry') \subseteq 1 .. id' BY <1>6, <2>1 DEF Spawn, Types
    <2>3. ASSUME NEW p \in Pids, NewChild(p, "app", 0), child' = {p}, pc' = "attach"
          PROVE  Types' /\ LaunchInv'
        <3>1. /\ alive' \subseteq Pids /\ doomed' \subseteq alive' /\ zombie' = zombie
              /\ group' \in [Pids -> Nat]
              /\ owner' \in [Pids -> {"app", "service", "timer", "nobody"}]
            BY <2>3, NewChildEffect
        <3> QED BY <1>6, <2>1, <2>2, <2>3, <3>1 DEF Spawn, Types, LaunchInv
    <2>4. CASE pc' = "idle" /\ UNCHANGED <<child, kernelVars>>
        BY <1>6, <2>1, <2>2, <2>4 DEF Spawn, Types, LaunchInv
    <2>5. ASSUME NEW p \in FreePids, zombie' = zombie \cup {p},
                 owner' = [owner EXCEPT ![p] = "app"], child' = {p}, pc' = "wait",
                 UNCHANGED <<alive, doomed, group>>
          PROVE  Types' /\ LaunchInv'
        BY <1>6, <2>1, <2>2, <2>5 DEF Spawn, Types, LaunchInv, FreePids
    <2> QED BY <1>6, <2>3, <2>4, <2>5 DEF Spawn
<1>7. CASE Attach \/ WaitChild BY <1>7 DEF Attach, WaitChild, Types, LaunchInv
<1>8. CASE Register
    <2>1. DOMAIN registry' \subseteq Pids /\ Range(registry') \subseteq 1 .. id
        BY <1>8 DEF Register, Types, LaunchInv, Range
    <2> QED BY <1>8, <2>1 DEF Register, Types, LaunchInv
<1>9. CASE WaitReaps BY <1>9 DEF WaitReaps, Types, LaunchInv
<1>10. ASSUME NEW p \in reaped, TimersReap(p) \/ HandleExit(p) PROVE Types' /\ LaunchInv'
    BY <1>10 DEF TimersReap, HandleExit, Claim, Types, LaunchInv
<1>11. ASSUME NEW p \in reaped, AppsReap(p) PROVE Types' /\ LaunchInv'
    <2>1. DOMAIN registry' \subseteq Pids /\ Range(registry') \subseteq 1 .. id
        BY <1>11 DEF AppsReap, Types, Range, Restrict
    <2> QED BY <1>11, <2>1 DEF AppsReap, Claim, Types, LaunchInv
<1>12. CASE StartService \/ StartOneshot \/ \E p \in Pids : Fork(p)
    <2>1. PICK p \in Pids, who \in {"app", "service", "timer", "nobody"}, in \in Nat :
            NewChild(p, who, in) /\ services' \subseteq services \cup {p}
            /\ oneshots' \subseteq oneshots \cup {p}
        BY <1>12 DEF StartService, StartOneshot, Fork, Types
    <2>2. /\ alive' \subseteq Pids /\ doomed' \subseteq alive' /\ zombie' = zombie
          /\ group' \in [Pids -> Nat]
          /\ owner' \in [Pids -> {"app", "service", "timer", "nobody"}]
        BY <2>1, NewChildEffect
    <2>3. UNCHANGED <<ipcVars, registry, reaped>>
        BY <1>12 DEF StartService, StartOneshot, Fork
    <2> QED BY <2>1, <2>2, <2>3 DEF Types, LaunchInv
<1>13. ASSUME NEW p \in Pids, Exit(p) PROVE Types' /\ LaunchInv'
    BY <1>13 DEF Exit, Types, LaunchInv
<1>14. CASE UNCHANGED vars BY <1>14 DEF vars, Types, LaunchInv
<1> QED
    BY <1>1, <1>2, <1>3, <1>4, <1>5, <1>6, <1>7, <1>8, <1>9, <1>10, <1>11, <1>12, <1>13, <1>14
       DEF Next, Listener, Dispatch

-----------------------------------------------------------------------------
(* The steps by what they do to the tables and the pids.                   *)

\* launch before it has a child, the abort, and stuttering.
Quiet ==
    /\ UNCHANGED <<child, registry, mainVars, kernelVars>>
    /\ UNCHANGED <<pc, id>> \/ child = {} \/ (pc = "wait" /\ pc' = "aborted")

\* launch gets its child.
Spawned(p) ==
    /\ NewChild(p, "app", 0) /\ child = {} /\ child' = {p} /\ pc' = "attach"
    /\ UNCHANGED <<registry, mainVars>>

\* launch gets a child that has failed already.
Failed(p) ==
    /\ p \notin Used /\ zombie' = zombie \cup {p} /\ owner' = [owner EXCEPT ![p] = "app"]
    /\ child = {} /\ child' = {p} /\ pc' = "wait"
    /\ UNCHANGED <<registry, mainVars, alive, doomed, group>>

\* spawn has waited for whichever zombie has the pid of its child.
Waited ==
    /\ pc = "wait" /\ child \subseteq zombie /\ zombie' = zombie \ child /\ child' = {} /\ pc' = "idle"
    /\ UNCHANGED <<id, registry, mainVars, alive, doomed, group, owner>>

\* A service, a one-shot or a child of a child is started.
Started(p, who) ==
    /\ who \in {"service", "timer", "nobody"}
    /\ \E in \in {0} \cup {group[q] : q \in alive \ doomed} : NewChild(p, who, in)
    /\ services' = IF who = "service" THEN services \cup {p} ELSE services
    /\ oneshots' = IF who = "timer" THEN oneshots \cup {p} ELSE oneshots
    /\ UNCHANGED <<ipcVars, registry, reaped, claimed, missed>>

LEMMA Steps ==
    ASSUME Types, LaunchInv, [Next]_vars
    PROVE  \/ Quiet \/ Attach \/ Register \/ Waited \/ WaitReaps
           \/ \E p \in Pids : Spawned(p) \/ Failed(p)
           \/ \E p \in Pids : (\E who \in {"service", "timer", "nobody"} : Started(p, who))
           \/ \E p \in reaped : TimersReap(p) \/ AppsReap(p) \/ HandleExit(p)
           \/ \E p \in Pids : Exit(p)
<1> USE DEF ipcVars, mainVars, kernelVars
<1>1. CASE Launch \/ hash_file \/ Connect \/ Verdict \/ AskFails
    BY <1>1 DEF Launch, hash_file, Connect, Verdict, AskFails, Quiet, LaunchInv
<1>2. CASE Spawn
    BY <1>2 DEF Spawn, Spawned, Failed, Quiet, LaunchInv, FreePids, Used
<1>6. CASE WaitChild
    BY <1>6 DEF WaitChild, Waited, Quiet
<1>3. CASE StartService \/ StartOneshot
    BY <1>3 DEF StartService, StartOneshot, Started
<1>4. ASSUME NEW p \in Pids, Fork(p)
      PROVE  \E q \in Pids : Started(q, "nobody")
    BY <1>4 DEF Fork, Started
<1>5. CASE UNCHANGED vars BY <1>5 DEF vars, Quiet
<1> QED BY <1>1, <1>2, <1>3, <1>4, <1>5, <1>6 DEF Next, Listener, Dispatch

LEMMA StartedEffect ==
    ASSUME Types, NEW p \in Pids, NEW who, Started(p, who)
    PROVE  /\ p \notin Used /\ alive' = alive \cup {p} /\ UNCHANGED <<zombie, doomed>>
           /\ owner'[p] = who
           /\ group'[p] = 0 \/ \E q \in alive \ doomed : group'[p] = group[q]
           /\ \A q \in Pids : q # p => owner'[q] = owner[q] /\ group'[q] = group[q]
<1>1. PICK in \in {0} \cup {group[q] : q \in alive \ doomed} : NewChild(p, who, in)
    BY DEF Started
<1>2. in \in Nat BY <1>1 DEF Types
<1>3. who \in {"app", "service", "timer", "nobody"} BY DEF Started
<1>4. p \notin Used /\ alive' = alive \cup {p} /\ UNCHANGED <<zombie, doomed>>
      /\ owner'[p] = who /\ group'[p] = in
      /\ \A q \in Pids : q # p => owner'[q] = owner[q] /\ group'[q] = group[q]
    BY <1>1, <1>2, <1>3, NewChildEffect
<1> QED BY <1>1, <1>4

LEMMA SpawnedEffect ==
    ASSUME Types, NEW p \in Pids, Spawned(p)
    PROVE  /\ p \notin Used /\ alive' = alive \cup {p} /\ UNCHANGED <<zombie, doomed>>
           /\ owner'[p] = "app" /\ group'[p] = 0
           /\ \A q \in Pids : q # p => owner'[q] = owner[q] /\ group'[q] = group[q]
BY NewChildEffect DEF Spawned

-----------------------------------------------------------------------------
(* Pids and timers' pending.                                               *)

LEMMA PidStep == ASSUME Types, LaunchInv, [Next]_vars, PidInv PROVE PidInv'
<1> USE DEF ipcVars, mainVars, kernelVars
<1>1. CASE Quiet \/ Attach \/ Register BY <1>1 DEF Quiet, Attach, Register, PidInv
<1>2. CASE WaitReaps \/ Waited BY <1>2 DEF WaitReaps, Waited, PidInv
<1>3. ASSUME NEW p \in Pids, Spawned(p) PROVE PidInv'
    <2>1. p \notin Used /\ alive' = alive \cup {p} /\ UNCHANGED <<zombie, reaped>>
        BY <1>3, SpawnedEffect DEF Spawned
    <2> QED BY <2>1 DEF PidInv, Used
<1>4. ASSUME NEW p \in Pids, Failed(p) PROVE PidInv' BY <1>4 DEF Failed, PidInv, Used
<1>5. ASSUME NEW p \in Pids, NEW who \in {"service", "timer", "nobody"}, Started(p, who)
      PROVE  PidInv'
    <2>1. p \notin Used /\ alive' = alive \cup {p} /\ UNCHANGED zombie BY <1>5, StartedEffect
    <2>2. UNCHANGED reaped BY <1>5 DEF Started
    <2> QED BY <2>1, <2>2 DEF PidInv, Used
<1>6. ASSUME NEW p \in reaped, TimersReap(p) \/ AppsReap(p) \/ HandleExit(p) PROVE PidInv'
    BY <1>6 DEF TimersReap, AppsReap, HandleExit, Claim, PidInv
<1>7. ASSUME NEW p \in Pids, Exit(p) PROVE PidInv' BY <1>7 DEF Exit, PidInv
<1> QED BY <1>1, <1>2, <1>3, <1>4, <1>5, <1>6, <1>7, Steps

\* A step that misses no exit: launch's own child is never a one-shot.
LEMMA OneshotStep ==
    ASSUME Types, LaunchInv, [Next]_vars, PidInv, OneshotInv, TablesExact
    PROVE  OneshotInv'
<1> USE DEF ipcVars, mainVars, kernelVars
<1>1. CASE Quiet \/ Attach \/ Register BY <1>1 DEF Quiet, Attach, Register, OneshotInv, Used
<1>2. CASE WaitReaps BY <1>2 DEF WaitReaps, OneshotInv, Used, Types
<1>3. CASE Waited
    <2>1. \A p \in child : owner[p] = "app" BY DEF TablesExact
    <2>2. UNCHANGED <<oneshots, owner>> /\ Used' \subseteq Used /\ Used \subseteq Used' \cup child
        BY <1>3 DEF Waited, Used
    <2> QED BY <2>1, <2>2 DEF OneshotInv
<1>4. ASSUME NEW p \in Pids, Spawned(p) PROVE OneshotInv'
    <2>1. /\ p \notin Used /\ alive' = alive \cup {p} /\ UNCHANGED <<zombie, reaped, oneshots>>
          /\ owner'[p] = "app" /\ \A q \in Pids : q # p => owner'[q] = owner[q]
        BY <1>4, SpawnedEffect DEF Spawned
    <2> QED BY <2>1 DEF OneshotInv, Used
<1>5. ASSUME NEW p \in Pids, Failed(p) PROVE OneshotInv'
    <2>1. /\ p \notin Used /\ Used' = Used \cup {p} /\ UNCHANGED oneshots
          /\ owner'[p] = "app" /\ \A q \in Pids : q # p => owner'[q] = owner[q]
        BY <1>5 DEF Failed, Used, Types
    <2> QED BY <2>1 DEF OneshotInv
<1>6. ASSUME NEW p \in Pids, NEW who \in {"service", "timer", "nobody"}, Started(p, who)
      PROVE  OneshotInv'
    <2>1. /\ p \notin Used /\ alive' = alive \cup {p} /\ UNCHANGED zombie
          /\ owner'[p] = who /\ \A q \in Pids : q # p => owner'[q] = owner[q]
        BY <1>6, StartedEffect
    <2>2. oneshots' = (IF who = "timer" THEN oneshots \cup {p} ELSE oneshots) /\ UNCHANGED reaped
        BY <1>6 DEF Started
    <2> QED BY <2>1, <2>2 DEF OneshotInv, Used
<1>7. ASSUME NEW p \in reaped, TimersReap(p) \/ AppsReap(p) \/ HandleExit(p)
      PROVE  OneshotInv'
    <2>1. reaped' = {} /\ UNCHANGED <<alive, zombie, owner>> /\ oneshots' = oneshots \ {p}
        BY <1>7 DEF TimersReap, AppsReap, HandleExit, Claim
    <2>2. Used' = Used \ {p} BY <1>7, <2>1 DEF PidInv, Used
    <2> QED BY <2>1, <2>2 DEF OneshotInv
<1>8. ASSUME NEW p \in Pids, Exit(p) PROVE OneshotInv'
    <2>1. Used' = Used /\ UNCHANGED <<oneshots, owner>> BY <1>8 DEF Exit, Used
    <2> QED BY <2>1 DEF OneshotInv
<1> QED BY <1>1, <1>2, <1>3, <1>4, <1>5, <1>6, <1>7, <1>8, Steps

-----------------------------------------------------------------------------
(* Running apps are listed.                                                *)

LEMMA ListedStep ==
    ASSUME Types, LaunchInv, [Next]_vars, PidInv, ListedInv
    PROVE  ListedInv'
<1> USE DEF ipcVars, mainVars, kernelVars
<1>1. CASE Quiet BY <1>1 DEF Quiet, ListedInv, RunningAppsListed
<1>2. CASE Attach BY <1>2 DEF Attach, ListedInv, RunningAppsListed, Types
<1>3. CASE Register BY <1>3 DEF Register, ListedInv, RunningAppsListed, Types
<1>4. CASE WaitReaps BY <1>4 DEF WaitReaps, ListedInv, RunningAppsListed
<1>9. CASE Waited BY <1>9 DEF Waited, ListedInv, RunningAppsListed, PidInv
<1>10. ASSUME NEW p \in Pids, Failed(p) PROVE ListedInv'
    <2>1. \A q \in Pids : q # p => owner'[q] = owner[q] BY <1>10 DEF Failed
    <2> QED BY <1>10, <2>1 DEF Failed, ListedInv, RunningAppsListed, Types
<1>5. ASSUME NEW p \in Pids, Spawned(p) PROVE ListedInv'
    <2>1. /\ alive' = alive \cup {p} /\ UNCHANGED <<zombie, registry>>
          /\ child = {} /\ child' = {p} /\ pc' = "attach"
          /\ \A q \in Pids : q # p => owner'[q] = owner[q] /\ group'[q] = group[q]
        BY <1>5, SpawnedEffect DEF Spawned
    <2> QED BY <2>1 DEF ListedInv, RunningAppsListed, Types
<1>6. ASSUME NEW p \in Pids, NEW who \in {"service", "timer", "nobody"}, Started(p, who)
      PROVE  ListedInv'
    <2>1. /\ alive' = alive \cup {p} /\ UNCHANGED zombie /\ owner'[p] = who
          /\ \A q \in Pids : q # p => owner'[q] = owner[q] /\ group'[q] = group[q]
        BY <1>6, StartedEffect
    <2>2. UNCHANGED <<child, pc, id, registry>> BY <1>6 DEF Started
    <2> QED BY <2>1, <2>2 DEF ListedInv, RunningAppsListed, Types
<1>7. ASSUME NEW p \in reaped, TimersReap(p) \/ AppsReap(p) \/ HandleExit(p)
      PROVE  ListedInv'
    <2>1. UNCHANGED <<alive, zombie, owner, group, child, pc, id>>
        BY <1>7 DEF TimersReap, AppsReap, HandleExit, Claim
    <2>2. \A q \in DOMAIN registry \ {p} : q \in DOMAIN registry' /\ registry'[q] = registry[q]
        BY <1>7 DEF TimersReap, AppsReap, HandleExit, Restrict
    <2>3. p \notin alive \cup zombie BY <1>7 DEF PidInv
    <2> QED BY <2>1, <2>2, <2>3 DEF ListedInv, RunningAppsListed
<1>8. ASSUME NEW p \in Pids, Exit(p) PROVE ListedInv'
    BY <1>8 DEF Exit, ListedInv, RunningAppsListed, PidInv, Types
<1> QED BY <1>1, <1>2, <1>3, <1>4, <1>5, <1>6, <1>7, <1>8, <1>9, <1>10, Steps

-----------------------------------------------------------------------------
(* Owners and cgroups.                                                     *)

\* A step that misses no exit keeps the tables exact and the cgroups swept.
LEMMA ExactStep ==
    ASSUME Types, LaunchInv, [Next]_vars, PidInv, OneshotInv, ListedInv,
           TablesExact, SweptInv, \A p \in child : p \in zombie => p \notin reaped'
    PROVE  TablesExact' /\ SweptInv'
<1> USE DEF ipcVars, mainVars, kernelVars
<1>1. CASE Quiet
    BY <1>1 DEF Quiet, TablesExact, SweptInv, Used, LaunchInv
<1>2. CASE Attach
    <2>1. TablesExact' BY <1>2 DEF Attach, TablesExact, Used
    <2>2. SweptInv' BY <1>2 DEF Attach, SweptInv, Types
    <2> QED BY <2>1, <2>2
<1>3. CASE Register
    <2>1. TablesExact' BY <1>3 DEF Register, TablesExact, Used
    <2>2. Range(registry) \subseteq Range(registry')
        BY <1>3 DEF Register, TablesExact, Range
    <2>3. id \in Range(registry') BY <1>3 DEF Register, Range, LaunchInv
    <2>4. SweptInv' BY <1>3, <2>2, <2>3 DEF Register, SweptInv
    <2> QED BY <2>1, <2>4
<1>4. CASE WaitReaps
    <2>1. PICK p \in zombie : reaped' = {p} /\ zombie' = zombie \ {p} BY <1>4 DEF WaitReaps
    <2>2. UNCHANGED <<pc, child, registry, services, claimed, alive, doomed, group, owner, id>>
        BY <1>4 DEF WaitReaps
    <2>3. Used' = Used BY <1>4, <2>1, <2>2 DEF Used, WaitReaps
    <2>4. p \notin child BY <2>1
    <2>5. owner[p] = "app" => p \in DOMAIN registry
        BY <2>4, <2>1 DEF ListedInv, RunningAppsListed
    <2>6. TablesExact' BY <2>1, <2>2, <2>3, <2>4, <2>5 DEF TablesExact
    <2> QED BY <2>2, <2>6 DEF SweptInv
<1>9. CASE Waited
    <2>1. UNCHANGED <<id, registry, services, reaped, claimed, alive, doomed, group, owner>>
          /\ child' = {}
        BY <1>9 DEF Waited
    <2>2. child \subseteq zombie /\ zombie' = zombie \ child /\ Used' = Used \ child
        BY <1>9, <2>1 DEF Waited, PidInv, Used
    <2>3. TablesExact' BY <2>1, <2>2 DEF TablesExact
    <2> QED BY <1>9, <2>1, <2>3 DEF SweptInv, Waited
<1>10. ASSUME NEW p \in Pids, Failed(p) PROVE TablesExact' /\ SweptInv'
    <2>1. /\ p \notin Used /\ Used' = Used \cup {p} /\ owner'[p] = "app"
          /\ \A q \in Pids : q # p => owner'[q] = owner[q]
        BY <1>10 DEF Failed, Used, Types
    <2>2. /\ child = {} /\ child' = {p} /\ zombie' = zombie \cup {p}
          /\ UNCHANGED <<registry, services, reaped, claimed, alive, doomed, group>>
        BY <1>10 DEF Failed
    <2>3. reaped \subseteq Used BY DEF Used
    <2>4. TablesExact' BY <2>1, <2>2, <2>3 DEF TablesExact, Types
    <2> QED BY <2>2, <2>4 DEF SweptInv, LaunchInv
<1>5. ASSUME NEW p \in Pids, Spawned(p) PROVE TablesExact' /\ SweptInv'
    <2>1. /\ p \notin Used /\ alive' = alive \cup {p} /\ UNCHANGED <<zombie, doomed>>
          /\ owner'[p] = "app" /\ group'[p] = 0
          /\ \A q \in Pids : q # p => owner'[q] = owner[q] /\ group'[q] = group[q]
        BY <1>5, SpawnedEffect
    <2>2. /\ child = {} /\ child' = {p} /\ UNCHANGED <<registry, services, reaped, claimed>>
          /\ Used' = Used \cup {p}
        BY <1>5, <2>1 DEF Spawned, Used
    <2>3. reaped \subseteq Used BY DEF Used
    <2>4. TablesExact' BY <2>1, <2>2, <2>3 DEF TablesExact, Types
    <2>5. SweptInv' BY <2>1, <2>2 DEF SweptInv, Types, LaunchInv
    <2> QED BY <2>4, <2>5
<1>6. ASSUME NEW p \in Pids, NEW who \in {"service", "timer", "nobody"}, Started(p, who)
      PROVE  TablesExact' /\ SweptInv'
    <2>1. /\ p \notin Used /\ alive' = alive \cup {p} /\ UNCHANGED <<zombie, doomed>>
          /\ owner'[p] = who
          /\ group'[p] = 0 \/ \E q \in alive \ doomed : group'[p] = group[q]
          /\ \A q \in Pids : q # p => owner'[q] = owner[q] /\ group'[q] = group[q]
        BY <1>6, StartedEffect
    <2>2. /\ UNCHANGED <<pc, child, id, registry, reaped, claimed>> /\ Used' = Used \cup {p}
          /\ services' = IF who = "service" THEN services \cup {p} ELSE services
        BY <1>6, <2>1 DEF Started, Used
    <2>3. reaped \subseteq Used /\ alive \cup zombie \subseteq Used BY DEF Used
    <2>4. TablesExact' BY <2>1, <2>2, <2>3 DEF TablesExact, Types
    <2>5. SweptInv' BY <2>1, <2>2 DEF SweptInv, Types
    <2> QED BY <2>4, <2>5
<1>7. ASSUME NEW p \in reaped, TimersReap(p) \/ AppsReap(p) \/ HandleExit(p)
      PROVE  TablesExact' /\ SweptInv'
    <2>1. reaped' = {} /\ UNCHANGED <<alive, zombie, owner, group, pc, child, id>>
        BY <1>7 DEF TimersReap, AppsReap, HandleExit, Claim
    <2>2. Used' = Used \ {p} /\ p \in Used /\ p \in Pids /\ p \notin alive \cup zombie
        BY <1>7, <2>1 DEF PidInv, Used, Types
    <2>3. owner[p] \in {"app", "service", "timer", "nobody"} BY <2>2 DEF Types
    <2>4. CASE TimersReap(p)
        <3>1. owner[p] = "timer" BY <2>2, <2>4 DEF TimersReap, OneshotInv
        <3>2. claimed' = {[owner |-> owner[p], by |-> "timer"]}
              /\ UNCHANGED <<registry, services, doomed>>
            BY <2>4 DEF TimersReap, Claim
        <3>3. TablesExact' BY <2>1, <2>2, <3>1, <3>2 DEF TablesExact
        <3> QED BY <2>1, <3>2, <3>3 DEF SweptInv
    <2>5. CASE AppsReap(p)
        <3>1. owner[p] = "app" /\ p \in DOMAIN registry BY <2>5 DEF AppsReap, TablesExact
        <3>2. /\ claimed' = {[owner |-> owner[p], by |-> "app"]} /\ UNCHANGED services
              /\ DOMAIN registry' = DOMAIN registry \ {p}
              /\ \A q \in DOMAIN registry \ {p} : registry'[q] = registry[q]
              /\ doomed' = doomed \cup {q \in alive : group[q] = registry[p]}
            BY <2>5 DEF AppsReap, Claim, Restrict
        <3>3. TablesExact' BY <2>1, <2>2, <3>1, <3>2 DEF TablesExact
        <3>4. \A n \in Range(registry) : n # registry[p] => n \in Range(registry')
            BY <3>2 DEF Range
        <3>5. SweptInv' BY <2>1, <3>2, <3>4 DEF SweptInv
        <3> QED BY <3>3, <3>5
    <2>6. CASE HandleExit(p)
        <3>1. owner[p] \notin {"app", "timer"}
            BY <1>7, <2>2, <2>6 DEF HandleExit, TablesExact, OneshotInv
        <3>2. owner[p] = IF p \in services THEN "service" ELSE "nobody"
            BY <2>2, <2>3, <3>1 DEF TablesExact
        <3>3. claimed' = {[owner |-> owner[p], by |-> owner[p]]}
              /\ UNCHANGED <<registry, doomed>> /\ services' = services \ {p}
            BY <2>6, <3>2 DEF HandleExit, Claim
        <3>4. TablesExact' BY <2>1, <2>2, <3>1, <3>3 DEF TablesExact
        <3> QED BY <2>1, <3>3, <3>4 DEF SweptInv
    <2> QED BY <1>7, <2>4, <2>5, <2>6
<1>8. ASSUME NEW p \in Pids, Exit(p) PROVE TablesExact' /\ SweptInv'
    <2>1. Used' = Used /\ UNCHANGED <<pc, child, id, registry, services, reaped, claimed, owner>>
          /\ alive' \cup zombie' = alive \cup zombie
        BY <1>8 DEF Exit, Used
    <2>2. TablesExact' BY <2>1 DEF TablesExact
    <2>3. SweptInv' BY <1>8, <2>1 DEF SweptInv, Exit, Types
    <2> QED BY <2>2, <2>3
<1> QED BY <1>1, <1>2, <1>3, <1>4, <1>5, <1>6, <1>7, <1>8, <1>9, <1>10, Steps

\* missed records whether an exit was, and stays set.
LEMMA MissedStep ==
    ASSUME Types, LaunchInv, [Next]_vars, PidInv
    PROVE  /\ missed \in BOOLEAN => missed' \in BOOLEAN
           /\ missed => missed'
           /\ missed' \/ \A p \in child : p \in zombie => p \notin reaped'
<1> USE DEF ipcVars, mainVars, kernelVars
<1>1. CASE WaitReaps
    <2>1. PICK p \in zombie : reaped' = {p} /\ missed' = (missed \/ p \in child)
        BY <1>1 DEF WaitReaps
    <2>2. missed' \in BOOLEAN /\ (missed => missed') /\ (p \in child => missed') BY <2>1, Zenon
    <2> QED BY <2>1, <2>2, Zenon
<1>2. CASE ~WaitReaps
    <2>1. UNCHANGED missed /\ reaped' \subseteq reaped
        <3>1. CASE Quiet \/ Attach \/ Register \/ Waited BY <3>1 DEF Quiet, Attach, Register, Waited
        <3>2. ASSUME NEW p \in Pids,
                     \/ Spawned(p) \/ Failed(p) \/ Exit(p)
                     \/ \E who \in {"service", "timer", "nobody"} : Started(p, who)
              PROVE  UNCHANGED missed /\ reaped' \subseteq reaped
            BY <3>2 DEF Spawned, Failed, Started, Exit
        <3>3. ASSUME NEW p \in reaped, TimersReap(p) \/ AppsReap(p) \/ HandleExit(p)
              PROVE  UNCHANGED missed /\ reaped' \subseteq reaped
            BY <3>3 DEF TimersReap, AppsReap, HandleExit, Claim
        <3> QED BY <1>2, <3>1, <3>2, <3>3, Steps
    <2>2. \A p \in child : p \in zombie => p \notin reaped' BY <2>1 DEF PidInv
    <2> QED BY <2>1, <2>2, Zenon
<1> QED BY <1>1, <1>2

LEMMA OwnedStep ==
    ASSUME Types, LaunchInv, [Next]_vars, PidInv, ListedInv, OwnedInv
    PROVE  OwnedInv'
<1>1. CASE missed' BY <1>1 DEF OwnedInv
<1>2. CASE ~missed'
    <2>1. ~missed BY <1>2, MissedStep
    <2>2. \A p \in child : p \in zombie => p \notin reaped' BY <1>2, MissedStep
    <2>3. OneshotInv /\ TablesExact /\ SweptInv BY <2>1 DEF OwnedInv
    <2>4. OneshotInv' BY <2>3, OneshotStep
    <2> QED BY <2>2, <2>3, <2>4, ExactStep DEF OwnedInv
<1> QED BY <1>1, <1>2

-----------------------------------------------------------------------------
AppsInv ==
    Types /\ LaunchInv /\ PidInv /\ ListedInv /\ OwnedInv /\ missed \in BOOLEAN

LEMMA AppsInductive == Spec => []AppsInv
<1>1. Init => AppsInv
    <2> SUFFICES ASSUME Init PROVE AppsInv OBVIOUS
    <2>1. OneshotInv /\ ListedInv BY DEF Init, OneshotInv, ListedInv, RunningAppsListed, Used
    <2>2. TablesExact /\ SweptInv BY DEF Init, TablesExact, SweptInv, Used
    <2>3. missed \in BOOLEAN BY DEF Init
    <2> QED BY <2>1, <2>2, <2>3, TypeInit DEF AppsInv, OwnedInv
<1>2. AppsInv /\ [Next]_vars => AppsInv'
    <2> SUFFICES ASSUME AppsInv, [Next]_vars PROVE AppsInv' OBVIOUS
    <2>1. Types' /\ LaunchInv' BY TypeStep DEF AppsInv
    <2>2. PidInv' BY PidStep DEF AppsInv
    <2>3. ListedInv' BY ListedStep DEF AppsInv
    <2>4. OwnedInv' BY OwnedStep DEF AppsInv
    <2>5. missed' \in BOOLEAN BY MissedStep DEF AppsInv
    <2> QED BY <2>1, <2>2, <2>3, <2>4, <2>5 DEF AppsInv
<1> QED BY <1>1, <1>2, PTL DEF Spec

\* The registry, the reap chain and the kernel's view keep their types; the
\* backlog never exceeds its limit, and the ids in the registry are ones that
\* launch has given out.
THEOREM TypeCorrect == Spec => []TypeOK
<1>1. AppsInv => TypeOK BY DEF AppsInv, Types, TypeOK
<1> QED BY <1>1, AppsInductive, PTL

\* main.rs: every exit that waitpid returns is claimed by the part of the
\* program that started the process, until an app is reaped before launch is
\* done with it.
THEOREM ExitReachesOwnerHolds == Spec => []ExitReachesOwner
<1>1. AppsInv => ExitReachesOwner
    BY DEF AppsInv, OwnedInv, TablesExact, ExitReachesOwner
<1> QED BY <1>1, AppsInductive, PTL

\* apps.rs, list: an app that launch has reported is in the registry under its
\* own id for as long as its exit has not been reaped, whatever was missed.
THEOREM RunningAppsListedHolds == Spec => []RunningAppsListed
<1>1. AppsInv => RunningAppsListed BY DEF AppsInv, ListedInv
<1> QED BY <1>1, AppsInductive, PTL

\* apps.rs, reap: a process still running in an app's cgroup after the app's
\* exit has been reaped is being killed.
THEOREM AppsSweptHolds == Spec => []AppsSwept
<1>1. AppsInv => AppsSwept
    BY DEF AppsInv, OwnedInv, SweptInv, AppsSwept
<1> QED BY <1>1, AppsInductive, PTL
=============================================================================
