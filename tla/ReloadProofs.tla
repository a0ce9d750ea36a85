---------------------------- MODULE ReloadProofs ----------------------------
(***************************************************************************)
(* Theorems about transactional reload, for any files on disk, any watch   *)
(* window and any sequence of reloads, isolates and failures: types, that  *)
(* what runs is what is configured, that the last reload is undone when it *)
(* fails, that reload implements ConfigTransaction, and that what a reload *)
(* puts in force is what the files say.  Only the last looks into Load:    *)
(* for the others Configs is any set of results.                           *)
(***************************************************************************)
EXTENDS Reload, FiniteSetTheorems, WellFoundedInduction, TLAPS

Watch == [deadline : Nat, touched : SUBSET Names, previous : Configs, target : Targets]

\* watch is an Option.
OneWatch == \A v, w \in watch : v = w

Types ==
    /\ disk \in Disks
    /\ cfg \in Configs /\ current_target \in Targets
    /\ watch \subseteq Watch
    /\ OneWatch
    /\ published \in [active : Targets, available : SUBSET Targets]
    /\ running \in [Names -> SUBSET Defs]
    /\ changed \in [Names -> SUBSET [at : Nat, from : Configs, no : Nat]]
    /\ now \in Nat /\ reloads \in Nat /\ isolates \in Nat

(* What makes LastReloadReverts hold: a service that the last reload       *)
(* started answers to that reload's watch, which would go back to the      *)
(* configuration of before, until the window is over or the rollback has   *)
(* already happened.                                                       *)
OnTrial(n, c) ==
    /\ c.no = reloads /\ now < c.at + WatchWindow
    => \/ watch = {} /\ cfg = c.from
       \/ /\ watch # {}
          /\ \A w \in watch : /\ n \in w.touched /\ w.previous = c.from
                              /\ w.deadline = c.at + WatchWindow

TrialInv == \A n \in Names : \A c \in changed[n] : c.no <= reloads /\ OnTrial(n, c)

-----------------------------------------------------------------------------
\* The definitions of one target of a configuration are definitions.
LEMMA ServicesIn ==
    ASSUME NEW c \in Configs, NEW t
    PROVE  /\ services_in(c.services, t) \subseteq ToSet(c.services)
           /\ services_in(c.services, t) \subseteq Defs
           /\ list(c.services) \subseteq Targets
BY ReloadAssumption DEF services_in, Defs

LEMMA Loaded == ASSUME disk \in Disks PROVE Load(disk.init, disk.units) \in Configs
BY DEF Disks, Configs

\* The table that a reload, an isolate or a rollback leaves runs services of
\* its target and perhaps the rescue shell.
LEMMA UpRuns ==
    ASSUME NEW new \in SUBSET Defs, NEW failed, NEW rescue
    PROVE  /\ Up(new, failed, rescue) \in [Names -> SUBSET Defs]
           /\ \A n \in Names :
                 Up(new, failed, rescue)[n] \subseteq {d \in new : d.name = n}
                     \cup (IF n = Shell THEN {fallback_shell} ELSE {})
BY DEF Up, Defs

LEMMA ReloadRuns ==
    ASSUME NEW table, NEW new \in SUBSET Defs, ReloadServices(table, new)
    PROVE  /\ running' \in [Names -> SUBSET Defs]
           /\ \A n \in Names :
                 running'[n] \subseteq {d \in new : d.name = n}
                     \cup (IF n = Shell THEN {fallback_shell} ELSE {})
<1>1. PICK failed, rescue : running' = Up(new, failed, rescue) BY DEF ReloadServices
<1> QED BY <1>1, UpRuns

LEMMA TouchedNames ==
    ASSUME NEW table, NEW new \in SUBSET Defs PROVE Touched(table, new) \subseteq Names
BY ReloadAssumption DEF Touched

-----------------------------------------------------------------------------
\* The single watch as TypeOK counts it.
LEMMA TypesSuffice == Types /\ stopped \in BOOLEAN => TypeOK
<1> SUFFICES ASSUME Types, stopped \in BOOLEAN PROVE TypeOK OBVIOUS
<1>1. Cardinality(watch) <= 1
    <2>1. CASE watch = {} BY <2>1, FS_EmptySet
    <2>2. CASE watch # {}
        <3>1. PICK w \in watch : TRUE BY <2>2
        <3>2. watch = {w} BY <3>1 DEF Types, OneWatch
        <3> QED BY <3>2, FS_Singleton
    <2> QED BY <2>1, <2>2
<1>2. watch \subseteq [deadline : Nat, touched : SUBSET Names, previous : Configs,
                       target : Targets]
    BY DEF Types, Watch
<1> QED BY <1>1, <1>2 DEF Types, TypeOK

LEMMA TypeInit == Init => Types /\ stopped \in BOOLEAN
<1> SUFFICES ASSUME Init PROVE Types /\ stopped \in BOOLEAN OBVIOUS
<1>1. cfg \in Configs BY Loaded DEF Init
<1>2. current_target \in Targets BY <1>1, ReloadAssumption DEF Init
<1>3. published \in [active : Targets, available : SUBSET Targets]
    BY <1>1, <1>2, ServicesIn DEF Init
<1>4. running \in [Names -> SUBSET Defs]
    <2>1. PICK failed, rescue :
            running = Up(services_in(cfg.services, current_target), failed, rescue)
        BY DEF Init
    <2> QED BY <1>1, <2>1, ServicesIn, UpRuns
<1>5. changed \in [Names -> SUBSET [at : Nat, from : Configs, no : Nat]] BY DEF Init
<1>6. watch \subseteq Watch /\ OneWatch BY DEF Init, OneWatch
<1>7. stopped \in BOOLEAN BY DEF Init
<1> QED BY <1>1, <1>2, <1>3, <1>4, <1>5, <1>6, <1>7 DEF Init, Types

LEMMA TypeReload == ASSUME Types, Reload PROVE Types'
<1> DEFINE new == Load(disk.init, disk.units)
           subset == services_in(new.services, current_target)
           touched == Touched(running, subset)
<1>1. new \in Configs BY Loaded DEF Types
<1>2. subset \subseteq Defs BY <1>1, ServicesIn
<1>3. touched \subseteq Names BY <1>2, TouchedNames
<1>4. running' \in [Names -> SUBSET Defs] BY <1>2, ReloadRuns DEF Reload
<1>5. watch' \subseteq Watch /\ OneWatch'
    <2>1. watch' = {[deadline |-> now + WatchWindow, touched |-> touched, previous |-> cfg,
                     target |-> current_target]}
        BY DEF Reload, begin
    <2>2. now + WatchWindow \in Nat BY ReloadAssumption DEF Types
    <2> HIDE DEF touched
    <2> QED BY <1>3, <2>1, <2>2 DEF Types, Watch, OneWatch
<1>6. published' \in [active : Targets, available : SUBSET Targets]
    BY <1>1, ServicesIn DEF Reload, Types
<1>7. changed' \in [Names -> SUBSET [at : Nat, from : Configs, no : Nat]]
    <2>1. [at |-> now, from |-> cfg, no |-> reloads + 1] \in [at : Nat, from : Configs, no : Nat]
        BY DEF Types
    <2>2. changed' = [n \in Names |->
                        IF n \in touched THEN {[at |-> now, from |-> cfg, no |-> reloads + 1]}
                        ELSE changed[n]]
        BY DEF Reload
    <2> HIDE DEF touched
    <2> QED BY <2>1, <2>2 DEF Types
<1>8. cfg' \in Configs BY <1>1 DEF Reload
<1> QED BY <1>4, <1>5, <1>6, <1>7, <1>8 DEF Reload, Types

LEMMA TypeIsolate == ASSUME Types, Isolate PROVE Types'
<1>1. PICK target \in list(cfg.services) :
        /\ ReloadServices(running, services_in(cfg.services, target))
        /\ changed' = [n \in Names |->
                         IF running[n] = {d \in services_in(cfg.services, target) : d.name = n}
                         THEN changed[n] ELSE {}]
        /\ current_target' = target
        /\ published' = [active |-> target, available |-> list(cfg.services)]
    BY DEF Isolate
<1>2. target \in Targets /\ list(cfg.services) \subseteq Targets BY <1>1, ServicesIn DEF Types
<1>3. services_in(cfg.services, target) \subseteq Defs BY ServicesIn DEF Types
<1>4. running' \in [Names -> SUBSET Defs] BY <1>1, <1>3, ReloadRuns
<1>5. changed' \in [Names -> SUBSET [at : Nat, from : Configs, no : Nat]] BY <1>1 DEF Types
<1>6. published' \in [active : Targets, available : SUBSET Targets] BY <1>1, <1>2
<1> QED BY <1>1, <1>2, <1>4, <1>5, <1>6 DEF Isolate, Types, OneWatch

LEMMA TypeRollBack ==
    ASSUME Types, NEW w \in watch, NEW n \in Names, RollBack(w, n),
           UNCHANGED <<disk, now, reloads, isolates>>
    PROVE  Types'
<1>1. w.previous \in Configs BY DEF Types, Watch
<1>2. services_in(w.previous.services, w.target) \subseteq Defs BY <1>1, ServicesIn
<1>3. running' \in [Names -> SUBSET Defs] BY <1>2, ReloadRuns DEF RollBack
<1>4. changed' \in [Names -> SUBSET [at : Nat, from : Configs, no : Nat]]
    BY DEF RollBack, Types
<1>5. watch' = {} /\ cfg' = w.previous /\ UNCHANGED <<current_target, published>>
    BY DEF RollBack
<1> QED BY <1>1, <1>3, <1>4, <1>5 DEF Types, OneWatch

LEMMA TypeStep == Types /\ [Next]_vars => Types'
<1> SUFFICES ASSUME Types, [Next]_vars PROVE Types' OBVIOUS
<1>1. CASE Reload BY <1>1, TypeReload
<1>2. CASE Isolate BY <1>2, TypeIsolate
<1>3. CASE Check BY <1>3 DEF Check, KeepWatching, Types, OneWatch
<1>4. CASE EditDisk BY <1>4 DEF EditDisk, settings, Types, OneWatch
<1>5. CASE Tick BY <1>5 DEF Tick, settings, Types, OneWatch
<1>6. ASSUME NEW n \in Names, FailWatched(n) PROVE Types'
    BY <1>6, TypeRollBack DEF FailWatched
<1>7. ASSUME NEW n \in Names, GiveUp(n) \/ StayDown(n) PROVE Types'
    <2>1. running' = Gone(n) /\ changed' = [changed EXCEPT ![n] = {}]
        BY <1>7 DEF GiveUp, StayDown
    <2> QED BY <1>7, <2>1 DEF GiveUp, StayDown, KeepWatching, Gone, Types, OneWatch
<1>8. ASSUME NEW n \in Names, HaltUnwatched(n) PROVE Types'
    BY <1>8 DEF HaltUnwatched, Gone, settings, Types, OneWatch
<1>9. CASE UNCHANGED vars BY <1>9 DEF vars, Types, OneWatch
<1> QED BY <1>1, <1>2, <1>3, <1>4, <1>5, <1>6, <1>7, <1>8, <1>9 DEF Next, HardFailure

LEMMA StoppedType == stopped \in BOOLEAN /\ [Next]_vars => stopped' \in BOOLEAN
<1> SUFFICES ASSUME stopped \in BOOLEAN, [Next]_vars PROVE stopped' \in BOOLEAN OBVIOUS
<1>1. CASE UNCHANGED stopped BY <1>1
<1>2. ASSUME NEW n \in Names, HaltUnwatched(n) PROVE stopped' \in BOOLEAN
    BY <1>2 DEF HaltUnwatched
<1>3. CASE UNCHANGED vars BY <1>1, <1>3 DEF vars
<1>4. CASE Reload \/ Isolate \/ Check \/ EditDisk \/ Tick
    BY <1>1, <1>4 DEF Reload, Isolate, Check, EditDisk, Tick
<1>5. ASSUME NEW n \in Names, FailWatched(n) \/ GiveUp(n) \/ StayDown(n)
      PROVE  stopped' \in BOOLEAN
    BY <1>1, <1>5 DEF FailWatched, RollBack, GiveUp, StayDown
<1> QED BY <1>2, <1>3, <1>4, <1>5 DEF Next, HardFailure

-----------------------------------------------------------------------------
\* At any time the loop's locals, the settings and the service table are well
\* typed, and at most one reload is watched.
THEOREM TypeCorrect == Spec => []TypeOK
<1>1. Init => Types /\ stopped \in BOOLEAN BY TypeInit
<1>2. (Types /\ stopped \in BOOLEAN) /\ [Next]_vars => (Types /\ stopped \in BOOLEAN)'
    BY TypeStep, StoppedType
<1> QED BY <1>1, <1>2, TypesSuffice, PTL DEF Spec

LEMMA TypesHold == Spec => []Types
BY TypeInit, TypeStep, PTL DEF Spec

-----------------------------------------------------------------------------
\* RunningIsConfigured is inductive as it stands: the table, the settings and
\* cfg are always set together, from one configuration.
LEMMA ConfiguredInit == Init => RunningIsConfigured
<1> SUFFICES ASSUME Init PROVE RunningIsConfigured OBVIOUS
<1>1. cfg \in Configs BY Loaded DEF Init
<1>2. PICK failed, rescue :
        running = Up(services_in(cfg.services, current_target), failed, rescue)
    BY DEF Init
<1>3. \A n \in Names :
        running[n] \subseteq {d \in services_in(cfg.services, current_target) : d.name = n}
                             \cup (IF n = Shell THEN {fallback_shell} ELSE {})
    BY <1>1, <1>2, ServicesIn, UpRuns
<1> QED BY <1>1, <1>3, ServicesIn DEF Init, RunningIsConfigured

LEMMA ConfiguredTable ==
    ASSUME NEW c \in Configs, NEW t, NEW table,
           ReloadServices(table, services_in(c.services, t)), cfg' = c,
           loglevel' = c.loglevel, hostname' = c.hostname
    PROVE  RunningIsConfigured'
<1>1. \A n \in Names :
        running'[n] \subseteq {d \in services_in(c.services, t) : d.name = n}
                              \cup (IF n = Shell THEN {fallback_shell} ELSE {})
    BY ServicesIn, ReloadRuns
<1>2. services_in(c.services, t) \subseteq ToSet(cfg'.services) BY ServicesIn
<1> QED BY <1>1, <1>2 DEF RunningIsConfigured

LEMMA ConfiguredStep == Types /\ RunningIsConfigured /\ [Next]_vars => RunningIsConfigured'
<1> SUFFICES ASSUME Types, RunningIsConfigured, [Next]_vars PROVE RunningIsConfigured' OBVIOUS
<1>1. CASE Reload
    <2>1. Load(disk.init, disk.units) \in Configs BY Loaded DEF Types
    <2> QED BY <1>1, <2>1, ConfiguredTable DEF Reload
<1>2. CASE Isolate
    <2>1. PICK target : ReloadServices(running, services_in(cfg.services, target))
        BY <1>2 DEF Isolate
    <2>2. cfg \in Configs /\ loglevel = cfg.loglevel /\ hostname = cfg.hostname
        BY DEF Types, RunningIsConfigured
    <2>3. UNCHANGED <<cfg, loglevel, hostname>> BY <1>2 DEF Isolate
    <2> QED BY <2>1, <2>2, <2>3, ConfiguredTable
<1>3. ASSUME NEW n \in Names, FailWatched(n) PROVE RunningIsConfigured'
    <2>1. PICK w \in watch : RollBack(w, n) BY <1>3 DEF FailWatched
    <2>2. w.previous \in Configs BY DEF Types, Watch
    <2> QED BY <2>1, <2>2, ConfiguredTable DEF RollBack
<1>4. ASSUME NEW n \in Names, GiveUp(n) \/ StayDown(n) \/ HaltUnwatched(n)
      PROVE  RunningIsConfigured'
    <2>1. running' = Gone(n) /\ UNCHANGED <<cfg, loglevel, hostname>>
        BY <1>4 DEF GiveUp, StayDown, HaltUnwatched, KeepWatching, settings
    <2>2. \A m \in Names : running'[m] \subseteq running[m] BY <2>1 DEF Gone, Types
    <2> QED BY <2>1, <2>2 DEF RunningIsConfigured
<1>5. CASE Check \/ EditDisk \/ Tick \/ UNCHANGED vars
    <2>1. UNCHANGED <<running, cfg, loglevel, hostname>>
        BY <1>5 DEF Check, EditDisk, Tick, KeepWatching, settings, vars
    <2> QED BY <2>1 DEF RunningIsConfigured
<1> QED BY <1>1, <1>2, <1>3, <1>4, <1>5 DEF Next, HardFailure

\* Through every mixture of reload, isolate, failure and rollback, each tracked
\* service runs a definition of the configuration the loop goes by, one per
\* name, and the log level and host name are that configuration's.
THEOREM RunningIsConfiguredHolds == Spec => []RunningIsConfigured
BY TypesHold, ConfiguredInit, ConfiguredStep, PTL DEF Spec

-----------------------------------------------------------------------------
LEMMA TrialInit == Init => TrialInv
BY DEF Init, TrialInv

\* What is left of changed after a step that starts or stops services is some
\* of what was there.
LEMMA TrialKept ==
    ASSUME Types, TrialInv, \A n \in Names : changed'[n] \subseteq changed[n],
           reloads' = reloads,
           \/ now' = now /\ UNCHANGED cfg /\ watch' = {w \in watch : now < w.deadline}
           \/ now <= now' /\ now' \in Nat /\ UNCHANGED <<cfg, watch>>
    PROVE  TrialInv'
<1> SUFFICES ASSUME NEW n \in Names, NEW c \in changed'[n] PROVE c.no <= reloads /\ OnTrial(n, c)'
    BY DEF TrialInv
<1>1. c \in changed[n] /\ c.at \in Nat /\ c.no \in Nat BY DEF Types
<1>2. c.no <= reloads /\ OnTrial(n, c) BY <1>1 DEF TrialInv
<1>3. WatchWindow \in Nat /\ now \in Nat /\ reloads \in Nat BY ReloadAssumption DEF Types
<1>4. CASE ~(c.no = reloads /\ now < c.at + WatchWindow)
    BY <1>1, <1>2, <1>3, <1>4 DEF OnTrial
<1>5. CASE c.no = reloads /\ now < c.at + WatchWindow
    BY <1>1, <1>2, <1>3, <1>5 DEF OnTrial
<1> QED BY <1>2, <1>4, <1>5

LEMMA TrialStep == Types /\ TrialInv /\ [Next]_vars => TrialInv'
<1> SUFFICES ASSUME Types, TrialInv, [Next]_vars PROVE TrialInv' OBVIOUS
<1>1. CASE Reload
    <2>1. PICK touched :
            /\ watch' = {[deadline |-> now + WatchWindow, touched |-> touched, previous |-> cfg,
                          target |-> current_target]}
            /\ changed' = [n \in Names |->
                             IF n \in touched
                             THEN {[at |-> now, from |-> cfg, no |-> reloads + 1]}
                             ELSE changed[n]]
        BY <1>1 DEF Reload, begin
    <2>2. reloads' = reloads + 1 /\ reloads \in Nat BY <1>1 DEF Reload, Types
    <2> SUFFICES ASSUME NEW n \in Names, NEW c \in changed'[n]
                 PROVE  c.no <= reloads' /\ OnTrial(n, c)'
        BY DEF TrialInv
    <2>3. CASE n \in touched
        <3>1. c = [at |-> now, from |-> cfg, no |-> reloads + 1] BY <2>1, <2>3
        <3>2. c.at = now /\ c.from = cfg /\ c.no = reloads + 1 BY <3>1
        <3>3. \A w \in watch' : /\ w.touched = touched /\ w.previous = cfg
                                /\ w.deadline = now + WatchWindow
            BY <2>1
        <3>4. watch' # {} BY <2>1
        <3> QED BY <2>2, <2>3, <3>2, <3>3, <3>4 DEF OnTrial
    <2>4. CASE n \notin touched
        <3>1. c \in changed[n] BY <2>1, <2>4
        <3>2. c.no \in Nat /\ c.no <= reloads BY <3>1 DEF Types, TrialInv
        <3> QED BY <2>2, <3>2 DEF OnTrial
    <2> QED BY <2>3, <2>4
<1>2. CASE Isolate
    <2>1. \A n \in Names : changed'[n] \subseteq changed[n] BY <1>2 DEF Isolate, Types
    <2>2. UNCHANGED <<cfg, watch, now, reloads>> BY <1>2 DEF Isolate
    <2>3. now \in Nat /\ now <= now BY DEF Types
    <2> QED BY <2>1, <2>2, <2>3, TrialKept
<1>3. ASSUME NEW n \in Names, FailWatched(n) PROVE TrialInv'
    <2>1. PICK w \in watch : RollBack(w, n) BY <1>3 DEF FailWatched
    <2>2. /\ watch' = {} /\ cfg' = w.previous /\ UNCHANGED <<now, reloads>>
          /\ \A m \in Names : changed'[m] \subseteq changed[m]
        BY <1>3, <2>1 DEF FailWatched, RollBack
    <2> SUFFICES ASSUME NEW m \in Names, NEW c \in changed'[m]
                 PROVE  c.no <= reloads' /\ OnTrial(m, c)'
        BY DEF TrialInv
    <2>3. c.no <= reloads /\ OnTrial(m, c) BY <2>2 DEF TrialInv
    <2> QED BY <2>2, <2>3 DEF OnTrial
<1>4. ASSUME NEW n \in Names, GiveUp(n) \/ StayDown(n) PROVE TrialInv'
    <2>1. /\ changed' = [changed EXCEPT ![n] = {}]
          /\ UNCHANGED <<cfg, now, reloads>> /\ watch' = {w \in watch : now < w.deadline}
        BY <1>4 DEF GiveUp, StayDown, KeepWatching
    <2>2. \A m \in Names : changed'[m] \subseteq changed[m] BY <2>1 DEF Types
    <2> QED BY <2>1, <2>2, TrialKept
<1>5. ASSUME NEW n \in Names, HaltUnwatched(n) PROVE TrialInv'
    <2>1. /\ changed' = [changed EXCEPT ![n] = {}] /\ UNCHANGED <<cfg, watch, now, reloads>>
        BY <1>5 DEF HaltUnwatched
    <2>2. \A m \in Names : changed'[m] \subseteq changed[m] BY <2>1 DEF Types
    <2>3. now \in Nat /\ now <= now BY DEF Types
    <2> QED BY <2>1, <2>2, <2>3, TrialKept
<1>6. CASE Check
    <2>1. /\ UNCHANGED <<cfg, changed, now, reloads>>
          /\ watch' = {w \in watch : now < w.deadline}
        BY <1>6 DEF Check, KeepWatching
    <2> QED BY <2>1, TrialKept
<1>7. CASE EditDisk \/ Tick \/ UNCHANGED vars
    <2>1. UNCHANGED <<cfg, watch, changed, reloads>> /\ (now' = now \/ now' = now + 1)
        BY <1>7 DEF EditDisk, Tick, vars
    <2>2. now <= now' /\ now' \in Nat BY <2>1 DEF Types
    <2> QED BY <2>1, <2>2, TrialKept
<1> QED BY <1>1, <1>2, <1>3, <1>4, <1>5, <1>6, <1>7 DEF Next, HardFailure

\* A service that the last reload started and that fails hard within the watch
\* window has that reload undone; and if the failure of another one already has,
\* it stays undone.
THEOREM LastReloadRevertsHolds == Spec => LastReloadReverts
<1>1. Types /\ TrialInv /\ [Next]_vars =>
        [\A n \in Names : \A c \in changed[n] :
            HardFailure(n) /\ c.no = reloads /\ now < c.at + WatchWindow => cfg' = c.from]_vars
    <2> SUFFICES ASSUME Types, TrialInv, NEW n \in Names, NEW c \in changed[n],
                        HardFailure(n), c.no = reloads, now < c.at + WatchWindow
                 PROVE  cfg' = c.from
        OBVIOUS
    <2>1. OnTrial(n, c) BY DEF TrialInv
    <2>2. CASE FailWatched(n) BY <2>1, <2>2 DEF FailWatched, RollBack, OnTrial
    <2>3. CASE GiveUp(n) \/ HaltUnwatched(n)
        <3>1. ~Watched(n) /\ cfg' = cfg BY <2>3 DEF GiveUp, HaltUnwatched, KeepWatching
        <3> QED BY <2>1, <3>1 DEF Watched, OnTrial
    <2> QED BY <2>2, <2>3 DEF HardFailure
<1> QED BY <1>1, TypesHold, TrialInit, TrialStep, PTL DEF Spec, LastReloadReverts

-----------------------------------------------------------------------------
(* The refinement: committed is the configuration the watch would restore, *)
(* or cfg when nothing is watched; cfg is on trial while it is watched.    *)

\* A watch in place is the one that CHOOSE finds.
LEMMA TheWatch ==
    ASSUME OneWatch, NEW w \in watch
    PROVE  (CHOOSE v \in watch : TRUE) = w
BY DEF OneWatch

LEMMA TransactionInit == Init => Transaction!Init
BY DEF Init, Transaction!Init

LEMMA TransactionStep ==
    Types /\ Types' /\ [Next]_vars =>
        [Transaction!Next]_<<IF watch = {} THEN cfg ELSE (CHOOSE w \in watch : TRUE).previous,
                             IF watch = {} THEN {} ELSE {cfg}>>
<1> DEFINE committed == IF watch = {} THEN cfg ELSE (CHOOSE w \in watch : TRUE).previous
           trial == IF watch = {} THEN {} ELSE {cfg}
<1> SUFFICES ASSUME Types, Types', [Next]_vars
             PROVE  Transaction!Next \/ UNCHANGED <<committed, trial>>
    OBVIOUS
<1>1. CASE Reload
    <2>1. PICK touched : watch' = begin(touched) BY <1>1 DEF Reload
    <2> DEFINE w == [deadline |-> now + WatchWindow, touched |-> touched, previous |-> cfg,
                     target |-> current_target]
    <2>2. committed' = cfg /\ trial' = {cfg'}
        <3>1. watch' = {w} /\ w.previous = cfg BY <2>1 DEF begin
        <3> HIDE DEF w
        <3> QED BY <3>1
    <2>3. CASE watch = {}
        <3>1. Transaction!Begin BY <2>2, <2>3 DEF Transaction!Begin, Transaction!OnTrial
        <3> QED BY <3>1 DEF Transaction!Next
    <2>4. CASE watch # {}
        <3>1. Transaction!Supersede BY <2>2, <2>4 DEF Transaction!Supersede, Transaction!OnTrial
        <3> QED BY <3>1 DEF Transaction!Next
    <2> QED BY <2>3, <2>4
<1>2. ASSUME NEW n \in Names, FailWatched(n) PROVE Transaction!Next
    <2>1. PICK w \in watch : RollBack(w, n) BY <1>2 DEF FailWatched
    <2>2. watch' = {} /\ cfg' = w.previous BY <2>1 DEF RollBack
    <2>3. committed = w.previous BY <2>1, TheWatch DEF Types
    <2>4. Transaction!Revert BY <2>1, <2>2, <2>3 DEF Transaction!Revert
    <2> QED BY <2>4 DEF Transaction!Next
<1>3. ASSUME cfg' = cfg, watch' = {w \in watch : now < w.deadline}
      PROVE  Transaction!Next \/ UNCHANGED <<committed, trial>>
    <2>1. CASE watch' = watch
        <3>1. UNCHANGED <<cfg, watch>> BY <1>3, <2>1
        <3> QED BY <3>1
    <2>2. CASE watch' # watch
        <3>1. watch # {} /\ watch' = {} BY <1>3, <2>2 DEF Types, OneWatch
        <3>2. Transaction!Confirm BY <1>3, <3>1 DEF Transaction!Confirm
        <3> QED BY <3>2 DEF Transaction!Next
    <2> QED BY <2>1, <2>2
<1>4. CASE Check \/ \E n \in Names : GiveUp(n) \/ StayDown(n)
    <2>1. cfg' = cfg /\ watch' = {w \in watch : now < w.deadline}
        BY <1>4 DEF Check, GiveUp, StayDown, KeepWatching
    <2> QED BY <1>3, <2>1
<1>5. CASE Isolate \/ EditDisk \/ Tick \/ UNCHANGED vars \/ \E n \in Names : HaltUnwatched(n)
    <2>1. UNCHANGED <<cfg, watch>> BY <1>5 DEF Isolate, EditDisk, Tick, vars, HaltUnwatched
    <2> QED BY <2>1
<1> QED BY <1>1, <1>2, <1>4, <1>5 DEF Next, HardFailure

\* Reload, with its watch, its rollbacks and the failures that call them,
\* implements the transaction on configurations that rollback.rs promises.
THEOREM TransactionImplemented == Spec => TransactionSpec
BY TypesHold, TransactionInit, TransactionStep, PTL DEF Spec, TransactionSpec, Transaction!Spec

-----------------------------------------------------------------------------
(* What Load makes of the files.                                           *)

\* A set of natural numbers that is not empty has a least element.
LEMMA Least ==
    ASSUME NEW S, S \subseteq Nat, S # {}
    PROVE  \E m \in S : \A k \in S : m <= k
<1>1. IsWellFoundedOn(OpToRel(<, Nat), Nat) BY NatLessThanWellFounded
<1>2. PICK m \in S : \A k \in S : ~(<<k, m>> \in OpToRel(<, Nat)) BY <1>1, WFMin
<1>3. \A k \in S : ~(k < m) BY <1>2 DEF OpToRel
<1> QED BY <1>3

(* The three loops of module Config as one recursion over a sequence: what *)
(* each makes of the result so far and the next element.                   *)
Turn(loop, sofar, next) ==
    CASE loop = "parse" -> ParseLine(sofar, next)
      [] loop = "load_units" -> sofar \o parse_unit(next)
      [] loop = "merge_services" -> MergeOne(sofar, next)
Runs(h, loop, start, seq, n) ==
    h = [k \in 0 .. n |-> IF k = 0 THEN start ELSE Turn(loop, h[k - 1], seq[k])]

\* Each loop has results for every prefix: a least length without them would
\* extend those of the length before.
LEMMA RunsExist ==
    ASSUME NEW loop, NEW start, NEW seq, NEW n \in Nat
    PROVE  \E h : Runs(h, loop, start, seq, n)
<1> DEFINE Bad == {m \in Nat : ~\E h : Runs(h, loop, start, seq, m)}
<1>1. SUFFICES ASSUME n \in Bad PROVE FALSE OBVIOUS
<1>2. PICK m \in Bad : \A k \in Bad : m <= k
    <2>1. Bad \subseteq Nat /\ Bad # {} BY <1>1
    <2> HIDE DEF Bad
    <2> QED BY <2>1, Least
<1>3. CASE m = 0
    <2> DEFINE h == [k \in 0 .. 0 |-> start]
    <2>1. h = [k \in 0 .. 0 |-> IF k = 0 THEN start ELSE Turn(loop, h[k - 1], seq[k])] OBVIOUS
    <2> QED BY <1>2, <1>3, <2>1 DEF Runs
<1>4. CASE m # 0
    <2>1. m \in Nat /\ m - 1 \in Nat /\ ~(m <= m - 1) BY <1>2, <1>4
    <2>2. PICK g : Runs(g, loop, start, seq, m - 1) BY <1>2, <2>1
    <2>3. \A k \in 0 .. m - 1 : g[k] = IF k = 0 THEN start ELSE Turn(loop, g[k - 1], seq[k])
        BY <2>2, Zenon DEF Runs
    <2> DEFINE h == [k \in 0 .. m |-> IF k = m THEN Turn(loop, g[m - 1], seq[m]) ELSE g[k]]
    <2>4. ASSUME NEW k \in 0 .. m
          PROVE  h[k] = IF k = 0 THEN start ELSE Turn(loop, h[k - 1], seq[k])
        <3>1. CASE k = m
            <4>1. h[m] = Turn(loop, g[m - 1], seq[m]) /\ h[m - 1] = g[m - 1] BY <2>1
            <4> QED BY <1>4, <3>1, <4>1
        <3>2. CASE k # m
            <4>1. k \in 0 .. m - 1 BY <2>1, <3>2
            <4>2. h[k] = g[k] BY <3>2
            <4>3. k # 0 => h[k - 1] = g[k - 1] BY <2>1, <4>1
            <4>4. CASE k = 0 BY <2>3, <4>1, <4>2, <4>4
            <4>5. CASE k # 0
                <5>1. g[k] = Turn(loop, g[k - 1], seq[k]) BY <2>3, <4>1, <4>5
                <5> HIDE DEF h
                <5> QED BY <4>2, <4>3, <4>5, <5>1
            <4> QED BY <4>4, <4>5
        <3> QED BY <3>1, <3>2
    <2>5. Runs(h, loop, start, seq, m)
        <3>1. h = [k \in 0 .. m |-> h[k]] OBVIOUS
        <3> HIDE DEF h
        <3> QED BY <2>4, <3>1, Zenon DEF Runs
    <2> HIDE DEF h
    <2> QED BY <1>2, <2>5
<1> QED BY <1>3, <1>4

\* What the results are, step by step.
LEMMA RunsSteps ==
    ASSUME NEW h, NEW loop, NEW start, NEW seq, NEW n \in Nat, Runs(h, loop, start, seq, n)
    PROVE  /\ h[0] = start
           /\ \A k \in 1 .. n : h[k] = Turn(loop, h[k - 1], seq[k])
<1>1. \A k \in 0 .. n : h[k] = IF k = 0 THEN start ELSE Turn(loop, h[k - 1], seq[k])
    BY Zenon DEF Runs
<1>2. 0 \in 0 .. n OBVIOUS
<1>3. \A k \in 1 .. n : k \in 0 .. n /\ k # 0 OBVIOUS
<1> QED BY <1>1, <1>2, <1>3, Zenon

\* The definitions of module Config are such results.
LEMMA LoadUnitsRuns ==
    ASSUME NEW files, Len(files) \in Nat
    PROVE  \E h : Runs(h, "load_units", << >>, files, Len(files)) /\ load_units(files) = h[Len(files)]
<1> DEFINE Eq(h) == h = [k \in 0 .. Len(files) |-> IF k = 0 THEN << >> ELSE h[k - 1] \o parse_unit(files[k])]
<1>1. \A s, e : Turn("load_units", s, e) = s \o parse_unit(e) BY DEF Turn
<1>2. \A h : Runs(h, "load_units", << >>, files, Len(files)) <=> Eq(h)
    BY <1>1, Zenon DEF Runs
<1>3. \E h : Eq(h) BY <1>2, RunsExist
<1>4. \E h : Eq(h) /\ load_units(files) = h[Len(files)] BY <1>3, Zenon DEF load_units
<1> QED BY <1>2, <1>4

LEMMA MergeRuns ==
    ASSUME NEW base, NEW extra, Len(extra) \in Nat
    PROVE  \E h : /\ Runs(h, "merge_services", base, extra, Len(extra))
                  /\ merge_services(base, extra) = h[Len(extra)]
<1> DEFINE Eq(h) == h = [k \in 0 .. Len(extra) |-> IF k = 0 THEN base ELSE MergeOne(h[k - 1], extra[k])]
<1>1. \A s, e : Turn("merge_services", s, e) = MergeOne(s, e) BY DEF Turn
<1>2. \A h : Runs(h, "merge_services", base, extra, Len(extra)) <=> Eq(h)
    BY <1>1, Zenon DEF Runs
<1>3. \E h : Eq(h) BY <1>2, RunsExist
<1>4. \E h : Eq(h) /\ merge_services(base, extra) = h[Len(extra)] BY <1>3, Zenon DEF merge_services
<1> QED BY <1>2, <1>4

Blank == [Default EXCEPT !.services = << >>]
OrShell(c) == IF c.services = << >> THEN [c EXCEPT !.services = Default.services] ELSE c

LEMMA ParseRuns ==
    ASSUME NEW lines, Len(lines) \in Nat
    PROVE  \E h : /\ Runs(h, "parse", Blank, lines, Len(lines))
                  /\ parse(lines) = OrShell(h[Len(lines)])
<1> DEFINE Eq(h) == h = [k \in 0 .. Len(lines) |-> IF k = 0 THEN Blank ELSE ParseLine(h[k - 1], lines[k])]
<1>1. \A s, e : Turn("parse", s, e) = ParseLine(s, e) BY DEF Turn
<1>2. \A h : Runs(h, "parse", Blank, lines, Len(lines)) <=> Eq(h)
    BY <1>1, Zenon DEF Runs
<1>3. \E h : Eq(h) BY <1>2, RunsExist
<1>4. \E h : Eq(h) /\ parse(lines) = OrShell(h[Len(lines)]) BY <1>3, Zenon DEF parse, Blank, OrShell
<1> QED BY <1>2, <1>4

-----------------------------------------------------------------------------
\* One more element at the end.
LEMMA OneMore ==
    ASSUME NEW S, NEW s \in Seq(S), NEW d \in S
    PROVE  /\ s \o << >> = s
           /\ s \o <<d>> = Append(s, d)
           /\ Append(s, d) \in Seq(S) /\ Append(s, d) # << >>
           /\ DOMAIN Append(s, d) = 1 .. Len(s) + 1 /\ DOMAIN s = 1 .. Len(s) /\ Len(s) \in Nat
           /\ \A i \in DOMAIN s : Append(s, d)[i] = s[i]
           /\ Append(s, d)[Len(s) + 1] = d
           /\ ToSet(Append(s, d)) = ToSet(s) \cup {d}
<1>1. s \o << >> = s /\ s \o <<d>> = Append(s, d) OBVIOUS
<1>2. /\ Append(s, d) \in Seq(S) /\ Append(s, d) # << >>
      /\ DOMAIN Append(s, d) = 1 .. Len(s) + 1 /\ DOMAIN s = 1 .. Len(s) /\ Len(s) \in Nat
      /\ \A i \in DOMAIN s : Append(s, d)[i] = s[i]
      /\ Append(s, d)[Len(s) + 1] = d
    OBVIOUS
<1>3. ToSet(Append(s, d)) = ToSet(s) \cup {d}
    <2>1. \A i \in DOMAIN Append(s, d) : i \in DOMAIN s \/ i = Len(s) + 1 BY <1>2
    <2>2. \A i \in DOMAIN s : i \in DOMAIN Append(s, d) BY <1>2
    <2>3. Len(s) + 1 \in DOMAIN Append(s, d) BY <1>2
    <2> DEFINE t == Append(s, d)
    <2>4. \A i \in DOMAIN s : t[i] = s[i] BY <1>2
    <2>5. t[Len(s) + 1] = d BY <1>2
    <2>6. \A i \in DOMAIN t : i \in DOMAIN s \/ i = Len(s) + 1 BY <2>1
    <2>7. \A i \in DOMAIN s : i \in DOMAIN t BY <2>2
    <2>8. Len(s) + 1 \in DOMAIN t BY <2>3
    <2> HIDE DEF t
    <2>9. ToSet(t) = ToSet(s) \cup {d} BY <2>4, <2>5, <2>6, <2>7, <2>8 DEF ToSet
    <2> QED BY <2>9 DEF t
<1> QED BY <1>1, <1>2, <1>3

\* The first k indices.
LEMMA Prefix ==
    ASSUME NEW n \in Nat, NEW k \in 1 .. n
    PROVE  k - 1 \in 0 .. n /\ 1 .. k = (1 .. k - 1) \cup {k} /\ k \notin 1 .. k - 1
OBVIOUS

-----------------------------------------------------------------------------
(* services.d: the files that parse, each with a name of its own.          *)

UnitDef(f) == ServiceDef(f, UnitRestart(f.restart))
UnitsOf(files, k) == {UnitDef(f) : f \in {files[i] : i \in {j \in 1 .. k : Good(files[j])}}}
Directory(files) ==
    files \in Seq(ToSet(files)) /\ \A j, k \in DOMAIN files : files[j].name = files[k].name => j = k
OwnNames(s) == \A i, j \in DOMAIN s : s[i].name = s[j].name => i = j
UnitsUpto(s, files, k) ==
    /\ s \in Seq(UnitsOf(files, Len(files)))
    /\ ToSet(s) = UnitsOf(files, k)
    /\ OwnNames(s)

LEMMA UnitsStep ==
    ASSUME NEW files, Directory(files), NEW k \in 1 .. Len(files), NEW s,
           UnitsUpto(s, files, k - 1)
    PROVE  UnitsUpto(s \o parse_unit(files[k]), files, k)
<1> DEFINE S == UnitsOf(files, Len(files))
           d == UnitDef(files[k])
<1>1. Len(files) \in Nat /\ DOMAIN files = 1 .. Len(files) BY DEF Directory
<1>2. s \in Seq(S) /\ ToSet(s) = UnitsOf(files, k - 1) /\ OwnNames(s) BY DEF UnitsUpto
<1>3. k - 1 \in 0 .. Len(files) /\ 1 .. k = (1 .. k - 1) \cup {k} /\ k \notin 1 .. k - 1
    BY <1>1, Prefix
<1>4. CASE Good(files[k])
    <2>1. parse_unit(files[k]) = <<d>> BY <1>4 DEF parse_unit, Good, UnitDef
    <2>2. d \in S BY <1>1, <1>4 DEF UnitsOf
    <2>3. UnitsOf(files, k) = UnitsOf(files, k - 1) \cup {d} BY <1>3, <1>4 DEF UnitsOf
    <2>4. \A i \in DOMAIN s : s[i].name # d.name
        <3> SUFFICES ASSUME NEW i \in DOMAIN s, s[i].name = d.name PROVE FALSE OBVIOUS
        <3>1. s[i] \in UnitsOf(files, k - 1) BY <1>2 DEF ToSet
        <3>2. PICK j \in 1 .. k - 1 : s[i] = UnitDef(files[j]) BY <3>1 DEF UnitsOf
        <3>3. files[j].name = files[k].name BY <3>2 DEF UnitDef, ServiceDef
        <3>4. j \in DOMAIN files /\ k \in DOMAIN files /\ j # k BY <1>1, <1>3
        <3> QED BY <3>3, <3>4 DEF Directory
    <2> DEFINE t == Append(s, d)
    <2> HIDE DEF S, d
    <2>5. /\ s \o <<d>> = t /\ t \in Seq(S) /\ ToSet(t) = ToSet(s) \cup {d}
          /\ DOMAIN t = 1 .. Len(s) + 1 /\ DOMAIN s = 1 .. Len(s)
          /\ Len(s) \in Nat
          /\ \A i \in DOMAIN s : t[i] = s[i]
          /\ t[Len(s) + 1] = d
        BY <1>2, <2>2, OneMore
    <2> HIDE DEF t
    <2>6. OwnNames(t)
        <3> SUFFICES ASSUME NEW i \in DOMAIN t, NEW j \in DOMAIN t, t[i].name = t[j].name
                     PROVE  i = j
            BY DEF OwnNames
        <3>1. (i \in DOMAIN s \/ i = Len(s) + 1) /\ (j \in DOMAIN s \/ j = Len(s) + 1) BY <2>5
        <3>2. CASE i \in DOMAIN s /\ j \in DOMAIN s BY <1>2, <2>5, <3>2 DEF OwnNames
        <3>3. CASE i \in DOMAIN s /\ j = Len(s) + 1 BY <2>4, <2>5, <3>3
        <3>4. CASE i = Len(s) + 1 /\ j \in DOMAIN s BY <2>4, <2>5, <3>4
        <3> QED BY <3>1, <3>2, <3>3, <3>4
    <2>7. s \o parse_unit(files[k]) = t BY <2>1, <2>5
    <2> QED BY <1>2, <2>3, <2>5, <2>6, <2>7 DEF UnitsUpto, S
<1>5. CASE ~Good(files[k])
    <2>1. parse_unit(files[k]) = << >> BY <1>5 DEF parse_unit, Good
    <2>2. s \o << >> = s
        <3> HIDE DEF S
        <3> QED BY <1>2
    <2>3. UnitsOf(files, k) = UnitsOf(files, k - 1) BY <1>3, <1>5 DEF UnitsOf
    <2> QED BY <1>2, <2>1, <2>2, <2>3 DEF UnitsUpto
<1> QED BY <1>4, <1>5

LEMMA Units ==
    ASSUME NEW files, Directory(files)
    PROVE  UnitsUpto(load_units(files), files, Len(files))
<1>1. Len(files) \in Nat BY DEF Directory
<1>2. PICK h : /\ Runs(h, "load_units", << >>, files, Len(files))
               /\ load_units(files) = h[Len(files)]
    BY <1>1, LoadUnitsRuns
<1>3. h[0] = << >> /\ \A k \in 1 .. Len(files) : h[k] = Turn("load_units", h[k - 1], files[k])
    BY <1>1, <1>2, RunsSteps
<1> DEFINE Bad == {k \in 0 .. Len(files) : ~UnitsUpto(h[k], files, k)}
<1>4. Bad = {}
    <2> SUFFICES ASSUME Bad # {} PROVE FALSE OBVIOUS
    <2>1. PICK m \in Bad : \A k \in Bad : m <= k
        <3>1. Bad \subseteq Nat OBVIOUS
        <3> HIDE DEF Bad
        <3> QED BY <3>1, Least
    <2>2. CASE m = 0
        <3>1. << >> \in Seq(UnitsOf(files, Len(files))) OBVIOUS
        <3>2. UnitsOf(files, 0) = {} BY DEF UnitsOf
        <3>3. ToSet(<< >>) = {} /\ OwnNames(<< >>) BY DEF ToSet, OwnNames
        <3>4. UnitsUpto(h[0], files, 0) BY <1>3, <3>1, <3>2, <3>3 DEF UnitsUpto
        <3> QED BY <2>1, <2>2, <3>4
    <2>3. CASE m # 0
        <3>1. m \in 1 .. Len(files) /\ m - 1 \in 0 .. Len(files) /\ ~(m <= m - 1)
            BY <1>1, <2>1, <2>3
        <3>2. UnitsUpto(h[m - 1], files, m - 1) BY <2>1, <3>1
        <3>3. h[m] = h[m - 1] \o parse_unit(files[m])
            <4>1. \A s, e : Turn("load_units", s, e) = s \o parse_unit(e) BY DEF Turn
            <4> QED BY <1>3, <3>1, <4>1
        <3>4. UnitsUpto(h[m], files, m) BY <3>1, <3>2, <3>3, UnitsStep
        <3> QED BY <2>1, <3>4
    <2> QED BY <2>2, <2>3
<1>5. Len(files) \in 0 .. Len(files) BY <1>1
<1> QED BY <1>2, <1>4, <1>5

-----------------------------------------------------------------------------
(* merge_services: the first of a name stays.                              *)

Named(base, d) == \E e \in ToSet(base) : e.name = d.name
Beside(base, extra, k) == {extra[i] : i \in {j \in 1 .. k : ~Named(base, extra[j])}}
MergedUpto(s, base, extra, k) ==
    /\ s \in Seq(ToSet(base) \cup ToSet(extra))
    /\ ToSet(s) = ToSet(base) \cup Beside(base, extra, k)

LEMMA MergeStep ==
    ASSUME NEW base, NEW extra, Len(extra) \in Nat, DOMAIN extra = 1 .. Len(extra),
           OwnNames(extra), NEW k \in 1 .. Len(extra), NEW s,
           MergedUpto(s, base, extra, k - 1)
    PROVE  MergedUpto(MergeOne(s, extra[k]), base, extra, k)
<1> DEFINE S == ToSet(base) \cup ToSet(extra)
           d == extra[k]
<1>1. k - 1 \in 0 .. Len(extra) /\ 1 .. k = (1 .. k - 1) \cup {k} /\ k \notin 1 .. k - 1
    BY Prefix
<1>2. s \in Seq(S) /\ ToSet(s) = ToSet(base) \cup Beside(base, extra, k - 1) BY DEF MergedUpto
<1>3. (\E i \in DOMAIN s : s[i].name = d.name) <=> Named(base, d)
    <2>1. ASSUME NEW i \in DOMAIN s, s[i].name = d.name PROVE Named(base, d)
        <3>1. s[i] \in ToSet(base) \/ s[i] \in Beside(base, extra, k - 1) BY <1>2 DEF ToSet
        <3>2. CASE s[i] \in ToSet(base) BY <2>1, <3>2 DEF Named
        <3>3. CASE s[i] \in Beside(base, extra, k - 1)
            <4>1. PICK j \in 1 .. k - 1 : s[i] = extra[j] BY <3>3 DEF Beside
            <4>2. j \in DOMAIN extra /\ k \in DOMAIN extra /\ j # k BY <1>1
            <4> QED BY <2>1, <4>1, <4>2 DEF OwnNames
        <3> QED BY <3>1, <3>2, <3>3
    <2>2. ASSUME Named(base, d) PROVE \E i \in DOMAIN s : s[i].name = d.name
        <3>1. PICK e \in ToSet(base) : e.name = d.name BY <2>2 DEF Named
        <3>2. e \in ToSet(s) BY <1>2
        <3> QED BY <3>1, <3>2 DEF ToSet
    <2> QED BY <2>1, <2>2
<1>4. CASE Named(base, d)
    <2>1. MergeOne(s, d) = s BY <1>3, <1>4 DEF MergeOne
    <2>2. Beside(base, extra, k) = Beside(base, extra, k - 1) BY <1>1, <1>4 DEF Beside
    <2> QED BY <1>2, <2>1, <2>2 DEF MergedUpto
<1>5. CASE ~Named(base, d)
    <2>1. MergeOne(s, d) = Append(s, d) BY <1>3, <1>5 DEF MergeOne
    <2>2. Beside(base, extra, k) = Beside(base, extra, k - 1) \cup {d} BY <1>1, <1>5 DEF Beside
    <2>3. d \in S BY DEF ToSet
    <2> HIDE DEF S, d
    <2>4. Append(s, d) \in Seq(S) /\ ToSet(Append(s, d)) = ToSet(s) \cup {d} BY <1>2, <2>3, OneMore
    <2>5. ToSet(Append(s, d)) = ToSet(base) \cup Beside(base, extra, k) BY <1>2, <2>2, <2>4
    <2> QED BY <2>1, <2>4, <2>5 DEF MergedUpto, S, d
<1> QED BY <1>4, <1>5

LEMMA Merged ==
    ASSUME NEW base, base \in Seq(ToSet(base)), NEW extra, extra \in Seq(ToSet(extra)), OwnNames(extra)
    PROVE  MergedUpto(merge_services(base, extra), base, extra, Len(extra))
<1>1. Len(extra) \in Nat /\ DOMAIN extra = 1 .. Len(extra) OBVIOUS
<1>2. PICK h : /\ Runs(h, "merge_services", base, extra, Len(extra))
               /\ merge_services(base, extra) = h[Len(extra)]
    BY <1>1, MergeRuns
<1>3. h[0] = base /\ \A k \in 1 .. Len(extra) : h[k] = Turn("merge_services", h[k - 1], extra[k])
    BY <1>1, <1>2, RunsSteps
<1> DEFINE Bad == {k \in 0 .. Len(extra) : ~MergedUpto(h[k], base, extra, k)}
<1>4. Bad = {}
    <2> SUFFICES ASSUME Bad # {} PROVE FALSE OBVIOUS
    <2>1. PICK m \in Bad : \A k \in Bad : m <= k
        <3>1. Bad \subseteq Nat OBVIOUS
        <3> HIDE DEF Bad
        <3> QED BY <3>1, Least
    <2>2. CASE m = 0
        <3>1. base \in Seq(ToSet(base) \cup ToSet(extra)) OBVIOUS
        <3>2. Beside(base, extra, 0) = {} BY DEF Beside
        <3>3. MergedUpto(h[0], base, extra, 0) BY <1>3, <3>1, <3>2 DEF MergedUpto
        <3> QED BY <2>1, <2>2, <3>3
    <2>3. CASE m # 0
        <3>1. m \in 1 .. Len(extra) /\ m - 1 \in 0 .. Len(extra) /\ ~(m <= m - 1)
            BY <1>1, <2>1, <2>3
        <3>2. MergedUpto(h[m - 1], base, extra, m - 1) BY <2>1, <3>1
        <3>3. h[m] = MergeOne(h[m - 1], extra[m])
            <4>1. \A s, e : Turn("merge_services", s, e) = MergeOne(s, e) BY DEF Turn
            <4> QED BY <1>3, <3>1, <4>1
        <3>4. MergedUpto(h[m], base, extra, m) BY <1>1, <3>1, <3>2, <3>3, MergeStep
        <3> QED BY <2>1, <3>4
    <2> QED BY <2>2, <2>3
<1>5. Len(extra) \in 0 .. Len(extra) BY <1>1
<1> QED BY <1>2, <1>4, <1>5

-----------------------------------------------------------------------------
(* init.conf: the service lines that parse, and for each key the last      *)
(* value it is given.                                                      *)

Keys == {"hostname", "loglevel", "default_target"}
Shaped(c) == c = [x \in Keys \cup {"services"} |-> c[x]]
LineDef(f) == ServiceDef(f, InlineRestart(f.restart))
Fit(l) ==
    IF l.key = "service" THEN \E f \in l.fields : l.fields = {f}
    ELSE l.fields = {} /\ \A u, v \in l.value : u = v
Conf(lines) == lines \in Seq(ToSet(lines)) /\ \A l \in ToSet(lines) : Fit(l)
LinesOf(lines, k) ==
    {LineDef(f) : f \in {g \in UNION {lines[j].fields : j \in 1 .. k} : Good(g)}}
SetTo(lines, k, key, v) ==
    \/ \E j \in 1 .. k :
        /\ lines[j].key = key /\ lines[j].value = {v}
        /\ \A i \in j + 1 .. k : lines[i].key = key => lines[i].value = {}
    \/ v = Default[key] /\ \A j \in 1 .. k : lines[j].key = key => lines[j].value = {}
KeysUpto(c, lines, k) == \A key \in Keys : SetTo(lines, k, key, c[key])
ServicesUpto(s, lines, k) == s \in Seq(LinesOf(lines, Len(lines))) /\ ToSet(s) = LinesOf(lines, k)

\* What one line does to the configuration.
LEMMA LineEffect ==
    ASSUME NEW c, Shaped(c), NEW l
    PROVE  /\ Shaped(ParseLine(c, l))
           /\ ParseLine(c, l).services =
                IF l.key = "service" THEN c.services \o parse_service(CHOOSE f \in l.fields : TRUE)
                ELSE c.services
           /\ \A key \in Keys :
                ParseLine(c, l)[key] = IF l.key = key /\ l.value # {} THEN CHOOSE v \in l.value : TRUE
                                       ELSE c[key]
<1> DEFINE p == parse_service(CHOOSE f \in l.fields : TRUE)
           v == CHOOSE v \in l.value : TRUE
<1>1. CASE l.key = "service"
    <2>1. ParseLine(c, l) = [c EXCEPT !.services = @ \o p] BY <1>1 DEF ParseLine
    <2> HIDE DEF p, v
    <2>2. \A key \in Keys : l.key # key BY <1>1 DEF Keys
    <2>3. /\ Shaped(ParseLine(c, l)) /\ ParseLine(c, l).services = c.services \o p
          /\ \A key \in Keys : ParseLine(c, l)[key] = c[key]
        BY <2>1 DEF Shaped, Keys
    <2> QED BY <1>1, <2>2, <2>3 DEF p
<1>2. CASE l.key = "hostname" /\ l.value # {}
    <2>1. ParseLine(c, l) = [c EXCEPT !.hostname = v] BY <1>2 DEF ParseLine
    <2> HIDE DEF p, v
    <2> QED BY <1>2, <2>1 DEF Shaped, Keys, v
<1>3. CASE l.key = "loglevel" /\ l.value # {}
    <2>1. ParseLine(c, l) = [c EXCEPT !.loglevel = v] BY <1>3 DEF ParseLine
    <2> HIDE DEF p, v
    <2> QED BY <1>3, <2>1 DEF Shaped, Keys, v
<1>4. CASE l.key = "default_target" /\ l.value # {}
    <2>1. ParseLine(c, l) = [c EXCEPT !.default_target = v] BY <1>4 DEF ParseLine
    <2> HIDE DEF p, v
    <2> QED BY <1>4, <2>1 DEF Shaped, Keys, v
<1>5. CASE l.key # "service" /\ (l.key \in Keys => l.value = {})
    <2>1. ParseLine(c, l) = c BY <1>5 DEF ParseLine, Keys
    <2> QED BY <1>5, <2>1
<1> QED BY <1>1, <1>2, <1>3, <1>4, <1>5 DEF Keys

LEMMA ServicesStep ==
    ASSUME NEW lines, Conf(lines), NEW k \in 1 .. Len(lines), NEW c, Shaped(c),
           ServicesUpto(c.services, lines, k - 1)
    PROVE  ServicesUpto(ParseLine(c, lines[k]).services, lines, k)
<1> DEFINE l == lines[k]
           s == c.services
           S == LinesOf(lines, Len(lines))
<1>0. Len(lines) \in Nat /\ DOMAIN lines = 1 .. Len(lines) BY DEF Conf
<1>1. s \in Seq(S) /\ ToSet(s) = LinesOf(lines, k - 1) BY DEF ServicesUpto
<1>2. 1 .. k = (1 .. k - 1) \cup {k} BY <1>0, Prefix
<1>3. Fit(l) BY <1>0 DEF Conf, ToSet
<1>4. CASE l.key # "service"
    <2>1. ParseLine(c, l).services = s BY <1>4, LineEffect
    <2>2. l.fields = {} BY <1>3, <1>4 DEF Fit
    <2>3. LinesOf(lines, k) = LinesOf(lines, k - 1) BY <1>2, <2>2 DEF LinesOf
    <2> QED BY <1>1, <2>1, <2>3 DEF ServicesUpto
<1>5. CASE l.key = "service"
    <2>1. PICK f : l.fields = {f} BY <1>3, <1>5 DEF Fit
    <2>2. (CHOOSE g \in l.fields : TRUE) = f BY <2>1
    <2>3. ParseLine(c, l).services = s \o parse_service(f)
        <3>1. ParseLine(c, l).services =
                IF l.key = "service" THEN s \o parse_service(CHOOSE g \in l.fields : TRUE) ELSE s
            BY LineEffect, Zenon
        <3> QED BY <1>5, <2>2, <3>1, Zenon
    <2>4. CASE Good(f)
        <3> DEFINE d == LineDef(f)
        <3>1. parse_service(f) = <<d>> BY <2>4 DEF parse_service, Good, LineDef
        <3>2. f \in UNION {lines[j].fields : j \in 1 .. Len(lines)} BY <2>1
        <3>3. d \in S BY <2>4, <3>2 DEF LinesOf
        <3>4. LinesOf(lines, k) = LinesOf(lines, k - 1) \cup {d} BY <1>2, <2>1, <2>4 DEF LinesOf
        <3> HIDE DEF s, S, d
        <3>5. /\ s \o <<d>> = Append(s, d) /\ Append(s, d) \in Seq(S)
              /\ ToSet(Append(s, d)) = ToSet(s) \cup {d}
            BY <1>1, <3>3, OneMore
        <3>6. ParseLine(c, l).services = Append(s, d) BY <2>3, <3>1, <3>5
        <3>7. ToSet(Append(s, d)) = LinesOf(lines, k) BY <1>1, <3>4, <3>5
        <3> QED BY <3>5, <3>6, <3>7 DEF ServicesUpto, S
    <2>5. CASE ~Good(f)
        <3>1. parse_service(f) = << >> BY <2>5 DEF parse_service, Good
        <3>2. LinesOf(lines, k) = LinesOf(lines, k - 1) BY <1>2, <2>1, <2>5 DEF LinesOf
        <3>3. s \o << >> = s
            <4> HIDE DEF s, S
            <4> QED BY <1>1
        <3> QED BY <1>1, <2>3, <3>1, <3>2, <3>3 DEF ServicesUpto
    <2> QED BY <2>4, <2>5
<1> QED BY <1>4, <1>5

LEMMA KeysStep ==
    ASSUME NEW lines, Conf(lines), NEW k \in 1 .. Len(lines), NEW c, Shaped(c),
           KeysUpto(c, lines, k - 1)
    PROVE  KeysUpto(ParseLine(c, lines[k]), lines, k)
<1> DEFINE l == lines[k]
<1>0. Len(lines) \in Nat /\ DOMAIN lines = 1 .. Len(lines) BY DEF Conf
<1>1. 1 .. k = (1 .. k - 1) \cup {k} BY <1>0, Prefix
<1>2. Fit(l) BY <1>0 DEF Conf, ToSet
<1> SUFFICES ASSUME NEW key \in Keys PROVE SetTo(lines, k, key, ParseLine(c, l)[key])
    BY DEF KeysUpto
<1>3. SetTo(lines, k - 1, key, c[key]) BY DEF KeysUpto
<1>4. CASE l.key = key /\ l.value # {}
    <2>1. PICK v : v \in l.value BY <1>4
    <2>2. l.key # "service" BY <1>4 DEF Keys
    <2>3. l.value = {v} BY <1>2, <2>1, <2>2 DEF Fit
    <2>4. ParseLine(c, l)[key] = v
        <3>1. (CHOOSE u \in l.value : TRUE) = v BY <2>3
        <3>2. ParseLine(c, l)[key] = IF l.key = key /\ l.value # {} THEN CHOOSE u \in l.value : TRUE
                                     ELSE c[key]
            BY LineEffect, Zenon
        <3> QED BY <1>4, <3>1, <3>2, Zenon
    <2>5. \A i \in k + 1 .. k : FALSE BY <1>0
    <2> QED BY <1>0, <1>4, <2>3, <2>4, <2>5 DEF SetTo
<1>5. CASE ~(l.key = key /\ l.value # {})
    <2>1. ParseLine(c, l)[key] = c[key] BY <1>5, LineEffect
    <2>2. CASE c[key] = Default[key] /\ \A j \in 1 .. k - 1 : lines[j].key = key => lines[j].value = {}
        BY <1>1, <1>5, <2>1, <2>2 DEF SetTo
    <2>3. ASSUME NEW j \in 1 .. k - 1, lines[j].key = key, lines[j].value = {c[key]},
                 \A i \in j + 1 .. k - 1 : lines[i].key = key => lines[i].value = {}
          PROVE  SetTo(lines, k, key, c[key])
        <3>1. \A i \in j + 1 .. k : i \in j + 1 .. k - 1 \/ i = k BY <1>0
        <3>2. \A i \in j + 1 .. k : lines[i].key = key => lines[i].value = {} BY <1>5, <2>3, <3>1
        <3>3. j \in 1 .. k BY <1>1
        <3> QED BY <2>3, <3>2, <3>3 DEF SetTo
    <2> QED BY <1>3, <2>1, <2>2, <2>3 DEF SetTo
<1> QED BY <1>4, <1>5

\* All that is known of the configuration after k lines.
ConfUpto(c, lines, k) ==
    Shaped(c) /\ ServicesUpto(c.services, lines, k) /\ KeysUpto(c, lines, k)

LEMMA ConfParsed ==
    ASSUME NEW lines, Conf(lines)
    PROVE  \E c : ConfUpto(c, lines, Len(lines)) /\ parse(lines) = OrShell(c)
<1>1. Len(lines) \in Nat BY DEF Conf
<1>2. PICK h : Runs(h, "parse", Blank, lines, Len(lines)) /\ parse(lines) = OrShell(h[Len(lines)])
    BY <1>1, ParseRuns
<1>3. h[0] = Blank /\ \A k \in 1 .. Len(lines) : h[k] = Turn("parse", h[k - 1], lines[k])
    BY <1>1, <1>2, RunsSteps
<1> DEFINE Bad == {k \in 0 .. Len(lines) : ~ConfUpto(h[k], lines, k)}
<1>4. Bad = {}
    <2> SUFFICES ASSUME Bad # {} PROVE FALSE OBVIOUS
    <2>1. PICK m \in Bad : \A k \in Bad : m <= k
        <3>1. Bad \subseteq Nat OBVIOUS
        <3> HIDE DEF Bad
        <3> QED BY <3>1, Least
    <2>2. CASE m = 0
        <3>1. /\ Shaped(Blank) /\ Blank.services = << >>
              /\ \A key \in Keys : Blank[key] = Default[key]
            BY DEF Shaped, Blank, Default, Keys
        <3>2. LinesOf(lines, 0) = {} BY DEF LinesOf
        <3>3. ServicesUpto(<< >>, lines, 0)
            <4>1. ToSet(<< >>) = {} BY DEF ToSet
            <4>2. << >> \in Seq(LinesOf(lines, Len(lines))) OBVIOUS
            <4> QED BY <3>2, <4>1, <4>2 DEF ServicesUpto
        <3>4. KeysUpto(Blank, lines, 0)
            <4>1. \A j \in 1 .. 0 : FALSE OBVIOUS
            <4> QED BY <3>1, <4>1 DEF KeysUpto, SetTo
        <3> QED BY <1>3, <2>1, <2>2, <3>1, <3>3, <3>4 DEF ConfUpto
    <2>3. CASE m # 0
        <3>1. m \in 1 .. Len(lines) /\ m - 1 \in 0 .. Len(lines) /\ ~(m <= m - 1)
            BY <1>1, <2>1, <2>3
        <3>2. ConfUpto(h[m - 1], lines, m - 1) BY <2>1, <3>1
        <3>3. h[m] = ParseLine(h[m - 1], lines[m])
            <4>1. \A s, e : Turn("parse", s, e) = ParseLine(s, e) BY DEF Turn
            <4> QED BY <1>3, <3>1, <4>1
        <3>4. Shaped(h[m - 1]) /\ ServicesUpto(h[m - 1].services, lines, m - 1)
                 /\ KeysUpto(h[m - 1], lines, m - 1)
            BY <3>2 DEF ConfUpto
        <3>5. Shaped(ParseLine(h[m - 1], lines[m])) BY <3>4, LineEffect, Zenon
        <3>6. ServicesUpto(h[m].services, lines, m) BY <3>1, <3>3, <3>4, ServicesStep
        <3>7. KeysUpto(h[m], lines, m) BY <3>1, <3>3, <3>4, KeysStep
        <3> QED BY <2>1, <3>3, <3>5, <3>6, <3>7 DEF ConfUpto
    <2> QED BY <2>2, <2>3
<1>5. Len(lines) \in 0 .. Len(lines) BY <1>1
<1>6. ConfUpto(h[Len(lines)], lines, Len(lines)) BY <1>4, <1>5
<1> QED BY <1>2, <1>6

-----------------------------------------------------------------------------
(* What main makes of both.                                                *)

\* The same facts for a configuration before the unit files are added: its
\* services are what init.conf says or the built-in shell.
BaseOf(init) ==
    LET inline == {LineDef(f) : f \in {g \in UNION {l.fields : l \in UNION {ToSet(lines) : lines \in init}} : Good(g)}}
    IN  IF inline = {} THEN {mitos_shell} ELSE inline
KeyOf(v, key, init) ==
    \/ \E lines \in init : \E k \in DOMAIN lines :
        /\ lines[k].key = key /\ lines[k].value = {v}
        /\ \A j \in k + 1 .. Len(lines) : lines[j].key = key => lines[j].value = {}
    \/ v = Default[key] /\ \A l \in UNION {ToSet(lines) : lines \in init} : l.key = key => l.value = {}
KeysOf(c, init) == \A key \in Keys : KeyOf(c[key], key, init)

LEMMA InitLoaded ==
    ASSUME NEW init \in Inits
    PROVE  LET c == load_or_default(init)
           IN  /\ Shaped(c) /\ c.services \in Seq(ToSet(c.services))
               /\ ToSet(c.services) = BaseOf(init)
               /\ KeysOf(c, init)
<1> DEFINE c == load_or_default(init)
<1>0. /\ Shaped(Default) /\ Default.services = <<mitos_shell>>
      /\ <<mitos_shell>> \in Seq({mitos_shell}) /\ ToSet(<<mitos_shell>>) = {mitos_shell}
    BY DEF Shaped, Default, Keys, ToSet
<1>1. CASE init = {}
    <2>1. c = Default BY <1>1 DEF load_or_default
    <2>2. UNION {ToSet(lines) : lines \in init} = {} BY <1>1
    <2>3. BaseOf(init) = {mitos_shell} BY <2>2 DEF BaseOf
    <2>4. KeysOf(c, init) BY <2>1, <2>2 DEF KeysOf, KeyOf
    <2> QED BY <1>0, <2>1, <2>3, <2>4
<1>2. CASE init # {}
    <2>1. PICK lines : init = {lines}
        <3>1. \A a, b \in init : a = b BY ReloadAssumption
        <3>2. PICK lines : lines \in init BY <1>2
        <3>3. init = {lines} BY <3>1, <3>2
        <3> QED BY <3>3
    <2>2. Conf(lines) BY <2>1, ReloadAssumption DEF Conf, Fit
    <2>3. (CHOOSE x \in init : TRUE) = lines BY <2>1
    <2>4. c = parse(lines) BY <1>2, <2>3, Zenon DEF load_or_default
    <2>5. PICK b : ConfUpto(b, lines, Len(lines)) /\ parse(lines) = OrShell(b) BY <2>2, ConfParsed
    <2>6. Len(lines) \in Nat /\ DOMAIN lines = 1 .. Len(lines) BY <2>2 DEF Conf
    <2>7. UNION {ToSet(x) : x \in init} = ToSet(lines) BY <2>1
    <2>8. UNION {l.fields : l \in ToSet(lines)} = UNION {lines[j].fields : j \in 1 .. Len(lines)}
        BY <2>6 DEF ToSet
    <2> DEFINE inline == LinesOf(lines, Len(lines))
    <2>9. BaseOf(init) = IF inline = {} THEN {mitos_shell} ELSE inline
        BY <2>7, <2>8, Zenon DEF BaseOf, LinesOf
    <2>10. Shaped(b) /\ b.services \in Seq(inline) /\ ToSet(b.services) = inline /\ KeysUpto(b, lines, Len(lines))
        BY <2>5 DEF ConfUpto, ServicesUpto
    <2>11. /\ Shaped(c) /\ c.services = (IF b.services = << >> THEN <<mitos_shell>> ELSE b.services)
           /\ \A key \in Keys : c[key] = b[key]
        BY <1>0, <2>4, <2>5, <2>10 DEF OrShell, Shaped, Keys
    <2>12. b.services = << >> <=> inline = {}
        <3> HIDE DEF inline
        <3> QED BY <2>10 DEF ToSet
    <2>13. c.services \in Seq(ToSet(c.services)) /\ ToSet(c.services) = BaseOf(init)
        <3> HIDE DEF inline, c
        <3>1. CASE inline = {} BY <1>0, <2>9, <2>11, <2>12, <3>1
        <3>2. CASE inline # {} BY <2>9, <2>10, <2>11, <2>12, <3>2
        <3> QED BY <3>1, <3>2
    <2>14. KeysOf(c, init)
        <3> HIDE DEF c
        <3> SUFFICES ASSUME NEW key \in Keys
                     PROVE  \/ \E k \in DOMAIN lines :
                                /\ lines[k].key = key /\ lines[k].value = {c[key]}
                                /\ \A j \in k + 1 .. Len(lines) : lines[j].key = key => lines[j].value = {}
                            \/ c[key] = Default[key]
                               /\ \A l \in ToSet(lines) : l.key = key => l.value = {}
            BY <2>1, <2>7 DEF KeysOf, KeyOf
        <3>1. SetTo(lines, Len(lines), key, c[key]) BY <2>10, <2>11 DEF KeysUpto
        <3>2. \A l \in ToSet(lines) : \E j \in 1 .. Len(lines) : l = lines[j] BY <2>6 DEF ToSet
        <3> QED BY <2>6, <3>1, <3>2 DEF SetTo
    <2> QED BY <2>11, <2>13, <2>14
<1> QED BY <1>1, <1>2

LEMMA FilesLoaded ==
    ASSUME NEW files \in UnitDirs
    PROVE  LET u == load_units(files)
           IN  /\ u \in Seq(ToSet(u)) /\ OwnNames(u)
               /\ ToSet(u) = {UnitDef(f) : f \in {g \in ToSet(files) : Good(g)}}
<1>1. Directory(files) BY ReloadAssumption DEF Directory
<1>2. Len(files) \in Nat /\ DOMAIN files = 1 .. Len(files) BY <1>1 DEF Directory
<1> DEFINE u == load_units(files)
           all == UnitsOf(files, Len(files))
<1>3. u \in Seq(all) /\ ToSet(u) = all /\ OwnNames(u) BY <1>1, Units, Zenon DEF UnitsUpto
<1>4. all = {UnitDef(f) : f \in {g \in ToSet(files) : Good(g)}}
    <2>1. {files[i] : i \in {j \in 1 .. Len(files) : Good(files[j])}} = {g \in ToSet(files) : Good(g)}
        BY <1>2 DEF ToSet
    <2> QED BY <2>1, Zenon DEF UnitsOf
<1> HIDE DEF u, all
<1>5. u \in Seq(ToSet(u)) BY <1>3
<1> QED BY <1>3, <1>4, <1>5 DEF u

\* What Load makes of the files, as module Reload says it without an order.
LEMMA LoadedIsSaid ==
    ASSUME disk \in Disks
    PROVE  LET c == Load(disk.init, disk.units)
           IN  ToSet(c.services) = Said /\ KeysOf(c, disk.init)
<1> DEFINE b == load_or_default(disk.init)
           u == load_units(disk.units)
           c == Load(disk.init, disk.units)
<1>1. disk.init \in Inits /\ disk.units \in UnitDirs BY DEF Disks
<1>2. /\ Shaped(b) /\ b.services \in Seq(ToSet(b.services))
      /\ ToSet(b.services) = BaseOf(disk.init) /\ KeysOf(b, disk.init)
    BY <1>1, InitLoaded
<1>3. /\ u \in Seq(ToSet(u)) /\ OwnNames(u)
      /\ ToSet(u) = {UnitDef(f) : f \in {g \in ToSet(disk.units) : Good(g)}}
    BY <1>1, FilesLoaded
<1>4. BaseOf(disk.init) = IF Inline = {} THEN {mitos_shell} ELSE Inline
    BY Zenon DEF BaseOf, Inline, Lines, LineDef
<1>5. ToSet(u) = Files BY <1>3, Zenon DEF Files, UnitDef
<1>6. c = [b EXCEPT !.services = merge_services(b.services, u)] BY DEF Load
<1> HIDE DEF b, u, c
<1>7. c.services = merge_services(b.services, u) /\ \A key \in Keys : c[key] = b[key]
    BY <1>2, <1>6 DEF Shaped, Keys
<1>8. ToSet(c.services) = ToSet(b.services) \cup Beside(b.services, u, Len(u))
    <2>1. MergedUpto(merge_services(b.services, u), b.services, u, Len(u)) BY <1>2, <1>3, Merged
    <2> QED BY <1>7, <2>1 DEF MergedUpto
<1>9. Beside(b.services, u, Len(u)) = {d \in ToSet(u) : ~Named(b.services, d)}
    <2>1. DOMAIN u = 1 .. Len(u) BY <1>3
    <2> QED BY <2>1 DEF Beside, ToSet
<1>10. ToSet(c.services) = Said
    <2>1. \A d : ~Named(b.services, d) <=> \A e \in ToSet(b.services) : e.name # d.name BY DEF Named
    <2>2. ToSet(c.services) = ToSet(b.services) \cup {d \in Files : \A e \in ToSet(b.services) : e.name # d.name}
        BY <1>5, <1>8, <1>9, <2>1
    <2> QED BY <1>2, <1>4, <2>2, Zenon DEF Said
<1>11. KeysOf(c, disk.init) BY <1>2, <1>7 DEF KeysOf
<1> QED BY <1>10, <1>11 DEF c

LEMMA SeesDisk ==
    ASSUME Types, Reload
    PROVE  /\ ToSet(cfg'.services) = Said
           /\ \A key \in Keys :
                \/ LastSaid(key, cfg'[key])
                \/ cfg'[key] = Default[key] /\ \A l \in Lines : l.key = key => l.value = {}
           /\ \A d \in ToSet(cfg'.services) :
                d.target = current_target => running'[d.name] \subseteq {d, fallback_shell}
<1> DEFINE new == Load(disk.init, disk.units)
           subset == services_in(new.services, current_target)
<1>1. disk \in Disks BY DEF Types
<1>2. cfg' = new /\ ReloadServices(running, subset) BY DEF Reload
<1>3. ToSet(new.services) = Said /\ KeysOf(new, disk.init) BY <1>1, LoadedIsSaid
<1>4. new \in Configs BY <1>1, Loaded
<1> HIDE DEF new
<1>5. \A key \in Keys :
        \/ LastSaid(key, new[key])
        \/ new[key] = Default[key] /\ \A l \in Lines : l.key = key => l.value = {}
    BY <1>3, Zenon DEF KeysOf, KeyOf, LastSaid, Lines
<1>6. ASSUME NEW d \in ToSet(new.services), d.target = current_target
      PROVE  running'[d.name] \subseteq {d, fallback_shell}
    <2>1. subset \subseteq ToSet(new.services) /\ subset \subseteq Defs BY <1>4, ServicesIn
    <2> HIDE DEF subset
    <2>2. \A n \in Names :
            running'[n] \subseteq {e \in subset : e.name = n}
                \cup (IF n = Shell THEN {fallback_shell} ELSE {})
        BY <1>2, <2>1, ReloadRuns
    <2>3. \A e \in subset : e.name = d.name => e = d BY <1>4, <2>1, ReloadAssumption
    <2>4. d.name \in Names BY <1>4, ReloadAssumption DEF Defs
    <2> QED BY <2>2, <2>3, <2>4
<1> QED BY <1>2, <1>3, <1>5, <1>6

\* config.rs's load_or_default, parse and merge_services, units.rs's
\* load_units and the reload branch of run_event_loop: for every init.conf,
\* however long and in whatever order, and every services.d, what a reload puts
\* in force is what the files say, no more and no less.
THEOREM ReloadSeesDiskHolds == Spec => ReloadSeesDisk
<1>1. ASSUME Types, [Next]_vars, reloads' # reloads PROVE Reload
    <2>1. Next BY <1>1 DEF vars
    <2> QED BY <1>1, <2>1 DEF Next, Isolate, Check, EditDisk, Tick, HardFailure, FailWatched,
                              GiveUp, HaltUnwatched, StayDown, vars
<1>2. Types /\ [Next]_vars =>
        [reloads' # reloads =>
            /\ ToSet(cfg'.services) = Said
            /\ \A key \in {"hostname", "loglevel", "default_target"} :
                \/ LastSaid(key, cfg'[key])
                \/ cfg'[key] = Default[key] /\ \A l \in Lines : l.key = key => l.value = {}
            /\ \A d \in ToSet(cfg'.services) :
                d.target = current_target => running'[d.name] \subseteq {d, fallback_shell}]_vars
    BY <1>1, SeesDisk DEF Keys
<1> QED BY <1>2, TypesHold, PTL DEF Spec, ReloadSeesDisk

=============================================================================
