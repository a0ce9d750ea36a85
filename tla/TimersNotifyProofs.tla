------------------------- MODULE TimersNotifyProofs -------------------------
(***************************************************************************)
(* Theorems about two parts that keep a record per service name across     *)
(* restarts and reloads.                                                   *)
(*                                                                         *)
(* The timers, for every set of timers, services and pids, every sequence  *)
(* of reloads and any passage of time: type correctness, that runs of one  *)
(* timer never overlap, and that a timer with only OnBootSec= runs at most *)
(* once.                                                                   *)
(*                                                                         *)
(* The readiness record, for any number of instances and datagrams: type   *)
(* correctness, that it is about the instance that runs, and that what an  *)
(* instance says of its readiness is not lost on the way to it.            *)
(***************************************************************************)
EXTENDS Timers, Notify, FiniteSetTheorems, SequenceTheorems, TLAPS

(* What makes NoOverlap inductive: waitpid returns a child once, so a pid  *)
(* that reap takes from pending is not also alive.                         *)
OverlapInv == alive \cap zombie = {} /\ NoOverlap

(* What makes BootTimerFiresOnce inductive: the only trace that a boot     *)
(* timer's one run leaves is first its name in running and then the time   *)
(* in last_finished, and nothing forgets both; a definition now in force   *)
(* that repeats has been counted as repeating.                             *)
FiredInv ==
    /\ Repeating(timer_defs) \subseteq repeats
    /\ \A n \in Names \ repeats :
          runs[n] = 0 \/ (runs[n] = 1 /\ (n \in running \/ last_finished[n] # {}))

-----------------------------------------------------------------------------
\* STATE is initialised with the present time, once.
LEMMA InitializedType ==
    ASSUME boot \subseteq Nat, Cardinality(boot) <= 1, now \in Nat
    PROVE  Initialized \subseteq Nat /\ Cardinality(Initialized) <= 1
<1>1. Cardinality({now}) = 1 BY FS_Singleton
<1> QED BY <1>1 DEF Initialized

\* Only configured timers are due, and only ones that are not running.
LEMMA DueNames ==
    ASSUME TypeOK
    PROVE  due_names \subseteq Names /\ due_names \cap running = {}
BY TimersAssumption DEF due_names, TypeOK, TimerDef

\* The names of a set of timers that repeat are names.
LEMMA RepeatingType == ASSUME NEW ts \in TimerSets PROVE Repeating(ts) \subseteq Names
BY TimersAssumption DEF Repeating, TimerDef

\* One tick's effect: the names it starts and the pid of each.
Spawns(started, pid) ==
    /\ started \subseteq due_names \cap services
    /\ pid \in [started -> Pids \ (alive \cup zombie)]
    /\ \A m, n \in started : pid[m] = pid[n] => m = n
    /\ running' = running \cup started
    /\ pending' = [p \in DOMAIN pending \cup Range(pid) |->
                     IF p \in Range(pid) THEN CHOOSE n \in started : pid[n] = p
                     ELSE pending[p]]
    /\ alive' = alive \cup Range(pid)
    /\ runs' = [n \in Names |-> IF n \in started THEN runs[n] + 1 ELSE runs[n]]

LEMMA TickSpawns == ASSUME tick PROVE \E started, pid : Spawns(started, pid)
BY DEF tick, Spawns

\* The pid -> name table that one tick's spawns add: every pid is that of the
\* one name it was spawned for.
LEMMA NameOfPid ==
    ASSUME NEW started, NEW free, NEW pid \in [started -> free],
           \A m, n \in started : pid[m] = pid[n] => m = n
    PROVE  /\ Range(pid) \subseteq free
           /\ \A n \in started : pid[n] \in Range(pid)
           /\ \A n \in started : (CHOOSE m \in started : pid[m] = pid[n]) = n
           /\ \A p \in Range(pid) : /\ (CHOOSE m \in started : pid[m] = p) \in started
                                    /\ pid[CHOOSE m \in started : pid[m] = p] = p
BY DEF Range

-----------------------------------------------------------------------------
LEMMA TypeInit == Init => TypeOK
<1> SUFFICES ASSUME Init PROVE TypeOK OBVIOUS
<1>1. Cardinality(boot) <= 1 BY FS_EmptySet DEF Init
<1>2. DOMAIN pending \subseteq Pids /\ Range(pending) \subseteq Names BY DEF Init, Range
<1>3. repeats \subseteq Names BY RepeatingType DEF Init
<1> QED BY <1>1, <1>2, <1>3 DEF Init, TypeOK

LEMMA TypeStep == TypeOK /\ [Next]_vars => TypeOK'
<1> SUFFICES ASSUME TypeOK, [Next]_vars PROVE TypeOK' OBVIOUS
<1>1. CASE tick
    <2>1. PICK started, pid : Spawns(started, pid) BY <1>1, TickSpawns
    <2> USE <2>1 DEF Spawns
    <2>2. started \subseteq Names BY <2>1, DueNames
    <2>3. Range(pid) \subseteq Pids BY <2>1 DEF Range
    <2>4. DOMAIN pending' \subseteq Pids BY <2>1, <2>3 DEF TypeOK
    <2>5. Range(pending') \subseteq Names
        <3> SUFFICES ASSUME NEW p \in DOMAIN pending' PROVE pending'[p] \in Names
            BY DEF Range
        <3>1. CASE p \in Range(pid) BY <2>1, <2>2, <3>1, NameOfPid
        <3>2. CASE p \notin Range(pid)
            BY <2>1, <3>2 DEF TypeOK, Range
        <3> QED BY <3>1, <3>2
    <2>6. boot' \subseteq Nat /\ Cardinality(boot') <= 1
        BY <1>1, InitializedType DEF tick, TypeOK
    <2>7. runs' \in [Names -> Nat] BY <2>1 DEF TypeOK
    <2> QED BY <1>1, <2>1, <2>2, <2>3, <2>4, <2>5, <2>6, <2>7 DEF tick, TypeOK
<1>2. ASSUME NEW p \in Pids, reap(p) PROVE TypeOK'
    <2>1. boot' \subseteq Nat /\ Cardinality(boot') <= 1
        BY <1>2, InitializedType DEF reap, TypeOK
    <2>2. DOMAIN pending' \subseteq Pids /\ Range(pending') \subseteq Names
        BY <1>2 DEF reap, TypeOK, Range, Restrict
    <2> QED BY <1>2, <2>1, <2>2 DEF reap, TypeOK, history
<1>3. CASE ReapOther
    BY <1>3, InitializedType DEF ReapOther, TypeOK, kernel, history
<1>4. CASE Reload BY <1>4, RepeatingType DEF Reload, TypeOK, state, kernel
<1>5. ASSUME NEW p \in Pids, Exit(p) PROVE TypeOK'
    BY <1>5 DEF Exit, TypeOK, state, history
<1>6. CASE Clock BY <1>6 DEF Clock, TypeOK, state, kernel, history
<1>7. CASE UNCHANGED vars BY <1>7 DEF TypeOK, vars
<1> QED BY <1>1, <1>2, <1>3, <1>4, <1>5, <1>6, <1>7 DEF Next

-----------------------------------------------------------------------------
LEMMA OverlapInit == Init => OverlapInv
BY DEF Init, OverlapInv, NoOverlap, Range

\* A tick spawns only names that are not running, each with a pid of its own.
LEMMA OverlapStep == TypeOK /\ OverlapInv /\ [Next]_vars => OverlapInv'
<1> SUFFICES ASSUME TypeOK, OverlapInv, [Next]_vars PROVE OverlapInv' OBVIOUS
<1>1. CASE tick
    <2>1. PICK started, pid : Spawns(started, pid) BY <1>1, TickSpawns
    <2> USE <2>1 DEF Spawns
    <2>2. started \cap running = {} BY <2>1, DueNames
    <2>3. zombie' = zombie BY <1>1 DEF tick
    <2>4. Range(pid) \cap (alive \cup zombie) = {} BY <2>1 DEF Range
    <2>5. \A p \in Range(pid) : /\ pending'[p] \in started
                                /\ pid[pending'[p]] = p
        BY <2>1, NameOfPid
    <2>6. \A p \in DOMAIN pending : pending'[p] = pending[p] /\ pending[p] \in running
        BY <2>1, <2>4 DEF OverlapInv, NoOverlap, Range
    <2>7. DOMAIN pending' = alive' \cup zombie'
        BY <2>1, <2>3 DEF OverlapInv, NoOverlap
    <2>8. DOMAIN pending' = DOMAIN pending \cup Range(pid) BY <2>1
    <2>9. \A p, q \in DOMAIN pending' : pending'[p] = pending'[q] => p = q
        <3> SUFFICES ASSUME NEW p \in DOMAIN pending', NEW q \in DOMAIN pending',
                            pending'[p] = pending'[q]
                     PROVE  p = q
            OBVIOUS
        <3>1. CASE p \in Range(pid) /\ q \in Range(pid) BY <2>5, <3>1
        <3>2. CASE p \in DOMAIN pending /\ q \in DOMAIN pending
            BY <2>6, <3>2 DEF OverlapInv, NoOverlap
        <3>3. ASSUME NEW r \in Range(pid), NEW s \in DOMAIN pending
              PROVE  pending'[r] # pending'[s]
            BY <2>2, <2>5, <2>6
        <3> HIDE <2>1 DEF Spawns
        <3> QED BY <2>8, <3>1, <3>2, <3>3
    <2>10. running' = Range(pending')
        <3>1. Range(pending') \subseteq running'
            BY <2>1, <2>5, <2>6, <2>8 DEF Range
        <3>2. ASSUME NEW n \in started PROVE n \in Range(pending')
            <4>1. pid[n] \in Range(pid) BY DEF Range
            <4>2. pending'[pid[n]] = n BY <2>1, <2>5, <4>1
            <4> QED BY <2>8, <4>1, <4>2 DEF Range
        <3>3. ASSUME NEW n \in running PROVE n \in Range(pending')
            <4>1. PICK p \in DOMAIN pending : pending[p] = n
                BY DEF OverlapInv, NoOverlap, Range
            <4> QED BY <2>6, <2>8, <4>1 DEF Range
        <3> QED BY <2>1, <3>1, <3>2, <3>3
    <2>11. alive' \cap zombie' = {} BY <2>1, <2>3, <2>4 DEF OverlapInv
    <2> QED BY <2>7, <2>9, <2>10, <2>11 DEF OverlapInv, NoOverlap
<1>2. ASSUME NEW p \in Pids, reap(p) PROVE OverlapInv'
    <2>1. /\ p \in zombie /\ p \notin alive /\ p \in DOMAIN pending
          /\ alive' = alive /\ zombie' = zombie \ {p}
          /\ running' = running \ {pending[p]}
        BY <1>2 DEF reap, OverlapInv
    <2>2. pending' = [q \in DOMAIN pending \ {p} |-> pending[q]]
        BY <1>2 DEF reap, Restrict
    <2>3. \A q \in DOMAIN pending' : pending'[q] # pending[p]
        BY <2>1, <2>2 DEF OverlapInv, NoOverlap
    <2>4. running' = Range(pending')
        BY <2>1, <2>2, <2>3 DEF OverlapInv, NoOverlap, Range
    <2> QED BY <2>1, <2>2, <2>4 DEF OverlapInv, NoOverlap
<1>3. ASSUME NEW p \in Pids, Exit(p) PROVE OverlapInv'
    <2>1. alive' \cup zombie' = alive \cup zombie /\ alive' \cap zombie' = {}
        BY <1>3 DEF Exit, OverlapInv
    <2> QED BY <1>3, <2>1 DEF Exit, state, OverlapInv, NoOverlap
<1>4. CASE ReapOther \/ Reload \/ Clock \/ UNCHANGED vars
    BY <1>4 DEF ReapOther, Reload, Clock, vars, state, kernel, OverlapInv, NoOverlap
<1> QED BY <1>1, <1>2, <1>3, <1>4 DEF Next

-----------------------------------------------------------------------------
LEMMA FiredInit == Init => FiredInv
BY DEF Init, FiredInv

\* A timer that has run before is due again only under OnUnitActiveSec=.
LEMMA FirstOrRepeating ==
    ASSUME NEW n \in due_names
    PROVE  n \notin running /\ (last_finished[n] = {} \/ n \in Repeating(timer_defs))
BY DEF due_names, is_due, Repeating

LEMMA FiredStep == TypeOK /\ FiredInv /\ [Next]_vars => FiredInv'
<1> SUFFICES ASSUME TypeOK, FiredInv, [Next]_vars PROVE FiredInv' OBVIOUS
<1>1. CASE tick
    <2>1. PICK started \in SUBSET (due_names \cap services) :
            /\ running' = running \cup started
            /\ runs' = [n \in Names |-> IF n \in started THEN runs[n] + 1 ELSE runs[n]]
        BY <1>1 DEF tick
    <2>2. UNCHANGED <<timer_defs, repeats, last_finished>> BY <1>1 DEF tick
    <2>3. ASSUME NEW n \in Names \ repeats
          PROVE  runs'[n] = 0 \/ (runs'[n] = 1 /\ (n \in running' \/ last_finished[n] # {}))
        <3>1. CASE n \in started
            <4>1. n \notin running /\ last_finished[n] = {}
                BY <2>1, <2>3, <3>1, FirstOrRepeating DEF FiredInv
            <4> QED BY <2>1, <2>3, <3>1, <4>1 DEF FiredInv
        <3>2. CASE n \notin started BY <2>1, <2>3, <3>2 DEF FiredInv
        <3> QED BY <3>1, <3>2
    <2> QED BY <2>2, <2>3 DEF FiredInv
<1>2. ASSUME NEW p \in Pids, reap(p) PROVE FiredInv'
    <2>1. \A n \in Names : last_finished'[n] = IF n = pending[p] THEN {now} ELSE last_finished[n]
        BY <1>2 DEF reap, TypeOK
    <2> QED BY <1>2, <2>1 DEF reap, history, FiredInv
<1>3. CASE Reload BY <1>3 DEF Reload, state, FiredInv
<1>4. CASE \/ ReapOther \/ Clock \/ UNCHANGED vars
           \/ \E p \in Pids : Exit(p)
    BY <1>4 DEF ReapOther, Clock, Exit, vars, state, history, FiredInv
<1> QED BY <1>1, <1>2, <1>3, <1>4 DEF Next

-----------------------------------------------------------------------------
\* Whatever reloads and ticks do, the timers' state is well typed and STATE
\* is initialised at most once.
THEOREM TypeCorrect == Spec => []TypeOK
BY TypeInit, TypeStep, PTL DEF Spec

\* timers.rs: "a run that takes longer than the interval doesn't overlap with
\* itself", even if its timer is removed or changed meanwhile: each name has at
\* most one run that reap has not claimed, and running names exactly those.
THEOREM NoOverlapHolds == Spec => []NoOverlap
<1>1. OverlapInv => NoOverlap BY DEF OverlapInv
<1> QED BY <1>1, TypeCorrect, OverlapInit, OverlapStep, PTL DEF Spec

\* timers.rs: "a timer with only OnBootSec= set fires exactly once": a name that
\* has never had OnUnitActiveSec= is not run twice, however often reloads remove
\* its timer and bring it back.
THEOREM BootTimerFiresOnceHolds == Spec => []BootTimerFiresOnce
<1>1. TypeOK /\ FiredInv => BootTimerFiresOnce
    BY DEF TypeOK, FiredInv, BootTimerFiresOnce
<1> QED BY <1>1, TypeCorrect, FiredInit, FiredStep, PTL DEF Spec

-----------------------------------------------------------------------------
(* notify.rs.  What makes RecordIsCurrent inductive: unless something was  *)
(* on its way at the last forget, not only the record but every datagram   *)
(* still queued or in a listener thread's hands, at whichever socket, is   *)
(* from the present instance, since no other process of the service has    *)
(* run since.                                                              *)
RecordInv ==
    ~unread =>
        /\ \A s \in Instances : \A k \in 1 .. Len(inbox[s]) : inbox[s][k].from = instance
        /\ \A s \in Instances : \A d \in hand[s] : d.from = instance
        /\ ready => readyFrom = instance
        /\ ping => pingFrom = instance

\* What makes NotifyTypeOK inductive: a spawn in progress is of an instance.
NotifyTypeInv == NotifyTypeOK /\ (pc # "loop" => instance \in Instances)

LEMMA NotifyTypeInit == NotifyInit => NotifyTypeInv
<1>1. 0 \in 0 .. MaxInstances BY NotifyAssumption
<1>2. [s \in Instances |-> << >>] \in [Instances -> Seq(Datagram)] OBVIOUS
<1>3. 0 \in Nat OBVIOUS
<1>4. ASSUME NotifyInit
      PROVE  /\ hand \in [Instances -> SUBSET Datagram]
             /\ \A s \in Instances : \A d, e \in hand[s] : d = e /\ s \in listening
    BY <1>4 DEF NotifyInit
<1> QED BY <1>1, <1>2, <1>3, <1>4, Zenon DEF NotifyInit, NotifyTypeOK, NotifyTypeInv

LEMMA NotifyTypeStep == NotifyTypeInv /\ [NotifyNext]_notifyVars => NotifyTypeInv'
<1> SUFFICES ASSUME NotifyTypeInv, [NotifyNext]_notifyVars PROVE NotifyTypeInv' OBVIOUS
<1> NotifyTypeOK BY DEF NotifyTypeInv
<1> USE NotifyAssumption
<1>1. CASE BeginSpawn
    <2>1. instance' \in 1 .. MaxInstances BY <1>1 DEF BeginSpawn, NotifyTypeOK
    <2>2. instance' \in 0 .. MaxInstances BY <2>1
    <2>3. ready' \in BOOLEAN /\ ping' \in BOOLEAN /\ unread' \in BOOLEAN
        BY <1>1, Zenon DEF BeginSpawn, forget, OnTheWay
    <2> QED BY <1>1, <2>1, <2>2, <2>3 DEF BeginSpawn, NotifyTypeOK, NotifyTypeInv, Instances
<1>2. CASE listen_for
    <2>1. instance \in Instances /\ instance \in 0 .. MaxInstances /\ 0 \in 0 .. MaxInstances
        BY <1>2 DEF listen_for, NotifyTypeOK, NotifyTypeInv
    <2> QED BY <1>2, <2>1 DEF listen_for, record, NotifyTypeOK, NotifyTypeInv
<1>3. CASE Spawn BY <1>3 DEF Spawn, record, NotifyTypeOK, NotifyTypeInv
<1>4. CASE StayDown
    <2>1. ready' \in BOOLEAN /\ ping' \in BOOLEAN /\ unread' \in BOOLEAN
        BY <1>4, Zenon DEF StayDown, forget, OnTheWay
    <2> QED BY <1>4, <2>1 DEF StayDown, NotifyTypeOK, NotifyTypeInv
<1>5. ASSUME NEW i \in Instances, Send(i) PROVE NotifyTypeInv'
    <2>1. PICK m \in Message :
            /\ inbox' = [inbox EXCEPT ![path] = Append(@, [from |-> i, text |-> m])]
            /\ saidReady' = IF m = "READY=1" THEN saidReady \cup {i} ELSE saidReady
        BY <1>5 DEF Send
    <2>2. inbox' \in [Instances -> Seq(Datagram)]
        <3>1. [from |-> i, text |-> m] \in Datagram BY DEF Datagram
        <3>2. ASSUME NEW s \in Instances
              PROVE  Append(inbox[s], [from |-> i, text |-> m]) \in Seq(Datagram)
            BY <3>1 DEF NotifyTypeOK
        <3> QED BY <2>1, <3>2 DEF NotifyTypeOK
    <2> QED BY <1>5, <2>1, <2>2 DEF Send, record, NotifyTypeOK, NotifyTypeInv
<1>6. ASSUME NEW s \in Instances, recv(s) PROVE NotifyTypeInv'
    <2>1. Tail(inbox[s]) \in Seq(Datagram) /\ Head(inbox[s]) \in Datagram
        BY <1>6 DEF recv, NotifyTypeOK
    <2>2. inbox' \in [Instances -> Seq(Datagram)] BY <1>6, <2>1 DEF recv, NotifyTypeOK
    <2>3. /\ hand' \in [Instances -> SUBSET Datagram]
          /\ \A t \in Instances : \A d, e \in hand'[t] : d = e /\ t \in listening
        BY <1>6, <2>1 DEF recv, NotifyTypeOK
    <2> QED BY <1>6, <2>2, <2>3 DEF recv, record, NotifyTypeOK, NotifyTypeInv
<1>8. ASSUME NEW s \in Instances, mark(s) PROVE NotifyTypeInv'
    <2>1. /\ hand' \in [Instances -> SUBSET Datagram]
          /\ \A t \in Instances : \A d, e \in hand'[t] : d = e /\ t \in listening
        BY <1>8 DEF mark, NotifyTypeOK
    <2>2. ready' \in BOOLEAN /\ ping' \in BOOLEAN /\ unread' \in BOOLEAN
        BY <1>8 DEF mark, mark_ready, mark_ping, NotifyTypeOK
    <2> QED BY <1>8, <2>1, <2>2 DEF mark, NotifyTypeOK, NotifyTypeInv
<1>7. CASE UNCHANGED notifyVars BY <1>7 DEF notifyVars, NotifyTypeOK, NotifyTypeInv
<1> QED BY <1>1, <1>2, <1>3, <1>4, <1>5, <1>6, <1>7, <1>8 DEF NotifyNext, run

LEMMA RecordInit == NotifyInit => RecordInv
BY DEF NotifyInit, RecordInv

\* After forget there is no record, and nothing on its way unless unread says so.
LEMMA ForgetRecord ==
    ASSUME NotifyTypeOK, forget, inbox' = inbox, hand' = hand PROVE RecordInv'
<1>1. ASSUME ~unread', NEW s \in Instances PROVE Len(inbox'[s]) = 0 /\ hand'[s] = {}
    BY <1>1 DEF forget, OnTheWay
<1> QED BY <1>1 DEF forget, RecordInv

LEMMA RecordStep == NotifyTypeOK /\ RecordInv /\ [NotifyNext]_notifyVars => RecordInv'
<1> SUFFICES ASSUME NotifyTypeOK, RecordInv, [NotifyNext]_notifyVars PROVE RecordInv' OBVIOUS
<1>1. CASE BeginSpawn \/ StayDown BY <1>1, ForgetRecord DEF BeginSpawn, StayDown
<1>2. CASE listen_for \/ Spawn \/ UNCHANGED notifyVars
    BY <1>2 DEF listen_for, Spawn, record, notifyVars, RecordInv
<1>3. ASSUME NEW i \in Instances, Send(i), ~unread PROVE RecordInv'
    <2>1. PICK m \in Message :
            inbox' = [inbox EXCEPT ![path] = Append(@, [from |-> i, text |-> m])]
        BY <1>3 DEF Send
    <2>2. i = instance BY <1>3 DEF Send, NotifyTypeOK
    <2>3. ASSUME NEW s \in Instances, NEW k \in 1 .. Len(inbox'[s])
          PROVE  inbox'[s][k].from = instance
        <3>1. CASE s # path BY <2>1, <2>3, <3>1, <1>3 DEF RecordInv, NotifyTypeOK
        <3>2. CASE s = path
            <4>1. inbox[s] \in Seq(Datagram) BY DEF NotifyTypeOK
            <4>2. inbox'[s] = Append(inbox[s], [from |-> i, text |-> m])
                BY <2>1, <3>2 DEF NotifyTypeOK
            <4>3. CASE k = Len(inbox[s]) + 1 BY <2>2, <4>1, <4>2, <4>3
            <4>4. CASE k \in 1 .. Len(inbox[s])
                <5>1. inbox'[s][k] = inbox[s][k] BY <4>1, <4>2, <4>4
                <5> QED BY <1>3, <4>4, <5>1 DEF RecordInv
            <4> QED BY <4>1, <4>2, <4>3, <4>4
        <3> QED BY <3>1, <3>2
    <2> QED BY <1>3, <2>3 DEF Send, record, RecordInv
<1>4. ASSUME NEW s \in Instances, recv(s), ~unread PROVE RecordInv'
    <2>1. /\ inbox[s] \in Seq(Datagram) /\ inbox[s] # << >>
          /\ inbox' = [inbox EXCEPT ![s] = Tail(inbox[s])] /\ instance' = instance
        BY <1>4 DEF recv, NotifyTypeOK
    <2>2. Head(inbox[s]).from = instance
        <3>1. Head(inbox[s]) = inbox[s][1] /\ 1 \in 1 .. Len(inbox[s]) BY <2>1
        <3> QED BY <1>4, <3>1 DEF RecordInv
    <2>3. ASSUME NEW t \in Instances, NEW k \in 1 .. Len(inbox'[t])
          PROVE  inbox'[t][k].from = instance
        <3>1. CASE t # s BY <1>4, <2>1, <2>3, <3>1 DEF RecordInv, NotifyTypeOK
        <3>2. CASE t = s
            <4>1. inbox'[s] = Tail(inbox[s]) BY <2>1 DEF NotifyTypeOK
            <4>2. k \in 1 .. Len(Tail(inbox[s])) BY <2>3, <3>2, <4>1
            <4>3. k + 1 \in 1 .. Len(inbox[s]) /\ Tail(inbox[s])[k] = inbox[s][k + 1]
                BY <2>1, <4>2
            <4> QED BY <1>4, <3>2, <4>1, <4>3 DEF RecordInv
        <3> QED BY <3>1, <3>2
    <2>4. (ready' => readyFrom' = instance) /\ (ping' => pingFrom' = instance)
        BY <1>4 DEF recv, record, RecordInv
    <2>5. \A t \in Instances : \A d \in hand'[t] : d.from = instance
        BY <1>4, <2>2 DEF recv, RecordInv, NotifyTypeOK
    <2> QED BY <2>1, <2>3, <2>4, <2>5 DEF RecordInv
<1>6. ASSUME NEW s \in Instances, mark(s), ~unread PROVE RecordInv'
    BY <1>6 DEF mark, mark_ready, mark_ping, RecordInv, NotifyTypeOK
<1>5. ASSUME NEW s \in Instances, Send(s) \/ run(s), unread PROVE RecordInv'
    BY <1>5 DEF Send, run, recv, mark, record, mark_ready, mark_ping, RecordInv
<1> QED BY <1>1, <1>2, <1>3, <1>4, <1>5, <1>6 DEF NotifyNext, run

\* Through restarts, failed binds and failed spawns the readiness record is well
\* typed, at most the present instance runs, and only instances whose socket has
\* a listener thread were told of one.
THEOREM NotifyTypeCorrect == NotifySpec => []NotifyTypeOK
<1>1. NotifyTypeInv => NotifyTypeOK BY DEF NotifyTypeInv
<1> QED BY <1>1, NotifyTypeInit, NotifyTypeStep, PTL DEF NotifySpec

\* notify.rs: forget is called "so a stale ready/ping record from a previous
\* instance doesn't leak into a freshly (re)started one".  For any number of
\* restarts and datagrams it does not, unless a listener thread still had a
\* datagram to receive or to mark when forget was last called.
THEOREM RecordIsCurrentHolds == NotifySpec => []RecordIsCurrent
<1>1. RecordInv => RecordIsCurrent BY DEF RecordInv, RecordIsCurrent
<1> QED BY <1>1, NotifyTypeCorrect, RecordInit, RecordStep, PTL DEF NotifySpec

-----------------------------------------------------------------------------
(* What of ReadyNotLost is safety: only the scheduling of a listener       *)
(* thread stands between a READY=1 and the record.                         *)

ReadySaid(i) == [from |-> i, text |-> "READY=1"]
Queued(i) == \E s \in listening : \E k \in 1 .. Len(inbox[s]) : inbox[s][k] = ReadySaid(i)
Held(i) == \E s \in Instances : ReadySaid(i) \in hand[s]
ReadyKept == \A i \in up : i \in saidReady => ready \/ Queued(i) \/ Held(i)

\* What makes it inductive: an instance being started has said nothing yet,
\* and one that was told of a socket finds at the path its own.
SaidInv ==
    /\ \A i \in told \cup saidReady : i <= instance
    /\ pc = "listen" => instance \notin told
    /\ pc # "loop" => instance \notin saidReady /\ up = {}
    /\ pc # "listen" /\ instance \in told => path = instance
    /\ ReadyKept

LEMMA SaidInit == NotifyInit => SaidInv
BY DEF NotifyInit, SaidInv, ReadyKept

\* A datagram stays queued when another one is added or taken.
LEMMA QueuedSend ==
    ASSUME NotifyTypeOK, NEW i \in Instances, Send(i), NEW n, Queued(n) PROVE Queued(n)'
<1>1. PICK m \in Message : inbox' = [inbox EXCEPT ![path] = Append(@, [from |-> i, text |-> m])]
    BY DEF Send
<1>2. PICK s \in listening : \E k \in 1 .. Len(inbox[s]) : inbox[s][k] = ReadySaid(n) BY DEF Queued
<1>3. PICK k \in 1 .. Len(inbox[s]) : inbox[s][k] = ReadySaid(n) BY <1>2
<1>4. s \in Instances /\ inbox[s] \in Seq(Datagram) /\ listening' = listening
    BY DEF NotifyTypeOK, Send
<1>5. k \in 1 .. Len(inbox'[s]) /\ inbox'[s][k] = inbox[s][k]
    <2>1. CASE s # path BY <1>1, <1>4, <2>1 DEF NotifyTypeOK
    <2>2. CASE s = path
        <3>1. inbox'[s] = Append(inbox[s], [from |-> i, text |-> m]) BY <1>1, <1>4, <2>2 DEF NotifyTypeOK
        <3> QED BY <1>4, <3>1
    <2> QED BY <2>1, <2>2
<1> QED BY <1>3, <1>4, <1>5 DEF Queued, ReadySaid

LEMMA QueuedRecv ==
    ASSUME NotifyTypeOK, NEW t \in Instances, recv(t), NEW n, Queued(n) PROVE Queued(n)' \/ Held(n)'
<1>1. PICK s \in listening : \E k \in 1 .. Len(inbox[s]) : inbox[s][k] = ReadySaid(n) BY DEF Queued
<1>2. PICK k \in 1 .. Len(inbox[s]) : inbox[s][k] = ReadySaid(n) BY <1>1
<1>3. s \in Instances /\ inbox[s] \in Seq(Datagram) /\ listening' = listening
    BY DEF NotifyTypeOK, recv
<1>4. CASE s # t
    <2>1. inbox'[s] = inbox[s] BY <1>3, <1>4 DEF recv, NotifyTypeOK
    <2> QED BY <1>2, <1>3, <2>1 DEF Queued, ReadySaid
<1>5. CASE s = t
    <2>1. inbox[s] # << >> /\ inbox'[s] = Tail(inbox[s]) BY <1>3, <1>5 DEF recv, NotifyTypeOK
    <2>2. CASE k = 1
        <3>1. Head(inbox[s]) = ReadySaid(n) BY <1>2, <1>3, <2>1, <2>2
        <3>2. hand'[s] = {ReadySaid(n)} BY <1>3, <1>5, <3>1 DEF recv, NotifyTypeOK
        <3> QED BY <1>3, <3>2 DEF Held, ReadySaid
    <2>3. CASE k # 1
        <3>1. k - 1 \in 1 .. Len(Tail(inbox[s])) /\ Tail(inbox[s])[k - 1] = inbox[s][k]
            BY <1>3, <2>1, <2>3
        <3> QED BY <1>2, <1>3, <2>1, <3>1 DEF Queued, ReadySaid
    <2> QED BY <2>2, <2>3
<1> QED BY <1>4, <1>5

\* A datagram in hand stays there until it is marked.
LEMMA HeldRun ==
    ASSUME NotifyTypeOK, NEW t \in Instances, run(t), NEW n, Held(n) PROVE ready' \/ Held(n)'
<1>1. PICK s \in Instances : ReadySaid(n) \in hand[s] BY DEF Held
<1>2. CASE s # t
    <2>1. hand'[s] = hand[s] BY <1>1, <1>2 DEF run, recv, mark, NotifyTypeOK
    <2> QED BY <1>1, <2>1 DEF Held, ReadySaid
<1>3. CASE s = t
    <2>1. mark(s) BY <1>1, <1>3 DEF run, recv
    <2>2. hand[s] = {ReadySaid(n)} BY <1>1 DEF NotifyTypeOK
    <2>3. ReadySaid(n).text = "READY=1" BY DEF ReadySaid
    <2> QED BY <2>1, <2>2, <2>3 DEF mark, mark_ready
<1> QED BY <1>2, <1>3

LEMMA SaidStep == NotifyTypeInv /\ SaidInv /\ [NotifyNext]_notifyVars => SaidInv'
<1> SUFFICES ASSUME NotifyTypeInv, SaidInv, [NotifyNext]_notifyVars PROVE SaidInv' OBVIOUS
<1>0. /\ NotifyTypeOK /\ instance \in Nat
      /\ told \subseteq Instances /\ saidReady \subseteq Instances /\ listening \subseteq Instances
      /\ \A i \in Instances : i \in Nat
    BY NotifyAssumption DEF NotifyTypeInv, NotifyTypeOK, Instances
<1>1. CASE BeginSpawn BY <1>0, <1>1 DEF BeginSpawn, SaidInv, ReadyKept
<1>2. CASE listen_for BY <1>0, <1>2 DEF listen_for, SaidInv, ReadyKept
<1>3. CASE Spawn BY <1>0, <1>3 DEF Spawn, SaidInv, ReadyKept
<1>4. CASE StayDown BY <1>0, <1>4 DEF StayDown, SaidInv, ReadyKept
<1>5. ASSUME NEW i \in Instances, Send(i) PROVE SaidInv'
    <2>1. PICK m \in Message :
            /\ inbox' = [inbox EXCEPT ![path] = Append(@, [from |-> i, text |-> m])]
            /\ saidReady' = IF m = "READY=1" THEN saidReady \cup {i} ELSE saidReady
        BY <1>5 DEF Send
    <2>2. i = instance /\ up = {i} /\ i \in told /\ i \in listening
        BY <1>0, <1>5 DEF Send, NotifyTypeOK
    <2>3. pc = "loop" /\ path = i BY <2>2 DEF SaidInv
    <2>4. /\ UNCHANGED <<pc, instance, path, listening, up, told>> /\ ready' = ready
        BY <1>5 DEF Send, record
    <2>5. ReadyKept'
        <3> SUFFICES ASSUME i \in saidReady' PROVE ready' \/ Queued(i)' \/ Held(i)'
            BY <2>2, <2>4 DEF ReadyKept
        <3>1. CASE i \in saidReady
            <4>1. ready \/ Queued(i) \/ Held(i) BY <2>2, <3>1 DEF SaidInv, ReadyKept
            <4>2. Held(i) => Held(i)' BY <1>5 DEF Send, Held, ReadySaid
            <4> QED BY <1>0, <1>5, <2>4, <4>1, <4>2, QueuedSend
        <3>2. CASE i \notin saidReady
            <4>1. m = "READY=1" BY <2>1, <3>2
            <4>2. inbox'[i] = Append(inbox[i], ReadySaid(i)) /\ inbox[i] \in Seq(Datagram)
                BY <1>0, <2>1, <2>3, <4>1 DEF NotifyTypeOK, ReadySaid
            <4>3. ReadySaid(i) \in Datagram BY DEF ReadySaid, Datagram, Message
            <4>4. Len(inbox[i]) + 1 \in 1 .. Len(inbox'[i]) /\ inbox'[i][Len(inbox[i]) + 1] = ReadySaid(i)
                BY <4>2, <4>3
            <4> QED BY <2>2, <2>4, <4>4 DEF Queued, ReadySaid
        <3> QED BY <3>1, <3>2
    <2> QED BY <1>0, <2>1, <2>2, <2>3, <2>4, <2>5 DEF SaidInv
<1>6. ASSUME NEW t \in Instances, run(t) PROVE SaidInv'
    <2>1. UNCHANGED <<pc, instance, path, listening, up, told, saidReady>> /\ (ready => ready')
        BY <1>6 DEF run, recv, mark, record, mark_ready, mark_ping
    <2>2. ReadyKept'
        <3> SUFFICES ASSUME NEW i \in up, i \in saidReady
                     PROVE  ready' \/ Queued(i)' \/ Held(i)'
            BY <2>1 DEF ReadyKept
        <3>1. ready \/ Queued(i) \/ Held(i) BY DEF SaidInv, ReadyKept
        <3>2. mark(t) => (Queued(i) => Queued(i)') BY DEF mark, Queued, ReadySaid
        <3> QED BY <1>0, <1>6, <2>1, <3>1, <3>2, QueuedRecv, HeldRun DEF run
    <2> QED BY <2>1, <2>2 DEF SaidInv
<1>7. CASE UNCHANGED notifyVars
    <2>1. (Queued(instance)' <=> Queued(instance)) /\ (Held(instance)' <=> Held(instance))
        BY <1>7 DEF notifyVars, Queued, Held, ReadySaid
    <2> QED BY <1>0, <1>7, <2>1 DEF notifyVars, SaidInv, ReadyKept, NotifyTypeOK
<1> QED BY <1>1, <1>2, <1>3, <1>4, <1>5, <1>6, <1>7 DEF NotifyNext

\* notify.rs (forget, listen_for, run): what a running instance has said of its
\* readiness is recorded, or waits in a queue that a listener thread reads, or
\* is what such a thread has received and is about to mark, for any number of
\* restarts, failed binds and failed spawns; no forget and no rebinding falls
\* between the three.
THEOREM ReadyKeptHolds == NotifySpec => []ReadyKept
<1>1. SaidInv => ReadyKept BY DEF SaidInv
<1>2. NotifySpec => []NotifyTypeInv BY NotifyTypeInit, NotifyTypeStep, PTL DEF NotifySpec
<1> QED BY <1>1, <1>2, SaidInit, SaidStep, PTL DEF NotifySpec
=============================================================================
