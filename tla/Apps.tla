-------------------------------- MODULE Apps --------------------------------
(***************************************************************************)
(* On-demand apps (apps.rs) and the reap chain of the event loop.  launch  *)
(* runs on the control socket's thread; the main thread reaps every child  *)
(* and offers each exit to timers::reap, then apps::reap, then             *)
(* handle_exit.  The two threads share the registry and the kernel's pids. *)
(*                                                                         *)
(* Services and timer one-shots appear as the pids their owners know; what *)
(* the owners do is in modules Supervisor and Timers.  The kernel and      *)
(* mitos-service are external.  A pid is free again once its exit has been *)
(* dispatched: the kernel goes round the whole range of pids first.        *)
(***************************************************************************)
EXTENDS Naturals, FiniteSets, Functions

CONSTANTS Pids,
          Daemon,       \* what mitos-service may be: not there, answering, stuck with
                        \* connections it does not accept, or sending byte after byte
          Backlog,      \* connections its listening socket queues before connect blocks
          MaxLaunches, MaxServices, MaxTimers, MaxForks  \* bounds of the model

ASSUME AppsAssumption ==
    /\ IsFiniteSet(Pids)
    /\ Daemon \subseteq {"absent", "answering", "stuck", "trickling"}
    /\ Backlog \in Nat \ {0} /\ MaxLaunches \in Nat /\ MaxServices \in Nat
    /\ MaxTimers \in Nat /\ MaxForks \in Nat

VARIABLES daemon, backlog,  \* mitos-service
          pc,        \* where launch is, "idle" between LAUNCH commands
          id,        \* NEXT_SEQ: the number of the app being launched
          child,     \* launch: Option of the pid spawn has forked
          registry,  \* Registry::by_pid: pid -> app id
          services, oneshots,  \* pids in Supervisor::services, in timers' pending
          reaped,    \* Option of the pid waitpid has returned
          alive, zombie, doomed,  \* kernel
          group,     \* kernel: pid -> id of the app whose cgroup it is in, 0 for none
          owner,     \* history: pid -> who started it
          claimed,   \* history: Option of the last exit and who claimed it
          missed,    \* history: the main thread reaped an app before launch was done with it
          started    \* history: services and one-shots started, children forked

ipcVars == <<daemon, backlog, pc, id, child>>
mainVars == <<services, oneshots, reaped, claimed, missed>>
kernelVars == <<alive, zombie, doomed, group, owner>>
vars == <<daemon, backlog, pc, id, child, registry, services, oneshots, reaped,
          alive, zombie, doomed, group, owner, claimed, missed, started>>

FreePids == Pids \ (alive \cup zombie \cup reaped)

\* fork: who is the owner of the new child, in is the cgroup it starts in.
NewChild(p, who, in) ==
    /\ p \in FreePids
    /\ alive' = alive \cup {p}
    /\ owner' = [owner EXCEPT ![p] = who] /\ group' = [group EXCEPT ![p] = in]
    /\ UNCHANGED <<zombie, doomed>>

-----------------------------------------------------------------------------
(* launch, on the control socket's thread.                                 *)

Launch ==
    /\ pc = "idle" /\ id < MaxLaunches
    /\ pc' = "hash"
    /\ UNCHANGED <<daemon, backlog, id, child, registry, mainVars, kernelVars, started>>

hash_file ==
    /\ pc = "hash" /\ pc' \in {"connect", "idle"}
    /\ UNCHANGED <<daemon, backlog, id, child, registry, mainVars, kernelVars, started>>

\* authorize: connect has no time limit, and waits for room in the backlog.
Connect ==
    /\ pc = "connect"
    /\ \/ daemon = "absent" /\ pc' = "next_id" /\ UNCHANGED backlog
       \/ daemon # "absent" /\ backlog < Backlog /\ backlog' = backlog + 1 /\ pc' = "ask"
    /\ UNCHANGED <<daemon, id, child, registry, mainVars, kernelVars, started>>

Accepting == daemon \in {"answering", "trickling"}

\* mitos-service has taken the connection, says ALLOW or anything else, and closes.
Verdict ==
    /\ pc = "ask" /\ Accepting
    /\ backlog' = backlog - 1 /\ pc' \in {"next_id", "idle"}
    /\ UNCHANGED <<daemon, id, child, registry, mainVars, kernelVars, started>>

\* Mutant of AskFails: no time limit.
AskFailsIfAnswered ==
    /\ pc = "ask" /\ daemon = "answering" /\ pc' = "next_id" /\ backlog' = backlog - 1
    /\ UNCHANGED <<daemon, id, child, registry, mainVars, kernelVars, started>>

\* One write or read fails or takes 500 ms: the launch goes on.  The limit is on
\* each of them, and read_to_string reads until mitos-service closes.  A
\* connection that has not been accepted stays in the backlog.
AskFails ==
    /\ pc = "ask" /\ pc' = "next_id"
    /\ backlog' = IF Accepting THEN backlog - 1 ELSE backlog
    /\ UNCHANGED <<daemon, id, child, registry, mainVars, kernelVars, started>>

\* Command::spawn: there is no child, or it runs the program, or it cannot (the
\* sandbox or exec fails), reports that through a pipe and exits.
Spawn ==
    /\ pc = "next_id" /\ id' = id + 1
    /\ \/ pc' = "idle" /\ UNCHANGED <<child, kernelVars>>
       \/ \E p \in Pids : NewChild(p, "app", 0) /\ child' = {p} /\ pc' = "attach"
       \/ \E p \in FreePids :
            /\ zombie' = zombie \cup {p} /\ owner' = [owner EXCEPT ![p] = "app"]
            /\ child' = {p} /\ pc' = "wait" /\ UNCHANGED <<alive, doomed, group>>
    /\ UNCHANGED <<daemon, backlog, registry, mainVars, started>>

\* spawn itself waits for a child that failed, and asserts that it can.  When the
\* main thread has reaped it first there is nothing to wait for and the thread
\* panics, which aborts the process; or the pid is another child's by now.
WaitChild ==
    /\ pc = "wait"
    /\ \/ child \subseteq zombie /\ zombie' = zombie \ child /\ child' = {} /\ pc' = "idle"
       \/ child \cap (alive \cup zombie) = {} /\ pc' = "aborted" /\ UNCHANGED <<child, zombie>>
    /\ UNCHANGED <<daemon, backlog, id, registry, mainVars, alive, doomed, group, owner, started>>

\* attach_under moves whatever process has the pid now.
Attach ==
    /\ pc = "attach" /\ pc' = "register"
    /\ group' = [p \in Pids |-> IF p \in child \cap alive THEN id ELSE group[p]]
    /\ UNCHANGED <<daemon, backlog, id, child, registry, mainVars,
                   alive, zombie, doomed, owner, started>>

\* Mutant of Register: the table is replaced.
RegisterOnly ==
    /\ pc = "register" /\ pc' = "idle" /\ child' = {}
    /\ registry' = [p \in child |-> id]
    /\ UNCHANGED <<daemon, backlog, id, mainVars, kernelVars, started>>

Register ==
    /\ pc = "register" /\ pc' = "idle"
    /\ registry' = [p \in DOMAIN registry \cup child |-> IF p \in child THEN id ELSE registry[p]]
    /\ child' = {}
    /\ UNCHANGED <<daemon, backlog, id, mainVars, kernelVars, started>>

-----------------------------------------------------------------------------
(* The main thread.                                                        *)

WaitReaps ==
    /\ reaped = {}
    /\ \E p \in zombie : reaped' = {p} /\ zombie' = zombie \ {p}
                         /\ missed' = (missed \/ p \in child)
    /\ UNCHANGED <<ipcVars, registry, services, oneshots, claimed, alive, doomed,
                   group, owner, started>>

Claim(p, who) ==
    /\ reaped' = {} /\ claimed' = {[owner |-> owner[p], by |-> who]}
    /\ UNCHANGED <<ipcVars, missed, alive, zombie, group, owner, started>>

\* timers::reap || apps::reap, else handle_exit.
TimersReap(p) ==
    /\ p \in oneshots /\ oneshots' = oneshots \ {p}
    /\ Claim(p, "timer") /\ UNCHANGED <<registry, services, doomed>>

\* Mutant of AppsReap: the cgroup is not killed.
AppsReapLeaving(p) ==
    /\ p \notin oneshots /\ p \in DOMAIN registry
    /\ registry' = Restrict(registry, DOMAIN registry \ {p})
    /\ Claim(p, "app") /\ UNCHANGED <<services, oneshots, doomed>>

AppsReap(p) ==
    /\ p \notin oneshots /\ p \in DOMAIN registry
    /\ registry' = Restrict(registry, DOMAIN registry \ {p})
    /\ doomed' = doomed \cup {q \in alive : group[q] = registry[p]}
    /\ Claim(p, "app") /\ UNCHANGED <<services, oneshots>>

HandleExit(p) ==
    /\ p \notin oneshots \cup DOMAIN registry
    /\ services' = services \ {p}
    /\ Claim(p, IF p \in services THEN "service" ELSE "nobody")
    /\ UNCHANGED <<registry, oneshots, doomed>>

Dispatch == \E p \in reaped : TimersReap(p) \/ AppsReap(p) \/ HandleExit(p)

\* A reload, an isolate or a restart starts a service, a tick a one-shot.
StartService ==
    /\ reaped = {} /\ started.services < MaxServices
    /\ \E p \in Pids : NewChild(p, "service", 0) /\ services' = services \cup {p}
    /\ started' = [started EXCEPT !.services = @ + 1]
    /\ UNCHANGED <<ipcVars, registry, oneshots, reaped, claimed, missed>>

\* Mutant of StartOneshot: the run is not entered in pending.
StartUnknownOneshot ==
    /\ reaped = {} /\ started.oneshots < MaxTimers
    /\ \E p \in Pids : NewChild(p, "timer", 0)
    /\ started' = [started EXCEPT !.oneshots = @ + 1]
    /\ UNCHANGED <<ipcVars, registry, services, oneshots, reaped, claimed, missed>>

StartOneshot ==
    /\ reaped = {} /\ started.oneshots < MaxTimers
    /\ \E p \in Pids : NewChild(p, "timer", 0) /\ oneshots' = oneshots \cup {p}
    /\ started' = [started EXCEPT !.oneshots = @ + 1]
    /\ UNCHANGED <<ipcVars, registry, services, reaped, claimed, missed>>

-----------------------------------------------------------------------------
\* A process leaves a child in its cgroup, which is reparented to us.
Fork(p) ==
    /\ p \in alive \ doomed /\ started.forks < MaxForks
    /\ \E q \in Pids : NewChild(q, "nobody", group[p])
    /\ started' = [started EXCEPT !.forks = @ + 1]
    /\ UNCHANGED <<ipcVars, registry, mainVars>>

Exit(p) ==
    /\ p \in alive /\ alive' = alive \ {p} /\ doomed' = doomed \ {p}
    /\ zombie' = zombie \cup {p} /\ group' = [group EXCEPT ![p] = 0]
    /\ UNCHANGED <<ipcVars, registry, mainVars, owner, started>>

Init ==
    /\ daemon \in Daemon /\ backlog = 0 /\ pc = "idle" /\ id = 0 /\ child = {}
    /\ registry = << >> /\ services = {} /\ oneshots = {} /\ reaped = {}
    /\ alive = {} /\ zombie = {} /\ doomed = {}
    /\ group = [p \in Pids |-> 0] /\ owner = [p \in Pids |-> "nobody"]
    /\ claimed = {} /\ missed = FALSE
    /\ started = [services |-> 0, oneshots |-> 0, forks |-> 0]

\* What the control socket's thread does once a LAUNCH has come in.
Listener ==
    hash_file \/ Connect \/ Verdict \/ AskFails \/ Spawn \/ WaitChild \/ Attach \/ Register

Next ==
    /\ pc # "aborted"
    /\ \/ Launch \/ Listener
       \/ WaitReaps \/ Dispatch \/ StartService \/ StartOneshot
       \/ \E p \in Pids : Fork(p) \/ Exit(p)

\* The control socket's thread is scheduled; nothing obliges mitos-service to
\* close a connection on which it sends one byte after another.
Trickled == pc = "ask" /\ daemon = "trickling"
Spec == Init /\ [][Next]_vars /\ WF_vars(Listener /\ ~Trickled)

-----------------------------------------------------------------------------
\* Types of the registry, the reap chain and the kernel's view.
TypeOK ==
    /\ daemon \in Daemon /\ backlog \in 0 .. Backlog
    /\ pc \in {"idle", "hash", "connect", "ask", "next_id", "wait", "attach", "register",
               "aborted"}
    /\ id \in Nat /\ child \subseteq Pids /\ reaped \subseteq Pids
    /\ DOMAIN registry \subseteq Pids /\ Range(registry) \subseteq 1 .. id
    /\ services \subseteq Pids /\ oneshots \subseteq Pids
    /\ alive \subseteq Pids /\ zombie \subseteq Pids /\ doomed \subseteq alive
    /\ group \in [Pids -> Nat] /\ missed \in BOOLEAN

\* main.rs on the reap chain: a timer's run or an app "is never one of
\* Supervisor's tracked services".  Every exit reaches the part of the program
\* that started the process, so that a service is restarted and a timer freed,
\* however pids are used again.  The one exception is an app that was reaped
\* while launch was still at it: its entry stays, and claims the exit of whatever
\* process is given the pid next, a service's too; or, when the program could not
\* be executed, launch itself waits for that process.
ExitReachesOwner == \A c \in claimed : c.by = c.owner \/ missed

\* Every app that launch has reported, and whose exit has not been reaped, is
\* listed by APPS, under its own id.
RunningAppsListed ==
    \A p \in (alive \cup zombie) \ child :
        owner[p] = "app" => p \in DOMAIN registry /\ (p \in alive => group[p] = registry[p])

\* What an app leaves behind in its cgroup is killed when its exit is reaped,
\* unless that exit was missed.
AppsSwept ==
    \A p \in alive \ doomed :
        group[p] = 0 \/ group[p] \in Range(registry) \/ (pc = "register" /\ group[p] = id) \/ missed

\* apps.rs: the time limit "bounds the worst case (mitos-service running but
\* stuck) to something short".  Every LAUNCH is answered whatever mitos-service
\* does, but for what the limit, one on each read and write, does not bound:
\* connect, when the backlog is full of requests that timed out, and a response
\* that never ends; and but for a program that cannot be executed (APPS.md:
\* "launch failed: <reason>"), whose child the main thread reaps before spawn can
\* wait for it.
LaunchAnswered ==
    pc # "idle" ~> \/ pc = "idle" \/ Trickled
                   \/ pc = "connect" /\ daemon = "stuck" /\ backlog = Backlog
                   \/ missed /\ (pc = "aborted" \/ (pc = "wait" /\ child \subseteq alive))
=============================================================================
