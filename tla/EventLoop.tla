------------------------------ MODULE EventLoop ------------------------------
(***************************************************************************)
(* How requests reach the main thread: signals.rs, ipc.rs and the order in *)
(* which run_event_loop looks at what they leave behind.                   *)
(*                                                                         *)
(* Four parties run concurrently: the main thread, the control socket's    *)
(* thread, the notify listeners, and the outside (signals, children that   *)
(* die, mitosctl).  What a reload, an isolate or a reaped exit does to the *)
(* services is the subject of modules Reload and Supervisor; here it only  *)
(* starts a new generation of the table that a status summary describes.   *)
(* The other thing a summary says, who is ready, is counted by the reports *)
(* that the listeners have marked (module Notify has them), and what a     *)
(* LAUNCH does until it ends is in module Apps.                            *)
(***************************************************************************)
EXTENDS Naturals, FiniteSets

CONSTANTS Clients,       \* connections to the control socket, one command each
          Commands,      \* the commands they send
          Signals,       \* the requests that arrive as signals
          Targets,       \* names given to ISOLATE
          Available,     \* the targets with services configured
          BootTarget,    \* default_target
          Periodic,      \* whether timers or watchdogs may be configured
          MaxChildren, MaxSignals, MaxDeaths, MaxReady  \* bounds of the model

\* The atomic flags of signals.rs, by the request each stands for.
ShutdownFlags == {"reboot", "poweroff", "halt"}
Flags == ShutdownFlags \union {"reload", "status"}
Direct == {"PING", "TARGETS", "APPS", "LOGS"}  \* answered without the main thread

ASSUME EventLoopAssumption ==
    /\ IsFiniteSet(Clients) /\ Signals \subseteq Flags
    /\ Commands \subseteq Direct \union {"STATUS", "RELOAD", "ISOLATE", "LAUNCH"}
    /\ Available \subseteq Targets /\ BootTarget \in Targets /\ Periodic \subseteq BOOLEAN
    /\ MaxChildren \in Nat /\ MaxSignals \in Nat /\ MaxDeaths \in Nat /\ MaxReady \in Nat

\* What a summary says: which table of services, and how many have reported.
Text == [table : Nat, ready : Nat]
NoText == [table |-> 0, ready |-> 0]

\* The state at a STATUS, and whether a summary was being put together then.
Request == [table : Nat, ready : Nat, during : BOOLEAN]
NoRequest == [table |-> 0, ready |-> 0, during |-> FALSE]

VARIABLES pc,          \* where the main thread is
          flags,       \* the flags that are true
          masked,      \* signals pending while handled_set is blocked
          isolate,     \* ipc::PENDING_ISOLATE, at most one element
          target,      \* current_target
          generation,  \* how often the table a summary describes has changed
          readiness,   \* how many reports have been marked in ReadyState
          periodic,    \* has_watchdog_services() || timers::has_any()
          watch,       \* a rollback::Watch is active
          summary,     \* the summary being put together
          status,      \* ipc::LAST_STATUS
          live, zombies,  \* children running, and dead but not waited for
          ipc,         \* where the control socket's thread is
          client,      \* client -> how far its connection is
          asked,       \* history: the STATUS being served, the state at its request
          reply,       \* history: Option of the last connection's answer to a STATUS
          signalled, died

main == <<pc, isolate, target, generation, periodic, watch, summary, status>>
socket == <<ipc, client, asked, reply>>
outside == <<readiness, signalled, died>>
vars == <<pc, flags, masked, isolate, target, generation, periodic, watch, summary,
          status, live, zombies, ipc, client, asked, reply, readiness, signalled, died>>

Polling == watch \/ periodic
Up == pc # "exited"

-----------------------------------------------------------------------------
(* The main thread.                                                        *)

\* Signals that came during boot are delivered when the mask is lifted.
unblock_handled ==
    /\ pc = "boot" /\ pc' = "shutdown"
    /\ flags' = flags \union masked /\ masked' = {}
    /\ UNCHANGED <<isolate, target, generation, periodic, watch, summary, status,
                   live, zombies, socket, outside>>

\* The three swaps; no flag that is set on the way is overlooked twice.
TakeShutdown ==
    /\ pc = "shutdown"
    /\ pc' = IF flags \intersect ShutdownFlags # {} THEN "stopping" ELSE "reload"
    /\ flags' = flags \ ShutdownFlags
    /\ UNCHANGED <<masked, isolate, target, generation, periodic, watch, summary, status,
                   live, zombies, socket, outside>>

\* shutdown_all, acknowledge_shutdown and the return from main, which ends
\* the control socket's thread and closes its connections.
ProcessEnds ==
    /\ pc' = "exited"
    /\ client' = [c \in Clients |-> IF client[c] \in {"queued", "served"} THEN "closed"
                                    ELSE client[c]]
    /\ live' = 0 /\ zombies' = 0
Stop ==
    /\ pc = "stopping" /\ ProcessEnds
    /\ UNCHANGED <<flags, masked, isolate, target, generation, periodic, watch, summary,
                   status, ipc, asked, reply, outside>>

\* Mutant of TakeReload: a reload during a watch is dropped.
TakeReloadUnlessWatching ==
    /\ pc = "reload"
    /\ pc' = IF "reload" \in flags /\ ~watch THEN "reloading" ELSE "isolate"
    /\ flags' = flags \ {"reload"}
    /\ UNCHANGED <<masked, isolate, target, generation, periodic, watch, summary, status,
                   live, zombies, socket, outside>>

TakeReload ==
    /\ pc = "reload"
    /\ pc' = IF "reload" \in flags THEN "reloading" ELSE "isolate"
    /\ flags' = flags \ {"reload"}
    /\ UNCHANGED <<masked, isolate, target, generation, periodic, watch, summary, status,
                   live, zombies, socket, outside>>

\* Starts a watch; services, and what there is to poll for, may change.
ApplyReload ==
    /\ pc = "reloading" /\ pc' = "isolate"
    /\ watch' = TRUE /\ periodic' \in Periodic
    /\ generation' = generation + 1
    /\ live' \in 0 .. MaxChildren
    /\ UNCHANGED <<flags, masked, isolate, target, summary, status, zombies, socket, outside>>

take_pending_isolate ==
    /\ pc = "isolate" /\ pc' = "status"
    /\ isolate' = {}
    /\ IF isolate \intersect Available # {}
       THEN /\ target' \in isolate
            /\ generation' = generation + 1
            /\ live' \in 0 .. MaxChildren
       ELSE UNCHANGED <<target, generation, live>>
    /\ UNCHANGED <<flags, masked, periodic, watch, summary, status, zombies, socket, outside>>

\* The flag is swapped, then the summary is put together, service by service.
TakeStatus ==
    /\ pc = "status"
    /\ IF "status" \in flags
       THEN pc' = "publish" /\ summary' = [table |-> generation, ready |-> readiness]
       ELSE pc' = "wait" /\ UNCHANGED summary
    /\ flags' = flags \ {"status"}
    /\ UNCHANGED <<masked, isolate, target, generation, periodic, watch, status,
                   live, zombies, socket, outside>>

\* The table has not changed since the swap.  A report marked meanwhile is in
\* the summary or not: its service was still to be looked at, or had been.
publish_status ==
    /\ pc = "publish" /\ pc' = "wait"
    /\ \E ready \in summary.ready .. readiness :
        status' = [version |-> status.version + 1,
                   text |-> [table |-> summary.table, ready |-> ready]]
    /\ summary' = NoText
    /\ UNCHANGED <<flags, masked, isolate, target, generation, periodic, watch,
                   live, zombies, socket, outside>>

\* waitpid(-1) returns a dead child, at once or after blocking; handle_exit may
\* restart it, and Halt for a service no watch covers ends the loop.
ReapExit ==
    /\ pc \in {"wait", "blocked"} /\ zombies > 0
    /\ zombies' = zombies - 1
    /\ generation' = generation + 1
    /\ \/ pc' = "shutdown" /\ live' \in {live, live + 1} \intersect (0 .. MaxChildren)
       \/ pc' = "stopping" /\ UNCHANGED live
    /\ watch' \in {FALSE, watch}  \* rollback::check
    /\ UNCHANGED <<flags, masked, isolate, target, periodic, summary, status, socket, outside>>

\* WNOHANG finds the children alive: sleep, rollback::check, next iteration.
StillAlive ==
    /\ pc = "wait" /\ Polling /\ zombies = 0 /\ live > 0
    /\ pc' = "shutdown"
    /\ watch' \in {FALSE, watch}
    /\ UNCHANGED <<flags, masked, isolate, target, generation, periodic, summary, status,
                   live, zombies, socket, outside>>

\* ECHILD: sleep a second, next iteration.
NoChildren ==
    /\ pc = "wait" /\ zombies = 0 /\ live = 0
    /\ pc' = "shutdown"
    /\ UNCHANGED <<flags, masked, isolate, target, generation, periodic, watch, summary, status,
                   live, zombies, socket, outside>>

Block ==
    /\ pc = "wait" /\ ~Polling /\ zombies = 0 /\ live > 0
    /\ pc' = "blocked"
    /\ UNCHANGED <<flags, masked, isolate, target, generation, periodic, watch, summary, status,
                   live, zombies, socket, outside>>

-----------------------------------------------------------------------------
(* The control socket's thread: one connection at a time.                  *)

Serving(c) == Up /\ client[c] = "served"
Goto(l) == ipc' = [pc |-> l, before |-> ipc.before]
Answer(c, how, status_reply) ==
    /\ client' = [client EXCEPT ![c] = how] /\ reply' = status_reply
    /\ ipc' = [pc |-> "accept", before |-> 0] /\ asked' = NoRequest

Accept(c) ==
    /\ Up /\ ipc.pc = "accept" /\ client[c] = "queued"
    /\ Goto("read")
    /\ client' = [client EXCEPT ![c] = "served"] /\ reply' = {}
    /\ UNCHANGED <<main, flags, masked, live, zombies, asked, outside>>

\* Commands other than STATUS and LAUNCH are answered in the same step.
HandleDirect(c) ==
    /\ Commands \intersect Direct # {}
    /\ UNCHANGED <<flags, isolate>>
HandleReload(c) ==
    /\ "RELOAD" \in Commands
    /\ flags' = flags \union {"reload"} /\ UNCHANGED isolate
\* Mutant of request_isolate: requests pile up.
QueueIsolate(c) ==
    /\ "ISOLATE" \in Commands
    /\ \E t \in Targets : isolate' = isolate \union {t}
    /\ UNCHANGED flags
request_isolate(c) ==
    /\ "ISOLATE" \in Commands
    /\ \E t \in Targets : isolate' = {t}
    /\ UNCHANGED flags

handle(c) ==
    /\ Serving(c) /\ ipc.pc = "read"
    /\ HandleDirect(c) \/ HandleReload(c) \/ request_isolate(c)
    /\ Answer(c, "answered", {})
    /\ UNCHANGED <<pc, target, generation, periodic, watch, summary, status,
                   masked, live, zombies, outside>>

\* LAUNCH, on the socket's own thread: authorize may keep it there for ever.
HandleLaunch(c) ==
    /\ "LAUNCH" \in Commands
    /\ Serving(c) /\ ipc.pc = "read"
    /\ Goto("launch")
    /\ UNCHANGED <<main, flags, masked, live, zombies, client, asked, reply, outside>>

LaunchEnds(c) ==
    /\ Serving(c) /\ ipc.pc = "launch"
    /\ live' \in {live, live + 1} \intersect (0 .. MaxChildren)
    /\ Answer(c, "answered", {})
    /\ UNCHANGED <<main, flags, masked, zombies, outside>>

\* The program cannot be executed, and the main thread has reaped the child
\* before Command::spawn waits for it: std panics, which aborts the process.
LaunchAborts(c) ==
    /\ Serving(c) /\ ipc.pc = "launch" /\ pc # "boot"
    /\ ProcessEnds
    /\ UNCHANGED <<flags, masked, isolate, target, generation, periodic, watch, summary,
                   status, ipc, asked, reply, outside>>

\* STATUS raises the flag first and looks at the version afterwards.
HandleStatus(c) ==
    /\ "STATUS" \in Commands
    /\ Serving(c) /\ ipc.pc = "read"
    /\ flags' = flags \union {"status"}
    /\ Goto("snapshot")
    /\ asked' = [table |-> generation, ready |-> readiness, during |-> pc = "publish"]
    /\ UNCHANGED <<main, masked, live, zombies, client, reply, outside>>

\* read_line fails: the connection is dropped without an answer.
ReadFails(c) ==
    /\ Serving(c) /\ ipc.pc = "read"
    /\ Answer(c, "closed", {})
    /\ UNCHANGED <<main, flags, masked, live, zombies, outside>>

Snapshot(c) ==
    /\ Serving(c) /\ ipc.pc = "snapshot"
    /\ ipc' = [pc |-> "poll", before |-> status.version]
    /\ UNCHANGED <<main, flags, masked, live, zombies, client, asked, reply, outside>>

\* Mutant of Poll: the versions are not compared.
PollOnce(c) ==
    /\ Serving(c) /\ ipc.pc = "poll"
    /\ Answer(c, "answered", {[text |-> status.text, asked |-> asked]})
    /\ UNCHANGED <<main, flags, masked, live, zombies, outside>>

\* One turn of the loop in wait_for_fresh_status.
Poll(c) ==
    /\ Serving(c) /\ ipc.pc = "poll"
    /\ IF status.version # ipc.before
       THEN Answer(c, "answered", {[text |-> status.text, asked |-> asked]})
       ELSE Goto("sleep") /\ UNCHANGED <<client, asked, reply>>
    /\ UNCHANGED <<main, flags, masked, live, zombies, outside>>

\* Mutant of Sleep: no deadline.
SleepAgain(c) ==
    /\ Serving(c) /\ ipc.pc = "sleep"
    /\ Goto("poll")
    /\ UNCHANGED <<main, flags, masked, live, zombies, client, asked, reply, outside>>

\* After 20 ms the deadline has passed ("status request timed out"), or not.
Sleep(c) ==
    /\ Serving(c) /\ ipc.pc = "sleep"
    /\ \/ Goto("poll") /\ UNCHANGED <<client, asked, reply>>
       \/ Answer(c, "answered", {})
    /\ UNCHANGED <<main, flags, masked, live, zombies, outside>>

-----------------------------------------------------------------------------
(* The outside.                                                            *)

Connect(c) ==
    /\ Up /\ client[c] = "away"
    /\ client' = [client EXCEPT ![c] = "queued"]
    /\ UNCHANGED <<main, flags, masked, live, zombies, ipc, asked, reply, outside>>

\* on_signal runs on the main thread, the one thread that startup leaves
\* unblocked (module Launch has the masks) and the one the kernel tries first
\* where the listener of a restarted service is unblocked too.  It interrupts a
\* blocked waitpid, which returns EINTR and goes to the next iteration; anywhere
\* else it only sets a flag (thread::sleep goes back to sleep).
on_signal(s) ==
    /\ Up /\ signalled < MaxSignals /\ signalled' = signalled + 1
    /\ IF pc = "boot" THEN masked' = masked \union {s} /\ UNCHANGED <<pc, flags>>
       ELSE /\ flags' = flags \union {s} /\ UNCHANGED masked
            /\ pc' = IF pc = "blocked" THEN "shutdown" ELSE pc
    /\ UNCHANGED <<isolate, target, generation, periodic, watch, summary, status,
                   live, zombies, socket, readiness, died>>

Die ==
    /\ Up /\ live > 0 /\ died < MaxDeaths
    /\ died' = died + 1 /\ live' = live - 1 /\ zombies' = zombies + 1
    /\ UNCHANGED <<main, flags, masked, socket, readiness, signalled>>

\* A service's listener thread marks a READY=1 (notify.rs), at any time.
mark_ready ==
    /\ Up /\ readiness < MaxReady /\ readiness' = readiness + 1
    /\ UNCHANGED <<main, flags, masked, live, zombies, socket, signalled, died>>

-----------------------------------------------------------------------------
Init ==
    /\ pc = "boot" /\ flags = {} /\ masked = {} /\ isolate = {}
    /\ target = BootTarget /\ generation = 0 /\ periodic \in Periodic /\ watch = FALSE
    /\ summary = NoText /\ status = [version |-> 0, text |-> NoText]
    /\ live \in 0 .. MaxChildren /\ zombies = 0
    /\ ipc = [pc |-> "accept", before |-> 0]
    /\ client = [c \in Clients |-> "away"] /\ asked = NoRequest /\ reply = {}
    /\ readiness = 0 /\ signalled = 0 /\ died = 0

run_event_loop ==
    \/ unblock_handled \/ TakeShutdown \/ Stop \/ TakeReload \/ ApplyReload
    \/ take_pending_isolate \/ TakeStatus \/ publish_status
    \/ ReapExit \/ StillAlive \/ NoChildren \/ Block

Listener ==
    \E c \in Clients : \/ Accept(c) \/ handle(c) \/ HandleStatus(c) \/ HandleLaunch(c)
                       \/ ReadFails(c) \/ Snapshot(c) \/ Poll(c) \/ Sleep(c)

LaunchOver == \E c \in Clients : LaunchEnds(c) \/ LaunchAborts(c)

Outside == Die \/ mark_ready \/ (\E c \in Clients : Connect(c)) \/ (\E s \in Signals : on_signal(s))

Next == run_event_loop \/ Listener \/ LaunchOver \/ Outside

\* Both threads are scheduled, and a client that connects sends its line or
\* hangs up.  STATUS has a deadline: it does not sleep and look again for ever.
\* Nothing ends a LAUNCH that waits for mitos-service.
Fairness ==
    /\ WF_vars(run_event_loop) /\ WF_vars(Listener)
    /\ SF_vars(\E c \in Clients : Sleep(c) /\ ipc'.pc = "accept")

Spec == Init /\ [][Next]_vars /\ Fairness

-----------------------------------------------------------------------------
\* Type correctness of the event loop's, the socket's and the clients' state.
TypeOK ==
    /\ pc \in {"boot", "shutdown", "stopping", "exited", "reload", "reloading", "isolate",
               "status", "publish", "wait", "blocked"}
    /\ flags \subseteq Flags /\ masked \subseteq Flags
    /\ isolate \in SUBSET Targets /\ Cardinality(isolate) <= 1 /\ target \in Targets
    /\ generation \in Nat /\ readiness \in Nat /\ summary \in Text
    /\ status \in [version : Nat, text : Text]
    /\ periodic \in BOOLEAN /\ watch \in BOOLEAN
    /\ live \in Nat /\ zombies \in Nat
    /\ ipc \in [pc : {"accept", "read", "launch", "snapshot", "poll", "sleep"}, before : Nat]
    /\ client \in [Clients -> {"away", "queued", "served", "answered", "closed"}]
    /\ asked \in Request /\ reply \subseteq [text : Text, asked : Request]
    /\ signalled \in Nat /\ died \in Nat

Fresh(text, a) == text.table >= a.table /\ (text.ready >= a.ready \/ a.during)

(* A STATUS answer describes the services as they were at the request or   *)
(* later, even when the summary that answers it was put together for an    *)
(* earlier SIGUSR2 and published after the request's snapshot              *)
(* (wait_for_fresh_status): all of it the table of services, which only    *)
(* the main thread changes, and who is ready, which the listener threads   *)
(* change at any time, unless the request came in the very moment between  *)
(* the swap of the flag and publish_status.                                *)
FreshStatus == \A r \in reply : Fresh(r.text, r.asked)

\* Every connection is answered, or closed when the process ends: no state of
\* the main thread, blocked or not, keeps mitosctl waiting for ever.  The one
\* thing that does is a LAUNCH, which holds its own client and all those behind
\* it for as long as mitos-service lets it: for ever, if that does not accept the
\* connection or sends one byte after another (apps.rs, authorize).
EveryClientAnswered ==
    \A c \in Clients :
        client[c] \in {"queued", "served"} ~>
            client[c] \notin {"queued", "served"} \/ ipc.pc = "launch"

\* The main thread does not stay in its blocking waitpid for good: it polls, or
\* children exit, or further signals come.  A signal that arrives between the
\* swaps and waitpid, and every request by socket, has to wait for that.
Woken == []<>(pc # "blocked")

\* No request is lost once the main thread wakes (run_event_loop's swaps with
\* signals.rs and ipc.rs).  A shutdown signal, at whatever point of boot or of
\* the loop it arrives, ends the process; a reload, by SIGUSR1 or through the
\* socket, starts after the request, also when another is being applied at that
\* moment; an ISOLATE to a configured target takes effect, unless another
\* replaces it in PENDING_ISOLATE or the process ends.
RequestsHonoured ==
    Woken =>
        /\ (flags \union masked) \intersect ShutdownFlags # {} ~> pc = "exited"
        /\ "reload" \in flags \union masked ~> pc \in {"reloading", "exited"}
        /\ \A t \in Available :
            isolate = {t} ~> target = t \/ (isolate # {} /\ isolate # {t}) \/ ~Up

\* INTEGRATION.md of mitosctl reload and kill -USR1: "both do the same thing".
\* A reload asked for through the socket starts, as one by signal does.
SocketReloadHonoured == "reload" \in flags ~> pc \in {"reloading", "exited"}
=============================================================================
