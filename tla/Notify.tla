------------------------------- MODULE Notify -------------------------------
(***************************************************************************)
(* notify.rs: the sd_notify socket and listener thread of one service over *)
(* its successive instances, beside the main thread that stops and starts  *)
(* it (spawn_with_history: forget, listen_for, spawn) and asks is_ready    *)
(* and last_ping.                                                          *)
(*                                                                         *)
(* Instances, and the sockets bound for them, are numbered.  A datagram    *)
(* carries its sender's number, which the code does not have.  A process   *)
(* writes to whatever socket the path names at that moment; an old socket  *)
(* lives on, unlinked, for as long as its thread holds it.                 *)
(***************************************************************************)
EXTENDS Naturals, Sequences

CONSTANTS MaxInstances, MaxSends  \* bounds of the model

ASSUME NotifyAssumption == MaxInstances \in Nat \ {0} /\ MaxSends \in Nat

Message == {"READY=1", "WATCHDOG=1"}
Instances == 1 .. MaxInstances
Datagram == [from : Instances, text : Message]

VARIABLES pc,        \* where the main thread is in spawn_with_history
          instance,  \* the instance being started or running, 0 before the first
          path,      \* the socket the path names, 0 for none
          listening, \* sockets whose thread is in run()
          inbox,     \* socket -> datagrams queued
          hand,      \* socket -> Option of the datagram its thread has received
          up,        \* instances whose process runs
          told,      \* instances that were given a NOTIFY_SOCKET
          ready,     \* ReadyState::ready holds the name
          ping,      \* ReadyState::watchdog_pings: a ping is recorded
          readyFrom, pingFrom,  \* history: the instance the record came from
          unread,    \* history: datagrams were on their way when forget was last called
          saidReady, \* history: instances that have sent READY=1
          sends

record == <<ready, ping, readyFrom, pingFrom, unread>>
notifyVars == <<pc, instance, path, listening, inbox, hand, up, told, ready, ping,
                readyFrom, pingFrom, unread, saidReady, sends>>

\* A listener thread has a datagram to receive, or one received and not marked.
OnTheWay == \E s \in Instances : inbox[s] # << >> \/ hand[s] # {}

\* Mutant of forget: the last ping is kept.
ForgetReadyOnly ==
    /\ ready' = FALSE /\ readyFrom' = 0 /\ UNCHANGED <<ping, pingFrom>>
    /\ unread' = OnTheWay

forget ==
    /\ ready' = FALSE /\ readyFrom' = 0
    /\ ping' = FALSE /\ pingFrom' = 0
    /\ unread' = OnTheWay

\* The instance is stopped (handle_exit or stop_one reaped or killed it), and
\* its successor is started; the record is forgotten first.
BeginSpawn ==
    /\ pc = "loop" /\ instance < MaxInstances
    /\ up' = {} /\ instance' = instance + 1
    /\ forget
    /\ pc' = "listen"
    /\ UNCHANGED <<path, listening, inbox, hand, told, saidReady, sends>>

\* Mutant of listen_for: the thread is not started.
ListenWithoutThread ==
    /\ pc = "listen" /\ pc' = "spawn"
    /\ told' = told \cup {instance} /\ path' = instance
    /\ UNCHANGED <<listening, instance, inbox, hand, up, record, saidReady, sends>>

\* The path is unlinked and bound anew, with a thread of its own, or the bind
\* fails and the service runs without.
listen_for ==
    /\ pc = "listen" /\ pc' = "spawn"
    /\ \/ path' = instance /\ listening' = listening \cup {instance}
          /\ told' = told \cup {instance}
       \/ path' = 0 /\ UNCHANGED <<listening, told>>
    /\ UNCHANGED <<instance, inbox, hand, up, record, saidReady, sends>>

\* The service starts, or cannot be spawned.
Spawn ==
    /\ pc = "spawn" /\ pc' = "loop"
    /\ up' \in {{}, {instance}}
    /\ UNCHANGED <<instance, path, listening, inbox, hand, told, record, saidReady, sends>>

\* handle_exit leaves it down, reload_services removes it.
StayDown ==
    /\ pc = "loop" /\ up # {}
    /\ up' = {} /\ forget
    /\ UNCHANGED <<pc, instance, path, listening, inbox, hand, told, saidReady, sends>>

Send(i) ==
    /\ i \in up \cap told /\ sends < MaxSends /\ sends' = sends + 1
    /\ \E m \in Message :
        /\ inbox' = [inbox EXCEPT ![path] = Append(@, [from |-> i, text |-> m])]
        /\ saidReady' = IF m = "READY=1" THEN saidReady \cup {i} ELSE saidReady
    /\ UNCHANGED <<pc, instance, path, listening, hand, up, told, record>>

mark_ready(d) == ready' = TRUE /\ readyFrom' = d.from /\ UNCHANGED <<ping, pingFrom, unread>>
mark_ping(d) == ping' = TRUE /\ pingFrom' = d.from /\ UNCHANGED <<ready, readyFrom, unread>>

\* A listener thread's loop: a datagram is received, and only then looked at
\* and marked; the main thread may come in between.
recv(s) ==
    /\ s \in listening /\ hand[s] = {} /\ inbox[s] # << >>
    /\ hand' = [hand EXCEPT ![s] = {Head(inbox[s])}]
    /\ inbox' = [inbox EXCEPT ![s] = Tail(@)]
    /\ UNCHANGED <<pc, instance, path, listening, up, told, record, saidReady, sends>>

mark(s) ==
    /\ \E d \in hand[s] : \/ d.text = "READY=1" /\ mark_ready(d)
                          \/ d.text = "WATCHDOG=1" /\ mark_ping(d)
    /\ hand' = [hand EXCEPT ![s] = {}]
    /\ UNCHANGED <<pc, instance, path, listening, inbox, up, told, saidReady, sends>>

run(s) == recv(s) \/ mark(s)

NotifyInit ==
    /\ pc = "loop" /\ instance = 0 /\ path = 0
    /\ listening = {} /\ inbox = [s \in Instances |-> << >>]
    /\ hand = [s \in Instances |-> {}]
    /\ up = {} /\ told = {} /\ saidReady = {} /\ sends = 0
    /\ ready = FALSE /\ ping = FALSE /\ readyFrom = 0 /\ pingFrom = 0 /\ unread = FALSE

NotifyNext ==
    \/ BeginSpawn \/ listen_for \/ Spawn \/ StayDown
    \/ \E i \in Instances : Send(i) \/ run(i)

\* Threads are scheduled; nothing obliges a service to send.
NotifySpec == NotifyInit /\ [][NotifyNext]_notifyVars /\ WF_notifyVars(listen_for \/ Spawn)
              /\ \A s \in Instances : WF_notifyVars(run(s))

-----------------------------------------------------------------------------
\* Types of the record, the sockets and the main thread's position.
NotifyTypeOK ==
    /\ pc \in {"loop", "listen", "spawn"} /\ instance \in 0 .. MaxInstances
    /\ path \in 0 .. MaxInstances /\ listening \subseteq Instances
    /\ inbox \in [Instances -> Seq(Datagram)] /\ up \subseteq {instance}
    /\ hand \in [Instances -> SUBSET Datagram]
    /\ \A s \in Instances : \A d, e \in hand[s] : d = e /\ s \in listening
    /\ told \subseteq listening
    /\ ready \in BOOLEAN /\ ping \in BOOLEAN /\ unread \in BOOLEAN
    /\ saidReady \subseteq Instances /\ sends \in Nat

\* A service that says READY=1 is ready until it is stopped: the forget and the
\* rebinding around a restart never lose what the new instance reports.
ReadyNotLost ==
    \A i \in Instances :
        i \in saidReady /\ i \in up ~> (ready /\ i \in up) \/ i \notin up

\* notify.rs of forget: "so a stale ready/ping record from a previous instance
\* doesn't leak into a freshly (re)started one under the same name".  It does
\* not, through any sequence of restarts, failed binds and failed spawns, unless
\* a listener thread still had a datagram to receive, or one received and not
\* yet marked, at the last forget.
RecordIsCurrent ==
    instance \in up /\ ~unread =>
        (ready => readyFrom = instance) /\ (ping => pingFrom = instance)
=============================================================================
