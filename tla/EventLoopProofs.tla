--------------------------- MODULE EventLoopProofs ---------------------------
(***************************************************************************)
(* Theorems about EventLoop, for any number of clients, signals and        *)
(* children: type correctness, that a STATUS answer is never older than    *)
(* the request, and that no request is dropped.                            *)
(***************************************************************************)
EXTENDS EventLoop, FiniteSetTheorems, TLAPS

(* TypeOK in parts, which need different provers: Booleans, numbers and    *)
(* sets, the records that the socket and the status cache keep, and the    *)
(* history of requests and answers, whose records hold a Boolean.          *)
BoolTypes == periodic \in BOOLEAN /\ watch \in BOOLEAN

PlainTypes ==
    /\ pc \in {"boot", "shutdown", "stopping", "exited", "reload", "reloading", "isolate",
               "status", "publish", "wait", "blocked"}
    /\ flags \subseteq Flags /\ masked \subseteq Flags
    /\ isolate \in SUBSET Targets /\ target \in Targets
    /\ generation \in Nat /\ readiness \in Nat
    /\ live \in Nat /\ zombies \in Nat
    /\ signalled \in Nat /\ died \in Nat

RecordTypes ==
    /\ summary \in Text /\ status \in [version : Nat, text : Text]
    /\ ipc \in [pc : {"accept", "read", "launch", "snapshot", "poll", "sleep"}, before : Nat]
    /\ client \in [Clients -> {"away", "queued", "served", "answered", "closed"}]

AskedTypes == asked \in Request /\ reply \subseteq [text : Text, asked : Request]

Types == BoolTypes /\ PlainTypes /\ RecordTypes /\ AskedTypes

\* PENDING_ISOLATE is an Option.
AtMostOne == isolate = {} \/ \E t \in Targets : isolate = {t}

(* What makes FreshStatus inductive: while a summary waits to be published *)
(* the main thread changes nothing and the listeners only add reports, so  *)
(* what is published has the table of that moment and every report marked  *)
(* before the flag was swapped; hence whatever has been published since    *)
(* the snapshot is fresh for the request.                                  *)
FreshInv ==
    /\ pc = "publish" => summary.table = generation /\ summary.ready <= readiness
    /\ asked.table <= generation /\ asked.ready <= readiness
    /\ pc = "publish" /\ ~asked.during => asked.ready <= summary.ready
    /\ ipc.pc \in {"poll", "sleep"} /\ status.version # ipc.before => Fresh(status.text, asked)
    /\ FreshStatus

-----------------------------------------------------------------------------
LEMMA NatStep ==
    \A n \in Nat : n + 1 \in Nat /\ n <= n /\ \A a \in Nat : a <= n => a <= n + 1
OBVIOUS

LEMMA NoRequestType == NoRequest \in Request
<1>1. FALSE \in BOOLEAN OBVIOUS
<1> QED BY <1>1 DEF NoRequest, Request

LEMMA InitTypes == Init => Types /\ AtMostOne
<1> SUFFICES ASSUME Init PROVE Types /\ AtMostOne
    OBVIOUS
<1> USE EventLoopAssumption DEF Init
<1>1. BoolTypes
    <2>1. periodic \in BOOLEAN OBVIOUS
    <2>2. watch \in BOOLEAN OBVIOUS
    <2> QED BY <2>1, <2>2 DEF BoolTypes
<1>2. PlainTypes BY DEF PlainTypes
<1>3. RecordTypes BY DEF RecordTypes, Text, NoText
<1>4. AskedTypes
    <2>1. asked \in Request BY NoRequestType
    <2> QED BY <2>1 DEF AskedTypes
<1>5. AtMostOne BY DEF AtMostOne
<1> QED BY <1>1, <1>2, <1>3, <1>4, <1>5 DEF Types

\* Only a reload, a signal's wakeup and rollback::check decide about polling.
LEMMA NextBool == BoolTypes /\ [Next]_vars => BoolTypes'
<1> SUFFICES ASSUME BoolTypes, [Next]_vars PROVE periodic' \in BOOLEAN /\ watch' \in BOOLEAN
    BY DEF BoolTypes
<1> USE EventLoopAssumption DEF BoolTypes
<1>1. CASE UNCHANGED <<periodic, watch>> BY <1>1
<1>2. CASE ApplyReload BY <1>2, Zenon DEF ApplyReload
<1>3. CASE ReapExit BY <1>3, Zenon DEF ReapExit
<1>4. CASE StillAlive BY <1>4, Zenon DEF StillAlive
<1>5. CASE run_event_loop /\ ~ApplyReload /\ ~ReapExit /\ ~StillAlive
    BY <1>1, <1>5 DEF run_event_loop, unblock_handled, TakeShutdown, Stop, TakeReload,
        take_pending_isolate, TakeStatus, publish_status, NoChildren, Block
<1>6. CASE Listener
    BY <1>1, <1>6 DEF Listener, Accept, handle, HandleStatus, HandleLaunch, ReadFails, Snapshot,
        Poll, Sleep, main
<1>7. CASE LaunchOver BY <1>1, <1>7 DEF LaunchOver, LaunchEnds, LaunchAborts, main
<1>8. CASE Outside BY <1>1, <1>8 DEF Outside, Die, mark_ready, Connect, on_signal, main
<1>9. CASE UNCHANGED vars BY <1>1, <1>9 DEF vars
<1> QED BY <1>2, <1>3, <1>4, <1>5, <1>6, <1>7, <1>8, <1>9 DEF Next

\* The main thread's position, the flags, the targets and the counters.
LEMMA NextPlain == PlainTypes /\ [Next]_vars => PlainTypes'
<1> SUFFICES ASSUME PlainTypes, [Next]_vars PROVE PlainTypes'
    OBVIOUS
<1> USE EventLoopAssumption DEF PlainTypes, outside, socket, main
<1>1. CASE run_event_loop
    <2>1. CASE unblock_handled BY <2>1 DEF unblock_handled
    <2>2. CASE TakeShutdown BY <2>2 DEF TakeShutdown
    <2>3. CASE Stop BY <2>3 DEF Stop, ProcessEnds
    <2>4. CASE TakeReload BY <2>4 DEF TakeReload
    <2>5. CASE ApplyReload BY <2>5 DEF ApplyReload
    <2>6. CASE take_pending_isolate BY <2>6 DEF take_pending_isolate
    <2>7. CASE TakeStatus BY <2>7 DEF TakeStatus
    <2>8. CASE publish_status BY <2>8 DEF publish_status
    <2>9. CASE ReapExit BY <2>9 DEF ReapExit
    <2>10. CASE StillAlive BY <2>10 DEF StillAlive
    <2>11. CASE NoChildren BY <2>11 DEF NoChildren
    <2>12. CASE Block BY <2>12 DEF Block
    <2> QED
        BY <1>1, <2>1, <2>2, <2>3, <2>4, <2>5, <2>6, <2>7, <2>8, <2>9, <2>10, <2>11, <2>12
           DEF run_event_loop
<1>2. ASSUME NEW c \in Clients,
             \/ Accept(c) \/ handle(c) \/ HandleStatus(c) \/ HandleLaunch(c)
             \/ ReadFails(c) \/ Snapshot(c) \/ Poll(c) \/ Sleep(c)
      PROVE  PlainTypes'
    <2>1. CASE handle(c)
        <3>1. flags' \subseteq Flags /\ isolate' \in SUBSET Targets
            BY <2>1 DEF handle, HandleDirect, HandleReload, request_isolate, Flags
        <3> QED BY <2>1, <3>1 DEF handle
    <2>2. CASE HandleStatus(c) BY <2>2 DEF HandleStatus, Flags
    <2>3. CASE Accept(c) \/ HandleLaunch(c) \/ ReadFails(c) \/ Snapshot(c) \/ Poll(c) \/ Sleep(c)
        <3>1. UNCHANGED <<main, flags, masked, live, zombies, outside>>
            BY <2>3 DEF Accept, HandleLaunch, ReadFails, Snapshot, Poll, Sleep
        <3> QED BY <3>1
    <2> QED BY <1>2, <2>1, <2>2, <2>3
<1>3. CASE LaunchOver BY <1>3 DEF LaunchOver, LaunchEnds, LaunchAborts, ProcessEnds
<1>4. CASE Die BY <1>4 DEF Die
<1>5. CASE mark_ready BY <1>5 DEF mark_ready
<1>6. ASSUME NEW c \in Clients, Connect(c) PROVE PlainTypes'
    BY <1>6 DEF Connect
<1>7. ASSUME NEW s \in Signals, on_signal(s) PROVE PlainTypes'
    BY <1>7 DEF on_signal
<1>8. CASE UNCHANGED vars BY <1>8 DEF vars
<1> QED BY <1>1, <1>2, <1>3, <1>4, <1>5, <1>6, <1>7, <1>8 DEF Next, Listener, Outside

\* The summary, the status cache, the socket's thread and its clients.
LEMMA NextRecords == PlainTypes /\ RecordTypes /\ [Next]_vars => RecordTypes'
<1> SUFFICES ASSUME PlainTypes, RecordTypes, [Next]_vars PROVE RecordTypes'
    OBVIOUS
<1> USE DEF socket, main, ProcessEnds
<1>1. CASE Stop BY <1>1 DEF Stop, RecordTypes
<1>2. CASE TakeStatus
    <2>1. summary' \in Text BY <1>2 DEF TakeStatus, PlainTypes, RecordTypes, Text
    <2> QED BY <1>2, <2>1 DEF TakeStatus, RecordTypes
<1>3. CASE publish_status
    <2>1. PICK ready \in summary.ready .. readiness :
            status' = [version |-> status.version + 1,
                       text |-> [table |-> summary.table, ready |-> ready]]
        BY <1>3 DEF publish_status
    <2>2. ready \in Nat /\ summary.table \in Nat /\ status.version + 1 \in Nat
        BY DEF PlainTypes, RecordTypes, Text
    <2>3. status' \in [version : Nat, text : Text] BY <2>1, <2>2 DEF Text
    <2>4. summary' \in Text BY <1>3 DEF publish_status, Text, NoText
    <2> QED BY <1>3, <2>3, <2>4 DEF publish_status, RecordTypes
<1>4. CASE run_event_loop /\ ~Stop /\ ~TakeStatus /\ ~publish_status
    <2>1. UNCHANGED <<summary, status, socket>>
        BY <1>4 DEF run_event_loop, unblock_handled, TakeShutdown, TakeReload, ApplyReload,
            take_pending_isolate, ReapExit, StillAlive, NoChildren, Block
    <2> QED BY <2>1 DEF RecordTypes
<1>5. ASSUME NEW c \in Clients,
             \/ Accept(c) \/ handle(c) \/ HandleStatus(c) \/ HandleLaunch(c)
             \/ ReadFails(c) \/ Snapshot(c) \/ Poll(c) \/ Sleep(c) \/ LaunchEnds(c)
      PROVE  RecordTypes'
    <2>1. UNCHANGED <<summary, status>>
        BY <1>5 DEF Accept, handle, HandleStatus, HandleLaunch, ReadFails, Snapshot, Poll, Sleep,
                    LaunchEnds
    <2>2. client' \in [Clients -> {"away", "queued", "served", "answered", "closed"}]
        BY <1>5 DEF Accept, handle, HandleStatus, HandleLaunch, ReadFails, Snapshot, Poll, Sleep,
                    LaunchEnds, Answer, RecordTypes
    <2>3. ipc' \in [pc : {"accept", "read", "launch", "snapshot", "poll", "sleep"}, before : Nat]
        BY <1>5 DEF Accept, handle, HandleStatus, HandleLaunch, ReadFails, Snapshot, Poll, Sleep,
                    LaunchEnds, Answer, Goto, RecordTypes
    <2> QED BY <2>1, <2>2, <2>3 DEF RecordTypes
<1>6. ASSUME NEW c \in Clients, LaunchAborts(c) PROVE RecordTypes'
    BY <1>6 DEF LaunchAborts, RecordTypes
<1>7. CASE Die \/ mark_ready BY <1>7 DEF Die, mark_ready, RecordTypes
<1>8. ASSUME NEW c \in Clients, Connect(c) PROVE RecordTypes'
    BY <1>8 DEF Connect, RecordTypes
<1>9. ASSUME NEW s \in Signals, on_signal(s) PROVE RecordTypes'
    BY <1>9 DEF on_signal, RecordTypes
<1>10. CASE UNCHANGED vars BY <1>10 DEF vars, RecordTypes
<1> QED
    BY <1>1, <1>2, <1>3, <1>4, <1>5, <1>6, <1>7, <1>8, <1>9, <1>10
       DEF Next, Listener, LaunchOver, Outside

\* Only the socket's thread records a request and an answer.
LEMMA NextAsked ==
    PlainTypes /\ RecordTypes /\ AskedTypes /\ [Next]_vars => AskedTypes'
<1> SUFFICES ASSUME PlainTypes, RecordTypes, AskedTypes, [Next]_vars PROVE AskedTypes'
    OBVIOUS
<1>1. CASE UNCHANGED <<asked, reply>> BY <1>1 DEF AskedTypes
<1>2. CASE reply' = {} /\ asked' \in {asked, NoRequest} BY <1>2, NoRequestType DEF AskedTypes
<1>3. ASSUME NEW c \in Clients, Poll(c) PROVE AskedTypes'
    <2>1. CASE status.version # ipc.before
        <3>1. status.text \in Text BY DEF RecordTypes
        <3>2. [text |-> status.text, asked |-> asked] \in [text : Text, asked : Request]
            BY <3>1, Zenon DEF AskedTypes
        <3>3. reply' = {[text |-> status.text, asked |-> asked]} /\ asked' = NoRequest
            BY <1>3, <2>1 DEF Poll, Answer
        <3> QED BY <3>2, <3>3, NoRequestType DEF AskedTypes
    <2>2. CASE status.version = ipc.before BY <1>1, <1>3, <2>2 DEF Poll
    <2> QED BY <2>1, <2>2
<1>4. ASSUME NEW c \in Clients, HandleStatus(c) PROVE AskedTypes'
    <2>1. generation \in Nat /\ readiness \in Nat BY DEF PlainTypes
    <2>2. (pc = "publish") \in BOOLEAN OBVIOUS
    <2>3. [table |-> generation, ready |-> readiness, during |-> pc = "publish"] \in Request
        BY <2>1, <2>2, Zenon DEF Request
    <2> QED BY <1>4, <2>3 DEF HandleStatus, AskedTypes
<1>5. ASSUME NEW c \in Clients,
             \/ Accept(c) \/ handle(c) \/ HandleLaunch(c) \/ ReadFails(c) \/ Snapshot(c)
             \/ Sleep(c) \/ LaunchEnds(c) \/ LaunchAborts(c) \/ Connect(c)
      PROVE  AskedTypes'
    BY <1>1, <1>2, <1>5 DEF Accept, handle, HandleLaunch, ReadFails, Snapshot, Sleep, LaunchEnds,
        LaunchAborts, Connect, Answer
<1>6. CASE run_event_loop
    BY <1>1, <1>6 DEF run_event_loop, unblock_handled, TakeShutdown, Stop, TakeReload, ApplyReload,
        take_pending_isolate, TakeStatus, publish_status, ReapExit, StillAlive, NoChildren, Block,
        socket
<1>7. CASE Die \/ mark_ready BY <1>1, <1>7 DEF Die, mark_ready, socket
<1>8. ASSUME NEW s \in Signals, on_signal(s) PROVE AskedTypes'
    BY <1>1, <1>8 DEF on_signal, socket
<1>9. CASE UNCHANGED vars BY <1>1, <1>9 DEF vars
<1> QED
    BY <1>3, <1>4, <1>5, <1>6, <1>7, <1>8, <1>9 DEF Next, Listener, LaunchOver, Outside

\* Nothing but take_pending_isolate and request_isolate touches PENDING_ISOLATE.
LEMMA OneIsolate == AtMostOne /\ [Next]_vars => AtMostOne'
<1> SUFFICES ASSUME AtMostOne, [Next]_vars PROVE AtMostOne'
    OBVIOUS
<1>1. CASE run_event_loop
    BY <1>1 DEF AtMostOne, run_event_loop, unblock_handled, TakeShutdown, Stop, TakeReload,
        ApplyReload, take_pending_isolate, TakeStatus, publish_status, ReapExit, StillAlive,
        NoChildren, Block
<1>2. CASE Listener
    BY <1>2 DEF AtMostOne, Listener, Accept, handle, HandleStatus, ReadFails, Snapshot, Poll,
        Sleep, HandleDirect, HandleReload, request_isolate, HandleLaunch, main
<1>3. CASE LaunchOver BY <1>3 DEF AtMostOne, LaunchOver, LaunchEnds, LaunchAborts, main
<1>4. CASE Outside
    BY <1>4 DEF AtMostOne, Outside, Die, mark_ready, Connect, on_signal, main
<1>5. CASE UNCHANGED vars BY <1>5 DEF AtMostOne, vars
<1> QED BY <1>1, <1>2, <1>3, <1>4, <1>5 DEF Next

LEMMA TypesCount == Types /\ AtMostOne => TypeOK
<1> SUFFICES ASSUME Types, AtMostOne PROVE Cardinality(isolate) <= 1
    BY DEF Types, BoolTypes, PlainTypes, RecordTypes, AskedTypes, TypeOK
<1>1. Cardinality({}) = 0 BY FS_EmptySet
<1>2. \A t \in Targets : Cardinality({t}) = 1 BY FS_Singleton
<1> QED BY <1>1, <1>2 DEF AtMostOne

LEMMA NextTypes == Types /\ [Next]_vars => Types'
BY NextBool, NextPlain, NextRecords, NextAsked DEF Types

\* Every variable of the event loop, the socket and the clients keeps its type.
THEOREM TypeCorrect == Spec => []TypeOK
<1>1. Types /\ AtMostOne /\ [Next]_vars => (Types /\ AtMostOne)'
    BY NextTypes, OneIsolate
<1> QED BY <1>1, InitTypes, TypesCount, PTL DEF Spec

-----------------------------------------------------------------------------
\* The fields that the freshness of an answer compares.
LEMMA Fields ==
    ASSUME Types
    PROVE  /\ generation \in Nat /\ readiness \in Nat
           /\ asked.table \in Nat /\ asked.ready \in Nat
           /\ summary.table \in Nat /\ summary.ready \in Nat
           /\ status.text.table \in Nat /\ status.text.ready \in Nat
<1>1. asked.table \in Nat /\ asked.ready \in Nat BY DEF Types, AskedTypes, Request
<1> QED BY <1>1 DEF Types, PlainTypes, RecordTypes, Text

LEMMA InitFresh == Init => FreshInv
BY DEF Init, FreshInv, FreshStatus, NoRequest, NoText

\* A step that leaves the clients, the summary and the published text alone, and
\* only adds to what there is to report, keeps every answer fresh.
LEMMA LaterState ==
    ASSUME Types, FreshInv, UNCHANGED <<socket, status>>,
           pc' = "publish" => pc = "publish" /\ UNCHANGED <<summary, generation>>,
           generation' \in {generation, generation + 1},
           readiness' \in {readiness, readiness + 1}
    PROVE  FreshInv'
<1>1. asked.table <= generation /\ asked.ready <= readiness BY DEF FreshInv
<1>2. asked.table <= generation' /\ asked.ready <= readiness' BY <1>1, Fields
<1>3. pc' = "publish" => summary'.table = generation' /\ summary'.ready <= readiness'
    BY Fields DEF FreshInv
<1>4. pc' = "publish" /\ ~asked.during => asked.ready <= summary'.ready BY DEF FreshInv
<1> QED BY <1>2, <1>3, <1>4 DEF FreshInv, FreshStatus, Fresh, socket

\* The main thread publishes the table of the moment and every report marked
\* before it swapped the flag.
LEMMA MainFresh == Types /\ FreshInv /\ run_event_loop => FreshInv'
<1> SUFFICES ASSUME Types, FreshInv, run_event_loop PROVE FreshInv'
    OBVIOUS
<1>1. CASE Stop
    <2>1. UNCHANGED <<ipc, asked, reply, status, summary, generation, readiness>>
          /\ pc' # "publish"
        BY <1>1 DEF Stop, ProcessEnds, outside
    <2> QED BY <2>1 DEF FreshInv, FreshStatus, Fresh
<1>2. CASE TakeStatus
    <2>1. UNCHANGED <<ipc, asked, reply, status, generation, readiness>>
        BY <1>2 DEF TakeStatus, socket, outside
    <2>2. pc' = "publish" => summary'.table = generation /\ summary'.ready = readiness
        BY <1>2 DEF TakeStatus
    <2> QED BY <2>1, <2>2, Fields DEF FreshInv, FreshStatus, Fresh
<1>3. CASE publish_status
    <2>1. UNCHANGED <<ipc, asked, reply, generation, readiness>> /\ pc = "publish" /\ pc' = "wait"
        BY <1>3 DEF publish_status, socket, outside
    <2>2. PICK ready \in summary.ready .. readiness :
            status' = [version |-> status.version + 1,
                       text |-> [table |-> summary.table, ready |-> ready]]
        BY <1>3 DEF publish_status
    <2>3. asked.table <= summary.table /\ (~asked.during => asked.ready <= summary.ready)
        BY <2>1 DEF FreshInv
    <2>4. ~asked.during => asked.ready <= ready BY <2>3, Fields
    <2>5. status'.text.table = summary.table /\ status'.text.ready = ready BY <2>2
    <2>6. Fresh(status'.text, asked)
        <3>1. ready \in Nat BY Fields
        <3>2. ready >= asked.ready \/ asked.during BY <2>4, <3>1, Fields
        <3>3. summary.table >= asked.table BY <2>3, Fields
        <3> QED BY <2>5, <3>2, <3>3 DEF Fresh
    <2> QED BY <2>1, <2>6 DEF FreshInv, FreshStatus
<1>4. CASE run_event_loop /\ ~Stop /\ ~TakeStatus /\ ~publish_status
    <2>1. UNCHANGED <<socket, status, readiness>> /\ pc' # "publish"
        BY <1>4 DEF run_event_loop, unblock_handled, TakeShutdown, TakeReload, ApplyReload,
            take_pending_isolate, ReapExit, StillAlive, NoChildren, Block, outside
    <2>2. generation' \in {generation, generation + 1}
        BY <1>4 DEF run_event_loop, unblock_handled, TakeShutdown, TakeReload, ApplyReload,
            take_pending_isolate, ReapExit, StillAlive, NoChildren, Block
    <2> QED BY <2>1, <2>2, LaterState
<1> QED BY <1>1, <1>2, <1>3, <1>4

\* A snapshot is taken after the request; an answer only hands over what was
\* published after the snapshot.
LEMMA ListenerFresh == Types /\ FreshInv /\ (Listener \/ LaunchOver) => FreshInv'
<1> SUFFICES ASSUME Types, FreshInv, NEW c \in Clients,
                    \/ Accept(c) \/ handle(c) \/ HandleStatus(c) \/ HandleLaunch(c)
                    \/ ReadFails(c) \/ Snapshot(c) \/ Poll(c) \/ Sleep(c)
                    \/ LaunchEnds(c) \/ LaunchAborts(c)
             PROVE  FreshInv'
    BY DEF Listener, LaunchOver
<1>1. UNCHANGED <<summary, status, generation, readiness>> /\ pc' \in {pc, "exited"}
    BY DEF Accept, handle, HandleStatus, HandleLaunch, ReadFails, Snapshot, Poll, Sleep, LaunchEnds,
        LaunchAborts, ProcessEnds, main, outside
<1>2. ASSUME asked' \in {asked, NoRequest},
             reply' \in {reply, {}},
             ipc'.pc \notin {"poll", "sleep"} \/
                (ipc' = [pc |-> "poll", before |-> status.version]) \/
                (ipc.pc \in {"poll", "sleep"} /\ ipc'.before = ipc.before /\ asked' = asked)
      PROVE  FreshInv'
    <2>1. asked' = NoRequest => asked'.table = 0 /\ asked'.ready = 0
        BY DEF NoRequest
    <2>2. asked'.table <= generation /\ asked'.ready <= readiness
        BY <1>2, <2>1, Fields DEF FreshInv
    <2>3. pc = "publish" /\ ~asked'.during => asked'.ready <= summary.ready
        BY <1>2, <2>1, Fields DEF FreshInv
    <2>4. ipc'.pc \in {"poll", "sleep"} /\ status.version # ipc'.before => Fresh(status.text, asked')
        BY <1>2 DEF FreshInv
    <2>5. FreshStatus' BY <1>2 DEF FreshInv, FreshStatus
    <2> QED BY <1>1, <2>2, <2>3, <2>4, <2>5 DEF FreshInv
<1>3. CASE Accept(c) \/ handle(c) \/ HandleLaunch(c) \/ ReadFails(c) \/ LaunchEnds(c)
    BY <1>2, <1>3 DEF Accept, handle, HandleLaunch, ReadFails, LaunchEnds, Goto, Answer
<1>4. CASE Snapshot(c) BY <1>2, <1>4 DEF Snapshot
<1>5. CASE Sleep(c) BY <1>2, <1>5 DEF Sleep, Goto, Answer
<1>6. CASE LaunchAborts(c) BY <1>2, <1>6 DEF LaunchAborts
<1>7. CASE HandleStatus(c)
    <2>1. asked' = [table |-> generation, ready |-> readiness, during |-> pc = "publish"]
          /\ ipc'.pc = "snapshot" /\ reply' = reply /\ pc' = pc
        BY <1>7 DEF HandleStatus, Goto, main
    <2>2. asked'.table = generation /\ asked'.ready = readiness
        BY <2>1
    <2>3. pc = "publish" => asked'.during BY <2>1
    <2> QED BY <1>1, <2>1, <2>2, <2>3, Fields DEF FreshInv, FreshStatus
<1>8. CASE Poll(c)
    <2>1. CASE status.version # ipc.before
        <3>1. Fresh(status.text, asked) BY <1>8, <2>1 DEF Poll, FreshInv
        <3>2. reply' = {[text |-> status.text, asked |-> asked]} /\ asked' = NoRequest
              /\ ipc'.pc = "accept"
            BY <1>8, <2>1 DEF Poll, Answer
        <3>3. FreshStatus' BY <3>1, <3>2 DEF FreshStatus
        <3>4. asked'.table = 0 /\ asked'.ready = 0 BY <3>2 DEF NoRequest
        <3>5. 0 <= generation /\ 0 <= readiness /\ 0 <= summary.ready BY Fields
        <3> QED BY <1>1, <3>2, <3>3, <3>4, <3>5 DEF FreshInv
    <2>2. CASE status.version = ipc.before BY <1>2, <1>8, <2>2 DEF Poll, Goto
    <2> QED BY <2>1, <2>2
<1> QED BY <1>3, <1>4, <1>5, <1>6, <1>7, <1>8

\* A report that a listener marks while a summary is put together is the only
\* thing the outside adds to what there is to say.
LEMMA OutsideFresh == Types /\ FreshInv /\ Outside => FreshInv'
<1> SUFFICES ASSUME Types, FreshInv, Outside PROVE FreshInv'
    OBVIOUS
<1>1. CASE Die BY <1>1, LaterState DEF Die, main
<1>2. CASE mark_ready BY <1>2, LaterState DEF mark_ready, main
<1>3. ASSUME NEW c \in Clients, Connect(c) PROVE FreshInv'
    BY <1>3 DEF Connect, main, outside, FreshInv, FreshStatus, Fresh
<1>4. ASSUME NEW s \in Signals, on_signal(s) PROVE FreshInv'
    BY <1>4, LaterState DEF on_signal
<1> QED BY <1>1, <1>2, <1>3, <1>4 DEF Outside

\* A STATUS answer describes the services as they were at the request or later,
\* for any number of connections, signals, reports and exits of children: always
\* as to which services there are, and as to who is ready unless the request came
\* between the swap of the flag and publish_status.
THEOREM FreshStatusHolds == Spec => []FreshStatus
<1>1. Types /\ FreshInv /\ UNCHANGED vars => FreshInv'
    BY DEF FreshInv, FreshStatus, Fresh, vars
<1>2. Types /\ FreshInv /\ [Next]_vars => FreshInv'
    BY <1>1, MainFresh, ListenerFresh, OutsideFresh DEF Next
<1>3. FreshInv => FreshStatus
    BY DEF FreshInv
<1> QED BY <1>2, <1>3, InitTypes, InitFresh, NextTypes, PTL DEF Spec

-----------------------------------------------------------------------------
(* What of RequestsHonoured is safety: a request leaves where the signal   *)
(* handler or the socket put it only when the main thread goes on to act   *)
(* on it, so that nothing but the thread's own progress can fail it.       *)

Pending == flags \union masked
Honours(s) ==
    CASE s \in ShutdownFlags -> "stopping"
      [] s = "reload" -> "reloading"
      [] s = "status" -> "publish"

RequestsKept ==
    [][/\ \A s \in Pending : s \in Pending' \/ pc' = Honours(s)
       /\ \A t \in Available :
            isolate = {t} => isolate' = {t} \/ target' = t \/ \E u \in Targets : isolate' = {u}]_vars

LEMMA HonoursEach ==
    /\ \A s \in ShutdownFlags : Honours(s) = "stopping"
    /\ Honours("reload") = "reloading" /\ Honours("status") = "publish"
BY DEF Honours, ShutdownFlags

LEMMA PendingKept ==
    ASSUME [Next]_vars, NEW s \in Pending PROVE s \in Pending' \/ pc' = Honours(s)
<1>1. CASE TakeShutdown
    <2>1. CASE s \in flags /\ s \in ShutdownFlags BY <1>1, <2>1, HonoursEach DEF TakeShutdown
    <2>2. CASE ~(s \in flags /\ s \in ShutdownFlags) BY <1>1, <2>2 DEF TakeShutdown, Pending
    <2> QED BY <2>1, <2>2
<1>2. CASE TakeReload
    <2>1. CASE s \in flags /\ s = "reload" BY <1>2, <2>1, HonoursEach DEF TakeReload
    <2>2. CASE ~(s \in flags /\ s = "reload") BY <1>2, <2>2 DEF TakeReload, Pending
    <2> QED BY <2>1, <2>2
<1>3. CASE TakeStatus
    <2>1. CASE s \in flags /\ s = "status" BY <1>3, <2>1, HonoursEach DEF TakeStatus
    <2>2. CASE ~(s \in flags /\ s = "status") BY <1>3, <2>2 DEF TakeStatus, Pending
    <2> QED BY <2>1, <2>2
<1>4. CASE unblock_handled BY <1>4 DEF unblock_handled, Pending
<1>5. CASE \/ Stop \/ ApplyReload \/ take_pending_isolate \/ publish_status
           \/ ReapExit \/ StillAlive \/ NoChildren \/ Block
    BY <1>5 DEF Stop, ApplyReload, take_pending_isolate, publish_status, ReapExit, StillAlive,
                NoChildren, Block, Pending
<1>6. CASE Listener \/ LaunchOver
    BY <1>6 DEF Listener, Accept, handle, HandleDirect, HandleReload, request_isolate, HandleLaunch,
                HandleStatus, ReadFails, Snapshot, Poll, Sleep, LaunchOver, LaunchEnds,
                LaunchAborts, Pending
<1>7. CASE Outside BY <1>7 DEF Outside, Die, mark_ready, Connect, on_signal, Pending
<1>8. CASE UNCHANGED vars BY <1>8 DEF vars, Pending
<1> QED BY <1>1, <1>2, <1>3, <1>4, <1>5, <1>6, <1>7, <1>8 DEF Next, run_event_loop

LEMMA IsolateKept ==
    ASSUME [Next]_vars, NEW t \in Available, isolate = {t}
    PROVE  isolate' = {t} \/ target' = t \/ \E u \in Targets : isolate' = {u}
<1>1. CASE take_pending_isolate
    <2>1. isolate \intersect Available # {} OBVIOUS
    <2> QED BY <1>1, <2>1 DEF take_pending_isolate
<1>2. ASSUME NEW c \in Clients, handle(c) PROVE isolate' = isolate \/ \E u \in Targets : isolate' = {u}
    BY <1>2 DEF handle, HandleDirect, HandleReload, request_isolate
<1>3. CASE run_event_loop
    BY <1>1, <1>3 DEF run_event_loop, unblock_handled, TakeShutdown, Stop, TakeReload, ApplyReload,
                      TakeStatus, publish_status, ReapExit, StillAlive, NoChildren, Block
<1>4. CASE Listener \/ LaunchOver
    BY <1>2, <1>4 DEF Listener, Accept, HandleStatus, HandleLaunch, ReadFails, Snapshot, Poll, Sleep,
                      LaunchOver, LaunchEnds, LaunchAborts, main
<1>5. CASE Outside BY <1>5 DEF Outside, Die, mark_ready, Connect, on_signal, main
<1>6. CASE UNCHANGED vars BY <1>6 DEF vars
<1> QED BY <1>3, <1>4, <1>5, <1>6 DEF Next

\* signals.rs, ipc.rs and the swaps of run_event_loop: whichever threads and
\* signals come between, no shutdown, reload or status request is cleared
\* without the main thread turning to it, and an ISOLATE to a configured target
\* gives way only to another one.
THEOREM RequestsKeptHolds == Spec => RequestsKept
<1>1. [Next]_vars =>
        [/\ \A s \in Pending : s \in Pending' \/ pc' = Honours(s)
         /\ \A t \in Available :
              isolate = {t} => isolate' = {t} \/ target' = t \/ \E u \in Targets : isolate' = {u}]_vars
    BY PendingKept, IsolateKept
<1> QED BY <1>1, PTL DEF Spec, RequestsKept
=============================================================================
