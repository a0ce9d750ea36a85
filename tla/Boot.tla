-------------------------------- MODULE Boot --------------------------------
(***************************************************************************)
(* Supervisor::spawn_all: the initial start of every configured service.   *)
(* effective_after folds before=, requires= and wants= into after=,        *)
(* topological_order sorts by it one service at a time (draining what is   *)
(* left in listed order when it meets a cycle), and spawn_all walks the    *)
(* result: it skips a service whose hard dependency is not up, waits a     *)
(* bounded time for each after_ready dependency, then spawns.              *)
(*                                                                         *)
(* Services are known by their position in the configuration, so that two  *)
(* definitions with one name stay apart.  The started services report      *)
(* READY=1 on their own (through notify.rs) while the boot goes on.        *)
(***************************************************************************)
EXTENDS Naturals, Sequences

CONSTANTS Names,     \* service names, configured or only referred to
          Shell,     \* the name of the rescue shell, "shell" in the code
          Configs    \* the configurations a boot may start from

ServiceDef == [name : Names, critical : BOOLEAN, after : SUBSET Names,
               before : SUBSET Names, requires : SUBSET Names,
               wants : SUBSET Names, after_ready : SUBSET Names]

ASSUME BootAssumption == Shell \in Names /\ Configs \subseteq Seq(ServiceDef)

VARIABLES defs,       \* the slice spawn_all was given
          remaining,  \* topological_order: positions not yet placed
          ordered,    \* topological_order: positions in start order
          placed,     \* topological_order: names already placed
          drained,    \* how many of ordered were appended by the cycle branch
          pc,         \* where the main thread is
          next,       \* spawn_all: index in ordered of the service at hand
          waits,      \* after_ready names the current service still waits for
          fate,       \* what became of each position
          tracked,    \* names in Supervisor::services
          spawned,    \* spawn_all's set of names that came up
          live,       \* names whose own program is running
          ready       \* ReadyState::ready

orderVars == <<remaining, ordered, placed, drained>>
spawnVars == <<next, waits, fate, tracked, spawned, live, ready>>
vars == <<defs, remaining, ordered, placed, drained, pc, next, waits,
          fate, tracked, spawned, live, ready>>

Positions == 1..Len(defs)
Configured == {defs[i].name : i \in Positions}

-----------------------------------------------------------------------------
(* effective_after and topological_order.                                  *)

\* Position i is the one iter().find(|d| d.name == ...) returns for its name.
FirstNamed(i) == \A j \in 1..(i - 1) : defs[j].name # defs[i].name

\* Mutant of EffectiveAfter: wants= does not order.
AfterWithoutWants(i) ==
    defs[i].after \cup defs[i].requires
    \cup {defs[j].name : j \in {j \in Positions :
                                 defs[i].name \in defs[j].before /\ FirstNamed(i)}}

EffectiveAfter(i) ==
    defs[i].after \cup defs[i].requires \cup defs[i].wants
    \cup {defs[j].name : j \in {j \in Positions :
                                 defs[i].name \in defs[j].before /\ FirstNamed(i)}}

\* Mutant of Unblocked: a name that is not configured blocks.
PlacedOnly(i) == \A dep \in EffectiveAfter(i) : dep \in placed

Unblocked(i) == \A dep \in EffectiveAfter(i) : dep \in placed \/ dep \notin Configured

Place ==
    /\ pc = "order"
    /\ \E i \in remaining :
        /\ Unblocked(i)
        /\ \A j \in remaining : j < i => ~Unblocked(j)
        /\ remaining' = remaining \ {i}
        /\ placed' = placed \cup {defs[i].name}
        /\ ordered' = Append(ordered, i)
    /\ UNCHANGED <<defs, drained, pc, spawnVars>>

FindCycle ==
    /\ pc = "order"
    /\ remaining # {}
    /\ \A i \in remaining : ~Unblocked(i)
    /\ pc' = "drain"
    /\ UNCHANGED <<defs, orderVars, spawnVars>>

\* Mutant of Drain: only the first of the rest is kept.
DrainFirstOnly ==
    /\ pc = "drain"
    /\ \E i \in remaining :
        /\ \A j \in remaining : i <= j
        /\ ordered' = Append(ordered, i)
    /\ remaining' = {}
    /\ drained' = drained + 1
    /\ UNCHANGED <<defs, placed, pc, spawnVars>>

Drain ==
    /\ pc = "drain"
    /\ \E i \in remaining :
        /\ \A j \in remaining : i <= j
        /\ remaining' = remaining \ {i}
        /\ ordered' = Append(ordered, i)
    /\ drained' = drained + 1
    /\ UNCHANGED <<defs, placed, pc, spawnVars>>

Sorted ==
    /\ pc \in {"order", "drain"}
    /\ remaining = {}
    /\ pc' = "next"
    /\ UNCHANGED <<defs, orderVars, spawnVars>>

-----------------------------------------------------------------------------
(* spawn_all's loop over the sorted services.                              *)

Here == ordered[next]
More == next <= Len(ordered)

\* Mutant of HardMissing: a name that is not configured counts as missing.
AnyMissing(i) == {r \in defs[i].requires : r \notin spawned}

HardMissing(i) == {r \in defs[i].requires : r \in Configured /\ r \notin spawned}

Skip ==
    /\ pc = "next" /\ More
    /\ HardMissing(Here) # {}
    /\ fate' = [fate EXCEPT ![Here] = "skipped"]
    /\ next' = next + 1
    /\ UNCHANGED <<defs, orderVars, pc, waits, tracked, spawned, live, ready>>

Admit ==
    /\ pc = "next" /\ More
    /\ HardMissing(Here) = {}
    /\ pc' = "wait"
    /\ waits' = defs[Here].after_ready
    /\ UNCHANGED <<defs, orderVars, next, fate, tracked, spawned, live, ready>>

\* wait_for_ready returns because the dependency is ready ...
SeeReady ==
    /\ pc = "wait"
    /\ \E dep \in waits \cap ready : waits' = waits \ {dep}
    /\ UNCHANGED <<defs, orderVars, pc, next, fate, tracked, spawned, live, ready>>

\* Mutant of TimeOut: no deadline.
WaitOn ==
    /\ pc = "wait"
    /\ \E dep \in waits \cap ready : waits' = waits \ {dep}
    /\ UNCHANGED <<defs, orderVars, pc, next, fate, tracked, spawned, live, ready>>

\* ... or because READY_WAIT_TIMEOUT has passed.
TimeOut ==
    /\ pc = "wait"
    /\ \E dep \in waits \ ready : waits' = waits \ {dep}
    /\ UNCHANGED <<defs, orderVars, pc, next, fate, tracked, spawned, live, ready>>

\* spawn_with_history returned: the name counts as spawned iff some tracked
\* service carries it (a rescue shell counts for a service named Shell).
Spawned(i, result) ==
    /\ fate' = [fate EXCEPT ![i] = result]
    /\ spawned' = spawned \cup ({defs[i].name} \cap tracked')
    /\ ready' = ready \ {defs[i].name}
    /\ next' = next + 1
    /\ pc' = "next"
    /\ UNCHANGED <<defs, orderVars, waits>>

SpawnOk ==
    /\ pc = "wait" /\ waits = {}
    /\ tracked' = tracked \cup {defs[Here].name}
    /\ live' = live \cup {defs[Here].name}
    /\ Spawned(Here, "started")

SpawnFails ==
    /\ pc = "wait" /\ waits = {}
    /\ tracked' = tracked
    /\ live' = live
    /\ Spawned(Here, "failed")

FallBackToShell ==
    /\ pc = "wait" /\ waits = {}
    /\ defs[Here].critical
    /\ tracked' = tracked \cup {Shell}
    /\ live' = live
    /\ Spawned(Here, "failed")

Booted ==
    /\ pc = "next" /\ ~More
    /\ pc' = "booted"
    /\ UNCHANGED <<defs, orderVars, spawnVars>>

-----------------------------------------------------------------------------
(* The listener thread of notify.rs records a started service's READY=1.   *)
MarkReady ==
    /\ pc # "booted"
    /\ \E n \in live \ ready : ready' = ready \cup {n}
    /\ UNCHANGED <<defs, orderVars, pc, next, waits, fate, tracked, spawned, live>>

Init ==
    /\ defs \in Configs
    /\ remaining = 1..Len(defs)
    /\ ordered = <<>>
    /\ placed = {}
    /\ drained = 0
    /\ pc = "order"
    /\ next = 1
    /\ waits = {}
    /\ fate = [i \in 1..Len(defs) |-> "pending"]
    /\ tracked = {}
    /\ spawned = {}
    /\ live = {}
    /\ ready = {}

MainThread == Place \/ FindCycle \/ Drain \/ Sorted \/ Skip \/ Admit \/ SeeReady
              \/ TimeOut \/ SpawnOk \/ SpawnFails \/ FallBackToShell \/ Booted

Next == MainThread \/ MarkReady

\* The main thread runs on; nothing obliges a service to become ready.
Spec == Init /\ [][Next]_vars /\ WF_vars(MainThread)

-----------------------------------------------------------------------------
(* Properties.                                                             *)

\* Types of the sort's and the spawn loop's state.
TypeOK ==
    /\ defs \in Seq(ServiceDef)
    /\ remaining \subseteq Positions
    /\ ordered \in Seq(Positions)
    /\ placed \subseteq Names
    /\ drained \in Nat
    /\ pc \in {"order", "drain", "next", "wait", "booted"}
    /\ next \in Nat \ {0}
    /\ waits \subseteq Names
    /\ fate \in [Positions -> {"pending", "skipped", "started", "failed"}]
    /\ tracked \subseteq Names
    /\ spawned \subseteq Names
    /\ live \subseteq Names
    /\ ready \subseteq Names

\* topological_order neither loses nor repeats a service, whether or not it
\* meets a cycle: at every moment each position is either still remaining or
\* exactly once in ordered, and it is spawned or skipped in that order.
NothingLost ==
    /\ \A i \in Positions : i \in remaining <=> \A k \in DOMAIN ordered : ordered[k] # i
    /\ \A j, k \in DOMAIN ordered : ordered[j] = ordered[k] => j = k
    /\ pc = "booted" => \A i \in Positions : fate[i] # "pending"

\* What the four ordering keys of the unit file ask for, read key by key:
\* the names that have to come before position i.
Predecessors(i) ==
    {n \in Names : \/ n \in defs[i].after
                   \/ n \in defs[i].requires
                   \/ n \in defs[i].wants
                   \/ \E j \in Positions : /\ defs[j].name = n
                                           /\ defs[i].name \in defs[j].before
                                           /\ FirstNamed(i)}

\* Every service that topological_order placed before it met a cycle (all of
\* them when there is none) comes after each configured service its own
\* after=, requires= and wants= and the others' before= name.
OrderRespected ==
    \A k \in 1..(Len(ordered) - drained) :
        \A n \in Predecessors(ordered[k]) \cap Configured :
            \E j \in 1..(k - 1) : defs[ordered[j]].name = n

\* A knot of services, none of which can be the first of them to start: each
\* comes after a configured name that only services of the knot bear.  As there
\* are finitely many, these are the services on a cycle or behind one.
Knot(S) ==
    \A i \in S : \E n \in Predecessors(i) \cap Configured :
        \A j \in Positions : defs[j].name = n => j \in S
Stuck == UNION {S \in SUBSET Positions : Knot(S)}

\* topological_order gives up on exactly the services in a knot, none if there
\* is no cycle: no service that could have been ordered is started in listed
\* order because of somebody else's cycle.
DrainsOnlyTheCycle ==
    pc # "order" =>
        remaining \cup {ordered[k] : k \in (Len(ordered) - drained + 1) .. Len(ordered)} = Stuck

\* requires= is exact when names are distinct and there is no cycle (a cycle is
\* drained in listed order, and a service may then be skipped although what it
\* requires is spawned after it): once boot is over, a service was skipped if and
\* only if one of its configured hard dependencies did not come up, through every
\* chain of failures and skips.
RequiresExact ==
    pc = "booted" /\ drained = 0 /\ (\A i \in Positions : FirstNamed(i)) =>
        \A i \in Positions :
            fate[i] = "skipped" <=> \E r \in defs[i].requires \cap Configured : r \notin spawned

\* spawn_all returns whatever the configuration: cycles are drained, waits
\* time out and failures are passed over, so the event loop is reached.
BootCompletes == <>(pc = "booted")

=============================================================================
