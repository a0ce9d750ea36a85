----------------------------- MODULE BootProofs -----------------------------
(* Theorems about the initial start, for every configuration: any number   *)
(* of services, any ordering keys, cycles and repeated names included.     *)
EXTENDS Boot, WellFoundedInduction, TLAPS

\* The walk over the sorted services: where it stands, and what it has done.
WalkInv ==
    /\ pc \in {"order", "drain"} => next = 1
    /\ pc \notin {"order", "drain"} => remaining = {}
    /\ pc = "wait" => next <= Len(ordered)
    /\ pc = "booted" => next > Len(ordered)
    /\ \A k \in DOMAIN ordered : k < next => fate[ordered[k]] # "pending"

\* What topological_order's two collections say of the order built so far.
OrderInv ==
    /\ drained <= Len(ordered)
    /\ pc = "order" => drained = 0
    /\ \A n \in placed : \E k \in 1..(Len(ordered) - drained) : defs[ordered[k]].name = n
    /\ OrderRespected

Partition ==
    /\ \A i \in Positions : i \in remaining <=> \A k \in DOMAIN ordered : ordered[k] # i
    /\ \A j, k \in DOMAIN ordered : ordered[j] = ordered[k] => j = k

BootInv == TypeOK /\ WalkInv /\ Partition /\ OrderInv

\* Each definition of a configuration is well typed.
LEMMA DefType == ASSUME defs \in Seq(ServiceDef), NEW i \in Positions
                 PROVE  /\ defs[i] \in ServiceDef
                        /\ defs[i].name \in Names
                        /\ defs[i].after_ready \subseteq Names
<1>1. defs[i] \in ServiceDef
  BY DEF Positions
<1> QED
  BY <1>1 DEF ServiceDef

\* effective_after leaves out nothing that a key of the unit file asks for.
LEMMA EffectiveAfterComplete ==
  ASSUME NEW i \in Positions PROVE Predecessors(i) \subseteq EffectiveAfter(i)
  BY DEF Predecessors, EffectiveAfter

LEMMA InitInv == Init => BootInv
<1> SUFFICES ASSUME Init PROVE BootInv
  OBVIOUS
<1>1. defs \in Seq(ServiceDef)
  BY BootAssumption DEF Init
<1>2. Positions = 1..Len(defs) /\ Len(defs) \in Nat
  BY <1>1 DEF Positions
<1>3. ordered = <<>> /\ drained = 0 /\ Len(ordered) = 0
  BY DEF Init
<1>4. TypeOK
  BY <1>1, <1>2 DEF Init, TypeOK
<1>5. WalkInv /\ Partition
  BY <1>2, <1>3 DEF Init, WalkInv, Partition
<1>6. OrderInv
  BY <1>3 DEF Init, OrderInv, OrderRespected
<1> QED
  BY <1>4, <1>5, <1>6 DEF BootInv

\* Appending position i to the order: what every proof about it needs.
LEMMA Appended ==
  ASSUME BootInv, NEW i \in remaining, ordered' = Append(ordered, i), defs' = defs
  PROVE  /\ i \in Positions
         /\ ordered' \in Seq(Positions)
         /\ Len(ordered') = Len(ordered) + 1
         /\ Len(ordered) \in Nat
         /\ DOMAIN ordered = 1..Len(ordered)
         /\ DOMAIN ordered' = 1..(Len(ordered) + 1)
         /\ \A k \in 1..Len(ordered) : ordered'[k] = ordered[k]
         /\ ordered'[Len(ordered) + 1] = i
         /\ Positions' = Positions
         /\ Configured' = Configured
  BY DEF BootInv, TypeOK, Positions, Configured

\* Sorting neither loses nor repeats a position.
LEMMA AppendPartition ==
  ASSUME BootInv, NEW i \in remaining, ordered' = Append(ordered, i), defs' = defs,
         remaining' = remaining \ {i}
  PROVE  Partition'
<1>1. Positions' = Positions
  BY Appended
<1>2. ASSUME NEW h \in Positions
      PROVE  h \in remaining' <=> \A k \in DOMAIN ordered' : ordered'[k] # h
  <2>1. CASE h = i
    BY <2>1, Appended
  <2>2. CASE h # i
    BY <2>2, Appended DEF BootInv, Partition
  <2> QED
    BY <2>1, <2>2
<1>3. ASSUME NEW j \in DOMAIN ordered', NEW k \in DOMAIN ordered', ordered'[j] = ordered'[k]
      PROVE  j = k
  BY <1>3, Appended DEF BootInv, Partition
<1> QED
  BY <1>1, <1>2, <1>3 DEF Partition

LEMMA StepInv == BootInv /\ [Next]_vars => BootInv'
<1> SUFFICES ASSUME BootInv, [Next]_vars PROVE BootInv'
  OBVIOUS
<1>0. TypeOK /\ WalkInv /\ Partition /\ OrderInv
  BY DEF BootInv
<1>a. CASE Place
  <2>1. PICK i \in remaining :
          /\ Unblocked(i)
          /\ remaining' = remaining \ {i}
          /\ placed' = placed \cup {defs[i].name}
          /\ ordered' = Append(ordered, i)
    BY <1>a DEF Place
  <2>2. pc = "order" /\ UNCHANGED <<defs, drained, pc, spawnVars>>
    BY <1>a DEF Place
  <2>3. Partition'
    BY <2>1, <2>2, AppendPartition
  <2>4. TypeOK'
    BY <1>0, <2>1, <2>2, Appended, DefType DEF TypeOK, spawnVars, Positions
  <2>5. WalkInv'
    BY <1>0, <2>1, <2>2, Appended DEF WalkInv, TypeOK, spawnVars
  <2>6. drained' = 0
    BY <1>0, <2>2 DEF OrderInv
  <2>7. \A n \in placed' : \E k \in 1..(Len(ordered') - drained') : defs'[ordered'[k]].name = n
    BY <1>0, <2>1, <2>2, <2>6, Appended DEF OrderInv
  <2>8. OrderRespected'
    <3>0. \A h : Predecessors(h)' = Predecessors(h)
      BY <2>2 DEF Predecessors, Positions, FirstNamed
    <3>1. Configured' = Configured
      BY <2>1, <2>2, Appended
    <3> SUFFICES ASSUME NEW k \in 1..(Len(ordered) + 1),
                        NEW n \in Predecessors(ordered'[k]) \cap Configured
                 PROVE  \E j \in 1..(k - 1) : defs[ordered'[j]].name = n
      BY <2>1, <2>2, <2>6, <3>0, <3>1, Appended DEF OrderRespected
    <3>2. CASE k \in 1..Len(ordered)
      BY <1>0, <2>1, <2>2, <2>6, <3>2, Appended DEF OrderInv, OrderRespected
    <3>3. CASE k = Len(ordered) + 1
      <4>1. n \in EffectiveAfter(i) /\ n \in Configured
        BY <2>1, <2>2, <3>3, Appended, EffectiveAfterComplete
      <4>2. n \in placed
        BY <2>1, <4>1 DEF Unblocked
      <4> QED
        BY <1>0, <2>1, <2>2, <2>6, <3>3, <4>2, Appended DEF OrderInv
    <3> QED
      BY <2>1, <2>2, <3>2, <3>3, Appended
  <2>9. OrderInv'
    BY <2>1, <2>2, <2>6, <2>7, <2>8, Appended DEF OrderInv
  <2> QED
    BY <2>3, <2>4, <2>5, <2>9 DEF BootInv
<1>b. CASE Drain
  <2>1. PICK i \in remaining : remaining' = remaining \ {i} /\ ordered' = Append(ordered, i)
    BY <1>b DEF Drain
  <2>2. pc = "drain" /\ drained' = drained + 1 /\ UNCHANGED <<defs, placed, pc, spawnVars>>
    BY <1>b DEF Drain
  <2>3. Partition'
    BY <2>1, <2>2, AppendPartition
  <2>4. TypeOK'
    BY <1>0, <2>1, <2>2, Appended DEF TypeOK, spawnVars, Positions
  <2>5. WalkInv'
    BY <1>0, <2>1, <2>2, Appended DEF WalkInv, TypeOK, spawnVars
  <2>6. /\ drained \in Nat /\ drained <= Len(ordered)
        /\ Len(ordered') - drained' = Len(ordered) - drained
        /\ \A k \in 1..(Len(ordered) - drained) : ordered'[k] = ordered[k]
    BY <1>0, <2>1, <2>2, Appended DEF OrderInv, TypeOK
  <2>7. OrderRespected'
    <3>1. \A h : Predecessors(h)' = Predecessors(h)
      BY <2>2 DEF Predecessors, Positions, FirstNamed
    <3>2. Configured' = Configured
      BY <2>1, <2>2, Appended
    <3> SUFFICES ASSUME NEW k \in 1..(Len(ordered) - drained),
                        NEW n \in Predecessors(ordered[k]) \cap Configured
                 PROVE  \E j \in 1..(k - 1) : defs[ordered'[j]].name = n
      BY <2>2, <2>6, <3>1, <3>2 DEF OrderRespected
    <3>3. PICK j \in 1..(k - 1) : defs[ordered[j]].name = n
      BY <1>0 DEF OrderInv, OrderRespected
    <3>4. j \in 1..(Len(ordered) - drained)
      BY <2>1, <2>2, <2>6, <3>3, Appended
    <3> QED
      BY <2>6, <3>3, <3>4
  <2>8. \A n \in placed' : \E k \in 1..(Len(ordered') - drained') : defs'[ordered'[k]].name = n
    BY <1>0, <2>2, <2>6 DEF OrderInv
  <2>9. OrderInv'
    BY <2>1, <2>2, <2>6, <2>7, <2>8, Appended DEF OrderInv
  <2> QED
    BY <2>3, <2>4, <2>5, <2>9 DEF BootInv
<1>1. ASSUME UNCHANGED <<defs, orderVars>>, pc' = "order" => pc = "order"
      PROVE  Partition' /\ OrderInv' /\ Positions' = Positions
  <2>1. UNCHANGED <<defs, remaining, ordered, placed, drained>>
    BY <1>1 DEF orderVars
  <2>2. Positions' = Positions /\ Configured' = Configured
    BY <2>1 DEF Positions, Configured
  <2>3. Partition'
    BY <1>0, <2>1, <2>2 DEF Partition
  <2>4. \A h : Predecessors(h)' = Predecessors(h)
    BY <2>1 DEF Predecessors, Positions, FirstNamed
  <2>5. OrderRespected'
    BY <1>0, <2>1, <2>2, <2>4 DEF OrderInv, OrderRespected
  <2> QED
    BY <1>0, <1>1, <2>1, <2>2, <2>3, <2>5 DEF OrderInv
<1>2. (pc \in {"next", "wait"} /\ next <= Len(ordered)) => next \in DOMAIN ordered /\ Here \in Positions
  BY <1>0 DEF TypeOK, Here
<1>c. CASE FindCycle \/ Sorted \/ Booted
  <2>1. Partition' /\ OrderInv' /\ Positions' = Positions
    BY <1>c, <1>1 DEF FindCycle, Sorted, Booted
  <2>2. TypeOK'
    BY <1>0, <1>c, <2>1 DEF FindCycle, Sorted, Booted, TypeOK, orderVars, spawnVars
  <2>3. WalkInv'
    BY <1>0, <1>c DEF FindCycle, Sorted, Booted, WalkInv, TypeOK, orderVars, spawnVars, More
  <2> QED
    BY <2>1, <2>2, <2>3 DEF BootInv
<1>3. ASSUME pc \in {"next", "wait"}, next <= Len(ordered), UNCHANGED <<defs, orderVars>>,
             NEW result \in {"skipped", "started", "failed"},
             fate' = [fate EXCEPT ![Here] = result],
             next' = next + 1, pc' = "next"
      PROVE  WalkInv' /\ fate' \in [Positions -> {"pending", "skipped", "started", "failed"}]
  <2>1. next \in DOMAIN ordered /\ Here \in Positions /\ Here = ordered[next]
    BY <1>2, <1>3 DEF Here
  <2>2. fate' \in [Positions -> {"pending", "skipped", "started", "failed"}]
    BY <1>0, <1>3, <2>1 DEF TypeOK
  <2>3. ASSUME NEW k \in DOMAIN ordered, k < next + 1 PROVE fate'[ordered[k]] # "pending"
    <3>1. ordered[k] \in Positions
      BY <1>0, <2>3 DEF TypeOK
    <3>2. CASE k = next
      BY <1>0, <1>3, <2>1, <3>1, <3>2 DEF TypeOK
    <3>3. CASE k # next
      <4>1. k < next
        BY <1>0, <2>3, <3>3 DEF TypeOK
      <4> QED
        BY <1>0, <1>3, <2>1, <2>3, <3>1, <4>1 DEF TypeOK, WalkInv
    <3> QED
      BY <3>2, <3>3
  <2> QED
    BY <1>0, <1>3, <2>2, <2>3 DEF WalkInv, orderVars
<1>d. CASE Skip
  <2>1. Partition' /\ OrderInv' /\ Positions' = Positions
    BY <1>d, <1>1 DEF Skip
  <2>2. WalkInv' /\ fate' \in [Positions -> {"pending", "skipped", "started", "failed"}]
    BY <1>d, <1>3 DEF Skip, More
  <2>3. TypeOK'
    BY <1>0, <1>d, <2>1, <2>2 DEF Skip, TypeOK, orderVars
  <2> QED
    BY <2>1, <2>2, <2>3 DEF BootInv
<1>e. CASE Admit
  <2>1. Partition' /\ OrderInv' /\ Positions' = Positions
    BY <1>e, <1>1 DEF Admit
  <2>2. defs[Here].after_ready \subseteq Names
    BY <1>0, <1>2, <1>e, DefType DEF Admit, More, TypeOK
  <2>3. TypeOK'
    BY <1>0, <1>e, <2>1, <2>2 DEF Admit, TypeOK, orderVars
  <2>4. WalkInv'
    BY <1>0, <1>e DEF Admit, More, WalkInv, orderVars
  <2> QED
    BY <2>1, <2>3, <2>4 DEF BootInv
<1>f. CASE SeeReady \/ TimeOut \/ MarkReady
  <2>1. Partition' /\ OrderInv' /\ Positions' = Positions
    BY <1>f, <1>1 DEF SeeReady, TimeOut, MarkReady
  <2>2. TypeOK' /\ WalkInv'
    BY <1>0, <1>f, <2>1 DEF SeeReady, TimeOut, MarkReady, TypeOK, WalkInv, orderVars
  <2> QED
    BY <2>1, <2>2 DEF BootInv
<1>g. CASE SpawnOk \/ SpawnFails \/ FallBackToShell
  <2>1. /\ pc = "wait" /\ next <= Len(ordered) /\ Here \in Positions
        /\ \E result \in {"started", "failed"} : Spawned(Here, result)
    BY <1>0, <1>2, <1>g DEF SpawnOk, SpawnFails, FallBackToShell, WalkInv
  <2>2. defs[Here].name \in Names
    BY <1>0, <2>1, DefType DEF TypeOK
  <2>3. tracked' \subseteq Names /\ live' \subseteq Names
    BY <1>0, <1>g, <2>2, BootAssumption DEF SpawnOk, SpawnFails, FallBackToShell, TypeOK
  <2>4. Partition' /\ OrderInv' /\ Positions' = Positions
    BY <2>1, <1>1 DEF Spawned
  <2>5. WalkInv' /\ fate' \in [Positions -> {"pending", "skipped", "started", "failed"}]
    BY <2>1, <1>3 DEF Spawned
  <2>6. TypeOK'
    BY <1>0, <2>1, <2>3, <2>4, <2>5 DEF Spawned, TypeOK, orderVars
  <2> QED
    BY <2>4, <2>5, <2>6 DEF BootInv
<1>h. CASE UNCHANGED vars
  <2>1. Partition' /\ OrderInv' /\ Positions' = Positions
    BY <1>h, <1>1 DEF vars, orderVars
  <2>2. TypeOK' /\ WalkInv'
    BY <1>0, <1>h, <2>1 DEF vars, TypeOK, WalkInv
  <2> QED
    BY <2>1, <2>2 DEF BootInv
<1> QED
  BY <1>a, <1>b, <1>c, <1>d, <1>e, <1>f, <1>g, <1>h DEF Next, MainThread

LEMMA Invariance == Spec => []BootInv
  BY InitInv, StepInv, PTL DEF Spec

-----------------------------------------------------------------------------
\* spawn_all's state is well typed in every reachable state.
THEOREM TypeCorrect == Spec => []TypeOK
<1>1. BootInv => TypeOK
  BY DEF BootInv
<1> QED
  BY <1>1, Invariance, PTL

\* Whatever the ordering keys say, cycles included, topological_order neither
\* loses nor repeats a service, and none is left undecided when boot is over.
THEOREM NothingLostHolds == Spec => []NothingLost
<1>1. BootInv => NothingLost
  <2> SUFFICES ASSUME BootInv PROVE NothingLost
    OBVIOUS
  <2>1. ASSUME pc = "booted", NEW i \in Positions PROVE fate[i] # "pending"
    <3>1. PICK k \in DOMAIN ordered : ordered[k] = i
      BY <2>1 DEF BootInv, WalkInv, Partition
    <3>2. k < next
      BY <2>1, <3>1 DEF BootInv, WalkInv, TypeOK
    <3> QED
      BY <3>1, <3>2 DEF BootInv, WalkInv
  <2> QED
    BY <2>1 DEF BootInv, Partition, NothingLost
<1> QED
  BY <1>1, Invariance, PTL

\* Every service placed before a cycle is met starts after each configured
\* service that after=, requires=, wants= or another's before= names.
THEOREM OrderRespectedHolds == Spec => []OrderRespected
<1>1. BootInv => OrderRespected
  BY DEF BootInv, OrderInv
<1> QED
  BY <1>1, Invariance, PTL

-----------------------------------------------------------------------------
(* requires=.  Whether a dependency came up is final before a service that *)
(* requires it is looked at: it comes earlier in the order, and the walk   *)
(* adds to spawned only the name at hand.                                  *)

ExactInv ==
    drained = 0 /\ (\A i \in Positions : FirstNamed(i)) =>
        /\ \A k \in DOMAIN ordered : k < next =>
             (fate[ordered[k]] = "skipped" <=> HardMissing(ordered[k]) # {})
        /\ pc = "wait" => HardMissing(Here) = {}

\* A required, configured name belongs to an earlier service of the order.
LEMMA RequiredEarlier ==
  ASSUME BootInv, drained = 0, NEW k \in DOMAIN ordered,
         NEW r \in defs[ordered[k]].requires, r \in Configured
  PROVE  \E j \in DOMAIN ordered : j < k /\ defs[ordered[j]].name = r
<1>1. ordered \in Seq(Positions) /\ ordered[k] \in Positions /\ defs \in Seq(ServiceDef)
  BY DEF BootInv, TypeOK
<1>2. defs[ordered[k]] \in ServiceDef
  BY <1>1, DefType
<1>3. r \in Predecessors(ordered[k])
  BY <1>2 DEF Predecessors, ServiceDef
<1>4. k \in 1..(Len(ordered) - drained)
  BY <1>1
<1>5. PICK j \in 1..(k - 1) : defs[ordered[j]].name = r
  BY <1>3, <1>4 DEF BootInv, OrderInv, OrderRespected
<1>6. j \in DOMAIN ordered /\ j < k
  BY <1>1, <1>4, <1>5
<1> QED
  BY <1>5, <1>6

\* With distinct names, two places of the order have different names.
LEMMA NamesApart ==
  ASSUME BootInv, \A i \in Positions : FirstNamed(i),
         NEW j \in DOMAIN ordered, NEW k \in DOMAIN ordered, j # k
  PROVE  defs[ordered[j]].name # defs[ordered[k]].name
<1>1. ordered[j] \in Positions /\ ordered[k] \in Positions /\ ordered[j] # ordered[k]
  BY DEF BootInv, TypeOK, Partition
<1>2. ordered[j] \in Nat /\ ordered[k] \in Nat /\ ordered[j] >= 1 /\ ordered[k] >= 1
  BY <1>1 DEF BootInv, TypeOK, Positions
<1>3. ordered[j] \in 1..(ordered[k] - 1) \/ ordered[k] \in 1..(ordered[j] - 1)
  BY <1>1, <1>2
<1> QED
  BY <1>1, <1>3 DEF FirstNamed

LEMMA ExactStep ==
  ASSUME BootInv, ExactInv, [Next]_vars
  PROVE  ExactInv'
<1>0. /\ ordered \in Seq(Positions) /\ next \in Nat \ {0} /\ drained \in Nat
      /\ fate \in [Positions -> {"pending", "skipped", "started", "failed"}]
      /\ \A k \in DOMAIN ordered : k \in Nat /\ ordered[k] \in Positions
  BY DEF BootInv, TypeOK
<1>a. CASE Place \/ FindCycle \/ Drain \/ Sorted
  <2>1. pc' \in {"order", "drain", "next"} /\ next' = 1 /\ ordered' \in Seq(Positions')
    <3>1. TypeOK' /\ WalkInv'
      BY StepInv DEF BootInv
    <3>2. next' = next /\ pc \in {"order", "drain"} /\ pc' \in {"order", "drain", "next"}
      BY <1>a DEF Place, FindCycle, Drain, Sorted, spawnVars, BootInv, TypeOK
    <3>3. next = 1
      BY <3>2 DEF BootInv, WalkInv
    <3> QED
      BY <3>1, <3>2, <3>3 DEF TypeOK
  <2>2. \A k \in DOMAIN ordered' : ~(k < next')
    BY <2>1
  <2> QED
    BY <2>1, <2>2 DEF ExactInv
<1> SUFFICES ASSUME ~(Place \/ FindCycle \/ Drain \/ Sorted) PROVE ExactInv'
  BY <1>a
<1>1. UNCHANGED <<defs, ordered, drained>>
  BY DEF Next, MainThread, Skip, Admit, SeeReady, TimeOut, SpawnOk, SpawnFails, FallBackToShell,
         Spawned, Booted, MarkReady, orderVars, vars
<1>2. Positions' = Positions /\ Configured' = Configured
  BY <1>1 DEF Positions, Configured
<1> SUFFICES ASSUME drained = 0, \A i \in Positions : FirstNamed(i)
             PROVE  /\ \A k \in DOMAIN ordered : k < next' =>
                         (fate'[ordered[k]] = "skipped" <=> HardMissing(ordered[k])' # {})
                    /\ pc' = "wait" => HardMissing(Here)' = {}
  BY <1>1, <1>2 DEF ExactInv, FirstNamed
<1>3. /\ \A k \in DOMAIN ordered : k < next =>
           (fate[ordered[k]] = "skipped" <=> HardMissing(ordered[k]) # {})
      /\ pc = "wait" => HardMissing(Here) = {}
  BY DEF ExactInv
<1>b. CASE Admit \/ SeeReady \/ TimeOut \/ MarkReady \/ Booted \/ UNCHANGED vars
  <2>1. UNCHANGED <<next, fate, spawned>>
    BY <1>b DEF Admit, SeeReady, TimeOut, MarkReady, Booted, spawnVars, vars
  <2>2. \A k \in DOMAIN ordered : HardMissing(ordered[k])' = HardMissing(ordered[k])
    BY <1>1, <1>2, <2>1 DEF HardMissing
  <2>3. HardMissing(Here)' = HardMissing(Here)
    BY <1>1, <1>2, <2>1 DEF HardMissing, Here
  <2>4. pc' = "wait" => HardMissing(Here) = {}
    BY <1>b, <1>3 DEF Admit, SeeReady, TimeOut, MarkReady, Booted, vars
  <2> QED
    BY <1>3, <2>1, <2>2, <2>3, <2>4
<1>c. CASE Skip
  <2>1. /\ next \in DOMAIN ordered /\ HardMissing(Here) # {} /\ next' = next + 1 /\ spawned' = spawned
        /\ fate' = [fate EXCEPT ![Here] = "skipped"] /\ pc' = "next"
    BY <1>0, <1>c DEF Skip, More
  <2>2. ASSUME NEW k \in DOMAIN ordered, k < next'
        PROVE  fate'[ordered[k]] = "skipped" <=> HardMissing(ordered[k])' # {}
    <3>1. HardMissing(ordered[k])' = HardMissing(ordered[k])
      BY <1>1, <1>2, <2>1 DEF HardMissing
    <3>2. CASE k = next
      BY <1>0, <2>1, <3>1, <3>2 DEF Here
    <3>3. CASE k # next
      <4>1. k < next /\ ordered[k] # Here
        BY <1>0, <2>1, <2>2, <3>3 DEF Here, BootInv, Partition
      <4> QED
        BY <1>0, <1>3, <2>1, <3>1, <4>1
    <3> QED
      BY <3>2, <3>3
  <2> QED
    BY <2>1, <2>2
<1>d. CASE SpawnOk \/ SpawnFails \/ FallBackToShell
  <2>1. /\ pc = "wait" /\ pc' = "next" /\ next' = next + 1
        /\ spawned \subseteq spawned' /\ spawned' \subseteq spawned \cup {defs[Here].name}
        /\ \E result \in {"started", "failed"} : fate' = [fate EXCEPT ![Here] = result]
    BY <1>d DEF SpawnOk, SpawnFails, FallBackToShell, Spawned
  <2>2. next \in DOMAIN ordered /\ Here = ordered[next]
    BY <1>0, <2>1 DEF Here, BootInv, WalkInv
  <2>3. ASSUME NEW k \in DOMAIN ordered, k < next'
        PROVE  fate'[ordered[k]] = "skipped" <=> HardMissing(ordered[k])' # {}
    <3>1. CASE k = next
      <4>1. HardMissing(ordered[k])' = {}
        BY <1>1, <1>2, <1>3, <2>1, <2>2, <3>1 DEF HardMissing
      <4>2. fate'[ordered[k]] # "skipped"
        BY <1>0, <2>1, <2>2, <3>1
      <4> QED
        BY <4>1, <4>2
    <3>2. CASE k # next
      <4>1. k < next /\ ordered[k] # Here
        BY <1>0, <2>1, <2>2, <2>3, <3>2 DEF BootInv, Partition
      <4>2. ASSUME NEW r \in defs[ordered[k]].requires, r \in Configured
            PROVE  r # defs[Here].name
        <5>1. PICK j \in DOMAIN ordered : j < k /\ defs[ordered[j]].name = r
          BY <4>2, RequiredEarlier
        <5>2. j # next
          BY <1>0, <4>1, <5>1
        <5> QED
          BY <2>2, <5>1, <5>2, NamesApart
      <4>3. HardMissing(ordered[k])' = HardMissing(ordered[k])
        BY <1>1, <1>2, <2>1, <4>2 DEF HardMissing
      <4>4. fate'[ordered[k]] = fate[ordered[k]]
        BY <1>0, <2>1, <4>1
      <4> QED
        BY <1>3, <4>1, <4>3, <4>4
    <3> QED
      BY <3>1, <3>2
  <2> QED
    BY <2>1, <2>3
<1> QED
  BY <1>b, <1>c, <1>d DEF Next, MainThread

\* With distinct names and no cycle, when boot is over a service has been
\* skipped if and only if something it requires= did not come up, whatever
\* fails, falls back to the rescue shell or is skipped along the way.
THEOREM RequiresExactHolds == Spec => []RequiresExact
<1>1. Init => ExactInv
  <2> SUFFICES ASSUME Init PROVE ExactInv
    OBVIOUS
  <2>1. ordered = << >> /\ pc = "order"
    BY DEF Init
  <2> QED
    BY <2>1 DEF ExactInv
<1>2. BootInv /\ ExactInv /\ [Next]_vars => ExactInv'
  BY ExactStep
<1>3. BootInv /\ ExactInv => RequiresExact
  <2> SUFFICES ASSUME BootInv, ExactInv, pc = "booted", drained = 0,
                      \A i \in Positions : FirstNamed(i), NEW i \in Positions
               PROVE  fate[i] = "skipped" <=>
                        \E r \in defs[i].requires \cap Configured : r \notin spawned
    BY DEF RequiresExact
  <2>1. PICK k \in DOMAIN ordered : ordered[k] = i
    BY DEF BootInv, WalkInv, Partition
  <2>2. k < next
    BY <2>1 DEF BootInv, WalkInv, TypeOK
  <2> QED
    BY <2>1, <2>2 DEF ExactInv, HardMissing
<1> QED
  BY <1>1, <1>2, <1>3, Invariance, PTL DEF Spec

-----------------------------------------------------------------------------
(* Cycles.  What topological_order gives up on is a knot, since each of it *)
(* waits for a name that is not placed; and no knot reaches into what was  *)
(* placed, since the first of its services in the order would have none of *)
(* the knot before it.                                                     *)

LeftOver == remaining \cup {ordered[k] : k \in (Len(ordered) - drained + 1) .. Len(ordered)}

KnotInv ==
    /\ \A k \in 1 .. (Len(ordered) - drained) : defs[ordered[k]].name \in placed
    /\ pc # "order" => Knot(LeftOver)

\* Every nonempty set of natural numbers has a least element.
LEMMA Least ==
  ASSUME NEW S, S \subseteq Nat, S # {}
  PROVE  \E m \in S : \A k \in S : m <= k
<1>1. IsWellFoundedOn(OpToRel(<, Nat), Nat)
  BY NatLessThanWellFounded
<1>2. PICK m \in S : \A k \in S : ~(<<k, m>> \in OpToRel(<, Nat))
  BY <1>1, WFMin
<1>3. \A k \in S : ~(k < m)
  BY <1>2 DEF OpToRel
<1> QED
  BY <1>3

\* effective_after adds nothing that no key of the unit file asks for.
LEMMA EffectiveAfterSound ==
  ASSUME defs \in Seq(ServiceDef), NEW i \in Positions
  PROVE  EffectiveAfter(i) \subseteq Predecessors(i)
<1>1. \A j \in Positions : defs[j].name \in Names
  BY DefType
<1>2. defs[i].after \subseteq Names /\ defs[i].requires \subseteq Names /\ defs[i].wants \subseteq Names
  BY DefType DEF ServiceDef
<1> QED
  BY <1>1, <1>2 DEF EffectiveAfter, Predecessors

\* Nothing that was placed is in a knot.
LEMMA PlacedNotStuck ==
  ASSUME BootInv, NEW S \in SUBSET Positions, Knot(S),
         NEW k \in 1 .. (Len(ordered) - drained)
  PROVE  ordered[k] \notin S
<1> DEFINE Inside == {m \in 1 .. (Len(ordered) - drained) : ordered[m] \in S}
<1>0. Len(ordered) \in Nat /\ drained \in Nat /\ ordered \in Seq(Positions)
  BY DEF BootInv, TypeOK
<1>1. ASSUME Inside # {} PROVE FALSE
  <2>1. PICK m \in Inside : \A j \in Inside : m <= j
    <3>1. Inside \subseteq Nat
      BY <1>0
    <3> HIDE DEF Inside
    <3> QED
      BY <1>1, <3>1, Least
  <2>2. PICK n \in Predecessors(ordered[m]) \cap Configured :
          \A j \in Positions : defs[j].name = n => j \in S
    BY <2>1 DEF Knot
  <2>3. PICK j \in 1 .. (m - 1) : defs[ordered[j]].name = n
    BY <2>1, <2>2 DEF BootInv, OrderInv, OrderRespected
  <2>4. j \in 1 .. (Len(ordered) - drained) /\ j < m /\ j \in 1 .. Len(ordered)
    BY <1>0, <2>1, <2>3
  <2>5. ordered[j] \in Positions
    BY <1>0, <2>4
  <2> QED
    BY <1>0, <2>1, <2>2, <2>3, <2>4, <2>5
<1> QED
  BY <1>1

LEMMA KnotInit == Init => KnotInv
<1> SUFFICES ASSUME Init PROVE KnotInv
  OBVIOUS
<1>1. Len(ordered) = 0 /\ drained = 0 /\ pc = "order"
  BY DEF Init
<1> QED
  BY <1>1 DEF KnotInv

\* When the loop ends, all that remains is blocked by what remains.
LEMMA RemainingKnot ==
  ASSUME BootInv, KnotInv, pc = "order", \A i \in remaining : ~Unblocked(i)
  PROVE  Knot(LeftOver)
<1>0. drained = 0 /\ Len(ordered) \in Nat /\ DOMAIN ordered = 1 .. Len(ordered)
  BY DEF BootInv, OrderInv, TypeOK
<1>1. LeftOver = remaining
  BY <1>0 DEF LeftOver
<1>2. ASSUME NEW i \in remaining
      PROVE  \E n \in Predecessors(i) \cap Configured :
               \A j \in Positions : defs[j].name = n => j \in remaining
  <2>1. i \in Positions /\ defs \in Seq(ServiceDef)
    BY DEF BootInv, TypeOK
  <2>2. PICK n \in EffectiveAfter(i) : n \notin placed /\ n \in Configured
    BY DEF Unblocked
  <2>3. n \in Predecessors(i)
    BY <2>1, <2>2, EffectiveAfterSound
  <2>4. ASSUME NEW j \in Positions, defs[j].name = n, j \notin remaining PROVE FALSE
    <3>1. PICK k \in DOMAIN ordered : ordered[k] = j
      BY <2>4 DEF BootInv, Partition
    <3>2. k \in 1 .. (Len(ordered) - drained)
      BY <1>0, <3>1
    <3> QED
      BY <2>2, <2>4, <3>1, <3>2 DEF KnotInv
  <2> QED
    BY <2>2, <2>3, <2>4
<1> QED
  BY <1>1, <1>2 DEF Knot

LEMMA KnotStep ==
  ASSUME BootInv, KnotInv, [Next]_vars
  PROVE  KnotInv'
<1>0. Len(ordered) \in Nat /\ drained \in Nat /\ drained <= Len(ordered)
  BY DEF BootInv, TypeOK, OrderInv
<1>1. CASE Place
  <2>1. PICK i \in remaining :
          placed' = placed \cup {defs[i].name} /\ ordered' = Append(ordered, i)
    BY <1>1 DEF Place
  <2>2. pc' = "order" /\ drained' = drained /\ defs' = defs
    BY <1>1 DEF Place
  <2>3. drained = 0
    BY <1>1 DEF Place, BootInv, OrderInv
  <2>4. ASSUME NEW k \in 1 .. (Len(ordered) + 1) PROVE defs[ordered'[k]].name \in placed'
    <3>1. CASE k = Len(ordered) + 1
      BY <2>1, <2>2, <3>1, Appended
    <3>2. CASE k \in 1 .. (Len(ordered) - drained)
      <4>1. ordered'[k] = ordered[k]
        BY <1>0, <2>1, <2>2, <2>3, <3>2, Appended
      <4> QED
        BY <2>1, <3>2, <4>1 DEF KnotInv
    <3> QED
      BY <1>0, <2>3, <3>1, <3>2
  <2> QED
    BY <1>0, <2>1, <2>2, <2>3, <2>4, Appended DEF KnotInv
<1>2. ASSUME UNCHANGED <<defs, orderVars>>, pc' # "order" => Knot(LeftOver)
      PROVE  KnotInv'
  <2>1. UNCHANGED <<defs, remaining, ordered, placed, drained>>
    BY <1>2 DEF orderVars
  <2>2. Knot(LeftOver) => Knot(LeftOver)'
    BY <2>1 DEF Knot, LeftOver, Predecessors, Configured, Positions, FirstNamed
  <2> QED
    BY <1>2, <2>1, <2>2 DEF KnotInv
<1>3. CASE FindCycle
  <2>1. Knot(LeftOver) /\ UNCHANGED <<defs, orderVars>>
    BY <1>3, RemainingKnot DEF FindCycle
  <2> QED
    BY <1>2, <2>1
<1>4. CASE Sorted
  <2>1. UNCHANGED <<defs, orderVars>> /\ pc \in {"order", "drain"} /\ remaining = {}
    BY <1>4 DEF Sorted
  <2>2. Knot(LeftOver)
    BY <2>1, RemainingKnot DEF KnotInv
  <2> QED
    BY <1>2, <2>1, <2>2
<1>5. CASE Drain
  <2>1. PICK i \in remaining : remaining' = remaining \ {i} /\ ordered' = Append(ordered, i)
    BY <1>5 DEF Drain
  <2>2. pc = "drain" /\ pc' = pc /\ drained' = drained + 1 /\ defs' = defs /\ placed' = placed
    BY <1>5 DEF Drain
  <2>3. /\ Len(ordered') = Len(ordered) + 1
        /\ Len(ordered') - drained' = Len(ordered) - drained
        /\ \A k \in 1 .. Len(ordered) : ordered'[k] = ordered[k]
        /\ ordered'[Len(ordered) + 1] = i
    BY <1>0, <2>1, <2>2, Appended
  <2>4. \A k \in 1 .. (Len(ordered) - drained) : ordered'[k] = ordered[k]
    BY <1>0, <2>3
  <2>5. LeftOver' = LeftOver
    <3> DEFINE From == Len(ordered) - drained + 1
    <3>1. From \in Nat /\ From >= 1 /\ From <= Len(ordered) + 1 /\ Len(ordered') - drained' + 1 = From
      BY <1>0, <2>3
    <3> HIDE DEF From
    <3>2. From .. Len(ordered') = (From .. Len(ordered)) \cup {Len(ordered) + 1}
      BY <1>0, <2>3, <3>1
    <3>3. \A k \in From .. Len(ordered) : ordered'[k] = ordered[k]
      BY <1>0, <2>3, <3>1
    <3>4. {ordered'[k] : k \in From .. Len(ordered')} = {ordered[k] : k \in From .. Len(ordered)} \cup {i}
      BY <2>3, <3>2, <3>3
    <3>5. LeftOver' = remaining' \cup {ordered'[k] : k \in From .. Len(ordered')}
      BY <3>1 DEF LeftOver
    <3>6. LeftOver = remaining \cup {ordered[k] : k \in From .. Len(ordered)}
      BY DEF LeftOver, From
    <3> QED
      BY <2>1, <3>4, <3>5, <3>6
  <2>6. Knot(LeftOver)'
    <3>1. Knot(LeftOver)
      BY <2>2 DEF KnotInv
    <3> QED
      BY <2>2, <2>5, <3>1 DEF Knot, Predecessors, Configured, Positions, FirstNamed
  <2>7. \A k \in 1 .. (Len(ordered') - drained') : defs'[ordered'[k]].name \in placed'
    BY <2>2, <2>3, <2>4 DEF KnotInv
  <2> QED
    BY <2>6, <2>7 DEF KnotInv
<1>6. CASE Skip \/ Admit \/ SeeReady \/ TimeOut \/ SpawnOk \/ SpawnFails \/ FallBackToShell
           \/ Booted \/ MarkReady \/ UNCHANGED vars
  <2>1. UNCHANGED <<defs, orderVars>> /\ (pc' # "order" => pc # "order")
    BY <1>6 DEF Skip, Admit, SeeReady, TimeOut, SpawnOk, SpawnFails, FallBackToShell, Spawned,
                Booted, MarkReady, vars, orderVars
  <2> QED
    BY <1>2, <2>1 DEF KnotInv
<1> QED
  BY <1>1, <1>3, <1>4, <1>5, <1>6 DEF Next, MainThread

\* Whatever the configuration, topological_order starts in listed order, its
\* ordering keys ignored, exactly the services that sit on a cycle or behind
\* one; in particular none if there is no cycle.
THEOREM DrainsOnlyTheCycleHolds == Spec => []DrainsOnlyTheCycle
<1>1. BootInv /\ KnotInv => DrainsOnlyTheCycle
  <2> SUFFICES ASSUME BootInv, KnotInv, pc # "order" PROVE LeftOver = Stuck
    BY DEF DrainsOnlyTheCycle, LeftOver
  <2>0. Len(ordered) \in Nat /\ drained \in Nat /\ drained <= Len(ordered) /\ ordered \in Seq(Positions)
    BY DEF BootInv, TypeOK, OrderInv
  <2>1. \A k \in (Len(ordered) - drained + 1) .. Len(ordered) : ordered[k] \in Positions
    BY <2>0
  <2>2. LeftOver \subseteq Positions
    BY <2>1 DEF LeftOver, BootInv, TypeOK
  <2>3. LeftOver \subseteq Stuck
    BY <2>2 DEF KnotInv, Stuck
  <2>4. ASSUME NEW S \in SUBSET Positions, Knot(S), NEW i \in S PROVE i \in LeftOver
    <3>1. CASE i \in remaining
      BY <3>1 DEF LeftOver
    <3>2. CASE i \notin remaining
      <4>1. PICK k \in DOMAIN ordered : ordered[k] = i
        BY <2>4, <3>2 DEF BootInv, Partition
      <4>2. k \notin 1 .. (Len(ordered) - drained)
        BY <2>4, <4>1, PlacedNotStuck
      <4>3. k \in (Len(ordered) - drained + 1) .. Len(ordered)
        BY <2>0, <4>1, <4>2
      <4> QED
        BY <4>1, <4>3 DEF LeftOver
    <3> QED
      BY <3>1, <3>2
  <2> QED
    BY <2>3, <2>4 DEF Stuck
<1>2. BootInv /\ KnotInv /\ [Next]_vars => KnotInv'
  BY KnotStep
<1> QED
  BY <1>1, <1>2, KnotInit, Invariance, PTL DEF Spec

=============================================================================
