--------------------------- MODULE DurableProofs ----------------------------
(***************************************************************************)
(* The engine over its store, for every layout, every number of lost writes*)
(* and every order of rows: what restarts, reconciles and failed writes    *)
(* leave alone.  A step either commits what it changed in memory (Written),*)
(* or loses it (Failed), or reads memory back from the store (Recovered).  *)
(***************************************************************************)
EXTENDS DurableProperties, InterlockSections, FiniteSetTheorems

USE DEF Ids

\* Of some routes, one was read last: strict inclusion orders the sets of later
\* rows, and a smallest of them is empty.
LEMMA LatestIn ==
    ASSUME NEW rank \in Ranks, NEW I \in SUBSET RouteIds, I # {}
    PROVE  Latest(I, rank) \in I
<1> DEFINE Later(i) == {j \in I : rank[i] < rank[j]}
           L == {Later(i) : i \in I}
           R == StrictSubsetOrdering(I)
<1>1. \A j \in RouteIds : rank[j] \in Nat
  <2>1. Cardinality(RouteIds) \in Nat
    BY StoreAssumption, FS_CardinalityType
  <2>2. QED
    BY <2>1 DEF Ranks
<1>2. PICK T \in L : \A U \in L : <<U, T>> \notin R
  <2>1. IsFiniteSet(I)
    BY StoreAssumption, FS_Subset
  <2>2. FiniteSubsetsOf(I) = SUBSET I
    BY <2>1, FS_FiniteSubsetsOfFinite
  <2>3. IsWellFoundedOn(R, SUBSET I)
    BY <2>2, FS_StrictSubsetOrderingWellFounded
  <2>4. L \subseteq SUBSET I /\ L # {}
    OBVIOUS
  <2> HIDE DEF L, R
  <2>5. QED
    BY <2>3, <2>4, WFMin
<1>3. PICK i \in I : T = Later(i)
  OBVIOUS
<1>4. ASSUME NEW j \in Later(i) PROVE FALSE
  <2>1. j \in I /\ rank[i] < rank[j]
    OBVIOUS
  <2>2. Later(j) \subseteq Later(i) /\ j \notin Later(j)
    BY <1>1, <2>1
  <2>3. <<Later(j), Later(i)>> \in R
    BY <2>2 DEF StrictSubsetOrdering
  <2>4. Later(j) \in L
    BY <2>1
  <2>5. QED
    BY <1>2, <1>3, <2>3, <2>4
<1>5. \A j \in I : rank[j] <= rank[i]
  BY <1>1, <1>4
<1>6. QED
  BY <1>5 DEF Latest

-----------------------------------------------------------------------------
(* What one step does to memory and store *)

\* A step whose transaction, if it has one, commits what it should: each row is
\* written as memory has it, or memory did not change what the row records.
Written ==
    /\ [Next]_vars
    /\ dsec' = [s \in Sections |-> dsec'[s]]
    /\ dpt' = [p \in Points |-> dpt'[p]]
    /\ dsig' = [g \in Signals |-> dsig'[g]]
    /\ drt' = [i \in RouteIds |-> drt'[i]]
    /\ \A s \in Sections :
         dsec'[s] = sec'[s] \/ (dsec'[s] = dsec[s] /\ sec'[s].occ = sec[s].occ)
    /\ \A p \in Points : dpt'[p] = pt'[p] \/ dpt'[p] = dpt[p]
    /\ \A g \in Signals : dsig'[g] = sig'[g] \/ dsig'[g] = dsig[g]
    /\ \A i \in RouteIds : drt'[i] = rt'[i] \/ (drt'[i] = drt[i] /\ rt'[i] = rt[i])
    /\ dclock' = clock' \/ (dclock' = dclock /\ clock' = clock)
    /\ lost' \in 0..MaxLost /\ (lost' = 0 => lost = 0)

\* A step whose transaction fails leaves the store alone; in memory no train is
\* lost and no ended route comes back.
Failed ==
    /\ UNCHANGED store
    /\ lost' \in 0..MaxLost /\ lost' # 0
    /\ TypeOK'
    /\ \A s \in Sections : sec'[s].occ >= sec[s].occ
    /\ \A i \in RouteIds : rt[i].state \in TerminalStates => rt'[i] = rt[i]

\* The rows after a transaction with the given elements.
LEMMA SaveRows ==
    ASSUME DurableTypeOK, NEW S, NEW P, NEW G, NEW R, Save(S, P, G, R)
    PROVE  /\ dsec' = [s \in Sections |-> IF s \in S THEN sec'[s] ELSE dsec[s]]
           /\ dpt' = [p \in Points |-> IF p \in P THEN pt'[p] ELSE dpt[p]]
           /\ dsig' = [g \in Signals |-> IF g \in G THEN sig'[g] ELSE dsig[g]]
           /\ drt' = [i \in RouteIds |-> IF i \in R THEN rt'[i] ELSE drt[i]]
           /\ lost' \in 0..MaxLost /\ lost' = lost
BY DEF DurableTypeOK, Save, Saved

\* A transaction that misses nothing its step changed.
LEMMA SaveIsWritten ==
    ASSUME DurableTypeOK, [Next]_vars, NEW S, NEW P, NEW G, NEW R, Save(S, P, G, R),
           \A s \in Sections \ S : sec'[s].occ = sec[s].occ,
           \A i \in RouteIds \ R : rt'[i] = rt[i],
           dclock' = clock' \/ (dclock' = dclock /\ clock' = clock)
    PROVE  Written
<1>1. /\ dsec' = [s \in Sections |-> dsec'[s]]
      /\ dpt' = [p \in Points |-> dpt'[p]]
      /\ dsig' = [g \in Signals |-> dsig'[g]]
      /\ drt' = [i \in RouteIds |-> drt'[i]]
  BY SaveRows
<1>2. /\ \A s \in Sections : dsec'[s] = IF s \in S THEN sec'[s] ELSE dsec[s]
      /\ \A p \in Points : dpt'[p] = IF p \in P THEN pt'[p] ELSE dpt[p]
      /\ \A g \in Signals : dsig'[g] = IF g \in G THEN sig'[g] ELSE dsig[g]
      /\ \A i \in RouteIds : drt'[i] = IF i \in R THEN rt'[i] ELSE drt[i]
      /\ lost' \in 0..MaxLost /\ lost' = lost
  BY SaveRows
<1>3. QED
  BY <1>1, <1>2 DEF Written

\* So is a step without a transaction that changes no count, no route and no
\* clock.
LEMMA UnsavedIsWritten ==
    ASSUME DurableTypeOK, [Next]_vars, UNCHANGED store,
           lost' \in 0..MaxLost, lost' = 0 => lost = 0,
           \A s \in Sections : sec'[s].occ = sec[s].occ,
           rt' = rt, clock' = clock
    PROVE  Written
BY DEF DurableTypeOK, Written, store

\* Only a train event changes a count.
LEMMA CountsKept ==
    ASSUME TypeOK, NEW s \in Sections,
           \/ \E i \in RouteIds, k \in Plans : RequestRoute(i, k)
           \/ \E i \in RouteIds : CancelRoute(i)
           \/ \E delta \in Deltas : AdvanceClock(delta)
           \/ UNCHANGED sec
    PROVE  sec'[s].occ = sec[s].occ
<1>0. sec \in [Sections -> SectionRecord]
  BY DEF TypeOK
<1>1. ASSUME NEW i \in RouteIds, NEW k \in Plans, RequestRoute(i, k)
      PROVE  \E S, h : sec' = LockSections(sec, S, h)
  BY <1>1 DEF RequestRoute, SetupFails, StartMoves, ClearAtOnce, ClearRefused
<1>2. ASSUME NEW i \in RouteIds, CancelRoute(i)
      PROVE  sec' = sec \/ \E S, h : sec' = LockSections(sec, S, h)
  BY <1>2 DEF CancelRoute
<1>3. ASSUME NEW delta \in Deltas, AdvanceClock(delta)
      PROVE  \E S, h : sec' = LockSections(sec, S, h)
  BY <1>3 DEF AdvanceClock
<1>4. ASSUME NEW S, NEW h, sec' = LockSections(sec, S, h)
      PROVE  sec'[s].occ = sec[s].occ
  BY <1>0, <1>4 DEF LockSections, SectionRecord
<1>5. QED
  BY <1>1, <1>2, <1>3, <1>4

\* A transaction that fails is counted.
LEMMA LoseCounts ==
    ASSUME DurableTypeOK, Lose
    PROVE  UNCHANGED store /\ lost' \in 0..MaxLost /\ lost' # 0
BY StoreAssumption DEF DurableTypeOK, Lose

\* Every operation whose transaction commits is Written.
LEMMA RequestWritten ==
    ASSUME DurableTypeOK, NEW i \in RouteIds, NEW k \in Plans, RequestSaved(i, k)
    PROVE  Written
<1>0. TypeOK /\ rt \in [RouteIds -> RouteRecord]
  BY DEF DurableTypeOK, TypeOK
<1>1. RequestRoute(i, k)
  BY DEF RequestSaved, RequestRoute
<1>2. [Next]_vars
  BY <1>1 DEF Next
<1>3. \A s \in Sections : sec'[s].occ = sec[s].occ
  BY <1>0, <1>1, CountsKept
<1>4. CASE /\ StartMoves(i, k) \/ ClearAtOnce(i, k)
           /\ Save(PathSet(k), PlanPoints(k), {Origin(k)}, {i}) /\ ClockKept
  <2>1. Save(PathSet(k), PlanPoints(k), {Origin(k)}, {i}) /\ ClockKept
    BY <1>4
  <2>2. clock' = clock /\ \A j \in RouteIds \ {i} : rt'[j] = rt[j]
    BY <1>0, <1>4 DEF StartMoves, ClearAtOnce
  <2>3. QED
    BY <1>2, <1>3, <2>1, <2>2, SaveIsWritten DEF ClockKept
<1>5. CASE /\ SetupFails(i, k) \/ ClearRefused(i, k)
           /\ UNCHANGED <<store, lost>>
  <2>1. UNCHANGED <<store, lost, rt, clock>>
    BY <1>5 DEF SetupFails, ClearRefused
  <2>2. QED
    BY <1>2, <1>3, <2>1, UnsavedIsWritten DEF DurableTypeOK
<1>6. QED
  BY <1>4, <1>5 DEF RequestSaved

LEMMA ReportWritten ==
    ASSUME DurableTypeOK, NEW s \in Detectors, OccupancySaved(s) \/ ClearanceSaved(s)
    PROVE  Written
<1>0. TypeOK /\ rt \in [RouteIds -> RouteRecord] /\ sec \in [Sections -> SectionRecord]
  BY DEF DurableTypeOK, TypeOK
<1>1. [Next]_vars
  BY DEF OccupancySaved, ClearanceSaved, Next
<1>2. \A x \in Sections \ {s} : sec'[x].occ = sec[x].occ
  <2>1. CASE OccupancySaved(s)
    BY <1>0, <2>1 DEF OccupancySaved, ReportOccupancy, SectionRecord
  <2>2. CASE ClearanceSaved(s)
    <3>1. PICK S : sec' = LockSections(Lowered(s), S, NoRoute)
      BY <2>2 DEF ClearanceSaved, ReportClearance
    <3>2. \A x \in Sections \ {s} : Lowered(s)[x] = sec[x]
      BY <1>0 DEF Lowered
    <3>3. QED
      BY <1>0, <3>1, <3>2 DEF LockSections, SectionRecord
  <2>3. QED
    BY <2>1, <2>2
<1>3. PICK P, G : Save({s}, P, G, Moved)
  BY DEF OccupancySaved, ClearanceSaved
<1>4. \A j \in RouteIds \ Moved : rt'[j] = rt[j]
  BY DEF Moved
<1>5. dclock' = dclock /\ clock' = clock
  BY DEF OccupancySaved, ClearanceSaved, ReportOccupancy, ReportClearance, ClockKept
<1>6. QED
  BY <1>1, <1>2, <1>3, <1>4, <1>5, SaveIsWritten

LEMMA CancelWritten ==
    ASSUME DurableTypeOK, NEW i \in RouteIds, CancelSaved(i) \/ CancelHalf(i)
    PROVE  Written
<1>0. TypeOK /\ rt \in [RouteIds -> RouteRecord]
  BY DEF DurableTypeOK, TypeOK
<1>1. CancelRoute(i)
  BY DEF CancelSaved, CancelHalf
<1>2. [Next]_vars /\ clock' = clock
  BY <1>1 DEF Next, CancelRoute
<1>3. \A s \in Sections : sec'[s].occ = sec[s].occ
  BY <1>0, <1>1, CountsKept
<1>4. \A j \in RouteIds \ {i} : rt'[j] = rt[j]
  BY <1>0, <1>1 DEF CancelRoute
<1>5. CASE CancelSaved(i)
  <2>1. PICK S, P, G : Save(S, P, G, {i}) /\ ClockKept
    BY <1>5 DEF CancelSaved
  <2>2. QED
    BY <1>2, <1>3, <1>4, <2>1, SaveIsWritten DEF ClockKept
<1>6. CASE CancelHalf(i)
  <2>1. /\ dsec' = dsec /\ dpt' = dpt /\ dclock' = dclock
        /\ lost' \in 0..MaxLost /\ lost' # 0
    BY <1>6, StoreAssumption DEF CancelHalf, DurableTypeOK
  <2>2. PICK G : dsig' = Saved(dsig, G, sig') /\ drt' = Saved(drt, {i}, rt')
    BY <1>6 DEF CancelHalf
  <2>3. /\ dsig' = [g \in Signals |-> IF g \in G THEN sig'[g] ELSE dsig[g]]
        /\ drt' = [j \in RouteIds |-> IF j \in {i} THEN rt'[j] ELSE drt[j]]
    BY <2>2 DEF Saved, DurableTypeOK
  <2>4. /\ dsec' = [s \in Sections |-> dsec'[s]]
        /\ dpt' = [p \in Points |-> dpt'[p]]
        /\ dsig' = [g \in Signals |-> dsig'[g]]
        /\ drt' = [j \in RouteIds |-> drt'[j]]
    BY <2>1, <2>3 DEF DurableTypeOK
  <2>5. QED
    BY <1>2, <1>3, <1>4, <2>1, <2>3, <2>4 DEF Written
<1>7. QED
  BY <1>5, <1>6

LEMMA OperatorWritten ==
    ASSUME DurableTypeOK,
           \/ \E g \in Signals : SetSignalRedSaved(g)
           \/ \E p \in Points, dir \in OperatorDirs : OperateSaved(p, dir)
           \/ \E p \in Points, on \in BOOLEAN : BypassSaved(p, on)
    PROVE  Written
<1>1. [Next]_vars
  BY DEF SetSignalRedSaved, OperateSaved, BypassSaved, Next
<1>2. sec' = sec /\ rt' = rt /\ clock' = clock /\ dclock' = dclock
  BY DEF SetSignalRedSaved, OperateSaved, BypassSaved, SetSignalRed, OperatePoint,
         BypassPoint, ClockKept
<1>3. PICK P, G : Save({}, P, G, {})
  BY DEF SetSignalRedSaved, OperateSaved, BypassSaved
<1>4. QED
  BY <1>1, <1>2, <1>3, SaveIsWritten

LEMMA AdvanceWritten ==
    ASSUME DurableTypeOK, NEW delta \in Deltas, AdvanceSaved(delta)
    PROVE  Written
<1>0. TypeOK
  BY DEF DurableTypeOK
<1>1. AdvanceClock(delta) /\ dclock' = clock'
  BY DEF AdvanceSaved
<1>2. [Next]_vars
  BY <1>1 DEF Next
<1>3. \A s \in Sections : sec'[s].occ = sec[s].occ
  BY <1>0, <1>1, CountsKept
<1>4. PICK P, G : Save({}, P, G, Moved)
  BY DEF AdvanceSaved
<1>5. \A j \in RouteIds \ Moved : rt'[j] = rt[j]
  BY DEF Moved
<1>6. QED
  BY <1>1, <1>2, <1>3, <1>4, <1>5, SaveIsWritten

-----------------------------------------------------------------------------
(* The operations whose transaction fails *)

\* A step of the engine whose transaction fails.
LEMMA EngineFailed ==
    ASSUME DurableTypeOK,
           \/ \E g \in Signals : SetSignalRedLost(g)
           \/ \E p \in Points, dir \in OperatorDirs : OperateLost(p, dir)
           \/ \E delta \in Deltas : AdvanceLost(delta)
    PROVE  Failed
<1>0. TypeOK /\ sec \in [Sections -> SectionRecord]
  BY DEF DurableTypeOK, TypeOK
<1>1. Lose
  BY DEF SetSignalRedLost, OperateLost, AdvanceLost
<1>2. [Next]_vars
  BY DEF SetSignalRedLost, OperateLost, AdvanceLost, Next
<1>3. \A s \in Sections : sec'[s].occ = sec[s].occ
  <2>1. UNCHANGED sec \/ \E delta \in Deltas : AdvanceClock(delta)
    BY DEF SetSignalRedLost, OperateLost, AdvanceLost, SetSignalRed, OperatePoint
  <2>2. QED
    BY <1>0, <2>1, CountsKept
<1>4. \A s \in Sections : sec'[s].occ >= sec[s].occ
  <2>1. \A s \in Sections : sec[s].occ \in Nat
    BY <1>0 DEF SectionRecord
  <2>2. QED
    BY <1>3, <2>1
<1>5. ASSUME NEW i \in RouteIds, rt[i].state \in TerminalStates
      PROVE  rt'[i] = rt[i]
  BY <1>0, <1>2, <1>5, InactiveFate DEF IsActive, ActiveStates, TerminalStates
<1>6. QED
  BY <1>0, <1>1, <1>2, <1>4, <1>5, LoseCounts, NextType DEF Failed

LEMMA RequestFailed ==
    ASSUME DurableTypeOK, NEW i \in RouteIds, NEW k \in Plans, RequestLost(i, k)
    PROVE  Failed
<1>0. TypeOK /\ sec \in [Sections -> SectionRecord] /\ NoRoute \in Ids
  BY DEF DurableTypeOK, TypeOK
<1>1. /\ sec' = LockSections(sec, PathSet(k), NoRoute)
      /\ pt' = LockPoints(Issued(Reqs(k)), PlanPoints(k), NoRoute)
      /\ sig' = [sig EXCEPT ![Origin(k)] = [aspect |-> "RED", route |-> NoRoute]]
      /\ UNCHANGED <<rt, clock>>
      /\ Lose
  BY DEF RequestLost
<1>2. sec' \in [Sections -> SectionRecord]
  BY <1>0, <1>1, LockSectionsType
<1>3. pt' \in [Points -> PointRecord]
      /\ \A p \in Points : pt'[p].status = "MOVING" => pt'[p].target \in OperatorDirs
  <2>1. /\ Issued(Reqs(k)) \in [Points -> PointRecord]
        /\ \A p \in Points :
             Issued(Reqs(k))[p].status = "MOVING" => Issued(Reqs(k))[p].target \in OperatorDirs
    BY <1>0, IssuedFacts
  <2>2. QED
    BY <1>0, <1>1, <2>1, LockPointsType, LockPointsFields
<1>4. sig' \in [Signals -> SignalRecord]
  BY <1>0, <1>1 DEF TypeOK, SignalRecord, Aspects
<1>5. TypeOK'
  BY <1>0, <1>1, <1>2, <1>3, <1>4 DEF TypeOK, RouteInBounds
<1>6. \A s \in Sections : sec'[s].occ = sec[s].occ /\ sec[s].occ \in Nat
  BY <1>0, <1>1, LockSectionsFields DEF SectionRecord
<1>7. QED
  BY <1>1, <1>5, <1>6, LoseCounts DEF Failed

LEMMA OccupancyFailed ==
    ASSUME DurableTypeOK, NEW s \in Detectors, OccupancyLost(s)
    PROVE  Failed
<1>0. TypeOK /\ sec \in [Sections -> SectionRecord] /\ sig \in [Signals -> SignalRecord]
  BY DEF DurableTypeOK, TypeOK
<1>1. /\ sig' = [g \in Signals |-> IF g \in Dropped(s) THEN RedSignal(sig[g]) ELSE sig[g]]
      /\ UNCHANGED <<sec, pt, rt, clock>>
      /\ Lose
  BY DEF OccupancyLost
<1>2. sig' \in [Signals -> SignalRecord]
  BY <1>0, <1>1 DEF SignalRecord, RedSignal, Aspects
<1>3. TypeOK'
  BY <1>0, <1>1, <1>2 DEF TypeOK, RouteInBounds
<1>4. \A x \in Sections : sec'[x].occ = sec[x].occ /\ sec[x].occ \in Nat
  BY <1>0, <1>1 DEF SectionRecord
<1>5. QED
  BY <1>1, <1>3, <1>4, LoseCounts DEF Failed

\* A clearance that cannot be stored is taken back: the count goes up again by
\* one, at least to what it was.
LEMMA ClearanceFailed ==
    ASSUME DurableTypeOK, NEW s \in Detectors, ClearanceLost(s)
    PROVE  Failed
<1>0. /\ TypeOK /\ sec \in [Sections -> SectionRecord] /\ pt \in [Points -> PointRecord]
      /\ rt \in [RouteIds -> RouteRecord] /\ \A i \in RouteIds : RouteInBounds(rt[i])
      /\ \A p \in Points : pt[p].status = "MOVING" => pt[p].target \in OperatorDirs
      /\ s \in Sections /\ NoRoute \in Ids
  BY BoundsAssumption DEF DurableTypeOK, TypeOK
<1> DEFINE back == [Lowered(s) EXCEPT ![s].occ = @ + 1]
<1>1. /\ \E S : sec' = LockSections(back, S, NoRoute)
      /\ \E P : pt' = LockPoints(pt, P, NoRoute)
      /\ rt' = [i \in RouteIds |-> OnClearance(rt[i], s, Lowered(s))]
      /\ UNCHANGED <<sig, clock>>
      /\ Lose
  BY DEF ClearanceLost
<1>2. /\ Lowered(s) \in [Sections -> SectionRecord]
      /\ \A x \in Sections \ {s} : Lowered(s)[x] = sec[x]
      /\ Lowered(s)[s].occ = IF sec[s].occ > 0 THEN sec[s].occ - 1 ELSE 0
  BY <1>0 DEF Lowered, SectionRecord
<1>3. /\ back \in [Sections -> SectionRecord]
      /\ \A x \in Sections \ {s} : back[x] = Lowered(s)[x]
      /\ back[s].occ = Lowered(s)[s].occ + 1
  BY <1>0, <1>2 DEF SectionRecord
<1>4. \A x \in Sections : sec[x].occ \in Nat
  BY <1>0 DEF SectionRecord
<1>5. \A x \in Sections : back[x].occ >= sec[x].occ
  <2> HIDE DEF back
  <2>1. back[s].occ >= sec[s].occ
    BY <1>0, <1>2, <1>3, <1>4
  <2>2. ASSUME NEW x \in Sections \ {s} PROVE back[x].occ >= sec[x].occ
    <3>1. back[x].occ = sec[x].occ
      BY <1>2, <1>3
    <3>2. QED
      BY <1>4, <3>1
  <2>3. QED
    BY <2>1, <2>2
<1> HIDE DEF back
<1>6. sec' \in [Sections -> SectionRecord] /\ \A x \in Sections : sec'[x].occ = back[x].occ
  BY <1>0, <1>1, <1>3, LockSectionsType, LockSectionsFields
<1>7. /\ pt' \in [Points -> PointRecord]
      /\ \A p \in Points : pt'[p].status = "MOVING" => pt'[p].target \in OperatorDirs
  BY <1>0, <1>1, LockPointsType, LockPointsFields
<1>8. rt' \in [RouteIds -> RouteRecord] /\ \A i \in RouteIds : RouteInBounds(rt'[i])
  BY <1>0, <1>1, OnClearanceType
<1>9. TypeOK'
  BY <1>0, <1>1, <1>6, <1>7, <1>8 DEF TypeOK
<1>10. ASSUME NEW i \in RouteIds, rt[i].state \in TerminalStates
       PROVE  rt'[i] = rt[i]
  BY <1>0, <1>1, <1>10, OnClearanceType DEF TerminalStates
<1>11. QED
  BY <1>1, <1>5, <1>6, <1>9, <1>10, LoseCounts DEF Failed

\* A cancellation that cannot be stored leaves the route in its state, with
\* every section released or with a deadline.
LEMMA CancelFailed ==
    ASSUME DurableTypeOK, NEW i \in RouteIds, CancelLost(i)
    PROVE  Failed
<1> DEFINE k == rt[i].plan
<1>0. /\ TypeOK /\ sec \in [Sections -> SectionRecord] /\ pt \in [Points -> PointRecord]
      /\ rt \in [RouteIds -> RouteRecord] /\ \A j \in RouteIds : RouteInBounds(rt[j])
      /\ \A p \in Points : pt[p].status = "MOVING" => pt[p].target \in OperatorDirs
      /\ clock \in Nat /\ NoRoute \in Ids
  BY DEF DurableTypeOK, TypeOK
<1>1. /\ IsActive(rt[i])
      /\ sig' = [sig EXCEPT ![Origin(k)] = [aspect |-> "RED", route |-> NoRoute]]
      /\ clock' = clock
      /\ Lose
  BY DEF CancelLost
<1>2. rt[i].state \notin TerminalStates /\ rt[i].state # "NONE" /\ k \in Plans
  BY <1>0, <1>1 DEF IsActive, ActiveStates, TerminalStates, RouteInBounds
<1>3. sig' \in [Signals -> SignalRecord]
  BY <1>0, <1>1 DEF TypeOK, SignalRecord, Aspects
<1>4. ASSUME NEW n \in Nat, NEW d \in Nat, n \in 0..Len(Path(k)),
             rt' = [rt EXCEPT ![i] = [rt[i] EXCEPT !.released = n, !.deadline = d]]
      PROVE  /\ rt' \in [RouteIds -> RouteRecord]
             /\ \A j \in RouteIds : RouteInBounds(rt'[j])
             /\ \A j \in RouteIds : rt[j].state \in TerminalStates => rt'[j] = rt[j]
  <2> DEFINE r == [rt[i] EXCEPT !.released = n, !.deadline = d]
  <2>1. r \in RouteRecord /\ r.state = rt[i].state /\ r.plan = k /\ r.released = n
    BY <1>0, <1>4 DEF RouteRecord
  <2>2. RouteInBounds(r)
    BY <1>2, <1>4, <2>1 DEF RouteInBounds
  <2>3. QED
    BY <1>0, <1>2, <1>4, <2>1, <2>2
<1>5. CASE CancelsAtOnce(rt[i], sec)
  <2>1. /\ rt' = [rt EXCEPT ![i].released = Len(Path(k))]
        /\ sec' = LockSections(sec, PathSet(k), NoRoute)
        /\ pt' = LockPoints(pt, PlanPoints(k), NoRoute)
    BY <1>5 DEF CancelLost
  <2>2. /\ Len(Path(k)) \in Nat /\ Len(Path(k)) \in 0..Len(Path(k))
        /\ rt[i].deadline \in Nat
    BY <1>0, <1>2, PlanFacts DEF RouteRecord
  <2>3. rt' = [rt EXCEPT ![i] = [rt[i] EXCEPT !.released = Len(Path(k)),
                                              !.deadline = rt[i].deadline]]
    BY <1>0, <2>1 DEF RouteRecord
  <2>4. /\ rt' \in [RouteIds -> RouteRecord]
        /\ \A j \in RouteIds : RouteInBounds(rt'[j])
        /\ \A j \in RouteIds : rt[j].state \in TerminalStates => rt'[j] = rt[j]
    BY <1>4, <2>2, <2>3
  <2>5. /\ sec' \in [Sections -> SectionRecord]
        /\ pt' \in [Points -> PointRecord]
        /\ \A p \in Points : pt'[p].status = "MOVING" => pt'[p].target \in OperatorDirs
    BY <1>0, <2>1, LockSectionsType, LockPointsType, LockPointsFields
  <2>6. TypeOK'
    BY <1>0, <1>1, <1>3, <2>4, <2>5 DEF TypeOK
  <2>7. \A s \in Sections : sec'[s].occ = sec[s].occ /\ sec[s].occ \in Nat
    BY <1>0, <2>1, LockSectionsFields DEF SectionRecord
  <2>8. QED
    BY <1>1, <2>4, <2>6, <2>7, LoseCounts DEF Failed
<1>6. CASE ~CancelsAtOnce(rt[i], sec)
  <2>1. /\ rt' = [rt EXCEPT ![i].deadline = CancelDeadline(rt[i])]
        /\ UNCHANGED <<sec, pt>>
    BY <1>6 DEF CancelLost
  <2>2. CancelDeadline(rt[i]) \in Nat
    BY <1>0, <1>2, BoundsAssumption, ExpandAssumption DEF CancelDeadline
  <2>3. rt[i].released \in 0..Len(Path(k)) /\ rt[i].released \in Nat
    BY <1>0, <1>2 DEF RouteInBounds, RouteRecord
  <2>4. rt' = [rt EXCEPT ![i] = [rt[i] EXCEPT !.released = rt[i].released,
                                              !.deadline = CancelDeadline(rt[i])]]
    BY <1>0, <2>1 DEF RouteRecord
  <2>5. /\ rt' \in [RouteIds -> RouteRecord]
        /\ \A j \in RouteIds : RouteInBounds(rt'[j])
        /\ \A j \in RouteIds : rt[j].state \in TerminalStates => rt'[j] = rt[j]
    BY <1>4, <2>2, <2>3, <2>4
  <2>6. TypeOK'
    BY <1>0, <1>1, <1>3, <2>1, <2>5 DEF TypeOK
  <2>7. \A s \in Sections : sec'[s].occ = sec[s].occ /\ sec[s].occ \in Nat
    BY <1>0, <2>1 DEF SectionRecord
  <2>8. QED
    BY <1>1, <2>5, <2>6, <2>7, LoseCounts DEF Failed
<1>7. QED
  BY <1>5, <1>6

\* No point is ever bypassed, so there is none to take a bypass back from.
LEMMA BypassFailed ==
    ASSUME DurableTypeOK, NEW p \in Points, NEW on \in BOOLEAN, BypassLost(p, on)
    PROVE  Failed
<1>0. TypeOK /\ pt \in [Points -> PointRecord] /\ sec \in [Sections -> SectionRecord]
  BY DEF DurableTypeOK, TypeOK
<1>1. ~Degraded(pt[p]) /\ pt[p].bypassed = FALSE
  BY <1>0 DEF PointRecord, Degraded
<1>2. on = FALSE
  BY <1>1 DEF BypassLost, BypassRefused
<1>3. Bypass(pt[p], on) = pt[p]
  BY <1>0, <1>1, <1>2 DEF Bypass, PointRecord
<1>4. BypassRefused(pt[p], ~on, Squeezed(p))
  BY <1>1, <1>2 DEF BypassRefused
<1>5. pt' = pt
  BY <1>0, <1>3, <1>4 DEF BypassLost
<1>6. UNCHANGED vars /\ Lose
  BY <1>5 DEF BypassLost, vars
<1>7. TypeOK'
  BY <1>0, <1>6, NextType
<1>8. \A s \in Sections : sec'[s].occ = sec[s].occ /\ sec[s].occ \in Nat
  BY <1>0, <1>6 DEF SectionRecord, vars
<1>9. QED
  BY <1>6, <1>7, <1>8, LoseCounts DEF Failed, vars

-----------------------------------------------------------------------------
(* Recovery *)

\* A recovery changes nothing of a route but the state of an active one, which
\* stays active while a section is unreleased.
LEMMA RecoveredRouteFacts ==
    ASSUME NEW r \in RouteRecord, RouteInBounds(r), NEW S
    PROVE  /\ RecoveredRoute(r, S) \in RouteRecord
           /\ RouteInBounds(RecoveredRoute(r, S))
           /\ RecoveredRoute(r, S).plan = r.plan
           /\ RecoveredRoute(r, S).released = r.released
           /\ RecoveredRoute(r, S).timed = r.timed
           /\ RecoveredRoute(r, S).deadline = r.deadline
           /\ ~IsActive(r) => RecoveredRoute(r, S) = r
           /\ IsActive(r) => RecoveredRoute(r, S).state = RecoveredState(r, S)
           /\ IsActive(r) /\ Unreleased(r) # {} => IsActive(RecoveredRoute(r, S))
<1>1. CASE ~IsActive(r)
  BY <1>1 DEF RecoveredRoute
<1>2. CASE IsActive(r)
  <2> DEFINE st == RecoveredState(r, S)
  <2>1. st \in ActiveStates \cup {"RELEASED"} /\ (Unreleased(r) # {} => st \in ActiveStates)
    BY <1>2 DEF RecoveredState, IsActive, ActiveStates
  <2>2. st \in States /\ st # "NONE"
    BY <2>1 DEF States, ActiveStates
  <2> HIDE DEF st
  <2>3. RecoveredRoute(r, S) = [r EXCEPT !.state = st]
    BY <1>2 DEF RecoveredRoute, st
  <2>4. /\ RecoveredRoute(r, S) \in RouteRecord
        /\ RecoveredRoute(r, S).plan = r.plan
        /\ RecoveredRoute(r, S).released = r.released
        /\ RecoveredRoute(r, S).timed = r.timed
        /\ RecoveredRoute(r, S).deadline = r.deadline
        /\ RecoveredRoute(r, S).state = st
    BY <2>2, <2>3 DEF RouteRecord
  <2>5. RouteInBounds(RecoveredRoute(r, S))
    BY <1>2, <2>4 DEF RouteInBounds, IsActive, ActiveStates
  <2>6. st = RecoveredState(r, S)
    BY DEF st
  <2>7. QED
    BY <1>2, <2>1, <2>4, <2>5, <2>6 DEF IsActive
<1>3. QED
  BY <1>1, <1>2

\* The lock of a claimed element is one of the claimants', any other stays.
LEMMA ClaimedFacts ==
    ASSUME NEW rank \in Ranks, NEW C \in SUBSET RouteIds, NEW h \in Ids
    PROVE  /\ ClaimedBy(C, rank, h) \in Ids
           /\ C = {} => ClaimedBy(C, rank, h) = h
           /\ C # {} => ClaimedBy(C, rank, h) \in C
BY LatestIn DEF ClaimedBy

\* What a recovery leaves in memory, when it read the rows in some order.
RecoveredInOrder(rank) ==
    /\ sec' = RecoveredSections(Stored, rank)
    /\ pt' = RecoveredPoints(Stored, rank)
    /\ rt' = [i \in RouteIds |-> RecoveredRoute(drt[i], sec')]
    /\ sig' = RecoveredSignals(Stored, rt', sec', pt', rank)

LEMMA RecoveryIs ==
    ASSUME Recovered
    PROVE  \E rank \in Ranks : RecoveredInOrder(rank)
BY DEF Recovered, ReconcileAll, Stored, RecoveredInOrder

LEMMA RecoveredType ==
    ASSUME DurableTypeOK, Recovered, clock' \in Nat
    PROVE  TypeOK'
<1>0. /\ dsec \in [Sections -> SectionRecord]
      /\ dpt \in [Points -> PointRecord]
      /\ \A p \in Points : dpt[p].status = "MOVING" => dpt[p].target \in OperatorDirs
      /\ dsig \in [Signals -> SignalRecord]
      /\ drt \in [RouteIds -> RouteRecord]
      /\ \A i \in RouteIds : RouteInBounds(drt[i])
  BY DEF DurableTypeOK
<1>1. PICK rank \in Ranks :
        /\ sec' = RecoveredSections(Stored, rank)
        /\ pt' = RecoveredPoints(Stored, rank)
        /\ rt' = [i \in RouteIds |-> RecoveredRoute(drt[i], sec')]
        /\ sig' = RecoveredSignals(Stored, rt', sec', pt', rank)
  BY RecoveryIs DEF RecoveredInOrder
<1>2. sec' \in [Sections -> SectionRecord]
  <2>1. ASSUME NEW s \in Sections, NEW C \in SUBSET RouteIds
        PROVE  [dsec[s] EXCEPT !.lock = ClaimedBy(C, rank, @)] \in SectionRecord
    BY <1>0, ClaimedFacts DEF SectionRecord
  <2>2. QED
    BY <1>1, <2>1 DEF RecoveredSections, Stored
<1>3. pt' \in [Points -> PointRecord]
      /\ \A p \in Points : pt'[p].status = "MOVING" => pt'[p].target \in OperatorDirs
  <2>1. ASSUME NEW p \in Points, NEW C \in SUBSET RouteIds
        PROVE  LET q == [dpt[p] EXCEPT !.lock = ClaimedBy(C, rank, @)] IN
               q \in PointRecord /\ q.status = dpt[p].status /\ q.target = dpt[p].target
    <3>1. \A h \in Ids : LET q == [dpt[p] EXCEPT !.lock = h] IN
            q \in PointRecord /\ q.status = dpt[p].status /\ q.target = dpt[p].target
      BY <1>0 DEF PointRecord
    <3>2. dpt[p].lock \in Ids
      BY <1>0 DEF PointRecord
    <3>3. ClaimedBy(C, rank, dpt[p].lock) \in Ids
      BY <3>2, ClaimedFacts
    <3>4. QED
      BY <3>1, <3>3
  <2>2. ASSUME NEW p \in Points
        PROVE  /\ pt'[p] \in PointRecord
               /\ pt'[p].status = dpt[p].status /\ pt'[p].target = dpt[p].target
    <3> DEFINE C == {i \in RouteIds : IsActive(drt[i]) /\ p \in PlanPoints(drt[i].plan)}
    <3>1. C \in SUBSET RouteIds /\ pt'[p] = [dpt[p] EXCEPT !.lock = ClaimedBy(C, rank, @)]
      BY <1>1 DEF RecoveredPoints, Stored
    <3> HIDE DEF C
    <3>2. QED
      BY <2>1, <3>1
  <2>3. pt' = [p \in Points |-> pt'[p]]
    BY <1>1 DEF RecoveredPoints
  <2>4. QED
    BY <1>0, <2>2, <2>3
<1>4. rt' \in [RouteIds -> RouteRecord] /\ \A i \in RouteIds : RouteInBounds(rt'[i])
  BY <1>0, <1>1, RecoveredRouteFacts
<1>5. sig' \in [Signals -> SignalRecord]
  <2>1. ASSUME NEW g \in Signals, NEW mine \in SUBSET RouteIds
        PROVE  RecoveredSignal(Stored, g, mine, sec', pt', rank) \in SignalRecord
    <3> DEFINE open == {i \in mine : ElementsReady(drt[i].plan, i, sec', pt')}
               asp == IF Latest(mine, rank) \in open
                      THEN RecoveredAspect(drt[Latest(mine, rank)].plan) ELSE "RED"
               own == IF open = {} THEN dsig[g].route ELSE Latest(open, rank)
    <3>1. RecoveredSignal(Stored, g, mine, sec', pt', rank)
            = IF mine = {} THEN dsig[g] ELSE [aspect |-> asp, route |-> own]
      BY DEF RecoveredSignal, Stored
    <3>2. asp \in Aspects
      BY DEF Aspects, RecoveredAspect
    <3>3. open \in SUBSET RouteIds
      OBVIOUS
    <3> HIDE DEF open, asp
    <3>4. own \in Ids
      BY <1>0, <3>3, LatestIn DEF SignalRecord
    <3> HIDE DEF own
    <3>5. QED
      BY <1>0, <3>1, <3>2, <3>4 DEF SignalRecord
  <2>2. ASSUME NEW g \in Signals PROVE sig'[g] \in SignalRecord
    <3> DEFINE mine == {i \in RouteIds : IsActive(rt'[i]) /\ Origin(rt'[i].plan) = g}
    <3>1. sig'[g] = RecoveredSignal(Stored, g, mine, sec', pt', rank)
      BY <1>1 DEF RecoveredSignals
    <3>2. mine \in SUBSET RouteIds
      OBVIOUS
    <3> HIDE DEF mine
    <3>3. QED
      BY <2>1, <3>1, <3>2
  <2>3. sig' = [g \in Signals |-> sig'[g]]
    BY <1>1 DEF RecoveredSignals
  <2>4. QED
    BY <2>2, <2>3
<1>6. QED
  BY <1>2, <1>3, <1>4, <1>5 DEF TypeOK

\* The clock after a restart or a reconcile, and its store.
LEMMA RecoveryFacts ==
    ASSUME DurableTypeOK, Restart \/ Reconcile
    PROVE  /\ Recovered
           /\ UNCHANGED <<store, lost>>
           /\ clock' \in Nat
           /\ clock = dclock => clock' = dclock
BY DEF Restart, Reconcile, Recovered, DurableTypeOK, TypeOK

-----------------------------------------------------------------------------
(* The three kinds of steps, and the types *)

LEMMA StepKinds ==
    DurableTypeOK /\ [DurableNext]_durable => Written \/ Failed \/ Restart \/ Reconcile
<1> SUFFICES ASSUME DurableTypeOK, [DurableNext]_durable
             PROVE  Written \/ Failed \/ Restart \/ Reconcile
  OBVIOUS
<1>1. ASSUME NEW i \in RouteIds, NEW k \in Plans, RequestSaved(i, k) \/ RequestLost(i, k)
      PROVE  Written \/ Failed
  BY <1>1, RequestWritten, RequestFailed
<1>2. ASSUME NEW s \in Detectors, \/ OccupancySaved(s) \/ OccupancyLost(s)
                                  \/ ClearanceSaved(s) \/ ClearanceLost(s)
      PROVE  Written \/ Failed
  BY <1>2, ReportWritten, OccupancyFailed, ClearanceFailed
<1>3. ASSUME NEW i \in RouteIds, CancelSaved(i) \/ CancelHalf(i) \/ CancelLost(i)
      PROVE  Written \/ Failed
  BY <1>3, CancelWritten, CancelFailed
<1>4. ASSUME NEW g \in Signals, SetSignalRedSaved(g) \/ SetSignalRedLost(g)
      PROVE  Written \/ Failed
  BY <1>4, OperatorWritten, EngineFailed
<1>5. ASSUME NEW p \in Points, NEW dir \in OperatorDirs, OperateSaved(p, dir) \/ OperateLost(p, dir)
      PROVE  Written \/ Failed
  BY <1>5, OperatorWritten, EngineFailed
<1>6. ASSUME NEW p \in Points, NEW on \in BOOLEAN, BypassSaved(p, on) \/ BypassLost(p, on)
      PROVE  Written \/ Failed
  BY <1>6, OperatorWritten, BypassFailed
<1>7. ASSUME NEW delta \in Deltas, AdvanceSaved(delta) \/ AdvanceLost(delta)
      PROVE  Written \/ Failed
  BY <1>7, AdvanceWritten, EngineFailed
<1>8. ASSUME UNCHANGED durable
      PROVE  Written
  <2>1. UNCHANGED vars /\ UNCHANGED store /\ lost' = lost /\ sec' = sec /\ rt' = rt /\ clock' = clock
    BY <1>8 DEF durable, vars
  <2>2. QED
    BY <2>1, UnsavedIsWritten DEF DurableTypeOK
<1>9. QED
  BY <1>1, <1>2, <1>3, <1>4, <1>5, <1>6, <1>7, <1>8 DEF DurableNext

LEMMA DurableType == DurableTypeOK /\ [DurableNext]_durable => DurableTypeOK'
<1> SUFFICES ASSUME DurableTypeOK, [DurableNext]_durable PROVE DurableTypeOK'
  OBVIOUS
<1>0. /\ TypeOK
      /\ dsec \in [Sections -> SectionRecord]
      /\ dpt \in [Points -> PointRecord]
      /\ \A p \in Points : dpt[p].status = "MOVING" => dpt[p].target \in OperatorDirs
      /\ dsig \in [Signals -> SignalRecord]
      /\ drt \in [RouteIds -> RouteRecord]
      /\ \A i \in RouteIds : RouteInBounds(drt[i])
      /\ dclock \in Nat
      /\ lost \in 0..MaxLost
  BY DEF DurableTypeOK
<1>1. CASE Written
  <2>1. TypeOK'
    BY <1>0, <1>1, NextType DEF Written
  <2>2. dsec' \in [Sections -> SectionRecord]
    BY <1>0, <1>1, <2>1 DEF Written, TypeOK
  <2>3. /\ dpt' \in [Points -> PointRecord]
        /\ \A p \in Points : dpt'[p].status = "MOVING" => dpt'[p].target \in OperatorDirs
    BY <1>0, <1>1, <2>1 DEF Written, TypeOK
  <2>4. dsig' \in [Signals -> SignalRecord]
    BY <1>0, <1>1, <2>1 DEF Written, TypeOK
  <2>5. drt' \in [RouteIds -> RouteRecord] /\ \A i \in RouteIds : RouteInBounds(drt'[i])
    BY <1>0, <1>1, <2>1 DEF Written, TypeOK
  <2>6. dclock' \in Nat /\ lost' \in 0..MaxLost
    BY <1>0, <1>1, <2>1 DEF Written, TypeOK
  <2>7. QED
    BY <2>1, <2>2, <2>3, <2>4, <2>5, <2>6 DEF DurableTypeOK
<1>2. CASE Failed
  BY <1>0, <1>2 DEF Failed, DurableTypeOK, store
<1>3. CASE Restart \/ Reconcile
  <2>1. Recovered /\ UNCHANGED <<store, lost>> /\ clock' \in Nat
    BY <1>3, RecoveryFacts
  <2>2. TypeOK'
    BY <2>1, RecoveredType
  <2>3. QED
    BY <1>0, <2>1, <2>2 DEF DurableTypeOK, store
<1>4. QED
  BY <1>1, <1>2, <1>3, StepKinds

LEMMA DurableInitType == DurableInit => DurableTypeOK
<1> SUFFICES ASSUME DurableInit PROVE DurableTypeOK
  OBVIOUS
<1>1. TypeOK
  BY InitType DEF DurableInit
<1>2. QED
  BY <1>1, StoreAssumption DEF DurableInit, DurableTypeOK, TypeOK

\* Memory and store keep their types over restarts, reconciles and failed
\* writes: no point is ever degraded or bypassed by them, and no route counts
\* more sections released than its path has.
THEOREM StoreTypeCorrect == DurableSpec => []DurableTypeOK
BY DurableInitType, DurableType, PTL DEF DurableSpec

-----------------------------------------------------------------------------
(* What holds whatever writes fail *)

\* Whatever writes fail, memory never counts fewer trains on a section than
\* the store, so no restart makes a section look free that is not.
LEMMA UnderstatedStep ==
    DurableTypeOK /\ OccupancyNeverUnderstated /\ [DurableNext]_durable
      => OccupancyNeverUnderstated'
<1> SUFFICES ASSUME DurableTypeOK, OccupancyNeverUnderstated, [DurableNext]_durable,
                    NEW s \in Sections
             PROVE  sec'[s].occ >= dsec'[s].occ
  BY DEF OccupancyNeverUnderstated
<1>0. DurableTypeOK'
  BY DurableType
<1>1. /\ sec[s].occ \in Nat /\ dsec[s].occ \in Nat
      /\ sec'[s].occ \in Nat /\ dsec'[s].occ \in Nat
      /\ sec[s].occ >= dsec[s].occ
  BY <1>0 DEF DurableTypeOK, TypeOK, SectionRecord, OccupancyNeverUnderstated
<1>2. CASE Written
  <2>1. dsec'[s] = sec'[s] \/ (dsec'[s] = dsec[s] /\ sec'[s].occ = sec[s].occ)
    BY <1>2 DEF Written
  <2>2. QED
    BY <1>1, <2>1
<1>3. CASE Failed
  <2>1. dsec' = dsec /\ sec'[s].occ >= sec[s].occ
    BY <1>3 DEF Failed, store
  <2>2. QED
    BY <1>1, <2>1
<1>4. CASE Restart \/ Reconcile
  <2>1. dsec' = dsec /\ \E rank \in Ranks : sec' = RecoveredSections(Stored, rank)
    BY <1>4, RecoveryFacts, RecoveryIs DEF RecoveredInOrder, store
  <2>2. sec'[s].occ = dsec[s].occ
    BY <2>1 DEF RecoveredSections, Stored, DurableTypeOK, SectionRecord
  <2>3. QED
    BY <1>1, <2>1, <2>2
<1>5. QED
  BY <1>2, <1>3, <1>4, StepKinds

THEOREM OccupancyIsNeverUnderstated == DurableSpec => []OccupancyNeverUnderstated
<1>1. DurableInit => OccupancyNeverUnderstated
  <2>1. ASSUME DurableInit, NEW s \in Sections PROVE sec[s].occ >= dsec[s].occ
    <3>1. sec[s].occ \in Nat /\ dsec[s].occ = sec[s].occ
      BY <2>1, DurableInitType DEF DurableInit, DurableTypeOK, TypeOK, SectionRecord
    <3>2. QED
      BY <3>1
  <2>2. QED
    BY <2>1 DEF OccupancyNeverUnderstated
<1>2. QED
  BY <1>1, DurableInitType, DurableType, UnderstatedStep, PTL DEF DurableSpec

\* A route stored as ended has ended in memory too.
EndKnown ==
    \A i \in RouteIds : drt[i].state \in TerminalStates => rt[i].state = drt[i].state

\* A row that has ended is kept, by every step and by memory.
LEMMA EndedStep ==
    ASSUME DurableTypeOK, EndKnown, [DurableNext]_durable,
           NEW i \in RouteIds, drt[i].state \in TerminalStates
    PROVE  drt'[i].state = drt[i].state /\ rt'[i].state = drt[i].state
<1>0. TypeOK /\ rt[i].state = drt[i].state /\ ~IsActive(rt[i]) /\ rt[i].state # "NONE"
      /\ ~IsActive(drt[i]) /\ drt[i] \in RouteRecord /\ RouteInBounds(drt[i])
  BY DEF DurableTypeOK, EndKnown, TerminalStates, IsActive, ActiveStates
<1>1. CASE Written
  <2>1. rt'[i] = rt[i]
    BY <1>0, <1>1, InactiveFate DEF Written
  <2>2. drt'[i] = rt'[i] \/ drt'[i] = drt[i]
    BY <1>1 DEF Written
  <2>3. QED
    BY <1>0, <2>1, <2>2
<1>2. CASE Failed
  BY <1>0, <1>2 DEF Failed, store
<1>3. CASE Restart \/ Reconcile
  <2>1. drt' = drt /\ rt'[i] = RecoveredRoute(drt[i], sec')
    BY <1>3, RecoveryFacts, RecoveryIs DEF RecoveredInOrder, store
  <2>2. QED
    BY <1>0, <2>1, RecoveredRouteFacts
<1>4. QED
  BY <1>1, <1>2, <1>3, StepKinds

LEMMA EndKnownStep == DurableTypeOK /\ EndKnown /\ [DurableNext]_durable => EndKnown'
<1> SUFFICES ASSUME DurableTypeOK, EndKnown, [DurableNext]_durable,
                    NEW i \in RouteIds, drt'[i].state \in TerminalStates
             PROVE  rt'[i].state = drt'[i].state
  BY DEF EndKnown
<1>1. CASE drt'[i] = drt[i]
  BY <1>1, EndedStep
<1>2. CASE drt'[i] # drt[i]
  <2>1. Written
    BY <1>2, StepKinds, RecoveryFacts DEF Failed, store
  <2>2. QED
    BY <1>2, <2>1 DEF Written
<1>3. QED
  BY <1>1, <1>2

\* Whatever writes fail and whenever the process stops, a route stored as ended
\* is never stored as running again.
THEOREM StoredEndStays == DurableSpec => StoredEndIsFinal
<1>1. DurableInit => EndKnown
  BY DEF DurableInit, EndKnown
<1>2. DurableTypeOK /\ EndKnown /\ [DurableNext]_durable =>
        [\A i \in RouteIds : drt[i].state \in TerminalStates => drt'[i].state = drt[i].state]_durable
  BY EndedStep
<1>3. QED
  BY <1>1, <1>2, DurableInitType, DurableType, EndKnownStep, PTL DEF DurableSpec, StoredEndIsFinal

\* Recovering a recovered route changes nothing, whatever is occupied.
LEMMA RecoveredTwice ==
    ASSUME NEW r \in RouteRecord, RouteInBounds(r), NEW S
    PROVE  RecoveredRoute(RecoveredRoute(r, S), S) = RecoveredRoute(r, S)
<1> DEFINE once == RecoveredRoute(r, S)
<1>1. CASE ~IsActive(once)
  BY <1>1 DEF RecoveredRoute
<1>2. CASE IsActive(once)
  <2>1. /\ once \in RouteRecord /\ RouteInBounds(once)
        /\ once.plan = r.plan /\ once.released = r.released
        /\ IsActive(r) /\ once.state = RecoveredState(r, S)
    BY <1>2, RecoveredRouteFacts
  <2> HIDE DEF once
  <2>2. Unreleased(once) = Unreleased(r)
    BY <2>1 DEF Unreleased
  <2>3. RecoveredState(once, S) = once.state
    BY <1>2, <2>1, <2>2 DEF RecoveredState, IsActive, ActiveStates
  <2>4. RecoveredRoute(once, S) = [once EXCEPT !.state = once.state]
    BY <1>2, <2>3 DEF RecoveredRoute
  <2>5. RecoveredRoute(once, S) = once
    BY <2>1, <2>4 DEF RouteRecord
  <2>6. QED
    BY <2>5 DEF once
<1>3. QED
  BY <1>1, <1>2

-----------------------------------------------------------------------------
(* What holds while no write was lost: routes, counts and the clock *)

\* An active route has a section left to release.
TailLeft == \A i \in RouteIds : IsActive(rt[i]) => rt[i].released < Len(Path(rt[i].plan))

\* The row of a route lags behind it in nothing but the state it is active in.
RowInStep(i) ==
    /\ drt[i].plan = rt[i].plan
    /\ drt[i].released = rt[i].released
    /\ IsActive(drt[i]) <=> IsActive(rt[i])
    /\ ~IsActive(rt[i]) => drt[i] = rt[i]

\* The inductive strengthening of StoreInStep.
RowsInStep ==
    lost = 0 => /\ StoreInStep
                /\ TailLeft
                /\ \A i \in RouteIds : RowInStep(i)

\* The last section of a route is released together with the route.
LEMMA TailLeftStep == TypeOK /\ TailLeft /\ [Next]_vars => TailLeft'
<1> SUFFICES ASSUME TypeOK, TailLeft, [Next]_vars,
                    NEW j \in RouteIds, IsActive(rt'[j])
             PROVE  rt'[j].released < Len(Path(rt'[j].plan))
  BY DEF TailLeft
<1>0. rt[j] \in RouteRecord /\ RouteInBounds(rt[j])
      /\ rt'[j] \in RouteRecord /\ RouteInBounds(rt'[j])
  BY NextType DEF TypeOK
<1>1. rt'[j].plan \in Plans /\ rt'[j].released \in 0..Len(Path(rt'[j].plan))
      /\ Len(Path(rt'[j].plan)) \in Nat \ {0}
  BY <1>0, PlanFacts DEF RouteInBounds, IsActive, ActiveStates
<1>2. CASE IsActive(rt[j])
  <2>0. rt[j].released < Len(Path(rt[j].plan))
    BY <1>2 DEF TailLeft
  <2>1. CASE rt'[j].plan = rt[j].plan /\ rt'[j].released = rt[j].released
    BY <2>0, <2>1
  <2>2. CASE \E s \in Detectors : /\ ReportClearance(s)
                                  /\ Releases(rt[j], s, Lowered(s))
                                  /\ rt'[j] = OnClearance(rt[j], s, Lowered(s))
    <3>1. PICK s \in Detectors : /\ Releases(rt[j], s, Lowered(s))
                                 /\ rt'[j] = OnClearance(rt[j], s, Lowered(s))
      BY <2>2
    <3>2. /\ rt'[j].plan = rt[j].plan
          /\ rt'[j].released = rt[j].released + 1
          /\ ReleasesLast(rt[j], s, Lowered(s)) => rt'[j].state \in TerminalStates
      BY <1>0, <3>1, OnClearanceType
    <3>3. ~ReleasesLast(rt[j], s, Lowered(s))
      BY <3>2 DEF IsActive, ActiveStates, TerminalStates
    <3>4. rt[j].released + 1 # Len(Path(rt[j].plan))
      BY <3>1, <3>3 DEF ReleasesLast
    <3>5. QED
      BY <1>1, <3>2, <3>4
  <2>3. CASE rt'[j] = Cancelled(rt[j])
    <3>1. rt[j].state # "NONE"
      BY <1>2 DEF IsActive, ActiveStates
    <3>2. rt'[j].state = "CANCELLED"
      BY <1>0, <2>3, <3>1, CancelledType
    <3>3. QED
      BY <3>2 DEF IsActive, ActiveStates
  <2>4. QED
    BY <1>2, <2>1, <2>2, <2>3, ActiveFate
<1>3. CASE ~IsActive(rt[j])
  <2>1. rt'[j] # rt[j]
    BY <1>3 DEF IsActive
  <2>2. PICK k \in Plans : StartMoves(j, k) \/ ClearAtOnce(j, k)
    BY <1>3, <2>1, InactiveFate
  <2>3. \E st : rt'[j] = NewRoute(k, st, clock)
    BY <2>2 DEF StartMoves, ClearAtOnce, TypeOK
  <2>4. rt'[j].released = 0
    BY <2>3 DEF NewRoute
  <2>5. QED
    BY <1>1, <2>4
<1>4. QED
  BY <1>2, <1>3

\* A recovery that finds the rows in step leaves an active route active and
\* everything else of a route as it was.
LEMMA RecoveredInStep ==
    ASSUME DurableTypeOK, RowsInStep, lost = 0, Recovered, NEW i \in RouteIds
    PROVE  /\ rt'[i].plan = rt[i].plan
           /\ rt'[i].released = rt[i].released
           /\ IsActive(rt'[i]) <=> IsActive(rt[i])
           /\ ~IsActive(rt[i]) => rt'[i] = rt[i]
<1>1. rt'[i] = RecoveredRoute(drt[i], sec')
  BY RecoveryIs DEF RecoveredInOrder
<1>2. drt[i] \in RouteRecord /\ RouteInBounds(drt[i]) /\ RowInStep(i)
  BY DEF DurableTypeOK, RowsInStep
<1>3. CASE IsActive(rt[i])
  <2>1. rt[i].released < Len(Path(rt[i].plan)) /\ rt[i].plan \in Plans /\ rt[i].released \in Nat
    BY <1>3, ActiveFacts DEF RowsInStep, TailLeft, DurableTypeOK, RouteRecord
  <2>2. Len(Path(rt[i].plan)) \in Nat
    BY <2>1, PlanFacts
  <2>3. Unreleased(drt[i]) # {}
    <3>1. (rt[i].released + 1) \in (rt[i].released + 1)..Len(Path(rt[i].plan))
      BY <2>1, <2>2
    <3>2. QED
      BY <1>2, <3>1 DEF Unreleased, RowInStep
  <2>4. QED
    BY <1>1, <1>2, <1>3, <2>3, RecoveredRouteFacts DEF RowInStep
<1>4. CASE ~IsActive(rt[i])
  BY <1>1, <1>2, <1>4, RecoveredRouteFacts DEF RowInStep
<1>5. QED
  BY <1>3, <1>4

\* A step that does not fail keeps the rows in step.
LEMMA RowsInStepStep ==
    DurableTypeOK /\ RowsInStep /\ [DurableNext]_durable => RowsInStep'
<1> SUFFICES ASSUME DurableTypeOK, RowsInStep, [DurableNext]_durable, lost' = 0
             PROVE  StoreInStep' /\ TailLeft' /\ \A i \in RouteIds : RowInStep(i)'
  BY DEF RowsInStep
<1>1. CASE Written
  <2>0. lost = 0 /\ StoreInStep /\ TailLeft /\ \A i \in RouteIds : RowInStep(i)
    BY <1>1 DEF Written, RowsInStep
  <2>1. TailLeft'
    BY <1>1, <2>0, TailLeftStep DEF Written, DurableTypeOK
  <2>2. ASSUME NEW i \in RouteIds PROVE RowInStep(i)'
    <3>1. drt'[i] = rt'[i] \/ (drt'[i] = drt[i] /\ rt'[i] = rt[i])
      BY <1>1 DEF Written
    <3>2. CASE drt'[i] = rt'[i]
      BY <3>2 DEF RowInStep, IsActive
    <3>3. CASE drt'[i] = drt[i] /\ rt'[i] = rt[i]
      BY <2>0, <3>3 DEF RowInStep, IsActive
    <3>4. QED
      BY <3>1, <3>2, <3>3
  <2>3. StoreInStep'
    BY <1>1, <2>0, <2>2 DEF Written, StoreInStep, RowInStep
  <2>4. QED
    BY <2>1, <2>2, <2>3
<1>2. CASE Failed
  BY <1>2 DEF Failed
<1>3. CASE Restart \/ Reconcile
  <2>0. /\ Recovered /\ drt' = drt /\ dsec' = dsec /\ dclock' = dclock /\ lost = 0
        /\ clock = dclock => clock' = dclock
    BY <1>3, RecoveryFacts DEF store
  <2>1. StoreInStep /\ TailLeft /\ \A i \in RouteIds : RowInStep(i)
    BY <2>0 DEF RowsInStep
  <2>2. TailLeft'
    BY <2>0, <2>1, RecoveredInStep DEF TailLeft
  <2>3. ASSUME NEW i \in RouteIds PROVE RowInStep(i)'
    <3>1. /\ rt'[i].plan = rt[i].plan /\ rt'[i].released = rt[i].released
          /\ IsActive(rt'[i]) <=> IsActive(rt[i])
          /\ ~IsActive(rt[i]) => rt'[i] = rt[i]
      BY <2>0, RecoveredInStep
    <3>2. QED
      BY <2>0, <2>1, <3>1 DEF RowInStep, IsActive
  <2>4. \A s \in Sections : sec'[s].occ = dsec'[s].occ
    BY <2>0, RecoveryIs DEF RecoveredInOrder, RecoveredSections, Stored, DurableTypeOK, SectionRecord
  <2>5. clock' = dclock'
    BY <2>0, <2>1 DEF StoreInStep
  <2>6. StoreInStep'
    BY <2>3, <2>4, <2>5 DEF StoreInStep, RowInStep
  <2>7. QED
    BY <2>2, <2>3, <2>6
<1>4. QED
  BY <1>1, <1>2, <1>3, StepKinds

LEMMA RowsStartInStep == DurableInit => RowsInStep
<1> SUFFICES ASSUME DurableInit PROVE StoreInStep /\ TailLeft /\ \A i \in RouteIds : RowInStep(i)
  BY DEF RowsInStep
<1>1. dsec = sec /\ drt = rt /\ dclock = clock
  BY DEF DurableInit
<1>2. \A i \in RouteIds : ~IsActive(rt[i])
  BY DEF DurableInit, Init, NoneRoute, IsActive, ActiveStates
<1>3. QED
  BY <1>1, <1>2 DEF StoreInStep, TailLeft, RowInStep

\* Whoever claimed an element once claims it again.
LEMMA ClaimedAgain ==
    ASSUME NEW rank \in Ranks, NEW C \in SUBSET RouteIds, NEW h \in Ids
    PROVE  ClaimedBy(C, rank, ClaimedBy(C, rank, h)) = ClaimedBy(C, rank, h)
BY DEF ClaimedBy

\* While the rows are in step, an active row has a section left to release, so
\* its route stays active through a recovery.
LEMMA RowsHaveTails ==
    ASSUME DurableTypeOK, RowsInStep, lost = 0, NEW i \in RouteIds, IsActive(drt[i])
    PROVE  Unreleased(drt[i]) # {}
<1>1. RowInStep(i) /\ TailLeft /\ drt[i] \in RouteRecord /\ RouteInBounds(drt[i])
  BY DEF DurableTypeOK, RowsInStep
<1>2. drt[i].released < Len(Path(drt[i].plan)) /\ drt[i].released \in Nat
      /\ drt[i].plan \in Plans
  BY <1>1 DEF RowInStep, TailLeft, RouteRecord, RouteInBounds, IsActive, ActiveStates
<1>3. Len(Path(drt[i].plan)) \in Nat
  BY <1>2, PlanFacts
<1>4. (drt[i].released + 1) \in (drt[i].released + 1)..Len(Path(drt[i].plan))
  BY <1>2, <1>3
<1>5. QED
  BY <1>4 DEF Unreleased

\* A recovery of a snapshot that keeps what routes are active on which path
\* claims the same elements for the same routes.
LEMMA SameClaims ==
    ASSUME DurableTypeOK, NEW rank \in Ranks, NEW m, NEW R,
           m = [sec |-> RecoveredSections(Stored, rank), pt |-> RecoveredPoints(Stored, rank),
                sig |-> m.sig, rt |-> R],
           \A i \in RouteIds : /\ IsActive(R[i]) <=> IsActive(drt[i])
                               /\ R[i].plan = drt[i].plan
                               /\ Unreleased(R[i]) = Unreleased(drt[i])
    PROVE  /\ RecoveredSections(m, rank) = RecoveredSections(Stored, rank)
           /\ RecoveredPoints(m, rank) = RecoveredPoints(Stored, rank)
<1>0. /\ dsec \in [Sections -> SectionRecord] /\ dpt \in [Points -> PointRecord]
      /\ m.rt = R
      /\ m.sec = RecoveredSections(Stored, rank) /\ m.pt = RecoveredPoints(Stored, rank)
  BY DEF DurableTypeOK
<1>1. ASSUME NEW s \in Sections
      PROVE  RecoveredSections(m, rank)[s] = RecoveredSections(Stored, rank)[s]
  <2> DEFINE C == {i \in RouteIds : IsActive(drt[i]) /\ s \in Unreleased(drt[i])}
             D == {i \in RouteIds : IsActive(R[i]) /\ s \in Unreleased(R[i])}
             h == ClaimedBy(C, rank, dsec[s].lock)
  <2>1. C = D /\ C \in SUBSET RouteIds
    OBVIOUS
  <2>2. m.sec[s] = [dsec[s] EXCEPT !.lock = ClaimedBy(C, rank, dsec[s].lock)]
    BY <1>0 DEF RecoveredSections, Stored
  <2>3. RecoveredSections(m, rank)[s] = [m.sec[s] EXCEPT !.lock = ClaimedBy(D, rank, m.sec[s].lock)]
    BY <1>0 DEF RecoveredSections
  <2>4. dsec[s] \in SectionRecord /\ dsec[s].lock \in Ids
    BY <1>0 DEF SectionRecord
  <2> HIDE DEF C, D
  <2>5. ClaimedBy(C, rank, h) = h
    BY <2>1, <2>4, ClaimedAgain
  <2> HIDE DEF h
  <2>6. m.sec[s] = [dsec[s] EXCEPT !.lock = h]
    BY <2>2 DEF h
  <2>7. m.sec[s].lock = h /\ [m.sec[s] EXCEPT !.lock = h] = m.sec[s]
    BY <2>4, <2>6 DEF SectionRecord
  <2>8. QED
    BY <1>0, <2>1, <2>3, <2>5, <2>7
<1>2. ASSUME NEW p \in Points
      PROVE  RecoveredPoints(m, rank)[p] = RecoveredPoints(Stored, rank)[p]
  <2> DEFINE C == {i \in RouteIds : IsActive(drt[i]) /\ p \in PlanPoints(drt[i].plan)}
             D == {i \in RouteIds : IsActive(R[i]) /\ p \in PlanPoints(R[i].plan)}
             h == ClaimedBy(C, rank, dpt[p].lock)
  <2>1. C = D /\ C \in SUBSET RouteIds
    OBVIOUS
  <2>2. m.pt[p] = [dpt[p] EXCEPT !.lock = ClaimedBy(C, rank, dpt[p].lock)]
    BY <1>0 DEF RecoveredPoints, Stored
  <2>3. RecoveredPoints(m, rank)[p] = [m.pt[p] EXCEPT !.lock = ClaimedBy(D, rank, m.pt[p].lock)]
    BY <1>0 DEF RecoveredPoints
  <2>4. dpt[p] \in PointRecord /\ dpt[p].lock \in Ids
    BY <1>0 DEF PointRecord
  <2> HIDE DEF C, D
  <2>5. ClaimedBy(C, rank, h) = h
    BY <2>1, <2>4, ClaimedAgain
  <2> HIDE DEF h
  <2>6. m.pt[p] = [dpt[p] EXCEPT !.lock = h]
    BY <2>2 DEF h
  <2>7. m.pt[p].lock = h /\ [m.pt[p] EXCEPT !.lock = h] = m.pt[p]
    BY <2>4, <2>6 DEF PointRecord
  <2>8. QED
    BY <1>0, <2>1, <2>3, <2>5, <2>7
<1>3. QED
  BY <1>1, <1>2 DEF RecoveredSections, RecoveredPoints

\* A signal that was gone through for the routes mine is found in the same
\* aspect and binding by the same routes again.
LEMMA SignalAgain ==
    ASSUME NEW rank \in Ranks, NEW g \in Signals, NEW mine \in SUBSET RouteIds,
           NEW S, NEW P, NEW m,
           \A i \in RouteIds : m.rt[i].plan = drt[i].plan,
           m.sig[g] = RecoveredSignal(Stored, g, mine, S, P, rank)
    PROVE  RecoveredSignal(m, g, mine, S, P, rank) = m.sig[g]
<1>1. CASE mine = {}
  BY <1>1 DEF RecoveredSignal
<1>2. CASE mine # {}
  <2> DEFINE open == {i \in mine : ElementsReady(drt[i].plan, i, S, P)}
             again == {i \in mine : ElementsReady(m.rt[i].plan, i, S, P)}
  <2>1. again = open
    OBVIOUS
  <2>2. m.sig[g] = [aspect |-> IF Latest(mine, rank) \in open
                               THEN RecoveredAspect(drt[Latest(mine, rank)].plan) ELSE "RED",
                    route |-> IF open = {} THEN dsig[g].route ELSE Latest(open, rank)]
    BY <1>2 DEF RecoveredSignal, Stored
  <2>3. RecoveredSignal(m, g, mine, S, P, rank)
          = [aspect |-> IF Latest(mine, rank) \in again
                        THEN RecoveredAspect(m.rt[Latest(mine, rank)].plan) ELSE "RED",
             route |-> IF again = {} THEN m.sig[g].route ELSE Latest(again, rank)]
    BY <1>2 DEF RecoveredSignal
  <2>4. m.rt[Latest(mine, rank)].plan = drt[Latest(mine, rank)].plan
    BY <1>2, LatestIn
  <2> HIDE DEF open, again
  <2>5. open = {} => m.sig[g].route = dsig[g].route
    BY <2>2
  <2>6. QED
    BY <2>1, <2>2, <2>3, <2>4, <2>5
<1>3. QED
  BY <1>1, <1>2

\* With no write lost, recovering the whole snapshot again, in the same order of
\* rows, gives the same counts, locks, route states, aspects and bindings.
THEOREM RecoveryIsIdempotent == DurableSpec => []ReconcileIdempotent
<1>1. ASSUME DurableTypeOK, RowsInStep, lost = 0, NEW rank \in Ranks
      PROVE  LET once == ReconcileAll(Stored, rank) IN ReconcileAll(once, rank) = once
  <2> DEFINE S == RecoveredSections(Stored, rank)
             P == RecoveredPoints(Stored, rank)
             R == [i \in RouteIds |-> RecoveredRoute(drt[i], S)]
             G == RecoveredSignals(Stored, R, S, P, rank)
             once == [sec |-> S, pt |-> P, sig |-> G, rt |-> R]
             R2 == [i \in RouteIds |-> RecoveredRoute(R[i], S)]
  <2>1. ReconcileAll(Stored, rank) = once
    BY DEF ReconcileAll, Stored
  <2>2. ASSUME NEW i \in RouteIds
        PROVE  /\ IsActive(R[i]) <=> IsActive(drt[i])
               /\ R[i].plan = drt[i].plan
               /\ Unreleased(R[i]) = Unreleased(drt[i])
               /\ RecoveredRoute(R[i], S) = R[i]
    <3>1. drt[i] \in RouteRecord /\ RouteInBounds(drt[i])
      BY <1>1 DEF DurableTypeOK
    <3>2. R[i] = RecoveredRoute(drt[i], S)
      OBVIOUS
    <3> HIDE DEF S, R
    <3>3. /\ R[i].plan = drt[i].plan /\ R[i].released = drt[i].released
          /\ ~IsActive(drt[i]) => R[i] = drt[i]
          /\ IsActive(drt[i]) /\ Unreleased(drt[i]) # {} => IsActive(R[i])
          /\ RecoveredRoute(R[i], S) = R[i]
      BY <3>1, <3>2, RecoveredRouteFacts, RecoveredTwice
    <3>4. IsActive(drt[i]) => Unreleased(drt[i]) # {}
      BY <1>1, RowsHaveTails
    <3>5. QED
      BY <3>3, <3>4 DEF Unreleased
  <2>3. R2 = R
    BY <2>2
  <2>4. RecoveredSections(once, rank) = S /\ RecoveredPoints(once, rank) = P
    <3>1. once.sig = G /\ once = [sec |-> S, pt |-> P, sig |-> once.sig, rt |-> R]
      OBVIOUS
    <3> HIDE DEF R, G, once, R2
    <3>2. QED
      BY <1>1, <2>2, <3>1, SameClaims
  <2>5. ASSUME NEW g \in Signals
        PROVE  RecoveredSignals(once, R, S, P, rank)[g] = G[g]
    <3> DEFINE mine == {i \in RouteIds : IsActive(R[i]) /\ Origin(R[i].plan) = g}
    <3>1. /\ G[g] = RecoveredSignal(Stored, g, mine, S, P, rank)
          /\ RecoveredSignals(once, R, S, P, rank)[g] = RecoveredSignal(once, g, mine, S, P, rank)
          /\ once.sig[g] = G[g] /\ once.rt = R
          /\ mine \in SUBSET RouteIds
      BY DEF RecoveredSignals
    <3> HIDE DEF S, P, R, G, once, R2, mine
    <3>2. QED
      BY <2>2, <3>1, SignalAgain
  <2>6. RecoveredSignals(once, R, S, P, rank) = G
    <3>1. /\ G = [g \in Signals |-> G[g]]
          /\ RecoveredSignals(once, R, S, P, rank)
               = [g \in Signals |-> RecoveredSignals(once, R, S, P, rank)[g]]
      BY DEF RecoveredSignals
    <3> HIDE DEF S, P, R, G, once, R2
    <3>2. QED
      BY <2>5, <3>1
  <2>7. once.rt = R
    OBVIOUS
  <2>8. once = [sec |-> S, pt |-> P, sig |-> G, rt |-> R]
    OBVIOUS
  <2> HIDE DEF S, P, R, G, once
  <2>9. ReconcileAll(once, rank) = [sec |-> S, pt |-> P, sig |-> G, rt |-> R]
    BY <2>3, <2>4, <2>6, <2>7 DEF ReconcileAll
  <2>10. QED
    BY <2>1, <2>8, <2>9
<1>2. DurableTypeOK /\ RowsInStep => ReconcileIdempotent
  BY <1>1 DEF ReconcileIdempotent
<1>3. QED
  BY <1>2, RowsStartInStep, RowsInStepStep, DurableInitType, DurableType, PTL DEF DurableSpec

\* With no write lost, memory and store agree on where trains are, on what is
\* released, on which routes still run and on the time, whatever restarts
\* happened.
THEOREM StoreStaysInStep == DurableSpec => []StoreInStep
<1>1. RowsInStep => StoreInStep
  BY DEF RowsInStep, StoreInStep
<1>2. QED
  BY <1>1, RowsStartInStep, RowsInStepStep, DurableInitType, DurableType, PTL DEF DurableSpec

\* With no write lost, a route that has ended stays as it is, over restarts
\* too.
THEOREM EndedRoutesStay == DurableSpec => EndedStaysEnded
<1>1. ASSUME DurableTypeOK, RowsInStep, [DurableNext]_durable, lost' = 0,
             NEW i \in RouteIds, rt[i].state \in TerminalStates
      PROVE  rt'[i] = rt[i]
  <2>0. ~IsActive(rt[i]) /\ rt[i].state # "NONE"
    BY <1>1 DEF TerminalStates, IsActive, ActiveStates
  <2>1. CASE Written
    BY <1>1, <2>0, <2>1, InactiveFate DEF Written, DurableTypeOK
  <2>2. CASE Restart \/ Reconcile
    BY <1>1, <2>0, <2>2, RecoveryFacts, RecoveredInStep
  <2>3. QED
    BY <1>1, <2>1, <2>2, StepKinds DEF Failed
<1>2. DurableTypeOK /\ RowsInStep /\ [DurableNext]_durable =>
        [lost' = 0 => \A i \in RouteIds :
            rt[i].state \in TerminalStates => rt'[i] = rt[i]]_durable
  BY <1>1
<1>3. QED
  BY <1>2, RowsStartInStep, RowsInStepStep, DurableInitType, DurableType, PTL
     DEF DurableSpec, EndedStaysEnded

-----------------------------------------------------------------------------
(* What holds while no write was lost: the points of the routes *)

\* The rows of the points a route holds are written with the points, or neither
\* the point nor the row nor the route's plan changes.
PointRowKept(i, p) ==
    \/ dpt'[p] = pt'[p]
    \/ /\ IsActive(rt[i]) /\ rt'[i].plan = rt[i].plan
       /\ pt'[p] = pt[p] /\ dpt'[p] = dpt[p]

LEMMA RequestRows ==
    ASSUME DurableTypeOK, PointsHeld, NEW j \in RouteIds, NEW k \in Plans, RequestSaved(j, k),
           NEW i \in RouteIds, IsActive(rt'[i]), NEW p \in PlanPoints(rt'[i].plan), p \in Points
    PROVE  PointRowKept(i, p)
<1>0. TypeOK /\ rt \in [RouteIds -> RouteRecord] /\ pt \in [Points -> PointRecord]
  BY DEF DurableTypeOK, TypeOK
<1>1. Accepted(j, k)
  BY DEF RequestSaved, SetupFails, StartMoves, ClearAtOnce, ClearRefused, Laid
<1>2. CASE /\ StartMoves(j, k) \/ ClearAtOnce(j, k)
           /\ Save(PathSet(k), PlanPoints(k), {Origin(k)}, {j}) /\ ClockKept
  <2>1. dpt'[p] = IF p \in PlanPoints(k) THEN pt'[p] ELSE dpt[p]
    BY <1>2, SaveRows
  <2>2. CASE p \notin PlanPoints(k)
    <3>1. \E st : rt' = [rt EXCEPT ![j] = NewRoute(k, st, clock)]
      BY <1>2 DEF StartMoves, ClearAtOnce
    <3>2. i # j
      BY <1>0, <2>2, <3>1 DEF NewRoute
    <3>3. rt'[i] = rt[i]
      BY <1>0, <3>1, <3>2
    <3>4. PICK Q \in SUBSET Reqs(k), h \in Ids : pt' = LockPoints(Issued(Q), PlanPoints(k), h)
      BY <1>0, <1>2, Granted
    <3>5. pt'[p] = pt[p]
      BY <1>0, <2>2, <3>4, IssuedFacts, LockPointsSpares
    <3>6. QED
      BY <2>1, <2>2, <3>3, <3>5 DEF PointRowKept, IsActive
  <2>3. QED
    BY <2>1, <2>2 DEF PointRowKept
<1>3. CASE /\ SetupFails(j, k) \/ ClearRefused(j, k)
           /\ UNCHANGED <<store, lost>>
  <2>1. rt' = rt /\ dpt' = dpt
    BY <1>3 DEF SetupFails, ClearRefused, store
  <2>2. p \notin PlanPoints(k)
    BY <1>0, <1>1, <2>1, AcceptedSpares DEF IsActive
  <2>3. PICK Q \in SUBSET Reqs(k) : pt' = LockPoints(Issued(Q), PlanPoints(k), NoRoute)
    BY <1>0, <1>3, TurnedDown
  <2>4. pt'[p] = pt[p]
    BY <1>0, <2>2, <2>3, IssuedFacts, LockPointsSpares
  <2>5. QED
    BY <2>1, <2>4 DEF PointRowKept, IsActive
<1>4. QED
  BY <1>2, <1>3 DEF RequestSaved

LEMMA AdvanceRows ==
    ASSUME DurableTypeOK, PointsHeld, NEW delta \in Deltas, AdvanceSaved(delta),
           NEW i \in RouteIds, IsActive(rt'[i]), NEW p \in PlanPoints(rt'[i].plan), p \in Points
    PROVE  PointRowKept(i, p)
<1>0. TypeOK /\ pt \in [Points -> PointRecord]
  BY DEF DurableTypeOK, TypeOK
<1>1. AdvanceClock(delta) /\ clock' = clock + delta
  BY DEF AdvanceSaved, AdvanceClock
<1>2. [Next]_vars
  BY <1>1 DEF Next
<1>3. IsActive(rt[i]) /\ rt'[i].plan = rt[i].plan
  BY <1>0, <1>1, ActiveBefore
<1>4. pt'[p].lock = i
  BY <1>0, <1>2, <1>3, PointsSpared
<1> DEFINE U == UNION {PlanPoints(rt[j].plan) : j \in Due(clock + delta)}
           moved == pt[p].status = "MOVING" /\ clock' >= pt[p].deadline
<1>5. pt' = LockPoints(Detections(clock + delta), U, NoRoute)
  BY <1>1 DEF AdvanceClock
<1>6. p \notin U
  <2>1. i # NoRoute
    BY LayoutAssumption
  <2>2. Detections(clock + delta) \in [Points -> PointRecord]
    BY <1>0, DetectionsFacts
  <2> HIDE DEF U
  <2>3. NoRoute \in Ids
    OBVIOUS
  <2>4. QED
    BY <1>4, <1>5, <2>1, <2>2, <2>3, LockPointsFields
<1>7. pt'[p] = Detections(clock + delta)[p]
  BY <1>5, <1>6, LockPointsSpares
<1>8. ~moved => pt'[p] = pt[p]
  BY <1>1, <1>7 DEF Detections
<1>9. dpt'[p] = IF moved THEN pt'[p] ELSE dpt[p]
  <2>1. PICK G, R : Save({}, {q \in Points : pt[q].status = "MOVING" /\ clock' >= pt[q].deadline}, G, R)
    BY DEF AdvanceSaved
  <2>2. QED
    BY <2>1, SaveRows
<1>10. QED
  BY <1>3, <1>8, <1>9 DEF PointRowKept

\* The other operations of the engine write the point rows they change.
LEMMA OtherRows ==
    ASSUME DurableTypeOK, NEW i \in RouteIds, IsActive(rt'[i]), NEW p \in Points,
           \/ \E s \in Detectors : OccupancySaved(s) \/ ClearanceSaved(s)
           \/ \E j \in RouteIds : CancelSaved(j)
           \/ \E g \in Signals : SetSignalRedSaved(g)
           \/ \E q \in Points, dir \in OperatorDirs : OperateSaved(q, dir)
           \/ \E q \in Points, on \in BOOLEAN : BypassSaved(q, on)
    PROVE  PointRowKept(i, p)
<1>0. TypeOK /\ pt \in [Points -> PointRecord]
  BY DEF DurableTypeOK, TypeOK
<1>1. IsActive(rt[i]) /\ rt'[i].plan = rt[i].plan
  <2>1. \/ \E s \in Detectors : ReportOccupancy(s) \/ ReportClearance(s)
        \/ \E j \in RouteIds : CancelRoute(j)
        \/ UNCHANGED rt
    BY DEF OccupancySaved, ClearanceSaved, CancelSaved, SetSignalRedSaved, OperateSaved,
           BypassSaved, SetSignalRed, OperatePoint, BypassPoint
  <2>2. QED
    BY <1>0, <2>1, ActiveBefore
<1>2. ASSUME NEW P, NEW S, NEW G, NEW R, Save(S, P, G, R), p \notin P => pt'[p] = pt[p]
      PROVE  PointRowKept(i, p)
  <2>1. dpt'[p] = IF p \in P THEN pt'[p] ELSE dpt[p]
    BY <1>2, SaveRows
  <2>2. QED
    BY <1>1, <1>2, <2>1 DEF PointRowKept
<1>3. ASSUME NEW s \in Detectors, OccupancySaved(s)
      PROVE  PointRowKept(i, p)
  BY <1>2, <1>3 DEF OccupancySaved, ReportOccupancy
<1>4. ASSUME NEW s \in Detectors, ClearanceSaved(s)
      PROVE  PointRowKept(i, p)
  <2> DEFINE U == UNION {PlanPoints(rt[j].plan) :
                           j \in {h \in RouteIds : ReleasesLast(rt[h], s, Lowered(s))}}
  <2>1. pt' = LockPoints(pt, U, NoRoute) /\ \E G : Save({s}, U, G, Moved)
    BY <1>4 DEF ClearanceSaved, ReportClearance
  <2> HIDE DEF U
  <2>2. p \notin U => pt'[p] = pt[p]
    BY <2>1, LockPointsSpares
  <2>3. QED
    BY <1>2, <2>1, <2>2
<1>5. ASSUME NEW j \in RouteIds, CancelSaved(j)
      PROVE  PointRowKept(i, p)
  <2> DEFINE U == PlanPoints(rt[j].plan)
             all == CancelsAtOnce(rt[j], sec)
  <2>1. /\ \E S, G : Save(S, IF all THEN U ELSE {}, G, {j})
        /\ IF all THEN pt' = LockPoints(pt, U, NoRoute) ELSE pt' = pt
    BY <1>5 DEF CancelSaved, CancelRoute
  <2> HIDE DEF U, all
  <2>2. p \notin (IF all THEN U ELSE {}) => pt'[p] = pt[p]
    BY <2>1, LockPointsSpares
  <2>3. QED
    BY <1>2, <2>1, <2>2
<1>6. ASSUME NEW g \in Signals, SetSignalRedSaved(g)
      PROVE  PointRowKept(i, p)
  BY <1>2, <1>6 DEF SetSignalRedSaved, SetSignalRed
<1>7. ASSUME NEW q \in Points, \/ \E dir \in OperatorDirs : OperateSaved(q, dir)
                               \/ \E on \in BOOLEAN : BypassSaved(q, on)
      PROVE  PointRowKept(i, p)
  <2>1. Save({}, {q}, {}, {}) /\ \E r : pt' = [pt EXCEPT ![q] = r]
    BY <1>7 DEF OperateSaved, BypassSaved, OperatePoint, BypassPoint
  <2>2. p \notin {q} => pt'[p] = pt[p]
    BY <1>0, <2>1
  <2>3. QED
    BY <1>2, <2>1, <2>2
<1>8. QED
  BY <1>3, <1>4, <1>5, <1>6, <1>7

\* A step that loses no write, recovers nothing and is no stutter is one of the
\* operations with its transaction committed.
LEMMA CommittedOrNot ==
    ASSUME DurableTypeOK, [DurableNext]_durable, lost' = 0,
           ~(Restart \/ Reconcile), ~(UNCHANGED durable)
    PROVE  \/ \E i \in RouteIds, k \in Plans : RequestSaved(i, k)
           \/ \E s \in Detectors : OccupancySaved(s) \/ ClearanceSaved(s)
           \/ \E j \in RouteIds : CancelSaved(j)
           \/ \E g \in Signals : SetSignalRedSaved(g)
           \/ \E q \in Points, dir \in OperatorDirs : OperateSaved(q, dir)
           \/ \E q \in Points, on \in BOOLEAN : BypassSaved(q, on)
           \/ \E delta \in Deltas : AdvanceSaved(delta)
<1>1. ~Lose
  BY LoseCounts
<1>2. \A i \in RouteIds : ~CancelHalf(i)
  BY DEF CancelHalf, DurableTypeOK
<1>3. /\ \A i \in RouteIds, k \in Plans : ~RequestLost(i, k)
      /\ \A s \in Detectors : ~OccupancyLost(s) /\ ~ClearanceLost(s)
      /\ \A i \in RouteIds : ~CancelLost(i)
      /\ \A g \in Signals : ~SetSignalRedLost(g)
      /\ \A p \in Points, dir \in OperatorDirs : ~OperateLost(p, dir)
      /\ \A p \in Points, on \in BOOLEAN : ~BypassLost(p, on)
      /\ \A delta \in Deltas : ~AdvanceLost(delta)
  BY <1>1 DEF RequestLost, OccupancyLost, ClearanceLost, CancelLost, SetSignalRedLost,
              OperateLost, BypassLost, AdvanceLost
<1>4. QED
  BY <1>2, <1>3 DEF DurableNext

\* While no write is lost, the row of a point a route holds is the point.
PointsInStore == lost = 0 => PointsHeld /\ PointsCommitted /\ StoreKnowsRoutePoints

\* A recovery then finds each such point locked by its route alone.
LEMMA RecoveredPointsKept ==
    ASSUME DurableTypeOK, RowsInStep, PointsInStore, lost = 0, Recovered,
           NEW i \in RouteIds, IsActive(rt'[i]), NEW p \in PlanPoints(rt'[i].plan)
    PROVE  /\ IsActive(rt[i]) /\ rt'[i].plan = rt[i].plan
           /\ p \in Points
           /\ pt'[p] = pt[p] /\ dpt[p] = pt[p] /\ pt[p].lock = i
<1>1. IsActive(rt[i]) /\ rt'[i].plan = rt[i].plan
  BY RecoveredInStep
<1>2. p \in Points
  BY <1>1, ActiveFacts DEF DurableTypeOK
<1>3. pt[p].lock = i /\ dpt[p] = pt[p]
  BY <1>1 DEF PointsInStore, PointsHeld, StoreKnowsRoutePoints
<1> DEFINE C == {j \in RouteIds : IsActive(drt[j]) /\ p \in PlanPoints(drt[j].plan)}
<1>4. C = {i}
  <2>1. \A j \in RouteIds : RowInStep(j)
    BY DEF RowsInStep
  <2>2. i \in C
    BY <1>1, <2>1 DEF RowInStep
  <2>3. ASSUME NEW j \in C PROVE j = i
    <3>1. IsActive(rt[j]) /\ p \in PlanPoints(rt[j].plan)
      BY <2>1 DEF RowInStep
    <3>2. pt[p].lock = j
      BY <3>1 DEF PointsInStore, PointsHeld
    <3>3. QED
      BY <1>3, <3>2
  <2>4. QED
    BY <2>2, <2>3
<1>5. PICK rank \in Ranks : pt' = RecoveredPoints(Stored, rank)
  BY RecoveryIs DEF RecoveredInOrder
<1>6. pt'[p] = [dpt[p] EXCEPT !.lock = ClaimedBy(C, rank, dpt[p].lock)]
  BY <1>2, <1>5 DEF RecoveredPoints, Stored
<1>7. ClaimedBy(C, rank, dpt[p].lock) = i
  <2>1. dpt[p].lock \in Ids
    BY <1>2 DEF DurableTypeOK, PointRecord
  <2> HIDE DEF C
  <2>2. ClaimedBy(C, rank, dpt[p].lock) \in C
    BY <1>4, <2>1, ClaimedFacts
  <2>3. QED
    BY <1>4, <2>2
<1>8. [dpt[p] EXCEPT !.lock = i] = dpt[p]
  BY <1>2, <1>3 DEF DurableTypeOK, PointRecord
<1>9. QED
  BY <1>1, <1>2, <1>3, <1>6, <1>7, <1>8

LEMMA PointsInStoreStep ==
    DurableTypeOK /\ RowsInStep /\ PointsInStore /\ [DurableNext]_durable => PointsInStore'
<1> SUFFICES ASSUME DurableTypeOK, RowsInStep, PointsInStore, [DurableNext]_durable, lost' = 0
             PROVE  PointsHeld' /\ PointsCommitted' /\ StoreKnowsRoutePoints'
  BY DEF PointsInStore
<1>0. TypeOK
  BY DEF DurableTypeOK
<1>1. CASE Written
  <2>0. lost = 0 /\ PointsHeld /\ PointsCommitted /\ StoreKnowsRoutePoints /\ [Next]_vars
    BY <1>1 DEF Written, PointsInStore
  <2>1. PointsHeld' /\ PointsCommitted'
    BY <1>0, <2>0, PointsHeldStep, PointsCommittedStep
  <2>2. ASSUME NEW i \in RouteIds, IsActive(rt'[i]), NEW p \in PlanPoints(rt'[i].plan)
        PROVE  dpt'[p] = pt'[p]
    <3>1. p \in Points
      <4>1. rt'[i].plan \in Plans
        BY <1>0, <2>0, <2>2, NextType DEF TypeOK, RouteInBounds, IsActive, ActiveStates
      <4>2. QED
        BY <2>2, <4>1, PlanFacts DEF PlanPoints, Requirement
    <3>2. CASE PointRowKept(i, p)
      BY <2>0, <3>2 DEF PointRowKept, StoreKnowsRoutePoints
    <3>3. CASE UNCHANGED durable
      BY <2>0, <2>2, <3>3 DEF durable, vars, store, StoreKnowsRoutePoints, IsActive
    <3>4. CASE Restart \/ Reconcile
      BY <2>0, <2>2, <3>4, RecoveryFacts, RecoveredPointsKept DEF store
    <3>5. QED
      BY <2>0, <2>2, <3>1, <3>2, <3>3, <3>4, CommittedOrNot, RequestRows, AdvanceRows, OtherRows
  <2>3. QED
    BY <2>1, <2>2 DEF StoreKnowsRoutePoints
<1>2. CASE Failed
  BY <1>2 DEF Failed
<1>3. CASE Restart \/ Reconcile
  <2>0. Recovered /\ lost = 0 /\ dpt' = dpt
    BY <1>3, RecoveryFacts DEF store
  <2>1. ASSUME NEW i \in RouteIds, IsActive(rt'[i]), NEW p \in PlanPoints(rt'[i].plan)
        PROVE  /\ IsActive(rt[i]) /\ rt'[i].plan = rt[i].plan
               /\ pt'[p] = pt[p] /\ dpt'[p] = pt'[p] /\ pt'[p].lock = i
    BY <2>0, <2>1, RecoveredPointsKept
  <2>2. PointsHeld' /\ StoreKnowsRoutePoints'
    BY <2>1 DEF PointsHeld, StoreKnowsRoutePoints
  <2>3. ASSUME NEW i \in RouteIds, IsActive(rt'[i]), NEW q \in Reqs(rt'[i].plan)
        PROVE  \/ AtTarget(pt'[q.point], q.dir)
               \/ pt'[q.point].status = "MOVING" /\ pt'[q.point].target = q.dir
    <3>1. q.point \in PlanPoints(rt'[i].plan)
      BY DEF PlanPoints
    <3>2. IsActive(rt[i]) /\ rt'[i].plan = rt[i].plan /\ pt'[q.point] = pt[q.point]
      BY <2>1, <2>3, <3>1
    <3>3. QED
      BY <2>0, <3>2 DEF PointsInStore, PointsCommitted
  <2>4. PointsCommitted'
    BY <2>3 DEF PointsCommitted
  <2>5. QED
    BY <2>2, <2>4
<1>4. QED
  BY <1>1, <1>2, <1>3, StepKinds

LEMMA PointsStartInStore == DurableInit => PointsInStore
<1> SUFFICES ASSUME DurableInit PROVE PointsHeld /\ PointsCommitted /\ StoreKnowsRoutePoints
  BY DEF PointsInStore
<1>1. \A i \in RouteIds : ~IsActive(rt[i])
  BY DEF DurableInit, Init, NoneRoute, IsActive, ActiveStates
<1>2. QED
  BY <1>1 DEF PointsHeld, PointsCommitted, StoreKnowsRoutePoints

\* With no write lost, a restart or a reconcile leaves the points of an active
\* route held by it, and lying or moving where it wants them.
THEOREM PointsOutliveRestarts == DurableSpec => []PointsSurviveRestart
<1>1. PointsInStore => PointsSurviveRestart
  BY DEF PointsInStore, PointsSurviveRestart
<1>2. QED
  BY <1>1, PointsStartInStore, PointsInStoreStep, RowsStartInStep, RowsInStepStep,
     DurableInitType, DurableType, PTL DEF DurableSpec

\* With no write lost, the store knows of every active route the points it
\* holds, so a stop at any moment frees and moves none of them.
THEOREM StoreKnowsThePoints == DurableSpec => []StoreKnowsRoutePoints
<1>1. PointsInStore => StoreKnowsRoutePoints
  BY DEF PointsInStore, StoreKnowsRoutePoints
<1>2. QED
  BY <1>1, PointsStartInStore, PointsInStoreStep, RowsStartInStep, RowsInStepStep,
     DurableInitType, DurableType, PTL DEF DurableSpec
=============================================================================
