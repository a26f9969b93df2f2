------------------------- MODULE InterlockSections --------------------------
(***************************************************************************)
(* The sections and the signals of the engine in memory: sections are      *)
(* released in order behind the train, and only a cancellation takes one   *)
(* from another route; what a proceed aspect stands for, and that two of   *)
(* them never lead into one section from either side.                      *)
(***************************************************************************)
EXTENDS InterlockProofs

USE DEF Ids

\* A route that is not active stays as it is, unless it is a request that is
\* granted.
LEMMA InactiveFate ==
    ASSUME TypeOK, [Next]_vars, NEW j \in RouteIds, ~IsActive(rt[j])
    PROVE  \/ rt'[j] = rt[j]
           \/ rt[j].state = "NONE" /\ \E k \in Plans : StartMoves(j, k) \/ ClearAtOnce(j, k)
<1>0. rt[j] \in RouteRecord /\ RouteInBounds(rt[j]) /\ rt \in [RouteIds -> RouteRecord]
  BY DEF TypeOK
<1>1. ASSUME NEW i \in RouteIds, NEW k \in Plans, RequestRoute(i, k)
      PROVE  \/ rt'[j] = rt[j]
             \/ rt[j].state = "NONE" /\ (StartMoves(j, k) \/ ClearAtOnce(j, k))
  <2>1. CASE SetupFails(i, k) \/ ClearRefused(i, k)
    BY <2>1, TurnedDown
  <2>2. CASE StartMoves(i, k) \/ ClearAtOnce(i, k)
    <3>1. rt[i].state = "NONE" /\ \E st : rt' = [rt EXCEPT ![i] = NewRoute(k, st, clock)]
      BY <2>2, Granted DEF Accepted
    <3>2. QED
      BY <1>0, <2>2, <3>1
  <2>3. QED
    BY <1>1, <2>1, <2>2 DEF RequestRoute
<1>2. ASSUME NEW s \in Detectors, ReportOccupancy(s)
      PROVE  rt'[j] = rt[j]
  BY <1>2 DEF ReportOccupancy
<1>3. ASSUME NEW s \in Detectors, ReportClearance(s)
      PROVE  rt'[j] = rt[j]
  BY <1>3 DEF ReportClearance, OnClearance, Releases, IsActive, ActiveStates
<1>4. ASSUME NEW i \in RouteIds, CancelRoute(i)
      PROVE  rt'[j] = rt[j]
  BY <1>0, <1>4 DEF CancelRoute
<1>5. ASSUME NEW delta \in Deltas, AdvanceClock(delta)
      PROVE  rt'[j] = rt[j]
  <2> DEFINE npt == Detections(clock + delta)
  <2>1. PICK pick \in Picks(npt) :
          rt' = [i \in RouteIds |->
                   IF i \in Winners(npt, pick)
                   THEN [rt[i] EXCEPT !.state = "LOCKED", !.timed = clock + delta > 0]
                   ELSE IF i \in Due(clock + delta) THEN Cancelled(rt[i]) ELSE rt[i]]
    BY <1>5 DEF AdvanceClock
  <2>2. j \notin Winners(npt, pick)
    BY DEF Winners, Openable, IsActive, ActiveStates
  <2>3. j \notin Due(clock + delta)
    BY DEF Due, BackstopDue, IsActive, ActiveStates
  <2>4. QED
    BY <2>1, <2>2, <2>3
<1>6. (\/ \E g \in Signals : SetSignalRed(g)
       \/ \E p \in Points, dir \in OperatorDirs : OperatePoint(p, dir)
       \/ \E p \in Points, on \in BOOLEAN : BypassPoint(p, on)
       \/ UNCHANGED vars) => rt'[j] = rt[j]
  BY DEF SetSignalRed, OperatePoint, BypassPoint, vars
<1>7. QED
  BY <1>1, <1>2, <1>3, <1>4, <1>5, <1>6 DEF Next

-----------------------------------------------------------------------------
(* Release in order *)

\* An id no request has used has released nothing.
UnusedIsBlank == \A i \in RouteIds : rt[i].state = "NONE" => rt[i].released = 0

\* No step leads back to an unused id.
LEMMA UnusedStep == TypeOK /\ UnusedIsBlank /\ [Next]_vars => UnusedIsBlank'
<1> SUFFICES ASSUME TypeOK, UnusedIsBlank, [Next]_vars,
                    NEW j \in RouteIds, rt'[j].state = "NONE"
             PROVE  rt'[j].released = 0
  BY DEF UnusedIsBlank
<1>0. rt[j] \in RouteRecord /\ RouteInBounds(rt[j])
  BY DEF TypeOK
<1>1. CASE IsActive(rt[j])
  <2>1. Cancelled(rt[j]).state # "NONE"
    BY <1>0, <1>1, CancelledType DEF IsActive, ActiveStates
  <2>2. \A s \in Detectors : Releases(rt[j], s, Lowered(s)) =>
          OnClearance(rt[j], s, Lowered(s)).state # "NONE"
    BY <1>0, OnClearanceType DEF TerminalStates
  <2>3. QED
    BY <1>1, <2>1, <2>2, ActiveFate DEF IsActive, ActiveStates
<1>2. CASE ~IsActive(rt[j])
  <2>1. ASSUME NEW k \in Plans, StartMoves(j, k) \/ ClearAtOnce(j, k)
        PROVE  FALSE
    BY <2>1, GrantedHolds DEF IsActive, ActiveStates
  <2>2. rt'[j] = rt[j]
    BY <1>2, <2>1, InactiveFate
  <2>3. QED
    BY <2>2 DEF UnusedIsBlank
<1>3. QED
  BY <1>1, <1>2

\* One step of one route: what ReleaseInOrder asks.
ReleasesInOrder(i) ==
    /\ rt[i].state \in TerminalStates => rt'[i] = rt[i]
    /\ rt'[i].released # rt[i].released /\ rt'[i].state # "CANCELLED" =>
           rt'[i].released = rt[i].released + 1
    /\ rt'[i].state = "RELEASED" /\ rt[i].state # "RELEASED" =>
           ~Occupied(sec', PathSet(rt[i].plan))
           /\ rt[i].state \in {"TRAIN_IN_ROUTE", "RELEASING"}

LEMMA OrderStep ==
    ASSUME TypeOK, UnusedIsBlank, [Next]_vars, NEW j \in RouteIds
    PROVE  ReleasesInOrder(j)
<1>0. /\ rt[j] \in RouteRecord /\ RouteInBounds(rt[j])
      /\ sec \in [Sections -> SectionRecord] /\ NoRoute \in Ids
  BY DEF TypeOK
<1>1. CASE IsActive(rt[j])
  <2>1. rt[j].state \notin TerminalStates
    BY <1>1 DEF IsActive, ActiveStates, TerminalStates
  <2>2. CASE IsActive(rt'[j]) /\ rt'[j].released = rt[j].released
    BY <2>1, <2>2 DEF ReleasesInOrder, IsActive, ActiveStates
  <2>3. CASE rt'[j] = Cancelled(rt[j])
    <3>1. rt'[j].state = "CANCELLED"
      BY <1>0, <1>1, <2>3, CancelledType DEF IsActive, ActiveStates
    <3>2. QED
      BY <2>1, <3>1 DEF ReleasesInOrder
  <2>4. ASSUME NEW s \in Detectors, ReportClearance(s), Releases(rt[j], s, Lowered(s)),
               rt'[j] = OnClearance(rt[j], s, Lowered(s))
        PROVE  ReleasesInOrder(j)
    <3>1. rt'[j].released = rt[j].released + 1
      BY <1>0, <2>4, OnClearanceType
    <3>2. ASSUME rt'[j].state = "RELEASED"
          PROVE  /\ ~Occupied(sec', PathSet(rt[j].plan))
                 /\ rt[j].state \in {"TRAIN_IN_ROUTE", "RELEASING"}
      <4>1. ReleasesLast(rt[j], s, Lowered(s))
        BY <1>0, <2>4, <3>2, OnClearanceType
      <4>2. ~Occupied(Lowered(s), PathSet(rt[j].plan))
        BY <4>1 DEF ReleasesLast, Releases
      <4>3. /\ Lowered(s) \in [Sections -> SectionRecord]
            /\ PathSet(rt[j].plan) \subseteq Sections
        <5>1. rt[j].plan \in Plans
          BY <1>0, <1>1, ActiveFacts
        <5>2. sec \in [Sections -> SectionRecord] /\ s \in Sections
          BY <1>0, BoundsAssumption DEF TypeOK
        <5>3. Lowered(s) \in [Sections -> SectionRecord]
          BY <5>2 DEF Lowered, SectionRecord
        <5>4. QED
          BY <5>1, <5>3, PlanFacts
      <4>4. PICK S : sec' = LockSections(Lowered(s), S, NoRoute)
        BY <2>4 DEF ReportClearance
      <4>5. ~Occupied(sec', PathSet(rt[j].plan))
        BY <1>0, <4>2, <4>3, <4>4, LockSectionsFields DEF Occupied
      <4>6. rt[j].state # "CANCEL_PENDING"
        <5>1. SUFFICES ASSUME rt[j].state = "CANCEL_PENDING" PROVE FALSE
          OBVIOUS
        <5>2. rt'[j].state = "CANCELLED"
          BY <1>0, <2>4, <4>1, <5>1 DEF OnClearance, ReleasesLast, RouteRecord
        <5>3. QED
          BY <3>2, <5>2
      <4>7. QED
        BY <2>4, <4>5, <4>6 DEF Releases
    <3>3. QED
      BY <2>1, <3>1, <3>2 DEF ReleasesInOrder
  <2>5. QED
    BY <1>1, <2>2, <2>3, <2>4, ActiveFate
<1>2. CASE ~IsActive(rt[j])
  <2>1. CASE rt'[j] = rt[j]
    BY <2>1 DEF ReleasesInOrder
  <2>2. ASSUME rt[j].state = "NONE", NEW k \in Plans, StartMoves(j, k) \/ ClearAtOnce(j, k)
        PROVE  ReleasesInOrder(j)
    <3>1. PICK st \in {"POINTS_MOVING", "LOCKED"} : rt' = [rt EXCEPT ![j] = NewRoute(k, st, clock)]
      BY <2>2, Granted
    <3>2. rt'[j].released = 0 /\ rt'[j].state = st
      BY <3>1 DEF NewRoute, TypeOK
    <3>3. rt[j].released = 0
      BY <2>2 DEF UnusedIsBlank
    <3>4. QED
      BY <2>2, <3>2, <3>3 DEF ReleasesInOrder, TerminalStates
  <2>3. QED
    BY <1>2, <2>1, <2>2, InactiveFate
<1>3. QED
  BY <1>1, <1>2

\* A route is given back behind its train, one section a step, and has ended
\* for good when it has ended.
THEOREM ReleasedInOrder == Spec => ReleaseInOrder
<1>1. Init => TypeOK /\ UnusedIsBlank
  <2>1. NoneRoute.released = 0
    BY DEF NoneRoute
  <2>2. Init => \A i \in RouteIds : rt[i] = NoneRoute
    BY DEF Init
  <2>3. QED
    BY <2>1, <2>2, InitType DEF UnusedIsBlank
<1>2. TypeOK /\ UnusedIsBlank /\ [Next]_vars => (TypeOK /\ UnusedIsBlank)'
  BY NextType, UnusedStep
<1>3. TypeOK /\ UnusedIsBlank /\ [Next]_vars => [\A i \in RouteIds : ReleasesInOrder(i)]_vars
  BY OrderStep
<1>4. [][\A i \in RouteIds : ReleasesInOrder(i)]_vars => ReleaseInOrder
  BY PTL DEF ReleaseInOrder, ReleasesInOrder
<1>5. QED
  BY <1>1, <1>2, <1>3, <1>4, PTL DEF Spec

-----------------------------------------------------------------------------
(* Ownership of sections *)

\* A section an active route has not released is on its path.
LEMMA UnreleasedOnPath ==
    ASSUME TypeOK, NEW j \in RouteIds, IsActive(rt[j])
    PROVE  Unreleased(rt[j]) \subseteq PathSet(rt[j].plan) /\ Unreleased(rt[j]) \subseteq Sections
<1>1. rt[j].plan \in Plans /\ rt[j].released \in Nat
  BY ActiveFacts DEF RouteRecord
<1>2. QED
  BY <1>1, PlanFacts DEF Unreleased, PathSet

\* A step only shortens what a route that stays active has not released, and
\* takes the section a clearance released out of it.
LEMMA UnreleasedShrinks ==
    ASSUME TypeOK, [Next]_vars, NEW j \in RouteIds, IsActive(rt[j]), IsActive(rt'[j])
    PROVE  /\ Unreleased(rt'[j]) \subseteq Unreleased(rt[j])
           /\ \A s \in Detectors : ReportClearance(s) /\ Releases(rt[j], s, Lowered(s))
                => s \notin Unreleased(rt'[j])
<1>0. rt[j] \in RouteRecord /\ RouteInBounds(rt[j])
  BY DEF TypeOK
<1>1. rt[j].plan \in Plans /\ Len(Path(rt[j].plan)) \in Nat /\ rt[j].released \in Nat
  BY ActiveFacts, PlanFacts DEF RouteRecord
<1>2. ASSUME NEW s \in Detectors, ReportClearance(s), Releases(rt[j], s, Lowered(s))
      PROVE  /\ Unreleased(rt'[j]) \subseteq Unreleased(rt[j])
             /\ s \notin Unreleased(rt'[j])
  <2>1. /\ rt'[j] = OnClearance(rt[j], s, Lowered(s))
        /\ s = Path(rt[j].plan)[rt[j].released + 1]
        /\ rt[j].released + 1 \in 1..Len(Path(rt[j].plan))
    BY <1>1, <1>2 DEF ReportClearance, Releases
  <2>2. rt'[j].plan = rt[j].plan /\ rt'[j].released = rt[j].released + 1
    BY <1>0, <1>2, <2>1, OnClearanceType
  <2>3. Unreleased(rt'[j]) \subseteq Unreleased(rt[j])
    BY <1>1, <2>2 DEF Unreleased
  <2>4. \A m, n \in 1..Len(Path(rt[j].plan)) :
          Path(rt[j].plan)[m] = Path(rt[j].plan)[n] => m = n
    BY <1>1, ExpandAssumption
  <2>5. s \notin Unreleased(rt'[j])
    <3>1. SUFFICES ASSUME s \in Unreleased(rt'[j]) PROVE FALSE
      OBVIOUS
    <3>2. PICK m \in (rt[j].released + 1 + 1)..Len(Path(rt[j].plan)) : s = Path(rt[j].plan)[m]
      BY <2>2, <3>1 DEF Unreleased
    <3>3. m \in 1..Len(Path(rt[j].plan)) /\ m # rt[j].released + 1
      BY <1>1, <3>2
    <3>4. QED
      BY <2>1, <2>4, <3>2, <3>3
  <2>6. QED
    BY <2>3, <2>5
<1>3. rt'[j] # Cancelled(rt[j])
  BY <1>0, CancelledType DEF IsActive, ActiveStates
<1>4. QED
  BY <1>2, <1>3, ActiveFate DEF Unreleased

\* A cancelled route writes over the lock of s, which it does not hold: it had
\* released s before.
LEMMA StripsReleased ==
    ASSUME TypeOK, SectionsHeld, NEW c \in RouteIds, IsActive(rt[c]),
           rt'[c] = Cancelled(rt[c]),
           NEW s \in PathSet(rt[c].plan), sec[s].lock # c, sec'[s].lock # sec[s].lock
    PROVE  CancelStripsReleased
<1>1. rt[c].plan \in Plans /\ Len(Path(rt[c].plan)) \in Nat /\ rt[c].released \in Nat
  BY ActiveFacts, PlanFacts DEF RouteRecord
<1>2. PICK m \in 1..Len(Path(rt[c].plan)) : s = Path(rt[c].plan)[m]
  BY DEF PathSet
<1>3. s \notin Unreleased(rt[c])
  BY DEF SectionsHeld
<1>4. m \in 1..rt[c].released
  BY <1>1, <1>2, <1>3 DEF Unreleased
<1>5. rt[c].state # "CANCELLED" /\ rt'[c].state = "CANCELLED"
  BY CancelledType DEF TypeOK, IsActive, ActiveStates
<1>6. QED
  BY <1>2, <1>4, <1>5 DEF CancelStripsReleased

\* The lock of a section that stays with its route over the step.
LEMMA SectionsSpared ==
    ASSUME TypeOK, SectionsHeld, ~CancelStripsReleased, [Next]_vars,
           NEW j \in RouteIds, IsActive(rt[j]), IsActive(rt'[j]),
           NEW s \in Unreleased(rt'[j])
    PROVE  sec'[s].lock = j
<1>0. /\ s \in Unreleased(rt[j]) /\ s \in Sections /\ sec[s].lock = j
      /\ sec \in [Sections -> SectionRecord] /\ NoRoute \in Ids /\ j # NoRoute
      /\ \A i \in RouteIds : rt[i] \in RouteRecord /\ RouteInBounds(rt[i])
  BY UnreleasedShrinks, UnreleasedOnPath, LayoutAssumption DEF SectionsHeld, TypeOK
<1>1. ASSUME NEW i \in RouteIds, NEW k \in Plans, RequestRoute(i, k)
      PROVE  sec'[s].lock = j
  <2>1. Accepted(i, k) /\ \E h \in Ids : sec' = LockSections(sec, PathSet(k), h)
    BY <1>0, <1>1, TurnedDown, Granted DEF RequestRoute
  <2>2. HeldByActive(sec[s], rt)
    BY <1>0 DEF HeldByActive
  <2>3. s \notin PathSet(k)
    BY <2>1, <2>2, AcceptedFacts
  <2>4. QED
    BY <1>0, <2>1, <2>3, LockSectionsFields
<1>2. ASSUME NEW t \in Detectors, ReportOccupancy(t)
      PROVE  sec'[s].lock = j
  BY <1>0, <1>2 DEF ReportOccupancy, SectionRecord
<1>3. ASSUME NEW t \in Detectors, ReportClearance(t)
      PROVE  sec'[s].lock = j
  <2> DEFINE freed == {i \in RouteIds : Releases(rt[i], t, Lowered(t))}
  <2>1. /\ Lowered(t) \in [Sections -> SectionRecord]
        /\ Lowered(t)[s].lock = sec[s].lock
    BY <1>0, BoundsAssumption DEF Lowered, SectionRecord
  <2>2. sec' = LockSections(Lowered(t), IF freed = {} THEN {} ELSE {t}, NoRoute)
    BY <1>3 DEF ReportClearance
  <2>3. ASSUME NEW c \in freed PROVE s # t
    <3>1. IsActive(rt[c]) /\ t \in Unreleased(rt[c])
      <4>1. IsActive(rt[c])
        BY DEF Releases, IsActive, ActiveStates
      <4>2. rt[c].plan \in Plans /\ Len(Path(rt[c].plan)) \in Nat /\ rt[c].released \in Nat
        BY <4>1, ActiveFacts, PlanFacts DEF RouteRecord
      <4>3. QED
        BY <4>1, <4>2 DEF Releases, Unreleased
    <3>2. sec[t].lock = c
      BY <3>1 DEF SectionsHeld
    <3>3. s = t => c = j
      BY <1>0, <3>2
    <3>4. QED
      BY <1>3, <3>3, UnreleasedShrinks
  <2> HIDE DEF freed
  <2>4. QED
    BY <1>0, <2>1, <2>2, <2>3, LockSectionsFields
<1>4. ASSUME NEW c \in RouteIds, CancelRoute(c)
      PROVE  sec'[s].lock = j
  <2>1. CASE CancelsAtOnce(rt[c], sec)
    <3>1. /\ IsActive(rt[c]) /\ rt'[c] = Cancelled(rt[c])
          /\ sec' = LockSections(sec, PathSet(rt[c].plan), NoRoute)
      BY <1>4, <2>1 DEF CancelRoute, TypeOK
    <3>2. c # j
      BY <1>0, <3>1, CancelledType DEF IsActive, ActiveStates
    <3>3. s \notin PathSet(rt[c].plan)
      <4>1. SUFFICES ASSUME s \in PathSet(rt[c].plan) PROVE FALSE
        OBVIOUS
      <4>2. sec'[s].lock = NoRoute
        BY <1>0, <3>1, <4>1, LockSectionsFields
      <4>3. QED
        BY <1>0, <3>1, <3>2, <4>1, <4>2, StripsReleased
    <3>4. QED
      BY <1>0, <3>1, <3>3, LockSectionsFields
  <2>2. CASE ~CancelsAtOnce(rt[c], sec)
    BY <1>0, <1>4, <2>2 DEF CancelRoute
  <2>3. QED
    BY <2>1, <2>2
<1>5. ASSUME NEW delta \in Deltas, AdvanceClock(delta)
      PROVE  sec'[s].lock = j
  <2> DEFINE now == clock + delta
             npt == Detections(now)
             S == UNION {PathSet(rt[i].plan) : i \in Due(now)}
  <2>1. PICK pick \in Picks(npt) :
          rt' = [i \in RouteIds |->
                   IF i \in Winners(npt, pick)
                   THEN [rt[i] EXCEPT !.state = "LOCKED", !.timed = now > 0]
                   ELSE IF i \in Due(now) THEN Cancelled(rt[i]) ELSE rt[i]]
    BY <1>5 DEF AdvanceClock
  <2>2. sec' = LockSections(sec, S, NoRoute)
    BY <1>5 DEF AdvanceClock
  <2>3. ASSUME NEW c \in Due(now), s \in PathSet(rt[c].plan)
        PROVE  FALSE
    <3>1. c \in RouteIds /\ IsActive(rt[c]) /\ rt[c].state = "CANCEL_PENDING"
      BY DEF Due, BackstopDue, IsActive, ActiveStates
    <3>2. rt'[c] = Cancelled(rt[c])
      BY <2>1, <3>1 DEF Winners, Openable
    <3>3. c # j
      BY <1>0, <3>1, <3>2, CancelledType DEF IsActive, ActiveStates
    <3>4. s \in S
      BY <2>3
    <3> HIDE DEF S
    <3>5. sec'[s].lock = NoRoute
      BY <1>0, <2>2, <3>4, LockSectionsFields
    <3>6. QED
      BY <1>0, <2>3, <3>1, <3>2, <3>3, <3>5, StripsReleased
  <2>4. s \notin S
    BY <2>3
  <2> HIDE DEF S
  <2>5. QED
    BY <1>0, <2>2, <2>4, LockSectionsFields
<1>6. (\/ \E g \in Signals : SetSignalRed(g)
       \/ \E p \in Points, dir \in OperatorDirs : OperatePoint(p, dir)
       \/ \E p \in Points, on \in BOOLEAN : BypassPoint(p, on)
       \/ UNCHANGED vars) => UNCHANGED sec
  BY DEF SetSignalRed, OperatePoint, BypassPoint, vars
<1>7. QED
  BY <1>0, <1>1, <1>2, <1>3, <1>4, <1>5, <1>6 DEF Next

LEMMA SectionsHeldStep ==
    TypeOK /\ [Next]_vars /\ SectionsHeld /\ ~CancelStripsReleased => SectionsHeld'
<1> SUFFICES ASSUME TypeOK, [Next]_vars, SectionsHeld, ~CancelStripsReleased,
                    NEW j \in RouteIds, IsActive(rt'[j]),
                    NEW s \in Unreleased(rt'[j])
             PROVE  sec'[s].lock = j
  BY DEF SectionsHeld, IsActive, Unreleased
<1>1. CASE IsActive(rt[j])
  BY <1>1, SectionsSpared
<1>2. CASE ~IsActive(rt[j])
  <2>1. PICK k \in Plans : StartMoves(j, k) \/ ClearAtOnce(j, k)
    BY <1>2, NewlyActive
  <2>2. s \in PathSet(k) /\ s \in Sections
    BY <2>1, GrantedHolds, PlanFacts
  <2>3. sec' = LockSections(sec, PathSet(k), j)
    BY <2>1, Granted
  <2>4. QED
    BY <2>2, <2>3, LockSectionsFields DEF TypeOK
<1>3. QED
  BY <1>1, <1>2

\* Exclusive ownership of sections breaks in one way only: a cancelled route
\* takes a section it had already released from the route that holds it now.
THEOREM OnlyCancelTakesSections == Spec => SectionsLostOnlyToCancel
<1>1. TypeOK /\ [Next]_vars =>
        [SectionsHeld /\ ~CancelStripsReleased => SectionsHeld']_vars
  BY SectionsHeldStep
<1>2. QED
  BY <1>1, TypeCorrect, PTL DEF Spec, SectionsLostOnlyToCancel

-----------------------------------------------------------------------------
(* Signals *)

\* The route a proceed aspect of g belongs to.
Backed(g) ==
    LET r == rt[sig[g].route] IN
    /\ sig[g].route # NoRoute
    /\ r.state \in {"LOCKED", "TRAIN_COMING"}
    /\ Origin(r.plan) = g
    /\ sec[Guard[g]].occ = 0
    /\ sig[g].aspect = ClearAspect(r.plan)

\* What is inductive in SignalBacked; the rest is RouteLaid.
SignalOwned == \A g \in Signals : sig[g].aspect # "RED" => Backed(g)

LEMMA BackedFacts ==
    ASSUME TypeOK, SignalOwned, NEW g \in Signals, sig[g].aspect # "RED"
    PROVE  /\ Backed(g)
           /\ sig[g].route \in RouteIds
           /\ IsActive(rt[sig[g].route])
           /\ rt[sig[g].route].plan \in Plans
           /\ First(rt[sig[g].route].plan) = Guard[g]
           /\ Guard[g] \in Sections
<1>1. Backed(g) /\ sig[g].route \in RouteIds
  BY DEF SignalOwned, Backed, TypeOK, SignalRecord
<1>2. IsActive(rt[sig[g].route])
  BY <1>1 DEF Backed, IsActive, ActiveStates
<1>3. rt[sig[g].route].plan \in Plans
  BY <1>1, <1>2, ActiveFacts
<1>4. QED
  BY <1>1, <1>2, <1>3, PlanFacts DEF Backed

\* A signal a step does not touch stays backed when its route keeps plan and
\* state and no train comes into its section.
LEMMA BackedStays ==
    ASSUME NEW g \in Signals, Backed(g), sig'[g] = sig[g],
           rt'[sig[g].route] = rt[sig[g].route], sec'[Guard[g]].occ = 0
    PROVE  Backed(g)'
BY DEF Backed

LEMMA BackedStep ==
    ASSUME TypeOK, SignalOwned, [Next]_vars, NEW g \in Signals, sig'[g].aspect # "RED"
    PROVE  Backed(g)'
<1>0. /\ sec \in [Sections -> SectionRecord] /\ sig \in [Signals -> SignalRecord]
      /\ rt \in [RouteIds -> RouteRecord] /\ NoRoute \in Ids
      /\ \A i \in RouteIds : rt[i] \in RouteRecord /\ RouteInBounds(rt[i])
  BY DEF TypeOK
<1> DEFINE i == sig[g].route
<1>1. ASSUME NEW j \in RouteIds, NEW k \in Plans, RequestRoute(j, k)
      PROVE  Backed(g)'
  <2>1. Accepted(j, k) /\ \E h \in Ids : sec' = LockSections(sec, PathSet(k), h)
    BY <1>0, <1>1, TurnedDown, Granted DEF RequestRoute
  <2>2. \A s \in Sections : sec'[s].occ = sec[s].occ
    BY <1>0, <2>1, LockSectionsFields
  <2>3. CASE sig'[g] = sig[g]
    <3>1. Backed(g) /\ i \in RouteIds /\ IsActive(rt[i]) /\ Guard[g] \in Sections
      BY <2>3, BackedFacts
    <3>2. rt[j].state = "NONE"
      BY <2>1 DEF Accepted
    <3>3. rt'[i] = rt[i]
      <4>1. i # j
        BY <3>1, <3>2 DEF IsActive, ActiveStates
      <4>2. rt' = rt \/ \E st : rt' = [rt EXCEPT ![j] = NewRoute(k, st, clock)]
        BY <1>1, TurnedDown, Granted DEF RequestRoute
      <4>3. QED
        BY <1>0, <3>1, <4>1, <4>2
    <3>4. QED
      BY <2>2, <2>3, <3>1, <3>3, BackedStays DEF Backed
  <2>4. CASE sig'[g] # sig[g]
    <3>1. ClearAtOnce(j, k)
      BY <1>1, <2>4 DEF RequestRoute, SetupFails, StartMoves, ClearRefused
    <3>2. /\ sig' = [sig EXCEPT ![Origin(k)] = [aspect |-> ClearAspect(k), route |-> j]]
          /\ rt' = [rt EXCEPT ![j] = NewRoute(k, "LOCKED", clock)]
      BY <3>1 DEF ClearAtOnce
    <3>3. /\ g = Origin(k) /\ Guard[g] = First(k) /\ First(k) \in PathSet(k)
          /\ First(k) \in Sections
      BY <1>0, <2>4, <3>2, PlanFacts
    <3>4. sec'[Guard[g]].occ = 0
      BY <2>1, <2>2, <3>3, AcceptedFacts
    <3>5. rt'[j].state = "LOCKED" /\ rt'[j].plan = k
      BY <1>0, <3>2 DEF NewRoute
    <3>6. sig'[g].route = j /\ sig'[g].aspect = ClearAspect(k) /\ j # NoRoute
      BY <1>0, <3>2, <3>3, LayoutAssumption
    <3>7. QED
      BY <3>3, <3>4, <3>5, <3>6 DEF Backed
  <2>5. QED
    BY <2>3, <2>4
<1>2. ASSUME NEW s \in Detectors, ReportOccupancy(s)
      PROVE  Backed(g)'
  <2>1. /\ sig' = [h \in Signals |-> IF h \in Dropped(s) THEN RedSignal(sig[h]) ELSE sig[h]]
        /\ rt' = [j \in RouteIds |-> IF IsActive(rt[j]) THEN OnOccupancy(rt[j], s) ELSE rt[j]]
        /\ sec' = [sec EXCEPT ![s].occ = @ + 1]
    BY <1>2 DEF ReportOccupancy
  <2>2. g \notin Dropped(s) /\ sig'[g] = sig[g]
    BY <1>0, <2>1 DEF RedSignal, SignalRecord
  <2>3. /\ Backed(g) /\ i \in RouteIds /\ IsActive(rt[i])
        /\ First(rt[i].plan) = Guard[g] /\ Guard[g] \in Sections
    BY <2>2, BackedFacts
  <2>4. s # Guard[g]
    BY <2>2, <2>3 DEF Dropped, Backed
  <2>5. rt'[i] = OnOccupancy(rt[i], s)
    BY <2>1, <2>3
  <2>6. /\ rt'[i].plan = rt[i].plan
        /\ rt'[i].state \in {"LOCKED", "TRAIN_COMING"}
    BY <1>0, <2>3, <2>4, <2>5, OnOccupancyType DEF Backed
  <2>7. sec'[Guard[g]].occ = 0
    BY <1>0, <2>1, <2>3, <2>4 DEF Backed
  <2>8. QED
    BY <2>2, <2>3, <2>6, <2>7 DEF Backed
<1>3. ASSUME NEW s \in Detectors, ReportClearance(s)
      PROVE  Backed(g)'
  <2>1. sig' = sig
    BY <1>3 DEF ReportClearance
  <2>2. Backed(g) /\ i \in RouteIds /\ Guard[g] \in Sections
    BY <2>1, BackedFacts
  <2>3. rt'[i] = rt[i]
    BY <1>3, <2>2 DEF ReportClearance, OnClearance, Releases, Backed
  <2>4. /\ Lowered(s) \in [Sections -> SectionRecord]
        /\ Lowered(s)[Guard[g]].occ = 0
    BY <1>0, <2>2, BoundsAssumption DEF Lowered, SectionRecord, Backed
  <2>5. PICK S : sec' = LockSections(Lowered(s), S, NoRoute)
    BY <1>3 DEF ReportClearance
  <2>6. sec'[Guard[g]].occ = 0
    BY <1>0, <2>2, <2>4, <2>5, LockSectionsFields
  <2>7. QED
    BY <2>1, <2>2, <2>3, <2>6, BackedStays
<1>4. ASSUME NEW c \in RouteIds, CancelRoute(c)
      PROVE  Backed(g)'
  <2>1. sig' = [sig EXCEPT ![Origin(rt[c].plan)] = [aspect |-> "RED", route |-> NoRoute]]
    BY <1>4 DEF CancelRoute
  <2>2. g # Origin(rt[c].plan) /\ sig'[g] = sig[g]
    BY <1>0, <2>1
  <2>3. Backed(g) /\ i \in RouteIds /\ Guard[g] \in Sections
    BY <2>2, BackedFacts
  <2>4. c # i
    BY <2>2, <2>3 DEF Backed
  <2>5. rt'[i] = rt[i]
    BY <1>0, <1>4, <2>3, <2>4 DEF CancelRoute
  <2>6. sec' = sec \/ sec' = LockSections(sec, PathSet(rt[c].plan), NoRoute)
    BY <1>4 DEF CancelRoute
  <2>7. sec'[Guard[g]].occ = 0
    BY <1>0, <2>3, <2>6, LockSectionsFields DEF Backed
  <2>8. QED
    BY <2>2, <2>3, <2>5, <2>7, BackedStays
<1>5. ASSUME NEW h \in Signals, SetSignalRed(h)
      PROVE  Backed(g)'
  <2>1. sig' = [sig EXCEPT ![h] = RedSignal(sig[h])] /\ UNCHANGED <<sec, rt>>
    BY <1>5 DEF SetSignalRed
  <2>2. sig'[g] = sig[g]
    BY <1>0, <2>1 DEF RedSignal, SignalRecord
  <2>3. Backed(g) /\ i \in RouteIds
    BY <2>2, BackedFacts
  <2>4. QED
    BY <2>1, <2>2, <2>3, BackedStays DEF Backed
<1>6. ASSUME NEW delta \in Deltas, AdvanceClock(delta)
      PROVE  Backed(g)'
  <2> DEFINE now == clock + delta
             npt == Detections(now)
             S == UNION {PathSet(rt[j].plan) : j \in Due(now)}
  <2>1. PICK pick \in Picks(npt) :
          /\ sig' = [h \in Signals |->
                       IF pick[h] = NoRoute THEN sig[h]
                       ELSE [aspect |-> ClearAspect(rt[pick[h]].plan), route |-> pick[h]]]
          /\ rt' = [j \in RouteIds |->
                      IF j \in Winners(npt, pick)
                      THEN [rt[j] EXCEPT !.state = "LOCKED", !.timed = now > 0]
                      ELSE IF j \in Due(now) THEN Cancelled(rt[j]) ELSE rt[j]]
    BY <1>6 DEF AdvanceClock
  <2>2. sec' = LockSections(sec, S, NoRoute)
    BY <1>6 DEF AdvanceClock
  <2> HIDE DEF S
  <2>3. \A s \in Sections : sec'[s].occ = sec[s].occ
    BY <1>0, <2>2, LockSectionsFields
  <2>4. CASE pick[g] = NoRoute
    <3>1. sig'[g] = sig[g]
      BY <2>1, <2>4
    <3>2. Backed(g) /\ i \in RouteIds /\ Guard[g] \in Sections
      BY <3>1, BackedFacts
    <3>3. i \notin Winners(npt, pick) /\ i \notin Due(now)
      BY <3>2 DEF Winners, Openable, Due, BackstopDue, Backed
    <3>4. rt'[i] = rt[i]
      BY <2>1, <3>2, <3>3
    <3>5. QED
      BY <2>3, <3>1, <3>2, <3>4, BackedStays DEF Backed
  <2>5. CASE pick[g] # NoRoute
    <3> DEFINE w == pick[g]
    <3>1. w \in Openable(npt) /\ Origin(rt[w].plan) = g
      BY <2>5 DEF Picks
    <3>2. w \in RouteIds /\ w \in Winners(npt, pick) /\ rt[w].state = "POINTS_MOVING"
      BY <2>5, <3>1 DEF Winners, Openable
    <3>3. rt'[w] = [rt[w] EXCEPT !.state = "LOCKED", !.timed = now > 0]
      BY <2>1, <3>2
    <3>4. rt'[w].state = "LOCKED" /\ rt'[w].plan = rt[w].plan
      BY <1>0, <3>2, <3>3 DEF RouteRecord
    <3>5. rt[w].plan \in Plans
      BY <1>0, <3>2 DEF RouteInBounds
    <3>6. sec[Guard[g]].occ = 0 /\ Guard[g] \in Sections
      BY <3>1, <3>5, PlanFacts DEF Openable, CanClear, ElementsReady
    <3>7. sig'[g].route = w /\ sig'[g].aspect = ClearAspect(rt[w].plan)
      BY <2>1, <2>5
    <3>8. QED
      BY <2>3, <2>5, <3>1, <3>4, <3>6, <3>7 DEF Backed
  <2>6. QED
    BY <2>4, <2>5
<1>7. ((\E p \in Points, dir \in OperatorDirs : OperatePoint(p, dir))
       \/ (\E p \in Points, on \in BOOLEAN : BypassPoint(p, on))
       \/ UNCHANGED vars) => Backed(g)'
  <2>1. ((\E p \in Points, dir \in OperatorDirs : OperatePoint(p, dir))
         \/ (\E p \in Points, on \in BOOLEAN : BypassPoint(p, on))
         \/ UNCHANGED vars) => UNCHANGED <<sec, sig, rt>>
    BY DEF OperatePoint, BypassPoint, vars
  <2>2. QED
    BY <2>1, BackedFacts, BackedStays DEF Backed
<1>8. QED
  BY <1>1, <1>2, <1>3, <1>4, <1>5, <1>6, <1>7 DEF Next

LEMMA SignalOwnedStep == TypeOK /\ SignalOwned /\ [Next]_vars => SignalOwned'
<1>1. ASSUME TypeOK, SignalOwned, [Next]_vars
      PROVE  \A g \in Signals : sig'[g].aspect # "RED" => Backed(g)'
  BY <1>1, BackedStep
<1>2. (\A g \in Signals : sig[g].aspect # "RED" => Backed(g))' => SignalOwned'
  BY DEF SignalOwned, Backed
<1>3. QED
  BY <1>1, <1>2

LEMMA SignalsStartRed == Init => \A g \in Signals : sig[g].aspect = "RED"
<1> SUFFICES ASSUME Init, NEW g \in Signals PROVE sig[g].aspect = "RED"
  OBVIOUS
<1>1. sig[g] = [aspect |-> "RED", route |-> NoRoute]
  BY DEF Init
<1>2. QED
  BY <1>1

\* A proceed aspect always belongs to a route that is locked for it, over detected
\* switches and a free first section, and tells straight from diverging.
THEOREM SignalsAreBacked == Spec => []SignalBacked
<1>1. Init => TypeOK /\ SignalOwned
  BY InitType, SignalsStartRed DEF SignalOwned
<1>2. TypeOK /\ SignalOwned /\ [Next]_vars => (TypeOK /\ SignalOwned)'
  BY NextType, SignalOwnedStep
<1>3. SignalOwned /\ RouteLaid /\ TypeOK => SignalBacked
  <2> SUFFICES ASSUME SignalOwned, RouteLaid, TypeOK, NEW g \in Signals, sig[g].aspect # "RED"
               PROVE  /\ Backed(g)
                      /\ \A q \in Reqs(rt[sig[g].route].plan) : AtTarget(pt[q.point], q.dir)
    BY DEF SignalBacked, Backed
  <2>1. Backed(g) /\ sig[g].route \in RouteIds
    BY BackedFacts
  <2>2. rt[sig[g].route].state \in LaidStates
    BY <2>1 DEF Backed, LaidStates
  <2>3. QED
    BY <2>1, <2>2 DEF RouteLaid
<1>4. QED
  BY <1>1, <1>2, <1>3, RoutesStayLaid, PTL DEF Spec

-----------------------------------------------------------------------------

\* A signal turns to a proceed aspect only for a route that could be cleared;
\* then no other signal of its section was bound to another route.
LEMMA NewlyClear ==
    ASSUME TypeOK, [Next]_vars, NEW g \in Signals,
           sig'[g].aspect # "RED", sig'[g] # sig[g]
    PROVE  /\ sig'[g].route \in RouteIds
           /\ rt[sig'[g].route].state \in {"NONE", "POINTS_MOVING"}
           /\ \A h \in Signals : h # g /\ Guard[h] = Guard[g] /\ sig'[h].aspect # "RED" =>
                sig'[h] = sig[h] /\ sig[h].route \in {NoRoute, sig'[g].route}
<1> DEFINE Claim == /\ sig'[g].route \in RouteIds
                   /\ rt[sig'[g].route].state \in {"NONE", "POINTS_MOVING"}
                   /\ \A h \in Signals : h # g /\ Guard[h] = Guard[g] /\ sig'[h].aspect # "RED" =>
                        sig'[h] = sig[h] /\ sig[h].route \in {NoRoute, sig'[g].route}
<1>0. sig \in [Signals -> SignalRecord] /\ \A i \in RouteIds : RouteInBounds(rt[i])
  BY DEF TypeOK
<1>1. ASSUME NEW j \in RouteIds, NEW k \in Plans, RequestRoute(j, k)
      PROVE  Claim
  <2>1. ClearAtOnce(j, k)
    BY <1>1 DEF RequestRoute, SetupFails, StartMoves, ClearRefused
  <2>2. /\ sig' = [sig EXCEPT ![Origin(k)] = [aspect |-> ClearAspect(k), route |-> j]]
        /\ CanClear(k, j, sec', pt', sig)
        /\ rt[j].state = "NONE"
    BY <2>1 DEF ClearAtOnce, Laid, Accepted
  <2>3. g = Origin(k) /\ Guard[g] = First(k) /\ sig'[g].route = j
    BY <1>0, <2>2, PlanFacts
  <2>4. \A h \in Signals : h # g /\ Guard[h] = Guard[g] =>
          sig'[h] = sig[h] /\ sig[h].route \in {NoRoute, j}
    BY <1>0, <2>2, <2>3 DEF CanClear, OpposingSignal
  <2>5. QED
    BY <2>2, <2>3, <2>4
<1>2. ASSUME NEW delta \in Deltas, AdvanceClock(delta)
      PROVE  Claim
  <2> DEFINE npt == Detections(clock + delta)
  <2>1. PICK pick \in Picks(npt) :
          sig' = [h \in Signals |->
                    IF pick[h] = NoRoute THEN sig[h]
                    ELSE [aspect |-> ClearAspect(rt[pick[h]].plan), route |-> pick[h]]]
    BY <1>2 DEF AdvanceClock
  <2> DEFINE w == pick[g]
  <2>2. w # NoRoute /\ sig'[g].route = w
    BY <2>1
  <2>3. w \in Openable(npt) /\ Origin(rt[w].plan) = g
    BY <2>2 DEF Picks
  <2>4. /\ w \in RouteIds /\ rt[w].state = "POINTS_MOVING"
        /\ ~OpposingSignal(rt[w].plan, w, sig)
    BY <2>3 DEF Openable, CanClear
  <2>5. First(rt[w].plan) = Guard[g]
    BY <1>0, <2>3, <2>4, PlanFacts DEF RouteInBounds
  <2>6. ASSUME NEW h \in Signals, h # g, Guard[h] = Guard[g]
        PROVE  sig'[h] = sig[h] /\ sig[h].route \in {NoRoute, w}
    <3>1. pick[h] = NoRoute
      BY <2>2, <2>6 DEF Picks
    <3>2. QED
      BY <2>1, <2>3, <2>4, <2>5, <2>6, <3>1 DEF OpposingSignal
  <2>7. QED
    BY <2>2, <2>4, <2>6
<1>3. ASSUME NEW s \in Detectors, ReportOccupancy(s) PROVE FALSE
  BY <1>0, <1>3 DEF ReportOccupancy, RedSignal, SignalRecord
<1>4. ASSUME NEW c \in RouteIds, CancelRoute(c) PROVE FALSE
  BY <1>0, <1>4 DEF CancelRoute
<1>5. ASSUME NEW h \in Signals, SetSignalRed(h) PROVE FALSE
  BY <1>0, <1>5 DEF SetSignalRed, RedSignal, SignalRecord
<1>6. (\/ \E s \in Detectors : ReportClearance(s)
       \/ \E p \in Points, dir \in OperatorDirs : OperatePoint(p, dir)
       \/ \E p \in Points, on \in BOOLEAN : BypassPoint(p, on)
       \/ UNCHANGED vars) => UNCHANGED sig
  BY DEF ReportClearance, OperatePoint, BypassPoint, vars
<1>7. QED
  BY <1>1, <1>2, <1>3, <1>4, <1>5, <1>6 DEF Next

\* A signal that becomes clear finds every other signal of its section red.
LEMMA ClearsAlone ==
    ASSUME TypeOK, SignalOwned, [Next]_vars,
           NEW g \in Signals, NEW h \in Signals, g # h, Guard[g] = Guard[h],
           sig'[g].aspect # "RED", sig'[g] # sig[g]
    PROVE  sig'[h].aspect = "RED"
<1>1. SUFFICES ASSUME sig'[h].aspect # "RED" PROVE FALSE
  OBVIOUS
<1>2. /\ rt[sig'[g].route].state \in {"NONE", "POINTS_MOVING"}
      /\ sig'[h] = sig[h] /\ sig[h].route \in {NoRoute, sig'[g].route}
  BY <1>1, NewlyClear
<1>3. Backed(h)
  BY <1>1, <1>2, BackedFacts
<1>4. QED
  BY <1>2, <1>3 DEF Backed

LEMMA OpposingStep ==
    TypeOK /\ SignalOwned /\ OpposingSignalsExclude /\ [Next]_vars => OpposingSignalsExclude'
<1> SUFFICES ASSUME TypeOK, SignalOwned, OpposingSignalsExclude, [Next]_vars,
                    NEW g \in Signals, NEW h \in Signals, g # h, Guard[g] = Guard[h],
                    sig'[g].aspect # "RED", sig'[h].aspect # "RED"
             PROVE  FALSE
  BY DEF OpposingSignalsExclude
<1>1. CASE sig'[g] # sig[g]
  BY <1>1, ClearsAlone
<1>2. CASE sig'[h] # sig[h]
  BY <1>2, ClearsAlone
<1>3. CASE sig'[g] = sig[g] /\ sig'[h] = sig[h]
  BY <1>3 DEF OpposingSignalsExclude
<1>4. QED
  BY <1>1, <1>2, <1>3

\* Two signals that lead into one section are never both clear, even after the
\* lock of the section was taken away.
THEOREM OpposingSignalsStayApart == Spec => []OpposingSignalsExclude
<1>1. Init => TypeOK /\ SignalOwned /\ OpposingSignalsExclude
  BY InitType, SignalsStartRed DEF SignalOwned, OpposingSignalsExclude
<1>2. TypeOK /\ SignalOwned /\ OpposingSignalsExclude /\ [Next]_vars =>
        (TypeOK /\ SignalOwned /\ OpposingSignalsExclude)'
  BY NextType, SignalOwnedStep, OpposingStep
<1>3. QED
  BY <1>1, <1>2, PTL DEF Spec
=============================================================================
