---------------------------- MODULE TrafficProofs ----------------------------
(***************************************************************************)
(* The trains: in any yard, with any number of trains and routes, a        *)
(* disciplined operator and obedient drivers, the interlocking keeps the   *)
(* trains apart, holds their authority and sets their switches.            *)
(***************************************************************************)
EXTENDS TrafficProperties, InterlockSections

USE DEF Ids

Journey == [track : Seq(Sections), rear : Nat, front : Nat, route : Ids]

Entered == {"TRAIN_IN_ROUTE", "RELEASING", "CANCEL_PENDING"}

\* A train under way is where its route has released up to.
OnItsWay(t) ==
    LET i == run[t].route
        k == rt[i].plan
    IN  /\ i \in RouteIds
        /\ rt[i].state \in Entered
        /\ run[t].track = <<Ahead[Origin(k)]>> \o Path(k)
        /\ Ahead[Origin(k)] \notin PathSet(k)
        /\ run[t].front \in 2..Len(run[t].track)
        /\ run[t].rear \in {run[t].front, run[t].front - 1}
        /\ rt[i].released = IF run[t].rear = 1 THEN 0 ELSE run[t].rear - 2

TrainsPlaced ==
    /\ run \in [Trains -> Journey]
    /\ \A t \in Trains :
         \/ run[t] = Elsewhere
         \/ \E g \in Signals : run[t] = Waiting(g)
         \/ OnItsWay(t)

OccIsTrains ==
    \A s \in Sections : sec[s].occ = IF \E t \in Trains : s \in On(t) THEN 1 ELSE 0

WayIsFree ==
    /\ \A t \in Trains : Running(t) =>
         \A j \in (run[t].front + 1)..Len(run[t].track) : sec[run[t].track[j]].occ = 0
    /\ \A i \in RouteIds : rt[i].state \in {"LOCKED", "TRAIN_COMING"} =>
         \A s \in PathSet(rt[i].plan) : sec[s].occ = 0

NotBegun ==
    \A i \in RouteIds :
        rt[i].state \in {"POINTS_MOVING", "LOCKED", "TRAIN_COMING"} => rt[i].released = 0

\* What a cancelled route will unlock is locked by nobody else.
PendingAlone ==
    \A c \in RouteIds : rt[c].state = "CANCEL_PENDING" =>
        \A s \in PathSet(rt[c].plan) : sec[s].lock \in {NoRoute, c}

\* The points of a train under way are detected, cancelled or not.
RunLaid ==
    \A t \in Trains : Running(t) =>
        \A q \in Reqs(rt[run[t].route].plan) : AtTarget(pt[q.point], q.dir)

EngineInv == PointInv /\ NoStaleLock /\ SignalOwned

TrafficInv ==
    /\ TrainsPlaced /\ OccIsTrains /\ NoCollision /\ WayIsFree
    /\ NotBegun /\ SectionsHeld /\ PendingAlone /\ RunLaid

-----------------------------------------------------------------------------
(* Where a train is *)

LEMMA RunFacts ==
    ASSUME TypeOK, TrainsPlaced, NEW t \in Trains, Running(t)
    PROVE  LET i == run[t].route
               k == rt[i].plan
           IN  /\ OnItsWay(t)
               /\ i \in RouteIds /\ k \in Plans /\ IsActive(rt[i])
               /\ Len(run[t].track) = Len(Path(k)) + 1
               /\ \A j \in 2..Len(run[t].track) : run[t].track[j] = Path(k)[j - 1]
               /\ run[t].track[1] = Ahead[Origin(k)]
               /\ On(t) = {run[t].track[run[t].rear], run[t].track[run[t].front]}
               /\ rt[i].released + 1 \in 1..Len(Path(k))
               /\ Path(k)[rt[i].released + 1] \in On(t)
               /\ \A j \in (run[t].front + 1)..Len(run[t].track) :
                    run[t].track[j] \in Unreleased(rt[i])
<1> DEFINE i == run[t].route
           k == rt[i].plan
<1>1. OnItsWay(t)
  BY DEF TrainsPlaced, Running, Elsewhere, Waiting
<1>2. i \in RouteIds /\ IsActive(rt[i]) /\ rt[i].state \in Entered
  BY <1>1 DEF OnItsWay, Entered, IsActive, ActiveStates
<1>3. k \in Plans
  BY <1>2, ActiveFacts
<1>4. Path(k) \in Seq(Sections) /\ Len(Path(k)) \in Nat \ {0}
  BY <1>3, PlanFacts
<1>5. run[t].track = <<Ahead[Origin(k)]>> \o Path(k)
  BY <1>1 DEF OnItsWay
<1>6. Ahead[Origin(k)] \in Sections
  BY <1>3, PlanFacts, TrafficAssumption
<1>7. /\ Len(run[t].track) = Len(Path(k)) + 1
      /\ \A j \in 2..Len(run[t].track) : run[t].track[j] = Path(k)[j - 1]
      /\ run[t].track[1] = Ahead[Origin(k)]
  <2> DEFINE P == Path(k)
             a == Ahead[Origin(k)]
  <2>1. P \in Seq(Sections) /\ a \in Sections /\ Len(P) \in Nat /\ run[t].track = <<a>> \o P
    BY <1>4, <1>5, <1>6
  <2> HIDE DEF P, a
  <2>2. /\ Len(<<a>> \o P) = Len(P) + 1
        /\ \A j \in 2..(Len(P) + 1) : (<<a>> \o P)[j] = P[j - 1]
        /\ (<<a>> \o P)[1] = a
    BY <2>1
  <2>3. QED
    BY <2>1, <2>2 DEF P, a
<1>8. /\ run[t].front \in 2..Len(run[t].track)
      /\ run[t].rear \in {run[t].front, run[t].front - 1}
      /\ rt[i].released = IF run[t].rear = 1 THEN 0 ELSE run[t].rear - 2
  BY <1>1 DEF OnItsWay
<1> HIDE DEF i, k
<1>9. On(t) = {run[t].track[run[t].rear], run[t].track[run[t].front]}
  <2>1. run[t].rear..run[t].front = {run[t].rear, run[t].front}
    BY <1>4, <1>7, <1>8
  <2>2. QED
    BY <2>1 DEF On
<1>10. rt[i].released + 1 \in 1..Len(Path(k))
  BY <1>4, <1>7, <1>8
<1>11. Path(k)[rt[i].released + 1] \in On(t)
  <2>1. CASE run[t].rear = 1
    BY <1>4, <1>7, <1>8, <1>9, <2>1
  <2>2. CASE run[t].rear # 1
    <3>1. run[t].rear \in 2..Len(run[t].track) /\ rt[i].released + 1 = run[t].rear - 1
      BY <1>4, <1>7, <1>8, <2>2
    <3>2. QED
      BY <1>7, <1>9, <3>1
  <2>3. QED
    BY <2>1, <2>2
<1>12. ASSUME NEW j \in (run[t].front + 1)..Len(run[t].track)
       PROVE  run[t].track[j] \in Unreleased(rt[i])
  <2>1. j - 1 \in (rt[i].released + 1)..Len(Path(k)) /\ j \in 2..Len(run[t].track)
    BY <1>4, <1>7, <1>8
  <2>2. run[t].track[j] = Path(k)[j - 1]
    BY <1>7, <2>1
  <2>3. QED
    BY <2>1, <2>2 DEF Unreleased, k
<1>13. QED
  BY <1>1, <1>2, <1>3, <1>7, <1>9, <1>10, <1>11, <1>12 DEF i, k

LEMMA TrainsOnSections ==
    ASSUME TypeOK, TrainsPlaced, NEW t \in Trains
    PROVE  On(t) \subseteq Sections
<1>1. CASE Running(t)
  <2> DEFINE k == rt[run[t].route].plan
  <2>1. k \in Plans /\ run[t].track \in Seq(Sections)
    BY <1>1, RunFacts DEF TrainsPlaced, Journey
  <2>2. run[t].rear \in 1..Len(run[t].track) /\ run[t].front \in 1..Len(run[t].track)
    <3>1. OnItsWay(t) /\ Len(run[t].track) \in Nat
      BY <1>1, <2>1, RunFacts
    <3>2. /\ run[t].front \in 2..Len(run[t].track)
          /\ run[t].rear \in {run[t].front, run[t].front - 1}
      BY <3>1 DEF OnItsWay
    <3>3. QED
      BY <3>1, <3>2
  <2>3. QED
    BY <1>1, <2>1, <2>2, RunFacts
<1>2. CASE run[t] = Elsewhere
  BY <1>2 DEF On, Elsewhere
<1>3. ASSUME NEW g \in Signals, run[t] = Waiting(g)
      PROVE  On(t) \subseteq Sections
  BY <1>3, TrafficAssumption DEF On, Waiting
<1>4. QED
  BY <1>1, <1>2, <1>3, LayoutAssumption DEF TrainsPlaced, OnItsWay, Running

LEMMA WaitingFacts ==
    ASSUME NEW t \in Trains, NEW g \in Signals, run[t] = Waiting(g)
    PROVE  On(t) = {Ahead[g]} /\ ~Running(t) /\ Ahead[g] \in Sections
BY TrafficAssumption DEF On, Waiting, Running

\* A path visits a section once.
LEMMA PathOnce ==
    ASSUME NEW k \in Plans, NEW m \in 1..Len(Path(k)), NEW n \in 1..Len(Path(k)),
           Path(k)[m] = Path(k)[n]
    PROVE  m = n
BY ExpandAssumption

\* A signal that is not red belongs to a route over free sections which it holds.
LEMMA ProceedFacts ==
    ASSUME EngineInv, TrafficInv, NEW g \in Signals, sig[g].aspect # "RED"
    PROVE  LET i == sig[g].route
               k == rt[i].plan
           IN  /\ i \in RouteIds /\ k \in Plans /\ Origin(k) = g
               /\ rt[i].state \in {"LOCKED", "TRAIN_COMING"}
               /\ rt[i].released = 0 /\ Unreleased(rt[i]) = PathSet(k)
               /\ \A s \in PathSet(k) : sec[s].occ = 0 /\ sec[s].lock = i
<1> DEFINE i == sig[g].route
           k == rt[i].plan
<1>1. TypeOK /\ SignalOwned
  BY DEF EngineInv, PointInv
<1>2. i \in RouteIds /\ k \in Plans /\ IsActive(rt[i]) /\ Backed(g)
  BY <1>1, BackedFacts
<1>3. rt[i].state \in {"LOCKED", "TRAIN_COMING"} /\ Origin(k) = g
  BY <1>2 DEF Backed
<1>4. rt[i].released = 0
  BY <1>2, <1>3 DEF TrafficInv, NotBegun
<1>5. Unreleased(rt[i]) = PathSet(k)
  BY <1>4 DEF Unreleased, PathSet
<1>6. \A s \in PathSet(k) : sec[s].occ = 0 /\ sec[s].lock = i
  BY <1>2, <1>3, <1>5 DEF TrafficInv, WayIsFree, SectionsHeld
<1>7. QED
  BY <1>2, <1>3, <1>4, <1>5, <1>6

\* What the trains and the operators do is what the engine does, or nothing.
LEMMA EngineStep == EngineInv /\ TrafficInv /\ [TrafficNext]_traffic => [Next]_vars
<1> SUFFICES ASSUME EngineInv, TrafficInv, [TrafficNext]_traffic PROVE [Next]_vars
  OBVIOUS
<1>0. TypeOK /\ TrainsPlaced
  BY DEF EngineInv, PointInv, TrafficInv
<1>1. ASSUME NEW s \in Sections, ReportOccupancy(s) \/ ReportClearance(s)
      PROVE  Next
  BY <1>1, TrafficAssumption DEF Next
<1>2. ASSUME NEW t \in Trains, NEW g \in Signals, Appear(t, g)
      PROVE  Next
  BY <1>1, <1>2, TrafficAssumption DEF Appear
<1>3. ASSUME NEW t \in Trains, NEW g \in Signals, Depart(t, g)
      PROVE  Next
  <2>1. rt[sig[g].route].plan \in Plans
    BY <1>3, ProceedFacts DEF Depart
  <2>2. Path(rt[sig[g].route].plan)[1] \in Sections
    BY <2>1, PlanFacts DEF First
  <2>3. QED
    BY <1>1, <1>3, <2>2 DEF Depart
<1>4. ASSUME NEW t \in Trains, Forward(t) \/ Rear(t) \/ Leave(t)
      PROVE  Next
  <2>0. run[t] \in Journey
    BY <1>0 DEF TrainsPlaced
  <2>1. ASSUME Forward(t) PROVE Next
    <3>1. run[t].front + 1 \in 1..Len(run[t].track)
      BY <2>0, <2>1 DEF Forward, Journey
    <3>2. run[t].track[run[t].front + 1] \in Sections
      BY <2>0, <3>1 DEF Journey
    <3>3. QED
      BY <1>1, <2>1, <3>2 DEF Forward
  <2>2. ASSUME Rear(t) \/ Leave(t) PROVE Next
    <3>1. run[t].track[run[t].rear] \in On(t)
      <4>1. CASE Leave(t)
        BY <1>0, <4>1, RunFacts DEF Leave
      <4>2. CASE Rear(t)
        BY <2>0, <4>2 DEF Rear, On, Journey
      <4>3. QED
        BY <2>2, <4>1, <4>2
    <3>2. run[t].track[run[t].rear] \in Sections
      BY <1>0, <3>1, TrainsOnSections
    <3>3. QED
      BY <1>1, <2>2, <3>2 DEF Rear, Leave
  <2>3. QED
    BY <1>4, <2>1, <2>2
<1>5. ASSUME NEW t \in Trains, NEW g \in Signals, TurnTo(t, g)
      PROVE  UNCHANGED vars
  BY <1>5 DEF TurnTo
<1>6. ASSUME NEW i \in RouteIds, NEW k \in Plans, Request(i, k)
      PROVE  Next
  BY <1>6 DEF Request, Next
<1>7. ASSUME NEW i \in RouteIds, Cancel(i)
      PROVE  Next
  BY <1>7 DEF Cancel, Next
<1>8. CASE \/ \E g \in Signals : SetSignalRed(g)
           \/ \E p \in Points, dir \in OperatorDirs : OperatePoint(p, dir)
           \/ \E delta \in Deltas : AdvanceClock(delta)
  BY <1>8 DEF Next
<1>9. CASE UNCHANGED traffic
  BY <1>9 DEF traffic
<1>10. QED
  BY <1>2, <1>3, <1>4, <1>5, <1>6, <1>7, <1>8, <1>9 DEF TrafficNext

-----------------------------------------------------------------------------
(* The route under a train *)

LEMMA EnteredFate ==
    ASSUME TypeOK, NEW i \in RouteIds, rt[i].state \in Entered
    PROVE  /\ \A s \in Sections : ReportOccupancy(s) => rt'[i] = rt[i]
           /\ \A s \in Sections : ReportClearance(s) =>
                rt'[i] = OnClearance(rt[i], s, Lowered(s))
           /\ \A j \in RouteIds, k \in Plans : RequestRoute(j, k) => rt'[i] = rt[i]
           /\ \A j \in RouteIds : CancelRoute(j) =>
                \/ /\ rt'[i].state \in Entered
                   /\ rt'[i].plan = rt[i].plan /\ rt'[i].released = rt[i].released
                \/ j = i /\ sec[First(rt[i].plan)].occ = 0 /\ rt'[i] = Cancelled(rt[i])
           /\ \A delta \in Deltas : AdvanceClock(delta) =>
                \/ rt'[i] = rt[i]
                \/ /\ rt'[i] = Cancelled(rt[i]) /\ rt[i].state = "CANCEL_PENDING"
                   /\ ~Occupied(sec, PathSet(rt[i].plan))
<1>0. rt \in [RouteIds -> RouteRecord] /\ rt[i] \in RouteRecord /\ IsActive(rt[i])
  BY DEF TypeOK, Entered, IsActive, ActiveStates
<1>1. ASSUME NEW s \in Sections, ReportOccupancy(s)
      PROVE  rt'[i] = rt[i]
  <2>1. rt'[i] = OnOccupancy(rt[i], s)
    BY <1>0, <1>1 DEF ReportOccupancy
  <2>2. QED
    BY <2>1 DEF OnOccupancy, Entered
<1>2. ASSUME NEW s \in Sections, ReportClearance(s)
      PROVE  rt'[i] = OnClearance(rt[i], s, Lowered(s))
  BY <1>2 DEF ReportClearance
<1>3. ASSUME NEW j \in RouteIds, NEW k \in Plans, RequestRoute(j, k)
      PROVE  rt'[i] = rt[i]
  <2>1. CASE SetupFails(j, k) \/ ClearRefused(j, k)
    BY <2>1, TurnedDown
  <2>2. CASE StartMoves(j, k) \/ ClearAtOnce(j, k)
    <3>1. rt[j].state = "NONE" /\ \E st : rt' = [rt EXCEPT ![j] = NewRoute(k, st, clock)]
      BY <2>2, Granted DEF Accepted
    <3>2. j # i
      BY <3>1 DEF Entered
    <3>3. QED
      BY <1>0, <3>1, <3>2
  <2>3. QED
    BY <1>3, <2>1, <2>2 DEF RequestRoute
<1>4. ASSUME NEW j \in RouteIds, CancelRoute(j)
      PROVE  \/ /\ rt'[i].state \in Entered
                /\ rt'[i].plan = rt[i].plan /\ rt'[i].released = rt[i].released
             \/ j = i /\ sec[First(rt[i].plan)].occ = 0 /\ rt'[i] = Cancelled(rt[i])
  <2>1. CASE CancelsAtOnce(rt[j], sec)
    <3>1. rt' = [rt EXCEPT ![j] = Cancelled(rt[j])]
      BY <1>4, <2>1 DEF CancelRoute
    <3>2. rt'[i] = IF j = i THEN Cancelled(rt[i]) ELSE rt[i]
      BY <1>0, <3>1
    <3>3. QED
      BY <2>1, <3>2 DEF CancelsAtOnce
  <2>2. CASE ~CancelsAtOnce(rt[j], sec)
    <3>1. rt' = [rt EXCEPT ![j].state = "CANCEL_PENDING", ![j].deadline = CancelDeadline(rt[j])]
      BY <1>4, <2>2 DEF CancelRoute
    <3>2. QED
      BY <1>0, <3>1 DEF RouteRecord, Entered
  <2>3. QED
    BY <2>1, <2>2
<1>5. ASSUME NEW delta \in Deltas, AdvanceClock(delta)
      PROVE  \/ rt'[i] = rt[i]
             \/ /\ rt'[i] = Cancelled(rt[i]) /\ rt[i].state = "CANCEL_PENDING"
                /\ ~Occupied(sec, PathSet(rt[i].plan))
  <2> DEFINE npt == Detections(clock + delta)
  <2>1. PICK pick \in Picks(npt) :
          rt' = [j \in RouteIds |->
                   IF j \in Winners(npt, pick)
                   THEN [rt[j] EXCEPT !.state = "LOCKED", !.timed = clock + delta > 0]
                   ELSE IF j \in Due(clock + delta) THEN Cancelled(rt[j]) ELSE rt[j]]
    BY <1>5 DEF AdvanceClock
  <2>2. i \notin Winners(npt, pick)
    BY DEF Winners, Openable, Entered
  <2>3. i \in Due(clock + delta) =>
          rt[i].state = "CANCEL_PENDING" /\ ~Occupied(sec, PathSet(rt[i].plan))
    BY DEF Due, BackstopDue
  <2>4. QED
    BY <2>1, <2>2, <2>3
<1>6. QED
  BY <1>1, <1>2, <1>3, <1>4, <1>5

\* The next section to release is occupied by the train, and by it alone.
LEMMA TrainOnRoute ==
    ASSUME EngineInv, TrafficInv, NEW t \in Trains, Running(t)
    PROVE  LET r == rt[run[t].route] IN
           /\ Occupied(sec, PathSet(r.plan))
           /\ r.released = 0 => sec[First(r.plan)].occ > 0
           /\ \A u \in Trains : Path(r.plan)[r.released + 1] \in On(u) => u = t
<1> DEFINE r == rt[run[t].route]
           s == Path(r.plan)[r.released + 1]
<1>0. TypeOK /\ TrainsPlaced /\ OccIsTrains /\ NoCollision
  BY DEF EngineInv, PointInv, TrafficInv
<1>1. s \in On(t) /\ r.released + 1 \in 1..Len(Path(r.plan)) /\ r.plan \in Plans
  BY <1>0, RunFacts
<1>2. s \in PathSet(r.plan) /\ s \in Sections
  BY <1>1, PlanFacts DEF PathSet
<1>3. sec[s].occ = 1
  BY <1>0, <1>1, <1>2 DEF OccIsTrains
<1>4. r.released = 0 => s = First(r.plan)
  BY DEF First
<1>5. \A u \in Trains : s \in On(u) => u = t
  BY <1>0, <1>1 DEF NoCollision
<1>6. Occupied(sec, PathSet(r.plan))
  BY <1>2, <1>3 DEF Occupied
<1>7. r.released = 0 => sec[First(r.plan)].occ > 0
  BY <1>3, <1>4
<1>8. QED
  BY <1>5, <1>6, <1>7

\* While a train stays where it is, its route stays as far as it is.
LEMMA AuthorityKept ==
    ASSUME EngineInv, TrafficInv, Disciplined, TrafficNext,
           NEW u \in Trains, Running(u), run'[u] = run[u]
    PROVE  LET i == run[u].route IN
           /\ rt'[i].state \in Entered
           /\ rt'[i].plan = rt[i].plan
           /\ rt'[i].released = rt[i].released
<1> DEFINE i == run[u].route
           Kept == /\ rt'[i].state \in Entered
                   /\ rt'[i].plan = rt[i].plan
                   /\ rt'[i].released = rt[i].released
<1>0. TypeOK /\ TrainsPlaced /\ run \in [Trains -> Journey]
  BY DEF EngineInv, PointInv, TrafficInv, TrainsPlaced
<1>1. i \in RouteIds /\ rt[i].state \in Entered
  BY <1>0, RunFacts DEF OnItsWay
<1>2. rt'[i] = rt[i] => Kept
  BY <1>1
<1>3. ASSUME NEW s \in Sections, ReportOccupancy(s)
      PROVE  Kept
  BY <1>0, <1>1, <1>2, <1>3, EnteredFate
<1>4. ASSUME NEW t \in Trains, Rear(t) \/ Leave(t)
      PROVE  Kept
  <2> DEFINE s == run[t].track[run[t].rear]
  <2>1. ReportClearance(s)
    BY <1>4 DEF Rear, Leave
  <2>2. s \in On(t)
    <3>0. run[t] \in Journey
      BY <1>0
    <3>1. CASE Leave(t)
      BY <1>0, <3>1, RunFacts DEF Leave
    <3>2. CASE Rear(t)
      BY <3>0, <3>2 DEF Rear, On, Journey
    <3>3. QED
      BY <1>4, <3>1, <3>2
  <2>3. s \in Sections
    BY <1>0, <2>2, TrainsOnSections
  <2>4. t # u
    <3>1. CASE Leave(t)
      <4>1. run'[t] = Elsewhere
        BY <1>0, <3>1 DEF Leave
      <4>2. QED
        BY <4>1 DEF Running, Elsewhere
    <3>2. CASE Rear(t)
      <4>1. run'[t].rear = run[t].rear + 1 /\ run[t].rear \in Nat
        BY <1>0, <3>2 DEF Rear, Journey
      <4>2. QED
        BY <4>1
    <3>3. QED
      BY <1>4, <3>1, <3>2
  <2>5. s # Path(rt[i].plan)[rt[i].released + 1]
    BY <2>2, <2>4, TrainOnRoute
  <2>6. OnClearance(rt[i], s, Lowered(s)) = rt[i]
    BY <2>5 DEF OnClearance, Releases
  <2>7. rt'[i] = OnClearance(rt[i], s, Lowered(s))
    BY <1>0, <1>1, <2>1, <2>3, EnteredFate
  <2>8. QED
    BY <1>2, <2>6, <2>7
<1>5. ASSUME NEW j \in RouteIds, NEW k \in Plans, Request(j, k)
      PROVE  Kept
  BY <1>0, <1>1, <1>2, <1>5, EnteredFate DEF Request
<1>6. ASSUME NEW j \in RouteIds, Cancel(j)
      PROVE  Kept
  <2>1. CancelRoute(j) /\ rt[j].released = 0
    BY <1>6 DEF Cancel
  <2>2. j = i => sec[First(rt[i].plan)].occ # 0
    BY <2>1, TrainOnRoute
  <2>3. QED
    BY <1>0, <1>1, <2>1, <2>2, EnteredFate
<1>7. ASSUME NEW delta \in Deltas, AdvanceClock(delta)
      PROVE  Kept
  BY <1>0, <1>1, <1>2, <1>7, EnteredFate, TrainOnRoute
<1>8. CASE \/ \E t \in Trains, g \in Signals : TurnTo(t, g)
           \/ \E g \in Signals : SetSignalRed(g)
           \/ \E p \in Points, dir \in OperatorDirs : OperatePoint(p, dir)
  <2>1. rt' = rt
    BY <1>8 DEF TurnTo, vars, SetSignalRed, OperatePoint
  <2>2. QED
    BY <1>2, <2>1
<1>9. ASSUME NEW t \in Trains, NEW g \in Signals, Appear(t, g)
      PROVE  Kept
  BY <1>3, <1>9, TrafficAssumption DEF Appear
<1>10. ASSUME NEW t \in Trains, NEW g \in Signals, Depart(t, g)
       PROVE  Kept
  <2>1. rt[sig[g].route].plan \in Plans
    BY <1>10, ProceedFacts DEF Depart
  <2>2. Path(rt[sig[g].route].plan)[1] \in Sections
    BY <2>1, PlanFacts DEF First
  <2>3. QED
    BY <1>3, <1>10, <2>2 DEF Depart
<1>11. ASSUME NEW t \in Trains, Forward(t)
       PROVE  Kept
  <2>1. run[t].front + 1 \in 1..Len(run[t].track)
    BY <1>0, <1>11 DEF Forward, Journey
  <2>2. run[t].track[run[t].front + 1] \in Sections
    BY <1>0, <2>1 DEF Journey
  <2>3. QED
    BY <1>3, <1>11, <2>2 DEF Forward
<1>12. QED
  BY <1>4, <1>5, <1>6, <1>7, <1>8, <1>9, <1>10, <1>11 DEF TrafficNext

-----------------------------------------------------------------------------
(* What a step does to the trains *)

Stay(t) == \A u \in Trains : u # t => run'[u] = run[u]

\* Train t moves onto s, which is free, and locked for no other train.
Enters(t, s) ==
    /\ s \in Sections /\ ReportOccupancy(s)
    /\ sec[s].occ = 0
    /\ \A i \in RouteIds : sec[s].lock = i =>
         \/ rt[i].state \in {"LOCKED", "TRAIN_COMING"} /\ rt'[i].state = "TRAIN_IN_ROUTE"
         \/ rt[i].state \in Entered /\ run[t].route = i /\ Running(t)
    /\ On(t)' = On(t) \cup {s}
    /\ Stay(t)

\* Train t moves off s.
Clears(t, s) ==
    /\ s \in On(t) /\ s \in Sections /\ ReportClearance(s)
    /\ On(t)' = On(t) \ {s}
    /\ Stay(t)

\* Nothing moves: an operator or the clock.
Operates ==
    /\ \/ \E i \in RouteIds, k \in Plans : Request(i, k)
       \/ \E i \in RouteIds : Cancel(i)
       \/ \E g \in Signals : SetSignalRed(g)
       \/ \E p \in Points, dir \in OperatorDirs : OperatePoint(p, dir)
       \/ \E delta \in Deltas : AdvanceClock(delta)
    /\ run' = run

\* The track of a train visits a section once.
LEMMA TrackOnce ==
    ASSUME TypeOK, TrainsPlaced, NEW t \in Trains, Running(t),
           NEW m \in 1..Len(run[t].track), NEW n \in 1..Len(run[t].track),
           run[t].track[m] = run[t].track[n]
    PROVE  m = n
<1> DEFINE k == rt[run[t].route].plan
           L == Len(Path(k))
<1>1. /\ k \in Plans /\ OnItsWay(t)
      /\ Len(run[t].track) = L + 1
      /\ \A j \in 2..Len(run[t].track) : run[t].track[j] = Path(k)[j - 1]
      /\ run[t].track[1] = Ahead[Origin(k)]
  BY RunFacts
<1>2. L \in Nat \ {0} /\ Ahead[Origin(k)] \notin PathSet(k)
  BY <1>1, PlanFacts DEF OnItsWay
<1> HIDE DEF L, k
<1>3. \A j \in 2..Len(run[t].track) : run[t].track[j] \in PathSet(k)
  <2>1. Len(run[t].track) = L + 1 /\ L \in Nat
    BY <1>1, <1>2
  <2>2. \A j \in 2..Len(run[t].track) : j - 1 \in 1..L
    BY <2>1
  <2>3. QED
    BY <1>1, <2>2 DEF PathSet, L
<1>4. CASE m = 1 \/ n = 1
  BY <1>1, <1>2, <1>3, <1>4
<1>5. CASE m # 1 /\ n # 1
  <2>1. m - 1 \in 1..L /\ n - 1 \in 1..L /\ m \in 2..Len(run[t].track) /\ n \in 2..Len(run[t].track)
    BY <1>1, <1>2, <1>5
  <2>2. Path(k)[m - 1] = Path(k)[n - 1]
    BY <1>1, <2>1
  <2>3. m - 1 = n - 1
    BY <1>1, <2>1, <2>2, PathOnce DEF L
  <2>4. QED
    BY <2>1, <2>3
<1>6. QED
  BY <1>4, <1>5

LEMMA AppearEnters ==
    ASSUME EngineInv, TrafficInv, NEW t \in Trains, NEW g \in Signals, Appear(t, g)
    PROVE  /\ Enters(t, Ahead[g]) /\ run'[t] = Waiting(g)
           /\ sec[Ahead[g]].lock = NoRoute
<1>1. run \in [Trains -> Journey] /\ Ahead[g] \in Sections
  BY TrafficAssumption DEF TrafficInv, TrainsPlaced
<1>2. run[t] = Elsewhere /\ run' = [run EXCEPT ![t] = Waiting(g)]
  BY DEF Appear
<1>3. run'[t] = Waiting(g) /\ Stay(t)
  BY <1>1, <1>2 DEF Stay
<1>4. On(t) = {} /\ On(t)' = {Ahead[g]}
  BY <1>2, <1>3 DEF On, Elsewhere, Waiting
<1>5. sec[Ahead[g]].occ = 0 /\ sec[Ahead[g]].lock = NoRoute /\ ReportOccupancy(Ahead[g])
  BY DEF Appear
<1>6. QED
  BY <1>1, <1>3, <1>4, <1>5, LayoutAssumption DEF Enters

\* The train leaves the signal of a locked route, which its first section turns
\* into one under a train.
LEMMA DepartEnters ==
    ASSUME EngineInv, TrafficInv, NEW t \in Trains, NEW g \in Signals, Depart(t, g)
    PROVE  LET i == sig[g].route
               k == rt[i].plan
           IN  /\ Enters(t, First(k))
               /\ i \in RouteIds /\ k \in Plans /\ rt[i].state \in {"LOCKED", "TRAIN_COMING"}
               /\ sec[First(k)].lock = i
               /\ run'[t] = [track |-> <<Ahead[g]>> \o Path(k), rear |-> 1, front |-> 2,
                             route |-> i]
               /\ rt'[i] = [rt[i] EXCEPT !.state = "TRAIN_IN_ROUTE"]
               /\ OnItsWay(t)'
<1> DEFINE i == sig[g].route
           k == rt[i].plan
<1>0. TypeOK /\ run \in [Trains -> Journey] /\ OccIsTrains
  BY DEF EngineInv, PointInv, TrafficInv, TrainsPlaced
<1>1. /\ i \in RouteIds /\ k \in Plans /\ Origin(k) = g
      /\ rt[i].state \in {"LOCKED", "TRAIN_COMING"} /\ rt[i].released = 0
      /\ \A s \in PathSet(k) : sec[s].occ = 0 /\ sec[s].lock = i
  BY ProceedFacts DEF Depart
<1>2. /\ run[t] = Waiting(g) /\ ReportOccupancy(First(k))
      /\ run' = [run EXCEPT ![t] = [track |-> <<Ahead[g]>> \o Path(k), rear |-> 1,
                                    front |-> 2, route |-> i]]
  BY DEF Depart, First
<1>3. /\ First(k) \in Sections /\ First(k) \in PathSet(k)
      /\ Path(k) \in Seq(Sections) /\ Len(Path(k)) \in Nat \ {0}
      /\ Expanded[k].approach # First(k)
  BY <1>1, PlanFacts, ExpandAssumption
<1>4. /\ run'[t] = [track |-> <<Ahead[g]>> \o Path(k), rear |-> 1, front |-> 2, route |-> i]
      /\ Stay(t)
  BY <1>0, <1>2 DEF Stay
<1> HIDE DEF i, k
<1>5. On(t) = {Ahead[g]} /\ Ahead[g] \in Sections
  BY <1>2, WaitingFacts
<1>6. On(t)' = {Ahead[g], First(k)}
  <2>1. /\ (<<Ahead[g]>> \o Path(k))[1] = Ahead[g]
        /\ (<<Ahead[g]>> \o Path(k))[2] = Path(k)[1]
    BY <1>3, <1>5
  <2>2. /\ run'[t].track = <<Ahead[g]>> \o Path(k)
        /\ run'[t].rear..run'[t].front = {1, 2}
    <3>1. 1..2 = {1, 2}
      OBVIOUS
    <3>2. QED
      BY <1>4, <3>1
  <2>3. On(t)' = {run'[t].track[1], run'[t].track[2]}
    BY <2>2 DEF On
  <2>4. QED
    BY <2>1, <2>2, <2>3 DEF First
<1>7. rt'[i] = [rt[i] EXCEPT !.state = "TRAIN_IN_ROUTE"]
  <2>1. rt'[i] = OnOccupancy(rt[i], First(k))
    BY <1>1, <1>2 DEF ReportOccupancy, IsActive, ActiveStates
  <2>2. QED
    BY <1>1, <1>3, <2>1 DEF OnOccupancy, k
<1>8. Ahead[g] \notin PathSet(k)
  <2>1. sec[Ahead[g]].occ = 1
    BY <1>0, <1>5 DEF OccIsTrains
  <2>2. QED
    BY <1>1, <2>1
<1>9. OnItsWay(t)'
  <2>1. rt[i] \in RouteRecord
    BY <1>0, <1>1 DEF TypeOK
  <2>2. rt'[i].plan = k /\ rt'[i].state = "TRAIN_IN_ROUTE" /\ rt'[i].released = 0
    BY <1>1, <1>7, <2>1 DEF RouteRecord, k
  <2>3. Len(<<Ahead[g]>> \o Path(k)) = Len(Path(k)) + 1
    BY <1>3, <1>5
  <2>4. 2 \in 2..Len(<<Ahead[g]>> \o Path(k))
    BY <1>3, <2>3
  <2>5. QED
    BY <1>1, <1>4, <1>8, <2>2, <2>4 DEF OnItsWay, Entered
<1>10. sec[First(k)].lock = i
  BY <1>1, <1>3
<1>11. Enters(t, First(k))
  <2>1. rt[i] \in RouteRecord
    BY <1>0, <1>1 DEF TypeOK
  <2>2. rt'[i].state = "TRAIN_IN_ROUTE"
    BY <1>7, <2>1 DEF RouteRecord
  <2>3. \A j \in RouteIds : sec[First(k)].lock = j =>
          rt[j].state \in {"LOCKED", "TRAIN_COMING"} /\ rt'[j].state = "TRAIN_IN_ROUTE"
    BY <1>1, <1>10, <2>2
  <2>4. sec[First(k)].occ = 0
    BY <1>1, <1>3
  <2>5. QED
    BY <1>2, <1>3, <1>4, <1>5, <1>6, <2>3, <2>4 DEF Enters
<1>12. QED
  BY <1>1, <1>4, <1>7, <1>9, <1>10, <1>11 DEF i, k

LEMMA ForwardEnters ==
    ASSUME EngineInv, TrafficInv, NEW t \in Trains, Forward(t)
    PROVE  LET i == run[t].route
               s == run[t].track[run[t].front + 1]
           IN  /\ Enters(t, s) /\ Running(t)
               /\ i \in RouteIds /\ rt[i].state \in Entered
               /\ sec[s].lock = i
               /\ run'[t] = [run[t] EXCEPT !.front = run[t].front + 1]
               /\ rt'[i] = rt[i]
               /\ OnItsWay(t)'
<1> DEFINE i == run[t].route
           k == rt[i].plan
           f == run[t].front
           s == run[t].track[f + 1]
<1>0. /\ TypeOK /\ TrainsPlaced /\ WayIsFree /\ SectionsHeld /\ run \in [Trains -> Journey]
      /\ run[t] \in Journey
  BY DEF EngineInv, PointInv, TrafficInv, TrainsPlaced
<1>1. /\ Running(t) /\ run[t].rear = f /\ f < Len(run[t].track) /\ ReportOccupancy(s)
      /\ run' = [run EXCEPT ![t].front = run[t].front + 1]
  BY DEF Forward
<1>2. /\ run'[t] = [run[t] EXCEPT !.front = f + 1]
      /\ Stay(t)
  BY <1>0, <1>1 DEF Stay
<1>3. /\ OnItsWay(t) /\ i \in RouteIds /\ k \in Plans /\ IsActive(rt[i])
      /\ On(t) = {run[t].track[run[t].rear], run[t].track[f]}
      /\ \A j \in (f + 1)..Len(run[t].track) : run[t].track[j] \in Unreleased(rt[i])
  BY <1>0, <1>1, RunFacts
<1>4. /\ rt[i].state \in Entered
      /\ run[t].track = <<Ahead[Origin(k)]>> \o Path(k)
      /\ Ahead[Origin(k)] \notin PathSet(k)
      /\ f \in 2..Len(run[t].track)
      /\ rt[i].released = IF run[t].rear = 1 THEN 0 ELSE run[t].rear - 2
  BY <1>3 DEF OnItsWay
<1>5. run[t].track \in Seq(Sections) /\ f \in Nat /\ Len(run[t].track) \in Nat
  BY <1>0 DEF Journey
<1>6. f + 1 \in (f + 1)..Len(run[t].track) /\ f + 1 \in 1..Len(run[t].track)
  BY <1>1, <1>5
<1>7. s \in Sections /\ s \in Unreleased(rt[i])
  BY <1>3, <1>5, <1>6
<1>8. sec[s].occ = 0 /\ sec[s].lock = i
  BY <1>0, <1>1, <1>3, <1>6, <1>7 DEF WayIsFree, SectionsHeld
<1>9. rt'[i] = rt[i]
  BY <1>0, <1>1, <1>3, <1>4, <1>7, EnteredFate
<1>10. /\ run'[t].track = run[t].track /\ run'[t].rear = f /\ run'[t].front = f + 1
       /\ run'[t].route = i
  BY <1>0, <1>1, <1>2 DEF Journey
<1> HIDE DEF i, k, f, s
<1>11. On(t)' = On(t) \cup {s}
  <2>1. run'[t].rear..run'[t].front = {f, f + 1}
    BY <1>5, <1>10
  <2>2. On(t)' = {run'[t].track[f], run'[t].track[f + 1]}
    BY <2>1 DEF On
  <2>3. On(t) = {run[t].track[f]}
    BY <1>1, <1>3
  <2>4. QED
    BY <1>10, <2>2, <2>3 DEF s
<1>12. OnItsWay(t)'
  <2>1. f + 1 \in 2..Len(run[t].track)
    BY <1>1, <1>4, <1>5
  <2>2. rt[i].released = IF f = 1 THEN 0 ELSE f - 2
    BY <1>1, <1>4
  <2>3. f = (f + 1) - 1
    BY <1>5
  <2>4. /\ run'[t].route = i /\ rt'[i].plan = k /\ rt'[i].state \in Entered
        /\ rt'[i].released = rt[i].released
    BY <1>4, <1>9, <1>10 DEF k
  <2>5. QED
    BY <1>3, <1>4, <1>10, <2>1, <2>2, <2>3, <2>4 DEF OnItsWay
<1>13. QED
  BY <1>1, <1>2, <1>3, <1>4, <1>7, <1>8, <1>9, <1>11, <1>12 DEF Enters, i, f, s

LEMMA RearClears ==
    ASSUME EngineInv, TrafficInv, NEW t \in Trains, Rear(t)
    PROVE  /\ Clears(t, run[t].track[run[t].rear]) /\ Running(t)
           /\ run'[t] = [run[t] EXCEPT !.rear = run[t].rear + 1]
           /\ OnItsWay(t)'
<1> DEFINE i == run[t].route
           k == rt[i].plan
           b == run[t].rear
           s == run[t].track[b]
<1>0. /\ TypeOK /\ TrainsPlaced /\ run \in [Trains -> Journey] /\ run[t] \in Journey
  BY DEF EngineInv, PointInv, TrafficInv, TrainsPlaced
<1>1. /\ b < run[t].front /\ ReportClearance(s)
      /\ run' = [run EXCEPT ![t].rear = run[t].rear + 1]
  BY DEF Rear
<1>2. /\ run'[t] = [run[t] EXCEPT !.rear = b + 1]
      /\ Stay(t)
  BY <1>0, <1>1 DEF Stay
<1>3. Running(t) /\ OnItsWay(t)
  <2>1. run[t] # Elsewhere
    BY <1>1 DEF Elsewhere
  <2>2. \A g \in Signals : run[t] # Waiting(g)
    BY <1>1 DEF Waiting
  <2>3. OnItsWay(t)
    BY <1>0, <2>1, <2>2 DEF TrainsPlaced
  <2>4. QED
    BY <2>3, LayoutAssumption DEF OnItsWay, Running
<1>4. /\ i \in RouteIds /\ k \in Plans /\ IsActive(rt[i])
      /\ Len(run[t].track) = Len(Path(k)) + 1
      /\ \A j \in 2..Len(run[t].track) : run[t].track[j] = Path(k)[j - 1]
      /\ run[t].track[1] = Ahead[Origin(k)]
      /\ On(t) = {s, run[t].track[run[t].front]}
  BY <1>0, <1>3, RunFacts
<1>5. /\ rt[i].state \in Entered
      /\ run[t].track = <<Ahead[Origin(k)]>> \o Path(k)
      /\ Ahead[Origin(k)] \notin PathSet(k)
      /\ run[t].front \in 2..Len(run[t].track)
      /\ b \in {run[t].front, run[t].front - 1}
      /\ rt[i].released = IF b = 1 THEN 0 ELSE b - 2
  BY <1>3 DEF OnItsWay
<1>6. b \in Nat /\ run[t].front = b + 1 /\ Len(Path(k)) \in Nat /\ b \in 1..Len(Path(k))
  <2>1. Len(Path(k)) \in Nat
    BY <1>4, PlanFacts
  <2>2. Len(run[t].track) = Len(Path(k)) + 1
    BY <1>4
  <2>3. run[t].front \in 2..Len(run[t].track) /\ b \in {run[t].front, run[t].front - 1}
    BY <1>5
  <2>4. \A f, r, n, m : /\ n \in Nat /\ m = n + 1 /\ f \in 2..m
                         /\ r \in {f, f - 1} /\ r < f
                         => r \in Nat /\ f = r + 1 /\ r \in 1..n
    OBVIOUS
  <2>5. QED
    BY <1>1, <2>1, <2>2, <2>3, <2>4
<1>7. s \in On(t) /\ s \in Sections
  BY <1>0, <1>4, TrainsOnSections
<1>8. run'[t].track = run[t].track /\ run'[t].rear = b + 1 /\ run'[t].front = b + 1
      /\ run'[t].route = i
  BY <1>0, <1>2, <1>6 DEF Journey
<1>9. On(t)' = On(t) \ {s}
  <2>1. run'[t].rear..run'[t].front = {b + 1}
    BY <1>6, <1>8
  <2>2. On(t)' = {run[t].track[b + 1]}
    BY <1>8, <2>1 DEF On
  <2>3. b \in 1..Len(run[t].track) /\ b + 1 \in 1..Len(run[t].track) /\ b # b + 1
    BY <1>4, <1>6
  <2>4. s # run[t].track[b + 1]
    BY <1>0, <1>3, <2>3, TrackOnce
  <2>5. QED
    BY <1>4, <1>6, <2>2, <2>4
<1>10. rt'[i] = OnClearance(rt[i], s, Lowered(s)) /\ rt[i] \in RouteRecord
  BY <1>0, <1>1, <1>4, <1>5, <1>7, EnteredFate DEF TypeOK
<1>11. /\ rt'[i].state \in Entered /\ rt'[i].plan = k
       /\ rt'[i].released = b - 1
  <2>1. CASE b = 1
    <3>1. rt[i].released = 0 /\ s \notin PathSet(k)
      BY <1>4, <1>5, <2>1
    <3>2. Path(k)[1] \in PathSet(k)
      BY <1>4, PlanFacts DEF First
    <3>3. ~Releases(rt[i], s, Lowered(s))
      BY <3>1, <3>2 DEF Releases
    <3>4. rt'[i] = rt[i]
      BY <1>10, <3>3 DEF OnClearance
    <3>5. rt[i].state \in Entered /\ rt[i].released = b - 1
      BY <1>5, <2>1, <3>1
    <3>6. QED
      BY <3>4, <3>5
  <2>2. CASE b # 1
    <3>1. rt[i].released = b - 2 /\ rt[i].released + 1 = b - 1 /\ b - 1 # Len(Path(k))
          /\ b - 2 < Len(Path(k)) /\ b \in 2..Len(run[t].track)
      <4>1. rt[i].released = b - 2
        BY <1>5, <2>2
      <4>2. Len(run[t].track) = Len(Path(k)) + 1 /\ run[t].front \in 2..Len(run[t].track)
        BY <1>4, <1>5
      <4>3. QED
        BY <1>6, <2>2, <4>1, <4>2
    <3>2. s = Path(k)[rt[i].released + 1]
      BY <1>4, <3>1
    <3>3. Releases(rt[i], s, Lowered(s)) /\ rt[i].released + 1 # Len(Path(k))
      BY <1>5, <3>1, <3>2 DEF Releases, Entered
    <3>4. rt'[i] = [rt[i] EXCEPT !.released = rt[i].released + 1,
                      !.state = IF rt[i].state = "CANCEL_PENDING" THEN rt[i].state ELSE "RELEASING"]
      BY <1>10, <3>3 DEF OnClearance
    <3>5. QED
      BY <1>10, <3>1, <3>4 DEF RouteRecord, Entered
  <2>3. QED
    BY <2>1, <2>2
<1> HIDE DEF i, k, b, s
<1>12. OnItsWay(t)'
  <2>1. /\ b + 1 \in 2..Len(run[t].track)
        /\ b - 1 = IF b + 1 = 1 THEN 0 ELSE (b + 1) - 2
    BY <1>4, <1>6
  <2>2. QED
    BY <1>4, <1>5, <1>8, <1>11, <2>1 DEF OnItsWay
<1>13. QED
  BY <1>1, <1>2, <1>3, <1>7, <1>9, <1>12 DEF Clears, b, s

LEMMA LeaveClears ==
    ASSUME EngineInv, TrafficInv, NEW t \in Trains, Leave(t)
    PROVE  Clears(t, run[t].track[run[t].rear]) /\ run'[t] = Elsewhere
<1>0. /\ TypeOK /\ TrainsPlaced /\ run \in [Trains -> Journey]
  BY DEF EngineInv, PointInv, TrafficInv, TrainsPlaced
<1>1. /\ Running(t) /\ run[t].rear = Len(run[t].track)
      /\ ReportClearance(run[t].track[run[t].rear])
      /\ run' = [run EXCEPT ![t] = Elsewhere]
  BY DEF Leave, AtEnd
<1>2. run'[t] = Elsewhere /\ Stay(t)
  BY <1>0, <1>1 DEF Stay
<1>3. On(t)' = {}
  BY <1>2 DEF On, Elsewhere
<1>4. /\ On(t) = {run[t].track[run[t].rear], run[t].track[run[t].front]} /\ OnItsWay(t)
      /\ Len(run[t].track) \in Nat
  <2>1. run[t].track \in Seq(Sections)
    BY <1>0 DEF Journey
  <2>2. QED
    BY <1>0, <1>1, <2>1, RunFacts
<1>5. run[t].front = run[t].rear
  <2>1. /\ run[t].front \in 2..Len(run[t].track)
        /\ run[t].rear \in {run[t].front, run[t].front - 1}
    BY <1>4 DEF OnItsWay
  <2>2. QED
    BY <1>1, <1>4, <2>1
<1>6. run[t].track[run[t].rear] \in Sections
  BY <1>0, <1>4, TrainsOnSections
<1>7. QED
  BY <1>1, <1>2, <1>3, <1>4, <1>5, <1>6 DEF Clears

LEMMA TurnStays ==
    ASSUME EngineInv, TrafficInv, NEW t \in Trains, NEW g \in Signals, TurnTo(t, g)
    PROVE  /\ On(t)' = On(t) /\ Stay(t) /\ run'[t] = Waiting(g)
           /\ UNCHANGED vars
<1>1. /\ run \in [Trains -> Journey] /\ On(t) = {Ahead[g]} /\ UNCHANGED vars
      /\ run' = [run EXCEPT ![t] = Waiting(g)]
  BY DEF TrafficInv, TrainsPlaced, TurnTo
<1>2. run'[t] = Waiting(g) /\ Stay(t)
  BY <1>1 DEF Stay
<1>3. On(t)' = {Ahead[g]}
  BY <1>2 DEF On, Waiting
<1>4. QED
  BY <1>1, <1>2, <1>3

\* Operators and clock leave the trains and the track circuits alone.
LEMMA OperatesSpares ==
    ASSUME TypeOK, Operates
    PROVE  /\ \A s \in Sections : sec'[s].occ = sec[s].occ
           /\ run' = run
<1>0. /\ run' = run /\ sec \in [Sections -> SectionRecord]
  BY DEF Operates, TypeOK
<1>1. ASSUME NEW i \in RouteIds, NEW k \in Plans, Request(i, k), NEW s \in Sections
      PROVE  sec'[s].occ = sec[s].occ
  <2>1. \E j \in Ids : sec' = LockSections(sec, PathSet(k), j)
    BY <1>1, TurnedDown, Granted DEF Request, RequestRoute
  <2>2. QED
    BY <1>0, <2>1, LockSectionsFields
<1>2. ASSUME NEW i \in RouteIds, Cancel(i), NEW s \in Sections
      PROVE  sec'[s].occ = sec[s].occ
  <2>1. sec' = LockSections(sec, PathSet(rt[i].plan), NoRoute) \/ sec' = sec
    BY <1>2 DEF Cancel, CancelRoute
  <2>2. QED
    BY <1>0, <2>1, LockSectionsFields
<1>3. ASSUME NEW delta \in Deltas, AdvanceClock(delta), NEW s \in Sections
      PROVE  sec'[s].occ = sec[s].occ
  <2>1. \E S : sec' = LockSections(sec, S, NoRoute)
    BY <1>3 DEF AdvanceClock
  <2>2. QED
    BY <1>0, <2>1, LockSectionsFields
<1>4. CASE \/ \E g \in Signals : SetSignalRed(g)
           \/ \E p \in Points, dir \in OperatorDirs : OperatePoint(p, dir)
  BY <1>4, <1>0 DEF SetSignalRed, OperatePoint
<1>5. QED
  BY <1>0, <1>1, <1>2, <1>3, <1>4 DEF Operates

\* A step is the step of one train, of an operator or of the clock, or none.
LEMMA StepIsOne ==
    ASSUME [TrafficNext]_traffic
    PROVE  \/ \E t \in Trains, g \in Signals : Appear(t, g) \/ Depart(t, g) \/ TurnTo(t, g)
           \/ \E t \in Trains : Forward(t) \/ Rear(t) \/ Leave(t)
           \/ Operates
           \/ UNCHANGED traffic
BY DEF TrafficNext, Operates

LEMMA EnterPlaces ==
    ASSUME EngineInv, TrafficInv, NEW t \in Trains, NEW s, Enters(t, s)
    PROVE  OccIsTrains' /\ NoCollision'
<1>0. /\ sec \in [Sections -> SectionRecord] /\ OccIsTrains /\ NoCollision
      /\ s \in Sections /\ sec[s].occ = 0
  BY DEF EngineInv, PointInv, TypeOK, TrafficInv, Enters
<1>1. /\ sec'[s].occ = 1
      /\ \A x \in Sections : x # s => sec'[x].occ = sec[x].occ
  <2>1. sec' = [sec EXCEPT ![s].occ = sec[s].occ + 1]
    BY DEF Enters, ReportOccupancy
  <2>2. QED
    BY <1>0, <2>1 DEF SectionRecord
<1>2. On(t)' = On(t) \cup {s} /\ \A u \in Trains : u # t => On(u)' = On(u)
  BY DEF Enters, Stay, On
<1>3. \A u \in Trains : s \notin On(u)
  BY <1>0 DEF OccIsTrains
<1>4. OccIsTrains'
  <2> SUFFICES ASSUME NEW x \in Sections
               PROVE  sec'[x].occ = IF \E u \in Trains : x \in On(u)' THEN 1 ELSE 0
    BY DEF OccIsTrains
  <2>1. CASE x = s
    BY <1>1, <1>2, <2>1
  <2>2. CASE x # s
    <3>1. \A u \in Trains : x \in On(u)' <=> x \in On(u)
      BY <1>2, <2>2
    <3>2. sec[x].occ = IF \E u \in Trains : x \in On(u) THEN 1 ELSE 0
      BY <1>0 DEF OccIsTrains
    <3>3. QED
      BY <1>1, <2>2, <3>1, <3>2
  <2>3. QED
    BY <2>1, <2>2
<1>5. NoCollision'
  <2> SUFFICES ASSUME NEW u \in Trains, NEW v \in Trains, u # v
               PROVE  On(u)' \cap On(v)' = {}
    BY DEF NoCollision
  <2>1. On(u) \cap On(v) = {} /\ s \notin On(u) /\ s \notin On(v)
    BY <1>0, <1>3 DEF NoCollision
  <2>2. On(u)' \subseteq On(u) \cup (IF u = t THEN {s} ELSE {})
        /\ On(v)' \subseteq On(v) \cup (IF v = t THEN {s} ELSE {})
    BY <1>2
  <2>3. QED
    BY <2>1, <2>2
<1>6. QED
  BY <1>4, <1>5

LEMMA ClearPlaces ==
    ASSUME EngineInv, TrafficInv, NEW t \in Trains, NEW s, Clears(t, s)
    PROVE  OccIsTrains' /\ NoCollision' /\ \A x \in Sections : sec[x].occ = 0 => sec'[x].occ = 0
<1>0. /\ sec \in [Sections -> SectionRecord] /\ OccIsTrains /\ NoCollision
      /\ s \in Sections /\ s \in On(t) /\ sec[s].occ = 1
  BY DEF EngineInv, PointInv, TypeOK, TrafficInv, Clears, OccIsTrains
<1>1. /\ sec'[s].occ = 0
      /\ \A x \in Sections : x # s => sec'[x].occ = sec[x].occ
  <2>1. \E S : sec' = LockSections(Lowered(s), S, NoRoute)
    BY DEF Clears, ReportClearance
  <2>2. Lowered(s) \in [Sections -> SectionRecord]
    BY <1>0 DEF Lowered, SectionRecord
  <2>3. \A x \in Sections : sec'[x].occ = Lowered(s)[x].occ
    BY <2>1, <2>2, LockSectionsFields
  <2>4. QED
    BY <1>0, <2>3 DEF Lowered, SectionRecord
<1>2. On(t)' = On(t) \ {s} /\ \A u \in Trains : u # t => On(u)' = On(u)
  BY DEF Clears, Stay, On
<1>3. \A u \in Trains : u # t => s \notin On(u)
  BY <1>0 DEF NoCollision
<1>4. OccIsTrains'
  <2> SUFFICES ASSUME NEW x \in Sections
               PROVE  sec'[x].occ = IF \E u \in Trains : x \in On(u)' THEN 1 ELSE 0
    BY DEF OccIsTrains
  <2>1. CASE x = s
    BY <1>1, <1>2, <1>3, <2>1
  <2>2. CASE x # s
    <3>1. \A u \in Trains : x \in On(u)' <=> x \in On(u)
      BY <1>2, <2>2
    <3>2. sec[x].occ = IF \E u \in Trains : x \in On(u) THEN 1 ELSE 0
      BY <1>0 DEF OccIsTrains
    <3>3. QED
      BY <1>1, <2>2, <3>1, <3>2
  <2>3. QED
    BY <2>1, <2>2
<1>5. NoCollision'
  <2> SUFFICES ASSUME NEW u \in Trains, NEW v \in Trains, u # v
               PROVE  On(u)' \cap On(v)' = {}
    BY DEF NoCollision
  <2>1. On(u) \cap On(v) = {}
    BY <1>0 DEF NoCollision
  <2>2. On(u)' \subseteq On(u) /\ On(v)' \subseteq On(v)
    BY <1>2
  <2>3. QED
    BY <2>1, <2>2
<1>6. QED
  BY <1>1, <1>4, <1>5

LEMMA PlacesStep == EngineInv /\ TrafficInv /\ [TrafficNext]_traffic => OccIsTrains' /\ NoCollision'
<1> SUFFICES ASSUME EngineInv, TrafficInv, [TrafficNext]_traffic
             PROVE  OccIsTrains' /\ NoCollision'
  OBVIOUS
<1>0. TypeOK /\ OccIsTrains /\ NoCollision
  BY DEF EngineInv, PointInv, TrafficInv
<1>1. ASSUME \A s \in Sections : sec'[s].occ = sec[s].occ,
             \A u \in Trains : On(u)' = On(u)
      PROVE  OccIsTrains' /\ NoCollision'
  BY <1>0, <1>1 DEF OccIsTrains, NoCollision
<1>2. ASSUME NEW t \in Trains, NEW g \in Signals, Appear(t, g)
      PROVE  OccIsTrains' /\ NoCollision'
  BY <1>2, AppearEnters, EnterPlaces
<1>3. ASSUME NEW t \in Trains, NEW g \in Signals, Depart(t, g)
      PROVE  OccIsTrains' /\ NoCollision'
  BY <1>3, DepartEnters, EnterPlaces
<1>4. ASSUME NEW t \in Trains, NEW g \in Signals, TurnTo(t, g)
      PROVE  OccIsTrains' /\ NoCollision'
  <2>1. sec' = sec /\ \A u \in Trains : On(u)' = On(u)
    BY <1>4, TurnStays DEF vars, Stay, On
  <2>2. QED
    BY <1>1, <2>1
<1>5. ASSUME NEW t \in Trains, Forward(t)
      PROVE  OccIsTrains' /\ NoCollision'
  BY <1>5, ForwardEnters, EnterPlaces
<1>6. ASSUME NEW t \in Trains, Rear(t)
      PROVE  OccIsTrains' /\ NoCollision'
  BY <1>6, RearClears, ClearPlaces
<1>7. ASSUME NEW t \in Trains, Leave(t)
      PROVE  OccIsTrains' /\ NoCollision'
  BY <1>7, LeaveClears, ClearPlaces
<1>8. CASE Operates
  <2>1. \A u \in Trains : On(u)' = On(u)
    BY <1>8 DEF Operates, On
  <2>2. QED
    BY <1>0, <1>1, <1>8, <2>1, OperatesSpares
<1>9. CASE UNCHANGED traffic
  BY <1>1, <1>9 DEF traffic, vars, On
<1>10. QED
  BY <1>2, <1>3, <1>4, <1>5, <1>6, <1>7, <1>8, <1>9, StepIsOne

\* A train that does not move stays on its way.
LEMMA OthersPlaced ==
    ASSUME EngineInv, TrafficInv, Disciplined, TrafficNext, NEW u \in Trains, run'[u] = run[u]
    PROVE  \/ run'[u] = Elsewhere
           \/ \E g \in Signals : run'[u] = Waiting(g)
           \/ OnItsWay(u)'
<1>0. TypeOK /\ TrainsPlaced
  BY DEF EngineInv, PointInv, TrafficInv
<1>1. CASE OnItsWay(u)
  <2>1. Running(u)
    BY <1>1, LayoutAssumption DEF OnItsWay, Running
  <2>2. LET i == run[u].route IN
        /\ rt'[i].state \in Entered
        /\ rt'[i].plan = rt[i].plan
        /\ rt'[i].released = rt[i].released
    BY <2>1, AuthorityKept
  <2>3. QED
    BY <1>1, <2>2 DEF OnItsWay
<1>2. QED
  BY <1>0, <1>1 DEF TrainsPlaced

LEMMA PlacedStep ==
    ASSUME EngineInv, TrafficInv, Disciplined, [TrafficNext]_traffic
    PROVE  TrainsPlaced'
<1>0. TypeOK /\ TrainsPlaced /\ run \in [Trains -> Journey]
  BY DEF EngineInv, PointInv, TrafficInv, TrainsPlaced
<1> DEFINE Placed(u) == \/ run'[u] = Elsewhere
                        \/ \E g \in Signals : run'[u] = Waiting(g)
                        \/ OnItsWay(u)'
<1>1. CASE UNCHANGED traffic
  BY <1>0, <1>1 DEF traffic, vars, TrainsPlaced, OnItsWay
<1>2. ASSUME TrafficNext, NEW u \in Trains PROVE Placed(u)
  <2>1. CASE run'[u] = run[u]
    BY <1>2, <2>1, OthersPlaced
  <2>2. ASSUME NEW t \in Trains, NEW g \in Signals, Appear(t, g) PROVE Placed(u)
    <3>1. run'[t] = Waiting(g) /\ Stay(t)
      BY <2>2, AppearEnters DEF Enters
    <3>2. QED
      BY <2>1, <3>1 DEF Stay
  <2>3. ASSUME NEW t \in Trains, NEW g \in Signals, Depart(t, g) PROVE Placed(u)
    <3>1. OnItsWay(t)' /\ Stay(t)
      BY <2>3, DepartEnters DEF Enters
    <3>2. QED
      BY <2>1, <3>1 DEF Stay
  <2>4. ASSUME NEW t \in Trains, NEW g \in Signals, TurnTo(t, g) PROVE Placed(u)
    <3>1. run'[t] = Waiting(g) /\ Stay(t)
      BY <2>4, TurnStays
    <3>2. QED
      BY <2>1, <3>1 DEF Stay
  <2>5. ASSUME NEW t \in Trains, Forward(t) PROVE Placed(u)
    <3>1. OnItsWay(t)' /\ Stay(t)
      BY <2>5, ForwardEnters DEF Enters
    <3>2. QED
      BY <2>1, <3>1 DEF Stay
  <2>6. ASSUME NEW t \in Trains, Rear(t) PROVE Placed(u)
    <3>1. OnItsWay(t)' /\ Stay(t)
      BY <2>6, RearClears DEF Clears
    <3>2. QED
      BY <2>1, <3>1 DEF Stay
  <2>7. ASSUME NEW t \in Trains, Leave(t) PROVE Placed(u)
    <3>1. run'[t] = Elsewhere /\ Stay(t)
      BY <2>7, LeaveClears DEF Clears
    <3>2. QED
      BY <2>1, <3>1 DEF Stay
  <2>8. CASE Operates
    BY <2>1, <2>8 DEF Operates
  <2>9. QED
    BY <1>2, <2>2, <2>3, <2>4, <2>5, <2>6, <2>7, <2>8 DEF TrafficNext, Operates
<1>3. ASSUME TrafficNext PROVE run' \in [Trains -> Journey]
  <2>1. CASE run' = run
    BY <1>0, <2>1
  <2>2. ASSUME NEW t \in Trains, run'[t] \in Journey,
               \E x : run' = [run EXCEPT ![t] = x]
        PROVE  run' \in [Trains -> Journey]
    BY <1>0, <2>2
  <2>3. ASSUME NEW t \in Trains, NEW g \in Signals, Appear(t, g) \/ TurnTo(t, g)
        PROVE  run' \in [Trains -> Journey]
    <3>1. run'[t] = Waiting(g) /\ Waiting(g) \in Journey
      BY <2>3, AppearEnters, TurnStays, TrafficAssumption DEF Waiting, Journey
    <3>2. QED
      BY <2>2, <2>3, <3>1 DEF Appear, TurnTo
  <2>4. ASSUME NEW t \in Trains, NEW g \in Signals, Depart(t, g)
        PROVE  run' \in [Trains -> Journey]
    <3> DEFINE i == sig[g].route
               k == rt[i].plan
    <3>1. /\ i \in RouteIds /\ k \in Plans
          /\ run'[t] = [track |-> <<Ahead[g]>> \o Path(k), rear |-> 1, front |-> 2, route |-> i]
      BY <2>4, DepartEnters
    <3>2. Path(k) \in Seq(Sections) /\ Ahead[g] \in Sections
      BY <3>1, PlanFacts, TrafficAssumption
    <3> HIDE DEF i, k
    <3>3. <<Ahead[g]>> \o Path(k) \in Seq(Sections)
      BY <3>2
    <3>4. run'[t] \in Journey
      BY <3>1, <3>3 DEF Journey
    <3>5. QED
      BY <2>2, <2>4, <3>4 DEF Depart
  <2>5. ASSUME NEW t \in Trains, Forward(t) \/ Rear(t) \/ Leave(t)
        PROVE  run' \in [Trains -> Journey]
    <3>0. run[t] \in Journey
      BY <1>0
    <3>1. CASE Forward(t)
      <4>1. run'[t] = [run[t] EXCEPT !.front = run[t].front + 1]
        BY <3>1, ForwardEnters
      <4>2. run'[t] \in Journey
        BY <3>0, <4>1 DEF Journey
      <4>3. \E x : run' = [run EXCEPT ![t] = x]
        BY <3>1 DEF Forward
      <4>4. QED
        BY <2>2, <4>2, <4>3
    <3>2. CASE Rear(t)
      <4>1. run'[t] = [run[t] EXCEPT !.rear = run[t].rear + 1]
        BY <3>2, RearClears
      <4>2. run'[t] \in Journey
        BY <3>0, <4>1 DEF Journey
      <4>3. \E x : run' = [run EXCEPT ![t] = x]
        BY <3>2 DEF Rear
      <4>4. QED
        BY <2>2, <4>2, <4>3
    <3>3. CASE Leave(t)
      <4>1. run'[t] = Elsewhere /\ Elsewhere \in Journey
        BY <3>3, LeaveClears DEF Elsewhere, Journey
      <4>2. QED
        BY <2>2, <3>3, <4>1 DEF Leave
    <3>4. QED
      BY <2>5, <3>1, <3>2, <3>3
  <2>6. QED
    BY <1>3, <2>1, <2>3, <2>4, <2>5 DEF TrafficNext
<1>4. QED
  BY <1>1, <1>2, <1>3 DEF TrainsPlaced

-----------------------------------------------------------------------------
(* What a step does to the routes *)

\* Coarser: a train moves onto a section, or off one, or nothing moves.
LEMMA StepKinds ==
    ASSUME EngineInv, TrafficInv, [TrafficNext]_traffic
    PROVE  \/ \E t \in Trains, s \in Sections : Enters(t, s)
           \/ \E t \in Trains, s \in Sections : Clears(t, s)
           \/ Operates
           \/ UNCHANGED vars
<1>1. ASSUME NEW t \in Trains, NEW g \in Signals, Appear(t, g)
      PROVE  \E s \in Sections : Enters(t, s)
  BY <1>1, AppearEnters DEF Enters
<1>2. ASSUME NEW t \in Trains, NEW g \in Signals, Depart(t, g)
      PROVE  \E s \in Sections : Enters(t, s)
  BY <1>2, DepartEnters DEF Enters
<1>3. ASSUME NEW t \in Trains, Forward(t)
      PROVE  \E s \in Sections : Enters(t, s)
  BY <1>3, ForwardEnters DEF Enters
<1>4. ASSUME NEW t \in Trains, Rear(t) \/ Leave(t)
      PROVE  \E s \in Sections : Clears(t, s)
  BY <1>4, RearClears, LeaveClears DEF Clears
<1>5. ASSUME NEW t \in Trains, NEW g \in Signals, TurnTo(t, g)
      PROVE  UNCHANGED vars
  BY <1>5, TurnStays
<1>6. QED
  BY <1>1, <1>2, <1>3, <1>4, <1>5, StepIsOne DEF traffic

LEMMA EnteredStays ==
    ASSUME EngineInv, TrafficInv, [TrafficNext]_traffic, NEW i \in RouteIds, rt[i].state \in Entered
    PROVE  rt'[i].state \notin {"NONE", "POINTS_MOVING", "LOCKED", "TRAIN_COMING"}
<1> DEFINE Claim == rt'[i].state \notin {"NONE", "POINTS_MOVING", "LOCKED", "TRAIN_COMING"}
<1>0. TypeOK /\ rt[i] \in RouteRecord /\ RouteInBounds(rt[i])
  BY DEF EngineInv, PointInv, TypeOK
<1>1. rt'[i] = rt[i] => Claim
  BY DEF Entered
<1>2. rt'[i] = Cancelled(rt[i]) => Claim
  BY <1>0, CancelledType DEF Entered
<1>3. ASSUME NEW t \in Trains, NEW s \in Sections, Enters(t, s) PROVE Claim
  BY <1>0, <1>1, <1>3, EnteredFate DEF Enters
<1>4. ASSUME NEW t \in Trains, NEW s \in Sections, Clears(t, s) PROVE Claim
  <2>1. rt'[i] = OnClearance(rt[i], s, Lowered(s))
    BY <1>0, <1>4, EnteredFate DEF Clears
  <2>2. Releases(rt[i], s, Lowered(s)) =>
          OnClearance(rt[i], s, Lowered(s)).state \in {"RELEASING", "CANCEL_PENDING"} \cup TerminalStates
    BY <1>0, OnClearanceType
  <2>3. ~Releases(rt[i], s, Lowered(s)) => OnClearance(rt[i], s, Lowered(s)) = rt[i]
    BY DEF OnClearance
  <2>4. QED
    BY <1>1, <2>1, <2>2, <2>3 DEF TerminalStates
<1>5. CASE Operates
  <2>1. ASSUME NEW j \in RouteIds, NEW k \in Plans, Request(j, k) PROVE Claim
    BY <1>0, <1>1, <2>1, EnteredFate DEF Request
  <2>2. ASSUME NEW j \in RouteIds, Cancel(j) PROVE Claim
    <3>1. \/ rt'[i].state \in Entered
          \/ rt'[i] = Cancelled(rt[i])
      BY <1>0, <2>2, EnteredFate DEF Cancel
    <3>2. QED
      BY <1>2, <3>1 DEF Entered
  <2>3. ASSUME NEW delta \in Deltas, AdvanceClock(delta) PROVE Claim
    BY <1>0, <1>1, <1>2, <2>3, EnteredFate
  <2>4. CASE \/ \E g \in Signals : SetSignalRed(g)
             \/ \E p \in Points, dir \in OperatorDirs : OperatePoint(p, dir)
    <3>1. rt' = rt
      BY <2>4 DEF SetSignalRed, OperatePoint
    <3>2. QED
      BY <1>1, <3>1
  <2>5. QED
    BY <1>5, <2>1, <2>2, <2>3, <2>4 DEF Operates
<1>6. CASE UNCHANGED vars
  BY <1>1, <1>6 DEF vars
<1>7. QED
  BY <1>3, <1>4, <1>5, <1>6, StepKinds

\* A route that still waits for its train waited before, with the same plan, or
\* is new, and has released nothing.
LEMMA BeforeTrain ==
    ASSUME EngineInv, TrafficInv, [TrafficNext]_traffic, NEW i \in RouteIds,
           rt'[i].state \in {"POINTS_MOVING", "LOCKED", "TRAIN_COMING"}
    PROVE  \/ /\ rt[i].state \in {"POINTS_MOVING", "LOCKED", "TRAIN_COMING"}
              /\ rt'[i].plan = rt[i].plan /\ rt'[i].released = rt[i].released
           \/ \E k \in Plans : /\ StartMoves(i, k) \/ ClearAtOnce(i, k)
                               /\ rt'[i].plan = k /\ rt'[i].released = 0
<1>0. TypeOK /\ [Next]_vars /\ IsActive(rt'[i]) /\ rt[i] \in RouteRecord /\ RouteInBounds(rt[i])
  BY EngineStep DEF EngineInv, PointInv, TypeOK, IsActive, ActiveStates
<1>1. CASE IsActive(rt[i])
  <2>1. rt[i].state \in {"POINTS_MOVING", "LOCKED", "TRAIN_COMING"}
    BY <1>1, EnteredStays DEF IsActive, ActiveStates, Entered
  <2>2. \A s, low : ~Releases(rt[i], s, low)
    BY <2>1 DEF Releases
  <2>3. Cancelled(rt[i]).state = "CANCELLED"
    BY <1>0, <2>1, CancelledType
  <2>4. rt'[i].plan = rt[i].plan /\ rt'[i].released = rt[i].released
    BY <1>0, <1>1, <2>2, <2>3, ActiveFate
  <2>5. QED
    BY <2>1, <2>4
<1>2. ASSUME NEW k \in Plans, StartMoves(i, k) \/ ClearAtOnce(i, k)
      PROVE  rt'[i].plan = k /\ rt'[i].released = 0
  <2>1. \E st : rt' = [rt EXCEPT ![i] = NewRoute(k, st, clock)]
    BY <1>0, <1>2, Granted
  <2>2. rt \in [RouteIds -> RouteRecord]
    BY <1>0 DEF TypeOK
  <2>3. QED
    BY <2>1, <2>2 DEF NewRoute
<1>3. QED
  BY <1>0, <1>1, <1>2, NewlyActive

LEMMA NotBegunStep ==
    ASSUME EngineInv, TrafficInv, [TrafficNext]_traffic
    PROVE  NotBegun'
<1>1. NotBegun
  BY DEF TrafficInv
<1>2. QED
  BY <1>1, BeforeTrain DEF NotBegun

\* A step onto one section changes the count of that section only.
LEMMA EnterCounts ==
    ASSUME TypeOK, NEW t \in Trains, NEW x \in Sections, Enters(t, x),
           NEW s \in Sections, s # x
    PROVE  sec'[s].occ = sec[s].occ
BY DEF Enters, ReportOccupancy, TypeOK

\* Nobody moves onto the way ahead of another train.
LEMMA WayOfOthers ==
    ASSUME EngineInv, TrafficInv, [TrafficNext]_traffic,
           NEW u \in Trains, Running(u), run'[u] = run[u],
           NEW j \in (run[u].front + 1)..Len(run[u].track)
    PROVE  sec'[run[u].track[j]].occ = 0
<1> DEFINE i == run[u].route
           y == run[u].track[j]
<1>0. /\ TypeOK /\ TrainsPlaced /\ WayIsFree /\ SectionsHeld /\ OccIsTrains
  BY DEF EngineInv, PointInv, TrafficInv
<1>1. /\ i \in RouteIds /\ IsActive(rt[i]) /\ OnItsWay(u) /\ y \in Unreleased(rt[i])
  BY <1>0, RunFacts
<1>2. y \in Sections /\ sec[y].lock = i /\ sec[y].occ = 0
  BY <1>0, <1>1, UnreleasedOnPath DEF SectionsHeld, WayIsFree
<1> HIDE DEF y
<1>3. ASSUME NEW t \in Trains, NEW x \in Sections, Enters(t, x)
      PROVE  sec'[y].occ = 0
  <2>1. t # u
    <3>1. \A v \in Trains : x \notin On(v)
      BY <1>0, <1>3 DEF Enters, OccIsTrains
    <3>2. x \in On(t)'
      BY <1>3 DEF Enters
    <3>3. On(u)' = On(u)
      BY DEF On
    <3>4. QED
      BY <3>1, <3>2, <3>3
  <2>2. rt[i].state \in Entered
    BY <1>1 DEF OnItsWay
  <2>3. x # y
    <3>1. SUFFICES ASSUME x = y PROVE FALSE
      OBVIOUS
    <3>2. Running(t) /\ run[t].route = i
      BY <1>1, <1>2, <1>3, <2>2, <3>1 DEF Enters, Entered
    <3>3. Path(rt[i].plan)[rt[i].released + 1] \in On(t)
      BY <1>0, <3>2, RunFacts
    <3>4. t = u
      BY <3>3, TrainOnRoute
    <3>5. QED
      BY <2>1, <3>4
  <2>4. QED
    BY <1>0, <1>2, <1>3, <2>3, EnterCounts
<1>4. ASSUME NEW t \in Trains, NEW x \in Sections, Clears(t, x)
      PROVE  sec'[y].occ = 0
  <2>1. \A z \in Sections : sec[z].occ = 0 => sec'[z].occ = 0
    BY <1>4, ClearPlaces
  <2>2. QED
    BY <1>2, <2>1
<1>5. CASE Operates
  <2>1. \A z \in Sections : sec'[z].occ = sec[z].occ
    BY <1>0, <1>5, OperatesSpares
  <2>2. QED
    BY <1>2, <2>1 DEF y
<1>6. CASE UNCHANGED vars
  BY <1>2, <1>6 DEF vars, y
<1>7. QED
  BY <1>3, <1>4, <1>5, <1>6, StepKinds DEF y

\* Nobody is on the way ahead of a train.
LEMMA TrainWayStep ==
    ASSUME EngineInv, TrafficInv, [TrafficNext]_traffic, NEW u \in Trains, Running(u)',
           NEW j \in (run'[u].front + 1)..Len(run'[u].track)
    PROVE  sec'[run'[u].track[j]].occ = 0
<1> DEFINE Claim == sec'[run'[u].track[j]].occ = 0
<1>0. /\ TypeOK /\ TrainsPlaced /\ WayIsFree /\ run[u] \in Journey
  BY DEF EngineInv, PointInv, TrafficInv, TrainsPlaced
<1>1. CASE run'[u] = run[u]
  <2>1. Running(u) /\ j \in (run[u].front + 1)..Len(run[u].track)
    BY <1>1 DEF Running
  <2>2. QED
    BY <1>1, <2>1, WayOfOthers
<1>2. ASSUME NEW t \in Trains, Stay(t), run'[u] # run[u] PROVE u = t
  BY <1>2 DEF Stay
<1>3. ASSUME NEW g \in Signals, run'[u] = Waiting(g) PROVE FALSE
  BY <1>3 DEF Running, Waiting
<1>4. run'[u] # Elsewhere
  BY DEF Running, Elsewhere
<1>5. ASSUME NEW g \in Signals, Depart(u, g) PROVE Claim
  <2> DEFINE k == rt[sig[g].route].plan
  <2>1. /\ Enters(u, First(k)) /\ k \in Plans
        /\ run'[u] = [track |-> <<Ahead[g]>> \o Path(k), rear |-> 1, front |-> 2,
                      route |-> sig[g].route]
    BY <1>5, DepartEnters
  <2>2. \A s \in PathSet(k) : sec[s].occ = 0
    BY <1>5, ProceedFacts DEF Depart
  <2>3. Path(k) \in Seq(Sections) /\ Len(Path(k)) \in Nat \ {0} /\ Ahead[g] \in Sections
        /\ PathSet(k) \subseteq Sections
    BY <2>1, PlanFacts, TrafficAssumption
  <2> HIDE DEF k
  <2>4. /\ Len(<<Ahead[g]>> \o Path(k)) = Len(Path(k)) + 1
        /\ \A n \in 2..(Len(Path(k)) + 1) : (<<Ahead[g]>> \o Path(k))[n] = Path(k)[n - 1]
    BY <2>3
  <2>5. j \in 3..(Len(Path(k)) + 1)
    BY <2>1, <2>4
  <2>6. j - 1 \in 1..Len(Path(k)) /\ j - 1 # 1 /\ 1 \in 1..Len(Path(k))
        /\ j \in 2..(Len(Path(k)) + 1)
    BY <2>3, <2>5
  <2>7. run'[u].track[j] = Path(k)[j - 1]
    BY <2>1, <2>4, <2>6
  <2>8. Path(k)[j - 1] # First(k)
    BY <2>1, <2>6, PathOnce DEF First
  <2>9. Path(k)[j - 1] \in PathSet(k)
    BY <2>6 DEF PathSet
  <2>10. sec'[Path(k)[j - 1]].occ = sec[Path(k)[j - 1]].occ
    <3>1. Path(k)[j - 1] \in Sections /\ First(k) \in Sections
      BY <2>1, <2>3, <2>9 DEF Enters
    <3>2. QED
      BY <1>0, <2>1, <2>8, <3>1, EnterCounts
  <2>11. QED
    BY <2>2, <2>7, <2>9, <2>10
<1>6. CASE Forward(u)
  <2> DEFINE x == run[u].track[run[u].front + 1]
  <2>1. /\ Enters(u, x) /\ Running(u) /\ run'[u] = [run[u] EXCEPT !.front = run[u].front + 1]
    BY <1>6, ForwardEnters
  <2>2. run'[u].front = run[u].front + 1 /\ run'[u].track = run[u].track
    BY <1>0, <2>1 DEF Journey
  <2>3. run[u].front \in Nat /\ Len(run[u].track) \in Nat /\ run[u].track \in Seq(Sections)
    BY <1>0 DEF Journey
  <2>4. /\ j \in (run[u].front + 1)..Len(run[u].track) /\ j # run[u].front + 1
        /\ j \in 1..Len(run[u].track) /\ run[u].front + 1 \in 1..Len(run[u].track)
    BY <2>2, <2>3
  <2>5. run[u].track[j] # x /\ sec[run[u].track[j]].occ = 0
    BY <1>0, <2>1, <2>4, TrackOnce DEF WayIsFree
  <2>6. run[u].track[j] \in Sections
    BY <2>3, <2>4
  <2> HIDE DEF x
  <2>7. sec'[run[u].track[j]].occ = sec[run[u].track[j]].occ
    BY <1>0, <2>1, <2>5, <2>6, EnterCounts DEF Enters
  <2>8. QED
    BY <2>2, <2>5, <2>7
<1>7. CASE Rear(u)
  <2>1. /\ Clears(u, run[u].track[run[u].rear]) /\ Running(u)
        /\ run'[u] = [run[u] EXCEPT !.rear = run[u].rear + 1]
    BY <1>7, RearClears
  <2>2. run'[u].front = run[u].front /\ run'[u].track = run[u].track
    BY <1>0, <2>1 DEF Journey
  <2>3. run[u].track \in Seq(Sections) /\ run[u].front \in Nat
    BY <1>0 DEF Journey
  <2>4. /\ j \in (run[u].front + 1)..Len(run[u].track) /\ j \in 1..Len(run[u].track)
    BY <2>2, <2>3
  <2>5. sec[run[u].track[j]].occ = 0 /\ run[u].track[j] \in Sections
    BY <1>0, <2>1, <2>3, <2>4 DEF WayIsFree
  <2>6. QED
    BY <2>1, <2>2, <2>5, ClearPlaces
<1>8. ASSUME NEW t \in Trains, Stay(t), t = u => Claim PROVE Claim
  BY <1>1, <1>2, <1>8
<1>9. ASSUME NEW t \in Trains, NEW g \in Signals, Appear(t, g) PROVE Claim
  BY <1>3, <1>8, <1>9, AppearEnters DEF Enters
<1>10. ASSUME NEW t \in Trains, NEW g \in Signals, Depart(t, g) PROVE Claim
  <2>1. Stay(t)
    BY <1>10, DepartEnters DEF Enters
  <2>2. QED
    BY <1>5, <1>8, <1>10, <2>1
<1>11. ASSUME NEW t \in Trains, NEW g \in Signals, TurnTo(t, g) PROVE Claim
  BY <1>3, <1>8, <1>11, TurnStays
<1>12. ASSUME NEW t \in Trains, Forward(t) PROVE Claim
  <2>1. Stay(t)
    BY <1>12, ForwardEnters DEF Enters
  <2>2. QED
    BY <1>6, <1>8, <1>12, <2>1
<1>13. ASSUME NEW t \in Trains, Rear(t) PROVE Claim
  <2>1. Stay(t)
    BY <1>13, RearClears DEF Clears
  <2>2. QED
    BY <1>7, <1>8, <1>13, <2>1
<1>14. ASSUME NEW t \in Trains, Leave(t) PROVE Claim
  BY <1>4, <1>8, <1>14, LeaveClears DEF Clears
<1>15. CASE Operates \/ UNCHANGED traffic
  BY <1>1, <1>15 DEF Operates, traffic
<1>16. QED
  BY <1>9, <1>10, <1>11, <1>12, <1>13, <1>14, <1>15, StepIsOne

\* A route that opens finds its path free.
LEMMA OpensFree ==
    ASSUME EngineInv, TrafficInv, [TrafficNext]_traffic, NEW i \in RouteIds,
           rt'[i].state \in {"LOCKED", "TRAIN_COMING"},
           rt[i].state \notin {"LOCKED", "TRAIN_COMING"}
    PROVE  \A s \in PathSet(rt'[i].plan) : sec'[s].occ = 0
<1>0. TypeOK /\ [Next]_vars /\ sec \in [Sections -> SectionRecord]
      /\ rt \in [RouteIds -> RouteRecord]
  BY EngineStep DEF EngineInv, PointInv, TypeOK
<1>1. ASSUME NEW k \in Plans, ClearAtOnce(i, k), rt'[i].plan = k
      PROVE  \A s \in PathSet(rt'[i].plan) : sec'[s].occ = 0
  <2>1. /\ sec' = LockSections(sec, PathSet(k), i)
        /\ CanClear(k, i, sec', pt', sig)
    BY <1>1 DEF ClearAtOnce
  <2>2. QED
    BY <1>1, <2>1 DEF CanClear, ElementsReady
<1>2. ASSUME NEW delta \in Deltas, AdvanceClock(delta), rt'[i].plan = rt[i].plan,
             i \in Openable(Detections(clock + delta))
      PROVE  \A s \in PathSet(rt'[i].plan) : sec'[s].occ = 0
  <2>1. \A s \in PathSet(rt[i].plan) : sec[s].occ = 0
    BY <1>2 DEF Openable, CanClear, ElementsReady
  <2>2. rt[i].plan \in Plans
    BY <1>0, <1>2 DEF Openable, TypeOK, RouteInBounds
  <2>3. \E S : sec' = LockSections(sec, S, NoRoute)
    BY <1>2 DEF AdvanceClock
  <2>4. PathSet(rt[i].plan) \subseteq Sections
    BY <2>2, PlanFacts
  <2>5. QED
    BY <1>0, <1>2, <2>1, <2>3, <2>4, LockSectionsFields
<1>3. CASE rt[i].state \in Entered
  BY <1>3, EnteredStays
<1>4. QED
  BY <1>0, <1>1, <1>2, <1>3, NewlyLaid DEF LaidStates, Entered

\* Nobody is on a path whose route waits for its train.
LEMMA RouteWayStep ==
    ASSUME EngineInv, TrafficInv, [TrafficNext]_traffic, NEW i \in RouteIds,
           rt'[i].state \in {"LOCKED", "TRAIN_COMING"}
    PROVE  \A s \in PathSet(rt'[i].plan) : sec'[s].occ = 0
<1>0. /\ TypeOK /\ WayIsFree /\ NotBegun /\ SectionsHeld
  BY DEF EngineInv, PointInv, TrafficInv
<1>1. CASE rt[i].state \in {"LOCKED", "TRAIN_COMING"}
  <2> DEFINE k == rt[i].plan
  <2>1. rt'[i].plan = k /\ rt[i].state # "NONE" /\ IsActive(rt[i])
    <3>1. IsActive(rt[i]) /\ IsActive(rt'[i]) /\ rt[i].state # "NONE"
      BY <1>1 DEF IsActive, ActiveStates
    <3>2. [Next]_vars
      BY EngineStep
    <3>3. QED
      BY <1>0, <3>1, <3>2, NewlyActive
  <2>2. k \in Plans /\ rt[i].released = 0
    BY <1>0, <1>1, <2>1, ActiveFacts DEF NotBegun
  <2>3. Unreleased(rt[i]) = PathSet(k)
    BY <2>2 DEF Unreleased, PathSet
  <2>4. \A s \in PathSet(k) : s \in Sections /\ sec[s].occ = 0 /\ sec[s].lock = i
    BY <1>0, <1>1, <2>1, <2>2, <2>3, PlanFacts DEF WayIsFree, SectionsHeld
  <2> HIDE DEF k
  <2>5. ASSUME NEW t \in Trains, NEW x \in Sections, Enters(t, x), NEW s \in PathSet(k)
        PROVE  sec'[s].occ = 0
    <3>1. s # x
      BY <1>1, <2>4, <2>5 DEF Enters, Entered
    <3>2. QED
      BY <1>0, <2>4, <2>5, <3>1, EnterCounts
  <2>6. ASSUME NEW t \in Trains, NEW x \in Sections, Clears(t, x), NEW s \in PathSet(k)
        PROVE  sec'[s].occ = 0
    <3>1. \A z \in Sections : sec[z].occ = 0 => sec'[z].occ = 0
      BY <2>6, ClearPlaces
    <3>2. QED
      BY <2>4, <3>1
  <2>7. ASSUME Operates, NEW s \in PathSet(k)
        PROVE  sec'[s].occ = 0
    <3>1. \A z \in Sections : sec'[z].occ = sec[z].occ
      BY <1>0, <2>7, OperatesSpares
    <3>2. QED
      BY <2>4, <3>1
  <2>8. ASSUME UNCHANGED vars, NEW s \in PathSet(k)
        PROVE  sec'[s].occ = 0
    BY <2>4, <2>8 DEF vars
  <2>9. QED
    BY <2>1, <2>5, <2>6, <2>7, <2>8, StepKinds
<1>2. QED
  BY <1>1, OpensFree

LEMMA WayStep ==
    ASSUME EngineInv, TrafficInv, [TrafficNext]_traffic
    PROVE  WayIsFree'
<1>1. \A u \in Trains : Running(u)' =>
        \A j \in (run'[u].front + 1)..Len(run'[u].track) : sec'[run'[u].track[j]].occ = 0
  BY TrainWayStep
<1>2. \A i \in RouteIds : rt'[i].state \in {"LOCKED", "TRAIN_COMING"} =>
        \A s \in PathSet(rt'[i].plan) : sec'[s].occ = 0
  BY RouteWayStep
<1>3. QED
  BY <1>1, <1>2 DEF WayIsFree

-----------------------------------------------------------------------------
(* What a step does to the locks *)

\* Where a disciplined operator works, a cancelled route gives back only what it
\* still has.
LEMMA NoStrip ==
    ASSUME EngineInv, TrafficInv, Disciplined, [TrafficNext]_traffic
    PROVE  ~CancelStripsReleased
<1> SUFFICES ASSUME NEW c \in RouteIds, rt[c].state # "CANCELLED", rt'[c].state = "CANCELLED",
                    NEW j \in 1..rt[c].released
             PROVE  sec'[Path(rt[c].plan)[j]].lock = sec[Path(rt[c].plan)[j]].lock
  BY DEF CancelStripsReleased
<1> DEFINE k == rt[c].plan
           s == Path(k)[j]
           Claim == sec'[s].lock = sec[s].lock
<1>0. /\ TypeOK /\ [Next]_vars /\ NotBegun /\ PendingAlone /\ NoStaleLock
      /\ rt[c] \in RouteRecord /\ RouteInBounds(rt[c])
      /\ sec \in [Sections -> SectionRecord] /\ rt \in [RouteIds -> RouteRecord]
  BY EngineStep DEF EngineInv, PointInv, TypeOK, TrafficInv
<1>1. IsActive(rt[c])
  <2>1. SUFFICES ASSUME ~IsActive(rt[c]) PROVE FALSE
    OBVIOUS
  <2>2. PICK n \in Plans : StartMoves(c, n) \/ ClearAtOnce(c, n)
    BY <1>0, <2>1, InactiveFate
  <2>3. IsActive(rt'[c])
    BY <1>0, <2>2, GrantedHolds
  <2>4. QED
    BY <2>3 DEF IsActive, ActiveStates
<1>2. k \in Plans /\ rt[c].released \in Nat /\ rt[c].released # 0 /\ rt[c].released <= Len(Path(k))
      /\ Len(Path(k)) \in Nat
  BY <1>0, <1>1, ActiveFacts, PlanFacts DEF RouteInBounds, IsActive, ActiveStates
<1>3. rt[c].state \in Entered
  BY <1>0, <1>1, <1>2 DEF NotBegun, IsActive, ActiveStates, Entered
<1>4. j \in 1..Len(Path(k)) /\ s \in PathSet(k) /\ s \in Sections
  BY <1>2, PlanFacts DEF PathSet
<1>5. rt'[c] # rt[c]
  OBVIOUS
<1>6. ASSUME NEW t \in Trains, NEW x \in Sections, Enters(t, x) PROVE FALSE
  BY <1>0, <1>3, <1>5, <1>6, EnteredFate DEF Enters
<1>7. ASSUME NEW t \in Trains, NEW x \in Sections, Clears(t, x) PROVE Claim
  <2>1. rt'[c] = OnClearance(rt[c], x, Lowered(x)) /\ ReportClearance(x)
    BY <1>0, <1>3, <1>7, EnteredFate DEF Clears
  <2>2. Releases(rt[c], x, Lowered(x))
    BY <1>5, <2>1 DEF OnClearance
  <2>3. x = Path(k)[rt[c].released + 1] /\ rt[c].released + 1 \in 1..Len(Path(k))
    BY <1>2, <2>2 DEF Releases
  <2>4. x # s
    BY <1>2, <1>4, <2>3, PathOnce
  <2>5. \E S : sec' = LockSections(Lowered(x), S, NoRoute) /\ S \subseteq {x}
    BY <2>1 DEF ReportClearance
  <2>6. Lowered(x) \in [Sections -> SectionRecord] /\ Lowered(x)[s] = sec[s]
    BY <1>0, <1>4, <2>4 DEF Lowered, SectionRecord
  <2>7. QED
    BY <1>4, <2>4, <2>5, <2>6, LockSectionsFields
<1>8. CASE Operates
  <2>1. ASSUME NEW i \in RouteIds, NEW n \in Plans, Request(i, n) PROVE FALSE
    BY <1>0, <1>3, <1>5, <2>1, EnteredFate DEF Request
  <2>2. ASSUME NEW i \in RouteIds, Cancel(i) PROVE FALSE
    <3>1. CancelRoute(i) /\ rt[i].released = 0
      BY <2>2 DEF Cancel
    <3>2. i # c
      BY <1>2, <3>1
    <3>3. rt'[c].state \in Entered
      BY <1>0, <1>3, <3>1, <3>2, EnteredFate
    <3>4. QED
      BY <3>3 DEF Entered
  <2>3. ASSUME NEW delta \in Deltas, AdvanceClock(delta) PROVE Claim
    <3>1. rt[c].state = "CANCEL_PENDING"
      BY <1>0, <1>3, <1>5, <2>3, EnteredFate
    <3>2. sec[s].lock \in {NoRoute, c}
      BY <1>0, <1>4, <3>1 DEF PendingAlone
    <3>3. s \notin Unreleased(rt[c])
      <4>1. SUFFICES ASSUME s \in Unreleased(rt[c]) PROVE FALSE
        OBVIOUS
      <4>2. PICK m \in (rt[c].released + 1)..Len(Path(k)) : s = Path(k)[m]
        BY <4>1 DEF Unreleased
      <4>3. m \in 1..Len(Path(k)) /\ m # j
        BY <1>2, <4>2
      <4>4. QED
        BY <1>2, <1>4, <4>2, <4>3, PathOnce
    <3>4. sec[s].lock = NoRoute
      BY <1>0, <1>4, <3>2, <3>3, LayoutAssumption DEF NoStaleLock
    <3>5. \E S : sec' = LockSections(sec, S, NoRoute)
      BY <2>3 DEF AdvanceClock
    <3>6. QED
      BY <1>0, <1>4, <3>4, <3>5, LockSectionsFields
  <2>4. CASE \/ \E g \in Signals : SetSignalRed(g)
             \/ \E p \in Points, dir \in OperatorDirs : OperatePoint(p, dir)
    BY <1>5, <2>4 DEF SetSignalRed, OperatePoint
  <2>5. QED
    BY <1>8, <2>1, <2>2, <2>3, <2>4 DEF Operates
<1>9. CASE UNCHANGED vars
  BY <1>5, <1>9 DEF vars
<1>10. QED
  BY <1>6, <1>7, <1>8, <1>9, StepKinds

\* A route is set up because somebody asked for it.
LEMMA GrantIsRequested ==
    ASSUME EngineInv, TrafficInv, [TrafficNext]_traffic, NEW i \in RouteIds, NEW k \in Plans,
           StartMoves(i, k) \/ ClearAtOnce(i, k)
    PROVE  Request(i, k)
<1>0. TypeOK /\ [Next]_vars /\ rt[i].state = "NONE" /\ rt \in [RouteIds -> RouteRecord]
      /\ rt[i] \in RouteRecord
  BY Granted, EngineStep DEF EngineInv, PointInv, TypeOK, Accepted
<1>1. rt'[i].state # "NONE" /\ rt'[i].plan = k
  <2>1. IsActive(rt'[i]) /\ rt'[i].plan = k
    BY <1>0, GrantedHolds
  <2>2. QED
    BY <2>1 DEF IsActive, ActiveStates
<1>2. ~IsActive(rt[i])
  BY <1>0 DEF IsActive, ActiveStates
<1>3. ASSUME rt'[i] = rt[i] PROVE FALSE
  BY <1>0, <1>1, <1>3
<1>4. ASSUME NEW x \in Sections, ReportOccupancy(x) \/ ReportClearance(x) PROVE FALSE
  <2>1. rt'[i] = rt[i]
    <3>1. CASE ReportOccupancy(x)
      BY <1>2, <3>1 DEF ReportOccupancy
    <3>2. CASE ReportClearance(x)
      BY <1>0, <3>2 DEF ReportClearance, OnClearance, Releases
    <3>3. QED
      BY <1>4, <3>1, <3>2
  <2>2. QED
    BY <1>3, <2>1
<1>5. CASE Operates
  <2>1. ASSUME NEW j \in RouteIds, NEW n \in Plans, Request(j, n) PROVE Request(i, k)
    <3>1. CASE SetupFails(j, n) \/ ClearRefused(j, n)
      BY <1>0, <1>3, <3>1, TurnedDown
    <3>2. CASE StartMoves(j, n) \/ ClearAtOnce(j, n)
      <4>1. \E st : rt' = [rt EXCEPT ![j] = NewRoute(n, st, clock)]
        BY <1>0, <3>2, Granted
      <4>2. j = i
        BY <1>0, <1>3, <4>1
      <4>3. n = k
        BY <1>0, <1>1, <3>2, <4>2, GrantedHolds
      <4>4. QED
        BY <2>1, <4>2, <4>3
    <3>3. QED
      BY <2>1, <3>1, <3>2 DEF Request, RequestRoute
  <2>2. ASSUME NEW j \in RouteIds, Cancel(j) PROVE FALSE
    <3>1. IsActive(rt[j]) /\ CancelRoute(j)
      BY <2>2 DEF Cancel, CancelRoute
    <3>2. j # i
      BY <1>2, <3>1
    <3>3. rt'[i] = rt[i]
      BY <1>0, <3>1, <3>2 DEF CancelRoute
    <3>4. QED
      BY <1>3, <3>3
  <2>3. ASSUME NEW delta \in Deltas, AdvanceClock(delta) PROVE FALSE
    <3>1. /\ i \notin Due(clock + delta)
          /\ \A npt, pick : i \notin Winners(npt, pick)
      BY <1>0 DEF Due, BackstopDue, Winners, Openable
    <3>2. rt'[i] = rt[i]
      BY <2>3, <3>1 DEF AdvanceClock
    <3>3. QED
      BY <1>3, <3>2
  <2>4. CASE \/ \E g \in Signals : SetSignalRed(g)
             \/ \E p \in Points, dir \in OperatorDirs : OperatePoint(p, dir)
    BY <1>3, <2>4 DEF SetSignalRed, OperatePoint
  <2>5. QED
    BY <1>5, <2>1, <2>2, <2>3, <2>4 DEF Operates
<1>6. CASE UNCHANGED vars
  BY <1>3, <1>6 DEF vars
<1>7. QED
  BY <1>4, <1>5, <1>6, StepKinds DEF Enters, Clears

LEMMA NewlyPending ==
    ASSUME EngineInv, TrafficInv, Disciplined, [TrafficNext]_traffic, NEW c \in RouteIds,
           rt[c].state # "CANCEL_PENDING", rt'[c].state = "CANCEL_PENDING"
    PROVE  IsActive(rt[c]) /\ rt[c].released = 0 /\ sec' = sec /\ rt'[c].plan = rt[c].plan
<1> DEFINE Claim == IsActive(rt[c]) /\ rt[c].released = 0 /\ sec' = sec /\ rt'[c].plan = rt[c].plan
<1>0. /\ TypeOK /\ rt \in [RouteIds -> RouteRecord] /\ rt[c] \in RouteRecord
      /\ RouteInBounds(rt[c])
  BY DEF EngineInv, PointInv, TypeOK
<1>1. rt'[c] # rt[c]
  OBVIOUS
<1>2. ASSUME NEW t \in Trains, NEW x \in Sections, Enters(t, x) PROVE FALSE
  <2>1. rt'[c] = OnOccupancy(rt[c], x)
    BY <1>1, <1>2 DEF Enters, ReportOccupancy
  <2>2. rt'[c].state \in {"TRAIN_COMING", "TRAIN_IN_ROUTE"}
    BY <1>0, <1>1, <2>1, OnOccupancyType
  <2>3. QED
    BY <2>2
<1>3. ASSUME NEW t \in Trains, NEW x \in Sections, Clears(t, x) PROVE FALSE
  <2>1. rt'[c] = OnClearance(rt[c], x, Lowered(x))
    BY <1>3 DEF Clears, ReportClearance
  <2>2. Releases(rt[c], x, Lowered(x))
    BY <1>1, <2>1 DEF OnClearance
  <2>3. rt'[c].state \in {"RELEASED", "RELEASING", "CANCELLED"}
    BY <1>0, <2>1, <2>2 DEF OnClearance, RouteRecord
  <2>4. QED
    BY <2>3
<1>4. CASE Operates
  <2>1. ASSUME NEW i \in RouteIds, NEW n \in Plans, Request(i, n) PROVE FALSE
    <3>1. CASE SetupFails(i, n) \/ ClearRefused(i, n)
      BY <1>0, <1>1, <3>1, TurnedDown
    <3>2. CASE StartMoves(i, n) \/ ClearAtOnce(i, n)
      <4>1. \E st \in {"POINTS_MOVING", "LOCKED"} : rt' = [rt EXCEPT ![i] = NewRoute(n, st, clock)]
        BY <1>0, <3>2, Granted
      <4>2. i = c
        BY <1>0, <1>1, <4>1
      <4>3. rt'[c].state \in {"POINTS_MOVING", "LOCKED"}
        BY <1>0, <4>1, <4>2 DEF NewRoute
      <4>4. QED
        BY <4>3
    <3>3. QED
      BY <2>1, <3>1, <3>2 DEF Request, RequestRoute
  <2>2. ASSUME NEW i \in RouteIds, Cancel(i) PROVE Claim
    <3>1. CancelRoute(i) /\ rt[i].released = 0 /\ IsActive(rt[i])
      BY <2>2 DEF Cancel, CancelRoute
    <3>2. CASE CancelsAtOnce(rt[i], sec)
      <4>1. rt' = [rt EXCEPT ![i] = Cancelled(rt[i])]
        BY <3>1, <3>2 DEF CancelRoute
      <4>2. rt'[c] = Cancelled(rt[c])
        BY <1>0, <1>1, <4>1
      <4>3. rt[c].state # "NONE"
        BY <1>0, <1>1, <3>1, <4>1 DEF IsActive, ActiveStates
      <4>4. rt'[c].state = "CANCELLED"
        BY <1>0, <4>2, <4>3, CancelledType
      <4>5. QED
        BY <4>4
    <3>3. CASE ~CancelsAtOnce(rt[i], sec)
      <4>1. /\ rt' = [rt EXCEPT ![i].state = "CANCEL_PENDING",
                                ![i].deadline = CancelDeadline(rt[i])]
            /\ sec' = sec
        BY <3>1, <3>3 DEF CancelRoute
      <4>2. i = c
        BY <1>0, <1>1, <4>1
      <4>3. rt'[c].plan = rt[c].plan
        BY <1>0, <4>1, <4>2 DEF RouteRecord
      <4>4. QED
        BY <3>1, <4>1, <4>2, <4>3
    <3>4. QED
      BY <3>2, <3>3
  <2>3. ASSUME NEW delta \in Deltas, AdvanceClock(delta) PROVE FALSE
    <3> DEFINE npt == Detections(clock + delta)
    <3>1. PICK pick \in Picks(npt) :
            rt' = [j \in RouteIds |->
                     IF j \in Winners(npt, pick)
                     THEN [rt[j] EXCEPT !.state = "LOCKED", !.timed = clock + delta > 0]
                     ELSE IF j \in Due(clock + delta) THEN Cancelled(rt[j]) ELSE rt[j]]
      BY <2>3 DEF AdvanceClock
    <3>2. c \notin Due(clock + delta)
      BY DEF Due, BackstopDue
    <3>3. rt'[c] = [rt[c] EXCEPT !.state = "LOCKED", !.timed = clock + delta > 0]
      BY <1>1, <3>1, <3>2
    <3>4. QED
      BY <1>0, <3>3 DEF RouteRecord
  <2>4. CASE \/ \E g \in Signals : SetSignalRed(g)
             \/ \E p \in Points, dir \in OperatorDirs : OperatePoint(p, dir)
    BY <1>1, <2>4 DEF SetSignalRed, OperatePoint
  <2>5. QED
    BY <1>4, <2>1, <2>2, <2>3, <2>4 DEF Operates
<1>5. CASE UNCHANGED vars
  BY <1>1, <1>5 DEF vars
<1>6. QED
  BY <1>2, <1>3, <1>4, <1>5, StepKinds

LEMMA PendingStep ==
    ASSUME EngineInv, TrafficInv, Disciplined, [TrafficNext]_traffic
    PROVE  PendingAlone'
<1> SUFFICES ASSUME NEW c \in RouteIds, rt'[c].state = "CANCEL_PENDING",
                    NEW s \in PathSet(rt'[c].plan)
             PROVE  sec'[s].lock \in {NoRoute, c}
  BY DEF PendingAlone
<1>0. /\ TypeOK /\ [Next]_vars /\ PendingAlone /\ SectionsHeld /\ IsActive(rt'[c])
  BY EngineStep DEF EngineInv, PointInv, TrafficInv, IsActive, ActiveStates
<1>1. CASE rt[c].state = "CANCEL_PENDING"
  <2> DEFINE j == sec'[s].lock
  <2>1. rt[c].state # "NONE" /\ IsActive(rt[c])
    BY <1>1 DEF IsActive, ActiveStates
  <2>2. rt'[c].plan = rt[c].plan
    BY <1>0, <2>1, NewlyActive
  <2>3. rt[c].plan \in Plans
    BY <1>0, <2>1, ActiveFacts
  <2>4. s \in Sections /\ s \in PathSet(rt[c].plan)
    BY <2>2, <2>3, PlanFacts
  <2>5. sec[s].lock \in {NoRoute, c}
    BY <1>0, <1>1, <2>4 DEF PendingAlone
  <2>6. j \in Ids
    BY <1>0, <2>4, NextType DEF TypeOK, SectionRecord
  <2>7. ASSUME j \in RouteIds, j # c PROVE FALSE
    <3>1. sec[s].lock # j
      BY <2>5, <2>7, LayoutAssumption
    <3>2. PICK k \in Plans : s \in PathSet(k) /\ (StartMoves(j, k) \/ ClearAtOnce(j, k))
      BY <1>0, <2>4, <2>7, <3>1, LocksTaken
    <3>3. Request(j, k)
      BY <2>7, <3>2, GrantIsRequested
    <3>4. PathSet(rt[c].plan) \cap PathSet(k) = {}
      BY <1>1, <3>3 DEF Request
    <3>5. QED
      BY <2>4, <3>2, <3>4
  <2>8. QED
    BY <2>6, <2>7
<1>2. CASE rt[c].state # "CANCEL_PENDING"
  <2>1. IsActive(rt[c]) /\ rt[c].released = 0 /\ sec' = sec /\ rt'[c].plan = rt[c].plan
    BY <1>2, NewlyPending
  <2>2. Unreleased(rt[c]) = PathSet(rt[c].plan)
    BY <2>1 DEF Unreleased, PathSet
  <2>3. QED
    BY <1>0, <2>1, <2>2 DEF SectionsHeld
<1>3. QED
  BY <1>1, <1>2

\* The points under a train stay detected.
LEMMA LaidStep ==
    ASSUME EngineInv, TrafficInv, Disciplined, [TrafficNext]_traffic
    PROVE  RunLaid'
<1> SUFFICES ASSUME NEW u \in Trains, Running(u)',
                    NEW q \in Reqs(rt'[run'[u].route].plan)
             PROVE  AtTarget(pt'[q.point], q.dir)
  BY DEF RunLaid
<1> DEFINE i == run'[u].route
           Claim == AtTarget(pt'[q.point], q.dir)
<1>0. /\ TypeOK /\ [Next]_vars /\ PointsHeld /\ RouteLaid /\ RunLaid /\ TrainsPlaced
      /\ TypeOK' /\ TrainsPlaced' /\ rt \in [RouteIds -> RouteRecord]
  <2>1. TypeOK /\ [Next]_vars
    BY EngineStep DEF EngineInv, PointInv
  <2>2. QED
    BY <2>1, NextType, PlacedStep DEF EngineInv, PointInv, TrafficInv, TypeOK
<1>1. i \in RouteIds /\ IsActive(rt'[i])
  <2>1. OnItsWay(u)'
    BY <1>0 DEF TrainsPlaced, Running, Elsewhere, Waiting
  <2>2. i \in RouteIds /\ rt'[i].state \in Entered
    BY <2>1 DEF OnItsWay
  <2>3. QED
    BY <2>2 DEF Entered, IsActive, ActiveStates
<1>2. ASSUME Running(u), run[u].route = i PROVE Claim
  <2>1. IsActive(rt[i])
    BY <1>0, <1>2, RunFacts
  <2>2. rt'[i].plan = rt[i].plan
    BY <1>0, <1>1, <2>1, NewlyActive DEF IsActive, ActiveStates
  <2>3. q \in Reqs(rt[i].plan) /\ AtTarget(pt[q.point], q.dir)
    BY <1>0, <1>2, <2>2 DEF RunLaid
  <2>4. q.point \in PlanPoints(rt[i].plan)
    BY <2>3 DEF PlanPoints
  <2>5. \/ SamePosition(pt'[q.point], pt[q.point])
        \/ pt[q.point].status = "MOVING"
    BY <1>0, <1>1, <2>1, <2>4, PointsSpared
  <2>6. QED
    BY <2>3, <2>5 DEF SamePosition, AtTarget
<1>3. ASSUME NEW g \in Signals, Depart(u, g) PROVE Claim
  <2>1. /\ i = sig[g].route /\ rt[i].state \in {"LOCKED", "TRAIN_COMING"}
        /\ rt'[i] = [rt[i] EXCEPT !.state = "TRAIN_IN_ROUTE"]
        /\ ReportOccupancy(First(rt[i].plan))
    <3> DEFINE n == sig[g].route
    <3>1. /\ Enters(u, First(rt[n].plan)) /\ rt[n].state \in {"LOCKED", "TRAIN_COMING"}
          /\ run'[u] = [track |-> <<Ahead[g]>> \o Path(rt[n].plan), rear |-> 1, front |-> 2,
                        route |-> n]
          /\ rt'[n] = [rt[n] EXCEPT !.state = "TRAIN_IN_ROUTE"]
      BY <1>3, DepartEnters
    <3>2. i = n
      BY <3>1
    <3>3. QED
      BY <3>1, <3>2 DEF Enters
  <2>2. rt'[i].plan = rt[i].plan /\ pt' = pt
    <3>1. rt[i] \in RouteRecord
      BY <1>0, <1>1
    <3>2. rt'[i].plan = rt[i].plan
      BY <2>1, <3>1 DEF RouteRecord
    <3>3. QED
      BY <2>1, <3>2 DEF ReportOccupancy
  <2>3. QED
    BY <1>0, <1>1, <2>1, <2>2 DEF RouteLaid, LaidStates
<1>4. ASSUME NEW t \in Trains, Stay(t), t = u => Claim PROVE Claim
  <2>1. CASE t = u
    BY <1>4, <2>1
  <2>2. CASE t # u
    <3>1. run'[u] = run[u]
      BY <1>4, <2>2 DEF Stay
    <3>2. QED
      BY <1>2, <3>1 DEF Running
  <2>3. QED
    BY <2>1, <2>2
<1>5. ASSUME NEW t \in Trains, NEW g \in Signals, Appear(t, g) \/ TurnTo(t, g) PROVE Claim
  <2>1. Stay(t) /\ run'[t] = Waiting(g)
    BY <1>5, AppearEnters, TurnStays DEF Enters
  <2>2. t # u
    BY <2>1 DEF Running, Waiting
  <2>3. QED
    BY <1>4, <2>1, <2>2
<1>6. ASSUME NEW t \in Trains, NEW g \in Signals, Depart(t, g) PROVE Claim
  <2>1. Stay(t)
    BY <1>6, DepartEnters DEF Enters
  <2>2. QED
    BY <1>3, <1>4, <1>6, <2>1
<1>7. ASSUME NEW t \in Trains, Forward(t) \/ Rear(t) PROVE Claim
  <2>1. Stay(t) /\ Running(t)
    BY <1>7, ForwardEnters, RearClears DEF Enters, Clears
  <2>2. run'[t].route = run[t].route
    <3>1. run[t] \in Journey
      BY <1>0 DEF TrainsPlaced
    <3>2. \/ run'[t] = [run[t] EXCEPT !.front = run[t].front + 1]
          \/ run'[t] = [run[t] EXCEPT !.rear = run[t].rear + 1]
      BY <1>7, ForwardEnters, RearClears
    <3>3. QED
      BY <3>1, <3>2 DEF Journey
  <2>3. QED
    BY <1>2, <1>4, <2>1, <2>2
<1>8. ASSUME NEW t \in Trains, Leave(t) PROVE Claim
  <2>1. Stay(t) /\ run'[t] = Elsewhere
    BY <1>8, LeaveClears DEF Clears
  <2>2. t # u
    BY <2>1 DEF Running, Elsewhere
  <2>3. QED
    BY <1>4, <2>1, <2>2
<1>9. CASE Operates \/ UNCHANGED traffic
  <2>1. run'[u] = run[u]
    BY <1>9 DEF Operates, traffic
  <2>2. QED
    BY <1>2, <2>1 DEF Running
<1>10. QED
  BY <1>5, <1>6, <1>7, <1>8, <1>9, StepIsOne

-----------------------------------------------------------------------------

LEMMA InvInit == TrafficInit => EngineInv /\ TrafficInv
<1> SUFFICES ASSUME TrafficInit PROVE EngineInv /\ TrafficInv
  OBVIOUS
<1>1. Init /\ run = [t \in Trains |-> Elsewhere]
  BY DEF TrafficInit
<1>2. PointInv
  BY <1>1, PointInvInductive
<1>3. /\ sec = [s \in Sections |-> [occ |-> 0, lock |-> NoRoute]]
      /\ rt = [i \in RouteIds |-> NoneRoute]
  BY <1>1 DEF Init
<1>4. NoStaleLock
  BY <1>1, LocksStartFree
<1>5. SignalOwned
  BY <1>1, SignalsStartRed DEF SignalOwned
<1>6. \A i \in RouteIds : rt[i].state = "NONE" /\ ~IsActive(rt[i])
  BY <1>3 DEF NoneRoute, IsActive, ActiveStates
<1>7. \A t \in Trains : run[t] = Elsewhere /\ On(t) = {} /\ ~Running(t)
  BY <1>1 DEF On, Elsewhere, Running
<1>8. Elsewhere \in Journey
  BY DEF Elsewhere, Journey
<1>9. TrainsPlaced
  BY <1>1, <1>7, <1>8 DEF TrainsPlaced
<1>10. OccIsTrains /\ NoCollision
  BY <1>3, <1>7 DEF OccIsTrains, NoCollision
<1>11. WayIsFree /\ NotBegun /\ SectionsHeld /\ PendingAlone /\ RunLaid
  BY <1>6, <1>7 DEF WayIsFree, NotBegun, SectionsHeld, PendingAlone, RunLaid
<1>12. QED
  BY <1>2, <1>4, <1>5, <1>9, <1>10, <1>11 DEF EngineInv, TrafficInv

LEMMA InvStep ==
    ASSUME Disciplined, EngineInv, TrafficInv, [TrafficNext]_traffic
    PROVE  EngineInv' /\ TrafficInv'
<1>1. [Next]_vars /\ PointInv /\ NoStaleLock /\ SignalOwned /\ TypeOK /\ SectionsHeld
  BY EngineStep DEF EngineInv, PointInv, TrafficInv
<1>2. PointInv' /\ TypeOK'
  BY <1>1, PointInvInductive DEF PointInv
<1>3. NoStaleLock' /\ SignalOwned'
  BY <1>1, <1>2, NoStaleLockStep, SignalOwnedStep
<1>4. SectionsHeld'
  BY <1>1, NoStrip, SectionsHeldStep
<1>5. QED
  BY <1>2, <1>3, <1>4, PlacedStep, PlacesStep, WayStep, NotBegunStep, PendingStep, LaidStep
     DEF EngineInv, TrafficInv

LEMMA InvHolds == ASSUME Disciplined PROVE TrafficSpec => [](EngineInv /\ TrafficInv)
<1>1. EngineInv /\ TrafficInv /\ [TrafficNext]_traffic => (EngineInv /\ TrafficInv)'
  BY InvStep
<1>2. QED
  BY InvInit, <1>1, PTL DEF TrafficSpec

\* Trains do not meet: whatever the yard, the trains and the requests, while the
\* operators keep to the two rules and the drivers to the signals.
THEOREM TrainsNeverMeet == ASSUME Disciplined PROVE TrafficSpec => []NoCollision
<1>1. EngineInv /\ TrafficInv => NoCollision
  BY DEF TrafficInv
<1>2. QED
  BY InvHolds, <1>1, PTL

\* The route under a train goes on and keeps what it has not released, while nobody
\* cancels a route of which a section is released, or requests a way over the path
\* of a cancelled route that still waits for its train.
THEOREM AuthorityStays == ASSUME Disciplined PROVE TrafficSpec => []AuthorityHeld
<1>1. EngineInv /\ TrafficInv => AuthorityHeld
  BY RunFacts DEF EngineInv, PointInv, TrafficInv, SectionsHeld, AuthorityHeld
<1>2. QED
  BY InvHolds, <1>1, PTL

\* With trains, operators and clock around it the engine does what it does by
\* itself; so what is proved of Spec holds here too.
THEOREM TrafficIsEngine == ASSUME Disciplined PROVE TrafficSpec => Spec
<1>1. TrafficInit => Init
  BY DEF TrafficInit
<1>2. EngineInv /\ TrafficInv /\ [TrafficNext]_traffic => [Next]_vars
  BY EngineStep
<1>3. QED
  BY InvHolds, <1>1, <1>2, PTL DEF TrafficSpec, Spec

\* The switch a train is about to pass is required by its route.
LEMMA PassIsSet ==
    ASSUME EngineInv, TrafficInv, SwitchesDrawn, [TrafficNext]_traffic,
           NEW t \in Trains, NEW p \in Points, Passes(t, p)
    PROVE  AtTarget(pt[p], IF run'[t].track[run'[t].front] = Switch[p].normal THEN "N" ELSE "R")
<1> DEFINE Claim == AtTarget(pt[p], IF run'[t].track[run'[t].front] = Switch[p].normal
                                    THEN "N" ELSE "R")
<1>0. /\ TypeOK /\ TrainsPlaced /\ RunLaid /\ run[t] \in Journey
  BY DEF EngineInv, PointInv, TrafficInv, TrainsPlaced
<1>1. /\ run'[t].front = run[t].front + 1 /\ run[t].track # <<>>
      /\ run[t].track[run[t].front] = Switch[p].heel
      /\ run'[t].track[run'[t].front] \in {Switch[p].normal, Switch[p].reverse}
  BY DEF Passes
<1>2. run'[t].front # run[t].front /\ run'[t].front # 0
  BY <1>0, <1>1 DEF Journey
<1>3. ASSUME NEW g \in Signals, Depart(t, g) PROVE FALSE
  <2> DEFINE k == rt[sig[g].route].plan
  <2>1. /\ k \in Plans /\ sig[g].aspect # "RED" /\ run[t] = Waiting(g)
        /\ run'[t] = [track |-> <<Ahead[g]>> \o Path(k), rear |-> 1, front |-> 2,
                      route |-> sig[g].route]
    BY <1>3, DepartEnters DEF Depart
  <2>2. Origin(k) = g /\ First(k) = Guard[g] /\ Path(k) \in Seq(Sections) /\ Ahead[g] \in Sections
        /\ Len(Path(k)) \in Nat \ {0}
    BY <2>1, ProceedFacts, PlanFacts, TrafficAssumption
  <2> HIDE DEF k
  <2>3. (<<Ahead[g]>> \o Path(k))[2] = Path(k)[1]
    BY <2>2
  <2>4. run'[t].track[run'[t].front] = Guard[g]
    BY <2>1, <2>2, <2>3 DEF First
  <2>5. run[t].track[run[t].front] = Ahead[g]
    BY <2>1 DEF Waiting
  <2>6. QED
    BY <1>1, <2>4, <2>5 DEF SwitchesDrawn
<1>4. CASE Forward(t)
  <2> DEFINE i == run[t].route
             k == rt[i].plan
             f == run[t].front
  <2>1. Running(t) /\ run[t].rear = f /\ run'[t] = [run[t] EXCEPT !.front = f + 1]
        /\ f < Len(run[t].track)
    BY <1>4, ForwardEnters DEF Forward
  <2>2. run'[t].track = run[t].track
    BY <1>0, <2>1 DEF Journey
  <2>3. /\ OnItsWay(t) /\ k \in Plans
        /\ Len(run[t].track) = Len(Path(k)) + 1
        /\ \A j \in 2..Len(run[t].track) : run[t].track[j] = Path(k)[j - 1]
    BY <1>0, <2>1, RunFacts
  <2>4. f \in 2..Len(run[t].track)
    BY <2>3 DEF OnItsWay
  <2>5. Len(Path(k)) \in Nat
    BY <2>3, PlanFacts
  <2>6. \A m, n, x : /\ n \in Nat /\ m = n + 1 /\ x \in 2..m /\ x < m
                     => x + 1 \in 2..m /\ x - 1 \in 1..(n - 1) /\ (x + 1) - 1 = (x - 1) + 1
    OBVIOUS
  <2>7. f + 1 \in 2..Len(run[t].track) /\ f - 1 \in 1..(Len(Path(k)) - 1)
        /\ (f + 1) - 1 = (f - 1) + 1
    BY <2>1, <2>3, <2>4, <2>5, <2>6
  <2>8. /\ Path(k)[f - 1] = Switch[p].heel
        /\ run'[t].track[run'[t].front] = Path(k)[(f - 1) + 1]
    BY <1>1, <2>2, <2>3, <2>4, <2>7
  <2> DEFINE y == Path(k)[(f - 1) + 1]
             d == IF y = Switch[p].normal THEN "N" ELSE "R"
  <2>9. [point |-> p, dir |-> d] \in Required(k)
    BY <1>1, <2>3, <2>7, <2>8 DEF SwitchesDrawn
  <2>10. [point |-> p, dir |-> d] \in Reqs(k)
    BY <2>3, <2>9, PlanFacts
  <2>11. AtTarget(pt[p], d)
    BY <1>0, <2>1, <2>10 DEF RunLaid
  <2>12. QED
    BY <2>8, <2>11
<1>5. CASE run'[t] = run[t]
  BY <1>2, <1>5
<1>6. ASSUME NEW g \in Signals, Appear(t, g) PROVE FALSE
  BY <1>1, <1>6 DEF Appear, Elsewhere
<1>7. ASSUME NEW g \in Signals, TurnTo(t, g) PROVE FALSE
  <2>1. run'[t].front = 1 /\ Running(t)
    <3>1. run'[t] = Waiting(g)
      BY <1>7, TurnStays
    <3>2. Running(t)
      BY <1>7 DEF TurnTo
    <3>3. QED
      BY <3>1, <3>2 DEF Waiting
  <2>2. run[t].front \in 2..Len(run[t].track) /\ Len(run[t].track) \in Nat
    <3>1. OnItsWay(t)
      BY <1>0, <2>1, RunFacts
    <3>2. run[t].track \in Seq(Sections)
      BY <1>0 DEF Journey
    <3>3. QED
      BY <3>1, <3>2 DEF OnItsWay
  <2>3. QED
    BY <1>1, <2>1, <2>2
<1>8. CASE Rear(t)
  <2>1. run'[t] = [run[t] EXCEPT !.rear = run[t].rear + 1]
    BY <1>8, RearClears
  <2>2. QED
    BY <1>0, <1>2, <2>1 DEF Journey
<1>9. CASE Leave(t)
  BY <1>2, <1>9, LeaveClears DEF Elsewhere
<1>10. ASSUME NEW u \in Trains, Stay(u), u # t PROVE Claim
  BY <1>5, <1>10 DEF Stay
<1>11. ASSUME NEW u \in Trains, NEW g \in Signals, Appear(u, g) \/ Depart(u, g) \/ TurnTo(u, g)
       PROVE  Claim
  <2>1. Stay(u)
    BY <1>11, AppearEnters, DepartEnters, TurnStays DEF Enters
  <2>2. QED
    BY <1>3, <1>6, <1>7, <1>10, <1>11, <2>1
<1>12. ASSUME NEW u \in Trains, Forward(u) \/ Rear(u) \/ Leave(u) PROVE Claim
  <2>1. Stay(u)
    BY <1>12, ForwardEnters, RearClears, LeaveClears DEF Enters, Clears
  <2>2. QED
    BY <1>4, <1>8, <1>9, <1>10, <1>12, <2>1
<1>13. CASE Operates \/ UNCHANGED traffic
  BY <1>5, <1>13 DEF Operates, traffic
<1>14. QED
  BY <1>11, <1>12, <1>13, StepIsOne

\* A train finds the switches it passes from the heel at rest and set for its
\* leg, in every yard whose paths require them (SwitchesDrawn).
THEOREM FacingPointsStaySet ==
    ASSUME Disciplined, SwitchesDrawn PROVE TrafficSpec => FacingPointsSet
<1>1. EngineInv /\ TrafficInv /\ [TrafficNext]_traffic =>
        [\A t \in Trains, p \in Points : Passes(t, p) =>
           AtTarget(pt[p], IF run'[t].track[run'[t].front] = Switch[p].normal
                           THEN "N" ELSE "R")]_traffic
  BY PassIsSet
<1>2. QED
  BY InvHolds, <1>1, PTL DEF TrafficSpec, FacingPointsSet
=============================================================================
