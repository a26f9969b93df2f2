-------------------------- MODULE InterlockProofs ---------------------------
(***************************************************************************)
(* The engine in memory, for every layout, every set of route ids and every*)
(* bound: types, the points and the locks.  Whoever holds a point, it stays*)
(* where it is wanted; no lock outlives the route it was taken for; what   *)
(* that means for the moves; and the abstract allocation of points this    *)
(* implements.                                                             *)
(***************************************************************************)
EXTENDS PointRefinement, TLAPS

USE DEF Ids

LEMMA LockSectionsType ==
    ASSUME NEW f \in [Sections -> SectionRecord], NEW S, NEW i \in Ids
    PROVE  LockSections(f, S, i) \in [Sections -> SectionRecord]
BY DEF LockSections, SectionRecord

LEMMA LockPointsType ==
    ASSUME NEW f \in [Points -> PointRecord], NEW P, NEW i \in Ids
    PROVE  LockPoints(f, P, i) \in [Points -> PointRecord]
BY DEF LockPoints, PointRecord

\* Locking points writes nothing but the lock, and only of the points given.
LEMMA LockPointsFields ==
    ASSUME NEW f \in [Points -> PointRecord], NEW P, NEW i \in Ids, NEW p \in Points
    PROVE  /\ LockPoints(f, P, i)[p].dir = f[p].dir
           /\ LockPoints(f, P, i)[p].status = f[p].status
           /\ LockPoints(f, P, i)[p].target = f[p].target
           /\ LockPoints(f, P, i)[p].lock = IF p \in P THEN i ELSE f[p].lock
BY DEF LockPoints, PointRecord

LEMMA LockSectionsFields ==
    ASSUME NEW f \in [Sections -> SectionRecord], NEW S, NEW i \in Ids, NEW s \in Sections
    PROVE  /\ LockSections(f, S, i)[s].occ = f[s].occ
           /\ LockSections(f, S, i)[s].lock = IF s \in S THEN i ELSE f[s].lock
BY DEF LockSections, SectionRecord

\* What a plan guarantees, in the words the proofs use.
LEMMA PlanFacts ==
    ASSUME NEW k \in Plans
    PROVE  /\ Origin(k) \in Signals
           /\ Path(k) \in Seq(Sections)
           /\ Len(Path(k)) \in Nat \ {0}
           /\ First(k) = Guard[Origin(k)]
           /\ First(k) \in Sections
           /\ First(k) \in PathSet(k)
           /\ PathSet(k) \subseteq Sections
           /\ Reqs(k) \subseteq Requirement
           /\ \A q, r \in Reqs(k) : q.point = r.point => q = r
           /\ Required(k) \subseteq Reqs(k)
           /\ Flank(k) \subseteq Reqs(k)
<1>1. Origin(k) \in Signals
  BY LayoutAssumption DEF Origin
<1>2. /\ Path(k) \in Seq(Sections)
      /\ Len(Path(k)) \in Nat \ {0}
      /\ First(k) = Guard[Origin(k)]
  BY ExpandAssumption DEF Path
<1>3. PathSet(k) \subseteq Sections
  BY <1>2 DEF PathSet
<1>4. First(k) \in PathSet(k)
  BY <1>2 DEF PathSet, First
<1>5. Required(k) \subseteq Requirement
  BY ExpandAssumption DEF Required
<1>6. Flank(k) \subseteq Requirement
  BY ExpandAssumption
<1>7. \A q, r \in Reqs(k) : q.point = r.point => q = r
  BY ExpandAssumption
<1>8. QED
  BY <1>1, <1>2, <1>3, <1>4, <1>5, <1>6, <1>7 DEF Reqs

\* A point machine step keeps a healthy point healthy.
LEMMA IssueMoveType ==
    ASSUME NEW p \in PointRecord, NEW dir \in OperatorDirs, NEW now \in Nat,
           NEW m \in Nat, p.status = "MOVING" => p.target \in OperatorDirs
    PROVE  LET q == IssueMove(p, dir, now, m) IN
           /\ q \in PointRecord
           /\ q.status = "MOVING" => q.target \in OperatorDirs
           /\ q.lock = p.lock
           /\ AtTarget(q, dir) \/ (q.status = "MOVING" /\ q.target = dir)
<1>1. CASE AtTarget(p, dir)
  BY <1>1 DEF IssueMove
<1>2. CASE ~AtTarget(p, dir)
  <2>1. IssueMove(p, dir, now, m) =
          [p EXCEPT !.status = "MOVING", !.target = dir, !.deadline = now + m]
    BY <1>2 DEF IssueMove
  <2> DEFINE q == [p EXCEPT !.status = "MOVING", !.target = dir, !.deadline = now + m]
  <2>2. now + m \in Nat
    OBVIOUS
  <2>3. q \in PointRecord
    BY <2>2 DEF PointRecord
  <2>4. q.status = "MOVING" /\ q.target = dir /\ q.lock = p.lock
    BY DEF PointRecord
  <2>5. QED
    BY <2>1, <2>3, <2>4
<1>3. QED
  BY <1>1, <1>2

LEMMA DetectType ==
    ASSUME NEW p \in PointRecord, p.status = "MOVING", p.target \in OperatorDirs
    PROVE  LET q == Detect(p, p.target) IN
           /\ q \in PointRecord
           /\ AtTarget(q, p.target)
           /\ q.lock = p.lock
BY DEF Detect, PointRecord, AtTarget

-----------------------------------------------------------------------------
(* What one operation does to the points and the locks *)

LEMMA IssuedFacts ==
    ASSUME TypeOK, NEW k \in Plans, NEW Q \in SUBSET Reqs(k)
    PROVE  /\ Issued(Q) \in [Points -> PointRecord]
           /\ \A p \in Points :
                /\ Issued(Q)[p].status = "MOVING" => Issued(Q)[p].target \in OperatorDirs
                /\ Issued(Q)[p].lock = pt[p].lock
                /\ p \notin PlanPoints(k) => Issued(Q)[p] = pt[p]
           /\ \A q \in Q : CanMove(pt[q.point], q.dir, Squeezed(q.point)) =>
                \/ AtTarget(Issued(Q)[q.point], q.dir)
                \/ Issued(Q)[q.point].status = "MOVING" /\ Issued(Q)[q.point].target = q.dir
           /\ \A q \in Q : ~CanMove(pt[q.point], q.dir, Squeezed(q.point)) =>
                Issued(Q)[q.point] = pt[q.point]
<1> DEFINE moves(p) == \E q \in Q : q.point = p /\ CanMove(pt[p], q.dir, Squeezed(p))
           pick(p) == CHOOSE q \in Q : q.point = p
<1>1. \A q \in Q : q \in Requirement /\ q.point \in Points /\ q.dir \in OperatorDirs
  BY PlanFacts, LayoutAssumption DEF Requirement
<1>2. \A q \in Q : pick(q.point) = q
  BY PlanFacts
<1>3. ASSUME NEW p \in Points
      PROVE  /\ Issued(Q)[p] \in PointRecord
             /\ Issued(Q)[p].status = "MOVING" => Issued(Q)[p].target \in OperatorDirs
             /\ Issued(Q)[p].lock = pt[p].lock
             /\ ~moves(p) => Issued(Q)[p] = pt[p]
             /\ moves(p) => \/ AtTarget(Issued(Q)[p], pick(p).dir)
                            \/ Issued(Q)[p].status = "MOVING" /\ Issued(Q)[p].target = pick(p).dir
  <2>1. CASE moves(p)
    <3>1. pick(p) \in Q /\ pick(p).dir \in OperatorDirs
      BY <2>1, <1>1
    <3>2. Issued(Q)[p] = IssueMove(pt[p], pick(p).dir, clock, MoveTime[p])
      BY <2>1 DEF Issued
    <3>3. clock \in Nat /\ MoveTime[p] \in Nat /\ pt[p] \in PointRecord
          /\ (pt[p].status = "MOVING" => pt[p].target \in OperatorDirs)
      BY LayoutAssumption DEF TypeOK
    <3> HIDE DEF moves, pick
    <3>4. QED
      BY <2>1, <3>1, <3>2, <3>3, IssueMoveType
  <2>2. CASE ~moves(p)
    <3>1. Issued(Q)[p] = pt[p]
      BY <2>2 DEF Issued
    <3>2. QED
      BY <2>2, <3>1 DEF TypeOK
  <2>3. QED
    BY <2>1, <2>2
<1>4. Issued(Q) \in [Points -> PointRecord]
  BY <1>3 DEF Issued
<1>5. \A p \in Points : p \notin PlanPoints(k) => ~moves(p)
  BY DEF PlanPoints
<1>6. \A q \in Q : CanMove(pt[q.point], q.dir, Squeezed(q.point)) => moves(q.point)
  OBVIOUS
<1>7. \A q \in Q : ~CanMove(pt[q.point], q.dir, Squeezed(q.point)) => ~moves(q.point)
  BY PlanFacts
<1> HIDE DEF moves, pick
<1>8. QED
  BY <1>1, <1>2, <1>3, <1>4, <1>5, <1>6, <1>7

LEMMA BeforeRefusalSubset ==
    ASSUME NEW k \in Plans
    PROVE  \A Q \in BeforeRefusal(k) : Q \subseteq Reqs(k)
<1> DEFINE ps == Expanded[k].points
           Early(j) == {ps[m] : m \in 1..(j - 1)}
<1>1. \A j \in 1..Len(ps) : Early(j) \subseteq Required(k)
  <2>1. Len(ps) \in Nat
    BY ExpandAssumption
  <2>2. QED
    BY <2>1 DEF Required
<1>2. BeforeRefusal(k) =
        {Early(j) : j \in {j \in 1..Len(ps) :
                             Refused(ps[j]) /\ \A q \in Early(j) : ~Refused(q)}}
        \cup {Required(k) \cup F :
                F \in {F \in SUBSET {q \in Flank(k) : ~Refused(q)} :
                        /\ \A q \in Required(k) : ~Refused(q)
                        /\ \E q \in Flank(k) : Refused(q)}}
  BY DEF BeforeRefusal
<1> HIDE DEF ps, Early
<1>3. QED
  BY <1>1, <1>2 DEF Reqs

\* A request that is turned down after the check: the locks it took are gone,
\* and so is any lock these elements had before; some of its moves go on.
LEMMA TurnedDown ==
    ASSUME TypeOK, NEW i \in RouteIds, NEW k \in Plans,
           SetupFails(i, k) \/ ClearRefused(i, k)
    PROVE  /\ Accepted(i, k)
           /\ sec' = LockSections(sec, PathSet(k), NoRoute)
           /\ UNCHANGED <<sig, rt, clock>>
           /\ \E Q \in SUBSET Reqs(k) : pt' = LockPoints(Issued(Q), PlanPoints(k), NoRoute)
<1>1. CASE SetupFails(i, k)
  BY <1>1, BeforeRefusalSubset DEF SetupFails
<1>2. CASE ClearRefused(i, k)
  <2>1. Issued({}) = pt
    BY DEF Issued, TypeOK
  <2>2. QED
    BY <1>2, <2>1 DEF ClearRefused, Laid
<1>3. QED
  BY <1>1, <1>2

\* A request that is granted: its elements are locked for it and every point
\* lies or moves as the plan wants it.
LEMMA Granted ==
    ASSUME TypeOK, NEW i \in RouteIds, NEW k \in Plans,
           StartMoves(i, k) \/ ClearAtOnce(i, k)
    PROVE  /\ Accepted(i, k)
           /\ sec' = LockSections(sec, PathSet(k), i)
           /\ pt' = LockPoints(Issued(Reqs(k)), PlanPoints(k), i)
           /\ clock' = clock
           /\ \/ /\ rt' = [rt EXCEPT ![i] = NewRoute(k, "POINTS_MOVING", clock)]
                 /\ sig' = sig
              \/ /\ rt' = [rt EXCEPT ![i] = NewRoute(k, "LOCKED", clock)]
                 /\ sig' = [sig EXCEPT ![Origin(k)] = [aspect |-> ClearAspect(k), route |-> i]]
                 /\ \A s \in PathSet(k) : sec[s].occ = 0
                 /\ \A q \in Reqs(k) : AtTarget(pt'[q.point], q.dir)
           /\ \A q \in Reqs(k) :
                \/ AtTarget(pt'[q.point], q.dir)
                \/ pt'[q.point].status = "MOVING" /\ pt'[q.point].target = q.dir
<1>1. \A q \in Reqs(k) : q.point \in Points /\ q.point \in PlanPoints(k)
  BY PlanFacts DEF Requirement, PlanPoints
<1>2. \A q \in Reqs(k) : ~Refused(q)
  BY DEF StartMoves, ClearAtOnce, Laid
<1>3. \A q \in Reqs(k) : ~CanMove(pt[q.point], q.dir, Squeezed(q.point)) =>
        AtTarget(pt[q.point], q.dir)
  BY <1>2 DEF CanMove, Refused
<1>4. Issued(Reqs(k)) \in [Points -> PointRecord]
  BY IssuedFacts
<1>5. \A q \in Reqs(k) :
        \/ AtTarget(Issued(Reqs(k))[q.point], q.dir)
        \/ /\ Issued(Reqs(k))[q.point].status = "MOVING"
           /\ Issued(Reqs(k))[q.point].target = q.dir
  BY <1>3, IssuedFacts
<1>6. CASE StartMoves(i, k)
  <2>1. pt' = LockPoints(Issued(Reqs(k)), PlanPoints(k), i)
    BY <1>6 DEF StartMoves
  <2>2. \A q \in Reqs(k) :
          \/ AtTarget(pt'[q.point], q.dir)
          \/ pt'[q.point].status = "MOVING" /\ pt'[q.point].target = q.dir
    BY <1>1, <1>4, <1>5, <2>1, LockPointsFields DEF AtTarget
  <2>3. QED
    BY <1>6, <2>1, <2>2 DEF StartMoves
<1>7. CASE ClearAtOnce(i, k)
  <2>1. \A q \in Reqs(k) : ~CanMove(pt[q.point], q.dir, Squeezed(q.point))
    BY <1>7 DEF ClearAtOnce, Laid, SomeMove
  <2>2. Issued(Reqs(k)) = pt
    <3>1. \A p \in Points : ~\E q \in Reqs(k) : q.point = p /\ CanMove(pt[p], q.dir, Squeezed(p))
      BY <2>1
    <3>2. QED
      BY <3>1 DEF Issued, TypeOK
  <2>3. pt' = LockPoints(Issued(Reqs(k)), PlanPoints(k), i)
    BY <1>7, <2>2 DEF ClearAtOnce
  <2>4. \A q \in Reqs(k) : AtTarget(pt'[q.point], q.dir)
    BY <1>1, <1>3, <1>4, <2>1, <2>2, <2>3, LockPointsFields DEF AtTarget
  <2>5. sec' = LockSections(sec, PathSet(k), i) /\ \A s \in PathSet(k) : sec'[s].occ = 0
    BY <1>7 DEF ClearAtOnce, CanClear, ElementsReady
  <2>6. \A s \in PathSet(k) : sec[s].occ = 0
    BY <2>5, PlanFacts, LockSectionsFields DEF TypeOK
  <2>7. QED
    BY <1>7, <2>3, <2>4, <2>5, <2>6 DEF ClearAtOnce, Laid
<1>8. QED
  BY <1>6, <1>7

-----------------------------------------------------------------------------
(* Types *)

LEMMA NewRouteType ==
    ASSUME NEW k \in Plans, NEW st \in {"POINTS_MOVING", "LOCKED"}, NEW now \in Nat
    PROVE  NewRoute(k, st, now) \in RouteRecord /\ RouteInBounds(NewRoute(k, st, now))
<1>1. (st = "LOCKED" /\ now > 0) \in BOOLEAN
  OBVIOUS
<1>2. NewRoute(k, st, now) \in RouteRecord
  BY <1>1 DEF NewRoute, RouteRecord, States
<1>3. NewRoute(k, st, now).plan = k /\ NewRoute(k, st, now).released = 0
  BY DEF NewRoute
<1>4. QED
  BY <1>2, <1>3, PlanFacts DEF RouteInBounds

\* The route machine's transitions keep a route's plan and its bounds.
LEMMA OnOccupancyType ==
    ASSUME NEW r \in RouteRecord, RouteInBounds(r), NEW s
    PROVE  /\ OnOccupancy(r, s) \in RouteRecord
           /\ RouteInBounds(OnOccupancy(r, s))
           /\ OnOccupancy(r, s).plan = r.plan
           /\ OnOccupancy(r, s).released = r.released
           /\ OnOccupancy(r, s) # r =>
                /\ r.state \in {"LOCKED", "TRAIN_COMING"}
                /\ OnOccupancy(r, s).state \in {"TRAIN_COMING", "TRAIN_IN_ROUTE"}
                /\ OnOccupancy(r, s).state = "TRAIN_IN_ROUTE" => s = First(r.plan)
<1>1. \/ OnOccupancy(r, s) = r
      \/ /\ OnOccupancy(r, s) = [r EXCEPT !.state = "TRAIN_COMING"]
         /\ r.state = "LOCKED"
      \/ /\ OnOccupancy(r, s) = [r EXCEPT !.state = "TRAIN_IN_ROUTE"]
         /\ r.state \in {"LOCKED", "TRAIN_COMING"} /\ s = First(r.plan)
  BY DEF OnOccupancy
<1>2. QED
  BY <1>1 DEF RouteRecord, RouteInBounds, States

LEMMA OnClearanceType ==
    ASSUME NEW r \in RouteRecord, RouteInBounds(r), NEW s, NEW low
    PROVE  /\ OnClearance(r, s, low) \in RouteRecord
           /\ RouteInBounds(OnClearance(r, s, low))
           /\ OnClearance(r, s, low).plan = r.plan
           /\ ~Releases(r, s, low) => OnClearance(r, s, low) = r
           /\ Releases(r, s, low) =>
                /\ r.state \in {"TRAIN_IN_ROUTE", "RELEASING", "CANCEL_PENDING"}
                /\ OnClearance(r, s, low).released = r.released + 1
                /\ ~ReleasesLast(r, s, low) =>
                     OnClearance(r, s, low).state \in {"RELEASING", "CANCEL_PENDING"}
                /\ ReleasesLast(r, s, low) => OnClearance(r, s, low).state \in TerminalStates
                /\ OnClearance(r, s, low).state = "RELEASING" => r.state # "CANCEL_PENDING"
<1>1. CASE ~Releases(r, s, low)
  BY <1>1 DEF OnClearance
<1>2. CASE Releases(r, s, low)
  <2>1. r.state # "NONE" /\ r.plan \in Plans /\ Len(Path(r.plan)) \in Nat
        /\ r.released + 1 \in 0..Len(Path(r.plan))
    BY <1>2, PlanFacts DEF Releases, RouteInBounds, RouteRecord
  <2> DEFINE st == IF r.released + 1 = Len(Path(r.plan))
                   THEN IF r.state = "CANCEL_PENDING" THEN "CANCELLED" ELSE "RELEASED"
                   ELSE IF r.state = "CANCEL_PENDING" THEN r.state ELSE "RELEASING"
  <2>2. OnClearance(r, s, low) = [r EXCEPT !.released = r.released + 1, !.state = st]
    BY <1>2 DEF OnClearance
  <2>3. st \in States
    BY DEF States
  <2>4. st = "RELEASING" => r.state # "CANCEL_PENDING"
    OBVIOUS
  <2>5. /\ r.released + 1 = Len(Path(r.plan)) => st \in TerminalStates
        /\ r.released + 1 # Len(Path(r.plan)) => st \in {"RELEASING", "CANCEL_PENDING"}
    BY DEF TerminalStates
  <2> DEFINE c == OnClearance(r, s, low)
  <2> HIDE DEF st
  <2>6. /\ c.released = r.released + 1 /\ c.state = st /\ c.plan = r.plan
        /\ c \in RouteRecord
    <3>1. r.released + 1 \in Nat
      BY <2>1, PlanFacts
    <3>2. [r EXCEPT !.released = r.released + 1, !.state = st] \in RouteRecord
      BY <2>3, <3>1 DEF RouteRecord
    <3>3. QED
      BY <2>2, <3>2 DEF RouteRecord
  <2>7. /\ r.state \in {"TRAIN_IN_ROUTE", "RELEASING", "CANCEL_PENDING"}
        /\ ReleasesLast(r, s, low) <=> r.released + 1 = Len(Path(r.plan))
    BY <1>2 DEF Releases, ReleasesLast
  <2>8. RouteInBounds(c)
    BY <2>1, <2>6 DEF RouteInBounds
  <2>9. QED
    BY <1>2, <2>4, <2>5, <2>6, <2>7, <2>8
<1>3. QED
  BY <1>1, <1>2

LEMMA CancelledType ==
    ASSUME NEW r \in RouteRecord, RouteInBounds(r), r.state # "NONE"
    PROVE  /\ Cancelled(r) \in RouteRecord
           /\ RouteInBounds(Cancelled(r))
           /\ Cancelled(r).state = "CANCELLED"
           /\ Cancelled(r).plan = r.plan
<1>1. r.plan \in Plans /\ Len(Path(r.plan)) \in Nat
  BY PlanFacts DEF RouteInBounds
<1>2. /\ Cancelled(r) \in RouteRecord
      /\ Cancelled(r).state = "CANCELLED"
      /\ Cancelled(r).plan = r.plan
      /\ Cancelled(r).released = Len(Path(r.plan))
  BY <1>1 DEF Cancelled, RouteRecord, States
<1>3. QED
  BY <1>1, <1>2 DEF RouteInBounds

LEMMA OpenedType ==
    ASSUME NEW r \in RouteRecord, NEW b \in BOOLEAN
    PROVE  LET o == [r EXCEPT !.state = "LOCKED", !.timed = b] IN
           o \in RouteRecord /\ o.plan = r.plan /\ o.released = r.released
BY DEF RouteRecord, States

LEMMA InitType == Init => TypeOK
<1> SUFFICES ASSUME Init PROVE TypeOK
  OBVIOUS
<1>1. sec \in [Sections -> SectionRecord]
  BY DEF Init, SectionRecord
<1>2. pt \in [Points -> PointRecord] /\ \A p \in Points : pt[p].status # "MOVING"
  <2> DEFINE rest(d) == [dir |-> d, status |-> "IN_POSITION", target |-> "",
                         deadline |-> 0, lock |-> NoRoute, bypassed |-> FALSE]
  <2>1. \A d \in Dirs : rest(d) \in PointRecord /\ rest(d).status # "MOVING"
    BY LayoutAssumption DEF PointRecord
  <2>2. pt \in [Points -> {rest(d) : d \in Dirs}]
    BY DEF Init
  <2> HIDE DEF rest
  <2>3. QED
    BY <2>1, <2>2
<1>3. sig \in [Signals -> SignalRecord]
  BY DEF Init, SignalRecord, Aspects
<1>4. NoneRoute \in RouteRecord /\ RouteInBounds(NoneRoute)
  BY DEF NoneRoute, RouteRecord, RouteInBounds, States
<1>5. rt \in [RouteIds -> RouteRecord] /\ \A i \in RouteIds : RouteInBounds(rt[i])
  BY <1>4 DEF Init
<1>6. clock \in Nat
  BY DEF Init
<1>7. QED
  BY <1>1, <1>2, <1>3, <1>5, <1>6 DEF TypeOK

\* What a detection can do: finish a move at its target.
LEMMA DetectionsFacts ==
    ASSUME TypeOK, NEW now
    PROVE  /\ Detections(now) \in [Points -> PointRecord]
           /\ \A p \in Points :
                /\ Detections(now)[p].status = "MOVING" => Detections(now)[p].target \in OperatorDirs
                /\ Detections(now)[p].lock = pt[p].lock
                /\ \/ Detections(now)[p] = pt[p]
                   \/ /\ pt[p].status = "MOVING"
                      /\ AtTarget(Detections(now)[p], pt[p].target)
<1>1. ASSUME NEW p \in Points
      PROVE  /\ Detections(now)[p] \in PointRecord
             /\ Detections(now)[p].status = "MOVING" => Detections(now)[p].target \in OperatorDirs
             /\ Detections(now)[p].lock = pt[p].lock
             /\ \/ Detections(now)[p] = pt[p]
                \/ /\ pt[p].status = "MOVING"
                   /\ AtTarget(Detections(now)[p], pt[p].target)
  <2>1. pt[p] \in PointRecord /\ (pt[p].status = "MOVING" => pt[p].target \in OperatorDirs)
    BY DEF TypeOK
  <2>2. CASE pt[p].status = "MOVING" /\ now >= pt[p].deadline
    <3>1. Detections(now)[p] = Detect(pt[p], pt[p].target)
      BY <2>2 DEF Detections
    <3>2. AtTarget(Detections(now)[p], pt[p].target)
      BY <2>1, <2>2, <3>1, DetectType
    <3>3. Detections(now)[p].status # "MOVING"
      BY <3>2 DEF AtTarget
    <3>4. QED
      BY <2>1, <2>2, <3>1, <3>2, <3>3, DetectType
  <2>3. CASE ~(pt[p].status = "MOVING" /\ now >= pt[p].deadline)
    <3>1. Detections(now)[p] = pt[p]
      BY <2>3 DEF Detections
    <3>2. QED
      BY <2>1, <3>1
  <2>4. QED
    BY <2>2, <2>3
<1>2. Detections(now) \in [Points -> PointRecord]
  BY <1>1 DEF Detections
<1>3. QED
  BY <1>1, <1>2

LEMMA NextType == TypeOK /\ [Next]_vars => TypeOK'
<1> SUFFICES ASSUME TypeOK, [Next]_vars PROVE TypeOK'
  OBVIOUS
<1> USE DEF TypeOK
<1>1. ASSUME NEW i \in RouteIds, NEW k \in Plans, RequestRoute(i, k)
      PROVE  TypeOK'
  <2>1. CASE SetupFails(i, k) \/ ClearRefused(i, k)
    <3>1. PICK Q \in SUBSET Reqs(k) : pt' = LockPoints(Issued(Q), PlanPoints(k), NoRoute)
      BY <2>1, TurnedDown
    <3>2. /\ sec' = LockSections(sec, PathSet(k), NoRoute)
          /\ UNCHANGED <<sig, rt, clock>>
      BY <2>1, TurnedDown
    <3>3. sec' \in [Sections -> SectionRecord]
      BY <3>2, LockSectionsType
    <3>4. /\ pt' \in [Points -> PointRecord]
          /\ \A p \in Points : pt'[p].status = "MOVING" => pt'[p].target \in OperatorDirs
      BY <3>1, IssuedFacts, LockPointsType, LockPointsFields
    <3>5. QED
      BY <3>2, <3>3, <3>4
  <2>2. CASE StartMoves(i, k) \/ ClearAtOnce(i, k)
    <3>1. sec' \in [Sections -> SectionRecord] /\ clock' \in Nat
      BY <2>2, Granted, LockSectionsType
    <3>2. /\ pt' \in [Points -> PointRecord]
          /\ \A p \in Points : pt'[p].status = "MOVING" => pt'[p].target \in OperatorDirs
      BY <2>2, Granted, IssuedFacts, LockPointsType, LockPointsFields
    <3>3. PICK st \in {"POINTS_MOVING", "LOCKED"} : rt' = [rt EXCEPT ![i] = NewRoute(k, st, clock)]
      BY <2>2, Granted
    <3>4. NewRoute(k, st, clock) \in RouteRecord /\ RouteInBounds(NewRoute(k, st, clock))
      BY NewRouteType
    <3>5. rt' \in [RouteIds -> RouteRecord] /\ \A j \in RouteIds : RouteInBounds(rt'[j])
      BY <3>3, <3>4
    <3>6. [aspect |-> ClearAspect(k), route |-> i] \in SignalRecord
      BY DEF SignalRecord, ClearAspect, Aspects
    <3>7. sig' \in [Signals -> SignalRecord]
      BY <2>2, <3>6, Granted
    <3>8. QED
      BY <3>1, <3>2, <3>5, <3>7
  <2>3. QED
    BY <1>1, <2>1, <2>2 DEF RequestRoute
<1>2. ASSUME NEW s \in Detectors, ReportOccupancy(s)
      PROVE  TypeOK'
  <2>1. s \in Sections
    BY BoundsAssumption
  <2>2. sec' \in [Sections -> SectionRecord]
    BY <1>2, <2>1 DEF ReportOccupancy, SectionRecord
  <2>3. sig' \in [Signals -> SignalRecord]
    BY <1>2 DEF ReportOccupancy, SignalRecord, RedSignal, Aspects
  <2>4. rt' \in [RouteIds -> RouteRecord] /\ \A j \in RouteIds : RouteInBounds(rt'[j])
    BY <1>2, OnOccupancyType DEF ReportOccupancy
  <2>5. QED
    BY <1>2, <2>2, <2>3, <2>4 DEF ReportOccupancy
<1>3. ASSUME NEW s \in Detectors, ReportClearance(s)
      PROVE  TypeOK'
  <2>1. s \in Sections
    BY BoundsAssumption
  <2>2. Lowered(s) \in [Sections -> SectionRecord]
    BY <2>1 DEF Lowered, SectionRecord
  <2>3. sec' \in [Sections -> SectionRecord]
    BY <1>3, <2>2, LockSectionsType DEF ReportClearance
  <2>4. /\ pt' \in [Points -> PointRecord]
        /\ \A p \in Points : pt'[p].status = "MOVING" => pt'[p].target \in OperatorDirs
    <3>1. \E P : pt' = LockPoints(pt, P, NoRoute)
      BY <1>3 DEF ReportClearance
    <3>2. QED
      BY <3>1, LockPointsType, LockPointsFields DEF TypeOK
  <2>5. rt' \in [RouteIds -> RouteRecord] /\ \A j \in RouteIds : RouteInBounds(rt'[j])
    BY <1>3, OnClearanceType DEF ReportClearance
  <2>6. QED
    BY <1>3, <2>3, <2>4, <2>5 DEF ReportClearance
<1>4. ASSUME NEW i \in RouteIds, CancelRoute(i)
      PROVE  TypeOK'
  <2> DEFINE k == rt[i].plan
  <2>1. rt[i].state # "NONE" /\ k \in Plans
    BY <1>4 DEF CancelRoute, IsActive, ActiveStates, RouteInBounds
  <2>2. [aspect |-> "RED", route |-> NoRoute] \in SignalRecord
    BY DEF SignalRecord, Aspects
  <2>3. sig' \in [Signals -> SignalRecord] /\ clock' = clock
    BY <1>4, <2>2 DEF CancelRoute
  <2>4. CASE CancelsAtOnce(rt[i], sec)
    <3>1. /\ rt' = [rt EXCEPT ![i] = Cancelled(rt[i])]
          /\ sec' = LockSections(sec, PathSet(k), NoRoute)
          /\ pt' = LockPoints(pt, PlanPoints(k), NoRoute)
      BY <1>4, <2>4 DEF CancelRoute
    <3>2. rt' \in [RouteIds -> RouteRecord] /\ \A j \in RouteIds : RouteInBounds(rt'[j])
      BY <2>1, <3>1, CancelledType
    <3>3. QED
      BY <2>3, <3>1, <3>2, LockSectionsType, LockPointsType, LockPointsFields
  <2>5. CASE ~CancelsAtOnce(rt[i], sec)
    <3>1. CancelDeadline(rt[i]) \in Nat
      BY <2>1, BoundsAssumption, ExpandAssumption DEF CancelDeadline
    <3> DEFINE r == [rt[i] EXCEPT !.state = "CANCEL_PENDING", !.deadline = CancelDeadline(rt[i])]
    <3>2. r \in RouteRecord /\ r.plan = k /\ r.released = rt[i].released
      BY <3>1 DEF RouteRecord, States
    <3>3. RouteInBounds(r)
      BY <2>1, <3>2 DEF RouteInBounds
    <3>4. rt' = [rt EXCEPT ![i] = r]
      BY <1>4, <2>5 DEF CancelRoute
    <3>5. QED
      BY <1>4, <2>3, <2>5, <3>2, <3>3, <3>4 DEF CancelRoute
  <2>6. QED
    BY <2>4, <2>5
<1>5. ASSUME NEW g \in Signals, SetSignalRed(g)
      PROVE  TypeOK'
  BY <1>5 DEF SetSignalRed, RedSignal, SignalRecord, Aspects
<1>6. ASSUME NEW p \in Points, NEW dir \in OperatorDirs, OperatePoint(p, dir)
      PROVE  TypeOK'
  <2>1. MoveTime[p] \in Nat
    BY LayoutAssumption
  <2>2. pt' = [pt EXCEPT ![p] = IssueMove(pt[p], dir, clock, MoveTime[p])]
    BY <1>6 DEF OperatePoint
  <2>3. /\ pt' \in [Points -> PointRecord]
        /\ \A x \in Points : pt'[x].status = "MOVING" => pt'[x].target \in OperatorDirs
    BY <2>1, <2>2, IssueMoveType
  <2>4. QED
    BY <1>6, <2>3 DEF OperatePoint
<1>7. ASSUME NEW p \in Points, NEW on \in BOOLEAN, BypassPoint(p, on)
      PROVE  TypeOK'
  <2>1. ~on /\ pt[p] \in PointRecord
    BY <1>7 DEF BypassPoint, BypassRefused, Degraded, PointRecord
  <2>2. pt' = pt
    BY <1>7, <2>1 DEF BypassPoint, Bypass, PointRecord
  <2>3. QED
    BY <1>7, <2>2 DEF BypassPoint
<1>8. ASSUME NEW delta \in Deltas, AdvanceClock(delta)
      PROVE  TypeOK'
  <2> DEFINE now == clock + delta
             npt == Detections(now)
  <2>1. now \in Nat /\ clock' = now
    <3>1. delta \in Nat /\ clock \in Nat
      BY BoundsAssumption
    <3>2. clock' = now
      BY <1>8 DEF AdvanceClock
    <3>3. QED
      BY <3>1, <3>2
  <2>2. PICK pick \in Picks(npt) :
          /\ sig' = [g \in Signals |->
                       IF pick[g] = NoRoute THEN sig[g]
                       ELSE [aspect |-> ClearAspect(rt[pick[g]].plan), route |-> pick[g]]]
          /\ rt' = [i \in RouteIds |->
                      IF i \in Winners(npt, pick)
                      THEN [rt[i] EXCEPT !.state = "LOCKED", !.timed = now > 0]
                      ELSE IF i \in Due(now) THEN Cancelled(rt[i]) ELSE rt[i]]
    BY <1>8 DEF AdvanceClock
  <2>3. /\ sec' = LockSections(sec, UNION {PathSet(rt[i].plan) : i \in Due(now)}, NoRoute)
        /\ pt' = LockPoints(npt, UNION {PlanPoints(rt[i].plan) : i \in Due(now)}, NoRoute)
    BY <1>8 DEF AdvanceClock
  <2>4. sec' \in [Sections -> SectionRecord]
    BY <2>3, LockSectionsType
  <2>5. /\ pt' \in [Points -> PointRecord]
        /\ \A p \in Points : pt'[p].status = "MOVING" => pt'[p].target \in OperatorDirs
    BY <2>3, DetectionsFacts, LockPointsType, LockPointsFields
  <2>6. \A g \in Signals : pick[g] \in RouteIds \cup {NoRoute}
    BY <2>2 DEF Picks, Openable
  <2>7. sig' \in [Signals -> SignalRecord]
    BY <2>2, <2>6 DEF SignalRecord, ClearAspect, Aspects
  <2>8. ASSUME NEW i \in RouteIds
        PROVE  rt'[i] \in RouteRecord /\ RouteInBounds(rt'[i])
    <3>1. CASE i \in Winners(npt, pick)
      <4>1. rt[i].state = "POINTS_MOVING"
        BY <3>1 DEF Winners, Openable
      <4> DEFINE later == now > 0
      <4>2. rt'[i] = [rt[i] EXCEPT !.state = "LOCKED", !.timed = later]
        BY <2>2, <3>1
      <4>3. later \in BOOLEAN
        OBVIOUS
      <4> HIDE DEF later
      <4>4. rt[i] \in RouteRecord /\ RouteInBounds(rt[i])
        BY DEF TypeOK
      <4>5. rt'[i] \in RouteRecord /\ rt'[i].plan = rt[i].plan /\ rt'[i].released = rt[i].released
        <5>1. LET o == [rt[i] EXCEPT !.state = "LOCKED", !.timed = later]
              IN  o \in RouteRecord /\ o.plan = rt[i].plan /\ o.released = rt[i].released
          BY <4>3, <4>4, OpenedType
        <5>2. QED
          BY <4>2, <5>1
      <4>6. QED
        BY <4>1, <4>4, <4>5 DEF RouteInBounds
    <3>2. CASE i \notin Winners(npt, pick) /\ i \in Due(now)
      <4>1. rt[i].state = "CANCEL_PENDING"
        BY <3>2 DEF Due, BackstopDue
      <4>2. rt'[i] = Cancelled(rt[i])
        BY <2>2, <3>2
      <4>3. QED
        BY <4>1, <4>2, CancelledType
    <3>3. CASE i \notin Winners(npt, pick) /\ i \notin Due(now)
      BY <2>2, <3>3
    <3>4. QED
      BY <3>1, <3>2, <3>3
  <2>9. rt' \in [RouteIds -> RouteRecord] /\ \A i \in RouteIds : RouteInBounds(rt'[i])
    BY <2>2, <2>8
  <2>10. QED
    BY <2>1, <2>4, <2>5, <2>7, <2>9
<1>9. CASE UNCHANGED vars
  BY <1>9 DEF vars
<1>10. QED
  BY <1>1, <1>2, <1>3, <1>4, <1>5, <1>6, <1>7, <1>8, <1>9 DEF Next

\* Every value keeps its type: points stay healthy and unbypassed, and a
\* released count stays within its path, in every run of the engine.
THEOREM TypeCorrect == Spec => []TypeOK
<1>1. Init => TypeOK
  BY InitType
<1>2. TypeOK /\ [Next]_vars => TypeOK'
  BY NextType
<1>3. QED
  BY <1>1, <1>2, PTL DEF Spec

-----------------------------------------------------------------------------
(* The points and the locks *)

\* Locking points spares the others.
LEMMA LockPointsSpares ==
    ASSUME NEW f, NEW P, NEW i, NEW p \in Points, p \notin P
    PROVE  LockPoints(f, P, i)[p] = f[p]
BY DEF LockPoints

\* What a clean interlocking check says of the elements of the request: no
\* section is occupied, and nothing is locked by an active route.
LEMMA AcceptedFacts ==
    ASSUME TypeOK, NEW i \in RouteIds, NEW k \in Plans, Accepted(i, k)
    PROVE  /\ rt[i].state = "NONE"
           /\ \A p \in PlanPoints(k) : ~HeldByActive(pt[p], rt)
           /\ \A s \in PathSet(k) : sec[s].occ = 0 /\ ~HeldByActive(sec[s], rt)
<1>1. rt[i].state = "NONE" /\ Check(k, sec, pt, sig, rt) = {}
  BY DEF Accepted
<1>2. \A q \in Reqs(k) : ~PointUnusable(pt[q.point], rt)
  <2>1. ASSUME NEW q \in Required(k) PROVE ~PointUnusable(pt[q.point], rt)
    <3>1. PointUnusable(pt[q.point], rt) => <<"POINT_CONFLICT", q.point>> \in Check(k, sec, pt, sig, rt)
      BY DEF Check
    <3>2. QED
      BY <1>1, <3>1
  <2>2. ASSUME NEW q \in Flank(k) PROVE ~PointUnusable(pt[q.point], rt)
    <3>1. PointUnusable(pt[q.point], rt) => <<"FLANK_CONFLICT", q.point>> \in Check(k, sec, pt, sig, rt)
      BY DEF Check
    <3>2. QED
      BY <1>1, <3>1
  <2>3. QED
    BY <2>1, <2>2 DEF Reqs
<1>3. \A p \in PlanPoints(k) : ~HeldByActive(pt[p], rt)
  BY <1>2 DEF PlanPoints, PointUnusable
<1>4. \A s \in PathSet(k) : SectionConflict(s, k, sec, sig, rt) = {}
  BY <1>1 DEF Check
<1>5. ASSUME NEW s \in PathSet(k)
      PROVE  sec[s].occ = 0 /\ ~HeldByActive(sec[s], rt)
  <2>1. ~(sec[s].occ > 0) /\ ~HeldByActive(sec[s], rt)
    BY <1>4 DEF SectionConflict
  <2>2. sec[s].occ \in Nat
    BY PlanFacts DEF TypeOK, SectionRecord
  <2>3. QED
    BY <2>1, <2>2
<1>6. QED
  BY <1>1, <1>3, <1>5

\* A request that starts leaves the points of every other active route alone.
LEMMA AcceptedSpares ==
    ASSUME TypeOK, PointsHeld, NEW i \in RouteIds, NEW k \in Plans, Accepted(i, k),
           NEW j \in RouteIds, IsActive(rt[j]),
           NEW p \in PlanPoints(rt[j].plan)
    PROVE  p \notin PlanPoints(k) /\ j # i
<1>1. pt[p].lock = j
  BY DEF PointsHeld
<1>2. HeldByActive(pt[p], rt)
  BY <1>1, LayoutAssumption DEF HeldByActive
<1>3. QED
  BY <1>2, AcceptedFacts DEF IsActive, ActiveStates

\* An active route has a plan whose points are points of the layout.
LEMMA ActiveFacts ==
    ASSUME TypeOK, NEW j \in RouteIds, IsActive(rt[j])
    PROVE  /\ rt[j] \in RouteRecord
           /\ RouteInBounds(rt[j])
           /\ rt[j].plan \in Plans
           /\ \A p \in PlanPoints(rt[j].plan) : p \in Points
           /\ \A q \in Reqs(rt[j].plan) :
                q.point \in PlanPoints(rt[j].plan) /\ q.point \in Points
<1>1. rt[j] \in RouteRecord /\ RouteInBounds(rt[j]) /\ rt[j].plan \in Plans
  BY DEF TypeOK, IsActive, ActiveStates, RouteInBounds
<1>2. QED
  BY <1>1, PlanFacts DEF PlanPoints, Requirement

\* Only a granted request makes a route active; every other step leaves an
\* active route as it was, but for its state and its released count.
LEMMA ActiveBefore ==
    ASSUME TypeOK, NEW j \in RouteIds, IsActive(rt'[j]),
           \/ \E s \in Detectors : ReportOccupancy(s) \/ ReportClearance(s)
           \/ \E i \in RouteIds : CancelRoute(i)
           \/ \E delta \in Deltas : AdvanceClock(delta)
           \/ UNCHANGED rt
    PROVE  IsActive(rt[j]) /\ rt'[j].plan = rt[j].plan
<1>0. rt[j] \in RouteRecord /\ RouteInBounds(rt[j])
  BY DEF TypeOK
<1>1. ASSUME NEW s \in Detectors, ReportOccupancy(s)
      PROVE  IsActive(rt[j]) /\ rt'[j].plan = rt[j].plan
  <2>1. rt'[j] = IF IsActive(rt[j]) THEN OnOccupancy(rt[j], s) ELSE rt[j]
    BY <1>1 DEF ReportOccupancy
  <2>2. QED
    BY <1>0, <2>1, OnOccupancyType
<1>2. ASSUME NEW s \in Detectors, ReportClearance(s)
      PROVE  IsActive(rt[j]) /\ rt'[j].plan = rt[j].plan
  <2>1. rt'[j] = OnClearance(rt[j], s, Lowered(s))
    BY <1>2 DEF ReportClearance
  <2>2. CASE Releases(rt[j], s, Lowered(s))
    <3>1. rt[j].state \in {"TRAIN_IN_ROUTE", "RELEASING", "CANCEL_PENDING"}
      BY <2>2 DEF Releases
    <3>2. QED
      BY <1>0, <2>1, <3>1, OnClearanceType DEF IsActive, ActiveStates
  <2>3. CASE ~Releases(rt[j], s, Lowered(s))
    BY <1>0, <2>1, <2>3, OnClearanceType
  <2>4. QED
    BY <2>2, <2>3
<1>3. ASSUME NEW i \in RouteIds, CancelRoute(i)
      PROVE  IsActive(rt[j]) /\ rt'[j].plan = rt[j].plan
  <2>1. IsActive(rt[i])
    BY <1>3 DEF CancelRoute
  <2>2. \/ rt' = [rt EXCEPT ![i] = Cancelled(rt[i])]
        \/ rt' = [rt EXCEPT ![i].state = "CANCEL_PENDING", ![i].deadline = CancelDeadline(rt[i])]
    BY <1>3 DEF CancelRoute
  <2>3. CASE j = i
    <3>1. rt[i] \in RouteRecord /\ rt \in [RouteIds -> RouteRecord]
      BY DEF TypeOK
    <3>2. rt'[i].plan = rt[i].plan
      BY <2>2, <3>1 DEF Cancelled, RouteRecord
    <3>3. QED
      BY <2>1, <2>3, <3>2
  <2>4. CASE j # i
    BY <2>2, <2>4 DEF TypeOK
  <2>5. QED
    BY <2>3, <2>4
<1>4. ASSUME NEW delta \in Deltas, AdvanceClock(delta)
      PROVE  IsActive(rt[j]) /\ rt'[j].plan = rt[j].plan
  <2> DEFINE npt == Detections(clock + delta)
  <2>1. PICK pick \in Picks(npt) :
          rt' = [i \in RouteIds |->
                   IF i \in Winners(npt, pick)
                   THEN [rt[i] EXCEPT !.state = "LOCKED", !.timed = clock + delta > 0]
                   ELSE IF i \in Due(clock + delta) THEN Cancelled(rt[i]) ELSE rt[i]]
    BY <1>4 DEF AdvanceClock
  <2>2. CASE j \in Winners(npt, pick)
    <3>1. rt[j].state = "POINTS_MOVING"
      BY <2>2 DEF Winners, Openable
    <3>2. rt'[j].plan = rt[j].plan
      BY <1>0, <2>1, <2>2 DEF RouteRecord
    <3>3. QED
      BY <3>1, <3>2 DEF IsActive, ActiveStates
  <2>3. CASE j \notin Winners(npt, pick)
    <3>1. rt'[j] = Cancelled(rt[j]) => rt'[j].state = "CANCELLED"
      BY <1>0 DEF Cancelled, RouteRecord
    <3>2. rt'[j] = rt[j]
      BY <2>1, <2>3, <3>1 DEF IsActive, ActiveStates
    <3>3. QED
      BY <3>2
  <2>4. QED
    BY <2>2, <2>3
<1>5. QED
  BY <1>1, <1>2, <1>3, <1>4

\* A route becomes active only by a granted request.
LEMMA NewlyActive ==
    ASSUME TypeOK, [Next]_vars, NEW j \in RouteIds, IsActive(rt'[j])
    PROVE  \/ IsActive(rt[j]) /\ rt'[j].plan = rt[j].plan
           \/ \E k \in Plans : /\ StartMoves(j, k) \/ ClearAtOnce(j, k)
                               /\ rt'[j].plan = k
                               /\ rt[j].state = "NONE"
<1>1. ASSUME NEW i \in RouteIds, NEW k \in Plans, RequestRoute(i, k)
      PROVE  \/ IsActive(rt[j]) /\ rt'[j].plan = rt[j].plan
             \/ /\ StartMoves(j, k) \/ ClearAtOnce(j, k)
                /\ rt'[j].plan = k
                /\ rt[j].state = "NONE"
  <2>1. CASE SetupFails(i, k) \/ ClearRefused(i, k)
    BY <2>1, TurnedDown
  <2>2. CASE StartMoves(i, k) \/ ClearAtOnce(i, k)
    <3>1. PICK st \in {"POINTS_MOVING", "LOCKED"} : rt' = [rt EXCEPT ![i] = NewRoute(k, st, clock)]
      BY <2>2, Granted
    <3>2. rt[i].state = "NONE"
      BY <2>2, Granted DEF Accepted
    <3>3. CASE j = i
      BY <2>2, <3>1, <3>2, <3>3 DEF TypeOK, NewRoute
    <3>4. CASE j # i
      BY <3>1, <3>4 DEF TypeOK
    <3>5. QED
      BY <3>3, <3>4
  <2>3. QED
    BY <1>1, <2>1, <2>2 DEF RequestRoute
<1>2. CASE UNCHANGED rt
  BY <1>2, ActiveBefore
<1>3. ASSUME NEW s \in Detectors, ReportOccupancy(s) \/ ReportClearance(s)
      PROVE  IsActive(rt[j]) /\ rt'[j].plan = rt[j].plan
  BY <1>3, ActiveBefore
<1>4. ASSUME NEW i \in RouteIds, CancelRoute(i)
      PROVE  IsActive(rt[j]) /\ rt'[j].plan = rt[j].plan
  BY <1>4, ActiveBefore
<1>5. ASSUME NEW delta \in Deltas, AdvanceClock(delta)
      PROVE  IsActive(rt[j]) /\ rt'[j].plan = rt[j].plan
  BY <1>5, ActiveBefore
<1>6. (\/ \E g \in Signals : SetSignalRed(g)
       \/ \E p \in Points, dir \in OperatorDirs : OperatePoint(p, dir)
       \/ \E p \in Points, on \in BOOLEAN : BypassPoint(p, on)
       \/ UNCHANGED vars) => UNCHANGED rt
  BY DEF SetSignalRed, OperatePoint, BypassPoint, vars
<1>7. QED
  BY <1>1, <1>2, <1>3, <1>4, <1>5, <1>6 DEF Next

\* Same position: the point lies or moves as before.
SamePosition(q, r) == q.dir = r.dir /\ q.status = r.status /\ q.target = r.target

\* While a route stays active, no step takes a point of its plan from it, and
\* the only thing that happens to the point is that its move ends where it was
\* sent.
LEMMA PointsSpared ==
    ASSUME TypeOK, PointsHeld, [Next]_vars,
           NEW j \in RouteIds, IsActive(rt[j]), IsActive(rt'[j]),
           NEW p \in PlanPoints(rt[j].plan)
    PROVE  /\ pt'[p].lock = j
           /\ \/ SamePosition(pt'[p], pt[p])
              \/ pt[p].status = "MOVING" /\ AtTarget(pt'[p], pt[p].target)
<1>0. /\ p \in Points /\ pt[p] \in PointRecord /\ pt[p].lock = j /\ j # NoRoute
      /\ pt \in [Points -> PointRecord]
  BY ActiveFacts, LayoutAssumption DEF TypeOK, PointsHeld
<1> DEFINE Claim == /\ pt'[p].lock = j
                   /\ \/ SamePosition(pt'[p], pt[p])
                      \/ pt[p].status = "MOVING" /\ AtTarget(pt'[p], pt[p].target)
<1>1. ASSUME NEW i \in RouteIds, NEW k \in Plans, RequestRoute(i, k)
      PROVE  Claim
  <2>1. Accepted(i, k)
    BY <1>1 DEF RequestRoute, SetupFails, StartMoves, ClearAtOnce, ClearRefused, Laid
  <2>2. p \notin PlanPoints(k)
    BY <2>1, AcceptedSpares
  <2>3. PICK Q \in SUBSET Reqs(k), h \in Ids : pt' = LockPoints(Issued(Q), PlanPoints(k), h)
    BY <1>1, TurnedDown, Granted DEF RequestRoute
  <2>4. Issued(Q)[p] = pt[p] /\ Issued(Q) \in [Points -> PointRecord]
    BY <1>0, <2>2, IssuedFacts
  <2>5. QED
    BY <1>0, <2>2, <2>3, <2>4, LockPointsSpares DEF SamePosition
<1>2. CASE UNCHANGED pt
  BY <1>0, <1>2 DEF SamePosition
<1>3. ASSUME NEW s \in Detectors, ReportClearance(s)
      PROVE  Claim
  <2> DEFINE done == {i \in RouteIds : ReleasesLast(rt[i], s, Lowered(s))}
             freed == UNION {PlanPoints(rt[i].plan) : i \in done}
  <2>1. pt' = LockPoints(pt, freed, NoRoute)
    BY <1>3 DEF ReportClearance
  <2>2. ASSUME NEW i \in done PROVE p \notin PlanPoints(rt[i].plan)
    <3>1. Releases(rt[i], s, Lowered(s))
      BY DEF ReleasesLast
    <3>2. IsActive(rt[i])
      BY <3>1 DEF Releases, IsActive, ActiveStates
    <3>3. rt'[i] = OnClearance(rt[i], s, Lowered(s))
      BY <1>3 DEF ReportClearance
    <3>4. rt'[i].state \in TerminalStates
      BY <3>1, <3>3, OnClearanceType DEF TypeOK
    <3>5. i # j
      BY <3>4 DEF TerminalStates, IsActive, ActiveStates
    <3>6. QED
      BY <1>0, <3>2, <3>5 DEF PointsHeld
  <2>3. p \notin freed
    BY <2>2
  <2> HIDE DEF freed
  <2>4. QED
    BY <1>0, <2>1, <2>3, LockPointsSpares DEF SamePosition
<1>4. ASSUME NEW i \in RouteIds, CancelRoute(i)
      PROVE  Claim
  <2>1. CASE CancelsAtOnce(rt[i], sec)
    <3>1. /\ rt' = [rt EXCEPT ![i] = Cancelled(rt[i])]
          /\ pt' = LockPoints(pt, PlanPoints(rt[i].plan), NoRoute)
          /\ IsActive(rt[i])
      BY <1>4, <2>1 DEF CancelRoute
    <3>2. rt'[i].state = "CANCELLED"
      BY <3>1, CancelledType DEF TypeOK, IsActive, ActiveStates
    <3>3. i # j
      BY <3>2 DEF IsActive, ActiveStates
    <3>4. p \notin PlanPoints(rt[i].plan)
      BY <1>0, <3>1, <3>3 DEF PointsHeld
    <3>5. QED
      BY <1>0, <3>1, <3>4, LockPointsSpares DEF SamePosition
  <2>2. CASE ~CancelsAtOnce(rt[i], sec)
    BY <1>2, <1>4, <2>2 DEF CancelRoute
  <2>3. QED
    BY <2>1, <2>2
<1>5. ASSUME NEW x \in Points, NEW dir \in OperatorDirs, OperatePoint(x, dir)
      PROVE  Claim
  <2>1. x # p
    BY <1>0, <1>5 DEF OperatePoint
  <2>2. pt'[p] = pt[p]
    BY <1>0, <1>5, <2>1 DEF OperatePoint
  <2>3. QED
    BY <1>0, <2>2 DEF SamePosition
<1>6. ASSUME NEW x \in Points, NEW on \in BOOLEAN, BypassPoint(x, on)
      PROVE  Claim
  <2>1. ~on /\ pt[x] \in PointRecord
    BY <1>6 DEF BypassPoint, BypassRefused, Degraded, PointRecord, TypeOK
  <2>2. UNCHANGED pt
    BY <1>0, <1>6, <2>1 DEF BypassPoint, Bypass, PointRecord
  <2>3. QED
    BY <1>2, <2>2
<1>7. ASSUME NEW delta \in Deltas, AdvanceClock(delta)
      PROVE  Claim
  <2> DEFINE now == clock + delta
             npt == Detections(now)
             freed == UNION {PlanPoints(rt[i].plan) : i \in Due(now)}
  <2>1. PICK pick \in Picks(npt) :
          rt' = [i \in RouteIds |->
                   IF i \in Winners(npt, pick)
                   THEN [rt[i] EXCEPT !.state = "LOCKED", !.timed = now > 0]
                   ELSE IF i \in Due(now) THEN Cancelled(rt[i]) ELSE rt[i]]
    BY <1>7 DEF AdvanceClock
  <2>2. pt' = LockPoints(npt, freed, NoRoute)
    BY <1>7 DEF AdvanceClock
  <2>3. ASSUME NEW i \in Due(now) PROVE p \notin PlanPoints(rt[i].plan)
    <3>1. i \in RouteIds /\ rt[i].state = "CANCEL_PENDING"
      BY DEF Due, BackstopDue
    <3>2. i \notin Winners(npt, pick)
      BY <3>1 DEF Winners, Openable
    <3>3. rt'[i] = Cancelled(rt[i])
      BY <2>1, <3>1, <3>2
    <3>4. rt'[i].state = "CANCELLED"
      BY <3>1, <3>3, CancelledType DEF TypeOK
    <3>5. i # j
      BY <3>4 DEF IsActive, ActiveStates
    <3>6. QED
      BY <1>0, <3>1, <3>5 DEF PointsHeld, IsActive, ActiveStates
  <2>4. p \notin freed
    BY <2>3
  <2>5. /\ npt \in [Points -> PointRecord]
        /\ npt[p].lock = pt[p].lock
        /\ npt[p] = pt[p] \/ (pt[p].status = "MOVING" /\ AtTarget(npt[p], pt[p].target))
    BY <1>0, DetectionsFacts
  <2> HIDE DEF freed, npt
  <2>6. QED
    BY <1>0, <2>2, <2>4, <2>5, LockPointsSpares DEF SamePosition, AtTarget
<1>8. ((\E s \in Detectors : ReportOccupancy(s)) \/ (\E g \in Signals : SetSignalRed(g)) \/ UNCHANGED vars)
         => UNCHANGED pt
  BY DEF ReportOccupancy, SetSignalRed, vars
<1>9. QED
  BY <1>1, <1>2, <1>3, <1>4, <1>5, <1>6, <1>7, <1>8 DEF Next

LEMMA PointsHeldStep == TypeOK /\ PointsHeld /\ [Next]_vars => PointsHeld'
<1> SUFFICES ASSUME TypeOK, PointsHeld, [Next]_vars,
                    NEW j \in RouteIds, IsActive(rt'[j]),
                    NEW p \in PlanPoints(rt'[j].plan)
             PROVE  pt'[p].lock = j
  BY DEF PointsHeld, IsActive
<1>1. CASE IsActive(rt[j]) /\ rt'[j].plan = rt[j].plan
  BY <1>1, PointsSpared
<1>2. ASSUME NEW k \in Plans, StartMoves(j, k) \/ ClearAtOnce(j, k), rt'[j].plan = k
      PROVE  pt'[p].lock = j
  <2>1. p \in PlanPoints(k) /\ p \in Points
    BY <1>2, PlanFacts DEF PlanPoints, Requirement
  <2>2. Issued(Reqs(k)) \in [Points -> PointRecord]
    BY IssuedFacts
  <2>3. pt' = LockPoints(Issued(Reqs(k)), PlanPoints(k), j)
    BY <1>2, Granted
  <2>4. QED
    BY <2>1, <2>2, <2>3, LockPointsFields
<1>3. QED
  BY <1>1, <1>2, NewlyActive

LEMMA PointsCommittedStep ==
    TypeOK /\ PointsHeld /\ PointsCommitted /\ [Next]_vars => PointsCommitted'
<1> SUFFICES ASSUME TypeOK, PointsHeld, PointsCommitted, [Next]_vars,
                    NEW j \in RouteIds, IsActive(rt'[j]),
                    NEW q \in Reqs(rt'[j].plan)
             PROVE  \/ AtTarget(pt'[q.point], q.dir)
                    \/ pt'[q.point].status = "MOVING" /\ pt'[q.point].target = q.dir
  BY DEF PointsCommitted, IsActive
<1>1. CASE IsActive(rt[j]) /\ rt'[j].plan = rt[j].plan
  <2>1. q.point \in PlanPoints(rt[j].plan)
    BY <1>1, ActiveFacts
  <2>2. \/ AtTarget(pt[q.point], q.dir)
        \/ pt[q.point].status = "MOVING" /\ pt[q.point].target = q.dir
    BY <1>1 DEF PointsCommitted
  <2>3. \/ SamePosition(pt'[q.point], pt[q.point])
        \/ pt[q.point].status = "MOVING" /\ AtTarget(pt'[q.point], pt[q.point].target)
    BY <1>1, <2>1, PointsSpared
  <2>4. QED
    BY <2>2, <2>3 DEF SamePosition, AtTarget
<1>2. ASSUME NEW k \in Plans, StartMoves(j, k) \/ ClearAtOnce(j, k), rt'[j].plan = k
      PROVE  \/ AtTarget(pt'[q.point], q.dir)
             \/ pt'[q.point].status = "MOVING" /\ pt'[q.point].target = q.dir
  BY <1>2, Granted
<1>3. QED
  BY <1>1, <1>2, NewlyActive

\* The states in which the points are known to be laid are entered from one
\* another, or by a clearing of the signal, which looks at the points.
LEMMA NewlyLaid ==
    ASSUME TypeOK, [Next]_vars, NEW j \in RouteIds, rt'[j].state \in LaidStates
    PROVE  \/ rt[j].state \in LaidStates /\ rt'[j].plan = rt[j].plan
           \/ \E k \in Plans : ClearAtOnce(j, k) /\ rt'[j].plan = k
           \/ /\ rt[j].state = "POINTS_MOVING" /\ rt'[j].plan = rt[j].plan
              /\ \E delta \in Deltas :
                   /\ AdvanceClock(delta)
                   /\ j \in Openable(Detections(clock + delta))
<1>0. /\ IsActive(rt'[j]) /\ rt[j] \in RouteRecord /\ RouteInBounds(rt[j])
      /\ rt \in [RouteIds -> RouteRecord]
  BY DEF LaidStates, IsActive, ActiveStates, TypeOK
<1>1. CASE \E k \in Plans : (StartMoves(j, k) \/ ClearAtOnce(j, k)) /\ rt'[j].plan = k
  <2>1. PICK k \in Plans : (StartMoves(j, k) \/ ClearAtOnce(j, k)) /\ rt'[j].plan = k
    BY <1>1
  <2>2. ~StartMoves(j, k)
    BY <1>0 DEF StartMoves, NewRoute, LaidStates
  <2>3. QED
    BY <2>1, <2>2
<1>2. CASE IsActive(rt[j]) /\ rt'[j].plan = rt[j].plan
  <2>1. CASE rt'[j] = rt[j]
    BY <2>1
  <2>2. ASSUME NEW i \in RouteIds, NEW k \in Plans, RequestRoute(i, k)
        PROVE  rt'[j] = rt[j]
    <3>1. rt[i].state = "NONE"
      BY <2>2 DEF RequestRoute, SetupFails, StartMoves, ClearAtOnce, ClearRefused, Laid, Accepted
    <3>2. i # j
      BY <1>2, <3>1 DEF IsActive, ActiveStates
    <3>3. QED
      BY <1>0, <2>2, <3>2 DEF RequestRoute, SetupFails, StartMoves, ClearAtOnce, ClearRefused
  <2>3. ASSUME NEW s \in Detectors, ReportOccupancy(s)
        PROVE  rt[j].state \in LaidStates
    <3>1. rt'[j] = OnOccupancy(rt[j], s)
      BY <1>2, <2>3 DEF ReportOccupancy
    <3>2. QED
      BY <1>0, <3>1, OnOccupancyType DEF LaidStates
  <2>4. ASSUME NEW s \in Detectors, ReportClearance(s)
        PROVE  rt[j].state \in LaidStates
    <3>1. rt'[j] = OnClearance(rt[j], s, Lowered(s))
      BY <2>4 DEF ReportClearance
    <3>2. CASE Releases(rt[j], s, Lowered(s))
      <4>1. /\ rt[j].state \in {"TRAIN_IN_ROUTE", "RELEASING", "CANCEL_PENDING"}
            /\ rt'[j].state \in {"RELEASING", "CANCEL_PENDING"} \cup TerminalStates
            /\ rt'[j].state = "RELEASING" => rt[j].state # "CANCEL_PENDING"
        BY <1>0, <3>1, <3>2, OnClearanceType
      <4>2. QED
        BY <4>1 DEF LaidStates, TerminalStates
    <3>3. CASE ~Releases(rt[j], s, Lowered(s))
      BY <3>1, <3>3 DEF OnClearance
    <3>4. QED
      BY <3>2, <3>3
  <2>5. ASSUME NEW i \in RouteIds, CancelRoute(i)
        PROVE  rt'[j] = rt[j]
    <3>1. i # j
      <4>1. SUFFICES ASSUME i = j PROVE FALSE
        OBVIOUS
      <4> DEFINE pending == [rt[j] EXCEPT !.state = "CANCEL_PENDING",
                                          !.deadline = CancelDeadline(rt[j])]
      <4>2. rt'[j] = Cancelled(rt[j]) \/ rt'[j] = pending
        BY <1>0, <2>5, <4>1 DEF CancelRoute
      <4>3. Cancelled(rt[j]).state = "CANCELLED" /\ pending.state = "CANCEL_PENDING"
        BY <1>0 DEF Cancelled, RouteRecord
      <4>4. QED
        BY <4>2, <4>3 DEF LaidStates
    <3>2. QED
      BY <1>0, <2>5, <3>1 DEF CancelRoute
  <2>6. ASSUME NEW delta \in Deltas, AdvanceClock(delta), rt'[j] # rt[j]
        PROVE  rt[j].state = "POINTS_MOVING" /\ j \in Openable(Detections(clock + delta))
    <3> DEFINE now == clock + delta
               npt == Detections(now)
    <3>1. PICK pick \in Picks(npt) :
            rt' = [i \in RouteIds |->
                     IF i \in Winners(npt, pick)
                     THEN [rt[i] EXCEPT !.state = "LOCKED", !.timed = now > 0]
                     ELSE IF i \in Due(now) THEN Cancelled(rt[i]) ELSE rt[i]]
      BY <2>6 DEF AdvanceClock
    <3>2. rt'[j] # Cancelled(rt[j])
      BY <1>0 DEF Cancelled, RouteRecord, LaidStates
    <3>3. j \in Winners(npt, pick)
      BY <2>6, <3>1, <3>2
    <3>4. QED
      BY <3>3 DEF Winners, Openable
  <2>7. (\/ \E g \in Signals : SetSignalRed(g)
         \/ \E p \in Points, dir \in OperatorDirs : OperatePoint(p, dir)
         \/ \E p \in Points, on \in BOOLEAN : BypassPoint(p, on)
         \/ UNCHANGED vars) => UNCHANGED rt
    BY DEF SetSignalRed, OperatePoint, BypassPoint, vars
  <2>8. QED
    BY <1>2, <2>1, <2>2, <2>3, <2>4, <2>5, <2>6, <2>7 DEF Next
<1>3. QED
  BY <1>0, <1>1, <1>2, NewlyActive

LEMMA RouteLaidStep ==
    TypeOK /\ PointsHeld /\ RouteLaid /\ [Next]_vars => RouteLaid'
<1> SUFFICES ASSUME TypeOK, PointsHeld, RouteLaid, [Next]_vars,
                    NEW j \in RouteIds, rt'[j].state \in LaidStates,
                    NEW q \in Reqs(rt'[j].plan)
             PROVE  AtTarget(pt'[q.point], q.dir)
  BY DEF RouteLaid
<1>1. CASE rt[j].state \in LaidStates /\ rt'[j].plan = rt[j].plan
  <2>1. IsActive(rt[j]) /\ IsActive(rt'[j])
    BY <1>1 DEF LaidStates, IsActive, ActiveStates
  <2>2. AtTarget(pt[q.point], q.dir) /\ q.point \in PlanPoints(rt[j].plan)
    BY <1>1, <2>1, ActiveFacts DEF RouteLaid
  <2>3. QED
    BY <2>1, <2>2, PointsSpared DEF AtTarget, SamePosition
<1>2. ASSUME NEW k \in Plans, ClearAtOnce(j, k), rt'[j].plan = k
      PROVE  AtTarget(pt'[q.point], q.dir)
  <2>1. rt'[j].state # "POINTS_MOVING"
    BY DEF LaidStates
  <2>2. rt' # [rt EXCEPT ![j] = NewRoute(k, "POINTS_MOVING", clock)]
    BY <2>1 DEF NewRoute, TypeOK
  <2>3. QED
    BY <1>2, <2>2, Granted
<1>3. ASSUME NEW delta \in Deltas, AdvanceClock(delta), rt[j].state = "POINTS_MOVING",
             j \in Openable(Detections(clock + delta)), rt'[j].plan = rt[j].plan
      PROVE  AtTarget(pt'[q.point], q.dir)
  <2> DEFINE now == clock + delta
             npt == Detections(now)
             freed == UNION {PlanPoints(rt[i].plan) : i \in Due(now)}
  <2>1. IsActive(rt[j]) /\ IsActive(rt'[j])
    BY <1>3 DEF LaidStates, IsActive, ActiveStates
  <2>2. AtTarget(npt[q.point], q.dir) /\ q.point \in Points /\ q.point \in PlanPoints(rt[j].plan)
    BY <1>3, <2>1, ActiveFacts DEF Openable
  <2>3. pt' = LockPoints(npt, freed, NoRoute) /\ npt \in [Points -> PointRecord]
    BY <1>3, DetectionsFacts DEF AdvanceClock
  <2> HIDE DEF freed, npt
  <2>4. QED
    BY <2>2, <2>3, LockPointsFields DEF AtTarget
<1>4. QED
  BY <1>1, <1>2, <1>3, NewlyLaid

-----------------------------------------------------------------------------
(* Theorems *)

\* The inductive invariant.  Only PointsHeld is inductive over TypeOK alone; the
\* two positions invariants need it, for a point nobody else may lock is a
\* point nobody else may move.
PointInv == TypeOK /\ PointsHeld /\ PointsCommitted /\ RouteLaid

LEMMA PointInvInductive == (Init => PointInv) /\ (PointInv /\ [Next]_vars => PointInv')
<1>1. Init => TypeOK
  BY InitType
<1>2. Init => PointInv
  <2> SUFFICES ASSUME Init PROVE PointInv
    OBVIOUS
  <2>1. \A j \in RouteIds : rt[j].state = "NONE"
    BY DEF Init, NoneRoute
  <2>2. \A j \in RouteIds : ~IsActive(rt[j]) /\ rt[j].state \notin LaidStates
    BY <2>1 DEF IsActive, ActiveStates, LaidStates
  <2>3. QED
    BY <1>1, <2>2 DEF PointInv, PointsHeld, PointsCommitted, RouteLaid
<1>3. PointInv /\ [Next]_vars => PointInv'
  BY NextType, PointsHeldStep, PointsCommittedStep, RouteLaidStep DEF PointInv
<1>4. QED
  BY <1>2, <1>3

\* Point allocation is exclusive: in every reachable state an active route
\* owns the lock of every point it needs.
THEOREM PointsAreHeld == Spec => []PointsHeld
<1>1. PointInv => PointsHeld
  BY DEF PointInv
<1>2. QED
  BY <1>1, PointInvInductive, PTL DEF Spec

\* Nobody redirects a point of an active route.
THEOREM PointsStayCommitted == Spec => []PointsCommitted
<1>1. PointInv => PointsCommitted
  BY DEF PointInv
<1>2. QED
  BY <1>1, PointInvInductive, PTL DEF Spec

\* The switches are laid and detected for the route as long as a train may run
\* over them.
THEOREM RoutesStayLaid == Spec => []RouteLaid
<1>1. PointInv => RouteLaid
  BY DEF PointInv
<1>2. QED
  BY <1>1, PointInvInductive, PTL DEF Spec

-----------------------------------------------------------------------------
(* Locks and moves *)

\* A section or a point is locked by a granted request and by nothing else.
LEMMA LocksTaken ==
    ASSUME TypeOK, [Next]_vars, NEW j \in RouteIds
    PROVE  /\ \A s \in Sections : sec'[s].lock = j =>
                \/ sec[s].lock = j
                \/ \E k \in Plans : s \in PathSet(k) /\ (StartMoves(j, k) \/ ClearAtOnce(j, k))
           /\ \A p \in Points : pt'[p].lock = j =>
                \/ pt[p].lock = j
                \/ \E k \in Plans : p \in PlanPoints(k) /\ (StartMoves(j, k) \/ ClearAtOnce(j, k))
<1> DEFINE Claim == /\ \A s \in Sections : sec'[s].lock = j =>
                        \/ sec[s].lock = j
                        \/ \E k \in Plans : s \in PathSet(k) /\ (StartMoves(j, k) \/ ClearAtOnce(j, k))
                   /\ \A p \in Points : pt'[p].lock = j =>
                        \/ pt[p].lock = j
                        \/ \E k \in Plans : p \in PlanPoints(k) /\ (StartMoves(j, k) \/ ClearAtOnce(j, k))
<1>0. /\ sec \in [Sections -> SectionRecord] /\ pt \in [Points -> PointRecord]
      /\ j # NoRoute /\ NoRoute \in Ids
  BY LayoutAssumption DEF TypeOK
<1>1. ASSUME NEW i \in RouteIds, NEW k \in Plans, RequestRoute(i, k)
      PROVE  Claim
  <2>1. CASE SetupFails(i, k) \/ ClearRefused(i, k)
    <3>1. PICK Q \in SUBSET Reqs(k) : pt' = LockPoints(Issued(Q), PlanPoints(k), NoRoute)
      BY <2>1, TurnedDown
    <3>2. /\ Issued(Q) \in [Points -> PointRecord]
          /\ \A p \in Points : Issued(Q)[p].lock = pt[p].lock
      BY IssuedFacts
    <3>3. \A p \in Points : pt'[p].lock = j => pt[p].lock = j
      BY <1>0, <3>1, <3>2, LockPointsFields
    <3>4. \A s \in Sections : sec'[s].lock = j => sec[s].lock = j
      BY <1>0, <2>1, TurnedDown, LockSectionsFields
    <3>5. QED
      BY <3>3, <3>4
  <2>2. CASE StartMoves(i, k) \/ ClearAtOnce(i, k)
    <3>1. /\ sec' = LockSections(sec, PathSet(k), i)
          /\ pt' = LockPoints(Issued(Reqs(k)), PlanPoints(k), i)
      BY <2>2, Granted
    <3>2. /\ Issued(Reqs(k)) \in [Points -> PointRecord]
          /\ \A p \in Points : Issued(Reqs(k))[p].lock = pt[p].lock
      BY IssuedFacts
    <3>3. \A p \in Points : pt'[p].lock = j => pt[p].lock = j \/ (p \in PlanPoints(k) /\ i = j)
      BY <3>1, <3>2, LockPointsFields
    <3>4. \A s \in Sections : sec'[s].lock = j => sec[s].lock = j \/ (s \in PathSet(k) /\ i = j)
      BY <1>0, <3>1, LockSectionsFields
    <3>5. QED
      BY <2>2, <3>3, <3>4
  <2>3. QED
    BY <1>1, <2>1, <2>2 DEF RequestRoute
<1>2. ASSUME NEW s \in Detectors, ReportOccupancy(s)
      PROVE  Claim
  BY <1>0, <1>2, BoundsAssumption DEF ReportOccupancy, SectionRecord
<1>3. ASSUME NEW s \in Detectors, ReportClearance(s)
      PROVE  Claim
  <2>1. /\ Lowered(s) \in [Sections -> SectionRecord]
        /\ \A t \in Sections : Lowered(s)[t].lock = sec[t].lock
    BY <1>0, BoundsAssumption DEF Lowered, SectionRecord
  <2>2. PICK S, P : /\ sec' = LockSections(Lowered(s), S, NoRoute)
                    /\ pt' = LockPoints(pt, P, NoRoute)
    BY <1>3 DEF ReportClearance
  <2>3. QED
    BY <1>0, <2>1, <2>2, LockSectionsFields, LockPointsFields
<1>4. ASSUME NEW i \in RouteIds, CancelRoute(i)
      PROVE  Claim
  <2>1. \/ /\ sec' = LockSections(sec, PathSet(rt[i].plan), NoRoute)
           /\ pt' = LockPoints(pt, PlanPoints(rt[i].plan), NoRoute)
        \/ UNCHANGED <<sec, pt>>
    BY <1>4 DEF CancelRoute
  <2>2. QED
    BY <1>0, <2>1, LockSectionsFields, LockPointsFields
<1>5. ASSUME NEW x \in Points, NEW dir \in OperatorDirs, OperatePoint(x, dir)
      PROVE  Claim
  <2>1. /\ pt' = [pt EXCEPT ![x] = IssueMove(pt[x], dir, clock, MoveTime[x])]
        /\ UNCHANGED sec
    BY <1>5 DEF OperatePoint
  <2>2. IssueMove(pt[x], dir, clock, MoveTime[x]).lock = pt[x].lock
    BY <1>0 DEF IssueMove, PointRecord
  <2>3. QED
    BY <1>0, <2>1, <2>2
<1>6. ASSUME NEW x \in Points, NEW on \in BOOLEAN, BypassPoint(x, on)
      PROVE  Claim
  <2>1. pt' = [pt EXCEPT ![x] = Bypass(pt[x], on)] /\ UNCHANGED sec
    BY <1>6 DEF BypassPoint
  <2>2. Bypass(pt[x], on).lock = pt[x].lock
    BY <1>0 DEF Bypass, PointRecord
  <2>3. QED
    BY <1>0, <2>1, <2>2
<1>7. ASSUME NEW delta \in Deltas, AdvanceClock(delta)
      PROVE  Claim
  <2> DEFINE npt == Detections(clock + delta)
  <2>1. PICK S, P : sec' = LockSections(sec, S, NoRoute) /\ pt' = LockPoints(npt, P, NoRoute)
    BY <1>7 DEF AdvanceClock
  <2>2. npt \in [Points -> PointRecord] /\ \A p \in Points : npt[p].lock = pt[p].lock
    BY DetectionsFacts
  <2> HIDE DEF npt
  <2>3. QED
    BY <1>0, <2>1, <2>2, LockSectionsFields, LockPointsFields
<1>8. ((\E g \in Signals : SetSignalRed(g)) \/ UNCHANGED vars) => UNCHANGED <<sec, pt>>
  BY DEF SetSignalRed, vars
<1>9. QED
  BY <1>1, <1>2, <1>3, <1>4, <1>5, <1>6, <1>7, <1>8 DEF Next

\* The ways a step can take a section from an active route: it is released, or
\* the route is cancelled, at once or by the clock.
LEMMA ActiveFate ==
    ASSUME TypeOK, [Next]_vars, NEW j \in RouteIds, IsActive(rt[j])
    PROVE  \/ /\ IsActive(rt'[j])
              /\ rt'[j].plan = rt[j].plan
              /\ rt'[j].released = rt[j].released
           \/ \E s \in Detectors : /\ ReportClearance(s)
                                   /\ Releases(rt[j], s, Lowered(s))
                                   /\ rt'[j] = OnClearance(rt[j], s, Lowered(s))
           \/ /\ sec' = LockSections(sec, PathSet(rt[j].plan), NoRoute)
              /\ pt' = LockPoints(pt, PlanPoints(rt[j].plan), NoRoute)
              /\ rt'[j] = Cancelled(rt[j])
           \/ \E delta \in Deltas : /\ AdvanceClock(delta)
                                    /\ j \in Due(clock + delta)
                                    /\ rt'[j] = Cancelled(rt[j])
<1> DEFINE Same == /\ IsActive(rt'[j])
                   /\ rt'[j].plan = rt[j].plan
                   /\ rt'[j].released = rt[j].released
<1>0. rt[j] \in RouteRecord /\ RouteInBounds(rt[j]) /\ rt \in [RouteIds -> RouteRecord]
  BY DEF TypeOK
<1>1. rt'[j] = rt[j] => Same
  BY DEF IsActive
<1>2. ASSUME NEW i \in RouteIds, NEW k \in Plans, RequestRoute(i, k)
      PROVE  Same
  <2>1. rt[i].state = "NONE"
    BY <1>2 DEF RequestRoute, SetupFails, StartMoves, ClearAtOnce, ClearRefused, Laid, Accepted
  <2>2. i # j
    BY <2>1 DEF IsActive, ActiveStates
  <2>3. rt'[j] = rt[j]
    BY <1>0, <1>2, <2>2 DEF RequestRoute, SetupFails, StartMoves, ClearAtOnce, ClearRefused
  <2>4. QED
    BY <1>1, <2>3
<1>3. ASSUME NEW s \in Detectors, ReportOccupancy(s)
      PROVE  Same
  <2>1. rt'[j] = OnOccupancy(rt[j], s)
    BY <1>3 DEF ReportOccupancy
  <2>2. QED
    BY <1>0, <1>1, <2>1, OnOccupancyType DEF IsActive, ActiveStates
<1>4. ASSUME NEW s \in Detectors, ReportClearance(s)
      PROVE  \/ Same
             \/ Releases(rt[j], s, Lowered(s)) /\ rt'[j] = OnClearance(rt[j], s, Lowered(s))
  <2>1. rt'[j] = OnClearance(rt[j], s, Lowered(s))
    BY <1>4 DEF ReportClearance
  <2>2. QED
    BY <1>0, <1>1, <2>1, OnClearanceType
<1>5. ASSUME NEW i \in RouteIds, CancelRoute(i)
      PROVE  \/ Same
             \/ /\ sec' = LockSections(sec, PathSet(rt[j].plan), NoRoute)
                /\ pt' = LockPoints(pt, PlanPoints(rt[j].plan), NoRoute)
                /\ rt'[j] = Cancelled(rt[j])
  <2>1. CASE i # j
    <3>1. rt'[j] = rt[j]
      BY <1>0, <1>5, <2>1 DEF CancelRoute
    <3>2. QED
      BY <1>1, <3>1
  <2>2. CASE i = j /\ CancelsAtOnce(rt[j], sec)
    BY <1>0, <1>5, <2>2 DEF CancelRoute
  <2>3. CASE i = j /\ ~CancelsAtOnce(rt[j], sec)
    <3>1. rt'[j] = [rt[j] EXCEPT !.state = "CANCEL_PENDING", !.deadline = CancelDeadline(rt[j])]
      BY <1>0, <1>5, <2>3 DEF CancelRoute
    <3>2. QED
      BY <1>0, <3>1 DEF RouteRecord, IsActive, ActiveStates
  <2>4. QED
    BY <2>1, <2>2, <2>3
<1>6. ASSUME NEW delta \in Deltas, AdvanceClock(delta)
      PROVE  Same \/ (j \in Due(clock + delta) /\ rt'[j] = Cancelled(rt[j]))
  <2> DEFINE now == clock + delta
             npt == Detections(now)
  <2>1. PICK pick \in Picks(npt) :
          rt' = [i \in RouteIds |->
                   IF i \in Winners(npt, pick)
                   THEN [rt[i] EXCEPT !.state = "LOCKED", !.timed = now > 0]
                   ELSE IF i \in Due(now) THEN Cancelled(rt[i]) ELSE rt[i]]
    BY <1>6 DEF AdvanceClock
  <2>2. CASE j \in Winners(npt, pick)
    <3>1. rt'[j] = [rt[j] EXCEPT !.state = "LOCKED", !.timed = now > 0]
      BY <2>1, <2>2
    <3>2. QED
      BY <1>0, <3>1 DEF RouteRecord, IsActive, ActiveStates
  <2>3. CASE j \notin Winners(npt, pick)
    BY <1>1, <2>1, <2>3
  <2>4. QED
    BY <2>2, <2>3
<1>7. (\/ \E g \in Signals : SetSignalRed(g)
       \/ \E p \in Points, dir \in OperatorDirs : OperatePoint(p, dir)
       \/ \E p \in Points, on \in BOOLEAN : BypassPoint(p, on)
       \/ UNCHANGED vars) => rt'[j] = rt[j]
  BY DEF SetSignalRed, OperatePoint, BypassPoint, vars
<1>8. QED
  BY <1>1, <1>2, <1>3, <1>4, <1>5, <1>6, <1>7 DEF Next

\* A granted request holds its whole path and all its points.
LEMMA GrantedHolds ==
    ASSUME TypeOK, NEW j \in RouteIds, NEW k \in Plans,
           StartMoves(j, k) \/ ClearAtOnce(j, k)
    PROVE  /\ IsActive(rt'[j])
           /\ rt'[j].plan = k
           /\ Unreleased(rt'[j]) = PathSet(k)
<1>1. PICK st \in {"POINTS_MOVING", "LOCKED"} : rt' = [rt EXCEPT ![j] = NewRoute(k, st, clock)]
  BY Granted
<1>2. rt'[j] = NewRoute(k, st, clock)
  BY <1>1 DEF TypeOK
<1>3. rt'[j].state = st /\ rt'[j].plan = k /\ rt'[j].released = 0
  BY <1>2 DEF NewRoute
<1>4. QED
  BY <1>3 DEF IsActive, ActiveStates, Unreleased, PathSet

\* What a route still holds after one release.
LEMMA AfterRelease ==
    ASSUME NEW r \in RouteRecord, RouteInBounds(r), NEW s, NEW low, Releases(r, s, low)
    PROVE  /\ ReleasesLast(r, s, low) => Unreleased(r) = {s}
           /\ \A t \in Unreleased(r) : t # s => t \in Unreleased(OnClearance(r, s, low))
           /\ ~ReleasesLast(r, s, low) => IsActive(OnClearance(r, s, low))
<1>1. /\ r.plan \in Plans /\ Len(Path(r.plan)) \in Nat /\ r.released \in Nat
      /\ r.released < Len(Path(r.plan))
      /\ s = Path(r.plan)[r.released + 1]
  BY PlanFacts DEF Releases, RouteInBounds
<1>2. /\ OnClearance(r, s, low).plan = r.plan
      /\ OnClearance(r, s, low).released = r.released + 1
      /\ ~ReleasesLast(r, s, low) => IsActive(OnClearance(r, s, low))
  BY OnClearanceType DEF IsActive, ActiveStates
<1>3. ReleasesLast(r, s, low) => Unreleased(r) = {s}
  BY <1>1 DEF ReleasesLast, Unreleased
<1>4. ASSUME NEW t \in Unreleased(r), t # s
      PROVE  t \in Unreleased(OnClearance(r, s, low))
  <2>1. PICK m \in (r.released + 1)..Len(Path(r.plan)) : t = Path(r.plan)[m]
    BY DEF Unreleased
  <2>2. m \in (r.released + 1 + 1)..Len(Path(r.plan))
    BY <1>1, <1>4, <2>1
  <2>3. QED
    BY <1>2, <2>1, <2>2 DEF Unreleased
<1>5. QED
  BY <1>2, <1>3, <1>4

LEMMA NoStaleLockStep == TypeOK /\ TypeOK' /\ NoStaleLock /\ [Next]_vars => NoStaleLock'
<1> SUFFICES ASSUME TypeOK, TypeOK', NoStaleLock, [Next]_vars PROVE NoStaleLock'
  OBVIOUS
<1>0. /\ sec \in [Sections -> SectionRecord] /\ pt \in [Points -> PointRecord]
      /\ rt \in [RouteIds -> RouteRecord]
      /\ \A i \in RouteIds : RouteInBounds(rt[i])
      /\ NoRoute \in Ids /\ NoRoute \notin RouteIds
  BY LayoutAssumption DEF TypeOK
<1>1. ASSUME NEW s \in Sections, sec'[s].lock # NoRoute
      PROVE  IsActive(rt'[sec'[s].lock]) /\ s \in Unreleased(rt'[sec'[s].lock])
  <2> DEFINE j == sec'[s].lock
  <2>1. j \in RouteIds
    BY <1>1 DEF TypeOK, SectionRecord
  <2>2. CASE \E k \in Plans : s \in PathSet(k) /\ (StartMoves(j, k) \/ ClearAtOnce(j, k))
    BY <2>1, <2>2, GrantedHolds
  <2>3. CASE sec[s].lock = j
    <3>1. IsActive(rt[j]) /\ s \in Unreleased(rt[j])
      BY <1>1, <2>3 DEF NoStaleLock
    <3>2. s \in PathSet(rt[j].plan)
      <4>1. rt[j].released \in Nat
        BY <1>0, <2>1 DEF RouteRecord
      <4>2. QED
        BY <3>1, <4>1 DEF Unreleased, PathSet
    <3>3. CASE IsActive(rt'[j]) /\ rt'[j].plan = rt[j].plan /\ rt'[j].released = rt[j].released
      BY <3>1, <3>3 DEF Unreleased
    <3>4. ASSUME NEW t \in Detectors, ReportClearance(t), Releases(rt[j], t, Lowered(t)),
                 rt'[j] = OnClearance(rt[j], t, Lowered(t))
          PROVE  IsActive(rt'[j]) /\ s \in Unreleased(rt'[j])
      <4>1. sec' = LockSections(Lowered(t), {t}, NoRoute)
        BY <2>1, <3>4 DEF ReportClearance
      <4>2. s # t
        <5>1. Lowered(t) \in [Sections -> SectionRecord]
          BY <1>0, BoundsAssumption DEF Lowered, SectionRecord
        <5>2. QED
          BY <1>0, <1>1, <4>1, <5>1, LockSectionsFields
      <4>3. QED
        BY <1>0, <2>1, <3>1, <3>4, <4>2, AfterRelease
    <3>5. CASE sec' = LockSections(sec, PathSet(rt[j].plan), NoRoute)
      BY <1>0, <1>1, <3>2, <3>5, LockSectionsFields
    <3>6. ASSUME NEW delta \in Deltas, AdvanceClock(delta), j \in Due(clock + delta)
          PROVE  FALSE
      <4> DEFINE S == UNION {PathSet(rt[i].plan) : i \in Due(clock + delta)}
      <4>1. sec' = LockSections(sec, S, NoRoute) /\ s \in S
        BY <3>2, <3>6 DEF AdvanceClock
      <4> HIDE DEF S
      <4>2. QED
        BY <1>0, <1>1, <4>1, LockSectionsFields
    <3>7. QED
      BY <2>1, <3>1, <3>3, <3>4, <3>5, <3>6, ActiveFate
  <2>4. QED
    BY <2>1, <2>2, <2>3, LocksTaken
<1>2. ASSUME NEW p \in Points, pt'[p].lock # NoRoute
      PROVE  IsActive(rt'[pt'[p].lock]) /\ p \in PlanPoints(rt'[pt'[p].lock].plan)
  <2> DEFINE j == pt'[p].lock
  <2>1. j \in RouteIds
    BY <1>2 DEF TypeOK, PointRecord
  <2>2. CASE \E k \in Plans : p \in PlanPoints(k) /\ (StartMoves(j, k) \/ ClearAtOnce(j, k))
    BY <2>1, <2>2, GrantedHolds
  <2>3. CASE pt[p].lock = j
    <3>1. IsActive(rt[j]) /\ p \in PlanPoints(rt[j].plan)
      BY <1>2, <2>3 DEF NoStaleLock
    <3>2. CASE IsActive(rt'[j]) /\ rt'[j].plan = rt[j].plan
      BY <3>1, <3>2
    <3>3. ASSUME NEW t \in Detectors, ReportClearance(t), Releases(rt[j], t, Lowered(t)),
                 rt'[j] = OnClearance(rt[j], t, Lowered(t))
          PROVE  IsActive(rt'[j]) /\ p \in PlanPoints(rt'[j].plan)
      <4> DEFINE P == UNION {PlanPoints(rt[i].plan) :
                               i \in {i \in RouteIds : ReleasesLast(rt[i], t, Lowered(t))}}
      <4>1. pt' = LockPoints(pt, P, NoRoute)
        BY <3>3 DEF ReportClearance
      <4>2. ReleasesLast(rt[j], t, Lowered(t)) => p \in P
        BY <2>1, <3>1
      <4> HIDE DEF P
      <4>3. ~ReleasesLast(rt[j], t, Lowered(t))
        BY <1>0, <1>2, <4>1, <4>2, LockPointsFields
      <4>4. QED
        BY <1>0, <2>1, <3>1, <3>3, <4>3, AfterRelease, OnClearanceType
    <3>4. CASE pt' = LockPoints(pt, PlanPoints(rt[j].plan), NoRoute)
      BY <1>0, <1>2, <3>1, <3>4, LockPointsFields
    <3>5. ASSUME NEW delta \in Deltas, AdvanceClock(delta), j \in Due(clock + delta)
          PROVE  FALSE
      <4> DEFINE P == UNION {PlanPoints(rt[i].plan) : i \in Due(clock + delta)}
      <4>1. pt' = LockPoints(Detections(clock + delta), P, NoRoute) /\ p \in P
        BY <3>1, <3>5 DEF AdvanceClock
      <4>2. Detections(clock + delta) \in [Points -> PointRecord]
        BY DetectionsFacts
      <4> HIDE DEF P
      <4>3. QED
        BY <1>0, <1>2, <4>1, <4>2, LockPointsFields
    <3>6. QED
      BY <2>1, <3>1, <3>2, <3>3, <3>4, <3>5, ActiveFate
  <2>4. QED
    BY <2>1, <2>2, <2>3, LocksTaken
<1>3. QED
  BY <1>1, <1>2 DEF NoStaleLock

\* A yard just drawn has no locks.
LEMMA LocksStartFree == Init => NoStaleLock
<1>1. Init => \A s \in Sections : sec[s].lock = NoRoute
  <2>1. SUFFICES ASSUME Init, NEW s \in Sections PROVE sec[s].lock = NoRoute
    OBVIOUS
  <2>2. sec[s] = [occ |-> 0, lock |-> NoRoute]
    BY <2>1 DEF Init
  <2>3. QED
    BY <2>2
<1>2. Init => \A p \in Points : pt[p].lock = NoRoute
  <2> DEFINE rest(d) == [dir |-> d, status |-> "IN_POSITION", target |-> "",
                         deadline |-> 0, lock |-> NoRoute, bypassed |-> FALSE]
  <2>1. Init => pt \in [Points -> {rest(d) : d \in Dirs}]
    BY DEF Init
  <2>2. \A d : rest(d).lock = NoRoute
    OBVIOUS
  <2> HIDE DEF rest
  <2>3. QED
    BY <2>1, <2>2
<1>3. QED
  BY <1>1, <1>2 DEF NoStaleLock

\* Whoever holds a lock is an active route that still needs it: a failed setup,
\* a release, a cancellation and a timed release leave none behind.
THEOREM LocksAreLive == Spec => []NoStaleLock
<1>1. Init => TypeOK /\ NoStaleLock
  BY InitType, LocksStartFree
<1>2. TypeOK /\ NoStaleLock /\ [Next]_vars => (TypeOK /\ NoStaleLock)'
  BY NextType, NoStaleLockStep
<1>3. QED
  BY <1>1, <1>2, PTL DEF Spec

-----------------------------------------------------------------------------

\* A move is only started, or turned around, on a point whose lock is free and
\* whose protect sections are.
LEMMA MovesIssued ==
    ASSUME TypeOK, NoStaleLock, [Next]_vars, NEW p \in Points
    PROVE  MoveIsFree(p)
<1> SUFFICES ASSUME pt'[p].status = "MOVING",
                    <<pt'[p].target, pt'[p].deadline>> # <<pt[p].target, pt[p].deadline>>
             PROVE  pt[p].lock = NoRoute /\ ~Squeezed(p)
  BY DEF MoveIsFree
<1>0. pt \in [Points -> PointRecord] /\ pt[p] \in PointRecord
  BY DEF TypeOK
<1>1. ASSUME NEW i \in RouteIds, NEW k \in Plans, RequestRoute(i, k)
      PROVE  pt[p].lock = NoRoute /\ ~Squeezed(p)
  <2>1. Accepted(i, k)
    BY <1>1 DEF RequestRoute, SetupFails, StartMoves, ClearAtOnce, ClearRefused, Laid
  <2>2. PICK Q \in SUBSET Reqs(k), h \in Ids : pt' = LockPoints(Issued(Q), PlanPoints(k), h)
    BY <1>1, TurnedDown, Granted DEF RequestRoute
  <2>3. /\ pt'[p].target = Issued(Q)[p].target
        /\ pt'[p].deadline = Issued(Q)[p].deadline
    <3>1. Issued(Q) \in [Points -> PointRecord]
      BY IssuedFacts
    <3>2. QED
      BY <2>2, <3>1 DEF LockPoints, PointRecord
  <2>4. Issued(Q)[p] # pt[p]
    BY <2>3
  <2>5. PICK q \in Q : q.point = p /\ CanMove(pt[p], q.dir, Squeezed(p))
    BY <2>4 DEF Issued
  <2>6. ~Squeezed(p)
    BY <2>5 DEF CanMove, MoveRefused
  <2>7. ~HeldByActive(pt[p], rt)
    BY <2>1, <2>4, AcceptedFacts, IssuedFacts
  <2>8. QED
    BY <2>6, <2>7 DEF HeldByActive, NoStaleLock
<1>2. ASSUME NEW x \in Points, NEW dir \in OperatorDirs, OperatePoint(x, dir)
      PROVE  pt[p].lock = NoRoute /\ ~Squeezed(p)
  <2>1. x = p
    BY <1>0, <1>2 DEF OperatePoint
  <2>2. QED
    BY <1>2, <2>1 DEF OperatePoint, CanMove, MoveRefused
<1>3. ASSUME NEW x \in Points, NEW on \in BOOLEAN, BypassPoint(x, on)
      PROVE  FALSE
  <2>1. ~on /\ pt[x] \in PointRecord
    BY <1>3 DEF BypassPoint, BypassRefused, Degraded, PointRecord, TypeOK
  <2>2. UNCHANGED pt
    BY <1>0, <1>3, <2>1 DEF BypassPoint, Bypass, PointRecord
  <2>3. QED
    BY <2>2
<1>4. (\E s \in Detectors : ReportClearance(s)) \/ (\E i \in RouteIds : CancelRoute(i)) => FALSE
  <2>1. (\E s \in Detectors : ReportClearance(s)) \/ (\E i \in RouteIds : CancelRoute(i))
        => \E P : pt' = LockPoints(pt, P, NoRoute) \/ pt' = pt
    BY DEF ReportClearance, CancelRoute
  <2>2. ASSUME NEW P, pt' = LockPoints(pt, P, NoRoute)
        PROVE  pt'[p].target = pt[p].target /\ pt'[p].deadline = pt[p].deadline
    BY <1>0, <2>2 DEF LockPoints, PointRecord
  <2>3. QED
    BY <2>1, <2>2
<1>5. ASSUME NEW delta \in Deltas, AdvanceClock(delta)
      PROVE  FALSE
  <2> DEFINE npt == Detections(clock + delta)
  <2>1. PICK P : pt' = LockPoints(npt, P, NoRoute)
    BY <1>5 DEF AdvanceClock
  <2>2. /\ npt[p] \in PointRecord
        /\ npt[p] = pt[p] \/ npt[p].status = "IN_POSITION"
    BY DetectionsFacts DEF AtTarget
  <2> HIDE DEF npt
  <2>3. QED
    BY <2>1, <2>2 DEF LockPoints, PointRecord
<1>6. ((\E s \in Detectors : ReportOccupancy(s)) \/ (\E g \in Signals : SetSignalRed(g)) \/ UNCHANGED vars)
         => UNCHANGED pt
  BY DEF ReportOccupancy, SetSignalRed, vars
<1>7. QED
  BY <1>1, <1>2, <1>3, <1>4, <1>5, <1>6 DEF Next

\* No point starts to move under a route or under a train, whoever asks for the
\* move and in whatever order the requests come.
THEOREM MovesAreFree == Spec => NoMoveUnderRouteOrTrain
<1>1. TypeOK /\ NoStaleLock /\ [Next]_vars => [\A p \in Points : MoveIsFree(p)]_vars
  BY MovesIssued
<1>2. QED
  BY <1>1, TypeCorrect, LocksAreLive, PTL DEF Spec, NoMoveUnderRouteOrTrain

-----------------------------------------------------------------------------
(* The engine implements the abstract allocation of points *)

\* What the mapping yields in a state of the right types.
LEMMA ViewTypes ==
    ASSUME TypeOK
    PROVE  Goals \in [Points -> OperatorDirs] /\ Moving \in SUBSET Points
<1>1. \A p \in Points : Goal(pt[p]) \in OperatorDirs
  BY DEF TypeOK, PointRecord, Goal
<1>2. QED
  BY <1>1 DEF Goals, Moving

\* A step that leaves the stage of every route and the points alone is no step
\* of the allocation.
LEMMA StutterView ==
    ASSUME \A i \in RouteIds : Stage(rt'[i]) = Stage(rt[i]), UNCHANGED pt
    PROVE  UNCHANGED Alloc!vars
BY DEF Stages, Owners, Goals, Moving, Alloc!vars

\* Nobody gains or loses a point, and only free ones move.
LEMMA DriveView ==
    ASSUME TypeOK, TypeOK', NEW P \in SUBSET Points, UNCHANGED rt,
           \A p \in Points : pt'[p].lock = pt[p].lock,
           \A p \in P : pt[p].lock = NoRoute,
           \A p \in Points \ P : pt'[p] = pt[p]
    PROVE  Alloc!Drive(P)
<1>1. Owners' = Owners /\ Stages' = Stages
  BY DEF Owners, Stages
<1>2. \A p \in P : Owners[p] = NoRoute
  BY DEF Owners
<1>3. \A p \in Points \ P : Goals'[p] = Goals[p]
  BY DEF Goals
<1>4. Moving' \ P = Moving \ P
  BY DEF Moving
<1>5. Goals' \in [Points -> OperatorDirs] /\ Moving' \in SUBSET Points
  <2>1. \A p \in Points : Goal(pt'[p]) \in OperatorDirs
    BY DEF TypeOK, PointRecord, Goal
  <2>2. QED
    BY <2>1 DEF Goals, Moving
<1>6. QED
  BY <1>1, <1>2, <1>3, <1>4, <1>5 DEF Alloc!Drive, Alloc!Driven

\* The routes of I end and exactly their points are unlocked: an active route
\* owns its points, and whoever owns a point needs it.
LEMMA SettleView ==
    ASSUME TypeOK, PointsHeld, NoStaleLock,
           NEW I \in SUBSET RouteIds,
           \A i \in I : IsActive(rt[i]) /\ rt'[i].state \in TerminalStates,
           \A i \in RouteIds \ I : Stage(rt'[i]) = Stage(rt[i]),
           NEW npt \in [Points -> PointRecord],
           \A p \in Points :
             /\ npt[p].lock = pt[p].lock
             /\ \/ npt[p] = pt[p]
                \/ pt[p].status = "MOVING" /\ AtTarget(npt[p], pt[p].target),
           pt' = LockPoints(npt, UNION {PlanPoints(rt[i].plan) : i \in I}, NoRoute)
    PROVE  Alloc!Settle(I, Moving') /\ Moving' \in SUBSET Points
<1> DEFINE freed == UNION {PlanPoints(rt[i].plan) : i \in I}
<1>1. NoRoute \in Ids /\ NoRoute \notin I
  BY LayoutAssumption
<1>2. \A p \in Points : p \in freed <=> pt[p].lock \in I
  <2>1. ASSUME NEW p \in Points, p \in freed PROVE pt[p].lock \in I
    <3>1. PICK i \in I : p \in PlanPoints(rt[i].plan)
      BY <2>1
    <3>2. QED
      BY <3>1 DEF PointsHeld
  <2>2. ASSUME NEW p \in Points, pt[p].lock \in I PROVE p \in freed
    BY <1>1, <2>2 DEF NoStaleLock
  <2>3. QED
    BY <2>1, <2>2
<1> HIDE DEF freed
<1>3. \A p \in Points :
        /\ pt'[p].dir = npt[p].dir /\ pt'[p].status = npt[p].status
        /\ pt'[p].target = npt[p].target
        /\ pt'[p].lock = IF p \in freed THEN NoRoute ELSE npt[p].lock
  <2>1. pt' = LockPoints(npt, freed, NoRoute)
    BY DEF freed
  <2>2. QED
    BY <1>1, <2>1, LockPointsFields
<1>4. \A i \in I : Stages[i] = "holding"
  BY DEF Stages, Stage, IsActive, ActiveStates
<1>5. Stages' = [i \in RouteIds |-> IF i \in I THEN "done" ELSE Stages[i]]
  <2>1. \A i \in I : Stage(rt'[i]) = "done"
    BY DEF Stage, TerminalStates, IsActive, ActiveStates
  <2>2. QED
    BY <2>1 DEF Stages
<1>6. Owners' = [p \in Points |-> IF Owners[p] \in I THEN NoRoute ELSE Owners[p]]
  BY <1>2, <1>3 DEF Owners
<1>7. Goals' = Goals /\ Moving' \subseteq Moving
  <2>1. \A p \in Points : Goal(pt'[p]) = Goal(pt[p]) /\ (pt'[p].status = "MOVING" => pt[p].status = "MOVING")
    BY <1>3 DEF Goal, AtTarget
  <2>2. QED
    BY <2>1 DEF Goals, Moving
<1>8. QED
  BY <1>4, <1>5, <1>6, <1>7 DEF Alloc!Settle, Moving

-----------------------------------------------------------------------------
(* Requests *)

\* Whatever a new request needs is free: Check finds no active route on it, and
\* a route that has ended leaves no lock behind.
LEMMA NeededIsFree ==
    ASSUME TypeOK, NoStaleLock, NEW i \in RouteIds, NEW k \in Plans, Accepted(i, k)
    PROVE  /\ PlanPoints(k) \in SUBSET Points
           /\ \A p \in PlanPoints(k) : pt[p].lock = NoRoute
<1>1. PlanPoints(k) \in SUBSET Points
  BY PlanFacts DEF PlanPoints, Requirement
<1>2. QED
  BY <1>1, AcceptedFacts DEF HeldByActive, NoStaleLock

\* A request that is turned down leaves all points free, though some may move.
LEMMA TurnedDownView ==
    ASSUME TypeOK, TypeOK', NoStaleLock, NEW i \in RouteIds, NEW k \in Plans,
           SetupFails(i, k) \/ ClearRefused(i, k)
    PROVE  \E P \in SUBSET Points : Alloc!Drive(P)
<1>1. Accepted(i, k) /\ UNCHANGED rt
  BY TurnedDown
<1>2. PICK Q \in SUBSET Reqs(k) : pt' = LockPoints(Issued(Q), PlanPoints(k), NoRoute)
  BY TurnedDown
<1>3. /\ PlanPoints(k) \in SUBSET Points
      /\ \A p \in PlanPoints(k) : pt[p].lock = NoRoute
  BY <1>1, NeededIsFree
<1>4. /\ Issued(Q) \in [Points -> PointRecord]
      /\ \A p \in Points : /\ Issued(Q)[p].lock = pt[p].lock
                           /\ p \notin PlanPoints(k) => Issued(Q)[p] = pt[p]
  BY IssuedFacts
<1>5. \A p \in Points : pt'[p].lock = pt[p].lock
  BY <1>2, <1>3, <1>4, LockPointsFields
<1>6. \A p \in Points \ PlanPoints(k) : pt'[p] = pt[p]
  BY <1>2, <1>4, LockPointsSpares
<1>7. Alloc!Drive(PlanPoints(k))
  BY <1>1, <1>3, <1>5, <1>6, DriveView
<1>8. QED
  BY <1>3, <1>7

\* A request that is granted takes all its points in this step.
LEMMA GrantedView ==
    ASSUME TypeOK, TypeOK', NoStaleLock, NEW i \in RouteIds, NEW k \in Plans,
           StartMoves(i, k) \/ ClearAtOnce(i, k)
    PROVE  \E P \in SUBSET Points : Alloc!Take(i, P)
<1> DEFINE P == PlanPoints(k)
<1>1. Accepted(i, k) /\ pt' = LockPoints(Issued(Reqs(k)), P, i)
  BY Granted
<1>2. rt[i].state = "NONE" /\ P \in SUBSET Points /\ \A p \in P : pt[p].lock = NoRoute
  BY <1>1, NeededIsFree DEF Accepted
<1>3. PICK st \in {"POINTS_MOVING", "LOCKED"} : rt' = [rt EXCEPT ![i] = NewRoute(k, st, clock)]
  BY Granted
<1>4. /\ Issued(Reqs(k)) \in [Points -> PointRecord]
      /\ \A p \in Points : /\ Issued(Reqs(k))[p].lock = pt[p].lock
                           /\ p \notin P => Issued(Reqs(k))[p] = pt[p]
  BY IssuedFacts
<1>5. Stages[i] = "new" /\ Stages' = [Stages EXCEPT ![i] = "holding"]
  <2>1. rt'[i] = NewRoute(k, st, clock) /\ \A j \in RouteIds : j # i => rt'[j] = rt[j]
    BY <1>3 DEF TypeOK
  <2>2. Stage(rt'[i]) = "holding"
    BY <2>1 DEF NewRoute, Stage, IsActive, ActiveStates
  <2>3. QED
    BY <1>2, <2>1, <2>2 DEF Stages, Stage
<1> HIDE DEF P
<1>6. Owners' = [p \in Points |-> IF p \in P THEN i ELSE Owners[p]]
      /\ \A p \in P : Owners[p] = NoRoute
  <2>1. \A p \in Points : pt'[p].lock = IF p \in P THEN i ELSE pt[p].lock
    BY <1>1, <1>4, LockPointsFields
  <2>2. QED
    BY <1>2, <2>1 DEF Owners
<1>7. \A p \in Points \ P : pt'[p] = pt[p]
  BY <1>1, <1>4, LockPointsSpares
<1>8. Alloc!Driven(P)
  <2>1. \A p \in Points : Goal(pt'[p]) \in OperatorDirs
    BY DEF TypeOK, PointRecord, Goal
  <2>2. Goals' \in [Points -> OperatorDirs] /\ Moving' \in SUBSET Points
    BY <2>1 DEF Goals, Moving
  <2>3. (\A p \in Points \ P : Goals'[p] = Goals[p]) /\ Moving' \ P = Moving \ P
    BY <1>7 DEF Goals, Moving
  <2>4. QED
    BY <2>2, <2>3 DEF Alloc!Driven
<1>9. QED
  BY <1>2, <1>5, <1>6, <1>8 DEF Alloc!Take

-----------------------------------------------------------------------------
(* The other operations *)

LEMMA OccupancyView ==
    ASSUME TypeOK, NEW s \in Detectors, ReportOccupancy(s)
    PROVE  UNCHANGED Alloc!vars
<1>1. ASSUME NEW i \in RouteIds PROVE Stage(rt'[i]) = Stage(rt[i])
  <2>1. rt'[i] = rt[i] \/ (IsActive(rt[i]) /\ rt'[i] = OnOccupancy(rt[i], s))
    BY DEF ReportOccupancy
  <2>2. rt[i] \in RouteRecord /\ RouteInBounds(rt[i])
    BY DEF TypeOK
  <2>3. QED
    BY <2>1, <2>2, OnOccupancyType DEF Stage, IsActive, ActiveStates
<1>2. UNCHANGED pt
  BY DEF ReportOccupancy
<1>3. QED
  BY <1>1, <1>2, StutterView

LEMMA ClearanceView ==
    ASSUME TypeOK, PointsHeld, NoStaleLock, NEW s \in Detectors, ReportClearance(s)
    PROVE  \E I \in SUBSET RouteIds, M \in SUBSET Points : Alloc!Settle(I, M)
<1> DEFINE low == Lowered(s)
           done == {i \in RouteIds : ReleasesLast(rt[i], s, low)}
<1>1. /\ pt' = LockPoints(pt, UNION {PlanPoints(rt[i].plan) : i \in done}, NoRoute)
      /\ rt' = [i \in RouteIds |-> OnClearance(rt[i], s, low)]
  BY DEF ReportClearance
<1>2. ASSUME NEW i \in RouteIds
      PROVE  /\ i \in done => IsActive(rt[i]) /\ rt'[i].state \in TerminalStates
             /\ i \notin done => Stage(rt'[i]) = Stage(rt[i])
  <2>1. rt'[i] = OnClearance(rt[i], s, low) /\ rt[i] \in RouteRecord /\ RouteInBounds(rt[i])
    BY <1>1 DEF TypeOK
  <2>2. ReleasesLast(rt[i], s, low) => Releases(rt[i], s, low)
    BY DEF ReleasesLast
  <2> HIDE DEF low
  <2>3. QED
    BY <2>1, <2>2, OnClearanceType DEF Stage, IsActive, ActiveStates
<1>3. pt \in [Points -> PointRecord]
  BY DEF TypeOK
<1>4. Alloc!Settle(done, Moving') /\ Moving' \in SUBSET Points
  <2> HIDE DEF low
  <2>1. /\ done \in SUBSET RouteIds
        /\ \A i \in done : IsActive(rt[i]) /\ rt'[i].state \in TerminalStates
        /\ \A i \in RouteIds \ done : Stage(rt'[i]) = Stage(rt[i])
    BY <1>2
  <2> HIDE DEF done
  <2>2. QED
    BY <1>1, <1>3, <2>1, SettleView
<1>5. QED
  BY <1>4

LEMMA CancelView ==
    ASSUME TypeOK, PointsHeld, NoStaleLock, NEW i \in RouteIds, CancelRoute(i)
    PROVE  \/ UNCHANGED Alloc!vars
           \/ \E I \in SUBSET RouteIds, M \in SUBSET Points : Alloc!Settle(I, M)
<1>0. /\ IsActive(rt[i]) /\ rt[i] \in RouteRecord /\ RouteInBounds(rt[i]) /\ rt[i].state # "NONE"
      /\ rt \in [RouteIds -> RouteRecord] /\ pt \in [Points -> PointRecord]
  BY DEF CancelRoute, TypeOK, IsActive, ActiveStates
<1>1. CASE CancelsAtOnce(rt[i], sec)
  <2>1. /\ rt' = [rt EXCEPT ![i] = Cancelled(rt[i])]
        /\ pt' = LockPoints(pt, PlanPoints(rt[i].plan), NoRoute)
    BY <1>1 DEF CancelRoute
  <2>2. rt'[i].state \in TerminalStates /\ \A j \in RouteIds \ {i} : rt'[j] = rt[j]
    BY <1>0, <2>1, CancelledType DEF TerminalStates
  <2>3. UNION {PlanPoints(rt[j].plan) : j \in {i}} = PlanPoints(rt[i].plan)
    OBVIOUS
  <2>4. \A j \in RouteIds \ {i} : Stage(rt'[j]) = Stage(rt[j])
    BY <2>2
  <2>5. pt' = LockPoints(pt, UNION {PlanPoints(rt[j].plan) : j \in {i}}, NoRoute)
    BY <2>1, <2>3
  <2>6. {i} \in SUBSET RouteIds /\ \A j \in {i} : IsActive(rt[j]) /\ rt'[j].state \in TerminalStates
    BY <1>0, <2>2
  <2>7. Alloc!Settle({i}, Moving') /\ Moving' \in SUBSET Points
    BY <1>0, <2>4, <2>5, <2>6, SettleView
  <2>8. QED
    BY <2>7
<1>2. CASE ~CancelsAtOnce(rt[i], sec)
  <2>1. /\ rt' = [rt EXCEPT ![i].state = "CANCEL_PENDING", ![i].deadline = CancelDeadline(rt[i])]
        /\ UNCHANGED pt
    BY <1>2 DEF CancelRoute
  <2>2. ASSUME NEW j \in RouteIds PROVE Stage(rt'[j]) = Stage(rt[j])
    <3>1. rt'[j] = rt[j] \/ (j = i /\ rt'[j].state = "CANCEL_PENDING")
      BY <1>0, <2>1 DEF RouteRecord
    <3>2. QED
      BY <1>0, <3>1 DEF Stage, IsActive, ActiveStates
  <2>3. QED
    BY <2>1, <2>2, StutterView
<1>3. QED
  BY <1>1, <1>2

LEMMA OperateView ==
    ASSUME TypeOK, TypeOK', NEW x \in Points, NEW dir \in OperatorDirs, OperatePoint(x, dir)
    PROVE  \E P \in SUBSET Points : Alloc!Drive(P)
<1>1. /\ pt' = [pt EXCEPT ![x] = IssueMove(pt[x], dir, clock, MoveTime[x])]
      /\ pt[x].lock = NoRoute
      /\ UNCHANGED rt
  BY DEF OperatePoint
<1>2. IssueMove(pt[x], dir, clock, MoveTime[x]).lock = pt[x].lock /\ pt \in [Points -> PointRecord]
  BY DEF IssueMove, PointRecord, TypeOK
<1>3. Alloc!Drive({x})
  BY <1>1, <1>2, DriveView
<1>4. QED
  BY <1>3

LEMMA BypassView ==
    ASSUME TypeOK, NEW x \in Points, NEW on \in BOOLEAN, BypassPoint(x, on)
    PROVE  UNCHANGED Alloc!vars
<1>1. ~on /\ pt[x] \in PointRecord /\ pt \in [Points -> PointRecord]
  BY DEF BypassPoint, BypassRefused, Degraded, PointRecord, TypeOK
<1>2. UNCHANGED <<pt, rt>>
  <2>1. Bypass(pt[x], on) = pt[x]
    BY <1>1 DEF Bypass, PointRecord
  <2>2. pt' = [pt EXCEPT ![x] = pt[x]] /\ rt' = rt
    BY <2>1 DEF BypassPoint
  <2>3. QED
    BY <1>1, <2>2
<1>3. QED
  BY <1>2, StutterView

\* Detections and timed releases of one clock step settle together.
LEMMA ClockView ==
    ASSUME TypeOK, PointsHeld, NoStaleLock, NEW delta \in Deltas, AdvanceClock(delta)
    PROVE  \E I \in SUBSET RouteIds, M \in SUBSET Points : Alloc!Settle(I, M)
<1> DEFINE now == clock + delta
           npt == Detections(now)
<1>1. PICK pick \in Picks(npt) :
        rt' = [i \in RouteIds |->
                 IF i \in Winners(npt, pick)
                 THEN [rt[i] EXCEPT !.state = "LOCKED", !.timed = now > 0]
                 ELSE IF i \in Due(now) THEN Cancelled(rt[i]) ELSE rt[i]]
  BY DEF AdvanceClock
<1>2. pt' = LockPoints(npt, UNION {PlanPoints(rt[i].plan) : i \in Due(now)}, NoRoute)
  BY DEF AdvanceClock
<1>3. /\ npt \in [Points -> PointRecord]
      /\ \A p \in Points :
           /\ npt[p].lock = pt[p].lock
           /\ \/ npt[p] = pt[p]
              \/ pt[p].status = "MOVING" /\ AtTarget(npt[p], pt[p].target)
  BY DetectionsFacts
<1>4. ASSUME NEW i \in RouteIds
      PROVE  /\ i \in Due(now) => IsActive(rt[i]) /\ rt'[i].state \in TerminalStates
             /\ i \notin Due(now) => Stage(rt'[i]) = Stage(rt[i])
  <2>0. rt[i] \in RouteRecord /\ RouteInBounds(rt[i])
    BY DEF TypeOK
  <2>1. i \in Winners(npt, pick) => rt[i].state = "POINTS_MOVING"
    BY DEF Winners, Openable
  <2>2. i \in Due(now) => rt[i].state = "CANCEL_PENDING"
    BY DEF Due, BackstopDue
  <2>3. CASE i \in Winners(npt, pick)
    <3>1. rt'[i] = [rt[i] EXCEPT !.state = "LOCKED", !.timed = now > 0]
      BY <1>1, <2>3
    <3>2. rt'[i].state = "LOCKED"
      BY <2>0, <3>1 DEF RouteRecord
    <3>3. QED
      BY <2>1, <2>2, <2>3, <3>2 DEF Stage, IsActive, ActiveStates
  <2>4. CASE i \notin Winners(npt, pick) /\ i \in Due(now)
    <3>1. rt'[i] = Cancelled(rt[i])
      BY <1>1, <2>4
    <3>2. QED
      BY <2>0, <2>2, <2>4, <3>1, CancelledType DEF IsActive, ActiveStates, TerminalStates
  <2>5. CASE i \notin Winners(npt, pick) /\ i \notin Due(now)
    BY <1>1, <2>5
  <2>6. QED
    BY <2>3, <2>4, <2>5
<1>5. Due(now) \in SUBSET RouteIds
  BY DEF Due
<1> HIDE DEF now, npt
<1>6. Alloc!Settle(Due(now), Moving') /\ Moving' \in SUBSET Points
  BY <1>2, <1>3, <1>4, <1>5, SettleView
<1>7. QED
  BY <1>5, <1>6

-----------------------------------------------------------------------------

LEMMA AllocInit == Init => Alloc!Init
<1> SUFFICES ASSUME Init PROVE Alloc!Init
  OBVIOUS
<1>1. Stages = [i \in RouteIds |-> "new"]
  BY DEF Init, NoneRoute, Stages, Stage
<1>2. /\ Owners = [p \in Points |-> NoRoute] /\ Moving = {}
  <2> DEFINE rest(d) == [dir |-> d, status |-> "IN_POSITION", target |-> "",
                         deadline |-> 0, lock |-> NoRoute, bypassed |-> FALSE]
  <2>1. pt \in [Points -> {rest(d) : d \in Dirs}]
    BY DEF Init
  <2>2. \A d \in Dirs : rest(d).lock = NoRoute /\ rest(d).status = "IN_POSITION"
    OBVIOUS
  <2> HIDE DEF rest
  <2>3. \A p \in Points : pt[p].lock = NoRoute /\ pt[p].status = "IN_POSITION"
    BY <2>1, <2>2
  <2>4. QED
    BY <2>3 DEF Owners, Moving
<1>3. Goals \in [Points -> OperatorDirs]
  BY InitType, ViewTypes
<1>4. QED
  BY <1>1, <1>2, <1>3 DEF Alloc!Init

LEMMA AllocStep ==
    ASSUME TypeOK, TypeOK', PointsHeld, NoStaleLock, [Next]_vars
    PROVE  [Alloc!Next]_Alloc!vars
<1>1. ASSUME NEW i \in RouteIds, NEW k \in Plans, RequestRoute(i, k)
      PROVE  Alloc!Next
  BY <1>1, TurnedDownView, GrantedView DEF RequestRoute, Alloc!Next
<1>2. ASSUME NEW s \in Detectors, ReportOccupancy(s) \/ ReportClearance(s)
      PROVE  [Alloc!Next]_Alloc!vars
  BY <1>2, OccupancyView, ClearanceView DEF Alloc!Next
<1>3. ASSUME NEW i \in RouteIds, CancelRoute(i)
      PROVE  [Alloc!Next]_Alloc!vars
  BY <1>3, CancelView DEF Alloc!Next
<1>4. ASSUME NEW p \in Points, NEW dir \in OperatorDirs, OperatePoint(p, dir)
      PROVE  Alloc!Next
  BY <1>4, OperateView DEF Alloc!Next
<1>5. ASSUME NEW p \in Points, NEW on \in BOOLEAN, BypassPoint(p, on)
      PROVE  UNCHANGED Alloc!vars
  BY <1>5, BypassView
<1>6. ASSUME NEW delta \in Deltas, AdvanceClock(delta)
      PROVE  Alloc!Next
  BY <1>6, ClockView DEF Alloc!Next
<1>7. CASE (\E g \in Signals : SetSignalRed(g)) \/ UNCHANGED vars
  <2>1. UNCHANGED <<pt, rt>>
    BY <1>7 DEF SetSignalRed, vars
  <2>2. QED
    BY <2>1, StutterView
<1>8. QED
  BY <1>1, <1>2, <1>3, <1>4, <1>5, <1>6, <1>7 DEF Next

\* The engine implements the abstract allocation of its points: every operation
\* takes, drives or settles points, or does not concern them.
THEOREM EngineAllocatesPoints == Spec => AllocatesPoints
<1>1. Init => Alloc!Init
  BY AllocInit
<1>2. TypeOK /\ TypeOK' /\ PointsHeld /\ NoStaleLock /\ [Next]_vars => [Alloc!Next]_Alloc!vars
  BY AllocStep
<1>3. QED
  BY <1>1, <1>2, TypeCorrect, PointsAreHeld, LocksAreLive, PTL DEF Spec, AllocatesPoints, Alloc!Spec
=============================================================================
