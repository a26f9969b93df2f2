----------------------------- MODULE Interlock ------------------------------
(***************************************************************************)
(* The engine in memory: service.Service between two restarts, every store *)
(* write succeeding.  Each public operation holds the service mutex from   *)
(* its first read to its last write, so each is one action.                *)
(***************************************************************************)
EXTENDS InterlockingOps

CONSTANTS
    TransitMargin,   \* seconds CancelRoute adds to the transit time (30)
    FallbackDelay,   \* its delay for a route without an opening time (120)
    Deltas,          \* the clock advances a client asks for
    MaxClock,        \* bound: no advance beyond this simulated time
    MaxOcc,          \* bound: no occupancy event at this count
    Detectors        \* bound: the sections train events are reported for

ASSUME BoundsAssumption ==
    /\ TransitMargin \in Nat
    /\ FallbackDelay \in Nat
    /\ Deltas \subseteq Nat
    /\ MaxClock \in Nat
    /\ MaxOcc \in Nat
    /\ Detectors \subseteq Sections

VARIABLES
    sec,     \* [Sections -> [occ, lock]]: graph.sections
    pt,      \* [Points -> point record]: graph.points
    sig,     \* [Signals -> [aspect, route]]: graph.signals
    rt,      \* [RouteIds -> route record]: Service.routes
    clock    \* the simulated clock

vars == <<sec, pt, sig, rt, clock>>

-----------------------------------------------------------------------------

Squeezed(p) == Occupied(sec, Protect[p])

\* A yard just drawn: every point detected, normal or reverse; signals red.
Init ==
    /\ sec = [s \in Sections |-> [occ |-> 0, lock |-> NoRoute]]
    /\ pt \in [Points -> {[dir |-> d, status |-> "IN_POSITION", target |-> "",
                           deadline |-> 0, lock |-> NoRoute, bypassed |-> FALSE] :
                          d \in Dirs}]
    /\ sig = [g \in Signals |-> [aspect |-> "RED", route |-> NoRoute]]
    /\ rt = [i \in RouteIds |-> NoneRoute]
    /\ clock = 0

-----------------------------------------------------------------------------
(* RequestRoute *)

\* The request passes the early returns and the interlocking check.
Accepted(i, k) ==
    /\ rt[i].state = "NONE"
    /\ sig[Origin(k)].route = NoRoute
    /\ Check(k, sec, pt, sig, rt) = {}

Refused(q) == MoveRefused(pt[q.point], q.dir, Squeezed(q.point))

\* The points after the moves of the requirements Q were issued.
Issued(Q) ==
    [p \in Points |->
        IF \E q \in Q : q.point = p /\ CanMove(pt[p], q.dir, Squeezed(p))
        THEN IssueMove(pt[p], (CHOOSE q \in Q : q.point = p).dir, clock, MoveTime[p])
        ELSE pt[p]]

SomeMove(k) == \E q \in Reqs(k) : CanMove(pt[q.point], q.dir, Squeezed(q.point))

\* The requirements dealt with before the first refusal: those before it in
\* path order; or all of the path and any of the flank, which Expand collects
\* in map order.
BeforeRefusal(k) ==
    LET ps == Expanded[k].points
        Early(j) == {ps[m] : m \in 1..(j - 1)}
    IN  {Early(j) : j \in {j \in 1..Len(ps) :
                            Refused(ps[j]) /\ \A q \in Early(j) : ~Refused(q)}}
        \cup {Required(k) \cup F :
                F \in {F \in SUBSET {q \in Flank(k) : ~Refused(q)} :
                        /\ \A q \in Required(k) : ~Refused(q)
                        /\ \E q \in Flank(k) : Refused(q)}}

\* The route fails and releases what it locked, but the moves already issued
\* go on.  The FAILED route is not kept in memory.
SetupFails(i, k) ==
    /\ Accepted(i, k)
    /\ \E Q \in BeforeRefusal(k) : pt' = LockPoints(Issued(Q), PlanPoints(k), NoRoute)
    /\ sec' = LockSections(sec, PathSet(k), NoRoute)
    /\ UNCHANGED <<sig, rt, clock>>

StartMoves(i, k) ==
    /\ Accepted(i, k)
    /\ \A q \in Reqs(k) : ~Refused(q)
    /\ SomeMove(k)
    /\ sec' = LockSections(sec, PathSet(k), i)
    /\ pt' = LockPoints(Issued(Reqs(k)), PlanPoints(k), i)
    /\ rt' = [rt EXCEPT ![i] = NewRoute(k, "POINTS_MOVING", clock)]
    /\ UNCHANGED <<sig, clock>>

\* No point has to move, so the signal is decided at once.
Laid(i, k) ==
    /\ Accepted(i, k)
    /\ \A q \in Reqs(k) : ~Refused(q)
    /\ ~SomeMove(k)

ClearAtOnce(i, k) ==
    /\ Laid(i, k)
    /\ sec' = LockSections(sec, PathSet(k), i)
    /\ pt' = LockPoints(pt, PlanPoints(k), i)
    /\ CanClear(k, i, sec', pt', sig)
    /\ rt' = [rt EXCEPT ![i] = NewRoute(k, "LOCKED", clock)]
    /\ sig' = [sig EXCEPT ![Origin(k)] = [aspect |-> ClearAspect(k), route |-> i]]
    /\ UNCHANGED clock

\* CanClear refuses after a clean check: FAILED, everything unlocked again.
ClearRefused(i, k) ==
    /\ Laid(i, k)
    /\ ~CanClear(k, i, LockSections(sec, PathSet(k), i), LockPoints(pt, PlanPoints(k), i), sig)
    /\ sec' = LockSections(sec, PathSet(k), NoRoute)
    /\ pt' = LockPoints(pt, PlanPoints(k), NoRoute)
    /\ UNCHANGED <<sig, rt, clock>>

RequestRoute(i, k) ==
    \/ SetupFails(i, k)
    \/ StartMoves(i, k)
    \/ ClearAtOnce(i, k)
    \/ ClearRefused(i, k)

-----------------------------------------------------------------------------
(* Train detection *)

\* Faulty variant: the signals drop at the far end of the route.
DroppedAtTerminal(s) ==
    {Origin(rt[i].plan) : i \in {j \in RouteIds : IsActive(rt[j]) /\ Terminal(rt[j].plan) = s}}

\* The signals that drop to red, those of the active routes that start with the
\* section; they stay bound to their route.
Dropped(s) == {Origin(rt[i].plan) : i \in {j \in RouteIds : IsActive(rt[j]) /\ First(rt[j].plan) = s}}

\* Every active route sees the event, then the signals drop.
ReportOccupancy(s) ==
    /\ sec[s].occ < MaxOcc
    /\ sec' = [sec EXCEPT ![s].occ = @ + 1]
    /\ rt' = [i \in RouteIds |-> IF IsActive(rt[i]) THEN OnOccupancy(rt[i], s) ELSE rt[i]]
    /\ sig' = [g \in Signals |-> IF g \in Dropped(s) THEN RedSignal(sig[g]) ELSE sig[g]]
    /\ UNCHANGED <<pt, clock>>

\* A clearance lowers the count, not below zero, ...
Lowered(s) == [sec EXCEPT ![s].occ = IF @ > 0 THEN @ - 1 ELSE 0]

\* ... and is shown to the routes even when the section was free already or
\* another train is still on it.
ReportClearance(s) ==
    LET low == Lowered(s)
        freed == {i \in RouteIds : Releases(rt[i], s, low)}
        done == {i \in RouteIds : ReleasesLast(rt[i], s, low)}
    IN  /\ sec' = LockSections(low, IF freed = {} THEN {} ELSE {s}, NoRoute)
        /\ pt' = LockPoints(pt, UNION {PlanPoints(rt[i].plan) : i \in done}, NoRoute)
        /\ rt' = [i \in RouteIds |-> OnClearance(rt[i], s, low)]
        /\ UNCHANGED <<sig, clock>>

-----------------------------------------------------------------------------
(* Operator actions *)

CancelDeadline(r) ==
    IF r.timed /\ Expanded[r.plan].transit > 0
    THEN clock + Expanded[r.plan].transit + TransitMargin
    ELSE clock + FallbackDelay

\* The origin signal drops to red and is unbound, whoever it is bound to.
CancelRoute(i) ==
    LET k == rt[i].plan IN
    /\ IsActive(rt[i])
    /\ IF CancelsAtOnce(rt[i], sec)
       THEN /\ rt' = [rt EXCEPT ![i] = Cancelled(@)]
            /\ sec' = LockSections(sec, PathSet(k), NoRoute)
            /\ pt' = LockPoints(pt, PlanPoints(k), NoRoute)
       ELSE /\ rt' = [rt EXCEPT ![i].state = "CANCEL_PENDING",
                                ![i].deadline = CancelDeadline(rt[i])]
            /\ UNCHANGED <<sec, pt>>
    /\ sig' = [sig EXCEPT ![Origin(k)] = [aspect |-> "RED", route |-> NoRoute]]
    /\ UNCHANGED clock

SetSignalRed(g) ==
    /\ sig' = [sig EXCEPT ![g] = RedSignal(@)]
    /\ UNCHANGED <<sec, pt, rt, clock>>

\* Faulty variant: the operator may drive a point that is locked.
OperatePointLocked(p, dir) ==
    /\ CanMove(pt[p], dir, Squeezed(p))
    /\ pt' = [pt EXCEPT ![p] = IssueMove(@, dir, clock, MoveTime[p])]
    /\ UNCHANGED <<sec, sig, rt, clock>>

OperatePoint(p, dir) ==
    /\ pt[p].lock = NoRoute
    /\ CanMove(pt[p], dir, Squeezed(p))
    /\ pt' = [pt EXCEPT ![p] = IssueMove(@, dir, clock, MoveTime[p])]
    /\ UNCHANGED <<sec, sig, rt, clock>>

BypassPoint(p, on) ==
    /\ ~BypassRefused(pt[p], on, Squeezed(p))
    /\ pt' = [pt EXCEPT ![p] = Bypass(@, on)]
    /\ UNCHANGED <<sec, sig, rt, clock>>

-----------------------------------------------------------------------------
(* AdvanceClock *)

\* A move that has reached its deadline counts as detected at its target.
Detections(now) ==
    [p \in Points |-> IF pt[p].status = "MOVING" /\ now >= pt[p].deadline
                      THEN Detect(pt[p], pt[p].target) ELSE pt[p]]

\* The cancelled routes whose delay is over and whose path is free.
Due(now) == {i \in RouteIds : BackstopDue(rt[i], now, sec)}

\* Faulty variant: the route's own locks count against it.
OpenableAsStranger(npt) ==
    {i \in RouteIds : /\ rt[i].state = "POINTS_MOVING"
                      /\ \A q \in Reqs(rt[i].plan) : AtTarget(npt[q.point], q.dir)
                      /\ CanClear(rt[i].plan, NoRoute, sec, npt, sig)}

\* The POINTS_MOVING routes whose points are all detected and whose signal may
\* be cleared, judged before any signal is.
Openable(npt) ==
    {i \in RouteIds : /\ rt[i].state = "POINTS_MOVING"
                      /\ \A q \in Reqs(rt[i].plan) : AtTarget(npt[q.point], q.dir)
                      /\ CanClear(rt[i].plan, i, sec, npt, sig)}

\* The routes are visited in map order, and a clearance shuts out the openable
\* routes that enter the same section past another signal.  So among the
\* signals of one guarded section the first one visited wins, with all its
\* openable routes, and it stays bound to the last of them.
Winners(npt, pick) ==
    {i \in Openable(npt) : pick[Origin(rt[i].plan)] # NoRoute}

Picks(npt) ==
    {pick \in [Signals -> Openable(npt) \cup {NoRoute}] :
        /\ \A g \in Signals : pick[g] # NoRoute => Origin(rt[pick[g]].plan) = g
        /\ \A g, h \in Signals :
             pick[g] # NoRoute /\ pick[h] # NoRoute /\ Guard[g] = Guard[h] => g = h
        /\ \A i \in Openable(npt) : \E g \in Signals :
             pick[g] # NoRoute /\ Guard[g] = First(rt[i].plan)}

AdvanceClock(delta) ==
    LET now == clock + delta
        npt == Detections(now)
    IN  /\ now <= MaxClock
        /\ clock' = now
        /\ \E pick \in Picks(npt) :
             /\ sig' = [g \in Signals |->
                          IF pick[g] = NoRoute THEN sig[g]
                          ELSE [aspect |-> ClearAspect(rt[pick[g]].plan), route |-> pick[g]]]
             /\ rt' = [i \in RouteIds |->
                         IF i \in Winners(npt, pick)
                         THEN [rt[i] EXCEPT !.state = "LOCKED", !.timed = now > 0]
                         ELSE IF i \in Due(now) THEN Cancelled(rt[i]) ELSE rt[i]]
        /\ sec' = LockSections(sec, UNION {PathSet(rt[i].plan) : i \in Due(now)}, NoRoute)
        /\ pt' = LockPoints(npt, UNION {PlanPoints(rt[i].plan) : i \in Due(now)}, NoRoute)

-----------------------------------------------------------------------------

Next ==
    \/ \E i \in RouteIds, k \in Plans : RequestRoute(i, k)
    \/ \E s \in Detectors : ReportOccupancy(s) \/ ReportClearance(s)
    \/ \E i \in RouteIds : CancelRoute(i)
    \/ \E g \in Signals : SetSignalRed(g)
    \/ \E p \in Points, dir \in OperatorDirs : OperatePoint(p, dir)
    \/ \E p \in Points, on \in BOOLEAN : BypassPoint(p, on)
    \/ \E delta \in Deltas : AdvanceClock(delta)

Spec == Init /\ [][Next]_vars
=============================================================================
