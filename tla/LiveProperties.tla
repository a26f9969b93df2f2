--------------------------- MODULE LiveProperties ---------------------------
(***************************************************************************)
(* What the engine promises between two restarts.                          *)
(***************************************************************************)
EXTENDS Interlock

SectionRecord == [occ : Nat, lock : Ids]

PointRecord == [dir : OperatorDirs, status : {"IN_POSITION", "MOVING"},
                target : OperatorDirs \cup {""}, deadline : Nat,
                lock : Ids, bypassed : {FALSE}]

SignalRecord == [aspect : Aspects, route : Ids]

RouteRecord == [state : States, plan : Plans \cup {NoPlan}, timed : BOOLEAN,
                deadline : Nat, released : Nat]

\* A used id has a plan, and its released count stays within the path.
RouteInBounds(r) ==
    r.state # "NONE" => r.plan \in Plans /\ r.released \in 0..Len(Path(r.plan))

\* Types, with the bounds the code keeps: a point never leaves the two healthy
\* states and is never bypassed, since no operation of the service calls
\* TickTimeout or ForceFault and Bypass refuses a healthy point.
TypeOK ==
    /\ sec \in [Sections -> SectionRecord]
    /\ pt \in [Points -> PointRecord]
    /\ \A p \in Points : pt[p].status = "MOVING" => pt[p].target \in OperatorDirs
    /\ sig \in [Signals -> SignalRecord]
    /\ rt \in [RouteIds -> RouteRecord]
    /\ \A i \in RouteIds : RouteInBounds(rt[i])
    /\ clock \in Nat

-----------------------------------------------------------------------------

\* Point allocation is exclusive and lasts: an active route owns the lock of
\* every facing and flank point of its plan, from setup until it ends.  No
\* cancellation, failure or release of another route may take one away, so two
\* active routes never share a point (interlocking.go 103-151).
PointsHeld ==
    \A i \in RouteIds : IsActive(rt[i]) =>
        \A p \in PlanPoints(rt[i].plan) : pt[p].lock = i

\* A point of an active route lies, or is on its way, where that route wants
\* it; nobody may redirect it (cancel_ops.go 138, interlocking.go 119-126).
PointsCommitted ==
    \A i \in RouteIds : IsActive(rt[i]) =>
        \A q \in Reqs(rt[i].plan) :
            \/ AtTarget(pt[q.point], q.dir)
            \/ pt[q.point].status = "MOVING" /\ pt[q.point].target = q.dir

LaidStates == {"LOCKED", "TRAIN_COMING", "TRAIN_IN_ROUTE", "RELEASING"}

\* Every switch of a route is detected where the route wants it from the
\* clearing of its signal until the last section is released, the whole time a
\* train may be running over it (types.go 136, signal.go 5-6).
RouteLaid ==
    \A i \in RouteIds : rt[i].state \in LaidStates =>
        \A q \in Reqs(rt[i].plan) : AtTarget(pt[q.point], q.dir)

\* A proceed aspect is backed by a route of that signal no train has entered,
\* with its switches and flank detected and its first section free, and tells
\* straight from diverging (signal.go 4-6, 9; train_ops.go 65-77).  The other
\* sections of the path are not watched, whatever signal.go 7 says.
SignalBacked ==
    \A g \in Signals : sig[g].aspect # "RED" =>
        LET r == rt[sig[g].route] IN
        /\ sig[g].route # NoRoute
        /\ r.state \in {"LOCKED", "TRAIN_COMING"}
        /\ Origin(r.plan) = g
        /\ \A q \in Reqs(r.plan) : AtTarget(pt[q.point], q.dir)
        /\ sec[Guard[g]].occ = 0
        /\ sig[g].aspect = ClearAspect(r.plan)

\* Two signals that lead into the same section from either side never both
\* show a proceed aspect, even after a cancellation took the section's lock
\* away (signal.go 76-89).
OpposingSignalsExclude ==
    \A g, h \in Signals :
        Guard[g] = Guard[h] /\ sig[g].aspect # "RED" /\ sig[h].aspect # "RED" => g = h

\* A lock is never left behind: whoever locks a section is an active route
\* that has not released it yet, and whoever locks a point is an active route
\* that needs it (route.go 21-49, 122-134).
NoStaleLock ==
    /\ \A s \in Sections : sec[s].lock # NoRoute =>
         IsActive(rt[sec[s].lock]) /\ s \in Unreleased(rt[sec[s].lock])
    /\ \A p \in Points : pt[p].lock # NoRoute =>
         IsActive(rt[pt[p].lock]) /\ p \in PlanPoints(rt[pt[p].lock].plan)

-----------------------------------------------------------------------------

\* A move starts, or changes its mind, only on a point no route holds and with
\* no train over its protect sections (point.go 41-46, cancel_ops.go 129-146).
MoveIsFree(p) ==
    pt'[p].status = "MOVING" /\ <<pt'[p].target, pt'[p].deadline>> # <<pt[p].target, pt[p].deadline>>
      => pt[p].lock = NoRoute /\ ~Squeezed(p)

NoMoveUnderRouteOrTrain == [][\A p \in Points : MoveIsFree(p)]_vars

\* Every active route owns the sections it has not released, so no two active
\* routes share one.
SectionsHeld ==
    \A i \in RouteIds : IsActive(rt[i]) =>
        \A s \in Unreleased(rt[i]) : sec[s].lock = i

\* A cancelled route unlocks a section it had already released, under the
\* route that holds it by now: UnlockAll walks the whole path (route.go 38-49).
CancelStripsReleased ==
    \E c \in RouteIds :
        /\ rt[c].state # "CANCELLED" /\ rt'[c].state = "CANCELLED"
        /\ \E j \in 1..rt[c].released :
             LET s == Path(rt[c].plan)[j] IN sec'[s].lock # sec[s].lock

\* Nothing but such a cancellation breaks the exclusive ownership of sections:
\* no setup, failed setup, occupancy, release or clock step does
\* (interlocking.go 68-101, route.go 122-134).
SectionsLostOnlyToCancel ==
    [][SectionsHeld /\ ~CancelStripsReleased => SectionsHeld']_vars

\* A train's route is given back behind the train, one section a step and in
\* path order, and ends RELEASED only with its whole path free; a route that
\* has ended stays as it is (route.go 76-145, types.go 147-150).
ReleaseInOrder ==
    [][\A i \in RouteIds :
         /\ rt[i].state \in TerminalStates => rt'[i] = rt[i]
         /\ rt'[i].released # rt[i].released /\ rt'[i].state # "CANCELLED" =>
                rt'[i].released = rt[i].released + 1
         /\ rt'[i].state = "RELEASED" /\ rt[i].state # "RELEASED" =>
                ~Occupied(sec', PathSet(rt[i].plan))
                /\ rt[i].state \in {"TRAIN_IN_ROUTE", "RELEASING"}]_vars
=============================================================================
