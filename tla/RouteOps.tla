------------------------------ MODULE RouteOps ------------------------------
(***************************************************************************)
(* route/route.go and the state predicates of model/types.go: the route    *)
(* machine, as functions of one route record                               *)
(*      [state, plan, timed, deadline, released]                           *)
(* and of the lock tables it writes.  `timed' is OpenedAt > 0, the only    *)
(* thing the code asks of OpenedAt; `released' is ReleasedCount.           *)
(***************************************************************************)
EXTENDS Yard

\* "NONE" stands for an id no request has used yet.  PENDING never outlives
\* RequestRoute, and CONFLICT and FAILED routes are not put in the route map.
States == {"NONE", "POINTS_MOVING", "LOCKED", "TRAIN_COMING", "TRAIN_IN_ROUTE",
           "RELEASING", "RELEASED", "CANCEL_PENDING", "CANCELLED"}

TerminalStates == {"RELEASED", "CANCELLED"}

ActiveStates == {"POINTS_MOVING", "LOCKED", "TRAIN_COMING", "TRAIN_IN_ROUTE",
                 "RELEASING", "CANCEL_PENDING"}

IsActive(r) == r.state \in ActiveStates

NoneRoute == [state |-> "NONE", plan |-> NoPlan, timed |-> FALSE,
              deadline |-> 0, released |-> 0]

NewRoute(k, state, now) ==
    [state |-> state, plan |-> k, timed |-> state = "LOCKED" /\ now > 0,
     deadline |-> 0, released |-> 0]

\* The sections the route has not released yet.
Unreleased(r) == {Path(r.plan)[j] : j \in (r.released + 1)..Len(Path(r.plan))}

\* Faulty variant: a lock is taken but never given back.
LockSectionsForGood(sec, S, i) ==
    [s \in Sections |-> IF s \in S /\ i # NoRoute THEN [sec[s] EXCEPT !.lock = i] ELSE sec[s]]

\* LockResources and UnlockAll write the same entries, whoever owns them.
LockSections(sec, S, i) ==
    [s \in Sections |-> IF s \in S THEN [sec[s] EXCEPT !.lock = i] ELSE sec[s]]

LockPoints(pt, P, i) ==
    [p \in Points |-> IF p \in P THEN [pt[p] EXCEPT !.lock = i] ELSE pt[p]]

Occupied(sec, S) == \E s \in S : sec[s].occ > 0

OnOccupancy(r, s) ==
    CASE r.state = "LOCKED" /\ s = Expanded[r.plan].approach ->
            [r EXCEPT !.state = "TRAIN_COMING"]
      [] r.state \in {"LOCKED", "TRAIN_COMING"} /\ s = First(r.plan) ->
            [r EXCEPT !.state = "TRAIN_IN_ROUTE"]
      [] OTHER -> r

\* Faulty variant: the last section goes as soon as it is reported clear.
ReleasesUnderTrain(r, s, sec) ==
    /\ r.state \in {"TRAIN_IN_ROUTE", "RELEASING", "CANCEL_PENDING"}
    /\ r.released < Len(Path(r.plan))
    /\ s = Path(r.plan)[r.released + 1]

\* Faulty variant: a route that has begun to release does not go on.
ReleasesFirstOnly(r, s, sec) ==
    /\ r.state \in {"TRAIN_IN_ROUTE", "CANCEL_PENDING"}
    /\ r.released < Len(Path(r.plan))
    /\ s = Path(r.plan)[r.released + 1]
    /\ r.released + 1 = Len(Path(r.plan)) => ~Occupied(sec, PathSet(r.plan))

\* OnClearance releases s: it is the next section in forward order, and the
\* last one only goes when no section of the path is occupied.  `sec' already
\* has the lowered count.
Releases(r, s, sec) ==
    /\ r.state \in {"TRAIN_IN_ROUTE", "RELEASING", "CANCEL_PENDING"}
    /\ r.released < Len(Path(r.plan))
    /\ s = Path(r.plan)[r.released + 1]
    /\ r.released + 1 = Len(Path(r.plan)) => ~Occupied(sec, PathSet(r.plan))

\* Faulty variants: the points are given back with any section, or never.
ReleasesLastAtAny(r, s, sec) == Releases(r, s, sec)
ReleasesLastOffByOne(r, s, sec) ==
    Releases(r, s, sec) /\ r.released = Len(Path(r.plan))

ReleasesLast(r, s, sec) ==
    Releases(r, s, sec) /\ r.released + 1 = Len(Path(r.plan))

OnClearance(r, s, sec) ==
    IF ~Releases(r, s, sec) THEN r
    ELSE [r EXCEPT
            !.released = r.released + 1,
            !.state = IF r.released + 1 = Len(Path(r.plan))
                      THEN IF r.state = "CANCEL_PENDING" THEN "CANCELLED" ELSE "RELEASED"
                      ELSE IF r.state = "CANCEL_PENDING" THEN r.state ELSE "RELEASING"]

\* UnlockAll's effect on the record; the lock tables are the caller's.
Cancelled(r) == [r EXCEPT !.state = "CANCELLED", !.released = Len(Path(r.plan))]

\* Faulty variant: no rear-of-train protection.
CancelsAlways(r, sec) == TRUE

\* Cancel: the rear-of-train test looks at the first path section only.
CancelsAtOnce(r, sec) == sec[First(r.plan)].occ = 0

\* TickCancelDeadline: the deadline has passed and the path is free.
BackstopDue(r, now, sec) ==
    /\ r.state = "CANCEL_PENDING"
    /\ ~(r.deadline > 0 /\ now < r.deadline)
    /\ ~Occupied(sec, PathSet(r.plan))
=============================================================================
