------------------------- MODULE TrafficProperties --------------------------
(* What the interlocking is for: the trains. *)
EXTENDS Traffic

\* Two trains never meet on a section (interlocking.go 2-4).
NoCollision == \A t, u \in Trains : t # u => On(t) \cap On(u) = {}

\* The authority of a train under way is not withdrawn: its route goes on, and
\* holds all of its path that is not released yet, through every request, every
\* clock step and a cancellation that comes while the first section of the path
\* is unreleased (route.go 3-7, 82-165).  A later cancellation takes all of it
\* away; it is one of the two things that Disciplined rules out.
AuthorityHeld ==
    \A t \in Trains : Running(t) =>
        LET r == rt[run[t].route] IN
        IsActive(r) /\ \A s \in Unreleased(r) : sec[s].lock = run[t].route

\* A train that runs over a switch from its heel finds it at rest and set for
\* the leg on its track (signal.go 28-59, interlocking.go 103-151).
Passes(t, p) ==
    /\ run'[t].front = run[t].front + 1
    /\ run[t].track # <<>>
    /\ run[t].track[run[t].front] = Switch[p].heel
    /\ run'[t].track[run'[t].front] \in {Switch[p].normal, Switch[p].reverse}

FacingPointsSet ==
    [][\A t \in Trains, p \in Points : Passes(t, p) =>
         AtTarget(pt[p], IF run'[t].track[run'[t].front] = Switch[p].normal THEN "N" ELSE "R")]_traffic

\* What FacingPointsSet asks of the drawing: a path that takes a switch from its
\* heel requires it on the leg it takes (route_expand.go 70-112), and no signal
\* stands at the switch itself, between its heel and a leg.  A path that starts
\* on a leg requires nothing of the switch behind its signal.
SwitchesDrawn ==
    \A p \in Points :
        /\ \A k \in Plans : \A m \in 1..(Len(Path(k)) - 1) :
             Path(k)[m] = Switch[p].heel =>
                /\ Path(k)[m + 1] = Switch[p].normal =>
                     [point |-> p, dir |-> "N"] \in Required(k)
                /\ Path(k)[m + 1] = Switch[p].reverse /\ Path(k)[m + 1] # Switch[p].normal =>
                     [point |-> p, dir |-> "R"] \in Required(k)
        /\ \A g \in Signals : Ahead[g] = Switch[p].heel =>
             Guard[g] \notin {Switch[p].normal, Switch[p].reverse}

-----------------------------------------------------------------------------

\* The train of route i has turned at the end of its path and waits there.
WaitsAtTerminal(i) ==
    \E t \in Trains, g \in Signals :
        run[t] = Waiting(g) /\ Ahead[g] = Terminal(rt[i].plan)

\* Another train is on a section that route i has released.
Followed(i) == Occupied(sec, PathSet(rt[i].plan) \ Unreleased(rt[i]))

UnderWay(i) == \E t \in Trains : run[t].route = i

Ended(i) == rt[i].state \in TerminalStates

\* A route with a train on its way ends, cancelled under the train or not: the
\* train runs through, each clearance releases, the last one ends the route and
\* gives the points back.  What can keep a route is a train that stays on its
\* terminal, and one that is on a section released before (route.go 76-145).
EnteredRouteEnds ==
    \A i \in RouteIds :
        UnderWay(i) ~> rt[i].plan # NoPlan /\ (Ended(i) \/ WaitsAtTerminal(i) \/ Followed(i))

\* Another signal into the first section of route i is still bound to a route
\* that was released, which no request, release or clock step ever undoes.
ShutOut(i) ==
    \E g \in Signals \ {Origin(rt[i].plan)} :
        /\ Guard[g] = Path(rt[i].plan)[1]
        /\ sig[g].route # NoRoute /\ rt[sig[g].route].state = "RELEASED"

Waits(i) == rt[i].state = "POINTS_MOVING"

\* A route that waits for its points is opened, or cancelled, once their time
\* is over, unless it is shut out (clock_ops.go 54-116, signal.go 74-86).  Only
\* moves that end before MaxClock are asked for.
SetupEnds ==
    \A i \in RouteIds :
        /\ Waits(i)
        /\ \A p \in PlanPoints(rt[i].plan) : pt[p].deadline <= MaxClock
        ~> ~Waits(i) \/ ShutOut(i)

\* A route that is shut out is never opened, and stays shut out while it waits:
\* only a cancellation ends it (train_ops.go 139-146, route_ops.go 44-50).
ShutOutForGood ==
    [][\A i \in RouteIds : Waits(i) /\ ShutOut(i) =>
          rt'[i].state = "CANCELLED" \/ (Waits(i) /\ ShutOut(i))']_traffic

-----------------------------------------------------------------------------
(* A claim of a comment that the code does not keep. *)

\* route.go 77-80: the last section of a route is released once its train has
\* fully left the route; so a route that was entered and lies free again ends.
LeftRouteEnds ==
    \A i \in RouteIds :
        /\ rt[i].state \in {"TRAIN_IN_ROUTE", "RELEASING"}
        /\ ~Occupied(sec, PathSet(rt[i].plan))
        ~> Ended(i)
=============================================================================
