-------------------------------- MODULE Yard --------------------------------
(***************************************************************************)
(* The static side of the interlocking: what a layout declares (sections,  *)
(* points, signals) and what topology.Expand computes from it for a route  *)
(* request, a pair <<origin signal, terminal section>>.  A layout does not *)
(* change while routes run, so everything here is a constant.              *)
(***************************************************************************)
EXTENDS Naturals, Sequences

CONSTANTS
    Sections,      \* track section ids
    Points,        \* switch ids
    Signals,       \* signal ids
    RouteIds,      \* ids idlib hands out for routes; each is used once
    NoRoute,       \* the empty RouteID / LockedByRoute, ""
    NoPlan,        \* the plan of a route id that was not handed out yet
    OperatorDirs,  \* direction strings an operator may send for a point
    Guard,         \* Guard[g]: the section signal g guards
    Protect,       \* Protect[p]: the anti-squeeze sections of point p
    MoveTime,      \* MoveTime[p]: max_move_seconds
    Plans,         \* the requests topology.Expand accepts
    Expanded       \* Expanded[k]: the result of Expand for the request k

Dirs == {"N", "R"}

Requirement == [point : Points, dir : Dirs]

Ids == RouteIds \cup {NoRoute}

Origin(k) == k[1]
Path(k)   == Expanded[k].path
PathSet(k) == {Path(k)[j] : j \in 1..Len(Path(k))}
First(k)  == Path(k)[1]
Terminal(k) == Path(k)[Len(Path(k))]

\* The facing points of the path, in the order the walk meets them, as a set.
Required(k) == {Expanded[k].points[j] : j \in 1..Len(Expanded[k].points)}
Flank(k) == Expanded[k].flank
Reqs(k) == Required(k) \cup Flank(k)
PlanPoints(k) == {q.point : q \in Reqs(k)}

\* model.Route.DivergingRoute: some facing point lies reverse.
DivergingRoute(k) == \E q \in Required(k) : q.dir = "R"

-----------------------------------------------------------------------------

\* What AddPoint and AddSignal enforce on the layout (topology.go 94-158):
\* references to sections that exist, and a move time that is not zero.
ASSUME LayoutAssumption ==
    /\ NoRoute \notin RouteIds
    /\ NoPlan \notin Plans
    /\ Dirs \subseteq OperatorDirs
    /\ Guard \in [Signals -> Sections]
    /\ Protect \in [Points -> SUBSET Sections]
    /\ MoveTime \in [Points -> Nat \ {0}]
    /\ Plans \subseteq Signals \X Sections

\* What Expand returns: a path that starts at the guarded section, ends at the
\* terminal and visits no section twice; at most one requirement per point.
ASSUME ExpandAssumption ==
    \A k \in Plans :
        /\ Expanded[k].path \in Seq(Sections)
        /\ Len(Path(k)) > 0
        /\ First(k) = Guard[Origin(k)]
        /\ \A m, n \in 1..Len(Path(k)) : Path(k)[m] = Path(k)[n] => m = n
        /\ Expanded[k].points \in Seq(Requirement)
        /\ Flank(k) \subseteq Requirement
        /\ \A q, r \in Reqs(k) : q.point = r.point => q = r
        /\ Expanded[k].approach \in Sections \ {First(k)}
        /\ Expanded[k].transit \in Nat
=============================================================================
