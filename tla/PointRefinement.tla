--------------------------- MODULE PointRefinement --------------------------
(* Interlock, seen through its points only, is an allocator of points. *)
EXTENDS LiveProperties

Stage(r) == IF r.state = "NONE" THEN "new" ELSE IF IsActive(r) THEN "holding" ELSE "done"

Goal(p) == IF p.status = "MOVING" THEN p.target ELSE p.dir

Stages == [i \in RouteIds |-> Stage(rt[i])]
Owners == [p \in Points |-> pt[p].lock]
Goals  == [p \in Points |-> Goal(pt[p])]
Moving == {p \in Points : pt[p].status = "MOVING"}

Alloc == INSTANCE PointAllocation WITH
    Directions <- OperatorDirs,
    stage <- Stages, owner <- Owners, goal <- Goals, moving <- Moving

\* The engine implements the abstract allocation: no order of requests, failed
\* setups, releases, cancellations, operator moves and clock steps lets a point
\* change hands while it is owned or move under its owner, splits what a route
\* takes or gives back over two steps, or takes something for a route that has
\* ended (route_ops.go 101-141, route.go 21-49, 112-134, cancel_ops.go 138).
AllocatesPoints == Alloc!Spec
=============================================================================
