----------------------------- MODULE SignalOps ------------------------------
(***************************************************************************)
(* signal/signal.go: when a signal may be cleared, and to which aspect.    *)
(* A signal is a record [aspect, route]; its status is SET_RED exactly     *)
(* when the aspect is RED and is left out.                                 *)
(***************************************************************************)
EXTENDS RouteOps, PointOps

\* CanClear never answers YELLOW; only the recovery shows it.
Aspects == {"RED", "GREEN", "YELLOW", "DOUBLE_YELLOW"}

RedSignal(g) == [g EXCEPT !.aspect = "RED"]

\* A required or flank point lies as the plan wants it; a
\* bypassed point is believed without detection.
PointSet(p, dir) == p.dir = dir /\ (p.bypassed \/ p.status = "IN_POSITION")

\* Conditions 1 to 3: the points, and every section free and not locked by
\* another route.
ElementsReady(k, i, sec, pt) ==
    /\ \A q \in Reqs(k) : PointSet(pt[q.point], q.dir)
    /\ \A s \in PathSet(k) : sec[s].occ = 0 /\ sec[s].lock \in {NoRoute, i}

\* Faulty variant: only the route's own signal is looked at.
OpposingSignalOwn(k, i, sig) == sig[Origin(k)].route \notin {NoRoute, i}

\* Condition 4: a signal of another origin still bound to another route
\* guards the first path section.  (A bound signal is not always a clear one.)
OpposingSignal(k, i, sig) ==
    \E g \in Signals : /\ g # Origin(k)
                       /\ sig[g].route \notin {NoRoute, i}
                       /\ Guard[g] = First(k)

CanClear(k, i, sec, pt, sig) ==
    ElementsReady(k, i, sec, pt) /\ ~OpposingSignal(k, i, sig)

\* The aspect CanClear answers with when it allows the clearance.
ClearAspect(k) == IF DivergingRoute(k) THEN "DOUBLE_YELLOW" ELSE "GREEN"
=============================================================================
