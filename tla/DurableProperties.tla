------------------------- MODULE DurableProperties --------------------------
(***************************************************************************)
(* What survives a restart, a reconcile and a failed write; and, last, what *)
(* a comment says does and does not.                                        *)
(***************************************************************************)
EXTENDS Durable

\* Types of memory and store: also after recoveries and failed writes the
\* points stay healthy and the released counts within their paths.
DurableTypeOK ==
    /\ TypeOK
    /\ dsec \in [Sections -> SectionRecord]
    /\ dpt \in [Points -> PointRecord]
    /\ \A p \in Points : dpt[p].status = "MOVING" => dpt[p].target \in OperatorDirs
    /\ dsig \in [Signals -> SignalRecord]
    /\ drt \in [RouteIds -> RouteRecord]
    /\ \A i \in RouteIds : RouteInBounds(drt[i])
    /\ dclock \in Nat
    /\ lost \in 0..MaxLost

\* With no write lost, the store knows of every active route the points it
\* holds, so a stop at any moment neither frees nor moves a point under a
\* route (route_ops.go 166-195, clock_ops.go 141-150, recovery.go 103-129).
StoreKnowsRoutePoints ==
    lost = 0 => \A i \in RouteIds : IsActive(rt[i]) =>
        \A p \in PlanPoints(rt[i].plan) : dpt[p] = pt[p]

\* With no write lost, restarts and reconciles leave the points of an active
\* route held by it, and lying or moving where it wants them
\* (recovery.go 103-129).
PointsSurviveRestart == lost = 0 => PointsHeld /\ PointsCommitted

\* With no write lost, memory and store agree on where trains are, on what
\* has been released, on which routes still run and on the time, whatever
\* restarts happened (train_ops.go 158-215, service.go 58-80).
StoreInStep == lost = 0 =>
    /\ clock = dclock
    /\ \A s \in Sections : sec[s].occ = dsec[s].occ
    /\ \A i \in RouteIds : /\ rt[i].released = drt[i].released
                           /\ IsActive(rt[i]) <=> IsActive(drt[i])

\* With no write lost, reconciling what was just reconciled changes nothing: no
\* count, lock, route state, aspect or binding, whatever the order of the rows
\* (recovery.go 83-84).  After a lost write it may: the row of a half cancelled
\* route takes its locks again before the same recovery ends the route.
ReconcileIdempotent ==
    lost = 0 => \A rank \in Ranks :
        LET once == ReconcileAll(Stored, rank) IN ReconcileAll(once, rank) = once

\* With no write lost, a route that has ended stays as it is, over restarts too
\* (recovery.go 157-158: "it never revives a terminal route").
EndedStaysEnded ==
    [][lost' = 0 => \A i \in RouteIds :
          rt[i].state \in TerminalStates => rt'[i] = rt[i]]_durable

\* Whatever writes fail, memory never counts fewer trains on a section than
\* the store: a failed clearance is taken back (train_ops.go 80-89, 152-155).
OccupancyNeverUnderstated == \A s \in Sections : sec[s].occ >= dsec[s].occ

\* Whatever writes fail and whenever the process is restarted, a route stored
\* as ended is never stored as running again (recovery.go 157-158).
StoredEndIsFinal ==
    [][\A i \in RouteIds : drt[i].state \in TerminalStates => drt'[i].state = drt[i].state]_durable

-----------------------------------------------------------------------------
(* Claims of comments that the code does not keep. *)

\* signal.go 2-6: a proceed aspect belongs to a route that still holds its
\* points and has them detected.
ProceedHasRoute ==
    \A g \in Signals : sig[g].aspect # "RED" =>
        LET r == rt[sig[g].route] IN
        /\ sig[g].route # NoRoute
        /\ IsActive(r)
        /\ \A q \in Reqs(r.plan) : AtTarget(pt[q.point], q.dir)
=============================================================================
