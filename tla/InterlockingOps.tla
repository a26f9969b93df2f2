-------------------------- MODULE InterlockingOps ---------------------------
(***************************************************************************)
(* interlocking/interlocking.go: the conflicts that refuse a route.  Only  *)
(* locks of routes that are still active count; `rt' is the route map.     *)
(***************************************************************************)
EXTENDS SignalOps

HeldByActive(x, rt) == x.lock # NoRoute /\ IsActive(rt[x.lock])

\* A signal bound to the lock's owner guards a section of the requested path.
IsOpposing(i, k, sig) ==
    \E g \in Signals : sig[g].route = i /\ Guard[g] \in PathSet(k)

\* Faulty variant: section locks are not looked at.
SectionConflictFree(s, k, sec, sig, rt) ==
    IF sec[s].occ > 0 THEN {<<"SECTION_OCCUPIED", s>>} ELSE {}

SectionConflict(s, k, sec, sig, rt) ==
    IF sec[s].occ > 0 THEN {<<"SECTION_OCCUPIED", s>>}
    ELSE IF ~HeldByActive(sec[s], rt) THEN {}
    ELSE IF IsOpposing(sec[s].lock, k, sig) THEN {<<"OPPOSING_ROUTE", sec[s].lock>>}
    ELSE {<<"SECTION_LOCKED", s>>}

\* Faulty variant: point locks are not looked at.
PointUnusableFree(p, rt) == ~p.bypassed /\ Degraded(p)

PointUnusable(p, rt) ==
    \/ ~p.bypassed /\ Degraded(p)
    \/ HeldByActive(p, rt)

Check(k, sec, pt, sig, rt) ==
    {<<"TERMINAL_OCCUPIED", s>> : s \in {t \in {Terminal(k)} : sec[t].occ > 0}}
    \cup (UNION {SectionConflict(s, k, sec, sig, rt) : s \in PathSet(k)})
    \cup {<<"POINT_CONFLICT", q.point>> : q \in {r \in Required(k) : PointUnusable(pt[r.point], rt)}}
    \cup {<<"FLANK_CONFLICT", q.point>> : q \in {r \in Flank(k) : PointUnusable(pt[r.point], rt)}}
=============================================================================
