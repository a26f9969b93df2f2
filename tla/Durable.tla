------------------------------ MODULE Durable -------------------------------
(***************************************************************************)
(* The engine over its store.  Every operation runs in memory first and    *)
(* then writes the rows it touched in one transaction (CancelRoute: two).  *)
(* A transaction commits or fails; the process may stop at any point and   *)
(* be started again, or be told to reconcile: it then reloads the store    *)
(* and recomputes locks, route states and signals (recovery.go).           *)
(*                                                                         *)
(* A stop inside an operation loses its uncommitted transaction, which is  *)
(* a stop before the operation, or, between the two of CancelRoute,        *)
(* CancelHalf.  CONFLICT and FAILED rows are records for audit that nothing*)
(* reads back into a decision; they are left out.                          *)
(***************************************************************************)
EXTENDS LiveProperties, FiniteSets

CONSTANT MaxLost    \* bound: write transactions that fail in one behaviour

\* The store holds finitely many rows.
ASSUME StoreAssumption == IsFiniteSet(RouteIds) /\ MaxLost \in Nat

VARIABLES
    dsec, dpt, dsig, drt,   \* the rows of the store, shaped like sec, pt, sig, rt
    dclock,                 \* the store's meta row "clock"
    lost                    \* failed transactions so far

store == <<dsec, dpt, dsig, drt, dclock>>
durable == <<vars, store, lost>>

\* A committed transaction: the rows of S, P, G and R as memory has them now.
Saved(rows, K, mem) == [x \in DOMAIN rows |-> IF x \in K THEN mem[x] ELSE rows[x]]

Save(S, P, G, R) ==
    /\ dsec' = Saved(dsec, S, sec')
    /\ dpt' = Saved(dpt, P, pt')
    /\ dsig' = Saved(dsig, G, sig')
    /\ drt' = Saved(drt, R, rt')
    /\ lost' = lost

ClockKept == dclock' = dclock

\* A transaction that fails writes nothing.
Lose == lost < MaxLost /\ lost' = lost + 1 /\ UNCHANGED store

Moved == {i \in RouteIds : rt'[i] # rt[i]}

DurableInit ==
    /\ Init
    /\ dsec = sec /\ dpt = pt /\ dsig = sig /\ drt = rt /\ dclock = clock
    /\ lost = 0

-----------------------------------------------------------------------------
(* Route requests *)

\* Faulty variant: the rows of the points are forgotten.
RequestSavedNoPoints(i, k) ==
    \/ /\ StartMoves(i, k) \/ ClearAtOnce(i, k)
       /\ Save(PathSet(k), {}, {Origin(k)}, {i}) /\ ClockKept
    \/ /\ SetupFails(i, k) \/ ClearRefused(i, k)
       /\ UNCHANGED <<store, lost>>

RequestSaved(i, k) ==
    \/ /\ StartMoves(i, k) \/ ClearAtOnce(i, k)
       /\ Save(PathSet(k), PlanPoints(k), {Origin(k)}, {i}) /\ ClockKept
    \/ /\ SetupFails(i, k) \/ ClearRefused(i, k)
       /\ UNCHANGED <<store, lost>>

\* The write of a granted route fails: everything is unlocked, the signal is
\* red and unbound, the route forgotten; the moves go on.
RequestLost(i, k) ==
    /\ Accepted(i, k)
    /\ \A q \in Reqs(k) : ~Refused(q)
    /\ SomeMove(k) \/ CanClear(k, i, LockSections(sec, PathSet(k), i),
                               LockPoints(pt, PlanPoints(k), i), sig)
    /\ sec' = LockSections(sec, PathSet(k), NoRoute)
    /\ pt' = LockPoints(Issued(Reqs(k)), PlanPoints(k), NoRoute)
    /\ sig' = [sig EXCEPT ![Origin(k)] = [aspect |-> "RED", route |-> NoRoute]]
    /\ UNCHANGED <<rt, clock>>
    /\ Lose

-----------------------------------------------------------------------------
(* Train detection *)

OccupancySaved(s) ==
    ReportOccupancy(s) /\ Save({s}, {}, Dropped(s), Moved) /\ ClockKept

\* The count and the route states are put back; the signals stay red.
OccupancyLost(s) ==
    /\ sec[s].occ < MaxOcc
    /\ sig' = [g \in Signals |-> IF g \in Dropped(s) THEN RedSignal(sig[g]) ELSE sig[g]]
    /\ UNCHANGED <<sec, pt, rt, clock>>
    /\ Lose

\* Faulty variant: only the section is written.
ClearanceSavedSectionOnly(s) ==
    ReportClearance(s) /\ Save({s}, {}, {}, {}) /\ ClockKept

\* The signals of LOCKED routes are written along.
ClearanceSaved(s) ==
    LET done == {i \in RouteIds : ReleasesLast(rt[i], s, Lowered(s))} IN
    /\ ReportClearance(s)
    /\ Save({s}, UNION {PlanPoints(rt[i].plan) : i \in done},
            {Origin(rt[i].plan) : i \in {j \in RouteIds : rt[j].state = "LOCKED"}}, Moved)
    /\ ClockKept

\* Faulty variant: the failed write takes nothing back.
ClearanceLostForGood(s) == ReportClearance(s) /\ Lose

\* Only the count is put back, by one, even where it was not lowered; the
\* release stands.
ClearanceLost(s) ==
    LET low == Lowered(s)
        freed == {i \in RouteIds : Releases(rt[i], s, low)}
        done == {i \in RouteIds : ReleasesLast(rt[i], s, low)}
    IN  /\ sec' = LockSections([low EXCEPT ![s].occ = @ + 1],
                               IF freed = {} THEN {} ELSE {s}, NoRoute)
        /\ pt' = LockPoints(pt, UNION {PlanPoints(rt[i].plan) : i \in done}, NoRoute)
        /\ rt' = [i \in RouteIds |-> OnClearance(rt[i], s, low)]
        /\ UNCHANGED <<sig, clock>>
        /\ Lose

-----------------------------------------------------------------------------
(* Operator actions *)

CancelSaved(i) ==
    LET k == rt[i].plan
        all == CancelsAtOnce(rt[i], sec)
    IN  /\ CancelRoute(i)
        /\ Save(IF all THEN PathSet(k) ELSE {}, IF all THEN PlanPoints(k) ELSE {},
                {Origin(k)}, {i})
        /\ ClockKept

\* The transaction with the unlocked sections and points is the second one;
\* its failure is ignored.
CancelHalf(i) ==
    /\ CancelRoute(i)
    /\ CancelsAtOnce(rt[i], sec)
    /\ lost < MaxLost /\ lost' = lost + 1
    /\ UNCHANGED <<dsec, dpt, dclock>>
    /\ dsig' = Saved(dsig, {Origin(rt[i].plan)}, sig')
    /\ drt' = Saved(drt, {i}, rt')

\* Only the state is put back: the locks are gone, every section counts as
\* released, the signal is red and unbound.
CancelLost(i) ==
    LET k == rt[i].plan IN
    /\ IsActive(rt[i])
    /\ IF CancelsAtOnce(rt[i], sec)
       THEN /\ rt' = [rt EXCEPT ![i].released = Len(Path(k))]
            /\ sec' = LockSections(sec, PathSet(k), NoRoute)
            /\ pt' = LockPoints(pt, PlanPoints(k), NoRoute)
       ELSE /\ rt' = [rt EXCEPT ![i].deadline = CancelDeadline(rt[i])]
            /\ UNCHANGED <<sec, pt>>
    /\ sig' = [sig EXCEPT ![Origin(k)] = [aspect |-> "RED", route |-> NoRoute]]
    /\ UNCHANGED clock
    /\ Lose

SetSignalRedSaved(g) == SetSignalRed(g) /\ Save({}, {}, {g}, {}) /\ ClockKept
SetSignalRedLost(g) == SetSignalRed(g) /\ Lose

OperateSaved(p, dir) == OperatePoint(p, dir) /\ Save({}, {p}, {}, {}) /\ ClockKept
OperateLost(p, dir) == OperatePoint(p, dir) /\ Lose

BypassSaved(p, on) == BypassPoint(p, on) /\ Save({}, {p}, {}, {}) /\ ClockKept

\* The rollback is the opposite command, which may itself be refused.
BypassLost(p, on) ==
    LET q == Bypass(pt[p], on) IN
    /\ ~BypassRefused(pt[p], on, Squeezed(p))
    /\ pt' = [pt EXCEPT ![p] = IF BypassRefused(q, ~on, Squeezed(p)) THEN q
                               ELSE Bypass(q, ~on)]
    /\ UNCHANGED <<sec, sig, rt, clock>>
    /\ Lose

-----------------------------------------------------------------------------
(* The clock *)

\* The points detected, the routes that moved and the signals cleared are
\* written; the locks a cancelled route gave back are not.
AdvanceSaved(delta) ==
    /\ AdvanceClock(delta)
    /\ Save({}, {p \in Points : pt[p].status = "MOVING" /\ clock' >= pt[p].deadline},
            {Origin(rt[i].plan) : i \in {j \in Moved : rt'[j].state = "LOCKED"}}, Moved)
    /\ dclock' = clock'

\* Nothing is put back, the clock included.
AdvanceLost(delta) == AdvanceClock(delta) /\ Lose

-----------------------------------------------------------------------------
(* Recovery: LoadAll and ReconcileAll, over a snapshot m of rows *)

Stored == [sec |-> dsec, pt |-> dpt, sig |-> dsig, rt |-> drt]

\* The order in which the rows of the routes are read, by their random ids.
Ranks == {f \in [RouteIds -> 1..Cardinality(RouteIds)] :
            \A i, j \in RouteIds : f[i] = f[j] => i = j}

Latest(I, rank) == CHOOSE i \in I : \A j \in I : rank[j] <= rank[i]

\* Steps 1 and 2: every route whose row is active takes its locks, over the
\* locks of earlier rows and over whatever lock the row of the element holds.
ClaimedBy(claimants, rank, stored) ==
    IF claimants = {} THEN stored ELSE Latest(claimants, rank)

RecoveredSections(m, rank) ==
    [s \in Sections |-> [m.sec[s] EXCEPT !.lock = ClaimedBy(
        {i \in RouteIds : IsActive(m.rt[i]) /\ s \in Unreleased(m.rt[i])}, rank, @)]]

RecoveredPoints(m, rank) ==
    [p \in Points |-> [m.pt[p] EXCEPT !.lock = ClaimedBy(
        {i \in RouteIds : IsActive(m.rt[i]) /\ p \in PlanPoints(m.rt[i].plan)}, rank, @)]]

\* Step 3: the state of an active route, from what of its path is unreleased
\* and occupied.
RecoveredState(r, S) ==
    LET tail == Unreleased(r) IN
    CASE tail = {} -> "RELEASED"
      [] Occupied(S, tail) ->
            IF S[Path(r.plan)[r.released + 1]].occ > 0 /\ r.state \in {"POINTS_MOVING", "CANCEL_PENDING"}
            THEN r.state ELSE "TRAIN_IN_ROUTE"
      [] ~Occupied(S, tail) /\ S[Expanded[r.plan].approach].occ > 0 ->
            IF r.state = "LOCKED" THEN "TRAIN_COMING" ELSE r.state
      [] OTHER -> IF r.released > 0 THEN "RELEASING" ELSE "LOCKED"

\* Faulty variant: rows that have ended are taken for active ones.
RecoveredRouteRevived(r, S) ==
    IF r.plan = NoPlan THEN r
    ELSE [r EXCEPT !.state = IF Occupied(S, PathSet(r.plan)) THEN "TRAIN_IN_ROUTE" ELSE "LOCKED"]

RecoveredRoute(r, S) ==
    IF IsActive(r) THEN [r EXCEPT !.state = RecoveredState(r, S)] ELSE r

\* Step 4: the aspects of aspectForRoute differ from those of CanClear.
RecoveredAspect(k) ==
    IF ~DivergingRoute(k) THEN "GREEN"
    ELSE IF Len(Expanded[k].points) > 1 THEN "DOUBLE_YELLOW" ELSE "YELLOW"

\* Faulty variant: a route counts in the state it was stored in.
RecoveredSignalAsStored(m, g, mine, S, P, rank) ==
    IF \E i \in mine : m.rt[i].state = "POINTS_MOVING" THEN m.sig[g]
    ELSE [aspect |-> IF \A i \in mine : ElementsReady(m.rt[i].plan, i, S, P)
                     THEN "GREEN" ELSE "RED",
          route |-> m.sig[g].route]

\* Signal g after its active routes `mine' were gone through in row order: the
\* last one decides the aspect, the last openable one is bound.
RecoveredSignal(m, g, mine, S, P, rank) ==
    LET StillOpenable(i) == ElementsReady(m.rt[i].plan, i, S, P)
        open == {i \in mine : StillOpenable(i)}
    IN  IF mine = {} THEN m.sig[g]
        ELSE [aspect |-> IF Latest(mine, rank) \in open
                         THEN RecoveredAspect(m.rt[Latest(mine, rank)].plan) ELSE "RED",
              route |-> IF open = {} THEN m.sig[g].route ELSE Latest(open, rank)]

RecoveredSignals(m, R, S, P, rank) ==
    [g \in Signals |-> RecoveredSignal(m, g,
        {i \in RouteIds : IsActive(R[i]) /\ Origin(R[i].plan) = g}, S, P, rank)]

ReconcileAll(m, rank) ==
    LET S == RecoveredSections(m, rank)
        P == RecoveredPoints(m, rank)
        R == [i \in RouteIds |-> RecoveredRoute(m.rt[i], S)]
    IN  [sec |-> S, pt |-> P, sig |-> RecoveredSignals(m, R, S, P, rank), rt |-> R]

\* AddPoint refuses a row with another direction, and LoadAll with it.  A process
\* that starts then has an empty yard, which module Layout is about.
Loadable == \A p \in Points : dpt[p].dir \in Dirs

Recovered ==
    /\ Loadable
    /\ \E rank \in Ranks :
         LET new == ReconcileAll(Stored, rank) IN
         sec' = new.sec /\ pt' = new.pt /\ sig' = new.sig /\ rt' = new.rt
    /\ UNCHANGED <<store, lost>>

\* A new process; its clock starts from the stored one.
Restart == Recovered /\ clock' = dclock

\* The /reconcile call; the clock is never set back.
Reconcile == Recovered /\ clock' = IF dclock > clock THEN dclock ELSE clock

-----------------------------------------------------------------------------

DurableNext ==
    \/ \E i \in RouteIds, k \in Plans : RequestSaved(i, k) \/ RequestLost(i, k)
    \/ \E s \in Detectors : \/ OccupancySaved(s) \/ OccupancyLost(s)
                           \/ ClearanceSaved(s) \/ ClearanceLost(s)
    \/ \E i \in RouteIds : CancelSaved(i) \/ CancelHalf(i) \/ CancelLost(i)
    \/ \E g \in Signals : SetSignalRedSaved(g) \/ SetSignalRedLost(g)
    \/ \E p \in Points, dir \in OperatorDirs : OperateSaved(p, dir) \/ OperateLost(p, dir)
    \/ \E p \in Points, on \in BOOLEAN : BypassSaved(p, on) \/ BypassLost(p, on)
    \/ \E delta \in Deltas : AdvanceSaved(delta) \/ AdvanceLost(delta)
    \/ Restart
    \/ Reconcile

DurableSpec == DurableInit /\ [][DurableNext]_durable
=============================================================================
