--------------------------- MODULE PointAllocation --------------------------
(***************************************************************************)
(* What the interlocking promises about switches, and nothing else: a      *)
(* route takes all the points it needs in one step, only free ones, keeps  *)
(* every one of them where it wants it, gives all of them back in one step *)
(* when it ends, and never takes any again.  Free points may be driven by  *)
(* anybody.  Signals, sections, trains, plans and time do not appear.      *)
(***************************************************************************)
CONSTANTS Points, RouteIds, NoRoute, Directions

VARIABLES
    stage,    \* [RouteIds -> {"new", "holding", "done"}]
    owner,    \* [Points -> RouteIds \cup {NoRoute}]
    goal,     \* where the point lies or, while it moves, will lie
    moving    \* the points under way

vars == <<stage, owner, goal, moving>>

Init ==
    /\ stage = [i \in RouteIds |-> "new"]
    /\ owner = [p \in Points |-> NoRoute]
    /\ goal \in [Points -> Directions]
    /\ moving = {}

\* Points of P, and no others, may be sent somewhere or come to rest.
Driven(P) ==
    /\ goal' \in [Points -> Directions]
    /\ \A p \in Points \ P : goal'[p] = goal[p]
    /\ moving' \in SUBSET Points
    /\ moving' \ P = moving \ P

Take(i, P) ==
    /\ stage[i] = "new"
    /\ \A p \in P : owner[p] = NoRoute
    /\ stage' = [stage EXCEPT ![i] = "holding"]
    /\ owner' = [p \in Points |-> IF p \in P THEN i ELSE owner[p]]
    /\ Driven(P)

Drive(P) ==
    /\ \A p \in P : owner[p] = NoRoute
    /\ Driven(P)
    /\ UNCHANGED <<stage, owner>>

\* The routes of I end, and the points under way that are not in M arrive.
Settle(I, M) ==
    /\ \A i \in I : stage[i] = "holding"
    /\ stage' = [i \in RouteIds |-> IF i \in I THEN "done" ELSE stage[i]]
    /\ owner' = [p \in Points |-> IF owner[p] \in I THEN NoRoute ELSE owner[p]]
    /\ moving' = M
    /\ M \subseteq moving
    /\ UNCHANGED goal

Next ==
    \/ \E i \in RouteIds, P \in SUBSET Points : Take(i, P)
    \/ \E P \in SUBSET Points : Drive(P)
    \/ \E I \in SUBSET RouteIds, M \in SUBSET Points : Settle(I, M)

Spec == Init /\ [][Next]_vars
=============================================================================
