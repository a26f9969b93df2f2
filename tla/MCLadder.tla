------------------------------ MODULE MCLadder ------------------------------
(***************************************************************************)
(* A small ladder, entered from both sides:                                *)
(*                                                                         *)
(*   n0 -- a -- n1 (A) -- s1 -- n2 [P1] -- m -- n3 [P2] -- tN -- n4 (B)    *)
(*                                |                |             |         *)
(*                                x -- n6          tR -- n5      b -- n7   *)
(*                                                                         *)
(* Signal A guards s1, signal B guards tN, both towards the switches.      *)
(***************************************************************************)
EXTENDS PointRefinement, TLC

MCEnds == [a |-> <<"n0", "n1">>, s1 |-> <<"n1", "n2">>, m |-> <<"n2", "n3">>,
           x |-> <<"n2", "n6">>, tN |-> <<"n3", "n4">>, tR |-> <<"n3", "n5">>,
           b |-> <<"n4", "n7">>]
MCByNode == [n0 |-> <<"a">>, n1 |-> <<"a", "s1">>, n2 |-> <<"s1", "m", "x">>,
             n3 |-> <<"m", "tN", "tR">>, n4 |-> <<"tN", "b">>, n5 |-> <<"tR">>,
             n6 |-> <<"x">>, n7 |-> <<"b">>]
MCSwitch == [P1 |-> [node |-> "n2", heel |-> "s1", normal |-> "m", reverse |-> "x"],
             P2 |-> [node |-> "n3", heel |-> "m", normal |-> "tN", reverse |-> "tR"]]
MCEntry == [A |-> "n1", B |-> "n4"]

MCGuard == [A |-> "s1", B |-> "tN"]
MCProtect == [P1 |-> {"s1"}, P2 |-> {"tN", "tR"}]
MCMoveTime == [P1 |-> 1, P2 |-> 1]

MCSections == DOMAIN MCEnds
MCPoints == DOMAIN MCSwitch
MCSignals == DOMAIN MCGuard
MCDetectors == {"a", "s1", "m", "tR"}
MCDeltas == {0, 1}

T == INSTANCE Topology WITH Ends <- MCEnds, ByNode <- MCByNode, Switch <- MCSwitch,
                            Entry <- MCEntry, GuardedBy <- MCGuard

N(p) == [point |-> p, dir |-> "N"]
R(p) == [point |-> p, dir |-> "R"]

\* The requests of the model, as Expand answers them.  Coming from B the path
\* runs over P2's normal leg, for which Expand records no requirement and asks
\* flank protection for the other leg.
MCExpanded ==
    (<<"A", "tN">> :> [path |-> <<"s1", "m", "tN">>, points |-> <<N("P1"), N("P2")>>,
                       flank |-> {}, approach |-> "a", transit |-> 3]) @@
    (<<"A", "tR">> :> [path |-> <<"s1", "m", "tR">>, points |-> <<N("P1"), R("P2")>>,
                       flank |-> {}, approach |-> "a", transit |-> 3]) @@
    (<<"A", "m">>  :> [path |-> <<"s1", "m">>, points |-> <<N("P1")>>,
                       flank |-> {R("P2")}, approach |-> "a", transit |-> 2]) @@
    (<<"B", "m">>  :> [path |-> <<"tN", "m">>, points |-> <<>>,
                       flank |-> {R("P2")}, approach |-> "b", transit |-> 2])

MCPlans == DOMAIN MCExpanded

ASSUME MCYardIsDrawn == T!Drawn

ASSUME MCExpandedIsExpand ==
    \A k \in MCPlans : /\ T!Expands(k[1], k[2])
                       /\ MCExpanded[k] = T!Expand(k[1], k[2], [s \in MCSections |-> 1])

Symmetry == Permutations(RouteIds)

-----------------------------------------------------------------------------

\* Expand collects "each point along the path with the direction matching the
\* leg used" (route_expand.go 27), so while a train may run over a route every
\* switch between two sections of its path lies for the leg that is one of them.
SwitchesFollowPath ==
    \A i \in RouteIds : rt[i].state \in LaidStates =>
        LET path == Path(rt[i].plan) IN
        \A j \in 2..Len(path), p \in MCPoints :
            LET passed == {path[j - 1], path[j]}
                x == MCSwitch[p]
            IN  /\ passed = {x.heel, x.normal} => pt[p].dir = "N"
                /\ passed = {x.heel, x.reverse} => pt[p].dir = "R"
=============================================================================
