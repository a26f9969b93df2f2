------------------------------ MODULE MCTraffic -----------------------------
(***************************************************************************)
(* A yard in which trains meet behind a switch:                            *)
(*                                                                         *)
(*   n0 -- w -- n1 (A,D) -- s -- n2 [P] -- m -- n3 (B) -- e -- n5          *)
(*                                  |                                      *)
(*                                  x -- n4                                *)
(*                                                                         *)
(* Signal A guards s, to the right, and so does signal D, for shunting into*)
(* x, at the same place; signal B guards m, to the left.                   *)
(***************************************************************************)
EXTENDS TrafficProperties, TLC

MCEnds == [w |-> <<"n0", "n1">>, s |-> <<"n1", "n2">>, m |-> <<"n2", "n3">>,
           x |-> <<"n2", "n4">>, e |-> <<"n3", "n5">>]
MCByNode == [n0 |-> <<"w">>, n1 |-> <<"w", "s">>, n2 |-> <<"s", "m", "x">>,
             n3 |-> <<"m", "e">>, n4 |-> <<"x">>, n5 |-> <<"e">>]
MCSwitch == [P |-> [node |-> "n2", heel |-> "s", normal |-> "m", reverse |-> "x"]]
MCEntry == [A |-> "n1", B |-> "n3", D |-> "n1"]
MCGuard == [A |-> "s", B |-> "m", D |-> "s"]
MCAhead == [A |-> "w", B |-> "e", D |-> "w"]
MCProtect == [P |-> {"s", "m", "x"}]
MCMoveTime == [P |-> 1]

MCSections == DOMAIN MCEnds
MCPoints == DOMAIN MCSwitch
MCSignals == DOMAIN MCGuard
MCDeltas == {0, 1}

T == INSTANCE Topology WITH Ends <- MCEnds, ByNode <- MCByNode, Switch <- MCSwitch,
                            Entry <- MCEntry, GuardedBy <- MCGuard

N(p) == [point |-> p, dir |-> "N"]
R(p) == [point |-> p, dir |-> "R"]

\* The requests of the model, as Expand answers them.
MCExpanded ==
    (<<"A", "e">> :> [path |-> <<"s", "m", "e">>, points |-> <<N("P")>>,
                      flank |-> {}, approach |-> "w", transit |-> 3]) @@
    (<<"A", "m">> :> [path |-> <<"s", "m">>, points |-> <<N("P")>>,
                      flank |-> {}, approach |-> "w", transit |-> 2]) @@
    (<<"D", "x">> :> [path |-> <<"s", "x">>, points |-> <<R("P")>>,
                      flank |-> {}, approach |-> "w", transit |-> 2]) @@
    (<<"B", "m">> :> [path |-> <<"m">>, points |-> <<>>,
                      flank |-> {}, approach |-> "e", transit |-> 1])

MCPlans == DOMAIN MCExpanded

ASSUME MCYardIsDrawn == T!Drawn

ASSUME MCExpandedIsExpand ==
    \A k \in MCPlans : /\ T!Expands(k[1], k[2])
                       /\ MCExpanded[k] = T!Expand(k[1], k[2], [y \in MCSections |-> 1])

ASSUME MCSwitchesDrawn == SwitchesDrawn

Symmetry == Permutations(RouteIds) \cup Permutations(Trains)
=============================================================================
