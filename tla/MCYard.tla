------------------------------- MODULE MCYard -------------------------------
(***************************************************************************)
(* The smallest yard with a switch:                                        *)
(*                                                                         *)
(*   n0 -- a -- n1 (A) -- s1 -- n2 [P] -- sN -- n3                         *)
(*                                |                                        *)
(*                                sR -- n4                                 *)
(***************************************************************************)
EXTENDS DurableProperties, TLC

MCEnds == [a |-> <<"n0", "n1">>, s1 |-> <<"n1", "n2">>, sN |-> <<"n2", "n3">>,
           sR |-> <<"n2", "n4">>]
MCByNode == [n0 |-> <<"a">>, n1 |-> <<"a", "s1">>, n2 |-> <<"s1", "sN", "sR">>,
             n3 |-> <<"sN">>, n4 |-> <<"sR">>]
MCSwitch == [P |-> [node |-> "n2", heel |-> "s1", normal |-> "sN", reverse |-> "sR"]]
MCEntry == [A |-> "n1"]
MCGuard == [A |-> "s1"]
MCProtect == [P |-> {"s1", "sN", "sR"}]
MCMoveTime == [P |-> 1]

MCSections == DOMAIN MCEnds
MCPoints == DOMAIN MCSwitch
MCSignals == DOMAIN MCGuard
MCDetectors == {"a", "s1", "sN"}
MCDeltas == {1}

T == INSTANCE Topology WITH Ends <- MCEnds, ByNode <- MCByNode, Switch <- MCSwitch,
                            Entry <- MCEntry, GuardedBy <- MCGuard

\* The requests of the model, as Expand answers them.
MCExpanded ==
    (<<"A", "sN">> :> [path |-> <<"s1", "sN">>, points |-> <<[point |-> "P", dir |-> "N"]>>,
                       flank |-> {}, approach |-> "a", transit |-> 2]) @@
    (<<"A", "sR">> :> [path |-> <<"s1", "sR">>, points |-> <<[point |-> "P", dir |-> "R"]>>,
                       flank |-> {}, approach |-> "a", transit |-> 2])

MCPlans == DOMAIN MCExpanded

ASSUME MCYardIsDrawn == T!Drawn

ASSUME MCExpandedIsExpand ==
    \A k \in MCPlans : /\ T!Expands(k[1], k[2])
                       /\ MCExpanded[k] = T!Expand(k[1], k[2], [s \in MCSections |-> 1])

Symmetry == Permutations(RouteIds)
=============================================================================
