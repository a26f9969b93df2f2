----------------------------- MODULE MCFollowing ----------------------------
(***************************************************************************)
(* A line without switches, where trains follow and meet:                  *)
(*                                                                         *)
(*   n0 -- s0 -- n1 (Z) -- s1 -- n2 (A) -- s2 -- n3 (W) -- s3 -- n4        *)
(*                                                                         *)
(* Z guards s1 and A guards s2, for trains to the right; W guards s2 for   *)
(* trains to the left.                                                     *)
(***************************************************************************)
EXTENDS LiveProperties, TLC

MCEnds == [s0 |-> <<"n0", "n1">>, s1 |-> <<"n1", "n2">>, s2 |-> <<"n2", "n3">>,
           s3 |-> <<"n3", "n4">>]
MCByNode == [n0 |-> <<"s0">>, n1 |-> <<"s0", "s1">>, n2 |-> <<"s1", "s2">>,
             n3 |-> <<"s2", "s3">>, n4 |-> <<"s3">>]
MCEntry == [Z |-> "n1", A |-> "n2", W |-> "n3"]
MCGuard == [Z |-> "s1", A |-> "s2", W |-> "s2"]

MCSections == DOMAIN MCEnds
MCSignals == DOMAIN MCGuard
MCDetectors == {"s1", "s2"}
MCDeltas == {1}
NoPoints == [p \in {} |-> {}]

T == INSTANCE Topology WITH Ends <- MCEnds, ByNode <- MCByNode, Switch <- NoPoints,
                            Entry <- MCEntry, GuardedBy <- MCGuard

Straight(path, approach) ==
    [path |-> path, points |-> <<>>, flank |-> {}, approach |-> approach,
     transit |-> Len(path)]

\* The requests of the model, as Expand answers them.
MCExpanded ==
    (<<"Z", "s3">> :> Straight(<<"s1", "s2", "s3">>, "s0")) @@
    (<<"Z", "s2">> :> Straight(<<"s1", "s2">>, "s0")) @@
    (<<"A", "s2">> :> Straight(<<"s2">>, "s1")) @@
    (<<"A", "s3">> :> Straight(<<"s2", "s3">>, "s1")) @@
    (<<"W", "s1">> :> Straight(<<"s2", "s1">>, "s3"))

MCPlans == DOMAIN MCExpanded

ASSUME MCYardIsDrawn == T!Drawn

ASSUME MCExpandedIsExpand ==
    \A k \in MCPlans : /\ T!Expands(k[1], k[2])
                       /\ MCExpanded[k] = T!Expand(k[1], k[2], [s \in MCSections |-> 1])

Symmetry == Permutations(RouteIds)

-----------------------------------------------------------------------------

\* signal.go 2-8: a proceed aspect is shown only while every section of the route
\* is free, and is gone the instant one is not.
ProceedWhileFree ==
    \A g \in Signals : sig[g].aspect # "RED" => ~Occupied(sec, PathSet(rt[sig[g].route].plan))
=============================================================================
