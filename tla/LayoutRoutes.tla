---------------------------- MODULE LayoutRoutes ----------------------------
(* What Expand makes of the graphs that Layout builds. *)
EXTENDS Layout

\* AddSection refuses an empty id (topology.go 58).
ASSUME IdAssumption == "" \notin SectionIds

\* The elements of a kind by their ids, as the maps of Graph hold them.
IdsOf(kind) == {e.id : e \in Of(graph, kind)}
The(kind, id) == CHOOSE e \in Of(graph, kind) : e.id = id

SectionEnds == [s \in IdsOf("section") |-> <<The("section", s).from, The("section", s).to>>]
PointLegs == [p \in IdsOf("point") |-> LET x == The("point", p) IN
                 [node |-> x.node, heel |-> x.heel, normal |-> x.normal, reverse |-> x.reverse]]
EntryNodes == [g \in IdsOf("signal") |-> The("signal", g).entry]
GuardedSections == [g \in IdsOf("signal") |-> The("signal", g).guard]

Way == INSTANCE Topology WITH
    Ends <- SectionEnds, ByNode <- graph.byNode, Switch <- PointLegs,
    Entry <- EntryNodes, GuardedBy <- GuardedSections

\* In every yard that can be built, and after every failure, reset and restart,
\* Expand ends and answers with a route fit to be set (route_expand.go 35-174).
RoutesAreSound ==
    \A g \in IdsOf("signal"), s \in IdsOf("section") : Way!Sound(g, s)
=============================================================================
