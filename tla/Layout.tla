------------------------------- MODULE Layout -------------------------------
(***************************************************************************)
(* Building the yard: topology/topology.go and service/layout_ops.go.  The *)
(* graph is what the engine walks, the rows are what the store holds.  An  *)
(* operation changes the graph, inserts the row and appends an audit event,*)
(* three steps of which the last two can fail; a restart rebuilds the graph*)
(* from the rows.  Codes, lengths and section kinds decide nothing here but*)
(* the order of the rows and are left out.  Of what runs in a built yard   *)
(* only the direction of its switches decides whether it can be loaded.    *)
(***************************************************************************)
EXTENDS Naturals, Sequences, SequencesExt, FiniteSets

CONSTANTS
    NodeIds, SectionIds, PointIds, SignalIds,
    Directions,    \* what a caller may write for the direction of a switch
    MaxFailures    \* bound: failed store calls in one behaviour

Nodes    == [kind : {"node"}, id : NodeIds]
Tracks   == [kind : {"section"}, id : SectionIds, from : NodeIds, to : NodeIds]
Switches == [kind : {"point"}, id : PointIds, node : NodeIds,
             heel : SectionIds, normal : SectionIds, reverse : SectionIds]
Heads    == [kind : {"signal"}, id : SignalIds, entry : NodeIds, guard : SectionIds]

Dirs == {"N", "R"}

VARIABLES
    graph,     \* [parts: the elements, byNode: the sections of a node in order]
    rows,      \* the elements in the store
    held,      \* how each switch lies, in memory: [dir, target]
    stored,    \* and in its row
    failures   \* failed store calls so far

layout == <<graph, rows, held, stored, failures>>

\* A switch that is not under way, or on its way back to where it lies, which is
\* not told apart: a command or a clock step may write the row of either.
AtRest(dir) == [dir |-> dir, target |-> dir]

NoneLies == [p \in PointIds |-> AtRest("N")]

EmptyGraph == [parts |-> {}, byNode |-> [n \in NodeIds |-> <<>>]]

-----------------------------------------------------------------------------
(* topology.Graph *)

Of(g, kind) == {e \in g.parts : e.kind = kind}
Known(g, kind, id) == \E e \in g.parts : e.kind = kind /\ e.id = id

Lists(g, n) == {g.byNode[n][j] : j \in 1..Len(g.byNode[n])}

OtherEnd(t, n) == IF t.from = n THEN t.to ELSE t.from

\* The walk over the sections each node lists, as undirected edges, gets to the
\* nodes of every set it starts in and cannot leave.
Reachable(g, src, dst) ==
    \A N \in SUBSET NodeIds :
        /\ src \in N
        /\ \A n \in N, t \in Of(g, "section") : t.id \in Lists(g, n) => OtherEnd(t, n) \in N
        => dst \in N

\* Faulty variant: a second way between two nodes is accepted.
ClosesCycleNever(g, e) == e.from = e.to

ClosesCycle(g, e) == e.from = e.to \/ Reachable(g, e.to, e.from)

\* Faulty variant: only the heel is looked up.
LegsStandHeel(g, e) == Known(g, "section", e.heel)

\* Three different sections of the graph.
LegsStand(g, e) ==
    /\ \A s \in {e.heel, e.normal, e.reverse} : Known(g, "section", s)
    /\ Cardinality({e.heel, e.normal, e.reverse}) = 3

\* What AddNode, AddSection, AddPoint and AddSignal answer with an error, `lies'
\* telling how the switches lie.
Refused(g, lies, e) ==
    \/ Known(g, e.kind, e.id)
    \/ /\ e.kind = "section"
       /\ \/ ~Known(g, "node", e.from) \/ ~Known(g, "node", e.to)
          \/ ClosesCycle(g, e)
    \/ /\ e.kind = "point"
       /\ \/ ~Known(g, "node", e.node)
          \/ ~LegsStand(g, e)
          \/ lies[e.id].dir \notin Dirs
          \/ \E p \in Of(g, "point") : p.node = e.node
    \/ /\ e.kind = "signal"
       /\ ~Known(g, "node", e.entry) \/ ~Known(g, "section", e.guard)

With(g, e) ==
    [parts |-> g.parts \cup {e},
     byNode |-> IF e.kind # "section" THEN g.byNode
                ELSE [n \in NodeIds |-> IF n \in {e.from, e.to} THEN Append(g.byNode[n], e.id)
                                        ELSE g.byNode[n]]]

\* What RemoveNode and RemoveSection refuse to take away.
Referenced(g, e) ==
    \/ /\ e.kind = "node"
       /\ \/ \E s \in Lists(g, e.id) : Known(g, "section", s)
          \/ \E p \in Of(g, "point") : p.node = e.id
    \/ /\ e.kind = "section"
       /\ \E p \in Of(g, "point") : e.id \in {p.heel, p.normal, p.reverse}

\* The list without an id.
Dropped(list, id) ==
    LET Kept[j \in 0..Len(list)] ==
            IF j = 0 THEN <<>>
            ELSE IF list[j] = id THEN Kept[j - 1] ELSE Append(Kept[j - 1], list[j])
    IN  Kept[Len(list)]

\* Faulty variants: nothing is taken away; the adjacency is forgotten.
WithoutNothing(g, e) == g
WithoutAdjacency(g, e) == [g EXCEPT !.parts = @ \ {e}]

Without(g, e) ==
    IF Referenced(g, e) THEN g
    ELSE [parts |-> g.parts \ {e},
          byNode |-> CASE e.kind = "node" -> [g.byNode EXCEPT ![e.id] = <<>>]
                       [] e.kind = "section" ->
                            [n \in NodeIds |-> IF n \in {e.from, e.to} THEN Dropped(g.byNode[n], e.id)
                                               ELSE g.byNode[n]]
                       [] OTHER -> g.byNode]

-----------------------------------------------------------------------------
(* service.AddNode, AddSection, AddPoint, AddSignal and ResetLayout *)

Init ==
    /\ graph = EmptyGraph
    /\ rows = {}
    /\ held = NoneLies /\ stored = NoneLies
    /\ failures = 0

Fails == failures < MaxFailures /\ failures' = failures + 1

\* The rows of the switches P are written as memory has them.
Record(P) == stored' = [p \in PointIds |-> IF p \in P THEN held'[p] ELSE stored[p]]

\* Graph and store take the element in.
Taken(e, lies) ==
    /\ graph' = With(graph, e)
    /\ rows' = rows \cup {e}
    /\ held' = lies
    /\ Record(IF e.kind = "point" THEN {e.id} ELSE {})

Done(e, lies) == Taken(e, lies) /\ UNCHANGED failures

\* The row cannot be inserted: the element is taken out of the graph again.
RowFails(e) ==
    /\ Fails
    /\ graph' = Without(With(graph, e), e)
    /\ UNCHANGED <<rows, held, stored>>

\* The event cannot be appended, after the row: the caller is told of an error
\* and the element stays, in graph and store.
EventFails(e, lies) == Taken(e, lies) /\ Fails

\* Ids are drawn at random: none is that of a row.
Fresh(e) == \A f \in rows : f.kind = e.kind => f.id # e.id

Add(e, lies) ==
    /\ Fresh(e)
    /\ ~Refused(graph, lies, e)
    /\ Done(e, lies) \/ RowFails(e) \/ EventFails(e, lies)

AddNode(e) == e \in Nodes /\ Add(e, held)
AddSection(e) == e \in Tracks /\ Add(e, held)
AddPoint(e, dir) == e \in Switches /\ Add(e, [held EXCEPT ![e.id] = AtRest(dir)])
AddSignal(e) == e \in Heads /\ Add(e, held)

\* The tables are truncated in one transaction; when it fails nothing changes.
ResetLayout ==
    /\ graph' = EmptyGraph
    /\ rows' = {}
    /\ held' = NoneLies /\ stored' = NoneLies
    /\ UNCHANGED failures

-----------------------------------------------------------------------------
(* service.OperatePoint and AdvanceClock, of which here only the directions *)
(* count; routes and trains only keep an operator from moving a switch, and *)
(* a route moves it to N or R.                                             *)

\* The rows of P are written, or the transaction fails and memory stays as it is.
Persist(P) ==
    \/ Record(P) /\ UNCHANGED failures
    \/ Fails /\ UNCHANGED stored

\* Whatever direction the caller wrote is the target of the move.
OperatePoint(p, dir) ==
    /\ Known(graph, "point", p)
    /\ held' = [held EXCEPT ![p].target = dir]
    /\ Persist({p})
    /\ UNCHANGED <<graph, rows>>

\* Some of the switches under way are past their deadlines and taken for arrived.
AdvanceClock ==
    \E P \in (SUBSET {p \in PointIds : Known(graph, "point", p)}) \ {{}} :
        /\ held' = [p \in PointIds |-> IF p \in P THEN AtRest(held[p].target) ELSE held[p]]
        /\ Persist(P)
        /\ UNCHANGED <<graph, rows>>

-----------------------------------------------------------------------------
(* recovery.LoadAll *)

\* Table by table, each in the order of its codes, which are arbitrary; only
\* the order of the sections leaves a trace in the graph.
Orders ==
    {SetToSeq(rows \cap Nodes) \o order \o SetToSeq(rows \cap Switches) \o SetToSeq(rows \cap Heads) :
        order \in SetToSeqs(rows \cap Tracks)}

\* The graph after each of the rows.
Built(order) ==
    LET Loaded[j \in 0..Len(order)] ==
            IF j = 0 THEN EmptyGraph ELSE With(Loaded[j - 1], order[j])
    IN  Loaded

\* LoadAll gives up at the first element it is refused.
Loads(order) ==
    LET g == Built(order) IN \A j \in 1..Len(order) : ~Refused(g[j - 1], stored, order[j])

\* A new process keeps the empty graph it started with when LoadAll gives up.
Restart ==
    /\ \E order \in Orders :
         graph' = IF Loads(order) THEN Built(order)[Len(order)] ELSE EmptyGraph
    /\ held' = stored
    /\ UNCHANGED <<rows, stored, failures>>

\* The /reconcile call then answers with an error, and changes nothing.
Reconcile ==
    /\ \E order \in Orders : Loads(order) /\ graph' = Built(order)[Len(order)]
    /\ held' = stored
    /\ UNCHANGED <<rows, stored, failures>>

Next ==
    \/ \E e \in Nodes : AddNode(e)
    \/ \E e \in Tracks : AddSection(e)
    \/ \E e \in Switches, dir \in Directions : AddPoint(e, dir)
    \/ \E e \in Heads : AddSignal(e)
    \/ ResetLayout
    \/ \E p \in PointIds, dir \in Directions : OperatePoint(p, dir)
    \/ AdvanceClock
    \/ Restart
    \/ Reconcile

Spec == Init /\ [][Next]_layout

-----------------------------------------------------------------------------
(* Properties *)

\* The sections never close a circle, so that a walk over them ends: none joins
\* a node to itself, and every set of them has a node where just one of the set
\* ends (topology.go 55-82).
Acyclic(g) ==
    /\ \A t \in Of(g, "section") : t.from # t.to
    /\ \A S \in (SUBSET Of(g, "section")) \ {{}} :
         \E n \in NodeIds, t \in S : \A u \in S : n \in {u.from, u.to} <=> u = t

Forest == Acyclic(graph)

\* Every reference leads to an element of the graph, ids are unique, and a node
\* has one switch at most, with three different legs (topology.go 91-158).
Resolved(g) ==
    /\ \A e, f \in g.parts : e.kind = f.kind /\ e.id = f.id => e = f
    /\ \A t \in Of(g, "section") : Known(g, "node", t.from) /\ Known(g, "node", t.to)
    /\ \A p \in Of(g, "point") :
         /\ Known(g, "node", p.node)
         /\ Cardinality({p.heel, p.normal, p.reverse}) = 3
         /\ \A s \in {p.heel, p.normal, p.reverse} : Known(g, "section", s)
         /\ \A q \in Of(g, "point") : q.node = p.node => q = p
    /\ \A h \in Of(g, "signal") : Known(g, "node", h.entry) /\ Known(g, "section", h.guard)

References == Resolved(graph)

\* Whatever inserts fail and however often the process restarts, a node lists
\* each of its sections once, and no other: the walk follows every id a node
\* lists without asking whether the section is there (topology.go 84-87, 178-185,
\* 309-325).
Listed(g) ==
    \A n \in NodeIds :
        /\ IsInjective(g.byNode[n])
        /\ Lists(g, n) = {t.id : t \in {t \in Of(g, "section") : n \in {t.from, t.to}}}

Adjacency == Listed(graph)

\* Every switch is stored in a direction that AddPoint takes.
Readable == \A e \in rows : e.kind = "point" => stored[e.id].dir \in Dirs

\* An insert that fails leaves nothing behind, and the rows can be loaded, in
\* whatever order they come (layout_ops.go 28-35, recovery.go 24-79): the graph
\* never has what the store has not, and it is the stored layout for as long as
\* no switch is stored in another direction than N or R.  OperatePoint looks at
\* no direction (cancel_ops.go 131-151), and once one was written that AddPoint
\* refuses, the next process starts with an empty yard over full tables.
GraphIsStore == graph.parts \subseteq rows /\ (Readable => graph.parts = rows)
=============================================================================
