------------------------------ MODULE Topology ------------------------------
(***************************************************************************)
(* topology/route_expand.go: from a layout (a forest of sections with a    *)
(* switch on some nodes) and a request to the path, the points it needs,   *)
(* the flank points and the approach section.                              *)
(***************************************************************************)
EXTENDS Naturals, Sequences, SequencesExt, FiniteSets

CONSTANTS
    Ends,      \* Ends[s] = <<from node, to node>> of section s
    ByNode,    \* ByNode[n]: the sections at node n in the order they were added
    Switch,    \* Switch[p] = [node, heel, normal, reverse] of point p
    Entry,     \* Entry[g]: the node of signal g
    GuardedBy  \* GuardedBy[g]: the section signal g guards

Branches == DOMAIN Switch
Tracks == DOMAIN Ends

Touches(s, n) == n \in {Ends[s][1], Ends[s][2]}
OtherEnd(s, n) == IF Ends[s][1] = n THEN Ends[s][2] ELSE Ends[s][1]

\* reachesTerminal: the terminal can be reached from s without entering a
\* section of `blocked'.
Reaches(s, terminal, blocked) ==
    LET Around(S) == {t \in Tracks \ blocked :
                        \E u \in S : Touches(t, Ends[u][1]) \/ Touches(t, Ends[u][2])}
        Seen[n \in Nat] == IF n = 0 THEN {s} ELSE Seen[n - 1] \cup Around(Seen[n - 1])
    IN  \/ s = terminal
        \/ s \notin blocked /\ terminal \in Seen[Cardinality(Tracks)]

\* One pass of Expand's loop, at section w.at entered from node w.node.
\* `next' is "" when the walk dead-ends.
NextSection(w, terminal) ==
    LET far == OtherEnd(w.at, w.node)
        visited == Range(w.path) \cup {w.at}
        here == {p \in Branches : Switch[p].node = far}
    IN  IF here # {} THEN
            LET x == Switch[CHOOSE p \in here : TRUE]
            IN  IF x.heel # w.at THEN x.heel
                ELSE IF Reaches(x.normal, terminal, visited \cup {x.reverse}) THEN x.normal
                ELSE IF Reaches(x.reverse, terminal, visited \cup {x.normal}) THEN x.reverse
                ELSE ""
        ELSE LET onward == {j \in 1..Len(ByNode[far]) :
                              ByNode[far][j] # w.at /\ Reaches(ByNode[far][j], terminal, visited)}
             IN  IF onward = {} THEN "" ELSE ByNode[far][Min(onward)]

\* The facing point passed on the way to `next', if the far node has one whose
\* heel is the section just walked.  From a leg no requirement is recorded.
FacingReqs(w, next) ==
    LET far == OtherEnd(w.at, w.node)
        here == {p \in Branches : Switch[p].node = far /\ Switch[p].heel = w.at}
    IN  IF here = {} THEN <<>>
        ELSE LET p == CHOOSE p \in here : TRUE
             IN  <<[point |-> p, dir |-> IF next = Switch[p].normal THEN "N" ELSE "R"]>>

Step(w, terminal) ==
    LET next == NextSection(w, terminal) IN
    IF w.status # "walking" THEN w
    ELSE IF w.at = terminal THEN [w EXCEPT !.path = Append(@, w.at), !.status = "arrived"]
    ELSE IF w.at \in Range(w.path) \/ ~Touches(w.at, w.node) \/ next = ""
    THEN [w EXCEPT !.status = "failed"]
    ELSE [at |-> next, node |-> OtherEnd(w.at, w.node), path |-> Append(w.path, w.at),
          points |-> w.points \o FacingReqs(w, next), status |-> "walking"]

Start(g) == [at |-> GuardedBy[g], node |-> Entry[g], path |-> <<>>, points |-> <<>>,
             status |-> "walking"]

\* Each pass adds a section to the path, so it ends within their number.
Walk(g, terminal) ==
    LET Passes == Cardinality(Tracks) + 1
        At[n \in 0..Passes] == IF n = 0 THEN Start(g) ELSE Step(At[n - 1], terminal)
    IN  At[Passes]

\* Where the entry node lists a section other than the guarded one.
Upstream(g) == {j \in 1..Len(ByNode[Entry[g]]) : ByNode[Entry[g]][j] # GuardedBy[g]}

Expands(g, terminal) ==
    Upstream(g) # {} /\ Walk(g, terminal).status = "arrived"

\* Faulty variant: the points walked over are asked for a second time.
FlankReqsAgain(path, points) ==
    LET on == Range(path)
    IN  {[point |-> p, dir |-> IF Switch[p].normal \in on THEN "R" ELSE "N"] :
            p \in {b \in Branches : /\ Switch[b].heel \in on
                                    /\ ~({Switch[b].normal, Switch[b].reverse} \subseteq on)}}

\* A point not walked over whose heel is on the path: set to the leg that is
\* not on the path, and reverse when neither is.
FlankReqs(path, points) ==
    LET on == Range(path)
        required == {q.point : q \in Range(points)}
        away(p) == IF Switch[p].normal \in on THEN "R"
                   ELSE IF Switch[p].reverse \in on THEN "N" ELSE "R"
    IN  {[point |-> p, dir |-> away(p)] :
            p \in {b \in Branches \ required :
                     /\ Switch[b].heel \in on
                     /\ ~({Switch[b].normal, Switch[b].reverse} \subseteq on)}}

Total(path, seconds) ==
    LET Sum[j \in 0..Len(path)] == IF j = 0 THEN 0 ELSE Sum[j - 1] + seconds[path[j]]
    IN  Sum[Len(path)]

\* TransitTime is left to the caller, who gives the seconds of each section.
Expand(g, terminal, seconds) ==
    LET w == Walk(g, terminal)
    IN  [path |-> w.path, points |-> w.points,
         flank |-> FlankReqs(w.path, w.points),
         approach |-> ByNode[Entry[g]][Min(Upstream(g))],
         transit |-> Total(w.path, seconds)]

-----------------------------------------------------------------------------
(* Properties *)

Nodes == {Ends[s][1] : s \in Tracks} \cup {Ends[s][2] : s \in Tracks}
         \cup {Entry[g] : g \in DOMAIN Entry}
Legs(p) == {Switch[p].heel, Switch[p].normal, Switch[p].reverse}
Direction == [point : Branches, dir : {"N", "R"}]

\* What AddSection, AddPoint and AddSignal make sure of (topology.go 58-158).
\* Nobody makes sure that the legs of a switch, or the section a signal guards,
\* lie at its node.
Drawn ==
    /\ IsFiniteSet(Tracks) /\ "" \notin Tracks
    /\ \A s \in Tracks : Ends[s][1] # Ends[s][2]
    /\ \A s, t \in Tracks : Touches(t, Ends[s][1]) /\ Touches(t, Ends[s][2]) => s = t
    /\ \A n \in Nodes : /\ ByNode[n] \in Seq(Tracks)
                        /\ \A j \in 1..Len(ByNode[n]) : Touches(ByNode[n][j], n)
    /\ \A p \in Branches : /\ Legs(p) \subseteq Tracks
                            /\ Switch[p].heel \notin {Switch[p].normal, Switch[p].reverse}
                            /\ Switch[p].normal # Switch[p].reverse
    /\ \A p, q \in Branches : Switch[p].node = Switch[q].node => p = q
    /\ \A g \in DOMAIN Entry : GuardedBy[g] \in Tracks

Meet(s, t) == \E n \in Nodes : Touches(s, n) /\ Touches(t, n)

\* Every leg of a switch lies at its node.
LegsDrawn == \A p \in Branches : \A s \in Legs(p) : Touches(s, Switch[p].node)

\* A section begins where the one before it ends: it meets that one, and lies
\* off the node where that one began.
Onward(path, j, node) ==
    /\ Meet(path[j - 1], path[j])
    /\ IF j = 2 THEN ~Touches(path[j], node)
       ELSE ~\E n \in Nodes : Touches(path[j - 2], n) /\ Touches(path[j - 1], n) /\ Touches(path[j], n)

\* The train goes on and on from the entry node of the signal and never turns.
\* The last section need not lie where a switch says it does.
OneWay(path, node) ==
    /\ Len(path) > 1 => Touches(path[1], node)
    /\ \A j \in 2..Len(path) : j < Len(path) \/ LegsDrawn => Onward(path, j, node)

\* q is asked for because path[j] is the heel of the switch and the section
\* after it is the leg q leads to.
FacedAt(path, j, q) ==
    LET x == Switch[q.point]
    IN  path[j] = x.heel /\ path[j + 1] = IF q.dir = "N" THEN x.normal ELSE x.reverse

\* path[j] ends at p and is its heel.
EndsAtHeel(path, j, p, node) ==
    /\ path[j] = Switch[p].heel /\ Touches(path[j], Switch[p].node)
    /\ IF j = 1 THEN Switch[p].node # node ELSE ~Touches(path[j - 1], Switch[p].node)

\* The facing points of the path are asked for, as they are run over.
FacingAsked(path, points, node) ==
    /\ \A q \in Range(points) : \E j \in 1..Len(path) - 1 : FacedAt(path, j, q)
    /\ \A p \in Branches, j \in 1..Len(path) - 1 :
         EndsAtHeel(path, j, p, node) => \E q \in Range(points) : q.point = p

\* A route leads from the signal to the terminal, over no section twice and in
\* one way; asks for its facing points, and for a point in one direction only; and
\* the train comes from another section than the one it enters.
FitToSet(e, g, terminal) ==
    /\ e.path \in Seq(Tracks) /\ e.points \in Seq(Direction) /\ e.flank \subseteq Direction
    /\ Len(e.path) > 0 /\ e.path[1] = GuardedBy[g] /\ e.path[Len(e.path)] = terminal
    /\ IsInjective(e.path)
    /\ OneWay(e.path, Entry[g])
    /\ FacingAsked(e.path, e.points, Entry[g])
    /\ IsInjective(e.points)
    /\ \A q, r \in Range(e.points) \cup e.flank : q.point = r.point => q = r
    /\ e.approach \in Tracks \ {GuardedBy[g]} /\ Touches(e.approach, Entry[g])

\* Whatever Expand is asked, its walk ends (route_expand.go 60-128), and a route it
\* returns is fit to be set (35-174).
Sound(g, terminal) ==
    /\ Walk(g, terminal).status \in {"arrived", "failed"}
    /\ Expands(g, terminal) => FitToSet(Expand(g, terminal, [s \in Tracks |-> 1]), g, terminal)
=============================================================================
