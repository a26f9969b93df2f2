--------------------------- MODULE TopologyProofs ---------------------------
(***************************************************************************)
(* Route expansion in any graph that can be drawn: the walk ends, and what *)
(* it returns is a way from the signal to the terminal with the points set *)
(* for it.                                                                 *)
(***************************************************************************)
EXTENDS Topology, FiniteSetTheorems, SequenceTheorems, TLAPS

Statuses == {"walking", "arrived", "failed"}

Walks == [at : Tracks, node : Nodes, path : Seq(Tracks), points : Seq(Direction),
          status : Statuses]

-----------------------------------------------------------------------------
(* Smallest sets and least numbers, for arguments by a smallest counterexample *)

\* Among subsets of a finite set there is one that includes no other.
LEMMA SmallestSet ==
    ASSUME NEW E, IsFiniteSet(E), NEW L \in SUBSET SUBSET E, L # {}
    PROVE  \E T \in L : \A U \in L : U \subseteq T => U = T
<1> DEFINE R == StrictSubsetOrdering(E)
<1>1. IsWellFoundedOn(R, SUBSET E)
  BY FS_FiniteSubsetsOfFinite, FS_StrictSubsetOrderingWellFounded
<1>2. PICK T \in L : \A U \in L : <<U, T>> \notin R
  <2> HIDE DEF R
  <2>1. QED
    BY <1>1, WFMin
<1>3. ASSUME NEW U \in L, U \subseteq T PROVE U = T
  BY <1>2, <1>3 DEF StrictSubsetOrdering
<1>4. QED
  BY <1>3

\* A set of numbers has a least one.
LEMMA LeastNumber ==
    ASSUME NEW K \in SUBSET Nat, K # {}
    PROVE  \E m \in K : \A k \in K : m <= k
<1>1. PICK b \in K : TRUE
  OBVIOUS
<1> DEFINE Upto(k) == 0..k
           L == {Upto(k) : k \in {k \in K : k <= b}}
<1>2. IsFiniteSet(0..b)
  BY FS_Interval
<1>3. L # {} /\ L \in SUBSET SUBSET (0..b)
  <2>1. b \in {k \in K : k <= b}
    OBVIOUS
  <2>2. \A k \in {k \in K : k <= b} : Upto(k) \in SUBSET (0..b)
    OBVIOUS
  <2>3. QED
    BY <2>1, <2>2
<1>4. PICK T \in L : \A U \in L : U \subseteq T => U = T
  <2> DEFINE E == 0..b
  <2>1. IsFiniteSet(E) /\ L # {} /\ L \in SUBSET SUBSET E
    BY <1>2, <1>3
  <2> HIDE DEF L, E
  <2>2. QED
    BY <2>1, SmallestSet
<1>5. PICK m \in K : m <= b /\ T = Upto(m)
  OBVIOUS
<1>6. ASSUME NEW k \in K PROVE m <= k
  <2>1. SUFFICES ASSUME k < m PROVE FALSE
    OBVIOUS
  <2>2. Upto(k) \in L /\ Upto(k) \subseteq T
    BY <1>5, <2>1
  <2>3. Upto(k) = Upto(m)
    BY <1>4, <1>5, <2>2
  <2>4. m \in Upto(m)
    OBVIOUS
  <2>5. QED
    BY <2>1, <2>3, <2>4
<1>7. QED
  BY <1>6

\* Of some places in a sequence there is a first.
LEMMA FirstIndex ==
    ASSUME NEW S, NEW list \in Seq(S), NEW J \in SUBSET (1..Len(list)), J # {}
    PROVE  Min(J) \in J
<1>1. Len(list) \in Nat
  BY LenProperties
<1>2. J \in SUBSET Nat
  BY <1>1
<1>3. PICK m \in J : \A k \in J : m <= k
  BY <1>2, LeastNumber
<1>4. QED
  BY <1>3 DEF Min

Steps(N, V) == [1..N -> [V -> V]]

Iterates(f, N, V, b, step) ==
    /\ f \in [0..N -> V]
    /\ f[0] = b
    /\ \A j \in 1..N : f[j] = step[j][f[j - 1]]

\* What a step computes from a value can be computed again and again.
LEMMA Iterated ==
    ASSUME NEW N \in Nat, NEW V, NEW b \in V, NEW step \in Steps(N, V)
    PROVE  \E f : Iterates(f, N, V, b, step)
<1> USE DEF Steps, Iterates
<1> DEFINE Does(n, f) == f \in [0..n -> V] /\ f[0] = b /\ \A j \in 1..n : f[j] = step[j][f[j - 1]]
           Stuck == {n \in 0..N : ~\E f : Does(n, f)}
<1>1. SUFFICES ASSUME Stuck # {} PROVE FALSE
  <2>1. N \in 0..N
    OBVIOUS
  <2>2. PICK f : Does(N, f)
    BY <1>1, <2>1
  <2>3. QED
    BY <2>2
<1>2. PICK m \in Stuck : \A k \in Stuck : m <= k
  <2>1. Stuck \in SUBSET Nat
    OBVIOUS
  <2> HIDE DEF Stuck
  <2>2. QED
    BY <1>1, <2>1, LeastNumber
<1>3. Does(0, [j \in 0..0 |-> b])
  OBVIOUS
<1>4. m # 0 /\ m \in 1..N /\ m - 1 \in 0..N /\ m - 1 \notin Stuck
  <2>1. m # 0
    BY <1>3
  <2>2. m \in 0..N
    OBVIOUS
  <2> HIDE DEF Stuck
  <2>3. QED
    BY <1>2, <2>1, <2>2
<1>5. PICK f : Does(m - 1, f)
  BY <1>4
<1> DEFINE g == [j \in 0..m |-> IF j = m THEN step[m][f[m - 1]] ELSE f[j]]
<1>6. Does(m, g)
  <2>1. f[m - 1] \in V /\ step[m] \in [V -> V]
    BY <1>4, <1>5
  <2>2. g \in [0..m -> V]
    <3>1. ASSUME NEW j \in 0..m PROVE (IF j = m THEN step[m][f[m - 1]] ELSE f[j]) \in V
      BY <1>4, <1>5, <2>1
    <3>2. QED
      BY <3>1
  <2>3. g[0] = b
    BY <1>4, <1>5
  <2>4. ASSUME NEW j \in 1..m PROVE g[j] = step[j][g[j - 1]]
    <3>1. j \in 0..m /\ j - 1 \in 0..m /\ j - 1 # m
      BY <1>4
    <3>2. g[j - 1] = f[j - 1]
      BY <3>1
    <3>3. CASE j = m
      BY <3>1, <3>2, <3>3
    <3>4. CASE j # m
      BY <1>4, <1>5, <3>1, <3>2, <3>4
    <3>5. QED
      BY <3>3, <3>4
  <2>5. QED
    BY <2>2, <2>3, <2>4
<1>7. QED
  BY <1>6

-----------------------------------------------------------------------------
(* Sections and their ends *)

\* Past a section one comes to its other end, and it has only these two.
LEMMA FarEnd ==
    ASSUME Drawn, NEW s \in Tracks, NEW n \in Nodes
    PROVE  /\ OtherEnd(s, n) \in Nodes
           /\ Touches(s, n) => /\ Touches(s, OtherEnd(s, n)) /\ OtherEnd(s, n) # n
                               /\ \A m : Touches(s, m) => m \in {n, OtherEnd(s, n)}
<1>1. Ends[s][1] \in Nodes /\ Ends[s][2] \in Nodes
  BY DEF Nodes
<1>2. Ends[s][1] # Ends[s][2]
  BY DEF Drawn
<1>3. QED
  BY <1>1, <1>2 DEF OtherEnd, Touches

\* Two nodes are joined by one section at most.
LEMMA OneBetween ==
    ASSUME Drawn, NEW s \in Tracks, NEW t \in Tracks, NEW n, NEW m, n # m,
           Touches(s, n), Touches(s, m), Touches(t, n), Touches(t, m)
    PROVE  s = t
<1>1. Touches(t, Ends[s][1]) /\ Touches(t, Ends[s][2])
  BY DEF Touches
<1>2. QED
  BY <1>1 DEF Drawn

-----------------------------------------------------------------------------
(* One pass of the loop *)

\* What comes next is another section than this one; at the end of the section
\* unless a switch there is drawn amiss; and from its heel a leg of the switch.
LEMMA NextFacts ==
    ASSUME Drawn, NEW w \in Walks, NEW terminal, NextSection(w, terminal) # ""
    PROVE  /\ NextSection(w, terminal) \in Tracks \ {w.at}
           /\ LegsDrawn => Touches(NextSection(w, terminal), OtherEnd(w.at, w.node))
           /\ \A p \in Branches :
                Switch[p].node = OtherEnd(w.at, w.node) /\ Switch[p].heel = w.at
                => NextSection(w, terminal) \in {Switch[p].normal, Switch[p].reverse}
<1> DEFINE next == NextSection(w, terminal)
           far == OtherEnd(w.at, w.node)
           visited == Range(w.path) \cup {w.at}
           here == {p \in Branches : Switch[p].node = far}
           onward == {j \in 1..Len(ByNode[far]) :
                        ByNode[far][j] # w.at /\ Reaches(ByNode[far][j], terminal, visited)}
<1>1. far \in Nodes /\ w.at \in Tracks
  BY FarEnd DEF Walks
<1>2. CASE here # {}
  <2> DEFINE b == CHOOSE p \in here : TRUE
             x == Switch[b]
  <2>1. b \in Branches /\ Switch[b].node = far
    BY <1>2
  <2>2. next = IF x.heel # w.at THEN x.heel
               ELSE IF Reaches(x.normal, terminal, visited \cup {x.reverse}) THEN x.normal
               ELSE IF Reaches(x.reverse, terminal, visited \cup {x.normal}) THEN x.reverse
               ELSE ""
    BY <1>2 DEF NextSection
  <2> HIDE DEF next, b, here, visited
  <2>3. \/ x.heel # w.at /\ next = x.heel
        \/ x.heel = w.at /\ next \in {x.normal, x.reverse}
    <3>1. next # ""
      BY DEF next
    <3>2. QED
      BY <2>2, <3>1
  <2>4. /\ x.heel \in Tracks /\ x.normal \in Tracks /\ x.reverse \in Tracks
        /\ x.heel # x.normal /\ x.heel # x.reverse
    BY <2>1 DEF Drawn, Legs
  <2>5. LegsDrawn => Touches(next, far)
    BY <2>1, <2>3 DEF LegsDrawn, Legs
  <2>6. \A p \in Branches : Switch[p].node = far => p = b
    BY <2>1 DEF Drawn
  <2>7. next \in Tracks \ {w.at}
    BY <2>3, <2>4
  <2>8. \A p \in Branches : Switch[p].node = far /\ Switch[p].heel = w.at
                            => next \in {Switch[p].normal, Switch[p].reverse}
    BY <2>3, <2>6
  <2>9. QED
    BY <2>5, <2>7, <2>8 DEF next
<1>3. CASE here = {}
  <2>1. next = IF onward = {} THEN "" ELSE ByNode[far][Min(onward)]
    BY <1>3 DEF NextSection
  <2>2. onward # {} /\ next = ByNode[far][Min(onward)]
    BY <2>1
  <2>3. ByNode[far] \in Seq(Tracks)
    BY <1>1 DEF Drawn
  <2>4. onward \in SUBSET (1..Len(ByNode[far]))
    OBVIOUS
  <2>5. Min(onward) \in onward
    <3> DEFINE list == ByNode[far]
    <3>1. list \in Seq(Tracks) /\ onward \in SUBSET (1..Len(list)) /\ onward # {}
      BY <2>2, <2>3, <2>4
    <3> HIDE DEF onward, list
    <3>2. QED
      BY <3>1, FirstIndex
  <2>6. Min(onward) \in 1..Len(ByNode[far]) /\ ByNode[far][Min(onward)] # w.at
    BY <2>5 DEF onward
  <2>7. ByNode[far] \in Seq(Tracks) /\ \A i \in 1..Len(ByNode[far]) : Touches(ByNode[far][i], far)
    BY <1>1 DEF Drawn
  <2> DEFINE m == Min(onward)
             list == ByNode[far]
  <2>8. next \in Tracks \ {w.at} /\ Touches(next, far)
    <3>1. list \in Seq(Tracks) /\ m \in 1..Len(list) /\ next = list[m] /\ list[m] # w.at
          /\ Touches(list[m], far)
      BY <2>2, <2>6, <2>7
    <3> HIDE DEF next, far, list, m
    <3>2. QED
      BY <3>1, ElementOfSeq
  <2>9. QED
    BY <1>3, <2>8 DEF next, far, here
<1>4. QED
  BY <1>2, <1>3

\* What a pass asks for: the switch at the end of the section if it stands there
\* with its heel, otherwise nothing.
LEMMA FacingFacts ==
    ASSUME Drawn, NEW w \in Walks, NEW next
    PROVE  \/ /\ FacingReqs(w, next) = <<>>
              /\ ~\E p \in Branches : Switch[p].node = OtherEnd(w.at, w.node) /\ Switch[p].heel = w.at
           \/ \E p \in Branches :
                /\ Switch[p].node = OtherEnd(w.at, w.node) /\ Switch[p].heel = w.at
                /\ FacingReqs(w, next) =
                     <<[point |-> p, dir |-> IF next = Switch[p].normal THEN "N" ELSE "R"]>>
<1> DEFINE here == {p \in Branches : Switch[p].node = OtherEnd(w.at, w.node) /\ Switch[p].heel = w.at}
           b == CHOOSE p \in here : TRUE
<1>1. CASE here = {}
  BY <1>1 DEF FacingReqs
<1>2. CASE here # {}
  <2>1. b \in here
    BY <1>2
  <2>2. FacingReqs(w, next) = <<[point |-> b, dir |-> IF next = Switch[b].normal THEN "N" ELSE "R"]>>
    BY <1>2 DEF FacingReqs
  <2> HIDE DEF b
  <2>3. QED
    BY <2>1, <2>2
<1>3. QED
  BY <1>1, <1>2

-----------------------------------------------------------------------------
(* The walk so far, with the section it is about to enter *)

Trail(w) == IF w.status = "walking" THEN Append(w.path, w.at) ELSE w.path

\* The node a walk has come to is the end of the last section of its path, which
\* it entered at m.
Stands(w, node) ==
    /\ w.path = <<>> => w.node = node
    /\ w.path # <<>> =>
         LET last == w.path[Len(w.path)] IN
         /\ \E m \in Nodes :
              /\ m # w.node /\ Touches(last, m) /\ Touches(last, w.node)
              /\ IF Len(w.path) = 1 THEN m = node
                 ELSE /\ Touches(w.path[Len(w.path) - 1], m)
                      /\ ~Touches(w.path[Len(w.path) - 1], w.node)
         /\ w.at # last
         /\ LegsDrawn => Touches(w.at, w.node)

Fit(w, g, terminal) ==
    /\ Trail(w)[1] = GuardedBy[g]
    /\ IsInjective(w.path)
    /\ OneWay(Trail(w), Entry[g])
    /\ FacingAsked(Trail(w), w.points, Entry[g])
    /\ IsInjective(w.points)
    /\ w.status = "walking" => terminal \notin Range(w.path) /\ Stands(w, Entry[g])
    /\ w.status = "arrived" => w.path # <<>> /\ w.path[Len(w.path)] = terminal

\* A sequence and an element more.
LEMMA Longer ==
    ASSUME NEW S, NEW list \in Seq(S), NEW e \in S
    PROVE  /\ Append(list, e) \in Seq(S)
           /\ Len(list) \in Nat /\ Len(Append(list, e)) = Len(list) + 1
           /\ \A j \in 1..Len(list) : Append(list, e)[j] = list[j] /\ list[j] \in S
           /\ Append(list, e)[Len(list) + 1] = e
           /\ list = <<>> <=> Len(list) = 0
           /\ Range(Append(list, e)) = Range(list) \cup {e}
           /\ IsInjective(list) /\ e \notin Range(list) => IsInjective(Append(list, e))
<1> DEFINE more == Append(list, e)
<1>1. /\ more \in Seq(S) /\ Len(list) \in Nat /\ Len(more) = Len(list) + 1
      /\ \A j \in 1..Len(list) : more[j] = list[j] /\ list[j] \in S
      /\ more[Len(list) + 1] = e
      /\ list = <<>> <=> Len(list) = 0
  BY AppendProperties, LenProperties, ElementOfSeq, EmptySeq
<1>2. DOMAIN list = 1..Len(list) /\ DOMAIN more = 1..(Len(list) + 1)
  BY <1>1, LenProperties
<1> HIDE DEF more
<1>3. \A j \in 1..(Len(list) + 1) : j \in 1..Len(list) \/ j = Len(list) + 1
  BY <1>1
<1>4. \A j \in 1..Len(list) : j \in 1..(Len(list) + 1)
  BY <1>1
<1>5. Len(list) + 1 \in 1..(Len(list) + 1)
  BY <1>1
<1>6. Range(more) = Range(list) \cup {e}
  BY <1>1, <1>2, <1>3, <1>4, <1>5, Zenon DEF Range
<1>7. ASSUME IsInjective(list), e \notin Range(list) PROVE IsInjective(more)
  <2>1. \A i \in 1..Len(list) : list[i] # e
    BY <1>2, <1>7 DEF Range
  <2>2. QED
    BY <1>1, <1>2, <1>3, <1>7, <2>1 DEF IsInjective
<1>8. QED
  BY <1>1, <1>6, <1>7 DEF more

\* What a walk does that goes on past w.at.
Moves(w, next) ==
    /\ Touches(w.at, w.node) /\ w.at \notin Range(w.path)
    /\ next \in Tracks \ {w.at}
    /\ LegsDrawn => Touches(next, OtherEnd(w.at, w.node))
    /\ \A p \in Branches :
         Switch[p].node = OtherEnd(w.at, w.node) /\ Switch[p].heel = w.at
         => next \in {Switch[p].normal, Switch[p].reverse}

\* At the far end of a section the walk has come to is neither the section before,
\* nor does the next one lead back.
LEMMA FarFacts ==
    ASSUME Drawn, NEW w \in Walks, NEW next, Moves(w, next), NEW node, Stands(w, node)
    PROVE  /\ OtherEnd(w.at, w.node) \in Nodes /\ OtherEnd(w.at, w.node) # w.node
           /\ Touches(w.at, OtherEnd(w.at, w.node))
           /\ \A m : Touches(w.at, m) => m \in {w.node, OtherEnd(w.at, w.node)}
           /\ w.path # <<>> => ~Touches(w.path[Len(w.path)], OtherEnd(w.at, w.node))
           /\ LegsDrawn => ~Touches(next, w.node)
<1> DEFINE far == OtherEnd(w.at, w.node)
<1>1. w.at \in Tracks /\ w.node \in Nodes /\ w.path \in Seq(Tracks) /\ next \in Tracks
  BY DEF Walks, Moves
<1>2. far \in Nodes /\ Touches(w.at, far) /\ far # w.node
      /\ \A m : Touches(w.at, m) => m \in {w.node, far}
  BY <1>1, FarEnd DEF Moves
<1> HIDE DEF far
<1>3. ASSUME w.path # <<>>, Touches(w.path[Len(w.path)], far) PROVE FALSE
  <2> DEFINE last == w.path[Len(w.path)]
  <2>1. last \in Tracks /\ Touches(last, w.node) /\ w.at # last
    BY <1>1, <1>3, Longer, ElementOfSeq, EmptySeq, LenProperties DEF Stands
  <2>2. last = w.at
    BY <1>1, <1>2, <1>3, <2>1, OneBetween DEF Moves
  <2>3. QED
    BY <2>1, <2>2
<1>4. ASSUME LegsDrawn, Touches(next, w.node) PROVE FALSE
  <2>1. Touches(next, far)
    BY <1>4 DEF Moves, far
  <2>2. next = w.at
    BY <1>1, <1>2, <1>4, <2>1, OneBetween DEF Moves
  <2>3. QED
    BY <2>2 DEF Moves
<1>5. QED
  BY <1>2, <1>3, <1>4 DEF far

\* Whether the path goes on at j depends on the sections up to j.
LEMMA OnwardSame ==
    ASSUME NEW r, NEW q, NEW j \in Nat, j >= 2,
           \A i \in 1..j : q[i] = r[i], NEW node
    PROVE  Onward(q, j, node) <=> Onward(r, j, node)
<1>1. q[j] = r[j] /\ q[j - 1] = r[j - 1]
  <2>1. j \in 1..j /\ j - 1 \in 1..j
    OBVIOUS
  <2>2. QED
    BY <2>1
<1>2. j # 2 => q[j - 2] = r[j - 2]
  <2>1. j # 2 => j - 2 \in 1..j
    OBVIOUS
  <2>2. QED
    BY <2>1
<1>3. QED
  BY <1>1, <1>2 DEF Onward

\* Going on, a walk stays on one way.
LEMMA MoveOneWay ==
    ASSUME Drawn, NEW w \in Walks, NEW next, Moves(w, next), NEW node \in Nodes, Stands(w, node),
           OneWay(Append(w.path, w.at), node)
    PROVE  OneWay(Append(Append(w.path, w.at), next), node)
<1> DEFINE path == w.path
           k == Len(path)
           r == Append(path, w.at)
           q == Append(r, next)
           far == OtherEnd(w.at, w.node)
<1>1. path \in Seq(Tracks) /\ w.at \in Tracks /\ w.node \in Nodes /\ next \in Tracks
      /\ Touches(w.at, w.node) /\ next # w.at
  BY DEF Walks, Moves
<1>2. /\ k \in Nat /\ Len(r) = k + 1 /\ Len(q) = k + 2
      /\ \A j \in 1..k : path[j] \in Tracks /\ r[j] = path[j] /\ q[j] = path[j]
      /\ r[k + 1] = w.at /\ q[k + 1] = w.at /\ q[k + 2] = next
      /\ path = <<>> <=> k = 0
  <2>1. /\ r \in Seq(Tracks) /\ k \in Nat /\ Len(r) = k + 1 /\ r[k + 1] = w.at
        /\ path = <<>> <=> k = 0
        /\ \A j \in 1..k : path[j] \in Tracks /\ r[j] = path[j]
    BY <1>1, Longer
  <2>2. Len(q) = Len(r) + 1 /\ q[Len(r) + 1] = next /\ \A j \in 1..Len(r) : q[j] = r[j]
    BY <1>1, <2>1, Longer
  <2> HIDE DEF r, q, k, path
  <2>3. \A j \in 1..k : j \in 1..Len(r)
    BY <2>1
  <2>4. k + 1 \in 1..Len(r) /\ Len(r) + 1 = k + 2
    BY <2>1
  <2>5. QED
    BY <2>1, <2>2, <2>3, <2>4
<1>3. /\ far \in Nodes /\ far # w.node /\ Touches(w.at, far)
      /\ \A m : Touches(w.at, m) => m \in {w.node, far}
      /\ k # 0 => ~Touches(path[k], far)
      /\ LegsDrawn => ~Touches(next, w.node)
      /\ LegsDrawn => Touches(next, far)
  BY <1>2, FarFacts DEF Moves
<1>4. /\ k = 0 => w.node = node
      /\ k # 0 => /\ \E m \in Nodes :
                       /\ m # w.node /\ Touches(path[k], m) /\ Touches(path[k], w.node)
                       /\ IF k = 1 THEN m = node
                          ELSE Touches(path[k - 1], m) /\ ~Touches(path[k - 1], w.node)
                  /\ w.at # path[k]
  BY <1>2 DEF Stands
<1>5. /\ Len(r) > 1 => Touches(r[1], node)
      /\ \A j \in 2..Len(r) : j < Len(r) \/ LegsDrawn => Onward(r, j, node)
  BY DEF OneWay
<1> HIDE DEF path, k, r, q, far
<1>6. Len(q) > 1 => Touches(q[1], node)
  <2>1. CASE k = 0
    BY <1>1, <1>2, <1>4, <2>1
  <2>2. CASE k # 0
    <3>1. 1 \in 1..k /\ k + 1 > 1
      BY <1>2, <2>2
    <3>2. QED
      BY <1>2, <1>5, <3>1
  <2>3. QED
    BY <2>1, <2>2
<1>7. ASSUME NEW j \in 2..k PROVE Onward(q, j, node)
  <2>1. j \in 2..Len(r) /\ j < Len(r) /\ j \in Nat /\ j >= 2
    BY <1>2
  <2>2. Onward(r, j, node)
    BY <1>5, <2>1
  <2>3. \A i \in 1..j : i \in 1..k
    BY <1>2
  <2>4. \A i \in 1..j : q[i] = r[i]
    BY <1>2, <2>3
  <2>5. QED
    BY <2>1, <2>2, <2>4, OnwardSame
<1>8. ASSUME k # 0 PROVE Onward(q, k + 1, node)
  <2>1. k \in 1..k /\ (k + 1) - 1 = k /\ (k + 1 = 2 <=> k = 1) /\ (k + 1) - 2 = k - 1
        /\ (k # 1 => k - 1 \in 1..k)
    BY <1>2, <1>8
  <2>2. q[k + 1] = w.at /\ q[(k + 1) - 1] = path[k] /\ path[k] \in Tracks
        /\ (k # 1 => q[(k + 1) - 2] = path[k - 1])
    BY <1>2, <2>1
  <2>3. PICK m \in Nodes :
          /\ m # w.node /\ Touches(path[k], m) /\ Touches(path[k], w.node)
          /\ IF k = 1 THEN m = node ELSE Touches(path[k - 1], m) /\ ~Touches(path[k - 1], w.node)
    BY <1>4, <1>8
  <2>4. Meet(path[k], w.at)
    BY <1>1, <2>3 DEF Meet
  <2>5. ~Touches(w.at, m)
    BY <1>1, <1>4, <1>8, <2>2, <2>3, OneBetween
  <2>6. \A n \in Nodes : Touches(path[k], n) => n \in {m, w.node}
    <3>1. m = OtherEnd(path[k], w.node) /\ \A n : Touches(path[k], n) => n \in {w.node, m}
      <4> HIDE DEF k
      <4> DEFINE t == path[k]
      <4>1. t \in Tracks /\ Touches(t, w.node) /\ Touches(t, m) /\ m # w.node
        BY <2>2, <2>3
      <4> HIDE DEF t
      <4>2. m = OtherEnd(t, w.node) /\ \A n : Touches(t, n) => n \in {w.node, m}
        BY <4>1 DEF Touches, OtherEnd
      <4>3. QED
        BY <4>2 DEF t
    <3>2. QED
      BY <3>1
  <2>7. CASE k = 1
    <3>1. k + 1 = 2 /\ m = node
      BY <2>1, <2>3, <2>7
    <3>2. QED
      BY <2>2, <2>4, <2>5, <3>1 DEF Onward
  <2>8. CASE k # 1
    <3>1. k + 1 # 2 /\ ~Touches(path[k - 1], w.node) /\ q[(k + 1) - 2] = path[k - 1]
      BY <2>1, <2>2, <2>3, <2>8
    <3>2. ~\E n \in Nodes : Touches(path[k - 1], n) /\ Touches(path[k], n) /\ Touches(w.at, n)
      BY <2>5, <2>6, <3>1
    <3>3. QED
      BY <2>2, <2>4, <3>1, <3>2 DEF Onward
  <2>9. QED
    BY <2>7, <2>8
<1>9. ASSUME LegsDrawn PROVE Onward(q, k + 2, node)
  <2>1. (k + 2) - 1 = k + 1 /\ (k + 2 = 2 <=> k = 0) /\ (k + 2) - 2 = k /\ (k # 0 => k \in 1..k)
    BY <1>2
  <2>2. q[k + 2] = next /\ q[(k + 2) - 1] = w.at /\ (k # 0 => q[(k + 2) - 2] = path[k])
    BY <1>2, <2>1
  <2>3. Meet(w.at, next)
    BY <1>3, <1>9 DEF Meet
  <2>4. QED
    BY <1>3, <1>4, <1>9, <2>1, <2>2, <2>3 DEF Onward
<1>10. ASSUME NEW j \in 2..Len(q), j < Len(q) \/ LegsDrawn PROVE Onward(q, j, node)
  <2>1. j \in 2..k \/ (j = k + 1 /\ k # 0) \/ (j = k + 2 /\ ~(j < Len(q)))
    BY <1>2
  <2>2. QED
    BY <1>7, <1>8, <1>9, <1>10, <2>1
<1>11. QED
  BY <1>6, <1>10 DEF OneWay, q, r, path

\* It comes to the far end of the section.
LEMMA MoveStands ==
    ASSUME Drawn, NEW w \in Walks, NEW next, Moves(w, next), NEW node, Stands(w, node),
           NEW v \in Walks, v.path = Append(w.path, w.at), v.at = next,
           v.node = OtherEnd(w.at, w.node)
    PROVE  Stands(v, node)
<1> DEFINE k == Len(w.path)
<1>1. w.path \in Seq(Tracks) /\ w.at \in Tracks /\ w.node \in Nodes
  BY DEF Walks
<1>2. /\ k \in Nat /\ Len(v.path) = k + 1 /\ v.path[k + 1] = w.at
      /\ \A j \in 1..k : v.path[j] = w.path[j]
      /\ w.path = <<>> <=> k = 0
  BY <1>1, Longer
<1>3. v.path # <<>> /\ (k + 1 = 1 <=> k = 0) /\ (k + 1) - 1 = k /\ (k # 0 => k \in 1..k)
  <2>1. v.path \in Seq(Tracks)
    BY DEF Walks
  <2>2. Len(v.path) # 0
    BY <1>2
  <2>3. v.path # <<>>
    BY <2>1, <2>2, EmptySeq
  <2> HIDE DEF k
  <2>4. QED
    BY <1>2, <2>3
<1>4. /\ v.node \in Nodes /\ w.node # v.node /\ Touches(w.at, v.node) /\ Touches(w.at, w.node)
      /\ k # 0 => ~Touches(w.path[k], v.node)
      /\ LegsDrawn => Touches(next, v.node)
      /\ next # w.at
  BY <1>2, FarFacts DEF Moves
<1>5. /\ k = 0 => w.node = node
      /\ k # 0 => Touches(w.path[k], w.node)
  BY <1>2 DEF Stands
<1> HIDE DEF k
<1>6. QED
  BY <1>1, <1>2, <1>3, <1>4, <1>5 DEF Stands

\* What a move asks for is asked for once, and it is the facing point it passes.
LEMMA MoveFacing ==
    ASSUME Drawn, NEW w \in Walks, NEW next, Moves(w, next), NEW node, Stands(w, node),
           IsInjective(w.points), FacingAsked(Append(w.path, w.at), w.points, node)
    PROVE  LET asked == w.points \o FacingReqs(w, next) IN
           /\ asked \in Seq(Direction)
           /\ IsInjective(asked)
           /\ FacingAsked(Append(Append(w.path, w.at), next), asked, node)
<1> DEFINE path == w.path
           points == w.points
           k == Len(path)
           r == Append(path, w.at)
           q == Append(r, next)
           far == OtherEnd(w.at, w.node)
           asked == points \o FacingReqs(w, next)
           Here(p) == Switch[p].node = far /\ Switch[p].heel = w.at
           Ask(p) == [point |-> p, dir |-> IF next = Switch[p].normal THEN "N" ELSE "R"]
<1>1. path \in Seq(Tracks) /\ points \in Seq(Direction) /\ w.at \in Tracks /\ w.node \in Nodes
      /\ next \in Tracks /\ w.at \notin Range(path)
  BY DEF Walks, Moves
<1>2. /\ k \in Nat /\ Len(r) = k + 1 /\ Len(q) = k + 2
      /\ \A j \in 1..k : r[j] = path[j] /\ q[j] = path[j] /\ path[j] \in Range(path)
      /\ r[k + 1] = w.at /\ q[k + 1] = w.at /\ q[k + 2] = next
      /\ path = <<>> <=> k = 0
  <2>1. /\ r \in Seq(Tracks) /\ k \in Nat /\ Len(r) = k + 1 /\ r[k + 1] = w.at
        /\ path = <<>> <=> k = 0
        /\ \A j \in 1..k : r[j] = path[j]
    BY <1>1, Longer
  <2>2. Len(q) = Len(r) + 1 /\ q[Len(r) + 1] = next /\ \A j \in 1..Len(r) : q[j] = r[j]
    BY <1>1, <2>1, Longer
  <2>3. \A j \in 1..k : path[j] \in Range(path)
    BY <1>1, LenProperties DEF Range
  <2> HIDE DEF r, q, k, path
  <2>4. \A j \in 1..k : j \in 1..Len(r)
    BY <2>1
  <2>5. k + 1 \in 1..Len(r) /\ Len(r) + 1 = k + 2
    BY <2>1
  <2>6. QED
    BY <2>1, <2>2, <2>3, <2>4, <2>5
<1>3. /\ \A m : Touches(w.at, m) => m \in {w.node, far}
      /\ k = 0 => w.node = node
      /\ k # 0 => Touches(path[k], w.node)
  BY <1>2, FarFacts DEF Stands
<1>4. \A p \in Branches : Here(p) => next \in {Switch[p].normal, Switch[p].reverse}
  BY DEF Moves
<1>5. /\ \A e \in Range(points) : \E j \in 1..(k + 1) - 1 : FacedAt(r, j, e)
      /\ \A p \in Branches, j \in 1..(k + 1) - 1 :
           EndsAtHeel(r, j, p, node) => \E e \in Range(points) : e.point = p
  BY <1>2 DEF FacingAsked
<1>6. \/ asked = points /\ ~\E p \in Branches : Here(p)
      \/ \E p \in Branches : Here(p) /\ asked = Append(points, Ask(p))
  <2>1. CASE FacingReqs(w, next) = <<>> /\ ~\E p \in Branches : Here(p)
    BY <1>1, <2>1, ConcatEmptySeq
  <2>2. ASSUME NEW p \in Branches, Here(p), FacingReqs(w, next) = <<Ask(p)>>
        PROVE  asked = Append(points, Ask(p))
    BY <1>1, <2>2, AppendIsConcat
  <2>3. QED
    BY <2>1, <2>2, FacingFacts
<1> HIDE DEF path, points, k, r, q, far, asked
<1>7. (k + 1) - 1 = k /\ (k + 2) - 1 = k + 1 /\ (\A j \in 1..(k + 1) : j \in 1..k \/ j = k + 1)
      /\ (\A j \in 1..k : j \in 1..(k + 1) /\ j + 1 \in 1..(k + 1) /\ (j # 1 => j - 1 \in 1..k))
      /\ k + 1 \in 1..(k + 1) /\ (k + 1) + 1 = k + 2
  BY <1>2
<1>8. ASSUME NEW j \in 1..k, NEW e, FacedAt(r, j, e) PROVE FacedAt(q, j, e)
  <2>1. q[j] = r[j] /\ q[j + 1] = r[j + 1]
    BY <1>2, <1>7
  <2>2. QED
    BY <1>8, <2>1 DEF FacedAt
<1>9. ASSUME NEW j \in 1..k, NEW p, EndsAtHeel(q, j, p, node) PROVE EndsAtHeel(r, j, p, node)
  <2>1. q[j] = r[j] /\ (j # 1 => q[j - 1] = r[j - 1])
    BY <1>2, <1>7
  <2>2. QED
    BY <1>9, <2>1 DEF EndsAtHeel
<1>10. ASSUME NEW p \in Branches, EndsAtHeel(q, k + 1, p, node) PROVE Here(p)
  <2>1. k + 1 = 1 <=> k = 0
    BY <1>2
  <2>2. Switch[p].heel = w.at /\ Touches(w.at, Switch[p].node) /\ Switch[p].node # w.node
    <3>1. CASE k = 0
      BY <1>2, <1>3, <1>10, <2>1, <3>1 DEF EndsAtHeel
    <3>2. CASE k # 0
      <4>1. q[(k + 1) - 1] = path[k]
        BY <1>2, <1>7, <3>2
      <4>2. QED
        BY <1>2, <1>3, <1>10, <2>1, <3>2, <4>1 DEF EndsAtHeel
    <3>3. QED
      BY <3>1, <3>2
  <2>3. QED
    BY <1>3, <2>2
<1>11. CASE asked = points /\ ~\E p \in Branches : Here(p)
  <2>1. \A e \in Range(asked) : \E j \in 1..Len(q) - 1 : FacedAt(q, j, e)
    BY <1>2, <1>5, <1>7, <1>8, <1>11
  <2>2. \A p \in Branches, j \in 1..Len(q) - 1 :
          EndsAtHeel(q, j, p, node) => \E e \in Range(asked) : e.point = p
    BY <1>2, <1>5, <1>7, <1>9, <1>10, <1>11
  <2>3. QED
    BY <1>1, <1>11, <2>1, <2>2 DEF FacingAsked, asked, points, q, r, path
<1>12. ASSUME NEW p \in Branches, Here(p), asked = Append(points, Ask(p))
       PROVE  /\ asked \in Seq(Direction)
              /\ IsInjective(asked)
              /\ FacingAsked(q, asked, node)
  <2>1. Ask(p) \in Direction /\ Ask(p).point = p
    BY DEF Direction
  <2>2. /\ FacedAt(q, k + 1, Ask(p))
        /\ Switch[p].heel = w.at
    <3>1. q[k + 1] = Switch[p].heel /\ q[(k + 1) + 1] = next
      BY <1>2, <1>7, <1>12
    <3>2. next = IF Ask(p).dir = "N" THEN Switch[p].normal ELSE Switch[p].reverse
      BY <1>4, <1>12
    <3> DEFINE a == Ask(p)
    <3>3. a.point = p
      BY <2>1
    <3>4. FacedAt(q, k + 1, a)
      BY <3>1, <3>2, <3>3 DEF FacedAt
    <3>5. QED
      BY <1>12, <3>4
  <2> DEFINE a == Ask(p)
  <2>3. a \in Direction /\ a.point = p /\ FacedAt(q, k + 1, a) /\ asked = Append(points, a)
    BY <1>12, <2>1, <2>2
  <2> HIDE DEF a
  <2>4. a \notin Range(points)
    <3>1. SUFFICES ASSUME a \in Range(points) PROVE FALSE
      OBVIOUS
    <3>2. PICK j \in 1..k : FacedAt(r, j, a)
      BY <1>5, <1>7, <3>1
    <3>3. r[j] = w.at
      BY <2>2, <2>3, <3>2 DEF FacedAt
    <3>4. QED
      BY <1>1, <1>2, <3>3
  <2>5. asked \in Seq(Direction) /\ Range(asked) = Range(points) \cup {a}
    BY <1>1, <2>3, Longer
  <2>6. IsInjective(asked)
    <3>1. IsInjective(points)
      BY DEF points
    <3>2. QED
      BY <1>1, <2>3, <2>4, <3>1, Longer
  <2>7. \A e \in Range(asked) : \E j \in 1..Len(q) - 1 : FacedAt(q, j, e)
    BY <1>2, <1>5, <1>7, <1>8, <2>3, <2>5
  <2>8. ASSUME NEW b \in Branches, NEW j \in 1..Len(q) - 1, EndsAtHeel(q, j, b, node)
        PROVE  \E e \in Range(asked) : e.point = b
    <3>1. CASE j \in 1..k
      BY <1>5, <1>7, <1>9, <2>5, <2>8, <3>1
    <3>2. CASE j = k + 1
      <4>1. Here(b)
        BY <1>10, <2>8, <3>2
      <4>2. b = p
        BY <1>12, <4>1 DEF Drawn
      <4>3. QED
        BY <2>3, <2>5, <4>2
    <3>3. QED
      BY <1>2, <1>7, <3>1, <3>2
  <2>9. QED
    BY <2>5, <2>6, <2>7, <2>8 DEF FacingAsked
<1>13. QED
  BY <1>6, <1>11, <1>12 DEF asked, q, r, path, points

\* A pass leaves a walk alone, arrives, fails or goes on.
LEMMA StepCases ==
    ASSUME Drawn, NEW w \in Walks, NEW terminal
    PROVE  LET v == Step(w, terminal) IN
           /\ v \in Walks
           /\ \/ w.status # "walking" /\ v = w
              \/ /\ w.status = "walking" /\ w.at = terminal /\ v.status = "arrived"
                 /\ v.path = Append(w.path, w.at) /\ v.points = w.points
              \/ w.status = "walking" /\ v.status = "failed"
              \/ /\ w.status = "walking" /\ v.status = "walking" /\ w.at # terminal
                 /\ Moves(w, v.at)
                 /\ v.path = Append(w.path, w.at) /\ v.node = OtherEnd(w.at, w.node)
                 /\ v.points = w.points \o FacingReqs(w, v.at)
<1> DEFINE next == NextSection(w, terminal)
           v == Step(w, terminal)
           far == OtherEnd(w.at, w.node)
           more == w.points \o FacingReqs(w, next)
           longer == Append(w.path, w.at)
<1>1. w.at \in Tracks /\ w.node \in Nodes /\ w.path \in Seq(Tracks) /\ w.points \in Seq(Direction)
      /\ w.status \in Statuses
  BY DEF Walks
<1>2. longer \in Seq(Tracks)
  BY <1>1, Longer
<1>3. CASE w.status # "walking"
  BY <1>3 DEF Step
<1>4. CASE w.status = "walking" /\ w.at = terminal
  <2>1. v = [w EXCEPT !.path = longer, !.status = "arrived"]
    BY <1>4 DEF Step
  <2> HIDE DEF v, longer
  <2>2. v \in Walks /\ v.status = "arrived" /\ v.path = longer /\ v.points = w.points
    BY <1>2, <2>1 DEF Walks, Statuses
  <2>3. QED
    BY <1>4, <2>2 DEF v, longer
<1>5. CASE w.status = "walking" /\ w.at # terminal
           /\ (w.at \in Range(w.path) \/ ~Touches(w.at, w.node) \/ next = "")
  <2>1. v = [w EXCEPT !.status = "failed"]
    BY <1>5 DEF Step
  <2> HIDE DEF v
  <2>2. v \in Walks /\ v.status = "failed"
    BY <2>1 DEF Walks, Statuses
  <2>3. QED
    BY <1>5, <2>2 DEF v
<1>6. CASE w.status = "walking" /\ w.at # terminal
           /\ ~(w.at \in Range(w.path) \/ ~Touches(w.at, w.node) \/ next = "")
  <2>1. v = [at |-> next, node |-> far, path |-> longer, points |-> more, status |-> "walking"]
    BY <1>6 DEF Step
  <2>2. Moves(w, next)
    BY <1>6, NextFacts DEF Moves
  <2>3. next \in Tracks /\ far \in Nodes
    BY <1>1, <2>2, FarEnd DEF Moves
  <2>4. more \in Seq(Direction)
    <3>1. CASE FacingReqs(w, next) = <<>>
      BY <1>1, <3>1, ConcatEmptySeq
    <3>2. ASSUME NEW p \in Branches,
                 FacingReqs(w, next) = <<[point |-> p, dir |-> IF next = Switch[p].normal THEN "N" ELSE "R"]>>
          PROVE  more \in Seq(Direction)
      <4> DEFINE e == [point |-> p, dir |-> IF next = Switch[p].normal THEN "N" ELSE "R"]
      <4>1. e \in Direction /\ FacingReqs(w, next) = <<e>>
        BY <3>2 DEF Direction
      <4> HIDE DEF e
      <4>2. <<e>> \in Seq(Direction)
        BY <4>1
      <4>3. QED
        BY <1>1, <4>1, <4>2, ConcatProperties
    <3>3. QED
      BY <3>1, <3>2, FacingFacts
  <2> HIDE DEF next, far, longer, more, v
  <2>5. v \in Walks
    BY <1>2, <2>1, <2>3, <2>4 DEF Walks, Statuses
  <2>6. /\ v.status = "walking" /\ v.at = next /\ v.path = longer /\ v.node = far
        /\ v.points = more
    BY <2>1
  <2>7. QED
    BY <1>6, <2>2, <2>5, <2>6 DEF next, far, longer, more, v
<1>7. QED
  BY <1>3, <1>4, <1>5, <1>6

\* A walk is fit at the start.
LEMMA StartFits ==
    ASSUME Drawn, NEW g \in DOMAIN Entry, NEW terminal
    PROVE  Start(g) \in Walks /\ Fit(Start(g), g, terminal) /\ Len(Start(g).path) = 0
<1> DEFINE s == Start(g)
           none == <<>>
           r == Append(none, GuardedBy[g])
<1>1. GuardedBy[g] \in Tracks /\ Entry[g] \in Nodes
  BY DEF Drawn, Nodes
<1>2. none \in Seq(Tracks) /\ none \in Seq(Direction) /\ Len(none) = 0
  BY EmptySeq
<1>3. /\ s.at = GuardedBy[g] /\ s.node = Entry[g] /\ s.path = none /\ s.points = none
      /\ s.status = "walking"
  BY DEF Start
<1>4. s \in Walks
  <2> HIDE DEF none
  <2>1. QED
    BY <1>1, <1>2 DEF Start, Walks, Statuses, none
<1>5. Len(r) = 1 /\ r[1] = GuardedBy[g]
  <2> HIDE DEF none
  <2>1. Len(r) = Len(none) + 1 /\ r[Len(none) + 1] = GuardedBy[g]
    BY <1>1, <1>2, Longer
  <2>2. QED
    BY <1>2, <2>1
<1>6. Range(none) = {} /\ IsInjective(none)
  BY DEF Range, IsInjective
<1>7. Trail(s) = r
  BY <1>3 DEF Trail
<1> HIDE DEF s, none, r
<1>8. OneWay(r, Entry[g])
  BY <1>5 DEF OneWay
<1>9. FacingAsked(r, none, Entry[g])
  <2>1. 1..Len(r) - 1 = {}
    BY <1>5
  <2>2. QED
    BY <1>6, <2>1 DEF FacingAsked
<1>10. Stands(s, Entry[g])
  BY <1>3 DEF Stands, none
<1>11. QED
  BY <1>2, <1>3, <1>4, <1>5, <1>6, <1>7, <1>8, <1>9, <1>10 DEF Fit, s

\* A pass keeps a walk fit.
LEMMA StepFits ==
    ASSUME Drawn, NEW g \in DOMAIN Entry, NEW terminal, NEW w \in Walks, Fit(w, g, terminal),
           Step(w, terminal).status # "failed"
    PROVE  Fit(Step(w, terminal), g, terminal)
<1> DEFINE v == Step(w, terminal)
           r == Append(w.path, w.at)
<1>1. v \in Walks /\ w.at \in Tracks /\ w.path \in Seq(Tracks) /\ w.points \in Seq(Direction)
  BY StepCases DEF Walks
<1>2. CASE w.status # "walking"
  <2>1. v = w
    BY <1>2 DEF Step
  <2>2. QED
    BY <2>1
<1>3. CASE /\ w.status = "walking" /\ w.at = terminal /\ v.status = "arrived"
           /\ v.path = r /\ v.points = w.points
  <2>1. Trail(w) = r /\ Trail(v) = r
    BY <1>3 DEF Trail
  <2>2. IsInjective(r)
    BY <1>1, <1>3, Longer DEF Fit
  <2>3. r # <<>> /\ r[Len(r)] = terminal
    <3>1. r \in Seq(Tracks) /\ Len(w.path) \in Nat /\ Len(r) = Len(w.path) + 1 /\ r[Len(w.path) + 1] = w.at
      BY <1>1, Longer
    <3>2. Len(r) # 0
      BY <3>1
    <3>3. QED
      BY <1>3, <3>1, <3>2, EmptySeq
  <2> HIDE DEF v, r
  <2>4. v.path = r /\ v.points = w.points /\ v.status = "arrived"
    BY <1>3
  <2>5. /\ w.status = "walking" /\ Fit(w, g, terminal)
    BY <1>3
  <2>6. Fit(v, g, terminal)
    BY <2>1, <2>2, <2>3, <2>4, <2>5 DEF Fit
  <2>7. QED
    BY <2>6 DEF v
<1>4. CASE /\ w.status = "walking" /\ v.status = "walking" /\ w.at # terminal
           /\ Moves(w, v.at)
           /\ v.path = r /\ v.node = OtherEnd(w.at, w.node)
           /\ v.points = w.points \o FacingReqs(w, v.at)
  <2> DEFINE q == Append(r, v.at)
  <2>1. Trail(w) = r /\ Trail(v) = q
    BY <1>4 DEF Trail
  <2>2. /\ r[1] = GuardedBy[g] /\ IsInjective(w.path) /\ OneWay(r, Entry[g])
        /\ FacingAsked(r, w.points, Entry[g]) /\ IsInjective(w.points)
        /\ terminal \notin Range(w.path) /\ Stands(w, Entry[g])
    BY <1>4, <2>1 DEF Fit
  <2>3. Entry[g] \in Nodes
    BY DEF Nodes
  <2>4. OneWay(q, Entry[g])
    BY <1>4, <2>2, <2>3, MoveOneWay
  <2>5. FacingAsked(q, v.points, Entry[g]) /\ IsInjective(v.points)
    BY <1>4, <2>2, MoveFacing
  <2>6. Stands(v, Entry[g])
    BY <1>1, <1>4, <2>2, MoveStands
  <2>7. IsInjective(r) /\ terminal \notin Range(r)
    BY <1>1, <1>4, <2>2, Longer DEF Moves
  <2>8. q[1] = GuardedBy[g]
    <3>1. /\ r \in Seq(Tracks) /\ Len(w.path) \in Nat /\ Len(r) = Len(w.path) + 1
      BY <1>1, Longer
    <3>2. 1 \in 1..Len(r) /\ v.at \in Tracks
      BY <1>1, <3>1 DEF Walks
    <3>3. QED
      BY <2>2, <3>1, <3>2, Longer
  <2> HIDE DEF v, r, q
  <2>9. v.path = r /\ v.status = "walking"
    BY <1>4
  <2>10. Fit(v, g, terminal)
    BY <2>1, <2>4, <2>5, <2>6, <2>7, <2>8, <2>9 DEF Fit
  <2>11. QED
    BY <2>10 DEF v
<1>5. \/ w.status # "walking"
      \/ /\ w.status = "walking" /\ w.at = terminal /\ v.status = "arrived"
         /\ v.path = r /\ v.points = w.points
      \/ /\ w.status = "walking" /\ v.status = "walking" /\ w.at # terminal
         /\ Moves(w, v.at)
         /\ v.path = r /\ v.node = OtherEnd(w.at, w.node)
         /\ v.points = w.points \o FacingReqs(w, v.at)
  BY StepCases
<1>6. QED
  BY <1>2, <1>3, <1>4, <1>5

-----------------------------------------------------------------------------
(* The whole walk *)

\* No section is passed twice, so there are no more of them than the yard has.
LEMMA PathIsShort ==
    ASSUME Drawn, NEW path \in Seq(Tracks), IsInjective(path)
    PROVE  Len(path) <= Cardinality(Tracks)
<1>1. Len(path) \in Nat /\ path \in [1..Len(path) -> Tracks]
  BY LenProperties
<1>2. path \in Injection(1..Len(path), Tracks)
  BY <1>1 DEF Injection
<1>3. IsFiniteSet(Tracks)
  BY DEF Drawn
<1>4. Cardinality(1..Len(path)) <= Cardinality(Tracks)
  <2> DEFINE I == 1..Len(path)
  <2>1. path \in Injection(I, Tracks)
    BY <1>2
  <2> HIDE DEF I
  <2>2. Cardinality(I) <= Cardinality(Tracks)
    BY <1>3, <2>1, FS_Injection
  <2>3. QED
    BY <2>2 DEF I
<1>5. Cardinality(1..Len(path)) = Len(path)
  <2>1. 1 \in Int /\ Len(path) \in Int /\ (1 > Len(path) => Len(path) = 0) /\ Len(path) - 1 + 1 = Len(path)
    BY <1>1
  <2>2. Cardinality(1..Len(path)) = IF 1 > Len(path) THEN 0 ELSE Len(path) - 1 + 1
    BY <2>1, FS_Interval
  <2>3. QED
    BY <2>1, <2>2
<1>6. QED
  BY <1>4, <1>5

\* The walk ends in one of the two ways, and fit if it arrives.
LEMMA WalkEnds ==
    ASSUME Drawn, NEW g \in DOMAIN Entry, NEW terminal
    PROVE  /\ Walk(g, terminal) \in Walks
           /\ Walk(g, terminal).status \in {"arrived", "failed"}
           /\ Walk(g, terminal).status = "arrived" => Fit(Walk(g, terminal), g, terminal)
<1> DEFINE N == Cardinality(Tracks) + 1
           V == Walks
           first == Start(g)
           At == CHOOSE f : f = [n \in 0..N |-> IF n = 0 THEN Start(g) ELSE Step(f[n - 1], terminal)]
           step == [j \in 1..N |-> [w \in V |-> Step(w, terminal)]]
<1>1. Cardinality(Tracks) \in Nat /\ N \in Nat
  <2>1. IsFiniteSet(Tracks)
    BY DEF Drawn
  <2>2. Cardinality(Tracks) \in Nat
    BY <2>1, FS_CardinalityType
  <2>3. QED
    BY <2>2
<1>2. PICK f : Iterates(f, N, V, first, step)
  <2>1. \A w \in V : Step(w, terminal) \in V
    BY StepCases
  <2>2. first \in V /\ step \in Steps(N, V)
    BY <2>1, StartFits DEF Steps
  <2> HIDE DEF N, V, first, step
  <2>3. QED
    BY <1>1, <2>2, Iterated
<1>3. f = [n \in 0..N |-> IF n = 0 THEN Start(g) ELSE Step(f[n - 1], terminal)]
  <2>1. f \in [0..N -> V] /\ f[0] = Start(g) /\ \A j \in 1..N : f[j] = step[j][f[j - 1]]
    BY <1>2 DEF Iterates
  <2>2. ASSUME NEW j \in 1..N PROVE f[j] = Step(f[j - 1], terminal)
    <3>1. j - 1 \in 0..N
      BY <1>1
    <3>2. f[j - 1] \in V
      BY <2>1, <3>1
    <3> HIDE DEF V, N
    <3>3. QED
      BY <2>1, <3>2
  <2>3. \A j \in 0..N : j = 0 \/ j \in 1..N
    BY <1>1
  <2> HIDE DEF V, N
  <2>4. QED
    BY <2>1, <2>2, <2>3
<1>4. At = [n \in 0..N |-> IF n = 0 THEN Start(g) ELSE Step(At[n - 1], terminal)]
  BY <1>3
<1>5. Walk(g, terminal) = At[N]
  BY DEF Walk
<1> HIDE DEF At, step
<1>6. At[0] = Start(g) /\ \A j \in 1..N : At[j] = Step(At[j - 1], terminal)
  <2>1. 0 \in 0..N /\ \A j \in 1..N : j \in 0..N /\ j # 0
    BY <1>1
  <2> HIDE DEF N
  <2>2. QED
    BY <1>4, <2>1
<1> DEFINE Fine(n) == /\ At[n] \in Walks
                      /\ At[n].status # "failed" => Fit(At[n], g, terminal)
                      /\ At[n].status = "walking" => Len(At[n].path) = n
           Bad == {n \in 0..N : ~Fine(n)}
<1>7. Fine(0)
  BY <1>6, StartFits
<1>8. ASSUME NEW n \in 1..N, Fine(n - 1) PROVE Fine(n)
  <2> DEFINE w == At[n - 1]
             v == At[n]
  <2>1. /\ v = Step(w, terminal) /\ w \in Walks
        /\ w.status # "failed" => Fit(w, g, terminal)
        /\ w.status = "walking" => Len(w.path) = n - 1
    BY <1>6, <1>8
  <2> HIDE DEF w, v
  <2>2. v \in Walks
    BY <2>1, StepCases
  <2>3. \/ w.status # "walking" /\ v = w
        \/ w.status = "walking" /\ v.status = "arrived"
        \/ w.status = "walking" /\ v.status = "failed"
        \/ w.status = "walking" /\ v.status = "walking" /\ v.path = Append(w.path, w.at)
    BY <2>1, StepCases
  <2>4. v.status # "failed" => w.status # "failed"
    BY <2>3
  <2>5. v.status # "failed" => Fit(v, g, terminal)
    BY <2>1, <2>4, StepFits
  <2>6. v.status = "walking" => Len(v.path) = n
    <3>1. SUFFICES ASSUME v.status = "walking" PROVE Len(v.path) = n
      OBVIOUS
    <3>2. w.status = "walking" /\ v.path = Append(w.path, w.at)
      BY <2>3, <3>1
    <3>3. w.path \in Seq(Tracks) /\ w.at \in Tracks
      BY <2>1 DEF Walks
    <3>4. Len(w.path) = n - 1 /\ Len(v.path) = Len(w.path) + 1
      BY <2>1, <3>2, <3>3, Longer
    <3>5. n \in Int
      BY <1>1
    <3>6. QED
      BY <3>4, <3>5
  <2>7. QED
    BY <2>2, <2>5, <2>6 DEF v
<1>9. Fine(N)
  <2>1. SUFFICES ASSUME ~Fine(N) PROVE FALSE
    OBVIOUS
  <2> HIDE DEF Fine, N
  <2>2. Bad \in SUBSET Nat /\ N \in Bad
    BY <1>1, <2>1
  <2>3. PICK m \in Bad : \A i \in Bad : m <= i
    <3> HIDE DEF Bad
    <3>1. QED
      BY <2>2, LeastNumber
  <2>4. m \in 0..N /\ ~Fine(m)
    OBVIOUS
  <2>5. m # 0
    BY <1>7, <2>4
  <2>6. m \in 1..N /\ m - 1 \in 0..N /\ ~(m <= m - 1)
    BY <1>1, <2>4, <2>5
  <2>7. Fine(m - 1)
    BY <2>3, <2>6
  <2>8. QED
    BY <1>8, <2>4, <2>6, <2>7
<1>10. At[N].status # "walking"
  <2> DEFINE w == At[N]
  <2>1. SUFFICES ASSUME w.status = "walking" PROVE FALSE
    OBVIOUS
  <2>2. w \in Walks /\ Fit(w, g, terminal) /\ Len(w.path) = N
    BY <1>9, <2>1
  <2>3. w.path \in Seq(Tracks) /\ IsInjective(w.path)
    BY <2>2 DEF Walks, Fit
  <2>4. Len(w.path) <= Cardinality(Tracks)
    BY <2>3, PathIsShort
  <2> HIDE DEF w
  <2>5. QED
    BY <1>1, <2>2, <2>4
<1>11. At[N] \in Walks /\ At[N].status \in Statuses
  BY <1>9 DEF Walks
<1>12. At[N].status = "arrived" => Fit(At[N], g, terminal)
  BY <1>9
<1> HIDE DEF Fine, N
<1>13. QED
  BY <1>5, <1>10, <1>11, <1>12 DEF Statuses

\* A section that is passed on the way is passed once: so a point asked for is asked
\* for in one direction.
LEMMA OneAskEach ==
    ASSUME Drawn, NEW path \in Seq(Tracks), NEW points \in Seq(Direction), NEW node,
           IsInjective(path), FacingAsked(path, points, node),
           NEW q \in Range(points), NEW r \in Range(points), q.point = r.point
    PROVE  q = r
<1>1. Len(path) \in Nat /\ DOMAIN path = 1..Len(path)
  BY LenProperties
<1>2. PICK i \in 1..Len(path) - 1 : FacedAt(path, i, q)
  BY DEF FacingAsked
<1>3. PICK j \in 1..Len(path) - 1 : FacedAt(path, j, r)
  BY DEF FacingAsked
<1>4. i \in DOMAIN path /\ j \in DOMAIN path
  BY <1>1
<1>5. i = j
  BY <1>2, <1>3, <1>4 DEF IsInjective, FacedAt
<1>6. q \in Direction /\ r \in Direction
  BY LenProperties, ElementOfSeq DEF Range
<1>7. Switch[q.point].normal # Switch[q.point].reverse
  BY <1>6 DEF Drawn, Direction
<1>8. q.dir = "N" <=> r.dir = "N"
  BY <1>2, <1>3, <1>5, <1>7 DEF FacedAt
<1>9. q.dir = r.dir
  BY <1>6, <1>8 DEF Direction
<1>10. QED
  BY <1>6, <1>9 DEF Direction

\* Seconds add up to seconds.
LEMMA TotalType ==
    ASSUME NEW path \in Seq(Tracks), NEW seconds \in [Tracks -> Nat]
    PROVE  Total(path, seconds) \in Nat
<1> DEFINE N == Len(path)
           V == Nat
           zero == 0
           Sum == CHOOSE f : f = [j \in 0..Len(path) |-> IF j = 0 THEN 0 ELSE f[j - 1] + seconds[path[j]]]
           step == [j \in 1..N |-> [x \in V |-> x + seconds[path[j]]]]
<1>1. N \in Nat /\ \A j \in 1..N : seconds[path[j]] \in Nat
  BY LenProperties, ElementOfSeq
<1>2. PICK f : Iterates(f, N, V, zero, step)
  <2>1. zero \in V /\ step \in Steps(N, V)
    BY <1>1 DEF Steps
  <2> HIDE DEF N, V, zero, step
  <2>2. QED
    BY <1>1, <2>1, Iterated
<1> DEFINE P(j) == seconds[path[j]]
<1>3. f \in [0..N -> Nat] /\ f[0] = 0 /\ \A j \in 1..N : f[j] = f[j - 1] + P(j)
  <2>1. f \in [0..N -> V] /\ f[0] = zero /\ \A j \in 1..N : f[j] = step[j][f[j - 1]]
    BY <1>2 DEF Iterates
  <2>2. ASSUME NEW j \in 1..N PROVE f[j] = f[j - 1] + P(j)
    <3>1. j - 1 \in 0..N
      BY <1>1
    <3>2. f[j - 1] \in Nat
      BY <2>1, <3>1
    <3> HIDE DEF N, P
    <3>3. QED
      BY <2>1, <3>2 DEF P
  <2>3. QED
    BY <2>1, <2>2
<1>4. f = [j \in 0..Len(path) |-> IF j = 0 THEN 0 ELSE f[j - 1] + seconds[path[j]]]
  <2>1. \A j \in 0..N : j = 0 \/ j \in 1..N
    BY <1>1
  <2>2. QED
    BY <1>3, <2>1
<1>5. Sum = [j \in 0..Len(path) |-> IF j = 0 THEN 0 ELSE Sum[j - 1] + seconds[path[j]]]
  BY <1>4
<1>6. Total(path, seconds) = Sum[N]
  BY DEF Total
<1> HIDE DEF Sum, step
<1>7. Sum[0] = 0 /\ \A j \in 1..N : Sum[j] = Sum[j - 1] + P(j)
  <2>1. 0 \in 0..N /\ \A j \in 1..N : j \in 0..N /\ j # 0
    BY <1>1
  <2>2. QED
    BY <1>5, <2>1
<1>8. \A j \in 1..N : P(j) \in Nat
  BY <1>1
<1> HIDE DEF P, N
<1> DEFINE Bad == {j \in 0..N : Sum[j] \notin Nat}
<1>9. SUFFICES ASSUME Sum[N] \notin Nat PROVE FALSE
  BY <1>6
<1>10. Bad \in SUBSET Nat /\ N \in Bad
  BY <1>1, <1>9
<1>11. PICK m \in Bad : \A i \in Bad : m <= i
  <2> HIDE DEF Bad
  <2>1. QED
    BY <1>10, LeastNumber
<1>12. m \in 1..N /\ m - 1 \in 0..N /\ ~(m <= m - 1)
  BY <1>1, <1>7, <1>11
<1>13. Sum[m - 1] \in Nat
  BY <1>11, <1>12
<1>14. QED
  BY <1>7, <1>8, <1>11, <1>12, <1>13

\* What Expand returns when it returns anything, whatever the seconds are.
LEMMA ExpandFacts ==
    ASSUME Drawn, NEW g \in DOMAIN Entry, NEW terminal, Expands(g, terminal), NEW seconds
    PROVE  LET e == Expand(g, terminal, seconds) IN
           /\ FitToSet(e, g, terminal)
           /\ e.transit = Total(e.path, seconds)
<1> DEFINE w == Walk(g, terminal)
           e == Expand(g, terminal, seconds)
           list == ByNode[Entry[g]]
           J == Upstream(g)
<1>1. w \in Walks /\ w.status = "arrived" /\ Fit(w, g, terminal)
  BY WalkEnds DEF Expands
<1>2. /\ e.path = w.path /\ e.points = w.points /\ e.flank = FlankReqs(w.path, w.points)
      /\ e.approach = list[Min(J)] /\ e.transit = Total(w.path, seconds)
  BY DEF Expand
<1> HIDE DEF w, e
<1>3. w.path \in Seq(Tracks) /\ w.points \in Seq(Direction)
  BY <1>1 DEF Walks
<1>4. /\ w.path[1] = GuardedBy[g] /\ w.path[Len(w.path)] = terminal /\ w.path # <<>>
      /\ IsInjective(w.path) /\ OneWay(w.path, Entry[g])
      /\ FacingAsked(w.path, w.points, Entry[g]) /\ IsInjective(w.points)
  BY <1>1 DEF Fit, Trail
<1>5. Len(w.path) > 0
  <2>1. Len(w.path) \in Nat /\ Len(w.path) # 0
    BY <1>3, <1>4, EmptySeq, LenProperties
  <2>2. QED
    BY <2>1
<1>6. ASSUME NEW f \in e.flank
      PROVE  f \in Direction /\ \A q \in Range(w.points) : q.point # f.point
  BY <1>2, <1>6 DEF FlankReqs, Direction
<1>7. ASSUME NEW f \in e.flank, NEW h \in e.flank, f.point = h.point PROVE f = h
  BY <1>2, <1>7 DEF FlankReqs
<1>8. ASSUME NEW q \in Range(w.points), NEW r \in Range(w.points), q.point = r.point PROVE q = r
  BY <1>3, <1>4, <1>8, OneAskEach
<1>9. \A q, r \in Range(w.points) \cup e.flank : q.point = r.point => q = r
  BY <1>6, <1>7, <1>8
<1>10. list[Min(J)] \in Tracks \ {GuardedBy[g]} /\ Touches(list[Min(J)], Entry[g])
  <2>1. list \in Seq(Tracks) /\ \A j \in 1..Len(list) : Touches(list[j], Entry[g])
    BY DEF Drawn, Nodes
  <2>2. J \in SUBSET (1..Len(list)) /\ J # {} /\ \A j \in J : list[j] # GuardedBy[g]
    BY DEF Upstream, Expands
  <2> HIDE DEF list, J
  <2>3. Min(J) \in J
    BY <2>1, <2>2, FirstIndex
  <2> DEFINE m == Min(J)
  <2>4. m \in J /\ m \in 1..Len(list)
    BY <2>2, <2>3
  <2> HIDE DEF m
  <2>5. list[m] \in Tracks /\ list[m] # GuardedBy[g] /\ Touches(list[m], Entry[g])
    BY <2>1, <2>2, <2>4, ElementOfSeq
  <2>6. QED
    BY <2>5 DEF m
<1>11. QED
  BY <1>2, <1>3, <1>4, <1>5, <1>6, <1>9, <1>10 DEF e, FitToSet

\* Whatever Expand is asked, in any graph that can be drawn, it ends, and what it
\* returns is sound (route_expand.go 35-174).
THEOREM ExpandIsSound ==
    ASSUME Drawn, NEW g \in DOMAIN Entry, NEW terminal
    PROVE  Sound(g, terminal)
<1>1. Walk(g, terminal).status \in {"arrived", "failed"}
  BY WalkEnds
<1>2. QED
  BY <1>1, ExpandFacts DEF Sound

\* A result of Expand is what ExpandAssumption of Yard takes it to be, conjunct
\* by conjunct, so the theorems about the engine hold for the routes the code
\* computes (route_expand.go 10-174).
THEOREM ExpandKeepsAssumption ==
    ASSUME Drawn, NEW g \in DOMAIN Entry, NEW terminal, Expands(g, terminal),
           NEW seconds \in [Tracks -> Nat]
    PROVE  LET e == Expand(g, terminal, seconds)
               path == e.path
               reqs == {e.points[j] : j \in 1..Len(e.points)} \cup e.flank
           IN  /\ path \in Seq(Tracks)
               /\ Len(path) > 0
               /\ path[1] = GuardedBy[g]
               /\ \A m, n \in 1..Len(path) : path[m] = path[n] => m = n
               /\ e.points \in Seq(Direction)
               /\ e.flank \subseteq Direction
               /\ \A q, r \in reqs : q.point = r.point => q = r
               /\ e.approach \in Tracks \ {path[1]}
               /\ e.transit \in Nat
<1> DEFINE e == Expand(g, terminal, seconds)
<1>1. /\ e.path \in Seq(Tracks) /\ e.points \in Seq(Direction) /\ e.flank \subseteq Direction
      /\ Len(e.path) > 0 /\ e.path[1] = GuardedBy[g]
      /\ IsInjective(e.path)
      /\ \A q, r \in Range(e.points) \cup e.flank : q.point = r.point => q = r
      /\ e.approach \in Tracks \ {GuardedBy[g]}
      /\ e.transit = Total(e.path, seconds)
  BY ExpandFacts DEF FitToSet
<1> HIDE DEF e
<1>2. DOMAIN e.path = 1..Len(e.path) /\ DOMAIN e.points = 1..Len(e.points)
  BY <1>1, LenProperties
<1>3. \A m, n \in 1..Len(e.path) : e.path[m] = e.path[n] => m = n
  BY <1>1, <1>2 DEF IsInjective
<1>4. Range(e.points) = {e.points[j] : j \in 1..Len(e.points)}
  BY <1>2 DEF Range
<1>5. e.transit \in Nat
  BY <1>1, TotalType
<1>6. QED
  BY <1>1, <1>3, <1>4, <1>5 DEF e

=============================================================================
