---------------------------- MODULE LayoutProofs -----------------------------
(***************************************************************************)
(* Building a yard of any size: whatever is refused, rolled back, reset or *)
(* reloaded, the graph is a forest without dangling references, and it is  *)
(* the stored one until a switch is stored in a direction no one can load. *)
(***************************************************************************)
EXTENDS LayoutRoutes, FiniteSetTheorems, SequenceTheorems, TLAPS

Elements == Nodes \cup Tracks \cup Switches \cup Heads

Graphs == [parts : SUBSET Elements, byNode : [NodeIds -> Seq(SectionIds)]]

\* Route expansion in the graph of the layout, and the general lemmas proved there.
Expansion == INSTANCE TopologyProofs WITH
    Ends <- SectionEnds, ByNode <- graph.byNode, Switch <- PointLegs,
    Entry <- EntryNodes, GuardedBy <- GuardedSections

LEMMA FiniteSame == \A S : Expansion!IsFiniteSet(S) <=> IsFiniteSet(S)
BY DEF Expansion!IsFiniteSet, IsFiniteSet

-----------------------------------------------------------------------------
(* The list of a node *)

\* Taking the id out that was just appended gives the old list.
LEMMA DroppedLast ==
    ASSUME NEW list \in Seq(SectionIds), NEW id \in SectionIds,
           \A j \in 1..Len(list) : list[j] # id
    PROVE  Dropped(Append(list, id), id) = list
<1> DEFINE long == Append(list, id)
           N == Len(list)
           V == Seq(SectionIds)
           Kept == CHOOSE f : f = [j \in 0..Len(long) |->
                       IF j = 0 THEN <<>>
                       ELSE IF long[j] = id THEN f[j - 1] ELSE Append(f[j - 1], long[j])]
           step == [j \in 1..(N + 1) |-> [q \in V |-> IF long[j] = id THEN q ELSE Append(q, long[j])]]
<1>1. /\ long \in V /\ Len(long) = N + 1 /\ N \in Nat /\ long[N + 1] = id
      /\ \A j \in 1..N : long[j] = list[j] /\ long[j] # id
      /\ \A j \in 1..(N + 1) : long[j] \in SectionIds
  BY AppendProperties, LenProperties, ElementOfSeq
<1> HIDE DEF long, N
<1>2. step \in [1..(N + 1) -> [V -> V]]
  <2>1. \A j \in 1..(N + 1), q \in V : Append(q, long[j]) \in V
    BY <1>1, AppendProperties
  <2>2. QED
    BY <2>1
<1>3. PICK f \in [0..(N + 1) -> V] : f[0] = <<>> /\ \A j \in 1..(N + 1) : f[j] = step[j][f[j - 1]]
  <2> DEFINE M == N + 1
             none == <<>>
  <2>1. M \in Nat /\ none \in V /\ step \in Expansion!Steps(M, V)
    BY <1>1, <1>2, EmptySeq DEF Expansion!Steps
  <2> HIDE DEF step, V, M, none
  <2>2. \E f : Expansion!Iterates(f, M, V, none, step)
    BY <2>1, Expansion!Iterated
  <2>3. QED
    BY <2>2 DEF Expansion!Iterates, M, none
<1>4. f = [j \in 0..Len(long) |->
              IF j = 0 THEN <<>>
              ELSE IF long[j] = id THEN f[j - 1] ELSE Append(f[j - 1], long[j])]
  <2>1. ASSUME NEW j \in 0..(N + 1)
        PROVE  f[j] = IF j = 0 THEN <<>>
                      ELSE IF long[j] = id THEN f[j - 1] ELSE Append(f[j - 1], long[j])
    <3>1. CASE j = 0
      BY <1>3, <3>1
    <3>2. CASE j # 0
      <4>1. j \in 1..(N + 1) /\ j - 1 \in 0..(N + 1)
        BY <1>1, <3>2
      <4>2. f[j - 1] \in V
        BY <1>3, <4>1
      <4>3. QED
        BY <1>3, <3>2, <4>1, <4>2
    <3>3. QED
      BY <3>1, <3>2
  <2>2. QED
    BY <1>1, <1>3, <2>1
<1>5. Kept = [j \in 0..Len(long) |->
                IF j = 0 THEN <<>>
                ELSE IF long[j] = id THEN Kept[j - 1] ELSE Append(Kept[j - 1], long[j])]
  BY <1>4
<1> HIDE DEF Kept, step
<1>51. \A j \in 0..(N + 1) : j # 0 =>
           Kept[j] = IF long[j] = id THEN Kept[j - 1] ELSE Append(Kept[j - 1], long[j])
  BY <1>1, <1>5
<1>6. /\ Kept[0] = <<>> /\ Kept[N + 1] = Kept[N]
      /\ \A j \in 1..N : Kept[j] = Append(Kept[j - 1], list[j])
  <2>1. Kept[0] = <<>>
    BY <1>1, <1>5
  <2>2. Kept[N + 1] = Kept[N]
    <3>1. N + 1 \in 0..Len(long) /\ N + 1 # 0 /\ N + 1 - 1 = N
      BY <1>1
    <3>2. Kept[N + 1] = Kept[N + 1 - 1]
      BY <1>1, <1>51, <3>1
    <3>3. QED
      BY <3>1, <3>2
  <2>3. ASSUME NEW j \in 1..N PROVE Kept[j] = Append(Kept[j - 1], list[j])
    <3>1. j \in 0..Len(long) /\ j # 0 /\ long[j] = list[j] /\ long[j] # id
      BY <1>1
    <3>2. QED
      BY <1>1, <1>51, <3>1
  <2>4. QED
    BY <2>1, <2>2, <2>3
<1> DEFINE Copied(j) == /\ Kept[j] \in V /\ Len(Kept[j]) = j
                        /\ \A i \in 1..j : Kept[j][i] = list[i]
           Wrong == {j \in 0..N : ~Copied(j)}
<1>7. Wrong = {}
  <2>1. SUFFICES ASSUME Wrong # {} PROVE FALSE
    OBVIOUS
  <2>2. PICK m \in Wrong : \A k \in Wrong : m <= k
    <3>1. Wrong \in SUBSET Nat
      OBVIOUS
    <3> HIDE DEF Wrong
    <3>2. QED
      BY <2>1, <3>1, Expansion!LeastNumber
  <2>3. m # 0
    <3>1. Copied(0)
      BY <1>6, EmptySeq
    <3> HIDE DEF Copied
    <3>2. QED
      BY <3>1
  <2>4. m \in 1..N /\ Copied(m - 1) /\ list[m] \in SectionIds
    <3>1. m \in 1..N /\ m - 1 \in 0..N
      BY <1>1, <2>3
    <3>2. m - 1 \notin Wrong
      <4> HIDE DEF Wrong
      <4>1. QED
        BY <2>2, <3>1
    <3>3. QED
      BY <3>1, <3>2, <1>1
  <2>5. Kept[m] = Append(Kept[m - 1], list[m])
    BY <1>6, <2>4
  <2>6. Copied(m)
    <3>1. /\ Kept[m] \in V /\ Len(Kept[m]) = (m - 1) + 1 /\ Kept[m][(m - 1) + 1] = list[m]
          /\ \A i \in 1..(m - 1) : Kept[m][i] = Kept[m - 1][i]
      BY <2>4, <2>5, AppendProperties
    <3>2. (m - 1) + 1 = m /\ \A i \in 1..m : i \in 1..(m - 1) \/ i = m
      BY <2>4
    <3>3. QED
      BY <2>4, <3>1, <3>2
  <2>7. QED
    BY <2>6
<1>8. Copied(N)
  <2>1. N \in 0..N
    BY <1>1
  <2> HIDE DEF Copied
  <2>2. QED
    BY <1>7, <2>1
<1>9. Kept[N] = list
  BY <1>8, SeqEqual DEF N
<1>10. Dropped(Append(list, id), id) = Kept[Len(long)]
  BY DEF Dropped, Kept, long
<1>11. QED
  BY <1>1, <1>6, <1>9, <1>10

-----------------------------------------------------------------------------
(* Forests: sets of sections in which every part has a loose end *)

Ends(t) == {t.from, t.to}

LooseEnd(S, n, t) == t \in S /\ \A u \in S : n \in Ends(u) <=> u = t

Straight(E) == \A t \in E : t.from # t.to

Woody(E) == \A S \in (SUBSET E) \ {{}} : \E n \in NodeIds, t \in S : LooseEnd(S, n, t)

\* Node b is in every set with node a that sections of E do not leave.
Uncrossed(E, N) == \A t \in E : t.from \in N <=> t.to \in N

Linked(E, a, b) == \A N \in SUBSET NodeIds : a \in N /\ Uncrossed(E, N) => b \in N

\* Every part of a forest has a loose end at another node than a given one.
LEMMA TwoLooseEnds ==
    ASSUME NEW E \in SUBSET Tracks, IsFiniteSet(E), Straight(E), Woody(E),
           NEW S \in SUBSET E, S # {}, NEW x \in NodeIds
    PROVE  \E n \in NodeIds, t \in S : n # x /\ LooseEnd(S, n, t)
<1> DEFINE OnlyAt(T, y) == \A n \in NodeIds, t \in T : LooseEnd(T, n, t) => n = y
           L == {T \in SUBSET E : T # {} /\ \E y \in NodeIds : OnlyAt(T, y)}
<1>1. SUFFICES ASSUME L # {} PROVE FALSE
  <2>1. S \notin L
    BY <1>1
  <2>2. ~OnlyAt(S, x)
    BY <2>1
  <2>3. QED
    BY <2>2
<1>2. PICK T \in L : \A U \in L : U \subseteq T => U = T
  <2>1. L \in SUBSET SUBSET E
    OBVIOUS
  <2> HIDE DEF L
  <2>2. QED
    BY <1>1, <2>1, FiniteSame, Expansion!SmallestSet
<1>3. PICK y \in NodeIds : OnlyAt(T, y)
  OBVIOUS
<1>4. T \in SUBSET E /\ T # {}
  OBVIOUS
<1>5. PICK t \in T : LooseEnd(T, y, t)
  BY <1>3, <1>4 DEF Woody
<1>6. PICK m \in NodeIds : Ends(t) = {y, m} /\ m # y
  <2>1. t.from \in NodeIds /\ t.to \in NodeIds /\ t.from # t.to
    BY <1>4 DEF Tracks, Straight
  <2>2. y \in Ends(t)
    BY <1>5 DEF LooseEnd
  <2>3. QED
    BY <2>1, <2>2 DEF Ends
<1> DEFINE U == T \ {t}
<1>7. U # {}
  <2>1. SUFFICES ASSUME U = {} PROVE FALSE
    OBVIOUS
  <2>2. LooseEnd(T, m, t)
    BY <1>5, <1>6, <2>1 DEF LooseEnd
  <2>3. QED
    BY <1>3, <1>6, <2>2
<1>8. ~OnlyAt(U, m)
  <2>1. U \notin L
    <3>1. U \subseteq T /\ U # T
      OBVIOUS
    <3> HIDE DEF L, U
    <3>2. QED
      BY <1>2, <3>1
  <2>2. U \in SUBSET E
    BY <1>4
  <2> HIDE DEF OnlyAt, U
  <2>3. QED
    BY <1>6, <1>7, <2>1, <2>2
<1>9. PICK n \in NodeIds, v \in U : LooseEnd(U, n, v) /\ n # m
  BY <1>8
<1>10. n # y
  BY <1>5, <1>9 DEF LooseEnd
<1>11. LooseEnd(T, n, v)
  BY <1>6, <1>9, <1>10 DEF LooseEnd
<1>12. QED
  BY <1>3, <1>9, <1>10, <1>11

\* A section between two nodes that were not linked leaves the forest a forest.
LEMMA JoinsForest ==
    ASSUME NEW E \in SUBSET Tracks, IsFiniteSet(E), Straight(E), Woody(E),
           NEW e \in Tracks, e \notin E, e.from # e.to, ~Linked(E, e.to, e.from)
    PROVE  Woody(E \cup {e})
<1> SUFFICES ASSUME NEW S \in SUBSET (E \cup {e}), S # {}
             PROVE  \E n \in NodeIds, t \in S : LooseEnd(S, n, t)
  BY DEF Woody
<1> DEFINE C == {n \in NodeIds : Linked(E, e.to, n)}
           S1 == {t \in S \ {e} : t.from \in C}
<1>1. e.from \in NodeIds /\ e.to \in NodeIds /\ e.to \in C /\ e.from \notin C
  BY DEF Tracks, Linked
<1>2. \A t \in E : t.from \in C <=> t.to \in C
  <2>1. SUFFICES ASSUME NEW t \in E, NEW a \in Ends(t), NEW b \in Ends(t), a \in C PROVE b \in C
    BY DEF Ends
  <2>2. b \in NodeIds
    BY DEF Ends, Tracks
  <2>3. ASSUME NEW N \in SUBSET NodeIds, e.to \in N, Uncrossed(E, N) PROVE b \in N
    <3>1. a \in N
      BY <2>1, <2>3 DEF Linked
    <3>2. QED
      BY <2>3, <3>1 DEF Uncrossed, Ends
  <2>4. QED
    BY <2>2, <2>3 DEF Linked
<1> HIDE DEF C
<1>3. CASE e \notin S
  BY <1>3 DEF Woody
<1>4. CASE e \in S /\ S1 = {}
  <2>1. \A u \in S : e.to \in Ends(u) <=> u = e
    BY <1>1, <1>2, <1>4 DEF Ends
  <2>2. QED
    BY <1>1, <1>4, <2>1 DEF LooseEnd
<1>5. CASE e \in S /\ S1 # {}
  <2>1. S1 \in SUBSET E
    OBVIOUS
  <2>2. PICK n \in NodeIds, t \in S1 : n # e.to /\ LooseEnd(S1, n, t)
    <3> HIDE DEF S1
    <3>1. QED
      BY <1>1, <1>5, <2>1, TwoLooseEnds
  <2>3. n \in C /\ n \notin Ends(e)
    <3>1. n \in Ends(t) /\ t.from \in C /\ t.to \in C
      BY <1>2, <2>1, <2>2 DEF LooseEnd
    <3>2. QED
      BY <1>1, <2>2, <3>1 DEF Ends
  <2>4. ASSUME NEW u \in S PROVE n \in Ends(u) <=> u = t
    <3>1. CASE u \in S1
      BY <2>2, <3>1 DEF LooseEnd
    <3>2. CASE u = e
      BY <2>3, <3>2, <2>2
    <3>3. CASE u # e /\ u \notin S1
      <4>1. u.from \notin C /\ u.to \notin C
        BY <1>2, <3>3
      <4>2. QED
        BY <2>2, <2>3, <3>3, <4>1 DEF Ends
    <3>4. QED
      BY <3>1, <3>2, <3>3
  <2>5. QED
    BY <2>2, <2>4 DEF LooseEnd
<1>6. QED
  BY <1>3, <1>4, <1>5

\* No section of a forest joins two nodes that the others link: the smallest set
\* that links them would make a circle with it.
LEMMA ForestNeverLinks ==
    ASSUME NEW E \in SUBSET Tracks, IsFiniteSet(E), NEW e \in Tracks, e \notin E,
           Straight(E \cup {e}), Woody(E \cup {e})
    PROVE  ~Linked(E, e.to, e.from)
<1> SUFFICES ASSUME Linked(E, e.to, e.from) PROVE FALSE
  OBVIOUS
<1> DEFINE L == {T \in SUBSET E : Linked(T, e.to, e.from)}
<1>1. PICK T \in L : \A U \in L : U \subseteq T => U = T
  <2>1. L \in SUBSET SUBSET E /\ L # {}
    OBVIOUS
  <2> HIDE DEF L
  <2>2. QED
    BY <2>1, FiniteSame, Expansion!SmallestSet
<1>2. T \in SUBSET E /\ Linked(T, e.to, e.from)
  OBVIOUS
<1> DEFINE S == T \cup {e}
<1>3. e.from \in NodeIds /\ e.to \in NodeIds /\ e.from # e.to /\ Straight(S)
  BY <1>2 DEF Tracks, Straight
<1>4. PICK n \in NodeIds, t \in S : LooseEnd(S, n, t)
  BY <1>2 DEF Woody
<1>5. CASE t = e
  <2>1. \A u \in T : n \notin Ends(u)
    BY <1>2, <1>4, <1>5 DEF LooseEnd
  <2>2. n = e.from \/ n = e.to
    BY <1>4, <1>5 DEF LooseEnd, Ends
  <2>3. Uncrossed(T, {n}) /\ Uncrossed(T, NodeIds \ {n})
    <3>1. \A u \in T : u.from \in NodeIds /\ u.to \in NodeIds /\ u.from # n /\ u.to # n
      BY <1>2, <2>1 DEF Tracks, Ends
    <3>2. QED
      BY <3>1 DEF Uncrossed
  <2>4. CASE n = e.to
    BY <1>2, <1>3, <2>3, <2>4 DEF Linked
  <2>5. CASE n = e.from
    <3>1. e.to \in NodeIds \ {n} /\ e.from \notin NodeIds \ {n}
      BY <1>3, <2>5
    <3>2. QED
      BY <1>2, <2>3, <3>1 DEF Linked
  <2>6. QED
    BY <2>2, <2>4, <2>5
<1>6. CASE t # e
  <2>1. t \in T /\ n # e.from /\ n # e.to
    BY <1>4, <1>6 DEF LooseEnd, Ends
  <2>2. PICK m \in NodeIds : Ends(t) = {n, m} /\ m # n
    <3>1. t.from \in NodeIds /\ t.to \in NodeIds /\ t.from # t.to
      BY <1>2, <1>3, <2>1 DEF Tracks, Straight
    <3>2. n \in Ends(t)
      BY <1>4 DEF LooseEnd
    <3>3. QED
      BY <3>1, <3>2 DEF Ends
  <2> DEFINE U == T \ {t}
  <2>3. \A u \in U : u.from # n /\ u.to # n
    BY <1>4, <2>1 DEF LooseEnd, Ends
  <2>4. ASSUME NEW N \in SUBSET NodeIds, e.to \in N, Uncrossed(U, N) PROVE e.from \in N
    <3> DEFINE M == (N \ {n}) \cup (IF m \in N THEN {n} ELSE {})
    <3>1. M \in SUBSET NodeIds /\ e.to \in M
      BY <2>1, <2>4
    <3>2. Uncrossed(T, M)
      <4>1. ASSUME NEW u \in T PROVE u.from \in M <=> u.to \in M
        <5>1. CASE u = t
          <6>1. n \in M <=> m \in M
            BY <2>2
          <6>2. (t.from = n /\ t.to = m) \/ (t.from = m /\ t.to = n)
            BY <2>2 DEF Ends
          <6> HIDE DEF M
          <6>3. QED
            BY <5>1, <6>1, <6>2
        <5>2. CASE u # t
          BY <2>3, <2>4, <5>2 DEF Uncrossed
        <5>3. QED
          BY <5>1, <5>2
      <4>2. QED
        BY <4>1 DEF Uncrossed
    <3>3. e.from \in M
      <4> HIDE DEF M
      <4>1. QED
        BY <1>2, <3>1, <3>2 DEF Linked
    <3>4. QED
      BY <2>1, <3>3
  <2>5. U \in L
    BY <1>2, <2>4 DEF Linked
  <2>6. QED
    BY <1>1, <2>1, <2>5
<1>7. QED
  BY <1>5, <1>6

-----------------------------------------------------------------------------
(* The graph *)

Sound(g) == g \in Graphs /\ IsFiniteSet(g.parts) /\ Acyclic(g) /\ Resolved(g) /\ Listed(g)

LEMMA KindFacts ==
    ASSUME NEW e \in Elements
    PROVE  /\ e.kind \in {"node", "section", "point", "signal"}
           /\ e.kind = "node" <=> e \in Nodes
           /\ e.kind = "section" <=> e \in Tracks
           /\ e.kind = "point" <=> e \in Switches
           /\ e.kind = "signal" <=> e \in Heads
  BY DEF Elements, Nodes, Tracks, Switches, Heads

LEMMA OfTracks ==
    ASSUME NEW g \in Graphs
    PROVE  /\ Of(g, "section") \in SUBSET Tracks
           /\ \A e \in g.parts : e \in Elements
           /\ Acyclic(g) <=> Straight(Of(g, "section")) /\ Woody(Of(g, "section"))
           /\ IsFiniteSet(g.parts) => IsFiniteSet(Of(g, "section"))
<1>1. \A e \in g.parts : e \in Elements
  BY DEF Graphs
<1>2. Of(g, "section") \in SUBSET Tracks
  BY <1>1, KindFacts DEF Of
<1>3. Acyclic(g) <=> Straight(Of(g, "section")) /\ Woody(Of(g, "section"))
  BY DEF Acyclic, Straight, Woody, LooseEnd, Ends
<1>4. Of(g, "section") \in SUBSET g.parts
  BY DEF Of
<1>5. QED
  BY <1>1, <1>2, <1>3, <1>4, FS_Subset

\* In a sound graph a node lists the sections that end there.
LEMMA ListsEnds ==
    ASSUME NEW g, Sound(g), NEW n \in NodeIds, NEW t \in Of(g, "section")
    PROVE  t.id \in Lists(g, n) <=> n \in Ends(t)
<1>1. \A u \in Of(g, "section") : u.id = t.id => u = t
  BY DEF Sound, Resolved, Of
<1>2. Lists(g, n) = {u.id : u \in {u \in Of(g, "section") : n \in Ends(u)}}
  BY DEF Sound, Listed, Ends
<1>3. QED
  BY <1>1, <1>2

\* So the walk is along the sections.
LEMMA WalkIsLink ==
    ASSUME NEW g, Sound(g), NEW a \in NodeIds, NEW b \in NodeIds
    PROVE  Reachable(g, a, b) <=> Linked(Of(g, "section"), a, b)
<1> DEFINE E == Of(g, "section")
           Stays(N) == \A n \in N, t \in E : t.id \in Lists(g, n) => OtherEnd(t, n) \in N
<1>1. E \in SUBSET Tracks /\ Straight(E)
  BY OfTracks DEF Sound
<1>2. ASSUME NEW N \in SUBSET NodeIds PROVE Stays(N) <=> Uncrossed(E, N)
  <2>1. \A n \in N, t \in E : t.id \in Lists(g, n) <=> n \in Ends(t)
    BY ListsEnds
  <2>2. \A t \in E : t.from # t.to
    BY <1>1 DEF Straight
  <2>3. ASSUME Stays(N), NEW t \in E PROVE t.from \in N <=> t.to \in N
    BY <2>1, <2>2, <2>3 DEF OtherEnd, Ends
  <2>4. ASSUME Uncrossed(E, N), NEW n \in N, NEW t \in E, t.id \in Lists(g, n)
        PROVE  OtherEnd(t, n) \in N
    BY <2>1, <2>4 DEF OtherEnd, Ends, Uncrossed
  <2>5. QED
    BY <2>3, <2>4 DEF Uncrossed
<1>3. Reachable(g, a, b) <=> \A N \in SUBSET NodeIds : a \in N /\ Stays(N) => b \in N
  BY DEF Reachable
<1> HIDE DEF Stays, E
<1>4. QED
  BY <1>2, <1>3 DEF Linked, E

LEMMA WithType ==
    ASSUME NEW g \in Graphs, NEW e \in Elements
    PROVE  /\ With(g, e) \in Graphs
           /\ With(g, e).parts = g.parts \cup {e}
           /\ \A n \in NodeIds : With(g, e).byNode[n] =
                IF e.kind = "section" /\ n \in Ends(e) THEN Append(g.byNode[n], e.id)
                ELSE g.byNode[n]
<1>1. With(g, e).parts = g.parts \cup {e}
  BY DEF With
<1>2. \A n \in NodeIds : With(g, e).byNode[n] =
         IF e.kind = "section" /\ n \in Ends(e) THEN Append(g.byNode[n], e.id)
         ELSE g.byNode[n]
  BY DEF With, Ends
<1>3. g.byNode \in [NodeIds -> Seq(SectionIds)] /\ g.parts \in SUBSET Elements
  BY DEF Graphs
<1>4. e.kind = "section" => e.id \in SectionIds
  BY KindFacts DEF Tracks
<1>5. \A n \in NodeIds : e.kind = "section" => Append(g.byNode[n], e.id) \in Seq(SectionIds)
  BY <1>3, <1>4, AppendProperties
<1>6. With(g, e).byNode \in [NodeIds -> Seq(SectionIds)]
  <2>1. CASE e.kind # "section"
    BY <1>3, <2>1 DEF With
  <2>2. CASE e.kind = "section"
    BY <1>3, <1>5, <2>2 DEF With
  <2>3. QED
    BY <2>1, <2>2
<1>7. With(g, e) = [parts |-> With(g, e).parts, byNode |-> With(g, e).byNode]
  BY DEF With
<1>8. QED
  BY <1>1, <1>2, <1>3, <1>6, <1>7 DEF Graphs

LEMMA NewIsUnknown ==
    ASSUME NEW g \in Graphs, NEW lies, NEW e \in Elements, ~Refused(g, lies, e)
    PROVE  /\ e \notin g.parts
           /\ \A f \in g.parts : f.kind = e.kind => f.id # e.id
  BY DEF Refused, Known

\* The sections, points, signals and names after an insertion.
LEMMA WithParts ==
    ASSUME NEW g \in Graphs, NEW e \in Elements
    PROVE  /\ \A kind : Of(With(g, e), kind) =
                 Of(g, kind) \cup (IF e.kind = kind THEN {e} ELSE {})
           /\ \A kind, id : Known(g, kind, id) => Known(With(g, e), kind, id)
  BY WithType DEF Of, Known

LEMMA WithAcyclic ==
    ASSUME NEW g, Sound(g), NEW lies, NEW e \in Elements, ~Refused(g, lies, e)
    PROVE  Acyclic(With(g, e))
<1> DEFINE E == Of(g, "section")
<1>1. /\ g \in Graphs /\ E \in SUBSET Tracks /\ IsFiniteSet(E) /\ Straight(E) /\ Woody(E)
      /\ With(g, e) \in Graphs
  BY OfTracks, WithType DEF Sound
<1>2. CASE e.kind # "section"
  <2>1. Of(With(g, e), "section") = E
    BY <1>1, <1>2, WithParts
  <2>2. QED
    BY <1>1, <2>1, OfTracks
<1>3. CASE e.kind = "section"
  <2>1. Of(With(g, e), "section") = E \cup {e} /\ e \in Tracks
    BY <1>1, <1>3, WithParts, KindFacts
  <2>2. e.from # e.to /\ ~Reachable(g, e.to, e.from) /\ e \notin E
    BY <1>1, <1>3, NewIsUnknown DEF Refused, ClosesCycle, Of
  <2>3. ~Linked(E, e.to, e.from)
    BY <2>1, <2>2, WalkIsLink DEF Tracks
  <2>4. Woody(E \cup {e})
    <3> HIDE DEF E
    <3>1. QED
      BY <1>1, <2>1, <2>2, <2>3, JoinsForest
  <2>5. Straight(E \cup {e})
    BY <1>1, <2>2 DEF Straight
  <2>6. QED
    BY <1>1, <2>1, <2>4, <2>5, OfTracks
<1>4. QED
  BY <1>2, <1>3

LEMMA WithResolved ==
    ASSUME NEW g, Sound(g), NEW lies, NEW e \in Elements, ~Refused(g, lies, e)
    PROVE  Resolved(With(g, e))
<1> DEFINE h == With(g, e)
<1>1. g \in Graphs /\ h.parts = g.parts \cup {e} /\ Resolved(g)
  BY WithType DEF Sound
<1>2. /\ \A kind : Of(h, kind) = Of(g, kind) \cup (IF e.kind = kind THEN {e} ELSE {})
      /\ \A kind, id : Known(g, kind, id) => Known(h, kind, id)
  BY <1>1, WithParts
<1> HIDE DEF h
<1>3. \A f, d \in h.parts : f.kind = d.kind /\ f.id = d.id => f = d
  BY <1>1, NewIsUnknown DEF Resolved
<1>4. \A t \in Of(h, "section") : Known(h, "node", t.from) /\ Known(h, "node", t.to)
  BY <1>1, <1>2 DEF Resolved, Refused
<1>5. \A p \in Of(h, "point") :
         /\ Known(h, "node", p.node)
         /\ Cardinality({p.heel, p.normal, p.reverse}) = 3
         /\ \A s \in {p.heel, p.normal, p.reverse} : Known(h, "section", s)
  <2>1. SUFFICES ASSUME NEW p \in Of(h, "point")
                 PROVE  /\ Known(h, "node", p.node)
                        /\ Cardinality({p.heel, p.normal, p.reverse}) = 3
                        /\ \A s \in {p.heel, p.normal, p.reverse} : Known(h, "section", s)
    OBVIOUS
  <2>2. CASE p \in Of(g, "point")
    BY <1>1, <1>2, <2>2 DEF Resolved
  <2>3. CASE p = e /\ e.kind = "point"
    <3>1. Known(g, "node", e.node) /\ LegsStand(g, e)
      BY <2>3 DEF Refused
    <3>2. QED
      BY <1>2, <2>3, <3>1 DEF LegsStand
  <2>4. QED
    BY <1>2, <2>1, <2>2, <2>3
<1>6. \A p, q \in Of(h, "point") : q.node = p.node => q = p
  <2>1. \A p, q \in Of(g, "point") : q.node = p.node => q = p
    BY <1>1 DEF Resolved
  <2>2. e.kind = "point" => \A p \in Of(g, "point") : p.node # e.node
    BY DEF Refused
  <2>3. \A p \in Of(h, "point") : p \in Of(g, "point") \/ (p = e /\ e.kind = "point")
    BY <1>2
  <2>4. QED
    BY <2>1, <2>2, <2>3
<1>7. \A s \in Of(h, "signal") : Known(h, "node", s.entry) /\ Known(h, "section", s.guard)
  BY <1>1, <1>2 DEF Resolved, Refused
<1>8. QED
  BY <1>3, <1>4, <1>5, <1>6, <1>7 DEF Resolved, h

LEMMA WithListed ==
    ASSUME NEW g, Sound(g), NEW lies, NEW e \in Elements, ~Refused(g, lies, e)
    PROVE  Listed(With(g, e))
<1> DEFINE h == With(g, e)
<1>1. g \in Graphs /\ Listed(g) /\ h \in Graphs
  BY WithType DEF Sound
<1>2. Of(h, "section") = Of(g, "section") \cup (IF e.kind = "section" THEN {e} ELSE {})
  BY <1>1, WithParts
<1>3. SUFFICES ASSUME NEW n \in NodeIds
               PROVE  /\ IsInjective(h.byNode[n])
                      /\ Lists(h, n) = {t.id : t \in {t \in Of(h, "section") : n \in {t.from, t.to}}}
  BY DEF Listed
<1>4. /\ g.byNode[n] \in Seq(SectionIds) /\ IsInjective(g.byNode[n])
      /\ Lists(g, n) = {t.id : t \in {t \in Of(g, "section") : n \in {t.from, t.to}}}
  BY <1>1 DEF Listed, Graphs
<1>5. CASE e.kind = "section" /\ n \in Ends(e)
  <2>1. h.byNode[n] = Append(g.byNode[n], e.id) /\ e.id \in SectionIds
    BY <1>1, <1>5, WithType, KindFacts DEF Tracks
  <2>2. e.id \notin Lists(g, n)
    BY <1>1, <1>4, <1>5, NewIsUnknown DEF Of
  <2>3. IsInjective(Append(g.byNode[n], e.id))
    BY <1>4, <2>1, <2>2, AppendProperties DEF Lists, IsInjective
  <2>4. Lists(h, n) = Lists(g, n) \cup {e.id}
    <3> DEFINE b == g.byNode[n]
               c == h.byNode[n]
    <3>1. /\ Len(c) = Len(b) + 1 /\ c[Len(b) + 1] = e.id /\ Len(b) \in Nat
          /\ \A j \in 1..Len(b) : c[j] = b[j]
      BY <1>4, <2>1, AppendProperties, LenProperties
    <3> HIDE DEF b, c
    <3>2. {c[j] : j \in 1..Len(c)} = {b[j] : j \in 1..Len(b)} \cup {e.id}
      <4>1. \A j \in 1..Len(c) : j \in 1..Len(b) \/ j = Len(b) + 1
        BY <3>1
      <4>2. Len(b) + 1 \in 1..Len(c) /\ \A j \in 1..Len(b) : j \in 1..Len(c)
        BY <3>1
      <4>3. QED
        BY <3>1, <4>1, <4>2
    <3>3. QED
      BY <3>2 DEF Lists, b, c
  <2>5. QED
    BY <1>2, <1>4, <1>5, <2>1, <2>3, <2>4 DEF Ends
<1>6. CASE ~(e.kind = "section" /\ n \in Ends(e))
  <2>1. h.byNode[n] = g.byNode[n]
    BY <1>1, <1>6, WithType
  <2>2. Lists(h, n) = Lists(g, n)
    BY <2>1 DEF Lists
  <2>3. {t \in Of(h, "section") : n \in {t.from, t.to}} = {t \in Of(g, "section") : n \in {t.from, t.to}}
    BY <1>2, <1>6 DEF Ends
  <2> HIDE DEF h
  <2>4. QED
    BY <1>4, <2>1, <2>2, <2>3
<1>7. QED
  BY <1>5, <1>6

\* What is not refused keeps the graph sound.
LEMMA WithSound ==
    ASSUME NEW g, Sound(g), NEW lies, NEW e \in Elements, ~Refused(g, lies, e)
    PROVE  Sound(With(g, e))
<1>1. g \in Graphs /\ IsFiniteSet(g.parts)
  BY DEF Sound
<1>2. With(g, e) \in Graphs /\ IsFiniteSet(With(g, e).parts)
  BY <1>1, WithType, FS_AddElement
<1>3. QED
  BY <1>2, WithAcyclic, WithResolved, WithListed DEF Sound

\* Taking out what was just put in gives the graph as it was.
LEMMA WithoutUndoes ==
    ASSUME NEW g, Sound(g), NEW lies, NEW e \in Elements, ~Refused(g, lies, e)
    PROVE  Without(With(g, e), e) = g
<1> DEFINE h == With(g, e)
<1>1. /\ g \in Graphs /\ h \in Graphs /\ h.parts = g.parts \cup {e} /\ e \notin g.parts
      /\ h.parts \ {e} = g.parts
  BY WithType, NewIsUnknown DEF Sound
<1>2. \A n \in NodeIds : h.byNode[n] =
         IF e.kind = "section" /\ n \in Ends(e) THEN Append(g.byNode[n], e.id) ELSE g.byNode[n]
  BY <1>1, WithType
<1>3. /\ \A kind : Of(h, kind) = Of(g, kind) \cup (IF e.kind = kind THEN {e} ELSE {})
  BY <1>1, WithParts
<1>4. /\ \A t \in Of(g, "section") : Known(g, "node", t.from) /\ Known(g, "node", t.to)
      /\ \A p \in Of(g, "point") : /\ Known(g, "node", p.node)
                                   /\ \A s \in {p.heel, p.normal, p.reverse} : Known(g, "section", s)
      /\ ~Known(g, e.kind, e.id)
  BY DEF Sound, Resolved, Refused
<1>5. e.kind = "node" => e.id \in NodeIds /\ Lists(g, e.id) = {}
  <2>1. SUFFICES ASSUME e.kind = "node" PROVE e.id \in NodeIds /\ Lists(g, e.id) = {}
    OBVIOUS
  <2>2. e.id \in NodeIds
    BY <2>1, KindFacts DEF Nodes
  <2>3. Lists(g, e.id) = {t.id : t \in {t \in Of(g, "section") : e.id \in {t.from, t.to}}}
    BY <2>2 DEF Sound, Listed
  <2>4. QED
    BY <1>4, <2>1, <2>2, <2>3
<1>6. ~Referenced(h, e)
  <2>1. ASSUME e.kind = "node" PROVE ~Referenced(h, e)
    <3>1. h.byNode[e.id] = g.byNode[e.id]
      BY <1>2, <1>5, <2>1
    <3>2. Lists(h, e.id) = {}
      BY <1>5, <2>1, <3>1 DEF Lists
    <3>3. \A p \in Of(h, "point") : p.node # e.id
      BY <1>3, <1>4, <2>1
    <3>4. QED
      BY <2>1, <3>2, <3>3 DEF Referenced
  <2>2. ASSUME e.kind = "section" PROVE ~Referenced(h, e)
    <3>1. \A p \in Of(h, "point") : e.id \notin {p.heel, p.normal, p.reverse}
      BY <1>3, <1>4, <2>2
    <3>2. QED
      BY <2>2, <3>1 DEF Referenced
  <2>3. QED
    BY <2>1, <2>2 DEF Referenced
<1> DEFINE b == Without(h, e).byNode
<1>7. b \in [NodeIds -> Seq(SectionIds)] /\ \A n \in NodeIds : b[n] = g.byNode[n]
  <2>1. CASE e.kind = "node"
    <3>1. b = [h.byNode EXCEPT ![e.id] = <<>>]
      BY <1>6, <2>1 DEF Without
    <3>2. g.byNode[e.id] = <<>>
      <4> DEFINE list == g.byNode[e.id]
      <4>1. list \in Seq(SectionIds) /\ Len(list) \in Nat
        BY <1>1, <1>5, <2>1, LenProperties DEF Graphs
      <4>2. {list[j] : j \in 1..Len(list)} = {}
        BY <1>5, <2>1 DEF Lists
      <4> HIDE DEF list
      <4>3. Len(list) = 0
        <5>1. ASSUME Len(list) # 0 PROVE list[1] \in {list[j] : j \in 1..Len(list)}
          <6>1. 1 \in 1..Len(list)
            BY <4>1, <5>1
          <6>2. QED
            BY <6>1
        <5>2. QED
          BY <4>2, <5>1
      <4>4. QED
        BY <4>1, <4>3, EmptySeq DEF list
    <3>3. h.byNode \in [NodeIds -> Seq(SectionIds)] /\ \A n \in NodeIds : h.byNode[n] = g.byNode[n]
      BY <1>1, <1>2, <2>1 DEF Graphs
    <3> HIDE DEF b, h
    <3>4. QED
      BY <3>1, <3>2, <3>3, <1>5, EmptySeq
  <2>2. CASE e.kind = "section"
    <3>1. b = [n \in NodeIds |-> IF n \in {e.from, e.to} THEN Dropped(h.byNode[n], e.id)
                                 ELSE h.byNode[n]]
      BY <1>6, <2>2 DEF Without
    <3>2. ASSUME NEW n \in NodeIds, n \in Ends(e) PROVE Dropped(h.byNode[n], e.id) = g.byNode[n]
      <4>1. e.id \in SectionIds /\ g.byNode[n] \in Seq(SectionIds)
        BY <1>1, <2>2, KindFacts DEF Tracks, Graphs
      <4>2. e.id \notin Lists(g, n)
        <5>1. Lists(g, n) = {t.id : t \in {t \in Of(g, "section") : n \in {t.from, t.to}}}
          BY DEF Sound, Listed
        <5>2. QED
          BY <5>1, <2>2, <1>4 DEF Of, Known
      <4>3. \A j \in 1..Len(g.byNode[n]) : g.byNode[n][j] # e.id
        BY <4>2 DEF Lists
      <4>4. h.byNode[n] = Append(g.byNode[n], e.id)
        BY <1>2, <2>2, <3>2
      <4>5. QED
        BY <4>1, <4>3, <4>4, DroppedLast
    <3>3. \A n \in NodeIds : g.byNode[n] \in Seq(SectionIds)
      BY <1>1 DEF Graphs
    <3>4. \A n \in NodeIds : b[n] = g.byNode[n]
      <4>1. \A n \in NodeIds : n \notin Ends(e) => h.byNode[n] = g.byNode[n]
        BY <1>2
      <4> HIDE DEF b, h
      <4>2. QED
        BY <3>1, <3>2, <4>1 DEF Ends
    <3> HIDE DEF b, h
    <3>5. QED
      BY <3>1, <3>3, <3>4
  <2>3. CASE e.kind \notin {"node", "section"}
    <3>1. b = h.byNode
      BY <1>6, <2>3 DEF Without
    <3> HIDE DEF b, h
    <3>2. QED
      BY <1>1, <1>2, <2>3, <3>1 DEF Graphs
  <2>4. QED
    BY <2>1, <2>2, <2>3
<1>8. Without(h, e) = [parts |-> h.parts \ {e}, byNode |-> b]
  BY <1>6 DEF Without
<1> HIDE DEF b, h
<1>9. b = g.byNode
  BY <1>1, <1>7 DEF Graphs
<1>10. g = [parts |-> g.parts, byNode |-> g.byNode]
  BY <1>1 DEF Graphs
<1>11. QED
  BY <1>1, <1>8, <1>9, <1>10 DEF h

-----------------------------------------------------------------------------
(* The order of the rows *)

\* Each element of S once.
Enumerates(o, S) ==
    /\ o \in Seq(S)
    /\ \A i, j \in 1..Len(o) : o[i] = o[j] => i = j
    /\ \A x \in S : \E j \in 1..Len(o) : o[j] = x

\* All of A stand before any of B.
Before(o, A, B) == \A j \in 1..Len(o) : o[j] \in B => \A x \in A : \E i \in 1..(j - 1) : o[i] = x

LEMMA SeqsEnumerate ==
    ASSUME NEW S, IsFiniteSet(S), NEW o \in SetToSeqs(S)
    PROVE  Enumerates(o, S)
<1> DEFINE N == Cardinality(S)
<1>1. N \in Nat /\ o \in [1..N -> S] /\ \A i, j \in 1..N : i # j => o[i] # o[j]
  BY FS_CardinalityType DEF SetToSeqs
<1>2. IsFiniteSet(1..N) /\ Cardinality(1..N) = N
  BY <1>1, FS_Interval
<1> HIDE DEF N
<1>3. o \in Injection(1..N, S)
  BY <1>1 DEF Injection, IsInjective
<1>4. o \in Surjection(1..N, S)
  BY <1>2, <1>3, FS_Injection DEF N
<1>5. o \in Seq(S) /\ Len(o) = N
  BY <1>1, IsASeq
<1>6. QED
  BY <1>1, <1>4, <1>5 DEF Enumerates, Surjection

LEMMA SeqEnumerates ==
    ASSUME NEW S, IsFiniteSet(S)
    PROVE  Enumerates(SetToSeq(S), S)
<1>1. \E f \in [1..Cardinality(S) -> S] : IsInjective(f)
  BY FS_CardinalityType DEF ExistsBijection, Bijection, Injection
<1>2. SetToSeq(S) \in [1..Cardinality(S) -> S] /\ IsInjective(SetToSeq(S))
  BY <1>1 DEF SetToSeq
<1>3. SetToSeq(S) \in SetToSeqs(S)
  BY <1>2 DEF SetToSeqs, IsInjective
<1>4. QED
  BY <1>3, SeqsEnumerate

LEMMA Joined ==
    ASSUME NEW S, NEW T, S \cap T = {}, NEW s, NEW t, Enumerates(s, S), Enumerates(t, T)
    PROVE  /\ Enumerates(s \o t, S \cup T)
           /\ Before(s \o t, S, T)
           /\ \A A, B : B \cap T = {} /\ Before(s, A, B) => Before(s \o t, A, B)
<1> DEFINE o == s \o t
           m == Len(s)
           n == Len(t)
<1>1. /\ s \in Seq(S) /\ t \in Seq(T) /\ s \in Seq(S \cup T) /\ t \in Seq(S \cup T)
      /\ m \in Nat /\ n \in Nat
      /\ \A j \in 1..m : s[j] \in S
      /\ \A j \in 1..n : t[j] \in T
  BY SeqMonotonic, LenProperties, ElementOfSeq DEF Enumerates
<1>2. /\ o \in Seq(S \cup T) /\ Len(o) = m + n
      /\ \A j \in 1..(m + n) : o[j] = IF j <= m THEN s[j] ELSE t[j - m]
  BY <1>1, ConcatProperties
<1> HIDE DEF o, m, n
<1>3. /\ \A j \in 1..m : o[j] = s[j] /\ o[j] \in S /\ j \in 1..(m + n)
      /\ \A j \in 1..n : o[m + j] = t[j] /\ o[m + j] \in T /\ m + j \in 1..(m + n)
      /\ \A j \in 1..(m + n) : j \in 1..m \/ (j - m \in 1..n /\ o[j] = t[j - m] /\ o[j] \in T)
  BY <1>1, <1>2
<1>4. /\ \A i, j \in 1..m : s[i] = s[j] => i = j
      /\ \A i, j \in 1..n : t[i] = t[j] => i = j
      /\ \A x \in S : \E j \in 1..m : s[j] = x
      /\ \A x \in T : \E j \in 1..n : t[j] = x
  BY DEF Enumerates, m, n
<1>5. \A i, j \in 1..(m + n) : o[i] = o[j] => i = j
  <2>1. SUFFICES ASSUME NEW i \in 1..(m + n), NEW j \in 1..(m + n), o[i] = o[j] PROVE i = j
    OBVIOUS
  <2>2. CASE i \in 1..m /\ j \in 1..m
    BY <1>3, <1>4, <2>1, <2>2
  <2>3. CASE i \notin 1..m /\ j \notin 1..m
    <3>1. i - m \in 1..n /\ j - m \in 1..n /\ t[i - m] = t[j - m]
      BY <1>3, <2>1, <2>3
    <3>2. i - m = j - m
      BY <1>4, <3>1
    <3>3. QED
      BY <1>1, <3>2
  <2>4. QED
    BY <1>3, <2>1, <2>2, <2>3
<1>6. \A x \in S \cup T : \E j \in 1..(m + n) : o[j] = x
  <2>1. ASSUME NEW x \in S PROVE \E j \in 1..(m + n) : o[j] = x
    BY <1>3, <1>4
  <2>2. ASSUME NEW x \in T PROVE \E j \in 1..(m + n) : o[j] = x
    <3>1. PICK j \in 1..n : t[j] = x
      BY <1>4
    <3>2. QED
      BY <1>3, <3>1
  <2>3. QED
    BY <2>1, <2>2
<1>7. Before(o, S, T)
  <2>1. SUFFICES ASSUME NEW j \in 1..(m + n), o[j] \in T, NEW x \in S
                 PROVE  \E i \in 1..(j - 1) : o[i] = x
    BY <1>2 DEF Before
  <2>2. j \notin 1..m
    BY <1>3, <2>1
  <2>3. PICK i \in 1..m : s[i] = x
    BY <1>4
  <2>4. i \in 1..(j - 1)
    BY <1>1, <2>2
  <2>5. QED
    BY <1>3, <2>3, <2>4
<1>8. ASSUME NEW A, NEW B, B \cap T = {}, Before(s, A, B) PROVE Before(o, A, B)
  <2>1. SUFFICES ASSUME NEW j \in 1..(m + n), o[j] \in B, NEW x \in A
                 PROVE  \E i \in 1..(j - 1) : o[i] = x
    BY <1>2 DEF Before
  <2>2. j \in 1..m /\ s[j] \in B
    BY <1>3, <1>8, <2>1
  <2>3. PICK i \in 1..(j - 1) : s[i] = x
    BY <1>8, <2>2 DEF Before, m
  <2>4. i \in 1..m
    BY <1>1, <2>2
  <2>5. QED
    BY <1>3, <2>3, <2>4
<1>9. QED
  BY <1>2, <1>5, <1>6, <1>7, <1>8 DEF Enumerates, o

\* The rows are read nodes first, then sections, then the rest.
LEMMA OrdersRead ==
    ASSUME rows \in SUBSET Elements, IsFiniteSet(rows), NEW order \in Orders
    PROVE  /\ Enumerates(order, rows)
           /\ Before(order, rows \cap Nodes, rows \ Nodes)
           /\ Before(order, rows \cap Tracks, rows \cap (Switches \cup Heads))
<1> DEFINE N == rows \cap Nodes
           T == rows \cap Tracks
           P == rows \cap Switches
           H == rows \cap Heads
           a == SetToSeq(N)
           c == SetToSeq(P)
           d == SetToSeq(H)
<1>1. PICK b \in SetToSeqs(T) : order = ((a \o b) \o c) \o d
  BY DEF Orders
<1>2. /\ N \cap T = {} /\ T \cap P = {} /\ T \cap H = {} /\ P \cap H = {}
      /\ (N \cup T) \cap P = {} /\ ((N \cup T) \cup P) \cap H = {}
      /\ rows = ((N \cup T) \cup P) \cup H
      /\ rows \ Nodes = (T \cup P) \cup H /\ rows \cap (Switches \cup Heads) = P \cup H
  BY KindFacts DEF Elements
<1>3. Enumerates(a, N) /\ Enumerates(b, T) /\ Enumerates(c, P) /\ Enumerates(d, H)
  BY FS_Subset, SeqEnumerates, SeqsEnumerate
<1> HIDE DEF N, T, P, H, a, c, d
<1>4. Enumerates(a \o b, N \cup T) /\ Before(a \o b, N, T)
  BY <1>2, <1>3, Joined
<1> DEFINE ab == a \o b
           NT == N \cup T
           NTP == NT \cup P
<1> HIDE DEF ab, NT, NTP
<1>5. /\ Enumerates(ab \o c, NTP)
      /\ Before(ab \o c, NT, P) /\ Before(ab \o c, N, T)
  <2>1. Enumerates(ab, NT) /\ Before(ab, N, T) /\ NT \cap P = {}
    BY <1>2, <1>4 DEF ab, NT
  <2>2. QED
    BY <1>2, <1>3, <2>1, Joined DEF NTP
<1>6. /\ Enumerates(order, NTP \cup H)
      /\ Before(order, NTP, H)
      /\ Before(order, NT, P) /\ Before(order, N, T)
  <2>1. NTP \cap H = {} /\ order = (ab \o c) \o d
    BY <1>1, <1>2 DEF ab, NT, NTP
  <2>2. QED
    BY <1>2, <1>3, <1>5, <2>1, Joined
<1>7. Before(order, N, (T \cup P) \cup H) /\ Before(order, T, P \cup H)
  BY <1>6 DEF Before, NT, NTP
<1>8. QED
  BY <1>2, <1>6, <1>7 DEF N, T, NT, NTP

-----------------------------------------------------------------------------
(* Loading *)

\* Part of a sound graph takes in one more of its elements, when the elements
\* that one refers to are there.
LEMMA PartAccepts ==
    ASSUME NEW g, Sound(g), NEW h, Sound(h), h.parts \subseteq g.parts,
           NEW e \in g.parts, e \notin h.parts,
           e \notin Nodes => g.parts \cap Nodes \subseteq h.parts,
           e \in Switches \cup Heads => g.parts \cap Tracks \subseteq h.parts,
           NEW lies, e.kind = "point" => lies[e.id].dir \in Dirs
    PROVE  ~Refused(h, lies, e)
<1>1. /\ g \in Graphs /\ h \in Graphs /\ Resolved(g) /\ Resolved(h)
      /\ e \in Elements /\ IsFiniteSet(h.parts)
  BY OfTracks DEF Sound
<1>2. /\ e \notin Nodes => \A id : Known(g, "node", id) => Known(h, "node", id)
      /\ e \in Switches \cup Heads => \A id : Known(g, "section", id) => Known(h, "section", id)
  <2>1. \A f \in g.parts : f.kind = "node" => f \in Nodes
    BY <1>1, OfTracks, KindFacts
  <2>2. \A f \in g.parts : f.kind = "section" => f \in Tracks
    BY <1>1, OfTracks, KindFacts
  <2>3. QED
    BY <2>1, <2>2 DEF Known
<1>3. ~Known(h, e.kind, e.id)
  BY <1>1 DEF Known, Resolved
<1>4. ASSUME e.kind = "section"
      PROVE  Known(h, "node", e.from) /\ Known(h, "node", e.to) /\ ~ClosesCycle(h, e)
  <2> DEFINE E == Of(h, "section")
             F == Of(g, "section")
  <2>1. e \in Tracks /\ e \notin Nodes /\ e \in F /\ e \notin E
    BY <1>1, <1>4, KindFacts DEF Of
  <2>2. Known(h, "node", e.from) /\ Known(h, "node", e.to)
    <3>1. Known(g, "node", e.from) /\ Known(g, "node", e.to)
      BY <1>1, <2>1 DEF Resolved
    <3>2. QED
      BY <1>2, <2>1, <3>1
  <2>3. E \in SUBSET Tracks /\ IsFiniteSet(E) /\ Straight(F) /\ Woody(F) /\ E \cup {e} \subseteq F
    BY <1>1, <2>1, OfTracks DEF Sound, Of
  <2>4. Straight(E \cup {e}) /\ Woody(E \cup {e}) /\ e.from # e.to
    BY <2>1, <2>3 DEF Straight, Woody
  <2>5. ~Linked(E, e.to, e.from)
    <3> HIDE DEF E
    <3>1. QED
      BY <2>1, <2>3, <2>4, ForestNeverLinks
  <2>6. ~Reachable(h, e.to, e.from)
    BY <2>1, <2>5, WalkIsLink DEF Tracks
  <2>7. QED
    BY <2>2, <2>4, <2>6 DEF ClosesCycle
<1>5. ASSUME e.kind = "point"
      PROVE  /\ Known(h, "node", e.node) /\ LegsStand(h, e)
             /\ ~\E p \in Of(h, "point") : p.node = e.node
  <2>1. e \in Switches /\ e \notin Nodes /\ e \in Of(g, "point")
    BY <1>1, <1>5, KindFacts DEF Of
  <2>2. /\ Known(g, "node", e.node)
        /\ Cardinality({e.heel, e.normal, e.reverse}) = 3
        /\ \A s \in {e.heel, e.normal, e.reverse} : Known(g, "section", s)
        /\ \A q \in Of(g, "point") : q.node = e.node => q = e
    BY <1>1, <2>1 DEF Resolved
  <2>3. QED
    BY <1>2, <2>1, <2>2 DEF LegsStand, Of
<1>6. ASSUME e.kind = "signal"
      PROVE  Known(h, "node", e.entry) /\ Known(h, "section", e.guard)
  <2>1. e \in Heads /\ e \notin Nodes /\ e \in Of(g, "signal")
    BY <1>1, <1>6, KindFacts DEF Of
  <2>2. Known(g, "node", e.entry) /\ Known(g, "section", e.guard)
    BY <1>1, <2>1 DEF Resolved
  <2>3. QED
    BY <1>2, <2>1, <2>2
<1>7. QED
  BY <1>3, <1>4, <1>5, <1>6 DEF Refused

LEMMA EmptyIsSound == Sound(EmptyGraph) /\ EmptyGraph.parts = {}
<1>1. EmptyGraph.parts = {} /\ \A n \in NodeIds : EmptyGraph.byNode[n] = <<>>
  BY DEF EmptyGraph
<1>2. EmptyGraph \in Graphs
  BY EmptySeq DEF EmptyGraph, Graphs
<1>3. \A kind : Of(EmptyGraph, kind) = {}
  BY <1>1 DEF Of
<1>4. IsFiniteSet(EmptyGraph.parts)
  BY <1>1, FS_EmptySet
<1>5. Acyclic(EmptyGraph)
  <2>1. Of(EmptyGraph, "section") = {}
    BY <1>3
  <2>2. ASSUME NEW S \in (SUBSET Of(EmptyGraph, "section")) \ {{}} PROVE FALSE
    <3> DEFINE E == Of(EmptyGraph, "section")
    <3>1. S \in SUBSET E /\ S # {}
      BY <2>2
    <3>2. E = {}
      BY <2>1
    <3> HIDE DEF E
    <3>3. QED
      BY <3>1, <3>2
  <2>3. QED
    BY <2>1, <2>2 DEF Acyclic
<1>6. Resolved(EmptyGraph)
  BY <1>1, <1>3 DEF Resolved
<1>7. Listed(EmptyGraph)
  <2>1. ASSUME NEW n \in NodeIds PROVE IsInjective(EmptyGraph.byNode[n]) /\ Lists(EmptyGraph, n) = {}
    BY <1>1 DEF IsInjective, Lists
  <2>2. QED
    BY <1>3, <2>1 DEF Listed
<1>8. QED
  BY <1>1, <1>2, <1>4, <1>5, <1>6, <1>7 DEF Sound

\* Whatever the order of the rows, a sound layout is loaded as it was stored.
LEMMA LoadIsRows ==
    ASSUME Sound(graph), graph.parts = rows, Readable, NEW order \in Orders
    PROVE  /\ Loads(order)
           /\ Sound(Built(order)[Len(order)])
           /\ Built(order)[Len(order)].parts = rows
<1> DEFINE N == Len(order)
           V == Graphs
           none == EmptyGraph
           Loaded == CHOOSE f : f = [j \in 0..Len(order) |->
                         IF j = 0 THEN EmptyGraph ELSE With(f[j - 1], order[j])]
           step == [j \in 1..N |-> [g \in V |-> With(g, order[j])]]
<1>1. rows \in SUBSET Elements /\ IsFiniteSet(rows)
  BY DEF Sound, Graphs
<1>2. /\ Enumerates(order, rows)
      /\ Before(order, rows \cap Nodes, rows \ Nodes)
      /\ Before(order, rows \cap Tracks, rows \cap (Switches \cup Heads))
  BY <1>1, OrdersRead
<1>3. N \in Nat /\ \A j \in 1..N : order[j] \in rows /\ order[j] \in Elements
  BY <1>1, <1>2, LenProperties, ElementOfSeq DEF Enumerates
<1>4. PICK f : Expansion!Iterates(f, N, V, none, step)
  <2>1. none \in V /\ step \in Expansion!Steps(N, V)
    BY <1>3, EmptyIsSound, WithType DEF Expansion!Steps, Sound
  <2> HIDE DEF N, V, none, step
  <2>2. QED
    BY <1>3, <2>1, Expansion!Iterated
<1>5. f = [j \in 0..Len(order) |-> IF j = 0 THEN EmptyGraph ELSE With(f[j - 1], order[j])]
  <2>1. f \in [0..N -> V] /\ f[0] = EmptyGraph /\ \A j \in 1..N : f[j] = step[j][f[j - 1]]
    BY <1>4 DEF Expansion!Iterates
  <2>2. ASSUME NEW j \in 1..N PROVE f[j] = With(f[j - 1], order[j])
    <3>1. j - 1 \in 0..N
      BY <1>3
    <3>2. f[j - 1] \in V
      BY <2>1, <3>1
    <3> HIDE DEF V
    <3>3. QED
      BY <2>1, <3>2
  <2>3. \A j \in 0..N : j = 0 \/ j \in 1..N
    BY <1>3
  <2> HIDE DEF V
  <2>4. QED
    BY <2>1, <2>2, <2>3
<1>6. Loaded = [j \in 0..Len(order) |-> IF j = 0 THEN EmptyGraph ELSE With(Loaded[j - 1], order[j])]
  BY <1>5
<1>61. Built(order) = Loaded
  BY DEF Built
<1> HIDE DEF Loaded, step
<1>7. Loaded[0] = EmptyGraph /\ \A j \in 1..N : Loaded[j] = With(Loaded[j - 1], order[j])
  <2>1. \A j \in 0..N : Loaded[j] = IF j = 0 THEN EmptyGraph ELSE With(Loaded[j - 1], order[j])
    BY <1>6
  <2>2. 0 \in 0..N /\ \A j \in 1..N : j \in 0..N /\ j # 0
    BY <1>3
  <2> HIDE DEF N
  <2>3. QED
    BY <2>1, <2>2
<1> DEFINE First(j) == {order[i] : i \in 1..j}
           Fine(j) == Sound(Loaded[j]) /\ Loaded[j].parts = First(j)
           Wrong == {j \in 0..N : ~Fine(j)}
<1> HIDE DEF N
<1>8. ASSUME NEW j \in 1..N, Fine(j - 1)
      PROVE  ~Refused(Loaded[j - 1], stored, order[j]) /\ Fine(j)
  <2> DEFINE h == Loaded[j - 1]
             e == order[j]
  <2>1. Sound(h) /\ h.parts = First(j - 1) /\ e \in rows /\ e \in Elements
    BY <1>3, <1>8
  <2>2. First(j - 1) \subseteq rows /\ e \notin First(j - 1) /\ First(j) = First(j - 1) \cup {e}
    <3>1. \A i \in 1..(j - 1) : i \in 1..N /\ i # j
      BY <1>3
    <3>2. \A i \in 1..N : order[i] = e => i = j
      BY <1>2 DEF Enumerates, N
    <3>3. \A i \in 1..j : i \in 1..(j - 1) \/ i = j
      BY <1>3
    <3>4. j \in 1..j /\ \A i \in 1..(j - 1) : i \in 1..j
      BY <1>3
    <3>5. QED
      BY <1>3, <3>1, <3>2, <3>3, <3>4
  <2>3. e \notin Nodes => rows \cap Nodes \subseteq First(j - 1)
    BY <1>2, <2>1 DEF Before, N
  <2>4. e \in Switches \cup Heads => rows \cap Tracks \subseteq First(j - 1)
    BY <1>2, <2>1 DEF Before, N
  <2>5. ~Refused(h, stored, e)
    <3> HIDE DEF h, e, First
    <3>1. e.kind = "point" => stored[e.id].dir \in Dirs
      BY <2>1 DEF Readable
    <3>2. QED
      BY <2>1, <2>2, <2>3, <2>4, <3>1, PartAccepts
  <2>6. Sound(With(h, e)) /\ With(h, e).parts = h.parts \cup {e}
    <3> HIDE DEF h, e
    <3>1. QED
      BY <2>1, <2>5, WithSound, WithType DEF Sound
  <2>7. Loaded[j] = With(h, e)
    BY <1>7
  <2> HIDE DEF h, e, First
  <2>8. QED
    BY <2>1, <2>2, <2>5, <2>6, <2>7 DEF h, e
<1>9. Wrong = {}
  <2>1. SUFFICES ASSUME Wrong # {} PROVE FALSE
    OBVIOUS
  <2>2. PICK m \in Wrong : \A k \in Wrong : m <= k
    <3>1. Wrong \in SUBSET Nat
      OBVIOUS
    <3> HIDE DEF Wrong
    <3>2. QED
      BY <2>1, <3>1, Expansion!LeastNumber
  <2>3. m \in 0..N /\ ~Fine(m)
    OBVIOUS
  <2>4. Fine(0)
    BY <1>7, EmptyIsSound
  <2> HIDE DEF Fine
  <2>5. m \in 1..N /\ m - 1 \in 0..N
    BY <1>3, <2>3, <2>4
  <2>6. m - 1 \notin Wrong
    <3> HIDE DEF Wrong
    <3>1. QED
      BY <1>3, <2>2, <2>5
  <2>7. QED
    BY <1>8, <2>3, <2>5, <2>6
<1>10. \A j \in 0..N : Fine(j)
  <2> HIDE DEF Fine
  <2>1. QED
    BY <1>9
<1>11. Fine(N) /\ \A j \in 1..N : ~Refused(Loaded[j - 1], stored, order[j])
  <2>1. N \in 0..N /\ \A j \in 1..N : j - 1 \in 0..N
    BY <1>3
  <2> HIDE DEF Fine
  <2>2. QED
    BY <1>8, <1>10, <2>1
<1>12. Loads(order) /\ Built(order)[Len(order)] = Loaded[N]
  BY <1>11, <1>61 DEF Loads, N
<1>13. First(N) = rows
  BY <1>2, <1>3 DEF Enumerates, N
<1>14. Sound(Loaded[N]) /\ Loaded[N].parts = First(N)
  <2>1. Fine(N)
    BY <1>11
  <2> HIDE DEF First
  <2>2. QED
    BY <2>1
<1> HIDE DEF Fine, First
<1>15. QED
  BY <1>12, <1>13, <1>14

-----------------------------------------------------------------------------
(* The operations *)

\* A switch whose row no graph takes.
Unreadable(e) == e.kind = "point" /\ stored[e.id].dir \notin Dirs

\* No two switches are stored under one id.
OneRowPerSwitch == \A p, q \in rows : p.kind = "point" /\ q.kind = "point" /\ p.id = q.id => p = q

\* An element is missing in memory only while a switch is that cannot be read; and
\* as it is missing, no operation reaches its row.
LayoutInv ==
    /\ Sound(graph) /\ graph.parts \subseteq rows
    /\ rows \in SUBSET Elements /\ IsFiniteSet(rows) /\ OneRowPerSwitch
    /\ graph.parts # rows => \E e \in rows \ graph.parts : Unreadable(e)

\* LoadAll gives up over such a row.
LEMMA UnreadableStops ==
    ASSUME LayoutInv, NEW order \in Orders, Loads(order)
    PROVE  Readable
<1>1. SUFFICES ASSUME NEW e \in rows, Unreadable(e) PROVE FALSE
  BY DEF Readable, Unreadable
<1>2. Enumerates(order, rows)
  BY OrdersRead DEF LayoutInv
<1>3. PICK j \in 1..Len(order) : order[j] = e
  BY <1>2 DEF Enumerates
<1>4. Refused(Built(order)[j - 1], stored, order[j])
  BY <1>1, <1>3 DEF Unreadable, Refused
<1>5. QED
  BY <1>4 DEF Loads

\* A switch that is missing in memory keeps its row.
LEMMA MissingKept ==
    ASSUME NEW P, NEW e \in Elements, e.kind = "point", e.id \notin P, Record(P)
    PROVE  stored'[e.id] = stored[e.id]
<1>1. e.id \in PointIds
  BY KindFacts DEF Switches
<1>2. QED
  BY <1>1 DEF Record

LEMMA AddKeeps ==
    ASSUME LayoutInv, NEW e \in Elements, NEW lies, Add(e, lies)
    PROVE  LayoutInv'
<1>1. Sound(graph) /\ ~Refused(graph, lies, e) /\ graph \in Graphs /\ Fresh(e)
  BY DEF LayoutInv, Add, Sound
<1>2. Sound(With(graph, e)) /\ With(graph, e).parts = graph.parts \cup {e}
  BY <1>1, WithSound, WithType
<1>3. CASE Done(e, lies) \/ EventFails(e, lies)
  <2>1. /\ graph' = With(graph, e) /\ rows' = rows \cup {e}
        /\ Record(IF e.kind = "point" THEN {e.id} ELSE {})
    BY <1>3 DEF Done, EventFails, Taken
  <2>2. Sound(graph') /\ graph'.parts \subseteq rows'
    BY <1>2, <2>1 DEF LayoutInv
  <2>3. rows' \in SUBSET Elements /\ IsFiniteSet(rows')
    BY <2>1, FS_AddElement DEF LayoutInv
  <2>4. OneRowPerSwitch'
    BY <1>1, <2>1 DEF LayoutInv, OneRowPerSwitch, Fresh
  <2>5. ASSUME graph'.parts # rows' PROVE \E f \in rows' \ graph'.parts : Unreadable(f)'
    <3>1. PICK f \in rows \ graph.parts : Unreadable(f)
      BY <1>2, <2>1, <2>5 DEF LayoutInv
    <3>2. f.kind = "point" /\ f \in Elements
      BY <3>1 DEF Unreadable, LayoutInv
    <3>3. e.kind = "point" => f.id # e.id
      BY <1>1, <3>1, <3>2 DEF Fresh
    <3>4. f # e
      BY <3>2, <3>3
    <3>5. stored'[f.id] = stored[f.id]
      BY <2>1, <3>2, <3>3, MissingKept
    <3>6. Unreadable(f)'
      BY <3>1, <3>5 DEF Unreadable
    <3>7. QED
      BY <1>2, <2>1, <3>1, <3>4, <3>6
  <2>6. QED
    BY <2>2, <2>3, <2>4, <2>5 DEF LayoutInv
<1>4. CASE RowFails(e)
  <2>1. graph' = graph /\ rows' = rows /\ stored' = stored
    BY <1>1, <1>4, WithoutUndoes DEF RowFails
  <2>2. QED
    BY <2>1 DEF LayoutInv, OneRowPerSwitch, Unreadable
<1>5. QED
  BY <1>3, <1>4 DEF Add

\* What happens to the switches of the graph touches no row of a missing one.
LEMMA RunningKeeps ==
    ASSUME LayoutInv, UNCHANGED <<graph, rows>>, NEW P,
           \A p \in P : Known(graph, "point", p), Persist(P)
    PROVE  LayoutInv'
<1>1. ASSUME NEW f \in rows \ graph.parts, Unreadable(f) PROVE Unreadable(f)'
  <2>1. f.kind = "point" /\ f \in Elements
    BY <1>1 DEF Unreadable, LayoutInv
  <2>2. f.id \notin P
    BY <1>1, <2>1 DEF Known, LayoutInv, OneRowPerSwitch
  <2>3. stored'[f.id] = stored[f.id]
    BY <2>1, <2>2, MissingKept DEF Persist
  <2>4. QED
    BY <1>1, <2>3 DEF Unreadable
<1>2. QED
  BY <1>1 DEF LayoutInv, OneRowPerSwitch

LEMMA ReloadKeeps ==
    ASSUME LayoutInv, Restart \/ Reconcile
    PROVE  LayoutInv'
<1>1. PICK order \in Orders :
         /\ graph' = IF Loads(order) THEN Built(order)[Len(order)] ELSE EmptyGraph
         /\ rows' = rows /\ stored' = stored
  BY DEF Restart, Reconcile
<1>2. rows' \in SUBSET Elements /\ IsFiniteSet(rows') /\ OneRowPerSwitch'
  BY <1>1 DEF LayoutInv, OneRowPerSwitch
<1>3. CASE Readable
  <2>1. graph.parts = rows
    BY <1>3 DEF LayoutInv, Readable, Unreadable
  <2>2. Sound(graph') /\ graph'.parts = rows
    BY <1>1, <1>3, <2>1, LoadIsRows DEF LayoutInv
  <2>3. QED
    BY <1>1, <1>2, <2>2 DEF LayoutInv
<1>4. CASE ~Readable
  <2>1. graph' = EmptyGraph
    BY <1>1, <1>4, UnreadableStops
  <2>2. \E e \in rows : Unreadable(e)
    BY <1>4 DEF Readable, Unreadable
  <2>3. \E e \in rows' \ graph'.parts : Unreadable(e)'
    BY <1>1, <2>1, <2>2, EmptyIsSound DEF Unreadable
  <2>4. QED
    BY <1>2, <2>1, <2>3, EmptyIsSound DEF LayoutInv
<1>5. QED
  BY <1>3, <1>4

LEMMA InvStep == LayoutInv /\ [Next]_layout => LayoutInv'
<1> SUFFICES ASSUME LayoutInv, [Next]_layout PROVE LayoutInv'
  OBVIOUS
<1>1. CASE \E e \in Nodes : AddNode(e)
  BY <1>1, AddKeeps DEF AddNode, Elements
<1>2. CASE \E e \in Tracks : AddSection(e)
  BY <1>2, AddKeeps DEF AddSection, Elements
<1>3. CASE \E e \in Switches, dir \in Directions : AddPoint(e, dir)
  BY <1>3, AddKeeps DEF AddPoint, Elements
<1>4. CASE \E e \in Heads : AddSignal(e)
  BY <1>4, AddKeeps DEF AddSignal, Elements
<1>5. CASE ResetLayout
  <2>1. graph' = EmptyGraph /\ rows' = {}
    BY <1>5 DEF ResetLayout
  <2>2. QED
    BY <2>1, EmptyIsSound, FS_EmptySet DEF LayoutInv, OneRowPerSwitch
<1>6. CASE \E p \in PointIds, dir \in Directions : OperatePoint(p, dir)
  BY <1>6, RunningKeeps DEF OperatePoint
<1>7. CASE AdvanceClock
  BY <1>7, RunningKeeps DEF AdvanceClock
<1>8. CASE Restart \/ Reconcile
  BY <1>8, ReloadKeeps
<1>9. CASE UNCHANGED layout
  BY <1>9 DEF LayoutInv, OneRowPerSwitch, Unreadable, layout
<1>10. QED
  BY <1>1, <1>2, <1>3, <1>4, <1>5, <1>6, <1>7, <1>8, <1>9 DEF Next

LEMMA InvHolds == Spec => []LayoutInv
<1>1. Init => LayoutInv
  BY EmptyIsSound, FS_EmptySet DEF Init, LayoutInv, OneRowPerSwitch
<1>2. QED
  BY <1>1, InvStep, PTL DEF Spec

\* However a yard is built, its sections never close a circle (topology.go 55-82).
THEOREM YardIsForest == Spec => []Forest
<1>1. LayoutInv => Forest
  BY DEF LayoutInv, Sound, Forest
<1>2. QED
  BY <1>1, InvHolds, PTL

\* No rollback, reset or restart leaves a reference that leads nowhere, two
\* elements with one id, or two switches at one node (topology.go 91-158).
THEOREM ReferencesResolve == Spec => []References
<1>1. LayoutInv => References
  BY DEF LayoutInv, Sound, References
<1>2. QED
  BY <1>1, InvHolds, PTL

\* A node lists the sections that end there, each once, and so the walk that
\* looks up what a node lists always finds it (topology.go 178-185, 309-325).
THEOREM NodesListTheirSections == Spec => []Adjacency
<1>1. LayoutInv => Adjacency
  BY DEF LayoutInv, Sound, Adjacency
<1>2. QED
  BY <1>1, InvHolds, PTL

\* Memory never has an element that is not stored, and as long as every switch is
\* stored lying N or R it has them all, after every failed insert, reset, restart
\* and reconcile and whatever the order of the rows (layout_ops.go 28-35,
\* recovery.go 24-79, service.go 60-66).
THEOREM GraphStaysStore == Spec => []GraphIsStore
<1>1. LayoutInv => GraphIsStore
  BY DEF LayoutInv, GraphIsStore, Readable, Unreadable
<1>2. QED
  BY <1>1, InvHolds, PTL

-----------------------------------------------------------------------------
(* Routes in a layout *)

\* The maps of the graph hold each element under its id.
LEMMA Looked ==
    ASSUME Sound(graph), NEW kind, NEW e \in Of(graph, kind)
    PROVE  e.id \in IdsOf(kind) /\ The(kind, e.id) = e
<1>1. \A f \in Of(graph, kind) : f.id = e.id => f = e
  BY DEF Sound, Resolved, Of
<1>2. \E f \in Of(graph, kind) : f.id = e.id
  OBVIOUS
<1>3. QED
  BY <1>1, <1>2 DEF IdsOf, The

LEMMA Named ==
    ASSUME Sound(graph), NEW kind, NEW id \in IdsOf(kind)
    PROVE  The(kind, id) \in Of(graph, kind) /\ The(kind, id).id = id
BY Looked DEF IdsOf

\* Three ids make a set of three only if they differ.
LEMMA ThreeDiffer ==
    ASSUME NEW a, NEW b, NEW c, Cardinality({a, b, c}) = 3
    PROVE  a # b /\ a # c /\ b # c
<1>1. ASSUME NEW x, NEW y PROVE Cardinality({x, y}) # 3
  <2>1. IsFiniteSet({x}) /\ Cardinality({x}) = 1 /\ {x} \cup {y} = {x, y}
    BY FS_Singleton
  <2>2. Cardinality({x} \cup {y}) = IF y \in {x} THEN Cardinality({x}) ELSE Cardinality({x}) + 1
    BY <2>1, FS_AddElement
  <2>3. QED
    BY <2>1, <2>2
<1>2. (a = b => {a, b, c} = {a, c}) /\ (a = c => {a, b, c} = {a, b}) /\ (b = c => {a, b, c} = {a, b})
  OBVIOUS
<1>3. QED
  BY <1>1, <1>2

\* A sound layout can be drawn.
LEMMA LayoutIsDrawn ==
    ASSUME Sound(graph)
    PROVE  Expansion!Drawn
<1> DEFINE Ids == IdsOf("section")
           S(s) == The("section", s)
<1>1. /\ Expansion!Tracks = Ids
      /\ \A s \in Ids : /\ S(s) \in Of(graph, "section") /\ S(s).id = s
                        /\ SectionEnds[s][1] = S(s).from /\ SectionEnds[s][2] = S(s).to
                        /\ \A n : Expansion!Touches(s, n) <=> n \in {S(s).from, S(s).to}
  BY Named DEF Expansion!Tracks, Expansion!Touches, SectionEnds
<1>2. graph.parts \in SUBSET Elements /\ graph.byNode \in [NodeIds -> Seq(SectionIds)]
      /\ IsFiniteSet(graph.parts)
  BY DEF Sound, Graphs
<1>3. \A t \in Of(graph, "section") : t \in Tracks
  BY <1>2, KindFacts DEF Of
<1>4. \A t \in Of(graph, "section") : t.from \in NodeIds /\ t.to \in NodeIds /\ t.id \in SectionIds
  BY <1>3 DEF Tracks
<1>5. IsFiniteSet(Ids)
  <2> DEFINE T == Of(graph, "section")
             f == [t \in T |-> t.id]
  <2>1. IsFiniteSet(T)
    BY <1>2, FS_Subset DEF Of
  <2>2. f \in Surjection(T, Ids)
    BY DEF Surjection, IdsOf
  <2> HIDE DEF T, f, Ids
  <2>3. QED
    BY <2>1, <2>2, FS_Surjection
<1>6. "" \notin Ids
  BY <1>4, IdAssumption DEF IdsOf
<1>7. \A s \in Ids : SectionEnds[s][1] # SectionEnds[s][2]
  BY <1>1 DEF Sound, Acyclic
<1>8. ASSUME NEW s \in Ids, NEW t \in Ids, Expansion!Touches(t, SectionEnds[s][1]),
             Expansion!Touches(t, SectionEnds[s][2])
      PROVE  s = t
  <2>1. SUFFICES ASSUME s # t PROVE FALSE
    OBVIOUS
  <2> DEFINE x == S(s)
             y == S(t)
             P == {x, y}
  <2>2. /\ x \in Of(graph, "section") /\ y \in Of(graph, "section") /\ x # y
        /\ x.from \in {y.from, y.to} /\ x.to \in {y.from, y.to} /\ x.from # x.to
    BY <1>1, <1>7, <1>8, <2>1
  <2> HIDE DEF x, y
  <2>3. P \in (SUBSET Of(graph, "section")) \ {{}}
    BY <2>2
  <2>4. PICK n \in NodeIds, u \in P : \A v \in P : n \in {v.from, v.to} <=> v = u
    BY <2>3 DEF Sound, Acyclic
  <2>5. n \in {x.from, x.to} <=> n \in {y.from, y.to}
    BY <2>2
  <2>6. QED
    BY <2>2, <2>4, <2>5
<1>9. \A p \in IdsOf("point") :
        /\ The("point", p) \in Of(graph, "point") /\ The("point", p).id = p
        /\ PointLegs[p].node = The("point", p).node /\ PointLegs[p].heel = The("point", p).heel
        /\ PointLegs[p].normal = The("point", p).normal
        /\ PointLegs[p].reverse = The("point", p).reverse
  BY Named DEF PointLegs
<1>10. \A g \in IdsOf("signal") :
        /\ The("signal", g) \in Of(graph, "signal")
        /\ EntryNodes[g] = The("signal", g).entry /\ GuardedSections[g] = The("signal", g).guard
  BY Named DEF EntryNodes, GuardedSections
<1>11. \A id : Known(graph, "section", id) <=> id \in Ids
  BY DEF Known, IdsOf, Of
<1>12. Expansion!Nodes \subseteq NodeIds
  <2>1. \A h \in Of(graph, "signal") : h.entry \in NodeIds
    BY <1>2, KindFacts DEF Of, Heads
  <2>2. DOMAIN EntryNodes = IdsOf("signal")
    BY DEF EntryNodes
  <2>3. QED
    BY <1>1, <1>4, <1>10, <2>1, <2>2 DEF Expansion!Nodes
<1>13. ASSUME NEW n \in NodeIds
       PROVE  /\ graph.byNode[n] \in Seq(Ids)
              /\ \A j \in 1..Len(graph.byNode[n]) : Expansion!Touches(graph.byNode[n][j], n)
  <2> DEFINE list == graph.byNode[n]
  <2>1. list \in Seq(SectionIds)
    BY <1>2
  <2>2. Lists(graph, n) = {t.id : t \in {t \in Of(graph, "section") : n \in {t.from, t.to}}}
    BY DEF Sound, Listed
  <2>3. \A j \in 1..Len(list) : list[j] \in Lists(graph, n)
    BY DEF Lists
  <2>4. \A j \in 1..Len(list) : list[j] \in Ids /\ Expansion!Touches(list[j], n)
    <3>1. ASSUME NEW t \in Of(graph, "section"), n \in {t.from, t.to}
          PROVE  t.id \in Ids /\ Expansion!Touches(t.id, n)
      BY <1>1, <3>1, Looked
    <3> HIDE DEF list, Ids
    <3>2. QED
      BY <2>2, <2>3, <3>1
  <2> HIDE DEF list, Ids
  <2>5. Len(list) \in Nat /\ list = [j \in 1..Len(list) |-> list[j]]
    BY <2>1, LenProperties
  <2>6. list \in [1..Len(list) -> Ids]
    BY <2>4, <2>5
  <2>7. list \in Seq(Ids)
    BY <2>5, <2>6, SeqDef
  <2>8. QED
    BY <2>4, <2>7 DEF list
<1>14. ASSUME NEW p \in IdsOf("point")
       PROVE  /\ Expansion!Legs(p) \subseteq Ids
              /\ PointLegs[p].heel \notin {PointLegs[p].normal, PointLegs[p].reverse}
              /\ PointLegs[p].normal # PointLegs[p].reverse
  <2> DEFINE x == The("point", p)
  <2>1. x \in Of(graph, "point")
    BY <1>9
  <2> HIDE DEF x
  <2>2. Cardinality({x.heel, x.normal, x.reverse}) = 3
        /\ \A s \in {x.heel, x.normal, x.reverse} : Known(graph, "section", s)
    BY <2>1 DEF Sound, Resolved
  <2>3. x.heel # x.normal /\ x.heel # x.reverse /\ x.normal # x.reverse
    BY <2>2, ThreeDiffer
  <2>4. QED
    BY <1>9, <1>11, <2>2, <2>3 DEF Expansion!Legs, x
<1>15. ASSUME NEW p \in IdsOf("point"), NEW q \in IdsOf("point"), PointLegs[p].node = PointLegs[q].node
       PROVE  p = q
  <2> DEFINE x == The("point", p)
             y == The("point", q)
  <2>1. x \in Of(graph, "point") /\ y \in Of(graph, "point") /\ x.node = y.node /\ x.id = p /\ y.id = q
    BY <1>9, <1>15
  <2> HIDE DEF x, y
  <2>2. x = y
    BY <2>1 DEF Sound, Resolved
  <2>3. QED
    BY <2>1, <2>2
<1>16. \A g \in IdsOf("signal") : GuardedSections[g] \in Ids
  BY <1>10, <1>11 DEF Sound, Resolved
<1>17. DOMAIN EntryNodes = IdsOf("signal") /\ Expansion!Branches = IdsOf("point")
  BY DEF EntryNodes, Expansion!Branches, PointLegs
<1> HIDE DEF Ids
<1>18. QED
  BY <1>1, <1>5, <1>6, <1>7, <1>8, <1>12, <1>13, <1>14, <1>15, <1>16, <1>17, FiniteSame
     DEF Expansion!Drawn

\* The operators of Topology are those its theorems are about.
LEMMA SameSound ==
    ASSUME NEW g, NEW s
    PROVE  Expansion!Sound(g, s) <=> Way!Sound(g, s)
<1> USE DEF Expansion!Tracks, Way!Tracks, Expansion!Branches, Way!Branches, Expansion!Touches, Way!Touches,
            Expansion!OtherEnd, Way!OtherEnd, Expansion!Range, Way!Range, Expansion!Min, Way!Min,
            Expansion!Upstream, Way!Upstream, Expansion!IsInjective, Way!IsInjective, Expansion!Nodes, Way!Nodes, Expansion!Legs, Way!Legs
<1>1. Expansion!Walk(g, s) = Way!Walk(g, s)
  BY DEF Expansion!Cardinality, Way!Cardinality, Expansion!Reaches, Way!Reaches, Expansion!NextSection, Way!NextSection,
         Expansion!FacingReqs, Way!FacingReqs, Expansion!Step, Way!Step, Expansion!Start, Way!Start, Expansion!Walk, Way!Walk
<1>2. Expansion!Expands(g, s) <=> Way!Expands(g, s)
  BY <1>1 DEF Expansion!Expands, Way!Expands
<1>3. ASSUME NEW path, NEW points PROVE Expansion!FlankReqs(path, points) = Way!FlankReqs(path, points)
  BY DEF Expansion!FlankReqs, Way!FlankReqs
<1>4. ASSUME NEW path, NEW seconds PROVE Expansion!Total(path, seconds) = Way!Total(path, seconds)
  BY DEF Expansion!Total, Way!Total
<1>5. ASSUME NEW seconds PROVE Expansion!Expand(g, s, seconds) = Way!Expand(g, s, seconds)
  BY <1>1, <1>3, <1>4 DEF Expansion!Expand, Way!Expand
<1>6. ASSUME NEW path, NEW n PROVE Expansion!OneWay(path, n) <=> Way!OneWay(path, n)
  BY DEF Expansion!OneWay, Way!OneWay, Expansion!Onward, Way!Onward, Expansion!Meet, Way!Meet, Expansion!LegsDrawn, Way!LegsDrawn
<1>7. ASSUME NEW path, NEW points, NEW n
      PROVE  Expansion!FacingAsked(path, points, n) <=> Way!FacingAsked(path, points, n)
  BY DEF Expansion!FacingAsked, Way!FacingAsked, Expansion!FacedAt, Way!FacedAt, Expansion!EndsAtHeel, Way!EndsAtHeel
<1>8. ASSUME NEW e PROVE Expansion!FitToSet(e, g, s) <=> Way!FitToSet(e, g, s)
  BY <1>6, <1>7 DEF Expansion!FitToSet, Way!FitToSet, Expansion!Direction, Way!Direction
<1>9. QED
  BY <1>1, <1>2, <1>5, <1>8 DEF Expansion!Sound, Way!Sound

\* However a yard is built, and after every failure, reset and restart, Expand ends
\* and what it returns is fit to be set (route_expand.go 35-174).
THEOREM RoutesStaySound == Spec => []RoutesAreSound
<1>1. LayoutInv => RoutesAreSound
  <2> SUFFICES ASSUME LayoutInv, NEW g \in IdsOf("signal"), NEW s \in IdsOf("section")
               PROVE  Way!Sound(g, s)
    BY DEF RoutesAreSound
  <2>1. Expansion!Drawn
    BY LayoutIsDrawn DEF LayoutInv
  <2>2. g \in DOMAIN EntryNodes
    BY DEF EntryNodes
  <2>3. Expansion!Sound(g, s)
    BY <2>1, <2>2, Expansion!ExpandIsSound
  <2>4. QED
    BY <2>3, SameSound
<1>2. QED
  BY <1>1, InvHolds, PTL

=============================================================================
