--------------------------- MODULE RequestsProofs ---------------------------
(***************************************************************************)
(* The handlers over mutex, connection and store, for any number of        *)
(* threads and of changes: memory and store, the numbering of the events,  *)
(* and what an answer may show.                                            *)
(***************************************************************************)
EXTENDS Requests, FiniteSetTheorems, TLAPS

Event == [seq : Nat, kind : Changes]

InTx == {"begin", "rows", "event", "commit"}

Inside == InTx \cup {"enter", "insert", "seq", "append", "sections", "loaded", "unlock"}

\* Types, and who holds the mutex and the connection.
Typed ==
    /\ op \in [Threads -> Kinds \cup {"none"}] /\ pc \in [Threads -> Steps]
    /\ got \in [Threads -> Nat] /\ page \in [Threads -> Seq(Event)]
    /\ nodes \in Nat /\ occ \in Nat /\ dnodes \in Nat /\ docc \in Nat
    /\ log \in Seq(Event)
    /\ tx \in [occ : Nat, log : Seq(Event)]
    /\ mutex \in Threads \cup {NoThread} /\ conn \in Threads \cup {NoThread}

Held ==
    \A t \in Threads :
        /\ mutex = t <=> pc[t] \in Inside
        /\ conn = t <=> pc[t] \in {"rows", "event", "commit", "scan"}

\* A step is only taken for its kind of request.
Kept ==
    \A t \in Threads :
        /\ pc[t] \in InTx => op[t] = "occupancy"
        /\ pc[t] \in {"insert", "seq", "append"} => op[t] = "addNode"

\* Memory is ahead of the store by the one change whose write is under way.
Ahead ==
    /\ mutex = NoThread => nodes = dnodes /\ occ = docc
    /\ \A t \in Threads :
         /\ pc[t] = "insert" => nodes = dnodes + 1 /\ occ = docc
         /\ pc[t] \in InTx => nodes = dnodes /\ occ = docc + 1
         /\ pc[t] \in Inside \ (InTx \cup {"insert"}) => nodes = dnodes /\ occ = docc

\* The open transaction sees the committed log, which nobody else can extend.
InStep ==
    \A t \in Threads :
        /\ pc[t] \in {"rows", "event"} => tx.log = log
        /\ pc[t] \in {"event", "commit"} => tx.occ = occ
        /\ pc[t] = "commit" => tx.log = Append(log, [seq |-> Len(log) + 1, kind |-> "occupancy"])

\* A number read by a layout operation is still the next one when it is used.
Numbered ==
    /\ EventsInOrder
    /\ \A t \in Threads : pc[t] = "append" => got[t] = Len(log) + 1

\* A stored node whose event is not written yet has room for it.
Counted ==
    /\ EventsMatchRows
    /\ \A t \in Threads :
         pc[t] \in {"seq", "append"} => Cardinality(EventsOf("addNode")) + 1 <= dnodes

Answered ==
    /\ AnswersAreStored
    /\ \A t \in Threads :
         /\ pc[t] = "idle" => got[t] = 0 /\ page[t] = <<>>
         /\ pc[t] = "sections" => got[t] = dnodes

Invariant == Typed /\ Held /\ Kept /\ Ahead /\ InStep /\ Numbered /\ Counted /\ Answered

USE DEF At, To, Keep, Connected

-----------------------------------------------------------------------------
(* Facts about the log *)

\* In a log numbered without gaps the next number is its length and one.
LEMMA NextSeqIsNext ==
    ASSUME NEW events \in Seq(Event), \A j \in DOMAIN events : events[j].seq = j
    PROVE  NextSeq(events) = Len(events) + 1
<1> DEFINE nums == {events[j].seq : j \in DOMAIN events}
<1>1. CASE events = <<>>
  BY <1>1 DEF NextSeq
<1>2. CASE events # <<>>
  <2>1. Len(events) \in Nat \ {0} /\ DOMAIN events = 1..Len(events)
    BY <1>2
  <2>2. Len(events) \in nums /\ \A j \in DOMAIN events : Len(events) >= events[j].seq
    <3>1. Len(events) \in DOMAIN events /\ events[Len(events)].seq = Len(events)
      BY <2>1
    <3>2. QED
      BY <2>1, <3>1
  <2>3. \A m \in nums : (\A j \in DOMAIN events : m >= events[j].seq) => m = Len(events)
    <3>1. ASSUME NEW m \in nums, \A j \in DOMAIN events : m >= events[j].seq
          PROVE  m = Len(events)
      <4>1. m \in 1..Len(events)
        BY <2>1
      <4>2. m >= Len(events)
        BY <2>1, <3>1
      <4>3. QED
        BY <2>1, <4>1, <4>2
    <3>2. QED
      BY <3>1
  <2>4. (CHOOSE m \in nums : \A j \in DOMAIN events : m >= events[j].seq) = Len(events)
    <3> HIDE DEF nums
    <3>1. QED
      BY <2>2, <2>3
  <2>5. NextSeq(events) = 1 + (CHOOSE m \in nums : \A j \in DOMAIN events : m >= events[j].seq)
    BY <1>2, Zenon DEF NextSeq
  <2> DEFINE last == CHOOSE m \in nums : \A j \in DOMAIN events : m >= events[j].seq
  <2>6. NextSeq(events) = 1 + last /\ last = Len(events)
    BY <2>4, <2>5
  <2> HIDE DEF last
  <2>7. QED
    BY <2>1, <2>6
<1>3. QED
  BY <1>1, <1>2

LEMMA AppendEventFacts ==
    ASSUME NEW events \in Seq(Event), NEW e \in Event
    PROVE  /\ Append(events, e) \in Seq(Event)
           /\ Len(Append(events, e)) = Len(events) + 1
           /\ DOMAIN Append(events, e) = 1..(Len(events) + 1)
           /\ \A j \in 1..Len(events) : Append(events, e)[j] = events[j]
           /\ Append(events, e)[Len(events) + 1] = e
           /\ \A n \in 0..Len(events) : SubSeq(Append(events, e), 1, n) = SubSeq(events, 1, n)
OBVIOUS

\* EventsOf, of any log.
OfKind(events, c) == {j \in DOMAIN events : events[j].kind = c}

\* Adding the next event keeps the numbering, and adds one event of its kind.
LEMMA LogGrows ==
    ASSUME log \in Seq(Event), EventsInOrder, NEW kind \in Changes,
           log' = Append(log, [seq |-> Len(log) + 1, kind |-> kind])
    PROVE  /\ log' \in Seq(Event)
           /\ EventsInOrder'
           /\ \A c \in Changes :
                Cardinality(OfKind(log', c)) =
                  Cardinality(OfKind(log, c)) + IF c = kind THEN 1 ELSE 0
           /\ Len(log') = Len(log) + 1
           /\ \A n \in 0..Len(log) : SubSeq(log', 1, n) = SubSeq(log, 1, n)
<1> DEFINE e == [seq |-> Len(log) + 1, kind |-> kind]
<1>1. e \in Event /\ e.seq = Len(log) + 1 /\ e.kind = kind
  BY DEF Event
<1> HIDE DEF e
<1>2. /\ log' \in Seq(Event) /\ Len(log') = Len(log) + 1
      /\ DOMAIN log' = 1..(Len(log) + 1) /\ DOMAIN log = 1..Len(log)
      /\ \A j \in 1..Len(log) : log'[j] = log[j]
      /\ log'[Len(log) + 1] = e
      /\ \A n \in 0..Len(log) : SubSeq(log', 1, n) = SubSeq(log, 1, n)
      /\ Len(log) \in Nat
  BY <1>1, AppendEventFacts DEF e
<1>3. EventsInOrder'
  BY <1>1, <1>2 DEF EventsInOrder
<1>4. ASSUME NEW c \in Changes
      PROVE  Cardinality(OfKind(log', c)) = Cardinality(OfKind(log, c)) + IF c = kind THEN 1 ELSE 0
  <2>1. IsFiniteSet(OfKind(log, c)) /\ Len(log) + 1 \notin OfKind(log, c)
    <3>1. IsFiniteSet(1..Len(log))
      BY <1>2, FS_Interval
    <3>2. OfKind(log, c) \subseteq 1..Len(log)
      BY <1>2 DEF OfKind
    <3>3. QED
      BY <1>2, <3>1, <3>2, FS_Subset
  <2>2. OfKind(log', c) = IF c = kind THEN OfKind(log, c) \cup {Len(log) + 1} ELSE OfKind(log, c)
    BY <1>1, <1>2 DEF OfKind
  <2>3. Cardinality(OfKind(log, c)) \in Nat
    BY <2>1, FS_CardinalityType
  <2>4. Cardinality(OfKind(log, c) \cup {Len(log) + 1}) = Cardinality(OfKind(log, c)) + 1
    BY <2>1, FS_AddElement
  <2> HIDE DEF e
  <2>5. CASE c = kind
    BY <2>2, <2>4, <2>5
  <2>6. CASE c # kind
    BY <2>2, <2>3, <2>6
  <2>7. QED
    BY <2>5, <2>6
<1>5. QED
  BY <1>2, <1>3, <1>4

\* Whoever is inside, is inside alone.
LEMMA Alone ==
    ASSUME Held, NEW t \in Threads, NEW u \in Threads, pc[t] \in Inside, pc[u] \in Inside
    PROVE  t = u
BY DEF Held

-----------------------------------------------------------------------------
(* One lemma for each part of the invariant, one step for each action *)

LEMMA NextSeqLog ==
    ASSUME Typed, Numbered
    PROVE  NextSeq(log) = Len(log) + 1 /\ NextSeq(log) \in Nat
<1>1. log \in Seq(Event) /\ \A j \in DOMAIN log : log[j].seq = j
  BY DEF Typed, Numbered, EventsInOrder
<1>2. NextSeq(log) = Len(log) + 1
  BY <1>1, NextSeqIsNext
<1>3. QED
  BY <1>1, <1>2

LEMMA TypedStep == Invariant /\ [Next]_server => Typed'
<1> SUFFICES ASSUME Invariant, [Next]_server PROVE Typed'
  OBVIOUS
<1>0. Typed /\ Kept /\ Ahead /\ InStep /\ Numbered
  BY DEF Invariant
<1> USE <1>0 DEF Typed, Kinds, Changes, Steps
<1>1. ASSUME NEW t \in Threads, NEW kind \in Kinds, Receive(t, kind)
      PROVE  Typed'
  BY <1>1 DEF Receive
<1>2. ASSUME NEW t \in Threads, Lock(t) \/ Unlock(t) \/ Collect(t) \/ Count(t)
      PROVE  Typed'
  <2>1. CASE Lock(t)
    BY <2>1 DEF Lock
  <2>2. CASE Unlock(t)
    BY <2>2 DEF Unlock
  <2>3. CASE Collect(t)
    BY <2>3 DEF Collect
  <2>4. CASE Count(t)
    BY <2>4 DEF Count
  <2>5. QED
    BY <1>2, <2>1, <2>2, <2>3, <2>4
<1>2a. ASSUME NEW t \in Threads, Encode(t)
      PROVE  Typed'
  BY <1>2a DEF Encode
<1>3a. ASSUME NEW t \in Threads, MarkOccupied(t)
      PROVE  Typed'
  BY <1>3a DEF MarkOccupied
<1>3b. ASSUME NEW t \in Threads, BeginTx(t)
      PROVE  Typed'
  BY <1>3b DEF BeginTx
<1>3c. ASSUME NEW t \in Threads, WriteRows(t)
      PROVE  Typed'
  BY <1>3c DEF WriteRows
<1>3d. ASSUME NEW t \in Threads, Commit(t)
      PROVE  Typed'
  BY <1>3d DEF Commit, NoTx
<1>4. ASSUME NEW t \in Threads, WriteEvent(t)
      PROVE  Typed'
  <2>1. tx.log = log /\ NextSeq(log) = Len(log) + 1 /\ op[t] = "occupancy"
    BY <1>4, NextSeqLog DEF WriteEvent, InStep, Kept, InTx
  <2>2. [seq |-> Len(log) + 1, kind |-> "occupancy"] \in Event
    BY DEF Event
  <2>3. QED
    BY <1>4, <2>1, <2>2, AppendEventFacts DEF WriteEvent
<1>5. ASSUME NEW t \in Threads, RollBack(t)
      PROVE  Typed'
  <2>1. occ' \in Nat
    BY <1>5 DEF RollBack, Ahead, InTx
  <2>2. QED
    BY <1>5, <2>1 DEF RollBack, NoTx
<1>6a. ASSUME NEW t \in Threads, AddToGraph(t)
      PROVE  Typed'
  BY <1>6a DEF AddToGraph
<1>6b. ASSUME NEW t \in Threads, InsertNode(t)
      PROVE  Typed'
  BY <1>6b DEF InsertNode
<1>6c. ASSUME NEW t \in Threads, EventFails(t)
      PROVE  Typed'
  BY <1>6c DEF EventFails
<1>7. ASSUME NEW t \in Threads, InsertFails(t)
      PROVE  Typed'
  BY <1>7 DEF InsertFails, Ahead
<1>8. ASSUME NEW t \in Threads, NextEventSeq(t)
      PROVE  Typed'
  <2>1. NextSeq(log) \in Nat
    BY Zenon, NextSeqLog
  <2>2. QED
    BY <1>8, <2>1 DEF NextEventSeq
<1>9. ASSUME NEW t \in Threads, AppendEvent(t)
      PROVE  Typed'
  <2>1. [seq |-> got[t], kind |-> op[t]] \in Event
    BY <1>9 DEF AppendEvent, Kept, Event
  <2>2. QED
    BY <1>9, <2>1, AppendEventFacts DEF AppendEvent
<1>10a. ASSUME NEW t \in Threads, LoadNodes(t)
      PROVE  Typed'
  BY <1>10a DEF LoadNodes
<1>10b. ASSUME NEW t \in Threads, LoadSections(t)
      PROVE  Typed'
  BY <1>10b DEF LoadSections
<1>10c. ASSUME NEW t \in Threads, LoadFails(t)
      PROVE  Typed'
  BY <1>10c DEF LoadFails
<1>11. ASSUME NEW t \in Threads, Query(t) \/ CloseRows(t) \/ QueryFails(t)
       PROVE  Typed'
  <2>1. CASE Query(t)
    BY <2>1 DEF Query
  <2>2. CASE CloseRows(t)
    BY <2>2 DEF CloseRows
  <2>3. CASE QueryFails(t)
    BY <2>3 DEF QueryFails
  <2>4. QED
    BY <1>11, <2>1, <2>2, <2>3
<1>12. CASE Restart
  BY <1>12 DEF Restart, NoTx
<1>13. CASE UNCHANGED server
  BY <1>13 DEF server
<1>14. QED
  BY <1>1, <1>2, <1>2a, <1>3a, <1>3b, <1>3c, <1>3d, <1>4, <1>5, <1>6a, <1>6b, <1>6c, <1>7, <1>8, <1>9,
     <1>10a, <1>10b, <1>10c, <1>11, <1>12, <1>13
     DEF Next, Work, Fail

LEMMA HeldStep == Invariant /\ [Next]_server => Held' /\ Kept'
<1> SUFFICES ASSUME Invariant, [Next]_server PROVE Held' /\ Kept'
  OBVIOUS
<1> USE RequestsAssumption DEF Invariant, Typed, Held, Kept, Kinds, Changes, InTx, Inside
<1>1. ASSUME NEW t \in Threads, NEW kind \in Kinds, Receive(t, kind)
      PROVE  Held' /\ Kept'
  BY <1>1 DEF Receive
<1>2. ASSUME NEW t \in Threads,
             Lock(t) \/ Unlock(t) \/ Encode(t) \/ Collect(t) \/ Count(t)
      PROVE  Held' /\ Kept'
  <2>1. CASE Lock(t)
    BY <2>1 DEF Lock
  <2>2. CASE Unlock(t)
    BY <2>2 DEF Unlock
  <2>3. CASE Encode(t)
    BY <2>3 DEF Encode
  <2>4. CASE Collect(t)
    BY <2>4 DEF Collect
  <2>5. CASE Count(t)
    BY <2>5 DEF Count
  <2>6. QED
    BY <1>2, <2>1, <2>2, <2>3, <2>4, <2>5
<1>3. ASSUME NEW t \in Threads,
             MarkOccupied(t) \/ BeginTx(t) \/ WriteRows(t) \/ WriteEvent(t)
      PROVE  Held' /\ Kept'
  <2>1. CASE MarkOccupied(t)
    BY <2>1 DEF MarkOccupied
  <2>2. CASE BeginTx(t)
    BY <2>2 DEF BeginTx
  <2>3. CASE WriteRows(t)
    BY <2>3 DEF WriteRows
  <2>4. CASE WriteEvent(t)
    BY <2>4 DEF WriteEvent
  <2>5. QED
    BY <1>3, <2>1, <2>2, <2>3, <2>4
<1>4. ASSUME NEW t \in Threads, Commit(t) \/ RollBack(t)
      PROVE  Held' /\ Kept'
  <2>1. CASE Commit(t)
    BY <2>1 DEF Commit
  <2>2. CASE RollBack(t)
    BY <2>2 DEF RollBack
  <2>3. QED
    BY <1>4, <2>1, <2>2
<1>5. ASSUME NEW t \in Threads,
             AddToGraph(t) \/ InsertNode(t) \/ InsertFails(t) \/ NextEventSeq(t)
             \/ AppendEvent(t) \/ EventFails(t)
      PROVE  Held' /\ Kept'
  <2>1. CASE AddToGraph(t)
    BY <2>1 DEF AddToGraph
  <2>2. CASE InsertNode(t)
    BY <2>2 DEF InsertNode
  <2>3. CASE InsertFails(t)
    BY <2>3 DEF InsertFails
  <2>4. CASE NextEventSeq(t)
    BY <2>4 DEF NextEventSeq
  <2>5. CASE AppendEvent(t)
    BY <2>5 DEF AppendEvent
  <2>6. CASE EventFails(t)
    BY <2>6 DEF EventFails
  <2>7. QED
    BY <1>5, <2>1, <2>2, <2>3, <2>4, <2>5, <2>6
<1>6. ASSUME NEW t \in Threads,
             LoadNodes(t) \/ LoadSections(t) \/ LoadFails(t)
      PROVE  Held' /\ Kept'
  <2>1. CASE LoadNodes(t)
    BY <2>1 DEF LoadNodes
  <2>2. CASE LoadSections(t)
    BY <2>2 DEF LoadSections
  <2>3. CASE LoadFails(t)
    BY <2>3 DEF LoadFails
  <2>4. QED
    BY <1>6, <2>1, <2>2, <2>3
<1>7. ASSUME NEW t \in Threads, Query(t) \/ CloseRows(t) \/ QueryFails(t)
      PROVE  Held' /\ Kept'
  <2>1. CASE Query(t)
    BY <2>1 DEF Query
  <2>2. CASE CloseRows(t)
    BY <2>2 DEF CloseRows
  <2>3. CASE QueryFails(t)
    BY <2>3 DEF QueryFails
  <2>4. QED
    BY <1>7, <2>1, <2>2, <2>3
<1>8. CASE Restart
  BY <1>8 DEF Restart
<1>9. CASE UNCHANGED server
  BY <1>9 DEF server
<1>10. QED
  BY <1>1, <1>2, <1>3, <1>4, <1>5, <1>6, <1>7, <1>8, <1>9 DEF Next, Work, Fail

LEMMA AheadStep == Invariant /\ [Next]_server => Ahead'
<1> SUFFICES ASSUME Invariant, [Next]_server PROVE Ahead'
  OBVIOUS
<1>0. Typed /\ Held /\ Kept /\ Ahead
  BY DEF Invariant
<1>a. Typed' /\ Held'
  BY TypedStep, HeldStep
<1> USE <1>0 DEF Typed, Held, Ahead, InTx, Inside
<1>1. ASSUME NEW t \in Threads, NEW kind \in Kinds, Receive(t, kind)
      PROVE  Ahead'
  BY <1>1 DEF Receive
<1>2. ASSUME NEW t \in Threads, Lock(t)
      PROVE  Ahead'
  BY <1>2 DEF Lock
<1>3. ASSUME NEW t \in Threads, Unlock(t)
      PROVE  Ahead'
  BY <1>3, <1>a DEF Unlock
<1>4. ASSUME NEW t \in Threads, Encode(t) \/ Query(t) \/ CloseRows(t) \/ QueryFails(t)
      PROVE  Ahead'
  <2>1. UNCHANGED <<mutex, nodes, occ, dnodes, docc>>
    BY <1>4 DEF Encode, Query, CloseRows, QueryFails
  <2>2. pc'[t] \notin Inside /\ \A u \in Threads : u # t => pc'[u] = pc[u]
    BY <1>4 DEF Encode, Query, CloseRows, QueryFails
  <2>3. QED
    BY <2>1, <2>2
<1>5. ASSUME NEW t \in Threads, MarkOccupied(t)
      PROVE  Ahead'
  <2>1. pc[t] = "enter" /\ pc'[t] = "begin" /\ \A u \in Threads : u # t => pc'[u] = pc[u]
    BY <1>5 DEF MarkOccupied
  <2>2. mutex' = t /\ \A u \in Threads : u # t => pc'[u] \notin Inside
    BY <1>5, <2>1 DEF MarkOccupied
  <2>3. QED
    BY <1>5, <2>1, <2>2, RequestsAssumption DEF MarkOccupied
<1>6. ASSUME NEW t \in Threads, BeginTx(t) \/ WriteRows(t) \/ WriteEvent(t)
      PROVE  Ahead'
  <2>1. CASE BeginTx(t)
    BY <2>1, <1>a DEF BeginTx
  <2>2. CASE WriteRows(t)
    BY <2>2, <1>a DEF WriteRows
  <2>3. CASE WriteEvent(t)
    BY <2>3, <1>a DEF WriteEvent
  <2>4. QED
    BY <1>6, <2>1, <2>2, <2>3
<1>7. ASSUME NEW t \in Threads, Commit(t)
      PROVE  Ahead'
  <2>1. docc' = occ
    BY <1>7 DEF Invariant, InStep, Commit
  <2>2. QED
    BY <1>7, <1>a, <2>1 DEF Commit
<1>8. ASSUME NEW t \in Threads, RollBack(t)
      PROVE  Ahead'
  BY <1>8, <1>a DEF RollBack
<1>9. ASSUME NEW t \in Threads, AddToGraph(t)
      PROVE  Ahead'
  <2>1. pc[t] = "enter" /\ pc'[t] = "insert" /\ \A u \in Threads : u # t => pc'[u] = pc[u]
    BY <1>9 DEF AddToGraph
  <2>2. mutex' = t /\ \A u \in Threads : u # t => pc'[u] \notin Inside
    BY <1>9, <2>1 DEF AddToGraph
  <2>3. QED
    BY <1>9, <2>1, <2>2, RequestsAssumption DEF AddToGraph
<1>10. ASSUME NEW t \in Threads, InsertNode(t)
       PROVE  Ahead'
  BY <1>10, <1>a DEF InsertNode
<1>11. ASSUME NEW t \in Threads, InsertFails(t)
       PROVE  Ahead'
  BY <1>11, <1>a DEF InsertFails
<1>12. ASSUME NEW t \in Threads, NextEventSeq(t) \/ AppendEvent(t) \/ EventFails(t)
       PROVE  Ahead'
  <2>1. CASE NextEventSeq(t)
    BY <2>1, <1>a DEF NextEventSeq
  <2>2. CASE AppendEvent(t)
    BY <2>2, <1>a DEF AppendEvent
  <2>3. CASE EventFails(t)
    BY <2>3, <1>a DEF EventFails
  <2>4. QED
    BY <1>12, <2>1, <2>2, <2>3
<1>13. ASSUME NEW t \in Threads, LoadNodes(t) \/ LoadFails(t) \/ Count(t) \/ Collect(t)
       PROVE  Ahead'
  <2>1. CASE LoadNodes(t)
    BY <2>1, <1>a DEF LoadNodes
  <2>2. CASE LoadFails(t)
    BY <2>2, <1>a DEF LoadFails
  <2>3. CASE Count(t)
    BY <2>3, <1>a DEF Count
  <2>4. CASE Collect(t)
    BY <2>4, <1>a DEF Collect
  <2>5. QED
    BY <1>13, <2>1, <2>2, <2>3, <2>4
<1>14. ASSUME NEW t \in Threads, LoadSections(t)
       PROVE  Ahead'
  <2>1. got[t] = dnodes
    BY <1>14 DEF Invariant, Answered, LoadSections
  <2>2. QED
    BY <1>14, <1>a, <2>1 DEF LoadSections
<1>15. CASE Restart
  BY <1>15 DEF Restart
<1>16. CASE UNCHANGED server
  BY <1>16 DEF server
<1>17. QED
  BY <1>1, <1>2, <1>3, <1>4, <1>5, <1>6, <1>7, <1>8, <1>9, <1>10, <1>11, <1>12, <1>13,
     <1>14, <1>15, <1>16 DEF Next, Work, Fail

LEMMA InStepStep == Invariant /\ [Next]_server => InStep'
<1> SUFFICES ASSUME Invariant, [Next]_server PROVE InStep'
  OBVIOUS
<1>0. Typed /\ Held /\ Kept /\ InStep /\ Numbered
  BY DEF Invariant
<1> USE <1>0 DEF Typed, Held, InStep, InTx, Inside
<1>1. ASSUME NEW t \in Threads, NEW kind \in Kinds, Receive(t, kind)
      PROVE  InStep'
  BY <1>1 DEF Receive
<1>2. ASSUME NEW t \in Threads,
             Lock(t) \/ Unlock(t) \/ Encode(t) \/ Collect(t) \/ Count(t)
      PROVE  InStep'
  <2>1. CASE Lock(t)
    BY <2>1 DEF Lock
  <2>2. CASE Unlock(t)
    BY <2>2 DEF Unlock
  <2>3. CASE Encode(t)
    BY <2>3 DEF Encode
  <2>4. CASE Collect(t)
    BY <2>4 DEF Collect
  <2>5. CASE Count(t)
    BY <2>5 DEF Count
  <2>6. QED
    BY <1>2, <2>1, <2>2, <2>3, <2>4, <2>5
<1>3. ASSUME NEW t \in Threads, MarkOccupied(t)
      PROVE  InStep'
  BY <1>3 DEF MarkOccupied
<1>4. ASSUME NEW t \in Threads, BeginTx(t)
      PROVE  InStep'
  BY <1>4 DEF BeginTx
<1>5. ASSUME NEW t \in Threads, WriteRows(t)
      PROVE  InStep'
  BY <1>5 DEF WriteRows
<1>6. ASSUME NEW t \in Threads, WriteEvent(t)
      PROVE  InStep'
  <2>1. tx.log = log /\ NextSeq(log) = Len(log) + 1 /\ op[t] = "occupancy"
    BY <1>6, NextSeqLog DEF WriteEvent, Kept
  <2>2. QED
    BY <1>6, <2>1 DEF WriteEvent
<1>7. ASSUME NEW t \in Threads, Commit(t)
      PROVE  InStep'
  BY <1>7 DEF Commit
<1>8. ASSUME NEW t \in Threads, RollBack(t)
      PROVE  InStep'
  BY <1>8 DEF RollBack
<1>9. ASSUME NEW t \in Threads, AddToGraph(t) \/ InsertNode(t) \/ InsertFails(t)
      PROVE  InStep'
  <2>1. CASE AddToGraph(t)
    BY <2>1 DEF AddToGraph
  <2>2. CASE InsertNode(t)
    BY <2>2 DEF InsertNode
  <2>3. CASE InsertFails(t)
    BY <2>3 DEF InsertFails
  <2>4. QED
    BY <1>9, <2>1, <2>2, <2>3
<1>10. ASSUME NEW t \in Threads, NextEventSeq(t) \/ AppendEvent(t) \/ EventFails(t)
       PROVE  InStep'
  <2>1. CASE NextEventSeq(t)
    BY <2>1 DEF NextEventSeq
  <2>2. CASE AppendEvent(t)
    BY <2>2 DEF AppendEvent
  <2>3. CASE EventFails(t)
    BY <2>3 DEF EventFails
  <2>4. QED
    BY <1>10, <2>1, <2>2, <2>3
<1>11. ASSUME NEW t \in Threads, LoadNodes(t) \/ LoadSections(t) \/ LoadFails(t)
       PROVE  InStep'
  <2>1. CASE LoadNodes(t)
    BY <2>1 DEF LoadNodes
  <2>2. CASE LoadSections(t)
    BY <2>2 DEF LoadSections
  <2>3. CASE LoadFails(t)
    BY <2>3 DEF LoadFails
  <2>4. QED
    BY <1>11, <2>1, <2>2, <2>3
<1>12. ASSUME NEW t \in Threads, Query(t) \/ CloseRows(t) \/ QueryFails(t)
       PROVE  InStep'
  <2>1. CASE Query(t)
    BY <2>1 DEF Query
  <2>2. CASE CloseRows(t)
    BY <2>2 DEF CloseRows
  <2>3. CASE QueryFails(t)
    BY <2>3 DEF QueryFails
  <2>4. QED
    BY <1>12, <2>1, <2>2, <2>3
<1>13. CASE Restart
  BY <1>13 DEF Restart
<1>14. CASE UNCHANGED server
  BY <1>14 DEF server
<1>15. QED
  BY <1>1, <1>2, <1>3, <1>4, <1>5, <1>6, <1>7, <1>8, <1>9, <1>10, <1>11, <1>12, <1>13,
     <1>14 DEF Next, Work, Fail

\* Only two actions extend the log, and both by the next event.
LEMMA LogStep ==
    ASSUME Invariant, [Next]_server
    PROVE  \/ UNCHANGED log
           \/ /\ \E t \in Threads : Commit(t) \/ AppendEvent(t)
              /\ \E kind \in Changes : log' = Append(log, [seq |-> Len(log) + 1, kind |-> kind])
<1> USE DEF Changes
<1>1. ASSUME NEW t \in Threads, Commit(t)
      PROVE  log' = Append(log, [seq |-> Len(log) + 1, kind |-> "occupancy"])
  BY <1>1 DEF Commit, Invariant, InStep
<1>2. ASSUME NEW t \in Threads, AppendEvent(t)
      PROVE  log' = Append(log, [seq |-> Len(log) + 1, kind |-> "addNode"])
  BY <1>2 DEF AppendEvent, Invariant, Numbered, Kept
<1>3. ASSUME NEW t \in Threads, Work(t), ~Commit(t), ~AppendEvent(t)
      PROVE  UNCHANGED log
  BY <1>3 DEF Work, Lock, Unlock, Encode, MarkOccupied, BeginTx, WriteRows, WriteEvent,
              AddToGraph, InsertNode, NextEventSeq, LoadNodes, LoadSections, Count,
              Collect, Query, CloseRows
<1>4. ASSUME NEW t \in Threads, Fail(t)
      PROVE  UNCHANGED log
  BY <1>4 DEF Fail, RollBack, InsertFails, EventFails, LoadFails, QueryFails
<1>5. (\/ \E t \in Threads, kind \in Kinds : Receive(t, kind)
       \/ Restart
       \/ UNCHANGED server) => UNCHANGED log
  BY DEF Receive, Restart, server
<1>6. QED
  BY <1>1, <1>2, <1>3, <1>4, <1>5 DEF Next

LEMMA NumberedStep == Invariant /\ [Next]_server => Numbered'
<1> SUFFICES ASSUME Invariant, [Next]_server PROVE Numbered'
  OBVIOUS
<1>0. Typed /\ Held /\ Numbered /\ Held' /\ Typed'
  BY TypedStep, HeldStep DEF Invariant
<1>1. EventsInOrder'
  BY <1>0, LogStep, LogGrows DEF Typed, Numbered, EventsInOrder
<1>2. ASSUME NEW u \in Threads, pc'[u] = "append"
      PROVE  got'[u] = Len(log') + 1
  <2>1. CASE NextEventSeq(u)
    BY <1>0, <2>1, NextSeqLog DEF NextEventSeq, Typed
  <2>2. CASE pc[u] = "append" /\ got'[u] = got[u]
    <3>1. UNCHANGED log
      <4>1. ASSUME NEW t \in Threads, Commit(t) \/ AppendEvent(t)
            PROVE  FALSE
        <5>1. pc[t] \in Inside /\ pc[u] \in Inside /\ pc[t] \in {"commit", "append"} /\ pc'[t] = "unlock"
          BY <1>0, <2>2, <4>1 DEF Commit, AppendEvent, Inside, InTx, Typed
        <5>2. t = u
          BY <1>0, <5>1, Alone
        <5>3. QED
          BY <1>2, <5>1, <5>2
      <4>2. QED
        BY <4>1, LogStep
    <3>2. QED
      BY <1>0, <2>2, <3>1 DEF Numbered
  <2>3. NextEventSeq(u) \/ (pc[u] = "append" /\ got'[u] = got[u])
    <3> USE <1>0, <1>2 DEF Typed
    <3>1. ASSUME NEW t \in Threads, Work(t), t # u
          PROVE  pc'[u] = pc[u] /\ got'[u] = got[u]
      BY <3>1 DEF Work, Lock, Unlock, Encode, MarkOccupied, BeginTx, WriteRows, WriteEvent,
                  Commit, AddToGraph, InsertNode, NextEventSeq, AppendEvent, LoadNodes,
                  LoadSections, Count, Collect, Query, CloseRows
    <3>2. ASSUME Work(u)
          PROVE  NextEventSeq(u)
      BY <3>2 DEF Work, Lock, Unlock, Encode, MarkOccupied, BeginTx, WriteRows, WriteEvent,
                  Commit, AddToGraph, InsertNode, AppendEvent, LoadNodes,
                  LoadSections, Count, Collect, Query, CloseRows
    <3>3. ASSUME NEW t \in Threads, Fail(t)
          PROVE  pc'[u] = pc[u] /\ got'[u] = got[u]
      BY <3>3 DEF Fail, RollBack, InsertFails, EventFails, LoadFails, QueryFails
    <3>4. ASSUME NEW t \in Threads, NEW kind \in Kinds, Receive(t, kind)
          PROVE  pc'[u] = pc[u] /\ got'[u] = got[u]
      BY <3>4 DEF Receive
    <3>5. ~Restart
      BY DEF Restart
    <3>6. UNCHANGED server => pc'[u] = pc[u] /\ got'[u] = got[u]
      BY DEF server
    <3>7. QED
      BY <3>1, <3>2, <3>3, <3>4, <3>5, <3>6 DEF Next
  <2>4. QED
    BY <2>1, <2>2, <2>3
<1>3. QED
  BY <1>1, <1>2 DEF Numbered

LEMMA CountedStep == Invariant /\ [Next]_server => Counted'
<1> SUFFICES ASSUME Invariant, [Next]_server PROVE Counted'
  OBVIOUS
<1> DEFINE occs == Cardinality(OfKind(log, "occupancy"))
           adds == Cardinality(OfKind(log, "addNode"))
<1>0. Typed /\ Held /\ Kept /\ Ahead /\ InStep /\ Numbered /\ Counted
  BY DEF Invariant
<1>1. /\ occs = docc /\ adds <= dnodes /\ adds \in Nat /\ dnodes \in Nat /\ docc \in Nat
      /\ \A t \in Threads : pc[t] \in {"seq", "append"} => adds + 1 <= dnodes
  <2>1. IsFiniteSet(OfKind(log, "addNode"))
    <3>1. Len(log) \in Nat /\ DOMAIN log = 1..Len(log)
      BY <1>0 DEF Typed
    <3>2. IsFiniteSet(1..Len(log)) /\ OfKind(log, "addNode") \subseteq 1..Len(log)
      BY <3>1, FS_Interval DEF OfKind
    <3>3. QED
      BY <3>2, FS_Subset
  <2>2. QED
    BY <1>0, <2>1, FS_CardinalityType DEF Counted, EventsMatchRows, Typed, EventsOf, OfKind
<1>2. UNCHANGED log => occs' = occs /\ adds' = adds
  OBVIOUS
<1>3. ASSUME NEW t \in Threads, Commit(t)
      PROVE  occs' = occs + 1 /\ adds' = adds
  <2>1. log' = Append(log, [seq |-> Len(log) + 1, kind |-> "occupancy"])
    BY <1>0, <1>3 DEF Commit, InStep
  <2>2. QED
    BY <1>0, <1>1, <2>1, LogGrows DEF Typed, Numbered, Changes
<1>4. ASSUME NEW t \in Threads, AppendEvent(t)
      PROVE  occs' = occs /\ adds' = adds + 1
  <2>1. log' = Append(log, [seq |-> Len(log) + 1, kind |-> "addNode"])
    BY <1>0, <1>4 DEF AppendEvent, Numbered, Kept
  <2>2. QED
    BY <1>0, <1>1, <2>1, LogGrows DEF Typed, Numbered, Changes
<1> DEFINE Goal == /\ occs' = docc' /\ adds' <= dnodes'
                   /\ \A t \in Threads : pc'[t] \in {"seq", "append"} => adds' + 1 <= dnodes'
<1> SUFFICES Goal
  BY DEF Counted, EventsMatchRows, EventsOf, OfKind
<1>5. ASSUME NEW t \in Threads, Commit(t)
      PROVE  Goal
  <2>1. docc' = docc + 1 /\ UNCHANGED dnodes
    BY <1>0, <1>5 DEF Commit, InStep, Ahead, InTx
  <2>2. \A u \in Threads : pc'[u] \in {"seq", "append"} => pc[u] \in {"seq", "append"}
    BY <1>0, <1>5 DEF Commit, Typed
  <2> HIDE DEF occs, adds
  <2>3. QED
    BY <1>1, <1>3, <1>5, <2>1, <2>2
<1>6. ASSUME NEW t \in Threads, AppendEvent(t)
      PROVE  Goal
  <2>1. UNCHANGED <<docc, dnodes>> /\ pc[t] = "append"
    BY <1>6 DEF AppendEvent
  <2>2. \A u \in Threads : pc'[u] \notin {"seq", "append"}
    BY <1>0, <1>6 DEF AppendEvent, Typed, Held, Inside
  <2> HIDE DEF occs, adds
  <2>3. QED
    BY <1>1, <1>4, <1>6, <2>1, <2>2
<1>7. ASSUME NEW t \in Threads, InsertNode(t)
      PROVE  Goal
  <2>1. dnodes' = dnodes + 1 /\ UNCHANGED <<docc, log>>
    BY <1>7 DEF InsertNode
  <2> HIDE DEF occs, adds
  <2>2. QED
    BY <1>1, <1>2, <2>1
<1>8. ASSUME UNCHANGED <<log, docc, dnodes>>,
             \A u \in Threads : pc'[u] \in {"seq", "append"} => pc[u] \in {"seq", "append"}
      PROVE  Goal
  <2> HIDE DEF occs, adds
  <2>1. QED
    BY <1>1, <1>2, <1>8
<1> HIDE DEF Goal
<1>9. ASSUME NEW t \in Threads, Work(t)
      PROVE  Goal
  <2>1. CASE ~Commit(t) /\ ~AppendEvent(t) /\ ~InsertNode(t)
    <3>1. UNCHANGED <<log, docc, dnodes>>
      BY <1>9, <2>1
         DEF Work, Lock, Unlock, Encode, MarkOccupied, BeginTx, WriteRows, WriteEvent, AddToGraph,
             NextEventSeq, LoadNodes, LoadSections, Count, Collect, Query, CloseRows
    <3>2. \A u \in Threads : pc'[u] \in {"seq", "append"} => pc[u] \in {"seq", "append"}
      BY <1>0, <1>9, <2>1
         DEF Typed, Work, Lock, Unlock, Encode, MarkOccupied, BeginTx, WriteRows, WriteEvent,
             AddToGraph, NextEventSeq, LoadNodes, LoadSections, Count, Collect, Query, CloseRows
    <3>3. QED
      BY <1>8, <3>1, <3>2
  <2>2. QED
    BY <1>5, <1>6, <1>7, <2>1
<1>10. ASSUME NEW t \in Threads, Fail(t)
       PROVE  Goal
  <2>1. UNCHANGED <<log, docc, dnodes>>
    BY <1>10 DEF Fail, RollBack, InsertFails, EventFails, LoadFails, QueryFails
  <2>2. \A u \in Threads : pc'[u] \in {"seq", "append"} => pc[u] \in {"seq", "append"}
    BY <1>0, <1>10 DEF Typed, Fail, RollBack, InsertFails, EventFails, LoadFails, QueryFails
  <2>3. QED
    BY <1>8, <2>1, <2>2
<1>11. CASE \/ \E t \in Threads, kind \in Kinds : Receive(t, kind)
            \/ Restart
            \/ UNCHANGED server
  <2>1. UNCHANGED <<log, docc, dnodes>>
    BY <1>11 DEF Receive, Restart, server
  <2>2. \A u \in Threads : pc'[u] \in {"seq", "append"} => pc[u] \in {"seq", "append"}
    BY <1>0, <1>11 DEF Typed, Receive, Restart, server
  <2>3. QED
    BY <1>8, <2>1, <2>2
<1>12. QED
  BY <1>9, <1>10, <1>11 DEF Next

Prefix(p, events) == Len(p) <= Len(events) /\ p = SubSeq(events, 1, Len(p))

\* What a thread has read of the log stays a prefix of it.
LEMMA PrefixKept ==
    ASSUME Invariant, [Next]_server, NEW p \in Seq(Event), Prefix(p, log)
    PROVE  Prefix(p, log')
<1>1. ASSUME NEW kind \in Changes, log' = Append(log, [seq |-> Len(log) + 1, kind |-> kind])
      PROVE  Prefix(p, log')
  <2>1. log \in Seq(Event) /\ EventsInOrder /\ Len(log) \in Nat /\ Len(p) \in Nat
    BY DEF Invariant, Typed, Numbered
  <2>2. /\ Len(log') = Len(log) + 1
        /\ \A n \in 0..Len(log) : SubSeq(log', 1, n) = SubSeq(log, 1, n)
    BY <1>1, <2>1, LogGrows
  <2>3. Len(p) \in 0..Len(log) /\ p = SubSeq(log, 1, Len(p))
    BY <2>1 DEF Prefix
  <2>4. QED
    BY <2>1, <2>2, <2>3 DEF Prefix
<1>2. QED
  BY <1>1, LogStep

\* The store only gains nodes, and none while another thread is inside.
LEMMA NodesKept ==
    ASSUME Invariant, [Next]_server
    PROVE  /\ dnodes' >= dnodes
           /\ \A u \in Threads : pc[u] = "sections" => dnodes' = dnodes
<1>0. dnodes \in Nat /\ Held
  BY DEF Invariant, Typed
<1>1. ASSUME NEW t \in Threads, InsertNode(t)
      PROVE  dnodes' = dnodes + 1 /\ \A u \in Threads : pc[u] # "sections"
  BY <1>0, <1>1, Alone DEF InsertNode, Inside, InTx
<1>2. ASSUME NEW t \in Threads, Work(t), ~InsertNode(t)
      PROVE  UNCHANGED dnodes
  BY <1>2 DEF Work, Lock, Unlock, Encode, MarkOccupied, BeginTx, WriteRows, WriteEvent,
              Commit, AddToGraph, NextEventSeq, AppendEvent, LoadNodes, LoadSections, Count,
              Collect, Query, CloseRows
<1>3. ASSUME NEW t \in Threads, Fail(t)
      PROVE  UNCHANGED dnodes
  BY <1>3 DEF Fail, RollBack, InsertFails, EventFails, LoadFails, QueryFails
<1>4. (\/ \E t \in Threads, kind \in Kinds : Receive(t, kind)
       \/ Restart
       \/ UNCHANGED server) => UNCHANGED dnodes
  BY DEF Receive, Restart, server
<1>5. QED
  BY <1>0, <1>1, <1>2, <1>3, <1>4 DEF Next

LEMMA AnsweredStep == Invariant /\ [Next]_server => Answered'
<1> SUFFICES ASSUME Invariant, [Next]_server, NEW u \in Threads
             PROVE  /\ Prefix(page'[u], log')
                    /\ op'[u] \in {"read", "reconcile"} => got'[u] <= dnodes'
                    /\ pc'[u] = "idle" => got'[u] = 0 /\ page'[u] = <<>>
                    /\ pc'[u] = "sections" => got'[u] = dnodes'
  BY DEF Answered, AnswersAreStored, Prefix
<1> DEFINE Fine == /\ Prefix(page'[u], log')
                   /\ op'[u] \in {"read", "reconcile"} => got'[u] <= dnodes'
                   /\ pc'[u] = "idle" => got'[u] = 0 /\ page'[u] = <<>>
                   /\ pc'[u] = "sections" => got'[u] = dnodes'
<1>0. Typed /\ Held /\ Kept /\ Ahead /\ Typed' /\ dnodes \in Nat /\ dnodes' \in Nat
  BY TypedStep DEF Invariant, Typed
<1>1. /\ Prefix(page[u], log)
      /\ op[u] \in {"read", "reconcile"} => got[u] <= dnodes
      /\ pc[u] = "idle" => got[u] = 0 /\ page[u] = <<>>
      /\ pc[u] = "sections" => got[u] = dnodes
      /\ got[u] \in Nat
  BY <1>0 DEF Invariant, Answered, AnswersAreStored, Prefix, Typed
<1>2. /\ Prefix(page[u], log') /\ Prefix(log, log') /\ Prefix(<<>>, log')
      /\ dnodes' >= dnodes
      /\ pc[u] = "sections" => dnodes' = dnodes
  <2>1. page[u] \in Seq(Event) /\ log \in Seq(Event) /\ <<>> \in Seq(Event)
    BY <1>0 DEF Typed
  <2>2. Prefix(log, log) /\ Prefix(<<>>, log)
    <3>1. Len(log) \in Nat /\ SubSeq(log, 1, Len(log)) = log /\ SubSeq(log, 1, 0) = <<>>
      BY <2>1
    <3>2. QED
      BY <3>1 DEF Prefix
  <2>3. QED
    BY <1>1, <2>1, <2>2, PrefixKept, NodesKept
<1>3. CASE op'[u] = op[u] /\ pc'[u] = pc[u] /\ got'[u] = got[u] /\ page'[u] = page[u]
  BY <1>0, <1>1, <1>2, <1>3
<1>4. ASSUME NEW kind \in Kinds, Receive(u, kind)
      PROVE  Fine
  BY <1>0, <1>1, <1>2, <1>4 DEF Receive, Typed
<1>5. CASE Lock(u) \/ Unlock(u) \/ CloseRows(u) \/ Fail(u)
  <2>1. op'[u] = op[u] /\ got'[u] = got[u] /\ page'[u] = page[u] /\ pc'[u] \notin {"idle", "sections"}
    BY <1>0, <1>5
       DEF Lock, Unlock, CloseRows, Fail, RollBack, InsertFails, EventFails, LoadFails,
           QueryFails, Typed
  <2>2. QED
    BY <1>0, <1>1, <1>2, <2>1
<1>6. CASE Encode(u)
  BY <1>0, <1>2, <1>6 DEF Encode, Typed
<1>7. CASE \/ MarkOccupied(u) \/ BeginTx(u) \/ WriteRows(u) \/ WriteEvent(u) \/ Commit(u)
           \/ AddToGraph(u) \/ InsertNode(u) \/ AppendEvent(u)
  <2>1. op'[u] = op[u] /\ got'[u] = got[u] /\ page'[u] = page[u] /\ pc'[u] \notin {"idle", "sections"}
    BY <1>0, <1>7
       DEF MarkOccupied, BeginTx, WriteRows, WriteEvent, Commit, AddToGraph, InsertNode,
           AppendEvent, Typed
  <2>2. QED
    BY <1>0, <1>1, <1>2, <2>1
<1>8. CASE NextEventSeq(u)
  <2>1. op'[u] = "addNode" /\ page'[u] = page[u] /\ pc'[u] = "append"
    BY <1>0, <1>8 DEF NextEventSeq, Kept, Typed
  <2>2. QED
    BY <1>2, <2>1
<1>9. CASE LoadNodes(u)
  BY <1>0, <1>2, <1>9 DEF LoadNodes, Typed
<1>10. CASE LoadSections(u)
  BY <1>0, <1>1, <1>2, <1>10 DEF LoadSections, Typed
<1>11. CASE Count(u) \/ Collect(u)
  <2>1. nodes = dnodes
    BY <1>0, <1>11 DEF Count, Collect, Ahead, Inside, InTx
  <2>2. QED
    BY <1>0, <1>2, <1>11, <2>1 DEF Count, Collect, Typed
<1>12. CASE Query(u)
  <2>1. page'[u] = log /\ got'[u] = got[u] /\ op'[u] = op[u] /\ pc'[u] = "scan"
    BY <1>0, <1>12 DEF Query, Typed
  <2>2. QED
    BY <1>0, <1>1, <1>2, <2>1
<1>13. CASE Restart
  BY <1>0, <1>2, <1>13 DEF Restart
<1>14. CASE UNCHANGED server
  BY <1>3, <1>14 DEF server
<1>15. ASSUME NEW t \in Threads, t # u, Work(t) \/ Fail(t) \/ \E kind \in Kinds : Receive(t, kind)
       PROVE  op'[u] = op[u] /\ pc'[u] = pc[u] /\ got'[u] = got[u] /\ page'[u] = page[u]
  <2> USE <1>0, <1>15 DEF Typed
  <2>1. ASSUME Work(t)
        PROVE  op'[u] = op[u] /\ pc'[u] = pc[u] /\ got'[u] = got[u] /\ page'[u] = page[u]
    BY <2>1 DEF Work, Lock, Unlock, Encode, MarkOccupied, BeginTx, WriteRows, WriteEvent,
                Commit, AddToGraph, InsertNode, NextEventSeq, AppendEvent, LoadNodes,
                LoadSections, Count, Collect, Query, CloseRows
  <2>2. ASSUME Fail(t)
        PROVE  op'[u] = op[u] /\ pc'[u] = pc[u] /\ got'[u] = got[u] /\ page'[u] = page[u]
    BY <2>2 DEF Fail, RollBack, InsertFails, EventFails, LoadFails, QueryFails
  <2>3. ASSUME NEW kind \in Kinds, Receive(t, kind)
        PROVE  op'[u] = op[u] /\ pc'[u] = pc[u] /\ got'[u] = got[u] /\ page'[u] = page[u]
    BY <2>3 DEF Receive
  <2>4. QED
    BY <2>1, <2>2, <2>3
<1> HIDE DEF Fine
<1>16. QED
  BY <1>3, <1>4, <1>5, <1>6, <1>7, <1>8, <1>9, <1>10, <1>11, <1>12, <1>13, <1>14, <1>15
     DEF Fine, Next, Work

-----------------------------------------------------------------------------
(* Theorems *)

LEMMA InitInvariant == Init => Invariant
<1> SUFFICES ASSUME Init PROVE Invariant
  OBVIOUS
<1> USE RequestsAssumption DEF Init
<1>1. Typed
  BY DEF Typed, NoTx, Steps, Kinds
<1>2. Held /\ Kept /\ Ahead /\ InStep
  BY DEF Held, Kept, Ahead, InStep, Inside, InTx
<1>3. Numbered
  BY DEF Numbered, EventsInOrder
<1>4. Counted
  <2>1. EventsOf("occupancy") = {} /\ EventsOf("addNode") = {}
    BY DEF EventsOf
  <2>2. Cardinality({}) = 0
    BY FS_EmptySet
  <2>3. docc = 0 /\ dnodes = 0 /\ \A t \in Threads : pc[t] = "idle"
    OBVIOUS
  <2>4. EventsMatchRows
    <3>1. Cardinality(EventsOf("occupancy")) = 0 /\ Cardinality(EventsOf("addNode")) = 0
      BY ONLY <2>1, <2>2, Zenon
    <3>2. QED
      BY ONLY <3>1, <2>3, SMT DEF EventsMatchRows
  <2>5. QED
    BY <2>3, <2>4 DEF Counted
<1>5. Answered
  BY DEF Answered, AnswersAreStored
<1>6. QED
  BY <1>1, <1>2, <1>3, <1>4, <1>5 DEF Invariant

LEMMA Inductive == Spec => []Invariant
<1>1. Invariant /\ [Next]_server => Invariant'
  BY TypedStep, HeldStep, AheadStep, InStepStep, NumberedStep, CountedStep, AnsweredStep
     DEF Invariant
<1>2. QED
  BY <1>1, InitInvariant, PTL DEF Spec

\* Types, and the discipline of the two locks: a thread has the mutex exactly
\* between taking and giving it back, and the connection in a transaction or
\* over its rows.
THEOREM HandlersKeepTheirLocks == Spec => []RequestsTypeOK
<1>1. Invariant => RequestsTypeOK
  <2>1. Typed => \A j \in DOMAIN log : log[j] \in [seq : Nat, kind : Changes]
    <3>1. SUFFICES ASSUME log \in Seq(Event), NEW j \in DOMAIN log
                   PROVE  log[j] \in Event
      BY DEF Typed, Event
    <3>2. QED
      BY <3>1
  <2>2. QED
    BY <2>1 DEF Invariant, Typed, Held, Inside, InTx, Steps, RequestsTypeOK
<1>2. QED
  BY <1>1, Inductive, PTL

\* Whoever gets the mutex finds memory and store in agreement.
THEOREM MemoryStaysStore == Spec => []MemoryIsStore
<1>1. Invariant => MemoryIsStore
  BY DEF Invariant, Ahead, MemoryIsStore
<1>2. QED
  BY <1>1, Inductive, PTL

\* Events are numbered in the order they were inserted, without gap or double.
THEOREM EventsStayInOrder == Spec => []EventsInOrder
<1>1. Invariant => EventsInOrder
  BY DEF Invariant, Numbered
<1>2. QED
  BY <1>1, Inductive, PTL

\* A change of the engine and its event are stored together or not at all.
THEOREM EventsStayMatched == Spec => []EventsMatchRows
<1>1. Invariant => EventsMatchRows
  BY DEF Invariant, Counted
<1>2. QED
  BY <1>1, Inductive, PTL

\* An answer shows only what is stored for good.
THEOREM AnswersStayStored == Spec => []AnswersAreStored
<1>1. Invariant => AnswersAreStored
  BY DEF Invariant, Answered
<1>2. QED
  BY <1>1, Inductive, PTL
=============================================================================
