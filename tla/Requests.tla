------------------------------ MODULE Requests ------------------------------
(***************************************************************************)
(* The server's handler goroutines, the service mutex and the one database *)
(* connection.  Each request runs in a thread of its own; the five kinds   *)
(* are the ways the handlers use mutex and connection:                     *)
(*   occupancy  memory first, then rows and event in one transaction       *)
(*   addNode    memory first, then row and event in calls of their own     *)
(*   reconcile  memory rebuilt from the store, then counted                *)
(*   read       memory only                                                *)
(*   audit      the store only, without the mutex                          *)
(* Memory is cut down to two numbers: the nodes of the graph and the       *)
(* trains on one section.                                                  *)
(***************************************************************************)
EXTENDS Naturals, Sequences, FiniteSets

CONSTANTS
    Threads,
    NoThread,
    MaxChanges   \* bound: changes asked for in all

ASSUME RequestsAssumption == NoThread \notin Threads /\ MaxChanges \in Nat

VARIABLES
    op,      \* [Threads -> Kinds \cup {"none"}]: the request of a thread
    pc,      \* [Threads -> Steps]: what it does next
    got,     \* [Threads -> Nat]: a number it has read, for its answer or next call
    page,    \* [Threads -> Seq(event)]: the events it has read for its answer
    mutex,   \* the holder of Service.mu
    conn,    \* the holder of the pool's only connection, between two calls
    nodes, occ,      \* the graph
    dnodes, docc,    \* the rows committed
    log,     \* the events table: a sequence of [seq, kind], by insertion
    tx       \* rows and events of the open transaction

server == <<op, pc, got, page, mutex, conn, nodes, occ, dnodes, docc, log, tx>>

Changes == {"occupancy", "addNode"}

Kinds == Changes \cup {"reconcile", "read", "audit"}

NoTx == [occ |-> 0, log |-> <<>>]

Init ==
    /\ op = [t \in Threads |-> "none"]
    /\ pc = [t \in Threads |-> "idle"]
    /\ got = [t \in Threads |-> 0] /\ page = [t \in Threads |-> <<>>]
    /\ mutex = NoThread /\ conn = NoThread
    /\ nodes = 0 /\ occ = 0 /\ dnodes = 0 /\ docc = 0
    /\ log = <<>>
    /\ tx = NoTx

-----------------------------------------------------------------------------

\* Thread t goes from one step to the next.
At(t, kind, step) == op[t] = kind /\ pc[t] = step

To(t, step) == pc' = [pc EXCEPT ![t] = step]

Keep(t, answer) == got' = [got EXCEPT ![t] = answer]

\* A call on the pool waits for the connection, and has it for the call.
Connected == conn = NoThread

Working == {t \in Threads : pc[t] # "idle" /\ op[t] \in Changes}

\* A request arrives and is decoded; a malformed one never gets here.
Receive(t, kind) ==
    /\ pc[t] = "idle"
    /\ kind \in Changes => nodes + occ + Cardinality(Working) < MaxChanges
    /\ op' = [op EXCEPT ![t] = kind]
    /\ To(t, IF kind = "audit" THEN "query" ELSE "lock")
    /\ UNCHANGED <<got, page, mutex, conn, nodes, occ, dnodes, docc, log, tx>>

Lock(t) ==
    /\ pc[t] = "lock"
    /\ mutex = NoThread
    /\ mutex' = t
    /\ To(t, "enter")
    /\ UNCHANGED <<op, got, page, conn, nodes, occ, dnodes, docc, log, tx>>

\* The deferred unlock; a reconcile that was loaded asks for the mutex again.
Unlock(t) ==
    /\ pc[t] \in {"unlock", "loaded"}
    /\ mutex' = NoThread
    /\ To(t, IF pc[t] = "loaded" THEN "relock" ELSE "encode")
    /\ UNCHANGED <<op, got, page, conn, nodes, occ, dnodes, docc, log, tx>>

\* The answer is written to the client, with nothing held.
Encode(t) ==
    /\ pc[t] = "encode"
    /\ op' = [op EXCEPT ![t] = "none"]
    /\ To(t, "idle")
    /\ Keep(t, 0)
    /\ page' = [page EXCEPT ![t] = <<>>]
    /\ UNCHANGED <<mutex, conn, nodes, occ, dnodes, docc, log, tx>>

-----------------------------------------------------------------------------
(* ReportOccupancy: every operation of the engine persists like this. *)

MarkOccupied(t) ==
    /\ At(t, "occupancy", "enter")
    /\ occ' = occ + 1
    /\ To(t, "begin")
    /\ UNCHANGED <<op, got, page, mutex, conn, nodes, dnodes, docc, log, tx>>

BeginTx(t) ==
    /\ pc[t] = "begin"
    /\ Connected
    /\ conn' = t
    /\ tx' = [occ |-> docc, log |-> log]
    /\ To(t, "rows")
    /\ UNCHANGED <<op, got, page, mutex, nodes, occ, dnodes, docc, log>>

WriteRows(t) ==
    /\ pc[t] = "rows"
    /\ tx' = [tx EXCEPT !.occ = occ]
    /\ To(t, "event")
    /\ UNCHANGED <<op, got, page, mutex, conn, nodes, occ, dnodes, docc, log>>

\* COALESCE(MAX(seq),0)+1 over the events of a table.
NextSeq(events) ==
    1 + IF events = <<>> THEN 0
        ELSE CHOOSE m \in {events[j].seq : j \in DOMAIN events} :
               \A j \in DOMAIN events : m >= events[j].seq

\* Faulty variant: the sequence number is read over the pool.
WriteEventOverPool(t) ==
    /\ pc[t] = "event"
    /\ Connected
    /\ tx' = [tx EXCEPT !.log = Append(@, [seq |-> NextSeq(log), kind |-> op[t]])]
    /\ To(t, "commit")
    /\ UNCHANGED <<op, got, page, mutex, conn, nodes, occ, dnodes, docc, log>>

\* Read and insert see the transaction's own rows, over its own connection.
WriteEvent(t) ==
    /\ pc[t] = "event"
    /\ tx' = [tx EXCEPT !.log = Append(@, [seq |-> NextSeq(tx.log), kind |-> op[t]])]
    /\ To(t, "commit")
    /\ UNCHANGED <<op, got, page, mutex, conn, nodes, occ, dnodes, docc, log>>

Commit(t) ==
    /\ pc[t] = "commit"
    /\ docc' = tx.occ
    /\ log' = tx.log
    /\ tx' = NoTx
    /\ conn' = NoThread
    /\ To(t, "unlock")
    /\ UNCHANGED <<op, got, page, mutex, nodes, occ, dnodes>>

\* Faulty variant: the count stays raised.
RollBackStoreOnly(t) ==
    /\ pc[t] \in {"begin", "rows", "event", "commit"}
    /\ tx' = IF conn = t THEN NoTx ELSE tx
    /\ conn' = IF conn = t THEN NoThread ELSE conn
    /\ To(t, "unlock")
    /\ UNCHANGED <<op, got, page, mutex, nodes, occ, dnodes, docc, log>>

\* Faulty variant: a statement that fails after the rows leaves them committed.
RollBackKeepsRows(t) ==
    /\ pc[t] \in {"begin", "rows", "event", "commit"}
    /\ docc' = IF pc[t] = "event" THEN tx.occ ELSE docc
    /\ tx' = IF conn = t THEN NoTx ELSE tx
    /\ conn' = IF conn = t THEN NoThread ELSE conn
    /\ occ' = docc'
    /\ To(t, "unlock")
    /\ UNCHANGED <<op, got, page, mutex, nodes, dnodes, log>>

\* Faulty variant: the transaction is left open.
RollBackLeaks(t) ==
    /\ pc[t] \in {"begin", "rows", "event", "commit"}
    /\ occ' = occ - 1
    /\ To(t, "unlock")
    /\ UNCHANGED <<op, got, page, mutex, conn, nodes, dnodes, docc, log, tx>>

\* The connection is not had before the client gives up, a statement fails or
\* the commit does: nothing is written, and the count is taken back.
RollBack(t) ==
    /\ pc[t] \in {"begin", "rows", "event", "commit"}
    /\ tx' = IF conn = t THEN NoTx ELSE tx
    /\ conn' = IF conn = t THEN NoThread ELSE conn
    /\ occ' = occ - 1
    /\ To(t, "unlock")
    /\ UNCHANGED <<op, got, page, mutex, nodes, dnodes, docc, log>>

-----------------------------------------------------------------------------
(* AddNode: every operation on the layout persists like this. *)

AddToGraph(t) ==
    /\ At(t, "addNode", "enter")
    /\ nodes' = nodes + 1
    /\ To(t, "insert")
    /\ UNCHANGED <<op, got, page, mutex, conn, occ, dnodes, docc, log, tx>>

\* Faulty variant: the mutex guards the graph and the row, not the event.
InsertNodeUnlocks(t) ==
    /\ pc[t] = "insert"
    /\ Connected
    /\ dnodes' = dnodes + 1
    /\ mutex' = NoThread
    /\ To(t, "seq")
    /\ UNCHANGED <<op, got, page, conn, nodes, occ, docc, log, tx>>

InsertNode(t) ==
    /\ pc[t] = "insert"
    /\ Connected
    /\ dnodes' = dnodes + 1
    /\ To(t, "seq")
    /\ UNCHANGED <<op, got, page, mutex, conn, nodes, occ, docc, log, tx>>

InsertFails(t) ==
    /\ pc[t] = "insert"
    /\ nodes' = nodes - 1
    /\ To(t, "unlock")
    /\ UNCHANGED <<op, got, page, mutex, conn, occ, dnodes, docc, log, tx>>

NextEventSeq(t) ==
    /\ pc[t] = "seq"
    /\ Connected
    /\ Keep(t, NextSeq(log))
    /\ To(t, "append")
    /\ UNCHANGED <<op, page, mutex, conn, nodes, occ, dnodes, docc, log, tx>>

AppendEvent(t) ==
    /\ pc[t] = "append"
    /\ Connected
    /\ log' = Append(log, [seq |-> got[t], kind |-> op[t]])
    /\ To(t, "unlock")
    /\ UNCHANGED <<op, got, page, mutex, conn, nodes, occ, dnodes, docc, tx>>

\* The node stays, in the graph and in the store.
EventFails(t) ==
    /\ pc[t] \in {"seq", "append"}
    /\ To(t, "unlock")
    /\ UNCHANGED <<op, got, page, mutex, conn, nodes, occ, dnodes, docc, log, tx>>

-----------------------------------------------------------------------------
(* Reconcile *)

LoadNodes(t) ==
    /\ At(t, "reconcile", "enter")
    /\ Connected
    /\ Keep(t, dnodes)
    /\ To(t, "sections")
    /\ UNCHANGED <<op, page, mutex, conn, nodes, occ, dnodes, docc, log, tx>>

\* The rest of the load, and the loaded yard in place of the old one.
LoadSections(t) ==
    /\ pc[t] = "sections"
    /\ Connected
    /\ nodes' = got[t]
    /\ occ' = docc
    /\ To(t, "loaded")
    /\ UNCHANGED <<op, got, page, mutex, conn, dnodes, docc, log, tx>>

LoadFails(t) ==
    /\ At(t, "reconcile", "enter") \/ pc[t] = "sections"
    /\ To(t, "unlock")
    /\ UNCHANGED <<op, got, page, mutex, conn, nodes, occ, dnodes, docc, log, tx>>

\* The summary is counted under the mutex, but not the same hold of it.
Count(t) ==
    /\ pc[t] = "relock"
    /\ mutex = NoThread
    /\ mutex' = t
    /\ Keep(t, nodes)
    /\ To(t, "unlock")
    /\ UNCHANGED <<op, page, conn, nodes, occ, dnodes, docc, log, tx>>

-----------------------------------------------------------------------------
(* Reads *)

Collect(t) ==
    /\ At(t, "read", "enter")
    /\ Keep(t, nodes)
    /\ To(t, "unlock")
    /\ UNCHANGED <<op, page, mutex, conn, nodes, occ, dnodes, docc, log, tx>>

\* Faulty variant: the query runs beside a transaction and sees its rows.
QueryDirty(t) ==
    /\ pc[t] = "query"
    /\ page' = [page EXCEPT ![t] = IF Connected THEN log ELSE tx.log]
    /\ To(t, "scan")
    /\ UNCHANGED <<op, got, mutex, conn, nodes, occ, dnodes, docc, log, tx>>

\* The audit reads the committed events and holds the connection for its rows.
Query(t) ==
    /\ pc[t] = "query"
    /\ Connected
    /\ conn' = t
    /\ page' = [page EXCEPT ![t] = log]
    /\ To(t, "scan")
    /\ UNCHANGED <<op, got, mutex, nodes, occ, dnodes, docc, log, tx>>

CloseRows(t) ==
    /\ pc[t] = "scan"
    /\ conn' = NoThread
    /\ To(t, "encode")
    /\ UNCHANGED <<op, got, page, mutex, nodes, occ, dnodes, docc, log, tx>>

QueryFails(t) ==
    /\ pc[t] = "query"
    /\ To(t, "encode")
    /\ UNCHANGED <<op, got, page, mutex, conn, nodes, occ, dnodes, docc, log, tx>>

\* The process is killed and started again: open transactions are gone, memory
\* is what the store says, and every client starts over.
Restart ==
    /\ op' = [t \in Threads |-> "none"]
    /\ pc' = [t \in Threads |-> "idle"]
    /\ got' = [t \in Threads |-> 0] /\ page' = [t \in Threads |-> <<>>]
    /\ mutex' = NoThread /\ conn' = NoThread
    /\ tx' = NoTx
    /\ nodes' = dnodes /\ occ' = docc
    /\ UNCHANGED <<dnodes, docc, log>>

-----------------------------------------------------------------------------

\* What a thread does for its request when nothing fails.
Work(t) ==
    \/ Lock(t) \/ Unlock(t) \/ Encode(t)
    \/ MarkOccupied(t) \/ BeginTx(t) \/ WriteRows(t) \/ WriteEvent(t) \/ Commit(t)
    \/ AddToGraph(t) \/ InsertNode(t) \/ NextEventSeq(t) \/ AppendEvent(t)
    \/ LoadNodes(t) \/ LoadSections(t) \/ Count(t)
    \/ Collect(t) \/ Query(t) \/ CloseRows(t)

Fail(t) == RollBack(t) \/ InsertFails(t) \/ EventFails(t) \/ LoadFails(t) \/ QueryFails(t)

Next ==
    \/ \E t \in Threads, kind \in Kinds : Receive(t, kind)
    \/ \E t \in Threads : Work(t) \/ Fail(t)
    \/ Restart

\* A Go mutex passes to the longest waiter after a millisecond, and the pool
\* serves its waiters in order, so nobody waits for ever while others pass.
Fairness == \A t \in Threads : SF_server(Work(t))

Spec == Init /\ [][Next]_server /\ Fairness

-----------------------------------------------------------------------------
(* Properties *)

Steps == {"idle", "lock", "enter", "begin", "rows", "event", "commit", "insert", "seq",
          "append", "sections", "loaded", "relock", "query", "scan", "unlock", "encode"}

\* Types.  Only a thread between taking the mutex and giving it back has it,
\* and only one in a transaction or over its rows keeps the connection.
RequestsTypeOK ==
    /\ op \in [Threads -> Kinds \cup {"none"}] /\ pc \in [Threads -> Steps]
    /\ nodes \in Nat /\ occ \in Nat /\ dnodes \in Nat /\ docc \in Nat
    /\ \A j \in DOMAIN log : log[j] \in [seq : Nat, kind : Changes]
    /\ \A t \in Threads :
         /\ mutex = t <=> pc[t] \notin {"idle", "lock", "relock", "query", "scan", "encode"}
         /\ conn = t <=> pc[t] \in {"rows", "event", "commit", "scan"}

\* Whoever takes the mutex finds memory and store in agreement, whatever
\* failed, crashed, was reloaded or ran side by side before
\* (train_ops.go 80-89, layout_ops.go 28-32, service.go 58-80).
MemoryIsStore == mutex = NoThread => nodes = dnodes /\ occ = docc

\* Events are numbered 1, 2, 3, ... in the order they were inserted, although
\* layout operations read the next number in one call on the pool and use it in
\* another (layout_ops.go 38-47, service.go 143-151).
EventsInOrder == \A j \in DOMAIN log : log[j].seq = j

EventsOf(kind) == {j \in DOMAIN log : log[j].kind = kind}

\* A change of the engine and its event are stored together or not at all, and
\* a layout event always has its row (service.go 8-9, layout_ops.go 28-36).
EventsMatchRows ==
    /\ Cardinality(EventsOf("occupancy")) = docc
    /\ Cardinality(EventsOf("addNode")) <= dnodes

\* An answer shows only what is stored for good: an audit, taken without the
\* mutex, a prefix of the log, and a read or a reconcile no node whose
\* insertion is not stored (reports.go 67-74, 128-132, 176-191).
AnswersAreStored ==
    \A t \in Threads :
        /\ Len(page[t]) <= Len(log) /\ page[t] = SubSeq(log, 1, Len(page[t]))
        /\ op[t] \in {"read", "reconcile"} => got[t] <= dnodes

\* Every request is answered: mutex and connection are always taken in this
\* order and given back, and nothing in a transaction waits for the connection
\* the transaction holds (schema.go 10-12, 144-147).  A restart counts as an answer.
EveryRequestAnswered == \A t \in Threads : pc[t] # "idle" ~> pc[t] = "idle"
=============================================================================
