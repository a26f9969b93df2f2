------------------------------ MODULE Traffic -------------------------------
(***************************************************************************)
(* The engine with the railway around it: trains that wait at a signal,    *)
(* start at a proceed aspect, run over the path of the route the signal    *)
(* was cleared for, and stop at its terminal.  Track circuits report a     *)
(* train where it is, at once.  The engine's actions are those of          *)
(* Interlock; what is new, and outside the code, is where its train events *)
(* come from and which cancellations an operator makes.                    *)
(***************************************************************************)
EXTENDS LiveProperties

CONSTANTS
    Trains,
    Ahead,       \* Ahead[g]: the section on which a train waits at signal g
    Switch,      \* Switch[p]: [node, heel, normal, reverse], as in Topology
    Disciplined  \* operators keep to the two rules at Request and Cancel

\* Every section has a track circuit.
ASSUME TrafficAssumption ==
    /\ Ahead \in [Signals -> Sections]
    /\ Disciplined \in BOOLEAN
    /\ Detectors = Sections

VARIABLE run  \* [Trains -> [track, rear, front, signal, route]]

traffic == <<vars, run>>

\* A train is on the sections track[rear..front] of the track it runs over,
\* one section long or two; its track is empty while it is elsewhere.
Elsewhere == [track |-> <<>>, rear |-> 1, front |-> 0, route |-> NoRoute]

Waiting(g) == [track |-> <<Ahead[g]>>, rear |-> 1, front |-> 1, route |-> NoRoute]

On(t) == {run[t].track[j] : j \in run[t].rear..run[t].front}

Running(t) == run[t].route # NoRoute

AtEnd(t) == run[t].track # <<>> /\ run[t].rear = Len(run[t].track)

TrafficInit == Init /\ run = [t \in Trains |-> Elsewhere]

-----------------------------------------------------------------------------

\* A neighbouring yard sends a train only onto a section nobody has a claim to.
Appear(t, g) ==
    /\ run[t] = Elsewhere
    /\ sec[Ahead[g]] = [occ |-> 0, lock |-> NoRoute]
    /\ ReportOccupancy(Ahead[g])
    /\ run' = [run EXCEPT ![t] = Waiting(g)]

\* The driver obeys the signal.
Depart(t, g) ==
    LET path == Path(rt[sig[g].route].plan) IN
    /\ run[t] = Waiting(g)
    /\ sig[g].aspect # "RED"
    /\ ReportOccupancy(path[1])
    /\ run' = [run EXCEPT ![t] = [track |-> <<Ahead[g]>> \o path, rear |-> 1, front |-> 2,
                                  route |-> sig[g].route]]

Forward(t) ==
    /\ Running(t)
    /\ run[t].front = run[t].rear
    /\ run[t].front < Len(run[t].track)
    /\ ReportOccupancy(run[t].track[run[t].front + 1])
    /\ run' = [run EXCEPT ![t].front = @ + 1]

Rear(t) ==
    /\ run[t].rear < run[t].front
    /\ ReportClearance(run[t].track[run[t].rear])
    /\ run' = [run EXCEPT ![t].rear = @ + 1]

\* At its terminal a train leaves the yard, or waits for the next signal,
\* perhaps to go back.
Leave(t) ==
    /\ Running(t)
    /\ AtEnd(t)
    /\ ReportClearance(run[t].track[run[t].rear])
    /\ run' = [run EXCEPT ![t] = Elsewhere]

TurnTo(t, g) ==
    /\ Running(t)
    /\ AtEnd(t)
    /\ On(t) = {Ahead[g]}
    /\ run' = [run EXCEPT ![t] = Waiting(g)]
    /\ UNCHANGED vars

\* Nobody asks for a way over a path whose cancellation waits for its train: the
\* backstop will unlock all of that path, released or not.
Request(i, k) ==
    /\ Disciplined => \A j \in RouteIds : rt[j].state = "CANCEL_PENDING" =>
                        PathSet(rt[j].plan) \cap PathSet(k) = {}
    /\ RequestRoute(i, k)

\* Nobody cancels a route that has begun to release.
Cancel(i) ==
    /\ Disciplined => rt[i].released = 0
    /\ CancelRoute(i)

-----------------------------------------------------------------------------

TrafficNext ==
    \/ \E t \in Trains, g \in Signals : Appear(t, g) \/ Depart(t, g) \/ TurnTo(t, g)
    \/ \E t \in Trains : Forward(t) \/ Rear(t) \/ Leave(t)
    \/ /\ \/ \E i \in RouteIds, k \in Plans : Request(i, k)
          \/ \E i \in RouteIds : Cancel(i)
          \/ \E g \in Signals : SetSignalRed(g)
          \/ \E p \in Points, dir \in OperatorDirs : OperatePoint(p, dir)
          \/ \E delta \in Deltas : AdvanceClock(delta)
       /\ UNCHANGED run

\* Clients keep the simulated clock going, polling (a step of 0) and advancing
\* it; a train that is under way goes on and does not stay at its terminal.
\* Nobody has to request, cancel or operate anything.
Fairness ==
    /\ \A delta \in Deltas : WF_traffic(AdvanceClock(delta) /\ UNCHANGED run)
    /\ \A t \in Trains : WF_traffic(Forward(t)) /\ WF_traffic(Rear(t)) /\ WF_traffic(Leave(t))

TrafficSpec == TrafficInit /\ [][TrafficNext]_traffic /\ Fairness

=============================================================================
