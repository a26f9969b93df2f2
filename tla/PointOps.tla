------------------------------ MODULE PointOps ------------------------------
(***************************************************************************)
(* point/point.go: the switch-machine helpers, as functions of one point   *)
(* record [dir, status, target, deadline, lock, bypassed].  `squeezed'     *)
(* says that one of the point's protect sections is occupied.              *)
(***************************************************************************)
EXTENDS Naturals

Degraded(p) == p.status \in {"FAULT", "OUT_OF_CORRESPONDENCE"}

AtTarget(p, dir) == p.status = "IN_POSITION" /\ p.dir = dir

\* Faulty variant: the anti-squeeze test is forgotten.
MoveRefusedNoSqueeze(p, dir, squeezed) ==
    \/ p.status = "FAULT"
    \/ p.status = "OUT_OF_CORRESPONDENCE" /\ ~p.bypassed

\* CanMove returning an error: the move must not be issued and the caller
\* gives up.  A point already at its target is never refused for a train.
MoveRefused(p, dir, squeezed) ==
    \/ p.status = "FAULT"
    \/ p.status = "OUT_OF_CORRESPONDENCE" /\ ~p.bypassed
    \/ ~AtTarget(p, dir) /\ squeezed

\* CanMove returning true.
CanMove(p, dir, squeezed) == ~AtTarget(p, dir) /\ ~MoveRefused(p, dir, squeezed)

IssueMove(p, dir, now, moveTime) ==
    IF AtTarget(p, dir) THEN p
    ELSE [p EXCEPT !.status = "MOVING", !.target = dir, !.deadline = now + moveTime]

\* Detect: the detection `dir' ends a move (or a timed-out move) it matches,
\* and overrides the direction of a point at rest.
Detect(p, dir) ==
    CASE p.status = "MOVING" /\ dir = p.target ->
            [p EXCEPT !.status = "IN_POSITION", !.dir = dir, !.deadline = 0]
      [] p.status = "IN_POSITION" -> [p EXCEPT !.dir = dir]
      [] p.status = "OUT_OF_CORRESPONDENCE" /\ dir # "" /\ dir = p.target ->
            [p EXCEPT !.status = "IN_POSITION", !.dir = dir, !.deadline = 0]
      [] OTHER -> p

TimedOut(p, now) == p.status = "MOVING" /\ now >= p.deadline

TickTimeout(p) == [p EXCEPT !.status = "OUT_OF_CORRESPONDENCE"]

ForceFault(p) == [p EXCEPT !.status = "FAULT"]

ClearFault(p) ==
    IF p.status = "FAULT" THEN [p EXCEPT !.status = "IN_POSITION"] ELSE p

\* Faulty variant: a healthy point may be bypassed.
BypassRefusedSqueezeOnly(p, on, squeezed) == on /\ squeezed

\* A bypass is granted only to a degraded point with no train over it; it is
\* lifted unconditionally.
BypassRefused(p, on, squeezed) == on /\ (squeezed \/ ~Degraded(p))

Bypass(p, on) ==
    IF on THEN [p EXCEPT !.bypassed = TRUE,
                         !.dir = IF p.target = "" THEN p.dir ELSE p.target,
                         !.status = "IN_POSITION",
                         !.deadline = 0]
          ELSE [p EXCEPT !.bypassed = FALSE]
=============================================================================
