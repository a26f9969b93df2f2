------------------------------ MODULE Transit -------------------------------
(***************************************************************************)
(* fixed/fixed.go and topology/transit.go: the seconds a train is given to *)
(* cross a path, which decide when a cancelled route may be unlocked under *)
(* it.  The state is that of TransitTime's loop over the sections.         *)
(***************************************************************************)
EXTENDS Integers, Sequences

CONSTANTS
    Lengths,      \* section lengths in metres, positive (topology.go 62)
    Speeds,       \* train speeds in km/h, positive (transit.go 20)
    MaxSections   \* bound: sections of a path

ASSUME TransitAssumption ==
    /\ Lengths \subseteq Nat \ {0}
    /\ Speeds \subseteq Nat \ {0}
    /\ MaxSections \in Nat

VARIABLES
    todo,    \* lengths of the sections still to cross
    kmh,     \* the speed asked for
    total,   \* seconds counted so far
    crossed, \* sections counted, and
    metres   \* their length; neither is kept by the code

loop == <<todo, kmh, total, crossed, metres>>

\* Faulty variant: truncation.
RoundDown(a, b) == a \div b

\* For the non-negative quantities it is used with.
RoundHalfUp(a, b) == a \div b + IF 2 * (a % b) >= b THEN 1 ELSE 0

\* Faulty variant: the last part of a second is dropped.
CeilDown(a, b) == a \div b

Ceil(a, b) == a \div b + IF a % b = 0 THEN 0 ELSE 1

KmhToDms(v) == RoundHalfUp(v * 100, 36)

\* Decimetres per second, at least one.
SpeedDms(v) == IF KmhToDms(v) <= 0 THEN 1 ELSE KmhToDms(v)

Init ==
    /\ todo \in UNION {[1..n -> Lengths] : n \in 0..MaxSections}
    /\ kmh \in Speeds
    /\ total = 0 /\ crossed = 0 /\ metres = 0

CrossSection ==
    /\ todo # <<>>
    /\ total' = total + Ceil(Head(todo), SpeedDms(kmh))
    /\ todo' = Tail(todo)
    /\ crossed' = crossed + 1
    /\ metres' = metres + Head(todo)
    /\ UNCHANGED kmh

Spec == Init /\ [][CrossSection]_loop

-----------------------------------------------------------------------------

\* The speed used is the whole number of decimetres a second nearest to
\* kmh * 100 / 36, a tie going up (fixed.go 61-66).
NearestSpeed == LET off == 36 * SpeedDms(kmh) - 100 * kmh IN -18 < off /\ off <= 18

\* The seconds are those a train needs for a tenth of the way, and less than one
\* more for each section: the length in metres is divided by decimetres a second
\* (transit.go 34-35).
TenthOfTheWay ==
    LET way == 10 * metres                     \* in decimetres, as Covered
        Covered(seconds) == seconds * SpeedDms(kmh)
    IN  /\ 10 * Covered(total) >= way
        /\ crossed > 0 => 10 * Covered(total - crossed) < way
=============================================================================
