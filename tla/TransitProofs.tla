--------------------------- MODULE TransitProofs ----------------------------
(***************************************************************************)
(* The roundings of the transit time, for all lengths, speeds and paths.   *)
(***************************************************************************)
EXTENDS Transit, TLAPS

LEMMA Products ==
    \A x, y, z \in Int : /\ x * y = y * x
                        /\ (x + z) * y = x * y + z * y
                        /\ (x - 1) * y = x * y - y
  BY SMT

\* Ceil is the least number of seconds that suffice.
LEMMA CeilLeast ==
    ASSUME NEW a \in Nat, NEW b \in Nat \ {0}
    PROVE  /\ Ceil(a, b) \in Nat
           /\ Ceil(a, b) * b >= a
           /\ a > 0 => (Ceil(a, b) - 1) * b < a
<1> DEFINE q == a \div b
           r == a % b
<1>1. q \in Nat /\ r \in 0..(b - 1) /\ a = b * q + r
  BY SMT
<1>2. Ceil(a, b) = q + IF r = 0 THEN 0 ELSE 1
  BY DEF Ceil
<1> HIDE DEF q, r
<1>3. CASE r = 0
  <2>1. Ceil(a, b) = q
    BY <1>1, <1>2, <1>3
  <2>2. q * b = b * q /\ (q - 1) * b = b * q - b
    BY <1>1, Products
  <2>3. QED
    BY <1>1, <1>3, <2>1, <2>2
<1>4. CASE r # 0
  <2>1. Ceil(a, b) = q + 1
    BY <1>1, <1>2, <1>4
  <2>2. (q + 1) * b = b * q + b /\ (q + 1 - 1) * b = b * q
    BY <1>1, Products
  <2>3. QED
    BY <1>1, <1>4, <2>1, <2>2
<1>5. QED
  BY <1>3, <1>4

\* A speed of at least 1 km/h is at least 3 decimetres a second, and is rounded
\* to the nearest one.
LEMMA SpeedNearest ==
    ASSUME NEW v \in Nat \ {0}
    PROVE  /\ SpeedDms(v) \in Nat \ {0}
           /\ -18 < 36 * SpeedDms(v) - 100 * v
           /\ 36 * SpeedDms(v) - 100 * v <= 18
<1> DEFINE q == (v * 100) \div 36
           r == (v * 100) % 36
<1>1. q \in Nat /\ r \in 0..35 /\ v * 100 = 36 * q + r
  BY SMT
<1>2. KmhToDms(v) = q + IF 2 * r >= 36 THEN 1 ELSE 0
  BY DEF KmhToDms, RoundHalfUp
<1> HIDE DEF q, r
<1>3. q >= 2
  BY <1>1
<1>4. SpeedDms(v) = KmhToDms(v)
  BY <1>1, <1>2, <1>3 DEF SpeedDms
<1>5. QED
  BY <1>1, <1>2, <1>3, <1>4

-----------------------------------------------------------------------------

\* The speed in use is the nearest whole one for every speed asked for.
THEOREM SpeedIsNearest == Spec => []NearestSpeed
<1>1. Init => kmh \in Speeds
  BY DEF Init
<1>2. kmh \in Speeds /\ [CrossSection]_loop => (kmh \in Speeds)'
  BY DEF CrossSection, loop
<1>3. kmh \in Speeds => NearestSpeed
  BY TransitAssumption, SpeedNearest DEF NearestSpeed
<1>4. QED
  BY <1>1, <1>2, <1>3, PTL DEF Spec

\* Each section costs less than a second too much, so that the excess is less
\* than the number of sections; at the start both sides are zero.
Measured ==
    /\ kmh \in Speeds
    /\ todo \in Seq(Lengths)
    /\ total \in Nat /\ crossed \in Nat /\ metres \in Nat
    /\ total * SpeedDms(kmh) >= metres
    /\ (total - crossed) * SpeedDms(kmh) <= metres - crossed

LEMMA MeasuredStep == Measured /\ [CrossSection]_loop => Measured'
<1> SUFFICES ASSUME Measured, [CrossSection]_loop PROVE Measured'
  OBVIOUS
<1> DEFINE d == SpeedDms(kmh)
           a == Head(todo)
           c == Ceil(a, d)
<1>1. CASE UNCHANGED loop
  BY <1>1 DEF Measured, loop
<1>2. CASE CrossSection
  <2>1. todo' \in Seq(Lengths) /\ a \in Lengths
    BY <1>2 DEF CrossSection, Measured
  <2>2. a \in Nat \ {0} /\ d \in Nat \ {0}
    BY <2>1, TransitAssumption, SpeedNearest DEF Measured
  <2>3. /\ kmh' = kmh /\ total' = total + c
        /\ crossed' = crossed + 1 /\ metres' = metres + a
    BY <1>2 DEF CrossSection
  <2>4. SpeedDms(kmh') = d
    BY <2>3
  <2> HIDE DEF a, d
  <2>5. c \in Nat /\ c * d >= a /\ (c - 1) * d < a
    BY <2>2, CeilLeast
  <2> HIDE DEF c
  <2>6. /\ total * d >= metres /\ (total - crossed) * d <= metres - crossed
        /\ total \in Nat /\ crossed \in Nat /\ metres \in Nat /\ kmh \in Speeds
    BY DEF Measured, d
  <2>7. /\ (total + c) * d = total * d + c * d
        /\ ((total - crossed) + (c - 1)) * d = (total - crossed) * d + (c - 1) * d
    BY <2>2, <2>5, <2>6, Products
  <2>8. /\ total * d \in Int /\ c * d \in Int
        /\ (total - crossed) * d \in Int /\ (c - 1) * d \in Int
    BY <2>2, <2>5, <2>6
  <2>9. (total + c) * d >= metres + a
    BY <2>2, <2>5, <2>6, <2>7, <2>8
  <2>10. total + c - (crossed + 1) = (total - crossed) + (c - 1)
    BY <2>5, <2>6
  <2>11. (total + c - (crossed + 1)) * d <= metres + a - (crossed + 1)
    BY <2>2, <2>5, <2>6, <2>7, <2>8, <2>10
  <2>12. QED
    BY <2>1, <2>2, <2>3, <2>4, <2>5, <2>6, <2>9, <2>11 DEF Measured
<1>3. QED
  BY <1>1, <1>2

\* For every path and speed the seconds counted let a train at that speed cover a
\* tenth of the path, and a second less a section would not do even for that.
THEOREM SecondsAreATenth == Spec => []TenthOfTheWay
<1>1. Init => Measured
  <2> SUFFICES ASSUME Init PROVE Measured
    OBVIOUS
  <2>1. kmh \in Speeds /\ total = 0 /\ crossed = 0 /\ metres = 0 /\ todo \in Seq(Lengths)
    BY DEF Init
  <2>2. SpeedDms(kmh) \in Nat
    BY <2>1, TransitAssumption, SpeedNearest
  <2>3. QED
    BY <2>1, <2>2 DEF Measured
<1>2. Measured => TenthOfTheWay
  <2> SUFFICES ASSUME Measured PROVE TenthOfTheWay
    OBVIOUS
  <2> DEFINE d == SpeedDms(kmh)
  <2>1. d \in Nat /\ total \in Nat /\ crossed \in Nat
    BY TransitAssumption, SpeedNearest DEF Measured
  <2>2. (total - crossed) * d <= metres - crossed /\ metres \in Nat /\ total * d >= metres
    BY DEF Measured
  <2> HIDE DEF d
  <2>3. (total - crossed) * d \in Int
    BY <2>1
  <2>4. crossed > 0 => (total - crossed) * d < metres
    BY <2>1, <2>2, <2>3
  <2>5. /\ 10 * (total * d) >= 10 * metres
        /\ crossed > 0 => 10 * ((total - crossed) * d) < 10 * metres
    <3>1. total * d \in Int
      BY <2>1
    <3>2. QED
      BY <2>2, <2>3, <2>4, <3>1
  <2>6. QED
    BY <2>5 DEF TenthOfTheWay, d
<1>3. QED
  BY <1>1, <1>2, MeasuredStep, PTL DEF Spec
=============================================================================
