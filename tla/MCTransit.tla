----------------------------- MODULE MCTransit ------------------------------
(* Speeds on both sides of a rounding tie, lengths that divide and do not. *)
EXTENDS Transit

MCLengths == {1, 27, 28, 29, 167, 500, 1000}
MCSpeeds == 1..60
=============================================================================
