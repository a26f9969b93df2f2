------------------------------ MODULE MCLayout ------------------------------
(* A yard of four nodes: room for a line, a junction and every wrong edge. *)
EXTENDS LayoutRoutes, TLC

Symmetry == Permutations(NodeIds) \cup Permutations(SectionIds)
=============================================================================
