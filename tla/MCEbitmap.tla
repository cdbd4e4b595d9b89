----------------------------- MODULE MCEbitmap -----------------------------
(* Bitmaps of nodes of two bits over an eight-bit number space: three      *)
(* usable nodes, so that a node can be inserted and dropped in the middle. *)
EXTENDS Ebitmap, TLC

Symmetry == Permutations(Reg)
=============================================================================
