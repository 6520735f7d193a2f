------------------------- MODULE MCFlatHashOrderStore -------------------------
(* FlatHashOrderStore on a few references and every hash of them.          *)
EXTENDS FlatHashOrderStore, TLC

\* References only name orders, and every hash of them is a start.
RefSymmetry == Permutations(Refs)
=============================================================================
