------------------------------ MODULE MCWindow ------------------------------
(***************************************************************************)
(* Window for TLC.                                                         *)
(***************************************************************************)
EXTENDS Window

TwoNames == <<"A", "B">>
ThreeNames == <<"A", "B", "C">>

IdSymmetry == Permutations(Ids)
=============================================================================
