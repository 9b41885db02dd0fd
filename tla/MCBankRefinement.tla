-------------------------- MODULE MCBankRefinement --------------------------
(***************************************************************************)
(* BankRefinement for TLC: the orders of names and the symmetry of ids of  *)
(* MCQuestionBank.                                                         *)
(***************************************************************************)
EXTENDS BankRefinement, MCQuestionBank
=============================================================================
