--------------------------- MODULE MCQuestionBank ---------------------------
(***************************************************************************)
(* QuestionBank for TLC: the orders of the group names, and the symmetry   *)
(* of the group ids, which are uuids and only ever compared.               *)
(***************************************************************************)
EXTENDS QuestionBank

TwoNames == <<"A", "B">>
ThreeNames == <<"A", "B", "C">>

(* A user may name a group like the bank's own directory. *)
NamesWithRoot == <<"A", "QuestionBank">>

(* "?" stands for a name Windows does not accept. *)
NamesWithBad == <<"A", "B", "?">>

IdSymmetry == Permutations(Ids)
=============================================================================
