--------------------------- MODULE MCQuestionFile ---------------------------
(***************************************************************************)
(* QuestionFile for TLC.  With VarintBase 8 the short item of a group      *)
(* takes a length of one byte and every other item one of two; the texts   *)
(* hold bytes that are also tags, lengths and continuation bytes.  The     *)
(* error texts are shorter than the buffer, as long as it and longer.      *)
(***************************************************************************)
EXTENDS QuestionFile

(* UTF-8 with bytes of four bits: 12 to 15 lead a character of two bytes,  *)
(* 8 to 11 end one, and the others are characters of their own.            *)
MCIsUtf8(text) ==
  /\ \A k \in DOMAIN text :
       text[k] \in 8..11 <=> k > 1 /\ text[k - 1] > 11
  /\ text # <<>> => text[Len(text)] < 12

MCIds == {<<1>>, <<4, 1>>, <<12, 9, 1>>}
MCGroups == {<<2, 1>>, <<3, 12, 8, 1>>}
MCQuestions == {<<1, 1, 5, 2>>}
MCAnswers == {<<15, 11>>}
MCFormats ==
  {[before |-> [k \in 1..n |-> 10 + k], after |-> <<7>>] : n \in 0..3}
=============================================================================
