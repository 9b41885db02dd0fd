--------------------------- MODULE BankRefinement ---------------------------
(***************************************************************************)
(* QuestionBank implements Bank.  The groups and questions of Bank are     *)
(* those of the tree in memory while the program waits for the user.       *)
(* While a call or uninit() is under way, and between the sessions, they   *)
(* are what they were last: a start has to bring them back, and the window *)
(* sees nothing of a deletion that is half done.  The variable content     *)
(* remembers them, and changes nothing else.                               *)
(***************************************************************************)
EXTENDS QuestionBank

VARIABLE content

ContentOf(t) ==
  LET ids == {t[p].id : p \in DOMAIN t} \ {NoId}
      At(id) == CHOOSE p \in DOMAIN t : t[p].id = id
  IN [groups |-> [id \in ids |-> [parent |-> t[Front(At(id))].id,
                                  name |-> t[At(id)].name]],
      questions |-> [id \in ids |-> ItemsAt(t, At(id))]]

ContentInit == Init /\ content = [groups |-> <<>>, questions |-> <<>>]

Remember ==
  IF run' = "on" /\ call' = NoCall THEN content' = ContentOf(tree')
  ELSE UNCHANGED content

ContentNext == Next /\ Remember

ContentSpec == ContentInit /\ [][ContentNext]_<<vars, content>>

Abs == INSTANCE Bank WITH
  RootId <- NoId,
  GroupNames <- Names,
  on <- run \in {"on", "closing"},
  groups <- content.groups,
  questions <- content.questions

(* Without renames, crashes and failing disks the bank is the tree of      *)
(* groups and questions the window relies on: every operation does what it *)
(* says to the group it names, a refused one does nothing, and the         *)
(* directories, ids.dat and the question files bring it all back at the    *)
(* next start.                                                             *)
ImplementsBank == Abs!Spec
=============================================================================
