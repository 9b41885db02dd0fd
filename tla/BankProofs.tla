----------------------------- MODULE BankProofs -----------------------------
(***************************************************************************)
(* The bank the window relies on is a tree of uniquely named groups, for   *)
(* any ids, names and questions and any number of sessions.                *)
(***************************************************************************)
EXTENDS Bank, TLAPS

(* BankSound, with questions a function. *)
BankInv ==
  /\ BankSound
  /\ questions = [g \in DOMAIN questions |-> questions[g]]

(* The subtree of a group is closed: what remains after its removal has no *)
(* parent in it.                                                           *)
LEMMA SubtreeClosed ==
  ASSUME NEW g, NEW h \in DOMAIN groups, groups[h].parent \in Subtree(g)
  PROVE  h \in Subtree(g)
  <1> DEFINE Closed(S) ==
               /\ g \in S
               /\ \A k \in DOMAIN groups : groups[k].parent \in S => k \in S
  <1>1. Subtree(g) = {k \in DOMAIN groups :
                        \A S \in SUBSET DOMAIN groups : Closed(S) => k \in S}
    BY DEF Subtree
  <1>2. ASSUME NEW S \in SUBSET DOMAIN groups, Closed(S)
        PROVE  h \in S
    <2>1. groups[h].parent \in S
      BY <1>1, <1>2
    <2> QED BY <1>2, <2>1
  <1> QED BY <1>1, <1>2

LEMMA BankInit == Init => BankInv
  BY DEF Init, BankInv, BankSound, ParentsExist, NamesUnique, QuestionsPlaced

LEMMA AddGroupSound ==
  ASSUME BankInv, NEW p \in Ids \cup {RootId}, NEW g \in Ids,
         NEW n \in GroupNames, AddGroup(p, g, n)
  PROVE  BankInv'
  <1> USE DEF BankInv, BankSound
  <1> DEFINE item == [parent |-> p, name |-> n]
  <1>1. /\ g \notin DOMAIN groups
        /\ p \in DOMAIN groups \cup {RootId}
        /\ \A h \in DOMAIN groups : groups[h].name # n
        /\ groups' = With(groups, g, item)
        /\ questions' = With(questions, g, <<>>)
    BY DEF AddGroup
  <1>2. groups' = [z \in DOMAIN groups \cup {g} |->
                     IF z = g THEN item ELSE groups[z]]
    BY <1>1 DEF With
  <1>3. questions' = [z \in DOMAIN groups \cup {g} |->
                        IF z = g THEN <<>> ELSE questions[z]]
    BY <1>1 DEF With, QuestionsPlaced
  <1>4. ParentsExist'
    BY <1>1, <1>2 DEF ParentsExist
  <1>5. NamesUnique'
    BY <1>1, <1>2 DEF NamesUnique
  <1>6. QuestionsPlaced'
    BY <1>2, <1>3 DEF QuestionsPlaced
  <1>7. (questions = [h \in DOMAIN questions |-> questions[h]])'
    BY <1>3
  <1> QED BY <1>4, <1>5, <1>6, <1>7

LEMMA DeleteGroupSound ==
  ASSUME BankInv, NEW g \in Ids, DeleteGroup(g)
  PROVE  BankInv'
  <1> USE DEF BankInv, BankSound
  <1>1. /\ groups' = [h \in DOMAIN groups \ Subtree(g) |-> groups[h]]
        /\ questions' = [h \in DOMAIN groups \ Subtree(g) |-> questions[h]]
    BY DEF DeleteGroup, Without, QuestionsPlaced
  <1>2. ParentsExist'
    <2>1. ASSUME NEW h \in DOMAIN groups', groups[h].parent # RootId
          PROVE  groups[h].parent \in DOMAIN groups'
      BY <1>1, <2>1, SubtreeClosed DEF ParentsExist
    <2>2. \A h \in DOMAIN groups' :
            groups'[h] \in [parent : DOMAIN groups' \cup {RootId}, name : GroupNames]
      BY <1>1, <2>1 DEF ParentsExist
    <2> QED BY <1>1, <2>2 DEF ParentsExist
  <1>3. NamesUnique'
    BY <1>1 DEF NamesUnique
  <1>4. QuestionsPlaced'
    BY <1>1 DEF QuestionsPlaced
  <1> QED BY <1>1, <1>2, <1>3, <1>4

LEMMA UpdateGroupSound ==
  ASSUME BankInv, NEW g \in Ids, NEW n \in GroupNames, UpdateGroup(g, n)
  PROVE  BankInv'
  <1> USE DEF BankInv, BankSound
  <1>1. /\ g \in DOMAIN groups
        /\ \A h \in DOMAIN groups \ {g} : groups[h].name # n
        /\ groups' = [groups EXCEPT ![g].name = n]
        /\ questions' = questions
    BY DEF UpdateGroup
  <1>2. /\ DOMAIN groups' = DOMAIN groups
        /\ \A h \in DOMAIN groups :
             /\ groups'[h].name = IF h = g THEN n ELSE groups[h].name
             /\ groups'[h].parent = groups[h].parent
    BY <1>1 DEF ParentsExist
  <1>3. ParentsExist'
    BY <1>1 DEF ParentsExist
  <1>4. NamesUnique'
    BY <1>1, <1>2 DEF NamesUnique
  <1>5. QuestionsPlaced'
    BY <1>1, <1>2 DEF QuestionsPlaced
  <1> QED BY <1>1, <1>3, <1>4, <1>5

(* A question is added, changed or removed in the group g only. *)
LEMMA QuestionsSound ==
  ASSUME BankInv, NEW g \in DOMAIN groups, UNCHANGED groups, NEW qs,
         questions' = [questions EXCEPT ![g] = qs],
         \A q \in DOMAIN qs :
           \/ q \in DOMAIN questions[g]
           \/ \A h \in DOMAIN groups : q \notin DOMAIN questions[h]
  PROVE  BankInv'
  <1> USE DEF BankInv, BankSound
  <1>1. questions' = [h \in DOMAIN questions |-> IF h = g THEN qs ELSE questions[h]]
    OBVIOUS
  <1>2. QuestionsPlaced'
    BY <1>1 DEF QuestionsPlaced
  <1>3. ParentsExist' /\ NamesUnique'
    BY DEF ParentsExist, NamesUnique
  <1>4. (questions = [h \in DOMAIN questions |-> questions[h]])'
    BY <1>1
  <1> QED BY <1>2, <1>3, <1>4

LEMMA BankStep == BankInv /\ [Next]_vars => BankInv'
  <1> SUFFICES ASSUME BankInv, [Next]_vars
               PROVE  BankInv'
    OBVIOUS
  <1>0. CASE UNCHANGED <<groups, questions>>
    BY <1>0 DEF BankInv, BankSound, ParentsExist, NamesUnique, QuestionsPlaced
  <1>1. ASSUME NEW p \in Ids \cup {RootId}, NEW g \in Ids,
               NEW n \in GroupNames, AddGroup(p, g, n)
        PROVE  BankInv'
    BY <1>1, AddGroupSound
  <1>2. ASSUME NEW g \in Ids, DeleteGroup(g)
        PROVE  BankInv'
    BY <1>2, DeleteGroupSound
  <1>3. ASSUME NEW g \in Ids, NEW n \in GroupNames, UpdateGroup(g, n)
        PROVE  BankInv'
    BY <1>3, UpdateGroupSound
  <1>4. ASSUME NEW g \in Ids, NEW q \in Qids, NEW t \in Texts,
               AddQuestion(g, q, t)
        PROVE  BankInv'
    <2> DEFINE qs == With(questions[g], q, t)
    <2>1. /\ g \in DOMAIN groups
          /\ UNCHANGED groups
          /\ questions' = [questions EXCEPT ![g] = qs]
          /\ \A h \in DOMAIN groups : q \notin DOMAIN questions[h]
      BY <1>4 DEF AddQuestion
    <2>2. DOMAIN qs = DOMAIN questions[g] \cup {q}
      BY DEF With
    <2> HIDE DEF qs
    <2>3. \A x \in DOMAIN qs :
            \/ x \in DOMAIN questions[g]
            \/ \A h \in DOMAIN groups : x \notin DOMAIN questions[h]
      BY <2>1, <2>2
    <2> QED BY <2>1, <2>3, QuestionsSound
  <1>5. ASSUME NEW g \in Ids, NEW q \in Qids, NEW t \in Texts,
               UpdateQuestion(g, q, t)
        PROVE  BankInv'
    <2> DEFINE qs == [questions[g] EXCEPT ![q] = t]
    <2>1. /\ g \in DOMAIN groups
          /\ UNCHANGED groups
          /\ questions' = [questions EXCEPT ![g] = qs]
      BY <1>5 DEF UpdateQuestion
    <2>2. DOMAIN qs = DOMAIN questions[g]
      OBVIOUS
    <2> HIDE DEF qs
    <2> QED BY <2>1, <2>2, QuestionsSound
  <1>6. ASSUME NEW g \in Ids, NEW q \in Qids, DeleteQuestion(g, q)
        PROVE  BankInv'
    <2> DEFINE qs == Without(questions[g], {q})
    <2>1. /\ g \in DOMAIN groups
          /\ UNCHANGED groups
          /\ questions' = [questions EXCEPT ![g] = qs]
      BY <1>6 DEF DeleteQuestion
    <2>2. DOMAIN qs \subseteq DOMAIN questions[g]
      BY DEF Without
    <2> HIDE DEF qs
    <2> QED BY <2>1, <2>2, QuestionsSound
  <1>7. CASE Start \/ Quit \/ Refuse
    BY <1>0, <1>7 DEF Start, Quit, Refuse
  <1>8. ASSUME NEW g \in Ids, NEW q \in Qids, QueryQuestion(g, q)
        PROVE  BankInv'
    BY <1>0, <1>8 DEF QueryQuestion
  <1>9. CASE UNCHANGED vars
    BY <1>0, <1>9 DEF vars
  <1> QED BY <1>1, <1>2, <1>3, <1>4, <1>5, <1>6, <1>7, <1>8, <1>9 DEF Next

(* What the window relies on: in every session the groups are a tree with  *)
(* one name for each, and every question is in one group that exists.  By  *)
(* ImplementsBank this is so of CQuestionBankImpl while nothing is renamed *)
(* and nothing fails.                                                      *)
THEOREM BankStaysSound == Spec => []BankSound
  <1>1. BankInv => BankSound
    BY DEF BankInv
  <1> QED BY <1>1, BankInit, BankStep, PTL DEF Spec
=============================================================================
