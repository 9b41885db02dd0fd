------------------------- MODULE QuestionBankProofs -------------------------
(***************************************************************************)
(* Theorems about QuestionBank and Window, for any set of ids, names,      *)
(* questions and texts, any order of the names and any bounds.             *)
(*                                                                         *)
(* A step of the window is a step of the bank whatever ids it calls with,  *)
(* so that most facts are proved of Step, the bank's operations with       *)
(* arbitrary arguments, and hold of Spec and WinSpec alike.                *)
(*                                                                         *)
(* IdsInv and BankInv are the inductive invariant. IdsInv is what the id   *)
(* tables need; BankInv is the shape of the tree, of the calls inside each *)
(* other and of the disk: the group whose deletion is the innermost lies   *)
(* deepest, so that none of the others moves when it is erased.            *)
(*                                                                         *)
(* Renames, kills and deletions that fail half way can leave the tree, the *)
(* disk and the tables of ids apart. CleanInv is what holds until the      *)
(* first of them (Undisturbed): ids and names are unique, the tree is the  *)
(* tree of directories, every group is registered and ids.dat knows every  *)
(* file; while a group is deleted, but for that group and those below it.  *)
(* MirrorInv adds, for the window, that every file is open and that its    *)
(* items are the bank's groups, again but for the group being deleted.     *)
(***************************************************************************)
EXTENDS Window, FiniteSetTheorems, SequenceTheorems, TLAPS

-----------------------------------------------------------------------------
(* Sequences and paths. *)

(* A prefix, element by element. *)
LEMMA PrefixPointwise ==
  ASSUME NEW S, NEW p \in Seq(S), NEW q \in Seq(S)
  PROVE  /\ IsPrefix(p, q) <=> Len(p) <= Len(q) /\ \A i \in 1..Len(p) : p[i] = q[i]
         /\ IsStrictPrefix(p, q) <=> Len(p) < Len(q) /\ \A i \in 1..Len(p) : p[i] = q[i]
  <1>1. IsPrefix(p, q) <=> Len(p) <= Len(q) /\ \A i \in 1..Len(p) : p[i] = q[i]
    BY DEF IsPrefix
  <1>2. (Len(p) = Len(q) /\ \A i \in 1..Len(p) : p[i] = q[i]) => p = q
    BY SeqEqual
  <1> QED BY <1>1, <1>2, LenProperties DEF IsStrictPrefix

(* What Front and Last are, element by element. *)
LEMMA FrontProperties ==
  ASSUME NEW S, NEW p \in Seq(S), p # <<>>
  PROVE  /\ Front(p) \in Seq(S)
         /\ Len(p) \in Nat \ {0}
         /\ Len(Front(p)) = Len(p) - 1
         /\ \A i \in 1..(Len(p) - 1) : Front(p)[i] = p[i]
         /\ Last(p) = p[Len(p)] /\ Last(p) \in S
  <1>1. Len(p) \in Nat \ {0}
    BY EmptySeq
  <1>2. \A i \in 1..(Len(p) - 1) : p[i] \in S
    BY <1>1, ElementOfSeq
  <1>3. /\ SubSeq(p, 1, Len(p) - 1) \in Seq(S)
        /\ Len(SubSeq(p, 1, Len(p) - 1)) = Len(p) - 1
        /\ \A i \in 1..(Len(p) - 1) : SubSeq(p, 1, Len(p) - 1)[i] = p[i]
    <2> DEFINE n == Len(p) - 1
    <2>1. n \in Nat /\ \A i \in 1..n : p[i] \in S
      BY <1>1, <1>2
    <2> HIDE DEF n
    <2>2. /\ SubSeq(p, 1, n) \in Seq(S)
          /\ Len(SubSeq(p, 1, n)) = IF 1 <= n THEN n - 1 + 1 ELSE 0
          /\ \A i \in 1..(n - 1 + 1) : SubSeq(p, 1, n)[i] = p[1 + i - 1]
      BY <2>1, SubSeqProperties
    <2>3. /\ Len(SubSeq(p, 1, n)) = n
          /\ \A i \in 1..n : SubSeq(p, 1, n)[i] = p[i]
      BY <2>1, <2>2
    <2> QED BY <2>2, <2>3 DEF n
  <1>4. p[Len(p)] \in S
    BY <1>1, ElementOfSeq
  <1> QED BY <1>1, <1>3, <1>4 DEF Front, Last

(* emplace_back() and what was there before it. *)
LEMMA FrontOfAppend ==
  ASSUME NEW S, NEW p \in Seq(S), NEW x \in S
  PROVE  /\ Front(Append(p, x)) = p
         /\ Last(Append(p, x)) = x
         /\ Append(p, x) # <<>>
  BY AppendProperties DEF Front, Last

(* Prefixes of a sequence and of its front. *)
LEMMA PrefixOfFront ==
  ASSUME NEW S, NEW p \in Seq(S), NEW q \in Seq(S), p # <<>>
  PROVE  /\ IsPrefix(q, Front(p)) => IsPrefix(q, p)
         /\ IsPrefix(p, q) => IsPrefix(Front(p), q)
         /\ IsPrefix(q, p) => q = p \/ IsPrefix(q, Front(p))
  <1>1. /\ Front(p) \in Seq(S) /\ Len(p) \in Nat \ {0}
        /\ Len(Front(p)) = Len(p) - 1
        /\ \A i \in 1..(Len(p) - 1) : Front(p)[i] = p[i]
    BY FrontProperties
  <1>2. Len(q) \in Nat
    BY LenProperties
  <1>3. /\ IsPrefix(q, p) <=> Len(q) <= Len(p) /\ \A i \in 1..Len(q) : q[i] = p[i]
        /\ IsPrefix(p, q) <=> Len(p) <= Len(q) /\ \A i \in 1..Len(p) : p[i] = q[i]
        /\ IsPrefix(q, Front(p)) <=>
             Len(q) <= Len(p) - 1 /\ \A i \in 1..Len(q) : q[i] = Front(p)[i]
        /\ IsPrefix(Front(p), q) <=>
             Len(p) - 1 <= Len(q) /\ \A i \in 1..(Len(p) - 1) : Front(p)[i] = q[i]
    BY <1>1, PrefixPointwise
  <1>4. IsPrefix(q, Front(p)) => IsPrefix(q, p)
    BY <1>1, <1>2, <1>3
  <1>5. IsPrefix(p, q) => IsPrefix(Front(p), q)
    BY <1>1, <1>2, <1>3
  <1>6. IsPrefix(q, p) /\ Len(q) = Len(p) => q = p
    BY <1>3, SeqEqual
  <1>7. IsPrefix(q, p) /\ Len(q) # Len(p) => IsPrefix(q, Front(p))
    BY <1>1, <1>2, <1>3
  <1> QED BY <1>4, <1>5, <1>6, <1>7

AnyName == Names \cup {RootName}

(* The path of a directory of the bank. *)
Path ==
  {d \in Seq(AnyName) :
     d # <<>> /\ d[1] = RootName /\ \A i \in 2..Len(d) : d[i] \in Names}

(* The bank's own directory has a path of one name. *)
LEMMA RootIsPath == RootPath \in Path /\ Len(RootPath) = 1
  BY DEF RootPath, Path, AnyName

(* A directory but the bank's lies in a directory of the bank and has a    *)
(* group's name.                                                           *)
LEMMA PathProperties ==
  ASSUME NEW d \in Path
  PROVE  /\ d \in Seq(AnyName) /\ d # <<>> /\ Len(d) \in Nat \ {0}
         /\ d # RootPath <=> Len(d) >= 2
         /\ Len(d) >= 2 => Front(d) \in Path /\ Last(d) \in Names
         /\ Last(d) \in AnyName
  <1>1. d \in Seq(AnyName) /\ d # <<>> /\ d[1] = RootName
        /\ \A i \in 2..Len(d) : d[i] \in Names
    BY DEF Path
  <1>2. Len(d) \in Nat \ {0}
    BY <1>1, EmptySeq
  <1>3. /\ Front(d) \in Seq(AnyName)
        /\ Len(Front(d)) = Len(d) - 1
        /\ \A i \in 1..(Len(d) - 1) : Front(d)[i] = d[i]
        /\ Last(d) = d[Len(d)] /\ Last(d) \in AnyName
    BY <1>1, FrontProperties
  <1>4. Len(d) = 1 => d = RootPath
    <2>1. RootPath \in Seq(AnyName) /\ Len(RootPath) = 1 /\ RootPath[1] = RootName
      BY DEF RootPath, AnyName
    <2> QED BY <1>1, <2>1, SeqEqual
  <1>5. Len(d) >= 2 => Front(d) \in Path
    <2> HAVE Len(d) >= 2
    <2>1. Front(d) # <<>>
      BY <1>3, EmptySeq
    <2>2. Front(d)[1] = RootName /\ \A i \in 2..Len(Front(d)) : Front(d)[i] \in Names
      BY <1>1, <1>2, <1>3
    <2> QED BY <1>3, <2>1, <2>2 DEF Path
  <1>6. Len(d) >= 2 => Last(d) \in Names
    BY <1>1, <1>2, <1>3
  <1> QED BY <1>1, <1>2, <1>3, <1>4, <1>5, <1>6, RootIsPath

(* The path addGroup() makes is a path, in the parent's directory and with *)
(* the group's name.                                                       *)
LEMMA LongerPath ==
  ASSUME NEW d \in Path, NEW n \in Names
  PROVE  /\ Append(d, n) \in Path
         /\ Len(Append(d, n)) = Len(d) + 1 /\ Len(Append(d, n)) >= 2
         /\ Front(Append(d, n)) = d /\ Last(Append(d, n)) = n
  <1>1. /\ d \in Seq(AnyName) /\ Len(d) \in Nat \ {0} /\ n \in AnyName
        /\ d[1] = RootName /\ \A i \in 2..Len(d) : d[i] \in Names
    BY PathProperties DEF Path, AnyName
  <1>2. /\ Append(d, n) \in Seq(AnyName)
        /\ Append(d, n) # <<>>
        /\ Len(Append(d, n)) = Len(d) + 1
        /\ \A i \in 1..Len(d) : Append(d, n)[i] = d[i]
        /\ Append(d, n)[Len(d) + 1] = n
    BY <1>1, AppendProperties
  <1>3. Append(d, n)[1] = RootName
        /\ \A i \in 2..Len(Append(d, n)) : Append(d, n)[i] \in Names
    BY <1>1, <1>2
  <1>4. Append(d, n) \in Path
    BY <1>2, <1>3 DEF Path
  <1>5. Front(Append(d, n)) = d /\ Last(Append(d, n)) = n
    BY <1>1, FrontOfAppend
  <1> QED BY <1>1, <1>2, <1>4, <1>5

(* What rename() of a directory makes of a path: what is below the old     *)
(* name keeps its place below the new one, all else stays.                 *)
LEMMA MoveProperties ==
  ASSUME NEW src \in Path, NEW dst \in Path, NEW d \in Path
  PROVE  /\ Move(d, src, dst) \in Path
         /\ ~IsPrefix(src, d) => Move(d, src, dst) = d
         /\ Move(src, src, dst) = dst
         /\ IsPrefix(src, d) /\ d # src =>
              /\ Len(Move(d, src, dst)) >= 2
              /\ Front(Move(d, src, dst)) = Move(Front(d), src, dst)
  <1> USE DEF Move
  <1>1. /\ src \in Seq(AnyName) /\ Len(src) \in Nat \ {0}
        /\ dst \in Seq(AnyName) /\ Len(dst) \in Nat \ {0}
        /\ d \in Seq(AnyName) /\ Len(d) \in Nat \ {0}
    BY PathProperties
  <1>2. ASSUME NEW e \in Path, IsPrefix(src, e)
        PROVE  /\ Move(e, src, dst) \in Path
               /\ Len(src) <= Len(e)
               /\ Len(Move(e, src, dst)) = Len(dst) + Len(e) - Len(src)
               /\ \A i \in 1..Len(dst) : Move(e, src, dst)[i] = dst[i]
               /\ \A i \in (Len(dst) + 1)..(Len(dst) + Len(e) - Len(src)) :
                    Move(e, src, dst)[i] = e[i - Len(dst) + Len(src)]
    <2>1. /\ e \in Seq(AnyName) /\ Len(e) \in Nat \ {0}
          /\ \A i \in 2..Len(e) : e[i] \in Names
      BY PathProperties DEF Path
    <2>2. Len(src) <= Len(e)
      BY <1>2 DEF IsPrefix
    <2> DEFINE m == Len(src) + 1
               n == Len(e)
               rest == SubSeq(e, m, n)
    <2>3. m \in Int /\ n \in Int /\ \A i \in m..n : e[i] \in AnyName
      BY <1>1, <2>1, ElementOfSeq
    <2>4. /\ rest \in Seq(AnyName)
          /\ Len(rest) = IF m <= n THEN n - m + 1 ELSE 0
          /\ \A i \in 1..(n - m + 1) : rest[i] = e[m + i - 1]
      <3> HIDE DEF m, n
      <3> QED BY <2>3, SubSeqProperties
    <2>5. /\ Len(rest) = Len(e) - Len(src)
          /\ \A i \in 1..(Len(e) - Len(src)) : rest[i] = e[Len(src) + i]
      <3> HIDE DEF rest
      <3> QED BY <1>1, <2>1, <2>2, <2>4
    <2>6. Move(e, src, dst) = dst \o rest
      BY <1>2
    <2> HIDE DEF rest, Move
    <2>7. /\ dst \o rest \in Seq(AnyName)
          /\ Len(dst \o rest) = Len(dst) + Len(rest)
          /\ \A i \in 1..(Len(dst) + Len(rest)) :
               (dst \o rest)[i] = IF i <= Len(dst) THEN dst[i] ELSE rest[i - Len(dst)]
      BY <1>1, <2>4, ConcatProperties
    <2>8. /\ \A i \in 1..Len(dst) : (dst \o rest)[i] = dst[i]
          /\ \A i \in (Len(dst) + 1)..(Len(dst) + Len(e) - Len(src)) :
               (dst \o rest)[i] = e[i - Len(dst) + Len(src)]
      <3>1. ASSUME NEW i \in (Len(dst) + 1)..(Len(dst) + Len(e) - Len(src))
            PROVE  (dst \o rest)[i] = e[i - Len(dst) + Len(src)]
        <4>1. /\ i \in 1..(Len(dst) + Len(rest)) /\ ~(i <= Len(dst))
              /\ i - Len(dst) \in 1..(Len(e) - Len(src))
              /\ Len(src) + (i - Len(dst)) = i - Len(dst) + Len(src)
          BY <1>1, <2>1, <2>2, <2>5
        <4>2. (dst \o rest)[i] = rest[i - Len(dst)]
          BY <2>7, <4>1
        <4>3. rest[i - Len(dst)] = e[Len(src) + (i - Len(dst))]
          BY <2>5, <4>1
        <4> QED BY <4>1, <4>2, <4>3
      <3>2. \A i \in 1..Len(dst) : (dst \o rest)[i] = dst[i]
        BY <1>1, <2>1, <2>2, <2>5, <2>7
      <3> QED BY <3>1, <3>2
    <2>9. dst \o rest # <<>>
      BY <1>1, <2>5, <2>7, <2>1, <2>2, EmptySeq
    <2>10. dst[1] = RootName /\ \A i \in 2..Len(dst) : dst[i] \in Names
      BY DEF Path
    <2>11. (dst \o rest)[1] = RootName
      BY <1>1, <2>8, <2>10
    <2>12. ASSUME NEW i \in 2..Len(dst \o rest)
           PROVE  (dst \o rest)[i] \in Names
      <3>1. CASE i <= Len(dst)
        BY <1>1, <3>1, <2>8, <2>10
      <3>2. CASE i > Len(dst)
        <4>1. i \in (Len(dst) + 1)..(Len(dst) + Len(e) - Len(src))
          BY <1>1, <2>1, <2>2, <2>5, <2>7, <3>2
        <4>2. i - Len(dst) + Len(src) \in 2..Len(e)
          BY <1>1, <2>1, <2>2, <4>1
        <4> QED BY <2>1, <2>8, <4>1, <4>2
      <3> QED BY <1>1, <3>1, <3>2
    <2>13. dst \o rest \in Path
      BY <2>7, <2>9, <2>11, <2>12 DEF Path
    <2> QED BY <1>1, <2>1, <2>2, <2>5, <2>6, <2>7, <2>8, <2>13
  <1>3. Move(d, src, dst) \in Path
    BY <1>2
  <1>4. Move(src, src, dst) = dst
    <2>1. IsPrefix(src, src)
      BY <1>1, PrefixPointwise
    <2>2. /\ Move(src, src, dst) \in Path /\ Len(Move(src, src, dst)) = Len(dst)
          /\ \A i \in 1..Len(dst) : Move(src, src, dst)[i] = dst[i]
      <3> HIDE DEF Move
      <3> QED BY <1>1, <1>2, <2>1
    <2> QED
      <3> HIDE DEF Move
      <3> QED BY <1>1, <2>2, PathProperties, SeqEqual
  <1>5. ASSUME IsPrefix(src, d), d # src
        PROVE  /\ Len(Move(d, src, dst)) >= 2
               /\ Front(Move(d, src, dst)) = Move(Front(d), src, dst)
    <2> HIDE DEF Move
    <2>1. Len(src) <= Len(d) /\ Len(src) # Len(d)
      <3>1. Len(src) <= Len(d) /\ \A i \in 1..Len(src) : src[i] = d[i]
        BY <1>1, <1>5, PrefixPointwise
      <3> QED BY <1>1, <1>5, <3>1, SeqEqual
    <2>2. /\ Front(d) \in Path /\ Len(Front(d)) = Len(d) - 1
          /\ \A i \in 1..(Len(d) - 1) : Front(d)[i] = d[i]
      BY <1>1, <2>1, PathProperties, FrontProperties
    <2>3. IsPrefix(src, Front(d))
      BY <1>1, <1>5, PathProperties, PrefixOfFront
    <2> DEFINE a == Move(d, src, dst)
               b == Move(Front(d), src, dst)
    <2>4. /\ a \in Path
          /\ Len(a) = Len(dst) + Len(d) - Len(src)
          /\ \A i \in 1..Len(dst) : a[i] = dst[i]
          /\ \A i \in (Len(dst) + 1)..(Len(dst) + Len(d) - Len(src)) :
               a[i] = d[i - Len(dst) + Len(src)]
      BY <1>2, <1>5
    <2>5. /\ b \in Path
          /\ Len(b) = Len(dst) + (Len(d) - 1) - Len(src)
          /\ \A i \in 1..Len(dst) : b[i] = dst[i]
          /\ \A i \in (Len(dst) + 1)..(Len(dst) + (Len(d) - 1) - Len(src)) :
               b[i] = Front(d)[i - Len(dst) + Len(src)]
      BY <1>2, <2>2, <2>3
    <2> HIDE DEF a, b
    <2>6. Len(a) >= 2
      BY <1>1, <2>1, <2>4
    <2>7. /\ Front(a) \in Seq(AnyName) /\ Len(Front(a)) = Len(a) - 1
          /\ \A i \in 1..(Len(a) - 1) : Front(a)[i] = a[i]
      BY <2>4, PathProperties, FrontProperties
    <2>8. b \in Seq(AnyName) /\ Len(Front(a)) = Len(b)
      BY <1>1, <2>4, <2>5, <2>7, PathProperties
    <2>9. ASSUME NEW i \in 1..Len(b) PROVE Front(a)[i] = b[i]
      <3>1. CASE i <= Len(dst)
        BY <1>1, <2>1, <2>4, <2>5, <2>7, <3>1
      <3>2. CASE i > Len(dst)
        <4>1. i \in (Len(dst) + 1)..(Len(dst) + (Len(d) - 1) - Len(src))
          BY <1>1, <2>5, <3>2
        <4>2. i - Len(dst) + Len(src) \in 1..(Len(d) - 1)
          BY <1>1, <4>1
        <4>3. i \in 1..(Len(a) - 1) /\ i \in (Len(dst) + 1)..(Len(dst) + Len(d) - Len(src))
          BY <1>1, <2>1, <2>4, <4>1
        <4> QED BY <2>2, <2>4, <2>5, <2>7, <4>1, <4>2, <4>3
      <3> QED BY <1>1, <2>1, <2>5, <3>1, <3>2
    <2> QED BY <2>6, <2>7, <2>8, <2>9, SeqEqual DEF a, b
  <1> QED BY <1>3, <1>4, <1>5

-----------------------------------------------------------------------------
(* Orders. *)

(* Induction, as a fact about sets of numbers. *)
LEMMA NatSets ==
  ASSUME NEW S, 0 \in S, \A n \in Nat : n \in S => n + 1 \in S
  PROVE  Nat \subseteq S
  <1> DEFINE R == StrictSubsetOrdering(Nat)
             Bad == {n \in Nat : n \notin S}
             T == {0..n : n \in Bad}
  <1>1. IsWellFoundedOn(R, FiniteSubsetsOf(Nat))
    BY FS_StrictSubsetOrderingWellFounded
  <1>2. T \subseteq FiniteSubsetsOf(Nat)
    <2> SUFFICES ASSUME NEW n \in Bad PROVE 0..n \in FiniteSubsetsOf(Nat)
      OBVIOUS
    <2>1. IsFiniteSet(0..n)
      BY FS_Interval
    <2> QED BY <2>1 DEF FiniteSubsetsOf
  <1> SUFFICES ASSUME Bad # {} PROVE FALSE
    OBVIOUS
  <1>3. T # {}
    OBVIOUS
  <1>4. PICK x \in T : \A y \in T : ~(<<y, x>> \in R)
    <2> HIDE DEF T, R
    <2> QED BY <1>1, <1>2, <1>3, WFMin
  <1>5. PICK m \in Bad : x = 0..m
    OBVIOUS
  <1>6. \A n \in Bad : n >= m
    <2> SUFFICES ASSUME NEW n \in Bad, n < m PROVE FALSE
      OBVIOUS
    <2>1. 0..n \in T
      OBVIOUS
    <2>2. <<0..n, 0..m>> \in R
      <3>1. 0..n \in SUBSET Nat /\ 0..m \in SUBSET Nat
        OBVIOUS
      <3>2. 0..n \subseteq 0..m /\ m \notin 0..n /\ m \in 0..m
        OBVIOUS
      <3> QED BY <3>1, <3>2 DEF StrictSubsetOrdering
    <2> QED BY <2>1, <2>2, <1>4, <1>5
  <1>7. m # 0 /\ m - 1 \in Nat
    OBVIOUS
  <1>8. m - 1 \in S
    BY <1>6, <1>7
  <1> QED BY <1>7, <1>8

(* A finite set has a minimum in any order. *)
LEMMA FiniteMinimum ==
  ASSUME NEW R, NEW U, IsFiniteSet(U), U # {},
         \A x \in U : <<x, x>> \notin R,
         \A x, y, z \in U : <<x, y>> \in R /\ <<y, z>> \in R => <<x, z>> \in R
  PROVE  \E m \in U : \A x \in U : <<x, m>> \notin R
  <1> DEFINE HasMin(T) == \E m \in T : \A x \in T : <<x, m>> \notin R
             S == {n \in Nat : \A T \in SUBSET U : Cardinality(T) = n + 1 => HasMin(T)}
  <1>1. 0 \in S
    <2> SUFFICES ASSUME NEW T \in SUBSET U, Cardinality(T) = 0 + 1 PROVE HasMin(T)
      OBVIOUS
    <2>0. IsFiniteSet(T) /\ Cardinality(T) = 1
      BY FS_Subset
    <2>1. PICK x : T = {x}
      BY <2>0, FS_Singleton
    <2> QED BY <2>1
  <1>2. ASSUME NEW n \in Nat, n \in S PROVE n + 1 \in S
    <2> SUFFICES ASSUME NEW T \in SUBSET U, Cardinality(T) = n + 1 + 1 PROVE HasMin(T)
      OBVIOUS
    <2>1. IsFiniteSet(T)
      BY FS_Subset
    <2>2. PICK x \in T : TRUE
      BY <2>1, FS_EmptySet
    <2>3. T \ {x} \in SUBSET U /\ Cardinality(T \ {x}) = n + 1
      <3>1. Cardinality(T \ {x}) = IF x \in T THEN Cardinality(T) - 1 ELSE Cardinality(T)
        BY <2>1, FS_RemoveElement
      <3> QED BY <3>1
    <2>4. PICK m \in T \ {x} : \A y \in T \ {x} : <<y, m>> \notin R
      BY <1>2, <2>3
    <2>5. CASE <<x, m>> \in R
      <3>1. \A y \in T : <<y, x>> \notin R
        BY <2>4, <2>5
      <3> QED BY <3>1
    <2>6. CASE <<x, m>> \notin R
      BY <2>4, <2>6
    <2> QED BY <2>5, <2>6
  <1>3. Nat \subseteq S
    <2> HIDE DEF S
    <2> QED BY <1>1, <1>2, NatSets
  <1>4. Cardinality(U) \in Nat /\ Cardinality(U) # 0
    BY FS_CardinalityType, FS_EmptySet
  <1>5. Cardinality(U) - 1 \in S /\ Cardinality(U) = Cardinality(U) - 1 + 1
    BY <1>3, <1>4
  <1> QED BY <1>5

Positions == Seq(Nat)

(* The order of visits is one: no group is visited before itself. *)
LEMMA BeforeIrreflexive == \A p \in Positions : ~Before(p, p)
  <1> SUFFICES ASSUME NEW p \in Seq(Nat), Before(p, p) PROVE FALSE
    BY DEF Positions
  <1>1. PICK i \in DOMAIN p : p[i] < p[i]
    BY DEF Before, IsStrictPrefix
  <1>2. p[i] \in Nat
    BY <1>1, LenProperties, ElementOfSeq
  <1> QED BY <1>1, <1>2

(* The order of visits is one: it is transitive. *)
LEMMA BeforeTransitive ==
  ASSUME NEW p \in Positions, NEW q \in Positions, NEW r \in Positions,
         Before(p, q), Before(q, r)
  PROVE  Before(p, r)
  <1> DEFINE Lex(a, b, i) == i \in 1..Len(a) /\ i \in 1..Len(b)
                             /\ a[i] < b[i] /\ \A j \in 1..(i - 1) : a[j] = b[j]
             Pre(a, b) == Len(a) < Len(b) /\ \A i \in 1..Len(a) : a[i] = b[i]
  <1>1. ASSUME NEW a \in Seq(Nat), NEW b \in Seq(Nat)
        PROVE  Before(a, b) <=> Pre(a, b) \/ \E i \in Nat : Lex(a, b, i)
    <2>1. IsStrictPrefix(a, b) <=> Pre(a, b)
      BY PrefixPointwise
    <2>2. DOMAIN a = 1..Len(a) /\ DOMAIN b = 1..Len(b) /\ Len(a) \in Nat /\ Len(b) \in Nat
      BY LenProperties
    <2>3. IsStrictPrefix(a, b) \/ (\E i \in DOMAIN a \cap DOMAIN b :
                                     a[i] < b[i] /\ \A j \in 1..(i - 1) : a[j] = b[j])
            <=> Pre(a, b) \/ \E i \in Nat : Lex(a, b, i)
      <3>1. \A i : i \in DOMAIN a \cap DOMAIN b
                   <=> i \in Nat /\ i \in 1..Len(a) /\ i \in 1..Len(b)
        BY <2>2
      <3>2. \A i : (/\ i \in DOMAIN a \cap DOMAIN b
                    /\ a[i] < b[i] /\ \A j \in 1..(i - 1) : a[j] = b[j])
                   <=> i \in Nat /\ Lex(a, b, i)
        BY <3>1
      <3> HIDE DEF Pre, Lex
      <3> QED BY <2>1, <3>2
    <2> QED BY <2>3 DEF Before
  <1>2. p \in Seq(Nat) /\ q \in Seq(Nat) /\ r \in Seq(Nat)
    BY DEF Positions
  <1>3. Len(p) \in Nat /\ Len(q) \in Nat /\ Len(r) \in Nat
        /\ (\A i \in 1..Len(p) : p[i] \in Nat)
        /\ (\A i \in 1..Len(q) : q[i] \in Nat)
        /\ (\A i \in 1..Len(r) : r[i] \in Nat)
    BY <1>2, LenProperties, ElementOfSeq
  <1> SUFFICES Pre(p, r) \/ \E i \in Nat : Lex(p, r, i)
    BY <1>1, <1>2
  <1>4. CASE Pre(p, q) /\ Pre(q, r)
    BY <1>3, <1>4
  <1>5. ASSUME Pre(p, q), NEW i \in Nat, Lex(q, r, i)
        PROVE  Pre(p, r) \/ Lex(p, r, i)
    <2>1. CASE i <= Len(p)
      BY <1>3, <1>5, <2>1
    <2>2. CASE i > Len(p)
      BY <1>3, <1>5, <2>2
    <2> QED BY <1>3, <2>1, <2>2
  <1>6. ASSUME NEW i \in Nat, Lex(p, q, i), Pre(q, r)
        PROVE  Lex(p, r, i)
    BY <1>3, <1>6
  <1>7. ASSUME NEW i \in Nat, Lex(p, q, i), NEW k \in Nat, Lex(q, r, k)
        PROVE  Lex(p, r, i) \/ Lex(p, r, k)
    <2>1. CASE i < k
      BY <1>3, <1>7, <2>1
    <2>2. CASE i = k
      BY <1>3, <1>7, <2>2
    <2>3. CASE i > k
      BY <1>3, <1>7, <2>3
    <2> QED BY <2>1, <2>2, <2>3
  <1>8. Pre(p, q) \/ \E i \in Nat : Lex(p, q, i)
    BY <1>1, <1>2
  <1>9. Pre(q, r) \/ \E i \in Nat : Lex(q, r, i)
    BY <1>1, <1>2
  <1> HIDE DEF Pre, Lex
  <1> QED BY <1>4, <1>5, <1>6, <1>7, <1>8, <1>9

(* The loops over groups find a first one, if there is any. *)
LEMMA FirstsExist ==
  ASSUME NEW S \in SUBSET Positions, IsFiniteSet(S), S # {}
  PROVE  Firsts(S) # {} /\ Firsts(S) \subseteq S
  <1> DEFINE R == {x \in S \X S : Before(x[1], x[2])}
  <1>1. \A x \in S : <<x, x>> \notin R
    BY BeforeIrreflexive
  <1>2. \A x, y, z \in S : <<x, y>> \in R /\ <<y, z>> \in R => <<x, z>> \in R
    BY BeforeTransitive
  <1>3. PICK m \in S : \A x \in S : <<x, m>> \notin R
    <2> HIDE DEF R
    <2> QED BY <1>1, <1>2, FiniteMinimum
  <1> QED BY <1>3 DEF Firsts

-----------------------------------------------------------------------------
(* The shape of the bank. *)

Items == UNION {[S -> Texts] : S \in SUBSET Qids}

Ctx == [file : Path \X Ids, items : Items]

Node == [name : AnyName, id : Ids \cup {NoId}, path : Path, ctx : Seq(Ctx)]

(* A tree as the code builds it: below the root only directories below the bank's. *)
TreeTyped(t) ==
  /\ DOMAIN t \subseteq Positions /\ IsFiniteSet(DOMAIN t)
  /\ t \in [DOMAIN t -> Node]
  /\ <<>> \in DOMAIN t
  /\ \A p \in DOMAIN t \ {<<>>} : t[p].path # RootPath

Frame == [at : Positions, turn : Nat, turns : Nat]

CallTyped ==
  /\ call.frames \in Seq(Frame)
  /\ \A i \in 1..Len(call.frames) : call.frames[i].at \in DOMAIN tree \ {<<>>}
  /\ \A i, j \in 1..Len(call.frames) :
       i < j => Len(call.frames[i].at) < Len(call.frames[j].at)
  /\ call.op = "updateGroup" =>
       call.frames = <<>> /\ call.todo \subseteq DOMAIN tree

FilesTyped(ds, fs) ==
  /\ IsFiniteSet(DOMAIN fs) /\ DOMAIN fs \subseteq ds \X Ids
  /\ fs \in [DOMAIN fs -> [ok : BOOLEAN, items : Items]]

DirsTyped(ds) ==
  /\ ds \subseteq Path /\ IsFiniteSet(ds)
  /\ \A d \in ds : d = RootPath \/ Front(d) \in ds

BankInv ==
  /\ TreeTyped(tree) /\ CallTyped
  /\ DirsTyped(dirs) /\ FilesTyped(dirs, files)
  /\ run \in {"on", "closing"} => Readable
  /\ run \in {"on", "closing"} \/ ~Readable => RootPath \in dirs

-----------------------------------------------------------------------------
(* Question files and directories. *)

(* The image of a finite set is finite. *)
LEMMA ImageFinite ==
  ASSUME NEW S, IsFiniteSet(S), NEW f, f = [x \in S |-> f[x]]
  PROVE  IsFiniteSet({f[x] : x \in S})
  <1> DEFINE T == {f[x] : x \in S}
  <1>1. f \in Surjection(S, T)
    BY DEF Surjection
  <1>2. IsFiniteSet(T)
    <2> HIDE DEF T
    <2> QED BY <1>1, FS_Surjection
  <1> QED BY <1>2

(* A question file may be empty. *)
LEMMA EmptyItems == <<>> \in Items
  <1>1. <<>> = [x \in {} |-> "none"]
    OBVIOUS
  <1>2. [x \in {} |-> "none"] \in [{} -> Texts]
    OBVIOUS
  <1> QED BY <1>1, <1>2 DEF Items

(* The question operations keep a list of questions one. *)
LEMMA ItemsProperties ==
  ASSUME NEW f \in Items
  PROVE  /\ \A S : Without(f, S) \in Items
         /\ \A q \in Qids, t \in Texts : With(f, q, t) \in Items
         /\ \A q : \A t \in Texts : [x \in DOMAIN f |-> IF x = q THEN t ELSE f[x]] \in Items
  <1>1. PICK S \in SUBSET Qids : f \in [S -> Texts]
    BY DEF Items
  <1>2. ASSUME NEW T PROVE Without(f, T) \in Items
    <2>1. Without(f, T) \in [S \ T -> Texts] /\ S \ T \in SUBSET Qids
      BY <1>1 DEF Without
    <2> QED BY <2>1 DEF Items
  <1>3. ASSUME NEW q \in Qids, NEW t \in Texts PROVE With(f, q, t) \in Items
    <2>1. With(f, q, t) \in [S \cup {q} -> Texts] /\ S \cup {q} \in SUBSET Qids
      BY <1>1 DEF With
    <2> QED BY <2>1 DEF Items
  <1>4. ASSUME NEW q, NEW t \in Texts
        PROVE  [x \in DOMAIN f |-> IF x = q THEN t ELSE f[x]] \in Items
    <2>1. [x \in DOMAIN f |-> IF x = q THEN t ELSE f[x]] \in [S -> Texts]
      BY <1>1
    <2> QED BY <2>1 DEF Items
  <1> QED BY <1>2, <1>3, <1>4

FileContent == [ok : BOOLEAN, items : Items]

(* What is written of a list of questions, whole or torn by a kill, is the *)
(* content of a file.                                                      *)
LEMMA StoredTyped ==
  /\ \A c \in Items : Stored(c) \in FileContent
  /\ \A c \in Items : Torn(c) \subseteq FileContent
  <1>1. ASSUME NEW c \in Items PROVE Stored(c) \in FileContent
    BY DEF Stored, FileContent
  <1>2. Corrupt \in FileContent
    BY EmptyItems DEF Corrupt, FileContent
  <1>3. ASSUME NEW c \in Items, NEW x \in Torn(c) PROVE x \in FileContent
    <2>1. CASE x = Corrupt
      BY <1>2, <2>1
    <2>2. CASE \E S \in SUBSET DOMAIN c : x = Stored(Without(c, S))
      BY <2>2, <1>1, ItemsProperties
    <2> QED BY <1>3, <2>1, <2>2 DEF Torn
  <1> QED BY <1>1, <1>3

(* Removing question files keeps the others what they are. *)
LEMMA FilesWithout ==
  ASSUME NEW ds, NEW fs, FilesTyped(ds, fs), NEW S
  PROVE  FilesTyped(ds, Without(fs, S))
  <1>1. DOMAIN Without(fs, S) = DOMAIN fs \ S
    BY DEF Without
  <1>2. IsFiniteSet(DOMAIN fs \ S)
    BY FS_Subset DEF FilesTyped
  <1> QED BY <1>1, <1>2 DEF FilesTyped, Without

(* Writing a question file into a directory that exists. *)
LEMMA FilesPut ==
  ASSUME NEW ds, NEW fs, FilesTyped(ds, fs),
         NEW f \in ds \X Ids, NEW v \in FileContent
  PROVE  FilesTyped(ds, Put(fs, f, v))
  <1>1. DOMAIN Put(fs, f, v) = DOMAIN fs \cup {f}
    BY DEF Put
  <1>2. IsFiniteSet(DOMAIN fs \cup {f})
    BY FS_AddElement DEF FilesTyped
  <1> QED BY <1>1, <1>2 DEF FilesTyped, Put, FileContent

(* CQuestionAnswerImpl::close() writes only into a directory that exists,  *)
(* and never leaves a file that does not parse.                            *)
LEMMA CloseCtxTyped ==
  ASSUME NEW ds, NEW fs, FilesTyped(ds, fs), NEW c \in Ctx
  PROVE  /\ FilesTyped(ds, CloseCtx(ds, fs, c))
         /\ (\A f \in DOMAIN fs : fs[f].ok) =>
              \A f \in DOMAIN CloseCtx(ds, fs, c) : CloseCtx(ds, fs, c)[f].ok
  <1>1. CASE c.items = <<>>
    <2>1. CloseCtx(ds, fs, c) = Without(fs, {c.file})
      BY <1>1 DEF CloseCtx
    <2>2. FilesTyped(ds, Without(fs, {c.file}))
      BY FilesWithout
    <2>3. \A f \in DOMAIN Without(fs, {c.file}) :
            f \in DOMAIN fs /\ Without(fs, {c.file})[f] = fs[f]
      BY DEF Without
    <2> QED BY <2>1, <2>2, <2>3
  <1>2. CASE c.items # <<>> /\ c.file[1] \in ds
    <2>1. c.file \in ds \X Ids /\ Stored(c.items) \in FileContent
      BY <1>2, StoredTyped DEF Ctx
    <2>2. CloseCtx(ds, fs, c) = Put(fs, c.file, Stored(c.items))
      BY <1>2 DEF CloseCtx
    <2>3. FilesTyped(ds, Put(fs, c.file, Stored(c.items)))
      BY <2>1, FilesPut
    <2>4. \A f \in DOMAIN Put(fs, c.file, Stored(c.items)) :
            \/ Put(fs, c.file, Stored(c.items))[f].ok
            \/ f \in DOMAIN fs /\ Put(fs, c.file, Stored(c.items))[f] = fs[f]
      BY DEF Put, Stored
    <2> QED BY <2>2, <2>3, <2>4
  <1>3. CASE c.items # <<>> /\ c.file[1] \notin ds
    BY <1>3 DEF CloseCtx
  <1> QED BY <1>1, <1>2, <1>3

(* A group's directory contains neither the bank's nor its own parent. *)
LEMMA RootIsNotBelow ==
  ASSUME NEW d \in Path, d # RootPath
  PROVE  ~IsPrefix(d, RootPath) /\ Front(d) \in Path /\ ~IsPrefix(d, Front(d))
  <1>1. Len(d) \in Nat \ {0} /\ Len(d) >= 2 /\ d \in Seq(AnyName) /\ d # <<>>
    BY PathProperties
  <1>2. Len(RootPath) = 1
    BY RootIsPath
  <1>3. Len(Front(d)) = Len(d) - 1
    BY <1>1, FrontProperties
  <1> QED BY <1>1, <1>2, <1>3, PathProperties DEF IsPrefix

(* remove_all() of a group's directory, complete or stopped half way,      *)
(* leaves every directory that is left with its parent, and every file     *)
(* that is left in a directory and as it was.                              *)
LEMMA RemoveTyped ==
  ASSUME DirsTyped(dirs), FilesTyped(dirs, files),
         NEW path \in Path, path # RootPath,
         RemoveAll(path) \/ RemovePart(path)
  PROVE  /\ DirsTyped(dirs') /\ FilesTyped(dirs', files')
         /\ DOMAIN files' \subseteq DOMAIN files
         /\ \A f \in DOMAIN files' : files'[f] = files[f]
         /\ RootPath \in dirs => RootPath \in dirs'
  <1>1. CASE UNCHANGED <<dirs, files>>
    BY <1>1
  <1> DEFINE gone == {f \in DOMAIN files : IsPrefix(path, f[1])}
  <1>2. ASSUME files' = Without(files, gone), dirs' \subseteq dirs,
               \A d \in dirs : ~IsPrefix(path, d) => d \in dirs'
        PROVE  /\ FilesTyped(dirs', files')
               /\ DOMAIN files' \subseteq DOMAIN files
               /\ \A f \in DOMAIN files' : files'[f] = files[f]
               /\ RootPath \in dirs => RootPath \in dirs'
    <2>1. FilesTyped(dirs, files')
      BY <1>2, FilesWithout
    <2>2. DOMAIN files' = DOMAIN files \ gone /\ \A f \in DOMAIN files' : files'[f] = files[f]
      BY <1>2 DEF Without
    <2>3. DOMAIN files' \subseteq dirs' \X Ids
      BY <1>2, <2>2 DEF FilesTyped
    <2> QED BY <1>2, <2>1, <2>2, <2>3, RootIsNotBelow DEF FilesTyped
  <1>3. ASSUME dirs' \subseteq dirs,
               \A d \in dirs' : d = RootPath \/ Front(d) \in dirs'
        PROVE  DirsTyped(dirs')
    BY <1>3, FS_Subset DEF DirsTyped
  <1>4. ASSUME NEW d \in dirs
        PROVE  /\ d \in Path
               /\ d # RootPath => /\ Front(d) \in dirs
                                  /\ IsPrefix(path, Front(d)) => IsPrefix(path, d)
                                  /\ \A e \in dirs : IsPrefix(d, e) => IsPrefix(Front(d), e)
    <2>1. d \in Path
      BY <1>4 DEF DirsTyped
    <2>2. d \in Seq(AnyName) /\ d # <<>> /\ path \in Seq(AnyName)
      BY <2>1, PathProperties
    <2>3. \A e \in dirs : e \in Seq(AnyName)
      BY PathProperties DEF DirsTyped
    <2> QED BY <2>1, <2>2, <2>3, PrefixOfFront DEF DirsTyped
  <1>5. CASE RemoveAll(path)
    <2>1. dirs' = {d \in dirs : ~IsPrefix(path, d)} /\ files' = Without(files, gone)
      BY <1>5 DEF RemoveAll
    <2>2. DirsTyped(dirs')
      BY <1>3, <1>4, <2>1
    <2> QED BY <1>2, <2>1, <2>2
  <1>6. ASSUME NEW stop \in dirs,
               dirs' = {d \in dirs : IsPrefix(path, d) => IsPrefix(d, stop)},
               files' = Without(files, gone)
        PROVE  /\ DirsTyped(dirs') /\ FilesTyped(dirs', files')
               /\ DOMAIN files' \subseteq DOMAIN files
               /\ \A f \in DOMAIN files' : files'[f] = files[f]
               /\ RootPath \in dirs => RootPath \in dirs'
    <2>1. DirsTyped(dirs')
      BY <1>3, <1>4, <1>6
    <2> QED BY <1>2, <1>6, <2>1
  <1> QED BY <1>1, <1>5, <1>6 DEF RemovePart

(* rename() of a group's directory leaves every directory with its parent  *)
(* and every file in a directory, with one of the contents there were.     *)
LEMMA RenameTyped ==
  ASSUME DirsTyped(dirs), FilesTyped(dirs, files),
         NEW src \in Path, src # RootPath, NEW dst \in Path,
         CanRename(src, dst), Rename(src, dst)
  PROVE  /\ DirsTyped(dirs') /\ FilesTyped(dirs', files')
         /\ \A f \in DOMAIN files' : \E g \in DOMAIN files : files'[f] = files[g]
         /\ RootPath \in dirs => RootPath \in dirs'
  <1> DEFINE M(d) == Move(d, src, dst)
             FM(f) == <<M(f[1]), f[2]>>
             moved == {FM(f) : f \in DOMAIN files}
             Origin(f) == CHOOSE g \in DOMAIN files : f = FM(g)
  <1>1. /\ dirs' = {M(d) : d \in dirs}
        /\ files' = [f \in moved |-> files[Origin(f)]]
    BY DEF Rename
  <1>2. \A d \in dirs : d \in Path
    BY DEF DirsTyped
  <1>3. \A d \in Path : /\ M(d) \in Path
                        /\ ~IsPrefix(src, d) => M(d) = d
                        /\ IsPrefix(src, d) /\ d # src =>
                             M(d) # RootPath /\ Front(M(d)) = M(Front(d))
    BY MoveProperties, PathProperties
  <1>4. M(src) = dst
    BY MoveProperties
  <1>5. ~IsPrefix(src, RootPath)
    BY RootIsNotBelow
  <1> HIDE DEF M
  <1>6. IsFiniteSet(dirs')
    <2> DEFINE g == [d \in dirs |-> M(d)]
    <2>1. IsFiniteSet({g[d] : d \in dirs})
      <3> HIDE DEF g
      <3>1. g = [d \in dirs |-> g[d]]
        BY DEF g
      <3> QED BY <3>1, ImageFinite DEF DirsTyped
    <2>2. {g[d] : d \in dirs} = dirs'
      BY <1>1
    <2> QED BY <2>1, <2>2
  <1>7. ASSUME NEW d \in dirs PROVE M(d) = RootPath \/ Front(M(d)) \in dirs'
    <2>1. CASE ~IsPrefix(src, d)
      <3>1. M(d) = d /\ (d = RootPath \/ Front(d) \in dirs)
        BY <1>2, <1>3, <2>1 DEF DirsTyped
      <3>2. CASE d # RootPath
        <4>1. Front(d) \in dirs /\ ~IsPrefix(src, Front(d))
          <5>1. d \in Seq(AnyName) /\ d # <<>> /\ src \in Seq(AnyName)
            BY <1>2, PathProperties
          <5> QED BY <2>1, <3>1, <3>2, <5>1, PrefixOfFront
        <4>2. M(Front(d)) = Front(d)
          BY <1>2, <1>3, <4>1
        <4> QED BY <1>1, <3>1, <4>1, <4>2
      <3> QED BY <3>1, <3>2
    <2>2. CASE d = src
      <3>1. Front(dst) \in dirs /\ (src = dst \/ ~IsPrefix(src, dst))
        BY DEF CanRename
      <3>2. ~IsPrefix(src, Front(dst))
        <4>1. CASE src = dst
          BY <4>1, RootIsNotBelow
        <4>2. CASE ~IsPrefix(src, dst)
          <5>1. dst \in Seq(AnyName) /\ dst # <<>> /\ src \in Seq(AnyName)
            BY PathProperties
          <5> QED BY <4>2, <5>1, PrefixOfFront
        <4> QED BY <3>1, <4>1, <4>2
      <3>3. M(Front(dst)) = Front(dst)
        BY <1>2, <1>3, <3>1, <3>2
      <3> QED BY <1>1, <1>4, <2>2, <3>1, <3>3
    <2>3. CASE IsPrefix(src, d) /\ d # src
      <3>1. d # RootPath
        BY <1>5, <2>3
      <3> QED BY <1>1, <1>2, <1>3, <2>3, <3>1 DEF DirsTyped
    <2> QED BY <2>1, <2>2, <2>3
  <1>8. DirsTyped(dirs')
    BY <1>1, <1>2, <1>3, <1>6, <1>7 DEF DirsTyped
  <1>9. DOMAIN files \subseteq dirs \X Ids /\ files \in [DOMAIN files -> FileContent]
        /\ IsFiniteSet(DOMAIN files)
    BY DEF FilesTyped, FileContent
  <1>10. DOMAIN files' = moved
    BY <1>1
  <1>11. IsFiniteSet(moved)
    <2> DEFINE g == [f \in DOMAIN files |-> FM(f)]
    <2>1. IsFiniteSet({g[f] : f \in DOMAIN files})
      <3>1. g = [f \in DOMAIN files |-> g[f]]
        OBVIOUS
      <3> HIDE DEF g
      <3> QED BY <1>9, <3>1, ImageFinite
    <2>2. {g[f] : f \in DOMAIN files} = moved
      OBVIOUS
    <2> QED BY <2>1, <2>2
  <1>12. moved \subseteq dirs' \X Ids
    BY <1>1, <1>9
  <1>13. \A f \in moved : Origin(f) \in DOMAIN files
    OBVIOUS
  <1>14. \A f \in moved : files'[f] = files[Origin(f)]
    BY <1>1
  <1> HIDE DEF moved, Origin
  <1>15. FilesTyped(dirs', files')
    BY <1>1, <1>9, <1>10, <1>11, <1>12, <1>13 DEF FilesTyped, FileContent
  <1>16. RootPath \in dirs => RootPath \in dirs'
    BY <1>1, <1>3, <1>5, RootIsPath
  <1> QED BY <1>8, <1>10, <1>13, <1>14, <1>15, <1>16

-----------------------------------------------------------------------------
(* The tree of groups. *)

(* A new group is one. *)
LEMMA NodeTyped ==
  ASSUME NEW name \in AnyName, NEW id \in Ids \cup {NoId}, NEW path \in Path
  PROVE  Group(name, id, path) \in Node /\ Group(name, id, path).path = path
         /\ Group(name, id, path).name = name /\ Group(name, id, path).id = id
  <1>1. <<>> \in Seq(Ctx)
    OBVIOUS
  <1> QED BY <1>1 DEF Group, Node

(* The tree without a group. *)
LEMMA NoTreeTyped == TreeTyped(NoTree)
  <1>1. <<>> \in Positions
    BY DEF Positions
  <1>2. Group(RootName, NoId, RootPath) \in Node
    BY NodeTyped, RootIsPath DEF AnyName
  <1>3. IsFiniteSet({<<>>})
    BY FS_Singleton
  <1> QED BY <1>1, <1>2, <1>3 DEF TreeTyped, NoTree

(* A group has finitely many subgroups, one index deeper. *)
LEMMA SubgroupsCounted ==
  ASSUME NEW t, TreeTyped(t), NEW p
  PROVE  /\ Cardinality(Subgroups(t, p)) \in Nat
         /\ Subgroups(t, p) \subseteq DOMAIN t \ {<<>>}
         /\ \A q \in Subgroups(t, p) : q \in Positions /\ Front(q) = p /\ Len(q) = Len(p) + 1
  <1>1. Subgroups(t, p) \subseteq DOMAIN t
    BY DEF Subgroups
  <1>2. IsFiniteSet(Subgroups(t, p))
    BY <1>1, FS_Subset DEF TreeTyped
  <1>3. ASSUME NEW q \in Subgroups(t, p)
        PROVE q \in Positions /\ q # <<>> /\ Front(q) = p /\ Len(q) = Len(p) + 1
    <2>1. q \in Seq(Nat) /\ q # <<>> /\ Front(q) = p
      BY DEF Subgroups, TreeTyped, Positions
    <2>2. Len(q) \in Nat \ {0} /\ Len(Front(q)) = Len(q) - 1
      BY <2>1, FrontProperties
    <2> QED BY <2>1, <2>2 DEF Positions
  <1> QED BY <1>1, <1>2, <1>3, FS_CardinalityType

(* emplace_back() of a group keeps the tree one, with one position more. *)
LEMMA WithSubgroupTyped ==
  ASSUME NEW t, TreeTyped(t), NEW p \in DOMAIN t, NEW grp \in Node, grp.path # RootPath
  PROVE  /\ TreeTyped(WithSubgroup(t, p, grp))
         /\ DOMAIN WithSubgroup(t, p, grp)
              = DOMAIN t \cup {Append(p, Cardinality(Subgroups(t, p)) + 1)}
  <1> DEFINE q == Append(p, Cardinality(Subgroups(t, p)) + 1)
             u == With(t, q, grp)
  <1>1. q \in Positions /\ q # <<>>
    <2>1. p \in Seq(Nat) /\ Cardinality(Subgroups(t, p)) + 1 \in Nat
      BY SubgroupsCounted, SMTT(30) DEF TreeTyped, Positions
    <2> QED BY <2>1, AppendProperties DEF Positions
  <1> HIDE DEF q
  <1>2. DOMAIN u = DOMAIN t \cup {q}
    BY DEF With
  <1>3. IsFiniteSet(DOMAIN t \cup {q})
    BY FS_AddElement DEF TreeTyped
  <1>4. TreeTyped(u)
    BY <1>1, <1>2, <1>3 DEF TreeTyped, With
  <1> QED BY <1>2, <1>4 DEF WithSubgroup, q

(* Giving a group other open files or another name keeps the tree one. *)
LEMMA ExceptTyped ==
  ASSUME NEW t, TreeTyped(t), NEW p
  PROVE  /\ \A c \in Seq(Ctx) : TreeTyped([t EXCEPT ![p].ctx = c])
         /\ \A n \in AnyName : TreeTyped([t EXCEPT ![p].name = n])
  <1>1. CASE p \in DOMAIN t
    <2>1. t[p] \in Node
      BY <1>1 DEF TreeTyped
    <2>2. ASSUME NEW c \in Seq(Ctx) PROVE TreeTyped([t EXCEPT ![p].ctx = c])
      <3>1. [t[p] EXCEPT !.ctx = c] \in Node /\ [t[p] EXCEPT !.ctx = c].path = t[p].path
        BY <2>1 DEF Node
      <3> DEFINE u == [t EXCEPT ![p] = [t[p] EXCEPT !.ctx = c]]
      <3>2. TreeTyped(u)
        BY <1>1, <3>1 DEF TreeTyped
      <3>3. [t EXCEPT ![p].ctx = c] = u
        BY <1>1
      <3> QED BY <3>2, <3>3
    <2>3. ASSUME NEW n \in AnyName PROVE TreeTyped([t EXCEPT ![p].name = n])
      <3>1. [t[p] EXCEPT !.name = n] \in Node /\ [t[p] EXCEPT !.name = n].path = t[p].path
        BY <2>1 DEF Node
      <3> DEFINE u == [t EXCEPT ![p] = [t[p] EXCEPT !.name = n]]
      <3>2. TreeTyped(u)
        BY <1>1, <3>1 DEF TreeTyped
      <3>3. [t EXCEPT ![p].name = n] = u
        BY <1>1
      <3> QED BY <3>2, <3>3
    <2> QED BY <2>2, <2>3
  <1>2. CASE p \notin DOMAIN t
    <2>1. \A x : [t EXCEPT ![p].ctx = x] = t /\ [t EXCEPT ![p].name = x] = t
      BY <1>2 DEF TreeTyped
    <2> QED BY <2>1
  <1> QED BY <1>1, <1>2

(* erase() of a group keeps the tree one, and no group further up moves. *)
LEMMA WithoutGroupTyped ==
  ASSUME NEW t, TreeTyped(t), NEW q \in DOMAIN t \ {<<>>}
  PROVE  /\ TreeTyped(WithoutGroup(t, q))
         /\ \A r \in DOMAIN t : Len(r) < Len(q) => r \in DOMAIN WithoutGroup(t, q)
  <1> DEFINE i == Len(q)
             kept == {r \in DOMAIN t : ~IsPrefix(q, r)}
             After(r) == Len(r) >= i /\ SubSeq(r, 1, i - 1) = Front(q) /\ r[i] > q[i]
             Moved(r) == IF After(r) THEN [r EXCEPT ![i] = @ - 1] ELSE r
             img == {Moved(r) : r \in kept}
             u == [s \in img |-> t[CHOOSE r \in kept : Moved(r) = s]]
  <1>1. WithoutGroup(t, q) = u
    BY DEF WithoutGroup
  <1>2. q \in Seq(Nat) /\ i \in Nat \ {0} /\ q[i] \in Nat
    BY FrontProperties DEF TreeTyped, Positions
  <1>3. ASSUME NEW r \in DOMAIN t
        PROVE  /\ Moved(r) \in Positions
               /\ Moved(r) = <<>> <=> r = <<>>
               /\ Len(r) < i => r \in kept /\ Moved(r) = r
    <2>1. r \in Seq(Nat) /\ Len(r) \in Nat /\ \A j \in 1..Len(r) : r[j] \in Nat
      BY LenProperties, ElementOfSeq DEF TreeTyped, Positions
    <2>2. CASE After(r)
      <3>1. i \in 1..Len(r) /\ r[i] \in Nat /\ r[i] > q[i]
        BY <1>2, <2>1, <2>2
      <3>2. r[i] - 1 \in Nat
        BY <1>2, <3>1
      <3>3. /\ [r EXCEPT ![i] = r[i] - 1] \in Seq(Nat)
            /\ Len([r EXCEPT ![i] = r[i] - 1]) = Len(r)
        BY <2>1, <3>1, <3>2, ExceptSeq
      <3>4. Moved(r) \in Seq(Nat) /\ Len(Moved(r)) = Len(r)
        BY <2>2, <3>3
      <3> HIDE DEF Moved
      <3> QED BY <2>1, <2>2, <3>1, <3>4, EmptySeq DEF Positions
    <2>3. CASE ~After(r)
      <3>1. Moved(r) = r
        BY <2>3
      <3>2. Len(r) < i => r \in kept
        BY <1>2, <2>1 DEF IsPrefix
      <3> QED BY <2>1, <3>1, <3>2 DEF Positions
    <2> QED BY <2>2, <2>3
  <1> HIDE DEF Moved
  <1>4. IsFiniteSet(img)
    <2> DEFINE g == [r \in kept |-> Moved(r)]
    <2>1. IsFiniteSet(kept)
      BY FS_Subset DEF TreeTyped
    <2>2. IsFiniteSet({g[r] : r \in kept})
      <3>1. g = [r \in kept |-> g[r]]
        OBVIOUS
      <3> HIDE DEF g, kept
      <3> QED BY <2>1, <3>1, ImageFinite
    <2>3. {g[r] : r \in kept} = img
      OBVIOUS
    <2> QED BY <2>2, <2>3
  <1>5. \A s \in img : /\ (CHOOSE r \in kept : Moved(r) = s) \in kept
                       /\ Moved(CHOOSE r \in kept : Moved(r) = s) = s
    OBVIOUS
  <1>6. \A s \in img : \E r \in kept : u[s] = t[r] /\ Moved(r) = s
    BY <1>5
  <1>7. DOMAIN u = img
    OBVIOUS
  <1>8. u = [s \in img |-> u[s]]
    OBVIOUS
  <1>9. <<>> \in kept /\ Moved(<<>>) = <<>>
    <2>1. Len(<<>>) = 0 /\ <<>> \in DOMAIN t
      BY DEF TreeTyped
    <2> QED BY <1>2, <1>3, <2>1
  <1>10. \A r \in kept : r \in DOMAIN t
    OBVIOUS
  <1> HIDE DEF u, kept
  <1>11. TreeTyped(u)
    <2>1. DOMAIN u \subseteq Positions /\ IsFiniteSet(DOMAIN u) /\ <<>> \in DOMAIN u
      BY <1>3, <1>4, <1>7, <1>9, <1>10
    <2>2. u \in [DOMAIN u -> Node]
      BY <1>6, <1>7, <1>8, <1>10 DEF TreeTyped
    <2>3. \A s \in DOMAIN u \ {<<>>} : u[s].path # RootPath
      BY <1>3, <1>6, <1>7, <1>10 DEF TreeTyped
    <2> QED BY <2>1, <2>2, <2>3 DEF TreeTyped
  <1>12. ASSUME NEW r \in DOMAIN t, Len(r) < Len(q) PROVE r \in DOMAIN u
    BY <1>3, <1>7, <1>12
  <1> QED BY <1>1, <1>11, <1>12

-----------------------------------------------------------------------------
(* The directory iterator. *)

FileEntry(f) == [dir |-> f[1], file |-> f]
DirEntry(d) == [dir |-> Front(d), sub |-> d]

(* The two kinds of entries the directory iterator yields. *)
LEMMA EntryForms ==
  ASSUME NEW ds, NEW fs
  PROVE  /\ Entries(ds, fs) = {FileEntry(f) : f \in DOMAIN fs}
                                \cup {DirEntry(d) : d \in ds \ {RootPath}}
         /\ \A f : IsFile(FileEntry(f)) /\ FileEntry(f).dir = f[1] /\ FileEntry(f).file = f
         /\ \A d : ~IsFile(DirEntry(d)) /\ DirEntry(d).dir = Front(d) /\ DirEntry(d).sub = d
  BY DEF Entries, FileEntry, DirEntry, IsFile

(* The directory iterator comes to an end. *)
LEMMA EntriesFinite ==
  ASSUME NEW ds, NEW fs, IsFiniteSet(ds), IsFiniteSet(DOMAIN fs)
  PROVE  IsFiniteSet(Entries(ds, fs))
  <1> DEFINE g == [f \in DOMAIN fs |-> FileEntry(f)]
             h == [d \in ds \ {RootPath} |-> DirEntry(d)]
  <1>1. IsFiniteSet({g[f] : f \in DOMAIN fs})
    <2>1. g = [f \in DOMAIN fs |-> g[f]]
      OBVIOUS
    <2> HIDE DEF g
    <2> QED BY <2>1, ImageFinite
  <1>2. IsFiniteSet({h[d] : d \in ds \ {RootPath}})
    <2>1. h = [d \in ds \ {RootPath} |-> h[d]]
      OBVIOUS
    <2>2. IsFiniteSet(ds \ {RootPath})
      BY FS_Subset
    <2> HIDE DEF h
    <2> QED BY <2>1, <2>2, ImageFinite
  <1>3. Entries(ds, fs) = {g[f] : f \in DOMAIN fs} \cup {h[d] : d \in ds \ {RootPath}}
    BY EntryForms
  <1> HIDE DEF g, h
  <1> QED BY <1>1, <1>2, <1>3, FS_Union

(* In the iterator's order a directory comes before those in it. *)
LEMMA RankProperties ==
  ASSUME NEW d \in Path
  PROVE  /\ Rank(d) \in Seq(Nat) /\ Len(Rank(d)) = Len(d) - 1
         /\ \A n \in Names : IsStrictPrefix(Rank(d), Rank(Append(d, n)))
  <1> DEFINE At(n) == CHOOSE k \in DOMAIN NameOrder : NameOrder[k] = n
  <1>1. ASSUME NEW n \in Names PROVE At(n) \in Nat
    <2>1. \E k \in DOMAIN NameOrder : NameOrder[k] = n
      BY DEF Names, ToSet
    <2>2. DOMAIN NameOrder \subseteq Nat
      BY NamesAssumption, LenProperties
    <2> QED BY <2>1, <2>2
  <1> HIDE DEF At
  <1>2. ASSUME NEW e \in Path
        PROVE  /\ Rank(e) \in Seq(Nat) /\ Len(Rank(e)) = Len(e) - 1 /\ Len(e) - 1 \in Nat
               /\ \A i \in 1..(Len(e) - 1) : Rank(e)[i] = At(e[i + 1])
    <2>1. Len(e) \in Nat \ {0} /\ \A i \in 2..Len(e) : e[i] \in Names
      BY PathProperties DEF Path
    <2> DEFINE m == Len(e) - 1
    <2>2. m \in Nat /\ \A i \in 1..m : e[i + 1] \in Names
      BY <2>1
    <2>3. Rank(e) = [i \in 1..m |-> At(e[i + 1])]
      BY DEF Rank, At
    <2> HIDE DEF m
    <2>4. \A i \in 1..m : At(e[i + 1]) \in Nat
      BY <1>1, <2>2
    <2>5. Rank(e) \in Seq(Nat) /\ Len(Rank(e)) = m
      BY <2>2, <2>3, <2>4, IsASeq, LenProperties
    <2> QED BY <2>2, <2>3, <2>5 DEF m
  <1>3. ASSUME NEW n \in Names PROVE IsStrictPrefix(Rank(d), Rank(Append(d, n)))
    <2>1. /\ Append(d, n) \in Path /\ Len(Append(d, n)) = Len(d) + 1
          /\ \A i \in 1..Len(d) : Append(d, n)[i] = d[i]
      BY LongerPath, PathProperties, AppendProperties DEF AnyName
    <2>2. Len(d) \in Nat \ {0}
      BY PathProperties
    <2>3. /\ Len(Rank(d)) = Len(d) - 1 /\ Len(Rank(Append(d, n))) = Len(d)
          /\ \A i \in 1..(Len(d) - 1) : Rank(d)[i] = At(d[i + 1])
          /\ \A i \in 1..Len(d) : Rank(Append(d, n))[i] = At(Append(d, n)[i + 1])
      <3>1. /\ Len(Rank(Append(d, n))) = Len(Append(d, n)) - 1
            /\ \A i \in 1..(Len(Append(d, n)) - 1) : Rank(Append(d, n))[i] = At(Append(d, n)[i + 1])
        BY <1>2, <2>1
      <3>2. Len(Append(d, n)) - 1 = Len(d)
        BY <2>1, <2>2
      <3> QED BY <1>2, <3>1, <3>2
    <2>4. \A i \in 1..Len(Rank(d)) : Rank(d)[i] = Rank(Append(d, n))[i]
      BY <2>1, <2>2, <2>3
    <2>5. Len(Rank(d)) < Len(Rank(Append(d, n)))
      BY <2>2, <2>3
    <2> QED BY <1>2, <2>1, <2>4, <2>5, PrefixPointwise
  <1> QED BY <1>2, <1>3

(* A sequence is its front and its last element. *)
LEMMA FrontLast ==
  ASSUME NEW S, NEW p \in Seq(S), p # <<>>
  PROVE  p = Append(Front(p), Last(p))
  <1>1. /\ Front(p) \in Seq(S) /\ Len(p) \in Nat \ {0}
        /\ Len(Front(p)) = Len(p) - 1
        /\ \A i \in 1..(Len(p) - 1) : Front(p)[i] = p[i]
        /\ Last(p) = p[Len(p)] /\ Last(p) \in S
    BY FrontProperties
  <1>2. /\ Append(Front(p), Last(p)) \in Seq(S)
        /\ Len(Append(Front(p), Last(p))) = Len(Front(p)) + 1
        /\ \A i \in 1..Len(Front(p)) : Append(Front(p), Last(p))[i] = Front(p)[i]
        /\ Append(Front(p), Last(p))[Len(Front(p)) + 1] = Last(p)
    BY <1>1, AppendProperties
  <1> DEFINE a == Append(Front(p), Last(p))
  <1>3. Len(a) = Len(p) /\ \A i \in 1..Len(a) : a[i] = p[i]
    <2> HIDE DEF a
    <2> QED BY <1>1, <1>2 DEF a
  <1> QED BY <1>2, <1>3, SeqEqual

(* The iterator yields a directory before what is in it. *)
LEMMA ParentsFirst ==
  ASSUME NEW ds, NEW fs, DirsTyped(ds), FilesTyped(ds, fs), NEW filesFirst,
         NEW e \in Entries(ds, fs)
  PROVE  /\ Key(e, filesFirst) \in Positions
         /\ e.dir \in ds
         /\ e.dir # RootPath => Before(Key(DirEntry(e.dir), filesFirst), Key(e, filesFirst))
         /\ IsFile(e) => e = FileEntry(e.file) /\ e.file \in DOMAIN fs /\ e.file \in Path \X Ids
         /\ ~IsFile(e) => /\ e = DirEntry(e.sub) /\ e.sub \in ds \ {RootPath}
                          /\ e.sub \in Path /\ Last(e.sub) \in Names
  <1>1. CASE \E f \in DOMAIN fs : e = FileEntry(f)
    <2>1. PICK f \in DOMAIN fs : e = FileEntry(f)
      BY <1>1
    <2>2. f[1] \in ds /\ f \in Path \X Ids /\ f[1] \in Path
      BY DEF FilesTyped, DirsTyped
    <2>3. e.dir = f[1] /\ e.file = f /\ IsFile(e)
      BY <2>1, EntryForms
    <2>4. PICK x \in Nat : Key(e, filesFirst) = Append(Rank(f[1]), x)
      <3>1. Len(NameOrder) \in Nat
        BY NamesAssumption, LenProperties
      <3> QED BY <2>3, <3>1 DEF Key
    <2>5. Rank(f[1]) \in Seq(Nat)
      BY <2>2, RankProperties
    <2>6. /\ Append(Rank(f[1]), x) \in Seq(Nat)
          /\ IsStrictPrefix(Rank(f[1]), Append(Rank(f[1]), x))
      <3>1. /\ Append(Rank(f[1]), x) \in Seq(Nat)
            /\ Len(Append(Rank(f[1]), x)) = Len(Rank(f[1])) + 1
            /\ \A i \in 1..Len(Rank(f[1])) : Append(Rank(f[1]), x)[i] = Rank(f[1])[i]
            /\ Len(Rank(f[1])) \in Nat
        BY <2>5, AppendProperties, LenProperties
      <3> DEFINE r == Rank(f[1])
                 a == Append(r, x)
      <3>2. r \in Seq(Nat) /\ a \in Seq(Nat) /\ Len(r) < Len(a) /\ \A i \in 1..Len(r) : r[i] = a[i]
        BY <2>5, <3>1
      <3> HIDE DEF r, a
      <3>3. IsStrictPrefix(r, a)
        BY <3>2, PrefixPointwise
      <3> QED BY <3>1, <3>3 DEF r, a
    <2>7. Key(DirEntry(f[1]), filesFirst) = Rank(f[1])
      BY EntryForms DEF Key
    <2> QED BY <2>1, <2>2, <2>3, <2>4, <2>6, <2>7 DEF Before, Positions
  <1>2. CASE \E d \in ds \ {RootPath} : e = DirEntry(d)
    <2>1. PICK d \in ds \ {RootPath} : e = DirEntry(d)
      BY <1>2
    <2>2. e.dir = Front(d) /\ e.sub = d /\ ~IsFile(e) /\ d \in Path
      BY <2>1, EntryForms DEF DirsTyped
    <2>3. /\ Front(d) \in ds /\ Front(d) \in Path /\ Last(d) \in Names
          /\ d \in Seq(AnyName) /\ d # <<>>
      BY <2>1, <2>2, PathProperties DEF DirsTyped
    <2>4. d = Append(Front(d), Last(d))
      BY <2>3, FrontLast
    <2>5. Key(e, filesFirst) = Rank(d) /\ Key(DirEntry(Front(d)), filesFirst) = Rank(Front(d))
      BY <2>2, EntryForms DEF Key
    <2>6. Rank(d) \in Seq(Nat) /\ IsStrictPrefix(Rank(Front(d)), Rank(d))
      BY <2>2, <2>3, <2>4, RankProperties
    <2> QED BY <2>1, <2>2, <2>3, <2>5, <2>6 DEF Before, Positions
  <1> QED BY <1>1, <1>2, EntryForms

(* The next entry is one of those left, and no other comes before it. *)
LEMMA NextEntryIsFirst ==
  ASSUME NEW ds, NEW fs, DirsTyped(ds), FilesTyped(ds, fs), NEW filesFirst,
         NEW left \in SUBSET Entries(ds, fs), left # {}
  PROVE  /\ NextEntry(left, filesFirst) \in left
         /\ \A f \in left : ~Before(Key(f, filesFirst), Key(NextEntry(left, filesFirst), filesFirst))
  <1> DEFINE K(e) == Key(e, filesFirst)
             R == {x \in left \X left : Before(K(x[1]), K(x[2]))}
  <1>1. \A e \in left : K(e) \in Positions
    BY ParentsFirst
  <1> HIDE DEF K
  <1>2. \A x \in left : <<x, x>> \notin R
    BY <1>1, BeforeIrreflexive
  <1>3. \A x, y, z \in left : <<x, y>> \in R /\ <<y, z>> \in R => <<x, z>> \in R
    BY <1>1, BeforeTransitive
  <1>4. IsFiniteSet(left)
    BY EntriesFinite, FS_Subset DEF DirsTyped, FilesTyped
  <1>5. PICK m \in left : \A x \in left : <<x, m>> \notin R
    <2> HIDE DEF R
    <2> QED BY <1>2, <1>3, <1>4, FiniteMinimum
  <1>6. \E e \in left : \A f \in left : ~Before(K(f), K(e))
    BY <1>5
  <1> QED BY <1>6 DEF NextEntry, K

-----------------------------------------------------------------------------
(* init() *)

(* The subgroups of a group are numbered in a row, and nothing is below a *)
(* position that is not there.  *)
Rows(t) ==
  \A p \in DOMAIN t \ {<<>>} :
    Front(p) \in DOMAIN t /\ Last(p) \in 1..Cardinality(Subgroups(t, Front(p)))

CtxAt(t, p, i) == p \in DOMAIN t /\ i \in 1..Len(t[p].ctx)

(* What init() makes of the entries but those of left. *)
GroupsLoaded(ds, pick, left, t) ==
  /\ \A p \in DOMAIN t \ {<<>>} :
       /\ t[p].path \in ds \ {RootPath} /\ DirEntry(t[p].path) \notin left
       /\ t[p].name = Last(t[p].path)
       /\ t[p].id = IdOf(Last(t[p].path), pick)
       /\ t[Front(p)].name = Last(Front(t[p].path))
  /\ t[<<>>].name = RootName /\ t[<<>>].id = NoId /\ t[<<>>].path = RootPath
  /\ \A p, q \in DOMAIN t : t[p].path = t[q].path => p = q
  /\ \A d \in ds \ {RootPath} :
       DirEntry(d) \in left \/ \E p \in DOMAIN t : t[p].path = d

FilesLoaded(fs, left, t) ==
  /\ \A p, i : CtxAt(t, p, i) =>
       LET c == t[p].ctx[i]
       IN /\ c.file \in DOMAIN fs /\ c = OpenCtx(fs, c.file)
          /\ FileEntry(c.file) \notin left
          /\ t[p].name = Last(c.file[1])
  /\ \A p, q, i, j :
       CtxAt(t, p, i) /\ CtxAt(t, q, j) /\ t[p].ctx[i].file = t[q].ctx[j].file
         => p = q /\ i = j
  /\ \A f \in DOMAIN fs :
       FileEntry(f) \in left \/ \E p, i : CtxAt(t, p, i) /\ t[p].ctx[i].file = f

LoadInv(ds, fs, pick, s) ==
  /\ s.left \subseteq Entries(ds, fs)
  /\ TreeTyped(s.tree) /\ Rows(s.tree)
  /\ GroupsLoaded(ds, pick, s.left, s.tree)
  /\ FilesLoaded(fs, s.left, s.tree)

(* A new subgroup is the last of its parent's row. *)
LEMMA RowsGrow ==
  ASSUME NEW t, TreeTyped(t), Rows(t), NEW p \in DOMAIN t, NEW grp
  PROVE  LET q == Append(p, Cardinality(Subgroups(t, p)) + 1)
             u == WithSubgroup(t, p, grp)
         IN /\ q \notin DOMAIN t /\ q # <<>> /\ Front(q) = p
            /\ DOMAIN u = DOMAIN t \cup {q}
            /\ u[q] = grp /\ \A r \in DOMAIN t : u[r] = t[r]
            /\ Rows(u)
  <1> DEFINE n == Cardinality(Subgroups(t, p))
             q == Append(p, n + 1)
             u == WithSubgroup(t, p, grp)
  <1>1. p \in Seq(Nat) /\ n \in Nat
    BY SubgroupsCounted DEF TreeTyped, Positions
  <1>2. q \in Seq(Nat) /\ q # <<>> /\ Front(q) = p /\ Last(q) = n + 1
    <2> HIDE DEF n
    <2> QED BY <1>1, AppendProperties, FrontOfAppend
  <1> HIDE DEF q
  <1>3. q \notin DOMAIN t
    <2> SUFFICES ASSUME q \in DOMAIN t PROVE FALSE
      OBVIOUS
    <2>1. Last(q) \in 1..n
      BY <1>2 DEF Rows
    <2> HIDE DEF n
    <2> QED BY <1>1, <1>2, <2>1
  <1>4. u = With(t, q, grp)
    BY DEF WithSubgroup, q
  <1> HIDE DEF u
  <1>5. DOMAIN u = DOMAIN t \cup {q} /\ u[q] = grp /\ \A r \in DOMAIN t : u[r] = t[r]
    BY <1>3, <1>4 DEF With
  <1>6. IsFiniteSet(Subgroups(t, p)) /\ q \notin Subgroups(t, p)
    <2>1. Subgroups(t, p) \subseteq DOMAIN t
      BY DEF Subgroups
    <2> QED BY <1>3, <2>1, FS_Subset DEF TreeTyped
  <1>7. Cardinality(Subgroups(u, p)) = n + 1
    <2>1. Subgroups(u, p) = Subgroups(t, p) \cup {q}
      BY <1>2, <1>5 DEF Subgroups
    <2> QED BY <1>6, <2>1, FS_AddElement
  <1>8. \A r : r # p => Subgroups(u, r) = Subgroups(t, r)
    BY <1>2, <1>5 DEF Subgroups
  <1>9. ASSUME NEW r \in DOMAIN u \ {<<>>}
        PROVE  Front(r) \in DOMAIN u /\ Last(r) \in 1..Cardinality(Subgroups(u, Front(r)))
    <2>1. CASE r = q
      <3> HIDE DEF n
      <3> QED BY <1>1, <1>2, <1>5, <1>7, <2>1
    <2>2. CASE r \in DOMAIN t
      <3>1. Front(r) \in DOMAIN t /\ Last(r) \in 1..Cardinality(Subgroups(t, Front(r)))
        BY <1>9, <2>2 DEF Rows
      <3>2. CASE Front(r) = p
        <4>1. Last(r) \in 1..n
          BY <3>1, <3>2
        <4> HIDE DEF n
        <4> QED BY <1>1, <1>5, <1>7, <3>1, <3>2, <4>1
      <3>3. CASE Front(r) # p
        BY <1>5, <1>8, <3>1, <3>3
      <3> QED BY <3>2, <3>3
    <2> QED BY <1>5, <1>9, <2>1, <2>2
  <1> QED BY <1>2, <1>3, <1>5, <1>9 DEF Rows, q, u, n

(* When initQuestionBank() places an entry, a group with the name of its   *)
(* parent directory is already there.                                      *)
LEMMA ParentIsFound ==
  ASSUME NEW ds, NEW fs, DirsTyped(ds), FilesTyped(ds, fs), NEW pick, NEW filesFirst,
         NEW s, LoadInv(ds, fs, pick, s), s.left # {}
  PROVE  LET e == NextEntry(s.left, filesFirst)
             p == CHOOSE q \in Holders(s.tree, e) : TRUE
         IN e \in s.left /\ p \in DOMAIN s.tree /\ s.tree[p].name = Last(e.dir)
  <1> DEFINE e == NextEntry(s.left, filesFirst)
             t == s.tree
             S == {p \in DOMAIN t : t[p].name = Last(e.dir)}
  <1>0. s.left \in SUBSET Entries(ds, fs)
    BY DEF LoadInv
  <1>1. e \in s.left /\ \A f \in s.left : ~Before(Key(f, filesFirst), Key(e, filesFirst))
    BY <1>0, NextEntryIsFirst
  <1> HIDE DEF e
  <1>2. e \in Entries(ds, fs)
    BY <1>1 DEF LoadInv
  <1>3. /\ e.dir \in ds
        /\ e.dir # RootPath => Before(Key(DirEntry(e.dir), filesFirst), Key(e, filesFirst))
    BY <1>2, ParentsFirst
  <1>4. S # {}
    <2>1. CASE e.dir = RootPath
      <3>1. Last(RootPath) = RootName /\ <<>> \in DOMAIN t /\ t[<<>>].name = RootName
        BY DEF Last, RootPath, LoadInv, TreeTyped, GroupsLoaded
      <3> QED BY <2>1, <3>1
    <2>2. CASE e.dir # RootPath
      <3>1. DirEntry(e.dir) \notin s.left
        BY <1>1, <1>3, <2>2
      <3>2. PICK p \in DOMAIN t : t[p].path = e.dir
        BY <1>3, <2>2, <3>1 DEF LoadInv, GroupsLoaded
      <3>3. p # <<>> /\ t[p].name = Last(e.dir)
        BY <2>2, <3>2 DEF LoadInv, GroupsLoaded
      <3> QED BY <3>2, <3>3
    <2> QED BY <2>1, <2>2
  <1>5. S \in SUBSET Positions /\ IsFiniteSet(S)
    BY FS_Subset DEF LoadInv, TreeTyped
  <1>6. Holders(t, e) = Firsts(S)
    BY DEF Holders
  <1>7. Firsts(S) # {} /\ Firsts(S) \subseteq S
    <2> HIDE DEF S
    <2> QED BY <1>4, <1>5, FirstsExist
  <1> QED BY <1>1, <1>6, <1>7 DEF e

(* What is loaded when initQuestionBank() has placed a question file. *)
LEMMA PlaceFile ==
  ASSUME NEW ds, NEW fs, DirsTyped(ds), FilesTyped(ds, fs), NEW pick,
         NEW t, NEW left, LoadInv(ds, fs, pick, [tree |-> t, left |-> left]),
         NEW f \in DOMAIN fs, FileEntry(f) \in left,
         NEW p \in DOMAIN t, t[p].name = Last(f[1])
  PROVE  LoadInv(ds, fs, pick,
           [tree |-> [t EXCEPT ![p].ctx = Append(@, OpenCtx(fs, f))],
            left |-> left \ {FileEntry(f)}])
  <1> DEFINE c == OpenCtx(fs, f)
             old == t[p].ctx
             u == [t EXCEPT ![p].ctx = Append(old, c)]
             rest == left \ {FileEntry(f)}
  <1>1. /\ left \subseteq Entries(ds, fs) /\ TreeTyped(t) /\ Rows(t)
        /\ GroupsLoaded(ds, pick, left, t) /\ FilesLoaded(fs, left, t)
    BY DEF LoadInv
  <1>2. c \in Ctx /\ c.file = f
    <2>1. f \in Path \X Ids /\ fs[f].items \in Items
      BY DEF FilesTyped, DirsTyped
    <2> QED BY <2>1 DEF OpenCtx, Content, Ctx
  <1>3. t[p] \in Node /\ old \in Seq(Ctx)
    BY <1>1 DEF TreeTyped, Node
  <1> HIDE DEF c
  <1>4. /\ Append(old, c) \in Seq(Ctx) /\ Len(Append(old, c)) = Len(old) + 1
        /\ \A i \in 1..Len(old) : Append(old, c)[i] = old[i]
        /\ Append(old, c)[Len(old) + 1] = c
        /\ Len(old) \in Nat
    BY <1>2, <1>3, AppendProperties, LenProperties
  <1>5. TreeTyped(u)
    BY <1>1, <1>4, ExceptTyped
  <1>6. /\ DOMAIN u = DOMAIN t
        /\ \A q \in DOMAIN t : /\ u[q].path = t[q].path /\ u[q].name = t[q].name
                               /\ u[q].id = t[q].id
                               /\ q # p => u[q].ctx = t[q].ctx
        /\ u[p].ctx = Append(old, c)
    <2> HIDE DEF old
    <2>1. u = [t EXCEPT ![p] = [t[p] EXCEPT !.ctx = Append(old, c)]]
      OBVIOUS
    <2>2. /\ [t[p] EXCEPT !.ctx = Append(old, c)].path = t[p].path
          /\ [t[p] EXCEPT !.ctx = Append(old, c)].name = t[p].name
          /\ [t[p] EXCEPT !.ctx = Append(old, c)].id = t[p].id
          /\ [t[p] EXCEPT !.ctx = Append(old, c)].ctx = Append(old, c)
      BY <1>3 DEF Node
    <2> QED BY <1>1, <2>1, <2>2 DEF TreeTyped
  <1> HIDE DEF u
  <1>7. Rows(u)
    BY <1>1, <1>6 DEF Rows, Subgroups
  <1>8. \A d : DirEntry(d) # FileEntry(f)
    BY EntryForms
  <1>9. \A g : FileEntry(g) = FileEntry(f) => g = f
    BY EntryForms
  <1>10. GroupsLoaded(ds, pick, rest, u)
    <2>1. \A q \in DOMAIN u \ {<<>>} : Front(q) \in DOMAIN u
      BY <1>7 DEF Rows
    <2>2. <<>> \in DOMAIN t
      BY <1>1 DEF TreeTyped
    <2> QED BY <1>1, <1>6, <1>8, <2>1, <2>2 DEF GroupsLoaded
  <1>11. \A q, i : CtxAt(u, q, i) <=> CtxAt(t, q, i) \/ (q = p /\ i = Len(old) + 1)
    BY <1>4, <1>6 DEF CtxAt
  <1>12. \A q, i : CtxAt(t, q, i) => u[q].ctx[i] = t[q].ctx[i]
    BY <1>4, <1>6 DEF CtxAt
  <1>13. u[p].ctx[Len(old) + 1] = c /\ ~CtxAt(t, p, Len(old) + 1)
    BY <1>4, <1>6 DEF CtxAt
  <1>14. \A q, i : CtxAt(t, q, i) => t[q].ctx[i].file # f
    BY <1>1 DEF FilesLoaded
  <1>15. FilesLoaded(fs, rest, u)
    <2>1. ASSUME NEW q, NEW i, CtxAt(u, q, i)
          PROVE  LET x == u[q].ctx[i]
                 IN /\ x.file \in DOMAIN fs /\ x = OpenCtx(fs, x.file)
                    /\ FileEntry(x.file) \notin rest
                    /\ u[q].name = Last(x.file[1])
      <3>1. CASE CtxAt(t, q, i)
        <4>1. u[q].ctx[i] = t[q].ctx[i]
          BY <1>12, <3>1
        <4>2. q \in DOMAIN t /\ u[q].name = t[q].name
          BY <1>6, <3>1 DEF CtxAt
        <4>3. LET x == t[q].ctx[i]
              IN /\ x.file \in DOMAIN fs /\ x = OpenCtx(fs, x.file)
                 /\ FileEntry(x.file) \notin rest
                 /\ t[q].name = Last(x.file[1])
          BY <1>1, <3>1 DEF FilesLoaded
        <4> QED BY <4>1, <4>2, <4>3
      <3>2. CASE q = p /\ i = Len(old) + 1
        BY <1>2, <1>6, <1>13, <3>2 DEF c
      <3> QED BY <1>11, <2>1, <3>1, <3>2
    <2>2. ASSUME NEW q, NEW r, NEW i, NEW j, CtxAt(u, q, i), CtxAt(u, r, j),
                 u[q].ctx[i].file = u[r].ctx[j].file
          PROVE  q = r /\ i = j
      <3>1. CASE CtxAt(t, q, i) /\ CtxAt(t, r, j)
        <4>1. t[q].ctx[i].file = t[r].ctx[j].file
          BY <1>12, <2>2, <3>1
        <4> QED BY <1>1, <3>1, <4>1 DEF FilesLoaded
      <3>2. CASE CtxAt(t, q, i) /\ r = p /\ j = Len(old) + 1
        BY <1>2, <1>12, <1>13, <1>14, <2>2, <3>2
      <3>3. CASE CtxAt(t, r, j) /\ q = p /\ i = Len(old) + 1
        BY <1>2, <1>12, <1>13, <1>14, <2>2, <3>3
      <3> QED BY <1>11, <2>2, <3>1, <3>2, <3>3
    <2>3. ASSUME NEW g \in DOMAIN fs
          PROVE  FileEntry(g) \in rest \/ \E q, i : CtxAt(u, q, i) /\ u[q].ctx[i].file = g
      <3>1. CASE g = f
        <4>1. CtxAt(u, p, Len(old) + 1) /\ u[p].ctx[Len(old) + 1].file = g
          BY <1>2, <1>11, <1>13, <3>1
        <4> QED BY <4>1
      <3>2. CASE g # f /\ FileEntry(g) \in left
        BY <1>9, <3>2
      <3>3. CASE \E q, i : CtxAt(t, q, i) /\ t[q].ctx[i].file = g
        BY <1>11, <1>12, <3>3
      <3> QED BY <1>1, <3>1, <3>2, <3>3 DEF FilesLoaded
    <2> QED BY <2>1, <2>2, <2>3 DEF FilesLoaded
  <1> HIDE DEF rest
  <1>16. LoadInv(ds, fs, pick, [tree |-> u, left |-> rest])
    BY <1>1, <1>5, <1>7, <1>10, <1>15 DEF LoadInv, rest
  <1> QED BY <1>16 DEF u, rest, c, old

(* What is loaded when initQuestionBank() has placed a directory. *)
LEMMA PlaceDir ==
  ASSUME NEW ds, NEW fs, DirsTyped(ds), FilesTyped(ds, fs),
         NEW N, NEW pick \in [N -> Ids],
         NEW t, NEW left, LoadInv(ds, fs, pick, [tree |-> t, left |-> left]),
         NEW d \in ds \ {RootPath}, DirEntry(d) \in left,
         NEW p \in DOMAIN t, t[p].name = Last(Front(d))
  PROVE  LoadInv(ds, fs, pick,
           [tree |-> WithSubgroup(t, p, Group(Last(d), IdOf(Last(d), pick), d)),
            left |-> left \ {DirEntry(d)}])
  <1> DEFINE grp == Group(Last(d), IdOf(Last(d), pick), d)
             q == Append(p, Cardinality(Subgroups(t, p)) + 1)
             u == WithSubgroup(t, p, grp)
             rest == left \ {DirEntry(d)}
  <1>1. /\ left \subseteq Entries(ds, fs) /\ TreeTyped(t) /\ Rows(t)
        /\ GroupsLoaded(ds, pick, left, t) /\ FilesLoaded(fs, left, t)
    BY DEF LoadInv
  <1>2. d \in Path /\ Last(d) \in AnyName
    BY PathProperties DEF DirsTyped
  <1>3. IdOf(Last(d), pick) \in Ids \cup {NoId}
    BY DEF IdOf
  <1>4. /\ grp \in Node /\ grp.path = d /\ grp.name = Last(d)
        /\ grp.id = IdOf(Last(d), pick) /\ grp.ctx = <<>>
    BY <1>2, <1>3, NodeTyped DEF Group
  <1> HIDE DEF grp
  <1>5. /\ q \notin DOMAIN t /\ q # <<>> /\ Front(q) = p
        /\ DOMAIN u = DOMAIN t \cup {q}
        /\ u[q] = grp /\ \A r \in DOMAIN t : u[r] = t[r]
        /\ Rows(u)
    BY <1>1, RowsGrow
  <1>6. TreeTyped(u)
    BY <1>1, <1>4, WithSubgroupTyped
  <1> HIDE DEF q, u
  <1>7. \A e : DirEntry(e) = DirEntry(d) => e = d
    BY EntryForms
  <1>8. \A f : FileEntry(f) # DirEntry(d)
    BY EntryForms
  <1>9. \A r \in DOMAIN t : t[r].path # d
    BY <1>1 DEF GroupsLoaded
  <1>10. GroupsLoaded(ds, pick, rest, u)
    <2>1. ASSUME NEW r \in DOMAIN u \ {<<>>}
          PROVE  /\ u[r].path \in ds \ {RootPath} /\ DirEntry(u[r].path) \notin rest
                 /\ u[r].name = Last(u[r].path)
                 /\ u[r].id = IdOf(Last(u[r].path), pick)
                 /\ u[Front(r)].name = Last(Front(u[r].path))
      <3>1. CASE r = q
        BY <1>4, <1>5, <3>1
      <3>2. CASE r \in DOMAIN t
        <4>1. Front(r) \in DOMAIN t
          BY <1>1, <2>1, <3>2 DEF Rows
        <4> QED BY <1>1, <1>5, <2>1, <3>2, <4>1 DEF GroupsLoaded
      <3> QED BY <1>5, <2>1, <3>1, <3>2
    <2>2. u[<<>>].name = RootName /\ u[<<>>].id = NoId /\ u[<<>>].path = RootPath
      BY <1>1, <1>5 DEF GroupsLoaded, TreeTyped
    <2>3. ASSUME NEW r \in DOMAIN u, NEW s \in DOMAIN u, u[r].path = u[s].path PROVE r = s
      BY <1>1, <1>4, <1>5, <1>9, <2>3 DEF GroupsLoaded
    <2>4. ASSUME NEW e \in ds \ {RootPath}
          PROVE  DirEntry(e) \in rest \/ \E r \in DOMAIN u : u[r].path = e
      <3>1. CASE e = d
        BY <1>4, <1>5, <3>1
      <3>2. CASE e # d
        BY <1>1, <1>5, <1>7, <3>2 DEF GroupsLoaded
      <3> QED BY <3>1, <3>2
    <2> QED BY <2>1, <2>2, <2>3, <2>4 DEF GroupsLoaded
  <1>11. \A r, i : CtxAt(u, r, i) <=> CtxAt(t, r, i)
    <2>1. Len(<<>>) = 0 /\ ~\E i : i \in 1..0
      OBVIOUS
    <2> QED BY <1>4, <1>5, <2>1 DEF CtxAt
  <1>12. \A r, i : CtxAt(t, r, i) => u[r] = t[r]
    BY <1>5 DEF CtxAt
  <1>13. FilesLoaded(fs, rest, u)
    BY <1>1, <1>8, <1>11, <1>12 DEF FilesLoaded
  <1> HIDE DEF rest
  <1>14. LoadInv(ds, fs, pick, [tree |-> u, left |-> rest])
    BY <1>1, <1>5, <1>6, <1>10, <1>13 DEF LoadInv, rest
  <1> QED BY <1>14 DEF u, rest, grp

(* What is loaded when the next entry is placed. *)
LEMMA LoadStep ==
  ASSUME NEW ds, NEW fs, DirsTyped(ds), FilesTyped(ds, fs), NEW filesFirst,
         NEW N, NEW pick \in [N -> Ids],
         NEW s, LoadInv(ds, fs, pick, s), s.left # {}
  PROVE  LET after == PlaceNext(fs, pick, filesFirst, s)
         IN /\ LoadInv(ds, fs, pick, after)
            /\ \E e \in s.left : after.left = s.left \ {e}
  <1> DEFINE e == NextEntry(s.left, filesFirst)
             p == CHOOSE q \in Holders(s.tree, e) : TRUE
             t == s.tree
             left == s.left
  <1>1. e \in left /\ p \in DOMAIN t /\ t[p].name = Last(e.dir)
    BY ParentIsFound, ZenonT(60)
  <1> HIDE DEF e, p
  <1>2. e \in Entries(ds, fs)
    BY <1>1 DEF LoadInv
  <1>3. /\ IsFile(e) => e = FileEntry(e.file) /\ e.file \in DOMAIN fs
        /\ ~IsFile(e) => e = DirEntry(e.sub) /\ e.sub \in ds \ {RootPath}
    BY <1>2, ParentsFirst
  <1>4. LoadInv(ds, fs, pick, [tree |-> t, left |-> left])
    BY DEF LoadInv
  <1>5. PlaceNext(fs, pick, filesFirst, s) = [tree |-> Place(fs, pick, t, e), left |-> left \ {e}]
    BY DEF PlaceNext, e
  <1>6. CASE IsFile(e)
    <2>1. e.dir = e.file[1]
      <3>1. e.dir = FileEntry(e.file).dir
        BY <1>3, <1>6
      <3> QED BY <3>1 DEF FileEntry
    <2>2. Place(fs, pick, t, e) = [t EXCEPT ![p].ctx = Append(@, OpenCtx(fs, e.file))]
      BY <1>6 DEF Place, p
    <2>3. LoadInv(ds, fs, pick, [tree |-> [t EXCEPT ![p].ctx = Append(@, OpenCtx(fs, e.file))],
                                 left |-> left \ {FileEntry(e.file)}])
      BY <1>1, <1>3, <1>4, <1>6, <2>1, PlaceFile
    <2>4. PlaceNext(fs, pick, filesFirst, s)
            = [tree |-> [t EXCEPT ![p].ctx = Append(@, OpenCtx(fs, e.file))],
               left |-> left \ {FileEntry(e.file)}]
      BY <1>3, <1>5, <1>6, <2>2
    <2>5. PlaceNext(fs, pick, filesFirst, s).left = left \ {e}
      BY <1>5
    <2>6. LoadInv(ds, fs, pick, PlaceNext(fs, pick, filesFirst, s))
      BY <2>3, <2>4, Zenon
    <2>7. \E x \in left : PlaceNext(fs, pick, filesFirst, s).left = left \ {x}
      BY <1>1, <2>5, Zenon
    <2> QED BY <2>6, <2>7, Zenon
  <1>7. CASE ~IsFile(e)
    <2>1. e.dir = Front(e.sub)
      <3>1. e.dir = DirEntry(e.sub).dir
        BY <1>3, <1>7
      <3> QED BY <3>1 DEF DirEntry
    <2>2. Place(fs, pick, t, e)
            = WithSubgroup(t, p, Group(Last(e.sub), IdOf(Last(e.sub), pick), e.sub))
      BY <1>7 DEF Place, p
    <2>3. LoadInv(ds, fs, pick,
            [tree |-> WithSubgroup(t, p, Group(Last(e.sub), IdOf(Last(e.sub), pick), e.sub)),
             left |-> left \ {DirEntry(e.sub)}])
      BY <1>1, <1>3, <1>4, <1>7, <2>1, PlaceDir
    <2>4. PlaceNext(fs, pick, filesFirst, s)
            = [tree |-> WithSubgroup(t, p, Group(Last(e.sub), IdOf(Last(e.sub), pick), e.sub)),
               left |-> left \ {DirEntry(e.sub)}]
      BY <1>3, <1>5, <1>7, <2>2
    <2>5. PlaceNext(fs, pick, filesFirst, s).left = left \ {e}
      BY <1>5
    <2>6. LoadInv(ds, fs, pick, PlaceNext(fs, pick, filesFirst, s))
      BY <2>3, <2>4, Zenon
    <2>7. \E x \in left : PlaceNext(fs, pick, filesFirst, s).left = left \ {x}
      BY <1>1, <2>5, Zenon
    <2> QED BY <2>6, <2>7, Zenon
  <1> QED BY <1>6, <1>7

(* What is loaded before the first entry. *)
LEMMA LoadStart ==
  ASSUME NEW ds, NEW fs, DirsTyped(ds), FilesTyped(ds, fs), NEW pick
  PROVE  LoadInv(ds, fs, pick, [tree |-> NoTree, left |-> Entries(ds, fs)])
  <1>1. /\ DOMAIN NoTree = {<<>>} /\ NoTree[<<>>] = Group(RootName, NoId, RootPath)
    BY DEF NoTree
  <1>2. Rows(NoTree)
    BY <1>1 DEF Rows
  <1>3. \A p, i : ~CtxAt(NoTree, p, i)
    <2>1. Len(<<>>) = 0 /\ ~\E i : i \in 1..0
      OBVIOUS
    <2> QED BY <1>1, <2>1 DEF CtxAt, Group
  <1>4. FilesLoaded(fs, Entries(ds, fs), NoTree)
    BY <1>3, EntryForms DEF FilesLoaded
  <1>5. GroupsLoaded(ds, pick, Entries(ds, fs), NoTree)
    BY <1>1, EntryForms DEF GroupsLoaded, Group
  <1> QED BY <1>2, <1>4, <1>5, NoTreeTyped DEF LoadInv

(* The recursion in Load, step by step. *)
LEMMA LoadLoop ==
  ASSUME NEW ds, NEW fs, NEW pick, NEW filesFirst
  PROVE  LET n == Cardinality(Entries(ds, fs))
         IN n \in Nat =>
              \E f : /\ f[0] = [tree |-> NoTree, left |-> Entries(ds, fs)]
                     /\ \A k \in 1..n : f[k] = PlaceNext(fs, pick, filesFirst, f[k - 1])
                     /\ Load(ds, fs, pick, filesFirst) = f[n].tree
  <1> DEFINE base == [tree |-> NoTree, left |-> Entries(ds, fs)]
             Next1(x) == PlaceNext(fs, pick, filesFirst, x)
             Loop(m, f) == [k \in 0..m |-> IF k = 0 THEN base ELSE Next1(f[k - 1])]
             S == {m \in Nat : \E f : f = Loop(m, f)}
             n == Cardinality(Entries(ds, fs))
  <1> HIDE DEF base, Next1
  <1>1. 0 \in S
    <2> DEFINE f == [k \in 0..0 |-> base]
    <2>1. f = Loop(0, f)
      OBVIOUS
    <2> QED BY <2>1
  <1>2. ASSUME NEW m \in Nat, m \in S PROVE m + 1 \in S
    <2>1. PICK f : f = Loop(m, f)
      BY <1>2
    <2> DEFINE g == [k \in 0..(m + 1) |-> IF k <= m THEN f[k] ELSE Next1(f[m])]
    <2>2. ASSUME NEW k \in 0..(m + 1)
          PROVE  g[k] = IF k = 0 THEN base ELSE Next1(g[k - 1])
      <3>1. CASE k = 0
        <4>1. 0 \in 0..m
          OBVIOUS
        <4>2. f[0] = base
          BY <2>1, <4>1
        <4> QED BY <3>1, <4>2
      <3>2. CASE k # 0 /\ k <= m
        <4>1. k \in 0..m /\ k - 1 \in 0..(m + 1) /\ k - 1 <= m
          BY <3>2
        <4>2. f[k] = Next1(f[k - 1])
          BY <2>1, <3>2, <4>1
        <4> QED BY <3>2, <4>1, <4>2
      <3>3. CASE k = m + 1
        <4>1. m \in 0..(m + 1) /\ g[m] = f[m] /\ k - 1 = m /\ k # 0 /\ ~(k <= m)
          BY <3>3
        <4> QED BY <4>1
      <3> QED BY <3>1, <3>2, <3>3
    <2>3. g = [k \in 0..(m + 1) |-> g[k]]
      OBVIOUS
    <2> HIDE DEF g
    <2>4. g = Loop(m + 1, g)
      BY <2>2, <2>3
    <2> QED BY <2>4
  <1>3. Nat \subseteq S
    <2> HIDE DEF S
    <2> QED BY <1>1, <1>2, NatSets
  <1> SUFFICES ASSUME n \in Nat
               PROVE  \E f : /\ f[0] = base
                             /\ \A k \in 1..n : f[k] = Next1(f[k - 1])
                             /\ Load(ds, fs, pick, filesFirst) = f[n].tree
    BY DEF base, Next1
  <1>4. \E f : f = Loop(n, f)
    BY <1>3
  <1> DEFINE after == CHOOSE f : f = Loop(n, f)
  <1>5. after = Loop(n, after)
    BY <1>4
  <1>6. Load(ds, fs, pick, filesFirst) = after[n].tree
    BY DEF Load, base, Next1
  <1> HIDE DEF after, n
  <1>7. after[0] = base
    <2>1. 0 \in 0..n
      OBVIOUS
    <2> QED BY <1>5, <2>1
  <1>8. ASSUME NEW k \in 1..n PROVE after[k] = Next1(after[k - 1])
    <2>1. k \in 0..n /\ k # 0
      BY <1>8
    <2> QED BY <1>5, <2>1
  <1> QED BY <1>6, <1>7, <1>8

Loaded(ds, fs, pick, t) ==
  /\ TreeTyped(t) /\ Rows(t)
  /\ GroupsLoaded(ds, pick, {}, t)
  /\ FilesLoaded(fs, {}, t)

(* init() makes exactly one group of every directory, with the directory's *)
(* path and name and the id ids.dat gives that name, and opens every       *)
(* question file exactly once, with what it contains, in a group that has  *)
(* the name of its directory. This holds for every disk, also when names   *)
(* repeat: init() may then put a group or a file below the wrong one of    *)
(* several groups of a name, but it loses none.                            *)
THEOREM LoadIsComplete ==
  ASSUME NEW ds, NEW fs, DirsTyped(ds), FilesTyped(ds, fs),
         NEW N, NEW pick \in [N -> Ids], NEW filesFirst
  PROVE  Loaded(ds, fs, pick, Load(ds, fs, pick, filesFirst))
  <1> DEFINE n == Cardinality(Entries(ds, fs))
             base == [tree |-> NoTree, left |-> Entries(ds, fs)]
             Next1(x) == PlaceNext(fs, pick, filesFirst, x)
  <1>1. n \in Nat /\ IsFiniteSet(Entries(ds, fs))
    BY EntriesFinite, FS_CardinalityType DEF DirsTyped, FilesTyped
  <1>2. PICK f : /\ f[0] = base
                 /\ \A k \in 1..n : f[k] = Next1(f[k - 1])
                 /\ Load(ds, fs, pick, filesFirst) = f[n].tree
    BY <1>1, LoadLoop
  <1> DEFINE S == {k \in Nat : k <= n => /\ LoadInv(ds, fs, pick, f[k])
                                       /\ Cardinality(f[k].left) = n - k}
  <1>3. 0 \in S
    <2>1. f[0] = base
      BY <1>2
    <2>2. LoadInv(ds, fs, pick, base)
      BY LoadStart
    <2>3. Cardinality(base.left) = n /\ n - 0 = n
      BY <1>1
    <2> HIDE DEF n, base
    <2> QED BY <2>1, <2>2, <2>3
  <1>4. ASSUME NEW k \in Nat, k \in S PROVE k + 1 \in S
    <2> SUFFICES ASSUME k + 1 <= n
                 PROVE  LoadInv(ds, fs, pick, f[k + 1]) /\ Cardinality(f[k + 1].left) = n - (k + 1)
      OBVIOUS
    <2>1. LoadInv(ds, fs, pick, f[k]) /\ Cardinality(f[k].left) = n - k /\ n - k # 0
      <3> HIDE DEF n
      <3> QED BY <1>1, <1>4
    <2>2. f[k + 1] = Next1(f[k])
      <3> HIDE DEF n, base, Next1
      <3>1. k + 1 \in 1..n /\ k + 1 - 1 = k
        BY <1>1
      <3> QED BY <1>2, <3>1
    <2>3. IsFiniteSet(f[k].left)
      BY <1>1, <2>1, FS_Subset DEF LoadInv
    <2>4. f[k].left # {}
      <3> HIDE DEF n
      <3> QED BY <2>1, FS_EmptySet
    <2>5. LoadInv(ds, fs, pick, Next1(f[k])) /\ \E e \in f[k].left : Next1(f[k]).left = f[k].left \ {e}
      <3> DEFINE s == f[k]
      <3>1. LoadInv(ds, fs, pick, s) /\ s.left # {}
        BY <2>1, <2>4
      <3> HIDE DEF s, n
      <3>2. /\ LoadInv(ds, fs, pick, PlaceNext(fs, pick, filesFirst, s))
            /\ \E e \in s.left : PlaceNext(fs, pick, filesFirst, s).left = s.left \ {e}
        BY <3>1, LoadStep
      <3> QED BY <3>2 DEF s
    <2> HIDE DEF Next1, n
    <2>6. PICK e \in f[k].left : f[k + 1].left = f[k].left \ {e}
      BY <2>2, <2>5
    <2>7. Cardinality(f[k + 1].left) = Cardinality(f[k].left) - 1
      BY <2>3, <2>6, FS_RemoveElement
    <2> QED BY <1>1, <2>1, <2>2, <2>5, <2>7
  <1>5. n \in S
    <2>1. Nat \subseteq S
      <3> HIDE DEF S
      <3> QED BY <1>3, <1>4, NatSets
    <2> QED BY <1>1, <2>1
  <1>6. LoadInv(ds, fs, pick, f[n]) /\ Cardinality(f[n].left) = 0
    <2> HIDE DEF n
    <2> QED BY <1>1, <1>5
  <1>7. f[n].left = {}
    <2>1. IsFiniteSet(f[n].left)
      BY <1>1, <1>6, FS_Subset DEF LoadInv
    <2> HIDE DEF n
    <2> QED BY <1>6, <2>1, FS_EmptySet
  <1> QED BY <1>2, <1>6, <1>7 DEF LoadInv, Loaded

-----------------------------------------------------------------------------
(* Steps. *)

(* A step of the bank, whatever ids it is called with. *)
QuestionCall ==
  \E gid, q :
    \/ q \in Qids /\ \E t \in Texts : AddQuestion(gid, q, t)
    \/ DeleteQuestion(gid, q)
    \/ \E t \in Texts : UpdateQuestion(gid, q, t)
    \/ QueryQuestion(gid, q)

Step ==
  \/ Start
  \/ Quit
  \/ QuitFailed
  \/ GoOn
  \/ Killed
  \/ \E id \in FreshIds, n \in Names : \E pid : AddGroup(pid, n, id)
  \/ \E pid, id, mayFail : DeleteGroup(pid, id, mayFail)
  \/ \E pid, id, mayFail : \E n \in Names : UpdateGroup(pid, id, n, mayFail)
  \/ QuestionCall

(* A step of the bank is one whatever it is called with. *)
LEMMA NextIsStep == Next => Step
  <1> SUFFICES ASSUME Next PROVE Step
    OBVIOUS
  <1>1. CASE \E id \in FreshIds, n \in Names, p \in DOMAIN tree : AddGroup(IdAt(p), n, id)
    BY <1>1 DEF Step
  <1>2. CASE \E p \in DOMAIN tree \ {<<>>}, mayFail \in BOOLEAN :
               DeleteGroup(ParentId(p), IdAt(p), mayFail)
    BY <1>2 DEF Step
  <1>3. CASE \E p \in DOMAIN tree, n \in Names, mayFail \in BOOLEAN :
               UpdateGroup(ParentId(p), IdAt(p), n, mayFail)
    BY <1>3 DEF Step
  <1>4. CASE QuestionCall
    BY <1>4 DEF Step
  <1>5. CASE Start \/ Quit \/ QuitFailed \/ GoOn \/ Killed
    BY <1>5 DEF Step
  <1>6. FreshQids \subseteq Qids
    BY DEF FreshQids
  <1> QED BY <1>1, <1>2, <1>3, <1>4, <1>5, <1>6 DEF Next, QuestionCall

(* A step of the window is a step of the bank: the ids the window's items  *)
(* carry are only arguments.                                               *)
LEMMA WinNextIsStep == WinNext => Step
  <1>1. NewIds \subseteq FreshIds
    BY DEF NewIds
  <1>2. CASE Show \/ Leave \/ Work
    BY <1>2 DEF Show, Leave, Work, Step
  <1>3. CASE ClickGroup
    <2>1. CASE \E p \in DOMAIN items, n \in Names, id \in NewIds :
                 ClickAddGroup(p, n, id)
      BY <1>1, <2>1 DEF ClickAddGroup, Step
    <2>2. CASE \E p \in DOMAIN items \ {<<>>}, mayFail \in BOOLEAN :
                 ClickDeleteGroup(p, mayFail)
      BY <2>2 DEF ClickDeleteGroup, Step
    <2>3. CASE \E p \in DOMAIN items, n \in Names, mayFail \in BOOLEAN :
                 ClickModifyGroup(p, n, mayFail)
      BY <2>3 DEF ClickModifyGroup, Step
    <2> QED BY <1>3, <2>1, <2>2, <2>3 DEF ClickGroup
  <1>4. CASE ClickQuestion
    <2>0. NewQids \subseteq Qids
      BY DEF NewQids, FreshQids
    <2>1. QuestionCall
      BY <1>4, <2>0 DEF ClickQuestion, ClickAddQuestion, ClickDeleteQuestion,
                  ClickModifyQuestion, QuestionCall
    <2> QED BY <2>1 DEF Step
  <1> QED BY <1>2, <1>3, <1>4 DEF WinNext

RegistryProofs == INSTANCE IdRegistryProofs WITH
  run <- IF run = "closing" THEN "off" ELSE run,
  renamed <- budget.renames < MaxRenames

-----------------------------------------------------------------------------
(* The tables of ids. *)

IdTable(f) == DOMAIN f \subseteq Ids /\ f \in [DOMAIN f -> Names]

(* What the registry needs to know of the rest of the bank. *)
IdsInv ==
  /\ run \in {"off", "on", "closing", "failed"}
  /\ IdTable(mapIds) /\ IdTable(lst) /\ IdTable(idsFile.items)
  /\ run # "on" => lst = <<>> /\ mapIds = <<>> /\ call = NoCall
  /\ run \in {"off", "failed"} => tree = NoTree
  /\ budget \in [renames : 0..MaxRenames, crashes : 0..MaxCrashes, faults : 0..MaxFaults]
  /\ call = [op |-> call.op, id |-> call.id, name |-> call.name,
             mayFail |-> call.mayFail, todo |-> call.todo, frames |-> call.frames]
  /\ call.op = "updateGroup" => call.name \in Names /\ budget.renames < MaxRenames

(* The changes made to an id table keep it one. *)
LEMMA IdTables ==
  /\ IdTable(<<>>)
  /\ \A f, S : IdTable(f) => IdTable(Without(f, S))
  /\ \A f : \A id \in Ids, n \in Names : IdTable(f) => IdTable(With(f, id, n))
  /\ \A f, id : \A n \in Names :
       IdTable(f) => IdTable([x \in DOMAIN f |-> IF x = id THEN n ELSE f[x]])
  <1>1. IdTable(<<>>)
    BY DEF IdTable
  <1>2. ASSUME NEW f, NEW S, IdTable(f) PROVE IdTable(Without(f, S))
    BY <1>2 DEF IdTable, Without
  <1>3. ASSUME NEW f, NEW id \in Ids, NEW n \in Names, IdTable(f)
        PROVE  IdTable(With(f, id, n))
    BY <1>3 DEF IdTable, With
  <1>4. ASSUME NEW f, NEW id, NEW n \in Names, IdTable(f)
        PROVE  IdTable([x \in DOMAIN f |-> IF x = id THEN n ELSE f[x]])
    BY <1>4 DEF IdTable
  <1> QED BY <1>1, <1>2, <1>3, <1>4

(* What a kill leaves of ids.dat names groups by names, or nothing. *)
LEMMA TornIds ==
  ASSUME NEW ids, IdTable(ids), NEW f \in Torn(ids)
  PROVE  IdTable(f.items)
  BY IdTables DEF Torn, Corrupt, Stored

(* The constants' assumptions, one by one. *)
LEMMA BankConstants ==
  /\ MaxRenames \in Nat /\ MaxCrashes \in Nat /\ MaxFaults \in Nat
  /\ NoId \notin Ids
  BY BoundsAssumption, NamesAssumption

(* The id tables at first. *)
LEMMA IdsInit == Init => IdsInv
  BY IdTables, BankConstants DEF Init, IdsInv, NoCall, Stored

(* The bounds are used up one by one. *)
LEMMA SpendBudget ==
  ASSUME IdsInv, NEW what \in {"renames", "crashes", "faults"}, Spend(what)
  PROVE  /\ budget' \in [renames : 0..MaxRenames, crashes : 0..MaxCrashes, faults : 0..MaxFaults]
         /\ what # "renames" => budget'.renames = budget.renames
  BY BankConstants DEF IdsInv, Spend

(* The id tables of a process that has ended. *)
LEMMA EndedIds ==
  ASSUME IdsInv, Ended, UNCHANGED budget \/ Spend("crashes"),
         IdTable(idsFile'.items)
  PROVE  IdsInv'
  BY SpendBudget, IdTables DEF IdsInv, Ended, Forget, NoCall

(* Every step keeps the id tables what they are, and only a session has    *)
(* any.                                                                    *)
LEMMA IdsStep ==
  ASSUME IdsInv, [Step]_vars
  PROVE  IdsInv'
  <1> USE DEF IdsInv
  <1>1. CASE Start
    BY <1>1, IdTables DEF Start, Forget, Stored, Idle
  <1>2. CASE Quit
    BY <1>2, IdTables DEF Quit, Idle, Stored, disk
  <1>3. CASE QuitFailed
    BY <1>3 DEF QuitFailed, memory, disk
  <1>4. CASE GoOn
    <2>1. CASE CloseFile
      BY <2>1 DEF CloseFile, Closing
    <2>2. CASE Closed
      BY <2>2, EndedIds DEF Closed, disk
    <2>3. CASE DeleteTry \/ DeleteTurn
      <3>1. PICK p, id, todo, frames : DeleteFrom(p, id, todo, frames)
        BY <2>3 DEF DeleteTry, DeleteTurn
      <3>2. run = "on"
        BY <2>3 DEF DeleteTry, DeleteTurn, InLoop, NoCall
      <3> QED BY <2>3, <3>1, <3>2, IdTables DEF DeleteFrom, Unregister, disk
    <2>4. CASE DeleteEnds
      BY <2>4, EndedIds, IdTables DEF DeleteEnds, Removing, InLoop, ReturnTrue, NoCall
    <2>5. CASE DeleteFails
      <3>1. run = "on"
        BY <2>5 DEF DeleteFails, Removing, InLoop, NoCall
      <3>2. call' = [call EXCEPT !.frames = Front(@)]
        BY <2>5 DEF DeleteFails
      <3> QED BY <2>5, <3>1, <3>2 DEF DeleteFails
    <2>6. CASE UpdateTry
      <3>1. /\ run = "on" /\ call.name \in Names /\ budget.renames < MaxRenames
            /\ UNCHANGED <<run, mapIds, idsFile, budget>>
        BY <2>6 DEF UpdateTry, NoCall
      <3>2. IdTable(lst')
        <4>1. \/ lst' = lst
              \/ lst' = [x \in DOMAIN lst |-> IF x = call.id THEN call.name ELSE lst[x]]
          BY <2>6 DEF UpdateTry
        <4>2. IdTable([x \in DOMAIN lst |-> IF x = call.id THEN call.name ELSE lst[x]])
          BY <3>1 DEF IdTable
        <4> QED BY <4>1, <4>2
      <3>3. \/ call' = NoCall
            \/ \E p : call' = [call EXCEPT !.todo = @ \ {p}]
        BY <2>6 DEF UpdateTry, ReturnTrue
      <3> QED BY <3>1, <3>2, <3>3 DEF NoCall
    <2>7. CASE CallFails
      BY <2>7 DEF CallFails, ReturnFalse, NoCall, disk
    <2> QED BY <1>4, <2>1, <2>2, <2>3, <2>4, <2>5, <2>6, <2>7 DEF GoOn
  <1>5. CASE Killed
    BY <1>5, EndedIds, TornIds DEF Killed, Crash, CrashInSave, CrashInClose, CrashInRemove, disk
  <1>6. ASSUME NEW id \in FreshIds, NEW n \in Names, NEW pid, AddGroup(pid, n, id)
        PROVE  IdsInv'
    <2>1. CASE refused' = "addGroup" /\ UNCHANGED <<run, memory, dirs>>
      BY <1>6, <2>1 DEF AddGroup, memory
    <2>2. CASE \E p : AddGroupTo(p, n, id)
      BY <1>6, <2>2, IdTables, EndedIds DEF AddGroup, AddGroupTo, Register, ReturnTrue, Idle, FreshIds, NoCall
    <2> QED BY <1>6, <2>1, <2>2 DEF AddGroup
  <1>7. ASSUME NEW pid, NEW id, NEW mayFail, DeleteGroup(pid, id, mayFail)
        PROVE  IdsInv'
    BY <1>7, SpendBudget DEF DeleteGroup, Idle, NoCall, disk
  <1>8. ASSUME NEW pid, NEW id, NEW mayFail, NEW n \in Names, UpdateGroup(pid, id, n, mayFail)
        PROVE  IdsInv'
    <2>1. /\ run = "on"
          /\ call'.op = "updateGroup" /\ call'.name = n
          /\ call' = [op |-> call'.op, id |-> call'.id, name |-> call'.name,
                      mayFail |-> call'.mayFail, todo |-> call'.todo, frames |-> call'.frames]
          /\ UNCHANGED <<run, mapIds, lst, tree, idsFile>>
      BY <1>8 DEF UpdateGroup, Idle, NoCall, disk
    <2>2. /\ budget' \in [renames : 0..MaxRenames, crashes : 0..MaxCrashes, faults : 0..MaxFaults]
          /\ budget'.renames < MaxRenames
      <3>1. /\ budget.renames \in 1..MaxRenames /\ budget.crashes \in 0..MaxCrashes
            /\ budget.faults \in 0..MaxFaults /\ (mayFail => budget.faults \in 1..MaxFaults)
        BY <1>8, BankConstants DEF UpdateGroup
      <3>2. budget' = [renames |-> budget.renames - 1, crashes |-> budget.crashes,
                       faults |-> IF mayFail THEN budget.faults - 1 ELSE budget.faults]
        BY <1>8 DEF UpdateGroup
      <3>3. budget.renames - 1 \in 0..MaxRenames /\ budget.renames - 1 < MaxRenames
        BY <3>1, BankConstants
      <3>4. (IF mayFail THEN budget.faults - 1 ELSE budget.faults) \in 0..MaxFaults
        BY <3>1, BankConstants
      <3> QED BY <3>1, <3>2, <3>3, <3>4
    <2> QED BY <2>1, <2>2
  <1>9. CASE QuestionCall
    <2>1. /\ Idle /\ UNCHANGED <<run, mapIds, lst, call, disk, budget>>
      BY <1>9 DEF QuestionCall, AddQuestion, DeleteQuestion, UpdateQuestion, QueryQuestion, OnQuestions
    <2> QED BY <2>1 DEF Idle, disk
  <1>10. CASE UNCHANGED vars
    BY <1>10 DEF vars, memory, disk
  <1> QED BY <1>1, <1>2, <1>3, <1>4, <1>5, <1>6, <1>7, <1>8, <1>9, <1>10 DEF Step

-----------------------------------------------------------------------------
(* The registry. *)

(* A bank that was never started is an empty registry. *)
LEMMA RegistryInit == Init => Registry!Init
  BY BankConstants DEF Init, Registry!Init, Registry!NoIds, Registry!Stored, Stored

(* A step that leaves the id tables alone is none of the registry's. *)
LEMMA RegistryStutter ==
  ASSUME IdsInv, IdsInv', UNCHANGED <<mapIds, lst, idsFile, budget>>,
         run' = run \/ {run, run'} = {"closing", "off"}
  PROVE  UNCHANGED Registry!vars
  BY DEF Registry!vars

(* The end of a process is the death of the registry, or nothing to it     *)
(* when ids.dat is already written.                                        *)
LEMMA RegistryEnds ==
  ASSUME IdsInv, Ended, UNCHANGED budget \/ Spend("crashes"),
         run \in {"on", "closing"},
         \/ idsFile' = idsFile
         \/ run = "on" /\ idsFile' \in Torn(lst)
  PROVE  [Registry!Next]_(Registry!vars)
  <1>1. (budget.renames < MaxRenames)' = (budget.renames < MaxRenames)
    BY SpendBudget
  <1>2. run' = "off" /\ mapIds' = <<>> /\ lst' = <<>>
    BY DEF Ended, Forget
  <1>3. CASE run = "closing"
    BY <1>1, <1>2, <1>3 DEF IdsInv, Registry!vars
  <1>4. CASE run = "on"
    <2>1. idsFile' \in Registry!Left(idsFile, lst)
      <3>1. CASE idsFile' = idsFile
        BY <3>1 DEF Registry!Left
      <3>2. CASE idsFile' = Corrupt
        <4>1. Corrupt = Registry!Corrupt
          BY DEF Corrupt, Registry!Corrupt, Registry!NoIds
        <4> QED BY <3>2, <4>1 DEF Registry!Left
      <3>3. CASE \E S \in SUBSET DOMAIN lst : idsFile' = Stored(Without(lst, S))
        BY <3>3 DEF Registry!Left, Registry!Stored, Stored, Registry!Without, Without
      <3> QED BY <3>1, <3>2, <3>3 DEF Torn
    <2>2. Registry!Die
      BY <1>1, <1>2, <1>4, <2>1 DEF Registry!Die, Registry!Forget, Registry!NoIds
    <2> QED BY <2>2 DEF Registry!Next
  <1> QED BY <1>3, <1>4

(* Every step of the bank is one of the registry or a stutter: the         *)
(* registration of a new group, the removal of the ids a deletion goes     *)
(* through, a rename in m_ptrIds, saving, loading or death.                *)
LEMMA RegistryStep ==
  ASSUME IdsInv, [Step]_vars
  PROVE  [Registry!Next]_(Registry!vars)
  <1>0. IdsInv'
    BY IdsStep
  <1>1. CASE Start
    <2>1. UNCHANGED <<idsFile, budget>> /\ run = "off"
      BY <1>1 DEF Start
    <2>2. CASE Readable
      <3>1. /\ run' = "on" /\ idsFile.ok
            /\ mapIds' = idsFile.items /\ lst' = idsFile.items
        BY <1>1, <2>2 DEF Start, Readable
      <3>2. Registry!Load
        BY <2>1, <3>1 DEF Registry!Load
      <3> QED BY <3>2 DEF Registry!Next
    <2>3. CASE ~Readable
      <3>1. Registry!LoadFails
        BY <1>1, <2>1, <2>3 DEF Start, Forget, Registry!LoadFails, Registry!Forget, Registry!NoIds
      <3> QED BY <3>1 DEF Registry!Next
    <2> QED BY <2>2, <2>3
  <1>2. CASE Quit
    <2>1. Registry!Save
      BY <1>2 DEF Quit, Idle, Stored, disk, Registry!Save, Registry!Stored,
                  Registry!Forget, Registry!NoIds
    <2> QED BY <2>1 DEF Registry!Next
  <1>3. CASE QuitFailed
    <2>1. Registry!GiveUp
      BY <1>3 DEF QuitFailed, memory, disk, Registry!GiveUp
    <2> QED BY <2>1 DEF Registry!Next
  <1>4. CASE GoOn
    <2>1. CASE CloseFile
      BY <1>0, <2>1, RegistryStutter DEF CloseFile
    <2>2. CASE Closed
      BY <2>2, RegistryEnds DEF Closed, disk
    <2>3. CASE DeleteTry \/ DeleteTurn
      <3>1. PICK p, id, todo, frames : DeleteFrom(p, id, todo, frames)
        BY <2>3 DEF DeleteTry, DeleteTurn
      <3>2. run = "on"
        BY <2>3 DEF DeleteTry, DeleteTurn, InLoop, NoCall, IdsInv
      <3> DEFINE S == {id} \cap Ids
      <3>3. /\ mapIds' = Registry!Without(mapIds, S)
            /\ lst' = Registry!Without(lst, S)
        <4>1. DOMAIN mapIds \ {id} = DOMAIN mapIds \ S /\ DOMAIN lst \ {id} = DOMAIN lst \ S
          BY DEF IdsInv, IdTable
        <4> QED BY <3>1, <4>1 DEF DeleteFrom, Unregister, Without, Registry!Without
      <3>4. Registry!Unregister(S)
        BY <3>1, <3>2, <3>3 DEF DeleteFrom, disk, Registry!Unregister
      <3>5. S \in SUBSET Ids
        OBVIOUS
      <3> QED BY <3>4, <3>5 DEF Registry!Next
    <2>4. CASE DeleteEnds
      <3>1. CASE Ended
        <4>1. run = "on" /\ UNCHANGED <<idsFile, budget>>
          BY <2>4 DEF DeleteEnds, Removing, InLoop, NoCall, IdsInv
        <4> QED BY <3>1, <4>1, RegistryEnds
      <3>2. CASE UNCHANGED <<run, mapIds, lst>>
        BY <1>0, <2>4, <3>2, RegistryStutter DEF DeleteEnds
      <3> QED BY <2>4, <3>1, <3>2 DEF DeleteEnds
    <2>5. CASE DeleteFails
      BY <1>0, <2>5, RegistryStutter DEF DeleteFails
    <2>6. CASE UpdateTry
      <3>1. /\ run = "on" /\ call.name \in Names /\ budget.renames < MaxRenames
            /\ UNCHANGED <<run, mapIds, idsFile, budget>>
        BY <2>6 DEF UpdateTry, NoCall, IdsInv
      <3>2. \/ lst' = lst
            \/ lst' = [x \in DOMAIN lst |-> IF x = call.id THEN call.name ELSE lst[x]]
        BY <2>6 DEF UpdateTry
      <3>3. \/ UNCHANGED lst
            \/ \E id \in DOMAIN lst, name \in Names : lst' = Registry!With(lst, id, name)
        <4>1. CASE call.id \in DOMAIN lst
          <5>1. Registry!With(lst, call.id, call.name)
                  = [x \in DOMAIN lst |-> IF x = call.id THEN call.name ELSE lst[x]]
            BY <4>1 DEF Registry!With
          <5> QED BY <3>1, <3>2, <4>1, <5>1
        <4>2. CASE call.id \notin DOMAIN lst
          BY <3>2, <4>2 DEF IdsInv, IdTable
        <4> QED BY <4>1, <4>2
      <3>4. Registry!Rename
        BY <3>1, <3>3 DEF Registry!Rename
      <3> QED BY <3>4 DEF Registry!Next
    <2>7. CASE CallFails
      BY <1>0, <2>7, RegistryStutter DEF CallFails, disk
    <2> QED BY <1>4, <2>1, <2>2, <2>3, <2>4, <2>5, <2>6, <2>7 DEF GoOn
  <1>5. CASE Killed
    <2>1. Ended /\ Spend("crashes")
      BY <1>5 DEF Killed, Crash, CrashInSave, CrashInClose, CrashInRemove
    <2>2. run \in {"on", "closing"}
      <3>1. CASE Crash \/ CrashInSave \/ CrashInClose
        BY <3>1 DEF Crash, CrashInSave, CrashInClose, Idle, Closing
      <3>2. CASE CrashInRemove
        BY <3>2 DEF CrashInRemove, Removing, InLoop, NoCall, IdsInv
      <3> QED BY <1>5, <3>1, <3>2 DEF Killed
    <2>3. \/ idsFile' = idsFile
          \/ run = "on" /\ idsFile' \in Torn(lst)
      BY <1>5 DEF Killed, Crash, CrashInSave, CrashInClose, CrashInRemove, Idle, disk
    <2> QED BY <2>1, <2>2, <2>3, RegistryEnds
  <1>6. ASSUME NEW id \in FreshIds, NEW n \in Names, NEW pid, AddGroup(pid, n, id)
        PROVE  [Registry!Next]_(Registry!vars)
    <2>1. CASE refused' = "addGroup" /\ UNCHANGED <<run, memory, dirs>>
      BY <1>0, <1>6, <2>1, RegistryStutter DEF AddGroup, memory
    <2>2. CASE ~Repeated(id, n) /\ \E p : AddGroupTo(p, n, id)
      <3>1. PICK p : AddGroupTo(p, n, id)
        BY <2>2
      <3>2. Idle /\ UNCHANGED <<files, idsFile, budget>>
        BY <1>6 DEF AddGroup
      <3>3. CASE Ended
        BY <3>2, <3>3, RegistryEnds DEF Idle
      <3>4. CASE Register(id, n) /\ UNCHANGED run
        <4>1. id \in Ids /\ id \notin DOMAIN mapIds /\ id \notin DOMAIN lst
          BY DEF FreshIds
        <4>2. \A x \in DOMAIN mapIds : mapIds[x] # n
          BY <2>2 DEF Repeated, Range
        <4>3. /\ mapIds' = Registry!With(mapIds, id, n)
              /\ lst' = Registry!With(lst, id, n)
          BY <3>4, <4>1 DEF Register, With, Registry!With
        <4>4. Registry!Register(id, n)
          BY <3>2, <3>4, <4>1, <4>2, <4>3 DEF Registry!Register, Idle
        <4> QED BY <4>1, <4>4 DEF Registry!Next
      <3> QED BY <3>1, <3>3, <3>4 DEF AddGroupTo
    <2> QED BY <1>6, <2>1, <2>2 DEF AddGroup
  <1>7. ASSUME NEW pid, NEW id, NEW mayFail, DeleteGroup(pid, id, mayFail)
        PROVE  [Registry!Next]_(Registry!vars)
    <2>1. UNCHANGED <<run, mapIds, lst, idsFile>>
      BY <1>7 DEF DeleteGroup, disk
    <2>2. (budget.renames < MaxRenames)' = (budget.renames < MaxRenames)
      BY <1>7, SpendBudget DEF DeleteGroup
    <2> QED BY <2>1, <2>2 DEF Registry!vars
  <1>8. ASSUME NEW pid, NEW id, NEW mayFail, NEW n \in Names, UpdateGroup(pid, id, n, mayFail)
        PROVE  [Registry!Next]_(Registry!vars)
    <2>1. /\ run = "on" /\ UNCHANGED <<run, mapIds, lst, idsFile>>
          /\ call'.op = "updateGroup"
      BY <1>8 DEF UpdateGroup, disk, Idle, NoCall
    <2>2. Registry!Rename
      BY <1>0, <2>1 DEF IdsInv, Registry!Rename
    <2> QED BY <2>2 DEF Registry!Next
  <1>9. CASE QuestionCall
    <2>1. UNCHANGED <<run, mapIds, lst, call, disk, budget>>
      BY <1>9 DEF QuestionCall, AddQuestion, DeleteQuestion, UpdateQuestion, QueryQuestion, OnQuestions
    <2> QED BY <1>0, <2>1, RegistryStutter DEF disk
  <1>10. CASE UNCHANGED vars
    BY <1>0, <1>10, RegistryStutter DEF vars, memory, disk
  <1> QED BY <1>1, <1>2, <1>3, <1>4, <1>5, <1>6, <1>7, <1>8, <1>9, <1>10 DEF Step

(* The bank implements the registry of ids: through every operation,       *)
(* failure, abort and kill ids.dat, m_mapIds and m_ptrIds change only as   *)
(* IdRegistry says.                                                        *)
THEOREM BankImplementsRegistry == Spec => ImplementsRegistry
  <1>1. [Next]_vars => [Step]_vars
    BY NextIsStep
  <1>2. IdsInv /\ [Step]_vars => IdsInv'
    BY IdsStep
  <1>3. IdsInv /\ [Step]_vars => [Registry!Next]_(Registry!vars)
    BY RegistryStep
  <1> QED BY <1>1, <1>2, <1>3, IdsInit, RegistryInit, PTL
          DEF Spec, ImplementsRegistry, Registry!Spec

(* The window's bank implements the registry too, with whatever stale ids  *)
(* the window calls it.                                                    *)
THEOREM WindowImplementsRegistry == WinSpec => ImplementsRegistry
  <1>1. [WinNext]_winVars => [Step]_vars
    BY WinNextIsStep DEF winVars
  <1>2. IdsInv /\ [Step]_vars => IdsInv'
    BY IdsStep
  <1>3. IdsInv /\ [Step]_vars => [Registry!Next]_(Registry!vars)
    BY RegistryStep
  <1>4. WinInit => Init
    BY DEF WinInit
  <1> QED BY <1>1, <1>2, <1>3, <1>4, IdsInit, RegistryInit, PTL
          DEF WinSpec, ImplementsRegistry, Registry!Spec

(* The registry keeps m_mapIds and m_ptrIds in step (IdRegistryProofs), so *)
(* whatever implements it does.                                            *)
LEMMA RegistryKeepsSync == ImplementsRegistry => []IdsInSync
  <1> USE DEF Registry!NoIds, RegistryProofs!NoIds, Registry!Stored, RegistryProofs!Stored
  <1>1. Registry!Init => RegistryProofs!Init
    BY DEF Registry!Init, RegistryProofs!Init
  <1>2. [Registry!Next]_(Registry!vars) => [RegistryProofs!Next]_(RegistryProofs!vars)
    BY DEF Registry!Next, RegistryProofs!Next, Registry!vars, RegistryProofs!vars,
           Registry!Corrupt, RegistryProofs!Corrupt, Registry!With, RegistryProofs!With,
           Registry!Without, RegistryProofs!Without, Registry!Left, RegistryProofs!Left,
           Registry!Forget, RegistryProofs!Forget, Registry!Load, RegistryProofs!Load,
           Registry!LoadFails, RegistryProofs!LoadFails,
           Registry!GiveUp, RegistryProofs!GiveUp,
           Registry!Register, RegistryProofs!Register,
           Registry!Unregister, RegistryProofs!Unregister,
           Registry!Rename, RegistryProofs!Rename,
           Registry!Save, RegistryProofs!Save, Registry!Die, RegistryProofs!Die
  <1>3. RegistryProofs!RegistryInv => IdsInSync
    BY DEF RegistryProofs!RegistryInv, RegistryProofs!RegistryInSync,
           IdsInSync, Registry!RegistryInSync, Registry!Injective, RegistryProofs!Injective
  <1> QED BY <1>1, <1>2, <1>3, RegistryProofs!RegistryInit, RegistryProofs!RegistryStep, PTL
          DEF ImplementsRegistry, Registry!Spec

(* m_mapIds and m_ptrIds have the same ids in every state of the bank, and *)
(* until the first rename the same names, no two of them alike.            *)
THEOREM BankIdsInSync == Spec => []IdsInSync
  BY BankImplementsRegistry, RegistryKeepsSync, PTL

(* The same for the bank the window works on. *)
THEOREM WindowIdsInSync == WinSpec => []IdsInSync
  BY WindowImplementsRegistry, RegistryKeepsSync, PTL

-----------------------------------------------------------------------------
(* The inductive invariant. *)

BankTyped == IdsInv /\ BankInv

FramesTyped(frames) ==
  /\ frames \in Seq(Frame)
  /\ \A i \in 1..Len(frames) : frames[i].at \in DOMAIN tree \ {<<>>}
  /\ \A i, j \in 1..Len(frames) : i < j => Len(frames[i].at) < Len(frames[j].at)

(* A call that deletes nothing yet. *)
LEMMA NoFrames == <<>> \in Seq(Frame) /\ Len(<<>>) = 0 /\ \A i \in 1..0 : FALSE
  OBVIOUS

(* A call stays what it is when no group moves. *)
LEMMA CallKept ==
  /\ call' = NoCall => CallTyped'
  /\ CallTyped /\ call' = call /\ DOMAIN tree \subseteq DOMAIN tree' => CallTyped'
  <1>1. call' = NoCall => CallTyped'
    BY NoFrames DEF CallTyped, NoCall
  <1>2. CallTyped /\ call' = call /\ DOMAIN tree \subseteq DOMAIN tree' => CallTyped'
    BY DEF CallTyped
  <1> QED BY <1>1, <1>2

(* The bank at first. *)
LEMMA BankInit == Init => BankInv
  <1> SUFFICES ASSUME Init PROVE BankInv
    OBVIOUS
  <1>1. CallTyped
    BY NoFrames DEF Init, CallTyped, NoCall
  <1>2. DirsTyped(dirs)
    BY FS_EmptySet DEF Init, DirsTyped
  <1>3. DOMAIN files = {} /\ files = [x \in {} |-> "none"]
    BY DEF Init
  <1>4. FilesTyped(dirs, files)
    BY <1>3, FS_EmptySet DEF FilesTyped
  <1>5. Readable
    BY <1>3 DEF Init, Readable, Stored
  <1> QED BY <1>1, <1>2, <1>4, <1>5, NoTreeTyped DEF Init, BankInv

(* The bank when its process has ended. *)
LEMMA EndedBank ==
  ASSUME BankTyped, run \in {"on", "closing"}, Ended,
         DirsTyped(dirs'), FilesTyped(dirs', files'),
         RootPath \in dirs => RootPath \in dirs'
  PROVE  BankInv'
  <1>1. run' = "off" /\ tree' = NoTree /\ call' = NoCall
    BY DEF Ended, Forget
  <1>2. RootPath \in dirs'
    BY DEF BankTyped, BankInv
  <1> QED BY <1>1, <1>2, CallKept, NoTreeTyped DEF BankInv

(* init() builds a tree from what it can read, and none otherwise. *)
LEMMA StartTyped ==
  ASSUME BankTyped, Start
  PROVE  BankInv'
  <1>1. /\ run = "off" /\ dirs' = dirs \cup {RootPath}
        /\ UNCHANGED <<files, idsFile>>
    BY DEF Start
  <1>2. DirsTyped(dirs')
    <2>1. IsFiniteSet(dirs \cup {RootPath})
      BY FS_AddElement DEF BankTyped, BankInv, DirsTyped
    <2> QED BY <1>1, <2>1, RootIsPath DEF BankTyped, BankInv, DirsTyped
  <1>3. FilesTyped(dirs', files')
    BY <1>1 DEF BankTyped, BankInv, FilesTyped
  <1>4. RootPath \in dirs'
    BY <1>1
  <1>5. CASE Readable
    <2>1. PICK pick \in Picks(idsFile.items), filesFirst \in BOOLEAN :
            tree' = Load(dirs', files, pick, filesFirst)
      BY <1>5 DEF Start
    <2>2. pick \in [Range(idsFile.items) -> Ids]
      BY DEF Picks, BankTyped, IdsInv, IdTable
    <2>3. FilesTyped(dirs', files)
      BY <1>1, <1>3
    <2>4. TreeTyped(tree')
      BY <1>2, <2>1, <2>2, <2>3, LoadIsComplete DEF Loaded
    <2>5. call' = NoCall
      BY <1>1, <1>5 DEF Start, BankTyped, IdsInv
    <2>6. Readable'
      BY <1>1, <1>5 DEF Readable
    <2> QED BY <1>2, <1>3, <1>4, <2>4, <2>5, <2>6, CallKept DEF BankInv
  <1>6. CASE ~Readable
    <2>1. run' = "failed" /\ tree' = NoTree /\ call' = NoCall
      BY <1>6 DEF Start, Forget
    <2> QED BY <1>2, <1>3, <1>4, <2>1, CallKept, NoTreeTyped DEF BankInv
  <1> QED BY <1>5, <1>6

(* Closing a question file, in uninit() or in deleteGroup(). *)
LEMMA CloseFileTyped ==
  ASSUME BankTyped, CloseFile
  PROVE  BankInv'
  <1>1. PICK p \in DOMAIN tree :
          /\ Closing(p)
          /\ files' = CloseCtx(dirs, files, Head(tree[p].ctx))
          /\ tree' = [tree EXCEPT ![p].ctx = Tail(@)]
    BY DEF CloseFile
  <1>2. UNCHANGED <<run, call, dirs, idsFile>>
    BY DEF CloseFile
  <1>3. tree[p].ctx \in Seq(Ctx) /\ tree[p].ctx # <<>>
    BY <1>1 DEF Closing, BankTyped, BankInv, TreeTyped, Node
  <1>4. Head(tree[p].ctx) \in Ctx /\ Tail(tree[p].ctx) \in Seq(Ctx)
    BY <1>3, HeadTailProperties
  <1>5. TreeTyped(tree') /\ DOMAIN tree' = DOMAIN tree
    <2>1. TreeTyped([tree EXCEPT ![p].ctx = Tail(tree[p].ctx)])
      BY <1>4, ExceptTyped DEF BankTyped, BankInv
    <2> QED BY <1>1, <2>1
  <1>6. /\ FilesTyped(dirs, files')
        /\ (\A f \in DOMAIN files : files[f].ok) => \A f \in DOMAIN files' : files'[f].ok
    BY <1>1, <1>4, CloseCtxTyped DEF BankTyped, BankInv
  <1>7. Readable => Readable'
    BY <1>2, <1>6 DEF Readable
  <1>8. run \in {"on", "closing"}
    BY <1>1 DEF Closing
  <1> QED BY <1>2, <1>5, <1>6, <1>7, <1>8, CallKept DEF BankTyped, BankInv

(* The file a question operation works on lies in its group's directory. *)
LEMMA QuestionFileTyped ==
  ASSUME TreeTyped(tree), DirsTyped(dirs), FilesTyped(dirs, files),
         NEW gid \in Ids, NEW p \in Owners(gid)
  PROVE  /\ p \in DOMAIN tree
         /\ OpenedCtx(tree[p])[1].items \in Items
         /\ \A y \in Items : [OpenedCtx(tree[p]) EXCEPT ![1].items = y] \in Seq(Ctx)
  <1> DEFINE ctx == OpenedCtx(tree[p])
  <1>1. p \in DOMAIN tree /\ tree[p].id = gid
    BY DEF Owners
  <1>2. tree[p] \in Node
    BY <1>1 DEF TreeTyped
  <1>3. ctx \in Seq(Ctx) /\ ctx # <<>>
    <2>1. CASE tree[p].ctx = <<>>
      <3> DEFINE f == <<tree[p].path, tree[p].id>>
      <3>1. f \in Path \X Ids
        BY <1>1, <1>2 DEF Node
      <3>2. Content(files, f) \in Items
        BY EmptyItems DEF Content, FilesTyped
      <3>3. OpenCtx(files, f) \in Ctx
        BY <3>1, <3>2 DEF OpenCtx, Ctx
      <3>4. ctx = <<OpenCtx(files, f)>>
        BY <2>1 DEF OpenedCtx
      <3> HIDE DEF ctx
      <3> QED BY <3>3, <3>4
    <2>2. CASE tree[p].ctx # <<>>
      BY <1>2, <2>2 DEF OpenedCtx, Node
    <2> QED BY <2>1, <2>2
  <1> HIDE DEF ctx
  <1>4. 1 \in 1..Len(ctx) /\ ctx[1] \in Ctx
    BY <1>3, EmptySeq, ElementOfSeq, LenProperties
  <1>5. ASSUME NEW y \in Items PROVE [ctx EXCEPT ![1].items = y] \in Seq(Ctx)
    <2>1. [ctx[1] EXCEPT !.items = y] \in Ctx
      BY <1>4 DEF Ctx
    <2>2. [ctx EXCEPT ![1] = [ctx[1] EXCEPT !.items = y]] \in Seq(Ctx)
      BY <1>3, <1>4, <2>1, ExceptSeq
    <2> QED BY <2>2
  <1> QED BY <1>1, <1>4, <1>5 DEF ctx, Ctx

(* A question operation changes nothing but the open files of the group it *)
(* is called for, if anything.                                             *)
LEMMA QuestionCallTree ==
  ASSUME QuestionCall
  PROVE  /\ Idle /\ UNCHANGED <<run, mapIds, lst, call, disk, budget>>
         /\ \/ tree' = tree
            \/ \E gid \in DOMAIN mapIds : \E p \in Owners(gid) : \E y :
                 /\ OpenedCtx(tree[p])[1].items \in Items => y \in Items
                 /\ tree' = [tree EXCEPT ![p].ctx = [OpenedCtx(tree[p]) EXCEPT ![1].items = y]]
  <1>1. Idle /\ UNCHANGED <<run, mapIds, lst, call, disk, budget>>
    BY DEF QuestionCall, AddQuestion, DeleteQuestion, UpdateQuestion, QueryQuestion, OnQuestions
  <1>2. \/ tree' = tree
        \/ \E gid \in DOMAIN mapIds : \E p \in Owners(gid) : \E y :
             /\ OpenedCtx(tree[p])[1].items \in Items => y \in Items
             /\ tree' = [tree EXCEPT ![p].ctx = [OpenedCtx(tree[p]) EXCEPT ![1].items = y]]
    <2>0. \A gid : Firsts(Owners(gid)) \subseteq Owners(gid)
      BY DEF Firsts
    <2>1. PICK gid, q : \/ q \in Qids /\ \E t \in Texts : AddQuestion(gid, q, t)
                        \/ DeleteQuestion(gid, q)
                        \/ \E t \in Texts : UpdateQuestion(gid, q, t)
                        \/ QueryQuestion(gid, q)
      BY DEF QuestionCall
    <2>2. CASE q \in Qids /\ \E t \in Texts : AddQuestion(gid, q, t)
      BY <2>0, <2>2, ItemsProperties DEF AddQuestion, OnQuestions
    <2>3. CASE DeleteQuestion(gid, q)
      BY <2>0, <2>3, ItemsProperties DEF DeleteQuestion, OnQuestions
    <2>4. CASE \E t \in Texts : UpdateQuestion(gid, q, t)
      <3>1. PICK t \in Texts : UpdateQuestion(gid, q, t)
        BY <2>4
      <3> DEFINE Upd(f) == [x \in DOMAIN f |-> IF x = q THEN t ELSE f[x]]
      <3>2. \A f \in Items : Upd(f) \in Items
        BY ItemsProperties
      <3>3. \/ tree' = tree
            \/ gid \in DOMAIN mapIds /\ \E p \in Firsts(Owners(gid)) :
                 tree' = [tree EXCEPT ![p].ctx =
                            [OpenedCtx(tree[p]) EXCEPT ![1].items = Upd(OpenedCtx(tree[p])[1].items)]]
        BY <3>1 DEF UpdateQuestion, OnQuestions
      <3> HIDE DEF Upd
      <3> QED BY <2>0, <3>2, <3>3
    <2>5. CASE QueryQuestion(gid, q)
      BY <2>0, <2>5 DEF QueryQuestion, OnQuestions
    <2> QED BY <2>1, <2>2, <2>3, <2>4, <2>5
  <1> QED BY <1>1, <1>2

(* The question operations. *)
LEMMA QuestionCallTyped ==
  ASSUME BankTyped, QuestionCall
  PROVE  BankInv'
  <1>1. /\ Idle /\ UNCHANGED <<run, call, disk>>
    BY QuestionCallTree
  <1>2. \/ tree' = tree
        \/ \E gid \in DOMAIN mapIds : \E p \in Owners(gid) : \E y :
             /\ OpenedCtx(tree[p])[1].items \in Items => y \in Items
             /\ tree' = [tree EXCEPT ![p].ctx = [OpenedCtx(tree[p]) EXCEPT ![1].items = y]]
    BY QuestionCallTree
  <1>3. TreeTyped(tree') /\ DOMAIN tree' = DOMAIN tree
    <2>1. CASE tree' = tree
      BY <2>1 DEF BankTyped, BankInv
    <2>2. CASE tree' # tree
      <3>0. PICK gid \in DOMAIN mapIds : \E p \in Owners(gid) : \E y :
              /\ OpenedCtx(tree[p])[1].items \in Items => y \in Items
              /\ tree' = [tree EXCEPT ![p].ctx = [OpenedCtx(tree[p]) EXCEPT ![1].items = y]]
        BY <1>2, <2>2
      <3>1. PICK p \in Owners(gid) : \E y :
              /\ OpenedCtx(tree[p])[1].items \in Items => y \in Items
              /\ tree' = [tree EXCEPT ![p].ctx = [OpenedCtx(tree[p]) EXCEPT ![1].items = y]]
        BY <3>0
      <3>4. PICK y :
              /\ OpenedCtx(tree[p])[1].items \in Items => y \in Items
              /\ tree' = [tree EXCEPT ![p].ctx = [OpenedCtx(tree[p]) EXCEPT ![1].items = y]]
        BY <3>1
      <3>2. gid \in Ids
        BY DEF BankTyped, IdsInv, IdTable
      <3>3. [OpenedCtx(tree[p]) EXCEPT ![1].items = y] \in Seq(Ctx)
        BY <3>2, <3>4, QuestionFileTyped DEF BankTyped, BankInv
      <3> QED BY <3>3, <3>4, ExceptTyped DEF BankTyped, BankInv
    <2> QED BY <2>1, <2>2
  <1> QED BY <1>1, <1>3, CallKept DEF BankTyped, BankInv, disk, Readable

(* The calls of deleteGroup() around the innermost one. *)
LEMMA FrontOfFrames ==
  ASSUME NEW frames, FramesTyped(frames), frames # <<>>
  PROVE  /\ FramesTyped(Front(frames))
         /\ Last(frames) \in Frame /\ Last(frames).at \in DOMAIN tree \ {<<>>}
         /\ \A i \in 1..Len(Front(frames)) :
              /\ Front(frames)[i].at \in DOMAIN tree \ {<<>>}
              /\ Len(Front(frames)[i].at) < Len(Last(frames).at)
  <1>1. /\ Front(frames) \in Seq(Frame) /\ Len(frames) \in Nat \ {0}
        /\ Len(Front(frames)) = Len(frames) - 1
        /\ \A i \in 1..(Len(frames) - 1) : Front(frames)[i] = frames[i]
        /\ Last(frames) = frames[Len(frames)] /\ Last(frames) \in Frame
    BY FrontProperties DEF FramesTyped
  <1>2. Len(frames) \in 1..Len(frames)
        /\ \A i \in 1..(Len(frames) - 1) : i \in 1..Len(frames) /\ i < Len(frames)
    BY <1>1
  <1>3. \A i \in 1..Len(Front(frames)) :
          /\ Front(frames)[i].at \in DOMAIN tree \ {<<>>}
          /\ Len(Front(frames)[i].at) < Len(Last(frames).at)
    BY <1>1, <1>2 DEF FramesTyped
  <1>4. FramesTyped(Front(frames))
    BY <1>1, <1>2 DEF FramesTyped
  <1> QED BY <1>1, <1>2, <1>3, <1>4 DEF FramesTyped

(* A call of deleteGroup() for a group further down. *)
LEMMA AppendFrame ==
  ASSUME NEW frames, FramesTyped(frames), NEW fr \in Frame,
         fr.at \in DOMAIN tree \ {<<>>},
         \A i \in 1..Len(frames) : Len(frames[i].at) < Len(fr.at)
  PROVE  FramesTyped(Append(frames, fr))
  <1> DEFINE a == Append(frames, fr)
             n == Len(frames)
  <1>1. /\ a \in Seq(Frame) /\ Len(a) = n + 1 /\ n \in Nat
        /\ \A i \in 1..n : a[i] = frames[i]
        /\ a[n + 1] = fr
    BY AppendProperties, LenProperties DEF FramesTyped
  <1> HIDE DEF a
  <1>2. \A i \in 1..n : a[i].at \in DOMAIN tree \ {<<>>} /\ Len(a[i].at) < Len(fr.at)
    BY <1>1 DEF FramesTyped
  <1>3. \A i, j \in 1..n : i < j => Len(a[i].at) < Len(a[j].at)
    BY <1>1 DEF FramesTyped
  <1> HIDE DEF n
  <1>4. \A i \in 1..(n + 1) : i \in 1..n \/ i = n + 1
    BY <1>1
  <1>5. \A i \in 1..(n + 1) : a[i].at \in DOMAIN tree \ {<<>>}
    BY <1>1, <1>2, <1>4
  <1>6. ASSUME NEW i \in 1..(n + 1), NEW j \in 1..(n + 1), i < j
        PROVE  Len(a[i].at) < Len(a[j].at)
    <2>1. i \in 1..n
      BY <1>1, <1>6
    <2> QED BY <1>1, <1>2, <1>3, <1>4, <1>6, <2>1
  <1>7. FramesTyped(a)
    BY <1>1, <1>5, <1>6 DEF FramesTyped
  <1> QED BY <1>7 DEF a

(* The private deleteGroup() finds a subgroup of the group it is called    *)
(* on.                                                                     *)
LEMMA DeleteFromTyped ==
  ASSUME BankTyped, call.op # "updateGroup", NEW p, NEW id, NEW todo, NEW frames,
         FramesTyped(frames),
         frames = <<>> \/ (frames # <<>> /\ p = Last(frames).at),
         DeleteFrom(p, id, todo, frames)
  PROVE  BankInv'
  <1>1. UNCHANGED <<run, tree, dirs, files, idsFile>>
    BY DEF DeleteFrom, disk
  <1>2. call'.op = call.op /\ FramesTyped(call'.frames)
    <2>1. CASE call' = [call EXCEPT !.todo = todo, !.frames = frames]
      BY <2>1 DEF BankTyped, IdsInv
    <2>2. ASSUME NEW q \in Found(p, id),
                 call' = [call EXCEPT !.todo = todo,
                            !.frames = Append(frames, [at |-> q, turn |-> 1,
                                         turns |-> Cardinality(Subgroups(tree, q))])]
          PROVE  call'.op = call.op /\ FramesTyped(call'.frames)
      <3> DEFINE fr == [at |-> q, turn |-> 1, turns |-> Cardinality(Subgroups(tree, q))]
      <3>1. q \in Subgroups(tree, p)
        BY DEF Found, Firsts
      <3>2. /\ q \in DOMAIN tree \ {<<>>} /\ q \in Positions /\ Len(q) = Len(p) + 1
            /\ Cardinality(Subgroups(tree, q)) \in Nat
        BY <3>1, SubgroupsCounted DEF BankTyped, BankInv
      <3>3. fr \in Frame /\ fr.at = q
        BY <3>2 DEF Frame
      <3>4. \A i \in 1..Len(frames) : Len(frames[i].at) < Len(q)
        <4>1. CASE frames = <<>>
          BY <4>1
        <4>2. CASE frames # <<>> /\ p = Last(frames).at
          <5>1. /\ Front(frames) \in Seq(Frame) /\ Len(frames) \in Nat \ {0}
                /\ Len(Front(frames)) = Len(frames) - 1
                /\ \A i \in 1..(Len(frames) - 1) : Front(frames)[i] = frames[i]
                /\ Last(frames) = frames[Len(frames)]
            BY <4>2, FrontProperties DEF FramesTyped
          <5>2. p \in Seq(Nat)
            BY <4>2, FrontOfFrames DEF Frame, Positions
          <5>3. Len(p) \in Nat /\ Len(p) < Len(q)
            BY <3>2, <5>2, LenProperties
          <5>4. ASSUME NEW i \in 1..Len(frames) PROVE Len(frames[i].at) < Len(q)
            <6>1. CASE i = Len(frames)
              BY <4>2, <5>1, <5>3, <6>1
            <6>2. CASE i # Len(frames)
              <7>1. i < Len(frames) /\ Len(frames) \in 1..Len(frames)
                BY <5>1, <5>4, <6>2
              <7>2. Len(frames[i].at) < Len(p)
                BY <4>2, <5>1, <7>1 DEF FramesTyped
              <7>3. Len(frames[i].at) \in Nat
                <8>1. frames[i].at \in Seq(Nat)
                  <9>1. frames[i] \in Frame
                    BY ElementOfSeq DEF FramesTyped
                  <9> QED BY <9>1 DEF Frame, Positions
                <8> QED BY <8>1, LenProperties
              <7> QED BY <3>2, <5>3, <7>2, <7>3
            <6> QED BY <6>1, <6>2
          <5> QED BY <5>4
        <4> QED BY <4>1, <4>2
      <3> HIDE DEF fr
      <3>5. FramesTyped(Append(frames, fr))
        BY <3>2, <3>3, <3>4, AppendFrame
      <3>6. call'.op = call.op /\ call'.frames = Append(frames, fr)
        BY <2>2 DEF fr, BankTyped, IdsInv
      <3> QED BY <3>5, <3>6
    <2> QED BY <2>1, <2>2 DEF DeleteFrom
  <1>3. CallTyped'
    BY <1>1, <1>2 DEF CallTyped, FramesTyped
  <1> QED BY <1>1, <1>3 DEF BankTyped, BankInv, Readable

(* The group whose deletion is the innermost is in the tree, and its       *)
(* directory is not the bank's.                                            *)
LEMMA InLoopTyped ==
  ASSUME BankTyped, InLoop
  PROVE  /\ run = "on" /\ call.op # "updateGroup"
         /\ FramesTyped(call.frames) /\ call.frames # <<>>
         /\ top \in Frame /\ top.at \in DOMAIN tree \ {<<>>}
         /\ tree[top.at].path \in Path /\ tree[top.at].path # RootPath
  <1>1. FramesTyped(call.frames) /\ call.frames # <<>> /\ call.op # "updateGroup"
    BY DEF BankTyped, BankInv, CallTyped, FramesTyped, InLoop
  <1>2. run = "on"
    BY <1>1 DEF BankTyped, IdsInv, NoCall
  <1>3. top \in Frame /\ top.at \in DOMAIN tree \ {<<>>}
    BY <1>1, FrontOfFrames DEF top
  <1> QED BY <1>1, <1>2, <1>3 DEF BankTyped, BankInv, TreeTyped, Node

(* deleteGroup() on its way down. *)
LEMMA DeleteTyped ==
  ASSUME BankTyped, DeleteTry \/ DeleteTurn
  PROVE  BankInv'
  <1>1. CASE DeleteTry
    <2>1. PICK p : call.op = "deleteGroup" /\ DeleteFrom(p, call.id, call.todo \ {p}, <<>>)
      BY <1>1 DEF DeleteTry
    <2>2. FramesTyped(<<>>)
      BY NoFrames DEF FramesTyped
    <2>3. call.op # "updateGroup"
      BY <2>1
    <2> QED BY <2>1, <2>2, <2>3, DeleteFromTyped
  <1>2. CASE DeleteTurn
    <2> DEFINE next == [top EXCEPT !.turn = @ + 1]
               frames == Append(Front(call.frames), next)
    <2>1. PICK id : DeleteFrom(top.at, id, call.todo, frames)
      BY <1>2 DEF DeleteTurn
    <2>2. /\ call.op # "updateGroup" /\ FramesTyped(call.frames) /\ call.frames # <<>>
          /\ top \in Frame /\ top.at \in DOMAIN tree \ {<<>>}
      BY <1>2, InLoopTyped DEF DeleteTurn
    <2>3. /\ FramesTyped(Front(call.frames))
          /\ \A i \in 1..Len(Front(call.frames)) : Len(Front(call.frames)[i].at) < Len(top.at)
      BY <2>2, FrontOfFrames DEF top
    <2>4. next \in Frame /\ next.at = top.at
      BY <2>2 DEF Frame
    <2> HIDE DEF next
    <2>5. FramesTyped(frames)
      BY <2>2, <2>3, <2>4, AppendFrame
    <2>6. frames # <<>> /\ Last(frames) = next
      BY <2>3, <2>4, FrontOfAppend DEF FramesTyped
    <2> HIDE DEF frames
    <2> QED BY <2>1, <2>2, <2>4, <2>5, <2>6, DeleteFromTyped
  <1> QED BY <1>1, <1>2

(* deleteGroup() removes a directory and its group, fails to, or the       *)
(* process dies in it: the groups of the calls around it keep their        *)
(* positions.                                                              *)
LEMMA RemovedTyped ==
  ASSUME BankTyped, DeleteEnds \/ DeleteFails \/ CrashInRemove
  PROVE  BankInv'
  <1>1. InLoop /\ Removing /\ idsFile' = idsFile
    BY DEF DeleteEnds, DeleteFails, CrashInRemove, Removing
  <1>2. RemoveAll(tree[top.at].path) \/ RemovePart(tree[top.at].path)
    BY DEF DeleteEnds, DeleteFails, CrashInRemove
  <1>3. /\ run = "on" /\ call.op # "updateGroup"
        /\ FramesTyped(call.frames) /\ call.frames # <<>>
        /\ top \in Frame /\ top.at \in DOMAIN tree \ {<<>>}
        /\ tree[top.at].path \in Path /\ tree[top.at].path # RootPath
    BY <1>1, InLoopTyped
  <1>4. /\ DirsTyped(dirs') /\ FilesTyped(dirs', files')
        /\ DOMAIN files' \subseteq DOMAIN files
        /\ \A f \in DOMAIN files' : files'[f] = files[f]
        /\ RootPath \in dirs => RootPath \in dirs'
    BY <1>2, <1>3, RemoveTyped DEF BankTyped, BankInv
  <1>5. Readable' /\ RootPath \in dirs'
    BY <1>1, <1>3, <1>4 DEF BankTyped, BankInv, Readable
  <1>6. CASE Ended
    BY <1>3, <1>4, <1>6, EndedBank
  <1>7. CASE tree' = WithoutGroup(tree, top.at) /\ run' = run
             /\ (call' = NoCall \/ call' = [call EXCEPT !.frames = Front(@)])
    <2>1. /\ TreeTyped(tree')
          /\ \A r \in DOMAIN tree : Len(r) < Len(top.at) => r \in DOMAIN tree'
      BY <1>3, <1>7, WithoutGroupTyped DEF BankTyped, BankInv
    <2>2. CallTyped'
      <3>1. CASE call' = NoCall
        BY <3>1, CallKept
      <3>2. CASE call' = [call EXCEPT !.frames = Front(@)]
        <4>1. call'.op = call.op /\ call'.frames = Front(call.frames)
          BY <3>2 DEF BankTyped, IdsInv
        <4>2. /\ FramesTyped(Front(call.frames))
              /\ \A i \in 1..Len(Front(call.frames)) :
                   /\ Front(call.frames)[i].at \in DOMAIN tree \ {<<>>}
                   /\ Len(Front(call.frames)[i].at) < Len(top.at)
          BY <1>3, FrontOfFrames DEF top
        <4> QED BY <1>3, <2>1, <4>1, <4>2 DEF CallTyped, FramesTyped
      <3> QED BY <1>7, <3>1, <3>2
    <2> QED BY <1>4, <1>5, <2>1, <2>2 DEF BankInv
  <1>8. CASE tree' = tree /\ run' = run /\ call' = [call EXCEPT !.frames = Front(@)]
    <2>1. call'.op = call.op /\ call'.frames = Front(call.frames)
      BY <1>8 DEF BankTyped, IdsInv
    <2>2. FramesTyped(Front(call.frames))
      BY <1>3, FrontOfFrames
    <2>3. CallTyped'
      BY <1>3, <1>8, <2>1, <2>2 DEF CallTyped, FramesTyped
    <2> QED BY <1>4, <1>5, <1>8, <2>3 DEF BankTyped, BankInv
  <1> QED BY <1>6, <1>7, <1>8 DEF DeleteEnds, DeleteFails, CrashInRemove, ReturnTrue

(* updateGroup() renames a group, its id in m_ptrIds and its directory, or *)
(* fails after the first two.                                              *)
LEMMA UpdateTyped ==
  ASSUME BankTyped, UpdateTry
  PROVE  BankInv'
  <1>1. PICK p \in Firsts(call.todo) :
          \/ /\ Found(p, call.id) = {} /\ UNCHANGED <<dirs, files, tree>>
             /\ call' = [call EXCEPT !.todo = @ \ {p}]
          \/ \E q \in Found(p, call.id) :
               /\ tree' = [tree EXCEPT ![q].name = call.name]
               /\ \/ /\ CanRename(tree[q].path, Append(tree[p].path, call.name))
                     /\ Rename(tree[q].path, Append(tree[p].path, call.name))
                     /\ call' = NoCall
                  \/ UNCHANGED <<dirs, files>> /\ call' = [call EXCEPT !.todo = @ \ {p}]
    BY DEF UpdateTry, ReturnTrue
  <1>2. /\ run = "on" /\ call.name \in Names /\ UNCHANGED <<run, idsFile>>
        /\ p \in DOMAIN tree /\ CallTyped /\ call.op = "updateGroup"
    BY <1>1 DEF UpdateTry, BankTyped, IdsInv, BankInv, CallTyped, NoCall, Firsts
  <1>3. TreeTyped(tree') /\ DOMAIN tree' = DOMAIN tree
    <2>1. call.name \in AnyName
      BY <1>2 DEF AnyName
    <2> QED BY <1>1, <2>1, ExceptTyped DEF BankTyped, BankInv
  <1>4. CallTyped'
    <2>1. CASE call' = NoCall
      BY <2>1, CallKept
    <2>2. CASE call' = [call EXCEPT !.todo = @ \ {p}]
      <3>1. call'.op = call.op /\ call'.frames = call.frames /\ call'.todo = call.todo \ {p}
        BY <2>2 DEF BankTyped, IdsInv
      <3> QED BY <1>2, <1>3, <3>1 DEF CallTyped
    <2> QED BY <1>1, <2>1, <2>2
  <1>5. CASE UNCHANGED <<dirs, files>>
    BY <1>2, <1>3, <1>4, <1>5 DEF BankTyped, BankInv, Readable
  <1>6. ASSUME NEW q \in Found(p, call.id),
               CanRename(tree[q].path, Append(tree[p].path, call.name)),
               Rename(tree[q].path, Append(tree[p].path, call.name))
        PROVE  BankInv'
    <2>1. q \in DOMAIN tree \ {<<>>}
      <3>1. q \in Subgroups(tree, p)
        BY DEF Found, Firsts
      <3> QED BY <3>1, SubgroupsCounted DEF BankTyped, BankInv
    <2>2. tree[q].path \in Path /\ tree[q].path # RootPath /\ tree[p].path \in Path
      BY <1>2, <2>1 DEF BankTyped, BankInv, TreeTyped, Node
    <2>3. Append(tree[p].path, call.name) \in Path
      BY <1>2, <2>2, LongerPath
    <2>4. /\ DirsTyped(dirs') /\ FilesTyped(dirs', files')
          /\ \A f \in DOMAIN files' : \E g \in DOMAIN files : files'[f] = files[g]
          /\ RootPath \in dirs => RootPath \in dirs'
      BY <1>6, <2>2, <2>3, RenameTyped DEF BankTyped, BankInv
    <2> QED BY <1>2, <1>3, <1>4, <2>4 DEF BankTyped, BankInv, Readable
  <1> QED BY <1>1, <1>5, <1>6

(* addGroup() makes a group and its directory, or the process aborts. *)
LEMMA AddGroupTyped ==
  ASSUME BankTyped, NEW pid, NEW n \in Names, NEW id \in Ids, AddGroup(pid, n, id)
  PROVE  BankInv'
  <1>1. Idle /\ UNCHANGED <<files, idsFile>>
    BY DEF AddGroup
  <1>2. CASE UNCHANGED <<run, memory, dirs>>
    BY <1>1, <1>2 DEF memory, BankTyped, BankInv, CallTyped, Readable
  <1>3. ASSUME NEW p \in Firsts(Tried(pid)), AddGroupTo(p, n, id)
        PROVE  BankInv'
    <2> DEFINE path == Append(tree[p].path, n)
    <2>1. p \in DOMAIN tree
      BY DEF Firsts, Tried
    <2>2. /\ path \in Path /\ path # RootPath /\ Front(path) = tree[p].path
      BY <2>1, LongerPath, PathProperties DEF BankTyped, BankInv, TreeTyped, Node
    <2> HIDE DEF path
    <2>3. CASE Ended /\ UNCHANGED dirs
      BY <1>1, <2>3, EndedBank DEF Idle, BankTyped, BankInv
    <2>4. CASE /\ CanCreate(path)
               /\ tree' = WithSubgroup(tree, p, Group(n, id, path))
               /\ dirs' = dirs \cup {path} /\ call' = NoCall /\ run' = run
      <3>1. Group(n, id, path) \in Node /\ Group(n, id, path).path = path
        BY <2>2, NodeTyped DEF AnyName
      <3>2. TreeTyped(tree')
        BY <2>1, <2>2, <2>4, <3>1, WithSubgroupTyped DEF BankTyped, BankInv
      <3>3. DirsTyped(dirs')
        <4>1. IsFiniteSet(dirs \cup {path})
          BY FS_AddElement DEF BankTyped, BankInv, DirsTyped
        <4>2. path \in dirs \/ Front(path) \in dirs
          BY <2>4 DEF CanCreate
        <4> QED BY <2>2, <2>4, <4>1, <4>2 DEF BankTyped, BankInv, DirsTyped
      <3>4. FilesTyped(dirs', files')
        BY <1>1, <2>4 DEF BankTyped, BankInv, FilesTyped
      <3> QED BY <1>1, <2>4, <3>2, <3>3, <3>4, CallKept DEF BankTyped, BankInv, Readable
    <2> QED BY <1>3, <2>3, <2>4 DEF AddGroupTo, ReturnTrue, path
  <1> QED BY <1>2, <1>3 DEF AddGroup

(* A kill leaves a disk that can be loaded, or one that cannot be read. *)
LEMMA KilledTyped ==
  ASSUME BankTyped, Crash \/ CrashInSave \/ CrashInClose
  PROVE  BankInv'
  <1>1. Ended /\ run \in {"on", "closing"} /\ dirs' = dirs
    BY DEF Crash, CrashInSave, CrashInClose, Idle, Closing, disk
  <1>2. CASE files' = files
    BY <1>1, <1>2, EndedBank DEF BankTyped, BankInv
  <1>3. CASE CrashInClose
    <2>1. PICK p \in DOMAIN tree :
            LET c == Head(tree[p].ctx)
            IN /\ Closing(p) /\ c.items # <<>> /\ c.file[1] \in dirs
               /\ \E content \in Torn(c.items) : files' = Put(files, c.file, content)
      BY <1>3 DEF CrashInClose
    <2> DEFINE c == Head(tree[p].ctx)
    <2>2. tree[p].ctx \in Seq(Ctx) /\ tree[p].ctx # <<>>
      BY <2>1 DEF Closing, BankTyped, BankInv, TreeTyped, Node
    <2>3. c \in Ctx
      BY <2>2, HeadTailProperties
    <2>4. PICK content \in Torn(c.items) : files' = Put(files, c.file, content)
      BY <2>1
    <2>5. c.file \in dirs \X Ids /\ content \in FileContent
      BY <2>1, <2>3, StoredTyped DEF Ctx
    <2> HIDE DEF c
    <2>6. FilesTyped(dirs, files')
      BY <2>4, <2>5, FilesPut DEF BankTyped, BankInv
    <2> QED BY <1>1, <2>6, EndedBank DEF BankTyped, BankInv
  <1> QED BY <1>2, <1>3 DEF Crash, CrashInSave, disk

(* Every step keeps the bank's shape. *)
LEMMA BankStep ==
  ASSUME BankTyped, [Step]_vars
  PROVE  BankTyped'
  <1>1. IdsInv'
    BY IdsStep DEF BankTyped
  <1> SUFFICES BankInv'
    BY <1>1 DEF BankTyped
  <1>2. CASE Quit
    <2>1. /\ run' = "closing" /\ Idle /\ UNCHANGED <<tree, call, dirs, files>>
          /\ idsFile'.ok
      BY <1>2 DEF Quit, Stored
    <2> QED BY <2>1 DEF Idle, BankTyped, BankInv, CallTyped, Readable
  <1>3. CASE QuitFailed
    BY <1>3 DEF QuitFailed, memory, disk, BankTyped, BankInv, CallTyped, Readable
  <1>4. CASE Closed
    BY <1>4, EndedBank DEF Closed, disk, BankTyped, BankInv
  <1>5. CASE CallFails
    BY <1>5, CallKept DEF CallFails, ReturnFalse, disk, BankTyped, BankInv, Readable
  <1>6. CASE GoOn
    BY <1>4, <1>5, <1>6, CloseFileTyped, DeleteTyped, RemovedTyped, UpdateTyped DEF GoOn
  <1>7. CASE Killed
    BY <1>7, KilledTyped, RemovedTyped DEF Killed
  <1>8. ASSUME NEW pid, NEW id, NEW mayFail, DeleteGroup(pid, id, mayFail)
        PROVE  BankInv'
    <2>1. /\ UNCHANGED <<run, tree, dirs, files, idsFile>>
          /\ call'.op = "deleteGroup" /\ call'.frames = <<>>
      BY <1>8 DEF DeleteGroup, disk, NoCall
    <2>2. CallTyped'
      BY <2>1, NoFrames DEF CallTyped
    <2> QED BY <2>1, <2>2 DEF BankTyped, BankInv, Readable
  <1>9. ASSUME NEW pid, NEW id, NEW mayFail, NEW n, UpdateGroup(pid, id, n, mayFail)
        PROVE  BankInv'
    <2>1. /\ UNCHANGED <<run, tree, dirs, files, idsFile>>
          /\ call'.frames = <<>> /\ call'.todo = Tried(pid)
      BY <1>9 DEF UpdateGroup, disk, NoCall
    <2>2. CallTyped'
      BY <2>1, NoFrames DEF CallTyped, Tried
    <2> QED BY <2>1, <2>2 DEF BankTyped, BankInv, Readable
  <1>10. ASSUME NEW id \in FreshIds, NEW n \in Names, NEW pid, AddGroup(pid, n, id)
         PROVE  BankInv'
    <2>1. id \in Ids
      BY DEF FreshIds
    <2> QED BY <1>10, <2>1, AddGroupTyped
  <1>11. CASE UNCHANGED vars
    BY <1>11 DEF vars, memory, disk, BankTyped, BankInv, CallTyped, Readable
  <1> QED BY <1>2, <1>3, <1>6, <1>7, <1>8, <1>9, <1>10, <1>11, StartTyped, QuestionCallTyped
          DEF Step

(* The inductive invariant implies TypeOK. *)
LEMMA BankTypedMeansTypeOK == BankTyped => TypeOK
  <1> SUFFICES ASSUME BankTyped PROVE TypeOK
    OBVIOUS
  <1>1. \A f : IdTable(f) => DOMAIN f \subseteq Ids /\ Range(f) \subseteq Names
    BY DEF IdTable, Range
  <1>2. \A p \in DOMAIN tree : tree[p].id \in Ids \cup {NoId}
    BY DEF BankTyped, BankInv, TreeTyped, Node
  <1>3. \A i \in DOMAIN call.frames : call.frames[i].at \in DOMAIN tree \ {<<>>}
    <2>1. DOMAIN call.frames = 1..Len(call.frames)
      BY LenProperties DEF BankTyped, BankInv, CallTyped
    <2> QED BY <2>1 DEF BankTyped, BankInv, CallTyped
  <1>4. \A f \in DOMAIN files : f[1] \in dirs /\ f[2] \in Ids
    BY DEF BankTyped, BankInv, FilesTyped
  <1> QED BY <1>1, <1>2, <1>3, <1>4 DEF TypeOK, BankTyped, IdsInv, BankInv, DirsTyped

(* With an unreadable file no step leads into a session or to the disk. *)
LEMMA UnreadableStep ==
  ASSUME BankTyped, [Step]_vars, ~Readable
  PROVE  run' \in {"off", "failed"} /\ UNCHANGED disk
  <1>1. run \in {"off", "failed"} /\ call = NoCall /\ RootPath \in dirs
    BY DEF BankTyped, IdsInv, BankInv
  <1>2. ~Idle
    BY <1>1 DEF Idle
  <1>3. ~GoOn
    BY <1>1 DEF GoOn, CloseFile, Closing, Closed, DeleteTry, DeleteTurn, DeleteEnds,
                DeleteFails, Removing, InLoop, UpdateTry, CallFails, NoCall
  <1>4. ~Killed
    BY <1>1, <1>2 DEF Killed, Crash, CrashInSave, CrashInClose, Closing, CrashInRemove,
                      Removing, InLoop, NoCall
  <1>5. ~QuestionCall
    BY <1>2 DEF QuestionCall, AddQuestion, DeleteQuestion, UpdateQuestion, QueryQuestion,
                OnQuestions
  <1>6. Start \/ QuitFailed \/ UNCHANGED vars
    BY <1>2, <1>3, <1>4, <1>5 DEF Step, Quit, AddGroup, DeleteGroup, UpdateGroup
  <1>7. CASE Start
    BY <1>1, <1>7 DEF Start, disk
  <1> QED BY <1>1, <1>6, <1>7 DEF QuitFailed, memory, disk, vars

(* TypeOK holds in every state of the bank: what is being deleted is in    *)
(* the tree, every directory's parent exists, every question file lies in  *)
(* a directory and is named by a group's id.                               *)
THEOREM BankTypeCorrect == Spec => []TypeOK
  <1>1. Init => BankTyped
    BY IdsInit, BankInit DEF BankTyped
  <1>2. BankTyped /\ [Next]_vars => BankTyped'
    BY NextIsStep, BankStep
  <1> QED BY <1>1, <1>2, BankTypedMeansTypeOK, PTL DEF Spec

(* TypeOK holds in every state of the bank the window works on. *)
THEOREM WindowTypeCorrect == WinSpec => []TypeOK
  <1>1. WinInit => BankTyped
    BY IdsInit, BankInit DEF BankTyped, WinInit
  <1>2. BankTyped /\ [WinNext]_winVars => BankTyped'
    BY WinNextIsStep, BankStep DEF winVars
  <1> QED BY <1>1, <1>2, BankTypedMeansTypeOK, PTL DEF WinSpec

(* From the moment a file on disk cannot be read, no session starts and    *)
(* nothing on disk changes.                                                *)
THEOREM UnreadableFilesStay == Spec => UnreadableStays
  <1>1. Init => BankTyped
    BY IdsInit, BankInit DEF BankTyped
  <1>2. BankTyped /\ [Next]_vars => BankTyped'
    BY NextIsStep, BankStep
  <1>3. BankTyped /\ [Next]_vars =>
          [~idsFile.ok \/ (\E f \in DOMAIN files : ~files[f].ok)
             => run' \in {"off", "failed"} /\ UNCHANGED disk]_vars
    BY NextIsStep, UnreadableStep DEF Readable
  <1> QED BY <1>1, <1>2, <1>3, PTL DEF Spec, UnreadableStays

(* Nor does the window change anything on disk then. *)
THEOREM WindowUnreadableFilesStay == WinSpec => UnreadableStays
  <1>1. WinInit => BankTyped
    BY IdsInit, BankInit DEF BankTyped, WinInit
  <1>2. BankTyped /\ [WinNext]_winVars => BankTyped'
    BY WinNextIsStep, BankStep DEF winVars
  <1>3. BankTyped /\ [WinNext]_winVars =>
          [~idsFile.ok \/ (\E f \in DOMAIN files : ~files[f].ok)
             => run' \in {"off", "failed"} /\ UNCHANGED disk]_vars
    BY WinNextIsStep, UnreadableStep DEF Readable, winVars
  <1> QED BY <1>1, <1>2, <1>3, PTL DEF WinSpec, UnreadableStays

-----------------------------------------------------------------------------
(* Undisturbed sessions. *)

(* Nothing was renamed, no deletion was one that may fail and no process   *)
(* was killed.                                                             *)
Undisturbed ==
  budget = [renames |-> MaxRenames, crashes |-> MaxCrashes, faults |-> MaxFaults]

(* A Release build, and names that any directory can have, the bank's own  *)
(* not among them.  Otherwise an addGroup() or a deleteGroup() may abort   *)
(* the process, which leaves what a kill leaves.                           *)
Ordinary == BadNames = {} /\ ~CheckedIterators /\ RootName \notin Names

(* A tree in which every group has a directory in that of its parent, an   *)
(* id and a path of its own, and its open files are its own.               *)
DiskTree(t) ==
  /\ Rows(t)
  /\ t[<<>>].name = RootName /\ t[<<>>].id = NoId /\ t[<<>>].path = RootPath
  /\ \A p \in DOMAIN t \ {<<>>} :
       /\ t[p].path = Append(t[Front(p)].path, t[p].name)
       /\ t[p].name \in Names /\ t[p].id \in Ids
  /\ \A p, q \in DOMAIN t : t[p].path = t[q].path => p = q
  /\ \A p, q \in DOMAIN t : t[p].id = t[q].id => p = q
  /\ \A p \in DOMAIN t : \A i \in 1..Len(t[p].ctx) :
       t[p].ctx[i].file = <<t[p].path, t[p].id>>

Paths(t) == {t[p].path : p \in DOMAIN t}

(* No two directories have one name, wherever they are. *)
OneName(ds) == \A d, e \in ds : Last(d) = Last(e) => d = e

Injective(m) == \A x, y \in DOMAIN m : m[x] = m[y] => x = y

(* The ids name the group of the question file f. *)
KnownIn(m, f) == f[2] \in DOMAIN m /\ m[f[2]] = Last(f[1])

(* The directory d belongs to the group the user deletes, or to one below. *)
Deleting(d) == call.frames # <<>> /\ IsPrefix(tree[call.frames[1].at].path, d)

(* A call of deleteGroup() tries the parent of the group that is meant,    *)
(* and then deletes it and groups below it.                                *)
CallInv ==
  /\ call.op \in {"none", "deleteGroup"}
  /\ call.op = "none" => call = NoCall
  /\ call.op = "deleteGroup" =>
       /\ call.mayFail = FALSE
       /\ call.frames = <<>> =>
            \E p \in DOMAIN tree \ {<<>>} :
              call.id = tree[p].id /\ call.todo = {Front(p)}
  /\ \A i \in 1..Len(call.frames) :
       IsPrefix(tree[call.frames[1].at].path, tree[call.frames[i].at].path)

(* During a session the tree is the tree of directories, and its groups    *)
(* are registered but for those that are being deleted.                    *)
OnInv ==
  /\ DiskTree(tree) /\ Paths(tree) = dirs
  /\ CallInv
  /\ lst = mapIds /\ Injective(mapIds)
  /\ \A p \in DOMAIN tree \ {<<>>} :
       ~BeingDeleted(p) => tree[p].id \in DOMAIN mapIds /\ mapIds[tree[p].id] = tree[p].name
  /\ \A f \in DOMAIN files :
       ~Deleting(f[1]) => KnownIn(lst, f) /\ KnownIn(idsFile.items, f)

(* Between the sessions ids.dat knows the groups and the question files.   *)
SavedInv ==
  /\ Injective(idsFile.items)
  /\ \A d \in dirs \ {RootPath} : Last(d) \in Range(idsFile.items)
  /\ \A f \in DOMAIN files : KnownIn(idsFile.items, f)

(* In uninit() it knows them already, and the tree is still there. *)
ClosingInv ==
  /\ DiskTree(tree) /\ Paths(tree) = dirs
  /\ \A p \in DOMAIN tree \ {<<>>} : tree[p].id \in DOMAIN idsFile.items
                                     /\ idsFile.items[tree[p].id] = tree[p].name

Clean ==
  /\ OneName(dirs)
  /\ run = "on" => OnInv
  /\ run # "on" => SavedInv
  /\ run = "closing" => ClosingInv

(* The inductive invariant, with BankTyped. *)
CleanInv == Undisturbed => Clean

-----------------------------------------------------------------------------
(* erase() and emplace_back() in the tree of directories. *)

(* A later sibling of q, or something below one. *)
IsAfter(q, r) ==
  Len(r) >= Len(q) /\ SubSeq(r, 1, Len(q) - 1) = Front(q) /\ r[Len(q)] > q[Len(q)]

MovedUp(q, r) == IF IsAfter(q, r) THEN [r EXCEPT ![Len(q)] = @ - 1] ELSE r

Kept(t, q) == {r \in DOMAIN t : ~IsPrefix(q, r)}

(* The position of a group after an erase(), index by index. *)
LEMMA MovedUpPointwise ==
  ASSUME NEW q \in Positions, q # <<>>, NEW r \in Positions
  PROVE  /\ IsAfter(q, r) <=> /\ Len(q) <= Len(r) /\ \A j \in 1..(Len(q) - 1) : r[j] = q[j]
                              /\ r[Len(q)] > q[Len(q)]
         /\ MovedUp(q, r) \in Positions /\ Len(MovedUp(q, r)) = Len(r)
         /\ \A j \in 1..Len(r) : MovedUp(q, r)[j] =
              IF IsAfter(q, r) /\ j = Len(q) THEN r[j] - 1 ELSE r[j]
  <1> DEFINE n == Len(q) - 1
  <1>1. /\ q \in Seq(Nat) /\ r \in Seq(Nat) /\ Len(r) \in Nat
        /\ \A j \in 1..Len(r) : r[j] \in Nat
    BY LenProperties, ElementOfSeq DEF Positions
  <1>2. /\ Front(q) \in Seq(Nat) /\ Len(q) \in Nat \ {0}
        /\ Len(Front(q)) = n /\ n \in Nat
        /\ \A i \in 1..n : Front(q)[i] = q[i]
        /\ q[Len(q)] \in Nat
    <2>1. /\ Front(q) \in Seq(Nat) /\ Len(q) \in Nat \ {0}
          /\ Len(Front(q)) = Len(q) - 1
          /\ \A i \in 1..(Len(q) - 1) : Front(q)[i] = q[i]
          /\ Last(q) = q[Len(q)] /\ Last(q) \in Nat
      BY <1>1, FrontProperties
    <2>2. n \in Nat
      BY <2>1
    <2> QED BY <2>1, <2>2
  <1>3. IsAfter(q, r) <=> /\ Len(q) <= Len(r) /\ \A j \in 1..n : r[j] = q[j]
                          /\ r[Len(q)] > q[Len(q)]
    <2> SUFFICES ASSUME Len(q) <= Len(r)
                 PROVE  SubSeq(r, 1, n) = Front(q) <=> \A j \in 1..n : r[j] = q[j]
      BY <1>1, <1>2 DEF IsAfter
    <2>1. /\ SubSeq(r, 1, n) \in Seq(Nat)
          /\ Len(SubSeq(r, 1, n)) = n
          /\ \A i \in 1..n : SubSeq(r, 1, n)[i] = r[i]
      <3>1. n \in Nat /\ \A i \in 1..n : r[i] \in Nat
        BY <1>1, <1>2
      <3> HIDE DEF n
      <3>2. /\ SubSeq(r, 1, n) \in Seq(Nat)
            /\ Len(SubSeq(r, 1, n)) = IF 1 <= n THEN n - 1 + 1 ELSE 0
            /\ \A i \in 1..(n - 1 + 1) : SubSeq(r, 1, n)[i] = r[1 + i - 1]
        BY <3>1, SubSeqProperties
      <3> QED BY <3>1, <3>2
    <2> DEFINE s == SubSeq(r, 1, n)
    <2>2. s \in Seq(Nat) /\ Len(s) = n /\ \A i \in 1..n : s[i] = r[i]
      BY <2>1
    <2> HIDE DEF s, n
    <2>3. s = Front(q) <=> \A j \in 1..n : r[j] = q[j]
      BY <1>2, <2>2, SeqEqual
    <2> QED BY <2>3 DEF s
  <1>4. CASE IsAfter(q, r)
    <2>1. Len(q) \in 1..Len(r) /\ r[Len(q)] - 1 \in Nat
      BY <1>1, <1>2, <1>3, <1>4
    <2>2. MovedUp(q, r) = [r EXCEPT ![Len(q)] = r[Len(q)] - 1]
      BY <1>4 DEF MovedUp
    <2>3. /\ [r EXCEPT ![Len(q)] = r[Len(q)] - 1] \in Seq(Nat)
          /\ Len([r EXCEPT ![Len(q)] = r[Len(q)] - 1]) = Len(r)
          /\ \A j \in 1..Len(r) : [r EXCEPT ![Len(q)] = r[Len(q)] - 1][j]
                                    = IF j = Len(q) THEN r[Len(q)] - 1 ELSE r[j]
      BY <1>1, <2>1, ExceptSeq
    <2> QED BY <1>3, <1>4, <2>2, <2>3 DEF Positions
  <1>5. CASE ~IsAfter(q, r)
    BY <1>1, <1>3, <1>5 DEF MovedUp, Positions
  <1> QED BY <1>4, <1>5

(* A group below another one, index by index. *)
LEMMA PrefixOfPosition ==
  ASSUME NEW q \in Positions, NEW r \in Positions
  PROVE  IsPrefix(q, r) <=> Len(q) <= Len(r) /\ \A i \in 1..Len(q) : q[i] = r[i]
  BY PrefixPointwise DEF Positions

(* No two groups move to one position. *)
LEMMA MovedUpInjective ==
  ASSUME NEW q \in Positions, q # <<>>, NEW r \in Positions, NEW s \in Positions,
         ~IsPrefix(q, r), ~IsPrefix(q, s), MovedUp(q, r) = MovedUp(q, s)
  PROVE  r = s
  <1>1. /\ Len(q) \in Nat \ {0} /\ Len(r) \in Nat /\ Len(s) \in Nat
        /\ \A j \in 1..Len(q) : q[j] \in Nat
        /\ \A j \in 1..Len(r) : r[j] \in Nat
        /\ \A j \in 1..Len(s) : s[j] \in Nat
    BY LenProperties, ElementOfSeq, EmptySeq DEF Positions
  <1>2. /\ Len(r) = Len(s)
        /\ \A j \in 1..Len(r) :
             (IF IsAfter(q, r) /\ j = Len(q) THEN r[j] - 1 ELSE r[j])
               = (IF IsAfter(q, s) /\ j = Len(q) THEN s[j] - 1 ELSE s[j])
    BY MovedUpPointwise
  <1>3. ASSUME NEW a \in Positions, NEW b \in Positions, ~IsPrefix(q, b), Len(a) = Len(b),
               \A j \in 1..Len(a) : j # Len(q) => a[j] = b[j],
               IsAfter(q, a), ~IsAfter(q, b)
        PROVE  ~(a[Len(q)] - 1 = b[Len(q)])
    <2>1. /\ Len(a) \in Nat /\ (\A j \in 1..Len(a) : a[j] \in Nat)
          /\ Len(b) \in Nat /\ (\A j \in 1..Len(b) : b[j] \in Nat)
      BY LenProperties, ElementOfSeq DEF Positions
    <2>2. /\ Len(q) <= Len(a) /\ \A j \in 1..(Len(q) - 1) : a[j] = q[j]
          /\ a[Len(q)] > q[Len(q)]
      BY <1>3, MovedUpPointwise
    <2>3. \A j \in 1..(Len(q) - 1) : b[j] = q[j]
      BY <1>1, <1>3, <2>1, <2>2
    <2>4. ~(b[Len(q)] > q[Len(q)])
      BY <1>1, <1>3, <2>1, <2>2, <2>3, MovedUpPointwise
    <2>5. b[Len(q)] # q[Len(q)]
      <3> SUFFICES ASSUME b[Len(q)] = q[Len(q)] PROVE FALSE
        OBVIOUS
      <3>1. \A j \in 1..Len(q) : q[j] = b[j]
        BY <1>1, <2>3
      <3> QED BY <1>3, <2>2, <3>1, PrefixOfPosition
    <2>6. Len(q) \in 1..Len(a) /\ Len(q) \in 1..Len(b) /\ Len(q) \in 1..Len(q)
      BY <1>1, <1>3, <2>1, <2>2
    <2> QED BY <1>1, <2>1, <2>2, <2>4, <2>5, <2>6
  <1>4. \A j \in 1..Len(r) : j # Len(q) => r[j] = s[j]
    BY <1>2
  <1>5. CASE Len(q) \notin 1..Len(r)
    <2>1. \A j \in 1..Len(r) : r[j] = s[j]
      BY <1>4, <1>5
    <2> QED BY <1>2, <2>1, SeqEqual DEF Positions
  <1>6. CASE Len(q) \in 1..Len(r)
    <2>1. IsAfter(q, r) <=> IsAfter(q, s)
      BY <1>2, <1>3, <1>4, <1>6
    <2>2. r[Len(q)] = s[Len(q)]
      BY <1>1, <1>2, <1>6, <2>1
    <2>3. \A j \in 1..Len(r) : r[j] = s[j]
      BY <1>4, <2>2
    <2> QED BY <1>2, <2>3, SeqEqual DEF Positions
  <1> QED BY <1>5, <1>6

(* The parent of what moves moves with it. *)
LEMMA MovedUpFront ==
  ASSUME NEW q \in Positions, q # <<>>, NEW r \in Positions, r # <<>>
  PROVE  /\ MovedUp(q, r) # <<>>
         /\ Front(MovedUp(q, r)) = MovedUp(q, Front(r))
         /\ Last(MovedUp(q, r)) = IF Len(r) = Len(q) /\ IsAfter(q, r) THEN Last(r) - 1 ELSE Last(r)
  <1> DEFINE f == Front(r)
             m == MovedUp(q, r)
             g == MovedUp(q, f)
  <1>1. /\ Len(q) \in Nat \ {0} /\ Len(r) \in Nat \ {0} /\ f \in Positions
        /\ Len(f) = Len(r) - 1 /\ \A i \in 1..(Len(r) - 1) : f[i] = r[i]
        /\ Last(r) = r[Len(r)]
    BY FrontProperties, EmptySeq DEF Positions
  <1>2. /\ m \in Positions /\ Len(m) = Len(r)
        /\ \A j \in 1..Len(r) : m[j] = IF IsAfter(q, r) /\ j = Len(q) THEN r[j] - 1 ELSE r[j]
    BY MovedUpPointwise
  <1>3. /\ g \in Positions /\ Len(g) = Len(f)
        /\ \A j \in 1..Len(f) : g[j] = IF IsAfter(q, f) /\ j = Len(q) THEN f[j] - 1 ELSE f[j]
    <2> HIDE DEF f
    <2> QED BY <1>1, MovedUpPointwise
  <1>4. Len(q) <= Len(f) => (IsAfter(q, f) <=> IsAfter(q, r))
    <2>1. /\ IsAfter(q, r) <=> /\ Len(q) <= Len(r) /\ \A j \in 1..(Len(q) - 1) : r[j] = q[j]
                               /\ r[Len(q)] > q[Len(q)]
          /\ IsAfter(q, f) <=> /\ Len(q) <= Len(f) /\ \A j \in 1..(Len(q) - 1) : f[j] = q[j]
                               /\ f[Len(q)] > q[Len(q)]
      <3> HIDE DEF f
      <3> QED BY <1>1, MovedUpPointwise
    <2> HIDE DEF f
    <2> QED BY <1>1, <2>1
  <1> HIDE DEF f, m, g
  <1>5. m # <<>>
    BY <1>1, <1>2, EmptySeq
  <1>6. /\ Front(m) \in Seq(Nat) /\ Len(Front(m)) = Len(m) - 1
        /\ \A i \in 1..(Len(m) - 1) : Front(m)[i] = m[i]
        /\ Last(m) = m[Len(m)]
    BY <1>2, <1>5, FrontProperties DEF Positions
  <1>7. ASSUME NEW j \in 1..Len(f) PROVE Front(m)[j] = g[j]
    <2>1. j \in 1..(Len(m) - 1) /\ j \in 1..Len(r) /\ f[j] = r[j] /\ Front(m)[j] = m[j]
      BY <1>1, <1>2, <1>6
    <2>2. CASE j = Len(q)
      <3>1. Len(q) <= Len(f)
        BY <1>1, <2>2
      <3> QED BY <1>2, <1>3, <1>4, <2>1, <2>2, <3>1
    <2>3. CASE j # Len(q)
      BY <1>2, <1>3, <2>1, <2>3
    <2> QED BY <2>2, <2>3
  <1>8. Front(m) = g
    BY <1>1, <1>2, <1>3, <1>6, <1>7, SeqEqual DEF Positions
  <1>9. Last(m) = IF Len(r) = Len(q) /\ IsAfter(q, r) THEN Last(r) - 1 ELSE Last(r)
    BY <1>1, <1>2, <1>6
  <1> QED BY <1>5, <1>8, <1>9 DEF f, m, g

(* erase() of a group: the others keep their data, each has a position of  *)
(* its own, its parent is the group that was, and no group further up      *)
(* moves.                                                                  *)
LEMMA WithoutGroupNodes ==
  ASSUME NEW t, TreeTyped(t), Rows(t), NEW q \in DOMAIN t \ {<<>>},
         NEW u, u = WithoutGroup(t, q)
  PROVE  /\ \A s : s \in DOMAIN u <=> \E r \in Kept(t, q) : s = MovedUp(q, r)
         /\ \A r \in Kept(t, q) : u[MovedUp(q, r)] = t[r]
         /\ \A r, s \in Kept(t, q) : MovedUp(q, r) = MovedUp(q, s) => r = s
         /\ \A r \in Kept(t, q) \ {<<>>} :
              /\ Front(r) \in Kept(t, q) /\ MovedUp(q, r) # <<>>
              /\ Front(MovedUp(q, r)) = MovedUp(q, Front(r))
         /\ \A r \in DOMAIN t : Len(r) < Len(q) => r \in Kept(t, q) /\ MovedUp(q, r) = r
         /\ <<>> \in Kept(t, q) /\ MovedUp(q, <<>>) = <<>>
  <1> DEFINE kept == Kept(t, q)
             v == [s \in {MovedUp(q, r) : r \in kept} |-> t[CHOOSE r \in kept : MovedUp(q, r) = s]]
  <1>1. u = v
    BY DEF WithoutGroup, Kept, MovedUp, IsAfter
  <1>2. /\ \A r \in DOMAIN t : r \in Positions
        /\ q \in Positions /\ q # <<>> /\ Len(q) \in Nat \ {0}
    BY EmptySeq DEF TreeTyped, Positions
  <1>3. \A r \in kept : r \in DOMAIN t /\ ~IsPrefix(q, r)
    BY DEF Kept
  <1>4. \A r, s \in kept : MovedUp(q, r) = MovedUp(q, s) => r = s
    BY <1>2, <1>3, MovedUpInjective
  <1>5. ASSUME NEW r \in kept PROVE v[MovedUp(q, r)] = t[r]
    <2>1. \E s \in kept : MovedUp(q, s) = MovedUp(q, r)
      OBVIOUS
    <2>2. (CHOOSE s \in kept : MovedUp(q, s) = MovedUp(q, r)) = r
      BY <1>4, <2>1
    <2> QED BY <2>2
  <1>6. ASSUME NEW r \in kept \ {<<>>}
        PROVE  /\ Front(r) \in kept /\ MovedUp(q, r) # <<>>
               /\ Front(MovedUp(q, r)) = MovedUp(q, Front(r))
    <2>1. Front(r) \in DOMAIN t
      BY <1>3 DEF Rows
    <2>2. IsPrefix(q, Front(r)) => IsPrefix(q, r)
      BY <1>2, <1>3, PrefixOfFront DEF Positions
    <2>3. MovedUp(q, r) # <<>> /\ Front(MovedUp(q, r)) = MovedUp(q, Front(r))
      BY <1>2, <1>3, MovedUpFront
    <2> QED BY <1>3, <2>1, <2>2, <2>3 DEF Kept
  <1>7. ASSUME NEW r \in DOMAIN t, Len(r) < Len(q)
        PROVE  r \in kept /\ MovedUp(q, r) = r
    <2>1. Len(r) \in Nat
      BY <1>2, LenProperties DEF Positions
    <2> QED BY <1>2, <1>7, <2>1 DEF Kept, MovedUp, IsAfter, IsPrefix
  <1>8. <<>> \in kept /\ MovedUp(q, <<>>) = <<>>
    <2>1. Len(<<>>) = 0 /\ <<>> \in DOMAIN t
      BY DEF TreeTyped
    <2> QED BY <1>2, <1>7, <2>1
  <1> HIDE DEF kept
  <1>9. DOMAIN v = {MovedUp(q, r) : r \in kept}
    OBVIOUS
  <1> QED BY <1>1, <1>4, <1>5, <1>6, <1>7, <1>8, <1>9 DEF kept

(* erase() closes the gap in the row of the group. *)
LEMMA WithoutGroupRows ==
  ASSUME NEW t, TreeTyped(t), Rows(t), NEW q \in DOMAIN t \ {<<>>}
  PROVE  Rows(WithoutGroup(t, q))
  <1> DEFINE u == WithoutGroup(t, q)
             kept == Kept(t, q)
             M(r) == MovedUp(q, r)
  <1>1. /\ \A s : s \in DOMAIN u <=> \E r \in kept : s = M(r)
        /\ \A r, s \in kept : M(r) = M(s) => r = s
        /\ \A r \in kept \ {<<>>} : /\ Front(r) \in kept /\ M(r) # <<>>
                                    /\ Front(M(r)) = M(Front(r))
        /\ <<>> \in kept /\ M(<<>>) = <<>>
    <2> HIDE DEF u
    <2>1. u = WithoutGroup(t, q)
      BY DEF u
    <2> QED BY <2>1, WithoutGroupNodes
  <1>2. /\ \A r \in DOMAIN t : r \in Positions
        /\ q \in Positions /\ q # <<>> /\ q \in Seq(Nat)
        /\ \A r \in kept : r \in DOMAIN t /\ ~IsPrefix(q, r)
    BY DEF TreeTyped, Positions, Kept
  <1> SUFFICES ASSUME NEW r \in kept \ {<<>>}
               PROVE  /\ Front(M(r)) \in DOMAIN u
                      /\ Last(M(r)) \in 1..Cardinality(Subgroups(u, Front(M(r))))
    <2> HIDE DEF M, u, kept
    <2>1. \A s \in DOMAIN u \ {<<>>} : \E r \in kept \ {<<>>} : s = M(r)
      BY <1>1
    <2>2. Rows(u)
      BY <2>1 DEF Rows
    <2> QED BY <2>2 DEF u
  <1> DEFINE P == Front(r)
             S == Subgroups(t, P) \cap kept
  <1>3. P \in kept /\ M(r) # <<>> /\ Front(M(r)) = M(P)
    BY <1>1
  <1>4. Subgroups(u, M(P)) = {M(x) : x \in S}
    <2> HIDE DEF M, u, kept
    <2>1. ASSUME NEW x \in S PROVE M(x) \in Subgroups(u, M(P))
      <3>1. x \in kept \ {<<>>} /\ Front(x) = P
        BY DEF Subgroups
      <3> QED BY <1>1, <3>1 DEF Subgroups
    <2>2. ASSUME NEW s \in Subgroups(u, M(P)) PROVE \E x \in S : s = M(x)
      <3>1. PICK x \in kept \ {<<>>} : s = M(x)
        BY <1>1 DEF Subgroups
      <3>2. M(Front(x)) = M(P) /\ Front(x) \in kept
        BY <1>1, <3>1 DEF Subgroups
      <3>3. Front(x) = P
        BY <1>1, <1>3, <3>2
      <3> QED BY <1>2, <3>1, <3>3 DEF Subgroups
    <2> QED BY <2>1, <2>2
  <1>5. IsFiniteSet(Subgroups(t, P)) /\ IsFiniteSet(S)
    <2>1. Subgroups(t, P) \subseteq DOMAIN t /\ IsFiniteSet(DOMAIN t)
      BY DEF Subgroups, TreeTyped
    <2>2. IsFiniteSet(Subgroups(t, P))
      BY <2>1, FS_Subset
    <2> QED BY <2>2, FS_Subset
  <1>6. Cardinality(Subgroups(u, M(P))) = Cardinality(S)
    <2> HIDE DEF M, u, P, kept
    <2> DEFINE g == [x \in S |-> M(x)]
               T == {M(x) : x \in S}
    <2>1. g \in Injection(S, T) /\ g \in Surjection(S, T)
      BY <1>1 DEF Injection, Surjection, IsInjective
    <2>2. Cardinality(T) = Cardinality(S)
      <3> HIDE DEF g, T
      <3> QED BY <1>5, <2>1, FS_Surjection
    <2> QED BY <1>4, <2>2
  <1>7. /\ r \in Subgroups(t, P) /\ r \in Positions /\ r \in DOMAIN t
        /\ Last(r) \in 1..Cardinality(Subgroups(t, P))
    BY <1>2 DEF Subgroups, Rows
  <1>8. Cardinality(Subgroups(t, P)) \in Nat
    BY <1>5, FS_CardinalityType
  <1>9. \A x : x \in Subgroups(t, P) =>
               x \in Positions /\ x # <<>> /\ x \in DOMAIN t /\ Front(x) = P
    BY <1>2 DEF Subgroups
  <1>10. Last(M(r)) = IF Len(r) = Len(q) /\ IsAfter(q, r) THEN Last(r) - 1 ELSE Last(r)
    BY <1>2, <1>7, MovedUpFront
  <1>11. CASE P # Front(q)
    <2>1. ASSUME NEW x \in Subgroups(t, P) PROVE x \in kept
      <3>1. x # q
        BY <1>9, <1>11
      <3>2. IsPrefix(q, x) => x = q \/ IsPrefix(q, P)
        BY <1>2, <1>9, PrefixOfFront DEF Positions
      <3> QED BY <1>2, <1>3, <1>9, <3>1, <3>2 DEF Kept
    <2>2. S = Subgroups(t, P)
      BY <2>1
    <2>3. ~(Len(r) = Len(q) /\ IsAfter(q, r))
      <3> SUFFICES ASSUME Len(r) = Len(q), IsAfter(q, r) PROVE FALSE
        OBVIOUS
      <3>1. SubSeq(r, 1, Len(r) - 1) = Front(q)
        BY DEF IsAfter
      <3> QED BY <1>11, <3>1 DEF Front
    <2> HIDE DEF M, u, kept, P
    <2> QED BY <1>1, <1>3, <1>6, <1>7, <1>10, <2>2, <2>3
  <1>12. CASE P = Front(q)
    <2>1. S = Subgroups(t, P) \ {q}
      <3>1. IsPrefix(q, q)
        BY <1>2, PrefixOfPosition
      <3>2. ASSUME NEW x \in Subgroups(t, P), x # q PROVE x \in kept
        <4>1. IsPrefix(q, x) => x = q \/ IsPrefix(q, P)
          BY <1>2, <1>9, PrefixOfFront DEF Positions
        <4> QED BY <1>2, <1>3, <1>9, <3>2, <4>1 DEF Kept
      <3>3. q \notin kept
        BY <3>1 DEF Kept
      <3> QED BY <3>2, <3>3
    <2>2. q \in Subgroups(t, P) /\ Last(q) \in 1..Cardinality(Subgroups(t, P))
      BY <1>12 DEF Subgroups, Rows
    <2>3. Cardinality(S) = Cardinality(Subgroups(t, P)) - 1
      BY <1>5, <2>1, <2>2, FS_RemoveElement
    <2>4. r # q
      BY <1>2, <2>1, <1>7
    <2>5. /\ Len(r) = Len(q) /\ Len(r) \in Nat \ {0}
          /\ Last(r) = r[Len(r)] /\ Last(q) = q[Len(q)]
          /\ r = Append(P, Last(r)) /\ q = Append(P, Last(q))
      <3>1. /\ Len(Front(r)) = Len(r) - 1 /\ Len(r) \in Nat \ {0} /\ Last(r) = r[Len(r)]
            /\ r = Append(Front(r), Last(r))
        BY <1>7, FrontProperties, FrontLast DEF Positions
      <3>2. /\ Len(Front(q)) = Len(q) - 1 /\ Len(q) \in Nat \ {0} /\ Last(q) = q[Len(q)]
            /\ q = Append(Front(q), Last(q))
        BY <1>2, FrontProperties, FrontLast DEF Positions
      <3> QED BY <1>12, <3>1, <3>2
    <2>6. Last(r) # Last(q)
      BY <2>4, <2>5
    <2>7. IsAfter(q, r) <=> Last(r) > Last(q)
      <3>1. SubSeq(r, 1, Len(q) - 1) = Front(q)
        BY <1>12, <2>5 DEF Front
      <3> HIDE DEF P
      <3> QED BY <2>5, <3>1 DEF IsAfter
    <2> HIDE DEF M, u, kept, P, S
    <2>8. Last(M(r)) \in 1..Cardinality(S)
      BY <1>7, <1>8, <1>10, <2>2, <2>3, <2>5, <2>6, <2>7
    <2> QED BY <1>1, <1>3, <1>6, <2>8
  <1> QED BY <1>11, <1>12

(* A group's directory lies in that of its parent and has its name. *)
LEMMA DiskPaths ==
  ASSUME NEW t, TreeTyped(t), DiskTree(t), NEW p \in DOMAIN t \ {<<>>}
  PROVE  /\ p \in Positions /\ Front(p) \in DOMAIN t /\ Front(p) \in Positions
         /\ t[p].path \in Path /\ t[p].path # RootPath
         /\ Front(t[p].path) = t[Front(p)].path
         /\ Last(t[p].path) = t[p].name /\ t[p].name \in Names
  <1>1. p \in Positions /\ Front(p) \in DOMAIN t
    BY DEF TreeTyped, DiskTree, Rows
  <1>2. Front(p) \in Positions /\ t[Front(p)].path \in Path /\ t[p].path \in Path
        /\ t[p].path # RootPath
    BY <1>1 DEF TreeTyped, Node
  <1>3. t[p].path = Append(t[Front(p)].path, t[p].name) /\ t[p].name \in Names
    BY DEF DiskTree
  <1> DEFINE d == t[Front(p)].path
             n == t[p].name
  <1>4. d \in Path /\ n \in Names
    BY <1>2, <1>3
  <1> HIDE DEF d, n
  <1>5. Front(Append(d, n)) = d /\ Last(Append(d, n)) = n
    BY <1>4, LongerPath
  <1> QED BY <1>1, <1>2, <1>3, <1>5 DEF d, n

(* One group is below another exactly when its directory is. *)
LEMMA BelowInDisk ==
  ASSUME NEW t, TreeTyped(t), DiskTree(t), NEW q \in DOMAIN t
  PROVE  \A r \in DOMAIN t : IsPrefix(q, r) <=> IsPrefix(t[q].path, t[r].path)
  <1> DEFINE Same(r) == IsPrefix(q, r) <=> IsPrefix(t[q].path, t[r].path)
             S == {n \in Nat : \A r \in DOMAIN t : Len(r) = n => Same(r)}
  <1>0. /\ DOMAIN t \subseteq Positions
        /\ \A r \in DOMAIN t : t[r].path \in Path
        /\ \A r \in DOMAIN t \ {<<>>} : t[r].path # RootPath
        /\ <<>> \in DOMAIN t /\ t[<<>>].path = RootPath
    BY DEF TreeTyped, Node, DiskTree
  <1>1. 0 \in S
    <2> SUFFICES ASSUME NEW r \in DOMAIN t, Len(r) = 0 PROVE Same(r)
      OBVIOUS
    <2>1. r = <<>> /\ t[r].path = RootPath
      BY <1>0, EmptySeq DEF Positions
    <2>2. CASE q = <<>>
      <3>1. IsPrefix(q, r)
        BY <1>0, <2>1, <2>2, PrefixPointwise DEF Positions
      <3>2. RootPath \in Seq(AnyName)
        BY RootIsPath DEF Path
      <3>3. IsPrefix(RootPath, RootPath)
        BY <3>2, PrefixPointwise
      <3> QED BY <1>0, <2>1, <2>2, <3>1, <3>3
    <2>3. CASE q # <<>>
      <3>1. Len(q) \in Nat \ {0} /\ Len(<<>>) = 0
        BY <1>0, <2>3, EmptySeq DEF Positions
      <3>2. ~IsPrefix(q, r)
        BY <2>1, <3>1 DEF IsPrefix
      <3>3. ~IsPrefix(t[q].path, RootPath)
        BY <1>0, <2>3, RootIsNotBelow
      <3> QED BY <2>1, <3>2, <3>3
    <2> QED BY <2>2, <2>3
  <1>2. ASSUME NEW n \in Nat, n \in S PROVE n + 1 \in S
    <2> SUFFICES ASSUME NEW r \in DOMAIN t, Len(r) = n + 1 PROVE Same(r)
      OBVIOUS
    <2>1. r \in Positions /\ r # <<>>
      <3>1. Len(<<>>) = 0
        OBVIOUS
      <3> QED BY <1>0, <3>1
    <2>2. Front(r) \in DOMAIN t /\ Front(t[r].path) = t[Front(r)].path
      BY <2>1, DiskPaths
    <2>3. Len(Front(r)) = n
      BY <2>1, FrontProperties DEF Positions
    <2>4. Same(Front(r))
      BY <1>2, <2>2, <2>3
    <2>5. /\ IsPrefix(q, Front(r)) => IsPrefix(q, r)
          /\ IsPrefix(q, r) => q = r \/ IsPrefix(q, Front(r))
          /\ IsPrefix(r, r)
      BY <1>0, <2>1, PrefixOfFront, PrefixPointwise DEF Positions
    <2> DEFINE a == t[q].path
               b == t[r].path
    <2>6. a \in Seq(AnyName) /\ b \in Seq(AnyName) /\ b # <<>>
      BY <1>0, PathProperties
    <2> HIDE DEF a, b
    <2>7. /\ IsPrefix(a, Front(b)) => IsPrefix(a, b)
          /\ IsPrefix(a, b) => a = b \/ IsPrefix(a, Front(b))
          /\ IsPrefix(b, b)
      BY <2>6, PrefixOfFront, PrefixPointwise
    <2>8. a = b <=> q = r
      BY DEF DiskTree, a, b
    <2>9. IsPrefix(q, Front(r)) <=> IsPrefix(a, Front(b))
      BY <2>2, <2>4 DEF a, b
    <2>10. IsPrefix(q, r) <=> IsPrefix(a, b)
      BY <2>5, <2>7, <2>8, <2>9
    <2> QED BY <2>10 DEF a, b
  <1>3. Nat \subseteq S
    <2> HIDE DEF S
    <2> QED BY <1>1, <1>2, NatSets
  <1> SUFFICES ASSUME NEW r \in DOMAIN t PROVE Same(r)
    OBVIOUS
  <1>4. Len(r) \in Nat
    BY <1>0, LenProperties DEF Positions
  <1> QED BY <1>3, <1>4

(* Other files of a group, but its own: the tree stays that of the         *)
(* directories.                                                            *)
LEMMA CtxDisk ==
  ASSUME NEW t, DiskTree(t), NEW p \in DOMAIN t, NEW c,
         \A i \in 1..Len(c) : c[i].file = <<t[p].path, t[p].id>>,
         t[p] = [name |-> t[p].name, id |-> t[p].id, path |-> t[p].path, ctx |-> t[p].ctx],
         NEW u, u = [t EXCEPT ![p].ctx = c]
  PROVE  /\ DOMAIN u = DOMAIN t
         /\ \A q \in DOMAIN t : /\ u[q].name = t[q].name /\ u[q].id = t[q].id
                                /\ u[q].path = t[q].path
         /\ DiskTree(u)
  <1>1. /\ DOMAIN u = DOMAIN t
        /\ u[p] = [name |-> t[p].name, id |-> t[p].id, path |-> t[p].path, ctx |-> c]
        /\ \A q \in DOMAIN t : q # p => u[q] = t[q]
    <2>1. u = [t EXCEPT ![p] = [t[p] EXCEPT !.ctx = c]]
      OBVIOUS
    <2>2. [t[p] EXCEPT !.ctx = c] =
            [name |-> t[p].name, id |-> t[p].id, path |-> t[p].path, ctx |-> c]
      OBVIOUS
    <2> QED BY <2>1, <2>2
  <1>2. \A q \in DOMAIN t : /\ u[q].name = t[q].name /\ u[q].id = t[q].id
                            /\ u[q].path = t[q].path
    BY <1>1
  <1>3. \A q : Subgroups(u, q) = Subgroups(t, q)
    BY <1>1 DEF Subgroups
  <1>4. Rows(u)
    BY <1>1, <1>3 DEF Rows, DiskTree
  <1>5. \A q \in DOMAIN u : \A i \in 1..Len(u[q].ctx) :
          u[q].ctx[i].file = <<u[q].path, u[q].id>>
    BY <1>1 DEF DiskTree
  <1>6. \A q \in DOMAIN u \ {<<>>} :
          /\ u[q].path = Append(u[Front(q)].path, u[q].name)
          /\ u[q].name \in Names /\ u[q].id \in Ids
    BY <1>1, <1>2 DEF DiskTree, Rows
  <1>7. u[<<>>].name = RootName /\ u[<<>>].id = NoId /\ u[<<>>].path = RootPath
    <2>1. CASE <<>> \in DOMAIN t
      BY <1>2, <2>1 DEF DiskTree
    <2>2. CASE <<>> \notin DOMAIN t
      <3>1. u[<<>>] = t[<<>>]
        BY <2>2
      <3> QED BY <3>1 DEF DiskTree
    <2> QED BY <2>1, <2>2
  <1> QED BY <1>1, <1>2, <1>4, <1>5, <1>6, <1>7 DEF DiskTree

(* erase() of a group leaves the tree of the directories that remove_all() *)
(* leaves.                                                                 *)
LEMMA WithoutGroupDisk ==
  ASSUME NEW t, TreeTyped(t), DiskTree(t), NEW q \in DOMAIN t \ {<<>>},
         NEW u, u = WithoutGroup(t, q)
  PROVE  /\ DiskTree(u)
         /\ Paths(u)
              = {d \in Paths(t) : ~IsPrefix(t[q].path, d)}
         /\ \A s \in DOMAIN u \ {<<>>} : \E r \in DOMAIN t \ {<<>>} :
              u[s] = t[r] /\ ~IsPrefix(q, r) /\ (Len(r) < Len(q) => s = r)
         /\ \A r \in DOMAIN t : Len(r) < Len(q) => r \in DOMAIN u /\ u[r] = t[r]
  <1> DEFINE kept == Kept(t, q)
             M(r) == MovedUp(q, r)
  <1>1. /\ \A s : s \in DOMAIN u <=> \E r \in kept : s = M(r)
        /\ \A r \in kept : u[M(r)] = t[r]
        /\ \A r, s \in kept : M(r) = M(s) => r = s
        /\ \A r \in kept \ {<<>>} : /\ Front(r) \in kept /\ M(r) # <<>>
                                    /\ Front(M(r)) = M(Front(r))
        /\ \A r \in DOMAIN t : Len(r) < Len(q) => r \in kept /\ M(r) = r
        /\ <<>> \in kept /\ M(<<>>) = <<>>
    BY WithoutGroupNodes DEF DiskTree
  <1>2. \A r : r \in kept <=> r \in DOMAIN t /\ ~IsPrefix(q, r)
    BY DEF Kept
  <1>3. \A r \in kept : r \in DOMAIN t
    BY <1>2
  <1>4. Rows(u)
    BY WithoutGroupRows DEF DiskTree
  <1> HIDE DEF kept, M
  <1>5. \A s \in DOMAIN u : \E r \in kept : s = M(r) /\ u[s] = t[r] /\ (s = <<>> <=> r = <<>>)
    BY <1>1
  <1>6. u[<<>>].name = RootName /\ u[<<>>].id = NoId /\ u[<<>>].path = RootPath
    BY <1>1 DEF DiskTree
  <1>7. ASSUME NEW s \in DOMAIN u \ {<<>>}
        PROVE  /\ u[s].path = Append(u[Front(s)].path, u[s].name)
               /\ u[s].name \in Names /\ u[s].id \in Ids
    <2>1. PICK r \in kept \ {<<>>} : s = M(r) /\ u[s] = t[r]
      BY <1>5
    <2>2. r \in DOMAIN t \ {<<>>}
      BY <1>3
    <2>3. u[Front(s)] = t[Front(r)]
      BY <1>1, <2>1
    <2> QED BY <2>1, <2>2, <2>3 DEF DiskTree
  <1>8. ASSUME NEW s \in DOMAIN u, NEW w \in DOMAIN u
        PROVE  /\ u[s].path = u[w].path => s = w
               /\ u[s].id = u[w].id => s = w
    <2>1. PICK r \in kept : s = M(r) /\ u[s] = t[r]
      BY <1>5
    <2>2. PICK x \in kept : w = M(x) /\ u[w] = t[x]
      BY <1>5
    <2> QED BY <1>3, <2>1, <2>2 DEF DiskTree
  <1>9. ASSUME NEW s \in DOMAIN u, NEW i \in 1..Len(u[s].ctx)
        PROVE  u[s].ctx[i].file = <<u[s].path, u[s].id>>
    <2>1. PICK r \in kept : s = M(r) /\ u[s] = t[r]
      BY <1>5
    <2> QED BY <1>3, <2>1 DEF DiskTree
  <1>10. DiskTree(u)
    BY <1>4, <1>6, <1>7, <1>8, <1>9 DEF DiskTree
  <1>11. \A r \in DOMAIN t : r \in kept <=> ~IsPrefix(t[q].path, t[r].path)
    BY <1>2, BelowInDisk
  <1>12. Paths(u)
           = {d \in Paths(t) : ~IsPrefix(t[q].path, d)}
    <2>1. ASSUME NEW s \in DOMAIN u
          PROVE  \E r \in DOMAIN t : u[s].path = t[r].path /\ ~IsPrefix(t[q].path, t[r].path)
      BY <1>3, <1>5, <1>11
    <2>2. ASSUME NEW r \in DOMAIN t, ~IsPrefix(t[q].path, t[r].path)
          PROVE  \E s \in DOMAIN u : u[s].path = t[r].path
      BY <1>1, <1>11, <2>2
    <2> QED BY <2>1, <2>2 DEF Paths
  <1>13. ASSUME NEW s \in DOMAIN u \ {<<>>}
         PROVE  \E r \in DOMAIN t \ {<<>>} :
                  u[s] = t[r] /\ ~IsPrefix(q, r) /\ (Len(r) < Len(q) => s = r)
    <2>1. PICK r \in kept : s = M(r) /\ u[s] = t[r] /\ r # <<>>
      BY <1>5
    <2> QED BY <1>1, <1>2, <2>1
  <1>14. ASSUME NEW r \in DOMAIN t, Len(r) < Len(q) PROVE r \in DOMAIN u /\ u[r] = t[r]
    BY <1>1, <1>14
  <1> QED BY <1>10, <1>12, <1>13, <1>14

(* A new group of a fresh name and id makes the tree one of one directory  *)
(* more.                                                                   *)
LEMMA AddDisk ==
  ASSUME NEW t, TreeTyped(t), DiskTree(t), NEW p \in DOMAIN t,
         NEW name \in Names, NEW id \in Ids,
         \A r \in DOMAIN t : t[r].id # id /\ t[r].name # name,
         NEW u, u = WithSubgroup(t, p, Group(name, id, Append(t[p].path, name)))
  PROVE  /\ DiskTree(u)
         /\ Paths(u)
              = Paths(t) \cup {Append(t[p].path, name)}
         /\ \A s \in DOMAIN u : \/ s \in DOMAIN t /\ u[s] = t[s]
                                \/ u[s].id = id /\ u[s].name = name
  <1> DEFINE q == Append(p, Cardinality(Subgroups(t, p)) + 1)
             path == Append(t[p].path, name)
             grp == Group(name, id, path)
  <1>1. /\ q \notin DOMAIN t /\ q # <<>> /\ Front(q) = p
        /\ DOMAIN u = DOMAIN t \cup {q}
        /\ u[q] = grp /\ \A r \in DOMAIN t : u[r] = t[r]
        /\ Rows(u)
    <2> DEFINE v == WithSubgroup(t, p, grp)
    <2>1. Rows(t) /\ u = v
      BY DEF DiskTree
    <2> HIDE DEF grp
    <2>2. /\ q \notin DOMAIN t /\ q # <<>> /\ Front(q) = p
          /\ DOMAIN v = DOMAIN t \cup {q}
          /\ v[q] = grp /\ \A r \in DOMAIN t : v[r] = t[r]
          /\ Rows(v)
      BY <2>1, RowsGrow
    <2> QED BY <2>1, <2>2
  <1>2. /\ <<>> \in DOMAIN t /\ t[p].path \in Path
        /\ \A r \in DOMAIN t : t[r].path \in Path
    BY DEF TreeTyped, Node
  <1>3. grp.name = name /\ grp.id = id /\ grp.path = path /\ grp.ctx = <<>>
    BY DEF Group
  <1>4. Last(path) = name
    BY <1>2, LongerPath
  <1>5. ASSUME NEW r \in DOMAIN t PROVE t[r].path # path
    <2>1. CASE r = <<>>
      <3>1. Len(path) >= 2 /\ Len(RootPath) = 1
        BY <1>2, LongerPath, RootIsPath
      <3> QED BY <2>1, <3>1 DEF DiskTree
    <2>2. CASE r # <<>>
      <3>1. Last(t[r].path) = t[r].name
        BY <2>2, DiskPaths
      <3> QED BY <1>4, <3>1
    <2> QED BY <2>1, <2>2
  <1> HIDE DEF q, path, grp
  <1>6. u[<<>>].name = RootName /\ u[<<>>].id = NoId /\ u[<<>>].path = RootPath
    BY <1>1, <1>2 DEF DiskTree
  <1>7. ASSUME NEW s \in DOMAIN u \ {<<>>}
        PROVE  /\ u[s].path = Append(u[Front(s)].path, u[s].name)
               /\ u[s].name \in Names /\ u[s].id \in Ids
    <2>1. CASE s \in DOMAIN t
      BY <1>1, <2>1 DEF DiskTree, Rows
    <2>2. CASE s = q
      BY <1>1, <1>3, <2>2 DEF path
    <2> QED BY <1>1, <2>1, <2>2
  <1>8. ASSUME NEW s \in DOMAIN u, NEW w \in DOMAIN u
        PROVE  /\ u[s].path = u[w].path => s = w
               /\ u[s].id = u[w].id => s = w
    BY <1>1, <1>3, <1>5 DEF DiskTree
  <1>9. ASSUME NEW s \in DOMAIN u, NEW i \in 1..Len(u[s].ctx)
        PROVE  u[s].ctx[i].file = <<u[s].path, u[s].id>>
    <2>1. CASE s \in DOMAIN t
      BY <1>1, <1>9, <2>1 DEF DiskTree
    <2>2. CASE s = q
      <3>1. Len(<<>>) = 0 /\ ~\E k : k \in 1..0
        OBVIOUS
      <3> QED BY <1>1, <1>3, <2>2, <1>9, <3>1
    <2> QED BY <1>1, <2>1, <2>2
  <1>10. DiskTree(u)
    BY <1>1, <1>6, <1>7, <1>8, <1>9 DEF DiskTree
  <1>11. Paths(u) = Paths(t) \cup {path}
    BY <1>1, <1>3 DEF Paths
  <1>12. \A s \in DOMAIN u : \/ s \in DOMAIN t /\ u[s] = t[s]
                             \/ u[s].id = id /\ u[s].name = name
    BY <1>1, <1>3
  <1> QED BY <1>10, <1>11, <1>12 DEF path

-----------------------------------------------------------------------------
(* The steps of undisturbed sessions. *)

(* What init() needs of the disk to rebuild the tree. *)
Tidy(ds, fs, ids) ==
  /\ OneName(ds) /\ IdTable(ids) /\ Injective(ids)
  /\ \A d \in ds \ {RootPath} : Last(d) \in Range(ids)
  /\ \A f \in DOMAIN fs : KnownIn(ids, f)

(* init() rebuilds the tree of directories from a disk where no name       *)
(* repeats and ids.dat knows every directory and every file: no group and  *)
(* no file is put below the wrong one of several groups of a name.         *)
LEMMA LoadDisk ==
  ASSUME RootName \notin Names,
         NEW ds, NEW fs, DirsTyped(ds), FilesTyped(ds, fs), RootPath \in ds,
         NEW ids, Tidy(ds, fs, ids), NEW pick \in Picks(ids),
         NEW t, Loaded(ds, fs, pick, t)
  PROVE  /\ DiskTree(t) /\ Paths(t) = ds
         /\ \A p \in DOMAIN t \ {<<>>} : t[p].id \in DOMAIN ids /\ ids[t[p].id] = t[p].name
  <1>1. TreeTyped(t) /\ Rows(t) /\ GroupsLoaded(ds, pick, {}, t) /\ FilesLoaded(fs, {}, t)
    BY DEF Loaded
  <1>2. /\ \A p \in DOMAIN t \ {<<>>} :
             /\ t[p].path \in ds \ {RootPath}
             /\ t[p].name = Last(t[p].path)
             /\ t[p].id = IdOf(Last(t[p].path), pick)
             /\ t[Front(p)].name = Last(Front(t[p].path))
             /\ Front(p) \in DOMAIN t
        /\ t[<<>>].name = RootName /\ t[<<>>].id = NoId /\ t[<<>>].path = RootPath
        /\ \A p, q \in DOMAIN t : t[p].path = t[q].path => p = q
        /\ \A d \in ds \ {RootPath} : \E p \in DOMAIN t : t[p].path = d
        /\ <<>> \in DOMAIN t
    BY <1>1 DEF GroupsLoaded, Rows, TreeTyped
  <1>3. /\ ds \subseteq Path
        /\ \A d \in ds \ {RootPath} : /\ d \in Path /\ Len(d) >= 2
                                      /\ Front(d) \in ds /\ Last(d) \in Names
                                      /\ d = Append(Front(d), Last(d))
    <2>1. ASSUME NEW d \in ds \ {RootPath}
          PROVE  /\ d \in Path /\ Len(d) >= 2 /\ Last(d) \in Names
                 /\ d = Append(Front(d), Last(d))
      <3>1. d \in Path
        BY DEF DirsTyped
      <3> QED BY <3>1, PathProperties, FrontLast
    <2> QED BY <2>1 DEF DirsTyped
  <1>4. \A d, e \in ds : Last(d) = Last(e) => d = e
    BY DEF Tidy, OneName
  <1>5. \A p \in DOMAIN t : t[p].path \in ds /\ Last(t[p].path) = t[p].name
    <2>1. Last(RootPath) = RootName
      BY RootIsPath DEF RootPath, Last
    <2> QED BY <1>2, <2>1
  <1>6. ASSUME NEW p \in DOMAIN t \ {<<>>}
        PROVE  /\ t[p].path = Append(t[Front(p)].path, t[p].name)
               /\ t[p].name \in Names
    <2>1. /\ t[p].path \in ds \ {RootPath} /\ t[p].name = Last(t[p].path)
          /\ Front(p) \in DOMAIN t /\ t[Front(p)].name = Last(Front(t[p].path))
      BY <1>2
    <2>2. /\ Front(t[p].path) \in ds /\ Last(t[p].path) \in Names
          /\ t[p].path = Append(Front(t[p].path), Last(t[p].path))
      BY <1>3, <2>1
    <2>3. t[Front(p)].path \in ds /\ Last(t[Front(p)].path) = Last(Front(t[p].path))
      BY <1>5, <2>1
    <2>4. t[Front(p)].path = Front(t[p].path)
      BY <1>4, <2>2, <2>3
    <2> QED BY <2>1, <2>2, <2>4
  <1>7. ASSUME NEW p \in DOMAIN t \ {<<>>}
        PROVE  /\ t[p].id \in DOMAIN ids /\ ids[t[p].id] = t[p].name
               /\ t[p].id \in Ids
    <2>1. t[p].path \in ds \ {RootPath} /\ t[p].name = Last(t[p].path)
          /\ t[p].id = IdOf(t[p].name, pick)
      BY <1>2
    <2>2. t[p].name \in Range(ids)
      BY <2>1 DEF Tidy
    <2>3. /\ DOMAIN pick = Range(ids)
          /\ \A n \in Range(ids) : pick[n] \in DOMAIN ids /\ ids[pick[n]] = n
      BY DEF Picks
    <2>4. t[p].id = pick[t[p].name]
      BY <2>1, <2>2, <2>3 DEF IdOf
    <2>5. DOMAIN ids \subseteq Ids
      BY DEF Tidy, IdTable
    <2> QED BY <2>2, <2>3, <2>4, <2>5
  <1>8. ASSUME NEW p \in DOMAIN t, NEW q \in DOMAIN t, t[p].id = t[q].id
        PROVE  p = q
    <2>1. CASE p # <<>> /\ q # <<>>
      <3>1. t[p].name = t[q].name
        BY <1>7, <1>8, <2>1
      <3>2. t[p].path = t[q].path
        BY <1>4, <1>5, <3>1
      <3> QED BY <1>2, <3>2
    <2>2. CASE p = <<>> \/ q = <<>>
      <3>1. NoId \notin Ids
        BY NamesAssumption
      <3> QED BY <1>2, <1>7, <1>8, <2>2, <3>1
    <2> QED BY <2>1, <2>2
  <1>9. ASSUME NEW p \in DOMAIN t, NEW i \in 1..Len(t[p].ctx)
        PROVE  t[p].ctx[i].file = <<t[p].path, t[p].id>>
    <2> DEFINE f == t[p].ctx[i].file
    <2>1. f \in DOMAIN fs /\ t[p].name = Last(f[1])
      BY <1>1 DEF FilesLoaded, CtxAt
    <2>2. f \in ds \X Ids
      BY <2>1 DEF FilesTyped
    <2>3. f[2] \in DOMAIN ids /\ ids[f[2]] = Last(f[1]) /\ Last(f[1]) \in Names
      BY <2>1 DEF Tidy, KnownIn, IdTable
    <2> HIDE DEF f
    <2>4. f[1] = t[p].path
      BY <1>4, <1>5, <2>1, <2>2
    <2>5. p # <<>>
      BY <1>2, <2>1, <2>3
    <2>6. f[2] = t[p].id
      <3>1. t[p].id \in DOMAIN ids /\ ids[t[p].id] = ids[f[2]]
        BY <1>7, <2>1, <2>3, <2>5
      <3> QED BY <2>3, <3>1 DEF Tidy, Injective
    <2>7. f = <<f[1], f[2]>>
      BY <2>2
    <2> QED BY <2>4, <2>6, <2>7 DEF f
  <1>10. DiskTree(t)
    BY <1>1, <1>2, <1>6, <1>7, <1>8, <1>9 DEF DiskTree
  <1>11. Paths(t) = ds
    BY <1>2, <1>5 DEF Paths
  <1> QED BY <1>7, <1>10, <1>11

(* Once disturbed, always disturbed, and a step that does not disturb      *)
(* spends nothing.                                                         *)
LEMMA BudgetStep ==
  ASSUME IdsInv, [Step]_vars, Undisturbed'
  PROVE  Undisturbed /\ UNCHANGED budget
  <1>1. /\ budget.renames \in 0..MaxRenames /\ budget.crashes \in 0..MaxCrashes
        /\ budget.faults \in 0..MaxFaults
        /\ budget = [renames |-> budget.renames, crashes |-> budget.crashes,
                     faults |-> budget.faults]
    BY DEF IdsInv
  <1>2. budget' = [renames |-> MaxRenames, crashes |-> MaxCrashes, faults |-> MaxFaults]
    BY DEF Undisturbed
  <1>3. ASSUME NEW what \in {"renames", "crashes", "faults"}, Spend(what) PROVE FALSE
    BY <1>1, <1>2, <1>3, BankConstants DEF Spend
  <1>4. ~Killed
    BY <1>3 DEF Killed, Crash, CrashInSave, CrashInClose, CrashInRemove
  <1>5. ASSUME NEW pid, NEW id, NEW n, NEW mayFail, UpdateGroup(pid, id, n, mayFail)
        PROVE  FALSE
    <2>1. /\ budget.renames > 0
          /\ budget' = [budget EXCEPT !.renames = @ - 1,
                                      !.faults = IF mayFail THEN @ - 1 ELSE @]
      BY <1>5 DEF UpdateGroup
    <2>2. budget'.renames = budget.renames - 1
      BY <1>1, <2>1
    <2> QED BY <1>1, <1>2, <2>2, BankConstants
  <1>6. ASSUME NEW pid, NEW id, NEW mayFail, DeleteGroup(pid, id, mayFail)
        PROVE  UNCHANGED budget
    BY <1>3, <1>6 DEF DeleteGroup
  <1>7. GoOn => UNCHANGED budget
    BY DEF GoOn, CloseFile, Closed, DeleteTry, DeleteTurn, DeleteFrom, DeleteEnds,
           DeleteFails, UpdateTry, CallFails
  <1>8. QuestionCall => UNCHANGED budget
    BY DEF QuestionCall, AddQuestion, DeleteQuestion, UpdateQuestion, QueryQuestion, OnQuestions
  <1>9. UNCHANGED budget
    <2>1. CASE UNCHANGED vars
      BY <2>1 DEF vars
    <2>2. CASE Step
      BY <1>4, <1>5, <1>6, <1>7, <1>8, <2>2
         DEF Step, Start, Quit, QuitFailed, AddGroup
    <2> QED BY <2>1, <2>2
  <1> QED BY <1>9 DEF Undisturbed

(* A start with readable files takes the ids from ids.dat and the tree     *)
(* from the directories.                                                   *)
LEMMA StartLoads ==
  ASSUME BankTyped, Start, Readable
  PROVE  /\ run' = "on" /\ mapIds' = idsFile.items /\ lst' = idsFile.items
         /\ UNCHANGED <<call, files, idsFile>>
         /\ \E pick \in Picks(idsFile.items) : Loaded(dirs', files, pick, tree')
  <1>1. /\ run' = "on" /\ mapIds' = idsFile.items /\ lst' = idsFile.items
        /\ UNCHANGED <<call, files, idsFile>> /\ dirs' = dirs \cup {RootPath}
    BY DEF Start
  <1>2. PICK pick \in Picks(idsFile.items), filesFirst \in BOOLEAN :
          tree' = Load(dirs', files, pick, filesFirst)
    BY DEF Start
  <1>3. pick \in [Range(idsFile.items) -> Ids]
    BY DEF Picks, BankTyped, IdsInv, IdTable
  <1>4. (BankTyped /\ Start => BankInv')
    BY StartTyped
  <1>5. DirsTyped(dirs') /\ FilesTyped(dirs', files)
    BY <1>1, <1>4 DEF BankInv
  <1>6. Loaded(dirs', files, pick, tree')
    BY <1>2, <1>3, <1>5, LoadIsComplete
  <1> QED BY <1>1, <1>6

(* init() on a disk an orderly session left. *)
LEMMA CleanStart ==
  ASSUME Ordinary, BankTyped, BankTyped', Clean, Start
  PROVE  Clean'
  <1>1. /\ run = "off" /\ dirs' = dirs \cup {RootPath}
        /\ UNCHANGED <<files, idsFile>>
    BY DEF Start
  <1>2. SavedInv /\ OneName(dirs)
    BY <1>1 DEF Clean
  <1>3. ASSUME NEW d \in dirs \ {RootPath} PROVE Last(d) \in Names
    <2>1. d \in Path
      BY DEF BankTyped, BankInv, DirsTyped
    <2> QED BY <2>1, PathProperties
  <1>4. OneName(dirs')
    <2>1. Last(RootPath) = RootName /\ RootName \notin Names
      BY RootIsPath DEF RootPath, Last, Ordinary
    <2> QED BY <1>1, <1>2, <1>3, <2>1 DEF OneName
  <1>5. Tidy(dirs', files, idsFile.items)
    BY <1>1, <1>2, <1>4 DEF Tidy, SavedInv, BankTyped, IdsInv
  <1>6. SavedInv'
    BY <1>1, <1>2 DEF SavedInv, KnownIn, Injective
  <1>7. CASE Readable
    <2>1. /\ run' = "on" /\ mapIds' = idsFile.items /\ lst' = idsFile.items
          /\ UNCHANGED call
      BY <1>7, StartLoads
    <2>2. PICK pick \in Picks(idsFile.items) : Loaded(dirs', files, pick, tree')
      BY <1>7, StartLoads
    <2>4. DirsTyped(dirs') /\ FilesTyped(dirs', files) /\ RootPath \in dirs'
      BY <1>1 DEF BankTyped, BankInv
    <2>6. /\ DiskTree(tree') /\ Paths(tree') = dirs'
          /\ \A p \in DOMAIN tree' \ {<<>>} :
               tree'[p].id \in DOMAIN idsFile.items
               /\ idsFile.items[tree'[p].id] = tree'[p].name
      BY <1>5, <2>2, <2>4, LoadDisk DEF Ordinary
    <2>7. call = NoCall
      BY <1>1 DEF BankTyped, IdsInv
    <2>8. CallInv'
      BY <2>1, <2>7, NoFrames DEF CallInv, NoCall
    <2>9. OnInv'
      BY <1>1, <1>5, <2>1, <2>6, <2>8 DEF OnInv, Tidy, Injective, KnownIn
    <2> QED BY <1>4, <2>1, <2>9 DEF Clean
  <1>8. CASE ~Readable
    BY <1>4, <1>6, <1>8 DEF Start, Clean
  <1> QED BY <1>7, <1>8

(* uninit() writes ids.dat first: from then on it knows all groups. *)
LEMMA CleanQuit ==
  ASSUME Clean, Quit
  PROVE  Clean'
  <1>1. /\ run = "on" /\ call = NoCall /\ run' = "closing" /\ idsFile' = Stored(lst)
        /\ UNCHANGED <<tree, call, dirs, files>>
    BY DEF Quit, Idle
  <1>2. OnInv /\ OneName(dirs)
    BY <1>1 DEF Clean
  <1>3. idsFile'.items = lst
    BY <1>1 DEF Stored
  <1>4. \A p : ~BeingDeleted(p)
    BY <1>1 DEF BeingDeleted, NoCall
  <1>5. \A d : ~Deleting(d)
    BY <1>1 DEF Deleting, NoCall
  <1>6. \A p \in DOMAIN tree \ {<<>>} : tree[p].id \in DOMAIN lst /\ lst[tree[p].id] = tree[p].name
    BY <1>2, <1>4 DEF OnInv
  <1>7. ASSUME NEW d \in dirs \ {RootPath} PROVE Last(d) \in Range(lst)
    <2>1. PICK p \in DOMAIN tree : d = tree[p].path
      BY <1>2 DEF Paths, OnInv
    <2>2. p # <<>>
      BY <1>2, <2>1 DEF OnInv, DiskTree
    <2>3. Last(d) = tree[p].name
      <3>1. tree[p].path = Append(tree[Front(p)].path, tree[p].name)
        BY <1>2, <2>2 DEF OnInv, DiskTree
      <3> QED BY <2>1, <3>1, FrontOfAppend DEF Last
    <2> QED BY <1>6, <2>2, <2>3 DEF Range
  <1>8. SavedInv'
    BY <1>1, <1>2, <1>3, <1>5, <1>7 DEF SavedInv, OnInv, KnownIn, Injective
  <1>9. ClosingInv'
    BY <1>1, <1>2, <1>3, <1>6 DEF ClosingInv, OnInv
  <1> QED BY <1>1, <1>2, <1>8, <1>9 DEF Clean

(* Opening, changing or closing a group's own files touches neither the    *)
(* groups nor the call under way.                                          *)
LEMMA CtxClean ==
  ASSUME BankTyped, DiskTree(tree), NEW p \in DOMAIN tree, NEW c \in Seq(Ctx),
         \A i \in 1..Len(c) : c[i].file = <<tree[p].path, tree[p].id>>,
         tree' = [tree EXCEPT ![p].ctx = c], call' = call
  PROVE  /\ DiskTree(tree') /\ DOMAIN tree' = DOMAIN tree
         /\ \A q \in DOMAIN tree : /\ tree'[q].name = tree[q].name
                                   /\ tree'[q].id = tree[q].id
                                   /\ tree'[q].path = tree[q].path
         /\ \A d : Deleting(d)' <=> Deleting(d)
         /\ \A q : BeingDeleted(q)' <=> BeingDeleted(q)
         /\ CallInv => CallInv'
  <1>1. tree[p] = [name |-> tree[p].name, id |-> tree[p].id, path |-> tree[p].path,
                   ctx |-> tree[p].ctx]
    BY DEF BankTyped, BankInv, TreeTyped, Node
  <1>2. /\ DOMAIN tree' = DOMAIN tree /\ DiskTree(tree')
        /\ \A q \in DOMAIN tree : /\ tree'[q].name = tree[q].name
                                  /\ tree'[q].id = tree[q].id
                                  /\ tree'[q].path = tree[q].path
    BY <1>1, CtxDisk
  <1>3. \A i \in 1..Len(call.frames) : tree'[call.frames[i].at].path = tree[call.frames[i].at].path
    BY <1>2 DEF BankTyped, BankInv, CallTyped
  <1>4. call.frames # <<>> => 1 \in 1..Len(call.frames)
    <2>1. call.frames \in Seq(Frame)
      BY DEF BankTyped, BankInv, CallTyped
    <2> QED BY <2>1, EmptySeq, LenProperties
  <1>5. \A d : Deleting(d)' <=> Deleting(d)
    BY <1>3, <1>4 DEF Deleting
  <1>6. \A q : BeingDeleted(q)' <=> BeingDeleted(q)
    BY DEF BeingDeleted
  <1>7. CallInv => CallInv'
    <2> SUFFICES ASSUME CallInv PROVE CallInv'
      OBVIOUS
    <2>1. \A i \in 1..Len(call.frames) :
            IsPrefix(tree'[call.frames[1].at].path, tree'[call.frames[i].at].path)
      <3>1. ASSUME NEW i \in 1..Len(call.frames) PROVE 1 \in 1..Len(call.frames)
        <4>1. call.frames \in Seq(Frame)
          BY DEF BankTyped, BankInv, CallTyped
        <4> QED BY <4>1, LenProperties
      <3> QED BY <1>3, <3>1 DEF CallInv
    <2>2. call.op = "deleteGroup" /\ call.frames = <<>> =>
            \E q \in DOMAIN tree' \ {<<>>} : call.id = tree'[q].id /\ call.todo = {Front(q)}
      BY <1>2 DEF CallInv
    <2> QED BY <2>1, <2>2 DEF CallInv
  <1> QED BY <1>2, <1>5, <1>6, <1>7

(* An open question file is that of its group, which has an id. *)
LEMMA OpenFile ==
  ASSUME BankTyped, DiskTree(tree), NEW p \in DOMAIN tree, tree[p].ctx # <<>>
  PROVE  /\ p # <<>> /\ tree[p].id \in Ids
         /\ Head(tree[p].ctx).file = <<tree[p].path, tree[p].id>>
         /\ ClosingInv => KnownIn(idsFile.items, <<tree[p].path, tree[p].id>>)
  <1> DEFINE ctx == tree[p].ctx
             f == <<tree[p].path, tree[p].id>>
  <1>1. ctx \in Seq(Ctx) /\ ctx # <<>>
    BY DEF BankTyped, BankInv, TreeTyped, Node
  <1>2. \A i \in 1..Len(ctx) : ctx[i].file = f
    BY DEF DiskTree
  <1>3. f[1] = tree[p].path /\ f[2] = tree[p].id
    OBVIOUS
  <1> HIDE DEF ctx, f
  <1>4. 1 \in 1..Len(ctx) /\ Head(ctx) = ctx[1] /\ ctx[1] \in Ctx
    BY <1>1, EmptySeq, LenProperties, ElementOfSeq
  <1>5. ctx[1].file = f
    BY <1>2, <1>4
  <1>6. f[2] \in Ids
    BY <1>4, <1>5 DEF Ctx
  <1>7. p # <<>> /\ tree[p].id \in Ids
    BY <1>3, <1>6, NamesAssumption DEF DiskTree
  <1>8. Last(tree[p].path) = tree[p].name
    BY <1>7, DiskPaths DEF BankTyped, BankInv
  <1>9. ClosingInv => KnownIn(idsFile.items, f)
    BY <1>3, <1>7, <1>8 DEF ClosingInv, KnownIn
  <1> QED BY <1>4, <1>5, <1>7, <1>9 DEF ctx, f

(* A file that is closed in uninit() is known to ids.dat; one that is      *)
(* closed in deleteGroup() is about to be removed.                         *)
LEMMA CleanCloseFile ==
  ASSUME BankTyped, Clean, CloseFile
  PROVE  Clean'
  <1>1. PICK p \in DOMAIN tree :
          /\ Closing(p)
          /\ files' = CloseCtx(dirs, files, Head(tree[p].ctx))
          /\ tree' = [tree EXCEPT ![p].ctx = Tail(tree[p].ctx)]
    BY DEF CloseFile
  <1>2. UNCHANGED <<run, mapIds, lst, call, dirs, idsFile>>
    BY DEF CloseFile
  <1>3. run \in {"on", "closing"}
    BY <1>1 DEF Closing
  <1>4. DiskTree(tree) /\ Paths(tree) = dirs
    BY <1>3 DEF Clean, OnInv, ClosingInv
  <1> DEFINE ctx == tree[p].ctx
             f == <<tree[p].path, tree[p].id>>
  <1>5. ctx \in Seq(Ctx) /\ ctx # <<>>
    BY <1>1 DEF Closing, BankTyped, BankInv, TreeTyped, Node
  <1>6. \A i \in 1..Len(ctx) : ctx[i].file = f
    BY <1>4 DEF DiskTree
  <1>7. Head(ctx).file = f /\ (ClosingInv => KnownIn(idsFile.items, f))
    BY <1>4, <1>5, OpenFile
  <1>8. Tail(ctx) \in Seq(Ctx) /\ \A i \in 1..Len(Tail(ctx)) : Tail(ctx)[i].file = f
    <2> HIDE DEF ctx, f
    <2>1. /\ Tail(ctx) \in Seq(Ctx) /\ Len(Tail(ctx)) = Len(ctx) - 1
          /\ Len(ctx) \in Nat
          /\ \A i \in 1..Len(Tail(ctx)) : Tail(ctx)[i] = ctx[i + 1]
      BY <1>5, HeadTailProperties, LenProperties
    <2> QED BY <1>6, <2>1
  <1>9. /\ DiskTree(tree') /\ DOMAIN tree' = DOMAIN tree
        /\ \A q \in DOMAIN tree : /\ tree'[q].name = tree[q].name
                                  /\ tree'[q].id = tree[q].id
                                  /\ tree'[q].path = tree[q].path
        /\ \A d : Deleting(d)' <=> Deleting(d)
        /\ \A q : BeingDeleted(q)' <=> BeingDeleted(q)
        /\ CallInv => CallInv'
    <2> DEFINE c == Tail(ctx)
    <2>1. /\ c \in Seq(Ctx) /\ tree' = [tree EXCEPT ![p].ctx = c]
          /\ \A i \in 1..Len(c) : c[i].file = <<tree[p].path, tree[p].id>>
      BY <1>1, <1>8
    <2> HIDE DEF c
    <2> QED BY <1>2, <1>4, <2>1, CtxClean
  <1>10. \A g \in DOMAIN files' : g \in DOMAIN files \/ g = f
    BY <1>1, <1>7 DEF CloseCtx, Without, Put
  <1>11. Paths(tree') = dirs'
    BY <1>2, <1>4, <1>9 DEF Paths
  <1>12. f[1] = tree[p].path /\ f[2] = tree[p].id
    OBVIOUS
  <1> HIDE DEF f, ctx
  <1>13. CASE run = "closing"
    <2>2. KnownIn(idsFile.items, f)
      BY <1>7, <1>13 DEF Clean
    <2>3. SavedInv'
      BY <1>2, <1>10, <1>13, <2>2 DEF Clean, SavedInv, KnownIn, Injective
    <2>4. ClosingInv'
      BY <1>2, <1>9, <1>11, <1>13 DEF Clean, ClosingInv
    <2> QED BY <1>2, <1>13, <2>3, <2>4 DEF Clean
  <1>14. CASE run = "on"
    <2>1. /\ call.frames # <<>> /\ p = Last(call.frames).at
      BY <1>1, <1>14 DEF Closing
    <2>2. /\ Last(call.frames) = call.frames[Len(call.frames)]
          /\ Len(call.frames) \in 1..Len(call.frames)
      <3>1. call.frames \in Seq(Frame)
        BY DEF BankTyped, BankInv, CallTyped
      <3>2. Len(call.frames) \in Nat \ {0} /\ Last(call.frames) = call.frames[Len(call.frames)]
        BY <2>1, <3>1, FrontProperties
      <3> QED BY <3>2
    <2>3. OnInv
      BY <1>14 DEF Clean
    <2>4. Deleting(f[1])
      BY <1>12, <2>1, <2>2, <2>3 DEF OnInv, CallInv, Deleting
    <2>5. ASSUME NEW g \in DOMAIN files', ~Deleting(g[1])'
          PROVE  KnownIn(lst, g)' /\ KnownIn(idsFile.items, g)'
      <3>1. ~Deleting(g[1])
        BY <1>9, <2>5
      <3>2. g \in DOMAIN files
        BY <1>10, <2>4, <3>1
      <3> QED BY <1>2, <2>3, <3>1, <3>2 DEF OnInv, KnownIn
    <2>6. OnInv'
      BY <1>2, <1>9, <1>11, <2>3, <2>5 DEF OnInv, Injective
    <2> QED BY <1>2, <1>14, <2>6 DEF Clean
  <1> QED BY <1>3, <1>13, <1>14

(* The end of a session, orderly, keeps what the disk holds. *)
LEMMA CleanEnds ==
  ASSUME Clean, Closed \/ QuitFailed \/ UNCHANGED vars, BankTyped
  PROVE  Clean'
  <1>1. CASE Closed \/ QuitFailed
    <2>1. run # "on" /\ run' = "off" /\ UNCHANGED disk
      BY <1>1 DEF Closed, QuitFailed, Ended
    <2> QED BY <2>1 DEF Clean, SavedInv, KnownIn, disk, Injective
  <1>2. CASE UNCHANGED vars
    BY <1>2 DEF vars, memory, disk, Clean, OnInv, SavedInv, ClosingInv, CallInv, KnownIn,
                Deleting, BeingDeleted, Injective
  <1> QED BY <1>1, <1>2

(* The files findQustionAnswerContext() has open for a group are the       *)
(* group's own.                                                            *)
LEMMA OpenedCtxFiles ==
  ASSUME BankTyped, DiskTree(tree), NEW p \in DOMAIN tree, tree[p].id \in Ids
  PROVE  /\ OpenedCtx(tree[p]) \in Seq(Ctx)
         /\ \A i \in 1..Len(OpenedCtx(tree[p])) :
              OpenedCtx(tree[p])[i].file = <<tree[p].path, tree[p].id>>
  <1> DEFINE f == <<tree[p].path, tree[p].id>>
             o == OpenedCtx(tree[p])
  <1>1. tree[p] \in Node
    BY DEF BankTyped, BankInv, TreeTyped
  <1>2. CASE tree[p].ctx = <<>>
    <2>1. f \in Path \X Ids
      BY <1>1 DEF Node
    <2>2. Content(files, f) \in Items
      BY EmptyItems DEF Content, FilesTyped, BankTyped, BankInv
    <2>3. OpenCtx(files, f) \in Ctx /\ OpenCtx(files, f).file = f
      BY <2>1, <2>2 DEF OpenCtx, Ctx
    <2>4. o = <<OpenCtx(files, f)>>
      BY <1>2 DEF OpenedCtx
    <2> HIDE DEF o
    <2>5. o \in Seq(Ctx) /\ \A i \in 1..Len(o) : o[i] = OpenCtx(files, f)
      BY <2>3, <2>4
    <2>6. \A i \in 1..Len(o) : o[i].file = f
      BY <2>3, <2>5
    <2> QED BY <2>5, <2>6 DEF o
  <1>3. CASE tree[p].ctx # <<>>
    BY <1>1, <1>3 DEF OpenedCtx, Node, DiskTree
  <1> QED BY <1>2, <1>3

(* The question operations change only what an open file holds. *)
LEMMA CleanQuestion ==
  ASSUME BankTyped, Clean, QuestionCall
  PROVE  Clean'
  <1>1. /\ run = "on" /\ UNCHANGED <<run, mapIds, lst, call, dirs, files, idsFile>>
    BY QuestionCallTree DEF Idle, disk
  <1>2. OnInv /\ OneName(dirs)
    BY <1>1 DEF Clean
  <1>3. CASE tree' = tree
    BY <1>1, <1>2, <1>3 DEF Clean, OnInv, CallInv, KnownIn, Deleting, BeingDeleted, Injective
  <1>4. CASE tree' # tree
    <2>1. PICK gid \in DOMAIN mapIds : \E p \in Owners(gid) : \E y :
             /\ OpenedCtx(tree[p])[1].items \in Items => y \in Items
             /\ tree' = [tree EXCEPT ![p].ctx = [OpenedCtx(tree[p]) EXCEPT ![1].items = y]]
      BY <1>4, QuestionCallTree
    <2>2. PICK p \in Owners(gid) : \E y :
             /\ OpenedCtx(tree[p])[1].items \in Items => y \in Items
             /\ tree' = [tree EXCEPT ![p].ctx = [OpenedCtx(tree[p]) EXCEPT ![1].items = y]]
      BY <2>1
    <2>3. PICK y : /\ OpenedCtx(tree[p])[1].items \in Items => y \in Items
                   /\ tree' = [tree EXCEPT ![p].ctx = [OpenedCtx(tree[p]) EXCEPT ![1].items = y]]
      BY <2>2
    <2>4. gid \in Ids /\ p \in DOMAIN tree /\ tree[p].id = gid
      BY DEF BankTyped, IdsInv, IdTable, Owners
    <2> DEFINE o == OpenedCtx(tree[p])
               c == [o EXCEPT ![1].items = y]
               f == <<tree[p].path, tree[p].id>>
    <2>5. c \in Seq(Ctx)
      BY <2>3, <2>4, QuestionFileTyped DEF BankTyped, BankInv
    <2>6. o \in Seq(Ctx) /\ \A i \in 1..Len(o) : o[i].file = f
      BY <1>2, <2>4, OpenedCtxFiles DEF OnInv
    <2>7. tree' = [tree EXCEPT ![p].ctx = c]
      BY <2>3
    <2> HIDE DEF o, f
    <2>8. Len(c) = Len(o) /\ \A i \in 1..Len(c) : c[i].file = o[i].file
      <3>1. c = [o EXCEPT ![1] = [o[1] EXCEPT !.items = y]]
        OBVIOUS
      <3>2. DOMAIN c = DOMAIN o /\ DOMAIN o = 1..Len(o) /\ DOMAIN c = 1..Len(c)
        BY <2>5, <2>6, LenProperties
      <3>3. Len(c) = Len(o)
        BY <2>5, <2>6, <3>2, LenProperties
      <3>4. ASSUME NEW i \in 1..Len(c) PROVE c[i].file = o[i].file
        <4>1. CASE i = 1
          <5>1. o[1] \in Ctx
            BY <2>6, <3>3, <3>4, <4>1, ElementOfSeq
          <5>2. c[1] = [o[1] EXCEPT !.items = y]
            BY <3>2, <3>4, <4>1
          <5> QED BY <4>1, <5>1, <5>2 DEF Ctx
        <4>2. CASE i # 1
          <5>1. c[i] = o[i]
            BY <3>1, <3>2, <3>4, <4>2
          <5> QED BY <5>1
        <4> QED BY <4>1, <4>2
      <3> QED BY <3>3, <3>4
    <2>9. \A i \in 1..Len(c) : c[i].file = <<tree[p].path, tree[p].id>>
      <3> HIDE DEF c
      <3>1. \A i \in 1..Len(c) : c[i].file = f
        BY <2>6, <2>8
      <3> QED BY <3>1 DEF f
    <2> HIDE DEF c
    <2>10. /\ DiskTree(tree') /\ DOMAIN tree' = DOMAIN tree
           /\ \A q \in DOMAIN tree : /\ tree'[q].name = tree[q].name
                                     /\ tree'[q].id = tree[q].id
                                     /\ tree'[q].path = tree[q].path
           /\ \A d : Deleting(d)' <=> Deleting(d)
           /\ \A q : BeingDeleted(q)' <=> BeingDeleted(q)
           /\ CallInv => CallInv'
      BY <1>1, <1>2, <2>4, <2>5, <2>7, <2>9, CtxClean DEF OnInv
    <2>11. Paths(tree') = dirs'
      BY <1>1, <1>2, <2>10 DEF Paths, OnInv
    <2>12. OnInv'
      BY <1>1, <1>2, <2>10, <2>11 DEF OnInv, KnownIn, Injective
    <2> QED BY <1>1, <1>2, <2>12 DEF Clean
  <1> QED BY <1>3, <1>4

(* Without a call nothing is being deleted. *)
LEMMA NoCallClean ==
  /\ call = NoCall => CallInv /\ \A x : ~Deleting(x) /\ ~BeingDeleted(x)
  /\ call' = NoCall => CallInv' /\ \A x : ~Deleting(x)' /\ ~BeingDeleted(x)'
  <1>1. DOMAIN NoCall.frames = {} /\ ~\E i : i \in 1..Len(NoCall.frames)
    BY NoFrames DEF NoCall
  <1> QED BY <1>1 DEF CallInv, Deleting, BeingDeleted, NoCall

(* A group has the name of its directory. *)
LEMMA DirectoryNames ==
  ASSUME BankTyped, DiskTree(tree), Paths(tree) = dirs
  PROVE  \A r \in DOMAIN tree : tree[r].path \in dirs /\ Last(tree[r].path) = tree[r].name
  <1>1. Last(RootPath) = RootName
    BY RootIsPath DEF RootPath, Last
  <1>2. ASSUME NEW r \in DOMAIN tree PROVE Last(tree[r].path) = tree[r].name
    <2>1. CASE r = <<>>
      BY <1>1, <2>1 DEF DiskTree
    <2>2. CASE r # <<>>
      BY <2>2, DiskPaths DEF BankTyped, BankInv
    <2> QED BY <2>1, <2>2
  <1> QED BY <1>2 DEF Paths

(* The directory of a new group can be made: its parent's exists. *)
LEMMA CanAdd ==
  ASSUME Ordinary, BankTyped, OnInv, NEW p \in DOMAIN tree, NEW n \in Names
  PROVE  /\ CanCreate(Append(tree[p].path, n))
         /\ Front(Append(tree[p].path, n)) = tree[p].path /\ Last(Append(tree[p].path, n)) = n
  <1> DEFINE d == tree[p].path
  <1>1. d \in Path /\ d \in dirs
    BY DirectoryNames DEF BankTyped, BankInv, TreeTyped, Node, OnInv
  <1> HIDE DEF d
  <1>2. Front(Append(d, n)) = d /\ Last(Append(d, n)) = n
    BY <1>1, LongerPath
  <1>3. CanCreate(Append(d, n))
    BY <1>1, <1>2 DEF CanCreate, Ordinary
  <1> QED BY <1>2, <1>3 DEF d

(* A name addGroup() does not refuse is that of no group in the tree. *)
LEMMA NewName ==
  ASSUME Ordinary, OnInv, call = NoCall, NEW id \in FreshIds, NEW n \in Names, ~Repeated(id, n)
  PROVE  \A r \in DOMAIN tree : tree[r].id # id /\ tree[r].name # n
  <1>1. \A r \in DOMAIN tree : tree[r].id # id
    BY DEF FreshIds, IdAt
  <1>2. n \notin Range(mapIds) /\ n # RootName
    BY DEF Repeated, Ordinary
  <1>3. ASSUME NEW r \in DOMAIN tree \ {<<>>} PROVE tree[r].name # n
    <2>1. tree[r].id \in DOMAIN mapIds /\ mapIds[tree[r].id] = tree[r].name
      BY NoCallClean DEF OnInv
    <2> QED BY <1>2, <2>1 DEF Range
  <1> QED BY <1>1, <1>2, <1>3 DEF OnInv, DiskTree

(* addGroup() refuses a name that is registered, so the new directory has  *)
(* a name of its own and can be made.                                      *)
LEMMA CleanAdd ==
  ASSUME Ordinary, BankTyped, Clean, NEW id \in FreshIds, NEW n \in Names, NEW pid,
         AddGroup(pid, n, id)
  PROVE  Clean'
  <1>1. /\ run = "on" /\ call = NoCall /\ UNCHANGED <<files, idsFile>>
    BY DEF AddGroup, Idle
  <1>2. OnInv /\ OneName(dirs)
    BY <1>1 DEF Clean
  <1>3. CASE UNCHANGED <<run, memory, dirs>>
    BY <1>1, <1>2, <1>3 DEF memory, Clean, OnInv, CallInv, KnownIn, Deleting, BeingDeleted,
                            Injective
  <1>4. ASSUME NEW p \in Firsts(Tried(pid)), AddGroupTo(p, n, id), ~Repeated(id, n)
        PROVE  Clean'
    <2> DEFINE path == Append(tree[p].path, n)
    <2>1. p \in DOMAIN tree
      BY DEF Firsts, Tried
    <2>2. id \in Ids /\ id \notin DOMAIN mapIds /\ \A r \in DOMAIN tree : tree[r].id # id
      BY DEF FreshIds, IdAt
    <2>3. n \notin Range(mapIds) /\ n # RootName
      BY <1>4 DEF Repeated, Ordinary
    <2>4. \A r \in DOMAIN tree : tree[r].name # n
      BY <1>1, <1>2, <1>4, NewName
    <2>5. \A r \in DOMAIN tree : tree[r].path \in dirs /\ Last(tree[r].path) = tree[r].name
      BY <1>2, DirectoryNames DEF OnInv
    <2>7. CanCreate(path) /\ Front(path) = tree[p].path /\ Last(path) = n
      BY <1>2, <2>1, CanAdd
    <2>8. /\ Register(id, n) /\ tree' = WithSubgroup(tree, p, Group(n, id, path))
          /\ dirs' = dirs \cup {path} /\ call' = NoCall /\ run' = run
      BY <1>4, <2>7 DEF AddGroupTo, ReturnTrue
    <2>9. /\ DiskTree(tree')
          /\ Paths(tree') = Paths(tree) \cup {path}
          /\ \A s \in DOMAIN tree' : \/ s \in DOMAIN tree /\ tree'[s] = tree[s]
                                     \/ tree'[s].id = id /\ tree'[s].name = n
      <3> DEFINE u == tree'
      <3>1. u = WithSubgroup(tree, p, Group(n, id, Append(tree[p].path, n)))
        BY <2>8
      <3>2. TreeTyped(tree) /\ DiskTree(tree) /\ \A r \in DOMAIN tree : tree[r].id # id /\ tree[r].name # n
        BY <1>2, <2>2, <2>4 DEF BankTyped, BankInv, OnInv
      <3> HIDE DEF u
      <3>3. /\ DiskTree(u)
            /\ Paths(u) = Paths(tree) \cup {path}
            /\ \A s \in DOMAIN u : \/ s \in DOMAIN tree /\ u[s] = tree[s]
                                   \/ u[s].id = id /\ u[s].name = n
        BY <2>1, <2>2, <3>1, <3>2, AddDisk
      <3> QED BY <3>3 DEF u
    <2> HIDE DEF path
    <2>10. /\ mapIds' = [x \in DOMAIN mapIds \cup {id} |-> IF x \in DOMAIN mapIds THEN mapIds[x] ELSE n]
           /\ lst' = mapIds'
      BY <1>2, <2>8 DEF Register, With, OnInv
    <2>11. Injective(mapIds')
      <3>1. \A x \in DOMAIN mapIds : mapIds[x] # n
        BY <2>3 DEF Range
      <3> QED BY <1>2, <2>2, <2>10, <3>1 DEF OnInv, Injective
    <2>12. OneName(dirs')
      <3>1. \A d \in dirs : Last(d) # n
        BY <1>2, <2>4, <2>5 DEF Paths, OnInv
      <3> QED BY <1>2, <2>7, <2>8, <3>1 DEF OneName
    <2>13. ASSUME NEW s \in DOMAIN tree' \ {<<>>}
           PROVE  tree'[s].id \in DOMAIN mapIds' /\ mapIds'[tree'[s].id] = tree'[s].name
      <3>1. CASE s \in DOMAIN tree /\ tree'[s] = tree[s]
        <4>1. tree[s].id \in DOMAIN mapIds /\ mapIds[tree[s].id] = tree[s].name
          BY <1>1, <1>2, <3>1, NoCallClean DEF OnInv
        <4> QED BY <2>10, <3>1, <4>1
      <3>2. CASE tree'[s].id = id /\ tree'[s].name = n
        BY <2>2, <2>10, <3>2
      <3> QED BY <2>9, <3>1, <3>2
    <2>14. ASSUME NEW f \in DOMAIN files' PROVE KnownIn(lst, f)' /\ KnownIn(idsFile.items, f)'
      <3>1. KnownIn(lst, f) /\ KnownIn(idsFile.items, f)
        BY <1>1, <1>2, NoCallClean DEF OnInv
      <3> QED BY <1>1, <1>2, <2>10, <3>1 DEF KnownIn, OnInv
    <2>15. CallInv'
      BY <2>8, NoCallClean
    <2>16. OnInv'
      BY <1>2, <2>8, <2>9, <2>10, <2>11, <2>13, <2>14, <2>15 DEF OnInv
    <2> QED BY <1>1, <2>8, <2>12, <2>16 DEF Clean
  <1> QED BY <1>3, <1>4 DEF AddGroup

(* The id of a group is tried on that group only. *)
LEMMA TriedAlone ==
  ASSUME TreeTyped(tree), DiskTree(tree), NEW m \in DOMAIN tree
  PROVE  Tried(tree[m].id) = {m}
  <1> DEFINE Match(q) == tree[m].id = NoId \/ tree[q].id = tree[m].id
  <1>2. Tried(tree[m].id) =
          {q \in DOMAIN tree : Match(q) /\ \A r \in DOMAIN tree : IsStrictPrefix(r, q) => ~Match(r)}
    BY DEF Tried
  <1>3. DOMAIN tree \subseteq Seq(Nat) /\ <<>> \in DOMAIN tree
    BY DEF TreeTyped, Positions
  <1>4. CASE m = <<>>
    <2>1. \A q : Match(q)
      BY <1>4 DEF DiskTree
    <2>2. \A q \in DOMAIN tree : q # <<>> => IsStrictPrefix(<<>>, q)
      <3> SUFFICES ASSUME NEW q \in DOMAIN tree, q # <<>> PROVE IsStrictPrefix(<<>>, q)
        OBVIOUS
      <3>1. q \in Seq(Nat) /\ Len(q) \in Nat \ {0}
        BY <1>3, EmptySeq
      <3>2. <<>> \in Seq(Nat) /\ Len(<<>>) = 0 /\ \A i \in 1..0 : FALSE
        OBVIOUS
      <3> DEFINE e == <<>>
      <3>3. e \in Seq(Nat) /\ Len(e) = 0 /\ \A i \in 1..Len(e) : e[i] = q[i]
        BY <3>2
      <3> HIDE DEF e
      <3>4. Len(e) < Len(q)
        BY <3>1, <3>3
      <3>5. IsStrictPrefix(e, q)
        BY <3>1, <3>3, <3>4, PrefixPointwise
      <3> QED BY <3>5 DEF e
    <2>3. \A q \in DOMAIN tree : ~IsStrictPrefix(q, <<>>)
      <3> SUFFICES ASSUME NEW q \in DOMAIN tree, IsStrictPrefix(q, <<>>) PROVE FALSE
        OBVIOUS
      <3>1. q \in Seq(Nat) /\ Len(q) \in Nat /\ Len(<<>>) = 0
        BY <1>3, LenProperties
      <3>2. IsPrefix(q, <<>>) /\ q # <<>>
        BY DEF IsStrictPrefix
      <3>3. Len(q) = 0
        BY <3>1, <3>2 DEF IsPrefix
      <3> QED BY <3>1, <3>2, <3>3, EmptySeq
    <2> HIDE DEF Match
    <2> QED BY <1>2, <1>3, <1>4, <2>1, <2>2, <2>3
  <1>5. CASE m # <<>>
    <2>1. tree[m].id # NoId
      BY <1>5, NamesAssumption DEF DiskTree
    <2>2. \A q \in DOMAIN tree : Match(q) <=> q = m
      BY <2>1 DEF DiskTree
    <2>3. \A q \in DOMAIN tree : ~IsStrictPrefix(q, q)
      BY DEF IsStrictPrefix
    <2> HIDE DEF Match
    <2> QED BY <1>2, <2>2, <2>3
  <1> QED BY <1>4, <1>5

(* ctrlGroup() tries exactly the parent the window names. *)
LEMMA TriedParent ==
  ASSUME TreeTyped(tree), DiskTree(tree), NEW p \in DOMAIN tree \ {<<>>}
  PROVE  Tried(ParentId(p)) = {Front(p)}
  <1> DEFINE m == Front(p)
  <1>1. m \in DOMAIN tree /\ ParentId(p) = tree[m].id
    BY DiskPaths DEF ParentId, IdAt
  <1> HIDE DEF m
  <1>2. Tried(tree[m].id) = {m}
    BY <1>1, TriedAlone
  <1> QED BY <1>1, <1>2 DEF m

(* A group is found by its id among its siblings, and an empty id finds    *)
(* none.                                                                   *)
LEMMA FoundAlone ==
  ASSUME TreeTyped(tree), DiskTree(tree), NEW p \in DOMAIN tree
  PROVE  /\ \A g \in Subgroups(tree, p) : Found(p, tree[g].id) = {g}
         /\ Found(p, NoId) = {}
  <1>1. \A g \in Subgroups(tree, p) : g \in DOMAIN tree /\ g # <<>> /\ g \in Positions
    BY DEF Subgroups, TreeTyped
  <1>2. ASSUME NEW g \in Subgroups(tree, p) PROVE Found(p, tree[g].id) = {g}
    <2>1. {q \in Subgroups(tree, p) : tree[q].id = tree[g].id} = {g}
      BY <1>1 DEF DiskTree
    <2>2. Firsts({g}) = {g}
      BY <1>1, BeforeIrreflexive DEF Firsts
    <2> QED BY <2>1, <2>2 DEF Found
  <1>3. {q \in Subgroups(tree, p) : tree[q].id = NoId} = {}
    BY <1>1, NamesAssumption DEF DiskTree
  <1>4. Found(p, NoId) = {}
    BY <1>3 DEF Found, Firsts
  <1> QED BY <1>2, <1>4

(* A call of deleteGroup() that will not fail. *)
LEMMA CleanDeleteGroup ==
  ASSUME BankTyped, Clean, UNCHANGED budget,
         NEW p \in DOMAIN tree \ {<<>>}, NEW mayFail \in BOOLEAN,
         DeleteGroup(ParentId(p), IdAt(p), mayFail)
  PROVE  Clean'
  <1>1. /\ run = "on" /\ call = NoCall
        /\ UNCHANGED <<run, mapIds, lst, tree, dirs, files, idsFile>>
    BY DEF DeleteGroup, Idle, disk
  <1>2. OnInv /\ OneName(dirs)
    BY <1>1 DEF Clean
  <1>3. mayFail = FALSE
    <2>1. ~Spend("faults")
      BY DEF Spend, BankTyped, IdsInv
    <2> QED BY <2>1 DEF DeleteGroup
  <1>4. call'.op = "deleteGroup" /\ call'.id = tree[p].id /\ call'.mayFail = FALSE
        /\ call'.todo = {Front(p)} /\ call'.frames = <<>>
    <2>1. Tried(ParentId(p)) = {Front(p)}
      BY <1>2, TriedParent DEF OnInv, BankTyped, BankInv
    <2> QED BY <1>3, <2>1 DEF DeleteGroup, NoCall, IdAt
  <1>5. CallInv'
    BY <1>1, <1>4, NoFrames DEF CallInv
  <1>6. \A x : ~Deleting(x)' /\ ~BeingDeleted(x)'
    <2>1. DOMAIN call'.frames = {}
      BY <1>4
    <2> QED BY <1>4, <2>1 DEF Deleting, BeingDeleted
  <1>7. OnInv'
    BY <1>1, <1>2, <1>5, <1>6, NoCallClean DEF OnInv, KnownIn, Injective
  <1> QED BY <1>1, <1>2, <1>7 DEF Clean

(* deleteGroup() drops the id of a group whose files will go with its      *)
(* directory.                                                              *)
LEMMA CleanUnregister ==
  ASSUME BankTyped, OnInv, OneName(dirs),
         NEW g \in DOMAIN tree \ {<<>>}, ~BeingDeleted(g), Unregister(tree[g].id),
         UNCHANGED <<tree, dirs, files, idsFile>>, CallInv',
         \A q : BeingDeleted(q) \/ q = g => BeingDeleted(q)',
         \A d : Deleting(d) \/ d = tree[g].path => Deleting(d)'
  PROVE  OnInv'
  <1> DEFINE id == tree[g].id
  <1>1. /\ mapIds' = [x \in DOMAIN mapIds \ {id} |-> mapIds[x]] /\ lst' = mapIds'
        /\ id \in DOMAIN mapIds /\ mapIds[id] = tree[g].name
    BY DEF Unregister, Without, OnInv
  <1>2. Injective(mapIds')
    BY <1>1 DEF OnInv, Injective
  <1>3. ASSUME NEW q \in DOMAIN tree \ {<<>>}, ~BeingDeleted(q)'
        PROVE  tree[q].id \in DOMAIN mapIds' /\ mapIds'[tree[q].id] = tree[q].name
    <2>1. ~BeingDeleted(q) /\ q # g
      BY <1>3
    <2>2. tree[q].id \in DOMAIN mapIds /\ mapIds[tree[q].id] = tree[q].name
      BY <2>1 DEF OnInv
    <2>3. tree[q].id # id
      BY <2>1 DEF OnInv, DiskTree
    <2> QED BY <1>1, <2>2, <2>3
  <1>4. ASSUME NEW f \in DOMAIN files, ~Deleting(f[1])'
        PROVE  KnownIn(lst', f) /\ KnownIn(idsFile.items, f)
    <2>1. ~Deleting(f[1]) /\ f[1] # tree[g].path
      BY <1>4
    <2>2. KnownIn(mapIds, f) /\ KnownIn(idsFile.items, f)
      BY <2>1 DEF OnInv
    <2>3. f[2] # id
      <3>1. f[1] \in dirs /\ tree[g].path \in dirs /\ Last(tree[g].path) = tree[g].name
        BY DirectoryNames DEF BankTyped, BankInv, FilesTyped, OnInv
      <3> QED BY <1>1, <2>1, <2>2, <3>1 DEF KnownIn, OneName
    <2> QED BY <1>1, <2>2, <2>3 DEF KnownIn
  <1> QED BY <1>1, <1>2, <1>3, <1>4 DEF OnInv, KnownIn

(* A directory counts as below itself. *)
LEMMA BelowItself == \A d \in Path : IsPrefix(d, d)
  BY PathProperties, PrefixPointwise

(* The first and the innermost of the calls of deleteGroup(). *)
LEMMA FramesFirst ==
  ASSUME BankTyped, call.frames # <<>>
  PROVE  /\ call.frames \in Seq(Frame) /\ Len(call.frames) \in Nat \ {0}
         /\ 1 \in 1..Len(call.frames) /\ Len(call.frames) \in 1..Len(call.frames)
         /\ top = call.frames[Len(call.frames)]
         /\ \A q : BeingDeleted(q) <=> \E i \in 1..Len(call.frames) : call.frames[i].at = q
  <1>1. call.frames \in Seq(Frame)
    BY DEF BankTyped, BankInv, CallTyped
  <1>2. Len(call.frames) \in Nat \ {0} /\ Last(call.frames) = call.frames[Len(call.frames)]
    BY <1>1, FrontProperties
  <1>3. DOMAIN call.frames = 1..Len(call.frames)
    BY <1>1, LenProperties
  <1> QED BY <1>1, <1>2, <1>3 DEF top, BeingDeleted

(* In an undisturbed session deleteGroup() finds the one group of the id,  *)
(* drops the id, and works on that group first.                            *)
LEMMA TryFinds ==
  ASSUME BankTyped, Clean, DeleteTry
  PROVE  /\ run = "on" /\ OnInv /\ OneName(dirs)
         /\ call.op = "deleteGroup" /\ call.mayFail = FALSE /\ call.frames = <<>>
         /\ call'.op = call.op /\ call'.mayFail = FALSE
         /\ UNCHANGED <<run, tree, dirs, files, idsFile>>
         /\ \E g \in DOMAIN tree \ {<<>>} :
              /\ tree[g].id = call.id /\ Unregister(tree[g].id)
              /\ call'.frames # <<>> /\ Len(call'.frames) = 1
              /\ DOMAIN call'.frames = {1} /\ call'.frames[1].at = g
  <1>1. call.op = "deleteGroup" /\ call.frames = <<>>
    BY DEF DeleteTry
  <1>2. run = "on"
    BY <1>1 DEF BankTyped, IdsInv, NoCall
  <1>3. OnInv /\ OneName(dirs)
    BY <1>2 DEF Clean
  <1>4. PICK g \in DOMAIN tree \ {<<>>} : call.id = tree[g].id /\ call.todo = {Front(g)}
    BY <1>1, <1>3 DEF OnInv, CallInv
  <1>5. PICK p \in Firsts(call.todo) : DeleteFrom(p, call.id, call.todo \ {p}, <<>>)
    BY DEF DeleteTry
  <1>6. p = Front(g)
    BY <1>4 DEF Firsts
  <1>7. g \in Subgroups(tree, p)
    BY <1>6 DEF Subgroups
  <1>8. Found(p, call.id) = {g}
    <2>1. p \in DOMAIN tree
      BY <1>3, <1>6, DiskPaths DEF OnInv, BankTyped, BankInv
    <2> QED BY <1>3, <1>4, <1>7, <2>1, FoundAlone DEF OnInv, BankTyped, BankInv
  <1> DEFINE fr == [at |-> g, turn |-> 1, turns |-> Cardinality(Subgroups(tree, g))]
  <1>9. /\ Unregister(tree[g].id) /\ UNCHANGED <<run, tree, dirs, files, idsFile>>
        /\ call' = [call EXCEPT !.todo = call.todo \ {p}, !.frames = Append(<<>>, fr)]
    BY <1>4, <1>5, <1>8 DEF DeleteFrom, disk
  <1>10. call'.op = "deleteGroup" /\ call'.mayFail = call.mayFail
         /\ call'.frames = Append(<<>>, fr)
    BY <1>1, <1>9 DEF BankTyped, IdsInv
  <1>11. /\ Append(<<>>, fr) # <<>> /\ Len(Append(<<>>, fr)) = 1
         /\ DOMAIN Append(<<>>, fr) = {1} /\ Append(<<>>, fr)[1] = fr
    <2> HIDE DEF fr
    <2> QED OBVIOUS
  <1>12. /\ call'.frames # <<>> /\ Len(call'.frames) = 1 /\ DOMAIN call'.frames = {1}
         /\ call'.frames[1].at = g
    BY <1>10, <1>11
  <1> HIDE DEF fr
  <1>13. call.mayFail = FALSE
    BY <1>1, <1>3 DEF OnInv, CallInv
  <1> QED BY <1>1, <1>2, <1>3, <1>4, <1>9, <1>10, <1>12, <1>13

(* deleteGroup() finds the group that is meant. *)
LEMMA CleanTry ==
  ASSUME BankTyped, Clean, DeleteTry
  PROVE  Clean'
  <1>1. /\ run = "on" /\ OnInv /\ OneName(dirs)
        /\ call.frames = <<>> /\ call'.op = "deleteGroup" /\ call'.mayFail = FALSE
        /\ UNCHANGED <<run, tree, dirs, files, idsFile>>
    BY TryFinds
  <1>2. PICK g \in DOMAIN tree \ {<<>>} :
          /\ Unregister(tree[g].id)
          /\ call'.frames # <<>> /\ Len(call'.frames) = 1
          /\ DOMAIN call'.frames = {1} /\ call'.frames[1].at = g
    BY TryFinds
  <1>3. IsPrefix(tree[g].path, tree[g].path)
    BY BelowItself DEF BankTyped, BankInv, TreeTyped, Node
  <1>4. CallInv'
    <2>1. 1..Len(call'.frames) = {1}
      BY <1>2
    <2> QED BY <1>1, <1>2, <1>3, <2>1 DEF CallInv
  <1>5. \A q : BeingDeleted(q)' <=> q = g
    BY <1>2 DEF BeingDeleted
  <1>6. \A d : Deleting(d)' <=> IsPrefix(tree[g].path, d)
    BY <1>1, <1>2 DEF Deleting
  <1>7. \A q, d : ~BeingDeleted(q) /\ ~Deleting(d)
    <2>1. DOMAIN call.frames = {}
      BY <1>1
    <2> QED BY <1>1, <2>1 DEF BeingDeleted, Deleting
  <1>8. OnInv'
    BY <1>1, <1>2, <1>3, <1>4, <1>5, <1>6, <1>7, CleanUnregister
  <1> QED BY <1>1, <1>8 DEF Clean

(* A deletion that is not one that may fail does not, and comes to its     *)
(* end.                                                                    *)
LEMMA CleanImpossible ==
  ASSUME BankTyped, Clean
  PROVE  ~CallFails /\ ~UpdateTry /\ ~DeleteFails
  <1>1. CASE run # "on"
    <2>1. call = NoCall
      BY <1>1 DEF BankTyped, IdsInv
    <2> QED BY <2>1 DEF CallFails, UpdateTry, DeleteFails, Removing, InLoop, NoCall
  <1>2. CASE run = "on"
    <2>1. CallInv
      BY <1>2 DEF Clean, OnInv
    <2>2. ~UpdateTry
      BY <2>1 DEF CallInv, UpdateTry
    <2>3. ~CallFails
      BY <2>1 DEF CallInv, CallFails
    <2>4. ~DeleteFails
      BY <2>1 DEF CallInv, DeleteFails, NoCall
    <2> QED BY <2>2, <2>3, <2>4
  <1> QED BY <1>1, <1>2

(* A turn of the loop counts it, and changes no call's group. *)
LEMMA TurnFrames ==
  ASSUME NEW frames \in Seq(Frame), frames # <<>>, NEW x \in Frame, x.at = Last(frames).at,
         NEW next, next = Append(Front(frames), x)
  PROVE  /\ next \in Seq(Frame) /\ Len(next) = Len(frames) /\ next # <<>>
         /\ \A i \in 1..Len(frames) : next[i].at = frames[i].at
  <1>1. /\ Front(frames) \in Seq(Frame) /\ Len(frames) \in Nat \ {0}
        /\ Len(Front(frames)) = Len(frames) - 1
        /\ \A i \in 1..(Len(frames) - 1) : Front(frames)[i] = frames[i]
        /\ Last(frames) = frames[Len(frames)]
    BY FrontProperties
  <1> DEFINE f == Front(frames)
             n == Len(frames)
  <1>2. /\ f \in Seq(Frame) /\ Len(f) = n - 1 /\ n \in Nat \ {0}
        /\ \A i \in 1..(n - 1) : f[i] = frames[i]
        /\ x.at = frames[n].at
    BY <1>1
  <1> HIDE DEF f
  <1>3. /\ Append(f, x) \in Seq(Frame) /\ Len(Append(f, x)) = n
        /\ \A i \in 1..(n - 1) : Append(f, x)[i] = f[i]
        /\ Append(f, x)[n] = x
    BY <1>2, AppendProperties
  <1>4. next = Append(f, x)
    BY DEF f
  <1> HIDE DEF n
  <1>5. \A i \in 1..n : i \in 1..(n - 1) \/ i = n
    BY <1>2
  <1>6. \A i \in 1..n : next[i].at = frames[i].at
    BY <1>2, <1>3, <1>4, <1>5
  <1>7. next # <<>>
    BY <1>2, <1>3, <1>4, EmptySeq
  <1> QED BY <1>3, <1>4, <1>6, <1>7 DEF n

(* A turn of the loop in deleteGroup() goes down to the subgroup in its    *)
(* slot, which is not being deleted yet, or past the end to none.          *)
LEMMA CleanTurn ==
  ASSUME BankTyped, Clean, DeleteTurn
  PROVE  Clean'
  <1> DEFINE slot == Append(top.at, top.turn)
             id == IF slot \in DOMAIN tree THEN tree[slot].id ELSE NoId
             x == [top EXCEPT !.turn = top.turn + 1]
             next == Append(Front(call.frames), x)
             n == Len(call.frames)
  <1>1. InLoop /\ DeleteFrom(top.at, id, call.todo, next)
    BY DEF DeleteTurn
  <1>2. /\ run = "on" /\ call.frames # <<>> /\ top \in Frame /\ top.at \in DOMAIN tree \ {<<>>}
    BY <1>1, InLoopTyped
  <1>3. OnInv /\ OneName(dirs)
    BY <1>2 DEF Clean
  <1>4. /\ call.frames \in Seq(Frame) /\ n \in Nat \ {0} /\ 1 \in 1..n /\ n \in 1..n
        /\ top = call.frames[n]
        /\ \A q : BeingDeleted(q) <=> \E i \in 1..n : call.frames[i].at = q
    BY <1>2, FramesFirst
  <1>5. x \in Frame /\ x.at = Last(call.frames).at
    BY <1>2 DEF Frame, top
  <1>6. /\ next \in Seq(Frame) /\ Len(next) = n /\ next # <<>>
        /\ \A i \in 1..n : next[i].at = call.frames[i].at
    <2> HIDE DEF x
    <2>1. next = Append(Front(call.frames), x)
      OBVIOUS
    <2> DEFINE fs == call.frames
    <2>2. fs \in Seq(Frame) /\ fs # <<>> /\ x.at = Last(fs).at /\ next = Append(Front(fs), x)
      BY <1>2, <1>4, <1>5, <2>1
    <2> HIDE DEF next, fs
    <2>3. /\ next \in Seq(Frame) /\ Len(next) = Len(fs) /\ next # <<>>
          /\ \A i \in 1..Len(fs) : next[i].at = fs[i].at
      BY <1>5, <2>2, TurnFrames
    <2> QED BY <2>3 DEF fs
  <1>7. UNCHANGED <<run, tree, dirs, files, idsFile>>
    BY <1>1 DEF DeleteFrom, disk
  <1>8. call.op = "deleteGroup" /\ call.mayFail = FALSE
    BY <1>2, <1>3 DEF OnInv, CallInv, NoCall
  <1> HIDE DEF next, x, n
  <1>9. CASE slot \in DOMAIN tree
    <2> DEFINE fr == [at |-> slot, turn |-> 1, turns |-> Cardinality(Subgroups(tree, slot))]
               next2 == Append(next, fr)
    <2>1. /\ slot \in Positions /\ slot # <<>> /\ Front(slot) = top.at
          /\ Len(slot) = Len(top.at) + 1
      <3> DEFINE p == top.at
                 k == top.turn
      <3>1. p \in Seq(Nat) /\ k \in Nat
        BY <1>2 DEF Frame, Positions
      <3> HIDE DEF p, k
      <3>2. /\ Append(p, k) \in Seq(Nat) /\ Append(p, k) # <<>> /\ Front(Append(p, k)) = p
            /\ Len(Append(p, k)) = Len(p) + 1
        BY <3>1, AppendProperties, FrontOfAppend
      <3> QED BY <3>2 DEF p, k, Positions
    <2> HIDE DEF slot
    <2>2. slot \in Subgroups(tree, top.at)
      BY <1>9, <2>1 DEF Subgroups
    <2>3. Found(top.at, id) = {slot}
      BY <1>2, <1>3, <1>9, <2>2, FoundAlone DEF OnInv, BankTyped, BankInv
    <2>4. /\ Unregister(tree[slot].id)
          /\ call' = [call EXCEPT !.todo = call.todo, !.frames = next2]
      BY <1>1, <1>9, <2>3 DEF DeleteFrom
    <2>5. /\ call'.op = "deleteGroup" /\ call'.mayFail = FALSE /\ call'.frames = next2
      BY <1>8, <2>4 DEF BankTyped, IdsInv
    <2>6. fr \in Frame /\ fr.at = slot
      BY <1>9, <2>1, SubgroupsCounted DEF Frame, BankTyped, BankInv
    <2> HIDE DEF fr
    <2>7. /\ next2 \in Seq(Frame) /\ Len(next2) = n + 1
          /\ \A i \in 1..n : next2[i] = next[i]
          /\ next2[n + 1] = fr
      BY <1>6, <2>6, AppendProperties
    <2> HIDE DEF next2
    <2>8. /\ DOMAIN next2 = 1..(n + 1) /\ next2 # <<>>
          /\ 1 \in 1..(n + 1) /\ \A i \in 1..(n + 1) : i \in 1..n \/ i = n + 1
          /\ \A i \in 1..n : i \in 1..(n + 1)
          /\ n + 1 \in 1..(n + 1)
      BY <1>4, <2>7, EmptySeq, LenProperties
    <2>9. /\ \A i \in 1..n : next2[i].at = call.frames[i].at
          /\ next2[n + 1].at = slot
      BY <1>6, <2>6, <2>7
    <2>10. \A q : BeingDeleted(q)' <=> BeingDeleted(q) \/ q = slot
      <3>1. \A q : BeingDeleted(q)' <=> \E i \in 1..(n + 1) : next2[i].at = q
        BY <2>5, <2>8 DEF BeingDeleted
      <3>2. \A q : (\E i \in 1..(n + 1) : next2[i].at = q)
                     <=> (\E i \in 1..n : next2[i].at = q) \/ q = slot
        BY <2>8, <2>9
      <3>3. \A q : (\E i \in 1..n : next2[i].at = q) <=> \E i \in 1..n : call.frames[i].at = q
        BY <2>9
      <3> QED BY <1>4, <3>1, <3>2, <3>3
    <2>11. \A d : Deleting(d)' <=> Deleting(d)
      BY <1>2, <1>4, <1>7, <2>5, <2>8, <2>9 DEF Deleting
    <2> DEFINE first == tree[call.frames[1].at].path
    <2>12. IsPrefix(first, tree[top.at].path)
      BY <1>3, <1>4 DEF OnInv, CallInv, n
    <2>13. IsPrefix(first, tree[slot].path)
      <3> DEFINE d == tree[slot].path
      <3>1. d \in Path /\ Front(d) = tree[top.at].path
        BY <1>3, <1>9, <2>1, DiskPaths DEF OnInv, BankTyped, BankInv
      <3>2. first \in Path
        BY <1>4 DEF BankTyped, BankInv, CallTyped, TreeTyped, Node, n
      <3> HIDE DEF d, first
      <3>3. d \in Seq(AnyName) /\ first \in Seq(AnyName) /\ d # <<>>
        BY <3>1, <3>2, PathProperties
      <3>4. IsPrefix(first, Front(d))
        BY <2>12, <3>1
      <3>5. IsPrefix(first, d)
        BY <3>3, <3>4, PrefixOfFront
      <3> QED BY <3>5 DEF d
    <2>14. Deleting(tree[slot].path)
      BY <1>2, <2>13 DEF Deleting
    <2>15. ~BeingDeleted(slot)
      <3>1. Len(top.at) \in Nat
        BY <1>2, LenProperties DEF Frame, Positions
      <3>2. ASSUME NEW i \in 1..n PROVE Len(call.frames[i].at) <= Len(top.at)
        <4>1. CASE i = n
          BY <1>4, <3>1, <4>1
        <4>2. CASE i # n
          <5>1. i < n
            BY <1>4, <4>2
          <5>2. Len(call.frames[i].at) < Len(call.frames[n].at)
            BY <1>4, <5>1 DEF BankTyped, BankInv, CallTyped, n
          <5>3. call.frames[i] \in Frame
            BY <1>4, ElementOfSeq DEF n
          <5>4. Len(call.frames[i].at) \in Nat
            BY <5>3, LenProperties DEF Frame, Positions
          <5> QED BY <1>4, <3>1, <5>2, <5>4
        <4> QED BY <4>1, <4>2
      <3>3. \A i \in 1..n : call.frames[i].at # slot
        BY <2>1, <3>1, <3>2
      <3> QED BY <1>4, <3>3
    <2>16. CallInv'
      <3>1. \A i \in 1..(n + 1) :
              IsPrefix(tree[next2[1].at].path, tree[next2[i].at].path)
        <4>1. next2[1].at = call.frames[1].at
          BY <1>4, <2>9
        <4>2. \A i \in 1..n : IsPrefix(first, tree[next2[i].at].path)
          BY <1>3, <2>9 DEF OnInv, CallInv, n
        <4>3. IsPrefix(first, tree[next2[n + 1].at].path)
          BY <2>9, <2>13
        <4> QED BY <2>8, <4>1, <4>2, <4>3
      <3> QED BY <1>7, <2>5, <2>7, <2>8, <3>1 DEF CallInv
    <2>17. OnInv'
      <3>1. slot \in DOMAIN tree \ {<<>>}
        BY <1>9, <2>1
      <3> QED BY <1>3, <1>7, <2>4, <2>10, <2>11, <2>14, <2>15, <2>16, <3>1, CleanUnregister
    <2> QED BY <1>2, <1>3, <1>7, <2>17 DEF Clean
  <1>10. CASE slot \notin DOMAIN tree
    <2>1. Found(top.at, NoId) = {}
      BY <1>2, <1>3, FoundAlone DEF OnInv, BankTyped, BankInv
    <2>2. Unregister(NoId) /\ call' = [call EXCEPT !.todo = call.todo, !.frames = next]
      BY <1>1, <1>10, <2>1 DEF DeleteFrom
    <2>3. call'.op = "deleteGroup" /\ call'.mayFail = FALSE /\ call'.frames = next
      BY <1>8, <2>2 DEF BankTyped, IdsInv
    <2>4. mapIds' = mapIds /\ lst' = lst
      <3>1. NoId \notin DOMAIN mapIds /\ NoId \notin DOMAIN lst
        BY NamesAssumption DEF BankTyped, IdsInv, IdTable
      <3>2. mapIds = [z \in DOMAIN mapIds |-> mapIds[z]] /\ lst = [z \in DOMAIN lst |-> lst[z]]
        BY DEF BankTyped, IdsInv, IdTable
      <3> QED BY <2>2, <3>1, <3>2 DEF Unregister, Without
    <2>5. \A q : BeingDeleted(q)' <=> BeingDeleted(q)
      <3>1. DOMAIN next = 1..n
        BY <1>6, LenProperties
      <3>2. \A q : BeingDeleted(q)' <=> \E i \in 1..n : next[i].at = q
        BY <2>3, <3>1 DEF BeingDeleted
      <3>3. \A q : (\E i \in 1..n : next[i].at = q) <=> \E i \in 1..n : call.frames[i].at = q
        BY <1>6
      <3> QED BY <1>4, <3>2, <3>3
    <2>6. \A d : Deleting(d)' <=> Deleting(d)
      BY <1>2, <1>4, <1>6, <1>7, <2>3 DEF Deleting
    <2>7. CallInv'
      <3>1. \A i \in 1..n : IsPrefix(tree[next[1].at].path, tree[next[i].at].path)
        BY <1>3, <1>4, <1>6 DEF OnInv, CallInv, n
      <3> QED BY <1>6, <1>7, <2>3, <3>1 DEF CallInv
    <2>8. OnInv'
      BY <1>3, <1>7, <2>4, <2>5, <2>6, <2>7 DEF OnInv, KnownIn, Injective
    <2> QED BY <1>2, <1>3, <1>7, <2>8 DEF Clean
  <1> QED BY <1>9, <1>10

(* remove_all() and erase() take a directory and its group away together. *)
LEMMA CleanDeleteEnds ==
  ASSUME Ordinary, BankTyped, Clean, DeleteEnds
  PROVE  Clean'
  <1> DEFINE q == top.at
             n == Len(call.frames)
             path == tree[q].path
  <1>1. /\ InLoop /\ RemoveAll(path) /\ idsFile' = idsFile
        /\ UNCHANGED <<run, mapIds, lst>>
        /\ tree' = WithoutGroup(tree, q)
        /\ \/ n = 1 /\ call' = NoCall
           \/ n > 1 /\ call' = [call EXCEPT !.frames = Front(call.frames)]
    BY DEF DeleteEnds, Removing, ReturnTrue, Ordinary
  <1>2. /\ run = "on" /\ call.frames # <<>> /\ q \in DOMAIN tree \ {<<>>}
        /\ FramesTyped(call.frames)
    BY <1>1, InLoopTyped
  <1>3. OnInv /\ OneName(dirs)
    BY <1>2 DEF Clean
  <1>4. /\ call.frames \in Seq(Frame) /\ n \in Nat \ {0} /\ 1 \in 1..n /\ n \in 1..n
        /\ q = call.frames[n].at
        /\ \A r : BeingDeleted(r) <=> \E i \in 1..n : call.frames[i].at = r
    BY <1>2, FramesFirst
  <1> HIDE DEF n
  <1>5. /\ DiskTree(tree')
        /\ Paths(tree') = {d \in Paths(tree) : ~IsPrefix(path, d)}
        /\ \A s \in DOMAIN tree' \ {<<>>} : \E r \in DOMAIN tree \ {<<>>} :
             tree'[s] = tree[r] /\ ~IsPrefix(q, r) /\ (Len(r) < Len(q) => s = r)
        /\ \A r \in DOMAIN tree : Len(r) < Len(q) => r \in DOMAIN tree' /\ tree'[r] = tree[r]
    <2> DEFINE u == tree'
    <2>1. TreeTyped(tree) /\ DiskTree(tree) /\ u = WithoutGroup(tree, q)
      BY <1>1, <1>3 DEF BankTyped, BankInv, OnInv
    <2> HIDE DEF u, q
    <2>2. /\ DiskTree(u)
          /\ Paths(u) = {d \in Paths(tree) : ~IsPrefix(tree[q].path, d)}
          /\ \A s \in DOMAIN u \ {<<>>} : \E r \in DOMAIN tree \ {<<>>} :
               u[s] = tree[r] /\ ~IsPrefix(q, r) /\ (Len(r) < Len(q) => s = r)
          /\ \A r \in DOMAIN tree : Len(r) < Len(q) => r \in DOMAIN u /\ u[r] = tree[r]
      BY <1>2, <2>1, WithoutGroupDisk
    <2> QED BY <2>2 DEF u
  <1>6. /\ dirs' = {d \in dirs : ~IsPrefix(path, d)}
        /\ \A f \in DOMAIN files' : f \in DOMAIN files /\ ~IsPrefix(path, f[1])
    BY <1>1 DEF RemoveAll, Without
  <1>7. Paths(tree') = dirs'
    BY <1>3, <1>5, <1>6 DEF OnInv
  <1>8. OneName(dirs')
    BY <1>3, <1>6 DEF OneName
  <1>9. IsPrefix(q, q)
    <2>1. q \in Seq(Nat)
      BY <1>2 DEF BankTyped, BankInv, TreeTyped, Positions
    <2> HIDE DEF q
    <2> QED BY <2>1, PrefixPointwise
  <1>10. CASE n = 1 /\ call' = NoCall
    <2>1. CallInv' /\ \A x : ~Deleting(x)' /\ ~BeingDeleted(x)'
      BY <1>10, NoCallClean
    <2>2. ASSUME NEW s \in DOMAIN tree' \ {<<>>}
          PROVE  tree'[s].id \in DOMAIN mapIds /\ mapIds[tree'[s].id] = tree'[s].name
      <3>1. PICK r \in DOMAIN tree \ {<<>>} : tree'[s] = tree[r] /\ ~IsPrefix(q, r)
        BY <1>5
      <3>2. ~BeingDeleted(r)
        BY <1>4, <1>9, <1>10, <3>1
      <3> QED BY <1>3, <3>1, <3>2 DEF OnInv
    <2>3. ASSUME NEW f \in DOMAIN files'
          PROVE  KnownIn(lst, f) /\ KnownIn(idsFile.items, f)
      <3>1. f \in DOMAIN files /\ ~Deleting(f[1])
        BY <1>4, <1>6, <1>10 DEF Deleting
      <3> QED BY <1>3, <3>1 DEF OnInv
    <2>4. OnInv'
      BY <1>1, <1>3, <1>5, <1>7, <2>1, <2>2, <2>3 DEF OnInv, KnownIn, Injective
    <2> QED BY <1>1, <1>2, <1>8, <2>4 DEF Clean
  <1>11. CASE n > 1 /\ call' = [call EXCEPT !.frames = Front(call.frames)]
    <2> DEFINE fs == Front(call.frames)
    <2>1. /\ call'.op = call.op /\ call'.mayFail = call.mayFail /\ call'.frames = fs
      BY <1>11 DEF BankTyped, IdsInv
    <2>2. /\ fs \in Seq(Frame) /\ Len(fs) = n - 1 /\ \A i \in 1..(n - 1) : fs[i] = call.frames[i]
      BY <1>2, <1>4, FrontProperties DEF n
    <2>3. \A i \in 1..(n - 1) : i \in 1..n /\ i < n
      BY <1>4
    <2>4. \A i \in 1..(n - 1) : /\ call.frames[i].at \in DOMAIN tree
                                /\ Len(call.frames[i].at) < Len(q)
      BY <1>2, <1>4, <2>3 DEF FramesTyped, n
    <2>5. \A i \in 1..(n - 1) : /\ fs[i].at \in DOMAIN tree'
                                /\ tree'[fs[i].at] = tree[call.frames[i].at]
      BY <1>5, <2>2, <2>4
    <2> HIDE DEF fs
    <2>6. 1 \in 1..(n - 1) /\ fs # <<>>
      <3>1. 1 \in 1..(n - 1) /\ Len(fs) # 0
        BY <1>4, <1>11, <2>2
      <3>2. Len(<<>>) = 0
        OBVIOUS
      <3> QED BY <3>1, <3>2
    <2>7. \A d : Deleting(d)' <=> Deleting(d)
      BY <1>2, <2>1, <2>5, <2>6 DEF Deleting
    <2>8. \A r : BeingDeleted(r)' <=> \E i \in 1..(n - 1) : call.frames[i].at = r
      <3>1. DOMAIN fs = 1..(n - 1)
        BY <2>2, LenProperties
      <3>2. \A r : BeingDeleted(r)' <=> \E i \in 1..(n - 1) : fs[i].at = r
        BY <2>1, <3>1 DEF BeingDeleted
      <3> QED BY <2>2, <3>2
    <2>9. CallInv'
      <3>1. call.op = "deleteGroup" /\ call.mayFail = FALSE
        BY <1>2, <1>3 DEF OnInv, CallInv, NoCall
      <3>2. \A i \in 1..(n - 1) : IsPrefix(tree'[fs[1].at].path, tree'[fs[i].at].path)
        <4>1. \A i \in 1..(n - 1) :
                IsPrefix(tree[call.frames[1].at].path, tree[call.frames[i].at].path)
          BY <1>3, <2>3 DEF OnInv, CallInv, n
        <4> QED BY <2>5, <2>6, <4>1
      <3> QED BY <2>1, <2>2, <2>6, <3>1, <3>2 DEF CallInv
    <2>10. ASSUME NEW s \in DOMAIN tree' \ {<<>>}, ~BeingDeleted(s)'
           PROVE  tree'[s].id \in DOMAIN mapIds /\ mapIds[tree'[s].id] = tree'[s].name
      <3>1. PICK r \in DOMAIN tree \ {<<>>} :
              tree'[s] = tree[r] /\ ~IsPrefix(q, r) /\ (Len(r) < Len(q) => s = r)
        BY <1>5
      <3>2. ~BeingDeleted(r)
        <4>1. ASSUME NEW i \in 1..n, call.frames[i].at = r PROVE FALSE
          <5>1. i # n
            BY <1>4, <1>9, <3>1, <4>1
          <5>2. i \in 1..(n - 1)
            BY <1>4, <5>1
          <5>3. s = r
            BY <2>4, <3>1, <4>1, <5>2
          <5> QED BY <2>8, <2>10, <4>1, <5>2, <5>3
        <4> QED BY <1>4, <4>1
      <3> QED BY <1>3, <3>1, <3>2 DEF OnInv
    <2>11. ASSUME NEW f \in DOMAIN files', ~Deleting(f[1])
           PROVE  KnownIn(lst, f) /\ KnownIn(idsFile.items, f)
      BY <1>3, <1>6, <2>11 DEF OnInv
    <2>12. OnInv'
      BY <1>1, <1>3, <1>5, <1>7, <2>7, <2>9, <2>10, <2>11 DEF OnInv, KnownIn, Injective
    <2> QED BY <1>1, <1>2, <1>8, <2>12 DEF Clean
  <1> QED BY <1>1, <1>10, <1>11

(* Before the first start there is nothing on disk. *)
LEMMA CleanInit == Init => CleanInv
  <1> SUFFICES ASSUME Init PROVE Clean
    BY DEF CleanInv
  <1>1. dirs = {} /\ DOMAIN files = {} /\ run = "off" /\ DOMAIN idsFile.items = {}
    BY DEF Init, Stored
  <1> QED BY <1>1 DEF Clean, OneName, SavedInv, Injective

(* The invariant of undisturbed sessions is inductive. *)
LEMMA CleanStep ==
  ASSUME Ordinary, BankTyped, BankTyped', CleanInv, [Next]_vars
  PROVE  CleanInv'
  <1> SUFFICES ASSUME Undisturbed' PROVE Clean'
    BY DEF CleanInv
  <1>1. Undisturbed /\ UNCHANGED budget
    BY BudgetStep, NextIsStep DEF BankTyped
  <1>2. Clean
    BY <1>1 DEF CleanInv
  <1>3. CASE UNCHANGED vars
    BY <1>2, <1>3, CleanEnds
  <1>4. CASE GoOn
    BY <1>2, <1>4, CleanCloseFile, CleanEnds, CleanTry, CleanTurn, CleanDeleteEnds,
       CleanImpossible DEF GoOn
  <1>5. ASSUME NEW what \in {"renames", "crashes", "faults"}, Spend(what) PROVE FALSE
    BY <1>1, <1>5 DEF Spend, BankTyped, IdsInv
  <1>6. ~Killed
    BY <1>5 DEF Killed, Crash, CrashInSave, CrashInClose, CrashInRemove
  <1>7. ASSUME NEW pid, NEW id, NEW n, NEW mayFail, UpdateGroup(pid, id, n, mayFail)
        PROVE  FALSE
    <2>1. budget'.renames = budget.renames - 1 /\ budget.renames \in Int
      BY <1>7 DEF UpdateGroup, BankTyped, IdsInv
    <2> QED BY <1>1, <2>1
  <1>8. CASE \E p \in DOMAIN tree \ {<<>>}, mayFail \in BOOLEAN :
               DeleteGroup(ParentId(p), IdAt(p), mayFail)
    BY <1>1, <1>2, <1>8, CleanDeleteGroup
  <1>9. CASE \E id \in FreshIds, n \in Names, p \in DOMAIN tree : AddGroup(IdAt(p), n, id)
    BY <1>2, <1>9, CleanAdd
  <1>10. CASE QuestionCall
    BY <1>2, <1>10, CleanQuestion
  <1>11. CASE Start \/ Quit \/ QuitFailed
    BY <1>2, <1>11, CleanStart, CleanQuit, CleanEnds
  <1>12. FreshQids \subseteq Qids
    BY DEF FreshQids
  <1> QED BY <1>3, <1>4, <1>6, <1>7, <1>8, <1>9, <1>10, <1>11, <1>12 DEF Next, QuestionCall

-----------------------------------------------------------------------------
(* What undisturbed sessions keep. *)

(* What the invariant says in the words of QuestionBank: every group is    *)
(* registered under its own name, ids and names are unique, every open     *)
(* file can be saved, and ids.dat knows every file unless one is about to  *)
(* be deleted.                                                             *)
LEMMA CleanBank ==
  ASSUME Ordinary, BankTyped, Clean
  PROVE  /\ GroupsRegistered /\ GroupIdsUnique /\ GroupNamesUnique /\ OpenFilesSavable
         /\ call.frames = <<>> => FilesKnown
  <1>1. CASE run \in {"on", "closing"}
    <2>1. TreeTyped(tree) /\ DiskTree(tree) /\ Paths(tree) = dirs /\ OneName(dirs)
      BY <1>1 DEF Clean, OnInv, ClosingInv, BankTyped, BankInv
    <2>2. GroupsRegistered
      BY <2>1 DEF GroupsRegistered, Clean, OnInv, DiskTree, IdAt
    <2>3. GroupIdsUnique
      BY <2>1 DEF GroupIdsUnique, DiskTree, IdAt
    <2>4. \A p \in DOMAIN tree : tree[p].path \in dirs /\ Last(tree[p].path) = tree[p].name
      BY <2>1, DirectoryNames
    <2>5. GroupNamesUnique
      BY <2>1, <2>4 DEF GroupNamesUnique, OneName, DiskTree
    <2>6. ASSUME NEW p \in DOMAIN tree, NEW c \in ToSet(tree[p].ctx) PROVE c.file[1] \in dirs
      <3>1. tree[p].ctx \in Seq(Ctx)
        BY DEF BankTyped, BankInv, TreeTyped, Node
      <3>2. PICK i \in 1..Len(tree[p].ctx) : c = tree[p].ctx[i]
        BY <3>1, LenProperties DEF ToSet
      <3>3. c.file = <<tree[p].path, tree[p].id>>
        BY <2>1, <3>2 DEF DiskTree
      <3> QED BY <2>4, <3>3
    <2>7. OpenFilesSavable
      BY <2>6 DEF OpenFilesSavable, OpenCtxs
    <2>8. ASSUME call.frames = <<>> PROVE FilesKnown
      <3>1. CASE run = "on"
        BY <2>8, <3>1 DEF Clean, OnInv, Deleting, KnownIn, FilesKnown
      <3>2. CASE run = "closing"
        BY <3>2 DEF Clean, SavedInv, KnownIn, FilesKnown
      <3> QED BY <1>1, <3>1, <3>2
    <2> QED BY <2>2, <2>3, <2>5, <2>7, <2>8
  <1>2. CASE run \in {"off", "failed"}
    <2>1. tree = NoTree
      BY <1>2 DEF BankTyped, IdsInv
    <2>2. DOMAIN tree = {<<>>} /\ tree[<<>>].ctx = <<>>
      BY <2>1 DEF NoTree, Group
    <2>3. \A c : c \notin ToSet(<<>>)
      BY DEF ToSet
    <2>4. OpenFilesSavable
      BY <2>2, <2>3 DEF OpenFilesSavable, OpenCtxs
    <2>5. FilesKnown
      BY <1>2 DEF Clean, SavedInv, KnownIn, FilesKnown
    <2> QED BY <1>2, <2>2, <2>4, <2>5 DEF GroupsRegistered, GroupIdsUnique, GroupNamesUnique
  <1> QED BY <1>1, <1>2 DEF BankTyped, IdsInv

(* A kill at any point but in remove_all() leaves ids.dat with the group   *)
(* of every question file.                                                 *)
LEMMA KnownThroughKill ==
  ASSUME BankTyped, Clean, Killed, ~CrashInRemove,
         idsFile' \in {idsFile, Stored(lst)}, call.frames = <<>>
  PROVE  FilesKnown'
  <1>0. \A d : ~Deleting(d)
    BY DEF Deleting
  <1>1. CASE Crash
    <2>1. UNCHANGED <<files, idsFile>> /\ run \in {"on", "closing"}
      BY <1>1 DEF Crash, disk
    <2>2. \A f \in DOMAIN files : KnownIn(idsFile.items, f)
      BY <1>0, <2>1 DEF Clean, OnInv, SavedInv
    <2> QED BY <2>1, <2>2 DEF FilesKnown, KnownIn
  <1>2. CASE CrashInSave
    <2>1. run = "on" /\ files' = files
      BY <1>2 DEF CrashInSave, Idle
    <2>2. \A f \in DOMAIN files : KnownIn(idsFile.items, f) /\ KnownIn(lst, f)
      BY <1>0, <2>1 DEF Clean, OnInv
    <2>3. idsFile'.items \in {idsFile.items, lst}
      BY DEF Stored
    <2> QED BY <2>1, <2>2, <2>3 DEF FilesKnown, KnownIn
  <1>3. CASE CrashInClose
    <2>1. PICK p \in DOMAIN tree :
            /\ Closing(p)
            /\ \E content : files' = Put(files, Head(tree[p].ctx).file, content)
      BY <1>3 DEF CrashInClose
    <2>2. run = "closing" /\ tree[p].ctx # <<>>
      BY <2>1 DEF Closing
    <2>3. idsFile' = idsFile
      BY <1>3 DEF CrashInClose
    <2>4. KnownIn(idsFile.items, Head(tree[p].ctx).file)
      BY <2>2, OpenFile DEF Clean, ClosingInv
    <2>5. \A f \in DOMAIN files' : f \in DOMAIN files \/ f = Head(tree[p].ctx).file
      BY <2>1 DEF Put
    <2> QED BY <2>2, <2>3, <2>4, <2>5 DEF FilesKnown, KnownIn, Clean, SavedInv
  <1> QED BY <1>1, <1>2, <1>3 DEF Killed

(* Until the first rename, kill or deletion that may fail, every group the *)
(* tree shows under an id is registered under that id and its own name,    *)
(* but for those being deleted: through any number of sessions, whatever   *)
(* init() makes of the order of the directory and of the ids. A failed     *)
(* deletion breaks it (BankLocked.cfg).                                    *)
THEOREM UndisturbedGroupsRegistered ==
  ASSUME Ordinary
  PROVE  Spec => [](Undisturbed => GroupsRegistered)
  <1>1. Init => BankTyped /\ CleanInv
    BY IdsInit, BankInit, CleanInit DEF BankTyped
  <1>2. BankTyped /\ CleanInv /\ [Next]_vars => (BankTyped /\ CleanInv)'
    BY NextIsStep, BankStep, CleanStep
  <1>3. BankTyped /\ CleanInv => (Undisturbed => GroupsRegistered)
    BY CleanBank DEF CleanInv
  <1> QED BY <1>1, <1>2, <1>3, PTL DEF Spec

(* Until then, too, no two groups have one id or one name, so that an      *)
(* operation on an id reaches the group it is meant for and init() finds   *)
(* the right parents; and every open question file has a directory to be   *)
(* saved in. A rename or a kill breaks these (BankRename.cfg,              *)
(* BankRenameNames.cfg, BankCrashIds.cfg).                                 *)
THEOREM UndisturbedBank ==
  ASSUME Ordinary
  PROVE  Spec => [](Undisturbed => GroupIdsUnique /\ GroupNamesUnique /\ OpenFilesSavable)
  <1>1. Init => BankTyped /\ CleanInv
    BY IdsInit, BankInit, CleanInit DEF BankTyped
  <1>2. BankTyped /\ CleanInv /\ [Next]_vars => (BankTyped /\ CleanInv)'
    BY NextIsStep, BankStep, CleanStep
  <1>3. BankTyped /\ CleanInv
          => (Undisturbed => GroupIdsUnique /\ GroupNamesUnique /\ OpenFilesSavable)
    BY CleanBank DEF CleanInv
  <1> QED BY <1>1, <1>2, <1>3, PTL DEF Spec

(* ids.dat names the group of every question file after any number of      *)
(* orderly sessions and still does when the process is then killed, but    *)
(* while it writes ids.dat or deletes a group.                             *)
THEOREM FilesStayKnown ==
  ASSUME Ordinary, MaxRenames = 0, MaxFaults = 0
  PROVE  Spec => FilesKnownThroughCrash
  <1> DEFINE Known == (/\ budget.crashes = MaxCrashes
                       /\ idsFile' \in {idsFile, Stored(lst)}
                       /\ call'.frames = <<>>
                       /\ call.frames = <<>> \/ run' = "on")
                       => FilesKnown'
  <1>1. Init => BankTyped /\ CleanInv
    BY IdsInit, BankInit, CleanInit DEF BankTyped
  <1>2. BankTyped /\ CleanInv /\ [Next]_vars => (BankTyped /\ CleanInv)'
    BY NextIsStep, BankStep, CleanStep
  <1>3. BankTyped /\ CleanInv /\ [Next]_vars => [Known]_vars
    <2> SUFFICES ASSUME BankTyped, CleanInv, Next,
                        budget.crashes = MaxCrashes,
                        idsFile' \in {idsFile, Stored(lst)}, call'.frames = <<>>,
                        call.frames = <<>> \/ run' = "on"
                 PROVE  FilesKnown'
      OBVIOUS
    <2>1. (BankTyped /\ CleanInv)'
      BY <1>2
    <2>2. budget.renames = 0 /\ budget.faults = 0 /\ Undisturbed
      BY DEF BankTyped, IdsInv, Undisturbed
    <2>3. CASE UNCHANGED budget
      <3>1. Undisturbed'
        BY <2>2, <2>3 DEF Undisturbed
      <3>2. BankTyped' /\ Clean' /\ call'.frames = <<>>
        BY <2>1, <3>1 DEF CleanInv
      <3>3. (Ordinary /\ BankTyped /\ Clean /\ call.frames = <<>> => FilesKnown)'
        BY CleanBank, PTL
      <3> QED BY <3>2, <3>3 DEF Ordinary
    <2>4. CASE Killed
      <3>1. run' = "off" /\ Clean
        BY <2>2, <2>4 DEF Killed, Crash, CrashInSave, CrashInClose, CrashInRemove, Ended, CleanInv
      <3>2. call.frames = <<>>
        BY <3>1
      <3>3. ~CrashInRemove
        BY <3>2 DEF CrashInRemove, Removing, InLoop
      <3> QED BY <2>4, <3>1, <3>2, <3>3, KnownThroughKill
    <2>5. Killed \/ UNCHANGED budget
      <3>1. ASSUME NEW pid, NEW id, NEW mayFail, DeleteGroup(pid, id, mayFail)
            PROVE  UNCHANGED budget
        BY <2>2, <3>1 DEF DeleteGroup, Spend
      <3>2. ASSUME NEW pid, NEW id, NEW n, NEW mayFail, UpdateGroup(pid, id, n, mayFail)
            PROVE  FALSE
        BY <2>2, <3>2 DEF UpdateGroup
      <3>3. GoOn => UNCHANGED budget
        BY DEF GoOn, CloseFile, Closed, DeleteTry, DeleteTurn, DeleteFrom, DeleteEnds,
               DeleteFails, UpdateTry, CallFails
      <3>4. QuestionCall => UNCHANGED budget
        BY QuestionCallTree
      <3> QED BY <3>1, <3>2, <3>3, <3>4, NextIsStep DEF Step, Start, Quit, QuitFailed, AddGroup
    <2> QED BY <2>3, <2>4, <2>5
  <1> QED BY <1>1, <1>2, <1>3, PTL DEF Spec, FilesKnownThroughCrash

-----------------------------------------------------------------------------
(* Open files in undisturbed sessions. *)

(* No group has more than one open file, and one without an open file has  *)
(* none on disk either, but for what is being deleted: a session that      *)
(* begins opens them all.                                                  *)
FilesOpen ==
  run = "on" =>
    \A p \in DOMAIN tree :
      /\ Len(tree[p].ctx) <= 1
      /\ tree[p].ctx = <<>> /\ ~Deleting(tree[p].path)
           => <<tree[p].path, tree[p].id>> \notin DOMAIN files

(* init() opens the file of every group. *)
LEMMA OpenStart ==
  ASSUME BankTyped, Clean', Start
  PROVE  FilesOpen'
  <1>1. CASE Readable
    <2>1. PICK pick \in Picks(idsFile.items) : Loaded(dirs', files, pick, tree')
      BY <1>1, StartLoads
    <2>2. run' = "on" /\ files' = files
      BY <1>1, StartLoads
    <2> DEFINE t == tree'
    <2>3. TreeTyped(t) /\ FilesLoaded(files, {}, t) /\ DiskTree(t)
      BY <2>1, <2>2 DEF Loaded, Clean, OnInv
    <2> HIDE DEF t
    <2>4. ASSUME NEW p \in DOMAIN t
          PROVE  /\ Len(t[p].ctx) <= 1
                 /\ t[p].ctx = <<>> => <<t[p].path, t[p].id>> \notin DOMAIN files
      <3> DEFINE c == t[p].ctx
                 f == <<t[p].path, t[p].id>>
      <3>1. c \in Seq(Ctx) /\ Len(c) \in Nat
        BY <2>3, LenProperties DEF TreeTyped, Node
      <3>2. Len(c) <= 1
        <4> SUFFICES ASSUME Len(c) >= 2 PROVE FALSE
          BY <3>1
        <4>1. 1 \in 1..Len(c) /\ 2 \in 1..Len(c)
          BY <3>1
        <4>2. CtxAt(t, p, 1) /\ CtxAt(t, p, 2)
          BY <4>1 DEF CtxAt
        <4>3. t[p].ctx[1].file = t[p].ctx[2].file
          BY <2>3, <4>1 DEF DiskTree
        <4> QED BY <2>3, <4>2, <4>3 DEF FilesLoaded
      <3>3. ASSUME c = <<>>, f \in DOMAIN files PROVE FALSE
        <4>1. PICK q, i : CtxAt(t, q, i) /\ t[q].ctx[i].file = f
          BY <2>3, <3>3 DEF FilesLoaded
        <4>2. /\ q \in DOMAIN t /\ t[q].ctx[i].file = <<t[q].path, t[q].id>>
              /\ i \in 1..Len(t[q].ctx)
          BY <2>3, <4>1 DEF CtxAt, DiskTree
        <4>3. t[q].path = t[p].path
          BY <4>1, <4>2
        <4>4. q = p
          BY <2>3, <4>2, <4>3 DEF DiskTree
        <4>5. i \in 1..Len(<<>>)
          BY <3>3, <4>2, <4>4
        <4> QED BY <4>5, NoFrames
      <3> QED BY <3>2, <3>3
    <2> QED BY <2>2, <2>4 DEF FilesOpen, t
  <1>2. CASE ~Readable
    BY <1>2 DEF Start, FilesOpen
  <1> QED BY <1>1, <1>2

(* Files are closed in uninit(), and in deleteGroup() for the group that   *)
(* is deleted.                                                             *)
LEMMA OpenCloseFile ==
  ASSUME BankTyped, Clean, FilesOpen, CloseFile
  PROVE  FilesOpen'
  <1> SUFFICES ASSUME run' = "on" PROVE FilesOpen'
    BY DEF FilesOpen
  <1>1. PICK p \in DOMAIN tree :
          /\ Closing(p)
          /\ files' = CloseCtx(dirs, files, Head(tree[p].ctx))
          /\ tree' = [tree EXCEPT ![p].ctx = Tail(tree[p].ctx)]
    BY DEF CloseFile
  <1>2. run = "on" /\ call' = call
    BY DEF CloseFile
  <1>3. OnInv /\ DiskTree(tree)
    BY <1>2 DEF Clean, OnInv
  <1>4. /\ call.frames # <<>> /\ p = top.at /\ tree[p].ctx # <<>>
    BY <1>1, <1>2 DEF Closing, top
  <1>5. Deleting(tree[p].path)
    <2>1. top = call.frames[Len(call.frames)] /\ Len(call.frames) \in 1..Len(call.frames)
      BY <1>4, FramesFirst
    <2> QED BY <1>3, <1>4, <2>1 DEF Deleting, OnInv, CallInv
  <1> DEFINE c == Tail(tree[p].ctx)
  <1>6. /\ tree[p].ctx \in Seq(Ctx) /\ c \in Seq(Ctx) /\ Len(c) <= 1
        /\ \A i \in 1..Len(c) : c[i].file = <<tree[p].path, tree[p].id>>
    <2> DEFINE o == tree[p].ctx
               f == <<tree[p].path, tree[p].id>>
    <2>1. o \in Seq(Ctx) /\ o # <<>> /\ Len(o) <= 1 /\ \A i \in 1..Len(o) : o[i].file = f
      BY <1>2, <1>3, <1>4 DEF FilesOpen, DiskTree, BankTyped, BankInv, TreeTyped, Node
    <2> HIDE DEF o, f
    <2>2. Tail(o) \in Seq(Ctx) /\ Len(Tail(o)) = Len(o) - 1 /\ Len(o) \in Nat
          /\ \A i \in 1..Len(Tail(o)) : Tail(o)[i] = o[i + 1]
      BY <2>1, HeadTailProperties, LenProperties
    <2>3. Len(Tail(o)) <= 1 /\ \A i \in 1..Len(Tail(o)) : Tail(o)[i].file = f
      BY <2>1, <2>2
    <2> QED BY <2>1, <2>2, <2>3 DEF o, f
  <1>7. /\ DOMAIN tree' = DOMAIN tree
        /\ \A q \in DOMAIN tree : tree'[q].id = tree[q].id /\ tree'[q].path = tree[q].path
        /\ \A d : Deleting(d)' <=> Deleting(d)
    <2>1. tree' = [tree EXCEPT ![p].ctx = c]
      BY <1>1
    <2> HIDE DEF c
    <2> QED BY <1>2, <1>3, <1>6, <2>1, CtxClean
  <1>8. \A q \in DOMAIN tree : tree'[q].ctx = IF q = p THEN c ELSE tree[q].ctx
    <2>1. tree[p] \in Node
      BY DEF BankTyped, BankInv, TreeTyped
    <2>2. tree' = [tree EXCEPT ![p] = [tree[p] EXCEPT !.ctx = c]]
      BY <1>1
    <2> QED BY <2>1, <2>2 DEF Node
  <1>9. \A g \in DOMAIN files' : g \in DOMAIN files \/ g = <<tree[p].path, tree[p].id>>
    <2>1. Head(tree[p].ctx).file = <<tree[p].path, tree[p].id>>
      BY <1>3, <1>4, OpenFile
    <2> QED BY <1>1, <2>1 DEF CloseCtx, Without, Put
  <1>10. ASSUME NEW q \in DOMAIN tree
         PROVE  /\ Len(tree'[q].ctx) <= 1
                /\ tree'[q].ctx = <<>> /\ ~Deleting(tree[q].path)'
                     => <<tree'[q].path, tree'[q].id>> \notin DOMAIN files'
    <2>1. CASE q = p
      BY <1>5, <1>6, <1>7, <1>8, <2>1
    <2>2. CASE q # p
      <3>1. tree[q].path # tree[p].path
        BY <1>3, <2>2 DEF DiskTree
      <3> QED BY <1>2, <1>7, <1>8, <1>9, <2>2, <3>1 DEF FilesOpen
    <2> QED BY <2>1, <2>2
  <1> QED BY <1>7, <1>10 DEF FilesOpen

(* A turn of the loop leaves the group of the outermost call alone. *)
LEMMA TurnKeepsFirst ==
  ASSUME BankTyped, DeleteTurn
  PROVE  /\ run = "on" /\ call.frames # <<>>
         /\ call'.frames # <<>> /\ call'.frames[1].at = call.frames[1].at
         /\ UNCHANGED <<run, tree, dirs, files>>
  <1> DEFINE slot == Append(top.at, top.turn)
             id == IF slot \in DOMAIN tree THEN tree[slot].id ELSE NoId
             x == [top EXCEPT !.turn = top.turn + 1]
             frames == call.frames
             next == Append(Front(frames), x)
  <1>1. InLoop /\ DeleteFrom(top.at, id, call.todo, next)
    BY DEF DeleteTurn
  <1>2. run = "on" /\ frames # <<>> /\ top \in Frame
    BY <1>1, InLoopTyped
  <1>3. /\ frames \in Seq(Frame) /\ 1 \in 1..Len(frames)
        /\ UNCHANGED <<run, tree, dirs, files>>
    BY <1>1, <1>2, FramesFirst DEF DeleteFrom, disk
  <1>4. x \in Frame /\ x.at = Last(frames).at
    BY <1>2 DEF Frame, top
  <1>5. call.frames = frames
    OBVIOUS
  <1> HIDE DEF id, x, frames
  <1>6. /\ next \in Seq(Frame) /\ next # <<>> /\ 1 \in 1..Len(next)
        /\ next[1].at = frames[1].at
    <2>1. next = Append(Front(frames), x)
      OBVIOUS
    <2> HIDE DEF next
    <2>2. /\ next \in Seq(Frame) /\ Len(next) = Len(frames) /\ next # <<>>
          /\ \A i \in 1..Len(frames) : next[i].at = frames[i].at
      BY <1>2, <1>3, <1>4, <2>1, TurnFrames
    <2> QED BY <1>3, <2>2
  <1> HIDE DEF next
  <1>7. PICK frs : /\ call' = [call EXCEPT !.todo = call.todo, !.frames = frs]
                   /\ \/ frs = next
                      \/ \E q \in Found(top.at, id) :
                           frs = Append(next, [at |-> q, turn |-> 1,
                                               turns |-> Cardinality(Subgroups(tree, q))])
    BY <1>1 DEF DeleteFrom
  <1>8. call'.frames = frs
    BY <1>7 DEF BankTyped, IdsInv
  <1>9. frs # <<>> /\ frs[1].at = next[1].at
    <2>1. CASE frs = next
      BY <1>6, <2>1
    <2>2. ASSUME NEW q \in Found(top.at, id), NEW f,
                 f = [at |-> q, turn |-> 1, turns |-> Cardinality(Subgroups(tree, q))],
                 frs = Append(next, f)
          PROVE  frs # <<>> /\ frs[1].at = next[1].at
      <3>1. f \in Frame
        <4>1. q \in Subgroups(tree, top.at)
          BY DEF Found, Firsts
        <4>2. TreeTyped(tree)
          BY DEF BankTyped, BankInv
        <4>3. q \in Positions /\ Cardinality(Subgroups(tree, q)) \in Nat
          BY <4>1, <4>2, SubgroupsCounted
        <4> QED BY <2>2, <4>3 DEF Frame
      <3>2. /\ Append(next, f) \in Seq(Frame) /\ Len(Append(next, f)) = Len(next) + 1
            /\ \A i \in 1..Len(next) : Append(next, f)[i] = next[i]
        BY <1>6, <3>1, AppendProperties
      <3>3. Append(next, f) # <<>>
        BY <1>6
      <3> QED BY <1>6, <2>2, <3>2, <3>3
    <2> QED BY <1>7, <2>1, <2>2
  <1> QED BY <1>2, <1>3, <1>5, <1>6, <1>8, <1>9

(* On its way down deleteGroup() closes files of the group the window      *)
(* named, and below it, only.                                              *)
LEMMA OpenDelete ==
  ASSUME BankTyped, FilesOpen,
         DeleteTry \/ DeleteTurn \/ \E pid, id, mayFail : DeleteGroup(pid, id, mayFail)
  PROVE  FilesOpen'
  <1>1. CASE DeleteTurn
    BY <1>1, TurnKeepsFirst DEF FilesOpen, Deleting
  <1>2. CASE ~DeleteTurn
    <2>1. UNCHANGED <<run, tree, files>> /\ ~\E d : Deleting(d)
      <3>1. CASE DeleteTry
        BY <3>1 DEF DeleteTry, DeleteFrom, disk, Deleting
      <3>2. CASE \E pid, id, mayFail : DeleteGroup(pid, id, mayFail)
        <4>1. call = NoCall /\ UNCHANGED <<run, tree, files>>
          BY <3>2 DEF DeleteGroup, Idle, disk
        <4> QED BY <4>1, NoCallClean
      <3> QED BY <1>2, <3>1, <3>2
    <2> QED BY <2>1 DEF FilesOpen
  <1> QED BY <1>1, <1>2

(* A call of deleteGroup() ends with its group erased: the outermost one   *)
(* by returning to the window, one further down by going on in the call    *)
(* around it.                                                              *)
LEMMA DeleteEndsShape ==
  ASSUME Ordinary, BankTyped, Clean, DeleteEnds
  PROVE  /\ run = "on" /\ run' = "on" /\ refused' \in {refused, "none"}
         /\ call.op = "deleteGroup" /\ call.frames # <<>>
         /\ top.at \in DOMAIN tree \ {<<>>} /\ tree' = WithoutGroup(tree, top.at)
         /\ files' = Without(files, {f \in DOMAIN files : IsPrefix(tree[top.at].path, f[1])})
         /\ \/ /\ Len(call.frames) = 1 /\ top = call.frames[1]
               /\ call' = NoCall /\ refused' = "none"
            \/ /\ call'.op = call.op /\ call'.frames # <<>>
               /\ call'.frames[1] = call.frames[1]
               /\ call.frames[1].at \in DOMAIN tree
               /\ Len(call.frames[1].at) < Len(top.at)
  <1> DEFINE n == Len(call.frames)
             frs == Front(call.frames)
  <1>1. /\ InLoop /\ RemoveAll(tree[top.at].path)
        /\ tree' = WithoutGroup(tree, top.at) /\ run' = run
        /\ \/ n = 1 /\ call' = NoCall /\ refused' = "none"
           \/ n > 1 /\ call' = [call EXCEPT !.frames = frs] /\ refused' = refused
    BY DEF DeleteEnds, Removing, ReturnTrue, Ordinary
  <1>2. /\ run = "on" /\ call.frames # <<>> /\ top.at \in DOMAIN tree \ {<<>>}
        /\ FramesTyped(call.frames)
    BY <1>1, InLoopTyped
  <1>3. /\ call.frames \in Seq(Frame) /\ n \in Nat \ {0} /\ top = call.frames[n]
    BY <1>2, FramesFirst
  <1>4. call.op = "deleteGroup"
    BY <1>2 DEF Clean, OnInv, CallInv, NoCall
  <1>5. CASE n > 1 /\ call' = [call EXCEPT !.frames = frs]
    <2>1. call'.op = call.op /\ call'.frames = frs
      BY <1>5 DEF BankTyped, IdsInv
    <2>2. frs \in Seq(Frame) /\ Len(frs) = n - 1 /\ \A i \in 1..(n - 1) : frs[i] = call.frames[i]
      BY <1>2, <1>3, FrontProperties
    <2> HIDE DEF frs
    <2>3. Len(frs) # 0 /\ 1 \in 1..(n - 1) /\ 1 \in 1..n /\ n \in 1..n /\ 1 < n
      BY <1>3, <1>5, <2>2
    <2>4. Len(<<>>) = 0
      OBVIOUS
    <2>5. /\ call.frames[1].at \in DOMAIN tree
          /\ Len(call.frames[1].at) < Len(call.frames[n].at)
      BY <1>2, <2>3 DEF FramesTyped
    <2>6. frs # <<>> /\ frs[1] = call.frames[1]
      BY <2>2, <2>3, <2>4
    <2> QED BY <1>1, <1>2, <1>3, <1>4, <1>5, <2>1, <2>5, <2>6 DEF RemoveAll
  <1>6. CASE n = 1
    BY <1>1, <1>2, <1>3, <1>4, <1>6 DEF RemoveAll
  <1> QED BY <1>1, <1>5, <1>6

(* When deleteGroup() returns, the groups it closed the files of are gone. *)
LEMMA OpenDeleteEnds ==
  ASSUME Ordinary, BankTyped, Clean, FilesOpen, DeleteEnds
  PROVE  FilesOpen'
  <1> DEFINE q == top.at
             path == tree[q].path
  <1>1. /\ run = "on" /\ run' = "on" /\ call.frames # <<>>
        /\ q \in DOMAIN tree \ {<<>>} /\ tree' = WithoutGroup(tree, q)
        /\ \A f \in DOMAIN files' : f \in DOMAIN files /\ ~IsPrefix(path, f[1])
    BY DeleteEndsShape DEF Without
  <1>2. TreeTyped(tree) /\ DiskTree(tree)
    BY <1>1 DEF BankTyped, BankInv, Clean, OnInv
  <1> DEFINE u == tree'
  <1>3. u = WithoutGroup(tree, q)
    BY <1>1
  <1> HIDE DEF q, u
  <1>4. /\ DiskTree(u)
        /\ \A s \in DOMAIN u \ {<<>>} : \E r \in DOMAIN tree \ {<<>>} : u[s] = tree[r]
        /\ \A r \in DOMAIN tree : Len(r) < Len(q) => r \in DOMAIN u /\ u[r] = tree[r]
    BY <1>1, <1>2, <1>3, WithoutGroupDisk
  <1>5. <<>> \in DOMAIN u => u[<<>>] = tree[<<>>]
    <2>1. q \in Positions /\ <<>> \in DOMAIN tree
      BY <1>1, <1>2 DEF TreeTyped
    <2>2. Len(q) \in Nat \ {0} /\ Len(<<>>) = 0
      BY <1>1, <2>1, EmptySeq DEF Positions
    <2>3. Len(<<>>) < Len(q)
      BY <2>2
    <2> QED BY <1>4, <2>1, <2>3
  <1>6. \A d : Deleting(d) /\ ~IsPrefix(path, d) => Deleting(d)'
    <2>1. CASE call.frames[1] = top
      BY <2>1 DEF Deleting, q
    <2>2. CASE /\ call'.frames # <<>> /\ call'.frames[1] = call.frames[1]
               /\ call.frames[1].at \in DOMAIN tree
               /\ Len(call.frames[1].at) < Len(top.at)
      <3>1. u[call.frames[1].at] = tree[call.frames[1].at]
        BY <1>4, <2>2 DEF q
      <3> QED BY <2>2, <3>1 DEF Deleting, u
    <2> QED BY <2>1, <2>2, DeleteEndsShape
  <1>7. ASSUME NEW s \in DOMAIN u
        PROVE  /\ Len(u[s].ctx) <= 1
               /\ u[s].ctx = <<>> /\ ~Deleting(tree[s].path)'
                    => <<u[s].path, u[s].id>> \notin DOMAIN files'
    <2>1. PICK r \in DOMAIN tree : u[s] = tree[r]
      <3>1. <<>> \in DOMAIN tree
        BY <1>2 DEF TreeTyped
      <3> QED BY <1>4, <1>5, <3>1
    <2>2. CASE IsPrefix(path, tree[r].path)
      BY <1>1, <2>1, <2>2 DEF FilesOpen, u
    <2>3. CASE ~IsPrefix(path, tree[r].path)
      BY <1>1, <1>6, <2>1, <2>3 DEF FilesOpen, u
    <2> QED BY <2>2, <2>3
  <1> QED BY <1>7 DEF FilesOpen, u

(* addGroup() refuses, and changes nothing, or puts a group with a new     *)
(* name, a new id and a new directory behind its parent's others.          *)
LEMMA AddEffect ==
  ASSUME Ordinary, BankTyped, Clean, NEW p \in DOMAIN tree, NEW id \in FreshIds, NEW n \in Names,
         AddGroup(tree[p].id, n, id)
  PROVE  /\ run = "on" /\ call = NoCall /\ run' = "on" /\ call' = NoCall /\ files' = files
         /\ \/ refused' = "addGroup" /\ tree' = tree
            \/ /\ refused' = "none" /\ Append(tree[p].path, n) \notin dirs
               /\ \A r \in DOMAIN tree : tree[r].id # id /\ tree[r].name # n
               /\ tree' = WithSubgroup(tree, p, Group(n, id, Append(tree[p].path, n)))
  <1>1. run = "on" /\ call = NoCall /\ files' = files
    BY DEF AddGroup, Idle
  <1>2. OnInv
    BY <1>1 DEF Clean
  <1>3. Tried(tree[p].id) = {p}
    BY <1>2, TriedAlone DEF OnInv, BankTyped, BankInv
  <1>4. CASE refused' = "addGroup" /\ UNCHANGED <<run, memory, dirs>>
    BY <1>1, <1>4 DEF memory
  <1>5. CASE ~Repeated(id, n) /\ \E x \in Firsts(Tried(tree[p].id)) : AddGroupTo(x, n, id)
    <2>1. AddGroupTo(p, n, id)
      BY <1>3, <1>5 DEF Firsts
    <2>2. CanCreate(Append(tree[p].path, n)) /\ Last(Append(tree[p].path, n)) = n
      BY <1>2, CanAdd
    <2>3. /\ tree' = WithSubgroup(tree, p, Group(n, id, Append(tree[p].path, n)))
          /\ call' = NoCall /\ run' = run /\ refused' = "none"
      BY <2>1, <2>2 DEF AddGroupTo, ReturnTrue
    <2>4. \A r \in DOMAIN tree : tree[r].id # id /\ tree[r].name # n
      BY <1>1, <1>2, <1>5, NewName
    <2>5. Append(tree[p].path, n) \notin dirs
      <3>1. ASSUME NEW r \in DOMAIN tree, tree[r].path = Append(tree[p].path, n) PROVE FALSE
        BY <1>2, <2>2, <2>4, <3>1, DirectoryNames DEF OnInv
      <3> QED BY <1>2, <3>1 DEF OnInv, Paths
    <2> QED BY <1>1, <2>3, <2>4, <2>5
  <1> QED BY <1>4, <1>5 DEF AddGroup

(* A group that is new has no file, in the tree and on disk. *)
LEMMA OpenAdd ==
  ASSUME Ordinary, BankTyped, Clean, FilesOpen, NEW p \in DOMAIN tree,
         NEW id \in FreshIds, NEW n \in Names, AddGroup(tree[p].id, n, id)
  PROVE  FilesOpen'
  <1>1. /\ run = "on" /\ call = NoCall /\ run' = "on" /\ call' = NoCall /\ files' = files
    BY AddEffect
  <1>2. \A d : ~Deleting(d) /\ ~Deleting(d)'
    BY <1>1, NoCallClean
  <1>3. CASE tree' = tree
    BY <1>1, <1>2, <1>3 DEF FilesOpen
  <1>4. CASE /\ Append(tree[p].path, n) \notin dirs
             /\ tree' = WithSubgroup(tree, p, Group(n, id, Append(tree[p].path, n)))
    <2> DEFINE grp == Group(n, id, Append(tree[p].path, n))
    <2>1. /\ grp.ctx = <<>> /\ grp.path = Append(tree[p].path, n) /\ Len(<<>>) = 0
          /\ tree' = WithSubgroup(tree, p, grp)
      BY <1>4 DEF Group
    <2>2. <<grp.path, grp.id>> \notin DOMAIN files
      BY <1>4, <2>1 DEF BankTyped, BankInv, FilesTyped
    <2> HIDE DEF grp
    <2>3. \A s \in DOMAIN tree' : (s \in DOMAIN tree /\ tree'[s] = tree[s]) \/ tree'[s] = grp
      BY <2>1 DEF WithSubgroup, With
    <2>4. ASSUME NEW s \in DOMAIN tree'
          PROVE  /\ Len(tree'[s].ctx) <= 1
                 /\ tree'[s].ctx = <<>> => <<tree'[s].path, tree'[s].id>> \notin DOMAIN files'
      <3>1. CASE s \in DOMAIN tree /\ tree'[s] = tree[s]
        BY <1>1, <1>2, <3>1 DEF FilesOpen
      <3>2. CASE tree'[s] = grp
        <4>1. tree'[s].ctx = <<>> /\ <<tree'[s].path, tree'[s].id>> \notin DOMAIN files
          BY <2>1, <2>2, <3>2
        <4>2. Len(tree'[s].ctx) = 0
          BY <4>1
        <4> QED BY <1>1, <4>1, <4>2
      <3> QED BY <2>3, <3>1, <3>2
    <2> QED BY <2>4 DEF FilesOpen
  <1> QED BY <1>3, <1>4, AddEffect

(* Other questions in an open file leave it open. *)
LEMMA CtxReplaced ==
  ASSUME NEW o \in Seq(Ctx), NEW y \in Items, Len(o) = 1
  PROVE  LET c == [o EXCEPT ![1].items = y]
         IN c \in Seq(Ctx) /\ Len(c) = 1 /\ c # <<>> /\ c[1].items = y
  <1> DEFINE c == [o EXCEPT ![1].items = y]
             x == [o[1] EXCEPT !.items = y]
  <1>1. DOMAIN o = 1..1 /\ 1 \in DOMAIN o /\ o[1] \in Ctx
    BY LenProperties, ElementOfSeq
  <1>2. x \in Ctx /\ x.items = y
    BY <1>1 DEF Ctx
  <1>3. c = [o EXCEPT ![1] = x]
    OBVIOUS
  <1> HIDE DEF c, x
  <1>4. DOMAIN c = 1..1 /\ c[1] = x /\ c \in [1..1 -> Ctx]
    BY <1>1, <1>2, <1>3, LenProperties
  <1>5. c \in Seq(Ctx)
    BY <1>4, SeqDef
  <1>6. Len(c) = 1
    BY <1>4, <1>5, LenProperties
  <1>7. c # <<>>
    BY <1>6
  <1> QED BY <1>2, <1>4, <1>5, <1>6, <1>7 DEF c

(* The questions of a group are those of its first file. *)
LEMMA QuestionsOfOneFile ==
  /\ QuestionsIn(<<>>) = <<>>
  /\ \A c \in Seq(Ctx) : Len(c) = 1 => QuestionsIn(c) = c[1].items
  <1>1. QuestionsIn(<<>>) = <<>>
    <2>1. ToSet(<<>>) = {}
      BY DEF ToSet
    <2>2. UNION {DOMAIN c.items : c \in ToSet(<<>>)} = {}
      BY <2>1
    <2>3. DOMAIN QuestionsIn(<<>>) = {}
      BY <2>2 DEF QuestionsIn
    <2>4. QuestionsIn(<<>>) = [q \in {} |-> "none"]
      BY <2>2 DEF QuestionsIn
    <2>5. <<>> = [q \in {} |-> "none"]
      OBVIOUS
    <2> QED BY <2>4, <2>5
  <1>2. ASSUME NEW c \in Seq(Ctx), Len(c) = 1 PROVE QuestionsIn(c) = c[1].items
    <2>1. DOMAIN c = {1} /\ c[1] \in Ctx
      BY <1>2, LenProperties, ElementOfSeq
    <2>2. UNION {DOMAIN x.items : x \in ToSet(c)} = DOMAIN c[1].items
      BY <2>1 DEF ToSet
    <2>3. ASSUME NEW q \in DOMAIN c[1].items
          PROVE  (CHOOSE k \in DOMAIN c : /\ q \in DOMAIN c[k].items
                                          /\ \A j \in 1..(k - 1) : q \notin DOMAIN c[j].items) = 1
      BY <2>1
    <2>4. c[1].items = [q \in DOMAIN c[1].items |-> c[1].items[q]]
      BY <2>1 DEF Ctx, Items
    <2> QED BY <2>2, <2>3, <2>4 DEF QuestionsIn
  <1> QED BY <1>1, <1>2

(* What the item of a group shows of it. *)
ItemOf(n) == [name |-> n.name, id |-> n.id, questions |-> QuestionsIn(n.ctx)]

(* A question operation reaches the group whose id it is given, and no     *)
(* other.                                                                  *)
LEMMA OwnersAlone ==
  ASSUME TreeTyped(tree), DiskTree(tree), NEW p \in DOMAIN tree
  PROVE  Owners(tree[p].id) = {p} /\ Firsts(Owners(tree[p].id)) = {p}
  <1>1. Owners(tree[p].id) = {p}
    BY DEF Owners, DiskTree
  <1>2. ~Before(p, p)
    BY BeforeIrreflexive DEF TreeTyped
  <1> QED BY <1>1, <1>2 DEF Firsts

(* findQustionAnswerContext() ends with one file, with the questions the   *)
(* group has.                                                              *)
LEMMA OpenedQuestions ==
  ASSUME BankTyped, OnInv, FilesOpen, run = "on", call = NoCall,
         NEW p \in DOMAIN tree \ {<<>>}
  PROVE  LET o == OpenedCtx(tree[p])
         IN /\ o \in Seq(Ctx) /\ Len(o) = 1
            /\ o[1].items \in Items /\ o[1].items = QuestionsIn(tree[p].ctx)
  <1> DEFINE o == OpenedCtx(tree[p])
             f == <<tree[p].path, tree[p].id>>
  <1>1. o \in Seq(Ctx)
    BY OpenedCtxFiles DEF OnInv, DiskTree
  <1>2. Len(o) = 1 /\ o[1].items = QuestionsIn(tree[p].ctx)
    <2>1. CASE tree[p].ctx = <<>>
      <3>1. f \notin DOMAIN files
        BY <2>1, NoCallClean DEF FilesOpen
      <3>2. OpenCtx(files, f).items = <<>>
        BY <3>1 DEF OpenCtx, Content
      <3>3. o = <<OpenCtx(files, f)>>
        BY <2>1 DEF OpenedCtx
      <3> HIDE DEF f
      <3>4. Len(o) = 1 /\ o[1] = OpenCtx(files, f)
        BY <3>3
      <3>5. QuestionsIn(tree[p].ctx) = <<>>
        BY <2>1, QuestionsOfOneFile
      <3> QED BY <3>2, <3>4, <3>5
    <2>2. CASE tree[p].ctx # <<>>
      <3>1. o = tree[p].ctx
        BY <2>2 DEF OpenedCtx
      <3>2. Len(o) \in Nat \ {0} /\ Len(o) <= 1
        BY <1>1, <2>2, <3>1, EmptySeq DEF FilesOpen
      <3> DEFINE n == Len(o)
      <3>3. n \in Nat \ {0} /\ n <= 1
        BY <3>2
      <3> HIDE DEF n
      <3>4. n = 1
        BY <3>3
      <3> QED BY <1>1, <3>1, <3>4, QuestionsOfOneFile DEF n
    <2> QED BY <2>1, <2>2
  <1>3. o[1] \in Ctx
    BY <1>1, <1>2, ElementOfSeq
  <1> QED BY <1>1, <1>2, <1>3 DEF Ctx

(* A question operation changes the questions of one group and nothing     *)
(* else.                                                                   *)
LEMMA QuestionsReplaced ==
  ASSUME BankTyped, OnInv, FilesOpen, run = "on", call = NoCall,
         NEW p \in DOMAIN tree \ {<<>>}, NEW y \in Items,
         tree' = [tree EXCEPT ![p].ctx = [OpenedCtx(tree[p]) EXCEPT ![1].items = y]]
  PROVE  /\ DOMAIN tree' = DOMAIN tree
         /\ Len(tree'[p].ctx) = 1 /\ tree'[p].ctx # <<>>
         /\ \A s \in DOMAIN tree \ {p} : tree'[s] = tree[s]
         /\ ItemOf(tree'[p]) = [ItemOf(tree[p]) EXCEPT !.questions = y]
  <1> DEFINE c == [OpenedCtx(tree[p]) EXCEPT ![1].items = y]
  <1>1. c \in Seq(Ctx) /\ Len(c) = 1 /\ c # <<>> /\ c[1].items = y
    <2> DEFINE o == OpenedCtx(tree[p])
    <2>1. o \in Seq(Ctx) /\ Len(o) = 1
      BY OpenedQuestions
    <2> HIDE DEF o
    <2>2. LET d == [o EXCEPT ![1].items = y]
          IN d \in Seq(Ctx) /\ Len(d) = 1 /\ d # <<>> /\ d[1].items = y
      BY <2>1, CtxReplaced
    <2> QED BY <2>2 DEF o
  <1>2. tree' = [tree EXCEPT ![p].ctx = c]
    OBVIOUS
  <1> HIDE DEF c
  <1>3. QuestionsIn(c) = y
    BY <1>1, QuestionsOfOneFile
  <1>4. tree[p] \in Node
    BY DEF BankTyped, BankInv, TreeTyped
  <1>5. tree' = [tree EXCEPT ![p] = [tree[p] EXCEPT !.ctx = c]]
    BY <1>2
  <1>6. /\ DOMAIN tree' = DOMAIN tree
        /\ \A s \in DOMAIN tree \ {p} : tree'[s] = tree[s]
        /\ tree'[p].ctx = c /\ tree'[p].name = tree[p].name /\ tree'[p].id = tree[p].id
    BY <1>4, <1>5 DEF Node
  <1> QED BY <1>1, <1>3, <1>6 DEF ItemOf

(* The question operations leave the file they work on open. *)
LEMMA OpenQuestion ==
  ASSUME BankTyped, Clean, FilesOpen, QuestionCall
  PROVE  FilesOpen'
  <1>1. /\ run = "on" /\ call = NoCall /\ run' = run /\ call' = call /\ files' = files
    BY QuestionCallTree DEF Idle, disk
  <1>2. OnInv /\ \A d : ~Deleting(d) /\ ~Deleting(d)'
    BY <1>1, NoCallClean DEF Clean
  <1>3. CASE tree' = tree
    BY <1>1, <1>2, <1>3 DEF FilesOpen
  <1>4. ASSUME NEW gid \in DOMAIN mapIds, NEW p \in Owners(gid), NEW y,
               OpenedCtx(tree[p])[1].items \in Items => y \in Items,
               tree' = [tree EXCEPT ![p].ctx = [OpenedCtx(tree[p]) EXCEPT ![1].items = y]]
        PROVE  FilesOpen'
    <2>1. p \in DOMAIN tree \ {<<>>}
      BY <1>2, NamesAssumption DEF Owners, OnInv, DiskTree, BankTyped, IdsInv, IdTable
    <2>2. y \in Items
      BY <1>1, <1>2, <1>4, <2>1, OpenedQuestions
    <2>3. /\ DOMAIN tree' = DOMAIN tree
          /\ Len(tree'[p].ctx) = 1 /\ tree'[p].ctx # <<>>
          /\ \A s \in DOMAIN tree \ {p} : tree'[s] = tree[s]
      BY <1>1, <1>2, <1>4, <2>1, <2>2, QuestionsReplaced
    <2>4. ASSUME NEW s \in DOMAIN tree
          PROVE  /\ Len(tree'[s].ctx) <= 1
                 /\ tree'[s].ctx = <<>> => <<tree'[s].path, tree'[s].id>> \notin DOMAIN files'
      <3>1. CASE s = p
        <4>1. tree'[s].ctx # <<>> /\ Len(tree'[s].ctx) = 1
          BY <2>3, <3>1
        <4> DEFINE n == Len(tree'[s].ctx)
        <4>2. n = 1
          BY <4>1
        <4> HIDE DEF n
        <4>3. n <= 1
          BY <4>2
        <4> QED BY <4>1, <4>3 DEF n
      <3>2. CASE s # p
        <4>1. tree'[s] = tree[s]
          BY <2>3, <3>2
        <4> QED BY <1>1, <1>2, <4>1 DEF FilesOpen
      <3> QED BY <3>1, <3>2
    <2> QED BY <2>3, <2>4 DEF FilesOpen
  <1> QED BY <1>3, <1>4, QuestionCallTree

(* Between operations of undisturbed sessions the questions of a group are *)
(* in memory exactly when it has a file: every file on disk is open.       *)
LEMMA OpenStep ==
  ASSUME Ordinary, BankTyped, Clean, Clean', FilesOpen, [Next]_vars, UNCHANGED budget
  PROVE  FilesOpen'
  <1> SUFFICES ASSUME run' = "on" PROVE FilesOpen'
    BY DEF FilesOpen
  <1>1. CASE UNCHANGED vars
    BY <1>1 DEF vars, memory, disk, FilesOpen, Deleting
  <1>2. CASE Start
    BY <1>2, OpenStart
  <1>3. ~Quit /\ ~QuitFailed /\ ~Killed /\ ~Closed
    BY DEF Quit, QuitFailed, Killed, Crash, CrashInSave, CrashInClose, CrashInRemove, Closed, Ended
  <1>4. CASE GoOn
    BY <1>3, <1>4, OpenCloseFile, OpenDelete, OpenDeleteEnds, CleanImpossible DEF GoOn
  <1>5. ASSUME NEW pid, NEW id, NEW n, NEW mayFail, UpdateGroup(pid, id, n, mayFail)
        PROVE  FALSE
    <2>1. budget \in [renames : 0..MaxRenames, crashes : 0..MaxCrashes, faults : 0..MaxFaults]
      BY DEF BankTyped, IdsInv
    <2>2. budget.renames \in Nat
      BY <2>1, BankConstants
    <2>3. budget'.renames = budget.renames - 1
      BY <1>5, <2>1 DEF UpdateGroup
    <2> QED BY <2>2, <2>3
  <1>6. CASE \E id \in FreshIds, n \in Names, p \in DOMAIN tree : AddGroup(IdAt(p), n, id)
    BY <1>6, OpenAdd DEF IdAt
  <1>7. CASE \E p \in DOMAIN tree \ {<<>>}, mayFail \in BOOLEAN :
               DeleteGroup(ParentId(p), IdAt(p), mayFail)
    BY <1>7, OpenDelete
  <1>8. CASE QuestionCall
    BY <1>8, OpenQuestion
  <1>9. FreshQids \subseteq Qids
    BY DEF FreshQids
  <1> QED BY <1>1, <1>2, <1>3, <1>4, <1>5, <1>6, <1>7, <1>8, <1>9 DEF Next, QuestionCall

-----------------------------------------------------------------------------
(* The window in undisturbed sessions. *)

(* The items show the tree.  From the start of a deletion on they show     *)
(* what it leaves, and the picked item is the group being deleted.         *)
Mirrored ==
  /\ run \in {"off", "failed"} => items = NoItems
  /\ run = "on" =>
       IF call.frames = <<>>
       THEN /\ items = ItemsOf(tree)
            /\ call # NoCall =>
                 picked \in DOMAIN tree \ {<<>>} /\ tree[picked].id = call.id
       ELSE /\ call.frames[1].at = picked
            /\ Kept(items, picked) = Kept(tree, picked)
            /\ \A r \in Kept(tree, picked) : items[r] = ItemOf(tree[r])

(* What the window makes of a tree, group by group. *)
LEMMA ItemsAreItems ==
  \A t : ItemsOf(t) = [p \in DOMAIN t |-> ItemOf(t[p])]
  BY DEF ItemsOf, ItemOf, ItemsAt

(* Between operations the ids the window calls with are those of the       *)
(* bank's groups and questions.                                            *)
LEMMA ItemsWhenIdle ==
  ASSUME Mirrored, Idle
  PROVE  /\ items = ItemsOf(tree) /\ DOMAIN items = DOMAIN tree
         /\ \A p \in DOMAIN tree : /\ items[p] = ItemOf(tree[p])
                                   /\ items[p].id = IdAt(p)
                                   /\ DOMAIN items[p].questions = ShownQids(p)
  <1>1. call.frames = <<>> /\ run = "on"
    BY DEF Idle, NoCall
  <1>2. items = ItemsOf(tree)
    BY <1>1 DEF Mirrored
  <1> QED BY <1>2, ItemsAreItems DEF ItemOf, IdAt, ShownQids, QuestionsIn

(* While the window mirrors the bank, each of its steps is one             *)
(* QuestionBank allows: the ids it passes are ids there are.               *)
LEMMA WinStepIsNext ==
  ASSUME BankTyped, Clean, Mirrored, WinNext
  PROVE  Next
  <1>1. CASE Show \/ Leave \/ Work
    BY <1>1 DEF Show, Leave, Work, Next
  <1>2. CASE ClickGroup
    <2>0. Idle
      BY <1>2 DEF ClickGroup, ClickAddGroup, ClickDeleteGroup, ClickModifyGroup,
                  AddGroup, DeleteGroup, UpdateGroup
    <2>1. DOMAIN items = DOMAIN tree /\ \A p \in DOMAIN tree : items[p].id = IdAt(p)
      BY <2>0, ItemsWhenIdle
    <2>2. \A p \in DOMAIN tree : Pid(p) = ParentId(p)
      <3>1. DiskTree(tree) /\ TreeTyped(tree)
        BY <2>0 DEF Idle, Clean, OnInv, BankTyped, BankInv
      <3>2. \A p \in DOMAIN tree \ {<<>>} : Front(p) \in DOMAIN tree
        BY <3>1, DiskPaths
      <3> QED BY <2>1, <3>2 DEF Pid, ParentId
    <2>3. CASE \E p \in DOMAIN items, n \in Names, id \in NewIds : ClickAddGroup(p, n, id)
      <3>1. NewIds \subseteq FreshIds
        BY DEF NewIds
      <3>2. PICK p \in DOMAIN items, n \in Names, id \in NewIds : ClickAddGroup(p, n, id)
        BY <2>3
      <3>3. AddGroup(IdAt(p), n, id)
        BY <2>1, <3>2 DEF ClickAddGroup
      <3> QED BY <2>1, <3>1, <3>3 DEF Next
    <2>4. CASE \E p \in DOMAIN items \ {<<>>}, mayFail \in BOOLEAN : ClickDeleteGroup(p, mayFail)
      <3>1. PICK p \in DOMAIN items \ {<<>>}, mayFail \in BOOLEAN : ClickDeleteGroup(p, mayFail)
        BY <2>4
      <3>2. DeleteGroup(ParentId(p), IdAt(p), mayFail)
        BY <2>1, <2>2, <3>1 DEF ClickDeleteGroup
      <3> QED BY <2>1, <3>2 DEF Next
    <2>5. CASE \E p \in DOMAIN items, n \in Names, mayFail \in BOOLEAN :
                 ClickModifyGroup(p, n, mayFail)
      <3>1. PICK p \in DOMAIN items, n \in Names, mayFail \in BOOLEAN :
              ClickModifyGroup(p, n, mayFail)
        BY <2>5
      <3>2. UpdateGroup(ParentId(p), IdAt(p), n, mayFail)
        BY <2>1, <2>2, <3>1 DEF ClickModifyGroup
      <3> QED BY <2>1, <3>2 DEF Next
    <2> QED BY <1>2, <2>3, <2>4, <2>5 DEF ClickGroup
  <1>3. CASE ClickQuestion
    <2>0. Idle
      BY <1>3 DEF ClickQuestion, ClickAddQuestion, ClickDeleteQuestion, ClickModifyQuestion,
                  AddQuestion, DeleteQuestion, UpdateQuestion, OnQuestions
    <2>1. DOMAIN items = DOMAIN tree
          /\ \A p \in DOMAIN tree : items[p].id = IdAt(p)
                                    /\ DOMAIN items[p].questions = ShownQids(p)
      BY <2>0, ItemsWhenIdle
    <2>2. CASE \E p \in DOMAIN items, q \in NewQids, t \in Texts : ClickAddQuestion(p, q, t)
      <3>1. PICK p \in DOMAIN items, q \in NewQids, t \in Texts : ClickAddQuestion(p, q, t)
        BY <2>2
      <3>2. q \in FreshQids /\ AddQuestion(IdAt(p), q, t)
        BY <2>1, <3>1 DEF ClickAddQuestion, NewQids
      <3> QED BY <2>1, <3>2 DEF Next
    <2>3. CASE \E p \in DOMAIN items : \E q \in DOMAIN items[p].questions :
                 ClickDeleteQuestion(p, q)
      <3>1. PICK p \in DOMAIN items : \E q \in DOMAIN items[p].questions :
              ClickDeleteQuestion(p, q)
        BY <2>3
      <3>2. PICK q \in ShownQids(p) : ClickDeleteQuestion(p, q)
        BY <2>1, <3>1
      <3>3. DeleteQuestion(IdAt(p), q)
        BY <2>1, <3>2 DEF ClickDeleteQuestion
      <3> QED BY <2>1, <3>3 DEF Next
    <2>4. CASE \E p \in DOMAIN items, t \in Texts : \E q \in DOMAIN items[p].questions :
                 ClickModifyQuestion(p, q, t)
      <3>1. PICK p \in DOMAIN items, t \in Texts : \E q \in DOMAIN items[p].questions :
              ClickModifyQuestion(p, q, t)
        BY <2>4
      <3>2. PICK q \in ShownQids(p) : ClickModifyQuestion(p, q, t)
        BY <2>1, <3>1
      <3>3. UpdateQuestion(IdAt(p), q, t)
        BY <2>1, <3>2 DEF ClickModifyQuestion
      <3> QED BY <2>1, <3>3 DEF Next
    <2> QED BY <1>3, <2>2, <2>3, <2>4 DEF ClickQuestion
  <1> QED BY <1>1, <1>2, <1>3 DEF WinNext

(* Erasing a group further down does not change what is outside the group  *)
(* the window named.                                                       *)
LEMMA KeptOutside ==
  ASSUME NEW t, TreeTyped(t), Rows(t), NEW q \in DOMAIN t \ {<<>>},
         NEW m \in Positions, IsPrefix(m, q), Len(m) < Len(q),
         NEW u, u = WithoutGroup(t, q)
  PROVE  /\ Kept(u, m) = Kept(t, m)
         /\ \A r \in Kept(t, m) : u[r] = t[r]
  <1>1. /\ \A s : s \in DOMAIN u <=> \E r \in Kept(t, q) : s = MovedUp(q, r)
        /\ \A r \in Kept(t, q) : u[MovedUp(q, r)] = t[r]
    BY WithoutGroupNodes
  <1>2. /\ q \in Positions /\ Len(q) \in Nat /\ Len(m) \in Nat
        /\ \A r \in DOMAIN t : r \in Positions
        /\ \A i \in 1..Len(m) : q[i] = m[i]
    <2>1. q \in Positions /\ \A r \in DOMAIN t : r \in Positions
      BY DEF TreeTyped
    <2>2. \A i \in 1..Len(m) : q[i] = m[i]
      BY <2>1, PrefixOfPosition
    <2> QED BY <2>1, <2>2, LenProperties DEF Positions
  <1>3. ASSUME NEW r \in DOMAIN t, IsAfter(q, r)
        PROVE  IsPrefix(m, r) /\ IsPrefix(m, MovedUp(q, r))
    <2> DEFINE s == MovedUp(q, r)
    <2>1. /\ Len(q) <= Len(r) /\ Len(r) \in Nat /\ \A j \in 1..(Len(q) - 1) : r[j] = q[j]
          /\ s \in Positions /\ Len(s) = Len(r)
          /\ \A j \in 1..Len(r) : j # Len(q) => s[j] = r[j]
      BY <1>2, <1>3, MovedUpPointwise, LenProperties, ZenonT(60) DEF Positions
    <2> HIDE DEF s
    <2>2. \A j \in 1..Len(m) : j \in 1..(Len(q) - 1) /\ j \in 1..Len(r) /\ j # Len(q)
      BY <1>2, <2>1
    <2>3. /\ Len(m) <= Len(r) /\ Len(m) <= Len(s)
          /\ \A j \in 1..Len(m) : m[j] = r[j] /\ m[j] = s[j]
      BY <1>2, <2>1, <2>2
    <2>4. IsPrefix(m, r) /\ IsPrefix(m, s)
      BY <1>2, <2>1, <2>3, PrefixOfPosition
    <2> QED BY <2>4 DEF s
  <1>4. ASSUME NEW r \in Kept(t, m) PROVE r \in DOMAIN u /\ u[r] = t[r]
    <2>1. r \in DOMAIN t /\ ~IsPrefix(m, r)
      BY DEF Kept
    <2>2. ~IsPrefix(q, r)
      <3> SUFFICES ASSUME IsPrefix(q, r) PROVE FALSE
        OBVIOUS
      <3>1. Len(q) <= Len(r) /\ Len(r) \in Nat /\ \A i \in 1..Len(q) : q[i] = r[i]
        BY <1>2, <2>1, PrefixOfPosition, LenProperties DEF Positions
      <3>2. Len(m) <= Len(r) /\ \A i \in 1..Len(m) : i \in 1..Len(q)
        BY <1>2, <3>1
      <3>3. Len(m) <= Len(r) /\ \A i \in 1..Len(m) : m[i] = r[i]
        BY <1>2, <3>1, <3>2
      <3> QED BY <1>2, <2>1, <3>3, PrefixOfPosition
    <2>3. r \in Kept(t, q) /\ MovedUp(q, r) = r
      BY <1>3, <2>1, <2>2 DEF Kept, MovedUp
    <2> QED BY <1>1, <2>3
  <1>5. ASSUME NEW s \in Kept(u, m) PROVE s \in Kept(t, m)
    <2>1. s \in DOMAIN u /\ ~IsPrefix(m, s)
      BY DEF Kept
    <2>2. PICK r \in Kept(t, q) : s = MovedUp(q, r)
      BY <1>1, <2>1
    <2>3. r \in DOMAIN t
      BY DEF Kept
    <2>4. s = r
      BY <1>3, <2>1, <2>2, <2>3 DEF MovedUp
    <2> QED BY <2>1, <2>3, <2>4 DEF Kept
  <1>6. \A r \in Kept(t, m) : r \in Kept(u, m)
    BY <1>4 DEF Kept
  <1> QED BY <1>4, <1>5, <1>6

(* Taking an item out of the window's tree and erasing the group in the    *)
(* bank's come to the same.                                                *)
LEMMA WithoutGroupItems ==
  ASSUME NEW t, NEW s, NEW q, Kept(s, q) = Kept(t, q),
         \A r \in Kept(t, q) : s[r] = ItemOf(t[r])
  PROVE  WithoutGroup(s, q) = ItemsOf(WithoutGroup(t, q))
  <1> DEFINE kept == Kept(t, q)
             from(x) == CHOOSE r \in kept : MovedUp(q, r) = x
             all == {MovedUp(q, r) : r \in kept}
  <1>1. WithoutGroup(t, q) = [x \in all |-> t[from(x)]]
    BY DEF WithoutGroup, Kept, MovedUp, IsAfter
  <1>2. WithoutGroup(s, q) = [x \in {MovedUp(q, r) : r \in Kept(s, q)} |->
                                s[CHOOSE r \in Kept(s, q) : MovedUp(q, r) = x]]
    BY DEF WithoutGroup, Kept, MovedUp, IsAfter
  <1>3. WithoutGroup(s, q) = [x \in all |-> s[from(x)]]
    BY <1>2
  <1>4. \A x \in all : from(x) \in kept
    OBVIOUS
  <1> HIDE DEF all, from, kept
  <1>5. \A x \in all : s[from(x)] = ItemOf(t[from(x)])
    BY <1>4 DEF kept
  <1>6. ItemsOf(WithoutGroup(t, q)) = [x \in all |-> ItemOf(t[from(x)])]
    BY <1>1, ItemsAreItems
  <1> QED BY <1>3, <1>5, <1>6

(* Adding an item and adding a group come to the same. *)
LEMMA WithSubgroupItems ==
  ASSUME NEW t, NEW p, NEW n, NEW id, NEW path
  PROVE  WithSubgroup(ItemsOf(t), p, GroupItem(n, id))
           = ItemsOf(WithSubgroup(t, p, Group(n, id, path)))
  <1> DEFINE s == ItemsOf(t)
             x == Append(p, Cardinality(Subgroups(t, p)) + 1)
             grp == Group(n, id, path)
  <1>1. DOMAIN s = DOMAIN t /\ \A r \in DOMAIN t : s[r] = ItemOf(t[r])
    BY ItemsAreItems
  <1>2. ItemOf(grp) = GroupItem(n, id)
    BY QuestionsOfOneFile DEF ItemOf, Group, GroupItem
  <1> HIDE DEF s, grp
  <1>3. Subgroups(s, p) = Subgroups(t, p)
    BY <1>1 DEF Subgroups
  <1>4. WithSubgroup(s, p, GroupItem(n, id)) = With(s, x, GroupItem(n, id))
    BY <1>3 DEF WithSubgroup
  <1>5. WithSubgroup(t, p, grp) = With(t, x, grp)
    BY DEF WithSubgroup
  <1> HIDE DEF x
  <1>6. With(s, x, GroupItem(n, id))
          = [z \in DOMAIN t \cup {x} |-> IF z \in DOMAIN t THEN s[z] ELSE GroupItem(n, id)]
    BY <1>1 DEF With
  <1>7. ItemsOf(With(t, x, grp))
          = [z \in DOMAIN t \cup {x} |-> ItemOf(With(t, x, grp)[z])]
    BY ItemsAreItems DEF With
  <1>8. \A z \in DOMAIN t \cup {x} :
          ItemOf(With(t, x, grp)[z]) = IF z \in DOMAIN t THEN s[z] ELSE GroupItem(n, id)
    BY <1>1, <1>2 DEF With
  <1> QED BY <1>4, <1>5, <1>6, <1>7, <1>8 DEF s, grp

(* The groups on the way to a group are in the tree. *)
LEMMA PrefixesInTree ==
  ASSUME NEW t, Rows(t), DOMAIN t \subseteq Positions
  PROVE  \A p \in DOMAIN t : \A k \in DOMAIN p : SubSeq(p, 1, k) \in DOMAIN t
  <1> DEFINE S == {j \in Nat : \A p \in DOMAIN t : \A k \in Nat \ {0} :
                                 Len(p) = k + j => SubSeq(p, 1, k) \in DOMAIN t}
  <1>1. 0 \in S
    <2>1. ASSUME NEW p \in DOMAIN t, NEW k \in Nat \ {0}, Len(p) = k + 0
          PROVE  SubSeq(p, 1, k) = p
      <3>1. p \in Seq(Nat) /\ Len(p) = k
        BY <2>1 DEF Positions
      <3>2. \A i \in 1..k : p[i] \in Nat
        BY <3>1, ElementOfSeq
      <3>3. /\ SubSeq(p, 1, k) \in Seq(Nat) /\ Len(SubSeq(p, 1, k)) = k
            /\ \A i \in 1..k : SubSeq(p, 1, k)[i] = p[i]
        BY <3>1, <3>2, SubSeqProperties
      <3> QED BY <3>1, <3>3, SeqEqual
    <2> QED BY <2>1
  <1>2. ASSUME NEW j \in Nat, j \in S PROVE j + 1 \in S
    <2>1. ASSUME NEW p \in DOMAIN t, NEW k \in Nat \ {0}, Len(p) = k + (j + 1)
          PROVE  SubSeq(p, 1, k) \in DOMAIN t
      <3>1. p \in Seq(Nat) /\ p # <<>>
        <4>1. p \in Seq(Nat) /\ Len(p) # 0
          BY <2>1 DEF Positions
        <4> QED BY <4>1, EmptySeq
      <3> DEFINE f == Front(p)
      <3>2. /\ f \in Seq(Nat) /\ Len(f) = k + j /\ f \in DOMAIN t
            /\ \A i \in 1..(k + j) : f[i] = p[i]
        <4>1. f \in Seq(Nat) /\ Len(f) = Len(p) - 1 /\ \A i \in 1..(Len(p) - 1) : f[i] = p[i]
          BY <3>1, FrontProperties
        <4>2. Len(p) - 1 = k + j
          BY <2>1
        <4> QED BY <3>1, <4>1, <4>2 DEF Rows
      <3> HIDE DEF f
      <3>3. SubSeq(f, 1, k) \in DOMAIN t
        BY <1>2, <3>2
      <3>4. \A i \in 1..k : i \in 1..Len(p) /\ i \in 1..Len(f) /\ f[i] = p[i]
        BY <2>1, <3>2
      <3>5. \A i \in 1..k : p[i] \in Nat /\ f[i] \in Nat
        BY <3>1, <3>2, <3>4, ElementOfSeq
      <3>6. /\ SubSeq(p, 1, k) \in Seq(Nat) /\ Len(SubSeq(p, 1, k)) = k
            /\ \A i \in 1..k : SubSeq(p, 1, k)[i] = p[i]
            /\ SubSeq(f, 1, k) \in Seq(Nat) /\ Len(SubSeq(f, 1, k)) = k
            /\ \A i \in 1..k : SubSeq(f, 1, k)[i] = f[i]
        BY <3>1, <3>2, <3>5, SubSeqProperties
      <3>7. SubSeq(p, 1, k) = SubSeq(f, 1, k)
        BY <3>4, <3>6, SeqEqual
      <3> QED BY <3>3, <3>7
    <2> QED BY <2>1
  <1> HIDE DEF S
  <1>3. Nat \subseteq S
    BY <1>1, <1>2, NatSets
  <1>4. ASSUME NEW p \in DOMAIN t, NEW k \in DOMAIN p PROVE SubSeq(p, 1, k) \in DOMAIN t
    <2>1. p \in Seq(Nat) /\ Len(p) \in Nat /\ k \in 1..Len(p)
      BY LenProperties DEF Positions
    <2>2. k \in Nat \ {0} /\ Len(p) - k \in Nat /\ Len(p) = k + (Len(p) - k)
      BY <2>1
    <2> DEFINE j == Len(p) - k
    <2>3. j \in S /\ Len(p) = k + j
      BY <1>3, <2>2
    <2> HIDE DEF j
    <2> QED BY <2>2, <2>3 DEF S
  <1> QED BY <1>4

(* The tree view is filled from what init() loaded. *)
LEMMA ShowMirrors ==
  ASSUME BankTyped, Show
  PROVE  Mirrored'
  <1>1. run = "off" /\ call = NoCall /\ run' \in {"on", "failed"}
    BY DEF Show, Start, BankTyped, IdsInv
  <1>2. CASE run' = "on"
    <2>1. call' = NoCall /\ items' = ItemsOf(tree')
      BY <1>1, <1>2 DEF Show, Start
    <2> QED BY <1>2, <2>1 DEF Mirrored, NoCall
  <1>3. CASE run' = "failed"
    BY <1>3 DEF Show, Mirrored
  <1> QED BY <1>1, <1>2, <1>3

(* While uninit() runs the window shows nothing anybody could click. *)
LEMMA LeaveMirrors ==
  ASSUME Leave
  PROVE  Mirrored'
  <1>1. CASE Quit
    BY <1>1 DEF Quit, Mirrored
  <1>2. CASE (QuitFailed \/ Killed) /\ items' = NoItems
    <2>1. run' = "off"
      BY <1>2 DEF QuitFailed, Killed, Crash, CrashInSave, CrashInClose, CrashInRemove, Ended
    <2> QED BY <1>2, <2>1 DEF Mirrored
  <1> QED BY <1>1, <1>2 DEF Leave

(* Closing the file of a group that is being deleted changes nothing       *)
(* outside it.                                                             *)
LEMMA CloseFileMirrors ==
  ASSUME BankTyped, Clean, Mirrored, CloseFile, UNCHANGED <<items, picked>>
  PROVE  Mirrored'
  <1>1. PICK p \in DOMAIN tree : Closing(p) /\ tree' = [tree EXCEPT ![p].ctx = Tail(tree[p].ctx)]
    BY DEF CloseFile
  <1>2. run' = run /\ call' = call /\ run \in {"on", "closing"}
    BY <1>1 DEF CloseFile, Closing
  <1>3. CASE run = "on"
    <2>1. call.frames # <<>> /\ p = top.at
      BY <1>1, <1>3 DEF Closing, top
    <2>2. top = call.frames[Len(call.frames)] /\ Len(call.frames) \in 1..Len(call.frames)
      BY <2>1, FramesFirst
    <2>3. picked = call.frames[1].at /\ picked \in DOMAIN tree
      BY <1>3, <2>1, FramesFirst DEF Mirrored, BankTyped, BankInv, CallTyped
    <2>4. IsPrefix(picked, p)
      <3>1. IsPrefix(tree[picked].path, tree[p].path)
        BY <1>3, <2>1, <2>2, <2>3 DEF Clean, OnInv, CallInv
      <3>2. TreeTyped(tree) /\ DiskTree(tree)
        BY <1>3 DEF Clean, OnInv, BankTyped, BankInv
      <3> QED BY <2>3, <3>1, <3>2, BelowInDisk
    <2>5. DOMAIN tree' = DOMAIN tree /\ \A r \in DOMAIN tree \ {p} : tree'[r] = tree[r]
      <3>1. tree' = [tree EXCEPT ![p] = [tree[p] EXCEPT !.ctx = Tail(tree[p].ctx)]]
        BY <1>1
      <3> QED BY <3>1
    <2>6. Kept(tree', picked) = Kept(tree, picked)
          /\ \A r \in Kept(tree, picked) : tree'[r] = tree[r]
      BY <2>4, <2>5 DEF Kept
    <2> QED BY <1>2, <1>3, <2>1, <2>6 DEF Mirrored
  <1>4. CASE run = "closing"
    BY <1>2, <1>4 DEF Mirrored
  <1> QED BY <1>2, <1>3, <1>4

(* deleteGroup() on its way down: outside the group the window named       *)
(* nothing changes.                                                        *)
LEMMA DeleteStepMirrors ==
  ASSUME BankTyped, Clean, Mirrored, DeleteTry \/ DeleteTurn, UNCHANGED <<items, picked>>
  PROVE  Mirrored'
  <1>1. CASE DeleteTry
    <2>1. /\ run = "on" /\ run' = "on" /\ tree' = tree
          /\ call.op = "deleteGroup" /\ call.frames = <<>> /\ OnInv
      BY <1>1, TryFinds
    <2>2. PICK g \in DOMAIN tree \ {<<>>} :
            tree[g].id = call.id /\ call'.frames # <<>> /\ call'.frames[1].at = g
      BY <1>1, TryFinds
    <2>3. items = ItemsOf(tree) /\ picked \in DOMAIN tree \ {<<>>} /\ tree[picked].id = call.id
      BY <2>1 DEF Mirrored, NoCall
    <2>4. g = picked
      BY <2>1, <2>2, <2>3 DEF OnInv, DiskTree
    <2>5. /\ Kept(items, picked) = Kept(tree, picked)
          /\ \A r \in Kept(tree, picked) : items[r] = ItemOf(tree[r])
      BY <2>3, ItemsAreItems DEF Kept
    <2> QED BY <2>1, <2>2, <2>4, <2>5 DEF Mirrored
  <1>2. CASE DeleteTurn
    BY <1>2, TurnKeepsFirst DEF Mirrored
  <1> QED BY <1>1, <1>2

(* When the outermost deleteGroup() returns true, the window takes out the *)
(* item of the group that was erased.                                      *)
LEMMA DeleteEndsMirrors ==
  ASSUME Ordinary, BankTyped, Clean, Mirrored, DeleteEnds,
         IF call' = NoCall THEN Mirror(Deleted) ELSE UNCHANGED <<items, picked>>
  PROVE  Mirrored'
  <1>1. /\ run = "on" /\ run' = "on" /\ call.frames # <<>>
        /\ top.at \in DOMAIN tree \ {<<>>} /\ tree' = WithoutGroup(tree, top.at)
    BY DeleteEndsShape
  <1>2. /\ call.frames[1].at = picked /\ Kept(items, picked) = Kept(tree, picked)
        /\ \A r \in Kept(tree, picked) : items[r] = ItemOf(tree[r])
    BY <1>1 DEF Mirrored
  <1>3. CASE top = call.frames[1] /\ call' = NoCall /\ refused' = "none"
    <2>1. items' = WithoutGroup(items, picked)
      BY <1>1, <1>3 DEF Mirror, Deleted
    <2>2. WithoutGroup(items, picked) = ItemsOf(WithoutGroup(tree, picked))
      BY <1>2, WithoutGroupItems
    <2>3. items' = ItemsOf(tree')
      BY <1>1, <1>2, <1>3, <2>1, <2>2
    <2> QED BY <1>1, <1>3, <2>3 DEF Mirrored, NoCall
  <1>4. CASE /\ call'.op = call.op /\ call.op = "deleteGroup" /\ call'.frames # <<>>
             /\ call'.frames[1] = call.frames[1]
             /\ call.frames[1].at \in DOMAIN tree
             /\ Len(call.frames[1].at) < Len(top.at)
    <2>1. call' # NoCall
      BY <1>4 DEF NoCall
    <2>2. items' = items /\ picked' = picked
      BY <2>1
    <2>3. TreeTyped(tree) /\ DiskTree(tree) /\ CallInv
      BY <1>1 DEF Clean, OnInv, BankTyped, BankInv
    <2> DEFINE q == top.at
               u == tree'
    <2>4. IsPrefix(picked, q)
      <3>1. top = call.frames[Len(call.frames)] /\ Len(call.frames) \in 1..Len(call.frames)
        BY <1>1, FramesFirst
      <3>2. IsPrefix(tree[picked].path, tree[q].path)
        BY <1>1, <1>2, <2>3, <3>1 DEF CallInv
      <3> QED BY <1>1, <1>2, <1>4, <2>3, <3>2, BelowInDisk
    <2>5. picked \in Positions /\ Rows(tree) /\ q \in DOMAIN tree \ {<<>>}
          /\ Len(picked) < Len(q) /\ u = WithoutGroup(tree, q)
      BY <1>1, <1>2, <1>4, <2>3 DEF TreeTyped, DiskTree
    <2> HIDE DEF q, u
    <2>6. Kept(u, picked) = Kept(tree, picked)
          /\ \A r \in Kept(tree, picked) : u[r] = tree[r]
      BY <2>3, <2>4, <2>5, KeptOutside
    <2> QED BY <1>1, <1>2, <1>4, <2>2, <2>6 DEF Mirrored, u
  <1> QED BY <1>3, <1>4, DeleteEndsShape

(* The window waits for a deletion, and shows its outcome. *)
LEMMA WorkMirrors ==
  ASSUME Ordinary, BankTyped, Clean, Mirrored, Work
  PROVE  Mirrored'
  <1>1. /\ GoOn
        /\ IF run' = "off" \/ (call # NoCall /\ call' = NoCall)
           THEN Mirror(IF call.op = "deleteGroup" THEN Deleted ELSE Modified)
           ELSE UNCHANGED <<items, picked>>
    BY DEF Work
  <1>2. CASE CloseFile
    <2>1. call' = call /\ run' # "off"
      BY <1>2 DEF CloseFile, Closing
    <2> QED BY <1>1, <1>2, <2>1, CloseFileMirrors
  <1>3. CASE Closed
    <2>1. run' = "off" /\ items' = NoItems
      BY <1>1, <1>3 DEF Closed, Ended, Mirror
    <2> QED BY <2>1 DEF Mirrored
  <1>4. CASE DeleteTry \/ DeleteTurn
    <2>1. run' = "on" /\ call'.frames # <<>>
      BY <1>4, TryFinds, TurnKeepsFirst
    <2>2. call' # NoCall
      BY <2>1 DEF NoCall
    <2> QED BY <1>1, <1>4, <2>1, <2>2, DeleteStepMirrors
  <1>5. CASE DeleteEnds
    <2>1. run' = "on" /\ call.op = "deleteGroup"
      BY <1>5, DeleteEndsShape
    <2>2. call # NoCall
      BY <2>1 DEF NoCall
    <2>3. IF call' = NoCall THEN Mirror(Deleted) ELSE UNCHANGED <<items, picked>>
      BY <1>1, <2>1, <2>2
    <2> QED BY <1>5, <2>3, DeleteEndsMirrors
  <1> QED BY <1>1, <1>2, <1>3, <1>4, <1>5, CleanImpossible DEF GoOn

(* After a click on a group's menu the window shows what the bank then     *)
(* has, whether the bank did it or refused.                                *)
LEMMA ClickGroupMirrors ==
  ASSUME Ordinary, BankTyped, Clean, Mirrored, UNCHANGED budget, ClickGroup
  PROVE  Mirrored'
  <1>0. Idle
    BY DEF ClickGroup, ClickAddGroup, ClickDeleteGroup, ClickModifyGroup,
           AddGroup, DeleteGroup, UpdateGroup
  <1>1. /\ items = ItemsOf(tree) /\ DOMAIN items = DOMAIN tree
        /\ \A p \in DOMAIN tree : items[p].id = IdAt(p)
    BY <1>0, ItemsWhenIdle
  <1>2. ASSUME NEW p \in DOMAIN items, NEW n \in Names, NEW id \in NewIds,
               ClickAddGroup(p, n, id)
        PROVE  Mirrored'
    <2>1. id \in FreshIds /\ p \in DOMAIN tree /\ AddGroup(tree[p].id, n, id)
      BY <1>1, <1>2 DEF NewIds, ClickAddGroup, IdAt
    <2>2. /\ run' = "on" /\ call' = NoCall
          /\ \/ refused' = "addGroup" /\ tree' = tree
             \/ /\ refused' = "none"
                /\ tree' = WithSubgroup(tree, p, Group(n, id, Append(tree[p].path, n)))
      BY <2>1, AddEffect
    <2>3. items' = IF refused' = "none" THEN WithSubgroup(items, p, GroupItem(n, id)) ELSE items
      BY <1>2, <2>2 DEF ClickAddGroup, Mirror
    <2>4. items' = ItemsOf(tree')
      <3>1. CASE refused' = "addGroup" /\ tree' = tree
        BY <1>1, <2>3, <3>1
      <3>2. CASE refused' = "none" /\ tree' = WithSubgroup(tree, p, Group(n, id, Append(tree[p].path, n)))
        <4> DEFINE path == Append(tree[p].path, n)
        <4>1. tree' = WithSubgroup(tree, p, Group(n, id, path))
          BY <3>2
        <4> HIDE DEF path
        <4>2. items' = WithSubgroup(ItemsOf(tree), p, GroupItem(n, id))
          BY <1>1, <2>3, <3>2
        <4> QED BY <4>1, <4>2, WithSubgroupItems
      <3> QED BY <2>2, <3>1, <3>2
    <2> QED BY <2>2, <2>4 DEF Mirrored, NoCall
  <1>3. ASSUME NEW p \in DOMAIN items \ {<<>>}, NEW mayFail \in BOOLEAN,
               ClickDeleteGroup(p, mayFail)
        PROVE  Mirrored'
    <2>1. /\ run' = "on" /\ tree' = tree /\ items' = items /\ picked' = p
          /\ call'.frames = <<>> /\ call'.id = IdAt(p)
      BY <1>0, <1>1, <1>3 DEF ClickDeleteGroup, DeleteGroup, Idle, NoCall
    <2> QED BY <1>1, <2>1 DEF Mirrored, IdAt
  <1>4. ASSUME NEW p, NEW n, NEW mayFail, ClickModifyGroup(p, n, mayFail)
        PROVE  FALSE
    <2>1. budget \in [renames : 0..MaxRenames, crashes : 0..MaxCrashes, faults : 0..MaxFaults]
      BY DEF BankTyped, IdsInv
    <2>2. budget.renames \in Nat
      BY <2>1, BankConstants
    <2>3. budget'.renames = budget.renames - 1
      BY <1>4, <2>1 DEF ClickModifyGroup, UpdateGroup
    <2> QED BY <2>2, <2>3
  <1> QED BY <1>2, <1>3, <1>4 DEF ClickGroup

(* The window changes the questions of the item whose group's questions    *)
(* the bank changed.                                                       *)
LEMMA QuestionMirrors ==
  ASSUME BankTyped, OnInv, FilesOpen, run = "on", call = NoCall, Mirrored,
         NEW p \in DOMAIN tree \ {<<>>}, NEW y \in Items,
         tree' = [tree EXCEPT ![p].ctx = [OpenedCtx(tree[p]) EXCEPT ![1].items = y]],
         items' = [items EXCEPT ![p].questions = y], UNCHANGED <<run, call>>
  PROVE  Mirrored'
  <1>1. /\ items = ItemsOf(tree) /\ DOMAIN items = DOMAIN tree
        /\ \A s \in DOMAIN tree : items[s] = ItemOf(tree[s])
    BY ItemsWhenIdle DEF Idle
  <1>2. /\ DOMAIN tree' = DOMAIN tree
        /\ \A s \in DOMAIN tree \ {p} : tree'[s] = tree[s]
        /\ ItemOf(tree'[p]) = [ItemOf(tree[p]) EXCEPT !.questions = y]
    BY QuestionsReplaced
  <1>3. items' = [s \in DOMAIN tree |-> IF s = p THEN [ItemOf(tree[p]) EXCEPT !.questions = y]
                                        ELSE ItemOf(tree[s])]
    <2>1. items' = [items EXCEPT ![p] = [items[p] EXCEPT !.questions = y]]
      OBVIOUS
    <2>2. items = [s \in DOMAIN tree |-> ItemOf(tree[s])]
      BY <1>1, ItemsAreItems
    <2> QED BY <1>1, <2>1, <2>2
  <1> DEFINE u == tree'
  <1>4. ItemsOf(u) = [s \in DOMAIN u |-> ItemOf(u[s])]
    BY ItemsAreItems
  <1>5. items' = ItemsOf(tree')
    BY <1>2, <1>3, <1>4
  <1> QED BY <1>5 DEF Mirrored, NoCall

(* After a click on a question's menu the window shows the questions the   *)
(* bank then has.                                                          *)
LEMMA ClickQuestionMirrors ==
  ASSUME BankTyped, Clean, FilesOpen, Mirrored, ClickQuestion
  PROVE  Mirrored'
  <1>0. Idle /\ run' = run /\ call' = call
    BY DEF ClickQuestion, ClickAddQuestion, ClickDeleteQuestion, ClickModifyQuestion,
           AddQuestion, DeleteQuestion, UpdateQuestion, OnQuestions
  <1>1. run = "on" /\ call = NoCall /\ OnInv
    BY <1>0 DEF Idle, Clean
  <1>2. /\ items = ItemsOf(tree) /\ DOMAIN items = DOMAIN tree
        /\ \A p \in DOMAIN tree : items[p] = ItemOf(tree[p])
    BY <1>0, ItemsWhenIdle
  <1>3. \A p \in DOMAIN tree : items[p].questions = QuestionsIn(tree[p].ctx)
    BY <1>2 DEF ItemOf
  <1>4. \A p \in DOMAIN tree : Firsts(Owners(tree[p].id)) = {p} /\ Owners(tree[p].id) # {}
    BY <1>1, OwnersAlone DEF OnInv, BankTyped, BankInv
  <1>5. \A p \in DOMAIN tree : tree[p].id \in DOMAIN mapIds <=> p # <<>>
    <2>1. tree[<<>>].id \notin DOMAIN mapIds
      BY <1>1, NamesAssumption DEF OnInv, DiskTree, BankTyped, IdsInv, IdTable
    <2>2. \A p \in DOMAIN tree \ {<<>>} : tree[p].id \in DOMAIN mapIds
      BY <1>1, NoCallClean DEF OnInv
    <2> QED BY <2>1, <2>2
  <1>6. ASSUME tree' = tree, items' = items PROVE Mirrored'
    BY <1>0, <1>1, <1>2, <1>6 DEF Mirrored, NoCall
  <1>7. ASSUME NEW p \in DOMAIN items, NEW q \in NewQids, NEW t \in Texts, ClickAddQuestion(p, q, t)
        PROVE  Mirrored'
    <2> DEFINE o == OpenedCtx(tree[p])
               Q == QuestionsIn(tree[p].ctx)
    <2>1. /\ AddQuestion(tree[p].id, q, t)
          /\ items' = IF refused' = "none" THEN [items EXCEPT ![p].questions = With(items[p].questions, q, t)]
                      ELSE items
      BY <1>0, <1>1, <1>2, <1>7 DEF ClickAddQuestion, Mirror, ItemOf
    <2>2. CASE p = <<>>
      <3>1. refused' = "addQuestion" /\ tree' = tree
        BY <1>2, <1>5, <2>1, <2>2 DEF AddQuestion, OnQuestions
      <3> QED BY <1>6, <2>1, <3>1
    <2>3. CASE p # <<>>
      <3>1. /\ tree' = [tree EXCEPT ![p].ctx = [o EXCEPT ![1].items = With(o[1].items, q, t)]]
            /\ refused' = IF q \notin DOMAIN o[1].items THEN "none" ELSE "addQuestion"
        <4> DEFINE g == tree[p].id
        <4>1. /\ g \in DOMAIN mapIds /\ Owners(g) # {} /\ Firsts(Owners(g)) = {p}
              /\ AddQuestion(g, q, t)
          BY <1>2, <1>4, <1>5, <2>1, <2>3
        <4> HIDE DEF g
        <4>2. \E x \in Firsts(Owners(g)) :
                /\ tree' = [tree EXCEPT ![x].ctx =
                              [OpenedCtx(tree[x]) EXCEPT ![1].items = With(OpenedCtx(tree[x])[1].items, q, t)]]
                /\ refused' = IF q \notin DOMAIN OpenedCtx(tree[x])[1].items THEN "none" ELSE "addQuestion"
          BY <4>1 DEF AddQuestion, OnQuestions
        <4> QED BY <4>1, <4>2
      <3>2. o[1].items \in Items /\ o[1].items = Q
        BY <1>1, <1>2, <2>3, OpenedQuestions
      <3>3. With(Q, q, t) \in Items
        <4>1. q \in Qids
          BY DEF NewQids, FreshQids
        <4> QED BY <3>2, <4>1, ItemsProperties
      <3>4. items' = [items EXCEPT ![p].questions = With(Q, q, t)]
        <4>1. CASE q \notin DOMAIN Q
          BY <1>2, <1>3, <2>1, <3>1, <3>2, <4>1
        <4>2. CASE q \in DOMAIN Q
          <5>1. With(Q, q, t) = Q
            BY <3>2, <4>2 DEF With, Items
          <5>2. items' = items
            BY <2>1, <3>1, <3>2, <4>2
          <5>3. items[p] = [items[p] EXCEPT !.questions = Q]
            BY <1>2, <1>3 DEF ItemOf
          <5>4. items = [items EXCEPT ![p] = [items[p] EXCEPT !.questions = Q]]
            BY <1>2, <5>3, ItemsAreItems
          <5> QED BY <5>1, <5>2, <5>4
        <4> QED BY <4>1, <4>2
      <3> DEFINE y == With(Q, q, t)
      <3>5. /\ y \in Items /\ items' = [items EXCEPT ![p].questions = y]
            /\ tree' = [tree EXCEPT ![p].ctx = [OpenedCtx(tree[p]) EXCEPT ![1].items = y]]
        BY <3>1, <3>2, <3>3, <3>4
      <3> HIDE DEF y
      <3> QED BY <1>0, <1>1, <1>2, <2>3, <3>5, QuestionMirrors
    <2> QED BY <2>2, <2>3
  <1>8. ASSUME NEW p \in DOMAIN items, NEW q \in DOMAIN items[p].questions, ClickDeleteQuestion(p, q)
        PROVE  Mirrored'
    <2> DEFINE o == OpenedCtx(tree[p])
               Q == QuestionsIn(tree[p].ctx)
    <2>1. /\ DeleteQuestion(tree[p].id, q) /\ q \in DOMAIN Q
          /\ items' = IF refused' = "none" THEN [items EXCEPT ![p].questions = Without(items[p].questions, {q})]
                      ELSE items
      BY <1>0, <1>1, <1>2, <1>3, <1>8 DEF ClickDeleteQuestion, Mirror, ItemOf
    <2>2. CASE p = <<>>
      <3>1. refused' = "deleteQuestion" /\ tree' = tree
        BY <1>2, <1>5, <2>1, <2>2 DEF DeleteQuestion, OnQuestions
      <3> QED BY <1>6, <2>1, <3>1
    <2>3. CASE p # <<>>
      <3>1. /\ tree' = [tree EXCEPT ![p].ctx = [o EXCEPT ![1].items = Without(o[1].items, {q})]]
            /\ refused' = IF q \in DOMAIN o[1].items THEN "none" ELSE "deleteQuestion"
        <4> DEFINE g == tree[p].id
        <4>1. /\ g \in DOMAIN mapIds /\ Owners(g) # {} /\ Firsts(Owners(g)) = {p}
              /\ DeleteQuestion(g, q)
          BY <1>2, <1>4, <1>5, <2>1, <2>3
        <4> HIDE DEF g
        <4>2. \E x \in Firsts(Owners(g)) :
                /\ tree' = [tree EXCEPT ![x].ctx =
                              [OpenedCtx(tree[x]) EXCEPT ![1].items = Without(OpenedCtx(tree[x])[1].items, {q})]]
                /\ refused' = IF q \in DOMAIN OpenedCtx(tree[x])[1].items THEN "none" ELSE "deleteQuestion"
          BY <4>1 DEF DeleteQuestion, OnQuestions
        <4> QED BY <4>1, <4>2
      <3>2. o[1].items \in Items /\ o[1].items = Q
        BY <1>1, <1>2, <2>3, OpenedQuestions
      <3> DEFINE y == Without(Q, {q})
      <3>3. y \in Items
        BY <3>2, ItemsProperties
      <3>4. /\ items' = [items EXCEPT ![p].questions = y]
            /\ tree' = [tree EXCEPT ![p].ctx = [OpenedCtx(tree[p]) EXCEPT ![1].items = y]]
        BY <1>2, <1>3, <2>1, <3>1, <3>2
      <3> HIDE DEF y
      <3> QED BY <1>0, <1>1, <1>2, <2>3, <3>3, <3>4, QuestionMirrors
    <2> QED BY <2>2, <2>3
  <1>9. ASSUME NEW p \in DOMAIN items, NEW t \in Texts, NEW q \in DOMAIN items[p].questions,
               ClickModifyQuestion(p, q, t)
        PROVE  Mirrored'
    <2> DEFINE o == OpenedCtx(tree[p])
               Q == QuestionsIn(tree[p].ctx)
               Upd(f) == [x \in DOMAIN f |-> IF x = q THEN t ELSE f[x]]
    <2>1. /\ UpdateQuestion(tree[p].id, q, t) /\ q \in DOMAIN Q
          /\ items' = IF refused' = "none" THEN [items EXCEPT ![p].questions[q] = t] ELSE items
      BY <1>0, <1>1, <1>2, <1>3, <1>9 DEF ClickModifyQuestion, Mirror, ItemOf
    <2>2. CASE p = <<>>
      <3>1. refused' = "updateQuestion" /\ tree' = tree
        BY <1>2, <1>5, <2>1, <2>2 DEF UpdateQuestion, OnQuestions
      <3> QED BY <1>6, <2>1, <3>1
    <2>3. CASE p # <<>>
      <3>1. /\ tree' = [tree EXCEPT ![p].ctx = [o EXCEPT ![1].items = Upd(o[1].items)]]
            /\ refused' = IF q \in DOMAIN o[1].items THEN "none" ELSE "updateQuestion"
        <4> DEFINE g == tree[p].id
        <4>1. /\ g \in DOMAIN mapIds /\ Owners(g) # {} /\ Firsts(Owners(g)) = {p}
              /\ UpdateQuestion(g, q, t)
          BY <1>2, <1>4, <1>5, <2>1, <2>3
        <4> HIDE DEF g
        <4>2. \E x \in Firsts(Owners(g)) :
                /\ tree' = [tree EXCEPT ![x].ctx =
                              [OpenedCtx(tree[x]) EXCEPT ![1].items = Upd(OpenedCtx(tree[x])[1].items)]]
                /\ refused' = IF q \in DOMAIN OpenedCtx(tree[x])[1].items THEN "none" ELSE "updateQuestion"
          BY <4>1 DEF UpdateQuestion, OnQuestions
        <4> QED BY <4>1, <4>2
      <3>2. o[1].items \in Items /\ o[1].items = Q
        BY <1>1, <1>2, <2>3, OpenedQuestions
      <3> DEFINE y == Upd(Q)
      <3>3. y \in Items
        BY <3>2, ItemsProperties
      <3>4. [Q EXCEPT ![q] = t] = y
        BY <3>2 DEF Items
      <3>5. items' = [items EXCEPT ![p].questions = y]
        <4>1. items' = [items EXCEPT ![p].questions = [items[p].questions EXCEPT ![q] = t]]
          BY <2>1, <3>1, <3>2
        <4> QED BY <1>2, <1>3, <3>4, <4>1
      <3>6. tree' = [tree EXCEPT ![p].ctx = [OpenedCtx(tree[p]) EXCEPT ![1].items = y]]
        BY <3>1, <3>2
      <3> HIDE DEF y
      <3> QED BY <1>0, <1>1, <1>2, <2>3, <3>3, <3>5, <3>6, QuestionMirrors
    <2> QED BY <2>2, <2>3
  <1> QED BY <1>7, <1>8, <1>9 DEF ClickQuestion

(* What the window shows before the first start. *)
LEMMA NothingShown == ItemsOf(NoTree) = NoItems
  <1>1. ItemOf(Group(RootName, NoId, RootPath)) = GroupItem(RootName, NoId)
    BY QuestionsOfOneFile DEF ItemOf, Group, GroupItem
  <1> DEFINE grp == Group(RootName, NoId, RootPath)
             t == NoTree
  <1>2. DOMAIN t = {<<>>} /\ t[<<>>] = grp
    BY DEF NoTree
  <1> HIDE DEF grp, t
  <1>3. ItemsOf(t) = [p \in {<<>>} |-> ItemOf(t[p])]
    BY <1>2, ItemsAreItems
  <1>4. ItemsOf(t) = [p \in {<<>>} |-> GroupItem(RootName, NoId)]
    BY <1>1, <1>2, <1>3 DEF grp
  <1> QED BY <1>4 DEF NoItems, t

(* The window shows the whole tree, each group with its own questions. *)
SeenWhole == run # "closing" /\ items = ItemsOf(tree)

(* A tree that is shown whole is shown by names, places and questions. *)
LEMMA WholeIsShown ==
  ASSUME BankTyped, Clean, SeenWhole
  PROVE  /\ {<<Way(tree, p), tree[p].name>> : p \in DOMAIN tree \ {<<>>}}
              = {<<Way(items, p), items[p].name>> : p \in DOMAIN items \ {<<>>}}
         /\ Places(tree) = Places(items)
         /\ HeldQuestions = ShownQuestions
  <1>2. DOMAIN items = DOMAIN tree /\ \A p \in DOMAIN tree : items[p] = ItemOf(tree[p])
    BY ItemsAreItems DEF SeenWhole
  <1>3. \A p \in DOMAIN tree : /\ items[p].name = tree[p].name /\ items[p].id = tree[p].id
                               /\ items[p].questions = ItemsAt(tree, p)
    BY <1>2 DEF ItemOf, ItemsAt
  <1>4. Rows(tree) /\ DOMAIN tree \subseteq Positions
    <2>1. DOMAIN tree \subseteq Positions
      BY DEF BankTyped, BankInv, TreeTyped
    <2>2. CASE run = "on"
      BY <2>1, <2>2 DEF Clean, OnInv, DiskTree
    <2>3. CASE run # "on"
      <3>1. tree = NoTree
        BY <2>3 DEF BankTyped, IdsInv, SeenWhole
      <3> QED BY <2>1, <3>1 DEF NoTree, Rows
    <2> QED BY <2>2, <2>3
  <1>5. \A p \in DOMAIN tree : Way(items, p) = Way(tree, p)
    <2>1. \A p \in DOMAIN tree : \A k \in DOMAIN p : SubSeq(p, 1, k) \in DOMAIN tree
      BY <1>4, PrefixesInTree
    <2>2. \A p \in DOMAIN tree : \A k \in DOMAIN p :
            items[SubSeq(p, 1, k)].id = tree[SubSeq(p, 1, k)].id
      BY <1>3, <2>1
    <2> QED BY <2>2 DEF Way
  <1>6. {<<Way(tree, p), tree[p].name>> : p \in DOMAIN tree \ {<<>>}}
          = {<<Way(items, p), items[p].name>> : p \in DOMAIN items \ {<<>>}}
    BY <1>2, <1>3, <1>5
  <1> DEFINE Held(p) == {<<Way(tree, p), q, ItemsAt(tree, p)[q]>> : q \in DOMAIN ItemsAt(tree, p)}
             Seen(p) == {<<Way(items, p), q, items[p].questions[q]>> :
                           q \in DOMAIN items[p].questions}
  <1>7. \A p \in DOMAIN tree : Held(p) = Seen(p)
    BY <1>3, <1>5
  <1>8. HeldQuestions = UNION {Held(p) : p \in DOMAIN tree}
    BY DEF HeldQuestions
  <1>9. ShownQuestions = UNION {Seen(p) : p \in DOMAIN tree}
    BY <1>2 DEF ShownQuestions
  <1> HIDE DEF Held, Seen
  <1>10. HeldQuestions = ShownQuestions
    BY <1>7, <1>8, <1>9
  <1>11. Places(tree) = Places(items)
    BY <1>2, <1>5 DEF Places
  <1> QED BY <1>6, <1>10, <1>11

(* What the invariant says in the words of Window: by names and questions, *)
(* the items shown are the groups there are.                               *)
LEMMA MirroredIsShown ==
  ASSUME BankTyped, Clean, Mirrored, run # "closing", call = NoCall
  PROVE  /\ {<<Way(tree, p), tree[p].name>> : p \in DOMAIN tree \ {<<>>}}
              = {<<Way(items, p), items[p].name>> : p \in DOMAIN items \ {<<>>}}
         /\ HeldQuestions = ShownQuestions
  <1>1. CASE run = "on"
    BY <1>1, ItemsWhenIdle, WholeIsShown DEF Idle, SeenWhole
  <1>2. CASE run # "on"
    BY <1>2, NothingShown, WholeIsShown DEF Mirrored, BankTyped, IdsInv, SeenWhole
  <1> QED BY <1>1, <1>2

(* The inductive invariant of the window, with BankTyped and CleanInv. *)
MirrorInv == Undisturbed => FilesOpen /\ Mirrored

(* Before the first start there is nothing to be shown. *)
LEMMA MirrorInit == WinInit => MirrorInv
  BY DEF WinInit, Init, MirrorInv, FilesOpen, Mirrored

(* The invariant of the window and the bank is inductive. *)
LEMMA WindowStep ==
  ASSUME Ordinary, BankTyped, CleanInv, MirrorInv, [WinNext]_winVars
  PROVE  (BankTyped /\ CleanInv /\ MirrorInv)'
  <1>1. [Step]_vars
    BY WinNextIsStep DEF winVars
  <1>2. BankTyped'
    BY <1>1, BankStep
  <1>3. CASE ~Undisturbed'
    BY <1>2, <1>3 DEF CleanInv, MirrorInv
  <1>4. CASE Undisturbed'
    <2>1. Undisturbed /\ UNCHANGED budget
      BY <1>1, <1>4, BudgetStep DEF BankTyped
    <2>2. Clean /\ FilesOpen /\ Mirrored
      BY <2>1 DEF CleanInv, MirrorInv
    <2>3. [Next]_vars
      BY <2>2, WinStepIsNext DEF winVars
    <2>4. CleanInv' /\ Clean'
      BY <1>2, <1>4, <2>3, CleanStep DEF CleanInv
    <2>5. FilesOpen'
      BY <2>1, <2>2, <2>3, <2>4, OpenStep
    <2>6. Mirrored'
      <3>1. CASE UNCHANGED winVars
        BY <2>2, <3>1 DEF winVars, vars, memory, Mirrored
      <3>2. CASE WinNext
        BY <2>1, <2>2, <3>2, ShowMirrors, LeaveMirrors, WorkMirrors, ClickGroupMirrors,
           ClickQuestionMirrors DEF WinNext
      <3> QED BY <3>1, <3>2
    <2> QED BY <1>2, <2>4, <2>5, <2>6 DEF MirrorInv
  <1> QED BY <1>3, <1>4

(* The inductive invariant implies ShowsBank. *)
LEMMA MirrorMeansShowsBank ==
  BankTyped /\ CleanInv /\ MirrorInv => ShowsBank
  <1> SUFFICES ASSUME BankTyped, CleanInv, MirrorInv,
                      Mishaps = 0, run # "closing", call = NoCall
               PROVE  ShowsBank
    BY DEF ShowsBank
  <1>1. Undisturbed
    <2>1. budget \in [renames : 0..MaxRenames, crashes : 0..MaxCrashes, faults : 0..MaxFaults]
      BY DEF BankTyped, IdsInv
    <2>2. /\ budget.renames \in 0..MaxRenames /\ budget.crashes \in 0..MaxCrashes
          /\ budget.faults \in 0..MaxFaults
          /\ budget = [renames |-> budget.renames, crashes |-> budget.crashes,
                       faults |-> budget.faults]
      BY <2>1
    <2>3. /\ budget.renames = MaxRenames /\ budget.crashes = MaxCrashes
          /\ budget.faults = MaxFaults
      <3> DEFINE r == budget.renames
                 c == budget.crashes
                 f == budget.faults
      <3>1. /\ r \in 0..MaxRenames /\ c \in 0..MaxCrashes /\ f \in 0..MaxFaults
            /\ (MaxRenames - r) + (MaxCrashes - c) + (MaxFaults - f) = 0
        BY <2>2 DEF Mishaps
      <3> HIDE DEF r, c, f
      <3>2. r = MaxRenames /\ c = MaxCrashes /\ f = MaxFaults
        BY <3>1, BankConstants
      <3> QED BY <3>2 DEF r, c, f
    <2> QED BY <2>2, <2>3 DEF Undisturbed
  <1> QED BY <1>1, MirroredIsShown DEF CleanInv, MirrorInv, ShowsBank

(* Until the first rename, kill or deletion that may fail, the window      *)
(* shows, whenever it can be clicked on, exactly the groups of the bank,   *)
(* each below the parents it has there, and exactly their questions:       *)
(* through any number of sessions, restarts, deletions of whole subtrees   *)
(* and refused operations.                                                 *)
THEOREM WindowShowsBank ==
  ASSUME Ordinary
  PROVE  WinSpec => []ShowsBank
  <1>1. WinInit => BankTyped /\ CleanInv /\ MirrorInv
    BY IdsInit, BankInit, CleanInit, MirrorInit DEF WinInit, BankTyped
  <1>2. BankTyped /\ CleanInv /\ MirrorInv /\ [WinNext]_winVars
          => (BankTyped /\ CleanInv /\ MirrorInv)'
    BY WindowStep
  <1> QED BY <1>1, <1>2, MirrorMeansShowsBank, PTL DEF WinSpec

(* Until then the window never calls the bank with an id that is not       *)
(* there, so that the bank below it keeps what it keeps by itself:         *)
(* registered groups, and open files that can be saved.                    *)
THEOREM UndisturbedWindow ==
  ASSUME Ordinary
  PROVE  WinSpec => [](Undisturbed => GroupsRegistered /\ OpenFilesSavable)
  <1>1. WinInit => BankTyped /\ CleanInv /\ MirrorInv
    BY IdsInit, BankInit, CleanInit, MirrorInit DEF WinInit, BankTyped
  <1>2. BankTyped /\ CleanInv /\ MirrorInv /\ [WinNext]_winVars
          => (BankTyped /\ CleanInv /\ MirrorInv)'
    BY WindowStep
  <1>3. BankTyped /\ CleanInv => (Undisturbed => GroupsRegistered /\ OpenFilesSavable)
    BY CleanBank DEF CleanInv
  <1> QED BY <1>1, <1>2, <1>3, PTL DEF WinSpec

-----------------------------------------------------------------------------
(* Nothing hidden in undisturbed sessions, in the middle of a deletion and *)
(* of uninit() too.                                                        *)

OneFileEach == \A p \in DOMAIN tree : Len(tree[p].ctx) <= 1

(* erase() of a group leaves every other group its place.                  *)
LEMMA WithoutGroupWays ==
  ASSUME NEW t, TreeTyped(t), Rows(t), NEW q \in DOMAIN t \ {<<>>},
         NEW u, u = WithoutGroup(t, q), NEW r \in Kept(t, q)
  PROVE  Way(u, MovedUp(q, r)) = Way(t, r) /\ u[MovedUp(q, r)] = t[r]
  <1> DEFINE s == MovedUp(q, r)
  <1>1. \A w \in Kept(t, q) : u[MovedUp(q, w)] = t[w]
    BY WithoutGroupNodes
  <1>2. /\ q \in Positions /\ q # <<>> /\ r \in Positions /\ r \in DOMAIN t
        /\ Len(q) \in Nat /\ Len(r) \in Nat /\ ~IsPrefix(q, r)
        /\ DOMAIN t \subseteq Positions
    BY LenProperties DEF Kept, TreeTyped, Positions
  <1>3. /\ IsAfter(q, r) <=> /\ Len(q) <= Len(r) /\ \A j \in 1..(Len(q) - 1) : r[j] = q[j]
                             /\ r[Len(q)] > q[Len(q)]
        /\ s \in Positions /\ Len(s) = Len(r)
        /\ \A j \in 1..Len(r) : s[j] = IF IsAfter(q, r) /\ j = Len(q) THEN r[j] - 1 ELSE r[j]
    BY <1>2, MovedUpPointwise
  <1> HIDE DEF s
  <1>4. DOMAIN s = 1..Len(r) /\ DOMAIN r = 1..Len(r)
    BY <1>2, <1>3, LenProperties DEF Positions
  <1>5. ASSUME NEW k \in 1..Len(r)
        PROVE  u[SubSeq(s, 1, k)].id = t[SubSeq(r, 1, k)].id
    <2> DEFINE w == SubSeq(r, 1, k)
               m == MovedUp(q, w)
               v == SubSeq(s, 1, k)
    <2>1. k \in Nat /\ k <= Len(r) /\ k \in DOMAIN r
      BY <1>2, <1>4
    <2>2. \A i \in 1..k : i \in 1..Len(r) /\ r[i] \in Nat /\ s[i] \in Nat
      <3>1. \A i \in 1..k : i \in 1..Len(r)
        BY <1>2, <2>1
      <3>2. \A i \in 1..Len(r) : r[i] \in Nat /\ s[i] \in Nat
        BY <1>2, <1>3, <1>4, ElementOfSeq DEF Positions
      <3> QED BY <3>1, <3>2
    <2>3. /\ w \in Positions /\ Len(w) = k /\ \A i \in 1..k : w[i] = r[i]
          /\ v \in Positions /\ Len(v) = k /\ \A i \in 1..k : v[i] = s[i]
      BY <2>1, <2>2, SubSeqProperties DEF Positions
    <2>4. w \in DOMAIN t
      BY <1>2, <2>1, PrefixesInTree
    <2> HIDE DEF w, v
    <2>5. ~IsPrefix(q, w)
      <3> SUFFICES ASSUME IsPrefix(q, w) PROVE FALSE
        OBVIOUS
      <3>1. Len(q) <= k /\ \A i \in 1..Len(q) : q[i] = w[i]
        BY <1>2, <2>3, PrefixOfPosition
      <3>2. \A i \in 1..Len(q) : i \in 1..k
        BY <1>2, <2>1, <3>1
      <3>3. Len(q) <= Len(r) /\ \A i \in 1..Len(q) : q[i] = r[i]
        BY <1>2, <2>1, <2>3, <3>1, <3>2
      <3> QED BY <1>2, <3>3, PrefixOfPosition
    <2>6. w \in Kept(t, q) /\ u[m] = t[w]
      BY <1>1, <2>4, <2>5 DEF Kept
    <2>7. /\ IsAfter(q, w) <=> /\ Len(q) <= Len(w) /\ \A j \in 1..(Len(q) - 1) : w[j] = q[j]
                               /\ w[Len(q)] > q[Len(q)]
          /\ m \in Positions /\ Len(m) = Len(w)
          /\ \A j \in 1..Len(w) : m[j] = IF IsAfter(q, w) /\ j = Len(q) THEN w[j] - 1 ELSE w[j]
      BY <1>2, <2>3, MovedUpPointwise
    <2> HIDE DEF m
    <2>8. ASSUME Len(q) \in 1..k PROVE IsAfter(q, w) <=> IsAfter(q, r)
      <3>1. Len(q) <= Len(w) /\ Len(q) <= Len(r) /\ w[Len(q)] = r[Len(q)]
        BY <1>2, <2>1, <2>3, <2>8
      <3>2. \A j \in 1..(Len(q) - 1) : w[j] = r[j]
        BY <1>2, <2>1, <2>3, <2>8
      <3> QED BY <1>3, <2>7, <3>1, <3>2
    <2>9. ASSUME NEW j \in 1..k PROVE m[j] = v[j]
      <3>1. j \in 1..Len(w) /\ j \in 1..Len(r)
        BY <2>2, <2>3
      <3>2. m[j] = IF IsAfter(q, w) /\ j = Len(q) THEN w[j] - 1 ELSE w[j]
        BY <2>7, <3>1
      <3>3. v[j] = IF IsAfter(q, r) /\ j = Len(q) THEN r[j] - 1 ELSE r[j]
        BY <1>3, <2>3, <3>1
      <3>4. w[j] = r[j]
        BY <2>3
      <3> QED BY <2>8, <3>2, <3>3, <3>4
    <2>10. m = v
      BY <2>3, <2>7, <2>9, SeqEqual DEF Positions
    <2> QED BY <2>6, <2>10 DEF w, v
  <1>6. \A k \in DOMAIN s : u[SubSeq(s, 1, k)].id = t[SubSeq(r, 1, k)].id
    BY <1>4, <1>5
  <1>7. Way(u, s) = [k \in DOMAIN s |-> u[SubSeq(s, 1, k)].id]
        /\ Way(t, r) = [k \in DOMAIN r |-> t[SubSeq(r, 1, k)].id]
    BY DEF Way
  <1>8. Way(u, s) = Way(t, r)
    BY <1>4, <1>6, <1>7
  <1> QED BY <1>1, <1>8 DEF s

(* A step that leaves the items alone hides nothing when every group it    *)
(* leaves was there before, at its place and with the same questions or    *)
(* none.                                                                   *)
LEMMA FewerCovered ==
  ASSUME Covers, items' = items,
         \A s \in DOMAIN tree' : \E r \in DOMAIN tree :
           /\ Way(tree', s) = Way(tree, r)
           /\ QuestionsIn(tree'[s].ctx) \in {QuestionsIn(tree[r].ctx), <<>>}
  PROVE  Covers'
  <1>1. Places(tree') \subseteq Places(tree)
    BY DEF Places
  <1>2. Places(items') = Places(items) /\ ShownQuestions' = ShownQuestions
    BY DEF ShownQuestions
  <1>3. ASSUME NEW x \in HeldQuestions' PROVE x \in HeldQuestions
    <2>1. PICK s \in DOMAIN tree' :
            x \in {<<Way(tree', s), q, ItemsAt(tree', s)[q]>> : q \in DOMAIN ItemsAt(tree', s)}
      BY <1>3 DEF HeldQuestions
    <2>2. PICK q \in DOMAIN QuestionsIn(tree'[s].ctx) :
            x = <<Way(tree', s), q, QuestionsIn(tree'[s].ctx)[q]>>
      BY <2>1 DEF ItemsAt
    <2>3. PICK r \in DOMAIN tree :
            /\ Way(tree', s) = Way(tree, r)
            /\ QuestionsIn(tree'[s].ctx) \in {QuestionsIn(tree[r].ctx), <<>>}
      BY <2>1
    <2>4. DOMAIN <<>> = {}
      OBVIOUS
    <2>5. QuestionsIn(tree'[s].ctx) = QuestionsIn(tree[r].ctx)
      BY <2>2, <2>3, <2>4
    <2>6. x = <<Way(tree, r), q, ItemsAt(tree, r)[q]>> /\ q \in DOMAIN ItemsAt(tree, r)
      BY <2>2, <2>3, <2>5 DEF ItemsAt
    <2> QED BY <2>6 DEF HeldQuestions
  <1> QED BY <1>1, <1>2, <1>3 DEF Covers


(* Closing the file of a group hides nothing. *)
LEMMA CloseFileHidesNothing ==
  ASSUME BankTyped, Clean, OneFileEach, Covers, CloseFile, items' = items
  PROVE  Covers' /\ OneFileEach'
  <1>1. PICK p \in DOMAIN tree : Closing(p) /\ tree' = [tree EXCEPT ![p].ctx = Tail(tree[p].ctx)]
    BY DEF CloseFile
  <1>2. /\ tree' = [tree EXCEPT ![p] = [tree[p] EXCEPT !.ctx = Tail(tree[p].ctx)]]
        /\ tree \in [DOMAIN tree -> Node]
    BY <1>1 DEF BankTyped, BankInv, TreeTyped
  <1>3. /\ DOMAIN tree' = DOMAIN tree /\ \A r \in DOMAIN tree \ {p} : tree'[r] = tree[r]
        /\ tree'[p].ctx = Tail(tree[p].ctx)
        /\ \A r \in DOMAIN tree : tree'[r].id = tree[r].id
    BY <1>2 DEF Node
  <1>4. tree'[p].ctx = <<>>
    <2> DEFINE c == tree[p].ctx
    <2>1. c \in Seq(Ctx) /\ c # <<>> /\ Len(c) <= 1
      BY <1>1, <1>2 DEF Closing, Node, OneFileEach
    <2> HIDE DEF c
    <2>2. Len(c) \in Nat /\ Len(c) # 0
      BY <2>1, LenProperties, EmptySeq
    <2> DEFINE n == Len(c)
    <2>3. n = 1
      <3>1. n \in Nat /\ n # 0 /\ n <= 1
        BY <2>1, <2>2
      <3> HIDE DEF n
      <3> QED BY <3>1
    <2>4. Tail(c) \in Seq(Ctx) /\ Len(Tail(c)) = 0
      BY <2>1, <2>3, HeadTailProperties
    <2>5. Tail(c) = <<>>
      BY <2>4, EmptySeq
    <2> QED BY <1>3, <2>5 DEF c
  <1>5. ASSUME NEW s \in DOMAIN tree'
        PROVE  /\ Way(tree', s) = Way(tree, s)
               /\ QuestionsIn(tree'[s].ctx) \in {QuestionsIn(tree[s].ctx), <<>>}
    <2>1. Rows(tree) /\ DOMAIN tree \subseteq Positions
      BY <1>1 DEF Closing, Clean, OnInv, ClosingInv, DiskTree, BankTyped, BankInv, TreeTyped
    <2>2. s \in DOMAIN tree
      BY <1>3
    <2>3. \A k \in DOMAIN s : SubSeq(s, 1, k) \in DOMAIN tree
      BY <2>1, <2>2, PrefixesInTree
    <2>4. \A k \in DOMAIN s : tree'[SubSeq(s, 1, k)].id = tree[SubSeq(s, 1, k)].id
      BY <1>3, <2>3
    <2>5. Way(tree', s) = Way(tree, s)
      BY <2>4 DEF Way
    <2>6. QuestionsIn(tree'[s].ctx) \in {QuestionsIn(tree[s].ctx), <<>>}
      <3>1. CASE s = p
        BY <1>4, <3>1, QuestionsOfOneFile
      <3>2. CASE s # p
        BY <1>3, <2>2, <3>2
      <3> QED BY <3>1, <3>2
    <2> QED BY <2>5, <2>6
  <1>6. Covers'
    BY <1>3, <1>5, FewerCovered
  <1>7. OneFileEach'
    <2>1. Len(<<>>) <= 1
      OBVIOUS
    <2> QED BY <1>3, <1>4, <2>1 DEF OneFileEach
  <1> QED BY <1>6, <1>7


(* A step that leaves the bank's tree and the items alone hides nothing. *)
LEMMA SameCovered ==
  ASSUME Covers, items' = items, tree' = tree
  PROVE  Covers'
  <1>1. HeldQuestions' = HeldQuestions /\ ShownQuestions' = ShownQuestions
    BY DEF HeldQuestions, ShownQuestions
  <1> QED BY <1>1 DEF Covers

(* Erasing a group hides nothing. *)
LEMMA EraseHidesNothing ==
  ASSUME TreeTyped(tree), Rows(tree), NEW q \in DOMAIN tree \ {<<>>},
         tree' = WithoutGroup(tree, q), Covers, items' = items
  PROVE  Covers'
  <1> DEFINE u == tree'
  <1>1. u = WithoutGroup(tree, q)
    OBVIOUS
  <1> HIDE DEF u
  <1>2. ASSUME NEW s \in DOMAIN u
        PROVE  \E r \in DOMAIN tree : Way(u, s) = Way(tree, r) /\ u[s] = tree[r]
    <2>1. PICK r \in Kept(tree, q) : s = MovedUp(q, r)
      BY <1>1, WithoutGroupNodes
    <2>2. Way(u, MovedUp(q, r)) = Way(tree, r) /\ u[MovedUp(q, r)] = tree[r]
      BY <1>1, WithoutGroupWays
    <2> QED BY <2>1, <2>2 DEF Kept
  <1>3. \A s \in DOMAIN tree' : \E r \in DOMAIN tree :
           /\ Way(tree', s) = Way(tree, r)
           /\ QuestionsIn(tree'[s].ctx) \in {QuestionsIn(tree[r].ctx), <<>>}
    BY <1>2 DEF u
  <1> QED BY <1>3, FewerCovered

(* A click on a group's menu does not begin to delete yet. *)
LEMMA GroupClickWaits ==
  ASSUME ClickGroup
  PROVE  run' # "closing" /\ call'.frames = <<>>
  <1>1. ASSUME NEW pid, NEW n, NEW id, AddGroup(pid, n, id)
        PROVE  run' # "closing" /\ call' = NoCall
    <2>1. Idle
      BY <1>1 DEF AddGroup
    <2>2. CASE refused' = "addGroup" /\ UNCHANGED <<run, memory, dirs>>
      BY <2>1, <2>2 DEF Idle, memory
    <2>3. CASE \E p \in Firsts(Tried(pid)) : AddGroupTo(p, n, id)
      BY <2>1, <2>3 DEF AddGroupTo, ReturnTrue, Ended, Forget, Idle
    <2> QED BY <1>1, <2>2, <2>3 DEF AddGroup
  <1>2. ASSUME NEW pid, NEW id, NEW mayFail, DeleteGroup(pid, id, mayFail)
        PROVE  run' = "on" /\ call'.frames = <<>>
    BY <1>2 DEF DeleteGroup, Idle, NoCall
  <1>3. ASSUME NEW pid, NEW id, NEW n, NEW mayFail, UpdateGroup(pid, id, n, mayFail)
        PROVE  run' = "on" /\ call'.frames = <<>>
    BY <1>3 DEF UpdateGroup, Idle, NoCall
  <1> QED BY <1>1, <1>2, <1>3 DEF ClickGroup, ClickAddGroup, ClickDeleteGroup, ClickModifyGroup,
                                  NoCall

(* Every step shows all that is left, or leaves no more than there was.    *)
LEMMA HidesNothing ==
  ASSUME Ordinary, BankTyped, Clean, Mirrored, Covers, OneFileEach,
         BankTyped', Mirrored', FilesOpen', [WinNext]_winVars
  PROVE  (SeenWhole' \/ Covers') /\ OneFileEach'
  <1>1. CASE run' \in {"off", "failed"}
    <2>1. items' = NoItems /\ tree' = NoTree
      BY <1>1 DEF Mirrored, BankTyped, IdsInv
    <2>2. SeenWhole'
      BY <1>1, <2>1, NothingShown DEF SeenWhole
    <2>3. Len(<<>>) <= 1
      OBVIOUS
    <2>4. OneFileEach'
      BY <2>1, <2>3 DEF OneFileEach, NoTree, Group
    <2> QED BY <2>2, <2>4
  <1>2. CASE run' = "on" /\ call'.frames = <<>>
    BY <1>2 DEF Mirrored, FilesOpen, SeenWhole, OneFileEach
  <1>3. CASE run' = "closing" \/ (run' = "on" /\ call'.frames # <<>>)
    <2>1. CASE UNCHANGED winVars
      BY <2>1, SameCovered DEF winVars, vars, memory, OneFileEach
    <2>2. CASE Show
      <3>1. call' = NoCall /\ run' \in {"on", "failed"}
        BY <2>2 DEF Show, Start, Forget, BankTyped, IdsInv
      <3> QED BY <1>3, <3>1 DEF NoCall
    <2>3. CASE Leave
      <3>1. Quit /\ UNCHANGED <<items, picked>>
        BY <1>3, <2>3 DEF Leave, QuitFailed, Killed, Crash, CrashInSave, CrashInClose,
                          CrashInRemove, Ended
      <3>2. tree' = tree /\ items' = items
        BY <3>1 DEF Quit
      <3> QED BY <3>2, SameCovered DEF OneFileEach
    <2>4. CASE Work
      <3>1. /\ GoOn
            /\ IF run' = "off" \/ (call # NoCall /\ call' = NoCall)
               THEN Mirror(IF call.op = "deleteGroup" THEN Deleted ELSE Modified)
               ELSE UNCHANGED <<items, picked>>
        BY <2>4 DEF Work
      <3>2. CASE CloseFile
        <4>1. items' = items
          BY <1>3, <3>1, <3>2 DEF CloseFile
        <4> QED BY <3>2, <4>1, CloseFileHidesNothing
      <3>3. ~Closed
        BY <1>3 DEF Closed, Ended
      <3>4. CASE DeleteTry \/ DeleteTurn
        <4>1. tree' = tree /\ run' = "on" /\ call'.frames # <<>>
          BY <3>4, TryFinds, TurnKeepsFirst
        <4>2. items' = items
          BY <3>1, <4>1 DEF NoCall
        <4> QED BY <4>1, <4>2, SameCovered DEF OneFileEach
      <3>5. CASE DeleteEnds
        <4>1. /\ run = "on" /\ run' = "on"
              /\ top.at \in DOMAIN tree \ {<<>>} /\ tree' = WithoutGroup(tree, top.at)
          BY <3>5, DeleteEndsShape
        <4>2. items' = items
          BY <1>3, <3>1, <4>1 DEF NoCall
        <4>3. TreeTyped(tree) /\ Rows(tree)
          BY <4>1 DEF BankTyped, BankInv, Clean, OnInv, DiskTree
        <4>4. Covers'
          BY <4>1, <4>2, <4>3, EraseHidesNothing
        <4>5. OneFileEach'
          BY <4>1 DEF FilesOpen, OneFileEach
        <4> QED BY <4>4, <4>5
      <3> QED BY <3>1, <3>2, <3>3, <3>4, <3>5, CleanImpossible DEF GoOn
    <2>5. CASE ClickGroup
      <3>1. run' # "closing" /\ call'.frames = <<>>
        BY <2>5, GroupClickWaits
      <3> QED BY <1>3, <3>1
    <2>6. CASE ClickQuestion
      <3>1. run' = "on" /\ call' = NoCall
        BY <2>6 DEF ClickQuestion, ClickAddQuestion, ClickDeleteQuestion, ClickModifyQuestion,
                    AddQuestion, DeleteQuestion, UpdateQuestion, OnQuestions, Idle
      <3> QED BY <1>3, <3>1 DEF NoCall
    <2> QED BY <2>1, <2>2, <2>3, <2>4, <2>5, <2>6 DEF WinNext
  <1>4. run' \in {"off", "on", "closing", "failed"}
    BY DEF BankTyped, IdsInv
  <1> QED BY <1>1, <1>2, <1>3, <1>4


(* The inductive invariant of what the window hides, with that of the      *)
(* window.                                                                 *)
CoversInv == Undisturbed => Covers /\ OneFileEach

(* Until the first rename, kill or deletion that may fail, all that the    *)
(* bank holds, and will save, is shown in the window at its place: between *)
(* the operations, in the middle of a deletion, which the window waits     *)
(* for, and while uninit() closes the files.                               *)
THEOREM WindowCoversBank ==
  ASSUME Ordinary
  PROVE  WinSpec => [](Undisturbed => Covers)
  <1> DEFINE Inv == BankTyped /\ CleanInv /\ MirrorInv
  <1>1. WinInit => Inv
    BY IdsInit, BankInit, CleanInit, MirrorInit DEF WinInit, BankTyped
  <1>2. Inv /\ [WinNext]_winVars => Inv'
    BY WindowStep
  <1>3. Inv => (SeenWhole /\ Undisturbed => Covers)
    BY WholeIsShown DEF CleanInv, Covers
  <1>4. WinInit => (Undisturbed => (SeenWhole \/ Covers) /\ OneFileEach)
    <2>1. Len(<<>>) <= 1
      OBVIOUS
    <2> QED BY <2>1, NothingShown DEF WinInit, Init, SeenWhole, OneFileEach, NoTree, Group
  <1>5. Inv /\ Inv' /\ CoversInv /\ [WinNext]_winVars
          => (Undisturbed => (SeenWhole \/ Covers) /\ OneFileEach)'
    <2> SUFFICES ASSUME Inv, Inv', CoversInv, [WinNext]_winVars, Undisturbed'
                 PROVE  (SeenWhole' \/ Covers') /\ OneFileEach'
      OBVIOUS
    <2>1. [Step]_vars
      BY WinNextIsStep DEF winVars
    <2>2. Undisturbed
      BY <2>1, BudgetStep DEF BankTyped
    <2> QED BY <2>2, HidesNothing DEF CleanInv, MirrorInv, CoversInv
  <1> HIDE DEF Inv
  <1> QED BY <1>1, <1>2, <1>3, <1>4, <1>5, PTL DEF WinSpec, CoversInv

(* In sessions without renames, kills and failing deletions no click hides *)
(* a part of the bank.                                                     *)
THEOREM WindowHidesNothing ==
  ASSUME Ordinary, MaxRenames = 0, MaxCrashes = 0, MaxFaults = 0
  PROVE  WinSpec => NothingHidden
  <1>1. WinSpec => [](Undisturbed => Covers)
    BY WindowCoversBank
  <1>2. BankTyped => Undisturbed
    <2>1. BankTyped => budget \in [renames : {0}, crashes : {0}, faults : {0}]
      BY DEF BankTyped, IdsInv
    <2> QED BY <2>1 DEF Undisturbed
  <1>3. WinInit => BankTyped
    BY IdsInit, BankInit DEF WinInit, BankTyped
  <1>4. BankTyped /\ [WinNext]_winVars => BankTyped'
    BY WinNextIsStep, BankStep DEF winVars
  <1>5. WinSpec => []Covers
    BY <1>1, <1>2, <1>3, <1>4, PTL DEF WinSpec
  <1>6. Covers' => (Told(items) /\ NoCopies /\ Covers => Covers')
    OBVIOUS
  <1> QED BY <1>5, <1>6, PTL DEF NothingHidden

=============================================================================
