------------------------- MODULE QuestionFileProofs -------------------------
(***************************************************************************)
(* QuestionFile, for every number and length of texts: the error texts of  *)
(* a store, as notebook_format_string leaves them in a buffer of any size, *)
(* and its files, whole or cut off anywhere.                               *)
(*                                                                         *)
(* The second part follows the reader.  A length is continuation bytes and *)
(* one last byte, so reading it stops where writing did and gives back the *)
(* number (VarintReads); a field is then read whole or, if the bytes end   *)
(* within it, not at all (FieldReads).  From there the bytes of a list of  *)
(* fields, cut off after n bytes, read as the fields that end by n if one  *)
(* ends at n, and else as a failure (CutReads).  The same reader gives the *)
(* texts of a question or a group back (FourFields), whatever they hold.   *)
(***************************************************************************)
EXTENDS QuestionFile, QuestionStoreProofs, Integers, FiniteSetTheorems,
        SequenceTheorems

(* m characters assigned from a buffer of n that vsnprintf filled show the *)
(* first s characters of the text, when s characters fit size and, if the  *)
(* assigned ones reach further, no more do.                                *)
LEMMA BufferShows ==
  ASSUME NEW n \in Nat, NEW size \in Nat, NEW m \in 0..n, NEW s \in 0..m,
         NEW text \in Seq(Char),
         s <= Len(text), s < size, s < m => s + 1 >= size
  PROVE  Shows(Assign(Vsnprintf(n, size, text), m), SubSeq(text, 1, s))
  <1> DEFINE buff == Vsnprintf(n, size, text)
             msg == SubSeq(buff, 1, m)
             shown == SubSeq(text, 1, s)
  <1>1. \A k \in 1..Len(text) : text[k] \in Nat /\ text[k] # 0
    BY DEF Char
  <1>2. buff \in Seq(Nat) /\ Len(buff) = n
    <2>1. buff \in [1..n -> Nat]
      BY <1>1 DEF Vsnprintf
    <2> QED BY <2>1
  <1>3. \A k \in 1..n :
          buff[k] = IF k < size /\ k <= Len(text) THEN text[k] ELSE 0
    BY DEF Vsnprintf
  <1> HIDE DEF buff
  <1>4. /\ msg \in Seq(Nat)
        /\ Len(msg) = m
        /\ \A k \in 1..m : msg[k] = buff[k]
    BY <1>2
  <1>5. /\ shown \in Seq(Char)
        /\ Len(shown) = s
        /\ \A k \in 1..s : shown[k] = text[k]
    OBVIOUS
  <1> HIDE DEF msg, shown
  <1>6. \A k \in 1..s : msg[k] = shown[k]
    BY <1>3, <1>4, <1>5
  <1>7. SubSeq(msg, 1, s) = shown
    <2>1. /\ SubSeq(msg, 1, s) \in Seq(Nat)
          /\ Len(SubSeq(msg, 1, s)) = s
          /\ \A k \in 1..s : SubSeq(msg, 1, s)[k] = msg[k]
      BY <1>4
    <2> QED BY <1>5, <1>6, <2>1
  <1>8. s < m => msg[s + 1] = 0
    BY <1>3, <1>4
  <1>9. \A k \in 1..s : shown[k] # 0
    BY <1>1, <1>5
  <1>10. Shows(msg, shown)
    BY <1>4, <1>5, <1>7, <1>8, <1>9 DEF Shows
  <1> QED BY <1>10 DEF Assign, buff, msg, shown

(* What err() shows of an error text is the whole text when it is shorter  *)
(* than the buffer of notebook_format_string, and otherwise lacks exactly  *)
(* its last character, or what does not fit the buffer when no memory is   *)
(* left: for every text and every size of the buffer.                      *)
THEOREM ErrorTextsAreShown ==
  \A text \in Seq(Char), allocated \in BOOLEAN :
    ErrorTextShown(text, allocated)
  <1> DEFINE Max == XPLAYER_BUFF_MAX_LEN
  <1> SUFFICES ASSUME NEW text \in Seq(Char), NEW allocated \in BOOLEAN
               PROVE  Shows(FormatString(text, allocated),
                        IF Len(text) < Max THEN text
                        ELSE IF allocated THEN SubSeq(text, 1, Len(text) - 1)
                        ELSE SubSeq(text, 1, Max - 1))
    BY DEF ErrorTextShown
  <1>1. text \in Seq(Char) /\ Len(text) \in Nat
    OBVIOUS
  <1>2. Max \in Nat \ {0}
    BY BuffAssumption
  <1>3. CASE Len(text) < Max
    <2>1. Shows(Assign(Vsnprintf(Max, Max, text), Len(text)),
                SubSeq(text, 1, Len(text)))
      BY <1>1, <1>2, <1>3, BufferShows
    <2>2. SubSeq(text, 1, Len(text)) = text
      BY <1>1
    <2> QED BY <1>3, <2>1, <2>2 DEF FormatString
  <1>4. CASE Len(text) >= Max /\ allocated
    <2>1. Shows(Assign(Vsnprintf(Len(text) + 1, Len(text), text), Len(text)),
                SubSeq(text, 1, Len(text) - 1))
      BY <1>1, <1>2, <1>4, BufferShows
    <2>2. ~(Len(text) < Max)
      BY <1>1, <1>2, <1>4
    <2> QED BY <1>4, <2>1, <2>2 DEF FormatString
  <1>5. CASE Len(text) >= Max /\ ~allocated
    <2>1. Shows(Assign(Vsnprintf(Max, Max, text), Max),
                SubSeq(text, 1, Max - 1))
      BY <1>1, <1>2, <1>5, BufferShows
    <2>2. ~(Len(text) < Max)
      BY <1>1, <1>2, <1>5
    <2> QED BY <1>5, <2>1, <2>2 DEF FormatString
  <1> QED BY <1>1, <1>2, <1>3, <1>4, <1>5

(* Every call a store refuses for its id leaves an error text that err()   *)
(* shows as above, whatever the ids and the formats.                       *)
THEOREM RefusalsAreShown == Spec => []ErrorTextsShown
  <1>1. TypeOK => ErrorTextsShown
    <2> SUFFICES ASSUME TypeOK,
                        NEW id \in ret.of, NEW format \in Formats,
                        NEW allocated \in BOOLEAN
                 PROVE  ErrorTextShown(ErrorText(format, id), allocated)
      BY DEF ErrorTextsShown
    <2>1. id \in Seq(Char)
      BY IdsAssumption DEF TypeOK
    <2>2. format.before \in Seq(Char) /\ format.after \in Seq(Char)
      BY FormatsAssumption
    <2>3. ErrorText(format, id) \in Seq(Char)
      BY <2>1, <2>2 DEF ErrorText
    <2> QED BY <2>3, ErrorTextsAreShown
  <1> QED BY <1>1, TypeCorrect, PTL

(* Quotient and remainder, for the solver.                                 *)
LEMMA DivMod ==
  ASSUME NEW n \in Nat, NEW b \in Nat, b > 1
  PROVE  /\ n \div b \in Nat
         /\ n % b \in 0..(b - 1)
         /\ n = b * (n \div b) + (n % b)
         /\ n >= b => n \div b < n
  <1>1. n \div b \in Nat
    OBVIOUS
  <1>2. n % b \in 0..(b - 1)
    OBVIOUS
  <1>3. n = b * (n \div b) + (n % b)
    OBVIOUS
  <1> DEFINE d == n \div b
  <1>4. n >= b => d < n
    <2>1. d \in Nat /\ b * d <= n
      BY <1>1, <1>2, <1>3
    <2> HIDE DEF d
    <2>2. \A x \in Nat : x > 0 /\ x >= n /\ b * x <= n => FALSE
      <3> SUFFICES ASSUME NEW x \in Nat, x > 0, x >= n, b * x <= n PROVE FALSE
        OBVIOUS
      <3>1. b * x >= 2 * x
        <4>1. PICK c \in Nat : b = 2 + c
          <5>1. b - 2 \in Nat /\ b = 2 + (b - 2)
            OBVIOUS
          <5> QED BY <5>1
        <4>2. c * x >= 0
          OBVIOUS
        <4> QED BY <4>1, <4>2
      <3> QED BY <3>1
    <2> QED BY <2>1, <2>2
  <1> QED BY <1>1, <1>2, <1>3, <1>4

(***************************************************************************)
(* Lengths.                                                                *)
(***************************************************************************)

(* Induction: a set of naturals that holds 0 and with every number its     *)
(* successor holds them all.                                               *)
LEMMA NatSets ==
  ASSUME NEW S, 0 \in S, \A n \in Nat : n \in S => n + 1 \in S
  PROVE  Nat \subseteq S
  <1> DEFINE R == StrictSubsetOrdering(Nat)
             Bad == {n \in Nat : n \notin S}
             T == {0..n : n \in Bad}
  <1>1. IsWellFoundedOn(R, FiniteSubsetsOf(Nat))
    BY FS_StrictSubsetOrderingWellFounded
  <1>2. T \subseteq FiniteSubsetsOf(Nat)
    <2> SUFFICES ASSUME NEW n \in Bad PROVE 0..n \in FiniteSubsetsOf(Nat)
      OBVIOUS
    <2>1. IsFiniteSet(0..n)
      BY FS_Interval
    <2> QED BY <2>1 DEF FiniteSubsetsOf
  <1> SUFFICES ASSUME Bad # {} PROVE FALSE
    OBVIOUS
  <1>3. T # {}
    OBVIOUS
  <1>4. PICK x \in T : \A y \in T : ~(<<y, x>> \in R)
    <2> HIDE DEF T, R
    <2> QED BY <1>1, <1>2, <1>3, WFMin
  <1>5. PICK m \in Bad : x = 0..m
    OBVIOUS
  <1>6. \A n \in Bad : n >= m
    <2> SUFFICES ASSUME NEW n \in Bad, n < m PROVE FALSE
      OBVIOUS
    <2>1. 0..n \in T
      OBVIOUS
    <2>2. <<0..n, 0..m>> \in R
      <3>1. 0..n \in SUBSET Nat /\ 0..m \in SUBSET Nat
        OBVIOUS
      <3>2. 0..n \subseteq 0..m /\ m \notin 0..n /\ m \in 0..m
        OBVIOUS
      <3> QED BY <3>1, <3>2 DEF StrictSubsetOrdering
    <2> QED BY <2>1, <2>2, <1>4, <1>5
  <1>7. m # 0 /\ m - 1 \in Nat
    OBVIOUS
  <1>8. m - 1 \in S
    BY <1>6, <1>7
  <1> QED BY <1>7, <1>8

(* The definition of Varint as an operator.                                *)
VarintStep(n, f) ==
  IF n < VarintBase THEN <<n>>
  ELSE <<VarintBase + (n % VarintBase)>> \o f[n \div VarintBase]

LEMMA BaseType == VarintBase \in Nat /\ VarintBase > 1
  BY VarintBaseAssumption

(* Varint is defined up to every number.                                   *)
LEMMA VarintUpTo ==
  \A n \in Nat : \E f : f = [m \in 0..n |-> VarintStep(m, f)]
  <1> DEFINE S == {n \in Nat : \E f : f = [m \in 0..n |-> VarintStep(m, f)]}
  <1>1. 0 \in S
    <2> DEFINE f == [m \in 0..0 |-> <<m>>]
    <2>1. f = [m \in 0..0 |-> VarintStep(m, f)]
      <3>1. \A m \in 0..0 : VarintStep(m, f) = <<m>>
        BY BaseType DEF VarintStep
      <3> QED BY <3>1
    <2> QED BY <2>1
  <1>2. ASSUME NEW n \in Nat, n \in S PROVE n + 1 \in S
    <2>1. PICK f : f = [m \in 0..n |-> VarintStep(m, f)]
      BY <1>2
    <2> DEFINE g == [m \in 0..(n + 1) |-> VarintStep(m, f)]
    <2>2. \A m \in 0..n : g[m] = f[m]
      <3> SUFFICES ASSUME NEW m \in 0..n PROVE g[m] = f[m]
        OBVIOUS
      <3>1. f[m] = VarintStep(m, f)
        BY <2>1
      <3>2. m \in 0..(n + 1)
        OBVIOUS
      <3> QED BY <3>1, <3>2
    <2>3. g = [m \in 0..(n + 1) |-> VarintStep(m, f)]
      OBVIOUS
    <2> HIDE DEF g
    <2>4. ASSUME NEW m \in 0..(n + 1)
          PROVE  VarintStep(m, f) = VarintStep(m, g)
      <3>1. CASE m < VarintBase
        BY <3>1 DEF VarintStep
      <3>2. CASE ~(m < VarintBase)
        <4>1. m \div VarintBase \in 0..n
          BY BaseType, DivMod, <3>2
        <4>2. f[m \div VarintBase] = g[m \div VarintBase]
          BY <2>2, <4>1
        <4> QED BY <3>2, <4>2 DEF VarintStep
      <3> QED BY <3>1, <3>2
    <2>5. g = [m \in 0..(n + 1) |-> VarintStep(m, g)]
      BY <2>3, <2>4
    <2>6. \E h : h = [m \in 0..(n + 1) |-> VarintStep(m, h)]
      BY <2>5
    <2> QED BY <2>6
  <1> HIDE DEF S
  <1>3. Nat \subseteq S
    BY <1>1, <1>2, NatSets
  <1> QED BY <1>3 DEF S

(* Two functions defined as Varint is agree where both are.                *)
LEMMA VarintUnique ==
  ASSUME NEW a \in Nat, NEW b \in Nat, NEW f, NEW g,
         f = [m \in 0..a |-> VarintStep(m, f)],
         g = [m \in 0..b |-> VarintStep(m, g)],
         NEW n \in Nat, n <= a, n <= b
  PROVE  f[n] = g[n]
  <1> DEFINE S == {k \in Nat : \A m \in 0..k : m <= a /\ m <= b => f[m] = g[m]}
  <1>0. \A m \in 0..a : f[m] = VarintStep(m, f)
    OBVIOUS
  <1>00. \A m \in 0..b : g[m] = VarintStep(m, g)
    OBVIOUS
  <1>1. 0 \in S
    <2>1. 0 \in 0..a /\ 0 \in 0..b /\ 0 < VarintBase
      BY BaseType
    <2>2. VarintStep(0, f) = <<0>> /\ VarintStep(0, g) = <<0>>
      BY <2>1 DEF VarintStep
    <2>3. f[0] = g[0]
      BY <1>0, <1>00, <2>1, <2>2
    <2> QED BY <2>3
  <1>2. ASSUME NEW k \in Nat, k \in S PROVE k + 1 \in S
    <2> SUFFICES ASSUME k + 1 <= a, k + 1 <= b PROVE f[k + 1] = g[k + 1]
      BY <1>2
    <2>1. f[k + 1] = VarintStep(k + 1, f) /\ g[k + 1] = VarintStep(k + 1, g)
      BY <1>0, <1>00
    <2>2. CASE k + 1 < VarintBase
      BY <2>1, <2>2 DEF VarintStep
    <2>3. CASE ~(k + 1 < VarintBase)
      <3>1. (k + 1) \div VarintBase \in 0..k
        <4>1. k + 1 \in Nat /\ VarintBase \in Nat /\ VarintBase > 1 /\ k + 1 >= VarintBase
          BY BaseType, <2>3
        <4>2. (k + 1) \div VarintBase \in Nat /\ (k + 1) \div VarintBase < k + 1
          BY <4>1, DivMod
        <4> QED BY <4>2
      <3>2. f[(k + 1) \div VarintBase] = g[(k + 1) \div VarintBase]
        BY <1>2, <3>1
      <3> QED BY <2>1, <2>3, <3>2 DEF VarintStep
    <2> QED BY <2>2, <2>3
  <1> HIDE DEF S
  <1>3. n \in S
    BY <1>1, <1>2, NatSets
  <1> QED BY <1>3 DEF S

(* So Varint is the function its definition asks for.                      *)
LEMMA VarintUnfolds ==
  \A n \in Nat : Varint[n] = VarintStep(n, Varint)
  <1> DEFINE F(n) == CHOOSE f : f = [m \in 0..n |-> VarintStep(m, f)]
             v == [n \in Nat |-> F(n)[n]]
  <1>1. \A n \in Nat : F(n) = [m \in 0..n |-> VarintStep(m, F(n))]
    BY VarintUpTo
  <1>2. \A n \in Nat : v[n] = F(n)[n]
    OBVIOUS
  <1> HIDE DEF F
  <1>3. ASSUME NEW n \in Nat PROVE v[n] = VarintStep(n, v)
    <2>1. F(n)[n] = VarintStep(n, F(n))
      BY <1>1
    <2>2. CASE n < VarintBase
      BY <1>2, <2>1, <2>2 DEF VarintStep
    <2>3. CASE ~(n < VarintBase)
      <3> DEFINE d == n \div VarintBase
      <3>1. d \in Nat /\ d <= n
        BY BaseType, DivMod, <2>3
      <3> HIDE DEF d, v
      <3>2. v[d] = F(d)[d]
        BY <1>2, <3>1
      <3>3. F(d)[d] = F(n)[d]
        <4> DEFINE x == F(d)
                   y == F(n)
        <4>1. x = [m \in 0..d |-> VarintStep(m, x)]
          BY <1>1, <3>1
        <4>2. y = [m \in 0..n |-> VarintStep(m, y)]
          BY <1>1, <3>1
        <4> HIDE DEF x, y
        <4>3. x[d] = y[d]
          BY <3>1, <4>1, <4>2, VarintUnique
        <4> QED BY <4>3 DEF x, y
      <3> QED BY <1>2, <2>1, <2>3, <3>2, <3>3 DEF VarintStep, d
    <2> QED BY <2>2, <2>3
  <1>4. v = [n \in Nat |-> VarintStep(n, v)]
    <2> HIDE DEF v
    <2>1. v = [n \in Nat |-> v[n]]
      BY DEF v
    <2> QED BY <1>3, <2>1
  <1> HIDE DEF v
  <1>5. \E f : f = [n \in Nat |-> VarintStep(n, f)]
    BY <1>4
  <1>6. Varint = [n \in Nat |-> VarintStep(n, Varint)]
    <2> DEFINE W == CHOOSE f : f = [n \in Nat |-> VarintStep(n, f)]
    <2>1. W = [n \in Nat |-> VarintStep(n, W)]
      BY <1>5
    <2>2. Varint = W
      BY DEF Varint, VarintStep
    <2> QED BY <2>1, <2>2
  <1> QED BY <1>6

(* Continuation bytes and one last byte.                                   *)
IsVarint(v) ==
  /\ v \in Seq(Nat) /\ Len(v) > 0
  /\ v[Len(v)] < VarintBase
  /\ \A i \in 1..(Len(v) - 1) : v[i] >= VarintBase

(* A length is written as continuation bytes and one last byte, which is   *)
(* how its end is found again.                                             *)
LEMMA VarintShape == \A n \in Nat : IsVarint(Varint[n])
  <1> DEFINE S == {k \in Nat : \A n \in 0..k : IsVarint(Varint[n])}
  <1>1. ASSUME NEW n \in Nat, n < VarintBase PROVE IsVarint(Varint[n])
    <2>1. Varint[n] = <<n>>
      BY <1>1, VarintUnfolds DEF VarintStep
    <2> QED BY <1>1, <2>1 DEF IsVarint
  <1>2. 0 \in S
    <2>1. 0 < VarintBase
      BY BaseType
    <2> QED BY <1>1, <2>1
  <1>3. ASSUME NEW k \in Nat, k \in S PROVE k + 1 \in S
    <2> DEFINE n == k + 1
               d == n \div VarintBase
               w == Varint[d]
               c == VarintBase + (n % VarintBase)
    <2> SUFFICES IsVarint(Varint[n])
      BY <1>3
    <2>1. CASE n < VarintBase
      BY <1>1, <2>1
    <2>2. CASE ~(n < VarintBase)
      <3>1. n \in Nat /\ VarintBase \in Nat /\ VarintBase > 1 /\ n >= VarintBase
        BY BaseType, <2>2
      <3>2. Varint[n] = <<c>> \o w
        BY <2>2, <3>1, VarintUnfolds DEF VarintStep
      <3>3. d \in 0..k /\ c \in Nat /\ c >= VarintBase
        <4>1. d \in Nat /\ d < n /\ n % VarintBase \in 0..(VarintBase - 1)
          BY <3>1, DivMod
        <4> HIDE DEF d
        <4> QED BY <3>1, <4>1
      <3>4. IsVarint(w)
        BY <1>3, <3>3
      <3> HIDE DEF c, w, d, n
      <3>5. /\ <<c>> \o w \in Seq(Nat)
            /\ Len(<<c>> \o w) = Len(w) + 1
            /\ (<<c>> \o w)[1] = c
            /\ \A i \in 1..Len(w) : (<<c>> \o w)[i + 1] = w[i]
        BY <3>3, <3>4 DEF IsVarint
      <3> DEFINE v == <<c>> \o w
      <3> HIDE DEF v
      <3>6. Len(w) \in Nat
        BY <3>4 DEF IsVarint
      <3>7. v[Len(v)] = w[Len(w)]
        BY <3>4, <3>5, <3>6 DEF IsVarint, v
      <3>8. ASSUME NEW i \in 1..(Len(v) - 1) PROVE v[i] >= VarintBase
        <4>1. CASE i = 1
          BY <3>3, <3>5, <4>1 DEF v
        <4>2. CASE i # 1
          <5>1. i - 1 \in 1..(Len(w) - 1) /\ i = (i - 1) + 1
            BY <3>5, <3>6, <4>2 DEF v
          <5>2. v[i] = w[i - 1]
            BY <3>5, <3>6, <5>1 DEF v
          <5> QED BY <3>4, <5>1, <5>2 DEF IsVarint
        <4> QED BY <4>1, <4>2
      <3>9. v \in Seq(Nat) /\ Len(v) > 0
        BY <3>5, <3>6 DEF v
      <3>10. IsVarint(v)
        BY <3>4, <3>7, <3>8, <3>9 DEF IsVarint
      <3> QED BY <3>2, <3>10 DEF v
    <2> QED BY <2>1, <2>2
  <1> HIDE DEF S
  <1>4. Nat \subseteq S
    BY <1>2, <1>3, NatSets
  <1> QED BY <1>4 DEF S

(* v stands at p in bytes. *)
StandsAt(v, bytes, p) == \A i \in 1..Len(v) : bytes[p + i - 1] = v[i]

(* f has the numbers whose digits are the bytes from each place up to e.   *)
ValueFn(f, bytes, p, e) ==
  f = [k \in p..e |-> IF k = e THEN bytes[k]
                      ELSE bytes[k] - VarintBase + VarintBase * f[k + 1]]

(* There is such a function, and all of them say n at p.                   *)
ValueIs(n, bytes, p, e) ==
  /\ \E f : ValueFn(f, bytes, p, e)
  /\ \A f : ValueFn(f, bytes, p, e) => f[p] = n

(* The bytes of Varint[n] are the digits of n.                             *)
LEMMA ValueOfDigits ==
  \A n \in Nat : \A bytes : \A p \in Nat :
    StandsAt(Varint[n], bytes, p)
      => ValueIs(n, bytes, p, p + Len(Varint[n]) - 1)
  <1> DEFINE P(n) == \A bytes : \A p \in Nat :
                StandsAt(Varint[n], bytes, p)
                  => ValueIs(n, bytes, p, p + Len(Varint[n]) - 1)
             S == {k \in Nat : \A n \in 0..k : P(n)}
  <1>1. ASSUME NEW n \in Nat, n < VarintBase PROVE P(n)
    <2> SUFFICES ASSUME NEW bytes, NEW p \in Nat, StandsAt(Varint[n], bytes, p)
                 PROVE  ValueIs(n, bytes, p, p + Len(Varint[n]) - 1)
      OBVIOUS
    <2>1. Varint[n] = <<n>>
      BY <1>1, VarintUnfolds DEF VarintStep
    <2>2. p + Len(Varint[n]) - 1 = p /\ bytes[p] = n
      BY <2>1 DEF StandsAt
    <2>3. \E f : ValueFn(f, bytes, p, p)
      <3>1. ValueFn([k \in p..p |-> bytes[k]], bytes, p, p)
        <4>1. \A k \in p..p : k = p
          OBVIOUS
        <4> QED BY <4>1 DEF ValueFn
      <3> QED BY <3>1
    <2>4. \A f : ValueFn(f, bytes, p, p) => f[p] = n
      BY <2>2 DEF ValueFn
    <2> QED BY <2>2, <2>3, <2>4 DEF ValueIs
  <1>2. 0 \in S
    <2>1. 0 < VarintBase
      BY BaseType
    <2>2. P(0)
      BY <1>1, <2>1
    <2> HIDE DEF P
    <2> QED BY <2>2
  <1>3. ASSUME NEW k \in Nat, k \in S PROVE k + 1 \in S
    <2> DEFINE n == k + 1
               d == n \div VarintBase
               w == Varint[d]
               m == n % VarintBase
    <2>0. \A j \in 0..k : P(j)
      BY <1>3
    <2> SUFFICES P(n)
      <3> HIDE DEF P
      <3> QED BY <2>0
    <2>1. CASE n < VarintBase
      <3>1. n \in Nat
        OBVIOUS
      <3> HIDE DEF P, n
      <3> QED BY <1>1, <2>1, <3>1
    <2>2. CASE ~(n < VarintBase)
      <3>1. n \in Nat /\ VarintBase \in Nat /\ VarintBase > 1 /\ n >= VarintBase
        BY BaseType, <2>2
      <3>2. Varint[n] = <<VarintBase + m>> \o w
        BY <2>2, <3>1, VarintUnfolds DEF VarintStep
      <3>3. d \in 0..k /\ m \in Nat /\ n = VarintBase * d + m
        <4>1. d \in Nat /\ d < n /\ m \in 0..(VarintBase - 1) /\ n = VarintBase * d + m
          BY <3>1, DivMod
        <4> HIDE DEF d, m
        <4> QED BY <3>1, <4>1
      <3>4. w \in Seq(Nat) /\ Len(w) > 0
        BY <3>3, VarintShape DEF IsVarint
      <3>5. P(d)
        BY <2>0, <3>3
      <3> SUFFICES ASSUME NEW bytes, NEW p \in Nat, StandsAt(Varint[n], bytes, p)
                   PROVE  ValueIs(n, bytes, p, p + Len(Varint[n]) - 1)
        OBVIOUS
      <3> HIDE DEF P, S
      <3> DEFINE e == p + Len(w)
                 c == VarintBase + m
      <3>6. Len(Varint[n]) = Len(w) + 1 /\ p + Len(Varint[n]) - 1 = e
        BY <3>2, <3>3, <3>4
      <3>7. bytes[p] = VarintBase + m
        BY <3>2, <3>3, <3>4, <3>6, <3>1 DEF StandsAt
      <3>8. StandsAt(w, bytes, p + 1)
        <4> SUFFICES ASSUME NEW i \in 1..Len(w) PROVE bytes[p + 1 + i - 1] = w[i]
          BY DEF StandsAt
        <4>1. i + 1 \in 1..Len(Varint[n]) /\ Varint[n][i + 1] = w[i]
          <5> HIDE DEF w, m, d, n
          <5> QED BY <3>1, <3>2, <3>3, <3>4, <3>6
        <4>2. bytes[p + (i + 1) - 1] = w[i]
          BY <4>1 DEF StandsAt
        <4> QED BY <4>2
      <3>9. ValueIs(d, bytes, p + 1, e)
        <4>1. p + 1 + Len(w) - 1 = e
          <5>1. Len(w) \in Nat
            BY <3>4
          <5> HIDE DEF w
          <5> QED BY <5>1
        <4> QED BY <3>5, <3>8, <4>1 DEF P
      <3> HIDE DEF w, n, d, m
      <3>10. e \in Nat /\ e > p
        BY <3>4
      <3> HIDE DEF e
      <3>11. \E f : ValueFn(f, bytes, p, e)
        <4>1. PICK g : ValueFn(g, bytes, p + 1, e)
          BY <3>9 DEF ValueIs
        <4> DEFINE f == [x \in p..e |-> IF x = p THEN bytes[p] - VarintBase + VarintBase * g[p + 1]
                                        ELSE g[x]]
        <4>2. \A x \in (p + 1)..e :
                g[x] = IF x = e THEN bytes[x]
                       ELSE bytes[x] - VarintBase + VarintBase * g[x + 1]
          BY <4>1 DEF ValueFn
        <4>3. \A x \in (p + 1)..e : x \in p..e /\ f[x] = g[x]
          BY <3>10
        <4>400. p + 1 \in (p + 1)..e /\ p + 1 # p
          BY <3>10
        <4>4. p \in p..e /\ p # e /\ f[p] = bytes[p] - VarintBase + VarintBase * f[p + 1]
          <5>1. p \in p..e /\ p # e
            BY <3>10
          <5>2. f[p] = bytes[p] - VarintBase + VarintBase * g[p + 1]
            BY <5>1
          <5>3. f[p + 1] = g[p + 1]
            BY <4>3, <4>400
          <5> HIDE DEF f
          <5> QED BY <5>1, <5>2, <5>3
        <4>40. f = [x \in p..e |-> f[x]]
          OBVIOUS
        <4> HIDE DEF f
        <4>5. \A x \in p..e : f[x] = IF x = e THEN bytes[x]
                       ELSE bytes[x] - VarintBase + VarintBase * f[x + 1]
          <5> SUFFICES ASSUME NEW x \in p..e, x # p
                       PROVE  f[x] = IF x = e THEN bytes[x]
                                ELSE bytes[x] - VarintBase + VarintBase * f[x + 1]
            BY <4>4
          <5>1. x \in (p + 1)..e
            BY <3>10
          <5>2. x # e => x + 1 \in (p + 1)..e
            BY <3>10, <5>1
          <5> QED BY <4>2, <4>3, <5>1, <5>2
        <4>6. ValueFn(f, bytes, p, e)
          BY <4>40, <4>5 DEF ValueFn
        <4> QED BY <4>6
      <3>12. ASSUME NEW f, ValueFn(f, bytes, p, e) PROVE f[p] = n
        <4> DEFINE g == [x \in (p + 1)..e |-> f[x]]
        <4>1. \A x \in p..e : f[x] = IF x = e THEN bytes[x]
                       ELSE bytes[x] - VarintBase + VarintBase * f[x + 1]
          BY <3>12 DEF ValueFn
        <4>2. \A x \in (p + 1)..e : g[x] = f[x] /\ x \in p..e /\ (x # e => x + 1 \in (p + 1)..e)
          BY <3>10
        <4>20. g = [x \in (p + 1)..e |-> g[x]]
          OBVIOUS
        <4> HIDE DEF g
        <4>3. \A x \in (p + 1)..e : g[x] = IF x = e THEN bytes[x]
                       ELSE bytes[x] - VarintBase + VarintBase * g[x + 1]
          BY <4>1, <4>2
        <4>4. ValueFn(g, bytes, p + 1, e)
          BY <4>20, <4>3 DEF ValueFn
        <4>5. g[p + 1] = d /\ p + 1 \in (p + 1)..e /\ p \in p..e /\ p # e
          BY <3>9, <3>10, <4>4 DEF ValueIs
        <4>6. f[p] = VarintBase + m - VarintBase + VarintBase * d
          <5>1. f[p] = bytes[p] - VarintBase + VarintBase * f[p + 1]
            BY <4>1, <4>5
          <5>2. f[p + 1] = d
            BY <4>2, <4>5
          <5> QED BY <3>1, <3>3, <3>7, <5>1, <5>2
        <4>7. VarintBase * d \in Nat
          BY <3>1, <3>3
        <4> QED BY <3>1, <3>3, <4>6, <4>7
      <3> QED BY <3>6, <3>11, <3>12 DEF ValueIs
    <2> QED BY <2>1, <2>2
  <1> HIDE DEF S
  <1>4. Nat \subseteq S
    BY <1>2, <1>3, NatSets
  <1>5. \A n \in Nat : P(n)
    <2> HIDE DEF P
    <2>1. \A n \in Nat : n \in 0..n
      OBVIOUS
    <2> QED BY <1>4, <2>1 DEF S
  <1> QED BY <1>5

(* v stands at p in bytes, as far as these go. *)
StandsIn(v, bytes, p) ==
  \A i \in 1..Len(v) : p + i - 1 <= Len(bytes) => bytes[p + i - 1] = v[i]

(* Hence the number read from a length that is all there is the one that   *)
(* was written,                                                            *)
LEMMA VarintValueReads ==
  ASSUME NEW n \in Nat, NEW bytes, NEW p \in Nat,
         StandsAt(Varint[n], bytes, p)
  PROVE  VarintValue(bytes, p, p + Len(Varint[n]) - 1) = n
  <1> DEFINE e == p + Len(Varint[n]) - 1
             W == CHOOSE f : ValueFn(f, bytes, p, e)
  <1>1. ValueIs(n, bytes, p, e)
    BY ValueOfDigits
  <1>2. VarintValue(bytes, p, e) = W[p]
    BY DEF VarintValue, ValueFn
  <1> HIDE DEF e
  <1>3. ValueFn(W, bytes, p, e)
    BY <1>1 DEF ValueIs
  <1> HIDE DEF W
  <1>4. W[p] = n
    BY <1>1, <1>3 DEF ValueIs
  <1> QED BY <1>2, <1>4 DEF e

(* and reading stops at its last byte, or fails when the bytes end first.  *)
LEMMA VarintReads ==
  ASSUME NEW n \in Nat, NEW bytes \in Seq(Nat), NEW p \in Nat,
         StandsIn(Varint[n], bytes, p)
  PROVE  ReadVarint(bytes, p) =
           IF p + Len(Varint[n]) - 1 <= Len(bytes)
           THEN {[value |-> n, next |-> p + Len(Varint[n])]}
           ELSE {}
  <1> DEFINE v == Varint[n]
             L == Len(bytes)
             e == p + Len(v) - 1
             End(x) == bytes[x] < VarintBase /\ \A d \in p..(x - 1) : bytes[d] >= VarintBase
             ends == {x \in p..L : End(x)}
  <1>1. /\ v \in Seq(Nat) /\ Len(v) \in Nat /\ Len(v) > 0
        /\ v[Len(v)] < VarintBase
        /\ \A i \in 1..(Len(v) - 1) : v[i] >= VarintBase
    BY VarintShape DEF IsVarint
  <1>2. L \in Nat /\ VarintBase \in Nat
    BY BaseType
  <1>3. \A i \in 1..Len(v) : p + i - 1 <= L => bytes[p + i - 1] = v[i]
    BY DEF StandsIn
  <1>4. ReadVarint(bytes, p) = {[value |-> VarintValue(bytes, p, x), next |-> x + 1] : x \in ends}
    BY DEF ReadVarint
  <1>5. e \in Nat /\ e >= p
    BY <1>1
  <1> HIDE DEF v, L
  <1>6. ASSUME NEW x \in p..L, x < e PROVE bytes[x] >= VarintBase /\ ~(bytes[x] < VarintBase)
    <2> DEFINE i == x - p + 1
    <2>1. i \in 1..(Len(v) - 1) /\ p + i - 1 = x
      BY <1>1, <1>2, <1>6
    <2> HIDE DEF i
    <2>2. v[i] >= VarintBase
      BY <1>1, <2>1
    <2>3. i \in 1..Len(v) /\ p + i - 1 <= L
      BY <1>1, <1>2, <2>1
    <2>4. v[i] \in Nat
      BY <1>1, <2>3, ElementOfSeq
    <2>5. bytes[x] = v[i]
      BY <1>3, <2>1, <2>3
    <2> QED BY <1>2, <2>2, <2>4, <2>5
  <1>7. CASE e <= L
    <2>1. bytes[e] < VarintBase /\ ~(bytes[e] >= VarintBase)
      <3>1. Len(v) \in 1..Len(v) /\ p + Len(v) - 1 <= L
        BY <1>1, <1>7
      <3>2. bytes[p + Len(v) - 1] = v[Len(v)] /\ v[Len(v)] \in Nat
        BY <1>1, <1>3, <3>1
      <3> QED BY <1>1, <1>2, <3>2
    <2> HIDE DEF e
    <2>2. e \in ends
      <3>1. \A d \in p..(e - 1) : d \in p..L /\ d < e
        BY <1>2, <1>5, <1>7
      <3> QED BY <1>2, <1>5, <1>6, <1>7, <2>1, <3>1
    <2>3. \A x \in ends : x = e
      <3> SUFFICES ASSUME NEW x \in ends, x # e PROVE FALSE
        OBVIOUS
      <3>1. x \in p..L /\ End(x)
        OBVIOUS
      <3>2. CASE x < e
        BY <1>6, <3>1, <3>2
      <3>3. CASE ~(x < e)
        <4>1. e \in p..(x - 1)
          BY <1>2, <1>5, <3>1, <3>3
        <4> QED BY <2>1, <3>1, <4>1
      <3> QED BY <3>2, <3>3
    <2>4. ends = {e}
      BY <2>2, <2>3
    <2> HIDE DEF ends
    <2>5. ReadVarint(bytes, p) = {[value |-> VarintValue(bytes, p, e), next |-> e + 1]}
      BY <1>4, <2>4
    <2>6. VarintValue(bytes, p, e) = n
      <3>1. StandsAt(v, bytes, p)
        <4>1. \A i \in 1..Len(v) : p + i - 1 <= L
          BY <1>1, <1>2, <1>7 DEF e
        <4> QED BY <1>3, <4>1 DEF StandsAt
      <3> QED BY <3>1, VarintValueReads DEF v, e
    <2>7. e + 1 = p + Len(v)
      BY <1>1 DEF e
    <2> QED BY <1>7, <2>5, <2>6, <2>7 DEF v, e, L
  <1>8. CASE ~(e <= L)
    <2>1. ends = {}
      <3> SUFFICES ASSUME NEW x \in ends PROVE FALSE
        OBVIOUS
      <3>1. x \in p..L /\ x < e /\ bytes[x] < VarintBase
        BY <1>2, <1>5, <1>8
      <3> QED BY <1>6, <3>1
    <2> HIDE DEF ends
    <2>2. ReadVarint(bytes, p) = {}
      BY <1>4, <2>1
    <2> QED BY <1>8, <2>2 DEF v, e, L
  <1> QED BY <1>7, <1>8

(* The elements of a concatenation.                                        *)
LEMMA ConcatParts ==
  ASSUME NEW S, NEW a \in Seq(S), NEW b \in Seq(S)
  PROVE  /\ a \o b \in Seq(S) /\ Len(a \o b) = Len(a) + Len(b)
         /\ \A i \in 1..Len(a) : (a \o b)[i] = a[i]
         /\ \A i \in 1..Len(b) : (a \o b)[Len(a) + i] = b[i]
  <1>1. Len(a) \in Nat /\ Len(b) \in Nat
    BY LenProperties
  <1>2. /\ a \o b \in Seq(S) /\ Len(a \o b) = Len(a) + Len(b)
        /\ \A i \in 1..(Len(a) + Len(b)) :
             (a \o b)[i] = IF i <= Len(a) THEN a[i] ELSE b[i - Len(a)]
    BY ConcatProperties
  <1>3. \A i \in 1..Len(b) : /\ Len(a) + i \in 1..(Len(a) + Len(b))
                             /\ ~(Len(a) + i <= Len(a)) /\ Len(a) + i - Len(a) = i
    BY <1>1
  <1>4. \A i \in 1..Len(a) : i \in 1..(Len(a) + Len(b)) /\ i <= Len(a)
    BY <1>1
  <1> QED BY <1>2, <1>3, <1>4

(* A field is a tag, a length and the bytes.                               *)
LEMMA DelimitedShape ==
  ASSUME NEW f \in Nat, NEW x \in Seq(Nat)
  PROVE  LET D == Delimited(f, x)
             v == Varint[Len(x)]
         IN /\ D \in Seq(Nat) /\ Len(D) \in Nat /\ Len(D) > 1
            /\ v \in Seq(Nat) /\ Len(v) \in Nat /\ Len(v) > 0
            /\ Len(D) = 1 + Len(v) + Len(x)
            /\ D[1] = f
            /\ \A i \in 1..Len(v) : D[1 + i] = v[i]
            /\ \A i \in 1..Len(x) : D[1 + Len(v) + i] = x[i]
  <1> DEFINE v == Varint[Len(x)]
  <1>1. v \in Seq(Nat) /\ Len(v) \in Nat /\ Len(v) > 0
    BY VarintShape DEF IsVarint
  <1>2. Delimited(f, x) = <<f>> \o v \o x
    BY DEF Delimited
  <1> HIDE DEF v
  <1> DEFINE a == <<f>> \o v
  <1>3. a \in Seq(Nat) /\ Len(a) = 1 + Len(v) /\ a[1] = f /\ \A i \in 1..Len(v) : a[1 + i] = v[i]
    BY <1>1
  <1> HIDE DEF a
  <1>4. /\ a \o x \in Seq(Nat) /\ Len(a \o x) = Len(a) + Len(x)
        /\ \A i \in 1..Len(a) : (a \o x)[i] = a[i]
        /\ \A i \in 1..Len(x) : (a \o x)[Len(a) + i] = x[i]
    <2>1. a \in Seq(Nat) /\ x \in Seq(Nat)
      BY <1>3
    <2> QED BY <2>1, ConcatParts
  <1> DEFINE D == a \o x
  <1> HIDE DEF D
  <1>6. Len(x) \in Nat
    BY LenProperties
  <1>7. Len(D) = 1 + Len(v) + Len(x)
    BY <1>3, <1>4 DEF D
  <1>8. Len(D) \in Nat /\ Len(D) > 1
    BY <1>1, <1>6, <1>7
  <1>5. /\ D \in Seq(Nat)
        /\ Len(D) = 1 + Len(v) + Len(x)
        /\ D[1] = f
        /\ \A i \in 1..Len(v) : D[1 + i] = v[i]
        /\ \A i \in 1..Len(x) : D[1 + Len(v) + i] = x[i]
    BY <1>1, <1>3, <1>4, SMTT(30) DEF D
  <1> QED BY <1>1, <1>2, <1>5, <1>8 DEF a, v, D

(* The field fd before each of the rest.                                   *)
Prefixed(fd, rest) == {<<fd>> \o others : others \in rest}

(* Where a written field stands in bytes, as far as these go, reading finds *)
(* that field and goes on behind it, or fails when the bytes end within it. *)
LEMMA FieldReads ==
  ASSUME NEW f \in Nat, NEW x \in Seq(Nat), NEW bytes \in Seq(Nat),
         NEW p \in 1..Len(bytes), StandsIn(Delimited(f, x), bytes, p),
         NEW rest
  PROVE  LET next == p + Len(Delimited(f, x))
         IN FieldsAt(bytes, p, rest) =
              IF next > Len(bytes) + 1 THEN {}
              ELSE Prefixed([field |-> f, bytes |-> x], rest[next])
  <1> DEFINE D == Delimited(f, x)
             v == Varint[Len(x)]
             L == Len(bytes)
             next == p + Len(D)
             size == [value |-> Len(x), next |-> p + 1 + Len(v)]
             Body(s) == FieldOf(bytes, p, s, rest)
  <1>1. /\ D \in Seq(Nat)
        /\ v \in Seq(Nat) /\ Len(v) \in Nat /\ Len(v) > 0
        /\ Len(D) = 1 + Len(v) + Len(x)
        /\ D[1] = f
        /\ \A i \in 1..Len(v) : D[1 + i] = v[i]
        /\ \A i \in 1..Len(x) : D[1 + Len(v) + i] = x[i]
    BY DelimitedShape
  <1>2. Len(x) \in Nat /\ L \in Nat /\ p \in Nat /\ p <= L /\ p >= 1
    OBVIOUS
  <1>3. \A i \in 1..Len(D) : p + i - 1 <= L => bytes[p + i - 1] = D[i]
    BY DEF StandsIn
  <1>4. FieldsAt(bytes, p, rest) = UNION {Body(s) : s \in ReadVarint(bytes, p + 1)}
    BY DEF FieldsAt
  <1>5. ReadVarint(bytes, p + 1) = IF p + Len(v) <= L THEN {size} ELSE {}
    <2>1. StandsIn(v, bytes, p + 1)
      <3> HIDE DEF D, v, L
      <3> SUFFICES ASSUME NEW i \in 1..Len(v), p + 1 + i - 1 <= Len(bytes)
                   PROVE  bytes[p + 1 + i - 1] = v[i]
        BY DEF StandsIn
      <3>1. 1 + i \in 1..Len(D) /\ p + (1 + i) - 1 <= L /\ p + (1 + i) - 1 = p + 1 + i - 1
        BY <1>1, <1>2, SMTT(30) DEF L
      <3> QED BY <1>1, <1>3, <3>1
    <2>2. p + 1 \in Nat /\ p + 1 + Len(v) - 1 = p + Len(v)
      <3> HIDE DEF v
      <3> QED BY <1>1, <1>2
    <2>3. ReadVarint(bytes, p + 1) = IF p + 1 + Len(v) - 1 <= Len(bytes)
           THEN {[value |-> Len(x), next |-> p + 1 + Len(v)]} ELSE {}
      BY <1>2, <2>1, <2>2, VarintReads
    <2> QED BY <2>2, <2>3
  <1> HIDE DEF D, v, L, Body
  <1>6. bytes[p] = f
    <2>1. 1 \in 1..Len(D) /\ p + 1 - 1 = p /\ p + 1 - 1 <= L
      BY <1>1, <1>2
    <2> QED BY <1>1, <1>3, <2>1
  <1>7. CASE next > L + 1
    <2>1. FieldsAt(bytes, p, rest) = {}
      <3>1. CASE p + Len(v) <= L
        <4>1. UNION {Body(s) : s \in {size}} = Body(size)
          OBVIOUS
        <4>2. Body(size) = {}
          <5>1. size.next + size.value \notin (p + 1)..(L + 1)
            BY <1>1, <1>2, <1>7
          <5> QED BY <5>1 DEF Body, FieldOf, L
        <4> QED BY <1>4, <1>5, <3>1, <4>1, <4>2
      <3>2. CASE ~(p + Len(v) <= L)
        <4>1. UNION {Body(s) : s \in {}} = {}
          OBVIOUS
        <4> QED BY <1>4, <1>5, <3>2, <4>1
      <3> QED BY <3>1, <3>2
    <2> QED BY <1>7, <2>1 DEF D, L
  <1>8. CASE ~(next > L + 1)
    <2>1. p + Len(v) <= L /\ size.next + size.value = next /\ next \in (p + 1)..(L + 1)
      BY <1>1, <1>2, <1>8
    <2>2. FieldsAt(bytes, p, rest) = Body(size)
      <3>1. UNION {Body(s) : s \in {size}} = Body(size)
        OBVIOUS
      <3> QED BY <1>4, <1>5, <2>1, <3>1
    <2>3. SubSeq(bytes, size.next, next - 1) = x
      <3> DEFINE m == p + 1 + Len(v)
                 y == SubSeq(bytes, m, next - 1)
      <3>1. m \in 1..(L + 1) /\ next - 1 \in Nat /\ next - 1 <= L /\ next - 1 - m + 1 = Len(x) /\ m <= next
        BY <1>1, <1>2, <2>1, SMTT(30)
      <3>2. \A i \in 1..Len(x) : bytes[m + i - 1] = x[i]
        <4> SUFFICES ASSUME NEW i \in 1..Len(x) PROVE bytes[m + i - 1] = x[i]
          OBVIOUS
        <4>1. /\ 1 + Len(v) + i \in 1..Len(D)
              /\ p + (1 + Len(v) + i) - 1 = m + i - 1
              /\ p + (1 + Len(v) + i) - 1 <= L
          BY <1>1, <1>2, <2>1
        <4>2. bytes[p + (1 + Len(v) + i) - 1] = x[i]
          BY <1>1, <1>3, <4>1
        <4> QED BY <4>1, <4>2
      <3> HIDE DEF m, next
      <3>3. /\ y \in Seq(Nat) /\ Len(y) = Len(x)
            /\ \A i \in 1..Len(x) : y[i] = bytes[m + i - 1]
        <4> DEFINE n == next - 1
        <4>1. m \in Int /\ n \in Int /\ n - m + 1 = Len(x) /\ Len(x) \in Nat
          BY <1>2, <3>1
        <4>2. \A i \in m..n : bytes[i] \in Nat
          <5>1. \A i \in m..n : i \in 1..Len(bytes)
            BY <1>2, <3>1 DEF L
          <5> QED BY <5>1, ElementOfSeq
        <4> HIDE DEF n
        <4>3. /\ SubSeq(bytes, m, n) \in Seq(Nat)
              /\ Len(SubSeq(bytes, m, n)) = IF m <= n THEN n - m + 1 ELSE 0
              /\ \A i \in 1..(n - m + 1) : SubSeq(bytes, m, n)[i] = bytes[m + i - 1]
          BY <4>1, <4>2, SubSeqProperties
        <4>4. Len(SubSeq(bytes, m, n)) = Len(x)
          BY <4>1, <4>3
        <4> QED BY <4>1, <4>3, <4>4 DEF n
      <3> HIDE DEF y
      <3>4. y = x
        BY <3>2, <3>3, SeqEqual
      <3> QED BY <3>4 DEF y, m
    <2>4. Body(size) = Prefixed([field |-> f, bytes |-> x], rest[next])
      <3> HIDE DEF size, next
      <3>1. Body(size) = {<<[field |-> bytes[p],
              bytes |-> SubSeq(bytes, size.next, next - 1)]>> \o others :
                others \in rest[next]}
        BY <2>1 DEF Body, FieldOf, L
      <3> QED BY <1>6, <2>3, <3>1 DEF Prefixed
    <2> QED BY <1>8, <2>2, <2>4 DEF D, L
  <1> QED BY <1>7, <1>8 DEF D, L

(***************************************************************************)
(* Fields, and what is left of them when the bytes are cut off.            *)
(***************************************************************************)

(* What is read at p depends only on what is read behind p.                *)
LEMMA RestMatters ==
  ASSUME NEW bytes, NEW p, NEW f, NEW g,
         \A q \in (p + 1)..(Len(bytes) + 1) : f[q] = g[q]
  PROVE  FieldsAt(bytes, p, f) = FieldsAt(bytes, p, g)
  <1>1. ASSUME NEW size PROVE FieldOf(bytes, p, size, f) = FieldOf(bytes, p, size, g)
    BY DEF FieldOf
  <1> QED BY <1>1 DEF FieldsAt

(* One step of ReadFields.                                                 *)
FromStep(bytes, p, f) == IF p > Len(bytes) THEN {<<>>} ELSE FieldsAt(bytes, p, f)

(* ReadFields is the function its definition asks for.                     *)
LEMMA ReadFieldsUnfolds ==
  ASSUME NEW bytes \in Seq(Nat)
  PROVE  \E f : /\ \A p \in 1..(Len(bytes) + 1) : f[p] = FromStep(bytes, p, f)
                /\ ReadFields(bytes) = f[1]
  <1> DEFINE L == Len(bytes)
             From(k, f) == f = [p \in (L + 1 - k)..(L + 1) |-> FromStep(bytes, p, f)]
             S == {k \in Nat : k <= L => \E f : From(k, f)}
  <1>0. L \in Nat
    OBVIOUS
  <1>1. 0 \in S
    <2> DEFINE f == [p \in (L + 1 - 0)..(L + 1) |-> {<<>>}]
    <2>1. \A p \in (L + 1 - 0)..(L + 1) : FromStep(bytes, p, f) = {<<>>}
      BY <1>0 DEF FromStep
    <2>2. From(0, f)
      BY <2>1
    <2> HIDE DEF From
    <2> QED BY <2>2
  <1>2. ASSUME NEW k \in Nat, k \in S PROVE k + 1 \in S
    <2> SUFFICES ASSUME k + 1 <= L PROVE \E f : From(k + 1, f)
      OBVIOUS
    <2>1. PICK f : From(k, f)
      BY <1>0, <1>2
    <2> DEFINE g == [p \in (L + 1 - (k + 1))..(L + 1) |-> FromStep(bytes, p, f)]
    <2>2. ASSUME NEW p \in (L + 1 - k)..(L + 1) PROVE g[p] = f[p]
      <3>1. p \in (L + 1 - (k + 1))..(L + 1)
        BY <1>0
      <3>2. f[p] = FromStep(bytes, p, f)
        BY <2>1
      <3> QED BY <3>1, <3>2
    <2>3. g = [p \in (L + 1 - (k + 1))..(L + 1) |-> FromStep(bytes, p, f)]
      OBVIOUS
    <2> HIDE DEF g
    <2>4. ASSUME NEW p \in (L + 1 - (k + 1))..(L + 1)
          PROVE  FromStep(bytes, p, f) = FromStep(bytes, p, g)
      <3>1. \A q \in (p + 1)..(L + 1) : q \in (L + 1 - k)..(L + 1)
        BY <1>0
      <3>2. \A q \in (p + 1)..(Len(bytes) + 1) : f[q] = g[q]
        BY <2>2, <3>1
      <3>3. FieldsAt(bytes, p, f) = FieldsAt(bytes, p, g)
        BY <3>2, RestMatters
      <3> QED BY <3>3 DEF FromStep
    <2>5. g = [p \in (L + 1 - (k + 1))..(L + 1) |-> FromStep(bytes, p, g)]
      BY <2>3, <2>4
    <2> QED BY <2>5
  <1> HIDE DEF S
  <1>3. L \in S
    BY <1>0, <1>1, <1>2, NatSets
  <1>4. \E f : f = [p \in 1..(L + 1) |-> FromStep(bytes, p, f)]
    <2>1. PICK f : From(L, f)
      BY <1>0, <1>3 DEF S
    <2>2. L + 1 - L = 1
      BY <1>0
    <2> QED BY <2>1, <2>2
  <1> DEFINE W == CHOOSE f : f = [p \in 1..(L + 1) |-> FromStep(bytes, p, f)]
  <1>5. W = [p \in 1..(L + 1) |-> FromStep(bytes, p, W)]
    BY <1>4
  <1>6. ReadFields(bytes) = W[1]
    BY DEF ReadFields, FromStep
  <1> HIDE DEF W
  <1>7. \A p \in 1..(Len(bytes) + 1) : W[p] = FromStep(bytes, p, W)
    BY <1>5
  <1> QED BY <1>6, <1>7

(* A field as it is read, and its bytes as they are written.               *)
Field == [field : Nat, bytes : Seq(Nat)]

Bytes(fd) == Delimited(fd.field, fd.bytes)

(* up[n] is the first n fields of fs, one after the other. *)
Upto(up, fs) ==
  /\ up[0] = <<>>
  /\ \A n \in 1..Len(fs) : up[n] = up[n - 1] \o Bytes(fs[n])

(* One field more.                                                         *)
LEMMA UptoStep ==
  ASSUME NEW fs \in Seq(Field), NEW up, Upto(up, fs),
         NEW n \in Nat, n + 1 <= Len(fs)
  PROVE  up[n + 1] = up[n] \o Bytes(fs[n + 1])
  <1>1. Len(fs) \in Nat
    BY LenProperties
  <1> DEFINE m == n + 1
  <1>2. m \in 1..Len(fs) /\ m - 1 = n
    BY <1>1
  <1> HIDE DEF m
  <1>3. up[m] = up[m - 1] \o Bytes(fs[m])
    BY <1>2 DEF Upto
  <1>4. up[m] = up[n] \o Bytes(fs[m])
    BY <1>2, <1>3
  <1> QED BY <1>4 DEF m

(* Every field takes at least a tag and a length.                          *)
LEMMA BytesShape ==
  ASSUME NEW fd \in Field
  PROVE  Bytes(fd) \in Seq(Nat) /\ Len(Bytes(fd)) \in Nat /\ Len(Bytes(fd)) > 1
  <1>1. fd.field \in Nat /\ fd.bytes \in Seq(Nat)
    BY DEF Field
  <1> QED BY <1>1, DelimitedShape DEF Bytes

(* So the lengths of the parts grow strictly, and each part begins with the *)
(* ones before it.                                                         *)
LEMMA UptoShape ==
  ASSUME NEW fs \in Seq(Field), NEW up, Upto(up, fs), NEW j \in 0..Len(fs)
  PROVE  /\ up[j] \in Seq(Nat)
         /\ \A k \in 0..j :
              /\ Len(up[k]) \in Nat
              /\ Len(up[k]) <= Len(up[j])
              /\ k < j => Len(up[k]) < Len(up[j])
              /\ \A i \in 1..Len(up[k]) : up[j][i] = up[k][i]
  <1> DEFINE Good(n) ==
               /\ up[n] \in Seq(Nat)
               /\ \A k \in 0..n :
                    /\ Len(up[k]) \in Nat
                    /\ Len(up[k]) <= Len(up[n])
                    /\ k < n => Len(up[k]) < Len(up[n])
                    /\ \A i \in 1..Len(up[k]) : up[n][i] = up[k][i]
             S == {n \in Nat : n <= Len(fs) => Good(n)}
  <1>1. 0 \in S
    <2>1. up[0] \in Seq(Nat) /\ Len(up[0]) \in Nat
      BY EmptySeq DEF Upto
    <2>2. \A k \in 0..0 : k = 0
      OBVIOUS
    <2>3. Good(0)
      BY <2>1, <2>2
    <2> HIDE DEF Good
    <2> QED BY <2>3
  <1>2. ASSUME NEW n \in Nat, n \in S PROVE n + 1 \in S
    <2> SUFFICES ASSUME n + 1 <= Len(fs) PROVE Good(n + 1)
      <3> HIDE DEF Good
      <3> QED OBVIOUS
    <2>0. Len(fs) \in Nat
      OBVIOUS
    <2>1. Good(n)
      BY <1>2, <2>0
    <2> DEFINE D == Bytes(fs[n + 1])
    <2>3. D \in Seq(Nat) /\ Len(D) \in Nat /\ Len(D) > 1
      <3>1. n + 1 \in 1..Len(fs)
        BY <2>0
      <3> QED BY <3>1, ElementOfSeq, BytesShape
    <2>4. up[n + 1] = up[n] \o D
      BY UptoStep
    <2> HIDE DEF D
    <2>5. up[n] \in Seq(Nat) /\ Len(up[n]) \in Nat
      BY <2>1
    <2>6. /\ up[n + 1] \in Seq(Nat)
          /\ Len(up[n + 1]) = Len(up[n]) + Len(D)
          /\ \A i \in 1..(Len(up[n]) + Len(D)) :
               up[n + 1][i] = IF i <= Len(up[n]) THEN up[n][i] ELSE D[i - Len(up[n])]
      BY <2>3, <2>4, <2>5, ConcatProperties
    <2>7. ASSUME NEW k \in 0..(n + 1)
          PROVE  /\ Len(up[k]) \in Nat
                 /\ Len(up[k]) <= Len(up[n + 1])
                 /\ k < n + 1 => Len(up[k]) < Len(up[n + 1])
                 /\ \A i \in 1..Len(up[k]) : up[n + 1][i] = up[k][i]
      <3>1. CASE k = n + 1
        BY <2>3, <2>5, <2>6, <3>1
      <3>2. CASE k # n + 1
        <4>1. k \in 0..n
          BY <3>2
        <4>2. /\ Len(up[k]) \in Nat
              /\ Len(up[k]) <= Len(up[n])
              /\ \A i \in 1..Len(up[k]) : up[n][i] = up[k][i]
          BY <2>1, <4>1
        <4>3. Len(up[k]) < Len(up[n + 1])
          BY <2>3, <2>5, <2>6, <4>2
        <4>4. ASSUME NEW i \in 1..Len(up[k]) PROVE up[n + 1][i] = up[k][i]
          <5>1. i \in 1..(Len(up[n]) + Len(D)) /\ i <= Len(up[n])
            BY <2>3, <2>5, <4>2, SMTT(30)
          <5> QED BY <2>6, <4>2, <5>1
        <4> QED BY <2>3, <2>5, <2>6, <4>2, <4>3, <4>4
      <3> QED BY <3>1, <3>2
    <2> QED BY <2>6, <2>7
  <1> HIDE DEF S
  <1>3. j \in S
    BY <1>1, <1>2, NatSets
  <1> HIDE DEF Good
  <1>4. Good(j)
    BY <1>3 DEF S
  <1> QED BY <1>4 DEF Good

(* What ReadFields makes of the first n bytes of the fields fs. *)
ReadsCut(b, up, fs, n) ==
  /\ \A j \in 0..Len(fs) : Len(up[j]) = n => ReadFields(b) = {SubSeq(fs, 1, j)}
  /\ (\A j \in 0..Len(fs) : Len(up[j]) # n) => ReadFields(b) = {}

(* The bytes of a list of fields, cut off anywhere: they read as the fields *)
(* before the cut when the cut is between two fields, and not at all when it *)
(* is within one.                                                          *)
LEMMA CutReads ==
  ASSUME NEW fs \in Seq(Field), NEW up, Upto(up, fs),
         NEW n \in 0..Len(up[Len(fs)]),
         NEW b, b = SubSeq(up[Len(fs)], 1, n)
  PROVE  ReadsCut(b, up, fs, n)
  <1> DEFINE N == Len(fs)
  <1>1. N \in Nat /\ N \in 0..N
    BY LenProperties
  <1>2. \A j \in 0..N :
          /\ up[j] \in Seq(Nat)
          /\ \A k \in 0..j :
               /\ Len(up[k]) \in Nat
               /\ Len(up[k]) <= Len(up[j])
               /\ k < j => Len(up[k]) < Len(up[j])
               /\ \A i \in 1..Len(up[k]) : up[j][i] = up[k][i]
    BY UptoShape
  <1>3. up[N] \in Seq(Nat) /\ Len(up[N]) \in Nat /\ n \in Nat /\ n <= Len(up[N])
    BY <1>1, <1>2
  <1>4. b \in Seq(Nat) /\ Len(b) = n /\ \A i \in 1..n : b[i] = up[N][i]
    <2>1. \A i \in 1..n : up[N][i] \in Nat
      <3>1. \A i \in 1..n : i \in 1..Len(up[N])
        BY <1>3
      <3> QED BY <1>3, <3>1, ElementOfSeq
    <2> DEFINE u == up[N]
    <2>2. b = SubSeq(u, 1, n)
      OBVIOUS
    <2> HIDE DEF u
    <2>3. \A i \in 1..n : u[i] \in Nat
      BY <2>1 DEF u
    <2>4. 1 \in Int /\ n \in Int
      BY <1>3
    <2>5. /\ b \in Seq(Nat)
          /\ Len(b) = IF 1 <= n THEN n - 1 + 1 ELSE 0
          /\ \A i \in 1..(n - 1 + 1) : b[i] = u[1 + i - 1]
      BY <2>2, <2>3, <2>4, SubSeqProperties
    <2>6. n - 1 + 1 = n /\ \A i \in 1..n : 1 + i - 1 = i
      BY <1>3
    <2>7. Len(b) = n
      BY <1>3, <2>5
    <2> QED BY <2>5, <2>6, <2>7 DEF u
  <1>5. PICK f : /\ \A p \in 1..(Len(b) + 1) : f[p] = FromStep(b, p, f)
                 /\ ReadFields(b) = f[1]
    BY <1>4, ReadFieldsUnfolds
  <1> DEFINE At(k) == Len(up[k]) + 1
             Good(k) == Len(up[k]) <= n =>
                /\ \A j \in k..N : Len(up[j]) = n => f[At(k)] = {SubSeq(fs, k + 1, j)}
                /\ (\A j \in k..N : Len(up[j]) # n) => f[At(k)] = {}
             S == {m \in Nat : m <= N => Good(N - m)}
  <1>6. ASSUME NEW k \in 0..N, Len(up[k]) = n
        PROVE  Good(k)
    <2>1. f[At(k)] = {<<>>}
      <3>1. n + 1 \in 1..(Len(b) + 1) /\ n + 1 > Len(b)
        BY <1>3, <1>4
      <3>2. f[n + 1] = {<<>>}
        BY <1>5, <3>1 DEF FromStep
      <3> QED BY <1>6, <3>2
    <2>2. SubSeq(fs, k + 1, k) = <<>>
      BY SubSeqEmpty
    <2>3. \A j \in k..N : j # k => Len(up[j]) # n
      <3> SUFFICES ASSUME NEW j \in k..N, j # k PROVE Len(up[j]) # n
        OBVIOUS
      <3>1. j \in 0..N /\ k \in 0..j /\ k < j
        BY <1>1
      <3>2. Len(up[k]) < Len(up[j]) /\ Len(up[k]) \in Nat /\ j \in 0..j
        BY <1>2, <3>1
      <3>3. Len(up[j]) \in Nat
        BY <1>2, <3>1, <3>2
      <3> QED BY <1>6, <3>2, <3>3
    <2>4. k \in k..N
      BY <1>1
    <2> QED BY <1>6, <2>1, <2>2, <2>3, <2>4
  <1>7. Good(N)
    <2> SUFFICES ASSUME Len(up[N]) <= n PROVE Good(N)
      OBVIOUS
    <2>1. Len(up[N]) = n
      BY <1>3
    <2> QED BY <1>1, <1>6, <2>1
  <1>8. ASSUME NEW k \in 0..(N - 1), Good(k + 1)
        PROVE  Good(k)
    <2>0. k \in 0..N /\ k + 1 \in 0..N /\ k + 1 \in 1..N /\ k \in 0..(k + 1) /\ k < k + 1
      BY <1>1
    <2>1. /\ Len(up[k]) \in Nat /\ Len(up[k + 1]) \in Nat
          /\ Len(up[k]) < Len(up[k + 1])
          /\ \A i \in 1..Len(up[k]) : up[k + 1][i] = up[k][i]
          /\ k + 1 \in 0..(k + 1)
      <3>1. k + 1 \in 0..(k + 1)
        BY <2>0
      <3> QED BY <1>2, <2>0, <3>1
    <2>2. CASE Len(up[k]) = n
      <3> HIDE DEF Good
      <3> QED BY <1>6, <2>0, <2>2
    <2>3. CASE Len(up[k]) > n
      BY <1>3, <2>1, <2>3
    <2>4. CASE Len(up[k]) < n
      <3> DEFINE fd == fs[k + 1].field
                 x == fs[k + 1].bytes
                 D == Delimited(fd, x)
                 p == At(k)
                 next == p + Len(D)
      <3>1. fs[k + 1] \in Field /\ fd \in Nat /\ x \in Seq(Nat) /\ fs[k + 1] = [field |-> fd, bytes |-> x]
        <4>1. fs[k + 1] \in Field
          BY <2>0, ElementOfSeq
        <4> QED BY <4>1 DEF Field
      <3>2. D \in Seq(Nat) /\ Len(D) \in Nat
        BY <3>1, DelimitedShape
      <3>3. up[k + 1] = up[k] \o D
        <4>1. up[k + 1] = up[k] \o Bytes(fs[k + 1])
          <5>1. k \in Nat /\ k + 1 <= Len(fs)
            BY <1>1
          <5> QED BY <5>1, UptoStep
        <4> QED BY <4>1 DEF Bytes
      <3> HIDE DEF fd, x, D, Good
      <3>4. /\ Len(up[k + 1]) = Len(up[k]) + Len(D)
            /\ \A i \in 1..Len(D) : up[k + 1][Len(up[k]) + i] = D[i]
        <4>1. up[k] \in Seq(Nat)
          BY <1>2, <2>0
        <4> DEFINE u == up[k]
        <4> HIDE DEF u
        <4>2. u \in Seq(Nat) /\ up[k + 1] = u \o D
          BY <3>3, <4>1 DEF u
        <4>3. Len(u \o D) = Len(u) + Len(D) /\ \A i \in 1..Len(D) : (u \o D)[Len(u) + i] = D[i]
          BY <3>2, <4>2, ConcatParts
        <4> QED BY <4>2, <4>3 DEF u
      <3>5. p \in 1..Len(b) /\ next = At(k + 1)
        BY <1>3, <1>4, <2>1, <2>4, <3>2, <3>4
      <3>6. StandsIn(D, b, p)
        <4> SUFFICES ASSUME NEW i \in 1..Len(D), p + i - 1 <= Len(b)
                     PROVE  b[p + i - 1] = D[i]
          BY DEF StandsIn
        <4> DEFINE q == Len(up[k]) + i
        <4>1. p + i - 1 = q /\ q \in 1..n /\ q \in 1..Len(up[k + 1])
          <5> DEFINE a == Len(up[k])
                     d == Len(D)
                     c == Len(up[k + 1])
          <5>1. a \in Nat /\ d \in Nat /\ c = a + d /\ p = a + 1
            BY <2>1, <3>2, <3>4
          <5>2. i \in 1..d /\ p + i - 1 <= n
            BY <1>4
          <5> HIDE DEF a, d, c, p
          <5>3. p + i - 1 = a + i /\ a + i \in 1..n /\ a + i \in 1..c
            BY <1>3, <5>1, <5>2
          <5> QED BY <5>3 DEF a, c
        <4>2. up[k + 1][q] = D[i]
          BY <3>4
        <4> HIDE DEF q
        <4>3. b[q] = up[N][q]
          BY <1>4, <4>1
        <4>4. up[N][q] = up[k + 1][q]
          BY <1>1, <1>2, <2>0, <4>1
        <4> QED BY <4>1, <4>2, <4>3, <4>4
      <3>7. f[p] = IF next > Len(b) + 1 THEN {}
                   ELSE Prefixed(fs[k + 1], f[next])
        <4>1. FieldsAt(b, p, f) = IF next > Len(b) + 1 THEN {}
                ELSE Prefixed([field |-> fd, bytes |-> x], f[next])
          <5> HIDE DEF p
          <5>1. StandsIn(Delimited(fd, x), b, p) /\ p \in 1..Len(b) /\ b \in Seq(Nat)
            BY <1>4, <3>5, <3>6 DEF D
          <5>2. FieldsAt(b, p, f) = IF p + Len(Delimited(fd, x)) > Len(b) + 1 THEN {}
                 ELSE Prefixed([field |-> fd, bytes |-> x], f[p + Len(Delimited(fd, x))])
            BY <3>1, <5>1, FieldReads, ZenonT(60)
          <5> QED BY <5>2 DEF D
        <4>2. p \in 1..(Len(b) + 1) /\ ~(p > Len(b))
          BY <1>4, <1>3, <3>5
        <4> HIDE DEF p, next
        <4>3. f[p] = FieldsAt(b, p, f)
          BY <1>5, <4>2 DEF FromStep
        <4> QED BY <3>1, <4>1, <4>3
      <3>8. CASE Len(up[k + 1]) > n
        <4>1. f[At(k)] = {}
          BY <1>3, <1>4, <2>1, <3>5, <3>7, <3>8
        <4>2. \A j \in k..N : Len(up[j]) # n
          <5> SUFFICES ASSUME NEW j \in k..N, j # k PROVE Len(up[j]) > n /\ Len(up[j]) \in Nat
            BY <1>3, <2>4
          <5>1. j \in 0..N /\ k + 1 \in 0..j /\ j \in 0..j
            BY <1>1, <2>0
          <5>2. Len(up[k + 1]) <= Len(up[j]) /\ Len(up[j]) \in Nat
            BY <1>2, <5>1
          <5> QED BY <1>3, <2>1, <3>8, <5>2
        <4> QED BY <4>1, <4>2 DEF Good
      <3>9. CASE Len(up[k + 1]) <= n
        <4>1. f[At(k)] = Prefixed(fs[k + 1], f[At(k + 1)])
          <5>1. ~(next > Len(b) + 1)
            BY <1>3, <1>4, <2>1, <3>5, <3>9
          <5> QED BY <3>5, <3>7, <5>1
        <4> HIDE DEF At
        <4>2. /\ \A j \in (k + 1)..N : Len(up[j]) = n => f[At(k + 1)] = {SubSeq(fs, k + 1 + 1, j)}
              /\ (\A j \in (k + 1)..N : Len(up[j]) # n) => f[At(k + 1)] = {}
          BY <1>8, <3>9 DEF Good
        <4>3. \A j \in k..N : Len(up[j]) = n => j \in (k + 1)..N
          <5>1. \A j \in k..N : j # k => j \in (k + 1)..N
            BY <1>1, <2>0
          <5>2. Len(up[k]) # n
            BY <1>3, <2>1, <2>4
          <5> QED BY <5>1, <5>2
        <4>4. ASSUME NEW j \in k..N, Len(up[j]) = n
              PROVE  f[At(k)] = {SubSeq(fs, k + 1, j)}
          <5>1. j \in (k + 1)..N
            BY <4>3, <4>4
          <5>2. f[At(k + 1)] = {SubSeq(fs, k + 1 + 1, j)}
            BY <4>2, <4>4, <5>1
          <5>3. <<fs[k + 1]>> \o SubSeq(fs, k + 1 + 1, j) = SubSeq(fs, k + 1, j)
            <6>1. k + 1 \in 1..Len(fs) /\ j \in (k + 1)..Len(fs)
              BY <2>0, <5>1
            <6> QED BY <6>1, SubSeqRecursiveFirst
          <5> QED BY <4>1, <5>2, <5>3 DEF Prefixed
        <4>5. ASSUME \A j \in k..N : Len(up[j]) # n
              PROVE  f[At(k)] = {}
          <5>1. \A j \in (k + 1)..N : j \in k..N
            BY <1>1, <2>0
          <5>2. f[At(k + 1)] = {}
            BY <4>2, <4>5, <5>1
          <5> QED BY <4>1, <5>2 DEF Prefixed
        <4> QED BY <4>4, <4>5 DEF Good
      <3> QED BY <1>3, <2>1, <3>8, <3>9
    <2> QED BY <1>3, <2>1, <2>2, <2>3, <2>4
  <1> HIDE DEF Good
  <1>9. 0 \in S
    <2>1. N - 0 = N
      BY <1>1
    <2> QED BY <1>7, <2>1
  <1>10. ASSUME NEW m \in Nat, m \in S PROVE m + 1 \in S
    <2> SUFFICES ASSUME m + 1 <= N PROVE Good(N - (m + 1))
      OBVIOUS
    <2> DEFINE k == N - (m + 1)
    <2>1. k \in 0..(N - 1) /\ k + 1 = N - m
      BY <1>1
    <2>2. Good(N - m)
      BY <1>1, <1>10
    <2> HIDE DEF k
    <2>3. Good(k)
      BY <1>8, <2>1, <2>2
    <2> QED BY <2>3 DEF k
  <1>11. Good(0)
    <2>1. N \in S
      <3> HIDE DEF S
      <3> QED BY <1>1, <1>9, <1>10, NatSets
    <2>2. N - N = 0
      BY <1>1
    <2> QED BY <1>1, <2>1, <2>2
  <1>12. /\ \A j \in 0..N : Len(up[j]) = n => f[1] = {SubSeq(fs, 1, j)}
         /\ (\A j \in 0..N : Len(up[j]) # n) => f[1] = {}
    <2>1. Len(up[0]) = 0 /\ Len(up[0]) + 1 = 1 /\ 0 + 1 = 1
      BY EmptySeq DEF Upto
    <2> QED BY <1>3, <1>11, <2>1 DEF Good
  <1> QED BY <1>5, <1>12 DEF ReadsCut

(***************************************************************************)
(* Messages of texts.                                                      *)
(***************************************************************************)

(* The field StringField writes, if any.                                   *)
Rec(fd, x) == IF x = <<>> THEN <<>> ELSE <<[field |-> fd, bytes |-> x]>>

(* It is one field unless the text is empty.                               *)
LEMMA RecType ==
  ASSUME NEW fd \in Nat, NEW x \in Seq(Nat)
  PROVE  /\ Rec(fd, x) \in Seq(Field)
         /\ x = <<>> => Rec(fd, x) = <<>>
         /\ x # <<>> => Len(Rec(fd, x)) = 1 /\ Rec(fd, x)[1] = [field |-> fd, bytes |-> x]
  <1>1. [field |-> fd, bytes |-> x] \in Field
    BY DEF Field
  <1>2. \A y \in Field : <<y>> \in Seq(Field) /\ Len(<<y>>) = 1 /\ <<y>>[1] = y
    OBVIOUS
  <1> QED BY <1>1, <1>2, EmptySeq DEF Rec

(* What StringField writes is bytes.                                       *)
LEMMA StringFieldType ==
  ASSUME NEW fd \in Nat, NEW x \in Seq(Nat)
  PROVE  StringField(fd, x) \in Seq(Nat) /\ Len(StringField(fd, x)) \in Nat
  BY DelimitedShape, EmptySeq DEF StringField

(* f is the reader of bytes.                                               *)
Reads(bytes, f) == \A p \in 1..(Len(bytes) + 1) : f[p] = FromStep(bytes, p, f)

(* r with one more field before it, unless the text is empty. *)
WithField(fd, x, r) == Rec(fd, x) \o r

(* f reads exactly the fields r from p on. *)
ReadsFrom(f, p, r) == f[p] = {r}

(* The text x stands as field fd from p up to q. *)
FieldStands(bytes, p, fd, x, q) ==
  /\ StandsIn(StringField(fd, x), bytes, p)
  /\ q = p + Len(StringField(fd, x))

(* A string field that stands before the fields r reads as that field, or  *)
(* as nothing when its text is empty, before r.                            *)
LEMMA StringFieldReads ==
  ASSUME NEW bytes \in Seq(Nat), NEW f, Reads(bytes, f),
         NEW fd \in Nat, NEW x \in Seq(Nat),
         NEW p \in 1..(Len(bytes) + 1), NEW q \in 1..(Len(bytes) + 1),
         FieldStands(bytes, p, fd, x, q),
         NEW r \in Seq(Field), ReadsFrom(f, q, r)
  PROVE  ReadsFrom(f, p, WithField(fd, x, r)) /\ WithField(fd, x, r) \in Seq(Field)
  <1> USE DEF ReadsFrom
  <1> DEFINE s == StringField(fd, x)
             t == Rec(fd, x) \o r
  <1>4. StandsIn(s, bytes, p) /\ q = p + Len(s) /\ q <= Len(bytes) + 1
    <2>1. Len(bytes) \in Nat
      BY LenProperties
    <2> QED BY <2>1 DEF FieldStands
  <1>0. Len(bytes) \in Nat
    BY LenProperties
  <1>1. t \in Seq(Field)
    BY RecType, ConcatProperties
  <1>2. CASE x = <<>>
    <2>1. StringField(fd, x) = <<>> /\ Rec(fd, x) = <<>>
      BY <1>2 DEF StringField, Rec
    <2>2. q = p
      BY <1>4, <2>1, EmptySeq
    <2>3. t = r
      BY <2>1, ConcatEmptySeq
    <2>4. f[p] = {r}
      BY <2>2
    <2>5. WithField(fd, x, r) = t
      BY DEF WithField
    <2> HIDE DEF t
    <2> QED BY <1>1, <2>3, <2>4, <2>5
  <1>3. CASE x # <<>>
    <2> DEFINE D == Delimited(fd, x)
               next == p + Len(D)
    <2>1. StringField(fd, x) = D /\ Rec(fd, x) = <<[field |-> fd, bytes |-> x]>>
      BY <1>3 DEF StringField, Rec
    <2>2. Len(D) \in Nat /\ Len(D) > 1
      BY DelimitedShape
    <2>3. f[next] = {r} /\ next <= Len(bytes) + 1 /\ StandsIn(D, bytes, p)
      BY <1>4, <2>1
    <2>4. p \in 1..Len(bytes) /\ ~(next > Len(bytes) + 1)
      <3> HIDE DEF D
      <3> QED BY <1>0, <2>2, <2>3
    <2>5. FieldsAt(bytes, p, f) = IF p + Len(Delimited(fd, x)) > Len(bytes) + 1 THEN {}
            ELSE Prefixed([field |-> fd, bytes |-> x], f[p + Len(Delimited(fd, x))])
      BY <2>3, <2>4, FieldReads, ZenonT(60)
    <2>6. FieldsAt(bytes, p, f) = Prefixed([field |-> fd, bytes |-> x], {r})
      BY <2>3, <2>4, <2>5
    <2>7. f[p] = FieldsAt(bytes, p, f)
      <3>1. ~(p > Len(bytes))
        BY <1>0, <2>4
      <3> QED BY <3>1 DEF FromStep, Reads
    <2>8. Prefixed([field |-> fd, bytes |-> x], {r}) = {<<[field |-> fd, bytes |-> x]>> \o r}
      BY DEF Prefixed
    <2>9. WithField(fd, x, r) = t /\ t = <<[field |-> fd, bytes |-> x]>> \o r
      BY <2>1 DEF WithField
    <2> HIDE DEF t, D
    <2> QED BY <1>1, <2>6, <2>7, <2>8, <2>9
  <1> QED BY <1>2, <1>3

(* The middle of three parts stands behind the first.                      *)
LEMMA MiddleStands ==
  ASSUME NEW a \in Seq(Nat), NEW m \in Seq(Nat), NEW c \in Seq(Nat)
  PROVE  /\ StandsIn(m, a \o m \o c, Len(a) + 1)
         /\ a \o m \o c \in Seq(Nat)
         /\ Len(a \o m \o c) = Len(a) + Len(m) + Len(c)
  <1> DEFINE am == a \o m
             bytes == am \o c
  <1>1. /\ am \in Seq(Nat) /\ Len(am) = Len(a) + Len(m)
        /\ \A i \in 1..Len(m) : am[Len(a) + i] = m[i]
    BY ConcatParts
  <1> HIDE DEF am
  <1>2. /\ bytes \in Seq(Nat) /\ Len(bytes) = Len(am) + Len(c)
        /\ \A i \in 1..Len(am) : bytes[i] = am[i]
    <2>1. am \in Seq(Nat)
      BY <1>1
    <2> QED BY <2>1, ConcatParts
  <1>3. Len(a) \in Nat /\ Len(m) \in Nat /\ Len(c) \in Nat
    BY LenProperties
  <1> HIDE DEF bytes
  <1>4. ASSUME NEW i \in 1..Len(m)
        PROVE  bytes[Len(a) + 1 + i - 1] = m[i]
    <2>1. Len(a) + i \in 1..Len(am) /\ Len(a) + 1 + i - 1 = Len(a) + i
      BY <1>1, <1>3
    <2> QED BY <1>1, <1>2, <2>1
  <1>5. StandsIn(m, bytes, Len(a) + 1)
    BY <1>4 DEF StandsIn
  <1> QED BY <1>1, <1>2, <1>5 DEF am, bytes

(* r has no field of this number. *)
NoField(r, g) == \A k \in 1..Len(r) : r[k].field # g

(* x is all that r says of field g. *)
Says(r, g, x) ==
  \/ x = <<>> /\ NoField(r, g)
  \/ \E k \in 1..Len(r) : /\ r[k].field = g /\ r[k].bytes = x
                          /\ \A j \in 1..Len(r) : r[j].field = g => j = k

(* Then FieldValue finds x.                                                *)
LEMMA SaysValue ==
  ASSUME NEW r \in Seq(Field), NEW g, NEW x, Says(r, g, x)
  PROVE  FieldValue(r, g) = x
  <1> DEFINE at == {k \in DOMAIN r : r[k].field = g}
  <1>1. DOMAIN r = 1..Len(r)
    BY LenProperties
  <1>2. CASE x = <<>> /\ NoField(r, g)
    <2>1. at = {}
      BY <1>1, <1>2 DEF NoField
    <2> QED BY <1>2, <2>1 DEF FieldValue
  <1>3. CASE ~(x = <<>> /\ NoField(r, g))
    <2>1. PICK k \in 1..Len(r) : /\ r[k].field = g /\ r[k].bytes = x
                                 /\ \A j \in 1..Len(r) : r[j].field = g => j = k
      BY <1>3 DEF Says
    <2>2. at = {k}
      BY <1>1, <2>1
    <2>3. (CHOOSE h \in at : \A j \in at : j <= h) = k
      <3>1. k <= k
        BY LenProperties
      <3> QED BY <2>2, <3>1
    <2> HIDE DEF at
    <2>4. FieldValue(r, g) = r[k].bytes
      <3>1. at # {}
        BY <2>2
      <3> QED BY <2>3, <3>1 DEF FieldValue, at
    <2> QED BY <2>1, <2>4
  <1> QED BY <1>2, <1>3

(* What is said of a field is still said of it behind another field.       *)
LEMMA SaysMore ==
  ASSUME NEW r \in Seq(Field), NEW fd \in Nat, NEW y \in Seq(Nat),
         NEW s, s = WithField(fd, y, r)
  PROVE  /\ \A g : g # fd /\ NoField(r, g) => NoField(s, g)
         /\ \A g, x : g # fd /\ Says(r, g, x) => Says(s, g, x)
         /\ NoField(r, fd) => Says(s, fd, y)
  <1>0. Len(r) \in Nat
    BY LenProperties
  <1>1. CASE y = <<>>
    <2>1. s = r
      BY <1>1, RecType, ConcatEmptySeq DEF WithField
    <2> QED BY <1>1, <2>1 DEF Says
  <1>2. CASE y # <<>>
    <2> DEFINE one == Rec(fd, y)
    <2>1. one \in Seq(Field) /\ Len(one) = 1 /\ one[1].field = fd /\ one[1].bytes = y
      <3>1. one \in Seq(Field) /\ Len(one) = 1 /\ one[1] = [field |-> fd, bytes |-> y]
        BY <1>2, RecType
      <3> HIDE DEF one
      <3> QED BY <3>1
    <2>0. one \in Seq(Field)
      BY <2>1
    <2> HIDE DEF one
    <2>2. /\ one \o r \in Seq(Field) /\ Len(one \o r) = Len(one) + Len(r)
          /\ \A i \in 1..Len(one) : (one \o r)[i] = one[i]
          /\ \A i \in 1..Len(r) : (one \o r)[Len(one) + i] = r[i]
      BY <2>0, ConcatParts
    <2>3. /\ s \in Seq(Field) /\ Len(s) = 1 + Len(r)
          /\ s[1].field = fd /\ s[1].bytes = y
          /\ \A i \in 1..Len(r) : s[1 + i] = r[i]
      <3>1. s = one \o r
        BY DEF one, WithField
      <3>2. 1 \in 1..Len(one)
        BY <2>1
      <3> QED BY <2>1, <2>2, <3>1, <3>2
    <2>4. \A j \in 1..Len(s) : j = 1 \/ (j - 1 \in 1..Len(r) /\ s[j] = r[j - 1])
      <3> SUFFICES ASSUME NEW j \in 1..Len(s), j # 1
                   PROVE  j - 1 \in 1..Len(r) /\ s[j] = r[j - 1]
        OBVIOUS
      <3> DEFINE h == j - 1
      <3>1. h \in 1..Len(r) /\ j = 1 + h
        BY <1>0, <2>3
      <3> HIDE DEF h
      <3>2. s[j] = r[h]
        BY <2>3, <3>1
      <3> QED BY <3>1, <3>2 DEF h
    <2>5. ASSUME NEW g, g # fd, NoField(r, g) PROVE NoField(s, g)
      BY <2>3, <2>4, <2>5 DEF NoField
    <2>6. ASSUME NEW g, NEW x, g # fd, Says(r, g, x) PROVE Says(s, g, x)
      <3>1. CASE x = <<>> /\ NoField(r, g)
        BY <2>5, <2>6, <3>1 DEF Says
      <3>2. CASE ~(x = <<>> /\ NoField(r, g))
        <4>1. PICK k \in 1..Len(r) : /\ r[k].field = g /\ r[k].bytes = x
                                     /\ \A j \in 1..Len(r) : r[j].field = g => j = k
          BY <2>6, <3>2 DEF Says
        <4>2. 1 + k \in 1..Len(s) /\ s[1 + k].field = g /\ s[1 + k].bytes = x
          BY <1>0, <2>3, <4>1
        <4>3. ASSUME NEW j \in 1..Len(s), s[j].field = g PROVE j = 1 + k
          <5>1. j - 1 \in 1..Len(r) /\ s[j] = r[j - 1]
            BY <2>3, <2>4, <2>6, <4>3
          <5>2. j - 1 = k
            BY <4>1, <4>3, <5>1
          <5> QED BY <5>2
        <4> QED BY <4>2, <4>3 DEF Says
      <3> QED BY <3>1, <3>2
    <2>7. ASSUME NoField(r, fd) PROVE Says(s, fd, y)
      <3>1. 1 \in 1..Len(s)
        BY <1>0, <2>3
      <3>2. ASSUME NEW j \in 1..Len(s), s[j].field = fd PROVE j = 1
        BY <2>4, <2>7, <3>2 DEF NoField
      <3> QED BY <2>3, <3>1, <3>2 DEF Says
    <2> QED BY <2>5, <2>6, <2>7
  <1> QED BY <1>1, <1>2

(* Nothing is said of any field. *)
LEMMA SaysNothing ==
  <<>> \in Seq(Field) /\ \A g : NoField(<<>>, g)
  BY EmptySeq DEF NoField

(* Four parts, each behind those before it.                                *)
LEMMA FourStand ==
  ASSUME NEW A \in Seq(Nat), NEW B \in Seq(Nat), NEW C \in Seq(Nat), NEW D \in Seq(Nat),
         NEW bytes, bytes = A \o B \o C \o D
  PROVE  /\ bytes \in Seq(Nat)
         /\ Len(bytes) = Len(A) + Len(B) + Len(C) + Len(D)
         /\ StandsIn(A, bytes, 1)
         /\ StandsIn(B, bytes, 1 + Len(A))
         /\ StandsIn(C, bytes, 1 + Len(A) + Len(B))
         /\ StandsIn(D, bytes, 1 + Len(A) + Len(B) + Len(C))
  <1>1. Len(A) \in Nat /\ Len(B) \in Nat /\ Len(C) \in Nat /\ Len(D) \in Nat
    BY LenProperties
  <1>2. PICK e : e \in Seq(Nat) /\ Len(e) = 0 /\ \A s \in Seq(Nat) : e \o s = s /\ s \o e = s
    BY EmptySeq, ConcatEmptySeq
  <1>3. PICK ab : ab = A \o B /\ ab \in Seq(Nat) /\ Len(ab) = Len(A) + Len(B)
    BY ConcatProperties
  <1>4. PICK abc : abc = ab \o C /\ abc \in Seq(Nat) /\ Len(abc) = Len(ab) + Len(C)
    BY <1>3, ConcatProperties
  <1>5. PICK cd : cd = C \o D /\ cd \in Seq(Nat)
    BY ConcatProperties
  <1>6. PICK bcd : bcd = B \o cd /\ bcd \in Seq(Nat)
    BY <1>5, ConcatProperties
  <1>7. bytes = abc \o D
    BY <1>3, <1>4
  <1>8. bytes = ab \o cd
    BY <1>3, <1>4, <1>5, <1>7, ConcatAssociative, SMTT(30)
  <1>9. bytes = A \o bcd
    <2>1. (A \o B) \o cd = A \o (B \o cd)
      BY <1>5, ConcatAssociative, SMTT(30)
    <2> QED BY <1>3, <1>6, <1>8, <2>1
  <1>10. /\ StandsIn(D, abc \o D \o e, Len(abc) + 1)
         /\ abc \o D \o e = bytes
         /\ bytes \in Seq(Nat) /\ Len(bytes) = Len(abc) + Len(D)
    <2>1. abc \o D \in Seq(Nat) /\ Len(abc \o D) = Len(abc) + Len(D)
      BY <1>4, ConcatProperties
    <2> QED BY <1>2, <1>4, <1>7, <2>1, MiddleStands
  <1>11. StandsIn(C, bytes, Len(ab) + 1)
    <2>1. StandsIn(C, ab \o C \o D, Len(ab) + 1)
      BY <1>3, MiddleStands
    <2> QED BY <1>4, <1>7, <2>1
  <1>12. StandsIn(B, bytes, Len(A) + 1)
    <2>1. StandsIn(B, A \o B \o cd, Len(A) + 1)
      BY <1>5, MiddleStands
    <2> QED BY <1>3, <1>8, <2>1
  <1>13. StandsIn(A, bytes, 1)
    <2>1. StandsIn(A, e \o A \o bcd, Len(e) + 1)
      BY <1>2, <1>6, MiddleStands
    <2>2. e \o A \o bcd = bytes /\ Len(e) + 1 = 1
      BY <1>2, <1>9
    <2> QED BY <2>1, <2>2
  <1>14. /\ Len(A) + 1 = 1 + Len(A)
         /\ Len(ab) + 1 = 1 + Len(A) + Len(B)
         /\ Len(abc) + 1 = 1 + Len(A) + Len(B) + Len(C)
         /\ Len(bytes) = Len(A) + Len(B) + Len(C) + Len(D)
    BY <1>1, <1>3, <1>4, <1>10
  <1> QED BY <1>10, <1>11, <1>12, <1>13, <1>14

(* The bytes of a message of four texts.                                   *)
FourTexts(n1, x1, n2, x2, n3, x3, n4, x4) ==
  StringField(n1, x1) \o StringField(n2, x2) \o StringField(n3, x3) \o StringField(n4, x4)

(* The fields r say nothing but x of the field g. *)
SaysOnly(r, g, x) == \A k \in DOMAIN r : r[k].field = g => r[k].bytes = x

LEMMA SaysOnlyThat ==
  ASSUME NEW r \in Seq(Field), NEW g, NEW x, Says(r, g, x)
  PROVE  SaysOnly(r, g, x)
  <1>1. DOMAIN r = 1..Len(r)
    OBVIOUS
  <1>2. CASE NoField(r, g)
    BY <1>1, <1>2 DEF NoField, SaysOnly
  <1>3. CASE ~NoField(r, g)
    <2>1. PICK k \in 1..Len(r) : /\ r[k].field = g /\ r[k].bytes = x
                                /\ \A j \in 1..Len(r) : r[j].field = g => j = k
      BY <1>3 DEF Says
    <2> QED BY <1>1, <2>1 DEF SaysOnly
  <1> QED BY <1>2, <1>3

(* The texts of four fields, as ReadFields finds them in bytes. *)
TextsRead(bytes, n1, x1, n2, x2, n3, x3, n4, x4) ==
  \E r : /\ ReadFields(bytes) = {r}
         /\ FieldValue(r, n1) = x1 /\ FieldValue(r, n2) = x2
         /\ FieldValue(r, n3) = x3 /\ FieldValue(r, n4) = x4
         /\ SaysOnly(r, n1, x1) /\ SaysOnly(r, n2, x2)
         /\ SaysOnly(r, n3, x3) /\ SaysOnly(r, n4, x4)

(* A message of four texts, any of which may be empty and hold any bytes,  *)
(* reads as exactly those texts.                                           *)
LEMMA FourFields ==
  ASSUME NEW n1 \in Nat, NEW n2 \in Nat, NEW n3 \in Nat, NEW n4 \in Nat,
         n1 # n2, n1 # n3, n1 # n4, n2 # n3, n2 # n4, n3 # n4,
         NEW x1 \in Seq(Nat), NEW x2 \in Seq(Nat), NEW x3 \in Seq(Nat), NEW x4 \in Seq(Nat),
         NEW bytes, bytes = FourTexts(n1, x1, n2, x2, n3, x3, n4, x4)
  PROVE  bytes \in Seq(Nat) /\ TextsRead(bytes, n1, x1, n2, x2, n3, x3, n4, x4)
  <1>1. PICK A, B, C, D :
          /\ A = StringField(n1, x1) /\ B = StringField(n2, x2)
          /\ C = StringField(n3, x3) /\ D = StringField(n4, x4)
          /\ A \in Seq(Nat) /\ B \in Seq(Nat) /\ C \in Seq(Nat) /\ D \in Seq(Nat)
          /\ Len(A) \in Nat /\ Len(B) \in Nat /\ Len(C) \in Nat /\ Len(D) \in Nat
    BY StringFieldType
  <1>2. /\ bytes \in Seq(Nat)
        /\ Len(bytes) = Len(A) + Len(B) + Len(C) + Len(D)
        /\ StandsIn(A, bytes, 1)
        /\ StandsIn(B, bytes, 1 + Len(A))
        /\ StandsIn(C, bytes, 1 + Len(A) + Len(B))
        /\ StandsIn(D, bytes, 1 + Len(A) + Len(B) + Len(C))
    <2>1. bytes = A \o B \o C \o D
      BY <1>1 DEF FourTexts
    <2>2. A \in Seq(Nat) /\ B \in Seq(Nat) /\ C \in Seq(Nat) /\ D \in Seq(Nat)
      BY <1>1
    <2> QED BY <2>1, <2>2, FourStand
  <1>3. PICK p1, p2, p3, p4, p5 :
          /\ p1 = 1 /\ p2 = 1 + Len(A) /\ p3 = 1 + Len(A) + Len(B)
          /\ p4 = 1 + Len(A) + Len(B) + Len(C)
          /\ p5 = 1 + Len(A) + Len(B) + Len(C) + Len(D)
    OBVIOUS
  <1>31. bytes \in Seq(Nat) /\ Len(bytes) = Len(A) + Len(B) + Len(C) + Len(D)
    BY <1>2
  <1>30. /\ p2 = p1 + Len(A) /\ p3 = p2 + Len(B)
         /\ p4 = p3 + Len(C) /\ p5 = p4 + Len(D)
         /\ p1 \in 1..(Len(bytes) + 1) /\ p2 \in 1..(Len(bytes) + 1)
         /\ p3 \in 1..(Len(bytes) + 1) /\ p4 \in 1..(Len(bytes) + 1)
         /\ p5 \in 1..(Len(bytes) + 1) /\ p5 > Len(bytes)
    <2>1. PICK a, b, c, d : /\ a = Len(A) /\ b = Len(B) /\ c = Len(C) /\ d = Len(D)
                             /\ a \in Nat /\ b \in Nat /\ c \in Nat /\ d \in Nat
      BY <1>1
    <2>2. Len(bytes) = a + b + c + d
      BY <1>31, <2>1
    <2>3. /\ p1 = 1 /\ p2 = 1 + a /\ p3 = 1 + a + b /\ p4 = 1 + a + b + c
          /\ p5 = 1 + a + b + c + d
      BY <1>3, <2>1
    <2>4. /\ p2 = p1 + a /\ p3 = p2 + b /\ p4 = p3 + c /\ p5 = p4 + d
          /\ p1 \in 1..(Len(bytes) + 1) /\ p2 \in 1..(Len(bytes) + 1)
          /\ p3 \in 1..(Len(bytes) + 1) /\ p4 \in 1..(Len(bytes) + 1)
          /\ p5 \in 1..(Len(bytes) + 1) /\ p5 > Len(bytes)
      BY <2>1, <2>2, <2>3, SMTT(30)
    <2> QED BY <2>1, <2>4
  <1>4. /\ FieldStands(bytes, p1, n1, x1, p2)
        /\ FieldStands(bytes, p2, n2, x2, p3)
        /\ FieldStands(bytes, p3, n3, x3, p4)
        /\ FieldStands(bytes, p4, n4, x4, p5)
    BY <1>1, <1>2, <1>3, <1>30 DEF FieldStands
  <1>5. PICK f : Reads(bytes, f) /\ ReadFields(bytes) = f[1]
    BY <1>2, ReadFieldsUnfolds DEF Reads
  <1>6. PICK r5 : /\ r5 \in Seq(Field) /\ ReadsFrom(f, p5, r5) /\ \A g : NoField(r5, g)
    BY <1>30, <1>5, SaysNothing DEF Reads, FromStep, ReadsFrom
  <1>7. PICK r4 : r4 = WithField(n4, x4, r5) /\ ReadsFrom(f, p4, r4) /\ r4 \in Seq(Field)
    <2>1. /\ bytes \in Seq(Nat) /\ Reads(bytes, f)
          /\ p4 \in 1..(Len(bytes) + 1) /\ p5 \in 1..(Len(bytes) + 1)
          /\ FieldStands(bytes, p4, n4, x4, p5)
          /\ r5 \in Seq(Field) /\ ReadsFrom(f, p5, r5)
      BY <1>2, <1>30, <1>4, <1>5, <1>6
    <2>2. ReadsFrom(f, p4, WithField(n4, x4, r5)) /\ WithField(n4, x4, r5) \in Seq(Field)
      BY <2>1, StringFieldReads
    <2> QED BY <2>2
  <1>8. PICK r3 : r3 = WithField(n3, x3, r4) /\ ReadsFrom(f, p3, r3) /\ r3 \in Seq(Field)
    <2>1. /\ bytes \in Seq(Nat) /\ Reads(bytes, f)
          /\ p3 \in 1..(Len(bytes) + 1) /\ p4 \in 1..(Len(bytes) + 1)
          /\ FieldStands(bytes, p3, n3, x3, p4)
          /\ r4 \in Seq(Field) /\ ReadsFrom(f, p4, r4)
      BY <1>2, <1>30, <1>4, <1>5, <1>7
    <2>2. ReadsFrom(f, p3, WithField(n3, x3, r4)) /\ WithField(n3, x3, r4) \in Seq(Field)
      BY <2>1, StringFieldReads
    <2> QED BY <2>2
  <1>9. PICK r2 : r2 = WithField(n2, x2, r3) /\ ReadsFrom(f, p2, r2) /\ r2 \in Seq(Field)
    <2>1. /\ bytes \in Seq(Nat) /\ Reads(bytes, f)
          /\ p2 \in 1..(Len(bytes) + 1) /\ p3 \in 1..(Len(bytes) + 1)
          /\ FieldStands(bytes, p2, n2, x2, p3)
          /\ r3 \in Seq(Field) /\ ReadsFrom(f, p3, r3)
      BY <1>2, <1>30, <1>4, <1>5, <1>8
    <2>2. ReadsFrom(f, p2, WithField(n2, x2, r3)) /\ WithField(n2, x2, r3) \in Seq(Field)
      BY <2>1, StringFieldReads
    <2> QED BY <2>2
  <1>10. PICK r1 : r1 = WithField(n1, x1, r2) /\ ReadsFrom(f, p1, r1) /\ r1 \in Seq(Field)
    <2>1. /\ bytes \in Seq(Nat) /\ Reads(bytes, f)
          /\ p1 \in 1..(Len(bytes) + 1) /\ p2 \in 1..(Len(bytes) + 1)
          /\ FieldStands(bytes, p1, n1, x1, p2)
          /\ r2 \in Seq(Field) /\ ReadsFrom(f, p2, r2)
      BY <1>2, <1>30, <1>4, <1>5, <1>9
    <2>2. ReadsFrom(f, p1, WithField(n1, x1, r2)) /\ WithField(n1, x1, r2) \in Seq(Field)
      BY <2>1, StringFieldReads
    <2> QED BY <2>2
  <1>11. Says(r4, n4, x4) /\ NoField(r4, n1) /\ NoField(r4, n2) /\ NoField(r4, n3)
    BY <1>6, <1>7, SaysMore
  <1>12. Says(r3, n4, x4) /\ Says(r3, n3, x3) /\ NoField(r3, n1) /\ NoField(r3, n2)
    BY <1>7, <1>8, <1>11, SaysMore
  <1>13. Says(r2, n4, x4) /\ Says(r2, n3, x3) /\ Says(r2, n2, x2) /\ NoField(r2, n1)
    BY <1>8, <1>9, <1>12, SaysMore
  <1>14. Says(r1, n4, x4) /\ Says(r1, n3, x3) /\ Says(r1, n2, x2) /\ Says(r1, n1, x1)
    BY <1>9, <1>10, <1>13, SaysMore
  <1>15. /\ FieldValue(r1, n1) = x1 /\ FieldValue(r1, n2) = x2
         /\ FieldValue(r1, n3) = x3 /\ FieldValue(r1, n4) = x4
    BY <1>10, <1>14, SaysValue
  <1>16. ReadFields(bytes) = {r1}
    BY <1>3, <1>5, <1>10 DEF ReadsFrom
  <1>17. /\ SaysOnly(r1, n1, x1) /\ SaysOnly(r1, n2, x2)
         /\ SaysOnly(r1, n3, x3) /\ SaysOnly(r1, n4, x4)
    <2>1. \A g, x : Says(r1, g, x) => SaysOnly(r1, g, x)
      BY <1>10, SaysOnlyThat
    <2> QED BY <1>14, <2>1
  <1> QED BY <1>2, <1>15, <1>16, <1>17 DEF TextsRead

(* Questions and groups whose texts are bytes that pass for UTF-8. *)
Utf8Text == {text \in Seq(Nat) : IsUtf8(text)}
QuestionOfTexts == [question : Utf8Text, answer : Utf8Text, group : Utf8Text, id : Utf8Text]
GroupOfTexts == [group : Utf8Text, id : Utf8Text]

(* No other texts are refused: the verification sees the four texts only.  *)
LEMMA TextsVerified ==
  ASSUME NEW y1, NEW y2, NEW y3, NEW y4,
         IsUtf8(y1), IsUtf8(y2), IsUtf8(y3), IsUtf8(y4), NEW r,
         SaysOnly(r, 1, y1), SaysOnly(r, 2, y2), SaysOnly(r, 3, y3), SaysOnly(r, 4, y4),
         NEW k \in DOMAIN r
  PROVE  r[k].field \in 1..4 => IsUtf8(r[k].bytes)
  <1>1. \A g \in 1..4 : g = 1 \/ g = 2 \/ g = 3 \/ g = 4
    OBVIOUS
  <1>2. CASE r[k].field = 1
    <2>1. r[k].bytes = y1
      BY <1>2 DEF SaysOnly
    <2> QED BY <2>1
  <1>3. CASE r[k].field = 2
    <2>1. r[k].bytes = y2
      BY <1>3 DEF SaysOnly
    <2> QED BY <2>1
  <1>4. CASE r[k].field = 3
    <2>1. r[k].bytes = y3
      BY <1>4 DEF SaysOnly
    <2> QED BY <2>1
  <1>5. CASE r[k].field = 4
    <2>1. r[k].bytes = y4
      BY <1>5 DEF SaysOnly
    <2> QED BY <2>1
  <1> QED BY <1>1, <1>2, <1>3, <1>4, <1>5

(* The same for the field numbers of xn.proto.                             *)
LEMMA TextsAreRead ==
  ASSUME NEW y1 \in Seq(Nat), NEW y2 \in Seq(Nat), NEW y3 \in Seq(Nat), NEW y4 \in Seq(Nat)
  PROVE  /\ FourTexts(1, y1, 2, y2, 3, y3, 4, y4) \in Seq(Nat)
         /\ TextsRead(FourTexts(1, y1, 2, y2, 3, y3, 4, y4), 1, y1, 2, y2, 3, y3, 4, y4)
  <1>1. PICK m1, m2, m3, m4 :
          /\ m1 = 1 /\ m2 = 2 /\ m3 = 3 /\ m4 = 4
          /\ m1 \in Nat /\ m2 \in Nat /\ m3 \in Nat /\ m4 \in Nat
          /\ m1 # m2 /\ m1 # m3 /\ m1 # m4 /\ m2 # m3 /\ m2 # m4 /\ m3 # m4
    OBVIOUS
  <1>2. PICK bytes : bytes = FourTexts(m1, y1, m2, y2, m3, y3, m4, y4)
    OBVIOUS
  <1>3. bytes \in Seq(Nat) /\ TextsRead(bytes, m1, y1, m2, y2, m3, y3, m4, y4)
    <2>1. /\ m1 \in Nat /\ m2 \in Nat /\ m3 \in Nat /\ m4 \in Nat
          /\ m1 # m2 /\ m1 # m3 /\ m1 # m4 /\ m2 # m3 /\ m2 # m4 /\ m3 # m4
      BY <1>1
    <2> QED BY <1>2, <2>1, FourFields
  <1> QED BY <1>1, <1>2, <1>3

(* A question is read as it was written, whatever UTF-8 its texts hold,    *)
LEMMA QuestionParses ==
  ASSUME NEW qa \in QuestionOfTexts
  PROVE  /\ SerializeQuestion(qa) \in Seq(Nat)
         /\ ParseQuestion(SerializeQuestion(qa)) = {qa}
  <1>1. /\ qa.question \in Seq(Nat) /\ qa.answer \in Seq(Nat)
        /\ qa.group \in Seq(Nat) /\ qa.id \in Seq(Nat)
        /\ IsUtf8(qa.question) /\ IsUtf8(qa.answer) /\ IsUtf8(qa.group) /\ IsUtf8(qa.id)
        /\ qa = [question |-> qa.question, answer |-> qa.answer,
                 group |-> qa.group, id |-> qa.id]
    BY DEF QuestionOfTexts, Utf8Text
  <1>2. PICK bytes : bytes = SerializeQuestion(qa)
    OBVIOUS
  <1>3. bytes = FourTexts(1, qa.question, 2, qa.answer, 3, qa.group, 4, qa.id)
    BY <1>2 DEF SerializeQuestion, FourTexts
  <1>4. bytes \in Seq(Nat) /\ TextsRead(bytes, 1, qa.question, 2, qa.answer, 3, qa.group, 4, qa.id)
    BY <1>1, <1>3, TextsAreRead
  <1>5. ParseQuestion(bytes) = {qa}
    <2>1. PICK r : /\ ReadFields(bytes) = {r}
                   /\ FieldValue(r, 1) = qa.question /\ FieldValue(r, 2) = qa.answer
                   /\ FieldValue(r, 3) = qa.group /\ FieldValue(r, 4) = qa.id
                   /\ SaysOnly(r, 1, qa.question) /\ SaysOnly(r, 2, qa.answer)
                   /\ SaysOnly(r, 3, qa.group) /\ SaysOnly(r, 4, qa.id)
      BY <1>4 DEF TextsRead
    <2>2. \A k \in DOMAIN r : r[k].field \in 1..4 => IsUtf8(r[k].bytes)
      BY <1>1, <2>1, TextsVerified
    <2>3. ReadStrings(bytes, 1..4) = {r}
      BY <2>1, <2>2 DEF ReadStrings
    <2> QED BY <1>1, <2>1, <2>3 DEF ParseQuestion
  <1> QED BY <1>2, <1>4, <1>5

(* and so is a group, whose path is never written.                         *)
LEMMA GroupParses ==
  ASSUME NEW qag \in GroupOfTexts
  PROVE  /\ SerializeGroup(qag) \in Seq(Nat)
         /\ ParseGroup(SerializeGroup(qag)) = {qag}
  <1>1. /\ qag.group \in Seq(Nat) /\ qag.id \in Seq(Nat)
        /\ IsUtf8(qag.group) /\ IsUtf8(qag.id)
        /\ qag = [group |-> qag.group, id |-> qag.id]
    BY DEF GroupOfTexts, Utf8Text
  <1>2. PICK e, A, B, bytes :
          /\ e = <<>> /\ e \in Seq(Nat)
          /\ A = StringField(1, qag.group) /\ B = StringField(3, qag.id)
          /\ A \in Seq(Nat) /\ B \in Seq(Nat)
          /\ bytes = A \o B /\ bytes \in Seq(Nat)
    <2>1. StringField(1, qag.group) \in Seq(Nat) /\ StringField(3, qag.id) \in Seq(Nat)
      BY <1>1, StringFieldType
    <2>2. \A a, b \in Seq(Nat) : a \o b \in Seq(Nat)
      BY ConcatProperties
    <2> QED BY <2>1, <2>2, EmptySeq
  <1>3. bytes = FourTexts(1, qag.group, 2, e, 3, qag.id, 4, e)
    <2>1. StringField(2, e) = e /\ StringField(4, e) = e
      BY <1>2 DEF StringField
    <2>2. A \o e = A /\ bytes \o e = bytes
      BY <1>2, ConcatEmptySeq
    <2>3. A \o e \o B \o e = bytes
      BY <1>2, <2>2
    <2> QED BY <1>2, <2>1, <2>3 DEF FourTexts
  <1>4. TextsRead(bytes, 1, qag.group, 2, e, 3, qag.id, 4, e)
    <2>1. e \in Seq(Nat) /\ qag.group \in Seq(Nat) /\ qag.id \in Seq(Nat)
      BY <1>1, <1>2
    <2> QED BY <1>3, <2>1, TextsAreRead
  <1>5. ParseGroup(bytes) = {qag}
    <2>1. PICK r : /\ ReadFields(bytes) = {r}
                   /\ FieldValue(r, 1) = qag.group /\ FieldValue(r, 3) = qag.id
                   /\ SaysOnly(r, 1, qag.group) /\ SaysOnly(r, 2, e)
                   /\ SaysOnly(r, 3, qag.id) /\ SaysOnly(r, 4, e)
      BY <1>4 DEF TextsRead
    <2>2. IsUtf8(e)
      BY <1>2, Utf8Assumption
    <2>3. \A k \in DOMAIN r : r[k].field \in 1..4 => IsUtf8(r[k].bytes)
      BY <1>1, <2>1, <2>2, TextsVerified
    <2>4. \A k \in DOMAIN r : r[k].field \in 1..3 => IsUtf8(r[k].bytes)
      <3>1. \A g \in 1..3 : g \in 1..4
        OBVIOUS
      <3> QED BY <2>3, <3>1
    <2>5. ReadStrings(bytes, 1..3) = {r}
      BY <2>1, <2>4 DEF ReadStrings
    <2> QED BY <1>1, <2>1, <2>5 DEF ParseGroup
  <1> QED BY <1>2, <1>5 DEF SerializeGroup

(***************************************************************************)
(* The items of a store and its file.                                      *)
(***************************************************************************)

(* The ids are texts without NUL, and all texts are such bytes. *)
LEMMA TextsAreTexts ==
  Ids \cup Groups \cup Questions \cup Answers \subseteq Utf8Text
  <1>0. SUFFICES ASSUME NEW i \in Ids PROVE i \in Seq(Nat)
    BY TextsAssumption, Utf8TextsAssumption DEF Utf8Text
  <1>1. i \in Seq(Char)
    BY IdsAssumption
  <1>2. Len(i) \in Nat /\ \A k \in 1..Len(i) : i[k] \in Nat
    BY <1>1 DEF Char
  <1>3. i = [k \in 1..Len(i) |-> i[k]]
    BY <1>1
  <1> QED BY <1>2, <1>3, IsASeq

(* What the store writes of an item, and reads of the bytes of one. *)
ParseItem(b) == IF flag THEN ParseQuestion(b) ELSE ParseGroup(b)

(* An item of either kind is read as it was written.                       *)
LEMMA ItemParses ==
  ASSUME flag \in BOOLEAN, NEW item \in Item
  PROVE  SerializeItem(item) \in Seq(Nat) /\ ParseItem(SerializeItem(item)) = {item}
  <1>1. CASE flag
    <2>1. item \in [id : Ids, group : Groups, question : Questions, answer : Answers]
      BY <1>1 DEF Item, QuestionItem
    <2>2. item \in QuestionOfTexts /\ "question" \in DOMAIN item
      BY <2>1, TextsAreTexts DEF QuestionOfTexts
    <2> QED BY <1>1, <2>2, QuestionParses DEF SerializeItem, ParseItem
  <1>2. CASE ~flag
    <2>1. item \in [id : Ids, group : Groups]
      BY <1>2 DEF Item, GroupItem
    <2>2. item \in GroupOfTexts /\ "question" \notin DOMAIN item
      BY <2>1, TextsAreTexts DEF GroupOfTexts
    <2> QED BY <1>2, <2>2, GroupParses DEF SerializeItem, ParseItem
  <1> QED BY <1>1, <1>2

(* The items as the fields of the list's message. *)
FieldsOf(items) == [k \in 1..Len(items) |-> [field |-> 1, bytes |-> SerializeItem(items[k])]]

(* They are fields.                                                        *)
LEMMA FieldsOfType ==
  ASSUME flag \in BOOLEAN, NEW items \in Seq(Item)
  PROVE  /\ FieldsOf(items) \in Seq(Field)
         /\ Len(FieldsOf(items)) = Len(items)
         /\ \A k \in 1..Len(items) :
              FieldsOf(items)[k] = [field |-> 1, bytes |-> SerializeItem(items[k])]
  <1>1. Len(items) \in Nat
    BY LenProperties
  <1>2. \A k \in 1..Len(items) : [field |-> 1, bytes |-> SerializeItem(items[k])] \in Field
    <2> SUFFICES ASSUME NEW k \in 1..Len(items)
                 PROVE  [field |-> 1, bytes |-> SerializeItem(items[k])] \in Field
      OBVIOUS
    <2>1. items[k] \in Item
      BY ElementOfSeq
    <2> QED BY <2>1, ItemParses DEF Field
  <1>3. FieldsOf(items) \in Seq(Field)
    BY <1>1, <1>2, IsASeq DEF FieldsOf
  <1>4. DOMAIN FieldsOf(items) = 1..Len(items)
    BY DEF FieldsOf
  <1>5. Len(FieldsOf(items)) = Len(items)
    BY <1>1, <1>3, <1>4, LenProperties
  <1> QED BY <1>3, <1>5 DEF FieldsOf

(* SerializeList writes them one after the other.                          *)
LEMMA ListBytes ==
  ASSUME flag \in BOOLEAN, NEW items \in Seq(Item)
  PROVE  \E up : Upto(up, FieldsOf(items)) /\ SerializeList(items) = up[Len(items)]
  <1> DEFINE N == Len(items)
             fs == FieldsOf(items)
             UpStep(n, u) == IF n = 0 THEN <<>>
                           ELSE u[n - 1] \o Delimited(1, SerializeItem(items[n]))
             S == {m \in Nat : \E u : u = [n \in 0..m |-> UpStep(n, u)]}
             W == CHOOSE u : u = [n \in 0..N |-> UpStep(n, u)]
  <1>1. N \in Nat
    BY LenProperties
  <1>2. 0 \in S
    <2> DEFINE u == [n \in 0..0 |-> <<>>]
    <2>1. u = [n \in 0..0 |-> UpStep(n, u)]
      <3>1. \A n \in 0..0 : UpStep(n, u) = <<>>
        OBVIOUS
      <3> QED BY <3>1
    <2> QED BY <2>1
  <1>3. ASSUME NEW m \in Nat, m \in S PROVE m + 1 \in S
    <2>1. PICK u : u = [n \in 0..m |-> UpStep(n, u)]
      BY <1>3
    <2> DEFINE v == [n \in 0..(m + 1) |-> UpStep(n, u)]
    <2>2. \A n \in 0..m : v[n] = u[n]
      <3> SUFFICES ASSUME NEW n \in 0..m PROVE v[n] = u[n]
        OBVIOUS
      <3>1. u[n] = UpStep(n, u)
        <4> HIDE DEF UpStep
        <4> QED BY <2>1
      <3>2. n \in 0..(m + 1)
        OBVIOUS
      <3> HIDE DEF UpStep
      <3> QED BY <3>1, <3>2
    <2>3. v = [n \in 0..(m + 1) |-> UpStep(n, u)]
      OBVIOUS
    <2> HIDE DEF v
    <2>4. ASSUME NEW n \in 0..(m + 1) PROVE UpStep(n, u) = UpStep(n, v)
      <3>1. n # 0 => n - 1 \in 0..m
        OBVIOUS
      <3> QED BY <2>2, <3>1
    <2>5. v = [n \in 0..(m + 1) |-> UpStep(n, v)]
      <3> HIDE DEF UpStep
      <3> QED BY <2>3, <2>4
    <2>6. \E h : h = [n \in 0..(m + 1) |-> UpStep(n, h)]
      <3> HIDE DEF UpStep
      <3> QED BY <2>5
    <2> HIDE DEF UpStep
    <2> QED BY <2>6
  <1>4. N \in S
    <2> HIDE DEF S
    <2> QED BY <1>1, <1>2, <1>3, NatSets
  <1>5. \E u : u = [n \in 0..N |-> UpStep(n, u)]
    <2> HIDE DEF UpStep
    <2> QED BY <1>4
  <1>6. SerializeList(items) = W[N]
    BY DEF SerializeList
  <1>7. W = [n \in 0..N |-> UpStep(n, W)]
    <2> HIDE DEF UpStep
    <2> QED BY <1>5
  <1> HIDE DEF W
  <1>8. W[0] = <<>> /\ \A n \in 1..N : W[n] = W[n - 1] \o Bytes(fs[n])
    <2>1. \A n \in 0..N : W[n] = UpStep(n, W)
      <3> HIDE DEF UpStep
      <3> QED BY <1>7
    <2>2. 0 \in 0..N /\ \A n \in 1..N : n \in 0..N /\ n # 0
      BY <1>1
    <2>3. \A n \in 1..N : Bytes(fs[n]) = Delimited(1, SerializeItem(items[n]))
      <3> SUFFICES ASSUME NEW n \in 1..N
                   PROVE  Bytes(fs[n]) = Delimited(1, SerializeItem(items[n]))
        OBVIOUS
      <3>1. fs[n] = [field |-> 1, bytes |-> SerializeItem(items[n])]
        BY FieldsOfType
      <3> HIDE DEF fs
      <3> QED BY <3>1 DEF Bytes
    <2> QED BY <2>1, <2>2, <2>3
  <1>9. Upto(W, fs)
    BY <1>8, FieldsOfType DEF Upto
  <1> QED BY <1>6, <1>9

(* The fields of the first j items parse as those items,                   *)
LEMMA CutParses ==
  ASSUME flag \in BOOLEAN, NEW items \in Seq(Item), NEW j \in 0..Len(items),
         NEW b, ReadFields(b) = {SubSeq(FieldsOf(items), 1, j)}
  PROVE  ParseList(b, flag) = {SubSeq(items, 1, j)}
  <1> DEFINE fs == FieldsOf(items)
             f == SubSeq(fs, 1, j)
             it == SubSeq(items, 1, j)
             All(g) == \A k \in DOMAIN g : ParseItem(g[k].bytes) # {}
             ItemsOf(g) == [k \in DOMAIN g |-> CHOOSE item \in ParseItem(g[k].bytes) : TRUE]
  <1>0. Len(items) \in Nat /\ j \in Nat
    BY LenProperties
  <1>1. fs \in Seq(Field) /\ Len(fs) = Len(items)
        /\ \A k \in 1..Len(items) : fs[k] = [field |-> 1, bytes |-> SerializeItem(items[k])]
    BY FieldsOfType
  <1> HIDE DEF fs
  <1>2. \A k \in 1..j : k \in 1..Len(items) /\ items[k] \in Item /\ fs[k] \in Field
    <2>1. \A k \in 1..j : k \in 1..Len(items)
      BY <1>0
    <2> QED BY <1>1, <2>1, ElementOfSeq
  <1>3. f \in Seq(Field) /\ DOMAIN f = 1..j /\ \A k \in 1..j : f[k] = fs[k]
    BY <1>0, <1>1, <1>2, SubSeqProperties
  <1>4. it \in Seq(Item) /\ DOMAIN it = 1..j /\ Len(it) = j /\ \A k \in 1..j : it[k] = items[k]
    BY <1>0, <1>2, SubSeqProperties
  <1>5. \A k \in 1..j : ParseItem(f[k].bytes) = {it[k]}
    <2> SUFFICES ASSUME NEW k \in 1..j PROVE ParseItem(f[k].bytes) = {it[k]}
      OBVIOUS
    <2>1. items[k] \in Item /\ f[k].bytes = SerializeItem(items[k]) /\ it[k] = items[k]
      <3>1. f[k] = [field |-> 1, bytes |-> SerializeItem(items[k])]
        BY <1>1, <1>2, <1>3
      <3>2. f[k].bytes = SerializeItem(items[k])
        BY <3>1
      <3> QED BY <1>2, <1>4, <3>2
    <2> QED BY <2>1, ItemParses
  <1> HIDE DEF f, it
  <1>6. All(f)
    BY <1>3, <1>5
  <1>7. ItemsOf(f) = it
    <2>1. \A k \in 1..j : (CHOOSE item \in ParseItem(f[k].bytes) : TRUE) = it[k]
      <3> SUFFICES ASSUME NEW k \in 1..j
                   PROVE  (CHOOSE item \in ParseItem(f[k].bytes) : TRUE) = it[k]
        OBVIOUS
      <3>1. ParseItem(f[k].bytes) = {it[k]}
        BY <1>5
      <3> QED BY <3>1
    <2>2. it = [k \in 1..j |-> it[k]]
      BY <1>4
    <2> QED BY <1>3, <2>1, <2>2
  <1>8. ParseList(b, flag) = {ItemsOf(g) : g \in {h \in ReadFields(b) : All(h)}}
    BY DEF ParseList, ParseItem
  <1>9. {h \in ReadFields(b) : All(h)} = {f}
    <2> HIDE DEF All
    <2>1. ReadFields(b) = {f}
      BY DEF f, fs
    <2> QED BY <1>6, <2>1
  <1> HIDE DEF All, ItemsOf
  <1> QED BY <1>7, <1>8, <1>9 DEF it

(* and bytes that end within a field do not parse.                         *)
LEMMA BrokenDoesNotParse ==
  ASSUME NEW b, ReadFields(b) = {}
  PROVE  ParseList(b, flag) = {}
  BY DEF ParseList

(* What open() finds in the first n bytes of a file: the first j items when *)
(* they end there, and otherwise nothing it accepts.                       *)
LEMMA CutIsReadBack ==
  ASSUME flag \in BOOLEAN, NEW items \in Seq(Item),
         NEW up, Upto(up, FieldsOf(items)), NEW n \in 0..Len(up[Len(items)])
  PROVE  /\ \A j \in 0..Len(items) :
              Len(up[j]) = n
                => ReadBack(SubSeq(up[Len(items)], 1, n)) = Stored(SubSeq(items, 1, j))
         /\ (\A j \in 0..Len(items) : Len(up[j]) # n)
              => ReadBack(SubSeq(up[Len(items)], 1, n)) = Corrupt
  <1>1. PICK fs : fs = FieldsOf(items) /\ fs \in Seq(Field) /\ Len(fs) = Len(items) /\ Upto(up, fs)
    BY FieldsOfType
  <1>2. PICK b : b = SubSeq(up[Len(fs)], 1, n)
    OBVIOUS
  <1>3. n \in 0..Len(up[Len(fs)])
    BY <1>1
  <1>4. ReadsCut(b, up, fs, n)
    <2>1. fs \in Seq(Field) /\ Upto(up, fs)
      BY <1>1
    <2> QED BY <1>2, <1>3, <2>1, CutReads
  <1>5. b = SubSeq(up[Len(items)], 1, n)
    BY <1>1, <1>2
  <1>6. ASSUME NEW j \in 0..Len(items), Len(up[j]) = n
        PROVE  ReadBack(b) = Stored(SubSeq(items, 1, j))
    <2>1. ReadFields(b) = {SubSeq(FieldsOf(items), 1, j)}
      BY <1>1, <1>4, <1>6 DEF ReadsCut
    <2>2. ParseList(b, flag) = {SubSeq(items, 1, j)}
      BY <2>1, CutParses
    <2> QED BY <2>2 DEF ReadBack
  <1>7. ASSUME \A j \in 0..Len(items) : Len(up[j]) # n
        PROVE  ReadBack(b) = Corrupt
    <2>1. ReadFields(b) = {}
      BY <1>1, <1>4, <1>7 DEF ReadsCut
    <2> QED BY <2>1, BrokenDoesNotParse DEF ReadBack
  <1> QED BY <1>5, <1>6, <1>7

(* All of it for one list: the whole file reads back as the list, a cut one *)
(* as its first items or as corrupt, and each of these does occur.         *)
LEMMA TornFile ==
  ASSUME flag \in BOOLEAN, NEW items \in Seq(Item)
  PROVE  /\ ReadBack(SerializeList(items)) = Stored(items)
         /\ {ReadBack(bytes) : bytes \in Written(items)}
              = {Stored(SubSeq(items, 1, n)) : n \in 0..Len(items)}
                  \cup (IF items = <<>> THEN {} ELSE {Corrupt})
  <1> DEFINE N == Len(items)
             fs == FieldsOf(items)
             B == SerializeList(items)
             Back(n) == ReadBack(SubSeq(B, 1, n))
             Cuts == {Stored(SubSeq(items, 1, j)) : j \in 0..N}
  <1>0. N \in Nat
    BY LenProperties
  <1>1. fs \in Seq(Field) /\ Len(fs) = N
    BY FieldsOfType
  <1>2. PICK up : Upto(up, fs) /\ B = up[N]
    BY ListBytes
  <1>3. \A j \in 0..N :
          /\ up[j] \in Seq(Nat)
          /\ Len(up[j]) \in Nat /\ Len(up[0]) \in Nat
          /\ \A k \in 0..j : Len(up[k]) \in Nat /\ Len(up[k]) <= Len(up[j])
    <2> SUFFICES ASSUME NEW j \in 0..N
                 PROVE  /\ up[j] \in Seq(Nat)
                        /\ Len(up[j]) \in Nat /\ Len(up[0]) \in Nat
                        /\ \A k \in 0..j : Len(up[k]) \in Nat /\ Len(up[k]) <= Len(up[j])
      OBVIOUS
    <2>1. j \in 0..j /\ 0 \in 0..j
      BY <1>0
    <2>2. /\ up[j] \in Seq(Nat)
          /\ \A k \in 0..j : Len(up[k]) \in Nat /\ Len(up[k]) <= Len(up[j])
      BY <1>1, <1>2, UptoShape
    <2> QED BY <2>1, <2>2
  <1>4. up[0] = <<>> /\ Len(up[0]) = 0
    BY <1>2, EmptySeq DEF Upto
  <1>5. B \in Seq(Nat) /\ Len(B) \in Nat /\ N \in 0..N
    BY <1>0, <1>2, <1>3
  <1>6. ASSUME NEW n \in 0..Len(B)
        PROVE  /\ \A j \in 0..N : Len(up[j]) = n => Back(n) = Stored(SubSeq(items, 1, j))
               /\ (\A j \in 0..N : Len(up[j]) # n) => Back(n) = Corrupt
    <2>1. n \in 0..Len(up[N])
      BY <1>2
    <2>2. /\ \A j \in 0..N :
              Len(up[j]) = n => ReadBack(SubSeq(up[N], 1, n)) = Stored(SubSeq(items, 1, j))
          /\ (\A j \in 0..N : Len(up[j]) # n) => ReadBack(SubSeq(up[N], 1, n)) = Corrupt
      BY <1>2, <2>1, CutIsReadBack
    <2> QED BY <1>2, <2>2
  <1>7. ReadBack(B) = Stored(items)
    <2>1. Back(Len(B)) = Stored(SubSeq(items, 1, N))
      BY <1>2, <1>5, <1>6
    <2>2. SubSeq(B, 1, Len(B)) = B /\ SubSeq(items, 1, N) = items
      BY <1>5, SubSeqFull
    <2> QED BY <2>1, <2>2
  <1>8. {ReadBack(bytes) : bytes \in Written(items)} = {Back(n) : n \in 0..Len(B)}
    BY DEF Written
  <1> HIDE DEF Back, B, fs
  <1>9. ASSUME NEW n \in 0..Len(B)
        PROVE  Back(n) \in Cuts \cup (IF items = <<>> THEN {} ELSE {Corrupt})
    <2>1. CASE \E j \in 0..N : Len(up[j]) = n
      BY <1>6, <2>1
    <2>2. CASE \A j \in 0..N : Len(up[j]) # n
      <3>1. Back(n) = Corrupt
        BY <1>6, <2>2
      <3>2. items # <<>>
        <4> SUFFICES ASSUME N = 0 PROVE FALSE
          BY EmptySeq
        <4>1. n = 0
          BY <1>2, <1>4
        <4> QED BY <1>0, <1>4, <2>2, <4>1
      <3> QED BY <3>1, <3>2
    <2> QED BY <2>1, <2>2
  <1>10. Cuts \subseteq {Back(n) : n \in 0..Len(B)}
    <2> SUFFICES ASSUME NEW j \in 0..N
                 PROVE  \E n \in 0..Len(B) : Back(n) = Stored(SubSeq(items, 1, j))
      OBVIOUS
    <2>1. Len(up[j]) \in 0..Len(B)
      BY <1>2, <1>3, <1>5
    <2> QED BY <1>6, <2>1
  <1>11. ASSUME items # <<>>
         PROVE  \E n \in 0..Len(B) : Back(n) = Corrupt
    <2>1. N > 0
      BY <1>0, <1>11, EmptySeq
    <2>2. 1 \in 1..N /\ 1 \in 0..N
      BY <1>0, <2>1
    <2>3. Bytes(fs[1]) \in Seq(Nat) /\ Len(Bytes(fs[1])) > 1
      <3>1. fs[1] \in Field
        BY <1>1, <2>2, ElementOfSeq
      <3> QED BY <3>1, BytesShape
    <2>4. Len(up[1]) > 1
      <3>1. up[1] = up[0] \o Bytes(fs[1])
        <4>1. \A k \in 1..Len(fs) : up[k] = up[k - 1] \o Bytes(fs[k])
          BY <1>2 DEF Upto
        <4>2. up[1] = up[1 - 1] \o Bytes(fs[1])
          BY <1>1, <2>2, <4>1
        <4> QED BY <4>2
      <3>2. up[1] = Bytes(fs[1])
        BY <1>4, <2>3, <3>1, ConcatEmptySeq
      <3> QED BY <2>3, <3>2
    <2>5. \A j \in 0..N : Len(up[j]) # 1
      <3> SUFFICES ASSUME NEW j \in 0..N, j # 0 PROVE Len(up[j]) # 1
        <4>1. Len(up[0]) # 1
          BY <1>4
        <4> QED BY <4>1
      <3>1. 1 \in 0..j
        BY <1>0
      <3>2. Len(up[1]) \in Nat /\ Len(up[1]) <= Len(up[j]) /\ Len(up[j]) \in Nat
        BY <1>3, <3>1
      <3>3. \A x, y \in Nat : x > 1 /\ x <= y => y # 1
        OBVIOUS
      <3> QED BY <2>4, <3>2, <3>3
    <2>6. 1 \in 0..Len(B)
      <3>1. Len(up[1]) \in Nat /\ Len(up[1]) <= Len(up[N])
        BY <1>3, <1>5, <2>2
      <3> QED BY <1>2, <1>5, <2>4, <3>1
    <2> QED BY <1>6, <2>5, <2>6
  <1>12. {Back(n) : n \in 0..Len(B)} = Cuts \cup (IF items = <<>> THEN {} ELSE {Corrupt})
    <2> HIDE DEF Cuts
    <2> QED BY <1>9, <1>10, <1>11
  <1> QED BY <1>7, <1>8, <1>12 DEF B

(* Whatever a store holds, the file close() makes of it reads back as the  *)
(* same list, and one cut off by a crash in close() as its first items or  *)
(* not at all: for every number of items, for texts of any length whose    *)
(* bytes the runtime takes for UTF-8, whatever it takes, and for every     *)
(* base of the varints.                                                    *)
THEOREM TornFilesAreRead == Spec => []TornFilesRead
  <1>1. TypeOK => TornFilesRead
    BY TornFile DEF TypeOK, TornFilesRead
  <1> QED BY <1>1, TypeCorrect, PTL
=============================================================================
