----------------------------- MODULE WireFormat -----------------------------
(***************************************************************************)
(* The bytes of a question file and of ids.dat: the messages of            *)
(* src/proto/xn.proto as the generated src/src/xn.pb.cc writes them and    *)
(* the protobuf runtime reads them back with the generated tables.         *)
(*                                                                         *)
(* A text is a sequence of bytes.  Every field of these messages has wire  *)
(* type LEN: a tag, a length, and that many bytes.  A tag (8 * field + 2)  *)
(* is below 128 and takes one byte, for which the field's number stands;   *)
(* a length is a varint in base VarintBase, 128 in the program.            *)
(***************************************************************************)
EXTENDS Naturals, Sequences

CONSTANTS
  VarintBase,
  IsUtf8(_)  \* the runtime's strict verification of a string

ASSUME VarintBaseAssumption == VarintBase \in Nat \ {0, 1}
ASSUME Utf8Assumption == IsUtf8(<<>>)

-----------------------------------------------------------------------------
(* Writing. *)

(* Least significant digit first; all bytes but the last one carry the     *)
(* continuation bit.                                                       *)
Varint[n \in Nat] ==
  IF n < VarintBase THEN <<n>>
  ELSE <<VarintBase + (n % VarintBase)>> \o Varint[n \div VarintBase]

(* A tag, a length and the bytes. *)
Delimited(field, bytes) == <<field>> \o Varint[Len(bytes)] \o bytes

(* An empty string is not written.  Any other one is: that it is not UTF-8 *)
(* is logged and does not stop the writer.                                 *)
StringField(field, text) ==
  IF text = <<>> THEN <<>> ELSE Delimited(field, text)

SerializeQuestion(qa) ==
  StringField(1, qa.question) \o StringField(2, qa.answer)
    \o StringField(3, qa.group) \o StringField(4, qa.id)

(* Field 2, the path, is never set. *)
SerializeGroup(qag) == StringField(1, qag.group) \o StringField(3, qag.id)

SerializeItem(item) ==
  IF "question" \in DOMAIN item THEN SerializeQuestion(item)
  ELSE SerializeGroup(item)

(* QuestionAnswerList and QuestionAnswerGroupList. *)
SerializeList(items) ==
  LET upTo[n \in 0..Len(items)] ==
        IF n = 0 THEN <<>>
        ELSE upTo[n - 1] \o Delimited(1, SerializeItem(items[n]))
  IN upTo[Len(items)]

-----------------------------------------------------------------------------
(* Reading.  A result is a set: {} for a failure, else a singleton. *)

(* The number whose digits are the bytes from p to e. *)
VarintValue(bytes, p, e) ==
  LET value[k \in p..e] ==
        IF k = e THEN bytes[k]
        ELSE bytes[k] - VarintBase + VarintBase * value[k + 1]
  IN value[p]

(* The varint at p, with the place after it. *)
ReadVarint(bytes, p) ==
  LET ends == {e \in p..Len(bytes) :
                 /\ bytes[e] < VarintBase
                 /\ \A d \in p..(e - 1) : bytes[d] >= VarintBase}
  IN {[value |-> VarintValue(bytes, p, e), next |-> e + 1] : e \in ends}

(* The field at p with this size, if all of it is there, before those that *)
(* rest reads after it.                                                    *)
FieldOf(bytes, p, size, rest) ==
  LET next == size.next + size.value
  IN IF next \notin (p + 1)..(Len(bytes) + 1) THEN {}
     ELSE {<<[field |-> bytes[p],
              bytes |-> SubSeq(bytes, size.next, next - 1)]>> \o others :
             others \in rest[next]}

FieldsAt(bytes, p, rest) ==
  UNION {FieldOf(bytes, p, size, rest) : size \in ReadVarint(bytes, p + 1)}

(* The fields one after the other; the input may only end between two.     *)
ReadFields(bytes) ==
  LET from[p \in 1..(Len(bytes) + 1)] ==
        IF p > Len(bytes) THEN {<<>>} ELSE FieldsAt(bytes, p, from)
  IN from[1]

(* The last occurrence of a field counts; one that is missing is empty.    *)
FieldValue(fields, field) ==
  LET at == {k \in DOMAIN fields : fields[k].field = field}
  IN IF at = {} THEN <<>>
     ELSE fields[CHOOSE k \in at : \A j \in at : j <= k].bytes

(* The fields of a message whose strings have these numbers: one that is   *)
(* not UTF-8 fails the parse, even if a later one replaces it.             *)
ReadStrings(bytes, numbers) ==
  {fs \in ReadFields(bytes) :
     \A k \in DOMAIN fs : fs[k].field \in numbers => IsUtf8(fs[k].bytes)}

ParseQuestion(bytes) ==
  {[question |-> FieldValue(fs, 1), answer |-> FieldValue(fs, 2),
    group |-> FieldValue(fs, 3), id |-> FieldValue(fs, 4)] :
     fs \in ReadStrings(bytes, 1..4)}

ParseGroup(bytes) ==
  {[group |-> FieldValue(fs, 1), id |-> FieldValue(fs, 3)] :
     fs \in ReadStrings(bytes, 1..3)}

(* ParseFromIstream on a list of questions or of groups. *)
ParseList(bytes, ofQuestions) ==
  LET Parse(b) == IF ofQuestions THEN ParseQuestion(b) ELSE ParseGroup(b)
  IN {[k \in DOMAIN fs |-> CHOOSE item \in Parse(fs[k].bytes) : TRUE] :
        fs \in {f \in ReadFields(bytes) :
                  \A k \in DOMAIN f : Parse(f[k].bytes) # {}}}
=============================================================================
