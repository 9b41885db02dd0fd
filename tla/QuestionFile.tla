---------------------------- MODULE QuestionFile ----------------------------
(***************************************************************************)
(* The object of QuestionStore with its texts: the bytes it reads and      *)
(* writes, that is, what open() makes of a file, whole or cut off          *)
(* anywhere, that close() wrote; and what err() shows of a refused call.   *)
(***************************************************************************)
EXTENDS QuestionStore, WireFormat, FormatString

CONSTANT Formats    \* of error texts: what stands before and after the id

ASSUME IdsAssumption == Ids \subseteq Seq(Char)
ASSUME TextsAssumption ==
  Groups \cup Questions \cup Answers \subseteq Seq(Nat)

(* The window hands over what QString::toUtf8 makes of a text (getString), *)
(* init() what u8string makes of a directory's name, and an id is a uuid.  *)
ASSUME Utf8TextsAssumption ==
  \A text \in Ids \cup Groups \cup Questions \cup Answers : IsUtf8(text)

ASSUME FormatsAssumption ==
  Formats \subseteq [before : Seq(Char), after : Seq(Char)]

(* Mutant: open() does not look at the result of the parse, which leaves   *)
(* the items read before the failure in the list.                          *)
ReadBackPartial(bytes) ==
  LET whole(k) == ParseList(SubSeq(bytes, 1, k), flag)
      k == CHOOSE k \in 0..Len(bytes) :
             /\ whole(k) # {}
             /\ \A j \in (k + 1)..Len(bytes) : whole(j) = {}
  IN Stored(CHOOSE items \in whole(k) : TRUE)

(* What open() finds in a file of these bytes. *)
ReadBack(bytes) ==
  LET parsed == ParseList(bytes, flag)
  IN IF parsed = {} THEN Corrupt ELSE Stored(CHOOSE items \in parsed : TRUE)

(* The bytes SerializeToOstream got out before the process died. *)
Written(l) ==
  LET bytes == SerializeList(l)
  IN {SubSeq(bytes, 1, n) : n \in 0..Len(bytes)}

(* "... id '%s' ..." with the id of the call. *)
ErrorText(format, id) == format.before \o id \o format.after

-----------------------------------------------------------------------------
(* Every file close() wrote reads back as the list it was written from,    *)
(* and a file it was cut off in reads back as the first items of the list  *)
(* or does not parse, exactly the outcomes of CrashInClose: never as an    *)
(* item that was not there, with a field missing or with another item's    *)
(* text.  Nothing but the tags and lengths of xn.pb.cc marks the ends of   *)
(* the items, and their texts may be any UTF-8, with bytes that look like  *)
(* tags and lengths among them.  (One text that is not UTF-8 would be      *)
(* written and then make the whole file unreadable.)                       *)
TornFilesRead ==
  opened =>
    /\ ReadBack(SerializeList(lst)) = Stored(lst)
    /\ {ReadBack(bytes) : bytes \in Written(lst)}
         = {Stored(SubSeq(lst, 1, n)) : n \in 0..Len(lst)}
             \cup (IF lst = <<>> THEN {} ELSE {Corrupt})

(* A call refused for its id leaves a text that err() shows with that id,  *)
(* whole or cut off as notebook_format_string does at and beyond the size  *)
(* of its buffer: never the text of a first attempt that was too short,    *)
(* nor anything that follows it in memory.                                 *)
ErrorTextsShown ==
  opened /\ ~ret.ok =>
    \A id \in ret.of, format \in Formats, allocated \in BOOLEAN :
      ErrorTextShown(ErrorText(format, id), allocated)
=============================================================================
