---------------------------- MODULE FormatString ----------------------------
(***************************************************************************)
(* notebook_format_string (src/src/notebook_utils.cpp), which writes every *)
(* error text that err() hands out.  A text is a sequence of characters,   *)
(* the expanded format here; 0 is the terminating NUL.                     *)
(***************************************************************************)
EXTENDS Naturals, Sequences

CONSTANT XPLAYER_BUFF_MAX_LEN   \* the buffer on the stack, 256 in the program

Char == Nat \ {0}

ASSUME BuffAssumption == XPLAYER_BUFF_MAX_LEN \in Nat \ {0}

(* A zeroed buffer of n characters after vsnprintf(buff, size, text):      *)
(* size - 1 characters at most, and a NUL.                                 *)
Vsnprintf(n, size, text) ==
  [k \in 1..n |-> IF k < size /\ k <= Len(text) THEN text[k] ELSE 0]

(* std::string::assign(buff, n). *)
Assign(buff, n) == SubSeq(buff, 1, n)

(* Mutant: the text in the buffer of the first attempt is taken, with the  *)
(* length of the whole.                                                    *)
FormatStringFirst(text, allocated) ==
  Assign(Vsnprintf(Len(text) + 1, XPLAYER_BUFF_MAX_LEN, text), Len(text))

(* The second vsnprintf is given the length without the NUL's place;       *)
(* without memory for it the buffer goes out whole, NUL included.          *)
FormatString(text, allocated) ==
  LET bytes == Len(text)
      buff == Vsnprintf(XPLAYER_BUFF_MAX_LEN, XPLAYER_BUFF_MAX_LEN, text)
      cache == Vsnprintf(bytes + 1, bytes, text)
  IN IF bytes < XPLAYER_BUFF_MAX_LEN THEN Assign(buff, bytes)
     ELSE IF ~allocated THEN Assign(buff, XPLAYER_BUFF_MAX_LEN)
     ELSE Assign(cache, bytes)

(* err() is a C string: text is what it shows of msg, all up to a NUL.     *)
Shows(msg, text) ==
  /\ Len(text) <= Len(msg)
  /\ SubSeq(msg, 1, Len(text)) = text
  /\ Len(text) < Len(msg) => msg[Len(text) + 1] = 0
  /\ \A k \in 1..Len(text) : text[k] # 0

-----------------------------------------------------------------------------
(* An error text shorter than the buffer comes out whole.  A longer one,   *)
(* which a long path makes easily, is shown without its last character,    *)
(* because notebook_format_string passes its second vsnprintf a size that  *)
(* is one too small, or as what fits the buffer when there is no memory:   *)
(* in no case with a character it does not have, nor one shorter.          *)
ErrorTextShown(text, allocated) ==
  Shows(FormatString(text, allocated),
        IF Len(text) < XPLAYER_BUFF_MAX_LEN THEN text
        ELSE IF allocated THEN SubSeq(text, 1, Len(text) - 1)
        ELSE SubSeq(text, 1, XPLAYER_BUFF_MAX_LEN - 1))
=============================================================================
