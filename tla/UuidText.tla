------------------------------ MODULE UuidText ------------------------------
(***************************************************************************)
(* UUID (include/server/uuid.h, source/server/uuid.cpp): the constructor   *)
(* that reads a text, character by character, and string(), which writes   *)
(* one, byte by byte.  A text is the sequence of the characters so far.    *)
(***************************************************************************)
EXTENDS Integers, Sequences, FiniteSets

CONSTANTS
  Bytes,     \* size of _data: 16
  Dashes,    \* string() writes '-' after this many bytes: 4, 6, 8 and 10
  Hex,       \* Hex[c]: the value of the character c, for the digits and letters of unhex
  Invalid,   \* characters that unhex refuses
  MaxText    \* bound on the length of a text

ASSUME UuidAssumption ==
  /\ Bytes \in Nat \ {0}
  /\ Dashes \subseteq 1..Bytes
  /\ \A c \in DOMAIN Hex : Hex[c] \in 0..15
  /\ \E c \in DOMAIN Hex : Hex[c] = 0
  /\ DOMAIN Hex \cap {"-", "{", "}"} = {}
  /\ MaxText \in Nat

VARIABLES
  text,    \* the characters read so far
  pack,    \* whether the first digit of a byte has been read
  v1,      \* that digit
  index,   \* the byte of _data to write next
  data,    \* _data
  parse,   \* "read", then "fill" and "done", or "thrown"
  wrote,   \* the bytes that string() has written
  result   \* the characters it has written

readVars == <<text, pack, v1, index, data, parse>>

writeVars == <<wrote, result>>

uuidVars == <<readVars, writeVars>>

Separators == {"-", "{", "}"}

Digits == DOMAIN Hex

UuidInit ==
  /\ text = <<>>
  /\ pack = FALSE
  /\ v1 = "-"
  /\ index = 0
  /\ data = [i \in 0..Bytes - 1 |-> 0]
  /\ parse = "read"
  /\ wrote = 0
  /\ result = <<>>
-----------------------------------------------------------------------------
Reads(ch) ==
  /\ parse = "read"
  /\ Len(text) < MaxText
  /\ text' = Append(text, ch)
  /\ UNCHANGED writeVars

Separator(ch) ==
  /\ ch \in Separators
  /\ Reads(ch)
  /\ UNCHANGED <<pack, v1, index, data, parse>>

FirstDigit(ch) ==
  /\ ch \notin Separators
  /\ Reads(ch)
  /\ ~pack
  /\ pack' = TRUE
  /\ v1' = ch
  /\ UNCHANGED <<index, data, parse>>

(***************************************************************************)
(* The second digit of a byte: unhex throws for either of the two, and     *)
(* the loop ends with the last byte.                                       *)
(***************************************************************************)
SecondDigit_NoBreak(ch) ==
  /\ ch \notin Separators
  /\ Reads(ch)
  /\ pack
  /\ pack' = FALSE
  /\ IF {v1, ch} \subseteq Digits
     THEN /\ data' = [data EXCEPT ![index % Bytes] = Hex[v1] * 16 + Hex[ch]]
          /\ index' = index + 1
          /\ UNCHANGED parse
     ELSE parse' = "thrown" /\ UNCHANGED <<data, index>>
  /\ UNCHANGED v1

SecondDigit(ch) ==
  /\ ch \notin Separators
  /\ Reads(ch)
  /\ pack
  /\ pack' = FALSE
  /\ IF {v1, ch} \subseteq Digits
     THEN /\ data' = [data EXCEPT ![index] = Hex[v1] * 16 + Hex[ch]]
          /\ index' = index + 1
          /\ parse' = IF index + 1 >= Bytes THEN "fill" ELSE parse
     ELSE parse' = "thrown" /\ UNCHANGED <<data, index>>
  /\ UNCHANGED v1

TextEnds ==
  /\ parse = "read"
  /\ parse' = "fill"
  /\ UNCHANGED <<text, pack, v1, index, data, writeVars>>

(***************************************************************************)
(* The last loop increments index twice: it clears every other byte of the *)
(* rest.                                                                   *)
(***************************************************************************)
Fill ==
  /\ parse = "fill"
  /\ IF index < Bytes
     THEN data' = [data EXCEPT ![index] = 0] /\ index' = index + 2 /\ UNCHANGED parse
     ELSE parse' = "done" /\ UNCHANGED <<data, index>>
  /\ UNCHANGED <<text, pack, v1, writeVars>>

(***************************************************************************)
(* string(): two digits for the next byte, and a '-' after some of them.   *)
(* Digit(d) is the character of value d.                                   *)
(***************************************************************************)
Digit(d) == CHOOSE c \in Digits : Hex[c] = d

string ==
  /\ parse = "done"
  /\ wrote < Bytes
  /\ wrote' = wrote + 1
  /\ LET byte == Append(Append(result, Digit(data[wrote] \div 16)), Digit(data[wrote] % 16))
     IN  result' = IF wrote' \in Dashes THEN Append(byte, "-") ELSE byte
  /\ UNCHANGED readVars

UuidNext ==
  \/ \E ch \in Digits \cup Separators \cup Invalid : Separator(ch) \/ FirstDigit(ch) \/ SecondDigit(ch)
  \/ TextEnds
  \/ Fill \/ string

UuidSpec == UuidInit /\ [][UuidNext]_uuidVars
-----------------------------------------------------------------------------
(***************************************************************************)
(* What a text means: its characters without the separators, two for each  *)
(* byte; the bytes that the text does not reach are 0.  Seen(t, p) is how  *)
(* many of the first p characters are not separators.                      *)
(***************************************************************************)
Seen(t, p) == Cardinality({q \in 1..p : t[q] \notin Separators})

Is(t, p, n) == t[p] \notin Separators /\ Seen(t, p) = n

Pairs(t, u) ==
  \A i \in 0..(Bytes - 1) : \A p, q \in 1..Len(t) :
    Is(t, p, 2 * i + 1) /\ Is(t, q, 2 * i + 2) => u[i] = Hex[t[p]] * 16 + Hex[t[q]]

Unreached(t, u) == \A i \in 0..(Bytes - 1) : 2 * i + 2 > Seen(t, Len(t)) => u[i] = 0

Means(t, u) == Pairs(t, u) /\ Unreached(t, u)

(***************************************************************************)
(* The constructor reads a text as the bytes it means, although its last   *)
(* loop skips bytes, and what string() writes means the same bytes again.  *)
(* The constructor throws only for a character that is neither digit nor   *)
(* separator.                                                              *)
(***************************************************************************)
TextMeansData ==
  /\ parse = "done" => Means(text, data)
  /\ parse = "done" /\ wrote = Bytes => Means(result, data)
  /\ parse = "thrown" => \E i \in 1..Len(text) : text[i] \in Invalid
-----------------------------------------------------------------------------
(***************************************************************************)
(* The strengthening: the constructor has read the bytes of the text so    *)
(* far and keeps the digit it has still to use, and string() has written   *)
(* a text of the bytes so far.                                             *)
(***************************************************************************)
Chars == Digits \cup Separators \cup Invalid

LastDigit(t, v) == \A p \in 1..Len(t) : Is(t, p, Seen(t, Len(t))) => t[p] = v

ReadInv ==
  /\ text \in Seq(Chars) /\ index \in Nat
  /\ parse \in {"read", "fill", "done", "thrown"}
  /\ parse = "read" => Seen(text, Len(text)) = 2 * index + (IF pack THEN 1 ELSE 0) /\ index < Bytes
  /\ parse = "read" /\ pack => LastDigit(text, v1) /\ \E i \in 1..Len(text) : text[i] = v1 /\ v1 \notin Separators
  /\ parse = "fill" => Seen(text, Len(text)) <= 2 * index + 1
  /\ parse # "thrown" => Means(text, data)
  /\ parse = "thrown" => \E i \in 1..Len(text) : text[i] \in Invalid

Byte == {Hex[c] * 16 + Hex[d] : c, d \in Digits}

WriteInv ==
  /\ data \in [0..(Bytes - 1) -> Byte]
  /\ result \in Seq(Digits \cup {"-"}) /\ wrote \in 0..Bytes
  /\ parse # "done" => wrote = 0
  /\ Seen(result, Len(result)) = 2 * wrote
  /\ Pairs(result, data)
=============================================================================
