------------------------------- MODULE Base64 -------------------------------
(***************************************************************************)
(* Encode and Decode of src/adapters/common/Base64.cpp.  A character of    *)
(* the encoded text is its index 0..63 in the alphabet, or one of the      *)
(* numbers below; Alphabet is its byte.                                    *)
(***************************************************************************)
EXTENDS Integers, SequencesExt

PAD == 64        \* "="
BLANK == 65      \* white space
FOREIGN == 66    \* any other character

\* kAlphabet, and the padding.
Alphabet(i) ==
    CASE i < 26 -> 65 + i
      [] i \in 26..51 -> 71 + i
      [] i \in 52..61 -> i - 4
      [] i = 62 -> 43
      [] i = 63 -> 47
      [] i = PAD -> 61

\* The characters of a group of n <= 3 bytes, the missing ones taken as zero.
Group(bytes) ==
    LET byte(i) == IF i <= Len(bytes) THEN bytes[i] ELSE 0
        v == 65536 * byte(1) + 256 * byte(2) + byte(3)
        all == <<v \div 262144, (v \div 4096) % 64, (v \div 64) % 64, v % 64>>
    IN  [i \in 1..4 |-> IF i <= Len(bytes) + 1 THEN all[i] ELSE PAD]

Encode(data) ==
    FlattenSeq([g \in 1..((Len(data) + 2) \div 3) |->
                  Group(SubSeq(data, 3 * g - 2,
                               IF 3 * g <= Len(data) THEN 3 * g ELSE Len(data)))])

Fresh == [ok |-> TRUE, ended |-> FALSE, buffer |-> 0, bits |-> 0, value |-> <<>>]

\* The shift by what bits is when a byte is complete.
Shifted(buffer, bits) ==
    CASE bits = 0 -> buffer
      [] bits = 2 -> buffer \div 4
      [] bits = 4 -> buffer \div 16

\* One turn of Decode's loop.  The code's buffer has 32 bits; the 12 that are
\* ever read are kept here.
DecodeChar(d, c) ==
    LET buffer == (64 * d.buffer + c) % 4096
    IN  IF ~d.ok \/ d.ended \/ c = BLANK THEN d
        ELSE IF c = PAD THEN [d EXCEPT !.ended = TRUE]
        ELSE IF c = FOREIGN THEN [d EXCEPT !.ok = FALSE]
        ELSE IF d.bits < 2 THEN [d EXCEPT !.buffer = buffer, !.bits = @ + 6]
        ELSE [d EXCEPT !.buffer = buffer, !.bits = @ - 2,
                       !.value = Append(@, Shifted(buffer, d.bits - 2) % 256)]

Decode(text) == FoldLeft(DecodeChar, Fresh, text)
=============================================================================
