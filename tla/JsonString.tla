----------------------------- MODULE JsonString -----------------------------
(***************************************************************************)
(* How src/adapters/common/MiniJson.cpp writes and reads a string.  A text *)
(* is a sequence of bytes; a position is the index of the next byte, so it *)
(* ends at Len(text) + 1.                                                  *)
(***************************************************************************)
EXTENDS Integers, SequencesExt

QUOTE == 34    BACKSLASH == 92    LETTERU == 117

Digit == 48..57

\* The letters of the escapes \b \f \n \r \t, with what they stand for.
Letters ==
    [e \in {98, 102, 110, 114, 116} |->
       CASE e = 98 -> 8 [] e = 102 -> 12 [] e = 110 -> 10 [] e = 114 -> 13 [] e = 116 -> 9]

HexDigit(n) == IF n < 10 THEN 48 + n ELSE 87 + n

\* Mutant of Escape: only quotes and control characters are escaped.
EscapeQuotes(c) ==
    IF c = QUOTE THEN <<BACKSLASH, c>>
    ELSE IF \E e \in DOMAIN Letters : Letters[e] = c
         THEN <<BACKSLASH, CHOOSE e \in DOMAIN Letters : Letters[e] = c>>
    ELSE IF c < 32 THEN <<BACKSLASH, LETTERU, 48, 48, HexDigit(c \div 16), HexDigit(c % 16)>>
    ELSE <<c>>

Escape(c) ==
    IF c \in {QUOTE, BACKSLASH} THEN <<BACKSLASH, c>>
    ELSE IF \E e \in DOMAIN Letters : Letters[e] = c
         THEN <<BACKSLASH, CHOOSE e \in DOMAIN Letters : Letters[e] = c>>
    ELSE IF c < 32 THEN <<BACKSLASH, LETTERU, 48, 48, HexDigit(c \div 16), HexDigit(c % 16)>>
    ELSE <<c>>

EscapeTo(s) ==
    <<QUOTE>> \o FlattenSeq([i \in DOMAIN s |-> Escape(s[i])]) \o <<QUOTE>>

----------------------------------------------------------------------------

\* What a function of the parser answers: a position and what was read.
Read(pos, value) == [ok |-> TRUE, pos |-> pos, value |-> value]
Fail == [ok |-> FALSE]

\* What is read next starts where r ended, and fails when r did.
Then(r, next(_, _)) == IF r.ok THEN next(r.pos, r.value) ELSE Fail

Consume(text, pos, c) == pos <= Len(text) /\ text[pos] = c

HexValue(c) ==
    CASE c \in Digit -> c - 48
      [] c \in 97..102 -> c - 87
      [] c \in 65..70 -> c - 55
      [] OTHER -> -1

ParseHex4(text, pos) ==
    LET digit(i) == HexValue(text[pos + i])
    IN  IF pos + 3 > Len(text) \/ \E i \in 0..3 : digit(i) < 0 THEN Fail
        ELSE Read(pos + 4, 4096 * digit(0) + 256 * digit(1) + 16 * digit(2) + digit(3))

\* AppendUtf8.
Utf8(cp) ==
    IF cp < 128 THEN <<cp>>
    ELSE IF cp < 2048 THEN <<192 + cp \div 64, 128 + (cp % 64)>>
    ELSE IF cp < 65536
         THEN <<224 + cp \div 4096, 128 + ((cp \div 64) % 64), 128 + (cp % 64)>>
    ELSE <<240 + cp \div 262144, 128 + ((cp \div 4096) % 64),
           128 + ((cp \div 64) % 64), 128 + (cp % 64)>>

\* Mutant of Unicode: surrogates are written one by one.
UnicodeUnpaired(text, pos) ==
    Then(ParseHex4(text, pos), LAMBDA p, hi : Read(p, Utf8(hi)))

\* After \u.  A second escape after a high surrogate is read with it; when it
\* is no low surrogate, it is dropped.
Unicode(text, pos) ==
    LET low(hi, p, lo) ==
            Read(p, Utf8(IF lo \in 56320..57343
                         THEN 65536 + (hi - 55296) * 1024 + (lo - 56320) ELSE hi))
        high(p, hi) ==
            IF hi \in 55296..56319 /\ IsPrefix(<<BACKSLASH, LETTERU>>, SubSeq(text, p, Len(text)))
            THEN Then(ParseHex4(text, p + 2), LAMBDA q, lo : low(hi, q, lo))
            ELSE Read(p, Utf8(hi))
    IN  Then(ParseHex4(text, pos), high)

\* ParseString after the opening quote: rest[pos] is what it makes of the text
\* from pos on.
StringRest(text, start) ==
    LET put(s, r) == Then(r, LAMBDA p, v : Read(p, s \o v))
        rest[pos \in 1..(Len(text) + 1)] ==
            IF pos > Len(text) THEN Fail
            ELSE IF text[pos] = QUOTE THEN Read(pos + 1, <<>>)
            ELSE IF text[pos] # BACKSLASH THEN put(<<text[pos]>>, rest[pos + 1])
            ELSE IF pos = Len(text) THEN Fail
            ELSE LET e == text[pos + 1] IN
                 CASE e \in {QUOTE, BACKSLASH, 47} -> put(<<e>>, rest[pos + 2])
                   [] e \in DOMAIN Letters -> put(<<Letters[e]>>, rest[pos + 2])
                   [] e = LETTERU -> Then(Unicode(text, pos + 2), LAMBDA p, u : put(u, rest[p]))
                   [] OTHER -> Fail
    IN  rest[start]

ParseString(text, pos) ==
    IF Consume(text, pos, QUOTE) THEN StringRest(text, pos + 1) ELSE Fail
=============================================================================
