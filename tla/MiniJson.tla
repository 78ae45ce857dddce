------------------------------ MODULE MiniJson ------------------------------
(***************************************************************************)
(* Value::Dump and Value::Parse of src/adapters/common/MiniJson.cpp, over  *)
(* its strings.  A value is a record.  A number written as a sign and      *)
(* digits is that integer, small enough for a double to be exact; of any   *)
(* other, which text strtod takes matters, not which double it makes of    *)
(* it: it stands for itself, and is neither written nor reckoned with.     *)
(***************************************************************************)
EXTENDS JsonString

TAB == 9    LF == 10    CR == 13    SPACE == 32
COMMA == 44    COLON == 58    PLUS == 43    MINUS == 45    DOT == 46
OPENARRAY == 91    CLOSEARRAY == 93    OPENOBJECT == 123    CLOSEOBJECT == 125

TrueText == <<116, 114, 117, 101>>
FalseText == <<102, 97, 108, 115, 101>>
NullText == <<110, 117, 108, 108>>

NullValue == [type |-> "Null"]
Bool(b) == [type |-> "Bool", bool |-> b]
Number(n) == [type |-> "Number", number |-> n]
String(s) == [type |-> "String", string |-> s]
Array(a) == [type |-> "Array", array |-> a]
Object(o) == [type |-> "Object", object |-> o]

----------------------------------------------------------------------------

RECURSIVE Decimal(_)
Decimal(n) ==
    IF n < 0 THEN <<MINUS>> \o Decimal(-n)
    ELSE (IF n < 10 THEN <<>> ELSE Decimal(n \div 10)) \o <<48 + (n % 10)>>

\* The parts with commas between them.
Listed(parts) ==
    FlattenSeq([i \in DOMAIN parts |->
                  IF i = 1 THEN parts[i] ELSE <<COMMA>> \o parts[i]])

\* DumpTo.  (A std::map lists its keys in order; no property depends on it.)
RECURSIVE Dump(_)
Dump(v) ==
    CASE v.type = "Null"   -> NullText
      [] v.type = "Bool"   -> IF v.bool THEN TrueText ELSE FalseText
      [] v.type = "Number" -> Decimal(v.number)
      [] v.type = "String" -> EscapeTo(v.string)
      [] v.type = "Array"  ->
           <<OPENARRAY>> \o Listed([i \in DOMAIN v.array |-> Dump(v.array[i])])
             \o <<CLOSEARRAY>>
      [] v.type = "Object" ->
           LET keys == SetToSeq(DOMAIN v.object)
           IN  <<OPENOBJECT>>
                 \o Listed([i \in DOMAIN keys |-> EscapeTo(keys[i]) \o <<COLON>>
                                                    \o Dump(v.object[keys[i]])])
                 \o <<CLOSEOBJECT>>

----------------------------------------------------------------------------

SkipWs(text, pos) ==
    CHOOSE p \in pos..(Len(text) + 1) :
        /\ \A i \in pos..(p - 1) : text[i] \in {SPACE, TAB, LF, CR}
        /\ p <= Len(text) => text[p] \notin {SPACE, TAB, LF, CR}

(***************************************************************************)
(* strtod of the C library (C11, 7.22.1.3) in the C locale: the longest    *)
(* beginning of the text that has one of its forms.                        *)
(***************************************************************************)
Letter == (65..90) \cup (97..122)
UNDERSCORE == 95    OPENPAREN == 40    CLOSEPAREN == 41

CLibrarySpace == {TAB, LF, 11, 12, CR, SPACE}

\* Every character a number may have.
NumberChar ==
    Digit \cup Letter \cup CLibrarySpace
      \cup {PLUS, MINUS, DOT, UNDERSCORE, OPENPAREN, CLOSEPAREN}

Lower(s) == [i \in DOMAIN s |-> IF s[i] \in 65..90 THEN s[i] + 32 ELSE s[i]]

Unsigned(s) == IF s # <<>> /\ s[1] \in {PLUS, MINUS} THEN Tail(s) ELSE s

AreDigits(s) == s # <<>> /\ Range(s) \subseteq Digit

\* Digits with a point among, before or behind them, and an exponent if there
\* is one.
IsFloating(s, digits, e) ==
    \E n \in DOMAIN s :
        /\ \A i \in 1..n : s[i] \in digits \cup {DOT}
        /\ Cardinality({i \in 1..n : s[i] = DOT}) <= 1
        /\ \E i \in 1..n : s[i] \in digits
        /\ \/ n = Len(s)
           \/ s[n + 1] = e /\ AreDigits(Unsigned(SubSeq(s, n + 2, Len(s))))

INFTEXT == <<105, 110, 102>>
INFINITYTEXT == <<105, 110, 102, 105, 110, 105, 116, 121>>
NANTEXT == <<110, 97, 110>>

\* s is in lower case and has no sign.
IsNumeral(s) ==
    \/ IsFloating(s, Digit, 101)
    \/ /\ IsPrefix(<<48, 120>>, s)
       /\ IsFloating(SubSeq(s, 3, Len(s)), Digit \cup 97..102, 112)
    \/ s \in {INFTEXT, INFINITYTEXT, NANTEXT}
    \/ /\ IsPrefix(NANTEXT \o <<OPENPAREN>>, s) /\ Last(s) = CLOSEPAREN
       /\ \A i \in 5..(Len(s) - 1) : s[i] \in Digit \cup Letter \cup {UNDERSCORE}

\* White space, a sign and a numeral.
StrtodTakes(s) ==
    \E n \in 0..(Len(s) - 1) :
        /\ \A i \in 1..n : s[i] \in CLibrarySpace
        /\ IsNumeral(Lower(Unsigned(SubSeq(s, n + 1, Len(s)))))

Integer(s) ==
    LET n == FoldLeft(LAMBDA v, c : 10 * v + (c - 48), 0, Unsigned(s))
    IN  IF s[1] = MINUS THEN -n ELSE n

Strtod(text, pos) ==
    LET ends == {e \in pos..Len(text) : /\ \A i \in pos..e : text[i] \in NumberChar
                                       /\ StrtodTakes(SubSeq(text, pos, e))}
        taken == SubSeq(text, pos, Max(ends))
    IN  IF ends = {} THEN Fail
        ELSE Read(Max(ends) + 1,
                  Number(IF AreDigits(Unsigned(taken)) THEN Integer(taken) ELSE taken))

Literal(text, pos, word) == IsPrefix(word, SubSeq(text, pos, Len(text)))

RECURSIVE ParseValue(_, _), Elements(_, _, _), Members(_, _, _)

\* Mutant of Elements: the end of the text closes the array.
ElementsUnclosed(text, pos, a) ==
    Then(ParseValue(text, pos), LAMBDA end, v :
         LET p == SkipWs(text, end)
         IN  IF Consume(text, p, COMMA) THEN Elements(text, p + 1, Append(a, v))
             ELSE IF Consume(text, p, CLOSEARRAY) THEN Read(p + 1, Array(Append(a, v)))
             ELSE IF p > Len(text) THEN Read(p, Array(Append(a, v)))
             ELSE Fail)

\* The loops of ParseValue: the elements of an array, the members of an object.
Elements(text, pos, a) ==
    Then(ParseValue(text, pos), LAMBDA end, v :
         LET p == SkipWs(text, end)
         IN  IF Consume(text, p, COMMA) THEN Elements(text, p + 1, Append(a, v))
             ELSE IF Consume(text, p, CLOSEARRAY) THEN Read(p + 1, Array(Append(a, v)))
             ELSE Fail)

Members(text, pos, o) ==
    LET member(key, end, v) ==
            LET p == SkipWs(text, end)
                set == (key :> v) @@ o
            IN  IF Consume(text, p, COMMA) THEN Members(text, p + 1, set)
                ELSE IF Consume(text, p, CLOSEOBJECT) THEN Read(p + 1, Object(set))
                ELSE Fail
        named(end, key) ==
            LET p == SkipWs(text, end)
            IN  IF ~Consume(text, p, COLON) THEN Fail
                ELSE Then(ParseValue(text, p + 1), LAMBDA q, v : member(key, q, v))
    IN  Then(ParseString(text, SkipWs(text, pos)), named)

ParseValue(text, start) ==
    LET pos == SkipWs(text, start)
        inside == SkipWs(text, pos + 1)
    IN  IF pos > Len(text) THEN Fail
        ELSE CASE text[pos] = OPENOBJECT ->
                    IF Consume(text, inside, CLOSEOBJECT)
                    THEN Read(inside + 1, Object(<<>>)) ELSE Members(text, inside, <<>>)
               [] text[pos] = OPENARRAY ->
                    IF Consume(text, inside, CLOSEARRAY)
                    THEN Read(inside + 1, Array(<<>>)) ELSE Elements(text, inside, <<>>)
               [] text[pos] = QUOTE ->
                    Then(ParseString(text, pos), LAMBDA p, s : Read(p, String(s)))
               [] Literal(text, pos, TrueText) -> Read(pos + 4, Bool(TRUE))
               [] Literal(text, pos, FalseText) -> Read(pos + 5, Bool(FALSE))
               [] Literal(text, pos, NullText) -> Read(pos + 4, NullValue)
               [] OTHER -> Strtod(text, pos)

\* Mutant of Parse: what follows the value is not looked at.
ParsePrefix(text) == ParseValue(text, 1)

Parse(text) ==
    Then(ParseValue(text, 1),
         LAMBDA p, v : IF SkipWs(text, p) > Len(text) THEN Read(p, v) ELSE Fail)
=============================================================================
