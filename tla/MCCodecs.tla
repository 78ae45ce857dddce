------------------------------ MODULE MCCodecs ------------------------------
(***************************************************************************)
(* Values with every kind of character and nesting, texts over the bytes   *)
(* that make structure or numbers, code points on both sides of every boundary, bytes *)
(* of each bit pattern, code that contains fences, audio that looks like a *)
(* delimiter, and replies with text, tool calls or both.                   *)
(***************************************************************************)
EXTENDS Codecs

UpTo(S, n) == UNION {[1..k -> S] : k \in 0..n}

MCStrings == UpTo({97, QUOTE, BACKSLASH, LF, 1, 195}, 3)
Scalars == {NullValue, Bool(TRUE), Bool(FALSE), Number(0), Number(-7), Number(120)}
Small == Scalars \cup {String(<<>>), String(<<QUOTE>>), Array(<<>>), Object(<<>>)}
Nested ==
    {Array(a) : a \in UpTo(Small, 2)}
      \cup {Object(o) : o \in UNION {[K -> Small] : K \in SUBSET {<<>>, <<BACKSLASH, 98>>}}}
Deep ==
    {Array(<<v, v>>) : v \in Nested} \cup {Object(<<97>> :> v) : v \in Nested}

MCValues == Scalars \cup {String(s) : s \in UpTo({97, QUOTE, BACKSLASH, LF, 1, 195}, 2)} \cup Nested \cup Deep

\* Numbers of every form, JSON's and the others that strtod takes: up to five
\* of 0 1 - + . e, up to four of 0 x a p . after 0x, and words with a sign.
Words == {INFTEXT, INFINITYTEXT, NANTEXT, <<73, 110, 70>>, <<78, 65, 78>>,
          NANTEXT \o <<OPENPAREN, CLOSEPAREN>>, NANTEXT \o <<OPENPAREN, 97, 49, UNDERSCORE>>,
          NANTEXT \o <<OPENPAREN, 97, 49, UNDERSCORE, CLOSEPAREN>>, SubSeq(INFINITYTEXT, 1, 5)}
MCNumbers ==
    UpTo({48, 49, MINUS, PLUS, DOT, 101}, 5)
      \cup {<<48, 120>> \o s : s \in UpTo({48, 97, 112, DOT, MINUS}, 4)}
      \cup {s \o w : s \in {<<>>, <<PLUS>>, <<MINUS>>}, w \in Words}
      \cup {s \o <<49>> : s \in UpTo({11, 12, SPACE, LF, MINUS}, 2)}

\* The same where they are part of a text.
MCNumbered ==
    {<<OPENARRAY>> \o s \o <<COMMA>> \o t \o <<CLOSEARRAY>> :
       s, t \in UpTo({48, 49, MINUS, DOT, 101}, 2) \cup Words}

MCTexts ==
    MCNumbers \cup MCNumbered \cup
    UpTo({OPENARRAY, CLOSEARRAY, COMMA, 48, SPACE}, 5)
      \cup UpTo({OPENOBJECT, CLOSEOBJECT, QUOTE, COLON, COMMA, 48}, 5)
      \cup {<<OPENOBJECT>> \o s \o <<CLOSEOBJECT>> : s \in UpTo({QUOTE, COLON, COMMA, 48}, 5)}
      \cup {<<QUOTE>> \o s : s \in UpTo({QUOTE, BACKSLASH, LETTERU, 98, 48}, 4)}
      \cup {<<QUOTE>> \o s \o <<QUOTE>> : s \in UpTo({0, 31, 32, LF, QUOTE, BACKSLASH}, 2)}
      \cup {<<QUOTE, BACKSLASH, LETTERU, 48, 48>> \o s : s \in UpTo({48, 103, QUOTE}, 4)}
      \cup {s \o t : s \in {TrueText, FalseText, NullText, <<MINUS>>, <<PLUS, 49>>},
                     t \in UpTo({SPACE, 48, COMMA}, 2)}

MCPoints == {1, 34, 97, 127, 128, 2047, 2048, 8364, 55295, 57344, 65535, 65536,
             128512, 1048575, 1114111}

MCPayloads == UpTo({0, 1, 90, 128, 255}, 4) \cup {<<1, 2, 3, 250, 251, 252, 253>>}
MCBlanks == {1, 3, 9}

MCCodes == {c \in UpTo({"TICK", "LF", "a"}, 6) : c = <<>> \/ Last(c) # "LF"}
MCUploads ==
    {[audio |-> a, model |-> m, languageHint |-> l, wordTimestamps |-> w] :
       a \in UpTo({"--", "B", "NL"}, 4), m \in {<<>>, <<"m">>},
       l \in {<<>>, <<"de">>}, w \in BOOLEAN}

Call(id, args) == [id |-> <<id>>, name |-> <<116>>, arguments |-> args]
Args == <<OPENOBJECT, QUOTE, 97, QUOTE, COLON, 48, CLOSEOBJECT>>

MCAsks ==
    {Message("user", <<104>>, p, <<>>, <<>>) :
       p \in {<<>>, <<[kind |-> "Media", data |-> <<251, 255>>]>>,
              <<[kind |-> "Text", text |-> <<QUOTE, LF>>],
                [kind |-> "Media", data |-> <<0, 63, 190, 7>>]>>}}

MCTurns ==
    {[ask |-> a, text |-> t, calls |-> c, reason |-> r, total |-> n, schema |-> s] :
       a \in MCAsks, t \in {<<>>, <<104, QUOTE>>},
       c \in {<<>>, <<Call(49, Args)>>, <<Call(49, <<>>), Call(50, Args)>>},
       r \in {"stop", "length", "tool_calls", "content_filter", "other"}, n \in BOOLEAN,
       s \in {<<>>, Args, <<OPENOBJECT>>}}
=============================================================================
