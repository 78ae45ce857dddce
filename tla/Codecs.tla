------------------------------- MODULE Codecs -------------------------------
(***************************************************************************)
(* What the adapters write and read back across a connection: payloads,    *)
(* JSON texts, and the turns of a conversation.  A source is encoded, may  *)
(* lose its end on the way (HttpClient passes a body cut short by the peer *)
(* on as a success) and is decoded; the result is compared with the        *)
(* source, or for a text that nobody encoded with a grammar of JSON.       *)
(***************************************************************************)
EXTENDS ChatBody, PayloadCodecs

CONSTANTS
    Values,   \* JSON values that are written and read
    Texts,    \* any texts given to the parser
    Turns     \* a user's message, the server's reply and a tool's schema

\* kind is also "json", "text" or "turn"; a turn's state goes on to "sent" and
\* "answered".
vars == payloadVars

Init ==
    \/ PayloadInit
    \/ /\ \/ kind = "json" /\ source \in Values
          \/ kind = "text" /\ source \in Texts
          \/ kind = "turn" /\ source \in Turns
       /\ Fresh

\* How a server writes its reply: without text the content is null, and some
\* servers leave the total out.
ReplyJson(r) ==
    LET calls == [i \in DOMAIN r.calls |-> ToolCallToJson(r.calls[i])]
        message == Field("content", IF r.text = <<>> THEN NullValue ELSE String(r.text))
                     @@ (IF calls = <<>> THEN <<>> ELSE Field("tool_calls", Array(calls)))
        usage == Field("prompt_tokens", Number(3)) @@ Field("completion_tokens", Number(2))
                   @@ (IF r.total THEN Field("total_tokens", Number(5)) ELSE <<>>)
    IN  Object(Field("choices", Array(<<Object(Field("message", Object(message))
                                                 @@ Field("finish_reason",
                                                          Named(r.reason)))>>))
                 @@ Field("usage", Object(usage)))

Write ==
    /\ state = "source" /\ kind \notin PayloadKinds
    /\ wire' = CASE kind = "json" -> Dump(source)
                 [] kind = "text" -> source
                 [] kind = "turn" -> Dump(ReplyJson(source))
    /\ state' = "wire"
    /\ UNCHANGED <<kind, source, cut, result>>

LoseEnd ==
    /\ state = "wire" /\ ~cut
    /\ kind \in {"json", "turn"}
    /\ \E n \in 0..(Len(wire) - 1) : wire' = SubSeq(wire, 1, n)
    /\ cut' = TRUE
    /\ UNCHANGED <<kind, source, state, result>>

ReadBack ==
    /\ state = "wire" /\ kind \notin PayloadKinds
    /\ result' = IF kind = "turn" THEN ChatOnce(wire) ELSE Parse(wire)
    /\ state' = "read"
    /\ UNCHANGED <<kind, source, wire, cut>>

\* The application keeps the answer with the conversation, answers each tool
\* call, and asks again.
NextRequest(response) ==
    LET calls == response.toolCalls
    IN  [messages |->
           <<source.ask, Message("assistant", response.text, <<>>, calls, <<>>)>>
             \o [i \in DOMAIN calls |-> Message("tool", <<114>>, <<>>, <<>>, calls[i].id)],
         tools |-> <<[name |-> <<116>>, schema |-> source.schema]>>,
         schema |-> source.schema, maxTokens |-> <<7>>]

Resend ==
    /\ kind = "turn" /\ state = "read" /\ result.ok
    /\ wire' = Dump(ChatRequestToJson(NextRequest(result.value)))
    /\ state' = "sent"
    /\ UNCHANGED <<kind, source, cut, result>>

\* The server's reading of a request.
Bytes(url) ==
    LET index == AntiFunction([i \in 0..64 |-> B64!Alphabet(i)])
    IN  B64!Decode([i \in 1..(Len(url) - 2) |-> index[url[i + 2]]]).value

UnderstoodPart(p) ==
    IF AsString(Get(p, "type")) = Name.text
    THEN [kind |-> "Text", text |-> AsString(Get(p, "text"))]
    ELSE [kind |-> "Media", data |-> Bytes(AsString(Get(Get(p, "image_url"), "url")))]

UnderstoodMessage(m) ==
    LET content == Get(m, "content")
    IN  Message(CHOOSE n \in Range(Names) : Name[n] = AsString(Get(m, "role")),
                AsString(content),
                [i \in DOMAIN AsArray(content) |-> UnderstoodPart(AsArray(content)[i])],
                MapToolCalls(Get(m, "tool_calls")),
                AsString(Get(m, "tool_call_id")))

ServerReads ==
    /\ kind = "turn" /\ state = "sent"
    /\ LET json == Parse(wire).value
           tools == AsArray(Get(json, "tools"))
           messages == AsArray(Get(json, "messages"))
       IN  result' = Read(1, [messages |-> [i \in DOMAIN messages |->
                                              UnderstoodMessage(messages[i])],
                              parameters |-> Get(Get(tools[1], "function"), "parameters"),
                              schema |-> Get(Get(Get(json, "response_format"),
                                                 "json_schema"), "schema")])
    /\ state' = "answered"
    /\ UNCHANGED <<kind, source, wire, cut>>

Next == PayloadNext \/ Write \/ LoseEnd \/ ReadBack \/ Resend \/ ServerReads

Spec == Init /\ [][Next]_vars

----------------------------------------------------------------------------

\* Every JSON value comes back as it was: escapes, nesting, empty containers.
JsonRoundTrip == Arrived("json") => result.ok /\ result.value = source

\* A JSON document cut short anywhere is refused: a response whose connection
\* closed early, which the transport calls a success, ends as an error of the
\* operation (LocalAdapters.cpp:86), and no half of a chat reply is taken for
\* the whole.
CutJsonIsRefused ==
    /\ (kind = "json" /\ state = "read" /\ cut /\ source.type \in {"Object", "Array"})
          => ~result.ok
    /\ (kind = "turn" /\ cut) => ~result.ok

(***************************************************************************)
(* The grammar of JSON (RFC 8259) over whole texts, by cutting them at     *)
(* every place.  In the "wide" reading a number may be any that strtod     *)
(* takes, and a string may hold control characters.                        *)
(***************************************************************************)
Stripped(s) == SubSeq(s, SkipWs(s, 1), Len(s) - SkipWs(Reverse(s), 1) + 1)

RECURSIVE IsChars(_, _), IsValue(_, _), IsList(_, _, _)

IsChars(s, reading) ==
    \/ s = <<>>
    \/ /\ s[1] \notin {QUOTE, BACKSLASH} /\ (reading = "JSON" => s[1] >= 32)
       /\ IsChars(Tail(s), reading)
    \/ /\ Len(s) > 1 /\ s[1] = BACKSLASH
       /\ s[2] \in {QUOTE, BACKSLASH, 47} \cup DOMAIN Letters
       /\ IsChars(SubSeq(s, 3, Len(s)), reading)
    \/ /\ Len(s) > 5 /\ s[1] = BACKSLASH /\ s[2] = LETTERU
       /\ \A i \in 3..6 : HexValue(s[i]) >= 0
       /\ IsChars(SubSeq(s, 7, Len(s)), reading)

Inner(s, open, close) ==
    IF Len(s) > 1 /\ s[1] = open /\ Last(s) = close
    THEN {SubSeq(s, 2, Len(s) - 1)} ELSE {}

IsString(s, reading) == \E i \in Inner(s, QUOTE, QUOTE) : IsChars(i, reading)

IsMember(s, reading) ==
    \E i \in DOMAIN s : /\ s[i] = COLON
                        /\ IsString(Stripped(SubSeq(s, 1, i - 1)), reading)
                        /\ IsValue(SubSeq(s, i + 1, Len(s)), reading)

\* number = [ minus ] int [ frac ] [ exp ]
IsJsonNumber(s) ==
    LET u == IF s # <<>> /\ s[1] = MINUS THEN Tail(s) ELSE s
        part(i, j) == SubSeq(u, i + 1, j)
        digits(t) == t # <<>> /\ \A i \in DOMAIN t : t[i] \in Digit
        int(t) == digits(t) /\ (t[1] = 48 => Len(t) = 1)
        frac(t) == t = <<>> \/ (t[1] = DOT /\ digits(Tail(t)))
        exp(t) == \/ t = <<>>
                  \/ /\ t[1] \in {69, 101}
                     /\ \E n \in {2, 3} :
                           /\ n = 3 => Len(t) > 2 /\ t[2] \in {PLUS, MINUS}
                           /\ digits(SubSeq(t, n, Len(t)))
    IN  \E i \in DOMAIN u : \E j \in i..Len(u) :
            int(part(0, i)) /\ frac(part(i, j)) /\ exp(part(j, Len(u)))

IsNumber(s, reading) ==
    IF reading = "JSON" THEN IsJsonNumber(s) ELSE StrtodTakes(s)

IsList(s, what, reading) ==
    LET is(t) == IF what = "member" THEN IsMember(t, reading) ELSE IsValue(t, reading)
    IN  \/ is(s)
        \/ \E i \in DOMAIN s : /\ s[i] = COMMA
                               /\ is(SubSeq(s, 1, i - 1))
                               /\ IsList(SubSeq(s, i + 1, Len(s)), what, reading)

IsValue(text, reading) ==
    LET s == Stripped(text)
    IN  \/ s \in {TrueText, FalseText, NullText}
        \/ IsNumber(s, reading) \/ IsString(s, reading)
        \/ \E i \in Inner(s, OPENARRAY, CLOSEARRAY) :
              Stripped(i) = <<>> \/ IsList(i, "value", reading)
        \/ \E i \in Inner(s, OPENOBJECT, CLOSEOBJECT) :
              Stripped(i) = <<>> \/ IsList(i, "member", reading)

\* Nothing well-formed is turned down, and what Value::Parse accepts beyond
\* JSON is not of another structure, only numbers that strtod takes and
\* control characters in strings: what a server sends is not half read.  What
\* Dump writes is read as the value it was.
ParsesJson ==
    /\ JsonRoundTrip
    /\ Arrived("text") => /\ IsValue(source, "JSON") => result.ok
                          /\ result.ok => IsValue(source, "wide")

\* What the header says: Parse "returns false [...] on malformed input"
\* (MiniJson.h:61).  MiniJson.cpp:265 accepts whatever strtod does.
MalformedIsRefused ==
    Arrived("text") /\ result.ok => IsValue(source, "JSON")

\* The application gets the server's reply: its text, its tool calls in order
\* with their arguments untouched, why it ended, and a usage whose total is
\* there also when the server leaves it out (LocalAdapters.cpp:227-262).
ReplyArrives ==
    Arrived("turn") =>
        /\ result.ok
        /\ result.value =
             [text |-> source.text, toolCalls |-> source.calls,
              finishReason |-> CASE source.reason = "stop" -> "Stop"
                                 [] source.reason = "length" -> "MaxTokens"
                                 [] source.reason = "tool_calls" -> "ToolUse"
                                 [] source.reason = "content_filter" -> "ContentFilter"
                                 [] OTHER -> "Unknown",
              usage |-> [input |-> 3, output |-> 2, total |-> 5]]

\* The conversation that goes on after a reply is the one the server has: its
\* own text and tool calls come back to it as it sent them, each tool result
\* under the id of its call, the user's parts with their data and the schemas
\* unchanged (LocalAdapters.cpp:139-207); text beside parts is not sent
\* (UltraAITextLLM.h:36), and a schema that is no JSON is any object.
HistoryComesBack ==
    state = "answered" =>
        LET schema == IF Parse(source.schema).ok THEN Parse(source.schema).value
                      ELSE Object(Field("type", Named("object")))
        IN  /\ result.value.messages =
                 <<[source.ask EXCEPT !.text = IF source.ask.parts = <<>> THEN @ ELSE <<>>],
                   Message("assistant", source.text, <<>>, source.calls, <<>>)>>
                   \o [i \in DOMAIN source.calls |->
                         Message("tool", <<114>>, <<>>, <<>>, source.calls[i].id)]
            /\ result.value.parameters = schema
            /\ source.schema # <<>> => result.value.schema = schema

\* Nothing of a tool conversation is lost in either direction.
ConversationComesBack == ReplyArrives /\ HistoryComesBack
=============================================================================
