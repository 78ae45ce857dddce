------------------------------ MODULE ChatBody ------------------------------
(***************************************************************************)
(* How src/adapters/local/LocalAdapters.cpp writes a chat request as JSON  *)
(* and reads the server's reply.  The names of the protocol are single     *)
(* letters here: no property depends on how they are spelt.                *)
(***************************************************************************)
EXTENDS MiniJson

B64 == INSTANCE Base64

Names == <<"role", "content", "type", "text", "image_url", "url", "tool_calls", "id",
           "function", "name", "arguments", "tool_call_id", "messages", "tools",
           "parameters", "response_format", "json_schema", "schema", "object",
           "system", "user", "assistant", "tool", "choices", "message",
           "finish_reason", "usage", "prompt_tokens", "completion_tokens",
           "total_tokens", "max_tokens", "stop", "length", "content_filter",
           "other">>

Name == [n \in Range(Names) |-> <<96 + SelectInSeq(Names, LAMBDA x : x = n)>>]

\* An object is put together from fields, <<>> being none.
Field(n, v) == Name[n] :> v
Named(n) == String(Name[n])

\* Get, with its sentinel, and the conversions.
Get(v, n) ==
    IF v.type = "Object" /\ Name[n] \in DOMAIN v.object THEN v.object[Name[n]] ELSE NullValue
AsString(v) == IF v.type = "String" THEN v.string ELSE <<>>
AsArray(v) == IF v.type = "Array" THEN v.array ELSE <<>>
AsUInt64(v, fallback) ==
    IF v.type = "Number" /\ v.number >= 0 THEN v.number ELSE fallback

----------------------------------------------------------------------------

\* A message has text, parts, tool calls and the call it answers.
Message(role, text, parts, calls, callId) ==
    [role |-> role, text |-> text, parts |-> parts, toolCalls |-> calls,
     toolCallId |-> callId]

\* What stands before the data of a data: URL ends in a comma.
DataUri(data) ==
    <<100, COMMA>> \o [i \in DOMAIN B64!Encode(data) |-> B64!Alphabet(B64!Encode(data)[i])]

PartToJson(p) ==
    Object(IF p.kind = "Text"
           THEN Field("type", Named("text")) @@ Field("text", String(p.text))
           ELSE Field("type", Named("image_url"))
                  @@ Field("image_url", Object(Field("url", String(DataUri(p.data))))))

ToolCallToJson(c) ==
    Object(Field("id", String(c.id)) @@ Field("type", Named("function"))
             @@ Field("function", Object(Field("name", String(c.name))
                                           @@ Field("arguments", String(c.arguments)))))

\* Mutant of MessageToJson: an answer with text loses its tool calls.
MessageToJsonTextOnly(m) ==
    Object(Field("role", Named(m.role))
             @@ Field("content", IF m.parts # <<>>
                                 THEN Array([i \in DOMAIN m.parts |-> PartToJson(m.parts[i])])
                                 ELSE String(m.text))
             @@ (IF m.toolCalls = <<>> \/ m.text # <<>> THEN <<>>
                 ELSE Field("tool_calls", Array([i \in DOMAIN m.toolCalls |->
                                                   ToolCallToJson(m.toolCalls[i])])))
             @@ (IF m.role = "tool" /\ m.toolCallId # <<>>
                 THEN Field("tool_call_id", String(m.toolCallId)) ELSE <<>>))

MessageToJson(m) ==
    Object(Field("role", Named(m.role))
             @@ Field("content", IF m.parts # <<>>
                                 THEN Array([i \in DOMAIN m.parts |-> PartToJson(m.parts[i])])
                                 ELSE String(m.text))
             @@ (IF m.toolCalls = <<>> THEN <<>>
                 ELSE Field("tool_calls", Array([i \in DOMAIN m.toolCalls |->
                                                   ToolCallToJson(m.toolCalls[i])])))
             @@ (IF m.role = "tool" /\ m.toolCallId # <<>>
                 THEN Field("tool_call_id", String(m.toolCallId)) ELSE <<>>))

\* A schema is written as JSON text by the application and sent as JSON.
Schema(text) ==
    IF Parse(text).ok THEN Parse(text).value ELSE Object(Field("type", Named("object")))

ToolToJson(t) ==
    Object(Field("type", Named("function"))
             @@ Field("function", Object(Field("name", String(t.name))
                                           @@ Field("parameters", Schema(t.schema)))))

\* The fields for the model's name, the temperature and streaming are set
\* like max_tokens, and left out.
ChatRequestToJson(req) ==
    Object(Field("messages", Array([i \in DOMAIN req.messages |->
                                      MessageToJson(req.messages[i])]))
             @@ (IF req.tools = <<>> THEN <<>>
                 ELSE Field("tools", Array([i \in DOMAIN req.tools |->
                                              ToolToJson(req.tools[i])])))
             @@ (IF req.schema = <<>> THEN <<>>
                 ELSE Field("response_format",
                            Object(Field("type", Named("json_schema"))
                                     @@ Field("json_schema",
                                              Object(Field("schema", Schema(req.schema)))))))
             @@ (IF req.maxTokens = <<>> THEN <<>>
                 ELSE Field("max_tokens", Number(req.maxTokens[1]))))

----------------------------------------------------------------------------

MapFinishReason(reason) ==
    CASE reason = Name.stop -> "Stop"
      [] reason = Name.length -> "MaxTokens"
      [] reason = Name.tool_calls -> "ToolUse"
      [] reason = Name.content_filter -> "ContentFilter"
      [] OTHER -> "Unknown"

MapUsage(usage) ==
    LET input == AsUInt64(Get(usage, "prompt_tokens"), 0)
        output == AsUInt64(Get(usage, "completion_tokens"), 0)
    IN  [input |-> input, output |-> output,
         total |-> AsUInt64(Get(usage, "total_tokens"), input + output)]

MapToolCalls(calls) ==
    [i \in DOMAIN AsArray(calls) |->
       LET c == AsArray(calls)[i]
       IN  [id |-> AsString(Get(c, "id")),
            name |-> AsString(Get(Get(c, "function"), "name")),
            arguments |-> AsString(Get(Get(c, "function"), "arguments"))]]

\* What ChatOnce makes of the body of a reply.
ChatOnce(body) ==
    LET json == Parse(body).value
        choice == AsArray(Get(json, "choices"))[1]
        message == Get(choice, "message")
    IN  IF ~Parse(body).ok THEN Fail
        ELSE IF AsArray(Get(json, "choices")) = <<>> THEN Fail
        ELSE Read(Len(body) + 1,
                  [text |-> AsString(Get(message, "content")),
                   toolCalls |-> MapToolCalls(Get(message, "tool_calls")),
                   finishReason |-> MapFinishReason(AsString(Get(choice, "finish_reason"))),
                   usage |-> MapUsage(Get(json, "usage"))])
=============================================================================
