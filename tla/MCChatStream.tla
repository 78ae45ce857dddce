---------------------------- MODULE MCChatStream ----------------------------
(***************************************************************************)
(* Chats over streams with text and tool calls, a usage report followed by *)
(* another or by null, a keep-alive comment, an event that does not parse, *)
(* text after [DONE], and an event whose blank line never comes; and, for  *)
(* the parser alone, every text of up to five tokens, and longer ones with *)
(* two events, joined data lines, comments and other fields.               *)
(***************************************************************************)
EXTENDS ChatStream, SseFeed

Json(u, choices, content, calls) ==
    [usage |-> u, choices |-> choices, content |-> content, calls |-> calls]

MCChunks ==
    [t \in {"hello", "call", "both", "stats", "null"} |->
       CASE t = "hello" -> Json("absent", TRUE, TRUE, 0)
         [] t = "call"  -> Json("absent", TRUE, FALSE, 2)
         [] t = "both"  -> Json("some", TRUE, TRUE, 1)
         [] t = "stats" -> Json("total", FALSE, FALSE, 0)
         [] t = "null"  -> Json("null", TRUE, TRUE, 0)]

Event(t) == <<"data:", "SP", t, "LF", "LF">>

MCTexts ==
    {<<>>,
     Event("hello") \o Event("call") \o Event("stats") \o Event("[DONE]"),
     <<":", "ping", "LF", "LF">> \o Event("both") \o Event("null"),
     Event("stats") \o Event("garbage") \o Event("[DONE]") \o Event("hello"),
     <<"data:", "hello", "LF", "data:", "both", "LF", "LF">> \o Event("both"),
     <<"data:", "both", "CR", "LF", "CR", "LF", "data:", "stats", "LF">>}

MCTransportErrors == {"Network", "Timeout", "Thrown"}
MCStatusErrors == {"AuthFailure", "RateLimited", "InvalidArgument", "Internal",
                   "Network"}

MCTokens == {"LF", "CR", "SP", "data:", "x"}

MCStreams ==
    UNION {[1..n -> MCTokens] : n \in 0..5}
      \cup {<<"data:", "x", "LF", "data:", "SP", "y", "CR", "LF", "CR", "LF",
              "data:", "z", "LF", "LF">>,
            <<"data:", "LF", "data:", "LF", "LF", "id:", "x", "LF", "LF">>,
            <<":", "x", "LF", "data:", "data:", "LF", ":", "LF", "LF", "LF",
              "data:", "SP", "SP", "y", "LF">>}

----------------------------------------------------------------------------

VARIABLE subject  \* what a behaviour is about: a chat, or the parser alone

StreamsInit ==
    /\ subject \in {"ChatStream", "SseParser"}
    /\ Init /\ FeedInit
    /\ subject = "ChatStream" => stream = <<>>
    /\ subject = "SseParser" => text = <<>> /\ ~callback /\ ~messages

StreamsNext ==
    /\ UNCHANGED subject
    /\ \/ subject = "ChatStream" /\ Next /\ UNCHANGED feedVars
       \/ subject = "SseParser" /\ FeedNext /\ UNCHANGED vars

StreamsSpec == StreamsInit /\ [][StreamsNext]_<<subject, vars, feedVars>>
=============================================================================
