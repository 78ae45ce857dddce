----------------------------- MODULE ChatStream -----------------------------
(***************************************************************************)
(* LocalTextLLM::ChatStream of src/adapters/local/LocalAdapters.cpp over   *)
(* FetchStream and the SSE parser: the server's event stream reaches the   *)
(* parser in pieces, each complete event may become events for the         *)
(* application's callback, and the end of the transfer ends the stream.    *)
(***************************************************************************)
EXTENDS SseParser

CONSTANTS
    Texts,            \* the event streams a server sends
    Chunks,           \* Chunks[t]: what the JSON text t says
    TransportErrors, StatusErrors

\* usage is the reported usage, or "absent" or "null"; content is whether the
\* delta has text; calls is how many tool calls it has.
Chunk == [usage : STRING, choices : BOOLEAN, content : BOOLEAN, calls : 0..2]

ASSUME ChunkAssumption ==
    /\ Texts \subseteq Seq(STRING)
    /\ \A t \in DOMAIN Chunks : Chunks[t] \in Chunk

VARIABLES
    callback, messages,  \* the arguments: is there a callback, a message?
    pc,                  \* "call", "fetch", "unwind" or "done"
    text, handed,        \* the body, and the part FetchStream has handed over
    result,              \* what FetchStream returned
    parser, usage,       \* locals of the call
    events, returned     \* the callback's events and the call's result

vars == <<callback, messages, pc, text, handed, result, parser, usage, events,
          returned>>

Transport == INSTANCE StreamTransport

Init ==
    /\ callback \in BOOLEAN /\ messages \in BOOLEAN
    /\ pc = "call"
    /\ text \in Texts
    /\ Transport!Init
    /\ parser = FreshParser /\ usage = "zero"
    /\ events = <<>> /\ returned = "Pending"

\* MapUsage: a null usage object reads as zero counts.
MapUsage(u) == IF u = "null" THEN "zero" ELSE u

Delta(t) == [kind |-> "TextDelta", of |-> t]
ToolCall(t, i) == [kind |-> "ToolCallDelta", of |-> t, index |-> i]
DoneEvent(u) == [kind |-> "Done", usage |-> u]
ErrorEvent(err) == [kind |-> "Error", error |-> err]

\* The events a payload makes; none when it does not parse, "[DONE]" included.
Parses(payload) == Len(payload) = 1 /\ payload[1] \in DOMAIN Chunks

PayloadEvents(payload) ==
    LET t == payload[1]
        c == Chunks[t]
    IN  IF ~Parses(payload) \/ ~c.choices THEN <<>>
        ELSE (IF c.content THEN <<Delta(t)>> ELSE <<>>)
               \o [i \in 1..c.calls |-> ToolCall(t, i)]

PayloadUsage(payload, u) ==
    IF ~Parses(payload) \/ Chunks[payload[1]].usage = "absent" THEN u
    ELSE MapUsage(Chunks[payload[1]].usage)

----------------------------------------------------------------------------

\* The arguments are checked before anything is sent; an event goes with
\* neither refusal.
Refuse ==
    /\ pc = "call"
    /\ ~callback \/ ~messages
    /\ returned' = "InvalidArgument"
    /\ pc' = "done"
    /\ UNCHANGED <<callback, messages, text, handed, result, parser, usage,
                   events>>

Fetch ==
    /\ pc = "call" /\ callback /\ messages
    /\ pc' = "fetch"
    /\ UNCHANGED <<callback, messages, text, handed, result, parser, usage,
                   events, returned>>

\* What the callback is called with for the payloads of one piece.
Events(payloads) ==
    FlattenSeq([i \in 1..Len(payloads) |-> PayloadEvents(payloads[i])])

\* The transport hands over the next n tokens.
Handed(n) == SubSeq(text, Len(handed) + 1, Len(handed) + n)

\* Mutant of Parsed: every piece is parsed by a parser of its own.
ParsedAfresh(n) == Feed(FreshParser, Handed(n))

Parsed(n) == Feed([parser EXCEPT !.out = <<>>], Handed(n))

\* The parser's and the two lambdas' work on one piece, callbacks included.
OnBody(n) ==
    /\ pc = "fetch"
    /\ handed' = handed \o Handed(n)
    /\ Transport!Hand
    /\ parser' = Parsed(n)
    /\ events' = events \o Events(parser'.out)
    /\ usage' = FoldLeft(LAMBDA u, payload : PayloadUsage(payload, u),
                         usage, parser'.out)
    /\ UNCHANGED <<callback, messages, pc, text, returned>>

\* The same piece, but the callback throws at one of its events.
OnBodyThrows(n) ==
    /\ pc = "fetch"
    /\ handed' = handed \o Handed(n)
    /\ Transport!Hand
    /\ \E k \in 1..Len(Events(Parsed(n).out)) :
          events' = events \o SubSeq(Events(Parsed(n).out), 1, k)
    /\ pc' = "unwind"
    /\ UNCHANGED <<callback, messages, text, parser, usage, returned>>

\* Mutant of Finish: an error is returned without an event.
FinishSilently ==
    /\ pc = "fetch"
    /\ result' \in {"None"} \cup StatusErrors \cup (TransportErrors \ {"Thrown"})
    /\ Transport!Return
    /\ events' = IF result' = "None" THEN Append(events, DoneEvent(usage))
                 ELSE events
    /\ returned' = result'
    /\ pc' = "done"
    /\ UNCHANGED <<callback, messages, text, parser, usage>>

\* FetchStream returns: at the end of the body, before it, or failing.  The
\* callback may throw at the terminal event too.
Finish ==
    /\ pc = "fetch"
    /\ result' \in {"None"} \cup StatusErrors \cup (TransportErrors \ {"Thrown"})
    /\ Transport!Return
    /\ events' = Append(events, IF result' = "None" THEN DoneEvent(usage)
                                ELSE ErrorEvent(result'))
    /\ returned' \in {result', "Thrown"}
    /\ pc' = "done"
    /\ UNCHANGED <<callback, messages, text, parser, usage>>

\* The exception leaves FetchStream and ChatStream.
Throw ==
    /\ pc = "unwind"
    /\ result' = "Thrown"
    /\ Transport!Return
    /\ returned' = "Thrown"
    /\ pc' = "done"
    /\ UNCHANGED <<callback, messages, text, parser, usage, events>>

Next ==
    \/ Refuse \/ Fetch \/ Finish \/ Throw
    \/ \E n \in 1..(Len(text) - Len(handed)) : OnBody(n) \/ OnBodyThrows(n)

Spec == Init /\ [][Next]_vars

----------------------------------------------------------------------------

Contract == INSTANCE StreamContract WITH
              Errors <- StatusErrors \cup TransportErrors \cup {"InvalidArgument"}

\* A call that has messages to send, or nobody to tell.
Asked == callback => messages

\* The application sees deltas, then exactly one terminal event, which agrees
\* with what the call returns, and nothing after it; after a status error it
\* has seen no delta (UltraAITextLLM.h:92-93, LocalAdapters.cpp:306-358).  A
\* call with a callback and no messages breaks this: EndsWithEvent.
ImplementsContract ==
    /\ Asked => Contract!Init
    /\ [][Asked => Contract!Next]_<<events, returned>>

\* What the header says of every call: it "terminates with Done or Error"
\* (UltraAITextLLM.h:92).  LocalAdapters.cpp:307-308 returns an error for a
\* request without messages before the callback is ever called.
EndsWithEvent ==
    (callback /\ returned \notin {"Pending", "Thrown"}) =>
        events # <<>> /\ Last(events).kind \in {"Done", "Error"}

\* The payloads of the whole of what was handed over, read in one piece.
Payloads == Feed(FreshParser, handed).out

\* However the body was cut, the deltas are those of the events it holds, in
\* order (the first of them when the callback throws), and Done carries the
\* last usage any of them reported: nothing is lost, repeated or reordered at
\* the boundaries between pieces, even when a [DONE] or an unparseable event
\* comes in between (LocalAdapters.cpp:319-345).
EventsOfBody ==
    LET deltas == FlattenSeq([i \in DOMAIN events |->
                                IF Contract!IsDelta(events[i])
                                THEN <<events[i]>> ELSE <<>>])
    IN  /\ IsPrefix(deltas, Events(Payloads))
        /\ (pc # "unwind" /\ returned # "Thrown") => deltas = Events(Payloads)
        /\ returned = "None" =>
              Last(events).usage =
                FoldLeft(LAMBDA u, p : PayloadUsage(p, u), "zero", Payloads)
=============================================================================
