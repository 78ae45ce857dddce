----------------------------- MODULE HttpClient -----------------------------
(***************************************************************************)
(* localhttp::Fetch and FetchStream of src/adapters/common/HttpClient.cpp: *)
(* one blocking request over a fresh socket, and the loop that reads the   *)
(* response.  The network hands the response over in arbitrary pieces, and *)
(* the peer may stall, reset or close at any point.                        *)
(***************************************************************************)
EXTENDS ChunkDecoder, ChunkEncoding, HttpStatus

CONSTANTS
    Apis,       \* which entry points are called: "fetch", "stream"
    Urls,       \* how request.url parses: "loopback", "remote", "malformed"
    MaxAddrs,   \* bound on the addresses a host name resolves to
    MsgSize,    \* length of the request message
    Responses   \* what a server may answer

\* The bytes up to and including the blank line that ends the head.
HeadBytes == <<"head", "blank">>

Framings == {"chunked", "length", "close"}

\* length is the Content-Length announced, which the body need not have.
Response == [status : 100..599, framing : Framings, length : Nat,
             chunks : Seq(Seq(STRING)), wellFormed : BOOLEAN]

ASSUME HttpAssumption ==
    /\ Apis \subseteq {"fetch", "stream"}
    /\ Urls \subseteq {"loopback", "remote", "malformed"}
    /\ MaxAddrs \in Nat /\ MsgSize \in Nat \ {0}
    /\ Responses \subseteq Response
    /\ \A r \in Responses :
          \A i \in 1..Len(r.chunks) : Len(r.chunks[i]) \in DOMAIN SizeText \ {0}

\* A size is written on one line, as strtol reads it.
ASSUME SizeAssumption ==
    /\ 0 \in DOMAIN SizeText
    /\ \A n \in DOMAIN SizeText :
          /\ SizeText[n] \in Seq(STRING) /\ SizeText[n] # <<>>
          /\ \A i \in 1..Len(SizeText[n]) : SizeText[n][i] \notin Spaces
          /\ Strtol(SizeText[n]) = n

VARIABLES
    api, url, resp,  \* the call and the answer the server has for it
    pc,              \* where Perform is
    addrs,           \* how many addresses are left to try
    sock,            \* "none", "open" or "connected"
    sent,            \* how much of the request send() has taken
    arrived,         \* how much of the response recv() has returned
    headParsed,      \* Perform's flag
    status,          \* head.status
    bodyDelivered,   \* Perform's count
    dec,             \* Perform's ChunkDecoder
    streaming,       \* FetchStream's flag
    collected,       \* Fetch's body, FetchStream's errorBody
    handed,          \* what onBody was called with
    result,          \* what the call returned
    response,        \* Fetch's *response: NoResponse until it is assigned
    eof, clean       \* history: the peer closed; no piece cut a chunk's end

vars == <<api, url, resp, pc, addrs, sock, sent, arrived, headParsed, status,
          bodyDelivered, dec, streaming, collected, handed, result, response,
          eof, clean>>

request == <<api, url, resp>>
sink == <<streaming, collected, handed>>
reading == <<arrived, headParsed, status, bodyDelivered, dec>>
ended == <<result, response>>

NoResponse == [status |-> 0, body |-> <<>>]

chunked == resp.framing = "chunked"

\* A server's body, and its response as it is sent.
Contents == [r \in Responses |-> FlattenSeq(r.chunks)]

Wires ==
    [r \in Responses |->
        Tagged("head", HeadBytes)
          \o (IF r.framing = "chunked" THEN Encode(r.chunks)
              ELSE Tagged("data", Contents[r]))]

Content == Contents[resp]
wire == Wires[resp]

Init ==
    /\ api \in Apis /\ url \in Urls /\ resp \in Responses
    /\ pc = "start" /\ addrs = 0 /\ sock = "none" /\ sent = 0
    /\ arrived = 0 /\ headParsed = FALSE /\ status = 0
    /\ bodyDelivered = 0 /\ dec = FreshDecoder
    /\ streaming = FALSE /\ collected = <<>> /\ handed = <<>>
    /\ result = "Pending" /\ response = NoResponse
    /\ eof = FALSE /\ clean = TRUE

\* Perform returns err, having closed its socket, and Fetch or FetchStream
\* makes its result of it.
Return(err) ==
    /\ pc' = "done"
    /\ sock' = "none"
    /\ IF api = "fetch"
       THEN /\ result' = err
            /\ response' = IF err = "None"
                           THEN [status |-> status, body |-> collected]
                           ELSE response
       ELSE /\ result' = IF err = "None" THEN MapHttpStatus(status) ELSE err
            /\ UNCHANGED response

\* Mutants of Sink: the buffer is assigned, the status is not looked at, what
\* is streamed is kept too.
SinkAssigns(data, s) ==
    LET streams == api = "stream" /\ (streaming \/ Success(s)) IN
    IF data = <<>> THEN UNCHANGED sink
    ELSE /\ streaming' = streams
         /\ handed' = IF streams THEN handed \o data ELSE handed
         /\ collected' = IF streams THEN collected ELSE data

SinkAnyStatus(data, s) ==
    IF data = <<>> THEN UNCHANGED sink
    ELSE /\ streaming' = (api = "stream")
         /\ handed' = IF api = "stream" THEN handed \o data ELSE handed
         /\ collected' = IF api = "stream" THEN collected ELSE collected \o data

SinkKeeps(data, s) ==
    LET streams == api = "stream" /\ (streaming \/ Success(s)) IN
    IF data = <<>> THEN UNCHANGED sink
    ELSE /\ streaming' = streams
         /\ handed' = IF streams THEN handed \o data ELSE handed
         /\ collected' = collected \o data

\* The sink of Fetch, or the lambda FetchStream passes, is given data.
Sink(data, s) ==
    LET streams == api = "stream" /\ (streaming \/ Success(s)) IN
    IF data = <<>> THEN UNCHANGED sink
    ELSE /\ streaming' = streams
         /\ handed' = IF streams THEN handed \o data ELSE handed
         /\ collected' = IF streams THEN collected ELSE collected \o data

----------------------------------------------------------------------------

\* ParseUrl, the loopback check and getaddrinfo.
Start ==
    /\ pc = "start"
    /\ \/ /\ url = "malformed" /\ Return("InvalidArgument") /\ UNCHANGED addrs
       \/ /\ url = "remote" /\ Return("Network") /\ UNCHANGED addrs
       \/ /\ url = "loopback"
          /\ \/ Return("Network") /\ UNCHANGED addrs
             \/ /\ addrs' \in 1..MaxAddrs
                /\ pc' = "connect"
                /\ UNCHANGED <<sock, ended>>
    /\ UNCHANGED <<request, sent, reading, sink, eof, clean>>

\* The addresses are tried in turn until one connects.
Connect ==
    /\ pc = "connect"
    /\ \/ /\ sock = "none" /\ addrs > 0      \* socket()
          /\ addrs' = addrs - 1
          /\ sock' \in {"none", "open"}
          /\ UNCHANGED <<pc, ended>>
       \/ /\ sock = "open"                   \* connect() succeeds
          /\ sock' = "connected"
          /\ pc' = "send"
          /\ UNCHANGED <<addrs, ended>>
       \/ /\ sock = "open"                   \* connect() fails
          /\ sock' = "none"
          /\ UNCHANGED <<addrs, pc, ended>>
       \/ /\ sock = "none" /\ addrs = 0
          /\ Return("Network")
          /\ UNCHANGED addrs
    /\ UNCHANGED <<request, sent, reading, sink, eof, clean>>

Send ==
    /\ pc = "send"
    /\ \/ Return("Network") /\ UNCHANGED sent    \* send() fails
       \/ \E n \in 1..(MsgSize - sent) :
             /\ sent' = sent + n
             /\ pc' = IF sent' = MsgSize THEN "recv" ELSE "send"
             /\ UNCHANGED <<sock, ended>>
    /\ UNCHANGED <<request, addrs, reading, sink, eof, clean>>

\* Body bytes go to the decoder, or to the sink as they are.
TakeBody(data, s) ==
    IF chunked
    THEN /\ dec' = EnterFeed(dec, data)
         /\ pc' = IF data = <<>> THEN "check" ELSE "decode"
         /\ UNCHANGED <<sink, bodyDelivered>>
    ELSE /\ Sink(data, s)
         /\ bodyDelivered' = bodyDelivered + Len(data)
         /\ pc' = "check"
         /\ UNCHANGED dec

\* recv() returns the next n bytes.
Recv(n) ==
    /\ pc = "recv"
    /\ arrived' = arrived + n
    /\ clean' = (clean /\ ~CutsChunkEnd(wire, arrived'))
    /\ \/ /\ headParsed
          /\ TakeBody(Bytes(SubSeq(wire, arrived + 1, arrived')), status)
          /\ UNCHANGED <<headParsed, status, sock, ended>>
       \/ /\ ~headParsed /\ arrived' < Len(HeadBytes)
          /\ UNCHANGED <<headParsed, status, bodyDelivered, dec, pc, sink, sock, ended>>
       \/ /\ ~headParsed /\ arrived' >= Len(HeadBytes) /\ ~resp.wellFormed
          /\ Return("Network")
          /\ UNCHANGED <<headParsed, status, bodyDelivered, dec, sink>>
       \/ /\ ~headParsed /\ arrived' >= Len(HeadBytes) /\ resp.wellFormed
          /\ headParsed' = TRUE
          /\ status' = resp.status
          /\ TakeBody(Bytes(SubSeq(wire, Len(HeadBytes) + 1, arrived')), resp.status)
          /\ UNCHANGED <<sock, ended>>
    /\ UNCHANGED <<request, addrs, sent, eof>>

\* recv() returns 0: the peer has closed, early or not.
Eof ==
    /\ pc = "recv"
    /\ eof' = TRUE
    /\ Return(IF headParsed THEN "None" ELSE "Network")
    /\ UNCHANGED <<request, addrs, sent, reading, sink, clean>>

\* recv() fails: SO_RCVTIMEO has passed, or the connection was reset.
RecvFails ==
    /\ pc = "recv"
    /\ Return("Timeout")
    /\ UNCHANGED <<request, addrs, sent, reading, sink, eof, clean>>

\* The loop of ChunkDecoder::Feed.
Decode ==
    /\ pc = "decode" /\ ~dec.bad
    /\ dec' = Turn(dec)
    /\ Sink(dec'.sunk, status)
    /\ pc' = IF dec'.more \/ dec'.bad THEN "decode" ELSE "check"
    /\ UNCHANGED <<request, addrs, sock, sent, arrived, headParsed, status,
                   bodyDelivered, ended, eof, clean>>

Malformed ==
    /\ pc = "decode" /\ dec.bad
    /\ Return("Network")
    /\ UNCHANGED <<request, addrs, sent, reading, sink, eof, clean>>

\* Mutant of Check: the body ends wherever a chunk does.
CheckAnyChunk ==
    /\ pc = "check"
    /\ IF (chunked /\ dec.remaining = 0)
          \/ (resp.framing = "length" /\ bodyDelivered >= resp.length)
       THEN Return("None")
       ELSE pc' = "recv" /\ UNCHANGED <<sock, ended>>
    /\ UNCHANGED <<request, addrs, sent, reading, sink, eof, clean>>

\* The end of the loop: is the body complete by its own framing?
Check ==
    /\ pc = "check"
    /\ IF (chunked /\ dec.done)
          \/ (resp.framing = "length" /\ bodyDelivered >= resp.length)
       THEN Return("None")
       ELSE pc' = "recv" /\ UNCHANGED <<sock, ended>>
    /\ UNCHANGED <<request, addrs, sent, reading, sink, eof, clean>>

\* The application's onBody throws: nothing in Perform catches it or owns
\* the socket.
CallbackThrows ==
    /\ pc \in {"decode", "check"} /\ streaming
    /\ chunked => dec.sunk # <<>>
    /\ pc' = "done"
    /\ result' = "Thrown"
    /\ UNCHANGED <<request, addrs, sock, sent, reading, sink, response, eof,
                   clean>>

Next ==
    \/ Start \/ Connect \/ Send \/ Eof \/ RecvFails \/ Decode \/ Malformed
    \/ Check \/ CallbackThrows
    \/ \E n \in 1..(Len(wire) - arrived) : Recv(n)

Spec == Init /\ [][Next]_vars

\* Every blocking call returns: connect() is answered or given up by the host,
\* the server reads the request (send() has no timeout of its own), and recv()
\* returns at the latest when SO_RCVTIMEO has passed.
FairSpec == Spec /\ WF_vars(Next)

----------------------------------------------------------------------------

TransportErrors == {"Network", "Timeout", "Thrown"}

TypeOK ==
    /\ pc \in {"start", "connect", "send", "recv", "decode", "check", "done"}
    /\ addrs \in 0..MaxAddrs
    /\ sock \in {"none", "open", "connected"}
    /\ sent \in 0..MsgSize
    /\ arrived \in 0..Len(wire)
    /\ status \in 0..599
    /\ bodyDelivered \in 0..Len(wire)
    /\ dec.remaining \in Nat
    /\ headParsed \in BOOLEAN /\ streaming \in BOOLEAN
    /\ eof \in BOOLEAN /\ clean \in BOOLEAN
    /\ result \in {"Pending", "None"} \cup TransportErrors \cup StatusErrors

\* The body as far as it has been passed on, to onBody or to a buffer.
Received == handed \o collected

\* However the response is cut, split between the two sinks or followed by a
\* failure, what has been passed on is the beginning of the server's body, in
\* order and without its framing, unless a piece ended just before or inside
\* a chunk's closing CRLF (the case AlreadyDechunked is about); outside the decoder
\* nothing that arrived is held back.
BodyInOrder ==
    clean =>
      /\ IsPrefix(Received, Content)
      /\ pc = "recv" => Received = Payload(Take(wire, arrived))

\* A call that succeeds without the peer having closed has the whole body:
\* as much as Content-Length announced, or every chunk.  (When the peer has
\* closed, a truncated body is reported as a success too.)
SuccessIsWhole ==
    (pc = "done" /\ clean /\ ~eof
       /\ (IF api = "fetch" THEN response # NoResponse ELSE result = "None"))
    => IF chunked THEN Received = Content
       ELSE resp.framing = "length" /\ Len(Received) >= resp.length

\* onBody is only ever called for 2xx responses, and a body that went to it
\* is never also kept as the error text (HttpClient.h:43-45).
StreamsOnlySuccess ==
    /\ handed # <<>> => Success(resp.status) /\ collected = <<>>
    /\ (api = "stream" /\ result = "None") => Success(resp.status)

\* The call returns, whatever the peer does, once its recv()s do.
Returns == <>(pc = "done")

Transport == INSTANCE StreamTransport

\* FetchStream keeps the promises its callers rely on: pieces while the call
\* goes on, and no status error once a piece was handed over.
ImplementsTransport == Transport!Spec

\* HttpClient.h:43-45: "If the server answers with a non-2xx status the body
\* is collected internally instead and the mapped error is returned".
NonSuccessIsMapped ==
    (api = "stream" /\ pc = "done" /\ headParsed /\ ~Success(status))
    => result = MapHttpStatus(status)

\* HttpClient.h:42-43: "Body bytes are delivered to onBody as they arrive
\* (already de-chunked)", wherever the pieces are cut.
AlreadyDechunked == (api = "stream" /\ chunked) => IsPrefix(Received, Content)
=============================================================================
