---------------------------- MODULE MCHttpClient ----------------------------
(***************************************************************************)
(* Instances of HttpClient: chunked, counted and close-delimited answers,  *)
(* with a Content-Length that is right, too small or too large, success    *)
(* and failure statuses, payloads that look like framing, and a head that  *)
(* does not parse.                                                         *)
(***************************************************************************)
EXTENDS HttpClient

MCUrls == {"loopback", "remote", "malformed"}

Answer(code, framing, length, chunks) ==
    [status |-> code, framing |-> framing, length |-> length,
     chunks |-> chunks, wellFormed |-> TRUE]

\* Plain, with a leading zero, with an extension, and of two digits.
MCSizeText ==
    (0 :> <<"0">>) @@ (1 :> <<"0", "1">>) @@ (2 :> <<"2", ";x">>) @@ (3 :> <<"3">>)
      @@ (11 :> <<"b">>) @@ (16 :> <<"1", "0">>)

Bytes16 == [i \in 1..16 |-> "a"]

MCResponses ==
    {Answer(200, "chunked", 0, <<<<"a">>, <<"b", "c">>>>),
     Answer(200, "chunked", 0, <<<<"CR", "LF">>, <<"0">>>>),
     Answer(200, "chunked", 0, <<<<"LF", "3", "CR">>, <<"1">>>>),
     Answer(200, "chunked", 0, <<Take(Bytes16, 11)>>),
     Answer(200, "chunked", 0, <<Bytes16>>),
     Answer(500, "chunked", 0, <<<<"a">>>>),
     Answer(200, "chunked", 0, <<>>),
     Answer(200, "length", 2, <<<<"a", "b">>>>),
     Answer(200, "length", 1, <<<<"a", "b">>>>),
     Answer(200, "length", 3, <<<<"a", "b">>>>),
     Answer(200, "length", 0, <<>>),
     Answer(429, "length", 1, <<<<"a">>>>),
     Answer(200, "close", 0, <<<<"a", "b", "c">>>>),
     Answer(302, "close", 0, <<<<"a">>>>),
     [Answer(200, "close", 0, <<<<"a">>>>) EXCEPT !.wellFormed = FALSE]}

=============================================================================
