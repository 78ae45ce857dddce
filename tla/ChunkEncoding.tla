--------------------------- MODULE ChunkEncoding ---------------------------
(***************************************************************************)
(* How a server encodes a body in chunks (RFC 9112, section 7.1), each     *)
(* byte with the role it plays.  The server is outside the repository.     *)
(***************************************************************************)
EXTENDS Naturals, Sequences, SequencesExt

CONSTANT SizeText  \* how the server writes each size, extensions included

Tagged(role, s) == [i \in 1..Len(s) |-> [b |-> s[i], role |-> role]]

CRLF == <<"CR", "LF">>

EncodeChunk(chunk) ==
    Tagged("size", SizeText[Len(chunk)] \o CRLF)
      \o Tagged("data", chunk) \o Tagged("end", CRLF)

\* The chunks, the last-chunk line and an empty trailer.
Encode(chunks) ==
    FlattenSeq([k \in 1..Len(chunks) |-> EncodeChunk(chunks[k])])
      \o Tagged("last", SizeText[0] \o CRLF) \o Tagged("last", CRLF)

Bytes(w) == [i \in 1..Len(w) |-> w[i].b]

\* The bytes that are the body's.
Payload(w) ==
    FlattenSeq([i \in 1..Len(w) |-> IF w[i].role = "data" THEN <<w[i].b>> ELSE <<>>])

\* A piece of w that ends after n bytes leaves a chunk whole but unclosed.
CutsChunkEnd(w, n) == n < Len(w) /\ w[n + 1].role = "end"
=============================================================================
