---------------------------- MODULE PayloadCodecs ----------------------------
(***************************************************************************)
(* What the adapters write and read back across a connection without a     *)
(* JSON document around it: strings, characters in escapes, base64, fenced *)
(* code and uploads.  A source is encoded, may lose its end on the way     *)
(* (HttpClient passes a body cut short by the peer on as a success) and is *)
(* decoded; the result is compared with the source.                        *)
(***************************************************************************)
EXTENDS JsonString

CONSTANTS
    Strings,  \* strings that are written in JSON
    Points,   \* Unicode code points that arrive as \u escapes
    Payloads, \* sequences of bytes that are written in base64
    Blanks,   \* white space a base64 text may contain: where it is put
    Codes,    \* code that a model answers in a fence
    Uploads   \* what transcription requests ask for

Base == INSTANCE Base64
Answer == INSTANCE CodeFence
Form == INSTANCE Multipart

Byte == 0..255

\* Unicode scalar values: the code points that are no surrogate.
ScalarValues == {p \in Nat : p <= 1114111 /\ ~(p >= 55296 /\ p <= 57343)}

\* What a fence holds ends with the line break before the closing fence, so the
\* code itself ends with none.
ASSUME PayloadAssumption ==
    /\ Strings \subseteq Seq(Byte)
    /\ Points \subseteq ScalarValues
    /\ Payloads \subseteq Seq(Byte) /\ Blanks \subseteq Nat \ {0}
    /\ \A c \in Codes : c \in Seq(STRING) /\ (c # <<>> => c[Len(c)] # "LF")

\* The names a client sends hold no boundary and no empty line.
ASSUME UploadAssumption ==
    \A u \in Uploads :
        /\ u.audio \in Seq(STRING) /\ u.wordTimestamps \in BOOLEAN
        /\ \A name \in {u.model, u.languageHint} :
              name \in Seq(STRING) /\ \A i \in DOMAIN name : name[i] \notin {"--", "NL"}

VARIABLES
    kind,     \* "string", "escape", "base64", "code" or "upload"
    source, wire,
    state,    \* "source", "wire" or "read"
    cut,      \* history: whether the wire lost its end
    result

payloadVars == <<kind, source, wire, state, cut, result>>

Fresh == wire = <<>> /\ state = "source" /\ cut = FALSE /\ result = Fail

PayloadInit ==
    /\ \/ kind = "string" /\ source \in Strings
       \/ kind = "escape" /\ source \in Points
       \/ kind = "base64" /\ source \in Payloads \X Blanks
       \/ kind = "code" /\ source \in Codes
       \/ kind = "upload" /\ source \in Uploads
    /\ Fresh

PayloadKinds == {"string", "escape", "base64", "code", "upload"}

\* How a JSON encoder that escapes everything outside ASCII writes a point.
Hex4(n) ==
    <<HexDigit(n \div 4096), HexDigit((n \div 256) % 16), HexDigit((n \div 16) % 16),
      HexDigit(n % 16)>>

EscapedPoint(p) ==
    LET u(n) == <<BACKSLASH, LETTERU>> \o Hex4(n)
        x == p - 65536
    IN  IF p < 65536 THEN u(p) ELSE u(55296 + x \div 1024) \o u(56320 + (x % 1024))

\* The base64 text of the bytes, with white space at a place.
Spaced(bytes, at) ==
    LET text == Base!Encode(bytes)
    IN  IF at > Len(text) THEN text ELSE InsertAt(text, at, Base!BLANK)

\* A model's fenced answer, with the language named and a last line break.
Fenced(code) ==
    Answer!Fence \o <<"c", "LF">> \o code \o <<"LF">> \o Answer!Fence \o <<"LF">>

\* How a server takes an upload apart (RFC 2046): it cuts at every delimiter
\* that begins a line; a part is what follows its first empty line.
Cuts(body) ==
    {i \in 1..(Len(body) - 1) : /\ SubSeq(body, i, i + 1) = Form!Delimiter
                                /\ i > 1 => body[i - 1] = "NL"}

PartAt(body, from, to) ==
    LET empty == {i \in from..(to - 1) : body[i] = "NL" /\ body[i + 1] = "NL"}
    IN  IF empty = {} THEN <<"malformed", <<>>>>
        ELSE <<body[from + 3], SubSeq(body, Min(empty) + 2, to - 1)>>

\* The parts that begin at a cut or behind it; the last cut ends the upload.
Parts(body) ==
    LET parts[from \in 1..Len(body)] ==
            LET behind == {i \in Cuts(body) : i > from}
            IN  IF behind = {} THEN <<>>
                ELSE <<PartAt(body, from, Min(behind) - 1)>> \o parts[Min(behind)]
    IN  parts[Min(Cuts(body))]

Encoded ==
    CASE kind = "string" -> EscapeTo(source)
      [] kind = "escape" -> <<QUOTE>> \o EscapedPoint(source) \o <<QUOTE>>
      [] kind = "base64" -> Spaced(source[1], source[2])
      [] kind = "code" -> Fenced(source)
      [] kind = "upload" -> Form!Body(source)

Decoded ==
    CASE kind \in {"string", "escape"} -> ParseString(wire, 1)
      [] kind = "base64" -> Base!Decode(wire)
      [] kind = "code" -> Read(1, Answer!StripCodeFence(Answer!Trimmed(wire)))
      [] kind = "upload" -> Read(1, Parts(wire))

WritePayload ==
    /\ state = "source" /\ kind \in PayloadKinds
    /\ wire' = Encoded /\ state' = "wire"
    /\ UNCHANGED <<kind, source, cut, result>>

LosePayload ==
    /\ state = "wire" /\ ~cut
    /\ kind \in {"string", "base64"}
    /\ \E n \in 0..(Len(wire) - 1) : wire' = SubSeq(wire, 1, n)
    /\ cut' = TRUE
    /\ UNCHANGED <<kind, source, state, result>>

ReadPayload ==
    /\ state = "wire" /\ kind \in PayloadKinds
    /\ result' = Decoded /\ state' = "read"
    /\ UNCHANGED <<kind, source, wire, cut>>

PayloadNext == WritePayload \/ LosePayload \/ ReadPayload

PayloadSpec == PayloadInit /\ [][PayloadNext]_payloadVars

----------------------------------------------------------------------------

Arrived(k) == kind = k /\ state = "read" /\ ~cut

\* A string comes back as it was, whatever its bytes, and the reader stops
\* behind it; one that lost its end is refused, not shortened.
StringRoundTrip ==
    kind = "string" /\ state = "read" =>
        IF cut THEN ~result.ok ELSE result = Read(Len(wire) + 1, source)

\* A character sent as \u escapes arrives as its UTF-8 bytes, whichever plane
\* it is of: reading those bytes gives the code point again.
CodePoint(s) ==
    LET low(i) == s[i] % 64
    IN  CASE Len(s) = 1 -> s[1]
          [] Len(s) = 2 -> 64 * (s[1] % 32) + low(2)
          [] Len(s) = 3 -> 4096 * (s[1] % 16) + 64 * low(2) + low(3)
          [] Len(s) = 4 -> 262144 * (s[1] % 8) + 4096 * low(2) + 64 * low(3) + low(4)
          [] OTHER -> -1

EscapesArrive ==
    Arrived("escape") =>
        /\ result.ok
        /\ CodePoint(result.value) = source
        /\ \A i \in 2..Len(result.value) : result.value[i] \in 128..191

\* Bytes come back as they were, also through line breaks; a payload cut short
\* reads as the beginning of the bytes, which Decode does not report.
Base64RoundTrip ==
    kind = "base64" /\ state = "read" =>
        /\ result.ok
        /\ IsPrefix(result.value, source[1])
        /\ ~cut => result.value = source[1]

\* What is encoded is decoded to what it was: a string in JSON, a character in
\* escapes, bytes in base64 (MiniJson.cpp:33-55, 171-211; Base64.cpp).
ReadsBack == StringRoundTrip /\ EscapesArrive /\ Base64RoundTrip

\* The code a model answers in a fence is found whole, even when it contains
\* fences itself (LocalAdapters.cpp:96-107).
FenceStripped == Arrived("code") => result.value = source

\* The audio and the fields of an upload arrive as they were, however the
\* audio looks, unless it contains the fixed boundary at the beginning of a
\* line (LocalAdapters.cpp:471, 480-482).
HasDelimiter(audio) ==
    \E i \in 1..Len(audio) - 1 :
        /\ SubSeq(audio, i, i + 1) = Form!Delimiter
        /\ i > 1 => audio[i - 1] = "NL"

UploadArrives ==
    Arrived("upload") =>
        (result.value = <<<<"file", source.audio>>>> \o Form!Fields(source)
           <=> ~HasDelimiter(source.audio))
=============================================================================
