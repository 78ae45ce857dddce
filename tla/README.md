# UltraAI in TLA+

TLA+ models of the UltraAI library (`src/`), the TLC configurations that check
them on small instances, and TLAPS proofs of what matters most about them.
Paths below are relative to the repository; line numbers are those of the
commit the models were written from.

## 1. The system

UltraAI is a C++ library of ten AI capabilities (chat, embeddings, speech,
images, ...). An application asks a factory for an adapter of a capability and
calls it; everything runs on the application's threads. There is no event loop
and no background thread: concurrency is the application's, and asynchrony is
callbacks made from inside blocking calls.

| Component | Source | State it keeps | Operations |
|---|---|---|---|
| Provider registry | `src/UltraAIRegistry.h`, `src/BuiltinAdapters.cpp`, `src/Factory*.cpp` | per capability: factory map, default name, mutex; one function-local static | Register, Create, List; EnsureBuiltinAdapters |
| HTTP transport | `adapters/common/HttpClient.cpp` | per call: socket, read buffer, head, chunk decoder, count of delivered bytes | Fetch, FetchStream, MapHttpStatus |
| SSE parser | `adapters/common/SseParser.cpp` | unfinished line, data of the open event | Feed |
| Local adapters | `adapters/local/LocalAdapters.cpp` | configuration; a live transcription session keeps buffered audio | Chat, ChatStream, Embed, Transcribe, StartStream/PushAudio/Finish, Speak, SpeakStream, ListVoices, CloneVoice, Generate, Analyze, Translate, DetectLanguage, Run |
| Mock adapters | `adapters/mock/MockAdapters.cpp` | cloned voices, a session's audio | the same interfaces, plus music and video, deterministic |
| JSON, Base64 | `adapters/common/MiniJson.*`, `Base64.*` | none | parse, serialise, encode, decode |
| Common types | `include/*.h`, `src/UltraAICommon.cpp` | none | the public contracts |
| UltraNet, UltraVault | `Docs/` only | - | described, not implemented |

**How they interact.** Create runs EnsureBuiltinAdapters, which registers the
mock and local adapters through the same Register the application uses, then
looks up a factory and runs it outside the registry's lock. A local adapter
builds a request and calls the transport; `Fetch` collects the body, while
`FetchStream` hands body bytes to a callback as they arrive. Streaming chat is
three components stacked in one call: the transport's reading loop calls the
SSE parser, which calls ChatStream's lambda, which calls the application. The
other operations are sequences of blocking round trips.

**What is hard.**

- *Concurrency.* Threads race on their first Create or List; registrations
  race with lookups; factories call back into the library.
- *Ordering and cutting.* `recv` cuts a response anywhere: inside the head,
  inside a chunk's framing, inside an SSE line. Three incremental parsers must
  each carry over exactly the right remainder.
- *Failure.* The peer may stall, reset or close at any point; one round trip of
  several may fail; a callback may throw through frames that own a socket.
- *Protocol.* Callbacks promise a shape (one terminal event, one chunk marked
  last, progress once) that every exit has to keep.
- *Boundaries.* Audio shorter than three bytes, empty bodies, empty transcripts,
  counts that do not match, step counts below zero, code points at every length
  of UTF-8, base64 groups that are not full.
- *Formats.* JSON inside JSON strings, fences inside fences, audio that looks
  like a multipart delimiter; and bodies cut short, which the transport passes
  on as successes, so that the parser is the only check left.

**What makes each part correct.** Registry: operations are atomic, builtins are
visible to every lookup, defaults never dangle and never move unasked, and no
call blocks for ever. Transport: what is passed on is the beginning of the body
in order; success means the whole body; error pages never reach the streaming
callback; the socket is closed. SSE: exactly the complete events, however they
are cut. ChatStream: the callback protocol, and the right events and usage.
Session: every byte of audio is sent at most once and events agree with the
result. SpeakStream: chunks tile the audio. Request operations: results pair
with inputs, the first error ends the call and earlier results survive. Codecs: what
is written is what is read, and a text cut short is refused. Mock adapters: they
keep the protocols of the real ones, so that what an application learns from
them is true; the tool loop and the glossary loop end.

## 2. The modules

```
RegistryTypes --+-- RegistrySpec        (abstract registry)
                +-- Registry            (statement level) --> implements RegistrySpec
                      +-- RegistryProofs, MCRegistry

HttpStatus, ChunkDecoder, ChunkEncoding
   +-- HttpClient                       --> implements StreamTransport
         +-- HttpClientProofs, MCHttpClient

SseParser -- SseFeed                    (against a reference reading)

StreamTransport + SseParser
   +-- ChatStream                       --> implements StreamContract
         +-- with SseFeed: MCChatStream, ChatStreamProofs

SttSession -- SttSessionProofs      SpeakStream -- SpeakStreamProofs
HttpStatus -- LocalRequests -- MCLocalRequests

JsonString --+-- PayloadCodecs (with Base64, CodeFence, Multipart)
             +-- MiniJson -- ChatBody (with Base64)
PayloadCodecs + ChatBody      -- Codecs -- MCCodecs
PayloadCodecs + LocalRequests -- LocalRequestsProofs

MockChat (--> implements StreamContract), MockSpeech, MockJobs -- MockProofs
   +-- with MockTranslator, SpeakStream: MockAdapters -- MCMockAdapters

SequenceFacts                           (induction, prefixes, folds: used by HttpClientProofs,
                                         ChatStreamProofs, LocalRequestsProofs, MockProofs)
```

StreamTransport is the hinge of the streaming path: HttpClient is shown to
implement it, and ChatStream is built on it (its steps take the transport's
actions `Hand` and `Return` as conjuncts), so ChatStream is checked against
everything the transport may do and not against one server.

**RegistryTypes, Registry, RegistrySpec.** One `Registry<Interface, Config>`
per member of `Caps`. Each call is a member of `Calls` with a program counter;
the actions are the statements of Register, Create, List and
EnsureBuiltinAdapters, so other calls interleave between any two of them. `once`
is the guard of the function-local static (C++ makes late-comers wait: action
`PassOnce` waits for `"done"`). `Within[c]` says that call `c` is made by the
factory of another call, which is how reentrancy is modelled. RegistrySpec is
the registry with atomic operations. In the refinement a registration takes
effect at `Insert`: between `Insert` and `SetDefault`, when the lock is held,
the abstract default, builtin count and return are computed as if `SetDefault`
had run.

**HttpClient, ChunkDecoder, ChunkEncoding, HttpStatus.** `Perform` step by step:
URL and host check, one address at a time, partial sends, then the receive loop.
`Recv(n)` takes any next piece of the response; `Eof` and `RecvFails` may happen
instead at any time. ChunkDecoder is `ChunkDecoder::Feed` as operators on its
state; `Decode` runs half a turn of its loop at a time, because the callback it
makes may throw. A byte is a string that is a digit, "CR", "LF" or something
else. The head is two tokens whose parse yields the status and the framing.
The server is outside the repository: `SizeText` is how it writes each chunk
size, with as many digits, leading zeros and extensions as it likes.
`clean` and `eof` are history variables for the properties only.

**SseParser, SseFeed.** Feed and HandleLine over tokens; `data:` is one token
because the parser looks at complete lines only. SseFeed feeds any text in any
pieces and compares with a reference definition that reads the text at once; its
names are its own (`FeedInit`, `FeedSpec`), so that it can be proved about
together with ChatStream.

**ChatStream, StreamContract, StreamTransport.** The local ChatStream; one
`OnBody` is one piece handed over by the transport with all the callbacks it
causes, or with those up to the one that throws. StreamContract is what
`UltraAITextLLM.h:92` promises the application: a call that has a callback sends
deltas, then one terminal event that agrees with what it returns; only a call
without a callback ends without one. The mock ChatStream implements it for every
call. The local one implements it for every call but one, which has a callback
and no messages: ImplementsContract says so (`Asked`), and `chat_refused` shows
what becomes of that call.

**SttSession.** LocalSttSession: pushes are numbered; Finish moves the buffer
to a request, transcribes and emits; the callback may push or throw in between.
`sent` is a history of the audio of the calls that have ended.

**SpeakStream.** The chunking loop the local and the mock adapter share. Its
names are its own, so that it can be composed with the mock modules.

**LocalRequests.** One action system for all the blocking operations; `Chat`,
`Embed`, `Generate`, `Translate`, `Analyze`, ... say what each makes of a reply.

**JsonString, MiniJson, Base64, CodeFence, Multipart, ChatBody.** The formats,
as operators. MiniJson is the recursive-descent parser over bytes with its
position, one operator per function of the parser, and Dump; the part of it that
reads and writes strings (EscapeTo, ParseString, the \u escapes) is JsonString,
which needs no RECURSIVE operator. `Strtod` is the C library's: the longest
beginning of the text that has one of its forms (decimal or hexadecimal, with a
fraction or an exponent, "inf", "nan", and white space and a sign before it). A
number written as an integer is that integer; any other stands for itself, as
no property is about the double strtod makes of it. Base64 works on indices of the alphabet; of
the 32-bit buffer it keeps the 12 bits that are ever read. ChatBody writes a chat
request (MessageToJson, ToolToJson, the schema) and reads the reply (ChatOnce
with MapToolCalls, MapUsage, MapFinishReason); a name of the protocol is one
letter. CodeFence is StripCodeFence over characters of which "TICK", "LF" and
"SP" are the back-tick, the line end and white space; Multipart is the upload of Transcribe.

**PayloadCodecs, Codecs.** A source is written, may lose its end and is read;
what comes out is compared with what went in. PayloadCodecs does so for what
travels without a JSON document around it: strings, characters sent as escapes,
base64 with white space in it, code in a fence, uploads (`WritePayload`,
`LosePayload`, `ReadPayload`). Its names are its own and it reaches no RECURSIVE
operator, so that it can be proved about together with LocalRequests. Codecs
extends it with JSON documents (`Write`, `LoseEnd`, `ReadBack`), and with texts
that nobody wrote, which are given to the parser and compared with the grammar
of RFC 8259, read by cutting a text at every place (`IsValue`). That grammar has
a second reading, "wide", whose numbers are strtod's and whose strings may hold
control characters. A `turn` goes further: the server's reply is read, the application
runs the tools and asks again, and the server reads that (`Resend`,
`ServerReads`). Where the code that reads is a server, its side is external.

**MockChat, MockSpeech, MockJobs, MockTranslator.** The four kinds of state in
`MockAdapters.cpp`. MockChat is a client in a loop: it speaks, calls Chat, keeps
the answer, runs the tool when asked; or it calls ChatStream, which sends the
words of what Chat would answer. MockSpeech is the live session, and the cloned
voices without a lock, in the two steps of CloneVoice between which another
thread may come. MockJobs has every blocking operation with the arguments it
checks and, for the generators, RunProgress. MockTranslator is the glossary
loop, one search at a time. MockAdapters composes them: the instances share
nothing, so a behaviour uses one of them (`capability`); SpeakStream is one more.

## 3. The runs

| Run | Checks | Instance |
|---|---|---|
| `registry` | TypeOK, DefaultRoutes, BuiltinsReachable, ListsBuiltins, DefaultMovesOnRequest, ImplementsRegistrySpec, CallsReturn | two capabilities (one without a local provider), three calls out of ten kinds, one call nested in another's factory |
| `http` | TypeOK, BodyInOrder, SuccessIsWhole, StreamsOnlySuccess, ImplementsTransport, Returns | 15 responses (sizes of one and two digits, with a leading zero or an extension), cut everywhere, two addresses, request sent in up to two pieces |
| `chat_stream` | EventsOfBody, DispatchesCompleteEvents, ImplementsContract | a chat over six event streams, cut everywhere, ending in every way; or the parser alone on every text of up to five tokens and three longer ones, cut everywhere |
| `stt_session` | TypeOK, AudioInOnePlace, EventsMatchResult | three pushes, three Finishes, two segments |
| `local_requests` | OnePerInput, FirstErrorEndsCall, EarlierResultsSurvive | every operation, up to three inputs, 17 replies |
| `codecs` | ReadsBack, CutJsonIsRefused, ParsesJson, FenceStripped, UploadArrives, ConversationComesBack | nested values, every text of up to five structural bytes, every text of up to five characters of a number, hexadecimals, "inf" and "nan", code points on both sides of every boundary, byte strings of up to seven, code of up to six characters with fences, uploads with delimiters in the audio, 540 turns |
| `mock` | StreamMatchesChat, ToolRequestedOnce, PartialsGrow, VoicesListed, ProgressCompletes, ImplementsContract, EntryReplacesAll, TranslateEnds; of SpeakStream: TypeOK, Tiles, OneLast, Returns | two messages of the user, replies with blanks at every place, two threads that clone, five step counts, glossaries of up to two entries; audio of 0 to 11, 100 and 101 bytes |
| `http_cuts`, `http_status`, `chat_refused`, `stt_session_full`, `json_numbers` | one statement of the documentation each, which the code does not keep | as above |

What the less obvious ones say:

- *BodyInOrder, SuccessIsWhole*: what a caller gets is the beginning of the
  body, and all of it on success, wherever `recv` cut the response. Both exclude
  the cut the code mishandles (`http_cuts`), SuccessIsWhole also a peer that
  closes early. *CutJsonIsRefused* closes that gap: every beginning of a JSON
  document that is not all of it is refused by the parser, so a truncated reply
  ends as an error of the operation.
- *EventsOfBody*: the deltas of a chat stream are those of the whole body read
  at once, and Done carries the last usage, however the body was cut.
- *AudioInOnePlace*: buffer, running request and the requests sent hold every
  push once and in order, also pushes made by the session's own callback.
- *ConversationComesBack*: in a tool loop, what the server said comes back to it
  as it said it (ids, arguments as JSON text, results under their calls), and a
  usage without a total gets one.
- *ReadsBack, FenceStripped, UploadArrives*: a payload is decoded to what was
  encoded. Of one cut short, a string is refused and base64 is read as the
  beginning of the bytes; code comes back whole although it holds fences itself;
  an upload arrives if, and only if, the audio holds no boundary at the beginning
  of a line.
- *ImplementsContract* (chat_stream): a call ends with one terminal event that
  agrees with what it returns, however the transfer goes and wherever the
  callback throws.
- *EarlierResultsSurvive*: a call that fails half-way keeps the translations and
  the answers before the failing one, and all the images before the broken one.
- *ParsesJson*: JSON values come back as they were. No text of the grammar is
  turned down; and what is accepted beyond it (`json_numbers`) differs in its
  numbers and control characters only, not in its structure.
- *StreamMatchesChat*: a client may switch from Chat to ChatStream; it gets the
  same text, but for its white space, and the same usage.
- *VoicesListed*: cloned voices have ids of their own as long as no two calls
  overlap. The model includes overlapping calls, after which nothing is claimed.
- *ProgressCompletes*: progress calls are numbered from one, only the last says
  "done", none follows a refusal, and a success ends in "done" whenever any
  step was configured.
- *EntryReplacesAll, TranslateEnds*: a glossary entry replaces the occurrences
  in the text it was given and nothing it has itself made, and the loop ends,
  unless a term is empty.

**Why the bounds are enough.**

- *Registry*: two racing threads and a nested call reach every pair of
  statements at once, including seeding against an application's registration
  and a factory that calls back; the third call also reads what the other two
  left. Two capabilities separate "same lock" from "other lock". The safety
  properties and the refinement are also proved for every instance, as are most
  of the others' (section 5).
- *Transport*: payloads contain CR, LF and digits, so that payload could be
  taken for framing; two chunks make one boundary between chunks; Content-Length
  is right, too small and too large; `n` in `Recv(n)` takes every value, so every
  cut is explored. Sizes of 11 and 16 bytes have a letter and a second digit, and
  a piece may end between two characters of a size line.
- *Chat, SSE*: an event is a data line and a blank line; five tokens hold every
  combination of a field, a space, a CR and two breaks, and the longer texts add
  second events and joined data lines.
- *Session*: a failing Finish, a retry and a third call show any audio
  that is lost or repeated.
- *SpeakStream*: sizes on both sides of every multiple of three; proved for all.
- *LocalRequests*: three inputs make a first, a middle and a last.
- *Codecs*: JSON values nested twice hold every kind in every kind of container,
  and strings of two of the characters that are escaped differently; a text of
  five structural bytes opens and closes two containers, with a separator too
  many or too few; five characters hold a sign, an integer, a fraction and the
  beginning of an exponent, or a whole exponent behind a digit; base64 has one, two and three bytes in its last group; a
  fence inside the code, at its start and at its end fit in six characters.
- *Mock*: two messages make a tool loop and a second question after it; a reply
  of three characters has a blank before, between and after words; a glossary of
  two entries lets the first make what the second looks for.

Counters with a bound: `MaxPushes`, `MaxFinishes`, `MaxSegments` (SttSession),
`MaxAddrs`, `MsgSize` (HttpClient), `MaxMessages` (MockChat), `MaxEvents`,
`MaxClones` (MockSpeech), `MaxOut` (MockTranslator: the memory a text may fill,
reached only with an empty term), and the length of the texts, responses and
requests in the MC modules. No other variable is cut off. Deadlock checking is
off where a finished call is a final state, which is every model here; that calls
do finish is CallsReturn and Returns.

**Fairness.** Three runs use it. A thread that is inside the library keeps
running, so every step of a call is weakly fair; nothing obliges a thread to
*make* a call (`Call` is not fair). A mutex is passed on and a factory returns
when its own calls have. In the transport every blocking call returns: `connect`
is answered or given up by the host, and `recv` is bounded by SO_RCVTIMEO
(`HttpClient.cpp:207`), whose value no caller changes from its default of 300
seconds. `send` has no timeout, so Returns assumes that the server reads the
request; a server that accepts a large request and never reads it is outside it
(and listed as a hazard). In `mock` a translation
or a chunking loop that has begun runs on the thread that asked for it, and its
callbacks return (`Begun`).

## 4. Where code and documentation disagree

Each is a run that TLC finds violated.

- **`http_cuts`**. `ChunkDecoder::Feed` returns when the CRLF that closes a
  chunk has not arrived (`HttpClient.cpp:159`) but does not remember that it is
  owed: the next call reads the CRLF as a chunk-size line. `strtol` of an empty
  line is 0, so the body ends early, as a success; or it skips the break and the
  next size line is consumed wrongly. `HttpClient.h:42-43` promises bytes
  "already de-chunked". BodyInOrder and SuccessIsWhole therefore hold only for
  transfers in which no piece ended there (`clean`).
- **`http_status`**. A stall after a 429 head is a Timeout; the header promises
  "the mapped error" (`HttpClient.h:43-45`).
- **`stt_session_full`**. Finish empties the buffer before the request succeeds,
  so what a failed Finish took is in no later transcript
  (`UltraAISpeechToText.h:53-54`).
- **`chat_refused`**. A ChatStream "terminates with Done or Error"
  (`UltraAITextLLM.h:92`). With no messages, the local one returns
  InvalidArgument before the callback is ever called (`LocalAdapters.cpp:307-308`);
  the mock sends the Error event (`MockAdapters.cpp:105-110`).
- **`json_numbers`**. Parse "returns false and fills *error on malformed input"
  (`MiniJson.h:61`). It leaves numbers to strtod (`MiniJson.cpp:265`), so a leading
  plus, leading zeros, ".5", "1.", hexadecimals, "inf" and "nan" are accepted;
  control characters in a string are as well (`MiniJson.cpp:207`).

Met on the way, modelled as the code does it, without a run of their own.

- *Registry, transport.* An application that registers before its first Create
  takes the default from mock (`BuiltinAdapters.cpp:21` says mock "stays the
  default provider"). A peer that closes early ends a counted or chunked body as
  a success. An exception from the streaming callback leaves the socket open.
- *Chat.* A fragment of a
  streamed tool call is passed on without the server's index
  (`LocalAdapters.cpp:336`), so fragments of two calls cannot be told apart by it.
  The mock does not send a ToolCallDelta for the tool Chat would ask for. A media
  part that has a URI and no data is sent as an empty data URI.
- *Other operations.* `detectedSourceLanguage` copies the request's source
  language, which is empty exactly when detection was asked for. SpeakStream
  succeeds without a call marked last when the audio has no bytes
  (`UltraAITextToSpeech.h:34-35`). StripCodeFence drops prose after the closing
  fence. The multipart boundary is fixed and not looked for in the audio.
- *Formats.* A high surrogate escape that is followed by an escape that is no low surrogate
  swallows it. Base64 cut short decodes to fewer bytes without an error.
- *Mock.* "every call fails" under `mock.fail` (`MockAdapters.cpp:7`) does not
  hold of StartStream, the sessions, ListVoices, CloneVoice, DetectLanguage and
  CountTokens. The entries of a glossary cascade: a later one applies to what an
  earlier one has put in.

## 5. What is proved

Each component's theorems are for every value of its constants. What several of
them need is in `SequenceFacts`: induction over numbers and over sequences, and
what SequencesExt's `FoldLeft` and `FlattenSeq` compute at an appended element
and over a concatenation. The provers cannot instantiate an induction theorem
that takes a predicate, so induction is stated for a *set* (if it has zero and
every successor, it has all of Nat), from the well-foundedness of Nat; a proof
defines the set of the numbers or sequences that satisfy its claim. A fold is a
fold of one operator, so that operator is the module's constant `Op`, and a proof
takes an instance for each it needs (`TakeLine`, `TakeUsage`, `DigitStep`,
`Base!DecodeChar`).

**`RegistryProofs`** proves, for any number of calls, capabilities, providers,
factories and builtins: type correctness, DefaultRoutes, DefaultMovesOnRequest,
BuiltinsReachable, ListsBuiltins, and that Registry implements RegistrySpec.

DefaultRoutes is not inductive: between Insert and SetDefault the table has a
provider and no default. The inductive invariant `IInv` adds what makes that
window harmless:

- `MutexInv`: a call holds a registry's lock exactly when it is in that
  registry's critical section;
- `KindInv`: a call's position agrees with what it asks for, and only acceptable
  requests are inserted;
- `SeedingInv`, `OnceInv`: at most one call runs the initialiser, it has a
  builtin left to register whenever it registers, and no lookup passes before
  all are registered;
- `TableInv`: a default is always registered, and is missing only while the
  lock's holder is about to set it;
- `SeededInv`: every builtin counted is in the table (nothing ever leaves it);
- `LookupInv`: a Create that is about to read the map still has the name its
  locked default resolves to, which is what makes Resolve and Find one instant.

Each conjunct has its own lemma, with a step per action. The refinement has one
lemma per abstract operation: Insert maps to `Register` or `Seed`, Find to
`Find`, Call, Reject, Build and List to their namesakes, every other statement to
a stutter.

**`HttpClientProofs`** proves type correctness, StreamsOnlySuccess, BodyInOrder,
SuccessIsWhole, that Fetch fills `*response` exactly on success, and that
HttpClient implements StreamTransport, for every set of responses and every cut.

- Which sink: one status, that of the head, has decided between the callback and
  the collected body since the first byte (`Sinks`), which needs that a body is
  looked at only after the head (`Loop`).
- What was passed on: BodyInOrder says nothing of the bytes that wait in the
  decoder, so it is not inductive. `Progress` says that what was passed on is the
  body's share of the bytes that have left the decoder's buffer; that the buffer
  is what has arrived since (`Follows`); and where in the encoding the first byte
  of the buffer lies: before a size line, `remaining` bytes before the end of a
  chunk, or after the last. Two kinds of lemma carry it: *the wire* (what the
  encoding of a list of chunks looks like from any such place: `ClosingWire` and
  its companions) and *the decoder* (a turn of its loop takes a beginning of the
  buffer that is a size line, a piece of a chunk, or a chunk and its break, and
  leaves the rest at such a place again: `TurnInside` and its companions). Both
  hold unless a piece has ended before or inside the break that closes a chunk
  (`CutsChunkEnd`): that is the cut the code mishandles, and the proof fails
  there without `clean`. `SizeLineRead` is where the two meet on a size: whatever
  text the server chooses, an incomplete line is not found, and a complete one is
  read as the size, because strtol stops at the line break at the latest
  (`SameNumber`).
- `Framed`: the head comes first, and a body that is not chunked bypasses the
  decoder.

**`ChatStreamProofs`** proves DispatchesCompleteEvents, EventsOfBody, and that
ChatStream implements StreamContract, for all event streams, payloads and cuts:
every step of a call that has messages or no callback is one of the contract's
(`ContractImplemented`), so that its behaviour is one of the contract
(`ContractKept`). That condition is needed: the contract allows no silent end to
a call with a callback, and `chat_refused` is one.
Everything rests on one fact about the parser, `FeedConcat`: feeding two pieces
leaves it where feeding them together would have. It is proved by showing that
a piece may be fed one token at a time, since a token either extends the open
line or ends it. From it:

- in a chat, while the call runs the parser is where one reading of everything
  handed over would have left it, and events and usage are what that reading
  gives (`Running`); a piece adds the events of its own payloads; a callback that
  throws leaves a beginning of them (`Thrown`), and a call that is over has one
  event more (`Terminated`). EventsOfBody and the contract follow;
- for the parser alone, what it has dispatched after n tokens is what the
  reference reading finds in the first n (`ReadsNext`, one token at a time: the
  reference looks at the text as a whole, by its line ends).

**`LocalRequestsProofs`** proves FirstErrorEndsCall, OnePerInput and
EarlierResultsSurvive for every list of requests and replies. What error an
operation makes of a reply does not depend on the results before it
(`EffectFails`), so "all replies but the last were usable" (`Replied`) is
inductive. For the results, `Holds` says what the code has kept after n replies:
the first n translations in order (`Translated`); of the tasks of an analysis,
an answer for each that was not asked again, since a repeated task overwrites
(`Seen`); and, for operations that ask once, what that reply gives (`Single`).

It also proves ReadsBack, FenceStripped and UploadArrives, for strings, payloads,
code and uploads of every length. They are theorems about `PayloadSpec`, whose
initial states and steps are disjuncts of those of Codecs and are the only ones
that concern these kinds (Codecs itself reaches RECURSIVE operators). The
properties speak of what was read only, so the inductive invariant `PayloadInv`
says where it comes from: the source is one of its kind (`Sourced`), the wire is
`Encoded` or, when cut, a beginning of it and of a kind that may lose its end
(`Shortened`), and what was read is `Decoded`. The rest is about the formats:

- *Strings.* EscapeTo spells each byte in one of a few ways, and ParseString
  reads every spelling as that byte and goes on behind it; the text is thereby
  read one byte of the string after another (`ReadsOn`). A beginning of it that
  lacks the closing quote is refused, wherever it ends.
- *Escapes.* Four hexadecimal digits give the number they were made of, a pair of
  surrogates gives the code point, and the bytes of UTF-8 give it back, for every
  scalar value on both sides of every boundary.
- *Base64.* Four characters of a group restore its three bytes (`GroupDecoded`,
  arithmetic on the 12 bits of the buffer), a last group of one or two bytes is
  restored from its padding, white space changes nothing, and a beginning of the
  text decodes to a beginning of the bytes.
- *Fences.* In what a model sends, the last fence is the closing one whatever the
  code holds, and trimming takes nothing of the code, which ends with no line
  break.
- *Uploads.* The delimiters that begin a line are those the client wrote and
  those of the audio. If the audio holds none, the file part is
  found whole (`FileTaken`) and the fields one after another behind it
  (`FoundOn`); if it holds one, the first part found ends there and is not the
  file that was sent (`FileSplit`).

**`SttSessionProofs`** proves type correctness, AudioInOnePlace and
EventsMatchResult for any number of pushes, Finishes, segments and errors.
AudioInOnePlace is nearly inductive: it needs the sequence types (`Types`).
EventsMatchResult needs `Emitted`: the events so far are a beginning of the
answer's, position by position.

**`SpeakStreamProofs`** proves type correctness, Tiles, OneLast and
NothingAfterLast for audio of every length. The step of the loop is positive for
every size (`ChunkSizePositive`), so each turn extends the tiling, and only the
turn that reaches `size` marks its chunk.

**`MockProofs`** is about the four mock modules, each under its own specification
(MockAdapters lets one of them run and leaves the variables of the others alone):

- ProgressCompletes, for every number of steps: progress is the calls `1..step-1`
  (`JobShape`), so that it is complete when the loop has passed `Steps`;
- PartialsGrow: each partial text shows what some earlier count of bytes did;
- VoicesListed, for any number of threads: without overlaps, `cloned` and what
  was returned are equal and numbered in order, and a call that has chosen its
  id has chosen the next one;
- ToolRequestedOnce, for conversations of any length: once asked, the tool's
  result is in the conversation and stays there;
- ChatStream implements StreamContract: the call is at "Pending" exactly until
  it is done, nothing was sent before it, and words go to a callback only; one lemma per action maps it to
  Refuse, Stream, Terminate, Throw or a stutter;
- StreamMatchesChat, for every text and reply. About texts: the words of a text,
  a blank between each two, are the text with its white space collapsed
  (`WordsSayText`). One goes through the text character by character; the words
  found so far run ahead of the characters kept by what is left of the current
  word, and the characters kept run behind a blank that the next word will bring
  (`Match`). About the stream: the words sent and the words to come are those of
  the answer, and the deltas say the words sent (`Sent`);
- EntryReplacesAll, for every text and glossary. It compares `out` when an entry
  is done with a reference reading of `before`, and is not inductive: nothing is
  said of a search under way. `TranslatorInv` adds it (`Carried`): up to `pos`,
  `out` is what the part of `before` that was searched became, and from `pos` on
  it is the rest of `before`. So what `find` finds from `pos` is the next
  occurrence in `before`, never one that a replacement has made.

*Assumptions.* All are named in the module that declares the constants, and TLC
evaluates each of them in a run.

- RegistryTypes: the empty name is not a name, the empty function not a factory,
  the builtin factories return instances, the builtin lists are sequences of
  capabilities, application requests are well-formed.
- HttpClient: counts of addresses and bytes are naturals; responses have the type
  `Response`. The server can write the size of each of its chunks and 0, on one
  line that strtol reads as that size (`SizeAssumption`); it writes a size the
  same way each time and sends no trailer. An empty chunk would end the body, so
  there is none.
- ChatStream, SseFeed: event streams are sequences of tokens, and payloads have
  the type `Chunk`.
- LocalRequests: requests and replies have the types `Request` and `Reply`; a chat
  or embedding request is valid when it has inputs (`LocalAdapters.cpp` refuses
  the others), and a reply that does not parse has no items.
- PayloadCodecs: strings and payloads are sequences of bytes, code points are
  Unicode scalar values, code ends with no line break (`PayloadAssumption`); the
  names in an upload hold no boundary and no line break (`UploadAssumption`: they
  are the caller's model and language, which the code does not escape).
- SpeakStream, SttSession: sizes and bounds are naturals, and no error has the
  name of another outcome.
- MockChat, MockSpeech, MockJobs: texts and replies are sequences of characters,
  lengths and counts naturals, options integers or absent.
- MockTranslator: texts are sequences of characters, a glossary is a sequence of
  pairs of them, MaxOut is a natural.

The semantics of `std::mutex` and of C++ static initialisation are taken as the
language gives them.

*Only model-checked.* CallsReturn, Returns (HttpClient and SpeakStream) and
TranslateEnds are liveness under fairness, which is outside the prover.
CutJsonIsRefused, ParsesJson and ConversationComesBack are about JSON documents
nested to any depth: Dump and the parser are RECURSIVE operators, as they are
mutually recursive functions in the code, and the prover has no arithmetic in a
module that reaches one. The `violation` runs are counterexamples and need no
proof.

## 6. Not modelled

- *Prompts and small request bodies* of the operations other than chat and
  transcription, headers and base URLs: wording; no property is about it.
- *Floating point*: CosineSimilarity, and the double that strtod makes of a
  number which is not written as an integer (which text it takes is modelled).
- *Common helpers*: ErrorCodeName is a table. *CloneVoice* of the local adapter:
  always NotSupported.
- *A Finish called from its own callback*: nothing says it is allowed.
- *SIGPIPE* on send, exhaustion of memory or stack, sizes past 2^31: outside the
  model, and listed as such in the hazards.
- *UltraNet and UltraVault*: documents only. *Examples, tests, build*: users of
  the library.

## 7. Plan

Done: the registry, the streaming path (transport, SSE, chat), the local session,
speech streaming, the blocking operations, the formats and the mock adapters,
with proofs of every safety property but the three about nested JSON documents.

Next, in order:

1. The JSON parser as functions over positions instead of RECURSIVE operators, so
   that CutJsonIsRefused can be proved by induction over the length of the text.
2. A composed streaming model in which HttpClient drives ChatStream directly, to
   check EventsOfBody end to end for chunked bodies.
3. The small request bodies, if a property is ever about them.

## 8. Running

    tlc -config MCRegistry.cfg MCRegistry        # and so on, per run
    tlapm RegistryProofs.tla                     # and so on, per *Proofs module

Operators named "Mutant of X" stand beside the definition they vary. They are
not part of the model: each is a plausible mistake in the code that must break
the property `PROJECT.json` pairs it with.
