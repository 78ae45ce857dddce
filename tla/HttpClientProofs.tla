-------------------------- MODULE HttpClientProofs --------------------------
(***************************************************************************)
(* Proofs about HttpClient for every server and every way a response may   *)
(* be cut: which of the two sinks a body goes to, what a caller finds in   *)
(* *response, that the body is passed on whole and in order, and that      *)
(* FetchStream implements StreamTransport.                                 *)
(***************************************************************************)
EXTENDS HttpClient, TLAPS, SequenceTheorems

\* What Strtol folds over the digits.
DigitStep(v, b) == 16 * v + DigitValue(b)

INSTANCE SequenceFacts WITH Op <- DigitStep

Streams == api = "stream" /\ Success(resp.status)

\* The body is only looked at once the head has been.
Loop ==
    /\ pc \in {"decode", "check"} => headParsed
    /\ headParsed => status = resp.status
    /\ pc # "done" => result = "Pending"

\* One status decides between the two sinks for the whole body.
Sinks ==
    /\ Streams => collected = <<>>
    /\ ~Streams => handed = <<>> /\ ~streaming

\* Fetch fills *response exactly when it succeeds, with the status and the
\* body of the response it has read.
ResponseOnSuccess ==
    api = "fetch" =>
        response = IF result = "None"
                   THEN [status |-> resp.status, body |-> collected] ELSE NoResponse

\* What the call ended with agrees with the head.
Outcome ==
    /\ (api = "stream" /\ result = "None") => Success(resp.status)
    /\ ResponseOnSuccess

IInv == Loop /\ Sinks /\ Outcome

LEMMA StatusNone == ASSUME NEW s, MapHttpStatus(s) = "None" PROVE Success(s)
  BY DEF MapHttpStatus

LEMMA SuccessMaps == ASSUME NEW s, Success(s) PROVE MapHttpStatus(s) = "None"
<1>1. s \in 200..299
  BY DEF Success
<1>2. s \notin {401, 403} /\ s # 429 /\ s \notin 400..499 /\ ~(s >= 500)
  BY <1>1
<1> QED BY <1>2 DEF MapHttpStatus

LEMMA InitIInv == Init => IInv
  BY DEF Init, IInv, Loop, Sinks, Outcome, ResponseOnSuccess

\* The sink, called with the status of the head, keeps to one side.
LEMMA SinkKeepsSinks ==
  ASSUME NEW data, NEW s, IInv, s = resp.status, Sink(data, s), UNCHANGED request
  PROVE  Sinks'
<1>1. Streams' = Streams
  BY DEF Streams, request
<1>2. CASE data = <<>>
  BY <1>1, <1>2 DEF Sink, sink, IInv, Sinks
<1>3. CASE data # <<>> /\ Streams
  BY <1>1, <1>3 DEF Sink, IInv, Sinks, Streams
<1>4. CASE data # <<>> /\ ~Streams
  BY <1>1, <1>4 DEF Sink, IInv, Sinks, Streams
<1> QED BY <1>2, <1>3, <1>4

\* A step that leaves sinks and head alone and does not return.
LEMMA QuietStep ==
  ASSUME IInv, UNCHANGED <<request, sink, headParsed, status, ended>>,
         pc # "done", pc' \in {"decode", "check"} => headParsed
  PROVE  IInv'
  BY DEF IInv, Loop, Sinks, Outcome, ResponseOnSuccess, Streams, request, sink, ended

\* A return that reports success has seen the head.
LEMMA ReturnStep ==
  ASSUME NEW err, IInv, pc # "done", Return(err), err = "None" => headParsed,
         UNCHANGED <<request, sink, headParsed, status>>
  PROVE  IInv'
<1>1. Loop' /\ Sinks'
  BY DEF Return, IInv, Loop, Sinks, Streams, request, sink
<1>2. (api = "stream" /\ result' = "None") => Success(resp.status)
  BY StatusNone DEF Return, IInv, Loop
<1>3. ResponseOnSuccess'
  BY DEF Return, IInv, Loop, Outcome, ResponseOnSuccess, request, sink
<1> QED BY <1>1, <1>2, <1>3 DEF IInv, Outcome, request

\* Body bytes that follow the head are given to the sink of its status.
LEMMA TakeBodyStep ==
  ASSUME NEW data, NEW s, IInv, s = resp.status, TakeBody(data, s),
         pc = "recv", headParsed', status' = resp.status,
         UNCHANGED <<request, ended>>
  PROVE  IInv'
<1>1. pc' \in {"decode", "check"}
  BY DEF TakeBody
<1>2. Loop'
  BY <1>1 DEF IInv, Loop, request, ended
<1>3. Sinks'
  <2>1. CASE chunked
    BY <2>1 DEF TakeBody, IInv, Sinks, Streams, sink, request
  <2>2. CASE ~chunked
    BY <2>2, SinkKeepsSinks DEF TakeBody
  <2> QED BY <2>1, <2>2
<1>4. Outcome'
  BY <1>1 DEF IInv, Loop, Outcome, ResponseOnSuccess, request, ended
<1> QED BY <1>2, <1>3, <1>4 DEF IInv

LEMMA RecvStep == ASSUME IInv, NEW n, Recv(n) PROVE IInv'
<1> DEFINE rest == Bytes(SubSeq(wire, arrived + 1, arrived'))
           first == Bytes(SubSeq(wire, Len(HeadBytes) + 1, arrived'))
<1>1. pc = "recv" /\ UNCHANGED request
  BY DEF Recv
<1> HIDE DEF rest, first
<1>2. CASE headParsed /\ TakeBody(rest, status)
           /\ UNCHANGED <<headParsed, status, sock, ended>>
  <2>1. status = resp.status
    BY <1>2 DEF IInv, Loop
  <2> QED BY <1>1, <1>2, <2>1, TakeBodyStep
<1>3. CASE UNCHANGED <<headParsed, status, bodyDelivered, dec, pc, sink, sock, ended>>
  BY <1>1, <1>3, QuietStep
<1>4. CASE Return("Network") /\ UNCHANGED <<headParsed, status, bodyDelivered, dec, sink>>
  BY <1>1, <1>4, ReturnStep
<1>5. CASE headParsed' = TRUE /\ status' = resp.status /\ TakeBody(first, resp.status)
           /\ UNCHANGED <<sock, ended>>
  BY <1>1, <1>5, TakeBodyStep
<1> QED BY <1>2, <1>3, <1>4, <1>5 DEF Recv, rest, first

LEMMA StepIInv == IInv /\ [Next]_vars => IInv'
<1> SUFFICES ASSUME IInv, [Next]_vars PROVE IInv'
  OBVIOUS
<1>1. CASE Start
  <2>1. UNCHANGED <<request, sink, headParsed, status>> /\ pc = "start"
    BY <1>1 DEF Start, reading
  <2>2. CASE \E err \in {"InvalidArgument", "Network"} : Return(err)
    BY <2>1, <2>2, ReturnStep
  <2>3. CASE pc' = "connect" /\ UNCHANGED <<sock, ended>>
    BY <2>1, <2>3, QuietStep
  <2> QED BY <1>1, <2>2, <2>3 DEF Start
<1>2. CASE Connect
  <2>1. UNCHANGED <<request, sink, headParsed, status>> /\ pc = "connect"
    BY <1>2 DEF Connect, reading
  <2>2. CASE Return("Network")
    BY <2>1, <2>2, ReturnStep
  <2>3. CASE pc' \in {"connect", "send"} /\ UNCHANGED ended
    BY <2>1, <2>3, QuietStep
  <2> QED BY <1>2, <2>1, <2>2, <2>3 DEF Connect
<1>3. CASE Send
  <2>1. UNCHANGED <<request, sink, headParsed, status>> /\ pc = "send"
    BY <1>3 DEF Send, reading
  <2>2. CASE Return("Network")
    BY <2>1, <2>2, ReturnStep
  <2>3. CASE pc' \in {"send", "recv"} /\ UNCHANGED ended
    BY <2>1, <2>3, QuietStep
  <2> QED BY <1>3, <2>2, <2>3 DEF Send
<1>4. CASE Eof
  BY <1>4, ReturnStep DEF Eof, reading
<1>5. CASE RecvFails
  BY <1>5, ReturnStep DEF RecvFails, reading
<1>6. CASE Decode
  <2>1. /\ pc = "decode" /\ pc' \in {"decode", "check"}
        /\ Sink(dec'.sunk, status)
        /\ UNCHANGED <<request, headParsed, status, ended>>
    BY <1>6 DEF Decode
  <2>2. status = resp.status /\ headParsed
    BY <2>1 DEF IInv, Loop
  <2>3. Sinks'
    BY <2>1, <2>2, SinkKeepsSinks
  <2> QED BY <2>1, <2>2, <2>3 DEF IInv, Loop, Outcome, ResponseOnSuccess, request, ended
<1>7. CASE Malformed
  BY <1>7, ReturnStep DEF Malformed, reading
<1>8. CASE Check
  <2>1. /\ pc = "check" /\ headParsed
        /\ UNCHANGED <<request, sink, headParsed, status>>
    BY <1>8 DEF Check, reading, IInv, Loop
  <2>2. CASE Return("None")
    BY <2>1, <2>2, ReturnStep
  <2>3. CASE pc' = "recv" /\ UNCHANGED ended
    BY <2>1, <2>3, QuietStep
  <2> QED BY <1>8, <2>2, <2>3 DEF Check
<1>9. CASE CallbackThrows
  BY <1>9 DEF CallbackThrows, IInv, Loop, Sinks, Outcome, ResponseOnSuccess,
              Streams, request, sink, reading
<1>10. CASE \E n \in 1..(Len(wire) - arrived) : Recv(n)
  BY <1>10, RecvStep
<1>11. CASE UNCHANGED vars
  BY <1>11 DEF vars, IInv, Loop, Sinks, Outcome, ResponseOnSuccess, Streams
<1> QED BY <1>1, <1>2, <1>3, <1>4, <1>5, <1>6, <1>7, <1>8, <1>9, <1>10, <1>11
        DEF Next

THEOREM Invariance == Spec => []IInv
  BY InitIInv, StepIInv, PTL DEF Spec

\* onBody is only called for 2xx responses and what it was given is never kept
\* as the error text, whatever the server sends and however it is cut.
THEOREM StreamsOnlySuccessAlways == Spec => []StreamsOnlySuccess
<1>1. IInv => StreamsOnlySuccess
  BY DEF IInv, Sinks, Outcome, Streams, StreamsOnlySuccess
<1> QED BY <1>1, Invariance, PTL

\* The adapters never map the status, or read the body, of a response that was
\* not read to its end.
THEOREM ResponseOnSuccessAlways == Spec => []ResponseOnSuccess
<1>1. IInv => ResponseOnSuccess
  BY DEF IInv, Outcome
<1> QED BY <1>1, Invariance, PTL

----------------------------------------------------------------------------
(***************************************************************************)
(* Beginnings and ends of sequences.                                       *)
(***************************************************************************)

LEMMA TakeDrop ==
  ASSUME NEW S, NEW s \in Seq(S), NEW n \in 0..Len(s)
  PROVE  /\ Take(s, n) \in Seq(S) /\ Len(Take(s, n)) = n
         /\ \A i \in 1..n : Take(s, n)[i] = s[i]
         /\ Drop(s, n) \in Seq(S) /\ Len(Drop(s, n)) = Len(s) - n
         /\ \A i \in 1..(Len(s) - n) : Drop(s, n)[i] = s[n + i]
         /\ s = Take(s, n) \o Drop(s, n)
<1>1. Len(s) \in Nat /\ n \in Nat /\ \A i \in 1..Len(s) : s[i] \in S
  BY LenProperties, ElementOfSeq
<1>2. /\ Take(s, n) \in Seq(S) /\ Len(Take(s, n)) = n
      /\ \A i \in 1..n : Take(s, n)[i] = s[i]
  <2>1. \A i \in 1..n : s[i] \in S
    BY <1>1
  <2> QED BY <1>1, <2>1, SubSeqProperties DEF Take
<1>3. Drop(s, n) \in Seq(S) /\ Len(Drop(s, n)) = Len(s) - n
  <2>1. \A i \in (n + 1)..Len(s) : s[i] \in S
    BY <1>1
  <2>2. /\ Drop(s, n) \in Seq(S)
        /\ Len(Drop(s, n)) = IF n + 1 <= Len(s) THEN Len(s) - (n + 1) + 1 ELSE 0
    BY <1>1, <2>1, SubSeqProperties DEF Drop
  <2> QED BY <1>1, <2>2
<1>4. \A i \in 1..(Len(s) - n) : Drop(s, n)[i] = s[n + i]
  <2>1. \A i \in (n + 1)..Len(s) : s[i] \in S
    BY <1>1
  <2>2. \A i \in 1..(Len(s) - (n + 1) + 1) : Drop(s, n)[i] = s[(n + 1) + i - 1]
    BY <1>1, <2>1, SubSeqProperties DEF Drop
  <2>3. Len(s) - (n + 1) + 1 = Len(s) - n /\ \A i \in Nat : (n + 1) + i - 1 = n + i
    BY <1>1
  <2> QED BY <2>2, <2>3
<1>5. s = Take(s, n) \o Drop(s, n)
  <2>1. 1 \in 1..(Len(s) + 1) /\ n \in (1 - 1)..Len(s) /\ Len(s) \in n..Len(s)
    BY <1>1
  <2> QED BY <2>1, ConcatAdjacentSubSeq, SubSeqFull DEF Take, Drop
<1> QED BY <1>2, <1>3, <1>4, <1>5

\* u is the m elements of s followed by the n elements of t.
Joined(u, s, t, m, n) ==
    Len(u) = m + n /\ \A i \in 1..(m + n) : u[i] = IF i <= m THEN s[i] ELSE t[i - m]

LEMMA ConcatIs ==
  ASSUME NEW S, NEW s \in Seq(S), NEW t \in Seq(S)
  PROVE  s \o t \in Seq(S) /\ Joined(s \o t, s, t, Len(s), Len(t))
  BY ConcatProperties DEF Joined

LEMMA TakeDropEnds ==
  ASSUME NEW S, NEW s \in Seq(S)
  PROVE  /\ Take(s, 0) = <<>> /\ Drop(s, 0) = s
         /\ Take(s, Len(s)) = s /\ Drop(s, Len(s)) = <<>>
<1>1. Len(s) \in Nat /\ 0 \in 0..Len(s) /\ Len(s) \in 0..Len(s)
  BY LenProperties
<1>2. Take(s, 0) = <<>> /\ Take(s, Len(s)) = s
  BY <1>1, SubSeqEmpty, SubSeqFull DEF Take
<1>3. Drop(s, 0) = s
  BY SubSeqFull DEF Drop
<1>4. Drop(s, Len(s)) = <<>>
  BY <1>1, SubSeqEmpty DEF Drop
<1> QED BY <1>2, <1>3, <1>4

LEMMA OfConcat ==
  ASSUME NEW S, NEW s \in Seq(S), NEW t \in Seq(S), NEW n \in 0..Len(s)
  PROVE  /\ Take(s \o t, n) = Take(s, n)
         /\ Drop(s \o t, n) = Drop(s, n) \o t
<1> DEFINE u == s \o t
           a == Drop(u, n)
           d == Drop(s, n)
           b == d \o t
<1>1. Len(s) \in Nat /\ Len(t) \in Nat /\ n \in Nat
  BY LenProperties
<1>2. /\ u \in Seq(S) /\ Len(u) = Len(s) + Len(t)
      /\ \A i \in 1..(Len(s) + Len(t)) : u[i] = IF i <= Len(s) THEN s[i] ELSE t[i - Len(s)]
  BY ConcatProperties
<1> HIDE DEF u
<1>3. n \in 0..Len(u)
  BY <1>1, <1>2
<1>4. Take(u, n) = Take(s, n)
  <2>1. /\ Take(u, n) \in Seq(S) /\ Len(Take(u, n)) = n /\ \A i \in 1..n : Take(u, n)[i] = u[i]
    BY <1>2, <1>3, TakeDrop
  <2>2. /\ Take(s, n) \in Seq(S) /\ Len(Take(s, n)) = n /\ \A i \in 1..n : Take(s, n)[i] = s[i]
    BY TakeDrop
  <2>3. \A i \in 1..n : u[i] = s[i]
    BY <1>1, <1>2
  <2> QED BY <2>1, <2>2, <2>3, SeqEqual
<1>5. /\ a \in Seq(S) /\ Len(a) = Len(u) - n /\ \A i \in 1..(Len(u) - n) : a[i] = u[n + i]
  BY <1>2, <1>3, TakeDrop
<1>6. /\ d \in Seq(S) /\ Len(d) = Len(s) - n /\ \A i \in 1..(Len(s) - n) : d[i] = s[n + i]
  BY TakeDrop
<1> HIDE DEF a, d
<1>7. /\ b \in Seq(S) /\ Len(b) = Len(d) + Len(t)
      /\ \A i \in 1..(Len(d) + Len(t)) : b[i] = IF i <= Len(d) THEN d[i] ELSE t[i - Len(d)]
  BY <1>6, ConcatProperties
<1> HIDE DEF b
<1>8. Len(a) = Len(b)
  BY <1>1, <1>2, <1>5, <1>6, <1>7
<1>9. \A i \in 1..Len(a) : a[i] = b[i]
  <2> TAKE i \in 1..Len(a)
  <2>1. i \in 1..(Len(u) - n) /\ n + i \in 1..(Len(s) + Len(t)) /\ i \in 1..(Len(d) + Len(t))
    BY <1>1, <1>2, <1>5, <1>7, <1>8
  <2>2. a[i] = u[n + i] /\ u[n + i] = IF n + i <= Len(s) THEN s[n + i] ELSE t[n + i - Len(s)]
    BY <1>2, <1>5, <2>1
  <2>3. CASE i <= Len(d)
    <3>1. i \in 1..(Len(s) - n) /\ n + i <= Len(s)
      BY <1>1, <1>6, <2>1, <2>3
    <3>2. d[i] = s[n + i]
      BY <1>6, <3>1
    <3> QED BY <1>7, <2>1, <2>2, <2>3, <3>1, <3>2
  <2>4. CASE ~(i <= Len(d))
    <3>1. ~(n + i <= Len(s)) /\ n + i - Len(s) = i - Len(d)
      BY <1>1, <1>6, <2>1, <2>4
    <3> QED BY <1>7, <2>1, <2>2, <2>4, <3>1
  <2> QED BY <2>3, <2>4
<1>10. a = b
  BY <1>5, <1>7, <1>8, <1>9, SeqEqual
<1> QED BY <1>4, <1>10 DEF u, a, b, d

\* The end of a first part and the beginning of a second.
LEMMA AfterFirst ==
  ASSUME NEW S, NEW s \in Seq(S), NEW t \in Seq(S)
  PROVE  Take(s \o t, Len(s)) = s /\ Drop(s \o t, Len(s)) = t
<1>1. Len(s) \in 0..Len(s)
  BY LenProperties
<1>2. Take(s \o t, Len(s)) = Take(s, Len(s)) /\ Drop(s \o t, Len(s)) = Drop(s, Len(s)) \o t
  BY <1>1, OfConcat
<1>3. Take(s, Len(s)) = s /\ Drop(s, Len(s)) = <<>>
  BY TakeDropEnds
<1> QED BY <1>2, <1>3, ConcatEmptySeq

LEMMA InTwoSteps ==
  ASSUME NEW S, NEW s \in Seq(S), NEW m \in 0..Len(s), NEW n \in 0..(Len(s) - m)
  PROVE  /\ Drop(Drop(s, m), n) = Drop(s, m + n)
         /\ Take(s, m + n) = Take(s, m) \o Take(Drop(s, m), n)
         /\ SubSeq(s, m + 1, m + n) = Take(Drop(s, m), n)
<1> DEFINE r == Drop(s, m)
           c == SubSeq(s, m + 1, m + n)
           a == Drop(r, n)
           b == Drop(s, m + n)
           t == Take(r, n)
<1>1. Len(s) \in Nat /\ m \in Nat /\ n \in Nat /\ m + n \in 0..Len(s) /\ m + n \in Nat
  BY LenProperties
<1>2. r \in Seq(S) /\ Len(r) = Len(s) - m /\ \A i \in 1..(Len(s) - m) : r[i] = s[m + i]
  BY TakeDrop
<1> HIDE DEF r
<1>3. n \in 0..Len(r)
  BY <1>1, <1>2
<1>4. a = b
  <2>1. a \in Seq(S) /\ Len(a) = Len(r) - n /\ \A i \in 1..(Len(r) - n) : a[i] = r[n + i]
    BY <1>2, <1>3, TakeDrop
  <2>2. b \in Seq(S) /\ Len(b) = Len(s) - (m + n)
        /\ \A i \in 1..(Len(s) - (m + n)) : b[i] = s[(m + n) + i]
    BY <1>1, TakeDrop
  <2> HIDE DEF a, b
  <2>3. Len(a) = Len(b)
    BY <1>1, <1>2, <2>1, <2>2
  <2>4. \A i \in 1..Len(a) : a[i] = b[i]
    <3> TAKE i \in 1..Len(a)
    <3>1. i \in 1..(Len(r) - n) /\ i \in 1..(Len(s) - (m + n)) /\ n + i \in 1..(Len(s) - m)
          /\ m + (n + i) = (m + n) + i
      BY <1>1, <1>2, <2>1, <2>2, <2>3
    <3>2. a[i] = r[n + i] /\ b[i] = s[(m + n) + i]
      BY <2>1, <2>2, <3>1
    <3>3. r[n + i] = s[m + (n + i)]
      BY <1>2, <3>1
    <3> QED BY <3>1, <3>2, <3>3
  <2> QED BY <2>1, <2>2, <2>3, <2>4, SeqEqual
<1>5. c = t
  <2>1. t \in Seq(S) /\ Len(t) = n /\ \A i \in 1..n : t[i] = r[i]
    BY <1>2, <1>3, TakeDrop
  <2>2. \A i \in (m + 1)..(m + n) : s[i] \in S
    BY <1>1, ElementOfSeq
  <2>3. c \in Seq(S) /\ Len(c) = n /\ \A i \in 1..n : c[i] = s[m + i]
    <3>1. /\ c \in Seq(S) /\ Len(c) = IF m + 1 <= m + n THEN (m + n) - (m + 1) + 1 ELSE 0
          /\ \A i \in 1..((m + n) - (m + 1) + 1) : c[i] = s[(m + 1) + i - 1]
      BY <1>1, <2>2, SubSeqProperties
    <3>2. (m + n) - (m + 1) + 1 = n /\ \A i \in Nat : (m + 1) + i - 1 = m + i
      BY <1>1
    <3> HIDE DEF c
    <3>3. Len(c) = n
      BY <1>1, <3>1
    <3> QED BY <3>1, <3>2, <3>3
  <2>4. \A i \in 1..n : r[i] = s[m + i]
    BY <1>1, <1>2
  <2> HIDE DEF c, t
  <2> QED BY <2>1, <2>3, <2>4, SeqEqual
<1>6. Take(s, m + n) = Take(s, m) \o c
  <2>1. 1 \in 1..(Len(s) + 1) /\ m \in (1 - 1)..Len(s) /\ m + n \in m..Len(s)
    BY <1>1
  <2> QED BY <2>1, ConcatAdjacentSubSeq DEF Take
<1> QED BY <1>4, <1>5, <1>6 DEF a, b, c, t, r

----------------------------------------------------------------------------
(***************************************************************************)
(* What is on the wire, and which of it is the body's.                     *)
(***************************************************************************)

Byte == STRING \cup Range(HexDigits) \cup {"CR", "LF", "head", "blank"}
Role == {"head", "size", "data", "end", "last"}
Item == [b : Byte, role : Role]
Sizes == DOMAIN SizeText
Chunk == {c \in Seq(Byte) : Len(c) \in Sizes \ {0}}

LEMMA ItemIs ==
  /\ \A x \in Item : x.b \in Byte
  /\ \A b \in Byte, role \in Role : [b |-> b, role |-> role] \in Item
  BY DEF Item

LEMMA TaggedIs ==
  ASSUME NEW role \in Role, NEW s \in Seq(Byte)
  PROVE  /\ Tagged(role, s) \in Seq(Item) /\ Len(Tagged(role, s)) = Len(s)
         /\ \A i \in 1..Len(s) : Tagged(role, s)[i] = [b |-> s[i], role |-> role]
<1> DEFINE w == Tagged(role, s)
<1>1. Len(s) \in Nat /\ \A i \in 1..Len(s) : s[i] \in Byte
  BY LenProperties, ElementOfSeq
<1>2. \A i \in 1..Len(s) : w[i] = [b |-> s[i], role |-> role]
  BY DEF Tagged
<1>3. \A i \in 1..Len(s) : w[i] \in Item
  <2> TAKE i \in 1..Len(s)
  <2>1. s[i] \in Byte
    BY <1>1
  <2>2. [b |-> s[i], role |-> role] \in Item
    BY <2>1, ItemIs
  <2> QED BY <1>2, <2>2
<1>4. w = [i \in 1..Len(s) |-> w[i]] /\ DOMAIN w = 1..Len(s)
  BY DEF Tagged
<1> HIDE DEF w
<1>5. w \in Seq(Item) /\ Len(w) = Len(s)
  BY <1>1, <1>3, <1>4, SeqByIndex
<1> QED BY <1>2, <1>5 DEF w

LEMMA TaggedTakeDrop ==
  ASSUME NEW role \in Role, NEW s \in Seq(Byte), NEW n \in 0..Len(s)
  PROVE  /\ Take(Tagged(role, s), n) = Tagged(role, Take(s, n))
         /\ Drop(Tagged(role, s), n) = Tagged(role, Drop(s, n))
<1> DEFINE w == Tagged(role, s)
           st == Take(s, n)
           sd == Drop(s, n)
           wt == Take(w, n)
           wd == Drop(w, n)
<1>1. /\ w \in Seq(Item) /\ Len(w) = Len(s)
      /\ \A i \in 1..Len(s) : w[i] = [b |-> s[i], role |-> role]
      /\ Len(s) \in Nat /\ n \in Nat
  BY TaggedIs, LenProperties
<1> HIDE DEF w
<1>2. /\ wt \in Seq(Item) /\ Len(wt) = n /\ \A i \in 1..n : wt[i] = w[i]
      /\ wd \in Seq(Item) /\ Len(wd) = Len(s) - n
      /\ \A i \in 1..(Len(s) - n) : wd[i] = w[n + i]
  <2>1. n \in 0..Len(w) /\ Len(w) - n = Len(s) - n
    BY <1>1
  <2>2. /\ wt \in Seq(Item) /\ Len(wt) = n /\ \A i \in 1..n : wt[i] = w[i]
        /\ wd \in Seq(Item) /\ Len(wd) = Len(w) - n
        /\ \A i \in 1..(Len(w) - n) : wd[i] = w[n + i]
    BY <1>1, <2>1, TakeDrop
  <2> HIDE DEF wt, wd
  <2> QED BY <2>1, <2>2
<1>3. /\ st \in Seq(Byte) /\ Len(st) = n /\ \A i \in 1..n : st[i] = s[i]
      /\ sd \in Seq(Byte) /\ Len(sd) = Len(s) - n
      /\ \A i \in 1..(Len(s) - n) : sd[i] = s[n + i]
  BY TakeDrop
<1> HIDE DEF st, sd, wt, wd
<1>4. /\ Tagged(role, st) \in Seq(Item) /\ Len(Tagged(role, st)) = n
      /\ \A i \in 1..n : Tagged(role, st)[i] = [b |-> st[i], role |-> role]
  BY <1>3, TaggedIs
<1>5. /\ Tagged(role, sd) \in Seq(Item) /\ Len(Tagged(role, sd)) = Len(s) - n
      /\ \A i \in 1..(Len(s) - n) : Tagged(role, sd)[i] = [b |-> sd[i], role |-> role]
  <2>1. /\ Tagged(role, sd) \in Seq(Item) /\ Len(Tagged(role, sd)) = Len(sd)
        /\ \A i \in 1..Len(sd) : Tagged(role, sd)[i] = [b |-> sd[i], role |-> role]
    BY <1>3, TaggedIs
  <2>2. Len(sd) = Len(s) - n
    BY <1>3
  <2> QED BY <2>1, <2>2
<1>6. wt = Tagged(role, st)
  <2>1. \A i \in 1..n : wt[i] = Tagged(role, st)[i]
    <3> TAKE i \in 1..n
    <3>1. i \in 1..Len(s)
      BY <1>1
    <3> QED BY <1>1, <1>2, <1>3, <1>4, <3>1
  <2> QED BY <1>2, <1>4, <2>1, SeqEqual
<1>7. wd = Tagged(role, sd)
  <2>1. \A i \in 1..(Len(s) - n) : wd[i] = Tagged(role, sd)[i]
    <3> TAKE i \in 1..(Len(s) - n)
    <3>1. n + i \in 1..Len(s)
      BY <1>1
    <3> QED BY <1>1, <1>2, <1>3, <1>5, <3>1
  <2> QED BY <1>2, <1>5, <2>1, SeqEqual
<1> QED BY <1>6, <1>7 DEF w, st, sd, wt, wd

LEMMA BytesIs ==
  ASSUME NEW w \in Seq(Item)
  PROVE  /\ Bytes(w) \in Seq(Byte) /\ Len(Bytes(w)) = Len(w)
         /\ \A i \in 1..Len(w) : Bytes(w)[i] = w[i].b
<1> DEFINE s == Bytes(w)
<1>1. Len(w) \in Nat /\ \A i \in 1..Len(w) : w[i] \in Item
  BY LenProperties, ElementOfSeq
<1>2. \A i \in 1..Len(w) : s[i] = w[i].b
  BY DEF Bytes
<1>3. \A i \in 1..Len(w) : s[i] \in Byte
  BY <1>1, <1>2, ItemIs
<1>4. s = [i \in 1..Len(w) |-> s[i]] /\ DOMAIN s = 1..Len(w)
  BY DEF Bytes
<1> HIDE DEF s
<1>5. s \in Seq(Byte) /\ Len(s) = Len(w)
  BY <1>1, <1>3, <1>4, SeqByIndex
<1> QED BY <1>2, <1>5 DEF s

Picked(w) == [i \in 1..Len(w) |-> IF w[i].role = "data" THEN <<w[i].b>> ELSE <<>>]

LEMMA PayloadIs ==
  ASSUME NEW w \in Seq(Item)
  PROVE  /\ Picked(w) \in Seq(Seq(Byte)) /\ Len(Picked(w)) = Len(w)
         /\ \A i \in 1..Len(w) : Picked(w)[i] = IF w[i].role = "data" THEN <<w[i].b>> ELSE <<>>
         /\ Payload(w) = FlattenSeq(Picked(w)) /\ Payload(w) \in Seq(Byte)
<1> DEFINE s == Picked(w)
<1>1. Len(w) \in Nat /\ \A i \in 1..Len(w) : w[i] \in Item
  BY LenProperties, ElementOfSeq
<1>2. \A i \in 1..Len(w) : s[i] = IF w[i].role = "data" THEN <<w[i].b>> ELSE <<>>
  BY DEF Picked
<1>3. \A i \in 1..Len(w) : s[i] \in Seq(Byte)
  <2> TAKE i \in 1..Len(w)
  <2>1. w[i].b \in Byte
    BY <1>1, ItemIs
  <2>2. <<w[i].b>> \in Seq(Byte) /\ <<>> \in Seq(Byte)
    BY <2>1
  <2> QED BY <1>2, <2>2
<1>4. s = [i \in 1..Len(w) |-> s[i]] /\ DOMAIN s = 1..Len(w)
  BY DEF Picked
<1>5. Payload(w) = FlattenSeq(s)
  BY DEF Payload, Picked
<1> HIDE DEF s
<1>6. s \in Seq(Seq(Byte)) /\ Len(s) = Len(w)
  BY <1>1, <1>3, <1>4, SeqByIndex
<1>7. FlattenSeq(s) \in Seq(Byte)
  BY <1>6, FlattenType
<1> QED BY <1>2, <1>5, <1>6, <1>7 DEF s

LEMMA PayloadConcat ==
  ASSUME NEW v \in Seq(Item), NEW w \in Seq(Item)
  PROVE  Payload(v \o w) = Payload(v) \o Payload(w)
<1> DEFINE u == v \o w
           g == Picked(v)
           h == Picked(w)
           k == Picked(u)
<1>1. Len(v) \in Nat /\ Len(w) \in Nat
  BY LenProperties
<1>2. /\ u \in Seq(Item) /\ Len(u) = Len(v) + Len(w)
      /\ \A i \in 1..(Len(v) + Len(w)) : u[i] = IF i <= Len(v) THEN v[i] ELSE w[i - Len(v)]
  BY ConcatProperties
<1> HIDE DEF u
<1>3. /\ g \in Seq(Seq(Byte)) /\ Len(g) = Len(v) /\ Payload(v) = FlattenSeq(g)
      /\ \A i \in 1..Len(v) : g[i] = IF v[i].role = "data" THEN <<v[i].b>> ELSE <<>>
  BY PayloadIs
<1>4. /\ h \in Seq(Seq(Byte)) /\ Len(h) = Len(w) /\ Payload(w) = FlattenSeq(h)
      /\ \A i \in 1..Len(w) : h[i] = IF w[i].role = "data" THEN <<w[i].b>> ELSE <<>>
  BY PayloadIs
<1>5. /\ k \in Seq(Seq(Byte)) /\ Len(k) = Len(u) /\ Payload(u) = FlattenSeq(k)
      /\ \A i \in 1..Len(u) : k[i] = IF u[i].role = "data" THEN <<u[i].b>> ELSE <<>>
  BY <1>2, PayloadIs
<1> HIDE DEF g, h, k
<1>6. \A i \in 1..Len(g) : k[i] = g[i]
  <2> TAKE i \in 1..Len(g)
  <2>1. i \in 1..Len(v) /\ i \in 1..Len(u) /\ i <= Len(v) /\ i \in 1..(Len(v) + Len(w))
    BY <1>1, <1>2, <1>3
  <2>2. u[i] = v[i]
    BY <1>2, <2>1
  <2> QED BY <1>3, <1>5, <2>1, <2>2
<1>7. \A i \in 1..Len(h) : k[Len(g) + i] = h[i]
  <2> TAKE i \in 1..Len(h)
  <2>1. /\ Len(g) + i \in 1..Len(u) /\ ~(Len(g) + i <= Len(v)) /\ (Len(g) + i) - Len(v) = i
        /\ Len(g) + i \in 1..(Len(v) + Len(w)) /\ i \in 1..Len(w)
    BY <1>1, <1>2, <1>3, <1>4
  <2>2. u[Len(g) + i] = w[i]
    BY <1>2, <2>1
  <2> QED BY <1>4, <1>5, <2>1, <2>2
<1>8. Len(k) = Len(g) + Len(h)
  BY <1>2, <1>3, <1>4, <1>5
<1>9. FlattenSeq(k) = FlattenSeq(g) \o FlattenSeq(h)
  BY <1>3, <1>4, <1>5, <1>6, <1>7, <1>8, FlattenSplit
<1> QED BY <1>3, <1>4, <1>5, <1>9 DEF u

LEMMA PayloadOfData == ASSUME NEW s \in Seq(Byte) PROVE Payload(Tagged("data", s)) = s
<1> DEFINE w == Tagged("data", s)
           g == Picked(w)
<1>1. /\ w \in Seq(Item) /\ Len(w) = Len(s)
      /\ \A i \in 1..Len(s) : w[i] = [b |-> s[i], role |-> "data"]
  <2>1. "data" \in Role
    BY DEF Role
  <2> QED BY <2>1, TaggedIs
<1> HIDE DEF w
<1>2. /\ g \in Seq(Seq(Byte)) /\ Len(g) = Len(w) /\ Payload(w) = FlattenSeq(g)
      /\ \A i \in 1..Len(w) : g[i] = IF w[i].role = "data" THEN <<w[i].b>> ELSE <<>>
  BY <1>1, PayloadIs
<1> HIDE DEF g
<1>3. \A i \in 1..Len(s) : g[i] = <<s[i]>>
  <2> TAKE i \in 1..Len(s)
  <2>1. w[i] = [b |-> s[i], role |-> "data"] /\ i \in 1..Len(w)
    BY <1>1
  <2>2. w[i].role = "data" /\ w[i].b = s[i]
    BY <2>1
  <2> QED BY <1>2, <2>1, <2>2
<1>4. FlattenSeq(g) = s
  BY <1>1, <1>2, <1>3, FlattenSingles
<1> QED BY <1>2, <1>4 DEF w

LEMMA PayloadOfFraming ==
  ASSUME NEW w \in Seq(Item), \A i \in 1..Len(w) : w[i].role # "data" PROVE Payload(w) = <<>>
<1> DEFINE g == Picked(w)
<1>1. /\ g \in Seq(Seq(Byte)) /\ Len(g) = Len(w) /\ Payload(w) = FlattenSeq(g)
      /\ \A i \in 1..Len(w) : g[i] = IF w[i].role = "data" THEN <<w[i].b>> ELSE <<>>
  BY PayloadIs
<1> HIDE DEF g
<1>2. \A i \in 1..Len(g) : g[i] = <<>>
  BY <1>1
<1> QED BY <1>1, <1>2, FlattenNothing

----------------------------------------------------------------------------
(***************************************************************************)
(* What a server sends.                                                    *)
(***************************************************************************)

SizeLine(n) == SizeText[n] \o CRLF
Width(n) == Len(SizeText[n]) + 2

LEMMA RoleIs == /\ "head" \in Role /\ "size" \in Role /\ "data" \in Role
                /\ "end" \in Role /\ "last" \in Role
  BY DEF Role

LEMMA LiteralIs == /\ "CR" \in Byte /\ "LF" \in Byte /\ "head" \in Byte /\ "blank" \in Byte
                   /\ Digits \subseteq Byte
  BY DEF Byte, Digits

LEMMA DigitValueType == \A b \in Digits : DigitValue(b) \in Nat
<1> SUFFICES ASSUME NEW b \in Digits PROVE DigitValue(b) \in Nat
  OBVIOUS
<1> DEFINE i == CHOOSE i \in DOMAIN HexDigits : HexDigits[i] = b
<1>1. DOMAIN HexDigits = 1..16
  BY DEF HexDigits
<1>2. i \in 1..16
  BY <1>1 DEF Digits, Range
<1>3. DigitValue(b) = i - 1
  BY DEF DigitValue
<1> HIDE DEF i
<1> QED BY <1>2, <1>3

LEMMA NoDigit == "CR" \notin Digits
<1>1. SUFFICES ASSUME "CR" \in Digits PROVE FALSE
  OBVIOUS
<1>2. DOMAIN HexDigits = 1..16
  BY DEF HexDigits
<1>3. PICK i \in 1..16 : HexDigits[i] = "CR"
  BY <1>1, <1>2 DEF Digits, Range
<1>4. i \in {1, 2, 3, 4, 5, 6, 7, 8, 9, 10, 11, 12, 13, 14, 15, 16}
  OBVIOUS
<1> QED BY <1>3, <1>4 DEF HexDigits

\* A size is written without white space, and read as the number it is.
LEMMA SizeTextIs ==
  ASSUME NEW n \in Sizes
  PROVE  /\ SizeText[n] \in Seq(Byte) /\ Len(SizeText[n]) \in Nat \ {0}
         /\ \A i \in 1..Len(SizeText[n]) : SizeText[n][i] \notin Spaces
         /\ Strtol(SizeText[n]) = n
<1> DEFINE s == SizeText[n]
<1>1. /\ s \in Seq(STRING) /\ s # <<>> /\ Strtol(s) = n
      /\ \A i \in 1..Len(s) : s[i] \notin Spaces
  BY SizeAssumption DEF Sizes
<1> HIDE DEF s
<1>2. /\ Len(s) \in Nat /\ s = [i \in 1..Len(s) |-> s[i]] /\ DOMAIN s = 1..Len(s)
      /\ \A i \in 1..Len(s) : s[i] \in STRING
  BY <1>1, LenProperties, ElementOfSeq
<1>3. \A i \in 1..Len(s) : s[i] \in Byte
  BY <1>2 DEF Byte
<1>4. s \in Seq(Byte)
  BY <1>2, <1>3, SeqByIndex
<1>5. Len(s) # 0
  BY <1>1, EmptySeq
<1> QED BY <1>1, <1>2, <1>4, <1>5 DEF s

LEMMA LinesAre ==
  /\ CRLF \in Seq(Byte) /\ Len(CRLF) = 2 /\ CRLF[1] = "CR" /\ CRLF[2] = "LF"
  /\ HeadBytes \in Seq(Byte) /\ Len(HeadBytes) = 2
<1>1. CRLF \in Seq(Byte) /\ Len(CRLF) = 2 /\ CRLF[1] = "CR" /\ CRLF[2] = "LF"
  BY LiteralIs DEF CRLF
<1>2. HeadBytes \in Seq(Byte) /\ Len(HeadBytes) = 2
  BY LiteralIs DEF HeadBytes
<1> QED BY <1>1, <1>2

LEMMA SizeLineIs ==
  ASSUME NEW n \in Sizes
  PROVE  /\ SizeLine(n) \in Seq(Byte) /\ Len(SizeLine(n)) = Width(n)
         /\ Width(n) \in Nat /\ Width(n) >= 3
         /\ \A i \in 1..(Width(n) - 2) : SizeLine(n)[i] = SizeText[n][i]
         /\ SizeLine(n)[Width(n) - 1] = "CR" /\ SizeLine(n)[Width(n)] = "LF"
<1> DEFINE s == SizeText[n]
           l == Len(s)
           u == s \o CRLF
<1>1. s \in Seq(Byte) /\ l \in Nat \ {0}
  BY SizeTextIs
<1>2. /\ u \in Seq(Byte) /\ Len(u) = l + 2
      /\ \A i \in 1..(l + 2) : u[i] = IF i <= l THEN s[i] ELSE CRLF[i - l]
  <2>1. /\ u \in Seq(Byte) /\ Len(u) = l + Len(CRLF)
        /\ \A i \in 1..(l + Len(CRLF)) : u[i] = IF i <= l THEN s[i] ELSE CRLF[i - l]
    BY <1>1, LinesAre, ConcatProperties
  <2> HIDE DEF u, l
  <2> QED BY <2>1, LinesAre
<1>3. SizeLine(n) = u /\ Width(n) = l + 2
  BY DEF SizeLine, Width
<1> HIDE DEF u, s, l
<1>4. /\ \A i \in 1..l : i \in 1..(l + 2) /\ i <= l
      /\ l + 1 \in 1..(l + 2) /\ ~(l + 1 <= l) /\ (l + 1) - l = 1
      /\ l + 2 \in 1..(l + 2) /\ ~(l + 2 <= l) /\ (l + 2) - l = 2
      /\ (l + 2) - 2 = l /\ (l + 2) - 1 = l + 1 /\ l + 2 \in Nat /\ l + 2 >= 3
  BY <1>1
<1>5. u[l + 1] = "CR" /\ u[l + 2] = "LF"
  BY <1>2, <1>4, LinesAre
<1>6. \A i \in 1..l : u[i] = s[i]
  BY <1>2, <1>4
<1> QED BY <1>2, <1>3, <1>4, <1>5, <1>6 DEF s

\* Nothing but what is tagged "data" is the body's.
LEMMA PayloadOfTagged ==
  ASSUME NEW role \in Role \ {"data"}, NEW s \in Seq(Byte) PROVE Payload(Tagged(role, s)) = <<>>
<1> DEFINE w == Tagged(role, s)
<1>1. /\ w \in Seq(Item) /\ Len(w) = Len(s)
      /\ \A i \in 1..Len(s) : w[i] = [b |-> s[i], role |-> role]
  BY TaggedIs
<1> HIDE DEF w
<1>2. \A i \in 1..Len(w) : w[i].role # "data"
  <2> TAKE i \in 1..Len(w)
  <2>1. w[i] = [b |-> s[i], role |-> role]
    BY <1>1
  <2> QED BY <2>1
<1>3. Payload(w) = <<>>
  BY <1>1, <1>2, PayloadOfFraming
<1> QED BY <1>3 DEF w

\* What follows the size line of a chunk.
Closing(c) == Tagged("data", c) \o Tagged("end", CRLF)

LEMMA ClosingIs ==
  ASSUME NEW c \in Seq(Byte) PROVE Closing(c) \in Seq(Item) /\ Payload(Closing(c)) = c
<1> DEFINE v == Tagged("data", c)
           w == Tagged("end", CRLF)
<1>1. v \in Seq(Item) /\ w \in Seq(Item) /\ Payload(v) = c /\ Payload(w) = <<>>
  <2>1. v \in Seq(Item) /\ w \in Seq(Item)
    BY TaggedIs, RoleIs, LinesAre
  <2>2. Payload(v) = c
    BY PayloadOfData
  <2>3. "end" \in Role \ {"data"}
    BY RoleIs
  <2>4. Payload(w) = <<>>
    BY <2>3, LinesAre, PayloadOfTagged
  <2> QED BY <2>1, <2>2, <2>4
<1> HIDE DEF v, w
<1>2. v \o w \in Seq(Item) /\ Payload(v \o w) = Payload(v) \o Payload(w)
  BY <1>1, PayloadConcat, ConcatProperties
<1>3. c \o <<>> = c
  BY ConcatEmptySeq
<1> QED BY <1>1, <1>2, <1>3 DEF v, w, Closing

LEMMA ChunkIs ==
  ASSUME NEW c \in Chunk
  PROVE  /\ c \in Seq(Byte) /\ Len(c) \in Sizes \ {0}
         /\ EncodeChunk(c) = Tagged("size", SizeLine(Len(c))) \o Closing(c)
         /\ EncodeChunk(c) \in Seq(Item) /\ Payload(EncodeChunk(c)) = c
<1> DEFINE u == Tagged("size", SizeLine(Len(c)))
           v == Tagged("data", c)
           w == Tagged("end", CRLF)
<1>1. c \in Seq(Byte) /\ Len(c) \in Sizes \ {0} /\ Len(c) \in Sizes
  BY DEF Chunk
<1>2. SizeLine(Len(c)) \in Seq(Byte)
  BY <1>1, SizeLineIs
<1>3. u \in Seq(Item) /\ v \in Seq(Item) /\ w \in Seq(Item)
  BY <1>1, <1>2, TaggedIs, RoleIs, LinesAre
<1>4. EncodeChunk(c) = (u \o v) \o w
  BY DEF EncodeChunk, SizeLine
<1>5. Payload(u) = <<>>
  <2>1. "size" \in Role \ {"data"}
    BY RoleIs
  <2> QED BY <1>2, <2>1, PayloadOfTagged
<1>6. Closing(c) = v \o w
  BY DEF Closing
<1>7. Closing(c) \in Seq(Item) /\ Payload(Closing(c)) = c
  BY <1>1, ClosingIs
<1> HIDE DEF u, v, w
<1>8. (u \o v) \o w = u \o Closing(c)
  BY <1>3, <1>6, ConcatAssociative
<1>9. u \o Closing(c) \in Seq(Item) /\ Payload(u \o Closing(c)) = Payload(u) \o Payload(Closing(c))
  BY <1>3, <1>7, PayloadConcat, ConcatProperties
<1>10. <<>> \o c = c
  BY <1>1, ConcatEmptySeq
<1> QED BY <1>1, <1>4, <1>5, <1>7, <1>8, <1>9, <1>10 DEF u

Codes(chunks) == [k \in 1..Len(chunks) |-> EncodeChunk(chunks[k])]

LEMMA CodesAre ==
  ASSUME NEW cs \in Seq(Chunk)
  PROVE  /\ Codes(cs) \in Seq(Seq(Item)) /\ Len(Codes(cs)) = Len(cs)
         /\ \A k \in 1..Len(cs) : Codes(cs)[k] = EncodeChunk(cs[k]) /\ cs[k] \in Chunk
<1> DEFINE s == Codes(cs)
           S == Seq(Item)
<1>1. Len(cs) \in Nat /\ \A k \in 1..Len(cs) : cs[k] \in Chunk
  BY LenProperties, ElementOfSeq
<1>2. \A k \in 1..Len(cs) : s[k] = EncodeChunk(cs[k])
  BY DEF Codes
<1>3. \A k \in 1..Len(cs) : s[k] \in S
  BY <1>1, <1>2, ChunkIs
<1>4. s = [k \in 1..Len(cs) |-> s[k]] /\ DOMAIN s = 1..Len(cs)
  BY DEF Codes
<1> HIDE DEF s, S
<1>5. s \in Seq(S) /\ Len(s) = Len(cs)
  BY <1>1, <1>3, <1>4, SeqByIndex
<1> QED BY <1>1, <1>2, <1>5 DEF s, S

LastLine == Tagged("last", SizeLine(0))
LastChunk == LastLine \o Tagged("last", CRLF)

LEMMA LastChunkIs ==
  /\ LastLine \in Seq(Item) /\ Tagged("last", CRLF) \in Seq(Item)
  /\ LastChunk \in Seq(Item) /\ Payload(LastChunk) = <<>>
<1> DEFINE w == Tagged("last", CRLF)
<1>1. "last" \in Role /\ "last" \in Role \ {"data"}
  BY RoleIs
<1>2. 0 \in Sizes
  BY SizeAssumption DEF Sizes
<1>3. SizeLine(0) \in Seq(Byte)
  BY <1>2, SizeLineIs
<1>4. LastLine \in Seq(Item) /\ Payload(LastLine) = <<>>
  BY <1>1, <1>3, TaggedIs, PayloadOfTagged DEF LastLine
<1>5. w \in Seq(Item) /\ Payload(w) = <<>>
  BY <1>1, LinesAre, TaggedIs, PayloadOfTagged
<1> HIDE DEF w
<1>6. LastLine \o w \in Seq(Item) /\ Payload(LastLine \o w) = Payload(LastLine) \o Payload(w)
  BY <1>4, <1>5, PayloadConcat, ConcatProperties
<1>7. <<>> \o <<>> = <<>>
  OBVIOUS
<1> QED BY <1>4, <1>5, <1>6, <1>7 DEF LastChunk, w

LEMMA EncodeIs ==
  ASSUME NEW cs \in Seq(Chunk)
  PROVE  /\ Encode(cs) = FlattenSeq(Codes(cs)) \o LastChunk
         /\ FlattenSeq(Codes(cs)) \in Seq(Item) /\ Encode(cs) \in Seq(Item)
<1> DEFINE f == FlattenSeq(Codes(cs))
           w == Tagged("last", CRLF)
<1>1. Encode(cs) = (f \o LastLine) \o w
  BY DEF Encode, Codes, LastLine, SizeLine
<1>2. f \in Seq(Item)
  BY CodesAre, FlattenType
<1>3. w \in Seq(Item) /\ LastLine \in Seq(Item) /\ LastChunk = LastLine \o w
  BY LastChunkIs DEF LastChunk
<1> HIDE DEF f, w
<1>4. (f \o LastLine) \o w = f \o (LastLine \o w)
  BY <1>2, <1>3, ConcatAssociative
<1>5. f \o LastChunk \in Seq(Item)
  BY <1>2, LastChunkIs, ConcatProperties
<1> QED BY <1>1, <1>2, <1>3, <1>4, <1>5 DEF f

\* Without chunks only the last-chunk line is left.
LEMMA EncodeNone == Encode(<<>>) = LastChunk
<1> DEFINE none == Codes(<<>>)
<1>1. <<>> \in Seq(Chunk) /\ Len(<<>>) = 0
  BY EmptySeq
<1>2. none \in Seq(Seq(Item)) /\ Len(none) = 0
  BY <1>1, CodesAre
<1>3. none = <<>>
  BY <1>2, EmptySeq
<1>4. FlattenSeq(none) = <<>>
  BY <1>3, FlattenEmpty
<1>5. Encode(<<>>) = FlattenSeq(none) \o LastChunk
  BY <1>1, EncodeIs
<1> HIDE DEF none
<1>6. <<>> \o LastChunk = LastChunk
  BY LastChunkIs, ConcatEmptySeq
<1> QED BY <1>4, <1>5, <1>6

\* A body is what its chunks are put together, and no framing.
LEMMA PayloadEncode ==
  ASSUME NEW cs \in Seq(Chunk)
  PROVE  Payload(Encode(cs)) = FlattenSeq(cs) /\ FlattenSeq(cs) \in Seq(Byte)
<1> DEFINE F(s) == FlattenSeq(Codes(s))
           T == {s \in Seq(Chunk) : Payload(F(s)) = FlattenSeq(s) /\ FlattenSeq(s) \in Seq(Byte)}
<1>1. <<>> \in T
  <2>1. <<>> \in Seq(Chunk) /\ Len(<<>>) = 0
    BY EmptySeq
  <2>2. Codes(<<>>) = <<>>
    BY <2>1, CodesAre, EmptySeq
  <2>3. F(<<>>) = <<>> /\ FlattenSeq(<<>>) = <<>>
    BY <2>2, FlattenEmpty
  <2>4. <<>> \in Seq(Item) /\ \A i \in 1..Len(<<>>) : <<>>[i].role # "data"
    BY <2>1, EmptySeq
  <2>5. Payload(<<>>) = <<>>
    BY <2>4, PayloadOfFraming
  <2>6. <<>> \in Seq(Byte)
    BY EmptySeq
  <2> HIDE DEF F
  <2> QED BY <2>1, <2>3, <2>5, <2>6
<1>2. \A s \in Seq(Chunk), c \in Chunk : s \in T => Append(s, c) \in T
  <2> SUFFICES ASSUME NEW s \in Seq(Chunk), NEW c \in Chunk, s \in T PROVE Append(s, c) \in T
    OBVIOUS
  <2> DEFINE t == Append(s, c)
             g == Codes(s)
             h == Codes(t)
  <2>1. t \in Seq(Chunk) /\ Len(t) = Len(s) + 1 /\ Len(s) \in Nat
        /\ (\A k \in 1..Len(s) : t[k] = s[k]) /\ t[Len(s) + 1] = c
    BY AppendProperties, LenProperties
  <2>2. g \in Seq(Seq(Item)) /\ Len(g) = Len(s)
        /\ \A k \in 1..Len(s) : g[k] = EncodeChunk(s[k])
    BY CodesAre
  <2>3. FlattenSeq(t) = FlattenSeq(s) \o c /\ FlattenSeq(s) \in Seq(Byte)
        /\ Payload(FlattenSeq(g)) = FlattenSeq(s)
    <3>1. s \in Seq(Seq(Byte)) /\ c \in Seq(Byte)
      <4>1. Chunk \subseteq Seq(Byte)
        BY DEF Chunk
      <4>2. \A k \in 1..Len(s) : s[k] \in Chunk
        BY ElementOfSeq
      <4> DEFINE S == Seq(Byte)
      <4>3. \A k \in 1..Len(s) : s[k] \in S
        BY <4>1, <4>2
      <4>4. DOMAIN s = 1..Len(s) /\ s = [k \in 1..Len(s) |-> s[k]]
        BY LenProperties
      <4>5. c \in S
        BY <4>1
      <4> HIDE DEF S
      <4>6. s \in Seq(S)
        BY <2>1, <4>3, <4>4, SeqByIndex
      <4> QED BY <4>5, <4>6 DEF S
    <3>2. FlattenSeq(t) = FlattenSeq(s) \o c
      BY <3>1, FlattenAppend
    <3> QED BY <3>2
  <2> HIDE DEF t
  <2>4. h \in Seq(Seq(Item)) /\ Len(h) = Len(g) + 1 /\ h[Len(g) + 1] = EncodeChunk(c)
        /\ \A k \in 1..Len(g) : h[k] = g[k]
    <3>1. h \in Seq(Seq(Item)) /\ Len(h) = Len(t)
          /\ \A k \in 1..Len(t) : h[k] = EncodeChunk(t[k])
      BY <2>1, CodesAre
    <3> HIDE DEF h, g
    <3>2. Len(s) + 1 \in 1..Len(t) /\ \A k \in 1..Len(s) : k \in 1..Len(t)
      BY <2>1
    <3> QED BY <2>1, <2>2, <3>1, <3>2
  <2>5. FlattenSeq(g) \in Seq(Item)
    BY <2>2, FlattenType
  <2> HIDE DEF g, h
  <2>6. FlattenSeq(h) = FlattenSeq(g) \o EncodeChunk(c)
    BY <2>2, <2>4, FlattenGrows
  <2>7. EncodeChunk(c) \in Seq(Item) /\ Payload(EncodeChunk(c)) = c /\ c \in Seq(Byte)
    BY ChunkIs
  <2>8. Payload(FlattenSeq(h)) = FlattenSeq(s) \o c
    BY <2>3, <2>5, <2>6, <2>7, PayloadConcat
  <2>9. FlattenSeq(s) \o c \in Seq(Byte)
    BY <2>3, <2>7, ConcatProperties
  <2> QED BY <2>1, <2>3, <2>8, <2>9 DEF t, h
<1> HIDE DEF T
<1>3. cs \in T
  BY <1>1, <1>2, SeqInduction
<1> USE DEF T
<1>4. Payload(Encode(cs)) = Payload(F(cs)) \o Payload(LastChunk)
  <2>1. Encode(cs) = F(cs) \o LastChunk /\ F(cs) \in Seq(Item)
    BY EncodeIs
  <2> HIDE DEF F
  <2> QED BY <2>1, LastChunkIs, PayloadConcat
<1>5. FlattenSeq(cs) \o <<>> = FlattenSeq(cs)
  BY <1>3, ConcatEmptySeq
<1> HIDE DEF F
<1> QED BY <1>3, <1>4, <1>5, LastChunkIs

\* Chunks are sent one after the other.
LEMMA EncodeFirst ==
  ASSUME NEW cs \in Seq(Chunk), cs # <<>>
  PROVE  /\ Head(cs) \in Chunk /\ Tail(cs) \in Seq(Chunk)
         /\ Encode(cs) = EncodeChunk(Head(cs)) \o Encode(Tail(cs))
<1> DEFINE c == Head(cs)
           t == Tail(cs)
           x == EncodeChunk(c)
           one == Append(<<>>, x)
           h == Codes(t)
           k == Codes(cs)
<1>1. /\ c \in Chunk /\ t \in Seq(Chunk) /\ Len(cs) = Len(t) + 1 /\ Len(t) \in Nat
      /\ c = cs[1] /\ \A i \in 1..Len(t) : t[i] = cs[i + 1]
  <2>1. Len(cs) \in Nat \ {0}
    BY LenProperties, EmptySeq
  <2>2. c \in Chunk /\ t \in Seq(Chunk) /\ Len(t) = Len(cs) - 1
        /\ \A i \in 1..Len(t) : t[i] = cs[i + 1]
    BY HeadTailProperties
  <2>3. c = cs[1]
    BY DEF Head
  <2> HIDE DEF c, t
  <2> QED BY <2>1, <2>2, <2>3
<1> HIDE DEF c, t
<1>2. x \in Seq(Item)
  BY <1>1, ChunkIs
<1> HIDE DEF x
<1>3. h \in Seq(Seq(Item)) /\ Len(h) = Len(t) /\ \A i \in 1..Len(t) : h[i] = EncodeChunk(t[i])
  BY <1>1, CodesAre
<1>4. k \in Seq(Seq(Item)) /\ Len(k) = Len(cs) /\ \A i \in 1..Len(cs) : k[i] = EncodeChunk(cs[i])
  BY CodesAre
<1> HIDE DEF h, k
<1> DEFINE S == Seq(Item)
<1>5. one \in Seq(S) /\ Len(one) = 1 /\ one[1] = x
  <2>1. <<>> \in Seq(S) /\ Len(<<>>) = 0 /\ x \in S
    BY <1>2, EmptySeq
  <2> HIDE DEF S
  <2> QED BY <2>1, AppendProperties
<1>6. FlattenSeq(one) = x
  <2>1. FlattenSeq(one) = FlattenSeq(<<>>) \o x
    <3>1. <<>> \in Seq(Seq(Item))
      BY EmptySeq
    <3> QED BY <1>2, <3>1, FlattenAppend
  <2> QED BY <1>2, <2>1, FlattenEmpty, ConcatEmptySeq
<1>7. FlattenSeq(k) = FlattenSeq(one) \o FlattenSeq(h)
  <2> HIDE DEF one
  <2>1. Len(k) = Len(one) + Len(h)
    BY <1>1, <1>3, <1>4, <1>5
  <2>2. \A i \in 1..Len(one) : k[i] = one[i]
    <3>1. 1 \in 1..Len(cs) /\ \A i \in 1..Len(one) : i = 1
      BY <1>1, <1>5
    <3> QED BY <1>1, <1>4, <1>5, <3>1 DEF x
  <2>3. \A i \in 1..Len(h) : k[Len(one) + i] = h[i]
    <3> TAKE i \in 1..Len(h)
    <3>1. i \in 1..Len(t) /\ i + 1 \in 1..Len(cs) /\ Len(one) + i = i + 1
      BY <1>1, <1>3, <1>5
    <3> QED BY <1>1, <1>3, <1>4, <3>1
  <2> QED BY <1>3, <1>4, <1>5, <2>1, <2>2, <2>3, FlattenSplit DEF S
<1>8. Encode(cs) = FlattenSeq(k) \o LastChunk /\ Encode(t) = FlattenSeq(h) \o LastChunk
      /\ FlattenSeq(h) \in Seq(Item)
  BY <1>1, EncodeIs DEF k, h
<1>9. (x \o FlattenSeq(h)) \o LastChunk = x \o (FlattenSeq(h) \o LastChunk)
  <2>1. LastChunk \in Seq(Item)
    BY LastChunkIs
  <2> QED BY <1>2, <1>8, <2>1, ConcatAssociative
<1> HIDE DEF one
<1> QED BY <1>1, <1>6, <1>7, <1>8, <1>9 DEF x, c, t

----------------------------------------------------------------------------
(***************************************************************************)
(* What the decoder reads in its buffer.                                   *)
(***************************************************************************)

LEMMA LineEndNone ==
  ASSUME NEW s, \A i \in 1..(Len(s) - 1) : ~(s[i] = "CR" /\ s[i + 1] = "LF")
  PROVE  LineEnd(s) = 0
<1>1. {i \in 1..(Len(s) - 1) : s[i] = "CR" /\ s[i + 1] = "LF"} = {}
  OBVIOUS
<1> QED BY <1>1 DEF LineEnd

LEMMA LineEndAt ==
  ASSUME NEW s, NEW e \in 1..(Len(s) - 1), s[e] = "CR", s[e + 1] = "LF",
         \A i \in 1..(e - 1) : s[i] # "CR", Len(s) \in Nat
  PROVE  LineEnd(s) = e
<1> DEFINE ends == {i \in 1..(Len(s) - 1) : s[i] = "CR" /\ s[i + 1] = "LF"}
           p == CHOOSE i \in ends : \A j \in ends : i <= j
<1>1. e \in ends
  OBVIOUS
<1>2. \A j \in ends : j \in Nat /\ e <= j
  <2> TAKE j \in ends
  <2>1. j \in 1..(Len(s) - 1) /\ s[j] = "CR"
    OBVIOUS
  <2>2. ~(j \in 1..(e - 1))
    BY <2>1
  <2> QED BY <2>1, <2>2
<1>3. LineEnd(s) = p
  BY <1>1 DEF LineEnd
<1> HIDE DEF ends
<1>4. p \in ends /\ \A j \in ends : p <= j
  BY <1>1, <1>2
<1> HIDE DEF p
<1>5. p <= e /\ e <= p /\ p \in Nat
  BY <1>1, <1>2, <1>4
<1> QED BY <1>3, <1>5

LEMMA LineEndType ==
  ASSUME NEW s \in Seq(Byte) PROVE LineEnd(s) = 0 \/ LineEnd(s) \in 1..(Len(s) - 1)
<1> DEFINE ends == {i \in 1..(Len(s) - 1) : s[i] = "CR" /\ s[i + 1] = "LF"}
           p == CHOOSE i \in ends : \A j \in ends : i <= j
<1>1. Len(s) \in Nat /\ ends \subseteq Nat /\ ends \subseteq 1..(Len(s) - 1)
  BY LenProperties
<1>2. CASE ends = {}
  BY <1>2 DEF LineEnd
<1>3. CASE ends # {}
  <2>1. LineEnd(s) = p
    BY <1>3 DEF LineEnd
  <2> HIDE DEF ends
  <2>2. \E m \in ends : \A n \in ends : m <= n
    BY <1>1, <1>3, LeastNat
  <2>3. p \in ends
    BY <2>2
  <2> QED BY <1>1, <2>1, <2>3
<1> QED BY <1>2, <1>3

LEMMA LeadingIs ==
  ASSUME NEW s \in Seq(Byte), NEW S, NEW n \in 0..Len(s), \A i \in 1..n : s[i] \in S,
         n < Len(s) => s[n + 1] \notin S
  PROVE  Leading(s, S) = Take(s, n)
<1> DEFINE run == {k \in 0..Len(s) : \A i \in 1..k : s[i] \in S}
           p == CHOOSE k \in run : \A m \in run : m <= k
<1>1. Len(s) \in Nat /\ n \in run
  BY LenProperties
<1>2. \A m \in run : m \in Nat /\ m <= n
  <2> TAKE m \in run
  <2>1. m \in Nat /\ m <= Len(s) /\ \A i \in 1..m : s[i] \in S
    BY <1>1
  <2>2. ASSUME ~(m <= n) PROVE FALSE
    <3>1. n + 1 \in 1..m /\ n < Len(s)
      BY <1>1, <2>1, <2>2
    <3> QED BY <2>1, <3>1
  <2> QED BY <2>1, <2>2
<1> HIDE DEF run
<1>3. p \in run /\ \A m \in run : m <= p
  BY <1>1, <1>2
<1>4. Leading(s, S) = Take(s, p)
  BY DEF Leading, run
<1> HIDE DEF p
<1>5. p = n
  <2>1. p <= n /\ n <= p /\ p \in Nat
    BY <1>1, <1>2, <1>3
  <2> QED BY <2>1
<1> QED BY <1>4, <1>5

\* There is such a beginning.
LEMMA LeadingHas ==
  ASSUME NEW s \in Seq(Byte), NEW S
  PROVE  \E n \in 0..Len(s) :
            /\ Leading(s, S) = Take(s, n) /\ \A i \in 1..n : s[i] \in S
            /\ n < Len(s) => s[n + 1] \notin S
<1> DEFINE run == {k \in 0..Len(s) : \A i \in 1..k : s[i] \in S}
           p == CHOOSE k \in run : \A m \in run : m <= k
           left == {Len(s) - k : k \in run}
<1>1. Len(s) \in Nat /\ 0 \in run /\ \A k \in run : k \in 0..Len(s)
  BY LenProperties
<1>2. \E k \in run : \A m \in run : m <= k
  <2> HIDE DEF run
  <2>1. left \subseteq Nat /\ left # {}
    BY <1>1
  <2> PICK l \in left : \A m \in left : l <= m
    BY <2>1, LeastNat
  <2> PICK k \in run : l = Len(s) - k
    OBVIOUS
  <2>2. \A m \in run : m <= k
    <3> TAKE m \in run
    <3>1. Len(s) - k <= Len(s) - m
      OBVIOUS
    <3> QED BY <1>1, <3>1
  <2> QED BY <2>2
<1>3. p \in run /\ \A m \in run : m <= p
  <2> HIDE DEF run
  <2> QED BY <1>2
<1>4. Leading(s, S) = Take(s, p)
  BY DEF Leading
<1> HIDE DEF p
<1>5. p \in 0..Len(s) /\ \A i \in 1..p : s[i] \in S
  BY <1>3
<1>6. ASSUME p < Len(s), s[p + 1] \in S PROVE FALSE
  <2>1. p + 1 \in 0..Len(s) /\ ~(p + 1 <= p)
    BY <1>1, <1>5, <1>6
  <2>2. \A i \in 1..(p + 1) : s[i] \in S
    <3> TAKE i \in 1..(p + 1)
    <3>1. i \in 1..p \/ i = p + 1
      BY <1>5
    <3> QED BY <1>5, <1>6, <3>1
  <2> QED BY <1>3, <2>1, <2>2
<1> HIDE DEF run
<1> QED BY <1>4, <1>5, <1>6

LEMMA LeadingType ==
  ASSUME NEW s \in Seq(Byte), NEW S
  PROVE  /\ Leading(s, S) \in Seq(S) /\ Leading(s, S) \in Seq(Byte)
         /\ Len(Leading(s, S)) \in 0..Len(s)
<1> PICK p \in 0..Len(s) : Leading(s, S) = Take(s, p) /\ \A i \in 1..p : s[i] \in S
  BY LeadingHas
<1> DEFINE t == Take(s, p)
<1>1. t \in Seq(Byte) /\ Len(t) = p /\ \A i \in 1..p : t[i] = s[i]
  BY TakeDrop
<1> HIDE DEF t
<1>2. t \in Seq(S)
  <2>1. DOMAIN t = 1..p /\ t = [i \in 1..p |-> t[i]] /\ p \in Nat
    BY <1>1, LenProperties
  <2>2. \A i \in 1..p : t[i] \in S
    BY <1>1
  <2> QED BY <2>1, <2>2, SeqByIndex
<1> QED BY <1>1, <1>2 DEF t

LEMMA StrtolIs ==
  ASSUME NEW s \in Seq(Byte), NEW t \in Seq(Digits),
         t = Leading(Drop(s, Len(Leading(s, Spaces))), Digits)
  PROVE  Strtol(s) = Fold(0, t)
<1>1. DOMAIN t = 1..Len(t)
  BY LenProperties
<1> QED BY <1>1 DEF Strtol, FoldLeft, MapThenFoldSet, Fold, Folding, DigitStep

LEMMA StrtolType == ASSUME NEW s \in Seq(Byte) PROVE Strtol(s) \in Nat
<1> DEFINE n == Len(Leading(s, Spaces))
           r == Drop(s, n)
           t == Leading(r, Digits)
<1>1. n \in 0..Len(s)
  BY LeadingType
<1> HIDE DEF n
<1>2. r \in Seq(Byte)
  BY <1>1, TakeDrop
<1> HIDE DEF r
<1>3. t \in Seq(Digits)
  BY <1>2, LeadingType
<1>4. \A v \in Nat, b \in Digits : DigitStep(v, b) \in Nat
  BY DigitValueType DEF DigitStep
<1> HIDE DEF t
<1>5. Fold(0, t) \in Nat
  BY <1>3, <1>4, FoldType
<1>6. Strtol(s) = Fold(0, t)
  BY <1>3, StrtolIs DEF n, r, t
<1> QED BY <1>5, <1>6

\* strtol does not look past the first byte that is no digit.
LEMMA SameNumber ==
  ASSUME NEW s \in Seq(Byte), NEW t \in Seq(Byte), Len(t) # 0, Len(t) < Len(s),
         \A i \in 1..Len(t) : s[i] = t[i] /\ t[i] \notin Spaces,
         s[Len(t) + 1] \notin Digits
  PROVE  Strtol(s) = Strtol(t)
<1>1. Len(s) \in Nat /\ Len(t) \in Nat
  BY LenProperties
<1>2. Leading(s, Spaces) = <<>> /\ Leading(t, Spaces) = <<>> /\ Len(<<>>) = 0
  <2>1. 1 \in 1..Len(t) /\ 0 + 1 = 1 /\ 0 \in 0..Len(t) /\ 0 \in 0..Len(s)
    BY <1>1
  <2>2. s[0 + 1] \notin Spaces /\ t[0 + 1] \notin Spaces
    BY <2>1
  <2>3. (\A i \in 1..0 : s[i] \in Spaces) /\ (\A i \in 1..0 : t[i] \in Spaces)
    OBVIOUS
  <2>4. Leading(s, Spaces) = Take(s, 0)
    BY <2>1, <2>2, <2>3, LeadingIs
  <2>5. Leading(t, Spaces) = Take(t, 0)
    BY <2>1, <2>2, <2>3, LeadingIs
  <2> QED BY <2>4, <2>5, TakeDropEnds, EmptySeq
<1>3. PICK n \in 0..Len(t) :
         /\ Leading(t, Digits) = Take(t, n) /\ \A i \in 1..n : t[i] \in Digits
         /\ n < Len(t) => t[n + 1] \notin Digits
  BY LeadingHas
<1>4. n \in 0..Len(s) /\ \A i \in 1..n : i \in 1..Len(t)
  BY <1>1
<1>5. s[n + 1] \notin Digits
  <2>1. CASE n < Len(t)
    <3>1. n + 1 \in 1..Len(t)
      BY <1>1, <2>1
    <3> QED BY <1>3, <2>1, <3>1
  <2>2. CASE ~(n < Len(t))
    <3>1. n = Len(t)
      BY <1>1, <2>2
    <3> QED BY <3>1
  <2> QED BY <2>1, <2>2
<1>6. Leading(s, Digits) = Take(s, n)
  <2>1. \A i \in 1..n : s[i] \in Digits
    BY <1>3, <1>4
  <2> QED BY <1>4, <1>5, <2>1, LeadingIs
<1> DEFINE a == Take(s, n)
           b == Take(t, n)
<1>7. a = b
  <2>1. a \in Seq(Byte) /\ Len(a) = n /\ \A i \in 1..n : a[i] = s[i]
    BY <1>4, TakeDrop
  <2>2. b \in Seq(Byte) /\ Len(b) = n /\ \A i \in 1..n : b[i] = t[i]
    BY TakeDrop
  <2> HIDE DEF a, b
  <2>3. \A i \in 1..n : a[i] = b[i]
    BY <1>4, <2>1, <2>2
  <2> QED BY <2>1, <2>2, <2>3, SeqEqual
<1>8. Drop(s, 0) = s /\ Drop(t, 0) = t
  BY TakeDropEnds
<1>9. b \in Seq(Digits)
  BY <1>3, LeadingType
<1> HIDE DEF a, b
<1>10. Strtol(s) = Fold(0, b)
  BY <1>2, <1>6, <1>7, <1>8, <1>9, StrtolIs DEF a
<1>11. Strtol(t) = Fold(0, b)
  BY <1>2, <1>3, <1>8, <1>9, StrtolIs DEF b
<1> QED BY <1>10, <1>11

\* A size line is found when it is complete, and read as the size it gives.
LEMMA SizeLineRead ==
  ASSUME NEW s \in Seq(Byte), NEW k \in Sizes,
         \A i \in 1..Len(s) : i <= Width(k) => s[i] = SizeLine(k)[i]
  PROVE  /\ Len(s) < Width(k) => LineEnd(s) = 0
         /\ Len(s) >= Width(k) => LineEnd(s) = Width(k) - 1 /\ Strtol(s) = k
<1> DEFINE t == SizeText[k]
           u == SizeLine(k)
           w == Width(k)
           m == Len(s)
<1>1. t \in Seq(Byte) /\ Strtol(t) = k /\ \A i \in 1..Len(t) : t[i] \notin Spaces
  BY SizeTextIs
<1>2. /\ w \in Nat /\ w >= 3 /\ u[w - 1] = "CR" /\ u[w] = "LF"
      /\ \A i \in 1..(w - 2) : u[i] = t[i]
  BY SizeLineIs
<1>3. m \in Nat /\ \A i \in 1..m : i <= w => s[i] = u[i]
  BY LenProperties
<1>4. Len(t) = w - 2
  <2> DEFINE l == Len(t)
  <2>1. w = l + 2 /\ l \in Nat
    BY SizeTextIs DEF Width
  <2> HIDE DEF w, l
  <2>2. l = w - 2
    BY <2>1
  <2> QED BY <2>2 DEF l
<1> HIDE DEF t, u, w
<1>5. \A i \in 1..(w - 2) : t[i] # "CR" /\ t[i] \notin Spaces
  BY <1>1, <1>4 DEF Spaces
<1>6. ASSUME m < w PROVE LineEnd(s) = 0
  <2>1. \A i \in 1..(m - 1) : ~(s[i] = "CR" /\ s[i + 1] = "LF")
    <3> TAKE i \in 1..(m - 1)
    <3>1. i \in 1..m /\ i <= w /\ i \in 1..(w - 2)
      <4> HIDE DEF m
      <4> QED BY <1>2, <1>3, <1>6
    <3>2. s[i] = t[i]
      BY <1>2, <1>3, <3>1
    <3> QED BY <1>5, <3>1, <3>2
  <2> QED BY <2>1, LineEndNone
<1>7. ASSUME m >= w PROVE LineEnd(s) = w - 1 /\ Strtol(s) = k
  <2>1. /\ \A i \in 1..(w - 2) : i \in 1..m /\ i <= w
        /\ w - 1 \in 1..m /\ w - 1 <= w /\ w \in 1..m /\ w <= w
        /\ w - 1 \in 1..(m - 1) /\ (w - 1) + 1 = w /\ (w - 1) - 1 = w - 2
        /\ (w - 2) + 1 = w - 1 /\ w - 2 < m /\ w - 2 # 0
    <3> HIDE DEF m
    <3> QED BY <1>2, <1>3, <1>7
  <2>2. (\A i \in 1..(w - 2) : s[i] = t[i]) /\ s[w - 1] = "CR" /\ s[w] = "LF"
    BY <1>2, <1>3, <2>1
  <2>3. LineEnd(s) = w - 1
    <3> DEFINE e == w - 1
    <3>1. /\ e \in 1..(Len(s) - 1) /\ s[e] = "CR" /\ s[e + 1] = "LF"
          /\ \A i \in 1..(e - 1) : s[i] # "CR"
      BY <1>5, <2>1, <2>2
    <3> HIDE DEF e
    <3>2. LineEnd(s) = e
      BY <1>3, <3>1, LineEndAt
    <3> QED BY <3>2 DEF e
  <2>4. Strtol(s) = Strtol(t)
    <3>1. Len(t) # 0 /\ Len(t) < Len(s) /\ s[Len(t) + 1] \notin Digits
      BY <1>4, <2>1, <2>2, NoDigit
    <3>2. \A i \in 1..Len(t) : s[i] = t[i] /\ t[i] \notin Spaces
      BY <1>4, <1>5, <2>2
    <3> QED BY <1>1, <3>1, <3>2, SameNumber
  <2> QED BY <1>1, <2>3, <2>4
<1> QED BY <1>6, <1>7 DEF w

\* The decoder's members.
Decoder == [buf : Seq(Byte), remaining : Nat, done : BOOLEAN, more : BOOLEAN,
            bad : BOOLEAN, sunk : Seq(Byte)]

LEMMA FreshIs == FreshDecoder \in Decoder /\ FreshDecoder.buf = <<>>
  BY EmptySeq DEF FreshDecoder, Decoder

LEMMA EnterFeedIs ==
  ASSUME NEW d \in Decoder, NEW data \in Seq(Byte)
  PROVE  /\ EnterFeed(d, data) \in Decoder /\ EnterFeed(d, data).buf = d.buf \o data
         /\ EnterFeed(d, data).remaining = d.remaining
         /\ EnterFeed(d, data).done = d.done /\ EnterFeed(d, data).bad = d.bad
<1> DEFINE b == d.buf \o data
<1>1. d.buf \in Seq(Byte)
  BY DEF Decoder
<1>2. b \in Seq(Byte)
  BY <1>1, ConcatProperties
<1>3. EnterFeed(d, data) = [d EXCEPT !.buf = b, !.more = TRUE, !.sunk = <<>>]
  BY DEF EnterFeed
<1> HIDE DEF b
<1> QED BY <1>2, <1>3, EmptySeq DEF Decoder, b

LEMMA TurnType == ASSUME NEW d \in Decoder PROVE Turn(d) \in Decoder
<1> DEFINE s == d.buf
           e == LineEnd(s)
           size == Strtol(s)
           take == Least(d.remaining, Len(s))
           rest == Drop(s, take)
           after == Drop(rest, 2)
           closed == d.remaining = take
           crlf == Len(rest) >= 2 /\ Take(rest, 2) = <<"CR", "LF">>
<1>1. s \in Seq(Byte) /\ d.remaining \in Nat /\ Len(s) \in Nat /\ <<>> \in Seq(Byte)
  BY LenProperties, EmptySeq DEF Decoder
<1>2. OpenChunk(d) \in Decoder
  <2>1. CASE d.done \/ e = 0
    <3>1. OpenChunk(d) = [d EXCEPT !.more = FALSE, !.sunk = <<>>]
      BY <2>1 DEF OpenChunk
    <3> QED BY <1>1, <3>1 DEF Decoder
  <2>2. CASE ~(d.done \/ e = 0)
    <3> DEFINE t == Drop(s, e + 1)
    <3>1. OpenChunk(d) = [d EXCEPT !.buf = t, !.remaining = size,
                            !.done = size = 0, !.more = size # 0, !.sunk = <<>>]
      BY <2>2 DEF OpenChunk
    <3>2. e + 1 \in 0..Len(s)
      BY <1>1, <2>2, LineEndType
    <3>3. t \in Seq(Byte)
      BY <1>1, <3>2, TakeDrop
    <3>4. size \in Nat
      BY <1>1, StrtolType
    <3> HIDE DEF t, size, s
    <3> QED BY <1>1, <3>1, <3>3, <3>4 DEF Decoder
  <2> QED BY <2>1, <2>2
<1>3. Deliver(d) \in Decoder
  <2>1. CASE take = 0
    <3>1. Deliver(d) = [d EXCEPT !.more = FALSE, !.sunk = <<>>]
      BY <2>1 DEF Deliver
    <3> QED BY <1>1, <3>1 DEF Decoder
  <2>2. CASE take # 0
    <3> DEFINE a == Take(s, take)
               b == IF closed /\ crlf THEN after ELSE rest
               l == d.remaining - take
               bad == closed /\ Len(rest) >= 2 /\ ~crlf
               more == closed => crlf
    <3>1. Deliver(d) = [d EXCEPT !.sunk = a, !.remaining = l, !.buf = b, !.bad = bad,
                                 !.more = more]
      BY <2>2 DEF Deliver
    <3>2. take \in 0..Len(s) /\ l \in Nat
      BY <1>1 DEF Least
    <3> HIDE DEF take
    <3>3. a \in Seq(Byte) /\ rest \in Seq(Byte)
      BY <1>1, <3>2, TakeDrop
    <3>4. b \in Seq(Byte)
      <4>1. CASE closed /\ crlf
        <5> HIDE DEF rest
        <5>1. 2 \in 0..Len(rest)
          BY <3>3, <4>1, LenProperties
        <5> QED BY <3>3, <4>1, <5>1, TakeDrop
      <4> QED BY <3>3, <4>1
    <3>5. bad \in BOOLEAN /\ more \in BOOLEAN
      OBVIOUS
    <3> HIDE DEF a, b, l, bad, more, s
    <3> QED BY <1>1, <3>1, <3>2, <3>3, <3>4, <3>5 DEF Decoder
  <2> QED BY <2>1, <2>2
<1> QED BY <1>2, <1>3 DEF Turn

----------------------------------------------------------------------------
(***************************************************************************)
(* The decoder against what the server sent: U is what the server has sent *)
(* from the first byte on that is still in the buffer.                     *)
(***************************************************************************)

Holds(s, U) == Len(s) <= Len(U) /\ \A i \in 1..Len(s) : s[i] = U[i].b

AtEnd(d, U) == d.done /\ d.remaining = 0 /\ U = Tagged("last", CRLF)

Between(d, U) ==
    ~d.done /\ d.remaining = 0 /\ \E cs \in Seq(Chunk) : U = Encode(cs)

Inside(d, U) ==
    /\ ~d.done /\ d.remaining # 0
    /\ \E c \in Seq(Byte), cs \in Seq(Chunk) :
          Len(c) = d.remaining /\ U = Closing(c) \o Encode(cs)

Stage(d, U) == AtEnd(d, U) \/ Between(d, U) \/ Inside(d, U)

\* A turn has taken the first n bytes off the buffer and passed on the body's;
\* when it is the last there is none of the body left in the buffer.
Taken(d, e, U, n) ==
    /\ e.buf = Drop(d.buf, n)
    /\ e.sunk = Payload(Take(U, n))
    /\ Stage(e, Drop(U, n)) /\ ~e.bad
    /\ ~e.more => Payload(Take(Drop(U, n), Len(e.buf))) = <<>>

LEMMA PayloadEmpty == Payload(<<>>) = <<>>
<1>1. <<>> \in Seq(Item) /\ Len(<<>>) = 0
  BY EmptySeq
<1>2. \A i \in 1..Len(<<>>) : <<>>[i].role # "data"
  BY <1>1
<1> QED BY <1>1, <1>2, PayloadOfFraming

\* The beginning of a framing line has nothing of the body.
LEMMA PayloadOfTaken ==
  ASSUME NEW role \in Role \ {"data"}, NEW s \in Seq(Byte), NEW n \in 0..Len(s)
  PROVE  Payload(Take(Tagged(role, s), n)) = <<>>
<1> DEFINE t == Take(s, n)
<1>1. Take(Tagged(role, s), n) = Tagged(role, t)
  BY TaggedTakeDrop
<1>2. t \in Seq(Byte)
  BY TakeDrop
<1> HIDE DEF t
<1>3. Payload(Tagged(role, t)) = <<>>
  BY <1>2, PayloadOfTagged
<1> QED BY <1>1, <1>3

\* With a decoder that stands still, nothing is taken.
LEMMA TakenNone ==
  ASSUME NEW d \in Decoder, NEW U \in Seq(Item), Stage(d, U), ~d.bad,
         NEW e \in Decoder, e = [d EXCEPT !.more = FALSE, !.sunk = <<>>],
         Payload(Take(U, Len(d.buf))) = <<>>
  PROVE  Taken(d, e, U, 0)
<1>1. e.buf = d.buf /\ e.remaining = d.remaining /\ e.done = d.done /\ e.bad = d.bad
      /\ e.sunk = <<>>
  BY DEF Decoder
<1>2. d.buf \in Seq(Byte)
  BY DEF Decoder
<1>3. Drop(d.buf, 0) = d.buf /\ Drop(U, 0) = U /\ Take(U, 0) = <<>>
  BY <1>2, TakeDropEnds
<1>4. Stage(e, U)
  BY <1>1 DEF Stage, AtEnd, Between, Inside
<1> QED BY <1>1, <1>3, <1>4, PayloadEmpty DEF Taken

LEMMA TurnAtEnd ==
  ASSUME NEW d \in Decoder, NEW U \in Seq(Item), Holds(d.buf, U), AtEnd(d, U), ~d.bad
  PROVE  Taken(d, Turn(d), U, 0)
<1>1. Turn(d) = [d EXCEPT !.more = FALSE, !.sunk = <<>>]
  BY DEF Turn, OpenChunk, AtEnd
<1>2. Stage(d, U)
  BY DEF Stage
<1>3. Payload(Take(U, Len(d.buf))) = <<>>
  <2>1. d.buf \in Seq(Byte) /\ Len(d.buf) \in Nat
    BY LenProperties DEF Decoder
  <2>2. Len(U) = Len(CRLF) /\ U = Tagged("last", CRLF)
    BY LinesAre, RoleIs, TaggedIs DEF AtEnd
  <2>3. Len(d.buf) \in 0..Len(CRLF)
    <3> DEFINE m == Len(d.buf)
               l == Len(CRLF)
    <3>1. m <= l
      BY <2>2 DEF Holds
    <3>2. l = 2
      BY LinesAre
    <3>3. m \in Nat
      BY <2>1
    <3> HIDE DEF m, l
    <3>4. m \in 0..l
      BY <3>1, <3>2, <3>3
    <3> QED BY <3>4 DEF m, l
  <2>4. "last" \in Role \ {"data"}
    BY RoleIs
  <2> QED BY <2>2, <2>3, <2>4, LinesAre, PayloadOfTaken
<1> QED BY <1>1, <1>2, <1>3, TurnType, TakenNone

\* A line with the size k of the next chunk, and what follows it.
Lined(U, k, V) == U = Tagged("size", SizeLine(k)) \o V \/ U = Tagged("last", SizeLine(k)) \o V

LEMMA LinedIs ==
  ASSUME NEW U, NEW k \in Sizes, NEW V \in Seq(Item), Lined(U, k, V), NEW s \in Seq(Byte),
         Holds(s, U)
  PROVE  /\ U \in Seq(Item) /\ Len(U) = Width(k) + Len(V)
         /\ Drop(U, Width(k)) = V /\ Payload(Take(U, Width(k))) = <<>>
         /\ Len(s) < Width(k) => Payload(Take(U, Len(s))) = <<>>
         /\ \A i \in 1..Len(s) : i <= Width(k) => s[i] = SizeLine(k)[i]
<1> PICK role \in {"size", "last"} : U = Tagged(role, SizeLine(k)) \o V
  BY DEF Lined
<1> DEFINE l == SizeLine(k)
           w == Tagged(role, l)
           n == Width(k)
<1>1. /\ l \in Seq(Byte) /\ Len(l) = n /\ n \in Nat
      /\ role \in Role \ {"data"} /\ role \in Role
  BY SizeLineIs, RoleIs
<1> HIDE DEF l, n
<1>2. /\ w \in Seq(Item) /\ Len(w) = n /\ Payload(w) = <<>>
      /\ \A i \in 1..n : w[i] = [b |-> l[i], role |-> role]
      /\ \A i \in 0..n : Payload(Take(w, i)) = <<>>
  <2>1. /\ w \in Seq(Item) /\ Len(w) = Len(l)
        /\ \A i \in 1..Len(l) : w[i] = [b |-> l[i], role |-> role]
    BY <1>1, TaggedIs
  <2>2. Payload(w) = <<>>
    BY <1>1, PayloadOfTagged
  <2>3. \A i \in 0..Len(l) : Payload(Take(w, i)) = <<>>
    BY <1>1, PayloadOfTaken
  <2> HIDE DEF w
  <2> QED BY <1>1, <2>1, <2>2, <2>3
<1> HIDE DEF w
<1>3. U = w \o V
  BY DEF w, l
<1>4. /\ U \in Seq(Item) /\ Len(U) = n + Len(V) /\ Len(V) \in Nat
      /\ \A i \in 1..(n + Len(V)) : U[i] = IF i <= n THEN w[i] ELSE V[i - n]
  <2> DEFINE u == w \o V
  <2>1. /\ u \in Seq(Item) /\ Len(u) = Len(w) + Len(V)
        /\ \A i \in 1..(Len(w) + Len(V)) : u[i] = IF i <= Len(w) THEN w[i] ELSE V[i - Len(w)]
    BY <1>2, ConcatProperties
  <2>2. Len(w) = n /\ U = u
    BY <1>2, <1>3
  <2>3. Len(V) \in Nat
    BY LenProperties
  <2> HIDE DEF u
  <2> QED BY <2>1, <2>2, <2>3
<1>5. Take(U, n) = w /\ Drop(U, n) = V
  <2>1. Take(w \o V, Len(w)) = w /\ Drop(w \o V, Len(w)) = V
    BY <1>2, AfterFirst
  <2> QED BY <1>2, <1>3, <2>1
<1>6. Len(s) < n => Payload(Take(U, Len(s))) = <<>>
  <2>1. ASSUME Len(s) < n PROVE Take(U, Len(s)) = Take(w, Len(s)) /\ Len(s) \in 0..n
    <3> DEFINE m == Len(s)
               j == Len(w)
    <3>1. m \in Nat /\ m < n /\ j = n
      BY <1>2, <2>1, LenProperties
    <3> HIDE DEF m, j
    <3>2. m \in 0..j /\ m \in 0..n
      BY <1>1, <3>1
    <3> USE DEF m, j
    <3> QED BY <1>2, <1>3, <3>2, OfConcat
  <2> QED BY <1>2, <2>1
<1>7. \A i \in 1..Len(s) : i <= n => s[i] = l[i]
  <2> SUFFICES ASSUME NEW i \in 1..Len(s), i <= n PROVE s[i] = l[i]
    OBVIOUS
  <2>1. i \in 1..n /\ i \in 1..(n + Len(V)) /\ s[i] = U[i].b
    BY <1>1, <1>4, LenProperties DEF Holds
  <2>2. U[i] = [b |-> l[i], role |-> role]
    BY <1>2, <1>4, <2>1
  <2> QED BY <2>1, <2>2
<1> QED BY <1>2, <1>4, <1>5, <1>6, <1>7 DEF l, n

\* A turn between chunks, with the line of the next one or of the last.
LEMMA TurnAtLine ==
  ASSUME NEW d \in Decoder, NEW U \in Seq(Item), Holds(d.buf, U), Between(d, U), ~d.bad,
         NEW k \in Sizes, NEW V \in Seq(Item), Lined(U, k, V),
         k = 0 => V = Tagged("last", CRLF),
         k # 0 => \E c \in Seq(Byte), cs \in Seq(Chunk) : Len(c) = k /\ V = Closing(c) \o Encode(cs)
  PROVE  \E n \in 0..Len(d.buf) : Taken(d, Turn(d), U, n)
<1> DEFINE s == d.buf
           e == Turn(d)
           w == Width(k)
<1>1. s \in Seq(Byte) /\ Len(s) \in Nat /\ w \in Nat
  BY SizeLineIs, LenProperties DEF Decoder
<1>2. /\ U \in Seq(Item) /\ Len(U) = w + Len(V)
      /\ Drop(U, w) = V /\ Payload(Take(U, w)) = <<>>
      /\ Len(s) < w => Payload(Take(U, Len(s))) = <<>>
      /\ \A i \in 1..Len(s) : i <= w => s[i] = SizeLine(k)[i]
  BY <1>1, LinedIs
<1>3. /\ Len(s) < w => LineEnd(s) = 0
      /\ Len(s) >= w => LineEnd(s) = w - 1 /\ Strtol(s) = k
  BY <1>1, <1>2, SizeLineRead
<1>4. ~d.done /\ d.remaining = 0 /\ e = OpenChunk(d) /\ e \in Decoder
  BY TurnType DEF Between, Turn
<1>5. w >= 3
  BY SizeLineIs
<1> HIDE DEF w
<1>6. CASE Len(s) < w
  <2>1. e = [d EXCEPT !.more = FALSE, !.sunk = <<>>]
    BY <1>3, <1>4, <1>6 DEF OpenChunk
  <2>2. Stage(d, U)
    BY DEF Stage
  <2>3. Taken(d, e, U, 0)
    BY <1>2, <1>4, <1>6, <2>1, <2>2, TakenNone
  <2> QED BY <1>1, <2>3
<1>7. CASE Len(s) >= w
  <2> DEFINE t == Drop(s, w)
  <2>1. e = [d EXCEPT !.buf = t, !.remaining = k, !.done = k = 0, !.more = k # 0,
                      !.sunk = <<>>]
    <3>1. LineEnd(d.buf) = w - 1 /\ Strtol(d.buf) = k
      BY <1>3, <1>7
    <3>2. w - 1 # 0 /\ (w - 1) + 1 = w
      BY <1>1, <1>5
    <3>3. OpenChunk(d) = [d EXCEPT !.buf = Drop(d.buf, (w - 1) + 1), !.remaining = k,
                            !.done = k = 0, !.more = k # 0, !.sunk = <<>>]
      BY <1>4, <3>1, <3>2 DEF OpenChunk
    <3> QED BY <1>4, <3>2, <3>3
  <2>2. w \in 0..Len(s)
    BY <1>1, <1>7
  <2>3. t \in Seq(Byte) /\ Len(t) = Len(s) - w
    BY <1>1, <2>2, TakeDrop
  <2> HIDE DEF t
  <2>4. e.buf = t /\ e.remaining = k /\ e.done = (k = 0) /\ e.more = (k # 0)
        /\ e.sunk = <<>> /\ e.bad = d.bad
    BY <2>1 DEF Decoder
  <2> HIDE DEF e
  <2>5. CASE k = 0
    <3>1. AtEnd(e, V)
      BY <2>4, <2>5 DEF AtEnd
    <3>2. Len(V) = Len(CRLF)
      BY <2>5, LinesAre, RoleIs, TaggedIs
    <3>3. Len(t) \in 0..Len(CRLF)
      <4> DEFINE m == Len(s)
                 l == Len(CRLF)
                 v == Len(V)
                 r == Len(t)
      <4>1. m <= Len(U)
        BY DEF Holds
      <4>2. l = 2 /\ v = l
        BY <3>2, LinesAre
      <4>3. m \in Nat /\ m >= w /\ r = m - w
        BY <1>1, <1>7, <2>3
      <4>4. m <= w + v
        BY <1>2, <4>1
      <4> HIDE DEF m, l, v, r
      <4>5. r \in 0..l
        BY <1>1, <4>2, <4>3, <4>4
      <4> QED BY <4>5 DEF r, l
    <3>4. "last" \in Role \ {"data"}
      BY RoleIs
    <3>5. Payload(Take(V, Len(t))) = <<>>
      BY <2>5, <3>3, <3>4, LinesAre, PayloadOfTaken
    <3>6. Taken(d, e, U, w)
      BY <1>2, <2>4, <3>1, <3>5 DEF Taken, Stage, t
    <3> QED BY <2>2, <3>6 DEF e
  <2>6. CASE k # 0
    <3>1. Inside(e, V)
      BY <2>4, <2>6 DEF Inside
    <3>2. Taken(d, e, U, w)
      BY <1>2, <2>4, <2>6, <3>1 DEF Taken, Stage, t
    <3> QED BY <2>2, <3>2 DEF e
  <2> QED BY <2>5, <2>6
<1> QED BY <1>1, <1>6, <1>7

LEMMA TurnBetween ==
  ASSUME NEW d \in Decoder, NEW U \in Seq(Item), Holds(d.buf, U), Between(d, U), ~d.bad
  PROVE  \E n \in 0..Len(d.buf) : Taken(d, Turn(d), U, n)
<1> PICK cs \in Seq(Chunk) : U = Encode(cs)
  BY DEF Between
<1>1. CASE cs = <<>>
  <2> DEFINE V == Tagged("last", CRLF)
  <2>1. V \in Seq(Item)
    BY LinesAre, RoleIs, TaggedIs
  <2>4. U = Tagged("last", SizeLine(0)) \o V
    BY <1>1, EncodeNone DEF LastChunk, LastLine
  <2>5. Lined(U, 0, V)
    BY <2>4 DEF Lined
  <2>6. 0 \in Sizes /\ 0 = 0 /\ V = Tagged("last", CRLF)
    BY SizeAssumption DEF Sizes
  <2> HIDE DEF V
  <2> QED BY <2>1, <2>5, <2>6, TurnAtLine
<1>2. CASE cs # <<>>
  <2> DEFINE c == Head(cs)
             t == Tail(cs)
             V == Closing(c) \o Encode(t)
             k == Len(c)
  <2>1. c \in Chunk /\ t \in Seq(Chunk) /\ U = EncodeChunk(c) \o Encode(t)
    BY <1>2, EncodeFirst
  <2> HIDE DEF c, t
  <2>2. /\ c \in Seq(Byte) /\ Len(c) \in Sizes \ {0}
        /\ EncodeChunk(c) = Tagged("size", SizeLine(Len(c))) \o Closing(c)
    BY <2>1, ChunkIs
  <2>3. k \in Sizes /\ k # 0
    BY <2>2
  <2>4. Closing(c) \in Seq(Item) /\ Encode(t) \in Seq(Item)
    BY <2>1, <2>2, ClosingIs, EncodeIs
  <2>5. Tagged("size", SizeLine(k)) \in Seq(Item)
    BY <2>3, SizeLineIs, RoleIs, TaggedIs
  <2>6. V \in Seq(Item)
    BY <2>4, ConcatProperties
  <2>7. U = Tagged("size", SizeLine(k)) \o V
    <3> DEFINE w == Tagged("size", SizeLine(k))
               x == Closing(c)
               y == Encode(t)
    <3>1. U = (w \o x) \o y
      BY <2>1, <2>2
    <3>2. w \in Seq(Item) /\ x \in Seq(Item) /\ y \in Seq(Item)
      BY <2>4, <2>5
    <3> HIDE DEF w, x, y
    <3>3. (w \o x) \o y = w \o (x \o y)
      BY <3>2, ConcatAssociative
    <3> QED BY <3>1, <3>3 DEF w, x, y
  <2>8. Lined(U, k, V)
    BY <2>7 DEF Lined
  <2>9. \E a \in Seq(Byte), as \in Seq(Chunk) : Len(a) = k /\ V = Closing(a) \o Encode(as)
    BY <2>1, <2>2
  <2> HIDE DEF V, k
  <2> QED BY <2>3, <2>6, <2>8, <2>9, TurnAtLine
<1> QED BY <1>1, <1>2

\* U is r bytes of data, c, the line break that closes the chunk, and y.
Laid(U, c, r, y) ==
    /\ r \in Nat /\ U \in Seq(Item) /\ Len(U) = (r + 2) + Len(y)
    /\ \A i \in 1..r : U[i].b = c[i]
    /\ U[r + 1].b = "CR" /\ U[r + 1].role = "end"
    /\ U[r + 2].b = "LF" /\ U[r + 2].role = "end"
    /\ \A i \in 0..r : /\ Take(U, i) = Tagged("data", Take(c, i))
                       /\ Drop(U, i) = Closing(Drop(c, i)) \o y
    /\ Take(U, r + 2) = Closing(c) /\ Drop(U, r + 2) = y

LEMMA ClosingWire ==
  ASSUME NEW c \in Seq(Byte), NEW y \in Seq(Item)
  PROVE  Laid(Closing(c) \o y, c, Len(c), y)
<1> DEFINE r == Len(c)
           U == Closing(c) \o y
           w == Tagged("data", c)
           v == Tagged("end", CRLF)
           x == v \o y
           l == Len(y)
<1>1. r \in Nat /\ l \in Nat
  BY LenProperties
<1> HIDE DEF U
<1>2. w \in Seq(Item) /\ Len(w) = r /\ \A i \in 1..r : w[i] = [b |-> c[i], role |-> "data"]
  BY RoleIs, TaggedIs
<1>3. v \in Seq(Item) /\ Len(v) = 2
      /\ v[1] = [b |-> "CR", role |-> "end"] /\ v[2] = [b |-> "LF", role |-> "end"]
  <2>1. v \in Seq(Item) /\ Len(v) = Len(CRLF)
        /\ \A i \in 1..Len(CRLF) : v[i] = [b |-> CRLF[i], role |-> "end"]
    BY RoleIs, LinesAre, TaggedIs
  <2>2. Len(CRLF) = 2 /\ CRLF[1] = "CR" /\ CRLF[2] = "LF"
    BY LinesAre
  <2> HIDE DEF v
  <2>3. \A i \in 1..2 : v[i] = [b |-> CRLF[i], role |-> "end"]
    BY <2>1, <2>2
  <2>4. 1 \in 1..2 /\ 2 \in 1..2
    OBVIOUS
  <2> QED BY <2>1, <2>2, <2>3, <2>4
<1> HIDE DEF r
<1>4. \A i \in 0..r : /\ Take(w, i) = Tagged("data", Take(c, i))
                      /\ Drop(w, i) = Tagged("data", Drop(c, i)) /\ Drop(c, i) \in Seq(Byte)
  BY RoleIs, TaggedTakeDrop, TakeDrop DEF r
<1>5. \A i \in 0..r : Tagged("data", Drop(c, i)) \in Seq(Item)
  BY <1>4, RoleIs, TaggedIs
<1>6. Closing(c) = w \o v
  BY DEF Closing
<1> HIDE DEF w
<1>7. \A i \in 0..r : Closing(Drop(c, i)) = Drop(w, i) \o v
  BY <1>4 DEF Closing
<1> HIDE DEF v
<1>8. x \in Seq(Item) /\ Len(x) = 2 + l
      /\ \A i \in 1..(2 + l) : x[i] = IF i <= 2 THEN v[i] ELSE y[i - 2]
  <2>1. x \in Seq(Item) /\ Joined(x, v, y, Len(v), l) /\ Len(v) = 2
    BY <1>3, ConcatIs
  <2> HIDE DEF l, x
  <2>2. Joined(x, v, y, 2, l)
    BY <2>1
  <2> QED BY <2>1, <2>2 DEF Joined
<1>9. (w \o v) \o y = w \o x
  BY <1>2, <1>3, ConcatAssociative
<1>10. \A i \in 0..r : (Drop(w, i) \o v) \o y = Drop(w, i) \o x
  <2> SUFFICES ASSUME NEW i \in 0..r PROVE (Drop(w, i) \o v) \o y = Drop(w, i) \o x
    OBVIOUS
  <2> DEFINE d == Drop(w, i)
  <2>1. d \in Seq(Item)
    BY <1>4, <1>5
  <2> HIDE DEF d
  <2>2. (d \o v) \o y = d \o x
    BY <1>3, <2>1, ConcatAssociative
  <2> QED BY <2>2 DEF d
<1> HIDE DEF x
<1> DEFINE u == w \o x
<1>11. u = U
  BY <1>6, <1>9 DEF U
<1>12. u \in Seq(Item) /\ Len(u) = r + Len(x)
       /\ \A i \in 1..(r + Len(x)) : u[i] = IF i <= r THEN w[i] ELSE x[i - r]
  <2> DEFINE k == Len(x)
  <2>1. u \in Seq(Item) /\ Joined(u, w, x, Len(w), k) /\ Len(w) = r
    BY <1>2, <1>8, ConcatIs
  <2> HIDE DEF k, u
  <2>2. Joined(u, w, x, r, k)
    BY <2>1
  <2>3. /\ u \in Seq(Item) /\ Len(u) = r + k
        /\ \A i \in 1..(r + k) : u[i] = IF i <= r THEN w[i] ELSE x[i - r]
    BY <2>1, <2>2 DEF Joined
  <2> QED BY <2>3 DEF k
<1>13. \A i \in 0..r : Take(u, i) = Take(w, i) /\ Drop(u, i) = Drop(w, i) \o x
  BY <1>2, <1>8, OfConcat
<1> HIDE DEF u
<1>14. Len(u) = (r + 2) + l
  BY <1>1, <1>8, <1>12 DEF l
<1>15. \A i \in 1..r : u[i].b = c[i]
  <2> SUFFICES ASSUME NEW i \in 1..r PROVE u[i].b = c[i]
    OBVIOUS
  <2>1. i \in 1..(r + Len(x)) /\ i <= r
    BY <1>1, <1>8
  <2>2. u[i] = [b |-> c[i], role |-> "data"]
    BY <1>2, <1>12, <2>1
  <2> QED BY <2>2
<1>16. u[r + 1] = v[1] /\ u[r + 2] = v[2]
  <2>1. r + 1 \in 1..(r + Len(x)) /\ r + 2 \in 1..(r + Len(x)) /\ ~(r + 1 <= r) /\ ~(r + 2 <= r)
        /\ (r + 1) - r = 1 /\ (r + 2) - r = 2 /\ 1 \in 1..(2 + l) /\ 2 \in 1..(2 + l)
    BY <1>1, <1>8
  <2>2. u[r + 1] = x[1] /\ u[r + 2] = x[2]
    BY <1>12, <2>1
  <2>3. x[1] = v[1] /\ x[2] = v[2]
    BY <1>8, <2>1
  <2> QED BY <2>2, <2>3
<1>17. Take(U, r + 2) = Closing(c) /\ Drop(U, r + 2) = y
  <2> DEFINE k == Closing(c)
  <2>1. k \in Seq(Item) /\ Len(k) = r + 2
    <3>1. k \in Seq(Item) /\ Joined(k, w, v, Len(w), Len(v)) /\ Len(w) = r /\ Len(v) = 2
      BY <1>2, <1>3, <1>6, ConcatIs
    <3> HIDE DEF k
    <3>2. Joined(k, w, v, r, 2)
      BY <3>1
    <3> QED BY <3>1, <3>2 DEF Joined
  <2> HIDE DEF k
  <2>2. Take(k \o y, Len(k)) = k /\ Drop(k \o y, Len(k)) = y
    BY <2>1, AfterFirst
  <2> QED BY <2>1, <2>2 DEF k, U
<1>18. \A i \in 0..r : /\ Take(u, i) = Tagged("data", Take(c, i))
                       /\ Drop(u, i) = Closing(Drop(c, i)) \o y
  BY <1>4, <1>7, <1>10, <1>13
<1>19. /\ u[r + 1].b = "CR" /\ u[r + 1].role = "end"
       /\ u[r + 2].b = "LF" /\ u[r + 2].role = "end"
  BY <1>3, <1>16
<1>20. U \in Seq(Item)
  BY <1>11, <1>12
<1>21. Len(U) = (r + 2) + l
  BY <1>11, <1>14
<1>22. \A i \in 1..r : U[i].b = c[i]
  BY <1>11, <1>15
<1>23. /\ U[r + 1].b = "CR" /\ U[r + 1].role = "end"
       /\ U[r + 2].b = "LF" /\ U[r + 2].role = "end"
  BY <1>11, <1>19
<1>24. \A i \in 0..r : /\ Take(U, i) = Tagged("data", Take(c, i))
                       /\ Drop(U, i) = Closing(Drop(c, i)) \o y
  BY <1>11, <1>18
<1>25. Len(U) = (r + 2) + Len(y)
  BY <1>21 DEF l
<1>26. Laid(U, c, r, y)
  BY <1>1, <1>17, <1>20, <1>22, <1>23, <1>24, <1>25 DEF Laid
<1> QED BY <1>26 DEF r, U

LEMMA TurnInside ==
  ASSUME NEW d \in Decoder, NEW U \in Seq(Item), Holds(d.buf, U), Inside(d, U), ~d.bad,
         ~CutsChunkEnd(U, Len(d.buf))
  PROVE  \E n \in 0..Len(d.buf) : Taken(d, Turn(d), U, n)
<1> PICK c \in Seq(Byte), cs \in Seq(Chunk) :
       Len(c) = d.remaining /\ U = Closing(c) \o Encode(cs)
  BY DEF Inside
<1> DEFINE s == d.buf
           m == Len(s)
           r == d.remaining
           e == Turn(d)
           y == Encode(cs)
<1>1. s \in Seq(Byte) /\ m \in Nat /\ r \in Nat /\ r # 0 /\ ~d.done
  BY LenProperties DEF Decoder, Inside
<1>2. m <= Len(U) /\ \A i \in 1..m : s[i] = U[i].b
  BY DEF Holds
<1>3. y \in Seq(Item) /\ Len(y) \in Nat
  BY EncodeIs, LenProperties
<1>4. r = Len(c) /\ U = Closing(c) \o y
  OBVIOUS
<1>5. e = Deliver(d)
  BY <1>1 DEF Turn
<1>6. e \in Decoder
  BY TurnType
<1> HIDE DEF y
<1>7. /\ Len(U) = (r + 2) + Len(y)
      /\ \A i \in 1..r : U[i].b = c[i]
      /\ U[r + 1].b = "CR" /\ U[r + 1].role = "end"
      /\ U[r + 2].b = "LF" /\ U[r + 2].role = "end"
      /\ \A i \in 0..r : /\ Take(U, i) = Tagged("data", Take(c, i))
                         /\ Drop(U, i) = Closing(Drop(c, i)) \o y
      /\ Take(U, r + 2) = Closing(c) /\ Drop(U, r + 2) = y
  <2>1. Laid(Closing(c) \o y, c, Len(c), y)
    BY <1>3, ClosingWire
  <2> HIDE DEF s, m, r, e
  <2>2. Laid(U, c, r, y)
    BY <1>4, <2>1
  <2> QED BY <2>2 DEF Laid
<1>8. CASE m = 0
  <2>1. Least(r, m) = 0
    BY <1>1, <1>8 DEF Least
  <2>2. e = [d EXCEPT !.more = FALSE, !.sunk = <<>>]
    BY <1>5, <2>1 DEF Deliver
  <2>3. Payload(Take(U, m)) = <<>>
    BY <1>8, TakeDropEnds, PayloadEmpty
  <2>4. Stage(d, U)
    BY DEF Stage
  <2>5. Taken(d, e, U, 0)
    BY <1>6, <2>2, <2>3, <2>4, TakenNone
  <2> QED BY <1>1, <2>5
<1>9. CASE m # 0 /\ m < r
  <2> DEFINE t == Take(c, m)
             a == Drop(c, m)
             rest == Drop(s, m)
  <2>1. Least(r, m) = m /\ r # m
    BY <1>1, <1>9 DEF Least
  <2>2. m \in 0..r /\ m \in 0..Len(c) /\ m \in 0..Len(s)
    BY <1>1, <1>4, <1>9
  <2>3. t \in Seq(Byte) /\ Len(t) = m /\ (\A i \in 1..m : t[i] = c[i])
        /\ a \in Seq(Byte) /\ Len(a) = r - m
    BY <1>4, <2>2, TakeDrop
  <2>4. t = s
    <3> HIDE DEF t, s
    <3>1. \A i \in 1..m : t[i] = s[i]
      <4> TAKE i \in 1..m
      <4>1. i \in 1..r
        BY <2>2
      <4> QED BY <1>2, <1>7, <2>3, <4>1
    <3> QED BY <1>1, <2>3, <3>1, SeqEqual
  <2>5. Take(s, m) = s
    BY <1>1, TakeDropEnds
  <2>6. e = [d EXCEPT !.sunk = s, !.remaining = r - m, !.buf = rest, !.bad = FALSE,
                      !.more = TRUE]
    BY <1>5, <1>9, <2>1, <2>5 DEF Deliver
  <2>7. e.buf = rest /\ e.sunk = s /\ e.remaining = r - m /\ ~e.bad /\ e.more /\ ~e.done
    <3> HIDE DEF rest, s, m, r, e
    <3> QED BY <1>1, <2>6 DEF Decoder
  <2>8. Payload(Take(U, m)) = s
    <3>1. Take(U, m) = Tagged("data", t)
      BY <1>7, <2>2
    <3> HIDE DEF t
    <3>2. Payload(Tagged("data", t)) = t
      BY <2>3, PayloadOfData
    <3> QED BY <2>4, <3>1, <3>2
  <2>9. Inside(e, Drop(U, m))
    <3>1. Drop(U, m) = Closing(a) \o Encode(cs)
      BY <1>7, <2>2 DEF y
    <3>2. r - m # 0
      BY <1>1, <2>1
    <3> HIDE DEF a, m, r, e
    <3> QED BY <2>3, <2>7, <3>1, <3>2 DEF Inside
  <2>10. Taken(d, e, U, m)
    BY <2>7, <2>8, <2>9 DEF Taken, Stage
  <2> QED BY <2>2, <2>10
<1>10. CASE m # 0 /\ ~(m < r)
  <2> DEFINE rest == Drop(s, r)
             two == Take(rest, 2)
             after == Drop(rest, 2)
             k == m - r
  <2>1. Least(r, m) = r
    BY <1>10 DEF Least
  <2>2. m >= r + 2
    <3>1. ~(m < Len(U) /\ U[m + 1].role = "end")
      BY DEF CutsChunkEnd
    <3>2. m # r
      <4> SUFFICES ASSUME m = r PROVE FALSE
        OBVIOUS
      <4>1. m + 1 = r + 1 /\ m < Len(U)
        <5> HIDE DEF m
        <5> QED BY <1>1, <1>3, <1>7
      <4> QED BY <1>7, <3>1, <4>1
    <3>3. m # r + 1
      <4> SUFFICES ASSUME m = r + 1 PROVE FALSE
        OBVIOUS
      <4>1. m + 1 = r + 2 /\ m < Len(U)
        <5> HIDE DEF m, r
        <5> QED BY <1>1, <1>3, <1>7
      <4> QED BY <1>7, <3>1, <4>1
    <3> HIDE DEF m
    <3> QED BY <1>1, <1>10, <3>2, <3>3
  <2>3. r \in 0..m /\ k \in Nat /\ k >= 2 /\ 2 \in 0..k /\ r + 2 \in 0..m
    BY <1>1, <2>2
  <2>4. rest \in Seq(Byte) /\ Len(rest) = k /\ (\A i \in 1..k : rest[i] = s[r + i])
        /\ Take(s, r) \in Seq(Byte) /\ Len(Take(s, r)) = r
        /\ \A i \in 1..r : Take(s, r)[i] = s[i]
    <3> DEFINE b == Take(s, r)
    <3>1. s \in Seq(Byte) /\ r \in 0..Len(s)
      BY <1>1, <2>3
    <3> HIDE DEF s, r
    <3>2. rest \in Seq(Byte) /\ Len(rest) = m - r /\ \A i \in 1..(m - r) : rest[i] = s[r + i]
      BY <3>1, TakeDrop
    <3>3. b \in Seq(Byte) /\ Len(b) = r /\ \A i \in 1..r : b[i] = s[i]
      BY <3>1, TakeDrop
    <3> HIDE DEF rest, b, m
    <3> QED BY <3>2, <3>3 DEF b
  <2>5. Take(s, r) = c
    <3> DEFINE t == Take(s, r)
    <3>1. \A i \in 1..r : t[i] = c[i]
      <4> TAKE i \in 1..r
      <4>1. i \in 1..m
        BY <2>3
      <4> QED BY <1>2, <1>7, <2>4, <4>1
    <3>2. t \in Seq(Byte) /\ Len(t) = r
      BY <2>4
    <3> HIDE DEF t, r
    <3>3. Len(t) = Len(c)
      BY <1>4, <3>2
    <3>4. \A i \in 1..Len(t) : t[i] = c[i]
      BY <3>1, <3>2
    <3>5. t \in Seq(Byte) /\ c \in Seq(Byte)
      BY <3>2
    <3>6. t = c
      BY <3>3, <3>4, <3>5, SeqEqual
    <3> QED BY <3>6 DEF t
  <2>6. two = CRLF
    <3> HIDE DEF rest, s, m, k, r
    <3>1. two \in Seq(Byte) /\ Len(two) = 2 /\ \A i \in 1..2 : two[i] = rest[i]
      <4>1. 2 \in 0..Len(rest)
        BY <2>3, <2>4
      <4> QED BY <2>4, <4>1, TakeDrop
    <3> HIDE DEF two
    <3>2. 1 \in 1..2 /\ 2 \in 1..2 /\ 1 \in 1..k /\ 2 \in 1..k
          /\ r + 1 \in 1..m /\ r + 2 \in 1..m
      BY <1>1, <2>2, <2>3
    <3>3. two[1] = "CR" /\ two[2] = "LF"
      BY <1>2, <1>7, <2>4, <3>1, <3>2
    <3>4. \A i \in 1..2 : two[i] = CRLF[i]
      <4>1. \A i \in 1..2 : i = 1 \/ i = 2
        OBVIOUS
      <4> QED BY <3>3, <4>1, LinesAre
    <3> QED BY <3>1, <3>4, LinesAre, SeqEqual
  <2>7. Len(rest) >= 2
    BY <2>3, <2>4
  <2>8. e = [d EXCEPT !.sunk = c, !.remaining = 0, !.buf = after, !.bad = FALSE, !.more = TRUE]
    <3>1. d.remaining = r /\ r # 0 /\ r - r = 0
      BY <1>1
    <3>2. Take(Drop(d.buf, Least(d.remaining, Len(d.buf))), 2) = <<"CR", "LF">>
      BY <2>1, <2>6 DEF CRLF
    <3>3. Len(Drop(d.buf, Least(d.remaining, Len(d.buf)))) >= 2
      BY <2>1, <2>7
    <3>4. Least(d.remaining, Len(d.buf)) = d.remaining
      BY <2>1
    <3>5. Deliver(d) = [d EXCEPT !.sunk = Take(d.buf, d.remaining),
                                 !.remaining = d.remaining - d.remaining,
                                 !.buf = Drop(Drop(d.buf, d.remaining), 2),
                                 !.bad = FALSE, !.more = TRUE]
      BY <3>1, <3>2, <3>3, <3>4 DEF Deliver
    <3> QED BY <1>5, <2>5, <3>1, <3>5
  <2>9. after = Drop(s, r + 2)
    BY <1>1, <2>3, InTwoSteps
  <2>10. e.buf = after /\ e.sunk = c /\ e.remaining = 0 /\ ~e.bad /\ e.more /\ ~e.done
    <3> HIDE DEF after, s, m, e
    <3> QED BY <1>1, <2>8 DEF Decoder
  <2>11. Payload(Take(U, r + 2)) = c /\ Drop(U, r + 2) = Encode(cs)
    BY <1>7, ClosingIs DEF y
  <2>12. Between(e, Drop(U, r + 2))
    BY <2>10, <2>11 DEF Between
  <2>13. Taken(d, e, U, r + 2)
    BY <2>9, <2>10, <2>11, <2>12 DEF Taken, Stage
  <2> QED BY <2>3, <2>13
<1> QED BY <1>8, <1>9, <1>10

\* Half a turn of the decoder, whatever it holds and wherever it is.
LEMMA TurnTakes ==
  ASSUME NEW d \in Decoder, NEW U \in Seq(Item), Holds(d.buf, U), Stage(d, U), ~d.bad,
         ~CutsChunkEnd(U, Len(d.buf))
  PROVE  \E n \in 0..Len(d.buf) : Taken(d, Turn(d), U, n)
<1>1. CASE AtEnd(d, U)
  <2>1. 0 \in 0..Len(d.buf)
    <3>1. d.buf \in Seq(Byte)
      BY DEF Decoder
    <3> QED BY <3>1, LenProperties
  <2> QED BY <1>1, <2>1, TurnAtEnd
<1> QED BY <1>1, TurnBetween, TurnInside DEF Stage

----------------------------------------------------------------------------
(***************************************************************************)
(* A transfer: n bytes of w have arrived, the decoder d still has the last *)
(* of them in its buffer, and got is what has been passed on.              *)
(***************************************************************************)

Left(w, d, n) == Drop(w, n - Len(d.buf))

Passed(w, d, n, got) ==
    Len(d.buf) <= n - 2 /\ got = Payload(Take(w, n - Len(d.buf)))

Follows(w, d, n) == Holds(d.buf, Left(w, d, n)) /\ Stage(d, Left(w, d, n)) /\ ~d.bad

Idle(w, d, n) == Payload(Take(Left(w, d, n), Len(d.buf))) = <<>>

\* What is passed on grows with what is taken off the wire.
LEMMA PayloadGrows ==
  ASSUME NEW w \in Seq(Item), NEW m \in 0..Len(w), NEW n \in 0..(Len(w) - m)
  PROVE  Payload(Take(w, m + n)) = Payload(Take(w, m)) \o Payload(Take(Drop(w, m), n))
<1> DEFINE a == Take(w, m)
           r == Drop(w, m)
           b == Take(r, n)
<1>1. Take(w, m + n) = a \o b
  BY InTwoSteps
<1>2. a \in Seq(Item) /\ r \in Seq(Item) /\ Len(r) = Len(w) - m
  BY TakeDrop
<1> HIDE DEF a, r
<1>3. n \in 0..Len(r)
  BY <1>2
<1>4. b \in Seq(Item)
  BY <1>2, <1>3, TakeDrop
<1> HIDE DEF b
<1>5. Payload(a \o b) = Payload(a) \o Payload(b)
  BY <1>2, <1>4, PayloadConcat
<1> QED BY <1>1, <1>5 DEF a, b, r

\* The decoder's turn, with what it passed on.
LEMMA TurnStep ==
  ASSUME NEW w \in Seq(Item), NEW d \in Decoder, NEW n \in 2..Len(w), NEW got,
         Passed(w, d, n, got), Follows(w, d, n), ~CutsChunkEnd(w, n)
  PROVE  /\ Passed(w, Turn(d), n, got \o Turn(d).sunk) /\ Follows(w, Turn(d), n)
         /\ ~Turn(d).more => Idle(w, Turn(d), n)
<1> DEFINE s == d.buf
           m == Len(s)
           p == n - m
           U == Drop(w, p)
           e == Turn(d)
<1>1. s \in Seq(Byte) /\ m \in Nat /\ Len(w) \in Nat /\ n \in Nat /\ n <= Len(w)
      /\ m <= n - 2 /\ got = Payload(Take(w, p))
  BY LenProperties DEF Decoder, Passed
<1>2. Holds(s, U) /\ Stage(d, U) /\ ~d.bad
  BY DEF Follows, Left
<1> HIDE DEF s, e
<1>3. p \in 0..Len(w) /\ p \in Nat /\ m \in 0..(Len(w) - p) /\ p + m = n
  <2> HIDE DEF m
  <2> QED BY <1>1
<1> HIDE DEF m, p
<1>4. U \in Seq(Item) /\ Len(U) = Len(w) - p /\ \A i \in 1..(Len(w) - p) : U[i] = w[p + i]
  BY <1>3, TakeDrop
<1>5. ~CutsChunkEnd(U, m)
  <2> SUFFICES ASSUME m < Len(U), U[m + 1].role = "end" PROVE FALSE
    BY DEF CutsChunkEnd
  <2> HIDE DEF U
  <2>1. m + 1 \in 1..(Len(w) - p) /\ p + (m + 1) = n + 1 /\ n < Len(w)
    BY <1>1, <1>3, <1>4
  <2>2. U[m + 1] = w[n + 1]
    BY <1>4, <2>1
  <2> QED BY <2>1, <2>2 DEF CutsChunkEnd
<1> HIDE DEF U
<1>6. PICK k \in 0..m : Taken(d, e, U, k)
  BY <1>2, <1>4, <1>5, TurnTakes DEF s, m, e
<1> DEFINE t == Drop(s, k)
           V == Drop(U, k)
<1>7. /\ e.buf = t /\ e.sunk = Payload(Take(U, k)) /\ Stage(e, V) /\ ~e.bad
      /\ ~e.more => Payload(Take(V, Len(e.buf))) = <<>>
  BY <1>6 DEF Taken, s
<1>8. t \in Seq(Byte) /\ Len(t) = m - k /\ \A i \in 1..(m - k) : t[i] = s[k + i]
  <2>1. k \in 0..Len(s)
    BY <1>6 DEF m
  <2>2. t \in Seq(Byte) /\ Len(t) = Len(s) - k /\ \A i \in 1..(Len(s) - k) : t[i] = s[k + i]
    BY <1>1, <2>1, TakeDrop
  <2> QED BY <2>2 DEF m
<1>9. k \in Nat /\ k \in 0..Len(U) /\ k \in 0..(Len(w) - p) /\ p + k = n - (m - k)
      /\ (m - k) <= n - 2 /\ (m - k) \in Nat
  BY <1>1, <1>3, <1>4
<1>10. V \in Seq(Item) /\ Len(V) = Len(U) - k /\ \A i \in 1..(Len(U) - k) : V[i] = U[k + i]
  BY <1>4, <1>9, TakeDrop
<1>11. V = Drop(w, p + k)
  BY <1>3, <1>9, InTwoSteps DEF U
<1>12. Payload(Take(w, p + k)) = got \o e.sunk
  BY <1>1, <1>3, <1>7, <1>9, PayloadGrows DEF U
<1> HIDE DEF t, V
<1>13. Holds(t, V)
  <2>1. Len(t) <= Len(V)
    BY <1>1, <1>3, <1>4, <1>8, <1>9, <1>10
  <2>2. \A i \in 1..Len(t) : t[i] = V[i].b
    <3> TAKE i \in 1..Len(t)
    <3>1. i \in 1..(m - k) /\ k + i \in 1..m /\ i \in 1..(Len(U) - k)
      BY <1>1, <1>3, <1>4, <1>8, <1>9
    <3>2. s[k + i] = U[k + i].b
      BY <1>2, <3>1 DEF Holds, m
    <3> QED BY <1>8, <1>10, <3>1, <3>2
  <2> QED BY <2>1, <2>2 DEF Holds
<1>14. n - Len(e.buf) = p + k /\ Len(e.buf) <= n - 2
  BY <1>7, <1>8, <1>9
<1>15. Left(w, e, n) = V
  BY <1>11, <1>14 DEF Left
<1>16. Passed(w, e, n, got \o e.sunk)
  BY <1>12, <1>14 DEF Passed
<1>17. Follows(w, e, n)
  BY <1>7, <1>13, <1>15 DEF Follows
<1>18. ~e.more => Idle(w, e, n)
  BY <1>7, <1>15 DEF Idle
<1> QED BY <1>16, <1>17, <1>18 DEF e

LEMMA PieceIs ==
  ASSUME NEW w \in Seq(Item), NEW m \in 2..Len(w), NEW n \in m..Len(w)
  PROVE  /\ Bytes(SubSeq(w, m + 1, n)) \in Seq(Byte)
         /\ Len(Bytes(SubSeq(w, m + 1, n))) = n - m
<1> DEFINE c == SubSeq(w, m + 1, n)
           r == Drop(w, m)
           k == n - m
<1>1. m \in 0..Len(w) /\ k \in 0..(Len(w) - m) /\ m + k = n
  BY LenProperties
<1> HIDE DEF k
<1>2. c = Take(r, k)
  BY <1>1, InTwoSteps
<1>3. r \in Seq(Item) /\ Len(r) = Len(w) - m
  BY <1>1, TakeDrop
<1> HIDE DEF r, c
<1>4. k \in 0..Len(r)
  BY <1>1, <1>3
<1>5. c \in Seq(Item) /\ Len(c) = k
  BY <1>2, <1>3, <1>4, TakeDrop
<1>6. Bytes(c) \in Seq(Byte) /\ Len(Bytes(c)) = Len(c)
  BY <1>5, BytesIs
<1> QED BY <1>5, <1>6 DEF c, k

\* What has arrived since the first m bytes goes into the buffer.
LEMMA EnterStep ==
  ASSUME NEW w \in Seq(Item), NEW d \in Decoder, NEW m \in 2..Len(w), NEW n \in m..Len(w), NEW got,
         Passed(w, d, m, got), Follows(w, d, m), Idle(w, d, m),
         NEW data, data = Bytes(SubSeq(w, m + 1, n)), NEW e, e = EnterFeed(d, data)
  PROVE  /\ data \in Seq(Byte) /\ Len(data) = n - m
         /\ e \in Decoder /\ Passed(w, e, n, got) /\ Follows(w, e, n)
         /\ data = <<>> => Idle(w, e, n)
<1> DEFINE s == d.buf
           l == Len(s)
           p == m - l
           U == Drop(w, p)
           c == SubSeq(w, m + 1, n)
           t == s \o data
           k == n - m
<1>1. s \in Seq(Byte) /\ l \in Nat /\ Len(w) \in Nat /\ m \in Nat /\ n \in Nat
      /\ m <= n /\ n <= Len(w) /\ l <= m - 2 /\ 2 <= m /\ got = Payload(Take(w, p))
  BY LenProperties DEF Decoder, Passed
<1>2. l <= Len(U) /\ (\A i \in 1..l : s[i] = U[i].b) /\ Stage(d, U) /\ ~d.bad
  BY DEF Follows, Left, Holds
<1>3. c \in Seq(Item) /\ Len(c) = k /\ \A i \in 1..k : c[i] = w[m + i]
  <2> DEFINE r == Drop(w, m)
  <2>1. m \in 0..Len(w) /\ k \in 0..(Len(w) - m) /\ m + k = n
    BY <1>1
  <2>2. c = Take(r, k)
    BY <2>1, InTwoSteps
  <2>3. r \in Seq(Item) /\ Len(r) = Len(w) - m /\ \A i \in 1..(Len(w) - m) : r[i] = w[m + i]
    BY <2>1, TakeDrop
  <2> HIDE DEF r, c, k
  <2>4. k \in 0..Len(r)
    BY <2>1, <2>3
  <2>5. Take(r, k) \in Seq(Item) /\ Len(Take(r, k)) = k /\ \A i \in 1..k : Take(r, k)[i] = r[i]
    BY <2>3, <2>4, TakeDrop
  <2>6. \A i \in 1..k : r[i] = w[m + i]
    BY <2>1, <2>3
  <2> QED BY <2>2, <2>5, <2>6
<1> HIDE DEF c
<1>4. data \in Seq(Byte) /\ Len(data) = k /\ \A i \in 1..k : data[i] = w[m + i].b
  <2>1. data \in Seq(Byte) /\ Len(data) = Len(c) /\ \A i \in 1..Len(c) : data[i] = c[i].b
    BY <1>3, BytesIs DEF c
  <2> HIDE DEF k
  <2> QED BY <1>3, <2>1
<1>5. e \in Decoder /\ e.buf = t /\ e.remaining = d.remaining /\ e.done = d.done /\ e.bad = d.bad
  BY <1>4, EnterFeedIs
<1>6. p \in Nat /\ p \in 0..Len(w) /\ k \in Nat /\ p + l = m /\ n - (l + k) = p /\ l + k <= n - 2
      /\ l + k <= Len(w) - p
  <2> HIDE DEF l
  <2> QED BY <1>1
<1> HIDE DEF s, l, k, p
<1>7. t \in Seq(Byte) /\ Len(t) = l + k
      /\ \A i \in 1..(l + k) : t[i] = IF i <= l THEN s[i] ELSE data[i - l]
  <2>1. t \in Seq(Byte) /\ Joined(t, s, data, l, Len(data))
    BY <1>1, <1>4, ConcatIs DEF l
  <2> HIDE DEF t
  <2>2. Joined(t, s, data, l, k)
    BY <1>4, <2>1
  <2> QED BY <2>1, <2>2 DEF Joined
<1>8. U \in Seq(Item) /\ Len(U) = Len(w) - p /\ \A i \in 1..(Len(w) - p) : U[i] = w[p + i]
  BY <1>6, TakeDrop
<1> HIDE DEF t, U
<1>9. Holds(t, U)
  <2>1. Len(t) <= Len(U)
    BY <1>6, <1>7, <1>8
  <2>2. \A i \in 1..Len(t) : t[i] = U[i].b
    <3> TAKE i \in 1..Len(t)
    <3>1. i \in 1..(l + k) /\ i \in 1..(Len(w) - p)
      BY <1>1, <1>6, <1>7
    <3>2. CASE i <= l
      <4>1. i \in 1..l
        BY <1>1, <3>1, <3>2
      <4> QED BY <1>2, <1>7, <3>1, <3>2, <4>1
    <3>3. CASE ~(i <= l)
      <4>1. i - l \in 1..k /\ m + (i - l) = p + i
        BY <1>1, <1>6, <3>1, <3>3
      <4>2. t[i] = w[p + i].b
        BY <1>4, <1>7, <3>1, <3>3, <4>1
      <4> QED BY <1>8, <3>1, <4>2
    <3> QED BY <3>2, <3>3
  <2> QED BY <2>1, <2>2 DEF Holds
<1>10. n - Len(e.buf) = p /\ Len(e.buf) <= n - 2
  BY <1>5, <1>6, <1>7
<1>11. Left(w, e, n) = U
  BY <1>10 DEF Left, U
<1>12. Passed(w, e, n, got)
  BY <1>1, <1>10 DEF Passed
<1>13. Stage(e, U)
  BY <1>2, <1>5 DEF Stage, AtEnd, Between, Inside
<1>14. Follows(w, e, n)
  BY <1>2, <1>5, <1>9, <1>11, <1>13 DEF Follows
<1>15. data = <<>> => Idle(w, e, n)
  <2> SUFFICES ASSUME data = <<>> PROVE Idle(w, e, n)
    OBVIOUS
  <2>1. t = s
    BY <1>1, ConcatEmptySeq DEF t
  <2>2. Len(e.buf) = l
    BY <1>5, <2>1 DEF l
  <2>3. Left(w, d, m) = U
    BY DEF Left, U, p, l, s
  <2> QED BY <1>11, <2>2, <2>3 DEF Idle, l, s
<1> QED BY <1>4, <1>5, <1>12, <1>14, <1>15 DEF k

\* The same of a body that is not chunked, which goes straight to the sink.
LEMMA PlainStep ==
  ASSUME NEW w \in Seq(Item), NEW c \in Seq(Byte), Drop(w, 2) = Tagged("data", c),
         NEW m \in 2..Len(w), NEW n \in m..Len(w),
         NEW data, data = Bytes(SubSeq(w, m + 1, n))
  PROVE  /\ data \in Seq(Byte) /\ Len(data) = n - m
         /\ Payload(Take(w, n)) = Payload(Take(w, m)) \o data
<1> DEFINE j == m - 2
           k == n - m
           a == Drop(c, j)
           b == Take(a, k)
           v == Tagged("data", c)
<1>1. Len(w) \in Nat /\ m \in Nat /\ n \in Nat /\ 2 <= m /\ m <= n /\ n <= Len(w)
      /\ 2 \in 0..Len(w) /\ j \in 0..(Len(w) - 2) /\ 2 + j = m /\ m \in 0..Len(w)
      /\ k \in 0..(Len(w) - m) /\ m + k = n /\ k \in Nat
  BY LenProperties
<1> HIDE DEF j, k
<1>2. v \in Seq(Item) /\ Len(v) = Len(c) /\ Len(c) \in Nat
  BY RoleIs, TaggedIs, LenProperties
<1>3. Len(c) = Len(w) - 2
  <2>1. Len(Drop(w, 2)) = Len(w) - 2
    BY <1>1, TakeDrop
  <2> QED BY <1>2, <2>1
<1>4. j \in 0..Len(c)
  BY <1>1, <1>3
<1>5. a \in Seq(Byte) /\ Len(a) = Len(c) - j
  BY <1>4, TakeDrop
<1>6. Drop(v, j) = Tagged("data", a)
  BY <1>4, RoleIs, TaggedTakeDrop
<1>7. Drop(w, m) = Drop(v, j)
  <2>1. Drop(Drop(w, 2), j) = Drop(w, 2 + j)
    BY <1>1, InTwoSteps
  <2> QED BY <1>1, <2>1
<1> HIDE DEF a, v
<1>8. k \in 0..Len(a)
  BY <1>1, <1>3, <1>5
<1>9. Take(Tagged("data", a), k) = Tagged("data", b)
  BY <1>5, <1>8, RoleIs, TaggedTakeDrop
<1>10. b \in Seq(Byte) /\ Len(b) = k
  BY <1>5, <1>8, TakeDrop
<1>11. SubSeq(w, m + 1, n) = Take(Drop(w, m), k)
  BY <1>1, InTwoSteps
<1> HIDE DEF b
<1>12. SubSeq(w, m + 1, n) = Tagged("data", b)
  BY <1>6, <1>7, <1>9, <1>11
<1> DEFINE x == Tagged("data", b)
<1>13. x \in Seq(Item) /\ Len(x) = k /\ \A i \in 1..k : x[i] = [b |-> b[i], role |-> "data"]
  <2>1. x \in Seq(Item) /\ Len(x) = Len(b) /\ \A i \in 1..Len(b) : x[i] = [b |-> b[i], role |-> "data"]
    BY <1>10, RoleIs, TaggedIs
  <2> HIDE DEF x
  <2> QED BY <1>10, <2>1
<1>14. Payload(x) = b
  BY <1>10, PayloadOfData
<1> HIDE DEF x
<1>15. Bytes(x) = b
  <2> DEFINE y == Bytes(x)
  <2>1. y \in Seq(Byte) /\ Len(y) = Len(x) /\ \A i \in 1..Len(x) : y[i] = x[i].b
    BY <1>13, BytesIs
  <2> HIDE DEF y
  <2>2. Len(y) = Len(b)
    BY <1>10, <1>13, <2>1
  <2>3. \A i \in 1..Len(y) : y[i] = b[i]
    <3> TAKE i \in 1..Len(y)
    <3>1. i \in 1..k /\ i \in 1..Len(x)
      BY <1>13, <2>1
    <3>2. y[i] = x[i].b /\ x[i] = [b |-> b[i], role |-> "data"]
      BY <1>13, <2>1, <3>1
    <3> QED BY <3>2
  <2>4. y = b
    BY <1>10, <2>1, <2>2, <2>3, SeqEqual
  <2> QED BY <2>4 DEF y
<1>16. data = b
  BY <1>12, <1>15 DEF x
<1>17. Payload(Take(w, m + k)) = Payload(Take(w, m)) \o Payload(Take(Drop(w, m), k))
  BY <1>1, PayloadGrows
<1>18. Take(Drop(w, m), k) = x
  BY <1>6, <1>7, <1>9 DEF x
<1> QED BY <1>1, <1>10, <1>14, <1>16, <1>17, <1>18 DEF k

----------------------------------------------------------------------------
(***************************************************************************)
(* What a server has for the call.                                         *)
(***************************************************************************)

Body == IF chunked THEN Encode(resp.chunks) ELSE Tagged("data", Content)

LEMMA ChunksAre == ASSUME resp \in Responses PROVE resp.chunks \in Seq(Chunk)
<1> DEFINE cs == resp.chunks
<1>1. resp \in Response
  BY HttpAssumption
<1>2. cs \in Seq(Seq(STRING))
  BY <1>1 DEF Response
<1>3. \A i \in 1..Len(cs) : Len(cs[i]) \in Sizes \ {0}
  BY HttpAssumption DEF Sizes
<1> HIDE DEF cs
<1> DEFINE S == Seq(STRING)
<1>4. Len(cs) \in Nat /\ cs = [i \in 1..Len(cs) |-> cs[i]] /\ DOMAIN cs = 1..Len(cs)
      /\ \A i \in 1..Len(cs) : cs[i] \in S
  BY <1>2, LenProperties, ElementOfSeq
<1>5. \A i \in 1..Len(cs) : cs[i] \in Chunk
  <2> TAKE i \in 1..Len(cs)
  <2> DEFINE c == cs[i]
  <2>1. c \in Seq(STRING)
    BY <1>4
  <2>2. Len(c) \in Sizes \ {0}
    BY <1>3
  <2> HIDE DEF c
  <2>3. Len(c) \in Nat /\ c = [j \in 1..Len(c) |-> c[j]] /\ DOMAIN c = 1..Len(c)
        /\ \A j \in 1..Len(c) : c[j] \in STRING
    BY <2>1, LenProperties, ElementOfSeq
  <2>4. \A j \in 1..Len(c) : c[j] \in Byte
    BY <2>3 DEF Byte
  <2>5. c \in Seq(Byte)
    BY <2>3, <2>4, SeqByIndex
  <2>6. c \in Chunk
    BY <2>2, <2>5 DEF Chunk
  <2> QED BY <2>6 DEF c
<1>6. cs \in Seq(Chunk)
  BY <1>4, <1>5, SeqByIndex
<1> QED BY <1>6 DEF cs

LEMMA WireIs ==
  ASSUME resp \in Responses
  PROVE  /\ resp.chunks \in Seq(Chunk) /\ Content \in Seq(Byte) /\ Payload(wire) = Content
         /\ wire \in Seq(Item) /\ Len(wire) \in Nat /\ 2 <= Len(wire) /\ Drop(wire, 2) = Body
         /\ \A n \in 0..2 : Payload(Take(wire, n)) = <<>>
<1> DEFINE h == Tagged("head", HeadBytes)
           B == Body
<1>1. resp.chunks \in Seq(Chunk)
  BY ChunksAre
<1>2. Content = FlattenSeq(resp.chunks)
  BY DEF Content, Contents
<1>3. Content \in Seq(Byte) /\ Payload(Encode(resp.chunks)) = Content
      /\ Encode(resp.chunks) \in Seq(Item)
  BY <1>1, <1>2, PayloadEncode, EncodeIs
<1>4. Tagged("data", Content) \in Seq(Item) /\ Payload(Tagged("data", Content)) = Content
  BY <1>3, RoleIs, TaggedIs, PayloadOfData
<1>5. B \in Seq(Item) /\ Payload(B) = Content /\ Len(B) \in Nat
  <2>1. B \in Seq(Item) /\ Payload(B) = Content
    BY <1>3, <1>4 DEF Body
  <2> HIDE DEF B
  <2> QED BY <2>1, LenProperties
<1>6. wire = h \o B
  BY DEF wire, Wires, Body, chunked, Content
<1> HIDE DEF B
<1>7. "head" \in Role \ {"data"} /\ HeadBytes \in Seq(Byte) /\ Len(HeadBytes) = 2
  BY RoleIs, LinesAre
<1>8. h \in Seq(Item) /\ Len(h) = 2 /\ Payload(h) = <<>>
      /\ \A n \in 0..2 : Payload(Take(h, n)) = <<>>
  <2>1. h \in Seq(Item) /\ Len(h) = Len(HeadBytes)
    BY <1>7, TaggedIs
  <2>2. \A n \in 0..Len(HeadBytes) : Payload(Take(h, n)) = <<>>
    BY <1>7, PayloadOfTaken
  <2>3. Payload(h) = <<>>
    BY <1>7, PayloadOfTagged
  <2> HIDE DEF h
  <2> QED BY <1>7, <2>1, <2>2, <2>3
<1> HIDE DEF h
<1>9. h \o B \in Seq(Item) /\ Joined(h \o B, h, B, Len(h), Len(B))
  BY <1>5, <1>8, ConcatIs
<1>10. wire \in Seq(Item) /\ Len(wire) = 2 + Len(B)
  <2>1. wire \in Seq(Item) /\ Joined(wire, h, B, 2, Len(B))
    BY <1>6, <1>8, <1>9
  <2> QED BY <2>1 DEF Joined
<1>11. Take(h \o B, Len(h)) = h /\ Drop(h \o B, Len(h)) = B
  BY <1>5, <1>8, AfterFirst
<1>12. Drop(wire, 2) = B
  BY <1>6, <1>8, <1>11
<1>13. \A n \in 0..2 : Take(wire, n) = Take(h, n)
  <2>1. \A n \in 0..Len(h) : Take(h \o B, n) = Take(h, n)
    BY <1>5, <1>8, OfConcat
  <2> QED BY <1>6, <1>8, <2>1
<1>14. Payload(wire) = Content
  <2>1. Payload(h \o B) = Payload(h) \o Payload(B)
    BY <1>5, <1>8, PayloadConcat
  <2>2. <<>> \o Content = Content
    BY <1>3, ConcatEmptySeq
  <2> QED BY <1>5, <1>6, <1>8, <2>1, <2>2
<1>15. Len(wire) \in Nat /\ 2 <= Len(wire)
  BY <1>5, <1>10
<1> QED BY <1>1, <1>3, <1>8, <1>10, <1>12, <1>13, <1>14, <1>15 DEF B

----------------------------------------------------------------------------
(***************************************************************************)
(* The inductive invariant about what has been read and passed on.         *)
(***************************************************************************)

Typed ==
    /\ TypeOK
    /\ resp \in Responses
    /\ dec \in Decoder /\ handed \in Seq(Byte) /\ collected \in Seq(Byte)

\* The head comes first; a body that is not chunked bypasses the decoder.
Framed ==
    /\ headParsed => arrived >= 2
    /\ ~headParsed => /\ dec = FreshDecoder /\ bodyDelivered = 0
                      /\ handed = <<>> /\ collected = <<>>
                      /\ pc # "done" => arrived < 2
    /\ pc \in {"start", "connect", "send"} => ~headParsed
    /\ ~chunked => /\ dec.buf = <<>> /\ Len(Received) = bodyDelivered
                   /\ headParsed => bodyDelivered = arrived - 2
    /\ chunked => bodyDelivered = 0
    /\ pc = "decode" => chunked

\* While no piece cut a chunk's end, what was passed on is the body's share of
\* what has left the decoder's buffer, whose end the decoder has in it.
Progress ==
    (clean /\ headParsed) =>
      /\ Passed(wire, dec, arrived, Received)
      /\ chunked => Follows(wire, dec, arrived) /\ ~CutsChunkEnd(wire, arrived)
      /\ pc \in {"check", "recv"} => Idle(wire, dec, arrived)

Reads == Typed /\ Framed /\ Progress /\ SuccessIsWhole

LEMMA InitReads == Init => Reads
<1> SUFFICES ASSUME Init PROVE Reads
  OBVIOUS
<1>1. resp \in Responses /\ Len(wire) \in Nat /\ 2 <= Len(wire)
  BY WireIs DEF Init
<1>2. Typed
  <2>1. dec \in Decoder /\ dec.remaining = 0 /\ <<>> \in Seq(Byte)
    BY FreshIs, EmptySeq DEF Init, FreshDecoder
  <2>2. TypeOK
    <3>1. 0 \in 0..Len(wire) /\ 0 \in 0..MaxAddrs /\ 0 \in 0..MsgSize /\ 0 \in 0..599
      BY <1>1, HttpAssumption
    <3>2. addrs \in 0..MaxAddrs /\ sent \in 0..MsgSize /\ status \in 0..599
          /\ arrived \in 0..Len(wire) /\ bodyDelivered \in 0..Len(wire)
      BY <3>1 DEF Init
    <3>3. dec.remaining \in Nat
      BY <2>1
    <3>4. /\ pc = "start" /\ sock = "none" /\ headParsed = FALSE /\ streaming = FALSE
          /\ eof = FALSE /\ clean = TRUE /\ result = "Pending"
      BY DEF Init
    <3> QED BY <3>2, <3>3, <3>4 DEF TypeOK
  <2> QED BY <1>1, <2>1, <2>2 DEF Init, Typed
<1>3. Framed
  <2>1. dec.buf = <<>>
    BY FreshIs DEF Init
  <2>2. Received = <<>> \o <<>>
    BY DEF Init, Received
  <2>3. <<>> \o <<>> = <<>> /\ Len(<<>>) = 0
    BY EmptySeq, ConcatEmptySeq
  <2>4. Len(Received) = 0
    BY <2>2, <2>3
  <2> QED BY <2>1, <2>4 DEF Init, Framed
<1>4. Progress /\ SuccessIsWhole
  BY DEF Init, Progress, SuccessIsWhole
<1> QED BY <1>2, <1>3, <1>4 DEF Reads

LEMMA SameRequest ==
  ASSUME UNCHANGED request
  PROVE  wire' = wire /\ chunked' = chunked /\ Content' = Content /\ resp' = resp /\ api' = api
  BY DEF request, wire, chunked, Content

\* What the sink is given joins what was passed on.
LEMMA SinkAdds ==
  ASSUME IInv, NEW s, s = resp.status, NEW data \in Seq(Byte), Sink(data, s),
         handed \in Seq(Byte), collected \in Seq(Byte)
  PROVE  /\ Received' = Received \o data
         /\ handed' \in Seq(Byte) /\ collected' \in Seq(Byte) /\ streaming' \in BOOLEAN \cup {streaming}
         /\ Received \in Seq(Byte)
<1>1. Received \in Seq(Byte)
  BY ConcatProperties DEF Received
<1>2. CASE data = <<>>
  <2>1. UNCHANGED sink
    BY <1>2 DEF Sink
  <2>2. Received' = Received
    BY <2>1 DEF sink, Received
  <2>3. Received \o <<>> = Received
    BY <1>1, ConcatEmptySeq
  <2> QED BY <1>1, <1>2, <2>1, <2>2, <2>3 DEF sink
<1>3. CASE data # <<>> /\ Streams
  <2>1. collected = <<>>
    BY <1>3 DEF IInv, Sinks
  <2>2. handed' = handed \o data /\ collected' = collected /\ streaming' = TRUE
    BY <1>3 DEF Sink, Streams
  <2>3. handed \o data \in Seq(Byte)
    BY ConcatProperties
  <2> DEFINE h == handed \o data
  <2>4. Received' = h \o <<>> /\ Received = handed \o <<>>
    BY <2>1, <2>2 DEF Received
  <2> HIDE DEF h
  <2>5. h \o <<>> = h /\ handed \o <<>> = handed
    BY <2>3, ConcatEmptySeq DEF h
  <2> QED BY <1>1, <2>2, <2>3, <2>4, <2>5 DEF h
<1>4. CASE data # <<>> /\ ~Streams
  <2>1. handed = <<>> /\ ~streaming
    BY <1>4 DEF IInv, Sinks
  <2>2. handed' = handed /\ collected' = collected \o data /\ streaming' = FALSE
    BY <1>4, <2>1 DEF Sink, Streams
  <2> DEFINE h == collected \o data
  <2>3. h \in Seq(Byte)
    BY ConcatProperties
  <2>4. Received' = <<>> \o h /\ Received = <<>> \o collected
    BY <2>1, <2>2 DEF Received
  <2> HIDE DEF h
  <2>5. <<>> \o h = h /\ <<>> \o collected = collected
    BY <2>3, ConcatEmptySeq
  <2> QED BY <1>1, <2>2, <2>3, <2>4, <2>5 DEF h
<1> QED BY <1>2, <1>3, <1>4

\* Steps that read nothing.
LEMMA QuietReads ==
  ASSUME Framed, Progress, pc # "done", pc' # "decode",
         UNCHANGED <<request, reading, sink, clean>>,
         pc' \in {"start", "connect", "send"} => ~headParsed,
         pc' \in {"check", "recv"} => (pc \in {"check", "recv"} \/ ~headParsed)
  PROVE  Framed' /\ Progress'
<1>1. /\ wire' = wire /\ chunked' = chunked /\ Received' = Received
      /\ UNCHANGED <<arrived, headParsed, bodyDelivered, dec, handed, collected, clean>>
  BY SameRequest DEF reading, sink, Received
<1>2. Framed'
  BY <1>1 DEF Framed
<1>3. Progress'
  <2>1. (clean' /\ headParsed') = (clean /\ headParsed)
    BY <1>1
  <2>2. Passed(wire, dec, arrived, Received)' = Passed(wire, dec, arrived, Received)
        /\ Follows(wire, dec, arrived)' = Follows(wire, dec, arrived)
        /\ CutsChunkEnd(wire, arrived)' = CutsChunkEnd(wire, arrived)
        /\ Idle(wire, dec, arrived)' = Idle(wire, dec, arrived)
    BY <1>1
  <2> QED BY <1>1, <2>2 DEF Progress
<1> QED BY <1>2, <1>3

\* Body bytes, the first or later ones, m of the wire's having come before.
LEMMA BodyReads ==
  ASSUME IInv, Typed, UNCHANGED request, pc = "recv",
         NEW m \in 2..Len(wire), arrived' \in m..Len(wire), headParsed',
         clean' => /\ clean /\ ~CutsChunkEnd(wire, arrived')
                   /\ Passed(wire, dec, m, Received) /\ Idle(wire, dec, m)
                   /\ chunked => Follows(wire, dec, m),
         ~chunked => /\ dec.buf = <<>> /\ Len(Received) = bodyDelivered
                     /\ bodyDelivered = m - 2,
         chunked => bodyDelivered = 0,
         TakeBody(Bytes(SubSeq(wire, m + 1, arrived')), resp.status)
  PROVE  /\ Framed' /\ Progress'
         /\ dec' \in Decoder /\ handed' \in Seq(Byte) /\ collected' \in Seq(Byte)
         /\ streaming' \in BOOLEAN /\ pc' \in {"check", "decode"}
<1> DEFINE n == arrived'
           data == Bytes(SubSeq(wire, m + 1, n))
<1>1. /\ wire' = wire /\ chunked' = chunked /\ wire \in Seq(Item) /\ Drop(wire, 2) = Body
      /\ Content \in Seq(Byte) /\ Len(wire) \in Nat
  BY SameRequest, WireIs DEF Typed
<1>2. n \in m..Len(wire) /\ n >= 2 /\ m \in Nat /\ n \in Nat
  BY <1>1
<1>3. TakeBody(data, resp.status)
  OBVIOUS
<1>4. data \in Seq(Byte) /\ Len(data) = n - m
  <2> HIDE DEF n
  <2>1. n \in m..Len(wire)
    BY DEF n
  <2> QED BY <1>1, <2>1, PieceIs DEF data
<1> HIDE DEF data
<1>5. handed \in Seq(Byte) /\ collected \in Seq(Byte) /\ dec \in Decoder /\ streaming \in BOOLEAN
  BY DEF Typed, TypeOK
<1>6. CASE chunked
  <2> DEFINE e == EnterFeed(dec, data)
  <2>1. dec' = e /\ pc' = (IF data = <<>> THEN "check" ELSE "decode")
        /\ UNCHANGED <<sink, bodyDelivered>>
    BY <1>3, <1>6 DEF TakeBody
  <2>2. UNCHANGED <<handed, collected, streaming>> /\ Received' = Received
    BY <2>1 DEF sink, Received
  <2>3. e \in Decoder
    BY <1>4, <1>5, EnterFeedIs
  <2>4. Framed'
    BY <1>1, <1>2, <1>6, <2>1 DEF Framed
  <2>5. Progress'
    <3> SUFFICES ASSUME clean' PROVE Progress'
      BY DEF Progress
    <3> HIDE DEF e
    <3>1. /\ Passed(wire, dec, m, Received) /\ Follows(wire, dec, m) /\ Idle(wire, dec, m)
          /\ ~CutsChunkEnd(wire, n)
      BY <1>6
    <3>2. /\ Passed(wire, e, n, Received) /\ Follows(wire, e, n)
          /\ data = <<>> => Idle(wire, e, n)
      BY <1>1, <1>2, <1>5, <3>1, EnterStep DEF data, e
    <3>3. pc' \in {"check", "recv"} => data = <<>>
      BY <2>1
    <3> HIDE DEF n
    <3>4. Passed(wire, dec, arrived, Received)' /\ Follows(wire, dec, arrived)'
          /\ ~CutsChunkEnd(wire, arrived)'
          /\ (pc' \in {"check", "recv"} => Idle(wire, dec, arrived)')
      BY <1>1, <2>1, <2>2, <3>1, <3>2, <3>3 DEF n
    <3> QED BY <3>4 DEF Progress
  <2> QED BY <1>5, <2>1, <2>2, <2>3, <2>4, <2>5
<1>7. CASE ~chunked
  <2>1. Sink(data, resp.status) /\ bodyDelivered' = bodyDelivered + Len(data)
        /\ pc' = "check" /\ dec' = dec
    BY <1>3, <1>7 DEF TakeBody
  <2>2. /\ Received' = Received \o data
        /\ handed' \in Seq(Byte) /\ collected' \in Seq(Byte) /\ streaming' \in BOOLEAN
        /\ Received \in Seq(Byte)
    BY <1>4, <1>5, <2>1, SinkAdds
  <2>3. dec.buf = <<>> /\ Len(Received) = bodyDelivered /\ bodyDelivered = m - 2
    BY <1>7
  <2>4. bodyDelivered' = n - 2
    BY <1>2, <1>4, <2>1, <2>3
  <2>5. Len(Received') = n - 2
    <3>1. Len(Received \o data) = Len(Received) + Len(data)
      BY <1>4, <2>2, ConcatProperties
    <3>2. Len(Received') = Len(Received) + Len(data)
      BY <2>2, <3>1
    <3>3. Len(Received) = m - 2 /\ Len(data) = n - m
      BY <1>4, <2>3
    <3>4. n \in Nat /\ m \in Nat
      BY <1>2
    <3> HIDE DEF n
    <3> QED BY <3>2, <3>3, <3>4
  <2>6. Framed'
    BY <1>1, <1>2, <1>7, <2>1, <2>3, <2>4, <2>5 DEF Framed
  <2>7. Progress'
    <3> SUFFICES ASSUME clean' PROVE Progress'
      BY DEF Progress
    <3>1. Len(dec.buf) = 0
      BY <2>3, EmptySeq
    <3>2. Received = Payload(Take(wire, m))
      <4>1. m - 0 = m
        BY <1>2
      <4> QED BY <3>1, <4>1 DEF Passed
    <3>3. Drop(wire, 2) = Tagged("data", Content)
      BY <1>1, <1>7 DEF Body
    <3>4. Payload(Take(wire, n)) = Payload(Take(wire, m)) \o data
      BY <1>1, <1>2, <3>3, PlainStep DEF data
    <3>5. n - 0 = n /\ 0 <= n - 2
      <4>1. n \in Nat /\ n >= 2
        BY <1>2
      <4> HIDE DEF n
      <4> QED BY <4>1
    <3>6. Passed(wire, dec, n, Received')
      BY <2>2, <3>1, <3>2, <3>4, <3>5 DEF Passed
    <3>7. Idle(wire, dec, n)
      <4> DEFINE u == Left(wire, dec, n)
      <4>1. Take(u, 0) = <<>>
        BY SubSeqEmpty DEF Take
      <4> QED BY <3>1, <4>1, PayloadEmpty DEF Idle
    <3> HIDE DEF n
    <3>8. Passed(wire, dec, arrived, Received)' /\ Idle(wire, dec, arrived)'
      BY <1>1, <2>1, <3>6, <3>7 DEF n
    <3> QED BY <1>1, <1>7, <3>8 DEF Progress
  <2> QED BY <1>5, <2>1, <2>2, <2>6, <2>7
<1> QED BY <1>6, <1>7

----------------------------------------------------------------------------
(***************************************************************************)
(* Every step keeps it.                                                    *)
(***************************************************************************)

Errors == {"Network", "Timeout", "InvalidArgument"}
Results == {"Pending", "None"} \cup TransportErrors \cup StatusErrors

LEMMA ReturnResult ==
  ASSUME NEW err \in {"None"} \cup Errors, Return(err)
  PROVE  pc' = "done" /\ sock' = "none" /\ result' \in Results
<1>1. pc' = "done" /\ sock' = "none" /\ (result' = err \/ result' = MapHttpStatus(status))
  BY DEF Return
<1>2. MapHttpStatus(status) \in Results
  BY DEF MapHttpStatus, Results, StatusErrors
<1>3. err \in Results
  BY DEF Errors, Results, TransportErrors, StatusErrors
<1> QED BY <1>1, <1>2, <1>3

LEMMA QuietTyped ==
  ASSUME Typed, UNCHANGED <<request, reading, sink, clean>>,
         pc' \in {"start", "connect", "send", "recv", "decode", "check", "done"},
         addrs' \in 0..MaxAddrs, sock' \in {"none", "open", "connected"},
         sent' \in 0..MsgSize, eof' \in BOOLEAN, result' \in Results
  PROVE  Typed'
<1>1. /\ wire' = wire /\ resp' = resp
      /\ UNCHANGED <<arrived, headParsed, status, bodyDelivered, dec, handed, collected,
                     streaming, clean>>
  BY SameRequest DEF reading, sink
<1>2. TypeOK'
  BY <1>1 DEF Typed, TypeOK, Results
<1> QED BY <1>1, <1>2 DEF Typed

\* A call that fails has nothing to show.
LEMMA FailedCall ==
  ASSUME IInv, pc # "done", UNCHANGED request, api # "fetch" => result' # "None",
         api = "fetch" => response' = response
  PROVE  SuccessIsWhole'
<1>1. api' = api
  BY DEF request
<1>2. api = "fetch" => response = NoResponse
  BY DEF IInv, Loop, Outcome, ResponseOnSuccess
<1> QED BY <1>1, <1>2 DEF SuccessIsWhole

\* A call that is over, or is not yet.
LEMMA Unfinished == ASSUME pc' # "done" PROVE SuccessIsWhole'
  BY DEF SuccessIsWhole

LEMMA ReturnReads ==
  ASSUME IInv, Reads, pc # "done", NEW err \in Errors, Return(err),
         UNCHANGED <<request, addrs, sent, reading, sink, eof, clean>>
  PROVE  Reads'
<1>1. pc' = "done" /\ sock' = "none" /\ result' \in Results
  BY ReturnResult
<1>2. Typed'
  BY <1>1, QuietTyped DEF Reads, Typed, TypeOK
<1>3. Framed' /\ Progress'
  BY <1>1, QuietReads DEF Reads
<1>4. SuccessIsWhole'
  <2>1. (api # "fetch" => result' # "None") /\ (api = "fetch" => response' = response)
    BY DEF Return, Errors
  <2> QED BY <2>1, FailedCall
<1> QED BY <1>2, <1>3, <1>4 DEF Reads

LEMMA StartReads == ASSUME IInv, Reads, Start PROVE Reads'
<1>1. /\ pc = "start"
      /\ UNCHANGED <<request, sent, reading, sink, eof, clean>>
  BY DEF Start
<1>2. CASE \E err \in Errors : Return(err) /\ UNCHANGED addrs
  BY <1>1, <1>2, ReturnReads
<1>3. CASE addrs' \in 1..MaxAddrs /\ pc' = "connect" /\ UNCHANGED <<sock, ended>>
  <2>1. ~headParsed
    BY <1>1 DEF Reads, Framed
  <2>2. addrs' \in 0..MaxAddrs
    BY <1>3, HttpAssumption
  <2>3. Typed'
    BY <1>1, <1>3, <2>2, QuietTyped DEF Reads, Typed, TypeOK, ended, Results
  <2>4. Framed' /\ Progress'
    BY <1>1, <1>3, <2>1, QuietReads DEF Reads
  <2> QED BY <1>3, <2>3, <2>4, Unfinished DEF Reads
<1> QED BY <1>2, <1>3 DEF Start, Errors

LEMMA ConnectReads == ASSUME IInv, Reads, Connect PROVE Reads'
<1>1. /\ pc = "connect"
      /\ UNCHANGED <<request, sent, reading, sink, eof, clean>>
  BY DEF Connect
<1>2. CASE Return("Network") /\ UNCHANGED addrs
  BY <1>1, <1>2, ReturnReads DEF Errors
<1>3. CASE /\ addrs' = addrs \/ (addrs > 0 /\ addrs' = addrs - 1)
           /\ sock' \in {"none", "open", "connected"}
           /\ pc' \in {"connect", "send"} /\ UNCHANGED ended
  <2>1. ~headParsed
    BY <1>1 DEF Reads, Framed
  <2>2. addrs' \in 0..MaxAddrs
    <3>1. addrs \in 0..MaxAddrs
      BY DEF Reads, Typed, TypeOK
    <3> QED BY <1>3, <3>1, HttpAssumption
  <2>3. Typed'
    BY <1>1, <1>3, <2>2, QuietTyped DEF Reads, Typed, TypeOK, ended, Results
  <2>4. Framed' /\ Progress'
    BY <1>1, <1>3, <2>1, QuietReads DEF Reads
  <2> QED BY <1>3, <2>3, <2>4, Unfinished DEF Reads
<1> QED BY <1>1, <1>2, <1>3 DEF Connect

LEMMA SendReads == ASSUME IInv, Reads, Send PROVE Reads'
<1>1. /\ pc = "send"
      /\ UNCHANGED <<request, addrs, reading, sink, eof, clean>>
  BY DEF Send
<1>2. CASE Return("Network") /\ UNCHANGED sent
  BY <1>1, <1>2, ReturnReads DEF Errors
<1>3. CASE /\ \E n \in 1..(MsgSize - sent) : sent' = sent + n
           /\ pc' \in {"send", "recv"} /\ UNCHANGED <<sock, ended>>
  <2>1. ~headParsed
    BY <1>1 DEF Reads, Framed
  <2>2. sent' \in 0..MsgSize
    <3>1. sent \in 0..MsgSize
      BY DEF Reads, Typed, TypeOK
    <3> QED BY <1>3, <3>1, HttpAssumption
  <2>3. Typed'
    BY <1>1, <1>3, <2>2, QuietTyped DEF Reads, Typed, TypeOK, ended, Results
  <2>4. Framed' /\ Progress'
    BY <1>1, <1>3, <2>1, QuietReads DEF Reads
  <2> QED BY <1>3, <2>3, <2>4, Unfinished DEF Reads
<1> QED BY <1>2, <1>3 DEF Send

LEMMA EofReads == ASSUME IInv, Reads, Eof PROVE Reads'
<1>1. /\ pc = "recv" /\ eof'
      /\ UNCHANGED <<request, addrs, sent, reading, sink, clean>>
  BY DEF Eof
<1> DEFINE err == IF headParsed THEN "None" ELSE "Network"
<1>2. Return(err) /\ err \in {"None"} \cup Errors
  BY DEF Eof, Errors
<1>3. pc' = "done" /\ sock' = "none" /\ result' \in Results /\ eof' \in BOOLEAN
  <2> HIDE DEF err
  <2>1. pc' = "done" /\ sock' = "none" /\ result' \in Results
    BY <1>2, ReturnResult
  <2>2. eof' = TRUE
    BY DEF Eof
  <2> QED BY <2>1, <2>2
<1>4. Typed'
  BY <1>1, <1>3, QuietTyped DEF Reads, Typed, TypeOK
<1>5. Framed' /\ Progress'
  BY <1>1, <1>3, QuietReads DEF Reads
<1>6. SuccessIsWhole'
  BY <1>1 DEF SuccessIsWhole
<1> QED BY <1>4, <1>5, <1>6 DEF Reads

\* When the decoder is done, or Content-Length bytes have come, it is all there.
LEMMA CheckReads == ASSUME IInv, Reads, Check PROVE Reads'
<1>1. /\ pc = "check" /\ headParsed
      /\ UNCHANGED <<request, addrs, sent, reading, sink, eof, clean>>
  BY DEF Check, IInv, Loop
<1> DEFINE whole == (chunked /\ dec.done)
                      \/ (resp.framing = "length" /\ bodyDelivered >= resp.length)
<1>2. CASE whole /\ Return("None")
  <2>1. pc' = "done" /\ sock' = "none" /\ result' \in Results
    BY <1>2, ReturnResult
  <2>2. Typed'
    BY <1>1, <2>1, QuietTyped DEF Reads, Typed, TypeOK
  <2>3. Framed' /\ Progress'
    BY <1>1, <2>1, QuietReads DEF Reads
  <2>4. clean => IF chunked THEN Received = Content
                 ELSE resp.framing = "length" /\ Len(Received) >= resp.length
    <3>1. ASSUME clean, chunked PROVE Received = Content
      <4> DEFINE p == arrived - Len(dec.buf)
                 a == Take(wire, p)
                 b == Drop(wire, p)
      <4>1. Received = Payload(a) /\ Len(dec.buf) <= arrived - 2 /\ Stage(dec, b)
        BY <1>1, <3>1 DEF Reads, Progress, Passed, Follows, Left
      <4>2. dec.done
        BY <1>2, <3>1 DEF chunked
      <4>3. b = Tagged("last", CRLF)
        BY <4>1, <4>2 DEF Stage, AtEnd, Between, Inside
      <4>4. wire \in Seq(Item) /\ Payload(wire) = Content
        BY WireIs DEF Reads, Typed
      <4>5. p \in 0..Len(wire)
        <5>1. dec.buf \in Seq(Byte) /\ arrived \in 0..Len(wire)
          BY DEF Reads, Typed, TypeOK, Decoder
        <5>2. Len(dec.buf) \in Nat /\ Len(wire) \in Nat
          BY <4>4, <5>1, LenProperties
        <5> QED BY <4>1, <5>1, <5>2
      <4> HIDE DEF p
      <4>6. wire = a \o b /\ a \in Seq(Item) /\ b \in Seq(Item)
        BY <4>4, <4>5, TakeDrop
      <4>7. "last" \in Role \ {"data"}
        BY RoleIs
      <4>8. Payload(b) = <<>>
        BY <4>3, <4>7, LinesAre, PayloadOfTagged
      <4> HIDE DEF a, b
      <4>9. Payload(a \o b) = Payload(a) \o Payload(b)
        BY <4>6, PayloadConcat
      <4>10. Payload(a) \in Seq(Byte)
        BY <4>6, PayloadIs
      <4>11. Payload(a) \o <<>> = Payload(a)
        BY <4>10, ConcatEmptySeq
      <4> QED BY <4>1, <4>4, <4>6, <4>8, <4>9, <4>11
    <3>2. ASSUME clean, ~chunked PROVE resp.framing = "length" /\ Len(Received) >= resp.length
      <4>1. Len(Received) = bodyDelivered
        BY <3>2 DEF Reads, Framed
      <4> QED BY <1>2, <3>2, <4>1
    <3> QED BY <3>1, <3>2
  <2>5. SuccessIsWhole'
    <3>1. clean' = clean /\ Received' = Received /\ chunked' = chunked /\ Content' = Content
          /\ resp' = resp
      BY <1>1, SameRequest DEF sink, Received
    <3> QED BY <2>4, <3>1 DEF SuccessIsWhole
  <2> QED BY <2>2, <2>3, <2>5 DEF Reads
<1>3. CASE pc' = "recv" /\ UNCHANGED <<sock, ended>>
  <2>1. Typed'
    BY <1>1, <1>3, QuietTyped DEF Reads, Typed, TypeOK, ended, Results
  <2>2. Framed' /\ Progress'
    BY <1>1, <1>3, QuietReads DEF Reads
  <2> QED BY <1>3, <2>1, <2>2, Unfinished DEF Reads
<1> QED BY <1>2, <1>3 DEF Check

LEMMA ThrowsReads == ASSUME IInv, Reads, CallbackThrows PROVE Reads'
<1>1. /\ pc # "done" /\ pc' = "done" /\ result' = "Thrown"
      /\ UNCHANGED <<request, addrs, sock, sent, reading, sink, response, eof, clean>>
  BY DEF CallbackThrows
<1>2. Typed'
  BY <1>1, QuietTyped DEF Reads, Typed, TypeOK, Results, TransportErrors
<1>3. Framed' /\ Progress'
  BY <1>1, QuietReads DEF Reads
<1>4. SuccessIsWhole'
  BY <1>1, FailedCall
<1> QED BY <1>2, <1>3, <1>4 DEF Reads

LEMMA DecodeReads == ASSUME IInv, Reads, Decode PROVE Reads'
<1> DEFINE e == Turn(dec)
<1>1. /\ pc = "decode" /\ dec' = e /\ Sink(e.sunk, status)
      /\ pc' = (IF e.more \/ e.bad THEN "decode" ELSE "check")
      /\ UNCHANGED <<request, addrs, sock, sent, arrived, headParsed, status, bodyDelivered,
                     ended, eof, clean>>
  BY DEF Decode
<1>2. headParsed /\ status = resp.status /\ pc' \in {"decode", "check"}
  BY <1>1 DEF IInv, Loop
<1>3. /\ dec \in Decoder /\ handed \in Seq(Byte) /\ collected \in Seq(Byte)
      /\ resp \in Responses /\ TypeOK
  BY DEF Reads, Typed
<1>4. e \in Decoder /\ e.sunk \in Seq(Byte) /\ e.remaining \in Nat
  <2>1. e \in Decoder
    BY <1>3, TurnType
  <2> HIDE DEF e
  <2> QED BY <2>1 DEF Decoder
<1> HIDE DEF e
<1>5. /\ Received' = Received \o e.sunk
      /\ handed' \in Seq(Byte) /\ collected' \in Seq(Byte) /\ streaming' \in BOOLEAN
      /\ Received \in Seq(Byte)
  <2>1. streaming \in BOOLEAN
    BY <1>3 DEF TypeOK
  <2> QED BY <1>1, <1>2, <1>3, <1>4, <2>1, SinkAdds
<1>6. wire' = wire /\ chunked' = chunked /\ resp' = resp
  BY <1>1, SameRequest
<1>7. Typed'
  <2>1. TypeOK'
    <3>1. /\ pc' \in {"decode", "check"} /\ dec'.remaining \in Nat /\ streaming' \in BOOLEAN
          /\ UNCHANGED <<addrs, sock, sent, arrived, status, bodyDelivered, headParsed, eof,
                         clean, result>>
      BY <1>1, <1>2, <1>4, <1>5 DEF ended
    <3> QED BY <1>3, <1>6, <3>1 DEF TypeOK
  <2> QED BY <1>1, <1>3, <1>4, <1>5, <1>6, <2>1 DEF Typed
<1>8. arrived >= 2 /\ arrived \in 0..Len(wire) /\ wire \in Seq(Item) /\ arrived \in 2..Len(wire)
  <2>1. arrived >= 2
    BY <1>2 DEF Reads, Framed
  <2>2. wire \in Seq(Item) /\ Len(wire) \in Nat
    BY <1>3, WireIs
  <2>3. arrived \in 0..Len(wire)
    BY <1>3 DEF TypeOK
  <2> QED BY <2>1, <2>2, <2>3
<1>9. chunked
  BY <1>1 DEF Reads, Framed
<1>10. Framed'
  BY <1>1, <1>2, <1>6, <1>8, <1>9 DEF Reads, Framed
<1>11. Progress'
  <2> SUFFICES ASSUME clean PROVE Progress'
    BY <1>1 DEF Progress
  <2>1. /\ Passed(wire, dec, arrived, Received) /\ Follows(wire, dec, arrived)
        /\ ~CutsChunkEnd(wire, arrived)
    BY <1>2, <1>9 DEF Reads, Progress
  <2>2. /\ Passed(wire, e, arrived, Received \o e.sunk) /\ Follows(wire, e, arrived)
        /\ ~e.more => Idle(wire, e, arrived)
    BY <1>3, <1>8, <2>1, TurnStep DEF e
  <2>3. pc' \in {"check", "recv"} => ~e.more
    BY <1>1
  <2>4. /\ Passed(wire, dec, arrived, Received)' /\ Follows(wire, dec, arrived)'
        /\ ~CutsChunkEnd(wire, arrived)'
        /\ pc' \in {"check", "recv"} => Idle(wire, dec, arrived)'
    BY <1>1, <1>5, <1>6, <2>1, <2>2, <2>3
  <2> QED BY <2>4 DEF Progress
<1> QED BY <1>2, <1>7, <1>10, <1>11, Unfinished DEF Reads

LEMMA RecvReads ==
  ASSUME IInv, Reads, NEW n \in 1..(Len(wire) - arrived), Recv(n) PROVE Reads'
<1>1. /\ pc = "recv" /\ arrived' = arrived + n
      /\ clean' = (clean /\ ~CutsChunkEnd(wire, arrived'))
      /\ UNCHANGED <<request, addrs, sent, eof>>
  BY DEF Recv
<1>2. /\ wire' = wire /\ chunked' = chunked /\ resp' = resp /\ resp \in Responses
      /\ TypeOK /\ Typed
  BY <1>1, SameRequest DEF Reads, Typed
<1>3. /\ wire \in Seq(Item) /\ Len(wire) \in Nat /\ 2 <= Len(wire) /\ resp.status \in 0..599
  <2>1. resp.status \in 100..599
    BY <1>2, HttpAssumption DEF Response
  <2> QED BY <1>2, <2>1, WireIs
<1>4. arrived' \in 0..Len(wire) /\ arrived' \in Nat /\ arrived \in 0..Len(wire) /\ n \in Nat
      /\ arrived' > arrived
  <2>1. arrived \in 0..Len(wire)
    BY <1>2 DEF TypeOK
  <2> QED BY <1>1, <1>3, <2>1
<1>5. clean' \in BOOLEAN
  BY <1>1
<1>6. ASSUME NEW m \in 2..Len(wire), arrived' \in m..Len(wire), headParsed',
             m = (IF headParsed THEN arrived ELSE 2), status' = resp.status,
             TakeBody(Bytes(SubSeq(wire, m + 1, arrived')), resp.status),
             UNCHANGED <<sock, ended>>
      PROVE  Reads'
  <2>1. IF headParsed THEN m = arrived ELSE m = 2
    BY <1>6
  <2>2. clean' => /\ clean /\ ~CutsChunkEnd(wire, arrived')
                  /\ Passed(wire, dec, m, Received) /\ Idle(wire, dec, m)
                  /\ chunked => Follows(wire, dec, m)
    <3> SUFFICES ASSUME clean, ~CutsChunkEnd(wire, arrived')
                 PROVE  /\ Passed(wire, dec, m, Received) /\ Idle(wire, dec, m)
                        /\ chunked => Follows(wire, dec, m)
      BY <1>1
    <3>1. CASE headParsed
      BY <1>1, <2>1, <3>1 DEF Reads, Progress
    <3>2. CASE ~headParsed
      <4>1. dec = FreshDecoder /\ handed = <<>> /\ collected = <<>> /\ m = 2
        BY <2>1, <3>2 DEF Reads, Framed
      <4>2. Len(dec.buf) = 0 /\ dec.buf = <<>>
        BY <4>1, FreshIs, EmptySeq
      <4>3. Payload(Take(wire, 2)) = <<>>
        BY <1>2, WireIs
      <4>4. Received = <<>>
        <5>1. <<>> \o <<>> = <<>>
          BY EmptySeq, ConcatEmptySeq
        <5> QED BY <4>1, <5>1 DEF Received
      <4>5. 2 - 0 = 2 /\ 0 <= 2 - 2
        OBVIOUS
      <4>6. Passed(wire, dec, m, Received)
        BY <4>1, <4>2, <4>3, <4>4, <4>5 DEF Passed
      <4>7. Left(wire, dec, m) = Body
        BY <1>2, <4>1, <4>2, <4>5, WireIs DEF Left
      <4>8. Idle(wire, dec, m)
        <5>1. Take(Left(wire, dec, m), 0) = <<>>
          BY SubSeqEmpty DEF Take
        <5> QED BY <4>2, <5>1, PayloadEmpty DEF Idle
      <4>9. ASSUME chunked PROVE Follows(wire, dec, m)
        <5>1. Body = Encode(resp.chunks) /\ resp.chunks \in Seq(Chunk)
          BY <1>2, <4>9, WireIs DEF Body
        <5>2. Body \in Seq(Item) /\ Len(Body) \in Nat
          <6>1. Body \in Seq(Item)
            BY <5>1, EncodeIs
          <6> QED BY <6>1, LenProperties
        <5>3. Holds(dec.buf, Body)
          BY <4>2, <5>2 DEF Holds
        <5>4. Between(dec, Body) /\ ~dec.bad
          BY <4>1, <5>1 DEF Between, FreshDecoder
        <5> QED BY <4>7, <5>3, <5>4 DEF Follows, Stage
      <4> QED BY <4>6, <4>8, <4>9
    <3> QED BY <3>1, <3>2
  <2>3. /\ ~chunked => /\ dec.buf = <<>> /\ Len(Received) = bodyDelivered
                       /\ bodyDelivered = m - 2
        /\ chunked => bodyDelivered = 0
    <3>1. 2 - 2 = 0
      OBVIOUS
    <3> QED BY <2>1, <3>1 DEF Reads, Framed
  <2>4. /\ Framed' /\ Progress'
        /\ dec' \in Decoder /\ handed' \in Seq(Byte) /\ collected' \in Seq(Byte)
        /\ streaming' \in BOOLEAN /\ pc' \in {"check", "decode"}
    BY <1>1, <1>2, <1>6, <2>2, <2>3, BodyReads
  <2>5. bodyDelivered' \in 0..Len(wire)
    <3>1. ASSUME chunked PROVE bodyDelivered' = 0
      BY <1>2, <2>4, <3>1 DEF Framed
    <3>2. ASSUME ~chunked PROVE bodyDelivered' = arrived' - 2 /\ arrived' >= 2
      BY <1>2, <1>6, <2>4, <3>2 DEF Framed
    <3> QED BY <1>3, <1>4, <3>1, <3>2
  <2>6. TypeOK'
    <3>1. dec'.remaining \in Nat
      BY <2>4 DEF Decoder
    <3>2. /\ UNCHANGED <<addrs, sock, sent, eof, result>> /\ headParsed' = TRUE
          /\ status' \in 0..599
      <4>1. headParsed' \in BOOLEAN
        BY <1>6, <1>2 DEF Recv, TypeOK
      <4> QED BY <1>1, <1>3, <1>6, <4>1 DEF ended
    <3> QED BY <1>2, <1>4, <1>5, <2>4, <2>5, <3>1, <3>2 DEF TypeOK
  <2> QED BY <1>2, <2>4, <2>6, Unfinished DEF Reads, Typed
<1>7. CASE /\ headParsed
           /\ TakeBody(Bytes(SubSeq(wire, arrived + 1, arrived')), status)
           /\ UNCHANGED <<headParsed, status, sock, ended>>
  <2>1. status = resp.status
    BY <1>7 DEF IInv, Loop
  <2>2. arrived \in 2..Len(wire) /\ arrived' \in arrived..Len(wire)
    <3>1. arrived >= 2
      BY <1>7 DEF Reads, Framed
    <3> QED BY <1>3, <1>4, <3>1
  <2> QED BY <1>6, <1>7, <2>1, <2>2
<1>8. CASE /\ ~headParsed /\ arrived' < Len(HeadBytes)
           /\ UNCHANGED <<headParsed, status, bodyDelivered, dec, pc, sink, sock, ended>>
  <2>1. arrived' < 2
    BY <1>8, LinesAre
  <2>2. Typed'
    <3>1. TypeOK'
      BY <1>1, <1>2, <1>4, <1>5, <1>8 DEF TypeOK, sink, ended
    <3> QED BY <1>2, <1>8, <3>1 DEF Typed, sink
  <2>3. Framed'
    <3>1. Received' = Received
      BY <1>8 DEF sink, Received
    <3> QED BY <1>1, <1>2, <1>8, <2>1, <3>1 DEF Reads, Framed, sink
  <2>4. Progress'
    BY <1>8 DEF Progress
  <2> QED BY <1>1, <1>8, <2>2, <2>3, <2>4, Unfinished DEF Reads
<1>9. CASE /\ ~headParsed /\ Return("Network")
           /\ UNCHANGED <<headParsed, status, bodyDelivered, dec, sink>>
  <2>1. pc' = "done" /\ sock' = "none" /\ result' \in Results
    BY <1>9, ReturnResult DEF Errors
  <2>2. Typed'
    <3>1. TypeOK'
      BY <1>1, <1>2, <1>4, <1>5, <1>9, <2>1 DEF TypeOK, sink, Results
    <3> QED BY <1>2, <1>9, <3>1 DEF Typed, sink
  <2>3. Framed'
    <3>1. Received' = Received
      BY <1>9 DEF sink, Received
    <3> QED BY <1>1, <1>2, <1>9, <2>1, <3>1 DEF Reads, Framed, sink
  <2>4. Progress'
    BY <1>9 DEF Progress
  <2>5. SuccessIsWhole'
    <3>1. (api # "fetch" => result' # "None") /\ (api = "fetch" => response' = response)
      BY <1>9 DEF Return
    <3> QED BY <1>1, <3>1, FailedCall
  <2> QED BY <2>2, <2>3, <2>4, <2>5 DEF Reads
<1>10. CASE /\ ~headParsed /\ arrived' >= Len(HeadBytes)
            /\ headParsed' = TRUE /\ status' = resp.status
            /\ TakeBody(Bytes(SubSeq(wire, Len(HeadBytes) + 1, arrived')), resp.status)
            /\ UNCHANGED <<sock, ended>>
  <2>1. Len(HeadBytes) = 2
    BY LinesAre
  <2>2. 2 \in 2..Len(wire) /\ arrived' \in 2..Len(wire)
    BY <1>3, <1>4, <1>10, <2>1
  <2> QED BY <1>6, <1>10, <2>1, <2>2
<1> QED BY <1>7, <1>8, <1>9, <1>10 DEF Recv

LEMMA StepReads == IInv /\ Reads /\ [Next]_vars => Reads'
<1> SUFFICES ASSUME IInv, Reads, [Next]_vars PROVE Reads'
  OBVIOUS
<1>1. CASE RecvFails
  BY <1>1, ReturnReads DEF RecvFails, Errors
<1>2. CASE Malformed
  BY <1>2, ReturnReads DEF Malformed, Errors
<1>3. CASE \E n \in 1..(Len(wire) - arrived) : Recv(n)
  BY <1>3, RecvReads
<1>4. CASE UNCHANGED vars
  <2>1. /\ wire' = wire /\ chunked' = chunked /\ Content' = Content /\ Received' = Received
        /\ UNCHANGED vars
    BY <1>4, SameRequest DEF vars, request, Received
  <2>2. Typed'
    BY <2>1 DEF Reads, Typed, TypeOK, vars
  <2>3. Framed'
    BY <2>1 DEF Reads, Framed, vars
  <2>4. Progress'
    <3>1. Passed(wire, dec, arrived, Received)' = Passed(wire, dec, arrived, Received)
          /\ Follows(wire, dec, arrived)' = Follows(wire, dec, arrived)
          /\ CutsChunkEnd(wire, arrived)' = CutsChunkEnd(wire, arrived)
          /\ Idle(wire, dec, arrived)' = Idle(wire, dec, arrived)
      BY <2>1 DEF vars
    <3> QED BY <2>1, <3>1 DEF Reads, Progress, vars
  <2>5. SuccessIsWhole'
    BY <2>1 DEF Reads, SuccessIsWhole, vars
  <2> QED BY <2>2, <2>3, <2>4, <2>5 DEF Reads
<1> QED BY <1>1, <1>2, <1>3, <1>4, StartReads, ConnectReads, SendReads, EofReads,
           DecodeReads, CheckReads, ThrowsReads DEF Next

LEMMA ReadsInvariance == Spec => [](IInv /\ Reads)
<1>1. Init => IInv /\ Reads
  BY InitIInv, InitReads
<1>2. (IInv /\ Reads) /\ [Next]_vars => (IInv /\ Reads)'
  BY StepIInv, StepReads
<1> QED BY <1>1, <1>2, PTL DEF Spec

\* The counters stay within the message and the response, the chunk size within
\* the naturals, and every call ends with one of the errors it may end with,
\* whatever the server sends, where it is cut and when it fails.
THEOREM TypeOKAlways == Spec => []TypeOK
<1>1. IInv /\ Reads => TypeOK
  BY DEF Reads, Typed
<1> QED BY <1>1, ReadsInvariance, PTL

LEMMA ReadsInOrder == ASSUME IInv, Reads PROVE BodyInOrder
<1> SUFFICES ASSUME clean
             PROVE  /\ IsPrefix(Received, Content)
                    /\ pc = "recv" => Received = Payload(Take(wire, arrived))
  BY DEF BodyInOrder
<1>1. /\ wire \in Seq(Item) /\ Content \in Seq(Byte) /\ Payload(wire) = Content
      /\ \A n \in 0..2 : Payload(Take(wire, n)) = <<>>
  BY WireIs DEF Reads, Typed
<1>2. Len(wire) \in Nat /\ arrived \in 0..Len(wire)
  BY <1>1, LenProperties DEF Reads, Typed, TypeOK
<1>3. CASE headParsed
  <2> DEFINE l == Len(dec.buf)
             p == arrived - l
             a == Take(wire, p)
             b == Drop(wire, p)
  <2>1. l <= arrived - 2 /\ Received = Payload(a)
        /\ (pc = "recv" => Payload(Take(b, l)) = <<>>)
    BY <1>3 DEF Reads, Progress, Passed, Idle, Left
  <2>2. l \in Nat
    <3>1. dec.buf \in Seq(Byte)
      BY DEF Reads, Typed, Decoder
    <3> QED BY <3>1, LenProperties
  <2> HIDE DEF l
  <2>3. p \in 0..Len(wire) /\ l \in 0..(Len(wire) - p) /\ p + l = arrived
    BY <1>2, <2>1, <2>2
  <2> HIDE DEF p
  <2>4. wire = a \o b /\ a \in Seq(Item) /\ b \in Seq(Item)
    BY <1>1, <2>3, TakeDrop
  <2>5. Payload(Take(wire, p + l)) = Payload(a) \o Payload(Take(b, l))
    BY <1>1, <2>3, PayloadGrows
  <2> HIDE DEF a, b
  <2>6. Payload(a) \in Seq(Byte) /\ Payload(b) \in Seq(Byte)
    BY <2>4, PayloadIs
  <2>7. Payload(a \o b) = Payload(a) \o Payload(b)
    BY <2>4, PayloadConcat
  <2>8. IsPrefix(Payload(a), Payload(a) \o Payload(b))
    BY <2>6, PrefixConcat
  <2>9. Payload(a) \o <<>> = Payload(a)
    BY <2>6, ConcatEmptySeq
  <2>10. IsPrefix(Received, Content)
    BY <1>1, <2>1, <2>4, <2>7, <2>8
  <2>11. pc = "recv" => Received = Payload(Take(wire, arrived))
    BY <2>1, <2>3, <2>5, <2>9
  <2> QED BY <2>10, <2>11
<1>4. CASE ~headParsed
  <2>1. Received = <<>>
    <3>1. handed = <<>> /\ collected = <<>>
      BY <1>4 DEF Reads, Framed
    <3>2. <<>> \o <<>> = <<>>
      BY EmptySeq, ConcatEmptySeq
    <3> QED BY <3>1, <3>2 DEF Received
  <2>2. IsPrefix(<<>>, <<>> \o Content) /\ <<>> \o Content = Content
    BY <1>1, EmptySeq, PrefixConcat, ConcatEmptySeq
  <2>3. pc = "recv" => arrived \in 0..2
    BY <1>2, <1>4 DEF Reads, Framed
  <2> QED BY <1>1, <2>1, <2>2, <2>3
<1> QED BY <1>3, <1>4

\* Whatever the server sends, however it is cut and wherever it fails, what was
\* passed on is the beginning of the body, and nothing that arrived is held back.
THEOREM BodyInOrderAlways == Spec => []BodyInOrder
  BY ReadsInOrder, ReadsInvariance, PTL

\* A success that the peer's closing did not bring about has the whole body.
THEOREM SuccessIsWholeAlways == Spec => []SuccessIsWhole
<1>1. IInv /\ Reads => SuccessIsWhole
  BY DEF Reads
<1> QED BY <1>1, ReadsInvariance, PTL

----------------------------------------------------------------------------
(***************************************************************************)
(* FetchStream implements what the adapters rely on.                       *)
(***************************************************************************)

\* A return, mapped or not, once bytes were handed over.
LEMMA ReturnImplements ==
  ASSUME IInv, Reads, pc # "done", NEW err \in {"None"} \cup Errors, Return(err),
         err = "None" => headParsed, err = "InvalidArgument" => ~headParsed, UNCHANGED sink
  PROVE  Transport!Return
<1>1. result = "Pending"
  BY DEF IInv, Loop
<1>2. result' = err \/ (err = "None" /\ result' = MapHttpStatus(status))
  BY DEF Return
<1>3. MapHttpStatus(status) \in {"None"} \cup StatusErrors
  BY DEF MapHttpStatus, StatusErrors
<1>4. result' \in {"None"} \cup TransportErrors \cup StatusErrors
  BY <1>2, <1>3 DEF Errors, TransportErrors, StatusErrors
<1>5. handed # <<>> => result' \in {"None"} \cup TransportErrors
  <2> SUFFICES ASSUME handed # <<>> PROVE result' \in {"None"} \cup TransportErrors
    OBVIOUS
  <2>1. headParsed /\ Success(resp.status)
    BY DEF Reads, Framed, IInv, Sinks, Streams
  <2>2. MapHttpStatus(status) = "None"
    <3>1. status = resp.status
      BY <2>1 DEF IInv, Loop
    <3> QED BY <2>1, <3>1, SuccessMaps
  <2> QED BY <1>2, <2>1, <2>2 DEF Errors, TransportErrors
<1>6. UNCHANGED handed
  BY DEF sink
<1> QED BY <1>1, <1>4, <1>5, <1>6 DEF Transport!Return

\* Handing over is adding to what was handed over.
LEMMA SinkImplements ==
  ASSUME IInv, Reads, pc # "done", NEW data \in Seq(Byte), NEW s, Sink(data, s), UNCHANGED result
  PROVE  Transport!Hand \/ UNCHANGED Transport!vars
<1>1. CASE handed' = handed
  BY <1>1 DEF Transport!vars
<1>2. CASE handed' # handed
  <2>1. handed' = handed \o data
    BY <1>2 DEF Sink, sink
  <2>2. handed \in Seq(Byte)
    BY DEF Reads, Typed
  <2>3. IsPrefix(handed, handed \o data)
    BY <2>2, PrefixConcat
  <2>4. IsPrefix(handed, handed')
    BY <2>1, <2>3
  <2>5. Transport!IsStrictPrefix(handed, handed')
    BY <1>2, <2>4 DEF Transport!IsStrictPrefix, Transport!IsPrefix, IsPrefix
  <2>6. result = "Pending"
    BY DEF IInv, Loop
  <2> QED BY <2>5, <2>6 DEF Transport!Hand
<1> QED BY <1>1, <1>2

LEMMA StepImplements ==
  ASSUME IInv, Reads, [Next]_vars PROVE [Transport!Next]_(Transport!vars)
<1> DEFINE quiet == UNCHANGED sink /\ UNCHANGED ended
<1>1. ASSUME quiet PROVE UNCHANGED Transport!vars
  BY <1>1 DEF sink, ended, Transport!vars
<1>2. CASE Start
  <2>1. pc = "start" /\ UNCHANGED sink /\ ~headParsed
    BY <1>2 DEF Start, Reads, Framed
  <2>2. CASE \E err \in {"InvalidArgument", "Network"} : Return(err)
    BY <2>1, <2>2, ReturnImplements DEF Transport!Next, Errors
  <2>3. CASE UNCHANGED ended
    BY <1>1, <2>1, <2>3
  <2> QED BY <1>2, <2>2, <2>3 DEF Start
<1>3. CASE Connect \/ Send
  <2>1. pc # "done" /\ UNCHANGED sink
    BY <1>3 DEF Connect, Send
  <2>2. CASE Return("Network")
    BY <2>1, <2>2, ReturnImplements DEF Transport!Next, Errors
  <2>3. CASE UNCHANGED ended
    BY <1>1, <2>1, <2>3
  <2> QED BY <1>3, <2>2, <2>3 DEF Connect, Send
<1>4. CASE Eof
  <2> DEFINE err == IF headParsed THEN "None" ELSE "Network"
  <2>1. pc # "done" /\ UNCHANGED sink /\ Return(err) /\ err \in {"None"} \cup Errors
        /\ (err = "None" => headParsed) /\ err # "InvalidArgument"
    BY <1>4 DEF Eof, Errors
  <2> HIDE DEF err
  <2> QED BY <2>1, ReturnImplements DEF Transport!Next
<1>5. CASE RecvFails
  BY <1>5, ReturnImplements DEF RecvFails, Transport!Next, Errors
<1>6. CASE Malformed
  BY <1>6, ReturnImplements DEF Malformed, Transport!Next, Errors
<1>7. CASE Decode
  <2>1. pc # "done" /\ Sink(dec'.sunk, status) /\ UNCHANGED result /\ dec' = Turn(dec)
    BY <1>7 DEF Decode, ended
  <2>2. dec'.sunk \in Seq(Byte)
    <3>1. dec \in Decoder
      BY DEF Reads, Typed
    <3>2. Turn(dec) \in Decoder
      BY <3>1, TurnType
    <3> QED BY <2>1, <3>2 DEF Decoder
  <2> QED BY <2>1, <2>2, SinkImplements DEF Transport!Next
<1>8. CASE Check
  <2>1. pc = "check" /\ headParsed /\ UNCHANGED sink
    BY <1>8 DEF Check, IInv, Loop
  <2>2. CASE Return("None")
    BY <2>1, <2>2, ReturnImplements DEF Transport!Next, Errors
  <2>3. CASE UNCHANGED ended
    BY <1>1, <2>1, <2>3
  <2> QED BY <1>8, <2>2, <2>3 DEF Check
<1>9. CASE CallbackThrows
  <2>1. pc # "done" /\ result' = "Thrown" /\ UNCHANGED sink
    BY <1>9 DEF CallbackThrows
  <2>2. result = "Pending"
    BY <2>1 DEF IInv, Loop
  <2>3. Transport!Return
    BY <2>1, <2>2 DEF Transport!Return, TransportErrors, sink
  <2> QED BY <2>3 DEF Transport!Next
<1>10. CASE \E n \in 1..(Len(wire) - arrived) : Recv(n)
  <2> PICK n \in 1..(Len(wire) - arrived) : Recv(n)
    BY <1>10
  <2> DEFINE rest == Bytes(SubSeq(wire, arrived + 1, arrived'))
             first == Bytes(SubSeq(wire, Len(HeadBytes) + 1, arrived'))
  <2>1. pc = "recv" /\ arrived' = arrived + n
    BY DEF Recv
  <2>2. wire \in Seq(Item) /\ Len(wire) \in Nat /\ arrived \in 0..Len(wire)
    BY WireIs DEF Reads, Typed, TypeOK
  <2>3. arrived' \in 0..Len(wire) /\ n \in Nat
    BY <2>1, <2>2
  <2>4. CASE headParsed /\ TakeBody(rest, status) /\ UNCHANGED ended
    <3>1. arrived \in 2..Len(wire) /\ arrived' \in arrived..Len(wire)
      <4>1. arrived >= 2
        BY <2>4 DEF Reads, Framed
      <4> QED BY <2>1, <2>2, <2>3, <4>1
    <3>2. rest \in Seq(Byte)
      BY <2>2, <3>1, PieceIs
    <3> HIDE DEF rest
    <3>3. CASE chunked
      BY <1>1, <2>4, <3>3 DEF TakeBody
    <3>4. CASE ~chunked
      <4>1. Sink(rest, status) /\ UNCHANGED result
        BY <2>4, <3>4 DEF TakeBody, ended
      <4> QED BY <2>1, <3>2, <4>1, SinkImplements DEF Transport!Next
    <3> QED BY <3>3, <3>4
  <2>5. CASE arrived' >= Len(HeadBytes) /\ TakeBody(first, resp.status) /\ UNCHANGED ended
    <3>1. Len(HeadBytes) = 2
      BY LinesAre
    <3>2. 2 \in 2..Len(wire) /\ arrived' \in 2..Len(wire)
      BY <2>2, <2>3, <2>5, <3>1
    <3>3. first \in Seq(Byte)
      <4>1. Bytes(SubSeq(wire, 2 + 1, arrived')) \in Seq(Byte)
        BY <2>2, <3>2, PieceIs
      <4> QED BY <3>1, <4>1
    <3> HIDE DEF first
    <3>4. CASE chunked
      BY <1>1, <2>5, <3>4 DEF TakeBody
    <3>5. CASE ~chunked
      <4>1. Sink(first, resp.status) /\ UNCHANGED result
        BY <2>5, <3>5 DEF TakeBody, ended
      <4> QED BY <2>1, <3>3, <4>1, SinkImplements DEF Transport!Next
    <3> QED BY <3>4, <3>5
  <2>6. CASE Return("Network") /\ UNCHANGED sink
    BY <2>1, <2>6, ReturnImplements DEF Transport!Next, Errors
  <2>7. CASE quiet
    BY <1>1, <2>7
  <2> HIDE DEF rest, first
  <2> QED BY <2>4, <2>5, <2>6, <2>7 DEF Recv, rest, first
<1>11. CASE UNCHANGED vars
  BY <1>11 DEF vars, Transport!vars
<1> QED BY <1>2, <1>3, <1>4, <1>5, <1>6, <1>7, <1>8, <1>9, <1>10, <1>11 DEF Next

\* FetchStream keeps its promises to the adapters: pieces only while the call
\* goes on, and no mapped status once a piece was handed over.
THEOREM TransportImplemented == Spec => ImplementsTransport
<1>1. Init => Transport!Init
  BY DEF Init, Transport!Init
<1>2. IInv /\ Reads /\ [Next]_vars => [Transport!Next]_(Transport!vars)
  BY StepImplements
<1> QED BY <1>1, <1>2, ReadsInvariance, PTL DEF Spec, ImplementsTransport, Transport!Spec
=============================================================================
