-------------------------- MODULE SttSessionProofs --------------------------
(***************************************************************************)
(* Proofs about SttSession, for any number of pushes, finishes, segments   *)
(* and errors, and a callback that pushes or throws at any event.          *)
(***************************************************************************)
EXTENDS SttSession, TLAPS, SequenceTheorems

Pushes == 1..MaxPushes
Event == {"Error", "FinalSegment"}

Outcome == [audio : Seq(Pushes), error : {"None", "InvalidArgument"} \cup Errors,
            segments : 0..MaxSegments, events : Seq(Event), thrown : BOOLEAN]

\* What TypeOK leaves open: the histories and the events of the call going on.
Types ==
    /\ TypeOK
    /\ emitted \in Seq(Event) /\ sent \in Seq(Pushes) /\ finished \in Seq(Outcome)
    /\ answer \in [error : {"None", "InvalidArgument"} \cup Errors, segments : 0..MaxSegments]

\* The first events of the answer have been emitted, and only in "emit".
Emitted ==
    /\ Len(emitted) <= Len(EventsOf(answer))
    /\ \A i \in 1..Len(emitted) : emitted[i] = EventsOf(answer)[i]
    /\ emitted # <<>> => cb /\ pc = "emit"

IInv == Types /\ AudioInOnePlace /\ Emitted /\ EventsMatchResult

----------------------------------------------------------------------------

\* The events of an answer are a sequence, one per segment or one error.
LEMMA EventsOfType ==
  ASSUME NEW a, a.segments \in Nat PROVE EventsOf(a) \in Seq(Event)
<1>1. CASE a.error # "None"
  BY <1>1 DEF EventsOf, Event
<1>2. CASE a.error = "None"
  <2>1. EventsOf(a) \in [1..a.segments -> Event]
    BY <1>2 DEF EventsOf, Event
  <2> QED BY <2>1, SeqDef
<1> QED BY <1>1, <1>2

\* A sequence that agrees with another as far as it goes is a prefix of it.
LEMMA PointwisePrefix ==
  ASSUME NEW S, NEW s \in Seq(S), NEW t \in Seq(S), Len(s) <= Len(t),
         \A i \in 1..Len(s) : s[i] = t[i]
  PROVE  IsPrefix(s, t)
<1>1. Len(s) \in Nat /\ Len(t) \in Nat
  BY LenProperties
<1>2. /\ SubSeq(s, 1, Len(s)) \in Seq(S) /\ Len(SubSeq(s, 1, Len(s))) = Len(s)
      /\ \A i \in 1..Len(s) : SubSeq(s, 1, Len(s))[i] = s[i]
  BY <1>1
<1>3. /\ SubSeq(t, 1, Len(s)) \in Seq(S) /\ Len(SubSeq(t, 1, Len(s))) = Len(s)
      /\ \A i \in 1..Len(s) : SubSeq(t, 1, Len(s))[i] = t[i]
  BY <1>1
<1>4. SubSeq(s, 1, Len(s)) = SubSeq(t, 1, Len(s))
  BY <1>2, <1>3, SeqEqual
<1> QED BY <1>4 DEF IsPrefix

\* One more push at the end of all pushes.
LEMMA Counted ==
  ASSUME NEW n \in Nat
  PROVE  [i \in 1..n |-> i] \o <<n + 1>> = [i \in 1..(n + 1) |-> i]
  OBVIOUS

LEMMA InitIInv == Init => IInv
<1> SUFFICES ASSUME Init PROVE IInv
  OBVIOUS
<1>1. Types
  BY BoundsAssumption DEF Init, Types, TypeOK, NoAnswer
<1>2. AudioInOnePlace
  BY DEF Init, AudioInOnePlace
<1>3. Emitted
  BY DEF Init, Emitted, EventsOf, NoAnswer
<1>4. EventsMatchResult
  BY DEF Init, EventsMatchResult
<1> QED BY <1>1, <1>2, <1>3, <1>4 DEF IInv

----------------------------------------------------------------------------

\* A push goes to the end of the buffer.
LEMMA PushAudioStep == IInv /\ PushAudio => IInv'
<1> SUFFICES ASSUME IInv, PushAudio PROVE IInv'
  OBVIOUS
<1>1. pushes' = pushes + 1 /\ pushes \in Nat /\ pushes' \in Pushes
  BY BoundsAssumption DEF IInv, Types, TypeOK, PushAudio, Pushes
<1>2. audio' = Append(audio, pushes') /\ audio \in Seq(Pushes)
  BY DEF IInv, Types, TypeOK, PushAudio, Pushes
<1>3. Types'
  BY <1>1, <1>2 DEF IInv, Types, TypeOK, PushAudio, Pushes
<1>4. AudioInOnePlace'
  <2>1. sent \o request \in Seq(Pushes)
    BY ConcatProperties DEF IInv, Types, TypeOK, Pushes
  <2>2. audio' = audio \o <<pushes'>> /\ <<pushes'>> \in Seq(Pushes)
    BY <1>1, <1>2, AppendIsConcat
  <2>3. (sent \o request) \o audio' = ((sent \o request) \o audio) \o <<pushes'>>
    BY <1>2, <2>1, <2>2, ConcatAssociative
  <2>4. (sent \o request) \o audio = [i \in 1..pushes |-> i]
    BY DEF IInv, AudioInOnePlace
  <2> QED BY <1>1, <2>3, <2>4, Counted DEF AudioInOnePlace, PushAudio
<1>5. Emitted' /\ EventsMatchResult'
  BY DEF IInv, Emitted, EventsMatchResult, PushAudio
<1> QED BY <1>3, <1>4, <1>5 DEF IInv

\* Finish moves the whole buffer into its request.
LEMMA FinishStep == IInv /\ Finish => IInv'
<1> SUFFICES ASSUME IInv, Finish PROVE IInv'
  OBVIOUS
<1>1. /\ request = <<>> /\ audio \in Seq(Pushes) /\ sent \in Seq(Pushes)
      /\ sent \o audio \in Seq(Pushes)
  BY ConcatProperties DEF IInv, Types, TypeOK, Finish, Pushes
<1>2. Types'
  BY <1>1 DEF IInv, Types, TypeOK, Finish, Pushes
<1>3. AudioInOnePlace'
  <2>1. (sent \o <<>>) \o audio = (sent \o audio) \o <<>>
    BY <1>1, ConcatEmptySeq
  <2> QED BY <1>1, <2>1 DEF IInv, AudioInOnePlace, Finish
<1>4. Emitted' /\ EventsMatchResult'
  BY DEF IInv, Emitted, EventsMatchResult, Finish
<1> QED BY <1>2, <1>3, <1>4 DEF IInv

\* Nothing has been emitted when the answer comes.
LEMMA TranscribeStep == IInv /\ Transcribe => IInv'
<1> SUFFICES ASSUME IInv, Transcribe PROVE IInv'
  OBVIOUS
<1>1. answer' \in [error : {"None", "InvalidArgument"} \cup Errors, segments : 0..MaxSegments]
  BY BoundsAssumption DEF Transcribe
<1>2. emitted = <<>> /\ emitted' = <<>>
  BY DEF IInv, Emitted, Transcribe
<1>3. Types'
  BY <1>1 DEF IInv, Types, TypeOK, Transcribe
<1>4. AudioInOnePlace' /\ EventsMatchResult'
  BY DEF IInv, AudioInOnePlace, EventsMatchResult, Transcribe
<1>5. Len(EventsOf(answer')) \in Nat
  BY <1>1, EventsOfType, LenProperties
<1> QED BY <1>2, <1>3, <1>4, <1>5 DEF IInv, Emitted

\* An event is the next one of the answer.
LEMMA EmitStep == IInv /\ Emit => IInv'
<1> SUFFICES ASSUME IInv, Emit PROVE IInv'
  OBVIOUS
<1> DEFINE n == Len(emitted)  all == EventsOf(answer)
<1>1. all \in Seq(Event) /\ emitted \in Seq(Event) /\ n < Len(all) /\ n \in Nat
  BY EventsOfType, LenProperties DEF IInv, Types, Emit
<1>2. all[n + 1] \in Event
  BY <1>1, LenProperties, ElementOfSeq
<1>3. /\ emitted' = Append(emitted, all[n + 1])
      /\ emitted' \in Seq(Event) /\ Len(emitted') = n + 1
      /\ \A i \in 1..n : emitted'[i] = emitted[i]
      /\ emitted'[n + 1] = all[n + 1]
  BY <1>1, <1>2, AppendProperties DEF Emit
<1>4. Types'
  BY <1>3 DEF IInv, Types, TypeOK, Emit
<1>5. AudioInOnePlace' /\ EventsMatchResult'
  BY DEF IInv, AudioInOnePlace, EventsMatchResult, Emit
<1>6. Emitted'
  <2>1. \A i \in 1..(n + 1) : emitted'[i] = all[i]
    BY <1>1, <1>3 DEF IInv, Emitted
  <2>2. Len(all) \in Nat
    BY <1>1, LenProperties
  <2> QED BY <1>1, <1>3, <2>1, <2>2 DEF Emitted, Emit
<1> QED BY <1>4, <1>5, <1>6 DEF IInv

\* The call ends with its events agreeing with its answer.
LEMMA EndStep ==
  ASSUME IInv, NEW thrown \in BOOLEAN, End(thrown), pc = "emit",
         IF thrown THEN cb ELSE cb => Len(emitted) = Len(EventsOf(answer))
  PROVE  IInv'
<1> DEFINE f == [audio |-> request, error |-> answer.error, segments |-> answer.segments,
                 events |-> emitted, thrown |-> thrown]
<1>1. finished' = Append(finished, f) /\ f \in Outcome
  BY DEF End, IInv, Types, TypeOK, Outcome, Pushes
<1>2. /\ finished' \in Seq(Outcome) /\ Len(finished') = Len(finished) + 1
      /\ \A i \in 1..Len(finished) : finished'[i] = finished[i]
      /\ finished'[Len(finished) + 1] = f /\ Len(finished) \in Nat
  <2> HIDE DEF f
  <2> QED BY <1>1, AppendProperties, LenProperties DEF IInv, Types
<1>3. /\ sent \in Seq(Pushes) /\ request \in Seq(Pushes) /\ audio \in Seq(Pushes)
      /\ sent \o request \in Seq(Pushes) /\ sent' = sent \o request
  BY ConcatProperties DEF End, IInv, Types, TypeOK, Pushes
<1>4. Types'
  BY <1>2, <1>3, BoundsAssumption DEF End, IInv, Types, TypeOK, NoAnswer
<1>5. AudioInOnePlace'
  <2>1. (sent \o request) \o <<>> = sent \o request
    BY <1>3, ConcatEmptySeq
  <2> QED BY <1>3, <2>1 DEF End, IInv, AudioInOnePlace
<1>6. Emitted'
  BY DEF End, Emitted, EventsOf, NoAnswer
<1>7. EventsOf(f) = EventsOf(answer) /\ EventsOf(answer) \in Seq(Event)
  BY EventsOfType DEF EventsOf, IInv, Types
<1>8. IF thrown THEN cb /\ IsPrefix(emitted, EventsOf(answer))
      ELSE emitted = IF cb THEN EventsOf(answer) ELSE <<>>
  <2>1. CASE thrown
    BY <1>7, <2>1, PointwisePrefix DEF IInv, Types, Emitted
  <2>2. CASE ~thrown /\ cb
    BY <1>7, <2>2, SeqEqual DEF IInv, Types, Emitted
  <2>3. CASE ~thrown /\ ~cb
    BY <2>3 DEF IInv, Emitted
  <2> QED BY <2>1, <2>2, <2>3
<1>9. EventsMatchResult'
  <2> DEFINE Match(g) == IF g.thrown THEN cb /\ IsPrefix(g.events, EventsOf(g))
                         ELSE g.events = IF cb THEN EventsOf(g) ELSE <<>>
  <2>1. Match(f)
    BY <1>7, <1>8
  <2>2. \A i \in 1..Len(finished) : Match(finished[i])
    BY DEF IInv, EventsMatchResult
  <2>3. \A i \in 1..Len(finished') : Match(finished'[i])
    <3> HIDE DEF Match, f
    <3> QED BY <1>2, <2>1, <2>2
  <2> QED BY <2>3 DEF EventsMatchResult, End
<1> QED BY <1>4, <1>5, <1>6, <1>9 DEF IInv

LEMMA StepIInv == IInv /\ [Next]_vars => IInv'
<1> SUFFICES ASSUME IInv, [Next]_vars PROVE IInv'
  OBVIOUS
<1>1. CASE Return
  BY <1>1, EndStep DEF Return
<1>2. CASE Throw
  BY <1>2, EndStep DEF Throw, IInv, Emitted
<1>3. CASE UNCHANGED vars
  BY <1>3 DEF vars, IInv, Types, TypeOK, AudioInOnePlace, Emitted, EventsMatchResult
<1> QED BY <1>1, <1>2, <1>3, PushAudioStep, FinishStep, TranscribeStep, EmitStep
        DEF Next

THEOREM Invariance == Spec => []IInv
  BY InitIInv, StepIInv, PTL DEF Spec

\* The variables of the session keep their types.
THEOREM TypeCorrect == Spec => []TypeOK
<1>1. IInv => TypeOK
  BY DEF IInv, Types
<1> QED BY <1>1, Invariance, PTL

\* No push is lost, repeated or reordered, whatever fails or throws and
\* whenever the callback pushes.
THEOREM AudioInOnePlaceAlways == Spec => []AudioInOnePlace
<1>1. IInv => AudioInOnePlace
  BY DEF IInv
<1> QED BY <1>1, Invariance, PTL

\* Every Finish has shown its callback what it returned.
THEOREM EventsMatchResultAlways == Spec => []EventsMatchResult
<1>1. IInv => EventsMatchResult
  BY DEF IInv
<1> QED BY <1>1, Invariance, PTL
=============================================================================
