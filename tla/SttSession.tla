----------------------------- MODULE SttSession -----------------------------
(***************************************************************************)
(* A live transcription session of the local adapter (LocalSttSession and  *)
(* LocalSpeechToText::StartStream, Transcribe in                           *)
(* src/adapters/local/LocalAdapters.cpp): audio is buffered and sent in    *)
(* one request by Finish, whose events go to the session's callback.       *)
(***************************************************************************)
EXTENDS Naturals, Sequences, SequencesExt

CONSTANTS
    MaxPushes,    \* bound on the calls of PushAudio
    MaxFinishes,  \* bound on the calls of Finish
    MaxSegments,  \* bound on the segments of one transcript
    Errors        \* what a transcription request may fail with

ASSUME BoundsAssumption ==
    MaxPushes \in Nat /\ MaxFinishes \in Nat /\ MaxSegments \in Nat

ASSUME ErrorsAssumption == "None" \notin Errors

VARIABLES
    cb,        \* whether the session has a callback
    uri,       \* whether the session's request names its audio by reference
    audio,     \* audio_: the buffered pushes, numbered in order
    pc,        \* "idle", "send" or "emit"
    request,   \* req.audio.data of the Finish going on
    answer,    \* its res: the error and how many segments
    emitted,   \* the events of the Finish going on
    pushes,    \* history: how many pushes were accepted
    sent,      \* history: the audio of the Finishes that have ended, in order
    finished   \* history: one record per Finish that has ended

vars == <<cb, uri, audio, pc, request, answer, emitted, pushes, sent, finished>>

NoAnswer == [error |-> "None", segments |-> 0]

Init ==
    /\ cb \in BOOLEAN /\ uri \in BOOLEAN
    /\ audio = <<>> /\ pc = "idle" /\ request = <<>>
    /\ answer = NoAnswer /\ emitted = <<>>
    /\ pushes = 0 /\ sent = <<>> /\ finished = <<>>

\* Between calls of Finish, or from the callback while one emits.  (A null
\* buffer is refused and changes nothing.)
PushAudio ==
    /\ pc = "idle" \/ (pc = "emit" /\ emitted # <<>>)
    /\ pushes < MaxPushes
    /\ pushes' = pushes + 1
    /\ audio' = Append(audio, pushes')
    /\ UNCHANGED <<cb, uri, pc, request, answer, emitted, sent, finished>>

\* Mutant of Finish: the buffer is copied, not moved.
FinishCopies ==
    /\ pc = "idle" /\ Len(finished) < MaxFinishes
    /\ request' = audio
    /\ pc' = "send"
    /\ UNCHANGED <<cb, uri, audio, answer, emitted, pushes, sent, finished>>

\* Finish moves the buffer into the request.
Finish ==
    /\ pc = "idle" /\ Len(finished) < MaxFinishes
    /\ request' = audio
    /\ audio' = <<>>
    /\ pc' = "send"
    /\ UNCHANGED <<cb, uri, answer, emitted, pushes, sent, finished>>

\* Transcribe: refused without audio, inline or by reference, else one round
\* trip.
Transcribe ==
    /\ pc = "send"
    /\ answer' \in
         IF request = <<>> /\ ~uri THEN {[error |-> "InvalidArgument", segments |-> 0]}
         ELSE {[error |-> e, segments |-> 0] : e \in Errors}
                \cup {[error |-> "None", segments |-> n] : n \in 0..MaxSegments}
    /\ pc' = "emit"
    /\ UNCHANGED <<cb, uri, audio, request, emitted, pushes, sent, finished>>

\* The events a Finish with answer a makes: its error, or its segments.
EventsOf(a) ==
    IF a.error # "None" THEN <<"Error">>
    ELSE [i \in 1..a.segments |-> "FinalSegment"]

Emit ==
    /\ pc = "emit" /\ cb
    /\ Len(emitted) < Len(EventsOf(answer))
    /\ emitted' = Append(emitted, EventsOf(answer)[Len(emitted) + 1])
    /\ UNCHANGED <<cb, uri, audio, pc, request, answer, pushes, sent, finished>>

\* Mutant of End: the request is not a local of the call.
EndKeepsRequest(thrown) ==
    /\ finished' = Append(finished, [audio |-> request, error |-> answer.error,
                                     segments |-> answer.segments,
                                     events |-> emitted, thrown |-> thrown])
    /\ sent' = sent \o request
    /\ pc' = "idle" /\ answer' = NoAnswer /\ emitted' = <<>>
    /\ UNCHANGED <<cb, uri, audio, request, pushes>>

\* The call ends; its locals go, whether it returns or unwinds.
End(thrown) ==
    /\ finished' = Append(finished, [audio |-> request, error |-> answer.error,
                                     segments |-> answer.segments,
                                     events |-> emitted, thrown |-> thrown])
    /\ sent' = sent \o request
    /\ pc' = "idle" /\ request' = <<>> /\ answer' = NoAnswer /\ emitted' = <<>>
    /\ UNCHANGED <<cb, uri, audio, pushes>>

\* Mutant of Return: it does not wait for the last event.
ReturnEarly == pc = "emit" /\ End(FALSE)

Return ==
    /\ pc = "emit"
    /\ cb => Len(emitted) = Len(EventsOf(answer))
    /\ End(FALSE)

\* The callback throws out of Finish, which has already emptied the buffer.
Throw ==
    /\ pc = "emit" /\ emitted # <<>>
    /\ End(TRUE)

Next == PushAudio \/ Finish \/ Transcribe \/ Emit \/ Return \/ Throw

Spec == Init /\ [][Next]_vars

----------------------------------------------------------------------------

TypeOK ==
    /\ cb \in BOOLEAN /\ uri \in BOOLEAN
    /\ pc \in {"idle", "send", "emit"}
    /\ pushes \in 0..MaxPushes
    /\ pc = "idle" => request = <<>>
    /\ audio \in Seq(1..MaxPushes) /\ request \in Seq(1..MaxPushes)
    /\ answer.error \in {"None", "InvalidArgument"} \cup Errors
    /\ answer.segments \in 0..MaxSegments

\* Every push is in exactly one place, in the order it was made: sent by a
\* Finish that has ended, in the request of the one going on, or buffered
\* for the next; also when the callback pushes while Finish emits.  No audio
\* is transcribed twice (LocalAdapters.cpp:446-450, 526-531).
AudioInOnePlace == sent \o request \o audio = [i \in 1..pushes |-> i]

\* The callback of each Finish saw either its one error or exactly the
\* segments it returned, or the first of them until it threw, and a session
\* without a callback saw nothing.
EventsMatchResult ==
    \A i \in 1..Len(finished) :
        LET f == finished[i]
        IN  IF f.thrown THEN cb /\ IsPrefix(f.events, EventsOf(f))
            ELSE f.events = IF cb THEN EventsOf(f) ELSE <<>>

\* UltraAISpeechToText.h:53-54: "Finish() flushes and returns the full
\* transcript", so the audio of a Finish that failed is in the next.
FullTranscript ==
    \A i \in 1..Len(finished) :
        finished[i].error = "None" =>
            \A j \in 1..(i - 1) :
                finished[j].error # "None" =>
                    Range(finished[j].audio) \subseteq Range(finished[i].audio)
=============================================================================
