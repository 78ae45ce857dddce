----------------------------- MODULE MockSpeech -----------------------------
(***************************************************************************)
(* MockSttSession and the voices of MockTextToSpeech, of                   *)
(* src/adapters/mock/MockAdapters.cpp.  A session counts the bytes pushed  *)
(* and shows as much of its transcript.  Voices are kept in a vector       *)
(* without a lock, which several threads may use in turn.                  *)
(***************************************************************************)
EXTENDS Integers, SequencesExt

CONSTANTS
    Transcript,  \* the length of the session's transcript
    PushSizes, MaxEvents,   \* bound on the session's events
    Threads, MaxClones      \* bound on the cloned voices

ASSUME SpeechAssumption == Transcript \in Nat /\ PushSizes \subseteq Nat

VARIABLES
    bytes,      \* bytes_
    shown,      \* the events of the session's callback
    cloned,     \* cloned_
    cloning,    \* per thread: the id its CloneVoice has chosen, or NoVoice
    given,      \* history: what CloneVoice has returned
    overlapped  \* history: two calls have used the voices at once

speechVars == <<bytes, shown, cloned, cloning, given, overlapped>>

Voice(name, n) == [name |-> name, number |-> n]
NoVoice == Voice("", 0)

SpeechInit ==
    /\ bytes = 0 /\ shown = <<>>
    /\ cloned = <<>> /\ cloning = [t \in Threads |-> NoVoice]
    /\ given = <<>> /\ overlapped = FALSE

\* How much of the transcript n bytes of audio show.
Shown(n) == IF n \div 4 < Transcript THEN n \div 4 ELSE Transcript

\* Mutant of PushAudio: the audio of earlier pushes is forgotten.
PushAudioAfresh(n) ==
    /\ Len(shown) < MaxEvents
    /\ bytes' = n
    /\ shown' = Append(shown, [kind |-> "PartialText", length |-> Shown(bytes')])
    /\ UNCHANGED <<cloned, cloning, given, overlapped>>

\* The callback may push again: the count is up to date when it is called, so
\* a nested push is one that follows.
PushAudio(n) ==
    /\ Len(shown) < MaxEvents
    /\ bytes' = bytes + n
    /\ shown' = Append(shown, [kind |-> "PartialText", length |-> Shown(bytes')])
    /\ UNCHANGED <<cloned, cloning, given, overlapped>>

\* Finish keeps the count: the session goes on.
FinishSession ==
    /\ Len(shown) < MaxEvents
    /\ shown' = Append(shown, [kind |-> "FinalSegment", length |-> Transcript])
    /\ UNCHANGED <<bytes, cloned, cloning, given, overlapped>>

\* CloneVoice with samples: the id is made from the size of the vector...
CloneVoice(t) ==
    /\ cloning[t] = NoVoice /\ Len(given) < MaxClones
    /\ cloning' = [cloning EXCEPT ![t] = Voice("mock-clone", Len(cloned) + 1)]
    /\ overlapped' = (overlapped \/ \E u \in Threads : cloning[u] # NoVoice)
    /\ UNCHANGED <<bytes, shown, cloned, given>>

\* Mutant of PushVoice: the voice is moved into the vector.
PushVoiceMoved(t) ==
    /\ cloning[t] # NoVoice
    /\ cloned' \in {Append(cloned, cloning[t])} \cup (IF overlapped THEN {cloned} ELSE {})
    /\ given' = Append(given, NoVoice)
    /\ cloning' = [cloning EXCEPT ![t] = NoVoice]
    /\ UNCHANGED <<bytes, shown, overlapped>>

\* ... and the voice is pushed and returned.  Calls that overlap race on the
\* vector, which may lose the element.
PushVoice(t) ==
    /\ cloning[t] # NoVoice
    /\ cloned' \in {Append(cloned, cloning[t])} \cup (IF overlapped THEN {cloned} ELSE {})
    /\ given' = Append(given, cloning[t])
    /\ cloning' = [cloning EXCEPT ![t] = NoVoice]
    /\ UNCHANGED <<bytes, shown, overlapped>>

SpeechNext ==
    \/ \E n \in PushSizes : PushAudio(n)
    \/ FinishSession
    \/ \E t \in Threads : CloneVoice(t) \/ PushVoice(t)

ListVoices == <<Voice("mock-alto", 0), Voice("mock-basso", 0)>> \o cloned

----------------------------------------------------------------------------

\* What the session shows never shrinks while it is pushed to, before and
\* after a Finish, and never runs ahead of the final transcript.
PartialsGrow ==
    \A i, j \in DOMAIN shown :
        (i < j /\ shown[j].kind = "PartialText" /\ shown[i].kind = "PartialText")
          => shown[i].length <= shown[j].length /\ shown[j].length <= Transcript

\* As long as no two calls on an instance overlap, every voice that was
\* returned is listed, in order, and no two have the same id
\* (MockAdapters.cpp:299-304; calls that do overlap give the same id twice).
VoicesListed ==
    ~overlapped => /\ \A i \in DOMAIN given : given[i] = ListVoices[i + 2]
                   /\ IsInjective(ListVoices)
=============================================================================
