---------------------------- MODULE SpeakStream ----------------------------
(***************************************************************************)
(* ITextToSpeech::SpeakStream as LocalTextToSpeech and MockTextToSpeech    *)
(* implement it: the speech is synthesised whole by Speak, then handed to  *)
(* the callback in pieces, the final one marked last.  The names are its   *)
(* own, so that it can be composed with the other mock adapters.           *)
(***************************************************************************)
EXTENDS Integers

CONSTANTS
    Sizes,       \* how many bytes of audio a synthesis may return
    SpeakErrors  \* what Speak may fail with

ASSUME SizesAssumption == Sizes \subseteq Nat

ASSUME ErrorsAssumption == {"None", "Pending", "Thrown"} \cap SpeakErrors = {}

VARIABLES
    onChunk, hasText,  \* the arguments: is there a callback, is there a text?
    streamPc,          \* "call", "loop" or "done"
    size, off,         \* bytes.size() and the loop's variable
    handed,            \* how many bytes the callback has been given
    lasts,             \* how many calls were marked last
    streamResult

streamVars == <<onChunk, hasText, streamPc, size, off, handed, lasts, streamResult>>

StreamInit ==
    /\ onChunk \in BOOLEAN /\ hasText \in BOOLEAN
    /\ streamPc = "call"
    /\ size = 0 /\ off = 0 /\ handed = 0 /\ lasts = 0
    /\ streamResult = "Pending"

\* Mutant of chunkSize: short audio makes it 0.
chunkSizeThird == size \div 3

chunkSize == IF size \div 3 > 1 THEN size \div 3 ELSE 1

\* The argument checks of SpeakStream and Speak, and Speak's failures.
FailSpeech ==
    /\ streamPc = "call"
    /\ streamResult' \in IF onChunk /\ hasText THEN SpeakErrors ELSE {"InvalidArgument"}
    /\ streamPc' = "done"
    /\ UNCHANGED <<onChunk, hasText, size, off, handed, lasts>>

Synthesise ==
    /\ streamPc = "call" /\ onChunk /\ hasText
    /\ size' \in Sizes
    /\ streamPc' = "loop"
    /\ UNCHANGED <<onChunk, hasText, off, handed, lasts, streamResult>>

\* Mutants of HandChunk: a chunk longer than what is left; none is marked last.
HandTooMuch ==
    /\ streamPc = "loop" /\ off < size
    /\ handed' = handed + chunkSize
    /\ lasts' = IF off + chunkSize >= size THEN lasts + 1 ELSE lasts
    /\ off' = off + chunkSize
    /\ UNCHANGED <<onChunk, hasText, streamPc, size, streamResult>>

HandLastNever ==
    /\ streamPc = "loop" /\ off < size
    /\ handed' = handed + (IF chunkSize < size - off THEN chunkSize ELSE size - off)
    /\ off' = off + chunkSize
    /\ UNCHANGED <<onChunk, hasText, streamPc, size, lasts, streamResult>>

HandChunk ==
    /\ streamPc = "loop" /\ off < size
    /\ LET n == IF chunkSize < size - off THEN chunkSize ELSE size - off
       IN  /\ handed' = handed + n
           /\ lasts' = IF off + n >= size THEN lasts + 1 ELSE lasts
    /\ off' = off + chunkSize
    /\ UNCHANGED <<onChunk, hasText, streamPc, size, streamResult>>

\* Mutant of EndStream: the loop ends when no whole chunk is left.
EndStreamEarly ==
    /\ streamPc = "loop" /\ off + chunkSize > size
    /\ streamResult' = "None"
    /\ streamPc' = "done"
    /\ UNCHANGED <<onChunk, hasText, size, off, handed, lasts>>

EndStream ==
    /\ streamPc = "loop" /\ off >= size
    /\ streamResult' = "None"
    /\ streamPc' = "done"
    /\ UNCHANGED <<onChunk, hasText, size, off, handed, lasts>>

\* The callback throws out of the loop.
ThrowChunk ==
    /\ streamPc = "loop" /\ handed > 0
    /\ streamResult' = "Thrown"
    /\ streamPc' = "done"
    /\ UNCHANGED <<onChunk, hasText, size, off, handed, lasts>>

StreamNext == FailSpeech \/ Synthesise \/ HandChunk \/ EndStream \/ ThrowChunk

StreamSpec == StreamInit /\ [][StreamNext]_streamVars

----------------------------------------------------------------------------

TypeOK ==
    /\ onChunk \in BOOLEAN /\ hasText \in BOOLEAN
    /\ streamPc \in {"call", "loop", "done"}
    /\ size \in Nat /\ off \in Nat /\ handed \in 0..size /\ lasts \in 0..1
    /\ streamResult \in {"Pending", "None", "Thrown", "InvalidArgument"} \cup SpeakErrors

\* The chunks tile the audio: each begins where the one before ended, and a
\* call that succeeds has handed over all of it.
Tiles ==
    /\ handed = IF off < size THEN off ELSE size
    /\ streamResult = "None" => handed = size

\* Exactly one chunk is marked last, and it is the one that completes the
\* audio (for audio of at least one byte).
OneLast ==
    lasts = IF size > 0 /\ handed = size THEN 1 ELSE 0

\* Nothing follows the chunk marked last.
NothingAfterLast == [][lasts = 1 => UNCHANGED <<handed, lasts>>]_streamVars

\* Short audio does not stop the loop from advancing: the call returns.
Returns == streamPc = "loop" ~> streamPc = "done"
=============================================================================
