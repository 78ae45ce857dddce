-------------------------- MODULE SpeakStreamProofs --------------------------
(***************************************************************************)
(* Proofs about SpeakStream, for audio of every length.  Tiles and OneLast *)
(* are inductive together with TypeOK and the shape of the loop.           *)
(***************************************************************************)
EXTENDS SpeakStream, TLAPS

\* Before the loop nothing has been handed over and there is no audio yet.
Shape ==
    /\ streamPc = "call" => size = 0 /\ off = 0 /\ streamResult = "Pending"
    /\ streamPc = "loop" => streamResult = "Pending"

IInv == TypeOK /\ Tiles /\ OneLast /\ Shape

\* The step of the loop is a positive number, whatever the size.
LEMMA ChunkSizePositive == ASSUME size \in Nat PROVE chunkSize \in Nat \ {0}
  BY DEF chunkSize

\* Nothing has been handed over when the call is made.
LEMMA InitIInv == StreamInit => IInv
  BY DEF StreamInit, IInv, TypeOK, Tiles, OneLast, Shape

\* One turn of the loop extends the tiling, and marks the chunk that ends it.
LEMMA HandIInv == IInv /\ HandChunk => IInv'
<1> SUFFICES ASSUME IInv, HandChunk PROVE IInv'
  OBVIOUS
<1> DEFINE n == IF chunkSize < size - off THEN chunkSize ELSE size - off
<1>1. chunkSize \in Nat \ {0}
  BY ChunkSizePositive DEF IInv, TypeOK
<1>2. /\ streamPc = "loop" /\ off < size
      /\ handed' = handed + n
      /\ lasts' = IF off + n >= size THEN lasts + 1 ELSE lasts
      /\ off' = off + chunkSize
      /\ UNCHANGED <<onChunk, hasText, streamPc, size, streamResult>>
  BY DEF HandChunk
<1>3. handed = off /\ lasts = 0
  BY <1>2 DEF IInv, Tiles, OneLast, TypeOK
<1>4. n \in Nat \ {0} /\ off + n <= size
  BY <1>1, <1>2 DEF IInv, TypeOK
<1>5. TypeOK'
  <2>1. off' \in Nat /\ handed' \in 0..size' /\ lasts' \in 0..1
    BY <1>1, <1>2, <1>3, <1>4 DEF IInv, TypeOK
  <2> QED BY <1>2, <2>1 DEF IInv, TypeOK
<1>6. Tiles'
  <2>1. streamResult' # "None"
    BY <1>2 DEF IInv, Shape
  <2>2. handed' = IF off' < size' THEN off' ELSE size'
    BY <1>1, <1>2, <1>3, <1>4 DEF IInv, TypeOK
  <2> QED BY <2>1, <2>2 DEF Tiles
<1>7. OneLast'
  BY <1>2, <1>3, <1>4 DEF IInv, OneLast, TypeOK
<1>8. Shape'
  BY <1>2 DEF IInv, Shape
<1> QED BY <1>5, <1>6, <1>7, <1>8 DEF IInv

\* Every other step leaves what was handed over alone.
LEMMA StepIInv == IInv /\ [StreamNext]_streamVars => IInv'
<1> SUFFICES ASSUME IInv, [StreamNext]_streamVars PROVE IInv'
  OBVIOUS
<1> USE DEF IInv, TypeOK, Tiles, OneLast, Shape
<1>1. CASE FailSpeech
  BY <1>1, ErrorsAssumption DEF FailSpeech
<1>2. CASE Synthesise
  BY <1>2, SizesAssumption DEF Synthesise
<1>3. CASE HandChunk
  BY <1>3, HandIInv
<1>4. CASE EndStream
  BY <1>4 DEF EndStream
<1>5. CASE ThrowChunk
  BY <1>5 DEF ThrowChunk
<1>6. CASE UNCHANGED streamVars
  BY <1>6 DEF streamVars
<1> QED BY <1>1, <1>2, <1>3, <1>4, <1>5, <1>6 DEF StreamNext

\* IInv holds in every reachable state.
THEOREM Invariance == StreamSpec => []IInv
  BY InitIInv, StepIInv, PTL DEF StreamSpec

\* The variables of SpeakStream keep their types.
THEOREM TypeCorrect == StreamSpec => []TypeOK
<1>1. IInv => TypeOK
  BY DEF IInv
<1> QED BY <1>1, Invariance, PTL

\* The chunks of every call tile the audio, and a call that succeeds has
\* handed over all of it, whatever its length.
THEOREM TilesAlways == StreamSpec => []Tiles
<1>1. IInv => Tiles
  BY DEF IInv
<1> QED BY <1>1, Invariance, PTL

\* Exactly the chunk that completes the audio is marked last.
THEOREM OneLastAlways == StreamSpec => []OneLast
<1>1. IInv => OneLast
  BY DEF IInv
<1> QED BY <1>1, Invariance, PTL

\* No chunk follows the one marked last.
THEOREM NothingAfterLastAlways == StreamSpec => NothingAfterLast
<1>1. IInv /\ [StreamNext]_streamVars => [lasts = 1 => UNCHANGED <<handed, lasts>>]_streamVars
  <2> SUFFICES ASSUME IInv, [StreamNext]_streamVars, lasts = 1
               PROVE  UNCHANGED <<handed, lasts>>
    OBVIOUS
  <2>1. size > 0 /\ handed = size
    BY DEF IInv, OneLast
  <2>2. ~HandChunk
    BY <2>1 DEF HandChunk, IInv, Tiles, TypeOK
  <2> QED BY <2>2 DEF StreamNext, FailSpeech, Synthesise, EndStream, ThrowChunk, streamVars
<1> QED BY <1>1, Invariance, PTL DEF StreamSpec, NothingAfterLast
=============================================================================
