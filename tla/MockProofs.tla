----------------------------- MODULE MockProofs -----------------------------
(***************************************************************************)
(* Proofs about the mock adapters: the jobs, the live session and the      *)
(* cloned voices, the conversation, and that a stream says what Chat       *)
(* would, and what the glossary replaces.  Each is proved of its own       *)
(* behaviour, which MockAdapters runs one at a time.                       *)
(***************************************************************************)
EXTENDS MockChat, MockSpeech, MockJobs, MockTranslator, TLAPS, SequenceTheorems

\* Induction, prefixes and flattening; no fold is reasoned about here.
INSTANCE SequenceFacts WITH Op <- Append

JobsSpec == JobsInit /\ [][JobsNext]_jobVars
SpeechSpec == SpeechInit /\ [][SpeechNext]_speechVars
ChatSpec == ChatInit /\ [][ChatNext]_chatVars
TranslatorSpec == TranslatorInit /\ [][TranslatorNext]_translatorVars

----------------------------------------------------------------------------
(***************************************************************************)
(* Jobs.                                                                   *)
(***************************************************************************)

Call(i) == [at |-> i, done |-> i = Steps]
Complete == Required[job.op][job.mode] \subseteq job.given

JobTypes ==
    /\ job.steps \in StepOptions \cup {<<>>}
    /\ jobPc \in {"idle", "check", "progress", "work", "done"}
    /\ step \in Nat \ {0}
    /\ progress \in Seq([at : Nat, done : BOOLEAN]) /\ Len(progress) = step - 1

\* Progress has been reported up to the step reached, and only after the checks.
JobShape ==
    /\ \A i \in 1..Len(progress) : progress[i] = Call(i)
    /\ step - 1 <= Steps \/ progress = <<>>
    /\ jobPc \in {"idle", "check"} => progress = <<>>
    /\ jobPc # "done" => jobResult = "Pending" /\ outputs = <<>>
    /\ jobPc \in {"progress", "work"} \/ progress # <<>> \/ outputs # <<>> => Complete
    /\ (jobPc = "work" \/ jobResult = "None") /\ job.op \in Generators /\ job.callback => Steps < step
    /\ jobResult \in {"Internal", "InvalidArgument"} => progress = <<>>
    /\ jobResult # "None" => outputs = <<>>

JobInv == JobTypes /\ JobShape

LEMMA StepsType == ASSUME JobTypes PROVE Steps \in Int
  BY OptionsAssumption DEF JobTypes, Steps, OptInt

LEMMA JobsInitInv == JobsInit => JobInv
  BY DEF JobsInit, JobInv, JobTypes, JobShape, NoJob

LEMMA CallJobStep == JobInv /\ CallJob => JobInv'
<1> SUFFICES ASSUME JobInv, CallJob PROVE JobInv'
  OBVIOUS
<1>1. job'.steps \in StepOptions \cup {<<>>}
  BY DEF CallJob, NoJob
<1>2. /\ jobPc' = "check" /\ progress = <<>>
      /\ UNCHANGED <<step, progress, outputs, jobResult>>
      /\ jobResult = "Pending" /\ outputs = <<>>
  BY DEF CallJob, JobInv, JobShape
<1> QED BY <1>1, <1>2 DEF JobInv, JobTypes, JobShape

LEMMA CheckStep == JobInv /\ Check => JobInv'
<1> SUFFICES ASSUME JobInv, Check PROVE JobInv'
  OBVIOUS
<1>1. /\ jobPc = "check" /\ progress = <<>> /\ outputs = <<>>
      /\ UNCHANGED <<job, step, progress, outputs>>
  BY DEF Check, JobInv, JobShape
<1>2. JobTypes'
  BY <1>1 DEF Check, JobInv, JobTypes
<1>3. Steps' = Steps /\ Steps \in Int /\ Complete' = Complete
  BY <1>1, StepsType DEF Steps, Complete, JobInv
<1>4. JobShape'
  BY <1>1, <1>3 DEF Check, JobInv, JobTypes, JobShape, Complete
<1> QED BY <1>2, <1>4 DEF JobInv
\* A turn of the loop adds the next call; the loop ends after the last.
LEMMA RunProgressStep == JobInv /\ RunProgress => JobInv'
<1> SUFFICES ASSUME JobInv, RunProgress PROVE JobInv'
  OBVIOUS
<1>1. /\ jobPc = "progress" /\ jobResult = "Pending" /\ outputs = <<>> /\ Complete
      /\ UNCHANGED <<job, outputs, jobResult>>
  BY DEF RunProgress, JobInv, JobShape
<1>2. Steps' = Steps /\ Steps \in Int /\ Complete' = Complete
  BY <1>1, StepsType DEF Steps, Complete, JobInv
<1>3. CASE step <= Steps
  <2>1. /\ progress' = Append(progress, Call(step)) /\ step' = step + 1 /\ jobPc' = jobPc
        /\ Call(step) \in [at : Nat, done : BOOLEAN]
    BY <1>3 DEF RunProgress, JobInv, JobTypes, Call
  <2>2. /\ progress' \in Seq([at : Nat, done : BOOLEAN])
        /\ Len(progress') = step' - 1 /\ Len(progress) = step - 1
        /\ \A i \in 1..(step - 1) : progress'[i] = progress[i]
        /\ progress'[step] = Call(step)
    <3> HIDE DEF Call
    <3> QED BY <2>1, AppendProperties DEF JobInv, JobTypes
  <2>3. JobTypes'
    BY <1>1, <2>1, <2>2 DEF JobInv, JobTypes
  <2>4. \A i \in 1..Len(progress') : progress'[i] = Call(i)'
    <3>1. \A i : Call(i)' = Call(i)
      BY <1>2 DEF Call
    <3>2. \A i \in 1..step : progress'[i] = Call(i)
      BY <2>2 DEF JobInv, JobTypes, JobShape
    <3> QED BY <2>1, <2>2, <3>1, <3>2 DEF JobInv, JobTypes
  <2>5. JobShape'
    BY <1>1, <1>2, <1>3, <2>1, <2>4 DEF JobInv, JobTypes, JobShape
  <2> QED BY <2>3, <2>5 DEF JobInv
<1>4. CASE ~(step <= Steps)
  <2>1. jobPc' = "work" /\ UNCHANGED <<step, progress>>
    BY <1>4 DEF RunProgress
  <2>2. \A i : Call(i)' = Call(i)
    BY <1>2 DEF Call
  <2> QED BY <1>1, <1>2, <1>4, <2>1, <2>2 DEF JobInv, JobTypes, JobShape
<1> QED BY <1>3, <1>4

\* The end of a job, in a throw or with its outputs.
LEMMA EndJobStep == JobInv /\ (JobThrow \/ Work) => JobInv'
<1> SUFFICES ASSUME JobInv, JobThrow \/ Work PROVE JobInv'
  OBVIOUS
<1>1. /\ jobPc \in {"progress", "work"} /\ outputs = <<>> /\ Complete
      /\ UNCHANGED <<job, step, progress>> /\ jobPc' = "done"
  BY DEF JobThrow, Work, JobInv, JobShape
<1>2. Steps' = Steps /\ Complete' = Complete /\ \A i : Call(i)' = Call(i)
  BY <1>1 DEF Steps, Complete, Call
<1>3. \/ jobResult' = "Thrown" /\ outputs' = <<>>
      \/ jobResult' = "None" /\ jobPc = "work"
  BY <1>1 DEF JobThrow, Work
<1> QED BY <1>1, <1>2, <1>3 DEF JobInv, JobTypes, JobShape

LEMMA JobsStepInv == JobInv /\ [JobsNext]_jobVars => JobInv'
<1>1. ASSUME JobInv, UNCHANGED jobVars PROVE JobInv'
  BY <1>1 DEF jobVars, JobInv, JobTypes, JobShape, Call, Steps, Complete
<1> QED BY <1>1, CallJobStep, CheckStep, RunProgressStep, EndJobStep DEF JobsNext

\* The progress of a job agrees with what becomes of it, for every number of
\* steps an instance may be configured with, none and negative ones included.
THEOREM ProgressCompletesAlways == JobsSpec => []ProgressCompletes
<1>1. JobInv => ProgressCompletes
  <2> SUFFICES ASSUME JobInv PROVE ProgressCompletes
    OBVIOUS
  <2>1. /\ Steps \in Int /\ DOMAIN progress = 1..Len(progress)
        /\ Len(progress) = step - 1 /\ step \in Nat \ {0}
        /\ progress # <<>> => Len(progress) > 0
    BY StepsType, LenProperties, EmptySeq DEF JobInv, JobTypes
  <2>2. \A i \in 1..Len(progress) :
           progress[i].at = i /\ (progress[i].done <=> i = Steps)
    <3> TAKE i \in 1..Len(progress)
    <3>1. progress[i] = [at |-> i, done |-> i = Steps]
      BY DEF JobInv, JobShape, Call
    <3>2. progress[i].done = (i = Steps)
      <4> DEFINE b == i = Steps
      <4>1. progress[i] = [at |-> i, done |-> b] /\ b \in BOOLEAN
        BY <3>1
      <4> HIDE DEF b
      <4>2. progress[i].done = b
        BY <4>1
      <4> QED BY <4>2 DEF b
    <3>3. progress[i].at = i
      BY <3>1
    <3> QED BY <3>2, <3>3
  <2>3. progress # <<>> => Len(progress) <= Steps
    BY <2>1 DEF JobInv, JobShape
  <2>4. \A i \in DOMAIN progress :
           progress[i].at = i /\ (progress[i].done => i = Len(progress))
    BY <2>1, <2>2, <2>3
  <2>5. (jobResult = "None" /\ job.op \in Generators /\ job.callback) =>
           IF progress = <<>> THEN Steps <= 0 ELSE progress[Len(progress)].done
    <3> SUFFICES ASSUME jobResult = "None" /\ job.op \in Generators /\ job.callback
                 PROVE  IF progress = <<>> THEN Steps <= 0 ELSE progress[Len(progress)].done
      OBVIOUS
    <3>1. Steps < step
      BY DEF JobInv, JobShape
    <3>2. CASE progress = <<>>
      <4>1. Len(progress) = 0
        BY <3>2
      <4> QED BY <2>1, <3>1, <3>2, <4>1
    <3>3. CASE progress # <<>>
      <4>1. Len(progress) = Steps /\ Len(progress) \in 1..Len(progress)
        BY <2>1, <2>3, <3>1, <3>3
      <4>2. progress[Len(progress)].done
        BY <2>2, <4>1
      <4> QED BY <3>3, <4>2
    <3> QED BY <3>2, <3>3
  <2> QED BY <2>4, <2>5 DEF ProgressCompletes, JobInv, JobShape, Complete
<1> QED BY <1>1, JobsInitInv, JobsStepInv, PTL DEF JobsSpec
----------------------------------------------------------------------------
(***************************************************************************)
(* The live session and the cloned voices.                                 *)
(***************************************************************************)

Event == [kind : {"PartialText", "FinalSegment"}, length : Nat]
AnyVoice == [name : {"", "mock-alto", "mock-basso", "mock-clone"}, number : Nat]

\* Every partial text shows what some earlier count of bytes did.
SessionInv ==
    /\ bytes \in Nat /\ shown \in Seq(Event)
    /\ \A i \in 1..Len(shown) :
          shown[i].kind = "PartialText" => shown[i].length <= Shown(bytes)
    /\ \A i, j \in 1..Len(shown) :
          (i < j /\ shown[j].kind = "PartialText" /\ shown[i].kind = "PartialText")
            => shown[i].length <= shown[j].length
    /\ \A i \in 1..Len(shown) : shown[i].length <= Transcript

Clone(n) == Voice("mock-clone", n)

\* Without overlaps the vector and what was returned are the same, numbered
\* in order, and at most one call has chosen an id, the next one.
VoicesInv ==
    /\ cloned \in Seq(AnyVoice) /\ given \in Seq(AnyVoice)
    /\ cloning \in [Threads -> AnyVoice]
    /\ ~overlapped =>
          /\ given = cloned
          /\ \A i \in 1..Len(cloned) : cloned[i] = Clone(i)
          /\ \A t \in Threads : cloning[t] \in {NoVoice, Clone(Len(cloned) + 1)}
          /\ \A t, u \in Threads : cloning[t] # NoVoice /\ cloning[u] # NoVoice => t = u

LEMMA PartialIsEvent == \A n \in Nat : [kind |-> "PartialText", length |-> n] \in Event
  BY DEF Event

LEMMA FinalIsEvent == \A n \in Nat : [kind |-> "FinalSegment", length |-> n] \in Event
  BY DEF Event

LEMMA CloneIsVoice ==
    /\ NoVoice \in AnyVoice
    /\ \A n \in Nat : /\ Clone(n) \in AnyVoice /\ Clone(n) # NoVoice
                      /\ Clone(n).name = "mock-clone" /\ Clone(n).number = n
<1>1. NoVoice \in AnyVoice
  BY DEF NoVoice, Voice, AnyVoice
<1>2. \A n \in Nat : /\ Clone(n) \in AnyVoice
                     /\ Clone(n).name = "mock-clone" /\ Clone(n).number = n
  BY DEF Clone, Voice, AnyVoice
<1>3. \A n \in Nat : Clone(n) # NoVoice
  BY DEF Clone, NoVoice, Voice
<1> QED BY <1>1, <1>2, <1>3

\* More audio never shows less of the transcript, and no audio shows more.
LEMMA ShownGrows ==
  ASSUME NEW m \in Nat, NEW n \in Nat
  PROVE  /\ Shown(m) \in Nat /\ Shown(m) <= Transcript
         /\ Shown(m) <= Shown(m + n)
  BY SpeechAssumption DEF Shown

\* An event at the end of the others.
LEMMA ShowStep ==
  ASSUME SessionInv, NEW e \in Event, shown' = Append(shown, e), bytes' \in Nat,
         Shown(bytes) <= Shown(bytes'), e.length <= Transcript,
         e.kind = "PartialText" => e.length = Shown(bytes')
  PROVE  SessionInv'
<1>1. /\ shown' \in Seq(Event) /\ Len(shown') = Len(shown) + 1 /\ Len(shown) \in Nat
      /\ \A i \in 1..Len(shown) : shown'[i] = shown[i]
      /\ shown'[Len(shown) + 1] = e
  BY AppendProperties, LenProperties DEF SessionInv
<1>2. \A i \in 1..Len(shown) : shown[i] \in Event
  BY ElementOfSeq DEF SessionInv
<1>3. Shown(bytes) \in Nat /\ Shown(bytes') \in Nat /\ Shown(bytes)' = Shown(bytes')
  BY ShownGrows DEF SessionInv, Shown
<1>4. \A i \in 1..Len(shown') : \/ i \in 1..Len(shown) /\ shown'[i] = shown[i]
                                \/ i = Len(shown) + 1 /\ shown'[i] = e
  BY <1>1
<1>5. \A i \in 1..Len(shown') :
         shown'[i].kind = "PartialText" => shown'[i].length <= Shown(bytes')
  BY <1>2, <1>3, <1>4 DEF SessionInv, Event
<1>6. \A i, j \in 1..Len(shown') :
         (i < j /\ shown'[j].kind = "PartialText" /\ shown'[i].kind = "PartialText")
           => shown'[i].length <= shown'[j].length
  BY <1>1, <1>2, <1>3, <1>4 DEF SessionInv, Event
<1>7. \A i \in 1..Len(shown') : shown'[i].length <= Transcript
  BY <1>4 DEF SessionInv
<1> QED BY <1>1, <1>3, <1>5, <1>6, <1>7 DEF SessionInv

LEMMA CloneVoiceStep == ASSUME VoicesInv, NEW t \in Threads, CloneVoice(t) PROVE VoicesInv'
<1>1. /\ cloning' = [cloning EXCEPT ![t] = Clone(Len(cloned) + 1)]
      /\ Clone(Len(cloned) + 1) \in AnyVoice
      /\ UNCHANGED <<cloned, given>>
  <2>1. Len(cloned) + 1 \in Nat
    BY LenProperties DEF VoicesInv
  <2>2. cloning' = [cloning EXCEPT ![t] = Clone(Len(cloned) + 1)] /\ UNCHANGED <<cloned, given>>
    BY DEF CloneVoice, Clone
  <2> QED BY <2>1, <2>2, CloneIsVoice
<1>2. cloning' \in [Threads -> AnyVoice]
  BY <1>1 DEF VoicesInv
<1>3. ASSUME ~overlapped' PROVE \A u \in Threads : ~overlapped /\ cloning[u] = NoVoice
  BY <1>3 DEF CloneVoice
<1>4. ASSUME ~overlapped' PROVE
        /\ \A u \in Threads : cloning'[u] \in {NoVoice, Clone(Len(cloned) + 1)}
        /\ \A u, w \in Threads : cloning'[u] # NoVoice /\ cloning'[w] # NoVoice => u = w
  BY <1>1, <1>3, <1>4 DEF VoicesInv
<1>5. ASSUME ~overlapped' PROVE ~overlapped
  BY <1>5 DEF CloneVoice
<1> QED BY <1>1, <1>2, <1>4, <1>5 DEF VoicesInv

LEMMA PushVoiceStep == ASSUME VoicesInv, NEW t \in Threads, PushVoice(t) PROVE VoicesInv'
<1>1. /\ cloning' = [cloning EXCEPT ![t] = NoVoice] /\ NoVoice \in AnyVoice
      /\ cloning[t] \in AnyVoice /\ cloning[t] # NoVoice
      /\ overlapped' = overlapped
      /\ given' = Append(given, cloning[t])
      /\ cloned' = Append(cloned, cloning[t]) \/ (overlapped /\ cloned' = cloned)
  BY CloneIsVoice DEF PushVoice, VoicesInv
<1>2. /\ cloned' \in Seq(AnyVoice) /\ given' \in Seq(AnyVoice)
      /\ cloning' \in [Threads -> AnyVoice]
  <2>1. cloned \in Seq(AnyVoice) /\ given \in Seq(AnyVoice) /\ cloning \in [Threads -> AnyVoice]
    BY DEF VoicesInv
  <2> HIDE DEF AnyVoice, NoVoice
  <2>2. Append(cloned, cloning[t]) \in Seq(AnyVoice) /\ Append(given, cloning[t]) \in Seq(AnyVoice)
    BY <1>1, <2>1, AppendProperties
  <2>3. cloning' \in [Threads -> AnyVoice]
    BY <1>1, <2>1
  <2> QED BY <1>1, <2>1, <2>2, <2>3
<1>3. ASSUME ~overlapped PROVE
        /\ given' = cloned'
        /\ \A i \in 1..Len(cloned') : cloned'[i] = Clone(i)
        /\ \A u \in Threads : cloning'[u] = NoVoice
  <2>1. cloned' = Append(cloned, Clone(Len(cloned) + 1)) /\ given' = cloned'
    BY <1>1, <1>3 DEF VoicesInv
  <2>2. /\ Len(cloned') = Len(cloned) + 1 /\ Len(cloned) \in Nat
        /\ cloned'[Len(cloned) + 1] = Clone(Len(cloned) + 1)
        /\ \A i \in 1..Len(cloned) : cloned'[i] = cloned[i]
    <3>1. Len(cloned) \in Nat
      BY LenProperties DEF VoicesInv
    <3>2. Clone(Len(cloned) + 1) \in AnyVoice
      BY <3>1, CloneIsVoice
    <3> HIDE DEF Clone
    <3> QED BY <2>1, <3>1, <3>2, AppendProperties DEF VoicesInv
  <2>3. \A u \in Threads : u # t => cloning[u] = NoVoice
    BY <1>1, <1>3 DEF VoicesInv
  <2> QED BY <1>1, <1>3, <2>1, <2>2, <2>3 DEF VoicesInv
<1> QED BY <1>1, <1>2, <1>3 DEF VoicesInv

LEMMA SpeechStepInv == SessionInv /\ VoicesInv /\ [SpeechNext]_speechVars
                         => SessionInv' /\ VoicesInv'
<1> SUFFICES ASSUME SessionInv, VoicesInv, [SpeechNext]_speechVars
             PROVE  SessionInv' /\ VoicesInv'
  OBVIOUS
<1>1. CASE \E n \in PushSizes : PushAudio(n)
  <2>1. PICK n \in PushSizes : PushAudio(n)
    BY <1>1
  <2>2. n \in Nat /\ bytes \in Nat /\ bytes' = bytes + n
    BY <2>1, SpeechAssumption DEF PushAudio, SessionInv
  <2> DEFINE e == [kind |-> "PartialText", length |-> Shown(bytes')]
  <2>3. /\ shown' = Append(shown, e) /\ e \in Event /\ e.length <= Transcript
        /\ Shown(bytes) <= Shown(bytes') /\ e.length = Shown(bytes')
    <3>1. bytes' \in Nat /\ Shown(bytes') = Shown(bytes + n)
      BY <2>2
    <3>2. Shown(bytes') \in Nat /\ Shown(bytes') <= Transcript /\ Shown(bytes) <= Shown(bytes')
      BY <2>2, <3>1, ShownGrows
    <3>3. e \in Event
      BY <3>2, PartialIsEvent
    <3> QED BY <2>1, <3>2, <3>3 DEF PushAudio
  <2>4. SessionInv'
    <3> HIDE DEF e
    <3> QED BY <2>2, <2>3, ShowStep
  <2> QED BY <2>1, <2>4 DEF PushAudio, VoicesInv
<1>2. CASE FinishSession
  <2> DEFINE e == [kind |-> "FinalSegment", length |-> Transcript]
  <2>1. /\ shown' = Append(shown, e) /\ e \in Event /\ e.kind # "PartialText"
        /\ bytes' = bytes /\ bytes \in Nat /\ e.length <= Transcript
        /\ Shown(bytes) <= Shown(bytes')
    <3>1. bytes' = bytes /\ bytes \in Nat /\ Transcript \in Nat /\ shown' = Append(shown, e)
      BY <1>2, SpeechAssumption DEF FinishSession, SessionInv
    <3>2. Shown(bytes) \in Nat
      BY <3>1, ShownGrows
    <3>3. e \in Event
      BY <3>1, FinalIsEvent
    <3> QED BY <3>1, <3>2, <3>3
  <2>2. SessionInv'
    <3> HIDE DEF e
    <3> QED BY <2>1, ShowStep
  <2> QED BY <1>2, <2>2 DEF FinishSession, VoicesInv
<1>3. CASE \E t \in Threads : CloneVoice(t) \/ PushVoice(t)
  <2>1. VoicesInv'
    BY <1>3, CloneVoiceStep, PushVoiceStep
  <2> QED BY <1>3, <2>1 DEF CloneVoice, PushVoice, SessionInv, Shown
<1>4. CASE UNCHANGED speechVars
  BY <1>4 DEF speechVars, SessionInv, VoicesInv, Shown
<1> QED BY <1>1, <1>2, <1>3, <1>4 DEF SpeechNext

THEOREM SpeechInvariance == SpeechSpec => [](SessionInv /\ VoicesInv)
<1>1. SpeechInit => SessionInv /\ VoicesInv
  BY CloneIsVoice DEF SpeechInit, SessionInv, VoicesInv
<1> QED BY <1>1, SpeechStepInv, PTL DEF SpeechSpec

\* The partial texts of a session never shrink, over any number of pushes and
\* Finishes, and never run ahead of the transcript.
THEOREM PartialsGrowAlways == SpeechSpec => []PartialsGrow
<1>1. SessionInv => PartialsGrow
  BY LenProperties DEF SessionInv, PartialsGrow
<1> QED BY <1>1, SpeechInvariance, PTL

\* As long as no two calls overlap, cloned voices are listed in order under ids
\* of their own, whichever threads clone.
THEOREM VoicesListedAlways == SpeechSpec => []VoicesListed
<1>1. VoicesInv => VoicesListed
  <2> SUFFICES ASSUME VoicesInv, ~overlapped
               PROVE  /\ \A i \in DOMAIN given : given[i] = ListVoices[i + 2]
                      /\ IsInjective(ListVoices)
    BY DEF VoicesListed
  <2> DEFINE base == <<Voice("mock-alto", 0), Voice("mock-basso", 0)>>
  <2>1. /\ base \in Seq(AnyVoice) /\ Len(base) = 2
        /\ base[1].name = "mock-alto" /\ base[2].name = "mock-basso"
    <3>1. Voice("mock-alto", 0) \in AnyVoice /\ Voice("mock-alto", 0).name = "mock-alto"
      BY DEF Voice, AnyVoice
    <3>2. Voice("mock-basso", 0) \in AnyVoice /\ Voice("mock-basso", 0).name = "mock-basso"
      BY DEF Voice, AnyVoice
    <3> HIDE DEF Voice
    <3> QED BY <3>1, <3>2
  <2>2. /\ given = cloned /\ cloned \in Seq(AnyVoice) /\ Len(cloned) \in Nat
        /\ DOMAIN cloned = 1..Len(cloned)
        /\ \A i \in 1..Len(cloned) : cloned[i] = Clone(i)
    BY LenProperties DEF VoicesInv
  <2>3. /\ ListVoices \in Seq(AnyVoice) /\ DOMAIN ListVoices = 1..(2 + Len(cloned))
        /\ \A i \in 1..(2 + Len(cloned)) :
              ListVoices[i] = IF i <= 2 THEN base[i] ELSE cloned[i - 2]
    <3> HIDE DEF base
    <3>1. ListVoices = base \o cloned
      BY DEF ListVoices, base
    <3>2. /\ ListVoices \in Seq(AnyVoice) /\ Len(ListVoices) = 2 + Len(cloned)
          /\ \A i \in 1..Len(ListVoices) :
                ListVoices[i] = IF i <= 2 THEN base[i] ELSE cloned[i - 2]
      <4>1. /\ ListVoices \in Seq(AnyVoice) /\ Len(ListVoices) = Len(base) + Len(cloned)
            /\ \A i \in 1..(Len(base) + Len(cloned)) :
                  ListVoices[i] = IF i <= Len(base) THEN base[i] ELSE cloned[i - Len(base)]
        <5> HIDE DEF AnyVoice
        <5>1. base \in Seq(AnyVoice) /\ cloned \in Seq(AnyVoice)
          BY <2>1, <2>2
        <5> QED BY <3>1, <5>1, ConcatProperties
      <4>2. Len(base) = 2
        BY <2>1
      <4> QED BY <4>1, <4>2
    <3>3. DOMAIN ListVoices = 1..Len(ListVoices)
      BY <3>2, LenProperties
    <3> QED BY <3>2, <3>3
  <2> HIDE DEF base
  <2>4. \A i \in DOMAIN given : given[i] = ListVoices[i + 2]
    BY <2>2, <2>3
  <2>5. \A i \in 1..(2 + Len(cloned)) :
           \/ i = 1 /\ ListVoices[i].name = "mock-alto"
           \/ i = 2 /\ ListVoices[i].name = "mock-basso"
           \/ i > 2 /\ ListVoices[i].name = "mock-clone" /\ ListVoices[i].number = i - 2
    BY <2>1, <2>2, <2>3 DEF Clone, Voice
  <2>6. IsInjective(ListVoices)
    BY <2>2, <2>3, <2>5 DEF IsInjective
  <2> QED BY <2>4, <2>6
<1> QED BY <1>1, SpeechInvariance, PTL
----------------------------------------------------------------------------
(***************************************************************************)
(* The conversation.                                                       *)
(***************************************************************************)

\* A tool was asked for at most once, and its result is then in the conversation.
ToolInv ==
    /\ \E S : messages \in Seq(S)
    /\ asked = 0 \/ (asked = 1 /\ HaveToolResult)

\* What is added to a conversation leaves it a sequence, and its start alone.
LEMMA Grows ==
  ASSUME NEW S, NEW T, NEW s \in Seq(S), NEW t \in Seq(T)
  PROVE  /\ s \o t \in Seq(S \cup T)
         /\ Len(s \o t) = Len(s) + Len(t) /\ Len(s) \in Nat /\ Len(t) \in Nat
         /\ \A i \in 1..Len(s) : (s \o t)[i] = s[i]
         /\ \A i \in 1..Len(t) : (s \o t)[Len(s) + i] = t[i]
<1>1. s \in Seq(S \cup T) /\ t \in Seq(S \cup T)
  BY SeqDef
<1>2. Len(s) \in Nat /\ Len(t) \in Nat
  BY LenProperties
<1> QED BY <1>1, <1>2, ConcatProperties

LEMMA GrowsByTwo ==
  ASSUME NEW S, NEW T, NEW s \in Seq(S), NEW t \in Seq(T), Len(t) = 2
  PROVE  /\ s \o t \in Seq(S \cup T)
         /\ Len(s \o t) = Len(s) + 2 /\ Len(s) \in Nat
         /\ (s \o t)[Len(s) + 2] = t[2]
<1>1. (s \o t)[Len(s) + 2] = t[2]
  <2>1. \A i \in 1..2 : (s \o t)[Len(s) + i] = t[i]
    BY Grows
  <2>2. 2 \in 1..2
    OBVIOUS
  <2> QED BY <2>1, <2>2, Zenon
<1>2. /\ s \o t \in Seq(S \cup T) /\ Len(s \o t) = Len(s) + Len(t) /\ Len(s) \in Nat
  BY Grows
<1> QED BY <1>1, <1>2

\* A tool result stays in a conversation that grows.
LEMMA ResultStays ==
  ASSUME NEW S, NEW T, NEW t \in Seq(T), messages \in Seq(S), messages' = messages \o t
  PROVE  (\E U : messages' \in Seq(U)) /\ (HaveToolResult => HaveToolResult')
<1>1. /\ messages' \in Seq(S \cup T) /\ Len(messages') = Len(messages) + Len(t)
      /\ Len(messages) \in Nat /\ Len(t) \in Nat
      /\ \A i \in 1..Len(messages) : messages'[i] = messages[i]
  BY Grows
<1>2. DOMAIN messages = 1..Len(messages) /\ DOMAIN messages' = 1..Len(messages')
  BY <1>1, LenProperties
<1> QED BY <1>1, <1>2 DEF HaveToolResult

LEMMA ChatCalls == \/ Chat.calls = 0
                   \/ Chat.calls = 1 /\ Chat.error = "None" /\ ~HaveToolResult
  BY DEF Chat, Answer

LEMMA CallChatStep == ToolInv /\ CallChat => ToolInv'
<1> SUFFICES ASSUME ToolInv, CallChat PROVE ToolInv'
  OBVIOUS
<1> DEFINE asks == <<Message("Assistant", <<>>), Message("Tool", <<"r">>)>>
           says == <<Message("Assistant", Chat.text)>>
           T == {Message("Assistant", <<>>), Message("Tool", <<"r">>),
                 Message("Assistant", Chat.text)}
<1>1. PICK S : messages \in Seq(S)
  BY DEF ToolInv
<1>2. /\ asked' = asked + Chat.calls
      /\ Chat.calls = 1 /\ Chat.error = "None" => messages' = messages \o asks
      /\ \/ messages' = messages \o <<>>
         \/ messages' = messages \o asks
         \/ messages' = messages \o says
  <2>1. /\ asked' = asked + Chat.calls
        /\ messages' = messages \o CASE Chat.error # "None" -> <<>>
                                     [] Chat.calls > 0 -> asks
                                     [] OTHER -> says
    BY DEF CallChat
  <2>2. (Chat.calls = 1 => Chat.calls > 0) /\ (Chat.calls = 0 => ~(Chat.calls > 0))
    OBVIOUS
  <2> HIDE DEF asks, says
  <2>3. CASE Chat.error # "None"
    <3>1. Chat.calls = 0 /\ ~(Chat.calls > 0)
      BY <2>2, <2>3, ChatCalls
    <3> QED BY <2>1, <2>3, <3>1
  <2>4. CASE Chat.error = "None" /\ Chat.calls = 1
    BY <2>1, <2>2, <2>4
  <2>5. CASE Chat.error = "None" /\ Chat.calls = 0
    BY <2>1, <2>2, <2>5
  <2> QED BY <2>3, <2>4, <2>5, ChatCalls
<1>3. /\ <<>> \in Seq(T) /\ asks \in Seq(T) /\ says \in Seq(T)
      /\ Len(asks) = 2 /\ asks[2].role = "Tool"
  <2>1. Message("Tool", <<"r">>).role = "Tool"
    BY DEF Message
  <2> HIDE DEF Message
  <2> QED BY <2>1
<1> HIDE DEF asks, says, T
<1>4. (\E U : messages' \in Seq(U)) /\ (HaveToolResult => HaveToolResult')
  BY <1>1, <1>2, <1>3, ResultStays
<1>5. CASE Chat.calls = 0
  BY <1>2, <1>4, <1>5 DEF ToolInv
<1>6. CASE Chat.calls = 1 /\ Chat.error = "None" /\ ~HaveToolResult
  <2>1. asked' = 1 /\ messages' = messages \o asks
    BY <1>2, <1>6 DEF ToolInv
  <2>2. /\ messages' \in Seq(S \cup T) /\ Len(messages') = Len(messages) + 2
        /\ Len(messages) \in Nat /\ messages'[Len(messages) + 2].role = "Tool"
    <3>1. /\ messages \o asks \in Seq(S \cup T)
          /\ Len(messages \o asks) = Len(messages) + 2 /\ Len(messages) \in Nat
          /\ (messages \o asks)[Len(messages) + 2] = asks[2]
      BY <1>1, <1>3, GrowsByTwo
    <3> QED BY <1>3, <2>1, <3>1
  <2>3. Len(messages) + 2 \in DOMAIN messages'
    BY <2>2, LenProperties
  <2>4. HaveToolResult'
    BY <2>2, <2>3 DEF HaveToolResult
  <2> QED BY <1>4, <2>1, <2>4 DEF ToolInv
<1> QED BY <1>5, <1>6, ChatCalls

LEMMA SayStep == ASSUME NEW text, ToolInv, Say(text) PROVE ToolInv'
<1> DEFINE m == Message("User", text)
<1>1. PICK S : messages \in Seq(S)
  BY DEF ToolInv
<1>2. messages' = Append(messages, m) /\ asked' = asked
  BY DEF Say
<1> HIDE DEF m
<1>3. messages \in Seq(S \cup {m})
  BY <1>1, SeqDef
<1>4. Append(messages, m) = messages \o <<m>>
  BY <1>3, AppendIsConcat
<1>5. <<m>> \in Seq({m})
  OBVIOUS
<1>6. (\E U : messages' \in Seq(U)) /\ (HaveToolResult => HaveToolResult')
  BY <1>1, <1>2, <1>4, <1>5, ResultStays
<1> QED BY <1>2, <1>6 DEF ToolInv

\* The tool is requested once however long the conversation is, whatever the
\* user says and whatever the instance replies.
THEOREM ToolRequestedOnceAlways == ChatSpec => []ToolRequestedOnce
<1>1. ChatInit => ToolInv
  BY DEF ChatInit, ToolInv
<1>2. ToolInv /\ [ChatNext]_chatVars => ToolInv'
  <2> SUFFICES ASSUME ToolInv, [ChatNext]_chatVars PROVE ToolInv'
    OBVIOUS
  <2>1. CASE UNCHANGED <<messages, asked>>
    BY <2>1 DEF ToolInv, HaveToolResult
  <2>2. CASE \E t \in UserTexts : Say(t)
    BY <2>2, SayStep
  <2>3. CASE ChatStream
    BY <2>1, <2>3 DEF ChatStream
  <2> QED BY <2>1, <2>2, <2>3, CallChatStep
        DEF ChatNext, chatVars, CreateTextLLM, SendWord, SendDone, ChatThrow
<1>3. ToolInv => ToolRequestedOnce
  BY DEF ToolInv, ToolRequestedOnce
<1> QED BY <1>1, <1>2, <1>3, PTL DEF ChatSpec
----------------------------------------------------------------------------
(***************************************************************************)
(* The stream.                                                             *)
(***************************************************************************)

\* Nothing is sent before the call, it returns when it is over, and words are
\* only sent to a callback.
StreamInv ==
    /\ \E S : events \in Seq(S)
    /\ chatPc \in {"new", "idle"} => events = <<>>
    /\ returned = "Pending" <=> chatPc # "done"
    /\ chatPc = "words" => chat.callback

\* One more event is a step of the contract.
LEMMA OneMore ==
  ASSUME NEW S, NEW s \in Seq(S), NEW e
  PROVE  /\ Append(s, e) \in Seq(S \cup {e})
         /\ Len(Append(s, e)) = Len(s) + 1 /\ Len(s) \in Nat
         /\ Append(s, e)[Len(s) + 1] = e
         /\ Contract!IsPrefix(s, Append(s, e))
         /\ Contract!IsStrictPrefix(s, Append(s, e))
         /\ Contract!Last(Append(s, e)) = e
<1> DEFINE t == Append(s, e)
<1>1. s \in Seq(S \cup {e})
  BY SeqDef
<1>2. /\ t \in Seq(S \cup {e}) /\ Len(t) = Len(s) + 1 /\ Len(s) \in Nat
      /\ \A i \in 1..Len(s) : t[i] = s[i]
      /\ t[Len(s) + 1] = e
  BY <1>1, AppendProperties, LenProperties
<1> HIDE DEF t
<1>3. Contract!IsPrefix(s, t)
  BY <1>1, <1>2 DEF Contract!IsPrefix
<1>4. s # t
  BY <1>2
<1> QED BY <1>2, <1>3, <1>4 DEF Contract!IsStrictPrefix, Contract!Last, t

LEMMA ChatErrors == Chat.error \in {"None", "Internal", "InvalidArgument"}
  BY DEF Chat, Answer

\* ChatStream refuses, fails with its error, or goes on to the words.
LEMMA ChatStreamStep ==
  ASSUME StreamInv, ChatStream
  PROVE  StreamInv' /\ [Contract!Next]_Contract!vars
<1> DEFINE e == [kind |-> "Error", error |-> Chat.error]
<1>1. events = <<>> /\ returned = "Pending" /\ <<>> \in Seq({})
  BY DEF ChatStream, StreamInv
<1>2. CASE ~chat.callback
  <2>1. events' = <<>> /\ chatPc' = "done" /\ returned' = "InvalidArgument"
    BY <1>2 DEF ChatStream
  <2>2. Contract!Refuse
    BY <1>1, <1>2, <2>1 DEF Contract!Refuse
  <2> QED BY <1>1, <2>1, <2>2 DEF StreamInv, Contract!Next
<1>3. CASE chat.callback /\ Chat.error # "None"
  <2>1. /\ events' = <<e>> /\ chatPc' = "done" /\ returned' \in {Chat.error, "Thrown"}
        /\ Chat.error \in {"Internal", "InvalidArgument"}
    BY <1>3, ChatErrors DEF ChatStream
  <2>2. e.kind = "Error" /\ e.error = Chat.error
    OBVIOUS
  <2> HIDE DEF e
  <2>3. events' = Append(events, e)
    BY <1>1, <2>1
  <2>4. /\ events' \in Seq({} \cup {e}) /\ Len(events') = Len(events) + 1
        /\ Contract!IsPrefix(events, events') /\ Contract!Last(events') = e
    BY <1>1, <2>3, OneMore
  <2>5. Contract!Terminate
    BY <1>1, <1>3, <2>1, <2>2, <2>4 DEF Contract!Terminate
  <2> QED BY <2>1, <2>4, <2>5 DEF StreamInv, Contract!Next
<1>4. CASE chat.callback /\ Chat.error = "None"
  <2>1. events' = <<>> /\ chatPc' = "words" /\ returned' = returned
    BY <1>4 DEF ChatStream
  <2>2. UNCHANGED chat
    BY DEF ChatStream
  <2> QED BY <1>1, <1>4, <2>1, <2>2 DEF StreamInv, Contract!vars
<1> QED BY <1>2, <1>3, <1>4

LEMMA SendWordStep ==
  ASSUME StreamInv, SendWord
  PROVE  StreamInv' /\ [Contract!Next]_Contract!vars
<1> DEFINE e == [kind |-> "TextDelta",
                 text |-> (IF events = <<>> THEN <<>> ELSE <<Blank>>) \o Head(words)]
<1>1. PICK S : events \in Seq(S)
  BY DEF StreamInv
<1>2. /\ chatPc = "words" /\ returned = "Pending" /\ events' = Append(events, e)
      /\ UNCHANGED <<chat, chatPc, returned>> /\ e.kind = "TextDelta"
      /\ chat.callback
  BY DEF SendWord, StreamInv
<1> HIDE DEF e
<1>3. /\ events' \in Seq(S \cup {e}) /\ Len(events') = Len(events) + 1 /\ Len(events) \in Nat
      /\ events'[Len(events) + 1] = e /\ Contract!IsStrictPrefix(events, events')
  BY <1>1, <1>2, OneMore
<1>4. Contract!Stream
  BY <1>2, <1>3 DEF Contract!Stream, Contract!IsDelta
<1> QED BY <1>2, <1>3, <1>4 DEF StreamInv, Contract!Next

LEMMA SendDoneStep ==
  ASSUME StreamInv, SendDone
  PROVE  StreamInv' /\ [Contract!Next]_Contract!vars
<1> DEFINE e == [kind |-> "Done", usage |-> Chat.usage]
<1>1. PICK S : events \in Seq(S)
  BY DEF StreamInv
<1>2. /\ returned = "Pending" /\ events' = Append(events, e)
      /\ chatPc' = "done" /\ returned' \in {"None", "Thrown"} /\ e.kind = "Done"
      /\ chat.callback
  BY DEF SendDone, StreamInv
<1> HIDE DEF e
<1>3. /\ events' \in Seq(S \cup {e}) /\ Len(events') = Len(events) + 1
      /\ Contract!IsPrefix(events, events') /\ Contract!Last(events') = e
  BY <1>1, <1>2, OneMore
<1>4. Contract!Terminate
  BY <1>2, <1>3 DEF Contract!Terminate
<1> QED BY <1>2, <1>3, <1>4 DEF StreamInv, Contract!Next

LEMMA ChatThrowStep ==
  ASSUME StreamInv, ChatThrow
  PROVE  StreamInv' /\ [Contract!Next]_Contract!vars
<1>1. Contract!Throw
  BY DEF ChatThrow, StreamInv, Contract!Throw
<1> QED BY <1>1 DEF ChatThrow, StreamInv, Contract!Next

LEMMA StreamStep == StreamInv /\ [ChatNext]_chatVars
                      => StreamInv' /\ [Contract!Next]_Contract!vars
<1> SUFFICES ASSUME StreamInv, [ChatNext]_chatVars
             PROVE  StreamInv' /\ [Contract!Next]_Contract!vars
  OBVIOUS
<1>1. ASSUME UNCHANGED <<events, returned>>,
             UNCHANGED <<chat, chatPc>> \/ (chatPc = "new" /\ chatPc' = "idle")
      PROVE  StreamInv' /\ [Contract!Next]_Contract!vars
  BY <1>1 DEF StreamInv, Contract!vars
<1>2. CASE CreateTextLLM
  BY <1>1, <1>2 DEF CreateTextLLM
<1>3. CASE CallChat \/ UNCHANGED chatVars
  BY <1>1, <1>3 DEF CallChat, chatVars
<1>4. CASE \E t \in UserTexts : Say(t)
  BY <1>1, <1>4 DEF Say
<1>5. CASE ChatStream
  BY <1>5, ChatStreamStep
<1> QED BY <1>2, <1>3, <1>4, <1>5, SendWordStep, SendDoneStep, ChatThrowStep DEF ChatNext

\* The mock's ChatStream keeps the contract of the interface, for every
\* conversation, reply and callback.
THEOREM MockImplementsContract == ChatSpec => ImplementsContract
<1>1. ChatInit => StreamInv /\ Contract!Init
  BY DEF ChatInit, StreamInv, Contract!Init
<1> QED BY <1>1, StreamStep, PTL DEF ChatSpec, ImplementsContract, Contract!Spec
----------------------------------------------------------------------------
(***************************************************************************)
(* Words and white space.                                                  *)
(***************************************************************************)

Upto(f, k) == [i \in 1..k |-> f[i]]

LEMMA UptoGrows ==
  ASSUME NEW S, NEW f, NEW k \in Nat, \A i \in 1..(k + 1) : f[i] \in S
  PROVE  /\ Upto(f, k) \in Seq(S) /\ Len(Upto(f, k)) = k
         /\ Upto(f, k + 1) = Append(Upto(f, k), f[k + 1])
<1> DEFINE s == Upto(f, k)
           t == Upto(f, k + 1)
           x == f[k + 1]
           u == Append(s, x)
<1>1. /\ DOMAIN s = 1..k /\ s = [i \in 1..k |-> s[i]] /\ \A i \in 1..k : s[i] = f[i]
      /\ DOMAIN t = 1..(k + 1) /\ t = [i \in 1..(k + 1) |-> t[i]]
      /\ \A i \in 1..(k + 1) : t[i] = f[i]
  BY DEF Upto
<1>2. x \in S /\ (\A i \in 1..k : f[i] \in S) /\ k + 1 \in Nat
  OBVIOUS
<1> HIDE DEF s, t, x
<1>3. s \in Seq(S) /\ Len(s) = k
  BY <1>1, <1>2, SeqByIndex
<1>4. \A i \in 1..(k + 1) : t[i] \in S
  BY <1>1
<1>5. t \in Seq(S) /\ Len(t) = k + 1
  BY <1>1, <1>2, <1>4, SeqByIndex
<1>6. u \in Seq(S) /\ Len(u) = k + 1 /\ (\A i \in 1..k : u[i] = s[i]) /\ u[k + 1] = x
  BY <1>2, <1>3, AppendProperties
<1> HIDE DEF u
<1>7. \A i \in 1..(k + 1) : t[i] = u[i]
  <2>1. \A i \in 1..(k + 1) : i \in 1..k \/ i = k + 1
    OBVIOUS
  <2> QED BY <1>1, <1>6, <2>1 DEF x
<1>8. t = u
  BY <1>5, <1>6, <1>7, SeqEqual
<1> QED BY <1>3, <1>8 DEF s, t, u, x

\* What the deltas say: the words with a blank before each but the first.
Gapped(ws, m) == (IF m = 1 THEN <<>> ELSE <<Blank>>) \o ws[m]
Joined(ws) == FlattenSeq([m \in 1..Len(ws) |-> Gapped(ws, m)])

\* The sequences over S.
Over(S) == Seq(S)

LEMMA GappedType ==
  ASSUME NEW S, Blank \in S, NEW ws \in Seq(Over(S)), NEW m \in 1..Len(ws)
  PROVE  Gapped(ws, m) \in Over(S)
<1>1. <<>> \in Seq(S) /\ <<Blank>> \in Seq(S)
  OBVIOUS
<1>2. ws[m] \in Over(S)
  BY ElementOfSeq
<1> DEFINE w == ws[m]
<1>3. w \in Seq(S)
  BY <1>2 DEF Over
<1> HIDE DEF w
<1>4. <<>> \o w \in Seq(S) /\ <<Blank>> \o w \in Seq(S)
  BY <1>1, <1>3, ConcatProperties
<1> QED BY <1>4 DEF Gapped, Over, w

LEMMA JoinedAppend ==
  ASSUME NEW S, Blank \in S, NEW ws \in Seq(Over(S)), NEW w \in Over(S)
  PROVE  /\ Joined(ws) \in Over(S)
         /\ ws # <<>> => Joined(Append(ws, w)) = Joined(ws) \o (<<Blank>> \o w)
         /\ ws = <<>> => Joined(Append(ws, w)) = w
<1> DEFINE n == Len(ws)
           vs == Append(ws, w)
           f == [m \in 1..(n + 1) |-> Gapped(vs, m)]
           gs == [m \in 1..n |-> Gapped(ws, m)]
<1>1. n \in Nat /\ (ws = <<>> <=> n = 0)
  BY LenProperties, EmptySeq
<1>2. /\ vs \in Seq(Over(S)) /\ Len(vs) = n + 1 /\ vs[n + 1] = w
      /\ \A m \in 1..n : vs[m] = ws[m]
  BY AppendProperties
<1> HIDE DEF n, vs
<1>3. \A m \in 1..(n + 1) : Gapped(vs, m) \in Over(S)
  BY <1>2, GappedType
<1>4. \A m \in 1..n : Gapped(vs, m) = Gapped(ws, m)
  BY <1>2 DEF Gapped
<1>5. \A m \in 1..(n + 1) : f[m] \in Over(S)
  BY <1>3
<1>6. Upto(f, n) = gs
  <2>1. 1..n \subseteq 1..(n + 1)
    BY <1>1
  <2> QED BY <1>4, <2>1 DEF Upto
<1>7. Upto(f, n + 1) = f /\ n + 1 \in 1..(n + 1) /\ f[n + 1] = Gapped(vs, n + 1)
  BY <1>1 DEF Upto
<1> HIDE DEF f, gs
<1>8. gs \in Seq(Over(S)) /\ Len(gs) = n /\ f = Append(gs, Gapped(vs, n + 1))
  BY <1>1, <1>5, <1>6, <1>7, UptoGrows
<1>9. Gapped(vs, n + 1) \in Over(S)
  BY <1>3, <1>7
<1>10. Joined(ws) = FlattenSeq(gs) /\ Joined(vs) = FlattenSeq(f)
  BY <1>2 DEF Joined, gs, f, n
<1>11. /\ FlattenSeq(gs) \in Over(S)
       /\ FlattenSeq(f) = FlattenSeq(gs) \o Gapped(vs, n + 1)
  BY <1>8, <1>9, FlattenAppend, FlattenType DEF Over
<1>12. CASE ws # <<>>
  <2>1. n + 1 # 1
    BY <1>1, <1>12
  <2>2. Gapped(vs, n + 1) = <<Blank>> \o w
    BY <1>2, <2>1 DEF Gapped
  <2> QED BY <1>10, <1>11, <1>12, <2>2 DEF vs
<1>13. CASE ws = <<>>
  <2>1. n = 0 /\ n + 1 = 1
    BY <1>1, <1>13
  <2>2. Gapped(vs, n + 1) = <<>> \o w
    BY <1>2, <2>1 DEF Gapped
  <2>3. gs = <<>>
    BY <1>8, <2>1, EmptySeq
  <2>4. FlattenSeq(f) = <<>> \o (<<>> \o w)
    BY <1>11, <2>2, <2>3, FlattenEmpty
  <2>5. <<>> \o w = w
    BY ConcatEmptySeq DEF Over
  <2> QED BY <1>10, <1>11, <1>13, <2>4, <2>5 DEF vs
<1> QED BY <1>10, <1>11, <1>12, <1>13

\* Where the word at i ends.
End(text, i) == Max({j \in i..Len(text) : \A k \in i..j : text[k] # Blank})

EndsAt(text, i, e) ==
    /\ e \in i..Len(text)
    /\ \A k \in i..e : text[k] # Blank
    /\ e < Len(text) => text[e + 1] = Blank

LEMMA EndUnique ==
  ASSUME NEW text, Len(text) \in Nat, NEW i \in 1..Len(text), NEW d, NEW e,
         EndsAt(text, i, d), EndsAt(text, i, e)
  PROVE  d = e
<1>1. d \in i..Len(text) /\ e \in i..Len(text)
  BY DEF EndsAt
<1>2. ASSUME d < e PROVE FALSE
  <2>1. d + 1 \in i..e /\ d < Len(text)
    BY <1>1, <1>2
  <2> QED BY <2>1 DEF EndsAt
<1>3. ASSUME e < d PROVE FALSE
  <2>1. e + 1 \in i..d /\ e < Len(text)
    BY <1>1, <1>3
  <2> QED BY <2>1 DEF EndsAt
<1> QED BY <1>1, <1>2, <1>3

LEMMA EndIs ==
  ASSUME NEW text, Len(text) \in Nat, NEW i \in 1..Len(text), text[i] # Blank
  PROVE  EndsAt(text, i, End(text, i))
<1> DEFINE n == Len(text)
           T == {j \in i..n : \A k \in i..j : text[k] # Blank}
           U == {d \in 0..n : n - d \in T}
<1> HIDE DEF n
<1>1. n \in Nat /\ i \in 1..n
  BY DEF n
<1>2. i \in T
  <2>1. i \in i..n /\ \A k \in i..i : k = i
    BY <1>1
  <2> QED BY <2>1
<1>3. \A j \in T : j \in Nat /\ n - j \in U
  <2> SUFFICES ASSUME NEW j \in T PROVE j \in Nat /\ n - j \in U
    OBVIOUS
  <2>1. j \in Nat /\ n - j \in 0..n /\ n - (n - j) = j
    BY <1>1
  <2> QED BY <2>1
<1>4. U \subseteq Nat /\ U # {}
  <2>1. n - i \in U
    BY <1>2, <1>3
  <2>2. \A d \in U : d \in Nat
    BY <1>1
  <2> QED BY <2>1, <2>2
<1>5. PICK d \in U : \A x \in U : d <= x
  <2> HIDE DEF U
  <2> QED BY <1>4, LeastNat
<1> DEFINE m == n - d
<1>6. d \in 0..n /\ m \in T
  OBVIOUS
<1>7. \A j \in T : m >= j
  <2> SUFFICES ASSUME NEW j \in T PROVE m >= j
    OBVIOUS
  <2>1. d <= n - j /\ j \in Nat
    BY <1>3, <1>5
  <2> QED BY <1>1, <1>6, <2>1
<1> DEFINE e == Max(T)
<1>8. e \in T /\ \A j \in T : e >= j
  <2> HIDE DEF T, m
  <2> QED BY <1>6, <1>7 DEF Max
<1> HIDE DEF e
<1>9. e \in i..n /\ \A k \in i..e : text[k] # Blank
  BY <1>8
<1>10. ASSUME e < n PROVE text[e + 1] = Blank
  <2> SUFFICES ASSUME text[e + 1] # Blank PROVE FALSE
    OBVIOUS
  <2>1. e + 1 \in i..n /\ \A k \in i..(e + 1) : k \in i..e \/ k = e + 1
    BY <1>1, <1>9, <1>10
  <2>2. e + 1 \in T
    BY <1>9, <2>1
  <2>3. e >= e + 1
    BY <1>8, <2>2
  <2> QED BY <1>1, <1>9, <2>3
<1>11. e = End(text, i)
  BY DEF e, T, n, End
<1> QED BY <1>9, <1>10, <1>11 DEF EndsAt, n

LEMMA EndNext ==
  ASSUME NEW text, Len(text) \in Nat, NEW i \in 1..Len(text), i < Len(text),
         text[i] # Blank
  PROVE  IF text[i + 1] = Blank THEN End(text, i) = i
         ELSE End(text, i) = End(text, i + 1)
<1>1. i + 1 \in 1..Len(text)
  OBVIOUS
<1>2. CASE text[i + 1] = Blank
  <2>1. EndsAt(text, i, i)
    <3>1. i \in i..Len(text) /\ \A k \in i..i : k = i
      OBVIOUS
    <3> QED BY <1>2, <3>1 DEF EndsAt
  <2> QED BY <1>2, <2>1, EndIs, EndUnique
<1>3. CASE text[i + 1] # Blank
  <2> DEFINE e == End(text, i + 1)
  <2>1. EndsAt(text, i + 1, e)
    BY <1>1, <1>3, EndIs
  <2> HIDE DEF e
  <2>2. e \in (i + 1)..Len(text)
    BY <2>1 DEF EndsAt
  <2>3. e \in i..Len(text) /\ \A k \in i..e : k = i \/ k \in (i + 1)..e
    BY <2>2
  <2>4. EndsAt(text, i, e)
    BY <2>1, <2>3 DEF EndsAt
  <2>5. e = End(text, i)
    BY <2>4, EndIs, EndUnique
  <2> QED BY <1>3, <2>5 DEF e
<1> QED BY <1>2, <1>3

\* What is left of the word at k, and the blank owed after it.
Rest(text, k) ==
    IF k \in 1..Len(text) /\ text[k] # Blank THEN SubSeq(text, k + 1, End(text, k)) ELSE <<>>

Begun(text, k) == \E j \in 1..k : text[j] # Blank
Ahead(text, k) == \E j \in (k + 1)..Len(text) : text[j] # Blank

Owed(text, k) ==
    IF k \in 1..Len(text) /\ text[k] = Blank /\ Begun(text, k) /\ Ahead(text, k)
    THEN <<Blank>> ELSE <<>>

KeptAt(text) == [i \in 1..Len(text) |-> IF Stays(text, i) THEN <<text[i]>> ELSE <<>>]
WordsAt(text) ==
    [i \in 1..Len(text) |-> IF StartsWord(text, i) THEN <<WordAt(text, i)>> ELSE <<>>]
Kept(text, k) == FlattenSeq(Upto(KeptAt(text), k))
FoundIn(text, k) == FlattenSeq(Upto(WordsAt(text), k))

\* A word is what is at its start and what is left of it there.
LEMMA WordSplit ==
  ASSUME NEW S, NEW text \in Seq(S), NEW i \in 1..Len(text), text[i] # Blank
  PROVE  /\ WordAt(text, i) = <<text[i]>> \o Rest(text, i)
         /\ WordAt(text, i) \in Seq(S) /\ Rest(text, i) \in Seq(S)
<1> DEFINE e == End(text, i)
<1>1. EndsAt(text, i, e) /\ Len(text) \in Nat
  BY LenProperties, EndIs
<1> HIDE DEF e
<1>2. e \in i..Len(text)
  BY <1>1 DEF EndsAt
<1>3. /\ SubSeq(text, i, e) \in Seq(S) /\ SubSeq(text, i + 1, e) \in Seq(S)
      /\ SubSeq(text, i, i) \in Seq(S)
      /\ SubSeq(text, i, i) \o SubSeq(text, i + 1, e) = SubSeq(text, i, e)
  <2>1. \A a \in {i, i + 1} : \A b \in {i, e} : \A k \in a..b : text[k] \in S
    <3>1. \A k \in 1..Len(text) : text[k] \in S
      BY ElementOfSeq
    <3> QED BY <1>1, <1>2, <3>1
  <2>2. i \in Nat /\ e \in Nat /\ i <= e /\ 1 <= i /\ e <= Len(text)
    BY <1>1, <1>2
  <2> QED BY <1>1, <2>1, <2>2, SubSeqProperties, ConcatAdjacentSubSeq
<1>4. SubSeq(text, i, i) = <<text[i]>>
  <2>1. Len(SubSeq(text, i, i)) = 1 /\ SubSeq(text, i, i)[1] = text[i]
    <3>1. \A k \in i..i : text[k] \in S
      BY ElementOfSeq
    <3>2. 1 \in 1..((i - i) + 1) /\ (i + 1) - 1 = i /\ i - i + 1 = 1
      BY <1>1
    <3> QED BY <1>1, <3>1, <3>2, SubSeqProperties
  <2>2. <<text[i]>> \in Seq(S) /\ Len(<<text[i]>>) = 1 /\ <<text[i]>>[1] = text[i]
    BY ElementOfSeq
  <2> DEFINE s == SubSeq(text, i, i)
             t == <<text[i]>>
  <2> HIDE DEF s, t
  <2>3. s = t
    <3>1. \A k \in 1..1 : k = 1
      OBVIOUS
    <3> QED BY <1>3, <2>1, <2>2, <3>1, SeqEqual DEF s, t
  <2> QED BY <2>3 DEF s, t
<1>5. WordAt(text, i) = SubSeq(text, i, e)
  BY DEF WordAt, e, End
<1>6. Rest(text, i) = SubSeq(text, i + 1, e)
  BY DEF Rest, e
<1> QED BY <1>3, <1>4, <1>5, <1>6

LEMMA KeptGrows ==
  ASSUME NEW S, NEW text \in Seq(S), NEW k \in Nat, k < Len(text)
  PROVE  /\ Kept(text, k) \in Seq(S)
         /\ Kept(text, k + 1) = IF Stays(text, k + 1) THEN Append(Kept(text, k), text[k + 1])
                                ELSE Kept(text, k)
<1> DEFINE f == KeptAt(text)
<1>1. /\ \A i \in 1..(k + 1) : f[i] = IF Stays(text, i) THEN <<text[i]>> ELSE <<>>
      /\ \A i \in 1..(k + 1) : text[i] \in S
      /\ k + 1 \in 1..(k + 1)
  BY LenProperties, ElementOfSeq DEF KeptAt
<1> HIDE DEF f
<1>2. \A i \in 1..(k + 1) : f[i] \in Over(S)
  <2>1. \A x \in S : <<x>> \in Seq(S)
    OBVIOUS
  <2>2. <<>> \in Seq(S)
    OBVIOUS
  <2> QED BY <1>1, <2>1, <2>2 DEF Over
<1>3. Upto(f, k) \in Seq(Over(S)) /\ Upto(f, k + 1) = Append(Upto(f, k), f[k + 1])
  BY <1>2, UptoGrows
<1> DEFINE s == Upto(f, k)
           x == f[k + 1]
<1>4. s \in Seq(Over(S)) /\ x \in Over(S)
  BY <1>1, <1>2, <1>3
<1> HIDE DEF s, x
<1>5. FlattenSeq(s) \in Seq(S) /\ FlattenSeq(Append(s, x)) = FlattenSeq(s) \o x
  BY <1>4, FlattenAppend, FlattenType DEF Over
<1>6. Kept(text, k) \in Seq(S) /\ Kept(text, k + 1) = Kept(text, k) \o x
  BY <1>3, <1>5 DEF Kept, f, s, x
<1>7. CASE Stays(text, k + 1)
  <2>1. x = <<text[k + 1]>> /\ text[k + 1] \in S
    BY <1>1, <1>7 DEF x
  <2> QED BY <1>6, <1>7, <2>1, AppendIsConcat
<1>8. CASE ~Stays(text, k + 1)
  <2>1. x = <<>>
    BY <1>1, <1>8 DEF x
  <2> QED BY <1>6, <1>8, <2>1, ConcatEmptySeq
<1> QED BY <1>6, <1>7, <1>8

LEMMA FoundGrows ==
  ASSUME NEW S, NEW text \in Seq(S), NEW k \in Nat, k < Len(text)
  PROVE  /\ FoundIn(text, k) \in Seq(Over(S))
         /\ StartsWord(text, k + 1) => WordAt(text, k + 1) \in Over(S)
         /\ FoundIn(text, k + 1) =
              IF StartsWord(text, k + 1) THEN Append(FoundIn(text, k), WordAt(text, k + 1))
              ELSE FoundIn(text, k)
<1> DEFINE T == Over(S)
           f == WordsAt(text)
<1>1. /\ \A i \in 1..(k + 1) :
            /\ f[i] = IF StartsWord(text, i) THEN <<WordAt(text, i)>> ELSE <<>>
            /\ StartsWord(text, i) => WordAt(text, i) \in T
      /\ k + 1 \in 1..(k + 1)
  <2>1. 1..(k + 1) \subseteq 1..Len(text)
    BY LenProperties
  <2>2. \A i \in 1..(k + 1) : f[i] = IF StartsWord(text, i) THEN <<WordAt(text, i)>> ELSE <<>>
    BY <2>1 DEF WordsAt
  <2>3. ASSUME NEW i \in 1..(k + 1), StartsWord(text, i) PROVE WordAt(text, i) \in T
    <3>1. i \in 1..Len(text) /\ text[i] # Blank
      BY <2>1, <2>3 DEF StartsWord
    <3> QED BY <3>1, WordSplit DEF Over
  <2> QED BY <2>2, <2>3
<1> HIDE DEF f, T
<1>2. \A i \in 1..(k + 1) : f[i] \in Over(T)
  <2>1. \A x \in T : <<x>> \in Seq(T)
    OBVIOUS
  <2>2. <<>> \in Seq(T)
    OBVIOUS
  <2> QED BY <1>1, <2>1, <2>2 DEF Over
<1>3. Upto(f, k) \in Seq(Over(T)) /\ Upto(f, k + 1) = Append(Upto(f, k), f[k + 1])
  BY <1>2, UptoGrows
<1> DEFINE s == Upto(f, k)
           x == f[k + 1]
<1>4. s \in Seq(Over(T)) /\ x \in Over(T)
  BY <1>1, <1>2, <1>3
<1> HIDE DEF s, x
<1>5. FlattenSeq(s) \in Seq(T) /\ FlattenSeq(Append(s, x)) = FlattenSeq(s) \o x
  BY <1>4, FlattenAppend, FlattenType DEF Over
<1>6. FoundIn(text, k) \in Seq(T) /\ FoundIn(text, k + 1) = FoundIn(text, k) \o x
  BY <1>3, <1>5 DEF FoundIn, f, s, x
<1>7. CASE StartsWord(text, k + 1)
  <2>1. x = <<WordAt(text, k + 1)>> /\ WordAt(text, k + 1) \in T
    BY <1>1, <1>7 DEF x
  <2>2. FoundIn(text, k + 1) = Append(FoundIn(text, k), WordAt(text, k + 1))
    BY <1>6, <2>1, AppendIsConcat
  <2> QED BY <1>6, <1>7, <2>1, <2>2 DEF T
<1>8. CASE ~StartsWord(text, k + 1)
  <2>1. x = <<>>
    BY <1>1, <1>8 DEF x
  <2>2. FoundIn(text, k + 1) = FoundIn(text, k)
    BY <1>6, <2>1, ConcatEmptySeq
  <2> QED BY <1>6, <1>8, <2>2 DEF T
<1> QED BY <1>7, <1>8

\* What has been kept and the words found so far say the same, but for what is
\* left of the last word and the blank that the next word will bring.
Match(S, text, k) ==
    /\ Kept(text, k) \in Seq(S) /\ FoundIn(text, k) \in Seq(Over(S))
    /\ FoundIn(text, k) # <<>> <=> Begun(text, k)
    /\ Kept(text, k) \o Rest(text, k) = Joined(FoundIn(text, k)) \o Owed(text, k)

LEMMA MatchNone == ASSUME NEW S, NEW text PROVE Match(S, text, 0)
<1>1. Upto(KeptAt(text), 0) = <<>> /\ Upto(WordsAt(text), 0) = <<>>
  <2>1. 1..0 = {}
    OBVIOUS
  <2>2. \A f : Upto(f, 0) = [i \in {} |-> f[i]]
    BY <2>1 DEF Upto
  <2>3. \A f : [i \in {} |-> f[i]] = <<>>
    OBVIOUS
  <2> QED BY <2>2, <2>3
<1>2. Kept(text, 0) = <<>> /\ FoundIn(text, 0) = <<>>
  BY <1>1, FlattenEmpty DEF Kept, FoundIn
<1>3. ~Begun(text, 0) /\ Rest(text, 0) = <<>> /\ Owed(text, 0) = <<>>
  BY DEF Begun, Rest, Owed
<1>4. Joined(<<>>) = <<>>
  <2>1. [m \in 1..Len(<<>>) |-> Gapped(<<>>, m)] = <<>>
    <3>1. 1..Len(<<>>) = {}
      OBVIOUS
    <3> QED BY <3>1
  <2> QED BY <2>1, FlattenEmpty DEF Joined
<1>5. <<>> \in Seq(S) /\ <<>> \in Seq(Over(S))
  BY EmptySeq
<1>6. Kept(text, 0) \o Rest(text, 0) = Joined(FoundIn(text, 0)) \o Owed(text, 0)
  BY <1>2, <1>3, <1>4
<1> QED BY <1>2, <1>3, <1>5, <1>6 DEF Match

\* The rest of a word at its last character, and before that.
LEMMA RestIs ==
  ASSUME NEW S, NEW text \in Seq(S), NEW k \in 1..Len(text), text[k] # Blank
  PROVE  /\ k = Len(text) => Rest(text, k) = <<>>
         /\ k < Len(text) =>
              Rest(text, k) = IF text[k + 1] = Blank THEN <<>> ELSE WordAt(text, k + 1)
<1> DEFINE n == Len(text)
           e == End(text, k)
<1>1. n \in Nat
  BY LenProperties
<1>2. EndsAt(text, k, e)
  BY <1>1, EndIs
<1>3. Rest(text, k) = SubSeq(text, k + 1, e)
  BY DEF Rest
<1>4. SubSeq(text, k + 1, k) = <<>>
  <2>1. k + 1 > k
    OBVIOUS
  <2> QED BY <2>1, SubSeqEmpty
<1> HIDE DEF e
<1>5. ASSUME k = n PROVE Rest(text, k) = <<>>
  <2>1. e = k
    BY <1>1, <1>2, <1>5 DEF EndsAt
  <2> QED BY <1>3, <1>4, <2>1
<1>6. ASSUME k < n
      PROVE  Rest(text, k) = IF text[k + 1] = Blank THEN <<>> ELSE WordAt(text, k + 1)
  <2>1. IF text[k + 1] = Blank THEN e = k ELSE e = End(text, k + 1)
    BY <1>1, <1>6, EndNext DEF e
  <2>2. WordAt(text, k + 1) = SubSeq(text, k + 1, End(text, k + 1))
    BY DEF WordAt, End
  <2> QED BY <1>3, <1>4, <2>1, <2>2
<1> QED BY <1>5, <1>6

LEMMA Regroup ==
  ASSUME NEW S, NEW a \in Seq(S), NEW b \in Seq(S), NEW c \in Seq(S)
  PROVE  (a \o b) \o c = a \o (b \o c) /\ a \o <<>> = a /\ <<>> \o a = a
BY ConcatAssociative, ConcatEmptySeq

\* A character that begins a word.
LEMMA MatchBegins ==
  ASSUME NEW S, Blank \in S, NEW text \in Seq(S), NEW k \in Nat, k < Len(text),
         Match(S, text, k), text[k + 1] # Blank, k > 0 => text[k] = Blank
  PROVE  Match(S, text, k + 1)
<1> DEFINE n == Len(text)
           c == text[k + 1]
           w == WordAt(text, k + 1)
           R == Rest(text, k + 1)
           K == Kept(text, k)
           F == FoundIn(text, k)
           J == Joined(F)
<1>1. n \in Nat /\ k + 1 \in 1..n
  BY LenProperties
<1>2. c \in S /\ w = <<c>> \o R /\ w \in Seq(S) /\ R \in Seq(S)
  BY <1>1, ElementOfSeq, WordSplit
<1>3. StartsWord(text, k + 1) /\ Stays(text, k + 1)
  <2>1. k + 1 > 1 => k > 0
    OBVIOUS
  <2>2. (k + 1) - 1 = k
    OBVIOUS
  <2> QED BY <2>1, <2>2 DEF StartsWord, Stays
<1>4. Kept(text, k + 1) = Append(K, c) /\ FoundIn(text, k + 1) = Append(F, w)
  BY <1>3, KeptGrows, FoundGrows
<1>5. K \in Seq(S) /\ F \in Seq(Over(S)) /\ (F # <<>> <=> Begun(text, k))
  BY DEF Match
<1>6. Rest(text, k) = <<>>
  BY DEF Rest
<1>7. Begun(text, k + 1)
  <2>1. k + 1 \in 1..(k + 1)
    OBVIOUS
  <2> QED BY <2>1 DEF Begun
<1>8. Owed(text, k) = IF F # <<>> THEN <<Blank>> ELSE <<>>
  <2>1. Ahead(text, k)
    <3>1. k + 1 \in (k + 1)..n
      BY <1>1
    <3> QED BY <3>1 DEF Ahead
  <2>2. ASSUME F # <<>> PROVE k \in 1..n /\ text[k] = Blank
    <3>1. k > 0
      <4>1. PICK j \in 1..k : text[j] # Blank
        BY <1>5, <2>2 DEF Begun
      <4> QED BY <4>1
    <3> QED BY <1>1, <3>1
  <2> QED BY <1>5, <2>1, <2>2 DEF Owed
<1>9. Owed(text, k + 1) = <<>>
  BY DEF Owed
<1>10. /\ J \in Seq(S)
       /\ F # <<>> => Joined(Append(F, w)) = J \o (<<Blank>> \o w)
       /\ F = <<>> => Joined(Append(F, w)) = w
  BY <1>2, <1>5, JoinedAppend DEF Over
<1>11. F = <<>> => J = <<>>
  <2>1. [m \in 1..Len(<<>>) |-> Gapped(<<>>, m)] = <<>>
    <3>1. 1..Len(<<>>) = {}
      OBVIOUS
    <3> QED BY <3>1
  <2> QED BY <2>1, FlattenEmpty DEF Joined
<1>12. K \o <<>> = J \o Owed(text, k)
  BY <1>6 DEF Match
<1> HIDE DEF c, w, R, K, F, J
<1>13. <<c>> \in Seq(S) /\ <<Blank>> \in Seq(S)
  BY <1>2
<1>14. Append(K, c) = K \o <<c>> /\ (K \o <<c>>) \o R = K \o w /\ K \o <<>> = K
  BY <1>2, <1>5, <1>13, AppendIsConcat, Regroup
<1>15. K \o w = Joined(Append(F, w))
  <2>1. CASE F # <<>>
    <3>1. K = J \o <<Blank>>
      BY <1>8, <1>12, <1>14, <2>1
    <3>2. (J \o <<Blank>>) \o w = J \o (<<Blank>> \o w)
      BY <1>2, <1>10, <1>13, Regroup
    <3> QED BY <1>10, <2>1, <3>1, <3>2
  <2>2. CASE F = <<>>
    <3>1. <<>> \o w = w /\ <<>> \o <<>> = <<>>
      BY <1>2, Regroup
    <3>2. K = <<>>
      BY <1>8, <1>11, <1>12, <1>14, <2>2, <3>1
    <3> QED BY <1>10, <2>2, <3>1, <3>2
  <2> QED BY <2>1, <2>2
<1>16. Append(F, w) \in Seq(Over(S)) /\ Append(F, w) # <<>>
  <2>1. w \in Over(S)
    BY <1>2 DEF Over
  <2> QED BY <1>5, <2>1, AppendProperties
<1>17. Joined(Append(F, w)) \in Seq(S)
  BY <1>2, <1>5, <1>15, ConcatProperties
<1>18. Joined(Append(F, w)) \o <<>> = Joined(Append(F, w))
  BY <1>17, ConcatEmptySeq
<1>19. Append(K, c) \in Seq(S)
  BY <1>2, <1>5, AppendProperties
<1>20. Append(K, c) \o R = Joined(Append(F, w)) \o <<>>
  BY <1>14, <1>15, <1>18
<1>21. Kept(text, k + 1) \o Rest(text, k + 1) = Joined(FoundIn(text, k + 1)) \o Owed(text, k + 1)
  BY <1>4, <1>9, <1>20 DEF R
<1>22. Kept(text, k + 1) \in Seq(S)
  BY <1>4, <1>19
<1>23. FoundIn(text, k + 1) \in Seq(Over(S)) /\ FoundIn(text, k + 1) # <<>>
  BY <1>4, <1>16
<1> QED BY <1>7, <1>21, <1>22, <1>23 DEF Match

\* A character inside a word.
LEMMA MatchInside ==
  ASSUME NEW S, Blank \in S, NEW text \in Seq(S), NEW k \in 1..Len(text), k < Len(text),
         Match(S, text, k), text[k + 1] # Blank, text[k] # Blank
  PROVE  Match(S, text, k + 1)
<1> DEFINE n == Len(text)
           c == text[k + 1]
           R == Rest(text, k + 1)
           K == Kept(text, k)
           F == FoundIn(text, k)
<1>1. n \in Nat /\ k + 1 \in 1..n
  BY LenProperties
<1>2. c \in S /\ WordAt(text, k + 1) = <<c>> \o R /\ R \in Seq(S)
  BY <1>1, ElementOfSeq, WordSplit
<1>3. ~StartsWord(text, k + 1) /\ Stays(text, k + 1) /\ k \in Nat
  <2>1. k + 1 > 1 /\ (k + 1) - 1 = k
    OBVIOUS
  <2> QED BY <2>1 DEF StartsWord, Stays
<1>4. Kept(text, k + 1) = Append(K, c) /\ FoundIn(text, k + 1) = F
  BY <1>3, KeptGrows, FoundGrows
<1>5. K \in Seq(S) /\ F \in Seq(Over(S)) /\ (F # <<>> <=> Begun(text, k))
  BY DEF Match
<1>6. Rest(text, k) = <<c>> \o R
  BY <1>2, RestIs
<1>7. Begun(text, k) /\ Begun(text, k + 1)
  <2>1. k \in 1..k /\ k + 1 \in 1..(k + 1)
    OBVIOUS
  <2> QED BY <2>1 DEF Begun
<1>8. Owed(text, k) = <<>> /\ Owed(text, k + 1) = <<>>
  BY DEF Owed
<1>9. K \o (<<c>> \o R) = Joined(F) \o <<>>
  BY <1>6, <1>8 DEF Match
<1> HIDE DEF c, R, K, F
<1>10. <<c>> \in Seq(S)
  BY <1>2
<1>11. Append(K, c) \in Seq(S) /\ Append(K, c) = K \o <<c>> /\ (K \o <<c>>) \o R = K \o (<<c>> \o R)
  <2>1. Append(K, c) \in Seq(S) /\ Append(K, c) = K \o <<c>>
    BY <1>2, <1>5, AppendIsConcat, AppendProperties
  <2>2. (K \o <<c>>) \o R = K \o (<<c>> \o R)
    BY <1>2, <1>5, <1>10, Regroup
  <2> QED BY <2>1, <2>2
<1>12. Append(K, c) \o R = Joined(F) \o <<>>
  BY <1>9, <1>11
<1>13. Kept(text, k + 1) \o Rest(text, k + 1) = Joined(FoundIn(text, k + 1)) \o Owed(text, k + 1)
  BY <1>4, <1>8, <1>12 DEF R
<1>14. FoundIn(text, k + 1) # <<>> /\ FoundIn(text, k + 1) \in Seq(Over(S))
  BY <1>4, <1>5, <1>7
<1>15. Kept(text, k + 1) \in Seq(S)
  BY <1>4, <1>11
<1> QED BY <1>7, <1>13, <1>14, <1>15 DEF Match

\* A blank, of which the first after a word is kept if another word follows.
LEMMA MatchBlank ==
  ASSUME NEW S, Blank \in S, NEW text \in Seq(S), NEW k \in Nat, k < Len(text),
         Match(S, text, k), text[k + 1] = Blank
  PROVE  Match(S, text, k + 1)
<1> DEFINE n == Len(text)
           K == Kept(text, k)
           F == FoundIn(text, k)
           J == Joined(F)
<1>1. n \in Nat /\ k + 1 \in 1..n
  BY LenProperties
<1>2. ~StartsWord(text, k + 1)
  BY DEF StartsWord
<1>3. FoundIn(text, k + 1) = F
  BY <1>2, FoundGrows
<1>4. /\ Kept(text, k + 1) = IF Stays(text, k + 1) THEN Append(K, Blank) ELSE K
  BY KeptGrows
<1>5. K \in Seq(S) /\ F \in Seq(Over(S)) /\ (F # <<>> <=> Begun(text, k))
  BY DEF Match
<1>6. Rest(text, k + 1) = <<>>
  BY DEF Rest
<1>7. Rest(text, k) = <<>>
  <2>1. CASE k \in 1..n /\ text[k] # Blank
    BY <2>1, RestIs
  <2>2. CASE ~(k \in 1..n /\ text[k] # Blank)
    BY <2>2 DEF Rest
  <2> QED BY <2>1, <2>2
<1>8. Begun(text, k + 1) <=> Begun(text, k)
  <2>1. \A j \in 1..(k + 1) : j \in 1..k \/ j = k + 1
    OBVIOUS
  <2>2. \A j \in 1..k : j \in 1..(k + 1)
    OBVIOUS
  <2> QED BY <2>1, <2>2 DEF Begun
<1>9. Ahead(text, k) <=> Ahead(text, k + 1)
  <2>1. \A j \in (k + 1)..n : j \in ((k + 1) + 1)..n \/ j = k + 1
    BY <1>1
  <2>2. \A j \in ((k + 1) + 1)..n : j \in (k + 1)..n
    BY <1>1
  <2> QED BY <2>1, <2>2 DEF Ahead
<1>10. (\E j \in (k + 1)..n : text[j] # Blank) <=> Ahead(text, k + 1)
  BY <1>9 DEF Ahead
<1>11. K \o <<>> = J \o Owed(text, k)
  BY <1>7 DEF Match
<1>12. J \in Seq(S)
  <2>1. <<>> \in Over(S)
    BY EmptySeq DEF Over
  <2> QED BY <1>5, <2>1, JoinedAppend DEF Over
<1>13. /\ k + 1 > 1 <=> k > 0
       /\ (k + 1) - 1 = k
       /\ k > 0 <=> k \in 1..n
  BY <1>1
<1>14. Kept(text, k + 1) \o <<>> = J \o Owed(text, k + 1) /\ Kept(text, k + 1) \in Seq(S)
  <2>1. CASE k > 0 /\ text[k] # Blank
    <3>1. Begun(text, k)
      <4>1. k \in 1..k
        BY <2>1
      <4> QED BY <2>1, <4>1 DEF Begun
    <3>2. Owed(text, k) = <<>>
      BY <2>1 DEF Owed
    <3>3. Owed(text, k + 1) = IF Ahead(text, k + 1) THEN <<Blank>> ELSE <<>>
      BY <1>1, <1>8, <3>1 DEF Owed
    <3>4. Stays(text, k + 1) <=> Ahead(text, k + 1)
      BY <1>10, <1>13, <2>1 DEF Stays
    <3> HIDE DEF K, J
    <3>5. K = J
      BY <1>5, <1>11, <1>12, <3>2, ConcatEmptySeq
    <3>6. CASE Ahead(text, k + 1)
      <4>1. Kept(text, k + 1) = Append(K, Blank) /\ Owed(text, k + 1) = <<Blank>>
        BY <1>4, <3>3, <3>4, <3>6
      <4>2. Append(K, Blank) = K \o <<Blank>> /\ Append(K, Blank) \in Seq(S)
        BY <1>5, AppendIsConcat, AppendProperties
      <4>3. Append(K, Blank) \o <<>> = Append(K, Blank)
        BY <4>2, ConcatEmptySeq
      <4> QED BY <3>5, <4>1, <4>2, <4>3
    <3>7. CASE ~Ahead(text, k + 1)
      <4>1. Kept(text, k + 1) = K /\ Owed(text, k + 1) = <<>>
        BY <1>4, <3>3, <3>4, <3>7
      <4> QED BY <1>5, <3>5, <4>1
    <3> QED BY <3>6, <3>7
  <2>2. CASE ~(k > 0 /\ text[k] # Blank)
    <3>1. ~Stays(text, k + 1)
      BY <1>13, <2>2 DEF Stays
    <3>2. Owed(text, k + 1) = IF Begun(text, k) /\ Ahead(text, k) THEN <<Blank>> ELSE <<>>
      BY <1>1, <1>8, <1>9 DEF Owed
    <3>3. ASSUME Begun(text, k) PROVE k \in 1..n /\ text[k] = Blank
      <4>1. PICK j \in 1..k : text[j] # Blank
        BY <3>3 DEF Begun
      <4>2. k > 0
        BY <4>1
      <4> QED BY <1>13, <2>2, <4>2
    <3>4. Owed(text, k) = Owed(text, k + 1)
      BY <3>2, <3>3 DEF Owed
    <3> QED BY <1>4, <1>5, <1>11, <3>1, <3>4
  <2> QED BY <2>1, <2>2
<1>15. Kept(text, k + 1) \o Rest(text, k + 1) = Joined(FoundIn(text, k + 1)) \o Owed(text, k + 1)
  BY <1>3, <1>6, <1>14 DEF J
<1>16. FoundIn(text, k + 1) \in Seq(Over(S)) /\ (FoundIn(text, k + 1) # <<>> <=> Begun(text, k + 1))
  BY <1>3, <1>5, <1>8
<1> QED BY <1>14, <1>15, <1>16 DEF Match

\* The words of a text, a blank between each two, are the text with its white
\* space collapsed.
LEMMA WordsSayText ==
  ASSUME NEW S, Blank \in S, NEW text \in Seq(S)
  PROVE  /\ Words(text) \in Seq(Over(S)) /\ Collapsed(text) \in Seq(S)
         /\ Joined(Words(text)) = Collapsed(text)
<1> DEFINE n == Len(text)
           T == {k \in Nat : k <= n => Match(S, text, k)}
<1>1. n \in Nat /\ DOMAIN text = 1..n
  BY LenProperties
<1>2. 0 \in T
  BY MatchNone
<1>3. ASSUME NEW k \in Nat, k \in T PROVE k + 1 \in T
  <2> SUFFICES ASSUME k + 1 <= n PROVE Match(S, text, k + 1)
    OBVIOUS
  <2>1. k < n /\ Match(S, text, k)
    BY <1>1, <1>3
  <2>2. CASE text[k + 1] = Blank
    BY <2>1, <2>2, MatchBlank
  <2>3. CASE text[k + 1] # Blank /\ k > 0 /\ text[k] # Blank
    <3>1. k \in 1..n
      BY <1>1, <2>1, <2>3
    <3> QED BY <2>1, <2>3, <3>1, MatchInside
  <2>4. CASE text[k + 1] # Blank /\ (k > 0 => text[k] = Blank)
    BY <2>1, <2>4, MatchBegins
  <2> QED BY <2>2, <2>3, <2>4
<1>4. \A k \in Nat : k \in T
  <2> HIDE DEF T
  <2> QED BY <1>2, <1>3, SetInduction
<1>5. Match(S, text, n)
  BY <1>1, <1>4
<1>6. Upto(KeptAt(text), n) = KeptAt(text) /\ Upto(WordsAt(text), n) = WordsAt(text)
  BY DEF Upto, KeptAt, WordsAt
<1>7. Collapsed(text) = FlattenSeq(KeptAt(text)) /\ Words(text) = FlattenSeq(WordsAt(text))
  BY <1>1 DEF Collapsed, Words, KeptAt, WordsAt
<1>8. Kept(text, n) = Collapsed(text) /\ FoundIn(text, n) = Words(text)
  BY <1>6, <1>7 DEF Kept, FoundIn
<1>9. Rest(text, n) = <<>>
  <2>1. CASE n \in 1..n /\ text[n] # Blank
    BY <2>1, RestIs
  <2>2. CASE ~(n \in 1..n /\ text[n] # Blank)
    BY <2>2 DEF Rest
  <2> QED BY <2>1, <2>2
<1>10. Owed(text, n) = <<>>
  <2>1. (n + 1)..n = {}
    BY <1>1
  <2>2. ~Ahead(text, n)
    BY <2>1 DEF Ahead
  <2> QED BY <2>2 DEF Owed
<1> DEFINE K == Collapsed(text)
           F == Words(text)
<1>11. K \in Seq(S) /\ F \in Seq(Over(S)) /\ K \o <<>> = Joined(F) \o <<>>
  BY <1>5, <1>8, <1>9, <1>10 DEF Match
<1> HIDE DEF K, F
<1>12. Joined(F) \in Seq(S)
  <2>1. <<>> \in Over(S)
    BY EmptySeq DEF Over
  <2> QED BY <1>11, <2>1, JoinedAppend DEF Over
<1>13. Joined(F) = K
  BY <1>11, <1>12, ConcatEmptySeq
<1> QED BY <1>11, <1>13 DEF K, F

----------------------------------------------------------------------------
(***************************************************************************)
(* What the stream says.                                                   *)
(***************************************************************************)

LEMMA JoinedNone == Joined(<<>>) = <<>>
<1>1. [m \in 1..Len(<<>>) |-> Gapped(<<>>, m)] = <<>>
  <2>1. 1..Len(<<>>) = {}
    OBVIOUS
  <2> QED BY <2>1
<1> QED BY <1>1, FlattenEmpty DEF Joined

\* The first words say the beginning of what all of them say.
LEMMA JoinedPrefix ==
  ASSUME NEW S, Blank \in S, NEW a \in Seq(Over(S)), NEW b \in Seq(Over(S))
  PROVE  Joined(a) \in Seq(S) /\ IsPrefix(Joined(a), Joined(a \o b))
<1> DEFINE T == {c \in Seq(Over(S)) : \E x \in Over(S) : Joined(a \o c) = Joined(a) \o x}
<1>1. \A ws \in Seq(Over(S)) : Joined(ws) \in Over(S)
  <2> SUFFICES ASSUME NEW ws \in Seq(Over(S)) PROVE Joined(ws) \in Over(S)
    OBVIOUS
  <2>1. <<>> \in Over(S)
    BY EmptySeq DEF Over
  <2> QED BY <2>1, JoinedAppend
<1>2. <<>> \in T
  <2>1. a \o <<>> = a /\ <<>> \in Seq(Over(S))
    BY ConcatEmptySeq, EmptySeq
  <2>2. <<>> \in Over(S) /\ Joined(a) \o <<>> = Joined(a)
    BY <1>1, ConcatEmptySeq, EmptySeq DEF Over
  <2> QED BY <2>1, <2>2
<1>3. \A c \in Seq(Over(S)), w \in Over(S) : c \in T => Append(c, w) \in T
  <2> SUFFICES ASSUME NEW c \in Seq(Over(S)), NEW w \in Over(S), c \in T
               PROVE  Append(c, w) \in T
    OBVIOUS
  <2>1. PICK x \in Over(S) : Joined(a \o c) = Joined(a) \o x
    OBVIOUS
  <2> DEFINE s == a \o c
             y == IF s = <<>> THEN w ELSE <<Blank>> \o w
             J == Joined(a)
  <2>2. s \in Seq(Over(S)) /\ Append(c, w) \in Seq(Over(S))
        /\ a \o Append(c, w) = Append(s, w)
    <3>1. <<w>> \in Seq(Over(S)) /\ Append(c, w) = c \o <<w>> /\ Append(c, w) \in Seq(Over(S))
      BY AppendIsConcat, AppendProperties
    <3>2. (a \o c) \o <<w>> = a \o (c \o <<w>>)
      BY <3>1, ConcatAssociative
    <3>3. s \in Seq(Over(S))
      BY ConcatProperties
    <3>4. Append(s, w) = s \o <<w>>
      BY <3>3, AppendIsConcat
    <3> QED BY <3>1, <3>2, <3>3, <3>4
  <2> HIDE DEF s
  <2>3. y \in Over(S)
    <3>1. <<Blank>> \in Seq(S) /\ w \in Seq(S)
      BY DEF Over
    <3>2. <<Blank>> \o w \in Seq(S)
      BY <3>1, ConcatProperties
    <3> QED BY <3>2 DEF Over
  <2>4. Joined(s) \in Over(S) /\ J \in Over(S)
    BY <1>1, <2>2
  <2>5. Joined(Append(s, w)) = Joined(s) \o y
    <3>1. CASE s # <<>>
      BY <2>2, <3>1, JoinedAppend
    <3>2. CASE s = <<>>
      <4>1. <<>> \o w = w
        BY ConcatEmptySeq DEF Over
      <4>2. Joined(Append(s, w)) = w
        BY <2>2, <3>2, JoinedAppend
      <4> QED BY <3>2, <4>1, <4>2, JoinedNone
    <3> QED BY <3>1, <3>2
  <2>6. Joined(s) = J \o x
    BY <2>1 DEF s
  <2> HIDE DEF y, J
  <2>7. (J \o x) \o y = J \o (x \o y) /\ x \o y \in Over(S)
    <3>1. J \in Seq(S) /\ x \in Seq(S) /\ y \in Seq(S)
      BY <2>3, <2>4 DEF Over
    <3>2. (J \o x) \o y = J \o (x \o y)
      BY <3>1, ConcatAssociative
    <3>3. x \o y \in Seq(S)
      BY <3>1, ConcatProperties
    <3> QED BY <3>2, <3>3 DEF Over
  <2>8. Joined(a \o Append(c, w)) = J \o (x \o y)
    BY <2>2, <2>5, <2>6, <2>7
  <2> QED BY <2>2, <2>7, <2>8 DEF J
<1>4. \A c \in Seq(Over(S)) : c \in T
  <2> HIDE DEF T
  <2> QED BY <1>2, <1>3, SeqInduction
<1>5. PICK x \in Over(S) : Joined(a \o b) = Joined(a) \o x
  BY <1>4
<1>6. Joined(a) \in Over(S)
  BY <1>1
<1> DEFINE J == Joined(a)
<1> HIDE DEF J
<1>7. ASSUME J \in Seq(S), x \in Seq(S) PROVE IsPrefix(J, J \o x)
  BY <1>7, PrefixConcat
<1> QED BY <1>5, <1>6, <1>7 DEF Over, J

\* What an event says, and what the events have said.
Part(ev) == IF Contract!IsDelta(ev) THEN ev.text ELSE <<>>
Parts(evs) == [i \in 1..Len(evs) |-> Part(evs[i])]
Says(evs) == FlattenSeq(Parts(evs))

LEMMA SaysGrows ==
  ASSUME NEW S, NEW E, NEW evs \in Seq(E), NEW ev, \A x \in E : Part(x) \in Over(S),
         Part(ev) \in Over(S)
  PROVE  Says(evs) \in Over(S) /\ Says(Append(evs, ev)) = Says(evs) \o Part(ev)
<1> DEFINE n == Len(evs)
           more == Append(evs, ev)
           f == Parts(more)
<1>1. evs \in Seq(E \cup {ev}) /\ n \in Nat
  BY LenProperties, SeqDef
<1>2. /\ Len(more) = n + 1 /\ more[n + 1] = ev /\ \A i \in 1..n : more[i] = evs[i]
  BY <1>1, AppendProperties
<1> HIDE DEF more, n
<1>3. /\ f = [i \in 1..(n + 1) |-> Part(more[i])]
      /\ n + 1 \in 1..(n + 1) /\ 1..n \subseteq 1..(n + 1)
  BY <1>1, <1>2 DEF Parts
<1> HIDE DEF f
<1>4. f[n + 1] = Part(ev) /\ \A i \in 1..n : f[i] = Part(evs[i])
  BY <1>2, <1>3
<1>5. \A i \in 1..n : Part(evs[i]) \in Over(S)
  BY ElementOfSeq DEF n
<1>6. \A i \in 1..(n + 1) : f[i] \in Over(S)
  <2>1. \A i \in 1..(n + 1) : i \in 1..n \/ i = n + 1
    BY <1>1
  <2> QED BY <1>4, <1>5, <2>1
<1>7. Upto(f, n) = Parts(evs) /\ Upto(f, n + 1) = f
  BY <1>3, <1>4 DEF Upto, Parts, n
<1>8. Parts(evs) \in Seq(Over(S)) /\ f = Append(Parts(evs), Part(ev))
  <2>1. Upto(f, n) \in Seq(Over(S)) /\ Upto(f, n + 1) = Append(Upto(f, n), f[n + 1])
    BY <1>1, <1>6, UptoGrows
  <2> QED BY <1>4, <1>7, <2>1
<1> DEFINE g == Parts(evs)
           p == Part(ev)
<1> HIDE DEF g, p
<1>9. ASSUME g \in Seq(Over(S)), p \in Over(S)
      PROVE  FlattenSeq(g) \in Over(S) /\ FlattenSeq(Append(g, p)) = FlattenSeq(g) \o p
  BY <1>9, FlattenAppend, FlattenType DEF Over
<1>10. g \in Seq(Over(S)) /\ p \in Over(S) /\ Parts(more) = Append(g, p)
  BY <1>8 DEF f, g, p
<1> QED BY <1>9, <1>10 DEF Says, g, p, more

\* The characters of the conversation.
Char == STRING \cup {"mock", Blank, "open", "close", "r"}
Spoken == [role : {"User", "Assistant", "Tool"}, text : Over(Char)]

TalkTypes == messages \in Seq(Spoken) /\ chat.reply \in Seq(Over(Char))

LEMMA CharsAre ==
  /\ Blank \in Char
  /\ \A t \in Seq(STRING) : t \in Over(Char)
  /\ <<>> \in Over(Char) /\ <<"r">> \in Over(Char)
  /\ \A t \in Over(Char) : <<"open">> \o t \o <<"close">> \in Over(Char)
  /\ \A t \in Over(Char) : <<"mock", Blank>> \o t \in Over(Char)
<1>1. Blank \in Char /\ "mock" \in Char /\ "open" \in Char /\ "close" \in Char /\ "r" \in Char
      /\ \A c \in STRING : c \in Char
  BY DEF Char
<1> HIDE DEF Char
<1>2. ASSUME NEW t \in Seq(STRING) PROVE t \in Seq(Char)
  <2>1. \A i \in 1..Len(t) : t[i] \in STRING
    BY ElementOfSeq
  <2>2. \A i \in 1..Len(t) : t[i] \in Char
    BY <1>1, <2>1
  <2>3. t = [i \in 1..Len(t) |-> t[i]] /\ DOMAIN t = 1..Len(t) /\ Len(t) \in Nat
    BY SeqDef, LenProperties
  <2> QED BY <2>2, <2>3, SeqByIndex
<1> DEFINE mock == "mock"
           open == "open"
           close == "close"
           r == "r"
<1>3. mock \in Char /\ open \in Char /\ close \in Char /\ r \in Char
  BY <1>1
<1> HIDE DEF mock, open, close, r
<1>4. /\ <<>> \in Seq(Char) /\ <<r>> \in Seq(Char) /\ <<open>> \in Seq(Char)
      /\ <<close>> \in Seq(Char) /\ <<mock, Blank>> \in Seq(Char)
  BY <1>1, <1>3
<1>5. \A t \in Seq(Char) : <<open>> \o t \o <<close>> \in Seq(Char)
  BY <1>4, ConcatProperties
<1>6. \A t \in Seq(Char) : <<mock, Blank>> \o t \in Seq(Char)
  BY <1>4, ConcatProperties
<1> QED BY <1>1, <1>2, <1>4, <1>5, <1>6 DEF Over, mock, open, close, r

LEMMA ChatTextIs == ASSUME TalkTypes PROVE Chat.text \in Over(Char)
<1> DEFINE lastUser == Last(messages).text
           text == IF chat.schema THEN <<"open">> \o lastUser \o <<"close">>
                   ELSE IF chat.reply = <<>> THEN <<"mock", Blank>> \o lastUser
                   ELSE chat.reply[1]
<1>1. ASSUME messages # <<>> PROVE lastUser \in Over(Char)
  <2>1. Len(messages) \in 1..Len(messages)
    BY <1>1, EmptySeq, LenProperties DEF TalkTypes
  <2>2. messages[Len(messages)] \in Spoken
    BY <2>1, ElementOfSeq DEF TalkTypes
  <2> QED BY <2>2 DEF Spoken, Last
<1>2. ASSUME chat.reply # <<>> PROVE chat.reply[1] \in Over(Char)
  <2>1. 1 \in 1..Len(chat.reply)
    BY <1>2, EmptySeq, LenProperties DEF TalkTypes
  <2> QED BY <2>1, ElementOfSeq DEF TalkTypes
<1> HIDE DEF lastUser
<1>3. ASSUME messages # <<>> PROVE text \in Over(Char)
  BY <1>1, <1>2, <1>3, CharsAre
<1> HIDE DEF text
<1>4. \/ Chat.text = <<>>
      \/ messages # <<>> /\ Chat.text = text
  BY DEF Chat, Answer, text, lastUser
<1> QED BY <1>3, <1>4, CharsAre

\* What CallChat keeps with the conversation.
LEMMA TalkTypesStep ==
  ASSUME TalkTypes, [ChatNext]_chatVars PROVE TalkTypes'
<1>1. CASE UNCHANGED <<chat, messages>>
  BY <1>1 DEF TalkTypes
<1>2. CASE CreateTextLLM
  <2>1. messages' = messages /\ chat'.reply \in Replies
    BY <1>2 DEF CreateTextLLM
  <2>2. \A s \in Seq(Seq(STRING)) : s \in Seq(Over(Char))
    <3> SUFFICES ASSUME NEW s \in Seq(Seq(STRING)) PROVE s \in Seq(Over(Char))
      OBVIOUS
    <3>1. \A i \in 1..Len(s) : s[i] \in Seq(STRING)
      BY ElementOfSeq
    <3>2. \A i \in 1..Len(s) : s[i] \in Over(Char)
      BY <3>1, CharsAre
    <3>3. s = [i \in 1..Len(s) |-> s[i]] /\ DOMAIN s = 1..Len(s) /\ Len(s) \in Nat
      BY SeqDef, LenProperties
    <3> QED BY <3>2, <3>3, SeqByIndex
  <2> QED BY <2>1, <2>2, TextsAssumption DEF TalkTypes
<1>3. ASSUME NEW t \in UserTexts, Say(t) PROVE TalkTypes'
  <2>1. t \in Over(Char)
    BY <1>3, CharsAre, TextsAssumption
  <2>2. Message("User", t) \in Spoken
    BY <2>1 DEF Message, Spoken
  <2> DEFINE m == Message("User", t)
  <2>3. messages' = Append(messages, m) /\ chat' = chat
    BY <1>3 DEF Say
  <2> HIDE DEF m
  <2>4. Append(messages, m) \in Seq(Spoken)
    BY <2>2, AppendProperties DEF TalkTypes, m
  <2> QED BY <2>3, <2>4 DEF TalkTypes
<1>4. CASE CallChat
  <2> DEFINE asks == <<Message("Assistant", <<>>), Message("Tool", <<"r">>)>>
             says == <<Message("Assistant", Chat.text)>>
  <2>1. /\ Message("Assistant", <<>>) \in Spoken /\ Message("Tool", <<"r">>) \in Spoken
        /\ Message("Assistant", Chat.text) \in Spoken
    BY CharsAre, ChatTextIs DEF Message, Spoken
  <2>2. <<>> \in Seq(Spoken) /\ asks \in Seq(Spoken) /\ says \in Seq(Spoken)
    <3> DEFINE a == Message("Assistant", <<>>)
               b == Message("Tool", <<"r">>)
               c == Message("Assistant", Chat.text)
    <3>1. a \in Spoken /\ b \in Spoken /\ c \in Spoken
      BY <2>1
    <3> HIDE DEF a, b, c
    <3>2. <<>> \in Seq(Spoken) /\ <<a, b>> \in Seq(Spoken) /\ <<c>> \in Seq(Spoken)
      BY <3>1
    <3> QED BY <3>2 DEF a, b, c
  <2>3. /\ messages' = messages \o CASE Chat.error # "None" -> <<>>
                                     [] Chat.calls > 0 -> asks
                                     [] OTHER -> says
        /\ chat' = chat
    BY <1>4 DEF CallChat
  <2> HIDE DEF asks, says
  <2>4. \/ messages' = messages \o <<>>
        \/ messages' = messages \o asks
        \/ messages' = messages \o says
    <3>1. (Chat.calls = 1 => Chat.calls > 0) /\ (Chat.calls = 0 => ~(Chat.calls > 0))
      OBVIOUS
    <3>2. CASE Chat.error # "None"
      <4>1. ~(Chat.calls > 0)
        BY <3>1, <3>2, ChatCalls
      <4> QED BY <2>3, <3>2, <4>1
    <3>3. CASE Chat.error = "None" /\ Chat.calls = 1
      BY <2>3, <3>1, <3>3
    <3>4. CASE Chat.error = "None" /\ Chat.calls = 0
      BY <2>3, <3>1, <3>4
    <3> QED BY <3>2, <3>3, <3>4, ChatCalls
  <2>5. messages' \in Seq(Spoken)
    BY <2>2, <2>4, ConcatProperties DEF TalkTypes
  <2> QED BY <2>3, <2>5 DEF TalkTypes
<1> QED BY <1>1, <1>2, <1>3, <1>4
        DEF ChatNext, chatVars, ChatStream, SendWord, SendDone, ChatThrow

\* In the loop, the words sent and the words to come are those of what Chat
\* answers, and the events have said the words sent; when the call is over the
\* events have said a beginning of it, and all of it if it succeeded.
Sent(sent, all, coming, evs) ==
    /\ sent \in Seq(Over(Char)) /\ all = sent \o coming
    /\ Says(evs) = Joined(sent)
    /\ sent = <<>> <=> evs = <<>>

Speaks(evs) == \E E : evs \in Seq(E) /\ \A x \in E : Part(x) \in Over(Char)

TalkInv ==
    /\ TalkTypes
    /\ words \in Seq(Over(Char))
    /\ Speaks(events)
    /\ chatPc \in {"new", "idle"} => events = <<>>
    /\ returned = "Pending" <=> chatPc # "done"
    /\ chatPc = "words" => \E sent : Sent(sent, Words(Chat.text), words, events)
    /\ chatPc = "done" => IsPrefix(Says(events), Collapsed(Chat.text))
    /\ returned = "None" => /\ Says(events) = Collapsed(Chat.text)
                            /\ Last(events).usage = Chat.usage

LEMMA SaysNone == Says(<<>>) = <<>>
<1>1. Parts(<<>>) = <<>>
  <2>1. 1..Len(<<>>) = {}
    OBVIOUS
  <2> QED BY <2>1 DEF Parts
<1> QED BY <1>1, FlattenEmpty DEF Says

LEMMA SpeaksNone == Speaks(<<>>)
<1> DEFINE E == {}
<1>1. <<>> \in Seq(E) /\ \A x \in E : Part(x) \in Over(Char)
  BY EmptySeq
<1> HIDE DEF E
<1> QED BY <1>1 DEF Speaks

LEMMA SpeaksMore ==
  ASSUME NEW evs, Speaks(evs), NEW ev, Part(ev) \in Over(Char)
  PROVE  /\ Speaks(Append(evs, ev)) /\ Append(evs, ev) # <<>>
         /\ Contract!Last(Append(evs, ev)) = ev
         /\ Says(evs) \in Over(Char) /\ Says(Append(evs, ev)) = Says(evs) \o Part(ev)
<1>1. PICK E : evs \in Seq(E) /\ \A x \in E : Part(x) \in Over(Char)
  BY DEF Speaks
<1>2. Says(evs) \in Over(Char) /\ Says(Append(evs, ev)) = Says(evs) \o Part(ev)
  BY <1>1, SaysGrows
<1>3. /\ Append(evs, ev) \in Seq(E \cup {ev}) /\ Contract!Last(Append(evs, ev)) = ev
      /\ Len(Append(evs, ev)) = Len(evs) + 1 /\ Len(evs) \in Nat
  BY <1>1, OneMore
<1>4. Append(evs, ev) # <<>>
  BY <1>3
<1>5. \A x \in E \cup {ev} : Part(x) \in Over(Char)
  BY <1>1
<1>6. Speaks(Append(evs, ev))
  BY <1>3, <1>5 DEF Speaks
<1> QED BY <1>2, <1>3, <1>4, <1>6

LEMMA NothingFirst == ASSUME NEW S, NEW s \in Seq(S) PROVE IsPrefix(<<>>, s)
<1>1. <<>> \o s = s /\ <<>> \in Seq(S)
  BY ConcatEmptySeq, EmptySeq
<1> QED BY <1>1, PrefixConcat

\* While the words are sent, what was said is the beginning of the text.
LEMMA SentIsPrefix ==
  ASSUME TalkInv, chatPc = "words" PROVE IsPrefix(Says(events), Collapsed(Chat.text))
<1>1. PICK sent : Sent(sent, Words(Chat.text), words, events)
  BY DEF TalkInv
<1> DEFINE text == Chat.text
<1>2. text \in Seq(Char)
  BY ChatTextIs DEF TalkInv, Over
<1>3. /\ sent \in Seq(Over(Char)) /\ words \in Seq(Over(Char))
      /\ Words(text) = sent \o words /\ Says(events) = Joined(sent)
  BY <1>1 DEF Sent, TalkInv
<1> HIDE DEF text
<1>4. Joined(Words(text)) = Collapsed(text)
  BY <1>2, CharsAre, WordsSayText
<1>5. IsPrefix(Joined(sent), Joined(sent \o words))
  BY <1>3, CharsAre, JoinedPrefix
<1> QED BY <1>3, <1>4, <1>5 DEF text

\* The answer does not change while it is streamed.
LEMMA SameAnswer == ASSUME UNCHANGED <<chat, messages>> PROVE Chat' = Chat
  BY DEF Chat, HaveToolResult

LEMMA TalkStreamStep ==
  ASSUME TalkInv, TalkTypes', ChatStream PROVE TalkInv'
<1> DEFINE text == Chat.text
           e == [kind |-> "Error", error |-> Chat.error]
<1>1. /\ Chat' = Chat /\ events = <<>> /\ returned = "Pending"
      /\ words' = IF chat.callback THEN Words(text) ELSE <<>>
  BY SameAnswer DEF ChatStream, TalkInv
<1>2. text \in Seq(Char)
  BY ChatTextIs DEF TalkInv, Over
<1>3. Part(e) = <<>>
  <2>1. e.kind = "Error"
    OBVIOUS
  <2> HIDE DEF e
  <2> QED BY <2>1 DEF Part, Contract!IsDelta
<1>4. text' = text
  BY <1>1
<1> HIDE DEF text, e
<1>5. Words(text) \in Seq(Over(Char)) /\ Collapsed(text) \in Seq(Char)
  BY <1>2, CharsAre, WordsSayText
<1>6. words' \in Seq(Over(Char)) /\ <<>> \in Seq(Over(Char))
  BY <1>1, <1>5, EmptySeq
<1>7. IsPrefix(<<>>, Collapsed(text))
  BY <1>5, NothingFirst
<1>8. CASE ~chat.callback
  <2>1. events' = <<>> /\ chatPc' = "done" /\ returned' = "InvalidArgument"
    BY <1>8 DEF ChatStream
  <2>2. Speaks(events')
    BY <2>1, SpeaksNone
  <2>3. Says(events') = <<>> /\ Collapsed(Chat.text)' = Collapsed(text)
    BY <1>1, <2>1, SaysNone DEF text
  <2> QED BY <1>6, <1>7, <2>1, <2>2, <2>3 DEF TalkInv
<1>9. CASE chat.callback /\ Chat.error # "None"
  <2>1. /\ events' = <<e>> /\ chatPc' = "done" /\ returned' \in {Chat.error, "Thrown"}
        /\ Chat.error \in {"Internal", "InvalidArgument"}
    BY <1>9, ChatErrors DEF ChatStream, e
  <2>2. Speaks(events') /\ Says(events') = <<>>
    <3>1. Part(e) \in Over(Char)
      BY <1>3, CharsAre
    <3>2. Speaks(Append(<<>>, e)) /\ Says(Append(<<>>, e)) = Says(<<>>) \o Part(e)
      BY <3>1, SpeaksMore, SpeaksNone
    <3>3. Append(<<>>, e) = <<e>> /\ <<>> \o <<>> = <<>>
      OBVIOUS
    <3> QED BY <1>3, <2>1, <3>2, <3>3, SaysNone
  <2>4. Collapsed(Chat.text)' = Collapsed(text)
    BY <1>1 DEF text
  <2> QED BY <1>6, <1>7, <2>1, <2>2, <2>4 DEF TalkInv
<1>10. CASE chat.callback /\ Chat.error = "None"
  <2>1. events' = <<>> /\ chatPc' = "words" /\ returned' = "Pending" /\ words' = Words(text)
    BY <1>1, <1>10 DEF ChatStream
  <2>2. Speaks(events')
    BY <2>1, SpeaksNone
  <2>3. <<>> \o words' = words'
    BY <1>6, ConcatEmptySeq
  <2>4. Sent(<<>>, Words(Chat.text)', words', events')
    <3>1. Words(Chat.text)' = words' /\ Says(events') = <<>> /\ Joined(<<>>) = <<>>
      BY <1>1, <2>1, SaysNone, JoinedNone DEF text
    <3> QED BY <1>6, <2>1, <2>3, <3>1 DEF Sent
  <2> QED BY <1>6, <2>1, <2>2, <2>4 DEF TalkInv
<1> QED BY <1>8, <1>9, <1>10

LEMMA TalkWordStep == ASSUME TalkInv, TalkTypes', SendWord PROVE TalkInv'
<1> DEFINE h == Head(words)
           t == Tail(words)
           p == (IF events = <<>> THEN <<>> ELSE <<Blank>>) \o h
           e == [kind |-> "TextDelta", text |-> p]
<1>1. Speaks(events)
  BY DEF TalkInv
<1>2. PICK sent : Sent(sent, Words(Chat.text), words, events)
  BY DEF SendWord, TalkInv
<1>3. /\ chatPc' = "words" /\ returned' = "Pending" /\ Chat' = Chat
      /\ words' = t /\ words # <<>> /\ words \in Seq(Over(Char)) /\ events' = Append(events, e)
  BY SameAnswer DEF SendWord, TalkInv
<1>4. h \in Over(Char) /\ t \in Seq(Over(Char)) /\ words = <<h>> \o t
  <2>1. h \in Over(Char) /\ t \in Seq(Over(Char))
    BY <1>3, HeadTailProperties
  <2>2. words = <<h>> \o t
    BY <1>3
  <2> QED BY <2>1, <2>2
<1>5. p \in Over(Char) /\ <<>> \o h = h
  <2> HIDE DEF h
  <2>1. h \in Seq(Char) /\ <<>> \in Seq(Char) /\ <<Blank>> \in Seq(Char)
    BY <1>4, CharsAre DEF Over
  <2>2. <<>> \o h \in Seq(Char) /\ <<Blank>> \o h \in Seq(Char) /\ <<>> \o h = h
    BY <2>1, ConcatProperties, ConcatEmptySeq
  <2> QED BY <2>2 DEF Over
<1>6. Part(e) = p
  <2>1. e.kind = "TextDelta" /\ e.text = p
    OBVIOUS
  <2> HIDE DEF e, p
  <2> QED BY <2>1 DEF Part, Contract!IsDelta
<1>7. /\ p = IF sent = <<>> THEN h ELSE <<Blank>> \o h
      /\ sent \in Seq(Over(Char))
  BY <1>2, <1>5 DEF Sent
<1> HIDE DEF e, p, h, t
<1> DEFINE more == Append(sent, h)
<1>8. more \in Seq(Over(Char)) /\ more # <<>> /\ Words(Chat.text) = more \o t
  <2>1. more \in Seq(Over(Char)) /\ more # <<>> /\ more = sent \o <<h>>
    BY <1>4, <1>7, AppendIsConcat, AppendProperties
  <2>2. (sent \o <<h>>) \o t = sent \o (<<h>> \o t)
    BY <1>4, <1>7, ConcatAssociative
  <2>3. Words(Chat.text) = sent \o words
    BY <1>2 DEF Sent
  <2> QED BY <1>4, <2>1, <2>2, <2>3
<1>9. Says(events') = Joined(more)
  <2>1. Says(events') = Says(events) \o p
    BY <1>1, <1>3, <1>5, <1>6, SpeaksMore
  <2>2. Says(events) = Joined(sent)
    BY <1>2 DEF Sent
  <2>3. CASE sent # <<>>
    BY <1>4, <1>7, <2>1, <2>2, <2>3, CharsAre, JoinedAppend
  <2>4. CASE sent = <<>>
    <3>1. Joined(more) = h
      BY <1>4, <1>7, <2>4, CharsAre, JoinedAppend
    <3>2. <<>> \o h = h
      BY <1>5
    <3> QED BY <1>7, <2>1, <2>2, <2>4, <3>1, <3>2, JoinedNone
  <2> QED BY <2>3, <2>4
<1> HIDE DEF more
<1>10. Speaks(events') /\ events' # <<>>
  BY <1>1, <1>3, <1>5, <1>6, SpeaksMore
<1>11. Sent(more, Words(Chat.text)', words', events')
  <2>1. Words(Chat.text)' = more \o t /\ words' = t
    BY <1>3, <1>8
  <2> QED BY <1>8, <1>9, <1>10, <2>1 DEF Sent
<1>12. words' \in Seq(Over(Char))
  BY <1>3, <1>4
<1> QED BY <1>3, <1>10, <1>11, <1>12 DEF TalkInv

LEMMA TalkDoneStep == ASSUME TalkInv, TalkTypes', SendDone PROVE TalkInv'
<1> DEFINE e == [kind |-> "Done", usage |-> Chat.usage]
           text == Chat.text
<1>1. Speaks(events)
  BY DEF TalkInv
<1>2. PICK sent : Sent(sent, Words(Chat.text), words, events)
  BY DEF SendDone, TalkInv
<1>3. /\ chatPc' = "done" /\ returned' \in {"None", "Thrown"} /\ Chat' = Chat
      /\ words' = <<>> /\ words = <<>> /\ events' = Append(events, e)
  BY SameAnswer DEF SendDone
<1>4. Part(e) = <<>> /\ e.usage = Chat.usage
  <2>1. e.kind = "Done" /\ e.usage = Chat.usage
    OBVIOUS
  <2> HIDE DEF e
  <2> QED BY <2>1 DEF Part, Contract!IsDelta
<1>5. text \in Seq(Char)
  BY ChatTextIs DEF TalkInv, Over
<1> HIDE DEF e
<1>6. Part(e) \in Over(Char)
  BY <1>4, CharsAre
<1>7. Speaks(events') /\ Contract!Last(events') = e
  BY <1>1, <1>3, <1>6, SpeaksMore
<1>8. Says(events) \in Over(Char) /\ Says(events') = Says(events) \o <<>>
  BY <1>1, <1>3, <1>4, <1>6, SpeaksMore
<1>9. Says(events) = Collapsed(text) /\ Collapsed(text) \in Seq(Char)
  <2>1. sent \o <<>> = sent
    BY <1>2, ConcatEmptySeq DEF Sent
  <2>2. Words(text) = sent /\ Says(events) = Joined(sent)
    BY <1>2, <1>3, <2>1 DEF Sent
  <2> HIDE DEF text
  <2> QED BY <1>5, <2>2, CharsAre, WordsSayText
<1>10. Says(events') = Collapsed(text)
  BY <1>8, <1>9, ConcatEmptySeq DEF Over
<1>11. Collapsed(Chat.text)' = Collapsed(text) /\ Chat.usage' = Chat.usage
  BY <1>3
<1> HIDE DEF text
<1>12. IsPrefix(Collapsed(text), Collapsed(text))
  <2> DEFINE s == Collapsed(text)
  <2>1. s \in Seq(Char)
    BY <1>9
  <2> HIDE DEF s
  <2>2. s \o <<>> = s /\ <<>> \in Seq(Char)
    BY <2>1, ConcatEmptySeq, EmptySeq
  <2>3. IsPrefix(s, s)
    BY <2>1, <2>2, PrefixConcat
  <2> QED BY <2>3 DEF s
<1>13. Last(events').usage = Chat.usage
  BY <1>4, <1>7 DEF Last, Contract!Last
<1>14. words' \in Seq(Over(Char))
  BY <1>3, EmptySeq
<1> QED BY <1>3, <1>7, <1>10, <1>11, <1>12, <1>13, <1>14 DEF TalkInv

LEMMA TalkThrowStep == ASSUME TalkInv, TalkTypes', ChatThrow PROVE TalkInv'
<1>1. /\ chatPc = "words" /\ chatPc' = "done" /\ returned' = "Thrown" /\ Chat' = Chat
      /\ UNCHANGED <<words, events>>
  BY SameAnswer DEF ChatThrow
<1>2. IsPrefix(Says(events), Collapsed(Chat.text))'
  BY <1>1, SentIsPrefix
<1> QED BY <1>1, <1>2 DEF TalkInv

LEMMA TalkStep == ASSUME TalkInv, [ChatNext]_chatVars PROVE TalkInv'
<1>1. TalkTypes'
  BY TalkTypesStep DEF TalkInv
<1>2. ASSUME UNCHANGED <<words, events, returned>>, chatPc \in {"new", "idle"},
             chatPc' = "idle"
      PROVE  TalkInv'
  BY <1>1, <1>2 DEF TalkInv
<1>3. CASE UNCHANGED chatVars
  <2>1. Chat' = Chat
    BY <1>3, SameAnswer DEF chatVars
  <2> QED BY <1>1, <1>3, <2>1 DEF TalkInv, chatVars
<1>4. CASE CreateTextLLM
  BY <1>2, <1>4 DEF CreateTextLLM
<1>5. CASE CallChat
  BY <1>2, <1>5 DEF CallChat
<1>6. CASE \E t \in UserTexts : Say(t)
  BY <1>2, <1>6 DEF Say
<1>7. CASE ChatStream
  BY <1>1, <1>7, TalkStreamStep
<1> QED BY <1>1, <1>3, <1>4, <1>5, <1>6, <1>7, TalkWordStep, TalkDoneStep, TalkThrowStep
        DEF ChatNext

\* Whatever the user has said and the instance replies, the deltas say the
\* answer of Chat as far as they go, and all of it when the call succeeds.
THEOREM StreamMatchesChatAlways == ChatSpec => []StreamMatchesChat
<1>1. ChatInit => TalkInv
  <2> SUFFICES ASSUME ChatInit PROVE TalkInv
    OBVIOUS
  <2>1. /\ messages = <<>> /\ chat.reply = <<>> /\ words = <<>> /\ events = <<>>
        /\ chatPc = "new" /\ returned = "Pending"
    BY DEF ChatInit
  <2>2. messages \in Seq(Spoken) /\ chat.reply \in Seq(Over(Char)) /\ words \in Seq(Over(Char))
    BY <2>1, EmptySeq
  <2> QED BY <2>1, <2>2, SpeaksNone DEF TalkInv, TalkTypes
<1>2. TalkInv /\ [ChatNext]_chatVars => TalkInv'
  BY TalkStep
<1>3. TalkInv => StreamMatchesChat
  <2> SUFFICES ASSUME TalkInv PROVE StreamMatchesChat
    OBVIOUS
  <2>1. chatPc \in {"words", "done"} => IsPrefix(Says(events), Collapsed(Chat.text))
    BY SentIsPrefix DEF TalkInv
  <2>2. returned = "None" => /\ Says(events) = Collapsed(Chat.text)
                             /\ Last(events).usage = Chat.usage
    BY DEF TalkInv
  <2>3. DOMAIN events = 1..Len(events)
    BY LenProperties DEF TalkInv, Speaks
  <2> DEFINE part(ev) == IF Contract!IsDelta(ev) THEN ev.text ELSE <<>>
             streamed == FlattenSeq([i \in DOMAIN events |-> part(events[i])])
  <2>4. streamed = Says(events)
    BY <2>3 DEF Says, Parts, Part
  <2> HIDE DEF streamed
  <2>5. /\ chatPc \in {"words", "done"} => IsPrefix(streamed, Collapsed(Chat.text))
        /\ returned = "None" => /\ streamed = Collapsed(Chat.text)
                                /\ Last(events).usage = Chat.usage
    BY <2>1, <2>2, <2>4
  <2> QED BY <2>5 DEF StreamMatchesChat, streamed
<1> QED BY <1>1, <1>2, <1>3, PTL DEF ChatSpec

----------------------------------------------------------------------------
(***************************************************************************)
(* The glossary: what an entry's search has made of the text so far is the *)
(* text with the term replaced as far as it was searched, and from there   *)
(* on the text itself.                                                     *)
(***************************************************************************)

\* The term stands in the text at p.
Occurs(text, term, p) == IsPrefix(term, SubSeq(text, p, Len(text)))

\* What the text from p on becomes, when f is what the text behind it does.
TurnsInto(f, text, term, by, p) ==
  IF p > Len(text) THEN <<>>
  ELSE IF Occurs(text, term, p) THEN by \o f[p + Len(term)]
  ELSE <<text[p]>> \o f[p + 1]

Substituting(f, text, term, by, k) ==
  f = [p \in k..(Len(text) + 1) |-> TurnsInto(f, text, term, by, p)]

Became(text, term, by) == CHOOSE f : Substituting(f, text, term, by, 1)

LEMMA SubstitutedIs ==
  ASSUME NEW text, NEW term, NEW by PROVE Substituted(text, term, by) = Became(text, term, by)[1]
  BY DEF Substituted, Became, Substituting, TurnsInto, Occurs

\* What the text is from p on.
LEMMA TailIs ==
  ASSUME NEW S, NEW text \in Seq(S), NEW p \in 1..(Len(text) + 1)
  PROVE  /\ SubSeq(text, p, Len(text)) \in Seq(S)
         /\ Len(SubSeq(text, p, Len(text))) = Len(text) + 1 - p
         /\ \A i \in 1..(Len(text) + 1 - p) : SubSeq(text, p, Len(text))[i] = text[p + i - 1]
<1> DEFINE n == Len(text)
<1>1. n \in Nat /\ \A i \in 1..n : text[i] \in S
  BY LenProperties, ElementOfSeq
<1>2. p \in 1..(n + 1)
  OBVIOUS
<1> HIDE DEF n
<1>3. \A i \in p..n : text[i] \in S
  BY <1>1, <1>2
<1>4. /\ SubSeq(text, p, n) \in Seq(S) /\ Len(SubSeq(text, p, n)) = IF p <= n THEN n - p + 1 ELSE 0
      /\ \A i \in 1..(n - p + 1) : SubSeq(text, p, n)[i] = text[p + i - 1]
  BY <1>1, <1>2, <1>3, SubSeqProperties
<1>5. n + 1 - p = n - p + 1 /\ (~(p <= n) => n - p + 1 = 0)
  BY <1>1, <1>2
<1>6. Len(SubSeq(text, p, n)) = n + 1 - p
  BY <1>4, <1>5
<1> QED BY <1>4, <1>5, <1>6 DEF n

LEMMA OccursFits ==
  ASSUME NEW S, NEW text \in Seq(S), NEW term \in Seq(S), NEW p \in 1..(Len(text) + 1),
         Occurs(text, term, p)
  PROVE  p + Len(term) \in p..(Len(text) + 1)
<1>1. Len(term) <= Len(SubSeq(text, p, Len(text))) /\ Len(term) \in Nat /\ Len(text) \in Nat
  BY LenProperties DEF Occurs, IsPrefix
<1>2. Len(SubSeq(text, p, Len(text))) = Len(text) + 1 - p
  BY TailIs
<1> QED BY <1>1, <1>2

\* It exists, from the end of the text backwards.
LEMMA SubstitutingExists ==
  ASSUME NEW S, NEW text \in Seq(S), NEW term \in Seq(S), term # <<>>, NEW by
  PROVE  \E f : Substituting(f, text, term, by, 1)
<1> DEFINE n == Len(text)
           m == Len(term)
           T == {k \in Nat : k <= n => \E f : Substituting(f, text, term, by, n + 1 - k)}
<1>1. n \in Nat /\ m \in Nat /\ m # 0
  BY LenProperties, EmptySeq
<1>2. \A p \in 1..(n + 1) : Occurs(text, term, p) => p + m \in p..(n + 1)
  BY OccursFits
<1> HIDE DEF m
<1>3. 0 \in T
  <2> DEFINE f == [p \in (n + 1)..(n + 1) |-> <<>>]
  <2>1. f = [p \in (n + 1)..(n + 1) |-> TurnsInto(f, text, term, by, p)]
    <3>1. \A p \in (n + 1)..(n + 1) : TurnsInto(f, text, term, by, p) = <<>>
      <4> HIDE DEF f
      <4> QED BY <1>1 DEF TurnsInto
    <3> QED BY <3>1
  <2>2. n + 1 - 0 = n + 1
    BY <1>1
  <2> HIDE DEF f
  <2>3. Substituting(f, text, term, by, n + 1 - 0)
    BY <2>1, <2>2 DEF Substituting
  <2> QED BY <2>3
<1>4. \A k \in Nat : k \in T => k + 1 \in T
  <2> SUFFICES ASSUME NEW k \in Nat, k + 1 <= n, NEW f, Substituting(f, text, term, by, n + 1 - k)
               PROVE  \E h : Substituting(h, text, term, by, n + 1 - (k + 1))
    BY <1>1
  <2> HIDE DEF n
  <2>a. n = Len(text)
    BY DEF n
  <2> DEFINE q == n + 1 - k
             h == [p \in (q - 1)..(n + 1) |-> IF p = q - 1 THEN TurnsInto(f, text, term, by, p) ELSE f[p]]
  <2>1. q \in 2..(n + 1) /\ n + 1 - (k + 1) = q - 1
    BY <1>1
  <2>2. f = [p \in q..(n + 1) |-> TurnsInto(f, text, term, by, p)]
    BY <2>a DEF Substituting
  <2> HIDE DEF q
  <2>3. ASSUME NEW p \in (q - 1)..(n + 1)
        PROVE  TurnsInto(h, text, term, by, p) = TurnsInto(f, text, term, by, p)
    <3>1. CASE p > n
      BY <3>1, <2>a DEF TurnsInto
    <3>2. CASE p <= n
      <4>1. p + 1 \in q..(n + 1) /\ p + 1 # q - 1
        BY <2>1, <3>2, <1>1
      <4>2. h[p + 1] = f[p + 1]
        BY <4>1, <2>1
      <4>3. Occurs(text, term, p) => p + m \in q..(n + 1) /\ p + m # q - 1
        BY <2>1, <1>1, <1>2
      <4>4. Occurs(text, term, p) => h[p + m] = f[p + m]
        BY <4>3, <2>1
      <4> HIDE DEF h
      <4> QED BY <4>2, <4>4 DEF TurnsInto, m
    <3> QED BY <3>1, <3>2, <1>1, <2>1
  <2>4. \A p \in (q - 1)..(n + 1) : h[p] = TurnsInto(f, text, term, by, p)
    <3> TAKE p \in (q - 1)..(n + 1)
    <3>1. CASE p = q - 1
      BY <3>1
    <3>2. CASE p # q - 1
      <4>1. p \in q..(n + 1)
        BY <3>2, <2>1, <1>1
      <4>2. f[p] = TurnsInto(f, text, term, by, p)
        BY <4>1, <2>2
      <4> QED BY <3>2, <4>2
    <3> QED BY <3>1, <3>2
  <2>5. h = [p \in (q - 1)..(n + 1) |-> h[p]]
    OBVIOUS
  <2> HIDE DEF h
  <2>6. h = [p \in (q - 1)..(n + 1) |-> TurnsInto(h, text, term, by, p)]
    BY <2>3, <2>4, <2>5
  <2> QED BY <2>1, <2>6, <2>a DEF Substituting
<1>5. \A k \in Nat : k \in T
  <2> HIDE DEF T
  <2> QED BY <1>3, <1>4, SetInduction
<1>6. \E f : Substituting(f, text, term, by, n + 1 - n)
  BY <1>1, <1>5
<1>7. n + 1 - n = 1
  BY <1>1
<1> QED BY <1>6, <1>7

LEMMA BecameAt ==
  ASSUME NEW S, NEW text \in Seq(S), NEW term \in Seq(S), term # <<>>, NEW by,
         NEW p \in 1..(Len(text) + 1)
  PROVE  Became(text, term, by)[p] = TurnsInto(Became(text, term, by), text, term, by, p)
<1> DEFINE f == Became(text, term, by)
<1>1. Substituting(f, text, term, by, 1)
  BY SubstitutingExists DEF Became
<1> HIDE DEF f
<1>2. f = [r \in 1..(Len(text) + 1) |-> TurnsInto(f, text, term, by, r)]
  BY <1>1 DEF Substituting
<1>3. f[p] = TurnsInto(f, text, term, by, p)
  BY <1>2
<1> QED BY <1>3 DEF f

LEMMA BecameType ==
  ASSUME NEW S, NEW text \in Seq(S), NEW term \in Seq(S), term # <<>>, NEW by \in Seq(S)
  PROVE  \A p \in 1..(Len(text) + 1) : Became(text, term, by)[p] \in Seq(S)
<1> DEFINE f == Became(text, term, by)
           n == Len(text)
           m == Len(term)
           T == {k \in Nat : \A p \in 1..(n + 1) : n + 1 - p <= k => f[p] \in Seq(S)}
<1>1. n \in Nat /\ m \in Nat /\ m # 0
  BY LenProperties, EmptySeq
<1>2. \A p \in 1..(n + 1) : Occurs(text, term, p) => p + m \in p..(n + 1)
  BY OccursFits
<1>3. \A p \in 1..(n + 1) : f[p] = IF p > n THEN <<>>
                                   ELSE IF Occurs(text, term, p) THEN by \o f[p + m]
                                   ELSE <<text[p]>> \o f[p + 1]
  BY BecameAt DEF TurnsInto
<1>4. <<>> \in Seq(S) /\ \A p \in 1..n : <<text[p]>> \in Seq(S)
  BY ElementOfSeq, EmptySeq
<1> HIDE DEF f, n, m
<1>5. 0 \in T
  <2>1. \A p \in 1..(n + 1) : n + 1 - p <= 0 => p > n
    BY <1>1
  <2> QED BY <2>1, <1>3, <1>4
<1>6. \A k \in Nat : k \in T => k + 1 \in T
  <2> SUFFICES ASSUME NEW k \in Nat, k \in T, NEW p \in 1..(n + 1), n + 1 - p <= k + 1
               PROVE  f[p] \in Seq(S)
    OBVIOUS
  <2>1. CASE p > n
    BY <2>1, <1>3, <1>4
  <2>2. CASE p <= n /\ Occurs(text, term, p)
    <3>1. p + m \in 1..(n + 1) /\ n + 1 - (p + m) <= k
      BY <2>2, <1>1, <1>2
    <3>2. f[p + m] \in Seq(S)
      BY <3>1
    <3>a. ~(p > n)
      BY <2>2, <1>1
    <3>3. f[p] = by \o f[p + m]
      BY <2>2, <3>a, <1>3, Zenon
    <3> QED BY <3>2, <3>3, ConcatProperties
  <2>3. CASE p <= n /\ ~Occurs(text, term, p)
    <3>1. p \in 1..n /\ p + 1 \in 1..(n + 1) /\ n + 1 - (p + 1) <= k
      BY <2>3, <1>1
    <3>2. f[p + 1] \in Seq(S)
      BY <3>1
    <3>a. ~(p > n)
      BY <2>3, <1>1
    <3>3. f[p] = <<text[p]>> \o f[p + 1]
      BY <2>3, <3>a, <1>3, Zenon
    <3> QED BY <3>1, <3>2, <3>3, <1>4, ConcatProperties
  <2> QED BY <1>1, <2>1, <2>2, <2>3
<1>7. \A k \in Nat : k \in T
  <2> HIDE DEF T
  <2> QED BY <1>5, <1>6, SetInduction
<1>8. \A p \in 1..(n + 1) : n + 1 - p \in Nat
  BY <1>1
<1>9. \A p \in 1..(n + 1) : f[p] \in Seq(S)
  BY <1>7, <1>8
<1> QED BY <1>9 DEF f, n

\* From at on the result has the characters the text has from k on.
SameFrom(result, at, text, k) == \A i \in 0..(Len(text) - k) : result[at + i] = text[k + i]

\* The end of an end of a text is an end of the text.
LEMMA TailOfTail ==
  ASSUME NEW S, NEW text \in Seq(S), NEW k \in 1..(Len(text) + 1),
         NEW other \in Seq(S), NEW pos0 \in 1..(Len(other) + 1),
         SubSeq(other, pos0, Len(other)) = SubSeq(text, k, Len(text))
  PROVE  /\ Len(other) + 1 - pos0 = Len(text) + 1 - k
         /\ \A d \in 0..(Len(text) + 1 - k) :
               SubSeq(other, pos0 + d, Len(other)) = SubSeq(text, k + d, Len(text))
         /\ SameFrom(other, pos0, text, k)
<1> DEFINE n == Len(text)
           l == Len(other)
<1>1. n \in Nat /\ l \in Nat /\ k \in 1..(n + 1) /\ pos0 \in 1..(l + 1)
  BY LenProperties
<1>2. /\ Len(SubSeq(text, k, n)) = n + 1 - k
      /\ \A i \in 1..(n + 1 - k) : SubSeq(text, k, n)[i] = text[k + i - 1]
  BY TailIs
<1>3. /\ Len(SubSeq(other, pos0, l)) = l + 1 - pos0
      /\ \A i \in 1..(l + 1 - pos0) : SubSeq(other, pos0, l)[i] = other[pos0 + i - 1]
  BY TailIs
<1>a. SubSeq(other, pos0, l) = SubSeq(text, k, n)
  OBVIOUS
<1>4. l + 1 - pos0 = n + 1 - k
  BY <1>2, <1>3, <1>a
<1>b. \A p \in 1..(n + 1) : /\ SubSeq(text, p, n) \in Seq(S) /\ Len(SubSeq(text, p, n)) = n + 1 - p
                            /\ \A i \in 1..(n + 1 - p) : SubSeq(text, p, n)[i] = text[p + i - 1]
  BY TailIs
<1>c. \A p \in 1..(l + 1) : /\ SubSeq(other, p, l) \in Seq(S) /\ Len(SubSeq(other, p, l)) = l + 1 - p
                            /\ \A i \in 1..(l + 1 - p) : SubSeq(other, p, l)[i] = other[p + i - 1]
  BY TailIs
<1> HIDE DEF n, l
<1>5. ASSUME NEW i \in 0..(n - k) PROVE other[pos0 + i] = text[k + i]
  <2>1. i + 1 \in 1..(n + 1 - k) /\ pos0 + (i + 1) - 1 = pos0 + i /\ k + (i + 1) - 1 = k + i
    BY <1>1
  <2>2. SubSeq(text, k, n)[i + 1] = text[k + i]
    BY <2>1, <1>2
  <2>3. SubSeq(other, pos0, l)[i + 1] = other[pos0 + i]
    BY <2>1, <1>3, <1>4
  <2> QED BY <2>2, <2>3, <1>a
<1>6. ASSUME NEW d \in 0..(n + 1 - k)
      PROVE  SubSeq(other, pos0 + d, l) = SubSeq(text, k + d, n)
  <2>1. k + d \in 1..(n + 1) /\ pos0 + d \in 1..(l + 1) /\ l + 1 - (pos0 + d) = n + 1 - (k + d)
    BY <1>1, <1>4
  <2> DEFINE a == SubSeq(text, k + d, n)
             b == SubSeq(other, pos0 + d, l)
  <2>2. /\ a \in Seq(S) /\ Len(a) = n + 1 - (k + d)
        /\ \A i \in 1..(n + 1 - (k + d)) : a[i] = text[k + d + i - 1]
    BY <2>1, <1>b
  <2>3. /\ b \in Seq(S) /\ Len(b) = n + 1 - (k + d)
        /\ \A i \in 1..(n + 1 - (k + d)) : b[i] = other[pos0 + d + i - 1]
    BY <2>1, <1>c
  <2>4. \A i \in 1..(n + 1 - (k + d)) : a[i] = b[i]
    <3> TAKE i \in 1..(n + 1 - (k + d))
    <3>1. /\ d + i - 1 \in 0..(n - k)
          /\ pos0 + (d + i - 1) = pos0 + d + i - 1 /\ k + (d + i - 1) = k + d + i - 1
      BY <1>1
    <3>2. other[pos0 + d + i - 1] = text[k + d + i - 1]
      BY <3>1, <1>5
    <3> HIDE DEF a, b
    <3> QED BY <2>2, <2>3, <3>2
  <2> HIDE DEF a, b
  <2>5. a = b
    BY <2>2, <2>3, <2>4, SeqEqual
  <2> QED BY <2>5 DEF a, b
<1> QED BY <1>4, <1>5, <1>6 DEF n, l, SameFrom

\* Between k and r the text becomes itself.
SameUpTo(text, term, by, k, r) ==
  Became(text, term, by)[k] = SubSeq(text, k, r - 1) \o Became(text, term, by)[r]

\* It does where the term does not stand.
LEMMA Skipped ==
  ASSUME NEW S, NEW text \in Seq(S), NEW term \in Seq(S), term # <<>>, NEW by \in Seq(S),
         NEW k \in 1..(Len(text) + 1), NEW r \in k..(Len(text) + 1),
         \A q \in k..(r - 1) : ~Occurs(text, term, q)
  PROVE  SubSeq(text, k, r - 1) \in Seq(S) /\ SameUpTo(text, term, by, k, r)
<1> DEFINE f == Became(text, term, by)
           n == Len(text)
           e == r - k
           T == {d \in Nat : d <= e => /\ SubSeq(text, k, k + d - 1) \in Seq(S)
                                       /\ f[k] = SubSeq(text, k, k + d - 1) \o f[k + d]}
<1>1. /\ n \in Nat /\ k \in 1..(n + 1) /\ e \in Nat /\ k + e <= n + 1
      /\ k + e - 1 = r - 1 /\ k + e = r
  BY LenProperties
<1>2. \A p \in 1..(n + 1) : f[p] \in Seq(S)
  BY BecameType
<1>3. \A p \in 1..n : ~Occurs(text, term, p) => f[p] = <<text[p]>> \o f[p + 1]
  <2> SUFFICES ASSUME NEW p \in 1..n, ~Occurs(text, term, p)
               PROVE  f[p] = <<text[p]>> \o f[p + 1]
    OBVIOUS
  <2>1. p \in 1..(n + 1) /\ ~(p > n)
    BY <1>1
  <2>2. f[p] = TurnsInto(f, text, term, by, p)
    BY <2>1, BecameAt
  <2> HIDE DEF f
  <2>3. TurnsInto(f, text, term, by, p) = <<text[p]>> \o f[p + 1]
    BY <2>1, Zenon DEF TurnsInto
  <2> QED BY <2>2, <2>3
<1>a. \A j \in 1..n : text[j] \in S
  BY ElementOfSeq
<1>4. ASSUME NEW d \in 0..(n + 1 - k) PROVE SubSeq(text, k, k + d - 1) \in Seq(S)
  <2>1. \A j \in k..(k + d - 1) : text[j] \in S
    BY <1>1, <1>a
  <2> QED BY <1>1, <2>1, SubSeqProperties
<1>5. \A d \in 1..(n + 1 - k) : SubSeq(text, k, k + d - 1) = SubSeq(text, k, k + d - 2) \o <<text[k + d - 1]>>
  <2> TAKE d \in 1..(n + 1 - k)
  <2>1. k \in 1..n /\ k + d - 1 \in k..n /\ (k + d - 1) - 1 = k + d - 2
    BY <1>1
  <2>2. SubSeq(text, k, k + d - 1) = SubSeq(text, k, (k + d - 1) - 1) \o <<text[k + d - 1]>>
    BY <2>1, SubSeqRecursiveSecond
  <2> QED BY <2>1, <2>2
<1>6. \A q \in k..(k + e - 1) : ~Occurs(text, term, q)
  BY <1>1
<1>7. SubSeq(text, k, k + 0 - 1) = <<>>
  BY <1>1, SubSeqEmpty
<1> HIDE DEF f, n, e
<1>8. 0 \in T
  <2>1. f[k] \in Seq(S) /\ k + 0 = k
    BY <1>1, <1>2
  <2>2. <<>> \in Seq(S) /\ <<>> \o f[k] = f[k]
    BY <2>1, ConcatEmptySeq
  <2> QED BY <1>7, <2>1, <2>2
<1>9. \A d \in Nat : d \in T => d + 1 \in T
  <2> SUFFICES ASSUME NEW d \in Nat, d \in T, d + 1 <= e
               PROVE  /\ SubSeq(text, k, k + (d + 1) - 1) \in Seq(S)
                      /\ f[k] = SubSeq(text, k, k + (d + 1) - 1) \o f[k + (d + 1)]
    <3>1. \A d \in Nat : d + 1 \in Nat
      OBVIOUS
    <3> QED BY <3>1, Zenon
  <2>1. /\ d <= e /\ d + 1 \in 0..(n + 1 - k) /\ d + 1 \in 1..(n + 1 - k)
        /\ k + d \in k..(k + e - 1) /\ k + d \in 1..n
        /\ k + (d + 1) - 1 = k + d /\ k + (d + 1) - 2 = k + d - 1 /\ k + (d + 1) = k + d + 1
        /\ k + d + 1 \in 1..(n + 1)
    BY <1>1
  <2> DEFINE done == SubSeq(text, k, k + d - 1)
             x == text[k + d]
  <2>2. done \in Seq(S) /\ f[k] = done \o f[k + d]
    BY <2>1
  <2>3. f[k + d] = <<x>> \o f[k + d + 1]
    BY <2>1, <1>3, <1>6
  <2>4. SubSeq(text, k, k + d) = done \o <<x>>
    BY <2>1, <1>5
  <2>5. <<x>> \in Seq(S) /\ f[k + d + 1] \in Seq(S)
    BY <2>1, <1>2, <1>a
  <2>6. SubSeq(text, k, k + d) \in Seq(S)
    BY <2>1, <1>4
  <2> HIDE DEF done, x
  <2>7. done \o (<<x>> \o f[k + d + 1]) = (done \o <<x>>) \o f[k + d + 1]
    <3>1. \A u, v, w \in Seq(S) : (u \o v) \o w = u \o (v \o w)
      BY ConcatAssociative
    <3> QED BY <2>2, <2>5, <3>1, Zenon
  <2> QED BY <2>1, <2>2, <2>3, <2>4, <2>6, <2>7
<1>10. \A d \in Nat : d \in T
  <2> HIDE DEF T
  <2> QED BY <1>8, <1>9, SetInduction
<1>11. e \in T
  <2> HIDE DEF T
  <2> QED BY <1>1, <1>10
<1>12. e <= e
  BY <1>1
<1>13. SubSeq(text, k, k + e - 1) \in Seq(S) /\ f[k] = SubSeq(text, k, k + e - 1) \o f[k + e]
  BY <1>11, <1>12, Zenon
<1> QED BY <1>1, <1>13 DEF f, SameUpTo

\* Two texts one behind the other, taken apart again.
LEMMA TakenApart ==
  ASSUME NEW S, NEW s \in Seq(S), NEW t \in Seq(S)
  PROVE  /\ SubSeq(s \o t, 1, Len(s)) = s
         /\ SubSeq(s \o t, Len(s) + 1, Len(s \o t)) = t
<1> DEFINE m == Len(s)
           l == Len(t)
           u == s \o t
<1>1. /\ m \in Nat /\ l \in Nat /\ u \in Seq(S) /\ Len(u) = m + l
      /\ \A i \in 1..m : u[i] = s[i] /\ u[i] \in S
      /\ \A i \in 1..l : u[m + i] = t[i] /\ u[m + i] \in S
  <2>1. m \in Nat /\ l \in Nat
    BY LenProperties
  <2>2. u \in Seq(S) /\ Len(u) = m + l /\ \A i \in 1..m : u[i] = s[i]
    BY ConcatProperties
  <2>3. \A i \in 1..l : u[m + i] = t[i]
    <3> TAKE i \in 1..l
    <3>1. u[m + i] = IF m + i <= m THEN s[m + i] ELSE t[m + i - m]
      <4>1. m + i \in 1..(m + l)
        BY <2>1
      <4> QED BY <4>1, ConcatProperties
    <3>2. ~(m + i <= m) /\ m + i - m = i
      BY <2>1
    <3> QED BY <3>1, <3>2
  <2>4. \A i \in 1..m : s[i] \in S
    BY ElementOfSeq
  <2>5. \A i \in 1..l : t[i] \in S
    BY ElementOfSeq
  <2> HIDE DEF u, m, l
  <2> QED BY <2>1, <2>2, <2>3, <2>4, <2>5
<1>2. s \in Seq(S) /\ t \in Seq(S) /\ Len(s) = m /\ Len(t) = l
  OBVIOUS
<1> HIDE DEF m, l, u
<1>3. SubSeq(u, 1, m) = s
  <2>1. \A i \in 1..m : u[i] \in S
    BY <1>1
  <2>2. /\ SubSeq(u, 1, m) \in Seq(S) /\ Len(SubSeq(u, 1, m)) = IF 1 <= m THEN m - 1 + 1 ELSE 0
        /\ \A i \in 1..(m - 1 + 1) : SubSeq(u, 1, m)[i] = u[1 + i - 1]
    BY <1>1, <2>1, SubSeqProperties
  <2>3. m - 1 + 1 = m /\ \A i \in 1..m : 1 + i - 1 = i
    BY <1>1
  <2>4. Len(SubSeq(u, 1, m)) = m
    BY <2>2, <2>3, <1>1
  <2>5. \A i \in 1..m : SubSeq(u, 1, m)[i] = s[i]
    BY <1>1, <2>2, <2>3
  <2> QED BY <1>2, <2>2, <2>4, <2>5, SeqEqual
<1>4. SubSeq(u, m + 1, Len(u)) = t
  <2>1. m + 1 \in 1..(Len(u) + 1) /\ Len(u) + 1 - (m + 1) = l
    BY <1>1
  <2>2. /\ SubSeq(u, m + 1, Len(u)) \in Seq(S)
        /\ Len(SubSeq(u, m + 1, Len(u))) = Len(u) + 1 - (m + 1)
        /\ \A i \in 1..(Len(u) + 1 - (m + 1)) : SubSeq(u, m + 1, Len(u))[i] = u[m + 1 + i - 1]
    BY <1>1, <2>1, TailIs
  <2>3. \A i \in 1..l : SubSeq(u, m + 1, Len(u))[i] = t[i]
    <3> TAKE i \in 1..l
    <3>1. m + 1 + i - 1 = m + i
      BY <1>1
    <3> QED BY <3>1, <2>1, <2>2, <1>1
  <2>4. Len(SubSeq(u, m + 1, Len(u))) = Len(t)
    BY <2>1, <2>2, <1>2
  <2> HIDE DEF u
  <2> QED BY <1>2, <2>2, <2>3, <2>4, SeqEqual
<1> QED BY <1>3, <1>4 DEF u, m

\* The text has been searched up to k and out up to where the search goes on:
\* behind them they are the same, and before it out is what the text became.
Carried(text, term, by, result, at, k) ==
  /\ k \in 1..(Len(text) + 1) /\ at \in 1..(Len(result) + 1)
  /\ SubSeq(result, at, Len(result)) = SubSeq(text, k, Len(text))
  /\ Became(text, term, by)[1] = SubSeq(result, 1, at - 1) \o Became(text, term, by)[k]

LEMMA CarriedAtStart ==
  ASSUME NEW S, NEW text \in Seq(S), NEW term \in Seq(S), term # <<>>, NEW by \in Seq(S)
  PROVE  Carried(text, term, by, text, 1, 1)
<1>1. Len(text) \in Nat
  BY LenProperties
<1>2. 1 \in 1..(Len(text) + 1)
  BY <1>1
<1>3. Became(text, term, by)[1] \in Seq(S)
  BY <1>2, BecameType
<1>4. SubSeq(text, 1, 1 - 1) = <<>>
  BY SubSeqEmpty
<1>5. <<>> \o Became(text, term, by)[1] = Became(text, term, by)[1]
  BY <1>3, ConcatEmptySeq
<1> QED BY <1>2, <1>4, <1>5 DEF Carried

Alike(text, term, result, at, k) ==
  /\ Len(result) + 1 - at = Len(text) + 1 - k
  /\ Len(text) + 1 - k \in Nat
  /\ \A d \in 0..(Len(text) + 1 - k) :
        /\ SubSeq(result, at + d, Len(result)) = SubSeq(text, k + d, Len(text))
        /\ Occurs(result, term, at + d) <=> Occurs(text, term, k + d)
  /\ SameFrom(result, at, text, k)

\* What stands in the result behind the search stands in the text as far behind.
LEMMA OccursAlike ==
  ASSUME NEW S, NEW text \in Seq(S), NEW term \in Seq(S), NEW by, NEW result \in Seq(S),
         NEW at, NEW k, Carried(text, term, by, result, at, k)
  PROVE  Alike(text, term, result, at, k)
<1>1. /\ k \in 1..(Len(text) + 1) /\ at \in 1..(Len(result) + 1)
      /\ SubSeq(result, at, Len(result)) = SubSeq(text, k, Len(text))
  BY DEF Carried
<1>2. /\ Len(result) + 1 - at = Len(text) + 1 - k
      /\ \A d \in 0..(Len(text) + 1 - k) :
            SubSeq(result, at + d, Len(result)) = SubSeq(text, k + d, Len(text))
      /\ SameFrom(result, at, text, k)
  BY <1>1, TailOfTail
<1>3. Len(text) \in Nat
  BY LenProperties
<1>4. Len(text) + 1 - k \in Nat
  BY <1>1, <1>3
<1>5. \A d \in 0..(Len(text) + 1 - k) : Occurs(result, term, at + d) <=> Occurs(text, term, k + d)
  BY <1>2 DEF Occurs
<1> QED BY <1>2, <1>4, <1>5 DEF Alike

\* Where the term stands no more, the result is what the text became.
LEMMA CarriedToEnd ==
  ASSUME NEW S, NEW text \in Seq(S), NEW term \in Seq(S), term # <<>>, NEW by \in Seq(S),
         NEW result \in Seq(S), NEW at, NEW k, Carried(text, term, by, result, at, k),
         \A p \in at..(Len(result) + 1) : ~Occurs(result, term, p)
  PROVE  result = Became(text, term, by)[1]
<1> DEFINE n == Len(text)
           l == Len(result)
           e == n + 1 - k
           f == Became(text, term, by)
<1>1. /\ n \in Nat /\ l \in Nat /\ k \in 1..(n + 1) /\ at \in 1..(l + 1)
      /\ SubSeq(result, at, l) = SubSeq(text, k, n)
      /\ f[1] = SubSeq(result, 1, at - 1) \o f[k]
  BY LenProperties DEF Carried
<1>2. /\ l + 1 - at = e /\ e \in Nat
      /\ \A d \in 0..e : Occurs(result, term, at + d) <=> Occurs(text, term, k + d)
  <2>1. Alike(text, term, result, at, k)
    BY OccursAlike
  <2> QED BY <2>1 DEF Alike
<1>3. \A p \in at..(l + 1) : ~Occurs(result, term, p)
  OBVIOUS
<1>4. \A q \in k..(k + e - 1) : ~Occurs(text, term, q)
  <2> HIDE DEF n, l
  <2> TAKE q \in k..(k + e - 1)
  <2>1. q - k \in 0..e /\ k + (q - k) = q /\ at + (q - k) \in at..(l + 1)
    BY <1>1, <1>2
  <2> QED BY <2>1, <1>2, <1>3
<1>7. k + e - 1 = n /\ (n + 1) - 1 = n /\ n + 1 \in 1..(n + 1) /\ n + 1 > n
  BY <1>1
<1>6. /\ SubSeq(text, k, (n + 1) - 1) \in Seq(S)
      /\ f[k] = SubSeq(text, k, (n + 1) - 1) \o f[n + 1]
  <2>1. k \in 1..(Len(text) + 1) /\ n + 1 \in k..(Len(text) + 1)
    BY <1>1
  <2>2. \A q \in k..((n + 1) - 1) : ~Occurs(text, term, q)
    BY <1>4, <1>7
  <2> DEFINE r == n + 1
  <2>3. r \in k..(Len(text) + 1) /\ \A q \in k..(r - 1) : ~Occurs(text, term, q)
    BY <2>1, <2>2
  <2> HIDE DEF n, r, f
  <2>4. SubSeq(text, k, r - 1) \in Seq(S) /\ SameUpTo(text, term, by, k, r)
    BY <2>1, <2>3, Skipped
  <2> QED BY <2>4 DEF f, r, SameUpTo
<1>8. f[n + 1] = <<>>
  BY <1>7, BecameAt DEF TurnsInto
<1>9. SubSeq(result, 1, at - 1) \o SubSeq(result, (at - 1) + 1, l) = SubSeq(result, 1, l)
  <2>1. 1 \in 1..(l + 1) /\ at - 1 \in 0..l /\ l \in (at - 1)..l
    BY <1>1
  <2>2. at - 1 \in (1 - 1)..Len(result) /\ 1 \in 1..(Len(result) + 1) /\ l \in (at - 1)..Len(result)
    BY <2>1
  <2> QED BY <2>2, ConcatAdjacentSubSeq
<1>10. (at - 1) + 1 = at /\ SubSeq(result, 1, l) = result
  BY <1>1, SubSeqFull
<1>11. SubSeq(text, k, n) \o <<>> = SubSeq(text, k, n)
  BY <1>6, <1>7, ConcatEmptySeq
<1> HIDE DEF n, l, e, f
<1>12. f[k] = SubSeq(text, k, n)
  BY <1>6, <1>7, <1>8, <1>11
<1>13. f[1] = result
  BY <1>1, <1>9, <1>10, <1>12
<1> QED BY <1>13 DEF f

OneByOne(a, b, c, d) == a \o (b \o (c \o d)) = ((a \o b) \o c) \o d

LEMMA JoinedOneByOne ==
  ASSUME NEW S, NEW a \in Seq(S), NEW b \in Seq(S), NEW c \in Seq(S), NEW d \in Seq(S)
  PROVE  OneByOne(a, b, c, d)
<1>1. c \o d \in Seq(S) /\ a \o b \in Seq(S)
  BY ConcatProperties
<1>2. (a \o b) \o (c \o d) = a \o (b \o (c \o d))
  BY <1>1, ConcatAssociative
<1>3. ((a \o b) \o c) \o d = (a \o b) \o (c \o d)
  BY <1>1, ConcatAssociative
<1> QED BY <1>2, <1>3 DEF OneByOne

\* A replacement at the first place where the term stands.
LEMMA CarriedOn ==
  ASSUME NEW S, NEW text \in Seq(S), NEW term \in Seq(S), term # <<>>, NEW by \in Seq(S),
         NEW result \in Seq(S), NEW at, NEW k, Carried(text, term, by, result, at, k),
         NEW p \in at..(Len(result) + 1), Occurs(result, term, p),
         \A q \in at..(p - 1) : ~Occurs(result, term, q),
         NEW new, new = SubSeq(result, 1, p - 1) \o by \o SubSeq(result, p + Len(term), Len(result))
  PROVE  new \in Seq(S) /\ Carried(text, term, by, new, p + Len(by), k + (p - at) + Len(term))
<1> DEFINE n == Len(text)
           l == Len(result)
           m == Len(term)
           f == Became(text, term, by)
           r == k + (p - at)
<1>1. /\ n \in Nat /\ l \in Nat /\ m \in Nat /\ k \in 1..(n + 1) /\ at \in 1..(l + 1) /\ m # 0
      /\ f[1] = SubSeq(result, 1, at - 1) \o f[k]
  BY LenProperties, EmptySeq DEF Carried
<1>2. /\ l + 1 - at = n + 1 - k
      /\ \A d \in 0..(n + 1 - k) :
            /\ SubSeq(result, at + d, l) = SubSeq(text, k + d, n)
            /\ Occurs(result, term, at + d) <=> Occurs(text, term, k + d)
      /\ \A i \in 0..(n - k) : result[at + i] = text[k + i]
  <2>1. Alike(text, term, result, at, k)
    BY OccursAlike
  <2> QED BY <2>1 DEF Alike, SameFrom
<1>3. p \in at..(l + 1) /\ \A q \in at..(p - 1) : ~Occurs(result, term, q)
  OBVIOUS
<1>4. p + m \in p..(l + 1)
  <2>1. p \in 1..(Len(result) + 1)
    BY <1>1, <1>3
  <2> QED BY <2>1, OccursFits
<1>5. /\ r \in k..(n + 1) /\ p - at \in 0..(n + 1 - k) /\ at + (p - at) = p /\ r \in Nat
      /\ r + m \in 1..(n + 1) /\ p + m - at \in 0..(n + 1 - k) /\ at + (p + m - at) = p + m
      /\ k + (p + m - at) = r + m /\ r <= n /\ r \in 1..(n + 1) /\ r + m \in Int
  <2> HIDE DEF n, l, m
  <2> QED BY <1>1, <1>2, <1>3, <1>4
<1>a. Occurs(text, term, r)
  BY <1>2, <1>5
<1>b. \A q \in k..(r - 1) : ~Occurs(text, term, q)
  <2> HIDE DEF n, l, m
  <2> TAKE q \in k..(r - 1)
  <2>1. q - k \in 0..(n + 1 - k) /\ k + (q - k) = q /\ at + (q - k) \in at..(p - 1)
    BY <1>1, <1>3, <1>5
  <2> QED BY <2>1, <1>2, <1>3
<1>c. SubSeq(text, k, r - 1) \in Seq(S) /\ SameUpTo(text, term, by, k, r)
  <2>1. r \in k..(Len(text) + 1) /\ k \in 1..(Len(text) + 1)
    BY <1>1, <1>5
  <2> HIDE DEF r, n, l, m, f
  <2> QED BY <2>1, <1>b, Skipped
<1>d. f[r] = by \o f[r + m] /\ f[r + m] \in Seq(S)
  <2>1. f[r] = TurnsInto(f, text, term, by, r)
    BY <1>5, BecameAt
  <2>2. ~(r > n)
    <3> HIDE DEF n, r
    <3> QED BY <1>5, <1>1
  <2>3. f[r + m] \in Seq(S)
    BY <1>5, BecameType
  <2> HIDE DEF f, r
  <2>4. TurnsInto(f, text, term, by, r) = by \o f[r + m]
    BY <2>2, <1>a, Zenon DEF TurnsInto
  <2> QED BY <2>1, <2>3, <2>4
<1> DEFINE a == SubSeq(result, 1, at - 1)
           b == SubSeq(text, k, r - 1)
           t == SubSeq(result, p + m, l)
<1>6. \A i \in 1..l : result[i] \in S
  BY ElementOfSeq
<1>7. a \in Seq(S) /\ t \in Seq(S) /\ Len(t) = l + 1 - (p + m)
  <2>1. \A i \in 1..(at - 1) : result[i] \in S
    BY <1>1, <1>6
  <2>2. a \in Seq(S)
    BY <2>1, <1>1, SubSeqProperties
  <2>3. p + m \in 1..(Len(result) + 1)
    BY <1>1, <1>3, <1>4
  <2>4. t \in Seq(S) /\ Len(t) = l + 1 - (p + m)
    BY <2>3, TailIs
  <2> QED BY <2>2, <2>4
<1>8. SubSeq(result, at, p - 1) = b
  <2> DEFINE u == SubSeq(result, at, p - 1)
  <2>1. /\ u \in Seq(S) /\ Len(u) = IF at <= p - 1 THEN p - 1 - at + 1 ELSE 0
        /\ \A i \in 1..(p - 1 - at + 1) : u[i] = result[at + i - 1]
    <3>1. \A i \in at..(p - 1) : result[i] \in S
      BY <1>1, <1>3, <1>6
    <3>2. at \in Int /\ p - 1 \in Int
      BY <1>1, <1>3
    <3> QED BY <3>1, <3>2, SubSeqProperties
  <2>2. /\ b \in Seq(S) /\ Len(b) = IF k <= r - 1 THEN r - 1 - k + 1 ELSE 0
        /\ \A i \in 1..(r - 1 - k + 1) : b[i] = text[k + i - 1]
    <3>a. \A i \in 1..Len(text) : text[i] \in S
      BY ElementOfSeq
    <3>1. \A i \in k..(r - 1) : text[i] \in S
      BY <1>1, <1>5, <3>a
    <3>2. k \in Int /\ r - 1 \in Int
      BY <1>1, <1>5
    <3> HIDE DEF r
    <3> QED BY <3>1, <3>2, SubSeqProperties
  <2>3. p - 1 - at + 1 = p - at /\ r - 1 - k + 1 = p - at /\ (at <= p - 1 <=> k <= r - 1)
    BY <1>1, <1>3
  <2>4. \A i \in 1..(p - at) : result[at + i - 1] = text[k + i - 1]
    <3> TAKE i \in 1..(p - at)
    <3>1. i - 1 \in 0..(n - k) /\ at + (i - 1) = at + i - 1 /\ k + (i - 1) = k + i - 1
      <4> HIDE DEF n, l, m
      <4> QED BY <1>1, <1>5
    <3> QED BY <3>1, <1>2
  <2> HIDE DEF u, b, r
  <2>5. Len(u) = Len(b) /\ Len(u) \in 0..(p - at)
    BY <2>1, <2>2, <2>3, <1>1, <1>3
  <2>6. \A i \in 1..Len(u) : u[i] = b[i]
    <3> TAKE i \in 1..Len(u)
    <3>1. i \in 1..(p - at)
      <4> DEFINE w == p - at
                 v == Len(u)
      <4>1. w \in Int /\ v \in 0..w
        BY <2>5, <1>1, <1>3
      <4> HIDE DEF w, v
      <4>2. 1..v \subseteq 1..w
        BY <4>1
      <4> QED BY <4>2 DEF w, v
    <3> QED BY <3>1, <2>1, <2>2, <2>3, <2>4
  <2>7. u = b
    BY <2>1, <2>2, <2>5, <2>6, SeqEqual
  <2> QED BY <2>7 DEF u
<1>9. SubSeq(result, 1, p - 1) = a \o b /\ Len(a \o b) = p - 1 /\ a \o b \in Seq(S)
  <2>1. /\ 1 \in 1..(Len(result) + 1) /\ at - 1 \in (1 - 1)..Len(result)
        /\ p - 1 \in (at - 1)..Len(result) /\ (at - 1) + 1 = at
    BY <1>1, <1>3
  <2>2. SubSeq(result, 1, at - 1) \o SubSeq(result, (at - 1) + 1, p - 1) = SubSeq(result, 1, p - 1)
    BY <2>1, ConcatAdjacentSubSeq
  <2>3. \A i \in 1..(p - 1) : result[i] \in S
    BY <1>1, <1>3, <1>6
  <2>4. Len(SubSeq(result, 1, p - 1)) = (IF 1 <= p - 1 THEN p - 1 - 1 + 1 ELSE 0) /\ p - 1 \in Int
    BY <2>3, <1>1, <1>3, SubSeqProperties
  <2>5. Len(SubSeq(result, 1, p - 1)) = p - 1
    BY <2>4, <1>1, <1>3
  <2> HIDE DEF b
  <2>6. SubSeq(result, 1, p - 1) = a \o b
    BY <2>1, <2>2, <1>8
  <2>7. a \o b \in Seq(S)
    BY <1>7, <1>c, ConcatProperties DEF b
  <2> QED BY <2>5, <2>6, <2>7
<1> DEFINE g == (a \o b) \o by
<1>10. g \in Seq(S) /\ Len(g) = (p - 1) + Len(by) /\ Len(by) \in Nat
  BY <1>9, ConcatProperties, LenProperties
<1>11. new = g \o t
  BY <1>9
<1>12. /\ new \in Seq(S) /\ Len(new) = Len(g) + Len(t)
       /\ SubSeq(new, 1, Len(g)) = g /\ SubSeq(new, Len(g) + 1, Len(new)) = t
  <2> HIDE DEF g, t
  <2>1. g \o t \in Seq(S) /\ Len(g \o t) = Len(g) + Len(t)
    BY <1>7, <1>10, ConcatProperties
  <2>2. SubSeq(g \o t, 1, Len(g)) = g /\ SubSeq(g \o t, Len(g) + 1, Len(g \o t)) = t
    BY <1>7, <1>10, TakenApart
  <2> QED BY <1>11, <2>1, <2>2
<1>13. /\ p + Len(by) \in 1..(Len(new) + 1) /\ (p + Len(by)) - 1 = Len(g) /\ Len(g) + 1 = p + Len(by)
  <2> DEFINE x == Len(g)
             y == Len(t)
             z == Len(by)
             w == Len(new)
  <2>1. x = (p - 1) + z /\ z \in Nat /\ y = l + 1 - (p + m) /\ w = x + y
    BY <1>7, <1>10, <1>12
  <2> HIDE DEF g, t, l, m, x, y, z, w
  <2>2. p + z \in 1..(w + 1) /\ (p + z) - 1 = x /\ x + 1 = p + z
    BY <2>1, <1>1, <1>3, <1>4
  <2> QED BY <2>2 DEF x, z, w
<1>14. t = SubSeq(text, r + m, n)
  <2> HIDE DEF l, n, r, m
  <2> QED BY <1>2, <1>5
<1>15. f[1] = g \o f[r + m]
  <2>1. f[k] = b \o f[r]
    BY <1>c DEF SameUpTo
  <2> HIDE DEF a, b, f, r, m
  <2>2. f[1] = a \o (b \o (by \o f[r + m]))
    BY <1>1, <1>d, <2>1 DEF a
  <2>3. b \in Seq(S)
    BY <1>c DEF b
  <2>4. a \o (b \o (by \o f[r + m])) = ((a \o b) \o by) \o f[r + m]
    <3> DEFINE c == f[r + m]
    <3>1. a \in Seq(S) /\ b \in Seq(S) /\ c \in Seq(S)
      BY <1>7, <1>d, <2>3
    <3> HIDE DEF c
    <3>2. OneByOne(a, b, by, c)
      BY <3>1, JoinedOneByOne
    <3> QED BY <3>2 DEF OneByOne, c
  <2> QED BY <2>2, <2>4
<1>16. Carried(text, term, by, new, p + Len(by), r + m)
  <2> HIDE DEF f, g, t, r, m
  <2>1. r + m \in 1..(Len(text) + 1)
    BY <1>5
  <2>2. SubSeq(new, p + Len(by), Len(new)) = SubSeq(text, r + m, Len(text))
    BY <1>12, <1>13, <1>14
  <2>3. f[1] = SubSeq(new, 1, (p + Len(by)) - 1) \o f[r + m]
    BY <1>12, <1>13, <1>15
  <2> QED BY <1>13, <2>1, <2>2, <2>3 DEF Carried, f
<1> QED BY <1>12, <1>16

----------------------------------------------------------------------------

Entry == Seq(STRING) \X Seq(STRING)
Working == translatorPc = "replace" /\ entry <= Len(glossary) /\ Term # <<>>

TranslatorInv ==
    /\ translatorPc \in {"new", "replace", "done"} /\ entry \in Nat \ {0}
    /\ glossary \in Seq(Entry) /\ out \in Seq(STRING) /\ before \in Seq(STRING)
    /\ pos \in Nat \ {0} /\ (translatorPc = "new" => entry = 1 /\ pos = 1)
    /\ Working => \E k \in Nat : Carried(before, Term, Replacement, out, pos, k)

LEMMA TermsAre ==
  ASSUME glossary \in Seq(Entry), entry \in Nat \ {0}, entry <= Len(glossary)
  PROVE  Term \in Seq(STRING) /\ Replacement \in Seq(STRING)
<1>1. entry \in 1..Len(glossary)
  BY LenProperties
<1>2. glossary[entry] \in Entry
  BY <1>1, ElementOfSeq
<1> QED BY <1>2 DEF Entry, Term, Replacement

\* A search that begins finds nothing before it.
LEMMA BeginsWork ==
  ASSUME glossary' \in Seq(Entry), entry' \in Nat \ {0}, out' \in Seq(STRING),
         before' = out', pos' = 1, Working'
  PROVE  \E k \in Nat : Carried(before', Term', Replacement', out', pos', k)
<1>1. entry' \in 1..Len(glossary') /\ Term' # <<>>
  BY LenProperties DEF Working
<1>2. glossary'[entry'] \in Entry
  BY <1>1, ElementOfSeq
<1>3. Term' \in Seq(STRING) /\ Replacement' \in Seq(STRING)
  BY <1>2 DEF Entry, Term, Replacement
<1>4. Carried(out', Term', Replacement', out', 1, 1)
  BY <1>1, <1>3, CarriedAtStart
<1> QED BY <1>4

LEMMA StartTextStep == TranslatorInv /\ StartText => TranslatorInv'
<1> SUFFICES ASSUME TranslatorInv, StartText PROVE TranslatorInv'
  OBVIOUS
<1>1. /\ glossary' \in Seq(Entry) /\ out' \in Seq(STRING) /\ before' = out'
      /\ entry' = entry /\ pos' = pos /\ entry = 1 /\ pos = 1 /\ translatorPc' = "replace"
  BY TranslatorAssumption DEF StartText, TranslatorInv, Entry
<1>2. entry' \in Nat \ {0}
  BY <1>1
<1>3. Working' => \E k \in Nat : Carried(before', Term', Replacement', out', pos', k)
  BY <1>1, <1>2, BeginsWork
<1> QED BY <1>1, <1>2, <1>3 DEF TranslatorInv

LEMMA NextEntryStep == TranslatorInv /\ NextEntry => TranslatorInv'
<1> SUFFICES ASSUME TranslatorInv, NextEntry PROVE TranslatorInv'
  OBVIOUS
<1>1. /\ glossary' \in Seq(Entry) /\ out' \in Seq(STRING) /\ before' = out'
      /\ pos' = 1 /\ translatorPc' = "replace"
  BY DEF NextEntry, TranslatorInv
<1>2. entry' \in Nat \ {0}
  BY DEF NextEntry, TranslatorInv
<1>3. Working' => \E k \in Nat : Carried(before', Term', Replacement', out', pos', k)
  BY <1>1, <1>2, BeginsWork
<1> QED BY <1>1, <1>2, <1>3 DEF TranslatorInv

LEMMA EndOfEntriesStep == TranslatorInv /\ EndOfEntries => TranslatorInv'
  BY DEF EndOfEntries, TranslatorInv, Working

\* The search stops at the first place where the term stands.
LEMMA FirstFound ==
  ASSUME NEW S, out \in Seq(S), NEW term, NEW at, at = pos, at \in Nat \ {0}, Found(term) # {}
  PROVE  /\ Min(Found(term)) \in at..(Len(out) + 1) /\ Occurs(out, term, Min(Found(term)))
         /\ \A q \in at..(Min(Found(term)) - 1) : ~Occurs(out, term, q)
<1>1. /\ Found(term) = {p \in at..(Len(out) + 1) : Occurs(out, term, p)}
      /\ Len(out) \in Nat
  BY LenProperties DEF Found, Occurs
<1> DEFINE F == Found(term)
           n == Len(out)
<1>2. F \subseteq Nat /\ F # {}
  BY <1>1
<1>3. PICK m \in F : \A x \in F : m <= x
  <2> HIDE DEF F
  <2> QED BY <1>2, LeastNat
<1>4. Min(F) \in F /\ \A x \in F : Min(F) <= x
  <2> HIDE DEF F
  <2> QED BY <1>3 DEF Min
<1> DEFINE p == Min(F)
<1>5. p \in at..(n + 1) /\ Occurs(out, term, p) /\ \A x \in F : p <= x
  BY <1>1, <1>4
<1>6. \A q \in at..(p - 1) : ~Occurs(out, term, q)
  <2> HIDE DEF p, n
  <2> SUFFICES ASSUME NEW q \in at..(p - 1), Occurs(out, term, q) PROVE FALSE
    OBVIOUS
  <2>1. q \in at..(n + 1) /\ ~(p <= q)
    BY <1>1, <1>5 DEF n
  <2>2. q \in F
    BY <2>1, <1>1 DEF n
  <2> QED BY <2>1, <2>2, <1>5
<1> QED BY <1>5, <1>6

LEMMA ReplaceStep == TranslatorInv /\ Replace => TranslatorInv'
<1> SUFFICES ASSUME TranslatorInv, Replace PROVE TranslatorInv'
  OBVIOUS
<1> DEFINE term == Term
           by == Replacement
           p == Min(Found(term))
<1>1. /\ translatorPc = "replace" /\ entry <= Len(glossary) /\ Found(term) # {}
      /\ out' = SubSeq(out, 1, p - 1) \o by \o SubSeq(out, p + Len(term), Len(out))
      /\ pos' = p + Len(by) /\ UNCHANGED <<glossary, entry, before, translatorPc>>
  BY DEF Replace, Replaced
<1>2. /\ term \in Seq(STRING) /\ by \in Seq(STRING) /\ out \in Seq(STRING) /\ before \in Seq(STRING)
      /\ glossary \in Seq(Entry) /\ entry \in Nat \ {0}
  BY <1>1, TermsAre DEF TranslatorInv
<1>3. Term' = term /\ Replacement' = by /\ (Working' <=> Working)
  BY <1>1 DEF Term, Replacement, Working
<1>4. /\ p \in pos..(Len(out) + 1) /\ Occurs(out, term, p)
      /\ \A q \in pos..(p - 1) : ~Occurs(out, term, q)
  <2>1. pos \in Nat \ {0}
    BY DEF TranslatorInv
  <2> HIDE DEF term
  <2> QED BY <1>1, <1>2, <2>1, FirstFound
<1>5. /\ pos \in Nat \ {0} /\ p \in 1..(Len(out) + 1) /\ p + Len(term) \in 1..(Len(out) + 1)
      /\ pos' \in Nat \ {0}
  <2>1. pos \in Nat \ {0} /\ Len(by) \in Nat /\ Len(out) \in Nat /\ Len(term) \in Nat
    BY <1>2, LenProperties DEF TranslatorInv
  <2>2. p \in 1..(Len(out) + 1)
    BY <1>4, <2>1
  <2> HIDE DEF p, term, by
  <2>3. p + Len(term) \in p..(Len(out) + 1)
    BY <1>2, <1>4, <2>2, OccursFits
  <2> QED BY <1>1, <2>1, <2>2, <2>3
<1>6. out' \in Seq(STRING)
  <2>1. SubSeq(out, 1, p - 1) \in Seq(STRING)
    <3>1. \A i \in 1..(p - 1) : out[i] \in STRING
      BY <1>2, <1>5, ElementOfSeq, LenProperties
    <3>2. p - 1 \in Int
      BY <1>5
    <3> HIDE DEF p
    <3> QED BY <3>1, <3>2, SubSeqProperties
  <2>2. SubSeq(out, p + Len(term), Len(out)) \in Seq(STRING)
    <3> HIDE DEF p, term
    <3> QED BY <1>2, <1>5, TailIs
  <2> HIDE DEF p, term, by
  <2> QED BY <1>1, <1>2, <2>1, <2>2, ConcatProperties
<1>7. Working' => \E k \in Nat : Carried(before', Term', Replacement', out', pos', k)
  <2> SUFFICES ASSUME Working PROVE \E k \in Nat : Carried(before, term, by, out', p + Len(by), k)
    BY <1>1, <1>3
  <2>1. PICK k \in Nat : Carried(before, term, by, out, pos, k)
    BY DEF TranslatorInv
  <2>2. term # <<>>
    BY DEF Working
  <2> HIDE DEF p, term, by
  <2>4. Carried(before, term, by, out', p + Len(by), k + (p - pos) + Len(term))
    BY <1>1, <1>2, <1>4, <2>1, <2>2, CarriedOn
  <2>5. k + (p - pos) + Len(term) \in 1..(Len(before) + 1)
    BY <2>4 DEF Carried
  <2>6. k + (p - pos) + Len(term) \in Nat
    BY <2>5
  <2> QED BY <2>4, <2>6
<1> HIDE DEF p, term, by
<1> QED BY <1>1, <1>2, <1>5, <1>6, <1>7 DEF TranslatorInv

LEMMA TranslatorStep == TranslatorInv /\ [TranslatorNext]_translatorVars => TranslatorInv'
<1> SUFFICES ASSUME TranslatorInv, [TranslatorNext]_translatorVars PROVE TranslatorInv'
  OBVIOUS
<1>1. CASE StartText
  BY <1>1, StartTextStep
<1>2. CASE Replace
  BY <1>2, ReplaceStep
<1>3. CASE NextEntry
  BY <1>3, NextEntryStep
<1>4. CASE EndOfEntries
  BY <1>4, EndOfEntriesStep
<1>5. CASE UNCHANGED translatorVars
  BY <1>5 DEF translatorVars, TranslatorInv, Working, Term, Replacement
<1> QED BY <1>1, <1>2, <1>3, <1>4, <1>5 DEF TranslatorNext

\* An entry ends when nothing is found any more.
LEMMA EntryEnds ==
  ASSUME TranslatorInv, NextEntry, Term # <<>>
  PROVE  out = Substituted(before, Term, Replacement)
<1> DEFINE term == Term
           by == Replacement
<1>1. Working /\ Found(term) = {}
  BY DEF NextEntry, Working
<1>2. PICK k \in Nat : Carried(before, term, by, out, pos, k)
  BY <1>1 DEF TranslatorInv
<1>3. /\ term \in Seq(STRING) /\ by \in Seq(STRING) /\ out \in Seq(STRING) /\ before \in Seq(STRING)
  BY <1>1, TermsAre DEF TranslatorInv, Working
<1>4. \A p \in pos..(Len(out) + 1) : ~Occurs(out, term, p)
  BY <1>1 DEF Found, Occurs
<1>5. Substituted(before, term, by) = Became(before, term, by)[1]
  BY SubstitutedIs
<1>6. term # <<>>
  OBVIOUS
<1> HIDE DEF term, by
<1>7. out = Became(before, term, by)[1]
  BY <1>2, <1>3, <1>4, <1>6, CarriedToEnd
<1> QED BY <1>5, <1>7 DEF term, by

\* An entry whose term is not empty replaces exactly the occurrences in the
\* text it was given, whatever the glossary and the text
\* (MockAdapters.cpp:422-425).
THEOREM EntryReplacesAllAlways == TranslatorSpec => EntryReplacesAll
<1>1. TranslatorInit => TranslatorInv
  <2> SUFFICES ASSUME TranslatorInit PROVE TranslatorInv
    OBVIOUS
  <2>1. glossary = <<>> /\ out = <<>> /\ before = <<>> /\ entry = 1 /\ pos = 1 /\ translatorPc = "new"
    BY DEF TranslatorInit
  <2>2. <<>> \in Seq(STRING) /\ <<>> \in Seq(Entry)
    BY EmptySeq
  <2> QED BY <2>1, <2>2 DEF TranslatorInv, Working
<1>2. TranslatorInv /\ [TranslatorNext]_translatorVars =>
        [(entry' = entry + 1 /\ Term # <<>>) => out = Substituted(before, Term, Replacement)]_translatorVars
  <2> SUFFICES ASSUME TranslatorInv, TranslatorNext, entry' = entry + 1, Term # <<>>
               PROVE  out = Substituted(before, Term, Replacement)
    OBVIOUS
  <2>1. entry' # entry
    BY DEF TranslatorInv
  <2>2. NextEntry
    BY <2>1 DEF TranslatorNext, StartText, Replace, EndOfEntries
  <2> QED BY <2>2, EntryEnds
<1> QED BY <1>1, <1>2, TranslatorStep, PTL DEF TranslatorSpec, EntryReplacesAll
=============================================================================
