------------------------------ MODULE MockJobs ------------------------------
(***************************************************************************)
(* The blocking operations of src/adapters/mock/MockAdapters.cpp: each     *)
(* checks the option mock.fail and its arguments and answers at once, and  *)
(* the generators report progress in between.                              *)
(***************************************************************************)
EXTENDS Integers, Sequences

CONSTANTS
    StepOptions,  \* mock.progress_steps: <<>> when not set or no number
    DimOptions,   \* mock.dimensions, likewise
    Dimensions,   \* what an embedding request may ask for
    Counts        \* how many texts or images a request may have

ASSUME OptionsAssumption ==
    /\ \A option \in StepOptions \cup DimOptions : option = <<>> \/ option[1] \in Int
    /\ Dimensions \subseteq Int /\ Counts \subseteq Nat

\* What each operation refuses to do without, by its mode or task; a mode that
\* is not named needs what the last one does.
ImageGen == [TextToImage |-> {}, Inpaint |-> {"initImage", "maskImage"},
             Variation |-> {"initImage"}]
VideoGen == [TextToVideo |-> {}, ImageToVideo |-> {"initImage"},
             Upscale |-> {"initVideo"}]
MusicGen == [Continuation |-> {"continuationAudio"}, Song |-> {}]
Transcribe == [File |-> {"audio"}]
Speak == [Text |-> {"text"}]
Analyze == [Tasks |-> {"image"}]
Run == [TranslateLanguage |-> {"targetLanguage"}, Generate |-> {}]
Translate == [Texts |-> {"targetLanguage"}]
DetectLanguage == [Text |-> {"text"}]
Embed == [Texts |-> {}]

Required == [ImageGen |-> ImageGen, VideoGen |-> VideoGen, MusicGen |-> MusicGen,
             Transcribe |-> Transcribe, Speak |-> Speak, Analyze |-> Analyze,
             Run |-> Run, Embed |-> Embed, Translate |-> Translate,
             DetectLanguage |-> DetectLanguage]

Generators == {"ImageGen", "VideoGen", "MusicGen"}

VARIABLES
    job,       \* the request going on
    jobPc,     \* "idle", "check", "progress", "work" or "done"
    step,      \* RunProgress's i
    progress,  \* the calls of the progress callback
    outputs,   \* the size of each thing produced
    jobResult

jobVars == <<job, jobPc, step, progress, outputs, jobResult>>

NoJob == [op |-> "Embed", mode |-> "Texts", given |-> {}, fail |-> FALSE,
          steps |-> <<>>, callback |-> FALSE, count |-> 0, dims |-> 0, option |-> <<>>]

JobsInit ==
    /\ job = NoJob /\ jobPc = "idle" /\ step = 1
    /\ progress = <<>> /\ outputs = <<>> /\ jobResult = "Pending"

\* A request is made of an instance with some options.
CallJob ==
    /\ jobPc = "idle"
    /\ \E op \in DOMAIN Required :
       \E mode \in DOMAIN Required[op], fail \in BOOLEAN, count \in Counts :
          \/ /\ op = "Embed"
             /\ \E dims \in Dimensions, option \in DimOptions :
                   job' = [NoJob EXCEPT !.fail = fail, !.count = count, !.dims = dims,
                                        !.option = option]
          \/ /\ op # "Embed"
             /\ \E given \in SUBSET Required[op][mode], steps \in StepOptions,
                   callback \in BOOLEAN :
                   job' = [NoJob EXCEPT !.op = op, !.mode = mode, !.fail = fail,
                                        !.count = count, !.given = given,
                                        !.steps = steps, !.callback = callback]
    /\ jobPc' = "check"
    /\ UNCHANGED <<step, progress, outputs, jobResult>>

OptInt(option, fallback) == IF option = <<>> THEN fallback ELSE option[1]

\* FailIfConfigured; DetectLanguage does not ask it.
FailIfConfigured == job.fail /\ job.op # "DetectLanguage"

\* Mutant of Check: the arguments are checked after the progress.
CheckFailOnly ==
    /\ jobPc = "check"
    /\ jobPc' = IF FailIfConfigured THEN "done" ELSE "progress"
    /\ jobResult' = IF FailIfConfigured THEN "Internal" ELSE "Pending"
    /\ UNCHANGED <<job, step, progress, outputs>>

\* The option, then the arguments, then RunProgress.
Check ==
    /\ jobPc = "check"
    /\ LET missing == Required[job.op][job.mode] \ job.given
       IN  /\ jobPc' = IF FailIfConfigured \/ missing # {} THEN "done"
                       ELSE IF job.op \in Generators /\ job.callback THEN "progress"
                       ELSE "work"
           /\ jobResult' = IF FailIfConfigured THEN "Internal"
                           ELSE IF missing # {} THEN "InvalidArgument" ELSE "Pending"
    /\ UNCHANGED <<job, step, progress, outputs>>

Steps == OptInt(job.steps, 4)

\* A turn of RunProgress's loop, or its end.
RunProgress ==
    /\ jobPc = "progress"
    /\ IF step <= Steps
       THEN /\ progress' = Append(progress, [at |-> step, done |-> step = Steps])
            /\ step' = step + 1
            /\ UNCHANGED jobPc
       ELSE jobPc' = "work" /\ UNCHANGED <<step, progress>>
    /\ UNCHANGED <<job, outputs, jobResult>>

JobThrow ==
    /\ jobPc = "progress" /\ progress # <<>>
    /\ jobPc' = "done" /\ jobResult' = "Thrown"
    /\ UNCHANGED <<job, step, progress, outputs>>

Dims == IF job.dims > 0 THEN job.dims ELSE OptInt(job.option, 8)

\* The sizes of what is made: at least one image, a vector or a translation
\* per text.
Images == [i \in 1..(IF job.count > 1 THEN job.count ELSE 1) |-> 1]
Vectors == [i \in 1..job.count |-> Dims]

Made == CASE job.op = "ImageGen" -> Images
          [] job.op = "Embed" -> Vectors
          [] job.op = "Translate" -> [i \in 1..job.count |-> 1]
          [] OTHER -> <<1>>

\* A vector cannot be made with a negative size: its constructor throws.
Work ==
    /\ jobPc = "work"
    /\ IF \E i \in DOMAIN Made : Made[i] < 0
       THEN jobResult' = "Thrown" /\ UNCHANGED outputs
       ELSE jobResult' = "None" /\ outputs' = Made
    /\ jobPc' = "done"
    /\ UNCHANGED <<job, step, progress>>

JobsNext == CallJob \/ Check \/ RunProgress \/ JobThrow \/ Work

----------------------------------------------------------------------------

\* Progress counts up to a final "done", which a job that succeeds has
\* reported exactly once, at the end; a callback hears nothing at all only of
\* a job configured with no steps, or one that is refused, whichever check
\* stopped it (MockAdapters.cpp:315-317, 328-339).  What has been reported as
\* done has all its inputs, and is produced unless the callback throws.
ProgressCompletes ==
    /\ \A i \in DOMAIN progress :
          progress[i].at = i /\ (progress[i].done => i = Len(progress))
    /\ (jobResult = "None" /\ job.op \in Generators /\ job.callback) =>
          IF progress = <<>> THEN Steps <= 0 ELSE progress[Len(progress)].done
    /\ jobResult \in {"Internal", "InvalidArgument"} => progress = <<>>
    /\ jobResult # "None" => outputs = <<>>
    /\ (progress # <<>> \/ outputs # <<>>) => Required[job.op][job.mode] \subseteq job.given
=============================================================================
