---------------------------- MODULE LocalRequests ----------------------------
(***************************************************************************)
(* The blocking operations of the local adapters in                        *)
(* src/adapters/local/LocalAdapters.cpp: the arguments are checked, then   *)
(* one round trip is made, or one per text (Translate) or per vision task  *)
(* (Analyze), and every reply is mapped to the operation's result.         *)
(***************************************************************************)
EXTENDS HttpStatus, Sequences, SequencesExt

CONSTANTS
    Requests,  \* what applications ask for
    Replies    \* what a round trip may end with

Kinds == {"chat", "embed", "transcribe", "voices", "speak", "image", "vision",
          "translate", "detect", "code"}

\* The vision tasks the adapter supports; the first three assign their field.
AssigningTasks == {"caption", "ocr", "vqa"}
SupportedTasks == AssigningTasks \cup {"tags"}

\* valid says whether the arguments pass the operation's own check.
Request == [kind : Kinds, inputs : Seq(STRING), valid : BOOLEAN,
            onProgress : BOOLEAN]

\* fetch is what localhttp::Fetch returns, items what the body's JSON lists:
\* choices, embeddings, images, segments or voices, each "good" or "bad".
Reply == [fetch : {"None"} \cup FetchErrors, status : 100..599,
          parses : BOOLEAN, items : Seq({"good", "bad"})]

ASSUME RequestAssumption ==
    /\ Requests \subseteq Request
    /\ \A c \in Requests :
          /\ c.kind \in {"chat", "embed"} => c.valid = (c.inputs # <<>>)
          /\ c.kind = "voices" => c.valid

ASSUME ReplyAssumption ==
    /\ Replies \subseteq Reply
    /\ \A r \in Replies : ~r.parses => r.items = <<>>

VARIABLES
    request,     \* the request
    pc,          \* "check", "ask", "map" or "done"
    log,         \* history: the replies received, in order
    results,     \* what the result lists: <<k, i>> is item i of reply k,
                 \*   <<k, 0>> a field assigned from no reply
    progress,    \* how often onProgress was called
    error        \* the result's error, "Pending" until it is returned

vars == <<request, pc, log, results, progress, error>>

Init ==
    /\ request \in Requests
    /\ pc = "check" /\ log = <<>> /\ results = <<>> /\ progress = 0
    /\ error = "Pending"

Return(err) == pc' = "done" /\ error' = err

\* Translate and Analyze loop over their inputs.
Loops == request.kind \in {"translate", "vision"}
Rounds == IF Loops THEN Len(request.inputs) ELSE 1

----------------------------------------------------------------------------

FetchError(r) == IF r.fetch # "None" THEN r.fetch ELSE MapHttpStatus(r.status)

PostJson(r) ==
    IF FetchError(r) = "None" /\ ~r.parses THEN "Internal" ELSE FetchError(r)

ChatOnce(r) ==
    IF PostJson(r) = "None" /\ r.items = <<>> THEN "Internal" ELSE PostJson(r)

\* What an operation makes of a reply: the error it ends with, if any, and
\* what its result then lists.
Made(err, list) == [error |-> err, results |-> list]
Items(n) == [i \in 1..n |-> <<1, i>>]
Whole(err, n) == Made(err, IF err = "None" THEN Items(n) ELSE <<>>)

Chat(r) == Whole(ChatOnce(r), 1)

DetectLanguage(r) == Whole(ChatOnce(r), 1)

\* Findings that do not parse are passed on as text.
Run(r) == Whole(ChatOnce(r), 1)

\* Mutant of Embed: the number of embeddings is not checked.
EmbedUnchecked(r) == Whole(PostJson(r), Len(r.items))

Embed(r) ==
    IF PostJson(r) = "None" /\ Len(r.items) # Len(request.inputs)
    THEN Made("Internal", Items(Len(r.items)))
    ELSE Whole(PostJson(r), Len(r.items))

Transcribe(r) == Whole(PostJson(r), Len(r.items))

\* A body that does not parse is an empty list of voices.
ListVoices(r) ==
    IF r.fetch = "None" /\ r.status = 404 THEN Made("NotSupported", <<>>)
    ELSE Whole(FetchError(r), Len(r.items))

Speak(r) == Whole(FetchError(r), 1)

\* Mutant of Generate: a broken image takes the ones before it along.
GenerateAllOrNothing(r) ==
    IF PostJson(r) = "None" /\ (r.items = <<>> \/ Contains(r.items, "bad"))
    THEN Made("Internal", <<>>)
    ELSE Whole(PostJson(r), Len(r.items))

\* Images are taken up to the first that does not decode.
Generate(r) ==
    LET bad == SelectInSeq(r.items, LAMBDA x : x = "bad")
    IN  CASE PostJson(r) # "None" -> Made(PostJson(r), <<>>)
          [] PostJson(r) = "None" /\ bad > 0 -> Made("Internal", Items(bad - 1))
          [] PostJson(r) = "None" /\ r.items = <<>> -> Made("Internal", <<>>)
          [] OTHER -> Made("None", Items(Len(r.items)))

\* The reply to the k-th text becomes the k-th translation.
Translate(k, r) ==
    Made(ChatOnce(r),
         IF ChatOnce(r) = "None" THEN Append(results, <<k, 1>>) ELSE results)

\* A task that assigns its field leaves nothing of an earlier answer to the
\* same task, not even when its own round trip failed; tags accumulate.
Analyze(k, r) ==
    LET task == request.inputs[k]
        ok == ChatOnce(r) = "None"
        mine(j) == request.inputs[results[j][1]] = task
        answer == <<k, IF ok THEN 1 ELSE 0>>
        assigned == [j \in DOMAIN results |-> IF mine(j) THEN answer ELSE results[j]]
    IN  Made(ChatOnce(r),
             CASE task \in AssigningTasks ->
                    IF \E j \in DOMAIN results : mine(j) THEN assigned
                    ELSE Append(results, answer)
               [] task \notin AssigningTasks /\ ok -> Append(results, <<k, 1>>)
               [] OTHER -> results)

Effect(k, r) ==
    CASE request.kind = "chat" -> Chat(r)
      [] request.kind = "detect" -> DetectLanguage(r)
      [] request.kind = "code" -> Run(r)
      [] request.kind = "embed" -> Embed(r)
      [] request.kind = "transcribe" -> Transcribe(r)
      [] request.kind = "voices" -> ListVoices(r)
      [] request.kind = "speak" -> Speak(r)
      [] request.kind = "image" -> Generate(r)
      [] request.kind = "translate" -> Translate(k, r)
      [] request.kind = "vision" -> Analyze(k, r)

----------------------------------------------------------------------------

\* The arguments are checked: a message, texts, audio, a text, an image, a
\* target language must be there, and images are only made from text.
Check ==
    /\ pc = "check"
    /\ \/ /\ ~request.valid
          /\ Return(IF request.kind = "image" THEN "NotSupported"
                    ELSE "InvalidArgument")
       \/ request.valid /\ pc' = "ask" /\ UNCHANGED error
    /\ UNCHANGED <<request, log, results, progress>>

\* One blocking round trip.
Ask ==
    /\ pc = "ask" /\ Len(log) < Rounds
    /\ request.kind = "vision" => request.inputs[Len(log) + 1] \in SupportedTasks
    /\ \E r \in Replies : log' = Append(log, r)
    /\ pc' = "map"
    /\ UNCHANGED <<request, results, progress, error>>

Unsupported ==
    /\ pc = "ask" /\ Len(log) < Rounds
    /\ request.kind = "vision"
    /\ request.inputs[Len(log) + 1] \notin SupportedTasks
    /\ Return("NotSupported")
    /\ UNCHANGED <<request, log, results, progress>>

\* Mutant of Map: the loop goes on after an error.
MapGoesOn ==
    /\ pc = "map"
    /\ results' = Effect(Len(log), Last(log)).results
    /\ pc' = "ask"
    /\ UNCHANGED <<request, log, progress, error>>

\* The reply is mapped; the first error ends the call.
Map ==
    /\ pc = "map"
    /\ LET made == Effect(Len(log), Last(log))
       IN  /\ results' = made.results
           /\ IF made.error = "None" THEN pc' = "ask" /\ UNCHANGED error
              ELSE Return(made.error)
    /\ UNCHANGED <<request, log, progress>>

Finish ==
    /\ pc = "ask" /\ Len(log) = Rounds
    /\ progress' = IF request.kind = "image" /\ request.onProgress
                   THEN progress + 1 ELSE progress
    /\ Return("None")
    /\ UNCHANGED <<request, log, results>>

Next == Check \/ Ask \/ Unsupported \/ Map \/ Finish

Spec == Init /\ [][Next]_vars

----------------------------------------------------------------------------

Errors == FetchErrors \cup StatusErrors \cup {"NotSupported"}

\* A result without an error is complete: one translation or vector per
\* text, in the texts' order (UltraAITranslator.h:29, UltraAIEmbeddings.h:18),
\* every image the server sent with one call of onProgress ("The callback
\* fires once at 1.0", Docs/LocalAdapters.md:69), and an answer to every
\* vision task.
OnePerInput ==
    error = "None" =>
        LET n == Len(request.inputs)
            last(t) == CHOOSE k \in 1..n :
                /\ request.inputs[k] = t
                /\ \A l \in (k + 1)..n : request.inputs[l] # t
        IN  CASE request.kind = "translate" ->
                   results = [k \in 1..n |-> <<k, 1>>]
              [] request.kind = "embed" -> results = [i \in 1..n |-> <<1, i>>]
              [] request.kind = "image" ->
                   /\ Len(results) = Len(log[1].items) /\ results # <<>>
                   /\ Range(log[1].items) = {"good"}
                   /\ progress = IF request.onProgress THEN 1 ELSE 0
              [] request.kind = "vision" ->
                   \A t \in Range(request.inputs) :
                       t \in SupportedTasks /\ <<last(t), 1>> \in Range(results)
              [] OTHER -> TRUE

\* A call stops at the first reply it cannot use and reports that error, not
\* a later one and not success, nor any progress; a refused call has sent
\* nothing.
FirstErrorEndsCall ==
    LET outcome(k) == Effect(k, log[k]).error IN
    /\ \A k \in 1..(Len(log) - 1) : outcome(k) = "None"
    /\ error \in Errors => log = <<>> \/ outcome(Len(log)) \in {"None", error}
    /\ error \in Errors => progress = 0
    /\ error = "None" => \A k \in 1..Len(log) : outcome(k) = "None"
    /\ (pc = "done" /\ ~request.valid) => log = <<>> /\ error # "None"

\* A call that fails half-way keeps what it has: the translations of the
\* texts before the failing one, the answers to the tasks before it (unless
\* the same task was asked again), and of the images every one before the
\* first that is broken.
EarlierResultsSurvive ==
    (pc = "done" /\ error # "None" /\ log # <<>>) =>
        /\ request.kind = "translate" =>
              results = [k \in 1..(Len(log) - 1) |-> <<k, 1>>]
        /\ request.kind = "vision" =>
              \A k \in 1..(Len(log) - 1) :
                  \/ <<k, 1>> \in Range(results)
                  \/ \E l \in (k + 1)..Len(log) :
                        request.inputs[l] = request.inputs[k]
        /\ request.kind = "image" =>
              \A b \in 1..Len(log[1].items) :
                  (/\ PostJson(log[1]) = "None" /\ log[1].items[b] = "bad"
                   /\ \A i \in 1..(b - 1) : log[1].items[i] = "good") =>
                     results = [i \in 1..(b - 1) |-> <<1, i>>]
=============================================================================
