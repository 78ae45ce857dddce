------------------------- MODULE LocalRequestsProofs -------------------------
(***************************************************************************)
(* Proofs about LocalRequests, for all requests and whatever the server    *)
(* replies: the call ends at the first reply it cannot use, its results    *)
(* pair with its inputs, and what was kept before a failure stays kept.    *)
(* And about PayloadCodecs, what those requests and replies carry: for all *)
(* strings, characters, bytes, code and uploads, what one side encodes is  *)
(* what the other decodes.                                                 *)
(***************************************************************************)
EXTENDS LocalRequests, PayloadCodecs, TLAPS, SequenceTheorems

\* The fold is Base64's: the decoder takes one character at a time.
INSTANCE SequenceFacts WITH Op <- Base!DecodeChar

\* The error an operation makes of a reply, whatever was received before it.
Failure(r) ==
    CASE request.kind \in {"chat", "detect", "code", "translate", "vision"} -> ChatOnce(r)
      [] request.kind = "embed" -> Embed(r).error
      [] request.kind = "transcribe" -> PostJson(r)
      [] request.kind = "voices" -> ListVoices(r).error
      [] request.kind = "speak" -> FetchError(r)
      [] request.kind = "image" -> Generate(r).error

\* Where the call is says how much has been received, and that all replies
\* but the one being mapped were usable.
Shape ==
    /\ request \in Requests /\ log \in Seq(Replies)
    /\ pc \in {"check", "ask", "map", "done"}
    /\ pc = "check" => log = <<>>
    /\ pc = "map" => log # <<>>
    /\ pc # "check" => request.valid \/ (log = <<>> /\ error \notin {"None", "Pending"})
    /\ pc # "done" => error = "Pending" /\ progress = 0
    /\ error \in Errors => progress = 0

Usable(k) == Failure(log[k]) = "None"

Replied ==
    /\ \A k \in 1..(Len(log) - 1) : Usable(k)
    /\ pc = "ask" /\ log # <<>> => Usable(Len(log))
    /\ error \in Errors => log = <<>> \/ Failure(log[Len(log)]) \in {"None", error}
    /\ error = "None" => \A k \in 1..Len(log) : Usable(k)

IInv == Shape /\ Replied

----------------------------------------------------------------------------

\* The error of a reply does not depend on the results so far.
LEMMA EffectFails ==
  ASSUME NEW k, NEW r, request \in Requests PROVE Effect(k, r).error = Failure(r)
<1>1. request.kind \in Kinds
  BY RequestAssumption DEF Request
<1> QED BY <1>1 DEF Effect, Failure, Kinds, Chat, DetectLanguage, Run, Transcribe, Speak,
                    Translate, Analyze, Whole, Made

\* It does not change while the request does not.
LEMMA FailureKept == request' = request => \A r : Failure(r)' = Failure(r)
  BY DEF Failure, Embed, ListVoices, Generate, Whole, Made, Items, PostJson, ChatOnce,
         FetchError

LEMMA InitIInv == Init => IInv
  BY DEF Init, IInv, Shape, Replied, Errors, FetchErrors, StatusErrors

LEMMA CheckStep == IInv /\ Check => IInv'
  BY DEF IInv, Shape, Replied, Check, Return, Errors, FetchErrors, StatusErrors

\* The reply that comes in follows usable ones.
LEMMA AskStep == IInv /\ Ask => IInv'
<1> SUFFICES ASSUME IInv, Ask PROVE IInv'
  OBVIOUS
<1>1. PICK r \in Replies : log' = Append(log, r)
  BY DEF Ask
<1>2. /\ log' \in Seq(Replies) /\ Len(log') = Len(log) + 1 /\ log' # <<>>
      /\ \A k \in 1..Len(log) : log'[k] = log[k]
      /\ Len(log) \in Nat
  BY <1>1, AppendProperties, LenProperties DEF IInv, Shape
<1>3. \A k \in 1..Len(log) : Usable(k)
  BY <1>2, EmptySeq DEF IInv, Shape, Replied, Ask
<1>4. \A k \in 1..Len(log) : Usable(k)'
  BY <1>2, <1>3, FailureKept DEF Usable, Ask
<1>5. error' = "Pending" /\ error' \notin Errors /\ progress' = 0
  BY DEF IInv, Shape, Ask, Errors, FetchErrors, StatusErrors
<1>6. Shape'
  BY <1>2, <1>5 DEF IInv, Shape, Ask
<1>7. Replied'
  BY <1>2, <1>4, <1>5 DEF Replied, Ask
<1> QED BY <1>6, <1>7 DEF IInv

\* The call goes on after a usable reply and ends with the error of another.
LEMMA MapStep == IInv /\ Map => IInv'
<1> SUFFICES ASSUME IInv, Map PROVE IInv'
  OBVIOUS
<1> DEFINE e == Failure(log[Len(log)])
<1>1. log # <<>> /\ log \in Seq(Replies) /\ Len(log) \in Nat \ {0} /\ Last(log) = log[Len(log)]
  BY EmptySeq DEF IInv, Shape, Map, Last
<1>2. Effect(Len(log), Last(log)).error = e
  BY <1>1, EffectFails DEF IInv, Shape
<1>3. /\ IF e = "None" THEN pc' = "ask" /\ UNCHANGED error
         ELSE pc' = "done" /\ error' = e
      /\ UNCHANGED <<request, log, progress>>
  BY <1>2 DEF Map, Return
<1>4. \A k \in 1..Len(log) : Failure(log[k])' = Failure(log[k])
  BY <1>3, FailureKept
<1>5. \A k \in 1..(Len(log) - 1) : Usable(k)'
  BY <1>1, <1>4 DEF IInv, Replied, Usable
<1>6. e' = e
  BY <1>1, <1>3, <1>4
<1>7. error = "Pending" /\ progress = 0 /\ "Pending" \notin Errors /\ request.valid
  BY <1>1 DEF IInv, Shape, Map, Errors, FetchErrors, StatusErrors
<1> HIDE DEF e
<1>8. Shape'
  BY <1>1, <1>3, <1>7 DEF IInv, Shape
<1>9. Replied'
  BY <1>1, <1>3, <1>5, <1>6, <1>7 DEF Replied, Usable, e
<1> QED BY <1>8, <1>9 DEF IInv

\* All replies were usable when the loop ends, on a task or at the end.
LEMMA LastStep == IInv /\ (Unsupported \/ Finish) => IInv'
<1> SUFFICES ASSUME IInv, Unsupported \/ Finish PROVE IInv'
  OBVIOUS
<1>1. log \in Seq(Replies) /\ Len(log) \in Nat /\ (Len(log) > 0 => log # <<>>)
  BY EmptySeq, LenProperties DEF IInv, Shape
<1>2. pc = "ask" /\ error = "Pending" /\ progress = 0 /\ UNCHANGED <<request, log>>
  BY DEF IInv, Shape, Unsupported, Finish
<1>3. \A k \in 1..Len(log) : Usable(k)
  BY <1>1, <1>2 DEF IInv, Replied
<1>4. \A k \in 1..Len(log) : Failure(log[k])' = "None"
  BY <1>2, <1>3, FailureKept DEF Usable
<1>5. /\ pc' = "done"
      /\ error' \in {"None", "NotSupported"}
      /\ error' = "NotSupported" => progress' = 0
  BY <1>2 DEF Unsupported, Finish, Return
<1>6. Shape'
  BY <1>2, <1>5 DEF IInv, Shape, Errors, FetchErrors, StatusErrors
<1>7. Replied'
  BY <1>1, <1>2, <1>4, <1>5 DEF Replied, Usable
<1> QED BY <1>6, <1>7 DEF IInv

LEMMA StepIInv == IInv /\ [Next]_vars => IInv'
<1>1. ASSUME IInv, UNCHANGED vars PROVE IInv'
  BY <1>1, FailureKept DEF vars, IInv, Shape, Replied, Usable
<1> QED BY <1>1, CheckStep, AskStep, MapStep, LastStep DEF Next

THEOREM Invariance == Spec => []IInv
  BY InitIInv, StepIInv, PTL DEF Spec

\* A call ends at the first reply it cannot use and reports that error,
\* whatever it asks for and however many replies it needs.
THEOREM FirstErrorEndsCallAlways == Spec => []FirstErrorEndsCall
<1>1. IInv => FirstErrorEndsCall
  <2> SUFFICES ASSUME IInv PROVE FirstErrorEndsCall
    OBVIOUS
  <2>1. \A k \in 1..Len(log) : Effect(k, log[k]).error = Failure(log[k])
    BY EffectFails DEF IInv, Shape
  <2>2. Len(log) \in Nat /\ (log # <<>> => Len(log) > 0)
    BY LenProperties, EmptySeq DEF IInv, Shape
  <2>3. (pc = "done" /\ ~request.valid) => log = <<>> /\ error # "None"
    BY DEF IInv, Shape
  <2> QED BY <2>1, <2>2, <2>3 DEF IInv, Shape, Replied, Usable, FirstErrorEndsCall
<1> QED BY <1>1, Invariance, PTL

----------------------------------------------------------------------------
(***************************************************************************)
(* What the result holds.                                                  *)
(***************************************************************************)

Refused == error \notin {"Pending", "None"}

\* Translations pair up with the texts, up to the one that failed.
Paired(n) == results = [k \in 1..n |-> <<k, 1>>]

Translated ==
    request.kind = "translate" =>
        Paired(IF pc = "map" \/ (Refused /\ log # <<>>) THEN Len(log) - 1 ELSE Len(log))

\* A task has its answer, unless it was asked again.
Answered(k, n) ==
    \/ <<k, 1>> \in Range(results)
    \/ \E l \in (k + 1)..n : request.inputs[l] = request.inputs[k]

Seen ==
    request.kind = "vision" =>
        /\ results \in Seq(Nat \X {0, 1})
        /\ \A k \in 1..Len(log) : request.inputs[k] \in SupportedTasks
        /\ pc = "map" => \A k \in 1..(Len(log) - 1) : Answered(k, Len(log) - 1)
        /\ pc # "map" => \A k \in 1..(Len(log) - 1) : Answered(k, Len(log))
        /\ (pc # "map" /\ ~Refused) => \A k \in 1..Len(log) : Answered(k, Len(log))

\* The other operations take their result from their only reply.
Single ==
    ~Loops =>
        /\ Len(log) <= 1
        /\ results = IF log = <<>> \/ pc = "map" THEN <<>> ELSE Effect(1, log[1]).results

\* Success comes after the last round.
Complete ==
    /\ pc \in {"ask", "map"} => request.valid
    /\ pc = "done" => error # "Pending"
    /\ error = "None" =>
        /\ request.valid /\ Len(log) = Rounds
        /\ progress = IF request.kind = "image" /\ request.onProgress THEN 1 ELSE 0

Holds == Translated /\ Seen /\ Single /\ Complete

----------------------------------------------------------------------------

LEMMA RequestTyped ==
  ASSUME request \in Requests
  PROVE  /\ request.kind \in Kinds /\ request.inputs \in Seq(STRING)
         /\ Len(request.inputs) \in Nat
  BY RequestAssumption, LenProperties DEF Request

\* Every operation ends with an error the interfaces know, or with none.
LEMMA FailureIsError ==
  ASSUME request \in Requests, NEW r \in Replies PROVE Failure(r) \in {"None"} \cup Errors
<1>1. r.fetch \in {"None"} \cup FetchErrors
  BY ReplyAssumption DEF Reply
<1>2. FetchError(r) \in {"None"} \cup Errors
  BY <1>1 DEF FetchError, MapHttpStatus, Errors, StatusErrors
<1>3. PostJson(r) \in {"None"} \cup Errors /\ ChatOnce(r) \in {"None"} \cup Errors
  BY <1>2 DEF PostJson, ChatOnce, Errors, StatusErrors
<1>4. Embed(r).error \in {"None"} \cup Errors
  BY <1>3 DEF Embed, Made, Whole, Errors, StatusErrors
<1>5. ListVoices(r).error \in {"None"} \cup Errors
  BY <1>2 DEF ListVoices, Made, Whole, Errors
<1>6. Generate(r).error \in {"None"} \cup Errors
  BY <1>3 DEF Generate, Made, Errors, StatusErrors
<1> QED BY <1>2, <1>3, <1>4, <1>5, <1>6, RequestTyped DEF Failure, Kinds

\* An operation with one round takes nothing from what it had before.
LEMMA EffectKept ==
  ASSUME request \in Requests, ~Loops, request' = request, NEW k, NEW r
  PROVE  Effect(k, r)' = Effect(k, r)
<1>1. request.kind \in Kinds \ {"translate", "vision"}
  BY RequestTyped DEF Loops
<1> QED
  BY <1>1 DEF Effect, Kinds, Chat, DetectLanguage, Run, Embed, Transcribe, ListVoices, Speak,
              Generate, Whole, Made, Items, ChatOnce, PostJson, FetchError

LEMMA RefusedErrors == ASSUME error \in Errors PROVE Refused
  BY DEF Refused, Errors, FetchErrors, StatusErrors

LEMMA EmptyResults ==
  ASSUME Shape, log = <<>>, results = <<>>, error # "None", pc # "map"
  PROVE  Translated /\ Seen /\ Single
<1>1. Len(log) = 0 /\ \A n \in {0} : results = [k \in 1..n |-> <<k, 1>>]
  BY EmptySeq
<1>2. Translated
  BY <1>1 DEF Translated, Paired
<1>3. Seen
  BY <1>1, EmptySeq DEF Seen
<1>4. Single
  BY <1>1 DEF Single
<1> QED BY <1>2, <1>3, <1>4

LEMMA InitHolds == Init => Holds
<1> SUFFICES ASSUME Init PROVE Holds
  OBVIOUS
<1>1. Shape
  BY InitIInv DEF IInv
<1>2. Translated /\ Seen /\ Single
  BY <1>1, EmptyResults DEF Init
<1> QED BY <1>2 DEF Holds, Complete, Init

\* Nothing has been received when the arguments are looked at.
LEMMA CheckHolds ==
  ASSUME IInv, Holds, Check PROVE Holds'
<1>1. /\ log = <<>> /\ Len(log) = 0 /\ log' = log /\ results' = results /\ request' = request
      /\ pc = "check" /\ pc' # "map" /\ error' # "None" /\ error = "Pending"
      /\ pc' = "done" => error' # "Pending"
      /\ pc' \in {"ask", "map"} => request.valid
  BY DEF Check, Return, IInv, Shape
<1>2. Translated'
  BY <1>1 DEF Holds, Translated, Paired
<1>3. Seen'
  BY <1>1 DEF Holds, Seen
<1>4. Single'
  BY <1>1 DEF Holds, Single, Loops
<1>5. Complete'
  BY <1>1 DEF Complete
<1> QED BY <1>2, <1>3, <1>4, <1>5 DEF Holds

\* A round adds a reply; what was taken from the others stays.
LEMMA AskHolds ==
  ASSUME IInv, Holds, Ask PROVE Holds'
<1>1. PICK r \in Replies : log' = Append(log, r)
  BY DEF Ask
<1> DEFINE n == Len(log)
<1>2. /\ log' \in Seq(Replies) /\ Len(log') = n + 1 /\ log' # <<>>
      /\ \A k \in 1..n : log'[k] = log[k]
      /\ n \in Nat /\ (log = <<>> <=> n = 0)
  BY <1>1, AppendProperties, LenProperties, EmptySeq DEF IInv, Shape
<1>3. /\ pc = "ask" /\ pc' = "map" /\ error = "Pending" /\ error' = "Pending"
      /\ UNCHANGED <<request, results>> /\ n < Rounds
      /\ request.kind = "vision" => request.inputs[n + 1] \in SupportedTasks
  BY DEF Ask, IInv, Shape
<1>4. ~Refused /\ ~Refused'
  BY <1>3 DEF Refused
<1> DEFINE m == Len(log')
<1>5. m = n + 1 /\ m - 1 = n
  BY <1>2
<1>6. Translated'
  BY <1>3, <1>4, <1>5 DEF Holds, Translated, Paired
<1>7. Seen'
  <2> SUFFICES ASSUME request.kind = "vision"
               PROVE  /\ results \in Seq(Nat \X {0, 1})
                      /\ \A k \in 1..m : request.inputs[k] \in SupportedTasks
                      /\ \A k \in 1..(m - 1) : Answered(k, m - 1)
    BY <1>3 DEF Seen, Answered
  <2>1. /\ results \in Seq(Nat \X {0, 1})
        /\ \A k \in 1..n : request.inputs[k] \in SupportedTasks
        /\ \A k \in 1..n : Answered(k, n)
    BY <1>3, <1>4 DEF Holds, Seen
  <2> HIDE DEF n, m
  <2>2. \A k \in 1..m : k \in 1..n \/ k = n + 1
    BY <1>2, <1>5
  <2>3. \A k \in 1..m : request.inputs[k] \in SupportedTasks
    BY <1>3, <2>1, <2>2
  <2> QED BY <1>5, <2>1, <2>3
<1>8. Single'
  <2> SUFFICES ASSUME ~Loops PROVE m <= 1 /\ results = <<>>
    BY <1>3 DEF Single, Loops
  <2>1. n = 0
    BY <1>2, <1>3 DEF Rounds
  <2> QED BY <1>2, <1>3, <1>5, <2>1 DEF Holds, Single
<1>9. Complete'
  BY <1>3 DEF Holds, Complete
<1> QED BY <1>6, <1>7, <1>8, <1>9 DEF Holds

\* The loop ends after its last round, or at a task it does not know.
LEMMA LastHolds ==
  ASSUME IInv, Holds, Unsupported \/ Finish PROVE Holds'
<1>1. /\ pc = "ask" /\ pc' = "done" /\ error = "Pending"
      /\ UNCHANGED <<request, log, results>>
      /\ error' \in {"None", "NotSupported"} /\ (error' = "NotSupported" => request.kind = "vision")
      /\ request.valid
  BY DEF Unsupported, Finish, Return, IInv, Shape, Holds, Complete
<1>2. /\ ~Refused /\ Len(log) \in Nat
  BY <1>1, LenProperties DEF Refused, IInv, Shape
<1>3. Translated'
  <2> SUFFICES ASSUME request.kind = "translate" PROVE Paired(Len(log))
    BY <1>1, <1>2 DEF Translated, Paired, Refused
  <2> QED BY <1>1, <1>2 DEF Holds, Translated
<1>4. Seen'
  <2> SUFFICES ASSUME request.kind = "vision"
               PROVE  /\ results \in Seq(Nat \X {0, 1})
                      /\ \A k \in 1..Len(log) : request.inputs[k] \in SupportedTasks
                      /\ \A k \in 1..Len(log) : Answered(k, Len(log))
    BY <1>1, <1>2 DEF Seen, Answered
  <2> QED BY <1>1, <1>2 DEF Holds, Seen
<1>5. Single'
  <2> SUFFICES ASSUME ~Loops PROVE Single'
    BY <1>1 DEF Single, Loops
  <2>1. Effect(1, log[1])' = Effect(1, log[1])
    BY <1>1, EffectKept DEF IInv, Shape
  <2> QED BY <1>1, <2>1 DEF Holds, Single
<1>6. Complete'
  <2> SUFFICES ASSUME error' = "None"
               PROVE  /\ Len(log) = Rounds
                      /\ progress' = IF request.kind = "image" /\ request.onProgress THEN 1 ELSE 0
    BY <1>1 DEF Complete, Rounds, Loops
  <2>1. Finish /\ progress = 0
    BY DEF Unsupported, Finish, Return, IInv, Shape
  <2> QED BY <2>1 DEF Finish
<1> QED BY <1>3, <1>4, <1>5, <1>6 DEF Holds

LEMMA StutterHolds ==
  ASSUME IInv, Holds, UNCHANGED vars PROVE Holds'
<1>1. Translated' /\ Seen' /\ Complete'
  BY DEF vars, Holds, Translated, Paired, Seen, Answered, Complete, Refused, Rounds, Loops
<1>2. Single'
  <2> SUFFICES ASSUME ~Loops PROVE Single'
    BY DEF vars, Single, Loops
  <2>1. Effect(1, log[1])' = Effect(1, log[1])
    BY EffectKept DEF vars, IInv, Shape
  <2> QED BY <2>1 DEF vars, Holds, Single
<1> QED BY <1>1, <1>2 DEF Holds

----------------------------------------------------------------------------

LEMMA AppendInRange ==
  ASSUME NEW S, NEW s \in Seq(S), NEW x \in S
  PROVE  Append(s, x) \in Seq(S) /\ Range(Append(s, x)) = Range(s) \cup {x}
<1> DEFINE t == Append(s, x)
<1>1. /\ t \in Seq(S) /\ Len(t) = Len(s) + 1 /\ Len(s) \in Nat
      /\ \A i \in 1..Len(s) : t[i] = s[i]
      /\ t[Len(s) + 1] = x
  BY AppendProperties, LenProperties
<1>2. DOMAIN t = 1..Len(t) /\ DOMAIN s = 1..Len(s)
  BY <1>1, LenProperties
<1>3. \A e \in Range(s) \cup {x} : e \in Range(t)
  BY <1>1, <1>2 DEF Range
<1>4. \A e \in Range(t) : e \in Range(s) \cup {x}
  BY <1>1, <1>2 DEF Range
<1> QED BY <1>1, <1>3, <1>4

\* What an answer to the n-th task does to the result: the answer is in it,
\* when there was one, and of what was in it only other answers to the same
\* task are gone.
LEMMA AnalyzeKeeps ==
  ASSUME results \in Seq(Nat \X {0, 1}), NEW n \in Nat, NEW r,
         request.inputs[n] \in SupportedTasks
  PROVE  LET made == Analyze(n, r) IN
         /\ made.results \in Seq(Nat \X {0, 1})
         /\ ChatOnce(r) = "None" => <<n, 1>> \in Range(made.results)
         /\ \A k \in Nat : <<k, 1>> \in Range(results) =>
               \/ <<k, 1>> \in Range(made.results)
               \/ request.inputs[k] = request.inputs[n]
<1> DEFINE task == request.inputs[n]
           ok == ChatOnce(r) = "None"
           mine(j) == request.inputs[results[j][1]] = task
           answer == <<n, IF ok THEN 1 ELSE 0>>
           assigned == [j \in DOMAIN results |-> IF mine(j) THEN answer ELSE results[j]]
           new == Analyze(n, r).results
<1> SUFFICES /\ new \in Seq(Nat \X {0, 1})
             /\ ok => <<n, 1>> \in Range(new)
             /\ \A k \in Nat : <<k, 1>> \in Range(results) =>
                   <<k, 1>> \in Range(new) \/ request.inputs[k] = task
  OBVIOUS
<1>1. /\ answer \in Nat \X {0, 1} /\ (ok => answer = <<n, 1>>) /\ <<n, 1>> \in Nat \X {0, 1}
      /\ \A k \in Nat : <<k, 1>>[1] = k
  OBVIOUS
<1>2. DOMAIN results = 1..Len(results) /\ Len(results) \in Nat
      /\ \A j \in DOMAIN results : results[j] \in Nat \X {0, 1}
  BY LenProperties, ElementOfSeq
<1>3. CASE task \in AssigningTasks /\ \E j \in DOMAIN results : mine(j)
  <2>1. new = assigned
    BY <1>3 DEF Analyze, Made
  <2> DEFINE m == Len(results)
  <2>2. assigned \in Seq(Nat \X {0, 1})
    <3>1. /\ DOMAIN assigned = 1..m /\ assigned = [j \in 1..m |-> assigned[j]]
          /\ \A j \in 1..m : assigned[j] \in Nat \X {0, 1}
      BY <1>1, <1>2
    <3> HIDE DEF assigned
    <3> QED BY <1>2, <3>1, SeqDef
  <2>3. ok => <<n, 1>> \in Range(assigned)
    BY <1>1, <1>3 DEF Range
  <2>4. ASSUME NEW k \in Nat, <<k, 1>> \in Range(results), request.inputs[k] # task
        PROVE  <<k, 1>> \in Range(assigned)
    <3>1. PICK j \in DOMAIN results : results[j] = <<k, 1>>
      BY <2>4 DEF Range
    <3>2. ~mine(j)
      BY <1>1, <2>4, <3>1
    <3>3. assigned[j] = <<k, 1>> /\ j \in DOMAIN assigned
      BY <3>1, <3>2
    <3> HIDE DEF assigned
    <3> QED BY <3>3 DEF Range
  <2> HIDE DEF assigned, new
  <2> QED BY <2>1, <2>2, <2>3, <2>4
<1>4. CASE task \in AssigningTasks /\ ~\E j \in DOMAIN results : mine(j)
  <2>1. new = Append(results, answer)
    BY <1>4 DEF Analyze, Made
  <2>2. new \in Seq(Nat \X {0, 1}) /\ Range(new) = Range(results) \cup {answer}
    BY <1>1, <2>1, AppendInRange
  <2> HIDE DEF new
  <2> QED BY <1>1, <2>2
<1>5. CASE task \notin AssigningTasks /\ ok
  <2>1. new = Append(results, <<n, 1>>)
    BY <1>5 DEF Analyze, Made
  <2>2. new \in Seq(Nat \X {0, 1}) /\ Range(new) = Range(results) \cup {<<n, 1>>}
    BY <1>1, <2>1, AppendInRange
  <2> HIDE DEF new
  <2> QED BY <2>2
<1>6. CASE task \notin AssigningTasks /\ ~ok
  <2>1. new = results
    BY <1>6 DEF Analyze, Made
  <2> QED BY <1>6, <2>1
<1> HIDE DEF new
<1> QED BY <1>3, <1>4, <1>5, <1>6

LEMMA PairedGrows ==
  ASSUME NEW n \in Nat
  PROVE  Append([k \in 1..n |-> <<k, 1>>], <<n + 1, 1>>) = [k \in 1..(n + 1) |-> <<k, 1>>]
<1> DEFINE s == [k \in 1..n |-> <<k, 1>>]
           x == <<n + 1, 1>>
           t == [k \in 1..(n + 1) |-> <<k, 1>>]
           S == Nat \X {1}
<1>1. s \in Seq(S) /\ t \in Seq(S) /\ x \in S /\ Len(s) = n /\ Len(t) = n + 1
  <2>1. s \in [1..n -> S] /\ t \in [1..(n + 1) -> S] /\ x \in S
    OBVIOUS
  <2>2. s \in Seq(S) /\ t \in Seq(S)
    BY <2>1, SeqDef
  <2>3. DOMAIN s = 1..n /\ DOMAIN t = 1..(n + 1)
    OBVIOUS
  <2> HIDE DEF s, t, x, S
  <2> QED BY <2>1, <2>2, <2>3, LenProperties
<1>2. /\ t[n + 1] = x /\ \A k \in 1..n : t[k] = s[k]
  OBVIOUS
<1> HIDE DEF s, t, x, S
<1> DEFINE u == Append(s, x)
<1>3. u \in Seq(S) /\ Len(u) = n + 1 /\ (\A k \in 1..n : u[k] = s[k]) /\ u[n + 1] = x
  BY <1>1, AppendProperties
<1> HIDE DEF u
<1>4. \A k \in 1..(n + 1) : u[k] = t[k]
  BY <1>2, <1>3
<1>5. u = t
  BY <1>1, <1>3, <1>4, SeqEqual
<1> QED BY <1>5 DEF u, s, x, t

\* The reply is mapped: its part of the result is added, or the call ends.
LEMMA MapHolds ==
  ASSUME IInv, Holds, Map PROVE Holds'
<1> DEFINE n == Len(log)
           r == log[n]
<1>1. /\ log # <<>> /\ log \in Seq(Replies) /\ n \in Nat \ {0} /\ Last(log) = r /\ r \in Replies
      /\ request \in Requests /\ request.kind \in Kinds
  BY EmptySeq, LenProperties, ElementOfSeq, RequestTyped DEF IInv, Shape, Map, Last
<1>2. /\ pc = "map" /\ error = "Pending" /\ UNCHANGED <<request, log, progress>>
      /\ request.valid
  BY DEF Map, IInv, Shape, Holds, Complete
<1>3. /\ results' = Effect(n, r).results
      /\ pc' = IF Failure(r) = "None" THEN "ask" ELSE "done"
      /\ error' = IF Failure(r) = "None" THEN "Pending" ELSE Failure(r)
  <2>1. Effect(n, r).error = Failure(r)
    BY <1>1, EffectFails
  <2> QED BY <1>1, <1>2, <2>1 DEF Map, Return
<1>4. Failure(r) \in {"None"} \cup Errors /\ "Pending" \notin Errors /\ "None" \notin Errors
  BY <1>1, FailureIsError DEF Errors, FetchErrors, StatusErrors
<1>5. /\ error' # "None" /\ (pc' # "map") /\ (Refused' <=> Failure(r) # "None")
      /\ pc' \in {"ask", "done"} /\ (pc' = "done" => error' # "Pending")
  BY <1>3, <1>4 DEF Refused
<1> HIDE DEF r
<1>6. Translated'
  <2> SUFFICES ASSUME request.kind = "translate"
               PROVE  results' = [k \in 1..(IF Failure(r) # "None" THEN n - 1 ELSE n) |-> <<k, 1>>]
    BY <1>1, <1>2, <1>5 DEF Translated, Paired
  <2>1. results = [k \in 1..(n - 1) |-> <<k, 1>>]
    BY <1>2 DEF Holds, Translated, Paired
  <2>2. Failure(r) = ChatOnce(r)
    BY DEF Failure
  <2>3. results' = IF Failure(r) = "None" THEN Append(results, <<n, 1>>) ELSE results
    BY <1>3, <2>2 DEF Effect, Translate, Made
  <2>4. n - 1 \in Nat /\ (n - 1) + 1 = n
    BY <1>1
  <2> HIDE DEF n
  <2>5. Append([k \in 1..(n - 1) |-> <<k, 1>>], <<n, 1>>) = [k \in 1..n |-> <<k, 1>>]
    BY <2>4, PairedGrows
  <2>6. CASE Failure(r) = "None"
    BY <2>1, <2>3, <2>5, <2>6
  <2>7. CASE Failure(r) # "None"
    BY <2>1, <2>3, <2>7
  <2> QED BY <2>6, <2>7
<1>7. Seen'
  <2> SUFFICES ASSUME request.kind = "vision" PROVE Seen'
    BY <1>2 DEF Seen
  <2>1. /\ results \in Seq(Nat \X {0, 1})
        /\ \A k \in 1..n : request.inputs[k] \in SupportedTasks
        /\ \A k \in 1..(n - 1) : Answered(k, n - 1)
    BY <1>2 DEF Holds, Seen
  <2>2. results' = Analyze(n, r).results /\ Failure(r) = ChatOnce(r)
    BY <1>3 DEF Effect, Failure
  <2>3. /\ results' \in Seq(Nat \X {0, 1})
        /\ Failure(r) = "None" => <<n, 1>> \in Range(results')
        /\ \A k \in Nat : <<k, 1>> \in Range(results) =>
              <<k, 1>> \in Range(results') \/ request.inputs[k] = request.inputs[n]
    <3>1. request.inputs[n] \in SupportedTasks /\ n \in Nat
      BY <1>1, <2>1
    <3> HIDE DEF n
    <3> QED BY <2>1, <2>2, <3>1, AnalyzeKeeps
  <2> DEFINE still(k) == \/ <<k, 1>> \in Range(results')
                         \/ \E l \in (k + 1)..n : request.inputs[l] = request.inputs[k]
  <2> HIDE DEF n
  <2>4. \A k \in 1..(n - 1) : still(k)
    <3> SUFFICES ASSUME NEW k \in 1..(n - 1) PROVE still(k)
      OBVIOUS
    <3>1. CASE <<k, 1>> \in Range(results)
      <4>1. <<k, 1>> \in Range(results') \/ request.inputs[n] = request.inputs[k]
        BY <2>3, <3>1
      <4>2. n \in (k + 1)..n
        BY <1>1
      <4> QED BY <4>1, <4>2
    <3>2. CASE \E l \in (k + 1)..(n - 1) : request.inputs[l] = request.inputs[k]
      <4>1. (k + 1)..(n - 1) \subseteq (k + 1)..n
        BY <1>1
      <4> QED BY <3>2, <4>1
    <3> QED BY <2>1, <3>1, <3>2 DEF Answered
  <2>5. Failure(r) = "None" => \A k \in 1..n : still(k)
    <3> SUFFICES ASSUME Failure(r) = "None", NEW k \in 1..n PROVE still(k)
      OBVIOUS
    <3>1. k \in 1..(n - 1) \/ k = n
      BY <1>1
    <3>2. CASE k \in 1..(n - 1)
      BY <2>4, <3>2
    <3>3. CASE k = n
      BY <2>3, <3>3
    <3> QED BY <3>1, <3>2, <3>3
  <2>6. \A k : Answered(k, n)' <=> still(k)
    BY <1>2 DEF Answered, n
  <2>7. \A k : Answered(k, Len(log))' <=> still(k)
    BY <1>2, <2>6 DEF n
  <2>8. Len(log)' = n /\ request' = request
    BY <1>2 DEF n
  <2> HIDE DEF still
  <2> QED BY <1>5, <2>1, <2>3, <2>4, <2>5, <2>7, <2>8 DEF Seen
<1>8. Single'
  <2> SUFFICES ASSUME ~Loops PROVE Single'
    BY <1>2 DEF Single, Loops
  <2>1. n = 1
    <3>1. n <= 1
      BY DEF Holds, Single
    <3> HIDE DEF n
    <3> QED BY <1>1, <3>1
  <2>2. Effect(1, log[1])' = Effect(1, log[1])
    BY <1>1, <1>2, EffectKept
  <2>3. results' = Effect(1, log[1]).results
    BY <1>3, <2>1 DEF r
  <2> QED BY <1>2, <1>5, <2>1, <2>2, <2>3 DEF Single
<1>9. Complete'
  BY <1>2, <1>5 DEF Complete
<1> QED BY <1>6, <1>7, <1>8, <1>9 DEF Holds

LEMMA StepHolds == IInv /\ Holds /\ [Next]_vars => Holds'
  BY CheckHolds, AskHolds, MapHolds, LastHolds, StutterHolds DEF Next

THEOREM HoldsInvariance == Spec => [](IInv /\ Holds)
  BY InitIInv, InitHolds, StepIInv, StepHolds, PTL DEF Spec

----------------------------------------------------------------------------

\* The last input with a value exists, and there is one.
LEMMA LastOccurrence ==
  ASSUME NEW s, NEW n \in Nat, NEW t, \E k \in 1..n : s[k] = t
  PROVE  LET last(k) == s[k] = t /\ \A l \in (k + 1)..n : s[l] # t IN
         \E k \in 1..n : last(k)
<1> DEFINE T == {d \in 0..n : s[n - d] = t /\ n - d \in 1..n}
<1>1. T \subseteq Nat /\ T # {}
  <2>1. PICK k \in 1..n : s[k] = t
    OBVIOUS
  <2>2. n - k \in 0..n /\ n - (n - k) = k
    OBVIOUS
  <2>3. n - k \in T
    BY <2>1, <2>2
  <2>4. T \subseteq Nat
    OBVIOUS
  <2> HIDE DEF T
  <2> QED BY <2>3, <2>4
<1>2. PICK d \in T : \A e \in T : d <= e
  <2> HIDE DEF T
  <2> QED BY <1>1, LeastNat
<1> DEFINE k == n - d
<1>3. d \in 0..n /\ s[k] = t /\ k \in 1..n
  OBVIOUS
<1>4. ASSUME NEW l \in (k + 1)..n PROVE s[l] # t
  <2> SUFFICES ASSUME s[l] = t PROVE FALSE
    OBVIOUS
  <2>1. l \in 1..n /\ n - l \in 0..n /\ n - (n - l) = l /\ n - l < d
    BY <1>3
  <2>2. n - l \in T
    BY <2>1
  <2>3. d <= n - l
    BY <1>2, <2>2
  <2> QED BY <1>3, <2>1, <2>3
<1> QED BY <1>3, <1>4

LEMMA ItemsFacts ==
  ASSUME NEW n \in Nat
  PROVE  /\ Len(Items(n)) = n /\ DOMAIN Items(n) = 1..n
         /\ n # 0 => Items(n) # <<>>
<1> DEFINE S == Nat \X Nat
           s == Items(n)
<1>1. s \in [1..n -> S] /\ DOMAIN s = 1..n
  BY DEF Items
<1>2. s \in Seq(S)
  BY <1>1, SeqDef
<1> HIDE DEF s, S
<1>3. Len(s) = n
  BY <1>1, <1>2, LenProperties
<1>4. n # 0 => s # <<>>
  BY <1>3, <1>2, EmptySeq
<1> QED BY <1>1, <1>3, <1>4 DEF s

\* The first broken item; 0 when there is none.
FirstBad(r) == SelectInSeq(r.items, LAMBDA x : x = "bad")

LEMMA FirstBadIs ==
  ASSUME NEW r \in Replies
  PROVE  /\ Len(r.items) \in Nat
         /\ FirstBad(r) \in 0..Len(r.items)
         /\ FirstBad(r) = 0 => \A j \in 1..Len(r.items) : r.items[j] = "good"
         /\ FirstBad(r) > 0 =>
               /\ r.items[FirstBad(r)] = "bad"
               /\ \A j \in 1..(FirstBad(r) - 1) : r.items[j] = "good"
<1> DEFINE s == r.items
           I == {i \in 1..Len(s) : s[i] = "bad"}
<1>1. s \in Seq({"good", "bad"})
  BY ReplyAssumption DEF Reply
<1>2. Len(s) \in Nat /\ \A j \in 1..Len(s) : s[j] \in {"good", "bad"}
  BY <1>1, ElementOfSeq, LenProperties
<1>3. FirstBad(r) = IF I # {} THEN Min(I) ELSE 0
  BY DEF FirstBad, SelectInSeq
<1>4. I # {} => Min(I) \in I /\ \A j \in I : Min(I) <= j
  <2> SUFFICES ASSUME I # {} PROVE Min(I) \in I /\ \A j \in I : Min(I) <= j
    OBVIOUS
  <2>1. I \subseteq Nat
    BY <1>2
  <2> HIDE DEF I
  <2>2. \E m \in I : \A j \in I : m <= j
    BY <2>1, LeastNat
  <2> QED BY <2>2 DEF Min
<1> DEFINE b == FirstBad(r)
<1> HIDE DEF s, b
<1>5. CASE I = {}
  <2>1. b = 0
    BY <1>3, <1>5 DEF b
  <2>2. \A j \in 1..Len(s) : s[j] = "good"
    BY <1>2, <1>5
  <2> QED BY <1>2, <2>1, <2>2 DEF s, b
<1>6. CASE I # {}
  <2>1. b \in I /\ \A j \in I : b <= j
    BY <1>3, <1>4, <1>6 DEF b
  <2>2. b \in 1..Len(s) /\ s[b] = "bad"
    BY <2>1
  <2>3. ASSUME NEW j \in 1..(b - 1) PROVE s[j] = "good"
    <3>1. j \in 1..Len(s) /\ ~(b <= j)
      BY <1>2, <2>2
    <3>2. j \notin I
      BY <2>1, <3>1
    <3> QED BY <1>2, <3>1, <3>2
  <2> QED BY <1>2, <2>2, <2>3 DEF s, b
<1> QED BY <1>5, <1>6

\* A call that succeeds has everything that was asked for: a translation or a
\* vector per text and in their order, every image, and an answer to each task.
THEOREM OnePerInputAlways == Spec => []OnePerInput
<1>1. IInv /\ Holds => OnePerInput
  <2> SUFFICES ASSUME IInv, Holds, error = "None" PROVE OnePerInput
    BY DEF OnePerInput
  <2> DEFINE n == Len(request.inputs)
             last(t) == CHOOSE k \in 1..n :
                 /\ request.inputs[k] = t
                 /\ \A l \in (k + 1)..n : request.inputs[l] # t
  <2>1. /\ pc # "map" /\ ~Refused /\ request.valid /\ Len(log) = Rounds
        /\ progress = IF request.kind = "image" /\ request.onProgress THEN 1 ELSE 0
    BY DEF IInv, Shape, Holds, Complete, Refused
  <2>2. /\ request \in Requests /\ request.kind \in Kinds /\ n \in Nat
        /\ log \in Seq(Replies) /\ Len(log) \in Nat
    BY RequestTyped, LenProperties DEF IInv, Shape
  <2>3. \A k \in 1..Len(log) : Failure(log[k]) = "None"
    BY DEF IInv, Replied, Usable
  <2>4. ~Loops => Len(log) = 1 /\ log # <<>> /\ log[1] \in Replies /\ Failure(log[1]) = "None"
                  /\ results = Effect(1, log[1]).results
    <3> SUFFICES ASSUME ~Loops PROVE Len(log) = 1 /\ log # <<>> /\ log[1] \in Replies
                     /\ Failure(log[1]) = "None" /\ results = Effect(1, log[1]).results
      OBVIOUS
    <3>1. Len(log) = 1
      BY <2>1 DEF Rounds
    <3>2. log # <<>> /\ log[1] \in Replies
      <4>1. log # <<>>
        BY <3>1, EmptySeq
      <4>2. log[1] \in Replies
        <5> HIDE DEF n
        <5> QED BY <2>2, <3>1, ElementOfSeq
      <4> QED BY <4>1, <4>2
    <3> QED BY <2>1, <2>3, <3>1, <3>2 DEF Holds, Single
  <2>5. request.kind = "translate" => results = [k \in 1..n |-> <<k, 1>>]
    BY <2>1 DEF Holds, Translated, Paired, Rounds, Loops
  <2>6. request.kind = "embed" => results = [i \in 1..n |-> <<1, i>>]
    <3> SUFFICES ASSUME request.kind = "embed" PROVE results = [i \in 1..n |-> <<1, i>>]
      OBVIOUS
    <3>1. Embed(log[1]).error = "None" /\ results = Embed(log[1]).results
      BY <2>4 DEF Loops, Failure, Effect
    <3>2. results = Items(Len(log[1].items)) /\ Len(log[1].items) = n
      BY <3>1 DEF Embed, Made, Whole
    <3> QED BY <3>2 DEF Items
  <2>7. request.kind = "image" =>
          /\ Len(results) = Len(log[1].items) /\ results # <<>>
          /\ Range(log[1].items) = {"good"}
    <3> SUFFICES ASSUME request.kind = "image"
                 PROVE  /\ Len(results) = Len(log[1].items) /\ results # <<>>
                        /\ Range(log[1].items) = {"good"}
      OBVIOUS
    <3> DEFINE r == log[1]
               b == FirstBad(r)
    <3>1. r \in Replies /\ Generate(r).error = "None" /\ results = Generate(r).results
      BY <2>4 DEF Loops, Failure, Effect
    <3>2. r.items \in Seq({"good", "bad"})
      BY <3>1, ReplyAssumption DEF Reply
    <3> HIDE DEF r
    <3>3. /\ Len(r.items) \in Nat /\ b \in 0..Len(r.items)
          /\ b = 0 => \A j \in 1..Len(r.items) : r.items[j] = "good"
      BY <3>1, FirstBadIs
    <3>4. Generate(r) = CASE PostJson(r) # "None" -> Made(PostJson(r), <<>>)
                          [] PostJson(r) = "None" /\ b > 0 -> Made("Internal", Items(b - 1))
                          [] PostJson(r) = "None" /\ r.items = <<>> -> Made("Internal", <<>>)
                          [] OTHER -> Made("None", Items(Len(r.items)))
      BY DEF Generate, FirstBad
    <3> HIDE DEF b
    <3>5. PostJson(r) = "None" /\ ~(b > 0) /\ r.items # <<>>
      BY <3>1, <3>4 DEF Made
    <3>6. results = Items(Len(r.items))
      BY <3>1, <3>4, <3>5 DEF Made
    <3>7. Len(r.items) # 0
      BY <3>2, <3>5, EmptySeq
    <3>8. Len(results) = Len(r.items) /\ results # <<>>
      BY <3>3, <3>6, <3>7, ItemsFacts
    <3>9. \A j \in 1..Len(r.items) : r.items[j] = "good"
      BY <3>3, <3>5
    <3>10. DOMAIN r.items = 1..Len(r.items) /\ 1 \in 1..Len(r.items)
      BY <3>2, <3>3, <3>7, LenProperties
    <3>11. Range(r.items) = {"good"}
      BY <3>9, <3>10 DEF Range
    <3> QED BY <3>8, <3>11 DEF r
  <2>8. ASSUME request.kind = "vision", NEW t \in Range(request.inputs)
        PROVE  t \in SupportedTasks /\ <<last(t), 1>> \in Range(results)
    <3>1. Len(log) = n /\ request.inputs \in Seq(STRING)
      BY <2>1, <2>2, <2>8, RequestTyped DEF Rounds, Loops
    <3>2. DOMAIN request.inputs = 1..n
      BY <3>1, LenProperties
    <3>3. PICK k \in 1..n : request.inputs[k] = t
      BY <3>2 DEF Range
    <3>4. /\ \A j \in 1..n : request.inputs[j] \in SupportedTasks
          /\ \A j \in 1..n : Answered(j, n)
      BY <2>1, <2>8, <3>1 DEF Holds, Seen
    <3>5. /\ last(t) \in 1..n /\ request.inputs[last(t)] = t
          /\ \A l \in (last(t) + 1)..n : request.inputs[l] # t
      <4> DEFINE s == request.inputs
      <4>1. \E j \in 1..n : s[j] = t
        BY <3>3
      <4> HIDE DEF n, s
      <4>2. \E j \in 1..n : s[j] = t /\ \A l \in (j + 1)..n : s[l] # t
        BY <2>2, <4>1, LastOccurrence
      <4> QED BY <4>2 DEF s
    <3>6. ~\E l \in (last(t) + 1)..n : request.inputs[l] = request.inputs[last(t)]
      BY <3>5
    <3> HIDE DEF n, last
    <3> QED BY <3>3, <3>4, <3>5, <3>6 DEF Answered
  <2> QED BY <2>1, <2>5, <2>6, <2>7, <2>8 DEF OnePerInput
<1> QED BY <1>1, HoldsInvariance, PTL

\* A call that fails half-way has what the replies before the failing one
\* gave, and every image before the broken one.
THEOREM EarlierResultsSurviveAlways == Spec => []EarlierResultsSurvive
<1>1. IInv /\ Holds => EarlierResultsSurvive
  <2> SUFFICES ASSUME IInv, Holds, pc = "done", error # "None", log # <<>>
               PROVE  EarlierResultsSurvive
    BY DEF EarlierResultsSurvive
  <2>1. /\ log \in Seq(Replies) /\ Len(log) \in Nat \ {0} /\ log[1] \in Replies
        /\ request \in Requests
    BY LenProperties, EmptySeq, ElementOfSeq DEF IInv, Shape
  <2>2. Refused
    BY DEF Refused, Holds, Complete
  <2>3. ASSUME request.kind = "vision", NEW k \in 1..(Len(log) - 1)
        PROVE  \/ <<k, 1>> \in Range(results)
               \/ \E l \in (k + 1)..Len(log) : request.inputs[l] = request.inputs[k]
    BY <2>3 DEF Holds, Seen, Answered
  <2>4. ASSUME request.kind = "image", NEW b \in 1..Len(log[1].items),
               PostJson(log[1]) = "None", log[1].items[b] = "bad",
               \A i \in 1..(b - 1) : log[1].items[i] = "good"
        PROVE  results = [i \in 1..(b - 1) |-> <<1, i>>]
    <3> DEFINE r == log[1]
               f == FirstBad(r)
    <3>1. r \in Replies /\ results = Generate(r).results
      BY <2>1, <2>4 DEF Holds, Single, Loops, Effect
    <3>2. /\ PostJson(r) = "None" /\ b \in 1..Len(r.items) /\ r.items[b] = "bad"
          /\ \A i \in 1..(b - 1) : r.items[i] = "good"
      BY <2>4
    <3> HIDE DEF r
    <3>3. /\ Len(r.items) \in Nat /\ f \in 0..Len(r.items)
          /\ f = 0 => \A i \in 1..Len(r.items) : r.items[i] = "good"
          /\ f > 0 => /\ r.items[f] = "bad"
                      /\ \A i \in 1..(f - 1) : r.items[i] = "good"
      BY <3>1, FirstBadIs
    <3>4. Generate(r) = CASE PostJson(r) # "None" -> Made(PostJson(r), <<>>)
                          [] PostJson(r) = "None" /\ f > 0 -> Made("Internal", Items(f - 1))
                          [] PostJson(r) = "None" /\ r.items = <<>> -> Made("Internal", <<>>)
                          [] OTHER -> Made("None", Items(Len(r.items)))
      BY DEF Generate, FirstBad
    <3> HIDE DEF f
    <3>5. f > 0
      BY <3>2, <3>3
    <3>6. ~(b < f) /\ ~(f < b)
      BY <3>2, <3>3, <3>5
    <3>7. f = b
      BY <3>2, <3>3, <3>6
    <3>8. results = Items(b - 1)
      <4>1. Generate(r) = Made("Internal", Items(f - 1))
        BY <3>2, <3>4, <3>5
      <4> QED BY <3>1, <3>7, <4>1 DEF Made
    <3> QED BY <3>8 DEF Items
  <2>5. request.kind = "translate" => results = [k \in 1..(Len(log) - 1) |-> <<k, 1>>]
    BY <2>2 DEF Holds, Translated, Paired
  <2> QED BY <2>3, <2>4, <2>5 DEF EarlierResultsSurvive
<1> QED BY <1>1, HoldsInvariance, PTL

----------------------------------------------------------------------------

\* Sequences and the least and the largest of a set, for the payloads.
\* Two sequences, one behind the other.
Joined(S, u, s, t) ==
  /\ u \in Seq(S) /\ Len(u) = Len(s) + Len(t)
  /\ \A i \in 1..Len(s) : u[i] = s[i]
  /\ \A i \in 1..Len(t) : u[Len(s) + i] = t[i]

LEMMA TwoParts ==
  ASSUME NEW S, NEW s \in Seq(S), NEW t \in Seq(S), NEW u, u = s \o t
  PROVE  Joined(S, u, s, t)
<1> DEFINE m == Len(s)
           l == Len(t)
<1>1. m \in Nat /\ l \in Nat
  BY LenProperties
<1>2. u \in Seq(S) /\ Len(u) = m + l /\ \A i \in 1..m : u[i] = s[i]
  BY ConcatProperties
<1>3. \A i \in 1..l : u[m + i] = t[i]
  <2> TAKE i \in 1..l
  <2>1. u[m + i] = IF m + i <= m THEN s[m + i] ELSE t[m + i - m]
    <3>1. m + i \in 1..(m + l)
      BY <1>1
    <3> QED BY <3>1, ConcatProperties
  <2>2. ~(m + i <= m) /\ m + i - m = i
    BY <1>1
  <2> QED BY <2>1, <2>2
<1> QED BY <1>2, <1>3 DEF Joined

\* A part of a sequence.
Cut(S, u, s, m, n) ==
  /\ u \in Seq(S) /\ Len(u) = n - m + 1
  /\ \A i \in 1..(n - m + 1) : u[i] = s[m + i - 1]

LEMMA CutIs ==
  ASSUME NEW S, NEW s \in Seq(S), NEW m \in Nat \ {0}, NEW n \in Nat, n <= Len(s), m <= n + 1
  PROVE  Cut(S, SubSeq(s, m, n), s, m, n)
<1>1. \A i \in m..n : s[i] \in S
  <2>1. Len(s) \in Nat /\ \A i \in 1..Len(s) : s[i] \in S
    BY ElementOfSeq, LenProperties
  <2> QED BY <2>1
<1>2. m <= n \/ m = n + 1
  OBVIOUS
<1>3. (IF m <= n THEN n - m + 1 ELSE 0) = n - m + 1
  BY <1>2
<1> DEFINE u == SubSeq(s, m, n)
<1>4. /\ u \in Seq(S) /\ Len(u) = IF m <= n THEN n - m + 1 ELSE 0
      /\ \A i \in 1..(n - m + 1) : u[i] = s[m + i - 1]
  BY <1>1, SubSeqProperties
<1> HIDE DEF u
<1>5. Cut(S, u, s, m, n)
  BY <1>3, <1>4 DEF Cut
<1> QED BY <1>5 DEF u

Halves(S, s, a, b) == a \in Seq(S) /\ b \in Seq(S) /\ a \o b = s

\* A sequence is its two parts, wherever it is cut.
LEMMA CutInTwo ==
  ASSUME NEW S, NEW s \in Seq(S), NEW n \in 0..Len(s),
         NEW a, a = SubSeq(s, 1, n), NEW b, b = SubSeq(s, n + 1, Len(s))
  PROVE  Halves(S, s, a, b)
<1> DEFINE l == Len(s)
           k == n + 1
           u == a \o b
<1>1. l \in Nat /\ n \in Nat /\ n <= l /\ k \in Nat \ {0} /\ k <= l + 1
  BY LenProperties
<1>2. Cut(S, SubSeq(s, 1, n), s, 1, n)
  BY <1>1, CutIs
<1>3. Cut(S, SubSeq(s, k, l), s, k, l)
  <2> HIDE DEF k
  <2> QED BY <1>1, CutIs
<1>4. Cut(S, a, s, 1, n) /\ Cut(S, b, s, k, l)
  BY <1>2, <1>3
<1>5. a \in Seq(S) /\ b \in Seq(S)
  BY <1>4 DEF Cut
<1>6. Joined(S, u, a, b)
  BY <1>5, TwoParts
<1> HIDE DEF u, l, k
<1>7. Len(a) = n /\ Len(b) = l - n
  <2>1. n - 1 + 1 = n /\ l - k + 1 = l - n
    BY <1>1 DEF k
  <2> QED BY <1>4, <2>1 DEF Cut
<1>8. u \in Seq(S) /\ Len(u) = l
  <2>1. n + (l - n) = l
    BY <1>1
  <2> QED BY <1>6, <1>7, <2>1 DEF Joined
<1>9. \A i \in 1..l : u[i] = s[i]
  <2> TAKE i \in 1..l
  <2>1. CASE i <= n
    <3>1. i \in 1..n /\ i \in 1..(n - 1 + 1) /\ 1 + i - 1 = i
      BY <1>1, <2>1
    <3> QED BY <1>4, <1>6, <1>7, <3>1 DEF Cut, Joined
  <2>2. CASE ~(i <= n)
    <3> DEFINE j == i - n
    <3>1. j \in 1..(l - n) /\ j \in 1..(l - k + 1) /\ n + j = i /\ k + j - 1 = i
      BY <1>1, <2>2 DEF k
    <3> HIDE DEF j
    <3>2. u[n + j] = b[j]
      BY <1>6, <1>7, <3>1 DEF Joined
    <3>3. b[j] = s[k + j - 1]
      BY <1>4, <3>1 DEF Cut
    <3> QED BY <3>1, <3>2, <3>3
  <2> QED BY <2>1, <2>2
<1>10. u = s
  BY <1>8, <1>9, SeqEqual DEF l
<1> QED BY <1>5, <1>10 DEF u, Halves

----------------------------------------------------------------------------

LEMMA OfOne ==
  ASSUME NEW S, NEW x \in S PROVE <<x>> \in Seq(S) /\ Len(<<x>>) = 1 /\ <<x>>[1] = x
  OBVIOUS

LEMMA OfTwo ==
  ASSUME NEW S, NEW x \in S, NEW y \in S
  PROVE  /\ <<x, y>> \in Seq(S) /\ Len(<<x, y>>) = 2
         /\ <<x, y>>[1] = x /\ <<x, y>>[2] = y
  OBVIOUS

LEMMA OfThree ==
  ASSUME NEW S, NEW x \in S PROVE <<x, x, x>> \in Seq(S) /\ Len(<<x, x, x>>) = 3
  OBVIOUS

LEMMA OfFour ==
  ASSUME NEW S, NEW x \in S, NEW y \in S, NEW z \in S, NEW w \in S
  PROVE  /\ <<x, y, z, w>> \in Seq(S) /\ Len(<<x, y, z, w>>) = 4
         /\ <<x, y, z, w>>[1] = x /\ <<x, y, z, w>>[2] = y
         /\ <<x, y, z, w>>[3] = z /\ <<x, y, z, w>>[4] = w
  OBVIOUS

LEMMA OfSix ==
  ASSUME NEW S, NEW x \in S, NEW y \in S, NEW z \in S
  PROVE  LET s == <<x, y, x, z, x, x>>
         IN  /\ s \in Seq(S) /\ Len(s) = 6 /\ s[1] = x /\ s[2] = y /\ s[3] = x
             /\ s[4] = z /\ s[5] = x /\ s[6] = x
  OBVIOUS

\* A sequence over a set is one over a larger set.
LEMMA Widened ==
  ASSUME NEW S, NEW T, S \subseteq T, NEW s \in Seq(S) PROVE s \in Seq(T)
<1>1. Len(s) \in Nat /\ DOMAIN s = 1..Len(s) /\ s = [i \in 1..Len(s) |-> s[i]]
  BY LenProperties
<1>2. \A i \in 1..Len(s) : s[i] \in T
  BY ElementOfSeq
<1> QED BY <1>1, <1>2, SeqByIndex

LEMMA MaxIs ==
  ASSUME NEW T, T \subseteq Int, NEW m \in T, \A i \in T : i <= m PROVE Max(T) = m
<1>1. m \in T /\ \A y \in T : m >= y
  OBVIOUS
<1>2. Max(T) \in T /\ \A y \in T : Max(T) >= y
  BY <1>1 DEF Max
<1>3. Max(T) >= m /\ m >= Max(T) /\ Max(T) \in Int /\ m \in Int
  BY <1>1, <1>2
<1> QED BY <1>3

LEMMA MinIs ==
  ASSUME NEW T, T \subseteq Int, NEW m \in T, \A i \in T : m <= i PROVE Min(T) = m
<1>1. m \in T /\ \A y \in T : m <= y
  OBVIOUS
<1>2. Min(T) \in T /\ \A y \in T : Min(T) <= y
  BY <1>1 DEF Min
<1>3. Min(T) >= m /\ m >= Min(T) /\ Min(T) \in Int /\ m \in Int
  BY <1>1, <1>2
<1> QED BY <1>3

LEMMA FirstIs ==
  ASSUME NEW T, T \subseteq Nat, T # {} PROVE Min(T) \in T /\ \A i \in T : Min(T) <= i
<1>1. PICK m \in T : \A i \in T : m <= i
  BY LeastNat
<1>2. Min(T) = m
  <2>1. T \subseteq Int
    OBVIOUS
  <2> QED BY <1>1, <2>1, MinIs
<1> QED BY <1>1, <1>2

LEMMA FourParts ==
  ASSUME NEW S, NEW a \in Seq(S), NEW b \in Seq(S), NEW c \in Seq(S), NEW d \in Seq(S)
  PROVE  (a \o b) \o (c \o d) = (a \o (b \o c)) \o d
<1>1. \A s, t, u \in Seq(S) : (s \o t) \o u = s \o (t \o u)
  BY ConcatAssociative
<1>2. a \o b \in Seq(S)
  BY ConcatProperties
<1>3. (a \o b) \o (c \o d) = ((a \o b) \o c) \o d
  BY <1>1, <1>2, Zenon
<1>4. (a \o b) \o c = a \o (b \o c)
  BY <1>1, Zenon
<1> QED BY <1>3, <1>4, Zenon

Regrouped(e, r, x, g) ==
  (<<e>> \o r) \o (<<x>> \o g) = (<<e>> \o Append(r, x)) \o g

LEMMA OneMore ==
  ASSUME NEW S, NEW e \in S, NEW r \in Seq(S), NEW x \in S, NEW g \in Seq(S)
  PROVE  Regrouped(e, r, x, g)
<1> DEFINE a == <<e>>
           b == <<x>>
<1>1. a \in Seq(S) /\ b \in Seq(S)
  OBVIOUS
<1>2. Append(r, x) = r \o b
  BY AppendIsConcat
<1> HIDE DEF a, b
<1>3. (a \o r) \o (b \o g) = (a \o (r \o b)) \o g
  BY <1>1, FourParts
<1> QED BY <1>2, <1>3 DEF a, b, Regrouped

----------------------------------------------------------------------------

Code == 0..65

Buffer == 0..4095

\* What Decode's loop can have when no foreign character came.
Decoding ==
  [ok : {TRUE}, ended : BOOLEAN, buffer : Buffer, bits : {0, 2, 4, 6}, value : Seq(Byte)]

LEMMA ShiftedType ==
  ASSUME NEW b \in Buffer, NEW k \in {0, 2, 4} PROVE Base!Shifted(b, k) % 256 \in Byte
<1> DEFINE x == Base!Shifted(b, k)
<1>1. b \in Int
  BY DEF Buffer
<1>2. x \in Int
  <2>1. CASE k = 0
    BY <1>1, <2>1 DEF Base!Shifted
  <2>2. CASE k = 2
    BY <1>1, <2>2 DEF Base!Shifted
  <2>3. CASE k = 4
    BY <1>1, <2>3 DEF Base!Shifted
  <2> QED BY <2>1, <2>2, <2>3
<1> HIDE DEF x
<1>3. x % 256 \in Byte
  BY <1>2 DEF Byte
<1> QED BY <1>3 DEF x

Pushed(b, c) == (64 * b + c) % 4096

Turned(d, c, e) ==
  /\ e \in Decoding
  /\ d.ended \/ c = 65 => e = d
  /\ ~d.ended /\ c = 64 => e.ended /\ e.value = d.value
  /\ ~d.ended /\ c < 64 =>
       /\ ~e.ended /\ e.buffer = Pushed(d.buffer, c)
       /\ d.bits = 0 => e.bits = 6 /\ e.value = d.value
       /\ d.bits # 0 =>
            /\ e.bits = d.bits - 2
            /\ e.value = Append(d.value, Base!Shifted(e.buffer, e.bits) % 256)

LEMMA DecodeCharIs ==
  ASSUME NEW d \in Decoding, NEW c \in Code PROVE Turned(d, c, Base!DecodeChar(d, c))
<1> DEFINE b == Pushed(d.buffer, c)
           e == Base!DecodeChar(d, c)
<1>1. /\ d.ok = TRUE /\ d.ended \in BOOLEAN /\ d.buffer \in Buffer /\ d.bits \in {0, 2, 4, 6}
      /\ d.value \in Seq(Byte) /\ c \in 0..65
      /\ d = [ok |-> d.ok, ended |-> d.ended, buffer |-> d.buffer, bits |-> d.bits,
              value |-> d.value]
  BY DEF Decoding, Code
<1>2. b \in Buffer
  <2> DEFINE y == d.buffer
             x == 64 * y + c
  <2>1. y \in Buffer /\ c \in 0..65
    BY <1>1
  <2> HIDE DEF y
  <2>4. y \in Int /\ c \in Int
    BY <2>1 DEF Buffer
  <2>2. x \in Int
    BY <2>4
  <2> HIDE DEF x
  <2>3. x % 4096 \in 0..4095
    BY <2>2
  <2> QED BY <2>3 DEF x, y, Buffer, Pushed
<1>3. e = IF ~d.ok \/ d.ended \/ c = 65 THEN d
          ELSE IF c = 64 THEN [d EXCEPT !.ended = TRUE]
          ELSE IF c = 66 THEN [d EXCEPT !.ok = FALSE]
          ELSE IF d.bits < 2 THEN [d EXCEPT !.buffer = b, !.bits = @ + 6]
          ELSE [d EXCEPT !.buffer = b, !.bits = @ - 2,
                         !.value = Append(@, Base!Shifted(b, d.bits - 2) % 256)]
  BY DEF Pushed, Base!DecodeChar, Base!PAD, Base!BLANK, Base!FOREIGN
<1> SUFFICES Turned(d, c, e)
  OBVIOUS
<1> HIDE DEF e, b
<1>4. CASE d.ended \/ c = 65
  <2>1. e = d
    BY <1>3, <1>4
  <2>2. (~d.ended => c = 65) /\ ~(65 < 64)
    BY <1>4
  <2> HIDE DEF e
  <2>3. Turned(d, c, d)
    BY <2>2 DEF Turned
  <2> QED BY <2>1, <2>3
<1>5. CASE ~d.ended /\ c = 64
  <2>1. e = [d EXCEPT !.ended = TRUE]
    BY <1>1, <1>3, <1>5
  <2>2. e \in Decoding /\ e.ended /\ e.value = d.value
    BY <1>1, <2>1 DEF Decoding
  <2> QED BY <1>5, <2>2 DEF Turned
<1>6. CASE ~d.ended /\ c < 64 /\ d.bits = 0
  <2>1. e = [d EXCEPT !.buffer = b, !.bits = 6]
    BY <1>1, <1>3, <1>6
  <2>2. e \in Decoding /\ ~e.ended /\ e.buffer = b /\ e.bits = 6 /\ e.value = d.value
    BY <1>1, <1>2, <1>6, <2>1 DEF Decoding
  <2> QED BY <1>6, <2>2 DEF Turned, b
<1>7. CASE ~d.ended /\ c < 64 /\ d.bits # 0
  <2> DEFINE x == Base!Shifted(b, d.bits - 2) % 256
             v == Append(d.value, x)
             k == d.bits - 2
  <2>1. k \in {0, 2, 4} /\ ~(d.bits < 2)
    BY <1>1, <1>7
  <2>2. x \in Byte
    <3> HIDE DEF k
    <3>1. Base!Shifted(b, k) % 256 \in Byte
      BY <1>2, <2>1, ShiftedType
    <3> QED BY <3>1 DEF k
  <2> HIDE DEF x
  <2>3. v \in Seq(Byte)
    BY <1>1, <2>2, AppendProperties
  <2>4. e = [d EXCEPT !.buffer = b, !.bits = k, !.value = v]
    BY <1>1, <1>3, <1>7, <2>1 DEF x
  <2> HIDE DEF v, k
  <2>5. e \in Decoding /\ ~e.ended /\ e.buffer = b /\ e.bits = k /\ e.value = v
    BY <1>1, <1>2, <1>7, <2>1, <2>3, <2>4 DEF Decoding
  <2>6. v = Append(d.value, Base!Shifted(e.buffer, e.bits) % 256) /\ k = d.bits - 2
    BY <2>5 DEF v, x, k
  <2> QED BY <1>7, <2>5, <2>6 DEF Turned, b
<1>8. c = 65 \/ c = 64 \/ c < 64
  <2>1. c \in 0..65
    BY <1>1
  <2> QED BY <2>1
<1>9. d.ended \in BOOLEAN
  BY <1>1
<1> QED BY <1>4, <1>5, <1>6, <1>7, <1>8, <1>9

\* What the low bits of the buffer are after a character.
LastByte(x, c) == (64 * x + c) % 256

Low(b, c, e) ==
  /\ e % 64 = c
  /\ Base!Shifted(e, 4) % 256 = 4 * (b % 64) + c \div 16
  /\ Base!Shifted(e, 2) % 256 = (16 * (b % 64) + c \div 4) % 256
  /\ Base!Shifted(e, 0) % 256 = LastByte(b % 64, c)

LEMMA LowBits ==
  ASSUME NEW b \in Buffer, NEW c \in 0..63 PROVE Low(b, c, Pushed(b, c))
<1> DEFINE e == Pushed(b, c)
           q == b \div 64
           r == b % 64
<1>1. q \in Nat /\ r \in 0..63 /\ b = 64 * q + r
  BY DEF Buffer
<1> HIDE DEF q, r
<1>2. e = 64 * r + c
  <2>1. 64 * b + c = 4096 * q + (64 * r + c) /\ 64 * r + c \in 0..4095
    BY <1>1
  <2> QED BY <1>1, <2>1 DEF Pushed
<1> HIDE DEF e
<1>3. e % 64 = c /\ e % 256 = (64 * r + c) % 256
  BY <1>1, <1>2
<1>4. (e \div 16) % 256 = 4 * r + c \div 16
  BY <1>1, <1>2
<1>5. (e \div 4) % 256 = (16 * r + c \div 4) % 256
  BY <1>1, <1>2
<1>6. Low(b, c, e)
  BY <1>3, <1>4, <1>5 DEF Low, Base!Shifted, r, LastByte
<1> QED BY <1>6 DEF e

----------------------------------------------------------------------------

LEMMA PrefixOver ==
  ASSUME NEW S, NEW s \in Seq(S), NEW t \in Seq(S), NEW u \in Seq(S), IsPrefix(s, t), IsPrefix(t, u)
  PROVE  IsPrefix(s, u)
<1>1. Len(s) \in Nat /\ Len(t) \in Nat /\ Len(u) \in Nat
  BY LenProperties
<1>2. Len(s) <= Len(t) /\ \A i \in 1..Len(s) : s[i] = t[i]
  BY PrefixByIndex
<1>3. Len(t) <= Len(u) /\ \A i \in 1..Len(t) : t[i] = u[i]
  BY PrefixByIndex
<1>4. Len(s) <= Len(u) /\ \A i \in 1..Len(s) : s[i] = u[i]
  BY <1>1, <1>2, <1>3
<1> QED BY <1>4, PrefixByIndex

\* Decoding further never takes bytes back, and goes on without a failure.
LEMMA DecodeGrows ==
  ASSUME NEW d \in Decoding, NEW rest \in Seq(Code)
  PROVE  Fold(d, rest) \in Decoding /\ IsPrefix(d.value, Fold(d, rest).value)
<1> DEFINE R == {e \in Decoding : IsPrefix(d.value, e.value)}
<1>1. d \in R
  <2>1. d.value \in Seq(Byte)
    BY DEF Decoding
  <2>2. IsPrefix(d.value, d.value)
    BY <2>1, PrefixByIndex, LenProperties
  <2> QED BY <2>2
<1>2. \A e \in R, c \in Code : Base!DecodeChar(e, c) \in R
  <2> SUFFICES ASSUME NEW e \in Decoding, IsPrefix(d.value, e.value), NEW c \in Code
               PROVE  Base!DecodeChar(e, c) \in R
    OBVIOUS
  <2> DEFINE f == Base!DecodeChar(e, c)
  <2>1. Turned(e, c, f)
    BY DecodeCharIs
  <2> HIDE DEF f
  <2>2. f \in Decoding /\ d.value \in Seq(Byte) /\ e.value \in Seq(Byte) /\ f.value \in Seq(Byte)
        /\ e.ended \in BOOLEAN /\ e.bits \in {0, 2, 4, 6} /\ f.bits \in {0, 2, 4, 6}
        /\ f.buffer \in Buffer
    BY <2>1 DEF Turned, Decoding
  <2>3. IsPrefix(e.value, f.value)
    <3>1. CASE f.value = e.value
      BY <2>2, <3>1, PrefixByIndex, LenProperties
    <3>2. CASE f.value # e.value
      <4> DEFINE x == Base!Shifted(f.buffer, f.bits) % 256
      <4>1. f.value = Append(e.value, x)
        BY <2>1, <2>2, <3>2 DEF Turned, Code
      <4>2. f.bits = e.bits - 2
        BY <2>1, <2>2, <3>2 DEF Turned, Code
      <4>3. f.bits \in {0, 2, 4}
        BY <2>2, <4>2
      <4>4. x \in Byte
        <5> DEFINE b == f.buffer
                   k == f.bits
        <5>1. b \in Buffer /\ k \in {0, 2, 4}
          BY <2>2, <4>3
        <5> HIDE DEF b, k
        <5>2. Base!Shifted(b, k) % 256 \in Byte
          BY <5>1, ShiftedType
        <5> QED BY <5>2 DEF b, k
      <4> HIDE DEF x
      <4> QED BY <2>2, <4>1, <4>4, PrefixAppend
    <3> QED BY <3>1, <3>2
  <2>4. IsPrefix(d.value, f.value)
    BY <2>2, <2>3, PrefixOver
  <2> QED BY <2>2, <2>4 DEF f
<1> HIDE DEF R
<1>3. Fold(d, rest) \in R
  BY <1>1, <1>2, FoldType
<1> QED BY <1>3 DEF R

\* The four characters of up to three bytes.
Grouped(g, n, b1, b2, b3) ==
  /\ g \in Seq(Code) /\ Len(g) = 4
  /\ g[1] = b1 \div 4 /\ g[1] \in 0..63
  /\ g[2] = 16 * (b1 % 4) + b2 \div 16 /\ g[2] \in 0..63
  /\ n = 1 => g[3] = 64
  /\ n # 1 => g[3] = 4 * (b2 % 16) + b3 \div 64 /\ g[3] \in 0..63
  /\ n # 3 => g[4] = 64
  /\ n = 3 => g[4] = b3 % 64 /\ g[4] \in 0..63

Sextets(v, b1, b2, b3) ==
  /\ v \div 262144 = b1 \div 4
  /\ (v \div 4096) % 64 = 16 * (b1 % 4) + b2 \div 16
  /\ (v \div 64) % 64 = 4 * (b2 % 16) + b3 \div 64
  /\ v % 64 = b3 % 64

LEMMA SextetsAre ==
  ASSUME NEW b1 \in Byte, NEW b2 \in Byte, NEW b3 \in Byte
  PROVE  Sextets(65536 * b1 + 256 * b2 + b3, b1, b2, b3)
<1> DEFINE v == 65536 * b1 + 256 * b2 + b3
           h1 == b1 \div 4
           l1 == b1 % 4
           h2 == b2 \div 16
           l2 == b2 % 16
           h3 == b3 \div 64
           l3 == b3 % 64
<1>1. h1 \in 0..63 /\ l1 \in 0..3 /\ b1 = 4 * h1 + l1
  BY SMT DEF Byte
<1>2. h2 \in 0..15 /\ l2 \in 0..15 /\ b2 = 16 * h2 + l2
  BY SMT DEF Byte
<1>3. h3 \in 0..3 /\ l3 \in 0..63 /\ b3 = 64 * h3 + l3
  BY SMT DEF Byte
<1> HIDE DEF h1, l1, h2, l2, h3, l3
<1>4. v = 262144 * h1 + 65536 * l1 + 4096 * h2 + 256 * l2 + 64 * h3 + l3
  BY <1>1, <1>2, <1>3, SMT
<1> HIDE DEF v
<1>5. v \div 262144 = h1
  BY <1>1, <1>2, <1>3, <1>4, SMT
<1>6. (v \div 4096) % 64 = 16 * l1 + h2
  <2>1. v \div 4096 = 64 * h1 + 16 * l1 + h2
    BY <1>1, <1>2, <1>3, <1>4, SMT
  <2> QED BY <1>1, <1>2, <2>1, SMT
<1>7. (v \div 64) % 64 = 4 * l2 + h3
  <2>1. v \div 64 = 4096 * h1 + 1024 * l1 + 64 * h2 + 4 * l2 + h3
    BY <1>1, <1>2, <1>3, <1>4, SMT
  <2> QED BY <1>1, <1>2, <1>3, <2>1, SMT
<1>8. v % 64 = l3
  BY <1>1, <1>2, <1>3, <1>4, SMT
<1>9. Sextets(v, b1, b2, b3)
  BY <1>5, <1>6, <1>7, <1>8, SMT DEF Sextets, h1, l1, h2, l2, h3, l3
<1> QED BY <1>9, SMT DEF v

LEMMA BitsOf ==
  ASSUME NEW b \in Byte
  PROVE  /\ b \div 4 \in 0..63 /\ b % 4 \in 0..3
         /\ b \div 16 \in 0..15 /\ b % 16 \in 0..15
         /\ b \div 64 \in 0..3 /\ b % 64 \in 0..63
  BY SMT DEF Byte

LEMMA GroupIs ==
  ASSUME NEW bytes \in Seq(Byte), NEW n \in {1, 2, 3}, Len(bytes) = n,
         NEW b1 \in Byte, b1 = bytes[1],
         NEW b2 \in Byte, b2 = IF n = 1 THEN 0 ELSE bytes[2],
         NEW b3 \in Byte, b3 = IF n = 3 THEN bytes[3] ELSE 0
  PROVE  Grouped(Base!Group(bytes), n, b1, b2, b3)
<1> DEFINE v == 65536 * b1 + 256 * b2 + b3
           c1 == v \div 262144
           c2 == (v \div 4096) % 64
           c3 == (v \div 64) % 64
           c4 == v % 64
           g == [i \in 1..4 |-> IF i <= n + 1 THEN <<c1, c2, c3, c4>>[i] ELSE 64]
<1>1. Base!Group(bytes) = g
  <2>1. /\ (IF 1 <= Len(bytes) THEN bytes[1] ELSE 0) = b1
        /\ (IF 2 <= Len(bytes) THEN bytes[2] ELSE 0) = b2
        /\ (IF 3 <= Len(bytes) THEN bytes[3] ELSE 0) = b3
    OBVIOUS
  <2> QED BY <2>1, SMT DEF Base!Group, Base!PAD
<1>2. /\ c1 = b1 \div 4 /\ c2 = 16 * (b1 % 4) + b2 \div 16
      /\ c3 = 4 * (b2 % 16) + b3 \div 64 /\ c4 = b3 % 64
  BY SextetsAre, SMT DEF Sextets
<1> HIDE DEF c1, c2, c3, c4
<1>3. b1 \in 0..255 /\ b2 \in 0..255 /\ b3 \in 0..255
  BY DEF Byte
<1>4. c1 \in 0..63 /\ c2 \in 0..63 /\ c3 \in 0..63 /\ c4 \in 0..63
  <2> DEFINE h1 == b1 \div 4
             l1 == b1 % 4
             h2 == b2 \div 16
             l2 == b2 % 16
             h3 == b3 \div 64
             l3 == b3 % 64
  <2>1. h1 \in 0..63 /\ l1 \in 0..3
    BY BitsOf
  <2>2. h2 \in 0..15 /\ l2 \in 0..15
    BY BitsOf
  <2>3. h3 \in 0..3 /\ l3 \in 0..63
    BY BitsOf
  <2>4. c1 = h1 /\ c2 = 16 * l1 + h2 /\ c3 = 4 * l2 + h3 /\ c4 = l3
    BY <1>2
  <2> HIDE DEF h1, l1, h2, l2, h3, l3
  <2> QED BY <2>1, <2>2, <2>3, <2>4, SMT
<1>5. /\ DOMAIN g = 1..4 /\ g = [i \in 1..4 |-> g[i]]
      /\ g[1] = c1 /\ g[2] = c2
      /\ g[3] = (IF n = 1 THEN 64 ELSE c3) /\ g[4] = (IF n = 3 THEN c4 ELSE 64)
  BY SMT
<1> HIDE DEF g
<1>6. \A i \in 1..4 : g[i] \in Code
  <2>1. g[1] \in Code /\ g[2] \in Code /\ g[3] \in Code /\ g[4] \in Code
    BY <1>4, <1>5, SMT DEF Code
  <2> QED BY <2>1, SMT
<1>7. g \in Seq(Code) /\ Len(g) = 4
  BY <1>5, <1>6, SeqByIndex
<1>8. Grouped(g, n, b1, b2, b3)
  BY <1>2, <1>4, <1>5, <1>7, SMT DEF Grouped
<1> QED BY <1>1, <1>8

LEMMA FoldFour ==
  ASSUME NEW d, NEW s \in Seq(Code), Len(s) = 4
  PROVE  Fold(d, s) = Base!DecodeChar(Base!DecodeChar(Base!DecodeChar(
                        Base!DecodeChar(d, s[1]), s[2]), s[3]), s[4])
<1>1. \A k \in {0, 1, 2, 3} :
         /\ SubSeq(s, 1, k) \in Seq(Code) /\ s[k + 1] \in Code
         /\ SubSeq(s, 1, k + 1) = Append(SubSeq(s, 1, k), s[k + 1])
  <2> TAKE k \in {0, 1, 2, 3}
  <2>1. k \in Nat /\ k < Len(s) /\ 1 \in 1..(k + 1)
    OBVIOUS
  <2> HIDE DEF Code
  <2> QED BY <2>1, SubSeqGrows
<1>2. SubSeq(s, 1, 0) = <<>> /\ SubSeq(s, 1, 4) = s
  BY SubSeqEmpty, SubSeqFull
<1> DEFINE p(k) == SubSeq(s, 1, k)
<1>3. \A k \in {0, 1, 2, 3} : Fold(d, p(k + 1)) = Base!DecodeChar(Fold(d, p(k)), s[k + 1])
  <2> TAKE k \in {0, 1, 2, 3}
  <2> DEFINE a == p(k)
             x == s[k + 1]
  <2>1. a \in Seq(Code) /\ x \in Code /\ p(k + 1) = Append(a, x)
    BY <1>1
  <2> HIDE DEF a, x, p
  <2>2. Fold(d, Append(a, x)) = Base!DecodeChar(Fold(d, a), x)
    BY <2>1, FoldAppend
  <2> QED BY <2>1, <2>2 DEF a, x
<1>4. p(0) = <<>> /\ p(4) = s
  BY <1>2
<1> HIDE DEF p
<1>5. /\ Fold(d, p(1)) = Base!DecodeChar(Fold(d, p(0)), s[1])
      /\ Fold(d, p(2)) = Base!DecodeChar(Fold(d, p(1)), s[2])
      /\ Fold(d, p(3)) = Base!DecodeChar(Fold(d, p(2)), s[3])
      /\ Fold(d, p(4)) = Base!DecodeChar(Fold(d, p(3)), s[4])
  <2>1. 0 + 1 = 1 /\ 1 + 1 = 2 /\ 2 + 1 = 3 /\ 3 + 1 = 4
    OBVIOUS
  <2> QED BY <1>3, <2>1
<1> QED BY <1>4, <1>5, FoldEmpty

\* Three characters' worth of bits are the bytes again.
Rejoined(b1, b2, b3) ==
  /\ 4 * (b1 \div 4) + (16 * (b1 % 4) + b2 \div 16) \div 16 = b1
  /\ (16 * (16 * (b1 % 4) + b2 \div 16) + (4 * (b2 % 16) + b3 \div 64) \div 4) % 256 = b2
  /\ LastByte(4 * (b2 % 16) + b3 \div 64, b3 % 64) = b3

LEMMA BytesRejoin ==
  ASSUME NEW b1 \in Byte, NEW b2 \in Byte, NEW b3 \in Byte PROVE Rejoined(b1, b2, b3)
<1> DEFINE h1 == b1 \div 4
           l1 == b1 % 4
           h2 == b2 \div 16
           l2 == b2 % 16
           h3 == b3 \div 64
           l3 == b3 % 64
<1>1. h1 \in 0..63 /\ l1 \in 0..3 /\ b1 = 4 * h1 + l1
  BY SMT DEF Byte
<1>2. h2 \in 0..15 /\ l2 \in 0..15 /\ b2 = 16 * h2 + l2
  BY SMT DEF Byte
<1>3. h3 \in 0..3 /\ l3 \in 0..63 /\ b3 = 64 * h3 + l3
  BY SMT DEF Byte
<1> HIDE DEF h1, l1, h2, l2, h3, l3
<1>4. 4 * h1 + (16 * l1 + h2) \div 16 = b1
  BY <1>1, <1>2, SMT
<1>5. (16 * (16 * l1 + h2) + (4 * l2 + h3) \div 4) % 256 = b2
  <2>1. (4 * l2 + h3) \div 4 = l2
    BY <1>2, <1>3, SMT
  <2>2. 16 * (16 * l1 + h2) + l2 = 256 * l1 + b2 /\ b2 \in 0..255
    BY <1>1, <1>2, SMT
  <2> QED BY <1>1, <2>1, <2>2, SMT
<1>6. LastByte(4 * l2 + h3, l3) = b3
  <2>1. 64 * (4 * l2 + h3) + l3 = 256 * l2 + b3 /\ b3 \in 0..255
    BY <1>2, <1>3, SMT
  <2> QED BY <1>2, <2>1, SMT DEF LastByte
<1>7. /\ 4 * (b1 \div 4) + (16 * (b1 % 4) + b2 \div 16) \div 16 = b1
      /\ (16 * (16 * (b1 % 4) + b2 \div 16) + (4 * (b2 % 16) + b3 \div 64) \div 4) % 256 = b2
      /\ LastByte(4 * (b2 % 16) + b3 \div 64, b3 % 64) = b3
  <2>1. 4 * (b1 \div 4) + (16 * (b1 % 4) + b2 \div 16) \div 16 = b1
    BY <1>4, Zenon DEF h1, l1, h2
  <2>2. (16 * (16 * (b1 % 4) + b2 \div 16) + (4 * (b2 % 16) + b3 \div 64) \div 4) % 256 = b2
    BY <1>5, Zenon DEF l1, h2, l2, h3
  <2>3. LastByte(4 * (b2 % 16) + b3 \div 64, b3 % 64) = b3
    <3>1. /\ l2 = b2 % 16 /\ h3 = b3 \div 64 /\ l3 = b3 % 64
      BY DEF l2, h3, l3
    <3> QED BY <1>6, <3>1, Zenon
  <2> QED BY <2>1, <2>2, <2>3
<1> QED BY <1>7, Zenon DEF Rejoined

\* A group is read to its bytes; after a whole one the next is read alike.
GroupRead(v, bytes, n, e) ==
  /\ e \in Decoding
  /\ n = 1 => e.value = Append(v, bytes[1])
  /\ n = 2 => e.value = Append(Append(v, bytes[1]), bytes[2])
  /\ n = 3 =>
       /\ ~e.ended /\ e.bits = 0
       /\ e.value = Append(Append(Append(v, bytes[1]), bytes[2]), bytes[3])

LEMMA GroupDecoded ==
  ASSUME NEW d \in Decoding, ~d.ended, d.bits = 0,
         NEW bytes \in Seq(Byte), NEW n \in {1, 2, 3}, Len(bytes) = n
  PROVE  GroupRead(d.value, bytes, n, Fold(d, Base!Group(bytes)))
<1> DEFINE b1 == bytes[1]
           b2 == IF n = 1 THEN 0 ELSE bytes[2]
           b3 == IF n = 3 THEN bytes[3] ELSE 0
           g == Base!Group(bytes)
           d1 == Base!DecodeChar(d, g[1])
           d2 == Base!DecodeChar(d1, g[2])
           d3 == Base!DecodeChar(d2, g[3])
           d4 == Base!DecodeChar(d3, g[4])
<1>1. b1 \in Byte /\ b2 \in Byte /\ b3 \in Byte
  <2>1. \A i \in 1..n : bytes[i] \in Byte
    BY ElementOfSeq
  <2>2. 0 \in Byte
    BY DEF Byte
  <2> QED BY <2>1, <2>2
<1>2. Grouped(g, n, b1, b2, b3)
  BY <1>1, GroupIs
<1>3. Rejoined(b1, b2, b3)
  BY <1>1, BytesRejoin
<1>4. Fold(d, g) = d4
  <2>1. g \in Seq(Code) /\ Len(g) = 4
    BY <1>2 DEF Grouped
  <2> HIDE DEF g
  <2> QED BY <2>1, FoldFour
<1>5. /\ b1 = bytes[1] /\ (n # 1 => b2 = bytes[2]) /\ (n = 3 => b3 = bytes[3])
  OBVIOUS
<1> HIDE DEF b1, b2, b3, g
<1> DEFINE v == d.value
<1>6. /\ g[1] \in 0..63 /\ g[2] \in 0..63
      /\ n # 1 => g[3] \in 0..63
      /\ n = 3 => g[4] \in 0..63
      /\ n = 1 => g[3] = 64
      /\ n = 2 => g[4] = 64
  BY <1>2 DEF Grouped
<1>7. \A c \in 0..63 : c \in Code /\ c < 64 /\ c # 65 /\ c # 64
  BY DEF Code
<1>8. d1 \in Decoding /\ ~d1.ended /\ d1.bits = 6 /\ d1.value = v /\ d1.buffer % 64 = g[1]
  <2> DEFINE c == g[1]
             b == d.buffer
  <2>1. c \in 0..63 /\ c \in Code /\ c < 64 /\ b \in Buffer
    BY <1>6, <1>7 DEF Decoding
  <2> HIDE DEF c
  <2>2. Turned(d, c, Base!DecodeChar(d, c))
    BY <2>1, DecodeCharIs
  <2> HIDE DEF b
  <2>4. d1 = Base!DecodeChar(d, c)
    BY DEF c
  <2> HIDE DEF d1
  <2>5. /\ d1 \in Decoding /\ ~d1.ended /\ d1.bits = 6 /\ d1.value = v
        /\ d1.buffer = Pushed(b, c)
    BY <2>1, <2>2, <2>4 DEF Turned, b
  <2>6. d1.buffer % 64 = c
    <3>1. Low(b, c, Pushed(b, c))
      BY <2>1, LowBits
    <3>2. Low(b, c, d1.buffer)
      BY <2>5, <3>1
    <3> QED BY <3>2 DEF Low
  <2> QED BY <2>5, <2>6 DEF c
<1> HIDE DEF d1
<1>9. /\ d2 \in Decoding /\ ~d2.ended /\ d2.bits = 4 /\ d2.value = Append(v, b1)
      /\ d2.buffer % 64 = g[2]
  <2> DEFINE c == g[2]
             b == d1.buffer
  <2>1. c \in 0..63 /\ c \in Code /\ c < 64 /\ b \in Buffer
    BY <1>6, <1>7, <1>8 DEF Decoding
  <2> HIDE DEF c
  <2>2. Turned(d1, c, Base!DecodeChar(d1, c))
    BY <1>8, <2>1, DecodeCharIs
  <2> HIDE DEF b
  <2>4. d2 = Base!DecodeChar(d1, c)
    BY DEF c
  <2> HIDE DEF d2
  <2>5. /\ d2 \in Decoding /\ ~d2.ended /\ d2.bits = 6 - 2
        /\ d2.value = Append(v, Base!Shifted(d2.buffer, d2.bits) % 256)
        /\ d2.buffer = Pushed(b, c)
    BY <1>8, <2>1, <2>2, <2>4 DEF Turned, b
  <2>6. d2.buffer % 64 = c /\ Base!Shifted(d2.buffer, 4) % 256 = 4 * (b % 64) + c \div 16
    <3>1. Low(b, c, Pushed(b, c))
      BY <2>1, LowBits
    <3>2. Low(b, c, d2.buffer)
      BY <2>5, <3>1
    <3> QED BY <3>2 DEF Low
  <2>7. 4 * (b % 64) + c \div 16 = b1
    BY <1>2, <1>3, <1>8 DEF Grouped, Rejoined, b, c
  <2>8. d2.bits = 4
    BY <2>5
  <2> QED BY <2>5, <2>6, <2>7, <2>8 DEF c
<1> HIDE DEF d2
<1>10. /\ d3 \in Decoding
       /\ n = 1 => d3.ended /\ d3.value = Append(v, b1)
       /\ n # 1 => /\ ~d3.ended /\ d3.bits = 2 /\ d3.value = Append(Append(v, b1), b2)
                   /\ d3.buffer % 64 = g[3]
  <2> DEFINE c == g[3]
             b == d2.buffer
  <2>1. c \in Code /\ b \in Buffer /\ (n = 1 => c = 64) /\ (n # 1 => c \in 0..63 /\ c < 64)
    <3>1. n = 1 \/ n # 1
      OBVIOUS
    <3>2. b \in Buffer
      BY <1>9 DEF Decoding
    <3>3. 64 \in Code
      BY DEF Code
    <3> QED BY <1>6, <1>7, <3>1, <3>2, <3>3
  <2> HIDE DEF c
  <2>2. Turned(d2, c, Base!DecodeChar(d2, c))
    BY <1>9, <2>1, DecodeCharIs
  <2>4. d3 = Base!DecodeChar(d2, c)
    BY DEF c
  <2> HIDE DEF b, d3
  <2>5. d3 \in Decoding /\ (n = 1 => d3.ended /\ d3.value = Append(v, b1))
    BY <1>9, <2>1, <2>2, <2>4 DEF Turned
  <2>6. ASSUME n # 1
        PROVE  /\ ~d3.ended /\ d3.bits = 2 /\ d3.value = Append(Append(v, b1), b2)
               /\ d3.buffer % 64 = c
    <3>2. /\ ~d3.ended /\ d3.bits = 4 - 2
          /\ d3.value = Append(Append(v, b1), Base!Shifted(d3.buffer, d3.bits) % 256)
          /\ d3.buffer = Pushed(b, c)
      BY <1>9, <2>1, <2>2, <2>4, <2>6 DEF Turned, b
    <3>3. /\ d3.buffer % 64 = c
          /\ Base!Shifted(d3.buffer, 2) % 256 = (16 * (b % 64) + c \div 4) % 256
      <4>1. Low(b, c, Pushed(b, c))
        BY <2>1, <2>6, LowBits
      <4>2. Low(b, c, d3.buffer)
        BY <3>2, <4>1
      <4> QED BY <4>2 DEF Low
    <3>4. (16 * (b % 64) + c \div 4) % 256 = b2
      BY <1>2, <1>3, <1>9, <2>6 DEF Grouped, Rejoined, b, c
    <3>5. d3.bits = 2
      BY <3>2
    <3> QED BY <3>2, <3>3, <3>4, <3>5
  <2> QED BY <2>5, <2>6 DEF c
<1> HIDE DEF d3
<1>11. /\ d4 \in Decoding
       /\ n = 1 => d4.value = Append(v, b1)
       /\ n = 2 => d4.value = Append(Append(v, b1), b2)
       /\ n = 3 => /\ ~d4.ended /\ d4.bits = 0
                   /\ d4.value = Append(Append(Append(v, b1), b2), b3)
  <2> DEFINE c == g[4]
             b == d3.buffer
  <2>1. c \in Code /\ b \in Buffer /\ (n = 2 => c = 64) /\ (n = 3 => c \in 0..63 /\ c < 64)
    <3>1. n = 1 => c = 64
      BY <1>2 DEF Grouped
    <3>2. b \in Buffer
      BY <1>10 DEF Decoding
    <3>3. 64 \in Code
      BY DEF Code
    <3> QED BY <1>6, <1>7, <3>1, <3>2, <3>3
  <2> HIDE DEF c
  <2>2. Turned(d3, c, Base!DecodeChar(d3, c))
    BY <1>10, <2>1, DecodeCharIs
  <2>4. d4 = Base!DecodeChar(d3, c)
    BY DEF c
  <2> HIDE DEF b, d4
  <2>5. d4 \in Decoding
    BY <2>2, <2>4 DEF Turned
  <2>6. n = 1 => d4.value = Append(v, b1)
    BY <1>10, <2>2, <2>4 DEF Turned
  <2>7. n = 2 => d4.value = Append(Append(v, b1), b2)
    BY <1>10, <2>1, <2>2, <2>4 DEF Turned
  <2>8. ASSUME n = 3
        PROVE  ~d4.ended /\ d4.bits = 0 /\ d4.value = Append(Append(Append(v, b1), b2), b3)
    <3>1. n # 1 /\ c \in 0..63 /\ c < 64
      BY <2>1, <2>8
    <3>2. /\ ~d4.ended /\ d4.bits = 2 - 2
          /\ d4.value = Append(Append(Append(v, b1), b2), Base!Shifted(d4.buffer, d4.bits) % 256)
          /\ d4.buffer = Pushed(b, c)
      BY <1>10, <2>2, <2>4, <3>1 DEF Turned, b
    <3>3. Base!Shifted(d4.buffer, 0) % 256 = LastByte(b % 64, c)
      <4>1. Low(b, c, Pushed(b, c))
        BY <2>1, <3>1, LowBits
      <4>2. Low(b, c, d4.buffer)
        BY <3>2, <4>1
      <4> QED BY <4>2 DEF Low
    <3>4. LastByte(b % 64, c) = b3
      <4>1. b % 64 = 4 * (b2 % 16) + b3 \div 64
        BY <1>2, <1>10, <3>1 DEF Grouped, b
      <4>2. c = b3 % 64
        BY <1>2, <2>8 DEF Grouped, c
      <4>3. LastByte(4 * (b2 % 16) + b3 \div 64, b3 % 64) = b3
        BY <1>3 DEF Rejoined
      <4> QED BY <4>1, <4>2, <4>3, Zenon
    <3>5. d4.bits = 0
      BY <3>2
    <3> QED BY <3>2, <3>3, <3>4, <3>5
  <2> QED BY <2>5, <2>6, <2>7, <2>8
<1> HIDE DEF d4
<1>12. GroupRead(v, bytes, n, d4)
  BY <1>5, <1>11 DEF GroupRead
<1> QED BY <1>4, <1>12 DEF g

\* Reading a group of n bytes goes on from where m of them were read.
Advanced(data, k, n, e) ==
  /\ e \in Decoding /\ e.value = SubSeq(data, 1, k)
  /\ n = 3 => ~e.ended /\ e.bits = 0

LEMMA GroupTaken ==
  ASSUME NEW data \in Seq(Byte), NEW m \in Nat, NEW n \in {1, 2, 3}, NEW k, k = m + n,
         k <= Len(data), NEW d \in Decoding, Advanced(data, m, 3, d)
  PROVE  Advanced(data, k, n, Fold(d, Base!Group(SubSeq(data, m + 1, k))))
<1> DEFINE bytes == SubSeq(data, m + 1, k)
           e == Fold(d, Base!Group(bytes))
           V(i) == SubSeq(data, 1, i)
<1>1. Len(data) \in Nat /\ k \in Nat /\ m < Len(data) /\ \A i \in 1..Len(data) : data[i] \in Byte
  BY LenProperties, ElementOfSeq
<1>2. /\ bytes \in Seq(Byte) /\ Len(bytes) = n
      /\ \A i \in 1..n : bytes[i] = data[m + i]
  <2> DEFINE l == m + 1
  <2>1. l \in Int /\ k \in Int /\ \A i \in l..k : data[i] \in Byte
    BY <1>1
  <2>2. l <= k /\ k - l + 1 = n /\ \A i \in 1..n : l + i - 1 = m + i
    BY <1>1
  <2>3. bytes = SubSeq(data, l, k)
    OBVIOUS
  <2> HIDE DEF l, bytes
  <2>4. /\ bytes \in Seq(Byte) /\ Len(bytes) = IF l <= k THEN k - l + 1 ELSE 0
        /\ \A i \in 1..(k - l + 1) : bytes[i] = data[l + i - 1]
    BY <2>1, <2>3, SubSeqProperties
  <2> QED BY <2>2, <2>4
<1> HIDE DEF bytes
<1>3. GroupRead(d.value, bytes, n, e)
  <2>1. ~d.ended /\ d.bits = 0
    BY DEF Advanced
  <2> QED BY <1>2, <2>1, GroupDecoded
<1> HIDE DEF e
<1>4. d.value = V(m)
  BY DEF Advanced
<1>5. \A j \in Nat : j < Len(data) => V(j + 1) = Append(V(j), data[j + 1])
  <2> SUFFICES ASSUME NEW j \in Nat, j < Len(data) PROVE V(j + 1) = Append(V(j), data[j + 1])
    OBVIOUS
  <2>1. 1 \in 1..(j + 1)
    OBVIOUS
  <2> QED BY <2>1, SubSeqGrows
<1> HIDE DEF V
<1>6. bytes[1] = data[m + 1] /\ V(m + 1) = Append(V(m), data[m + 1])
  <2>1. 1 \in 1..n
    OBVIOUS
  <2> QED BY <1>1, <1>2, <1>5, <2>1
<1>7. ASSUME n # 1
      PROVE  bytes[2] = data[m + 2] /\ V(m + 2) = Append(V(m + 1), data[m + 2])
  <2>1. 2 \in 1..n /\ m + 1 \in Nat /\ m + 1 < Len(data) /\ (m + 1) + 1 = m + 2
    BY <1>1, <1>7
  <2>2. V((m + 1) + 1) = Append(V(m + 1), data[(m + 1) + 1])
    BY <1>5, <2>1
  <2> QED BY <1>2, <2>1, <2>2
<1>8. ASSUME n = 3
      PROVE  bytes[3] = data[m + 3] /\ V(m + 3) = Append(V(m + 2), data[m + 3])
  <2>1. 3 \in 1..n /\ m + 2 \in Nat /\ m + 2 < Len(data) /\ (m + 2) + 1 = m + 3
    BY <1>1, <1>8
  <2>2. V((m + 2) + 1) = Append(V(m + 2), data[(m + 2) + 1])
    BY <1>5, <2>1
  <2> QED BY <1>2, <2>1, <2>2
<1>9. e.value = V(k)
  <2>1. CASE n = 1
    BY <1>3, <1>4, <1>6, <2>1 DEF GroupRead
  <2>2. CASE n = 2
    <3>1. V(m + 2) = Append(Append(V(m), bytes[1]), bytes[2])
      BY <1>6, <1>7, <2>2
    <3> QED BY <1>3, <1>4, <2>2, <3>1 DEF GroupRead
  <2>3. CASE n = 3
    <3>1. V(m + 3) = Append(Append(Append(V(m), bytes[1]), bytes[2]), bytes[3])
      BY <1>6, <1>7, <1>8, <2>3
    <3> QED BY <1>3, <1>4, <2>3, <3>1 DEF GroupRead
  <2> QED BY <2>1, <2>2, <2>3
<1>10. Advanced(data, k, n, e)
  BY <1>3, <1>9 DEF Advanced, GroupRead, V
<1> QED BY <1>10 DEF e, bytes

GroupAt(data, g) ==
  Base!Group(SubSeq(data, 3 * g - 2, IF 3 * g <= Len(data) THEN 3 * g ELSE Len(data)))

Groups(data) == [g \in 1..((Len(data) + 2) \div 3) |-> GroupAt(data, g)]

LEMMA EncodeIs == ASSUME NEW data PROVE Base!Encode(data) = FlattenSeq(Groups(data))
  BY DEF Base!Encode, Groups, GroupAt, Base!FlattenSeq, FlattenSeq

Quads == Seq(Code)

LEMMA GroupsType ==
  ASSUME NEW data \in Seq(Byte), NEW count, count = (Len(data) + 2) \div 3
  PROVE  /\ count \in Nat /\ 3 * count <= Len(data) + 2 /\ Len(data) <= 3 * count
         /\ Groups(data) \in Seq(Quads) /\ Len(Groups(data)) = count
         /\ \A g \in 1..count : Groups(data)[g] = GroupAt(data, g)
<1> DEFINE l == Len(data)
           gs == Groups(data)
<1>1. l \in Nat /\ Len(data) = l /\ \A i \in 1..l : data[i] \in Byte
  BY LenProperties, ElementOfSeq
<1> HIDE DEF l
<1>2. count \in Nat /\ 3 * count <= l + 2 /\ l <= 3 * count
  BY <1>1
<1>3. DOMAIN gs = 1..count /\ gs = [g \in 1..count |-> gs[g]] /\ \A g \in 1..count : gs[g] = GroupAt(data, g)
  BY DEF Groups
<1> HIDE DEF gs
<1>4. \A g \in 1..count : GroupAt(data, g) \in Quads
  <2> TAKE g \in 1..count
  <2> DEFINE from == 3 * g - 2
             to == IF 3 * g <= l THEN 3 * g ELSE l
             n == to - from + 1
             bytes == SubSeq(data, from, to)
  <2>1. from \in Nat \ {0} /\ to \in Nat /\ to <= l /\ n \in {1, 2, 3} /\ from <= to
    BY <1>1, <1>2
  <2>2. GroupAt(data, g) = Base!Group(bytes)
    BY <1>1 DEF GroupAt
  <2> HIDE DEF from, to
  <2>3. bytes \in Seq(Byte) /\ Len(bytes) = n /\ \A i \in 1..n : bytes[i] = data[from + i - 1]
    <3>1. \A i \in from..to : data[i] \in Byte
      BY <1>1, <2>1
    <3>2. /\ bytes \in Seq(Byte) /\ Len(bytes) = IF from <= to THEN to - from + 1 ELSE 0
          /\ \A i \in 1..(to - from + 1) : bytes[i] = data[from + i - 1]
      BY <2>1, <3>1, SubSeqProperties
    <3> HIDE DEF bytes
    <3> QED BY <2>1, <3>2
  <2> HIDE DEF n, bytes
  <2> DEFINE b1 == bytes[1]
             b2 == IF n = 1 THEN 0 ELSE bytes[2]
             b3 == IF n = 3 THEN bytes[3] ELSE 0
  <2>4. b1 \in Byte /\ b2 \in Byte /\ b3 \in Byte
    <3>1. \A i \in 1..n : bytes[i] \in Byte
      BY <2>3, ElementOfSeq
    <3>2. 0 \in Byte
      BY DEF Byte
    <3> QED BY <2>1, <3>1, <3>2
  <2>5. Grouped(Base!Group(bytes), n, b1, b2, b3)
    BY <2>1, <2>3, <2>4, GroupIs
  <2> QED BY <2>2, <2>5 DEF Grouped, Quads
<1>5. gs \in Seq(Quads) /\ Len(gs) = count
  BY <1>2, <1>3, <1>4, SeqByIndex
<1> QED BY <1>1, <1>2, <1>3, <1>5 DEF gs

LEMMA FoldedOver ==
  ASSUME NEW d, NEW gs \in Seq(Quads), NEW g \in Quads
  PROVE  Fold(d, FlattenSeq(Append(gs, g))) = Fold(Fold(d, FlattenSeq(gs)), g)
<1>1. gs \in Seq(Seq(Code)) /\ g \in Seq(Code)
  BY DEF Quads
<1> DEFINE f == FlattenSeq(gs)
<1>2. f \in Seq(Code) /\ FlattenSeq(Append(gs, g)) = f \o g
  BY <1>1, FlattenType, FlattenAppend
<1> HIDE DEF f
<1>3. Fold(d, f \o g) = Fold(Fold(d, f), g)
  BY <1>1, <1>2, FoldConcat
<1> QED BY <1>2, <1>3 DEF f

\* Where decoding is after the first k groups.
Progress(data, k, e) ==
  /\ e \in Decoding
  /\ 3 * k <= Len(data) => Advanced(data, 3 * k, 3, e)
  /\ 3 * k > Len(data) => e.value = data

LEMMA EncodeDecoded ==
  ASSUME NEW data \in Seq(Byte)
  PROVE  /\ Base!Encode(data) \in Seq(Code)
         /\ Fold(Base!Fresh, Base!Encode(data)) \in Decoding
         /\ Fold(Base!Fresh, Base!Encode(data)).value = data
<1> DEFINE l == Len(data)
           count == (l + 2) \div 3
           gs == Groups(data)
           p(k) == SubSeq(gs, 1, k)
           E(k) == Fold(Base!Fresh, FlattenSeq(p(k)))
<1>1. /\ count \in Nat /\ 3 * count <= l + 2 /\ l <= 3 * count
      /\ gs \in Seq(Quads) /\ Len(gs) = count
      /\ \A g \in 1..count : gs[g] = GroupAt(data, g)
  BY GroupsType
<1>2. l \in Nat /\ l = Len(data)
  BY LenProperties
<1> HIDE DEF l, count, gs
<1>3. p(0) = <<>> /\ p(count) = gs
  BY <1>1, SubSeqEmpty, SubSeqFull
<1>4. \A k \in Nat : k < count =>
         p(k) \in Seq(Quads) /\ gs[k + 1] \in Quads /\ p(k + 1) = Append(p(k), gs[k + 1])
  <2> SUFFICES ASSUME NEW k \in Nat, k < count
               PROVE  p(k) \in Seq(Quads) /\ gs[k + 1] \in Quads /\ p(k + 1) = Append(p(k), gs[k + 1])
    OBVIOUS
  <2>1. 1 \in 1..(k + 1) /\ k < Len(gs)
    BY <1>1
  <2> QED BY <1>1, <2>1, SubSeqGrows
<1> HIDE DEF p
<1> DEFINE T == {k \in Nat : k <= count => Progress(data, k, E(k))}
<1>5. 0 \in T
  <2>1. E(0) = Base!Fresh
    BY <1>3, FlattenEmpty, FoldEmpty
  <2>2. Base!Fresh \in Decoding
    BY EmptySeq DEF Base!Fresh, Decoding, Buffer
  <2>3. SubSeq(data, 1, 0) = <<>>
    BY SubSeqEmpty
  <2>4. Advanced(data, 0, 3, Base!Fresh)
    BY <2>2, <2>3 DEF Advanced, Base!Fresh
  <2>5. 3 * 0 = 0 /\ ~(0 > Len(data))
    BY <1>2
  <2> HIDE DEF E
  <2>6. Progress(data, 0, E(0))
    BY <2>1, <2>2, <2>4, <2>5 DEF Progress
  <2> QED BY <2>6
<1>6. \A k \in Nat : k \in T => k + 1 \in T
  <2> SUFFICES ASSUME NEW k \in Nat, k \in T, k + 1 <= count PROVE Progress(data, k + 1, E(k + 1))
    OBVIOUS
  <2> DEFINE m == 3 * k
             to == IF m + 3 <= l THEN m + 3 ELSE l
             n == to - m
             d == E(k)
             bytes == SubSeq(data, m + 1, to)
  <2>1. m \in Nat /\ m < l /\ n \in {1, 2, 3} /\ to = m + n /\ to <= Len(data) /\ to \in Nat
    BY <1>1, <1>2
  <2>2. d \in Decoding /\ Advanced(data, m, 3, d)
    <3>1. Progress(data, k, E(k)) /\ 3 * k <= Len(data)
      BY <1>1, <1>2
    <3> QED BY <3>1 DEF Progress
  <2>3. gs[k + 1] = Base!Group(bytes)
    <3> DEFINE g == k + 1
    <3>1. g \in 1..count /\ 3 * g - 2 = m + 1 /\ 3 * g = m + 3
      BY <1>1
    <3>2. GroupAt(data, g) = Base!Group(bytes)
      <4> HIDE DEF g, m, bytes
      <4>1. (IF 3 * g <= Len(data) THEN 3 * g ELSE Len(data)) = to
        BY <1>2, <3>1
      <4> QED BY <3>1, <4>1 DEF GroupAt, bytes
    <3> QED BY <1>1, <3>1, <3>2
  <2>4. E(k + 1) = Fold(d, gs[k + 1])
    <3> DEFINE s == p(k)
               x == gs[k + 1]
    <3>1. s \in Seq(Quads) /\ x \in Quads /\ p(k + 1) = Append(s, x)
      BY <1>1, <1>4
    <3> HIDE DEF s, x
    <3>2. Fold(Base!Fresh, FlattenSeq(Append(s, x))) = Fold(Fold(Base!Fresh, FlattenSeq(s)), x)
      BY <3>1, FoldedOver
    <3> QED BY <3>1, <3>2 DEF s, x
  <2> HIDE DEF m, to, n, d, E
  <2>5. Advanced(data, to, n, Fold(d, Base!Group(bytes)))
    BY <2>1, <2>2, GroupTaken
  <2> DEFINE e == E(k + 1)
  <2>6. Advanced(data, to, n, e)
    BY <2>3, <2>4, <2>5
  <2> HIDE DEF e, bytes
  <2>7. Progress(data, k + 1, e)
    <3>1. CASE m + 3 <= l
      <4>1. to = m + 3 /\ n = 3 /\ 3 * (k + 1) = m + 3 /\ m + 3 <= Len(data) /\ ~(m + 3 > Len(data))
        BY <1>2, <2>1, <3>1 DEF to, n, m
      <4> QED BY <2>6, <4>1 DEF Progress, Advanced
    <3>2. CASE ~(m + 3 <= l)
      <4>1. to = Len(data) /\ 3 * (k + 1) = m + 3 /\ ~(m + 3 <= Len(data))
        BY <1>2, <2>1, <3>2 DEF to, m
      <4>2. SubSeq(data, 1, Len(data)) = data
        BY SubSeqFull
      <4> QED BY <2>6, <4>1, <4>2 DEF Progress, Advanced
    <3> QED BY <3>1, <3>2
  <2> QED BY <2>7 DEF e
<1>7. \A k \in Nat : k \in T
  <2> HIDE DEF T
  <2> QED BY <1>5, <1>6, SetInduction
<1>8. Progress(data, count, E(count))
  BY <1>1, <1>7
<1>9. E(count) = Fold(Base!Fresh, Base!Encode(data)) /\ Base!Encode(data) \in Seq(Code)
  <2>1. gs \in Seq(Seq(Code))
    BY <1>1 DEF Quads
  <2>2. FlattenSeq(gs) \in Seq(Code)
    BY <2>1, FlattenType
  <2>3. Base!Encode(data) = FlattenSeq(gs)
    BY EncodeIs DEF gs
  <2> QED BY <1>3, <2>2, <2>3
<1>10. E(count) \in Decoding /\ E(count).value = data
  <2> DEFINE e == E(count)
  <2>1. Progress(data, count, e)
    BY <1>8
  <2> HIDE DEF e
  <2>2. CASE 3 * count = Len(data)
    <3>1. e \in Decoding /\ e.value = SubSeq(data, 1, Len(data))
      BY <1>1, <1>2, <2>1, <2>2 DEF Progress, Advanced
    <3> QED BY <3>1, SubSeqFull DEF e
  <2>3. CASE 3 * count # Len(data)
    <3>1. 3 * count > Len(data)
      BY <1>1, <1>2, <2>3
    <3> QED BY <2>1, <3>1 DEF Progress, e
  <2> QED BY <2>2, <2>3
<1> QED BY <1>9, <1>10

LEMMA DecodeIs ==
  ASSUME NEW text \in Seq(Code) PROVE Base!Decode(text) = Fold(Base!Fresh, text)
<1>1. DOMAIN text = 1..Len(text)
  BY LenProperties
<1> QED BY <1>1 DEF Base!Decode, Base!FoldLeft, Base!MapThenFoldSet, Fold, Folding, Base!Max, Max

OnAfter(d, text, a, b) == Fold(d, text) = Fold(Fold(d, a), b)

LEMMA FoldBoth ==
  ASSUME NEW d, NEW text, NEW a, NEW b, Halves(Code, text, a, b) PROVE OnAfter(d, text, a, b)
<1>1. a \in Seq(Code) /\ b \in Seq(Code)
  BY DEF Halves
<1>2. text = a \o b
  BY DEF Halves
<1>3. Fold(d, a \o b) = Fold(Fold(d, a), b)
  BY <1>1, FoldConcat
<1> QED BY <1>2, <1>3 DEF OnAfter

\* White space changes nothing.
LEMMA SpacedDecoded ==
  ASSUME NEW bytes \in Seq(Byte), NEW at \in Nat \ {0}
  PROVE  /\ Spaced(bytes, at) \in Seq(Code)
         /\ Fold(Base!Fresh, Spaced(bytes, at)) \in Decoding
         /\ Fold(Base!Fresh, Spaced(bytes, at)).value = bytes
<1> DEFINE text == Base!Encode(bytes)
           l == Len(text)
           a == SubSeq(text, 1, at - 1)
           b == SubSeq(text, at, l)
           blank == <<65>>
<1>1. /\ text \in Seq(Code) /\ Fold(Base!Fresh, text) \in Decoding
      /\ Fold(Base!Fresh, text).value = bytes
  BY EncodeDecoded
<1> HIDE DEF text
<1>2. l \in Nat
  BY <1>1, LenProperties
<1>3. CASE at > l
  BY <1>1, <1>3 DEF Spaced, text
<1>4. CASE ~(at > l)
  <2>1. Spaced(bytes, at) = (a \o blank) \o b
    BY <1>4 DEF Spaced, text, InsertAt, Base!BLANK
  <2>2. a \in Seq(Code) /\ b \in Seq(Code) /\ a \o b = text
    <3> DEFINE k == at - 1
    <3>1. k \in 0..l /\ k + 1 = at
      BY <1>2, <1>4
    <3>2. a = SubSeq(text, 1, k) /\ b = SubSeq(text, k + 1, Len(text))
      BY <3>1
    <3> HIDE DEF k, a, b
    <3>3. Halves(Code, text, a, b)
      BY <1>1, <3>1, <3>2, CutInTwo
    <3> QED BY <3>3 DEF Halves
  <2> HIDE DEF a, b
  <2>3. blank \in Seq(Code) /\ a \o blank \in Seq(Code)
    <3>1. 65 \in Code
      BY DEF Code
    <3> QED BY <2>2, <3>1, ConcatProperties
  <2>4. Fold(Base!Fresh, a \o blank) = Fold(Base!Fresh, a)
    <3> DEFINE d == Fold(Base!Fresh, a)
    <3>1. a \o blank = Append(a, 65) /\ 65 \in Code
      BY <2>2, AppendIsConcat DEF Code
    <3>2. Fold(Base!Fresh, Append(a, 65)) = Base!DecodeChar(Fold(Base!Fresh, a), 65)
      BY <2>2, <3>1, FoldAppend
    <3> HIDE DEF d
    <3>3. Base!DecodeChar(d, 65) = d
      BY DEF Base!DecodeChar, Base!BLANK
    <3> QED BY <3>1, <3>2, <3>3 DEF d
  <2> DEFINE ab == a \o blank
  <2> HIDE DEF blank
  <2>5. Fold(Base!Fresh, ab \o b) = Fold(Fold(Base!Fresh, ab), b)
    <3>1. ab \in Seq(Code)
      BY <2>3
    <3> HIDE DEF ab
    <3> QED BY <2>2, <3>1, FoldConcat
  <2>6. Fold(Base!Fresh, a \o b) = Fold(Fold(Base!Fresh, a), b)
    <3>1. a \in Seq(Code) /\ b \in Seq(Code)
      BY <2>2
    <3> QED BY <3>1, FoldConcat
  <2>7. ab \o b \in Seq(Code)
    BY <2>2, <2>3, ConcatProperties
  <2> QED BY <1>1, <2>1, <2>2, <2>4, <2>5, <2>6, <2>7
<1> QED BY <1>3, <1>4

\* What of a text is left when its end is lost decodes to a beginning.
LEMMA CutDecoded ==
  ASSUME NEW text \in Seq(Code), NEW n \in 0..Len(text), NEW w, w = SubSeq(text, 1, n),
         Fold(Base!Fresh, text) \in Decoding
  PROVE  /\ w \in Seq(Code) /\ Fold(Base!Fresh, w) \in Decoding
         /\ IsPrefix(Fold(Base!Fresh, w).value, Fold(Base!Fresh, text).value)
<1> DEFINE rest == SubSeq(text, n + 1, Len(text))
<1>1. Halves(Code, text, w, rest)
  BY CutInTwo
<1>2. w \in Seq(Code) /\ rest \in Seq(Code)
  BY <1>1 DEF Halves
<1> HIDE DEF rest
<1> DEFINE d == Fold(Base!Fresh, w)
<1>4. d \in Decoding
  <2>1. Base!Fresh \in Decoding
    BY EmptySeq DEF Base!Fresh, Decoding, Buffer
  <2> QED BY <1>2, <2>1, DecodeGrows
<1>5. Fold(Base!Fresh, text) = Fold(d, rest)
  <2>1. OnAfter(Base!Fresh, text, w, rest)
    BY <1>1, FoldBoth
  <2> QED BY <2>1 DEF OnAfter
<1> HIDE DEF d
<1>6. IsPrefix(d.value, Fold(d, rest).value)
  BY <1>2, <1>4, DecodeGrows
<1> QED BY <1>2, <1>4, <1>5, <1>6 DEF d

----------------------------------------------------------------------------

Prepend(s, r) == IF r.ok THEN Read(r.pos, s \o r.value) ELSE Fail

\* What StringRest makes of the text from a position on, f giving it behind.
RestBody(text, f, pos) ==
  IF pos > Len(text) THEN Fail
  ELSE IF text[pos] = QUOTE THEN Read(pos + 1, <<>>)
  ELSE IF text[pos] # BACKSLASH THEN Prepend(<<text[pos]>>, f[pos + 1])
  ELSE IF pos = Len(text) THEN Fail
  ELSE IF text[pos + 1] \in {QUOTE, BACKSLASH, 47} THEN Prepend(<<text[pos + 1]>>, f[pos + 2])
  ELSE IF text[pos + 1] \in DOMAIN Letters THEN Prepend(<<Letters[text[pos + 1]]>>, f[pos + 2])
  ELSE IF text[pos + 1] = LETTERU
       THEN IF Unicode(text, pos + 2).ok
            THEN Prepend(Unicode(text, pos + 2).value, f[Unicode(text, pos + 2).pos])
            ELSE Fail
  ELSE Fail

Resting(f, text, from) == f = [pos \in from..(Len(text) + 1) |-> RestBody(text, f, pos)]

LEMMA StringRestIs ==
  ASSUME NEW text, NEW start PROVE StringRest(text, start) = (CHOOSE f : Resting(f, text, 1))[start]
<1> DEFINE Body(f, pos) ==
      IF pos > Len(text) THEN Fail
      ELSE IF text[pos] = QUOTE THEN Read(pos + 1, <<>>)
      ELSE IF text[pos] # BACKSLASH THEN Prepend(<<text[pos]>>, f[pos + 1])
      ELSE IF pos = Len(text) THEN Fail
      ELSE CASE text[pos + 1] \in {QUOTE, BACKSLASH, 47} -> Prepend(<<text[pos + 1]>>, f[pos + 2])
             [] text[pos + 1] \in DOMAIN Letters -> Prepend(<<Letters[text[pos + 1]]>>, f[pos + 2])
             [] text[pos + 1] = LETTERU ->
                  IF Unicode(text, pos + 2).ok
                  THEN Prepend(Unicode(text, pos + 2).value, f[Unicode(text, pos + 2).pos])
                  ELSE Fail
             [] OTHER -> Fail
<1>1. StringRest(text, start)
        = (CHOOSE f : f = [pos \in 1..(Len(text) + 1) |-> Body(f, pos)])[start]
  BY DEF StringRest, Then, Prepend
<1>2. ASSUME NEW f, NEW pos PROVE Body(f, pos) = RestBody(text, f, pos)
  <2> DEFINE e == text[pos + 1]
  <2>1. {QUOTE, BACKSLASH, 47} = {34, 92, 47} /\ DOMAIN Letters = {98, 102, 110, 114, 116} /\ LETTERU = 117
    BY DEF QUOTE, BACKSLASH, LETTERU, Letters
  <2>2. CASE e \in {QUOTE, BACKSLASH, 47}
    <3>1. e \notin DOMAIN Letters /\ e # LETTERU
      BY <2>1, <2>2
    <3> QED BY <2>2, <3>1 DEF RestBody
  <2>3. CASE e \in DOMAIN Letters
    <3>1. e \notin {QUOTE, BACKSLASH, 47} /\ e # LETTERU
      BY <2>1, <2>3
    <3> QED BY <2>3, <3>1 DEF RestBody
  <2>4. CASE e = LETTERU
    <3>1. e \notin {QUOTE, BACKSLASH, 47} /\ e \notin DOMAIN Letters
      BY <2>1, <2>4
    <3> QED BY <2>4, <3>1 DEF RestBody
  <2>5. CASE e \notin {QUOTE, BACKSLASH, 47} /\ e \notin DOMAIN Letters /\ e # LETTERU
    BY <2>5 DEF RestBody
  <2> QED BY <2>2, <2>3, <2>4, <2>5
<1> HIDE DEF Body
<1>3. \A f : (f = [pos \in 1..(Len(text) + 1) |-> Body(f, pos)]) <=> Resting(f, text, 1)
  BY <1>2 DEF Resting
<1>4. (CHOOSE f : f = [pos \in 1..(Len(text) + 1) |-> Body(f, pos)]) = (CHOOSE f : Resting(f, text, 1))
  BY <1>3
<1> QED BY <1>1, <1>4

Ends(r, least, most) == r.ok \in BOOLEAN /\ (r.ok => r.pos \in least..most)

LEMMA Hex4Ends ==
  ASSUME NEW text, Len(text) \in Nat, NEW pos \in Nat
  PROVE  Ends(ParseHex4(text, pos), pos + 4, Len(text) + 1)
<1>1. CASE pos + 3 > Len(text) \/ \E i \in 0..3 : HexValue(text[pos + i]) < 0
  <2>1. ParseHex4(text, pos) = Fail
    BY <1>1 DEF ParseHex4
  <2>2. Ends(Fail, pos + 4, Len(text) + 1)
    BY DEF Fail, Ends
  <2> QED BY <2>1, <2>2
<1>2. CASE ~(pos + 3 > Len(text) \/ \E i \in 0..3 : HexValue(text[pos + i]) < 0)
  <2>1. ParseHex4(text, pos).ok = TRUE /\ ParseHex4(text, pos).pos = pos + 4
    BY <1>2 DEF ParseHex4, Read
  <2>2. pos + 4 \in (pos + 4)..(Len(text) + 1)
    BY <1>2
  <2> QED BY <2>1, <2>2 DEF Ends
<1> QED BY <1>1, <1>2

\* After a high surrogate the next escape is looked for.
Again(text, r) ==
  r.value \in 55296..56319 /\ IsPrefix(<<BACKSLASH, LETTERU>>, SubSeq(text, r.pos, Len(text)))

PairOf(r, r2) ==
  IF r2.value \in 56320..57343
  THEN 65536 + (r.value - 55296) * 1024 + (r2.value - 56320) ELSE r.value

\* What is made of the four digits r.
ReadsPoint(text, pos, r) ==
  Unicode(text, pos) =
    IF ~r.ok THEN Fail
    ELSE IF ~Again(text, r) THEN Read(r.pos, Utf8(r.value))
    ELSE IF ~ParseHex4(text, r.pos + 2).ok THEN Fail
    ELSE Read(ParseHex4(text, r.pos + 2).pos, Utf8(PairOf(r, ParseHex4(text, r.pos + 2))))

LEMMA UnicodeIs ==
  ASSUME NEW text, Len(text) \in Nat, NEW pos \in Nat
  PROVE  ReadsPoint(text, pos, ParseHex4(text, pos))
<1> DEFINE r == ParseHex4(text, pos)
           p == r.pos
           again == r.value \in 55296..56319
                      /\ IsPrefix(<<BACKSLASH, LETTERU>>, SubSeq(text, p, Len(text)))
           r2 == ParseHex4(text, p + 2)
           lo == r2.value
           cp == IF lo \in 56320..57343
                 THEN 65536 + (r.value - 55296) * 1024 + (lo - 56320) ELSE r.value
<1>1. Unicode(text, pos) =
        IF ~r.ok THEN Fail
        ELSE IF ~again THEN Read(p, Utf8(r.value))
        ELSE IF ~r2.ok THEN Fail
        ELSE Read(r2.pos, Utf8(cp))
  BY DEF Unicode, Then
<1>2. again <=> Again(text, r)
  BY DEF Again
<1>3. cp = PairOf(r, r2)
  BY DEF PairOf
<1> HIDE DEF again, cp
<1> QED BY <1>1, <1>2, <1>3 DEF ReadsPoint

LEMMA UnicodeEnds ==
  ASSUME NEW text, Len(text) \in Nat, NEW pos \in Nat
  PROVE  Ends(Unicode(text, pos), pos + 1, Len(text) + 1)
<1> DEFINE r == ParseHex4(text, pos)
           p == r.pos
           again == Again(text, r)
           r2 == ParseHex4(text, p + 2)
           cp == PairOf(r, r2)
<1>1. Unicode(text, pos) =
        IF ~r.ok THEN Fail
        ELSE IF ~again THEN Read(p, Utf8(r.value))
        ELSE IF ~r2.ok THEN Fail
        ELSE Read(r2.pos, Utf8(cp))
  BY UnicodeIs DEF ReadsPoint
<1>2. Ends(r, pos + 4, Len(text) + 1)
  BY Hex4Ends
<1> HIDE DEF r, again, cp
<1>3. CASE ~r.ok
  BY <1>1, <1>3 DEF Fail, Ends
<1>4. CASE r.ok
  <2>1. p \in (pos + 4)..(Len(text) + 1)
    BY <1>2, <1>4 DEF Ends
  <2>2. p + 2 \in Nat
    BY <2>1
  <2> HIDE DEF p
  <2>3. Ends(r2, p + 2 + 4, Len(text) + 1)
    <3> DEFINE q == p + 2
    <3> HIDE DEF q
    <3>1. Ends(ParseHex4(text, q), q + 4, Len(text) + 1)
      BY <2>2, Hex4Ends DEF q
    <3> QED BY <3>1 DEF q
  <2> HIDE DEF r2
  <2>4. CASE ~again
    <3>1. Unicode(text, pos) = Read(p, Utf8(r.value))
      BY <1>1, <1>4, <2>4
    <3> QED BY <2>1, <3>1 DEF Read, Ends
  <2>5. CASE again /\ ~r2.ok
    BY <1>1, <1>4, <2>5 DEF Fail, Ends
  <2>6. CASE again /\ r2.ok
    <3>1. Unicode(text, pos) = Read(r2.pos, Utf8(cp))
      BY <1>1, <1>4, <2>6
    <3>2. r2.pos \in (pos + 1)..(Len(text) + 1)
      BY <2>1, <2>3, <2>6 DEF Ends
    <3> QED BY <3>1, <3>2 DEF Read, Ends
  <2> QED BY <2>4, <2>5, <2>6
<1> QED BY <1>3, <1>4, <1>2 DEF Ends

\* It looks only at what is behind the position.
LEMMA RestDepends ==
  ASSUME NEW text, Len(text) \in Nat, NEW f, NEW h, NEW pos \in 1..(Len(text) + 1),
         \A q \in (pos + 1)..(Len(text) + 1) : f[q] = h[q]
  PROVE  RestBody(text, f, pos) = RestBody(text, h, pos)
<1> DEFINE n == Len(text)
           u == Unicode(text, pos + 2)
<1> SUFFICES ASSUME pos <= n PROVE RestBody(text, f, pos) = RestBody(text, h, pos)
  BY DEF RestBody
<1>1. f[pos + 1] = h[pos + 1]
  <2>1. pos + 1 \in (pos + 1)..(n + 1)
    OBVIOUS
  <2> QED BY <2>1
<1>2. pos # n => f[pos + 2] = h[pos + 2]
  <2>1. pos # n => pos + 2 \in (pos + 1)..(n + 1)
    OBVIOUS
  <2> QED BY <2>1
<1>3. u.ok => f[u.pos] = h[u.pos]
  <2> DEFINE q == pos + 2
  <2>1. q \in Nat
    OBVIOUS
  <2> HIDE DEF q
  <2>2. Ends(Unicode(text, q), q + 1, n + 1)
    BY <2>1, UnicodeEnds
  <2>3. Unicode(text, q) = u
    BY DEF q
  <2> HIDE DEF u
  <2>4. u.ok => u.pos \in (q + 1)..(n + 1)
    BY <2>2, <2>3 DEF Ends
  <2>5. \A p \in (q + 1)..(n + 1) : p \in (pos + 1)..(n + 1)
    BY DEF q
  <2> QED BY <2>4, <2>5
<1> DEFINE i1 == pos + 1
           i2 == pos + 2
<1>4. f[i1] = h[i1] /\ (pos # n => f[i2] = h[i2])
  BY <1>1, <1>2
<1> HIDE DEF u
<1>5. \A g : RestBody(text, g, pos) =
        IF pos > Len(text) THEN Fail
        ELSE IF text[pos] = QUOTE THEN Read(pos + 1, <<>>)
        ELSE IF text[pos] # BACKSLASH THEN Prepend(<<text[pos]>>, g[i1])
        ELSE IF pos = n THEN Fail
        ELSE IF text[pos + 1] \in {QUOTE, BACKSLASH, 47} THEN Prepend(<<text[pos + 1]>>, g[i2])
        ELSE IF text[pos + 1] \in DOMAIN Letters THEN Prepend(<<Letters[text[pos + 1]]>>, g[i2])
        ELSE IF text[pos + 1] = LETTERU THEN IF u.ok THEN Prepend(u.value, g[u.pos]) ELSE Fail
        ELSE Fail
  BY Zenon DEF RestBody, u
<1> HIDE DEF i1, i2, n
<1>6. CASE text[pos] # BACKSLASH
  BY <1>4, <1>5, <1>6
<1>7. CASE text[pos] = BACKSLASH /\ pos = n
  BY <1>4, <1>5, <1>7
<1>8. CASE text[pos] = BACKSLASH /\ pos # n
  <2>1. f[i2] = h[i2]
    BY <1>4, <1>8
  <2>2. CASE u.ok
    BY <1>3, <1>4, <1>5, <1>8, <2>1, <2>2
  <2>3. CASE ~u.ok
    BY <1>4, <1>5, <1>8, <2>1, <2>3
  <2> QED BY <2>2, <2>3
<1> QED BY <1>6, <1>7, <1>8

LEMMA RestingExists ==
  ASSUME NEW text, Len(text) \in Nat PROVE \E f : Resting(f, text, 1)
<1> DEFINE n == Len(text)
           T == {k \in Nat : k <= n => \E f : Resting(f, text, n + 1 - k)}
<1>1. n \in Nat
  OBVIOUS
<1>2. 0 \in T
  <2> DEFINE f == [p \in (n + 1)..(n + 1) |-> Fail]
  <2>1. f = [p \in (n + 1)..(n + 1) |-> RestBody(text, f, p)]
    <3>1. \A p \in (n + 1)..(n + 1) : RestBody(text, f, p) = Fail
      <4> HIDE DEF f
      <4> QED BY <1>1 DEF RestBody
    <3> QED BY <3>1
  <2>2. n + 1 - 0 = n + 1
    BY <1>1
  <2> HIDE DEF f
  <2>3. Resting(f, text, n + 1 - 0)
    BY <2>1, <2>2 DEF Resting
  <2> QED BY <2>3
<1>3. \A k \in Nat : k \in T => k + 1 \in T
  <2> SUFFICES ASSUME NEW k \in Nat, k + 1 <= n, NEW f, Resting(f, text, n + 1 - k)
               PROVE  \E h : Resting(h, text, n + 1 - (k + 1))
    BY <1>1
  <2> HIDE DEF n
  <2>a. n = Len(text)
    BY DEF n
  <2> DEFINE q == n + 1 - k
             h == [p \in (q - 1)..(n + 1) |-> IF p = q - 1 THEN RestBody(text, f, p) ELSE f[p]]
  <2>1. q \in 2..(n + 1) /\ n + 1 - (k + 1) = q - 1
    BY <1>1
  <2>2. f = [p \in q..(n + 1) |-> RestBody(text, f, p)]
    BY <2>a DEF Resting
  <2> HIDE DEF q
  <2>3. ASSUME NEW p \in (q - 1)..(n + 1) PROVE RestBody(text, h, p) = RestBody(text, f, p)
    <3>1. p \in 1..(Len(text) + 1)
      BY <2>a, <2>1, <1>1
    <3>2. \A j \in (p + 1)..(Len(text) + 1) : h[j] = f[j]
      <4> TAKE j \in (p + 1)..(Len(text) + 1)
      <4>1. j \in (q - 1)..(n + 1) /\ j # q - 1
        BY <2>a, <2>1, <1>1
      <4> QED BY <4>1
    <3> HIDE DEF h
    <3> QED BY <3>1, <3>2, RestDepends
  <2>4. \A p \in (q - 1)..(n + 1) : h[p] = RestBody(text, f, p)
    <3> TAKE p \in (q - 1)..(n + 1)
    <3>1. CASE p = q - 1
      BY <3>1
    <3>2. CASE p # q - 1
      <4>1. p \in q..(n + 1)
        BY <3>2, <2>1, <1>1
      <4>2. f[p] = RestBody(text, f, p)
        BY <4>1, <2>2
      <4> QED BY <3>2, <4>2
    <3> QED BY <3>1, <3>2
  <2>5. h = [p \in (q - 1)..(n + 1) |-> h[p]]
    OBVIOUS
  <2> HIDE DEF h
  <2>6. h = [p \in (q - 1)..(n + 1) |-> RestBody(text, h, p)]
    BY <2>3, <2>4, <2>5
  <2> QED BY <2>1, <2>6, <2>a DEF Resting
<1>4. \A k \in Nat : k \in T
  <2> HIDE DEF T
  <2> QED BY <1>2, <1>3, SetInduction
<1>5. \E f : Resting(f, text, n + 1 - n)
  BY <1>1, <1>4
<1>6. n + 1 - n = 1
  BY <1>1
<1> QED BY <1>5, <1>6

\* So StringRest is what it says, at every position.
LEMMA StringRestAt ==
  ASSUME NEW text, Len(text) \in Nat
  PROVE  \E f : \A pos \in 1..(Len(text) + 1) :
            StringRest(text, pos) = f[pos] /\ f[pos] = RestBody(text, f, pos)
<1> DEFINE f == CHOOSE g : Resting(g, text, 1)
<1>1. Resting(f, text, 1)
  BY RestingExists
<1>2. \A pos : StringRest(text, pos) = f[pos]
  BY StringRestIs
<1> HIDE DEF f
<1>3. \A pos \in 1..(Len(text) + 1) : f[pos] = RestBody(text, f, pos)
  <2> DEFINE h == [pos \in 1..(Len(text) + 1) |-> RestBody(text, f, pos)]
  <2>1. f = h
    BY <1>1 DEF Resting
  <2>2. \A pos \in 1..(Len(text) + 1) : h[pos] = RestBody(text, f, pos)
    OBVIOUS
  <2> QED BY <2>1, <2>2
<1> QED BY <1>2, <1>3

LEMMA HexDigits ==
  ASSUME NEW n \in 0..15
  PROVE  HexValue(HexDigit(n)) = n /\ HexDigit(n) \in 48..102
<1>1. CASE n < 10
  <2>1. HexDigit(n) = 48 + n /\ 48 + n \in 48..57 /\ (48 + n) - 48 = n
    BY <1>1 DEF HexDigit
  <2> QED BY <2>1 DEF HexValue, Digit
<1>2. CASE ~(n < 10)
  <2>1. HexDigit(n) = 87 + n /\ 87 + n \in 97..102 /\ (87 + n) - 87 = n
    BY <1>2 DEF HexDigit
  <2>2. 87 + n \notin 48..57
    BY <2>1
  <2> QED BY <2>1, <2>2 DEF HexValue, Digit
<1> QED BY <1>1, <1>2

\* Four digits at a position.
HexAt(text, pos, a, b, c, d) ==
  /\ a \in 0..15 /\ b \in 0..15 /\ c \in 0..15 /\ d \in 0..15
  /\ pos + 3 <= Len(text)
  /\ text[pos] = HexDigit(a) /\ text[pos + 1] = HexDigit(b)
  /\ text[pos + 2] = HexDigit(c) /\ text[pos + 3] = HexDigit(d)

LEMMA Hex4Is ==
  ASSUME NEW text, Len(text) \in Nat, NEW pos \in Nat, NEW a, NEW b, NEW c, NEW d,
         HexAt(text, pos, a, b, c, d)
  PROVE  ParseHex4(text, pos) = Read(pos + 4, 4096 * a + 256 * b + 16 * c + d)
<1>1. /\ a \in 0..15 /\ b \in 0..15 /\ c \in 0..15 /\ d \in 0..15
      /\ pos + 3 <= Len(text)
  BY DEF HexAt
<1>2. pos + 0 = pos
  OBVIOUS
<1>3. /\ HexValue(text[pos + 0]) = a /\ HexValue(text[pos + 1]) = b
      /\ HexValue(text[pos + 2]) = c /\ HexValue(text[pos + 3]) = d
  BY <1>1, <1>2, HexDigits DEF HexAt
<1>4. ~(pos + 3 > Len(text))
  BY <1>1
<1>5. ~(\E i \in 0..3 : HexValue(text[pos + i]) < 0)
  <2> SUFFICES ASSUME NEW i \in 0..3 PROVE ~(HexValue(text[pos + i]) < 0)
    OBVIOUS
  <2>1. i = 0 \/ i = 1 \/ i = 2 \/ i = 3
    OBVIOUS
  <2>2. ~(a < 0) /\ ~(b < 0) /\ ~(c < 0) /\ ~(d < 0)
    BY <1>1
  <2> QED BY <1>3, <2>1, <2>2
<1>6. ParseHex4(text, pos) =
        Read(pos + 4, 4096 * HexValue(text[pos + 0]) + 256 * HexValue(text[pos + 1])
                        + 16 * HexValue(text[pos + 2]) + HexValue(text[pos + 3]))
  BY <1>4, <1>5 DEF ParseHex4
<1> QED BY <1>3, <1>6

PlainAt(text, pos, p, v) == ParseHex4(text, pos) = Read(p, v) /\ v \notin 55296..56319

LEMMA UnicodeAlone ==
  ASSUME NEW text, Len(text) \in Nat, NEW pos \in Nat, NEW p, NEW v, PlainAt(text, pos, p, v)
  PROVE  Unicode(text, pos) = Read(p, Utf8(v))
<1> DEFINE r == ParseHex4(text, pos)
<1>1. r.ok = TRUE /\ r.pos = p /\ r.value = v
  BY DEF Read, PlainAt
<1>2. ReadsPoint(text, pos, r)
  BY UnicodeIs
<1> HIDE DEF r
<1>4. r.ok /\ ~Again(text, r)
  BY <1>1 DEF Again, PlainAt
<1>3. Unicode(text, pos) = Read(r.pos, Utf8(r.value))
  BY <1>2, <1>4 DEF ReadsPoint
<1> QED BY <1>1, <1>3

\* Where the spelling of a character is.
Spelled(text, pos, e, k) == \A j \in 1..k : text[pos + j - 1] = e[j]

\* A character's spelling is read to it, a part of the spelling to nothing.
CharAt(text, f, pos, c, e) ==
  /\ e \in Seq(Byte) /\ Len(e) \in 1..6
  /\ pos + Len(e) <= Len(text) + 1 /\ Spelled(text, pos, e, Len(e))
       => f[pos] = Prepend(<<c>>, f[pos + Len(e)])
  /\ pos + Len(e) > Len(text) + 1 /\ Spelled(text, pos, e, Len(text) + 1 - pos)
       => f[pos] = Fail

LEMMA AsItIs ==
  ASSUME NEW text, Len(text) \in Nat, NEW f, NEW pos \in 1..Len(text),
         f[pos] = RestBody(text, f, pos), NEW c \in Byte, c # QUOTE, c # BACKSLASH
  PROVE  CharAt(text, f, pos, c, <<c>>)
<1> DEFINE e == <<c>>
<1>1. e \in Seq(Byte) /\ Len(e) = 1 /\ e[1] = c
  OBVIOUS
<1> HIDE DEF e
<1>2. ASSUME Spelled(text, pos, e, 1) PROVE f[pos] = Prepend(<<c>>, f[pos + 1])
  <2>1. text[pos] = c
    <3>1. 1 \in 1..1 /\ pos + 1 - 1 = pos
      OBVIOUS
    <3> QED BY <1>1, <1>2, <3>1 DEF Spelled
  <2>2. ~(pos > Len(text))
    OBVIOUS
  <2> QED BY <2>1, <2>2 DEF RestBody
<1>3. ~(pos + 1 > Len(text) + 1)
  OBVIOUS
<1>4. CharAt(text, f, pos, c, e)
  BY <1>1, <1>2, <1>3 DEF CharAt
<1> QED BY <1>4 DEF e

LEMMA Escaped ==
  ASSUME NEW text, Len(text) \in Nat, NEW f, NEW pos \in 1..Len(text),
         f[pos] = RestBody(text, f, pos), NEW c \in Byte, NEW x \in Byte,
         \/ x \in {QUOTE, BACKSLASH} /\ x = c
         \/ x \in DOMAIN Letters /\ Letters[x] = c
  PROVE  CharAt(text, f, pos, c, <<BACKSLASH, x>>)
<1> DEFINE e == <<BACKSLASH, x>>
<1>1. e \in Seq(Byte) /\ Len(e) = 2 /\ e[1] = BACKSLASH /\ e[2] = x
  <2>1. BACKSLASH \in Byte
    BY DEF BACKSLASH, Byte
  <2> QED BY <2>1
<1> HIDE DEF e
<1>2. BACKSLASH # QUOTE /\ {QUOTE, BACKSLASH, 47} \cap DOMAIN Letters = {}
  BY DEF BACKSLASH, QUOTE, Letters
<1>3. ASSUME pos + 2 <= Len(text) + 1, Spelled(text, pos, e, 2)
      PROVE  f[pos] = Prepend(<<c>>, f[pos + 2])
  <2>1. text[pos] = BACKSLASH /\ text[pos + 1] = x
    <3>1. 1 \in 1..2 /\ pos + 1 - 1 = pos /\ 2 \in 1..2 /\ pos + 2 - 1 = pos + 1
      OBVIOUS
    <3>2. text[pos + 1 - 1] = e[1] /\ text[pos + 2 - 1] = e[2]
      BY <1>3, <3>1 DEF Spelled
    <3> QED BY <1>1, <3>1, <3>2
  <2>2. ~(pos > Len(text)) /\ pos # Len(text)
    BY <1>3
  <2>3. CASE x \in {QUOTE, BACKSLASH} /\ x = c
    BY <1>2, <2>1, <2>2, <2>3 DEF RestBody
  <2>4. CASE x \in DOMAIN Letters /\ Letters[x] = c
    <3>1. x \notin {QUOTE, BACKSLASH, 47}
      BY <1>2, <2>4
    <3> QED BY <1>2, <2>1, <2>2, <2>4, <3>1 DEF RestBody
  <2> QED BY <2>3, <2>4
<1>4. ASSUME pos + 2 > Len(text) + 1, Spelled(text, pos, e, Len(text) + 1 - pos)
      PROVE  f[pos] = Fail
  <2>1. pos = Len(text) /\ Len(text) + 1 - pos = 1 /\ 1 \in 1..1 /\ pos + 1 - 1 = pos
    BY <1>4
  <2>2. text[pos] = BACKSLASH
    BY <1>1, <1>4, <2>1 DEF Spelled
  <2>3. ~(pos > Len(text))
    OBVIOUS
  <2> QED BY <1>2, <2>1, <2>2, <2>3 DEF RestBody
<1>5. CharAt(text, f, pos, c, e)
  BY <1>1, <1>3, <1>4 DEF CharAt
<1> QED BY <1>5 DEF e

LEMMA HexEscaped ==
  ASSUME NEW text, Len(text) \in Nat, NEW f, NEW pos \in 1..Len(text),
         f[pos] = RestBody(text, f, pos), NEW c \in Byte, c < 32
  PROVE  CharAt(text, f, pos, c,
                <<BACKSLASH, LETTERU, 48, 48, HexDigit(c \div 16), HexDigit(c % 16)>>)
<1> DEFINE hi == c \div 16
           lo == c % 16
           x == HexDigit(hi)
           y == HexDigit(lo)
           e == <<BACKSLASH, LETTERU, 48, 48, x, y>>
           q == pos + 2
<1>1. hi \in 0..15 /\ lo \in 0..15 /\ 4096 * 0 + 256 * 0 + 16 * hi + lo = c
  BY DEF Byte
<1> HIDE DEF hi, lo
<1>2. x \in 48..102 /\ y \in 48..102 /\ HexDigit(0) = 48
  <2>1. HexDigit(0) = 48
    BY DEF HexDigit
  <2> HIDE DEF x, y, e, q
  <2>3. \A n \in 0..15 : HexDigit(n) \in 48..102
    BY HexDigits
  <2>4. hi \in 0..15 /\ lo \in 0..15
    BY <1>1
  <2>2. HexDigit(hi) \in 48..102 /\ HexDigit(lo) \in 48..102
    BY <2>3, <2>4, Zenon
  <2> QED BY <2>1, <2>2 DEF x, y
<1>3. x \in Byte /\ y \in Byte /\ BACKSLASH \in Byte /\ LETTERU \in Byte /\ 48 \in Byte
  BY <1>2 DEF Byte, BACKSLASH, LETTERU
<1> HIDE DEF x, y
<1>4. /\ e \in Seq(Byte) /\ Len(e) = 6
      /\ e[1] = BACKSLASH /\ e[2] = LETTERU /\ e[3] = 48 /\ e[4] = 48 /\ e[5] = x /\ e[6] = y
  <2> HIDE DEF Byte
  <2> QED BY <1>3
<1> HIDE DEF e
<1>5. /\ BACKSLASH # QUOTE /\ LETTERU \notin {QUOTE, BACKSLASH, 47} /\ LETTERU \notin DOMAIN Letters
  BY DEF BACKSLASH, QUOTE, Letters, LETTERU
<1>6. q \in Nat /\ pos \in Nat /\ Len(text) \in Nat /\ ~(pos > Len(text))
  OBVIOUS
<1>10. c \in Int /\ c < 128 /\ c < 55296
  BY DEF Byte
<1>7. ASSUME pos + 6 <= Len(text) + 1, Spelled(text, pos, e, 6)
      PROVE  f[pos] = Prepend(<<c>>, f[pos + 6])
  <2>1. /\ pos + 1 - 1 = pos /\ pos + 2 - 1 = pos + 1 /\ pos + 3 - 1 = q /\ pos + 4 - 1 = q + 1
        /\ pos + 5 - 1 = q + 2 /\ pos + 6 - 1 = q + 3 /\ pos # Len(text) /\ q + 3 <= Len(text)
        /\ q + 4 = pos + 6
    BY <1>7
  <2>2. /\ text[pos + 1 - 1] = e[1] /\ text[pos + 2 - 1] = e[2] /\ text[pos + 3 - 1] = e[3]
        /\ text[pos + 4 - 1] = e[4] /\ text[pos + 5 - 1] = e[5] /\ text[pos + 6 - 1] = e[6]
    BY <1>7 DEF Spelled
  <2> HIDE DEF q
  <2>3. HexAt(text, q, 0, 0, hi, lo)
    <3>1. text[q] = 48 /\ text[q + 1] = 48 /\ text[q + 2] = x /\ text[q + 3] = y
      BY <1>4, <2>1, <2>2
    <3>2. 0 \in 0..15
      OBVIOUS
    <3> QED BY <1>1, <1>2, <2>1, <3>1, <3>2 DEF HexAt, x, y
  <2>4. ParseHex4(text, q) = Read(q + 4, c)
    <3>1. ParseHex4(text, q) = Read(q + 4, 4096 * 0 + 256 * 0 + 16 * hi + lo)
      BY <1>6, <2>3, Hex4Is
    <3> QED BY <1>1, <3>1
  <2>5. Unicode(text, q) = Read(q + 4, Utf8(c))
    <3>1. c \notin 55296..56319
      BY <1>10
    <3> DEFINE p == q + 4
    <3>2. PlainAt(text, q, p, c)
      BY <2>4, <3>1 DEF PlainAt
    <3> HIDE DEF p
    <3>3. Unicode(text, q) = Read(p, Utf8(c))
      BY <1>6, <3>2, UnicodeAlone
    <3> QED BY <3>3 DEF p
  <2>6. Utf8(c) = <<c>>
    BY <1>10 DEF Utf8
  <2>7. Unicode(text, q).ok /\ Unicode(text, q).value = <<c>> /\ Unicode(text, q).pos = pos + 6
    BY <2>1, <2>5, <2>6 DEF Read
  <2>8. text[pos] = BACKSLASH /\ text[pos + 1] = LETTERU
    BY <1>4, <2>1, <2>2
  <2>9. f[pos] = Prepend(Unicode(text, pos + 2).value, f[Unicode(text, pos + 2).pos])
    <3>1. Unicode(text, pos + 2).ok
      BY <2>7 DEF q
    <3> QED BY <1>5, <1>6, <2>1, <2>8, <3>1 DEF RestBody
  <2> QED BY <2>7, <2>9 DEF q
<1>8. ASSUME pos + 6 > Len(text) + 1, Spelled(text, pos, e, Len(text) + 1 - pos)
      PROVE  f[pos] = Fail
  <2>1. /\ pos + 1 - 1 = pos /\ pos + 2 - 1 = pos + 1 /\ q + 3 > Len(text)
        /\ 1 \in 1..(Len(text) + 1 - pos)
        /\ pos # Len(text) => 2 \in 1..(Len(text) + 1 - pos)
    BY <1>8
  <2>2. text[pos] = BACKSLASH
    BY <1>4, <1>8, <2>1 DEF Spelled
  <2>3. pos # Len(text) => text[pos + 1] = LETTERU
    BY <1>4, <1>8, <2>1 DEF Spelled
  <2>4. ~Unicode(text, pos + 2).ok
    <3> HIDE DEF q
    <3>1. ParseHex4(text, q) = Fail
      BY <2>1 DEF ParseHex4
    <3>2. ReadsPoint(text, q, ParseHex4(text, q))
      BY <1>6, UnicodeIs
    <3>3. ~Fail.ok
      BY DEF Fail
    <3>4. Unicode(text, q) = Fail
      BY <3>1, <3>2, <3>3 DEF ReadsPoint
    <3> QED BY <3>3, <3>4 DEF q
  <2>5. CASE pos = Len(text)
    BY <1>5, <1>6, <2>2, <2>5 DEF RestBody
  <2>6. CASE pos # Len(text)
    BY <1>5, <1>6, <2>2, <2>3, <2>4, <2>6 DEF RestBody
  <2> QED BY <2>5, <2>6
<1>9. CharAt(text, f, pos, c, e)
  <2>1. Len(e) \in 1..6
    BY <1>4
  <2> QED BY <1>4, <1>7, <1>8, <2>1 DEF CharAt
<1> QED BY <1>9 DEF e, x, y, hi, lo

LEMMA EscapeRead ==
  ASSUME NEW text, Len(text) \in Nat, NEW f, NEW pos \in 1..Len(text),
         f[pos] = RestBody(text, f, pos), NEW c \in Byte
  PROVE  CharAt(text, f, pos, c, Escape(c))
<1>1. CASE c \in {QUOTE, BACKSLASH}
  <2>1. Escape(c) = <<BACKSLASH, c>>
    BY <1>1 DEF Escape
  <2> QED BY <1>1, <2>1, Escaped
<1>2. CASE c \notin {QUOTE, BACKSLASH} /\ \E e \in DOMAIN Letters : Letters[e] = c
  <2> DEFINE x == CHOOSE e \in DOMAIN Letters : Letters[e] = c
  <2>1. Escape(c) = <<BACKSLASH, x>>
    BY <1>2 DEF Escape
  <2>2. x \in DOMAIN Letters /\ Letters[x] = c
    BY <1>2
  <2> HIDE DEF x
  <2>3. x \in Byte
    BY <2>2 DEF Letters, Byte
  <2>4. CharAt(text, f, pos, c, <<BACKSLASH, x>>)
    BY <2>2, <2>3, Escaped
  <2> QED BY <2>1, <2>4
<1>3. CASE c \notin {QUOTE, BACKSLASH} /\ ~(\E e \in DOMAIN Letters : Letters[e] = c) /\ c < 32
  <2>1. Escape(c) = <<BACKSLASH, LETTERU, 48, 48, HexDigit(c \div 16), HexDigit(c % 16)>>
    BY <1>3 DEF Escape
  <2> QED BY <1>3, <2>1, HexEscaped
<1>4. CASE c \notin {QUOTE, BACKSLASH} /\ ~(\E e \in DOMAIN Letters : Letters[e] = c) /\ ~(c < 32)
  <2>1. Escape(c) = <<c>>
    BY <1>4 DEF Escape
  <2> QED BY <1>4, <2>1, AsItIs
<1> QED BY <1>1, <1>2, <1>3, <1>4

----------------------------------------------------------------------------

Spellings(s) == [i \in DOMAIN s |-> Escape(s[i])]

Opened(s) == <<QUOTE>> \o FlattenSeq(Spellings(s))

LEMMA EscapeType ==
  ASSUME NEW c \in Byte PROVE Escape(c) \in Seq(Byte) /\ Len(Escape(c)) \in 1..6
<1> DEFINE text == <<c>>
<1>1. Len(text) \in Nat /\ 1 \in 1..Len(text)
  OBVIOUS
<1>2. PICK h : \A pos \in 1..(Len(text) + 1) :
            StringRest(text, pos) = h[pos] /\ h[pos] = RestBody(text, h, pos)
  BY <1>1, StringRestAt
<1>3. 1 \in 1..(Len(text) + 1)
  BY <1>1
<1> HIDE DEF text
<1>4. CharAt(text, h, 1, c, Escape(c))
  BY <1>1, <1>2, <1>3, EscapeRead
<1> QED BY <1>4 DEF CharAt

LEMMA OpenedType ==
  ASSUME NEW s \in Seq(Byte)
  PROVE  Spellings(s) \in Seq(Seq(Byte)) /\ Opened(s) \in Seq(Byte)
<1>1. s \in [1..Len(s) -> Byte] /\ Len(s) \in Nat /\ DOMAIN s = 1..Len(s)
  BY ElementOfSeq, LenProperties
<1>2. \A i \in 1..Len(s) : Escape(s[i]) \in Seq(Byte)
  BY <1>1, EscapeType
<1>3. Spellings(s) \in [1..Len(s) -> Seq(Byte)]
  BY <1>1, <1>2 DEF Spellings
<1>4. Spellings(s) \in Seq(Seq(Byte))
  BY <1>1, <1>3
<1>5. <<QUOTE>> \in Seq(Byte)
  BY DEF QUOTE, Byte
<1>6. FlattenSeq(Spellings(s)) \in Seq(Byte)
  BY <1>4, FlattenType
<1> QED BY <1>4, <1>5, <1>6, ConcatProperties DEF Opened

\* A sequence and a part behind it.
OpenedBy(s, c) == Opened(Append(s, c)) = Opened(s) \o Escape(c)

LEMMA OpenedGrows ==
  ASSUME NEW s \in Seq(Byte), NEW c \in Byte PROVE OpenedBy(s, c)
<1> DEFINE more == Append(s, c)
           es == Spellings(s)
           e == Escape(c)
           q == <<QUOTE>>
<1>1. es \in Seq(Seq(Byte)) /\ e \in Seq(Byte) /\ FlattenSeq(es) \in Seq(Byte) /\ q \in Seq(Byte)
  <2>1. q \in Seq(Byte)
    BY DEF QUOTE, Byte
  <2> QED BY <2>1, OpenedType, EscapeType, FlattenType
<1>2. Spellings(more) = Append(es, e)
  <2> DEFINE n == Len(s)
             a == Spellings(more)
             b == Append(es, e)
  <2>1. n \in Nat /\ DOMAIN s = 1..n /\ Len(more) = n + 1 /\ more \in Seq(Byte)
        /\ more[n + 1] = c /\ \A i \in 1..n : more[i] = s[i]
    BY AppendProperties, LenProperties
  <2>2. DOMAIN more = 1..(n + 1)
    BY <2>1, LenProperties
  <2>3. Len(es) = n /\ \A i \in 1..n : es[i] = Escape(s[i])
    <3>1. DOMAIN es = 1..n
      BY <2>1 DEF Spellings
    <3> QED BY <1>1, <2>1, <3>1 DEF Spellings
  <2>4. b \in Seq(Seq(Byte)) /\ Len(b) = n + 1 /\ b[n + 1] = e /\ \A i \in 1..n : b[i] = es[i]
    BY <1>1, <2>3, AppendProperties
  <2>5. a = [i \in 1..(n + 1) |-> Escape(more[i])]
    BY <2>2 DEF Spellings
  <2>6. a \in Seq(Seq(Byte)) /\ Len(a) = n + 1
    <3>1. a \in Seq(Seq(Byte))
      BY <2>1, OpenedType
    <3>2. DOMAIN a = 1..(n + 1)
      BY <2>5
    <3> QED BY <2>1, <3>1, <3>2
  <2>7. \A i \in 1..(n + 1) : a[i] = b[i]
    <3> TAKE i \in 1..(n + 1)
    <3>1. a[i] = Escape(more[i])
      BY <2>5
    <3>2. CASE i = n + 1
      BY <2>1, <2>4, <3>1, <3>2
    <3>3. CASE i # n + 1
      <4>1. i \in 1..n
        BY <2>1, <3>3
      <4> QED BY <2>1, <2>3, <2>4, <3>1, <4>1
    <3> QED BY <3>2, <3>3
  <2> HIDE DEF a, b, n
  <2>8. a = b
    BY <2>4, <2>6, <2>7, SeqEqual
  <2> QED BY <2>8 DEF a, b
<1>3. FlattenSeq(Append(es, e)) = FlattenSeq(es) \o e
  BY <1>1, FlattenAppend
<1> DEFINE body == FlattenSeq(es)
<1>4. q \o (body \o e) = (q \o body) \o e
  <2> HIDE DEF body, e, q, es
  <2> QED BY <1>1, ConcatAssociative DEF body
<1> QED BY <1>2, <1>3, <1>4 DEF Opened, OpenedBy

\* What has arrived is the beginning of a text, or holds it.
Begins(w, u) == \A i \in 1..Len(w) : i <= Len(u) => w[i] = u[i]

\* What is read behind the spelling of s is read with s before it; when that
\* spelling has not arrived, nothing is read.
Reads(w, f, s) ==
  LET p == Len(Opened(s)) + 1
  IN  /\ p <= Len(w) + 1 /\ f[p] = Fail => f[2] = Fail
      /\ p <= Len(w) + 1 =>
            \A end, v : v \in Seq(Byte) /\ f[p] = Read(end, v) => f[2] = Read(end, s \o v)
      /\ p > Len(w) + 1 => f[2] = Fail

\* f gives what is made of w, from each of its positions on.
ReadFrom(w, f) == \A p \in 1..(Len(w) + 1) : f[p] = RestBody(w, f, p)

LEMMA ReadsOn ==
  ASSUME NEW w, Len(w) \in Nat, NEW f, ReadFrom(w, f), NEW s \in Seq(Byte), NEW c \in Byte,
         Reads(w, f, s), Begins(w, Opened(Append(s, c)))
  PROVE  Reads(w, f, Append(s, c))
<1> DEFINE more == Append(s, c)
           u == Opened(s)
           e == Escape(c)
           u2 == Opened(more)
           m == Len(u)
           k == Len(e)
           p == m + 1
           q == Len(u2) + 1
           n == Len(w)
<1>1. more \in Seq(Byte) /\ u \in Seq(Byte) /\ e \in Seq(Byte) /\ u2 \in Seq(Byte) /\ k \in 1..6
  BY AppendProperties, OpenedType, EscapeType
<1>2. u2 = u \o e
  BY OpenedGrows DEF OpenedBy
<1>3. Joined(Byte, u2, u, e)
  <2> HIDE DEF u, e, u2
  <2> QED BY <1>1, <1>2, TwoParts
<1>4. m \in Nat /\ n \in Nat /\ Len(u2) = m + k
  BY <1>1, <1>3, LenProperties DEF Joined
<1>5. \A j \in 1..k : u2[m + j] = e[j]
  BY <1>3 DEF Joined
<1>6. \A i \in 1..n : i <= m + k => w[i] = u2[i]
  BY <1>4 DEF Begins
<1>7. /\ p <= n + 1 /\ f[p] = Fail => f[2] = Fail
      /\ p <= n + 1 =>
            \A end, v : v \in Seq(Byte) /\ f[p] = Read(end, v) => f[2] = Read(end, s \o v)
      /\ p > n + 1 => f[2] = Fail
  BY DEF Reads
<1> HIDE DEF u, e, u2, m, k, n
<1>8. q = p + k /\ p \in Nat /\ k \in Nat /\ k > 0
  BY <1>1, <1>4
<1>9. ASSUME p <= n
      PROVE  /\ p + k <= n + 1 => f[p] = Prepend(<<c>>, f[p + k])
             /\ p + k > n + 1 => f[p] = Fail
  <2>1. p \in 1..n /\ p \in 1..(n + 1)
    BY <1>4, <1>8, <1>9
  <2>2. CharAt(w, f, p, c, e)
    <3>1. f[p] = RestBody(w, f, p) /\ p \in 1..Len(w)
      BY <2>1 DEF ReadFrom, n
    <3> HIDE DEF p
    <3> QED BY <3>1, EscapeRead DEF e
  <2>3. ASSUME NEW l \in 0..k, p + l <= n + 1 PROVE Spelled(w, p, e, l)
    <3> SUFFICES ASSUME NEW j \in 1..l PROVE w[p + j - 1] = e[j]
      BY DEF Spelled
    <3>1. p + j - 1 \in 1..n /\ p + j - 1 = m + j /\ m + j <= m + k /\ j \in 1..k
      BY <1>4, <1>8, <2>3
    <3> QED BY <1>5, <1>6, <3>1
  <2>4. CASE p + k <= n + 1
    <3>1. Spelled(w, p, e, k)
      BY <1>8, <2>3, <2>4
    <3> QED BY <1>4, <1>8, <2>2, <2>4, <3>1 DEF CharAt, k, n
  <2>5. CASE p + k > n + 1
    <3>1. n + 1 - p \in 0..k /\ p + (n + 1 - p) <= n + 1
      BY <1>4, <1>8, <1>9, <2>5
    <3>2. Spelled(w, p, e, n + 1 - p)
      BY <3>1, <2>3
    <3> QED BY <1>4, <1>8, <2>2, <2>5, <3>2 DEF CharAt, k, n
  <2> QED BY <1>4, <1>8, <2>4, <2>5
<1>10. p = n + 1 => f[p] = Fail
  <2>1. p = n + 1 => p \in 1..(n + 1) /\ p > n
    BY <1>4, <1>8
  <2> QED BY <2>1 DEF ReadFrom, RestBody, n
<1> HIDE DEF p
<1> DEFINE r == p + k
<1>11. CASE r <= n + 1
  <2>1. p <= n /\ p <= n + 1
    BY <1>4, <1>8, <1>11
  <2>2. f[p] = Prepend(<<c>>, f[r])
    BY <1>9, <1>11, <2>1
  <2> HIDE DEF r
  <2>3. f[r] = Fail => f[2] = Fail
    <3>1. f[r] = Fail => f[p] = Fail
      BY <2>2 DEF Prepend, Fail
    <3> QED BY <1>7, <2>1, <3>1
  <2>4. ASSUME NEW end, NEW v \in Seq(Byte), f[r] = Read(end, v)
        PROVE  f[2] = Read(end, more \o v)
    <3>1. f[p] = Read(end, <<c>> \o v)
      BY <2>2, <2>4 DEF Prepend, Read
    <3>2. <<c>> \in Seq(Byte)
      OBVIOUS
    <3>3. <<c>> \o v \in Seq(Byte)
      BY <3>2, ConcatProperties
    <3>4. f[2] = Read(end, s \o (<<c>> \o v))
      BY <1>7, <2>1, <3>1, <3>3
    <3>5. s \o (<<c>> \o v) = (s \o <<c>>) \o v /\ s \o <<c>> = more
      BY <3>2, ConcatAssociative, AppendIsConcat
    <3> QED BY <3>4, <3>5
  <2>5. \A end, v : v \in Seq(Byte) /\ f[r] = Read(end, v) => f[2] = Read(end, more \o v)
    BY <2>4
  <2>6. q = r /\ ~(r > n + 1)
    BY <1>4, <1>8, <1>11 DEF r
  <2> HIDE DEF more
  <2>7. Reads(w, f, more) <=>
          /\ q <= n + 1 /\ f[q] = Fail => f[2] = Fail
          /\ q <= n + 1 =>
                \A end, v : v \in Seq(Byte) /\ f[q] = Read(end, v) => f[2] = Read(end, more \o v)
          /\ q > n + 1 => f[2] = Fail
    BY DEF Reads, n, u2
  <2> HIDE DEF q
  <2>8. f[q] = Fail => f[2] = Fail
    BY <2>3, <2>6
  <2>9. \A end, v : v \in Seq(Byte) /\ f[q] = Read(end, v) => f[2] = Read(end, more \o v)
    BY <2>5, <2>6, Zenon
  <2>10. ~(q > n + 1)
    BY <2>6
  <2>11. Reads(w, f, more)
    BY <2>7, <2>8, <2>9, <2>10, Zenon
  <2> QED BY <2>11 DEF more
<1>12. CASE r > n + 1
  <2>1. f[2] = Fail
    <3>1. CASE p <= n
      BY <1>4, <1>7, <1>8, <1>9, <1>12, <3>1
    <3>2. CASE p = n + 1
      BY <1>4, <1>7, <1>8, <1>10, <3>2
    <3>3. CASE p > n + 1
      BY <1>7, <3>3
    <3> QED BY <1>4, <1>8, <3>1, <3>2, <3>3
  <2>2. q > n + 1 /\ ~(q <= n + 1)
    BY <1>4, <1>8, <1>12
  <2> HIDE DEF q
  <2> QED BY <2>1, <2>2 DEF Reads, q, n, u2
<1>13. r \in Nat
  BY <1>8
<1> QED BY <1>4, <1>11, <1>12, <1>13 DEF r

LEMMA ReadsAll ==
  ASSUME NEW w, Len(w) \in Nat \ {0}, NEW f, ReadFrom(w, f), NEW s \in Seq(Byte),
         Begins(w, Opened(s))
  PROVE  Reads(w, f, s)
<1> DEFINE T == {r \in Seq(Byte) : Begins(w, Opened(r)) => Reads(w, f, r)}
<1>1. <<>> \in T
  <2>1. Spellings(<<>>) = <<>>
    BY DEF Spellings
  <2>2. Opened(<<>>) = <<QUOTE>>
    <3>1. <<QUOTE>> \in Seq(Byte)
      BY DEF QUOTE, Byte
    <3>2. <<QUOTE>> \o <<>> = <<QUOTE>>
      BY <3>1, ConcatEmptySeq
    <3> QED BY <2>1, <3>2, FlattenEmpty DEF Opened
  <2>3. Len(Opened(<<>>)) + 1 = 2 /\ ~(2 > Len(w) + 1)
    <3>1. Len(<<QUOTE>>) = 1
      OBVIOUS
    <3> DEFINE k == Len(Opened(<<>>))
    <3>2. k = 1
      BY <2>2, <3>1, Zenon
    <3> HIDE DEF k, T
    <3>3. k + 1 = 2
      BY <3>2
    <3>4. ~(2 > Len(w) + 1)
      OBVIOUS
    <3> QED BY <3>3, <3>4 DEF k
  <2>4. ASSUME NEW end, NEW v \in Seq(Byte), f[2] = Read(end, v)
        PROVE  f[2] = Read(end, <<>> \o v)
    BY <2>4, ConcatEmptySeq
  <2>5. Reads(w, f, <<>>)
    BY <2>3, <2>4 DEF Reads
  <2> QED BY <2>5
<1>2. \A r \in Seq(Byte), c \in Byte : r \in T => Append(r, c) \in T
  <2> SUFFICES ASSUME NEW r \in Seq(Byte), NEW c \in Byte, r \in T,
                      Begins(w, Opened(Append(r, c)))
               PROVE  Reads(w, f, Append(r, c))
    BY AppendProperties
  <2>1. Begins(w, Opened(r))
    <3> DEFINE u == Opened(r)
               e == Escape(c)
               u2 == Opened(Append(r, c))
    <3>1. u \in Seq(Byte) /\ e \in Seq(Byte)
      BY OpenedType, EscapeType
    <3>2. u2 = u \o e
      BY OpenedGrows DEF OpenedBy
    <3>3. Begins(w, u2)
      OBVIOUS
    <3> HIDE DEF u, e, u2
    <3>4. Joined(Byte, u2, u, e)
      BY <3>1, <3>2, TwoParts
    <3> DEFINE m == Len(u)
               k == Len(e)
    <3>5. /\ m \in Nat /\ k \in Nat /\ Len(u2) = m + k
          /\ \A i \in 1..m : u2[i] = u[i]
      BY <3>1, <3>4, LenProperties DEF Joined
    <3> HIDE DEF m, k
    <3>6. Begins(w, u)
      <4>1. \A i \in 1..Len(w) : i <= m => w[i] = u[i]
        <5> TAKE i \in 1..Len(w)
        <5> HAVE i <= m
        <5>1. i \in 1..m /\ i <= m + k
          BY <3>5
        <5> QED BY <3>3, <3>5, <5>1 DEF Begins
      <4> QED BY <4>1 DEF Begins, m
    <3> QED BY <3>6 DEF u
  <2>2. Reads(w, f, r)
    BY <2>1
  <2> HIDE DEF T
  <2> QED BY <2>2, ReadsOn
<1>3. \A r \in Seq(Byte) : r \in T
  <2> HIDE DEF T
  <2> QED BY <1>1, <1>2, SeqInduction
<1> QED BY <1>3

\* A string that was written is read, and a part of its text is not.
StringBack(s) ==
  /\ ParseString(EscapeTo(s), 1) = Read(Len(EscapeTo(s)) + 1, s)
  /\ \A n \in 0..(Len(EscapeTo(s)) - 1) : ~ParseString(SubSeq(EscapeTo(s), 1, n), 1).ok

LEMMA StringComesBack == ASSUME NEW s \in Seq(Byte) PROVE StringBack(s)
<1> DEFINE text == EscapeTo(s)
           u == Opened(s)
           q == <<QUOTE>>
           m == Len(u)
<1>1. text = u \o q
  BY DEF EscapeTo, Opened, Spellings
<1>2. u \in Seq(Byte) /\ q \in Seq(Byte) /\ Len(q) = 1 /\ q[1] = QUOTE
  <2>1. q \in Seq(Byte)
    BY DEF QUOTE, Byte
  <2> QED BY <2>1, OpenedType
<1>3. u[1] = QUOTE /\ m \in Nat \ {0}
  <2> DEFINE b == FlattenSeq(Spellings(s))
  <2>1. b \in Seq(Byte) /\ u = q \o b
    BY OpenedType, FlattenType DEF Opened
  <2> HIDE DEF b, q
  <2>2. Joined(Byte, u, q, b)
    <3> HIDE DEF u
    <3> QED BY <1>2, <2>1, TwoParts
  <2>3. Len(b) \in Nat /\ 1 \in 1..1
    BY <2>1, LenProperties
  <2> HIDE DEF u
  <2> QED BY <1>2, <2>2, <2>3 DEF Joined
<1> SUFFICES /\ ParseString(text, 1) = Read(Len(text) + 1, s)
             /\ \A n \in 0..(Len(text) - 1) : ~ParseString(SubSeq(text, 1, n), 1).ok
  BY DEF StringBack
<1> HIDE DEF text, q
<1>4. Joined(Byte, text, u, q)
  <2> HIDE DEF u
  <2> QED BY <1>1, <1>2, TwoParts
<1>u. u = Opened(s)
  OBVIOUS
<1> HIDE DEF u
<1>5. /\ text \in Seq(Byte) /\ Len(text) = m + 1 /\ text[m + 1] = QUOTE
      /\ \A i \in 1..m : text[i] = u[i]
  <2>1. 1 \in 1..1
    OBVIOUS
  <2> QED BY <1>2, <1>4, <2>1 DEF Joined
<1> HIDE DEF m
<1>6. ASSUME NEW w, NEW l \in 1..(m + 1), Len(w) = l, \A i \in 1..l : w[i] = text[i]
      PROVE  /\ l <= m => ParseString(w, 1) = Fail
             /\ l = m + 1 => ParseString(w, 1) = Read(l + 1, s)
  <2>1. w[1] = QUOTE
    <3>1. 1 \in 1..l /\ 1 \in 1..m
      BY <1>3
    <3> QED BY <1>3, <1>5, <1>6, <3>1
  <2>2. ParseString(w, 1) = StringRest(w, 2)
    <3>1. 1 <= Len(w) /\ 1 + 1 = 2
      BY <1>6
    <3> QED BY <2>1, <3>1 DEF ParseString, Consume
  <2>3. PICK f : \A pos \in 1..(Len(w) + 1) :
            StringRest(w, pos) = f[pos] /\ f[pos] = RestBody(w, f, pos)
    <3>1. Len(w) \in Nat
      BY <1>6
    <3> QED BY <3>1, StringRestAt
  <2>4. ReadFrom(w, f)
    BY <2>3 DEF ReadFrom
  <2>5. ParseString(w, 1) = f[2]
    <3>1. 2 \in 1..(Len(w) + 1)
      BY <1>6
    <3> QED BY <2>2, <2>3, <3>1
  <2>6. Begins(w, Opened(s))
    <3>1. \A i \in 1..l : i <= m => w[i] = u[i]
      <4> TAKE i \in 1..l
      <4> HAVE i <= m
      <4>1. i \in 1..m
        BY <1>3
      <4> QED BY <1>5, <1>6, <4>1
    <3> QED BY <1>6, <1>u, <3>1 DEF Begins, m
  <2>7. Reads(w, f, s)
    <3>1. Len(w) \in Nat \ {0}
      BY <1>6
    <3> QED BY <2>4, <2>6, <3>1, ReadsAll
  <2> DEFINE p == m + 1
  <2>8. /\ p <= l + 1 /\ f[p] = Fail => f[2] = Fail
        /\ p <= l + 1 =>
              \A end, v : v \in Seq(Byte) /\ f[p] = Read(end, v) => f[2] = Read(end, s \o v)
        /\ p > l + 1 => f[2] = Fail
    BY <1>6, <1>u, <2>7 DEF Reads, m
  <2>9. CASE l = m + 1
    <3>1. p \in 1..(Len(w) + 1) /\ p \in 1..l /\ p <= l + 1 /\ ~(p > Len(w)) /\ p + 1 = l + 1
      BY <1>3, <1>6, <2>9
    <3>2. w[p] = QUOTE
      BY <1>5, <1>6, <3>1
    <3> HIDE DEF p
    <3>3. f[p] = Read(p + 1, <<>>)
      BY <2>3, <3>1, <3>2 DEF RestBody
    <3>4. <<>> \in Seq(Byte) /\ s \o <<>> = s
      BY ConcatEmptySeq, EmptySeq
    <3>5. f[2] = Read(p + 1, s \o <<>>)
      BY <2>8, <3>1, <3>3, <3>4
    <3>6. l = m + 1 /\ ~(l <= m)
      BY <1>3, <2>9
    <3> QED BY <2>5, <3>1, <3>4, <3>5, <3>6
  <2>10. CASE l = m
    <3>1. p \in 1..(Len(w) + 1) /\ p <= l + 1 /\ p > Len(w)
      BY <1>3, <1>6, <2>10
    <3>2. f[p] = Fail
      BY <2>3, <3>1 DEF RestBody
    <3>3. l # m + 1
      BY <1>3, <2>10
    <3> QED BY <2>5, <2>8, <3>1, <3>2, <3>3
  <2>11. CASE l < m
    <3>1. p > l + 1 /\ l # m + 1
      BY <1>3, <2>11
    <3> QED BY <2>5, <2>8, <3>1
  <2>12. l = m + 1 \/ l = m \/ l < m
    BY <1>3
  <2> QED BY <2>9, <2>10, <2>11, <2>12
<1>7. ParseString(text, 1) = Read(Len(text) + 1, s)
  <2>1. m + 1 \in 1..(m + 1)
    BY <1>3
  <2>2. ParseString(text, 1) = Read(m + 1 + 1, s)
    BY <1>5, <1>6, <2>1
  <2> QED BY <1>5, <2>2
<1>8. ASSUME NEW n \in 0..(Len(text) - 1) PROVE ~ParseString(SubSeq(text, 1, n), 1).ok
  <2> DEFINE w == SubSeq(text, 1, n)
  <2>1. n \in 0..m /\ n \in Nat /\ 1 \in Nat \ {0} /\ n <= Len(text) /\ 1 <= n + 1 /\ n - 1 + 1 = n
    BY <1>3, <1>5
  <2>2. Cut(Byte, w, text, 1, n)
    BY <1>5, <2>1, CutIs
  <2> HIDE DEF w
  <2>3. Len(w) = n /\ \A i \in 1..n : w[i] = text[1 + i - 1]
    BY <2>1, <2>2 DEF Cut
  <2>4. \A i \in 1..n : 1 + i - 1 = i
    OBVIOUS
  <2>5. \A i \in 1..n : w[i] = text[i]
    BY <2>3, <2>4
  <2>6. ParseString(w, 1) = Fail
    <3>1. CASE n = 0
      <4>1. ~(1 <= Len(w))
        BY <2>3, <3>1
      <4> QED BY <4>1 DEF ParseString, Consume
    <3>2. CASE n # 0
      <4>1. n \in 1..(m + 1) /\ n <= m
        BY <1>3, <2>1, <3>2
      <4> QED BY <1>6, <2>3, <2>5, <4>1
    <3> QED BY <3>1, <3>2
  <2> QED BY <2>6 DEF Fail, w
<1> QED BY <1>7, <1>8

----------------------------------------------------------------------------

\* The UTF-8 bytes of a code point.
Utf8Of(s, p) ==
  /\ s \in Seq(Byte) /\ CodePoint(s) = p
  /\ \A i \in 2..Len(s) : s[i] \in 128..191

CodePoints == {p \in Nat : p <= 1114111}

Word == {n \in Nat : n < 65536}

LEMMA SixBits ==
  ASSUME NEW a \in 0..63
  PROVE  (128 + a) % 64 = a /\ 128 + a \in 128..191
  OBVIOUS

LEMMA Digits2 ==
  ASSUME NEW p \in Nat, p < 2048
  PROVE  /\ p \div 64 \in 0..31 /\ p % 64 \in 0..63 /\ 64 * (p \div 64) + (p % 64) = p
         /\ (192 + p \div 64) % 32 = p \div 64
  BY SMT

LEMMA Digits3 ==
  ASSUME NEW p \in Nat, p < 65536
  PROVE  /\ p \div 4096 \in 0..15 /\ (p \div 64) % 64 \in 0..63 /\ p % 64 \in 0..63
         /\ 4096 * (p \div 4096) + 64 * ((p \div 64) % 64) + (p % 64) = p
         /\ (224 + p \div 4096) % 16 = p \div 4096
  BY SMT

LEMMA Digits4 ==
  ASSUME NEW p \in Nat, p <= 1114111
  PROVE  /\ p \div 262144 \in 0..7 /\ (p \div 4096) % 64 \in 0..63
         /\ (p \div 64) % 64 \in 0..63 /\ p % 64 \in 0..63
         /\ 262144 * (p \div 262144) + 4096 * ((p \div 4096) % 64)
              + 64 * ((p \div 64) % 64) + (p % 64) = p
         /\ (240 + p \div 262144) % 8 = p \div 262144
  BY SMT

LEMMA HexDigitsOf ==
  ASSUME NEW n \in Nat, n < 65536
  PROVE  /\ n \div 4096 \in 0..15 /\ (n \div 256) % 16 \in 0..15
         /\ (n \div 16) % 16 \in 0..15 /\ n % 16 \in 0..15
         /\ 4096 * (n \div 4096) + 256 * ((n \div 256) % 16) + 16 * ((n \div 16) % 16) + (n % 16) = n
  BY SMT

LEMMA Surrogates ==
  ASSUME NEW p \in Nat, ~(p < 65536), p <= 1114111
  PROVE  LET x == p - 65536
             hi == 55296 + x \div 1024
             lo == 56320 + (x % 1024)
         IN  /\ hi \in Nat /\ lo \in Nat
             /\ hi >= 55296 /\ hi <= 56319 /\ lo >= 56320 /\ lo <= 57343
             /\ 65536 + (hi - 55296) * 1024 + (lo - 56320) = p
  BY SMT

\* What the code point of one to four bytes is.
CodePointIs(s, p) == CodePoint(s) = p

LEMMA PointOf ==
  ASSUME NEW s
  PROVE  /\ Len(s) = 1 => CodePointIs(s, s[1])
         /\ Len(s) = 2 => CodePointIs(s, 64 * (s[1] % 32) + (s[2] % 64))
         /\ Len(s) = 3 => CodePointIs(s, 4096 * (s[1] % 16) + 64 * (s[2] % 64) + (s[3] % 64))
         /\ Len(s) = 4 =>
              CodePointIs(s, 262144 * (s[1] % 8) + 4096 * (s[2] % 64) + 64 * (s[3] % 64) + (s[4] % 64))
<1> DEFINE m == Len(s)
           v1 == s[1]
           v2 == 64 * (s[1] % 32) + (s[2] % 64)
           v3 == 4096 * (s[1] % 16) + 64 * (s[2] % 64) + (s[3] % 64)
           v4 == 262144 * (s[1] % 8) + 4096 * (s[2] % 64) + 64 * (s[3] % 64) + (s[4] % 64)
           v == CodePoint(s)
<1> SUFFICES (m = 1 => v = v1) /\ (m = 2 => v = v2) /\ (m = 3 => v = v3) /\ (m = 4 => v = v4)
  BY SMT DEF CodePointIs
<1>1. v = CASE m = 1 -> v1 [] m = 2 -> v2 [] m = 3 -> v3 [] m = 4 -> v4 [] OTHER -> -1
  BY SMT DEF CodePoint
<1> HIDE DEF m, v1, v2, v3, v4, v
<1> QED BY <1>1, SMT

LEMMA OneByte == ASSUME NEW p \in Nat, p < 128 PROVE Utf8Of(<<p>>, p)
<1> DEFINE s == <<p>>
<1>1. s \in Seq(Byte) /\ Len(s) = 1 /\ s[1] = p
  <2>1. p \in Byte
    BY DEF Byte
  <2> QED BY <2>1
<1> HIDE DEF s
<1>2. CodePoint(s) = p
  BY <1>1, PointOf DEF CodePointIs
<1>3. Utf8Of(s, p)
  BY <1>1, <1>2 DEF Utf8Of
<1> QED BY <1>3 DEF s

\* A byte behind the first one.
Further(x, b) == x \in 128..191 /\ x \in Byte /\ x % 64 = b

LEMMA FurtherByte == ASSUME NEW b \in 0..63 PROVE Further(128 + b, b)
  BY DEF Further, Byte

LEMMA TwoBytes ==
  ASSUME NEW x \in Byte, NEW a, x % 32 = a, NEW y, NEW b, Further(y, b)
  PROVE  Utf8Of(<<x, y>>, 64 * a + b)
<1> DEFINE s == <<x, y>>
<1>1. s \in Seq(Byte) /\ Len(s) = 2 /\ s[1] = x /\ s[2] = y
  <2> HIDE DEF Byte
  <2> QED BY DEF Further
<1> HIDE DEF s
<1>2. CodePoint(s) = 64 * (s[1] % 32) + (s[2] % 64)
  BY <1>1, PointOf DEF CodePointIs
<1>3. \A i \in 2..2 : i = 2
  OBVIOUS
<1>5. CodePoint(s) = 64 * a + b
  <2> DEFINE u1 == s[1] % 32
             u2 == s[2] % 64
  <2>1. u1 = a /\ u2 = b
    BY <1>1 DEF Further
  <2>2. CodePoint(s) = 64 * u1 + u2
    BY <1>2
  <2> HIDE DEF u1, u2
  <2> QED BY <2>1, <2>2
<1>4. Utf8Of(s, 64 * a + b)
  <2>1. \A i \in 2..Len(s) : s[i] \in 128..191
    BY <1>1, <1>3 DEF Further
  <2> QED BY <1>1, <1>5, <2>1 DEF Utf8Of
<1> QED BY <1>4 DEF s

LEMMA ThreeBytes ==
  ASSUME NEW x \in Byte, NEW a, x % 16 = a, NEW y, NEW b, Further(y, b),
         NEW z, NEW c, Further(z, c)
  PROVE  Utf8Of(<<x, y, z>>, 4096 * a + 64 * b + c)
<1> DEFINE s == <<x, y, z>>
<1>1. s \in Seq(Byte) /\ Len(s) = 3 /\ s[1] = x /\ s[2] = y /\ s[3] = z
  <2> HIDE DEF Byte
  <2> QED BY DEF Further
<1> HIDE DEF s
<1>2. CodePoint(s) = 4096 * (s[1] % 16) + 64 * (s[2] % 64) + (s[3] % 64)
  BY <1>1, PointOf DEF CodePointIs
<1>3. \A i \in 2..3 : i = 2 \/ i = 3
  OBVIOUS
<1>5. CodePoint(s) = 4096 * a + 64 * b + c
  <2> DEFINE u1 == s[1] % 16
             u2 == s[2] % 64
             u3 == s[3] % 64
  <2>1. u1 = a /\ u2 = b /\ u3 = c
    BY <1>1 DEF Further
  <2>2. CodePoint(s) = 4096 * u1 + 64 * u2 + u3
    BY <1>2
  <2> HIDE DEF u1, u2, u3
  <2> QED BY <2>1, <2>2
<1>4. Utf8Of(s, 4096 * a + 64 * b + c)
  <2>1. \A i \in 2..Len(s) : s[i] \in 128..191
    BY <1>1, <1>3 DEF Further
  <2> QED BY <1>1, <1>5, <2>1 DEF Utf8Of
<1> QED BY <1>4 DEF s

LEMMA FourBytes ==
  ASSUME NEW x \in Byte, NEW a, x % 8 = a, NEW y, NEW b, Further(y, b),
         NEW z, NEW c, Further(z, c), NEW w, NEW d, Further(w, d)
  PROVE  Utf8Of(<<x, y, z, w>>, 262144 * a + 4096 * b + 64 * c + d)
<1> DEFINE s == <<x, y, z, w>>
<1>1. s \in Seq(Byte) /\ Len(s) = 4 /\ s[1] = x /\ s[2] = y /\ s[3] = z /\ s[4] = w
  <2> HIDE DEF Byte
  <2> QED BY SMT DEF Further
<1> HIDE DEF s
<1>2. CodePoint(s) = 262144 * (s[1] % 8) + 4096 * (s[2] % 64) + 64 * (s[3] % 64) + (s[4] % 64)
  BY <1>1, PointOf, SMT DEF CodePointIs
<1>3. \A i \in 2..4 : i = 2 \/ i = 3 \/ i = 4
  BY SMT
<1>5. CodePoint(s) = 262144 * a + 4096 * b + 64 * c + d
  <2> DEFINE u1 == s[1] % 8
             u2 == s[2] % 64
             u3 == s[3] % 64
             u4 == s[4] % 64
  <2>1. u1 = a /\ u2 = b /\ u3 = c /\ u4 = d
    BY <1>1, SMT DEF Further
  <2>2. CodePoint(s) = 262144 * u1 + 4096 * u2 + 64 * u3 + u4
    BY <1>2, SMT
  <2> HIDE DEF u1, u2, u3, u4
  <2> QED BY <2>1, <2>2, SMT
<1>4. Utf8Of(s, 262144 * a + 4096 * b + 64 * c + d)
  <2>1. s[2] \in 128..191 /\ s[3] \in 128..191 /\ s[4] \in 128..191
    BY <1>1, SMT DEF Further
  <2>2. \A i \in 2..4 : s[i] \in 128..191
    BY <1>3, <2>1, Zenon
  <2> QED BY <1>1, <1>5, <2>2, SMT DEF Utf8Of
<1> QED BY <1>4, SMT DEF s

\* The digits of a code point in base 64 are what its bytes hold.
LEMMA Utf8Is == ASSUME NEW p \in CodePoints PROVE Utf8Of(Utf8(p), p)
<1> DEFINE a2 == p \div 64
           a3 == p \div 4096
           a4 == p \div 262144
           b4 == (p \div 4096) % 64
           b == (p \div 64) % 64
           c == p % 64
<1>1. p \in Nat /\ p <= 1114111
  BY SMT DEF CodePoints
<1>2. Utf8(p) =
        IF p < 128 THEN <<p>>
        ELSE IF p < 2048 THEN <<192 + a2, 128 + c>>
        ELSE IF p < 65536 THEN <<224 + a3, 128 + b, 128 + c>>
        ELSE <<240 + a4, 128 + b4, 128 + b, 128 + c>>
  BY SMT DEF Utf8
<1>3. p < 2048 => /\ a2 \in 0..31 /\ c \in 0..63 /\ 64 * a2 + c = p
                  /\ (192 + a2) % 32 = a2
  BY <1>1, Digits2, SMT
<1>4. p < 65536 => /\ a3 \in 0..15 /\ b \in 0..63 /\ c \in 0..63
                   /\ 4096 * a3 + 64 * b + c = p /\ (224 + a3) % 16 = a3
  BY <1>1, Digits3, SMT
<1>5. /\ a4 \in 0..7 /\ b4 \in 0..63 /\ b \in 0..63 /\ c \in 0..63
      /\ 262144 * a4 + 4096 * b4 + 64 * b + c = p /\ (240 + a4) % 8 = a4
  BY <1>1, Digits4, SMT
<1> HIDE DEF a2, a3, a4, b4, b, c
<1>6. Further(128 + b4, b4) /\ Further(128 + b, b) /\ Further(128 + c, c)
  <2>1. b4 \in 0..63 /\ b \in 0..63 /\ c \in 0..63
    BY <1>5, SMT
  <2> QED BY <2>1, FurtherByte, SMT
<1>7. CASE p < 128
  <2>1. Utf8Of(<<p>>, p)
    BY <1>1, <1>7, OneByte, SMT
  <2> QED BY <1>2, <1>7, <2>1, SMT
<1>8. CASE ~(p < 128) /\ p < 2048
  <2> DEFINE x == 192 + a2
             y == 128 + c
  <2>1. x \in Byte /\ x % 32 = a2 /\ Further(y, c) /\ 64 * a2 + c = p
    BY <1>3, <1>6, <1>8, SMT DEF Byte
  <2>2. Utf8(p) = <<x, y>>
    BY <1>2, <1>8, SMT
  <2> HIDE DEF x, y
  <2>3. Utf8Of(<<x, y>>, 64 * a2 + c)
    BY <2>1, TwoBytes, SMT
  <2> QED BY <2>1, <2>2, <2>3, SMT
<1>9. CASE ~(p < 128) /\ ~(p < 2048) /\ p < 65536
  <2> DEFINE x == 224 + a3
             y == 128 + b
             z == 128 + c
  <2>1. /\ x \in Byte /\ x % 16 = a3 /\ Further(y, b) /\ Further(z, c)
        /\ 4096 * a3 + 64 * b + c = p
    BY <1>4, <1>6, <1>9, SMT DEF Byte
  <2>2. Utf8(p) = <<x, y, z>>
    BY <1>2, <1>9, SMT
  <2> HIDE DEF x, y, z
  <2>3. Utf8Of(<<x, y, z>>, 4096 * a3 + 64 * b + c)
    BY <2>1, ThreeBytes, SMT
  <2> QED BY <2>1, <2>2, <2>3, SMT
<1>10. CASE ~(p < 128) /\ ~(p < 2048) /\ ~(p < 65536)
  <2> DEFINE x == 240 + a4
             y == 128 + b4
             z == 128 + b
             w == 128 + c
  <2>1. /\ x \in Byte /\ x % 8 = a4 /\ Further(y, b4) /\ Further(z, b) /\ Further(w, c)
        /\ 262144 * a4 + 4096 * b4 + 64 * b + c = p
    BY <1>5, <1>6, SMT DEF Byte
  <2>2. Utf8(p) = <<x, y, z, w>>
    BY <1>2, <1>10, SMT
  <2> HIDE DEF x, y, z, w
  <2>3. Utf8Of(<<x, y, z, w>>, 262144 * a4 + 4096 * b4 + 64 * b + c)
    BY <2>1, FourBytes, SMT
  <2> QED BY <2>1, <2>2, <2>3, SMT
<1> QED BY <1>7, <1>8, <1>9, <1>10, SMT

\* One escape, as an encoder writes it.
Unit(n) == <<BACKSLASH, LETTERU>> \o Hex4(n)

UnitIs(u, n) ==
  /\ u \in Seq(Byte) /\ Len(u) = 6 /\ u[1] = BACKSLASH /\ u[2] = LETTERU
  /\ u[3] = HexDigit(n \div 4096) /\ u[4] = HexDigit((n \div 256) % 16)
  /\ u[5] = HexDigit((n \div 16) % 16) /\ u[6] = HexDigit(n % 16)

LEMMA UnitSpelled == ASSUME NEW n \in Word PROVE UnitIs(Unit(n), n)
<1> DEFINE a == n \div 4096
           b == (n \div 256) % 16
           c == (n \div 16) % 16
           d == n % 16
           s == <<BACKSLASH, LETTERU>>
           t == Hex4(n)
           u == Unit(n)
<1>1. a \in 0..15 /\ b \in 0..15 /\ c \in 0..15 /\ d \in 0..15
  BY HexDigitsOf DEF Word
<1>2. t = <<HexDigit(a), HexDigit(b), HexDigit(c), HexDigit(d)>>
  BY DEF Hex4
<1> HIDE DEF a, b, c, d, t
<1>3. HexDigit(a) \in Byte /\ HexDigit(b) \in Byte /\ HexDigit(c) \in Byte /\ HexDigit(d) \in Byte
  <2>1. \A i \in 0..15 : HexDigit(i) \in 48..102
    BY HexDigits
  <2>2. \A x \in 48..102 : x \in Byte
    BY DEF Byte
  <2> QED BY <1>1, <2>1, <2>2, Zenon
<1> DEFINE ha == HexDigit(a)
           hb == HexDigit(b)
           hc == HexDigit(c)
           hd == HexDigit(d)
<1>4. t = <<ha, hb, hc, hd>> /\ ha \in Byte /\ hb \in Byte /\ hc \in Byte /\ hd \in Byte
  BY <1>2, <1>3
<1> HIDE DEF ha, hb, hc, hd
<1>5. t \in Seq(Byte) /\ Len(t) = 4 /\ t[1] = ha /\ t[2] = hb /\ t[3] = hc /\ t[4] = hd
  <2> HIDE DEF Byte
  <2> QED BY <1>4
<1>6. s \in Seq(Byte) /\ Len(s) = 2 /\ s[1] = BACKSLASH /\ s[2] = LETTERU
  <2>1. BACKSLASH \in Byte /\ LETTERU \in Byte
    BY DEF BACKSLASH, LETTERU, Byte
  <2> QED BY <2>1
<1>7. u = s \o t
  BY DEF Unit, t
<1> HIDE DEF s, u
<1>8. Joined(Byte, u, s, t)
  BY <1>5, <1>6, <1>7, TwoParts
<1>9. /\ u \in Seq(Byte) /\ Len(u) = 6 /\ u[1] = s[1] /\ u[2] = s[2]
      /\ u[3] = t[1] /\ u[4] = t[2] /\ u[5] = t[3] /\ u[6] = t[4]
  BY <1>5, <1>6, <1>8 DEF Joined
<1>10. UnitIs(u, n)
  BY <1>5, <1>6, <1>9 DEF UnitIs, ha, hb, hc, hd, a, b, c, d
<1> QED BY <1>10 DEF u

\* An escape at a position, and what its digits are read to.
UnitAt(text, pos, n) ==
  /\ text[pos] = BACKSLASH /\ text[pos + 1] = LETTERU
  /\ ParseHex4(text, pos + 2) = Read(pos + 6, n)

LEMMA UnitRead ==
  ASSUME NEW text, Len(text) \in Nat, NEW pos \in Nat, NEW n \in Word,
         pos + 5 <= Len(text), Spelled(text, pos, Unit(n), 6)
  PROVE  UnitAt(text, pos, n)
<1> DEFINE a == n \div 4096
           b == (n \div 256) % 16
           c == (n \div 16) % 16
           d == n % 16
           u == Unit(n)
           q == pos + 2
<1>1. /\ a \in 0..15 /\ b \in 0..15 /\ c \in 0..15 /\ d \in 0..15
      /\ 4096 * a + 256 * b + 16 * c + d = n
  BY HexDigitsOf DEF Word
<1>2. /\ u[1] = BACKSLASH /\ u[2] = LETTERU /\ u[3] = HexDigit(a) /\ u[4] = HexDigit(b)
      /\ u[5] = HexDigit(c) /\ u[6] = HexDigit(d)
  BY UnitSpelled DEF UnitIs
<1>3. Spelled(text, pos, u, 6)
  OBVIOUS
<1> HIDE DEF a, b, c, d, u
<1>4. /\ text[pos + 1 - 1] = u[1] /\ text[pos + 2 - 1] = u[2] /\ text[pos + 3 - 1] = u[3]
      /\ text[pos + 4 - 1] = u[4] /\ text[pos + 5 - 1] = u[5] /\ text[pos + 6 - 1] = u[6]
  BY <1>3 DEF Spelled
<1>5. /\ pos + 1 - 1 = pos /\ pos + 2 - 1 = pos + 1 /\ pos + 3 - 1 = q /\ pos + 4 - 1 = q + 1
      /\ pos + 5 - 1 = q + 2 /\ pos + 6 - 1 = q + 3 /\ q + 3 <= Len(text) /\ q + 4 = pos + 6
      /\ q \in Nat
  OBVIOUS
<1> HIDE DEF q
<1>6. /\ text[pos] = BACKSLASH /\ text[pos + 1] = LETTERU
      /\ text[q] = HexDigit(a) /\ text[q + 1] = HexDigit(b)
      /\ text[q + 2] = HexDigit(c) /\ text[q + 3] = HexDigit(d)
  BY <1>2, <1>4, <1>5
<1>7. HexAt(text, q, a, b, c, d)
  BY <1>1, <1>5, <1>6 DEF HexAt
<1>8. ParseHex4(text, q) = Read(q + 4, 4096 * a + 256 * b + 16 * c + d)
  BY <1>5, <1>7, Hex4Is
<1>9. ParseHex4(text, q) = Read(pos + 6, n)
  BY <1>1, <1>5, <1>8
<1> QED BY <1>6, <1>9 DEF UnitAt, q

\* A text between quotes.
Quoted(text, e) ==
  /\ text \in Seq(Byte) /\ Len(text) = Len(e) + 2
  /\ text[1] = QUOTE /\ text[Len(e) + 2] = QUOTE
  /\ \A i \in 1..Len(e) : text[1 + i] = e[i]

LEMMA QuotedIs ==
  ASSUME NEW e \in Seq(Byte) PROVE Quoted(<<QUOTE>> \o e \o <<QUOTE>>, e)
<1> DEFINE q == <<QUOTE>>
           b == q \o e
           text == b \o q
           n == Len(e)
<1>1. q \in Seq(Byte) /\ Len(q) = 1 /\ q[1] = QUOTE /\ n \in Nat
  <2>1. QUOTE \in Byte
    BY DEF QUOTE, Byte
  <2> QED BY <2>1, LenProperties
<1> HIDE DEF q
<1>2. Joined(Byte, b, q, e)
  <2> HIDE DEF b
  <2> QED BY <1>1, TwoParts DEF b
<1> HIDE DEF b
<1>3. /\ b \in Seq(Byte) /\ Len(b) = 1 + n /\ b[1] = QUOTE /\ \A i \in 1..n : b[1 + i] = e[i]
  <2>1. 1 \in 1..1
    OBVIOUS
  <2> QED BY <1>1, <1>2, <2>1 DEF Joined
<1>4. Joined(Byte, text, b, q)
  <2> HIDE DEF text
  <2> QED BY <1>1, <1>3, TwoParts DEF text
<1> HIDE DEF text
<1>5. /\ text \in Seq(Byte) /\ Len(text) = 1 + n + 1 /\ \A i \in 1..(1 + n) : text[i] = b[i]
      /\ text[1 + n + 1] = QUOTE
  <2>1. 1 \in 1..1
    OBVIOUS
  <2> QED BY <1>1, <1>3, <1>4, <2>1 DEF Joined
<1>6. 1 + n + 1 = n + 2 /\ 1 \in 1..(1 + n) /\ \A i \in 1..n : 1 + i \in 1..(1 + n)
  BY <1>1
<1> HIDE DEF n
<1>7. Quoted(text, e)
  <2>1. \A i \in 1..n : text[1 + i] = e[i]
    BY <1>3, <1>5, <1>6
  <2> QED BY <1>3, <1>5, <1>6, <2>1 DEF Quoted, n
<1> QED BY <1>7 DEF text, b, q

UnicodeAt(text, pos, end, v) == Unicode(text, pos) = Read(end, v)

LEMMA EscapesRead ==
  ASSUME NEW e \in Seq(Byte), NEW text, Quoted(text, e), Len(e) >= 6,
         e[1] = BACKSLASH, e[2] = LETTERU,
         NEW v \in Seq(Byte), UnicodeAt(text, 4, Len(e) + 2, v)
  PROVE  ParseString(text, 1) = Read(Len(e) + 3, v)
<1> DEFINE n == Len(e)
           q == n + 2
<1>1. n \in Nat /\ n >= 6 /\ Len(text) = n + 2
  BY LenProperties DEF Quoted
<1>2. text[1] = QUOTE /\ text[q] = QUOTE /\ text[2] = BACKSLASH /\ text[3] = LETTERU
  <2>1. 1 \in 1..n /\ 2 \in 1..n /\ 1 + 1 = 2 /\ 1 + 2 = 3
    BY <1>1
  <2> QED BY <2>1 DEF Quoted
<1>3. Unicode(text, 4) = Read(q, v)
  BY DEF UnicodeAt
<1> HIDE DEF n
<1>4. PICK f : \A pos \in 1..(Len(text) + 1) :
            StringRest(text, pos) = f[pos] /\ f[pos] = RestBody(text, f, pos)
  <2>1. Len(text) \in Nat
    BY <1>1
  <2> QED BY <2>1, StringRestAt
<1>5. /\ 2 \in 1..(Len(text) + 1) /\ q \in 1..(Len(text) + 1) /\ 2 + 1 = 3 /\ 2 + 2 = 4
      /\ ~(2 > Len(text)) /\ ~(q > Len(text)) /\ 2 # Len(text) /\ q + 1 = n + 3
      /\ 1 <= Len(text) /\ 1 + 1 = 2
  BY <1>1
<1> HIDE DEF q
<1>6. f[q] = Read(q + 1, <<>>)
  <2>1. f[q] = RestBody(text, f, q)
    BY <1>4, <1>5
  <2> QED BY <1>2, <1>5, <2>1 DEF RestBody
<1>7. BACKSLASH # QUOTE /\ LETTERU \notin {QUOTE, BACKSLASH, 47} /\ LETTERU \notin DOMAIN Letters
  BY DEF BACKSLASH, QUOTE, Letters, LETTERU
<1>8. Unicode(text, 4).ok /\ Unicode(text, 4).value = v /\ Unicode(text, 4).pos = q
  BY <1>3 DEF Read
<1>9. f[2] = Prepend(Unicode(text, 4).value, f[Unicode(text, 4).pos])
  <2>1. f[2] = RestBody(text, f, 2)
    BY <1>4, <1>5
  <2> QED BY <1>2, <1>5, <1>7, <1>8, <2>1 DEF RestBody
<1>10. f[2] = Read(q + 1, v \o <<>>)
  <2>1. f[Unicode(text, 4).pos] = Read(q + 1, <<>>) /\ Unicode(text, 4).value = v
    BY <1>6, <1>8
  <2>2. f[2] = Prepend(v, Read(q + 1, <<>>))
    BY <1>9, <2>1
  <2> QED BY <2>2 DEF Prepend, Read
<1>11. v \o <<>> = v
  BY ConcatEmptySeq
<1>12. ParseString(text, 1) = f[2]
  BY <1>2, <1>4, <1>5 DEF ParseString, Consume
<1> QED BY <1>5, <1>10, <1>11, <1>12 DEF n

PointArrived(r, p) == r.ok /\ Utf8Of(r.value, p)

LEMMA EscapeArrives ==
  ASSUME NEW p \in ScalarValues
  PROVE  PointArrived(ParseString(<<QUOTE>> \o EscapedPoint(p) \o <<QUOTE>>, 1), p)
<1> DEFINE e == EscapedPoint(p)
           text == <<QUOTE>> \o e \o <<QUOTE>>
           v == Utf8(p)
<1>p. /\ p \in Nat /\ p <= 1114111 /\ ~(p >= 55296 /\ p <= 57343)
      /\ p \in CodePoints
  BY SMT DEF ScalarValues, CodePoints
<1>1. Utf8Of(v, p) /\ v \in Seq(Byte)
  <2>1. Utf8Of(v, p)
    BY <1>p, Utf8Is
  <2> QED BY <2>1 DEF Utf8Of
<1> SUFFICES ASSUME e \in Seq(Byte) => Quoted(text, e)
             PROVE  \E end : ParseString(text, 1) = Read(end, v)
  <2>1. e \in Seq(Byte) => Quoted(text, e)
    <3> HIDE DEF e
    <3> QED BY QuotedIs
  <2>2. ASSUME NEW end, ParseString(text, 1) = Read(end, v) PROVE PointArrived(ParseString(text, 1), p)
    <3> HIDE DEF v, text
    <3> QED BY <1>1, <2>2 DEF PointArrived, Read
  <2> QED BY <2>1, <2>2
<1> HIDE DEF v, text
<1>2. CASE p \in Word
  <2>1. e = Unit(p)
    <3>1. p < 65536
      BY <1>2, SMT DEF Word
    <3> QED BY <3>1, SMT DEF EscapedPoint, Unit
  <2> HIDE DEF e
  <2>2. e \in Seq(Byte) /\ Len(e) = 6 /\ e[1] = BACKSLASH /\ e[2] = LETTERU
    BY <1>2, <2>1, UnitSpelled DEF UnitIs
  <2>3. Quoted(text, e)
    BY <2>2
  <2>4. Spelled(text, 2, e, 6) /\ Len(text) = 8
    <3>1. \A j \in 1..6 : 2 + j - 1 = 1 + j
      OBVIOUS
    <3> QED BY <2>2, <2>3, <3>1 DEF Quoted, Spelled
  <2>5. UnitAt(text, 2, p)
    <3>1. Len(text) \in Nat /\ 2 \in Nat /\ 2 + 5 <= Len(text)
      BY <2>4
    <3> QED BY <1>2, <2>1, <2>4, <3>1, UnitRead
  <2>6. PlainAt(text, 4, 8, p)
    <3>1. p \notin 55296..56319
      BY <1>p, SMT
    <3>2. 2 + 2 = 4 /\ 2 + 6 = 8
      OBVIOUS
    <3> QED BY <2>5, <3>1, <3>2 DEF UnitAt, PlainAt
  <2>7. Unicode(text, 4) = Read(8, v)
    <3>1. Len(text) \in Nat /\ 4 \in Nat
      BY <2>4
    <3> QED BY <2>6, <3>1, UnicodeAlone DEF v
  <2>8. UnicodeAt(text, 4, Len(e) + 2, v)
    <3>1. Len(e) + 2 = 8
      BY <2>2
    <3> QED BY <2>7, <3>1 DEF UnicodeAt
  <2>9. Len(e) >= 6
    BY <2>2
  <2> QED BY <1>1, <2>2, <2>3, <2>8, <2>9, EscapesRead
<1>3. CASE p \notin Word
  <2> DEFINE x == p - 65536
             hi == 55296 + x \div 1024
             lo == 56320 + (x % 1024)
             a == Unit(hi)
             b == Unit(lo)
  <2>1. ~(p < 65536)
    BY <1>3, <1>p, SMT DEF Word
  <2>2. /\ hi \in Nat /\ lo \in Nat
        /\ hi >= 55296 /\ hi <= 56319 /\ lo >= 56320 /\ lo <= 57343
        /\ 65536 + (hi - 55296) * 1024 + (lo - 56320) = p
    BY <1>p, <2>1, Surrogates, SMT
  <2>3. e = a \o b
    BY <2>1, SMT DEF EscapedPoint, Unit
  <2> HIDE DEF hi, lo, a, b, e
  <2>4. hi \in Word /\ lo \in Word
    BY <2>2, SMT DEF Word
  <2>5. UnitIs(a, hi) /\ UnitIs(b, lo)
    BY <2>4, UnitSpelled DEF a, b
  <2>6. /\ a \in Seq(Byte) /\ Len(a) = 6 /\ a[1] = BACKSLASH /\ a[2] = LETTERU
        /\ b \in Seq(Byte) /\ Len(b) = 6 /\ b[1] = BACKSLASH /\ b[2] = LETTERU
    BY <2>5 DEF UnitIs
  <2>7. Joined(Byte, e, a, b)
    BY <2>3, <2>6, TwoParts
  <2>8. /\ e \in Seq(Byte) /\ Len(e) = 12 /\ \A i \in 1..6 : e[i] = a[i]
        /\ \A i \in 1..6 : e[6 + i] = b[i]
    BY <2>6, <2>7 DEF Joined
  <2>9. Quoted(text, e)
    BY <2>8
  <2>10. Len(text) = 14 /\ text \in Seq(Byte)
    BY <2>8, <2>9 DEF Quoted
  <2>11. Spelled(text, 2, a, 6) /\ Spelled(text, 8, b, 6)
    <3>1. \A j \in 1..6 : /\ 2 + j - 1 = 1 + j /\ 8 + j - 1 = 1 + (6 + j)
                          /\ j \in 1..12 /\ 6 + j \in 1..12
      OBVIOUS
    <3>2. \A i \in 1..12 : text[1 + i] = e[i]
      BY <2>8, <2>9 DEF Quoted
    <3> QED BY <2>8, <3>1, <3>2 DEF Spelled
  <2>12. UnitAt(text, 2, hi) /\ UnitAt(text, 8, lo)
    <3>1. Len(text) \in Nat /\ 2 \in Nat /\ 2 + 5 <= Len(text) /\ 8 \in Nat /\ 8 + 5 <= Len(text)
      BY <2>10
    <3> QED BY <2>4, <2>11, <3>1, UnitRead DEF a, b
  <2>13. /\ ParseHex4(text, 4) = Read(8, hi) /\ ParseHex4(text, 10) = Read(14, lo)
         /\ text[8] = BACKSLASH /\ text[9] = LETTERU
    <3>1. 2 + 2 = 4 /\ 2 + 6 = 8 /\ 8 + 2 = 10 /\ 8 + 6 = 14 /\ 8 + 1 = 9
      OBVIOUS
    <3> QED BY <2>12, <3>1 DEF UnitAt
  <2> DEFINE r == Read(8, hi)
             r2 == Read(14, lo)
  <2>14. Again(text, r)
    <3> DEFINE s == <<BACKSLASH, LETTERU>>
               t == SubSeq(text, 8, 14)
    <3>1. Cut(Byte, t, text, 8, 14)
      <4>1. 8 \in Nat \ {0} /\ 14 \in Nat /\ 14 <= Len(text) /\ 8 <= 14 + 1
        BY <2>10
      <4> QED BY <2>10, <4>1, CutIs
    <3>2. s \in Seq(Byte) /\ Len(s) = 2 /\ s[1] = BACKSLASH /\ s[2] = LETTERU
      <4>1. BACKSLASH \in Byte /\ LETTERU \in Byte
        BY DEF BACKSLASH, LETTERU, Byte
      <4> QED BY <4>1
    <3> HIDE DEF s, t
    <3>3. t \in Seq(Byte) /\ Len(t) = 7 /\ t[1] = text[8] /\ t[2] = text[9]
      <4>1. 14 - 8 + 1 = 7 /\ 1 \in 1..7 /\ 2 \in 1..7 /\ 8 + 1 - 1 = 8 /\ 8 + 2 - 1 = 9
        OBVIOUS
      <4> QED BY <3>1, <4>1 DEF Cut
    <3>4. \A i \in 1..2 : i = 1 \/ i = 2
      OBVIOUS
    <3>5. IsPrefix(s, t)
      <4>1. Len(s) <= Len(t)
        BY <3>2, <3>3
      <4>2. \A i \in 1..Len(s) : s[i] = t[i]
        BY <2>13, <3>2, <3>3, <3>4
      <4> QED BY <3>2, <3>3, <4>1, <4>2, PrefixByIndex
    <3>6. r.value = hi /\ r.pos = 8
      BY DEF Read
    <3> HIDE DEF r
    <3> QED BY <2>2, <2>10, <3>5, <3>6 DEF Again, s, t
  <2>15. PairOf(r, r2) = p
    <3>1. r.value = hi /\ r2.value = lo
      BY DEF Read
    <3> HIDE DEF r, r2
    <3>2. lo \in 56320..57343
      BY <2>2, SMT
    <3> QED BY <2>2, <3>1, <3>2, SMT DEF PairOf
  <2>16. Unicode(text, 4) = Read(14, v)
    <3>1. ReadsPoint(text, 4, ParseHex4(text, 4))
      <4>1. Len(text) \in Nat /\ 4 \in Nat
        BY <2>10
      <4> QED BY <4>1, UnicodeIs
    <3>2. ReadsPoint(text, 4, r)
      BY <2>13, <3>1
    <3>3. r.ok /\ r.pos = 8 /\ r2.ok /\ r2.pos = 14 /\ 8 + 2 = 10
      BY DEF Read
    <3>4. ParseHex4(text, 10) = r2
      BY <2>13
    <3> HIDE DEF r, r2
    <3> QED BY <2>14, <2>15, <3>2, <3>3, <3>4 DEF ReadsPoint, v
  <2>17. UnicodeAt(text, 4, Len(e) + 2, v)
    <3>1. Len(e) + 2 = 14
      BY <2>8
    <3> QED BY <2>16, <3>1 DEF UnicodeAt
  <2>18. Len(e) >= 6 /\ e[1] = BACKSLASH /\ e[2] = LETTERU
    <3>1. 1 \in 1..6 /\ 2 \in 1..6
      OBVIOUS
    <3> QED BY <2>6, <2>8, <3>1
  <2> QED BY <1>1, <2>8, <2>9, <2>17, <2>18, EscapesRead
<1> QED BY <1>2, <1>3

----------------------------------------------------------------------------

\* The characters of a fenced answer.
Char == STRING \cup {"TICK", "LF", "c"}

FencedShape(code, text, n) ==
  /\ text \in Seq(Char) /\ Len(text) = n + 10
  /\ \A i \in 1..3 : text[i] = "TICK"
  /\ text[4] = "c" /\ text[5] = "LF"
  /\ \A i \in 1..n : text[5 + i] = code[i]
  /\ text[n + 6] = "LF"
  /\ \A i \in 1..3 : text[n + 6 + i] = "TICK"
  /\ text[n + 10] = "LF"

LEMMA FencedIs ==
  ASSUME NEW code \in Seq(Char) PROVE FencedShape(code, Fenced(code), Len(code))
<1> DEFINE n == Len(code)
           a == Answer!Fence
           b == <<"c", "LF">>
           d == <<"LF">>
           s1 == a \o b
           s2 == s1 \o code
           s3 == s2 \o d
           s4 == s3 \o a
           s5 == s4 \o d
<1>1. /\ a \in Seq(Char) /\ Len(a) = 3 /\ \A i \in 1..3 : a[i] = "TICK"
      /\ b \in Seq(Char) /\ Len(b) = 2 /\ b[1] = "c" /\ b[2] = "LF"
      /\ d \in Seq(Char) /\ Len(d) = 1 /\ d[1] = "LF"
  <2>1. a \in Seq(Char) /\ Len(a) = 3
    <3>1. "TICK" \in Char
      BY DEF Char
    <3> QED BY <3>1, OfThree DEF Answer!Fence
  <2>2. \A i \in 1..3 : a[i] = "TICK"
    BY DEF Answer!Fence
  <2>3. b \in Seq(Char) /\ Len(b) = 2 /\ b[1] = "c" /\ b[2] = "LF"
    <3>1. "c" \in Char /\ "LF" \in Char
      BY DEF Char
    <3> QED BY <3>1, OfTwo
  <2>4. d \in Seq(Char) /\ Len(d) = 1 /\ d[1] = "LF"
    <3>1. "LF" \in Char
      BY DEF Char
    <3> QED BY <3>1, OfOne
  <2> QED BY <2>1, <2>2, <2>3, <2>4
<1>2. n \in Nat /\ Len(code) = n
  BY LenProperties
<1>3. Fenced(code) = s5
  BY DEF Fenced
<1> HIDE DEF a, b, d, n
<1>4. /\ s1 \in Seq(Char) /\ Len(s1) = 5 /\ \A i \in 1..3 : s1[i] = "TICK"
      /\ s1[4] = "c" /\ s1[5] = "LF"
  <2>1. Joined(Char, s1, a, b)
    BY <1>1, TwoParts
  <2> HIDE DEF s1
  <2>2. s1[3 + 1] = b[1] /\ s1[3 + 2] = b[2]
    BY <1>1, <2>1 DEF Joined
  <2> QED BY <1>1, <2>1, <2>2 DEF Joined
<1> HIDE DEF s1
<1>5. /\ s2 \in Seq(Char) /\ Len(s2) = n + 5
      /\ \A i \in 1..5 : s2[i] = s1[i]
      /\ \A i \in 1..n : s2[5 + i] = code[i]
  <2>1. Joined(Char, s2, s1, code)
    BY <1>4, TwoParts
  <2> HIDE DEF s2
  <2> QED BY <1>2, <1>4, <2>1 DEF Joined
<1> HIDE DEF s2
<1>6. /\ s3 \in Seq(Char) /\ Len(s3) = n + 6
      /\ \A i \in 1..(n + 5) : s3[i] = s2[i]
      /\ s3[n + 6] = "LF"
  <2>1. Joined(Char, s3, s2, d)
    BY <1>1, <1>5, TwoParts
  <2> HIDE DEF s3
  <2>2. s3[(n + 5) + 1] = d[1] /\ (n + 5) + 1 = n + 6
    BY <1>1, <1>2, <1>5, <2>1 DEF Joined
  <2> QED BY <1>1, <1>2, <1>5, <2>1, <2>2 DEF Joined
<1> HIDE DEF s3
<1>7. /\ s4 \in Seq(Char) /\ Len(s4) = n + 9
      /\ \A i \in 1..(n + 6) : s4[i] = s3[i]
      /\ \A i \in 1..3 : s4[n + 6 + i] = "TICK"
  <2>1. Joined(Char, s4, s3, a)
    BY <1>1, <1>6, TwoParts
  <2> HIDE DEF s4
  <2> QED BY <1>1, <1>2, <1>6, <2>1 DEF Joined
<1> HIDE DEF s4
<1>8. /\ s5 \in Seq(Char) /\ Len(s5) = n + 10
      /\ \A i \in 1..(n + 9) : s5[i] = s4[i]
      /\ s5[n + 10] = "LF"
  <2>1. Joined(Char, s5, s4, d)
    BY <1>1, <1>7, TwoParts
  <2> HIDE DEF s5
  <2>2. s5[(n + 9) + 1] = d[1] /\ (n + 9) + 1 = n + 10
    BY <1>1, <1>2, <1>7, <2>1 DEF Joined
  <2> QED BY <1>1, <1>2, <1>7, <2>1, <2>2 DEF Joined
<1> HIDE DEF s5
<1>9. FencedShape(code, s5, n)
  <2>1. \A i \in 1..5 : s5[i] = s1[i]
    BY <1>2, <1>5, <1>6, <1>7, <1>8
  <2>2. \A i \in 1..n : s5[5 + i] = code[i]
    <3> TAKE i \in 1..n
    <3>1. 5 + i \in 1..(n + 5) /\ 5 + i \in 1..(n + 6) /\ 5 + i \in 1..(n + 9)
      BY <1>2
    <3> QED BY <3>1, <1>5, <1>6, <1>7, <1>8
  <2>3. s5[n + 6] = "LF"
    BY <1>2, <1>6, <1>7, <1>8
  <2>4. \A i \in 1..3 : s5[n + 6 + i] = "TICK"
    <3> TAKE i \in 1..3
    <3>1. n + 6 + i \in 1..(n + 9)
      BY <1>2
    <3> QED BY <3>1, <1>7, <1>8
  <2> QED BY <1>4, <1>8, <2>1, <2>2, <2>3, <2>4 DEF FencedShape
<1> QED BY <1>3, <1>9 DEF n

\* Where a text has three ticks there is a fence.
LEMMA FenceAt ==
  ASSUME NEW text \in Seq(Char), NEW i \in 1..Len(text)
  PROVE  i \in Answer!Fences(text) <=>
           (i + 2 <= Len(text) /\ \A k \in 1..3 : text[i + k - 1] = "TICK")
<1> DEFINE l == Len(text)
           rest == SubSeq(text, i, l)
           fence == Answer!Fence
<1>1. /\ l \in Nat /\ DOMAIN text = 1..l /\ Len(text) = l /\ i \in Nat \ {0} /\ i <= l
      /\ i <= l + 1
  BY LenProperties
<1>2. Cut(Char, rest, text, i, l)
  <2> HIDE DEF l
  <2> QED BY <1>1, CutIs
<1>3. fence \in Seq(Char) /\ Len(fence) = 3
  <2>1. "TICK" \in Char
    BY DEF Char
  <2> QED BY <2>1, OfThree DEF Answer!Fence
<1>4. \A k \in 1..3 : fence[k] = "TICK"
  BY DEF Answer!Fence
<1>5. i \in Answer!Fences(text) <=> IsPrefix(fence, rest)
  BY <1>1 DEF Answer!Fences, Answer!IsPrefix, IsPrefix
<1> HIDE DEF l, rest, fence
<1>6. IsPrefix(fence, rest) <=> (Len(fence) <= Len(rest) /\ \A k \in 1..Len(fence) : fence[k] = rest[k])
  <2>1. rest \in Seq(Char)
    BY <1>2 DEF Cut
  <2> QED BY <1>3, <2>1, PrefixByIndex
<1>7. Len(fence) <= Len(rest) <=> i + 2 <= l
  BY <1>1, <1>2, <1>3 DEF Cut
<1>8. ASSUME i + 2 <= l PROVE \A k \in 1..3 : rest[k] = text[i + k - 1]
  <2> TAKE k \in 1..3
  <2>1. k \in 1..(l - i + 1)
    BY <1>1, <1>8
  <2> QED BY <2>1, <1>2 DEF Cut
<1> QED BY <1>1, <1>3, <1>4, <1>5, <1>6, <1>7, <1>8

LEMMA FenceTaken ==
  ASSUME NEW code \in Seq(STRING), code # <<>> => code[Len(code)] # "LF"
  PROVE  Answer!StripCodeFence(Answer!Trimmed(Fenced(code))) = code
<1> DEFINE n == Len(code)
           text == Fenced(code)
<1>1. n \in Nat /\ FencedShape(code, text, n) /\ code \in Seq(Char)
  <2>1. STRING \subseteq Char
    BY DEF Char
  <2> QED BY <2>1, FencedIs, LenProperties, Widened
<1>2. n > 0 => code[n] # "LF"
  BY <1>1, EmptySeq
<1>3. Len(code) = n /\ \A i \in 1..n : code[i] \in Char
  BY <1>1, ElementOfSeq
<1> HIDE DEF n, text
<1> DEFINE u == SubSeq(text, 1, n + 9)
<1>4. Answer!Trimmed(text) = u
  <2> DEFINE solid == {i \in DOMAIN text : text[i] \notin Answer!White}
  <2>1. DOMAIN text = 1..(n + 10) /\ solid \subseteq 1..(n + 10)
    BY <1>1, LenProperties DEF FencedShape
  <2>2. text[n + 10] \in Answer!White
    BY <1>1 DEF FencedShape, Answer!White
  <2>3. text[1] \notin Answer!White
    BY <1>1 DEF FencedShape, Answer!White
  <2>4. text[n + 9] \notin Answer!White
    <3>1. text[n + 6 + 3] = "TICK" /\ n + 6 + 3 = n + 9
      BY <1>1 DEF FencedShape
    <3> QED BY <3>1 DEF Answer!White
  <2>5. 1 \in solid /\ n + 9 \in solid /\ n + 10 \notin solid
    BY <1>1, <2>1, <2>2, <2>3, <2>4
  <2>6. Answer!Trimmed(text) =
          IF solid = {} THEN <<>> ELSE SubSeq(text, Min(solid), Max(solid))
    BY DEF Answer!Trimmed, Answer!Min, Answer!Max, Min, Max
  <2> HIDE DEF solid
  <2>7. solid \subseteq Int /\ n + 9 \in Int /\ \A i \in solid : 1 <= i /\ i <= n + 9
    BY <1>1, <2>1, <2>5
  <2>8. Min(solid) = 1
    BY <2>5, <2>7, MinIs
  <2>9. Max(solid) = n + 9
    <3> DEFINE k == n + 9
    <3>1. k \in solid /\ \A i \in solid : i <= k
      BY <2>5, <2>7
    <3> HIDE DEF k
    <3>2. Max(solid) = k
      BY <2>7, <3>1, MaxIs
    <3> QED BY <3>2 DEF k
  <2> QED BY <2>5, <2>6, <2>8, <2>9
<1>5. /\ u \in Seq(Char) /\ Len(u) = n + 9
      /\ \A i \in 1..(n + 9) : u[i] = text[i]
  <2> DEFINE k == n + 9
  <2>1. text \in Seq(Char) /\ k \in Nat /\ k <= Len(text) /\ 1 <= k + 1 /\ k - 1 + 1 = k
    BY <1>1 DEF FencedShape
  <2> HIDE DEF k
  <2>2. Cut(Char, SubSeq(text, 1, k), text, 1, k)
    BY <2>1, CutIs
  <2>3. u = SubSeq(text, 1, k)
    BY DEF k
  <2> HIDE DEF u
  <2>4. /\ u \in Seq(Char) /\ Len(u) = k
        /\ \A i \in 1..k : u[i] = text[1 + i - 1]
    BY <2>1, <2>2, <2>3 DEF Cut
  <2>5. \A i \in 1..k : 1 + i - 1 = i
    BY <2>1
  <2>6. \A i \in 1..k : u[i] = text[i]
    BY <2>4, <2>5
  <2> QED BY <2>4, <2>6 DEF k
<1> HIDE DEF u
<1>6. /\ \A i \in 1..3 : u[i] = "TICK"
      /\ u[4] = "c" /\ u[5] = "LF"
      /\ \A i \in 1..n : u[5 + i] = code[i]
      /\ u[n + 6] = "LF"
      /\ \A i \in 1..3 : u[n + 6 + i] = "TICK"
  <2>1. /\ \A i \in 1..3 : u[i] = "TICK"
        /\ u[4] = "c" /\ u[5] = "LF"
        /\ u[n + 6] = "LF"
    BY <1>1, <1>5 DEF FencedShape
  <2>2. \A i \in 1..n : u[5 + i] = code[i]
    <3> TAKE i \in 1..n
    <3>1. 5 + i \in 1..(n + 9)
      BY <1>1
    <3> QED BY <1>1, <1>5, <3>1 DEF FencedShape
  <2>3. \A i \in 1..3 : u[n + 6 + i] = "TICK"
    <3> TAKE i \in 1..3
    <3>1. n + 6 + i \in 1..(n + 9)
      BY <1>1
    <3> QED BY <1>1, <1>5, <3>1 DEF FencedShape
  <2> QED BY <2>1, <2>2, <2>3
<1> DEFINE w == SubSeq(u, 6, n + 6)
<1>7. Answer!StripCodeFence(u) = Answer!Unbroken(w)
  <2> DEFINE solid == {i \in DOMAIN u : u[i] \notin Answer!White}
             breaks == {i \in DOMAIN u : i >= 1 /\ u[i] = "LF"}
  <2>1. DOMAIN u = 1..(n + 9)
    BY <1>5, LenProperties
  <2>2. 1 \in solid /\ Min(solid) = 1
    <3>1. 1 \in solid /\ solid \subseteq Int /\ \A i \in solid : 1 <= i
      BY <1>1, <1>6, <2>1 DEF Answer!White
    <3> HIDE DEF solid
    <3> QED BY <3>1, MinIs
  <2>3. 5 \in breaks /\ Min(breaks) = 5
    <3>1. u[1] = "TICK" /\ u[2] = "TICK" /\ u[3] = "TICK"
      BY <1>6
    <3>2. 5 \in breaks /\ breaks \subseteq Int
      BY <1>1, <1>6, <2>1
    <3>3. \A i \in breaks : i # 1 /\ i # 2 /\ i # 3 /\ i # 4 /\ i \in 1..(n + 9)
      BY <1>6, <2>1, <3>1
    <3>4. \A i \in breaks : 5 <= i
      BY <1>1, <3>3
    <3> HIDE DEF breaks
    <3> QED BY <3>2, <3>4, MinIs
  <2>4. 1 \in Answer!Fences(u)
    <3>1. 1 \in 1..Len(u) /\ 1 + 2 <= Len(u)
      BY <1>1, <1>5
    <3>2. \A k \in 1..3 : 1 + k - 1 = k
      OBVIOUS
    <3> QED BY <1>5, <1>6, <3>1, <3>2, FenceAt
  <2> DEFINE e == n + 7
  <2>5. Answer!Fences(u) \subseteq 1..Len(u)
    BY <2>1, <1>5 DEF Answer!Fences
  <2>6. e \in Answer!Fences(u)
    <3>1. e \in 1..Len(u) /\ e + 2 <= Len(u)
      BY <1>1, <1>5
    <3>2. \A k \in 1..3 : e + k - 1 = n + 6 + k
      BY <1>1
    <3> HIDE DEF e
    <3> QED BY <1>5, <1>6, <3>1, <3>2, FenceAt
  <2>7. \A i \in Answer!Fences(u) : i <= e
    <3> TAKE i \in Answer!Fences(u)
    <3>1. i \in 1..Len(u)
      BY <2>5
    <3>2. i + 2 <= Len(u)
      BY <1>5, <3>1, FenceAt
    <3> QED BY <1>1, <1>5, <3>1, <3>2
  <2>8. Max(Answer!Fences(u)) = e
    <3>1. Answer!Fences(u) \subseteq Int
      BY <1>1, <1>5, <2>5
    <3> HIDE DEF e
    <3> QED BY <2>6, <2>7, <3>1, MaxIs
  <2>9. Answer!StripCodeFence(u) =
          IF solid = {} THEN u
          ELSE IF Min(solid) \notin Answer!Fences(u)
                  \/ {i \in DOMAIN u : i >= Min(solid) /\ u[i] = "LF"} = {} THEN u
          ELSE IF Max(Answer!Fences(u)) <= Min({i \in DOMAIN u : i >= Min(solid) /\ u[i] = "LF"})
               THEN u
          ELSE Answer!Unbroken(SubSeq(u, Min({i \in DOMAIN u : i >= Min(solid) /\ u[i] = "LF"}) + 1,
                                         Max(Answer!Fences(u)) - 1))
    BY DEF Answer!StripCodeFence, Answer!Min, Answer!Max, Min, Max
  <2>10. {i \in DOMAIN u : i >= Min(solid) /\ u[i] = "LF"} = breaks
    <3> HIDE DEF solid
    <3> QED BY <2>2
  <2> HIDE DEF solid, breaks
  <2>11. Answer!StripCodeFence(u) = Answer!Unbroken(SubSeq(u, 5 + 1, e - 1))
    <3>1. ~(e <= 5)
      BY <1>1
    <3> HIDE DEF e
    <3> QED BY <2>2, <2>3, <2>4, <2>8, <2>9, <2>10, <3>1
  <2>12. 5 + 1 = 6 /\ e - 1 = n + 6
    BY <1>1
  <2> QED BY <2>11, <2>12
<1>8. /\ w \in Seq(Char) /\ Len(w) = n + 1
      /\ \A i \in 1..n : w[i] = code[i]
      /\ w[n + 1] = "LF"
  <2> DEFINE k == n + 6
  <2>1. k \in Nat /\ k <= Len(u) /\ 6 \in Nat \ {0} /\ 6 <= k + 1 /\ k - 6 + 1 = n + 1
    BY <1>1, <1>5
  <2> HIDE DEF k
  <2>2. Cut(Char, SubSeq(u, 6, k), u, 6, k)
    BY <1>5, <2>1, CutIs
  <2>3. w = SubSeq(u, 6, k)
    BY DEF k
  <2> HIDE DEF w
  <2>4. /\ w \in Seq(Char) /\ Len(w) = n + 1
        /\ \A i \in 1..(n + 1) : w[i] = u[6 + i - 1]
    BY <2>1, <2>2, <2>3 DEF Cut
  <2>5. \A i \in 1..(n + 1) : 6 + i - 1 = 5 + i
    BY <1>1
  <2>6. \A i \in 1..(n + 1) : w[i] = u[5 + i]
    BY <2>4, <2>5
  <2>7. w[n + 1] = u[5 + (n + 1)] /\ 5 + (n + 1) = n + 6
    BY <1>1, <2>6
  <2>8. \A i \in 1..n : i \in 1..(n + 1)
    BY <1>1
  <2> QED BY <1>6, <2>4, <2>6, <2>7, <2>8
<1> HIDE DEF w
<1>9. Answer!Unbroken(w) = SubSeq(w, 1, n)
  <2> DEFINE T == {0} \cup {i \in DOMAIN w : w[i] # "LF"}
  <2>1. DOMAIN w = 1..(n + 1)
    BY <1>8, LenProperties
  <2>2. T \subseteq Int /\ n \in T /\ \A i \in T : i <= n
    BY <1>1, <1>2, <1>8, <2>1
  <2>3. Answer!Unbroken(w) = SubSeq(w, 1, Max(T))
    BY DEF Answer!Unbroken, Answer!Max, Max
  <2> HIDE DEF T
  <2>4. Max(T) = n
    BY <2>2, MaxIs
  <2> QED BY <2>3, <2>4
<1>10. SubSeq(w, 1, n) = code
  <2>1. n <= Len(w) /\ 1 <= n + 1 /\ n - 1 + 1 = n
    BY <1>1, <1>8
  <2> DEFINE c == SubSeq(w, 1, n)
  <2>2. Cut(Char, c, w, 1, n)
    BY <1>1, <1>8, <2>1, CutIs
  <2> HIDE DEF c
  <2>3. c \in Seq(Char) /\ Len(c) = n /\ \A i \in 1..n : c[i] = w[1 + i - 1]
    BY <2>1, <2>2 DEF Cut
  <2>4. \A i \in 1..n : 1 + i - 1 = i
    BY <1>1
  <2>5. \A i \in 1..n : c[i] = code[i]
    BY <1>8, <2>3, <2>4
  <2>6. c = code
    BY <1>1, <1>3, <2>3, <2>5, SeqEqual
  <2> QED BY <2>6 DEF c
<1> QED BY <1>4, <1>7, <1>9, <1>10 DEF text

----------------------------------------------------------------------------

\* What Parts finds from a cut on, f giving it from a later one.
Behind(body, from) == {i \in Cuts(body) : i > from}

PartsBody(body, f, from) ==
  IF Behind(body, from) = {} THEN <<>>
  ELSE <<PartAt(body, from, Min(Behind(body, from)) - 1)>> \o f[Min(Behind(body, from))]

Parting(f, body, from) == f = [i \in from..Len(body) |-> PartsBody(body, f, i)]

LEMMA PartsIs ==
  ASSUME NEW body PROVE Parts(body) = (CHOOSE f : Parting(f, body, 1))[Min(Cuts(body))]
  BY DEF Parts, Parting, PartsBody, Behind

LEMMA BehindIs ==
  ASSUME NEW body, Len(body) \in Nat, NEW from \in Nat, Behind(body, from) # {}
  PROVE  /\ Min(Behind(body, from)) \in (from + 1)..(Len(body) - 1)
         /\ Min(Behind(body, from)) \in Cuts(body)
         /\ \A i \in Cuts(body) : i > from => Min(Behind(body, from)) <= i
<1> DEFINE T == Behind(body, from)
<1>1. \A i \in T : i \in 1..(Len(body) - 1) /\ i > from /\ i \in Cuts(body)
  BY DEF Behind, Cuts
<1>2. T \subseteq Nat
  BY <1>1
<1>4. \A i \in Cuts(body) : i > from => i \in T
  BY DEF Behind
<1> HIDE DEF T
<1>3. Min(T) \in T /\ \A i \in T : Min(T) <= i
  <2>1. T # {}
    BY DEF T
  <2> QED BY <1>2, <2>1, FirstIs
<1>5. Min(T) \in (from + 1)..(Len(body) - 1) /\ Min(T) \in Cuts(body)
  BY <1>1, <1>3
<1> QED BY <1>3, <1>4, <1>5 DEF T

LEMMA PartsDepends ==
  ASSUME NEW body, Len(body) \in Nat, NEW f, NEW h, NEW from \in 1..Len(body),
         \A q \in (from + 1)..Len(body) : f[q] = h[q]
  PROVE  PartsBody(body, f, from) = PartsBody(body, h, from)
<1> DEFINE t == Min(Behind(body, from))
<1>1. CASE Behind(body, from) = {}
  BY <1>1 DEF PartsBody
<1>2. CASE Behind(body, from) # {}
  <2>1. t \in (from + 1)..Len(body)
    <3>1. t \in (from + 1)..(Len(body) - 1)
      BY <1>2, BehindIs
    <3> QED BY <3>1
  <2>2. f[t] = h[t]
    BY <2>1
  <2> QED BY <1>2, <2>2 DEF PartsBody
<1> QED BY <1>1, <1>2

LEMMA PartingExists ==
  ASSUME NEW body, Len(body) \in Nat PROVE \E f : Parting(f, body, 1)
<1> DEFINE n == Len(body)
           T == {k \in Nat : k <= n => \E f : Parting(f, body, n + 1 - k)}
<1>1. n \in Nat
  OBVIOUS
<1>2. 0 \in T
  <2> DEFINE f == [i \in (n + 1)..n |-> <<>>]
  <2>1. f = [i \in (n + 1)..n |-> PartsBody(body, f, i)]
    BY <1>1
  <2>2. n + 1 - 0 = n + 1
    BY <1>1
  <2> HIDE DEF f
  <2>3. Parting(f, body, n + 1 - 0)
    BY <2>1, <2>2 DEF Parting
  <2> QED BY <2>3
<1>3. \A k \in Nat : k \in T => k + 1 \in T
  <2> SUFFICES ASSUME NEW k \in Nat, k + 1 <= n, NEW f, Parting(f, body, n + 1 - k)
               PROVE  \E h : Parting(h, body, n + 1 - (k + 1))
    BY <1>1
  <2> HIDE DEF n
  <2>a. n = Len(body)
    BY DEF n
  <2> DEFINE q == n + 1 - k
             h == [i \in (q - 1)..n |-> IF i = q - 1 THEN PartsBody(body, f, i) ELSE f[i]]
  <2>1. q \in 2..(n + 1) /\ n + 1 - (k + 1) = q - 1
    BY <1>1
  <2>2. f = [i \in q..n |-> PartsBody(body, f, i)]
    BY <2>a DEF Parting
  <2> HIDE DEF q
  <2>3. ASSUME NEW i \in (q - 1)..n PROVE PartsBody(body, h, i) = PartsBody(body, f, i)
    <3>1. i \in 1..Len(body)
      BY <2>a, <2>1, <1>1
    <3>2. \A j \in (i + 1)..Len(body) : h[j] = f[j]
      <4> TAKE j \in (i + 1)..Len(body)
      <4>1. j \in (q - 1)..n /\ j # q - 1
        BY <2>a, <2>1, <1>1
      <4> QED BY <4>1
    <3> HIDE DEF h
    <3> QED BY <3>1, <3>2, PartsDepends
  <2>4. \A i \in (q - 1)..n : h[i] = PartsBody(body, f, i)
    <3> TAKE i \in (q - 1)..n
    <3>1. CASE i = q - 1
      BY <3>1
    <3>2. CASE i # q - 1
      <4>1. i \in q..n
        BY <3>2, <2>1, <1>1
      <4>2. f[i] = PartsBody(body, f, i)
        BY <4>1, <2>2
      <4> QED BY <3>2, <4>2
    <3> QED BY <3>1, <3>2
  <2>5. h = [i \in (q - 1)..n |-> h[i]]
    OBVIOUS
  <2> HIDE DEF h
  <2>6. h = [i \in (q - 1)..n |-> PartsBody(body, h, i)]
    BY <2>3, <2>4, <2>5
  <2> QED BY <2>1, <2>6, <2>a DEF Parting
<1>4. \A k \in Nat : k \in T
  <2> HIDE DEF T
  <2> QED BY <1>2, <1>3, SetInduction
<1>5. \E f : Parting(f, body, n + 1 - n)
  BY <1>1, <1>4
<1>6. n + 1 - n = 1
  BY <1>1
<1> QED BY <1>5, <1>6

\* f gives the parts from each position on, and they are of S.
PartsFrom(body, f, S) ==
  \A i \in 1..Len(body) : f[i] = PartsBody(body, f, i) /\ f[i] \in Seq(S)

LEMMA PartsTyped ==
  ASSUME NEW body, Len(body) \in Nat, NEW f, Parting(f, body, 1), NEW S,
         \A i \in 1..Len(body), j \in 0..Len(body) : PartAt(body, i, j) \in S
  PROVE  PartsFrom(body, f, S)
<1> DEFINE n == Len(body)
           T == {k \in Nat : \A i \in 1..n : i >= n + 1 - k => f[i] \in Seq(S)}
<1>1. \A i \in 1..n : f[i] = PartsBody(body, f, i)
  <2> DEFINE h == [i \in 1..n |-> PartsBody(body, f, i)]
  <2>1. f = h
    BY DEF Parting
  <2>2. \A i \in 1..n : h[i] = PartsBody(body, f, i)
    OBVIOUS
  <2> QED BY <2>1, <2>2
<1>n. n \in Nat /\ n = Len(body)
  OBVIOUS
<1> HIDE DEF n
<1>2. 0 \in T
  <2>1. \A i \in 1..n : ~(i >= n + 1 - 0)
    BY <1>n
  <2> QED BY <2>1
<1>3. \A k \in Nat : k \in T => k + 1 \in T
  <2> SUFFICES ASSUME NEW k \in Nat, \A i \in 1..n : i >= n + 1 - k => f[i] \in Seq(S),
                      NEW i \in 1..n, i >= n + 1 - (k + 1)
               PROVE  f[i] \in Seq(S)
    OBVIOUS
  <2> DEFINE t == Min(Behind(body, i))
             x == PartAt(body, i, t - 1)
  <2>1. CASE Behind(body, i) = {}
    <3>1. f[i] = <<>>
      BY <1>1, <2>1 DEF PartsBody
    <3> QED BY <3>1, EmptySeq
  <2>2. CASE Behind(body, i) # {}
    <3>1. t \in (i + 1)..(n - 1)
      BY <1>n, <2>2, BehindIs
    <3>2. f[i] = <<x>> \o f[t]
      BY <1>1, <2>2 DEF PartsBody
    <3> HIDE DEF t
    <3>3. t \in 1..n /\ t >= n + 1 - k /\ t - 1 \in 0..Len(body) /\ i \in 1..Len(body)
      BY <1>n, <3>1
    <3>4. x \in S
      <4> DEFINE j == t - 1
      <4> HIDE DEF j
      <4>1. PartAt(body, i, j) \in S
        BY <3>3 DEF j
      <4> QED BY <4>1 DEF j
    <3>5. f[t] \in Seq(S)
      BY <3>3
    <3> HIDE DEF x
    <3>6. <<x>> \in Seq(S)
      BY <3>4
    <3> QED BY <3>2, <3>5, <3>6, ConcatProperties
  <2> QED BY <2>1, <2>2
<1>4. \A k \in Nat : k \in T
  <2> HIDE DEF T
  <2> QED BY <1>2, <1>3, SetInduction
<1>5. \A i \in 1..n : f[i] \in Seq(S)
  <2>1. \A i \in 1..n : i >= n + 1 - n
    <3> HIDE DEF T
    <3> QED BY <1>n
  <2>2. n \in T
    BY <1>4, <1>n
  <2> QED BY <2>1, <2>2
<1> QED BY <1>1, <1>5 DEF PartsFrom, n

LEMMA PartsGiven ==
  ASSUME NEW body, Len(body) \in Nat, NEW S,
         \A i \in 1..Len(body), j \in 0..Len(body) : PartAt(body, i, j) \in S
  PROVE  \E f : PartsFrom(body, f, S) /\ Parts(body) = f[Min(Cuts(body))]
<1> DEFINE f == CHOOSE g : Parting(g, body, 1)
<1>1. Parting(f, body, 1)
  BY PartingExists
<1>2. Parts(body) = f[Min(Cuts(body))]
  BY PartsIs
<1> HIDE DEF f
<1>3. PartsFrom(body, f, S)
  BY <1>1, PartsTyped
<1> QED BY <1>2, <1>3

----------------------------------------------------------------------------

\* What an upload is made of.
Token == STRING \cup {"--", "B", "NL", "file", "type", "model", "response_format",
                      "verbose_json", "language", "granularities", "word", "segment"}

Line(s, i) == s[i] = "--" /\ s[i + 1] = "B"

LEMMA LineIs ==
  ASSUME NEW s \in Seq(Token), NEW i \in 1..(Len(s) - 1)
  PROVE  SubSeq(s, i, i + 1) = Form!Delimiter <=> Line(s, i)
<1> DEFINE d == Form!Delimiter
           k == i + 1
           u == SubSeq(s, i, k)
<1>1. d \in Seq(Token) /\ Len(d) = 2 /\ d[1] = "--" /\ d[2] = "B"
  <2>1. "--" \in Token /\ "B" \in Token
    BY DEF Token
  <2> QED BY <2>1 DEF Form!Delimiter
<1>2. i \in Nat \ {0} /\ k \in Nat /\ k <= Len(s) /\ i <= k + 1
  BY LenProperties
<1> HIDE DEF d, k
<1>3. Cut(Token, u, s, i, k)
  BY <1>2, CutIs
<1>4. u \in Seq(Token) /\ Len(u) = 2 /\ u[1] = s[i] /\ u[2] = s[i + 1]
  <2>1. k - i + 1 = 2 /\ 1 \in 1..2 /\ 2 \in 1..2 /\ i + 1 - 1 = i /\ i + 2 - 1 = i + 1
    BY <1>2 DEF k
  <2> HIDE DEF u
  <2>2. u \in Seq(Token) /\ Len(u) = 2 /\ \A j \in 1..2 : u[j] = s[i + j - 1]
    BY <1>3, <2>1 DEF Cut
  <2> QED BY <2>1, <2>2
<1> HIDE DEF u
<1>5. u = d <=> (u[1] = d[1] /\ u[2] = d[2])
  <2>1. \A j \in 1..2 : j = 1 \/ j = 2
    OBVIOUS
  <2>2. ASSUME u[1] = d[1], u[2] = d[2] PROVE u = d
    <3>1. \A j \in 1..Len(u) : u[j] = d[j]
      BY <1>4, <2>1, <2>2
    <3> QED BY <1>1, <1>4, <3>1, SeqEqual
  <2> QED BY <2>2
<1> QED BY <1>1, <1>4, <1>5 DEF Line, u, d, k

\* A delimiter that begins a line.
CutAt(s, i) == i \in 1..(Len(s) - 1) /\ Line(s, i) /\ (i > 1 => s[i - 1] = "NL")

LEMMA CutsAre ==
  ASSUME NEW s \in Seq(Token) PROVE \A i : i \in Cuts(s) <=> CutAt(s, i)
  BY LineIs DEF Cuts, CutAt

\* The part between a cut and the next one.
LEMMA PartTaken ==
  ASSUME NEW body \in Seq(Token), NEW S, NEW f, PartsFrom(body, f, S),
         NEW from \in 1..Len(body), NEW to \in Nat, from < to, CutAt(body, to),
         \A i \in (from + 1)..(to - 1) : ~CutAt(body, i)
  PROVE  f[from] = <<PartAt(body, from, to - 1)>> \o f[to]
<1> DEFINE T == Behind(body, from)
<1>1. T = {i \in Cuts(body) : i > from} /\ Len(body) \in Nat /\ from \in Nat
  BY LenProperties DEF Behind
<1>2. to \in T
  BY <1>1, CutsAre
<1>3. \A i \in T : to <= i
  <2> SUFFICES ASSUME NEW i \in T, i < to PROVE FALSE
    <3>1. \A i \in T : i \in Nat
      BY <1>1, CutsAre DEF CutAt
    <3> QED BY <3>1
  <2>1. CutAt(body, i) /\ i > from
    BY <1>1, CutsAre
  <2>2. i \in (from + 1)..(to - 1)
    BY <2>1 DEF CutAt
  <2> QED BY <2>1, <2>2
<1>4. T \subseteq Int
  BY <1>1, CutsAre DEF CutAt
<1>5. f[from] = PartsBody(body, f, from)
  BY DEF PartsFrom
<1> HIDE DEF T
<1>6. Min(T) = to
  BY <1>2, <1>3, <1>4, MinIs
<1> QED BY <1>2, <1>5, <1>6 DEF PartsBody, T

----------------------------------------------------------------------------

\* A field's name and value, which hold no boundary and no line break.
Clean(x) ==
  /\ x \in Token \X Seq(Token) /\ x[1] \notin {"--", "NL"}
  /\ \A i \in 1..Len(x[2]) : x[2][i] \notin {"--", "NL"}

FieldIs(u, x) ==
  /\ u \in Seq(Token) /\ Len(u) = Len(x[2]) + 7
  /\ u[1] = "--" /\ u[2] = "B" /\ u[3] = "NL" /\ u[4] = x[1] /\ u[5] = "NL" /\ u[6] = "NL"
  /\ \A i \in 1..Len(x[2]) : u[6 + i] = x[2][i]
  /\ u[Len(x[2]) + 7] = "NL"

LEMMA DelimiterIs ==
  /\ Form!Delimiter \in Seq(Token) /\ Len(Form!Delimiter) = 2
  /\ Form!Delimiter[1] = "--" /\ Form!Delimiter[2] = "B"
<1>1. "--" \in Token /\ "B" \in Token
  BY DEF Token
<1> QED BY <1>1, OfTwo DEF Form!Delimiter

LEMMA FieldShape ==
  ASSUME NEW x, Clean(x) PROVE FieldIs(Form!MultipartField(x[1], x[2]), x)
<1> DEFINE name == x[1]
           value == x[2]
           d == Form!Delimiter
           h == <<"NL", name, "NL", "NL">>
           e == <<"NL">>
           n == Len(value)
           s1 == d \o h
           s2 == s1 \o value
           u == s2 \o e
<1>1. name \in Token /\ value \in Seq(Token) /\ "NL" \in Token
  BY DEF Clean, Token
<1>2. d \in Seq(Token) /\ Len(d) = 2 /\ d[1] = "--" /\ d[2] = "B"
  BY DelimiterIs
<1>3. /\ h \in Seq(Token) /\ Len(h) = 4
      /\ h[1] = "NL" /\ h[2] = name /\ h[3] = "NL" /\ h[4] = "NL"
  <2> HIDE DEF name
  <2> QED BY <1>1, OfFour
<1>4. e \in Seq(Token) /\ Len(e) = 1 /\ e[1] = "NL"
  BY <1>1, OfOne
<1>5. Form!MultipartField(x[1], x[2]) = u
  BY DEF Form!MultipartField
<1>6. n \in Nat
  BY <1>1, LenProperties
<1> HIDE DEF d, h, e, name, value
<1>7. /\ s1 \in Seq(Token) /\ Len(s1) = 6 /\ s1[1] = "--" /\ s1[2] = "B" /\ s1[3] = "NL"
      /\ s1[4] = name /\ s1[5] = "NL" /\ s1[6] = "NL"
  <2>1. Joined(Token, s1, d, h)
    BY <1>2, <1>3, TwoParts
  <2> HIDE DEF s1
  <2>2. /\ s1 \in Seq(Token) /\ Len(s1) = 2 + 4 /\ \A i \in 1..2 : s1[i] = d[i]
        /\ \A i \in 1..4 : s1[2 + i] = h[i]
    BY <1>2, <1>3, <2>1 DEF Joined
  <2>3. /\ 1 \in 1..2 /\ 2 \in 1..2 /\ 1 \in 1..4 /\ 2 \in 1..4 /\ 3 \in 1..4 /\ 4 \in 1..4
        /\ 2 + 4 = 6 /\ 2 + 1 = 3 /\ 2 + 2 = 4 /\ 2 + 3 = 5
    OBVIOUS
  <2>4. s1[2 + 1] = h[1] /\ s1[2 + 2] = h[2] /\ s1[2 + 3] = h[3] /\ s1[2 + 4] = h[4]
    BY <2>2, <2>3
  <2> QED BY <1>2, <1>3, <2>2, <2>3, <2>4
<1> HIDE DEF s1
<1>8. /\ s2 \in Seq(Token) /\ Len(s2) = 6 + n /\ \A i \in 1..6 : s2[i] = s1[i]
      /\ \A i \in 1..n : s2[6 + i] = value[i]
  <2>1. Joined(Token, s2, s1, value)
    BY <1>1, <1>7, TwoParts
  <2> HIDE DEF s2
  <2> QED BY <1>7, <2>1 DEF Joined
<1> HIDE DEF s2
<1>9. Joined(Token, u, s2, e)
  BY <1>4, <1>8, TwoParts
<1> HIDE DEF u, n
<1>10. /\ u \in Seq(Token) /\ Len(u) = n + 7 /\ \A i \in 1..(6 + n) : u[i] = s2[i]
       /\ u[n + 7] = "NL"
  <2>1. 6 + n + 1 = n + 7 /\ 1 \in 1..1
    BY <1>6
  <2>2. u[6 + n + 1] = e[1]
    BY <1>4, <1>8, <1>9, <2>1 DEF Joined
  <2> QED BY <1>4, <1>8, <1>9, <2>1, <2>2 DEF Joined
<1>11. \A i \in 1..6 : u[i] = s1[i]
  <2>1. \A i \in 1..6 : i \in 1..(6 + n)
    BY <1>6
  <2> QED BY <1>8, <1>10, <2>1
<1>12. \A i \in 1..n : u[6 + i] = value[i]
  <2>1. \A i \in 1..n : 6 + i \in 1..(6 + n)
    BY <1>6
  <2> QED BY <1>8, <1>10, <2>1
<1>13. /\ u[1] = "--" /\ u[2] = "B" /\ u[3] = "NL" /\ u[4] = name /\ u[5] = "NL" /\ u[6] = "NL"
  <2>1. 1 \in 1..6 /\ 2 \in 1..6 /\ 3 \in 1..6 /\ 4 \in 1..6 /\ 5 \in 1..6 /\ 6 \in 1..6
    OBVIOUS
  <2> QED BY <1>7, <1>11, <2>1
<1>14. FieldIs(u, x)
  BY <1>10, <1>12, <1>13 DEF FieldIs, name, value, n
<1> QED BY <1>5, <1>14

\* A sequence stands at a place of another.
Stands(s, p, u) ==
  p + Len(u) <= Len(s) + 1 /\ \A j \in 1..Len(u) : s[p + j - 1] = u[j]

\* Where the empty line of a part is, and what follows it.
LEMMA PartIs ==
  ASSUME NEW body \in Seq(Token), NEW from \in 1..Len(body), NEW to \in 1..Len(body),
         NEW line \in from..(to - 1), body[line] = "NL", body[line + 1] = "NL",
         \A i \in from..(line - 1) : body[i] # "NL" \/ body[i + 1] # "NL"
  PROVE  PartAt(body, from, to) = <<body[from + 3], SubSeq(body, line + 2, to - 1)>>
<1> DEFINE T == {i \in from..(to - 1) : body[i] = "NL" /\ body[i + 1] = "NL"}
<1>1. T \subseteq Int /\ line \in T
  BY LenProperties
<1>2. \A i \in T : line <= i
  <2> SUFFICES ASSUME NEW i \in T, i < line PROVE FALSE
    BY <1>1
  <2>1. i \in from..(line - 1)
    BY LenProperties
  <2> QED BY <2>1
<1>3. PartAt(body, from, to) =
        IF T = {} THEN <<"malformed", <<>>>>
        ELSE <<body[from + 3], SubSeq(body, Min(T) + 2, to - 1)>>
  BY DEF PartAt
<1> HIDE DEF T
<1>4. Min(T) = line
  BY <1>1, <1>2, MinIs
<1> QED BY <1>1, <1>3, <1>4

FieldRead(body, f, p, x) == f[p] = <<x>> \o f[p + Len(x[2]) + 7]

LEMMA FieldTaken ==
  ASSUME NEW body \in Seq(Token), NEW S, NEW f, PartsFrom(body, f, S), NEW x, Clean(x),
         NEW p \in Nat \ {0}, NEW u, FieldIs(u, x), Stands(body, p, u),
         Stands(body, p + Len(x[2]) + 7, Form!Delimiter)
  PROVE  FieldRead(body, f, p, x)
<1> DEFINE v == x[2]
           m == Len(v)
           l == Len(body)
           to == p + m + 7
           d == Form!Delimiter
<1>1. /\ v \in Seq(Token) /\ m \in Nat /\ l \in Nat /\ p \in Nat /\ p > 0
      /\ x[1] # "--" /\ x[1] # "NL" /\ \A i \in 1..m : v[i] # "--" /\ v[i] # "NL"
      /\ x = <<x[1], v>>
  BY LenProperties DEF Clean
<1>2. /\ Len(u) = m + 7 /\ u[1] = "--" /\ u[2] = "B" /\ u[3] = "NL" /\ u[4] = x[1]
      /\ u[5] = "NL" /\ u[6] = "NL" /\ \A i \in 1..m : u[6 + i] = v[i]
      /\ u[m + 7] = "NL"
  BY DEF FieldIs
<1>3. p + (m + 7) <= l + 1 /\ \A j \in 1..(m + 7) : body[p + j - 1] = u[j]
  BY <1>2 DEF Stands
<1>4. Stands(body, to, d)
  OBVIOUS
<1> HIDE DEF v, m, l, to
<1>5. to + 2 <= l + 1 /\ Line(body, to)
  <2>1. \A j \in 1..2 : body[to + j - 1] = d[j]
    BY <1>4, DelimiterIs DEF Stands
  <2>2. 1 \in 1..2 /\ 2 \in 1..2 /\ to + 1 - 1 = to /\ to + 2 - 1 = to + 1
    BY <1>1 DEF to
  <2>3. body[to] = d[1] /\ body[to + 1] = d[2]
    BY <2>1, <2>2
  <2> QED BY <1>4, <2>3, DelimiterIs DEF Stands, Line, l
<1>6. to \in Nat /\ to = p + m + 7 /\ p < to /\ p \in 1..l /\ to \in 1..l
  BY <1>1, <1>3, <1>5 DEF to
<1>7. /\ body[p] = "--" /\ body[p + 1] = "B" /\ body[p + 2] = "NL" /\ body[p + 3] = x[1]
      /\ body[p + 4] = "NL" /\ body[p + 5] = "NL" /\ body[to - 1] = "NL"
      /\ \A i \in 1..m : body[p + 5 + i] = v[i]
  <2>a. /\ p + 1 - 1 = p /\ p + 2 - 1 = p + 1 /\ p + 3 - 1 = p + 2 /\ p + 4 - 1 = p + 3
        /\ p + 5 - 1 = p + 4 /\ p + 6 - 1 = p + 5
    BY <1>1
  <2>b. p + (m + 7) - 1 = to - 1
    BY <1>1, <1>6
  <2>c. /\ 1 \in 1..(m + 7) /\ 2 \in 1..(m + 7) /\ 3 \in 1..(m + 7) /\ 4 \in 1..(m + 7)
        /\ 5 \in 1..(m + 7) /\ 6 \in 1..(m + 7) /\ m + 7 \in 1..(m + 7)
    BY <1>1
  <2>2. /\ body[p + 1 - 1] = u[1] /\ body[p + 2 - 1] = u[2] /\ body[p + 3 - 1] = u[3]
        /\ body[p + 4 - 1] = u[4] /\ body[p + 5 - 1] = u[5] /\ body[p + 6 - 1] = u[6]
        /\ body[p + (m + 7) - 1] = u[m + 7]
    BY <1>3, <2>c
  <2>3. \A i \in 1..m : body[p + 5 + i] = u[6 + i]
    <3> TAKE i \in 1..m
    <3>1. 6 + i \in 1..(m + 7) /\ p + (6 + i) - 1 = p + 5 + i
      BY <1>1
    <3> QED BY <1>3, <3>1
  <2> QED BY <1>2, <2>a, <2>b, <2>2, <2>3
<1>8. CutAt(body, to)
  BY <1>5, <1>6, <1>7 DEF CutAt, l
<1>9. \A i \in (p + 1)..(to - 1) : body[i] # "--"
  <2> TAKE i \in (p + 1)..(to - 1)
  <2>1. CASE i <= p + 5
    <3>1. i = p + 1 \/ i = p + 2 \/ i = p + 3 \/ i = p + 4 \/ i = p + 5
      BY <1>6, <2>1
    <3> QED BY <1>1, <1>7, <3>1
  <2>2. CASE i > p + 5 /\ i < to - 1
    <3> DEFINE j == i - (p + 5)
    <3>1. j \in 1..m /\ p + 5 + j = i
      BY <1>1, <1>6, <2>2
    <3> HIDE DEF j
    <3> QED BY <1>1, <1>7, <3>1
  <2>3. CASE i = to - 1
    BY <1>7, <2>3
  <2> QED BY <1>6, <2>1, <2>2, <2>3
<1>10. f[p] = <<PartAt(body, p, to - 1)>> \o f[to]
  <2>1. \A i \in (p + 1)..(to - 1) : ~CutAt(body, i)
    BY <1>9 DEF CutAt, Line
  <2>2. p \in 1..Len(body)
    BY <1>6 DEF l
  <2> QED BY <1>6, <1>8, <2>1, <2>2, PartTaken
<1>11. PartAt(body, p, to - 1) = x
  <2> DEFINE line == p + 4
             e == to - 1
             c == p + 3
             a == line + 2
             b == e - 1
  <2>1. /\ line \in p..(e - 1) /\ body[line] = "NL" /\ body[line + 1] = "NL"
        /\ e \in 1..Len(body) /\ p \in 1..Len(body)
    <3>1. line + 1 = p + 5 /\ line \in p..(e - 1) /\ e \in 1..l
      BY <1>1, <1>6
    <3> QED BY <1>6, <1>7, <3>1 DEF l
  <2>2. \A i \in p..(line - 1) : body[i] # "NL" \/ body[i + 1] # "NL"
    <3> TAKE i \in p..(line - 1)
    <3>1. i = p \/ i = p + 1 \/ (i = p + 2 /\ i + 1 = p + 3) \/ i = p + 3
      BY <1>6
    <3> QED BY <1>1, <1>7, <3>1
  <2> HIDE DEF line, e
  <2>3. PartAt(body, p, e) = <<body[c], SubSeq(body, a, b)>>
    BY <2>1, <2>2, PartIs
  <2>4. a = p + 6 /\ b = p + m + 5
    BY <1>1, <1>6 DEF line, e
  <2> HIDE DEF a, b
  <2> DEFINE s == SubSeq(body, a, b)
  <2>5. Cut(Token, s, body, a, b)
    <3>1. a \in Nat \ {0} /\ b \in Nat /\ b <= Len(body) /\ a <= b + 1
      BY <1>1, <1>6, <2>4 DEF l
    <3> QED BY <3>1, CutIs
  <2> HIDE DEF s
  <2>6. s \in Seq(Token) /\ Len(s) = m /\ \A i \in 1..m : s[i] = body[p + 5 + i]
    <3>3. b - a + 1 = m
      BY <1>1, <2>4
    <3>4. \A i \in 1..m : a + i - 1 = p + 5 + i
      <4> TAKE i \in 1..m
      <4> QED BY <1>1, <2>4
    <3>1. b - a + 1 = m /\ \A i \in 1..m : a + i - 1 = p + 5 + i
      BY <3>3, <3>4
    <3>2. s \in Seq(Token) /\ Len(s) = m /\ \A i \in 1..m : s[i] = body[a + i - 1]
      BY <2>5, <3>1 DEF Cut
    <3> QED BY <3>1, <3>2
  <2>7. s = v
    <3>1. Len(v) = m
      BY DEF m
    <3>2. \A i \in 1..Len(s) : s[i] = v[i]
      BY <1>7, <2>6
    <3> QED BY <1>1, <2>6, <3>1, <3>2, SeqEqual
  <2> QED BY <1>1, <1>7, <2>3, <2>7 DEF s, e
<1> QED BY <1>10, <1>11 DEF FieldRead, to, m, v

----------------------------------------------------------------------------

\* What precedes the fields of an upload.
FilePart(audio) ==
  Form!Delimiter \o <<"NL", "file", "NL", "type", "NL", "NL">> \o audio \o <<"NL">>

FileIs(u, audio) ==
  /\ u \in Seq(Token) /\ Len(u) = Len(audio) + 9
  /\ u[1] = "--" /\ u[2] = "B" /\ u[3] = "NL" /\ u[4] = "file" /\ u[5] = "NL"
  /\ u[6] = "type" /\ u[7] = "NL" /\ u[8] = "NL"
  /\ \A i \in 1..Len(audio) : u[8 + i] = audio[i]
  /\ u[Len(audio) + 9] = "NL"

LEMMA FileShape == ASSUME NEW audio \in Seq(Token) PROVE FileIs(FilePart(audio), audio)
<1> DEFINE d == Form!Delimiter
           h == <<"NL", "file", "NL", "type", "NL", "NL">>
           e == <<"NL">>
           n == Len(audio)
           s1 == d \o h
           s2 == s1 \o audio
           u == s2 \o e
<1>1. "file" \in Token /\ "type" \in Token /\ "NL" \in Token
  BY DEF Token
<1>2. d \in Seq(Token) /\ Len(d) = 2 /\ d[1] = "--" /\ d[2] = "B"
  BY DelimiterIs
<1>3. /\ h \in Seq(Token) /\ Len(h) = 6
      /\ h[1] = "NL" /\ h[2] = "file" /\ h[3] = "NL" /\ h[4] = "type" /\ h[5] = "NL" /\ h[6] = "NL"
  BY <1>1, OfSix
<1>4. e \in Seq(Token) /\ Len(e) = 1 /\ e[1] = "NL"
  BY <1>1, OfOne
<1>5. FilePart(audio) = u
  BY DEF FilePart
<1>6. n \in Nat
  BY LenProperties
<1> HIDE DEF d, h, e
<1>7. /\ s1 \in Seq(Token) /\ Len(s1) = 8 /\ s1[1] = "--" /\ s1[2] = "B" /\ s1[3] = "NL"
      /\ s1[4] = "file" /\ s1[5] = "NL" /\ s1[6] = "type" /\ s1[7] = "NL" /\ s1[8] = "NL"
  <2>1. Joined(Token, s1, d, h)
    BY <1>2, <1>3, TwoParts
  <2> HIDE DEF s1
  <2>2. /\ s1 \in Seq(Token) /\ Len(s1) = 2 + 6 /\ \A i \in 1..2 : s1[i] = d[i]
        /\ \A i \in 1..6 : s1[2 + i] = h[i]
    BY <1>2, <1>3, <2>1 DEF Joined
  <2>3. /\ 1 \in 1..2 /\ 2 \in 1..2 /\ 1 \in 1..6 /\ 2 \in 1..6 /\ 3 \in 1..6 /\ 4 \in 1..6
        /\ 5 \in 1..6 /\ 6 \in 1..6
        /\ 2 + 6 = 8 /\ 2 + 1 = 3 /\ 2 + 2 = 4 /\ 2 + 3 = 5 /\ 2 + 4 = 6 /\ 2 + 5 = 7
    OBVIOUS
  <2>4. /\ s1[2 + 1] = h[1] /\ s1[2 + 2] = h[2] /\ s1[2 + 3] = h[3] /\ s1[2 + 4] = h[4]
        /\ s1[2 + 5] = h[5] /\ s1[2 + 6] = h[6]
    BY <2>2, <2>3
  <2> QED BY <1>2, <1>3, <2>2, <2>3, <2>4
<1> HIDE DEF s1
<1>8. /\ s2 \in Seq(Token) /\ Len(s2) = 8 + n /\ \A i \in 1..8 : s2[i] = s1[i]
      /\ \A i \in 1..n : s2[8 + i] = audio[i]
  <2>1. Joined(Token, s2, s1, audio)
    BY <1>7, TwoParts
  <2> HIDE DEF s2
  <2> QED BY <1>7, <2>1 DEF Joined
<1> HIDE DEF s2
<1>9. Joined(Token, u, s2, e)
  BY <1>4, <1>8, TwoParts
<1> HIDE DEF u, n
<1>10. /\ u \in Seq(Token) /\ Len(u) = n + 9 /\ \A i \in 1..(8 + n) : u[i] = s2[i]
       /\ u[n + 9] = "NL"
  <2>1. 8 + n + 1 = n + 9 /\ 1 \in 1..1
    BY <1>6
  <2>2. u[8 + n + 1] = e[1]
    BY <1>4, <1>8, <1>9, <2>1 DEF Joined
  <2> QED BY <1>4, <1>8, <1>9, <2>1, <2>2 DEF Joined
<1>11. \A i \in 1..8 : u[i] = s1[i]
  <2>1. \A i \in 1..8 : i \in 1..(8 + n)
    BY <1>6
  <2> QED BY <1>8, <1>10, <2>1
<1>12. \A i \in 1..n : u[8 + i] = audio[i]
  <2>1. \A i \in 1..n : 8 + i \in 1..(8 + n)
    BY <1>6
  <2> QED BY <1>8, <1>10, <2>1
<1>13. /\ u[1] = "--" /\ u[2] = "B" /\ u[3] = "NL" /\ u[4] = "file" /\ u[5] = "NL"
       /\ u[6] = "type" /\ u[7] = "NL" /\ u[8] = "NL"
  <2>1. /\ 1 \in 1..8 /\ 2 \in 1..8 /\ 3 \in 1..8 /\ 4 \in 1..8 /\ 5 \in 1..8 /\ 6 \in 1..8
        /\ 7 \in 1..8 /\ 8 \in 1..8
    OBVIOUS
  <2> QED BY <1>7, <1>11, <2>1
<1>14. FileIs(u, audio)
  BY <1>10, <1>12, <1>13 DEF FileIs, n
<1> QED BY <1>5, <1>14

\* The upload up to some of its fields.
Upto(audio, r) == FilePart(audio) \o Form!Written(r)

Fielded == {x \in Token \X Seq(Token) : Clean(x)}

LEMMA WrittenGrows ==
  ASSUME NEW r \in Seq(Fielded), NEW x \in Fielded
  PROVE  /\ Form!Written(r) \in Seq(Token)
         /\ Form!Written(Append(r, x)) = Form!Written(r) \o Form!MultipartField(x[1], x[2])
<1> DEFINE W(s) == [i \in DOMAIN s |-> Form!MultipartField(s[i][1], s[i][2])]
           more == Append(r, x)
           e == Form!MultipartField(x[1], x[2])
           es == W(r)
<1>1. \A y \in Fielded : Form!MultipartField(y[1], y[2]) \in Seq(Token)
  BY FieldShape DEF Fielded, FieldIs
<1>2. \A s \in Seq(Fielded) : W(s) \in Seq(Seq(Token)) /\ Len(W(s)) = Len(s)
  <2> TAKE s \in Seq(Fielded)
  <2>1. DOMAIN s = 1..Len(s) /\ Len(s) \in Nat /\ \A i \in 1..Len(s) : s[i] \in Fielded
    BY ElementOfSeq, LenProperties
  <2> DEFINE n == Len(s)
             a == W(s)
  <2>2. DOMAIN a = 1..n /\ a = [i \in 1..n |-> a[i]] /\ \A i \in 1..n : a[i] \in Seq(Token)
    <3>1. a = [i \in 1..n |-> Form!MultipartField(s[i][1], s[i][2])]
      BY <2>1
    <3> HIDE DEF a
    <3> QED BY <1>1, <2>1, <3>1
  <2> HIDE DEF a
  <2>3. a \in Seq(Seq(Token)) /\ Len(a) = n
    <3> HIDE DEF n
    <3> QED BY <2>1, <2>2, SeqByIndex DEF n
  <2> QED BY <2>3 DEF a
<1>3. \A s \in Seq(Fielded) : \A i \in 1..Len(s) : W(s)[i] = Form!MultipartField(s[i][1], s[i][2])
  BY LenProperties
<1>4. \A s : Form!Written(s) = FlattenSeq(W(s))
  BY DEF Form!Written, Form!FlattenSeq, FlattenSeq
<1> HIDE DEF W
<1>5. /\ more \in Seq(Fielded) /\ Len(more) = Len(r) + 1 /\ more[Len(r) + 1] = x
      /\ \A i \in 1..Len(r) : more[i] = r[i]
  BY AppendProperties
<1>6. e \in Seq(Token) /\ es \in Seq(Seq(Token)) /\ Len(es) = Len(r) /\ Len(r) \in Nat
  BY <1>1, <1>2, LenProperties
<1>7. W(more) = Append(es, e)
  <2> DEFINE a == W(more)
             b == Append(es, e)
             n == Len(r)
  <2>1. a \in Seq(Seq(Token)) /\ Len(a) = n + 1 /\ n \in Nat
    BY <1>2, <1>5, <1>6
  <2>2. b \in Seq(Seq(Token)) /\ Len(b) = n + 1 /\ b[n + 1] = e /\ \A i \in 1..n : b[i] = es[i]
    BY <1>6, AppendProperties
  <2>3. \A i \in 1..(n + 1) : a[i] = b[i]
    <3> TAKE i \in 1..(n + 1)
    <3>1. a[i] = Form!MultipartField(more[i][1], more[i][2])
      BY <1>3, <1>5
    <3>2. CASE i = n + 1
      BY <1>5, <2>2, <3>1, <3>2
    <3>3. CASE i # n + 1
      <4>1. i \in 1..n
        BY <2>1, <3>3
      <4>2. es[i] = Form!MultipartField(r[i][1], r[i][2])
        BY <1>3, <4>1
      <4> QED BY <1>5, <2>2, <3>1, <4>1, <4>2
    <3> QED BY <3>2, <3>3
  <2> HIDE DEF a, b, n
  <2>4. a = b
    BY <2>1, <2>2, <2>3, SeqEqual
  <2> QED BY <2>4 DEF a, b
<1>8. FlattenSeq(es) \in Seq(Token) /\ FlattenSeq(Append(es, e)) = FlattenSeq(es) \o e
  <2> HIDE DEF es, e
  <2> QED BY <1>6, FlattenType, FlattenAppend
<1> QED BY <1>4, <1>7, <1>8

\* An upload that has arrived begins with some sequence.
Fits(s, u) == Len(u) <= Len(s) /\ \A i \in 1..Len(u) : s[i] = u[i]

LEMMA FitsBoth ==
  ASSUME NEW s, Len(s) \in Nat, NEW u \in Seq(Token), NEW t \in Seq(Token)
  PROVE  Fits(s, u \o t) <=> Fits(s, u) /\ Stands(s, Len(u) + 1, t)
<1> DEFINE m == Len(u)
           l == Len(t)
           w == u \o t
           n == Len(s)
<1>1. m \in Nat /\ l \in Nat /\ n \in Nat
  BY LenProperties
<1>2. Joined(Token, w, u, t)
  <2> HIDE DEF w
  <2> QED BY TwoParts DEF w
<1> HIDE DEF w
<1>3. /\ Len(w) = m + l /\ \A i \in 1..m : w[i] = u[i]
      /\ \A i \in 1..l : w[m + i] = t[i]
  BY <1>2 DEF Joined
<1> HIDE DEF m, l, n
<1>4. Fits(s, w) <=> m + l <= n /\ \A i \in 1..(m + l) : s[i] = w[i]
  BY <1>3 DEF Fits, n
<1>5. Fits(s, u) <=> m <= n /\ \A i \in 1..m : s[i] = u[i]
  BY DEF Fits, m, n
<1>6. Stands(s, m + 1, t) <=> m + l <= n /\ \A i \in 1..l : s[m + i] = t[i]
  <2>1. (m + 1) + l <= n + 1 <=> m + l <= n
    BY <1>1
  <2>2. \A i \in 1..l : m + 1 + i - 1 = m + i
    <3> TAKE i \in 1..l
    <3> QED BY <1>1
  <2>3. Stands(s, m + 1, t) <=> (m + 1) + l <= n + 1 /\ \A i \in 1..l : s[m + 1 + i - 1] = t[i]
    BY DEF Stands, l, n
  <2> QED BY <2>1, <2>2, <2>3
<1>7. ASSUME Fits(s, w) PROVE Fits(s, u) /\ Stands(s, m + 1, t)
  <2>1. \A i \in 1..m : s[i] = u[i]
    <3> TAKE i \in 1..m
    <3>1. i \in 1..(m + l)
      BY <1>1
    <3> QED BY <1>3, <1>4, <1>7, <3>1
  <2>2. \A i \in 1..l : s[m + i] = t[i]
    <3> TAKE i \in 1..l
    <3>1. m + i \in 1..(m + l)
      BY <1>1
    <3> QED BY <1>3, <1>4, <1>7, <3>1
  <2>3. m <= n
    BY <1>1, <1>4, <1>7
  <2> QED BY <1>4, <1>5, <1>6, <1>7, <2>1, <2>2, <2>3
<1>8. ASSUME Fits(s, u), Stands(s, m + 1, t) PROVE Fits(s, w)
  <2>1. \A i \in 1..(m + l) : s[i] = w[i]
    <3> TAKE i \in 1..(m + l)
    <3>1. CASE i <= m
      <4>1. i \in 1..m
        BY <1>1, <3>1
      <4> QED BY <1>3, <1>5, <1>8, <4>1
    <3>2. CASE i > m
      <4> DEFINE j == i - m
      <4>1. j \in 1..l /\ m + j = i
        BY <1>1, <3>2
      <4> HIDE DEF j
      <4> QED BY <1>3, <1>6, <1>8, <4>1
    <3> QED BY <1>1, <3>1, <3>2
  <2> QED BY <1>4, <1>6, <1>8, <2>1
<1> QED BY <1>7, <1>8 DEF w, m

UptoBy(audio, r, x) ==
  /\ Upto(audio, r) \in Seq(Token)
  /\ Upto(audio, Append(r, x)) = Upto(audio, r) \o Form!MultipartField(x[1], x[2])

LEMMA UptoGrows ==
  ASSUME NEW audio \in Seq(Token), NEW r \in Seq(Fielded), NEW x \in Fielded
  PROVE  UptoBy(audio, r, x)
<1> DEFINE h == FilePart(audio)
           w == Form!Written(r)
           e == Form!MultipartField(x[1], x[2])
<1>1. h \in Seq(Token) /\ w \in Seq(Token) /\ e \in Seq(Token)
  BY FileShape, WrittenGrows, FieldShape DEF Fielded, FieldIs, FileIs
<1>2. Form!Written(Append(r, x)) = w \o e
  BY WrittenGrows
<1> HIDE DEF h, w, e
<1>3. h \o (w \o e) = (h \o w) \o e /\ h \o w \in Seq(Token)
  BY <1>1, ConcatAssociative, ConcatProperties
<1> QED BY <1>2, <1>3 DEF Upto, UptoBy, h, w, e

\* The file and some fields were found, and what is behind them is left.
Found(f, audio, r) ==
  f[1] = (<<<<"file", audio>>>> \o r) \o f[Len(Upto(audio, r)) + 1]

LEMMA NextPlace ==
  ASSUME NEW m \in Nat, NEW l \in Nat, NEW k, NEW p, k = l + 7, p = m + 1
  PROVE  p + k = (m + k) + 1 /\ p + k = p + l + 7
OBVIOUS

LEMMA FoundOn ==
  ASSUME NEW body \in Seq(Token), NEW audio \in Seq(Token), NEW S,
         Fielded \subseteq S, <<"file", audio>> \in S, NEW f, PartsFrom(body, f, S),
         NEW r \in Seq(Fielded), NEW x \in Fielded, Found(f, audio, r),
         Fits(body, Upto(audio, Append(r, x)) \o Form!Delimiter)
  PROVE  Found(f, audio, Append(r, x))
<1> DEFINE u == Upto(audio, r)
           e == Form!MultipartField(x[1], x[2])
           u2 == Upto(audio, Append(r, x))
           d == Form!Delimiter
           p == Len(u) + 1
           k == Len(x[2]) + 7
           fe == <<"file", audio>>
<1>1. u \in Seq(Token) /\ u2 = u \o e
  BY UptoGrows DEF UptoBy
<1>2. FieldIs(e, x) /\ Clean(x)
  BY FieldShape DEF Fielded
<1>3. e \in Seq(Token) /\ Len(e) = k /\ d \in Seq(Token) /\ Len(d) = 2
  BY <1>2, DelimiterIs DEF FieldIs
<1>4. Fits(body, u2 \o d)
  OBVIOUS
<1>5. Len(x[2]) \in Nat /\ Len(u) \in Nat /\ Len(body) \in Nat
  BY <1>1, <1>2, LenProperties DEF Clean
<1>6. Found(f, audio, r) <=> f[1] = (<<fe>> \o r) \o f[p]
  BY DEF Found
<1>7. Found(f, audio, Append(r, x)) <=> f[1] = (<<fe>> \o Append(r, x)) \o f[Len(u2) + 1]
  BY DEF Found
<1> HIDE DEF u, e, u2, d, k
<1>8. u2 \in Seq(Token) /\ Len(u2) = Len(u) + k
  BY <1>1, <1>3, ConcatProperties
<1>9. Fits(body, u2) /\ Stands(body, Len(u2) + 1, d)
  BY <1>3, <1>4, <1>5, <1>8, FitsBoth
<1>10. Fits(body, u) /\ Stands(body, p, e)
  BY <1>1, <1>3, <1>5, <1>9, FitsBoth
<1> DEFINE q == p + k
<1>11. q = Len(u2) + 1 /\ q = p + Len(x[2]) + 7
  <2>1. k \in Nat /\ k = Len(x[2]) + 7
    BY <1>5 DEF k
  <2> DEFINE m == Len(u)
             l == Len(x[2])
  <2>2. m \in Nat /\ l \in Nat /\ Len(u2) = m + k /\ k = l + 7 /\ p = m + 1
    BY <1>5, <1>8, <2>1
  <2> HIDE DEF m, l, p
  <2>3. p + k = (m + k) + 1 /\ p + k = p + l + 7
    BY <2>2, NextPlace
  <2> QED BY <2>2, <2>3 DEF l
<1>12. f[p] = <<x>> \o f[q]
  <2>1. p \in Nat \ {0}
    BY <1>5
  <2> HIDE DEF p
  <2>2. Stands(body, p + Len(x[2]) + 7, Form!Delimiter)
    BY <1>9, <1>11 DEF d
  <2>3. FieldRead(body, f, p, x)
    BY <1>2, <1>10, <2>1, <2>2, FieldTaken
  <2> QED BY <1>11, <2>3 DEF FieldRead
<1>13. q \in 1..Len(body)
  <2>1. Len(u2) + 1 + 2 <= Len(body) + 1 /\ Len(u2) \in Nat
    BY <1>3, <1>8, <1>9, LenProperties DEF Stands
  <2> QED BY <1>5, <1>11, <2>1
<1>14. f[q] \in Seq(S)
  BY <1>13 DEF PartsFrom
<1> HIDE DEF p, q
<1>15. r \in Seq(S) /\ x \in S /\ fe \in S
  <2> HIDE DEF Fielded
  <2>1. r \in Seq(S)
    BY Widened
  <2> QED BY <2>1
<1> HIDE DEF fe
<1>16. (<<fe>> \o r) \o (<<x>> \o f[q]) = (<<fe>> \o Append(r, x)) \o f[q]
  <2> DEFINE g == f[q]
  <2>1. g \in Seq(S)
    BY <1>14
  <2> HIDE DEF g
  <2>2. Regrouped(fe, r, x, g)
    BY <1>15, <2>1, OneMore
  <2> QED BY <2>2 DEF g, Regrouped
<1> QED BY <1>6, <1>7, <1>11, <1>12, <1>16

\* What is found behind the fields found so far: the next delimiter begins it.
LEMMA FitsLess ==
  ASSUME NEW body \in Seq(Token), NEW audio \in Seq(Token),
         NEW r \in Seq(Fielded), NEW x \in Fielded,
         Fits(body, Upto(audio, Append(r, x)) \o Form!Delimiter)
  PROVE  Fits(body, Upto(audio, r) \o Form!Delimiter)
<1> DEFINE u == Upto(audio, r)
           e == Form!MultipartField(x[1], x[2])
           w == Upto(audio, Append(r, x))
           d == Form!Delimiter
           n == Len(body)
           p == Len(u) + 1
<1>1. u \in Seq(Token) /\ w = u \o e
  BY UptoGrows DEF UptoBy
<1>2. FieldIs(e, x) /\ Len(x[2]) \in Nat
  BY FieldShape, LenProperties DEF Fielded, Clean
<1>3. d \in Seq(Token) /\ Len(d) = 2 /\ d[1] = "--" /\ d[2] = "B"
  BY DelimiterIs
<1>4. e \in Seq(Token) /\ e[1] = "--" /\ e[2] = "B" /\ Len(e) = Len(x[2]) + 7
  BY <1>2 DEF FieldIs
<1>5. n \in Nat /\ Len(u) \in Nat
  BY <1>1, LenProperties
<1>6. Fits(body, w \o d)
  OBVIOUS
<1> HIDE DEF u, e, w, d, n
<1>7. w \in Seq(Token)
  BY <1>1, <1>4, ConcatProperties
<1>8. Fits(body, w)
  BY <1>3, <1>5, <1>6, <1>7, FitsBoth DEF n
<1>9. Fits(body, u) /\ Stands(body, p, e)
  BY <1>1, <1>4, <1>5, <1>8, FitsBoth DEF n
<1>10. Stands(body, p, d)
  <2>1. p + Len(e) <= n + 1 /\ \A j \in 1..Len(e) : body[p + j - 1] = e[j]
    BY <1>9 DEF Stands, n
  <2> HIDE DEF p
  <2>2. p \in Nat
    BY <1>5 DEF p
  <2>3. p + 2 <= n + 1 /\ 1 \in 1..Len(e) /\ 2 \in 1..Len(e)
    BY <1>2, <1>4, <1>5, <2>1, <2>2
  <2>4. body[p + 1 - 1] = d[1] /\ body[p + 2 - 1] = d[2]
    BY <1>3, <1>4, <2>1, <2>3
  <2>5. \A j \in 1..2 : j = 1 \/ j = 2
    OBVIOUS
  <2>6. \A j \in 1..2 : body[p + j - 1] = d[j]
    BY <2>4, <2>5
  <2> QED BY <1>3, <2>3, <2>6 DEF Stands, n
<1>11. Fits(body, u \o d)
  BY <1>1, <1>3, <1>5, <1>9, <1>10, FitsBoth DEF n
<1> QED BY <1>11 DEF u, d

LEMMA FoundAll ==
  ASSUME NEW body \in Seq(Token), NEW audio \in Seq(Token), NEW S,
         Fielded \subseteq S, <<"file", audio>> \in S, NEW f, PartsFrom(body, f, S),
         Found(f, audio, <<>>), NEW r \in Seq(Fielded),
         Fits(body, Upto(audio, r) \o Form!Delimiter)
  PROVE  Found(f, audio, r)
<1> DEFINE T == {s \in Seq(Fielded) :
                   Fits(body, Upto(audio, s) \o Form!Delimiter) => Found(f, audio, s)}
<1>1. <<>> \in T
  BY EmptySeq
<1>2. ASSUME NEW s \in Seq(Fielded), NEW x \in Fielded, s \in T PROVE Append(s, x) \in T
  <2>1. Append(s, x) \in Seq(Fielded)
    BY AppendProperties
  <2>2. ASSUME Fits(body, Upto(audio, Append(s, x)) \o Form!Delimiter)
        PROVE  Found(f, audio, Append(s, x))
    <3>1. Found(f, audio, s)
      BY <1>2, <2>2, FitsLess
    <3> QED BY <2>2, <3>1, FoundOn
  <2> QED BY <2>1, <2>2
<1> HIDE DEF T
<1>3. \A s \in Seq(Fielded) : s \in T
  BY <1>1, <1>2, SeqInduction
<1> QED BY <1>3 DEF T

\* The audio was found, and what is behind it is left.
FileFound(f, audio) == f[1] = <<<<"file", audio>>>> \o f[Len(audio) + 10]

LEMMA UptoNone == ASSUME NEW audio \in Seq(Token) PROVE Upto(audio, <<>>) = FilePart(audio)
<1> DEFINE h == FilePart(audio)
<1>1. h \in Seq(Token)
  BY FileShape DEF FileIs
<1>2. Form!Written(<<>>) = <<>>
  <2>1. [i \in DOMAIN <<>> |-> Form!MultipartField(<<>>[i][1], <<>>[i][2])] = <<>>
    OBVIOUS
  <2>2. Form!FlattenSeq(<<>>) = <<>>
    BY FlattenEmpty DEF FlattenSeq, Form!FlattenSeq
  <2> QED BY <2>1, <2>2 DEF Form!Written
<1> HIDE DEF h
<1>3. h \o <<>> = h
  BY <1>1, ConcatEmptySeq
<1> QED BY <1>2, <1>3 DEF Upto, h

LEMMA FoundNone ==
  ASSUME NEW audio \in Seq(Token), NEW f, FileFound(f, audio) PROVE Found(f, audio, <<>>)
<1> DEFINE fe == <<"file", audio>>
<1>1. Len(Upto(audio, <<>>)) + 1 = Len(audio) + 10
  <2>1. Len(FilePart(audio)) = Len(audio) + 9 /\ Len(audio) \in Nat
    BY FileShape, LenProperties DEF FileIs
  <2> QED BY <2>1, UptoNone
<1> HIDE DEF fe
<1>2. <<fe>> \o <<>> = <<fe>>
  <2>1. <<fe>> \in Seq({fe})
    OBVIOUS
  <2> QED BY <2>1, ConcatEmptySeq
<1> QED BY <1>1, <1>2 DEF Found, FileFound, fe

\* An upload that holds the audio, up to the delimiter behind it.
Frame(body, audio) ==
  /\ Len(audio) + 11 <= Len(body)
  /\ body[1] = "--" /\ body[2] = "B" /\ body[3] = "NL" /\ body[4] = "file"
  /\ body[5] = "NL" /\ body[6] = "type" /\ body[7] = "NL" /\ body[8] = "NL"
  /\ \A i \in 1..Len(audio) : body[8 + i] = audio[i]
  /\ body[Len(audio) + 9] = "NL"
  /\ body[Len(audio) + 10] = "--" /\ body[Len(audio) + 11] = "B"

LEMMA FrameIs ==
  ASSUME NEW body \in Seq(Token), NEW audio \in Seq(Token),
         Fits(body, FilePart(audio) \o Form!Delimiter)
  PROVE  Frame(body, audio)
<1> DEFINE h == FilePart(audio)
           d == Form!Delimiter
           a == Len(audio)
           l == Len(body)
<1>1. /\ h \in Seq(Token) /\ Len(h) = a + 9
      /\ h[1] = "--" /\ h[2] = "B" /\ h[3] = "NL" /\ h[4] = "file" /\ h[5] = "NL"
      /\ h[6] = "type" /\ h[7] = "NL" /\ h[8] = "NL"
      /\ \A i \in 1..a : h[8 + i] = audio[i]
      /\ h[a + 9] = "NL"
  BY FileShape DEF FileIs
<1>2. d \in Seq(Token) /\ Len(d) = 2 /\ d[1] = "--" /\ d[2] = "B"
  BY DelimiterIs
<1>3. a \in Nat /\ l \in Nat
  BY LenProperties
<1>4. Fits(body, h \o d)
  OBVIOUS
<1> HIDE DEF h, d, l
<1>5. Fits(body, h) /\ Stands(body, Len(h) + 1, d)
  BY <1>1, <1>2, <1>3, <1>4, FitsBoth DEF l
<1> HIDE DEF a
<1>6. /\ a + 9 + 1 + 2 <= l + 1 /\ \A i \in 1..(a + 9) : body[i] = h[i]
      /\ \A j \in 1..2 : body[a + 9 + 1 + j - 1] = d[j]
  BY <1>1, <1>2, <1>5 DEF Fits, Stands, l
<1>7. /\ a + 11 <= l /\ a + 9 + 1 + 1 - 1 = a + 10 /\ a + 9 + 1 + 2 - 1 = a + 11
      /\ 1 \in 1..2 /\ 2 \in 1..2 /\ a + 9 \in 1..(a + 9)
      /\ 1 \in 1..(a + 9) /\ 2 \in 1..(a + 9) /\ 3 \in 1..(a + 9) /\ 4 \in 1..(a + 9)
      /\ 5 \in 1..(a + 9) /\ 6 \in 1..(a + 9) /\ 7 \in 1..(a + 9) /\ 8 \in 1..(a + 9)
  BY <1>3, <1>6
<1>8. body[a + 10] = "--" /\ body[a + 11] = "B"
  <2>1. body[a + 9 + 1 + 1 - 1] = d[1] /\ body[a + 9 + 1 + 2 - 1] = d[2]
    BY <1>6, <1>7
  <2> QED BY <1>2, <1>7, <2>1
<1>9. /\ body[1] = "--" /\ body[2] = "B" /\ body[3] = "NL" /\ body[4] = "file"
      /\ body[5] = "NL" /\ body[6] = "type" /\ body[7] = "NL" /\ body[8] = "NL"
      /\ body[a + 9] = "NL"
  BY <1>1, <1>6, <1>7
<1>10. \A i \in 1..a : body[8 + i] = audio[i]
  <2> TAKE i \in 1..a
  <2>1. 8 + i \in 1..(a + 9)
    BY <1>3
  <2> QED BY <1>1, <1>6, <2>1
<1> QED BY <1>7, <1>8, <1>9, <1>10 DEF Frame, a, l

LEMMA HasDelimiterIs ==
  ASSUME NEW audio \in Seq(Token) PROVE HasDelimiter(audio) <=> \E i : CutAt(audio, i)
<1>1. \A i \in 1..(Len(audio) - 1) :
         SubSeq(audio, i, i + 1) = Form!Delimiter <=> Line(audio, i)
  BY LineIs
<1> QED BY <1>1 DEF HasDelimiter, CutAt

\* Without a delimiter the audio is the first part.
LEMMA FileTaken ==
  ASSUME NEW body \in Seq(Token), NEW audio \in Seq(Token), Frame(body, audio),
         NEW S, NEW f, PartsFrom(body, f, S), ~HasDelimiter(audio)
  PROVE  FileFound(f, audio)
<1> DEFINE a == Len(audio)
           l == Len(body)
           to == a + 10
           e == to - 1
<1>1. a \in Nat /\ l \in Nat
  BY LenProperties
<1>2. \A i : ~CutAt(audio, i)
  BY HasDelimiterIs
<1>3. /\ a + 11 <= l
      /\ body[1] = "--" /\ body[2] = "B" /\ body[3] = "NL" /\ body[4] = "file"
      /\ body[5] = "NL" /\ body[6] = "type" /\ body[7] = "NL" /\ body[8] = "NL"
      /\ \A i \in 1..a : body[8 + i] = audio[i]
      /\ body[a + 9] = "NL" /\ body[a + 10] = "--" /\ body[a + 11] = "B"
  BY DEF Frame
<1>4. \A i \in 1..(a - 1) : Line(audio, i) => i > 1 /\ audio[i - 1] # "NL"
  BY <1>2 DEF CutAt
<1> HIDE DEF a, l
<1>5. CutAt(body, to)
  <2>1. to \in 1..(l - 1) /\ to + 1 = a + 11 /\ to - 1 = a + 9
    BY <1>1, <1>3
  <2> QED BY <1>3, <2>1 DEF CutAt, Line, l
<1>6. ASSUME NEW i \in 2..(to - 1), Line(body, i), body[i - 1] = "NL" PROVE FALSE
  <2>1. CASE i <= 8
    <3>1. i = 2 \/ i = 3 \/ i = 4 \/ i = 5 \/ i = 6 \/ i = 7 \/ i = 8
      BY <2>1
    <3> QED BY <1>3, <1>6, <3>1 DEF Line
  <2>2. CASE i > 8 /\ i < a + 9
    <3> DEFINE j == i - 8
    <3>1. j \in 1..a /\ 8 + j = i /\ j + 1 = i - 7 /\ j = i - 8
      BY <1>1, <2>2
    <3> HIDE DEF j
    <3>2. body[8 + j] = "--" /\ body[i + 1] = "B" /\ audio[j] = "--"
      BY <1>3, <1>6, <3>1 DEF Line
    <3>3. CASE j = a
      <4>1. i + 1 = a + 9
        BY <3>1, <3>3, <1>1
      <4> QED BY <1>3, <3>2, <4>1
    <3>4. CASE j < a
      <4>1. j + 1 \in 1..a /\ 8 + (j + 1) = i + 1 /\ j \in 1..(a - 1)
        BY <1>1, <3>1, <3>4
      <4>2. audio[j + 1] = "B"
        BY <1>3, <3>2, <4>1
      <4>3. j > 1 /\ audio[j - 1] # "NL"
        BY <1>4, <3>2, <4>1, <4>2 DEF Line
      <4>4. j - 1 \in 1..a /\ 8 + (j - 1) = i - 1
        BY <1>1, <3>1, <4>3
      <4>5. body[8 + (j - 1)] = audio[j - 1]
        BY <1>3, <4>4
      <4> QED BY <1>6, <4>3, <4>4, <4>5
    <3> QED BY <1>1, <3>1, <3>3, <3>4
  <2>3. CASE i = a + 9
    BY <1>3, <1>6, <2>3 DEF Line
  <2> QED BY <1>1, <2>1, <2>2, <2>3
<1>7. f[1] = <<PartAt(body, 1, to - 1)>> \o f[to]
  <2>1. \A i \in (1 + 1)..(to - 1) : ~CutAt(body, i)
    <3> TAKE i \in (1 + 1)..(to - 1)
    <3>1. i \in 2..(to - 1) /\ i > 1
      BY <1>1
    <3> QED BY <1>6, <3>1 DEF CutAt
  <2>2. 1 \in 1..Len(body) /\ to \in Nat /\ 1 < to
    BY <1>1, <1>3 DEF l
  <2> HIDE DEF to
  <2> QED BY <1>5, <2>1, <2>2, PartTaken
<1>8. PartAt(body, 1, e) = <<"file", audio>>
  <2> DEFINE b == e - 1
             s == SubSeq(body, 9, b)
  <2>1. e = a + 9 /\ b = a + 8 /\ e \in 1..Len(body) /\ 7 \in 1..(e - 1) /\ b <= Len(body)
    BY <1>1, <1>3 DEF l
  <2>2. \A i \in 1..(7 - 1) : body[i] # "NL" \/ body[i + 1] # "NL"
    <3> TAKE i \in 1..(7 - 1)
    <3>1. i = 1 \/ i = 2 \/ (i = 3 /\ i + 1 = 4) \/ i = 4 \/ (i = 5 /\ i + 1 = 6) \/ i = 6
      OBVIOUS
    <3> QED BY <1>3, <3>1
  <2>3. 1 \in 1..Len(body) /\ 7 + 1 = 8 /\ 7 + 2 = 9 /\ 1 + 3 = 4
    BY <1>1, <1>3 DEF l
  <2> HIDE DEF e
  <2>4. PartAt(body, 1, e) = <<body[1 + 3], SubSeq(body, 7 + 2, e - 1)>>
    BY <1>3, <2>1, <2>2, <2>3, PartIs
  <2>5. Cut(Token, s, body, 9, b)
    <3>1. 9 \in Nat \ {0} /\ b \in Nat /\ b <= Len(body) /\ 9 <= b + 1
      BY <1>1, <2>1
    <3> HIDE DEF b
    <3> QED BY <3>1, CutIs
  <2> HIDE DEF s, b
  <2>6. s \in Seq(Token) /\ Len(s) = a /\ \A i \in 1..a : s[i] = audio[i]
    <3>1. b - 9 + 1 = a
      BY <1>1, <2>1
    <3>2. s \in Seq(Token) /\ Len(s) = a /\ \A i \in 1..a : s[i] = body[9 + i - 1]
      BY <2>5, <3>1 DEF Cut
    <3>3. \A i \in 1..a : s[i] = audio[i]
      <4> TAKE i \in 1..a
      <4>1. 9 + i - 1 = 8 + i
        BY <1>1
      <4> QED BY <1>3, <3>2, <4>1
    <3> QED BY <3>2, <3>3
  <2>7. s = audio
    BY <2>6, SeqEqual DEF a
  <2> QED BY <1>3, <2>3, <2>4, <2>7 DEF s, b
<1> QED BY <1>7, <1>8 DEF FileFound, a

\* With a delimiter it is cut there, and no part is the audio.
LEMMA FileSplit ==
  ASSUME NEW body \in Seq(Token), NEW audio \in Seq(Token), Frame(body, audio),
         NEW S, NEW f, PartsFrom(body, f, S), HasDelimiter(audio)
  PROVE  f[1] # <<>> /\ f[1][1] # <<"file", audio>>
<1> DEFINE a == Len(audio)
           l == Len(body)
           t == Min(Behind(body, 1))
           e == t - 1
           x == PartAt(body, 1, e)
<1>1. a \in Nat /\ l \in Nat
  BY LenProperties
<1>2. PICK j : CutAt(audio, j)
  BY HasDelimiterIs
<1>3. /\ j \in 1..(a - 1) /\ audio[j] = "--" /\ audio[j + 1] = "B"
      /\ j > 1 => audio[j - 1] = "NL"
  BY <1>2 DEF CutAt, Line
<1>4. /\ a + 11 <= l
      /\ body[1] = "--" /\ body[2] = "B" /\ body[3] = "NL" /\ body[4] = "file"
      /\ body[5] = "NL" /\ body[6] = "type" /\ body[7] = "NL" /\ body[8] = "NL"
      /\ \A i \in 1..a : body[8 + i] = audio[i]
  BY DEF Frame
<1> HIDE DEF a, l
<1> DEFINE c == 8 + j
<1>5. CutAt(body, c)
  <2>1. c \in 1..(l - 1) /\ j \in 1..a /\ j + 1 \in 1..a /\ c + 1 = 8 + (j + 1)
    BY <1>1, <1>3, <1>4
  <2>2. body[c] = "--" /\ body[c + 1] = "B"
    BY <1>3, <1>4, <2>1
  <2>3. body[c - 1] = "NL"
    <3>1. CASE j = 1
      <4>1. c - 1 = 8
        BY <3>1
      <4> QED BY <1>4, <4>1
    <3>2. CASE j > 1
      <4>1. j - 1 \in 1..a /\ c - 1 = 8 + (j - 1)
        BY <1>1, <1>3, <3>2
      <4> QED BY <1>3, <1>4, <3>2, <4>1
    <3> QED BY <1>3, <3>1, <3>2
  <2> QED BY <2>1, <2>2, <2>3 DEF CutAt, Line, l
<1>6. Behind(body, 1) # {} /\ t \in 2..(l - 1) /\ t <= a + 7
  <2>1. c \in Nat /\ c > 1 /\ c <= a + 7
    BY <1>1, <1>3
  <2>2. c \in Cuts(body)
    BY <1>5, CutsAre
  <2> HIDE DEF c
  <2>3. Behind(body, 1) # {}
    BY <2>1, <2>2 DEF Behind
  <2>4. t \in (1 + 1)..(l - 1) /\ \A i \in Cuts(body) : i > 1 => t <= i
    BY <1>1, <2>3, BehindIs DEF l
  <2> HIDE DEF t
  <2>5. t <= c
    BY <2>1, <2>2, <2>4
  <2> QED BY <1>1, <2>1, <2>3, <2>4, <2>5
<1>7. f[1] = <<x>> \o f[t] /\ f[t] \in Seq(S) /\ f[1] \in Seq(S)
  <2>1. 1 \in 1..Len(body) /\ t \in 1..Len(body)
    BY <1>1, <1>4, <1>6 DEF l
  <2> HIDE DEF t
  <2>2. f[1] = PartsBody(body, f, 1) /\ f[1] \in Seq(S) /\ f[t] \in Seq(S)
    BY <2>1 DEF PartsFrom
  <2> QED BY <1>6, <2>2 DEF PartsBody, t
<1> HIDE DEF x, t, c
<1>8. f[1] # <<>> /\ f[1][1] = x
  <2> DEFINE R == S \cup {x}
             g == f[t]
             b == <<x>>
  <2>1. g \in Seq(R)
    <3>1. S \subseteq R
      OBVIOUS
    <3> HIDE DEF R
    <3> QED BY <1>7, <3>1, Widened
  <2>2. b \in Seq(R) /\ Len(b) = 1 /\ b[1] = x
    OBVIOUS
  <2> HIDE DEF R, g, b
  <2>3. Joined(R, b \o g, b, g)
    BY <2>1, <2>2, TwoParts
  <2>4. Len(b \o g) = 1 + Len(g) /\ Len(g) \in Nat /\ (b \o g)[1] = b[1]
    <3>1. 1 \in 1..1
      OBVIOUS
    <3> QED BY <2>1, <2>2, <2>3, <3>1, LenProperties DEF Joined
  <2>5. f[1] = b \o g
    BY <1>7 DEF b, g
  <2>6. Len(f[1]) # 0 /\ f[1][1] = x
    BY <2>2, <2>4, <2>5
  <2>7. f[1] # <<>>
    BY <2>6
  <2> QED BY <2>6, <2>7
<1>9. x # <<"file", audio>>
  <2> DEFINE T == {i \in 1..(e - 1) : body[i] = "NL" /\ body[i + 1] = "NL"}
  <2>1. x = IF T = {} THEN <<"malformed", <<>>>>
            ELSE <<body[1 + 3], SubSeq(body, Min(T) + 2, e - 1)>>
    BY DEF PartAt, x
  <2>2. \A i \in T : i >= 7 /\ i \in Nat /\ i <= e - 1
    <3> SUFFICES ASSUME NEW i \in T, i < 7 PROVE FALSE
      OBVIOUS
    <3>1. i = 1 \/ i = 2 \/ (i = 3 /\ i + 1 = 4) \/ i = 4 \/ (i = 5 /\ i + 1 = 6) \/ i = 6
      OBVIOUS
    <3> QED BY <1>4, <3>1
  <2>3. CASE T = {}
    <3>1. x = <<"malformed", <<>>>>
      BY <2>1, <2>3
    <3>2. x[1] = "malformed" /\ <<"file", audio>>[1] = "file" /\ "malformed" # "file"
      BY <3>1
    <3> QED BY <3>2
  <2>4. CASE T # {}
    <3>1. Min(T) \in T
      <4>1. T \subseteq Nat
        BY <2>2
      <4> HIDE DEF T
      <4> QED BY <2>4, <4>1, FirstIs
    <3> DEFINE m == Min(T) + 2
               n == e - 1
               s == SubSeq(body, m, n)
    <3>2. x = <<body[1 + 3], s>>
      BY <2>1, <2>4
    <3>3. m \in Nat \ {0} /\ m >= 9 /\ n \in Nat /\ n <= Len(body) /\ m <= n + 2 /\ n <= a + 5
      <4>1. Min(T) >= 7 /\ Min(T) \in Nat /\ Min(T) <= e - 1
        BY <2>2, <3>1
      <4> DEFINE k == Min(T)
      <4> HIDE DEF T, k
      <4>2. k >= 7 /\ k \in Nat /\ k <= e - 1 /\ m = k + 2
        BY <4>1 DEF k
      <4> QED BY <1>1, <1>4, <1>6, <4>2 DEF l
    <3> HIDE DEF T, m, n, e
    <3>4. Len(s) < a
      <4>1. CASE m <= n + 1
        <5>1. Cut(Token, s, body, m, n)
          BY <3>3, <4>1, CutIs
        <5>2. Len(s) = n - m + 1
          BY <5>1 DEF Cut
        <5> QED BY <1>1, <3>3, <5>2
      <4>2. CASE m = n + 2
        <5>1. s = <<>>
          BY <3>3, <4>2, SubSeqEmpty
        <5>2. Len(s) = 0
          BY <5>1
        <5> QED BY <1>1, <1>3, <5>2
      <4> QED BY <3>3, <4>1, <4>2
    <3>5. s # audio
      <4> HIDE DEF s
      <4> QED BY <1>1, <3>4 DEF a
    <3> HIDE DEF s
    <3>6. x[2] = s /\ <<"file", audio>>[2] = audio
      BY <3>2
    <3> QED BY <3>5, <3>6
  <2> QED BY <2>3, <2>4
<1> QED BY <1>8, <1>9

\* Behind the last delimiter nothing is cut.
UploadOf(audio, r) == (Upto(audio, r) \o Form!Delimiter) \o <<"--", "NL">>

LEMMA UploadFits ==
  ASSUME NEW audio \in Seq(Token), NEW r \in Seq(Fielded), NEW body, body = UploadOf(audio, r)
  PROVE  /\ body \in Seq(Token) /\ Upto(audio, r) \in Seq(Token)
         /\ Fits(body, Upto(audio, r) \o Form!Delimiter)
         /\ Len(body) = Len(Upto(audio, r)) + 4
         /\ body[Len(Upto(audio, r)) + 2] = "B"
         /\ body[Len(Upto(audio, r)) + 4] = "NL"
<1> DEFINE u == Upto(audio, r)
           d == Form!Delimiter
           z == <<"--", "NL">>
           w == u \o d
           m == Len(u)
<1>1. u \in Seq(Token)
  <2>1. FilePart(audio) \in Seq(Token)
    BY FileShape DEF FileIs
  <2>2. Form!Written(r) \in Seq(Token)
    <3>1. PICK y \in Fielded : TRUE
      <4>1. <<"model", <<>>>> \in Fielded
        <5> DEFINE y == <<"model", <<>>>>
        <5>1. "model" \in Token /\ <<>> \in Seq(Token) /\ "model" \notin {"--", "NL"}
          BY EmptySeq DEF Token
        <5>2. y \in Token \X Seq(Token) /\ y[1] = "model" /\ y[2] = <<>> /\ Len(<<>>) = 0
          BY <5>1
        <5> HIDE DEF y
        <5>3. Clean(y)
          BY <5>1, <5>2 DEF Clean
        <5> QED BY <5>2, <5>3 DEF Fielded, y
      <4> QED BY <4>1
    <3> QED BY <3>1, WrittenGrows
  <2> QED BY <2>1, <2>2, ConcatProperties DEF Upto
<1>2. d \in Seq(Token) /\ Len(d) = 2 /\ d[1] = "--" /\ d[2] = "B"
  BY DelimiterIs
<1>3. z \in Seq(Token) /\ Len(z) = 2 /\ z[1] = "--" /\ z[2] = "NL"
  <2>1. "--" \in Token /\ "NL" \in Token
    BY DEF Token
  <2> QED BY <2>1, OfTwo
<1>4. body = w \o z
  BY DEF UploadOf
<1>5. m \in Nat
  BY <1>1, LenProperties
<1> HIDE DEF u, d, z
<1>6. Joined(Token, w, u, d)
  BY <1>1, <1>2, TwoParts
<1> HIDE DEF w, m
<1>7. w \in Seq(Token) /\ Len(w) = m + 2 /\ \A i \in 1..2 : w[m + i] = d[i]
  BY <1>2, <1>6 DEF Joined, m
<1>8. Joined(Token, body, w, z)
  BY <1>3, <1>4, <1>7, TwoParts
<1>9. /\ body \in Seq(Token) /\ Len(body) = (m + 2) + 2
      /\ \A i \in 1..Len(w) : body[i] = w[i]
      /\ \A i \in 1..2 : body[(m + 2) + i] = z[i]
  BY <1>3, <1>7, <1>8 DEF Joined
<1>10. /\ (m + 2) + 2 = m + 4 /\ 2 \in 1..2 /\ m + 2 \in 1..(m + 2)
  BY <1>5
<1>11. Fits(body, w)
  <2>1. Len(w) <= Len(body)
    BY <1>5, <1>7, <1>9
  <2> QED BY <1>9, <2>1 DEF Fits
<1>12. body[m + 2] = "B" /\ body[m + 4] = "NL" /\ Len(body) = m + 4
  <2>1. body[m + 2] = w[m + 2] /\ w[m + 2] = d[2] /\ body[(m + 2) + 2] = z[2]
    BY <1>7, <1>9, <1>10
  <2> QED BY <1>2, <1>3, <1>9, <1>10, <2>1
<1> QED BY <1>1, <1>9, <1>11, <1>12 DEF u, w, d, m

LEMMA FitsNone ==
  ASSUME NEW body \in Seq(Token), NEW audio \in Seq(Token), NEW r \in Seq(Fielded),
         Fits(body, Upto(audio, r) \o Form!Delimiter)
  PROVE  Fits(body, Upto(audio, <<>>) \o Form!Delimiter)
<1> DEFINE F(s) == Fits(body, Upto(audio, s) \o Form!Delimiter)
           T == {s \in Seq(Fielded) : F(s) => F(<<>>)}
<1>1. <<>> \in T
  BY EmptySeq
<1>2. ASSUME NEW s \in Seq(Fielded), NEW x \in Fielded, s \in T PROVE Append(s, x) \in T
  <2>1. Append(s, x) \in Seq(Fielded)
    BY AppendProperties
  <2>2. F(Append(s, x)) => F(s)
    BY FitsLess
  <2> HIDE DEF F
  <2> QED BY <1>2, <2>1, <2>2
<1> HIDE DEF T
<1>3. \A s \in Seq(Fielded) : s \in T
  BY <1>1, <1>2, SeqInduction
<1> QED BY <1>3 DEF T

\* The parts of an upload are its audio and its fields when the audio holds no
\* delimiter, and only then.
LEMMA UploadParts ==
  ASSUME NEW audio \in Seq(Token), NEW r \in Seq(Fielded), NEW body, body = UploadOf(audio, r)
  PROVE  Parts(body) = <<<<"file", audio>>>> \o r <=> ~HasDelimiter(audio)
<1> DEFINE fe == <<"file", audio>>
           all == {PartAt(body, i, j) : i \in 1..Len(body), j \in 0..Len(body)}
           S == all \cup (Fielded \cup {fe})
           l == Len(body)
           m == Len(Upto(audio, r))
<1>1. /\ body \in Seq(Token) /\ Fits(body, Upto(audio, r) \o Form!Delimiter)
      /\ Upto(audio, r) \in Seq(Token)
      /\ l = m + 4 /\ body[m + 2] = "B" /\ body[m + 4] = "NL"
  BY UploadFits
<1>2. l \in Nat /\ m \in Nat
  BY <1>1, LenProperties
<1>3. \A i \in 1..Len(body), j \in 0..Len(body) : PartAt(body, i, j) \in S
  OBVIOUS
<1>4. Fielded \subseteq S /\ fe \in S
  <2> HIDE DEF all, fe, Fielded
  <2> QED OBVIOUS
<1> HIDE DEF S
<1>5. PICK f : PartsFrom(body, f, S) /\ Parts(body) = f[Min(Cuts(body))]
  BY <1>2, <1>3, PartsGiven
<1>6. Frame(body, audio)
  <2>1. Fits(body, Upto(audio, <<>>) \o Form!Delimiter)
    BY <1>1, FitsNone
  <2> QED BY <1>1, <2>1, UptoNone, FrameIs
<1>7. Min(Cuts(body)) = 1
  <2>1. CutAt(body, 1)
    <3>1. 1 \in 1..(Len(body) - 1)
      BY <1>2, <1>1
    <3>2. 1 + 1 = 2 /\ ~(1 > 1)
      OBVIOUS
    <3> QED BY <1>6, <3>1, <3>2 DEF CutAt, Line, Frame
  <2>2. 1 \in Cuts(body) /\ Cuts(body) \subseteq Int /\ \A i \in Cuts(body) : 1 <= i
    <3>1. \A i \in Cuts(body) : i \in 1..(Len(body) - 1)
      BY DEF Cuts
    <3>2. \A i \in Cuts(body) : i \in Int /\ 1 <= i
      BY <1>2, <3>1
    <3> QED BY <1>1, <2>1, <3>2, CutsAre
  <2> QED BY <2>2, MinIs
<1>8. f[m + 1] = <<>>
  <2> DEFINE p == m + 1
  <2>1. ASSUME NEW i \in Behind(body, p) PROVE FALSE
    <3>1. CutAt(body, i) /\ i > p
      BY <1>1, <2>1, CutsAre DEF Behind
    <3>2. i = m + 2 \/ (i = m + 3 /\ i + 1 = m + 4)
      BY <1>1, <1>2, <3>1 DEF CutAt
    <3> QED BY <1>1, <3>1, <3>2 DEF CutAt, Line
  <2>2. p \in 1..Len(body)
    BY <1>1, <1>2
  <2> HIDE DEF p
  <2>3. f[p] = <<>>
    BY <1>5, <2>1, <2>2 DEF PartsFrom, PartsBody
  <2> QED BY <2>3 DEF p
<1>9. ASSUME ~HasDelimiter(audio) PROVE f[1] = <<fe>> \o r
  <2>1. FileFound(f, audio)
    BY <1>1, <1>5, <1>6, <1>9, FileTaken
  <2>2. Found(f, audio, <<>>)
    BY <2>1, FoundNone
  <2>3. Found(f, audio, r)
    <3>1. <<"file", audio>> \in S
      BY <1>4
    <3> HIDE DEF fe
    <3> QED BY <1>1, <1>4, <1>5, <2>2, <3>1, FoundAll
  <2>4. f[1] = (<<fe>> \o r) \o <<>>
    BY <1>8, <2>3 DEF Found
  <2>5. <<fe>> \o r \in Seq(S)
    <3> HIDE DEF fe, Fielded
    <3>1. r \in Seq(S) /\ <<fe>> \in Seq(S)
      BY <1>4, Widened
    <3> QED BY <3>1, ConcatProperties
  <2> HIDE DEF fe
  <2>6. (<<fe>> \o r) \o <<>> = <<fe>> \o r
    BY <2>5, ConcatEmptySeq
  <2> QED BY <2>4, <2>6
<1>10. ASSUME HasDelimiter(audio) PROVE f[1] # <<fe>> \o r
  <2>1. f[1][1] # fe
    BY <1>1, <1>5, <1>6, <1>10, FileSplit
  <2> HIDE DEF fe
  <2>2. (<<fe>> \o r)[1] = fe
    <3> DEFINE R == Fielded \cup {fe}
               b == <<fe>>
    <3>1. b \in Seq(R) /\ Len(b) = 1 /\ b[1] = fe
      OBVIOUS
    <3>2. r \in Seq(R)
      <4>1. Fielded \subseteq R
        OBVIOUS
      <4> HIDE DEF R
      <4> QED BY <4>1, Widened
    <3> HIDE DEF R, b
    <3>3. Joined(R, b \o r, b, r)
      BY <3>1, <3>2, TwoParts
    <3>4. 1 \in 1..1
      OBVIOUS
    <3>5. (b \o r)[1] = b[1]
      BY <3>1, <3>3, <3>4 DEF Joined
    <3> QED BY <3>1, <3>5 DEF b
  <2> QED BY <2>1, <2>2
<1> QED BY <1>5, <1>7, <1>9, <1>10

----------------------------------------------------------------------------

\* What a client sends in a field.
Name(s) == s \in Seq(STRING) /\ \A i \in DOMAIN s : s[i] \notin {"--", "NL"}

LEMMA NameIs == ASSUME NEW n \in {"model", "language"}, NEW s, Name(s) PROVE <<n, s>> \in Fielded
<1>1. STRING \subseteq Token /\ n \in Token /\ n \notin {"--", "NL"}
  BY DEF Token
<1>2. s \in Seq(Token)
  BY <1>1, Widened DEF Name
<1>3. \A i \in 1..Len(s) : s[i] \notin {"--", "NL"}
  BY <1>2, LenProperties DEF Name
<1> QED BY <1>1, <1>2, <1>3 DEF Fielded, Clean

LEMMA LiteralIs ==
  ASSUME NEW n \in {"response_format", "granularities"},
         NEW v \in {"verbose_json", "word", "segment"}
  PROVE  <<n, <<v>>>> \in Fielded
<1>1. n \in Token /\ v \in Token /\ n \notin {"--", "NL"} /\ v \notin {"--", "NL"}
  BY DEF Token
<1>2. <<v>> \in Seq(Token) /\ Len(<<v>>) = 1 /\ \A i \in 1..1 : <<v>>[i] = v
  BY <1>1
<1> QED BY <1>1, <1>2 DEF Fielded, Clean

LEMMA FieldsAre ==
  ASSUME NEW u, Name(u.model), Name(u.languageHint), u.wordTimestamps \in BOOLEAN
  PROVE  Form!Fields(u) \in Seq(Fielded)
<1>1. /\ <<"model", u.model>> \in Fielded
      /\ <<"language", u.languageHint>> \in Fielded
  BY NameIs
<1>2. /\ <<"response_format", <<"verbose_json">>>> \in Fielded
      /\ <<"granularities", <<"word">>>> \in Fielded
      /\ <<"granularities", <<"segment">>>> \in Fielded
  BY LiteralIs
<1> DEFINE a == IF u.model = <<>> THEN <<>> ELSE <<<<"model", u.model>>>>
           b == <<<<"response_format", <<"verbose_json">>>>>>
           c == IF u.languageHint = <<>> THEN <<>> ELSE <<<<"language", u.languageHint>>>>
           d == IF u.wordTimestamps
                THEN <<<<"granularities", <<"word">>>>, <<"granularities", <<"segment">>>>>>
                ELSE <<>>
<1>3. \A x \in Fielded : <<x>> \in Seq(Fielded)
  OBVIOUS
<1>4. \A x, y \in Fielded : <<x, y>> \in Seq(Fielded)
  OBVIOUS
<1>5. <<>> \in Seq(Fielded)
  BY EmptySeq
<1> HIDE DEF Fielded
<1>6. a \in Seq(Fielded)
  BY <1>1, <1>3, <1>5
<1>7. b \in Seq(Fielded)
  BY <1>2, <1>3
<1>8. c \in Seq(Fielded)
  BY <1>1, <1>3, <1>5
<1>9. d \in Seq(Fielded)
  BY <1>2, <1>4, <1>5
<1>10. Form!Fields(u) = ((a \o b) \o c) \o d
  BY DEF Form!Fields
<1> HIDE DEF a, b, c, d
<1> QED BY <1>6, <1>7, <1>8, <1>9, <1>10, ConcatProperties

\* An upload is taken apart into what it was made of exactly when its audio
\* holds no delimiter.
LEMMA UploadTaken ==
  ASSUME NEW u, u.audio \in Seq(STRING), Name(u.model), Name(u.languageHint),
         u.wordTimestamps \in BOOLEAN
  PROVE  Parts(Form!Body(u)) = <<<<"file", u.audio>>>> \o Form!Fields(u)
           <=> ~HasDelimiter(u.audio)
<1>1. u.audio \in Seq(Token)
  <2>1. STRING \subseteq Token
    BY DEF Token
  <2> QED BY <2>1, Widened
<1>2. Form!Fields(u) \in Seq(Fielded)
  BY FieldsAre
<1>3. Form!Body(u) = UploadOf(u.audio, Form!Fields(u))
  BY DEF Form!Body, UploadOf, Upto, FilePart
<1> QED BY <1>1, <1>2, <1>3, UploadParts

----------------------------------------------------------------------------

\* What was sent is of its kind, the wire holds what the source is encoded as
\* or a part of it, and a result is what the wire is decoded to.
Sourced ==
  \/ kind = "string" /\ source \in Strings
  \/ kind = "escape" /\ source \in Points
  \/ kind = "base64" /\ source \in Payloads \X Blanks
  \/ kind = "code" /\ source \in Codes
  \/ kind = "upload" /\ source \in Uploads

Shortened ==
  /\ kind \in {"string", "base64"}
  /\ \E n \in 0..(Len(Encoded) - 1) : wire = SubSeq(Encoded, 1, n)

PayloadInv ==
  /\ Sourced
  /\ state \in {"source", "wire", "read"} /\ cut \in BOOLEAN
  /\ state = "source" => ~cut
  /\ state # "source" => (IF cut THEN Shortened ELSE wire = Encoded)
  /\ state = "read" => result = Decoded

LEMMA InitPayload == PayloadInit => PayloadInv
  BY DEF PayloadInit, Fresh, PayloadInv, Sourced

\* What the source is encoded as does not change, nor does what the wire is
\* decoded to while the wire does not.
LEMMA EncodedKept == kind' = kind /\ source' = source => Encoded' = Encoded
  BY DEF Encoded

LEMMA DecodedKept == kind' = kind /\ wire' = wire => Decoded' = Decoded
  BY DEF Decoded

LEMMA WritePayloadStep == PayloadInv /\ WritePayload => PayloadInv'
<1> SUFFICES ASSUME PayloadInv, WritePayload PROVE PayloadInv'
  OBVIOUS
<1>1. /\ kind' = kind /\ source' = source /\ cut' = cut /\ ~cut
      /\ wire' = Encoded /\ state' = "wire"
  BY DEF PayloadInv, WritePayload
<1>2. Encoded' = Encoded
  BY <1>1, EncodedKept
<1>3. Sourced'
  BY <1>1 DEF PayloadInv, Sourced
<1> QED BY <1>1, <1>2, <1>3 DEF PayloadInv

LEMMA LosePayloadStep == PayloadInv /\ LosePayload => PayloadInv'
<1> SUFFICES ASSUME PayloadInv, LosePayload PROVE PayloadInv'
  OBVIOUS
<1>1. /\ kind' = kind /\ source' = source /\ state' = state /\ state = "wire"
      /\ cut' = TRUE /\ wire = Encoded /\ kind \in {"string", "base64"}
      /\ \E n \in 0..(Len(wire) - 1) : wire' = SubSeq(wire, 1, n)
  BY DEF PayloadInv, LosePayload
<1>2. Encoded' = Encoded
  BY <1>1, EncodedKept
<1>3. Sourced'
  BY <1>1 DEF PayloadInv, Sourced
<1>4. Shortened'
  BY <1>1, <1>2, Zenon DEF Shortened
<1> QED BY <1>1, <1>3, <1>4 DEF PayloadInv

LEMMA ReadPayloadStep == PayloadInv /\ ReadPayload => PayloadInv'
<1> SUFFICES ASSUME PayloadInv, ReadPayload PROVE PayloadInv'
  OBVIOUS
<1>1. /\ kind' = kind /\ source' = source /\ wire' = wire /\ cut' = cut
      /\ state = "wire" /\ state' = "read" /\ result' = Decoded
  BY DEF ReadPayload
<1>2. Encoded' = Encoded /\ Decoded' = Decoded
  BY <1>1, EncodedKept, DecodedKept
<1>3. Sourced' /\ (Shortened' <=> Shortened)
  BY <1>1, <1>2 DEF PayloadInv, Sourced, Shortened
<1> QED BY <1>1, <1>2, <1>3 DEF PayloadInv

LEMMA SamePayload == PayloadInv /\ UNCHANGED payloadVars => PayloadInv'
<1> SUFFICES ASSUME PayloadInv, UNCHANGED payloadVars PROVE PayloadInv'
  OBVIOUS
<1>1. /\ kind' = kind /\ source' = source /\ wire' = wire /\ cut' = cut
      /\ state' = state /\ result' = result
  BY DEF payloadVars
<1>2. Encoded' = Encoded /\ Decoded' = Decoded
  BY <1>1, EncodedKept, DecodedKept
<1>3. Sourced' /\ (Shortened' <=> Shortened)
  BY <1>1, <1>2 DEF PayloadInv, Sourced, Shortened
<1> QED BY <1>1, <1>2, <1>3 DEF PayloadInv

\* Whatever is sent stays of its kind; the wire holds its encoding, or the
\* beginning of one that lost its end, and the result is what that decodes to
\* (LocalAdapters.cpp PostJson, MiniJson.cpp, Base64.cpp).
THEOREM PayloadInvariance == PayloadSpec => []PayloadInv
<1>1. PayloadInv /\ [PayloadNext]_payloadVars => PayloadInv'
  BY WritePayloadStep, LosePayloadStep, ReadPayloadStep, SamePayload DEF PayloadNext
<1> QED BY <1>1, InitPayload, PTL DEF PayloadSpec

----------------------------------------------------------------------------

LEMMA StringsRead == PayloadInv => StringRoundTrip
<1> SUFFICES ASSUME PayloadInv, kind = "string", state = "read"
             PROVE  IF cut THEN ~result.ok ELSE result = Read(Len(wire) + 1, source)
  BY DEF StringRoundTrip
<1>1. source \in Seq(Byte)
  BY PayloadAssumption DEF PayloadInv, Sourced
<1>2. StringBack(source)
  BY <1>1, StringComesBack
<1>3. Encoded = EscapeTo(source) /\ result = ParseString(wire, 1)
  BY DEF PayloadInv, Encoded, Decoded
<1>4. CASE ~cut
  <2>1. wire = EscapeTo(source)
    BY <1>3, <1>4 DEF PayloadInv
  <2> QED BY <1>2, <1>3, <1>4, <2>1 DEF StringBack
<1>5. CASE cut
  <2>1. PICK n \in 0..(Len(EscapeTo(source)) - 1) : wire = SubSeq(EscapeTo(source), 1, n)
    BY <1>3, <1>5 DEF PayloadInv, Shortened
  <2>2. ~ParseString(SubSeq(EscapeTo(source), 1, n), 1).ok
    BY <1>2 DEF StringBack
  <2> QED BY <1>3, <1>5, <2>1, <2>2
<1> QED BY <1>4, <1>5

LEMMA PointsRead == PayloadInv => EscapesArrive
<1> SUFFICES ASSUME PayloadInv, kind = "escape", state = "read", ~cut
             PROVE  /\ result.ok /\ CodePoint(result.value) = source
                    /\ \A i \in 2..Len(result.value) : result.value[i] \in 128..191
  BY DEF EscapesArrive, Arrived
<1>1. source \in ScalarValues
  BY PayloadAssumption DEF PayloadInv, Sourced
<1>2. PointArrived(ParseString(<<QUOTE>> \o EscapedPoint(source) \o <<QUOTE>>, 1), source)
  BY <1>1, EscapeArrives
<1>3. /\ wire = <<QUOTE>> \o EscapedPoint(source) \o <<QUOTE>>
      /\ result = ParseString(wire, 1)
  BY DEF PayloadInv, Encoded, Decoded
<1>4. PointArrived(result, source)
  BY <1>2, <1>3
<1> QED BY <1>4 DEF PointArrived, Utf8Of

LEMMA BytesRead == PayloadInv => Base64RoundTrip
<1> SUFFICES ASSUME PayloadInv, kind = "base64", state = "read"
             PROVE  /\ result.ok /\ IsPrefix(result.value, source[1])
                    /\ ~cut => result.value = source[1]
  BY DEF Base64RoundTrip
<1>1. source[1] \in Seq(Byte) /\ source[2] \in Nat \ {0}
  BY PayloadAssumption DEF PayloadInv, Sourced
<1> DEFINE text == Spaced(source[1], source[2])
           bytes == source[1]
<1>2. text \in Seq(Code) /\ Fold(Base!Fresh, text) \in Decoding /\ Fold(Base!Fresh, text).value = bytes
  BY <1>1, SpacedDecoded
<1>3. Encoded = text /\ result = Base!Decode(wire)
  BY DEF PayloadInv, Encoded, Decoded
<1>b. bytes \in Seq(Byte)
  BY <1>1
<1> HIDE DEF text, bytes
<1>4. CASE ~cut
  <2>1. wire = text
    BY <1>3, <1>4 DEF PayloadInv
  <2>2. result = Fold(Base!Fresh, text)
    BY <1>2, <1>3, <2>1, DecodeIs
  <2>3. result.ok /\ result.value = bytes
    BY <1>2, <2>2 DEF Decoding
  <2>4. IsPrefix(bytes, bytes)
    BY <1>b, LenProperties, PrefixByIndex
  <2> QED BY <2>3, <2>4 DEF bytes
<1>5. CASE cut
  <2>1. PICK n \in 0..(Len(text) - 1) : wire = SubSeq(text, 1, n)
    BY <1>3, <1>5 DEF PayloadInv, Shortened
  <2>2. n \in 0..Len(text)
    BY <1>2, LenProperties
  <2>3. /\ wire \in Seq(Code) /\ Fold(Base!Fresh, wire) \in Decoding
        /\ IsPrefix(Fold(Base!Fresh, wire).value, Fold(Base!Fresh, text).value)
    BY <1>2, <2>1, <2>2, CutDecoded
  <2>4. result = Fold(Base!Fresh, wire)
    BY <1>3, <2>3, DecodeIs
  <2>5. result.ok
    BY <2>3, <2>4 DEF Decoding
  <2> QED BY <1>2, <1>5, <2>3, <2>4, <2>5 DEF bytes
<1> QED BY <1>4, <1>5

\* What is encoded is decoded to what it was, for every string of bytes, every
\* Unicode scalar value in escapes and all bytes in base64, with white space
\* anywhere; a string that lost its end is refused, base64 that did reads as a
\* beginning (MiniJson.cpp:33-55, 171-211; Base64.cpp).
THEOREM ReadsBackAlways == PayloadSpec => []ReadsBack
<1>1. PayloadInv => ReadsBack
  BY StringsRead, PointsRead, BytesRead DEF ReadsBack
<1> QED BY <1>1, PayloadInvariance, PTL

\* Code that does not end with a line break is taken out of a model's fenced
\* answer whole, whatever fences it contains itself (LocalAdapters.cpp:96-107).
THEOREM FenceStrippedAlways == PayloadSpec => []FenceStripped
<1>1. PayloadInv => FenceStripped
  <2> SUFFICES ASSUME PayloadInv, kind = "code", state = "read", ~cut PROVE result.value = source
    BY DEF FenceStripped, Arrived
  <2>1. source \in Seq(STRING) /\ (source # <<>> => source[Len(source)] # "LF")
    BY PayloadAssumption DEF PayloadInv, Sourced
  <2>2. Answer!StripCodeFence(Answer!Trimmed(Fenced(source))) = source
    BY <2>1, FenceTaken
  <2>3. wire = Fenced(source) /\ result = Read(1, Answer!StripCodeFence(Answer!Trimmed(wire)))
    BY DEF PayloadInv, Encoded, Decoded
  <2>4. result = Read(1, source)
    BY <2>2, <2>3
  <2> QED BY <2>4 DEF Read
<1> QED BY <1>1, PayloadInvariance, PTL

\* A server that takes an upload apart finds the audio and every field as they
\* were when the audio holds no boundary at the beginning of a line, and only
\* then (LocalAdapters.cpp:471, 480-482).
THEOREM UploadArrivesAlways == PayloadSpec => []UploadArrives
<1>1. PayloadInv => UploadArrives
  <2> SUFFICES ASSUME PayloadInv, kind = "upload", state = "read", ~cut
               PROVE  result.value = <<<<"file", source.audio>>>> \o Form!Fields(source)
                        <=> ~HasDelimiter(source.audio)
    BY DEF UploadArrives, Arrived
  <2>1. /\ source.audio \in Seq(STRING) /\ source.wordTimestamps \in BOOLEAN
        /\ Name(source.model) /\ Name(source.languageHint)
    BY UploadAssumption DEF PayloadInv, Sourced, Name
  <2>2. wire = Form!Body(source) /\ result = Read(1, Parts(wire))
    BY DEF PayloadInv, Encoded, Decoded
  <2>3. result.value = Parts(Form!Body(source))
    BY <2>2 DEF Read
  <2> QED BY <2>1, <2>3, UploadTaken
<1> QED BY <1>1, PayloadInvariance, PTL
=============================================================================
