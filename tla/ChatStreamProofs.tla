-------------------------- MODULE ChatStreamProofs --------------------------
(***************************************************************************)
(* Proofs about ChatStream and the SSE parser under it, for every event    *)
(* stream and every way it may be cut.  The parser's part is that a piece  *)
(* may be fed one token at a time: what it then does at a token is all     *)
(* there is to know of it, for the stream under a chat and for one fed to  *)
(* the parser alone (SseFeed).                                             *)
(***************************************************************************)
EXTENDS ChatStream, SseFeed, TLAPS, SequenceTheorems

\* What Feed folds over the lines, and the usage over the payloads.
TakeLine(q, line) == HandleLine(q, StripCR(line))
TakeUsage(u, payload) == PayloadUsage(payload, u)

INSTANCE SequenceFacts WITH Op <- TakeLine
UsageFold == INSTANCE SequenceFacts WITH Op <- TakeUsage

----------------------------------------------------------------------------
(***************************************************************************)
(* The parser.                                                             *)
(***************************************************************************)

Token == STRING \cup {"NL"}
Flag == BOOLEAN

Parser == [buffer : Seq(Token), accum : Seq(Token), haveData : Flag,
           out : Seq(Seq(Token))]

LEMMA BreaksType == ASSUME NEW t \in Seq(Token) PROVE LineBreaks(t) \in Seq(1..Len(t))
<1> DEFINE ends == [i \in 1..Len(t) |-> IF t[i] = "LF" THEN <<i>> ELSE <<>>]
<1>1. ends \in Seq(Seq(1..Len(t)))
  <2>1. Len(t) \in Nat
    BY LenProperties
  <2>2. ASSUME NEW i \in 1..Len(t) PROVE ends[i] \in Seq(1..Len(t))
    <3>1. <<i>> \in Seq(1..Len(t)) /\ <<>> \in Seq(1..Len(t))
      OBVIOUS
    <3> QED BY <3>1
  <2> QED BY <2>1, <2>2, SeqByIndex
<1> HIDE DEF ends
<1>2. FlattenSeq(ends) \in Seq(1..Len(t))
  BY <1>1, FlattenType
<1> QED BY <1>2 DEF LineBreaks, ends

\* A token ends a line or adds to it.
LEMMA BreaksAppend ==
  ASSUME NEW t \in Seq(Token), NEW x \in Token
  PROVE  LineBreaks(Append(t, x)) =
           IF x = "LF" THEN Append(LineBreaks(t), Len(t) + 1) ELSE LineBreaks(t)
<1> DEFINE n == Len(t)
           u == Append(t, x)
           ends == [i \in 1..n |-> IF t[i] = "LF" THEN <<i>> ELSE <<>>]
           more == [i \in 1..Len(u) |-> IF u[i] = "LF" THEN <<i>> ELSE <<>>]
<1>1. /\ n \in Nat /\ u \in Seq(Token) /\ Len(u) = n + 1
      /\ u[n + 1] = x /\ \A i \in 1..n : u[i] = t[i]
  <2>1. n \in Nat
    BY LenProperties
  <2> QED BY <2>1, AppendProperties
<1>2. ends \in Seq(Seq(Nat)) /\ Len(ends) = n
  <2>1. \A i \in 1..n : ends[i] \in Seq(Nat)
    OBVIOUS
  <2> QED BY <1>1, <2>1, SeqByIndex
<1>3. more \in Seq(Seq(Nat)) /\ Len(more) = n + 1
  <2>1. \A i \in 1..(n + 1) : more[i] \in Seq(Nat)
    BY <1>1
  <2> QED BY <1>1, <2>1, SeqByIndex
<1>4. /\ \A i \in 1..n : more[i] = ends[i]
      /\ more[n + 1] = IF x = "LF" THEN <<n + 1>> ELSE <<>>
  <2> HIDE DEF u
  <2> QED BY <1>1
<1> HIDE DEF more, ends, n
<1>5. FlattenSeq(more) = FlattenSeq(ends) \o more[n + 1] /\ FlattenSeq(ends) \in Seq(Nat)
  BY <1>2, <1>3, <1>4, FlattenGrows, FlattenType
<1>6. Append(FlattenSeq(ends), n + 1) = FlattenSeq(ends) \o <<n + 1>>
      /\ FlattenSeq(ends) \o <<>> = FlattenSeq(ends)
  BY <1>1, <1>5, AppendIsConcat, ConcatEmptySeq
<1>7. LineBreaks(t) = FlattenSeq(ends) /\ LineBreaks(u) = FlattenSeq(more)
  BY DEF LineBreaks, ends, more, n
<1> QED BY <1>4, <1>5, <1>6, <1>7 DEF n, u

LEMMA LinesType ==
  ASSUME NEW t \in Seq(Token)
  PROVE  /\ Lines(t) \in Seq(Seq(Token)) /\ Unfinished(t) \in Seq(Token)
         /\ Len(Lines(t)) = Len(LineBreaks(t))
<1> DEFINE ends == LineBreaks(t)
           start(k) == IF k = 1 THEN 1 ELSE ends[k - 1] + 1
<1>1. /\ Len(t) \in Nat /\ Len(ends) \in Nat /\ ends \in Seq(1..Len(t))
      /\ \A k \in 1..Len(ends) : ends[k] \in 1..Len(t)
  BY BreaksType, LenProperties, ElementOfSeq
<1> HIDE DEF ends
<1>2. ASSUME NEW k \in 1..Len(ends) PROVE SubSeq(t, start(k), ends[k] - 1) \in Seq(Token)
  <2>1. start(k) \in Nat \ {0} /\ ends[k] - 1 \in Nat /\ ends[k] - 1 <= Len(t)
    BY <1>1
  <2>2. \A i \in start(k)..(ends[k] - 1) : t[i] \in Token
    BY <1>1, <2>1, ElementOfSeq
  <2> HIDE DEF start
  <2> QED BY <2>1, <2>2, SubSeqProperties
<1>3. Lines(t) = [k \in 1..Len(ends) |-> SubSeq(t, start(k), ends[k] - 1)]
  BY DEF Lines, ends
<1>4. Lines(t) \in Seq(Seq(Token)) /\ Len(Lines(t)) = Len(ends)
  <2> HIDE DEF start
  <2> QED BY <1>1, <1>2, <1>3, SeqByIndex
<1>5. Unfinished(t) \in Seq(Token)
  <2>1. CASE ends = <<>>
    BY <2>1 DEF Unfinished, ends
  <2>2. CASE ends # <<>>
    <3>1. Len(ends) \in 1..Len(ends)
      BY <1>1, <2>2, EmptySeq
    <3>2. Last(ends) \in 1..Len(t)
      BY <1>1, <3>1 DEF Last
    <3>3. \A i \in (Last(ends) + 1)..Len(t) : t[i] \in Token
      BY <1>1, <3>2, ElementOfSeq
    <3>4. SubSeq(t, Last(ends) + 1, Len(t)) \in Seq(Token)
      BY <1>1, <3>2, <3>3, SubSeqProperties
    <3> QED BY <2>2, <3>4 DEF Unfinished, ends
  <2> QED BY <2>1, <2>2
<1> QED BY <1>4, <1>5 DEF ends

\* Only a line break completes a line, and it completes what was unfinished.
LEMMA LinesAppend ==
  ASSUME NEW t \in Seq(Token), NEW x \in Token
  PROVE  /\ Lines(Append(t, x)) = IF x = "LF" THEN Append(Lines(t), Unfinished(t)) ELSE Lines(t)
         /\ Unfinished(Append(t, x)) = IF x = "LF" THEN <<>> ELSE Append(Unfinished(t), x)
<1> DEFINE n == Len(t)
           u == Append(t, x)
           ends == LineBreaks(t)
           more == LineBreaks(u)
           start(k) == IF k = 1 THEN 1 ELSE ends[k - 1] + 1
           begin(k) == IF k = 1 THEN 1 ELSE more[k - 1] + 1
<1>1. /\ n \in Nat /\ Len(ends) \in Nat /\ ends \in Seq(1..n)
      /\ \A k \in 1..Len(ends) : ends[k] \in 1..n
  BY BreaksType, LenProperties, ElementOfSeq
<1>2. u \in Seq(Token) /\ Len(u) = n + 1
  BY AppendProperties
<1>3. more = IF x = "LF" THEN Append(ends, n + 1) ELSE ends
  BY BreaksAppend
<1>4. ends \in Seq(Nat)
  BY <1>1, SeqMonotonic
<1>5. /\ Lines(t) = [k \in 1..Len(ends) |-> SubSeq(t, start(k), ends[k] - 1)]
      /\ Lines(u) = [k \in 1..Len(more) |-> SubSeq(u, begin(k), more[k] - 1)]
  BY DEF Lines
<1>6. /\ Unfinished(t) = IF ends = <<>> THEN t ELSE SubSeq(t, Last(ends) + 1, n)
      /\ Unfinished(u) = IF more = <<>> THEN u ELSE SubSeq(u, Last(more) + 1, n + 1)
  BY <1>2 DEF Unfinished
<1>7. ends # <<>> => Last(ends) \in 1..n /\ Len(ends) \in 1..Len(ends)
  BY <1>1, EmptySeq DEF Last
<1>8. \A k \in 1..Len(ends) :
        SubSeq(u, start(k), ends[k] - 1) = SubSeq(t, start(k), ends[k] - 1)
  <2> TAKE k \in 1..Len(ends)
  <2>1. start(k) \in Nat \ {0} /\ ends[k] - 1 \in Nat /\ ends[k] - 1 <= n
    BY <1>1
  <2> HIDE DEF start
  <2> QED BY <2>1, SubSeqOfAppend
<1> HIDE DEF ends, more, u, n
<1>9. CASE x = "LF"
  <2>1. /\ more = Append(ends, n + 1) /\ Len(more) = Len(ends) + 1 /\ more # <<>>
        /\ more[Len(ends) + 1] = n + 1 /\ \A k \in 1..Len(ends) : more[k] = ends[k]
    BY <1>1, <1>3, <1>4, <1>9, AppendProperties
  <2>2. Lines(t) \in Seq(Seq(Token)) /\ Unfinished(t) \in Seq(Token) /\ Len(Lines(t)) = Len(ends)
    BY LinesType DEF ends
  <2>3. \A k \in 1..Len(ends) : Lines(u)[k] = Lines(t)[k]
    <3> TAKE k \in 1..Len(ends)
    <3>1. k \in 1..Len(more) /\ more[k] = ends[k] /\ begin(k) = start(k)
      BY <1>1, <2>1
    <3> HIDE DEF start, begin
    <3> QED BY <1>5, <1>8, <3>1
  <2>4. Lines(u)[Len(ends) + 1] = Unfinished(t)
    <3>1. Lines(u)[Len(ends) + 1] = SubSeq(u, begin(Len(ends) + 1), n)
      <4>1. Len(ends) + 1 \in 1..Len(more) /\ more[Len(ends) + 1] - 1 = n
        BY <1>1, <2>1
      <4> HIDE DEF begin
      <4>2. \A k \in 1..Len(more) : Lines(u)[k] = SubSeq(u, begin(k), more[k] - 1)
        BY <1>5
      <4>3. Lines(u)[Len(ends) + 1] = SubSeq(u, begin(Len(ends) + 1), more[Len(ends) + 1] - 1)
        BY <4>1, <4>2
      <4> QED BY <4>1, <4>3
    <3>2. CASE ends = <<>>
      <4>1. Len(ends) = 0 /\ begin(Len(ends) + 1) = 1
        BY <3>2
      <4>2. SubSeq(u, 1, n) = SubSeq(t, 1, n)
        BY <1>1, SubSeqOfAppend DEF u, n
      <4>3. SubSeq(t, 1, n) = t
        BY SubSeqFull DEF n
      <4> QED BY <1>6, <3>1, <3>2, <4>1, <4>2, <4>3
    <3>3. CASE ends # <<>>
      <4>1. begin(Len(ends) + 1) = Last(ends) + 1
        BY <1>1, <1>7, <2>1, <3>3 DEF Last
      <4>2. SubSeq(u, Last(ends) + 1, n) = SubSeq(t, Last(ends) + 1, n)
        BY <1>1, <1>7, <3>3, SubSeqOfAppend DEF u, n
      <4> QED BY <1>6, <3>1, <3>3, <4>1, <4>2
    <3> QED BY <3>2, <3>3
  <2>5. Lines(u) \in Seq(Seq(Token)) /\ Len(Lines(u)) = Len(ends) + 1
    BY <1>2, <2>1, LinesType DEF more
  <2>6. /\ Append(Lines(t), Unfinished(t)) \in Seq(Seq(Token))
        /\ Len(Append(Lines(t), Unfinished(t))) = Len(ends) + 1
        /\ \A k \in 1..Len(ends) : Append(Lines(t), Unfinished(t))[k] = Lines(t)[k]
        /\ Append(Lines(t), Unfinished(t))[Len(ends) + 1] = Unfinished(t)
    BY <2>2, AppendProperties
  <2>7. \A k \in 1..(Len(ends) + 1) : Lines(u)[k] = Append(Lines(t), Unfinished(t))[k]
    <3> TAKE k \in 1..(Len(ends) + 1)
    <3>1. k \in 1..Len(ends) \/ k = Len(ends) + 1
      BY <1>1
    <3> QED BY <2>3, <2>4, <2>6, <3>1
  <2>8. Lines(u) = Append(Lines(t), Unfinished(t))
    BY <2>5, <2>6, <2>7, SeqEqual
  <2>9. Unfinished(u) = <<>>
    <3>1. Last(more) = n + 1
      BY <2>1 DEF Last
    <3>2. SubSeq(u, n + 2, n + 1) = <<>>
      BY <1>1, SubSeqEmpty
    <3> QED BY <1>1, <1>6, <2>1, <3>1, <3>2
  <2> QED BY <1>9, <2>8, <2>9 DEF u
<1>10. CASE x # "LF"
  <2>1. more = ends
    BY <1>3, <1>10
  <2>2. Lines(u) = Lines(t)
    BY <1>5, <1>8, <2>1
  <2>3. Unfinished(u) = Append(Unfinished(t), x)
    <3>1. CASE ends = <<>>
      BY <1>6, <2>1, <3>1 DEF u
    <3>2. CASE ends # <<>>
      <4>1. Last(ends) + 1 \in 1..(Len(t) + 1)
        BY <1>1, <1>7, <3>2 DEF n
      <4>2. SubSeq(u, Last(ends) + 1, n + 1) = Append(SubSeq(t, Last(ends) + 1, n), x)
        BY <4>1, SubSeqToAppended DEF u, n
      <4> QED BY <1>6, <2>1, <3>2, <4>2
    <3> QED BY <3>1, <3>2
  <2> QED BY <1>10, <2>2, <2>3 DEF u
<1> QED BY <1>9, <1>10

----------------------------------------------------------------------------

\* The part of a line after the colon is made of its tokens.
LEMMA LineType ==
  ASSUME NEW line \in Seq(Token)
  PROVE  /\ StripCR(line) \in Seq(Token)
         /\ line # <<>> => FieldValue(line) \in Seq(Token)
<1>1. Len(line) \in Nat /\ \A i \in 1..Len(line) : line[i] \in Token
  BY LenProperties, ElementOfSeq
<1>2. SubSeq(line, 1, Len(line) - 1) \in Seq(Token)
  BY <1>1, SubSeqProperties
<1>3. SubSeq(line, 3, Len(line)) \in Seq(Token)
  BY <1>1, SubSeqProperties
<1>4. line # <<>> => Tail(line) \in Seq(Token)
  BY HeadTailProperties
<1> QED BY <1>2, <1>3, <1>4 DEF StripCR, Front, FieldValue

\* The parser's state by its members.
State(b, a, h, o) == [buffer |-> b, accum |-> a, haveData |-> h, out |-> o]

LEMMA StateMembers ==
  \A b, a, h, o :
    /\ State(b, a, h, o).buffer = b /\ State(b, a, h, o).accum = a
    /\ State(b, a, h, o).haveData = h /\ State(b, a, h, o).out = o
  BY DEF State

LEMMA StateIs ==
  ASSUME NEW q \in Parser
  PROVE  /\ q = State(q.buffer, q.accum, q.haveData, q.out)
         /\ q.buffer \in Seq(Token) /\ q.accum \in Seq(Token) /\ q.haveData \in Flag
         /\ q.out \in Seq(Seq(Token))
  BY DEF Parser, State

LEMMA StateType ==
  ASSUME NEW b \in Seq(Token), NEW a \in Seq(Token), NEW h \in Flag, NEW o \in Seq(Seq(Token))
  PROVE  State(b, a, h, o) \in Parser
  BY DEF Parser, State

IsField(line) == line # <<>> /\ Head(line) = "data:"

\* What a line makes of the event it belongs to, and whether it dispatches it.
Accum(a, h, line) ==
  IF StripCR(line) = <<>> THEN <<>>
  ELSE IF IsField(StripCR(line))
  THEN (IF h THEN Append(a, "NL") ELSE a) \o FieldValue(StripCR(line)) ELSE a

HaveData(h, line) ==
  IF StripCR(line) = <<>> THEN FALSE ELSE IF IsField(StripCR(line)) THEN TRUE ELSE h

Dispatched(a, h, line) == IF StripCR(line) = <<>> /\ h THEN <<a>> ELSE <<>>

LEMMA LineEffect ==
  ASSUME NEW a \in Seq(Token), NEW h \in Flag, NEW line \in Seq(Token)
  PROVE  /\ Accum(a, h, line) \in Seq(Token) /\ HaveData(h, line) \in Flag
         /\ Dispatched(a, h, line) \in Seq(Seq(Token))
<1> DEFINE l == StripCR(line)
<1>1. l \in Seq(Token) /\ (l # <<>> => FieldValue(l) \in Seq(Token))
  BY LineType
<1>2. "NL" \in Token
  BY DEF Token
<1>3. Append(a, "NL") \in Seq(Token)
  BY <1>2, AppendProperties
<1> HIDE DEF l
<1>4. l # <<>> => (IF h THEN Append(a, "NL") ELSE a) \o FieldValue(l) \in Seq(Token)
  BY <1>1, <1>3, ConcatProperties
<1>5. Accum(a, h, line) \in Seq(Token)
  BY <1>4, EmptySeq DEF Accum, IsField, l
<1>6. HaveData(h, line) \in Flag
  BY DEF HaveData, IsField, Flag
<1>7. Dispatched(a, h, line) \in Seq(Seq(Token))
  BY EmptySeq DEF Dispatched
<1> QED BY <1>5, <1>6, <1>7

\* A line neither reads nor writes the buffer, nor reads what has been
\* dispatched, to which it only adds.
LEMMA TakeLineIs ==
  ASSUME NEW b, NEW a \in Seq(Token), NEW h \in Flag, NEW o \in Seq(Seq(Token)),
         NEW line \in Seq(Token)
  PROVE  TakeLine(State(b, a, h, o), line)
           = State(b, Accum(a, h, line), HaveData(h, line), o \o Dispatched(a, h, line))
<1> DEFINE l == StripCR(line)
<1>1. TakeLine(State(b, a, h, o), line) = HandleLine(State(b, a, h, o), l)
  BY DEF TakeLine
<1>2. o \o <<>> = o /\ Append(o, a) = o \o <<a>>
  BY ConcatEmptySeq, AppendIsConcat
<1>3. CASE l = <<>>
  <2>1. HandleLine(State(b, a, h, o), l) = State(b, <<>>, FALSE, IF h THEN Append(o, a) ELSE o)
    <3> HIDE DEF l
    <3> QED BY <1>3 DEF HandleLine, State
  <2> QED BY <1>1, <1>2, <1>3, <2>1 DEF Accum, HaveData, Dispatched
<1>4. CASE IsField(l)
  <2> DEFINE more == (IF h THEN Append(a, "NL") ELSE a) \o FieldValue(l)
  <2>1. HandleLine(State(b, a, h, o), l) = State(b, more, TRUE, o)
    <3> HIDE DEF l
    <3> QED BY <1>4 DEF HandleLine, State, IsField
  <2> QED BY <1>1, <1>2, <1>4, <2>1 DEF Accum, HaveData, Dispatched, IsField
<1>5. CASE l # <<>> /\ ~IsField(l)
  <2>1. HandleLine(State(b, a, h, o), l) = State(b, a, h, o)
    <3> HIDE DEF l
    <3> QED BY <1>5 DEF HandleLine, IsField
  <2> QED BY <1>1, <1>2, <1>5, <2>1 DEF Accum, HaveData, Dispatched
<1> QED BY <1>3, <1>4, <1>5 DEF IsField

\* Feed folds the lines.
LEMMA FeedIs ==
  ASSUME NEW b, NEW a, NEW h, NEW o, NEW d, b \o d \in Seq(Token)
  PROVE  Feed(State(b, a, h, o), d)
           = Fold(State(Unfinished(b \o d), a, h, o), Lines(b \o d))
<1> DEFINE p == State(b, a, h, o)
           lines == Lines(b \o d)
<1>1. p.buffer = b /\ [p EXCEPT !.buffer = Unfinished(b \o d)] = State(Unfinished(b \o d), a, h, o)
  BY DEF State
<1>2. DOMAIN lines = 1..Len(lines)
  BY LinesType, LenProperties
<1> HIDE DEF p
<1>3. Feed(p, d) = Fold([p EXCEPT !.buffer = Unfinished(p.buffer \o d)], Lines(p.buffer \o d))
  BY <1>1, <1>2 DEF Feed, FoldLeft, MapThenFoldSet, Fold, Folding, TakeLine
<1> QED BY <1>1, <1>3 DEF p

\* Nor do several lines.
LEMMA LinesEffect ==
  ASSUME NEW a \in Seq(Token), NEW h \in Flag, NEW lines \in Seq(Seq(Token))
  PROVE  \E a2 \in Seq(Token), h2 \in Flag, o2 \in Seq(Seq(Token)) :
            \A b : \A o \in Seq(Seq(Token)) :
               Fold(State(b, a, h, o), lines) = State(b, a2, h2, o \o o2)
<1> DEFINE T == {ls \in Seq(Seq(Token)) :
                   \E a2 \in Seq(Token), h2 \in Flag, o2 \in Seq(Seq(Token)) :
                      \A b : \A o \in Seq(Seq(Token)) :
                         Fold(State(b, a, h, o), ls) = State(b, a2, h2, o \o o2)}
<1>1. <<>> \in T
  <2>1. \A b : \A o \in Seq(Seq(Token)) : Fold(State(b, a, h, o), <<>>) = State(b, a, h, o \o <<>>)
    BY FoldEmpty, ConcatEmptySeq
  <2> QED BY <2>1, EmptySeq
<1>2. ASSUME NEW ls \in Seq(Seq(Token)), NEW l \in Seq(Token), ls \in T PROVE Append(ls, l) \in T
  <2>1. PICK a2 \in Seq(Token), h2 \in Flag, o2 \in Seq(Seq(Token)) :
           \A b : \A o \in Seq(Seq(Token)) :
              Fold(State(b, a, h, o), ls) = State(b, a2, h2, o \o o2)
    BY <1>2
  <2> DEFINE a3 == Accum(a2, h2, l)
             h3 == HaveData(h2, l)
             o3 == o2 \o Dispatched(a2, h2, l)
  <2>2. a3 \in Seq(Token) /\ h3 \in Flag /\ o3 \in Seq(Seq(Token))
        /\ Dispatched(a2, h2, l) \in Seq(Seq(Token))
    BY LineEffect, ConcatProperties
  <2>3. ASSUME NEW b, NEW o \in Seq(Seq(Token))
        PROVE  Fold(State(b, a, h, o), Append(ls, l)) = State(b, a3, h3, o \o o3)
    <3> DEFINE mid == o \o o2
    <3>1. Fold(State(b, a, h, o), Append(ls, l)) = TakeLine(State(b, a2, h2, mid), l)
      BY <2>1, FoldAppend
    <3>2. mid \in Seq(Seq(Token))
      BY ConcatProperties
    <3>3. TakeLine(State(b, a2, h2, mid), l) = State(b, a3, h3, mid \o Dispatched(a2, h2, l))
      <4> HIDE DEF mid
      <4> QED BY <3>2, TakeLineIs
    <3>4. mid \o Dispatched(a2, h2, l) = o \o o3
      BY <2>2, ConcatAssociative, SMTT(30)
    <3> QED BY <3>1, <3>3, <3>4
  <2> HIDE DEF a3, h3, o3
  <2>4. \A b : \A o \in Seq(Seq(Token)) :
           Fold(State(b, a, h, o), Append(ls, l)) = State(b, a3, h3, o \o o3)
    BY <2>3
  <2> QED BY <2>2, <2>4, AppendProperties
<1>3. \A ls \in Seq(Seq(Token)) : ls \in T
  <2> HIDE DEF T
  <2> QED BY <1>1, <1>2, SeqInduction
<1> QED BY <1>3

\* What feeding does, apart from adding to what has been dispatched, does not
\* depend on what that was.
FeedsTo(b, a, h, d, a2, h2, o2) ==
  \A o \in Seq(Seq(Token)) :
     Feed(State(b, a, h, o), d) = State(Unfinished(b \o d), a2, h2, o \o o2)

LEMMA FeedEffect ==
  ASSUME NEW b \in Seq(Token), NEW a \in Seq(Token), NEW h \in Flag, NEW d \in Seq(Token)
  PROVE  \E a2 \in Seq(Token), h2 \in Flag, o2 \in Seq(Seq(Token)) :
            FeedsTo(b, a, h, d, a2, h2, o2)
<1>1. b \o d \in Seq(Token)
  BY ConcatProperties
<1>2. Lines(b \o d) \in Seq(Seq(Token))
  BY <1>1, LinesType
<1>3. PICK a2 \in Seq(Token), h2 \in Flag, o2 \in Seq(Seq(Token)) :
         \A c : \A o \in Seq(Seq(Token)) :
            Fold(State(c, a, h, o), Lines(b \o d)) = State(c, a2, h2, o \o o2)
  BY <1>2, LinesEffect
<1>4. \A o : Feed(State(b, a, h, o), d) = Fold(State(Unfinished(b \o d), a, h, o), Lines(b \o d))
  BY <1>1, FeedIs
<1> QED BY <1>3, <1>4 DEF FeedsTo

\* What the parser does at one token.
At(q, x) ==
  IF x = "LF"
  THEN State(<<>>, Accum(q.accum, q.haveData, q.buffer), HaveData(q.haveData, q.buffer),
             q.out \o Dispatched(q.accum, q.haveData, q.buffer))
  ELSE State(Append(q.buffer, x), q.accum, q.haveData, q.out)

LEMMA FeedType == ASSUME NEW p \in Parser, NEW d \in Seq(Token) PROVE Feed(p, d) \in Parser
<1>1. /\ p = State(p.buffer, p.accum, p.haveData, p.out)
      /\ p.buffer \in Seq(Token) /\ p.accum \in Seq(Token) /\ p.haveData \in Flag
      /\ p.out \in Seq(Seq(Token))
  BY StateIs
<1>2. PICK a2 \in Seq(Token), h2 \in Flag, o2 \in Seq(Seq(Token)) :
         FeedsTo(p.buffer, p.accum, p.haveData, d, a2, h2, o2)
  BY <1>1, FeedEffect
<1>3. Unfinished(p.buffer \o d) \in Seq(Token) /\ p.out \o o2 \in Seq(Seq(Token))
  BY <1>1, LinesType, ConcatProperties
<1>4. Feed(p, d) = State(Unfinished(p.buffer \o d), a2, h2, p.out \o o2)
  BY <1>1, <1>2 DEF FeedsTo
<1> QED BY <1>2, <1>3, <1>4, StateType

\* A token more, and the parser goes one step further.
LEMMA FeedAppend ==
  ASSUME NEW p \in Parser, NEW d \in Seq(Token), NEW x \in Token
  PROVE  Feed(p, Append(d, x)) = At(Feed(p, d), x)
<1> DEFINE b == p.buffer
           t == b \o d
           U == Unfinished(t)
           L == Lines(t)
<1>1. /\ p = State(b, p.accum, p.haveData, p.out)
      /\ b \in Seq(Token) /\ p.accum \in Seq(Token) /\ p.haveData \in Flag
      /\ p.out \in Seq(Seq(Token))
  BY StateIs
<1>2. t \in Seq(Token) /\ U \in Seq(Token) /\ L \in Seq(Seq(Token)) /\ Append(t, x) \in Seq(Token)
  <2>1. t \in Seq(Token)
    BY <1>1, ConcatProperties
  <2> QED BY <2>1, LinesType, AppendProperties
<1>3. b \o Append(d, x) = Append(t, x)
  <2> HIDE DEF b
  <2>1. Append(d, x) = d \o <<x>> /\ <<x>> \in Seq(Token)
    BY AppendIsConcat
  <2>2. Append(t, x) = t \o <<x>>
    BY <1>2, AppendIsConcat
  <2> QED BY <1>1, <2>1, <2>2, ConcatAssociative, SMTT(30)
<1> HIDE DEF t, b
<1>4. PICK a2 \in Seq(Token), h2 \in Flag, o2 \in Seq(Seq(Token)) :
         \A c : \A o \in Seq(Seq(Token)) :
            Fold(State(c, p.accum, p.haveData, o), L) = State(c, a2, h2, o \o o2)
  BY <1>1, <1>2, LinesEffect
<1> DEFINE o3 == p.out \o o2
<1>5. Feed(p, d) = State(U, a2, h2, o3)
  <2>1. Feed(p, d) = Fold(State(U, p.accum, p.haveData, p.out), L)
    BY <1>1, <1>2, FeedIs DEF t
  <2> QED BY <1>1, <1>4, <2>1
<1>6. Feed(p, Append(d, x)) = Fold(State(Unfinished(Append(t, x)), p.accum, p.haveData, p.out),
                                   Lines(Append(t, x)))
  BY <1>1, <1>2, <1>3, FeedIs
<1>7. o3 \in Seq(Seq(Token))
  BY <1>1, ConcatProperties
<1> HIDE DEF U, L, b, o3
<1>8. /\ Feed(p, d).buffer = U /\ Feed(p, d).accum = a2 /\ Feed(p, d).haveData = h2
      /\ Feed(p, d).out = o3
  BY <1>5, StateMembers
<1>9. CASE x = "LF"
  <2>1. Lines(Append(t, x)) = Append(L, U) /\ Unfinished(Append(t, x)) = <<>>
    BY <1>2, <1>9, LinesAppend DEF L, U
  <2>2. Feed(p, Append(d, x)) = TakeLine(State(<<>>, a2, h2, o3), U)
    BY <1>1, <1>2, <1>4, <1>6, <2>1, FoldAppend DEF o3
  <2>3. Feed(p, Append(d, x)) = State(<<>>, Accum(a2, h2, U), HaveData(h2, U),
                                      o3 \o Dispatched(a2, h2, U))
    BY <1>2, <1>7, <2>2, TakeLineIs
  <2> QED BY <1>8, <1>9, <2>3 DEF At
<1>10. CASE x # "LF"
  <2>1. Lines(Append(t, x)) = L /\ Unfinished(Append(t, x)) = Append(U, x)
    BY <1>2, <1>10, LinesAppend DEF L, U
  <2>2. Feed(p, Append(d, x)) = State(Append(U, x), a2, h2, o3)
    BY <1>1, <1>4, <1>6, <2>1 DEF o3
  <2> QED BY <1>8, <1>10, <2>2 DEF At
<1> QED BY <1>9, <1>10

\* Between two pieces the buffer holds no complete line.
Idle(p) == p \in Parser /\ LineBreaks(p.buffer) = <<>>

LEMMA FeedNothing == ASSUME NEW p, Idle(p) PROVE Feed(p, <<>>) = p
<1> SUFFICES ASSUME NEW d, d = <<>> PROVE Feed(p, d) = p
  OBVIOUS
<1> DEFINE b == p.buffer
<1>1. /\ p = State(b, p.accum, p.haveData, p.out)
      /\ b \in Seq(Token) /\ p.out \in Seq(Seq(Token))
  BY StateIs DEF Idle
<1>2. b \o d = b
  BY <1>1, ConcatEmptySeq
<1>3. Lines(b) \in Seq(Seq(Token)) /\ Len(Lines(b)) = 0
  BY <1>1, LinesType DEF Idle
<1>4. Lines(b) = <<>> /\ Unfinished(b) = b
  BY <1>3, EmptySeq DEF Unfinished, Idle
<1>5. b \o d \in Seq(Token)
  BY <1>1, <1>2
<1> HIDE DEF b
<1>6. Feed(p, d) = Fold(State(Unfinished(b \o d), p.accum, p.haveData, p.out), Lines(b \o d))
  BY <1>1, <1>5, FeedIs
<1> QED BY <1>1, <1>2, <1>4, <1>6, FoldEmpty

LEMMA AtIdle == ASSUME NEW p, Idle(p), NEW x \in Token, At(p, x) \in Parser PROVE Idle(At(p, x))
<1>1. p.buffer \in Seq(Token)
  BY StateIs DEF Idle
<1>2. CASE x = "LF"
  BY <1>2, StateMembers, FlattenEmpty DEF Idle, At, LineBreaks
<1>3. CASE x # "LF"
  BY <1>1, <1>3, StateMembers, BreaksAppend DEF Idle, At
<1> QED BY <1>2, <1>3

LEMMA FeedIdle == ASSUME NEW p, Idle(p) PROVE \A d \in Seq(Token) : Idle(Feed(p, d))
<1> DEFINE T == {d \in Seq(Token) : Idle(Feed(p, d))}
<1>1. <<>> \in T
  BY FeedNothing, EmptySeq
<1>2. \A d \in Seq(Token), x \in Token : d \in T => Append(d, x) \in T
  <2> SUFFICES ASSUME NEW d \in Seq(Token), NEW x \in Token, Idle(Feed(p, d))
               PROVE  Append(d, x) \in Seq(Token) /\ Idle(Feed(p, Append(d, x)))
    OBVIOUS
  <2>1. Feed(p, Append(d, x)) = At(Feed(p, d), x) /\ Append(d, x) \in Seq(Token)
    BY FeedAppend, AppendProperties DEF Idle
  <2>2. Feed(p, Append(d, x)) \in Parser
    BY <2>1, FeedType DEF Idle
  <2> QED BY <2>1, <2>2, AtIdle
<1>3. \A d \in Seq(Token) : d \in T
  <2> HIDE DEF T
  <2> QED BY <1>1, <1>2, SeqInduction
<1> QED BY <1>3

\* Feeding two pieces is feeding them as one: nothing that the parser makes of
\* a text depends on where it is cut.
THEOREM FeedConcat ==
  ASSUME NEW p, Idle(p), NEW d \in Seq(Token), NEW e \in Seq(Token)
  PROVE  Feed(p, d \o e) = Feed(Feed(p, d), e)
<1> DEFINE T == {r \in Seq(Token) : Feed(p, d \o r) = Feed(Feed(p, d), r)}
<1>1. <<>> \in T
  BY FeedNothing, FeedIdle, ConcatEmptySeq, EmptySeq
<1>2. \A r \in Seq(Token), x \in Token : r \in T => Append(r, x) \in T
  <2> SUFFICES ASSUME NEW r \in Seq(Token), NEW x \in Token, Feed(p, d \o r) = Feed(Feed(p, d), r)
               PROVE  Feed(p, d \o Append(r, x)) = Feed(Feed(p, d), Append(r, x))
    BY AppendProperties
  <2>1. d \o r \in Seq(Token) /\ Append(r, x) = r \o <<x>> /\ <<x>> \in Seq(Token)
    BY ConcatProperties, AppendIsConcat
  <2>2. Append(d \o r, x) = (d \o r) \o <<x>>
    BY <2>1, AppendIsConcat
  <2>3. d \o Append(r, x) = Append(d \o r, x)
    BY <2>1, <2>2, ConcatAssociative
  <2>4. Feed(p, Append(d \o r, x)) = At(Feed(p, d \o r), x)
    BY <2>1, FeedAppend DEF Idle
  <2>5. Feed(Feed(p, d), Append(r, x)) = At(Feed(Feed(p, d), r), x)
    BY FeedType, FeedAppend DEF Idle
  <2> QED BY <2>3, <2>4, <2>5
<1>3. \A r \in Seq(Token) : r \in T
  <2> HIDE DEF T
  <2> QED BY <1>1, <1>2, SeqInduction
<1> QED BY <1>3

----------------------------------------------------------------------------
(***************************************************************************)
(* The events the application sees, and the usage they report.             *)
(***************************************************************************)

Deltas == {Delta(t) : t \in DOMAIN Chunks} \cup {ToolCall(t, i) : t \in DOMAIN Chunks, i \in 1..2}

LEMMA PayloadEventsType == \A payload : PayloadEvents(payload) \in Seq(Deltas)
<1> SUFFICES ASSUME NEW payload PROVE PayloadEvents(payload) \in Seq(Deltas)
  OBVIOUS
<1> DEFINE t == payload[1]
           c == Chunks[t]
           calls == [i \in 1..c.calls |-> ToolCall(t, i)]
<1>1. CASE Parses(payload)
  <2>1. t \in DOMAIN Chunks /\ c.calls \in 0..2
    BY <1>1, ChunkAssumption DEF Parses, Chunk
  <2>2. calls \in Seq(Deltas)
    <3>1. \A i \in 1..c.calls : calls[i] \in Deltas
      BY <2>1 DEF Deltas
    <3>2. c.calls \in Nat
      BY <2>1
    <3> QED BY <3>1, <3>2, SeqByIndex
  <2>3. Delta(t) \in Deltas
    BY <2>1 DEF Deltas
  <2>4. (IF c.content THEN <<Delta(t)>> ELSE <<>>) \in Seq(Deltas)
    BY <2>3
  <2> HIDE DEF calls
  <2>5. (IF c.content THEN <<Delta(t)>> ELSE <<>>) \o calls \in Seq(Deltas)
    BY <2>2, <2>4, ConcatProperties
  <2>6. PayloadEvents(payload) \in
          {<<>>, (IF c.content THEN <<Delta(t)>> ELSE <<>>) \o calls}
    BY DEF PayloadEvents, calls
  <2> QED BY <2>5, <2>6, EmptySeq
<1>2. CASE ~Parses(payload)
  BY <1>2, EmptySeq DEF PayloadEvents
<1> QED BY <1>1, <1>2

LEMMA EventsType ==
  ASSUME NEW S, NEW ps \in Seq(S)
  PROVE  /\ [i \in 1..Len(ps) |-> PayloadEvents(ps[i])] \in Seq(Seq(Deltas))
         /\ Len([i \in 1..Len(ps) |-> PayloadEvents(ps[i])]) = Len(ps)
         /\ Events(ps) \in Seq(Deltas)
<1> DEFINE es == [i \in 1..Len(ps) |-> PayloadEvents(ps[i])]
<1>1. Len(ps) \in Nat
  BY LenProperties
<1>2. \A i \in 1..Len(ps) : es[i] \in Seq(Deltas)
  BY PayloadEventsType
<1>3. es \in Seq(Seq(Deltas)) /\ Len(es) = Len(ps)
  BY <1>1, <1>2, SeqByIndex
<1>4. Events(ps) = FlattenSeq(es)
  BY DEF Events
<1> HIDE DEF es
<1>5. Events(ps) \in Seq(Deltas)
  BY <1>3, <1>4, FlattenType
<1> QED BY <1>3, <1>5 DEF es

\* The events of two pieces are those of the first and then of the second.
LEMMA EventsConcat ==
  ASSUME NEW S, NEW ps \in Seq(S), NEW qs \in Seq(S)
  PROVE  Events(ps \o qs) = Events(ps) \o Events(qs)
<1> DEFINE all == ps \o qs
           es == [i \in 1..Len(ps) |-> PayloadEvents(ps[i])]
           fs == [i \in 1..Len(qs) |-> PayloadEvents(qs[i])]
           gs == [i \in 1..Len(all) |-> PayloadEvents(all[i])]
<1>1. /\ all \in Seq(S) /\ Len(all) = Len(ps) + Len(qs) /\ Len(ps) \in Nat /\ Len(qs) \in Nat
      /\ \A i \in 1..Len(all) : all[i] = IF i <= Len(ps) THEN ps[i] ELSE qs[i - Len(ps)]
  BY ConcatProperties, LenProperties
<1> HIDE DEF all
<1>2. /\ es \in Seq(Seq(Deltas)) /\ Len(es) = Len(ps) /\ fs \in Seq(Seq(Deltas)) /\ Len(fs) = Len(qs)
      /\ gs \in Seq(Seq(Deltas)) /\ Len(gs) = Len(all)
  BY <1>1, EventsType
<1>3. /\ \A i \in 1..Len(ps) : es[i] = PayloadEvents(ps[i])
      /\ \A i \in 1..Len(qs) : fs[i] = PayloadEvents(qs[i])
      /\ \A i \in 1..Len(all) : gs[i] = PayloadEvents(all[i])
  OBVIOUS
<1>4. Events(ps) = FlattenSeq(es) /\ Events(qs) = FlattenSeq(fs) /\ Events(all) = FlattenSeq(gs)
  BY DEF Events
<1> HIDE DEF es, fs, gs
<1>5. gs = es \o fs
  <2>1. /\ es \o fs \in Seq(Seq(Deltas)) /\ Len(es \o fs) = Len(es) + Len(fs)
        /\ \A i \in 1..(Len(es) + Len(fs)) :
             (es \o fs)[i] = IF i <= Len(es) THEN es[i] ELSE fs[i - Len(es)]
    BY <1>2, ConcatProperties
  <2>2. ASSUME NEW i \in 1..Len(gs) PROVE gs[i] = (es \o fs)[i]
    <3>1. CASE i <= Len(ps)
      BY <1>1, <1>2, <1>3, <2>1, <3>1
    <3>2. CASE i > Len(ps)
      <4>1. i - Len(ps) \in 1..Len(qs) /\ ~(i <= Len(ps)) /\ i \in 1..Len(all)
        BY <1>1, <1>2, <3>2
      <4> QED BY <1>1, <1>2, <1>3, <2>1, <4>1
    <3> QED BY <1>1, <1>2, <3>1, <3>2
  <2> QED BY <1>1, <1>2, <2>1, <2>2, SeqEqual
<1>6. FlattenSeq(es \o fs) = FlattenSeq(es) \o FlattenSeq(fs)
  BY <1>2, FlattenConcat
<1> QED BY <1>4, <1>5, <1>6 DEF all

LEMMA EventsEmpty == Events(<<>>) = <<>>
  BY FlattenEmpty DEF Events

\* The usage that the payloads leave, of the one before them.
UsageAfter(u, ps) == UsageFold!Fold(u, ps)

LEMMA UsageIs ==
  ASSUME NEW u, NEW S, NEW ps \in Seq(S)
  PROVE  FoldLeft(LAMBDA v, payload : PayloadUsage(payload, v), u, ps) = UsageAfter(u, ps)
<1>1. DOMAIN ps = 1..Len(ps)
  BY LenProperties
<1> QED BY <1>1 DEF UsageAfter, FoldLeft, MapThenFoldSet, Max, UsageFold!Fold,
                   UsageFold!Folding, UsageFold!Max, TakeUsage

LEMMA UsageConcat ==
  ASSUME NEW u, NEW S, NEW ps \in Seq(S), NEW qs \in Seq(S)
  PROVE  UsageAfter(u, ps \o qs) = UsageAfter(UsageAfter(u, ps), qs)
  BY UsageFold!FoldConcat DEF UsageAfter

LEMMA UsageEmpty == ASSUME NEW u PROVE UsageAfter(u, <<>>) = u
  BY UsageFold!FoldEmpty DEF UsageAfter

\* A piece parsed by the parser as it stands adds to what the whole body would
\* have made so far.
LEMMA PieceOfWhole ==
  ASSUME NEW before \in Seq(Token), NEW piece \in Seq(Token), NEW q \in Parser,
         Feed(FreshParser, before)
           = State(q.buffer, q.accum, q.haveData, Feed(FreshParser, before).out)
  PROVE  LET p == Feed([q EXCEPT !.out = <<>>], piece)
             old == Feed(FreshParser, before)
             new == Feed(FreshParser, before \o piece)
         IN  /\ p \in Parser /\ old.out \in Seq(Seq(Token)) /\ p.out \in Seq(Seq(Token))
             /\ new = State(p.buffer, p.accum, p.haveData, old.out \o p.out)
<1> DEFINE b == q.buffer
           old == Feed(FreshParser, before)
           new == Feed(FreshParser, before \o piece)
           start == [q EXCEPT !.out = <<>>]
<1>1. Idle(FreshParser)
  BY FlattenEmpty, EmptySeq DEF Idle, FreshParser, Parser, LineBreaks, Flag
<1>2. new = Feed(old, piece) /\ old \in Parser
  BY <1>1, FeedConcat, FeedType DEF Idle
<1>3. /\ b \in Seq(Token) /\ q.accum \in Seq(Token) /\ q.haveData \in Flag
      /\ old.out \in Seq(Seq(Token)) /\ <<>> \in Seq(Seq(Token))
  BY <1>2, StateIs, EmptySeq
<1>4. start = State(b, q.accum, q.haveData, <<>>)
  BY DEF State, Parser
<1>5. PICK a2 \in Seq(Token), h2 \in Flag, o2 \in Seq(Seq(Token)) :
         FeedsTo(b, q.accum, q.haveData, piece, a2, h2, o2)
  <2> HIDE DEF b
  <2> QED BY <1>3, FeedEffect
<1> DEFINE U == Unfinished(b \o piece)
<1>6. Feed(start, piece) = State(U, a2, h2, o2)
  <2>1. <<>> \o o2 = o2
    BY ConcatEmptySeq
  <2> QED BY <1>3, <1>4, <1>5, <2>1 DEF FeedsTo
<1>7. new = State(U, a2, h2, old.out \o o2)
  BY <1>2, <1>3, <1>5 DEF FeedsTo
<1>8. U \in Seq(Token)
  BY <1>3, ConcatProperties, LinesType
<1> HIDE DEF U, old, new, start
<1>9. Feed(start, piece) \in Parser
  BY <1>6, <1>8, StateType
<1>10. /\ Feed(start, piece).buffer = U /\ Feed(start, piece).accum = a2
       /\ Feed(start, piece).haveData = h2 /\ Feed(start, piece).out = o2
  BY <1>6, StateMembers
<1> QED BY <1>3, <1>7, <1>9, <1>10 DEF old, new, start

----------------------------------------------------------------------------
(***************************************************************************)
(* The deltas among the events.                                            *)
(***************************************************************************)

Kept(s) == [i \in DOMAIN s |-> IF Contract!IsDelta(s[i]) THEN <<s[i]>> ELSE <<>>]

LEMMA DeltasAreDeltas == \A ev \in Deltas : Contract!IsDelta(ev)
  BY DEF Contract!IsDelta, Deltas, Delta, ToolCall

LEMMA KeptType ==
  ASSUME NEW S, NEW s \in Seq(S) PROVE Kept(s) \in Seq(Seq(S)) /\ Len(Kept(s)) = Len(s)
<1> DEFINE k == Kept(s)
<1>1. Len(s) \in Nat /\ DOMAIN s = 1..Len(s)
  BY LenProperties
<1>2. k = [i \in 1..Len(s) |-> k[i]] /\ DOMAIN k = 1..Len(s)
  BY <1>1 DEF Kept
<1>3. \A i \in 1..Len(s) : k[i] \in Seq(S)
  <2> TAKE i \in 1..Len(s)
  <2>1. s[i] \in S
    BY <1>1, ElementOfSeq
  <2>2. k[i] \in {<<s[i]>>, <<>>}
    BY <1>1 DEF Kept
  <2>3. <<s[i]>> \in Seq(S) /\ <<>> \in Seq(S)
    BY <2>1
  <2> QED BY <2>2, <2>3
<1> HIDE DEF k
<1>4. k \in Seq(Seq(S)) /\ Len(k) = Len(s)
  BY <1>1, <1>2, <1>3, SeqByIndex
<1> QED BY <1>4 DEF k

LEMMA KeptAppend ==
  ASSUME NEW S, NEW s \in Seq(S), NEW x \in S
  PROVE  FlattenSeq(Kept(Append(s, x))) =
           IF Contract!IsDelta(x) THEN Append(FlattenSeq(Kept(s)), x) ELSE FlattenSeq(Kept(s))
<1> DEFINE u == Append(s, x)
           n == Len(s)
           k == Kept(s)
           more == Kept(u)
<1>1. /\ u \in Seq(S) /\ Len(u) = n + 1 /\ n \in Nat
      /\ u[n + 1] = x /\ \A i \in 1..n : u[i] = s[i]
  BY AppendProperties, LenProperties
<1>2. DOMAIN s = 1..n /\ DOMAIN u = 1..Len(u)
  BY <1>1, LenProperties
<1>3. /\ \A i \in 1..Len(u) : more[i] = IF Contract!IsDelta(u[i]) THEN <<u[i]>> ELSE <<>>
      /\ \A i \in 1..n : k[i] = IF Contract!IsDelta(s[i]) THEN <<s[i]>> ELSE <<>>
  BY <1>2 DEF Kept
<1> HIDE DEF u
<1>4. /\ k \in Seq(Seq(S)) /\ Len(k) = n /\ more \in Seq(Seq(S)) /\ Len(more) = n + 1
  BY <1>1, KeptType
<1> HIDE DEF k, more, n
<1>5. /\ \A i \in 1..n : more[i] = k[i]
      /\ more[n + 1] = IF Contract!IsDelta(x) THEN <<x>> ELSE <<>>
  <2>1. /\ n + 1 \in 1..Len(u) /\ \A i \in 1..n : i \in 1..Len(u)
    BY <1>1
  <2> QED BY <1>1, <1>3, <2>1
<1>6. FlattenSeq(more) = FlattenSeq(k) \o more[n + 1] /\ FlattenSeq(k) \in Seq(S)
  BY <1>4, <1>5, FlattenGrows, FlattenType
<1>7. Append(FlattenSeq(k), x) = FlattenSeq(k) \o <<x>> /\ FlattenSeq(k) \o <<>> = FlattenSeq(k)
  BY <1>6, AppendIsConcat, ConcatEmptySeq
<1> QED BY <1>5, <1>6, <1>7 DEF k, more, u

\* Deltas are all kept, and nothing but them.
LEMMA KeptAll == \A s \in Seq(Deltas) : FlattenSeq(Kept(s)) = s
<1> DEFINE T == {s \in Seq(Deltas) : FlattenSeq(Kept(s)) = s}
<1>1. <<>> \in T
  <2>1. <<>> \in Seq(Deltas) /\ Len(<<>>) = 0
    BY EmptySeq
  <2>2. Kept(<<>>) \in Seq(Seq(Deltas)) /\ Len(Kept(<<>>)) = 0
    BY <2>1, KeptType
  <2>3. Kept(<<>>) = <<>>
    BY <2>2, EmptySeq
  <2> QED BY <2>1, <2>3, FlattenEmpty
<1>2. \A s \in Seq(Deltas), x \in Deltas : s \in T => Append(s, x) \in T
  BY KeptAppend, DeltasAreDeltas, AppendProperties
<1>3. \A s \in Seq(Deltas) : s \in T
  <2> HIDE DEF T
  <2> QED BY <1>1, <1>2, SeqInduction
<1> QED BY <1>3

LEMMA KeptTerminated ==
  ASSUME NEW s \in Seq(Deltas), NEW ev, ~Contract!IsDelta(ev)
  PROVE  FlattenSeq(Kept(Append(s, ev))) = s
<1> DEFINE S == Deltas \cup {ev}
<1>1. s \in Seq(S) /\ ev \in S
  <2>1. Deltas \subseteq S
    OBVIOUS
  <2> HIDE DEF S
  <2>2. s \in Seq(S)
    BY <2>1
  <2> QED BY <2>2 DEF S
<1> HIDE DEF S
<1> QED BY <1>1, KeptAppend, KeptAll

----------------------------------------------------------------------------
(***************************************************************************)
(* The call.                                                               *)
(***************************************************************************)

\* Everything handed over, read in one piece.
Whole == Feed(FreshParser, handed)

\* While the call runs, the parser stands where reading the whole would have
\* left it, and usage and events are what that would have made of them.
Running ==
    /\ parser \in Parser
    /\ Whole = State(parser.buffer, parser.accum, parser.haveData, Whole.out)
    /\ usage = UsageAfter("zero", Whole.out)
    /\ events = Events(Whole.out)
    /\ returned = "Pending"

\* The callback has thrown at one of the deltas.
Thrown ==
    /\ events \in Seq(Deltas) /\ events # <<>>
    /\ IsPrefix(events, Events(Whole.out))

\* The call has returned: refused, with a terminal event, or by exception.
Refused == handed = <<>> /\ events = <<>> /\ returned = "InvalidArgument"

Terminated ==
    \E ev : /\ events = Append(Events(Whole.out), ev)
            /\ ~Contract!IsDelta(ev)
            /\ returned = "None" => ev = DoneEvent(UsageAfter("zero", Whole.out))

IInv ==
    /\ text \in Seq(Token) /\ handed \in Seq(Token)
    /\ pc \in {"call", "fetch"} => Running
    /\ pc = "call" => handed = <<>>
    /\ pc = "unwind" => Thrown /\ returned = "Pending"
    /\ pc = "done" => Refused \/ Terminated \/ (Thrown /\ returned = "Thrown")
    /\ pc \in {"fetch", "unwind"} => callback
    /\ pc \in {"call", "fetch", "unwind", "done"}

LEMMA FreshIdle == Idle(FreshParser)
  BY FlattenEmpty, EmptySeq DEF Idle, FreshParser, Parser, LineBreaks, Flag

LEMMA WholeType ==
  ASSUME handed \in Seq(Token)
  PROVE  /\ Whole \in Parser /\ Whole.out \in Seq(Seq(Token))
         /\ Events(Whole.out) \in Seq(Deltas)
<1>1. Whole \in Parser
  BY FreshIdle, FeedType DEF Whole, Idle
<1>2. Whole.out \in Seq(Seq(Token))
  BY <1>1, StateIs
<1> QED BY <1>1, <1>2, EventsType

LEMMA StringsAreTokens == ASSUME NEW t \in Seq(STRING) PROVE t \in Seq(Token)
<1>1. STRING \subseteq Token
  BY DEF Token
<1>2. t \in Seq(STRING)
  OBVIOUS
<1>3. Len(t) \in Nat /\ t = [i \in 1..Len(t) |-> t[i]] /\ DOMAIN t = 1..Len(t)
  BY <1>2, LenProperties
<1>4. \A i \in 1..Len(t) : t[i] \in Token
  BY <1>1, <1>2, ElementOfSeq
<1> QED BY <1>3, <1>4, SeqByIndex

LEMMA InitIInv == Init => IInv
<1> SUFFICES ASSUME Init PROVE IInv
  OBVIOUS
<1>1. /\ pc = "call" /\ text \in Seq(Token) /\ handed = <<>> /\ parser = FreshParser
      /\ usage = "zero" /\ events = <<>> /\ returned = "Pending"
  BY ChunkAssumption, StringsAreTokens DEF Init, Transport!Init
<1>2. Whole = FreshParser
  BY <1>1, FreshIdle, FeedNothing DEF Whole
<1>3. FreshParser = State(FreshParser.buffer, FreshParser.accum, FreshParser.haveData, <<>>)
      /\ FreshParser.out = <<>>
  BY DEF FreshParser, State
<1>4. Running
  BY <1>1, <1>2, <1>3, FreshIdle, EventsEmpty, UsageEmpty DEF Running, Idle
<1> QED BY <1>1, <1>4, EmptySeq DEF IInv

\* What a piece does, whether the callback throws at it or not.
LEMMA PieceHanded ==
  ASSUME IInv, pc = "fetch", NEW n \in 1..(Len(text) - Len(handed)),
         handed' = handed \o Handed(n)
  PROVE  LET p == Parsed(n)
         IN  /\ handed' \in Seq(Token) /\ handed' # <<>>
             /\ p \in Parser /\ p.out \in Seq(Seq(Token))
             /\ Whole' = State(p.buffer, p.accum, p.haveData, Whole.out \o p.out)
             /\ Events((Whole').out) = events \o Events(p.out)
             /\ UsageAfter("zero", (Whole').out) = UsageAfter(usage, p.out)
<1> DEFINE p == Parsed(n)
           piece == Handed(n)
<1>1. /\ text \in Seq(Token) /\ handed \in Seq(Token) /\ Len(text) \in Nat /\ Len(handed) \in Nat
  BY LenProperties DEF IInv
<1>2. piece \in Seq(Token) /\ Len(piece) = n
  <2>1. /\ Len(handed) + 1 \in Nat /\ Len(handed) + n \in Nat /\ Len(handed) + n <= Len(text)
        /\ \A i \in (Len(handed) + 1)..(Len(handed) + n) : text[i] \in Token
    BY <1>1, ElementOfSeq
  <2>2. piece = SubSeq(text, Len(handed) + 1, Len(handed) + n)
    BY DEF Handed
  <2>3. piece \in Seq(Token)
    BY <2>1, <2>2, SubSeqProperties
  <2>4. Len(piece) = (Len(handed) + n) - (Len(handed) + 1) + 1
    BY <1>1, <2>1, <2>2, SubSeqProperties
  <2> QED BY <1>1, <2>3, <2>4
<1> HIDE DEF piece
<1>3. handed \o piece \in Seq(Token) /\ handed \o piece # <<>>
  <2>1. handed \o piece \in Seq(Token) /\ Len(handed \o piece) = Len(handed) + n
    BY <1>1, <1>2, ConcatProperties
  <2> QED BY <1>1, <2>1, EmptySeq
<1>4. parser \in Parser /\ Running
  BY DEF IInv, Running
<1>5. /\ p \in Parser /\ Whole.out \in Seq(Seq(Token)) /\ p.out \in Seq(Seq(Token))
      /\ Whole' = State(p.buffer, p.accum, p.haveData, Whole.out \o p.out)
  <2>1. p = Feed([parser EXCEPT !.out = <<>>], piece) /\ handed' = handed \o piece
    BY DEF Parsed, piece
  <2>2. Whole' = Feed(FreshParser, handed')
    BY DEF Whole
  <2> HIDE DEF p
  <2> QED BY <1>1, <1>2, <1>4, <2>1, <2>2, PieceOfWhole DEF Running, Whole
<1> HIDE DEF p
<1>6. (Whole').out = Whole.out \o p.out
  <2> DEFINE o == Whole.out \o p.out
  <2>1. Whole' = State(p.buffer, p.accum, p.haveData, o)
    BY <1>5
  <2> HIDE DEF o
  <2>2. (Whole').out = o
    BY <2>1, StateMembers
  <2> QED BY <2>2 DEF o
<1>7. Events((Whole').out) = events \o Events(p.out)
  BY <1>4, <1>5, <1>6, EventsConcat DEF Running
<1>8. UsageAfter("zero", (Whole').out) = UsageAfter(usage, p.out)
  BY <1>4, <1>5, <1>6, UsageConcat DEF Running
<1> QED BY <1>3, <1>5, <1>7, <1>8 DEF p, piece

LEMMA OnBodyIInv ==
  ASSUME IInv, NEW n \in 1..(Len(text) - Len(handed)), OnBody(n) PROVE IInv'
<1> DEFINE p == Parsed(n)
<1>1. /\ pc = "fetch" /\ pc' = "fetch" /\ handed' = handed \o Handed(n)
      /\ parser' = p /\ text' = text /\ returned' = returned /\ callback' = callback
      /\ events' = events \o Events(p.out)
      /\ usage' = FoldLeft(LAMBDA u, payload : PayloadUsage(payload, u), usage, p.out)
  BY DEF OnBody
<1>2. /\ handed' \in Seq(Token) /\ handed' # <<>>
      /\ p \in Parser /\ p.out \in Seq(Seq(Token))
      /\ Whole' = State(p.buffer, p.accum, p.haveData, Whole.out \o p.out)
      /\ Events((Whole').out) = events \o Events(p.out)
      /\ UsageAfter("zero", (Whole').out) = UsageAfter(usage, p.out)
  BY <1>1, PieceHanded
<1> HIDE DEF p
<1>3. usage' = UsageAfter("zero", (Whole').out)
  BY <1>1, <1>2, UsageIs
<1>4. Whole' = State(p.buffer, p.accum, p.haveData, (Whole').out)
  <2> DEFINE o == Whole.out \o p.out
  <2>1. Whole' = State(p.buffer, p.accum, p.haveData, o)
    BY <1>2
  <2> HIDE DEF o
  <2>2. (Whole').out = o
    BY <2>1, StateMembers
  <2> QED BY <2>1, <2>2
<1>5. Running'
  <2>1. Running
    BY <1>1 DEF IInv
  <2> QED BY <1>1, <1>2, <1>3, <1>4, <2>1 DEF Running
<1> QED BY <1>1, <1>2, <1>5 DEF IInv

\* The first k of the deltas of a piece.
LEMMA FirstOf ==
  ASSUME NEW s \in Seq(Deltas), NEW t \in Seq(Deltas), NEW k \in 1..Len(t)
  PROVE  /\ s \o SubSeq(t, 1, k) \in Seq(Deltas) /\ s \o SubSeq(t, 1, k) # <<>>
         /\ IsPrefix(s \o SubSeq(t, 1, k), s \o t)
         /\ SubSeq(t, 1, k) \in Seq(Deltas) /\ SubSeq(t, 1, k) # <<>>
<1> DEFINE u == SubSeq(t, 1, k)
           su == s \o u
           st == s \o t
<1>1. Len(s) \in Nat /\ Len(t) \in Nat /\ k \in Nat
  BY LenProperties
<1>2. u \in Seq(Deltas) /\ Len(u) = k /\ \A i \in 1..k : u[i] = t[i]
  <2>1. \A i \in 1..k : t[i] \in Deltas
    BY <1>1, ElementOfSeq
  <2> QED BY <1>1, <2>1, SubSeqProperties
<1> HIDE DEF u
<1>3. /\ su \in Seq(Deltas) /\ Len(su) = Len(s) + k
      /\ \A i \in 1..(Len(s) + k) : su[i] = IF i <= Len(s) THEN s[i] ELSE u[i - Len(s)]
  BY <1>2, ConcatProperties
<1>4. /\ st \in Seq(Deltas) /\ Len(st) = Len(s) + Len(t)
      /\ \A i \in 1..(Len(s) + Len(t)) : st[i] = IF i <= Len(s) THEN s[i] ELSE t[i - Len(s)]
  BY ConcatProperties
<1> HIDE DEF su, st
<1>5. Len(su) <= Len(st) /\ \A i \in 1..Len(su) : su[i] = st[i]
  <2>1. Len(su) <= Len(st)
    BY <1>1, <1>3, <1>4
  <2>2. ASSUME NEW i \in 1..Len(su), i <= Len(s) PROVE su[i] = st[i]
    BY <1>1, <1>3, <1>4, <2>2
  <2>3. ASSUME NEW i \in 1..Len(su), ~(i <= Len(s)) PROVE su[i] = st[i]
    <3>1. i - Len(s) \in 1..k /\ i \in 1..(Len(s) + k) /\ i \in 1..(Len(s) + Len(t))
      BY <1>1, <1>3, <2>3
    <3>2. u[i - Len(s)] = t[i - Len(s)]
      BY <1>2, <3>1
    <3> QED BY <1>3, <1>4, <2>3, <3>1, <3>2
  <2> QED BY <2>1, <2>2, <2>3
<1>6. IsPrefix(su, st)
  BY <1>3, <1>4, <1>5, PrefixByIndex
<1>7. su # <<>> /\ u # <<>>
  BY <1>1, <1>2, <1>3, EmptySeq
<1> QED BY <1>2, <1>3, <1>6, <1>7 DEF su, st, u

LEMMA OnBodyThrowsIInv ==
  ASSUME IInv, NEW n \in 1..(Len(text) - Len(handed)), OnBodyThrows(n) PROVE IInv'
<1> DEFINE p == Parsed(n)
           t == Events(p.out)
<1>1. /\ pc = "fetch" /\ pc' = "unwind" /\ handed' = handed \o Handed(n)
      /\ text' = text /\ returned' = returned /\ callback' = callback
  BY DEF OnBodyThrows
<1>2. PICK k \in 1..Len(t) : events' = events \o SubSeq(t, 1, k)
  BY DEF OnBodyThrows
<1>3. /\ handed' \in Seq(Token) /\ p.out \in Seq(Seq(Token))
      /\ Events((Whole').out) = events \o t
  BY <1>1, PieceHanded
<1> HIDE DEF p
<1>4. t \in Seq(Deltas)
  BY <1>3, EventsType
<1> HIDE DEF t
<1>5. events \in Seq(Deltas) /\ returned = "Pending"
  BY <1>1, WholeType DEF IInv, Running
<1>6. events' \in Seq(Deltas) /\ events' # <<>> /\ IsPrefix(events', events \o t)
  BY <1>2, <1>4, <1>5, FirstOf
<1>7. Thrown'
  BY <1>3, <1>6 DEF Thrown
<1> QED BY <1>1, <1>3, <1>5, <1>7 DEF IInv

LEMMA FinishIInv == ASSUME IInv, Finish PROVE IInv'
<1> DEFINE ev == IF result' = "None" THEN DoneEvent(usage) ELSE ErrorEvent(result')
<1>1. /\ pc = "fetch" /\ pc' = "done" /\ text' = text /\ handed' = handed
      /\ events' = Append(events, ev) /\ returned' \in {result', "Thrown"}
  BY DEF Finish, Transport!Return
<1>2. Running
  BY <1>1 DEF IInv
<1>3. ~Contract!IsDelta(ev)
  BY DEF Contract!IsDelta, DoneEvent, ErrorEvent
<1>4. Whole' = Whole
  BY <1>1 DEF Whole
<1>5. returned' = "None" => ev = DoneEvent(UsageAfter("zero", Whole.out))
  BY <1>1, <1>2 DEF Running
<1> HIDE DEF ev
<1>6. Terminated'
  BY <1>1, <1>2, <1>3, <1>4, <1>5 DEF Terminated, Running
<1> QED BY <1>1, <1>6 DEF IInv

LEMMA StepIInv == IInv /\ [Next]_vars => IInv'
<1> SUFFICES ASSUME IInv, [Next]_vars PROVE IInv'
  OBVIOUS
<1>1. CASE Refuse
  <2>1. /\ pc = "call" /\ pc' = "done" /\ text' = text /\ handed' = handed
        /\ events' = events /\ returned' = "InvalidArgument"
    BY <1>1 DEF Refuse
  <2>2. Refused'
    BY <2>1, WholeType, FreshIdle, FeedNothing, EventsEmpty
       DEF IInv, Running, Refused, Whole, Idle, FreshParser
  <2> QED BY <2>1, <2>2 DEF IInv
<1>2. CASE Fetch
  BY <1>2 DEF Fetch, IInv, Running, Whole
<1>3. CASE Finish
  BY <1>3, FinishIInv
<1>4. CASE Throw
  <2>1. /\ pc = "unwind" /\ pc' = "done" /\ text' = text /\ handed' = handed
        /\ events' = events /\ returned' = "Thrown"
    BY <1>4 DEF Throw, Transport!Return
  <2>2. Thrown'
    BY <2>1 DEF IInv, Thrown, Whole
  <2> QED BY <2>1, <2>2 DEF IInv
<1>5. CASE \E n \in 1..(Len(text) - Len(handed)) : OnBody(n) \/ OnBodyThrows(n)
  BY <1>5, OnBodyIInv, OnBodyThrowsIInv
<1>6. CASE UNCHANGED vars
  <2>1. Whole' = Whole
    BY <1>6 DEF vars, Whole
  <2> QED BY <1>6, <2>1 DEF vars, IInv, Running, Thrown, Refused, Terminated
<1> QED BY <1>1, <1>2, <1>3, <1>4, <1>5, <1>6 DEF Next

\* IInv holds in every reachable state.
THEOREM Invariance == Spec => []IInv
  BY InitIInv, StepIInv, PTL DEF Spec

----------------------------------------------------------------------------

LEMMA PrefixOfItself == ASSUME NEW S, NEW s \in Seq(S) PROVE IsPrefix(s, s)
  BY PrefixByIndex, LenProperties

LEMMA EventsOfBodyFromIInv == IInv => EventsOfBody
<1> SUFFICES ASSUME IInv PROVE EventsOfBody
  OBVIOUS
<1> DEFINE deltas == FlattenSeq(Kept(events))
           all == Events(Whole.out)
<1>1. Whole.out \in Seq(Seq(Token)) /\ all \in Seq(Deltas)
  BY WholeType DEF IInv
<1>2. EventsOfBody <=>
        /\ IsPrefix(deltas, all)
        /\ (pc # "unwind" /\ returned # "Thrown") => deltas = all
        /\ returned = "None" =>
             Last(events).usage =
               FoldLeft(LAMBDA u, p : PayloadUsage(p, u), "zero", Whole.out)
  BY DEF EventsOfBody, Kept, Payloads, Whole
<1>3. FoldLeft(LAMBDA u, p : PayloadUsage(p, u), "zero", Whole.out)
        = UsageAfter("zero", Whole.out)
  BY <1>1, UsageIs
<1>4. IsPrefix(all, all)
  BY <1>1, PrefixOfItself
<1> HIDE DEF deltas
<1>5. CASE Running
  <2>1. events = all /\ returned = "Pending"
    BY <1>5 DEF Running
  <2>2. deltas = all
    BY <1>1, <2>1, KeptAll DEF deltas
  <2> QED BY <1>2, <1>4, <2>1, <2>2
<1>6. CASE Thrown /\ ((pc = "unwind" /\ returned = "Pending") \/ returned = "Thrown")
  <2>1. deltas = events /\ IsPrefix(events, all)
    BY <1>6, KeptAll DEF Thrown, deltas
  <2> QED BY <1>2, <1>6, <2>1
<1>7. CASE Refused
  <2>1. Whole = FreshParser
    BY <1>7, FreshIdle, FeedNothing DEF Refused, Whole
  <2>2. all = <<>>
    BY <2>1, EventsEmpty DEF FreshParser
  <2>3. deltas = all
    BY <1>1, <1>7, <2>2, KeptAll DEF Refused, deltas
  <2> QED BY <1>2, <1>4, <1>7, <2>3 DEF Refused
<1>8. CASE Terminated
  <2>1. PICK ev : /\ events = Append(all, ev) /\ ~Contract!IsDelta(ev)
                  /\ returned = "None" => ev = DoneEvent(UsageAfter("zero", Whole.out))
    BY <1>8 DEF Terminated
  <2> HIDE DEF all
  <2>2. deltas = all
    BY <1>1, <2>1, KeptTerminated DEF deltas
  <2>3. Last(events) = ev
    <3>1. all \in Seq(Deltas \cup {ev})
      <4>1. \A i \in 1..Len(all) : all[i] \in Deltas \cup {ev}
        BY <1>1, ElementOfSeq
      <4>2. Len(all) \in Nat /\ DOMAIN all = 1..Len(all) /\ all = [i \in 1..Len(all) |-> all[i]]
        BY <1>1, LenProperties
      <4> QED BY <4>1, <4>2, SeqByIndex
    <3>2. Len(events) = Len(all) + 1 /\ events[Len(all) + 1] = ev
      BY <2>1, <3>1, AppendProperties
    <3> QED BY <3>2 DEF Last
  <2>4. returned = "None" => Last(events).usage = UsageAfter("zero", Whole.out)
    BY <2>1, <2>3 DEF DoneEvent
  <2> QED BY <1>2, <1>3, <1>4, <2>2, <2>4 DEF all
<1> QED BY <1>5, <1>6, <1>7, <1>8 DEF IInv

\* However the body of a chat stream is cut into pieces, the deltas the
\* application sees are those of the events in it, in order, and Done carries
\* the last usage any of them reports.
THEOREM EventsOfBodyAlways == Spec => []EventsOfBody
  BY Invariance, EventsOfBodyFromIInv, PTL

----------------------------------------------------------------------------

\* More deltas are a step of the contract.
LEMMA DeltasStream ==
  ASSUME events \in Seq(Deltas), NEW more \in Seq(Deltas), more # <<>>,
         events' = events \o more, returned = "Pending", returned' = returned,
         callback
  PROVE  Contract!Stream
<1>1. Len(events) \in Nat /\ Len(more) \in Nat /\ Len(more) # 0
  BY LenProperties, EmptySeq
<1>2. /\ events' \in Seq(Deltas) /\ Len(events') = Len(events) + Len(more)
  BY ConcatProperties
<1>3. IsPrefix(events, events')
  BY PrefixConcat
<1>4. events # events'
  BY <1>1, <1>2
<1>5. \A i \in (Len(events) + 1)..Len(events') : Contract!IsDelta(events'[i])
  <2> TAKE i \in (Len(events) + 1)..Len(events')
  <2>1. i \in 1..Len(events')
    BY <1>1, <1>2
  <2>2. events'[i] \in Deltas
    BY <1>2, <2>1, ElementOfSeq
  <2> QED BY <2>2, DeltasAreDeltas
<1> QED BY <1>3, <1>4, <1>5 DEF Contract!Stream, Contract!IsStrictPrefix, Contract!IsPrefix,
                                IsPrefix

\* A terminal event that agrees with the result is one.
LEMMA TerminalTerminates ==
  ASSUME events \in Seq(Deltas), returned = "Pending",
         NEW err, err \in {"None"} \cup StatusErrors \cup TransportErrors,
         returned' \in {err, "Thrown"}, NEW ev, events' = Append(events, ev),
         ev = IF err = "None" THEN DoneEvent(usage) ELSE ErrorEvent(err),
         callback
  PROVE  Contract!Terminate
<1> DEFINE S == Deltas \cup {ev}
<1>1. events \in Seq(S) /\ ev \in S
  <2>1. \A i \in 1..Len(events) : events[i] \in S
    BY ElementOfSeq
  <2>2. Len(events) \in Nat /\ DOMAIN events = 1..Len(events)
        /\ events = [i \in 1..Len(events) |-> events[i]]
    BY LenProperties
  <2> HIDE DEF S
  <2>3. events \in Seq(S)
    BY <2>1, <2>2, SeqByIndex
  <2> QED BY <2>3 DEF S
<1> HIDE DEF S
<1>2. /\ Len(events) \in Nat /\ Len(events') = Len(events) + 1
      /\ events'[Len(events) + 1] = ev /\ \A i \in 1..Len(events) : events'[i] = events[i]
      /\ events' \in Seq(S)
  BY <1>1, AppendProperties, LenProperties
<1>3. Last(events') = ev
  BY <1>2 DEF Last
<1>4. IsPrefix(events, events')
  BY <1>1, PrefixAppend
<1>5. /\ err = "None" => ev.kind = "Done"
      /\ err # "None" => ev.kind = "Error" /\ ev.error = err
  BY DEF DoneEvent, ErrorEvent
<1>6. returned' \in {"None", "Thrown"} \cup StatusErrors \cup TransportErrors \cup {"InvalidArgument"}
  OBVIOUS
<1>7. /\ returned' = "None" => ev.kind = "Done"
      /\ returned' = "Thrown" => ev.kind \in {"Done", "Error"}
      /\ (returned' # "None" /\ returned' # "Thrown") => ev.kind = "Error" /\ ev.error = returned'
  BY <1>5
<1> QED BY <1>2, <1>3, <1>4, <1>6, <1>7
   DEF Contract!Terminate, Contract!IsPrefix, Contract!Last, IsPrefix, Last

\* When there is nobody to tell or something to ask, every step is one of the
\* contract's, or none.
LEMMA StepContract == IInv /\ Asked /\ [Next]_vars => [Contract!Next]_(Contract!vars)
<1> SUFFICES ASSUME IInv, Asked, [Next]_vars
             PROVE  Contract!Next \/ UNCHANGED <<events, returned>>
  BY DEF Contract!vars
<1>1. CASE Refuse
  <2>1. Contract!Refuse
    <3>1. Whole = FreshParser
      BY <1>1, FreshIdle, FeedNothing DEF Refuse, IInv, Whole
    <3>2. events = <<>>
      BY <1>1, <3>1, EventsEmpty DEF Refuse, IInv, Running, FreshParser
    <3>3. ~callback
      BY <1>1 DEF Refuse, Asked
    <3> QED BY <1>1, <3>2, <3>3 DEF Refuse, IInv, Running, Contract!Refuse
  <2> QED BY <2>1 DEF Contract!Next
<1>2. CASE Fetch
  BY <1>2 DEF Fetch
<1>3. CASE Finish
  <2>1. /\ pc = "fetch" /\ events \in Seq(Deltas) /\ returned = "Pending" /\ callback
    BY <1>3, WholeType DEF Finish, IInv, Running
  <2>2. Contract!Terminate
    BY <1>3, <2>1, TerminalTerminates DEF Finish
  <2> QED BY <2>2 DEF Contract!Next
<1>4. CASE Throw
  <2>1. Contract!Throw
    BY <1>4 DEF Throw, IInv, Thrown, Contract!Throw
  <2> QED BY <2>1 DEF Contract!Next
<1>5. ASSUME NEW n \in 1..(Len(text) - Len(handed)), OnBody(n)
      PROVE  Contract!Next \/ UNCHANGED <<events, returned>>
  <2> DEFINE p == Parsed(n)
             t == Events(p.out)
  <2>1. /\ pc = "fetch" /\ handed' = handed \o Handed(n) /\ returned' = returned
        /\ events' = events \o t
    BY <1>5 DEF OnBody
  <2>2. p.out \in Seq(Seq(Token))
    BY <2>1, PieceHanded
  <2> HIDE DEF p
  <2>3. t \in Seq(Deltas) /\ events \in Seq(Deltas) /\ returned = "Pending" /\ callback
    BY <2>1, <2>2, EventsType, WholeType DEF IInv, Running
  <2> HIDE DEF t
  <2>4. CASE t = <<>>
    BY <2>1, <2>3, <2>4, ConcatEmptySeq
  <2>5. CASE t # <<>>
    BY <2>1, <2>3, <2>5, DeltasStream DEF Contract!Next
  <2> QED BY <2>4, <2>5
<1>6. ASSUME NEW n \in 1..(Len(text) - Len(handed)), OnBodyThrows(n)
      PROVE  Contract!Next
  <2> DEFINE p == Parsed(n)
             t == Events(p.out)
  <2>1. pc = "fetch" /\ handed' = handed \o Handed(n) /\ returned' = returned
    BY <1>6 DEF OnBodyThrows
  <2>2. PICK k \in 1..Len(t) : events' = events \o SubSeq(t, 1, k)
    BY <1>6 DEF OnBodyThrows
  <2>3. p.out \in Seq(Seq(Token))
    BY <2>1, PieceHanded
  <2> HIDE DEF p
  <2>4. t \in Seq(Deltas) /\ events \in Seq(Deltas) /\ returned = "Pending" /\ callback
    BY <2>1, <2>3, EventsType, WholeType DEF IInv, Running
  <2> HIDE DEF t
  <2>5. SubSeq(t, 1, k) \in Seq(Deltas) /\ SubSeq(t, 1, k) # <<>>
    BY <2>4, FirstOf
  <2> QED BY <2>1, <2>2, <2>4, <2>5, DeltasStream DEF Contract!Next
<1>7. CASE UNCHANGED vars
  BY <1>7 DEF vars
<1> QED BY <1>1, <1>2, <1>3, <1>4, <1>5, <1>6, <1>7 DEF Next

\* No step changes what the call was given.
LEMMA AskedStays == [Next]_vars => UNCHANGED <<callback, messages>>
  BY DEF Next, Refuse, Fetch, Finish, Throw, OnBody, OnBodyThrows, vars

\* For every event stream, every cut of it and every failure, each step of a
\* call that has no callback or has messages is one of the header's contract
\* (UltraAITextLLM.h:92-93): deltas, one terminal event that agrees with what
\* the call returns, then nothing.
THEOREM ContractImplemented == Spec => ImplementsContract
<1>1. Init => (Asked => Contract!Init)
  BY DEF Init, Contract!Init
<1>2. IInv /\ [Next]_vars => [Asked => Contract!Next]_<<events, returned>>
  BY StepContract DEF Contract!vars
<1> QED BY <1>1, <1>2, Invariance, PTL DEF Spec, ImplementsContract

\* So such a call keeps the whole of the contract, and the one call that the
\* header promises an event and the code gives none is the one with a callback
\* and no messages.
THEOREM ContractKept == Spec /\ Asked => Contract!Spec
<1>1. Init => Contract!Init
  BY DEF Init, Contract!Init
<1>2. Asked /\ [Next]_vars => Asked'
  BY AskedStays DEF Asked
<1> QED BY <1>1, <1>2, StepContract, Invariance, PTL DEF Spec, Contract!Spec

----------------------------------------------------------------------------
(***************************************************************************)
(* The reference, one token further.                                       *)
(***************************************************************************)

\* x is the next token, and this is the line that it may end.
Current(n) == SubSeq(stream, LastBefore(n + 1, RefBreaks) + 1, n)

LEMMA BreaksAre ==
  /\ RefBreaks \subseteq 1..Len(stream)
  /\ \A i \in 1..Len(stream) : i \in RefBreaks <=> stream[i] = "LF"
  /\ RefBlanks \subseteq RefBreaks
  /\ \A i \in RefBreaks : i \in RefBlanks <=> RefLine(i) = <<>>
  BY DEF RefBreaks, RefBlanks

LEMMA BeforeNext ==
  ASSUME NEW S, S \subseteq Nat, NEW i \in Nat
  PROVE  LastBefore(i + 1, S) = IF i \in S THEN i ELSE LastBefore(i, S)
<1>1. CASE i \in S
  <2> DEFINE T == {0} \cup {j \in S : j < i + 1}
  <2>1. i \in T /\ \A j \in T : i >= j /\ j \in Nat
    BY <1>1
  <2> HIDE DEF T
  <2>2. \A m \in T : (\A j \in T : m >= j) => m = i
    BY <2>1
  <2>3. Max(T) = i
    BY <2>1, <2>2 DEF Max
  <2> QED BY <1>1, <2>3 DEF T, LastBefore
<1>2. CASE i \notin S
  <2>1. {j \in S : j < i + 1} = {j \in S : j < i}
    <3>1. \A j \in S : j \in Nat /\ j # i
      BY <1>2
    <3>2. \A j \in S : j < i + 1 <=> j < i
      BY <3>1
    <3> QED BY <3>2
  <2> QED BY <1>2, <2>1 DEF LastBefore
<1> QED BY <1>1, <1>2

LEMMA BeforeType ==
  ASSUME NEW S, S \subseteq Nat PROVE \A n \in Nat : LastBefore(n + 1, S) \in 0..n
<1> DEFINE T == {n \in Nat : LastBefore(n + 1, S) \in 0..n}
<1>1. 0 \in T
  <2>1. {0} \cup {j \in S : j < 0} = {0}
    <3>1. \A j \in S : j \in Nat
      OBVIOUS
    <3>2. \A j \in S : ~(j < 0)
      BY <3>1
    <3> QED BY <3>2
  <2>2. Max({0}) = 0
    BY DEF Max
  <2>3. LastBefore(0, S) = 0
    BY <2>1, <2>2 DEF LastBefore
  <2>4. LastBefore(0 + 1, S) = 0
    BY <2>3, BeforeNext
  <2> QED BY <2>4
<1>2. \A n \in Nat : n \in T => n + 1 \in T
  <2> SUFFICES ASSUME NEW n \in Nat, LastBefore(n + 1, S) \in 0..n
               PROVE  LastBefore((n + 1) + 1, S) \in 0..(n + 1)
    OBVIOUS
  <2>1. n + 1 \in Nat
    OBVIOUS
  <2>2. LastBefore((n + 1) + 1, S) = IF n + 1 \in S THEN n + 1 ELSE LastBefore(n + 1, S)
    BY <2>1, BeforeNext
  <2> QED BY <2>2
<1>3. \A n \in Nat : n \in T
  <2> HIDE DEF T
  <2> QED BY <1>1, <1>2, SetInduction
<1> QED BY <1>3

LEMMA BoundsOf ==
  ASSUME stream \in Seq(Token), NEW n \in Nat
  PROVE  /\ LastBefore(n + 1, RefBreaks) \in 0..n /\ LastBefore(n + 1, RefBlanks) \in 0..n
         /\ LastBefore((n + 1) + 1, RefBreaks)
              = IF n + 1 \in RefBreaks THEN n + 1 ELSE LastBefore(n + 1, RefBreaks)
         /\ LastBefore((n + 1) + 1, RefBlanks)
              = IF n + 1 \in RefBlanks THEN n + 1 ELSE LastBefore(n + 1, RefBlanks)
<1>1. RefBreaks \subseteq Nat /\ RefBlanks \subseteq Nat /\ n + 1 \in Nat
  BY BreaksAre, LenProperties
<1> QED BY <1>1, BeforeType, BeforeNext

LEMMA CurrentType ==
  ASSUME stream \in Seq(Token), NEW n \in 0..Len(stream) PROVE Current(n) \in Seq(Token)
<1>1. Len(stream) \in Nat
  BY LenProperties
<1>2. LastBefore(n + 1, RefBreaks) \in 0..n
  BY <1>1, BoundsOf
<1>3. \A i \in (LastBefore(n + 1, RefBreaks) + 1)..n : stream[i] \in Token
  BY <1>1, <1>2, ElementOfSeq
<1> QED BY <1>1, <1>2, <1>3, SubSeqProperties DEF Current

\* The line that the break after n ends.
LEMMA LineAtBreak ==
  ASSUME stream \in Seq(Token), NEW n \in Nat, n + 1 \in RefBreaks
  PROVE  /\ RefLine(n + 1) = StripCR(Current(n))
         /\ StripCR(Current(n)) \in Seq(Token)
<1>1. n \in 0..Len(stream) /\ (n + 1) - 1 = n
  BY BreaksAre, LenProperties
<1>2. RefLine(n + 1) = StripCR(Current(n))
  BY <1>1 DEF RefLine, Current
<1> QED BY <1>1, <1>2, CurrentType, LineType

LEMMA LineOfBreak ==
  ASSUME stream \in Seq(Token), NEW j \in RefBreaks
  PROVE  RefLine(j) \in Seq(Token)
<1>1. j - 1 \in Nat /\ (j - 1) + 1 = j
  BY BreaksAre, LenProperties
<1> QED BY <1>1, LineAtBreak

\* The data lines of the block, one token further.
LEMMA DataNext ==
  ASSUME stream \in Seq(Token), NEW n \in Nat
  PROVE  RefData((n + 1) + 1) =
           IF n + 1 \in RefBlanks THEN {}
           ELSE IF n + 1 \in RefBreaks /\ Head(RefLine(n + 1)) = "data:"
           THEN RefData(n + 1) \cup {n + 1}
           ELSE RefData(n + 1)
<1> DEFINE R(i) == RefData(i)
           H(j) == Head(RefLine(j)) = "data:"
<1>1. \A i : R(i) = {j \in RefBreaks \ RefBlanks : LastBefore(i, RefBlanks) < j /\ j < i /\ H(j)}
  BY DEF RefData
<1>2. \A j \in RefBreaks : j \in Nat
  BY BreaksAre, LenProperties
<1>3. /\ LastBefore(n + 1, RefBlanks) \in 0..n
      /\ LastBefore((n + 1) + 1, RefBlanks)
           = IF n + 1 \in RefBlanks THEN n + 1 ELSE LastBefore(n + 1, RefBlanks)
  BY BoundsOf
<1> HIDE DEF R, H
<1>4. CASE n + 1 \in RefBlanks
  BY <1>1, <1>2, <1>3, <1>4 DEF R
<1>5. CASE n + 1 \notin RefBlanks
  <2> DEFINE b == LastBefore(n + 1, RefBlanks)
  <2>1. /\ R((n + 1) + 1) = {j \in RefBreaks \ RefBlanks : b < j /\ j < (n + 1) + 1 /\ H(j)}
        /\ R(n + 1) = {j \in RefBreaks \ RefBlanks : b < j /\ j < n + 1 /\ H(j)}
    BY <1>1, <1>3, <1>5
  <2>2. b \in 0..n
    BY <1>3
  <2> HIDE DEF b
  <2>3. \A j \in RefBreaks : j < (n + 1) + 1 <=> (j < n + 1 \/ j = n + 1)
    BY <1>2
  <2>4. CASE n + 1 \in RefBreaks /\ H(n + 1)
    BY <1>5, <2>1, <2>2, <2>3, <2>4 DEF R, H
  <2>5. CASE ~(n + 1 \in RefBreaks /\ H(n + 1))
    BY <1>5, <2>1, <2>3, <2>5 DEF R, H
  <2> QED BY <2>4, <2>5
<1> QED BY <1>4, <1>5

LEMMA ValueIs ==
  ASSUME NEW line \in Seq(Token), line # <<>>
  PROVE  RefValue(line) = FieldValue(line) /\ FieldValue(line) \in Seq(Token)
<1> DEFINE v == Tail(line)
<1>1. /\ Len(line) \in Nat \ {0} /\ v \in Seq(Token) /\ Len(v) = Len(line) - 1
      /\ \A i \in 1..Len(v) : v[i] = line[i + 1]
  BY HeadTailProperties, LenProperties, EmptySeq
<1> HIDE DEF v
<1>2. v # <<>> <=> Len(line) >= 2
  <2>1. v # <<>> <=> Len(v) # 0
    BY <1>1, EmptySeq
  <2> QED BY <1>1, <2>1
<1>3. ASSUME v # <<>> PROVE Head(v) = line[2] /\ Tail(v) = SubSeq(line, 3, Len(line))
  <2> DEFINE w == Tail(v)
             u == SubSeq(line, 3, Len(line))
  <2>1. Head(v) = v[1] /\ v[1] = line[2]
    BY <1>1, <1>2, <1>3, HeadTailProperties
  <2>2. /\ w \in Seq(Token) /\ Len(w) = Len(line) - 2
        /\ \A i \in 1..(Len(line) - 2) : w[i] = v[i + 1]
    <3>1. w \in Seq(Token) /\ Len(w) = Len(v) - 1 /\ \A i \in 1..Len(w) : w[i] = v[i + 1]
      BY <1>1, <1>3, HeadTailProperties
    <3>2. Len(w) = Len(line) - 2
      BY <1>1, <3>1
    <3> QED BY <3>1, <3>2
  <2>3. \A i \in 3..Len(line) : line[i] \in Token
    BY <1>1, ElementOfSeq
  <2>4. /\ u \in Seq(Token) /\ Len(u) = Len(line) - 2
        /\ \A i \in 1..(Len(line) - 2) : u[i] = line[i + 2]
    <3>1. /\ u \in Seq(Token) /\ Len(u) = IF 3 <= Len(line) THEN Len(line) - 3 + 1 ELSE 0
          /\ \A i \in 1..(Len(line) - 3 + 1) : u[i] = line[3 + i - 1]
      BY <1>1, <2>3, SubSeqProperties
    <3>2. Len(u) = Len(line) - 2
      BY <1>1, <1>2, <1>3, <3>1
    <3> QED BY <1>1, <3>1, <3>2
  <2> HIDE DEF w, u
  <2>5. \A i \in 1..(Len(line) - 2) : w[i] = u[i]
    <3> TAKE i \in 1..(Len(line) - 2)
    <3>1. i + 1 \in 1..Len(v) /\ (i + 1) + 1 = i + 2
      BY <1>1
    <3>2. v[i + 1] = line[i + 2]
      BY <1>1, <3>1
    <3> QED BY <2>2, <2>4, <3>2
  <2>6. w = u
    BY <2>2, <2>4, <2>5, SeqEqual
  <2> QED BY <2>1, <2>6 DEF w, u
<1>4. RefValue(line) = FieldValue(line)
  BY <1>2, <1>3 DEF RefValue, FieldValue, v
<1> QED BY <1>4, LineType

\* The lines of a block's data are not empty.
LEMMA DataAre ==
  ASSUME stream \in Seq(Token), NEW i, NEW j \in RefData(i)
  PROVE  /\ j \in RefBreaks /\ RefLine(j) \in Seq(Token)
         /\ RefLine(j) # <<>>
<1>1. j \in RefBreaks \ RefBlanks
  BY DEF RefData
<1> QED BY <1>1, BreaksAre, LineOfBreak

LEMMA PartType ==
  ASSUME stream \in Seq(Token), NEW i, NEW j PROVE RefPart(i, j) \in Seq(Token)
<1> DEFINE v == RefValue(RefLine(j))
<1>1. CASE j \in RefData(i)
  <2>1. v \in Seq(Token)
    BY <1>1, DataAre, ValueIs
  <2> HIDE DEF v
  <2>2. <<"NL">> \in Seq(Token)
    BY DEF Token
  <2>3. <<"NL">> \o v \in Seq(Token)
    BY <2>1, <2>2, ConcatProperties
  <2>4. RefPart(i, j) \in {v, <<"NL">> \o v}
    BY <1>1 DEF RefPart, v
  <2> QED BY <2>1, <2>3, <2>4
<1>2. CASE j \notin RefData(i)
  BY <1>2, EmptySeq DEF RefPart
<1> QED BY <1>1, <1>2

Parts(n) == [j \in 1..n |-> RefPart(n + 1, j)]

LEMMA PartsType ==
  ASSUME stream \in Seq(Token), NEW n \in Nat
  PROVE  /\ Parts(n) \in Seq(Seq(Token)) /\ Len(Parts(n)) = n
         /\ \A j \in 1..n : Parts(n)[j] = RefPart(n + 1, j)
         /\ RefEvent(n + 1) = FlattenSeq(Parts(n))
         /\ RefEvent(n + 1) \in Seq(Token)
<1> DEFINE ps == Parts(n)
<1>1. \A j \in 1..n : ps[j] = RefPart(n + 1, j)
  BY DEF Parts
<1>2. \A j \in 1..n : ps[j] \in Seq(Token)
  BY <1>1, PartType
<1>3. ps = [j \in 1..n |-> ps[j]] /\ DOMAIN ps = 1..n
  BY DEF Parts
<1>4. (n + 1) - 1 = n
  OBVIOUS
<1>5. RefEvent(n + 1) = FlattenSeq(ps)
  BY <1>4 DEF RefEvent, Parts
<1> HIDE DEF ps
<1>6. ps \in Seq(Seq(Token)) /\ Len(ps) = n
  BY <1>2, <1>3, SeqByIndex
<1>7. FlattenSeq(ps) \in Seq(Token)
  BY <1>6, FlattenType
<1> QED BY <1>1, <1>5, <1>6, <1>7 DEF ps

\* What the next token adds to the event.
LEMMA EventGrows ==
  ASSUME stream \in Seq(Token), NEW n \in Nat,
         \A j \in 1..n : RefPart((n + 1) + 1, j) = RefPart(n + 1, j)
  PROVE  RefEvent((n + 1) + 1)
           = RefEvent(n + 1) \o RefPart((n + 1) + 1, n + 1)
<1> DEFINE g == Parts(n)
           h == Parts(n + 1)
<1>1. n + 1 \in Nat
  OBVIOUS
<1>2. /\ g \in Seq(Seq(Token)) /\ Len(g) = n
      /\ \A j \in 1..n : g[j] = RefPart(n + 1, j)
      /\ RefEvent(n + 1) = FlattenSeq(g)
  BY PartsType
<1>3. /\ h \in Seq(Seq(Token)) /\ Len(h) = n + 1
      /\ \A j \in 1..(n + 1) : h[j] = RefPart((n + 1) + 1, j)
      /\ RefEvent((n + 1) + 1) = FlattenSeq(h)
  BY <1>1, PartsType
<1> HIDE DEF g, h
<1>4. \A i \in 1..Len(g) : h[i] = g[i]
  <2> TAKE i \in 1..Len(g)
  <2>1. i \in 1..n /\ i \in 1..(n + 1)
    BY <1>2
  <2> QED BY <1>2, <1>3, <2>1
<1>5. FlattenSeq(h) = FlattenSeq(g) \o h[n + 1]
  BY <1>2, <1>3, <1>4, FlattenGrows
<1>6. h[n + 1] = RefPart((n + 1) + 1, n + 1)
  BY <1>3
<1> QED BY <1>2, <1>3, <1>5, <1>6

\* The event of the block, one token further.
LEMMA EventNext ==
  ASSUME stream \in Seq(Token), NEW n \in Nat
  PROVE  LET line == RefLine(n + 1)
             so_far == RefEvent(n + 1)
         IN  RefEvent((n + 1) + 1) =
               IF n + 1 \in RefBlanks THEN <<>>
               ELSE IF n + 1 \in RefBreaks /\ Head(line) = "data:"
               THEN (IF RefData(n + 1) = {} THEN so_far ELSE Append(so_far, "NL"))
                      \o FieldValue(line)
               ELSE so_far
<1> DEFINE line == RefLine(n + 1)
           E == RefEvent(n + 1)
           E2 == RefEvent((n + 1) + 1)
           R == RefData(n + 1)
           R2 == RefData((n + 1) + 1)
           P(j) == RefPart(n + 1, j)
           P2(j) == RefPart((n + 1) + 1, j)
           V(j) == RefValue(RefLine(j))
<1>1. R2 = IF n + 1 \in RefBlanks THEN {}
           ELSE IF n + 1 \in RefBreaks /\ Head(line) = "data:" THEN R \cup {n + 1} ELSE R
  BY DataNext
<1>2. R \subseteq 1..n
  <2>1. \A j \in R : j \in 1..Len(stream) /\ j < n + 1
    BY BreaksAre DEF RefData
  <2>2. Len(stream) \in Nat
    BY LenProperties
  <2> QED BY <2>1, <2>2
<1>3. \A j : /\ j \notin R => P(j) = <<>>
             /\ (j \in R /\ R \cap 1..(j - 1) = {}) => P(j) = V(j)
             /\ (j \in R /\ R \cap 1..(j - 1) # {}) => P(j) = <<"NL">> \o V(j)
  BY DEF RefPart
<1>4. \A j : /\ j \notin R2 => P2(j) = <<>>
             /\ (j \in R2 /\ R2 \cap 1..(j - 1) = {}) => P2(j) = V(j)
             /\ (j \in R2 /\ R2 \cap 1..(j - 1) # {}) => P2(j) = <<"NL">> \o V(j)
  BY DEF RefPart
<1>5. E \in Seq(Token)
  BY PartsType
<1>6. (\A j \in 1..n : P2(j) = P(j)) => E2 = E \o P2(n + 1)
  BY EventGrows
<1>7. n + 1 \notin R
  BY <1>2
<1>8. CASE n + 1 \in RefBlanks
  <2>1. n + 1 \in Nat
    OBVIOUS
  <2> DEFINE h == Parts(n + 1)
  <2>2. /\ h \in Seq(Seq(Token)) /\ Len(h) = n + 1
        /\ \A j \in 1..(n + 1) : h[j] = P2(j)
        /\ E2 = FlattenSeq(h)
    BY <2>1, PartsType
  <2>3. \A j : P2(j) = <<>>
    BY <1>1, <1>4, <1>8
  <2> HIDE DEF h, E2, P2
  <2>4. \A j \in 1..Len(h) : h[j] = <<>>
    BY <2>2, <2>3
  <2>5. E2 = <<>>
    BY <2>2, <2>4, FlattenNothing
  <2> QED BY <1>8, <2>5 DEF E2
<1>9. CASE n + 1 \notin RefBlanks /\ n + 1 \in RefBreaks /\ Head(line) = "data:"
  <2>1. R2 = R \cup {n + 1}
    BY <1>1, <1>9
  <2> HIDE DEF R, R2, P, P2, V, E, E2
  <2>2. \A j \in 1..n : P2(j) = P(j)
    <3> TAKE j \in 1..n
    <3>1. j \in R2 <=> j \in R
      BY <2>1
    <3>2. R2 \cap 1..(j - 1) = R \cap 1..(j - 1)
      BY <2>1
    <3> QED BY <1>3, <1>4, <3>1, <3>2
  <2>3. R2 \cap 1..((n + 1) - 1) = R
    <3>1. (n + 1) - 1 = n /\ n + 1 \notin 1..n
      OBVIOUS
    <3> QED BY <1>2, <2>1, <3>1
  <2>4. P2(n + 1) = IF R = {} THEN V(n + 1) ELSE <<"NL">> \o V(n + 1)
    BY <1>4, <2>1, <2>3
  <2>5. E2 = E \o P2(n + 1)
    BY <1>6, <2>2
  <2>6. V(n + 1) = FieldValue(line) /\ FieldValue(line) \in Seq(Token)
    BY <1>9, BreaksAre, LineOfBreak, ValueIs DEF V
  <2> DEFINE F == FieldValue(line)
  <2>7. F \in Seq(Token) /\ <<"NL">> \in Seq(Token) /\ "NL" \in Token
    BY <2>6 DEF Token
  <2>8. Append(E, "NL") = E \o <<"NL">>
    BY <1>5, <2>7, AppendIsConcat
  <2> HIDE DEF F
  <2>9. E \o (<<"NL">> \o F) = (E \o <<"NL">>) \o F
    BY <1>5, <2>7, ConcatAssociative
  <2>10. E2 = (IF R = {} THEN E ELSE Append(E, "NL")) \o F
    BY <2>4, <2>5, <2>6, <2>8, <2>9 DEF F
  <2> QED BY <1>9, <2>10 DEF E, E2, R, F
<1>10. CASE n + 1 \notin RefBlanks /\ ~(n + 1 \in RefBreaks /\ Head(line) = "data:")
  <2>1. R2 = R
    BY <1>1, <1>10
  <2> HIDE DEF R, R2, P, P2, V, E, E2
  <2>2. \A j : P2(j) = P(j)
    BY <1>3, <1>4, <2>1
  <2>3. P2(n + 1) = <<>>
    BY <1>4, <1>7, <2>1
  <2>4. E2 = E
    BY <1>5, <1>6, <2>2, <2>3, ConcatEmptySeq
  <2> QED BY <1>10, <2>4 DEF E, E2
<1> QED BY <1>8, <1>9, <1>10

Dispatches(n) ==
  [b \in 1..n |-> IF b \in RefBlanks /\ RefData(b) # {}
                  THEN <<RefEvent(b)>> ELSE <<>>]

LEMMA DispatchesType ==
  ASSUME stream \in Seq(Token), NEW n \in Nat
  PROVE  /\ Dispatches(n) \in Seq(Seq(Seq(Token))) /\ Len(Dispatches(n)) = n
         /\ \A b \in 1..n : Dispatches(n)[b] = IF b \in RefBlanks /\ RefData(b) # {}
                                               THEN <<RefEvent(b)>> ELSE <<>>
         /\ RefEvents(n) = FlattenSeq(Dispatches(n))
         /\ RefEvents(n) \in Seq(Seq(Token))
<1> DEFINE ds == Dispatches(n)
<1>1. \A b \in 1..n : ds[b] = IF b \in RefBlanks /\ RefData(b) # {}
                              THEN <<RefEvent(b)>> ELSE <<>>
  BY DEF Dispatches
<1>2. \A b \in 1..n : ds[b] \in Seq(Seq(Token))
  <2> TAKE b \in 1..n
  <2>1. b - 1 \in Nat /\ (b - 1) + 1 = b
    OBVIOUS
  <2>2. RefEvent(b) \in Seq(Token)
    BY <2>1, PartsType
  <2>3. <<RefEvent(b)>> \in Seq(Seq(Token)) /\ <<>> \in Seq(Seq(Token))
    BY <2>2
  <2> QED BY <1>1, <2>3
<1>3. ds = [b \in 1..n |-> ds[b]] /\ DOMAIN ds = 1..n
  BY DEF Dispatches
<1>4. RefEvents(n) = FlattenSeq(ds)
  BY DEF RefEvents, Dispatches
<1> HIDE DEF ds
<1>5. ds \in Seq(Seq(Seq(Token))) /\ Len(ds) = n
  BY <1>2, <1>3, SeqByIndex
<1>6. FlattenSeq(ds) \in Seq(Seq(Token))
  BY <1>5, FlattenType
<1> QED BY <1>1, <1>4, <1>5, <1>6 DEF ds

LEMMA EventsNext ==
  ASSUME stream \in Seq(Token), NEW n \in Nat
  PROVE  RefEvents(n + 1) =
           RefEvents(n) \o
             (IF n + 1 \in RefBlanks /\ RefData(n + 1) # {}
              THEN <<RefEvent(n + 1)>> ELSE <<>>)
<1> DEFINE g == Dispatches(n)
           h == Dispatches(n + 1)
           D(b) == IF b \in RefBlanks /\ RefData(b) # {}
                   THEN <<RefEvent(b)>> ELSE <<>>
<1>1. n + 1 \in Nat
  OBVIOUS
<1>2. /\ g \in Seq(Seq(Seq(Token))) /\ Len(g) = n /\ \A b \in 1..n : g[b] = D(b)
      /\ RefEvents(n) = FlattenSeq(g)
  BY DispatchesType
<1>3. /\ h \in Seq(Seq(Seq(Token))) /\ Len(h) = n + 1 /\ \A b \in 1..(n + 1) : h[b] = D(b)
      /\ RefEvents(n + 1) = FlattenSeq(h)
  BY <1>1, DispatchesType
<1> HIDE DEF g, h, D
<1>4. \A i \in 1..Len(g) : h[i] = g[i]
  BY <1>2, <1>3
<1>5. FlattenSeq(h) = FlattenSeq(g) \o h[n + 1]
  <2> DEFINE S == Seq(Token)
  <2>1. g \in Seq(Seq(S)) /\ h \in Seq(Seq(S)) /\ Len(h) = Len(g) + 1 /\ Len(g) = n
    BY <1>2, <1>3
  <2> HIDE DEF S
  <2> QED BY <1>4, <2>1, FlattenGrows
<1>6. h[n + 1] = D(n + 1)
  BY <1>3
<1> QED BY <1>2, <1>3, <1>5, <1>6 DEF D

----------------------------------------------------------------------------
(***************************************************************************)
(* The reader and the reference, token by token.                           *)
(***************************************************************************)

First(n) == SubSeq(stream, 1, n)

\* After n tokens the reader holds what the reference says of them.
Reads(n) ==
    LET p == Feed(FreshParser, First(n))
    IN  /\ p.buffer = Current(n)
        /\ p.accum = RefEvent(n + 1)
        /\ p.haveData = (RefData(n + 1) # {})
        /\ p.out = RefEvents(n)

LEMMA ReadsNothing == ASSUME stream \in Seq(Token) PROVE Reads(0)
<1>1. First(0) = <<>> /\ Current(0) = <<>>
  <2>1. /\ LastBefore(0 + 1, RefBreaks) = 0
    BY BoundsOf
  <2>2. SubSeq(stream, 1, 0) = <<>>
    BY SubSeqEmpty
  <2> QED BY <2>1, <2>2 DEF First, Current
<1>2. Feed(FreshParser, First(0)) = FreshParser
  BY <1>1, FreshIdle, FeedNothing
<1>3. RefEvent(0 + 1) = <<>>
  <2> DEFINE ps == Parts(0)
  <2>1. ps \in Seq(Seq(Token)) /\ Len(ps) = 0 /\ RefEvent(0 + 1) = FlattenSeq(ps)
    BY PartsType
  <2> HIDE DEF ps
  <2> QED BY <2>1, EmptySeq, FlattenEmpty
<1>4. RefEvents(0) = <<>>
  <2> DEFINE ds == Dispatches(0)
  <2>1. ds \in Seq(Seq(Seq(Token))) /\ Len(ds) = 0 /\ RefEvents(0) = FlattenSeq(ds)
    BY DispatchesType
  <2> HIDE DEF ds
  <2>2. ds = <<>>
    BY <2>1, EmptySeq
  <2> QED BY <2>1, <2>2, FlattenEmpty
<1>5. RefData(0 + 1) = {}
  <2>1. \A j \in RefData(0 + 1) : j \in 1..Len(stream) /\ j < 0 + 1
    BY BreaksAre DEF RefData
  <2> QED BY <2>1, LenProperties
<1>6. (RefData(0 + 1) # {}) = FALSE
  BY <1>5
<1>7. /\ FreshParser.buffer = <<>> /\ FreshParser.accum = <<>>
      /\ FreshParser.haveData = FALSE /\ FreshParser.out = <<>>
  BY DEF FreshParser
<1> QED BY <1>1, <1>2, <1>3, <1>4, <1>6, <1>7 DEF Reads

\* Both take the next token alike.
LEMMA ReadsNext ==
  ASSUME stream \in Seq(Token), NEW n \in Nat, n < Len(stream), Reads(n) PROVE Reads(n + 1)
<1> DEFINE x == stream[n + 1]
           q == Feed(FreshParser, First(n))
           r == Feed(FreshParser, First(n + 1))
           c == Current(n)
           l == StripCR(c)
<1>1. Len(stream) \in Nat /\ n \in 0..Len(stream) /\ n + 1 \in 1..Len(stream) /\ 1 \in 1..(n + 1)
  BY LenProperties
<1>2. First(n) \in Seq(Token) /\ x \in Token /\ First(n + 1) = Append(First(n), x)
  BY <1>1, SubSeqGrows DEF First
<1>3. r = At(q, x) /\ q \in Parser
  BY <1>2, FeedAppend, FeedType, FreshIdle DEF Idle
<1>4. /\ q.buffer = c /\ q.accum = RefEvent(n + 1)
      /\ q.haveData = (RefData(n + 1) # {}) /\ q.out = RefEvents(n)
  BY DEF Reads
<1>5. /\ RefEvents(n + 1) =
           RefEvents(n) \o
             (IF n + 1 \in RefBlanks /\ RefData(n + 1) # {}
              THEN <<RefEvent(n + 1)>> ELSE <<>>)
  BY EventsNext
<1>6. LastBefore(n + 1, RefBreaks) \in 0..n
      /\ LastBefore((n + 1) + 1, RefBreaks)
           = IF n + 1 \in RefBreaks THEN n + 1 ELSE LastBefore(n + 1, RefBreaks)
  BY BoundsOf
<1>7. x = "LF" <=> n + 1 \in RefBreaks
  BY <1>1, BreaksAre
<1> HIDE DEF q, r, x
<1>8. CASE x # "LF"
  <2>1. n + 1 \notin RefBreaks /\ n + 1 \notin RefBlanks
    BY <1>7, <1>8, BreaksAre
  <2>2. r = State(Append(q.buffer, x), q.accum, q.haveData, q.out)
    BY <1>3, <1>8 DEF At
  <2>3. /\ r.buffer = Append(q.buffer, x) /\ r.accum = q.accum
        /\ r.haveData = q.haveData /\ r.out = q.out
    <3> DEFINE b2 == Append(q.buffer, x)
    <3>1. r = State(b2, q.accum, q.haveData, q.out)
      BY <2>2
    <3> HIDE DEF b2
    <3>2. r.buffer = b2 /\ r.accum = q.accum /\ r.haveData = q.haveData /\ r.out = q.out
      BY <3>1, StateMembers
    <3> QED BY <3>2 DEF b2
  <2>4. r.buffer = Current(n + 1)
    <3>1. Current(n + 1) = SubSeq(stream, LastBefore(n + 1, RefBreaks) + 1, n + 1)
      BY <1>6, <2>1 DEF Current
    <3>2. LastBefore(n + 1, RefBreaks) + 1 \in 1..(n + 1)
      BY <1>6
    <3>3. Current(n + 1) = Append(c, x)
      BY <3>1, <3>2, SubSeqGrows DEF Current, x
    <3> QED BY <1>4, <2>3, <3>3
  <2>5. r.accum = RefEvent((n + 1) + 1)
    BY <1>4, <2>1, <2>3, EventNext
  <2>6. r.haveData = (RefData((n + 1) + 1) # {})
    BY <1>4, <2>1, <2>3, DataNext
  <2>7. r.out = RefEvents(n + 1)
    <3>1. RefEvents(n) \o <<>> = RefEvents(n)
      BY DispatchesType, ConcatEmptySeq
    <3> QED BY <1>4, <1>5, <2>1, <2>3, <3>1
  <2> QED BY <2>4, <2>5, <2>6, <2>7 DEF Reads, r
<1>9. CASE x = "LF"
  <2>1. n + 1 \in RefBreaks
    BY <1>7, <1>9
  <2>2. RefLine(n + 1) = l /\ l \in Seq(Token)
    BY <2>1, LineAtBreak
  <2>3. n + 1 \in RefBlanks <=> l = <<>>
    BY <2>1, <2>2, BreaksAre
  <2>4. r = State(<<>>, Accum(q.accum, q.haveData, c), HaveData(q.haveData, c),
                  q.out \o Dispatched(q.accum, q.haveData, c))
    BY <1>3, <1>4, <1>9 DEF At
  <2> DEFINE a2 == Accum(q.accum, q.haveData, c)
             h2 == HaveData(q.haveData, c)
             o2 == q.out \o Dispatched(q.accum, q.haveData, c)
  <2> HIDE DEF a2, h2, o2
  <2>5. r.buffer = <<>> /\ r.accum = a2 /\ r.haveData = h2 /\ r.out = o2
    <3>1. r = State(<<>>, a2, h2, o2)
      BY <2>4 DEF a2, h2, o2
    <3> QED BY <3>1, StateMembers
  <2>6. r.buffer = Current(n + 1)
    <3>1. Current(n + 1) = SubSeq(stream, (n + 1) + 1, n + 1)
      BY <1>6, <2>1 DEF Current
    <3>2. (n + 1) + 1 \in Nat \ {0} /\ n + 1 \in Nat /\ (n + 1) + 1 > n + 1
      OBVIOUS
    <3>3. Current(n + 1) = <<>>
      BY <3>1, <3>2, SubSeqEmpty
    <3> QED BY <2>5, <3>3
  <2>7. a2 = RefEvent((n + 1) + 1)
    BY <1>4, <2>1, <2>2, <2>3, EventNext DEF a2, Accum, IsField
  <2>8. h2 = (RefData((n + 1) + 1) # {})
    BY <1>4, <2>1, <2>2, <2>3, DataNext DEF h2, HaveData, IsField
  <2>9. o2 = RefEvents(n + 1)
    BY <1>4, <1>5, <2>2, <2>3 DEF o2, Dispatched
  <2> QED BY <2>5, <2>6, <2>7, <2>8, <2>9 DEF Reads, r
<1> QED BY <1>8, <1>9

LEMMA ReadsAll == ASSUME stream \in Seq(Token) PROVE \A n \in 0..Len(stream) : Reads(n)
<1> DEFINE T == {n \in Nat : n <= Len(stream) => Reads(n)}
<1>1. 0 \in T
  BY ReadsNothing
<1>2. \A n \in Nat : n \in T => n + 1 \in T
  <2> SUFFICES ASSUME NEW n \in Nat, n \in T, n + 1 <= Len(stream) PROVE Reads(n + 1)
    OBVIOUS
  <2>1. n < Len(stream) /\ Reads(n)
    BY LenProperties
  <2> QED BY <2>1, ReadsNext
<1>3. \A n \in Nat : n \in T
  <2> HIDE DEF T
  <2> QED BY <1>1, <1>2, SetInduction
<1> QED BY <1>3, LenProperties

----------------------------------------------------------------------------

\* What has been fed makes the reader, however it was cut.
FedIInv ==
    /\ stream \in Seq(Token) /\ fed \in 0..Len(stream)
    /\ reader = Feed(FreshParser, First(fed))

LEMMA InitFed == FeedInit => FedIInv
<1> SUFFICES ASSUME FeedInit PROVE FedIInv
  OBVIOUS
<1>1. stream \in Seq(Token) /\ fed = 0 /\ reader = FreshParser
  BY StreamsAssumption, StringsAreTokens DEF FeedInit
<1>2. First(0) = <<>>
  BY SubSeqEmpty DEF First
<1> QED BY <1>1, <1>2, FreshIdle, FeedNothing, LenProperties DEF FedIInv

LEMMA StepFed == FedIInv /\ [FeedNext]_feedVars => FedIInv'
<1> SUFFICES ASSUME FedIInv, FeedNext \/ UNCHANGED <<stream, fed, reader>>
             PROVE  FedIInv'
  BY DEF feedVars
<1>1. ASSUME NEW n \in 1..(Len(stream) - fed), FeedPiece(n) PROVE FedIInv'
  <2> DEFINE done == First(fed)
             piece == SubSeq(stream, fed + 1, fed + n)
             all == First(fed + n)
  <2>1. /\ reader' = Feed(reader, piece) /\ fed' = fed + n /\ stream' = stream
        /\ reader = Feed(FreshParser, done) /\ stream \in Seq(Token)
        /\ Len(stream) \in Nat /\ fed \in Nat /\ fed + n \in Nat /\ fed + n <= Len(stream)
    BY <1>1, LenProperties DEF FedIInv, FeedPiece
  <2>2. done \in Seq(Token) /\ piece \in Seq(Token) /\ all = done \o piece
    <3>1. \A i \in 1..Len(stream) : stream[i] \in Token
      BY <2>1, ElementOfSeq
    <3>2. done \in Seq(Token)
      <4>1. \A i \in 1..fed : stream[i] \in Token
        BY <2>1, <3>1
      <4> QED BY <2>1, <4>1, SubSeqProperties DEF First
    <3>3. piece \in Seq(Token)
      <4>1. \A i \in (fed + 1)..(fed + n) : stream[i] \in Token
        BY <2>1, <3>1
      <4> QED BY <2>1, <4>1, SubSeqProperties
    <3>4. 1 \in 1..(Len(stream) + 1) /\ fed \in (1 - 1)..Len(stream) /\ fed + n \in fed..Len(stream)
      BY <2>1
    <3> QED BY <2>1, <3>2, <3>3, <3>4, ConcatAdjacentSubSeq DEF First
  <2> HIDE DEF done, piece, all
  <2>3. reader.buffer \o piece \in Seq(Token)
    <3>1. reader \in Parser
      BY <2>1, <2>2, FeedType, FreshIdle DEF Idle
    <3>2. reader.buffer \in Seq(Token)
      BY <3>1, StateIs
    <3> QED BY <2>2, <3>2, ConcatProperties
  <2>4. reader' = Feed(reader, piece)
    BY <2>1, <2>3
  <2>5. reader' = Feed(FreshParser, done \o piece)
    BY <2>1, <2>2, <2>4, FreshIdle, FeedConcat
  <2>6. reader' = Feed(FreshParser, all)
    BY <2>2, <2>5
  <2> QED BY <2>1, <2>6 DEF FedIInv, First, all
<1>2. CASE UNCHANGED <<stream, fed, reader>>
  BY <1>2 DEF FedIInv, First
<1> QED BY <1>1, <1>2 DEF FeedNext

\* For every stream and every cut of it, exactly the events whose blank line has
\* arrived have been dispatched, each with its data lines joined, in order
\* (SseParser.h:15-16).
THEOREM DispatchesAlways == FeedSpec => []DispatchesCompleteEvents
<1>1. FedIInv => DispatchesCompleteEvents
  <2> SUFFICES ASSUME FedIInv PROVE DispatchesCompleteEvents
    OBVIOUS
  <2>1. Reads(fed)
    BY ReadsAll DEF FedIInv
  <2> QED BY <2>1 DEF Reads, FedIInv, DispatchesCompleteEvents
<1> QED BY <1>1, InitFed, StepFed, PTL DEF FeedSpec
=============================================================================
