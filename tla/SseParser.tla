----------------------------- MODULE SseParser -----------------------------
(***************************************************************************)
(* The Server-Sent-Events parser of src/adapters/common/SseParser.cpp, as  *)
(* operators on its state.  The text is a sequence of tokens: "LF", "CR",  *)
(* "SP", ":" , the field name "data:" and anything else.  The parser looks *)
(* at whole lines only, so cutting inside a token is cutting inside a line.*)
(***************************************************************************)
EXTENDS Naturals, Sequences, SequencesExt

\* buffer, accum and haveData are the members; out is what onData was called
\* with, in order.
FreshParser == [buffer |-> <<>>, accum |-> <<>>, haveData |-> FALSE,
                out |-> <<>>]

StripCR(line) ==
    IF line # <<>> /\ Last(line) = "CR" THEN Front(line) ELSE line

\* Mutant of FieldValue: the leading space stays.
FieldValueRaw(line) == Tail(line)

\* The value of a data field: what follows, less one leading space.
FieldValue(line) ==
    IF Len(line) >= 2 /\ line[2] = "SP"
    THEN SubSeq(line, 3, Len(line)) ELSE Tail(line)

HandleLine(p, line) ==
    CASE line = <<>> ->
           [p EXCEPT !.out = IF p.haveData THEN Append(@, p.accum) ELSE @,
                     !.accum = <<>>, !.haveData = FALSE]
      [] line # <<>> /\ Head(line) = "data:" ->
           [p EXCEPT !.accum = (IF p.haveData THEN Append(@, "NL") ELSE @)
                                  \o FieldValue(line),
                     !.haveData = TRUE]
      [] OTHER -> p    \* a comment or another field

LineBreaks(text) ==
    FlattenSeq([i \in 1..Len(text) |-> IF text[i] = "LF" THEN <<i>> ELSE <<>>])

\* The complete lines of text, and what follows the last of them.
Lines(text) ==
    LET ends == LineBreaks(text)
        start(k) == IF k = 1 THEN 1 ELSE ends[k - 1] + 1
    IN  [k \in 1..Len(ends) |-> SubSeq(text, start(k), ends[k] - 1)]

Unfinished(text) ==
    LET ends == LineBreaks(text)
    IN  IF ends = <<>> THEN text ELSE SubSeq(text, Last(ends) + 1, Len(text))

Feed(p, data) ==
    LET text == p.buffer \o data
    IN  FoldLeft(LAMBDA q, line : HandleLine(q, StripCR(line)),
                 [p EXCEPT !.buffer = Unfinished(text)], Lines(text))
=============================================================================
