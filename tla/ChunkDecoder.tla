---------------------------- MODULE ChunkDecoder ----------------------------
(***************************************************************************)
(* The incremental decoder of "Transfer-Encoding: chunked" bodies in       *)
(* src/adapters/common/HttpClient.cpp, as operators on its state.  A byte  *)
(* is a string: a hex digit, "CR", "LF" or any other.                      *)
(***************************************************************************)
EXTENDS Naturals, Sequences, SequencesExt

HexDigits == <<"0", "1", "2", "3", "4", "5", "6", "7", "8", "9",
               "a", "b", "c", "d", "e", "f">>

DigitValue(b) == (CHOOSE i \in DOMAIN HexDigits : HexDigits[i] = b) - 1
Digits == Range(HexDigits)
Spaces == {"CR", "LF"}

Least(m, n) == IF m < n THEN m ELSE n
Take(s, n) == SubSeq(s, 1, n)
Drop(s, n) == SubSeq(s, n + 1, Len(s))

\* The longest prefix of s whose elements are all in S.
Leading(s, S) ==
    LET run == {n \in 0..Len(s) : \A i \in 1..n : s[i] \in S}
    IN  Take(s, CHOOSE n \in run : \A m \in run : m <= n)

\* std::strtol(s, nullptr, 16): leading white space, line breaks included, is
\* skipped, and no digits mean 0.  A sign and a prefix "0x", which no chunk
\* size has, are left out, and "a" to "f" stand for both cases.
Strtol(s) ==
    LET digits == Leading(Drop(s, Len(Leading(s, Spaces))), Digits)
    IN  FoldLeft(LAMBDA v, b : 16 * v + DigitValue(b), 0, digits)

\* buf_.find("\r\n"), counted from 1; 0 when there is none.
LineEnd(s) ==
    LET ends == {i \in 1..(Len(s) - 1) : s[i] = "CR" /\ s[i + 1] = "LF"}
    IN  IF ends = {} THEN 0 ELSE CHOOSE i \in ends : \A j \in ends : i <= j

\* buf, remaining and done are the members; more says that the loop of Feed
\* goes round again, bad that it returns false, and sunk what it gave sink.
FreshDecoder == [buf |-> <<>>, remaining |-> 0, done |-> FALSE,
                 more |-> FALSE, bad |-> FALSE, sunk |-> <<>>]

\* Entering Feed.
EnterFeed(d, data) == [d EXCEPT !.buf = @ \o data, !.more = TRUE, !.sunk = <<>>]

\* With no chunk open, a complete line opens the next one or ends the body.
OpenChunk(d) ==
    LET e == LineEnd(d.buf)
        size == Strtol(d.buf)
    IN  IF d.done \/ e = 0 THEN [d EXCEPT !.more = FALSE, !.sunk = <<>>]
        ELSE [d EXCEPT !.buf = Drop(@, e + 1), !.remaining = size,
                       !.done = size = 0, !.more = size # 0, !.sunk = <<>>]

\* Mutants of Deliver: all of the buffer goes to sink; an open chunk goes
\* round again with nothing to deliver.
DeliverAll(d) ==
    [d EXCEPT !.sunk = d.buf, !.remaining = @ - Len(d.buf), !.buf = <<>>,
              !.more = d.remaining # Len(d.buf)]

DeliverSpins(d) ==
    LET take == Least(d.remaining, Len(d.buf))
        rest == Drop(d.buf, take)
        closed == d.remaining = take
    IN  [d EXCEPT !.sunk = Take(d.buf, take),
                  !.remaining = @ - take,
                  !.buf = IF closed THEN Drop(rest, 2) ELSE rest]

\* What the open chunk still lacks goes to sink; the CRLF that closes it goes
\* too when it is already there.
Deliver(d) ==
    LET take == Least(d.remaining, Len(d.buf))
        rest == Drop(d.buf, take)
        closed == d.remaining = take
        crlf == Len(rest) >= 2 /\ Take(rest, 2) = <<"CR", "LF">>
    IN  IF take = 0 THEN [d EXCEPT !.more = FALSE, !.sunk = <<>>]
        ELSE [d EXCEPT !.sunk = Take(d.buf, take),
                       !.remaining = @ - take,
                       !.buf = IF closed /\ crlf THEN Drop(rest, 2) ELSE rest,
                       !.bad = closed /\ Len(rest) >= 2 /\ ~crlf,
                       !.more = closed => crlf]

\* Half a turn of the loop of Feed: its "if", or what follows it.
Turn(d) == IF d.done \/ d.remaining = 0 THEN OpenChunk(d) ELSE Deliver(d)
=============================================================================
