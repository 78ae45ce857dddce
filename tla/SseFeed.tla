------------------------------ MODULE SseFeed ------------------------------
(***************************************************************************)
(* An event stream reaching SseParser::Feed in arbitrary pieces, compared  *)
(* with a reference reading of the text one token at a time.               *)
(***************************************************************************)
EXTENDS SseParser

CONSTANT Streams  \* the texts a server sends

ASSUME StreamsAssumption == Streams \subseteq Seq(STRING)

VARIABLES stream, fed, reader

feedVars == <<stream, fed, reader>>

FeedInit == stream \in Streams /\ fed = 0 /\ reader = FreshParser

FeedPiece(n) ==
    /\ reader' = Feed(reader, SubSeq(stream, fed + 1, fed + n))
    /\ fed' = fed + n
    /\ UNCHANGED stream

FeedNext == \E n \in 1..(Len(stream) - fed) : FeedPiece(n)

FeedSpec == FeedInit /\ [][FeedNext]_feedVars

----------------------------------------------------------------------------
(***************************************************************************)
(* The reference, from the event-stream grammar: the blank lines of a text *)
(* delimit its blocks, and a block's event joins the values of its data    *)
(* fields; a block without one makes no event.                             *)
(***************************************************************************)

\* The last of the positions before i that are in S, 0 when there is none.
LastBefore(i, S) == Max({0} \cup {j \in S : j < i})

RefBreaks == {i \in 1..Len(stream) : stream[i] = "LF"}

\* The line that the break at i ends, without its CR.
RefLine(i) == StripCR(SubSeq(stream, LastBefore(i, RefBreaks) + 1, i - 1))

RefBlanks == {i \in RefBreaks : RefLine(i) = <<>>}

\* The breaks of the data lines before i that no blank line parts from it.
RefData(i) ==
    {j \in RefBreaks \ RefBlanks :
        /\ LastBefore(i, RefBlanks) < j /\ j < i
        /\ Head(RefLine(j)) = "data:"}

RefValue(line) ==
    LET v == Tail(line) IN IF v # <<>> /\ Head(v) = "SP" THEN Tail(v) ELSE v

\* What the break at j adds to the event of the block before i.
RefPart(i, j) ==
    CASE j \notin RefData(i) -> <<>>
      [] j \in RefData(i) /\ RefData(i) \cap 1..(j - 1) = {} -> RefValue(RefLine(j))
      [] OTHER -> <<"NL">> \o RefValue(RefLine(j))

RefEvent(i) == FlattenSeq([j \in 1..(i - 1) |-> RefPart(i, j)])

\* The events whose blank line is among the first n tokens.
RefEvents(n) ==
    FlattenSeq([b \in 1..n |->
                  IF b \in RefBlanks /\ RefData(b) # {} THEN <<RefEvent(b)>> ELSE <<>>])

\* However the stream is cut, after each piece exactly the events whose blank
\* line has arrived have been dispatched, each with its data lines joined, in
\* order (SseParser.h:15-16), and a CR before a line break never shows.
DispatchesCompleteEvents == reader.out = RefEvents(fed)
=============================================================================
