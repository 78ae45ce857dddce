--------------------------- MODULE MCMockAdapters ---------------------------
(***************************************************************************)
(* Texts and replies with white space at every place, audio below and      *)
(* above what the transcript needs, two threads, step counts on both sides *)
(* of zero, glossaries whose replacements contain terms, and audio on both *)
(* sides of every multiple of three.                                       *)
(***************************************************************************)
EXTENDS MockAdapters

UpTo(S, n) == UNION {[1..k -> S] : k \in 0..n}

MCUserTexts == {<<>>, <<"a">>, <<Blank, "a", Blank, Blank, "b">>}
MCReplies == {<<>>} \cup {<<t>> : t \in UpTo({"x", Blank}, 3)}

MCStepOptions == {<<>>, <<-1>>, <<0>>, <<1>>, <<3>>}
MCDimOptions == {<<>>, <<-2>>, <<0>>, <<3>>}
MCDimensions == {-1, 0, 2}

MCTerms == UpTo({"a", "b"}, 2)
MCGlossaries ==
    {<<>>} \cup {<<e>> : e \in MCTerms \X MCTerms}
      \cup {<<<<<<"a">>, s>>, <<<<"b">>, t>>>> : s, t \in MCTerms}
MCInputs == UpTo({"a", "b", "c"}, 3) \cup {<<"a", "a", "b", "a", "b">>}

\* The mock's Speak fails when it is configured to; the local one's errors are
\* those of a round trip.
MCSpeakErrors == {"Network", "Timeout", "AuthFailure", "Internal"}
=============================================================================
