----------------------------- MODULE CodeFence -----------------------------
(***************************************************************************)
(* Trimmed and StripCodeFence of src/adapters/local/LocalAdapters.cpp, by  *)
(* which CodeAssist takes the code out of a model's reply.  Characters are *)
(* strings: "TICK", "LF", "SP" or anything else.                            *)
(***************************************************************************)
EXTENDS Integers, SequencesExt

White == {"SP", "LF"}
Fence == <<"TICK", "TICK", "TICK">>

Trimmed(s) ==
    LET solid == {i \in DOMAIN s : s[i] \notin White}
    IN  IF solid = {} THEN <<>> ELSE SubSeq(s, Min(solid), Max(solid))

\* Where a fence begins in the text.
Fences(text) == {i \in DOMAIN text : IsPrefix(Fence, SubSeq(text, i, Len(text)))}

Unbroken(s) == SubSeq(s, 1, Max({0} \cup {i \in DOMAIN s : s[i] # "LF"}))

\* Mutant of StripCodeFence: the first fence after the opening one closes it.
StripToFirst(text) ==
    LET breaks == {i \in DOMAIN text : text[i] = "LF"}
        closing == Min({i \in Fences(text) : i > 1})
    IN  IF 1 \notin Fences(text) \/ breaks = {} \/ Fences(text) = {1} THEN text
        ELSE IF closing <= Min(breaks) THEN text
        ELSE Unbroken(SubSeq(text, Min(breaks) + 1, closing - 1))

\* The text begins with a fence, whose line ends before the last fence.
StripCodeFence(text) ==
    LET solid == {i \in DOMAIN text : text[i] \notin White}
        begin == Min(solid)
        breaks == {i \in DOMAIN text : i >= begin /\ text[i] = "LF"}
        closing == Max(Fences(text))
    IN  IF solid = {} THEN text
        ELSE IF begin \notin Fences(text) \/ breaks = {} THEN text
        ELSE IF closing <= Min(breaks) THEN text
        ELSE Unbroken(SubSeq(text, Min(breaks) + 1, closing - 1))
=============================================================================
