--------------------------- MODULE MockTranslator ---------------------------
(***************************************************************************)
(* The glossary of MockTranslator::Translate in                            *)
(* src/adapters/mock/MockAdapters.cpp, on one of the request's texts: each *)
(* entry in turn replaces its term wherever it is found, searching on      *)
(* behind the replacement.  A string is a sequence of characters.          *)
(***************************************************************************)
EXTENDS Integers, SequencesExt

CONSTANTS
    Inputs,      \* the texts to translate
    Glossaries,  \* sequences of <<term, replacement>>, the order of the map
    MaxOut       \* the memory: how long a text may grow

ASSUME TranslatorAssumption ==
    /\ Inputs \subseteq Seq(STRING)
    /\ Glossaries \subseteq Seq(Seq(STRING) \X Seq(STRING))
    /\ MaxOut \in Nat

VARIABLES
    glossary, entry,  \* the request's, and which entry is at work
    out, pos,         \* locals of the loops
    before,           \* history: out when the entry began
    translatorPc      \* "new", "replace" or "done"

translatorVars == <<glossary, entry, out, pos, before, translatorPc>>

TranslatorInit ==
    /\ glossary = <<>> /\ entry = 1 /\ out = <<>> /\ pos = 1 /\ before = <<>>
    /\ translatorPc = "new"

StartText ==
    /\ translatorPc = "new"
    /\ glossary' \in Glossaries /\ out' \in Inputs
    /\ before' = out'
    /\ translatorPc' = "replace"
    /\ UNCHANGED <<entry, pos>>

\* Where out.find(term, pos) may stop; an empty term is found everywhere.
Found(term) ==
    {p \in pos..(Len(out) + 1) : IsPrefix(term, SubSeq(out, p, Len(out)))}

Term == glossary[entry][1]
Replacement == glossary[entry][2]

Replaced(p) ==
    SubSeq(out, 1, p - 1) \o Replacement \o SubSeq(out, p + Len(Term), Len(out))

\* Mutant of Replace: the search goes on from the replacement's beginning.
ReplaceFromStart ==
    /\ translatorPc = "replace" /\ entry <= Len(glossary)
    /\ Found(Term) # {} /\ Len(out) < MaxOut
    /\ out' = Replaced(Min(Found(Term)))
    /\ pos' = Min(Found(Term))
    /\ UNCHANGED <<glossary, entry, before, translatorPc>>

Replace ==
    /\ translatorPc = "replace" /\ entry <= Len(glossary)
    /\ Found(Term) # {} /\ Len(out) < MaxOut
    /\ out' = Replaced(Min(Found(Term)))
    /\ pos' = Min(Found(Term)) + Len(Replacement)
    /\ UNCHANGED <<glossary, entry, before, translatorPc>>

NextEntry ==
    /\ translatorPc = "replace" /\ entry <= Len(glossary)
    /\ Found(Term) = {}
    /\ entry' = entry + 1 /\ pos' = 1 /\ before' = out
    /\ UNCHANGED <<glossary, out, translatorPc>>

EndOfEntries ==
    /\ translatorPc = "replace" /\ entry > Len(glossary)
    /\ translatorPc' = "done"
    /\ UNCHANGED <<glossary, entry, out, pos, before>>

TranslatorNext == StartText \/ Replace \/ NextEntry \/ EndOfEntries

----------------------------------------------------------------------------

\* The text with every occurrence of a term replaced, from left to right:
\* from[p] is what the text from p on becomes.
Substituted(text, term, by) ==
    LET from[p \in 1..(Len(text) + 1)] ==
            IF p > Len(text) THEN <<>>
            ELSE IF IsPrefix(term, SubSeq(text, p, Len(text)))
                 THEN by \o from[p + Len(term)]
            ELSE <<text[p]>> \o from[p + 1]
    IN  from[1]

\* An entry whose term is not empty replaces exactly the occurrences in the
\* text it was given: a replacement that contains the term, or makes it up
\* together with what follows, is not replaced again (MockAdapters.cpp:422-425).
EntryReplacesAll ==
    [][(entry' = entry + 1 /\ Term # <<>>) =>
          out = Substituted(before, Term, Replacement)]_translatorVars

\* The loops end for every glossary without an empty term; with one they
\* never do, or only when the memory ends.
TranslateEnds ==
    (translatorPc = "replace" /\ \A i \in DOMAIN glossary : glossary[i][1] # <<>>)
       ~> translatorPc = "done"
=============================================================================
