---------------------------- MODULE MockAdapters ----------------------------
(***************************************************************************)
(* The mock adapters of src/adapters/mock/MockAdapters.cpp, each as an     *)
(* application uses it: chat, speech, generation and translation, and the  *)
(* chunking loop that the local adapter has as well.  The instances share  *)
(* nothing, so a behaviour uses one of them.                               *)
(***************************************************************************)
EXTENDS MockChat, MockSpeech, MockJobs, MockTranslator, SpeakStream

VARIABLE capability  \* which instance the application has created

vars == <<capability, chatVars, speechVars, jobVars, translatorVars, streamVars>>

Init ==
    /\ capability \in {"TextLLM", "Speech", "Job", "Translator", "SpeakStream"}
    /\ ChatInit /\ SpeechInit /\ JobsInit /\ TranslatorInit /\ StreamInit
    /\ capability # "SpeakStream" => ~onChunk /\ ~hasText

Next ==
    /\ UNCHANGED capability
    /\ \/ /\ capability = "TextLLM" /\ ChatNext
          /\ UNCHANGED <<speechVars, jobVars, translatorVars, streamVars>>
       \/ /\ capability = "Speech" /\ SpeechNext
          /\ UNCHANGED <<chatVars, jobVars, translatorVars, streamVars>>
       \/ /\ capability = "Job" /\ JobsNext
          /\ UNCHANGED <<chatVars, speechVars, translatorVars, streamVars>>
       \/ /\ capability = "Translator" /\ TranslatorNext
          /\ UNCHANGED <<chatVars, speechVars, jobVars, streamVars>>
       \/ /\ capability = "SpeakStream" /\ StreamNext
          /\ UNCHANGED <<chatVars, speechVars, jobVars, translatorVars>>

Spec == Init /\ [][Next]_vars

\* A translation or a chunking loop that has begun runs on the thread that
\* asked for it, and its callbacks return.
Begun ==
    \/ capability = "Translator" /\ translatorPc = "replace"
    \/ capability = "SpeakStream" /\ streamPc = "loop"

FairSpec == Spec /\ WF_vars(Begun /\ Next)
=============================================================================
