------------------------------ MODULE Multipart ------------------------------
(***************************************************************************)
(* The upload LocalSpeechToText::Transcribe of                             *)
(* src/adapters/local/LocalAdapters.cpp writes: a part for the audio and a *)
(* part per field, with a fixed boundary between them.  The body is a      *)
(* sequence of tokens: "--", "B" (the boundary), "NL" (CR LF), the text of *)
(* a part's headers, or anything else.                                     *)
(***************************************************************************)
EXTENDS Naturals, SequencesExt

Delimiter == <<"--", "B">>

MultipartField(name, value) ==
    Delimiter \o <<"NL", name, "NL", "NL">> \o value \o <<"NL">>

\* The fields a request has, in order.
Fields(req) ==
    (IF req.model = <<>> THEN <<>> ELSE <<<<"model", req.model>>>>)
      \o <<<<"response_format", <<"verbose_json">>>>>>
      \o (IF req.languageHint = <<>> THEN <<>> ELSE <<<<"language", req.languageHint>>>>)
      \o (IF req.wordTimestamps
          THEN <<<<"granularities", <<"word">>>>, <<"granularities", <<"segment">>>>>>
          ELSE <<>>)

Written(fields) ==
    FlattenSeq([i \in DOMAIN fields |-> MultipartField(fields[i][1], fields[i][2])])

\* Mutant of Body: no line break ends the audio.
BodyUnended(req) ==
    Delimiter \o <<"NL", "file", "NL", "type", "NL", "NL">> \o req.audio
      \o Written(Fields(req)) \o Delimiter \o <<"--", "NL">>

Body(req) ==
    Delimiter \o <<"NL", "file", "NL", "type", "NL", "NL">> \o req.audio \o <<"NL">>
      \o Written(Fields(req)) \o Delimiter \o <<"--", "NL">>
=============================================================================
