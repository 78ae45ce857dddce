-------------------------- MODULE MCLocalRequests --------------------------
(***************************************************************************)
(* Requests of every kind with up to three inputs, tasks that repeat or    *)
(* are unsupported among them, and replies that fail at each stage.        *)
(***************************************************************************)
EXTENDS LocalRequests

Asked(kind, inputs, valid) ==
    [kind |-> kind, inputs |-> inputs, valid |-> valid, onProgress |-> valid]

Texts == {<<>>, <<"t">>, <<"t", "u">>, <<"t", "u", "t">>}

Tasks == {<<>>, <<"caption">>, <<"caption", "tags", "caption">>,
          <<"ocr", "faces", "vqa">>, <<"tags", "vqa", "tags">>}

MCRequests ==
    {Asked(k, <<"t">>, v) : k \in {"detect", "code", "speak", "transcribe",
                                   "image"}, v \in BOOLEAN}
      \cup {Asked(k, s, s # <<>>) : k \in {"chat", "embed"}, s \in Texts}
      \cup {Asked("translate", s, v) : s \in Texts, v \in BOOLEAN}
      \cup {Asked("vision", s, v) : s \in Tasks, v \in BOOLEAN}
      \cup {Asked("voices", <<>>, TRUE),
            [Asked("image", <<"t">>, TRUE) EXCEPT !.onProgress = FALSE]}

Got(status, parses, items) ==
    [fetch |-> "None", status |-> status, parses |-> parses, items |-> items]

MCReplies ==
    {[Got(100, FALSE, <<>>) EXCEPT !.fetch = e] : e \in FetchErrors}
      \cup {Got(s, FALSE, <<>>) : s \in {200, 302, 401, 404, 429, 500}}
      \cup {Got(200, TRUE, s) :
              s \in {<<>>, <<"good">>, <<"bad">>, <<"good", "good">>,
                     <<"good", "bad">>, <<"good", "good", "good">>,
                     <<"good", "good", "bad">>, <<"good", "bad", "good">>}}
=============================================================================
