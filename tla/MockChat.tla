------------------------------ MODULE MockChat ------------------------------
(***************************************************************************)
(* MockTextLLM of src/adapters/mock/MockAdapters.cpp and an application    *)
(* that talks to it: Chat answers whole, asking for a tool first when the  *)
(* request offers one, and ChatStream sends what Chat answers word by      *)
(* word.  A character is a string; Blank is white space.                   *)
(***************************************************************************)
EXTENDS Naturals, SequencesExt

CONSTANTS
    UserTexts,    \* what the user may say
    Replies,      \* values of mock.reply: <<>> when not set, else <<text>>
    MaxMessages   \* bound on the user's messages

Blank == " "

ASSUME TextsAssumption ==
    UserTexts \subseteq Seq(STRING) /\ Replies \subseteq Seq(Seq(STRING))

VARIABLES
    chat,      \* the instance's options, and what the calls are given
    messages,  \* the conversation the application keeps
    asked,     \* history: how many answers have asked for a tool
    chatPc,    \* "new", "idle", "words" or "done"
    words,     \* the words of the reply that ChatStream has yet to send
    events, returned  \* of the ChatStream call

chatVars == <<chat, messages, asked, chatPc, words, events, returned>>

ChatInit ==
    /\ chat = [fail |-> FALSE, reply |-> <<>>, tools |-> FALSE, schema |-> FALSE,
               callback |-> FALSE]
    /\ messages = <<>> /\ asked = 0 /\ chatPc = "new" /\ words = <<>>
    /\ events = <<>> /\ returned = "Pending"

CreateTextLLM ==
    /\ chatPc = "new"
    /\ chat' \in [fail : BOOLEAN, reply : Replies, tools : BOOLEAN, schema : BOOLEAN,
                 callback : BOOLEAN]
    /\ chatPc' = "idle"
    /\ UNCHANGED <<messages, asked, words, events, returned>>

Message(role, text) == [role |-> role, text |-> text]

\* Mutant of HaveToolResult: only the last message is looked at.
HaveToolResultLast == Last(messages).role = "Tool"

HaveToolResult == \E i \in DOMAIN messages : messages[i].role = "Tool"

\* An answer without text leaves its usage as it was made: zero.
NoUsage == [input |-> 0, output |-> 0]

Usage(input, output) == [input |-> input \div 4 + 1, output |-> output \div 4 + 1]

Answer(error, calls, text, usage) ==
    [error |-> error, calls |-> calls, text |-> text, usage |-> usage]

\* MockTextLLM::Chat.  A structured reply echoes the text between other text.
Chat ==
    LET lastUser == Last(messages).text
        text == IF chat.schema THEN <<"open">> \o lastUser \o <<"close">>
                ELSE IF chat.reply = <<>> THEN <<"mock", Blank>> \o lastUser
                ELSE chat.reply[1]
    IN  IF chat.fail THEN Answer("Internal", 0, <<>>, NoUsage)
        ELSE IF messages = <<>> THEN Answer("InvalidArgument", 0, <<>>, NoUsage)
        ELSE IF chat.tools /\ ~HaveToolResult THEN Answer("None", 1, <<>>, NoUsage)
        ELSE Answer("None", 0, text, Usage(Len(lastUser), Len(text)))

Said == Cardinality({i \in DOMAIN messages : messages[i].role = "User"})

\* The application: the user says something, an answer is kept with the
\* conversation, and a tool that is asked for is run.
Say(text) ==
    /\ chatPc = "idle" /\ Said < MaxMessages
    /\ messages' = Append(messages, Message("User", text))
    /\ UNCHANGED <<chat, asked, chatPc, words, events, returned>>

CallChat ==
    /\ chatPc = "idle"
    /\ messages # <<>> => Last(messages).role # "Assistant"
    /\ asked' = asked + Chat.calls
    /\ messages' = messages \o
         CASE Chat.error # "None" -> <<>>
           [] Chat.calls > 0 -> <<Message("Assistant", <<>>), Message("Tool", <<"r">>)>>
           [] OTHER -> <<Message("Assistant", Chat.text)>>
    /\ UNCHANGED <<chat, chatPc, words, events, returned>>

\* The words operator>> reads: its white space is skipped.
StartsWord(text, i) == text[i] # Blank /\ (i > 1 => text[i - 1] = Blank)

WordAt(text, i) ==
    SubSeq(text, i, Max({j \in i..Len(text) : \A k \in i..j : text[k] # Blank}))

Words(text) ==
    FlattenSeq([i \in DOMAIN text |->
                  IF StartsWord(text, i) THEN <<WordAt(text, i)>> ELSE <<>>])

\* Mutant of ChatStream: an error goes to the caller only.
ChatStreamSilent ==
    /\ chatPc = "idle"
    /\ events' = <<>>
    /\ words' = IF chat.callback THEN Words(Chat.text) ELSE <<>>
    /\ IF ~chat.callback \/ Chat.error # "None"
       THEN /\ chatPc' = "done"
            /\ returned' = IF chat.callback THEN Chat.error ELSE "InvalidArgument"
       ELSE chatPc' = "words" /\ UNCHANGED returned
    /\ UNCHANGED <<chat, messages, asked>>

\* ChatStream up to its loop: without a callback there is nobody to tell.
ChatStream ==
    /\ chatPc = "idle"
    /\ events' = IF chat.callback /\ Chat.error # "None"
                 THEN <<[kind |-> "Error", error |-> Chat.error]>> ELSE <<>>
    /\ words' = IF chat.callback THEN Words(Chat.text) ELSE <<>>
    /\ IF ~chat.callback THEN chatPc' = "done" /\ returned' = "InvalidArgument"
       ELSE IF Chat.error # "None"
       THEN chatPc' = "done" /\ returned' \in {Chat.error, "Thrown"}
       ELSE chatPc' = "words" /\ UNCHANGED returned
    /\ UNCHANGED <<chat, messages, asked>>

\* Mutant of SendWord: no word is the first.
SendWordSpaced ==
    /\ chatPc = "words" /\ words # <<>>
    /\ events' = Append(events, [kind |-> "TextDelta", text |-> <<Blank>> \o Head(words)])
    /\ words' = Tail(words)
    /\ UNCHANGED <<chat, messages, asked, chatPc, returned>>

SendWord ==
    /\ chatPc = "words" /\ words # <<>>
    /\ events' = Append(events, [kind |-> "TextDelta",
                                 text |-> (IF events = <<>> THEN <<>> ELSE <<Blank>>)
                                            \o Head(words)])
    /\ words' = Tail(words)
    /\ UNCHANGED <<chat, messages, asked, chatPc, returned>>

SendDone ==
    /\ chatPc = "words" /\ words = <<>>
    /\ events' = Append(events, [kind |-> "Done", usage |-> Chat.usage])
    /\ returned' \in {"None", "Thrown"}
    /\ chatPc' = "done"
    /\ UNCHANGED <<chat, messages, asked, words>>

\* The callback throws at a delta.
ChatThrow ==
    /\ chatPc = "words" /\ events # <<>>
    /\ returned' = "Thrown" /\ chatPc' = "done"
    /\ UNCHANGED <<chat, messages, asked, words, events>>

ChatNext ==
    \/ CreateTextLLM \/ CallChat \/ ChatStream \/ SendWord \/ SendDone \/ ChatThrow
    \/ \E t \in UserTexts : Say(t)

----------------------------------------------------------------------------

Contract == INSTANCE StreamContract WITH
              Errors <- {"Internal", "InvalidArgument"},
              callback <- chat.callback

\* The mock keeps the header's promise of ChatStream (UltraAITextLLM.h:92-93)
\* for every call, one without messages included: its error comes from Chat
\* and is an event too (MockAdapters.cpp:105-110), where the local adapter
\* returns without one.
ImplementsContract == Contract!Spec

\* A blank stays where it parts two words, the first if there are several.
Stays(text, i) ==
    \/ text[i] # Blank
    \/ /\ i > 1 /\ text[i - 1] # Blank
       /\ \E j \in i..Len(text) : text[j] # Blank

\* The text with its white space collapsed.
Collapsed(text) ==
    FlattenSeq([i \in DOMAIN text |-> IF Stays(text, i) THEN <<text[i]>> ELSE <<>>])

\* The deltas put together are the text Chat would have answered, up to the
\* white space, and Done carries its usage: a client may switch from Chat to
\* ChatStream.  A tool that Chat would have asked for is not streamed at all.
StreamMatchesChat ==
    LET part(ev) == IF Contract!IsDelta(ev) THEN ev.text ELSE <<>>
        streamed == FlattenSeq([i \in DOMAIN events |-> part(events[i])])
    IN  /\ chatPc \in {"words", "done"} => IsPrefix(streamed, Collapsed(Chat.text))
        /\ returned = "None" => /\ streamed = Collapsed(Chat.text)
                                /\ Last(events).usage = Chat.usage

\* However the conversation goes on, the tool is requested only once
\* (MockAdapters.cpp:75-76): a client's tool loop ends, also when the user
\* speaks again after it.
ToolRequestedOnce == asked <= 1
=============================================================================
