--------------------------- MODULE StreamContract ---------------------------
(***************************************************************************)
(* What ITextLLM::ChatStream promises the application                      *)
(* (include/UltraAITextLLM.h:92-93): deltas, then one terminal event that  *)
(* agrees with what the call returns, then nothing.  Only a call without a *)
(* callback ends without an event, as there is nobody to tell.  A call     *)
(* whose callback throws ends with that exception.                         *)
(***************************************************************************)
EXTENDS SequencesExt

CONSTANT Errors  \* what a call may fail with

VARIABLES
    callback, \* the argument: is there a callback?
    events,   \* the events the callback was called with
    returned  \* "Pending", "None", "Thrown" or the error

\* The callback is given with the call and stays what it is.
vars == <<events, returned>>

IsDelta(ev) == ev.kind \in {"TextDelta", "ToolCallDelta"}

Init == events = <<>> /\ returned = "Pending"

Refuse ==
    /\ returned = "Pending" /\ ~callback /\ events = <<>>
    /\ returned' \in Errors
    /\ UNCHANGED events

Stream ==
    /\ returned = "Pending" /\ callback
    /\ IsStrictPrefix(events, events')
    /\ \A i \in (Len(events) + 1)..Len(events') : IsDelta(events'[i])
    /\ UNCHANGED returned

Terminate ==
    /\ returned = "Pending" /\ callback
    /\ returned' \in {"None", "Thrown"} \cup Errors
    /\ Len(events') = Len(events) + 1 /\ IsPrefix(events, events')
    /\ CASE returned' = "None" -> Last(events').kind = "Done"
         [] returned' = "Thrown" -> Last(events').kind \in {"Done", "Error"}
         [] OTHER -> /\ Last(events').kind = "Error"
                     /\ Last(events').error = returned'

Throw ==
    /\ returned = "Pending" /\ callback /\ events # <<>>
    /\ returned' = "Thrown"
    /\ UNCHANGED events

Next == Refuse \/ Stream \/ Terminate \/ Throw

Spec == Init /\ [][Next]_vars
=============================================================================
