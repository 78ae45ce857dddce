-------------------------- MODULE StreamTransport --------------------------
(***************************************************************************)
(* What the adapters rely on when they call localhttp::FetchStream         *)
(* (HttpClient.h:42-47): body bytes are handed over piece by piece, only   *)
(* while the call is going on, and once a byte was handed over the call    *)
(* ends in success or in a transport error, never in a mapped HTTP status. *)
(***************************************************************************)
EXTENDS SequencesExt

CONSTANTS TransportErrors, StatusErrors

VARIABLES
    handed,  \* the bytes handed to onBody so far
    result   \* "Pending", "None" or what the call failed with

vars == <<handed, result>>

Init == handed = <<>> /\ result = "Pending"

Hand ==
    /\ result = "Pending"
    /\ IsStrictPrefix(handed, handed')
    /\ UNCHANGED result

Return ==
    /\ result = "Pending"
    /\ result' \in {"None"} \cup TransportErrors \cup StatusErrors
    /\ handed # <<>> => result' \in {"None"} \cup TransportErrors
    /\ UNCHANGED handed

Next == Hand \/ Return

Spec == Init /\ [][Next]_vars
=============================================================================
