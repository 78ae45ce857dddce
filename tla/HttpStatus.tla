----------------------------- MODULE HttpStatus -----------------------------
(***************************************************************************)
(* How an HTTP status becomes an ErrorCode: localhttp::MapHttpStatus of    *)
(* src/adapters/common/HttpClient.cpp.                                     *)
(***************************************************************************)
EXTENDS Naturals

Success(s) == s \in 200..299

MapHttpStatus(s) ==
    CASE Success(s) -> "None"
      [] s \in {401, 403} -> "AuthFailure"
      [] s = 429 -> "RateLimited"
      [] s \in 400..499 \ {401, 403, 429} -> "InvalidArgument"
      [] s >= 500 -> "Internal"
      [] OTHER -> "Network"

\* What it maps a status to, and what a transfer itself may fail with.
StatusErrors == {"AuthFailure", "RateLimited", "InvalidArgument", "Internal",
                 "Network"}
FetchErrors == {"Network", "Timeout", "InvalidArgument"}
=============================================================================
