----------------------------- MODULE JsonValues -----------------------------
(***************************************************************************)
(* What a field of a JSON document can hold besides a proper value.  The   *)
(* model stands for these by values unlike any other.                      *)
(***************************************************************************)
CONSTANTS
    Missing,    \* the key is not there
    Null,       \* JSON null
    Malformed,  \* a string that is not an ISO 8601 timestamp
    NonUtc,     \* a timestamp without an offset, or with another one
    OtherType   \* a value of another type than the one expected

\* A string that is not empty, among the values of a text field.
Text(value) == value \notin {Missing, Null, OtherType, ""}
=============================================================================
