--------------------------- MODULE SecurityStatus ---------------------------
(***************************************************************************)
(* The status vocabulary of one check and the overall status derived from  *)
(* the checks of a report (src/tools/security_status.py).                  *)
(***************************************************************************)

VALID_CHECK_STATUSES == {"PASS", "FAIL", "UNKNOWN"}

\* Mutant: the worst status is passed on instead of the overall one.
WorstStatus(statuses) ==
    IF "FAIL" \in statuses THEN "INSECURE"
    ELSE IF "UNKNOWN" \in statuses THEN "UNKNOWN" ELSE "SECURE"

\* A confirmed failure outranks missing evidence, which outranks a pass.  No
\* status at all, or one outside the vocabulary, is refused (ValueError).
calculate_overall_status(statuses) ==
    IF statuses = {} \/ ~ (statuses \subseteq VALID_CHECK_STATUSES)
      THEN "ValueError"
    ELSE IF "FAIL" \in statuses
      THEN "INSECURE"
    ELSE IF "UNKNOWN" \in statuses
      THEN "INCOMPLETE"
    ELSE "SECURE"
=============================================================================
