------------------------- MODULE RestoreTestEvidence -------------------------
(***************************************************************************)
(* The restore-test evidence contract                                      *)
(* (restore_test_evidence.validate_restore_test_evidence).                 *)
(*                                                                         *)
(* A report is [source_id, generated_at, restore_tests : sequence].  A     *)
(* test has restore_test_id, asset_id, source_backup_reference,            *)
(* source_record_id, started_at, completed_at, duration_seconds, result,   *)
(* status (of its validation), checked_at, evidence_reference,             *)
(* collected_at and wellFormed, which stands for the exact sets of fields, *)
(* the sanitized references, the enumerations and the source profile.      *)
(***************************************************************************)
EXTENDS JsonValues, Integers, Sequences

TestResults == {"PASS", "FAIL", "UNKNOWN"}

\* The validation status that goes with each result.
ExpectedStatus == [PASS |-> "VERIFIED", FAIL |-> "FAILED", UNKNOWN |-> "UNKNOWN"]

\* Mutant: the duration is not compared with the timestamps.
timing_without_duration(test) ==
    LET timing == {test.started_at, test.completed_at, test.duration_seconds} IN
    \/ timing = {Null} /\ test.result = "UNKNOWN"
    \/ /\ Null \notin timing
       /\ test.duration_seconds >= 0
       /\ test.completed_at >= test.started_at

\* Timing is complete and consistent; only an UNKNOWN result may go without.
_validate_timing(test) ==
    LET timing == {test.started_at, test.completed_at, test.duration_seconds} IN
    \/ timing = {Null} /\ test.result = "UNKNOWN"
    \/ /\ Null \notin timing
       /\ test.duration_seconds >= 0
       /\ test.completed_at >= test.started_at
       /\ test.completed_at - test.started_at = test.duration_seconds

\* A verdict needs the time of the check and a reference to its evidence.
_validate_validation(test) ==
    /\ test.status = ExpectedStatus[test.result]
    /\ test.result # "UNKNOWN" => Null \notin {test.checked_at, test.evidence_reference}

\* The order of events: the restore, then its validation, then the collection.
_validate_restore_test(test) ==
    /\ test.wellFormed
    /\ test.result \in TestResults
    /\ _validate_timing(test)
    /\ _validate_validation(test)
    /\ test.completed_at # Null => test.completed_at <= test.collected_at
    /\ test.checked_at # Null =>
          /\ test.completed_at # Null => test.completed_at <= test.checked_at
          /\ test.checked_at <= test.collected_at

\* TRUE when validate_restore_test_evidence returns, FALSE when it raises.
validate_restore_test_evidence(report) ==
    LET tests == report.restore_tests IN
    /\ tests # << >>
    /\ \A i \in DOMAIN tests : /\ _validate_restore_test(tests[i])
                               /\ tests[i].collected_at <= report.generated_at
    /\ \A i, j \in DOMAIN tests : i # j =>
          /\ tests[i].restore_test_id  # tests[j].restore_test_id
          /\ tests[i].source_record_id # tests[j].source_record_id

\* The normalised report: the tests sorted by identifier.  Identifiers are
\* unique, so the sorted sequence says no more than the set of tests.
Normalized(report) ==
    [source_id |-> report.source_id, generated_at |-> report.generated_at,
     restore_tests |-> {report.restore_tests[i] : i \in DOMAIN report.restore_tests}]
=============================================================================
