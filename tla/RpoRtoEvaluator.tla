--------------------------- MODULE RpoRtoEvaluator ---------------------------
(***************************************************************************)
(* rpo_rto_evaluator.evaluate_report: the verdicts on a Unified report and *)
(* optional restore-test evidence, against a policy, at a given time.      *)
(* Times and durations are in seconds, objectives in minutes; the observed *)
(* minutes of a result are kept as seconds, the division by 60 being exact *)
(* at the boundary.  A reference, which the code computes as a digest, is  *)
(* the normalised document itself, and an evaluation id likewise follows   *)
(* from the references and the result it stands beside.                    *)
(*                                                                         *)
(* A policy is [evaluation_timestamp, rules : sequence] and a rule is      *)
(* [policy_id, asset_id, rpo, rto], the objectives, rto Missing or not.    *)
(***************************************************************************)
EXTENDS UnifiedReport, RestoreTestEvidence

CONSTANT Minute    \* seconds in a minute

\* Objectives are positive, policy and asset identifiers unique.
validate_policy(policy) ==
    LET rules == policy.rules IN
    /\ policy.evaluation_timestamp \notin {Null, Malformed, NonUtc}
    /\ rules # << >>
    /\ \A i \in DOMAIN rules : rules[i].rpo > 0 /\ (rules[i].rto # Missing => rules[i].rto > 0)
    /\ \A i, j \in DOMAIN rules : i # j => /\ rules[i].policy_id # rules[j].policy_id
                                           /\ rules[i].asset_id # rules[j].asset_id

Verdict(status, reason, observed, sources) ==
    [status |-> status, reason |-> reason, observed |-> observed, sources |-> sources]

Unknown(reason, sources) == Verdict("UNKNOWN", reason, Null, sources)

-----------------------------------------------------------------------------
\* The backup evidence on an asset: an embedded job, and the adapter's details.
_direct_backup_evidence(asset) ==
    LET job == asset.backup_job  evidence == asset.source_evidence IN
    (IF job = Missing THEN << >>
     ELSE << [status |-> job.status, last |-> job.last, source_id |-> job.source_id,
              requires_source_link |-> job.source_id # Missing] >>)
    \o
    (IF evidence = Missing \/ (asset.resource_type # "backup_job" /\ evidence.last = Missing)
       THEN << >>
     ELSE << [status |-> evidence.status, last |-> evidence.last,
              source_id |-> asset.evidence_source_id, requires_source_link |-> TRUE] >>)

_source_ids(candidate) == {candidate.source_id} \ {Missing, Null}

\* Mutant: the boundary itself is outside.
StrictlyWithin(seconds, objective) == seconds < objective * Minute

\* The boundary itself is within the objective, for an age and a duration.
Within(seconds, objective) == seconds <= objective * Minute

\* Mutant: a backup after the evaluation time misses the objective.
FutureFails(ids) == Verdict("FAIL", "RPO_EXCEEDED", 0, ids)

FutureBackup(ids) == Unknown("FUTURE_BACKUP_TIMESTAMP", ids)

\* The only candidate, its age against the objective.
JudgeBackup(rule, candidate, sources, time) ==
    LET ids == _source_ids(candidate)
        age == time - candidate.last
    IN  IF candidate.requires_source_link /\ (ids = {} \/ ~ (ids \subseteq sources))
          THEN Unknown("UNLINKED_BACKUP_EVIDENCE", {})
        ELSE IF candidate.status # "PASS" \/ candidate.last \in {Missing, Null}
          THEN Unknown("MISSING_BACKUP_EVIDENCE", ids)
        ELSE IF candidate.last = Malformed THEN Unknown("INVALID_BACKUP_TIMESTAMP", ids)
        ELSE IF candidate.last = NonUtc    THEN Unknown("NON_UTC_BACKUP_TIMESTAMP", ids)
        ELSE IF candidate.last > time      THEN FutureBackup(ids)
        ELSE IF Within(age, rule.rpo)      THEN Verdict("PASS", "RPO_WITHIN_OBJECTIVE", age, ids)
        ELSE Verdict("FAIL", "RPO_EXCEEDED", age, ids)

_evaluate_rpo(rule, report, time) ==
    LET matching   == {a \in report.assets : a.asset_id = rule.asset_id}
        candidates == _direct_backup_evidence(CHOOSE a \in matching : TRUE)
    IN  IF matching = {}              THEN Unknown("MISSING_ASSET", {})
        ELSE IF Len(candidates) > 1   THEN Unknown("AMBIGUOUS_BACKUP_EVIDENCE", {})
        ELSE IF candidates = << >>    THEN Unknown("MISSING_BACKUP_EVIDENCE", {})
        ELSE JudgeBackup(rule, candidates[1], SourceIds(report), time)

-----------------------------------------------------------------------------
_restore_test_source_ids(evidence, test) ==
    {evidence.source_id, test.source_backup_reference,
     test.source_record_id, test.evidence_reference} \ {Null}

\* Mutant: the comparison is the wrong way round.
has_past_restore_timestamp(evidence, test, time) ==
    \E timestamp \in {evidence.generated_at, test.started_at, test.completed_at,
                      test.checked_at, test.collected_at} \ {Null} : timestamp < time

\* Mutant: the time of the report is forgotten.
future_test_timestamp(evidence, test, time) ==
    \E timestamp \in {test.started_at, test.completed_at,
                      test.checked_at, test.collected_at} \ {Null} : timestamp > time

_has_future_restore_timestamp(evidence, test, time) ==
    \E timestamp \in {evidence.generated_at, test.started_at, test.completed_at,
                      test.checked_at, test.collected_at} \ {Null} : timestamp > time

\* The one test the verdict rests on.
JudgeTest(rule, evidence, test, time) ==
    LET ids     == _restore_test_source_ids(evidence, test)
        At(status, reason, observed) ==
          [status |-> status, reason |-> reason, observed |-> observed, sources |-> ids,
           restore_test_id |-> test.restore_test_id]
    IN  IF _has_future_restore_timestamp(evidence, test, time)
          THEN At("UNKNOWN", "RTO_RESTORE_TEST_FUTURE_TIMESTAMP", Null)
        ELSE IF test.result = "UNKNOWN"
          THEN At("UNKNOWN", "RTO_RESTORE_TEST_UNKNOWN", Null)
        ELSE IF test.result = "FAIL"
          THEN At("FAIL", "RTO_RESTORE_TEST_FAILED", test.duration_seconds)
        ELSE IF Within(test.duration_seconds, rule.rto)
          THEN At("PASS", "RTO_WITHIN_OBJECTIVE", test.duration_seconds)
        ELSE At("FAIL", "RTO_EXCEEDED_OBJECTIVE", test.duration_seconds)

\* The positions of a rule's tests.
Matching(rule, tests) == {i \in DOMAIN tests : tests[i].asset_id = rule.asset_id}

Several(positions) == \E i, j \in positions : i # j

\* Mutant: the first test decides.
FirstDecides(matching, reliable) == FALSE

\* Mutant: inconclusive tests count.
AllCount(matching, reliable) == Several(matching)

\* More than one conclusive test, or none and more than one inconclusive.
Ambiguous(matching, reliable) ==
    Several(reliable) \/ (reliable = {} /\ Several(matching))

\* reliable[0] if there is one, else matching[0].
_evaluate_rto(rule, evidence, time) ==
    LET tests    == evidence.restore_tests
        matching == Matching(rule, tests)
        reliable == {i \in matching : tests[i].result # "UNKNOWN"}
        deciding == IF reliable # {} THEN reliable ELSE matching
        first    == CHOOSE i \in deciding : \A j \in deciding : i <= j
    IN  IF evidence = Null
          THEN Unknown("RTO_EVIDENCE_CONTRACT_NOT_AVAILABLE", {})
        ELSE IF matching = {}
          THEN Unknown("RTO_RESTORE_TEST_ASSET_NOT_FOUND", {})
        ELSE IF Ambiguous(matching, reliable)
          THEN Unknown("RTO_RESTORE_TEST_AMBIGUOUS",
                       UNION {_restore_test_source_ids(evidence, tests[i]) : i \in matching})
        ELSE JudgeTest(rule, evidence, tests[first], time)

-----------------------------------------------------------------------------
Rejected == [accepted |-> FALSE]

\* Everything is validated before anything is judged; the timestamp given on
\* the command line wins over the one in the policy, and one must be there.
\* The code judges the tests sorted by identifier, here they are judged in the
\* order they have in the report: EvidenceTimeline!OrderDoesNotMatter.
evaluate_report(report, policy, timestamp, evidence) ==
    LET time  == IF timestamp # Missing THEN timestamp ELSE policy.evaluation_timestamp
        rules == {policy.rules[i] : i \in DOMAIN policy.rules}
        RuleOf(asset) == CHOOSE rule \in rules : rule.asset_id = asset
        Judge(rule) ==
          [policy_id |-> rule.policy_id, rpo |-> _evaluate_rpo(rule, report, time),
           rto |-> IF rule.rto = Missing THEN Missing ELSE _evaluate_rto(rule, evidence, time)]
    IN  IF \/ ~ validate_policy(policy)
           \/ ~ validate_unified_report(report)
           \/ evidence # Null /\ ~ validate_restore_test_evidence(evidence)
           \/ time \in {Missing, Malformed, NonUtc}
          THEN Rejected
          ELSE [accepted     |-> TRUE,
                evaluation_timestamp |-> time,
                input_unified_report |-> report,
                policy       |-> [policy EXCEPT !.rules = rules],
                restore_test_evidence |->
                    IF evidence = Null THEN Missing ELSE Normalized(evidence),
                asset_results |-> [asset \in {rule.asset_id : rule \in rules}
                                     |-> Judge(RuleOf(asset))]]
=============================================================================
