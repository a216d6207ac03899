-------------------------- MODULE EvidenceTimeline --------------------------
(***************************************************************************)
(* The evaluator over time.  Backups succeed, reports on them are made     *)
(* anew, restore tests are carried out, validated, collected into the      *)
(* evidence report and sometimes copied wrongly; and at any moment the     *)
(* evaluation may be run for any point in time, past or future.  What the  *)
(* evaluation says is a function of the documents (RpoRtoEvaluator), so    *)
(* the state is the documents and the reality they are about.              *)
(***************************************************************************)
EXTENDS RpoRtoEvaluator, FiniteSets

CONSTANTS
    Policy,         \* the policy in force
    Subject, Other, \* the asset the properties are about, and another one
    Outcomes,       \* restore tests that may happen: pairs of asset and result
    MaxTime,        \* bound: the last second
    MaxBackups, MaxCollections, MaxTests, MaxSlips   \* bounds on the actions

ASSUME TimesAssumption == MaxTime \in Nat /\ Minute \in Nat \ {0}
ASSUME TimelineBounds ==
    {MaxBackups, MaxCollections, MaxTests, MaxSlips} \subseteq Nat
ASSUME OutcomesAssumption == Subject # Other /\ \A o \in Outcomes : o[2] \in TestResults

\* The subject has a rule with both objectives; objectives are whole minutes.
ASSUME PolicyAssumption ==
    LET rules == Policy.rules IN
    /\ Policy = [evaluation_timestamp |-> Policy.evaluation_timestamp, rules |-> rules]
    /\ rules \in Seq({rules[i] : i \in DOMAIN rules})
    /\ \A i \in DOMAIN rules : rules[i].rpo \in Int /\ rules[i].rto \in Int \cup {Missing}
    /\ \E i \in DOMAIN rules : rules[i].asset_id = Subject
    /\ \A i \in DOMAIN rules : rules[i].asset_id = Subject => rules[i].rto # Missing

\* The restore tests and the evidence reports of this timeline.
OptionalTime == Int \cup {Null}
TestType ==
    [restore_test_id : {"test"} \X Nat,
     asset_id : {o[1] : o \in Outcomes} \cup {Subject, Other},
     result : TestResults, status : {ExpectedStatus[r] : r \in TestResults},
     started_at : OptionalTime, completed_at : OptionalTime,
     duration_seconds : OptionalTime, checked_at : OptionalTime,
     collected_at : Int, wellFormed : {TRUE},
     source_backup_reference : {<< "backup" >>}, source_record_id : {"record"} \X Nat,
     evidence_reference : {"check"} \X Nat]
EvidenceType ==
    [source_id : {<< "import" >>}, generated_at : Int, restore_tests : Seq(TestType)]

ASSUME MarkersAssumption ==
    /\ {Missing, Null, Malformed, NonUtc} \cap Int = {}
    /\ Null \notin EvidenceType /\ Null \notin {"check"} \X Nat

VARIABLES
    now,        \* the clock
    backups,    \* reality: when backups of the subject succeeded
    reported,   \* reality: the backups known when unified was made
    unified,    \* the Unified report
    evidence,   \* the restore-test evidence report, or Null
    genuine,    \* reality: the evidence as it was before any slip
    collections, slips,  \* how much of the bounds is used
    judged,     \* what an evaluation for each point in time says of the subject
    passed      \* history: <<objective, time>> for which the subject passed

docs == << unified, evidence >>
vars == << now, backups, reported, docs, genuine, collections, slips, judged, passed >>

Times == 0..MaxTime

-----------------------------------------------------------------------------
\* What evaluate_report, run for every point in time, says of the subject.
JudgeSubject(report, tests) ==
    [time \in Times |->
        LET evaluation == evaluate_report(report, Policy, time, tests) IN
        IF evaluation.accepted THEN evaluation.asset_results[Subject] ELSE Rejected]

\* The status for one of the subject's objectives; "none" without a verdict.
Status(verdicts, objective, time) ==
    IF verdicts[time] = Rejected THEN "none" ELSE verdicts[time][objective].status

StatusAt(objective, time) == Status(judged, objective, time)

\* A document changes, and the evaluations are run again.
Publish(report, tests) ==
    /\ unified' = report /\ evidence' = tests
    /\ judged' = JudgeSubject(report, tests)
    /\ passed' = passed \cup
          {p \in {"rpo", "rto"} \X Times : Status(judged', p[1], p[2]) = "PASS"}

-----------------------------------------------------------------------------
(***************************************************************************)
(* What a report can say about the subject, the last successful backup     *)
(* being last (Null when there was none).                                  *)
(***************************************************************************)
Asset(id, type, job, details, source) ==
    [asset_id |-> id, resource_type |-> type, backup_job |-> job,
     source_evidence |-> details, evidence_source_id |-> source,
     security_checks |-> << >>, recommended_action |-> {}, nested |-> {}]

Job(status, last, source) == [status |-> status, last |-> last, source_id |-> source]
Details(status, last) == [status |-> status, last |-> last, created_at |-> Missing]

Observed(last) ==
    LET Adapted(status, time, source) ==
          Asset(Subject, "backup_job", Missing, Details(status, time), source)
        Embedded(time, source) ==
          Asset(Subject, "workload", Job("PASS", time, source), Missing, Missing)
    IN { Adapted("PASS", last, "source"), Adapted("UNKNOWN", last, "source"),
         Adapted("PASS", Null, "source"), Adapted("PASS", last, Missing),
         Adapted("PASS", last, "elsewhere"), Adapted("PASS", Malformed, "source"),
         Embedded(last, "source"), Embedded(last, Missing), Embedded(last, "elsewhere"),
         Embedded(NonUtc, "source"),
         Asset(Subject, "workload", Missing, Missing, "source"),
         Asset(Subject, "backup_job", Job("PASS", last, Missing),
               Details("PASS", last), "source") }

\* The other asset always has a fresh backup.
Report(asset, time) ==
    [timestamp |-> time, platform |-> "platform", data_classification |-> "data",
     overall  |-> "INCOMPLETE", provenance |-> Missing,
     sources  |-> {[source_id |-> "source", status |-> "UNKNOWN", collected_at |-> time]},
     assets   |-> {asset, Asset(Other, "workload", Job("PASS", time, Missing), Missing, Missing)},
     findings |-> {}, actions |-> {}]

LastBackup == IF backups = {} THEN Null ELSE CHOOSE b \in backups : \A c \in backups : c <= b

Init ==
    /\ now = 0
    /\ backups = {} /\ reported = {}
    /\ unified = Report(Asset(Subject, "workload", Missing, Missing, "source"), 0)
    /\ evidence = Null /\ genuine = Null
    /\ collections = 0 /\ slips = 0
    /\ judged = JudgeSubject(unified, evidence)
    /\ passed = {}

Tick ==
    /\ now < MaxTime
    /\ now' = now + 1
    /\ UNCHANGED << backups, reported, docs, genuine, collections, slips, judged, passed >>

BackupSucceeds ==
    /\ now \notin backups /\ Cardinality(backups) < MaxBackups
    /\ backups' = backups \cup {now}
    /\ UNCHANGED << now, reported, docs, genuine, collections, slips, judged, passed >>

\* A new Unified report replaces the old one.
Collect ==
    /\ collections < MaxCollections
    /\ collections' = collections + 1
    /\ reported' = backups
    /\ \E asset \in Observed(LastBackup) : Publish(Report(asset, now), evidence)
    /\ UNCHANGED << now, backups, genuine, slips >>

\* The restore tests so far.
Tests == IF evidence = Null THEN << >> ELSE evidence.restore_tests

\* A test that has run in the past, whenever it was checked and collected.
TestRecords(n) ==
    { [restore_test_id |-> << "test", n >>, asset_id |-> outcome[1], result |-> outcome[2],
       status |-> ExpectedStatus[outcome[2]], started_at |-> timing[1], completed_at |-> timing[2],
       duration_seconds |-> IF timing[1] = Null THEN Null ELSE timing[2] - timing[1],
       checked_at |-> checked, collected_at |-> collected, wellFormed |-> TRUE,
       source_backup_reference |-> << "backup" >>, source_record_id |-> << "record", n >>,
       evidence_reference |-> << "check", n >>]
     : outcome \in Outcomes, timing \in (0..now) \X (0..now) \cup {<< Null, Null >>},
       checked \in (0..now) \cup {Null}, collected \in 0..now }

\* A restore is completed after it was started, checked after it was completed
\* and collected after it was checked.  One without a result may lack its
\* times; one that was never checked has no result.
Happened(test) ==
    /\ test.started_at # Null => /\ test.started_at <= test.completed_at
                                 /\ test.completed_at <= test.collected_at
    /\ test.checked_at # Null => /\ test.completed_at # Null => test.completed_at <= test.checked_at
                                 /\ test.checked_at <= test.collected_at
    /\ Null \in {test.started_at, test.checked_at} => test.result = "UNKNOWN"

\* The report is made now, on this test and the ones before.
ImportTest ==
    /\ Len(Tests) < MaxTests /\ slips = 0
    /\ \E test \in TestRecords(Len(Tests) + 1) :
          /\ Happened(test)
          /\ Publish(unified, [source_id |-> << "import" >>, generated_at |-> now,
                               restore_tests |-> Append(Tests, test)])
    /\ genuine' = evidence'
    /\ UNCHANGED << now, backups, reported, collections, slips >>

\* A field of a test is copied wrongly: a time or a duration off by one or
\* lost, a result or a validation status taken for another, the test
\* attributed to another asset.  The identifiers of the test and of its
\* records, which no verdict is about, are left alone.
Mistakes(test) ==
    (UNION { {[test EXCEPT ![field] = wrong] : wrong \in
                IF test[field] = Null THEN {now} ELSE {test[field] - 1, test[field] + 1, Null}}
             : field \in {"started_at", "completed_at", "duration_seconds", "checked_at"} })
    \cup {[test EXCEPT !.collected_at = @ + d] : d \in {-1, 1}}
    \cup {[test EXCEPT !.result = r] : r \in TestResults \ {test.result}}
    \cup {[test EXCEPT !.status = ExpectedStatus[r]] : r \in TestResults \ {test.result}}
    \cup {[test EXCEPT !.asset_id = a] : a \in {Subject, Other} \ {test.asset_id}}

Slip ==
    /\ slips < MaxSlips
    /\ slips' = slips + 1
    /\ \E i \in DOMAIN Tests : \E wrong \in Mistakes(Tests[i]) :
          Publish(unified, [evidence EXCEPT !.restore_tests[i] = wrong])
    /\ UNCHANGED << now, backups, reported, genuine, collections >>

Next == Tick \/ BackupSucceeds \/ Collect \/ ImportTest \/ Slip

Spec == Init /\ [][Next]_vars
-----------------------------------------------------------------------------
RuleOf(asset) == Policy.rules[CHOOSE i \in DOMAIN Policy.rules : Policy.rules[i].asset_id = asset]

\* The type of the variables; exactly a verdict that is not UNKNOWN comes with
\* an observed age or duration.
TypeOK ==
    /\ now \in Times
    /\ reported \subseteq backups /\ backups \subseteq 0..now
    /\ collections \in 0..MaxCollections /\ slips \in 0..MaxSlips
    /\ Len(Tests) <= MaxTests
    /\ \A t \in Times : judged[t] # Rejected =>
          \A v \in {judged[t].rpo, judged[t].rto} :
             /\ v.status \in {"PASS", "FAIL", "UNKNOWN"}
             /\ v.status = "UNKNOWN" <=> v.observed = Null
    /\ passed \subseteq {"rpo", "rto"} \X Times

\* The verdict on the RPO is about what really happened: PASS means that a
\* backup succeeded in the window that ends at the evaluation time, and FAIL
\* that none did of those that were known to the report; age equal to the
\* objective is within the window.
RpoMatchesHistory ==
    \A t \in Times :
        LET window == (t - RuleOf(Subject).rpo * Minute)..t IN
        /\ StatusAt("rpo", t) = "PASS" => backups \cap window # {}
        /\ StatusAt("rpo", t) = "FAIL" => reported # {} /\ reported \cap window = {}

\* The conclusive tests that were really carried out and that the evidence
\* attributes to the subject.
ConclusiveTests ==
    {i \in DOMAIN genuine.restore_tests : /\ Tests[i].asset_id = Subject
                                          /\ genuine.restore_tests[i].result # "UNKNOWN"}

\* The verdict on the RTO rests on the one conclusive test attributed to the
\* subject, on the result and the duration it really had, and is given only
\* for times the test, its check, its collection and the report are not after.
\* A single wrong field of a test is refused or disturbs none of this, except
\* that nothing in the contract tells whose test it is: only the form of
\* asset_id is validated, and the evaluator goes by it.
RtoMatchesHistory ==
    \A t \in Times : StatusAt("rto", t) \in {"PASS", "FAIL"} =>
        /\ Cardinality(ConclusiveTests) = 1
        /\ genuine.generated_at <= t
        /\ \A i \in ConclusiveTests : LET test == genuine.restore_tests[i] IN
             /\ test.completed_at <= t /\ test.checked_at <= t /\ test.collected_at <= t
             /\ StatusAt("rto", t) = "PASS" <=>
                  /\ test.result = "PASS"
                  /\ test.completed_at <= test.started_at + RuleOf(Subject).rto * Minute

\* Every test is attributed to the asset it was of.
RightlyAttributed == \A i \in DOMAIN Tests : Tests[i].asset_id = genuine.restore_tests[i].asset_id

\* What passed for a point in time is never found to fail for that same point
\* by evidence that comes in later; it can only become unknown.  One wrong
\* field changes nothing in this, unless it takes a test from its asset: with
\* a passed test gone, a failed one that made the verdict ambiguous decides.
NoPassBecomesFail ==
    \A p \in passed : p[1] = "rpo" \/ RightlyAttributed => StatusAt(p[1], p[2]) # "FAIL"

\* With the same evidence, a later evaluation time never makes an objective
\* unknown or takes back a failure.
LaterIsNoBetter ==
    \A t \in Times, u \in Times : t < u =>
        /\ StatusAt("rpo", t) = "FAIL" => StatusAt("rpo", u) = "FAIL"
        /\ StatusAt("rpo", t) = "PASS" => StatusAt("rpo", u) \in {"PASS", "FAIL"}
        /\ StatusAt("rto", t) \in {"PASS", "FAIL"} => StatusAt("rto", u) = StatusAt("rto", t)

\* The order in which rules and restore tests are written down changes nothing
\* in the evaluation, neither verdicts nor references.
OrderDoesNotMatter ==
    LET Backwards(s) == [i \in DOMAIN s |-> s[Len(s) + 1 - i]] IN
    evaluate_report(unified, Policy, now, evidence) =
      evaluate_report(unified, [Policy EXCEPT !.rules = Backwards(@)], now,
        IF evidence = Null THEN Null ELSE [evidence EXCEPT !.restore_tests = Backwards(@)])

\* An inconclusive test does not hide a verdict: importing one leaves PASS and
\* FAIL as they were, for every evaluation time the new report is not after.
InconclusiveHidesNothing ==
    [][(Len(Tests') > Len(Tests) /\ Tests'[Len(Tests')].result = "UNKNOWN") =>
          \A t \in now..MaxTime :
              StatusAt("rto", t) \in {"PASS", "FAIL"} => StatusAt("rto", t)' = StatusAt("rto", t)]_vars
=============================================================================
