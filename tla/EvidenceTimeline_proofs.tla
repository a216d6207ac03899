----------------------- MODULE EvidenceTimeline_proofs -----------------------
(***************************************************************************)
(* Proofs about EvidenceTimeline for any policy, any restore tests, any    *)
(* clock and any number of backups and reports: what the evaluation says   *)
(* of the subject is what really happened, whenever it is asked.           *)
(***************************************************************************)
EXTENDS EvidenceTimeline, SequenceTheorems, FiniteSetTheorems, WellFoundedInduction, TLAPS

(***************************************************************************)
(* What an evaluation says of the subject, taken apart.                    *)
(***************************************************************************)
Accepts(report, tests) ==
    /\ validate_policy(Policy) /\ validate_unified_report(report)
    /\ tests # Null => validate_restore_test_evidence(tests)

Rules == {Policy.rules[i] : i \in DOMAIN Policy.rules}

\* In a valid policy the subject's rule is the one the evaluator finds.
LEMMA SubjectsRule ==
    ASSUME validate_policy(Policy)
    PROVE  /\ RuleOf(Subject) \in Rules /\ RuleOf(Subject).asset_id = Subject
           /\ RuleOf(Subject).rpo \in Int /\ RuleOf(Subject).rto \in Int
           /\ RuleOf(Subject).rto # Missing
           /\ (CHOOSE rule \in Rules : rule.asset_id = Subject) = RuleOf(Subject)
<1> DEFINE rules == Policy.rules
           k == CHOOSE i \in DOMAIN rules : rules[i].asset_id = Subject
<1>1. \E i \in DOMAIN rules : rules[i].asset_id = Subject
  BY PolicyAssumption
<1>2. k \in DOMAIN rules /\ rules[k].asset_id = Subject
  BY <1>1
<1>3. RuleOf(Subject) = rules[k]
  BY DEF RuleOf
<1> HIDE DEF k
<1>4. \A i, j \in DOMAIN rules : i # j => rules[i].asset_id # rules[j].asset_id
  BY DEF validate_policy
<1>5. \A rule \in Rules : rule.asset_id = Subject => rule = rules[k]
  BY <1>2, <1>4 DEF Rules
<1>6. rules[k] \in Rules
  BY <1>2 DEF Rules
<1>7. (CHOOSE rule \in Rules : rule.asset_id = Subject) = rules[k]
  BY <1>2, <1>5, <1>6
<1>8. rules[k].rpo \in Int /\ rules[k].rto \in Int \cup {Missing} /\ rules[k].rto # Missing
  BY <1>2, PolicyAssumption
<1>9. QED
  BY <1>2, <1>3, <1>6, <1>7, <1>8

\* When the documents are accepted, the subject gets what the evaluations of
\* its own rule say, and nothing otherwise.
LEMMA SubjectsVerdicts ==
    ASSUME NEW report, NEW tests, NEW t \in Times
    PROVE  LET rule == RuleOf(Subject)
           IN  JudgeSubject(report, tests)[t] =
                 IF Accepts(report, tests)
                   THEN [policy_id |-> rule.policy_id, rpo |-> _evaluate_rpo(rule, report, t),
                         rto |-> _evaluate_rto(rule, tests, t)]
                   ELSE Rejected
<1> DEFINE verdicts == JudgeSubject(report, tests)
           rule     == RuleOf(Subject)
           evaluation == evaluate_report(report, Policy, t, tests)
<1>1. t \in Int /\ t \notin {Missing, Malformed, NonUtc, Null}
  BY TimesAssumption, MarkersAssumption DEF Times
<1>2. verdicts[t] = IF evaluation.accepted THEN evaluation.asset_results[Subject] ELSE Rejected
  BY DEF JudgeSubject
<1>3. CASE ~ Accepts(report, tests)
  <2>1. evaluation = Rejected
    BY <1>3 DEF evaluate_report, Accepts
  <2>2. QED
    BY <1>2, <1>3, <2>1 DEF Rejected
<1>4. CASE Accepts(report, tests)
  <2>0. validate_policy(Policy)
    BY <1>4 DEF Accepts
  <2> DEFINE Chosen(asset) == CHOOSE r \in Rules : r.asset_id = asset
             Judge(r) ==
               [policy_id |-> r.policy_id, rpo |-> _evaluate_rpo(r, report, t),
                rto |-> IF r.rto = Missing THEN Missing ELSE _evaluate_rto(r, tests, t)]
             Results == [asset \in {r.asset_id : r \in Rules} |-> Judge(Chosen(asset))]
             normal == IF tests = Null THEN Missing ELSE Normalized(tests)
             newPolicy == [Policy EXCEPT !.rules = Rules]
  <2>1. evaluation = [accepted |-> TRUE, evaluation_timestamp |-> t,
                      input_unified_report |-> report, policy |-> newPolicy,
                      restore_test_evidence |-> normal, asset_results |-> Results]
    BY <1>1, <1>4, Zenon DEF evaluate_report, Accepts, Rules
  <2> HIDE DEF Results, normal, newPolicy
  <2>2. evaluation.accepted = TRUE /\ evaluation.asset_results = Results
    BY <2>1
  <2>3. Subject \in {r.asset_id : r \in Rules}
    BY <2>0, SubjectsRule
  <2>4. Results[Subject] = Judge(Chosen(Subject))
    BY <2>3 DEF Results
  <2>5. Chosen(Subject) = rule
    BY <2>0, SubjectsRule
  <2>6. verdicts[t] = Judge(rule)
    BY <1>2, <2>2, <2>4, <2>5
  <2>7. rule.rto # Missing
    BY <2>0, SubjectsRule
  <2> HIDE DEF verdicts, rule, Chosen
  <2>8. verdicts[t] = [policy_id |-> rule.policy_id, rpo |-> _evaluate_rpo(rule, report, t),
                       rto |-> _evaluate_rto(rule, tests, t)]
    BY <2>6, <2>7
  <2>9. QED
    BY <1>4, <2>8 DEF verdicts, rule
<1>5. QED
  BY <1>3, <1>4

LEMMA AcceptedIsNotRejected ==
    ASSUME NEW id, NEW rpo, NEW rto
    PROVE  [policy_id |-> id, rpo |-> rpo, rto |-> rto] # Rejected
<1> DEFINE results == [policy_id |-> id, rpo |-> rpo, rto |-> rto]
<1>1. "policy_id" \in DOMAIN results /\ "policy_id" \notin DOMAIN Rejected
  BY DEF Rejected
<1> HIDE DEF results
<1>2. results # Rejected
  BY <1>1
<1>3. QED
  BY <1>2 DEF results

\* The status of an objective is the one its own evaluation gives, when the
\* documents are accepted, whatever the evaluation time.
LEMMA Statuses ==
    ASSUME NEW report, NEW tests, NEW t \in Times
    PROVE  LET verdicts == JudgeSubject(report, tests)
               rule     == RuleOf(Subject)
           IN  /\ Status(verdicts, "rpo", t) =
                    IF Accepts(report, tests) THEN _evaluate_rpo(rule, report, t).status ELSE "none"
               /\ Status(verdicts, "rto", t) =
                    IF Accepts(report, tests) THEN _evaluate_rto(rule, tests, t).status ELSE "none"
<1> DEFINE verdicts == JudgeSubject(report, tests)
           rule     == RuleOf(Subject)
           results  == [policy_id |-> rule.policy_id, rpo |-> _evaluate_rpo(rule, report, t),
                        rto |-> _evaluate_rto(rule, tests, t)]
<1>1. verdicts[t] = IF Accepts(report, tests) THEN results ELSE Rejected
  BY SubjectsVerdicts, Zenon
<1>2. results # Rejected
  BY AcceptedIsNotRejected
<1>3. /\ results["rpo"] = _evaluate_rpo(rule, report, t)
      /\ results["rto"] = _evaluate_rto(rule, tests, t)
  OBVIOUS
<1> HIDE DEF verdicts, rule, results
<1>4. QED
  BY <1>1, <1>2, <1>3, Zenon DEF Status, verdicts, rule
-----------------------------------------------------------------------------
(***************************************************************************)
(* The verdict on the RPO.                                                 *)
(***************************************************************************)
Markers == {Missing, Null, Malformed, NonUtc}

Latest(S) == {b \in S : \A c \in S : c <= b}

\* Every time the report gives for the subject is of the last of these backups.
TellsOf(report, S) ==
    \E asset, at : 
        /\ report = Report(asset, at) /\ asset.asset_id = Subject
        /\ asset.backup_job = Missing \/ asset.backup_job.last \in Markers \cup Latest(S)
        /\ asset.source_evidence = Missing \/ asset.source_evidence.last \in Markers \cup Latest(S)

\* The subject is the only asset of the report with its identifier.
LEMMA OnlySubject ==
    ASSUME NEW asset, NEW at, asset.asset_id = Subject
    PROVE  {a \in Report(asset, at).assets : a.asset_id = Subject} = {asset}
<1> DEFINE other == Asset(Other, "workload", Job("PASS", at, Missing), Missing, Missing)
<1>1. Report(asset, at).assets = {asset, other}
  BY DEF Report
<1>2. other.asset_id = Other
  BY DEF Asset
<1> HIDE DEF other
<1>3. QED
  BY <1>1, <1>2, OutcomesAssumption

\* The only candidate takes its time from the job or from the details.
LEMMA CandidateTimes ==
    ASSUME NEW asset, NEW L,
           asset.backup_job = Missing \/ asset.backup_job.last \in L,
           asset.source_evidence = Missing \/ asset.source_evidence.last \in L,
           _direct_backup_evidence(asset) # << >>,
           ~ (Len(_direct_backup_evidence(asset)) > 1)
    PROVE  _direct_backup_evidence(asset)[1].last \in L
<1> DEFINE job == asset.backup_job
           details == asset.source_evidence
           c1 == [status |-> job.status, last |-> job.last, source_id |-> job.source_id,
                  requires_source_link |-> job.source_id # Missing]
           c2 == [status |-> details.status, last |-> details.last,
                  source_id |-> asset.evidence_source_id, requires_source_link |-> TRUE]
           s1 == IF job = Missing THEN << >> ELSE << c1 >>
           s2 == IF details = Missing \/ (asset.resource_type # "backup_job" /\ details.last = Missing)
                   THEN << >> ELSE << c2 >>
<1>1. _direct_backup_evidence(asset) = s1 \o s2
  BY Zenon DEF _direct_backup_evidence
<1>2. c1.last = job.last /\ c2.last = details.last
  OBVIOUS
<1> HIDE DEF c1, c2
<1>3. CASE s1 = << >> /\ s2 = << >>
  BY <1>1, <1>3
<1>4. CASE s1 = << c1 >> /\ s2 = << >> /\ job # Missing
  <2>1. (s1 \o s2)[1] = c1
    BY <1>4
  <2>2. QED
    BY <1>1, <1>2, <1>4, <2>1
<1>5. CASE s1 = << >> /\ s2 = << c2 >> /\ details # Missing
  <2>1. (s1 \o s2)[1] = c2
    BY <1>5
  <2>2. QED
    BY <1>1, <1>2, <1>5, <2>1
<1>6. CASE s1 = << c1 >> /\ s2 = << c2 >>
  <2>1. Len(s1 \o s2) = 2
    BY <1>6
  <2>2. QED
    BY <1>1, <2>1
<1>7. QED
  BY <1>3, <1>4, <1>5, <1>6

\* The RPO cannot be judged, or it is judged on a candidate whose time is that
\* of the last backup known to the report, if it has a time.
LEMMA RpoCandidate ==
    ASSUME NEW S, NEW report, TellsOf(report, S), NEW rule, rule.asset_id = Subject
    PROVE  \/ \E reason : \A u : _evaluate_rpo(rule, report, u) = Unknown(reason, {})
           \/ \E candidate :
                 /\ candidate.last \in Markers \cup Latest(S)
                 /\ \A u : _evaluate_rpo(rule, report, u) =
                              JudgeBackup(rule, candidate, SourceIds(report), u)
<1>1. PICK asset, at :
        /\ report = Report(asset, at) /\ asset.asset_id = Subject
        /\ asset.backup_job = Missing \/ asset.backup_job.last \in Markers \cup Latest(S)
        /\ asset.source_evidence = Missing \/ asset.source_evidence.last \in Markers \cup Latest(S)
  BY DEF TellsOf
<1> DEFINE matching == {a \in report.assets : a.asset_id = rule.asset_id}
           candidates == _direct_backup_evidence(asset)
           sources == SourceIds(report)
<1>2. matching = {asset} /\ (CHOOSE a \in matching : TRUE) = asset
  BY <1>1, OnlySubject
<1>3. ASSUME NEW u
      PROVE  _evaluate_rpo(rule, report, u) =
               IF Len(candidates) > 1 THEN Unknown("AMBIGUOUS_BACKUP_EVIDENCE", {})
               ELSE IF candidates = << >> THEN Unknown("MISSING_BACKUP_EVIDENCE", {})
               ELSE JudgeBackup(rule, candidates[1], sources, u)
  <2>1. _evaluate_rpo(rule, report, u) =
          IF matching = {} THEN Unknown("MISSING_ASSET", {})
          ELSE IF Len(_direct_backup_evidence(CHOOSE a \in matching : TRUE)) > 1
            THEN Unknown("AMBIGUOUS_BACKUP_EVIDENCE", {})
          ELSE IF _direct_backup_evidence(CHOOSE a \in matching : TRUE) = << >>
            THEN Unknown("MISSING_BACKUP_EVIDENCE", {})
          ELSE JudgeBackup(rule, _direct_backup_evidence(CHOOSE a \in matching : TRUE)[1], sources, u)
    BY Zenon DEF _evaluate_rpo
  <2> HIDE DEF matching, sources
  <2>2. QED
    BY <1>2, <2>1
<1> HIDE DEF sources, candidates
<1>4. CASE Len(candidates) > 1
  BY <1>3, <1>4
<1>5. CASE ~ (Len(candidates) > 1) /\ candidates = << >>
  BY <1>3, <1>5
<1>6. CASE ~ (Len(candidates) > 1) /\ candidates # << >>
  <2>1. candidates[1].last \in Markers \cup Latest(S)
    BY <1>1, <1>6, CandidateTimes DEF candidates
  <2>2. \A u : _evaluate_rpo(rule, report, u) = JudgeBackup(rule, candidates[1], sources, u)
    BY <1>3, <1>6
  <2>3. QED
    BY <2>1, <2>2 DEF sources
<1>7. QED
  BY <1>4, <1>5, <1>6

LEMMA UnknownFields ==
    ASSUME NEW reason, NEW ids
    PROVE  Unknown(reason, ids).status = "UNKNOWN" /\ Unknown(reason, ids).observed = Null
  BY DEF Unknown, Verdict

\* What a verdict on the RPO other than UNKNOWN says: the last backup known to
\* the report is not after the evaluation time, and its age is within the
\* objective or not.
LEMMA RpoVerdict ==
    ASSUME NEW S, S \subseteq Nat, NEW report, TellsOf(report, S),
           NEW rule, rule.asset_id = Subject, rule.rpo \in Int, NEW t \in Int,
           _evaluate_rpo(rule, report, t).status \in {"PASS", "FAIL"}
    PROVE  \E b \in Latest(S) :
              /\ b <= t
              /\ _evaluate_rpo(rule, report, t).status =
                    IF t - b <= rule.rpo * Minute THEN "PASS" ELSE "FAIL"
              /\ \A u \in Int : b <= u =>
                    _evaluate_rpo(rule, report, u).status =
                       IF u - b <= rule.rpo * Minute THEN "PASS" ELSE "FAIL"
<1> DEFINE sources == SourceIds(report)
<1>1. \A reason, ids : Unknown(reason, ids).status = "UNKNOWN"
  BY UnknownFields
<1>2. PICK candidate :
        /\ candidate.last \in Markers \cup Latest(S)
        /\ \A u : _evaluate_rpo(rule, report, u) = JudgeBackup(rule, candidate, sources, u)
  BY <1>1, RpoCandidate
<1> HIDE DEF sources
<1> DEFINE ids == _source_ids(candidate)
           unlinked == candidate.requires_source_link /\ (ids = {} \/ ~ (ids \subseteq sources))
           nothing == candidate.status # "PASS" \/ candidate.last \in {Missing, Null}
<1>3. ASSUME NEW u
      PROVE  JudgeBackup(rule, candidate, sources, u).status =
               IF unlinked \/ nothing \/ candidate.last \in {Malformed, NonUtc}
                  \/ candidate.last > u
                 THEN "UNKNOWN"
               ELSE IF u - candidate.last <= rule.rpo * Minute THEN "PASS" ELSE "FAIL"
  BY <1>1 DEF JudgeBackup, FutureBackup, Within, Verdict
<1> HIDE DEF unlinked, nothing
<1>4. /\ ~ unlinked /\ ~ nothing /\ candidate.last \notin {Malformed, NonUtc}
      /\ ~ (candidate.last > t)
  BY <1>2, <1>3
<1>5. candidate.last \in Latest(S)
  BY <1>2, <1>4 DEF Markers, nothing
<1>6. candidate.last \in Nat
  BY <1>5 DEF Latest
<1>7. \A u \in Int : candidate.last <= u =>
         _evaluate_rpo(rule, report, u).status =
            IF u - candidate.last <= rule.rpo * Minute THEN "PASS" ELSE "FAIL"
  BY <1>2, <1>3, <1>4, <1>6
<1>8. QED
  BY <1>4, <1>5, <1>6, <1>7

Window(t) == (t - RuleOf(Subject).rpo * Minute)..t

RpoOnlyAges(verdicts, t, u) ==
    /\ Status(verdicts, "rpo", t) = "PASS" => Status(verdicts, "rpo", u) \in {"PASS", "FAIL"}
    /\ Status(verdicts, "rpo", t) = "FAIL" => Status(verdicts, "rpo", u) = "FAIL"

\* The verdicts on the RPO in terms of the backups the report knows.
LEMMA RpoAtTwoTimes ==
    ASSUME NEW S, S \subseteq Nat, NEW report, TellsOf(report, S), NEW tests,
           NEW t \in Times, NEW u \in Times
    PROVE  /\ Status(JudgeSubject(report, tests), "rpo", t) = "PASS" => S \cap Window(t) # {}
           /\ Status(JudgeSubject(report, tests), "rpo", t) = "FAIL" =>
                 S # {} /\ S \cap Window(t) = {}
           /\ t < u => RpoOnlyAges(JudgeSubject(report, tests), t, u)
<1> DEFINE verdicts == JudgeSubject(report, tests)
           rule == RuleOf(Subject)
           At(v) == Status(verdicts, "rpo", v)
<1>1. CASE At(t) \notin {"PASS", "FAIL"}
  BY <1>1 DEF RpoOnlyAges
<1>2. CASE At(t) \in {"PASS", "FAIL"}
  <2>1. Accepts(report, tests)
    BY <1>2, Statuses
  <2>2. rule.asset_id = Subject /\ rule.rpo \in Int
    BY <2>1, SubjectsRule DEF Accepts
  <2>3. \A v \in Times : At(v) = _evaluate_rpo(rule, report, v).status
    BY <2>1, Statuses
  <2>4. Times \subseteq Int
    BY DEF Times
  <2>5. PICK b \in Latest(S) :
           /\ b <= t
           /\ \A v \in Int : b <= v =>
                 _evaluate_rpo(rule, report, v).status =
                    IF v - b <= rule.rpo * Minute THEN "PASS" ELSE "FAIL"
    BY <1>2, <2>2, <2>3, <2>4, RpoVerdict
  <2> DEFINE size == rule.rpo * Minute
  <2>6. size \in Int /\ b \in Nat /\ t \in Int /\ u \in Int
    BY <2>2, <2>4, TimesAssumption DEF Latest
  <2>7. /\ b \in S /\ \A c \in S : c <= b
        /\ Window(t) = (t - size)..t
    BY DEF Latest, Window
  <2>8. \A v \in {t, u} : b <= v => At(v) = IF v - b <= size THEN "PASS" ELSE "FAIL"
    BY <2>3, <2>4, <2>5
  <2> HIDE DEF size, At
  <2>9. At(t) = "PASS" => b \in Window(t)
    BY <2>5, <2>6, <2>7, <2>8
  <2>10. At(t) = "FAIL" => S \cap Window(t) = {}
    <3>1. At(t) = "FAIL" => b < t - size
      BY <2>5, <2>6, <2>8
    <3>2. QED
      BY <2>6, <2>7, <3>1
  <2>11. t < u => At(u) \in {"PASS", "FAIL"} /\ (At(t) = "FAIL" => At(u) = "FAIL")
    BY <2>5, <2>6, <2>8
  <2>12. t < u => RpoOnlyAges(verdicts, t, u)
    BY <2>11 DEF At, RpoOnlyAges
  <2>13. QED
    BY <2>7, <2>9, <2>10, <2>12 DEF At
<1>3. QED
  BY <1>1, <1>2

LEMMA RpoOfReport ==
    ASSUME NEW S, S \subseteq Nat, NEW report, TellsOf(report, S), NEW tests, NEW t \in Times
    PROVE  /\ Status(JudgeSubject(report, tests), "rpo", t) = "PASS" => S \cap Window(t) # {}
           /\ Status(JudgeSubject(report, tests), "rpo", t) = "FAIL" =>
                 S # {} /\ S \cap Window(t) = {}
  BY RpoAtTwoTimes

\* A set of numbers that is not empty has a least member.
LEMMA LeastExists ==
    ASSUME NEW I, I \subseteq Nat, I # {}
    PROVE  \E i \in I : \A j \in I : i <= j
<1>1. PICK i \in I : \A j \in I : ~ (<< j, i >> \in OpToRel(<, Nat))
  BY WFMin, NatLessThanWellFounded
<1>2. \A j \in I : i <= j
  <2> TAKE j \in I
  <2>1. i \in Nat /\ j \in Nat
    OBVIOUS
  <2>2. ~ (j < i)
    BY <1>1, <2>1 DEF OpToRel
  <2>3. QED
    BY <2>1, <2>2
<1>3. QED
  BY <1>2

\* Of backups up to now there is a last one.
LEMMA LastBackupIsLatest ==
    ASSUME now \in Nat, backups \subseteq 0..now
    PROVE  LastBackup \in {Null} \cup Latest(backups)
<1>1. CASE backups = {}
  BY <1>1 DEF LastBackup
<1>2. CASE backups # {}
  <2> DEFINE Ages == {now - b : b \in backups}
  <2>1. Ages \subseteq Nat /\ Ages # {}
    <3>1. \A b \in backups : b \in Nat /\ b <= now
      OBVIOUS
    <3>2. \A b \in backups : now - b \in Nat
      BY <3>1
    <3>3. QED
      BY <1>2, <3>2
  <2>2. PICK a \in Ages : \A d \in Ages : a <= d
    <3> HIDE DEF Ages
    <3> QED
      BY <2>1, LeastExists
  <2>3. PICK b \in backups : a = now - b
    OBVIOUS
  <2>4. \A c \in backups : c <= b
    <3> TAKE c \in backups
    <3>1. now - c \in Ages
      OBVIOUS
    <3>2. now - b <= now - c
      BY <2>2, <2>3, <3>1
    <3>3. b \in Nat /\ c \in Nat
      OBVIOUS
    <3>4. QED
      BY <3>2, <3>3
  <2>5. LastBackup \in backups /\ \A c \in backups : c <= LastBackup
    BY <1>2, <2>4 DEF LastBackup
  <2>6. QED
    BY <2>5 DEF Latest
<1>3. QED
  BY <1>1, <1>2

LEMMA AssetFields ==
    ASSUME NEW id, NEW type, NEW job, NEW details, NEW source
    PROVE  LET a == Asset(id, type, job, details, source)
           IN  a.asset_id = id /\ a.backup_job = job /\ a.source_evidence = details
  BY DEF Asset

\* Whatever is observed of the subject, it carries no other time than the last.
LEMMA ObservedTimes ==
    ASSUME NEW last, NEW asset \in Observed(last)
    PROVE  /\ asset.asset_id = Subject
           /\ asset.backup_job = Missing \/ asset.backup_job.last \in Markers \cup {last}
           /\ asset.source_evidence = Missing \/ asset.source_evidence.last \in Markers \cup {last}
<1>1. \E type, job, details, source :
         /\ asset = Asset(Subject, type, job, details, source)
         /\ \/ job = Missing
            \/ \E status, time, id : time \in {last, NonUtc} /\ job = Job(status, time, id)
         /\ \/ details = Missing
            \/ \E status, time : time \in {last, Null, Malformed} /\ details = Details(status, time)
  BY DEF Observed
<1>2. \A status, time, id : Job(status, time, id).last = time
  BY DEF Job
<1>3. \A status, time : Details(status, time).last = time
  BY DEF Details
<1>4. QED
  BY <1>1, <1>2, <1>3, AssetFields DEF Markers
-----------------------------------------------------------------------------
(***************************************************************************)
(* The invariant about backups and reports.                                *)
(***************************************************************************)
Judged == judged = JudgeSubject(unified, evidence)

BackupsInv ==
    /\ now \in Nat /\ backups \subseteq 0..now /\ reported \subseteq backups
    /\ TellsOf(unified, reported)
    /\ Judged
    /\ passed \subseteq {"rpo", "rto"} \X Times
    /\ \A p \in passed : p[1] = "rpo" => reported \cap Window(p[2]) # {}

LEMMA InitBackups == Init => BackupsInv
<1> SUFFICES ASSUME Init PROVE BackupsInv
  OBVIOUS
<1> DEFINE asset == Asset(Subject, "workload", Missing, Missing, "source")
<1>1. asset.asset_id = Subject /\ asset.backup_job = Missing /\ asset.source_evidence = Missing
  BY AssetFields
<1>2. unified = Report(asset, 0)
  BY DEF Init
<1> HIDE DEF asset
<1>3. TellsOf(unified, reported)
  BY <1>1, <1>2 DEF TellsOf
<1>4. QED
  BY <1>3 DEF Init, BackupsInv, Judged

\* What a new publication adds to the history, and the reports of a step.
LEMMA PublishBackups ==
    ASSUME BackupsInv, NEW report, NEW tests, Publish(report, tests), UNCHANGED << now, backups >>,
           reported' \subseteq backups, reported \subseteq reported', TellsOf(report, reported')
    PROVE  BackupsInv'
<1>1. /\ unified' = report /\ evidence' = tests /\ judged' = JudgeSubject(report, tests)
      /\ passed' = passed \cup {p \in {"rpo", "rto"} \X Times : Status(judged', p[1], p[2]) = "PASS"}
  BY DEF Publish
<1>2. reported' \subseteq Nat
  BY DEF BackupsInv
<1>3. Window(0)' = Window(0) /\ \A t : Window(t)' = Window(t)
  BY DEF Window, RuleOf
<1>4. ASSUME NEW p \in passed', p[1] = "rpo" PROVE reported' \cap Window(p[2]) # {}
  <2>1. CASE p \in passed
    BY <1>4, <2>1 DEF BackupsInv
  <2>2. CASE p \notin passed
    <3>1. p[2] \in Times /\ Status(judged', "rpo", p[2]) = "PASS"
      BY <1>1, <1>4, <2>2
    <3>2. Status(JudgeSubject(report, tests), "rpo", p[2]) = "PASS"
      BY <1>1, <3>1
    <3>3. Status(JudgeSubject(report, tests), "rpo", p[2]) = "PASS" =>
             reported' \cap Window(p[2]) # {}
      <4>1. ASSUME NEW S, S \subseteq Nat, TellsOf(report, S), NEW t \in Times,
                   Status(JudgeSubject(report, tests), "rpo", t) = "PASS"
            PROVE  S \cap Window(t) # {}
        BY <4>1, RpoOfReport, Zenon
      <4>2. QED
        BY <1>2, <3>1, <4>1
    <3>4. QED
      BY <3>2, <3>3
  <2>3. QED
    BY <2>1, <2>2
<1>5. passed' \subseteq {"rpo", "rto"} \X Times
  BY <1>1 DEF BackupsInv
<1>6. Judged'
  BY <1>1 DEF Judged
<1>7. TellsOf(report, reported)' 
  BY <1>1 DEF TellsOf
<1>8. QED
  BY <1>1, <1>3, <1>4, <1>5, <1>6, <1>7 DEF BackupsInv

LEMMA NextBackups == BackupsInv /\ [Next]_vars => BackupsInv'
<1> SUFFICES ASSUME BackupsInv, [Next]_vars PROVE BackupsInv'
  OBVIOUS
<1>1. /\ now \in Nat /\ backups \subseteq 0..now /\ reported \subseteq backups
      /\ TellsOf(unified, reported) /\ Judged
      /\ passed \subseteq {"rpo", "rto"} \X Times
      /\ \A p \in passed : p[1] = "rpo" => reported \cap Window(p[2]) # {}
  BY DEF BackupsInv
<1>2. \A t : Window(t)' = Window(t)
  BY DEF Window, RuleOf
<1>3. CASE UNCHANGED << reported, unified, evidence, judged, passed >>
           /\ now' \in Nat /\ backups' \subseteq 0..now' /\ backups \subseteq backups'
  <2>1. Judged' /\ TellsOf(unified, reported)'
    BY <1>1, <1>3 DEF Judged, TellsOf
  <2>2. QED
    BY <1>1, <1>2, <1>3, <2>1 DEF BackupsInv
<1>4. CASE Tick
  <2>1. now' = now + 1 /\ UNCHANGED << backups, reported, unified, evidence, judged, passed >>
    BY <1>4 DEF Tick, docs
  <2>2. now' \in Nat /\ backups' \subseteq 0..now'
    BY <1>1, <2>1
  <2>3. QED
    BY <1>3, <2>1, <2>2
<1>5. CASE BackupSucceeds
  <2>1. /\ backups' = backups \cup {now}
        /\ UNCHANGED << now, reported, unified, evidence, judged, passed >>
    BY <1>5 DEF BackupSucceeds, docs
  <2>2. now' \in Nat /\ backups' \subseteq 0..now'
    BY <1>1, <2>1
  <2>3. QED
    BY <1>3, <2>1, <2>2
<1>6. CASE Collect
  <2>1. PICK asset \in Observed(LastBackup) : Publish(Report(asset, now), evidence)
    BY <1>6 DEF Collect
  <2>2. reported' = backups /\ UNCHANGED << now, backups >>
    BY <1>6 DEF Collect
  <2>3. Markers \cup {LastBackup} \subseteq Markers \cup Latest(backups)
    BY <1>1, LastBackupIsLatest DEF Markers
  <2>4. /\ asset.asset_id = Subject
        /\ asset.backup_job = Missing \/ asset.backup_job.last \in Markers \cup Latest(backups)
        /\ asset.source_evidence = Missing \/ asset.source_evidence.last \in Markers \cup Latest(backups)
    BY <2>3, ObservedTimes
  <2>5. TellsOf(Report(asset, now), backups)
    BY <2>4 DEF TellsOf
  <2>6. TellsOf(Report(asset, now), reported')
    BY <2>2, <2>5
  <2> DEFINE report == Report(asset, now)
  <2> HIDE DEF report
  <2>7. BackupsInv'
    BY <1>1, <2>1, <2>2, <2>6, PublishBackups DEF report
  <2>8. QED
    BY <2>7
<1>7. ASSUME NEW tests, Publish(unified, tests), UNCHANGED << now, backups, reported >>
      PROVE  BackupsInv'
  <2>1. TellsOf(unified, reported')
    BY <1>1, <1>7
  <2>2. QED
    BY <1>1, <1>7, <2>1, PublishBackups
<1>8. CASE ImportTest
  <2>1. \E tests : Publish(unified, tests)
    BY <1>8 DEF ImportTest
  <2>2. QED
    BY <1>7, <1>8, <2>1 DEF ImportTest
<1>9. CASE Slip
  <2>1. \E tests : Publish(unified, tests)
    BY <1>9 DEF Slip
  <2>2. QED
    BY <1>7, <1>9, <2>1 DEF Slip
<1>10. CASE UNCHANGED vars
  BY <1>1, <1>3, <1>10 DEF vars, docs
<1>11. QED
  BY <1>4, <1>5, <1>6, <1>8, <1>9, <1>10 DEF Next

LEMMA BackupsInvHolds == Spec => []BackupsInv
  BY InitBackups, NextBackups, PTL DEF Spec

\* PASS for any evaluation time means a backup that really succeeded in the
\* window that ends there, FAIL that the report knows of backups, none of
\* which is in the window.
THEOREM RpoIsAboutHistory == Spec => []RpoMatchesHistory
<1>1. BackupsInv => RpoMatchesHistory
  <2> SUFFICES ASSUME BackupsInv, NEW t \in Times
               PROVE  /\ StatusAt("rpo", t) = "PASS" => backups \cap Window(t) # {}
                      /\ StatusAt("rpo", t) = "FAIL" => reported # {} /\ reported \cap Window(t) = {}
    BY DEF RpoMatchesHistory, Window
  <2>1. reported \subseteq Nat /\ reported \subseteq backups /\ TellsOf(unified, reported)
    BY DEF BackupsInv
  <2>2. StatusAt("rpo", t) = Status(JudgeSubject(unified, evidence), "rpo", t)
    BY DEF BackupsInv, Judged, StatusAt
  <2>3. QED
    BY <2>1, <2>2, RpoOfReport
<1>2. QED
  BY <1>1, BackupsInvHolds, PTL
-----------------------------------------------------------------------------
(***************************************************************************)
(* The verdict on the RTO.                                                 *)
(***************************************************************************)
Conclusive(tests, asset) ==
    {i \in DOMAIN tests : tests[i].asset_id = asset /\ tests[i].result # "UNKNOWN"}

\* Position i holds the only conclusive test of the asset.
Sole(tests, asset, i) ==
    i \in Conclusive(tests, asset) /\ \A j \in Conclusive(tests, asset) : j = i

TestStatus(rule, test) ==
    IF test.result # "FAIL" /\ test.duration_seconds <= rule.rto * Minute THEN "PASS" ELSE "FAIL"

\* What is made of a single test.
LEMMA TestVerdict ==
    ASSUME NEW rule, NEW e, NEW test, NEW t
    PROVE  JudgeTest(rule, e, test, t).status =
             IF _has_future_restore_timestamp(e, test, t) \/ test.result = "UNKNOWN"
               THEN "UNKNOWN" ELSE TestStatus(rule, test)
<1> DEFINE ids == _restore_test_source_ids(e, test)
           At(status, reason, observed) ==
             [status |-> status, reason |-> reason, observed |-> observed, sources |-> ids,
              restore_test_id |-> test.restore_test_id]
<1>1. JudgeTest(rule, e, test, t) =
        IF _has_future_restore_timestamp(e, test, t)
          THEN At("UNKNOWN", "RTO_RESTORE_TEST_FUTURE_TIMESTAMP", Null)
        ELSE IF test.result = "UNKNOWN"
          THEN At("UNKNOWN", "RTO_RESTORE_TEST_UNKNOWN", Null)
        ELSE IF test.result = "FAIL"
          THEN At("FAIL", "RTO_RESTORE_TEST_FAILED", test.duration_seconds)
        ELSE IF Within(test.duration_seconds, rule.rto)
          THEN At("PASS", "RTO_WITHIN_OBJECTIVE", test.duration_seconds)
        ELSE At("FAIL", "RTO_EXCEEDED_OBJECTIVE", test.duration_seconds)
  BY Zenon DEF JudgeTest
<1>2. \A status, reason, observed : At(status, reason, observed).status = status
  OBVIOUS
<1> HIDE DEF At
<1>3. QED
  BY <1>1, <1>2 DEF TestStatus, Within

\* The verdict rests on the test at position i.
RestsOn(rule, e, t, i) ==
    /\ e # Null /\ Sole(e.restore_tests, rule.asset_id, i)
    /\ ~ _has_future_restore_timestamp(e, e.restore_tests[i], t)
    /\ _evaluate_rto(rule, e, t).status = TestStatus(rule, e.restore_tests[i])

\* A verdict rests on the only conclusive test of the asset, and every such
\* test leads to its verdict, once none of its times is in the future.
LEMMA RtoVerdict ==
    ASSUME NEW rule, NEW e, DOMAIN e.restore_tests \subseteq Nat, NEW t
    PROVE  /\ _evaluate_rto(rule, e, t).status \in {"PASS", "FAIL"} =>
                \E i : RestsOn(rule, e, t, i)
           /\ \A i : /\ e # Null /\ Sole(e.restore_tests, rule.asset_id, i)
                     /\ ~ _has_future_restore_timestamp(e, e.restore_tests[i], t)
                     => _evaluate_rto(rule, e, t).status = TestStatus(rule, e.restore_tests[i])
<1> DEFINE tests    == e.restore_tests
           matching == Matching(rule, tests)
           reliable == {i \in matching : tests[i].result # "UNKNOWN"}
           deciding == IF reliable # {} THEN reliable ELSE matching
           first    == CHOOSE i \in deciding : \A j \in deciding : i <= j
           all      == UNION {_restore_test_source_ids(e, tests[i]) : i \in matching}
<1>1. _evaluate_rto(rule, e, t) =
        IF e = Null THEN Unknown("RTO_EVIDENCE_CONTRACT_NOT_AVAILABLE", {})
        ELSE IF matching = {} THEN Unknown("RTO_RESTORE_TEST_ASSET_NOT_FOUND", {})
        ELSE IF Ambiguous(matching, reliable) THEN Unknown("RTO_RESTORE_TEST_AMBIGUOUS", all)
        ELSE JudgeTest(rule, e, tests[first], t)
  BY Zenon DEF _evaluate_rto
<1>2. reliable = Conclusive(tests, rule.asset_id) /\ matching \subseteq Nat
  BY DEF Matching, Conclusive
<1>3. \A reason, ids : Unknown(reason, ids).status = "UNKNOWN"
  BY DEF Unknown, Verdict
<1>4. ASSUME e # Null, matching # {}, ~ Ambiguous(matching, reliable)
      PROVE  /\ first \in deciding /\ \A j \in deciding : j = first
             /\ _evaluate_rto(rule, e, t).status =
                  IF _has_future_restore_timestamp(e, tests[first], t)
                     \/ tests[first].result = "UNKNOWN"
                    THEN "UNKNOWN" ELSE TestStatus(rule, tests[first])
  <2>1. deciding # {} /\ \A i, j \in deciding : i = j
    BY <1>4 DEF Ambiguous, Several
  <2>2. PICK k \in deciding : \A j \in deciding : j = k
    BY <2>1
  <2>3. k \in Nat
    BY <1>2, <2>2
  <2>4. \E i \in deciding : \A j \in deciding : i <= j
    <3>1. k <= k
      BY <2>3
    <3>2. \A j \in deciding : k <= j
      BY <2>2, <3>1
    <3>3. QED
      BY <2>2, <3>2
  <2>5. first \in deciding
    BY <2>4
  <2> HIDE DEF first, deciding
  <2>6. QED
    BY <1>1, <1>4, <2>1, <2>5, TestVerdict
<1> HIDE DEF all, first
<1>5. ASSUME _evaluate_rto(rule, e, t).status \in {"PASS", "FAIL"}
      PROVE  \E i : RestsOn(rule, e, t, i)
  <2>1. e # Null /\ matching # {} /\ ~ Ambiguous(matching, reliable)
    BY <1>1, <1>3, <1>5
  <2>2. /\ ~ _has_future_restore_timestamp(e, tests[first], t)
        /\ tests[first].result # "UNKNOWN"
        /\ _evaluate_rto(rule, e, t).status = TestStatus(rule, tests[first])
    BY <1>4, <1>5, <2>1
  <2>3. reliable # {}
    BY <1>4, <2>1, <2>2
  <2>4. Sole(tests, rule.asset_id, first)
    BY <1>2, <1>4, <2>1, <2>3 DEF Sole
  <2>5. QED
    BY <2>1, <2>2, <2>4 DEF RestsOn
<1>6. ASSUME NEW i, e # Null, Sole(tests, rule.asset_id, i),
             ~ _has_future_restore_timestamp(e, tests[i], t)
      PROVE  _evaluate_rto(rule, e, t).status = TestStatus(rule, tests[i])
  <2>1. i \in reliable /\ \A j \in reliable : j = i
    BY <1>2, <1>6 DEF Sole
  <2>2. matching # {} /\ ~ Ambiguous(matching, reliable)
    BY <2>1 DEF Ambiguous, Several
  <2>3. first = i
    BY <1>4, <1>6, <2>1, <2>2
  <2>4. tests[i].result # "UNKNOWN"
    BY <2>1
  <2>5. QED
    BY <1>4, <1>6, <2>2, <2>3, <2>4
<1>7. QED
  BY <1>5, <1>6

LEMMA RtoFollowsFrom ==
    ASSUME NEW rule, NEW e, DOMAIN e.restore_tests \subseteq Nat, NEW t, e # Null,
           NEW i, Sole(e.restore_tests, rule.asset_id, i),
           ~ _has_future_restore_timestamp(e, e.restore_tests[i], t)
    PROVE  _evaluate_rto(rule, e, t).status = TestStatus(rule, e.restore_tests[i])
  BY RtoVerdict
-----------------------------------------------------------------------------
(***************************************************************************)
(* The records of restore tests, and what copying one wrongly does.        *)
(***************************************************************************)

\* The record of test number n in a report made at a given time.
Real(test, n, at) ==
    /\ test.restore_test_id = << "test", n >> /\ test.source_record_id = << "record", n >>
    /\ _validate_restore_test(test)
    /\ test.collected_at <= at

LEMMA NewTest ==
    ASSUME now \in Nat, NEW n \in Nat, NEW test \in TestRecords(n),
           Happened(test)
    PROVE  test \in TestType /\ Real(test, n, now)
<1>1. PICK outcome \in Outcomes, timing \in ((0..now) \X (0..now)) \cup {<< Null, Null >>},
           checked \in (0..now) \cup {Null}, collected \in 0..now :
        test = [restore_test_id |-> << "test", n >>, asset_id |-> outcome[1], result |-> outcome[2],
                status |-> ExpectedStatus[outcome[2]], started_at |-> timing[1],
                completed_at |-> timing[2],
                duration_seconds |-> IF timing[1] = Null THEN Null ELSE timing[2] - timing[1],
                checked_at |-> checked, collected_at |-> collected, wellFormed |-> TRUE,
                source_backup_reference |-> << "backup" >>, source_record_id |-> << "record", n >>,
                evidence_reference |-> << "check", n >>]
  BY DEF TestRecords
<1> DEFINE duration == IF timing[1] = Null THEN Null ELSE timing[2] - timing[1]
<1>2. /\ test.restore_test_id = << "test", n >> /\ test.asset_id = outcome[1]
      /\ test.result = outcome[2] /\ test.status = ExpectedStatus[outcome[2]]
      /\ test.started_at = timing[1] /\ test.completed_at = timing[2]
      /\ test.duration_seconds = duration /\ test.checked_at = checked
      /\ test.collected_at = collected /\ test.wellFormed = TRUE
      /\ test.source_record_id = << "record", n >> /\ test.evidence_reference = << "check", n >>
  BY <1>1
<1>3. outcome[2] \in TestResults
  BY OutcomesAssumption
<1>4. Null \notin Int /\ << "check", n >> # Null
  <2>1. << "check", n >> \in {"check"} \X Nat
    OBVIOUS
  <2>2. QED
    BY <2>1, MarkersAssumption
<1>5. \/ timing[1] = Null /\ timing[2] = Null /\ duration = Null
      \/ /\ timing[1] \in 0..now /\ timing[2] \in 0..now
         /\ duration = timing[2] - timing[1] /\ duration \in Int
  BY <1>4
<1>6. test \in TestType
  <2>1. /\ timing[1] \in OptionalTime /\ timing[2] \in OptionalTime /\ duration \in OptionalTime
        /\ checked \in OptionalTime /\ collected \in Int
    BY <1>5 DEF OptionalTime
  <2>2. ExpectedStatus[outcome[2]] \in {ExpectedStatus[r] : r \in TestResults}
    BY <1>3
  <2> HIDE DEF duration
  <2>3. /\ << "test", n >> \in {"test"} \X Nat /\ << "record", n >> \in {"record"} \X Nat
        /\ << "check", n >> \in {"check"} \X Nat
        /\ outcome[1] \in {o[1] : o \in Outcomes} \cup {Subject, Other}
    OBVIOUS
  <2>4. QED
    BY <1>1, <1>3, <2>1, <2>2, <2>3 DEF TestType, duration
<1>7. _validate_timing(test)
  <2>1. CASE timing[1] = Null /\ timing[2] = Null /\ duration = Null
    <3>1. test.result = "UNKNOWN"
      BY <1>2, <2>1 DEF Happened
    <3>2. {test.started_at, test.completed_at, test.duration_seconds} = {Null}
      BY <1>2, <2>1
    <3>3. QED
      BY <3>1, <3>2 DEF _validate_timing
  <2>2. CASE /\ timing[1] \in 0..now /\ timing[2] \in 0..now
             /\ duration = timing[2] - timing[1] /\ duration \in Int
    <3>1. timing[1] <= timing[2]
      BY <1>2, <1>4, <2>2 DEF Happened
    <3>2. Null \notin {test.started_at, test.completed_at, test.duration_seconds}
      BY <1>2, <1>4, <2>2
    <3> HIDE DEF duration
    <3>3. /\ test.duration_seconds >= 0 /\ test.completed_at >= test.started_at
          /\ test.completed_at - test.started_at = test.duration_seconds
      BY <1>2, <2>2, <3>1
    <3>4. QED
      BY <3>2, <3>3 DEF _validate_timing
  <2>3. QED
    BY <1>5, <2>1, <2>2
<1>8. _validate_validation(test)
  BY <1>2, <1>4 DEF _validate_validation, Happened
<1>9. _validate_restore_test(test)
  <2>1. test.completed_at # Null => test.started_at # Null
    BY <1>2, <1>4, <1>5
  <2>2. QED
    BY <1>2, <1>3, <1>7, <1>8, <2>1 DEF _validate_restore_test, Happened
<1>10. QED
  BY <1>2, <1>6, <1>9 DEF Real

\* A wrong copy that is accepted agrees with the test in all a verdict is
\* about but the asset.
Harmless(test, wrong) ==
    _validate_restore_test(wrong) =>
        wrong.result = test.result /\ wrong.duration_seconds = test.duration_seconds

LEMMA TestTyped ==
    ASSUME NEW test \in TestType
    PROVE  /\ test.started_at \in OptionalTime /\ test.completed_at \in OptionalTime
           /\ test.duration_seconds \in OptionalTime /\ test.checked_at \in OptionalTime
           /\ test.collected_at \in Int /\ test.result \in TestResults
           /\ DOMAIN test = {"restore_test_id", "asset_id", "result", "status", "started_at",
                             "completed_at", "duration_seconds", "checked_at", "collected_at",
                             "wellFormed", "source_backup_reference", "source_record_id",
                             "evidence_reference"}
  BY DEF TestType

LEMMA TimingMistake ==
    ASSUME NEW test \in TestType, _validate_restore_test(test), now \in Nat,
           NEW field \in {"started_at", "completed_at", "duration_seconds"},
           NEW value \in IF test[field] = Null THEN {now} ELSE {test[field] - 1, test[field] + 1, Null}
    PROVE  LET wrong == [test EXCEPT ![field] = value]
           IN  wrong \in TestType /\ Harmless(test, wrong)
<1> DEFINE wrong == [test EXCEPT ![field] = value]
<1>1. Null \notin Int
  BY MarkersAssumption
<1>2. test[field] \in OptionalTime /\ field \in DOMAIN test
  BY TestTyped
<1>3. value \in OptionalTime /\ value # test[field]
  BY <1>1, <1>2 DEF OptionalTime
<1>4. wrong \in TestType
  BY <1>3 DEF TestType
<1>5. /\ wrong[field] = value
      /\ \A f \in DOMAIN test : f # field => wrong[f] = test[f]
  BY <1>2
<1> HIDE DEF wrong
<1>6. /\ wrong.result = test.result
      /\ field = "started_at" => /\ wrong.started_at = value
                                 /\ wrong.completed_at = test.completed_at
                                 /\ wrong.duration_seconds = test.duration_seconds
      /\ field = "completed_at" => /\ wrong.completed_at = value
                                   /\ wrong.started_at = test.started_at
                                   /\ wrong.duration_seconds = test.duration_seconds
      /\ field = "duration_seconds" => /\ wrong.duration_seconds = value
                                       /\ wrong.started_at = test.started_at
                                       /\ wrong.completed_at = test.completed_at
  BY <1>5, TestTyped
<1>7. _validate_timing(test)
  BY DEF _validate_restore_test
<1>8. /\ test.started_at \in OptionalTime /\ test.completed_at \in OptionalTime
      /\ test.duration_seconds \in OptionalTime
  BY TestTyped
<1>9. ~ _validate_timing(wrong)
  <2>1. CASE {test.started_at, test.completed_at, test.duration_seconds} = {Null}
    <3>1. test.started_at = Null /\ test.completed_at = Null /\ test.duration_seconds = Null
      BY <2>1
    <3>2. value # Null
      BY <1>3, <3>1
    <3>3. /\ Null \in {wrong.started_at, wrong.completed_at, wrong.duration_seconds}
          /\ value \in {wrong.started_at, wrong.completed_at, wrong.duration_seconds}
      BY <1>6, <3>1
    <3>4. QED
      BY <3>2, <3>3 DEF _validate_timing
  <2>2. CASE /\ Null \notin {test.started_at, test.completed_at, test.duration_seconds}
             /\ test.completed_at - test.started_at = test.duration_seconds
    <3>1. test.started_at \in Int /\ test.completed_at \in Int /\ test.duration_seconds \in Int
      BY <1>8, <2>2 DEF OptionalTime
    <3>2. CASE value = Null
      <4>1. /\ Null \in {wrong.started_at, wrong.completed_at, wrong.duration_seconds}
            /\ {wrong.started_at, wrong.completed_at, wrong.duration_seconds} # {Null}
        BY <1>6, <2>2, <3>2
      <4>2. QED
        BY <4>1 DEF _validate_timing
    <3>3. CASE value # Null
      <4>1. value \in Int
        BY <1>3, <3>3 DEF OptionalTime
      <4>2. wrong.completed_at - wrong.started_at # wrong.duration_seconds
        BY <1>3, <1>6, <2>2, <3>1, <4>1
      <4>3. Null \notin {wrong.started_at, wrong.completed_at, wrong.duration_seconds}
        BY <1>6, <2>2, <3>3
      <4>4. QED
        BY <4>2, <4>3 DEF _validate_timing
    <3>4. QED
      BY <3>2, <3>3
  <2>3. QED
    BY <1>7, <2>1, <2>2 DEF _validate_timing
<1>10. Harmless(test, wrong)
  BY <1>6, <1>9 DEF Harmless, _validate_restore_test
<1>11. QED
  BY <1>4, <1>10 DEF wrong

\* A change of another field leaves result and duration alone, or is refused.
LEMMA OtherMistake ==
    ASSUME NEW test \in TestType, _validate_restore_test(test),
           NEW field \in {"checked_at", "collected_at", "result", "status", "asset_id"}, NEW value,
           field = "checked_at" => value \in OptionalTime,
           field = "collected_at" => value \in Int,
           field = "asset_id" => value \in {Subject, Other},
           field = "result" => value \in TestResults \ {test.result},
           field = "status" => \E r \in TestResults \ {test.result} : value = ExpectedStatus[r]
    PROVE  LET wrong == [test EXCEPT ![field] = value]
           IN  wrong \in TestType /\ Harmless(test, wrong)
<1> DEFINE wrong == [test EXCEPT ![field] = value]
<1>1. field \in DOMAIN test
  BY TestTyped
<1>2. wrong \in TestType
  <2>1. CASE field = "checked_at"
    BY <2>1 DEF TestType
  <2>2. CASE field = "collected_at"
    BY <2>2 DEF TestType
  <2>3. CASE field = "result"
    BY <2>3 DEF TestType
  <2>4. CASE field = "status"
    <3>1. value \in {ExpectedStatus[r] : r \in TestResults}
      BY <2>4
    <3>2. QED
      BY <2>4, <3>1 DEF TestType
  <2>5. CASE field = "asset_id"
    BY <2>5 DEF TestType
  <2>6. QED
    BY <2>1, <2>2, <2>3, <2>4, <2>5
<1>3. /\ wrong[field] = value
      /\ \A f \in DOMAIN test : f # field => wrong[f] = test[f]
  BY <1>1
<1> HIDE DEF wrong
<1>4. /\ wrong.duration_seconds = test.duration_seconds
      /\ field = "result" => wrong.result = value /\ wrong.status = test.status
      /\ field = "status" => wrong.status = value /\ wrong.result = test.result
      /\ field \notin {"result", "status"} => wrong.result = test.result
  BY <1>3, TestTyped
<1>5. test.status = ExpectedStatus[test.result] /\ test.result \in TestResults
  BY DEF _validate_restore_test, _validate_validation
<1>6. \A r, q \in TestResults : r # q => ExpectedStatus[r] # ExpectedStatus[q]
  BY DEF TestResults, ExpectedStatus
<1>7. CASE field \in {"result", "status"}
  <2>1. wrong.status # ExpectedStatus[wrong.result]
    BY <1>4, <1>5, <1>6, <1>7
  <2>2. ~ _validate_restore_test(wrong)
    BY <2>1 DEF _validate_restore_test, _validate_validation
  <2>3. QED
    BY <1>2, <1>4, <2>2 DEF Harmless, wrong
<1>8. CASE field \notin {"result", "status"}
  BY <1>2, <1>4, <1>8 DEF Harmless, wrong
<1>9. QED
  BY <1>7, <1>8

LEMMA MistakeForms ==
    ASSUME NEW test, NEW wrong \in Mistakes(test)
    PROVE  \/ \E field \in {"started_at", "completed_at", "duration_seconds", "checked_at"} :
                \E value \in IF test[field] = Null THEN {now}
                             ELSE {test[field] - 1, test[field] + 1, Null} :
                   wrong = [test EXCEPT ![field] = value]
           \/ \E d \in {-1, 1} : wrong = [test EXCEPT !.collected_at = @ + d]
           \/ \E r \in TestResults \ {test.result} : wrong = [test EXCEPT !.result = r]
           \/ \E r \in TestResults \ {test.result} : wrong = [test EXCEPT !.status = ExpectedStatus[r]]
           \/ \E a \in {Subject, Other} \ {test.asset_id} : wrong = [test EXCEPT !.asset_id = a]
<1> DEFINE Times4 == {"started_at", "completed_at", "duration_seconds", "checked_at"}
           Of(field) == {[test EXCEPT ![field] = value] : value \in
                           IF test[field] = Null THEN {now}
                           ELSE {test[field] - 1, test[field] + 1, Null}}
           A == UNION {Of(field) : field \in Times4}
           B == {[test EXCEPT !.collected_at = @ + d] : d \in {-1, 1}}
           C == {[test EXCEPT !.result = r] : r \in TestResults \ {test.result}}
           D == {[test EXCEPT !.status = ExpectedStatus[r]] : r \in TestResults \ {test.result}}
           E == {[test EXCEPT !.asset_id = a] : a \in {Subject, Other} \ {test.asset_id}}
<1>1. wrong \in A \cup B \cup C \cup D \cup E
  BY Zenon DEF Mistakes
<1>2. CASE wrong \in A
  <2>1. PICK field \in Times4 : wrong \in Of(field)
    BY <1>2, Zenon
  <2>2. QED
    BY <2>1
<1>3. CASE wrong \in B
  BY <1>3, Zenon
<1>4. CASE wrong \in C
  BY <1>4, Zenon
<1>5. CASE wrong \in D
  BY <1>5, Zenon
<1>6. CASE wrong \in E
  BY <1>6, Zenon
<1>7. QED
  BY <1>1, <1>2, <1>3, <1>4, <1>5, <1>6, Zenon

LEMMA EveryMistake ==
    ASSUME NEW test \in TestType, _validate_restore_test(test), now \in Nat,
           NEW wrong \in Mistakes(test)
    PROVE  wrong \in TestType /\ Harmless(test, wrong)
<1> DEFINE wrongs(field) == IF test[field] = Null THEN {now}
                            ELSE {test[field] - 1, test[field] + 1, Null}
<1>1. ASSUME NEW field \in {"started_at", "completed_at", "duration_seconds"},
             NEW value \in wrongs(field), wrong = [test EXCEPT ![field] = value]
      PROVE  wrong \in TestType /\ Harmless(test, wrong)
  BY <1>1, TimingMistake
<1>2. ASSUME NEW value \in wrongs("checked_at"), wrong = [test EXCEPT !["checked_at"] = value]
      PROVE  wrong \in TestType /\ Harmless(test, wrong)
  <2>1. value \in OptionalTime
    <3>1. test["checked_at"] \in OptionalTime
      BY TestTyped
    <3>2. QED
      BY <3>1 DEF OptionalTime
  <2>2. QED
    BY <1>2, <2>1, OtherMistake
<1>3. ASSUME NEW d \in {-1, 1}, wrong = [test EXCEPT !.collected_at = @ + d]
      PROVE  wrong \in TestType /\ Harmless(test, wrong)
  <2>1. test.collected_at + d \in Int
    BY TestTyped
  <2>2. QED
    BY <1>3, <2>1, OtherMistake
<1>4. ASSUME NEW r \in TestResults \ {test.result}, wrong = [test EXCEPT !.result = r]
      PROVE  wrong \in TestType /\ Harmless(test, wrong)
  BY <1>4, OtherMistake
<1>5. ASSUME NEW r \in TestResults \ {test.result},
             wrong = [test EXCEPT !.status = ExpectedStatus[r]]
      PROVE  wrong \in TestType /\ Harmless(test, wrong)
  BY <1>5, OtherMistake
<1>6. ASSUME NEW field \in {"started_at", "completed_at", "duration_seconds", "checked_at"},
             NEW value \in wrongs(field), wrong = [test EXCEPT ![field] = value]
      PROVE  wrong \in TestType /\ Harmless(test, wrong)
  <2>1. CASE field = "checked_at"
    BY <1>2, <1>6, <2>1
  <2>2. CASE field # "checked_at"
    BY <1>1, <1>6, <2>2
  <2>3. QED
    BY <2>1, <2>2
<1>7. \/ \E field \in {"started_at", "completed_at", "duration_seconds", "checked_at"} :
            \E value \in IF test[field] = Null THEN {now}
                         ELSE {test[field] - 1, test[field] + 1, Null} :
               wrong = [test EXCEPT ![field] = value]
      \/ \E d \in {-1, 1} : wrong = [test EXCEPT !.collected_at = @ + d]
      \/ \E r \in TestResults \ {test.result} : wrong = [test EXCEPT !.result = r]
      \/ \E r \in TestResults \ {test.result} : wrong = [test EXCEPT !.status = ExpectedStatus[r]]
      \/ \E a \in {Subject, Other} \ {test.asset_id} : wrong = [test EXCEPT !.asset_id = a]
  BY MistakeForms, Zenon
<1>8. ASSUME NEW a \in {Subject, Other} \ {test.asset_id}, wrong = [test EXCEPT !.asset_id = a]
      PROVE  wrong \in TestType /\ Harmless(test, wrong)
  BY <1>8, OtherMistake
<1>9. QED
  BY <1>3, <1>4, <1>5, <1>6, <1>7, <1>8, Zenon

\* Wrong or not, a copy keeps the form of a record, whatever it was before.
LEMMA MistakeTyped ==
    ASSUME NEW test \in TestType, now \in Nat, NEW wrong \in Mistakes(test)
    PROVE  wrong \in TestType
<1>1. ASSUME NEW field \in {"started_at", "completed_at", "duration_seconds", "checked_at"},
             NEW value \in IF test[field] = Null THEN {now}
                           ELSE {test[field] - 1, test[field] + 1, Null},
             wrong = [test EXCEPT ![field] = value]
      PROVE  wrong \in TestType
  <2>1. test[field] \in OptionalTime
    BY TestTyped
  <2>2. value \in OptionalTime
    BY <2>1 DEF OptionalTime
  <2>3. QED
    BY <1>1, <2>2 DEF TestType
<1>2. ASSUME NEW d \in {-1, 1}, wrong = [test EXCEPT !.collected_at = @ + d]
      PROVE  wrong \in TestType
  <2>1. test.collected_at + d \in Int
    BY TestTyped
  <2>2. QED
    BY <1>2, <2>1 DEF TestType
<1>3. ASSUME NEW r \in TestResults \ {test.result}, wrong = [test EXCEPT !.result = r]
      PROVE  wrong \in TestType
  BY <1>3 DEF TestType
<1>4. ASSUME NEW r \in TestResults \ {test.result},
             wrong = [test EXCEPT !.status = ExpectedStatus[r]]
      PROVE  wrong \in TestType
  <2>1. ExpectedStatus[r] \in {ExpectedStatus[q] : q \in TestResults}
    OBVIOUS
  <2>2. QED
    BY <1>4, <2>1 DEF TestType
<1>5. \/ \E field \in {"started_at", "completed_at", "duration_seconds", "checked_at"} :
            \E value \in IF test[field] = Null THEN {now}
                         ELSE {test[field] - 1, test[field] + 1, Null} :
               wrong = [test EXCEPT ![field] = value]
      \/ \E d \in {-1, 1} : wrong = [test EXCEPT !.collected_at = @ + d]
      \/ \E r \in TestResults \ {test.result} : wrong = [test EXCEPT !.result = r]
      \/ \E r \in TestResults \ {test.result} : wrong = [test EXCEPT !.status = ExpectedStatus[r]]
      \/ \E a \in {Subject, Other} \ {test.asset_id} : wrong = [test EXCEPT !.asset_id = a]
  BY MistakeForms, Zenon
<1>6. ASSUME NEW a \in {Subject, Other} \ {test.asset_id}, wrong = [test EXCEPT !.asset_id = a]
      PROVE  wrong \in TestType
  BY <1>6 DEF TestType
<1>7. QED
  BY <1>1, <1>2, <1>3, <1>4, <1>5, <1>6, Zenon
-----------------------------------------------------------------------------
(***************************************************************************)
(* The invariant about restore tests: the genuine evidence is sound, and   *)
(* after a single slip the evidence differs from it in nothing a verdict   *)
(* is about but the asset, or is refused.                                  *)
(***************************************************************************)
TestsOf(e) == IF e = Null THEN << >> ELSE e.restore_tests

Genuine(g) ==
    g # Null =>
        /\ g \in EvidenceType
        /\ \A i \in DOMAIN g.restore_tests : Real(g.restore_tests[i], i, g.generated_at)

Close(g, e) ==
    /\ g = Null <=> e = Null
    /\ g # Null =>
          /\ e.generated_at = g.generated_at
          /\ DOMAIN e.restore_tests = DOMAIN g.restore_tests
          /\ \A i \in DOMAIN g.restore_tests : Harmless(g.restore_tests[i], e.restore_tests[i])

\* The conclusive tests of g, going by the assets that e attributes them to.
Attributed(g, e) ==
    {i \in DOMAIN g.restore_tests : /\ e.restore_tests[i].asset_id = Subject
                                    /\ g.restore_tests[i].result # "UNKNOWN"}

\* Evidence e attributes every test to the asset it was of.
SameAssets(g, e) == \A i \in DOMAIN TestsOf(e) : TestsOf(e)[i].asset_id = g.restore_tests[i].asset_id

\* A test of this evidence meets the subject's objective.
Meets(g) ==
    \E i \in Conclusive(TestsOf(g), Subject) : TestStatus(RuleOf(Subject), TestsOf(g)[i]) = "PASS"

TestsInv ==
    /\ now \in Nat /\ slips \in 0..MaxSlips
    /\ Genuine(genuine) /\ (genuine # Null => genuine.generated_at <= now)
    /\ evidence # Null => evidence \in EvidenceType
    /\ slips = 0 => evidence = genuine
    /\ slips <= 1 => /\ Close(genuine, evidence)
                     /\ SameAssets(genuine, evidence) =>
                          \A p \in passed : p[1] = "rto" => Meets(genuine)

\* Evidence as it is when no field of it was copied wrongly.
LEMMA CloseToItself == \A e : Close(e, e)
  BY DEF Close, Harmless

LEMMA EvidenceFields ==
    ASSUME NEW e \in EvidenceType
    PROVE  /\ e.generated_at \in Int /\ e.restore_tests \in Seq(TestType) /\ e # Null
           /\ DOMAIN e.restore_tests = 1..Len(e.restore_tests) /\ Len(e.restore_tests) \in Nat
           /\ DOMAIN e.restore_tests \subseteq Nat
           /\ \A i \in DOMAIN e.restore_tests : e.restore_tests[i] \in TestType
<1>1. e.generated_at \in Int /\ e.restore_tests \in Seq(TestType) /\ e # Null
  BY MarkersAssumption DEF EvidenceType
<1>2. QED
  BY <1>1, LenProperties, ElementOfSeq

\* A verdict on evidence that differs harmlessly from the genuine one is a
\* verdict on the only conclusive test, really carried out, that is attributed
\* to the subject.
LEMMA RtoOfEvidence ==
    ASSUME NEW g, NEW e, Genuine(g), Close(g, e), e # Null => e \in EvidenceType,
           NEW report, NEW t \in Times,
           Status(JudgeSubject(report, e), "rto", t) \in {"PASS", "FAIL"}
    PROVE  /\ e # Null /\ g # Null /\ g.generated_at <= t
           /\ DOMAIN e.restore_tests = DOMAIN g.restore_tests
           /\ \E i : /\ Attributed(g, e) = {i}
                    /\ Status(JudgeSubject(report, e), "rto", t) =
                          TestStatus(RuleOf(Subject), g.restore_tests[i])
<1> DEFINE rule == RuleOf(Subject)
           status == Status(JudgeSubject(report, e), "rto", t)
<1>1. Accepts(report, e) /\ status = _evaluate_rto(rule, e, t).status
  BY Statuses
<1>2. rule.asset_id = Subject
  BY <1>1, SubjectsRule DEF Accepts
<1>3. e # Null
  <2>1. CASE e = Null
    <3>1. _evaluate_rto(rule, e, t) = Unknown("RTO_EVIDENCE_CONTRACT_NOT_AVAILABLE", {})
      BY <2>1, Zenon DEF _evaluate_rto
    <3>2. QED
      BY <1>1, <3>1 DEF Unknown, Verdict
  <2>2. QED
    BY <2>1
<1>4. DOMAIN e.restore_tests \subseteq Nat
  BY <1>3, EvidenceFields
<1>5. PICK i : /\ Sole(e.restore_tests, Subject, i)
               /\ ~ _has_future_restore_timestamp(e, e.restore_tests[i], t)
               /\ status = TestStatus(rule, e.restore_tests[i])
  <2> HIDE DEF rule, status
  <2>1. _evaluate_rto(rule, e, t).status \in {"PASS", "FAIL"}
    BY <1>1 DEF status
  <2>2. PICK i : RestsOn(rule, e, t, i)
    BY <1>4, <2>1, RtoVerdict
  <2>3. QED
    BY <1>1, <1>2, <2>2 DEF RestsOn, status
<1>6. /\ g # Null /\ e.generated_at = g.generated_at
      /\ DOMAIN e.restore_tests = DOMAIN g.restore_tests
      /\ \A j \in DOMAIN g.restore_tests : Harmless(g.restore_tests[j], e.restore_tests[j])
  BY <1>3 DEF Close
<1>7. \A j \in DOMAIN e.restore_tests : _validate_restore_test(e.restore_tests[j])
  BY <1>1, <1>3 DEF Accepts, validate_restore_test_evidence
<1>8. \A j \in DOMAIN g.restore_tests :
         /\ e.restore_tests[j].result = g.restore_tests[j].result
         /\ e.restore_tests[j].duration_seconds = g.restore_tests[j].duration_seconds
  BY <1>6, <1>7 DEF Harmless
<1>9. Attributed(g, e) = Conclusive(e.restore_tests, Subject)
  BY <1>6, <1>8 DEF Conclusive, Attributed
<1>10. i \in DOMAIN g.restore_tests
  BY <1>5, <1>9 DEF Sole, Attributed
<1>11. Attributed(g, e) = {i} /\ status = TestStatus(rule, g.restore_tests[i])
  BY <1>5, <1>8, <1>9, <1>10 DEF Sole, TestStatus
<1>12. g.generated_at <= t
  <2>1. g \in EvidenceType
    BY <1>6 DEF Genuine
  <2>2. g.generated_at \in Int
    BY <2>1, EvidenceFields
  <2>3. t \in Int /\ Null \notin Int
    BY MarkersAssumption DEF Times
  <2>4. ~ (e.generated_at > t)
    BY <1>5, <1>6, <2>2, <2>3 DEF _has_future_restore_timestamp
  <2>5. QED
    BY <1>6, <2>2, <2>3, <2>4
<1>13. QED
  BY <1>3, <1>6, <1>11, <1>12

\* When every test is attributed to its asset, the one the verdict rests on is
\* the subject's.
LEMMA SoleIsSubjects ==
    ASSUME NEW g, NEW e, e # Null, g # Null, SameAssets(g, e),
           DOMAIN e.restore_tests = DOMAIN g.restore_tests
    PROVE  Conclusive(TestsOf(g), Subject) = Attributed(g, e)
  BY DEF SameAssets, TestsOf, Conclusive, Attributed

\* When an objective passes, a genuine test meets it.
LEMMA PassMeets ==
    ASSUME NEW g, NEW e, Genuine(g), Close(g, e), e # Null => e \in EvidenceType,
           NEW report, NEW t \in Times, Status(JudgeSubject(report, e), "rto", t) = "PASS",
           SameAssets(g, e)
    PROVE  Meets(g)
<1>1. /\ e # Null /\ g # Null /\ DOMAIN e.restore_tests = DOMAIN g.restore_tests
      /\ \E i : /\ Attributed(g, e) = {i}
               /\ TestStatus(RuleOf(Subject), g.restore_tests[i]) = "PASS"
  BY RtoOfEvidence
<1>2. Conclusive(TestsOf(g), Subject) = Attributed(g, e)
  BY <1>1, SoleIsSubjects
<1>3. TestsOf(g) = g.restore_tests
  BY <1>1 DEF TestsOf
<1>4. QED
  BY <1>1, <1>2, <1>3 DEF Meets

LEMMA InitTests == Init => TestsInv
  BY CloseToItself, TimelineBounds DEF Init, TestsInv, Genuine

\* A new report collects one test more, numbered after the others.
LEMMA ImportIsGenuine ==
    ASSUME now \in Nat, NEW e, Genuine(e), e # Null => e.generated_at <= now,
           NEW test \in TestRecords(Len(TestsOf(e)) + 1),
           Happened(test)
    PROVE  LET g == [source_id |-> << "import" >>, generated_at |-> now,
                     restore_tests |-> Append(TestsOf(e), test)]
           IN  /\ Genuine(g) /\ g \in EvidenceType /\ g.generated_at = now
               /\ DOMAIN g.restore_tests = 1..(Len(TestsOf(e)) + 1)
               /\ \A i \in DOMAIN TestsOf(e) : /\ i \in DOMAIN g.restore_tests
                                              /\ g.restore_tests[i] = TestsOf(e)[i]
               /\ g.restore_tests[Len(TestsOf(e)) + 1] = test
<1> DEFINE tests == TestsOf(e)
           n == Len(tests)
           all == Append(tests, test)
           g == [source_id |-> << "import" >>, generated_at |-> now, restore_tests |-> all]
<1>1. tests \in Seq(TestType) /\ n \in Nat /\ DOMAIN tests = 1..n
  <2>1. CASE e = Null
    BY <2>1 DEF TestsOf
  <2>2. CASE e # Null
    BY <2>2, EvidenceFields DEF TestsOf, Genuine
  <2>3. QED
    BY <2>1, <2>2
<1>2. n + 1 \in Nat
  BY <1>1
<1>3. test \in TestType /\ Real(test, n + 1, now)
  BY <1>2, NewTest
<1>4. /\ all \in Seq(TestType) /\ DOMAIN all = 1..(n + 1)
      /\ \A i \in 1..n : all[i] = tests[i]
      /\ all[n + 1] = test
  <2> HIDE DEF tests
  <2>1. Len(all) = n + 1 /\ all \in Seq(TestType) /\ all[n + 1] = test
    BY <1>1, <1>3, AppendProperties
  <2>2. \A i \in 1..n : all[i] = tests[i]
    BY <1>1, <1>3, AppendProperties
  <2>3. QED
    BY <1>2, <2>1, <2>2, LenProperties
<1> HIDE DEF all, tests
<1>5. now \in Int
  OBVIOUS
<1>6. g \in EvidenceType
  BY <1>4, <1>5 DEF EvidenceType
<1>7. g.generated_at = now /\ g.restore_tests = all
  OBVIOUS
<1> HIDE DEF g
<1>8. ASSUME NEW i \in 1..n PROVE Real(all[i], i, now)
  <2>1. e # Null
    BY <1>1, <1>8 DEF tests, TestsOf
  <2>2. tests = e.restore_tests /\ i \in DOMAIN e.restore_tests
    BY <1>1, <1>8, <2>1 DEF tests, TestsOf
  <2>3. Real(tests[i], i, e.generated_at)
    BY <2>1, <2>2 DEF Genuine
  <2>4. e.generated_at \in Int /\ tests[i] \in TestType /\ e.generated_at <= now
    BY <2>1, <2>2, EvidenceFields DEF Genuine
  <2>5. tests[i].collected_at \in Int
    BY <2>4, TestTyped
  <2>6. tests[i].collected_at <= now
    BY <2>3, <2>4, <2>5 DEF Real
  <2>7. QED
    BY <1>4, <2>3, <2>6 DEF Real
<1>9. Genuine(g)
  <2> SUFFICES ASSUME NEW i \in 1..(n + 1) PROVE Real(all[i], i, now)
    BY <1>4, <1>6, <1>7 DEF Genuine
  <2>1. CASE i = n + 1
    BY <1>3, <1>4, <2>1
  <2>2. CASE i # n + 1
    <3>1. i \in 1..n
      BY <1>1, <2>2
    <3>2. QED
      BY <1>8, <3>1
  <2>3. QED
    BY <2>1, <2>2
<1>10. \A i \in 1..n : i \in 1..(n + 1)
  BY <1>1
<1>11. QED
  BY <1>1, <1>4, <1>6, <1>7, <1>9, <1>10 DEF g, all, tests

LEMMA PublishTests ==
    ASSUME TestsInv, NEW report, NEW tests, Publish(report, tests), now' = now,
           slips' \in 0..MaxSlips, slips <= slips', Genuine(genuine'),
           genuine' # Null => genuine'.generated_at <= now,
           tests # Null => tests \in EvidenceType,
           slips' = 0 => tests = genuine',
           slips' <= 1 => Close(genuine', tests),
           slips' <= 1 /\ SameAssets(genuine', tests) => SameAssets(genuine, evidence),
           Meets(genuine) => Meets(genuine')
    PROVE  TestsInv'
<1>1. /\ evidence' = tests /\ judged' = JudgeSubject(report, tests)
      /\ passed' = passed \cup {p \in {"rpo", "rto"} \X Times : Status(judged', p[1], p[2]) = "PASS"}
  BY DEF Publish
<1>2. ASSUME slips' <= 1, SameAssets(genuine', tests), NEW p \in passed', p[1] = "rto"
      PROVE  Meets(genuine')
  <2>1. CASE p \in passed
    <3>1. slips <= 1
      BY <1>2, TimelineBounds DEF TestsInv
    <3>2. QED
      BY <1>2, <2>1, <3>1 DEF TestsInv
  <2>2. CASE p \notin passed
    <3>1. p[2] \in Times /\ Status(JudgeSubject(report, tests), "rto", p[2]) = "PASS"
      BY <1>1, <1>2, <2>2
    <3>2. ASSUME NEW g, Genuine(g), Close(g, tests), SameAssets(g, tests) PROVE Meets(g)
      BY <3>1, <3>2, PassMeets
    <3>3. QED
      BY <1>2, <3>2
  <2>3. QED
    BY <2>1, <2>2
<1>3. Genuine(genuine)' /\ Meets(genuine)' = Meets(genuine')
  BY DEF Genuine, Real, Meets
<1>4. /\ Close(genuine, evidence)' = Close(genuine', evidence')
      /\ SameAssets(genuine, evidence)' = SameAssets(genuine', evidence')
  BY DEF Close, Harmless, SameAssets, TestsOf
<1>5. QED
  BY <1>1, <1>2, <1>3, <1>4 DEF TestsInv

LEMMA NextTests == TestsInv /\ [Next]_vars => TestsInv'
<1> SUFFICES ASSUME TestsInv, [Next]_vars PROVE TestsInv'
  OBVIOUS
<1>1. /\ now \in Nat /\ slips \in 0..MaxSlips
      /\ Genuine(genuine) /\ (genuine # Null => genuine.generated_at <= now)
      /\ evidence # Null => evidence \in EvidenceType
      /\ slips = 0 => evidence = genuine
      /\ slips <= 1 => /\ Close(genuine, evidence)
                       /\ SameAssets(genuine, evidence) =>
                            \A p \in passed : p[1] = "rto" => Meets(genuine)
  BY DEF TestsInv
<1>2. CASE UNCHANGED << slips, genuine, evidence, passed >> /\ now' \in Nat /\ now <= now'
  <2>1. Genuine(genuine)' = Genuine(genuine) /\ Meets(genuine)' = Meets(genuine)
    BY <1>2 DEF Genuine, Real, Meets
  <2>2. /\ Close(genuine, evidence)' = Close(genuine, evidence)
        /\ SameAssets(genuine, evidence)' = SameAssets(genuine, evidence)
    BY <1>2 DEF Close, Harmless, SameAssets, TestsOf
  <2>3. genuine # Null => genuine.generated_at <= now'
    <3>1. genuine # Null => genuine.generated_at \in Int
      BY <1>1, EvidenceFields DEF Genuine
    <3>2. QED
      BY <1>1, <1>2, <3>1
  <2>4. QED
    BY <1>1, <1>2, <2>1, <2>2, <2>3 DEF TestsInv
<1>3. CASE Tick
  BY <1>1, <1>2, <1>3 DEF Tick, docs
<1>4. CASE BackupSucceeds
  BY <1>1, <1>2, <1>4 DEF BackupSucceeds, docs
<1>5. CASE Collect
  <2>1. PICK report : Publish(report, evidence)
    BY <1>5 DEF Collect
  <2>2. UNCHANGED << now, slips, genuine >>
    BY <1>5 DEF Collect
  <2>3. QED
    BY <1>1, <2>1, <2>2, TimelineBounds, PublishTests
<1>6. CASE ImportTest
  <2>1. Tests = TestsOf(evidence) /\ evidence = genuine /\ slips = 0
    BY <1>1, <1>6 DEF ImportTest, Tests, TestsOf
  <2>2. PICK test \in TestRecords(Len(Tests) + 1) :
          /\ Happened(test)
          /\ Publish(unified, [source_id |-> << "import" >>, generated_at |-> now,
                               restore_tests |-> Append(Tests, test)])
    BY <1>6 DEF ImportTest
  <2> DEFINE g == [source_id |-> << "import" >>, generated_at |-> now,
                   restore_tests |-> Append(TestsOf(evidence), test)]
  <2>3. /\ Genuine(g) /\ g \in EvidenceType /\ g.generated_at = now
        /\ \A i \in DOMAIN TestsOf(evidence) : /\ i \in DOMAIN g.restore_tests
                                               /\ g.restore_tests[i] = TestsOf(evidence)[i]
    BY <1>1, <2>1, <2>2, ImportIsGenuine
  <2>4. Publish(unified, g) /\ g # Null
    BY <2>1, <2>2, <2>3, MarkersAssumption
  <2> HIDE DEF g
  <2>5. genuine' = g /\ UNCHANGED << now, slips >>
    BY <1>6, <2>4 DEF ImportTest, Publish
  <2>6. Meets(genuine) => Meets(g)
    <3>1. TestsOf(g) = g.restore_tests
      BY <2>4 DEF TestsOf
    <3>2. QED
      BY <2>1, <2>3, <3>1 DEF Meets, Conclusive
  <2>7. Close(genuine', g)
    BY <2>5, CloseToItself
  <2>8. SameAssets(genuine, evidence)
    BY <2>1 DEF SameAssets, TestsOf
  <2>9. QED
    BY <1>1, <2>3, <2>4, <2>5, <2>6, <2>7, <2>8, PublishTests
<1>7. CASE Slip
  <2>1. slips < MaxSlips /\ slips' = slips + 1 /\ UNCHANGED << now, genuine >>
    BY <1>7 DEF Slip
  <2>2. PICK i \in DOMAIN Tests : \E wrong \in Mistakes(Tests[i]) :
          Publish(unified, [evidence EXCEPT !.restore_tests[i] = wrong])
    BY <1>7 DEF Slip
  <2>3. PICK wrong \in Mistakes(Tests[i]) :
          Publish(unified, [evidence EXCEPT !.restore_tests[i] = wrong])
    BY <2>2
  <2> DEFINE e == [evidence EXCEPT !.restore_tests[i] = wrong]
             tests == evidence.restore_tests
  <2>4. evidence # Null /\ Tests = tests
    BY <2>2 DEF Tests
  <2>5. evidence \in EvidenceType
    BY <1>1, <2>4
  <2>6. tests \in Seq(TestType) /\ i \in DOMAIN tests /\ tests[i] \in TestType
    BY <2>2, <2>4, <2>5, EvidenceFields
  <2>7. wrong \in TestType
    BY <1>1, <2>4, <2>6, MistakeTyped
  <2>8. /\ e.generated_at = evidence.generated_at
        /\ e.restore_tests = [tests EXCEPT ![i] = wrong]
    BY <2>5 DEF EvidenceType
  <2>9. [tests EXCEPT ![i] = wrong] \in Seq(TestType)
    BY <2>6, <2>7, ExceptSeq
  <2>10. e \in EvidenceType
    BY <2>5, <2>8, <2>9 DEF EvidenceType
  <2>11. Publish(unified, e)
    BY <2>3
  <2> HIDE DEF e
  <2>12. e # Null
    BY <2>10, MarkersAssumption
  <2>13. ASSUME slips = 0 PROVE Close(genuine, e)
    <3>1. evidence = genuine
      BY <1>1, <2>13
    <3>2. _validate_restore_test(tests[i])
      BY <1>1, <2>4, <2>6, <3>1 DEF Genuine, Real
    <3>3. Harmless(tests[i], wrong)
      BY <1>1, <2>3, <2>4, <2>6, <3>2, EveryMistake
    <3>4. DOMAIN e.restore_tests = DOMAIN tests
      BY <2>8
    <3>5. ASSUME NEW j \in DOMAIN tests PROVE Harmless(tests[j], e.restore_tests[j])
      BY <2>6, <2>8, <3>3, <3>5 DEF Harmless
    <3>6. QED
      BY <2>4, <2>8, <2>12, <3>1, <3>4, <3>5 DEF Close
  <2>14. slips' \in 0..MaxSlips /\ slips <= slips' /\ slips' # 0 /\ (slips' <= 1 => slips = 0)
    BY <1>1, <2>1, TimelineBounds
  <2>15. slips = 0 => SameAssets(genuine, evidence)
    BY <1>1 DEF SameAssets, TestsOf
  <2>16. QED
    BY <1>1, <2>1, <2>10, <2>11, <2>13, <2>14, <2>15, PublishTests
<1>8. CASE UNCHANGED vars
  BY <1>1, <1>2, <1>8 DEF vars, docs
<1>9. QED
  BY <1>3, <1>4, <1>5, <1>6, <1>7, <1>8 DEF Next

LEMMA TestsInvHolds == Spec => []TestsInv
  BY InitTests, NextTests, PTL DEF Spec
-----------------------------------------------------------------------------
(***************************************************************************)
(* What the invariants say of the verdicts.                                *)
(***************************************************************************)

\* A verdict on the RTO, for any evaluation time, rests on the one conclusive
\* test that is attributed to the subject, as it was really carried out, and
\* comes no earlier than the report, when at most one field of the evidence
\* was copied wrongly; whose test it is, the asset_id of the evidence says.
THEOREM RtoIsAboutHistory ==
    ASSUME MaxSlips <= 1
    PROVE  Spec => []RtoMatchesHistory
<1>1. BackupsInv /\ TestsInv => RtoMatchesHistory
  <2> SUFFICES ASSUME BackupsInv, TestsInv, NEW t \in Times, StatusAt("rto", t) \in {"PASS", "FAIL"}
               PROVE  /\ Cardinality(ConclusiveTests) = 1
                      /\ genuine.generated_at <= t
                      /\ \A i \in ConclusiveTests :
                            /\ genuine.restore_tests[i].completed_at <= t
                            /\ genuine.restore_tests[i].checked_at <= t
                            /\ genuine.restore_tests[i].collected_at <= t
                            /\ StatusAt("rto", t) = "PASS" <=>
                                 /\ genuine.restore_tests[i].result = "PASS"
                                 /\ genuine.restore_tests[i].completed_at <=
                                      genuine.restore_tests[i].started_at + RuleOf(Subject).rto * Minute
    BY DEF RtoMatchesHistory
  <2>1. StatusAt("rto", t) = Status(JudgeSubject(unified, evidence), "rto", t)
    BY DEF BackupsInv, Judged, StatusAt
  <2>2. Genuine(genuine) /\ Close(genuine, evidence) /\ (evidence # Null => evidence \in EvidenceType)
    BY TimelineBounds DEF TestsInv
  <2>3. /\ evidence # Null /\ genuine # Null /\ genuine.generated_at <= t
        /\ \E i : /\ Attributed(genuine, evidence) = {i}
                  /\ StatusAt("rto", t) = TestStatus(RuleOf(Subject), genuine.restore_tests[i])
    BY <2>1, <2>2, RtoOfEvidence
  <2>4. PICK i : /\ Attributed(genuine, evidence) = {i}
                 /\ StatusAt("rto", t) = TestStatus(RuleOf(Subject), genuine.restore_tests[i])
    BY <2>3
  <2>5. ConclusiveTests = {i}
    BY <2>3, <2>4 DEF ConclusiveTests, Attributed, Tests
  <2>6. Cardinality({i}) = 1
    BY FS_Singleton
  <2> DEFINE test == genuine.restore_tests[i]
  <2>7. i \in DOMAIN genuine.restore_tests /\ test.result # "UNKNOWN"
    BY <2>4 DEF Attributed
  <2>8. genuine \in EvidenceType /\ Real(test, i, genuine.generated_at)
    BY <2>2, <2>3, <2>7 DEF Genuine
  <2>9. test \in TestType /\ genuine.generated_at \in Int
    BY <2>7, <2>8, EvidenceFields
  <2> HIDE DEF test
  <2>10. _validate_restore_test(test) /\ test.collected_at <= genuine.generated_at
    BY <2>8 DEF Real
  <2>11. /\ Null \notin {test.started_at, test.completed_at, test.duration_seconds}
         /\ test.completed_at - test.started_at = test.duration_seconds
    BY <2>7, <2>10 DEF _validate_restore_test, _validate_timing, test
  <2>12. test.checked_at # Null
    BY <2>7, <2>10 DEF _validate_restore_test, _validate_validation, test
  <2>13. /\ test.started_at \in Int /\ test.completed_at \in Int
         /\ test.duration_seconds \in Int /\ test.checked_at \in Int
         /\ test.collected_at \in Int /\ test.result \in {"PASS", "FAIL"}
    <3>1. test.result # "UNKNOWN"
      BY <2>7 DEF test
    <3>2. QED
      BY <2>9, <2>11, <2>12, <3>1, TestTyped DEF OptionalTime, TestResults
  <2>14. t \in Int
    BY DEF Times
  <2>15. test.completed_at <= t /\ test.checked_at <= t /\ test.collected_at <= t
    <3>1. test.checked_at <= test.collected_at /\ test.completed_at <= test.collected_at
      BY <2>10, <2>11, <2>12 DEF _validate_restore_test
    <3>2. QED
      BY <2>3, <2>9, <2>10, <2>13, <2>14, <3>1
  <2>16. RuleOf(Subject).rto * Minute \in Int
    <3>1. Accepts(unified, evidence)
      BY <2>1, Statuses
    <3>2. RuleOf(Subject).rto \in Int
      BY <3>1, SubjectsRule DEF Accepts
    <3>3. QED
      BY <3>2, TimesAssumption
  <2>17. StatusAt("rto", t) = "PASS" <=>
           /\ test.result = "PASS"
           /\ test.completed_at <= test.started_at + RuleOf(Subject).rto * Minute
    <3> DEFINE limit == RuleOf(Subject).rto * Minute
    <3>1. StatusAt("rto", t) =
            IF test.result # "FAIL" /\ test.duration_seconds <= limit THEN "PASS" ELSE "FAIL"
      BY <2>4 DEF TestStatus, test
    <3>2. limit \in Int
      BY <2>16
    <3> HIDE DEF limit
    <3>3. test.duration_seconds <= limit <=> test.completed_at <= test.started_at + limit
      BY <2>11, <2>13, <3>2
    <3>4. QED
      BY <2>13, <3>1, <3>3 DEF limit
  <2>18. QED
    BY <2>3, <2>5, <2>6, <2>15, <2>17 DEF test
<1>2. QED
  BY <1>1, BackupsInvHolds, TestsInvHolds, PTL

\* Backups and restore tests are never undone and no time comes to be
\* evaluated differently: what passed for a point in time does not fail later,
\* as far as the tests are attributed to the assets they were of.
THEOREM PassesStand ==
    ASSUME MaxSlips <= 1
    PROVE  Spec => []NoPassBecomesFail
<1>1. BackupsInv /\ TestsInv => NoPassBecomesFail
  <2> SUFFICES ASSUME BackupsInv, TestsInv, NEW p \in passed, StatusAt(p[1], p[2]) = "FAIL",
                      p[1] = "rpo" \/ RightlyAttributed
               PROVE  FALSE
    BY DEF NoPassBecomesFail
  <2> DEFINE t == p[2]
  <2>1. t \in Times /\ p[1] \in {"rpo", "rto"}
    BY DEF BackupsInv
  <2>2. \A o : StatusAt(o, t) = Status(JudgeSubject(unified, evidence), o, t)
    BY DEF BackupsInv, Judged, StatusAt
  <2>3. CASE p[1] = "rpo"
    <3>1. reported \cap Window(t) # {}
      BY <2>3 DEF BackupsInv
    <3>2. reported \subseteq Nat /\ TellsOf(unified, reported)
      BY DEF BackupsInv
    <3>3. Status(JudgeSubject(unified, evidence), "rpo", t) = "FAIL"
      BY <2>2, <2>3
    <3>4. reported \cap Window(t) = {}
      BY <2>1, <3>2, <3>3, RpoOfReport
    <3>5. QED
      BY <3>1, <3>4
  <2>4. CASE p[1] = "rto"
    <3>1. Status(JudgeSubject(unified, evidence), "rto", t) = "FAIL"
      BY <2>2, <2>4
    <3>2. SameAssets(genuine, evidence)
      BY <2>4 DEF SameAssets, RightlyAttributed, Tests, TestsOf
    <3>3. /\ Genuine(genuine) /\ Close(genuine, evidence) /\ Meets(genuine)
          /\ evidence # Null => evidence \in EvidenceType
      BY <2>4, <3>2, TimelineBounds DEF TestsInv
    <3>4. /\ evidence # Null /\ genuine # Null
          /\ DOMAIN evidence.restore_tests = DOMAIN genuine.restore_tests
          /\ \E i : /\ Attributed(genuine, evidence) = {i}
                   /\ TestStatus(RuleOf(Subject), genuine.restore_tests[i]) = "FAIL"
      BY <2>1, <3>1, <3>3, RtoOfEvidence
    <3>5. TestsOf(genuine) = genuine.restore_tests
      BY <3>4 DEF TestsOf
    <3>6. Conclusive(TestsOf(genuine), Subject) = Attributed(genuine, evidence)
      BY <3>2, <3>4, SoleIsSubjects
    <3>7. QED
      BY <3>3, <3>4, <3>5, <3>6 DEF Meets
  <2>5. QED
    BY <2>1, <2>3, <2>4
<1>2. QED
  BY <1>1, BackupsInvHolds, TestsInvHolds, PTL

\* With the same documents, a later evaluation time makes nothing unknown and
\* takes back no failure, however wrong the evidence is.
THEOREM TimeOnlyAges == Spec => []LaterIsNoBetter
<1>1. BackupsInv /\ TestsInv => LaterIsNoBetter
  <2> SUFFICES ASSUME BackupsInv, TestsInv, NEW t \in Times, NEW u \in Times, t < u
               PROVE  /\ StatusAt("rpo", t) = "FAIL" => StatusAt("rpo", u) = "FAIL"
                      /\ StatusAt("rpo", t) = "PASS" => StatusAt("rpo", u) \in {"PASS", "FAIL"}
                      /\ StatusAt("rto", t) \in {"PASS", "FAIL"} =>
                            StatusAt("rto", u) = StatusAt("rto", t)
    BY DEF LaterIsNoBetter
  <2>1. \A o, v : StatusAt(o, v) = Status(JudgeSubject(unified, evidence), o, v)
    BY DEF BackupsInv, Judged, StatusAt
  <2>2. reported \subseteq Nat /\ TellsOf(unified, reported)
    <3>1. now \in Nat /\ backups \subseteq 0..now /\ reported \subseteq backups
      BY DEF BackupsInv
    <3>2. reported \subseteq Nat
      BY <3>1
    <3>3. QED
      BY <3>2 DEF BackupsInv
  <2>3. /\ StatusAt("rpo", t) = "FAIL" => StatusAt("rpo", u) = "FAIL"
        /\ StatusAt("rpo", t) = "PASS" => StatusAt("rpo", u) \in {"PASS", "FAIL"}
    <3>1. RpoOnlyAges(JudgeSubject(unified, evidence), t, u)
      BY <2>2, RpoAtTwoTimes
    <3>2. QED
      BY <2>1, <3>1 DEF RpoOnlyAges
  <2>4. ASSUME StatusAt("rto", t) \in {"PASS", "FAIL"}
        PROVE  StatusAt("rto", u) = StatusAt("rto", t)
    <3> DEFINE rule == RuleOf(Subject)
               tests == evidence.restore_tests
    <3>1. /\ Accepts(unified, evidence)
          /\ StatusAt("rto", t) = _evaluate_rto(rule, evidence, t).status
          /\ StatusAt("rto", u) = _evaluate_rto(rule, evidence, u).status
      BY <2>1, <2>4, Statuses
    <3>2. evidence # Null
      <4>1. CASE evidence = Null
        <5>1. _evaluate_rto(rule, evidence, t) = Unknown("RTO_EVIDENCE_CONTRACT_NOT_AVAILABLE", {})
          BY <4>1, Zenon DEF _evaluate_rto
        <5>2. QED
          BY <2>4, <3>1, <5>1 DEF Unknown, Verdict
      <4>2. QED
        BY <4>1
    <3>3. evidence \in EvidenceType
      BY <3>2 DEF TestsInv
    <3>4. DOMAIN tests \subseteq Nat
      BY <3>3, EvidenceFields
    <3>5. PICK i : RestsOn(rule, evidence, t, i)
      BY <2>4, <3>1, <3>4, RtoVerdict
    <3>6. /\ Sole(tests, rule.asset_id, i)
          /\ ~ _has_future_restore_timestamp(evidence, tests[i], t)
          /\ StatusAt("rto", t) = TestStatus(rule, tests[i])
      BY <3>1, <3>5 DEF RestsOn
    <3>7. tests[i] \in TestType
      BY <3>3, <3>6, EvidenceFields DEF Sole, Conclusive
    <3>8. {evidence.generated_at, tests[i].started_at, tests[i].completed_at,
           tests[i].checked_at, tests[i].collected_at} \ {Null} \subseteq Int
      BY <3>3, <3>7, EvidenceFields, TestTyped DEF OptionalTime
    <3>9. t \in Int /\ u \in Int
      BY DEF Times
    <3>10. ~ _has_future_restore_timestamp(evidence, tests[i], u)
      BY <3>6, <3>8, <3>9 DEF _has_future_restore_timestamp
    <3>11. _evaluate_rto(rule, evidence, u).status = TestStatus(rule, tests[i])
      BY <3>2, <3>4, <3>6, <3>10, RtoFollowsFrom
    <3>12. QED
      BY <3>1, <3>6, <3>11
  <2>5. QED
    BY <2>3, <2>4
<1>2. QED
  BY <1>1, BackupsInvHolds, TestsInvHolds, PTL

\* Genuine evidence with a test in it is accepted.
LEMMA GenuineIsValid ==
    ASSUME NEW g, g # Null, Genuine(g), g.restore_tests # << >>
    PROVE  validate_restore_test_evidence(g)
<1> DEFINE tests == g.restore_tests
<1>1. \A i \in DOMAIN tests : Real(tests[i], i, g.generated_at)
  BY DEF Genuine
<1>2. \A i \in DOMAIN tests : _validate_restore_test(tests[i]) /\ tests[i].collected_at <= g.generated_at
  BY <1>1 DEF Real
<1>3. ASSUME NEW i \in DOMAIN tests, NEW j \in DOMAIN tests, i # j
      PROVE  /\ tests[i].restore_test_id # tests[j].restore_test_id
             /\ tests[i].source_record_id # tests[j].source_record_id
  <2>1. /\ tests[i].restore_test_id = << "test", i >> /\ tests[j].restore_test_id = << "test", j >>
        /\ tests[i].source_record_id = << "record", i >> /\ tests[j].source_record_id = << "record", j >>
    BY <1>1 DEF Real
  <2>2. << "test", i >> # << "test", j >> /\ << "record", i >> # << "record", j >>
    BY <1>3
  <2>3. QED
    BY <2>1, <2>2
<1>4. QED
  BY <1>2, <1>3 DEF validate_restore_test_evidence

\* The verdict on the evidence with one inconclusive test more.
LEMMA InconclusiveTest ==
    ASSUME now \in Nat, NEW e, Genuine(e), e # Null => e.generated_at <= now,
           NEW test \in TestRecords(Len(TestsOf(e)) + 1),
           Happened(test),
           test.result = "UNKNOWN",
           NEW report, NEW t \in Times, now <= t,
           Status(JudgeSubject(report, e), "rto", t) \in {"PASS", "FAIL"}
    PROVE  Status(JudgeSubject(report, [source_id |-> << "import" >>, generated_at |-> now,
                                        restore_tests |-> Append(TestsOf(e), test)]), "rto", t)
             = Status(JudgeSubject(report, e), "rto", t)
<1> DEFINE g == [source_id |-> << "import" >>, generated_at |-> now,
                 restore_tests |-> Append(TestsOf(e), test)]
           rule == RuleOf(Subject)
           tests == e.restore_tests
           n == Len(TestsOf(e))
<1>1. /\ Genuine(g) /\ g \in EvidenceType /\ g.generated_at = now
      /\ DOMAIN g.restore_tests = 1..(n + 1)
      /\ \A i \in DOMAIN TestsOf(e) : /\ i \in DOMAIN g.restore_tests
                                      /\ g.restore_tests[i] = TestsOf(e)[i]
      /\ g.restore_tests[n + 1] = test
  BY ImportIsGenuine
<1> HIDE DEF g
<1>2. Accepts(report, e) /\ Status(JudgeSubject(report, e), "rto", t) = _evaluate_rto(rule, e, t).status
  BY Statuses
<1>3. e # Null
  <2>1. CASE e = Null
    <3>1. _evaluate_rto(rule, e, t) = Unknown("RTO_EVIDENCE_CONTRACT_NOT_AVAILABLE", {})
      BY <2>1, Zenon DEF _evaluate_rto
    <3>2. QED
      BY <1>2, <3>1 DEF Unknown, Verdict
  <2>2. QED
    BY <2>1
<1>4. /\ e \in EvidenceType /\ TestsOf(e) = tests /\ n \in Nat
      /\ DOMAIN tests = 1..n /\ DOMAIN tests \subseteq Nat
  BY <1>3, EvidenceFields DEF Genuine, TestsOf
<1>5. PICK i : RestsOn(rule, e, t, i)
  BY <1>2, <1>4, RtoVerdict
<1>6. /\ Sole(tests, rule.asset_id, i)
      /\ ~ _has_future_restore_timestamp(e, tests[i], t)
      /\ _evaluate_rto(rule, e, t).status = TestStatus(rule, tests[i])
  BY <1>5 DEF RestsOn
<1>7. Conclusive(g.restore_tests, rule.asset_id) = Conclusive(tests, rule.asset_id)
  <2>1. \A j \in 1..(n + 1) : j \in 1..n \/ j = n + 1
    BY <1>4
  <2>2. n + 1 \notin 1..n /\ \A j \in 1..n : j \in 1..(n + 1)
    BY <1>4
  <2>3. QED
    BY <1>1, <1>4, <2>1, <2>2 DEF Conclusive
<1>8. i \in DOMAIN tests /\ g.restore_tests[i] = tests[i] /\ Sole(g.restore_tests, rule.asset_id, i)
  BY <1>1, <1>4, <1>6, <1>7 DEF Sole, Conclusive
<1>9. g # Null /\ DOMAIN g.restore_tests \subseteq Nat
  BY <1>1, EvidenceFields
<1>10. ~ _has_future_restore_timestamp(g, g.restore_tests[i], t)
  <2>1. t \in Int /\ now \in Int
    BY DEF Times
  <2>2. ~ (g.generated_at > t)
    BY <1>1, <2>1
  <2>3. QED
    BY <1>6, <1>8, <2>2 DEF _has_future_restore_timestamp
<1>11. _evaluate_rto(rule, g, t).status = TestStatus(rule, tests[i])
  <2> HIDE DEF rule
  <2>1. _evaluate_rto(rule, g, t).status = TestStatus(rule, g.restore_tests[i])
    BY <1>8, <1>9, <1>10, RtoFollowsFrom
  <2>2. QED
    BY <1>8, <2>1
<1>12. Accepts(report, g)
  <2>1. g.restore_tests # << >>
    BY <1>1, <1>8
  <2>2. validate_restore_test_evidence(g)
    BY <1>1, <1>9, <2>1, GenuineIsValid
  <2>3. QED
    BY <1>2, <2>2 DEF Accepts
<1>13. Status(JudgeSubject(report, g), "rto", t) = _evaluate_rto(rule, g, t).status
  BY <1>12, Statuses
<1>14. QED
  BY <1>2, <1>6, <1>11, <1>13 DEF g

\* Only an import makes the evidence longer.
LEMMA LongerByImport ==
    ASSUME TestsInv, [Next]_vars, Len(Tests') > Len(Tests)
    PROVE  ImportTest
<1>1. Len(Tests) \in Nat
  BY EvidenceFields DEF TestsInv, Tests
<1>2. CASE evidence' = evidence
  <2>1. Tests' = Tests
    BY <1>2 DEF Tests
  <2>2. Len(Tests') = Len(Tests)
    BY <2>1
  <2>3. QED
    BY <1>1, <2>2
<1>3. CASE Slip
  <2>1. PICK i \in DOMAIN Tests : \E wrong \in Mistakes(Tests[i]) :
          Publish(unified, [evidence EXCEPT !.restore_tests[i] = wrong])
    BY <1>3 DEF Slip
  <2>2. PICK wrong \in Mistakes(Tests[i]) :
          evidence' = [evidence EXCEPT !.restore_tests[i] = wrong]
    BY <2>1 DEF Publish
  <2>3. evidence # Null
    BY <2>1 DEF Tests
  <2>4. /\ evidence \in EvidenceType /\ evidence.restore_tests = Tests
        /\ Tests \in Seq(TestType) /\ i \in DOMAIN Tests /\ Tests[i] \in TestType /\ now \in Nat
    BY <2>1, <2>3, EvidenceFields DEF TestsInv, Tests
  <2>5. wrong \in TestType
    BY <2>4, MistakeTyped
  <2>6. /\ evidence'.restore_tests = [Tests EXCEPT ![i] = wrong]
        /\ [Tests EXCEPT ![i] = wrong] \in Seq(TestType)
        /\ Len([Tests EXCEPT ![i] = wrong]) = Len(Tests)
    BY <2>2, <2>4, <2>5, ExceptSeq DEF EvidenceType
  <2>7. Len(Tests') = Len(Tests)
    <3>1. CASE evidence' = Null
      <4>1. Len(Tests') = 0
        BY <3>1 DEF Tests
      <4>2. QED
        BY <1>1, <4>1
    <3>2. CASE evidence' # Null
      BY <2>6, <3>2 DEF Tests
    <3>3. QED
      BY <3>1, <3>2
  <2>8. QED
    BY <1>1, <2>7
<1>4. QED
  BY <1>2, <1>3 DEF Next, Tick, BackupSucceeds, Collect, Publish, docs, vars

\* Importing an inconclusive test leaves every verdict on the RTO as it was,
\* for the evaluation times the new report is not after.
THEOREM InconclusiveTestsHideNothing == Spec => InconclusiveHidesNothing
<1> DEFINE Step == (Len(Tests') > Len(Tests) /\ Tests'[Len(Tests')].result = "UNKNOWN") =>
                      \A t \in now..MaxTime :
                         StatusAt("rto", t) \in {"PASS", "FAIL"} =>
                            StatusAt("rto", t)' = StatusAt("rto", t)
<1>1. BackupsInv /\ TestsInv /\ BackupsInv' /\ [Next]_vars => [Step]_vars
  <2> SUFFICES ASSUME BackupsInv, TestsInv, BackupsInv', [Next]_vars, Len(Tests') > Len(Tests),
                      Tests'[Len(Tests')].result = "UNKNOWN",
                      NEW t \in now..MaxTime, StatusAt("rto", t) \in {"PASS", "FAIL"}
               PROVE  StatusAt("rto", t)' = StatusAt("rto", t)
    OBVIOUS
  <2>0. ImportTest
    BY LongerByImport
  <2>1. /\ Tests = TestsOf(evidence) /\ evidence = genuine /\ Genuine(evidence)
        /\ now \in Nat /\ (evidence # Null => evidence.generated_at <= now)
    BY <2>0 DEF ImportTest, Tests, TestsOf, TestsInv
  <2>2. PICK test \in TestRecords(Len(Tests) + 1) :
          /\ Happened(test)
          /\ Publish(unified, [source_id |-> << "import" >>, generated_at |-> now,
                               restore_tests |-> Append(Tests, test)])
    BY <2>0 DEF ImportTest
  <2> DEFINE g == [source_id |-> << "import" >>, generated_at |-> now,
                   restore_tests |-> Append(TestsOf(evidence), test)]
             n == Len(Tests)
  <2>3. /\ g \in EvidenceType /\ DOMAIN g.restore_tests = 1..(n + 1)
        /\ g.restore_tests[n + 1] = test
    BY <2>1, <2>2, ImportIsGenuine
  <2>4. Len(g.restore_tests) = n + 1
    <3>1. DOMAIN g.restore_tests = 1..Len(g.restore_tests) /\ Len(g.restore_tests) \in Nat
      BY <2>3, EvidenceFields
    <3>2. n \in Nat
      <4>1. CASE evidence = Null
        BY <2>1, <4>1 DEF TestsOf
      <4>2. CASE evidence # Null
        BY <2>1, <4>2, EvidenceFields DEF TestsOf, Genuine
      <4>3. QED
        BY <4>1, <4>2
    <3> HIDE DEF g, n
    <3>3. 1..(n + 1) = 1..Len(g.restore_tests)
      BY <2>3, <3>1
    <3>4. n + 1 \in 1..Len(g.restore_tests) /\ (Len(g.restore_tests) >= 1 =>
                                                 Len(g.restore_tests) \in 1..(n + 1))
      BY <3>1, <3>2, <3>3
    <3>5. QED
      BY <3>1, <3>2, <3>4
  <2>5. evidence' = g /\ judged' = JudgeSubject(unified, g) /\ unified' = unified
    BY <2>1, <2>2 DEF Publish
  <2>6. Tests' = g.restore_tests
    <3>1. g # Null
      BY <2>3, MarkersAssumption
    <3>2. QED
      BY <2>5, <3>1 DEF Tests
  <2>7. test.result = "UNKNOWN"
    BY <2>3, <2>4, <2>6
  <2>8. t \in Times /\ now <= t
    BY <2>1, TimesAssumption DEF Times
  <2>9. StatusAt("rto", t) = Status(JudgeSubject(unified, evidence), "rto", t)
    BY DEF BackupsInv, Judged, StatusAt
  <2>10. StatusAt("rto", t)' = Status(JudgeSubject(unified, g), "rto", t)
    BY <2>5 DEF StatusAt, Status
  <2>11. Status(JudgeSubject(unified, g), "rto", t) = Status(JudgeSubject(unified, evidence), "rto", t)
    BY <2>1, <2>2, <2>7, <2>8, <2>9, InconclusiveTest
  <2>12. QED
    BY <2>9, <2>10, <2>11
<1>2. InconclusiveHidesNothing <=> [][Step]_vars
  BY DEF InconclusiveHidesNothing
<1>3. QED
  BY <1>1, <1>2, BackupsInvHolds, TestsInvHolds, PTL DEF Spec
-----------------------------------------------------------------------------
(***************************************************************************)
(* The order of rules and restore tests.                                   *)
(***************************************************************************)
Backwards(s) == [i \in DOMAIN s |-> s[Len(s) + 1 - i]]

LEMMA Reversal ==
    ASSUME NEW S, NEW s \in Seq(S)
    PROVE  /\ Backwards(s) \in Seq(S) /\ DOMAIN Backwards(s) = DOMAIN s
           /\ DOMAIN s \subseteq Nat /\ DOMAIN Backwards(s) \subseteq Nat
           /\ Backwards(s) = << >> <=> s = << >>
           /\ \A i \in DOMAIN s : /\ Len(s) + 1 - i \in DOMAIN s
                                  /\ Backwards(s)[i] = s[Len(s) + 1 - i]
                                  /\ s[i] = Backwards(s)[Len(s) + 1 - i]
           /\ \A i, j \in DOMAIN s : Len(s) + 1 - i = Len(s) + 1 - j => i = j
           /\ {Backwards(s)[i] : i \in DOMAIN Backwards(s)} = {s[i] : i \in DOMAIN s}
<1> DEFINE n == Len(s)
           r == Backwards(s)
<1>1. n \in Nat /\ DOMAIN s = 1..n /\ \A i \in 1..n : s[i] \in S
  BY LenProperties, ElementOfSeq
<1>2. \A i \in 1..n : n + 1 - i \in 1..n /\ n + 1 - (n + 1 - i) = i
  BY <1>1
<1>3. DOMAIN r = 1..n /\ \A i \in 1..n : r[i] = s[n + 1 - i]
  BY <1>1 DEF Backwards
<1> HIDE DEF r
<1>4. \A i \in 1..n : s[i] = r[n + 1 - i]
  BY <1>2, <1>3
<1>5. r = [i \in 1..n |-> r[i]] /\ \A i \in 1..n : r[i] \in S
  BY <1>1, <1>2, <1>3 DEF r, Backwards
<1>6. r \in Seq(S) /\ Len(r) = n
  <2>1. [i \in 1..n |-> r[i]] \in Seq(S) /\ Len([i \in 1..n |-> r[i]]) = n
    BY <1>1, <1>5
  <2>2. QED
    BY <1>5, <2>1
<1>7. r = << >> <=> s = << >>
  BY <1>1, <1>6, EmptySeq
<1>8. {r[i] : i \in 1..n} = {s[i] : i \in 1..n}
  BY <1>2, <1>3, <1>4
<1>9. \A i, j \in 1..n : n + 1 - i = n + 1 - j => i = j
  BY <1>1
<1>10. 1..n \subseteq Nat
  OBVIOUS
<1> HIDE DEF n
<1>11. /\ r \in Seq(S) /\ DOMAIN r = DOMAIN s /\ DOMAIN s \subseteq Nat /\ DOMAIN r \subseteq Nat
       /\ r = << >> <=> s = << >>
       /\ {r[i] : i \in DOMAIN r} = {s[i] : i \in DOMAIN s}
  BY <1>1, <1>3, <1>6, <1>7, <1>8, <1>10
<1>12. /\ \A i \in DOMAIN s : n + 1 - i \in DOMAIN s /\ r[i] = s[n + 1 - i] /\ s[i] = r[n + 1 - i]
       /\ \A i, j \in DOMAIN s : n + 1 - i = n + 1 - j => i = j
  BY <1>1, <1>2, <1>3, <1>4, <1>9
<1>13. QED
  BY <1>11, <1>12, Zenon DEF n, r

LEMMA ReversedPolicy ==
    LET Q == [Policy EXCEPT !.rules = Backwards(@)]
    IN  /\ validate_policy(Q) <=> validate_policy(Policy)
        /\ {Q.rules[i] : i \in DOMAIN Q.rules} = {Policy.rules[i] : i \in DOMAIN Policy.rules}
        /\ Q.evaluation_timestamp = Policy.evaluation_timestamp
        /\ \A R : [Q EXCEPT !.rules = R] = [Policy EXCEPT !.rules = R]
<1> DEFINE rules == Policy.rules
           back == Backwards(rules)
           Q == [Policy EXCEPT !.rules = Backwards(@)]
           n == Len(rules)
<1>1. /\ Policy = [evaluation_timestamp |-> Policy.evaluation_timestamp, rules |-> rules]
      /\ rules \in Seq({rules[i] : i \in DOMAIN rules})
  BY PolicyAssumption
<1>2. /\ Q.rules = back /\ Q.evaluation_timestamp = Policy.evaluation_timestamp
      /\ \A R : [Q EXCEPT !.rules = R] = [Policy EXCEPT !.rules = R]
  BY <1>1
<1>3. /\ DOMAIN back = DOMAIN rules
      /\ back = << >> <=> rules = << >>
      /\ \A i \in DOMAIN rules : /\ n + 1 - i \in DOMAIN rules
                                 /\ back[i] = rules[n + 1 - i]
                                 /\ rules[i] = back[n + 1 - i]
      /\ \A i, j \in DOMAIN rules : n + 1 - i = n + 1 - j => i = j
      /\ {back[i] : i \in DOMAIN back} = {rules[i] : i \in DOMAIN rules}
  BY <1>1, Reversal
<1> HIDE DEF back, Q, n
<1> DEFINE Objectives(s) == \A i \in DOMAIN s : s[i].rpo > 0 /\ (s[i].rto # Missing => s[i].rto > 0)
           Distinct(s) == \A i, j \in DOMAIN s : i # j => /\ s[i].policy_id # s[j].policy_id
                                                          /\ s[i].asset_id # s[j].asset_id
<1>4. Objectives(back) <=> Objectives(rules)
  <2>1. ASSUME Objectives(rules), NEW i \in DOMAIN back
        PROVE  back[i].rpo > 0 /\ (back[i].rto # Missing => back[i].rto > 0)
    BY <1>3, <2>1
  <2>2. ASSUME Objectives(back), NEW i \in DOMAIN rules
        PROVE  rules[i].rpo > 0 /\ (rules[i].rto # Missing => rules[i].rto > 0)
    BY <1>3, <2>2
  <2>3. QED
    BY <2>1, <2>2
<1>5. Distinct(back) <=> Distinct(rules)
  <2>1. ASSUME Distinct(rules), NEW i \in DOMAIN back, NEW j \in DOMAIN back, i # j
        PROVE  back[i].policy_id # back[j].policy_id /\ back[i].asset_id # back[j].asset_id
    BY <1>3, <2>1
  <2>2. ASSUME Distinct(back), NEW i \in DOMAIN rules, NEW j \in DOMAIN rules, i # j
        PROVE  rules[i].policy_id # rules[j].policy_id /\ rules[i].asset_id # rules[j].asset_id
    BY <1>3, <2>2
  <2>3. QED
    BY <2>1, <2>2
<1>6. validate_policy(Q) <=> validate_policy(Policy)
  <2>1. validate_policy(Q) <=>
          /\ Policy.evaluation_timestamp \notin {Null, Malformed, NonUtc}
          /\ back # << >> /\ Objectives(back) /\ Distinct(back)
    BY <1>2 DEF validate_policy
  <2>2. validate_policy(Policy) <=>
          /\ Policy.evaluation_timestamp \notin {Null, Malformed, NonUtc}
          /\ rules # << >> /\ Objectives(rules) /\ Distinct(rules)
    BY DEF validate_policy
  <2>3. QED
    BY <1>3, <1>4, <1>5, <2>1, <2>2
<1>7. QED
  BY <1>2, <1>3, <1>6 DEF Q

\* Accepted, normalised and understood alike.
SameEvidence(e, f) ==
    /\ validate_restore_test_evidence(e) <=> validate_restore_test_evidence(f)
    /\ Normalized(e) = Normalized(f)
    /\ \A rule, t : _evaluate_rto(rule, e, t) = _evaluate_rto(rule, f, t)

\* The evaluation depends on no more than this of policy and evidence.
LEMMA SameEvaluation ==
    ASSUME NEW report, NEW t, NEW P, NEW Q, NEW e, NEW f,
           validate_policy(Q) <=> validate_policy(P),
           {Q.rules[i] : i \in DOMAIN Q.rules} = {P.rules[i] : i \in DOMAIN P.rules},
           Q.evaluation_timestamp = P.evaluation_timestamp,
           \A R : [Q EXCEPT !.rules = R] = [P EXCEPT !.rules = R],
           e = Null <=> f = Null, e # Null => SameEvidence(e, f)
    PROVE  evaluate_report(report, P, t, e) = evaluate_report(report, Q, t, f)
<1> DEFINE Time(p) == IF t # Missing THEN t ELSE p.evaluation_timestamp
           RulesOf(p) == {p.rules[i] : i \in DOMAIN p.rules}
           Chosen(p, asset) == CHOOSE rule \in RulesOf(p) : rule.asset_id = asset
           Judge(rule, d, time) ==
             [policy_id |-> rule.policy_id, rpo |-> _evaluate_rpo(rule, report, time),
              rto |-> IF rule.rto = Missing THEN Missing ELSE _evaluate_rto(rule, d, time)]
           Results(p, d) ==
             [asset \in {rule.asset_id : rule \in RulesOf(p)} |-> Judge(Chosen(p, asset), d, Time(p))]
           Normal(d) == IF d = Null THEN Missing ELSE Normalized(d)
           Refused(p, d) == \/ ~ validate_policy(p)
                            \/ ~ validate_unified_report(report)
                            \/ d # Null /\ ~ validate_restore_test_evidence(d)
                            \/ Time(p) \in {Missing, Malformed, NonUtc}
           Result(p, d) ==
             [accepted |-> TRUE, evaluation_timestamp |-> Time(p), input_unified_report |-> report,
              policy |-> [p EXCEPT !.rules = RulesOf(p)], restore_test_evidence |-> Normal(d),
              asset_results |-> Results(p, d)]
<1>1. \A p, d : evaluate_report(report, p, t, d) = IF Refused(p, d) THEN Rejected ELSE Result(p, d)
  BY Zenon DEF evaluate_report
<1>2. Time(Q) = Time(P) /\ RulesOf(Q) = RulesOf(P)
  OBVIOUS
<1> HIDE DEF Time, RulesOf
<1>3. Refused(P, e) <=> Refused(Q, f)
  BY <1>2 DEF SameEvidence
<1>4. Normal(e) = Normal(f)
  BY DEF SameEvidence
<1>5. \A rule, time : Judge(rule, e, time) = Judge(rule, f, time)
  BY DEF SameEvidence
<1> HIDE DEF Refused, Normal, Judge
<1>6. Results(P, e) = Results(Q, f)
  BY <1>2, <1>5
<1>7. [P EXCEPT !.rules = RulesOf(P)] = [Q EXCEPT !.rules = RulesOf(Q)]
  BY <1>2
<1> HIDE DEF Results
<1>8. Result(P, e) = Result(Q, f)
  BY <1>2, <1>4, <1>6, <1>7
<1> HIDE DEF Result
<1>9. /\ evaluate_report(report, P, t, e) = IF Refused(P, e) THEN Rejected ELSE Result(P, e)
      /\ evaluate_report(report, Q, t, f) = IF Refused(Q, f) THEN Rejected ELSE Result(Q, f)
  BY <1>1, Zenon
<1>10. QED
  BY <1>3, <1>8, <1>9

LEMMA OnlyMember ==
    ASSUME NEW I, NEW k \in Nat, k \in I, \A j \in I : j = k
    PROVE  (CHOOSE i \in I : \A j \in I : i <= j) = k
<1>1. k <= k
  OBVIOUS
<1>2. \E i \in I : \A j \in I : i <= j
  BY <1>1
<1>3. QED
  BY <1>2

LEMMA ReversedEvidence ==
    ASSUME NEW e \in EvidenceType
    PROVE  LET f == [e EXCEPT !.restore_tests = Backwards(@)]
           IN  f # Null /\ SameEvidence(e, f)
<1> DEFINE tests == e.restore_tests
           back == Backwards(tests)
           f == [e EXCEPT !.restore_tests = Backwards(@)]
           n == Len(tests)
           mirror(i) == n + 1 - i
<1>1. /\ back \in Seq(TestType) /\ DOMAIN back = DOMAIN tests
      /\ DOMAIN tests \subseteq Nat
      /\ back = << >> <=> tests = << >>
      /\ \A i \in DOMAIN tests : /\ mirror(i) \in DOMAIN tests
                                 /\ back[i] = tests[mirror(i)]
                                 /\ tests[i] = back[mirror(i)]
      /\ \A i, j \in DOMAIN tests : mirror(i) = mirror(j) => i = j
      /\ {back[i] : i \in DOMAIN back} = {tests[i] : i \in DOMAIN tests}
  <2>1. tests \in Seq(TestType)
    BY EvidenceFields
  <2> HIDE DEF tests
  <2>2. QED
    BY <2>1, Reversal
<1>2. f.restore_tests = back /\ f.generated_at = e.generated_at /\ f.source_id = e.source_id
  BY DEF EvidenceType
<1>3. f \in EvidenceType
  BY <1>1 DEF EvidenceType
<1>4. f # Null /\ e # Null
  BY <1>3, MarkersAssumption
<1>5. n \in Nat
  BY EvidenceFields
<1>6. \A j \in Nat : mirror(mirror(j)) = j
  BY <1>5
<1> HIDE DEF f, back, mirror, n
<1>7. Normalized(e) = Normalized(f)
  <2>1. Normalized(e) = [source_id |-> e.source_id, generated_at |-> e.generated_at,
                         restore_tests |-> {tests[i] : i \in DOMAIN tests}]
    BY DEF Normalized
  <2>2. Normalized(f) = [source_id |-> e.source_id, generated_at |-> e.generated_at,
                         restore_tests |-> {back[i] : i \in DOMAIN back}]
    BY <1>2 DEF Normalized
  <2>3. QED
    BY <1>1, <2>1, <2>2
<1>8. validate_restore_test_evidence(e) <=> validate_restore_test_evidence(f)
  <2> DEFINE Each(s) == \A i \in DOMAIN s : /\ _validate_restore_test(s[i])
                                            /\ s[i].collected_at <= e.generated_at
             Distinct(s) == \A i, j \in DOMAIN s : i # j =>
                               /\ s[i].restore_test_id  # s[j].restore_test_id
                               /\ s[i].source_record_id # s[j].source_record_id
  <2>1. validate_restore_test_evidence(e) <=> tests # << >> /\ Each(tests) /\ Distinct(tests)
    BY DEF validate_restore_test_evidence
  <2>2. validate_restore_test_evidence(f) <=> back # << >> /\ Each(back) /\ Distinct(back)
    BY <1>2 DEF validate_restore_test_evidence
  <2>3. Each(tests) <=> Each(back)
    <3>1. ASSUME Each(tests), NEW i \in DOMAIN back
          PROVE  _validate_restore_test(back[i]) /\ back[i].collected_at <= e.generated_at
      BY <1>1, <3>1
    <3>2. ASSUME Each(back), NEW i \in DOMAIN tests
          PROVE  _validate_restore_test(tests[i]) /\ tests[i].collected_at <= e.generated_at
      BY <1>1, <3>2
    <3>3. QED
      BY <3>1, <3>2
  <2>4. Distinct(tests) <=> Distinct(back)
    <3>1. ASSUME Distinct(tests), NEW i \in DOMAIN back, NEW j \in DOMAIN back, i # j
          PROVE  /\ back[i].restore_test_id  # back[j].restore_test_id
                 /\ back[i].source_record_id # back[j].source_record_id
      BY <1>1, <3>1
    <3>2. ASSUME Distinct(back), NEW i \in DOMAIN tests, NEW j \in DOMAIN tests, i # j
          PROVE  /\ tests[i].restore_test_id  # tests[j].restore_test_id
                 /\ tests[i].source_record_id # tests[j].source_record_id
      BY <1>1, <3>2
    <3>3. QED
      BY <3>1, <3>2
  <2>5. QED
    BY <1>1, <2>1, <2>2, <2>3, <2>4
<1>9. ASSUME NEW test PROVE _restore_test_source_ids(f, test) = _restore_test_source_ids(e, test)
  BY <1>2 DEF _restore_test_source_ids
<1>10. ASSUME NEW rule, NEW test, NEW t PROVE JudgeTest(rule, f, test, t) = JudgeTest(rule, e, test, t)
  <2>1. _has_future_restore_timestamp(f, test, t) <=> _has_future_restore_timestamp(e, test, t)
    BY <1>2 DEF _has_future_restore_timestamp
  <2>2. QED
    BY <1>9, <2>1 DEF JudgeTest
<1>11. ASSUME NEW rule, NEW t PROVE _evaluate_rto(rule, e, t) = _evaluate_rto(rule, f, t)
  <2> DEFINE M(s) == Matching(rule, s)
             R(s) == {i \in M(s) : s[i].result # "UNKNOWN"}
             Deciding(s) == IF R(s) # {} THEN R(s) ELSE M(s)
             First(s) == CHOOSE i \in Deciding(s) : \A j \in Deciding(s) : i <= j
             Ids(d, s) == UNION {_restore_test_source_ids(d, s[i]) : i \in M(s)}
  <2>1. _evaluate_rto(rule, e, t) =
          IF M(tests) = {} THEN Unknown("RTO_RESTORE_TEST_ASSET_NOT_FOUND", {})
          ELSE IF Ambiguous(M(tests), R(tests)) THEN Unknown("RTO_RESTORE_TEST_AMBIGUOUS", Ids(e, tests))
          ELSE JudgeTest(rule, e, tests[First(tests)], t)
    BY <1>4, Zenon DEF _evaluate_rto
  <2>2. _evaluate_rto(rule, f, t) =
          IF M(back) = {} THEN Unknown("RTO_RESTORE_TEST_ASSET_NOT_FOUND", {})
          ELSE IF Ambiguous(M(back), R(back)) THEN Unknown("RTO_RESTORE_TEST_AMBIGUOUS", Ids(f, back))
          ELSE JudgeTest(rule, f, back[First(back)], t)
    <3>1. _evaluate_rto(rule, f, t) =
            IF M(f.restore_tests) = {} THEN Unknown("RTO_RESTORE_TEST_ASSET_NOT_FOUND", {})
            ELSE IF Ambiguous(M(f.restore_tests), R(f.restore_tests))
              THEN Unknown("RTO_RESTORE_TEST_AMBIGUOUS", Ids(f, f.restore_tests))
            ELSE JudgeTest(rule, f, f.restore_tests[First(f.restore_tests)], t)
      BY <1>4, Zenon DEF _evaluate_rto
    <3>2. QED
      BY <1>2, <3>1, Zenon
  <2>3. /\ M(tests) \subseteq DOMAIN tests /\ M(back) \subseteq DOMAIN tests
        /\ R(tests) \subseteq M(tests) /\ R(back) \subseteq M(back)
        /\ \A i \in DOMAIN tests : /\ i \in M(tests) <=> mirror(i) \in M(back)
                                   /\ i \in M(back) <=> mirror(i) \in M(tests)
                                   /\ i \in R(tests) <=> mirror(i) \in R(back)
                                   /\ i \in R(back) <=> mirror(i) \in R(tests)
    BY <1>1 DEF Matching
  <2>4. Ids(e, tests) = Ids(f, back)
    <3>1. \A i \in M(tests) : \E j \in M(back) : back[j] = tests[i]
      BY <1>1, <2>3
    <3>2. \A i \in M(back) : \E j \in M(tests) : tests[j] = back[i]
      BY <1>1, <2>3
    <3>3. {_restore_test_source_ids(e, tests[i]) : i \in M(tests)} =
          {_restore_test_source_ids(f, back[i]) : i \in M(back)}
      <4> HIDE DEF M
      <4> QED
        BY <1>9, <3>1, <3>2
    <3>4. QED
      BY <3>3
  <2> HIDE DEF M, R, Ids
  <2>5. M(tests) = {} <=> M(back) = {}
    BY <1>1, <2>3
  <2>6. R(tests) = {} <=> R(back) = {}
    BY <1>1, <2>3
  <2>7. Several(M(tests)) <=> Several(M(back))
    BY <1>1, <2>3 DEF Several
  <2>8. Several(R(tests)) <=> Several(R(back))
    BY <1>1, <2>3 DEF Several
  <2>9. Ambiguous(M(tests), R(tests)) <=> Ambiguous(M(back), R(back))
    BY <2>6, <2>7, <2>8 DEF Ambiguous
  <2>10. ASSUME M(tests) # {}, ~ Ambiguous(M(tests), R(tests))
         PROVE  back[First(back)] = tests[First(tests)]
    <3>1. /\ Deciding(tests) # {} /\ Deciding(tests) \subseteq DOMAIN tests
          /\ \A i, j \in Deciding(tests) : i = j
      BY <2>3, <2>10 DEF Ambiguous, Several
    <3>2. PICK k \in Deciding(tests) : \A j \in Deciding(tests) : j = k
      BY <3>1
    <3>3. \A i \in DOMAIN tests : i \in Deciding(back) <=> mirror(i) \in Deciding(tests)
      BY <2>3, <2>6
    <3>4. k \in DOMAIN tests /\ mirror(k) \in DOMAIN tests /\ mirror(k) \in Nat /\ k \in Nat
      BY <1>1, <3>1, <3>2
    <3>5. mirror(k) \in Deciding(back)
      BY <2>3, <2>6, <3>2, <3>4
    <3>6. Deciding(back) \subseteq DOMAIN tests
      BY <2>3
    <3> HIDE DEF Deciding
    <3>7. \A j \in Deciding(back) : j = mirror(k)
      <4> TAKE j \in Deciding(back)
      <4>1. j \in DOMAIN tests /\ mirror(j) = k
        BY <3>2, <3>3, <3>6
      <4>2. mirror(mirror(j)) = j
        BY <1>1, <1>6, <4>1
      <4>3. QED
        BY <4>1, <4>2
    <3>8. First(tests) = k
      BY <3>2, <3>4, OnlyMember
    <3>9. First(back) = mirror(k)
      BY <3>4, <3>5, <3>7, OnlyMember
    <3> HIDE DEF First
    <3>10. QED
      BY <1>1, <3>4, <3>8, <3>9
  <2> HIDE DEF First, Deciding
  <2>11. QED
    BY <1>10, <2>1, <2>2, <2>4, <2>5, <2>9, <2>10
<1>12. QED
  BY <1>4, <1>7, <1>8, <1>11 DEF SameEvidence, f

\* The evaluation does not depend on the order in which rules and restore
\* tests are written down.
THEOREM OrderChangesNothing == Spec => []OrderDoesNotMatter
<1>1. TestsInv => OrderDoesNotMatter
  <2> SUFFICES ASSUME TestsInv PROVE OrderDoesNotMatter
    OBVIOUS
  <2> DEFINE Q == [Policy EXCEPT !.rules = Backwards(@)]
             f == IF evidence = Null THEN Null ELSE [evidence EXCEPT !.restore_tests = Backwards(@)]
  <2>1. evidence # Null => evidence \in EvidenceType
    BY DEF TestsInv
  <2>2. /\ evidence = Null <=> f = Null
        /\ evidence # Null => SameEvidence(evidence, f)
    BY <2>1, ReversedEvidence
  <2>3. /\ validate_policy(Q) <=> validate_policy(Policy)
        /\ {Q.rules[i] : i \in DOMAIN Q.rules} = {Policy.rules[i] : i \in DOMAIN Policy.rules}
        /\ Q.evaluation_timestamp = Policy.evaluation_timestamp
        /\ \A R : [Q EXCEPT !.rules = R] = [Policy EXCEPT !.rules = R]
    BY ReversedPolicy
  <2> HIDE DEF Q, f
  <2>4. evaluate_report(unified, Policy, now, evidence) = evaluate_report(unified, Q, now, f)
    BY <2>2, <2>3, SameEvaluation
  <2>5. QED
    BY <2>4 DEF OrderDoesNotMatter, Q, f, Backwards
<1>2. QED
  BY <1>1, TestsInvHolds, PTL
-----------------------------------------------------------------------------
(***************************************************************************)
(* The types of the variables, and of what the evaluation says.            *)
(***************************************************************************)
Decided(v) ==
    /\ v.status \in {"PASS", "FAIL", "UNKNOWN"}
    /\ v.status = "UNKNOWN" <=> v.observed = Null

LEMMA UnknownIsDecided == \A reason, ids : Decided(Unknown(reason, ids))
  BY UnknownFields DEF Decided

\* A verdict on the RPO comes with an age, unless it is UNKNOWN.
LEMMA RpoDecided ==
    ASSUME NEW S, S \subseteq Nat, NEW report, TellsOf(report, S),
           NEW rule, rule.asset_id = Subject, NEW t \in Int
    PROVE  Decided(_evaluate_rpo(rule, report, t))
<1>1. ASSUME NEW candidate, candidate.last \in Markers \cup Latest(S)
      PROVE  Decided(JudgeBackup(rule, candidate, SourceIds(report), t))
  <2> DEFINE ids == _source_ids(candidate)
             age == t - candidate.last
             v   == JudgeBackup(rule, candidate, SourceIds(report), t)
  <2>1. \/ \E reason, named : v = Unknown(reason, named)
        \/ /\ candidate.last \notin Markers
           /\ \E reason : \/ v = Verdict("PASS", reason, age, ids)
                          \/ v = Verdict("FAIL", reason, age, ids)
    BY DEF JudgeBackup, FutureBackup, Markers
  <2>2. CASE \E reason, named : v = Unknown(reason, named)
    BY <2>2, UnknownIsDecided
  <2>3. CASE /\ candidate.last \notin Markers
             /\ \E reason : \/ v = Verdict("PASS", reason, age, ids)
                            \/ v = Verdict("FAIL", reason, age, ids)
    <3>1. candidate.last \in Nat
      BY <1>1, <2>3 DEF Latest
    <3>2. age \in Int
      BY <3>1
    <3>3. age # Null
      BY <3>2, MarkersAssumption
    <3>4. QED
      BY <2>3, <3>3 DEF Verdict, Decided
  <2>4. QED
    BY <2>1, <2>2, <2>3
<1>2. QED
  BY <1>1, RpoCandidate, UnknownIsDecided

\* A verdict on the RTO comes with a duration, unless it is UNKNOWN: the
\* validation refuses a conclusive test without one.
LEMMA RtoDecided ==
    ASSUME NEW rule, NEW e,
           e # Null => e \in EvidenceType /\ validate_restore_test_evidence(e), NEW t
    PROVE  Decided(_evaluate_rto(rule, e, t))
<1> DEFINE tests    == e.restore_tests
           matching == Matching(rule, tests)
           reliable == {i \in matching : tests[i].result # "UNKNOWN"}
           deciding == IF reliable # {} THEN reliable ELSE matching
           first    == CHOOSE i \in deciding : \A j \in deciding : i <= j
           all      == UNION {_restore_test_source_ids(e, tests[i]) : i \in matching}
<1>1. _evaluate_rto(rule, e, t) =
        IF e = Null THEN Unknown("RTO_EVIDENCE_CONTRACT_NOT_AVAILABLE", {})
        ELSE IF matching = {} THEN Unknown("RTO_RESTORE_TEST_ASSET_NOT_FOUND", {})
        ELSE IF Ambiguous(matching, reliable) THEN Unknown("RTO_RESTORE_TEST_AMBIGUOUS", all)
        ELSE JudgeTest(rule, e, tests[first], t)
  BY Zenon DEF _evaluate_rto
<1>2. CASE e = Null \/ matching = {} \/ Ambiguous(matching, reliable)
  <2> HIDE DEF all, first, reliable, matching
  <2>1. QED
    BY <1>1, <1>2, UnknownIsDecided
<1>3. CASE e # Null /\ matching # {} /\ ~ Ambiguous(matching, reliable)
  <2>1. deciding \subseteq DOMAIN tests /\ deciding # {} /\ DOMAIN tests \subseteq Nat
    BY <1>3, EvidenceFields DEF Matching
  <2> HIDE DEF deciding
  <2>2. first \in deciding
    <3>1. \E i \in deciding : \A j \in deciding : i <= j
      BY <2>1, LeastExists
    <3>2. QED
      BY <3>1
  <2> DEFINE test == tests[first]
  <2>3. test \in TestType /\ _validate_restore_test(test)
    BY <1>3, <2>1, <2>2, EvidenceFields DEF validate_restore_test_evidence
  <2>4. _evaluate_rto(rule, e, t) = JudgeTest(rule, e, test, t)
    BY <1>1, <1>3
  <2> HIDE DEF first, matching, reliable, test
  <2>5. test.result # "UNKNOWN" => test.duration_seconds # Null
    BY <2>3 DEF _validate_restore_test, _validate_timing
  <2> DEFINE v == JudgeTest(rule, e, test, t)
  <2>6. \/ v.status = "UNKNOWN" /\ v.observed = Null
        \/ /\ v.status \in {"PASS", "FAIL"} /\ v.observed = test.duration_seconds
           /\ test.result # "UNKNOWN"
    BY DEF JudgeTest
  <2> HIDE DEF v
  <2>7. Decided(v)
    BY <2>5, <2>6 DEF Decided
  <2>8. QED
    BY <2>4, <2>7 DEF v
<1>4. QED
  BY <1>2, <1>3

BoundsInv ==
    now \in Times /\ collections \in 0..MaxCollections /\ Len(Tests) <= MaxTests

LEMMA InitBounds == Init => BoundsInv
  BY TimesAssumption, TimelineBounds DEF Init, BoundsInv, Times, Tests

LEMMA NextBounds == TestsInv /\ BoundsInv /\ [Next]_vars => BoundsInv'
<1> SUFFICES ASSUME TestsInv, BoundsInv, [Next]_vars PROVE BoundsInv'
  OBVIOUS
<1>1. /\ now \in 0..MaxTime /\ MaxTime \in Nat
      /\ collections \in 0..MaxCollections /\ MaxCollections \in Nat /\ MaxTests \in Nat
      /\ Len(Tests) <= MaxTests
  BY TimesAssumption, TimelineBounds DEF BoundsInv, Times
<1>2. Tests \in Seq(TestType) /\ Len(Tests) \in Nat
  <2>1. CASE evidence = Null
    BY <2>1 DEF Tests
  <2>2. CASE evidence # Null
    BY <2>2, EvidenceFields DEF Tests, TestsInv
  <2>3. QED
    BY <2>1, <2>2
<1>3. evidence' = evidence => Tests' = Tests
  BY DEF Tests
<1>4. CASE Tick
  BY <1>1, <1>3, <1>4 DEF Tick, docs, BoundsInv, Times
<1>5. CASE BackupSucceeds
  BY <1>1, <1>3, <1>5 DEF BackupSucceeds, docs, BoundsInv, Times
<1>6. CASE Collect
  <2>1. evidence' = evidence
    BY <1>6 DEF Collect, Publish
  <2>2. collections < MaxCollections /\ collections' = collections + 1 /\ now' = now
    BY <1>6 DEF Collect
  <2>3. QED
    BY <1>1, <1>3, <2>1, <2>2 DEF BoundsInv, Times
<1>7. CASE ImportTest
  <2>1. PICK test \in TestRecords(Len(Tests) + 1) :
          /\ Happened(test)
          /\ Publish(unified, [source_id |-> << "import" >>, generated_at |-> now,
                               restore_tests |-> Append(Tests, test)])
    BY <1>7 DEF ImportTest
  <2>2. now' = now /\ collections' = collections /\ Len(Tests) < MaxTests
    BY <1>7 DEF ImportTest
  <2>3. test \in TestType
    <3>1. Len(Tests) + 1 \in Nat /\ now \in Nat
      BY <1>1, <1>2
    <3>2. QED
      BY <2>1, <3>1, NewTest
  <2>4. Len(Append(Tests, test)) = Len(Tests) + 1
    BY <1>2, <2>3, AppendProperties
  <2>5. evidence'.restore_tests = Append(Tests, test)
    BY <2>1 DEF Publish
  <2>6. Tests' \in {<< >>, Append(Tests, test)}
    BY <2>5 DEF Tests
  <2>7. Len(Tests') <= MaxTests
    BY <1>1, <1>2, <2>2, <2>4, <2>6
  <2>8. QED
    BY <1>1, <2>2, <2>7 DEF BoundsInv, Times
<1>8. CASE Slip
  <2>0. PICK i \in DOMAIN Tests : \E wrong \in Mistakes(Tests[i]) :
          Publish(unified, [evidence EXCEPT !.restore_tests[i] = wrong])
    BY <1>8 DEF Slip
  <2>1. PICK wrong \in Mistakes(Tests[i]) :
          Publish(unified, [evidence EXCEPT !.restore_tests[i] = wrong])
    BY <2>0
  <2>2. now' = now /\ collections' = collections
    BY <1>8 DEF Slip
  <2>3. evidence # Null /\ Tests = evidence.restore_tests
    BY <2>1 DEF Tests
  <2>4. evidence \in EvidenceType
    BY <2>3 DEF TestsInv
  <2>5. evidence'.restore_tests = [Tests EXCEPT ![i] = wrong]
    BY <2>1, <2>3, <2>4 DEF Publish, EvidenceType
  <2>6. Tests' \in {<< >>, [Tests EXCEPT ![i] = wrong]}
    BY <2>5 DEF Tests
  <2>7. wrong \in TestType
    BY <1>1, <1>2, <2>1, ElementOfSeq, MistakeTyped
  <2>8. Len([Tests EXCEPT ![i] = wrong]) = Len(Tests)
    BY <1>2, <2>1, <2>7, ExceptSeq
  <2>9. Len(Tests') <= MaxTests
    BY <1>1, <2>6, <2>8
  <2>10. QED
    BY <1>1, <2>2, <2>9 DEF BoundsInv, Times
<1>9. CASE UNCHANGED vars
  BY <1>1, <1>3, <1>9 DEF vars, docs, BoundsInv, Times
<1>10. QED
  BY <1>4, <1>5, <1>6, <1>7, <1>8, <1>9 DEF Next

LEMMA BoundsInvHolds == Spec => []BoundsInv
  BY InitBounds, NextBounds, TestsInvHolds, PTL DEF Spec

\* Every variable keeps its type, and in what the evaluation says of the
\* subject exactly a verdict that is not UNKNOWN comes with an observed age or
\* duration, with any number of mistakes in the evidence.
THEOREM TypesHold == Spec => []TypeOK
<1>1. BackupsInv /\ TestsInv /\ BoundsInv => TypeOK
  <2> SUFFICES ASSUME BackupsInv, TestsInv, BoundsInv PROVE TypeOK
    OBVIOUS
  <2> DEFINE rule == RuleOf(Subject)
  <2>1. ASSUME NEW t \in Times, judged[t] # Rejected
        PROVE  Decided(judged[t].rpo) /\ Decided(judged[t].rto)
    <3>1. judged[t] = IF Accepts(unified, evidence)
                        THEN [policy_id |-> rule.policy_id,
                              rpo |-> _evaluate_rpo(rule, unified, t),
                              rto |-> _evaluate_rto(rule, evidence, t)]
                        ELSE Rejected
      BY SubjectsVerdicts, Zenon DEF BackupsInv, Judged
    <3>2. Accepts(unified, evidence)
      BY <2>1, <3>1
    <3>3. rule.asset_id = Subject
      BY <3>2, SubjectsRule DEF Accepts
    <3> HIDE DEF rule
    <3>4. /\ judged[t].rpo = _evaluate_rpo(rule, unified, t)
          /\ judged[t].rto = _evaluate_rto(rule, evidence, t)
      BY <3>1, <3>2
    <3>5. reported \subseteq Nat /\ TellsOf(unified, reported) /\ t \in Int
      BY DEF BackupsInv, Times
    <3>6. Decided(_evaluate_rpo(rule, unified, t))
      BY <3>3, <3>5, RpoDecided
    <3>7. evidence # Null => /\ evidence \in EvidenceType
                             /\ validate_restore_test_evidence(evidence)
      BY <3>2 DEF Accepts, TestsInv
    <3>8. Decided(_evaluate_rto(rule, evidence, t))
      BY <3>7, RtoDecided
    <3>9. QED
      BY <3>4, <3>6, <3>8
  <2>2. \A t \in Times : judged[t] # Rejected =>
           \A v \in {judged[t].rpo, judged[t].rto} :
              /\ v.status \in {"PASS", "FAIL", "UNKNOWN"}
              /\ v.status = "UNKNOWN" <=> v.observed = Null
    BY <2>1 DEF Decided
  <2>3. QED
    BY <2>2 DEF TypeOK, BackupsInv, TestsInv, BoundsInv
<1>2. QED
  BY <1>1, BackupsInvHolds, TestsInvHolds, BoundsInvHolds, PTL
=============================================================================
