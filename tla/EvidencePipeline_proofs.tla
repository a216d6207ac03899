----------------------- MODULE EvidencePipeline_proofs -----------------------
(***************************************************************************)
(* Proofs about EvidencePipeline for any source reports: what the adapters *)
(* put into a Unified report is still there after any composition.  They   *)
(* rest on the invariant of ReportComposition.                             *)
(***************************************************************************)
EXTENDS EvidencePipeline, ReportComposition_proofs

\* What the adapters return, unless they refuse.
LEMMA S3Adapted ==
    ASSUME NEW report, adapt_s3_report_to_unified(report) # Refused
    PROVE  LET doc == adapt_s3_report_to_unified(report)
           IN  /\ _validate_s3_report(report)
               /\ doc.overall = UNIFIED_OVERALL_STATUS_BY_S3_STATUS[report.overall]
               /\ doc.data_classification = "LOCAL_ADAPTER_OUTPUT"
               /\ AssetIds(doc) = {s3_asset_id(report)}
               /\ doc.findings = S3Findings(report, s3_asset_id(report), s3_source_id(report))
<1> DEFINE doc == adapt_s3_report_to_unified(report)
<1>1. _validate_s3_report(report)
  BY DEF adapt_s3_report_to_unified
<1>2. /\ doc.overall = UNIFIED_OVERALL_STATUS_BY_S3_STATUS[report.overall]
      /\ doc.data_classification = "LOCAL_ADAPTER_OUTPUT"
      /\ doc.assets = {S3Asset(report)}
      /\ doc.findings = S3Findings(report, s3_asset_id(report), s3_source_id(report))
  BY <1>1 DEF adapt_s3_report_to_unified, Adapted
<1>3. S3Asset(report).asset_id = s3_asset_id(report)
  BY DEF S3Asset
<1> HIDE DEF doc
<1>4. AssetIds(doc) = {s3_asset_id(report)}
  BY <1>2, <1>3 DEF AssetIds
<1>5. QED
  BY <1>1, <1>2, <1>4 DEF doc

LEMMA VeeamAdapted ==
    ASSUME NEW report, adapt_veeam_report_to_unified(report) # Refused
    PROVE  LET doc    == adapt_veeam_report_to_unified(report)
               source == veeam_source_id(report)
           IN  /\ _validate_veeam_report(report)
               /\ doc.overall = report.overall
               /\ doc.data_classification = "MOCK_EXAMPLE_ONLY"
               /\ doc.findings = VeeamFindings(report, source)
<1>1. _validate_veeam_report(report)
  BY DEF adapt_veeam_report_to_unified
<1>2. QED
  BY <1>1 DEF adapt_veeam_report_to_unified, Adapted

\* Two reports on one bucket have an asset in common, and so never meet.
THEOREM OneLookHolds == Spec => []OneLookAtABucket
<1>1. ASSUME IInv, NEW p \in Present, NEW a \in S3Behind(p), NEW b \in S3Behind(p),
             a.bucket = b.bucket
      PROVE  adapt_s3_report_to_unified(a) = adapt_s3_report_to_unified(b)
  <2> DEFINE c == adapt_s3_report_to_unified(a)
             d == adapt_s3_report_to_unified(b)
  <2>1. c \in origin[p] /\ d \in origin[p]
    BY <1>1 DEF S3Behind
  <2>2. c # Refused /\ d # Refused
    BY <1>1 DEF S3Behind
  <2>3. AssetIds(c) \cap AssetIds(d) # {}
    BY <1>1, <2>2, S3Adapted DEF s3_asset_id, S3Identity
  <2> HIDE DEF c, d
  <2>4. c = d
    BY <1>1, <2>1, <2>3 DEF IInv, Apart
  <2>5. QED
    BY <2>4 DEF c, d
<1>2. IInv => OneLookAtABucket
  BY <1>1 DEF OneLookAtABucket
<1>3. QED
  BY <1>2, IInvHolds, PTL

\* Mock evidence is recognisable in every composition, and evidence from a
\* server is in none.
THEOREM MockStaysApartHolds == Spec => []MockStaysApart
<1>1. ASSUME IInv, NEW p \in Present, NEW report \in VeeamBehind(p)
      PROVE  S3Behind(p) = {} /\ report.collector.mode = "mock_only"
  <2> DEFINE d == adapt_veeam_report_to_unified(report)
  <2>1. d \in origin[p]
    BY <1>1 DEF VeeamBehind
  <2>2. d # Refused
    BY <1>1 DEF VeeamBehind
  <2>3. d.data_classification = "MOCK_EXAMPLE_ONLY" /\ _validate_veeam_report(report)
    BY <2>2, VeeamAdapted
  <2>4. report.collector.mode = "mock_only"
    BY <2>3 DEF _validate_veeam_report, MockOnly, validate_veeam_collector_profile
  <2>5. ASSUME NEW other \in S3Behind(p) PROVE FALSE
    <3>1. adapt_s3_report_to_unified(other) \in origin[p] \ {Refused}
      BY DEF S3Behind
    <3>2. adapt_s3_report_to_unified(other).data_classification = "LOCAL_ADAPTER_OUTPUT"
      BY <3>1, S3Adapted
    <3>3. QED
      BY <1>1, <2>1, <2>3, <3>1, <3>2 DEF IInv, SameKind
  <2>6. QED
    BY <2>4, <2>5
<1>2. IInv => MockStaysApart
  BY <1>1 DEF MockStaysApart
<1>3. QED
  BY <1>2, IInvHolds, PTL

\* A report behind a file has its findings and its weight in it.
LEMMA BehindIsFelt ==
    ASSUME IInv, NEW p \in Present, NEW doc \in origin[p]
    PROVE  /\ doc.findings \subseteq files[p].findings
           /\ doc.overall \in {"INCOMPLETE", "AT_RISK"} => files[p].overall # "HEALTHY"
<1>1. SameContents(p) /\ StatusExplained(p) /\ FileSound(p)
  BY DEF IInv
<1>2. doc.findings \subseteq files[p].findings
  BY <1>1 DEF SameContents
<1>3. ASSUME doc.overall \in {"INCOMPLETE", "AT_RISK"} PROVE files[p].overall # "HEALTHY"
  BY <1>1, <1>3 DEF StatusExplained, STATUS_PRIORITY
<1>4. QED
  BY <1>2, <1>3

\* Whatever an adapter was given is found in everything made of it.
THEOREM ObservationsAreFound == Spec => []EverythingObservedIsFound
<1>1. ASSUME IInv, NEW p \in Present, NEW report \in S3Behind(p), NEW c \in DOMAIN report.checks,
             report.checks[c].status # "PASS"
      PROVE  /\ \E f \in files[p].findings :
                   /\ f.asset_id = << "aws-s3-bucket", report.bucket >>
                   /\ f.status = report.checks[c].status
                   /\ f.confirmed_vulnerability = (report.checks[c].status = "FAIL")
             /\ files[p].overall # "HEALTHY"
  <2> DEFINE doc    == adapt_s3_report_to_unified(report)
             asset  == s3_asset_id(report)
             source == s3_source_id(report)
  <2>1. doc \in origin[p] /\ doc # Refused
    BY <1>1 DEF S3Behind
  <2>2. /\ _validate_s3_report(report)
        /\ doc.overall = UNIFIED_OVERALL_STATUS_BY_S3_STATUS[report.overall]
        /\ doc.findings = S3Findings(report, asset, source)
    BY <2>1, S3Adapted
  <2> HIDE DEF doc
  <2>3. /\ report.checks[c].status \in CheckStatuses(report)
        /\ report.checks[c].status \in {"FAIL", "UNKNOWN"}
    BY <1>1, <2>2 DEF CheckStatuses, _validate_s3_report, EvidenceAccepted, VALID_EVIDENCE_STATUSES
  <2>4. doc.overall \in {"INCOMPLETE", "AT_RISK"}
    <3>1. report.overall \in {"INSECURE", "INCOMPLETE"}
      BY <2>2, <2>3 DEF _validate_s3_report
    <3>2. QED
      BY <2>2, <3>1 DEF UNIFIED_OVERALL_STATUS_BY_S3_STATUS
  <2>5. FindingOn(asset, c, c, report.checks[c], source) \in doc.findings
    BY <2>2, <2>3 DEF S3Findings
  <2>6. doc.findings \subseteq files[p].findings /\ files[p].overall # "HEALTHY"
    BY <1>1, <2>1, <2>4, BehindIsFelt
  <2>7. QED
    BY <2>5, <2>6 DEF FindingOn, s3_asset_id, S3Identity
<1>2. ASSUME IInv, NEW p \in Present, NEW report \in VeeamBehind(p), NEW r \in report.resources,
             r.status # "PASS"
      PROVE  /\ \E f \in files[p].findings :
                   /\ f.asset_id = veeam_asset_id(r)
                   /\ f.status = r.status
                   /\ f.confirmed_vulnerability = (r.status = "FAIL")
             /\ files[p].overall # "HEALTHY"
  <2> DEFINE doc    == adapt_veeam_report_to_unified(report)
             source == veeam_source_id(report)
  <2>1. doc \in origin[p] /\ doc # Refused
    BY <1>2 DEF VeeamBehind
  <2>2. /\ _validate_veeam_report(report) /\ doc.overall = report.overall
        /\ doc.findings = VeeamFindings(report, source)
    BY <2>1, VeeamAdapted
  <2> HIDE DEF doc
  <2>3. r.status \in {"FAIL", "UNKNOWN"}
    BY <1>2, <2>2 DEF _validate_veeam_report, _validate_resources, EvidenceAccepted,
                      VALID_EVIDENCE_STATUSES
  <2>4. doc.overall \in {"INCOMPLETE", "AT_RISK"}
    BY <2>2, <2>3 DEF _validate_veeam_report
  <2>5. FindingOn(veeam_asset_id(r), "evidence", "resource_evidence", r, source) \in doc.findings
    BY <2>2, <2>3 DEF VeeamFindings
  <2>6. doc.findings \subseteq files[p].findings /\ files[p].overall # "HEALTHY"
    BY <1>2, <2>1, <2>4, BehindIsFelt
  <2>7. QED
    BY <2>5, <2>6 DEF FindingOn
<1>3. IInv => EverythingObservedIsFound
  BY <1>1, <1>2 DEF EverythingObservedIsFound
<1>4. QED
  BY <1>3, IInvHolds, PTL

-----------------------------------------------------------------------------
LEMMA VeeamAssets ==
    ASSUME NEW report, adapt_veeam_report_to_unified(report) # Refused,
           NEW r \in report.resources
    PROVE  LET doc    == adapt_veeam_report_to_unified(report)
               source == veeam_source_id(report)
           IN  VeeamAsset(r, source) \in doc.assets /\ source \in SourceIds(doc)
<1> DEFINE doc    == adapt_veeam_report_to_unified(report)
           source == veeam_source_id(report)
<1>1. _validate_veeam_report(report)
  BY DEF adapt_veeam_report_to_unified
<1>2. /\ doc.assets = {VeeamAsset(q, source) : q \in report.resources}
      /\ doc.sources = {[source_id |-> source,
                          status |-> SOURCE_STATUS_BY_OVERALL_STATUS[report.overall],
                          collected_at |-> report.timestamp]}
  BY <1>1 DEF adapt_veeam_report_to_unified, Adapted, VeeamAsset
<1> HIDE DEF doc
<1>3. source \in SourceIds(doc)
  BY <1>2 DEF SourceIds
<1>4. QED
  BY <1>2, <1>3 DEF doc

\* The verdict on a job is what its own evidence says, in whatever composition
\* it is judged: composing brings no second asset, and keeps the source.
THEOREM VerdictIsAboutTheJob == Spec => []RpoIsAboutTheJob
<1>1. ASSUME IInv, NEW p \in Present, validate_unified_report(files[p]),
             NEW report \in VeeamBehind(p), NEW time \in Times, NEW minutes \in Objectives,
             NEW r \in report.resources, r.resource_type = "backup_job"
      PROVE  LET rule    == [policy_id |-> "policy", asset_id |-> veeam_asset_id(r),
                             rpo |-> minutes, rto |-> Missing]
                 verdict == _evaluate_rpo(rule, files[p], time).status
                 Known   == r.status = "PASS" /\ r.last <= time
             IN  /\ verdict = "PASS" <=> Known /\ time <= r.last + minutes * Minute
                 /\ verdict = "FAIL" <=> Known /\ time > r.last + minutes * Minute
  <2> DEFINE rule   == [policy_id |-> "policy", asset_id |-> veeam_asset_id(r),
                        rpo |-> minutes, rto |-> Missing]
             doc    == adapt_veeam_report_to_unified(report)
             source == veeam_source_id(report)
             asset  == VeeamAsset(r, source)
             candidate == [status |-> r.status, last |-> r.last, source_id |-> source,
                           requires_source_link |-> TRUE]
             verdict == _evaluate_rpo(rule, files[p], time).status
  <2>1. doc \in origin[p] /\ doc # Refused /\ report \in VeeamReports
    BY <1>1 DEF VeeamBehind
  <2>2. /\ source \notin {Missing, Null} /\ {Missing, Null, Malformed, NonUtc, OtherType} \cap Int = {}
        /\ [status |-> r.status, last |-> r.last, created_at |-> r.created_at] # Missing
        /\ r.last \in Int \cup {Missing, Null, Malformed, NonUtc, OtherType}
    BY <1>1, <2>1, MarkersAssumption
  <2>3. asset \in doc.assets /\ source \in SourceIds(doc)
    BY <1>1, <2>1, VeeamAssets
  <2>4. asset \in files[p].assets /\ source \in SourceIds(files[p])
    <3>1. doc.assets \subseteq files[p].assets /\ doc.sources \subseteq files[p].sources
      BY <1>1, <2>1 DEF IInv, SameContents
    <3> HIDE DEF doc, asset, source
    <3>2. QED
      BY <2>3, <3>1 DEF SourceIds
  <2>5. /\ asset.asset_id = veeam_asset_id(r) /\ asset.resource_type = "backup_job"
        /\ asset.evidence_source_id = source /\ asset.backup_job = Missing
        /\ asset.source_evidence =
              [status |-> r.status, last |-> r.last, created_at |-> r.created_at]
    BY <1>1 DEF VeeamAsset
  <2>6. rule.asset_id = veeam_asset_id(r) /\ rule.rpo = minutes
    OBVIOUS
  <2>7. r.last \in Int
    <3>1. r.last \notin {Missing, Null, OtherType}
      BY <1>1, <2>1 DEF adapt_veeam_report_to_unified, _validate_veeam_report, _validate_resources
    <3>2. TimestampAllowed(asset.source_evidence.last)
      <4> HIDE DEF asset
      <4>1. AssetAllowed(asset, files[p])
        BY <1>1, <2>4 DEF validate_unified_report
      <4>2. QED
        BY <2>2, <2>5, <4>1 DEF AssetAllowed
    <3>3. asset.source_evidence.last = r.last
      BY <2>5
    <3>4. QED
      BY <2>2, <3>1, <3>2, <3>3 DEF TimestampAllowed
  <2> HIDE DEF asset, rule
  <2>8. {a \in files[p].assets : a.asset_id = rule.asset_id} = {asset}
    <3>1. \A a \in files[p].assets : a.asset_id = asset.asset_id => a = asset
      BY <1>1, <2>4 DEF validate_unified_report, IdsUnique
    <3>2. QED
      BY <2>4, <2>5, <2>6, <3>1
  <2>9. _direct_backup_evidence(asset) = << candidate >>
    <3>1. asset.source_evidence.status = r.status /\ asset.source_evidence.last = r.last
      BY <2>5
    <3>2. _direct_backup_evidence(asset) = << >> \o << candidate >>
      BY <2>2, <2>5, <3>1 DEF _direct_backup_evidence
    <3> HIDE DEF candidate
    <3>3. << >> \o << candidate >> = << candidate >>
      OBVIOUS
    <3>4. QED
      BY <3>2, <3>3 DEF candidate
  <2>10. verdict = JudgeBackup(rule, candidate, SourceIds(files[p]), time).status
    <3> DEFINE matching == {a \in files[p].assets : a.asset_id = rule.asset_id}
               chosen == CHOOSE a \in matching : TRUE
    <3>1. matching # {} /\ chosen = asset
      BY <2>8
    <3> DEFINE evidence == _direct_backup_evidence(chosen)
    <3>2. _evaluate_rpo(rule, files[p], time) =
             IF matching = {}           THEN Unknown("MISSING_ASSET", {})
             ELSE IF Len(evidence) > 1  THEN Unknown("AMBIGUOUS_BACKUP_EVIDENCE", {})
             ELSE IF evidence = << >>   THEN Unknown("MISSING_BACKUP_EVIDENCE", {})
             ELSE JudgeBackup(rule, evidence[1], SourceIds(files[p]), time)
      BY Zenon DEF _evaluate_rpo
    <3> HIDE DEF candidate, chosen
    <3>3. /\ evidence = << candidate >>
          /\ Len(<< candidate >>) = 1 /\ << candidate >>[1] = candidate /\ << candidate >> # << >>
      BY <2>9, <3>1
    <3> HIDE DEF matching, evidence
    <3>4. _evaluate_rpo(rule, files[p], time) =
             JudgeBackup(rule, candidate, SourceIds(files[p]), time)
      BY <3>1, <3>2, <3>3
    <3>5. QED
      BY <3>4
  <2>11. /\ candidate.status = r.status /\ candidate.last = r.last /\ candidate.requires_source_link
         /\ candidate.source_id = source
    OBVIOUS
  <2>12. time \in Int /\ minutes * Minute \in Int
    BY TimesAssumption
  <2>13. r.status \in {"PASS", "FAIL", "UNKNOWN"}
    BY <1>1, <2>1 DEF adapt_veeam_report_to_unified, _validate_veeam_report, _validate_resources,
                      EvidenceAccepted, VALID_EVIDENCE_STATUSES
  <2> HIDE DEF candidate, source, verdict
  <2>14. _source_ids(candidate) = {source}
    BY <2>2, <2>11 DEF _source_ids
  <2>15. r.last \notin {Missing, Null, Malformed, NonUtc}
    BY <2>2, <2>7
  <2>16. verdict = IF r.status # "PASS" THEN "UNKNOWN"
                   ELSE IF r.last > time THEN "UNKNOWN"
                   ELSE IF time - r.last <= minutes * Minute THEN "PASS" ELSE "FAIL"
    BY <2>4, <2>6, <2>10, <2>11, <2>14, <2>15
       DEF JudgeBackup, Unknown, FutureBackup, Verdict, Within
  <2>17. /\ verdict = "PASS" <=> (r.status = "PASS" /\ r.last <= time)
                                   /\ time <= r.last + minutes * Minute
         /\ verdict = "FAIL" <=> (r.status = "PASS" /\ r.last <= time)
                                   /\ time > r.last + minutes * Minute
    BY <2>7, <2>12, <2>16
  <2>18. QED
    BY <2>17 DEF verdict, rule
<1>2. IInv => RpoIsAboutTheJob
  BY <1>1 DEF RpoIsAboutTheJob
<1>3. QED
  BY <1>2, IInvHolds, PTL

-----------------------------------------------------------------------------
\* A report of one source, with a single timestamp and no actions, each asset
\* and each finding with an identifier of its own, is sound if its time, its
\* assets and its findings are.
AssetsSound(doc) == \A a \in doc.assets : AssetAllowed(a, doc)

FindingsSound(doc) == \A f \in doc.findings : FindingAllowed(f, doc)

LEMMA OneSourceIsSound ==
    ASSUME NEW doc, NEW source, NEW status \in VALID_EVIDENCE_STATUSES,
           doc.sources = {[source_id |-> source, status |-> status,
                           collected_at |-> doc.timestamp]},
           doc.overall \in VALID_OVERALL_STATUSES, doc.actions = {}, doc.assets # {},
           \A a, b \in doc.assets : a.asset_id = b.asset_id => a = b,
           \A f, g \in doc.findings : f.finding_id = g.finding_id => f = g
    PROVE  /\ SourceIds(doc) = {source}
           /\ validate_unified_report(doc) <=>
                 IsUtc(doc.timestamp) /\ AssetsSound(doc) /\ FindingsSound(doc)
<1> DEFINE only == [source_id |-> source, status |-> status, collected_at |-> doc.timestamp]
<1>1. only.source_id = source /\ only.status = status /\ only.collected_at = doc.timestamp
  OBVIOUS
<1>2. doc.sources = {only}
  OBVIOUS
<1> HIDE DEF only
<1>3. SourceIds(doc) = {source}
  BY <1>1, <1>2 DEF SourceIds
<1>4. \A s \in doc.sources : SourceAllowed(s) <=> IsUtc(doc.timestamp)
  BY <1>1, <1>2 DEF SourceAllowed
<1>5. IdsUnique(doc)
  BY <1>2 DEF IdsUnique
<1>6. doc.sources # {}
  BY <1>2
<1>7. (\A s \in doc.sources : SourceAllowed(s)) <=> IsUtc(doc.timestamp)
  BY <1>2, <1>4
<1>8. \A action \in doc.actions : ReferencesResolve(action.references, doc)
  OBVIOUS
<1>9. QED
  BY <1>3, <1>5, <1>6, <1>7, <1>8 DEF validate_unified_report, AssetsSound, FindingsSound

\* What a finding of an adapter demands of the report it is in, and that it is
\* told by its own words.
LEMMA FindingOnIsAllowed ==
    ASSUME NEW doc, NEW asset \in AssetIds(doc), NEW name, NEW category, NEW evidence,
           NEW source \in SourceIds(doc),
           EvidenceAccepted(evidence), evidence.status \in {"FAIL", "UNKNOWN"}, Text(category)
    PROVE  FindingAllowed(FindingOn(asset, name, category, evidence, source), doc)
              <=> Tellable(category, evidence)
<1> DEFINE f == FindingOn(asset, name, category, evidence, source)
<1>1. /\ f.status = evidence.status /\ f.confirmed_vulnerability = (evidence.status = "FAIL")
      /\ f.asset_id = asset /\ f.source_id = source /\ f.nested = {}
      /\ f.category = category /\ f.reason = evidence.reason /\ f.message = evidence.message
  BY DEF FindingOn
<1> HIDE DEF f
<1>2. f.confirmed_vulnerability \in BOOLEAN /\ (f.confirmed_vulnerability => f.status = "FAIL")
  BY <1>1
<1>3. /\ f.status \in VALID_EVIDENCE_STATUSES
      /\ f.confirmed_vulnerability \in BOOLEAN
      /\ ~ (f.status = "UNKNOWN" /\ f.confirmed_vulnerability)
      /\ f.asset_id \in AssetIds(doc)
      /\ ReferenceAllowed(f.source_id, SourceIds(doc)) /\ NestedAllowed(f.nested, SourceIds(doc))
  BY <1>1, <1>2 DEF ReferenceAllowed, VALID_EVIDENCE_STATUSES, NestedAllowed
<1>4. HasText(f.category) <=> category # " "
  BY <1>1 DEF HasText, Text, Blanks
<1>5. HasText(f.message) <=> evidence.message # " "
  BY <1>1 DEF HasText, Text, Blanks, EvidenceAccepted
<1>6. (f.reason = Null \/ HasText(f.reason)) <=> evidence.reason \notin Blanks
  BY <1>1, MarkersAssumption DEF HasText, Text, Blanks, EvidenceAccepted
<1>7. Tellable(category, evidence) <=> category # " " /\ evidence.message # " "
                                         /\ evidence.reason \notin Blanks
  BY DEF Tellable
<1>8. FindingAllowed(f, doc) <=> Tellable(category, evidence)
  BY <1>3, <1>4, <1>5, <1>6, <1>7 DEF FindingAllowed
<1>9. QED
  BY <1>8 DEF f

\* The validator takes what the S3 adapter makes, or the report is in a gap.
LEMMA S3AdaptedIsSound ==
    ASSUME NEW report, adapt_s3_report_to_unified(report) # Refused
    PROVE  validate_unified_report(adapt_s3_report_to_unified(report)) <=> S3Acceptable(report)
<1> DEFINE doc    == adapt_s3_report_to_unified(report)
           source == s3_source_id(report)
           id     == s3_asset_id(report)
           asset  == S3Asset(report)
           status == SOURCE_STATUS_BY_S3_STATUS[report.overall]
           on(c)  == FindingOn(id, c, c, report.checks[c], source)
           open   == {c \in DOMAIN report.checks : report.checks[c].status \in {"FAIL", "UNKNOWN"}}
<1>1. _validate_s3_report(report)
  BY DEF adapt_s3_report_to_unified
<1>2. /\ doc.timestamp = report.timestamp
      /\ doc.overall = UNIFIED_OVERALL_STATUS_BY_S3_STATUS[report.overall]
      /\ doc.sources = {[source_id |-> source, status |-> status,
                         collected_at |-> doc.timestamp]}
      /\ doc.assets = {asset} /\ doc.actions = {}
      /\ doc.findings = {on(c) : c \in open}
  BY <1>1 DEF adapt_s3_report_to_unified, Adapted, S3Findings
<1>3. /\ asset.asset_id = id /\ asset.evidence_source_id = source
      /\ asset.backup_job = Missing /\ asset.source_evidence = Missing
      /\ asset.security_checks = [c \in DOMAIN report.checks |->
            [status |-> report.checks[c].status, source_id |-> source]]
      /\ asset.recommended_action = {} /\ asset.nested = {}
  BY DEF S3Asset
<1> HIDE DEF doc, source, asset, id
<1>4. \A c \in DOMAIN report.checks : Text(c) /\ EvidenceAccepted(report.checks[c])
  BY <1>1 DEF _validate_s3_report
<1>5. report.overall \in {"SECURE", "INSECURE", "INCOMPLETE"}
  BY <1>1 DEF _validate_s3_report
<1>6. status \in VALID_EVIDENCE_STATUSES /\ doc.overall \in VALID_OVERALL_STATUSES
  BY <1>2, <1>5 DEF SOURCE_STATUS_BY_S3_STATUS, UNIFIED_OVERALL_STATUS_BY_S3_STATUS,
                    VALID_EVIDENCE_STATUSES, VALID_OVERALL_STATUSES
<1> HIDE DEF status
<1>7. \A f, g \in doc.findings : f.finding_id = g.finding_id => f = g
  <2>1. \A c : on(c).finding_id = << id, c >>
    BY DEF FindingOn
  <2>2. \A c, d : << id, c >> = << id, d >> => c = d
    OBVIOUS
  <2> HIDE DEF on
  <2>3. QED
    BY <1>2, <2>1, <2>2
<1>8. /\ SourceIds(doc) = {source}
      /\ validate_unified_report(doc) <=>
            IsUtc(doc.timestamp) /\ AssetsSound(doc) /\ FindingsSound(doc)
  <2>1. doc.assets # {} /\ \A a, b \in doc.assets : a.asset_id = b.asset_id => a = b
    BY <1>2
  <2>2. QED
    BY <1>2, <1>6, <1>7, <2>1, OneSourceIsSound
<1>9. id \in AssetIds(doc)
  BY <1>2, <1>3 DEF AssetIds
<1>10. AssetsSound(doc) <=> \A c \in DOMAIN report.checks : c \notin ReservedNames
  <2>1. \A c \in DOMAIN report.checks : report.checks[c].status \in VALID_EVIDENCE_STATUSES
    BY <1>4 DEF EvidenceAccepted
  <2>2. /\ DOMAIN asset.security_checks = DOMAIN report.checks
        /\ \A c \in DOMAIN asset.security_checks :
              /\ asset.security_checks[c].status \in VALID_EVIDENCE_STATUSES
              /\ asset.security_checks[c].source_id = source
    BY <1>3, <2>1
  <2>3. AssetAllowed(asset, doc) <=> \A c \in DOMAIN report.checks : c \notin ReservedNames
    BY <1>3, <1>8, <2>2 DEF AssetAllowed, ReferenceAllowed, StatusAllowed, ReferencesResolve,
                            NestedAllowed
  <2>4. QED
    BY <1>2, <2>3 DEF AssetsSound
<1>11. FindingsSound(doc) <=> \A c \in DOMAIN report.checks : Tellable(c, report.checks[c])
  <2>1. ASSUME NEW c \in open
        PROVE  FindingAllowed(on(c), doc) <=> Tellable(c, report.checks[c])
    <3>1. Text(c)
      BY <1>4
    <3>2. QED
      BY <1>4, <1>8, <1>9, <3>1, FindingOnIsAllowed
  <2>2. FindingsSound(doc) <=> \A c \in open : FindingAllowed(on(c), doc)
    BY <1>2 DEF FindingsSound
  <2>3. \A c \in DOMAIN report.checks : c \notin open => Tellable(c, report.checks[c])
    BY <1>4 DEF Tellable, EvidenceAccepted, VALID_EVIDENCE_STATUSES
  <2> HIDE DEF on
  <2>4. QED
    BY <2>1, <2>2, <2>3
<1>12. validate_unified_report(doc) <=> S3Acceptable(report)
  BY <1>2, <1>8, <1>10, <1>11 DEF S3Acceptable
<1>13. QED
  BY <1>12 DEF doc

\* The same of the Veeam adapter.
LEMMA VeeamAdaptedIsSound ==
    ASSUME NEW report \in VeeamReports, adapt_veeam_report_to_unified(report) # Refused
    PROVE  validate_unified_report(adapt_veeam_report_to_unified(report)) <=> VeeamAcceptable(report)
<1> DEFINE doc    == adapt_veeam_report_to_unified(report)
           source == veeam_source_id(report)
           status == SOURCE_STATUS_BY_OVERALL_STATUS[report.overall]
           on(r)  == FindingOn(veeam_asset_id(r), "evidence", "resource_evidence", r, source)
           open   == {r \in report.resources : r.status \in {"FAIL", "UNKNOWN"}}
<1>1. _validate_veeam_report(report)
  BY DEF adapt_veeam_report_to_unified
<1>2. /\ doc.timestamp = report.timestamp /\ doc.overall = report.overall
      /\ doc.sources = {[source_id |-> source, status |-> status,
                         collected_at |-> doc.timestamp]}
      /\ doc.assets = {VeeamAsset(r, source) : r \in report.resources} /\ doc.actions = {}
      /\ doc.findings = {on(r) : r \in open}
  BY <1>1 DEF adapt_veeam_report_to_unified, Adapted, VeeamFindings
<1> HIDE DEF doc, source
<1>3. /\ report.resources # {}
      /\ \A r \in report.resources : EvidenceAccepted(r)
      /\ \A r, q \in report.resources : r.id = q.id => r = q
      /\ report.overall \in {"AT_RISK", "INCOMPLETE", "HEALTHY"}
  BY <1>1 DEF _validate_veeam_report, _validate_resources
<1>4. status \in VALID_EVIDENCE_STATUSES /\ doc.overall \in VALID_OVERALL_STATUSES
  BY <1>2, <1>3 DEF SOURCE_STATUS_BY_OVERALL_STATUS, VALID_EVIDENCE_STATUSES,
                    VALID_OVERALL_STATUSES
<1> HIDE DEF status
<1>5. \A r, q \in report.resources : veeam_asset_id(r) = veeam_asset_id(q) => r = q
  BY <1>3 DEF veeam_asset_id
<1>6. \A r : VeeamAsset(r, source).asset_id = veeam_asset_id(r)
  BY DEF VeeamAsset
<1>7. \A a, b \in doc.assets : a.asset_id = b.asset_id => a = b
  BY <1>2, <1>5, <1>6
<1>8. \A f, g \in doc.findings : f.finding_id = g.finding_id => f = g
  <2>1. \A r : on(r).finding_id = << veeam_asset_id(r), "evidence" >>
    BY DEF FindingOn
  <2> HIDE DEF on
  <2>2. \A r, q \in report.resources : on(r).finding_id = on(q).finding_id => r = q
    BY <1>5, <2>1
  <2>3. QED
    BY <1>2, <2>2
<1>9. doc.assets # {}
  BY <1>2, <1>3
<1>10. /\ SourceIds(doc) = {source}
       /\ validate_unified_report(doc) <=>
             IsUtc(doc.timestamp) /\ AssetsSound(doc) /\ FindingsSound(doc)
  BY <1>2, <1>4, <1>7, <1>8, <1>9, OneSourceIsSound
<1>11. ASSUME NEW r \in report.resources
       PROVE  AssetAllowed(VeeamAsset(r, source), doc) <=>
                 /\ TimestampAllowed(r.last) /\ TimestampAllowed(r.created_at)
                 /\ NestedAllowed(r.nested, {source})
  <2> DEFINE asset == VeeamAsset(r, source)
  <2>1. /\ asset.evidence_source_id = source
        /\ asset.backup_job = Missing /\ asset.security_checks = << >>
        /\ asset.source_evidence =
              [status |-> r.status, last |-> r.last, created_at |-> r.created_at]
        /\ asset.recommended_action = {} /\ asset.nested = r.nested
    BY DEF VeeamAsset
  <2> HIDE DEF asset
  <2>2. /\ DOMAIN asset.security_checks = {}
        /\ asset.source_evidence.status = r.status /\ asset.source_evidence.last = r.last
        /\ asset.source_evidence.created_at = r.created_at
    BY <2>1
  <2>3. r.status \in VALID_EVIDENCE_STATUSES
    BY <1>3 DEF EvidenceAccepted
  <2>4. asset.source_evidence # Missing
    BY <2>1, MarkersAssumption
  <2>5. QED
    BY <1>10, <2>1, <2>2, <2>3, <2>4
       DEF AssetAllowed, ReferenceAllowed, StatusAllowed, ReferencesResolve, asset
<1>12. AssetsSound(doc) <=> \A r \in report.resources :
           /\ TimestampAllowed(r.last) /\ TimestampAllowed(r.created_at)
           /\ NestedAllowed(r.nested, {source})
  BY <1>2, <1>11 DEF AssetsSound
<1>13. FindingsSound(doc) <=> \A r \in report.resources : Tellable("evidence", r)
  <2>1. ASSUME NEW r \in open PROVE FindingAllowed(on(r), doc) <=> Tellable("evidence", r)
    <3>1. veeam_asset_id(r) \in AssetIds(doc)
      BY <1>2, <1>6 DEF AssetIds
    <3>2. Text("resource_evidence")
      BY MarkersAssumption
    <3>3. FindingAllowed(on(r), doc) <=> Tellable("resource_evidence", r)
      BY <1>3, <1>10, <3>1, <3>2, FindingOnIsAllowed
    <3>4. QED
      BY <3>3 DEF Tellable
  <2>2. FindingsSound(doc) <=> \A r \in open : FindingAllowed(on(r), doc)
    BY <1>2 DEF FindingsSound
  <2>3. \A r \in report.resources : r \notin open => Tellable("evidence", r)
    BY <1>3 DEF Tellable, EvidenceAccepted, VALID_EVIDENCE_STATUSES
  <2> HIDE DEF on
  <2>4. QED
    BY <2>1, <2>2, <2>3
<1>14. validate_unified_report(doc) <=> VeeamAcceptable(report)
  BY <1>2, <1>10, <1>12, <1>13 DEF VeeamAcceptable, source
<1>15. QED
  BY <1>14 DEF doc

\* A file that the validator refuses is what its author wrote.
RefusedIsOwn ==
    \A p \in Present : validate_unified_report(files[p]) \/ origin[p] = {files[p]}

LEMMA RefusedIsOwnHolds == Spec => []RefusedIsOwn
<1>1. Init => RefusedIsOwn
  BY DEF Init, RefusedIsOwn, Present
<1>2. IInv /\ RefusedIsOwn /\ [Next]_vars => RefusedIsOwn'
  <2> SUFFICES ASSUME IInv, RefusedIsOwn, [Next]_vars PROVE RefusedIsOwn'
    OBVIOUS
  <2>1. DOMAIN files = Paths /\ DOMAIN origin = Paths
    BY DEF IInv, TypeOK
  <2>2. ASSUME NEW p \in Paths, NEW doc, NEW from,
               files' = [files EXCEPT ![p] = doc], origin' = [origin EXCEPT ![p] = from],
               validate_unified_report(doc) \/ from = {doc}
        PROVE  RefusedIsOwn'
    BY <2>1, <2>2 DEF RefusedIsOwn, Present
  <2>3. ASSUME NEW p \in Paths, NEW doc \in Authored, Author(p, doc) PROVE RefusedIsOwn'
    BY <2>2, <2>3 DEF Author
  <2>4. ASSUME NEW output \in Paths, NEW inputs \in CommandLines, Compose(inputs, output)
        PROVE  RefusedIsOwn'
    <3> DEFINE doc == compose_unified_reports(Documents(inputs), inputs)
    <3>1. validate_unified_report(doc)
      BY <2>4 DEF Compose, compose_unified_reports
    <3>2. /\ files' = [files EXCEPT ![output] = doc]
          /\ origin' = [origin EXCEPT ![output] = UNION {origin[inputs[i]] : i \in DOMAIN inputs}]
      BY <2>4 DEF Compose
    <3> HIDE DEF doc
    <3>3. QED
      BY <2>2, <3>1, <3>2
  <2>5. CASE UNCHANGED vars
    BY <2>5 DEF vars, RefusedIsOwn, Present
  <2>6. QED
    BY <2>3, <2>4, <2>5 DEF Next
<1>3. QED
  BY <1>1, <1>2, IInvHolds, PTL DEF Spec

\* What an adapter makes is refused exactly in the gaps, and stays out of
\* every composition if it is.
THEOREM RefusalsAreExplainedHolds == Spec => []RefusalsAreExplained
<1>1. ASSUME IInv, RefusedIsOwn, NEW p \in Present, NEW doc \in origin[p]
      PROVE  validate_unified_report(files[p]) <=> validate_unified_report(doc)
  BY <1>1 DEF IInv, FileSound, RefusedIsOwn
<1>2. ASSUME IInv, RefusedIsOwn, NEW p \in Present, NEW report \in S3Behind(p)
      PROVE  validate_unified_report(files[p]) <=> S3Acceptable(report)
  BY <1>1, <1>2, S3AdaptedIsSound DEF S3Behind
<1>3. ASSUME IInv, RefusedIsOwn, NEW p \in Present, NEW report \in VeeamBehind(p)
      PROVE  validate_unified_report(files[p]) <=> VeeamAcceptable(report)
  BY <1>1, <1>3, VeeamAdaptedIsSound DEF VeeamBehind
<1>4. IInv /\ RefusedIsOwn => RefusalsAreExplained
  BY <1>2, <1>3 DEF RefusalsAreExplained
<1>5. QED
  BY <1>4, IInvHolds, RefusedIsOwnHolds, PTL
=============================================================================
