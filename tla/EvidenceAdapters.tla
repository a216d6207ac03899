-------------------------- MODULE EvidenceAdapters --------------------------
(***************************************************************************)
(* The two adapters, from an S3 security report and from a Veeam evidence  *)
(* report to a Unified report, or Refused.                                 *)
(*                                                                         *)
(* An S3 report is [timestamp, bucket, checks, overall], checks being a    *)
(* function from names to [status, reason, message].  A Veeam report is    *)
(* what the contract (VeeamEvidenceContract) looks at and [timestamp,      *)
(* overall, resources], the latter a set of [resource_type, id, status,    *)
(* reason, message, last, created_at, nested] from all four collections;   *)
(* id stands for all the names a resource must have, and nested for its    *)
(* further fields (UnifiedReport).                                         *)
(*                                                                         *)
(* Where a time is looked for, OtherType is anything but a string, or an   *)
(* empty one.  Neither adapter looks inside a time, nor minds a text of    *)
(* blanks.                                                                 *)
(***************************************************************************)
EXTENDS UnifiedComposer, VeeamEvidenceContract

PLATFORM_NAME == "autonomous-cyber-resilience-platform"

\* Mutant: whatever has not passed is a vulnerability.
UnlessPassed(asset, name, category, evidence, source) ==
    [finding_id |-> << asset, name >>, asset_id |-> asset, category |-> category,
     status |-> evidence.status, reason |-> evidence.reason, message |-> evidence.message,
     confirmed_vulnerability |-> evidence.status # "PASS", source_id |-> source, nested |-> {}]

\* The result of one check or the evidence on one resource, as a finding.
FindingOn(asset, name, category, evidence, source) ==
    [finding_id |-> << asset, name >>, asset_id |-> asset, category |-> category,
     status |-> evidence.status, reason |-> evidence.reason, message |-> evidence.message,
     confirmed_vulnerability |-> evidence.status = "FAIL", source_id |-> source, nested |-> {}]

\* _validate_check and _validate_evidence, which are alike; evidence with a
\* field too many is refused like evidence with one too few.
EvidenceAccepted(evidence) ==
    /\ evidence.status \in VALID_EVIDENCE_STATUSES
    /\ evidence.reason \notin {Missing, OtherType}
    /\ Text(evidence.message)

Adapted(report, classification, overall, source_id, source_status, asset_set, finding_set) ==
    [timestamp |-> report.timestamp, platform |-> PLATFORM_NAME,
     data_classification |-> classification, overall |-> overall,
     sources |-> {[source_id |-> source_id, status |-> source_status,
                   collected_at |-> report.timestamp]},
     assets |-> asset_set, findings |-> finding_set, actions |-> {}, provenance |-> Missing]

-----------------------------------------------------------------------------
UNIFIED_OVERALL_STATUS_BY_S3_STATUS ==
    [SECURE |-> "HEALTHY", INSECURE |-> "AT_RISK", INCOMPLETE |-> "INCOMPLETE"]
SOURCE_STATUS_BY_S3_STATUS == [SECURE |-> "PASS", INSECURE |-> "FAIL", INCOMPLETE |-> "UNKNOWN"]

CheckStatuses(report) == {report.checks[c].status : c \in DOMAIN report.checks}

_validate_s3_report(report) ==
    /\ Text(report.bucket) /\ report.timestamp \notin {Missing, Null, OtherType}
    /\ report.checks # << >>
    /\ \A c \in DOMAIN report.checks : Text(c) /\ EvidenceAccepted(report.checks[c])
    /\ report.overall = IF "FAIL" \in CheckStatuses(report) THEN "INSECURE"
                        ELSE IF "UNKNOWN" \in CheckStatuses(report) THEN "INCOMPLETE"
                        ELSE "SECURE"

\* Mutant: only confirmed failures become findings.
S3FailuresOnly(report, asset, source) ==
    {FindingOn(asset, c, c, report.checks[c], source)
       : c \in {d \in DOMAIN report.checks : report.checks[d].status = "FAIL"}}

\* A check's name is its finding's category.
S3Findings(report, asset, source) ==
    {FindingOn(asset, c, c, report.checks[c], source)
       : c \in {d \in DOMAIN report.checks : report.checks[d].status \in {"FAIL", "UNKNOWN"}}}

\* Mutant: every report has identifiers of its own.
S3ReportIdentity(report) == << report.bucket, report.timestamp >>

\* What the identifiers of source and asset are made of.
S3Identity(report) == report.bucket

s3_source_id(report) == << "aws-s3-validator", S3Identity(report) >>
s3_asset_id(report)  == << "aws-s3-bucket", S3Identity(report) >>

S3Asset(report) ==
    [asset_id |-> s3_asset_id(report), resource_type |-> "s3_bucket",
     evidence_source_id |-> s3_source_id(report),
     backup_job |-> Missing, source_evidence |-> Missing,
     security_checks |-> [c \in DOMAIN report.checks |->
         [status |-> report.checks[c].status, source_id |-> s3_source_id(report)]],
     recommended_action |-> {}, nested |-> {}]

adapt_s3_report_to_unified(report) ==
    IF ~ _validate_s3_report(report) THEN Refused
    ELSE Adapted(report, "LOCAL_ADAPTER_OUTPUT",
           UNIFIED_OVERALL_STATUS_BY_S3_STATUS[report.overall],
           s3_source_id(report), SOURCE_STATUS_BY_S3_STATUS[report.overall],
           {S3Asset(report)}, S3Findings(report, s3_asset_id(report), s3_source_id(report)))

-----------------------------------------------------------------------------
SOURCE_STATUS_BY_OVERALL_STATUS ==
    [HEALTHY |-> "PASS", AT_RISK |-> "FAIL", INCOMPLETE |-> "UNKNOWN"]

\* Identifiers are unique across all four kinds of resource; the last success
\* of a job and the creation of a restore point must be given.
_validate_resources(report) ==
    /\ report.resources # {}
    /\ \A r \in report.resources :
          /\ Text(r.id)
          /\ r.resource_type = "backup_job" => r.last \notin {Missing, Null, OtherType}
          /\ r.resource_type = "restore_point" => r.created_at \notin {Missing, Null, OtherType}
          /\ EvidenceAccepted(r)
    /\ \A r, q \in report.resources : r.id = q.id => r = q

\* Mutant: the profile decides whether the report is valid, not whether it is
\* taken.
ProfileAccepted(report) == validate_veeam_collector_profile(report) # "ValueError"

MockOnly(report) == validate_veeam_collector_profile(report) = "mock_only"

_validate_veeam_report(report) ==
    LET statuses == {r.status : r \in report.resources} IN
    /\ report.timestamp \notin {Missing, Null, OtherType}
    /\ MockOnly(report)
    /\ _validate_resources(report)
    /\ report.overall = IF "FAIL" \in statuses THEN "AT_RISK"
                        ELSE IF "UNKNOWN" \in statuses THEN "INCOMPLETE" ELSE "HEALTHY"

veeam_asset_id(r) == << "veeam", r.resource_type, r.id >>

veeam_source_id(report) == << "mock-veeam-evidence", report.timestamp >>

\* _resource_details copies whatever a resource says besides its evidence.
VeeamAsset(r, source) ==
    [asset_id |-> veeam_asset_id(r), resource_type |-> r.resource_type,
     evidence_source_id |-> source, backup_job |-> Missing,
     source_evidence |-> [status |-> r.status, last |-> r.last, created_at |-> r.created_at],
     security_checks |-> << >>, recommended_action |-> {}, nested |-> r.nested]

\* The category is <resource_type>_evidence, never blank.
VeeamFindings(report, source) ==
    {FindingOn(veeam_asset_id(r), "evidence", "resource_evidence", r, source)
       : r \in {q \in report.resources : q.status \in {"FAIL", "UNKNOWN"}}}

adapt_veeam_report_to_unified(report) ==
    LET source == veeam_source_id(report) IN
    IF ~ _validate_veeam_report(report) THEN Refused
    ELSE Adapted(report, "MOCK_EXAMPLE_ONLY", report.overall,
           source, SOURCE_STATUS_BY_OVERALL_STATUS[report.overall],
           {VeeamAsset(r, source) : r \in report.resources}, VeeamFindings(report, source))
=============================================================================
