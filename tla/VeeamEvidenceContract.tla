------------------------ MODULE VeeamEvidenceContract ------------------------
(***************************************************************************)
(* veeam_evidence_contract: who made a veeam-evidence-report/v1 and of     *)
(* what classification it is therefore.  A report has a collector          *)
(* [name, mode], a data_classification and, when it comes from a server,   *)
(* completeness_findings, which are objects: their fields may be any, and  *)
(* hold anything.                                                          *)
(***************************************************************************)
EXTENDS JsonValues

VALID_COLLECTOR_MODES == {"mock_only", "api_read_only"}

\* The identity and classification that go with a mode.
expected_profile ==
    [mock_only |->
       [collector |-> [name |-> "mock_veeam_evidence_collector", mode |-> "mock_only"],
        data_classification |-> "MOCK_EXAMPLE_ONLY"],
     api_read_only |->
       [collector |-> [name |-> "veeam_enterprise_manager_read_only_collector",
                       mode |-> "api_read_only"],
        data_classification |-> "SANITIZED_OPERATIONAL_EVIDENCE"]]

\* What could not be mapped is unknown, for the reason that is given; it has a
\* type, and an identifier or none at all.
_validate_api_read_only_completeness_findings(report) ==
    \A finding \in report.completeness_findings :
        /\ DOMAIN finding = {"resource_type", "resource_id", "reason", "evidence"}
        /\ Text(finding.resource_type)
        /\ finding.resource_id = Null \/ Text(finding.resource_id)
        /\ Text(finding.reason)
        /\ DOMAIN finding.evidence = {"status", "reason", "message"}
        /\ finding.evidence.status = "UNKNOWN"
        /\ finding.evidence.reason = finding.reason
        /\ Text(finding.evidence.message)

\* The mode of an accepted report; "ValueError" otherwise.
validate_veeam_collector_profile(report) ==
    LET mode == report.collector.mode IN
    IF /\ mode \in VALID_COLLECTOR_MODES
       /\ report.collector = expected_profile[mode].collector
       /\ report.data_classification = expected_profile[mode].data_classification
       /\ mode = "api_read_only" => _validate_api_read_only_completeness_findings(report)
      THEN mode ELSE "ValueError"
=============================================================================
