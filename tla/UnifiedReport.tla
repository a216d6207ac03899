---------------------------- MODULE UnifiedReport ----------------------------
(***************************************************************************)
(* A Unified Resilience Report and what validate_unified_report demands of *)
(* it: a report that misses one demand anywhere is refused as a whole.     *)
(*                                                                         *)
(* A report is a record of                                                 *)
(*   timestamp, platform, data_classification, overall,                    *)
(*   sources  : [source_id, status, collected_at]                          *)
(*   assets   : [asset_id, resource_type, evidence_source_id, backup_job,  *)
(*               source_evidence, security_checks, recommended_action,     *)
(*               nested]                                                   *)
(*   findings : [finding_id, asset_id, category, status, reason, message,  *)
(*               confirmed_vulnerability, source_id, nested]               *)
(*   actions  : [action_id, references]                                    *)
(*   provenance : what the composer records of its inputs, or Missing      *)
(* backup_job is Missing or [status, last, source_id]; source_evidence is  *)
(* Missing or [status, last, created_at], the times being those of its     *)
(* details; last is a last_successful_backup.  security_checks maps names  *)
(* to [status, source_id].  References, of an action or a recommended      *)
(* action, are pairs of a kind and an identifier; an empty reference list  *)
(* counts as a reference to Null.  nested is what the validator finds in   *)
(* the other fields, at any depth: pairs of "time" or "source" and what    *)
(* the timestamp or the source reference holds.                            *)
(*                                                                         *)
(* The four collections are sets: nothing depends on the order of the      *)
(* lists, and two entries with one identifier stand for any duplicates.    *)
(* Fields are taken to be there and of the right type where a marker of    *)
(* JsonValues does not say otherwise; timestamps in further fields of      *)
(* sources, of actions and of the report itself are left out.              *)
(***************************************************************************)
EXTENDS JsonValues, Integers

VALID_EVIDENCE_STATUSES == {"PASS", "FAIL", "UNKNOWN"}
VALID_OVERALL_STATUSES  == {"HEALTHY", "INCOMPLETE", "AT_RISK", "CRITICAL"}

\* A text of blanks only says nothing, to strip.
Blanks == {"", " "}

\* _require_non_empty_string
HasText(value) == Text(value) /\ value \notin Blanks

\* _parse_utc_timestamp, where a timestamp is required.
IsUtc(timestamp) == timestamp \notin {Missing, Null, Malformed, NonUtc, OtherType}

\* _validate_embedded_contract: a timestamp field may be null.
TimestampAllowed(timestamp) == timestamp \notin {Malformed, NonUtc, OtherType}

\* Keys under which the validator expects a timestamp or source references
\* wherever they occur, so that no check can bear such a name.  "created_at"
\* stands for every other key that ends in _at.
TIMESTAMP_FIELD_NAMES  == {"timestamp", "last_successful_backup", "created_at"}
SOURCE_REFERENCE_FIELDS == {"source_id", "evidence_source_id"}
SOURCE_REFERENCE_LIST_FIELDS == {"evidence_source_ids", "source_ids", "source_evidence_ids"}
ReservedNames ==
    TIMESTAMP_FIELD_NAMES \cup SOURCE_REFERENCE_FIELDS \cup SOURCE_REFERENCE_LIST_FIELDS

\* _validate_allowed_status, applied to every known evidence object.
StatusAllowed(status) == status = Missing \/ status \in VALID_EVIDENCE_STATUSES

SourceIds(report)  == {source.source_id : source \in report.sources}
AssetIds(report)   == {asset.asset_id : asset \in report.assets}
FindingIds(report) == {finding.finding_id : finding \in report.findings}
ActionIds(report)  == {action.action_id : action \in report.actions} \ {Missing}

\* _validate_nested_source_references: a source reference that is there must
\* name a source of the report; null names none.
ReferenceAllowed(reference, ids) == reference = Missing \/ reference \in ids

\* The same and _validate_embedded_contract for the fields that have no place
\* of their own here.
NestedAllowed(nested, ids) ==
    \A field \in nested : \/ field[1] = "time"   /\ TimestampAllowed(field[2])
                          \/ field[1] = "source" /\ field[2] \in ids

\* _validate_nested_action_references: every reference, at any depth.
ReferencesResolve(references, report) ==
    \A r \in references : \/ r[1] = "source"  /\ r[2] \in SourceIds(report)
                          \/ r[1] = "asset"   /\ r[2] \in AssetIds(report)
                          \/ r[1] = "finding" /\ r[2] \in FindingIds(report)

SourceAllowed(source) ==
    source.status \in VALID_EVIDENCE_STATUSES /\ IsUtc(source.collected_at)

AssetAllowed(asset, report) ==
    /\ ReferenceAllowed(asset.evidence_source_id, SourceIds(report))
    /\ asset.backup_job # Missing =>
          /\ StatusAllowed(asset.backup_job.status)
          /\ TimestampAllowed(asset.backup_job.last)
          /\ ReferenceAllowed(asset.backup_job.source_id, SourceIds(report))
    /\ asset.source_evidence # Missing =>
          /\ StatusAllowed(asset.source_evidence.status)
          /\ TimestampAllowed(asset.source_evidence.last)
          /\ TimestampAllowed(asset.source_evidence.created_at)
    /\ \A check \in DOMAIN asset.security_checks :
          /\ check \notin ReservedNames
          /\ StatusAllowed(asset.security_checks[check].status)
          /\ ReferenceAllowed(asset.security_checks[check].source_id, SourceIds(report))
    /\ ReferencesResolve(asset.recommended_action, report)
    /\ NestedAllowed(asset.nested, SourceIds(report))

\* Missing evidence may not be presented as a confirmed vulnerability.
FindingAllowed(finding, report) ==
    /\ HasText(finding.category) /\ HasText(finding.message)
    /\ finding.reason = Null \/ HasText(finding.reason)
    /\ finding.status \in VALID_EVIDENCE_STATUSES
    /\ finding.confirmed_vulnerability \in BOOLEAN
    /\ ~ (finding.status = "UNKNOWN" /\ finding.confirmed_vulnerability)
    /\ finding.asset_id \in AssetIds(report)
    /\ ReferenceAllowed(finding.source_id, SourceIds(report))
    /\ NestedAllowed(finding.nested, SourceIds(report))

\* _validate_unique_ids; only actions may go without an identifier.
IdsUnique(report) ==
    /\ \A s, t \in report.sources  : s.source_id = t.source_id => s = t
    /\ \A a, b \in report.assets   : a.asset_id = b.asset_id => a = b
    /\ \A f, g \in report.findings : f.finding_id = g.finding_id => f = g
    /\ \A a, b \in report.actions  : a.action_id = b.action_id /\ a.action_id # Missing => a = b

\* TRUE when validate_unified_report returns, FALSE when it raises ValueError.
validate_unified_report(report) ==
    /\ IsUtc(report.timestamp)
    /\ report.overall \in VALID_OVERALL_STATUSES
    /\ report.sources # {} /\ report.assets # {}
    /\ \A source \in report.sources : SourceAllowed(source)
    /\ \A asset \in report.assets : AssetAllowed(asset, report)
    /\ \A finding \in report.findings : FindingAllowed(finding, report)
    /\ \A action \in report.actions : ReferencesResolve(action.references, report)
    /\ IdsUnique(report)
=============================================================================
