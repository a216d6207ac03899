--------------------------- MODULE UnifiedComposer ---------------------------
(***************************************************************************)
(* unified_report_composer.compose_unified_reports: one Unified report out *)
(* of a list of them.  The reports are a sequence, as the arguments of the *)
(* command are; the merged collections are sorted by the code and are sets *)
(* here (UnifiedReport).                                                   *)
(*                                                                         *)
(* The timestamp of a report, if it is one, is [at, text]: the instant and *)
(* the rank of its spelling, as one instant may be written with Z or with  *)
(* +00:00 and with more or fewer digits.                                   *)
(***************************************************************************)
EXTENDS UnifiedReport, Sequences

CONSTANT Refused    \* what there is instead of a report after a ValueError

STATUS_PRIORITY == [HEALTHY |-> 0, INCOMPLETE |-> 1, AT_RISK |-> 2, CRITICAL |-> 3]

\* Mutant: only a confirmed vulnerability puts at risk.
ConfirmedOnlyStatus(finding) ==
    IF finding.confirmed_vulnerability THEN "AT_RISK"
    ELSE IF finding.status = "UNKNOWN" THEN "INCOMPLETE" ELSE "HEALTHY"

_finding_status(finding) ==
    IF finding.status = "FAIL" \/ finding.confirmed_vulnerability THEN "AT_RISK"
    ELSE IF finding.status = "UNKNOWN" THEN "INCOMPLETE" ELSE "HEALTHY"

\* max by priority.
WorstOf(statuses) ==
    CHOOSE s \in statuses : \A t \in statuses : STATUS_PRIORITY[t] <= STATUS_PRIORITY[s]

All(docs, Field(_)) == UNION {Field(docs[i]) : i \in DOMAIN docs}

sources(doc)  == doc.sources
assets(doc)   == doc.assets
findings(doc) == doc.findings

\* Mutant: an action without an identifier is dropped.
IdentifiedActions(doc) == {action \in doc.actions : action.action_id # Missing}

actions(doc)  == doc.actions

\* Every input's own status, and what each finding amounts to.
Statuses(docs) ==
    {docs[i].overall : i \in DOMAIN docs}
    \cup {_finding_status(finding) : finding \in All(docs, findings)}

\* Mutant: the spelling does not matter.
LaterInstant(s, t) == s.at > t.at

Later(s, t) == s.at > t.at \/ (s.at = t.at /\ s.text > t.text)

\* Mutant: the first of the inputs counts.
FirstGiven(docs) == 1

\* max returns the first of the inputs with the latest timestamp.
Latest(docs) ==
    CHOOSE i \in DOMAIN docs : \A j \in DOMAIN docs :
        /\ ~ Later(docs[j].timestamp, docs[i].timestamp)
        /\ j < i => Later(docs[i].timestamp, docs[j].timestamp)

\* _reject_duplicates on the identifiers of one collection; within a report
\* they are unique already.
NoDuplicates(docs, Ids(_)) ==
    \A i, j \in DOMAIN docs : i # j => Ids(docs[i]) \cap Ids(docs[j]) = {}

\* Mutant: source identifiers may recur.
DisjointButSources(docs) ==
    /\ NoDuplicates(docs, AssetIds)
    /\ NoDuplicates(docs, FindingIds) /\ NoDuplicates(docs, ActionIds)

Disjoint(docs) ==
    /\ NoDuplicates(docs, SourceIds)  /\ NoDuplicates(docs, AssetIds)
    /\ NoDuplicates(docs, FindingIds) /\ NoDuplicates(docs, ActionIds)

SameProfile(docs) ==
    \A i, j \in DOMAIN docs : /\ docs[i].platform = docs[j].platform
                              /\ docs[i].data_classification = docs[j].data_classification

\* Mutant: of the inputs only the times are validated.
ComposableUnseen(docs, identifiers) ==
    /\ Len(docs) >= 2
    /\ \A i \in DOMAIN docs : IsUtc(docs[i].timestamp)
    /\ \A i, j \in DOMAIN docs : i # j => identifiers[i] # identifiers[j]
    /\ SameProfile(docs) /\ Disjoint(docs)

\* What is demanded of the inputs.  The code validates each of them first; the
\* order is of no consequence, as every refusal is the same ValueError.
Composable(docs, identifiers) ==
    /\ Len(docs) >= 2
    /\ \A i, j \in DOMAIN docs : i # j => identifiers[i] # identifiers[j]
    /\ SameProfile(docs)
    /\ Disjoint(docs)
    /\ \A i \in DOMAIN docs : validate_unified_report(docs[i])

ProvenanceOf(doc, identifier) ==
    [input_identifier |-> identifier, timestamp |-> doc.timestamp,
     evidence_source_ids |-> SourceIds(doc), overall |-> doc.overall]

\* composed_report.
Merged(docs, identifiers) ==
    [timestamp |-> docs[Latest(docs)].timestamp,
     platform |-> docs[1].platform, data_classification |-> docs[1].data_classification,
     overall |-> WorstOf(Statuses(docs)),
     sources |-> All(docs, sources), assets |-> All(docs, assets),
     findings |-> All(docs, findings), actions |-> All(docs, actions),
     provenance |-> {ProvenanceOf(docs[i], identifiers[i]) : i \in DOMAIN docs}]

\* The output is validated like the inputs.
compose_unified_reports(docs, identifiers) ==
    IF Composable(docs, identifiers) /\ validate_unified_report(Merged(docs, identifiers))
      THEN Merged(docs, identifiers) ELSE Refused
=============================================================================
