# TLA+ models of the cyber resilience platform

This directory models the Python tools of `src/src/tools`: TLA+ modules, TLC
configurations that check them on small instances, and TLAPS proofs of every
property that the passing runs check, except the one about liveness. `PROJECT.json` maps every
definition to the source lines it stands for.

Run from this directory:

    tlasany M.tla                               # parse
    tlc -workers 2 -config MCx.cfg MCx.tla      # model-check
    tlapm X_proofs.tla                          # check the proofs about X

## 1. The system

The platform is a pipeline of local commands and library functions that pass
JSON documents to one another, by hand or in a workflow. There is no server and
no lock: what the parts share is the file system, and each of them reads things
that keep changing.

    AWS bucket --> S3 validator --> s3 report --> S3 adapter ----\
                                                                  > Unified
    Veeam server --> collector --> evidence --> Veeam adapter ---/  reports
                                                                       |
                                       composer  <---------------------+
                                          |
    policy, restore-test evidence --> RPO/RTO evaluator --> evaluation report

    git index, working tree, backup manifests --> preflight --> findings

| component | state | operations | talks to | what makes it correct |
|---|---|---|---|---|
| S3 validator (`aws_s3_security.py`) | the fixed report file; the results so far | seven checks, print, save, exit code | AWS, by seven reads; disk | exit code and file agree; a verdict was true at some moment; an execution failure is not an UNKNOWN; an older report survives a run that fails early |
| security status (`security_status.py`) | none | aggregate statuses | S3 validator | FAIL outranks UNKNOWN outranks PASS |
| S3 adapter, Veeam adapter (`*_unified_report_adapter.py`) | none | one report into another | composer, evaluator | every observation is carried over, with its status |
| Veeam collector (`veeam_enterprise_manager_collector.py`) | four answers | four requests, normalise | Veeam server | every object that was read is accounted for; no relationship is invented; ambiguity is a finding |
| Veeam contract (`veeam_evidence_contract.py`) | none | validate a profile | collector, adapter | the collector's reports pass it |
| Unified validator (`unified_report_validator.py`) | none | accept or refuse | composer, evaluator | references lead somewhere, identifiers are unique |
| composer (`unified_report_composer.py`) | its output file | read, validate, merge, write | files, itself: compositions are composed again | inputs are not modified, output is never overwritten; nothing is lost, doubled or made milder at any depth |
| restore-test contract (`restore_test_evidence.py`) | none | validate, normalise | evaluator | a record with contradictions is refused |
| evaluator (`rpo_rto_evaluator.py`) | its output file | read, validate, judge, write | files | a verdict is about what happened; later evidence never turns a pass into a failure |
| preflight (`repository_safety_preflight.py`) | findings so far | scan index, safety paths, agent files; scan a backup or a manifest | git, file system | what must not be versioned is found, although the tree changes; local files do not matter; nothing confidential is read |
| Terraform, GitHub workflows | outside | | AWS, GitHub | not modelled |

The behaviours that are hard here:

- **Reads that are not atomic.** The S3 checks are seven AWS calls, the
  collector makes four requests, the composer and the evaluator read their
  inputs one by one, the preflight the index, the tree and every agent file, all
  without a lock while the world goes on.
- **Check, then open.** Composer and evaluator look whether the output exists
  long before they open it.
- **Half-written files.** All three writing commands write in place: a kill or a
  full disk leaves part of a document.
- **Time.** The evaluation time is given from outside and may lie before or
  after the evidence; boundaries are inclusive; some data are minutes and some
  seconds.
- **Composition of compositions.** Reports are replaced while older editions
  live on inside compositions, and compositions are inputs again.
- **Two rules for one thing.** Adapters, contract, validator and evaluator each
  check documents by rules of their own, and what one lets pass another refuses; scan and manifest of one backup decide
  by different means what is a directory.
- **Ambiguity and order.** Duplicate jobs, links, repositories, restore points
  and restore tests; policy statements scanned in order; records that
  contradict themselves.

Every one of them is in `PROJECT.json` under `hazards`, at its line, with the
properties that cover it, or the reason why none does yet.

## 2. The modules

| module | models | kind |
|---|---|---|
| `SecurityStatus` | `security_status.py` | operators |
| `S3Checks` | the seven checks as functions of an AWS answer | operators |
| `S3PolicyDocument` | a bucket policy written statement by statement, the loop of `check_secure_transport_policy`, and the requests AWS refuses under the policy | state machine |
| `S3PolicyDocument_proofs` | | proofs |
| `S3SecurityValidator` | `main` of the S3 validator with AWS, disk and terminal | state machine, over `S3Checks` |
| `S3SecurityValidator_proofs` | | proofs |
| `WriteOnceStore` | what composer and evaluator promise about files | abstract specification |
| `ReportPublication` | `main` of composer and evaluator as processes of one file system | state machine, refines `WriteOnceStore` |
| `ReportPublication_proofs` | | proofs |
| `JsonValues` | missing, null, malformed, non-UTC and mistyped field values; what is a non-empty string | constants |
| `UnifiedReport` | a Unified report and `validate_unified_report` | operators |
| `UnifiedComposer` | `compose_unified_reports` | operators, over `UnifiedReport` |
| `ReportComposition` | reports, their replacements and their compositions over time | state machine, over `UnifiedComposer` |
| `ReportComposition_proofs` | | proofs |
| `VeeamEvidenceContract` | `validate_veeam_collector_profile` | operators |
| `EvidenceAdapters` | both adapters | operators, over the contract |
| `EvidencePipeline` | adapters, composer and evaluator one after the other | `ReportComposition` with the adapters among the authors |
| `EvidencePipeline_proofs` | | proofs |
| `RestoreTestEvidence` | `validate_restore_test_evidence` | operators |
| `RpoRtoEvaluator` | `evaluate_report` | operators |
| `EvidenceTimeline` | backups, restore tests and their documents over time, judged for every evaluation time | state machine, over the three above |
| `EvidenceTimeline_proofs` | | proofs |
| `VeeamCollector` | `collect` against a changing server | state machine, over the contract |
| `VeeamCollector_proofs` | | proofs |
| `PreflightRules` | the rules of the preflight on paths and agent files | operators |
| `RepositoryPreflight` | `main` of the preflight in a working tree that changes | state machine, over `PreflightRules` |
| `RepositoryPreflight_proofs` | | proofs |
| `MC*` | constants of the runs | |

### S3 validator

`pc` follows `main`: `reading` (the seven calls), `printing`, `opening`,
`writing`, `announcing`, `idle`. `Start` stands for the environment check and the
client, `Check`/`CheckFaulty`/`CallFails` for one call with a truthful answer, an
error or unreadable answer, and a `BotoCoreError`; `PrintReport`, `OpenReport`,
`DumpReport` and `Announce` for the rest, each of which may fail. `file` is the
report file; it survives from run to run. `bucket` is the truth at AWS, changed
by `ChangeBucket` at any moment. `seenOn` and `seenOff` are history variables:
the controls that were in force, or not, at some moment of the run.
`InForce` states what a control means without using the checks, except that
secure transport is a matter of form there: the policy has a statement as the check
wants it (`EnforcesSecureTransport`). An answer is abstracted
to what the check distinguishes; the spelling of ARNs, principals and condition
operators is data. `_policy_statement_is_malformed` is one Boolean of a statement.

What such a statement is worth is the subject of `S3PolicyDocument`. It has the
requests AWS may get (with or without TLS, any action, resource and caller, and
any further requirements met or not) and says which of them a statement applies
to: AWS wants every entry of a `Condition` met, and a list of values by one of
them. None of this is in the code. Against it the verdict is right in one
direction only, and the property says exactly how:

- PASS: there is a readable Deny that refuses requests without TLS whatever the
  action, resource and caller, *as far as its other conditions go*.
  `_condition_has_secure_transport_false` returns at the first entry it
  looks for and sees no other (413-430), so a Deny that is restricted to, say, one
  organisation passes, and so does one whose conditions contradict each other
  and that refuses nothing. Only for policies without further conditions does
  PASS mean that all plaintext is refused.
- FAIL: no statement *in the spelling the check recognises* refuses all
  plaintext. One that does so by `BoolIfExists` or a list of values is not
  recognised: a false alarm. `NotAction`, `NotPrincipal`, `NotResource` and action
  names in other case are not recognised either and are not modelled.

### Composer and evaluator

`ReportPublication` has a set of invocations, each with a command line and a
`pc`: `idle`, `reading`, `opening`, `dumping`, `closing`, `done`. `Invoke` is
`main` up to the existence check, `ReadInput` loads one input, `Build` validates
and computes, `OpenOutput` is `open("x")`, `Dump` makes the file complete, and
`Close` ends the command. Every file operation may fail, and `Kill` may strike
between any two steps, up to `MaxFaults` in all. Text is buffered, so in the code
the bytes may reach the disk in `json.dump` or only at the close; `Dump` is the moment
the text is complete, whichever call does it, and `Close` may still fail after it. A
document is abstracted to kind, profile (platform and classification) and
identifiers, which is what acceptance depends on. The evaluator also needs a time:
that of the command line, which may be invalid, or else that of the policy, which
may be missing (`Dated`). `CleanUp` is the operator
removing a half-written file whose writer has ended.

The two commands have the same steps with different inputs and validators, so
the map cites whichever of the two shows a step best.

### Reports and their compositions

`UnifiedReport` has the validator's demands on statuses, times, identifiers,
the references between sources, assets, findings and actions, the texts of
findings (not blank, after `strip`), and the times and source references it finds
at any depth of an asset or a finding (`nested`), where a key may also be a reserved
word (`ReservedNames`). A report's four lists
are sets, because the composer sorts them and nothing else depends on their
order; two entries with one identifier stand for any number of duplicates. Actions
need no identifier, so two that are alike may be in the code's list twice, which a
set does not show. Fields that are only demanded to be there and of a type are
taken for granted, and times in further fields of sources, actions and of the
report itself are left out.

`UnifiedComposer` is `compose_unified_reports`. A timestamp is an instant and
the rank of its spelling, since the code compares the string where instants are
equal. `ReportComposition` has files with reports: `Author` writes one or
replaces one, `Compose` runs the command on any sequence of present files and an
absent output. Each command is one step here; its steps, overlaps and failures
are in `ReportPublication`, whose documents are opaque. `origin` is a history
variable: the authored reports a file goes back to. The properties compare a
composition of any depth with those, without using the operators that made it,
except `HistoryDoesNotMatter`, which compares it with one flat composition.

`EvidencePipeline` has the two adapters of `EvidenceAdapters` among the authors
(`AdaptersAssumption`), beside whoever writes by hand, and looks back from any file to the S3 and Veeam reports
behind it and forward to what `_evaluate_rpo` says of it. An S3 report is its
bucket, time, checks and overall status; a Veeam report its collector,
classification, findings, resources and overall status. Names, messages and
reasons may be blank, empty, missing or mistyped, and a resource may have any
further fields, all of which the Veeam adapter copies into the asset. The adapters'
own rules are looser than the validator's: they ask for strings that are not empty where
it asks for strings that are not blank, let a reason be the empty string, do not
look inside a time, and know no reserved names. `S3Acceptable` and
`VeeamAcceptable` list these gaps, and `RefusalsAreExplained` says that there are
no others. `EverythingObservedIsFound` matches findings by asset and status, not
by the name of the check. Identifiers the adapters
build as strings are tuples. The code's strings are joined by colons, and the
parts that stand before the last are fixed or free of them as far as the tools
themselves write them (bucket names have no colons, check names come last).

### Evaluator over time

The evaluator is a function of documents, so it is operators
(`RpoRtoEvaluator`), each named after the Python function. `EvidenceTimeline`
adds the reality that the documents are about: `BackupSucceeds`, `Collect` (a new
report on the backups so far, in one of twelve forms that an adapter or an
operator may produce), `ImportTest` (a restore test that was carried out, checked
and collected, each in its own time, `Happened`) and
`Slip` (a field of a record copied wrongly). `judged` holds what an evaluation at
each point in time says of the asset, `passed` every pass there ever was,
`genuine` the evidence before any slip. The code sorts the tests by identifier
before it judges them; the model does not, and `OrderDoesNotMatter` shows that
it makes no difference.

The contract catches a wrong field because another one contradicts it. Nothing
contradicts `asset_id`: only its form is validated (248), and the evaluator goes by
it (378). A test attributed to another asset is therefore judged as that asset's, and
the properties say what this does: verdicts rest on the tests *attributed* to the
asset, still with their real result and duration (`RtoMatchesHistory`), and a
pass can turn into a failure if a slip takes the passed one of two tests away from
its asset (`NoPassBecomesFail` asks for `RightlyAttributed`). The other identifiers
of a record, which no verdict is about, are not among the slips.

Digests are modelled as the documents they are taken of, which amounts to
assuming that SHA-256 does not collide.

### Collector

`VeeamCollector` has the server's items, the answers so far and the report.
`Request` performs the next of the four requests, `ServerChanges` may happen
before or between them, `Finish` normalises and validates. The transport's answer
is not checked by anything, so an item may be no object, a field may be missing,
empty or of another type, the list may not be where it is looked for, and
references may come instead of resources or beside them. `LastSuccess`,
`BackupFindings`, `RepositoryFate` and `RestorePointFate` correspond to the three
`_normalize_*` functions.

The collector passes over some of this in silence, and the property about what is
in the report says so: items that are no objects (174, 186, 278, 360), an answer
without a list in the expected place, which is read as an empty one (72-78),
references to backups beside a list of backups (168), and sessions, which never
become findings. `ObjectsAccountedFor` is about the objects that were read: each is in the
report under one of its names, and every finding is about one of them. A collection whose session times mix naive and aware
datetimes ends in the state `error`, as `max` raises a `TypeError`; one whose
report the contract refuses would end there as well.

### Preflight

A path is a sequence of names, and which names match a pattern is a constant.
`tree` maps every path to nothing, a directory or a content, `tracked` is the
index, `listing` what a manifest says. The text of an agent file is a record of
what the checks look at: why its frontmatter cannot be parsed, its lines in
order with keys that may recur, the required sentences and the forbidden
phrases with and without a negation.

`pc` follows the default mode: `main`, `tracked` (`_scan_tracked_paths`), the
three safety paths, `agents`, `read` (one `ReadAgent` per file, then
`OtherFiles`), `done`. `Write`, `Delete`, `Track` and `Untrack` may happen
between any two of these, up to `MaxChanges`; `git ls-files` may fail at any
time. An agent file that is gone or undecodable, or a directory of its name,
ends the command with a traceback. The code reads agent files in sorted order, the
model in any. A scan of one directory (`rglob` with its `is_dir`) is one step;
the two backup modes are one step each.
`kept` and `seen` are history variables: what was true of the repository at every
moment, and at some moment, since the command began.

## 3. What the runs check

All bounds are CONSTANTS and appear in the guards. Deadlock
checking is off wherever bounded runs end: all commands
have exited, or the bounds are used up. It is on in `evidence_pipeline`, where
authors can always go on. The largest runs are `veeam` with 3.5 million states
(about two minutes), `timeline` with 426,000 and `publication` with 258,000;
`evidence_pipeline` is slow for its 21,000 states (a minute and a half), as each of
them is a set of whole documents.

| run | shows | bounds, and why they are enough |
|---|---|---|
| `s3_policy` | `VerdictMatchesMeaning`: what the verdict says of the requests AWS refuses, and which statement may decide | 3 statements out of 20, each missing the enforcing one in at most one clause, among them second conditions: a decider, one before and one after it; one further requirement, and an action and a caller no statement names |
| `s3_validator` | exit code and report agree, verdicts were true at some moment, hard errors end the run with 2, the older report is kept until all checks have a result | 2 runs (an older report exists), 1 change of the bucket, 2 faults; one bucket per control with just that control off |
| `publication` | safety of overlapping commands | 3 invocations (a writer, a rival and a reader), 5 paths, 2 faults; the second input in six states of health, the policy with and without a time; the invocations are symmetric |
| `publication_live` | `RaceHasWinner`; `ImplementsStore` | 2 invocations, 1 fault, all command lines including the refused ones; no symmetry, as there is a liveness property |
| `timeline` | verdicts on the RPO are about real backups, verdicts on the RTO rest on the one conclusive test attributed to the asset, as it took place and not before everybody could know, in spite of one slip; no pass becomes a failure while tests are rightly attributed; verdicts age only one way; the order of lists does not matter; inconclusive tests hide nothing | minutes of 2 seconds: below, at and above an objective; evaluations for all times 0..4; a history has 3 backups and 3 reports, or up to time 3 (`MaxTestTime`) 2 tests and 1 slip: the two objectives are judged independently, and `MCSpec` is `Spec` without histories that mix them. The time between a test, its check, its collection and the report is explored with one test; with two, the newest was collected at once (`Prompt`) |
| `veeam` | the objects that were read are accounted for, relationships are exposed by the server, ambiguous repositories are not emitted, the contract accepts whatever is collected, and the last success is at least as recent as any there was at the start | 2 changes before and 1 during the collection, from an empty server or from one with a job and all that belongs to it, out of 27 items that differ in what the collector looks at, one of each kind being no object; 1 request that fails or is answered in another shape |
| `evidence_pipeline` | compositions at any depth: the final validation never fails, nothing unsound gets in, contents are the exact union, the status is that of the worst evidence, the way of composing shows only in the provenance; adapters and validator disagree only as listed; every failure and gap is a finding; one look at a bucket; mock evidence stays apart; RPO verdicts follow the job's evidence | 4 files, up to 3 inputs: a composition of a composition and another report, in every order; 8 S3 and 8 Veeam reports, sound ones of every status, ones with a single fault an adapter minds, and ones with the faults only the validator minds, several in a report (that each suffices is left to `RefusalsAreExplainedHolds`), and 3 reports by hand for what the adapters do not write: another spelling of one instant, a status milder than its findings, CRITICAL; one of the Veeam reports refers to another's source; files are symmetric; evaluation times 0..3 around an objective of 1 |
| `preflight` | a clean default run overlooked nothing that stayed, findings are about what was there, tracebacks have a cause; scans of parts agree with a scan of the whole, a complete manifest finds what a scan finds, nothing confidential is opened | 24 paths with one of every kind and every rule at depth, 2 changes: enough to remove a file and put another in its place, or to replace one and undo it; two roots; 5 agent texts; manifests with and without directories and slashes |

Four further runs state a sentence of the documentation that
the code does not keep, and TLC shows a behaviour that contradicts it:

| run | sentence | what happens |
|---|---|---|
| `veeam_affected` | "An affected resource is not also emitted as a normal mapped resource." (`docs/veeam-evidence-report-v1.md:105`) | one job, two backups under different job names, one of them with a successful session: the job is emitted and is also a finding |
| `veeam_unique` | "Every resource identifier must be unique within the report." (same file, 90-91) | a restore point listed twice is emitted twice |
| `preflight_git` | "Default mode validates tracked/versioned repository files and safe metadata" (`.github/instructions/repository-safety-rules.instructions.md:109`) | git fails, no tracked file is looked at, the outcome is clean |
| `preflight_file` | "Backup-scan mode checks path names for backup and ZIP blockers." (same file, 122) | `--path` of one file: it is judged as ".", which no rule is about |

Three smaller observations have no run. `docs/rpo-rto-evaluation-v1.md:60-61`
promises UNKNOWN for "invalid, ambiguous, unlinked" evidence, but invalid or
unlinked evidence makes the whole evaluation fail, as the tests pin. Line 77 of
that file calls several *reliable* matches ambiguous; several inconclusive ones
get the same reason. And a manifest that lists `d/.git/config` passes, as only the
last name of a path is compared with `.git`.

### Assumptions about the environment

- `FairSpec` (only for `RaceHasWinner`) has weak fairness of the steps of an
  invocation that has started: the operating system keeps running it. Nothing is
  assumed about starting one, about faults, kills or clean-ups.
- Files that hold a document are not edited or removed by hand while commands
  run, and only a half-written file nobody is writing to is cleaned up. The code
  cannot enforce either.
- `open("x")` is atomic: a file system that creates exclusively.
- In `EvidenceTimeline` restore tests are only added, a test is completed, checked,
  collected and reported in this order (`Happened`), and a record has at most one
  slip. A slip that is consistent
  in several fields at once would be another genuine-looking test; no validator
  could tell.
- In `ReportComposition` authors do not overwrite compositions, and no author
  writes a report that claims to be one (`AuthoredAssumption`); the composer
  itself never overwrites.
- In `RepositoryPreflight` the index read by `git ls-files` is consistent in
  itself, and there are no symbolic links. A directory scan sees one moment.
- The session log of the Veeam server only grows during a collection;
  everything else there may come, and backups may also go.

## 4. What is proved

With TLAPS, for every value of the constants within the named assumptions:

| module | theorem | statement |
|---|---|---|
| `ReportPublication_proofs` | `TypeCorrect` | `Spec => []TypeOK` |
| | `PartialSafety` | `Spec => []PartialIsNobodysResult` |
| | `Reproducibility` | `Spec => []SuccessIsReproducible` |
| | `WriteOnce` | `Spec => NeverOverwritten` |
| | `Implementation` | `Spec => ImplementsStore` |
| `ReportComposition_proofs` | `IInvHolds` | `Spec => []IInv` |
| | `TypeCorrect` | `Spec => []TypeOK` |
| | `FinalCheckIsRedundant` | `Spec => []FinalCheckNeverFails` |
| | `CompositionRepairsNothing` | `Spec => []OriginsWereSound` |
| | `CompositionKeepsEverything` | `Spec => []NothingLostNothingTwice` |
| | `ClassificationIsKept` | `Spec => []ClassificationIsTrue` |
| | `StatusIsTheWorst` | `Spec => []WorstEvidenceShows` |
| | `ProvenanceIsKept` | `Spec => []ProvenanceAccounts` |
| | `OrderOfComposingDoesNotMatter` | `Spec => []HistoryDoesNotMatter` |
| `EvidencePipeline_proofs` | `OneLookHolds` | `Spec => []OneLookAtABucket` |
| | `MockStaysApartHolds` | `Spec => []MockStaysApart` |
| | `ObservationsAreFound` | `Spec => []EverythingObservedIsFound` |
| | `VerdictIsAboutTheJob` | `Spec => []RpoIsAboutTheJob` |
| | `RefusalsAreExplainedHolds` | `Spec => []RefusalsAreExplained` |
| `RepositoryPreflight_proofs` | `CleanRunsAreClean` | `Spec => []CleanMeansClean` |
| | `LocalFilesDoNotMatter` | `Spec => []FindingsAreWitnessed` |
| | `NoBlockerIsOpened` | `Spec => []OpensNoBlocker` |
| | `SubtreesAgree` | `Spec => []SubtreeScansAgree` |
| | `ManifestsMissNothing` | `Spec => []ManifestMissesNothing` |
| | `TracebacksHaveCauses` | `Spec => []TracebackHasACause` |
| `S3PolicyDocument_proofs` | `PolicyVerdictsMeanRefusals` | `Spec => []VerdictMatchesMeaning` |
| `S3SecurityValidator_proofs` | `ExitCodesAreTrue` | `Spec => []ExitCodeMatchesReport` |
| | `HardErrorsEndRuns` | `Spec => []HardErrorEndsTheRun` |
| | `OldReportIsKept` | `Spec => ReportKeptUntilChecksDone` |
| | `TypesHold` | `Spec => []TypeOK` |
| | `VerdictsAreWitnessed` | `Spec => []VerdictsWitnessed` |
| `EvidenceTimeline_proofs` | `RpoIsAboutHistory` | `Spec => []RpoMatchesHistory` |
| | `RtoIsAboutHistory` | `Spec => []RtoMatchesHistory`, if `MaxSlips <= 1` |
| | `PassesStand` | `Spec => []NoPassBecomesFail`, if `MaxSlips <= 1` |
| | `TimeOnlyAges` | `Spec => []LaterIsNoBetter` |
| | `InconclusiveTestsHideNothing` | `Spec => InconclusiveHidesNothing` |
| | `OrderChangesNothing` | `Spec => []OrderDoesNotMatter` |
| | `TypesHold` | `Spec => []TypeOK` (proved, checked by no run) |
| `VeeamCollector_proofs` | `ContractIsKept` | `Spec => []OwnContractHolds` |
| | `RepositoriesAreUnambiguous` | `Spec => []RepositoriesUnambiguous` |
| | `RelationshipsWereExposed` | `Spec => []RelationshipsAreExposed` |
| | `LastSuccessWasFresh` | `Spec => []LastSuccessIsFresh` |
| | `ObjectsAreAccountedFor` | `Spec => []ObjectsAccountedFor` |

### File publication

For every set of invocations, paths, command lines, initial files and any bound
on faults; the assumptions of `ReportPublication` are that the operator is no
invocation, `NoDoc`, `AbsentPath` and `TornPath` are not documents, command lines
are well-formed, and initial files are absent or complete.

`SuccessIsReproducible` alone is not inductive: that a command
ended with its own document says nothing of what the others will do. `IInv`
strengthens it. `ReadInv`: what an invocation has read is still there. This is
preserved because nothing changes a complete file (`CompleteStays`), which needs
`WriterInv`: a dump goes to the writer's own half-written file, never to one
that is complete. `WriterInv` in turn needs `PartialInv`: the author of a
half-written file is the invocation whose output it is, so nobody else writes it
and the operator, who removes it only when its author has ended, does not take it away under its
writer. `BuiltInv`: the document to be written is the result of all
inputs. `ExitInv`: exit codes belong to ended invocations. `InitInv` and
`NextInv` are the two induction steps, one case per action.
For `Implementation`, a file being written maps to an absent path and one left
behind to a torn one. `Dump` maps to `Publish`, a failing dump or a kill of a
writer to `Tear`, `CleanUp` to `Clear`, everything else to a stutter.

### Compositions

For any files, any authored reports and any number of inputs, on
`AuthoredAssumption`. What holds of compositions does not hold of authored
reports, which may be unsound or milder than their findings, and an input may be
either. `IInv` says of every file what they have in common: `FileSound` (a
composition is valid, and a valid file goes back to valid reports), `SameKind`,
`SameContents` and `Apart` (its contents are the disjoint union of its origins'),
and `StatusExplained` (the status is among those of origins and findings and not
milder than any origin). The key lemma is that the union of sound, disjoint
reports is sound: references resolve in a union as they did in a part, and
identifiers that are unique in every part and disjoint between parts are unique
in the union. It gives both the step of `FileSound` and
`FinalCheckIsRedundant`. `Apart` is preserved because an origin common to two
inputs would have its sources in both, and sources are never empty.

`HistoryInv` adds, once `IInv` is known, that the timestamp of a file is that of
an origin none of which is later (`TimeExplained`), that a composition has the
fields of `composed_report` and no others (`WellFormed`), and what
`ProvenanceAccounts` says of each. With it every field of a composition is
determined by its origins alone, so the flat composition of them in any order is
the same report: timestamps neither of which is later are equal, the worst
status is unique, and the collections are unions.

### Pipeline

`EvidencePipeline` is `ReportComposition` with other constants, so its proofs
start from `IInvHolds` and add what the adapters guarantee of one report: its
asset is named after the bucket, its classification after the adapter, and each
finding has the status of its check. `OneLookHolds` is then `Apart`,
`MockStaysApartHolds` is `SameKind`, and `ObservationsAreFound` is
`SameContents` with `StatusExplained`. Reports by other authors may be among
the ones composed, and nothing is assumed of them but `AuthoredAssumption`.
`VerdictIsAboutTheJob` adds the evaluator: a valid file has one asset under the
identifier of the job, which is the adapter's, with one candidate whose source
the file still has, so what `JudgeBackup` compares is the job's own last success.
`MarkersAssumption` says that the markers for missing and broken values are no
times, identifiers or evidence, `TimesAssumption` that times are integers.

`RefusalsAreExplainedHolds` goes through every demand of the validator for each
of the two adapters (`S3AdaptedIsSound`, `VeeamAdaptedIsSound`): a report of one
source whose assets and findings have identifiers made of what the adapter found
unique, and which refer to nothing else, is sound exactly if its source report is in
none of the gaps. `FindingOnIsAllowed` has the texts: what makes `Tellable` of what
`EvidenceAccepted` lets pass. The theorem needs besides that
a file the validator refuses is what its author wrote (`RefusedIsOwn`), as the
composer writes nothing that is refused; that is why a copied reference to another
report's source keeps a report out even of a composition that has the source.

### Preflight

For any tree, index, commands, texts, patterns and bound of changes, on the five
assumptions of `PreflightRules` and `RepositoryPreflight` about names, paths and
commands being what they are. `CleanMeansClean` speaks only of the end. `IInv`
says at every `pc` what the reads so far have established: `Progress` has, for
each step that has passed, that whatever of its kind is in `kept` and forbidden is
already among the findings, and for agent files that each of them has been read
or is in `todo`. It is inductive because `kept` only shrinks and findings only
grow, so no change of the tree can undo it; `Remembered` (`kept` is true now and
so is in `seen`) connects a read with the two histories. `FindingsAreWitnessed` is
part of `IInv`, as `seen` only grows. `TracebacksHaveCauses` adds what the listing
of agent files leaves behind (`ListedWasSeen`): the directory and each file in
`todo` have been seen where they were, so that one found gone has been seen to
change.

The backup modes look once, so their two theorems are about operators. What makes
a path objectionable is stated without the order of the rules (`Objectionable`),
and `RelativeTo` says that a path below a directory consists of the directory
and the relative path. A scan of a part then differs from a scan of the whole by
the names above alone. The proof of `ManifestsMissNothing` showed that a manifest
finds more than was thought: a plain file called `.venv` is listed without a slash
and taken for a directory of tools, so it is found in a manifest and not in a
scan. The property now says so, and the run has such a file.

### S3 validator

For any configurations, error codes and bounds, on `CodesAssumption` and
`BoundsAssumption`. `ExitCodeMatchesReport` speaks of the end of a run, so `IInv`
adds what each `pc` has established: fewer than seven results while reading and
seven afterwards (`ResultsSoFar`), a complete file that is of an older run before
the dump and exactly this run's report after it (`FileSoFar`), and no exit code
and no hard error while a run goes on (`GoesOn`). The proofs of these use nothing
of the checks but that a critical error code raises in each of them
(`CriticalRaises`).

`VerdictsAreWitnessed` is about the checks. `WInv` is `TypeOK`,
`VerdictsWitnessed` and `NowSeen` (while a run goes on, what is in force now is in
`seenOn` and what is not is in `seenOff`). For each of the seven checks there is a
lemma that a truthful answer leads to a PASS only with the control in force and to
a FAIL only without, and one that an error or an unreadable answer leads to
neither, unless it is the error that means that nothing is configured.
`NoneAssumption` says that the marker for no configuration is none of the values of
one, `PoliciesAssumption` that policies are lists of statements.

`PolicyVerdictsMeanRefusals` states the loop over the statements by the first of them
that ends it (`FirstDecides`), which exists because a set of positions has a least
one, and compares the code's test of one statement with the requests the statement
refuses. `EnforcingRefuses`: what passes the test refuses nothing with TLS and, as
far as its other conditions are met, everything without. `RefusingEnforces`, the
harder direction: a statement in the recognised spelling that refuses exactly the
plaintext passes the test, since there are requests that only a wildcard or a `Bool`
entry about TLS can account for; this is where `WildcardsAssumption`
is needed (some action and some caller are named by no statement), without which
"everyone" could be said by listing all. `StatementsAssumption`: conditions are
lists of entries of the modelled kinds.

### Evaluator over time

For any policy with one objective of each kind for the subject
(`PolicyAssumption`), any outcomes of tests, any minute and clock, and any
number of backups, reports, tests and, except in two theorems, slips. With two
slips in one record a test may look as if another had been carried out, so
`RtoIsAboutHistory` and `PassesStand` assume at most one, as `timeline` does, of any
field a verdict looks at, the asset included;
`TimeOnlyAges`, `OrderChangesNothing`, `InconclusiveTestsHideNothing` and
`RpoIsAboutHistory` do not.

`judged` is always the evaluation of the current documents, so the theorems are
about `evaluate_report` and about what the documents have to do with reality. For
the RPO, `BackupsInv` says that a report of the subject tells of the latest of
some set of real backups (`TellsOf`), whatever its form, and that every pass had a
backup in its window then. For the RTO, `TestsInv` says that every genuine record
is of a test that took place (`Genuine`), that a slip either made the record
unacceptable or left result and duration as they were, whosever test it then is
(`Harmless`, `Close`), and that every pass there ever was is a pass of the
genuine evidence as it now is, unless a test is attributed to another asset (`Meets`,
`SameAssets`). `Harmless` is proved for each kind of slip: this
is where the contract's comparison of the duration with its timestamps, of the
status with the result, and its order of events are needed. That no verdict comes
before the test, its check, its collection or its report were known takes all the
comparisons of `_has_future_restore_timestamp`.

`OrderChangesNothing` says that the evaluator uses of the restore tests of an asset
only which there are (`SameEvidence`), not where. The Python code filters a list;
`Matching` in the model is the set of positions that pass the filter, which says as
much, since order is lost in what follows (`Several` asks for two of them), and
can be reasoned about where `SelectSeq` could not. `MarkersAssumption` says
that the markers are no times and no evidence.

`TypesHold` also relates the validator to the evaluator: a verdict other than
UNKNOWN has an observed age or duration. For the RPO the age is the
difference of two times (`RpoDecided`); for the RTO it is the duration of the
deciding test, which is there because the validation refuses a conclusive test
without one (`RtoDecided`), however many fields were copied wrongly. `BoundsInv`
adds the clock and the bounds to the two invariants above.

### Collector

For any items, well-formed or not, and any changes of the server, on
`CollectorAssumption` (an end time that is no marker is a moment, the links of a
restore point are a list) and `WordsAreTexts` (the literal types, reasons and
messages are no markers). Everything said of the report is said of a function of the answers, so
`IInv` ties the two: the report is `Normalize` of what was read of the four answers
(`Progress`), and that is of the server (`AnswersInv`: the sessions that were read are
none at all, or at least those of the beginning and at most those there are). The
rest are lemmas on `Normalize`. `FindingsOrigin`: every finding is about an object
that was read, with an identifier `_safe_resource_id` made of its fields;
`SafeIds` has what that is, whatever the fields hold. Hence `ContractAccepts`, for
all the rules of the contract on a finding (`SoundFinding`), and the half of
`ObjectsAreAccountedFor` that no finding is about anything else. A mapped repository
has an identifier no other has (`MappedRepository`); a mapped restore point has one
link, to a mapped job (`MappedRestorePoint`); what is not mapped has a finding
(`BackupAccounted`, `ReferenceAccounted`). That the last success
exists (`LastIsLargest`) needs a largest element of any finite list of times,
which `LargestExists` gets from the well-foundedness of the natural numbers.

### Only model-checked

`RaceHasWinner`, because liveness and fairness are out of the prover's reach: that
of two commands with one output one succeeds or fails for a fault. Its safety
half, that they do not both write, is `WriteOnce`. The runs that expect a
violation show behaviours and prove nothing.

## 5. Not modelled

- Terraform and the GitHub workflows: declarative configuration and scheduling
  by a service, no state of this program.
- The inside of AWS, boto3, the Veeam server and its transport, git and the file
  system: they appear as nondeterministic answers. Wording of messages and logs;
  the spelling of bucket names and references; argument parsing beyond what the
  modes distinguish; the JSON output of the preflight.
- Of the restore-test contract the exact field sets, enumerations and reference
  patterns, which are one Boolean; of the validator and the adapters that
  required fields are there and of the right type, where no property tells, and
  times in further fields of sources, actions and the report itself.
- Policy statements with `NotAction`, `NotPrincipal` or `NotResource`, and how AWS
  combines a bucket policy with other policies.
- Of the preflight symbolic links (their targets decide `is_dir`, and
  `_relative_path` follows them), index entries that are not UTF-8 (`decode`
  raises), blank lines and comments of a manifest, names of directories above the
  scanned root, paths that do not exist (scanned as empty), and errors of permission when an
  agent file is read. An agent file with the name of a blocker is read like any other,
  and `OpensNoBlocker` excepts it. The rules document also
  names artifacts the code has no rule for (plans, `*.tfvars.json`, override
  files); the model has the code's rules only.

## 6. Plan

1. done: file publication with its proofs; the S3 validator; the evaluator over
   time; the collector.
2. done: the full Unified validator, the composer's merge, compositions over
   time with their proofs.
3. done: adapters, Veeam contract and the pipeline, with their proofs.
4. done: the preflight, with its proofs.
5. done: proofs of the S3 validator and the collector, provenance and history of
   compositions, the RPO verdict across the pipeline.
6. done: proofs of the policy loop, of the verdicts of the S3 validator, of the
   evaluator over time, of the backup modes and tracebacks of the preflight, and of
   where adapters and validator differ.
7. An abstract report slot, written anew on every run, that the S3 validator
   implements, with the refinement proved.
8. The hazards without a property: one bad asset or record that refuses a
   whole evaluation, session times that mix naive and aware datetimes, and the
   place of the exemption for example files among the rules.
