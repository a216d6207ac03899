-------------------------- MODULE ReportComposition --------------------------
(***************************************************************************)
(* What the composer makes of reports over time: authors write Unified     *)
(* reports into files and replace them, and compositions, which are never  *)
(* replaced, are themselves composed.  A composition no longer tells what  *)
(* it was made from but by its inputs' names and sources, so the model     *)
(* remembers for every file the authored reports it goes back to.          *)
(*                                                                         *)
(* A command runs in one step here; ReportPublication has its steps, the   *)
(* overlaps of two commands and their failures.                            *)
(***************************************************************************)
EXTENDS UnifiedComposer, FiniteSets

CONSTANTS
    Paths,       \* resolved file names: the identifiers of the inputs
    Authored,    \* the reports that authors may write
    Absent,      \* what a path holds without a file
    MaxInputs    \* bound: inputs of one command

\* A timestamp that passes is [at, text] (UnifiedComposer); only the composer
\* writes the provenance that the model keeps.
Timestamps == [at : Int, text : Int]

ASSUME AuthoredAssumption ==
    \A doc \in Authored : /\ doc.provenance = Missing
                          /\ IsUtc(doc.timestamp) => doc.timestamp \in Timestamps

VARIABLES
    files,       \* the document of every path
    origin       \* the authored reports behind it

vars == << files, origin >>

Present    == {p \in Paths : files[p] # Absent}
IsComposed(p) == p \in Present /\ files[p].provenance # Missing

Init ==
    /\ files = [p \in Paths |-> Absent]
    /\ origin = [p \in Paths |-> {}]

\* An author writes a report, or replaces one.
Author(p, doc) ==
    /\ ~ IsComposed(p)
    /\ files' = [files EXCEPT ![p] = doc]
    /\ origin' = [origin EXCEPT ![p] = {doc}]

Documents(inputs) == [i \in DOMAIN inputs |-> files[inputs[i]]]

\* The composer, as its command: the output must not exist, and so is none of
\* the inputs; the resolved paths are the identifiers.  A refusal writes nothing.
Compose(inputs, output) ==
    LET composed == compose_unified_reports(Documents(inputs), inputs) IN
    /\ files[output] = Absent
    /\ composed # Refused
    /\ files' = [files EXCEPT ![output] = composed]
    /\ origin' = [origin EXCEPT ![output] = UNION {origin[inputs[i]] : i \in DOMAIN inputs}]

CommandLines == UNION {[1..n -> Present] : n \in 2..MaxInputs}

Next ==
    \/ \E p \in Paths, doc \in Authored : Author(p, doc)
    \/ \E output \in Paths, inputs \in CommandLines : Compose(inputs, output)

Spec == Init /\ [][Next]_vars

-----------------------------------------------------------------------------
Composed == {p \in Paths : IsComposed(p)}

\* Every file goes back to authored reports, and its timestamp, where the
\* validator takes it, is one that the composer can compare.
TypeOK ==
    /\ DOMAIN files = Paths /\ DOMAIN origin = Paths
    /\ \A p \in Paths : origin[p] \subseteq Authored
    /\ \A p \in Present : IsUtc(files[p].timestamp) => files[p].timestamp \in Timestamps

\* The validation of the output at the end of compose_unified_reports never
\* refuses what the checks of the inputs have let through, however the inputs
\* came about: references and identifiers that are sound in each report stay
\* sound in their union.
FinalCheckNeverFails ==
    \A inputs \in CommandLines :
        Composable(Documents(inputs), inputs) =>
            validate_unified_report(Merged(Documents(inputs), inputs))

\* Every authored report that ends up in a composition was acceptable by
\* itself: nothing is repaired by what another report happens to contain.
OriginsWereSound == \A p \in Composed : \A doc \in origin[p] : validate_unified_report(doc)

SameContents(p) ==
    /\ files[p].sources = UNION {doc.sources : doc \in origin[p]}
    /\ files[p].assets = UNION {doc.assets : doc \in origin[p]}
    /\ files[p].findings = UNION {doc.findings : doc \in origin[p]}
    /\ files[p].actions = UNION {doc.actions : doc \in origin[p]}

Apart(p) ==
    \A c, d \in origin[p] : c # d =>
        /\ SourceIds(c)  \cap SourceIds(d) = {}
        /\ AssetIds(c)   \cap AssetIds(d) = {}
        /\ FindingIds(c) \cap FindingIds(d) = {}
        /\ ActionIds(c)  \cap ActionIds(d) = {}

\* A composition, at any depth, holds exactly what its authored reports held,
\* and no source, asset, finding or action of it comes from two of them, a
\* report and its later edition included.
NothingLostNothingTwice == \A p \in Composed : SameContents(p) /\ Apart(p)

\* The overall status of a composition, at any depth, is explained by what its
\* authored reports say and by their findings, even where a report was milder
\* than its own findings; and nothing is made worse than the evidence is.
WorstEvidenceShows ==
    \A p \in Composed :
        LET said    == {doc.overall : doc \in origin[p]}
            found   == UNION {doc.findings : doc \in origin[p]}
            Failing == \E f \in found : f.status = "FAIL" \/ f.confirmed_vulnerability
            Open    == \E f \in found : f.status = "UNKNOWN"
        IN  files[p].overall =
              IF "CRITICAL" \in said                THEN "CRITICAL"
              ELSE IF "AT_RISK" \in said \/ Failing THEN "AT_RISK"
              ELSE IF "INCOMPLETE" \in said \/ Open THEN "INCOMPLETE"
              ELSE "HEALTHY"

SameKind(p) ==
    \A doc \in origin[p] : /\ doc.platform = files[p].platform
                           /\ doc.data_classification = files[p].data_classification

\* All that went into a composition is of the platform and of the
\* classification it bears: none is raised or lowered on the way.
ClassificationIsTrue == \A p \in Composed : SameKind(p)

\* Composing in two steps, or in another order, leads to the same report as
\* composing everything at once; only the provenance differs.
HistoryDoesNotMatter ==
    \A p \in Composed :
        LET n == Cardinality(origin[p]) IN
        \A docs \in [1..n -> origin[p]] :
            {docs[i] : i \in 1..n} = origin[p] =>
                [Merged(docs, [i \in 1..n |-> i]) EXCEPT !.provenance = files[p].provenance] = files[p]

AccountedFor(p) ==
    /\ \A id \in SourceIds(files[p]) :
          Cardinality({input \in files[p].provenance : id \in input.evidence_source_ids}) = 1
    /\ \A input \in files[p].provenance : ~ Later(input.timestamp, files[p].timestamp)

\* Of every source in a composition the provenance names exactly one input,
\* and no input is later than the composition.
ProvenanceAccounts == \A p \in Composed : AccountedFor(p)

-----------------------------------------------------------------------------
(***************************************************************************)
(* The inductive invariant.  It speaks of every file, as an authored       *)
(* report, taken as one made of itself alone, satisfies most of what a     *)
(* composition does; so the inputs of a composition need not be told       *)
(* apart.                                                                  *)
(***************************************************************************)
FileSound(p) ==
    /\ IsComposed(p) => validate_unified_report(files[p])
    /\ validate_unified_report(files[p]) => \A doc \in origin[p] : validate_unified_report(doc)

\* The statuses that may explain the one of a file.
Evidence(p) ==
    {doc.overall : doc \in origin[p]} \cup {_finding_status(f) : f \in files[p].findings}

StatusExplained(p) ==
    /\ files[p].overall \in Evidence(p)
    /\ \A doc \in origin[p] :
          \/ doc.overall = files[p].overall
          \/ STATUS_PRIORITY[doc.overall] <= STATUS_PRIORITY[files[p].overall]
    /\ IsComposed(p) => \A f \in files[p].findings :
          STATUS_PRIORITY[_finding_status(f)] <= STATUS_PRIORITY[files[p].overall]

\* What holds of every file at every moment, and of what is composed next
\* because it holds of its inputs.
IInv ==
    /\ TypeOK
    /\ \A p \in Present : /\ FileSound(p) /\ SameKind(p) /\ SameContents(p)
                          /\ Apart(p) /\ StatusExplained(p)

\* The timestamp of a file is that of one of its origins, none of which is later.
TimeExplained(p) ==
    IsUtc(files[p].timestamp) =>
        /\ \A doc \in origin[p] : /\ doc.timestamp \in Timestamps
                                 /\ ~ Later(doc.timestamp, files[p].timestamp)
        /\ \E doc \in origin[p] : doc.timestamp = files[p].timestamp

\* A composition has the fields of composed_report and no others.
WellFormed(p) ==
    files[p] = [timestamp |-> files[p].timestamp, platform |-> files[p].platform,
                data_classification |-> files[p].data_classification,
                overall |-> files[p].overall, sources |-> files[p].sources,
                assets |-> files[p].assets, findings |-> files[p].findings,
                actions |-> files[p].actions, provenance |-> files[p].provenance]

\* What is inductive once IInv is known.
HistoryInv ==
    /\ \A p \in Present : IsFiniteSet(origin[p]) /\ TimeExplained(p)
    /\ \A p \in Composed : WellFormed(p) /\ AccountedFor(p)
=============================================================================
