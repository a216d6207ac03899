---------------------- MODULE ReportComposition_proofs ----------------------
(***************************************************************************)
(* Proofs about ReportComposition, and with it about the composer and the  *)
(* validator, for any reports, any number of files and inputs and any      *)
(* depth of composition.                                                   *)
(***************************************************************************)
EXTENDS ReportComposition, FiniteSetTheorems, TLAPS

\* The maximum by priority is one of the statuses and none is worse.
LEMMA WorstOfIsWorst ==
    ASSUME NEW statuses \in SUBSET VALID_OVERALL_STATUSES, statuses # {}
    PROVE  /\ WorstOf(statuses) \in statuses
           /\ \A s \in statuses : STATUS_PRIORITY[s] <= STATUS_PRIORITY[WorstOf(statuses)]
<1>1. /\ STATUS_PRIORITY["HEALTHY"] = 0 /\ STATUS_PRIORITY["INCOMPLETE"] = 1
      /\ STATUS_PRIORITY["AT_RISK"] = 2 /\ STATUS_PRIORITY["CRITICAL"] = 3
  BY DEF STATUS_PRIORITY
<1>2. \E s \in statuses : \A t \in statuses : STATUS_PRIORITY[t] <= STATUS_PRIORITY[s]
  <2>1. CASE "CRITICAL" \in statuses
    BY <1>1, <2>1 DEF VALID_OVERALL_STATUSES
  <2>2. CASE "CRITICAL" \notin statuses /\ "AT_RISK" \in statuses
    BY <1>1, <2>2 DEF VALID_OVERALL_STATUSES
  <2>3. CASE statuses \subseteq {"HEALTHY", "INCOMPLETE"} /\ "INCOMPLETE" \in statuses
    BY <1>1, <2>3
  <2>4. CASE statuses = {"HEALTHY"}
    BY <1>1, <2>4
  <2>5. QED
    BY <2>1, <2>2, <2>3, <2>4 DEF VALID_OVERALL_STATUSES
<1>3. QED
  BY <1>2 DEF WorstOf

\* The order of timestamps is strict, and total but for equal ones.
LEMMA LaterIsStrict ==
    ASSUME NEW r \in Timestamps, NEW s \in Timestamps, NEW t \in Timestamps
    PROVE  /\ ~ Later(s, s)
           /\ Later(r, s) => ~ Later(s, r)
           /\ Later(r, s) /\ Later(s, t) => Later(r, t)
           /\ ~ Later(r, s) /\ ~ Later(s, t) => ~ Later(r, t)
  BY DEF Later, Timestamps

\* There is a first report with the latest timestamp: of all reports take one
\* that is beaten by a minimal set of others.
LEMMA LatestExists ==
    ASSUME NEW n \in Nat, n > 0, NEW docs, DOMAIN docs = 1..n,
           \A i \in 1..n : docs[i].timestamp \in Timestamps
    PROVE  /\ Latest(docs) \in 1..n
           /\ \A j \in 1..n : ~ Later(docs[j].timestamp, docs[Latest(docs)].timestamp)
<1> DEFINE t(i) == docs[i].timestamp
           Beats(j, i) == Later(t(j), t(i)) \/ (j < i /\ ~ Later(t(i), t(j)))
           U(i) == {j \in 1..n : Beats(j, i)}
           T    == {U(i) : i \in 1..n}
           R    == StrictSubsetOrdering(1..n)
<1>1. \A i \in 1..n : t(i) \in Timestamps
  OBVIOUS
<1>2. IsFiniteSet(1..n)
  BY FS_Interval
<1>3. IsWellFoundedOn(R, SUBSET (1..n))
  BY <1>2, FS_StrictSubsetOrderingWellFounded, FS_FiniteSubsetsOfFinite
<1>4. PICK S \in T : \A V \in T : << V, S >> \notin R
  <2> HIDE DEF Beats
  <2>1. T \subseteq SUBSET (1..n) /\ U(1) \in T
    OBVIOUS
  <2> HIDE DEF T, R
  <2>2. QED
    BY <1>3, <2>1, WFMin
<1>5. PICK i \in 1..n : S = U(i)
  OBVIOUS
<1>6. \A j, k \in 1..n : Beats(j, i) /\ Beats(k, j) => Beats(k, i)
  <2> SUFFICES ASSUME NEW j \in 1..n, NEW k \in 1..n, Beats(j, i), Beats(k, j)
               PROVE  Beats(k, i)
    OBVIOUS
  <2>1. t(i) \in Timestamps /\ t(j) \in Timestamps /\ t(k) \in Timestamps
    BY <1>1
  <2> HIDE DEF t
  <2>2. QED
    BY <2>1, LaterIsStrict
<1>7. \A j \in 1..n : ~ Beats(j, j)
  <2> HIDE DEF t
  <2>1. QED
    BY <1>1, LaterIsStrict
<1>8. \A j \in 1..n : ~ Beats(j, i)
  <2> SUFFICES ASSUME NEW j \in 1..n, Beats(j, i) PROVE FALSE
    OBVIOUS
  <2> HIDE DEF Beats
  <2>1. U(j) \subseteq U(i) /\ j \in U(i) /\ j \notin U(j)
    BY <1>6, <1>7
  <2>2. << U(j), U(i) >> \in R
    BY <2>1 DEF StrictSubsetOrdering
  <2>3. QED
    BY <1>4, <1>5, <2>2
<1>9. \A j \in 1..n : /\ ~ Later(docs[j].timestamp, docs[i].timestamp)
                      /\ j < i => Later(docs[i].timestamp, docs[j].timestamp)
  BY <1>8
<1>10. QED
  BY <1>9 DEF Latest

-----------------------------------------------------------------------------
\* The union of the collections of acceptable reports without a common
\* identifier is acceptable: sources.
LEMMA UnitedSources ==
    ASSUME NEW docs, NEW merged, merged.sources = All(docs, sources),
           \A i \in DOMAIN docs : validate_unified_report(docs[i]),
           NoDuplicates(docs, SourceIds)
    PROVE  /\ \A source \in merged.sources : SourceAllowed(source)
           /\ \A s, t \in merged.sources : s.source_id = t.source_id => s = t
           /\ \A i \in DOMAIN docs : SourceIds(docs[i]) \subseteq SourceIds(merged)
<1>1. \A s \in merged.sources : \E i \in DOMAIN docs : s \in docs[i].sources
  BY DEF All, sources
<1>2. \A i \in DOMAIN docs : docs[i].sources \subseteq merged.sources
  BY DEF All, sources
<1>3. \A source \in merged.sources : SourceAllowed(source)
  BY <1>1 DEF validate_unified_report
<1>4. ASSUME NEW s \in merged.sources, NEW t \in merged.sources, s.source_id = t.source_id
      PROVE  s = t
  <2>1. PICK i \in DOMAIN docs : s \in docs[i].sources
    BY <1>1
  <2>2. PICK j \in DOMAIN docs : t \in docs[j].sources
    BY <1>1
  <2>3. i = j
    BY <1>4, <2>1, <2>2 DEF NoDuplicates, SourceIds
  <2>4. QED
    BY <1>4, <2>1, <2>2, <2>3 DEF validate_unified_report, IdsUnique
<1>5. QED
  BY <1>2, <1>3, <1>4 DEF SourceIds

\* The same for assets, whose references lead to sources and, in recommended
\* actions, anywhere.
LEMMA UnitedAssets ==
    ASSUME NEW docs, NEW merged, merged.assets = All(docs, assets),
           \A i \in DOMAIN docs : validate_unified_report(docs[i]),
           \A i \in DOMAIN docs : /\ SourceIds(docs[i]) \subseteq SourceIds(merged)
                                  /\ FindingIds(docs[i]) \subseteq FindingIds(merged),
           NoDuplicates(docs, AssetIds)
    PROVE  /\ \A asset \in merged.assets : AssetAllowed(asset, merged)
           /\ \A a, b \in merged.assets : a.asset_id = b.asset_id => a = b
           /\ \A i \in DOMAIN docs : AssetIds(docs[i]) \subseteq AssetIds(merged)
<1>1. \A a \in merged.assets : \E i \in DOMAIN docs : a \in docs[i].assets
  BY DEF All, assets
<1>2. \A i \in DOMAIN docs : docs[i].assets \subseteq merged.assets
  BY DEF All, assets
<1>3. \A i \in DOMAIN docs : AssetIds(docs[i]) \subseteq AssetIds(merged)
  BY <1>2 DEF AssetIds
<1>4. ASSUME NEW asset \in merged.assets PROVE AssetAllowed(asset, merged)
  <2>1. PICK i \in DOMAIN docs : asset \in docs[i].assets
    BY <1>1
  <2>2. AssetAllowed(asset, docs[i])
    BY <2>1 DEF validate_unified_report
  <2>3. ReferencesResolve(asset.recommended_action, merged)
    BY <1>3, <2>2 DEF AssetAllowed, ReferencesResolve
  <2>4. NestedAllowed(asset.nested, SourceIds(merged))
    BY <2>2 DEF AssetAllowed, NestedAllowed
  <2>5. QED
    BY <2>2, <2>3, <2>4 DEF AssetAllowed, ReferenceAllowed
<1>5. ASSUME NEW a \in merged.assets, NEW b \in merged.assets, a.asset_id = b.asset_id
      PROVE  a = b
  <2>1. PICK i \in DOMAIN docs : a \in docs[i].assets
    BY <1>1
  <2>2. PICK j \in DOMAIN docs : b \in docs[j].assets
    BY <1>1
  <2>3. i = j
    BY <1>5, <2>1, <2>2 DEF NoDuplicates, AssetIds
  <2>4. QED
    BY <1>5, <2>1, <2>2, <2>3 DEF validate_unified_report, IdsUnique
<1>6. QED
  BY <1>3, <1>4, <1>5

\* The same for findings, each about an asset.
LEMMA UnitedFindings ==
    ASSUME NEW docs, NEW merged, merged.findings = All(docs, findings),
           \A i \in DOMAIN docs : validate_unified_report(docs[i]),
           \A i \in DOMAIN docs : /\ SourceIds(docs[i]) \subseteq SourceIds(merged)
                                  /\ AssetIds(docs[i]) \subseteq AssetIds(merged),
           NoDuplicates(docs, FindingIds)
    PROVE  /\ \A finding \in merged.findings : FindingAllowed(finding, merged)
           /\ \A f, g \in merged.findings : f.finding_id = g.finding_id => f = g
<1>1. \A f \in merged.findings : \E i \in DOMAIN docs : f \in docs[i].findings
  BY DEF All, findings
<1>2. ASSUME NEW finding \in merged.findings PROVE FindingAllowed(finding, merged)
  <2>1. PICK i \in DOMAIN docs : finding \in docs[i].findings
    BY <1>1
  <2>2. FindingAllowed(finding, docs[i])
    BY <2>1 DEF validate_unified_report
  <2>3. NestedAllowed(finding.nested, SourceIds(merged))
    BY <2>2 DEF FindingAllowed, NestedAllowed
  <2>4. QED
    BY <2>2, <2>3 DEF FindingAllowed, ReferenceAllowed
<1>3. ASSUME NEW f \in merged.findings, NEW g \in merged.findings, f.finding_id = g.finding_id
      PROVE  f = g
  <2>1. PICK i \in DOMAIN docs : f \in docs[i].findings
    BY <1>1
  <2>2. PICK j \in DOMAIN docs : g \in docs[j].findings
    BY <1>1
  <2>3. i = j
    BY <1>3, <2>1, <2>2 DEF NoDuplicates, FindingIds
  <2>4. QED
    BY <1>3, <2>1, <2>2, <2>3 DEF validate_unified_report, IdsUnique
<1>4. QED
  BY <1>2, <1>3

\* The same for actions, of which some have no identifier.
LEMMA UnitedActions ==
    ASSUME NEW docs, NEW merged, merged.actions = All(docs, actions),
           \A i \in DOMAIN docs : validate_unified_report(docs[i]),
           \A i \in DOMAIN docs : /\ SourceIds(docs[i]) \subseteq SourceIds(merged)
                                  /\ AssetIds(docs[i]) \subseteq AssetIds(merged)
                                  /\ FindingIds(docs[i]) \subseteq FindingIds(merged),
           NoDuplicates(docs, ActionIds)
    PROVE  /\ \A action \in merged.actions : ReferencesResolve(action.references, merged)
           /\ \A a, b \in merged.actions :
                 a.action_id = b.action_id /\ a.action_id # Missing => a = b
<1>1. \A a \in merged.actions : \E i \in DOMAIN docs : a \in docs[i].actions
  BY DEF All, actions
<1>2. ASSUME NEW action \in merged.actions PROVE ReferencesResolve(action.references, merged)
  <2>1. PICK i \in DOMAIN docs : action \in docs[i].actions
    BY <1>1
  <2>2. ReferencesResolve(action.references, docs[i])
    BY <2>1 DEF validate_unified_report
  <2>3. QED
    BY <2>2 DEF ReferencesResolve
<1>3. ASSUME NEW a \in merged.actions, NEW b \in merged.actions,
             a.action_id = b.action_id, a.action_id # Missing
      PROVE  a = b
  <2>1. PICK i \in DOMAIN docs : a \in docs[i].actions
    BY <1>1
  <2>2. PICK j \in DOMAIN docs : b \in docs[j].actions
    BY <1>1
  <2>3. i = j
    BY <1>3, <2>1, <2>2 DEF NoDuplicates, ActionIds
  <2>4. QED
    BY <1>3, <2>1, <2>2, <2>3 DEF validate_unified_report, IdsUnique
<1>4. QED
  BY <1>2, <1>3

\* What Composable lets through is merged into an acceptable report; its
\* overall status is the worst of those that went in.
LEMMA MergedIsSound ==
    ASSUME NEW n \in Nat, n > 0, NEW docs, DOMAIN docs = 1..n, NEW identifiers,
           Composable(docs, identifiers),
           \A i \in 1..n : docs[i].timestamp \in Timestamps
    PROVE  /\ validate_unified_report(Merged(docs, identifiers))
           /\ Merged(docs, identifiers).timestamp \in Timestamps
           /\ Merged(docs, identifiers).overall \in Statuses(docs)
           /\ \A s \in Statuses(docs) :
                 STATUS_PRIORITY[s] <= STATUS_PRIORITY[Merged(docs, identifiers).overall]
<1> DEFINE merged == Merged(docs, identifiers)
<1>1. /\ merged.timestamp = docs[Latest(docs)].timestamp
      /\ merged.overall  = WorstOf(Statuses(docs))
      /\ merged.sources  = All(docs, sources)
      /\ merged.assets   = All(docs, assets)
      /\ merged.findings = All(docs, findings)
      /\ merged.actions  = All(docs, actions)
  BY DEF Merged
<1> HIDE DEF merged
<1>2. \A i \in 1..n : validate_unified_report(docs[i])
  BY DEF Composable
<1>3. /\ NoDuplicates(docs, SourceIds)  /\ NoDuplicates(docs, AssetIds)
      /\ NoDuplicates(docs, FindingIds) /\ NoDuplicates(docs, ActionIds)
  BY DEF Composable, Disjoint
<1>4. IsUtc(merged.timestamp) /\ merged.timestamp \in Timestamps
  <2>1. Latest(docs) \in 1..n
    BY LatestExists
  <2>2. QED
    BY <1>1, <1>2, <2>1 DEF validate_unified_report
<1>5. /\ Statuses(docs) \in SUBSET VALID_OVERALL_STATUSES
      /\ Statuses(docs) # {}
  <2>1. \A i \in 1..n : docs[i].overall \in VALID_OVERALL_STATUSES
    BY <1>2 DEF validate_unified_report
  <2>2. docs[1].overall \in Statuses(docs)
    BY DEF Statuses
  <2>3. \A f \in All(docs, findings) : _finding_status(f) \in VALID_OVERALL_STATUSES
    BY DEF _finding_status, VALID_OVERALL_STATUSES
  <2>4. QED
    BY <2>1, <2>2, <2>3 DEF Statuses
<1>6. /\ merged.overall \in Statuses(docs) /\ merged.overall \in VALID_OVERALL_STATUSES
      /\ \A s \in Statuses(docs) : STATUS_PRIORITY[s] <= STATUS_PRIORITY[merged.overall]
  BY <1>1, <1>5, WorstOfIsWorst
<1>7. merged.sources # {} /\ merged.assets # {}
  <2>1. docs[1].sources # {} /\ docs[1].assets # {}
    BY <1>2 DEF validate_unified_report
  <2>2. QED
    BY <1>1, <2>1 DEF All, sources, assets
<1>8. \A i \in DOMAIN docs : FindingIds(docs[i]) \subseteq FindingIds(merged)
  BY <1>1 DEF FindingIds, All, findings
<1>9. /\ \A source \in merged.sources : SourceAllowed(source)
      /\ \A s, t \in merged.sources : s.source_id = t.source_id => s = t
      /\ \A i \in DOMAIN docs : SourceIds(docs[i]) \subseteq SourceIds(merged)
  BY <1>1, <1>2, <1>3, UnitedSources
<1>10. /\ \A asset \in merged.assets : AssetAllowed(asset, merged)
       /\ \A a, b \in merged.assets : a.asset_id = b.asset_id => a = b
       /\ \A i \in DOMAIN docs : AssetIds(docs[i]) \subseteq AssetIds(merged)
  BY <1>1, <1>2, <1>3, <1>8, <1>9, UnitedAssets
<1>11. /\ \A finding \in merged.findings : FindingAllowed(finding, merged)
       /\ \A f, g \in merged.findings : f.finding_id = g.finding_id => f = g
  BY <1>1, <1>2, <1>3, <1>9, <1>10, UnitedFindings
<1>12. /\ \A action \in merged.actions : ReferencesResolve(action.references, merged)
       /\ \A a, b \in merged.actions :
             a.action_id = b.action_id /\ a.action_id # Missing => a = b
  BY <1>1, <1>2, <1>3, <1>8, <1>9, <1>10, UnitedActions
<1>13. validate_unified_report(merged)
  BY <1>4, <1>6, <1>7, <1>9, <1>10, <1>11, <1>12 DEF validate_unified_report, IdsUnique
<1>14. QED
  BY <1>4, <1>6, <1>13 DEF merged

-----------------------------------------------------------------------------
\* The inputs of a command, as the composer reads them.
LEMMA InputFacts ==
    ASSUME IInv, NEW inputs \in CommandLines
    PROVE  \E n \in Nat : /\ n > 1 /\ DOMAIN inputs = 1..n
                          /\ DOMAIN Documents(inputs) = 1..n
                          /\ \A i \in 1..n : /\ inputs[i] \in Present
                                             /\ Documents(inputs)[i] = files[inputs[i]]
<1>1. PICK n \in 2..MaxInputs : inputs \in [1..n -> Present]
  BY DEF CommandLines
<1>2. QED
  BY <1>1 DEF Documents

LEMMA TimestampsFit ==
    ASSUME IInv, NEW inputs \in CommandLines, Composable(Documents(inputs), inputs)
    PROVE  \A i \in DOMAIN Documents(inputs) : Documents(inputs)[i].timestamp \in Timestamps
<1>1. PICK n \in Nat : /\ DOMAIN Documents(inputs) = 1..n
                       /\ \A i \in 1..n : /\ inputs[i] \in Present
                                          /\ Documents(inputs)[i] = files[inputs[i]]
  BY InputFacts
<1>2. \A i \in 1..n : IsUtc(files[inputs[i]].timestamp)
  BY <1>1 DEF Composable, validate_unified_report
<1>3. QED
  BY <1>1, <1>2 DEF IInv, TypeOK

\* The last line of compose_unified_reports never raises.
LEMMA FinalCheckNeverFailsLemma == IInv => FinalCheckNeverFails
<1> SUFFICES ASSUME IInv, NEW inputs \in CommandLines, Composable(Documents(inputs), inputs)
             PROVE  validate_unified_report(Merged(Documents(inputs), inputs))
  BY DEF FinalCheckNeverFails
<1>1. PICK n \in Nat : n > 1 /\ DOMAIN Documents(inputs) = 1..n
  BY InputFacts
<1>2. QED
  BY <1>1, TimestampsFit, MergedIsSound

\* What the invariant says of a path, without the types.
GoodFile(p) == /\ FileSound(p) /\ SameKind(p) /\ SameContents(p)
               /\ Apart(p) /\ StatusExplained(p)

\* A path that no action writes is as good as before.
LEMMA OthersStayGood ==
    ASSUME NEW p, files'[p] = files[p], origin'[p] = origin[p], p \in Present => GoodFile(p)
    PROVE  (p \in Present => GoodFile(p))'
  BY DEF GoodFile, Present, FileSound, IsComposed, SameKind, SameContents, Apart,
         StatusExplained, Evidence, validate_unified_report

LEMMA AuthorKeepsIInv ==
    ASSUME IInv, NEW p \in Paths, NEW doc \in Authored, Author(p, doc)
    PROVE  IInv'
<1>1. /\ files'[p] = doc /\ origin'[p] = {doc}
      /\ \A q \in Paths \ {p} : files'[q] = files[q] /\ origin'[q] = origin[q]
      /\ DOMAIN files' = Paths /\ DOMAIN origin' = Paths
  BY DEF Author, IInv, TypeOK
<1>2. doc.provenance = Missing /\ (IsUtc(doc.timestamp) => doc.timestamp \in Timestamps)
  BY AuthoredAssumption
<1>3. TypeOK'
  BY <1>1, <1>2 DEF TypeOK, IInv, Present
<1>4. GoodFile(p)'
  <2>1. FileSound(p)'
    BY <1>1, <1>2 DEF FileSound, IsComposed
  <2>2. SameKind(p)' /\ Apart(p)'
    BY <1>1 DEF SameKind, Apart
  <2>3. SameContents(p)'
    BY <1>1 DEF SameContents
  <2>4. StatusExplained(p)'
    BY <1>1, <1>2 DEF StatusExplained, Evidence, IsComposed
  <2>5. QED
    BY <2>1, <2>2, <2>3, <2>4 DEF GoodFile
<1>5. \A q \in Paths \ {p} : (q \in Present => GoodFile(q))'
  BY <1>1, OthersStayGood DEF IInv, GoodFile
<1>6. QED
  BY <1>3, <1>4, <1>5 DEF IInv, GoodFile, Present

\* A composition is good when its inputs are: every authored report behind it
\* is behind one of its inputs, and what is said of that input carries over.
LEMMA ComposedIsGood ==
    ASSUME IInv, NEW inputs \in CommandLines, NEW output \in Paths, Compose(inputs, output)
    PROVE  GoodFile(output)' /\ files'[output].timestamp \in Timestamps
<1> DEFINE docs   == Documents(inputs)
           merged == Merged(docs, inputs)
<1>1. PICK n \in Nat : /\ n > 1 /\ DOMAIN inputs = 1..n /\ DOMAIN docs = 1..n
                       /\ \A i \in 1..n : inputs[i] \in Present /\ docs[i] = files[inputs[i]]
  BY InputFacts
<1>2. Composable(docs, inputs) /\ compose_unified_reports(docs, inputs) = merged
  BY DEF Compose, compose_unified_reports
<1>3. /\ files'[output] = merged
      /\ origin'[output] = UNION {origin[inputs[i]] : i \in 1..n}
  BY <1>1, <1>2 DEF Compose, IInv, TypeOK
<1>4. \A i \in 1..n : GoodFile(inputs[i]) /\ validate_unified_report(docs[i])
  BY <1>1, <1>2 DEF IInv, GoodFile, Composable
<1>5. /\ validate_unified_report(merged) /\ merged.timestamp \in Timestamps
      /\ merged.overall \in Statuses(docs)
      /\ \A s \in Statuses(docs) : STATUS_PRIORITY[s] <= STATUS_PRIORITY[merged.overall]
  BY <1>1, <1>2, TimestampsFit, MergedIsSound
<1>6. /\ merged.platform = docs[1].platform
      /\ merged.data_classification = docs[1].data_classification
      /\ merged.sources  = UNION {docs[i].sources  : i \in 1..n}
      /\ merged.assets   = UNION {docs[i].assets   : i \in 1..n}
      /\ merged.findings = UNION {docs[i].findings : i \in 1..n}
      /\ merged.actions  = UNION {docs[i].actions  : i \in 1..n}
  BY <1>1 DEF Merged, All, sources, assets, findings, actions
<1>7. \A doc \in origin'[output] : \E i \in 1..n : doc \in origin[inputs[i]]
  BY <1>3
<1> HIDE DEF docs, merged
<1>8. FileSound(output)'
  <2>1. \A doc \in origin'[output] : validate_unified_report(doc)
    BY <1>1, <1>4, <1>7 DEF GoodFile, FileSound
  <2>2. QED
    BY <1>3, <1>5, <2>1 DEF FileSound
<1>9. SameKind(output)'
  <2>1. \A i \in 1..n : /\ docs[i].platform = merged.platform
                        /\ docs[i].data_classification = merged.data_classification
    BY <1>1, <1>2, <1>6 DEF Composable, SameProfile
  <2>2. QED
    BY <1>1, <1>3, <1>4, <1>7, <2>1 DEF GoodFile, SameKind
<1>10. SameContents(output)'
  <2>1. \A i \in 1..n : /\ docs[i].sources  = UNION {doc.sources  : doc \in origin[inputs[i]]}
                        /\ docs[i].assets   = UNION {doc.assets   : doc \in origin[inputs[i]]}
                        /\ docs[i].findings = UNION {doc.findings : doc \in origin[inputs[i]]}
                        /\ docs[i].actions  = UNION {doc.actions  : doc \in origin[inputs[i]]}
    BY <1>1, <1>4 DEF GoodFile, SameContents
  <2>2. merged.sources = UNION {doc.sources : doc \in origin'[output]}
    BY <1>3, <1>6, <2>1
  <2>3. merged.assets = UNION {doc.assets : doc \in origin'[output]}
    BY <1>3, <1>6, <2>1
  <2>4. merged.findings = UNION {doc.findings : doc \in origin'[output]}
    BY <1>3, <1>6, <2>1
  <2>5. merged.actions = UNION {doc.actions : doc \in origin'[output]}
    BY <1>3, <1>6, <2>1
  <2>6. QED
    BY <1>3, <2>2, <2>3, <2>4, <2>5 DEF SameContents
<1>11. Apart(output)'
  <2> SUFFICES ASSUME NEW c \in origin'[output], NEW d \in origin'[output], c # d
               PROVE  /\ SourceIds(c)  \cap SourceIds(d) = {}
                      /\ AssetIds(c)   \cap AssetIds(d) = {}
                      /\ FindingIds(c) \cap FindingIds(d) = {}
                      /\ ActionIds(c)  \cap ActionIds(d) = {}
    BY DEF Apart
  <2>1. PICK i \in 1..n : c \in origin[inputs[i]]
    BY <1>7
  <2>2. PICK j \in 1..n : d \in origin[inputs[j]]
    BY <1>7
  <2>3. CASE i = j
    BY <1>4, <2>1, <2>2, <2>3 DEF GoodFile, Apart
  <2>4. CASE i # j
    <3>1. \A k \in 1..n : \A doc \in origin[inputs[k]] :
             /\ SourceIds(doc) \subseteq SourceIds(docs[k])
             /\ AssetIds(doc) \subseteq AssetIds(docs[k])
             /\ FindingIds(doc) \subseteq FindingIds(docs[k])
             /\ ActionIds(doc) \subseteq ActionIds(docs[k])
      BY <1>1, <1>4 DEF GoodFile, SameContents, SourceIds, AssetIds, FindingIds, ActionIds
    <3>2. /\ SourceIds(docs[i])  \cap SourceIds(docs[j]) = {}
          /\ AssetIds(docs[i])   \cap AssetIds(docs[j]) = {}
          /\ FindingIds(docs[i]) \cap FindingIds(docs[j]) = {}
          /\ ActionIds(docs[i])  \cap ActionIds(docs[j]) = {}
      BY <1>1, <1>2, <2>4 DEF Composable, Disjoint, NoDuplicates
    <3>3. QED
      BY <2>1, <2>2, <3>1, <3>2
  <2>5. QED
    BY <2>3, <2>4
<1>12. StatusExplained(output)'
  <2>1. /\ merged.overall \in VALID_OVERALL_STATUSES
        /\ \A i \in 1..n : docs[i].overall \in VALID_OVERALL_STATUSES
        /\ \A i \in 1..n : \A doc \in origin[inputs[i]] : doc.overall \in VALID_OVERALL_STATUSES
    BY <1>1, <1>4, <1>5 DEF validate_unified_report, GoodFile, FileSound
  <2>2. \A s \in VALID_OVERALL_STATUSES : STATUS_PRIORITY[s] \in Int
    BY DEF VALID_OVERALL_STATUSES, STATUS_PRIORITY
  <2>3. /\ \A i \in 1..n : docs[i].overall \in Statuses(docs)
        /\ \A f \in merged.findings : _finding_status(f) \in Statuses(docs)
        /\ \A s \in Statuses(docs) : \/ \E i \in 1..n : s = docs[i].overall
                                     \/ \E f \in merged.findings : s = _finding_status(f)
    BY <1>1, <1>6 DEF Statuses, All, findings
  <2>4. \A i \in 1..n : \A doc \in origin[inputs[i]] :
           \/ doc.overall = docs[i].overall
           \/ STATUS_PRIORITY[doc.overall] <= STATUS_PRIORITY[docs[i].overall]
    BY <1>1, <1>4 DEF GoodFile, StatusExplained
  <2>5. \A doc \in origin'[output] :
           STATUS_PRIORITY[doc.overall] <= STATUS_PRIORITY[merged.overall]
    BY <1>5, <1>7, <2>1, <2>2, <2>3, <2>4
  <2>6. merged.overall \in Evidence(output)'
    <3>1. ASSUME NEW i \in 1..n, merged.overall = docs[i].overall
          PROVE  merged.overall \in Evidence(output)'
      <4>1. docs[i].overall \in Evidence(inputs[i])
        BY <1>1, <1>4 DEF GoodFile, StatusExplained
      <4>2. origin[inputs[i]] \subseteq origin'[output] /\ docs[i].findings \subseteq merged.findings
        BY <1>3, <1>6
      <4>3. QED
        BY <1>1, <1>3, <3>1, <4>1, <4>2 DEF Evidence
    <3>2. ASSUME NEW f \in merged.findings, merged.overall = _finding_status(f)
          PROVE  merged.overall \in Evidence(output)'
      BY <1>3, <3>2 DEF Evidence, _finding_status
    <3>3. QED
      BY <1>5, <2>3, <3>1, <3>2
  <2>7. QED
    BY <1>3, <1>5, <2>3, <2>5, <2>6 DEF StatusExplained, _finding_status
<1>13. QED
  BY <1>3, <1>5, <1>8, <1>9, <1>10, <1>11, <1>12 DEF GoodFile

LEMMA ComposeKeepsIInv ==
    ASSUME IInv, NEW inputs \in CommandLines, NEW output \in Paths, Compose(inputs, output)
    PROVE  IInv'
<1>1. GoodFile(output)' /\ files'[output].timestamp \in Timestamps
  BY ComposedIsGood
<1>2. /\ \A q \in Paths \ {output} : files'[q] = files[q] /\ origin'[q] = origin[q]
      /\ DOMAIN files' = Paths /\ DOMAIN origin' = Paths
      /\ origin'[output] = UNION {origin[inputs[i]] : i \in DOMAIN inputs}
  BY DEF Compose, IInv, TypeOK
<1>3. \A i \in DOMAIN inputs : inputs[i] \in Paths
  BY InputFacts DEF Present
<1>4. TypeOK'
  BY <1>1, <1>2, <1>3 DEF TypeOK, IInv, Present
<1>5. \A q \in Paths \ {output} : (q \in Present => GoodFile(q))'
  BY <1>2, OthersStayGood DEF IInv, GoodFile
<1>6. QED
  BY <1>1, <1>4, <1>5 DEF IInv, GoodFile, Present

\* The invariant holds in every state of every behaviour.
THEOREM IInvHolds == Spec => []IInv
<1>1. Init => IInv
  BY DEF Init, IInv, TypeOK, Present
<1>2. IInv /\ [Next]_vars => IInv'
  <2> SUFFICES ASSUME IInv, [Next]_vars PROVE IInv'
    OBVIOUS
  <2>1. ASSUME NEW p \in Paths, NEW doc \in Authored, Author(p, doc) PROVE IInv'
    BY <2>1, AuthorKeepsIInv
  <2>2. ASSUME NEW output \in Paths, NEW inputs \in CommandLines, Compose(inputs, output)
        PROVE  IInv'
    BY <2>2, ComposeKeepsIInv
  <2>3. CASE UNCHANGED vars
    <3>1. TypeOK'
      BY <2>3 DEF vars, IInv, TypeOK, Present
    <3>2. \A q \in Paths : (q \in Present => GoodFile(q))'
      BY <2>3, OthersStayGood DEF vars, IInv, GoodFile
    <3>3. QED
      BY <3>1, <3>2 DEF IInv, GoodFile, Present
  <2>4. QED
    BY <2>1, <2>2, <2>3 DEF Next
<1>3. QED
  BY <1>1, <1>2, PTL DEF Spec

-----------------------------------------------------------------------------
\* Every file goes back to authored reports and has a timestamp that the
\* composer can compare with others.
THEOREM TypeCorrect == Spec => []TypeOK
  BY IInvHolds, PTL DEF IInv

\* What the checks of the inputs let through always passes the check of the
\* output: the composer never fails at its last line.
THEOREM FinalCheckIsRedundant == Spec => []FinalCheckNeverFails
  BY IInvHolds, FinalCheckNeverFailsLemma, PTL

\* Nothing unacceptable is repaired by composing it with something else.
THEOREM CompositionRepairsNothing == Spec => []OriginsWereSound
<1>1. IInv => OriginsWereSound
  BY DEF IInv, FileSound, OriginsWereSound, Composed, IsComposed
<1>2. QED
  BY <1>1, IInvHolds, PTL

\* A composition of any depth holds what its authored reports hold, and each
\* thing from one of them.
THEOREM CompositionKeepsEverything == Spec => []NothingLostNothingTwice
<1>1. IInv => NothingLostNothingTwice
  BY DEF IInv, NothingLostNothingTwice, Composed, IsComposed
<1>2. QED
  BY <1>1, IInvHolds, PTL

\* No report changes its classification by being composed.
THEOREM ClassificationIsKept == Spec => []ClassificationIsTrue
<1>1. IInv => ClassificationIsTrue
  BY DEF IInv, ClassificationIsTrue, Composed, IsComposed
<1>2. QED
  BY <1>1, IInvHolds, PTL

\* The overall status of a composition of any depth is the worst that its
\* authored reports and findings give reason for, and not worse.
THEOREM StatusIsTheWorst == Spec => []WorstEvidenceShows
<1>1. ASSUME IInv, NEW p \in Composed
      PROVE  LET said    == {doc.overall : doc \in origin[p]}
                 found   == UNION {doc.findings : doc \in origin[p]}
                 Failing == \E f \in found : f.status = "FAIL" \/ f.confirmed_vulnerability
                 Open    == \E f \in found : f.status = "UNKNOWN"
             IN  files[p].overall =
                   IF "CRITICAL" \in said                 THEN "CRITICAL"
                   ELSE IF "AT_RISK" \in said \/ Failing  THEN "AT_RISK"
                   ELSE IF "INCOMPLETE" \in said \/ Open  THEN "INCOMPLETE"
                   ELSE "HEALTHY"
  <2>1. /\ p \in Present /\ IsComposed(p) /\ StatusExplained(p)
        /\ validate_unified_report(files[p])
        /\ \A doc \in origin[p] : doc.overall \in VALID_OVERALL_STATUSES
        /\ files[p].findings = UNION {doc.findings : doc \in origin[p]}
    BY <1>1 DEF IInv, Composed, IsComposed, FileSound, SameContents, validate_unified_report
  <2>2. /\ files[p].overall \in VALID_OVERALL_STATUSES
        /\ \A doc \in origin[p] :
              \/ doc.overall = files[p].overall
              \/ STATUS_PRIORITY[doc.overall] <= STATUS_PRIORITY[files[p].overall]
        /\ \A f \in files[p].findings :
              STATUS_PRIORITY[_finding_status(f)] <= STATUS_PRIORITY[files[p].overall]
        /\ \/ \E doc \in origin[p] : files[p].overall = doc.overall
           \/ \E f \in files[p].findings : files[p].overall = _finding_status(f)
    BY <2>1 DEF StatusExplained, Evidence, validate_unified_report
  <2>3. /\ STATUS_PRIORITY["HEALTHY"] = 0 /\ STATUS_PRIORITY["INCOMPLETE"] = 1
        /\ STATUS_PRIORITY["AT_RISK"] = 2 /\ STATUS_PRIORITY["CRITICAL"] = 3
    BY DEF STATUS_PRIORITY
  <2>4. QED
    BY <2>1, <2>2, <2>3 DEF VALID_OVERALL_STATUSES, _finding_status
<1>2. IInv => WorstEvidenceShows
  BY <1>1 DEF WorstEvidenceShows
<1>3. QED
  BY <1>2, IInvHolds, PTL

-----------------------------------------------------------------------------
\* Timestamps neither of which is later are equal.
LEMMA SameMoment ==
    ASSUME NEW s \in Timestamps, NEW t \in Timestamps, ~ Later(s, t), ~ Later(t, s)
    PROVE  s = t
  BY DEF Later, Timestamps

\* What HistoryInv says of one path.
Explained(p) == /\ p \in Present => IsFiniteSet(origin[p]) /\ TimeExplained(p)
                /\ IsComposed(p) => WellFormed(p) /\ AccountedFor(p)

LEMMA OthersStayExplained ==
    ASSUME NEW p, files'[p] = files[p], origin'[p] = origin[p], Explained(p)
    PROVE  Explained(p)'
  BY DEF Explained, Present, IsComposed, TimeExplained, WellFormed, AccountedFor, SourceIds

LEMMA AuthorExplains ==
    ASSUME IInv, NEW p \in Paths, NEW doc \in Authored, Author(p, doc)
    PROVE  Explained(p)'
<1>1. files'[p] = doc /\ origin'[p] = {doc}
  BY DEF Author, IInv, TypeOK
<1>2. doc.provenance = Missing /\ (IsUtc(doc.timestamp) => doc.timestamp \in Timestamps)
  BY AuthoredAssumption
<1>3. IsFiniteSet({doc})
  BY FS_Singleton
<1>4. IsUtc(doc.timestamp) => ~ Later(doc.timestamp, doc.timestamp)
  BY <1>2, LaterIsStrict
<1>5. TimeExplained(p)'
  BY <1>1, <1>2, <1>4 DEF TimeExplained
<1>6. QED
  BY <1>1, <1>2, <1>3, <1>5 DEF Explained, IsComposed

\* The inputs of a composition share no source, so its provenance names the
\* one input each source is from.
LEMMA ProvenanceOfMerged ==
    ASSUME NEW n \in Nat, NEW docs, DOMAIN docs = 1..n, NEW identifiers,
           Composable(docs, identifiers), NEW id \in SourceIds(Merged(docs, identifiers))
    PROVE  Cardinality({input \in Merged(docs, identifiers).provenance :
                            id \in input.evidence_source_ids}) = 1
<1> DEFINE merged == Merged(docs, identifiers)
           Entry(i) == ProvenanceOf(docs[i], identifiers[i])
           named == {input \in merged.provenance : id \in input.evidence_source_ids}
<1>1. /\ merged.sources = UNION {docs[i].sources : i \in 1..n}
      /\ merged.provenance = {Entry(i) : i \in 1..n}
  BY DEF Merged, All, sources
<1>2. PICK k \in 1..n : id \in SourceIds(docs[k])
  BY <1>1 DEF SourceIds
<1>3. \A i \in 1..n : i # k => id \notin SourceIds(docs[i])
  BY <1>2 DEF Composable, Disjoint, NoDuplicates
<1>4. \A i \in 1..n : Entry(i).evidence_source_ids = SourceIds(docs[i])
  BY DEF ProvenanceOf
<1> HIDE DEF merged, Entry
<1>5. named = {Entry(k)}
  BY <1>1, <1>2, <1>3, <1>4
<1>6. QED
  BY <1>5, FS_Singleton DEF merged

LEMMA ComposedIsExplained ==
    ASSUME IInv, HistoryInv, NEW inputs \in CommandLines, NEW output \in Paths,
           Compose(inputs, output)
    PROVE  Explained(output)'
<1> DEFINE docs   == Documents(inputs)
           merged == Merged(docs, inputs)
           last   == Latest(docs)
<1>1. PICK n \in Nat : /\ n > 1 /\ DOMAIN inputs = 1..n /\ DOMAIN docs = 1..n
                       /\ \A i \in 1..n : inputs[i] \in Present /\ docs[i] = files[inputs[i]]
  BY InputFacts
<1>2. Composable(docs, inputs) /\ compose_unified_reports(docs, inputs) = merged
  BY DEF Compose, compose_unified_reports
<1>3. /\ files'[output] = merged
      /\ origin'[output] = UNION {origin[inputs[i]] : i \in 1..n}
  BY <1>1, <1>2 DEF Compose, IInv, TypeOK
<1>4. \A i \in 1..n : docs[i].timestamp \in Timestamps /\ IsUtc(docs[i].timestamp)
  BY <1>1, <1>2, TimestampsFit DEF Composable, validate_unified_report
<1>5. last \in 1..n /\ \A j \in 1..n : ~ Later(docs[j].timestamp, docs[last].timestamp)
  BY <1>1, <1>4, LatestExists
<1>6. merged.timestamp = docs[last].timestamp
  BY DEF Merged
<1>7. \A i \in 1..n : IsFiniteSet(origin[inputs[i]]) /\ TimeExplained(inputs[i])
  BY <1>1 DEF HistoryInv
<1>8. IsFiniteSet(origin'[output])
  <2> DEFINE parts == {origin[inputs[i]] : i \in 1..n}
  <2>1. IsFiniteSet(1..n)
    BY FS_Interval
  <2>2. IsFiniteSet(parts)
    <3> DEFINE f == [i \in 1..n |-> origin[inputs[i]]]
    <3>1. f \in Surjection(1..n, parts)
      BY DEF Surjection
    <3>2. QED
      BY <2>1, <3>1, FS_Surjection
  <2>3. \A part \in parts : IsFiniteSet(part)
    BY <1>7
  <2> HIDE DEF parts
  <2>4. IsFiniteSet(UNION parts)
    BY <2>2, <2>3, FS_UNION
  <2>5. QED
    BY <1>3, <2>4 DEF parts
<1> HIDE DEF docs, last
<1>9. TimeExplained(output)'
  <2>1. \A doc \in origin'[output] :
           /\ doc.timestamp \in Timestamps /\ ~ Later(doc.timestamp, merged.timestamp)
    <3> SUFFICES ASSUME NEW doc \in origin'[output]
                 PROVE  /\ doc.timestamp \in Timestamps
                        /\ ~ Later(doc.timestamp, merged.timestamp)
      OBVIOUS
    <3>1. PICK i \in 1..n : doc \in origin[inputs[i]]
      BY <1>3
    <3>2. doc.timestamp \in Timestamps /\ ~ Later(doc.timestamp, docs[i].timestamp)
      BY <1>1, <1>4, <1>7, <3>1 DEF TimeExplained
    <3> HIDE DEF merged
    <3>3. QED
      BY <1>4, <1>5, <1>6, <3>2, LaterIsStrict
  <2>2. PICK doc \in origin[inputs[last]] : doc.timestamp = docs[last].timestamp
    BY <1>1, <1>4, <1>5, <1>7 DEF TimeExplained
  <2>3. doc \in origin'[output]
    BY <1>3, <1>5
  <2> HIDE DEF merged
  <2>4. QED
    BY <1>3, <1>6, <2>1, <2>2, <2>3 DEF TimeExplained
<1>10. WellFormed(output)'
  BY <1>3 DEF WellFormed, Merged
<1>11. AccountedFor(output)'
  <2>1. \A id \in SourceIds(merged) :
           Cardinality({input \in merged.provenance : id \in input.evidence_source_ids}) = 1
    BY <1>1, <1>2, ProvenanceOfMerged
  <2>2. ASSUME NEW input \in merged.provenance
        PROVE  ~ Later(input.timestamp, merged.timestamp)
    <3>1. PICK i \in 1..n : input = ProvenanceOf(docs[i], inputs[i])
      BY <1>1 DEF Merged
    <3>2. input.timestamp = docs[i].timestamp
      BY <3>1 DEF ProvenanceOf
    <3>3. QED
      BY <1>5, <1>6, <3>2
  <2> HIDE DEF merged
  <2>3. QED
    BY <1>3, <2>1, <2>2 DEF AccountedFor, SourceIds
<1>12. QED
  BY <1>8, <1>9, <1>10, <1>11 DEF Explained

\* The invariant of the history of compositions.
LEMMA HistoryHolds == Spec => []HistoryInv
<1>1. HistoryInv <=> \A p \in Paths : Explained(p)
  BY DEF HistoryInv, Explained, Present, Composed, IsComposed
<1>2. Init => HistoryInv
  BY DEF Init, HistoryInv, Present, Composed, IsComposed
<1>3. IInv /\ HistoryInv /\ [Next]_vars => HistoryInv'
  <2> SUFFICES ASSUME IInv, HistoryInv, [Next]_vars
               PROVE  \A p \in Paths : Explained(p)'
    BY DEF HistoryInv, Explained, Present, Composed, IsComposed
  <2>1. ASSUME NEW p \in Paths, NEW doc \in Authored, Author(p, doc)
        PROVE  \A q \in Paths : Explained(q)'
    <3>1. \A q \in Paths \ {p} : files'[q] = files[q] /\ origin'[q] = origin[q]
      BY <2>1 DEF Author, IInv, TypeOK
    <3>2. QED
      BY <1>1, <2>1, <3>1, AuthorExplains, OthersStayExplained
  <2>2. ASSUME NEW output \in Paths, NEW inputs \in CommandLines, Compose(inputs, output)
        PROVE  \A q \in Paths : Explained(q)'
    <3>1. \A q \in Paths \ {output} : files'[q] = files[q] /\ origin'[q] = origin[q]
      BY <2>2 DEF Compose, IInv, TypeOK
    <3>2. QED
      BY <1>1, <2>2, <3>1, ComposedIsExplained, OthersStayExplained
  <2>3. CASE UNCHANGED vars
    BY <1>1, <2>3, OthersStayExplained DEF vars
  <2>4. QED
    BY <2>1, <2>2, <2>3 DEF Next
<1>4. QED
  BY <1>2, <1>3, IInvHolds, PTL DEF Spec

\* Of every source in a composition the provenance names exactly one input,
\* and no input is later than the composition.
THEOREM ProvenanceIsKept == Spec => []ProvenanceAccounts
<1>1. HistoryInv => ProvenanceAccounts
  BY DEF HistoryInv, ProvenanceAccounts
<1>2. QED
  BY <1>1, HistoryHolds, PTL

\* Composing in steps, in any order and to any depth, leads to the report that
\* composing all the authored reports at once would make.
THEOREM OrderOfComposingDoesNotMatter == Spec => []HistoryDoesNotMatter
<1>1. ASSUME IInv, HistoryInv, NEW p \in Composed,
             NEW docs \in [1..Cardinality(origin[p]) -> origin[p]],
             {docs[i] : i \in 1..Cardinality(origin[p])} = origin[p]
      PROVE  [Merged(docs, [i \in 1..Cardinality(origin[p]) |-> i])
                EXCEPT !.provenance = files[p].provenance] = files[p]
  <2> DEFINE n == Cardinality(origin[p])
             ids == [i \in 1..n |-> i]
             merged == Merged(docs, ids)
  <2>1. /\ p \in Present /\ IsComposed(p) /\ SameKind(p) /\ SameContents(p)
        /\ StatusExplained(p) /\ validate_unified_report(files[p])
        /\ \A doc \in origin[p] : validate_unified_report(doc)
        /\ IsFiniteSet(origin[p]) /\ TimeExplained(p) /\ WellFormed(p)
    BY <1>1 DEF IInv, HistoryInv, Composed, IsComposed, FileSound
  <2>2. /\ files[p].timestamp \in Timestamps
        /\ \A doc \in origin[p] : /\ doc.timestamp \in Timestamps
                                 /\ ~ Later(doc.timestamp, files[p].timestamp)
        /\ \E doc \in origin[p] : doc.timestamp = files[p].timestamp
    BY <1>1, <2>1 DEF IInv, TypeOK, TimeExplained, validate_unified_report
  <2>3. n \in Nat /\ n > 0 /\ DOMAIN docs = 1..n
    <3>1. n \in Nat /\ n # 0
      BY <2>1, <2>2, FS_CardinalityType, FS_EmptySet
    <3>2. QED
      BY <3>1
  <2> HIDE DEF n
  <2>4. /\ \A i \in 1..n : docs[i] \in origin[p]
        /\ \A doc \in origin[p] : \E i \in 1..n : doc = docs[i]
    BY <1>1 DEF n
  <2>5. docs[Latest(docs)].timestamp = files[p].timestamp
    <3>1. /\ Latest(docs) \in 1..n
          /\ \A j \in 1..n : ~ Later(docs[j].timestamp, docs[Latest(docs)].timestamp)
      BY <2>2, <2>3, <2>4, LatestExists
    <3>2. ~ Later(files[p].timestamp, docs[Latest(docs)].timestamp)
      BY <2>2, <2>4, <3>1
    <3>3. QED
      BY <2>2, <2>4, <3>1, <3>2, SameMoment
  <2>6. /\ All(docs, sources) = files[p].sources
        /\ All(docs, assets) = files[p].assets
        /\ All(docs, findings) = files[p].findings
        /\ All(docs, actions) = files[p].actions
    BY <2>1, <2>3, <2>4 DEF All, sources, assets, findings, actions, SameContents
  <2>7. /\ docs[1].platform = files[p].platform
        /\ docs[1].data_classification = files[p].data_classification
    BY <2>1, <2>3, <2>4 DEF SameKind
  <2>8. WorstOf(Statuses(docs)) = files[p].overall
    <3>1. Statuses(docs) = Evidence(p)
      BY <2>3, <2>4, <2>6 DEF Statuses, Evidence
    <3>2. Evidence(p) \in SUBSET VALID_OVERALL_STATUSES /\ files[p].overall \in Evidence(p)
      BY <2>1 DEF Evidence, StatusExplained, validate_unified_report, _finding_status,
                  VALID_OVERALL_STATUSES
    <3>3. /\ WorstOf(Evidence(p)) \in Evidence(p)
          /\ STATUS_PRIORITY[files[p].overall] <= STATUS_PRIORITY[WorstOf(Evidence(p))]
      BY <3>2, WorstOfIsWorst
    <3>4. \/ WorstOf(Evidence(p)) = files[p].overall
          \/ STATUS_PRIORITY[WorstOf(Evidence(p))] <= STATUS_PRIORITY[files[p].overall]
      BY <2>1, <3>3 DEF StatusExplained, Evidence
    <3>5. /\ STATUS_PRIORITY["HEALTHY"] = 0 /\ STATUS_PRIORITY["INCOMPLETE"] = 1
          /\ STATUS_PRIORITY["AT_RISK"] = 2 /\ STATUS_PRIORITY["CRITICAL"] = 3
      BY DEF STATUS_PRIORITY
    <3> DEFINE worst == WorstOf(Evidence(p))
               overall == files[p].overall
    <3>6. worst \in VALID_OVERALL_STATUSES /\ overall \in VALID_OVERALL_STATUSES
      BY <3>2, <3>3
    <3> HIDE DEF worst, overall
    <3>7. worst = overall
      BY <3>3, <3>4, <3>5, <3>6 DEF VALID_OVERALL_STATUSES, worst, overall
    <3>8. QED
      BY <3>1, <3>7 DEF worst, overall
  <2>9. merged = [timestamp |-> files[p].timestamp, platform |-> files[p].platform,
                  data_classification |-> files[p].data_classification,
                  overall |-> files[p].overall, sources |-> files[p].sources,
                  assets |-> files[p].assets, findings |-> files[p].findings,
                  actions |-> files[p].actions, provenance |-> merged.provenance]
    BY <2>5, <2>6, <2>7, <2>8 DEF Merged
  <2> HIDE DEF merged
  <2>10. [merged EXCEPT !.provenance = files[p].provenance] = files[p]
    BY <2>1, <2>9 DEF WellFormed
  <2>11. QED
    BY <2>10 DEF merged, ids, n
<1>2. IInv /\ HistoryInv => HistoryDoesNotMatter
  BY <1>1 DEF HistoryDoesNotMatter
<1>3. QED
  BY <1>2, IInvHolds, HistoryHolds, PTL
=============================================================================
