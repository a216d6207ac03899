----------------------- MODULE RepositoryPreflight_proofs -----------------------
(***************************************************************************)
(* Proofs about RepositoryPreflight, for any tree, any names, any texts of *)
(* agent files and any number of changes while the command runs.           *)
(***************************************************************************)
EXTENDS RepositoryPreflight, WellFoundedInduction, SequenceTheorems, TLAPS

\* What the rules find nothing wrong with is no blocker, and no report.
LEMMA NoReasonNoBlocker ==
    ASSUME NEW path, NEW is_dir \in BOOLEAN, _versioned_artifact_reason(path, is_dir) = ""
    PROVE  /\ ~ Blocker(path)
           /\ ~ is_dir /\ "reports" \in Parts(path) => NameOf(path) \in ExampleNames
<1> DEFINE name == NameOf(path)
<1>1. CASE name \in ExampleNames
  BY <1>1 DEF Blocker
<1>2. CASE name \notin ExampleNames /\ is_dir /\ name = "reports"
  BY <1>2, NamesAssumption DEF Blocker, _versioned_artifact_reason, _is_sensitive_tfvars_example
<1>3. CASE name \notin ExampleNames /\ ~ (is_dir /\ name = "reports")
  <2>1. /\ ".terraform" \notin Parts(path) /\ ~ ("reports" \in Parts(path) /\ ~ is_dir)
        /\ ArtifactName(name) = ""
    BY <1>3 DEF _versioned_artifact_reason, _is_sensitive_tfvars_example
  <2>2. name \notin {".env"} \cup TfstateNames \cup TfvarsNames \cup ZipNames \cup ProviderNames
    BY <1>3, <2>1 DEF ArtifactName, _is_tfstate_name, _is_real_tfvars_name, _is_zip_name,
                      _is_provider_binary_name
  <2>3. QED
    BY <2>1, <2>2 DEF Blocker
<1>4. QED
  BY <1>1, <1>2, <1>3

\* A set of line numbers has a last one.
LEMMA LastExists ==
    ASSUME NEW n \in Nat, NEW at \in SUBSET (1 .. n), at # {}
    PROVE  \E i \in at : \A j \in at : j <= i
<1> DEFINE T == {n - i : i \in at}
<1>1. T \subseteq Nat /\ T # {}
  <2>1. \A i \in at : n - i \in Nat
    OBVIOUS
  <2>2. \E i \in at : n - i \in T
    OBVIOUS
  <2>3. QED
    BY <2>1, <2>2
<1>2. PICK x \in T : \A y \in T : ~ (<<y, x>> \in OpToRel(<, Nat))
  <2> HIDE DEF T
  <2>1. QED
    BY <1>1, NatLessThanWellFounded, WFMin
<1>3. \A y \in T : ~ (y < x)
  BY <1>1, <1>2 DEF OpToRel
<1>4. PICK i \in at : x = n - i
  OBVIOUS
<1>5. \A j \in at : ~ (n - j < n - i)
  BY <1>3, <1>4
<1>6. QED
  BY <1>5

\* An agent file with which nothing is wrong only reviews.
LEMMA NothingWrongOnlyReviews ==
    ASSUME NEW content \in DOMAIN TextOf, NEW name, AgentReasons(name, TextOf[content]) = {}
    PROVE  OnlyReviews(TextOf[content])
<1> DEFINE text == TextOf[content]
           lines == text.lines
           at == {i \in DOMAIN lines : lines[i].key = "tools"}
<1>1. text.broken = ""
  BY DEF AgentReasons
<1>2. /\ Sentences \subseteq text.sentences
      /\ \A occurrence \in text.phrases : occurrence.negated
  <2>1. _validate_agent_body(text) = {}
    BY <1>1 DEF AgentReasons
  <2>2. Sentences \subseteq text.sentences
    BY <2>1 DEF _validate_agent_body
  <2>3. ASSUME NEW occurrence \in text.phrases, ~ occurrence.negated PROVE FALSE
    <3>1. occurrence = [phrase |-> occurrence.phrase, negated |-> FALSE]
      BY <2>3, ContentsAssumption
    <3>2. _contains_unnegated_phrase(text, occurrence.phrase)
      BY <3>1 DEF _contains_unnegated_phrase
    <3>3. QED
      BY <2>1, <3>2 DEF _validate_agent_body
  <2>4. QED
    BY <2>2, <2>3
<1>3. _validate_agent_frontmatter(lines) = {}
  BY <1>1 DEF AgentReasons
<1>4. FieldOf(lines, "tools") = AGENT_TOOLS_ALLOWLIST /\ FieldOf(lines, "tools") # Missing
  BY <1>3 DEF _validate_agent_frontmatter, AGENT_REQUIRED_FIELDS
<1>5. at # {} /\ FieldOf(lines, "tools") = lines[CHOOSE i \in at : \A j \in at : j <= i].value
  BY <1>4 DEF FieldOf
<1>6. PICK i \in at : lines[i].value = AGENT_TOOLS_ALLOWLIST /\ \A j \in at : j <= i
  <2>1. Len(lines) \in Nat /\ DOMAIN lines = 1 .. Len(lines)
    BY ContentsAssumption
  <2>2. \E i \in at : \A j \in at : j <= i
    <3>1. at \in SUBSET (1 .. Len(lines))
      BY <2>1
    <3> HIDE DEF at
    <3>2. QED
      BY <1>5, <2>1, <3>1, LastExists
  <2>3. QED
    BY <1>4, <1>5, <2>2
<1>7. QED
  BY <1>1, <1>2, <1>6 DEF OnlyReviews

\* To be beneath a directory is to begin with its names.
LEMMA BeneathMeans ==
    ASSUME NEW p \in Seq(Names), NEW d \in Seq(Names)
    PROVE  IsBeneath(p, d) <=> Len(d) < Len(p) /\ \A i \in 1 .. Len(d) : p[i] = d[i]
<1>1. CASE Len(d) < Len(p)
  <2>1. \A i \in 1 .. Len(d) : p[i] \in Names
    BY <1>1, ElementOfSeq
  <2>2. /\ SubSeq(p, 1, Len(d)) \in Seq(Names) /\ Len(SubSeq(p, 1, Len(d))) = Len(d)
        /\ \A i \in 1 .. Len(d) : SubSeq(p, 1, Len(d))[i] = p[i]
    BY <2>1, SubSeqProperties
  <2>3. QED
    BY <1>1, <2>2, SeqEqual DEF IsBeneath
<1>2. QED
  BY <1>1 DEF IsBeneath

LEMMA BeneathIsTransitive ==
    ASSUME NEW p \in Seq(Names), NEW d \in Seq(Names), NEW e \in Seq(Names),
           IsBeneath(p, d), IsBeneath(d, e)
    PROVE  IsBeneath(p, e)
<1>1. /\ Len(d) < Len(p) /\ \A i \in 1 .. Len(d) : p[i] = d[i]
      /\ Len(e) < Len(d) /\ \A i \in 1 .. Len(e) : d[i] = e[i]
  BY BeneathMeans
<1>2. QED
  BY <1>1, BeneathMeans

LEMMA AppendIsBeneath ==
    ASSUME NEW d \in Seq(Names), NEW name \in Names
    PROVE  Append(d, name) \in Seq(Names) /\ IsBeneath(Append(d, name), d)
<1>1. /\ Append(d, name) \in Seq(Names) /\ Len(d) < Len(Append(d, name))
      /\ \A i \in 1 .. Len(d) : Append(d, name)[i] = d[i]
  BY AppendProperties
<1>2. QED
  BY <1>1, BeneathMeans

\* What is above a path is its parent or above it.
LEMMA AboveIsAboveParent ==
    ASSUME NEW p \in Seq(Names), p # << >>, NEW d \in Seq(Names), IsBeneath(p, d)
    PROVE  /\ ParentOf(p) \in Seq(Names)
           /\ d = ParentOf(p) \/ IsBeneath(ParentOf(p), d)
<1> DEFINE parent == ParentOf(p)
<1>1. Len(d) < Len(p) /\ \A i \in 1 .. Len(d) : p[i] = d[i]
  BY BeneathMeans
<1>2. /\ parent \in Seq(Names) /\ Len(parent) = Len(p) - 1
      /\ \A i \in 1 .. Len(p) - 1 : parent[i] = p[i]
  <2>1. Len(p) \in Nat /\ Len(p) > 0 /\ \A i \in 1 .. Len(p) - 1 : p[i] \in Names
    BY <1>1, ElementOfSeq
  <2>2. ASSUME NEW n \in Nat, \A i \in 1 .. n : p[i] \in Names
        PROVE  /\ SubSeq(p, 1, n) \in Seq(Names) /\ Len(SubSeq(p, 1, n)) = n
               /\ \A i \in 1 .. n : SubSeq(p, 1, n)[i] = p[i]
    BY <2>2, SubSeqProperties
  <2>3. Len(p) - 1 \in Nat
    BY <2>1
  <2>4. QED
    BY <2>1, <2>2, <2>3 DEF ParentOf
<1>3. CASE Len(d) = Len(p) - 1
  BY <1>1, <1>2, <1>3, SeqEqual
<1>4. CASE Len(d) # Len(p) - 1
  BY <1>1, <1>2, <1>4, BeneathMeans
<1>5. QED
  BY <1>2, <1>3, <1>4

\* The safety paths themselves are no blockers.
LEMMA SafetyTops ==
    ASSUME NEW root \in Seq(Names), NEW name \in SafetyNames
    PROVE  ~ Blocker(_relative_path(root, Append(root, name)))
<1> DEFINE top == Append(root, name)
           last == Len(root) + 1
<1>1. /\ top \in Seq(Names) /\ Len(top) = last /\ top[last] = name
      /\ Len(root) \in Nat /\ top # root
  BY PathsAssumption, AppendProperties
<1>3. SubSeq(top, 1, Len(root)) = root
  <2>1. \A i \in 1 .. Len(root) : top[i] = root[i]
    BY PathsAssumption, AppendProperties
  <2>2. /\ SubSeq(top, 1, Len(root)) \in Seq(Names)
        /\ Len(SubSeq(top, 1, Len(root))) = Len(root)
        /\ \A i \in 1 .. Len(root) : SubSeq(top, 1, Len(root))[i] = root[i]
    BY <1>1, <2>1, SubSeqProperties, ElementOfSeq
  <2>3. QED
    BY <2>2, SeqEqual
<1>4. SubSeq(top, last, Len(top)) = << name >>
  <2>1. SubSeq(top, last, last) = SubSeq(top, last, last - 1) \o << top[last] >>
    BY <1>1, SubSeqRecursiveSecond
  <2>2. SubSeq(top, last, last - 1) = << >>
    BY <1>1, SubSeqEmpty
  <2>3. << >> \o << name >> = << name >>
    <3>1. << name >> \in Seq(Names)
      BY PathsAssumption
    <3>2. QED
      BY <3>1, ConcatEmptySeq
  <2>4. QED
    BY <1>1, <2>1, <2>2, <2>3
<1> HIDE DEF top
<1>5. _relative_path(root, top) = << name >>
  BY <1>1, <1>3, <1>4 DEF _relative_path, IsBeneath
<1>6. NameOf(<< name >>) = name /\ Parts(<< name >>) = {name}
  BY DEF NameOf, Parts
<1>7. QED
  BY <1>5, <1>6, NamesAssumption DEF Blocker, SafetyNames, top

-----------------------------------------------------------------------------
\* What is there at the moment, and how far the default mode has come.
Typed ==
    /\ tree \in [Paths -> {Dir, Absent} \cup DOMAIN TextOf]
    /\ \A path \in Paths : tree[path] \in Holds[path] \cup {Absent}
    /\ IsTree(tree) /\ tracked \subseteq Paths /\ command \in Commands
    /\ todo \subseteq {path \in Paths : /\ ParentOf(path) = AgentsDir(command.path)
                                       /\ IsBeneath(path, AgentsDir(command.path))
                                       /\ NameOf(path) \in AgentNames}
    /\ pc \in SafetyNames \cup {"main", "tracked", "agents", "read", "done"}
    /\ (outcome = "none") = (pc # "done")
    /\ outcome = "clean" => findings = {}

\* What held ever since the start holds now; what holds now held at some time.
Remembered ==
    pc \notin {"main", "done"} =>
        /\ command.mode = "default"
        /\ kept \subseteq Facts(tree, tracked) /\ Facts(tree, tracked) \subseteq seen

\* No finding yet, and none lost by a traceback.
NothingFound == command.mode = "default" /\ findings = {} /\ outcome \in {"none", "clean"}

TrackedAreClean ==
    \A path \in Paths :
        <<Tracked, path>> \in kept /\ IsBeneath(path, command.path) =>
            LET relative == _relative_path(command.path, path) IN
            ~ Blocker(relative)
            /\ ("reports" \in Parts(relative) => NameOf(relative) \in ExampleNames)

UnderName(path, name) ==
    path = Append(command.path, name) \/ IsBeneath(path, Append(command.path, name))

SafetyPathIsClean(name) ==
    \A fact \in kept :
        fact[1] \notin {Tracked, Absent} /\ UnderName(fact[2], name) =>
            ~ Blocker(_relative_path(command.path, fact[2]))

\* The stages that come after the scan of a safety path.
Later(name) ==
    {"agents", "read", "done"}
    \cup CASE name = ".github" -> {"AGENTS.md", ".gitignore"}
           [] name = "AGENTS.md" -> {".gitignore"}
           [] OTHER -> {}

AgentAccepted(fact) == fact[1] \in DOMAIN TextOf /\ OnlyReviews(TextOf[fact[1]])

KeptInAgents(fact) ==
    /\ fact[1] \notin {Tracked, Absent, Dir}
    /\ IsBeneath(fact[2], AgentsDir(command.path))
    /\ ParentOf(fact[2]) = AgentsDir(command.path)

Progress ==
    NothingFound =>
        /\ pc \notin {"main", "tracked"} /\ gitWorked => TrackedAreClean
        /\ \A name \in SafetyNames : pc \in Later(name) => SafetyPathIsClean(name)
        /\ pc = "read" => \A fact \in kept :
              KeptInAgents(fact) /\ NameOf(fact[2]) \in AgentNames =>
                  fact[2] \in todo \/ AgentAccepted(fact)
        /\ pc = "done" => \A fact \in kept : KeptInAgents(fact) => AgentAccepted(fact)

NothingYet == pc \in {"main", "tracked"} => findings = {}

IInv ==
    /\ NothingYet /\ Typed /\ Remembered /\ Progress
    /\ FindingsAreWitnessed /\ OpensNoBlocker

-----------------------------------------------------------------------------
\* A fact about something that is there is about what is there.
LEMMA FactsAreTrue ==
    ASSUME NEW fact \in Facts(tree, tracked), fact[1] # Tracked
    PROVE  fact[2] \in Paths /\ fact[1] = tree[fact[2]]
BY DEF Facts

LEMMA FilesAreInPaths ==
    ASSUME NEW path, IsFile(path)
    PROVE  path \in Paths /\ tree[path] \notin {Absent, Dir}
BY DEF IsFile, Kind, KindIn

LEMMA KindOfPaths ==
    ASSUME NEW path \in Paths
    PROVE  Kind(path) = tree[path]
BY PathsAssumption DEF Kind, KindIn

\* Whatever the developer does, directories stay directories as long as
\* something is in them.
LEMMA WriteKeepsTree ==
    ASSUME Typed, NEW path \in Paths, Write(path)
    PROVE  Typed'
<1>1. PICK content \in Holds[path] \ {tree[path]} : tree' = [tree EXCEPT ![path] = content]
  BY DEF Write
<1>2. /\ Kind(ParentOf(path)) = Dir /\ tree[path] # Dir
      /\ UNCHANGED <<tracked, command, todo, pc, outcome, findings>>
  BY DEF Write, Change
<1>3. /\ content \in {Dir} \cup DOMAIN TextOf /\ content # Absent
      /\ tree \in [Paths -> {Dir, Absent} \cup DOMAIN TextOf]
  BY ContentsAssumption DEF Typed
<1>4. /\ tree' \in [Paths -> {Dir, Absent} \cup DOMAIN TextOf]
      /\ \A p \in Paths : tree'[p] \in Holds[p] \cup {Absent}
  BY <1>1, <1>3 DEF Typed
<1>5. IsTree(tree')
  <2> SUFFICES ASSUME NEW p \in Paths, NEW d \in Paths, IsBeneath(p, d), tree'[p] # Absent
               PROVE  tree'[d] = Dir
    BY DEF IsTree
  <2>1. p # d
    BY PathsAssumption DEF IsBeneath
  <2>2. CASE p # path
    <3>1. tree[d] = Dir
      BY <1>1, <1>3, <2>2 DEF Typed, IsTree
    <3>2. QED
      BY <1>1, <1>2, <1>3, <3>1
  <2>3. CASE p = path
    <3>1. d = ParentOf(path) \/ IsBeneath(ParentOf(path), d)
      BY <2>3, PathsAssumption, AboveIsAboveParent
    <3>2. ParentOf(path) # << >>
      <4>1. Len(d) \in Nat /\ d # << >> /\ Len(d) > 0
        BY PathsAssumption, EmptySeq
      <4>2. QED
        BY <3>1, <4>1 DEF IsBeneath
    <3>3. ParentOf(path) \in Paths /\ tree[ParentOf(path)] = Dir
      BY <1>2, <3>2 DEF Kind, KindIn, Dir, Absent
    <3>4. tree[d] = Dir
      BY <3>1, <3>3 DEF Typed, IsTree, Dir, Absent
    <3>5. QED
      BY <1>1, <1>3, <2>1, <2>3, <3>4
  <2>4. QED
    BY <2>2, <2>3
<1>6. QED
  BY <1>2, <1>4, <1>5 DEF Typed

LEMMA DeleteKeepsTree ==
    ASSUME Typed, NEW path \in Paths, Delete(path)
    PROVE  Typed'
<1>1. /\ tree' = [tree EXCEPT ![path] = Absent] /\ rglob(path) = {}
      /\ UNCHANGED <<tracked, command, todo, pc, outcome, findings>>
  BY DEF Delete, Change
<1>2. IsTree(tree')
  BY <1>1 DEF Typed, IsTree, rglob
<1>3. QED
  BY <1>1, <1>2 DEF Typed

LEMMA IndexKeepsTree ==
    ASSUME Typed, NEW path \in Paths, Track(path) \/ Untrack(path)
    PROVE  Typed'
BY DEF Typed, Track, Untrack, Change, IsTree

\* The developer's changes shorten what held ever since and add to what held
\* at some time.
LEMMA ChangeKeepsIInv ==
    ASSUME IInv, Change, Typed'
    PROVE  IInv'
<1>1. /\ UNCHANGED <<command, pc, gitWorked, todo, findings, outcome, opened>>
      /\ kept' \subseteq kept /\ seen \subseteq seen' /\ pc # "done"
      /\ kept' \subseteq Facts(tree', tracked')
      /\ pc # "main" => Facts(tree', tracked') \subseteq seen'
  BY DEF Change
<1>2. Remembered' /\ NothingYet'
  BY <1>1 DEF IInv, Remembered, NothingYet
<1>3. Progress'
  <2> SUFFICES ASSUME NothingFound'
               PROVE  /\ (pc \notin {"main", "tracked"} /\ gitWorked => TrackedAreClean)'
                      /\ (\A name \in SafetyNames : pc \in Later(name) =>
                             SafetyPathIsClean(name))'
                      /\ (pc = "read" => \A fact \in kept :
                             KeptInAgents(fact) /\ NameOf(fact[2]) \in AgentNames =>
                                 fact[2] \in todo \/ AgentAccepted(fact))'
    BY <1>1 DEF Progress
  <2>1. NothingFound /\ Progress
    BY <1>1 DEF NothingFound, IInv
  <2>2. (pc \notin {"main", "tracked"} /\ gitWorked => TrackedAreClean)'
    BY <1>1, <2>1 DEF Progress, TrackedAreClean
  <2>3. (\A name \in SafetyNames : pc \in Later(name) => SafetyPathIsClean(name))'
    BY <1>1, <2>1 DEF Progress, SafetyPathIsClean, UnderName, Later
  <2>4. (pc = "read" => \A fact \in kept :
            KeptInAgents(fact) /\ NameOf(fact[2]) \in AgentNames =>
                fact[2] \in todo \/ AgentAccepted(fact))'
    BY <1>1, <2>1 DEF Progress, KeptInAgents, AgentAccepted
  <2>5. QED
    BY <2>2, <2>3, <2>4
<1>4. FindingsAreWitnessed' /\ OpensNoBlocker'
  BY <1>1 DEF IInv, FindingsAreWitnessed, OpensNoBlocker, InSafetyPath
<1>5. QED
  BY <1>2, <1>3, <1>4 DEF IInv

-----------------------------------------------------------------------------
\* Starting remembers what is there; nothing has been looked at.
LEMMA StartKeepsIInv ==
    ASSUME IInv, run_default_preflight
    PROVE  IInv'
<1>1. /\ pc = "main" /\ pc' = "tracked" /\ command.mode = "default"
      /\ kept' = Facts(tree, tracked) /\ seen' = Facts(tree, tracked)
      /\ UNCHANGED <<repository, command, gitWorked, todo, findings, outcome, opened>>
  BY DEF run_default_preflight
<1>2. Typed' /\ Remembered' /\ NothingYet'
  BY <1>1 DEF IInv, Typed, Remembered, NothingYet, repository, IsTree
<1>3. Progress'
  BY <1>1 DEF Progress, Later, SafetyNames
<1>4. findings = {}
  BY <1>1 DEF IInv, NothingYet
<1>5. FindingsAreWitnessed' /\ OpensNoBlocker'
  BY <1>1, <1>4 DEF IInv, FindingsAreWitnessed, OpensNoBlocker
<1>6. QED
  BY <1>2, <1>3, <1>5 DEF IInv

\* A scan of the index finds every blocker that was tracked ever since.
LEMMA TrackedScanKeepsIInv ==
    ASSUME IInv, _scan_tracked_paths
    PROVE  IInv'
<1>1. /\ pc = "tracked" /\ pc' = ".github"
      /\ UNCHANGED <<repository, command, todo, outcome, opened, history>>
  BY DEF _scan_tracked_paths, GoOn
<1>2. PICK paths \in {Listed, WithoutGit} :
        /\ findings' = findings \cup VersionedFindings(paths)
        /\ gitWorked' => paths = Listed
  BY DEF _scan_tracked_paths, GoOn
<1>3. /\ paths \subseteq tracked /\ tracked \subseteq Paths
      /\ kept \subseteq Facts(tree, tracked) /\ Facts(tree, tracked) \subseteq seen
  BY <1>1, <1>2 DEF IInv, Remembered, Typed, Listed, WithoutGit
<1>4. Typed' /\ Remembered' /\ NothingYet'
  BY <1>1, <1>3 DEF IInv, Typed, Remembered, NothingYet, repository, history, IsTree, SafetyNames
<1>5. FindingsAreWitnessed'
  <2>1. \A finding \in VersionedFindings(paths) : \E fact \in seen :
            fact[1] = Tracked /\ finding.path = _relative_path(command.path, fact[2])
    <3>1. ASSUME NEW finding \in VersionedFindings(paths)
          PROVE  \E p \in paths : finding.path = _relative_path(command.path, p)
      <4>1. PICK p \in paths : finding =
              [path   |-> _relative_path(command.path, p),
               reason |-> _versioned_artifact_reason(_relative_path(command.path, p), FALSE)]
        BY DEF VersionedFindings
      <4>2. QED
        BY <4>1
    <3>2. ASSUME NEW p \in paths
          PROVE  <<Tracked, p>> \in seen /\ <<Tracked, p>>[1] = Tracked /\ <<Tracked, p>>[2] = p
      BY <1>3 DEF Facts
    <3>3. QED
      BY <3>1, <3>2
  <2>2. QED
    BY <1>1, <1>2, <2>1 DEF IInv, FindingsAreWitnessed, history, InSafetyPath
<1>6. Progress'
  <2> SUFFICES ASSUME findings' = {}, gitWorked' PROVE TrackedAreClean'
    BY <1>1 DEF Progress, NothingFound, Later, SafetyNames
  <2>1. \A p \in Listed : _versioned_artifact_reason(_relative_path(command.path, p), FALSE) = ""
    BY <1>2 DEF VersionedFindings
  <2>2. ASSUME NEW p \in Paths, <<Tracked, p>> \in kept, IsBeneath(p, command.path)
        PROVE  p \in Listed
    <3>1. p \in tracked
      <4>1. tree[p] # Tracked
        BY ContentsAssumption DEF IInv, Typed, Tracked, Absent
      <4>2. QED
        BY <1>3, <2>2, <4>1 DEF Facts
    <3>2. QED
      BY <2>2, <3>1 DEF Listed
  <2>3. TrackedAreClean
    BY <2>1, <2>2, NoReasonNoBlocker DEF TrackedAreClean
  <2>4. QED
    BY <1>1, <2>3 DEF TrackedAreClean, history
<1>7. OpensNoBlocker'
  BY <1>1 DEF IInv, OpensNoBlocker
<1>8. QED
  BY <1>4, <1>5, <1>6, <1>7 DEF IInv

\* A scan of a safety path finds every blocker that was in it ever since.
LEMMA SafetyScanKeepsIInv ==
    ASSUME IInv, _scan_versioned_safety_paths
    PROVE  IInv'
<1> DEFINE top == Append(command.path, pc)
           root == command.path
           scan == FindingsOn(root, _iter_paths(top), _versioned_artifact_reason)
<1>1. /\ pc \in SafetyNames /\ pc' = After[pc] /\ findings' = findings \cup scan
      /\ UNCHANGED <<repository, command, gitWorked, todo, outcome, opened, history>>
  BY DEF _scan_versioned_safety_paths, GoOn, After
<1>2. /\ kept \subseteq Facts(tree, tracked) /\ Facts(tree, tracked) \subseteq seen
      /\ root \in Seq(Names) /\ outcome = "none" /\ command.mode = "default"
  BY <1>1, CommandsAssumption DEF IInv, Remembered, Typed, SafetyNames
<1>3. pc' \in {"AGENTS.md", ".gitignore", "agents"}
  BY <1>1 DEF After, SafetyNames
<1>4. Typed' /\ Remembered' /\ NothingYet'
  BY <1>1, <1>2, <1>3
     DEF IInv, Typed, Remembered, NothingYet, repository, history, IsTree, SafetyNames
<1>5. /\ _iter_paths(top) \subseteq Paths
      /\ \A p \in _iter_paths(top) : tree[p] # Absent /\ UnderName(p, pc)
  <2>1. CASE IsFile(top)
    BY <2>1, FilesAreInPaths DEF _iter_paths, UnderName
  <2>2. CASE ~ IsFile(top)
    BY <2>2 DEF _iter_paths, rglob, UnderName
  <2>3. QED
    BY <2>1, <2>2
<1>6. FindingsAreWitnessed'
  <2>1. ASSUME NEW finding \in scan
        PROVE  \E p \in _iter_paths(top) : finding.path = _relative_path(root, p)
    <3>1. PICK p \in _iter_paths(top) : finding =
            [path   |-> _relative_path(root, p),
             reason |-> _versioned_artifact_reason(_relative_path(root, p), Kind(p) = Dir)]
      BY DEF FindingsOn
    <3>2. QED
      BY <3>1
  <2>2. ASSUME NEW p \in _iter_paths(top)
        PROVE  /\ <<tree[p], p>> \in seen /\ <<tree[p], p>>[1] = tree[p] /\ <<tree[p], p>>[2] = p
               /\ tree[p] # Absent /\ InSafetyPath(p)
    BY <1>1, <1>2, <1>5 DEF Facts, InSafetyPath, UnderName, After
  <2>3. \A finding \in scan : \E fact \in seen :
            /\ finding.path = _relative_path(root, fact[2])
            /\ fact[1] # Absent /\ InSafetyPath(fact[2])
    BY <2>1, <2>2
  <2> HIDE DEF scan
  <2>4. QED
    BY <1>1, <2>3 DEF IInv, FindingsAreWitnessed, history, InSafetyPath
<1>7. Progress'
  <2> SUFFICES ASSUME findings' = {}
               PROVE  SafetyPathIsClean(pc)
    <3>1. findings' # {} => ~ NothingFound'
      BY DEF NothingFound
    <3>2. findings' = {} => NothingFound /\ Progress
      BY <1>1, <1>2 DEF NothingFound, IInv
    <3>3. \A name \in SafetyNames : pc' \in Later(name) => name = pc \/ pc \in Later(name)
      BY <1>1 DEF After, Later, SafetyNames
    <3>4. \A name \in SafetyNames : SafetyPathIsClean(name)' <=> SafetyPathIsClean(name)
      BY <1>1 DEF SafetyPathIsClean, UnderName, history
    <3>5. TrackedAreClean' <=> TrackedAreClean
      BY <1>1 DEF TrackedAreClean, history
    <3>6. pc \notin {"main", "tracked"} /\ pc' \notin {"main", "tracked", "read", "done"}
      BY <1>1, <1>3 DEF SafetyNames
    <3>7. QED
      BY <1>1, <3>1, <3>2, <3>3, <3>4, <3>5, <3>6 DEF Progress
  <2>1. scan = {}
    BY <1>1
  <2>2. ASSUME NEW p \in _iter_paths(top)
        PROVE  _versioned_artifact_reason(_relative_path(root, p), Kind(p) = Dir) = ""
    BY <2>1 DEF FindingsOn
  <2>3. ASSUME NEW fact \in kept, fact[1] \notin {Tracked, Absent}, UnderName(fact[2], pc)
        PROVE  ~ Blocker(_relative_path(root, fact[2]))
    <3>1. fact[2] \in Paths /\ fact[1] = tree[fact[2]]
      BY <1>2, <2>3, FactsAreTrue
    <3>2. CASE fact[2] \in _iter_paths(top)
      BY <2>2, <3>2, NoReasonNoBlocker
    <3>3. CASE fact[2] = top
      BY <1>1, <1>2, <3>3, SafetyTops
    <3>4. CASE IsBeneath(fact[2], top) /\ fact[2] \notin _iter_paths(top)
      <4>1. IsFile(top)
        BY <2>3, <3>1, <3>4 DEF _iter_paths, rglob
      <4>2. top \in Paths /\ tree[top] # Dir
        BY <4>1, FilesAreInPaths
      <4>3. QED
        BY <2>3, <3>1, <3>4, <4>2 DEF IInv, Typed, IsTree
    <3>5. QED
      BY <2>3, <3>2, <3>3, <3>4 DEF UnderName
  <2>4. QED
    BY <2>3 DEF SafetyPathIsClean
<1>8. OpensNoBlocker'
  BY <1>1 DEF IInv, OpensNoBlocker
<1>9. QED
  BY <1>4, <1>6, <1>7, <1>8 DEF IInv

-----------------------------------------------------------------------------
\* What is beneath the agents directory is in a safety path.
LEMMA AgentsAreInSafetyPath ==
    ASSUME Typed, NEW path \in Paths, IsBeneath(path, AgentsDir(command.path))
    PROVE  InSafetyPath(path)
<1> DEFINE root == command.path
<1>1. root \in Seq(Names) /\ path \in Seq(Names)
  BY CommandsAssumption, PathsAssumption DEF Typed
<1>2. ".github" \in Names /\ "agents" \in Names /\ ".github" \in DOMAIN After
  BY PathsAssumption DEF SafetyNames, After
<1>3. Append(root, ".github") \in Seq(Names)
  BY <1>1, <1>2, AppendIsBeneath
<1>4. /\ AgentsDir(root) \in Seq(Names)
      /\ IsBeneath(AgentsDir(root), Append(root, ".github"))
  BY <1>2, <1>3, AppendIsBeneath DEF AgentsDir
<1>5. IsBeneath(path, Append(root, ".github"))
  BY <1>1, <1>3, <1>4, BeneathIsTransitive
<1>6. QED
  BY <1>2, <1>5 DEF InSafetyPath

\* The default mode ends with findings when there are no agents to look at.
LEMMA NoAgentsKeepsIInv ==
    ASSUME IInv, pc = "agents", NEW reason, Return(findings \cup OnAgents(reason)),
           UNCHANGED <<repository, command, gitWorked, todo, opened, history>>
    PROVE  IInv'
<1>1. /\ findings' = findings \cup OnAgents(reason) /\ findings' # {}
      /\ pc' = "done" /\ outcome' = "findings"
  BY DEF Return, End, OnAgents
<1>2. Typed' /\ Remembered' /\ NothingYet'
  BY <1>1 DEF IInv, Typed, Remembered, NothingYet, repository, IsTree
<1>3. Progress'
  BY <1>1 DEF Progress, NothingFound
<1>4. FindingsAreWitnessed' /\ OpensNoBlocker'
  BY <1>1 DEF IInv, FindingsAreWitnessed, OpensNoBlocker, OnAgents, InSafetyPath, history
<1>5. QED
  BY <1>2, <1>3, <1>4 DEF IInv

\* Every agent file that is there since the start is on the list.
LEMMA ListKeepsIInv ==
    ASSUME IInv, validate_agent_files
    PROVE  IInv'
<1>1. CASE ~ (Kind(AgentsDir(command.path)) = Dir /\ AgentFiles(command.path) # {})
  <2>1. /\ pc = "agents"
        /\ UNCHANGED <<repository, command, gitWorked, todo, opened, history>>
        /\ \E reason \in {"no agent files", "missing", "not a directory"} :
              Return(findings \cup OnAgents(reason))
    BY <1>1 DEF validate_agent_files, IsFile
  <2>2. QED
    BY <2>1, NoAgentsKeepsIInv
<1>2. CASE Kind(AgentsDir(command.path)) = Dir /\ AgentFiles(command.path) # {}
  <2>1. /\ pc = "agents" /\ pc' = "read" /\ findings' = findings
        /\ todo' = AgentFiles(command.path)
        /\ UNCHANGED <<repository, command, gitWorked, outcome, opened, history>>
    BY <1>2 DEF validate_agent_files, GoOn, Return, End, IsFile, Dir, Absent
  <2>2. AgentFiles(command.path) =
            {path \in Paths : /\ tree[path] # Absent
                              /\ ParentOf(path) = AgentsDir(command.path)
                              /\ IsBeneath(path, AgentsDir(command.path))
                              /\ NameOf(path) \in AgentNames}
    BY DEF AgentFiles, glob, rglob
  <2>3. Typed' /\ Remembered' /\ NothingYet'
    BY <2>1, <2>2 DEF IInv, Typed, Remembered, NothingYet, repository, history, IsTree
  <2>4. ASSUME NEW fact \in kept, KeptInAgents(fact), NameOf(fact[2]) \in AgentNames
        PROVE  fact[2] \in todo'
    <3>1. fact[2] \in Paths /\ fact[1] = tree[fact[2]]
      BY <2>1, <2>4, FactsAreTrue DEF IInv, Remembered, KeptInAgents
    <3>2. QED
      BY <2>1, <2>2, <2>4, <3>1 DEF KeptInAgents
  <2>5. Progress'
    <3> SUFFICES ASSUME NothingFound' PROVE Progress'
      BY DEF Progress
    <3>1. NothingFound /\ Progress
      BY <2>1 DEF NothingFound, IInv
    <3>2. \A name \in SafetyNames : SafetyPathIsClean(name)'
      BY <2>1, <3>1 DEF Progress, SafetyPathIsClean, UnderName, history, Later
    <3>3. gitWorked' => TrackedAreClean'
      BY <2>1, <3>1 DEF Progress, TrackedAreClean, history
    <3>4. \A fact \in kept' : KeptInAgents(fact)' /\ NameOf(fact[2]) \in AgentNames =>
              fact[2] \in todo'
      BY <2>1, <2>4 DEF KeptInAgents, history
    <3>5. QED
      BY <2>1, <3>2, <3>3, <3>4 DEF Progress
  <2>6. FindingsAreWitnessed' /\ OpensNoBlocker'
    BY <2>1 DEF IInv, FindingsAreWitnessed, OpensNoBlocker, InSafetyPath, history
  <2>7. QED
    BY <2>3, <2>5, <2>6 DEF IInv
<1>3. QED
  BY <1>1, <1>2

\* A traceback ends the command with nothing printed and nothing claimed.
LEMMA TracebackKeepsIInv ==
    ASSUME IInv, Traceback
    PROVE  IInv'
<1>1. /\ pc' = "done" /\ outcome' = "traceback" /\ findings' = {} /\ todo' = {}
      /\ UNCHANGED <<repository, command, gitWorked, opened, history>>
  BY DEF Traceback, End
<1>2. Typed' /\ Remembered' /\ NothingYet'
  BY <1>1 DEF IInv, Typed, Remembered, NothingYet, repository, IsTree
<1>3. Progress' /\ FindingsAreWitnessed' /\ OpensNoBlocker'
  BY <1>1 DEF IInv, Progress, NothingFound, FindingsAreWitnessed, OpensNoBlocker
<1>4. QED
  BY <1>2, <1>3 DEF IInv

\* An agent file that is read without a finding only reviews.
LEMMA ReadKeepsIInv ==
    ASSUME IInv, NEW path \in Paths, ReadAgent(path), Readable(path)
    PROVE  IInv'
<1> DEFINE reasons == AgentReasons(NameOf(path), TextOf[tree[path]])
           added == {[path |-> _relative_path(command.path, path), reason |-> reason] :
                        reason \in reasons}
<1>1. /\ pc = "read" /\ pc' = "read" /\ path \in todo /\ findings' = findings \cup added
      /\ todo' = todo \ {path} /\ opened' = opened \cup {path}
      /\ UNCHANGED <<repository, command, gitWorked, outcome, history>>
  BY DEF ReadAgent, GoOn
<1>2. Typed' /\ Remembered' /\ NothingYet'
  BY <1>1 DEF IInv, Typed, Remembered, NothingYet, repository, history, IsTree
<1>3. /\ ParentOf(path) = AgentsDir(command.path) /\ NameOf(path) \in AgentNames
      /\ IsBeneath(path, AgentsDir(command.path))
  BY <1>1 DEF IInv, Typed
<1>4. tree[path] \notin {Absent, Dir} /\ tree[path] \in DOMAIN TextOf
  BY FilesAreInPaths DEF Readable, IInv, Typed
<1>5. FindingsAreWitnessed'
  <2>1. /\ <<tree[path], path>> \in seen /\ <<tree[path], path>>[1] = tree[path]
        /\ <<tree[path], path>>[2] = path /\ InSafetyPath(path)
    BY <1>1, <1>3, AgentsAreInSafetyPath DEF IInv, Remembered, Facts
  <2>2. \A finding \in added : finding.path = _relative_path(command.path, path)
    OBVIOUS
  <2>3. \A finding \in added : \E fact \in seen :
            /\ finding.path = _relative_path(command.path, fact[2])
            /\ fact[1] # Absent /\ InSafetyPath(fact[2])
    BY <1>4, <2>1, <2>2
  <2> HIDE DEF added
  <2>4. QED
    BY <1>1, <2>3 DEF IInv, FindingsAreWitnessed, history, InSafetyPath
<1>6. Progress'
  <2> SUFFICES ASSUME NothingFound' PROVE Progress'
    BY DEF Progress
  <2>1. NothingFound /\ Progress /\ added = {}
    BY <1>1 DEF NothingFound, IInv
  <2>2. OnlyReviews(TextOf[tree[path]])
    <3>1. reasons = {}
      BY <2>1
    <3>2. QED
      BY <1>4, <3>1, NothingWrongOnlyReviews
  <2>3. \A fact \in kept : KeptInAgents(fact) /\ NameOf(fact[2]) \in AgentNames =>
            fact[2] \in todo' \/ AgentAccepted(fact)
    <3> SUFFICES ASSUME NEW fact \in kept, KeptInAgents(fact), fact[2] = path
                 PROVE  AgentAccepted(fact)
      BY <1>1, <2>1 DEF Progress
    <3>1. fact[1] = tree[path]
      BY <1>1, FactsAreTrue DEF IInv, Remembered, KeptInAgents
    <3>2. QED
      BY <1>4, <2>2, <3>1 DEF AgentAccepted
  <2>4. \A name \in SafetyNames : SafetyPathIsClean(name)'
    BY <1>1, <2>1 DEF Progress, SafetyPathIsClean, UnderName, history, Later
  <2>5. gitWorked' => TrackedAreClean'
    BY <1>1, <2>1 DEF Progress, TrackedAreClean, history
  <2>6. QED
    BY <1>1, <2>3, <2>4, <2>5 DEF Progress, KeptInAgents, AgentAccepted, history
<1>7. OpensNoBlocker'
  BY <1>1, <1>3 DEF IInv, OpensNoBlocker
<1>8. QED
  BY <1>2, <1>5, <1>6, <1>7 DEF IInv

\* When all agent files have been read, whatever else is in their directory is
\* found.
LEMMA OthersKeepsIInv ==
    ASSUME IInv, OtherFiles
    PROVE  IInv'
<1> DEFINE dir == AgentsDir(command.path)
           others == {q \in glob(dir) : IsFile(q) /\ NameOf(q) \notin AgentNames}
           added == {[path |-> _relative_path(command.path, p), reason |-> "not an agent file"] :
                        p \in others}
<1>1. CASE Kind(dir) # Dir
  BY <1>1, TracebackKeepsIInv DEF OtherFiles
<1>2. CASE Kind(dir) = Dir
  <2>1. /\ pc = "read" /\ todo = {} /\ pc' = "done" /\ findings' = findings \cup added
        /\ outcome' = IF findings' = {} THEN "clean" ELSE "findings"
        /\ UNCHANGED <<repository, command, gitWorked, todo, opened, history>>
    <3> HIDE DEF added
    <3>1. QED
      BY <1>2 DEF OtherFiles, Return, End, added
  <2>2. Typed' /\ Remembered' /\ NothingYet'
    BY <2>1 DEF IInv, Typed, Remembered, NothingYet, repository, IsTree
  <2>3. /\ others \subseteq Paths
        /\ \A p \in others : tree[p] # Absent /\ IsBeneath(p, dir)
    BY DEF glob, rglob
  <2>4. /\ kept \subseteq Facts(tree, tracked) /\ Facts(tree, tracked) \subseteq seen
        /\ outcome = "none" /\ command.mode = "default"
    BY <2>1 DEF IInv, Remembered, Typed
  <2>5. FindingsAreWitnessed'
    <3>1. ASSUME NEW p \in others
          PROVE  /\ <<tree[p], p>> \in seen /\ <<tree[p], p>>[1] = tree[p]
                 /\ <<tree[p], p>>[2] = p /\ tree[p] # Absent /\ InSafetyPath(p)
      BY <2>3, <2>4, AgentsAreInSafetyPath DEF IInv, Facts
    <3>2. ASSUME NEW finding \in added
          PROVE  \E p \in others : finding.path = _relative_path(command.path, p)
      <4> HIDE DEF others
      <4>1. PICK p \in others : finding =
              [path |-> _relative_path(command.path, p), reason |-> "not an agent file"]
        OBVIOUS
      <4>2. QED
        BY <4>1
    <3>3. \A finding \in added : \E fact \in seen :
              /\ finding.path = _relative_path(command.path, fact[2])
              /\ fact[1] # Absent /\ InSafetyPath(fact[2])
      BY <3>1, <3>2
    <3> HIDE DEF added
    <3>4. QED
      BY <2>1, <3>3 DEF IInv, FindingsAreWitnessed, history, InSafetyPath
  <2>6. Progress'
    <3> SUFFICES ASSUME NothingFound' PROVE Progress'
      BY DEF Progress
    <3>1. NothingFound /\ Progress /\ others = {}
      <4>1. findings = {} /\ added = {}
        BY <2>1 DEF NothingFound
      <4>2. QED
        BY <2>4, <4>1 DEF NothingFound, IInv
    <3>2. ASSUME NEW fact \in kept, KeptInAgents(fact) PROVE AgentAccepted(fact)
      <4>1. fact[2] \in Paths /\ fact[1] = tree[fact[2]]
        BY <2>4, <3>2, FactsAreTrue DEF KeptInAgents
      <4>2. fact[2] \in glob(dir) /\ IsFile(fact[2])
        BY <3>2, <4>1, KindOfPaths DEF KeptInAgents, glob, rglob, IsFile
      <4>3. NameOf(fact[2]) \in AgentNames
        BY <3>1, <4>2
      <4>4. QED
        BY <2>1, <3>1, <3>2, <4>3 DEF Progress
    <3>3. \A name \in SafetyNames : SafetyPathIsClean(name)'
      BY <2>1, <3>1 DEF Progress, SafetyPathIsClean, UnderName, history, Later
    <3>4. gitWorked' => TrackedAreClean'
      BY <2>1, <3>1 DEF Progress, TrackedAreClean, history
    <3>5. QED
      BY <2>1, <3>2, <3>3, <3>4 DEF Progress, KeptInAgents, AgentAccepted, history
  <2>7. OpensNoBlocker'
    BY <2>1 DEF IInv, OpensNoBlocker
  <2>8. QED
    BY <2>2, <2>5, <2>6, <2>7 DEF IInv
<1>3. QED
  BY <1>1, <1>2

-----------------------------------------------------------------------------
\* What main does with other command lines leaves nothing to be proved but that
\* it opens no blocker.
LEMMA OtherCommandsKeepIInv ==
    ASSUME IInv, Refuse \/ BackupScan \/ run_backup_manifest
    PROVE  IInv'
<1>1. /\ pc = "main" /\ pc' = "done" /\ outcome' # "none"
      /\ outcome' = "clean" => findings' = {}
      /\ todo' = {} \/ todo' = todo
      /\ UNCHANGED <<repository, command, gitWorked, history>>
  BY DEF Refuse, BackupScan, run_backup_manifest, Return, End, Traceback
<1>2. \/ command.mode # "default"
      \/ outcome' = "refused" /\ findings' = findings
  BY DEF Refuse, BackupScan, run_backup_manifest, End
<1>3. \/ opened' = opened
      \/ opened' = opened \cup {command.manifest} /\ ~ SensitiveManifest(command.manifest)
  BY DEF Refuse, BackupScan, run_backup_manifest, Traceback
<1>4. Typed' /\ Remembered' /\ NothingYet'
  BY <1>1 DEF IInv, Typed, Remembered, NothingYet, repository, IsTree
<1>5. Progress' /\ FindingsAreWitnessed'
  BY <1>1, <1>2
     DEF IInv, Progress, NothingFound, FindingsAreWitnessed, InSafetyPath, history
<1>6. ~ SensitiveManifest(command.manifest) => ~ Blocker(command.manifest)
  BY DEF SensitiveManifest, Blocker, _is_tfstate_name, _is_real_tfvars_name, _is_zip_name,
         _is_provider_binary_name
<1>7. OpensNoBlocker'
  BY <1>1, <1>3, <1>6 DEF IInv, OpensNoBlocker
<1>8. QED
  BY <1>4, <1>5, <1>7 DEF IInv

LEMMA IdleKeepsIInv ==
    ASSUME IInv, WriteListing \/ UNCHANGED vars
    PROVE  IInv'
<1>1. UNCHANGED <<tree, tracked, command, pc, gitWorked, todo, findings, outcome, opened,
                  kept, seen>>
  BY DEF WriteListing, vars, repository, history
<1>2. Typed' /\ Remembered' /\ NothingYet'
  BY <1>1 DEF IInv, Typed, Remembered, NothingYet, IsTree
<1>3. FindingsAreWitnessed' /\ OpensNoBlocker'
  BY <1>1 DEF IInv, FindingsAreWitnessed, OpensNoBlocker, InSafetyPath
<1>4. Progress'
  BY <1>1 DEF IInv, Progress, NothingFound, TrackedAreClean, SafetyPathIsClean, UnderName,
              Later, KeptInAgents, AgentAccepted
<1>5. QED
  BY <1>2, <1>3, <1>4 DEF IInv

THEOREM IInvHolds == Spec => []IInv
<1>1. Init => IInv
  <2> SUFFICES ASSUME Init PROVE IInv
    OBVIOUS
  <2>1. Typed
    BY RepositoriesAssumption DEF Init, Typed
  <2>2. QED
    BY <2>1 DEF Init, IInv, Remembered, NothingYet, Progress, Later, SafetyNames,
                FindingsAreWitnessed, OpensNoBlocker
<1>2. IInv /\ [Next]_vars => IInv'
  <2> SUFFICES ASSUME IInv, [Next]_vars PROVE IInv'
    OBVIOUS
  <2>1. Typed
    BY DEF IInv
  <2>2. ASSUME NEW path \in Paths, Write(path) PROVE IInv'
    BY <2>1, <2>2, WriteKeepsTree, ChangeKeepsIInv DEF Write
  <2>3. ASSUME NEW path \in Paths, Delete(path) PROVE IInv'
    BY <2>1, <2>3, DeleteKeepsTree, ChangeKeepsIInv DEF Delete
  <2>4. ASSUME NEW path \in Paths, Track(path) \/ Untrack(path) PROVE IInv'
    BY <2>1, <2>4, IndexKeepsTree, ChangeKeepsIInv DEF Track, Untrack
  <2>5. ASSUME NEW path \in Paths, ReadAgent(path) PROVE IInv'
    BY <2>5, ReadKeepsIInv, TracebackKeepsIInv DEF ReadAgent
  <2>6. CASE WriteListing \/ UNCHANGED vars
    BY <2>6, IdleKeepsIInv
  <2>7. CASE Refuse \/ BackupScan \/ run_backup_manifest
    BY <2>7, OtherCommandsKeepIInv
  <2>8. CASE run_default_preflight
    BY <2>8, StartKeepsIInv
  <2>9. CASE _scan_tracked_paths
    BY <2>9, TrackedScanKeepsIInv
  <2>10. CASE _scan_versioned_safety_paths
    BY <2>10, SafetyScanKeepsIInv
  <2>11. CASE validate_agent_files
    BY <2>11, ListKeepsIInv
  <2>12. CASE OtherFiles
    BY <2>12, OthersKeepsIInv
  <2>13. QED
    BY <2>2, <2>3, <2>4, <2>5, <2>6, <2>7, <2>8, <2>9, <2>10, <2>11, <2>12 DEF Next
<1>3. QED
  BY <1>1, <1>2, PTL DEF Spec

\* A default run that ends with 0 after git answered has seen to everything
\* that was there throughout, whatever else changed meanwhile.
THEOREM CleanRunsAreClean == Spec => []CleanMeansClean
<1>1. IInv => CleanMeansClean
  <2> SUFFICES ASSUME IInv, outcome = "clean", command.mode = "default"
               PROVE  CleanMeansClean
    BY DEF CleanMeansClean
  <2>1. NothingFound /\ Progress /\ pc = "done"
    BY DEF IInv, Typed, NothingFound
  <2>2. gitWorked => TrackedAreClean
    BY <2>1 DEF Progress
  <2>3. \A name \in SafetyNames : SafetyPathIsClean(name)
    BY <2>1 DEF Progress, Later
  <2>4. ASSUME NEW fact \in kept, fact[1] \notin {Tracked, Absent}, InSafetyPath(fact[2])
        PROVE  ~ Blocker(_relative_path(command.path, fact[2]))
    BY <2>3, <2>4 DEF InSafetyPath, SafetyPathIsClean, UnderName, After
  <2>5. ASSUME NEW fact \in kept, fact[1] \notin {Tracked, Absent},
               IsBeneath(fact[2], AgentsDir(command.path)),
               ParentOf(fact[2]) = AgentsDir(command.path), fact[1] # Dir
        PROVE  OnlyReviews(TextOf[fact[1]])
    BY <2>1, <2>5 DEF Progress, KeptInAgents, AgentAccepted
  <2>6. QED
    BY <2>2, <2>4, <2>5 DEF CleanMeansClean, TrackedAreClean
<1>2. QED
  BY <1>1, IInvHolds, PTL

\* What is neither tracked nor in a safety path has no part in any finding.
THEOREM LocalFilesDoNotMatter == Spec => []FindingsAreWitnessed
<1>1. IInv => FindingsAreWitnessed
  BY DEF IInv
<1>2. QED
  BY <1>1, IInvHolds, PTL

\* No file is opened but agent files and a manifest that is no blocker.
THEOREM NoBlockerIsOpened == Spec => []OpensNoBlocker
<1>1. IInv => OpensNoBlocker
  BY DEF IInv
<1>2. QED
  BY <1>1, IInvHolds, PTL

-----------------------------------------------------------------------------
(***************************************************************************)
(* The backup modes.                                                       *)
(***************************************************************************)

\* When the rules of a backup object to a path, whatever they then say.
Objectionable(path, is_dir) ==
    /\ NameOf(path) \notin ExampleNames
    /\ \/ NameOf(path) = ".git"
       \/ ".terraform" \in Parts(path)
       \/ is_dir /\ NameOf(path) \in ToolDirectories
       \/ "reports" \in Parts(path) /\ ~ is_dir
       \/ ArtifactName(NameOf(path)) # ""

LEMMA ReasonMeans ==
    ASSUME NEW path, NEW is_dir \in BOOLEAN
    PROVE  _backup_artifact_reason(path, is_dir) # "" <=> Objectionable(path, is_dir)
<1>1. \A name \in ToolDirectories : name # ""
  BY DEF ToolDirectories
<1>2. QED
  BY <1>1 DEF _backup_artifact_reason, Objectionable, _is_sensitive_tfvars_example

\* A path below a directory consists of the directory and the relative path.
LEMMA RelativeTo ==
    ASSUME NEW p \in Seq(Names), NEW d \in Seq(Names), IsBeneath(p, d)
    PROVE  LET relative == _relative_path(d, p)
           IN  /\ d \o relative = p /\ NameOf(relative) = NameOf(p)
               /\ Parts(p) = Parts(d) \cup Parts(relative)
<1> DEFINE k == Len(d)
           n == Len(p)
           relative == SubSeq(p, k + 1, n)
<1>1. k \in Nat /\ n \in Nat /\ k < n /\ \A i \in 1 .. k : p[i] = d[i]
  BY BeneathMeans
<1>2. p # d
  BY <1>1
<1>3. _relative_path(d, p) = relative
  BY <1>2 DEF _relative_path
<1>4. \A i \in 1 .. n : p[i] \in Names
  BY ElementOfSeq
<1>5. /\ relative \in Seq(Names) /\ Len(relative) = n - k
      /\ \A i \in 1 .. n - k : relative[i] = p[k + i]
  <2>1. \A i \in k + 1 .. n : p[i] \in Names
    BY <1>1, <1>4
  <2>2. /\ relative \in Seq(Names) /\ Len(relative) = IF k + 1 <= n THEN n - (k + 1) + 1 ELSE 0
        /\ \A i \in 1 .. n - (k + 1) + 1 : relative[i] = p[(k + 1) + i - 1]
    BY <1>1, <2>1, SubSeqProperties
  <2>3. QED
    BY <1>1, <2>2
<1> HIDE DEF relative
<1>6. d \o relative = p
  <2>1. /\ d \o relative \in Seq(Names) /\ Len(d \o relative) = k + (n - k)
        /\ \A i \in 1 .. k + (n - k) : (d \o relative)[i] = IF i <= k THEN d[i] ELSE relative[i - k]
    BY <1>5, ConcatProperties
  <2>2. \A i \in 1 .. n : (d \o relative)[i] = p[i]
    <3> TAKE i \in 1 .. n
    <3>1. CASE i <= k
      BY <1>1, <2>1, <3>1
    <3>2. CASE ~ (i <= k)
      <4>1. i - k \in 1 .. n - k /\ k + (i - k) = i
        BY <1>1, <3>2
      <4>2. QED
        BY <1>1, <1>5, <2>1, <3>2, <4>1
    <3>3. QED
      BY <3>1, <3>2
  <2>3. Len(d \o relative) = n
    BY <1>1, <2>1
  <2>4. QED
    BY <2>1, <2>2, <2>3, SeqEqual
<1>7. NameOf(relative) = NameOf(p)
  <2>1. relative # << >> /\ p # << >>
    BY <1>1, <1>5
  <2>2. n - k \in 1 .. n - k /\ k + (n - k) = n
    BY <1>1
  <2>3. relative[n - k] = p[n]
    BY <1>5, <2>2
  <2>4. QED
    BY <1>5, <2>1, <2>3 DEF NameOf
<1>8. Parts(p) = Parts(d) \cup Parts(relative)
  <2>1. DOMAIN p = 1 .. n /\ DOMAIN d = 1 .. k /\ DOMAIN relative = 1 .. n - k
    BY <1>5, LenProperties
  <2>2. \A i \in 1 .. n : i \in 1 .. k \/ (i - k \in 1 .. n - k /\ k + (i - k) = i)
    BY <1>1
  <2>3. \A i \in 1 .. n : p[i] \in Parts(d) \cup Parts(relative)
    <3> TAKE i \in 1 .. n
    <3>1. CASE i \in 1 .. k
      BY <1>1, <2>1, <3>1 DEF Parts
    <3>2. CASE i \notin 1 .. k
      <4>1. i - k \in 1 .. n - k /\ p[i] = relative[i - k]
        BY <1>5, <2>2, <3>2
      <4>2. QED
        BY <2>1, <4>1 DEF Parts
    <3>3. QED
      BY <3>1, <3>2
  <2>4. /\ \A i \in 1 .. k : i \in 1 .. n /\ d[i] = p[i]
        /\ \A i \in 1 .. n - k : k + i \in 1 .. n /\ relative[i] = p[k + i]
    BY <1>1, <1>5
  <2>5. Parts(d) \cup Parts(relative) \subseteq Parts(p)
    BY <2>1, <2>4 DEF Parts
  <2>6. QED
    BY <2>1, <2>3, <2>5 DEF Parts
<1>9. QED
  BY <1>3, <1>6, <1>7, <1>8

LEMMA RelativeToTop ==
    ASSUME NEW p \in Seq(Names), p # << >>
    PROVE  IsBeneath(p, << >>) /\ _relative_path(<< >>, p) = p
<1>1. << >> \in Seq(Names) /\ Len(<< >>) = 0 /\ Len(p) \in Nat /\ Len(p) # 0
  BY EmptySeq
<1>2. IsBeneath(p, << >>)
  <2>1. SubSeq(p, 1, 0) = << >>
    BY SubSeqEmpty
  <2>2. QED
    BY <1>1, <2>1 DEF IsBeneath
<1>3. SubSeq(p, 1, Len(p)) = p
  BY SubSeqFull
<1>4. _relative_path(<< >>, p) = SubSeq(p, 1, Len(p))
  BY <1>1, <1>2 DEF _relative_path
<1>5. QED
  BY <1>2, <1>3, <1>4

\* Where a scan of a directory finds something.
LEMMA ScanOfDirectory ==
    ASSUME NEW root, ~ IsFile(root)
    PROVE  {f.path : f \in run_backup_scan(root)} =
             {_relative_path(root, p) : p \in {q \in rglob(root) :
                Objectionable(_relative_path(root, q), Kind(q) = Dir)}}
<1> DEFINE bad == {q \in rglob(root) :
                     _backup_artifact_reason(_relative_path(root, q), Kind(q) = Dir) # ""}
           finding(p) == [path   |-> _relative_path(root, p),
                          reason |-> _backup_artifact_reason(_relative_path(root, p), Kind(p) = Dir)]
<1>1. run_backup_scan(root) = {finding(p) : p \in bad}
  BY DEF run_backup_scan, FindingsOn, _iter_backup_paths, _iter_paths
<1>2. bad = {q \in rglob(root) : Objectionable(_relative_path(root, q), Kind(q) = Dir)}
  BY ReasonMeans
<1>3. \A p : finding(p).path = _relative_path(root, p)
  OBVIOUS
<1> HIDE DEF bad, finding
<1>4. {f.path : f \in run_backup_scan(root)} = {_relative_path(root, p) : p \in bad}
  BY <1>1, <1>3
<1>5. QED
  BY <1>2, <1>4

LEMMA ScanOfEverything ==
    {f.path : f \in run_backup_scan(<< >>)} =
      {p \in rglob(<< >>) : Objectionable(p, tree[p] = Dir)}
<1>1. ~ IsFile(<< >>)
  BY DEF IsFile, Kind, KindIn
<1>2. ASSUME NEW p \in rglob(<< >>)
      PROVE  _relative_path(<< >>, p) = p /\ Kind(p) = tree[p]
  BY PathsAssumption, RelativeToTop, KindOfPaths DEF rglob
<1>3. {_relative_path(<< >>, p) : p \in {q \in rglob(<< >>) :
          Objectionable(_relative_path(<< >>, q), Kind(q) = Dir)}}
      = {p \in rglob(<< >>) : Objectionable(p, tree[p] = Dir)}
  BY <1>2
<1>4. QED
  BY <1>1, <1>3, ScanOfDirectory

\* What the backup mode finds in a directory it finds there from above, and
\* the other way round unless a name above is at fault.
THEOREM SubtreesAgree == Spec => []SubtreeScansAgree
<1>1. IInv => SubtreeScansAgree
  <2> SUFFICES ASSUME IInv, NEW dir \in Paths, tree[dir] = Dir
               PROVE  LET above == {f.path : f \in run_backup_scan(<< >>)}
                          here  == {dir \o f.path : f \in run_backup_scan(dir)}
                      IN  /\ here \subseteq above
                          /\ Parts(dir) \cap {".terraform", "reports"} = {} =>
                                \A found \in above : IsBeneath(found, dir) => found \in here
    BY DEF SubtreeScansAgree
  <2> DEFINE above == {f.path : f \in run_backup_scan(<< >>)}
             here  == {dir \o f.path : f \in run_backup_scan(dir)}
             relative(p) == _relative_path(dir, p)
             bad == {q \in rglob(dir) : Objectionable(relative(q), Kind(q) = Dir)}
  <2>1. ~ IsFile(dir)
    BY KindOfPaths DEF IsFile
  <2>2. ASSUME NEW p \in rglob(dir)
        PROVE  /\ p \in rglob(<< >>) /\ Kind(p) = tree[p]
               /\ dir \o relative(p) = p /\ NameOf(relative(p)) = NameOf(p)
               /\ Parts(p) = Parts(dir) \cup Parts(relative(p))
    <3>1. p \in Paths /\ tree[p] # Absent /\ IsBeneath(p, dir)
      BY DEF rglob
    <3>2. IsBeneath(p, << >>)
      BY <3>1, PathsAssumption, RelativeToTop
    <3>3. QED
      BY <3>1, <3>2, PathsAssumption, KindOfPaths, RelativeTo DEF rglob
  <2>3. {f.path : f \in run_backup_scan(dir)} = {relative(p) : p \in bad}
    BY <2>1, ScanOfDirectory
  <2> HIDE DEF relative
  <2>4. here = bad
    <3>1. here = {dir \o x : x \in {f.path : f \in run_backup_scan(dir)}}
      OBVIOUS
    <3>2. here = {dir \o relative(p) : p \in bad}
      BY <2>3, <3>1
    <3>3. QED
      BY <2>2, <3>2
  <2>5. above = {p \in rglob(<< >>) : Objectionable(p, tree[p] = Dir)}
    BY ScanOfEverything
  <2> HIDE DEF here, above
  <2>6. ASSUME NEW p \in bad PROVE p \in above
    BY <2>2, <2>5 DEF Objectionable
  <2>7. ASSUME Parts(dir) \cap {".terraform", "reports"} = {}, NEW p \in above, IsBeneath(p, dir)
        PROVE  p \in bad
    <3>1. p \in rglob(dir)
      BY <2>5, <2>7 DEF rglob
    <3>2. Objectionable(p, Kind(p) = Dir)
      BY <2>2, <2>5, <3>1
    <3>3. Objectionable(relative(p), Kind(p) = Dir)
      BY <2>2, <2>7, <3>1, <3>2 DEF Objectionable
    <3>4. QED
      BY <3>1, <3>3
  <2>8. here \subseteq above
    BY <2>4, <2>6
  <2>9. QED
    BY <2>4, <2>7, <2>8 DEF here, above
<1>2. QED
  BY <1>1, IInvHolds, PTL

\* Where a manifest is found at fault.
LEMMA ManifestPaths ==
    ASSUME NEW entries
    PROVE  {f.path : f \in ManifestFindings(entries)} =
             {e.path : e \in {x \in entries :
                Objectionable(x.path, _manifest_entry_is_directory(x))}}
<1> DEFINE bad == {e \in entries :
                     _backup_artifact_reason(e.path, _manifest_entry_is_directory(e)) # ""}
           finding(e) == [path   |-> e.path,
                          reason |-> _backup_artifact_reason(e.path, _manifest_entry_is_directory(e))]
<1>1. ManifestFindings(entries) = {finding(e) : e \in bad}
  BY DEF ManifestFindings
<1>2. \A e : finding(e).path = e.path
  OBVIOUS
<1>3. bad = {x \in entries : Objectionable(x.path, _manifest_entry_is_directory(x))}
  <2>1. \A e : _manifest_entry_is_directory(e) \in BOOLEAN
    BY DEF _manifest_entry_is_directory
  <2>2. QED
    BY <2>1, ReasonMeans
<1> HIDE DEF bad, finding
<1>4. {f.path : f \in ManifestFindings(entries)} = {e.path : e \in bad}
  BY <1>1, <1>2
<1>5. QED
  BY <1>3, <1>4

\* A manifest of everything there is is judged as the tree is, but for what it
\* does not tell.
THEOREM ManifestsMissNothing == Spec => []ManifestMissesNothing
<1>1. ManifestMissesNothing
  <2> SUFFICES ASSUME {entry.path : entry \in listing} = rglob(<< >>),
                      \A entry \in listing : entry.slash => tree[entry.path] = Dir
               PROVE  LET scanned == {f.path : f \in run_backup_scan(<< >>)}
                          listed  == {f.path : f \in ManifestFindings(listing)}
                      IN  /\ scanned \subseteq listed
                          /\ \A path \in listed \ scanned :
                                IF tree[path] = Dir THEN "reports" \in Parts(path)
                                                    ELSE NameOf(path) \in ToolDirectories
    BY DEF ManifestMissesNothing
  <2> DEFINE scanned == {f.path : f \in run_backup_scan(<< >>)}
             listed  == {f.path : f \in ManifestFindings(listing)}
  <2>1. scanned = {p \in rglob(<< >>) : Objectionable(p, tree[p] = Dir)}
    BY ScanOfEverything
  <2>2. listed = {e.path : e \in {x \in listing :
                    Objectionable(x.path, _manifest_entry_is_directory(x))}}
    BY ManifestPaths
  <2> HIDE DEF scanned, listed
  <2>3. ASSUME NEW p \in scanned PROVE p \in listed
    <3>1. p \in rglob(<< >>) /\ Objectionable(p, tree[p] = Dir)
      BY <2>1
    <3>2. PICK e \in listing : e.path = p
      BY <3>1
    <3>3. NameOf(p) \in Parts(p)
      <4>1. p \in Seq(Names) /\ p # << >>
        BY <3>1, PathsAssumption DEF rglob
      <4>2. Len(p) \in DOMAIN p
        BY <4>1, LenProperties, EmptySeq
      <4>3. QED
        BY <4>1, <4>2 DEF NameOf, Parts
    <3>4. e.slash => tree[p] = Dir
      BY <3>2
    <3> DEFINE isDir == _manifest_entry_is_directory(e)
    <3>5. isDir \in BOOLEAN
      BY DEF _manifest_entry_is_directory
    <3>6. NameOf(p) \in {".git", ".terraform"} \cup ToolDirectories => isDir
      BY <3>2 DEF _manifest_entry_is_directory
    <3>7. isDir => tree[p] = Dir \/ NameOf(p) \in {".git", ".terraform"} \cup ToolDirectories
      BY <3>2, <3>4 DEF _manifest_entry_is_directory
    <3> HIDE DEF isDir
    <3>8. Objectionable(p, isDir)
      BY <3>1, <3>3, <3>5, <3>6, <3>7 DEF Objectionable
    <3>9. QED
      BY <2>2, <3>2, <3>8 DEF isDir
  <2>4. ASSUME NEW p \in listed, p \notin scanned
        PROVE  IF tree[p] = Dir THEN "reports" \in Parts(p) ELSE NameOf(p) \in ToolDirectories
    <3>1. PICK e \in listing : e.path = p /\ Objectionable(p, _manifest_entry_is_directory(e))
      BY <2>2
    <3>2. p \in rglob(<< >>) /\ ~ Objectionable(p, tree[p] = Dir)
      BY <2>1, <2>4, <3>1
    <3>3. CASE tree[p] = Dir
      BY <3>1, <3>2, <3>3 DEF Objectionable, _manifest_entry_is_directory
    <3>4. CASE tree[p] # Dir
      BY <3>1, <3>2, <3>4 DEF Objectionable, _manifest_entry_is_directory
    <3>5. QED
      BY <3>3, <3>4
  <2>5. QED
    BY <2>3, <2>4 DEF scanned, listed
<1>2. QED
  BY <1>1, PTL

-----------------------------------------------------------------------------
\* Something was seen to change, or an agent file was seen that cannot be read.
ChangeWasSeen ==
    \E fact, other \in seen :
        /\ fact[2] = other[2] /\ fact[1] # other[1] /\ Tracked \notin {fact[1], other[1]}
        /\ \/ fact[2] = AgentsDir(command.path)
           \/ IsBeneath(fact[2], AgentsDir(command.path))

UnreadableWasSeen ==
    \E fact \in seen :
        /\ IsBeneath(fact[2], AgentsDir(command.path))
        /\ \/ fact[1] = Dir /\ NameOf(fact[2]) \in AgentNames
           \/ fact[1] \in DOMAIN TextOf /\ TextOf[fact[1]].broken = "not UTF-8"

\* While agent files are read, their directory and those not read yet have been
\* seen where they were listed.
ListedWasSeen ==
    pc = "read" =>
        /\ AgentsDir(command.path) \in Paths /\ <<Dir, AgentsDir(command.path)>> \in seen
        /\ \A path \in todo : \E what : what \notin {Tracked, Absent} /\ <<what, path>> \in seen

LEMMA NotTracked ==
    ASSUME Typed, NEW path \in Paths
    PROVE  tree[path] # Tracked
BY ContentsAssumption DEF Typed, Tracked, Absent

LEMMA AgentsDirIsAPath ==
    ASSUME Typed, Kind(AgentsDir(command.path)) = Dir
    PROVE  AgentsDir(command.path) \in Paths /\ tree[AgentsDir(command.path)] = Dir
<1>1. command.path \in Seq(Names) /\ {".github", "agents"} \subseteq Names
  BY CommandsAssumption, PathsAssumption DEF Typed, SafetyNames
<1>2. Append(command.path, ".github") \in Seq(Names)
  BY <1>1, AppendProperties
<1>3. AgentsDir(command.path) # << >>
  BY <1>1, <1>2, AppendProperties DEF AgentsDir
<1>4. QED
  BY <1>3 DEF Kind, KindIn, Dir, Absent

\* What has been seen stays seen.
LEMMA ChangeKeepsCause ==
    ASSUME ListedWasSeen, TracebackHasACause, seen \subseteq seen',
           UNCHANGED <<command, pc, outcome, todo>>
    PROVE  ListedWasSeen' /\ TracebackHasACause'
<1>1. ListedWasSeen'
  BY DEF ListedWasSeen
<1>2. outcome # "traceback" \/ command.mode # "default" \/ ChangeWasSeen \/ UnreadableWasSeen
  BY DEF TracebackHasACause, ChangeWasSeen, UnreadableWasSeen
<1>3. ChangeWasSeen => ChangeWasSeen'
  BY DEF ChangeWasSeen
<1>4. UnreadableWasSeen => UnreadableWasSeen'
  BY DEF UnreadableWasSeen
<1>5. TracebackHasACause'
  BY <1>2, <1>3, <1>4 DEF TracebackHasACause, ChangeWasSeen, UnreadableWasSeen
<1>6. QED
  BY <1>1, <1>5

\* An agent file that cannot be read was one when it was listed, or is none.
LEMMA UnreadableHasACause ==
    ASSUME IInv, ListedWasSeen, NEW path \in todo, pc = "read", ~ Readable(path)
    PROVE  ChangeWasSeen \/ UnreadableWasSeen
<1>1. /\ path \in Paths /\ IsBeneath(path, AgentsDir(command.path))
      /\ NameOf(path) \in AgentNames
      /\ tree[path] \in {Dir, Absent} \cup DOMAIN TextOf
  BY DEF IInv, Typed
<1>2. <<tree[path], path>> \in seen /\ tree[path] # Tracked
  BY <1>1, NotTracked DEF IInv, Remembered, Facts
<1>3. CASE tree[path] = Absent
  <2>1. PICK what : what \notin {Tracked, Absent} /\ <<what, path>> \in seen
    BY DEF ListedWasSeen
  <2> DEFINE now  == <<tree[path], path>>
             then == <<what, path>>
  <2>2. /\ now \in seen /\ now[1] = Absent /\ now[2] = path
        /\ then \in seen /\ then[1] = what /\ then[2] = path
    BY <1>2, <1>3, <2>1
  <2> HIDE DEF now, then
  <2>3. QED
    BY <1>1, <1>2, <1>3, <2>1, <2>2 DEF ChangeWasSeen
<1>4. CASE tree[path] # Absent
  <2> DEFINE now == <<tree[path], path>>
  <2>1. now \in seen /\ now[1] = tree[path] /\ now[2] = path
    BY <1>2
  <2>2. \/ tree[path] = Dir
        \/ tree[path] \in DOMAIN TextOf /\ TextOf[tree[path]].broken = "not UTF-8"
    BY <1>1, <1>4, KindOfPaths DEF Readable, IsFile
  <2> HIDE DEF now
  <2>3. QED
    BY <1>1, <2>1, <2>2 DEF UnreadableWasSeen
<1>5. QED
  BY <1>3, <1>4

\* A directory of agent files that is none any more was one.
LEMMA GoneHasACause ==
    ASSUME IInv, ListedWasSeen, pc = "read", Kind(AgentsDir(command.path)) # Dir
    PROVE  ChangeWasSeen
<1> DEFINE dir  == AgentsDir(command.path)
           now  == <<tree[dir], dir>>
           then == <<Dir, dir>>
<1>1. dir \in Paths /\ then \in seen /\ tree[dir] # Dir
  BY KindOfPaths DEF ListedWasSeen
<1>2. now \in seen /\ tree[dir] # Tracked
  BY <1>1, NotTracked DEF IInv, Remembered, Facts
<1>3. now[1] = tree[dir] /\ now[2] = dir /\ then[1] = Dir /\ then[2] = dir
  OBVIOUS
<1> HIDE DEF now, then
<1>4. QED
  BY <1>1, <1>2, <1>3 DEF ChangeWasSeen, Dir, Tracked

LEMMA ListKeepsCause ==
    ASSUME IInv, validate_agent_files
    PROVE  ListedWasSeen' /\ TracebackHasACause'
<1>1. /\ UNCHANGED <<repository, command, history>>
      /\ outcome' # "traceback"
  BY DEF validate_agent_files, GoOn, Return, End, IInv, Typed
<1>2. TracebackHasACause'
  BY <1>1 DEF TracebackHasACause
<1>3. ListedWasSeen'
  <2> SUFFICES ASSUME pc' = "read" PROVE ListedWasSeen'
    BY DEF ListedWasSeen
  <2>1. /\ pc = "agents" /\ Kind(AgentsDir(command.path)) = Dir
        /\ todo' = AgentFiles(command.path)
    BY DEF validate_agent_files, Return, End
  <2>2. /\ AgentsDir(command.path) \in Paths /\ tree[AgentsDir(command.path)] = Dir
        /\ \A path \in todo' : path \in Paths /\ tree[path] # Absent /\ tree[path] # Tracked
    BY <2>1, AgentsDirIsAPath, NotTracked DEF AgentFiles, glob, rglob, IInv
  <2>3. \A path \in Paths : <<tree[path], path>> \in seen
    BY <2>1 DEF IInv, Remembered, Facts
  <2>4. QED
    BY <1>1, <2>2, <2>3 DEF ListedWasSeen, history
<1>4. QED
  BY <1>2, <1>3

\* The default mode does not fail without a reason in the working tree.
THEOREM TracebacksHaveCauses == Spec => []TracebackHasACause
<1> DEFINE Inv == ListedWasSeen /\ TracebackHasACause
<1>1. Init => Inv
  BY DEF Init, ListedWasSeen, TracebackHasACause
<1>2. IInv /\ Inv /\ [Next]_vars => Inv'
  <2> SUFFICES ASSUME IInv, ListedWasSeen, TracebackHasACause, [Next]_vars PROVE Inv'
    OBVIOUS
  <2>1. CASE \/ \E path \in Paths : Write(path) \/ Delete(path) \/ Track(path) \/ Untrack(path)
             \/ WriteListing \/ UNCHANGED vars
    <3>1. seen \subseteq seen' /\ UNCHANGED <<command, pc, outcome, todo>>
      BY <2>1 DEF Write, Delete, Track, Untrack, Change, WriteListing, vars, history
    <3>2. QED
      BY <3>1, ChangeKeepsCause
  <2>2. CASE \/ Refuse \/ BackupScan \/ run_backup_manifest \/ run_default_preflight
             \/ _scan_tracked_paths \/ _scan_versioned_safety_paths
    <3>1. pc # "done" /\ outcome = "none"
      BY <2>2 DEF Refuse, BackupScan, run_backup_manifest, run_default_preflight,
                  _scan_tracked_paths, _scan_versioned_safety_paths, After, SafetyNames,
                  IInv, Typed
    <3>2. pc' # "read"
      BY <2>2 DEF Refuse, BackupScan, run_backup_manifest, run_default_preflight,
                  _scan_tracked_paths, _scan_versioned_safety_paths, After, SafetyNames,
                  Return, Traceback, GoOn, End
    <3>3. outcome' # "traceback" \/ command'.mode # "default"
      BY <2>2, <3>1 DEF Refuse, BackupScan, run_backup_manifest, run_default_preflight,
                  _scan_tracked_paths, _scan_versioned_safety_paths,
                  Return, Traceback, GoOn, End
    <3>4. QED
      BY <3>2, <3>3 DEF ListedWasSeen, TracebackHasACause
  <2>3. CASE validate_agent_files
    BY <2>3, ListKeepsCause
  <2>4. ASSUME NEW path \in Paths, ReadAgent(path) PROVE Inv'
    <3>1. CASE Readable(path)
      <4>1. /\ pc' = pc /\ outcome' = outcome /\ todo' \subseteq todo
            /\ UNCHANGED <<command, seen>> /\ outcome = "none"
        BY <2>4, <3>1 DEF ReadAgent, GoOn, history, IInv, Typed
      <4>2. QED
        BY <4>1 DEF ListedWasSeen, TracebackHasACause
    <3>2. CASE ~ Readable(path)
      <4>1. pc' = "done" /\ UNCHANGED <<command, seen>>
        BY <2>4, <3>2 DEF ReadAgent, Traceback, End, history
      <4>2. ChangeWasSeen \/ UnreadableWasSeen
        BY <2>4, <3>2, UnreadableHasACause DEF ReadAgent
      <4>3. QED
        BY <4>1, <4>2 DEF ListedWasSeen, TracebackHasACause, ChangeWasSeen, UnreadableWasSeen
    <3>3. QED
      BY <3>1, <3>2
  <2>5. CASE OtherFiles
    <3>1. pc = "read" /\ pc' = "done" /\ UNCHANGED <<command, seen>>
      BY <2>5 DEF OtherFiles, Return, Traceback, End, history
    <3>2. CASE Kind(AgentsDir(command.path)) = Dir
      <4>1. outcome' # "traceback"
        BY <2>5, <3>2 DEF OtherFiles, Return, End
      <4>2. QED
        BY <3>1, <4>1 DEF ListedWasSeen, TracebackHasACause
    <3>3. CASE Kind(AgentsDir(command.path)) # Dir
      BY <3>1, <3>3, GoneHasACause DEF ListedWasSeen, TracebackHasACause, ChangeWasSeen
    <3>4. QED
      BY <3>2, <3>3
  <2>6. QED
    BY <2>1, <2>2, <2>3, <2>4, <2>5 DEF Next
<1>3. QED
  BY <1>1, <1>2, IInvHolds, PTL DEF Spec
=============================================================================
