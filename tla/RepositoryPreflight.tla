-------------------------- MODULE RepositoryPreflight --------------------------
(***************************************************************************)
(* One command of repository_safety_preflight in a working tree that its   *)
(* developer goes on changing.                                             *)
(*                                                                         *)
(* tree tells what is at every path: nothing, a directory, or a file with  *)
(* some content; tracked are the paths in the index of git, whether or not *)
(* their files are still there.  listing is what the backup's manifest     *)
(* says.  The default mode reads the index, the safety paths, the list of  *)
(* agent files, every one of them and the list again, one after the other; *)
(* the two backup modes look once.  Symbolic links are not modelled.       *)
(***************************************************************************)
EXTENDS PreflightRules, FiniteSets

CONSTANTS
    Names,        \* of files and directories
    Paths,        \* the paths below the top that can be used
    Holds,        \* what each of them can hold, besides nothing
    TextOf,       \* the text of a file with some content, if it is an agent's
    Repositories, \* [tree, tracked] to begin with
    Commands,     \* command lines: [mode, path, manifest]
    MaxChanges    \* bound of the changes the developer makes

Dir     == "directory"
Absent  == "nothing"
Tracked == "tracked"

IsBeneath(path, dir) == Len(dir) < Len(path) /\ SubSeq(path, 1, Len(dir)) = dir

\* Things are in directories.
IsTree(files) == \A path, dir \in Paths :
    IsBeneath(path, dir) /\ files[path] # Absent => files[dir] = Dir

ASSUME PathsAssumption ==
    /\ SafetyNames \cup {"agents"} \subseteq Names
    /\ \A path \in Paths : path \in Seq(Names) /\ path # << >>

ASSUME ContentsAssumption ==
    /\ \A path \in Paths : /\ Holds[path] \subseteq {Dir} \cup DOMAIN TextOf
                           /\ {Absent, Tracked} \cap Holds[path] = {}
    /\ \A content \in DOMAIN TextOf : LET text == TextOf[content] IN
          /\ Len(text.lines) \in Nat /\ DOMAIN text.lines = 1 .. Len(text.lines)
          /\ text.phrases \subseteq [phrase : STRING, negated : BOOLEAN]

ASSUME RepositoriesAssumption == \A repo \in Repositories :
    /\ repo.tree \in [Paths -> {Dir, Absent} \cup DOMAIN TextOf] /\ repo.tracked \subseteq Paths /\ IsTree(repo.tree)
    /\ \A path \in Paths : repo.tree[path] \in Holds[path] \cup {Absent}

ASSUME CommandsAssumption == \A c \in Commands :
    c.path \in Seq(Names) /\ c.mode \in {"default", "backup-scan"}

VARIABLES
    tree, tracked, listing, changes,
    command,    \* the command line
    pc,         \* what the command does next
    gitWorked,  \* git ls-files succeeded
    todo,       \* agent files not read yet
    findings,   \* [path, reason]
    outcome,    \* how the command ended
    opened,     \* files whose contents it read
    kept,       \* facts of the repository that held ever since it started
    seen        \* facts that held at some time since it started

repository == <<tree, tracked, listing, changes>>
history == <<kept, seen>>
vars == <<repository, command, pc, gitWorked, todo, findings, outcome, opened, history>>

ParentOf(path) == SubSeq(path, 1, Len(path) - 1)

KindIn(files, path) ==
    IF path = << >> THEN Dir ELSE IF path \in Paths THEN files[path] ELSE Absent
Kind(path)    == KindIn(tree, path)
IsFile(path)  == Kind(path) \notin {Absent, Dir}
rglob(dir)    == {path \in Paths : tree[path] # Absent /\ IsBeneath(path, dir)}
glob(dir)     == {path \in rglob(dir) : ParentOf(path) = dir}

\* Mutant: the name alone.
NameAlone(root, path) == IF path = root THEN << >> ELSE << NameOf(path) >>

\* What is not beneath root is given from the top of the file system.
_relative_path(root, path) ==
    IF path = root THEN << >>
    ELSE IF IsBeneath(path, root) THEN SubSeq(path, Len(root) + 1, Len(path))
    ELSE << "/" >> \o path

_iter_paths(path)        == IF IsFile(path) THEN {path} ELSE rglob(path)
_iter_backup_paths(root) == _iter_paths(root)

FindingsOn(root, paths, Reason(_, _)) ==
    {[path |-> _relative_path(root, p), reason |-> Reason(_relative_path(root, p), Kind(p) = Dir)] :
        p \in {q \in paths : Reason(_relative_path(root, q), Kind(q) = Dir) # ""}}

run_backup_scan(root) ==
    FindingsOn(root, _iter_backup_paths(root), _backup_artifact_reason)

ManifestFindings(entries) ==
    {[path   |-> entry.path,
      reason |-> _backup_artifact_reason(entry.path, _manifest_entry_is_directory(entry))] :
        entry \in {e \in entries :
            _backup_artifact_reason(e.path, _manifest_entry_is_directory(e)) # ""}}

-----------------------------------------------------------------------------
Facts(files, index) == {<<files[path], path>> : path \in Paths} \cup {<<Tracked, path>> : path \in index}

Init ==
    /\ \E repo \in Repositories : tree = repo.tree /\ tracked = repo.tracked
    /\ listing = {} /\ changes = 0
    /\ command \in Commands
    /\ pc = "main" /\ outcome = "none"
    /\ gitWorked = TRUE /\ todo = {} /\ findings = {} /\ opened = {}
    /\ kept = {} /\ seen = {}

\* The developer, other tools, and whatever else writes to the working tree.
Change ==
    /\ pc # "done" /\ changes < MaxChanges
    /\ changes' = changes + 1
    /\ kept' = kept \cap Facts(tree', tracked')
    /\ seen' = IF pc = "main" THEN seen ELSE seen \cup Facts(tree', tracked')
    /\ UNCHANGED <<listing, command, pc, gitWorked, todo, findings, outcome, opened>>

Write(path) ==
    /\ Kind(ParentOf(path)) = Dir
    /\ \E content \in Holds[path] \ {tree[path]} :
           /\ content = Dir => tree[path] = Absent
           /\ tree[path] # Dir
           /\ tree' = [tree EXCEPT ![path] = content]
    /\ UNCHANGED tracked
    /\ Change

Delete(path) ==
    /\ tree[path] # Absent /\ rglob(path) = {}
    /\ tree' = [tree EXCEPT ![path] = Absent]
    /\ UNCHANGED tracked
    /\ Change

Track(path) ==
    /\ IsFile(path) /\ path \notin tracked
    /\ tracked' = tracked \cup {path}
    /\ UNCHANGED tree
    /\ Change

Untrack(path) ==
    /\ path \in tracked
    /\ tracked' = tracked \ {path}
    /\ UNCHANGED tree
    /\ Change

\* A backup's manifest lists the tree: its files, or everything, with or
\* without a slash after directories.
Listings ==
    {{[path |-> p, slash |-> slashes /\ tree[p] = Dir] :
          p \in {q \in rglob(<< >>) : dirs \/ tree[q] # Dir}} : slashes, dirs \in BOOLEAN}

WriteListing ==
    /\ pc = "main" /\ command.manifest # Missing
    /\ listing' \in Listings \ {listing}
    /\ UNCHANGED <<tree, tracked, changes, command, pc, gitWorked, todo, findings, outcome,
                   opened, history>>

-----------------------------------------------------------------------------
End(how) == pc' = "done" /\ outcome' = how

\* Nothing is printed.
Traceback ==
    /\ End("traceback") /\ findings' = {} /\ todo' = {}
    /\ UNCHANGED <<repository, command, gitWorked, opened, history>>

\* Mutant: only what the last look found counts.
ReturnLatest(result) ==
    /\ findings' = result
    /\ End(IF result \subseteq findings THEN "clean" ELSE "findings")

\* main prints the findings and returns 1 if there are any.
Return(result) ==
    /\ findings' = result
    /\ End(IF result = {} THEN "clean" ELSE "findings")

GoOn(next, more) ==
    /\ pc' = next /\ findings' = findings \cup more
    /\ UNCHANGED outcome

Refuse ==
    /\ pc = "main" /\ command.mode = "default" /\ command.manifest # Missing
    /\ End("refused")
    /\ UNCHANGED <<repository, command, gitWorked, todo, findings, opened, history>>

BackupScan ==
    /\ pc = "main" /\ command.mode = "backup-scan" /\ command.manifest = Missing
    /\ Return(run_backup_scan(command.path))
    /\ UNCHANGED <<repository, command, gitWorked, todo, opened, history>>

run_backup_manifest ==
    /\ pc = "main" /\ command.mode = "backup-scan" /\ command.manifest # Missing
    /\ \/ /\ SensitiveManifest(command.manifest)
          /\ Return({[path   |-> _relative_path(command.path, command.manifest),
                      reason |-> "sensitive manifest"]})
          /\ UNCHANGED <<repository, command, gitWorked, todo, opened, history>>
       \/ /\ ~ SensitiveManifest(command.manifest) /\ IsFile(command.manifest)
          /\ Return(ManifestFindings(listing))
          /\ opened' = opened \cup {command.manifest}
          /\ UNCHANGED <<repository, command, gitWorked, todo, history>>
       \/ /\ ~ SensitiveManifest(command.manifest) /\ ~ IsFile(command.manifest)
          /\ Traceback

run_default_preflight ==
    /\ pc = "main" /\ command.mode = "default" /\ command.manifest = Missing
    /\ pc' = "tracked"
    /\ kept' = Facts(tree, tracked) /\ seen' = Facts(tree, tracked)
    /\ UNCHANGED <<repository, command, gitWorked, todo, findings, outcome, opened>>

\* git ls-files lists the index below the directory it runs in.
Listed == {path \in tracked : IsBeneath(path, command.path)}

VersionedFindings(paths) ==
    {[path   |-> _relative_path(command.path, p),
      reason |-> _versioned_artifact_reason(_relative_path(command.path, p), FALSE)] :
        p \in {q \in paths :
            _versioned_artifact_reason(_relative_path(command.path, q), FALSE) # ""}}

\* Mutant: without git, the files of the working tree are taken for tracked.
WorkingTree == {path \in rglob(command.path) : IsFile(path)}

\* What _tracked_paths returns when git fails, or the path is no directory.
WithoutGit == {}

_scan_tracked_paths ==
    /\ pc = "tracked"
    /\ \/ /\ Kind(command.path) = Dir
          /\ GoOn(".github", VersionedFindings(Listed))
          /\ UNCHANGED gitWorked
       \/ /\ GoOn(".github", VersionedFindings(WithoutGit))
          /\ gitWorked' = FALSE
    /\ UNCHANGED <<repository, command, todo, opened, history>>

After == [x \in SafetyNames |->
              CASE x = ".github" -> "AGENTS.md" [] x = "AGENTS.md" -> ".gitignore"
                [] OTHER -> "agents"]

_scan_versioned_safety_paths ==
    /\ pc \in DOMAIN After
    /\ GoOn(After[pc],
            FindingsOn(command.path, _iter_paths(Append(command.path, pc)),
                       _versioned_artifact_reason))
    /\ UNCHANGED <<repository, command, gitWorked, todo, opened, history>>

AgentsDir(root)  == Append(Append(root, ".github"), "agents")
AgentFiles(root) == {path \in glob(AgentsDir(root)) : NameOf(path) \in AgentNames}
OnAgents(reason) == {[path |-> << ".github", "agents" >>, reason |-> reason]}

validate_agent_files ==
    /\ pc = "agents"
    /\ \/ /\ Kind(AgentsDir(command.path)) = Dir /\ AgentFiles(command.path) # {}
          /\ GoOn("read", {}) /\ todo' = AgentFiles(command.path)
       \/ /\ Kind(AgentsDir(command.path)) = Dir /\ AgentFiles(command.path) = {}
          /\ Return(findings \cup OnAgents("no agent files")) /\ UNCHANGED todo
       \/ /\ Kind(AgentsDir(command.path)) = Absent
          /\ Return(findings \cup OnAgents("missing")) /\ UNCHANGED todo
       \/ /\ IsFile(AgentsDir(command.path))
          /\ Return(findings \cup OnAgents("not a directory")) /\ UNCHANGED todo
    /\ UNCHANGED <<repository, command, gitWorked, opened, history>>

\* Mutant: an unparsable frontmatter raises like an undecodable file.
Parsable(path) == IsFile(path) /\ TextOf[tree[path]].broken = ""

Readable(path) == IsFile(path) /\ TextOf[tree[path]].broken # "not UTF-8"

\* The files were listed before; read_text raises if one is gone by now.
ReadAgent(path) ==
    /\ pc = "read" /\ path \in todo
    /\ \/ /\ Readable(path)
          /\ GoOn("read", {[path |-> _relative_path(command.path, path), reason |-> reason] :
                              reason \in AgentReasons(NameOf(path), TextOf[tree[path]])})
          /\ todo' = todo \ {path} /\ opened' = opened \cup {path}
          /\ UNCHANGED <<repository, command, gitWorked, history>>
       \/ ~ Readable(path) /\ Traceback

\* The directory is listed once more; iterdir raises if it is gone.
OtherFiles ==
    /\ pc = "read" /\ todo = {}
    /\ \/ /\ Kind(AgentsDir(command.path)) = Dir
          /\ Return(findings \cup
                    {[path |-> _relative_path(command.path, p), reason |-> "not an agent file"] :
                        p \in {q \in glob(AgentsDir(command.path)) :
                                  IsFile(q) /\ NameOf(q) \notin AgentNames}})
          /\ UNCHANGED <<repository, command, gitWorked, todo, opened, history>>
       \/ Kind(AgentsDir(command.path)) # Dir /\ Traceback

Next ==
    \/ \E path \in Paths : Write(path) \/ Delete(path) \/ Track(path) \/ Untrack(path)
    \/ WriteListing
    \/ Refuse \/ BackupScan \/ run_backup_manifest \/ run_default_preflight
    \/ _scan_tracked_paths \/ _scan_versioned_safety_paths \/ validate_agent_files
    \/ \E path \in Paths : ReadAgent(path)
    \/ OtherFiles

Spec == Init /\ [][Next]_vars

-----------------------------------------------------------------------------
\* Every variable holds what the code can put there, and the exit code says
\* whether anything was found (repository_safety_preflight).
TypeOK ==
    /\ \A path \in Paths : tree[path] \in Holds[path] \cup {Absent}
    /\ tracked \subseteq Paths /\ changes \in 0 .. MaxChanges
    /\ \A entry \in listing : entry.path \in Paths /\ entry.slash \in BOOLEAN
    /\ command \in Commands /\ gitWorked \in BOOLEAN
    /\ pc \in DOMAIN After \cup {"main", "tracked", "agents", "read", "done"}
    /\ outcome \in {"none", "clean", "findings", "refused", "traceback"}
    /\ (outcome = "none") = (pc # "done")
    /\ outcome = "clean" => findings = {}
    /\ outcome = "findings" => findings # {}
    /\ todo # {} => pc = "read"
    /\ todo \subseteq Paths /\ opened \subseteq Paths \cup {command.manifest}
    /\ kept \subseteq seen
    /\ seen \subseteq {<<what, path>> : path \in Paths,
                                      what \in {Tracked, Absent} \cup UNION {Holds[p] : p \in Paths}}

\* What the rules of the repository do not allow in changes or backups, of that
\* which the preflight knows.
Blocker(path) ==
    /\ NameOf(path) \notin ExampleNames
    /\ \/ ".terraform" \in Parts(path)
       \/ NameOf(path) \in {".env"} \cup TfstateNames \cup TfvarsNames \cup ZipNames
                          \cup ProviderNames

\* An agent that only reviews: its last list of tools is the allowed one, and
\* nothing in its text orders a change.
OnlyReviews(text) ==
    /\ text.broken = "" /\ Sentences \subseteq text.sentences
    /\ \A occurrence \in text.phrases : occurrence.negated
    /\ \E i \in DOMAIN text.lines :
          /\ text.lines[i].key = "tools" /\ text.lines[i].value = AGENT_TOOLS_ALLOWLIST
          /\ \A j \in DOMAIN text.lines : text.lines[j].key = "tools" => j <= i

InSafetyPath(path) ==
    \E name \in DOMAIN After : LET top == Append(command.path, name) IN
        path = top \/ IsBeneath(path, top)

\* When git answered and the default mode ends with 0, nothing that was there
\* from its start to its end is forbidden: no tracked file, nothing in a safety
\* path, no agent file; whatever the developer did meanwhile.
CleanMeansClean ==
    outcome = "clean" /\ command.mode = "default" =>
        /\ gitWorked => \A path \in Paths :
              <<Tracked, path>> \in kept /\ IsBeneath(path, command.path) =>
                  LET relative == _relative_path(command.path, path) IN
                  ~ Blocker(relative)
                  /\ ("reports" \in Parts(relative) => NameOf(relative) \in ExampleNames)
        /\ \A fact \in kept :
              fact[1] \notin {Tracked, Absent} =>
                  /\ InSafetyPath(fact[2]) => ~ Blocker(_relative_path(command.path, fact[2]))
                  /\ IsBeneath(fact[2], AgentsDir(command.path))
                     /\ ParentOf(fact[2]) = AgentsDir(command.path) /\ fact[1] # Dir =>
                         OnlyReviews(TextOf[fact[1]])

\* Every finding of the default mode is about a file that was tracked, or about
\* something in a safety path, at some time since it started; what else lies in
\* the working tree makes it fail in no way.
FindingsAreWitnessed ==
    command.mode = "default" =>
        \A finding \in findings :
            \/ finding.path = << ".github", "agents" >>
            \/ \E fact \in seen :
                  /\ finding.path = _relative_path(command.path, fact[2])
                  /\ fact[1] = Tracked \/ (fact[1] # Absent /\ InSafetyPath(fact[2]))

\* The default mode fails for a reason: a finding, or a traceback about an agent
\* file or directory that could not be read, or was changed while it ran.
TracebackHasACause ==
    outcome = "traceback" /\ command.mode = "default" =>
        \/ \E fact, other \in seen :
              /\ fact[2] = other[2] /\ fact[1] # other[1] /\ Tracked \notin {fact[1], other[1]}
              /\ \/ fact[2] = AgentsDir(command.path)
                 \/ IsBeneath(fact[2], AgentsDir(command.path))
        \/ \E fact \in seen :
              /\ IsBeneath(fact[2], AgentsDir(command.path))
              /\ \/ fact[1] = Dir /\ NameOf(fact[2]) \in AgentNames
                 \/ fact[1] \in DOMAIN TextOf /\ TextOf[fact[1]].broken = "not UTF-8"

\* A backup scan of a directory finds beneath it what a scan of the directory
\* above finds there, except what only the names above it forbid.
SubtreeScansAgree ==
    \A path \in Paths : tree[path] = Dir =>
        LET above == {f.path : f \in run_backup_scan(<< >>)}
            here  == {path \o f.path : f \in run_backup_scan(path)}
        IN  /\ here \subseteq above
            /\ Parts(path) \cap {".terraform", "reports"} = {} =>
                  \A found \in above : IsBeneath(found, path) => found \in here

\* A manifest that lists everything in the tree, with or without slashes after
\* directories, finds all that a scan finds; besides, at most directories named
\* reports or beneath one, and files with the name of a tool's directory.
ManifestMissesNothing ==
    /\ {entry.path : entry \in listing} = rglob(<< >>)
    /\ \A entry \in listing : entry.slash => tree[entry.path] = Dir
    => LET scanned == {f.path : f \in run_backup_scan(<< >>)}
           listed  == {f.path : f \in ManifestFindings(listing)}
       IN  /\ scanned \subseteq listed
           /\ \A path \in listed \ scanned :
                 IF tree[path] = Dir THEN "reports" \in Parts(path)
                                     ELSE NameOf(path) \in ToolDirectories

\* The preflight reads the contents of agent files and of a manifest that is no
\* blocker itself, and of nothing else.
OpensNoBlocker ==
    \A path \in opened :
        \/ ParentOf(path) = AgentsDir(command.path) /\ NameOf(path) \in AgentNames
        \/ path = command.manifest /\ ~ Blocker(path)

-----------------------------------------------------------------------------
\* What the rules of the repository say and the code does not do.

\* "Default mode validates tracked/versioned repository files"
TrackedIsValidated ==
    outcome = "clean" /\ command.mode = "default" =>
        \A path \in Paths :
            <<Tracked, path>> \in kept /\ IsBeneath(path, command.path) =>
                ~ Blocker(_relative_path(command.path, path))

\* "Backup-scan mode checks path names for backup and ZIP blockers", of the
\* supplied paths.
SuppliedBlockersAreFound ==
    outcome = "clean" /\ command.mode = "backup-scan" /\ command.manifest = Missing =>
        \A path \in rglob(command.path) \cup {command.path} :
            path # << >> /\ Kind(path) # Absent => ~ Blocker(path)
=============================================================================
