------------------------- MODULE MCRepositoryPreflight -------------------------
(***************************************************************************)
(* A small working tree: a safety path with agents in it, ignored          *)
(* directories, and one file of every kind of artifact.                    *)
(***************************************************************************)
EXTENDS RepositoryPreflight

GitHub == << ".github" >>
Agents == << ".github", "agents" >>
Agent  == << ".github", "agents", "a.agent.md" >>
Notes  == << ".github", "agents", "notes.md" >>
State  == << ".github", "s.tfstate" >>

DefaultPaths ==
    {GitHub, Agents, Agent, Notes, State, << "reports" >>, << "reports", "e.tfvars.dist" >>,
     << "reports", "r.json" >>, << "p.tfvars" >>, << "AGENTS.md" >>}
BackupPaths ==
    {<< ".venv" >>, << ".venv", "z.zip" >>, << "d" >>, << "d", "reports" >>,
     << "d", "reports", "r.json" >>, << "d", ".terraform" >>, << "d", ".terraform", "s.tfstate" >>,
     << "d", ".terraform", "list.txt" >>, << "d", ".git" >>, << "d", ".git", "config" >>,
     << "list.txt" >>, << "p.tfvars" >>, << "e.tfvars.dist" >>, << ".env" >>}

MCNames == UNION {Parts(path) : path \in Paths} \cup SafetyNames \cup {"agents"}

Directories == {GitHub, Agents, << "reports" >>, << ".venv" >>, << "d" >>, << "d", "reports" >>,
                << "d", ".terraform" >>, << "d", ".git" >>}
Contents(path) ==
    CASE path = Agent -> {"reviewer", "two lists", "orders", "open end", "not UTF-8", Dir}
      [] path \in {Agents, << ".venv" >>} -> {Dir, "text"}
      [] path \in Directories \ {Agents} -> {Dir}
      [] OTHER -> {"text"}
MCHolds == [path \in Paths |-> Contents(path)]

Line(key, value) == [key |-> key, value |-> value]
Lines == << Line("name", "PR Gatekeeper"), Line("description", "text"),
            Line("argument-hint", "text"), Line("tools", AGENT_TOOLS_ALLOWLIST),
            Line("disable-model-invocation", TRUE) >>
Phrase(negated) == [phrase |-> "apply changes", negated |-> negated]
Reviewer == [broken |-> "", lines |-> Lines, sentences |-> Sentences, phrases |-> {Phrase(TRUE)}]
MCTextOf == [content \in {"text", "reviewer", "two lists", "orders", "open end", "not UTF-8"} |->
    CASE content = "reviewer"  -> Reviewer
      [] content = "two lists" -> [Reviewer EXCEPT !.lines =
                                      Append(Lines, Line("tools", << "repo/write" >>))]
      [] content = "orders"    -> [Reviewer EXCEPT !.phrases = {Phrase(TRUE), Phrase(FALSE)}]
      [] content = "open end"  -> [Reviewer EXCEPT !.broken = "not closed"]
      [] content = "not UTF-8" -> [Reviewer EXCEPT !.broken = "not UTF-8"]
      [] OTHER                 -> [Reviewer EXCEPT !.broken = "missing"]]

Tree(there) == [path \in Paths |->
    IF path \notin there THEN Absent
    ELSE IF path \in Directories THEN Dir ELSE IF path = Agent THEN "reviewer" ELSE "text"]
Young == {GitHub, Agents, Agent, << "reports" >>, << "d" >>}
MCRepositories ==
    {[tree |-> Tree(there), tracked |-> {Agent} \cap Paths]
       : there \in {Young, DefaultPaths, BackupPaths}}

Line0 == [mode |-> "default", path |-> << >>, manifest |-> Missing]
ListingAt == {<< "list.txt" >>, << "d", ".terraform", "list.txt" >>, << "p.tfvars" >>}
MCPaths == DefaultPaths \cup BackupPaths
DefaultCommands == {Line0, [Line0 EXCEPT !.path = GitHub], [Line0 EXCEPT !.manifest = << "list.txt" >>]}
ScanCommands == [mode : {"backup-scan"}, path : {<< >>, << "d" >>}, manifest : {Missing}]
ManifestCommands == [mode : {"backup-scan"}, path : {<< "d" >>}, manifest : ListingAt]
FileCommands == [mode : {"backup-scan"}, path : {<< ".env" >>}, manifest : {Missing}]
BackupCommands == ScanCommands \cup ManifestCommands
MCCommands == DefaultCommands \cup BackupCommands
=============================================================================
