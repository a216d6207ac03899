---------------------------- MODULE PreflightRules ----------------------------
(***************************************************************************)
(* The rules of repository_safety_preflight: what is wrong with a path, and *)
(* with an agent file.                                                     *)
(*                                                                         *)
(* A path is a sequence of names.  Which names match a pattern is given by *)
(* constants.  The text of an agent file is a record: broken says why its  *)
(* frontmatter cannot be parsed ("" if it can), lines are those of its     *)
(* frontmatter, [key, value], sentences the required ones that its body    *)
(* has, and phrases the forbidden ones that occur in it, each with whether *)
(* a negation stands before it.                                            *)
(***************************************************************************)
EXTENDS Naturals, Sequences, JsonValues

CONSTANTS
    TfstateNames,    \* *.tfstate and *.tfstate.*
    TfvarsNames,     \* *.tfvars
    ExampleNames,    \* *.tfvars.example, .sample, .template, .dist
    ZipNames,        \* *.zip in any case
    ProviderNames,   \* terraform-provider-aws*
    AgentNames,      \* *.agent.md
    HumanReadable,   \* names of agents, as strings without a hyphen
    KebabNames       \* lowercase words, joined by hyphens, before .agent.md

SafetyNames == {".github", "AGENTS.md", ".gitignore"}

ASSUME NamesAssumption ==
    (SafetyNames \cup {"reports"})
        \cap (TfstateNames \cup TfvarsNames \cup ZipNames \cup ProviderNames) = {}

Parts(path) == {path[i] : i \in DOMAIN path}
NameOf(path) == IF path = << >> THEN "." ELSE path[Len(path)]

_is_sensitive_tfvars_example(name) == name \in ExampleNames
_is_tfstate_name(name)             == name \in TfstateNames
_is_real_tfvars_name(name)         == name \in TfvarsNames \ ExampleNames
_is_zip_name(name)                 == name \in ZipNames
_is_provider_binary_name(name)     == name \in ProviderNames

\* What the names of files alone say; "" is None.
ArtifactName(name) ==
    CASE name = ".env"                   -> "env"
      [] _is_tfstate_name(name)          -> "tfstate"
      [] _is_real_tfvars_name(name)      -> "tfvars"
      [] _is_zip_name(name)              -> "zip"
      [] _is_provider_binary_name(name)  -> "provider"
      [] OTHER                           -> ""

\* Mutant: only the file's own name counts.
VersionedByName(path, is_dir) ==
    IF _is_sensitive_tfvars_example(NameOf(path)) THEN "" ELSE ArtifactName(NameOf(path))

\* The names of example files are looked at first and excuse everything.
_versioned_artifact_reason(path, is_dir) ==
    LET name == NameOf(path) IN
    IF _is_sensitive_tfvars_example(name)              THEN ""
    ELSE IF ".terraform" \in Parts(path)               THEN "terraform directory"
    ELSE IF is_dir /\ name = "reports"                 THEN ""
    ELSE IF "reports" \in Parts(path) /\ ~ is_dir      THEN "report"
    ELSE ArtifactName(name)

\* Directories that tools and agents make.
ToolDirectories ==
    {".venv", ".pytest_cache", ".ruff_cache", "__pycache__", ".agents", ".codex"}

_backup_artifact_reason(path, is_dir) ==
    LET name == NameOf(path) IN
    IF _is_sensitive_tfvars_example(name)              THEN ""
    ELSE IF name = ".git"                              THEN "git"
    ELSE IF ".terraform" \in Parts(path)               THEN "terraform directory"
    ELSE IF is_dir /\ name \in ToolDirectories          THEN name
    ELSE IF "reports" \in Parts(path) /\ ~ is_dir      THEN "report"
    ELSE ArtifactName(name)

\* A manifest entry is [path, slash].

\* Mutant: only the slash tells directories.
EndsWithSlash(entry) == entry.slash

_manifest_entry_is_directory(entry) ==
    \/ entry.slash
    \/ NameOf(entry.path) \in {".git", ".terraform"} \cup ToolDirectories

\* Mutant: a manifest in .terraform is read.
SensitiveName(manifest) ==
    \/ _is_tfstate_name(NameOf(manifest)) \/ _is_real_tfvars_name(NameOf(manifest))
    \/ _is_zip_name(NameOf(manifest))     \/ _is_provider_binary_name(NameOf(manifest))
    \/ NameOf(manifest) = ".env"

\* run_backup_manifest does not read such a manifest.
SensitiveManifest(manifest) ==
    \/ _is_tfstate_name(NameOf(manifest)) \/ _is_real_tfvars_name(NameOf(manifest))
    \/ _is_zip_name(NameOf(manifest))     \/ _is_provider_binary_name(NameOf(manifest))
    \/ NameOf(manifest) = ".env"
    \/ ".terraform" \in Parts(manifest)

-----------------------------------------------------------------------------
AGENT_TOOLS_ALLOWLIST == << "search/codebase", "search/usages" >>
AGENT_REQUIRED_FIELDS ==
    {"name", "description", "argument-hint", "tools", "disable-model-invocation"}

Sentences == {"REVIEWER_ONLY_TEXT", "NO_CHANGE_TEXT"}

\* Mutant: the first of several lines with one key counts.
FirstLine(lines, key) ==
    LET at == {i \in DOMAIN lines : lines[i].key = key} IN
    IF at = {} THEN Missing ELSE lines[CHOOSE i \in at : \A j \in at : i <= j].value

\* _parse_simple_frontmatter: a dict, so that the last line counts.
FieldOf(lines, key) ==
    LET at == {i \in DOMAIN lines : lines[i].key = key} IN
    IF at = {} THEN Missing ELSE lines[CHOOSE i \in at : \A j \in at : j <= i].value

_validate_agent_frontmatter(lines) ==
    {reason \in {"fields", "name", "tools", "invocation"} :
        CASE reason = "fields"     -> \E key \in AGENT_REQUIRED_FIELDS :
                                          FieldOf(lines, key) = Missing
          [] reason = "name"       -> FieldOf(lines, "name") \notin HumanReadable
          [] reason = "tools"      -> FieldOf(lines, "tools") # AGENT_TOOLS_ALLOWLIST
          [] reason = "invocation" -> FieldOf(lines, "disable-model-invocation") # TRUE}

\* Mutant: one negated occurrence excuses the phrase everywhere.
NowhereNegated(text, phrase) ==
    /\ [phrase |-> phrase, negated |-> FALSE] \in text.phrases
    /\ [phrase |-> phrase, negated |-> TRUE] \notin text.phrases

\* Each occurrence needs a negation of its own.
_contains_unnegated_phrase(text, phrase) ==
    [phrase |-> phrase, negated |-> FALSE] \in text.phrases

_validate_agent_body(text) ==
    (Sentences \ text.sentences)
    \cup {phrase \in {occurrence.phrase : occurrence \in text.phrases} :
              _contains_unnegated_phrase(text, phrase)}

\* Everything that is wrong with one *.agent.md; a frontmatter that cannot be
\* parsed ends the validation of the file.
AgentReasons(name, text) ==
    (IF name \in KebabNames THEN {} ELSE {"filename"})
    \cup (IF text.broken # "" THEN {text.broken}
          ELSE _validate_agent_frontmatter(text.lines) \cup _validate_agent_body(text))
=============================================================================
