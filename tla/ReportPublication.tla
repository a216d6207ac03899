-------------------------- MODULE ReportPublication --------------------------
(***************************************************************************)
(* The two commands that turn local JSON files into a new one, the         *)
(* composer (unified_report_composer.main) and the RPO/RTO evaluator       *)
(* (rpo_rto_evaluator.main), as processes of one file system.  Invocations *)
(* overlap: the output of one may be the input or the output of another,   *)
(* any step of the file system may fail, and a process may be killed       *)
(* between two steps.                                                      *)
(*                                                                         *)
(* A document is abstracted to what decides whether a command accepts it:  *)
(* its kind, its platform and classification ("profile"), and the          *)
(* identifiers it carries.  Kind "invalid" is refused by every validator   *)
(* with a ValueError; kind "mistyped" makes one raise a TypeError, which   *)
(* neither main catches.  A policy is "undated" when it gives no time of   *)
(* evaluation.                                                             *)
(***************************************************************************)
EXTENDS Naturals, Sequences

CONSTANTS
    Procs,       \* invocations of the two commands
    Paths,       \* file names, after resolution of links
    Ids,         \* identifiers of sources, assets, findings and actions
    Profiles,    \* values of platform and data_classification
    Invocations, \* the command lines that may be given
    Operator,    \* the author of the files that no command wrote
    NoDoc,       \* what a path without a readable document holds
    InitialFiles,\* what the operator may have put in place beforehand
    AbsentPath, TornPath,  \* the two states of a path of the abstract store
                           \* that are not documents
    MaxFaults    \* bound: failing file operations and kills

Kinds == {"unified", "policy", "undated", "restore", "evaluation", "invalid", "mistyped"}
Docs  == [kind : Kinds, profile : Profiles, ids : SUBSET Ids]

Absent         == [state |-> "absent",   by |-> Operator, doc |-> NoDoc]
\* Mutant: a file counts as a document as soon as it is opened.
OpenedIsComplete(p) == [state |-> "complete", by |-> p, doc |-> NoDoc]

Partial(p)     == [state |-> "partial",  by |-> p, doc |-> NoDoc]
Complete(p, d) == [state |-> "complete", by |-> p, doc |-> d]

\* A command line: argparse takes one or more inputs for the composer; the
\* evaluator takes a report, a policy and, optionally, restore-test evidence
\* and a time of evaluation.
IsCommandLine(c) ==
    /\ c.tool \in {"compose", "evaluate"}
    /\ c.inputs \in Seq(Paths) /\ Len(c.inputs) > 0
    /\ c.tool = "evaluate" => /\ Len(c.inputs) \in {2, 3}
                              /\ c.timestamp \in {"none", "valid", "invalid"}
    /\ c.output \in Paths

ASSUME OperatorAssumption    == Operator \notin Procs
ASSUME NoDocAssumption       == NoDoc \notin Docs
ASSUME InvocationsAssumption == \A c \in Invocations : IsCommandLine(c)
ASSUME InitialFilesAssumption ==
    InitialFiles \subseteq [Paths -> {Absent} \cup {Complete(Operator, d) : d \in Docs}]
ASSUME PathStatesAssumption ==
    AbsentPath # TornPath /\ AbsentPath \notin Docs /\ TornPath \notin Docs
ASSUME MaxFaultsAssumption   == MaxFaults \in Nat

VARIABLES
    file,    \* the file system: state, author and document of every path
    pc,      \* where each invocation is
    args,    \* the command line of each invocation that has started
    read,    \* the documents each invocation has read, in reading order
    built,   \* the document each invocation has computed
    exit,    \* exit code, "killed", or "none" while running
    faults   \* how much of MaxFaults is used

vars == << file, pc, args, read, built, exit, faults >>

Init ==
    /\ file \in InitialFiles
    /\ pc = [p \in Procs |-> "idle"]
    /\ args \in [Procs -> Invocations]
    /\ read = [p \in Procs |-> << >>]
    /\ built = [p \in Procs |-> NoDoc]
    /\ exit = [p \in Procs |-> "none"]
    /\ faults = 0

-----------------------------------------------------------------------------
(***************************************************************************)
(* What the commands compute.  Documents are judged one after the other,   *)
(* and the first one that is not acceptable decides how the command ends.  *)
(***************************************************************************)

\* The kinds each position of the inputs may have.
ExpectedKinds(tool, i) ==
    IF tool = "compose" THEN {"unified"}
    ELSE CASE i = 1 -> {"unified"} [] i = 2 -> {"policy", "undated"} [] OTHER -> {"restore"}

\* The order of validation: the composer judges its inputs in the order given;
\* the evaluator judges restore-test evidence as it loads it, then the policy,
\* then the report.
JudgedBefore(tool, i, j) == IF tool = "compose" THEN i < j ELSE i > j

\* A unified report has at least one source and one asset, so it carries
\* identifiers.
Acceptable(tool, docs, i) ==
    /\ docs[i].kind \in ExpectedKinds(tool, i)
    /\ docs[i].kind = "unified" => docs[i].ids # {}

\* The first unacceptable document is one a validator trips over.
RaisesTypeError(tool, docs) ==
    \E i \in DOMAIN docs :
        /\ docs[i].kind = "mistyped"
        /\ \A j \in DOMAIN docs : JudgedBefore(tool, j, i) => Acceptable(tool, docs, j)

\* compose_unified_reports: the same profile throughout, no identifier twice.
Composable(docs) ==
    /\ \A i, j \in DOMAIN docs : docs[i].profile = docs[j].profile
    /\ \A i, j \in DOMAIN docs : i # j => docs[i].ids \cap docs[j].ids = {}

\* The time on the command line wins over the one in the policy; one must be
\* given, and be a time.
Dated(command, docs) ==
    \/ command.timestamp = "valid"
    \/ command.timestamp = "none" /\ \A i \in DOMAIN docs : docs[i].kind # "undated"

\* The time is looked at when all documents have been judged.
Accepts(command, docs) ==
    /\ \A i \in DOMAIN docs : Acceptable(command.tool, docs, i)
    /\ command.tool = "compose" => Composable(docs)
    /\ command.tool = "evaluate" => Dated(command, docs)

\* Composing keeps the profile and collects the identifiers; an evaluation is
\* about the report it was made from.
Result(tool, docs) ==
    [kind    |-> IF tool = "compose" THEN "unified" ELSE "evaluation",
     profile |-> docs[1].profile,
     ids     |-> IF tool = "compose" THEN UNION {docs[i].ids : i \in DOMAIN docs}
                                     ELSE docs[1].ids]

-----------------------------------------------------------------------------
Fault == faults < MaxFaults /\ faults' = faults + 1

Goto(p, label) == pc' = [pc EXCEPT ![p] = label] /\ UNCHANGED exit
End(p, code)   == pc' = [pc EXCEPT ![p] = "done"] /\ exit' = [exit EXCEPT ![p] = code]

output(p) == args[p].output

\* A composition of fewer than two inputs, an output path that is also an
\* input, and an output path that exists are refused before anything is read.
Refused(p) ==
    \/ args[p].tool = "compose" /\ Len(args[p].inputs) < 2
    \/ \E i \in DOMAIN args[p].inputs : args[p].inputs[i] = output(p)
    \/ file[output(p)].state # "absent"

\* main, up to the check that the output does not exist.
Invoke(p) ==
    /\ pc[p] = "idle"
    /\ IF Refused(p) THEN End(p, "2") ELSE Goto(p, "reading")
    /\ UNCHANGED << file, args, read, built, faults >>

\* Load the next input; a path without a file (OSError) or with part of a
\* document (JSONDecodeError) ends the command.
ReadInput(p) ==
    LET next == args[p].inputs[Len(read[p]) + 1] IN
    /\ pc[p] = "reading" /\ Len(read[p]) < Len(args[p].inputs)
    /\ \/ /\ file[next].state = "complete"
          /\ read' = [read EXCEPT ![p] = Append(@, file[next].doc)]
          /\ UNCHANGED << pc, exit, faults >>
       \/ file[next].state # "complete" /\ End(p, "2") /\ UNCHANGED << read, faults >>
       \/ Fault /\ End(p, "2") /\ UNCHANGED read
    /\ UNCHANGED << file, args, built >>

\* Mutant: the loop over the inputs may stop early.
BuildTooEarly(p) ==
    /\ pc[p] = "reading" /\ Len(read[p]) > 0
    /\ Accepts(args[p], read[p])
    /\ built' = [built EXCEPT ![p] = Result(args[p].tool, read[p])]
    /\ Goto(p, "opening")
    /\ UNCHANGED << file, args, read, faults >>

\* Validate and compute, without touching a file.
Build(p) ==
    /\ pc[p] = "reading" /\ Len(read[p]) = Len(args[p].inputs)
    /\ \/ /\ Accepts(args[p], read[p])
          /\ built' = [built EXCEPT ![p] = Result(args[p].tool, read[p])]
          /\ Goto(p, "opening")
       \/ /\ RaisesTypeError(args[p].tool, read[p])
          /\ End(p, "1") /\ UNCHANGED built
       \/ /\ ~ Accepts(args[p], read[p]) /\ ~ RaisesTypeError(args[p].tool, read[p])
          /\ End(p, "2") /\ UNCHANGED built
    /\ UNCHANGED << file, args, read, faults >>

\* Mutant: open("w") instead of open("x").
OpenTruncating(p) ==
    /\ pc[p] = "opening"
    /\ file' = [file EXCEPT ![output(p)] = Partial(p)]
    /\ Goto(p, "dumping")
    /\ UNCHANGED << args, read, built, faults >>

\* mkdir and open("x"): the file system refuses a path that exists by now.
OpenOutput(p) ==
    /\ pc[p] = "opening"
    /\ \/ /\ file[output(p)].state = "absent"
          /\ file' = [file EXCEPT ![output(p)] = Partial(p)]
          /\ Goto(p, "dumping")
          /\ UNCHANGED faults
       \/ /\ file[output(p)].state # "absent"
          /\ End(p, "2")
          /\ UNCHANGED << file, faults >>
       \/ Fault /\ End(p, "2") /\ UNCHANGED file
    /\ UNCHANGED << args, read, built >>

\* Mutant: an error of json.dump is swallowed.
DumpIgnoringErrors(p) ==
    /\ pc[p] = "dumping"
    /\ \/ /\ file' = [file EXCEPT ![output(p)] = Complete(p, built[p])]
          /\ Goto(p, "closing")
          /\ UNCHANGED faults
       \/ Fault /\ End(p, "0") /\ UNCHANGED file
    /\ UNCHANGED << args, read, built >>

\* Mutant: nothing is written to the opened file.
DumpNothing(p) ==
    /\ pc[p] = "dumping"
    /\ Goto(p, "closing")
    /\ UNCHANGED << file, args, read, built, faults >>

\* The text of the document reaches the file, or the disk refuses part of it.
Dump(p) ==
    /\ pc[p] = "dumping"
    /\ \/ /\ file' = [file EXCEPT ![output(p)] = Complete(p, built[p])]
          /\ Goto(p, "closing")
          /\ UNCHANGED faults
       \/ Fault /\ End(p, "2") /\ UNCHANGED file
    /\ UNCHANGED << args, read, built >>

\* The final newline and the close; a failure here leaves a readable file.
Close(p) ==
    /\ pc[p] = "closing"
    /\ \/ End(p, "0") /\ UNCHANGED faults
       \/ Fault /\ End(p, "2")
    /\ UNCHANGED << file, args, read, built >>

Kill(p) ==
    /\ pc[p] \notin {"idle", "done"}
    /\ Fault
    /\ End(p, "killed")
    /\ UNCHANGED << file, args, read, built >>

\* A half-written file nobody is writing to any more.
IsTorn(q) == file[q].state = "partial" /\ pc[file[q].by] = "done"

\* The operator removes what a failed invocation left behind.
CleanUp(q) ==
    /\ IsTorn(q)
    /\ file' = [file EXCEPT ![q] = Absent]
    /\ UNCHANGED << pc, args, read, built, exit, faults >>

Step(p) == \/ Invoke(p) \/ ReadInput(p) \/ Build(p)
           \/ OpenOutput(p) \/ Dump(p) \/ Close(p)

Next == \/ \E p \in Procs : Step(p) \/ Kill(p)
        \/ \E q \in Paths : CleanUp(q)

Spec     == Init /\ [][Next]_vars
\* The operating system keeps running a process that has started.
FairSpec == Spec /\ \A p \in Procs : WF_vars(pc[p] # "idle" /\ Step(p))
-----------------------------------------------------------------------------
Files == [state : {"absent", "partial", "complete"},
          by : Procs \cup {Operator}, doc : Docs \cup {NoDoc}]

\* The type of every variable; exactly the complete files hold a document.
TypeOK ==
    /\ file \in [Paths -> Files]
    /\ \A q \in Paths : file[q].state = "complete" <=> file[q].doc # NoDoc
    /\ pc \in [Procs -> {"idle", "reading", "opening", "dumping", "closing", "done"}]
    /\ args \in [Procs -> Invocations]
    /\ read \in [Procs -> Seq(Docs)]
    /\ built \in [Procs -> Docs \cup {NoDoc}]
    /\ exit \in [Procs -> {"none", "0", "1", "2", "killed"}]
    /\ faults \in 0..MaxFaults

\* The documents the inputs of p hold now.
InputsNow(p) == [i \in DOMAIN args[p].inputs |-> file[args[p].inputs[i]].doc]

\* An invocation that exits with 0 has published its own document, complete,
\* and running the command again on the files as they are now would compute
\* the very same document: nothing it read has changed since, although it read
\* its inputs one by one while others were publishing.
SuccessIsReproducible ==
    \A p \in Procs :
        exit[p] = "0" =>
            /\ \A i \in DOMAIN args[p].inputs : file[args[p].inputs[i]].state = "complete"
            /\ Accepts(args[p], InputsNow(p))
            /\ file[output(p)] = Complete(p, Result(args[p].tool, InputsNow(p)))

\* A file that holds part of a document is being written right now by the
\* invocation whose output it is, or was left behind by one that failed with 2
\* or was killed: exit codes 0 and 1 never stand beside a half-written file.
PartialIsNobodysResult ==
    \A q \in Paths :
        file[q].state = "partial" =>
            /\ output(file[q].by) = q
            /\ \/ pc[file[q].by] = "dumping"
               \/ exit[file[q].by] \in {"2", "killed"}

\* What holds between the steps, in parts.  An invocation has an exit code
\* exactly when it is done.
ExitInv == \A p \in Procs : exit[p] # "none" <=> pc[p] = "done"

\* Everything an invocation has read is still there, unchanged.
ReadInv ==
    \A p \in Procs :
        /\ Len(read[p]) <= Len(args[p].inputs)
        /\ \A i \in 1..Len(read[p]) :
              /\ file[args[p].inputs[i]].state = "complete"
              /\ file[args[p].inputs[i]].doc = read[p][i]

\* From Build on, an invocation holds the result of all its inputs.
BuiltInv ==
    \A p \in Procs :
        pc[p] \in {"opening", "dumping", "closing"} \/ exit[p] = "0" =>
            /\ Len(read[p]) = Len(args[p].inputs)
            /\ Accepts(args[p], read[p])
            /\ built[p] = Result(args[p].tool, read[p])

\* The output file of an invocation that has opened it is its own.
WriterInv ==
    \A p \in Procs :
        /\ pc[p] = "dumping" => file[output(p)] = Partial(p)
        /\ pc[p] = "closing" \/ exit[p] = "0" =>
              file[output(p)] = Complete(p, built[p])

\* A half-written file has an author, which is writing it or has failed.
PartialInv ==
    \A q \in Paths :
        file[q].state = "partial" =>
            /\ file[q].by \in Procs
            /\ output(file[q].by) = q
            /\ \/ pc[file[q].by] = "dumping"
               \/ pc[file[q].by] = "done" /\ exit[file[q].by] \in {"2", "killed"}

\* The inductive invariant: the parts need one another.  ReadInv needs
\* WriterInv (a Dump hits only the writer's own partial file), WriterInv needs
\* PartialInv (nobody cleans up under a writer), and the type of the files
\* needs BuiltInv.
IInv == TypeOK /\ ExitInv /\ ReadInv /\ BuiltInv /\ WriterInv /\ PartialInv

\* Existing output is not overwritten and inputs are not modified, whoever
\* created them and whoever else is running.
NeverOverwritten ==
    [][\A q \in Paths : file[q].state = "complete" => file'[q] = file[q]]_vars

\* Invocations that race for one output path do not refuse each other into
\* having no output: unless a fault strikes, one of them publishes.
RaceHasWinner ==
    \A q \in Paths :
        (\E p \in Procs : pc[p] = "opening" /\ output(p) = q)
            ~> (file[q].state = "complete" \/ faults > 0)

\* The write-once store this implements: a file being written is not there
\* yet, one that was left half-written is torn.
StoreOf(q) ==
    CASE file[q].state = "complete"              -> file[q].doc
      [] file[q].state = "partial" /\ IsTorn(q)  -> TornPath
      [] OTHER                                   -> AbsentPath

Store == INSTANCE WriteOnceStore
           WITH Absent <- AbsentPath, Torn <- TornPath,
                store <- [q \in Paths |-> StoreOf(q)]

ImplementsStore == Store!Spec
=============================================================================
