------------------------- MODULE MCReportPublication -------------------------
(***************************************************************************)
(* Composer and evaluator invocations over five files: two unified         *)
(* reports, a policy, and two paths for results.  The second report may    *)
(* be missing or defective in each of the ways a command tells apart.      *)
(***************************************************************************)
EXTENDS ReportPublication, TLC

CONSTANTS a, b, policy, out, result

Doc(kind, profile, ids) == [kind |-> kind, profile |-> profile, ids |-> ids]

\* The second report, in all its forms; the last four are defective as an
\* input: another classification, an identifier twice, refused, TypeError.
SecondReports ==
    { Complete(Operator, Doc("unified", "mock", {2})),
      Absent,
      Complete(Operator, Doc("unified", "local", {2})),
      Complete(Operator, Doc("unified", "mock", {1})),
      Complete(Operator, Doc("invalid", "mock", {})),
      Complete(Operator, Doc("mistyped", "mock", {})) }

Disk(second, kind) ==
    a :> Complete(Operator, Doc("unified", "mock", {1})) @@ b :> second
      @@ policy :> Complete(Operator, Doc(kind, "mock", {}))
      @@ out :> Absent @@ result :> Absent

\* The policy says when to evaluate, or leaves it to the command line.
MCInitialFiles ==
    {Disk(second, "policy") : second \in SecondReports}
    \cup {Disk(Complete(Operator, Doc("unified", "mock", {2})), "undated")}

Compose(inputs, o)  == [tool |-> "compose", inputs |-> inputs, output |-> o]
EvaluateAt(time, inputs, o) ==
    [tool |-> "evaluate", timestamp |-> time, inputs |-> inputs, output |-> o]
Evaluate(inputs, o) == EvaluateAt("none", inputs, o)

\* Two racing compositions, an evaluation of what they publish, one that wants
\* their output path, and one that reads what an evaluation publishes.
MCInvocations ==
    { Compose(<< a, b >>, out), Compose(<< b, a >>, out),
      Evaluate(<< out, policy >>, result), Evaluate(<< a, policy >>, out),
      Evaluate(<< b, policy >>, result) }

\* The command lines that are refused, and a composition of a result with one
\* of its own inputs.
MCOddInvocations ==
    { Compose(<< a, b >>, out), Compose(<< a >>, out), Compose(<< a, b >>, b),
      Compose(<< a, out >>, result), Evaluate(<< out, policy, a >>, result),
      EvaluateAt("invalid", << a, policy >>, result), EvaluateAt("valid", << a, policy >>, out) }

MCLiveInvocations == MCInvocations \cup MCOddInvocations

MCProfiles == {"mock", "local"}

Symmetry == Permutations(Procs)
=============================================================================
