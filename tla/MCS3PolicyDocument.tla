------------------------- MODULE MCS3PolicyDocument -------------------------
(***************************************************************************)
(* Policies of up to three statements over the enforcing statement and the *)
(* statements that differ from it in exactly one clause, among them those  *)
(* with a second condition.                                                *)
(***************************************************************************)
EXTENDS S3PolicyDocument

Cond(b, t, o) == [bool |-> b, secureTransport |-> t, others |-> o]

Enforcing ==
    [malformed |-> FALSE, Effect |-> "Deny", Action |-> {"s3:*"},
     Resource |-> {"bucket", "objects"}, Principal |-> {"*"},
     Condition |-> << Cond(TRUE, "false", {}) >>]

MCConditions ==
    { << >>,
      << Cond(FALSE, "false", {"org"}) >>,
      << Cond(FALSE, "false", {}) >>,
      << Cond(TRUE, "list", {}) >>,
      << Cond(TRUE, "false", {"org"}) >>,
      << Cond(TRUE, "false", {}), Cond(FALSE, "absent", {"org"}) >>,
      << Cond(TRUE, "false", {}), Cond(TRUE, "true", {}) >>,
      << Cond(TRUE, "true", {}), Cond(TRUE, "false", {}) >>,
      << Cond(TRUE, "false", {}), Cond(TRUE, "absent", {}) >> }

MCStatements ==
    { Enforcing,
      [Enforcing EXCEPT !.malformed = TRUE],
      [Enforcing EXCEPT !.Effect = "Allow"],
      [Enforcing EXCEPT !.Action = {"s3:GetObject"}],
      [Enforcing EXCEPT !.Action = {"*", "s3:GetObject"}],
      [Enforcing EXCEPT !.Action = {}],
      [Enforcing EXCEPT !.Resource = {"bucket"}],
      [Enforcing EXCEPT !.Resource = {"objects"}],
      [Enforcing EXCEPT !.Resource = {"*"}],
      [Enforcing EXCEPT !.Principal = {"account"}],
      [Enforcing EXCEPT !.Principal = {}] }
    \cup {[Enforcing EXCEPT !.Condition = c] : c \in MCConditions}
=============================================================================
