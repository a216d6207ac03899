-------------------------- MODULE S3PolicyDocument --------------------------
(***************************************************************************)
(* A bucket policy written statement by statement, as its author would,    *)
(* and judged by check_secure_transport_policy after each one.  Beside the *)
(* verdict stands what AWS makes of the statements: which requests each of *)
(* them applies to.  AWS wants every entry of a Condition met; an entry    *)
(* has, besides what S3Checks says of it, the set of further requirements  *)
(* it makes (others), which a request meets or not.                        *)
(***************************************************************************)
EXTENDS S3Checks

CONSTANTS
    Statements,       \* the statements an author may write
    MaxStatements,    \* bound: statements in one policy
    Actions, Callers, \* the S3 actions and those who request them
    Requirements      \* what a condition may require beside TLS

ASSUME MaxStatementsAssumption == MaxStatements \in Nat
ASSUME StatementsAssumption ==
    \A s \in Statements :
        /\ s.malformed \in BOOLEAN
        /\ s.Condition \in Seq({s.Condition[i] : i \in DOMAIN s.Condition})
        /\ \A i \in DOMAIN s.Condition :
              /\ s.Condition[i].bool \in BOOLEAN
              /\ s.Condition[i].secureTransport \in {"false", "true", "list", "absent"}
              /\ s.Condition[i].others \subseteq Requirements

\* No statement names all actions or all callers one by one.
ASSUME WildcardsAssumption ==
    /\ \E a \in Actions : \A s \in Statements : a \notin s.Action
    /\ \E c \in Callers : \A s \in Statements : c \notin s.Principal

VARIABLES policy, verdict

vars == << policy, verdict >>

Init == policy = << >> /\ verdict = check_secure_transport_policy(<< >>)

AddStatement ==
    /\ Len(policy) < MaxStatements
    /\ \E s \in Statements : policy' = Append(policy, s)
    /\ verdict' = check_secure_transport_policy(policy')

Spec == Init /\ [][AddStatement]_vars
-----------------------------------------------------------------------------
(***************************************************************************)
(* The requests, and the statements that apply to them.                    *)
(***************************************************************************)
Requests == [tls : BOOLEAN, action : Actions, resource : {"bucket", "objects"},
             principal : Callers, meets : SUBSET Requirements]

\* The operator Bool compares; a list is met by one of its values, which is
\* "false" here.  What another operator wants is among the others.
Met(entry, r) ==
    /\ entry.others \subseteq r.meets
    /\ entry.bool => /\ entry.secureTransport \in {"false", "list"} => ~ r.tls
                     /\ entry.secureTransport = "true" => r.tls

AllMet(condition, r) == \A i \in DOMAIN condition : Met(condition[i], r)

Applies(s, r) ==
    /\ r.action    \in s.Action    \/ "s3:*" \in s.Action \/ "*" \in s.Action
    /\ r.resource  \in s.Resource  \/ "*" \in s.Resource
    /\ r.principal \in s.Principal \/ "*" \in s.Principal
    /\ AllMet(s.Condition, r)

Denies(s) == ~ s.malformed /\ s.Effect = "Deny"

\* The statement refuses what comes without TLS, all of it, and nothing else.
RefusesPlaintext(s) == Denies(s) /\ \A r \in Requests : Applies(s, r) <=> ~ r.tls

\* It refuses what comes without TLS and meets its other conditions, whatever
\* the action, the resource and the caller.
RefusesPlaintextWithin(s) ==
    Denies(s) /\ \A r \in Requests : /\ AllMet(s.Condition, r) => Applies(s, r)
                                     /\ Applies(s, r) => ~ r.tls

\* One requirement at most, and it is about TLS.
Unconditional(s) == Len(s.Condition) <= 1 /\ \A i \in DOMAIN s.Condition : s.Condition[i].others = {}

\* Of the spellings AWS understands, those the check does: Bool, one value.
Recognised(s) ==
    \A i \in DOMAIN s.Condition : s.Condition[i].bool /\ s.Condition[i].secureTransport # "list"

\* What the verdict means for the requests AWS refuses.  PASS: a statement
\* refuses plaintext without exception for action, resource or caller, though
\* only as far as its other conditions go, which the check does not look at:
\* it refuses all plaintext when no statement has other conditions.  FAIL: no
\* statement, in the check's spelling, refuses all plaintext.  UNKNOWN: one
\* could not be read, and no such statement stands before it, as none that
\* cannot be read stands before the one that passes.
VerdictMatchesMeaning ==
    LET Unreadable == {i \in DOMAIN policy : policy[i].malformed}
        Refusing   == {i \in DOMAIN policy : RefusesPlaintext(policy[i]) /\ Recognised(policy[i])}
        Passing    == {i \in DOMAIN policy : RefusesPlaintextWithin(policy[i])}
        First(set) == {i \in set : \A j \in Unreadable : i < j}
    IN  /\ verdict.status = "PASS" => First(Passing) # {}
        /\ verdict.status = "PASS" /\ (\A i \in DOMAIN policy : Unconditional(policy[i]))
              => First({i \in DOMAIN policy : RefusesPlaintext(policy[i])}) # {}
        /\ verdict.status = "FAIL" => Refusing = {} /\ Unreadable = {}
        /\ verdict.status = "UNKNOWN" => Unreadable # {} /\ First(Refusing) = {}
=============================================================================
