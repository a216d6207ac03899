----------------------- MODULE S3PolicyDocument_proofs -----------------------
(***************************************************************************)
(* Proof about S3PolicyDocument, for any statements, conditions, requests  *)
(* and policies of any length: what the verdict of the loop over the       *)
(* statements means for the requests AWS refuses.                          *)
(***************************************************************************)
EXTENDS S3PolicyDocument, SequenceTheorems, WellFoundedInduction, TLAPS

\* A set of numbers that is not empty has a least member.
LEMMA LeastExists ==
    ASSUME NEW I, I \subseteq Nat, I # {}
    PROVE  \E i \in I : \A j \in I : i <= j
<1>1. PICK i \in I : \A j \in I : ~ (<< j, i >> \in OpToRel(<, Nat))
  BY WFMin, NatLessThanWellFounded
<1>2. \A j \in I : i <= j
  <2> TAKE j \in I
  <2>1. i \in Nat /\ j \in Nat
    OBVIOUS
  <2>2. ~ (j < i)
    BY <1>1, <2>1 DEF OpToRel
  <2>3. QED
    BY <2>1, <2>2
<1>3. QED
  BY <1>2

Deciding(p) ==
    {i \in DOMAIN p : p[i].malformed \/ EnforcesSecureTransport(p[i])}

\* What the loop answers, in terms of the first statement that ends it.
LEMMA FirstDecides ==
    ASSUME NEW p, DOMAIN p \subseteq Nat
    PROVE  \/ Deciding(p) = {} /\ check_secure_transport_policy(p).status = "FAIL"
           \/ \E i \in Deciding(p) :
                 /\ \A j \in Deciding(p) : i <= j
                 /\ check_secure_transport_policy(p).status =
                       IF p[i].malformed THEN "UNKNOWN" ELSE "PASS"
<1> DEFINE first == CHOOSE i \in Deciding(p) : \A j \in Deciding(p) : i <= j
<1>1. check_secure_transport_policy(p) =
         IF Deciding(p) = {} THEN check_result("FAIL", "SecureTransportNotEnforced")
         ELSE IF p[first].malformed THEN check_result("UNKNOWN", "MalformedPolicy")
         ELSE check_result("PASS", "None")
  BY Zenon DEF check_secure_transport_policy, Deciding
<1>2. ASSUME Deciding(p) # {}
      PROVE  first \in Deciding(p) /\ \A j \in Deciding(p) : first <= j
  <2>1. Deciding(p) \subseteq Nat
    BY DEF Deciding
  <2>2. \E i \in Deciding(p) : \A j \in Deciding(p) : i <= j
    BY <1>2, <2>1, LeastExists
  <2>3. QED
    BY <2>2
<1> HIDE DEF first
<1>3. CASE Deciding(p) = {}
  BY <1>1, <1>3 DEF check_result
<1>4. CASE Deciding(p) # {}
  BY <1>1, <1>2, <1>4 DEF check_result
<1>5. QED
  BY <1>3, <1>4

LEMMA ConditionFields ==
    ASSUME NEW s \in Statements
    PROVE  /\ s.malformed \in BOOLEAN
           /\ DOMAIN s.Condition = 1..Len(s.Condition) /\ Len(s.Condition) \in Nat
           /\ \A i \in DOMAIN s.Condition :
                 /\ s.Condition[i].bool \in BOOLEAN
                 /\ s.Condition[i].secureTransport \in {"false", "true", "list", "absent"}
                 /\ s.Condition[i].others \subseteq Requirements
<1>1. s.Condition \in Seq({s.Condition[i] : i \in DOMAIN s.Condition})
  BY StatementsAssumption
<1> DEFINE c == s.Condition
           S == {c[i] : i \in DOMAIN c}
<1>2. c \in Seq(S)
  BY <1>1
<1> HIDE DEF c, S
<1>3. DOMAIN c = 1..Len(c) /\ Len(c) \in Nat
  BY <1>2, LenProperties
<1>4. QED
  BY <1>3, StatementsAssumption DEF c

\* A statement the check is content with refuses plaintext as far as its
\* conditions go, and all of it when it has no other conditions.
LEMMA EnforcingRefuses ==
    ASSUME NEW s \in Statements, ~ s.malformed, EnforcesSecureTransport(s)
    PROVE  /\ RefusesPlaintextWithin(s)
           /\ Unconditional(s) => RefusesPlaintext(s)
<1> DEFINE c == s.Condition
<1>1. s.Effect = "Deny" /\ Denies(s)
  BY DEF EnforcesSecureTransport, Denies
<1>2. ASSUME NEW r \in Requests
      PROVE  Applies(s, r) <=> AllMet(c, r)
  <2>1. "s3:*" \in s.Action \/ "*" \in s.Action
    BY DEF EnforcesSecureTransport, _action_covers_s3
  <2>2. r.resource \in s.Resource \/ "*" \in s.Resource
    BY DEF EnforcesSecureTransport, _resource_covers_bucket, Requests
  <2>3. "*" \in s.Principal
    BY DEF EnforcesSecureTransport, _principal_covers_everyone
  <2>4. QED
    BY <2>1, <2>2, <2>3 DEF Applies
<1>3. PICK i \in DOMAIN c : c[i].bool /\ c[i].secureTransport = "false"
  BY DEF EnforcesSecureTransport, _condition_has_secure_transport_false
<1>4. \A r \in Requests : AllMet(c, r) => ~ r.tls
  BY <1>3 DEF AllMet, Met
<1>5. RefusesPlaintextWithin(s)
  BY <1>1, <1>2, <1>4 DEF RefusesPlaintextWithin
<1>6. ASSUME Unconditional(s), NEW r \in Requests, ~ r.tls
      PROVE  AllMet(c, r)
  <2>1. DOMAIN c = 1..Len(c) /\ Len(c) \in Nat /\ Len(c) <= 1
    BY <1>6, ConditionFields DEF Unconditional
  <2>2. \A j \in DOMAIN c : j = i
    BY <2>1
  <2>3. c[i].others = {}
    BY <1>6 DEF Unconditional
  <2>4. Met(c[i], r)
    BY <1>3, <1>6, <2>3 DEF Met
  <2>5. QED
    BY <2>2, <2>4 DEF AllMet
<1>7. Unconditional(s) => RefusesPlaintext(s)
  BY <1>1, <1>2, <1>4, <1>6 DEF RefusesPlaintext
<1>8. QED
  BY <1>5, <1>7

\* Of the members of a set of positions, one is the last.
LEMMA LastExists ==
    ASSUME NEW n \in Nat, NEW I, I \subseteq 1..n, I # {}
    PROVE  \E i \in I : \A j \in I : j <= i
<1> DEFINE J == {n - i : i \in I}
<1>1. J \subseteq Nat /\ J # {}
  <2>1. \A i \in I : n - i \in Nat
    OBVIOUS
  <2>2. QED
    BY <2>1
<1>2. PICK k \in J : \A j \in J : k <= j
  <2> HIDE DEF J
  <2>1. QED
    BY <1>1, LeastExists
<1>3. PICK i \in I : k = n - i
  OBVIOUS
<1>4. \A j \in I : n - i <= n - j
  BY <1>2, <1>3
<1>5. \A j \in I : i \in Int /\ j \in Int /\ n \in Int
  OBVIOUS
<1>6. QED
  BY <1>4, <1>5

\* The check is content with every statement that refuses all plaintext and
\* nothing else, if it says so in the spelling the check knows.
LEMMA RefusingEnforces ==
    ASSUME NEW s \in Statements, RefusesPlaintext(s), Recognised(s)
    PROVE  EnforcesSecureTransport(s)
<1> DEFINE c == s.Condition
<1>1. PICK a \in Actions : a \notin s.Action
  BY WildcardsAssumption
<1>2. PICK p \in Callers : p \notin s.Principal
  BY WildcardsAssumption
<1> DEFINE Asked(tls, resource) == [tls |-> tls, action |-> a, resource |-> resource,
                                    principal |-> p, meets |-> Requirements]
<1>3. \A t \in BOOLEAN, x \in {"bucket", "objects"} :
         /\ Asked(t, x) \in Requests
         /\ Asked(t, x).tls = t /\ Asked(t, x).action = a /\ Asked(t, x).principal = p
         /\ Asked(t, x).resource = x /\ Asked(t, x).meets = Requirements
  BY DEF Requests
<1> HIDE DEF Asked
<1>4. s.Effect = "Deny" /\ \A r \in Requests : Applies(s, r) <=> ~ r.tls
  BY DEF RefusesPlaintext, Denies
<1>5. \A x \in {"bucket", "objects"} : /\ Applies(s, Asked(FALSE, x))
                                       /\ ~ Applies(s, Asked(TRUE, x))
  BY <1>3, <1>4
<1>6. _action_covers_s3(s.Action) /\ _principal_covers_everyone(s.Principal)
  BY <1>1, <1>2, <1>3, <1>5 DEF Applies, _action_covers_s3, _principal_covers_everyone
<1>7. _resource_covers_bucket(s.Resource)
  BY <1>3, <1>5 DEF Applies, _resource_covers_bucket
<1>8. \A i \in DOMAIN c : Met(c[i], Asked(FALSE, "bucket"))
  BY <1>5 DEF Applies, AllMet
<1>9. \A i \in DOMAIN c : c[i].bool /\ c[i].secureTransport \in {"false", "absent"}
  <2> TAKE i \in DOMAIN c
  <2>1. c[i].bool /\ c[i].secureTransport \in {"false", "true", "absent"}
    BY ConditionFields DEF Recognised
  <2>2. c[i].secureTransport # "true"
    BY <1>3, <1>8, <2>1 DEF Met
  <2>3. QED
    BY <2>1, <2>2
<1>10. \E i \in DOMAIN c : c[i].secureTransport = "false"
  <2>1. ~ AllMet(c, Asked(TRUE, "bucket"))
    <3>1. /\ a \in s.Action \/ "s3:*" \in s.Action \/ "*" \in s.Action
          /\ "bucket" \in s.Resource \/ "*" \in s.Resource
          /\ p \in s.Principal \/ "*" \in s.Principal
      BY <1>3, <1>5 DEF Applies
    <3>2. QED
      BY <1>3, <1>5, <3>1 DEF Applies
  <2>2. PICK i \in DOMAIN c : ~ Met(c[i], Asked(TRUE, "bucket"))
    BY <2>1 DEF AllMet
  <2>3. c[i].others \subseteq Asked(TRUE, "bucket").meets
    BY <1>3, ConditionFields
  <2>4. c[i].secureTransport # "absent"
    BY <1>9, <2>2, <2>3 DEF Met
  <2>5. QED
    BY <1>9, <2>4
<1>11. _condition_has_secure_transport_false(c)
  <2> DEFINE I == {i \in DOMAIN c : c[i].secureTransport = "false"}
  <2>1. DOMAIN c = 1..Len(c) /\ Len(c) \in Nat
    BY ConditionFields
  <2>2. PICK i \in I : \A j \in I : j <= i
    <3>1. I \subseteq 1..Len(c) /\ I # {}
      BY <1>10, <2>1
    <3> HIDE DEF I
    <3>2. QED
      BY <2>1, <3>1, LastExists
  <2>3. \A j \in DOMAIN c : j > i => c[j].secureTransport = "absent"
    <3> TAKE j \in DOMAIN c
    <3>1. j \in Nat /\ i \in Nat
      BY <2>1
    <3>2. j > i => j \notin I
      BY <2>2, <3>1
    <3>3. QED
      BY <1>9, <3>2
  <2>4. QED
    BY <1>9, <2>2, <2>3 DEF _condition_has_secure_transport_false
<1>12. QED
  BY <1>4, <1>6, <1>7, <1>11 DEF EnforcesSecureTransport

\* The verdict is always the one on the whole policy written so far.
Judged ==
    /\ policy \in Seq(Statements)
    /\ verdict = check_secure_transport_policy(policy)

LEMMA JudgedHolds == Spec => []Judged
<1>1. Init => Judged
  BY EmptySeq DEF Init, Judged
<1>2. Judged /\ [AddStatement]_vars => Judged'
  <2>1. ASSUME Judged, AddStatement PROVE Judged'
    <3>1. PICK s \in Statements : policy' = Append(policy, s)
      BY <2>1 DEF AddStatement
    <3>2. policy' \in Seq(Statements)
      BY <2>1, <3>1, AppendProperties DEF Judged
    <3>3. QED
      BY <2>1, <3>2 DEF AddStatement, Judged
  <2>2. ASSUME Judged, UNCHANGED vars PROVE Judged'
    BY <2>2 DEF Judged, vars
  <2>3. QED
    BY <2>1, <2>2
<1>3. QED
  BY <1>1, <1>2, PTL DEF Spec

LEMMA MeaningFollows == Judged => VerdictMatchesMeaning
<1> SUFFICES ASSUME Judged PROVE VerdictMatchesMeaning
  OBVIOUS
<1> DEFINE Unreadable == {i \in DOMAIN policy : policy[i].malformed}
           Refusing   == {i \in DOMAIN policy : RefusesPlaintext(policy[i]) /\ Recognised(policy[i])}
           Passing    == {i \in DOMAIN policy : RefusesPlaintextWithin(policy[i])}
           Whole   == {i \in DOMAIN policy : RefusesPlaintext(policy[i])}
           First(set) == {i \in set : \A j \in Unreadable : i < j}
           Plain      == \A i \in DOMAIN policy : Unconditional(policy[i])
           Meaning ==
             /\ verdict.status = "PASS" => First(Passing) # {}
             /\ verdict.status = "PASS" /\ Plain => First(Whole) # {}
             /\ verdict.status = "FAIL" => Refusing = {} /\ Unreadable = {}
             /\ verdict.status = "UNKNOWN" => Unreadable # {} /\ First(Refusing) = {}
<1>1. DOMAIN policy \subseteq Nat /\ \A i \in DOMAIN policy : policy[i] \in Statements
  BY ElementOfSeq, LenProperties DEF Judged
<1>2. /\ Refusing \subseteq Deciding(policy) /\ Unreadable \subseteq Deciding(policy)
      /\ \A i \in Deciding(policy) \ Unreadable :
            i \in Passing /\ (Plain => i \in Whole)
      /\ \A i \in Deciding(policy) : i \in Unreadable <=> policy[i].malformed
  <2>1. Refusing \subseteq Deciding(policy)
    BY <1>1, RefusingEnforces DEF Deciding
  <2>2. ASSUME NEW i \in Deciding(policy) \ Unreadable
        PROVE  i \in Passing /\ (Plain => i \in Whole)
    <3>1. /\ i \in DOMAIN policy /\ policy[i] \in Statements /\ ~ policy[i].malformed
          /\ EnforcesSecureTransport(policy[i])
      BY <1>1 DEF Deciding
    <3>2. QED
      BY <3>1, EnforcingRefuses
  <2>3. QED
    BY <2>1, <2>2 DEF Deciding
<1>3. Deciding(policy) \subseteq Nat
  BY <1>1 DEF Deciding
<1> HIDE DEF Refusing, Unreadable, Passing, Whole, Plain
<1>4. ASSUME Deciding(policy) = {}, verdict.status = "FAIL"
      PROVE  Meaning
  BY <1>2, <1>4
<1>5. ASSUME NEW i \in Deciding(policy), \A j \in Deciding(policy) : i <= j,
             verdict.status = IF policy[i].malformed THEN "UNKNOWN" ELSE "PASS"
      PROVE  Meaning
  <2>1. CASE i \in Unreadable
    <3>1. verdict.status = "UNKNOWN"
      BY <1>2, <1>5, <2>1
    <3>2. First(Refusing) = {}
      <4> SUFFICES ASSUME NEW k \in First(Refusing) PROVE FALSE
        OBVIOUS
      <4>1. k \in Refusing /\ k < i
        BY <2>1
      <4>2. k \in Nat /\ i \in Nat /\ i <= k
        BY <1>2, <1>3, <1>5, <4>1
      <4>3. QED
        BY <4>1, <4>2
    <3>3. QED
      BY <2>1, <3>1, <3>2
  <2>2. CASE i \notin Unreadable
    <3>1. verdict.status = "PASS"
      BY <1>2, <1>5, <2>2
    <3>2. \A j \in Unreadable : i < j
      <4> TAKE j \in Unreadable
      <4>1. j \in Deciding(policy) /\ i # j
        BY <1>2, <2>2
      <4>2. i \in Nat /\ j \in Nat /\ i <= j
        BY <1>3, <1>5, <4>1
      <4>3. QED
        BY <4>1, <4>2
    <3>3. i \in Passing /\ (Plain => i \in Whole)
      BY <1>2, <2>2
    <3>4. QED
      BY <3>1, <3>2, <3>3
  <2>3. QED
    BY <2>1, <2>2
<1>6. Meaning
  BY <1>1, <1>4, <1>5, FirstDecides DEF Judged
<1>7. QED
  BY <1>6 DEF VerdictMatchesMeaning, Refusing, Unreadable, Passing, Whole, Plain

\* What PASS, UNKNOWN and FAIL of check_secure_transport_policy say of the
\* requests AWS refuses, for every policy: the clauses of the check add up to
\* a refusal of all plaintext but for conditions it does not look at, and no
\* refusal in the spelling it knows escapes it.
THEOREM PolicyVerdictsMeanRefusals == Spec => []VerdictMatchesMeaning
  BY JudgedHolds, MeaningFollows, PTL
=============================================================================
