---------------------- MODULE S3SecurityValidator_proofs ----------------------
(***************************************************************************)
(* Proofs about S3SecurityValidator for any configurations of the bucket,  *)
(* any error codes and any bounds: exit code, report file and hard errors, *)
(* which do not depend on what the checks make of an answer, but for the   *)
(* critical error codes; then the verdicts, which do.                      *)
(***************************************************************************)
EXTENDS S3SecurityValidator, SequenceTheorems, WellFoundedInduction, TLAPS

LEMMA SevenChecks == Len(CheckOrder) = 7
  BY DEF CheckOrder

\* A sequence of anything with one more of anything.
LEMMA OneMoreResult ==
    ASSUME NEW seq, seq \in Seq({seq[i] : i \in DOMAIN seq}), NEW r
    PROVE  LET s == Append(seq, r)
           IN  Len(s) = Len(seq) + 1 /\ s \in Seq({s[i] : i \in DOMAIN s})
<1> DEFINE s == Append(seq, r)
           S == {seq[i] : i \in DOMAIN seq} \cup {r}
           T == {s[i] : i \in DOMAIN s}
<1>1. seq \in Seq(S)
  BY SeqMonotonic
<1>2. s \in Seq(S) /\ Len(s) = Len(seq) + 1
  BY <1>1, AppendProperties
<1>3. Len(s) \in Nat /\ DOMAIN s = 1..Len(s) /\ s = [i \in 1..Len(s) |-> s[i]]
  BY <1>2, LenProperties
<1> HIDE DEF s
<1>4. s \in [1..Len(s) -> T]
  BY <1>3
<1>5. s \in Seq(T)
  BY <1>3, <1>4, SeqDef
<1>6. QED
  BY <1>2, <1>5 DEF s

\* The overall status of all seven results is SECURE when all are a PASS.
LEMMA SecureMeansPass ==
    ASSUME checks \in Seq({checks[i] : i \in DOMAIN checks}), Len(checks) = Len(CheckOrder)
    PROVE  overall = "SECURE" <=> \A i \in DOMAIN checks : checks[i].status = "PASS"
<1> DEFINE statuses == {checks[i].status : i \in DOMAIN checks}
<1>1. DOMAIN checks = 1..7
  BY SevenChecks, LenProperties
<1>2. statuses # {}
  BY <1>1
<1>3. overall = "SECURE" <=> statuses = {"PASS"}
  BY <1>2 DEF overall, calculate_overall_status, VALID_CHECK_STATUSES
<1>4. QED
  BY <1>2, <1>3

\* A critical code leaves no result, whatever the check.
LEMMA CriticalRaises ==
    ASSUME NEW check, NEW answer, answer.kind = "error", answer.code \in AwsCritical
    PROVE  CheckAnswer(check, answer).status = "RuntimeError"
<1>1. answer.code \in CriticalErrors
  BY CodesAssumption
<1>2. check \in DOMAIN NotConfigured => NotConfigured[check][1] \notin CriticalErrors
  BY DEF NotConfigured, CriticalErrors
<1>3. CheckAnswer(check, answer) = ErrorResult(check, answer.code)
  BY DEF CheckAnswer
<1>4. QED
  BY <1>1, <1>2, <1>3 DEF ErrorResult, raise_for_critical_s3_error, Raised
-----------------------------------------------------------------------------
LEMMA InitInv == Init => IInv
<1> SUFFICES ASSUME Init PROVE IInv
  OBVIOUS
<1>1. checks \in Seq({checks[i] : i \in DOMAIN checks})
  BY EmptySeq DEF Init
<1>2. file = NoFile /\ pc = "idle" /\ run = 0 /\ exit = "none" /\ hardError = FALSE
  BY DEF Init
<1>3. QED
  BY <1>1, <1>2 DEF IInv, ResultsSoFar, FileSoFar, GoesOn, Running,
        ExitCodeMatchesReport, HardErrorEndsTheRun

\* A check that is evaluated leaves a result, or ends the run.
LEMMA CheckStep ==
    ASSUME IInv, pc = "reading", NEW answer, Evaluate(answer),
           UNCHANGED << file, run >>,
           hardError' => /\ answer.kind = "error" /\ answer.code \in AwsCritical
    PROVE  IInv'
<1> DEFINE check  == CheckOrder[Len(checks) + 1]
           result == CheckAnswer(check, answer)
<1>1. /\ ResultsSoFar /\ FileSoFar /\ GoesOn /\ run \in Nat /\ Len(checks) \in Nat
      /\ Len(checks) < 7 /\ run > 0 /\ exit = "none"
      /\ file.state = "complete" => file.run < run
  BY SevenChecks, LenProperties DEF IInv, ResultsSoFar, FileSoFar, GoesOn, Running
<1>2. overall' = overall \/ checks' # checks
  BY DEF overall
<1>3. CASE result.status = "RuntimeError"
  <2>1. pc' = "idle" /\ exit' = "2" /\ checks' = checks
    BY <1>3 DEF Evaluate, Finish
  <2>2. ResultsSoFar' /\ FileSoFar' /\ GoesOn'
    BY <1>1, <2>1 DEF ResultsSoFar, FileSoFar, GoesOn, Running
  <2>3. ExitCodeMatchesReport' /\ HardErrorEndsTheRun'
    BY <1>1, <2>1 DEF ExitCodeMatchesReport, HardErrorEndsTheRun
  <2>4. QED
    BY <1>1, <2>1, <2>2, <2>3 DEF IInv
<1>4. CASE result.status # "RuntimeError"
  <2>1. /\ checks' = Append(checks, result) /\ exit' = exit
        /\ pc' = IF Len(checks) + 1 = 7 THEN "printing" ELSE "reading"
    BY <1>4, SevenChecks DEF Evaluate
  <2>2. ~ hardError'
    BY <1>4, CriticalRaises
  <2> HIDE DEF result
  <2> DEFINE more == Append(checks, result)
  <2>3. Len(checks') = Len(checks) + 1 /\ checks' \in Seq({checks'[i] : i \in DOMAIN checks'})
    <3>1. Len(more) = Len(checks) + 1 /\ more \in Seq({more[i] : i \in DOMAIN more})
      BY <1>1, OneMoreResult DEF ResultsSoFar
    <3>2. checks' = more
      BY <2>1
    <3> HIDE DEF more
    <3>3. QED
      BY <3>1, <3>2
  <2>4. ResultsSoFar'
    BY <1>1, <2>1, <2>3, SevenChecks DEF ResultsSoFar
  <2>5. FileSoFar' /\ GoesOn'
    BY <1>1, <2>1, <2>2 DEF FileSoFar, GoesOn
  <2>6. ExitCodeMatchesReport' /\ HardErrorEndsTheRun'
    BY <1>1, <2>1, <2>2 DEF ExitCodeMatchesReport, HardErrorEndsTheRun
  <2>7. QED
    BY <1>1, <2>1, <2>4, <2>5, <2>6 DEF IInv, Running
<1>5. QED
  BY <1>3, <1>4

\* A run that ends with 2 or by a kill, having written nothing.
LEMMA EndStep ==
    ASSUME IInv, pc \in Running, NEW code \in {"2", "killed"}, Finish(code),
           UNCHANGED << file, run, checks >>,
           hardError' => pc = "reading" /\ code = "2"
    PROVE  IInv'
<1>1. ResultsSoFar /\ FileSoFar /\ run \in Nat
  BY DEF IInv
<1>2. pc' = "idle" /\ exit' = code
  BY DEF Finish
<1>3. ResultsSoFar' /\ FileSoFar' /\ GoesOn'
  BY <1>1, <1>2 DEF ResultsSoFar, FileSoFar, GoesOn, Running
<1>4. HardErrorEndsTheRun'
  BY <1>1, <1>2 DEF HardErrorEndsTheRun, FileSoFar
<1>5. QED
  BY <1>1, <1>2, <1>3, <1>4 DEF IInv, ExitCodeMatchesReport

LEMMA NextInv == IInv /\ [Next]_vars => IInv'
<1> SUFFICES ASSUME IInv, [Next]_vars PROVE IInv'
  OBVIOUS
<1> USE DEF IInv
<1>1. CASE ChangeBucket
  <2>1. UNCHANGED << file, pc, run, checks, exit, hardError >>
    BY <1>1 DEF ChangeBucket
  <2>2. QED
    BY <2>1 DEF ResultsSoFar, FileSoFar, GoesOn, overall, ExitCodeMatchesReport, HardErrorEndsTheRun
<1>2. CASE Start
  <2>1. /\ pc = "idle" /\ run' = run + 1 /\ checks' = << >> /\ ~ hardError' /\ file' = file
        /\ (pc' = "reading" /\ exit' = "none") \/ (pc' = "idle" /\ exit' = "2")
    BY <1>2 DEF Start, Finish
  <2>2. ResultsSoFar'
    BY <2>1, SevenChecks, EmptySeq DEF ResultsSoFar
  <2>3. FileSoFar' /\ GoesOn'
    BY <2>1 DEF FileSoFar, GoesOn, Running, NoFile, Truncated
  <2>4. QED
    BY <2>1, <2>2, <2>3 DEF ExitCodeMatchesReport, HardErrorEndsTheRun, Running
<1>3. CASE Check
  <2>1. pc = "reading" /\ ~ hardError
    BY <1>3 DEF Check, GoesOn, Running
  <2>2. QED
    BY <1>3, <2>1, CheckStep DEF Check
<1>4. CASE CheckFaulty
  <2>1. PICK answer : /\ Evaluate(answer)
                      /\ hardError' = (answer.kind = "error" /\ answer.code \in AwsCritical)
    BY <1>4 DEF CheckFaulty
  <2>2. QED
    BY <1>4, <2>1, CheckStep DEF CheckFaulty
<1>5. CASE CallFails
  BY <1>5, EndStep DEF CallFails, Running
<1>6. CASE PrintReport
  <2>1. CASE pc' = "opening" /\ exit' = exit
    <3>1. /\ pc = "printing" /\ UNCHANGED << file, run, checks, hardError >>
      BY <1>6 DEF PrintReport
    <3>2. ResultsSoFar' /\ FileSoFar' /\ GoesOn'
      BY <2>1, <3>1 DEF ResultsSoFar, FileSoFar, GoesOn, Running
    <3>3. QED
      BY <2>1, <3>1, <3>2 DEF ExitCodeMatchesReport, HardErrorEndsTheRun, GoesOn, Running
  <2>2. CASE Finish("2")
    BY <1>6, <2>2, EndStep DEF PrintReport, GoesOn, Running
  <2>3. QED
    BY <1>6, <2>1, <2>2 DEF PrintReport
<1>7. CASE OpenReport
  <2>1. CASE pc' = "writing" /\ file' = Truncated /\ exit' = exit
    <3>1. /\ pc = "opening" /\ UNCHANGED << run, checks, hardError >>
      BY <1>7 DEF OpenReport
    <3>2. ResultsSoFar' /\ FileSoFar' /\ GoesOn'
      BY <2>1, <3>1 DEF ResultsSoFar, FileSoFar, GoesOn, Running
    <3>3. QED
      BY <2>1, <3>1, <3>2 DEF ExitCodeMatchesReport, HardErrorEndsTheRun, GoesOn, Running
  <2>2. CASE Finish("2") /\ file' = file
    BY <1>7, <2>2, EndStep DEF OpenReport, GoesOn, Running
  <2>3. QED
    BY <1>7, <2>1, <2>2 DEF OpenReport
<1>8. CASE DumpReport
  <2> DEFINE saved == SavedReport(run, checks, overall)
  <2>1. /\ pc = "writing" /\ UNCHANGED << run, checks, hardError >> /\ run > 0 /\ ~ hardError
        /\ exit = "none" /\ overall' = overall
    BY <1>8 DEF DumpReport, GoesOn, Running, overall
  <2>2. saved.state = "complete" /\ saved.run = run
    BY DEF SavedReport
  <2> HIDE DEF saved
  <2>3. CASE pc' = "announcing" /\ file' = saved /\ exit' = exit
    <3>1. ResultsSoFar' /\ GoesOn'
      BY <2>1, <2>3 DEF ResultsSoFar, GoesOn, Running
    <3>2. FileSoFar'
      BY <2>1, <2>2, <2>3 DEF FileSoFar, saved
    <3>3. QED
      BY <2>1, <2>3, <3>1, <3>2 DEF ExitCodeMatchesReport, HardErrorEndsTheRun, Running
  <2>4. CASE Finish("2") /\ file' \in {file, saved}
    <3>1. pc' = "idle" /\ exit' = "2"
      BY <2>4 DEF Finish
    <3>2. ResultsSoFar' /\ GoesOn' /\ FileSoFar'
      BY <2>1, <2>2, <2>4, <3>1 DEF ResultsSoFar, GoesOn, Running, FileSoFar
    <3>3. QED
      BY <2>1, <3>1, <3>2 DEF ExitCodeMatchesReport, HardErrorEndsTheRun
  <2>5. QED
    BY <1>8, <2>3, <2>4 DEF DumpReport, saved
<1>9. CASE Announce
  <2>1. CASE Finish(IF overall = "SECURE" THEN "0" ELSE "1")
    <3>1. /\ pc = "announcing" /\ UNCHANGED << file, run, checks, hardError >> /\ ~ hardError
      BY <1>9 DEF Announce, GoesOn, Running
    <3>2. pc' = "idle" /\ exit' = IF overall = "SECURE" THEN "0" ELSE "1"
      BY <2>1 DEF Finish
    <3>3. overall = "SECURE" <=> \A i \in DOMAIN checks : checks[i].status = "PASS"
      BY <3>1, SecureMeansPass DEF ResultsSoFar
    <3>4. file.state = "complete" /\ file.run = run /\ file.checks = checks
      BY <3>1 DEF FileSoFar, SavedReport
    <3>5. ExitCodeMatchesReport'
      BY <3>1, <3>2, <3>3, <3>4 DEF ResultsSoFar, ExitCodeMatchesReport
    <3>6. ResultsSoFar' /\ FileSoFar' /\ GoesOn'
      BY <3>1, <3>2 DEF ResultsSoFar, FileSoFar, GoesOn, Running
    <3>7. QED
      BY <3>1, <3>2, <3>5, <3>6 DEF HardErrorEndsTheRun
  <2>2. CASE Finish("2")
    BY <1>9, <2>2, EndStep DEF Announce, GoesOn, Running
  <2>3. QED
    BY <1>9, <2>1, <2>2 DEF Announce
<1>10. CASE Kill
  BY <1>10, EndStep DEF Kill, GoesOn
<1>11. CASE UNCHANGED vars
  BY <1>11 DEF vars, ResultsSoFar, FileSoFar, GoesOn, overall, ExitCodeMatchesReport, HardErrorEndsTheRun
<1>12. QED
  BY <1>1, <1>2, <1>3, <1>4, <1>5, <1>6, <1>7, <1>8, <1>9, <1>10, <1>11 DEF Next

LEMMA IInvHolds == Spec => []IInv
  BY InitInv, NextInv, PTL DEF Spec

\* A run that exits with 0 or 1 leaves its own complete report with seven
\* results, which are all a PASS exactly when the code is 0.
THEOREM ExitCodesAreTrue == Spec => []ExitCodeMatchesReport
<1>1. IInv => ExitCodeMatchesReport
  BY DEF IInv
<1>2. QED
  BY <1>1, IInvHolds, PTL

\* Lost credentials, a missing bucket or no answer at all end the run with 2,
\* and no report of it is left.
THEOREM HardErrorsEndRuns == Spec => []HardErrorEndsTheRun
<1>1. IInv => HardErrorEndsTheRun
  BY DEF IInv
<1>2. QED
  BY <1>1, IInvHolds, PTL

\* Nothing touches the report file before the seventh result.
THEOREM OldReportIsKept == Spec => ReportKeptUntilChecksDone
<1>1. ASSUME IInv, [Next]_vars, file' # file
      PROVE  pc # "idle" /\ Len(checks) = Len(CheckOrder)
  <2>1. pc \in {"opening", "writing"}
    BY <1>1 DEF Next, vars, ChangeBucket, Start, Check, CheckFaulty, CallFails, PrintReport,
          OpenReport, DumpReport, Announce, Kill
  <2>2. QED
    BY <1>1, <2>1 DEF IInv, ResultsSoFar
<1>2. IInv /\ [Next]_vars => [file' # file => pc # "idle" /\ Len(checks) = Len(CheckOrder)]_vars
  BY <1>1
<1>3. QED
  BY <1>2, IInvHolds, PTL DEF Spec, ReportKeptUntilChecksDone
-----------------------------------------------------------------------------
(***************************************************************************)
(* What the checks make of an answer: a verdict only of a readable answer  *)
(* about the control itself.                                               *)
(***************************************************************************)

\* A set of numbers that is not empty has a least member.
LEMMA LeastExists ==
    ASSUME NEW I, I \subseteq Nat, I # {}
    PROVE  \E i \in I : \A j \in I : i <= j
<1>1. PICK i \in I : \A j \in I : ~ (<< j, i >> \in OpToRel(<, Nat))
  BY WFMin, NatLessThanWellFounded
<1>2. \A j \in I : i <= j
  <2> TAKE j \in I
  <2>1. i \in Nat /\ j \in Nat
    OBVIOUS
  <2>2. ~ (j < i)
    BY <1>1, <2>1 DEF OpToRel
  <2>3. QED
    BY <2>1, <2>2
<1>3. QED
  BY <1>2

LEMMA NamesOfChecks ==
    Checks = {"versioning", "encryption", "object_lock", "public_access_block",
              "bucket_policy_not_public", "secure_transport_policy", "bucket_owner_enforced"}
  BY DEF Checks, CheckOrder

LEMMA CheckInOrder ==
    ASSUME NEW n \in Nat, n < Len(CheckOrder)
    PROVE  CheckOrder[n + 1] \in Checks
  BY DEF Checks, CheckOrder

LEMMA CodesOfChecks ==
    /\ DOMAIN NotConfigured = Checks \ {"versioning"}
    /\ \A check \in DOMAIN NotConfigured :
          /\ NotConfigured[check][1] \in Reasons
          /\ NotConfigured[check][2] = IF check = "bucket_policy_not_public" THEN "PASS" ELSE "FAIL"
    /\ NotConfigured["bucket_policy_not_public"][1] = "NoSuchBucketPolicy"
    /\ NotConfigured["secure_transport_policy"][1] = "NoSuchBucketPolicy"
<1>1. DOMAIN NotConfigured = Checks \ {"versioning"}
  BY NamesOfChecks DEF NotConfigured
<1>2. \A check \in DOMAIN NotConfigured : NotConfigured[check][1] \in Reasons
  BY DEF Reasons
<1>3. \A check \in DOMAIN NotConfigured :
         NotConfigured[check][2] = IF check = "bucket_policy_not_public" THEN "PASS" ELSE "FAIL"
  BY DEF NotConfigured
<1>4. /\ NotConfigured["bucket_policy_not_public"][1] = "NoSuchBucketPolicy"
      /\ NotConfigured["secure_transport_policy"][1] = "NoSuchBucketPolicy"
  BY DEF NotConfigured
<1>5. QED
  BY <1>1, <1>2, <1>3, <1>4

LEMMA ResultsAreRecords ==
    ASSUME NEW status, NEW reason
    PROVE  /\ check_result(status, reason).status = status
           /\ status \in VALID_CHECK_STATUSES /\ reason \in Reasons
                => check_result(status, reason) \in Results
  BY DEF check_result, Results

\* What a check makes of each kind of answer.
LEMMA AnswerKinds ==
    ASSUME NEW check, NEW v
    PROVE  /\ CheckAnswer(check, Error(v)) = ErrorResult(check, v)
           /\ CheckAnswer(check, Value(v)) = ValueResult(check, v)
           /\ CheckAnswer(check, Malformed) = check_result("UNKNOWN", "MalformedResponse")
           /\ CheckAnswer(check, Incomplete) = check_result("UNKNOWN", "IncompleteResponse")
           /\ CheckAnswer(check, BadJson) = check_result("UNKNOWN", "MalformedPolicy")
<1>1. /\ Error(v).kind = "error" /\ Error(v).code = v
      /\ Value(v).kind = "value" /\ Value(v).value = v
      /\ Malformed.kind = "malformed" /\ Incomplete.kind = "incomplete"
      /\ BadJson.kind = "bad_json"
  BY DEF Error, Value, Malformed, Incomplete, BadJson
<1>2. ASSUME NEW a
      PROVE  /\ a.kind = "error" => CheckAnswer(check, a) = ErrorResult(check, a.code)
             /\ a.kind = "value" => CheckAnswer(check, a) = ValueResult(check, a.value)
             /\ a.kind = "malformed" => CheckAnswer(check, a) = check_result("UNKNOWN", "MalformedResponse")
             /\ a.kind = "incomplete" => CheckAnswer(check, a) = check_result("UNKNOWN", "IncompleteResponse")
             /\ a.kind = "bad_json" => CheckAnswer(check, a) = check_result("UNKNOWN", "MalformedPolicy")
  BY DEF CheckAnswer
<1>3. QED
  BY <1>1, <1>2

\* What a check makes of a readable answer.
LEMMA ValueResults ==
    ASSUME NEW v
    PROVE  /\ ValueResult("versioning", v) = check_versioning(v)
           /\ ValueResult("encryption", v) = check_encryption(v)
           /\ ValueResult("object_lock", v) = check_object_lock(v)
           /\ ValueResult("public_access_block", v) = check_public_access_block(v)
           /\ ValueResult("bucket_policy_not_public", v) = check_bucket_policy_not_public(v)
           /\ ValueResult("secure_transport_policy", v) = check_secure_transport_policy(v)
           /\ ValueResult("bucket_owner_enforced", v) = check_bucket_owner_enforced(v)
  BY DEF ValueResult

\* A control that is not configured is out of force, but for a public policy.
LEMMA NotConfiguredResult ==
    ASSUME NEW check \in Checks \ {"versioning"}
    PROVE  LET r == ErrorResult(check, NotConfigured[check][1])
           IN  /\ r \in Results
               /\ r.status = IF check = "bucket_policy_not_public" THEN "PASS" ELSE "FAIL"
<1>1. ErrorResult(check, NotConfigured[check][1])
        = check_result(NotConfigured[check][2], NotConfigured[check][1])
  BY CodesOfChecks DEF ErrorResult
<1>2. /\ NotConfigured[check][1] \in Reasons
      /\ NotConfigured[check][2] = IF check = "bucket_policy_not_public" THEN "PASS" ELSE "FAIL"
  BY CodesOfChecks
<1>3. QED
  BY <1>1, <1>2, ResultsAreRecords DEF VALID_CHECK_STATUSES

\* The loop over a policy's statements passes a policy with an enforcing
\* statement only, and fails one without.
LEMMA PolicyResult ==
    ASSUME NEW p, p \in Seq({p[i] : i \in DOMAIN p})
    PROVE  LET r == check_secure_transport_policy(p)
           IN  /\ r \in Results
               /\ r.status = "PASS" => \E i \in DOMAIN p : EnforcesSecureTransport(p[i])
               /\ r.status = "FAIL" => \A i \in DOMAIN p : ~ EnforcesSecureTransport(p[i])
<1> DEFINE deciding == {i \in DOMAIN p : p[i].malformed \/ EnforcesSecureTransport(p[i])}
           first == CHOOSE i \in deciding : \A j \in deciding : i <= j
<1>1. check_secure_transport_policy(p) =
         IF deciding = {} THEN check_result("FAIL", "SecureTransportNotEnforced")
         ELSE IF p[first].malformed THEN check_result("UNKNOWN", "MalformedPolicy")
         ELSE check_result("PASS", "None")
  BY Zenon DEF check_secure_transport_policy
<1>2. ASSUME deciding # {} PROVE first \in deciding
  <2>1. DOMAIN p \subseteq Nat
    BY LenProperties
  <2>2. deciding \subseteq Nat
    BY <2>1
  <2>3. \E i \in deciding : \A j \in deciding : i <= j
    BY <1>2, <2>2, LeastExists
  <2>4. QED
    BY <2>3
<1>3. /\ {"SecureTransportNotEnforced", "MalformedPolicy", "None"} \subseteq Reasons
      /\ {"PASS", "FAIL", "UNKNOWN"} = VALID_CHECK_STATUSES
  BY DEF Reasons, VALID_CHECK_STATUSES
<1> HIDE DEF first
<1>4. CASE deciding = {}
  BY <1>1, <1>3, <1>4, ResultsAreRecords
<1>5. CASE deciding # {}
  BY <1>1, <1>2, <1>3, <1>5, ResultsAreRecords
<1>6. QED
  BY <1>4, <1>5

\* What AWS answers for a bucket, check by check.
LEMMA Answers ==
    ASSUME NEW b
    PROVE  /\ Answer(b, "versioning") = Value(b.versioning)
           /\ Answer(b, "encryption") = Configured("encryption", b.encryption)
           /\ Answer(b, "object_lock") = Configured("object_lock", b.object_lock)
           /\ Answer(b, "public_access_block") = Configured("public_access_block", b.public_access_block)
           /\ Answer(b, "bucket_owner_enforced") = Configured("bucket_owner_enforced", b.ownership)
           /\ Answer(b, "bucket_policy_not_public") =
                IF b.policy = None THEN Error("NoSuchBucketPolicy") ELSE Value(b.policy.public)
           /\ Answer(b, "secure_transport_policy") =
                IF b.policy = None THEN Error("NoSuchBucketPolicy") ELSE Value(b.policy.statements)
  BY DEF Answer

LEMMA Meanings ==
    ASSUME NEW b
    PROVE  /\ InForce(b, "versioning") <=> b.versioning = "Enabled"
           /\ InForce(b, "encryption") <=>
                b.encryption # None /\ b.encryption \cap ApprovedAlgorithms # {}
           /\ InForce(b, "object_lock") <=> b.object_lock = "Enabled"
           /\ InForce(b, "public_access_block") <=> b.public_access_block = RequiredSettings
           /\ InForce(b, "bucket_policy_not_public") <=> b.policy = None \/ ~ b.policy.public
           /\ InForce(b, "secure_transport_policy") <=>
                /\ b.policy # None
                /\ \E i \in DOMAIN b.policy.statements :
                      EnforcesSecureTransport(b.policy.statements[i])
           /\ InForce(b, "bucket_owner_enforced") <=>
                b.ownership # None /\ "BucketOwnerEnforced" \in b.ownership
  BY Zenon DEF InForce

\* A result that is a PASS only with the control in force, a FAIL only without.
TrueOf(r, holds) ==
    r \in Results /\ (r.status = "PASS" => holds) /\ (r.status = "FAIL" => ~ holds)

\* The verdicts a single value leads to.
LEMMA ValueVerdicts ==
    ASSUME NEW v
    PROVE  /\ TrueOf(check_versioning(v), v = "Enabled")
           /\ TrueOf(check_encryption(v), v \cap ApprovedAlgorithms # {})
           /\ TrueOf(check_object_lock(v), v = "Enabled")
           /\ TrueOf(check_public_access_block(v), v = RequiredSettings)
           /\ v \in BOOLEAN => TrueOf(check_bucket_policy_not_public(v), ~ v)
           /\ TrueOf(check_bucket_owner_enforced(v), "BucketOwnerEnforced" \in v)
<1>1. /\ {"None", "VersioningNotEnabled", "UnexpectedVersioningStatus", "IncompleteResponse",
          "ApprovedEncryptionNotConfigured", "UnexpectedObjectLockStatus",
          "PublicAccessBlockNotFullyEnabled", "BucketPolicyIsPublic",
          "BucketOwnerEnforcedNotConfigured", "UnexpectedObjectOwnership"} \subseteq Reasons
      /\ {"PASS", "FAIL", "UNKNOWN"} = VALID_CHECK_STATUSES
  BY DEF Reasons, VALID_CHECK_STATUSES
<1>2. TrueOf(check_versioning(v), v = "Enabled")
  <2>1. check_versioning(v) = IF v = "Enabled" THEN check_result("PASS", "None")
                              ELSE IF v \in {"None", "Suspended"}
                                THEN check_result("FAIL", "VersioningNotEnabled")
                              ELSE check_result("UNKNOWN", "UnexpectedVersioningStatus")
    BY Zenon DEF check_versioning
  <2>2. QED
    BY <1>1, <2>1, ResultsAreRecords DEF TrueOf
<1>3. TrueOf(check_encryption(v), v \cap ApprovedAlgorithms # {})
  BY <1>1, ResultsAreRecords DEF TrueOf, check_encryption
<1>4. TrueOf(check_object_lock(v), v = "Enabled")
  <2>1. check_object_lock(v) = IF v = "Enabled" THEN check_result("PASS", "None")
                               ELSE IF v = "None" THEN check_result("UNKNOWN", "IncompleteResponse")
                               ELSE check_result("UNKNOWN", "UnexpectedObjectLockStatus")
    BY Zenon DEF check_object_lock
  <2>2. QED
    BY <1>1, <2>1, ResultsAreRecords DEF TrueOf
<1>5. TrueOf(check_public_access_block(v), v = RequiredSettings)
  BY <1>1, ResultsAreRecords DEF TrueOf, check_public_access_block
<1>6. ASSUME v \in BOOLEAN PROVE TrueOf(check_bucket_policy_not_public(v), ~ v)
  BY <1>1, <1>6, ResultsAreRecords DEF TrueOf, check_bucket_policy_not_public
<1>7. TrueOf(check_bucket_owner_enforced(v), "BucketOwnerEnforced" \in v)
  BY <1>1, ResultsAreRecords DEF TrueOf, check_bucket_owner_enforced
<1>8. QED
  BY <1>2, <1>3, <1>4, <1>5, <1>6, <1>7

\* Asked about a bucket, every check tells the truth about that bucket.
LEMMA HonestAnswer ==
    ASSUME NEW b \in Buckets, NEW check \in Checks
    PROVE  TrueOf(CheckAnswer(check, Answer(b, check)), InForce(b, check))
<1>1. ASSUME NEW v, check \in Checks \ {"versioning", "bucket_policy_not_public"}
      PROVE  /\ v = None => TrueOf(CheckAnswer(check, Configured(check, v)), FALSE)
             /\ v # None => CheckAnswer(check, Configured(check, v)) = ValueResult(check, v)
  <2>1. CASE v = None
    <3>1. CheckAnswer(check, Configured(check, v)) = ErrorResult(check, NotConfigured[check][1])
      BY <2>1, AnswerKinds DEF Configured
    <3>2. QED
      BY <1>1, <2>1, <3>1, NotConfiguredResult DEF TrueOf
  <2>2. CASE v # None
    BY <2>2, AnswerKinds DEF Configured
  <2>3. QED
    BY <2>1, <2>2
<1>2. CASE check = "versioning"
  <2>1. CheckAnswer(check, Answer(b, check)) = check_versioning(b.versioning)
    BY <1>2, Answers, AnswerKinds, ValueResults
  <2>2. QED
    BY <1>2, <2>1, ValueVerdicts, Meanings DEF TrueOf
<1>3. CASE check = "encryption"
  <2>1. CheckAnswer(check, Answer(b, check)) = CheckAnswer(check, Configured(check, b.encryption))
    BY <1>3, Answers
  <2>2. b.encryption # None => ValueResult(check, b.encryption) = check_encryption(b.encryption)
    BY <1>3, ValueResults
  <2>3. QED
    BY <1>1, <1>3, <2>1, <2>2, ValueVerdicts, Meanings DEF TrueOf
<1>4. CASE check = "object_lock"
  <2>1. CheckAnswer(check, Answer(b, check)) = CheckAnswer(check, Configured(check, b.object_lock))
    BY <1>4, Answers
  <2>2. ValueResult(check, b.object_lock) = check_object_lock(b.object_lock)
    BY <1>4, ValueResults
  <2>3. QED
    BY <1>1, <1>4, <2>1, <2>2, ValueVerdicts, Meanings, NoneAssumption DEF TrueOf
<1>5. CASE check = "public_access_block"
  <2>1. CheckAnswer(check, Answer(b, check)) = CheckAnswer(check, Configured(check, b.public_access_block))
    BY <1>5, Answers
  <2>2. ValueResult(check, b.public_access_block) = check_public_access_block(b.public_access_block)
    BY <1>5, ValueResults
  <2>3. QED
    BY <1>1, <1>5, <2>1, <2>2, ValueVerdicts, Meanings, NoneAssumption DEF TrueOf
<1>6. CASE check = "bucket_owner_enforced"
  <2>1. CheckAnswer(check, Answer(b, check)) = CheckAnswer(check, Configured(check, b.ownership))
    BY <1>6, Answers
  <2>2. ValueResult(check, b.ownership) = check_bucket_owner_enforced(b.ownership)
    BY <1>6, ValueResults
  <2>3. QED
    BY <1>1, <1>6, <2>1, <2>2, ValueVerdicts, Meanings DEF TrueOf
<1>7. CASE check = "bucket_policy_not_public"
  <2>1. CASE b.policy = None
    <3>1. CheckAnswer(check, Answer(b, check)) = ErrorResult(check, NotConfigured[check][1])
      BY <1>7, <2>1, Answers, AnswerKinds, CodesOfChecks
    <3>2. QED
      BY <1>7, <2>1, <3>1, NotConfiguredResult, Meanings DEF TrueOf
  <2>2. CASE b.policy # None
    <3>1. CheckAnswer(check, Answer(b, check)) = check_bucket_policy_not_public(b.policy.public)
      BY <1>7, <2>2, Answers, AnswerKinds, ValueResults
    <3>2. b.policy.public \in BOOLEAN
      BY <2>2, PoliciesAssumption
    <3>3. QED
      BY <1>7, <2>2, <3>1, <3>2, ValueVerdicts, Meanings DEF TrueOf
  <2>3. QED
    BY <2>1, <2>2
<1>8. CASE check = "secure_transport_policy"
  <2>1. CASE b.policy = None
    <3>1. CheckAnswer(check, Answer(b, check)) = ErrorResult(check, NotConfigured[check][1])
      BY <1>8, <2>1, Answers, AnswerKinds, CodesOfChecks
    <3>2. QED
      BY <1>8, <2>1, <3>1, NotConfiguredResult, Meanings DEF TrueOf
  <2>2. CASE b.policy # None
    <3>1. CheckAnswer(check, Answer(b, check)) = check_secure_transport_policy(b.policy.statements)
      BY <1>8, <2>2, Answers, AnswerKinds, ValueResults
    <3> DEFINE p == b.policy.statements
    <3>2. p \in Seq({p[i] : i \in DOMAIN p})
      BY <2>2, PoliciesAssumption
    <3>3. InForce(b, check) <=> \E i \in DOMAIN p : EnforcesSecureTransport(p[i])
      BY <1>8, <2>2, Meanings
    <3> HIDE DEF p
    <3>4. TrueOf(check_secure_transport_policy(p), InForce(b, check))
      BY <3>2, <3>3, PolicyResult DEF TrueOf
    <3>5. QED
      BY <3>1, <3>4 DEF p
  <2>3. QED
    BY <2>1, <2>2
<1>9. QED
  BY <1>2, <1>3, <1>4, <1>5, <1>6, <1>7, <1>8, NamesOfChecks

\* An answer that is not the bucket's leads to no verdict, for any check.
LEMMA FaultyAnswer ==
    ASSUME NEW check \in Checks, NEW answer \in FaultyAnswers(check)
    PROVE  LET r == CheckAnswer(check, answer)
           IN  r.status = "RuntimeError" \/ (r.status = "UNKNOWN" /\ r \in Results)
<1> DEFINE r == CheckAnswer(check, answer)
           Good(s) == s.status = "RuntimeError" \/ (s.status = "UNKNOWN" /\ s \in Results)
<1>1. /\ {"MalformedResponse", "IncompleteResponse", "MalformedPolicy",
          "UnexpectedVersioningStatus", "UnexpectedObjectLockStatus",
          "UnexpectedObjectOwnership"} \subseteq Reasons
      /\ OtherErrors \subseteq Reasons
      /\ "UNKNOWN" \in VALID_CHECK_STATUSES
  BY DEF Reasons, VALID_CHECK_STATUSES
<1>2. \A reason \in Reasons : Good(check_result("UNKNOWN", reason))
  BY <1>1, ResultsAreRecords
<1> HIDE DEF Good
<1>3. ASSUME NEW code \in OtherErrors PROVE Good(CheckAnswer(check, Error(code)))
  <2>1. code \notin CriticalErrors /\ (check \in DOMAIN NotConfigured => code # NotConfigured[check][1])
    BY CodesAssumption
  <2>2. CheckAnswer(check, Error(code)) = check_result("UNKNOWN", code)
    BY <2>1, AnswerKinds DEF ErrorResult, raise_for_critical_s3_error
  <2>3. QED
    BY <1>1, <1>2, <2>2
<1>4. ASSUME NEW code \in AwsCritical PROVE Good(CheckAnswer(check, Error(code)))
  <2>1. Error(code).kind = "error" /\ Error(code).code = code
    BY DEF Error
  <2>2. CheckAnswer(check, Error(code)).status = "RuntimeError"
    BY <2>1, CriticalRaises
  <2>3. QED
    BY <2>2 DEF Good
<1>5. /\ Good(CheckAnswer(check, Malformed)) /\ Good(CheckAnswer(check, Incomplete))
      /\ Good(CheckAnswer(check, BadJson))
  BY <1>1, <1>2, AnswerKinds
<1>6. ASSUME NEW a \in Unexpected(check) PROVE Good(CheckAnswer(check, a))
  <2>1. CASE check = "versioning"
    <3>1. a = Value("unexpected")
      BY <2>1 DEF Unexpected
    <3>2. CheckAnswer(check, a) = check_versioning("unexpected")
      BY <2>1, <3>1, AnswerKinds, ValueResults
    <3>3. check_versioning("unexpected") = check_result("UNKNOWN", "UnexpectedVersioningStatus")
      BY Zenon DEF check_versioning
    <3>4. QED
      BY <1>1, <1>2, <3>2, <3>3
  <2>2. CASE check = "object_lock"
    <3>1. a = Value("unexpected")
      BY <2>2 DEF Unexpected
    <3>2. CheckAnswer(check, a) = check_object_lock("unexpected")
      BY <2>2, <3>1, AnswerKinds, ValueResults
    <3>3. check_object_lock("unexpected") = check_result("UNKNOWN", "UnexpectedObjectLockStatus")
      BY Zenon DEF check_object_lock
    <3>4. QED
      BY <1>1, <1>2, <3>2, <3>3
  <2>3. CASE check = "bucket_owner_enforced"
    <3>1. a = Value({"unexpected"})
      BY <2>3 DEF Unexpected
    <3>2. CheckAnswer(check, a) = check_bucket_owner_enforced({"unexpected"})
      BY <2>3, <3>1, AnswerKinds, ValueResults
    <3>3. check_bucket_owner_enforced({"unexpected"}) = check_result("UNKNOWN", "UnexpectedObjectOwnership")
      BY DEF check_bucket_owner_enforced, KnownOwnershipValues
    <3>4. QED
      BY <1>1, <1>2, <3>2, <3>3
  <2>4. CASE check \notin {"versioning", "object_lock", "bucket_owner_enforced"}
    BY <2>4, Zenon DEF Unexpected
  <2>5. QED
    BY <2>1, <2>2, <2>3, <2>4
<1>7. \/ \E code \in OtherErrors \cup AwsCritical : answer = Error(code)
      \/ answer \in {Malformed, Incomplete, BadJson}
      \/ answer \in Unexpected(check)
  BY DEF FaultyAnswers
<1>8. Good(r)
  BY <1>3, <1>4, <1>5, <1>6, <1>7
<1>9. QED
  BY <1>8 DEF Good
-----------------------------------------------------------------------------
(***************************************************************************)
(* Types and witnesses.                                                    *)
(***************************************************************************)
WInv == TypeOK /\ VerdictsWitnessed /\ NowSeen

FileType(f, n) ==
    \/ f \in {NoFile, Truncated}
    \/ \E k \in 1..n, o \in {"SECURE", "INCOMPLETE", "INSECURE"} :
          /\ f.state = "complete" /\ f.run = k /\ f.overall_status = o
          /\ f.checks \in Seq(Results)

LEMMA InitWInv == Init => WInv
<1> SUFFICES ASSUME Init PROVE WInv
  OBVIOUS
<1>1. /\ bucket \in Buckets /\ file = NoFile /\ pc = "idle" /\ run = 0 /\ checks = << >>
      /\ exit = "none" /\ changes = 0 /\ faults = 0 /\ seenOn = {} /\ seenOff = {}
      /\ hardError = FALSE
  BY DEF Init
<1>2. checks \in Seq(Results) /\ Len(checks) = 0 /\ DOMAIN checks = {}
  BY <1>1, EmptySeq
<1>3. TypeOK
  <2>1. checks \in Seq(Results) /\ Len(checks) <= Len(CheckOrder)
    BY <1>2, SevenChecks
  <2>2. run \in 0..MaxRuns /\ changes \in 0..MaxChanges /\ faults \in 0..MaxFaults
    BY <1>1, BoundsAssumption
  <2>3. QED
    BY <1>1, <2>1, <2>2, Zenon DEF TypeOK
<1>4. VerdictsWitnessed /\ NowSeen
  BY <1>1, <1>2 DEF VerdictsWitnessed, NowSeen
<1>5. QED
  BY <1>3, <1>4 DEF WInv

LEMMA ControlsAreChecks == \A b : Controls(b) \subseteq Checks
  BY DEF Controls

\* The seven results of a run have one of the three overall statuses.
LEMMA OverallType ==
    ASSUME checks \in Seq(Results), Len(checks) = Len(CheckOrder)
    PROVE  overall \in {"SECURE", "INCOMPLETE", "INSECURE"}
<1> DEFINE statuses == {checks[i].status : i \in DOMAIN checks}
<1>1. DOMAIN checks = 1..7
  BY SevenChecks, LenProperties
<1>2. statuses # {}
  BY <1>1
<1>3. statuses \subseteq VALID_CHECK_STATUSES
  <2>1. \A i \in DOMAIN checks : checks[i] \in Results
    BY ElementOfSeq, LenProperties
  <2>2. QED
    BY <2>1 DEF Results
<1> HIDE DEF statuses
<1>4. QED
  BY <1>2, <1>3 DEF overall, calculate_overall_status, statuses

\* A check that is evaluated on an answer whose result is true of the bucket.
LEMMA CheckWitnessed ==
    ASSUME WInv, IInv, pc = "reading", NEW answer, Evaluate(answer),
           UNCHANGED << bucket, file, run, changes, seenOn, seenOff >>,
           faults' \in 0..MaxFaults, hardError' \in BOOLEAN,
           LET check == CheckOrder[Len(checks) + 1]
               r     == CheckAnswer(check, answer)
           IN  r.status # "RuntimeError" =>
                  TrueOf(r, InForce(bucket, check)) \/ (r \in Results /\ r.status = "UNKNOWN")
    PROVE  WInv'
<1> DEFINE check  == CheckOrder[Len(checks) + 1]
           result == CheckAnswer(check, answer)
<1>1. /\ TypeOK /\ VerdictsWitnessed /\ NowSeen /\ Len(checks) \in Nat /\ Len(checks) < 7
      /\ checks \in Seq(Results) /\ DOMAIN checks = 1..Len(checks)
  BY SevenChecks, LenProperties DEF WInv, IInv, ResultsSoFar, TypeOK
<1>2. check \in Checks
  BY <1>1, CheckInOrder, SevenChecks
<1>3. CASE result.status = "RuntimeError"
  <2>1. pc' = "idle" /\ exit' = "2" /\ checks' = checks
    BY <1>3 DEF Evaluate, Finish
  <2>2. TypeOK'
    BY <1>1, <2>1 DEF TypeOK
  <2>3. QED
    BY <1>1, <2>1, <2>2 DEF WInv, VerdictsWitnessed, NowSeen
<1>4. CASE result.status # "RuntimeError"
  <2>1. /\ checks' = Append(checks, result) /\ exit' = exit
        /\ pc' \in {"printing", "reading"}
    BY <1>4 DEF Evaluate
  <2>2. TrueOf(result, InForce(bucket, check)) \/ (result \in Results /\ result.status = "UNKNOWN")
    BY <1>4
  <2>3. result \in Results
    BY <2>2 DEF TrueOf
  <2>4. /\ result.status = "PASS" => check \in seenOn
        /\ result.status = "FAIL" => check \in seenOff
    BY <1>1, <1>2, <2>2 DEF TrueOf, NowSeen, Controls
  <2> HIDE DEF result, check
  <2>5. /\ checks' \in Seq(Results) /\ Len(checks') = Len(checks) + 1
        /\ DOMAIN checks' = 1..(Len(checks) + 1)
        /\ \A i \in 1..Len(checks) : checks'[i] = checks[i]
        /\ checks'[Len(checks) + 1] = result
    BY <1>1, <2>1, <2>3, AppendProperties, LenProperties
  <2>6. TypeOK'
    BY <1>1, <2>1, <2>5, SevenChecks DEF TypeOK, Running
  <2>7. VerdictsWitnessed'
    <3> SUFFICES ASSUME NEW i \in DOMAIN checks'
                 PROVE  /\ checks'[i].status = "PASS" => CheckOrder[i] \in seenOn
                        /\ checks'[i].status = "FAIL" => CheckOrder[i] \in seenOff
      BY DEF VerdictsWitnessed
    <3>1. CASE i \in DOMAIN checks
      BY <1>1, <2>5, <3>1 DEF VerdictsWitnessed
    <3>2. CASE i = Len(checks) + 1
      BY <2>4, <2>5, <3>2 DEF check
    <3>3. QED
      BY <1>1, <2>5, <3>1, <3>2
  <2>8. QED
    BY <1>1, <2>1, <2>6, <2>7 DEF WInv, NowSeen
<1>5. QED
  BY <1>3, <1>4

\* A step that writes at most the report file.
LEMMA OutputStep ==
    ASSUME WInv, UNCHANGED << bucket, run, checks, changes, seenOn, seenOff, hardError >>,
           pc' \in Running \cup {"idle"}, pc' # "reading",
           exit' \in {"none", "0", "1", "2", "killed"}, faults' \in 0..MaxFaults,
           FileType(file', run)
    PROVE  WInv'
<1>1. TypeOK /\ VerdictsWitnessed
  BY DEF WInv
<1>2. TypeOK'
  BY <1>1 DEF TypeOK, FileType
<1>3. VerdictsWitnessed' /\ NowSeen'
  BY <1>1 DEF VerdictsWitnessed, NowSeen
<1>4. QED
  BY <1>2, <1>3 DEF WInv

LEMMA NextWInv == IInv /\ WInv /\ [Next]_vars => WInv'
<1> SUFFICES ASSUME IInv, WInv, [Next]_vars PROVE WInv'
  OBVIOUS
<1>1. TypeOK /\ VerdictsWitnessed /\ NowSeen
  BY DEF WInv
<1>2. /\ faults \in 0..MaxFaults /\ (Fault => faults' \in 0..MaxFaults)
      /\ (UNCHANGED faults => faults' \in 0..MaxFaults)
      /\ exit \in {"none", "0", "1", "2", "killed"} /\ FileType(file, run)
      /\ FileType(Truncated, run)
  BY <1>1, BoundsAssumption DEF TypeOK, Fault, FileType
<1>3. CASE ChangeBucket
  <2>1. TypeOK'
    BY <1>1, <1>3, BoundsAssumption, ControlsAreChecks DEF ChangeBucket, TypeOK
  <2>2. VerdictsWitnessed' /\ NowSeen'
    BY <1>1, <1>3 DEF ChangeBucket, VerdictsWitnessed, NowSeen
  <2>3. QED
    BY <2>1, <2>2 DEF WInv
<1>4. CASE Start
  <2>1. /\ checks' = << >> /\ run' = run + 1 /\ run' \in 0..MaxRuns
        /\ seenOn' = Controls(bucket) /\ seenOff' = Checks \ Controls(bucket)
        /\ hardError' = FALSE /\ UNCHANGED << bucket, file, changes >>
        /\ pc' \in {"reading", "idle"} /\ exit' \in {"none", "2"} /\ faults' \in 0..MaxFaults
    BY <1>1, <1>2, <1>4, BoundsAssumption DEF Start, Finish, TypeOK
  <2>2. checks' \in Seq(Results) /\ Len(checks') = 0 /\ DOMAIN checks' = {}
    BY <2>1, EmptySeq
  <2>3. FileType(file', run')
    BY <1>1, <2>1 DEF FileType, TypeOK
  <2>4. TypeOK'
    <3>1. checks' \in Seq(Results) /\ Len(checks') <= Len(CheckOrder)
      BY <2>2, SevenChecks
    <3>2. seenOn' \subseteq Checks /\ seenOff' \subseteq Checks
      BY <2>1, ControlsAreChecks
    <3>3. pc' \in Running \cup {"idle"}
      BY <2>1 DEF Running
    <3>4. bucket' \in Buckets /\ changes' \in 0..MaxChanges
      BY <1>1, <2>1 DEF TypeOK
    <3>5. hardError' \in BOOLEAN /\ exit' \in {"none", "0", "1", "2", "killed"}
      BY <2>1
    <3> HIDE DEF FileType
    <3>6. QED
      BY <2>1, <2>3, <3>1, <3>2, <3>3, <3>4, <3>5, Zenon DEF TypeOK, FileType
  <2>5. QED
    BY <2>1, <2>2, <2>4 DEF WInv, VerdictsWitnessed, NowSeen
<1>5. Len(checks) \in Nat /\ (pc = "reading" => CheckOrder[Len(checks) + 1] \in Checks)
  BY <1>1, CheckInOrder, LenProperties DEF TypeOK, IInv, ResultsSoFar
<1>6. CASE Check
  <2>1. hardError \in BOOLEAN /\ bucket \in Buckets
    BY <1>1 DEF TypeOK
  <2>2. QED
    BY <1>2, <1>5, <1>6, <2>1, HonestAnswer, CheckWitnessed DEF Check
<1>7. CASE CheckFaulty
  <2>1. PICK answer \in FaultyAnswers(CheckOrder[Len(checks) + 1]) :
           Evaluate(answer) /\ hardError' = (answer.kind = "error" /\ answer.code \in AwsCritical)
    BY <1>7 DEF CheckFaulty
  <2>2. hardError' \in BOOLEAN
    BY <2>1
  <2>3. QED
    BY <1>2, <1>5, <1>7, <2>1, <2>2, FaultyAnswer, CheckWitnessed DEF CheckFaulty
<1>8. CASE CallFails
  <2>1. TypeOK'
    BY <1>1, <1>2, <1>8 DEF CallFails, Finish, TypeOK
  <2>2. QED
    BY <1>1, <1>8, <2>1 DEF CallFails, Finish, WInv, VerdictsWitnessed, NowSeen
<1>9. CASE PrintReport
  BY <1>2, <1>9, OutputStep DEF PrintReport, Finish, Running
<1>10. CASE OpenReport
  BY <1>2, <1>10, OutputStep DEF OpenReport, Finish, Running
<1>11. CASE DumpReport
  <2>1. /\ pc = "writing" /\ checks \in Seq(Results) /\ Len(checks) = Len(CheckOrder)
        /\ run \in 1..run
    BY <1>1, <1>11 DEF DumpReport, IInv, ResultsSoFar, GoesOn, Running, TypeOK
  <2>2. overall \in {"SECURE", "INCOMPLETE", "INSECURE"}
    BY <2>1, OverallType
  <2>3. FileType(SavedReport(run, checks, overall), run)
    BY <2>1, <2>2 DEF FileType, SavedReport
  <2>4. QED
    BY <1>2, <1>11, <2>3, OutputStep DEF DumpReport, Finish, Running
<1>12. CASE Announce
  BY <1>2, <1>12, OutputStep DEF Announce, Finish, Running
<1>13. CASE Kill
  BY <1>2, <1>13, OutputStep DEF Kill, Finish
<1>14. CASE UNCHANGED vars
  BY <1>1, <1>14 DEF vars, WInv, TypeOK, VerdictsWitnessed, NowSeen
<1>15. QED
  BY <1>3, <1>4, <1>6, <1>7, <1>8, <1>9, <1>10, <1>11, <1>12, <1>13, <1>14 DEF Next

LEMMA WInvHolds == Spec => []WInv
  BY InitWInv, NextWInv, IInvHolds, PTL DEF Spec

\* Every variable keeps its type: a result carries one of three statuses and a
\* reason code that is never a critical error code.
THEOREM TypesHold == Spec => []TypeOK
<1>1. WInv => TypeOK
  BY DEF WInv
<1>2. QED
  BY <1>1, WInvHolds, PTL

\* Whatever the owner and AWS do while a run reads the bucket, each PASS was
\* true of it at some moment of the run, and each FAIL too.
THEOREM VerdictsAreWitnessed == Spec => []VerdictsWitnessed
<1>1. WInv => VerdictsWitnessed
  BY DEF WInv
<1>2. QED
  BY <1>1, WInvHolds, PTL
=============================================================================
