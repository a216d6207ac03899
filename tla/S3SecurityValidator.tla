------------------------- MODULE S3SecurityValidator -------------------------
(***************************************************************************)
(* The S3 validator command (src/tools/aws_s3_security.py): a run reads    *)
(* the bucket with seven separate AWS calls, derives the overall status    *)
(* and rewrites the one fixed report file.  Runs follow one another and    *)
(* share that file.  Meanwhile the bucket's owner may change it, AWS may   *)
(* answer with an error or an unreadable response, the disk may refuse a   *)
(* write and the process may be killed between any two steps.              *)
(***************************************************************************)
EXTENDS S3Checks, Naturals, Sequences, FiniteSets

CONSTANTS
    None,         \* a setting that is not configured, unlike any setting
    Buckets,      \* the configurations the bucket may have, see InForce
    OtherErrors,  \* error codes that are neither critical nor "not configured"
    AwsCritical,  \* the critical codes AWS is seen to answer with
    MaxRuns,      \* bound: runs of the command
    MaxChanges,   \* bound: changes of the bucket
    MaxFaults     \* bound: AWS, disk and terminal faults, kills

ASSUME BoundsAssumption == MaxRuns \in Nat /\ MaxChanges \in Nat /\ MaxFaults \in Nat
ASSUME CodesAssumption  == AwsCritical \subseteq CriticalErrors
                           /\ OtherErrors \cap CriticalErrors = {}
                           /\ \A c \in DOMAIN NotConfigured :
                                 NotConfigured[c][1] \notin OtherErrors
ASSUME NoneAssumption   == None # "Enabled" /\ None # RequiredSettings
ASSUME PoliciesAssumption ==
    \A b \in Buckets : b.policy # None =>
        /\ b.policy.public \in BOOLEAN
        /\ LET s == b.policy.statements IN s \in Seq({s[i] : i \in DOMAIN s})

VARIABLES
    bucket,    \* the bucket's configuration, at AWS
    file,      \* the report file REPORT_PATH
    pc,        \* where the current run is
    run,       \* the number of the current run; 0 before the first
    checks,    \* the results the run has so far, in CheckOrder
    exit,      \* exit code of the last finished run, or "killed" or "none"
    changes, faults,     \* how much of the bounds is used
    seenOn, seenOff,     \* history: controls in force / not in force at some
                         \* moment of the current run
    hardError            \* history: AWS refused the current run as a whole

vars == << bucket, file, pc, run, checks, exit, changes, faults,
           seenOn, seenOff, hardError >>

-----------------------------------------------------------------------------
(***************************************************************************)
(* The bucket at AWS.                                                      *)
(***************************************************************************)

\* Whether a control is in force at AWS: what a check's verdict is about.  Of a
\* policy this says that a statement has the form the check looks for; what
\* such a statement refuses is the subject of S3PolicyDocument.
InForce(b, check) ==
    CASE check = "versioning"          -> b.versioning = "Enabled"
      [] check = "encryption"          ->
            b.encryption # None /\ b.encryption \cap ApprovedAlgorithms # {}
      [] check = "object_lock"         -> b.object_lock = "Enabled"
      [] check = "public_access_block" -> b.public_access_block = RequiredSettings
      [] check = "bucket_policy_not_public" ->
            b.policy = None \/ ~ b.policy.public
      [] check = "secure_transport_policy"  ->
            /\ b.policy # None
            /\ \E i \in DOMAIN b.policy.statements :
                  EnforcesSecureTransport(b.policy.statements[i])
      [] check = "bucket_owner_enforced"    ->
            b.ownership # None /\ "BucketOwnerEnforced" \in b.ownership

Controls(b) == {c \in Checks : InForce(b, c)}

Configured(check, setting) ==
    IF setting = None THEN Error(NotConfigured[check][1]) ELSE Value(setting)

\* What AWS answers when nothing goes wrong.
Answer(b, check) ==
    CASE check = "versioning"               -> Value(b.versioning)
      [] check = "encryption"               -> Configured(check, b.encryption)
      [] check = "object_lock"              -> Configured(check, b.object_lock)
      [] check = "public_access_block"      -> Configured(check, b.public_access_block)
      [] check = "bucket_owner_enforced"    -> Configured(check, b.ownership)
      [] check = "bucket_policy_not_public" ->
            IF b.policy = None THEN Error("NoSuchBucketPolicy")
                                 ELSE Value(b.policy.public)
      [] check = "secure_transport_policy"  ->
            IF b.policy = None THEN Error("NoSuchBucketPolicy")
                                 ELSE Value(b.policy.statements)

\* Readable responses with a value that is not known to the check.
Unexpected(check) ==
    CASE check \in {"versioning", "object_lock"} -> {Value("unexpected")}
      [] check = "bucket_owner_enforced"         -> {Value({"unexpected"})}
      [] OTHER                                   -> {}

\* A versioning response has no required member: without a status it is the
\* answer for a bucket that was never versioned.
FaultyAnswers(check) ==
    {Error(code) : code \in OtherErrors \cup AwsCritical} \cup {Malformed}
    \cup (IF check = "versioning" THEN {} ELSE {Incomplete})
    \cup (IF check = "secure_transport_policy" THEN {BadJson} ELSE {})
    \cup Unexpected(check)

-----------------------------------------------------------------------------
NoFile    == [state |-> "absent"]
\* Truncated by open("w"), or holding a prefix of the JSON text.
Truncated == [state |-> "partial"]
SavedReport(n, results, overall) ==
    [state |-> "complete", run |-> n, checks |-> results, overall_status |-> overall]

\* The pcs of a run that has started and not ended.
Running == {"reading", "printing", "opening", "writing", "announcing"}

Init ==
    /\ bucket \in Buckets
    /\ file = NoFile
    /\ pc = "idle"
    /\ run = 0
    /\ checks = << >>
    /\ exit = "none"
    /\ changes = 0 /\ faults = 0
    /\ seenOn = {} /\ seenOff = {}
    /\ hardError = FALSE

Fault == faults < MaxFaults /\ faults' = faults + 1

Finish(code) == pc' = "idle" /\ exit' = code

overall == calculate_overall_status({checks[i].status : i \in DOMAIN checks})

\* The owner reconfigures the bucket, at any moment.
ChangeBucket ==
    /\ changes < MaxChanges
    /\ bucket' \in Buckets \ {bucket}
    /\ changes' = changes + 1
    /\ seenOn'  = seenOn  \cup Controls(bucket')
    /\ seenOff' = seenOff \cup (Checks \ Controls(bucket'))
    /\ UNCHANGED << file, pc, run, checks, exit, faults, hardError >>

\* Mutant: the report file is opened before the checks.
StartByOpening ==
    /\ pc = "idle" /\ run < MaxRuns
    /\ run' = run + 1
    /\ checks' = << >> /\ pc' = "reading" /\ exit' = "none" /\ file' = Truncated
    /\ seenOn' = Controls(bucket) /\ seenOff' = Checks \ Controls(bucket)
    /\ hardError' = FALSE
    /\ UNCHANGED << bucket, changes, faults >>

\* main: validate_environment and create_s3_client succeed, or one of them
\* raises and the command ends with 2 before it has read anything.
Start ==
    /\ pc = "idle" /\ run < MaxRuns
    /\ run' = run + 1
    /\ checks' = << >>
    /\ seenOn' = Controls(bucket) /\ seenOff' = Checks \ Controls(bucket)
    /\ hardError' = FALSE
    /\ \/ pc' = "reading" /\ exit' = "none" /\ UNCHANGED faults
       \/ Finish("2") /\ Fault
    /\ UNCHANGED << bucket, file, changes >>

\* One check of build_report, on a given answer.
Evaluate(answer) ==
    LET check  == CheckOrder[Len(checks) + 1]
        result == CheckAnswer(check, answer)
    IN  IF result.status = "RuntimeError"
          THEN Finish("2") /\ UNCHANGED checks
          ELSE /\ checks' = Append(checks, result)
               /\ pc' = IF Len(checks) + 1 = Len(CheckOrder) THEN "printing" ELSE "reading"
               /\ UNCHANGED exit

\* The call returns what the bucket is at this moment.
Check ==
    /\ pc = "reading"
    /\ Evaluate(Answer(bucket, CheckOrder[Len(checks) + 1]))
    /\ UNCHANGED << bucket, file, run, changes, faults, seenOn, seenOff, hardError >>

\* The call fails, or returns something unreadable.
CheckFaulty ==
    /\ pc = "reading"
    /\ Fault
    /\ \E answer \in FaultyAnswers(CheckOrder[Len(checks) + 1]) :
          /\ Evaluate(answer)
          /\ hardError' = (answer.kind = "error" /\ answer.code \in AwsCritical)
    /\ UNCHANGED << bucket, file, run, changes, seenOn, seenOff >>

\* No answer at all: credentials, network or endpoint (BotoCoreError).
CallFails ==
    /\ pc = "reading"
    /\ Fault
    /\ hardError' = TRUE
    /\ Finish("2")
    /\ UNCHANGED << bucket, file, run, checks, changes, seenOn, seenOff >>

\* print_report; the terminal may be gone.
PrintReport ==
    /\ pc = "printing"
    /\ \/ pc' = "opening" /\ UNCHANGED << exit, faults >>
       \/ Finish("2") /\ Fault
    /\ UNCHANGED << bucket, file, run, checks, changes, seenOn, seenOff, hardError >>

\* save_report: mkdir and open("w"), which empties an older report.
OpenReport ==
    /\ pc = "opening"
    /\ \/ pc' = "writing" /\ file' = Truncated /\ UNCHANGED << exit, faults >>
       \/ Finish("2") /\ Fault /\ UNCHANGED file
    /\ UNCHANGED << bucket, run, checks, changes, seenOn, seenOff, hardError >>

\* json.dump and close; when one of them fails, the text may be complete.
DumpReport ==
    /\ pc = "writing"
    /\ \/ /\ pc' = "announcing"
          /\ file' = SavedReport(run, checks, overall)
          /\ UNCHANGED << exit, faults >>
       \/ Finish("2") /\ Fault /\ file' \in {file, SavedReport(run, checks, overall)}
    /\ UNCHANGED << bucket, run, checks, changes, seenOn, seenOff, hardError >>

\* Mutant: only a confirmed failure is reported by the exit code.
AnnounceUnlessInsecure ==
    /\ pc = "announcing"
    /\ Finish(IF overall # "INSECURE" THEN "0" ELSE "1")
    /\ UNCHANGED << bucket, file, run, checks, changes, faults, seenOn, seenOff, hardError >>

\* save_report's last print, then the exit code of main.
Announce ==
    /\ pc = "announcing"
    /\ \/ Finish(IF overall = "SECURE" THEN "0" ELSE "1") /\ UNCHANGED faults
       \/ Finish("2") /\ Fault
    /\ UNCHANGED << bucket, file, run, checks, changes, seenOn, seenOff, hardError >>

\* The process is killed.
Kill ==
    /\ pc \in Running
    /\ Fault
    /\ Finish("killed")
    /\ UNCHANGED << bucket, file, run, checks, changes, seenOn, seenOff, hardError >>

Next == \/ ChangeBucket \/ Start \/ Check \/ CheckFaulty \/ CallFails
        \/ PrintReport \/ OpenReport \/ DumpReport \/ Announce \/ Kill

Spec == Init /\ [][Next]_vars

-----------------------------------------------------------------------------
\* The reason codes a result may carry; a critical error code is none of them.
Reasons ==
    OtherErrors \cup {NotConfigured[c][1] : c \in DOMAIN NotConfigured}
    \cup {"None", "MalformedResponse", "IncompleteResponse", "MalformedPolicy",
          "VersioningNotEnabled", "UnexpectedVersioningStatus",
          "ApprovedEncryptionNotConfigured", "UnexpectedObjectLockStatus",
          "PublicAccessBlockNotFullyEnabled", "BucketPolicyIsPublic",
          "SecureTransportNotEnforced", "BucketOwnerEnforcedNotConfigured",
          "UnexpectedObjectOwnership"}

Results == [status : VALID_CHECK_STATUSES, reason : Reasons]

\* The type of every variable.
TypeOK ==
    /\ bucket \in Buckets
    /\ pc \in Running \cup {"idle"}
    /\ run \in 0..MaxRuns /\ changes \in 0..MaxChanges /\ faults \in 0..MaxFaults
    /\ checks \in Seq(Results) /\ Len(checks) <= Len(CheckOrder)
    /\ exit \in {"none", "0", "1", "2", "killed"}
    /\ seenOn \subseteq Checks /\ seenOff \subseteq Checks
    /\ hardError \in BOOLEAN
    /\ \/ file \in {NoFile, Truncated}
       \/ \E n \in 1..run, o \in {"SECURE", "INCOMPLETE", "INSECURE"} :
             /\ file.state = "complete" /\ file.run = n /\ file.overall_status = o
             /\ file.checks \in Seq(Results)

\* A run that exits with 0 or 1 has left its own complete report behind, with
\* all seven results, and it exits with 0 exactly when each of them is a PASS:
\* the exit code of main and the file never tell different stories.
ExitCodeMatchesReport ==
    exit \in {"0", "1"} =>
        /\ file.state = "complete" /\ file.run = run
        /\ Len(file.checks) = Len(CheckOrder)
        /\ exit = "0" <=> \A i \in DOMAIN file.checks : file.checks[i].status = "PASS"

\* Whatever the owner and AWS do meanwhile, a PASS was true of the bucket at
\* some moment of the run and so was a FAIL: neither is made from an error, an
\* unreadable answer or the answer to another check.
VerdictsWitnessed ==
    \A i \in DOMAIN checks :
        /\ checks[i].status = "PASS" => CheckOrder[i] \in seenOn
        /\ checks[i].status = "FAIL" => CheckOrder[i] \in seenOff

\* A hard execution failure is never hidden as an UNKNOWN result: it ends the
\* run with 2, and the report file is not of that run.
HardErrorEndsTheRun ==
    hardError => /\ pc = "idle" /\ exit = "2"
                 /\ file.state = "complete" => file.run # run

\* The fixed report file is left alone until all seven checks of a run have a
\* result; a run that fails earlier leaves the older report in place.
ReportKeptUntilChecksDone ==
    [][file' # file => pc # "idle" /\ Len(checks) = Len(CheckOrder)]_vars
-----------------------------------------------------------------------------
(***************************************************************************)
(* The inductive invariant: what each pc has established about the results *)
(* so far and about the report file.                                       *)
(***************************************************************************)
ResultsSoFar ==
    /\ checks \in Seq({checks[i] : i \in DOMAIN checks})
    /\ pc = "reading" => Len(checks) < Len(CheckOrder)
    /\ pc \in {"printing", "opening", "writing", "announcing"} => Len(checks) = Len(CheckOrder)

\* A complete file is of this run from the dump on, and of an older one before.
FileSoFar ==
    /\ \/ file \in {NoFile, Truncated}
       \/ file.state = "complete" /\ file.run \in 1..run
    /\ pc \in {"reading", "printing", "opening"} /\ file.state = "complete" => file.run < run
    /\ pc = "announcing" => file = SavedReport(run, checks, overall)

\* A run that goes on has a number, but no exit code, and has met no hard error.
GoesOn == pc \in Running => run > 0 /\ exit = "none" /\ ~ hardError

\* While a run reads the bucket, both histories account for every control of
\* the bucket as it is now.
NowSeen ==
    pc = "reading" => Controls(bucket) \subseteq seenOn /\ Checks \ Controls(bucket) \subseteq seenOff

IInv ==
    /\ run \in Nat
    /\ pc \in Running \cup {"idle"}
    /\ ResultsSoFar /\ FileSoFar /\ GoesOn
    /\ ExitCodeMatchesReport /\ HardErrorEndsTheRun
=============================================================================
