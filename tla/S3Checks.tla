------------------------------ MODULE S3Checks ------------------------------
(***************************************************************************)
(* The seven bucket checks of src/tools/aws_s3_security.py as functions    *)
(* from what AWS answers to a check result.                                *)
(*                                                                         *)
(* An answer is one of                                                     *)
(*   [kind |-> "error", code |-> c]   a ClientError with error code c      *)
(*   [kind |-> "malformed"]           a response of the wrong shape        *)
(*   [kind |-> "incomplete"]          a response lacking a required member *)
(*   [kind |-> "value", value |-> v]  a readable response                  *)
(* and, for get_bucket_policy only, [kind |-> "bad_json"].                 *)
(* The message of a result is wording and is left out.                     *)
(***************************************************************************)
EXTENDS Naturals, Sequences, SecurityStatus

Error(code) == [kind |-> "error", code |-> code]
Value(v)    == [kind |-> "value", value |-> v]
Malformed   == [kind |-> "malformed"]
Incomplete  == [kind |-> "incomplete"]
BadJson     == [kind |-> "bad_json"]

\* The order in which build_report runs the checks.
CheckOrder == << "versioning", "encryption", "object_lock",
                 "public_access_block", "bucket_policy_not_public",
                 "secure_transport_policy", "bucket_owner_enforced" >>

Checks == {CheckOrder[i] : i \in DOMAIN CheckOrder}

CriticalErrors ==
    {"AllAccessDisabled", "ExpiredToken", "InvalidAccessKeyId", "InvalidToken",
     "NoSuchBucket", "SignatureDoesNotMatch", "TokenRefreshRequired",
     "UnrecognizedClientException"}

check_result(status, reason) == [status |-> status, reason |-> reason]

\* A RuntimeError leaving the check: no result, the run is over.
Raised(code) == [status |-> "RuntimeError", reason |-> code]

\* The error code that says "this control is not configured", and the verdict
\* the check draws from it.  No bucket policy is a PASS for the public-policy
\* check and a FAIL for the secure-transport check.
NotConfigured ==
    [ encryption               |-> << "ServerSideEncryptionConfigurationNotFoundError", "FAIL" >>,
      object_lock              |-> << "ObjectLockConfigurationNotFoundError", "FAIL" >>,
      public_access_block      |-> << "NoSuchPublicAccessBlockConfiguration", "FAIL" >>,
      bucket_policy_not_public |-> << "NoSuchBucketPolicy", "PASS" >>,
      secure_transport_policy  |-> << "NoSuchBucketPolicy", "FAIL" >>,
      bucket_owner_enforced    |-> << "OwnershipControlsNotFoundError", "FAIL" >> ]

\* Mutant: a code is missing from the critical ones.
raise_unless_no_bucket(code) == code \in CriticalErrors \ {"NoSuchBucket"}

raise_for_critical_s3_error(code) == code \in CriticalErrors

\* Mutant: any error is taken for "not configured".
AnyErrorIsVerdict(check, code) ==
    IF raise_for_critical_s3_error(code) THEN Raised(code)
    ELSE IF check \in DOMAIN NotConfigured THEN check_result(NotConfigured[check][2], code)
    ELSE check_result("UNKNOWN", code)

\* Every except-branch: first the code of a missing configuration, then the
\* critical codes, then "could not be evaluated".
ErrorResult(check, code) ==
    IF check \in DOMAIN NotConfigured /\ code = NotConfigured[check][1]
      THEN check_result(NotConfigured[check][2], code)
    ELSE IF raise_for_critical_s3_error(code)
      THEN Raised(code)
    ELSE check_result("UNKNOWN", code)

-----------------------------------------------------------------------------
\* The verdict on a readable response, one operator per check.

check_versioning(status) ==
    CASE status = "Enabled"               -> check_result("PASS", "None")
      [] status \in {"None", "Suspended"} -> check_result("FAIL", "VersioningNotEnabled")
      [] OTHER                            -> check_result("UNKNOWN", "UnexpectedVersioningStatus")

ApprovedAlgorithms == {"AES256", "aws:kms", "aws:kms:dsse"}

\* One rule with an approved algorithm is enough.
check_encryption(algorithms) ==
    IF algorithms \cap ApprovedAlgorithms # {}
      THEN check_result("PASS", "None")
      ELSE check_result("FAIL", "ApprovedEncryptionNotConfigured")

check_object_lock(status) ==
    CASE status = "Enabled" -> check_result("PASS", "None")
      [] status = "None"    -> check_result("UNKNOWN", "IncompleteResponse")
      [] OTHER              -> check_result("UNKNOWN", "UnexpectedObjectLockStatus")

RequiredSettings ==
    {"BlockPublicAcls", "IgnorePublicAcls", "BlockPublicPolicy", "RestrictPublicBuckets"}

\* settings: the required settings that are switched on.
check_public_access_block(settings) ==
    IF settings = RequiredSettings
      THEN check_result("PASS", "None")
      ELSE check_result("FAIL", "PublicAccessBlockNotFullyEnabled")

check_bucket_policy_not_public(isPublic) ==
    IF isPublic THEN check_result("FAIL", "BucketPolicyIsPublic")
                ELSE check_result("PASS", "None")

KnownOwnershipValues == {"BucketOwnerPreferred", "ObjectWriter"}

check_bucket_owner_enforced(values) ==
    IF "BucketOwnerEnforced" \in values
      THEN check_result("PASS", "None")
    ELSE IF values \subseteq KnownOwnershipValues
      THEN check_result("FAIL", "BucketOwnerEnforcedNotConfigured")
    ELSE check_result("UNKNOWN", "UnexpectedObjectOwnership")

-----------------------------------------------------------------------------
(***************************************************************************)
(* The policy document.  A statement has the sets of its actions,          *)
(* resources and AWS principals (empty when only the Not- form is          *)
(* present), its effect, its conditions in document order and whether its  *)
(* structure is malformed; a statement that is not an object is malformed  *)
(* too.  A condition entry says whether its operator is Bool in any        *)
(* spelling, and what it gives for aws:SecureTransport.                    *)
(***************************************************************************)

_action_covers_s3(action) == action \cap {"s3:*", "*"} # {}

\* Mutant: the bucket or its objects are enough.
resource_covers_part(resource) == {"bucket", "objects", "*"} \cap resource # {}

_resource_covers_bucket(resource) ==
    {"bucket", "objects"} \subseteq resource \/ "*" \in resource

_principal_covers_everyone(principal) == "*" \in principal

\* dict.update: the last Bool entry that names the key decides; a value that
\* is neither a boolean nor a string ("list") is not an enforcement.
_condition_has_secure_transport_false(condition) ==
    \E i \in DOMAIN condition :
        /\ condition[i].bool /\ condition[i].secureTransport = "false"
        /\ \A j \in DOMAIN condition :
              j > i => ~ condition[j].bool \/ condition[j].secureTransport = "absent"

EnforcesSecureTransport(statement) ==
    /\ statement.Effect = "Deny"
    /\ _action_covers_s3(statement.Action)
    /\ _resource_covers_bucket(statement.Resource)
    /\ _principal_covers_everyone(statement.Principal)
    /\ _condition_has_secure_transport_false(statement.Condition)

\* Mutant: the loop looks at every statement before it decides.
decide_after_all(statements) ==
    IF \E i \in DOMAIN statements : statements[i].malformed
      THEN check_result("UNKNOWN", "MalformedPolicy")
    ELSE IF \E i \in DOMAIN statements : EnforcesSecureTransport(statements[i])
      THEN check_result("PASS", "None")
    ELSE check_result("FAIL", "SecureTransportNotEnforced")

\* The loop over the statements: the first malformed or enforcing statement
\* ends it, and is looked at for its form before it is for its meaning.
check_secure_transport_policy(statements) ==
    LET deciding == {i \in DOMAIN statements :
                        statements[i].malformed \/ EnforcesSecureTransport(statements[i])}
        first    == CHOOSE i \in deciding : \A j \in deciding : i <= j
    IN  IF deciding = {}
          THEN check_result("FAIL", "SecureTransportNotEnforced")
        ELSE IF statements[first].malformed
          THEN check_result("UNKNOWN", "MalformedPolicy")
        ELSE check_result("PASS", "None")

-----------------------------------------------------------------------------
ValueResult(check, v) ==
    CASE check = "versioning"               -> check_versioning(v)
      [] check = "encryption"               -> check_encryption(v)
      [] check = "object_lock"              -> check_object_lock(v)
      [] check = "public_access_block"      -> check_public_access_block(v)
      [] check = "bucket_policy_not_public" -> check_bucket_policy_not_public(v)
      [] check = "secure_transport_policy"  -> check_secure_transport_policy(v)
      [] check = "bucket_owner_enforced"    -> check_bucket_owner_enforced(v)

\* What a check makes of an answer.
CheckAnswer(check, answer) ==
    CASE answer.kind = "error"      -> ErrorResult(check, answer.code)
      [] answer.kind = "malformed"  -> check_result("UNKNOWN", "MalformedResponse")
      [] answer.kind = "incomplete" -> check_result("UNKNOWN", "IncompleteResponse")
      [] answer.kind = "bad_json"   -> check_result("UNKNOWN", "MalformedPolicy")
      [] answer.kind = "value"      -> ValueResult(check, answer.value)
=============================================================================
