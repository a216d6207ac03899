------------------------ MODULE MCS3SecurityValidator ------------------------
(***************************************************************************)
(* The S3 validator on the buckets that matter: a hardened one, one bucket *)
(* per control with just that control out of force, and an unconfigured    *)
(* one.                                                                    *)
(***************************************************************************)
EXTENDS S3SecurityValidator

DenyInsecure ==
    [malformed |-> FALSE, Effect |-> "Deny", Action |-> {"s3:*"},
     Resource |-> {"bucket", "objects"}, Principal |-> {"*"},
     Condition |-> << [bool |-> TRUE, secureTransport |-> "false"] >>]

AllowRead ==
    [malformed |-> FALSE, Effect |-> "Allow", Action |-> {"s3:GetObject"},
     Resource |-> {"objects"}, Principal |-> {"*"}, Condition |-> << >>]

Hardened ==
    [versioning |-> "Enabled", encryption |-> {"AES256"},
     object_lock |-> "Enabled", public_access_block |-> RequiredSettings,
     policy |-> [public |-> FALSE, statements |-> << AllowRead, DenyInsecure >>],
     ownership |-> {"BucketOwnerEnforced"}]

Unconfigured ==
    [versioning |-> "None", encryption |-> None, object_lock |-> None,
     public_access_block |-> None, policy |-> None, ownership |-> None]

MCBuckets ==
    { Hardened, Unconfigured,
      [Hardened EXCEPT !.versioning = "Suspended"],
      [Hardened EXCEPT !.encryption = {"other"}],
      [Hardened EXCEPT !.public_access_block = RequiredSettings \ {"BlockPublicAcls"}],
      [Hardened EXCEPT !.policy.public = TRUE],
      [Hardened EXCEPT !.policy = None],
      [Hardened EXCEPT !.policy.statements = << AllowRead >>],
      [Hardened EXCEPT !.ownership = {"ObjectWriter"}] }
=============================================================================
