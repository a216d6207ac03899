-------------------------- MODULE MCEvidencePipeline --------------------------
(***************************************************************************)
(* Source reports of both kinds, sound ones and faulty ones, and reports   *)
(* written by hand: every way in which two may differ or collide.  A fault *)
(* that an adapter sees stands alone; those that it lets pass share        *)
(* reports, as each file that can be written multiplies the states.        *)
(***************************************************************************)
EXTENDS EvidencePipeline, TLC

CONSTANTS p1, p2, p3, p4, bucket1, bucket2, id1, id2

Utc(at, text) == [at |-> at, text |-> text]

Asset(id, source) ==
    [asset_id |-> id, resource_type |-> "server", evidence_source_id |-> source,
     backup_job |-> Missing, source_evidence |-> Missing,
     security_checks |-> << >>, recommended_action |-> {}, nested |-> {}]

Finding(id, asset, status, confirmed, source) ==
    [finding_id |-> id, asset_id |-> asset, category |-> "category", status |-> status,
     reason |-> Null, message |-> "words", confirmed_vulnerability |-> confirmed,
     source_id |-> source, nested |-> {}]

Report(timestamp, class, overall, source, asset, finding_set, action_set) ==
    [timestamp |-> timestamp, platform |-> PLATFORM_NAME, data_classification |-> class,
     overall |-> overall,
     sources |-> {[source_id |-> source, status |-> "PASS", collected_at |-> timestamp]},
     assets |-> {Asset(asset, source)}, findings |-> finding_set, actions |-> action_set,
     provenance |-> Missing]

\* Milder than its own finding, and with an action without an identifier.
Mild == Report(Utc(1, 1), "lab", "HEALTHY", "s1", "a1",
               {Finding("f1", "a1", "FAIL", FALSE, "s1")},
               {[action_id |-> Missing, references |-> {<< "finding", "f1" >>}]})
\* The same instant as Mild, written differently; a gap in the evidence.
Gap == Report(Utc(1, 2), "lab", "HEALTHY", "s2", "a2",
              {Finding("f2", "a2", "UNKNOWN", FALSE, Missing)}, {})
\* A status no finding can lead to.
Critical == Report(Utc(2, 1), "lab", "CRITICAL", "s3", "a3", {},
                   {[action_id |-> "x", references |-> {<< "asset", "a3" >>, << "source", "s3" >>}]})
HandWritten == {Mild, Gap, Critical}

Evidence3(status, reason, message) == [status |-> status, reason |-> reason, message |-> message]

Sound(status) == Evidence3(status, IF status = "PASS" THEN Null ELSE "REASON", "words")

S3(timestamp, bucket, checks, overall) ==
    [timestamp |-> timestamp, bucket |-> bucket, overall |-> overall, checks |-> checks]

Two(encryption, logging) == [encryption |-> Sound(encryption), logging |-> Sound(logging)]

\* A report of one check.
Odd(name, status, reason, message) ==
    S3(Utc(1, 0), bucket2, name :> Evidence3(status, reason, message),
       CASE status = "PASS" -> "SECURE" [] status = "FAIL" -> "INSECURE" [] OTHER -> "INCOMPLETE")

S3Source ==
    {S3(Utc(1, 0), bucket1, Two("PASS", "PASS") @@ " " :> Evidence3("PASS", "", " "), "SECURE"),
     S3(Utc(2, 0), bucket1, Two("FAIL", "UNKNOWN"), "INSECURE"),
     S3(Utc(1, 0), bucket2, Two("PASS", "UNKNOWN"), "INCOMPLETE"),
     S3(Utc(1, 0), bucket2, Two("PASS", "UNKNOWN"), "SECURE"),
     S3(NonUtc, bucket2, " " :> Evidence3("FAIL", Null, "words")
          @@ [created_at |-> Sound("PASS"),
              encryption |-> Evidence3("FAIL", Null, " "),
              logging    |-> Evidence3("UNKNOWN", "", "words")], "INSECURE"),
     Odd("", "FAIL", Null, "words"),
     Odd("logging", "FAIL", Null, ""), Odd("logging", "UNKNOWN", OtherType, "words")}

Resource(type, id, status, message, last, created_at, nested) ==
    [resource_type |-> type, id |-> id, status |-> status, reason |-> Null,
     message |-> message, last |-> last, created_at |-> created_at, nested |-> nested]
Job(id, status, last)   == Resource("backup_job", id, status, "words", last, Missing, {})
Point(id, status, made) == Resource("restore_point", id, status, "words", Missing, made, {})
Store(id, status, message, nested) ==
    Resource("repository", id, status, message, Missing, Missing, nested)

MockSource(timestamp) == << "source", << "mock-veeam-evidence", timestamp >> >>

Veeam(timestamp, mode, overall, resources) ==
    [timestamp |-> timestamp, collector |-> expected_profile[mode].collector,
     data_classification |-> expected_profile[mode].data_classification,
     completeness_findings |-> {}, overall |-> overall, resources |-> resources]

\* The first and the third have the same source and no resource in common; the
\* last but one refers to the source of the second.
VeeamSource ==
    {Veeam(Utc(1, 0), "mock_only", "HEALTHY", {Job(id1, "PASS", 0),
           Store(id2, "PASS", "words", {<< "time", Null >>, MockSource(Utc(1, 0))})}),
     Veeam(Utc(2, 0), "mock_only", "INCOMPLETE", {Job(id2, "PASS", 2), Point(id1, "UNKNOWN", 0)}),
     Veeam(Utc(1, 0), "mock_only", "AT_RISK", {Job(id2, "FAIL", 1)}),
     Veeam(Utc(3, 0), "mock_only", "HEALTHY",
           {Point(id1, "PASS", NonUtc), Store(id2, "PASS", " ", {<< "time", Malformed >>})}),
     Veeam(Utc(3, 0), "mock_only", "HEALTHY", {Job(id1, "PASS", 0), Point(id1, "PASS", 0)}),
     Veeam(Utc(3, 0), "mock_only", "HEALTHY", {Job(id1, "PASS", OtherType)}),
     Veeam(Utc(3, 0), "mock_only", "HEALTHY", {Store(id1, "PASS", " ", {MockSource(Utc(2, 0))})}),
     Veeam(Utc(3, 0), "api_read_only", "HEALTHY", {Job(id1, "PASS", 0)})}

MCTimes == 0..3

MCAuthored == HandWritten \cup AdaptedReports

Symmetry == Permutations({p1, p2, p3, p4})
=============================================================================
