--------------------------- MODULE VeeamCollector ---------------------------
(***************************************************************************)
(* VeeamEnterpriseManagerReadOnlyCollector.collect: four read requests one *)
(* after the other, and a report made from the four answers.  The backup   *)
(* server keeps working meanwhile: sessions end, backups come and go,      *)
(* restore points and repositories appear, so the answers may be of four   *)
(* different moments.                                                      *)
(*                                                                         *)
(* Nothing checks what the transport returns.  Items of one kind form a    *)
(* list, as in a response, and an item that is no object is OtherType:     *)
(*   Backup       : UID, JobUid, JobName, Platform, RepositoryUid, Href    *)
(*   Session      : JobUid, JobName, EndTime, Result, State                *)
(*   RestorePoint : UID, restore_point_id, hrefs, CreationTimeUTC          *)
(*   Repository   : UID, repository_id, Name, StorageTargetUid             *)
(* A field is a string, maybe empty, or Null (missing or null) or          *)
(* OtherType.  hrefs are the targets of a restore point's links up to      *)
(* backups, OtherType for a link that is no object.  A time is Null (also  *)
(* when it is the empty string), OtherType, Malformed, NonUtc or a record  *)
(* [at, aware]; aware is FALSE for a date with an offset and no time of    *)
(* day, which datetime.fromisoformat turns into a naive datetime.          *)
(***************************************************************************)
EXTENDS JsonValues, Naturals, Sequences, FiniteSets, SequencesExt, VeeamEvidenceContract

CONSTANTS
    Backups, Sessions(_), RestorePoints, Repositories, \* what may appear on the
                      \* server; sessions depend on the time they end
    Beginnings,       \* what may be there at first, by request target
    MaxLog,           \* bound: sessions on the server
    MaxBefore,        \* bound: changes of the server before the collection
    MaxDuring,        \* bound: changes of the server during the collection
    MaxFaults         \* bound: requests that fail, or whose answer has another shape

ASSUME CollectorBounds == {MaxLog, MaxBefore, MaxDuring, MaxFaults} \subseteq Nat

\* The requests of collect in order; each is in ALLOWED_REQUEST_TARGETS, so
\* that validate_read_only_request lets it pass.
Requests == << "/backups", "/backupSessions", "/restorePoints", "/query?type=Repository" >>

\* The types and reasons of the findings of collect, and the message of them
\* all: messages differ in their wording only.
Types == {"backup_job", "repository", "restore_point"}
Reasons ==
    {"MissingBackupJobRelationship", "NoDeterministicSuccessfulSession",
     "AmbiguousBackupJobRelationship", "MissingRepositoryIdentifier",
     "AmbiguousRepositoryIdentity", "UnlinkedRepository", "MissingStorageTargetRelationship",
     "MissingRestorePointIdentifier", "AmbiguousRestorePointRelationship",
     "UnlinkedRestorePoint", "MissingRestorePointTimestamp", "InvalidRestorePointTimestamp"}
Message == "The observation cannot be mapped."

\* The markers are no strings.
ASSUME WordsAreTexts == \A word \in Types \cup Reasons \cup {Message} : Text(word)

\* Every session there may ever be.
AllSessions == UNION {Sessions(n) : n \in 1..MaxLog}

\* An end time that is one is a moment, the links of a restore point are a list,
\* and what is there at first is of the same kind as what appears later.
ASSUME CollectorAssumption ==
    /\ \A s \in AllSessions \ {OtherType} :
          s.EndTime \in {Null, OtherType, Malformed, NonUtc} \cup [at : Nat, aware : BOOLEAN]
    /\ \A p \in RestorePoints \ {OtherType} : p.hrefs \in Seq(ToSet(p.hrefs))
    /\ \A b \in Beginnings : /\ DOMAIN b = ToSet(Requests)
                             /\ b["/backupSessions"] \in Seq(AllSessions)
                             /\ b["/restorePoints"] \in Seq(RestorePoints)

VARIABLES
    server,    \* the backup server's resources, by request target
    answers,   \* the list of items in the response to each request so far, or
               \* OtherType when the response has none where it is looked for
    asked,     \* the number of requests answered
    references,\* the references in the response to /backups
    pc,        \* "idle", "collecting", "done", or "error"
    report,    \* the report; Null before there is one
    before, during, faults,  \* how much of the bounds is used
    atStart    \* history: the sessions there were when collect started

vars == << server, answers, asked, references, pc, report, before, during, faults, atStart >>

-----------------------------------------------------------------------------
(***************************************************************************)
(* Normalisation: pure functions of the answers.                           *)
(***************************************************************************)
\* No list where one is looked for counts as a list without items.
_nested_list(answer) == IF answer = OtherType THEN << >> ELSE answer

\* Only objects are looked at: their positions in a list, and the objects.
Positions(list) == {i \in DOMAIN list : list[i] # OtherType}
Objects(list)   == {list[i] : i \in Positions(list)}

\* _non_empty_strings
_non_empty_strings(values) == \A v \in values : Text(v)

\* Mutant: the first field that is there identifies the item.
FirstField(first, second) == IF first # Null THEN first ELSE second

\* The first field that is a non-empty string identifies the item.
_safe_resource_id(first, second) ==
    IF Text(first) THEN first ELSE IF Text(second) THEN second ELSE Null

\* _completeness_finding
Finding(type, id, reason) ==
    [resource_type |-> type, resource_id |-> id, reason |-> reason,
     evidence |-> [status |-> "UNKNOWN", reason |-> reason, message |-> Message]]

\* The times of the sessions that count for a job: stopped, successful, with
\* the job's identifier and name and a UTC end time.
_successful_session_times(sessions, job, name) ==
    {s.EndTime : s \in {x \in Objects(sessions) :
        /\ x.JobUid = job /\ x.JobName = name
        /\ x.Result = "Success" /\ x.State = "Stopped"
        /\ x.EndTime \notin {Null, OtherType, Malformed, NonUtc}}}

\* Mutant: the first success instead of the last.
FirstSuccess(sessions, job, name) ==
    LET times == _successful_session_times(sessions, job, name) IN
    IF times = {} THEN Null ELSE CHOOSE t \in times : \A u \in times : u.at >= t.at

LastSuccess(sessions, job, name) ==
    LET times == _successful_session_times(sessions, job, name) IN
    IF times = {} THEN Null ELSE CHOOSE t \in times : \A u \in times : u.at <= t.at

\* max compares a naive with an aware time: a TypeError nobody catches.
MixedTimes(sessions) ==
    \E s \in Objects(sessions) : _non_empty_strings({s.JobUid, s.JobName}) /\
        {TRUE, FALSE} \subseteq {t.aware : t \in
            _successful_session_times(sessions, s.JobUid, s.JobName)}

Related(b) == _non_empty_strings({b.JobUid, b.JobName, b.Platform, b.RepositoryUid})

\* The backups that make a candidate for a job, by position.
Candidates(backups, sessions) ==
    {i \in Positions(backups) : /\ Related(backups[i])
                                /\ LastSuccess(sessions, backups[i].JobUid, backups[i].JobName) # Null}

\* Those whose job has no other candidate: each is emitted as a backup job.
Mapped(backups, sessions) ==
    {i \in Candidates(backups, sessions) : \A j \in Candidates(backups, sessions) :
        backups[j].JobUid = backups[i].JobUid => j = i}

BackupJobs(backups, sessions) ==
    {[job_id |-> backups[i].JobUid, repository_id |-> backups[i].RepositoryUid,
      last_successful_backup |-> LastSuccess(sessions, backups[i].JobUid, backups[i].JobName)]
     : i \in Mapped(backups, sessions)}

\* Mutant: the links of ambiguous jobs are kept.
candidates_by_href(backups, sessions, href) ==
    {backups[i].JobUid : i \in {j \in Candidates(backups, sessions) : backups[j].Href = href}}

\* backups_by_href: the jobs mapped under a link; more than one stands for the
\* entry None.
backups_by_href(backups, sessions, href) ==
    {backups[i].JobUid : i \in {j \in Mapped(backups, sessions) : backups[j].Href = href}}

\* A list of backups, be it of none that is an object, hides the references.
ReferenceFindings(backups, refs) ==
    IF backups # << >> THEN {}
    ELSE {Finding("backup_job", _safe_resource_id(r.UID, Null), "MissingBackupJobRelationship")
            : r \in Objects(refs)}

\* Mutant: ambiguous jobs are skipped without a finding.
FindingsButAmbiguous(backups, refs, sessions) ==
    LET related == {i \in Positions(backups) : Related(backups[i])} IN
    ReferenceFindings(backups, refs)
    \cup {Finding("backup_job", _safe_resource_id(backups[i].UID, backups[i].JobUid),
                  "MissingBackupJobRelationship") : i \in Positions(backups) \ related}
    \cup {Finding("backup_job", backups[i].JobUid, "NoDeterministicSuccessfulSession")
            : i \in related \ Candidates(backups, sessions)}

\* The findings of _normalize_backup_jobs.
BackupFindings(backups, refs, sessions) ==
    LET related    == {i \in Positions(backups) : Related(backups[i])}
        candidates == Candidates(backups, sessions)
        ForJob(i, reason) == Finding("backup_job", backups[i].JobUid, reason)
    IN  ReferenceFindings(backups, refs)
        \cup {Finding("backup_job", _safe_resource_id(backups[i].UID, backups[i].JobUid),
                      "MissingBackupJobRelationship") : i \in Positions(backups) \ related}
        \cup {ForJob(i, "NoDeterministicSuccessfulSession") : i \in related \ candidates}
        \cup {ForJob(i, "AmbiguousBackupJobRelationship")
                : i \in candidates \ Mapped(backups, sessions)}

-----------------------------------------------------------------------------
RepositoryId(r) == _safe_resource_id(r.UID, r.repository_id)

\* Mutant: repositories with the same identifier are not noticed.
FateByLink(repositories, i, jobs) ==
    LET r == repositories[i] IN
    IF RepositoryId(r) = Null THEN "MissingRepositoryIdentifier"
    ELSE IF \A job \in jobs : job.repository_id # RepositoryId(r) THEN "UnlinkedRepository"
    ELSE IF ~ _non_empty_strings({r.UID, r.Name, r.StorageTargetUid}) THEN "MissingStorageTargetRelationship"
    ELSE "mapped"

\* What becomes of a repository: the reason of its finding, or "mapped".
RepositoryFate(repositories, i, jobs) ==
    LET r == repositories[i] IN
    IF RepositoryId(r) = Null
      THEN "MissingRepositoryIdentifier"
    ELSE IF \E j \in Positions(repositories) \ {i} : RepositoryId(repositories[j]) = RepositoryId(r)
      THEN "AmbiguousRepositoryIdentity"
    ELSE IF \A job \in jobs : job.repository_id # RepositoryId(r)
      THEN "UnlinkedRepository"
    ELSE IF ~ _non_empty_strings({r.UID, r.Name, r.StorageTargetUid})
      THEN "MissingStorageTargetRelationship"
    ELSE "mapped"

PointId(p) == _safe_resource_id(p.UID, p.restore_point_id)

\* The positions of the links that name a backup.
_linked_hrefs(p) == {i \in DOMAIN p.hrefs : Text(p.hrefs[i])}

\* What becomes of a restore point.  That its job is a mapped one needs no
\* test of its own: backups_by_href holds no other.
RestorePointFate(point, backups, sessions) ==
    LET Linked(href) == backups_by_href(backups, sessions, href)
        links  == _linked_hrefs(point)
        hrefs  == {point.hrefs[i] : i \in links}
        unique == {href \in hrefs : Cardinality(Linked(href)) = 1}
        linked == UNION {Linked(href) : href \in unique}
    IN  IF PointId(point) = Null
          THEN "MissingRestorePointIdentifier"
        ELSE IF Cardinality(links) # 1 \/ Cardinality(linked) # 1
          THEN IF Cardinality(links) > 1 \/ \E href \in hrefs : Cardinality(Linked(href)) > 1
                 THEN "AmbiguousRestorePointRelationship"
                 ELSE "UnlinkedRestorePoint"
        ELSE IF point.CreationTimeUTC \in {Null, OtherType}
          THEN "MissingRestorePointTimestamp"
        ELSE IF point.CreationTimeUTC \in {Malformed, NonUtc}
          THEN "InvalidRestorePointTimestamp"
        ELSE "mapped"

\* The job of a mapped restore point: that of its only link.
LinkedJob(point, backups, sessions) ==
    CHOOSE job \in UNION {backups_by_href(backups, sessions, point.hrefs[i])
                            : i \in _linked_hrefs(point)} : TRUE

\* The report; its overall_status is INCOMPLETE and the evidence of every
\* mapped resource UNKNOWN, whatever was read, and both are left out.  A mapped
\* restore point is kept under its position in the answer.
Normalize(backups, refs, sessions, points, repositories) ==
    LET jobs     == BackupJobs(backups, sessions)
        Repo(i)  == RepositoryFate(repositories, i, jobs)
        Point(p) == RestorePointFate(p, backups, sessions)
        mapped   == {i \in Positions(points) : Point(points[i]) = "mapped"}
    IN  [collector |-> [name |-> "veeam_enterprise_manager_read_only_collector",
                        mode |-> "api_read_only"],
         data_classification |-> "SANITIZED_OPERATIONAL_EVIDENCE",
         backup_jobs    |-> jobs,
         repositories   |-> {repositories[i].UID : i \in {j \in Positions(repositories) :
                                                            Repo(j) = "mapped"}},
         restore_points |-> [i \in mapped |->
             [restore_point_id |-> PointId(points[i]),
              job_id |-> LinkedJob(points[i], backups, sessions),
              created_at |-> points[i].CreationTimeUTC]],
         completeness_findings |->
             BackupFindings(backups, refs, sessions)
             \cup {Finding("repository", RepositoryId(repositories[i]), Repo(i))
                     : i \in {j \in Positions(repositories) : Repo(j) # "mapped"}}
             \cup {Finding("restore_point", PointId(p), Point(p))
                     : p \in {q \in Objects(points) : Point(q) # "mapped"}}]

-----------------------------------------------------------------------------
Nothing == [target \in ToSet(Requests) |-> << >>]

Init ==
    /\ server \in Beginnings
    /\ answers = Nothing
    /\ asked = 0 /\ references = << >>
    /\ pc = "idle"
    /\ report = Null
    /\ before = 0 /\ during = 0 /\ faults = 0
    /\ atStart = << >>

\* The server changes; its session log only ever grows.
Add(target, item) == server' = [server EXCEPT ![target] = Append(@, item)]

ServerChanges ==
    /\ \/ pc = "idle" /\ before < MaxBefore /\ before' = before + 1 /\ UNCHANGED during
       \/ pc = "collecting" /\ during < MaxDuring /\ during' = during + 1 /\ UNCHANGED before
    /\ \/ \E b \in Backups : Add("/backups", b)
       \/ /\ Len(server["/backupSessions"]) < MaxLog
          /\ \E s \in Sessions(Len(server["/backupSessions"]) + 1) : Add("/backupSessions", s)
       \/ \E p \in RestorePoints : Add("/restorePoints", p)
       \/ \E r \in Repositories : Add("/query?type=Repository", r)
       \/ \E i \in DOMAIN server["/backups"] :
             server' = [server EXCEPT !["/backups"] = RemoveAt(@, i)]
    /\ UNCHANGED << answers, asked, references, pc, report, faults, atStart >>

StartCollect ==
    /\ pc = "idle"
    /\ pc' = "collecting"
    /\ atStart' = server["/backupSessions"]
    /\ UNCHANGED << server, answers, asked, references, report, before, during, faults >>

\* What the transport returns: the resources, or, from the two endpoints that
\* may do so, references to them, or both; or none of it where collect looks
\* for it.
Returned(target) ==
    LET byReference == target \in {"/backups", "/backupSessions"} IN
    [list : {server[target], OtherType} \cup (IF byReference THEN {<< >>} ELSE {}),
     refs : {<< >>} \cup (IF byReference THEN {server[target]} ELSE {})]

\* The next of the four requests, of whose references only those to backups are
\* read; the transport may raise instead.
Request ==
    LET target == Requests[asked + 1] IN
    /\ pc = "collecting" /\ asked < Len(Requests)
    /\ \/ \E response \in Returned(target) :
             /\ response.list = OtherType => faults < MaxFaults
             /\ faults' = IF response.list = OtherType THEN faults + 1 ELSE faults
             /\ answers' = [answers EXCEPT ![target] = response.list]
             /\ references' = IF target = "/backups" THEN response.refs ELSE references
             /\ asked' = asked + 1
             /\ UNCHANGED pc
       \/ /\ faults < MaxFaults /\ faults' = faults + 1
          /\ pc' = "error"
          /\ UNCHANGED << answers, asked, references >>
    /\ UNCHANGED << server, report, before, during, atStart >>

\* What is read of the answers.
Read(target) == _nested_list(answers[target])

Made == Normalize(Read("/backups"), references, Read("/backupSessions"),
                  Read("/restorePoints"), Read("/query?type=Repository"))

\* All answers are there: the report is made, or max raises a TypeError, and
\* the contract has the last word.
Finish ==
    LET made == Made IN
    /\ pc = "collecting" /\ asked = Len(Requests)
    /\ IF \/ MixedTimes(Read("/backupSessions"))
          \/ validate_veeam_collector_profile(made) = "ValueError"
         THEN pc' = "error" /\ UNCHANGED report
         ELSE pc' = "done" /\ report' = made
    /\ UNCHANGED << server, answers, asked, references, before, during, faults, atStart >>

Next == ServerChanges \/ StartCollect \/ Request \/ Finish

Spec == Init /\ [][Next]_vars
-----------------------------------------------------------------------------
Emitted == IF pc = "done" THEN report.backup_jobs ELSE {}
Points  == IF pc = "done" THEN ToSet(report.restore_points) ELSE {}

FindingsOf(type) == {f \in report.completeness_findings : f.resource_type = type}
FoundIds(type)   == {f.resource_id : f \in FindingsOf(type)}

\* The last successful backup of an emitted job is the end of a session that
\* really stopped with success under the job's identifier, and it is at least
\* as recent as every success the job's backup had, under that name, when the
\* collection began: the backups are read before the sessions.
LastSuccessIsFresh ==
    \A job \in Emitted : \E b \in Objects(Read("/backups")) :
        LET Successes(log) == {s \in Objects(log) :
                                  /\ s.JobUid = job.job_id /\ s.JobName = b.JobName
                                  /\ s.Result = "Success" /\ s.State = "Stopped"
                                  /\ s.EndTime \notin {Null, OtherType, Malformed, NonUtc}}
        IN  /\ b.JobUid = job.job_id /\ b.RepositoryUid = job.repository_id
            /\ \E s \in Successes(server["/backupSessions"]) : s.EndTime = job.last_successful_backup
            /\ \A s \in Successes(atStart) : s.EndTime.at <= job.last_successful_backup.at

\* The names an object goes by in a finding: its identifiers that are
\* non-empty strings, or Null when it has none.
Names(ids) == LET texts == {id \in ids : Text(id)} IN IF texts = {} THEN {Null} ELSE texts

\* Every backup, restore point and repository among the objects that were read
\* is in the report, as a resource or as a finding under one of its names,
\* whatever the server changed between two requests; so is every reference to
\* a backup when no backup was listed.  And no finding is about anything else.
\* (What is no object, and a reference beside a list of backups, is not looked
\* at, and the report does not tell.)
ObjectsAccountedFor ==
    pc = "done" =>
        LET Emits(b)      == \E job \in Emitted : job.job_id = b.JobUid
            pointIds      == {point.restore_point_id : point \in Points}
            refs          == IF Read("/backups") = << >> THEN Objects(references) ELSE {}
            OfBackup(b)   == Names({b.UID, b.JobUid})
            OfReference(r) == Names({r.UID})
            OfPoint(p)    == Names({p.UID, p.restore_point_id})
            OfRepository(r) == Names({r.UID, r.repository_id})
            backups       == Objects(Read("/backups"))
            points        == Objects(Read("/restorePoints"))
            repositories  == Objects(Read("/query?type=Repository"))
        IN  /\ \A b \in backups : Emits(b) \/ OfBackup(b) \cap FoundIds("backup_job") # {}
            /\ \A r \in refs : OfReference(r) \subseteq FoundIds("backup_job")
            /\ \A p \in points : OfPoint(p) \cap (pointIds \cup FoundIds("restore_point")) # {}
            /\ \A r \in repositories :
                  OfRepository(r) \cap (report.repositories \cup FoundIds("repository")) # {}
            /\ FoundIds("backup_job") \subseteq UNION ({OfBackup(b) : b \in backups}
                                                       \cup {OfReference(r) : r \in refs})
            /\ FoundIds("restore_point") \subseteq UNION {OfPoint(p) : p \in points}
            /\ FoundIds("repository") \subseteq UNION {OfRepository(r) : r \in repositories}

\* Every relationship in the report is one the server exposed: a restore point
\* has one link that names a backup, a backup of its job, the job is in the
\* report, and a repository is the one of a job in the report.
RelationshipsAreExposed ==
    /\ \A point \in Points :
          /\ \E job \in Emitted : job.job_id = point.job_id
          /\ \E p \in Objects(Read("/restorePoints")), b \in Objects(Read("/backups")) :
                /\ point.restore_point_id \in {p.UID, p.restore_point_id}
                /\ p.CreationTimeUTC = point.created_at
                /\ {p.hrefs[i] : i \in _linked_hrefs(p)} = {b.Href} /\ b.JobUid = point.job_id
    /\ pc = "done" => \A id \in report.repositories :
                         \E job \in Emitted : job.repository_id = id

\* A repository is emitted only when no other observation has its identifier,
\* and never together with a finding about it.
RepositoriesUnambiguous ==
    pc = "done" => \A id \in report.repositories :
        /\ id \notin FoundIds("repository")
        /\ Cardinality({i \in Positions(Read("/query?type=Repository")) :
              RepositoryId(Read("/query?type=Repository")[i]) = id}) = 1

\* The collector satisfies the contract it shares with its consumers, whatever
\* the transport returns: an empty identifier, or one that is no string, does
\* not make a finding that the contract refuses.  Once all answers are there,
\* only success times that cannot be compared keep a report from being made.
OwnContractHolds ==
    pc = "error" /\ asked = Len(Requests) => MixedTimes(Read("/backupSessions"))

\* docs/veeam-evidence-report-v1.md: "An affected resource is not also emitted
\* as a normal mapped resource."
AffectedNotEmitted ==
    \A job \in Emitted : job.job_id \notin FoundIds("backup_job")

\* docs/veeam-evidence-report-v1.md: "Every resource identifier must be unique
\* within the report."
IdentifiersUnique ==
    pc = "done" => \A i, j \in DOMAIN report.restore_points : i # j =>
        report.restore_points[i].restore_point_id # report.restore_points[j].restore_point_id
-----------------------------------------------------------------------------
(***************************************************************************)
(* The inductive invariant: the report is made of the four answers, and    *)
(* the answers are of the server as it is or was.                          *)
(***************************************************************************)
ServerInv ==
    /\ DOMAIN server = ToSet(Requests)
    /\ before \in 0..MaxBefore /\ during \in 0..MaxDuring
    /\ server["/backupSessions"] \in Seq(AllSessions)
    /\ server["/restorePoints"] \in Seq(RestorePoints)

\* The sessions read are none, or all those of the beginning and no others than
\* there are now.
AnswersInv ==
    /\ DOMAIN answers = ToSet(Requests)
    /\ ToSet(atStart) \subseteq ToSet(server["/backupSessions"])
    /\ Read("/backupSessions") \in Seq(AllSessions)
    /\ ToSet(Read("/backupSessions")) \subseteq ToSet(server["/backupSessions"])
    /\ \/ Read("/backupSessions") = << >>
       \/ ToSet(atStart) \subseteq ToSet(Read("/backupSessions"))
    /\ ToSet(Read("/restorePoints")) \subseteq RestorePoints

Progress ==
    /\ asked \in 0..Len(Requests)
    /\ pc = "idle" => asked = 0 /\ answers = Nothing
    /\ pc = "done" => asked = Len(Requests) /\ report = Made
    /\ pc = "error" /\ asked = Len(Requests) => MixedTimes(Read("/backupSessions"))

IInv == ServerInv /\ AnswersInv /\ Progress
=============================================================================
