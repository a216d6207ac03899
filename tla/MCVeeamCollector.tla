-------------------------- MODULE MCVeeamCollector --------------------------
(***************************************************************************)
(* Two jobs, two links and two repositories, and the resources that differ *)
(* from a well-formed one in what the collector looks at: the fields that  *)
(* it tests for non-empty strings, and items that are no objects.          *)
(***************************************************************************)
EXTENDS VeeamCollector

BackupOf(job, href) ==
    [UID |-> "backup", JobUid |-> job, JobName |-> job, Platform |-> "vm",
     RepositoryUid |-> "repo1", Href |-> href]

At(t) == [at |-> t, aware |-> TRUE]

Session(job, name, time) ==
    [JobUid |-> job, JobName |-> name, EndTime |-> time, Result |-> "Success", State |-> "Stopped"]

Point(uid, hrefs) ==
    [UID |-> uid, restore_point_id |-> Null, hrefs |-> hrefs, CreationTimeUTC |-> At(1)]

Repo(id) == [UID |-> id, repository_id |-> Null, Name |-> "name", StorageTargetUid |-> "target"]

RichBackups ==
    { BackupOf("job1", "h1"), BackupOf("job2", "h1"), BackupOf("job2", "h2"),
      [BackupOf("job1", "h2") EXCEPT !.JobName = "job2"],
      [BackupOf("job1", "h2") EXCEPT !.UID = "", !.RepositoryUid = OtherType],
      [BackupOf("job1", "h2") EXCEPT !.UID = OtherType, !.JobUid = ""], OtherType }
RichSessions(t) ==
    { Session("job1", "job1", At(t)), Session("job1", "job1", [at |-> t, aware |-> FALSE]),
      Session("job2", "job2", At(t)), Session("job1", "job2", At(t)),
      Session("job1", "job1", NonUtc),
      [Session("job1", "job1", At(t)) EXCEPT !.Result = "Failed"],
      [Session("job1", "job1", At(t)) EXCEPT !.State = "Working"], OtherType }
RichPoints ==
    { Point("point1", << "h1" >>), Point("point1", << "", "h2", OtherType >>),
      Point("point2", << "h1", "h2" >>),
      [Point("point2", << "h1" >>) EXCEPT !.CreationTimeUTC = NonUtc],
      [Point("", << "h1" >>) EXCEPT !.restore_point_id = "point2", !.CreationTimeUTC = Null],
      [Point("", << "h1" >>) EXCEPT !.restore_point_id = OtherType], OtherType }
RichRepositories ==
    { Repo("repo1"), [Repo("repo1") EXCEPT !.StorageTargetUid = ""], Repo(""),
      [Repo("") EXCEPT !.repository_id = "repo1"], OtherType }

\* An empty server, and one with a job and all that belongs to it.
RichBeginnings ==
    { Nothing,
      [target \in ToSet(Requests) |->
          CASE target = "/backups" -> << BackupOf("job1", "h1") >>
            [] target = "/backupSessions" -> << Session("job1", "job1", At(1)) >>
            [] target = "/restorePoints" -> << Point("point1", << "h1" >>) >>
            [] OTHER -> << Repo("repo1") >>] }
=============================================================================
