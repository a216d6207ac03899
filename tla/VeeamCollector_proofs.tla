------------------------ MODULE VeeamCollector_proofs ------------------------
(***************************************************************************)
(* Proofs about VeeamCollector for any resources on the server, any        *)
(* changes of it and any failing requests.                                 *)
(***************************************************************************)
EXTENDS VeeamCollector, SequenceTheorems, FiniteSetTheorems, WellFoundedInduction, TLAPS

\* Finitely many numbers, indexed by a part of 1..n, have a largest one: else
\* there would be a smallest n for which they have none.
LEMMA LargestExists ==
    ASSUME NEW n \in Nat, NEW I, I \subseteq 1..n, I # {},
           NEW f, \A i \in I : f[i] \in Nat
    PROVE  \E i \in I : \A j \in I : f[j] <= f[i]
<1> DEFINE Upto(k) == {i \in I : i <= k}
           Has(k)  == \E i \in Upto(k) : \A j \in Upto(k) : f[j] <= f[i]
           Bad == {k \in Nat : Upto(k) # {} /\ ~ Has(k)}
<1>1. Bad = {}
  <2> SUFFICES ASSUME Bad # {} PROVE FALSE
    OBVIOUS
  <2>1. PICK k \in Bad : \A l \in Bad : ~ (<< l, k >> \in OpToRel(<, Nat))
    <3>1. Bad \subseteq Nat
      OBVIOUS
    <3> HIDE DEF Bad
    <3>2. QED
      BY <3>1, WFMin, NatLessThanWellFounded
  <2>2. k \in Nat /\ Upto(k) # {} /\ ~ Has(k)
    OBVIOUS
  <2>3. PICK i0 \in Upto(k) : TRUE
    BY <2>2
  <2>4. k > 0
    BY <2>2, <2>3
  <2>5. (k - 1) \in Nat /\ (k - 1) \notin Bad
    <3>1. (k - 1) \in Nat /\ k - 1 < k
      BY <2>2, <2>4
    <3>2. << k - 1, k >> \in OpToRel(<, Nat)
      BY <2>2, <3>1 DEF OpToRel
    <3>3. QED
      BY <2>1, <3>1, <3>2
  <2>6. \A i \in Upto(k) : i \in Upto(k - 1) \/ i = k
    BY <2>2
  <2>7. \A i \in Upto(k - 1) : i \in Upto(k)
    BY <2>2
  <2>8. CASE Upto(k - 1) = {}
    <3>1. Upto(k) = {k}
      BY <2>2, <2>6, <2>8
    <3>2. Has(k)
      BY <3>1
    <3>3. QED
      BY <2>2, <3>2
  <2>9. CASE Upto(k - 1) # {}
    <3>1. PICK i \in Upto(k - 1) : \A j \in Upto(k - 1) : f[j] <= f[i]
      BY <2>5, <2>9
    <3>2. CASE k \in Upto(k) /\ f[k] > f[i]
      <4>1. \A j \in Upto(k) : f[j] <= f[k]
        BY <2>6, <3>1, <3>2
      <4>2. QED
        BY <2>2, <3>2, <4>1
    <3>3. CASE ~ (k \in Upto(k) /\ f[k] > f[i])
      <4>1. \A j \in Upto(k) : f[j] <= f[i]
        BY <2>6, <3>1, <3>3
      <4>2. QED
        BY <2>2, <2>7, <4>1
    <3>4. QED
      BY <3>2, <3>3
  <2>10. QED
    BY <2>8, <2>9
<1>2. Upto(n) = I
  <2>1. \A i \in I : i <= n
    OBVIOUS
  <2>2. QED
    BY <2>1
<1>3. QED
  BY <1>1, <1>2

-----------------------------------------------------------------------------
\* A job that counts any success has a last one.
LEMMA LastIsLargest ==
    ASSUME NEW sessions \in Seq(AllSessions), NEW job, NEW name,
           LastSuccess(sessions, job, name) # Null
    PROVE  LET times == _successful_session_times(sessions, job, name)
               last  == LastSuccess(sessions, job, name)
           IN  last \in times /\ \A t \in times : t.at <= last.at
<1> DEFINE times == _successful_session_times(sessions, job, name)
           Counts(s) == /\ s.JobUid = job /\ s.JobName = name
                        /\ s.Result = "Success" /\ s.State = "Stopped"
                        /\ s.EndTime \notin {Null, OtherType, Malformed, NonUtc}
           n == Len(sessions)
           I == {i \in Positions(sessions) : Counts(sessions[i])}
           f == [i \in I |-> sessions[i].EndTime.at]
<1>1. times # {}
  BY DEF LastSuccess
<1>2. n \in Nat /\ DOMAIN sessions = 1..n /\ \A i \in 1..n : sessions[i] \in AllSessions
  BY LenProperties, ElementOfSeq
<1>3. times = {sessions[i].EndTime : i \in I}
  BY DEF _successful_session_times, Objects
<1>4. \A i \in I : f[i] \in Nat
  BY <1>2, CollectorAssumption DEF Positions
<1>5. I # {} /\ I \subseteq 1..n
  BY <1>1, <1>2, <1>3 DEF Positions
<1> HIDE DEF n, I
<1>6. PICK i \in I : \A j \in I : f[j] <= f[i]
  <2> HIDE DEF f
  <2>1. QED
    BY <1>2, <1>4, <1>5, LargestExists
<1>7. \E t \in times : \A u \in times : u.at <= t.at
  BY <1>3, <1>6
<1>8. LastSuccess(sessions, job, name) = CHOOSE t \in times : \A u \in times : u.at <= t.at
  BY <1>1 DEF LastSuccess
<1> HIDE DEF times
<1>9. QED
  BY <1>7, <1>8 DEF times

-----------------------------------------------------------------------------
LEMMA FourRequests ==
    /\ Len(Requests) = 4
    /\ \A k \in 0..3 : Requests[k + 1] \in ToSet(Requests)
    /\ ToSet(Requests) = {"/backups", "/backupSessions", "/restorePoints", "/query?type=Repository"}
    /\ \A k \in 0..3 : Requests[k + 1] = "/backups" <=> k = 0
  BY DEF Requests, ToSet

\* What is read of a list is the list, and of what is none an empty one.
LEMMA ReadIs ==
    ASSUME NEW target, NEW S, answers[target] = OtherType \/ answers[target] \in Seq(S)
    PROVE  /\ Read(target) \in Seq(S)
           /\ Read(target) = answers[target] \/ Read(target) = << >>
  BY EmptySeq DEF Read, _nested_list

LEMMA NothingRead ==
    ASSUME answers = Nothing, NEW target \in ToSet(Requests)
    PROVE  Read(target) = << >>
<1>1. Nothing[target] = << >>
  BY DEF Nothing
<1>2. QED
  BY <1>1 DEF Read, _nested_list

LEMMA InitInv == Init => IInv
<1> SUFFICES ASSUME Init PROVE IInv
  OBVIOUS
<1>1. \A t \in ToSet(Requests) : Read(t) = << >>
  BY NothingRead DEF Init
<1>2. /\ DOMAIN answers = ToSet(Requests)
      /\ Read("/backupSessions") = << >> /\ Read("/restorePoints") = << >>
  BY <1>1, FourRequests DEF Init, Nothing
<1>3. ToSet(<< >>) = {}
  BY DEF ToSet
<1>4. ServerInv
  BY CollectorAssumption, CollectorBounds DEF Init, ServerInv
<1>5. AnswersInv
  BY <1>2, <1>3, EmptySeq DEF Init, AnswersInv
<1>6. Progress
  BY FourRequests DEF Init, Progress
<1>7. QED
  BY <1>4, <1>5, <1>6 DEF IInv

\* One more item at the end: what was there is there.
LEMMA OneMoreItem ==
    ASSUME NEW S, NEW seq \in Seq(S), NEW item \in S
    PROVE  /\ Append(seq, item) \in Seq(S) /\ Len(Append(seq, item)) = Len(seq) + 1
           /\ ToSet(seq) \subseteq ToSet(Append(seq, item))
<1>1. /\ Append(seq, item) \in Seq(S) /\ Len(Append(seq, item)) = Len(seq) + 1
      /\ \A i \in 1..Len(seq) : Append(seq, item)[i] = seq[i]
  BY AppendProperties
<1>2. DOMAIN seq = 1..Len(seq) /\ DOMAIN Append(seq, item) = 1..Len(Append(seq, item))
      /\ Len(seq) \in Nat
  BY <1>1, LenProperties
<1>3. DOMAIN seq \subseteq DOMAIN Append(seq, item)
  BY <1>1, <1>2
<1>4. QED
  BY <1>1, <1>2, <1>3 DEF ToSet

LEMMA ServerStep == IInv /\ ServerChanges => IInv'
<1> SUFFICES ASSUME IInv, ServerChanges PROVE IInv'
  OBVIOUS
<1> USE DEF IInv
<1>1. UNCHANGED << answers, asked, references, pc, report, faults, atStart >>
  BY DEF ServerChanges
<1>2. before' \in 0..MaxBefore /\ during' \in 0..MaxDuring
  BY CollectorBounds DEF ServerChanges, ServerInv
<1>3. ASSUME Len(server["/backupSessions"]) < MaxLog
      PROVE  Len(server["/backupSessions"]) + 1 \in 1..MaxLog
  <2>1. Len(server["/backupSessions"]) \in Nat
    BY LenProperties DEF ServerInv
  <2>2. QED
    BY <1>3, <2>1, CollectorBounds
<1>4. /\ DOMAIN server' = DOMAIN server
      /\ server'["/backupSessions"] \in Seq(AllSessions)
      /\ server'["/restorePoints"] \in Seq(RestorePoints)
      /\ ToSet(server["/backupSessions"]) \subseteq ToSet(server'["/backupSessions"])
  <2>1. CASE \/ \E b \in Backups : Add("/backups", b)
             \/ \E r \in Repositories : Add("/query?type=Repository", r)
             \/ \E i \in DOMAIN server["/backups"] :
                   server' = [server EXCEPT !["/backups"] = RemoveAt(@, i)]
    <3>1. /\ DOMAIN server' = DOMAIN server
          /\ server'["/backupSessions"] = server["/backupSessions"]
          /\ server'["/restorePoints"] = server["/restorePoints"]
      <4>1. \/ \E list : server' = [server EXCEPT !["/backups"] = list]
            \/ \E list : server' = [server EXCEPT !["/query?type=Repository"] = list]
        BY <2>1 DEF Add
      <4>2. {"/backupSessions", "/restorePoints"} \subseteq DOMAIN server
        BY FourRequests DEF ServerInv
      <4>3. QED
        BY <4>1, <4>2
    <3>2. QED
      BY <3>1 DEF ServerInv
  <2>2. CASE /\ Len(server["/backupSessions"]) < MaxLog
             /\ \E s \in Sessions(Len(server["/backupSessions"]) + 1) : Add("/backupSessions", s)
    <3>1. PICK s \in Sessions(Len(server["/backupSessions"]) + 1) : Add("/backupSessions", s)
      BY <2>2
    <3>2. s \in AllSessions
      BY <1>3, <2>2 DEF AllSessions
    <3>3. {"/backupSessions", "/restorePoints"} \subseteq DOMAIN server
      BY FourRequests DEF ServerInv
    <3>4. /\ DOMAIN server' = DOMAIN server
          /\ server'["/backupSessions"] = Append(server["/backupSessions"], s)
          /\ server'["/restorePoints"] = server["/restorePoints"]
      BY <3>1, <3>3 DEF Add
    <3>5. /\ Append(server["/backupSessions"], s) \in Seq(AllSessions)
          /\ ToSet(server["/backupSessions"]) \subseteq ToSet(Append(server["/backupSessions"], s))
      BY <3>2, OneMoreItem DEF ServerInv
    <3>6. /\ server'["/backupSessions"] \in Seq(AllSessions)
          /\ ToSet(server["/backupSessions"]) \subseteq ToSet(server'["/backupSessions"])
      BY <3>4, <3>5, Zenon
    <3>7. DOMAIN server' = DOMAIN server /\ server'["/restorePoints"] \in Seq(RestorePoints)
      BY <3>4 DEF ServerInv
    <3>8. QED
      BY <3>6, <3>7
  <2>3. CASE \E p \in RestorePoints : Add("/restorePoints", p)
    <3>1. PICK p \in RestorePoints : Add("/restorePoints", p)
      BY <2>3
    <3>2. {"/backupSessions", "/restorePoints"} \subseteq DOMAIN server
      BY FourRequests DEF ServerInv
    <3>3. /\ DOMAIN server' = DOMAIN server
          /\ server'["/backupSessions"] = server["/backupSessions"]
          /\ server'["/restorePoints"] = Append(server["/restorePoints"], p)
      BY <3>1, <3>2 DEF Add
    <3>4. Append(server["/restorePoints"], p) \in Seq(RestorePoints)
      BY OneMoreItem DEF ServerInv
    <3>5. QED
      BY <3>3, <3>4 DEF ServerInv
  <2>4. QED
    BY <2>1, <2>2, <2>3 DEF ServerChanges
<1>5. ServerInv'
  <2>1. DOMAIN server' = ToSet(Requests)
    BY <1>4 DEF ServerInv
  <2>2. QED
    BY <1>2, <1>4, <2>1 DEF ServerInv
<1>6. AnswersInv'
  BY <1>1, <1>4 DEF AnswersInv, Read
<1>7. Progress'
  BY <1>1 DEF Progress, Made, Read
<1>8. QED
  BY <1>5, <1>6, <1>7

LEMMA StartStep == IInv /\ StartCollect => IInv'
<1> SUFFICES ASSUME IInv, StartCollect PROVE IInv'
  OBVIOUS
<1> USE DEF IInv, StartCollect
<1>1. ServerInv'
  BY DEF ServerInv
<1>2. Read("/backupSessions") = << >>
  BY FourRequests, NothingRead DEF Progress
<1>3. AnswersInv'
  BY <1>2 DEF AnswersInv, Read
<1>4. Progress'
  BY DEF Progress, Read, Made
<1>5. QED
  BY <1>1, <1>3, <1>4

LEMMA RequestStep == IInv /\ Request => IInv'
<1> SUFFICES ASSUME IInv, Request PROVE IInv'
  OBVIOUS
<1> DEFINE target == Requests[asked + 1]
<1> USE DEF IInv
<1>1. /\ asked \in 0..3 /\ pc = "collecting" /\ target \in ToSet(Requests)
      /\ UNCHANGED << server, report, before, during, atStart >>
  BY FourRequests DEF Request, Progress
<1>2. ServerInv'
  BY <1>1 DEF ServerInv
<1>3. CASE pc' = "error" /\ UNCHANGED << answers, asked, references >>
  <2>1. AnswersInv'
    BY <1>1, <1>3 DEF AnswersInv, Read
  <2>2. Progress'
    BY <1>1, <1>3, FourRequests DEF Progress
  <2>3. QED
    BY <1>2, <2>1, <2>2
<1>4. CASE /\ \E response \in Returned(target) : answers' = [answers EXCEPT ![target] = response.list]
           /\ asked' = asked + 1 /\ pc' = pc
  <2>1. PICK response \in Returned(target) : answers' = [answers EXCEPT ![target] = response.list]
    BY <1>4
  <2> DEFINE list == response.list
  <2>2. /\ DOMAIN answers' = ToSet(Requests) /\ answers'[target] = list
        /\ \A t \in ToSet(Requests) : t # target => answers'[t] = answers[t]
    BY <1>1, <2>1 DEF AnswersInv
  <2>3. list = server[target] \/ list = OtherType \/ list = << >>
    BY DEF Returned
  <2>4. ToSet(<< >>) = {} /\ << >> \in Seq(AllSessions)
    BY EmptySeq DEF ToSet
  <2> HIDE DEF target, list
  <2>5. \A t \in ToSet(Requests) :
            /\ t = target => Read(t)' = server[t] \/ Read(t)' = << >>
            /\ t # target => Read(t)' = Read(t)
    BY <2>2, <2>3 DEF Read, _nested_list
  <2>6. /\ Read("/backupSessions")' \in Seq(AllSessions)
        /\ ToSet(Read("/backupSessions")') \subseteq ToSet(server["/backupSessions"])
        /\ \/ Read("/backupSessions")' = << >>
           \/ ToSet(atStart) \subseteq ToSet(Read("/backupSessions")')
    <3>1. CASE target = "/backupSessions"
      BY <2>4, <2>5, <3>1, FourRequests DEF AnswersInv, ServerInv
    <3>2. CASE target # "/backupSessions"
      BY <2>5, <3>2, FourRequests DEF AnswersInv
    <3>3. QED
      BY <3>1, <3>2
  <2>7. ToSet(Read("/restorePoints")') \subseteq RestorePoints
    <3>1. ToSet(server["/restorePoints"]) \subseteq RestorePoints
      BY ElementOfSeq, LenProperties DEF ServerInv, ToSet
    <3>2. CASE target = "/restorePoints"
      BY <2>4, <2>5, <3>1, <3>2, FourRequests
    <3>3. CASE target # "/restorePoints"
      BY <2>5, <3>3, FourRequests DEF AnswersInv
    <3>4. QED
      BY <3>2, <3>3
  <2>8. AnswersInv'
    BY <1>1, <2>2, <2>6, <2>7 DEF AnswersInv
  <2>9. Progress'
    BY <1>1, <1>4, FourRequests DEF Progress
  <2>10. QED
    BY <1>2, <2>8, <2>9
<1>5. QED
  BY <1>3, <1>4 DEF Request

-----------------------------------------------------------------------------
\* Every finding is one of _completeness_finding, of its own type and with a
\* reason.
LEMMA FindingShape ==
    ASSUME NEW type, NEW id, NEW reason
    PROVE  LET f == Finding(type, id, reason) IN
           /\ f.resource_type = type /\ f.resource_id = id /\ f.reason = reason
           /\ f.evidence.status = "UNKNOWN" /\ f.evidence.reason = reason
  BY DEF Finding

\* Identifiers are safe: a non-empty string or none.
LEMMA SafeIds ==
    ASSUME NEW first, NEW second
    PROVE  LET id == _safe_resource_id(first, second) IN
           /\ id = Null \/ (Text(id) /\ id \in {first, second})
           /\ id \in Names({first, second})
           /\ id = Null => ~ Text(first) /\ ~ Text(second)
           /\ Text(first) => first \in Names({first, second})
           /\ Text(second) => second \in Names({first, second})
<1> DEFINE id == _safe_resource_id(first, second)
           texts == {v \in {first, second} : Text(v)}
<1>1. ~ Text(Null)
  BY DEF Text
<1>2. id = IF Text(first) THEN first ELSE IF Text(second) THEN second ELSE Null
  BY DEF _safe_resource_id
<1>3. Names({first, second}) = IF texts = {} THEN {Null} ELSE texts
  BY DEF Names
<1>4. /\ id = Null \/ (Text(id) /\ id \in {first, second})
      /\ id = Null => ~ Text(first) /\ ~ Text(second)
  <2> HIDE DEF id
  <2>1. CASE Text(first)
    BY <1>1, <1>2, <2>1
  <2>2. CASE ~ Text(first) /\ Text(second)
    BY <1>1, <1>2, <2>2
  <2>3. CASE ~ Text(first) /\ ~ Text(second)
    BY <1>2, <2>3
  <2>4. QED
    BY <2>1, <2>2, <2>3
<1>5. /\ Text(first) => first \in Names({first, second})
      /\ Text(second) => second \in Names({first, second})
  BY <1>3
<1>6. id \in Names({first, second})
  <2>1. CASE Text(first) \/ Text(second)
    BY <1>2, <1>5, <2>1
  <2>2. CASE ~ Text(first) /\ ~ Text(second)
    <3>1. texts = {}
      BY <2>2
    <3>2. QED
      BY <1>2, <1>3, <2>2, <3>1
  <2>3. QED
    BY <2>1, <2>2
<1>7. QED
  BY <1>4, <1>5, <1>6

LEMMA SafeId ==
    ASSUME NEW id
    PROVE  Names({id}) = {_safe_resource_id(id, Null)}
<1>1. ~ Text(Null)
  BY DEF Text
<1>2. QED
  BY <1>1 DEF _safe_resource_id, Names

\* A finding about a backup is about a reference, when no backup was listed, or
\* about a backup.
LEMMA BackupFindingsOrigin ==
    ASSUME NEW backups, NEW refs, NEW sessions, NEW f \in BackupFindings(backups, refs, sessions)
    PROVE  \/ /\ backups = << >>
              /\ \E r \in Objects(refs) :
                    f = Finding("backup_job", _safe_resource_id(r.UID, Null),
                                "MissingBackupJobRelationship")
           \/ \E i \in Positions(backups), reason \in Reasons : \E id :
                 /\ \/ id = _safe_resource_id(backups[i].UID, backups[i].JobUid)
                    \/ id = backups[i].JobUid /\ Text(id)
                 /\ f = Finding("backup_job", id, reason)
<1> DEFINE related == {i \in Positions(backups) : Related(backups[i])}
           candidates == Candidates(backups, sessions)
<1>1. \A i \in related : Text(backups[i].JobUid)
  BY DEF Related, _non_empty_strings
<1>2. candidates \subseteq related
  BY DEF Candidates
<1>3. CASE f \in ReferenceFindings(backups, refs)
  <2>1. backups = << >>
    BY <1>3 DEF ReferenceFindings
  <2>2. PICK r \in Objects(refs) :
            f = Finding("backup_job", _safe_resource_id(r.UID, Null), "MissingBackupJobRelationship")
    BY <1>3, <2>1, Zenon DEF ReferenceFindings
  <2>3. QED
    BY <2>1, <2>2, Zenon
<1>4. CASE \E i \in Positions(backups) \ related :
              f = Finding("backup_job", _safe_resource_id(backups[i].UID, backups[i].JobUid),
                          "MissingBackupJobRelationship")
  BY <1>4, Zenon DEF Reasons
<1>5. CASE \E i \in related \ candidates :
              f = Finding("backup_job", backups[i].JobUid, "NoDeterministicSuccessfulSession")
  BY <1>1, <1>5, Zenon DEF Reasons
<1>6. CASE \E i \in candidates \ Mapped(backups, sessions) :
              f = Finding("backup_job", backups[i].JobUid, "AmbiguousBackupJobRelationship")
  <2>1. PICK i \in candidates \ Mapped(backups, sessions) :
              f = Finding("backup_job", backups[i].JobUid, "AmbiguousBackupJobRelationship")
    BY <1>6
  <2>2. i \in Positions(backups) /\ Text(backups[i].JobUid)
    BY <1>1, <1>2, <2>1
  <2>3. QED
    BY <2>1, <2>2, Zenon DEF Reasons
<1>7. QED
  BY <1>3, <1>4, <1>5, <1>6, Zenon DEF BackupFindings

LEMMA BackupFindingsType ==
    ASSUME NEW backups, NEW refs, NEW sessions, NEW f \in BackupFindings(backups, refs, sessions)
    PROVE  \E id, reason : f = Finding("backup_job", id, reason)
  BY Zenon DEF BackupFindings, ReferenceFindings

\* Every finding is about an object in one of the lists.
LEMMA FindingsOrigin ==
    ASSUME NEW backups, NEW refs, NEW sessions, NEW points, NEW repositories,
           NEW f \in Normalize(backups, refs, sessions, points, repositories).completeness_findings
    PROVE  \/ f \in BackupFindings(backups, refs, sessions)
           \/ \E i \in Positions(repositories), reason \in Reasons :
                 /\ RepositoryFate(repositories, i, BackupJobs(backups, sessions)) # "mapped"
                 /\ f = Finding("repository", RepositoryId(repositories[i]), reason)
           \/ \E p \in Objects(points), reason \in Reasons :
                 f = Finding("restore_point", PointId(p), reason)
<1> DEFINE jobs == BackupJobs(backups, sessions)
           Repo(i) == RepositoryFate(repositories, i, jobs)
           Fate(p) == RestorePointFate(p, backups, sessions)
<1>1. \A i : Repo(i) # "mapped" => Repo(i) \in Reasons
  BY DEF RepositoryFate, Reasons
<1>2. \A p : Fate(p) # "mapped" => Fate(p) \in Reasons
  BY DEF RestorePointFate, Reasons
<1> HIDE DEF Repo, Fate
<1>3. \/ f \in BackupFindings(backups, refs, sessions)
      \/ \E i \in Positions(repositories) :
            Repo(i) # "mapped" /\ f = Finding("repository", RepositoryId(repositories[i]), Repo(i))
      \/ \E p \in Objects(points) :
            Fate(p) # "mapped" /\ f = Finding("restore_point", PointId(p), Fate(p))
  BY DEF Normalize, Repo, Fate
<1>4. QED
  BY <1>1, <1>2, <1>3, Zenon DEF Repo

\* What the contract looks at in a finding.
LEMMA FindingsAreFindings ==
    ASSUME NEW backups, NEW refs, NEW sessions, NEW points, NEW repositories,
           NEW f \in Normalize(backups, refs, sessions, points, repositories).completeness_findings
    PROVE  \E type \in Types, reason \in Reasons : \E id :
               (id = Null \/ Text(id)) /\ f = Finding(type, id, reason)
<1>1. \A first, second : LET id == _safe_resource_id(first, second) IN id = Null \/ Text(id)
  BY SafeIds
<1>2. "MissingBackupJobRelationship" \in Reasons
  BY DEF Reasons
<1>3. CASE f \in BackupFindings(backups, refs, sessions)
  <2>1. CASE \E r \in Objects(refs) :
                f = Finding("backup_job", _safe_resource_id(r.UID, Null),
                            "MissingBackupJobRelationship")
    BY <1>1, <1>2, <2>1, Zenon DEF Types
  <2>2. CASE \E i \in Positions(backups), reason \in Reasons : \E id :
                /\ \/ id = _safe_resource_id(backups[i].UID, backups[i].JobUid)
                   \/ id = backups[i].JobUid /\ Text(id)
                /\ f = Finding("backup_job", id, reason)
    BY <1>1, <2>2, Zenon DEF Types
  <2>3. QED
    BY <1>3, <2>1, <2>2, BackupFindingsOrigin
<1>4. CASE \E i \in Positions(repositories), reason \in Reasons :
              f = Finding("repository", RepositoryId(repositories[i]), reason)
  BY <1>1, <1>4, Zenon DEF RepositoryId, Types
<1>5. CASE \E p \in Objects(points), reason \in Reasons :
              f = Finding("restore_point", PointId(p), reason)
  BY <1>1, <1>5, Zenon DEF PointId, Types
<1>6. QED
  BY <1>3, <1>4, <1>5, FindingsOrigin

\* A finding of any of the types, with a safe identifier, is one the contract
\* accepts.
LEMMA SoundFinding ==
    ASSUME NEW type \in Types, NEW reason \in Reasons,
           NEW id, id = Null \/ Text(id)
    PROVE  LET f == Finding(type, id, reason) IN
           /\ DOMAIN f = {"resource_type", "resource_id", "reason", "evidence"}
           /\ Text(f.resource_type) /\ (f.resource_id = Null \/ Text(f.resource_id))
           /\ Text(f.reason)
           /\ DOMAIN f.evidence = {"status", "reason", "message"}
           /\ f.evidence.status = "UNKNOWN" /\ f.evidence.reason = f.reason
           /\ Text(f.evidence.message)
<1>1. Text(type) /\ Text(reason) /\ Text(Message)
  BY WordsAreTexts
<1>2. QED
  BY <1>1 DEF Finding

\* The contract accepts every report the collector makes.
LEMMA ContractAccepts ==
    ASSUME NEW backups, NEW refs, NEW sessions, NEW points, NEW repositories
    PROVE  validate_veeam_collector_profile(
               Normalize(backups, refs, sessions, points, repositories)) # "ValueError"
<1> DEFINE made == Normalize(backups, refs, sessions, points, repositories)
<1>1. /\ made.collector = [name |-> "veeam_enterprise_manager_read_only_collector",
                           mode |-> "api_read_only"]
      /\ made.data_classification = "SANITIZED_OPERATIONAL_EVIDENCE"
  BY DEF Normalize
<1>2. _validate_api_read_only_completeness_findings(made)
  <2>1. ASSUME NEW f \in made.completeness_findings
        PROVE  /\ DOMAIN f = {"resource_type", "resource_id", "reason", "evidence"}
               /\ Text(f.resource_type) /\ (f.resource_id = Null \/ Text(f.resource_id))
               /\ Text(f.reason)
               /\ DOMAIN f.evidence = {"status", "reason", "message"}
               /\ f.evidence.status = "UNKNOWN" /\ f.evidence.reason = f.reason
               /\ Text(f.evidence.message)
    <3>1. PICK type \in Types, reason \in Reasons :
              \E id : (id = Null \/ Text(id)) /\ f = Finding(type, id, reason)
      BY FindingsAreFindings
    <3>2. PICK id : (id = Null \/ Text(id)) /\ f = Finding(type, id, reason)
      BY <3>1
    <3> DEFINE g == Finding(type, id, reason)
    <3>3. /\ DOMAIN g = {"resource_type", "resource_id", "reason", "evidence"}
          /\ Text(g.resource_type) /\ (g.resource_id = Null \/ Text(g.resource_id))
          /\ Text(g.reason)
          /\ DOMAIN g.evidence = {"status", "reason", "message"}
          /\ g.evidence.status = "UNKNOWN" /\ g.evidence.reason = g.reason
          /\ Text(g.evidence.message)
      BY <3>2, SoundFinding
    <3>4. f = g
      BY <3>2
    <3> HIDE DEF made, g
    <3>5. QED
      BY <3>3, <3>4
  <2> HIDE DEF made
  <2>2. QED
    BY <2>1 DEF _validate_api_read_only_completeness_findings
<1> HIDE DEF made
<1>3. made.collector.mode = "api_read_only"
  BY <1>1
<1>4. /\ expected_profile["api_read_only"].collector = made.collector
      /\ expected_profile["api_read_only"].data_classification = made.data_classification
  BY <1>1 DEF expected_profile
<1>5. validate_veeam_collector_profile(made) = "api_read_only"
  BY <1>2, <1>3, <1>4 DEF validate_veeam_collector_profile, VALID_COLLECTOR_MODES
<1>6. QED
  BY <1>5 DEF made

LEMMA FinishStep == IInv /\ Finish => IInv'
<1> SUFFICES ASSUME IInv, Finish PROVE IInv'
  OBVIOUS
<1> USE DEF IInv
<1>1. /\ pc = "collecting" /\ asked = Len(Requests)
      /\ UNCHANGED << server, answers, asked, references, before, during, faults, atStart >>
      /\ Made' = Made
  BY DEF Finish, Made, Read
<1>2. ServerInv'
  BY <1>1 DEF ServerInv
<1>3. AnswersInv'
  BY <1>1 DEF AnswersInv, Read
<1>4. \/ pc' = "done" /\ report' = Made
      \/ pc' = "error" /\ MixedTimes(Read("/backupSessions"))
  BY <1>1, ContractAccepts DEF Finish, Made
<1>5. Progress'
  BY <1>1, <1>4, FourRequests DEF Progress, Read
<1>6. QED
  BY <1>2, <1>3, <1>5

LEMMA NextInv == IInv /\ [Next]_vars => IInv'
<1> SUFFICES ASSUME IInv, [Next]_vars PROVE IInv'
  OBVIOUS
<1>1. CASE UNCHANGED vars
  BY <1>1 DEF IInv, ServerInv, AnswersInv, Progress, Made, Read, vars
<1>2. QED
  BY <1>1, ServerStep, StartStep, RequestStep, FinishStep DEF Next

LEMMA IInvHolds == Spec => []IInv
  BY InitInv, NextInv, PTL DEF Spec

\* The contract accepts whatever was collected: once all answers are there,
\* collect fails only for success times that cannot be compared.
THEOREM ContractIsKept == Spec => []OwnContractHolds
<1>1. IInv => OwnContractHolds
  BY DEF IInv, Progress, OwnContractHolds
<1>2. QED
  BY <1>1, IInvHolds, PTL

-----------------------------------------------------------------------------
\* A mapped repository has an identifier that no other has, and a job.
LEMMA MappedRepository ==
    ASSUME NEW repositories, NEW jobs, NEW i \in Positions(repositories),
           RepositoryFate(repositories, i, jobs) = "mapped"
    PROVE  LET id == repositories[i].UID IN
           /\ RepositoryId(repositories[i]) = id
           /\ \A j \in Positions(repositories) : RepositoryId(repositories[j]) = id => j = i
           /\ \E job \in jobs : job.repository_id = id
<1>1. /\ RepositoryId(repositories[i]) # Null
      /\ ~ \E j \in Positions(repositories) \ {i} :
              RepositoryId(repositories[j]) = RepositoryId(repositories[i])
      /\ ~ \A job \in jobs : job.repository_id # RepositoryId(repositories[i])
      /\ _non_empty_strings({repositories[i].UID, repositories[i].Name,
                             repositories[i].StorageTargetUid})
  BY DEF RepositoryFate
<1>2. RepositoryId(repositories[i]) = repositories[i].UID
  BY <1>1 DEF RepositoryId, _safe_resource_id, _non_empty_strings
<1>3. QED
  BY <1>1, <1>2

\* Findings about repositories are about those that are not mapped.
LEMMA RepositoryFindings ==
    ASSUME NEW backups, NEW refs, NEW sessions, NEW points, NEW repositories,
           NEW f \in Normalize(backups, refs, sessions, points, repositories).completeness_findings,
           f.resource_type = "repository"
    PROVE  \E j \in Positions(repositories) :
               /\ RepositoryFate(repositories, j, BackupJobs(backups, sessions)) # "mapped"
               /\ f.resource_id = RepositoryId(repositories[j])
<1>1. f \notin BackupFindings(backups, refs, sessions)
  <2>1. ~ \E id, reason : f = Finding("backup_job", id, reason)
    BY FindingShape
  <2>2. QED
    BY <2>1, BackupFindingsType
<1>2. ~ \E p, reason : f = Finding("restore_point", PointId(p), reason)
  BY FindingShape
<1>3. QED
  BY <1>1, <1>2, FindingsOrigin, FindingShape

\* A repository in the report is the only one observed under its identifier,
\* and none of the findings is about it.
THEOREM RepositoriesAreUnambiguous == Spec => []RepositoriesUnambiguous
<1>1. ASSUME IInv, pc = "done", NEW id \in report.repositories
      PROVE  /\ id \notin FoundIds("repository")
             /\ Cardinality({i \in Positions(Read("/query?type=Repository")) :
                   RepositoryId(Read("/query?type=Repository")[i]) = id}) = 1
  <2> DEFINE repositories == Read("/query?type=Repository")
             jobs == BackupJobs(Read("/backups"), Read("/backupSessions"))
  <2>1. report = Made
    BY <1>1 DEF IInv, Progress
  <2>2. PICK i \in Positions(repositories) :
            RepositoryFate(repositories, i, jobs) = "mapped" /\ id = repositories[i].UID
    BY <1>1, <2>1 DEF Made, Normalize
  <2>3. /\ RepositoryId(repositories[i]) = id
        /\ \A j \in Positions(repositories) : RepositoryId(repositories[j]) = id => j = i
    BY <2>2, MappedRepository
  <2>4. id \notin FoundIds("repository")
    <3> SUFFICES ASSUME NEW f \in report.completeness_findings,
                        f.resource_type = "repository", f.resource_id = id
                 PROVE  FALSE
      BY DEF FoundIds, FindingsOf
    <3>1. PICK j \in Positions(repositories) :
              /\ RepositoryFate(repositories, j, jobs) # "mapped"
              /\ f.resource_id = RepositoryId(repositories[j])
      BY <2>1, RepositoryFindings DEF Made
    <3>2. QED
      BY <2>2, <2>3, <3>1
  <2>5. {j \in Positions(repositories) : RepositoryId(repositories[j]) = id} = {i}
    BY <2>3
  <2>6. QED
    BY <2>4, <2>5, FS_Singleton
<1>2. IInv => RepositoriesUnambiguous
  BY <1>1 DEF RepositoriesUnambiguous
<1>3. QED
  BY <1>2, IInvHolds, PTL

-----------------------------------------------------------------------------
\* A mapped restore point has one link, and the job it gets was mapped under
\* that link.
LEMMA MappedRestorePoint ==
    ASSUME NEW backups, NEW sessions, NEW p \in RestorePoints \ {OtherType},
           RestorePointFate(p, backups, sessions) = "mapped"
    PROVE  \E i \in Mapped(backups, sessions) :
               /\ {p.hrefs[k] : k \in _linked_hrefs(p)} = {backups[i].Href}
               /\ backups[i].JobUid = LinkedJob(p, backups, sessions)
<1> DEFINE Linked(href) == backups_by_href(backups, sessions, href)
           links  == _linked_hrefs(p)
           hrefs  == {p.hrefs[k] : k \in links}
           unique == {href \in hrefs : Cardinality(Linked(href)) = 1}
           linked == UNION {Linked(href) : href \in unique}
<1>1. Cardinality(links) = 1 /\ Cardinality(linked) = 1
  BY DEF RestorePointFate
<1>2. p.hrefs \in Seq(ToSet(p.hrefs))
  BY CollectorAssumption
<1>3. IsFiniteSet(links)
  <2>1. DOMAIN p.hrefs = 1..Len(p.hrefs) /\ Len(p.hrefs) \in Nat
    BY <1>2, LenProperties
  <2>2. IsFiniteSet(1..Len(p.hrefs))
    BY <2>1, FS_Interval
  <2>3. links \subseteq 1..Len(p.hrefs)
    BY <2>1 DEF _linked_hrefs
  <2>4. QED
    BY <2>2, <2>3, FS_Subset
<1> HIDE DEF links
<1>4. PICK k : links = {k}
  BY <1>1, <1>3, FS_Singleton
<1>5. hrefs = {p.hrefs[k]}
  BY <1>4
<1>6. linked # {}
  BY <1>1, FS_EmptySet
<1>7. Linked(p.hrefs[k]) # {}
  BY <1>5, <1>6
<1>8. UNION {Linked(p.hrefs[l]) : l \in links} = Linked(p.hrefs[k])
  BY <1>4
<1>9. LinkedJob(p, backups, sessions) \in Linked(p.hrefs[k])
  BY <1>7, <1>8 DEF LinkedJob, links
<1>10. PICK i \in Mapped(backups, sessions) :
          backups[i].Href = p.hrefs[k] /\ backups[i].JobUid = LinkedJob(p, backups, sessions)
  BY <1>9 DEF backups_by_href
<1>11. QED
  BY <1>5, <1>10 DEF links

\* A mapped backup is a job of the report.
LEMMA MappedIsEmitted ==
    ASSUME NEW backups, NEW sessions, NEW i \in Mapped(backups, sessions)
    PROVE  \E job \in BackupJobs(backups, sessions) : job.job_id = backups[i].JobUid
<1> DEFINE job == [job_id |-> backups[i].JobUid, repository_id |-> backups[i].RepositoryUid,
                   last_successful_backup |->
                       LastSuccess(sessions, backups[i].JobUid, backups[i].JobName)]
<1>1. job \in BackupJobs(backups, sessions)
  BY Zenon DEF BackupJobs
<1>2. job.job_id = backups[i].JobUid
  OBVIOUS
<1>3. QED
  BY <1>1, <1>2

\* Every relationship in the report is one the server exposed.
THEOREM RelationshipsWereExposed == Spec => []RelationshipsAreExposed
<1> DEFINE backups == Read("/backups")
           sessions == Read("/backupSessions")
           points == Read("/restorePoints")
           repositories == Read("/query?type=Repository")
<1>1. ASSUME IInv, NEW point \in Points
      PROVE  /\ \E job \in Emitted : job.job_id = point.job_id
             /\ \E p \in Objects(points), b \in Objects(backups) :
                   /\ point.restore_point_id \in {p.UID, p.restore_point_id}
                   /\ p.CreationTimeUTC = point.created_at
                   /\ {p.hrefs[i] : i \in _linked_hrefs(p)} = {b.Href} /\ b.JobUid = point.job_id
  <2>1. pc = "done" /\ report = Made /\ point \in ToSet(report.restore_points)
    BY <1>1 DEF Points, IInv, Progress, ToSet
  <2>2. PICK k \in Positions(points) :
            /\ RestorePointFate(points[k], backups, sessions) = "mapped"
            /\ point.restore_point_id = PointId(points[k])
            /\ point.job_id = LinkedJob(points[k], backups, sessions)
            /\ point.created_at = points[k].CreationTimeUTC
    <3> DEFINE mapped == {i \in Positions(points) :
                            RestorePointFate(points[i], backups, sessions) = "mapped"}
               Entry(i) == [restore_point_id |-> PointId(points[i]),
                            job_id |-> LinkedJob(points[i], backups, sessions),
                            created_at |-> points[i].CreationTimeUTC]
    <3>1. Made.restore_points = [i \in mapped |-> Entry(i)]
      BY Zenon DEF Made, Normalize
    <3>2. PICK k \in mapped : point = Entry(k)
      BY <2>1, <3>1 DEF ToSet
    <3>3. QED
      BY <3>2
  <2>3. points[k] \in Objects(points) /\ points[k] \in RestorePoints \ {OtherType}
    BY <1>1, <2>2 DEF IInv, AnswersInv, ToSet, Objects, Positions
  <2>4. PICK i \in Mapped(backups, sessions) :
            /\ {points[k].hrefs[l] : l \in _linked_hrefs(points[k])} = {backups[i].Href}
            /\ backups[i].JobUid = point.job_id
    BY <2>2, <2>3, MappedRestorePoint
  <2>5. backups[i] \in Objects(backups)
    BY DEF Mapped, Candidates, Objects
  <2>11. point.restore_point_id \in {points[k].UID, points[k].restore_point_id}
    <3>1. PointId(points[k]) # Null
      BY <2>2 DEF RestorePointFate
    <3>2. \/ PointId(points[k]) = Null
          \/ PointId(points[k]) \in {points[k].UID, points[k].restore_point_id}
      BY SafeIds DEF PointId
    <3>3. QED
      BY <2>2, <3>1, <3>2
  <2>6. \E job \in Emitted : job.job_id = point.job_id
    <3>1. Emitted = BackupJobs(backups, sessions)
      BY <2>1 DEF Emitted, Made, Normalize
    <3>2. QED
      BY <2>4, <3>1, MappedIsEmitted
  <2>7. QED
    BY <2>2, <2>3, <2>4, <2>5, <2>6, <2>11
<1>2. ASSUME IInv, pc = "done", NEW id \in report.repositories
      PROVE  \E job \in Emitted : job.repository_id = id
  <2>1. report = Made
    BY <1>2 DEF IInv, Progress
  <2>2. PICK i \in Positions(repositories) :
            /\ RepositoryFate(repositories, i, BackupJobs(backups, sessions)) = "mapped"
            /\ id = repositories[i].UID
    BY <1>2, <2>1 DEF Made, Normalize
  <2>3. Emitted = BackupJobs(backups, sessions)
    BY <1>2, <2>1 DEF Emitted, Made, Normalize
  <2>4. QED
    BY <2>2, <2>3, MappedRepository
<1>3. IInv => RelationshipsAreExposed
  BY <1>1, <1>2 DEF RelationshipsAreExposed
<1>4. QED
  BY <1>3, IInvHolds, PTL

-----------------------------------------------------------------------------
LEMMA ObjectsOf ==
    ASSUME NEW list
    PROVE  Objects(list) = ToSet(list) \ {OtherType}
  BY DEF Objects, Positions, ToSet

\* The last success of a job in the report is the end of one of its successful
\* sessions, and no success there was when the collection began is later.
THEOREM LastSuccessWasFresh == Spec => []LastSuccessIsFresh
<1> DEFINE backups == Read("/backups")
           sessions == Read("/backupSessions")
           Successes(log, job, name) ==
               {s \in Objects(log) : /\ s.JobUid = job /\ s.JobName = name
                                   /\ s.Result = "Success" /\ s.State = "Stopped"
                                   /\ s.EndTime \notin {Null, OtherType, Malformed, NonUtc}}
<1>1. ASSUME IInv, NEW job \in Emitted
      PROVE  \E b \in Objects(backups) :
               /\ b.JobUid = job.job_id /\ b.RepositoryUid = job.repository_id
               /\ \E s \in Successes(server["/backupSessions"], job.job_id, b.JobName) :
                     s.EndTime = job.last_successful_backup
               /\ \A s \in Successes(atStart, job.job_id, b.JobName) :
                     s.EndTime.at <= job.last_successful_backup.at
  <2>1. job \in BackupJobs(backups, sessions)
    BY <1>1 DEF Emitted, IInv, Progress, Made, Normalize
  <2>2. PICK i \in Mapped(backups, sessions) :
            /\ job.job_id = backups[i].JobUid /\ job.repository_id = backups[i].RepositoryUid
            /\ job.last_successful_backup =
                 LastSuccess(sessions, backups[i].JobUid, backups[i].JobName)
    BY <2>1 DEF BackupJobs
  <2> DEFINE b == backups[i]
             last == LastSuccess(sessions, b.JobUid, b.JobName)
             times == _successful_session_times(sessions, b.JobUid, b.JobName)
  <2>3. b \in Objects(backups) /\ last # Null
    BY DEF Mapped, Candidates, Objects
  <2>4. sessions \in Seq(AllSessions)
    BY <1>1 DEF IInv, AnswersInv
  <2>5. last \in times /\ \A t \in times : t.at <= last.at
    BY <2>3, <2>4, LastIsLargest
  <2>6. times = {s.EndTime : s \in Successes(sessions, b.JobUid, b.JobName)}
    BY DEF _successful_session_times
  <2>7. Objects(sessions) \subseteq Objects(server["/backupSessions"])
    BY <1>1, ObjectsOf DEF IInv, AnswersInv
  <2>8. Objects(atStart) \subseteq Objects(sessions)
    <3>1. sessions # << >>
      <4>1. Objects(<< >>) = {}
        BY DEF Objects, Positions
      <4>2. QED
        BY <2>5, <2>6, <4>1
    <3>2. QED
      BY <1>1, <3>1, ObjectsOf DEF IInv, AnswersInv
  <2> HIDE DEF last, times
  <2>9. \E s \in Successes(server["/backupSessions"], b.JobUid, b.JobName) : s.EndTime = last
    BY <2>5, <2>6, <2>7
  <2>10. \A s \in Successes(atStart, b.JobUid, b.JobName) : s.EndTime.at <= last.at
    BY <2>5, <2>6, <2>8
  <2>11. QED
    BY <2>2, <2>3, <2>9, <2>10 DEF last
<1>2. IInv => LastSuccessIsFresh
  BY <1>1 DEF LastSuccessIsFresh
<1>3. QED
  BY <1>2, IInvHolds, PTL

-----------------------------------------------------------------------------
\* A backup that is not mapped is in a finding, under one of its names.
LEMMA BackupAccounted ==
    ASSUME NEW backups, NEW refs, NEW sessions, NEW i \in Positions(backups),
           i \notin Mapped(backups, sessions)
    PROVE  \E id \in Names({backups[i].UID, backups[i].JobUid}) : \E reason :
               Finding("backup_job", id, reason) \in BackupFindings(backups, refs, sessions)
<1>1. Related(backups[i]) => backups[i].JobUid \in Names({backups[i].UID, backups[i].JobUid})
  BY SafeIds DEF Related, _non_empty_strings
<1>2. CASE ~ Related(backups[i])
  <2> DEFINE id == _safe_resource_id(backups[i].UID, backups[i].JobUid)
  <2>1. id \in Names({backups[i].UID, backups[i].JobUid})
    BY SafeIds
  <2> HIDE DEF id
  <2>2. Finding("backup_job", id, "MissingBackupJobRelationship")
           \in BackupFindings(backups, refs, sessions)
    BY <1>2, Zenon DEF BackupFindings, id
  <2>3. QED
    BY <2>1, <2>2
<1>3. CASE Related(backups[i]) /\ i \notin Candidates(backups, sessions)
  <2>1. Finding("backup_job", backups[i].JobUid, "NoDeterministicSuccessfulSession")
           \in BackupFindings(backups, refs, sessions)
    BY <1>3, Zenon DEF BackupFindings
  <2>2. QED
    BY <1>1, <1>3, <2>1
<1>4. CASE i \in Candidates(backups, sessions)
  <2>1. Finding("backup_job", backups[i].JobUid, "AmbiguousBackupJobRelationship")
           \in BackupFindings(backups, refs, sessions)
    BY <1>4, Zenon DEF BackupFindings
  <2>2. Related(backups[i])
    BY <1>4 DEF Candidates
  <2>3. QED
    BY <1>1, <2>1, <2>2
<1>5. QED
  BY <1>2, <1>3, <1>4

\* A backup of which there is a reference only is in a finding.
LEMMA ReferenceAccounted ==
    ASSUME NEW refs, NEW sessions, NEW r \in Objects(refs)
    PROVE  Finding("backup_job", _safe_resource_id(r.UID, Null), "MissingBackupJobRelationship")
               \in BackupFindings(<< >>, refs, sessions)
  BY Zenon DEF BackupFindings, ReferenceFindings

\* A finding about a backup bears a name of a backup that was listed, or of a
\* reference when none was.
LEMMA BackupFindingsNames ==
    ASSUME NEW backups, NEW refs, NEW sessions, NEW f \in BackupFindings(backups, refs, sessions)
    PROVE  \/ \E b \in Objects(backups) : f.resource_id \in Names({b.UID, b.JobUid})
           \/ /\ backups = << >>
              /\ \E r \in Objects(refs) : f.resource_id \in Names({r.UID})
<1>1. CASE /\ backups = << >>
           /\ \E r \in Objects(refs) :
                 f = Finding("backup_job", _safe_resource_id(r.UID, Null),
                             "MissingBackupJobRelationship")
  <2>1. PICK r \in Objects(refs) :
            f = Finding("backup_job", _safe_resource_id(r.UID, Null),
                        "MissingBackupJobRelationship")
    BY <1>1
  <2>2. f.resource_id \in Names({r.UID})
    BY <2>1, SafeId, FindingShape
  <2>3. QED
    BY <1>1, <2>2
<1>2. CASE \E i \in Positions(backups), reason \in Reasons : \E id :
              /\ \/ id = _safe_resource_id(backups[i].UID, backups[i].JobUid)
                 \/ id = backups[i].JobUid /\ Text(id)
              /\ f = Finding("backup_job", id, reason)
  <2>1. PICK i \in Positions(backups), reason \in Reasons : \E id :
              /\ \/ id = _safe_resource_id(backups[i].UID, backups[i].JobUid)
                 \/ id = backups[i].JobUid /\ Text(id)
              /\ f = Finding("backup_job", id, reason)
    BY <1>2
  <2> DEFINE id == f.resource_id
  <2>2. f.resource_id \in Names({backups[i].UID, backups[i].JobUid})
    <3>1. \/ id = _safe_resource_id(backups[i].UID, backups[i].JobUid)
          \/ id = backups[i].JobUid /\ Text(id)
      BY <2>1, FindingShape
    <3> HIDE DEF id
    <3>2. id \in Names({backups[i].UID, backups[i].JobUid})
      BY <3>1, SafeIds
    <3>3. QED
      BY <3>2 DEF id
  <2>3. backups[i] \in Objects(backups)
    BY DEF Objects
  <2>4. QED
    BY <2>2, <2>3
<1>3. \/ /\ backups = << >>
         /\ \E r \in Objects(refs) :
               f = Finding("backup_job", _safe_resource_id(r.UID, Null),
                           "MissingBackupJobRelationship")
      \/ \E i \in Positions(backups), reason \in Reasons : \E id :
            /\ \/ id = _safe_resource_id(backups[i].UID, backups[i].JobUid)
               \/ id = backups[i].JobUid /\ Text(id)
            /\ f = Finding("backup_job", id, reason)
  BY BackupFindingsOrigin
<1>4. QED
  BY <1>1, <1>2, <1>3

\* Every object that was read is in the report, as a resource or as a finding,
\* and no finding is about anything else.
THEOREM ObjectsAreAccountedFor == Spec => []ObjectsAccountedFor
<1> DEFINE list == Read("/backups")
           sessions == Read("/backupSessions")
           jobs == BackupJobs(list, sessions)
           found == report.completeness_findings
           Emits(b)      == \E job \in Emitted : job.job_id = b.JobUid
           pointIds      == {point.restore_point_id : point \in Points}
           refs          == IF list = << >> THEN Objects(references) ELSE {}
           OfBackup(b)   == Names({b.UID, b.JobUid})
           OfReference(r) == Names({r.UID})
           OfPoint(p)    == Names({p.UID, p.restore_point_id})
           OfRepository(r) == Names({r.UID, r.repository_id})
           backups       == Objects(list)
           points        == Objects(Read("/restorePoints"))
           repositories  == Objects(Read("/query?type=Repository"))
<1>1. ASSUME IInv, pc = "done"
      PROVE  /\ report = Made /\ Emitted = jobs
             /\ BackupFindings(list, references, sessions) \subseteq found
  <2>1. report = Made
    BY <1>1 DEF IInv, Progress
  <2>2. QED
    BY <1>1, <2>1 DEF Made, Normalize, Emitted
<1>2. ASSUME NEW type, NEW id, NEW reason, Finding(type, id, reason) \in found
      PROVE  id \in FoundIds(type)
  BY <1>2, FindingShape DEF FoundIds, FindingsOf
<1>3. ASSUME IInv, pc = "done", NEW b \in backups
      PROVE  Emits(b) \/ OfBackup(b) \cap FoundIds("backup_job") # {}
  <2>1. PICK i \in Positions(list) : b = list[i]
    BY DEF Objects
  <2>2. CASE i \in Mapped(list, sessions)
    BY <1>1, <1>3, <2>1, <2>2, MappedIsEmitted
  <2>3. CASE i \notin Mapped(list, sessions)
    <3>1. PICK id \in OfBackup(b) : \E reason :
              Finding("backup_job", id, reason) \in BackupFindings(list, references, sessions)
      BY <2>1, <2>3, BackupAccounted
    <3>2. id \in FoundIds("backup_job")
      BY <1>1, <1>2, <1>3, <3>1
    <3>3. QED
      BY <3>1, <3>2
  <2>4. QED
    BY <2>2, <2>3
<1>4. ASSUME IInv, pc = "done", NEW r \in refs
      PROVE  OfReference(r) \subseteq FoundIds("backup_job")
  <2>1. list = << >> /\ r \in Objects(references)
    OBVIOUS
  <2>2. Finding("backup_job", _safe_resource_id(r.UID, Null), "MissingBackupJobRelationship")
           \in found
    BY <1>1, <1>4, <2>1, ReferenceAccounted
  <2>3. QED
    BY <1>2, <2>2, SafeId
<1>5. ASSUME IInv, pc = "done", NEW p \in points
      PROVE  OfPoint(p) \cap (pointIds \cup FoundIds("restore_point")) # {}
  <2> DEFINE answer == Read("/restorePoints")
             Fate(q) == RestorePointFate(q, list, sessions)
  <2>1. PointId(p) \in OfPoint(p)
    BY SafeIds DEF PointId
  <2>2. CASE Fate(p) = "mapped"
    <3>1. PICK i \in Positions(answer) : p = answer[i]
      BY DEF Objects
    <3> DEFINE mapped == {k \in Positions(answer) : Fate(answer[k]) = "mapped"}
               Entry(k) == [restore_point_id |-> PointId(answer[k]),
                            job_id |-> LinkedJob(answer[k], list, sessions),
                            created_at |-> answer[k].CreationTimeUTC]
    <3>2. report.restore_points = [k \in mapped |-> Entry(k)]
      <4>1. Made.restore_points = [k \in mapped |-> Entry(k)]
        BY Zenon DEF Made, Normalize
      <4>2. QED
        BY <1>1, <1>5, <4>1
    <3>3. Entry(i).restore_point_id = PointId(p)
      BY <3>1
    <3>4. i \in mapped
      BY <2>2, <3>1
    <3> HIDE DEF mapped, Entry
    <3>5. Entry(i) \in ToSet(report.restore_points)
      BY <3>2, <3>4 DEF ToSet
    <3>6. Points = ToSet(report.restore_points)
      BY <1>5 DEF Points
    <3>7. PointId(p) \in pointIds
      BY <3>3, <3>5, <3>6
    <3>8. QED
      BY <2>1, <3>7
  <2>3. CASE Fate(p) # "mapped"
    <3>1. Finding("restore_point", PointId(p), Fate(p)) \in Made.completeness_findings
      BY <2>3 DEF Made, Normalize
    <3>2. PointId(p) \in FoundIds("restore_point")
      BY <1>1, <1>2, <1>5, <3>1
    <3>3. QED
      BY <2>1, <3>2
  <2>4. QED
    BY <2>2, <2>3
<1>6. ASSUME IInv, pc = "done", NEW r \in repositories
      PROVE  OfRepository(r) \cap (report.repositories \cup FoundIds("repository")) # {}
  <2> DEFINE answer == Read("/query?type=Repository")
  <2>1. PICK i \in Positions(answer) : r = answer[i]
    BY DEF Objects
  <2>2. RepositoryId(r) \in OfRepository(r)
    BY SafeIds DEF RepositoryId
  <2>3. CASE RepositoryFate(answer, i, jobs) = "mapped"
    <3>1. r.UID \in Made.repositories
      BY <2>1, <2>3 DEF Made, Normalize
    <3>2. RepositoryId(r) = r.UID
      BY <2>1, <2>3, MappedRepository
    <3>3. QED
      BY <1>1, <1>6, <2>2, <3>1, <3>2
  <2>4. CASE RepositoryFate(answer, i, jobs) # "mapped"
    <3>1. Finding("repository", RepositoryId(r), RepositoryFate(answer, i, jobs))
             \in Made.completeness_findings
      BY <2>1, <2>4 DEF Made, Normalize
    <3>2. RepositoryId(r) \in FoundIds("repository")
      BY <1>1, <1>2, <1>6, <3>1
    <3>3. QED
      BY <2>2, <3>2
  <2>5. QED
    BY <2>3, <2>4
<1>7. ASSUME IInv, pc = "done", NEW f \in found
      PROVE  /\ f.resource_type = "backup_job" =>
                   f.resource_id \in UNION ({OfBackup(b) : b \in backups}
                                            \cup {OfReference(r) : r \in refs})
             /\ f.resource_type = "restore_point" =>
                   f.resource_id \in UNION {OfPoint(p) : p \in points}
             /\ f.resource_type = "repository" =>
                   f.resource_id \in UNION {OfRepository(r) : r \in repositories}
  <2>1. CASE f \in BackupFindings(list, references, sessions)
    <3>1. f.resource_id \in UNION ({OfBackup(b) : b \in backups} \cup {OfReference(r) : r \in refs})
      BY <2>1, BackupFindingsNames
    <3>2. f.resource_type = "backup_job"
      <4>1. \E id, reason : f = Finding("backup_job", id, reason)
        BY <2>1, BackupFindingsType
      <4>2. QED
        BY <4>1, FindingShape
    <3>3. QED
      BY <3>1, <3>2
  <2>2. CASE \E i \in Positions(Read("/query?type=Repository")), reason \in Reasons :
                f = Finding("repository", RepositoryId(Read("/query?type=Repository")[i]), reason)
    <3>1. PICK i \in Positions(Read("/query?type=Repository")), reason \in Reasons :
              f = Finding("repository", RepositoryId(Read("/query?type=Repository")[i]), reason)
      BY <2>2
    <3>2. /\ f.resource_type = "repository"
          /\ f.resource_id = RepositoryId(Read("/query?type=Repository")[i])
      BY <3>1, FindingShape
    <3>3. Read("/query?type=Repository")[i] \in repositories
      BY DEF Objects
    <3>4. f.resource_id \in OfRepository(Read("/query?type=Repository")[i])
      BY <3>2, SafeIds DEF RepositoryId
    <3>5. QED
      BY <3>2, <3>3, <3>4
  <2>3. CASE \E p \in points, reason \in Reasons : f = Finding("restore_point", PointId(p), reason)
    <3>1. PICK p \in points, reason \in Reasons : f = Finding("restore_point", PointId(p), reason)
      BY <2>3
    <3>2. f.resource_type = "restore_point" /\ f.resource_id = PointId(p)
      BY <3>1, FindingShape
    <3>3. PointId(p) \in OfPoint(p)
      BY SafeIds DEF PointId
    <3>4. QED
      BY <3>2, <3>3
  <2>4. QED
    <3>1. f \in Made.completeness_findings
      BY <1>1, <1>7
    <3>2. \/ f \in BackupFindings(list, references, sessions)
          \/ \E i \in Positions(Read("/query?type=Repository")), reason \in Reasons :
                f = Finding("repository", RepositoryId(Read("/query?type=Repository")[i]), reason)
          \/ \E p \in points, reason \in Reasons :
                f = Finding("restore_point", PointId(p), reason)
      BY <3>1, FindingsOrigin DEF Made
    <3>3. QED
      BY <2>1, <2>2, <2>3, <3>2
<1>8. ASSUME IInv, pc = "done"
      PROVE  /\ FoundIds("backup_job") \subseteq UNION ({OfBackup(b) : b \in backups}
                                                        \cup {OfReference(r) : r \in refs})
             /\ FoundIds("restore_point") \subseteq UNION {OfPoint(p) : p \in points}
             /\ FoundIds("repository") \subseteq UNION {OfRepository(r) : r \in repositories}
  <2> HIDE DEF OfBackup, OfReference, OfPoint, OfRepository, backups, refs, points, repositories
  <2>1. \A type : \A id \in FoundIds(type) : \E f \in found :
            f.resource_type = type /\ f.resource_id = id
    BY DEF FoundIds, FindingsOf
  <2>2. QED
    BY <1>7, <1>8, <2>1
<1>9. IInv => ObjectsAccountedFor
  BY <1>3, <1>4, <1>5, <1>6, <1>8, Zenon DEF ObjectsAccountedFor
<1>10. QED
  BY <1>9, IInvHolds, PTL

=============================================================================
