--------------------------- MODULE EvidencePipeline ---------------------------
(***************************************************************************)
(* The way of an observation: an S3 or a Veeam report becomes a Unified    *)
(* report by its adapter, is composed with others, and the RPO evaluator   *)
(* judges what comes out.  The two adapters are among the authors of       *)
(* ReportComposition: their outcome is written to a file unless they       *)
(* refuse.  Others write Unified reports too.                              *)
(***************************************************************************)
EXTENDS ReportComposition, EvidenceAdapters, RpoRtoEvaluator

CONSTANTS
    S3Reports, VeeamReports,  \* the source reports there may be
    Times, Objectives         \* evaluation times, and objectives in minutes

AdaptedReports ==
    ({adapt_s3_report_to_unified(report) : report \in S3Reports}
     \cup {adapt_veeam_report_to_unified(report) : report \in VeeamReports}) \ {Refused}

\* An adapter can write whatever it makes; others write reports of their own.
ASSUME AdaptersAssumption == AdaptedReports \subseteq Authored

\* Markers are unlike times, identifiers, evidence and words; the last success
\* of a job is a time or a marker.
ASSUME MarkersAssumption ==
    /\ {Missing, Null, Malformed, NonUtc, OtherType} \cap Int = {}
    /\ Text("resource_evidence") /\ Null \notin Blanks
    /\ \A report \in VeeamReports :
          /\ veeam_source_id(report) \notin {Missing, Null}
          /\ \A r \in report.resources :
                /\ [status |-> r.status, last |-> r.last, created_at |-> r.created_at] # Missing
                /\ r.resource_type = "backup_job" =>
                      r.last \in Int \cup {Missing, Null, Malformed, NonUtc, OtherType}

ASSUME TimesAssumption == Times \subseteq Int /\ Objectives \subseteq Int /\ Minute \in Int

\* The source reports that are behind a file by way of their adapter.
S3Behind(p) ==
    {report \in S3Reports : adapt_s3_report_to_unified(report) \in origin[p] \ {Refused}}
VeeamBehind(p) ==
    {report \in VeeamReports : adapt_veeam_report_to_unified(report) \in origin[p] \ {Refused}}

\* A finding can be made of this evidence: the adapters let a message, or a
\* check's name, of blanks pass and a reason that is empty; a finding may not
\* have them.  They do no harm where there is no finding to make.
Tellable(name, evidence) ==
    evidence.status # "PASS" => /\ name # " " /\ evidence.message # " "
                                /\ evidence.reason \notin Blanks

S3Acceptable(report) ==
    /\ IsUtc(report.timestamp)
    /\ \A c \in DOMAIN report.checks : c \notin ReservedNames /\ Tellable(c, report.checks[c])

\* What a resource says besides is copied without a look: times, and
\* references to sources that another report may know.
VeeamAcceptable(report) ==
    /\ IsUtc(report.timestamp)
    /\ \A r \in report.resources :
          /\ Tellable("evidence", r)
          /\ TimestampAllowed(r.last) /\ TimestampAllowed(r.created_at)
          /\ NestedAllowed(r.nested, {veeam_source_id(report)})

\* The adapters and the validator check by rules of their own.  Whatever an
\* adapter accepts, the validator accepts what is made of it but for the gaps
\* that the two definitions above list; and what falls into one is in no
\* composition, even one that has the source it refers to.
RefusalsAreExplained ==
    \A p \in Present :
        /\ \A report \in S3Behind(p) :
              validate_unified_report(files[p]) <=> S3Acceptable(report)
        /\ \A report \in VeeamBehind(p) :
              validate_unified_report(files[p]) <=> VeeamAcceptable(report)

\* However reports are adapted and composed, a failed and an unknown check or
\* resource is still a finding with its own status, only a failed one is a
\* confirmed vulnerability, and nobody sees a healthy report.
EverythingObservedIsFound ==
    \A p \in Present :
        LET Found(asset, status) ==
              \E f \in files[p].findings : /\ f.asset_id = asset /\ f.status = status
                                           /\ f.confirmed_vulnerability = (status = "FAIL")
            Shown(asset, status) ==
              status # "PASS" => Found(asset, status) /\ files[p].overall # "HEALTHY"
        IN  /\ \A report \in S3Behind(p) : \A c \in DOMAIN report.checks :
                  Shown(<< "aws-s3-bucket", report.bucket >>, report.checks[c].status)
            /\ \A report \in VeeamBehind(p) : \A r \in report.resources :
                  Shown(veeam_asset_id(r), r.status)

\* What a file says of a bucket was seen by one run of the S3 validator: two
\* reports on a bucket, of different times or not, are never put together.
OneLookAtABucket ==
    \A p \in Present : \A a, b \in S3Behind(p) : a.bucket = b.bucket =>
        adapt_s3_report_to_unified(a) = adapt_s3_report_to_unified(b)

\* Evidence from a server reaches no Unified report, and mock evidence is never
\* mixed with anything else.
MockStaysApart ==
    \A p \in Present : VeeamBehind(p) # {} =>
        /\ S3Behind(p) = {}
        /\ \A report \in VeeamBehind(p) : report.collector.mode = "mock_only"

\* The verdict on a backup job, in whatever composition it is judged, is what
\* its own evidence says: a pass means a successful backup within the
\* objective, a failure a backup that is older.
RpoIsAboutTheJob ==
    \A p \in Present : validate_unified_report(files[p]) =>
        \A report \in VeeamBehind(p), time \in Times, minutes \in Objectives :
        \A r \in {q \in report.resources : q.resource_type = "backup_job"} :
            LET rule    == [policy_id |-> "policy", asset_id |-> veeam_asset_id(r),
                            rpo |-> minutes, rto |-> Missing]
                verdict == _evaluate_rpo(rule, files[p], time).status
                Known   == r.status = "PASS" /\ r.last <= time
            IN  /\ verdict = "PASS" <=> Known /\ time <= r.last + minutes * Minute
                /\ verdict = "FAIL" <=> Known /\ time > r.last + minutes * Minute
=============================================================================
