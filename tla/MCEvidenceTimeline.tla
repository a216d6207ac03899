------------------------- MODULE MCEvidenceTimeline -------------------------
(***************************************************************************)
(* Minutes of two seconds: an age or a duration can lie between two        *)
(* minutes.  The subject has both objectives, the other asset an RPO only, *)
(* and a third rule is about an asset no report mentions.                  *)
(***************************************************************************)
EXTENDS EvidenceTimeline

MCPolicy ==
    [evaluation_timestamp |-> Missing,
     rules |-> << [policy_id |-> "p1", asset_id |-> "subject", rpo |-> 1, rto |-> 1],
                  [policy_id |-> "p2", asset_id |-> "absent",  rpo |-> 1, rto |-> 1],
                  [policy_id |-> "p3", asset_id |-> "other",   rpo |-> 2, rto |-> Missing] >>]

MCOutcomes == {<< "subject", "PASS" >>, << "subject", "FAIL" >>,
               << "subject", "UNKNOWN" >>, << "other", "PASS" >>}

\* The newest test was checked and collected when the report was made.
Prompt ==
    LET newest == Tests[Len(Tests)] IN
    /\ newest.collected_at = evidence.generated_at
    /\ newest.checked_at \in {Null, evidence.generated_at}

\* The two objectives are judged independently of each other, so a history is
\* of backups and reports, or of restore tests up to time MaxTestTime.  The
\* time a check and a collection take is explored with one test, and what
\* several tests do to each other with tests that were collected at once.
CONSTANT MaxTestTime
MCNext ==
    \/ (evidence # Null => now < MaxTestTime) /\ Tick
    \/ evidence = Null /\ (BackupSucceeds \/ Collect)
    \/ /\ backups = {} /\ collections = 0 /\ now <= MaxTestTime
       /\ Tests # << >> => Prompt
       /\ ImportTest
       /\ Tests # << >> => Prompt'
    \/ Slip

MCSpec == Init /\ [][MCNext]_vars
=============================================================================
