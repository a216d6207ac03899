--------------------------- MODULE WriteOnceStore ---------------------------
(***************************************************************************)
(* What the composer and the evaluator promise about the files they share: *)
(* a path is written at most once and then never changes.  A write either  *)
(* takes effect as a whole or, if it fails half way, leaves the path torn; *)
(* only the operator can clear a torn path.                                *)
(***************************************************************************)
CONSTANTS
    Paths,     \* the file names
    Docs,      \* the documents
    Absent,    \* no file; like Torn, not a document
    Torn       \* a file that holds part of a document

VARIABLE store

Init == store \in [Paths -> Docs \cup {Absent}]

\* A document appears at an unused path.
Publish(q) ==
    /\ store[q] = Absent
    /\ \E d \in Docs : store' = [store EXCEPT ![q] = d]

\* A write fails half way.
Tear(q) == store[q] = Absent /\ store' = [store EXCEPT ![q] = Torn]

\* The operator clears a torn path.
Clear(q) == store[q] = Torn /\ store' = [store EXCEPT ![q] = Absent]

Next == \E q \in Paths : Publish(q) \/ Tear(q) \/ Clear(q)

Spec == Init /\ [][Next]_store
=============================================================================
