---------------------- MODULE ReportPublication_proofs ----------------------
(***************************************************************************)
(* Proofs about ReportPublication for any number of invocations, files,    *)
(* command lines and faults.                                               *)
(***************************************************************************)
EXTENDS ReportPublication, SequenceTheorems, TLAPS

\* Every command line has inputs.
LEMMA CommandLineFacts ==
    ASSUME NEW c \in Invocations
    PROVE  /\ c.inputs \in Seq(Paths) /\ Len(c.inputs) \in Nat \ {0}
           /\ c.output \in Paths
           /\ c.tool \in {"compose", "evaluate"}
<1>1. IsCommandLine(c)
  BY InvocationsAssumption
<1>2. c.inputs \in Seq(Paths) /\ Len(c.inputs) > 0
  BY <1>1 DEF IsCommandLine
<1>3. Len(c.inputs) \in Nat
  BY <1>2
<1>4. QED
  BY <1>1, <1>2, <1>3 DEF IsCommandLine

\* What a command computes from documents is a document.
LEMMA ResultIsDoc ==
    ASSUME NEW docs \in Seq(Docs), Len(docs) > 0, NEW tool
    PROVE  Result(tool, docs) \in Docs
<1>1. \A i \in 1..Len(docs) : docs[i] \in Docs
  OBVIOUS
<1>2. 1 \in 1..Len(docs)
  OBVIOUS
<1>3. docs[1].profile \in Profiles /\ docs[1].ids \in SUBSET Ids
  BY <1>1, <1>2 DEF Docs
<1>4. UNION {docs[i].ids : i \in DOMAIN docs} \in SUBSET Ids
  BY <1>1 DEF Docs
<1> DEFINE k == IF tool = "compose" THEN "unified" ELSE "evaluation"
           s == IF tool = "compose" THEN UNION {docs[i].ids : i \in DOMAIN docs}
                                    ELSE docs[1].ids
<1>5. k \in Kinds
  BY DEF Kinds
<1>6. s \in SUBSET Ids
  BY <1>3, <1>4
<1>7. Result(tool, docs) = [kind |-> k, profile |-> docs[1].profile, ids |-> s]
  BY DEF Result
<1> HIDE DEF k, s
<1>8. QED
  BY <1>3, <1>5, <1>6, <1>7 DEF Docs

-----------------------------------------------------------------------------
\* No step of any kind touches a complete file.
LEMMA CompleteStays ==
    ASSUME IInv, [Next]_vars, NEW q \in Paths, file[q].state = "complete"
    PROVE  file'[q] = file[q]
<1> USE DEF IInv, TypeOK
<1>0. \A p \in Procs : output(p) \in Paths
  BY CommandLineFacts DEF output
<1>1. ASSUME NEW p \in Procs, OpenOutput(p) PROVE file'[q] = file[q]
  BY <1>0, <1>1 DEF OpenOutput
<1>2. ASSUME NEW p \in Procs, Dump(p) PROVE file'[q] = file[q]
  <2>1. output(p) \in Paths /\ file[output(p)].state = "partial"
    <3>1. file[output(p)] = Partial(p)
      BY <1>2 DEF Dump, WriterInv
    <3>2. Partial(p).state = "partial"
      BY DEF Partial
    <3>3. QED
      BY <1>0, <3>1, <3>2
  <2>2. q # output(p)
    BY <2>1
  <2>3. QED
    BY <1>2, <2>1, <2>2 DEF Dump
<1>3. ASSUME NEW r \in Paths, CleanUp(r) PROVE file'[q] = file[q]
  BY <1>3 DEF CleanUp, IsTorn
<1>4. ASSUME NEW p \in Procs,
             Invoke(p) \/ ReadInput(p) \/ Build(p) \/ Close(p) \/ Kill(p)
      PROVE  file'[q] = file[q]
  BY <1>4 DEF Invoke, ReadInput, Build, Close, Kill
<1>5. CASE UNCHANGED vars
  BY <1>5 DEF vars
<1>6. QED
  BY <1>1, <1>2, <1>3, <1>4, <1>5 DEF Next, Step

LEMMA InitInv == Init => IInv
<1> SUFFICES ASSUME Init PROVE IInv
  OBVIOUS
<1>1. file \in [Paths -> {Absent} \cup {Complete(Operator, d) : d \in Docs}]
  BY InitialFilesAssumption DEF Init
<1>2. file \in [Paths -> Files]
  BY <1>1 DEF Files, Absent, Complete
<1>3. \A q \in Paths : file[q].state = "complete" <=> file[q].doc # NoDoc
  BY <1>1, NoDocAssumption DEF Absent, Complete
<1>4. TypeOK
  BY <1>2, <1>3, MaxFaultsAssumption DEF Init, TypeOK
<1>5. ReadInv
  <2>1. \A p \in Procs : Len(args[p].inputs) \in Nat
    BY CommandLineFacts DEF Init
  <2>2. \A p \in Procs : read[p] = << >> /\ Len(read[p]) = 0
    BY DEF Init
  <2>3. ASSUME NEW p \in Procs
        PROVE  Len(read[p]) <= Len(args[p].inputs) /\ 1..Len(read[p]) = {}
    BY <2>1, <2>2
  <2>4. QED
    BY <2>3 DEF ReadInv
<1>6. PartialInv
  BY <1>1 DEF PartialInv, Absent, Complete
<1>7. ExitInv /\ BuiltInv /\ WriterInv
  BY DEF Init, ExitInv, BuiltInv, WriterInv
<1>8. QED
  BY <1>4, <1>5, <1>6, <1>7 DEF IInv

LEMMA NextInv == IInv /\ [Next]_vars => IInv'
<1> SUFFICES ASSUME IInv, [Next]_vars PROVE IInv'
  OBVIOUS
<1> USE DEF IInv, TypeOK
<1>0. \A p \in Procs : output(p) \in Paths /\ output(p) = args[p].output
  BY CommandLineFacts DEF output
<1>a. args' = args
  BY DEF Next, Step, Invoke, ReadInput, Build, OpenOutput, Dump, Close, Kill, CleanUp, vars
<1>b. \A p \in Procs : output(p)' = output(p)
  BY <1>a DEF output
<1>c. \A q \in Paths : file[q].state = "complete" => file'[q] = file[q]
  BY CompleteStays
<1>d. \A p \in Procs : \A i \in DOMAIN args[p].inputs : args[p].inputs[i] \in Paths
  BY CommandLineFacts
\* The documents read stay where they were as long as nothing more is read.
<1>r. ASSUME read' = read PROVE ReadInv'
  <2>1. ASSUME NEW p \in Procs, NEW i \in 1..Len(read[p])
        PROVE  /\ file'[args[p].inputs[i]].state = "complete"
               /\ file'[args[p].inputs[i]].doc = read[p][i]
    <3>1. i \in DOMAIN args[p].inputs
      <4>1. Len(read[p]) \in Nat /\ Len(read[p]) <= Len(args[p].inputs)
        BY DEF ReadInv
      <4>2. args[p].inputs \in Seq(Paths)
        BY CommandLineFacts
      <4>3. QED
        BY <4>1, <4>2
    <3>2. QED
      BY <3>1, <1>c, <1>d DEF ReadInv
  <2>2. QED
    BY <1>r, <1>a, <2>1 DEF ReadInv
\* An invocation that ends without success, from any pc but "dumping".
<1>e. ASSUME NEW p \in Procs, NEW code \in {"1", "2", "killed"}, End(p, code),
             pc[p] \notin {"dumping", "done"} \/ code # "1",
             pc[p] # "done", UNCHANGED << file, args, read, built >>, faults' \in 0..MaxFaults
      PROVE  IInv'
  <2>1. TypeOK'
    BY <1>e DEF End
  <2>2. ExitInv'
    BY <1>e DEF End, ExitInv
  <2>3. ReadInv'
    BY <1>e, <1>r
  <2>4. BuiltInv'
    BY <1>e DEF End, BuiltInv
  <2>5. WriterInv'
    BY <1>e, <1>b DEF End, WriterInv, Partial, Complete
  <2>6. PartialInv'
    BY <1>e, <1>b DEF End, PartialInv, WriterInv, Partial
  <2>7. QED
    BY <2>1, <2>2, <2>3, <2>4, <2>5, <2>6
<1>f. ASSUME Fault PROVE faults' \in 0..MaxFaults
  BY <1>f, MaxFaultsAssumption DEF Fault
<1>1. ASSUME NEW p \in Procs, Invoke(p) PROVE IInv'
  <2>1. CASE End(p, "2")
    BY <1>1, <2>1, <1>e DEF Invoke
  <2>2. CASE Goto(p, "reading")
    <3>1. TypeOK'
      BY <1>1, <2>2 DEF Invoke, Goto
    <3>2. ReadInv'
      BY <1>1, <1>r DEF Invoke
    <3>3. ExitInv' /\ BuiltInv'
      BY <1>1, <2>2 DEF Invoke, Goto, ExitInv, BuiltInv
    <3>4. WriterInv' /\ PartialInv'
      BY <1>1, <2>2, <1>b DEF Invoke, Goto, WriterInv, PartialInv, Partial, Complete
    <3>5. QED
      BY <3>1, <3>2, <3>3, <3>4
  <2>3. QED
    BY <1>1, <2>1, <2>2 DEF Invoke
<1>2. ASSUME NEW p \in Procs, ReadInput(p) PROVE IInv'
  <2> DEFINE next == args[p].inputs[Len(read[p]) + 1]
  <2>0. /\ next \in Paths
        /\ Len(read[p]) \in Nat /\ Len(args[p].inputs) \in Nat
        /\ Len(read[p]) < Len(args[p].inputs)
        /\ pc[p] = "reading"
    <3>1. args[p].inputs \in Seq(Paths) /\ read[p] \in Seq(Docs)
      BY CommandLineFacts
    <3>2. Len(read[p]) < Len(args[p].inputs) /\ pc[p] = "reading"
      BY <1>2 DEF ReadInput
    <3>3. QED
      BY <3>1, <3>2
  <2>1. CASE /\ file[next].state = "complete"
             /\ read' = [read EXCEPT ![p] = Append(@, file[next].doc)]
             /\ UNCHANGED << pc, exit, faults >>
    <3>1. file[next].doc \in Docs
      BY <2>0, <2>1 DEF Files
    <3> HIDE DEF next
    <3>2. Append(read[p], file[next].doc) \in Seq(Docs)
      BY <3>1
    <3>3. TypeOK'
      BY <1>2, <2>1, <3>2 DEF ReadInput
    <3>4. ReadInv'
      <4> SUFFICES ASSUME NEW r \in Procs
                   PROVE  /\ Len(read'[r]) <= Len(args[r].inputs)
                          /\ \A i \in 1..Len(read'[r]) :
                                /\ file[args[r].inputs[i]].state = "complete"
                                /\ file[args[r].inputs[i]].doc = read'[r][i]
        BY <1>2 DEF ReadInput, ReadInv
      <4>1. CASE r # p
        BY <4>1, <2>1 DEF ReadInv
      <4>2. CASE r = p
        <5>1. read'[p] = Append(read[p], file[next].doc)
          BY <2>1
        <5>2. Len(read'[p]) = Len(read[p]) + 1
          BY <5>1, <3>1
        <5>3. \A i \in 1..Len(read[p]) : read'[p][i] = read[p][i]
          BY <5>1, <3>1
        <5>4. read'[p][Len(read[p]) + 1] = file[next].doc
          BY <5>1, <3>1
        <5>5. ASSUME NEW i \in 1..Len(read'[p])
              PROVE  /\ file[args[p].inputs[i]].state = "complete"
                     /\ file[args[p].inputs[i]].doc = read'[p][i]
          <6>1. CASE i = Len(read[p]) + 1
            BY <6>1, <5>4, <2>1 DEF next
          <6>2. CASE i \in 1..Len(read[p])
            BY <6>2, <5>3 DEF ReadInv
          <6>3. QED
            BY <5>2, <6>1, <6>2, <2>0
        <5>6. QED
          BY <4>2, <5>2, <5>5, <2>0
      <4>3. QED
        BY <4>1, <4>2
    <3>5. ExitInv' /\ BuiltInv'
      BY <1>2, <2>0, <2>1 DEF ReadInput, ExitInv, BuiltInv
    <3>6. WriterInv' /\ PartialInv'
      BY <1>2, <2>1, <1>b DEF ReadInput, WriterInv, PartialInv, Partial, Complete
    <3>7. QED
      BY <3>3, <3>4, <3>5, <3>6
  <2>2. CASE End(p, "2") /\ UNCHANGED << read, faults >>
    BY <1>2, <2>2, <1>e DEF ReadInput
  <2>3. CASE Fault /\ End(p, "2") /\ UNCHANGED read
    BY <1>2, <2>3, <1>e, <1>f DEF ReadInput
  <2>4. QED
    BY <1>2, <2>1, <2>2, <2>3 DEF ReadInput
<1>3. ASSUME NEW p \in Procs, Build(p) PROVE IInv'
  <2>1. CASE /\ Accepts(args[p], read[p])
             /\ built' = [built EXCEPT ![p] = Result(args[p].tool, read[p])]
             /\ Goto(p, "opening")
    <3>1. Result(args[p].tool, read[p]) \in Docs
      <4>1. read[p] \in Seq(Docs) /\ args[p] \in Invocations
        OBVIOUS
      <4>2. Len(read[p]) = Len(args[p].inputs)
        BY <1>3 DEF Build
      <4>3. Len(read[p]) > 0
        BY <4>1, <4>2, CommandLineFacts
      <4>4. QED
        BY <4>1, <4>3, ResultIsDoc
    <3>2. TypeOK'
      BY <1>3, <2>1, <3>1 DEF Build, Goto
    <3>3. ReadInv'
      BY <1>3, <1>r DEF Build
    <3>4. ExitInv'
      BY <1>3, <2>1 DEF Build, Goto, ExitInv
    <3>5. BuiltInv'
      <4> SUFFICES ASSUME NEW r \in Procs,
                          pc'[r] \in {"opening", "dumping", "closing"} \/ exit'[r] = "0"
                   PROVE  /\ Len(read[r]) = Len(args[r].inputs)
                          /\ Accepts(args[r], read[r])
                          /\ built'[r] = Result(args[r].tool, read[r])
        BY <1>3 DEF Build, BuiltInv
      <4>1. CASE r = p
        BY <1>3, <2>1, <4>1 DEF Build, Goto
      <4>2. CASE r # p
        BY <1>3, <2>1, <4>2 DEF Build, Goto, BuiltInv
      <4>3. QED
        BY <4>1, <4>2
    <3>6. WriterInv'
      <4>1. pc[p] = "reading" /\ exit[p] # "0" /\ file' = file
        BY <1>3 DEF Build, ExitInv
      <4>2. QED
        BY <2>1, <4>1, <1>b DEF Goto, WriterInv, Partial, Complete
    <3>7. PartialInv'
      BY <1>3, <2>1, <1>b DEF Build, Goto, PartialInv
    <3>8. QED
      BY <3>2, <3>3, <3>4, <3>5, <3>6, <3>7
  <2>2. CASE (End(p, "1") \/ End(p, "2")) /\ UNCHANGED built
    BY <1>3, <2>2, <1>e DEF Build
  <2>3. QED
    BY <1>3, <2>1, <2>2 DEF Build
<1>4. ASSUME NEW p \in Procs, OpenOutput(p) PROVE IInv'
  <2>1. CASE /\ file[output(p)].state = "absent"
             /\ file' = [file EXCEPT ![output(p)] = Partial(p)]
             /\ Goto(p, "dumping")
             /\ UNCHANGED faults
    <3>1. TypeOK'
      BY <1>4, <2>1, <1>0 DEF OpenOutput, Goto, Partial, Files
    <3>2. ReadInv'
      BY <1>4, <1>r DEF OpenOutput
    <3>3. ExitInv' /\ BuiltInv'
      BY <1>4, <2>1 DEF OpenOutput, Goto, ExitInv, BuiltInv
    <3>4. WriterInv'
      <4> SUFFICES ASSUME NEW r \in Procs
                   PROVE  /\ pc'[r] = "dumping" => file'[output(r)] = Partial(r)
                          /\ pc'[r] = "closing" \/ exit'[r] = "0" =>
                                file'[output(r)] = Complete(r, built[r])
        BY <1>4, <1>b DEF OpenOutput, WriterInv, Partial, Complete
      <4>1. CASE r = p
        BY <4>1, <1>0, <1>4, <2>1 DEF OpenOutput, Goto, ExitInv
      <4>2. CASE r # p
        <5>1. pc'[r] = pc[r] /\ exit'[r] = exit[r]
          BY <4>2, <2>1 DEF Goto
        <5>2. file[output(r)].state # "absent" => file'[output(r)] = file[output(r)]
          BY <1>0, <2>1
        <5>3. QED
          BY <5>1, <5>2 DEF WriterInv, Partial, Complete
      <4>3. QED
        BY <4>1, <4>2
    <3>5. PartialInv'
      <4> SUFFICES ASSUME NEW q \in Paths, file'[q].state = "partial"
                   PROVE  /\ file'[q].by \in Procs
                          /\ output(file'[q].by) = q
                          /\ \/ pc'[file'[q].by] = "dumping"
                             \/ /\ pc'[file'[q].by] = "done"
                                /\ exit'[file'[q].by] \in {"2", "killed"}
        BY <1>4, <1>a DEF OpenOutput, PartialInv, output
      <4>1. CASE q = output(p)
        BY <4>1, <1>0, <2>1 DEF Partial, Goto
      <4>2. CASE q # output(p)
        <5>1. file'[q] = file[q]
          BY <4>2, <2>1, <1>0
        <5>2. QED
          BY <1>4, <5>1, <2>1 DEF OpenOutput, Goto, PartialInv
      <4>3. QED
        BY <4>1, <4>2
    <3>6. QED
      BY <3>1, <3>2, <3>3, <3>4, <3>5
  <2>2. CASE End(p, "2") /\ UNCHANGED << file, faults >>
    BY <1>4, <2>2, <1>e DEF OpenOutput
  <2>3. CASE Fault /\ End(p, "2") /\ UNCHANGED file
    BY <1>4, <2>3, <1>e, <1>f DEF OpenOutput
  <2>4. QED
    BY <1>4, <2>1, <2>2, <2>3 DEF OpenOutput
<1>5. ASSUME NEW p \in Procs, Dump(p) PROVE IInv'
  <2>1. CASE /\ file' = [file EXCEPT ![output(p)] = Complete(p, built[p])]
             /\ Goto(p, "closing")
             /\ UNCHANGED faults
    <3>0. built[p] \in Docs /\ file[output(p)] = Partial(p) /\ exit[p] = "none"
      <4>0. read[p] \in Seq(Docs) /\ args[p] \in Invocations
        OBVIOUS
      <4>a. /\ Len(read[p]) = Len(args[p].inputs)
            /\ built[p] = Result(args[p].tool, read[p])
        BY <1>5 DEF Dump, BuiltInv
      <4>1. Len(read[p]) > 0 /\ built[p] = Result(args[p].tool, read[p])
        BY <4>0, <4>a, CommandLineFacts
      <4>2. built[p] \in Docs
        BY <4>0, <4>1, ResultIsDoc
      <4>3. QED
        BY <1>5, <4>2 DEF Dump, WriterInv, ExitInv
    <3>1. TypeOK'
      <4>1. Complete(p, built[p]) \in Files
        BY <3>0 DEF Complete, Files
      <4>2. file' \in [Paths -> Files]
        BY <2>1, <4>1
      <4>3. \A q \in Paths : file'[q].state = "complete" <=> file'[q].doc # NoDoc
        BY <2>1, <3>0, <1>0, NoDocAssumption DEF Complete
      <4>4. QED
        BY <1>5, <2>1, <4>2, <4>3 DEF Dump, Goto
    <3>2. ReadInv'
      BY <1>5, <1>r DEF Dump
    <3>3. ExitInv' /\ BuiltInv'
      BY <1>5, <2>1 DEF Dump, Goto, ExitInv, BuiltInv
    <3>4. WriterInv'
      <4> SUFFICES ASSUME NEW r \in Procs
                   PROVE  /\ pc'[r] = "dumping" => file'[output(r)] = Partial(r)
                          /\ pc'[r] = "closing" \/ exit'[r] = "0" =>
                                file'[output(r)] = Complete(r, built[r])
        BY <1>5, <1>b DEF Dump, WriterInv, Partial, Complete
      <4>1. CASE r = p
        BY <4>1, <1>0, <2>1 DEF Goto
      <4>2. CASE r # p
        <5>1. pc'[r] = pc[r] /\ exit'[r] = exit[r]
          BY <4>2, <2>1 DEF Goto
        <5>2. file[output(r)].by = r => file'[output(r)] = file[output(r)]
          BY <1>0, <2>1, <3>0, <4>2 DEF Partial
        <5>3. QED
          BY <5>1, <5>2 DEF WriterInv, Partial, Complete
      <4>3. QED
        BY <4>1, <4>2
    <3>5. PartialInv'
      <4> SUFFICES ASSUME NEW q \in Paths, file'[q].state = "partial"
                   PROVE  /\ file'[q].by \in Procs
                          /\ output(file'[q].by) = q
                          /\ \/ pc'[file'[q].by] = "dumping"
                             \/ /\ pc'[file'[q].by] = "done"
                                /\ exit'[file'[q].by] \in {"2", "killed"}
        BY <1>5, <1>a DEF Dump, PartialInv, output
      <4>1. q # output(p)
        BY <1>0, <2>1 DEF Complete
      <4>2. file'[q] = file[q]
        BY <4>1, <2>1, <1>0
      <4>3. file[q].by # p
        BY <4>1, <4>2 DEF PartialInv
      <4>4. QED
        BY <1>5, <4>2, <4>3, <2>1 DEF Dump, Goto, PartialInv
    <3>6. QED
      BY <3>1, <3>2, <3>3, <3>4, <3>5
  <2>2. CASE Fault /\ End(p, "2") /\ UNCHANGED file
    BY <1>5, <2>2, <1>e, <1>f DEF Dump
  <2>3. QED
    BY <1>5, <2>1, <2>2 DEF Dump
<1>6. ASSUME NEW p \in Procs, Close(p) PROVE IInv'
  <2>1. CASE End(p, "0") /\ UNCHANGED faults
    <3>1. TypeOK'
      BY <1>6, <2>1 DEF Close, End
    <3>2. ReadInv'
      BY <1>6, <1>r DEF Close
    <3>3. ExitInv' /\ BuiltInv'
      BY <1>6, <2>1 DEF Close, End, ExitInv, BuiltInv
    <3>4. WriterInv'
      BY <1>6, <2>1, <1>b DEF Close, End, WriterInv, Partial, Complete
    <3>5. PartialInv'
      BY <1>6, <2>1, <1>b DEF Close, End, PartialInv
    <3>6. QED
      BY <3>1, <3>2, <3>3, <3>4, <3>5
  <2>2. CASE Fault /\ End(p, "2")
    BY <1>6, <2>2, <1>e, <1>f DEF Close
  <2>3. QED
    BY <1>6, <2>1, <2>2 DEF Close
<1>7. ASSUME NEW p \in Procs, Kill(p) PROVE IInv'
  BY <1>7, <1>e, <1>f DEF Kill
<1>8. ASSUME NEW q \in Paths, CleanUp(q) PROVE IInv'
  <2>1. Absent \in Files /\ Absent.state = "absent" /\ Absent.doc = NoDoc
    BY DEF Absent, Files
  <2>2. TypeOK'
    BY <1>8, <2>1 DEF CleanUp
  <2>3. ReadInv'
    BY <1>8, <1>r DEF CleanUp
  <2>4. ExitInv' /\ BuiltInv'
    BY <1>8 DEF CleanUp, ExitInv, BuiltInv
  <2>5. WriterInv'
    <3>1. ASSUME NEW r \in Procs, pc[r] \in {"dumping", "closing"} \/ exit[r] = "0"
          PROVE  file'[output(r)] = file[output(r)]
      <4>1. ~ IsTorn(output(r))
        <5>1. CASE pc[r] = "dumping"
          <6>1. file[output(r)] = Partial(r) /\ Partial(r).by = r
            BY <5>1 DEF WriterInv, Partial
          <6>2. QED
            BY <5>1, <6>1 DEF IsTorn
        <5>2. CASE pc[r] = "closing" \/ exit[r] = "0"
          <6>1. /\ file[output(r)] = Complete(r, built[r])
                /\ Complete(r, built[r]).state = "complete"
            BY <5>2 DEF WriterInv, Complete
          <6>2. QED
            BY <6>1 DEF IsTorn
        <5>3. QED
          BY <3>1, <5>1, <5>2
      <4>2. QED
        BY <1>8, <4>1, <1>0 DEF CleanUp
    <3>2. QED
      BY <1>8, <3>1, <1>b DEF CleanUp, WriterInv, Partial, Complete
  <2>6. PartialInv'
    BY <1>8, <2>1, <1>b DEF CleanUp, PartialInv
  <2>7. QED
    BY <2>2, <2>3, <2>4, <2>5, <2>6
<1>9. CASE UNCHANGED vars
  BY <1>9, <1>r DEF vars, ExitInv, BuiltInv, WriterInv, PartialInv, output, Partial, Complete
<1>10. QED
  BY <1>1, <1>2, <1>3, <1>4, <1>5, <1>6, <1>7, <1>8, <1>9 DEF Next, Step

LEMMA Invariance == Spec => []IInv
<1>1. QED
  BY InitInv, NextInv, PTL DEF Spec

-----------------------------------------------------------------------------
\* Every variable keeps its type, for any number of invocations and files.
THEOREM TypeCorrect == Spec => []TypeOK
<1>1. IInv => TypeOK
  BY DEF IInv
<1>2. QED
  BY <1>1, Invariance, PTL

\* Exit codes 0 and 1 never stand beside a half-written file.
THEOREM PartialSafety == Spec => []PartialIsNobodysResult
<1>1. IInv => PartialIsNobodysResult
  BY DEF IInv, PartialInv, PartialIsNobodysResult
<1>2. QED
  BY <1>1, Invariance, PTL

\* A successful invocation's output is what the command would compute again
\* from its inputs as they are now.
THEOREM Reproducibility == Spec => []SuccessIsReproducible
<1>1. IInv => SuccessIsReproducible
  <2> SUFFICES ASSUME IInv, NEW p \in Procs, exit[p] = "0"
               PROVE  /\ \A i \in DOMAIN args[p].inputs :
                            file[args[p].inputs[i]].state = "complete"
                      /\ Accepts(args[p], InputsNow(p))
                      /\ file[output(p)] = Complete(p, Result(args[p].tool, InputsNow(p)))
    BY DEF SuccessIsReproducible
  <2>1. /\ read[p] \in Seq(Docs) /\ args[p].inputs \in Seq(Paths)
        /\ Len(read[p]) = Len(args[p].inputs)
    BY CommandLineFacts DEF IInv, TypeOK, BuiltInv
  <2>2. DOMAIN args[p].inputs = 1..Len(read[p])
    BY <2>1
  <2>3. InputsNow(p) = read[p]
    <3>1. \A i \in 1..Len(read[p]) : file[args[p].inputs[i]].doc = read[p][i]
      BY DEF IInv, ReadInv
    <3>2. read[p] = [i \in 1..Len(read[p]) |-> read[p][i]]
      BY <2>1
    <3>3. QED
      BY <2>2, <3>1, <3>2 DEF InputsNow
  <2>4. QED
    BY <2>2, <2>3 DEF IInv, ReadInv, BuiltInv, WriterInv
<1>2. QED
  BY <1>1, Invariance, PTL

\* Existing output is never overwritten and inputs are never modified.
THEOREM WriteOnce == Spec => NeverOverwritten
<1>1. IInv /\ [Next]_vars
        => [\A q \in Paths : file[q].state = "complete" => file'[q] = file[q]]_vars
  BY CompleteStays
<1>2. QED
  BY <1>1, Invariance, PTL DEF Spec, NeverOverwritten

-----------------------------------------------------------------------------
\* The state of the abstract store.
store == [q \in Paths |-> StoreOf(q)]

\* A path is absent from the store while it is being written.
LEMMA BeingWritten ==
    ASSUME IInv, NEW p \in Procs, pc[p] = "dumping"
    PROVE  output(p) \in Paths /\ ~ IsTorn(output(p)) /\ StoreOf(output(p)) = AbsentPath
<1>1. output(p) \in Paths
  BY CommandLineFacts DEF output, IInv, TypeOK
<1>2. file[output(p)] = Partial(p)
  BY DEF IInv, WriterInv
<1>3. Partial(p).state = "partial" /\ Partial(p).by = p
  BY DEF Partial
<1>4. QED
  BY <1>1, <1>2, <1>3 DEF IsTorn, StoreOf

\* A step of an invocation that is not writing, and leaves the files alone, is
\* invisible in the store.
LEMMA QuietStep ==
    ASSUME IInv, NEW p \in Procs, NEW label,
           pc' = [pc EXCEPT ![p] = label], file' = file,
           pc[p] \notin {"dumping", "done"}
    PROVE  store' = store
<1>1. ASSUME NEW q \in Paths PROVE StoreOf(q)' = StoreOf(q)
  <2>1. CASE file[q].state = "partial"
    <3>1. file[q].by \in Procs /\ file[q].by # p
      BY <2>1 DEF IInv, PartialInv
    <3>2. pc'[file[q].by] = pc[file[q].by]
      BY <3>1 DEF IInv, TypeOK
    <3>3. QED
      BY <3>2 DEF StoreOf, IsTorn
  <2>2. CASE file[q].state # "partial"
    BY <2>2 DEF StoreOf, IsTorn
  <2>3. QED
    BY <2>1, <2>2
<1>2. QED
  BY <1>1 DEF store

\* An invocation that ends while writing tears its output path.
LEMMA TearStep ==
    ASSUME IInv, NEW p \in Procs,
           pc' = [pc EXCEPT ![p] = "done"], file' = file, args' = args, pc[p] = "dumping"
    PROVE  Store!Tear(output(p))
<1>1. output(p) \in Paths /\ StoreOf(output(p)) = AbsentPath
  BY BeingWritten
<1>2. StoreOf(output(p))' = TornPath
  <2>1. file[output(p)] = Partial(p)
    BY DEF IInv, WriterInv
  <2>2. Partial(p).state = "partial" /\ Partial(p).by = p
    BY DEF Partial
  <2>3. output(p)' = output(p) /\ pc'[p] = "done"
    BY DEF output, IInv, TypeOK
  <2>4. file'[output(p)'].state = "partial" /\ pc'[file'[output(p)'].by] = "done"
    BY <2>1, <2>2, <2>3
  <2>5. QED
    BY <2>4 DEF StoreOf, IsTorn
<1>3. ASSUME NEW q \in Paths, q # output(p) PROVE StoreOf(q)' = StoreOf(q)
  <2>1. CASE file[q].state = "partial"
    <3>1. file[q].by \in Procs /\ file[q].by # p
      BY <1>3, <2>1 DEF IInv, PartialInv
    <3>2. pc'[file[q].by] = pc[file[q].by]
      BY <3>1 DEF IInv, TypeOK
    <3>3. QED
      BY <3>2 DEF StoreOf, IsTorn
  <2>2. CASE file[q].state # "partial"
    BY <2>2 DEF StoreOf, IsTorn
  <2>3. QED
    BY <2>1, <2>2
<1>4. output(p)' = output(p)
  BY DEF output
<1>5. store' = [store EXCEPT ![output(p)] = TornPath]
  BY <1>1, <1>2, <1>3, <1>4 DEF store
<1>6. QED
  BY <1>1, <1>5 DEF Store!Tear, store

\* Every step of the commands and the operator is a step of the store, or
\* leaves it unchanged.
LEMMA StoreStep == IInv /\ [Next]_vars => [Store!Next]_store
<1> SUFFICES ASSUME IInv, [Next]_vars PROVE Store!Next \/ store' = store
  BY DEF store
<1>0. \A p \in Procs : output(p) \in Paths
  BY CommandLineFacts DEF output, IInv, TypeOK
<1>1. ASSUME NEW p \in Procs, Invoke(p) \/ ReadInput(p) \/ Build(p) \/ Close(p)
      PROVE  store' = store
  <2>1. file' = file /\ pc[p] \notin {"dumping", "done"}
    BY <1>1 DEF Invoke, ReadInput, Build, Close
  <2>2. pc' = pc \/ \E label : pc' = [pc EXCEPT ![p] = label]
    BY <1>1 DEF Invoke, ReadInput, Build, Close, Goto, End
  <2>3. CASE pc' = pc
    BY <2>1, <2>3 DEF store, StoreOf, IsTorn
  <2>4. QED
    BY <2>1, <2>2, <2>3, QuietStep
<1>2. ASSUME NEW p \in Procs, Kill(p) PROVE Store!Next \/ store' = store
  <2>1. /\ file' = file /\ args' = args /\ pc[p] # "done"
        /\ pc' = [pc EXCEPT ![p] = "done"]
    BY <1>2 DEF Kill, End
  <2>2. CASE pc[p] = "dumping"
    BY <2>1, <2>2, <1>0, TearStep DEF Store!Next
  <2>3. QED
    BY <2>1, <2>2, QuietStep
<1>3. ASSUME NEW p \in Procs, OpenOutput(p) PROVE store' = store
  <2>1. CASE /\ file[output(p)].state = "absent"
             /\ file' = [file EXCEPT ![output(p)] = Partial(p)]
             /\ Goto(p, "dumping")
    <3>1. pc' = [pc EXCEPT ![p] = "dumping"] /\ pc[p] = "opening" /\ args' = args
      BY <1>3, <2>1 DEF OpenOutput, Goto
    <3>2. StoreOf(output(p)) = AbsentPath
      BY <2>1 DEF StoreOf
    <3>3. file'[output(p)].state = "partial" /\ pc'[file'[output(p)].by] = "dumping"
      BY <2>1, <3>1, <1>0 DEF Partial, IInv, TypeOK
    <3>4. ASSUME NEW q \in Paths PROVE StoreOf(q)' = StoreOf(q)
      <4>1. CASE q = output(p)
        BY <3>2, <3>3, <4>1 DEF StoreOf, IsTorn
      <4>2. CASE q # output(p)
        <5>1. file'[q] = file[q]
          BY <2>1, <4>2, <1>0 DEF IInv, TypeOK
        <5>2. CASE file[q].state = "partial"
          <6>1. file[q].by \in Procs /\ file[q].by # p
            BY <3>1, <5>2 DEF IInv, PartialInv
          <6>2. pc'[file[q].by] = pc[file[q].by]
            BY <3>1, <6>1 DEF IInv, TypeOK
          <6>3. QED
            BY <5>1, <6>2 DEF StoreOf, IsTorn
        <5>3. CASE file[q].state # "partial"
          BY <5>1, <5>3 DEF StoreOf, IsTorn
        <5>4. QED
          BY <5>2, <5>3
      <4>3. QED
        BY <4>1, <4>2
    <3>5. QED
      BY <3>4 DEF store
  <2>2. CASE file' = file /\ End(p, "2")
    <3>1. pc' = [pc EXCEPT ![p] = "done"] /\ pc[p] = "opening"
      BY <1>3, <2>2 DEF OpenOutput, End
    <3>2. QED
      BY <2>2, <3>1, QuietStep
  <2>3. QED
    BY <1>3, <2>1, <2>2 DEF OpenOutput
<1>4. ASSUME NEW p \in Procs, Dump(p) PROVE Store!Next
  <2>0. args' = args /\ pc[p] = "dumping" /\ output(p) \in Paths
    BY <1>4, <1>0 DEF Dump
  <2>1. CASE /\ file' = [file EXCEPT ![output(p)] = Complete(p, built[p])]
             /\ Goto(p, "closing")
    <3>1. StoreOf(output(p)) = AbsentPath
      BY <2>0, BeingWritten
    <3>2. built[p] \in Docs
      <4>1. /\ read[p] \in Seq(Docs) /\ args[p] \in Invocations
            /\ Len(read[p]) = Len(args[p].inputs)
            /\ built[p] = Result(args[p].tool, read[p])
        BY <2>0 DEF IInv, TypeOK, BuiltInv
      <4>2. Len(read[p]) > 0
        BY <4>1, CommandLineFacts
      <4>3. QED
        BY <4>1, <4>2, ResultIsDoc
    <3>3. file'[output(p)].state = "complete" /\ file'[output(p)].doc = built[p]
      BY <2>0, <2>1 DEF Complete, IInv, TypeOK
    <3>4. StoreOf(output(p))' = built[p]
      <4>1. output(p)' = output(p)
        BY <2>0 DEF output
      <4>2. QED
        BY <3>3, <4>1 DEF StoreOf
    <3>5. ASSUME NEW q \in Paths, q # output(p) PROVE StoreOf(q)' = StoreOf(q)
      <4>1. file'[q] = file[q]
        BY <2>0, <2>1, <3>5 DEF IInv, TypeOK
      <4>2. CASE file[q].state = "partial"
        <5>1. file[q].by \in Procs /\ file[q].by # p
          BY <3>5, <4>2 DEF IInv, PartialInv
        <5>2. pc'[file[q].by] = pc[file[q].by]
          BY <2>1, <5>1 DEF Goto, IInv, TypeOK
        <5>3. QED
          BY <4>1, <5>2 DEF StoreOf, IsTorn
      <4>3. CASE file[q].state # "partial"
        BY <4>1, <4>3 DEF StoreOf, IsTorn
      <4>4. QED
        BY <4>2, <4>3
    <3>6. output(p)' = output(p)
      BY <2>0 DEF output
    <3>7. store' = [store EXCEPT ![output(p)] = built[p]]
      BY <2>0, <3>4, <3>5, <3>6 DEF store
    <3>8. Store!Publish(output(p))
      BY <2>0, <3>1, <3>2, <3>7 DEF Store!Publish, store
    <3>9. QED
      BY <2>0, <3>8 DEF Store!Next
  <2>2. CASE End(p, "2") /\ file' = file
    <3>1. pc' = [pc EXCEPT ![p] = "done"]
      BY <2>2 DEF End
    <3>2. QED
      BY <2>0, <2>2, <3>1, TearStep DEF Store!Next
  <2>3. QED
    BY <1>4, <2>1, <2>2 DEF Dump
<1>5. ASSUME NEW q \in Paths, CleanUp(q) PROVE Store!Next
  <2>1. /\ IsTorn(q) /\ file' = [file EXCEPT ![q] = Absent] /\ pc' = pc
    BY <1>5 DEF CleanUp
  <2>2. StoreOf(q) = TornPath
    BY <2>1 DEF StoreOf, IsTorn
  <2>3. file'[q].state = "absent"
    BY <2>1 DEF Absent, IInv, TypeOK
  <2>4. StoreOf(q)' = AbsentPath
    BY <2>3 DEF StoreOf
  <2>5. ASSUME NEW r \in Paths, r # q PROVE StoreOf(r)' = StoreOf(r)
    BY <2>1, <2>5 DEF StoreOf, IsTorn, IInv, TypeOK
  <2>6. store' = [store EXCEPT ![q] = AbsentPath]
    BY <2>4, <2>5 DEF store
  <2>7. QED
    BY <2>2, <2>6 DEF Store!Next, Store!Clear, store
<1>6. CASE UNCHANGED vars
  BY <1>6 DEF vars, store, StoreOf, IsTorn
<1>7. QED
  BY <1>1, <1>2, <1>3, <1>4, <1>5, <1>6 DEF Next, Step

LEMMA StoreInit == Init => Store!Init
<1> SUFFICES ASSUME Init PROVE Store!Init
  OBVIOUS
<1>1. file \in [Paths -> {Absent} \cup {Complete(Operator, d) : d \in Docs}]
  BY InitialFilesAssumption DEF Init
<1>2. ASSUME NEW q \in Paths PROVE StoreOf(q) \in Docs \cup {AbsentPath}
  BY <1>1 DEF StoreOf, Absent, Complete
<1>3. QED
  BY <1>2 DEF Store!Init

\* The two commands implement the write-once store: every path is written at
\* most once, as a whole, and never changes afterwards.
THEOREM Implementation == Spec => ImplementsStore
<1>1. QED
  BY StoreInit, StoreStep, Invariance, PTL DEF Spec, ImplementsStore, Store!Spec, store
=============================================================================
