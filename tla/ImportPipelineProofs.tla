------------------------ MODULE ImportPipelineProofs ------------------------
(***************************************************************************)
(* Proofs about ImportPipeline for any jobs, any finite set of hosts and   *)
(* any number of failures and crashes.  IndInv is proved inductive in two  *)
(* halves: Structure relates the stores, one step of the pipeline at a     *)
(* time; Accounting counts copies and rests on Structure.                  *)
(***************************************************************************)
EXTENDS ImportPipeline, FiniteSetTheorems, TLAPS

USE DEF UploadStates, Statuses, RunStates, Working

Structure ==
    /\ TypeOK
    /\ UploadOrder
    /\ RunOrder
    /\ SucceededIsIndexed
    /\ IndexedHasJob

-----------------------------------------------------------------------------
\* The listed page holds rows that are Created, and nothing else.
LEMMA PagesAreSubsets == ASSUME NEW S PROVE Pages(S) \subseteq SUBSET S
BY DEF Pages

\* The initial state is well typed and its three stores are empty.
LEMMA InitStructure == Init => Structure
BY JobsAssumption, BoundsAssumption
   DEF Init, Structure, TypeOK, UploadOrder, RunOrder, SucceededIsIndexed, IndexedHasJob

\* Uploading keeps the stores in order: file first, row second, answer last.
LEMMA RequestStructure ==
    ASSUME Structure, NEW j \in Jobs, Request(j) \/ UploadFails(j)
    PROVE  Structure'
<1> USE JobsAssumption, BoundsAssumption
        DEF Structure, TypeOK, UploadOrder, RunOrder, SucceededIsIndexed, IndexedHasJob,
            runVars
<1>1. CASE UploadRefused(j)
  BY <1>1 DEF UploadRefused
<1>2. CASE SaveFile(j)
  BY <1>2 DEF SaveFile
<1>3. CASE CommitUpload(j)
  BY <1>3 DEF CommitUpload
<1>4. CASE AnswerUpload(j)
  BY <1>4 DEF AnswerUpload
<1>5. CASE UploadFails(j)
  BY <1>5 DEF UploadFails, CallThrows
<1> QED  BY <1>1, <1>2, <1>3, <1>4, <1>5 DEF Request

\* A run that goes well keeps them in order: chunks first, Succeeded second.
LEMMA RunStructure ==
    ASSUME Structure, NEW h \in Hosts, Run(h)
    PROVE  Structure'
<1> USE JobsAssumption, BoundsAssumption
        DEF Structure, TypeOK, UploadOrder, RunOrder, SucceededIsIndexed, IndexedHasJob,
            requestVars
<1>1. CASE ListJobs(h)
  <2>1. PICK P \in Pages(CreatedJobs) : todo' = [todo EXCEPT ![h] = P]
    BY <1>1 DEF ListJobs
  <2>2. P \subseteq CreatedJobs
    BY PagesAreSubsets
  <2> QED  BY <1>1, <2>1, <2>2 DEF ListJobs, CreatedJobs
<1>2. ASSUME NEW j \in Jobs, LoadJob(h, j) PROVE Structure'
  BY <1>2 DEF LoadJob, AbortRun
<1>3. CASE ExtractText(h)
  BY <1>3 DEF ExtractText, Downloads, HasText, AbortRun
<1>4. CASE StoreDocument(h)
  BY <1>4 DEF StoreDocument
<1>5. CASE CommitImport(h)
  BY <1>5 DEF CommitImport
<1>6. CASE EndRun(h)
  BY <1>6 DEF EndRun
<1> QED  BY <1>1, <1>2, <1>3, <1>4, <1>5, <1>6 DEF Run

\* So does one that throws or dies, whether or not its last call took effect.
LEMMA FailureStructure ==
    ASSUME Structure, NEW h \in Hosts, RunThrows(h) \/ Crash(h) \/ Restart(h)
    PROVE  Structure'
<1> USE JobsAssumption, BoundsAssumption
        DEF Structure, TypeOK, UploadOrder, RunOrder, SucceededIsIndexed, IndexedHasJob,
            requestVars
<1>1. CASE RunThrows(h)
  BY <1>1 DEF RunThrows, CallThrows, UnseenEffect, AbortRun
<1>2. CASE Crash(h)
  BY <1>2 DEF Crash, UnseenEffect
<1>3. CASE Restart(h)
  BY <1>3 DEF Restart
<1> QED  BY <1>1, <1>2, <1>3

\* Structure is inductive.
LEMMA NextStructure == Structure /\ [Next]_vars => Structure'
<1> SUFFICES ASSUME Structure, [Next]_vars PROVE Structure'
  OBVIOUS
<1>1. CASE UNCHANGED vars
  BY <1>1 DEF vars, Structure, TypeOK, UploadOrder, RunOrder, SucceededIsIndexed, IndexedHasJob
<1>2. CASE Next
  BY <1>2, RequestStructure, RunStructure, FailureStructure DEF Next
<1> QED  BY <1>1, <1>2

\* Structure holds in every reachable state.
LEMMA AlwaysStructure == Spec => []Structure
BY InitStructure, NextStructure, PTL DEF Spec

-----------------------------------------------------------------------------
\* The hosts still storing a job are finitely many.
LEMMA StoringFinite ==
    ASSUME NEW j
    PROVE  IsFiniteSet(Storing(j)) /\ Cardinality(Storing(j)) \in Nat
<1>1. Storing(j) \in SUBSET Hosts
  BY DEF Storing
<1> QED  BY <1>1, HostsAssumption, FS_Subset, FS_CardinalityType

\* A step that leaves a job's copies and hands alone, and pays no less, keeps its
\* account.
LEMMA AccountKept ==
    ASSUME NEW j \in Jobs, AccountOf(j),
           copies'[j] = copies[j], Storing(j)' = Storing(j), InHand(j)' = InHand(j),
           status'[j] = status[j], Paid(j)' >= Paid(j),
           copies[j] \in Nat, Paid(j) \in Nat, Paid(j)' \in Nat
    PROVE  AccountOf(j)'
BY StoringFinite DEF AccountOf

LEMMA PaidType == ASSUME TypeOK, NEW j \in Jobs PROVE Paid(j) \in Nat
BY BoundsAssumption DEF TypeOK, Paid

LEMMA InitAccounting == Init => Accounting
<1> SUFFICES ASSUME Init, NEW j \in Jobs PROVE AccountOf(j)
  BY DEF Accounting
<1>1. Storing(j) = {}
  BY DEF Init, Storing
<1> QED  BY <1>1, FS_EmptySet, JobsAssumption DEF Init, AccountOf, Paid

\* A new row starts with no copy and nobody at work on it.
LEMMA RequestAccounting ==
    ASSUME Structure, Structure', Accounting, NEW i \in Jobs, Request(i) \/ UploadFails(i)
    PROVE  Accounting'
<1> SUFFICES ASSUME NEW j \in Jobs \ Unreadable PROVE AccountOf(j)'
  BY DEF Accounting
<1>1. AccountOf(j)
  BY DEF Accounting
<1>2. UNCHANGED <<copies, pc, job, overlaps, crashes>> /\ failures' \in {failures, failures + 1}
  BY DEF Request, UploadRefused, SaveFile, CommitUpload, AnswerUpload, UploadFails,
         CallThrows, runVars
<1>3. Storing(j)' = Storing(j) /\ InHand(j)' = InHand(j)
  BY <1>2 DEF Storing, InHand
<1>4. Paid(j) \in Nat /\ Paid(j)' \in Nat /\ Paid(j)' >= Paid(j) /\ copies[j] \in Nat
  BY <1>2, PaidType, BoundsAssumption DEF Paid, Structure, TypeOK
<1>5. CASE status'[j] = status[j]
  BY <1>1, <1>2, <1>3, <1>4, <1>5, AccountKept
<1>6. CASE status'[j] # status[j]
  <2>1. status[j] = "Absent"
    BY <1>6 DEF Request, UploadRefused, SaveFile, CommitUpload, AnswerUpload, UploadFails,
                CallThrows, Structure, TypeOK, UploadOrder
  <2>2. copies[j] = 0
    BY <2>1, <1>4 DEF Structure, IndexedHasJob
  <2>3. copies'[j] = 0 /\ Storing(j)' = Storing(j)
    BY <2>2, <1>2, <1>3
  <2>4. Cardinality(Storing(j)') <= 1 + Paid(j)'
    BY <1>1, <1>3, <1>4, <2>2, StoringFinite DEF AccountOf
  <2> QED  BY <2>3, <2>4, <1>3, <1>4, StoringFinite DEF AccountOf
<1> QED  BY <1>5, <1>6

\* Taking a job up claims one copy: the free one if nobody has it in hand, one
\* paid for by the overlap otherwise.  The other steps only move the claim.
LEMMA RunAccounting ==
    ASSUME Structure, Structure', Accounting, NEW h \in Hosts, Run(h)
    PROVE  Accounting'
<1> SUFFICES ASSUME NEW j \in Jobs \ Unreadable PROVE AccountOf(j)'
  BY DEF Accounting
<1> USE JobsAssumption
<1>0. /\ AccountOf(j) /\ Paid(j) \in Nat /\ Paid(j)' \in Nat
      /\ copies[j] \in Nat /\ copies'[j] \in Nat /\ overlaps[j] \in Nat
      /\ failures \in Nat /\ crashes \in Nat
  BY PaidType, BoundsAssumption DEF Accounting, Structure, TypeOK, Paid
<1>1. CASE ListJobs(h) \/ EndRun(h)
  <2>1. UNCHANGED <<status, copies, job, overlaps, failures, crashes>>
        /\ Storing(j)' = Storing(j) /\ InHand(j)' = InHand(j)
    BY <1>1 DEF ListJobs, EndRun, Storing, InHand, Structure, TypeOK
  <2> QED  BY <1>0, <2>1, AccountKept DEF Paid
<1>2. ASSUME NEW i \in Jobs, LoadJob(h, i), status[i] # "Created" PROVE AccountOf(j)'
  <2>1. UNCHANGED <<status, copies, overlaps, failures, crashes>>
        /\ Storing(j)' = Storing(j) /\ InHand(j)' = InHand(j)
    BY <1>2 DEF LoadJob, AbortRun, Storing, InHand, Structure, TypeOK, RunOrder
  <2> QED  BY <1>0, <2>1, AccountKept DEF Paid
<1>3. ASSUME NEW i \in Jobs, LoadJob(h, i), status[i] = "Created", i # j PROVE AccountOf(j)'
  <2>1. UNCHANGED <<status, copies, failures, crashes>> /\ overlaps'[j] = overlaps[j]
        /\ Storing(j)' = Storing(j) /\ InHand(j)' = InHand(j)
    BY <1>3 DEF LoadJob, Storing, InHand, Structure, TypeOK, RunOrder
  <2> QED  BY <1>0, <2>1, AccountKept DEF Paid
<1>4. ASSUME LoadJob(h, j), status[j] = "Created" PROVE AccountOf(j)'
  <2>1. h \notin InHand(j) /\ h \notin Storing(j) /\ UNCHANGED <<copies, failures, crashes>>
    BY <1>4 DEF LoadJob, InHand, Storing, Structure, TypeOK, RunOrder
  <2>2. Storing(j)' = Storing(j) \cup {h} /\ h \in InHand(j)'
    BY <1>4 DEF LoadJob, Storing, InHand, Structure, TypeOK
  <2>3. Cardinality(Storing(j)') = Cardinality(Storing(j)) + 1
    BY <2>1, <2>2, StoringFinite, FS_AddElement
  <2>4. CASE InHand(j) = {}
    <3>1. Storing(j) = {} /\ overlaps'[j] = overlaps[j]
      BY <2>4, <1>4 DEF LoadJob, HeldElsewhere, InHand, Storing
    <3>2. Cardinality(Storing(j)') = 1
      BY <3>1, <2>3, FS_EmptySet
    <3>3. copies[j] <= Paid(j) /\ Paid(j)' = Paid(j)
      BY <1>0, <1>4, <2>1, <2>4, <3>1 DEF AccountOf, Paid
    <3> QED  BY <1>0, <2>1, <2>2, <3>2, <3>3 DEF AccountOf
  <2>5. CASE InHand(j) # {}
    <3>1. overlaps'[j] = overlaps[j] + 1
      BY <2>5, <2>1, <1>4 DEF LoadJob, HeldElsewhere, InHand, Structure, TypeOK
    <3>2. Paid(j)' = Paid(j) + 1
      BY <3>1, <2>1, <1>0 DEF Paid
    <3> QED  BY <1>0, <2>1, <2>2, <2>3, <3>2, StoringFinite DEF AccountOf
  <2> QED  BY <2>4, <2>5
<1>5. CASE ExtractText(h)
  <2>1. UNCHANGED <<status, copies, overlaps, failures, crashes>>
    BY <1>5 DEF ExtractText, Downloads, HasText
  <2>2. job[h] \in files
    BY <1>5 DEF ExtractText, Downloads, HasText, Structure, TypeOK, RunOrder, UploadOrder
  <2>3. Storing(j)' = Storing(j) /\ InHand(j)' = InHand(j)
    BY <1>5, <2>2 DEF ExtractText, Downloads, HasText, AbortRun, Storing, InHand, Structure, TypeOK
  <2> QED  BY <1>0, <2>1, <2>3, AccountKept DEF Paid
<1>6. CASE StoreDocument(h)
  <2>1. UNCHANGED <<status, job, overlaps, failures, crashes>> /\ InHand(j)' = InHand(j)
        /\ Paid(j)' = Paid(j)
    BY <1>6 DEF StoreDocument, InHand, Paid
  <2>2. CASE job[h] # j
    <3>1. Storing(j)' = Storing(j) /\ copies'[j] = copies[j]
      BY <1>6, <2>2 DEF StoreDocument, Storing, Structure, TypeOK, RunOrder
    <3> QED  BY <1>0, <2>1, <3>1, AccountKept
  <2>3. CASE job[h] = j
    <3>1. h \in Storing(j) /\ Storing(j)' = Storing(j) \ {h} /\ copies'[j] = copies[j] + 1
      BY <1>6, <2>3 DEF StoreDocument, Storing, Structure, TypeOK
    <3>2. Cardinality(Storing(j)') = Cardinality(Storing(j)) - 1
      BY <3>1, StoringFinite, FS_RemoveElement
    <3>3. h \in InHand(j)'
      BY <2>1, <2>3 DEF InHand
    <3> QED  BY <1>0, <2>1, <3>1, <3>2, <3>3, StoringFinite DEF AccountOf
  <2> QED  BY <2>2, <2>3
<1>7. CASE CommitImport(h)
  <2>1. UNCHANGED <<copies, overlaps, failures, crashes>> /\ Paid(j)' = Paid(j)
        /\ Storing(j)' = Storing(j)
    BY <1>7 DEF CommitImport, Paid, Storing, Structure, TypeOK
  <2>2. CASE job[h] # j
    <3>1. status'[j] = status[j] /\ InHand(j)' = InHand(j)
      BY <1>7, <2>2 DEF CommitImport, InHand, Structure, TypeOK
    <3> QED  BY <1>0, <2>1, <3>1, AccountKept
  <2>3. CASE job[h] = j
    <3>1. status'[j] = "Succeeded"
      BY <1>7, <2>3 DEF CommitImport, Structure, TypeOK
    <3> QED  BY <1>0, <2>1, <3>1 DEF AccountOf
  <2> QED  BY <2>2, <2>3
<1> QED  BY <1>1, <1>2, <1>3, <1>4, <1>5, <1>6, <1>7 DEF Run

\* A host that throws or dies gives its claim up, or has used it without knowing;
\* the throw or the crash pays for another.
LEMMA FailureAccounting ==
    ASSUME Structure, Structure', Accounting,
           NEW h \in Hosts, RunThrows(h) \/ Crash(h) \/ Restart(h)
    PROVE  Accounting'
<1> SUFFICES ASSUME NEW j \in Jobs \ Unreadable PROVE AccountOf(j)'
  BY DEF Accounting
<1> USE JobsAssumption
<1>0. /\ AccountOf(j) /\ Paid(j) \in Nat /\ Paid(j)' \in Nat
      /\ copies[j] \in Nat /\ copies'[j] \in Nat /\ overlaps[j] \in Nat
      /\ failures \in Nat /\ crashes \in Nat
  BY PaidType, BoundsAssumption DEF Accounting, Structure, TypeOK, Paid
<1>1. CASE Restart(h)
  <2>1. UNCHANGED <<status, copies, job, overlaps, failures, crashes>>
        /\ Storing(j)' = Storing(j) /\ InHand(j)' = InHand(j)
    BY <1>1 DEF Restart, Storing, InHand, Structure, TypeOK, RunOrder
  <2> QED  BY <1>0, <2>1, AccountKept DEF Paid
<1>2. CASE RunThrows(h) \/ Crash(h)
  <2>1. UNCHANGED overlaps /\ Paid(j)' = Paid(j) + 1 /\ UnseenEffect(h)
    BY <1>2, <1>0 DEF RunThrows, Crash, CallThrows, Paid
  <2>2. job' = [job EXCEPT ![h] = NoJob]
        /\ (pc' = [pc EXCEPT ![h] = "waiting"] \/ pc' = [pc EXCEPT ![h] = "down"])
    BY <1>2 DEF RunThrows, Crash, AbortRun
  <2>3. CASE job[h] # j
    <3>1. Storing(j)' = Storing(j) /\ InHand(j)' = InHand(j)
      BY <2>2, <2>3 DEF Storing, InHand, Structure, TypeOK
    <3>2. copies'[j] = copies[j] /\ status'[j] = status[j]
      BY <2>1, <2>3 DEF UnseenEffect, Structure, TypeOK
    <3> QED  BY <1>0, <2>1, <3>1, <3>2, AccountKept
  <2>4. CASE job[h] = j
    <3>1. Storing(j)' = Storing(j) \ {h}
      BY <2>2, <2>4 DEF Storing, Structure, TypeOK
    <3>2. CASE h \in Storing(j)
      <4>1. Cardinality(Storing(j)') = Cardinality(Storing(j)) - 1
        BY <3>1, <3>2, StoringFinite, FS_RemoveElement
      <4>2. Cardinality(Storing(j)) >= 1
        BY <3>2, StoringFinite, FS_EmptySet
      <4>3. copies'[j] <= copies[j] + 1
        BY <2>1, <2>4, <1>0 DEF UnseenEffect, Structure, TypeOK
      <4> QED  BY <1>0, <2>1, <4>1, <4>2, <4>3, StoringFinite DEF AccountOf
    <3>3. CASE h \notin Storing(j)
      <4>1. Storing(j)' = Storing(j)
        BY <3>1, <3>3
      <4>2. copies'[j] = copies[j]
        BY <2>1, <2>4, <3>3 DEF UnseenEffect, Storing, Structure, TypeOK
      <4> QED  BY <1>0, <2>1, <4>1, <4>2, StoringFinite DEF AccountOf
    <3> QED  BY <3>2, <3>3
  <2> QED  BY <2>3, <2>4
<1> QED  BY <1>1, <1>2

-----------------------------------------------------------------------------
\* The strengthened invariant holds in every reachable state.
THEOREM Invariance == Spec => []IndInv
<1>1. Init => Structure /\ Accounting
  BY InitStructure, InitAccounting
<1>2. Structure /\ Accounting /\ [Next]_vars => (Structure /\ Accounting)'
  <2> SUFFICES ASSUME Structure, Accounting, [Next]_vars PROVE Structure' /\ Accounting'
    OBVIOUS
  <2>1. Structure'
    BY NextStructure
  <2>2. CASE UNCHANGED vars
    BY <2>1, <2>2 DEF vars, Accounting, AccountOf, Storing, InHand, Paid
  <2>3. CASE Next
    BY <2>1, <2>3, RequestAccounting, RunAccounting, FailureAccounting DEF Next
  <2> QED  BY <2>1, <2>2, <2>3
<1>3. Structure /\ Accounting => IndInv
  BY DEF Structure, IndInv
<1> QED  BY <1>1, <1>2, <1>3, PTL DEF Spec

\* Every variable keeps its type.
THEOREM TypeCorrect == Spec => []TypeOK
<1>1. IndInv => TypeOK
  BY DEF IndInv
<1> QED  BY <1>1, Invariance, PTL

\* A committed row's file is in S3, whatever threw or died.
THEOREM RowsHaveFiles == Spec => []RowHasFile
<1>1. IndInv => RowHasFile
  BY DEF IndInv, UploadOrder, RowHasFile
<1> QED  BY <1>1, Invariance, PTL

\* A Succeeded document is in the index.
THEOREM SucceededAreIndexed == Spec => []SucceededIsIndexed
<1>1. IndInv => SucceededIsIndexed
  BY DEF IndInv
<1> QED  BY <1>1, Invariance, PTL

\* What the index holds belongs to a row with a readable file.
THEOREM IndexedHaveJobs == Spec => []IndexedHasJob
<1>1. IndInv => IndexedHasJob
  BY DEF IndInv
<1> QED  BY <1>1, Invariance, PTL

\* With any number of hosts, each copy beyond the first is paid for by a throw,
\* a crash or an overlap of two hosts.
THEOREM CopiesPaidFor == Spec => []CopiesArePaidFor
<1>1. IndInv => CopiesArePaidFor
  <2> SUFFICES ASSUME IndInv, NEW j \in Jobs
               PROVE  copies[j] <= 1 + overlaps[j] + failures + crashes
    BY DEF CopiesArePaidFor
  <2>1. /\ copies[j] \in Nat /\ overlaps[j] \in Nat /\ failures \in Nat /\ crashes \in Nat
    BY BoundsAssumption DEF IndInv, TypeOK
  <2>2. CASE j \in Unreadable
    BY <2>1, <2>2 DEF IndInv, IndexedHasJob
  <2>3. CASE j \notin Unreadable
    BY <2>1, <2>3, StoringFinite DEF IndInv, Accounting, AccountOf, Paid
  <2> QED  BY <2>2, <2>3
<1> QED  BY <1>1, Invariance, PTL

-----------------------------------------------------------------------------
Answered == {j \in Jobs : upload[j] = "answered"}

\* An upload step accepts a job, answers a client, or shows nothing.
LEMMA RequestRefines ==
    ASSUME Structure, NEW j \in Jobs, Request(j) \/ UploadFails(j)
    PROVE  Service!Next \/ UNCHANGED <<Answered, status, copies>>
<1> USE DEF Structure, TypeOK, UploadOrder, Answered
<1>1. CASE UploadRefused(j)
  BY <1>1 DEF UploadRefused
<1>2. CASE SaveFile(j)
  BY <1>2 DEF SaveFile
<1>3. CASE CommitUpload(j)
  <2>1. Service!Accept(j)
    BY <1>3 DEF CommitUpload, Service!Accept
  <2> QED  BY <2>1 DEF Service!Next
<1>4. CASE AnswerUpload(j)
  <2>1. Service!Answer(j)
    BY <1>4 DEF AnswerUpload, Service!Answer
  <2> QED  BY <2>1 DEF Service!Next
<1>5. CASE UploadFails(j)
  <2>1. Answered' = Answered
    BY <1>5 DEF UploadFails
  <2>2. CASE status' = status
    BY <1>5, <2>1, <2>2 DEF UploadFails
  <2>3. CASE status' # status
    <3>1. Service!Accept(j)
      BY <1>5, <2>1, <2>3 DEF UploadFails, Service!Accept
    <3> QED  BY <3>1 DEF Service!Next
  <2> QED  BY <2>2, <2>3
<1> QED  BY <1>1, <1>2, <1>3, <1>4, <1>5 DEF Request

\* A step of a run adds a copy of a job, completes one, or shows nothing; a second
\* host's commit of a job that is done already shows nothing.
LEMMA RunRefines ==
    ASSUME Structure, NEW h \in Hosts, Run(h) \/ RunThrows(h) \/ Crash(h) \/ Restart(h)
    PROVE  Service!Next \/ UNCHANGED <<Answered, status, copies>>
<1> USE JobsAssumption DEF Structure, TypeOK, RunOrder, Answered
<1>1. upload' = upload /\ Answered' = Answered
  BY DEF Run, ListJobs, LoadJob, ExtractText, Downloads, HasText, StoreDocument, CommitImport, EndRun,
         RunThrows, Crash, Restart, requestVars
<1>2. job[h] # NoJob => job[h] \in Jobs
  OBVIOUS
<1>3. CASE UNCHANGED <<status, copies>>
  BY <1>1, <1>3
<1>4. CASE pc[h] = "extracted" /\ copies' = [copies EXCEPT ![job[h]] = @ + 1]
           /\ UNCHANGED status
  <2>1. Service!Index(job[h])
    BY <1>1, <1>4 DEF Service!Index
  <2> QED  BY <1>2, <1>4, <2>1 DEF Service!Next
<1>5. CASE pc[h] = "stored" /\ status' = [status EXCEPT ![job[h]] = "Succeeded"]
           /\ UNCHANGED copies
  <2>1. CASE status[job[h]] = "Succeeded"
    BY <1>1, <1>5, <2>1
  <2>2. CASE status[job[h]] # "Succeeded"
    <3>1. status[job[h]] = "Created"
      BY <1>2, <1>5, <2>2
    <3>2. Service!Complete(job[h])
      BY <1>1, <1>5, <3>1 DEF Service!Complete
    <3> QED  BY <1>2, <1>5, <3>2 DEF Service!Next
  <2> QED  BY <2>1, <2>2
<1> QED
  BY <1>3, <1>4, <1>5
     DEF Run, ListJobs, LoadJob, ExtractText, Downloads, HasText, StoreDocument, CommitImport, EndRun,
         RunThrows, Crash, Restart, UnseenEffect

\* The pipeline implements at-least-once import.
THEOREM Refinement == Spec => ServiceSpec
<1>1. Init => Service!Init
  BY DEF Init, Service!Init
<1>2. Structure /\ [Next]_vars => [Service!Next]_<<Answered, status, copies>>
  <2> SUFFICES ASSUME Structure, [Next]_vars
               PROVE  Service!Next \/ UNCHANGED <<Answered, status, copies>>
    OBVIOUS
  <2>1. CASE UNCHANGED vars
    BY <2>1 DEF vars, Answered
  <2>2. CASE Next
    BY <2>2, RequestRefines, RunRefines DEF Next
  <2> QED  BY <2>1, <2>2
<1>3. Service!vars = <<Answered, status, copies>>
  BY DEF Service!vars, Answered
<1>4. [Service!Next]_<<Answered, status, copies>> => [Service!Next]_(Service!vars)
  BY <1>3 DEF Service!vars, Answered
<1> QED  BY <1>1, <1>2, <1>4, AlwaysStructure, PTL DEF Spec, ServiceSpec, Service!Spec
=============================================================================
