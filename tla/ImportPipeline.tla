--------------------------- MODULE ImportPipeline ---------------------------
(***************************************************************************)
(* The document import pipeline: an upload request saves a file in S3 and  *)
(* then commits an ImportJob row; every host runs a background service     *)
(* that lists Created jobs each minute and imports them one after another, *)
(* writing the chunks to Qdrant and then committing the status Succeeded.  *)
(*                                                                         *)
(* S3, Qdrant and SQL Server are three stores with no common transaction.  *)
(* A remote call that throws may or may not have taken effect, a host may  *)
(* crash between two calls, and no lock keeps two hosts off the same job   *)
(* (ProccessCreatedJobBackgroundService passes needLock = false).          *)
(*                                                                         *)
(* A host has one run at a time.  Two runs of one process, which a late    *)
(* timer event makes possible (ScheduledService), share a scope, so their  *)
(* commits are not independent (CommandScope): they are not two hosts.     *)
(***************************************************************************)
EXTENDS Integers, FiniteSets

CONSTANTS
    Jobs,         \* upload requests; a request has one file and at most one ImportJob
    Hosts,        \* processes that run Presenter.API with its hosted services
    Refused,      \* requests whose file is missing or longer than 4 096 000 bytes
    Unreadable,   \* files whose download is empty or whose text extraction always throws
    PageSize,     \* maxPageSize of BaseQueryService.GetAllAsync, 20 in the code
    NoJob,        \* "this host is importing no job"
    MaxFailures,  \* bound: calls that throw
    MaxCrashes    \* bound: processes that die

ASSUME JobsAssumption == IsFiniteSet(Jobs) /\ NoJob \notin Jobs
ASSUME HostsAssumption == IsFiniteSet(Hosts)
ASSUME InputAssumption == Refused \subseteq Jobs /\ Unreadable \subseteq Jobs
ASSUME BoundsAssumption ==
    PageSize \in Nat \ {0} /\ MaxFailures \in Nat /\ MaxCrashes \in Nat

VARIABLES
    upload,      \* upload[j]: where the HTTP request that uploads j stands
    files,       \* S3: the requests whose file is in the bucket
    status,      \* SQL Server: the committed Status of j's row, "Absent" if none
    copies,      \* Qdrant: how many times j's chunks were stored (fresh point ids each time)
    pc,          \* pc[h]: where the run of host h stands
    todo,        \* todo[h]: listed jobs the foreach has not taken yet
    job,         \* job[h]: the job host h is importing
    overlaps,    \* history: loads of a readable j while another host had j in hand
    failures,    \* calls that have thrown so far
    crashes      \* processes that have died so far

requestVars == <<upload, files>>
runVars == <<pc, todo, job>>
vars == <<upload, files, status, copies, pc, todo, job, overlaps, failures, crashes>>

UploadStates == {"new", "saved", "committed", "answered", "failed"}
Statuses == {"Absent", "Created", "Succeeded"}
RunStates == {"waiting", "foreach", "loaded", "extracted", "stored", "down"}

TypeOK ==
    /\ upload \in [Jobs -> UploadStates]
    /\ files \subseteq Jobs
    /\ status \in [Jobs -> Statuses]
    /\ copies \in [Jobs -> Nat]
    /\ pc \in [Hosts -> RunStates]
    /\ todo \in [Hosts -> SUBSET Jobs]
    /\ job \in [Hosts -> Jobs \cup {NoJob}]
    /\ overlaps \in [Jobs -> Nat]
    /\ failures \in 0..MaxFailures
    /\ crashes \in 0..MaxCrashes

Init ==
    /\ upload = [j \in Jobs |-> "new"]
    /\ files = {}
    /\ status = [j \in Jobs |-> "Absent"]
    /\ copies = [j \in Jobs |-> 0]
    /\ pc = [h \in Hosts |-> "waiting"]
    /\ todo = [h \in Hosts |-> {}]
    /\ job = [h \in Hosts |-> NoJob]
    /\ overlaps = [j \in Jobs |-> 0]
    /\ failures = 0
    /\ crashes = 0

\* Mutant of CreatedJobs: the query lost its filter.
CreatedJobsUnfiltered == {j \in Jobs : status[j] # "Absent"}

CreatedJobs == {j \in Jobs : status[j] = "Created"}

CallThrows == failures < MaxFailures /\ failures' = failures + 1

(***************************************************************************)
(* The upload request.  Its crash is UploadFails: a request shares no      *)
(* memory with the background run, so losing one is losing it alone.       *)
(***************************************************************************)
UploadRefused(j) ==
    /\ upload[j] = "new"
    /\ j \in Refused
    /\ upload' = [upload EXCEPT ![j] = "failed"]
    /\ UNCHANGED <<files, status, copies, runVars, overlaps, failures, crashes>>

SaveFile(j) ==
    /\ upload[j] = "new"
    /\ j \notin Refused
    /\ upload' = [upload EXCEPT ![j] = "saved"]
    /\ files' = files \cup {j}
    /\ UNCHANGED <<status, copies, runVars, overlaps, failures, crashes>>

\* Mutants of CommitUpload: the row is written before the file is saved; a retry
\* writes it again; it starts in a state that nothing imports.
CommitUploadUnsaved(j) ==
    /\ upload[j] \in {"new", "saved"}
    /\ upload' = [upload EXCEPT ![j] = "committed"]
    /\ status' = [status EXCEPT ![j] = "Created"]
    /\ UNCHANGED <<files, copies, runVars, overlaps, failures, crashes>>

CommitUploadInProgress(j) ==
    /\ upload[j] = "saved"
    /\ upload' = [upload EXCEPT ![j] = "committed"]
    /\ status' = [status EXCEPT ![j] = "InProgress"]
    /\ UNCHANGED <<files, copies, runVars, overlaps, failures, crashes>>

\* The insert only tracks the new row: the pipeline's commit writes it.
CommitUpload(j) ==
    /\ upload[j] = "saved"
    /\ upload' = [upload EXCEPT ![j] = "committed"]
    /\ status' = [status EXCEPT ![j] = "Created"]
    /\ UNCHANGED <<files, copies, runVars, overlaps, failures, crashes>>

\* Mutant of AnswerUpload: the handler's UniqueId is returned before the commit.
AnswerUploadEarly(j) ==
    /\ upload[j] \in {"saved", "committed"}
    /\ upload' = [upload EXCEPT ![j] = "answered"]
    /\ UNCHANGED <<files, status, copies, runVars, overlaps, failures, crashes>>

AnswerUpload(j) ==
    /\ upload[j] = "committed"
    /\ upload' = [upload EXCEPT ![j] = "answered"]
    /\ UNCHANGED <<files, status, copies, runVars, overlaps, failures, crashes>>

\* S3, the database or the connection to the client fails, before or after the
\* call that fails took effect.
UploadFails(j) ==
    /\ CallThrows
    /\ upload[j] \in {"new", "saved", "committed"}
    /\ upload' = [upload EXCEPT ![j] = "failed"]
    /\ \/ UNCHANGED <<files, status>>
       \/ /\ upload[j] = "new" /\ j \notin Refused
          /\ files' = files \cup {j}
          /\ UNCHANGED status
       \/ /\ upload[j] = "saved"
          /\ status' = [status EXCEPT ![j] = "Created"]
          /\ UNCHANGED files
    /\ UNCHANGED <<copies, runVars, overlaps, crashes>>

(***************************************************************************)
(* The background run of one host.                                         *)
(***************************************************************************)

\* A page of GetAllAsync: PageSize matching rows, or all of them if fewer.  The
\* query has no ORDER BY, so which rows, and in which order, is left open: todo
\* is a set, and the foreach takes any member next.
Pages(S) ==
    {P \in SUBSET S : \/ Cardinality(P) = PageSize
                      \/ P = S /\ Cardinality(S) < PageSize}

ListJobs(h) ==
    /\ pc[h] = "waiting"
    /\ \E P \in Pages(CreatedJobs) : todo' = [todo EXCEPT ![h] = P]
    /\ pc' = [pc EXCEPT ![h] = "foreach"]
    /\ UNCHANGED <<requestVars, status, copies, job, overlaps, failures, crashes>>

\* An exception leaves the foreach: RunTask logs it and the service waits for
\* the next minute.  What was still to do is forgotten.
AbortRun(h) ==
    /\ pc' = [pc EXCEPT ![h] = "waiting"]
    /\ todo' = [todo EXCEPT ![h] = {}]
    /\ job' = [job EXCEPT ![h] = NoJob]

\* j is in hand on a host other than h.
HeldElsewhere(h, j) == \E g \in Hosts \ {h} : job[g] = j

\* Mutant of LoadJob: the listed status is trusted and the row not checked again.
LoadJobUnchecked(h, j) ==
    /\ pc[h] = "foreach"
    /\ j \in todo[h]
    /\ pc' = [pc EXCEPT ![h] = "loaded"]
    /\ todo' = [todo EXCEPT ![h] = @ \ {j}]
    /\ job' = [job EXCEPT ![h] = j]
    /\ overlaps' = IF HeldElsewhere(h, j) /\ j \notin Unreadable
                     THEN [overlaps EXCEPT ![j] = @ + 1]
                     ELSE overlaps
    /\ UNCHANGED <<requestVars, status, copies, failures, crashes>>

LoadJob(h, j) ==
    /\ pc[h] = "foreach"
    /\ j \in todo[h]
    /\ IF status[j] = "Created"
         THEN /\ pc' = [pc EXCEPT ![h] = "loaded"]
              /\ todo' = [todo EXCEPT ![h] = @ \ {j}]
              /\ job' = [job EXCEPT ![h] = j]
              /\ overlaps' = IF HeldElsewhere(h, j) /\ j \notin Unreadable
                               THEN [overlaps EXCEPT ![j] = @ + 1]
                               ELSE overlaps
         ELSE AbortRun(h) /\ UNCHANGED overlaps
    /\ UNCHANGED <<requestVars, status, copies, failures, crashes>>

\* DownloadFileAsync throws for an object that is not in the bucket.
Downloads(j) == j \in files

\* Only a .docx has an extraction strategy, and only a well-formed one text.
HasText(j) == j \notin Unreadable

\* Mutant of ExtractText: a file without text is stored all the same.
ExtractTextAnyway(h) ==
    /\ pc[h] = "loaded"
    /\ pc' = [pc EXCEPT ![h] = "extracted"]
    /\ UNCHANGED <<requestVars, status, copies, todo, job, overlaps, failures, crashes>>

ExtractText(h) ==
    /\ pc[h] = "loaded"
    /\ IF Downloads(job[h]) /\ HasText(job[h])
         THEN pc' = [pc EXCEPT ![h] = "extracted"] /\ UNCHANGED <<todo, job>>
         ELSE AbortRun(h)
    /\ UNCHANGED <<requestVars, status, copies, overlaps, failures, crashes>>

\* StoreDocumentCommand, sent inside ProcessImportJobCommand: the chunks get new
\* Guids, so storing them again adds a copy and replaces nothing.
StoreDocument(h) ==
    /\ pc[h] = "extracted"
    /\ copies' = [copies EXCEPT ![job[h]] = @ + 1]
    /\ pc' = [pc EXCEPT ![h] = "stored"]
    /\ UNCHANGED <<requestVars, status, todo, job, overlaps, failures, crashes>>

\* The commit writes the tracked status with no check of what the row holds.
CommitImport(h) ==
    /\ pc[h] = "stored"
    /\ status' = [status EXCEPT ![job[h]] = "Succeeded"]
    /\ pc' = [pc EXCEPT ![h] = "foreach"]
    /\ job' = [job EXCEPT ![h] = NoJob]
    /\ UNCHANGED <<requestVars, copies, todo, overlaps, failures, crashes>>

EndRun(h) ==
    /\ pc[h] = "foreach"
    /\ todo[h] = {}
    /\ pc' = [pc EXCEPT ![h] = "waiting"]
    /\ UNCHANGED <<requestVars, status, copies, todo, job, overlaps, failures, crashes>>

\* The last remote call of host h takes effect although its caller never learns.
UnseenEffect(h) ==
    \/ UNCHANGED <<status, copies>>
    \/ /\ pc[h] = "extracted"
       /\ copies' = [copies EXCEPT ![job[h]] = @ + 1]
       /\ UNCHANGED status
    \/ /\ pc[h] = "stored"
       /\ status' = [status EXCEPT ![job[h]] = "Succeeded"]
       /\ UNCHANGED copies

RunThrows(h) ==
    /\ pc[h] \in {"foreach", "loaded", "extracted", "stored"}
    /\ pc[h] = "foreach" => todo[h] # {}
    /\ CallThrows
    /\ UnseenEffect(h)
    /\ AbortRun(h)
    /\ UNCHANGED <<requestVars, overlaps, crashes>>

Crash(h) ==
    /\ pc[h] # "down"
    /\ crashes < MaxCrashes
    /\ crashes' = crashes + 1
    /\ UnseenEffect(h)
    /\ pc' = [pc EXCEPT ![h] = "down"]
    /\ todo' = [todo EXCEPT ![h] = {}]
    /\ job' = [job EXCEPT ![h] = NoJob]
    /\ UNCHANGED <<requestVars, overlaps, failures>>

Restart(h) ==
    /\ pc[h] = "down"
    /\ pc' = [pc EXCEPT ![h] = "waiting"]
    /\ UNCHANGED <<requestVars, status, copies, todo, job, overlaps, failures, crashes>>

Request(j) ==
    \/ UploadRefused(j) \/ SaveFile(j) \/ CommitUpload(j) \/ AnswerUpload(j)

Run(h) ==
    \/ ListJobs(h)
    \/ \E j \in Jobs : LoadJob(h, j)
    \/ ExtractText(h) \/ StoreDocument(h) \/ CommitImport(h) \/ EndRun(h)

Next ==
    \/ \E j \in Jobs : Request(j) \/ UploadFails(j)
    \/ \E h \in Hosts : Run(h) \/ RunThrows(h) \/ Crash(h) \/ Restart(h)

Spec == Init /\ [][Next]_vars

\* The timer fires again each minute, a remote call returns or throws, and a
\* dead process is started again by what deployed it.  Nothing makes a call
\* throw or a process die, and nothing makes a client upload.
Fairness == \A h \in Hosts : WF_vars(Run(h)) /\ WF_vars(Restart(h))

FairSpec == Spec /\ Fairness

-----------------------------------------------------------------------------
(***************************************************************************)
(* What must hold.                                                         *)
(***************************************************************************)

\* A row never points at a file that is not in S3: the upload saves the file
\* before it commits the row, whatever throws in between.
RowHasFile == \A j \in Jobs : status[j] # "Absent" => j \in files

\* Succeeded means searchable: the chunks are in Qdrant before the status is
\* committed, across throws, crashes and a second host's stale commit.
SucceededIsIndexed == \A j \in Jobs : status[j] = "Succeeded" => copies[j] > 0

\* Every point a search can return belongs to a committed row whose file is in
\* S3 and readable: nothing rejected or half uploaded is ever answered from.
IndexedHasJob ==
    \A j \in Jobs : copies[j] > 0 => status[j] # "Absent" /\ j \in files \ Unreadable

\* Duplicates are paid for: each copy of a document beyond the first goes back to
\* a call that threw, a process that died, or a load made while another host
\* had the job in hand.  One host without failures indexes exactly once.
CopiesArePaidFor ==
    \A j \in Jobs : copies[j] <= 1 + overlaps[j] + failures + crashes

\* Every queued job whose file is readable is imported at last, with one exception.  A
\* run dies with its first exception, so an unreadable file can keep others waiting
\* for ever: a job that is not imported sees hosts take one up again and again.  Jobs is
\* finite: a page has no ORDER BY, so nothing is said of uploads that never cease.
OnlyUnreadableStarves ==
    \A j \in Jobs \ Unreadable :
        status[j] = "Created" ~> \/ status[j] = "Succeeded"
                                \/ \E h \in Hosts : job[h] \in Unreadable

-----------------------------------------------------------------------------
(***************************************************************************)
(* The inductive invariant behind the safety properties.                   *)
(***************************************************************************)
Working == {"loaded", "extracted", "stored"}

\* What an upload has done so far, store by store.
UploadOrder ==
    \A j \in Jobs :
        /\ upload[j] \in {"new", "saved"} => status[j] = "Absent"
        /\ upload[j] \in {"saved", "committed", "answered"} => j \in files
        /\ upload[j] \in {"committed", "answered"} => status[j] # "Absent"
        /\ status[j] # "Absent" => j \in files

\* What the run of a host has done so far for the job it has in hand.
RunOrder ==
    \A h \in Hosts :
        /\ job[h] # NoJob <=> pc[h] \in Working
        /\ \A j \in todo[h] \cup {job[h]} : j # NoJob => status[j] # "Absent"
        /\ pc[h] \in {"extracted", "stored"} => job[h] \in files \ Unreadable
        /\ pc[h] = "stored" => copies[job[h]] > 0

\* The hosts that may still store j; all hosts that have j in hand.
Storing(j) == {h \in Hosts : job[h] = j /\ pc[h] \in {"loaded", "extracted"}}
InHand(j) == {h \in Hosts : job[h] = j}

\* The copies stored and those on their way are within what has been paid for;
\* once nobody has an unfinished job in hand, one more copy is free.
Paid(j) == overlaps[j] + failures + crashes

AccountOf(j) ==
    /\ copies[j] + Cardinality(Storing(j)) <= 1 + Paid(j)
    /\ status[j] = "Created" /\ InHand(j) = {} => copies[j] <= Paid(j)

Accounting == \A j \in Jobs \ Unreadable : AccountOf(j)

\* The safety properties, strengthened until every step preserves them.
IndInv ==
    /\ TypeOK
    /\ UploadOrder
    /\ RunOrder
    /\ SucceededIsIndexed
    /\ IndexedHasJob
    /\ Accounting

-----------------------------------------------------------------------------
\* What the pipeline promises to the rest of the system.
Service == INSTANCE ImportService WITH answered <- {j \in Jobs : upload[j] = "answered"}
ServiceSpec == Service!Spec
=============================================================================
