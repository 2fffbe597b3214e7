# A verification project for RAG.AI

RAG.AI (`src/RAG.AI`) is a .NET service that answers questions about uploaded
documents.  A client uploads a file; a background service on every host imports
it into a vector index; a chat request searches the index and asks a language
model.  An admin site manages lists and settings.  This directory holds TLA+
specifications of the parts of that program whose correctness depends on order,
failure and concurrency, the TLC configurations that check them, and theorems
about them that TLAPS checks.

Run everything from this directory:

    tlc -workers 2 -config ImportPipeline_two_hosts.cfg MCImportPipeline
    tlapm ImportPipelineProofs.tla

## 1. Inventory

### Parts and how they interact

    client --HTTP--> controller --Send--> ValidatorBehavior --> TransactionBehavior --> handler
                                                                   |  domain events, commit       |
                                                                   v                              v
                                                              SQL Server                    S3, Qdrant, LLM
    timer --Elapsed--> RunTask --> ExecuteAsync --Send (one command after another)--> the same pipeline

| Part | State | Operations | Depends on |
|---|---|---|---|
| Document upload (`UploadDocumentCommandHandler`, `FileSaverService`, `AwsS3Service`, `SourceController`) | a file in S3, an `ImportJob` row | refuse, save the file, insert the row, answer with `UniqueId` | order of two stores without a common transaction |
| Background import (`ProccessCreatedJobBackgroundService`, `ProcessImportJobCommandHandler`, `StoreDocumentCommandHandler`, `VectorSearchService`) | `ImportJob.Status`, points in Qdrant, the listed page of each host | list a page, check the status, download, extract, store chunks, commit | other hosts doing the same, exceptions, crashes |
| Scheduled service (`ScheduledBackgroundService`) | `_timer`, `_mediator`, the running handlers, the cancellation token | `StartAsync`, `ScheduleNextRun`, the `Elapsed` handler, `RunTask`, `StopAsync`, `Dispose` | timer and pool threads, host lifecycle |
| Command pipeline (`TranasactionBehavior`, `ValidatorBehavior`, `CommandHelper`, `AIContext`, `UnitOfWork`, `MediatorExtentions`) | `_currentTransaction`, the change tracker, `NeedCommitting`, raised domain events | begin, nest, dispatch events, commit, roll back, publish | every handler; one scope shared by several commands |
| Startup (`Program.cs`, `DataSeeder`, the migrations) | schema history, the Qdrant collection | migrate, check, create | other hosts starting at the same time |
| Operation lock (`OperationLockManager`) | one Redis key with a time to live | `IsLockedAsync`, `ReleaseLockAsync` | Redis, other hosts; excluded from the build |
| Integration events (`MediatrIntegrationEventStore`, `AIMediatrIntegrationEventService`) | events of the scope by transaction | add, publish after the commit, clear | the command pipeline, handlers of events that send commands |
| Chunks and vector index (`StoreDocumentCommandHandler`, `DocxTextExtractionStrategy`, `UpsertItems`) | chunks under construction with their running number, points in Qdrant | split into pages, chunk, embed, upsert | other hosts storing the same document, exceptions |
| Chat and search (`ChatDocumentCommandHandler`, `SearchVectorStore`, `PromptHelper`) | none | search, build the prompt, one model call | whatever imports have written by then |
| Scheduled job log (`ScheduledJobLog`, its two commands) | log rows | create, finish | used only with `needLog = true`, which no service passes |
| Status query, exception filter, caches, base types, helpers, configuration | a static counter in the filter; otherwise none | | |
| Admin list pages (`Slider/Index.cshtml` and the lists that repeat it, `loader.js`, `SliderController`) | the rows, checkboxes, dialog and spinner of each tab; requests under way | ask, confirm, dismiss, send a PATCH or DELETE, take the answer | other tabs, answers that are late or fail |
| Admin settings page (`setting.js`, `Setting/Index.cshtml`, `SettingController`) | two arrays of wages and their tables, the submit button; the saved settings | add, delete by index, send the form, save, reload | other pages, answers that are late or fail |
| The rest of the admin site, and the commands under `Compile Remove` | | do not compile against the rest | |

### What is hard in them

* **Three stores, no common transaction.**  S3, SQL Server and Qdrant are written
  one after another.  A call that throws may have taken effect; a process may die
  between any two.
* **No lock.**  The only scheduled service passes `needLock = false`, and the lock
  calls in `RunTask` are stubs, so every host lists and imports the same rows at
  the same minute.
* **One scope for many commands.**  A background run sends command after command
  through one `AIContext` and one `CommandHelper`; what one command leaves behind is
  there for the next.
* **A chain in place of a loop.**  The schedule survives only if each `Elapsed`
  handler reaches `ScheduleNextRun`, and `StopAsync` shares one field with it.  The timer
  keeps `AutoReset`, so a handler that is late can meet the next event of its own timer.
* **A field for the scope.**  `RunTask` puts the mediator of its scope into `_mediator`, and
  the `foreach` of the task reads it at each `Send`.  Two runs going at once send through the
  scope of the later one, and their commands meet in one change tracker and one transaction.
* **Publishing that calls back.**  A handler of an integration event may send commands,
  which publish and clear through the same store before the first publishing goes on.
* **No identity in the index.**  Every import makes fresh point ids, points become visible
  one after another, and nothing removes what an import that threw has left.
* **Check, then act.**  Migrations and the collection are looked up and then
  created, by hosts that are deployed together.
* **Pages that go on while they wait.**  The scripts of the admin site change the page
  before the server has, or send all of it and let it be edited meanwhile; the same page
  may be open twice.

`PROJECT.json` lists each hazard with its line and the properties that cover it.

### What makes each part correct

* Upload: no row without a file; no answer without a row.
* Import: `Succeeded` only with chunks in the index; nothing in the index without
  a readable, committed document; every duplicate has a cause; every readable job
  is imported at last.
* Scheduled service: one run in a process, sending through its own scope, and one more only
  for an event that came while another handler was using the field; never a dead chain.
* Command pipeline: all or nothing; returned means durable; thrown means nothing;
  events before the commit.  Where two runs share a scope, that still holds of each command
  that did not join the other run's transaction.
* Integration events: each event of a command that returned is published once, in order,
  after its commit, and nothing of a command that was rolled back is.
* Chunks: sorted by their numbers, the chunks of a document are its text; `Succeeded`
  means all of it, from one import.
* Chat: the prompt has five different paragraphs of the documents asked for, unless an
  import was disturbed.
* Startup: a host that serves finds both stores ready; races cost a bounded number
  of restarts and end.
* Lock: overlapping runs only after a run outlived the timeout.
* List page: a checkbox shows what the server has, except for the changes that only one of
  them knows; the spinner goes with the requests.
* Settings page: no saved row is lost that the saver could see; "success" means saved.

## 2. Modules and how they correspond to the code

`PROJECT.json` maps each definition to its lines.  A definition named
`<Action><Something>` under the comment "Mutant of <Action>" is no part of a
specification: it is a deliberately broken variant that a property must reject.

### `ImportPipeline` (with `ImportService`, `MCImportPipeline`, `ImportPipelineProofs`)

| Variable | In the program |
|---|---|
| `upload[j]` | how far the HTTP request for file `j` has got |
| `files` | objects in the bucket |
| `status[j]` | the committed `ImportJobs.Status`; `"Absent"` without a row.  `InProgress` and `Failed` are in the enumeration, but nothing on this path sets them |
| `copies[j]` | how many times the chunks of `j` are in Qdrant: point ids are fresh Guids |
| `pc[h]`, `todo[h]`, `job[h]` | the `foreach` of host `h`: where it stands, what it has not taken yet, what it has in hand |

The upload is two remote steps, `SaveFile` and `CommitUpload`; `InsertAsync` only
tracks the row, so there is no step for it.  `UploadFails` covers every exception in
between, with the effect of the failing call done or not done.  A run is `ListJobs`,
then for each job `LoadJob` (a fresh read and the `IsCreated` check), `ExtractText`,
`StoreDocument` and `CommitImport`.  Each of them may be the last of its run:
`RunThrows` leaves the `foreach` and forgets the rest of the page, as the exception
does that reaches the `catch` of `RunTask`; `Crash` does the same to the process.
`UnseenEffect` is the call that took effect although its caller never learned.

The page query has no `ORDER BY`, so which rows a page holds, and their order, is
open (`Pages`).  Every `LoadJob` reads the row again: each job is loaded once in a
scope, so the change tracker holds no older copy of it.

A host has one run at a time, with a scope of its own.  The module and its theorems say
nothing of two runs of one process, which a late timer event makes possible: those share a
scope and their commits are not independent, so they are not two hosts (see `CommandScope`).
An unseen effect takes place at once.  One that comes later still is in `DocumentSearch`.

`ImportService` is what the pipeline promises: at-least-once import.  The refinement
maps `answered` to the requests that were answered and keeps `status` and `copies`.

### `CommandScope`

One dependency-injection scope and everyone who sends commands through it: its `Owner`, the
request or run that opened it, and `Guests`, earlier runs whose `foreach` has found the mediator
of this scope in `_mediator`.  `transaction` is `AIContext._currentTransaction`, with
`"disposed"` for the one that `await using` has rolled back and nobody set to null; `tracked`
is the change tracker, `durable` the database, `raised` the domain events of tracked
aggregates.  Each sender has a command of its own under way (`pc`, `cmd`, `depth`, the events
of its dispatch round), and `begun` is the nesting depth at which it began the transaction, if
it did.

`CommandInvalid` is the exception of `ValidatorBehavior`, which runs before the transaction.
What handlers do is open: they change entities, raise events, send commands and throw
(`Change`, `Raise`, `SendNested`, `HandlerThrows`).  Every change has a name, so the properties
can tell whose it was.  The check for a transaction and its beginning are two steps, since
`BeginTransactionAsync` awaits (`BeginThrows`: somebody else was faster).  An event is raised by
an aggregate, and a round takes all events of each aggregate that has a notification among
them (`Taken`): a message taken with them is refused by MediatR and fails the command
(`DispatchThrows`).  What the handlers of integration events throw is only logged.

A sender lets each exception through and is done with its first command that throws
(`"failed"`).  Other senders go on: a guest may join the disposed transaction that the owner's
command left, and the owner the guest's, and then return although nothing was or will be
committed.  `CloseScope` is the owner's `using`; a guest that sends after it is refused.
So a command can return without being committed, in a process with a late timer event.
`JoinedAnother` names the commands to which that can happen, and the four properties hold of
all others, in whatever order the senders' steps come.  In a scope with one sender there are none
(theorem `DurabilityAlone`).

Left out: what EF Core does when two senders use one context in the same instant, other than to
refuse it; and handlers that call `SaveChanges` themselves, of which there are none in the
commands that runs send.

`Publish` sends no commands, since no code of the program adds an integration event yet;
`IntegrationEvents` shows what becomes of `OkIsDurable` when one does
(`LossNeedsFailedDelivery`).

### `IntegrationEvents`

The same scope from the commit on.  `stack` holds the commands under way, each with the
transaction it runs in and the events it still has to publish, which
`PublishEventsThroughEventAsync` reads once, before its loop.  While an event is being
delivered its handlers may add events and send commands, which go on top of the stack;
when they throw, the loop goes on.  `current` is `AIContext._currentTransaction` again, and
keeps the disposed transaction of a command whose handler threw.
`ClearTransactionEvents` keeps the events it should remove and removes all others.  The scope
has one sender, its owner.

### `DocumentSearch` (with `ImportService`, `MCDocumentSearch`, `DocumentSearchProofs`)

`entries` is the text of each document, split at blank lines, and `Pages` what
`RemoveEmptyEntries` keeps of it (`KeptEntries`); `chunks`, `pageIndex` and
`bookIndex` are the locals of `StoreDocumentCommandHandler`, `points` the collection.
`Upsert` sends the points of a document, `Land` makes one visible, so a search sees any
part of a document that is being stored.  When an upsert throws, or its host dies, Qdrant may
still carry it out: the points it has not stored are `stray` and may land at any later time,
one by one, or never (`LandStray`).  `copy` stands for the fresh Guids.  A search
changes nothing and is an operator, `SearchVectorStore(D)`: the scores depend on the text,
so it may return any five matching points; `ChatDocument(D)` is what reaches the prompt.
`disturbed` is a history variable, for the properties only.

The module takes steps of `ImportService` only (`ImplementsImport`), under a mapping that
counts as copies of a document those whose points are its whole text (`WholeCopies`).
That is what entitles `ImportPipeline` to store a document in one step: seen through whole
copies, the points that land one after another add one copy with the last of them, and an
import that breaks off adds one only if its stray points complete it.

### `ScheduledService`

`timer` is the field `_timer` and `spent` says that the timer in it is disposed; `armed` are the
timers that will fire (a `Timer` keeps `AutoReset`), `subs` who has subscribed a handler to
which timer, `mediator` the field `_mediator`, `pc[t]` the handler on pool thread `t`.
`cancelled` is the token given to `StartAsync`: the host links it to its own stop only until
startup is over, so it is not cancelled by a later shutdown.

A handler is a step for each use of a shared field: `DisposeTimer`, `ResetTimer`, `UseScope`
(`RunTask` assigns `_mediator`), `TaskEnds`, then the three uses that `ScheduleNextRun` makes of
the field, `BuildTimer`, `Subscribe` and `StartTimer`.  In between, another handler may replace
the timer, so that one is subscribed to twice and another never; reset the field, which ends the
process with a `NullReferenceException` out of an `async void` handler (`MeetNull`); or dispose
it, so that `Start` refuses (`StartDisposed`).  The handlers of a timer that has two are called
one after another on one thread, the second when the first awaits (`due`, `GoOnAs`).  `StartAsync`
is one step: the timer it builds is known to nobody else until it is started.

A handler is *late* when it is called while another is between two uses of the field, or is
called for the same event as another, or when a timer is built while another is on its way to
the field.  The interval reaches to the next cron time, which a clock read just before it puts
a millisecond away, so a starved pool is enough.  `late` counts these for the properties,
up to `MaxLate`.  An event that is queued when its timer is stopped or disposed is dropped by the
timer's own check, so `Fire` needs an armed timer.

With a late handler two runs can be going.  Then the earlier one finds the later one's mediator
in the field: `SendsThroughOwnScope` says that nothing else brings that about, and `CommandScope`
what becomes of the commands.  Runs also share the query service that was injected into the
background service: two listings at once may be refused by its context, and then the task throws,
which `TaskEnds` allows.

### `OperationLock`

The Redis protocol as `OperationLockManager` states it, with `RunTask` around it:
`GETSET`, then `EXPIRE`, then the task, then `DEL`.  The class is excluded from the
build (`Compile Remove`); the module shows what restoring it would bring.

### `Startup`

`Database.Migrate()` lists the pending migrations once and applies each in its own
transaction; EF Core 8 takes no lock.  `DataSeeder` asks whether the collection
exists and creates it if not.  Whoever comes second throws out of `Main`, and the
process is started again by what deployed it.

### `ListPage` (with `MCListPage`, `ListPageProofs`)

The script of a list page, as `Slider/Index.cshtml` states it; the other lists differ in
the rows they show.  `checked[t]`, `rows[t]`, `dialog[t]` and `loader[t]` are what tab `t`
shows, with the closure of an open question in `dialog`; `request` is every PATCH and
DELETE sent, `exists` and `active` what the server has.  The box has changed when the
question is asked (`Change`), a dismissed question puts it back (`Dismissed`), an error
does not (`Fail`).  `Apply` is the server: it may come before or after the page has given
up on the request, or not at all.  The PATCH carries no value, so the handler, which is not
in the repository, is taken as a flip.

`Fire` shows a message in place of whatever dialog is open.  The pages load
`sweetalert2@11` without a release: a recent one resolves the replaced question as
dismissed, the 11.6.5 under `wwwroot/util` never resolves it (`Abandon`); both are in the
model.  The spinner stops the mouse and not the keyboard, so a second change may be sent
while a first is under way.

### `WageSettings` (with `MCWageSettings`, `WageSettingsProofs`)

`wages[p]` holds the two arrays of `setting.js`, `table[p]` the rows as rendered, each with
a delete button that has its index; `FormKeys` are the keys of the form, one per index from
0, `Bind` the binder that reads them up to the first gap.  `Submit` takes a snapshot and
disables the submit button until `Succeed` or `Fail`; the buttons of the rows stay enabled.
`Save` replaces the server's lists, possibly after the page has given up.  `shown`,
`deleted`, `everSaved`, `unseen`, `last`, `told` and `edited` are history.  A row is its
identity: adding the same three numbers again makes another row.

### How the modules fit together

`ScheduledService` shows that one process has at most one run, plus one for each late event
(`RunsPayForLateness`), has one again and again (`RunsAgain`), and that a run has a scope of its
own until an event is late (`SendsThroughOwnScope`).  `ImportPipeline` gives each host one
run and its `Run(h)` weak fairness on the strength of that; it is about processes without late
events.  Two runs of one process share a scope and are the business of `CommandScope` with
`Guests`, where the exception to `OkIsDurable` shows that `CommitImport` would then not be
the commit it is in `ImportPipeline`.
With one sender, `CommandScope` shows that a command's changes reach the database together or not
at all and only when the outermost command commits; `IntegrationEvents` refines what it takes as one
step, the publishing after the commit; `ImportPipeline` lets `CommitUpload` and
`CommitImport` change `status` in one step on the strength of that, the nested
`StoreDocumentCommand` included.  `ImportPipeline` and `DocumentSearch` both implement
`ImportService`, the first from requests, runs and failures, the second from points.
`Startup` ends where the other modules begin.  The admin pages stand apart: their server
side is not in the repository.

## 3. Runs

| Run | Question | Bounds, and why they are enough |
|---|---|---|
| `import_two_hosts` | Do the three stores stay in order, are duplicates accounted for, does the pipeline implement `ImportService`? | 2 jobs, 2 hosts, 2 throws, 1 crash: a stale second host, a throw after the effect on both sides of the commit, and a crash meet each other.  Hosts and jobs are interchangeable, so both are symmetric |
| `import_live` | What can keep a readable job waiting, and can anything be found that should not be? | 2 readable jobs, an unreadable one and a refused one, page of 2, 2 hosts that abort each other's runs, one crash; no symmetry.  Nobody has to upload the unreadable file, so the behaviours in which all files are readable are included, and in them every job is imported |
| `command_scope` | Atomicity, durability, rollback, event rounds, and what is left of them when an overtaken run sends through the scope of the later one | the owner and one guest, 3 commands between them, one level of nesting, 2 interchangeable aggregates, 4 units of work: raise, nested command in an event handler, raise again, second round; a transaction left disposed by one sender, joined by the other, and a command after it; a nested command that outlives the transaction it joined.  The behaviours in which the guest sends nothing are those of a scope with one sender |
| `integration_events` | Once, in order, only after the commit, all of it | 4 commands, 3 inside one another, 4 events: a publishing that is interrupted by one that is interrupted, with two events each |
| `document_search` | What do a search and a prompt contain, during and after imports that overlap and throw, and does the numbering survive blank entries and pages of several paragraphs? | every 2 documents of up to 2 entries and up to 2 paragraphs each, 3 paragraphs in all, 2 runs, one throw, a search for 2 points: more points than a search returns, and a second page after one of two paragraphs.  Documents and runs are symmetric |
| `scheduled_service` | Two runs and a shared scope only for a late event, never a dead chain, and does the task run again and again? | 3 threads, 3 timers, 2 late handlers: two chains, and a handler that is late for one of them; no symmetry.  `RunsAgain` is about at most one late handler, since it says nothing once the bound is met |
| `scheduled_interval` | Does the guard against non-positive delays hold? (violation) | 1 thread |
| `operation_lock` | Overlap only after overruns | 4 hosts, 2 overruns: the overtaken run, the overtaker, who its `DEL` lets in, and one more |
| `operation_lock_timeout` | Is the lock always released at the timeout? (violation) | 2 hosts, one crash, no overrun needed |
| `list_page` | When do a checkbox and the server disagree, and does the spinner stay or go too early? | 2 tabs, 2 rows, 3 requests: two changes under way with a delete whose answer replaces a question |
| `wage_settings` | Which saved rows can get lost, and what does "success" mean? | 2 pages, 2 lists, 3 rows, 2 PUTs, one reload: a form that is late behind another, and a page that has rows the other lacks.  Rows, lists and pages are symmetric |
| `startup` | Ready when serving, bounded losses, all serve | 3 hosts, 2 migrations, any prior state of the stores |

All bounds on failures, crashes and overruns are CONSTANTS that the theorems leave
arbitrary.  Deadlock is checked except where the system really stops: a closed scope,
an exited process, all hosts serving, all documents imported, an admin who has added all
rows and sent all forms.

### Fairness

`ImportPipeline` and `OperationLock` assume that a step that stays possible is taken
(the cron expression fires each minute, a remote call returns or throws), and that a
dead process is started again.  `ScheduledService` assumes that timers fire, pool
threads run what is queued, and tasks end.  `Startup` assumes that startups go on and
are repeated.  No fairness makes a client upload, a call throw or a process die, and
none makes a call succeed that can only fail; throws and crashes stop by their bounds,
which stands for the assumption that faults do not go on for ever.

### Findings

* `ScheduleNextRun` (`ScheduledBackgroundService.cs:133`) calls itself for a delay
  that is not positive "to prevent non-positive values from being passed into Timer",
  but does not return afterwards: the delay still reaches the constructor, which
  throws, and the process ends.  Run `scheduled_interval`.
* The lock is not released "automatically" at the timeout
  (`ScheduledBackgroundService.cs:21`) if a host dies between `GETSET` and `EXPIRE`, or
  if another host's `GETSET` drops the time to live.  Run `operation_lock_timeout`.

Some limits of the program are shown by properties that hold:

* `OnlyUnreadableStarves`: in a finite queue an unreadable file can starve the others, and
  nothing else can.  Nothing is said of uploads that never cease: a page has no `ORDER BY`, so
  SQL Server may go on listing newer rows, and no model with finitely many jobs shows that.
* `DispatchedBeforeCommit`: for which commands of a scope domain events are certain to be
  dispatched.  For the others they may be left behind: `NeedCommitting` starts true once per
  scope, and events that an event handler raises outside a command do not set it.
* `LossNeedsFailedDelivery`: a command can be answered without being committed, because it
  met the disposed transaction of another; that takes a handler of an integration event
  whose command has thrown before, in the same scope.
* `RunsPayForLateness`, `CrashHasACause`: a handler that is late for its own timer's next
  event can double the chain of runs or end the process, and nothing else can, apart from the
  delay of `scheduled_interval`.
* `SendsThroughOwnScope`, `OkIsDurable` with `Guests`: after such an event the runs share a scope,
  and a command of one can join the other's transaction, live or left behind disposed, and
  return uncommitted; and no other command can.
* A `StopAsync` during a run finds a null field and stops nothing: the run goes on and schedules
  the next.  Nothing promises otherwise, and no property says so.
* `BoxDriftsByUnsharedChanges`: an error without effect, a change in another tab or a
  question that a message replaced leaves a checkbox opposite to the server, and since the
  PATCH only flips, every later change keeps it so until the page is loaded again.
* `LostRowsWereUnseen`: the settings page saves all it has over all there is, and a page
  that was loaded before another's save loses the other's rows without notice.
* `PartsAreDisturbed`, `RepeatsAreDisturbed`: what an import that threw has stored stays, and
  a search may return a paragraph twice; an undisturbed document is free of both.

## 4. Proofs

The theorems hold for every value of the constants, under the named assumptions of the
modules: finite sets of jobs and hosts where cardinalities are used, natural bounds,
and null values that are not members.

* **`ImportPipelineProofs`.**  `IndInv` is inductive.  `RowHasFile`,
  `SucceededIsIndexed` and `IndexedHasJob` need to know what each unfinished upload
  (`UploadOrder`) and run (`RunOrder`) has done so far.  `CopiesArePaidFor` needs more:
  `Accounting` counts the copies stored together with those on their way.  While `n`
  hosts may still store a job, `copies + n` is at most one more than the overlaps,
  throws and crashes so far; while the job is Created and in nobody's hand, `copies`
  itself is within them, so the next load is free.  Each step then moves one unit or
  pays for it.  The proof has two halves, `NextStructure` and the three `...Accounting`
  lemmas, and `Refinement` follows from the invariant step by step.
* **`CommandScopeProofs`.**  For any number of guests.  `ScopeInv`: one sender at most holds the
  transaction (`HoldInv`); the changes of a command that joined none are together, committed,
  tracked or lost (`Together`), and what has been written by one under way is not committed yet
  (`Unsaved`); what a command that threw has left in the tracker is safe behind the disposed
  transaction, since nobody can begin another (`Settled`).  A sender that is alone meets no
  transaction but its own (`AloneInv`), from which `DurabilityAlone` follows: without guests
  `OkIsDurable` has no exception.  `Dispatch` rests on an invariant of its own about
  `needCommitting`.
* **`IntegrationEventsProofs`.**  `PublishedOnce`, `OnlyCommittedPublished` and
  `PublishedInOrder` are inductive together with `Nested`, that only the innermost command
  is before its commit and commands are numbered from the outside in, and with
  `PendingIsNew`, that what a command has yet to publish is its own and comes after all of
  its own that is published.  The lemmas `BelowKeeps` and `ReplaceTop` say what popping and
  replacing the innermost command leave alone.  `OkIsPublished` needs more, `LossInv`: before
  its commit a command that began a transaction has all its events in the store, because
  nobody clears the store while it is innermost; after it each of them is published or
  listed in its own frame, where no clearing reaches.  `GoOnKeepsLoss` and `PopKeepsLoss`
  prove the two ways in which the stack changes once for all actions.
  `LossIsCaused` rests on `LeftByThrow`: a transaction that nobody handles under any more
  and that is still in the context was left there by a command that threw, and a command
  that joined one comes after a command that an event handler sent and that threw.
* **`ScheduledServiceProofs`.**  Without late events the chain is a baton (`Baton`): an armed
  timer or one handler holds it, and that handler has the field and the mediator to itself
  (`OwnScope`); `Field` is what the field holds at any time, `Phases` what is left of the chain
  in each phase of the host.  With late events the baton can be doubled, and the proof counts:
  subscriptions to timers that will fire (`Live`), handlers that have taken the chain from a timer
  and not given it to the next (`Past`), and `Credit`, the chains that handlers on their way to
  the field can still add, one less if the next of them takes the chain of the field or finds
  it null (`Covered`).  `Paid` says that the three together are at most one more than the
  late events: each late event buys one unit, and no other step gains any.
* **`DocumentSearchProofs`.**  First the text.  `Split` without its empty entries is a
  recursive function over the entries (`KeptEntries`), so what the pages hold needs an
  induction.  The library's induction theorems take an operator as a parameter, which
  the provers cannot instantiate; here the property is a set of numbers (`Induction`), and a
  least counterexample exists because strict inclusion between finite sets is well-founded
  (`LeastNumber`).  `TextByPages` then says that the pages, in turn, have exactly the
  paragraphs of `Text`, and `BeforeInPage` how many precede each.

  `CopyInv`: imports under way have copies of their own
  (`Numbered`), a copy has each place of the text once (`OncePerCopy`, from `OwnChunks`), and
  whatever puts a second copy beside a first has disturbed the document (`Overlaps`, from
  `Accounted`).  Two points with one place are then of two copies, which is what `Repeats`
  says, for any numbers of documents, runs and points.

  Stray points belong to copies of imports that threw, so of disturbed documents, and a point
  that lands late is one that was sent and is not there yet (`Strays`, `StrayStore`).

  `StoreInv` says which text is there when.  `Progress`: an import has numbered exactly the
  pages it is through with, and its chunks and its points together are their text, all of it
  from the upsert on.  `Numbering`: a chunk has its right number when it is made, hence
  a point (`ReadingOrder`).  `Done`: a document that succeeded undisturbed is there as a
  whole, and nobody imports it.  `PartsAreDisturbed` and `CleanChatIsFull` follow, the
  latter with `CopyInv`, which keeps a paragraph from being counted twice; and so does
  `Implements`: the one step that completes a copy is the landing of its last point
  (`LandServes`), and `Succeeded` is set after it (`LeaveServes`).
* **`WageSettingsProofs`.**  `FormInv` says of which rows a form is the form: its keys are
  those of some lists (`Form`), whose rows its page had shown and has not deleted
  (`RowsAreShown`).  `BindKeys` says that the server's binder gives these lists back, in
  their order, because keys numbered from 0 have no gap.  A save then loses only rows
  that were deleted or that the page of the form never showed (`LostRows`).  For `Success`,
  the form a page was told of is the form of its rows until they are edited
  (`FormsAreFresh`), and what the server has is the form saved last (`LastIsSaved`).
* **`ListPageProofs`.**  `Loader` is inductive with the types.  For `BoxDrifts` an open
  question must hold the box as it now is (`ClosureIsFresh`); then each step either changes
  the box or the server together with the number of unshared changes by one, or leaves the
  parity of both alone (`AccountStep`).
* **`HostsProofs`**, about `OperationLock` and `Startup`, whose names are disjoint.  `Covered`:
  each run is covered by the key or by an overrun.  `ListedLosses`: a host has lost no step
  that its own list or check still found missing.

Each of these modules also proves the type invariants of its components (`TypeCorrect`,
`StartupTypeCorrect`).  So every invariant that a passing run checks is proved for all values
of the constants, and so is each refinement.

Only liveness under fairness is left to TLC (`OnlyUnreadableStarves`, `RunsAgain`,
`EventuallyServing`): fairness is defined by `ENABLED`, about which the version of the proof
system used here cannot reason.

## 5. What is not modelled

* The scheduled job log: only `needLog = true` uses it, and no service passes it.  The first
  line that `RunTask` would then run calls a method of `_mediator`, which is set further
  down, so nothing behind it could run either.
* The exception filter: its counter labels log lines and nothing depends on it; two
  requests that fail at once can get the same label.
* The caches and HTTP helpers, which nothing calls; base types, text and date helpers and
  configuration without state.
* What paragraphs the text chunker makes of a page: their number is an input.
* The embedding and the scores: which matching points a search returns is open.
* `ClearCollection`, which has no caller, and the bus counterparts of the integration
  events, whose one call is commented out.
* The read-only connection string, which asks for a readable secondary: the listing is
  modelled as reading what is committed.  A lagging listing would show fewer or older
  rows, and `LoadJob` reads the primary again.
* Files under `Compile Remove`, and the admin site apart from its list and settings pages:
  its controllers send commands and queries (`EditSettingCommand`,
  `ChangeSliderDisplayStatusCommand` and others) that are not in the repository, and its
  other pages are forms sent once.
* The scripts under `wwwroot/lib`, `wwwroot/adminAssets` and `wwwroot/util` except `loader.js`:
  jQuery, Bootstrap, CKEditor, bootstrap-select, gmaps, dropify, the toast plugin, and a theme
  with its demo pages.  They are third-party code that was copied in, and almost all the
  JavaScript of the repository; the program's own is `setting.js`, `loader.js` and what the
  views contain.  The rest of the program is C#.
* The message of a save that failed: the error handler of the settings page
  (`Setting/Index.cshtml:293`) reads a name that does not exist and throws, so none is shown;
  no state depends on it.

## 6. Plan

Done, in this order: the import pipeline and its abstract service; the command scope;
the scheduled service; the operation lock; the startup; integration events; chunks and
search; late timer events; the refinement of `ImportService` by `DocumentSearch`; the list
and settings pages of the admin site; proofs about all of them.

What could still be added:

1. Status polling: what a client sees of a job from upload to `Succeeded`.
2. A composition of `ScheduledService`, `CommandScope` and `ImportPipeline`, in which two runs of
   one process list jobs and import them through one scope: what the exception to `OkIsDurable`
   means for `Status`, for jobs that a run takes for imported and for copies in the index.
3. The Persian text and date helpers, as functions against a reference, should a caller
   of them come back into the build.
