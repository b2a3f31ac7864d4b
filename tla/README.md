# A verification project for the Combadge agent control layer

The repository is a small daemon that delegates coding tasks to a hosted-agent
provider: it starts a session per approved task, polls it, cancels it, collects
its output, publishes the output on GitHub and announces the result, across
lost answers, outages and restarts. These modules model its control flow, TLC
checks them on small instances and TLAPS proves their safety properties for
every size. Paths below are relative to the repository (`src/combadge/...`).

## The system

| Component | State | Operations | Interacts with |
|---|---|---|---|
| Store, `store.py` | SQLite tables `tasks`, `remote_work` (the journal of provider sessions), `confirmations`, `notifications`, `publish_jobs`, `events`; one process lock | one `BEGIN IMMEDIATE` transaction per method | called by every thread |
| AgentService, `service.py` | `reconcile_lock`; nothing else in memory | prepare/confirm of start, cancel, publish; `steer`; `status`, `list_tasks`; `reconcile`, `_cleanup_remote`; `recover`; `_capture`; `cleanup` | store, provider client, publisher, artifact directory |
| AgentsClient, `agents.py` | none | create, get, list, steer, cancel, delete, download; SSE and pagination; `terminal_result` | the provider (external) |
| Publisher, `github.py` | its lock; the phase in `publish_jobs` | `publish`, resumable after every request | store, GitHub (external) |
| Daemon, `daemon.py` | `Monitor.streams`; socket and pid file | `Monitor.tick` every ten seconds, one handler thread per connection, `serve` | the service |
| Delivery, `live.py` | `delivered_at` | speak, then acknowledge, one by one | store |
| Command line, `cli.py` | pid file | start, stop, status | the daemon process |
| Artifacts, `artifacts.py` | none | safe extraction, manifest validation, selection of publishable files | called by capture and publish |
| Front ends, `app.py`, `web.py`, `client.py`, `delegation.py` | none | routing to the service's operations | the service |
| Configuration, `config.py`; release tool, `tools/publish_release.py` | none | environment, file modes; an operator's use of Publisher | |

What is hard here:

* *Concurrency.* Socket and web handlers run in a thread each, beside the
  monitor. Only `reconcile` has a lock of its own; everything else is
  serialised per store transaction, so a handler that reads a row, calls the
  provider and writes what it read works with stale values
  (`confirm_cancel`, the deadline branch of `_reconcile`, `recover`).
* *Lost answers.* A create request may take effect long after the client gave
  up. The daemon must neither repeat it nor forget it: the journal row is the
  reservation, and `recover` discovers the session by its metadata.
* *Crashes.* Every transaction boundary is a place where the daemon may stop;
  only the database, the artifact directory, the provider and GitHub remain.
* *Retention.* Tasks are deleted while their sessions, publications and
  directories may still exist.
* *Time.* Approvals expire, deadlines pass, and an answer may come just after.
* *Limits.* Downloads and archives are bounded in size and count, entry by
  entry; what is rejected must leave nothing behind, what fits must not be cut.
* *Processes.* Several `start` commands and daemons may run at once, with only
  a port, a socket and a pid file between them.

What makes each component correct:

* control: no session is lost from the journal, the provider never holds more
  sessions than `max_active`, every task gets one verdict, output and
  announcement belong to it, sessions are cancelled and deleted only with cause,
  and in the end all of them go and their slots come back;
* publication: one commit per job in a repository the job created, nothing of
  others overwritten, and every approved job completed and announced;
* output: what is downloaded is whole, what is accepted is safe and complete,
  what is published is the output and nothing secret, and it goes after
  retention;
* delivery: no announcement lost, at most the one in flight repeated, in order;
  consumers of activity run as long as their task does;
* life cycle: a daemon that serves can be reached and stopped, `start` tells
  the truth and brings one up.

## The modules

| Module | Models | Lines of code it stands for |
|---|---|---|
| `Store` | the tables of the control layer and each method as one atomic operator | `store.py` 13-49, 74, 97-135, 157-183, 219-228 |
| `Provider` | the sessions at the provider, the requests on them, `terminal_result` | `agents.py` 48-88, 106-131; the provider itself is external |
| `AgentService` | the service's threads over the two | `service.py` 39-109, 128-191, 202-230, `daemon.py` 49-68 |
| `AgentServiceProofs` | theorems about `AgentService` | |
| `RemoteSlots` | abstract: what `remote_work` promises, a slot per session | `store.py` 46-48, 103-126 |
| `RemoteSlotsProofs` | `AgentService` implements `RemoteSlots` | |
| `Publication` | `publish_jobs`, the publisher, its two callers, GitHub | `github.py` 26-53, 61-135, `service.py` 111-126, 192-200, `store.py` 185-217 |
| `Output` | one task's output from the listing of artifacts to the published tree and its removal | `service.py` 202-217, 227-230, `artifacts.py` 29-70, 92-107, `agents.py` 94-117, `github.py` 70-135 |
| `Reporting` | announcements and their delivery, activity streams and their consumers | `live.py`, `store.py` 34-43, 152-164, 185-196, `daemon.py` 33-68, `agents.py` 17-33 |
| `Lifecycle` | daemons, `start` and `stop` as processes | `daemon.py` 71-102, `cli.py` 15-58 |
| `VerdictProofs` | the verdicts of `AgentService`: theorems, after `AgentServiceProofs` | |
| `SessionProofs` | what `AgentService` does to sessions: theorems, after `VerdictProofs` | |
| `PublicationProofs`, `OutputProofs`, `ReportingProofs`, `LifecycleProofs` | theorems about the module each is named for | |
| `MCAgentService`, `MCPublication`, `MCOutput`, `MCReporting`, `MCLifecycle` | instances for TLC | |

### State and actions

`AgentService` EXTENDS `Store` and INSTANCEs `Provider`. A step is one store
transaction or one provider request. The threads have program counters:

* `start[t]`: the handler of `confirm_start` for task t. `ConfirmStart` is
  `reserve_start`; `StartPost` sends the request; the answer is a creation
  (`StartCreated`, then `StartAttach`), a rejection (`StartRejected`,
  `StartFail`, `StartRelease`: lines 71-73), or uncertain (`StartUncertain`:
  the handler ends and the reservation stays).
* `cancel[c]`: handlers of `confirm_cancel`, with the session id they read at
  line 103 (`CancelRead`, `CancelMark`, `CancelQueue`, `CancelCall`).
* `steer`: handlers between the check and the request (`Steer`, `SteerSend`).
* `rec`: whoever holds `reconcile_lock`, with the columns of the task row it
  read (`ReconcileBegin` to `ReconcileFinish`, then `CleanupRead` to
  `CleanupClear` for `_cleanup_remote`). Any thread may begin it for any task
  at any time the lock is free, which covers `status`, `list_tasks`, `recover`
  and the monitor's fallback loop.
* `mon`: the monitor thread. `RecoverPending` takes the snapshot of the
  journal, `RecoverList` matches the listing with it, `RecoverVisit` and the
  actions after it attach or adopt one session at a time; then `CleanupRows`
  and `CleanupTree` are `cleanup`.

Requests that fail, or succeed with their answer lost, crashes and sessions
dropped by the provider count as faults. A listing that fails does not: it may
fail in every tick (`RecoverList`). Abstractions: a session id is a
BOOLEAN, since the id of a task's only session is determined by the task; the
listing is read at once, where the code fetches a page, visits its sessions and
fetches the next (a page that fails later is the second disjunct of
`RecoverDone`); the history of a session is the status of its last turn; time
is two events, `DeadlinePasses` and the retention deadline, which may be any
time after the verdict. Prompts, summaries and activity are left out; `_capture`
is one step that creates the files, one that may fail, and one that records the
manifest.

`status` takes any task id, and `prepare_start` hands one out before the start
is confirmed: `ReconcileBegin` has no guard on that. A reconciliation that found
no task row, because there was none yet, may go on when the task has been
started, take its journal row for leftover work and delete the running session
(service.py:133, 163-172). The field `early` of `rec` records that a
reconciliation began so; it is history, read by no action. `Early(t)` is the
exception in `NoUnrequestedCancel`, `VerdictBeforeDelete` and
`DeletedOnlyWhenDone`; TLC finds each of them violated without it. It is never
true of the monitor's own reconciliations, since a task has a journal row only
once its approval is used.

`RemoteSlots` says what a caller of the store relies on: which tasks hold a slot
(`held`) and whether the session of each is new, asked for, live or over
(`life`). A slot is reserved, within `max_active`, before the session is asked
for, and released only when there can be no session any more; rows that come
back late cost a slot only of sessions that are over. Its mapping in
`AgentService` takes `held` from `remote_work` and `life` from the provider; all
the threads, their stale reads and the crashes map to its six actions or to
stuttering.

`Publication` has the holder of `Publisher.lock` (`pub`, with the row it read),
the callers waiting for it (`calls`), and the publications returned but not yet
announced (`returned`). A commit is the sequence of the authors of its history,
which is what the deterministic object id of `commit_sha` identifies. Blobs and
trees are objects nobody can observe and leave only the phase behind; the
default branch and its head are read in one step; an approval is not modelled
again (`ConfirmPublish` may happen at any time, any number of times). Validation
(`Begin`) refuses the output of a task in `Blocked` in every attempt, and may
fail for others as a request does.

`Output` opens what `AgentService` and `Publication` take as one step. `cap` is
the holder of `reconcile_lock` in `_capture`: `ListPage` reads one page,
`ReadSource` and `ReadManifest` make one turn of the download loop with sizes
counted in units, `CheckOutput` runs the loops of `extract_source` over the
entries as folds (`ZipEntry` and `TarEntry` with their different rules for
counting), `WriteFile` writes the next file (`written` is the place in the
archive of the last one), and `Verdict` records the outcome;
`CaptureFails` and `Crash` break it off anywhere and it starts over in the
directory that is there. `pub` is the holder of `Publisher.lock`: `PubRead`
looks at one file of `publishable_files`, and the journaled commit fixes the
tree as in `Publication`. `Expire` and `Sweep` are `cleanup`, one removed file
or directory at a time, beside a publication in progress. `Steer` replaces the
offered output once. Abstracted: a path is outside `Paths` when `_safe_name`
rejects it, directories are one level deep, a text matches the secret pattern
or does not, a manifest is valid or not, every page that says there are more has
a cursor, and a download that was cut off is a malformed archive or manifest
(the directory of a zip is at its end, a compressed tar has a checksum, JSON
has its closing brace; an uncompressed tar cut between two entries would be
accepted by the code).

`Reporting` has the rows of `notifications` by id, with the id AUTOINCREMENT
gives next, one delivering client between its transactions, and the consumer
thread of each task between reading the status and adding the event.
`Disconnect` is the end of a stream, with the event of the exception or not.
`IterSse` is `iter_sse` as a fold over lines, against the definition `EventsOf`
by blocks. The ids a client has read are a set, since the query orders them and
`Speak` takes the lowest; the history `heard` has the ids spoken and `repeats`
counts how often one of them was spoken again.

`Lifecycle` has each process in its place in `serve` (`After` is the order of
the steps up to `serving`, `Leave` the finally clause), the holder of the port,
who made the socket file and whose pid is in the pid file. A killed process
loses its port and leaves the files; its pid may go to another program
(`GivePid`). The commands check, spawn and wait (`StartCheck`, `StartSpawn`,
`StartReady`, `StartGivesUp`); `Stop` is SIGTERM, which kills without the
finally clause since nobody handles it. `config.initialize` and the missing-key
check of `start` are left out.

## The runs

| Run | Instance | Shows |
|---|---|---|
| `Control` | 1 task, 1 cancelling thread, 2 faults | `TypeOK`, `NoOrphanSession`, `CompletedHasOutput`, `FinishedIsAnnounced`, `NoUnrequestedCancel`, `VerdictBeforeDelete`, `DeletedOnlyWhenDone`, and the refinement `ImplementsRemoteSlots` |
| `Capacity` | 2 tasks, 1 slot, 1 fault | `WithinCapacity` |
| `Retirement` | 1 task, 1 cancelling thread, 1 fault, fair, a listing that works again and again | `LiveSessionsGo` |
| `Slots` | 1 task, 1 fault, steering, no cancellation, a listing that may be down for good, fair | `SlotsComeBack`, `DeadlineEnforced`, `DeletedOnlyWhenDone` |
| `Publish` | 3 jobs for 1 repository, one of them blocked, 2 faults, 1 act of others, fair | `TypeOK`, `OneCommit`, `CompleteIsPublished`, `OnlyOwnRepositories`, `BranchOnlyGrows`, `PublicationCompletes` |
| `Capture` | 13 outputs at, within and past the limits, one steer message, 2 faults | `TypeOK`, `DownloadWhole`, `VerdictFits`, `PublishedWhole`, `CheckedFirst`, `SourceIsArchive`, `DirectoryGoes` |
| `Report` | 2 tasks, one published, 2 broken deliveries, streams of up to 5 lines | `TypeOK`, `AckedWasSpoken`, `OneRepeatPerFailure`, `SpokenInOrder`, `NoEventsOfDeleted`, `SseFaithful`, `AllAnnounced`, `Watched`, `ConsumersEnd` |
| `Lifecycle` | 3 processes, 2 start commands, 2 signals or crashes | `TypeOK`, `ServingIsReachable`, `StartedIsServing`, `StartBringsUp` |

The other runs reproduce disagreements between the code and what its documents
and comments say of it:

| Run | Violated | How |
|---|---|---|
| `ViolTerminal` | `TerminalIsFinal` | `confirm_cancel` checks the status (service.py:103) and writes `cancelling` (105) in two transactions; a verdict in between is overwritten |
| `ViolSlot` | `SlotsComeBack` | its `queue_cleanup` (106) may also come after `clear_remote`: the row comes back without a session and holds its slot for ever |
| `ViolOutage` | `KnownSessionCleanup` | the session id read at 103 or 133 may be older than `attach_session`: the upsert erases the id, and while the listing is down nothing restores it |
| `ViolStart` | `StartEnsuresDaemon` | `_pid` asks only whether some process has the pid (cli.py:18): after a daemon was killed and its pid given to another program, `start` reports success and no daemon runs |

Weaknesses met while modelling that have no run of their own; the properties
that come near them state the exception:

* `cleanup` deletes rows before directories (service.py:228-230): after a crash
  or a failing `rmtree` a directory stays for ever (`DirectoryGoes`).
* A publication that outlives the retention of its task reads a tree that is
  being removed and commits a part of it (`PublishedWhole`).
* `status` of a task id whose start is being confirmed may read no row
  (service.py:133), then the new journal row (163), and delete the running
  session (`VerdictBeforeDelete`, `DeletedOnlyWhenDone`), or cancel it when a
  stale snapshot of `recover` has marked it (`NoUnrequestedCancel`). Its row is
  cleared, and since the monitor goes by the journal, not by active tasks
  (service.py:188), the task stays running until someone asks for its status
  past its deadline (`DeadlineEnforced`).
* A steer message accepted while the turn ends begins another turn, which is
  deleted with the session (`DeletedOnlyWhenDone` excepts reopened sessions).
* A publication whose output is refused by validation, in which there is a
  recognisable credential or nothing to publish (github.py:77-78), stays
  prepared and is tried again in every tick, until its task is deleted
  (`PublicationCompletes` excepts the tasks in `Blocked`).
* A crash between the update of the branch and the journal (github.py:133-134),
  then a push by others: every retry is refused and the publication never
  recorded (`PublicationCompletes`).
* A crash between the phase `complete` and `notify` (service.py:124-125): the
  publication is never announced (`AllAnnounced` starts from the row).
* A daemon that takes the port of one that is leaving loses its socket and pid
  file to it (daemon.py:101-102; `ServingIsReachable`).

### Bounds

Tasks interact only through the journal's count, `reconcile_lock` and the
monitor, so one task shows the interleavings of its own handlers and two tasks
with one slot show the competition. One cancelling thread is enough for stale
writes, because it can stop anywhere while the others go on. One fault allows a
crash, a lost answer or a dropped session at every point, and a second one in
`Control` a fault during the recovery from the first; approvals, ticks,
reconciliations and retries are unbounded. Two jobs for one repository show the
collision, two faults a crash during the recovery from a crash; the third job,
of a task in `Blocked`, takes its turns at the publisher and never gets past
validation.

In `Capture` a read takes two units and the limits are five and two, so that a
download ends within a read, at the limit, and past it in its last read; with
three files at most there is an archive below, at and above each limit in the
format where its rule differs. Two faults break off a capture or publication
and its repetition. In `Report` two tasks with three announcements give one to
be read, one acknowledged and one inserted after a deletion; one event per task
shows the limit as well as 200; five lines make two events with a blank line
between and a broken-off end. In `Lifecycle` a third process comes up after two
have failed, and two commands race.

The constraints `NoSteering` and `NoCancelling` leave out parts a question does
not depend on; `OutageFairSpec` and `QuietFairSpec` do so for liveness, where a
constraint would not be sound. A steer message changes nothing but the session,
which it may reopen after its turn: `Slots` includes it, without cancelling
threads; `Control` has those, and no reopened sessions. `LateFairSpec` of
`ViolSlot` also leaves out early reconciliations, so that what it shows has no
other cause. Symmetry is used in `Capacity` only, which checks no liveness.
`Publish`, `Capture`, `Report` and the two runs of `Lifecycle` disable the
deadlock check: when every task is past its retention, or every process has
ended, there is nothing left to do. The outcomes explored per run are those that
lead to different branches: `completed` is captured, all others are recorded
alike.

### Fairness

Handlers run on, since every request has a timeout (`agents.py:49`,
`github.py:49`): weak fairness on each. The monitor ticks for ever, whatever
raises (`daemon.py:64-68`): weak fairness on `Monitor`. For each journal row the
tick waits for `reconcile_lock`, which others hold for a bounded time only:
strong fairness on `MonitorReconcile(t)`, and likewise on `Begin(j)` for
`Publisher.lock`. Deadlines pass, and a turn that was asked to cancel ends.
In `Output` a removal goes on unless it fails. In `Reporting` deliveries are
made again and again by the assistant, the monitor ticks, and a consumer gets
an event or its read ends (`agents.py:49`, which also bounds each read). In
`Lifecycle` a process that is coming up or leaving runs on, and so does a
command that is about to spawn. Nothing is assumed of create requests, of turns
that are not cancelled, of users, of retention, or of faults not happening;
faults are finitely many.

The listing of sessions may be down for good in `Slots` and `ViolOutage`:
deadlines and the cleanup of known sessions must not depend on it
(`daemon.py:52`). What became of a create request without an answer is known
from the listing only, so `Retirement` assumes that it works again and again
(`ListingWorks`); so does `ViolSlot`, to show that the slot is lost all the same.

## The proofs

`AgentServiceProofs` proves, for any finite set of tasks, any set of cancelling
threads and any number of faults:

* `TypeCorrect`: `Spec => []TypeOK`;
* `NoOrphans`: `Spec => []NoOrphanSession`;
* `Capacity`: `Spec => []WithinCapacity`;
* `KnownSessionsCorrect`: `Spec => []IndInv`, from which the last two follow.

`NoOrphanSession` alone is not inductive: `clear_remote` removes a row, and the
step is harmless only because the session is gone or was refused. `IndInv` adds
why: before the approval is used nothing exists (`UnsentStart`), the slot is
given back by `confirm_start` only after a rejection (`RejectedStart`), and
every session id in a table, in a handler, in the holder of the lock or in the
monitor's snapshot is that of a session that has existed (`KnownSessions`), so
that the 404 on which `_cleanup_remote` clears a row means that the session is
gone. The argument goes by three lemmas on single steps: `RemoteSteps` (how a
session may change), `RowSteps` (when a row may go, where ids come from) and
`StartSteps` (how a start handler moves); then one lemma per thread that holds
ids. `WithinCapacity` follows because an occupying task is in the journal and
only `ConfirmStart`, which needs a free slot, makes a task occupying. The
assumptions are `StoreAssumption` and `ServiceAssumption`.

`RemoteSlotsProofs` proves `Implementation`: `Spec => ImplementsRemoteSlots`,
for the same instances. Under the mapping every step of `AgentService` is one
of the six actions of `RemoteSlots` or changes nothing. That needs more than
`IndInv`: a journal row may come back after it was cleared (`Retake`), and this
must be a row of a session that is over, not of one that is still to be asked
for. The strengthening `SlotInv` adds that whatever can lead to such a write, a
task row, an approval to cancel, a cancelling thread or the holder of the lock,
is only there for a task whose slot has been taken before.

`VerdictProofs` proves, for the same instances, `Announced`
(`Spec => []FinishedIsAnnounced`) and `CompletedKept`
(`Spec => []CompletedHasOutput`), both from `VerdictsCorrect`
(`Spec => []VerdictInv`). Its central lemma, `RowLives`, says what a step of any
thread may do to the row of a task: keep it, make it, change it without a
verdict, finish it or delete it. `CompletedHasOutput` is not inductive: the
verdict is written several steps after the capture, and the monitor removes
directories after the rows. `VerdictInv` adds that a task has no row before its
approval is used and that an approval is used once, so that a deleted task never
comes back (`FreshRows`); that the reconciliation works on a task whose approval
has been used (`SpentRec`); that what it captured is still there when it writes
the verdict, unless the task was deleted (`CapturedRec`); and that directories
are swept only of tasks gone for ever (`SweptRows`).

`LifecycleProofs` proves, for any processes, commands and number of faults,
`TypeCorrect`, `Reachable` (`Spec => []ServingIsReachable`) and
`StartTellsTruth` (`Spec => StartedIsServing`). `ServingIsReachable` holds
because the port keeps daemons apart: `IndInv` says that who is past the step
that makes a file has made the file there is (`Owned`), that nobody is about to
remove files while the port is held (`NobodyRemoves`), and that the pid in the
file is that of a process that has come up (`PidOfDaemon`). The assumption is
`LifecycleAssumption`.

`SessionProofs` proves three action properties of `AgentService`, from
`SessionsCorrect` (`Spec => []SessionInv`): `CancelsRequested` (no session is
cancelled while its task is waited for), `VerdictFirst` (none is deleted before
the verdict is recorded) and `DoneBeforeDelete` (none is deleted in a turn that
no steer message began). What a deleting thread knows is old: it holds a session
id and a cancel flag read several steps before. `SessionInv` adds to the
invariants above what stays true meanwhile: a task with a retention deadline is
never waited for again (`RetiredRows`), whoever is about to cancel a session has
recorded it (`SettledCancel`, `SettledRec`), and the journal row of a judged
task says to cancel first, unless the turn has ended or there is no session
(`SafeRows`, `SafeRec`). The lemmas `TurnSteps` and `FlagSteps` say how a step
may change a session and that flag. None of them assumes anything of when
`status` is called: the theorems are about the properties with the exception
`Early(t)`, and the invariant carries it from the step that found no row to the
one that cancels or deletes.

`PublicationProofs` proves, for any jobs, tasks and repositories, any number of
faults and of acts of others: `TypeCorrect`, `OnlyOneCommit`,
`CompleteIsOnBranch`, `OwnRepositories` and `NothingOverwritten`
(`Spec => BranchOnlyGrows`), from `RowsAndBranches` (`Spec => []IndInv`). Each
attempt goes by the journal row it has read, so `IndInv` says what a row may be
trusted for (`RowOK`): past the creation the repository is the job's own; the
payload, once there, is a commit of this job on a history without commits of
jobs; and a commit of a job on the branch means that the payload is journaled and
a prefix of the branch. The last is why a retry cannot commit twice. The
publisher's copy of the row is the one in the table unless the task has been
deleted (`PubOK`). The assumption is `PublicationAssumption`.

`OutputProofs` proves, for any paths, texts and outputs of sessions, of any
size, any limits and any number of faults, all safety properties of `Output`:
`TypeCorrect`, `WholeDownloads`, `FittingVerdicts`, `WholePublications`,
`ChecksComeFirst` (`Spec => CheckedFirst`) and `SourceHasArchive`
(`Spec => SourceIsArchive`), from `OutputsCorrect` (`Spec => []IndInv`). Three
parts of it carry the argument. `PassesIsSafe` says that the loops over a zip and
a tar, with their different counters and orders of tests, let an archive through
exactly if it is `Safe`; `Captured` and `Downloaded` keep what was found until the
verdict. `InPlace` and `OnlyArchive` say that the files written so far are there,
the last of each path with its text, in directories, and that nothing else is;
the first depends on the archive being written and the second does not, which is
what survives a crash. So when the last file is written the directory is the
tree of the archive and no file was in the way of another (`AllInPlace`,
`TreeInPlace`), and a clash shows that the archive could not be accepted
(`FailuresFit`). `Reading` and `Published` relate what the publisher has yet to
look at, has read, journaled and committed to what is due of that tree; they
need `Retained`, that only the directory of a deleted task shrinks. The
assumption is `OutputAssumption`: paths are at most two levels deep, texts are
none of the marks of the model, limits are positive.

`ReportingProofs` proves, for any number of tasks, any limit of events and any
number of failures, `TypeCorrect`, `NoneLost`, `InOrder`, `RepeatsForFailures`
and `DeletedStayEmpty`, from `ReportsCorrect` (`Spec => []IndInv`).
`AckedWasSpoken` and `SpokenInOrder` need that ids are never given twice
(`Counted`: as many as tasks have ended and publications were told, so that they
stay within `Ids`) and that what was recorded before an announcement a client
still holds is held too or has been heard (`HeldInOrder`). `OneRepeatPerFailure`
needs the announcements that are going to be repeated: for each of them a
failure has been counted (`OwedForFailures`). The assumption is
`ReportingAssumption`.

The prover has no induction over data that takes a predicate. Where a proof needs
one, `SetInduction` and the least element of a set of numbers (`WFMin`) stand in
for it: `ZipFold`, `TarFold` and `SizeFold` unfold a fold over an archive of any
length into the sequence of its intermediate results, and `MinMax` gives the
least and greatest of a bounded set.

The inductive invariants were checked by TLC on the instances of the runs before
they were proved.

Only model-checked: `SseFaithful`, because its definition by blocks selects and
sorts subsequences, of which the provers know nothing, and all liveness
(`LiveSessionsGo`, `SlotsComeBack`, `DeadlineEnforced`, `PublicationCompletes`,
`DirectoryGoes`, `AllAnnounced`, `Watched`, `ConsumersEnd`, `StartBringsUp`),
which with fairness and ENABLED is out of the prover's reach.

## Not modelled, and the plan

Next, in this order:

1. Two daemons on one database: what the second one's `recover` may do before
   it fails to bind the port (`daemon.py:83-87`), and the two files that
   `config.initialize` may write twice (`config.py:65`).
2. That the publisher of `Output` and `Publication` take the same phases, as a
   refinement of a job that both implement.

Left out: two clients that deliver announcements at once (both speak them;
nothing in the code prevents it), the reading of the artifacts for display, and
the listing of expired tasks. Left out for good: rendering and routing of the
front ends, which keep no state; HTTP details; environment variables and file
modes; the patterns that recognise credentials; the release tool, whose use of
`Publisher` is covered by `Publication` and which is run by hand, once, on a
database of its own (its job key does not depend on the content, so that a
changed release is not published again under the same name).
