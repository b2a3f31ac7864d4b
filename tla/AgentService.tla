---------------------------- MODULE AgentService ----------------------------
(***************************************************************************)
(* The control layer of src/combadge/service.py, running in the threads of *)
(* src/combadge/daemon.py over the journal (Store) and the provider        *)
(* (Provider).  A step is one store transaction or one provider request:   *)
(* between two steps of a handler any other thread may take its own.       *)
(*                                                                         *)
(* Threads and their program counters:                                     *)
(*   start    one confirm_start handler per task (its approval is single   *)
(*            use);                                                        *)
(*   cancel   the confirm_cancel handlers, one per member of Cancellers;   *)
(*   steer    steer handlers between their check and their request;        *)
(*   rec      the holder of reconcile_lock, whichever thread that is;      *)
(*   mon      the monitor thread: recover, then cleanup, in each tick.     *)
(* A crash stops all of them at once; only the store, the artifact         *)
(* directory and the provider survive.                                     *)
(***************************************************************************)
EXTENDS Store

CONSTANTS
    Cancellers,   \* request threads that may run confirm_cancel
    Outcomes,     \* see Provider
    Nobody,       \* no task: the value of an idle thread's task field
    MaxFaults     \* bound on failed or half-failed calls, drops and crashes;
                  \* failures of the session listing are not counted

ASSUME ServiceAssumption ==
    /\ Nobody \notin Tasks
    /\ MaxFaults \in Nat
    /\ Outcomes \subseteq {"completed", "failed", "cancelled", "expired"}

VARIABLES
    remote, reopened,   \* the provider, see Provider
    start, cancel, steer, rec, mon,
    overdue,            \* tasks whose deadline has passed
    artifacts,          \* tasks that have a directory under artifact_dir
    faults              \* faults so far

INSTANCE Provider WITH Sessions <- Tasks

providerVars == <<remote, reopened>>
threadVars == <<start, cancel, steer, rec, mon>>
vars == <<storeVars, providerVars, threadVars, overdue, artifacts, faults>>

NoCancel == [pc |-> "idle", task |-> Nobody, session |-> FALSE]
NoRec == [pc |-> "idle", task |-> Nobody, session |-> FALSE, result |-> "none", early |-> FALSE]
MonIdle == [pc |-> "recover", todo |-> {}, task |-> Nobody, known |-> FALSE]

CancelTypeOK ==
    /\ cancel \in [Cancellers -> [pc: {"idle", "read", "mark", "queue", "call"},
                                  task: Tasks \cup {Nobody}, session: BOOLEAN]]
    /\ \A c \in Cancellers : cancel[c].pc # "idle" => cancel[c].task \in Tasks

RecTypeOK ==
    /\ rec \in [pc: {"idle", "cancel", "poll", "capture", "manifest", "queue", "finish",
                     "journal", "stop", "check", "delete", "clear"},
                task: Tasks \cup {Nobody}, session: BOOLEAN,
                result: Terminal \cup {"none"}, early: BOOLEAN]
    /\ rec.pc # "idle" => rec.task \in Tasks
    /\ rec.pc \in {"capture", "manifest", "queue", "finish"} => rec.result # "none"

MonTypeOK ==
    /\ mon \in [pc: {"recover", "list", "visit", "attach", "adopt", "record",
                     "cleanup", "sweep"},
                todo: SUBSET Tasks, task: Tasks \cup {Nobody}, known: BOOLEAN]
    /\ mon.pc \in {"attach", "adopt", "record"} => mon.task \in Tasks

TypeOK ==
    /\ StoreTypeOK
    /\ ProviderTypeOK
    /\ start \in [Tasks -> {"idle", "post", "wait", "attach", "reject", "release"}]
    /\ CancelTypeOK
    /\ steer \subseteq Tasks
    /\ RecTypeOK
    /\ MonTypeOK
    /\ overdue \subseteq Tasks
    /\ artifacts \subseteq Tasks
    /\ faults \in 0..MaxFaults

Init ==
    /\ StoreInit
    /\ ProviderInit
    /\ start = [t \in Tasks |-> "idle"]
    /\ cancel = [c \in Cancellers |-> NoCancel]
    /\ steer = {}
    /\ rec = NoRec
    /\ mon = MonIdle
    /\ overdue = {}
    /\ artifacts = {}
    /\ faults = 0

\* A request that fails, or that succeeds with its answer lost.
Fault == faults < MaxFaults /\ faults' = faults + 1
NoFault == UNCHANGED faults

-----------------------------------------------------------------------------
(* Approvals.                                                              *)

PrepareStart(t) ==
    /\ confirmations["start"][t] = "none"
    /\ Cardinality(Journalled) < MaxActive
    /\ create_confirmation("start", t)
    /\ UNCHANGED <<tasks, remote_work, notifications>>
    /\ UNCHANGED <<providerVars, threadVars, overdue, artifacts, faults>>

PrepareCancel(t) ==
    /\ tasks[t].status \in {"creating", "running"}
    /\ create_confirmation("cancel", t)
    /\ UNCHANGED <<tasks, remote_work, notifications>>
    /\ UNCHANGED <<providerVars, threadVars, overdue, artifacts, faults>>

\* Sixty seconds pass: an unused approval can no longer be consumed.
ApprovalExpires(action, t) ==
    /\ consume_confirmation(action, t)
    /\ UNCHANGED <<tasks, remote_work, notifications>>
    /\ UNCHANGED <<providerVars, threadVars, overdue, artifacts, faults>>

-----------------------------------------------------------------------------
(* confirm_start.                                                          *)

StartAt(t, from, to) ==
    /\ start[t] = from
    /\ start' = [start EXCEPT ![t] = to]
    /\ UNCHANGED <<cancel, steer, rec, mon, overdue, artifacts, faults>>

ConfirmStart(t) ==
    /\ StartAt(t, "idle", "post")
    /\ reserve_start(t)
    /\ UNCHANGED providerVars

StartPost(t) ==
    /\ StartAt(t, "post", "wait")
    /\ CreateSent(t)
    /\ UNCHANGED storeVars

StartCreated(t) ==
    /\ StartAt(t, "wait", "attach")
    /\ remote[t] \in Live \cup Gone
    /\ UNCHANGED <<storeVars, providerVars>>

\* Mutant: any failure of the create request counts as a rejection.
AnyFailureRejects(t) ==
    /\ StartAt(t, "wait", "reject")
    /\ UNCHANGED <<storeVars, providerVars>>

StartRejected(t) ==
    /\ StartAt(t, "wait", "reject")
    /\ remote[t] = "rejected"
    /\ UNCHANGED <<storeVars, providerVars>>

\* Any other failure: the reservation is kept and nothing is sent again.
StartUncertain(t) ==
    /\ StartAt(t, "wait", "idle")
    /\ UNCHANGED <<storeVars, providerVars>>

StartAttach(t) ==
    /\ StartAt(t, "attach", "idle")
    /\ attach_session(t)
    /\ UNCHANGED providerVars

StartFail(t) ==
    /\ StartAt(t, "reject", "release")
    /\ finish_task(t, "failed")
    /\ UNCHANGED providerVars

StartRelease(t) ==
    /\ StartAt(t, "release", "idle")
    /\ clear_remote(t)
    /\ UNCHANGED providerVars

StartThread(t) ==
    \/ StartPost(t)
    \/ StartCreated(t)
    \/ StartRejected(t)
    \/ StartUncertain(t)
    \/ StartAttach(t)
    \/ StartFail(t)
    \/ StartRelease(t)

-----------------------------------------------------------------------------
(* confirm_cancel.                                                         *)

CancelAt(c, from) ==
    /\ cancel[c].pc = from
    /\ UNCHANGED <<start, steer, rec, mon, overdue, artifacts>>

ConfirmCancel(c, t) ==
    /\ CancelAt(c, "idle")
    /\ consume_confirmation("cancel", t)
    /\ cancel' = [cancel EXCEPT ![c] = [NoCancel EXCEPT !.pc = "read", !.task = t]]
    /\ UNCHANGED <<tasks, remote_work, notifications, providerVars>>
    /\ NoFault

CancelRead(c) ==
    LET row == tasks[cancel[c].task] IN
    /\ CancelAt(c, "read")
    /\ cancel' = [cancel EXCEPT ![c] =
           IF row.status \in {"creating", "running"}
           THEN [@ EXCEPT !.pc = "mark", !.session = row.session]
           ELSE NoCancel]
    /\ UNCHANGED <<storeVars, providerVars>>
    /\ NoFault

CancelMark(c) ==
    LET t == cancel[c].task IN
    /\ CancelAt(c, "mark")
    /\ cancel' = [cancel EXCEPT ![c].pc = "queue"]
    /\ update_task(t, [tasks[t] EXCEPT !.status = "cancelling"])
    /\ UNCHANGED providerVars
    /\ NoFault

CancelQueue(c) ==
    /\ CancelAt(c, "queue")
    /\ cancel' = [cancel EXCEPT ![c] =
           IF @.session THEN [@ EXCEPT !.pc = "call"] ELSE NoCancel]
    /\ queue_cleanup(cancel[c].task, cancel[c].session, TRUE)
    /\ UNCHANGED providerVars
    /\ NoFault

\* The request arrives, or fails; either way the handler is done.
CancelCall(c) ==
    /\ CancelAt(c, "call")
    /\ cancel' = [cancel EXCEPT ![c] = NoCancel]
    /\ \/ CancelReceived(cancel[c].task) /\ NoFault
       \/ UNCHANGED providerVars /\ Fault
    /\ UNCHANGED storeVars

CancelThread(c) == CancelRead(c) \/ CancelMark(c) \/ CancelQueue(c) \/ CancelCall(c)

-----------------------------------------------------------------------------
(* steer.                                                                  *)

Steer(t) ==
    /\ tasks[t].status = "running"
    /\ t \notin steer
    /\ steer' = steer \cup {t}
    /\ UNCHANGED <<storeVars, providerVars, start, cancel, rec, mon>>
    /\ UNCHANGED <<overdue, artifacts, faults>>

SteerSend(t) ==
    /\ t \in steer
    /\ steer' = steer \ {t}
    /\ \/ SteerReceived(t) /\ NoFault
       \/ UNCHANGED providerVars /\ Fault
    /\ UNCHANGED <<storeVars, start, cancel, rec, mon>>
    /\ UNCHANGED <<overdue, artifacts>>

-----------------------------------------------------------------------------
(* reconcile: _reconcile and _cleanup_remote under reconcile_lock.         *)

RecAt(from) ==
    /\ rec.pc = from
    /\ UNCHANGED <<start, cancel, steer, mon, overdue>>

\* The local variables of a call that has read the task.  The field early is
\* history, for the properties only: the row was looked for before the start of
\* the task was confirmed, so that there was none yet.
ReadTask(t, pc, result) ==
    [pc |-> pc, task |-> t, session |-> tasks[t].session, result |-> result,
     early |-> confirmations["start"][t] # "spent"]

\* Mutant: a task without a session is left alone before its time is looked at.
SessionBeforeDeadline(t) ==
    LET row == tasks[t]
        at(pc, result) == rec' = ReadTask(t, pc, result) IN
    /\ RecAt("idle")
    /\ \/ row.status \notin Active /\ at("journal", "none")
       \/ row.status \in Active /\ row.session /\ t \in overdue /\ at("queue", "timed_out")
       \/ row.status \in Active /\ row.session /\ t \notin overdue /\ at("poll", "none")
    /\ UNCHANGED <<storeVars, providerVars, artifacts>>
    /\ NoFault

\* Called by list_tasks, recover and the monitor, and by status for any task id,
\* that of a start not confirmed yet and that of a deleted task included.
\* An active task with no session and time left is left alone.
ReconcileBegin(t) ==
    LET row == tasks[t] IN
    /\ RecAt("idle")
    /\ \/ /\ row.status \notin Active
          /\ rec' = ReadTask(t, "journal", "none")
       \/ /\ row.status \in Active
          /\ t \in overdue
          /\ rec' = ReadTask(t, "queue", "timed_out")
       \/ /\ row.status \in Active
          /\ t \notin overdue
          /\ row.session
          /\ rec' = ReadTask(t, IF row.status = "cancelling" THEN "cancel" ELSE "poll", "none")
    /\ UNCHANGED <<storeVars, providerVars, artifacts>>
    /\ NoFault

\* A cancelling task: the cancel request is repeated before polling.
ReconcileCancel ==
    /\ RecAt("cancel")
    /\ \/ /\ remote[rec.task] \notin Gone
          /\ CancelReceived(rec.task)
          /\ rec' = [rec EXCEPT !.pc = "poll"]
          /\ NoFault
       \/ /\ remote[rec.task] \in Gone
          /\ rec' = NoRec
          /\ UNCHANGED providerVars
          /\ NoFault
       \/ /\ CancelReceived(rec.task) \/ UNCHANGED providerVars
          /\ rec' = NoRec
          /\ Fault
    /\ UNCHANGED <<storeVars, artifacts>>

\* Mutant: the outcome of the turn is not kept.
PollForgetsOutcome ==
    /\ RecAt("poll")
    /\ rec' = IF terminal_result(rec.task) = "none" THEN NoRec ELSE [rec EXCEPT !.pc = "queue"]
    /\ UNCHANGED <<storeVars, providerVars, artifacts>>
    /\ NoFault

\* get_session and list_history: a failure, a 404 included, ends the call.
ReconcilePoll ==
    LET result == terminal_result(rec.task) IN
    /\ RecAt("poll")
    /\ \/ /\ rec' = CASE result = "none" -> NoRec
                      [] result = "completed" ->
                             [rec EXCEPT !.pc = "capture", !.result = result]
                      [] OTHER -> [rec EXCEPT !.pc = "queue", !.result = result]
          /\ NoFault
       \/ rec' = NoRec /\ Fault
    /\ UNCHANGED <<storeVars, providerVars, artifacts>>

\* Mutant: a failed download leaves the task completed.
CaptureIgnoresFailure ==
    /\ RecAt("capture")
    /\ artifacts' = artifacts \cup {rec.task}
    /\ rec' = [rec EXCEPT !.pc = "queue"]
    /\ UNCHANGED <<storeVars, providerVars>>
    /\ NoFault

\* _capture up to the manifest: the directory is made first, then downloads,
\* validation and extraction succeed, or anything at all goes wrong with them.
CaptureFiles ==
    /\ RecAt("capture")
    /\ artifacts' = artifacts \cup {rec.task}
    /\ \/ /\ remote[rec.task] \notin Gone
          /\ rec' = [rec EXCEPT !.pc = "manifest"]
       \/ rec' = [rec EXCEPT !.pc = "queue", !.result = "failed"]
    /\ UNCHANGED <<storeVars, providerVars>>
    /\ NoFault

\* The manifest is recorded and read back; a task deleted meanwhile has none.
CaptureManifest ==
    LET t == rec.task IN
    /\ RecAt("manifest")
    /\ update_task(t, [tasks[t] EXCEPT !.manifest = TRUE])
    /\ rec' = [rec EXCEPT !.pc = "queue",
                   !.result = IF tasks[t].status = "absent" THEN "failed" ELSE @]
    /\ UNCHANGED <<providerVars, artifacts>>
    /\ NoFault

\* Mutant: the session is deleted before the verdict is recorded.
QueueThenDelete ==
    /\ RecAt("queue")
    /\ queue_cleanup(rec.task, rec.session, rec.result = "timed_out")
    /\ rec' = [rec EXCEPT !.pc = "journal"]
    /\ UNCHANGED <<providerVars, artifacts>>
    /\ NoFault

ReconcileQueue ==
    /\ RecAt("queue")
    /\ queue_cleanup(rec.task, rec.session, rec.result = "timed_out")
    /\ rec' = [rec EXCEPT !.pc = "finish"]
    /\ UNCHANGED <<providerVars, artifacts>>
    /\ NoFault

ReconcileFinish ==
    /\ RecAt("finish")
    /\ finish_task(rec.task, rec.result)
    /\ rec' = [rec EXCEPT !.pc = "journal"]
    /\ UNCHANGED <<providerVars, artifacts>>
    /\ NoFault

CleanupRead ==
    LET work == remote_work[rec.task] IN
    /\ RecAt("journal")
    /\ rec' = IF work.present /\ work.session
              THEN [rec EXCEPT !.pc = IF work.cancel_required THEN "stop" ELSE "delete"]
              ELSE NoRec
    /\ UNCHANGED <<storeVars, providerVars, artifacts>>
    /\ NoFault

\* Mutant: a 404 is a failure like any other.
NotFoundIsFailure(effect) ==
    /\ rec' = NoRec
    /\ \/ remote[rec.task] \in Gone /\ UNCHANGED providerVars /\ NoFault
       \/ remote[rec.task] \notin Gone /\ (effect \/ UNCHANGED providerVars) /\ Fault
    /\ UNCHANGED <<storeVars, artifacts>>

\* A provider request of _cleanup_remote: on a session that is gone it answers
\* 404 and the journal row is cleared; other failures end the call.
CleanupCall(effect) ==
    /\ \/ /\ remote[rec.task] \in Gone
          /\ rec' = [rec EXCEPT !.pc = "clear"]
          /\ UNCHANGED providerVars
          /\ NoFault
       \/ /\ remote[rec.task] \notin Gone
          /\ effect \/ UNCHANGED providerVars
          /\ rec' = NoRec
          /\ Fault
    /\ UNCHANGED <<storeVars, artifacts>>

CleanupCancel ==
    /\ RecAt("stop")
    /\ \/ /\ remote[rec.task] \notin Gone
          /\ CancelReceived(rec.task)
          /\ rec' = [rec EXCEPT !.pc = "check"]
          /\ NoFault
          /\ UNCHANGED <<storeVars, artifacts>>
       \/ CleanupCall(CancelReceived(rec.task))

\* Mutant: the answer of the check is not looked at.
DeleteWithoutCheck ==
    /\ RecAt("check")
    /\ rec' = [rec EXCEPT !.pc = "delete"]
    /\ UNCHANGED <<storeVars, providerVars, artifacts>>
    /\ NoFault

\* A cancelled session is deleted only once its turn has ended.
CleanupCheck ==
    /\ RecAt("check")
    /\ \/ /\ remote[rec.task] \notin Gone
          /\ rec' = IF terminal_result(rec.task) = "none" THEN NoRec
                    ELSE [rec EXCEPT !.pc = "delete"]
          /\ NoFault
          /\ UNCHANGED <<storeVars, providerVars, artifacts>>
       \/ CleanupCall(UNCHANGED providerVars)

CleanupDelete ==
    /\ RecAt("delete")
    /\ \/ /\ remote[rec.task] \notin Gone
          /\ DeleteReceived(rec.task)
          /\ rec' = [rec EXCEPT !.pc = "clear"]
          /\ NoFault
          /\ UNCHANGED <<storeVars, artifacts>>
       \/ CleanupCall(DeleteReceived(rec.task))

CleanupClear ==
    /\ RecAt("clear")
    /\ clear_remote(rec.task)
    /\ rec' = NoRec
    /\ UNCHANGED <<providerVars, artifacts>>
    /\ NoFault

Reconcile ==
    \/ ReconcileCancel
    \/ ReconcilePoll
    \/ CaptureFiles
    \/ CaptureManifest
    \/ ReconcileQueue
    \/ ReconcileFinish
    \/ CleanupRead
    \/ CleanupCancel
    \/ CleanupCheck
    \/ CleanupDelete
    \/ CleanupClear

\* recover and the monitor reconcile every row of the journal in each tick.
MonitorReconcile(t) == remote_work[t].present /\ ReconcileBegin(t)

-----------------------------------------------------------------------------
(* The monitor thread: recover, then cleanup.                              *)

MonAt(from) ==
    /\ mon.pc = from
    /\ UNCHANGED <<start, cancel, steer, rec, overdue>>

\* The snapshot of the journal rows that have no session.
RecoverPending ==
    /\ MonAt("recover")
    /\ mon' = [MonIdle EXCEPT !.pc = "list",
                   !.todo = {t \in Tasks : remote_work[t].present /\ ~remote_work[t].session}]
    /\ UNCHANGED <<storeVars, providerVars, artifacts>>
    /\ NoFault

\* The listing of this installation's sessions, matched against the snapshot.
\* When it fails, as it may in every tick, the rest of recover but the
\* reconciliations is skipped.
RecoverList ==
    /\ MonAt("list")
    /\ \/ mon' = [mon EXCEPT !.pc = "visit",
                         !.todo = {t \in mon.todo : remote[t] \in Live}]
       \/ mon' = [MonIdle EXCEPT !.pc = "cleanup"]
    /\ UNCHANGED <<storeVars, providerVars, artifacts>>
    /\ NoFault

RecoverVisit(t) ==
    LET status == tasks[t].status IN
    /\ MonAt("visit")
    /\ t \in mon.todo
    /\ mon' = [pc |-> IF status \in {"creating", "cancelling"} THEN "attach" ELSE "adopt",
               todo |-> mon.todo \ {t},
               task |-> t,
               known |-> status # "absent"]
    /\ UNCHANGED <<storeVars, providerVars, artifacts>>
    /\ NoFault

NextVisit == [mon EXCEPT !.pc = "visit", !.task = Nobody, !.known = FALSE]

RecoverAttach ==
    /\ MonAt("attach")
    /\ attach_session(mon.task)
    /\ mon' = NextVisit
    /\ UNCHANGED <<providerVars, artifacts>>
    /\ NoFault

\* A session nobody waits for any more is queued to be cancelled and deleted.
RecoverAdopt ==
    /\ MonAt("adopt")
    /\ queue_cleanup(mon.task, TRUE, TRUE)
    /\ mon' = IF mon.known THEN [mon EXCEPT !.pc = "record"] ELSE NextVisit
    /\ UNCHANGED <<providerVars, artifacts>>
    /\ NoFault

RecoverRecord ==
    LET t == mon.task IN
    /\ MonAt("record")
    /\ update_task(t, [tasks[t] EXCEPT !.session = TRUE])
    /\ mon' = NextVisit
    /\ UNCHANGED <<providerVars, artifacts>>
    /\ NoFault

\* The end of the listing, or a page of it that cannot be fetched.
RecoverDone ==
    /\ MonAt("visit")
    /\ mon' = [MonIdle EXCEPT !.pc = "cleanup"]
    /\ \/ mon.todo = {} /\ NoFault
       \/ mon.todo # {} /\ Fault
    /\ UNCHANGED <<storeVars, providerVars, artifacts>>

\* The rows are deleted first, the directories one by one afterwards.
CleanupRows(S) ==
    /\ MonAt("cleanup")
    /\ cleanup(S)
    /\ mon' = [MonIdle EXCEPT !.pc = "sweep", !.todo = S]
    /\ UNCHANGED <<providerVars, artifacts>>
    /\ NoFault

CleanupTree(t) ==
    /\ MonAt("sweep")
    /\ t \in mon.todo
    /\ mon' = [mon EXCEPT !.todo = @ \ {t}]
    /\ artifacts' = artifacts \ {t}
    /\ UNCHANGED <<storeVars, providerVars>>
    /\ NoFault

\* A failing rmtree raises out of the tick and the remaining ids are lost.
CleanupTreeFails ==
    /\ MonAt("sweep")
    /\ mon.todo # {}
    /\ mon' = MonIdle
    /\ UNCHANGED <<storeVars, providerVars, artifacts>>
    /\ Fault

TickDone ==
    /\ MonAt("sweep")
    /\ mon.todo = {}
    /\ mon' = MonIdle
    /\ UNCHANGED <<storeVars, providerVars, artifacts>>
    /\ NoFault

Monitor ==
    \/ RecoverPending
    \/ RecoverList
    \/ \E t \in Tasks : RecoverVisit(t)
    \/ RecoverAttach
    \/ RecoverAdopt
    \/ RecoverRecord
    \/ RecoverDone
    \/ \E S \in SUBSET Tasks : CleanupRows(S)
    \/ \E t \in Tasks : CleanupTree(t)
    \/ CleanupTreeFails
    \/ TickDone

-----------------------------------------------------------------------------
(* The environment: time, the provider and crashes.                        *)

DeadlinePasses(t) ==
    /\ tasks[t].status \in Active
    /\ t \notin overdue
    /\ overdue' = overdue \cup {t}
    /\ UNCHANGED <<storeVars, providerVars, threadVars, artifacts, faults>>

ProviderStep(t) ==
    /\ \/ ProviderCreate(t) /\ NoFault
       \/ ProviderReject(t) /\ NoFault
       \/ \E outcome \in Outcomes : ProviderEnd(t, outcome) /\ NoFault
       \/ ProviderDrop(t) /\ Fault
    /\ UNCHANGED <<storeVars, threadVars, overdue, artifacts>>

\* The daemon dies and a new one opens the same database.
Restart ==
    /\ backfill
    /\ start' = [t \in Tasks |-> "idle"]
    /\ cancel' = [c \in Cancellers |-> NoCancel]
    /\ steer' = {}
    /\ rec' = NoRec
    /\ mon' = MonIdle
    /\ UNCHANGED <<providerVars, overdue, artifacts>>
    /\ Fault

Next ==
    \/ \E t \in Tasks :
           \/ PrepareStart(t)
           \/ PrepareCancel(t)
           \/ \E action \in {"start", "cancel"} : ApprovalExpires(action, t)
           \/ ConfirmStart(t)
           \/ StartThread(t)
           \/ \E c \in Cancellers : ConfirmCancel(c, t)
           \/ Steer(t)
           \/ SteerSend(t)
           \/ ReconcileBegin(t)
           \/ DeadlinePasses(t)
           \/ ProviderStep(t)
    \/ \E c \in Cancellers : CancelThread(c)
    \/ Reconcile
    \/ Monitor
    \/ Restart

Spec == Init /\ [][Next]_vars

\* What the running daemon and a working provider give: handlers run on (every
\* request has a timeout), the monitor ticks and gets the reconcile lock for
\* every journal row, deadlines pass, a cancelled turn ends.
Fairness ==
    /\ \A t \in Tasks :
           /\ WF_vars(StartThread(t))
           /\ SF_vars(MonitorReconcile(t))
           /\ WF_vars(DeadlinePasses(t))
           /\ WF_vars(remote[t] = "cancelling" /\ ProviderStep(t))
    /\ \A c \in Cancellers : WF_vars(CancelThread(c))
    /\ WF_vars(Reconcile)
    /\ WF_vars(Monitor)

FairSpec == Spec /\ Fairness

\* The listing does not fail for ever.
ListingWorks == SF_vars(RecoverList /\ mon'.pc = "visit")

-----------------------------------------------------------------------------
(* Safety.                                                                 *)

\* A session that exists, or that a request still under way may create, is in
\* the journal: no thread, crash or stale write lets one slip out of sight of
\* the loop of recover (service.py:188), the only one that deletes sessions.
NoOrphanSession == \A t \in Tasks : remote[t] \in MayExist => remote_work[t].present

\* The tasks that are costing a session, or are about to ask for one.
Occupying == {t \in Tasks : start[t] = "post" \/ remote[t] \in MayExist}

\* The limit of max_active holds for the sessions at the provider themselves,
\* late answers, unknown outcomes and restarts included, though reserve_start
\* (store.py:103) only counts journal rows.
WithinCapacity == Cardinality(Occupying) <= MaxActive

\* A task listed as completed can be published: its manifest is recorded and
\* its files are there, whichever thread deletes expired tasks meanwhile
\* (_capture, finish_task and cleanup).
CompletedHasOutput ==
    \A t \in Tasks : tasks[t].status = "completed" => tasks[t].manifest /\ t \in artifacts

\* A task gets its retention deadline together with its announcement, and no
\* task with a verdict is without them (finish_task, store.py:157): none is
\* kept for ever, none ends in silence.
FinishedIsAnnounced ==
    \A t \in Tasks :
        /\ tasks[t].retention <=> notifications[t] # "none"
        /\ tasks[t].status \in Terminal => tasks[t].retention

\* The exception of the properties that follow: a reconciliation of t is under
\* way that looked for its row before its start was confirmed.  _reconcile read
\* no task (service.py:133) and went on to _cleanup_remote, which takes the row
\* of a start confirmed since for leftover work (163) and deletes its session.
Early(t) == rec.task = t /\ rec.early

\* No thread cancels the session of a task that the user has not cancelled and
\* whose time is not up, even when recover acts on an old snapshot
\* (service.py:178) or a cancel flag is left in the journal.  Only an early
\* reconciliation may, when such a snapshot has queued the session to be
\* cancelled (185).
NoUnrequestedCancel ==
    [][\A t \in Tasks :
           remote[t] = "active" /\ remote'[t] = "cancelling"
               => tasks[t].status \notin {"creating", "running"} \/ Early(t)]_vars

\* A session is deleted only when what it did is on record: the task has had
\* its verdict, or is past its retention (order of service.py:157-159).  Only
\* an early reconciliation deletes the session of a task without a verdict.
VerdictBeforeDelete ==
    [][\A t \in Tasks :
           remote[t] # "deleted" /\ remote'[t] = "deleted"
               => tasks[t].retention \/ tasks[t].status = "absent" \/ Early(t)]_vars

\* No session is deleted in the middle of a turn, cancelled or timed out as the
\* task may be (service.py:171), with two exceptions: a session that a steer
\* message reopened after its turn had ended, and one that an early
\* reconciliation takes for leftover work.
DeletedOnlyWhenDone ==
    [][\A t \in Tasks :
           remote[t] \in Working /\ remote'[t] = "deleted"
               => t \in reopened \/ Early(t)]_vars

\* "task is not active" (service.py:104): cancelling is for active tasks, and a
\* verdict (store.py:160) is not taken back while the task is kept.
TerminalIsFinal ==
    [][\A t \in Tasks :
           tasks[t].status \in Terminal => tasks'[t].status \in {tasks[t].status, "absent"}]_vars

-----------------------------------------------------------------------------
(* The abstract specification that this one implements.                    *)

\* What RemoteSlots calls the life of a session.
Life(t) ==
    CASE remote[t] = "none" -> "new"
      [] remote[t] = "posted" -> "asked"
      [] remote[t] \in Live -> "live"
      [] OTHER -> "over"

Slots == INSTANCE RemoteSlots WITH held <- Journalled, life <- [t \in Tasks |-> Life(t)]

\* A slot is taken before the provider is asked, kept through lost answers,
\* crashes and the deletion of the task, and given back only when the session
\* can no longer exist (store.py:103, service.py:72, 174).
ImplementsRemoteSlots == Slots!Spec

-----------------------------------------------------------------------------
(* The inductive invariant behind NoOrphanSession and WithinCapacity: a    *)
(* journal row is only removed for a session that is gone or was refused,  *)
(* because every thread that holds a session identifier holds that of a    *)
(* session that has existed.                                               *)

Created(t) == remote[t] \in Live \cup Gone

\* Until its approval is used a task has no request under way, and until the
\* request is sent there is no session and the slot is held.
UnsentStart ==
    \A t \in Tasks :
        /\ confirmations["start"][t] # "spent" => start[t] = "idle" /\ remote[t] = "none"
        /\ start[t] = "post" => remote[t] = "none" /\ remote_work[t].present

\* confirm_start gives a slot back only after a rejection.
RejectedStart ==
    \A t \in Tasks : start[t] \in {"reject", "release"} => remote[t] = "rejected"

\* Session identifiers in the tables, or on their way to them.
KnownByRows ==
    \A t \in Tasks :
        tasks[t].session \/ remote_work[t].session \/ start[t] = "attach" => Created(t)

\* Session identifiers in the hands of the other threads.
KnownByCancel ==
    \A c \in Cancellers :
        cancel[c].session => cancel[c].task \in Tasks /\ Created(cancel[c].task)

KnownByRec ==
    /\ rec.session \/ rec.pc \in {"stop", "check", "delete"} =>
           rec.task \in Tasks /\ Created(rec.task)
    /\ rec.pc = "clear" => remote[rec.task] \in Gone

KnownByMon ==
    mon.pc \in {"visit", "attach", "adopt", "record"} =>
        /\ \A t \in mon.todo : Created(t)
        /\ mon.pc # "visit" => Created(mon.task)

KnownSessions == KnownByRows /\ KnownByCancel /\ KnownByRec /\ KnownByMon

IndInv == TypeOK /\ NoOrphanSession /\ UnsentStart /\ RejectedStart /\ KnownSessions

-----------------------------------------------------------------------------
(* Liveness.                                                               *)

\* Every session the daemon caused goes away in the end, after crashes, lost
\* answers and failed deletions, with its task long forgotten, provided that the
\* listing works again and again (ListingWorks): what became of a create request
\* without an answer is known from there only (service.py:179).
LiveSessionsGo == \A t \in Tasks : remote[t] \in Live ~> remote[t] \in Gone

\* Every task gets its verdict: the monitor enforces the deadline, a session
\* that never appeared or never ends (service.py:137) and a listing that is down
\* (daemon.py:52) notwithstanding.  The exception is a running task whose
\* journal row an early reconciliation has cleared, its session being gone: the
\* monitor goes by the journal (service.py:188) and never looks at it again.
DeadlineEnforced ==
    \A t \in Tasks :
        tasks[t].status \in Active
            ~> \/ tasks[t].status \notin Active
               \/ remote[t] \in Gone /\ ~remote_work[t].present

\* A session the daemon has deleted does not keep its slot, whatever crash,
\* lost answer or late thread falls between the deletion and the journal
\* ("Unresolved remote work continues to count against capacity", README.md:38).
SlotsComeBack == \A t \in Tasks : remote[t] = "deleted" ~> ~remote_work[t].present

\* "A listing outage must not prevent deadlines or known-session cleanup"
\* (daemon.py:52): a session whose identifier is stored with a finished task is
\* cleaned up and its slot released.
KnownSessionCleanup ==
    \A t \in Tasks :
        tasks[t].session /\ tasks[t].retention ~> ~remote_work[t].present

=============================================================================
