--------------------------- MODULE VerdictProofs ---------------------------
(***************************************************************************)
(* The verdicts of AgentService, for any number of tasks, cancelling       *)
(* threads and faults: a task with a verdict is announced and will be      *)
(* retired, and one that is completed has its output.                      *)
(***************************************************************************)
EXTENDS AgentServiceProofs

\* A task has no row before its approval is used, and what is left of a deleted
\* one is nothing.
FreshRows ==
    \A t \in Tasks :
        /\ tasks[t].status = "absent" => tasks[t] = NoTask
        /\ confirmations["start"][t] # "spent" => tasks[t].status = "absent"

\* The task that a reconciliation works on has had a row.
SpentRec ==
    rec.pc \in {"cancel", "poll", "capture", "manifest", "queue", "finish"} =>
        confirmations["start"][rec.task] = "spent"

\* A reconciliation about to record the verdict "completed" has captured the
\* output of the task, unless the task has been deleted meanwhile.
CapturedRec ==
    rec.result = "completed" /\ rec.pc \in {"manifest", "queue", "finish"} =>
        \/ tasks[rec.task].status = "absent"
        \/ rec.task \in artifacts /\ (rec.pc # "manifest" => tasks[rec.task].manifest)

\* Directories are removed only of tasks that are gone for ever.
SweptRows ==
    mon.pc = "sweep" => \A t \in mon.todo :
        tasks[t].status = "absent" /\ confirmations["start"][t] = "spent"

VerdictInv ==
    /\ TypeOK /\ FreshRows /\ SpentRec /\ SweptRows /\ CapturedRec
    /\ FinishedIsAnnounced /\ CompletedHasOutput

-----------------------------------------------------------------------------
(* What a step may do to the row of a task.                                *)

Kept(t) == tasks'[t] = tasks[t] /\ notifications'[t] = notifications[t]

Made(t) ==
    /\ confirmations["start"][t] # "spent" /\ confirmations'["start"][t] = "spent"
    /\ tasks'[t] = [NoTask EXCEPT !.status = "creating"]
    /\ notifications'[t] = notifications[t]

Changed(t) ==
    /\ tasks[t].status # "absent" /\ tasks'[t].status # "absent"
    /\ \/ tasks'[t].status \in {tasks[t].status, "cancelling"}
       \/ tasks[t].status = "creating" /\ tasks'[t].status = "running"
    /\ tasks'[t].retention = tasks[t].retention
    /\ tasks[t].manifest => tasks'[t].manifest
    /\ notifications'[t] = notifications[t]

Finished(t) ==
    /\ tasks[t].status # "absent" /\ tasks'[t].status \in Terminal
    /\ tasks'[t].retention /\ notifications'[t] # "none"
    /\ tasks'[t].manifest = tasks[t].manifest
    /\ \/ start[t] = "reject" /\ tasks'[t].status = "failed"
       \/ rec.pc = "finish" /\ rec.task = t /\ tasks'[t].status = rec.result

Deleted(t) == tasks[t].retention /\ tasks'[t] = NoTask /\ notifications'[t] = "none"

RowLife(t) ==
    /\ Kept(t) \/ Made(t) \/ Changed(t) \/ Finished(t) \/ Deleted(t)
    /\ confirmations["start"][t] = "spent" => confirmations'["start"][t] = "spent"

-----------------------------------------------------------------------------
(* The transactions, as what they do to every row.                         *)

\* What does not touch the tables.
LEMMA OtherRows ==
    ASSUME UNCHANGED <<tasks, notifications>>,
           UNCHANGED confirmations
    PROVE  \A u \in Tasks : RowLife(u)
BY DEF RowLife, Kept

\* One row changed, the others kept.
LEMMA OneRow ==
    ASSUME NEW t \in Tasks, UNCHANGED confirmations, Kept(t) \/ Changed(t) \/ Finished(t),
           \A u \in Tasks \ {t} : Kept(u)
    PROVE  \A u \in Tasks : RowLife(u)
BY DEF RowLife

\* attach_session (store.py:111).
LEMMA AttachRows ==
    ASSUME StoreTypeOK, NEW t \in Tasks, attach_session(t)
    PROVE  \A u \in Tasks : RowLife(u)
<1>1. tasks[t] \in TaskRow
  BY DEF StoreTypeOK
<1>2. Kept(t) \/ Changed(t)
  BY <1>1 DEF attach_session, Kept, Changed, StoreTypeOK, TaskRow, Terminal
<1>3. \A u \in Tasks \ {t} : Kept(u)
  BY DEF attach_session, Kept, StoreTypeOK
<1> QED BY <1>2, <1>3, OneRow DEF attach_session

\* finish_task (store.py:157).
LEMMA FinishRows ==
    ASSUME StoreTypeOK, NEW t \in Tasks, NEW s \in Terminal, finish_task(t, s),
           \/ start[t] = "reject" /\ s = "failed"
           \/ rec.pc = "finish" /\ rec.task = t /\ s = rec.result
    PROVE  \A u \in Tasks : RowLife(u)
<1>1. tasks[t] \in TaskRow
  BY DEF StoreTypeOK
<1>2. Kept(t) \/ Finished(t)
  <2>1. CASE tasks[t].status \in Active
    <3>1. /\ tasks'[t] = [tasks[t] EXCEPT !.status = s, !.retention = TRUE]
          /\ notifications'[t] = IF notifications[t] = "none" THEN s ELSE notifications[t]
      BY <2>1 DEF finish_task, StoreTypeOK
    <3>2. s # "none" /\ tasks[t].status # "absent"
      BY <2>1 DEF Terminal, Active
    <3>3. /\ tasks'[t].status = s /\ tasks'[t].retention
          /\ tasks'[t].manifest = tasks[t].manifest
      BY <1>1, <3>1 DEF TaskRow
    <3> QED BY <3>1, <3>2, <3>3 DEF Finished
  <2>2. CASE tasks[t].status \notin Active
    BY <2>2 DEF finish_task, Kept
  <2> QED BY <2>1, <2>2
<1>3. \A u \in Tasks \ {t} : Kept(u)
  BY DEF finish_task, Kept, StoreTypeOK
<1> QED BY <1>2, <1>3, OneRow DEF finish_task

\* update_task with the values its callers give (store.py:128).
LEMMA UpdateRows ==
    ASSUME StoreTypeOK, NEW t \in Tasks, NEW row \in TaskRow, update_task(t, row),
           row.status \in {tasks[t].status, "cancelling"}, row.retention = tasks[t].retention,
           tasks[t].manifest => row.manifest
    PROVE  \A u \in Tasks : RowLife(u)
<1>1. Kept(t) \/ Changed(t)
  <2>1. CASE tasks[t].status = "absent"
    BY <2>1 DEF update_task, Kept, StoreTypeOK
  <2>2. CASE tasks[t].status # "absent"
    BY <2>2 DEF update_task, Changed, StoreTypeOK, Terminal
  <2> QED BY <2>1, <2>2
<1>2. \A u \in Tasks \ {t} : Kept(u)
  BY DEF update_task, Kept, StoreTypeOK
<1> QED BY <1>1, <1>2, OneRow DEF update_task

\* cleanup (store.py:219).
LEMMA CleanupRowsLife ==
    ASSUME NEW S \in SUBSET Tasks, cleanup(S)
    PROVE  \A u \in Tasks : RowLife(u)
<1>1. confirmations' = confirmations
  BY DEF cleanup
<1>2. \A u \in S : Deleted(u)
  BY DEF cleanup, Deleted
<1>3. \A u \in Tasks \ S : Kept(u)
  BY DEF cleanup, Kept
<1> QED BY <1>1, <1>2, <1>3 DEF RowLife

\* Whatever step is taken, each row is kept, made, changed, finished or deleted.
LEMMA RowLives ==
    ASSUME TypeOK, Next
    PROVE  \A u \in Tasks : RowLife(u)
<1> USE DEF TypeOK
<1>a. \A u \in Tasks : tasks[u] \in TaskRow
  BY DEF StoreTypeOK
<1>1. ASSUME NEW t \in Tasks, ConfirmStart(t)  PROVE \A u \in Tasks : RowLife(u)
  <2>1. Made(t)
    BY <1>1 DEF ConfirmStart, reserve_start, consume_confirmation, Made, StoreTypeOK
  <2>2. \A u \in Tasks \ {t} : Kept(u)
    BY <1>1 DEF ConfirmStart, reserve_start, Kept, StoreTypeOK
  <2>3. \A u \in Tasks : confirmations["start"][u] = "spent" => confirmations'["start"][u] = "spent"
    BY <1>1 DEF ConfirmStart, reserve_start, consume_confirmation, StoreTypeOK
  <2> QED BY <2>1, <2>2, <2>3 DEF RowLife
<1>2. ASSUME NEW t \in Tasks,
             \/ PrepareStart(t)
             \/ PrepareCancel(t)
             \/ \E action \in {"start", "cancel"} : ApprovalExpires(action, t)
             \/ \E c \in Cancellers : ConfirmCancel(c, t)
      PROVE  \A u \in Tasks : RowLife(u)
  <2>1. UNCHANGED <<tasks, notifications>>
    BY <1>2 DEF PrepareStart, PrepareCancel, ApprovalExpires, ConfirmCancel
  <2>2. \A u \in Tasks : confirmations["start"][u] = "spent" => confirmations'["start"][u] = "spent"
    BY <1>2 DEF PrepareStart, PrepareCancel, ApprovalExpires, ConfirmCancel, create_confirmation,
       consume_confirmation, StoreTypeOK
  <2> QED BY <2>1, <2>2 DEF RowLife, Kept
<1>3. ASSUME NEW t \in Tasks, StartThread(t)  PROVE \A u \in Tasks : RowLife(u)
  <2>1. CASE StartAttach(t)
    BY <2>1, AttachRows DEF StartAttach
  <2>2. CASE StartFail(t)
    BY <2>2, FinishRows DEF StartFail, StartAt, Terminal
  <2> QED BY <1>3, <2>1, <2>2, OtherRows DEF StartThread, StartPost, StartCreated, StartRejected,
          StartUncertain, StartRelease, clear_remote, storeVars
<1>4. ASSUME NEW c \in Cancellers, CancelThread(c)  PROVE \A u \in Tasks : RowLife(u)
  <2>1. CASE CancelMark(c)
    <3> DEFINE t == cancel[c].task
    <3>1. t \in Tasks
      BY <2>1 DEF CancelMark, CancelAt, CancelTypeOK
    <3> HIDE DEF t
    <3>2. [tasks[t] EXCEPT !.status = "cancelling"] \in TaskRow
      BY <1>a, <3>1 DEF TaskRow, Active
    <3>3. update_task(t, [tasks[t] EXCEPT !.status = "cancelling"])
      BY <2>1 DEF CancelMark, t
    <3>4. LET row == [tasks[t] EXCEPT !.status = "cancelling"] IN
             row.status = "cancelling" /\ row.retention = tasks[t].retention
             /\ row.manifest = tasks[t].manifest
      BY <1>a, <3>1 DEF TaskRow
    <3> QED BY <3>1, <3>2, <3>3, <3>4, UpdateRows
  <2> QED BY <1>4, <2>1, OtherRows DEF CancelThread, CancelRead, CancelQueue, CancelCall,
          queue_cleanup, storeVars
<1>5. CASE Reconcile
  <2>1. CASE CaptureManifest
    <3> DEFINE t == rec.task
               row == [tasks[t] EXCEPT !.manifest = TRUE]
    <3>1. t \in Tasks /\ update_task(t, row)
      BY <2>1 DEF CaptureManifest, RecAt, RecTypeOK
    <3>2. row \in TaskRow /\ row.status = tasks[t].status /\ row.retention = tasks[t].retention /\ row.manifest
      BY <1>a, <3>1 DEF TaskRow
    <3> HIDE DEF t, row
    <3> QED BY <3>1, <3>2, UpdateRows
  <2>2. CASE ReconcileFinish
    <3>1. rec.pc = "finish" /\ rec.task \in Tasks /\ rec.result \in Terminal
      BY <2>2 DEF ReconcileFinish, RecAt, RecTypeOK
    <3> QED BY <2>2, <3>1, FinishRows DEF ReconcileFinish
  <2> QED BY <1>5, <2>1, <2>2, OtherRows DEF Reconcile, ReconcileCancel, ReconcilePoll, CaptureFiles,
          ReconcileQueue, CleanupRead, CleanupCancel, CleanupCheck, CleanupDelete, CleanupCall,
          CleanupClear, queue_cleanup, clear_remote, storeVars
<1>6. CASE Monitor
  <2>1. CASE RecoverAttach
    BY <2>1, AttachRows DEF RecoverAttach, MonAt, MonTypeOK
  <2>2. CASE RecoverRecord
    <3> DEFINE t == mon.task
               row == [tasks[t] EXCEPT !.session = TRUE]
    <3>1. t \in Tasks /\ update_task(t, row)
      BY <2>2 DEF RecoverRecord, MonAt, MonTypeOK
    <3>2. row \in TaskRow /\ row.status = tasks[t].status /\ row.retention = tasks[t].retention
          /\ row.manifest = tasks[t].manifest
      BY <1>a, <3>1 DEF TaskRow
    <3> HIDE DEF t, row
    <3> QED BY <3>1, <3>2, UpdateRows
  <2>3. ASSUME NEW S \in SUBSET Tasks, CleanupRows(S)  PROVE \A u \in Tasks : RowLife(u)
    BY <2>3, CleanupRowsLife DEF CleanupRows
  <2> QED BY <1>6, <2>1, <2>2, <2>3, OtherRows DEF Monitor, RecoverPending, RecoverList, RecoverVisit,
          RecoverAdopt, RecoverDone, CleanupTree, CleanupTreeFails, TickDone, queue_cleanup, storeVars
<1>7. ASSUME NEW t \in Tasks,
             \/ Steer(t)
             \/ SteerSend(t)
             \/ ReconcileBegin(t)
             \/ DeadlinePasses(t)
             \/ ProviderStep(t)
      PROVE  \A u \in Tasks : RowLife(u)
  BY <1>7, OtherRows DEF Steer, SteerSend, ReconcileBegin, DeadlinePasses, ProviderStep, storeVars
<1>8. CASE Restart
  BY <1>8, OtherRows DEF Restart, backfill
<1> QED BY <1>1, <1>2, <1>3, <1>4, <1>5, <1>6, <1>7, <1>8 DEF Next

-----------------------------------------------------------------------------
(* The rows, the directories, the holder of the lock and the monitor.      *)

\* A deleted task never comes back, and a row keeps its manifest.
LEMMA RowsStay ==
    ASSUME VerdictInv, Next, NEW u \in Tasks, confirmations["start"][u] = "spent"
    PROVE  /\ confirmations'["start"][u] = "spent"
           /\ tasks[u].status = "absent" => tasks'[u].status = "absent"
           /\ tasks[u].manifest => tasks'[u].manifest \/ tasks'[u].status = "absent"
<1>1. RowLife(u)
  BY RowLives DEF VerdictInv
<1>2. tasks[u].status = "absent" => ~tasks[u].retention
  BY DEF VerdictInv, FreshRows, NoTask
<1>3. NoTask.status = "absent"
  BY DEF NoTask
<1> QED BY <1>1, <1>2, <1>3 DEF RowLife, Kept, Made, Changed, Finished, Deleted

\* Directories disappear only in the sweep of cleanup (service.py:229).
LEMMA DirectoriesStay ==
    ASSUME TypeOK, Next
    PROVE  \A u \in artifacts : u \in artifacts' \/ (mon.pc = "sweep" /\ u \in mon.todo)
<1>1. CASE UNCHANGED artifacts
  BY <1>1
<1>2. CASE Reconcile
  BY <1>2 DEF Reconcile, ReconcileCancel, ReconcilePoll, CaptureFiles, CaptureManifest, ReconcileQueue,
     ReconcileFinish, CleanupRead, CleanupCancel, CleanupCheck, CleanupDelete, CleanupCall, CleanupClear
<1>3. CASE Monitor
  <2>1. ASSUME NEW t \in Tasks, CleanupTree(t)
        PROVE  \A u \in artifacts : u \in artifacts' \/ (mon.pc = "sweep" /\ u \in mon.todo)
    BY <2>1 DEF CleanupTree, MonAt
  <2> QED BY <1>1, <1>3, <2>1 DEF Monitor, RecoverPending, RecoverList, RecoverVisit, RecoverAttach,
          RecoverAdopt, RecoverRecord, RecoverDone, CleanupRows, CleanupTreeFails, TickDone
<1>4. ASSUME NEW t \in Tasks,
             \/ PrepareStart(t) \/ PrepareCancel(t) \/ ConfirmStart(t) \/ StartThread(t)
             \/ \E action \in {"start", "cancel"} : ApprovalExpires(action, t)
             \/ \E c \in Cancellers : ConfirmCancel(c, t)
             \/ Steer(t) \/ SteerSend(t) \/ ReconcileBegin(t) \/ DeadlinePasses(t) \/ ProviderStep(t)
      PROVE  UNCHANGED artifacts
  BY <1>4 DEF PrepareStart, PrepareCancel, ConfirmStart, StartThread, StartPost, StartCreated,
     StartRejected, StartUncertain, StartAttach, StartFail, StartRelease, StartAt, ApprovalExpires,
     ConfirmCancel, CancelAt, Steer, SteerSend, ReconcileBegin, DeadlinePasses, ProviderStep
<1>5. ASSUME NEW c \in Cancellers, CancelThread(c)  PROVE UNCHANGED artifacts
  BY <1>5 DEF CancelThread, CancelRead, CancelMark, CancelQueue, CancelCall, CancelAt
<1>6. CASE Restart
  BY <1>6 DEF Restart
<1> QED BY <1>1, <1>2, <1>3, <1>4, <1>5, <1>6 DEF Next

Judging == {"cancel", "poll", "capture", "manifest", "queue", "finish"}

\* How the holder of reconcile_lock gets to a verdict (service.py:132-158).
LEMMA RecLife ==
    ASSUME TypeOK, Next
    PROVE  \/ rec' = rec
           \/ rec'.pc \notin Judging
           \/ /\ rec'.pc \in {"cancel", "poll", "queue"} /\ rec'.result # "completed"
              /\ rec'.task \in Tasks /\ tasks[rec'.task].status # "absent"
           \/ /\ rec.pc \in Judging /\ rec'.task = rec.task
              /\ rec'.pc \in {"poll", "capture", "queue"}
              /\ rec'.pc = "queue" => rec'.result # "completed"
           \/ CaptureFiles \/ CaptureManifest \/ ReconcileQueue
<1> USE DEF TypeOK
<1>1. CASE UNCHANGED rec
  BY <1>1
<1>2. ASSUME NEW t \in Tasks, ReconcileBegin(t)
      PROVE  \/ rec'.pc \notin Judging
             \/ /\ rec'.pc \in {"cancel", "poll", "queue"} /\ rec'.result # "completed"
                /\ rec'.task \in Tasks /\ tasks[rec'.task].status # "absent"
  BY <1>2 DEF ReconcileBegin, ReadTask, Judging, Active
<1>3. CASE ReconcileCancel
  BY <1>3 DEF ReconcileCancel, RecAt, RecTypeOK, NoRec, Judging
<1>4. CASE ReconcilePoll
  <2>1. rec.pc = "poll" /\ rec \in [pc: {"idle", "cancel", "poll", "capture", "manifest", "queue", "finish",
                     "journal", "stop", "check", "delete", "clear"},
                task: Tasks \cup {Nobody}, session: BOOLEAN, result: Terminal \cup {"none"}, early: BOOLEAN]
    BY <1>4 DEF ReconcilePoll, RecAt, RecTypeOK
  <2> DEFINE r == terminal_result(rec.task)
  <2>2. \/ rec' = NoRec
        \/ r = "completed" /\ rec' = [rec EXCEPT !.pc = "capture", !.result = r]
        \/ r # "completed" /\ rec' = [rec EXCEPT !.pc = "queue", !.result = r]
    BY <1>4 DEF ReconcilePoll
  <2> HIDE DEF r
  <2>3. rec' = NoRec => rec'.pc \notin Judging
    BY DEF NoRec, Judging
  <2>4. ASSUME NEW pc \in {"capture", "queue"}, rec' = [rec EXCEPT !.pc = pc, !.result = r]
        PROVE  rec'.pc = pc /\ rec'.result = r /\ rec'.task = rec.task
    BY <2>1, <2>4
  <2> QED BY <2>1, <2>2, <2>3, <2>4 DEF Judging
<1>5. CASE Reconcile
  <2>1. CASE CleanupRead \/ CleanupCancel \/ CleanupCheck \/ CleanupDelete \/ CleanupClear \/ ReconcileFinish
    BY <2>1 DEF CleanupRead, CleanupCancel, CleanupCheck, CleanupDelete, CleanupClear, CleanupCall,
       ReconcileFinish, RecAt, RecTypeOK, NoRec, Judging
  <2> QED BY <1>3, <1>4, <1>5, <2>1 DEF Reconcile
<1>6. CASE Monitor
  BY <1>1, <1>6 DEF Monitor, RecoverPending, RecoverList, RecoverVisit, RecoverAttach, RecoverAdopt,
     RecoverRecord, RecoverDone, CleanupRows, CleanupTree, CleanupTreeFails, TickDone, MonAt
<1>7. ASSUME NEW t \in Tasks,
             \/ PrepareStart(t) \/ PrepareCancel(t) \/ ConfirmStart(t) \/ StartThread(t)
             \/ \E action \in {"start", "cancel"} : ApprovalExpires(action, t)
             \/ \E c \in Cancellers : ConfirmCancel(c, t)
             \/ Steer(t) \/ SteerSend(t) \/ DeadlinePasses(t) \/ ProviderStep(t)
      PROVE  UNCHANGED rec
  BY <1>7 DEF PrepareStart, PrepareCancel, ConfirmStart, StartThread, StartPost, StartCreated,
     StartRejected, StartUncertain, StartAttach, StartFail, StartRelease, StartAt, ApprovalExpires,
     ConfirmCancel, CancelAt, Steer, SteerSend, DeadlinePasses, ProviderStep, threadVars
<1>8. ASSUME NEW c \in Cancellers, CancelThread(c)  PROVE UNCHANGED rec
  BY <1>8 DEF CancelThread, CancelRead, CancelMark, CancelQueue, CancelCall, CancelAt
<1>9. CASE Restart
  BY <1>9 DEF Restart, NoRec, Judging
<1> QED BY <1>1, <1>2, <1>5, <1>6, <1>7, <1>8, <1>9 DEF Next

-----------------------------------------------------------------------------
(* The invariant.                                                          *)

\* Rows.
LEMMA RowsStep ==
    ASSUME VerdictInv, Next
    PROVE  FreshRows' /\ FinishedIsAnnounced'
<1>1. ASSUME NEW u \in Tasks
      PROVE  /\ tasks'[u].status = "absent" => tasks'[u] = NoTask
             /\ confirmations'["start"][u] # "spent" => tasks'[u].status = "absent"
             /\ tasks'[u].retention <=> notifications'[u] # "none"
             /\ tasks'[u].status \in Terminal => tasks'[u].retention
  <2>1. RowLife(u)
    BY RowLives DEF VerdictInv
  <2>2. /\ tasks[u].status = "absent" => tasks[u] = NoTask
        /\ confirmations["start"][u] # "spent" => tasks[u].status = "absent"
        /\ tasks[u].retention <=> notifications[u] # "none"
        /\ tasks[u].status \in Terminal => tasks[u].retention
    BY DEF VerdictInv, FreshRows, FinishedIsAnnounced
  <2>3. NoTask.status = "absent" /\ ~NoTask.retention /\ "absent" \notin Terminal
    BY DEF NoTask, Terminal
  <2>4. CASE Kept(u)
    BY <2>1, <2>2, <2>4 DEF RowLife, Kept
  <2>5. CASE Made(u)
    <3>1. tasks'[u].status = "creating" /\ ~tasks'[u].retention
      BY <2>5 DEF Made, NoTask
    <3> QED BY <2>2, <2>3, <2>5, <3>1 DEF Made, Terminal
  <2>6. CASE Changed(u)
    BY <2>1, <2>2, <2>6 DEF RowLife, Changed, Terminal
  <2>7. CASE Finished(u)
    BY <2>1, <2>2, <2>3, <2>7 DEF RowLife, Finished
  <2>8. CASE Deleted(u)
    BY <2>1, <2>2, <2>3, <2>8 DEF RowLife, Deleted
  <2> QED BY <2>1, <2>4, <2>5, <2>6, <2>7, <2>8 DEF RowLife
<1> QED BY <1>1 DEF FreshRows, FinishedIsAnnounced

\* The holder of the lock works on a task whose approval has been used.
LEMMA SpentRecStep ==
    ASSUME VerdictInv, Next
    PROVE  SpentRec'
<1>1. SUFFICES ASSUME rec'.pc \in Judging  PROVE confirmations'["start"][rec'.task] = "spent"
  BY DEF SpentRec, Judging
<1>2. SUFFICES rec'.task \in Tasks /\ confirmations["start"][rec'.task] = "spent"
  BY RowsStay
<1>3. CASE rec.pc \in Judging /\ rec'.task = rec.task
  BY <1>3 DEF VerdictInv, SpentRec, Judging, TypeOK, RecTypeOK
<1>4. CASE rec'.task \in Tasks /\ tasks[rec'.task].status # "absent"
  BY <1>4 DEF VerdictInv, FreshRows
<1>5. CASE CaptureFiles \/ CaptureManifest \/ ReconcileQueue
  <2>1. rec.pc \in {"capture", "manifest", "queue"}
    BY <1>5 DEF CaptureFiles, CaptureManifest, ReconcileQueue, RecAt
  <2>2. rec'.task = rec.task
    BY <1>5 DEF CaptureFiles, CaptureManifest, ReconcileQueue, VerdictInv, TypeOK, RecTypeOK
  <2> QED BY <1>3, <2>1, <2>2 DEF Judging
<1>6. TypeOK
  BY DEF VerdictInv
<1> QED BY <1>1, <1>3, <1>4, <1>5, <1>6, RecLife

\* The ids that cleanup goes through after its transaction (service.py:228).
LEMMA SweptRowsStep ==
    ASSUME VerdictInv, Next
    PROVE  SweptRows'
<1> USE DEF VerdictInv, TypeOK
<1>1. SUFFICES ASSUME mon'.pc = "sweep", NEW u \in Tasks, u \in mon'.todo
               PROVE  tasks'[u].status = "absent" /\ confirmations'["start"][u] = "spent"
  <2>1. TypeOK'
    BY NextTypeOK
  <2> QED BY <1>1, <2>1 DEF SweptRows, MonTypeOK
<1>2. CASE mon.pc = "sweep" /\ u \in mon.todo
  BY <1>2, RowsStay DEF SweptRows
<1>3. ASSUME NEW S \in SUBSET Tasks, CleanupRows(S)
      PROVE  tasks'[u].status = "absent" /\ confirmations'["start"][u] = "spent"
  <2>1. u \in S
    BY <1>1, <1>3 DEF CleanupRows, MonIdle
  <2>2. tasks[u].retention /\ tasks'[u].status = "absent" /\ confirmations' = confirmations
    BY <1>3, <2>1 DEF CleanupRows, cleanup, NoTask
  <2>3. tasks[u].status # "absent"
    BY <2>2 DEF FreshRows, NoTask
  <2> QED BY <2>2, <2>3 DEF FreshRows
<1>4. CASE Monitor
  <2>1. CASE \E t \in Tasks : CleanupTree(t)
    BY <1>1, <1>2, <2>1 DEF CleanupTree, MonAt, MonTypeOK
  <2>2. mon'.pc # "sweep" \/ (\E t \in Tasks : CleanupTree(t)) \/ (\E S \in SUBSET Tasks : CleanupRows(S))
    <3>1. RecoverList => mon'.pc # "sweep"
      BY DEF RecoverList, MonIdle, MonTypeOK
    <3>2. NextVisit.pc = "visit"
      BY DEF NextVisit, MonTypeOK
    <3>3. RecoverAttach \/ RecoverAdopt \/ RecoverRecord => mon'.pc # "sweep"
      BY <3>2 DEF RecoverAttach, RecoverAdopt, RecoverRecord, MonTypeOK
    <3>4. RecoverPending \/ RecoverDone => mon'.pc # "sweep"
      <4>1. /\ [MonIdle EXCEPT !.pc = "cleanup"].pc = "cleanup"
            /\ \A S : [MonIdle EXCEPT !.pc = "list", !.todo = S].pc = "list"
        BY DEF MonIdle
      <4> QED BY <4>1 DEF RecoverPending, RecoverDone
    <3>5. CleanupTreeFails \/ TickDone => mon'.pc # "sweep"
      BY DEF CleanupTreeFails, TickDone, MonIdle
    <3>6. ASSUME NEW t \in Tasks, RecoverVisit(t)
          PROVE  mon'.pc # "sweep"
      BY <3>6 DEF RecoverVisit
    <3> QED BY <1>4, <3>1, <3>3, <3>4, <3>5, <3>6 DEF Monitor
  <2> QED BY <1>1, <1>3, <2>1, <2>2
<1>5. CASE UNCHANGED mon
  BY <1>1, <1>2, <1>5
<1>6. CASE Reconcile
  BY <1>5, <1>6 DEF Reconcile, ReconcileCancel, ReconcilePoll, CaptureFiles, CaptureManifest,
     ReconcileQueue, ReconcileFinish, CleanupRead, CleanupCancel, CleanupCheck, CleanupDelete,
     CleanupClear, RecAt
<1>7. ASSUME NEW t \in Tasks,
             \/ PrepareStart(t) \/ PrepareCancel(t) \/ ConfirmStart(t) \/ StartThread(t)
             \/ \E action \in {"start", "cancel"} : ApprovalExpires(action, t)
             \/ \E c \in Cancellers : ConfirmCancel(c, t)
             \/ Steer(t) \/ SteerSend(t) \/ ReconcileBegin(t) \/ DeadlinePasses(t) \/ ProviderStep(t)
      PROVE  UNCHANGED mon
  BY <1>7 DEF PrepareStart, PrepareCancel, ConfirmStart, StartThread, StartPost, StartCreated,
     StartRejected, StartUncertain, StartAttach, StartFail, StartRelease, StartAt, ApprovalExpires,
     ConfirmCancel, CancelAt, Steer, SteerSend, ReconcileBegin, RecAt, DeadlinePasses, ProviderStep,
     threadVars
<1>8. ASSUME NEW c \in Cancellers, CancelThread(c)  PROVE UNCHANGED mon
  BY <1>8 DEF CancelThread, CancelRead, CancelMark, CancelQueue, CancelCall, CancelAt
<1>9. CASE Restart
  BY <1>1, <1>9 DEF Restart, MonIdle
<1> QED BY <1>4, <1>5, <1>6, <1>7, <1>8, <1>9 DEF Next

\* A captured output stays until its verdict, unless its task is deleted.
LEMMA CapturedRecStep ==
    ASSUME VerdictInv, Next
    PROVE  CapturedRec'
<1> DEFINE t == rec.task
<1>a. TypeOK
  BY DEF VerdictInv
<1>b. ASSUME rec.pc \in Judging, t \in artifacts  PROVE tasks'[t].status = "absent" \/ t \in artifacts'
  <2>1. t \in Tasks /\ confirmations["start"][t] = "spent"
    BY <1>b DEF VerdictInv, TypeOK, RecTypeOK, SpentRec, Judging
  <2>2. CASE mon.pc = "sweep" /\ t \in mon.todo
    BY <2>1, <2>2, RowsStay DEF VerdictInv, SweptRows
  <2> QED BY <1>a, <1>b, <2>2, DirectoriesStay
<1>c. ASSUME rec.pc \in Judging
      PROVE  /\ tasks[t].status = "absent" => tasks'[t].status = "absent"
             /\ tasks[t].manifest => tasks'[t].manifest \/ tasks'[t].status = "absent"
  <2>1. t \in Tasks /\ confirmations["start"][t] = "spent"
    BY <1>c DEF VerdictInv, TypeOK, RecTypeOK, SpentRec, Judging
  <2> QED BY <2>1, RowsStay
<1>1. CASE /\ rec.pc \in {"manifest", "queue", "finish"} /\ rec.result = "completed"
           /\ rec'.task = rec.task
           /\ rec.pc = "manifest" => rec'.pc = "manifest"
  BY <1>1, <1>b, <1>c DEF VerdictInv, CapturedRec, Judging
<1>2. CASE rec' = rec
  BY <1>1, <1>2 DEF CapturedRec
<1>3. CASE rec'.pc \notin {"manifest", "queue", "finish"} \/ rec'.result # "completed"
  BY <1>3 DEF CapturedRec
<1>4. CASE CaptureFiles
  <2>1. t \in artifacts' /\ rec.pc = "capture"
    BY <1>4 DEF CaptureFiles, RecAt
  <2>2. \/ rec'.pc = "manifest" /\ rec'.task = t
        \/ rec'.result # "completed"
    BY <1>4 DEF CaptureFiles, VerdictInv, TypeOK, RecTypeOK
  <2> QED BY <2>1, <2>2 DEF CapturedRec
<1>5. CASE CaptureManifest
  <2>1. rec.pc = "manifest" /\ rec'.pc = "queue" /\ rec'.task = t /\ artifacts' = artifacts /\ t \in Tasks
    BY <1>5 DEF CaptureManifest, RecAt, VerdictInv, TypeOK, RecTypeOK
  <2>2. CASE tasks[t].status = "absent"
    BY <1>3, <1>5, <2>2 DEF CaptureManifest, VerdictInv, TypeOK, RecTypeOK
  <2>3. CASE tasks[t].status # "absent"
    <3>1. rec'.result = rec.result
      BY <1>5, <2>3 DEF CaptureManifest, VerdictInv, TypeOK, RecTypeOK
    <3>2. tasks'[t].manifest
      BY <1>5, <2>1, <2>3 DEF CaptureManifest, update_task, VerdictInv, TypeOK, StoreTypeOK, TaskRow
    <3>3. rec.result = "completed" => t \in artifacts
      BY <2>1, <2>3 DEF VerdictInv, CapturedRec
    <3> QED BY <2>1, <3>1, <3>2, <3>3 DEF CapturedRec
  <2> QED BY <2>2, <2>3
<1>6. CASE ReconcileQueue
  <2>1. rec.pc = "queue" /\ rec'.pc = "finish" /\ rec'.task = rec.task /\ rec'.result = rec.result
    BY <1>6 DEF ReconcileQueue, RecAt, VerdictInv, TypeOK, RecTypeOK
  <2> QED BY <1>1, <1>3, <2>1
<1>7. CASE rec'.pc \notin Judging
  BY <1>3, <1>7 DEF Judging
<1> QED BY <1>a, <1>2, <1>3, <1>4, <1>5, <1>6, <1>7, RecLife

\* A completed task keeps its manifest and its directory.
LEMMA CompletedStep ==
    ASSUME VerdictInv, Next
    PROVE  CompletedHasOutput'
<1>1. SUFFICES ASSUME NEW u \in Tasks, tasks'[u].status = "completed"
               PROVE  tasks'[u].manifest /\ u \in artifacts'
  BY DEF CompletedHasOutput
<1>a. TypeOK
  BY DEF VerdictInv
<1>b. "completed" # "absent" /\ "completed" # "creating" /\ NoTask.status = "absent"
      /\ "completed" \in Terminal
  BY DEF NoTask, Terminal
<1>2. tasks[u].status # "absent" /\ tasks[u].manifest /\ u \in artifacts /\ tasks'[u].manifest
  <2>1. RowLife(u)
    BY <1>a, RowLives
  <2>2. CASE Kept(u)
    BY <1>1, <1>b, <2>2 DEF Kept, VerdictInv, CompletedHasOutput
  <2>3. CASE Made(u)
    <3>1. tasks'[u].status = "creating"
      BY <2>3 DEF Made, NoTask
    <3> QED BY <1>1, <1>b, <3>1
  <2>4. CASE Changed(u)
    BY <1>1, <1>b, <2>4 DEF Changed, VerdictInv, CompletedHasOutput
  <2>5. CASE Finished(u)
    BY <1>1, <2>5 DEF Finished, VerdictInv, CapturedRec
  <2>6. CASE Deleted(u)
    BY <1>1, <1>b, <2>6 DEF Deleted
  <2> QED BY <2>1, <2>2, <2>3, <2>4, <2>5, <2>6 DEF RowLife
<1>3. ~(mon.pc = "sweep" /\ u \in mon.todo)
  BY <1>2 DEF VerdictInv, SweptRows
<1> QED BY <1>a, <1>2, <1>3, DirectoriesStay

\* Nothing has a verdict to begin with.
LEMMA VerdictInvInit == Init => VerdictInv
<1> SUFFICES ASSUME Init  PROVE VerdictInv
  OBVIOUS
<1>1. TypeOK
  BY InitTypeOK
<1>2. FreshRows /\ FinishedIsAnnounced /\ CompletedHasOutput
  BY DEF Init, StoreInit, FreshRows, FinishedIsAnnounced, CompletedHasOutput, NoTask, Terminal
<1>3. SpentRec /\ CapturedRec /\ SweptRows
  BY DEF Init, SpentRec, CapturedRec, SweptRows, NoRec, MonIdle
<1> QED BY <1>1, <1>2, <1>3 DEF VerdictInv

\* Every step keeps the invariant.
LEMMA VerdictInvStep ==
    ASSUME VerdictInv, Next
    PROVE  VerdictInv'
<1>1. TypeOK'
  BY NextTypeOK DEF VerdictInv
<1> QED BY <1>1, RowsStep, SpentRecStep, SweptRowsStep, CapturedRecStep, CompletedStep DEF VerdictInv

\* So does no step.
LEMMA VerdictInvStutter == VerdictInv /\ UNCHANGED vars => VerdictInv'
<1> SUFFICES ASSUME VerdictInv, UNCHANGED vars  PROVE VerdictInv'
  OBVIOUS
<1>1. TypeOK'
  BY NextTypeOK DEF VerdictInv
<1> QED BY <1>1 DEF vars, storeVars, threadVars, VerdictInv, FreshRows, SpentRec, SweptRows,
        CapturedRec, FinishedIsAnnounced, CompletedHasOutput

\* A row appears when its approval is used, a verdict comes with its
\* announcement, and "completed" after the capture: the invariant of both.
THEOREM VerdictsCorrect == Spec => []VerdictInv
<1>1. VerdictInv /\ [Next]_vars => VerdictInv'
  BY VerdictInvStep, VerdictInvStutter
<1> QED BY <1>1, VerdictInvInit, PTL DEF Spec

\* No task is kept for ever and none ends in silence: verdict, retention
\* deadline and announcement come and go together (finish_task, cleanup).
THEOREM Announced == Spec => []FinishedIsAnnounced
<1>1. VerdictInv => FinishedIsAnnounced
  BY DEF VerdictInv
<1> QED BY <1>1, VerdictsCorrect, PTL

\* A completed task has its manifest and its files, whatever the monitor and
\* other threads do meanwhile (_capture, finish_task, cleanup).
THEOREM CompletedKept == Spec => []CompletedHasOutput
<1>1. VerdictInv => CompletedHasOutput
  BY DEF VerdictInv
<1> QED BY <1>1, VerdictsCorrect, PTL

=============================================================================
