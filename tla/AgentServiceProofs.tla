------------------------- MODULE AgentServiceProofs -------------------------
(***************************************************************************)
(* Proofs about AgentService, for any number of tasks, cancelling threads  *)
(* and faults.                                                             *)
(***************************************************************************)
EXTENDS AgentService, TLAPS, FiniteSetTheorems

-----------------------------------------------------------------------------
(* The operators of the store keep its tables well typed.                  *)

\* Approvals: creating or consuming one (create_confirmation,
\* consume_confirmation) keeps the table of confirmations well typed.
LEMMA ConfirmationTypes ==
    ASSUME StoreTypeOK, NEW a \in {"start", "cancel"}, NEW t \in Tasks,
           create_confirmation(a, t) \/ consume_confirmation(a, t),
           UNCHANGED <<tasks, remote_work, notifications>>
    PROVE  StoreTypeOK'
BY DEF StoreTypeOK, create_confirmation, consume_confirmation

\* The reservation of confirm_start.
LEMMA ReserveTypes ==
    ASSUME StoreTypeOK, NEW t \in Tasks, reserve_start(t)
    PROVE  StoreTypeOK'
BY DEF StoreTypeOK, reserve_start, consume_confirmation, NoTask, NoWork,
       TaskRow, WorkRow, Active, Terminal

\* A row of the table tasks with some columns assigned is a row.
LEMMA RowTypes ==
    ASSUME NEW row \in TaskRow
    PROVE  /\ \A s \in Terminal : [row EXCEPT !.status = s, !.retention = TRUE] \in TaskRow
           /\ [row EXCEPT !.status = "cancelling"] \in TaskRow
           /\ [row EXCEPT !.manifest = TRUE] \in TaskRow
           /\ [row EXCEPT !.session = TRUE] \in TaskRow
BY DEF TaskRow, Active, Terminal

\* attach_session.
LEMMA AttachTypes ==
    ASSUME StoreTypeOK, NEW t \in Tasks, attach_session(t)
    PROVE  StoreTypeOK'
<1> DEFINE row == [tasks[t] EXCEPT !.session = TRUE,
                                   !.status = IF @ = "creating" THEN "running" ELSE @]
<1>1. row \in TaskRow
  BY DEF StoreTypeOK, TaskRow, Active
<1>2. tasks' = tasks \/ tasks' = [tasks EXCEPT ![t] = row]
  BY DEF attach_session
<1>3. remote_work' \in [Tasks -> WorkRow]
  BY DEF StoreTypeOK, attach_session, WorkRow
<1> QED
  BY <1>1, <1>2, <1>3 DEF StoreTypeOK, attach_session

\* queue_cleanup.
LEMMA QueueTypes ==
    ASSUME StoreTypeOK, NEW t \in Tasks, NEW s \in BOOLEAN, NEW c \in BOOLEAN,
           queue_cleanup(t, s, c)
    PROVE  StoreTypeOK'
BY DEF StoreTypeOK, queue_cleanup, WorkRow

\* clear_remote.
LEMMA ClearTypes ==
    ASSUME StoreTypeOK, NEW t \in Tasks, clear_remote(t)
    PROVE  StoreTypeOK'
BY DEF StoreTypeOK, clear_remote, WorkRow, NoWork

\* update_task.
LEMMA UpdateTypes ==
    ASSUME StoreTypeOK, NEW t \in Tasks, NEW row \in TaskRow, update_task(t, row)
    PROVE  StoreTypeOK'
BY DEF StoreTypeOK, update_task

\* finish_task.
LEMMA FinishTypes ==
    ASSUME StoreTypeOK, NEW t \in Tasks, NEW s \in Terminal, finish_task(t, s)
    PROVE  StoreTypeOK'
<1> DEFINE row == [tasks[t] EXCEPT !.status = s, !.retention = TRUE]
<1>1. row \in TaskRow
  BY RowTypes DEF StoreTypeOK
<1>2. tasks' = tasks \/ tasks' = [tasks EXCEPT ![t] = row]
  <2>1. CASE tasks[t].status \in Active
    BY <2>1 DEF finish_task
  <2>2. CASE tasks[t].status \notin Active
    BY <2>2 DEF finish_task
  <2> QED
    BY <2>1, <2>2
<1>3. notifications' \in [Tasks -> Terminal \cup {"none"}]
  BY DEF StoreTypeOK, finish_task
<1> QED
  BY <1>1, <1>2, <1>3 DEF StoreTypeOK, finish_task

\* cleanup.
LEMMA CleanupTypes ==
    ASSUME StoreTypeOK, NEW S \in SUBSET Tasks, cleanup(S)
    PROVE  StoreTypeOK'
BY DEF StoreTypeOK, cleanup, TaskRow, NoTask, Active, Terminal

\* The backfill of Store.__init__.
LEMMA BackfillTypes ==
    ASSUME StoreTypeOK, backfill
    PROVE  StoreTypeOK'
BY DEF StoreTypeOK, backfill, TaskRow, WorkRow, Active

\* Requests to the provider, and its own steps, keep its state well typed.
LEMMA ProviderTypes ==
    ASSUME ProviderTypeOK, NEW t \in Tasks,
           \/ ProviderCreate(t)
           \/ ProviderReject(t)
           \/ \E outcome \in Outcomes : ProviderEnd(t, outcome)
           \/ ProviderDrop(t)
           \/ CreateSent(t)
           \/ CancelReceived(t)
           \/ DeleteReceived(t)
           \/ SteerReceived(t)
    PROVE  ProviderTypeOK'
BY DEF ProviderTypeOK, ProviderCreate, ProviderReject, ProviderEnd,
       ProviderDrop, CreateSent, CancelReceived, DeleteReceived, SteerReceived,
       MayExist, Live, Working, Gone

-----------------------------------------------------------------------------
(* Type correctness.                                                       *)

\* A fault counted or not counted stays within its bound.
LEMMA FaultTypes ==
    ASSUME faults \in 0..MaxFaults, NoFault \/ Fault
    PROVE  faults' \in 0..MaxFaults
BY ServiceAssumption DEF NoFault, Fault

\* What a step leaves alone stays well typed.
LEMMA UnchangedTypes ==
    ASSUME TypeOK
    PROVE  /\ UNCHANGED storeVars => StoreTypeOK'
           /\ UNCHANGED providerVars => ProviderTypeOK'
           /\ UNCHANGED cancel => CancelTypeOK'
           /\ UNCHANGED rec => RecTypeOK'
           /\ UNCHANGED mon => MonTypeOK'
BY DEF TypeOK, storeVars, providerVars, StoreTypeOK, ProviderTypeOK, CancelTypeOK,
       RecTypeOK, MonTypeOK

\* Every step of approvals and of confirm_start keeps the state well typed.
LEMMA StartTypeSteps ==
    ASSUME TypeOK, NEW t \in Tasks
    PROVE  /\ PrepareStart(t) => TypeOK'
           /\ PrepareCancel(t) => TypeOK'
           /\ \A action \in {"start", "cancel"} : ApprovalExpires(action, t) => TypeOK'
           /\ ConfirmStart(t) => TypeOK'
           /\ StartThread(t) => TypeOK'
<1> USE UnchangedTypes, ProviderTypes DEF StartAt, TypeOK, threadVars
<1>1. ASSUME PrepareStart(t)  PROVE TypeOK'
  <2>1. StoreTypeOK'
    BY <1>1, ConfirmationTypes DEF PrepareStart
  <2> QED
    BY <1>1, <2>1 DEF PrepareStart
<1>2. ASSUME PrepareCancel(t)  PROVE TypeOK'
  <2>1. StoreTypeOK'
    BY <1>2, ConfirmationTypes DEF PrepareCancel
  <2> QED
    BY <1>2, <2>1 DEF PrepareCancel
<1>3. ASSUME NEW action \in {"start", "cancel"}, ApprovalExpires(action, t)  PROVE TypeOK'
  <2>1. StoreTypeOK'
    BY <1>3, ConfirmationTypes DEF ApprovalExpires
  <2> QED
    BY <1>3, <2>1 DEF ApprovalExpires
<1>4. ASSUME ConfirmStart(t)  PROVE TypeOK'
  <2>1. StoreTypeOK'
    BY <1>4, ReserveTypes DEF ConfirmStart
  <2> QED
    BY <1>4, <2>1 DEF ConfirmStart
<1>5. ASSUME StartPost(t)  PROVE TypeOK'
  BY <1>5 DEF StartPost
<1>6. ASSUME StartCreated(t) \/ StartRejected(t) \/ StartUncertain(t)  PROVE TypeOK'
  BY <1>6 DEF StartCreated, StartRejected, StartUncertain
<1>7. ASSUME StartAttach(t)  PROVE TypeOK'
  <2>1. StoreTypeOK'
    BY <1>7, AttachTypes DEF StartAttach
  <2> QED
    BY <1>7, <2>1 DEF StartAttach
<1>8. ASSUME StartFail(t)  PROVE TypeOK'
  <2>1. StoreTypeOK'
    BY <1>8, FinishTypes DEF StartFail, Terminal
  <2> QED
    BY <1>8, <2>1 DEF StartFail
<1>9. ASSUME StartRelease(t)  PROVE TypeOK'
  <2>1. StoreTypeOK'
    BY <1>9, ClearTypes DEF StartRelease
  <2> QED
    BY <1>9, <2>1 DEF StartRelease
<1> QED
  BY <1>1, <1>2, <1>3, <1>4, <1>5, <1>6, <1>7, <1>8, <1>9 DEF StartThread

\* Every step of confirm_cancel and of steer keeps the state well typed.
LEMMA CancelTypeSteps ==
    ASSUME TypeOK, NEW c \in Cancellers
    PROVE  /\ \A t \in Tasks : ConfirmCancel(c, t) => TypeOK'
           /\ CancelThread(c) => TypeOK'
<1> USE UnchangedTypes, ProviderTypes, FaultTypes DEF CancelAt, TypeOK
<1>0. ASSUME cancel[c].pc # "idle"  PROVE cancel[c].task \in Tasks
  BY <1>0 DEF CancelTypeOK
<1>1. ASSUME NEW t \in Tasks, ConfirmCancel(c, t)  PROVE TypeOK'
  <2>1. StoreTypeOK'
    BY <1>1, ConfirmationTypes DEF ConfirmCancel
  <2>2. CancelTypeOK'
    BY <1>1 DEF ConfirmCancel, CancelTypeOK, NoCancel
  <2> QED
    BY <1>1, <2>1, <2>2 DEF ConfirmCancel
<1>2. ASSUME CancelRead(c)  PROVE TypeOK'
  <2>1. tasks[cancel[c].task].session \in BOOLEAN
    BY <1>0, <1>2 DEF CancelRead, StoreTypeOK, TaskRow
  <2>2. CancelTypeOK'
    BY <1>0, <1>2, <2>1 DEF CancelRead, CancelTypeOK, NoCancel
  <2> QED
    BY <1>2, <2>2 DEF CancelRead
<1>3. ASSUME CancelMark(c)  PROVE TypeOK'
  <2>1. [tasks[cancel[c].task] EXCEPT !.status = "cancelling"] \in TaskRow
    BY <1>0, <1>3, RowTypes DEF CancelMark, StoreTypeOK
  <2>2. StoreTypeOK'
    BY <1>0, <1>3, <2>1, UpdateTypes DEF CancelMark
  <2>3. CancelTypeOK'
    BY <1>0, <1>3 DEF CancelMark, CancelTypeOK
  <2> QED
    BY <1>3, <2>2, <2>3 DEF CancelMark
<1>4. ASSUME CancelQueue(c)  PROVE TypeOK'
  <2>1. cancel[c].session \in BOOLEAN
    BY DEF CancelTypeOK
  <2>2. StoreTypeOK'
    BY <1>0, <1>4, <2>1, QueueTypes DEF CancelQueue
  <2>3. CancelTypeOK'
    BY <1>0, <1>4 DEF CancelQueue, CancelTypeOK, NoCancel
  <2> QED
    BY <1>4, <2>2, <2>3 DEF CancelQueue
<1>5. ASSUME CancelCall(c)  PROVE TypeOK'
  <2>1. ProviderTypeOK' /\ faults' \in 0..MaxFaults
    BY <1>0, <1>5 DEF CancelCall
  <2>2. CancelTypeOK'
    BY <1>5 DEF CancelCall, CancelTypeOK, NoCancel
  <2> QED
    BY <1>5, <2>1, <2>2 DEF CancelCall
<1> QED
  BY <1>1, <1>2, <1>3, <1>4, <1>5 DEF CancelThread

\* Every step of reconcile keeps the state well typed.
LEMMA ReconcileTypeSteps ==
    ASSUME TypeOK
    PROVE  /\ \A t \in Tasks : ReconcileBegin(t) => TypeOK'
           /\ Reconcile => TypeOK'
<1> USE UnchangedTypes, ProviderTypes, FaultTypes DEF RecAt, TypeOK
<1>0. ASSUME rec.pc # "idle"  PROVE rec.task \in Tasks
  BY <1>0 DEF RecTypeOK
<1>b. ASSUME rec' = NoRec  PROVE RecTypeOK'
  BY <1>b DEF RecTypeOK, NoRec
<1>1. ASSUME NEW t \in Tasks, ReconcileBegin(t)  PROVE TypeOK'
  <2>1. PICK pc \in {"journal", "queue", "cancel", "poll"}, result \in {"none", "timed_out"} :
             rec' = ReadTask(t, pc, result) /\ (pc = "queue" => result = "timed_out")
    BY <1>1 DEF ReconcileBegin
  <2>2. RecTypeOK'
    <3> DEFINE unspent == confirmations["start"][t] # "spent"
    <3>1. tasks[t].session \in BOOLEAN /\ unspent \in BOOLEAN
      BY DEF StoreTypeOK, TaskRow
    <3>2. rec' = [pc |-> pc, task |-> t, session |-> tasks[t].session, result |-> result,
                  early |-> unspent]
      BY <2>1 DEF ReadTask
    <3> HIDE DEF unspent
    <3> QED BY <2>1, <3>1, <3>2 DEF RecTypeOK, Terminal
  <2> QED
    BY <1>1, <2>2 DEF ReconcileBegin
<1>2. ASSUME ReconcileCancel  PROVE TypeOK'
  <2>1. ProviderTypeOK' /\ faults' \in 0..MaxFaults
    BY <1>0, <1>2 DEF ReconcileCancel
  <2>2. RecTypeOK'
    BY <1>2, <1>b DEF ReconcileCancel, RecTypeOK
  <2> QED
    BY <1>2, <2>1, <2>2 DEF ReconcileCancel
<1>3. ASSUME ReconcilePoll  PROVE TypeOK'
  <2>1. terminal_result(rec.task) \in Terminal \cup {"none"}
    BY ServiceAssumption DEF terminal_result, Terminal
  <2>2. \/ rec' = NoRec
        \/ /\ terminal_result(rec.task) # "none"
           /\ \E pc \in {"capture", "queue"} :
                  rec' = [rec EXCEPT !.pc = pc, !.result = terminal_result(rec.task)]
    BY <1>3 DEF ReconcilePoll
  <2>3. ASSUME NEW pc \in {"capture", "queue"}, NEW result \in Terminal \cup {"none"},
               result # "none", rec' = [rec EXCEPT !.pc = pc, !.result = result]
        PROVE  RecTypeOK'
    <3>1. rec.task \in Tasks
      BY <1>0, <1>3 DEF ReconcilePoll
    <3>2. rec' = [pc |-> pc, task |-> rec.task, session |-> rec.session, result |-> result,
                     early |-> rec.early]
      BY <2>3 DEF RecTypeOK
    <3> QED
      BY <2>3, <3>1, <3>2 DEF RecTypeOK
  <2>4. RecTypeOK'
    BY <1>b, <2>1, <2>2, <2>3
  <2> QED
    BY <1>3, <2>4 DEF ReconcilePoll
<1>4. ASSUME CaptureFiles  PROVE TypeOK'
  <2>1. RecTypeOK'
    BY <1>4 DEF CaptureFiles, RecTypeOK, Terminal
  <2> QED
    BY <1>0, <1>4, <2>1 DEF CaptureFiles
<1>5. ASSUME CaptureManifest  PROVE TypeOK'
  <2>1. [tasks[rec.task] EXCEPT !.manifest = TRUE] \in TaskRow
    BY <1>0, <1>5, RowTypes DEF CaptureManifest, StoreTypeOK
  <2>2. StoreTypeOK'
    BY <1>0, <1>5, <2>1, UpdateTypes DEF CaptureManifest
  <2>3. RecTypeOK'
    BY <1>5 DEF CaptureManifest, RecTypeOK, Terminal
  <2> QED
    BY <1>5, <2>2, <2>3 DEF CaptureManifest
<1>6. ASSUME ReconcileQueue  PROVE TypeOK'
  <2>1. rec.session \in BOOLEAN /\ (rec.result = "timed_out") \in BOOLEAN
    BY DEF RecTypeOK
  <2>2. StoreTypeOK'
    BY <1>0, <1>6, <2>1, QueueTypes DEF ReconcileQueue
  <2>3. RecTypeOK'
    BY <1>6 DEF ReconcileQueue, RecTypeOK
  <2> QED
    BY <1>6, <2>2, <2>3 DEF ReconcileQueue
<1>7. ASSUME ReconcileFinish  PROVE TypeOK'
  <2>1. rec.result \in Terminal
    BY <1>7 DEF ReconcileFinish, RecTypeOK
  <2>2. StoreTypeOK'
    BY <1>0, <1>7, <2>1, FinishTypes DEF ReconcileFinish
  <2>3. RecTypeOK'
    BY <1>7 DEF ReconcileFinish, RecTypeOK
  <2> QED
    BY <1>7, <2>2, <2>3 DEF ReconcileFinish
<1>8. ASSUME CleanupRead  PROVE TypeOK'
  <2>1. RecTypeOK'
    BY <1>8, <1>b DEF CleanupRead, RecTypeOK
  <2> QED
    BY <1>8, <2>1 DEF CleanupRead
<1>9. ASSUME CleanupCancel \/ CleanupCheck \/ CleanupDelete  PROVE TypeOK'
  <2> USE DEF CleanupCancel, CleanupCheck, CleanupDelete, CleanupCall
  <2>1. ProviderTypeOK' /\ faults' \in 0..MaxFaults
    BY <1>0, <1>9
  <2>2. \/ rec' = NoRec
        \/ rec' = [rec EXCEPT !.pc = "check"]
        \/ rec' = [rec EXCEPT !.pc = "delete"]
        \/ rec' = [rec EXCEPT !.pc = "clear"]
    BY <1>9
  <2>3. RecTypeOK'
    BY <1>0, <1>9, <1>b, <2>2 DEF RecTypeOK
  <2> QED
    BY <1>9, <2>1, <2>3
<1>10. ASSUME CleanupClear  PROVE TypeOK'
  <2>1. StoreTypeOK'
    BY <1>0, <1>10, ClearTypes DEF CleanupClear
  <2>2. RecTypeOK'
    BY <1>10, <1>b DEF CleanupClear
  <2> QED
    BY <1>10, <2>1, <2>2 DEF CleanupClear
<1> QED
  BY <1>1, <1>2, <1>3, <1>4, <1>5, <1>6, <1>7, <1>8, <1>9, <1>10 DEF Reconcile

\* The monitor between two parts of a tick.
LEMMA MonIdleTypes ==
    ASSUME mon' = MonIdle \/ mon' = [MonIdle EXCEPT !.pc = "cleanup"]
    PROVE  MonTypeOK'
<1>1. CASE mon' = MonIdle
  BY <1>1 DEF MonIdle, MonTypeOK
<1>2. CASE mon' = [MonIdle EXCEPT !.pc = "cleanup"]
  BY <1>2 DEF MonIdle, MonTypeOK
<1> QED
  BY <1>1, <1>2

\* Every step of the monitor keeps the state well typed.
LEMMA MonitorTypeSteps ==
    ASSUME TypeOK, Monitor
    PROVE  TypeOK'
<1> USE UnchangedTypes, FaultTypes DEF MonAt, TypeOK
<1>0. mon.todo \in SUBSET Tasks /\ mon.known \in BOOLEAN
  BY DEF MonTypeOK
<1>1. CASE RecoverPending
  <2>1. MonTypeOK'
    BY <1>1 DEF RecoverPending, MonTypeOK, MonIdle
  <2> QED
    BY <1>1, <2>1 DEF RecoverPending
<1>2. CASE RecoverList
  <2>1. MonTypeOK'
    BY <1>2, <1>0 DEF RecoverList, MonTypeOK, MonIdle
  <2> QED
    BY <1>2, <2>1 DEF RecoverList
<1>3. ASSUME NEW t \in Tasks, RecoverVisit(t)  PROVE TypeOK'
  <2>1. MonTypeOK'
    BY <1>3, <1>0 DEF RecoverVisit, MonTypeOK
  <2> QED
    BY <1>3, <2>1 DEF RecoverVisit
<1>4. CASE RecoverAttach
  <2>1. mon.task \in Tasks
    BY <1>4 DEF RecoverAttach, MonTypeOK
  <2>2. StoreTypeOK'
    BY <1>4, <2>1, AttachTypes DEF RecoverAttach
  <2>3. MonTypeOK'
    BY <1>4 DEF RecoverAttach, NextVisit, MonTypeOK
  <2> QED
    BY <1>4, <2>2, <2>3 DEF RecoverAttach
<1>5. CASE RecoverAdopt
  <2>1. mon.task \in Tasks
    BY <1>5 DEF RecoverAdopt, MonTypeOK
  <2>2. StoreTypeOK'
    BY <1>5, <2>1, QueueTypes DEF RecoverAdopt
  <2>3. MonTypeOK'
    BY <1>5, <2>1 DEF RecoverAdopt, NextVisit, MonTypeOK
  <2> QED
    BY <1>5, <2>2, <2>3 DEF RecoverAdopt
<1>6. CASE RecoverRecord
  <2>1. mon.task \in Tasks
    BY <1>6 DEF RecoverRecord, MonTypeOK
  <2>2. [tasks[mon.task] EXCEPT !.session = TRUE] \in TaskRow
    BY <2>1, RowTypes DEF StoreTypeOK
  <2>3. StoreTypeOK'
    BY <1>6, <2>1, <2>2, UpdateTypes DEF RecoverRecord
  <2>4. MonTypeOK'
    BY <1>6 DEF RecoverRecord, NextVisit, MonTypeOK
  <2> QED
    BY <1>6, <2>3, <2>4 DEF RecoverRecord
<1>7. CASE RecoverDone \/ CleanupTreeFails \/ TickDone
  <2>1. mon' = MonIdle \/ mon' = [MonIdle EXCEPT !.pc = "cleanup"]
    BY <1>7 DEF RecoverDone, CleanupTreeFails, TickDone
  <2>2. MonTypeOK'
    BY <2>1, MonIdleTypes
  <2> QED
    BY <1>7, <2>2 DEF RecoverDone, CleanupTreeFails, TickDone
<1>8. ASSUME NEW S \in SUBSET Tasks, CleanupRows(S)  PROVE TypeOK'
  <2>1. StoreTypeOK'
    BY <1>8, CleanupTypes DEF CleanupRows
  <2>2. MonTypeOK'
    BY <1>8 DEF CleanupRows, MonTypeOK, MonIdle
  <2> QED
    BY <1>8, <2>1, <2>2 DEF CleanupRows
<1>9. ASSUME NEW t \in Tasks, CleanupTree(t)  PROVE TypeOK'
  <2>1. MonTypeOK'
    BY <1>9, <1>0 DEF CleanupTree, MonTypeOK
  <2> QED
    BY <1>9, <2>1 DEF CleanupTree
<1> QED
  BY <1>1, <1>2, <1>3, <1>4, <1>5, <1>6, <1>7, <1>8, <1>9 DEF Monitor

\* Steer messages, time, the provider and restarts keep the state well typed.
LEMMA EnvironmentTypeSteps ==
    ASSUME TypeOK
    PROVE  /\ \A t \in Tasks : Steer(t) \/ SteerSend(t) => TypeOK'
           /\ \A t \in Tasks : DeadlinePasses(t) \/ ProviderStep(t) => TypeOK'
           /\ Restart => TypeOK'
<1> USE UnchangedTypes, ProviderTypes, FaultTypes DEF TypeOK
<1>1. ASSUME NEW t \in Tasks, Steer(t)  PROVE TypeOK'
  BY <1>1 DEF Steer
<1>2. ASSUME NEW t \in Tasks, SteerSend(t)  PROVE TypeOK'
  <2>1. ProviderTypeOK' /\ faults' \in 0..MaxFaults
    BY <1>2 DEF SteerSend
  <2> QED
    BY <1>2, <2>1 DEF SteerSend
<1>3. ASSUME NEW t \in Tasks, DeadlinePasses(t)  PROVE TypeOK'
  BY <1>3 DEF DeadlinePasses, threadVars
<1>4. ASSUME NEW t \in Tasks, ProviderStep(t)  PROVE TypeOK'
  <2>1. ProviderTypeOK' /\ faults' \in 0..MaxFaults
    BY <1>4 DEF ProviderStep
  <2> QED
    BY <1>4, <2>1 DEF ProviderStep, threadVars
<1>5. ASSUME Restart  PROVE TypeOK'
  <2>1. StoreTypeOK'
    BY <1>5, BackfillTypes DEF Restart
  <2>2. CancelTypeOK' /\ RecTypeOK' /\ MonTypeOK'
    BY <1>5 DEF Restart, CancelTypeOK, RecTypeOK, MonTypeOK, NoCancel, NoRec, MonIdle
  <2> QED
    BY <1>5, <2>1, <2>2 DEF Restart
<1> QED
  BY <1>1, <1>2, <1>3, <1>4, <1>5

\* The initial state is well typed.
LEMMA InitTypeOK == Init => TypeOK
BY ServiceAssumption DEF Init, StoreInit, ProviderInit, TypeOK, StoreTypeOK, ProviderTypeOK,
   CancelTypeOK, RecTypeOK, MonTypeOK, TaskRow, WorkRow, NoTask, NoWork, NoCancel, NoRec, MonIdle

\* Every step keeps the state well typed.
LEMMA NextTypeOK == TypeOK /\ [Next]_vars => TypeOK'
<1> SUFFICES ASSUME TypeOK, [Next]_vars  PROVE TypeOK'
  OBVIOUS
<1>1. CASE Next
  BY <1>1, StartTypeSteps, CancelTypeSteps, ReconcileTypeSteps, MonitorTypeSteps,
     EnvironmentTypeSteps DEF Next
<1>2. CASE UNCHANGED vars
  BY <1>2, UnchangedTypes DEF vars, threadVars, TypeOK
<1> QED
  BY <1>1, <1>2

\* Every state the daemon reaches is well typed: tables, program counters, and
\* in particular every thread at work has a task (service.py, store.py).
THEOREM TypeCorrect == Spec => []TypeOK
  BY InitTypeOK, NextTypeOK, PTL DEF Spec

-----------------------------------------------------------------------------
(* Sessions and slots.  What a step may do to one task, whichever thread   *)
(* takes it: to its session, to its rows, and to its confirm_start.        *)

RemoteStep(t) ==
    \/ remote'[t] = remote[t]
    \/ /\ remote[t] = "none" /\ remote'[t] = "posted"
       /\ start[t] = "post" /\ start'[t] = "wait"
    \/ remote[t] = "posted" /\ remote'[t] \in {"active", "rejected"}
    \/ remote[t] \in Live /\ remote'[t] \in Live \cup Gone

RowStep(t) ==
    /\ remote_work[t].present /\ ~remote_work'[t].present =>
           remote[t] \in Gone \cup {"rejected"}
    /\ remote_work'[t].session \/ tasks'[t].session => Created(t)

StartStep(t) ==
    \/ /\ start'[t] = start[t]
       /\ confirmations'["start"][t] # "spent" => confirmations["start"][t] # "spent"
    \/ /\ confirmations'["start"][t] = confirmations["start"][t]
       /\ \/ start'[t] = "idle"
          \/ start[t] = "post" /\ start'[t] = "wait"
          \/ start[t] = "wait" /\ start'[t] = "attach" /\ Created(t)
          \/ start[t] = "wait" /\ start'[t] = "reject" /\ remote[t] = "rejected"
          \/ start[t] = "reject" /\ start'[t] = "release"
    \/ /\ start'[t] = "post" /\ confirmations'["start"][t] = "spent"
       /\ confirmations["start"][t] = "open" /\ remote_work'[t].present
       /\ ConfirmStart(t)

\* Every step moves each session along its life: requested, then created or
\* refused, then gone (agents.py, as confirm_start, confirm_cancel and
\* _cleanup_remote use it).
LEMMA RemoteSteps ==
    ASSUME IndInv, Next
    PROVE  \A u \in Tasks : RemoteStep(u)
<1> USE DEF IndInv, TypeOK, ProviderTypeOK
<1>1. CASE UNCHANGED remote
  BY <1>1 DEF RemoteStep
<1>2. ASSUME NEW t \in Tasks, StartThread(t)  PROVE \A u \in Tasks : RemoteStep(u)
  <2>1. CASE StartPost(t)
    BY <2>1 DEF StartPost, StartAt, CreateSent, RemoteStep
  <2>2. CASE ~StartPost(t)
    BY <1>1, <1>2, <2>2 DEF StartThread, StartCreated, StartRejected, StartUncertain, StartAttach,
       StartFail, StartRelease, providerVars
  <2> QED
    BY <2>1, <2>2
<1>3. ASSUME NEW c \in Cancellers, CancelThread(c)  PROVE \A u \in Tasks : RemoteStep(u)
  <2>1. CASE CancelCall(c)
    BY <2>1 DEF CancelCall, CancelReceived, RemoteStep, providerVars, Live, Working
  <2>2. CASE ~CancelCall(c)
    BY <1>1, <1>3, <2>2 DEF CancelThread, CancelRead, CancelMark, CancelQueue, providerVars
  <2> QED
    BY <2>1, <2>2
<1>4. ASSUME NEW t \in Tasks, SteerSend(t)  PROVE \A u \in Tasks : RemoteStep(u)
  BY <1>4 DEF SteerSend, SteerReceived, RemoteStep, providerVars, Live, Working
<1>5. ASSUME NEW t \in Tasks, ProviderStep(t)  PROVE \A u \in Tasks : RemoteStep(u)
  BY <1>5 DEF ProviderStep, ProviderCreate, ProviderReject, ProviderEnd, ProviderDrop,
     RemoteStep, Live, Working, Gone
<1>6. CASE ReconcileCancel
  BY <1>6 DEF ReconcileCancel, CancelReceived, RemoteStep, providerVars, Live, Working
<1>7. CASE CleanupCancel \/ CleanupCheck
  BY <1>7 DEF CleanupCancel, CleanupCheck, CleanupCall, CancelReceived, RemoteStep, providerVars,
     Live, Working
<1>8. CASE CleanupDelete
  <2>1. Created(rec.task)
    BY <1>8 DEF CleanupDelete, RecAt, KnownSessions, KnownByRec
  <2> QED
    BY <1>8, <2>1 DEF CleanupDelete, CleanupCall, DeleteReceived, RemoteStep, providerVars,
       Created, Gone
<1>9. CASE Reconcile
  BY <1>1, <1>6, <1>7, <1>8, <1>9 DEF Reconcile, ReconcilePoll, CaptureFiles, CaptureManifest,
     ReconcileQueue, ReconcileFinish, CleanupRead, CleanupClear, providerVars
<1>10. CASE Monitor
  BY <1>1, <1>10 DEF Monitor, RecoverPending, RecoverList, RecoverVisit, RecoverAttach, RecoverAdopt,
     RecoverRecord, RecoverDone, CleanupRows, CleanupTree, CleanupTreeFails, TickDone, providerVars
<1>11. CASE Restart
  BY <1>1, <1>11 DEF Restart, providerVars
<1>12. ASSUME NEW t \in Tasks,
              \/ PrepareStart(t)
              \/ PrepareCancel(t)
              \/ \E action \in {"start", "cancel"} : ApprovalExpires(action, t)
              \/ ConfirmStart(t)
              \/ \E c \in Cancellers : ConfirmCancel(c, t)
              \/ Steer(t)
              \/ ReconcileBegin(t)
              \/ DeadlinePasses(t)
       PROVE  \A u \in Tasks : RemoteStep(u)
  BY <1>1, <1>12 DEF PrepareStart, PrepareCancel, ApprovalExpires, ConfirmStart, ConfirmCancel,
     Steer, ReconcileBegin, DeadlinePasses, providerVars
<1> QED
  BY <1>2, <1>3, <1>4, <1>5, <1>9, <1>10, <1>11, <1>12 DEF Next

\* Every step releases only the slot of a session that is gone or was refused,
\* and writes only identifiers of sessions that have existed (store.py, with
\* the callers of clear_remote, queue_cleanup and attach_session).
LEMMA RowSteps ==
    ASSUME IndInv, Next
    PROVE  \A u \in Tasks : RowStep(u)
<1> USE DEF IndInv, TypeOK, StoreTypeOK
<1>a. \A u \in Tasks : tasks[u] \in TaskRow
  OBVIOUS
<1>0. \A u \in Tasks : remote_work[u].session \/ tasks[u].session => Created(u)
  BY DEF KnownSessions, KnownByRows
<1>1. CASE UNCHANGED <<tasks, remote_work>>
  BY <1>0, <1>1 DEF RowStep
<1>2. ASSUME NEW t \in Tasks, attach_session(t), Created(t)  PROVE \A u \in Tasks : RowStep(u)
  BY <1>0, <1>2 DEF RowStep, attach_session, TaskRow, WorkRow
<1>3. ASSUME NEW t \in Tasks, NEW s \in BOOLEAN, NEW c \in BOOLEAN, queue_cleanup(t, s, c),
             s => Created(t)
      PROVE  \A u \in Tasks : RowStep(u)
  BY <1>0, <1>3 DEF RowStep, queue_cleanup, WorkRow
<1>4. ASSUME NEW t \in Tasks, clear_remote(t), remote[t] \in Gone \cup {"rejected"}
      PROVE  \A u \in Tasks : RowStep(u)
  BY <1>0, <1>4 DEF RowStep, clear_remote, NoWork, WorkRow
<1>5. ASSUME NEW t \in Tasks, NEW row \in TaskRow, update_task(t, row), row.session => Created(t)
      PROVE  \A u \in Tasks : RowStep(u)
  BY <1>0, <1>5 DEF RowStep, update_task
<1>6. ASSUME NEW t \in Tasks, NEW s \in Terminal, finish_task(t, s)
      PROVE  \A u \in Tasks : RowStep(u)
  <2>1. \A u \in Tasks : tasks'[u].session = tasks[u].session
    <3>1. CASE tasks[t].status \in Active
      <4> DEFINE row == [tasks[t] EXCEPT !.status = s, !.retention = TRUE]
      <4>1. tasks' = [tasks EXCEPT ![t] = row]
        BY <1>6, <3>1 DEF finish_task
      <4>2. row.session = tasks[t].session
        BY <1>a DEF TaskRow
      <4> HIDE DEF row
      <4> QED
        BY <4>1, <4>2
    <3>2. CASE tasks[t].status \notin Active
      BY <1>6, <3>2 DEF finish_task
    <3> QED
      BY <3>1, <3>2
  <2>2. UNCHANGED remote_work
    BY <1>6 DEF finish_task
  <2> QED
    BY <1>0, <2>1, <2>2 DEF RowStep
<1>7. ASSUME NEW t \in Tasks, StartThread(t)  PROVE \A u \in Tasks : RowStep(u)
  <2>1. CASE StartAttach(t)
    BY <1>2, <2>1 DEF StartAttach, StartAt, KnownSessions, KnownByRows
  <2>2. CASE StartFail(t)
    BY <1>6, <2>2 DEF StartFail, Terminal
  <2>3. CASE StartRelease(t)
    BY <1>4, <2>3 DEF StartRelease, StartAt, RejectedStart
  <2>4. CASE StartPost(t) \/ StartCreated(t) \/ StartRejected(t) \/ StartUncertain(t)
    BY <1>1, <2>4 DEF StartPost, StartCreated, StartRejected, StartUncertain, storeVars
  <2> QED
    BY <1>7, <2>1, <2>2, <2>3, <2>4 DEF StartThread
<1>8. ASSUME NEW c \in Cancellers, CancelThread(c)  PROVE \A u \in Tasks : RowStep(u)
  <2> DEFINE t == cancel[c].task
  <2>0. t \in Tasks /\ cancel[c].session \in BOOLEAN
    BY <1>8 DEF CancelThread, CancelRead, CancelMark, CancelQueue, CancelCall, CancelAt, CancelTypeOK
  <2>1. CASE CancelMark(c)
    <3>1. [tasks[t] EXCEPT !.status = "cancelling"] \in TaskRow
      BY <1>a, <2>0, RowTypes
    <3>2. [tasks[t] EXCEPT !.status = "cancelling"].session => Created(t)
      BY <1>0, <1>a, <2>0 DEF TaskRow
    <3> QED
      BY <1>5, <2>0, <2>1, <3>1, <3>2 DEF CancelMark
  <2>2. CASE CancelQueue(c)
    <3>1. cancel[c].session => Created(t)
      BY DEF KnownSessions, KnownByCancel
    <3>2. queue_cleanup(t, cancel[c].session, TRUE)
      BY <2>2 DEF CancelQueue
    <3> QED
      BY <1>3, <2>0, <3>1, <3>2
  <2>3. CASE CancelRead(c) \/ CancelCall(c)
    BY <1>1, <2>3 DEF CancelRead, CancelCall, storeVars
  <2> QED
    BY <1>8, <2>1, <2>2, <2>3 DEF CancelThread
<1>9. CASE Reconcile
  <2>0. rec.task \in Tasks /\ rec.session \in BOOLEAN
    BY <1>9 DEF Reconcile, ReconcileCancel, ReconcilePoll, CaptureFiles, CaptureManifest,
       ReconcileQueue, ReconcileFinish, CleanupRead, CleanupCancel, CleanupCheck, CleanupDelete,
       CleanupClear, RecAt, RecTypeOK
  <2>1. CASE CaptureManifest
    <3>1. [tasks[rec.task] EXCEPT !.manifest = TRUE] \in TaskRow
      BY <1>a, <2>0, RowTypes
    <3>2. [tasks[rec.task] EXCEPT !.manifest = TRUE].session => Created(rec.task)
      BY <1>0, <1>a, <2>0 DEF TaskRow
    <3> QED
      BY <1>5, <2>0, <2>1, <3>1, <3>2 DEF CaptureManifest
  <2>2. CASE ReconcileQueue
    <3>1. rec.session => Created(rec.task)
      BY DEF KnownSessions, KnownByRec
    <3>2. queue_cleanup(rec.task, rec.session, rec.result = "timed_out")
      BY <2>2 DEF ReconcileQueue
    <3>3. (rec.result = "timed_out") \in BOOLEAN
      OBVIOUS
    <3> QED
      BY <1>3, <2>0, <3>1, <3>2, <3>3
  <2>3. CASE ReconcileFinish
    BY <1>6, <2>0, <2>3 DEF ReconcileFinish, RecAt, RecTypeOK
  <2>4. CASE CleanupClear
    BY <1>4, <2>0, <2>4 DEF CleanupClear, RecAt, KnownSessions, KnownByRec
  <2>5. CASE ReconcileCancel \/ ReconcilePoll \/ CaptureFiles \/ CleanupRead
    BY <1>1, <2>5 DEF ReconcileCancel, ReconcilePoll, CaptureFiles, CleanupRead, storeVars
  <2>6. CASE CleanupCancel \/ CleanupCheck \/ CleanupDelete
    BY <1>1, <2>6 DEF CleanupCancel, CleanupCheck, CleanupDelete, CleanupCall, storeVars
  <2> QED
    BY <1>9, <2>1, <2>2, <2>3, <2>4, <2>5, <2>6 DEF Reconcile
<1>10. CASE Monitor
  <2>1. CASE RecoverAttach
    BY <1>2, <2>1 DEF RecoverAttach, MonAt, MonTypeOK, KnownSessions, KnownByMon
  <2>2. CASE RecoverAdopt
    BY <1>3, <2>2 DEF RecoverAdopt, MonAt, MonTypeOK, KnownSessions, KnownByMon
  <2>3. CASE RecoverRecord
    <3>1. mon.task \in Tasks /\ Created(mon.task)
      BY <2>3 DEF RecoverRecord, MonAt, MonTypeOK, KnownSessions, KnownByMon
    <3>2. [tasks[mon.task] EXCEPT !.session = TRUE] \in TaskRow
      BY <1>a, <3>1, RowTypes
    <3> QED
      BY <1>5, <2>3, <3>1, <3>2 DEF RecoverRecord
  <2>4. ASSUME NEW S \in SUBSET Tasks, CleanupRows(S)  PROVE \A u \in Tasks : RowStep(u)
    BY <1>0, <2>4 DEF CleanupRows, cleanup, RowStep, NoTask
  <2>5. CASE \/ RecoverPending \/ RecoverList \/ \E t \in Tasks : RecoverVisit(t) \/ RecoverDone
             \/ \E t \in Tasks : CleanupTree(t) \/ CleanupTreeFails \/ TickDone
    BY <1>1, <2>5 DEF RecoverPending, RecoverList, RecoverVisit, RecoverDone, CleanupTree,
       CleanupTreeFails, TickDone, storeVars
  <2> QED
    BY <1>10, <2>1, <2>2, <2>3, <2>4, <2>5 DEF Monitor
<1>11. CASE Restart
  BY <1>0, <1>11 DEF Restart, backfill, RowStep, WorkRow, TaskRow
<1>12. ASSUME NEW t \in Tasks, ConfirmStart(t)  PROVE \A u \in Tasks : RowStep(u)
  BY <1>0, <1>12 DEF ConfirmStart, reserve_start, RowStep, NoTask, NoWork, TaskRow, WorkRow
<1>13. ASSUME NEW t \in Tasks,
              \/ PrepareStart(t)
              \/ PrepareCancel(t)
              \/ \E action \in {"start", "cancel"} : ApprovalExpires(action, t)
              \/ \E c \in Cancellers : ConfirmCancel(c, t)
              \/ Steer(t)
              \/ SteerSend(t)
              \/ ReconcileBegin(t)
              \/ DeadlinePasses(t)
              \/ ProviderStep(t)
       PROVE  \A u \in Tasks : RowStep(u)
  BY <1>1, <1>13 DEF PrepareStart, PrepareCancel, ApprovalExpires, ConfirmCancel, Steer,
     SteerSend, ReconcileBegin, DeadlinePasses, ProviderStep, storeVars
<1> QED
  BY <1>7, <1>8, <1>9, <1>10, <1>11, <1>12, <1>13 DEF Next

\* Every step moves each confirm_start along its handler, and uses its approval
\* when it takes its slot (service.py:57).
LEMMA StartSteps ==
    ASSUME IndInv, Next
    PROVE  \A u \in Tasks : StartStep(u)
<1> USE DEF IndInv, TypeOK, StoreTypeOK
<1>1. CASE UNCHANGED <<start, confirmations>>
  BY <1>1 DEF StartStep
<1>2. ASSUME NEW t \in Tasks, ConfirmStart(t)  PROVE \A u \in Tasks : StartStep(u)
  BY <1>2 DEF ConfirmStart, StartAt, reserve_start, consume_confirmation, NoWork, StartStep, WorkRow
<1>3. ASSUME NEW t \in Tasks, StartThread(t)  PROVE \A u \in Tasks : StartStep(u)
  <2>1. UNCHANGED confirmations
    BY <1>3 DEF StartThread, StartPost, StartCreated, StartRejected, StartUncertain, StartAttach,
       StartFail, StartRelease, attach_session, finish_task, clear_remote, storeVars
  <2>2. CASE StartPost(t) \/ StartCreated(t) \/ StartRejected(t) \/ StartFail(t)
    BY <2>1, <2>2 DEF StartPost, StartCreated, StartRejected, StartFail, StartAt, StartStep, Created
  <2>3. CASE StartUncertain(t) \/ StartAttach(t) \/ StartRelease(t)
    BY <2>1, <2>3 DEF StartUncertain, StartAttach, StartRelease, StartAt, StartStep
  <2> QED
    BY <1>3, <2>2, <2>3 DEF StartThread
<1>4. ASSUME NEW t \in Tasks,
             \/ PrepareStart(t)
             \/ PrepareCancel(t)
             \/ \E action \in {"start", "cancel"} : ApprovalExpires(action, t)
             \/ \E c \in Cancellers : ConfirmCancel(c, t)
      PROVE  \A u \in Tasks : StartStep(u)
  BY <1>4 DEF PrepareStart, PrepareCancel, ApprovalExpires, ConfirmCancel, CancelAt,
     create_confirmation, consume_confirmation, threadVars, StartStep
<1>5. ASSUME NEW t \in Tasks,
             \/ Steer(t)
             \/ SteerSend(t)
             \/ ReconcileBegin(t)
             \/ DeadlinePasses(t)
             \/ ProviderStep(t)
      PROVE  \A u \in Tasks : StartStep(u)
  BY <1>1, <1>5 DEF Steer, SteerSend, ReconcileBegin, RecAt, DeadlinePasses, ProviderStep,
     storeVars, threadVars
<1>6. ASSUME NEW c \in Cancellers, CancelThread(c)  PROVE \A u \in Tasks : StartStep(u)
  BY <1>1, <1>6 DEF CancelThread, CancelRead, CancelMark, CancelQueue, CancelCall, CancelAt,
     update_task, queue_cleanup, storeVars
<1>7. CASE Reconcile
  BY <1>1, <1>7 DEF Reconcile, ReconcileCancel, ReconcilePoll, CaptureFiles, CaptureManifest,
     ReconcileQueue, ReconcileFinish, CleanupRead, CleanupCancel, CleanupCheck, CleanupDelete,
     CleanupCall, CleanupClear, RecAt, update_task, queue_cleanup, finish_task, clear_remote, storeVars
<1>8. CASE Monitor
  BY <1>1, <1>8 DEF Monitor, RecoverPending, RecoverList, RecoverVisit, RecoverAttach, RecoverAdopt,
     RecoverRecord, RecoverDone, CleanupRows, CleanupTree, CleanupTreeFails, TickDone, MonAt,
     attach_session, queue_cleanup, update_task, cleanup, storeVars
<1>9. CASE Restart
  BY <1>9 DEF Restart, backfill, StartStep
<1> QED
  BY <1>2, <1>3, <1>4, <1>5, <1>6, <1>7, <1>8, <1>9 DEF Next

\* A session that has existed has existed for ever, and one that is gone stays so.
LEMMA CreatedStays ==
    ASSUME NEW t \in Tasks, RemoteStep(t), ServiceAssumption
    PROVE  /\ Created(t) => Created(t)'
           /\ remote[t] \in Gone => remote'[t] \in Gone
           /\ remote[t] = "rejected" => remote'[t] = "rejected"
BY DEF RemoteStep, Created, Live, Working, Gone


\* The identifiers held by confirm_cancel handlers stay those of sessions that
\* have existed (service.py:103 reads them, service.py:106 writes them back).
LEMMA CancelKnows ==
    ASSUME IndInv, Next
    PROVE  KnownByCancel'
<1> USE DEF IndInv, TypeOK, CancelTypeOK
<1>1. \A u \in Tasks : Created(u) => Created(u)'
  BY RemoteSteps, CreatedStays, ServiceAssumption
<1>2. \A c \in Cancellers : cancel[c].session => cancel[c].task \in Tasks /\ Created(cancel[c].task)
  BY DEF KnownSessions, KnownByCancel
<1>3. \A t \in Tasks : tasks[t].session => Created(t)
  BY DEF KnownSessions, KnownByRows
<1>4. ASSUME \A c \in Cancellers :
                \/ ~cancel'[c].session
                \/ cancel'[c].task = cancel[c].task /\ cancel'[c].session = cancel[c].session
                \/ cancel'[c].task \in Tasks /\ Created(cancel'[c].task)
      PROVE  KnownByCancel'
  BY <1>1, <1>2, <1>4 DEF KnownByCancel
<1>5. CASE UNCHANGED cancel
  BY <1>4, <1>5
<1>6. ASSUME NEW c \in Cancellers, NEW t \in Tasks, ConfirmCancel(c, t)  PROVE KnownByCancel'
  BY <1>4, <1>6 DEF ConfirmCancel, NoCancel
<1>7. ASSUME NEW c \in Cancellers, CancelThread(c)  PROVE KnownByCancel'
  <2>1. CASE CancelRead(c)
    <3>1. cancel[c].task \in Tasks
      BY <2>1 DEF CancelRead, CancelAt
    <3> QED
      BY <1>3, <1>4, <2>1, <3>1 DEF CancelRead, NoCancel
  <2>2. CASE CancelMark(c)
    BY <1>4, <2>2 DEF CancelMark
  <2>3. CASE CancelQueue(c)
    BY <1>4, <2>3 DEF CancelQueue, NoCancel
  <2>4. CASE CancelCall(c)
    BY <1>4, <2>4 DEF CancelCall, NoCancel
  <2> QED
    BY <1>7, <2>1, <2>2, <2>3, <2>4 DEF CancelThread
<1>8. CASE Restart
  BY <1>4, <1>8 DEF Restart, NoCancel
<1>9. CASE Monitor
  BY <1>5, <1>9 DEF Monitor, RecoverPending, RecoverList, RecoverVisit, RecoverAttach, RecoverAdopt,
     RecoverRecord, RecoverDone, CleanupRows, CleanupTree, CleanupTreeFails, TickDone, MonAt
<1>10. CASE Reconcile
  BY <1>5, <1>10 DEF Reconcile, ReconcileCancel, ReconcilePoll, CaptureFiles, CaptureManifest,
     ReconcileQueue, ReconcileFinish, CleanupRead, CleanupCancel, CleanupCheck, CleanupDelete,
     CleanupClear, RecAt
<1>11. ASSUME NEW t \in Tasks, StartThread(t)  PROVE KnownByCancel'
  BY <1>5, <1>11 DEF StartThread, StartPost, StartCreated, StartRejected, StartUncertain,
     StartAttach, StartFail, StartRelease, StartAt
<1>12. ASSUME NEW t \in Tasks,
              \/ PrepareStart(t)
              \/ PrepareCancel(t)
              \/ \E action \in {"start", "cancel"} : ApprovalExpires(action, t)
              \/ ConfirmStart(t)
              \/ Steer(t)
              \/ SteerSend(t)
              \/ ReconcileBegin(t)
              \/ DeadlinePasses(t)
              \/ ProviderStep(t)
       PROVE  KnownByCancel'
  BY <1>5, <1>12 DEF PrepareStart, PrepareCancel, ApprovalExpires, ConfirmStart, StartAt, Steer,
     SteerSend, ReconcileBegin, RecAt, DeadlinePasses, ProviderStep, threadVars
<1> QED
  BY <1>6, <1>7, <1>8, <1>9, <1>10, <1>11, <1>12 DEF Next

\* The identifier held by the holder of reconcile_lock stays that of a session
\* that has existed, and only a session that is gone has its row cleared
\* (service.py:162-175).
LEMMA RecKnows ==
    ASSUME IndInv, Next
    PROVE  KnownByRec'
<1> USE DEF IndInv, TypeOK
<1>0. \A u \in Tasks : (Created(u) => Created(u)') /\ (remote[u] \in Gone => remote'[u] \in Gone)
  BY RemoteSteps, CreatedStays, ServiceAssumption
<1>1. \A t \in Tasks : tasks[t].session \/ remote_work[t].session => Created(t)
  BY DEF KnownSessions, KnownByRows
<1>2. CASE UNCHANGED rec
  <2>1. rec.pc = "clear" => rec.task \in Tasks
    BY DEF RecTypeOK
  <2> QED
    BY <1>0, <1>2, <2>1 DEF KnownSessions, KnownByRec
<1>3. CASE rec' = NoRec
  BY <1>3 DEF NoRec, KnownByRec
<1>4. ASSUME NEW t \in Tasks, ReconcileBegin(t)  PROVE KnownByRec'
  BY <1>0, <1>1, <1>4 DEF ReconcileBegin, ReadTask, KnownByRec
<1>5. CASE Reconcile
  <2>a. rec.pc # "idle"
    BY <1>5 DEF Reconcile, ReconcileCancel, ReconcilePoll, CaptureFiles, CaptureManifest,
       ReconcileQueue, ReconcileFinish, CleanupRead, CleanupCancel, CleanupCheck, CleanupDelete,
       CleanupClear, RecAt
  <2>b. rec.task \in Tasks
    BY <2>a DEF RecTypeOK
  <2>c. rec.session => Created(rec.task)
    BY DEF KnownSessions, KnownByRec
  <2>0. /\ rec.task \in Tasks
        /\ rec.session => remote'[rec.task] \in Live \cup Gone
    BY <1>0, <2>b, <2>c DEF Created
  <2>1. ASSUME rec'.task = rec.task, rec'.session = rec.session,
               rec'.pc \in {"poll", "capture", "manifest", "queue", "finish", "journal"}
        PROVE  KnownByRec'
    BY <2>0, <2>1 DEF KnownByRec, Created
  <2>2. ASSUME rec'.task = rec.task, rec'.pc \in {"stop", "check", "delete"}, Created(rec.task)
        PROVE  KnownByRec'
    BY <1>0, <2>0, <2>2 DEF KnownByRec, Created
  <2>3. ASSUME rec' = [rec EXCEPT !.pc = "clear"], remote'[rec.task] \in Gone
        PROVE  KnownByRec'
    BY <2>0, <2>3 DEF KnownByRec, Created, RecTypeOK
  <2>d. ASSUME NEW pc \in {"poll", "capture", "manifest", "queue", "finish", "journal"},
               \/ rec' = [rec EXCEPT !.pc = pc]
               \/ \E result : rec' = [rec EXCEPT !.pc = pc, !.result = result]
        PROVE  KnownByRec'
    <3>1. rec'.pc = pc /\ rec'.task = rec.task /\ rec'.session = rec.session
      BY <2>d DEF RecTypeOK
    <3> QED
      BY <2>1, <3>1
  <2>4. CASE ReconcileCancel
    <3>1. rec' = NoRec \/ rec' = [rec EXCEPT !.pc = "poll"]
      BY <2>4 DEF ReconcileCancel
    <3> QED
      BY <1>3, <2>d, <3>1
  <2>9. CASE ReconcilePoll
    <3>1. \/ rec' = NoRec
          \/ rec' = [rec EXCEPT !.pc = "capture", !.result = terminal_result(rec.task)]
          \/ rec' = [rec EXCEPT !.pc = "queue", !.result = terminal_result(rec.task)]
      BY <2>9 DEF ReconcilePoll
    <3> QED
      BY <1>3, <2>d, <3>1
  <2>10. CASE CaptureFiles
    <3>1. rec' = [rec EXCEPT !.pc = "manifest"] \/ rec' = [rec EXCEPT !.pc = "queue", !.result = "failed"]
      BY <2>10 DEF CaptureFiles
    <3> QED
      BY <2>d, <3>1
  <2>5. CASE CaptureManifest \/ ReconcileQueue \/ ReconcileFinish
    BY <2>1, <2>5 DEF CaptureManifest, ReconcileQueue, ReconcileFinish, RecTypeOK
  <2>6. CASE CleanupRead
    BY <1>1, <1>3, <2>0, <2>2, <2>6 DEF CleanupRead, RecTypeOK
  <2>7. CASE CleanupCancel \/ CleanupCheck \/ CleanupDelete
    <3>1. Created(rec.task)
      BY <2>7 DEF CleanupCancel, CleanupCheck, CleanupDelete, RecAt, KnownSessions, KnownByRec
    <3>2. \/ rec' = NoRec
          \/ rec' = [rec EXCEPT !.pc = "check"]
          \/ rec' = [rec EXCEPT !.pc = "delete"]
          \/ rec' = [rec EXCEPT !.pc = "clear"] /\ remote[rec.task] \in Gone
          \/ rec' = [rec EXCEPT !.pc = "clear"] /\ DeleteReceived(rec.task)
      BY <2>7 DEF CleanupCancel, CleanupCheck, CleanupDelete, CleanupCall
    <3>3. DeleteReceived(rec.task) => remote'[rec.task] \in Gone
      BY <2>0 DEF DeleteReceived, ProviderTypeOK, Gone
    <3>4. rec.pc # "clear" /\ rec.task \in Tasks
      BY <2>0, <2>7 DEF CleanupCancel, CleanupCheck, CleanupDelete, RecAt
    <3> QED
      BY <1>0, <1>3, <2>2, <2>3, <3>1, <3>2, <3>3, <3>4 DEF RecTypeOK
  <2>8. CASE CleanupClear
    BY <1>3, <2>8 DEF CleanupClear
  <2> QED
    BY <1>5, <2>4, <2>5, <2>6, <2>7, <2>8, <2>9, <2>10 DEF Reconcile
<1>6. CASE Restart
  BY <1>3, <1>6 DEF Restart
<1>7. CASE Monitor
  BY <1>2, <1>7 DEF Monitor, RecoverPending, RecoverList, RecoverVisit, RecoverAttach, RecoverAdopt,
     RecoverRecord, RecoverDone, CleanupRows, CleanupTree, CleanupTreeFails, TickDone, MonAt
<1>8. ASSUME NEW t \in Tasks, StartThread(t)  PROVE KnownByRec'
  BY <1>2, <1>8 DEF StartThread, StartPost, StartCreated, StartRejected, StartUncertain,
     StartAttach, StartFail, StartRelease, StartAt
<1>9. ASSUME NEW c \in Cancellers, CancelThread(c)  PROVE KnownByRec'
  BY <1>2, <1>9 DEF CancelThread, CancelRead, CancelMark, CancelQueue, CancelCall, CancelAt
<1>10. ASSUME NEW t \in Tasks,
              \/ PrepareStart(t)
              \/ PrepareCancel(t)
              \/ \E action \in {"start", "cancel"} : ApprovalExpires(action, t)
              \/ ConfirmStart(t)
              \/ \E c \in Cancellers : ConfirmCancel(c, t)
              \/ Steer(t)
              \/ SteerSend(t)
              \/ DeadlinePasses(t)
              \/ ProviderStep(t)
       PROVE  KnownByRec'
  BY <1>2, <1>10 DEF PrepareStart, PrepareCancel, ApprovalExpires, ConfirmStart, StartAt,
     ConfirmCancel, CancelAt, Steer, SteerSend, DeadlinePasses, ProviderStep, threadVars
<1> QED
  BY <1>4, <1>5, <1>6, <1>7, <1>8, <1>9, <1>10 DEF Next

\* The sessions recover matched against its snapshot are sessions that have
\* existed, however old the snapshot is (service.py:178-187).
LEMMA MonKnows ==
    ASSUME IndInv, Next
    PROVE  KnownByMon'
<1> USE DEF IndInv, TypeOK
<1> DEFINE Made(u) == remote'[u] \in Live \cup Gone
<1>0. \A u \in Tasks : Created(u) => Made(u)
  BY RemoteSteps, CreatedStays, ServiceAssumption DEF Created
<1>1. ASSUME \A t \in mon'.todo : t \in Tasks /\ Created(t),
             mon'.pc # "visit" => mon'.task \in Tasks /\ Created(mon'.task)
      PROVE  KnownByMon'
  BY <1>0, <1>1 DEF KnownByMon, Created
<1>2. CASE UNCHANGED mon
  <2>1. mon.todo \subseteq Tasks
    BY DEF MonTypeOK
  <2>2. CASE mon.pc \in {"visit", "attach", "adopt", "record"}
    <3>1. mon.pc # "visit" => mon.task \in Tasks
      BY <2>2 DEF MonTypeOK
    <3> QED
      BY <1>1, <1>2, <2>1, <2>2, <3>1 DEF KnownSessions, KnownByMon
  <2>3. CASE mon.pc \notin {"visit", "attach", "adopt", "record"}
    BY <1>2, <2>3 DEF KnownByMon
  <2> QED
    BY <2>2, <2>3
<1>3. ASSUME mon'.pc \in {"recover", "list", "cleanup", "sweep"}  PROVE KnownByMon'
  BY <1>3 DEF KnownByMon
<1>4. CASE Monitor
  <2>1. CASE \/ RecoverPending \/ RecoverDone \/ \E S \in SUBSET Tasks : CleanupRows(S)
             \/ CleanupTreeFails \/ TickDone
    <3>1. CASE RecoverDone \/ CleanupTreeFails \/ TickDone
      BY <1>3, <3>1 DEF RecoverDone, CleanupTreeFails, TickDone, MonIdle
    <3>3. CASE RecoverPending
      <4>1. PICK S : mon' = [MonIdle EXCEPT !.pc = "list", !.todo = S]
        BY <3>3 DEF RecoverPending
      <4> QED
        BY <1>3, <4>1 DEF MonIdle
    <3>2. ASSUME NEW S \in SUBSET Tasks, CleanupRows(S)  PROVE KnownByMon'
      <4>1. mon' = [MonIdle EXCEPT !.pc = "sweep", !.todo = S]
        BY <3>2 DEF CleanupRows
      <4> QED
        BY <1>3, <4>1 DEF MonIdle
    <3> QED
      BY <2>1, <3>1, <3>2, <3>3
  <2>2. ASSUME NEW t \in Tasks, CleanupTree(t)  PROVE KnownByMon'
    BY <1>3, <2>2 DEF CleanupTree, MonAt, MonTypeOK
  <2>3. CASE RecoverList
    <3>1. CASE mon' = [MonIdle EXCEPT !.pc = "cleanup"]
      BY <1>3, <3>1 DEF MonIdle
    <3>2. CASE mon' = [mon EXCEPT !.pc = "visit", !.todo = {t \in mon.todo : remote[t] \in Live}]
      <4>1. mon'.pc = "visit" /\ mon'.todo = {t \in mon.todo : remote[t] \in Live}
        BY <3>2 DEF MonTypeOK
      <4>2. mon.todo \subseteq Tasks
        BY DEF MonTypeOK
      <4> QED
        BY <1>1, <4>1, <4>2 DEF Created
    <3> QED
      BY <2>3, <3>1, <3>2 DEF RecoverList
  <2>4. ASSUME NEW t \in Tasks, RecoverVisit(t)  PROVE KnownByMon'
    <3>1. t \in mon.todo /\ mon.pc = "visit" /\ mon'.todo = mon.todo \ {t} /\ mon'.task = t
      BY <2>4 DEF RecoverVisit, MonAt
    <3>2. mon.todo \subseteq Tasks
      BY DEF MonTypeOK
    <3>3. \A u \in mon.todo : Created(u)
      BY <3>1 DEF KnownSessions, KnownByMon
    <3> QED
      BY <1>1, <3>1, <3>2, <3>3
  <2>5. ASSUME mon' = NextVisit, mon.pc \in {"attach", "adopt", "record"}  PROVE KnownByMon'
    <3>1. mon'.pc = "visit" /\ mon'.todo = mon.todo
      BY <2>5 DEF NextVisit, MonTypeOK
    <3>2. \A u \in mon.todo : u \in Tasks /\ Created(u)
      BY <2>5 DEF KnownSessions, KnownByMon, MonTypeOK
    <3> QED
      BY <1>1, <3>1, <3>2
  <2>6. CASE RecoverAttach \/ RecoverRecord
    BY <2>5, <2>6 DEF RecoverAttach, RecoverRecord, MonAt
  <2>7. CASE RecoverAdopt
    <3>1. CASE mon' = NextVisit
      BY <2>5, <2>7, <3>1 DEF RecoverAdopt, MonAt
    <3>2. CASE mon' = [mon EXCEPT !.pc = "record"]
      <4>1. mon'.todo = mon.todo /\ mon'.task = mon.task
        BY <3>2 DEF MonTypeOK
      <4>2. mon.pc = "adopt"
        BY <2>7 DEF RecoverAdopt, MonAt
      <4>3. mon.task \in Tasks /\ Created(mon.task)
        BY <4>2 DEF MonTypeOK, KnownSessions, KnownByMon
      <4>4. \A u \in mon.todo : u \in Tasks /\ Created(u)
        BY <4>2 DEF KnownSessions, KnownByMon, MonTypeOK
      <4> QED
        BY <1>1, <4>1, <4>3, <4>4
    <3> QED
      BY <2>7, <3>1, <3>2 DEF RecoverAdopt
  <2> QED
    BY <1>4, <2>1, <2>2, <2>3, <2>4, <2>6, <2>7 DEF Monitor
<1>5. CASE Restart
  BY <1>3, <1>5 DEF Restart, MonIdle
<1>6. CASE Reconcile
  BY <1>2, <1>6 DEF Reconcile, ReconcileCancel, ReconcilePoll, CaptureFiles, CaptureManifest,
     ReconcileQueue, ReconcileFinish, CleanupRead, CleanupCancel, CleanupCheck, CleanupDelete,
     CleanupClear, RecAt
<1>7. ASSUME NEW t \in Tasks, StartThread(t)  PROVE KnownByMon'
  BY <1>2, <1>7 DEF StartThread, StartPost, StartCreated, StartRejected, StartUncertain,
     StartAttach, StartFail, StartRelease, StartAt
<1>8. ASSUME NEW c \in Cancellers, CancelThread(c)  PROVE KnownByMon'
  BY <1>2, <1>8 DEF CancelThread, CancelRead, CancelMark, CancelQueue, CancelCall, CancelAt
<1>9. ASSUME NEW t \in Tasks,
             \/ PrepareStart(t)
             \/ PrepareCancel(t)
             \/ \E action \in {"start", "cancel"} : ApprovalExpires(action, t)
             \/ ConfirmStart(t)
             \/ \E c \in Cancellers : ConfirmCancel(c, t)
             \/ Steer(t)
             \/ SteerSend(t)
             \/ ReconcileBegin(t)
             \/ DeadlinePasses(t)
             \/ ProviderStep(t)
      PROVE  KnownByMon'
  BY <1>2, <1>9 DEF PrepareStart, PrepareCancel, ApprovalExpires, ConfirmStart, StartAt,
     ConfirmCancel, CancelAt, Steer, SteerSend, ReconcileBegin, RecAt, DeadlinePasses,
     ProviderStep, threadVars
<1> QED
  BY <1>4, <1>5, <1>6, <1>7, <1>8, <1>9 DEF Next

LEMMA IndInvInit == Init => IndInv
<1> SUFFICES ASSUME Init  PROVE IndInv
  OBVIOUS
<1>1. TypeOK
  BY InitTypeOK
<1>2. NoOrphanSession /\ UnsentStart /\ RejectedStart /\ KnownByRows
  BY ServiceAssumption DEF Init, StoreInit, ProviderInit, NoOrphanSession, MayExist, Live, Working,
     UnsentStart, RejectedStart, KnownByRows, NoTask, NoWork
<1>3. KnownByCancel /\ KnownByRec /\ KnownByMon
  BY DEF Init, KnownByCancel, KnownByRec, KnownByMon, NoCancel, NoRec, MonIdle
<1> QED
  BY <1>1, <1>2, <1>3 DEF IndInv, KnownSessions

LEMMA IndInvStep ==
    ASSUME IndInv, Next
    PROVE  IndInv'
<1>1. TypeOK'
  BY NextTypeOK DEF IndInv
<1>2. \A u \in Tasks : RemoteStep(u) /\ RowStep(u) /\ StartStep(u)
  BY RemoteSteps, RowSteps, StartSteps
<1>3. NoOrphanSession'
  <2> SUFFICES ASSUME NEW t \in Tasks, remote'[t] \in MayExist
               PROVE  remote_work'[t].present
    BY DEF NoOrphanSession
  <2>1. remote[t] \in MayExist \/ (remote[t] = "none" /\ start[t] = "post")
    BY <1>2, ServiceAssumption DEF RemoteStep, MayExist, Live, Working, Gone
  <2>2. remote_work[t].present
    BY <2>1 DEF IndInv, NoOrphanSession, UnsentStart
  <2>3. remote[t] \notin Gone \cup {"rejected"}
    BY <2>1, ServiceAssumption DEF MayExist, Live, Working, Gone
  <2> QED
    BY <1>2, <2>2, <2>3 DEF RowStep
<1>4. UnsentStart'
  <2> SUFFICES ASSUME NEW t \in Tasks
               PROVE  /\ confirmations'["start"][t] # "spent" => start'[t] = "idle" /\ remote'[t] = "none"
                      /\ start'[t] = "post" => remote'[t] = "none" /\ remote_work'[t].present
    BY DEF UnsentStart
  <2>1. /\ confirmations["start"][t] # "spent" => start[t] = "idle" /\ remote[t] = "none"
        /\ start[t] = "post" => remote[t] = "none" /\ remote_work[t].present
    BY DEF IndInv, UnsentStart
  <2>2. remote[t] = "none" =>
            remote'[t] = "none" \/ (start[t] = "post" /\ start'[t] = "wait")
    BY <1>2, ServiceAssumption DEF RemoteStep, Live, Working
  <2>3. remote[t] = "none" /\ remote_work[t].present => remote_work'[t].present
    BY <1>2 DEF RowStep, Gone
  <2>4. StartStep(t)
    BY <1>2
  <2> QED
    BY <2>1, <2>2, <2>3, <2>4 DEF StartStep
<1>5. \A t \in Tasks : /\ Created(t) => remote'[t] \in Live \cup Gone
                       /\ remote[t] = "rejected" => remote'[t] = "rejected"
  BY <1>2, CreatedStays, ServiceAssumption DEF Created
<1>6. RejectedStart'
  BY <1>2, <1>5 DEF IndInv, RejectedStart, StartStep
<1>7. KnownByRows'
  <2> SUFFICES ASSUME NEW t \in Tasks,
                      tasks'[t].session \/ remote_work'[t].session \/ start'[t] = "attach"
               PROVE  remote'[t] \in Live \cup Gone
    BY DEF KnownByRows, Created
  <2>1. start'[t] = "attach" => Created(t)
    BY <1>2 DEF StartStep, IndInv, KnownSessions, KnownByRows
  <2> QED
    BY <1>2, <1>5, <2>1 DEF RowStep
<1>8. KnownByCancel' /\ KnownByRec' /\ KnownByMon'
  BY CancelKnows, RecKnows, MonKnows
<1> QED
  BY <1>1, <1>3, <1>4, <1>6, <1>7, <1>8 DEF IndInv, KnownSessions

LEMMA IndInvStutter == IndInv /\ UNCHANGED vars => IndInv'
<1> SUFFICES ASSUME IndInv, UNCHANGED vars  PROVE IndInv'
  OBVIOUS
<1> USE DEF vars, storeVars, providerVars, threadVars
<1>1. TypeOK'
  BY NextTypeOK DEF IndInv
<1>2. NoOrphanSession' /\ UnsentStart' /\ RejectedStart' /\ KnownByRows'
  BY DEF IndInv, KnownSessions, NoOrphanSession, UnsentStart, RejectedStart, KnownByRows, Created
<1>3. KnownByCancel' /\ KnownByRec' /\ KnownByMon'
  BY DEF IndInv, KnownSessions, KnownByCancel, KnownByRec, KnownByMon, Created
<1> QED
  BY <1>1, <1>2, <1>3 DEF IndInv, KnownSessions

THEOREM KnownSessionsCorrect == Spec => []IndInv
<1>1. IndInv /\ [Next]_vars => IndInv'
  BY IndInvStep, IndInvStutter
<1> QED
  BY <1>1, IndInvInit, PTL DEF Spec

\* A session that exists, or that a request still under way may create, is in
\* the journal, whatever the number of tasks, handlers, failures and crashes.
THEOREM NoOrphans == Spec => []NoOrphanSession
<1>1. IndInv => NoOrphanSession
  BY DEF IndInv
<1> QED
  BY <1>1, KnownSessionsCorrect, PTL

-----------------------------------------------------------------------------
(* The capacity: an occupying task is in the journal, and only confirm_start *)
(* makes a task occupying, when the journal is not full.                     *)

LEMMA OccupyingJournalled ==
    ASSUME IndInv
    PROVE  /\ Occupying \subseteq Journalled
           /\ IsFiniteSet(Journalled) /\ IsFiniteSet(Occupying)
           /\ Cardinality(Occupying) \in Nat /\ Cardinality(Journalled) \in Nat
           /\ Cardinality(Occupying) <= Cardinality(Journalled)
<1>1. Occupying \subseteq Journalled
  BY DEF IndInv, NoOrphanSession, UnsentStart, Occupying, Journalled
<1>2. IsFiniteSet(Journalled)
  BY FS_Subset, StoreAssumption DEF Journalled
<1> QED
  BY <1>1, <1>2, FS_Subset, FS_CardinalityType

LEMMA CapacityStep ==
    ASSUME IndInv, WithinCapacity, Next
    PROVE  WithinCapacity'
<1>1. /\ IsFiniteSet(Occupying)
      /\ Cardinality(Occupying) \in Nat /\ Cardinality(Journalled) \in Nat
      /\ Cardinality(Occupying) <= Cardinality(Journalled)
  BY OccupyingJournalled
<1>2. \A u \in Tasks : RemoteStep(u) /\ StartStep(u)
  BY RemoteSteps, StartSteps
<1>3. \A u \in Tasks : u \in Occupying' => u \in Occupying \/ ConfirmStart(u)
  <2> SUFFICES ASSUME NEW u \in Tasks, u \in Occupying', ~ConfirmStart(u)
               PROVE  u \in Occupying
    OBVIOUS
  <2>1. start'[u] = "post" \/ remote'[u] \in MayExist
    BY DEF Occupying
  <2>2. start'[u] = "post" => start[u] = "post"
    BY <1>2 DEF StartStep
  <2>3. remote'[u] \in MayExist => remote[u] \in MayExist \/ start[u] = "post"
    BY <1>2, ServiceAssumption DEF RemoteStep, MayExist, Live, Working, Gone
  <2> QED
    BY <2>1, <2>2, <2>3 DEF Occupying
<1>4. ASSUME \A u \in Tasks : ~ConfirmStart(u)  PROVE WithinCapacity'
  <2>1. Occupying' \subseteq Occupying
    BY <1>3, <1>4 DEF Occupying
  <2>2. Cardinality(Occupying') <= Cardinality(Occupying) /\ Cardinality(Occupying') \in Nat
    BY <1>1, <2>1, FS_Subset, FS_CardinalityType
  <2> QED
    BY <1>1, <2>2, StoreAssumption DEF WithinCapacity
<1>5. ASSUME NEW t \in Tasks, ConfirmStart(t)  PROVE WithinCapacity'
  <2>1. \A u \in Tasks \ {t} : ~ConfirmStart(u)
    BY <1>5 DEF ConfirmStart, StartAt, IndInv, TypeOK
  <2>2. Occupying' \subseteq Occupying \cup {t}
    BY <1>3, <2>1 DEF Occupying
  <2>3. /\ IsFiniteSet(Occupying \cup {t})
        /\ Cardinality(Occupying \cup {t}) <= Cardinality(Occupying) + 1
    <3>1. /\ IsFiniteSet(Occupying \cup {t})
          /\ Cardinality(Occupying \cup {t}) =
                 IF t \in Occupying THEN Cardinality(Occupying) ELSE Cardinality(Occupying) + 1
      BY <1>1, FS_AddElement, Zenon
    <3> QED
      BY <1>1, <3>1
  <2>4. Cardinality(Occupying') <= Cardinality(Occupying) + 1 /\ Cardinality(Occupying') \in Nat
    BY <1>1, <2>2, <2>3, FS_Subset, FS_CardinalityType
  <2>5. Cardinality(Journalled) < MaxActive
    BY <1>5 DEF ConfirmStart, reserve_start
  <2> QED
    BY <1>1, <2>4, <2>5, StoreAssumption DEF WithinCapacity
<1> QED
  BY <1>4, <1>5

\* Never more sessions than max_active, the ones still to be created included:
\* the count of journal rows (store.py:103) bounds what the provider holds.
THEOREM Capacity == Spec => []WithinCapacity
<1>1. Init => WithinCapacity
  <2> SUFFICES ASSUME Init  PROVE WithinCapacity
    OBVIOUS
  <2>1. Occupying = {}
    BY ServiceAssumption DEF Init, ProviderInit, Occupying, MayExist, Live, Working
  <2> QED
    BY <2>1, FS_EmptySet, StoreAssumption DEF WithinCapacity
<1>2. WithinCapacity /\ UNCHANGED vars => WithinCapacity'
  BY DEF WithinCapacity, Occupying, vars, providerVars, threadVars
<1>3. IndInv /\ WithinCapacity /\ [Next]_vars => WithinCapacity'
  BY <1>2, CapacityStep
<1> QED
  BY <1>1, <1>3, KnownSessionsCorrect, PTL DEF Spec

=============================================================================
