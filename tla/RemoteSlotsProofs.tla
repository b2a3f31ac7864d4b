------------------------- MODULE RemoteSlotsProofs --------------------------
(***************************************************************************)
(* AgentService implements RemoteSlots, for any number of tasks,           *)
(* cancelling threads and faults.                                          *)
(***************************************************************************)
EXTENDS AgentServiceProofs

-----------------------------------------------------------------------------
(* A thread that puts a row back into the journal must not take a slot for *)
(* a session that is still to come.  So whatever makes it do so, a task    *)
(* row, an approval to cancel, a handler under way, belongs to a task that *)
(* holds its slot or whose session is over.                                *)

Begun(t) == remote_work[t].present \/ remote[t] \in Gone \cup {"rejected"}

BegunRows ==
    \A t \in Tasks :
        tasks[t].status # "absent" \/ confirmations["cancel"][t] # "none" => Begun(t)

BegunCancel == \A c \in Cancellers : cancel[c].pc # "idle" => Begun(cancel[c].task)

BegunRec ==
    rec.pc \in {"cancel", "poll", "capture", "manifest", "queue", "finish"} => Begun(rec.task)

SlotInv == IndInv /\ BegunRows /\ BegunCancel /\ BegunRec

\* What a step may do to the rows of a task: a task row comes with its slot
\* (reserve_start), an approval to cancel needs a task row (prepare_cancel).
RowOrigin(t) ==
    /\ tasks'[t].status # "absent" => tasks[t].status # "absent" \/ remote_work'[t].present
    /\ confirmations'["cancel"][t] # "none" =>
           confirmations["cancel"][t] # "none" \/ tasks[t].status # "absent"

\* Where the task rows and the approvals to cancel come from (store.py:91-114,
\* 128, 157, 219 and their callers).
LEMMA RowOrigins ==
    ASSUME IndInv, Next
    PROVE  \A u \in Tasks : RowOrigin(u)
<1> USE DEF IndInv, TypeOK, StoreTypeOK
<1>a. \A u \in Tasks : tasks[u] \in TaskRow
  OBVIOUS
<1>1. CASE UNCHANGED <<tasks, confirmations>>
  BY <1>1 DEF RowOrigin
<1>2. ASSUME NEW t \in Tasks, attach_session(t)  PROVE \A u \in Tasks : RowOrigin(u)
  BY <1>2 DEF RowOrigin, attach_session, TaskRow
<1>3. ASSUME NEW t \in Tasks, NEW row, update_task(t, row)  PROVE \A u \in Tasks : RowOrigin(u)
  BY <1>3 DEF RowOrigin, update_task
<1>4. ASSUME NEW t \in Tasks, NEW s \in Terminal, finish_task(t, s)
      PROVE  \A u \in Tasks : RowOrigin(u)
  <2>1. \A u \in Tasks : tasks[u].status = "absent" => tasks'[u].status = "absent"
    <3>1. CASE tasks[t].status \in Active
      BY <1>4, <3>1 DEF finish_task, Active
    <3>2. CASE tasks[t].status \notin Active
      BY <1>4, <3>2 DEF finish_task
    <3> QED
      BY <3>1, <3>2
  <2> QED
    BY <1>4, <2>1 DEF RowOrigin, finish_task
<1>5. ASSUME NEW t \in Tasks, ConfirmStart(t)  PROVE \A u \in Tasks : RowOrigin(u)
  BY <1>5 DEF ConfirmStart, reserve_start, consume_confirmation, RowOrigin, NoTask, NoWork, WorkRow
<1>6. ASSUME NEW t \in Tasks,
             \/ PrepareStart(t)
             \/ PrepareCancel(t)
             \/ \E action \in {"start", "cancel"} : ApprovalExpires(action, t)
             \/ \E c \in Cancellers : ConfirmCancel(c, t)
      PROVE  \A u \in Tasks : RowOrigin(u)
  BY <1>6 DEF PrepareStart, PrepareCancel, ApprovalExpires, ConfirmCancel, create_confirmation,
     consume_confirmation, RowOrigin
<1>7. ASSUME NEW t \in Tasks, StartThread(t)  PROVE \A u \in Tasks : RowOrigin(u)
  BY <1>1, <1>2, <1>4, <1>7 DEF StartThread, StartPost, StartCreated, StartRejected, StartUncertain,
     StartAttach, StartFail, StartRelease, clear_remote, storeVars, Terminal
<1>8. ASSUME NEW c \in Cancellers, CancelThread(c)  PROVE \A u \in Tasks : RowOrigin(u)
  <2>1. CASE CancelMark(c)
    <3>1. cancel[c].task \in Tasks
      BY <2>1 DEF CancelMark, CancelAt, CancelTypeOK
    <3> QED
      BY <1>3, <2>1, <3>1 DEF CancelMark
  <2> QED
    BY <1>1, <1>8, <2>1 DEF CancelThread, CancelRead, CancelQueue, CancelCall, queue_cleanup, storeVars
<1>9. CASE Reconcile
  <2>1. CASE CaptureManifest \/ ReconcileFinish
    <3>1. rec.task \in Tasks /\ rec.result \in Terminal \cup {"none"}
      BY <2>1 DEF CaptureManifest, ReconcileFinish, RecAt, RecTypeOK
    <3>2. rec.pc = "finish" => rec.result \in Terminal
      BY <3>1 DEF RecTypeOK
    <3> QED
      BY <1>3, <1>4, <2>1, <3>1, <3>2 DEF CaptureManifest, ReconcileFinish, RecAt
  <2> QED
    BY <1>1, <1>9, <2>1 DEF Reconcile, ReconcileCancel, ReconcilePoll, CaptureFiles, ReconcileQueue,
       CleanupRead, CleanupCancel, CleanupCheck, CleanupDelete, CleanupCall, CleanupClear,
       queue_cleanup, clear_remote, storeVars
<1>10. CASE Monitor
  <2>1. CASE RecoverAttach \/ RecoverRecord
    <3>1. mon.task \in Tasks
      BY <2>1 DEF RecoverAttach, RecoverRecord, MonAt, MonTypeOK
    <3> QED
      BY <1>2, <1>3, <2>1, <3>1 DEF RecoverAttach, RecoverRecord
  <2>2. ASSUME NEW S \in SUBSET Tasks, CleanupRows(S)  PROVE \A u \in Tasks : RowOrigin(u)
    BY <2>2 DEF CleanupRows, cleanup, RowOrigin, NoTask
  <2> QED
    BY <1>1, <1>10, <2>1, <2>2 DEF Monitor, RecoverPending, RecoverList, RecoverVisit, RecoverAdopt,
       RecoverDone, CleanupTree, CleanupTreeFails, TickDone, queue_cleanup, storeVars
<1>11. ASSUME NEW t \in Tasks,
              \/ Steer(t)
              \/ SteerSend(t)
              \/ ReconcileBegin(t)
              \/ DeadlinePasses(t)
              \/ ProviderStep(t)
       PROVE  \A u \in Tasks : RowOrigin(u)
  BY <1>1, <1>11 DEF Steer, SteerSend, ReconcileBegin, DeadlinePasses, ProviderStep, storeVars
<1>12. CASE Restart
  BY <1>1, <1>12 DEF Restart, backfill
<1> QED
  BY <1>5, <1>6, <1>7, <1>8, <1>9, <1>10, <1>11, <1>12 DEF Next

\* A task that holds its slot, or whose session is over, stays so.
LEMMA BegunStays ==
    ASSUME IndInv, Next
    PROVE  \A u \in Tasks : Begun(u) => Begun(u)'
<1>1. \A u \in Tasks : RowStep(u) /\ RemoteStep(u)
  BY RowSteps, RemoteSteps
<1> QED
  BY <1>1, CreatedStays, ServiceAssumption DEF Begun, RowStep

\* The tasks of the confirm_cancel handlers (service.py:102).
LEMMA BegunCancelStep ==
    ASSUME SlotInv, Next
    PROVE  BegunCancel'
<1> USE DEF SlotInv, IndInv, TypeOK, CancelTypeOK
<1>1. \A u \in Tasks : Begun(u) => Begun(u)'
  BY BegunStays
<1>2. ASSUME \A c \in Cancellers :
                \/ cancel'[c].pc = "idle"
                \/ cancel'[c].task = cancel[c].task /\ cancel[c].pc # "idle"
                \/ cancel'[c].task \in Tasks /\ Begun(cancel'[c].task)
      PROVE  BegunCancel'
  BY <1>1, <1>2 DEF BegunCancel, Begun
<1>3. CASE UNCHANGED cancel
  BY <1>2, <1>3
<1>4. ASSUME NEW c \in Cancellers, NEW t \in Tasks, ConfirmCancel(c, t)  PROVE BegunCancel'
  <2>1. Begun(t)
    BY <1>4 DEF ConfirmCancel, consume_confirmation, BegunRows
  <2> QED
    BY <1>2, <1>4, <2>1 DEF ConfirmCancel, NoCancel
<1>5. ASSUME NEW c \in Cancellers, CancelThread(c)  PROVE BegunCancel'
  <2>1. cancel[c].pc # "idle"
    BY <1>5 DEF CancelThread, CancelRead, CancelMark, CancelQueue, CancelCall, CancelAt
  <2>a. ASSUME NEW row, cancel' = [cancel EXCEPT ![c] = row],
               row.pc = "idle" \/ row.task = cancel[c].task
        PROVE  BegunCancel'
    BY <1>2, <2>1, <2>a
  <2>2. CASE CancelRead(c)
    <3> DEFINE read == [cancel[c] EXCEPT !.pc = "mark", !.session = tasks[cancel[c].task].session]
    <3>1. cancel' = [cancel EXCEPT ![c] = read] \/ cancel' = [cancel EXCEPT ![c] = NoCancel]
      BY <2>2 DEF CancelRead
    <3>2. read.task = cancel[c].task /\ NoCancel.pc = "idle"
      BY DEF NoCancel
    <3> HIDE DEF read
    <3> QED
      BY <2>a, <3>1, <3>2
  <2>3. CASE CancelMark(c)
    BY <1>2, <2>1, <2>3 DEF CancelMark
  <2>4. CASE CancelQueue(c)
    <3>1. PICK row \in {[cancel[c] EXCEPT !.pc = "call"], NoCancel} :
              cancel' = [cancel EXCEPT ![c] = row]
      BY <2>4 DEF CancelQueue
    <3>2. row.pc = "idle" \/ row.task = cancel[c].task
      BY <3>1 DEF NoCancel
    <3> QED
      BY <2>a, <3>1, <3>2
  <2>5. CASE CancelCall(c)
    BY <2>a, <2>5 DEF CancelCall, NoCancel
  <2> QED
    BY <1>5, <2>2, <2>3, <2>4, <2>5 DEF CancelThread
<1>6. CASE Restart
  BY <1>2, <1>6 DEF Restart, NoCancel
<1>7. CASE Monitor
  BY <1>3, <1>7 DEF Monitor, RecoverPending, RecoverList, RecoverVisit, RecoverAttach, RecoverAdopt,
     RecoverRecord, RecoverDone, CleanupRows, CleanupTree, CleanupTreeFails, TickDone, MonAt
<1>8. CASE Reconcile
  BY <1>3, <1>8 DEF Reconcile, ReconcileCancel, ReconcilePoll, CaptureFiles, CaptureManifest,
     ReconcileQueue, ReconcileFinish, CleanupRead, CleanupCancel, CleanupCheck, CleanupDelete,
     CleanupClear, RecAt
<1>9. ASSUME NEW t \in Tasks,
             \/ PrepareStart(t)
             \/ PrepareCancel(t)
             \/ \E action \in {"start", "cancel"} : ApprovalExpires(action, t)
             \/ ConfirmStart(t)
             \/ StartThread(t)
             \/ Steer(t)
             \/ SteerSend(t)
             \/ ReconcileBegin(t)
             \/ DeadlinePasses(t)
             \/ ProviderStep(t)
      PROVE  BegunCancel'
  BY <1>3, <1>9 DEF PrepareStart, PrepareCancel, ApprovalExpires, ConfirmStart, StartThread,
     StartPost, StartCreated, StartRejected, StartUncertain, StartAttach, StartFail, StartRelease,
     StartAt, Steer, SteerSend, ReconcileBegin, RecAt, DeadlinePasses, ProviderStep, threadVars
<1> QED
  BY <1>4, <1>5, <1>6, <1>7, <1>8, <1>9 DEF Next

\* The task of the holder of reconcile_lock (service.py:133).
LEMMA BegunRecStep ==
    ASSUME SlotInv, Next
    PROVE  BegunRec'
<1> USE DEF SlotInv, IndInv, TypeOK
<1> DEFINE Reading == {"cancel", "poll", "capture", "manifest", "queue", "finish"}
<1>1. \A u \in Tasks : Begun(u) => Begun(u)'
  BY BegunStays
<1>2. ASSUME \/ rec'.pc \notin Reading
             \/ rec'.task = rec.task /\ rec.pc \in Reading
             \/ rec'.task \in Tasks /\ Begun(rec'.task)
      PROVE  BegunRec'
  <2>1. rec.pc \in Reading => rec.task \in Tasks
    BY DEF RecTypeOK
  <2> QED
    BY <1>1, <1>2, <2>1 DEF BegunRec, Begun
<1>3. CASE UNCHANGED rec
  BY <1>2, <1>3
<1>4. ASSUME NEW t \in Tasks, ReconcileBegin(t)  PROVE BegunRec'
  <2>1. tasks[t].status \in Active => Begun(t)
    BY DEF BegunRows, Active
  <2> QED
    BY <1>2, <1>4, <2>1 DEF ReconcileBegin, ReadTask
<1>5. CASE Reconcile
  <2>1. ASSUME NEW pc, rec.pc \in Reading \/ pc \notin Reading,
               \/ rec' = [rec EXCEPT !.pc = pc]
               \/ \E result : rec' = [rec EXCEPT !.pc = pc, !.result = result]
        PROVE  BegunRec'
    <3>1. rec'.pc = pc /\ rec'.task = rec.task
      BY <2>1 DEF RecTypeOK
    <3> QED
      BY <1>2, <2>1, <3>1
  <2>2. ASSUME rec' = NoRec  PROVE BegunRec'
    BY <1>2, <2>2 DEF NoRec
  <2>3. CASE ReconcilePoll
    <3>1. \/ rec' = NoRec
          \/ rec' = [rec EXCEPT !.pc = "capture", !.result = terminal_result(rec.task)]
          \/ rec' = [rec EXCEPT !.pc = "queue", !.result = terminal_result(rec.task)]
      BY <2>3 DEF ReconcilePoll
    <3>2. rec.pc \in Reading
      BY <2>3 DEF ReconcilePoll, RecAt
    <3> QED
      BY <2>1, <2>2, <3>1, <3>2
  <2>4. CASE CaptureManifest
    <3>1. \E result : rec' = [rec EXCEPT !.pc = "queue", !.result = result]
      BY <2>4 DEF CaptureManifest
    <3>2. rec.pc \in Reading
      BY <2>4 DEF CaptureManifest, RecAt
    <3> QED
      BY <2>1, <3>1, <3>2
  <2>5. CASE ReconcileCancel \/ CaptureFiles \/ ReconcileQueue \/ ReconcileFinish
    <3>1. rec.pc \in Reading
      BY <2>5 DEF ReconcileCancel, CaptureFiles, ReconcileQueue, ReconcileFinish, RecAt
    <3> QED
      BY <2>1, <2>2, <2>5, <3>1 DEF ReconcileCancel, CaptureFiles, ReconcileQueue, ReconcileFinish
  <2>6. CASE CleanupRead \/ CleanupCancel \/ CleanupCheck \/ CleanupDelete \/ CleanupClear
    <3>1. \/ rec' = NoRec
          \/ \E pc \in {"stop", "check", "delete", "clear"} : rec' = [rec EXCEPT !.pc = pc]
      BY <2>6 DEF CleanupRead, CleanupCancel, CleanupCheck, CleanupDelete, CleanupClear, CleanupCall
    <3> QED
      BY <2>1, <2>2, <3>1
  <2> QED
    BY <1>5, <2>3, <2>4, <2>5, <2>6 DEF Reconcile
<1>6. CASE Restart
  BY <1>2, <1>6 DEF Restart, NoRec
<1>7. CASE Monitor
  BY <1>3, <1>7 DEF Monitor, RecoverPending, RecoverList, RecoverVisit, RecoverAttach, RecoverAdopt,
     RecoverRecord, RecoverDone, CleanupRows, CleanupTree, CleanupTreeFails, TickDone, MonAt
<1>8. ASSUME NEW c \in Cancellers, CancelThread(c)  PROVE BegunRec'
  BY <1>3, <1>8 DEF CancelThread, CancelRead, CancelMark, CancelQueue, CancelCall, CancelAt
<1>9. ASSUME NEW t \in Tasks,
             \/ PrepareStart(t)
             \/ PrepareCancel(t)
             \/ \E action \in {"start", "cancel"} : ApprovalExpires(action, t)
             \/ ConfirmStart(t)
             \/ StartThread(t)
             \/ \E c \in Cancellers : ConfirmCancel(c, t)
             \/ Steer(t)
             \/ SteerSend(t)
             \/ DeadlinePasses(t)
             \/ ProviderStep(t)
      PROVE  BegunRec'
  BY <1>3, <1>9 DEF PrepareStart, PrepareCancel, ApprovalExpires, ConfirmStart, StartThread,
     StartPost, StartCreated, StartRejected, StartUncertain, StartAttach, StartFail, StartRelease,
     StartAt, ConfirmCancel, CancelAt, Steer, SteerSend, DeadlinePasses, ProviderStep, threadVars
<1> QED
  BY <1>4, <1>5, <1>6, <1>7, <1>8, <1>9 DEF Next

LEMMA SlotInvStep ==
    ASSUME SlotInv, [Next]_vars
    PROVE  SlotInv'
<1>1. CASE Next
  <2>1. IndInv'
    BY <1>1, IndInvStep DEF SlotInv
  <2>2. BegunRows'
    <3>1. \A u \in Tasks : (Begun(u) => Begun(u)') /\ RowOrigin(u)
      BY <1>1, BegunStays, RowOrigins DEF SlotInv
    <3> QED
      BY <3>1 DEF SlotInv, BegunRows, RowOrigin, Begun
  <2> QED
    BY <1>1, <2>1, <2>2, BegunCancelStep, BegunRecStep DEF SlotInv
<1>2. CASE UNCHANGED vars
  <2>1. IndInv'
    BY <1>2, IndInvStutter DEF SlotInv
  <2> QED
    BY <1>2, <2>1 DEF SlotInv, BegunRows, BegunCancel, BegunRec, Begun, vars, storeVars,
       providerVars, threadVars
<1> QED
  BY <1>1, <1>2

-----------------------------------------------------------------------------
(* The refinement mapping: every step is a step of RemoteSlots, or leaves  *)
(* the slots and the lives of the sessions alone.                          *)

\* A step that leaves the provider alone takes a free slot for a session to
\* come, gives one back when the session is over, or takes one again.
HeldStep ==
    \/ UNCHANGED Journalled
    \/ \E t \in Tasks : /\ remote[t] = "none"
                        /\ Cardinality(Journalled) < MaxActive
                        /\ Journalled' = Journalled \cup {t}
    \/ \E t \in Tasks : /\ remote[t] \in Gone \cup {"rejected"}
                        /\ Journalled' = Journalled \ {t}
    \/ \E S \in SUBSET Tasks : /\ \A t \in S : remote[t] \in Gone \cup {"rejected"}
                               /\ Journalled' = Journalled \cup S

\* The journal: reserve_start, clear_remote, queue_cleanup and the backfill of
\* a restart change its rows, and each only for a session it may.
LEMMA HeldSteps ==
    ASSUME SlotInv, Next
    PROVE  HeldStep
<1> USE DEF SlotInv, IndInv, TypeOK, StoreTypeOK
<1>1. CASE UNCHANGED remote_work
  BY <1>1 DEF HeldStep, Journalled
<1>2. ASSUME NEW t \in Tasks, attach_session(t)  PROVE HeldStep
  <2>1. \A u \in Tasks : remote_work'[u].present = remote_work[u].present
    BY <1>2 DEF attach_session, WorkRow
  <2> QED
    BY <2>1 DEF HeldStep, Journalled
<1>3. ASSUME NEW t \in Tasks, NEW s, NEW c, queue_cleanup(t, s, c), Begun(t)  PROVE HeldStep
  <2>1. Journalled' = Journalled \cup {t}
    BY <1>3 DEF queue_cleanup, Journalled
  <2>2. CASE t \in Journalled
    BY <2>1, <2>2 DEF HeldStep
  <2>3. CASE t \notin Journalled
    <3>1. \A u \in {t} : remote[u] \in Gone \cup {"rejected"}
      BY <1>3, <2>3 DEF Begun, Journalled
    <3> QED
      BY <2>1, <3>1 DEF HeldStep
  <2> QED
    BY <2>2, <2>3
<1>4. ASSUME NEW t \in Tasks, clear_remote(t), remote[t] \in Gone \cup {"rejected"}
      PROVE  HeldStep
  <2>1. Journalled' = Journalled \ {t}
    BY <1>4 DEF clear_remote, Journalled, NoWork
  <2> QED
    BY <1>4, <2>1 DEF HeldStep
<1>5. ASSUME NEW t \in Tasks, ConfirmStart(t)  PROVE HeldStep
  <2>1. Journalled' = Journalled \cup {t}
    BY <1>5 DEF ConfirmStart, reserve_start, Journalled, NoWork
  <2>2. remote[t] = "none" /\ Cardinality(Journalled) < MaxActive
    BY <1>5 DEF ConfirmStart, reserve_start, consume_confirmation, UnsentStart
  <2> QED
    BY <2>1, <2>2 DEF HeldStep
<1>6. ASSUME NEW t \in Tasks, StartThread(t)  PROVE HeldStep
  <2>1. CASE StartAttach(t)
    BY <1>2, <2>1 DEF StartAttach
  <2>2. CASE StartRelease(t)
    <3>1. remote[t] = "rejected"
      BY <2>2 DEF StartRelease, StartAt, RejectedStart
    <3> QED
      BY <1>4, <2>2, <3>1 DEF StartRelease
  <2> QED
    BY <1>1, <1>6, <2>1, <2>2 DEF StartThread, StartPost, StartCreated, StartRejected,
       StartUncertain, StartFail, finish_task, storeVars
<1>7. ASSUME NEW c \in Cancellers, CancelThread(c)  PROVE HeldStep
  <2>1. CASE CancelQueue(c)
    <3>1. cancel[c].task \in Tasks /\ Begun(cancel[c].task)
      BY <2>1 DEF CancelQueue, CancelAt, CancelTypeOK, BegunCancel
    <3> QED
      BY <1>3, <2>1, <3>1 DEF CancelQueue
  <2> QED
    BY <1>1, <1>7, <2>1 DEF CancelThread, CancelRead, CancelMark, CancelCall, update_task, storeVars
<1>8. CASE Reconcile
  <2>1. CASE ReconcileQueue
    <3>1. rec.task \in Tasks /\ Begun(rec.task)
      BY <2>1 DEF ReconcileQueue, RecAt, RecTypeOK, BegunRec
    <3> QED
      BY <1>3, <2>1, <3>1 DEF ReconcileQueue
  <2>2. CASE CleanupClear
    <3>1. rec.task \in Tasks /\ remote[rec.task] \in Gone
      BY <2>2 DEF CleanupClear, RecAt, RecTypeOK, KnownSessions, KnownByRec
    <3> QED
      BY <1>4, <2>2, <3>1 DEF CleanupClear
  <2> QED
    BY <1>1, <1>8, <2>1, <2>2 DEF Reconcile, ReconcileCancel, ReconcilePoll, CaptureFiles,
       CaptureManifest, ReconcileFinish, CleanupRead, CleanupCancel, CleanupCheck, CleanupDelete,
       CleanupCall, update_task, finish_task, storeVars
<1>9. CASE Monitor
  <2>1. CASE RecoverAttach
    BY <1>2, <2>1 DEF RecoverAttach, MonAt, MonTypeOK
  <2>2. CASE RecoverAdopt
    <3>1. mon.task \in Tasks /\ Created(mon.task)
      BY <2>2 DEF RecoverAdopt, MonAt, MonTypeOK, KnownSessions, KnownByMon
    <3>2. Begun(mon.task)
      BY <3>1 DEF Created, Begun, NoOrphanSession, MayExist
    <3> QED
      BY <1>3, <2>2, <3>1, <3>2 DEF RecoverAdopt
  <2>3. ASSUME NEW S \in SUBSET Tasks, CleanupRows(S)  PROVE HeldStep
    BY <1>1, <2>3 DEF CleanupRows, cleanup
  <2> QED
    BY <1>1, <1>9, <2>1, <2>2, <2>3 DEF Monitor, RecoverPending, RecoverList, RecoverVisit,
       RecoverRecord, RecoverDone, CleanupTree, CleanupTreeFails, TickDone, update_task, storeVars
<1>10. CASE Restart
  <2> DEFINE S == {t \in Tasks : tasks[t].status \in Active /\ ~remote_work[t].present}
  <2>1. Journalled' = Journalled \cup S
    BY <1>10 DEF Restart, backfill, Journalled
  <2>2. \A t \in S : remote[t] \in Gone \cup {"rejected"}
    BY DEF BegunRows, Begun, Active
  <2> QED
    BY <2>1, <2>2 DEF HeldStep
<1>11. ASSUME NEW t \in Tasks,
              \/ PrepareStart(t)
              \/ PrepareCancel(t)
              \/ \E action \in {"start", "cancel"} : ApprovalExpires(action, t)
              \/ \E c \in Cancellers : ConfirmCancel(c, t)
              \/ Steer(t)
              \/ SteerSend(t)
              \/ ReconcileBegin(t)
              \/ DeadlinePasses(t)
              \/ ProviderStep(t)
       PROVE  HeldStep
  BY <1>1, <1>11 DEF PrepareStart, PrepareCancel, ApprovalExpires, ConfirmCancel, Steer,
     SteerSend, ReconcileBegin, DeadlinePasses, ProviderStep, storeVars
<1> QED
  BY <1>5, <1>6, <1>7, <1>8, <1>9, <1>10, <1>11 DEF Next

\* A step that changes the session of a task leaves the journal alone, and
\* moves that session on: from new to asked, with the slot held; from asked to
\* live or over; from live to over.
LifeStep ==
    \/ UNCHANGED remote
    \/ \E t \in Tasks :
           /\ UNCHANGED Journalled
           /\ \E r : remote' = [remote EXCEPT ![t] = r]
           /\ RemoteStep(t)
           /\ remote[t] = "none" => t \in Journalled

\* The requests of the daemon and the steps of the provider.
LEMMA LifeSteps ==
    ASSUME SlotInv, Next
    PROVE  LifeStep
<1> USE DEF SlotInv, IndInv, TypeOK, ProviderTypeOK
<1>1. ASSUME NEW t \in Tasks, NEW r, remote' = [remote EXCEPT ![t] = r], UNCHANGED storeVars,
             remote[t] # "none"
      PROVE  LifeStep
  <2>1. UNCHANGED Journalled
    BY <1>1 DEF Journalled, storeVars
  <2> QED
    BY <1>1, <2>1, RemoteSteps DEF LifeStep
<1>2. CASE UNCHANGED remote
  BY <1>2 DEF LifeStep
<1>3. ASSUME NEW t \in Tasks, UNCHANGED storeVars,
             CancelReceived(t) \/ SteerReceived(t) \/ (DeleteReceived(t) /\ Created(t))
      PROVE  LifeStep
  <2>1. CASE remote[t] = "none"
    <3>1. UNCHANGED remote
      BY <1>3, <2>1, ServiceAssumption DEF CancelReceived, SteerReceived, DeleteReceived, Created,
         Live, Working, Gone
    <3> QED
      BY <1>2, <3>1
  <2>2. CASE remote[t] # "none"
    BY <1>1, <1>2, <1>3, <2>2 DEF CancelReceived, SteerReceived, DeleteReceived
  <2> QED
    BY <2>1, <2>2
<1>4. ASSUME NEW t \in Tasks, StartThread(t)  PROVE LifeStep
  <2>1. CASE StartPost(t)
    <3>1. UNCHANGED Journalled /\ remote' = [remote EXCEPT ![t] = "posted"]
      BY <2>1 DEF StartPost, CreateSent, Journalled, storeVars
    <3>2. t \in Journalled
      BY <2>1 DEF StartPost, StartAt, UnsentStart, Journalled
    <3> QED
      BY <3>1, <3>2, RemoteSteps DEF LifeStep
  <2> QED
    BY <1>2, <1>4, <2>1 DEF StartThread, StartCreated, StartRejected, StartUncertain, StartAttach,
       StartFail, StartRelease, providerVars
<1>5. ASSUME NEW t \in Tasks, ProviderStep(t)  PROVE LifeStep
  <2>1. /\ UNCHANGED storeVars
        /\ \E r : remote' = [remote EXCEPT ![t] = r]
        /\ remote[t] # "none"
    BY <1>5, ServiceAssumption DEF ProviderStep, ProviderCreate, ProviderReject, ProviderEnd,
       ProviderDrop, Live, Working
  <2> QED
    BY <1>1, <2>1
<1>6. ASSUME NEW c \in Cancellers, CancelThread(c)  PROVE LifeStep
  <2>1. CASE CancelCall(c)
    <3>1. cancel[c].task \in Tasks
      BY <2>1 DEF CancelCall, CancelAt, CancelTypeOK
    <3> QED
      BY <1>2, <1>3, <2>1, <3>1 DEF CancelCall, providerVars
  <2> QED
    BY <1>2, <1>6, <2>1 DEF CancelThread, CancelRead, CancelMark, CancelQueue, providerVars
<1>7. CASE Reconcile
  <2>1. CASE ReconcileCancel \/ CleanupCancel \/ CleanupCheck
    <3>1. rec.task \in Tasks
      BY <2>1 DEF ReconcileCancel, CleanupCancel, CleanupCheck, RecAt, RecTypeOK
    <3> QED
      BY <1>2, <1>3, <2>1, <3>1 DEF ReconcileCancel, CleanupCancel, CleanupCheck, CleanupCall,
         providerVars
  <2>2. CASE CleanupDelete
    <3>1. rec.task \in Tasks /\ Created(rec.task)
      BY <2>2 DEF CleanupDelete, RecAt, KnownSessions, KnownByRec
    <3> QED
      BY <1>2, <1>3, <2>2, <3>1 DEF CleanupDelete, CleanupCall, providerVars
  <2> QED
    BY <1>2, <1>7, <2>1, <2>2 DEF Reconcile, ReconcilePoll, CaptureFiles, CaptureManifest,
       ReconcileQueue, ReconcileFinish, CleanupRead, CleanupClear, providerVars
<1>8. ASSUME NEW t \in Tasks, SteerSend(t)  PROVE LifeStep
  BY <1>2, <1>3, <1>8 DEF SteerSend, providerVars
<1>9. CASE Monitor \/ Restart
  BY <1>2, <1>9 DEF Monitor, RecoverPending, RecoverList, RecoverVisit, RecoverAttach, RecoverAdopt,
     RecoverRecord, RecoverDone, CleanupRows, CleanupTree, CleanupTreeFails, TickDone, Restart,
     providerVars
<1>10. ASSUME NEW t \in Tasks,
              \/ PrepareStart(t)
              \/ PrepareCancel(t)
              \/ \E action \in {"start", "cancel"} : ApprovalExpires(action, t)
              \/ ConfirmStart(t)
              \/ \E c \in Cancellers : ConfirmCancel(c, t)
              \/ Steer(t)
              \/ ReconcileBegin(t)
              \/ DeadlinePasses(t)
       PROVE  LifeStep
  BY <1>2, <1>10 DEF PrepareStart, PrepareCancel, ApprovalExpires, ConfirmStart, ConfirmCancel,
     Steer, ReconcileBegin, DeadlinePasses, providerVars
<1> QED
  BY <1>4, <1>5, <1>6, <1>7, <1>8, <1>9, <1>10 DEF Next

\* The lives of the sessions, as the mapping of AgentService gives them.
Lives == [t \in Tasks |-> Life(t)]

LEMMA SlotsInit == Init => Slots!Init
<1> SUFFICES ASSUME Init  PROVE Slots!Init
  OBVIOUS
<1>1. Journalled = {}
  BY DEF Init, StoreInit, Journalled, NoWork
<1>2. \A t \in Tasks : Life(t) = "new"
  BY ServiceAssumption DEF Init, ProviderInit, Life, Live, Working
<1> QED
  BY <1>1, <1>2 DEF Slots!Init

\* Every step of the daemon or the provider is a step of RemoteSlots or a
\* stutter of it.
LEMMA SlotsStep ==
    ASSUME SlotInv, [Next]_vars
    PROVE  [Slots!Next]_(Slots!vars)
<1> USE DEF SlotInv, IndInv, TypeOK, ProviderTypeOK
<1>1. CASE UNCHANGED vars
  BY <1>1 DEF vars, storeVars, providerVars, Slots!vars, Journalled, Life
<1>2. CASE Next /\ UNCHANGED remote
  <2>1. UNCHANGED Lives
    BY <1>2 DEF Lives, Life
  <2>2. \A t \in Tasks : /\ remote[t] = "none" => Lives[t] = "new"
                         /\ remote[t] \in Gone \cup {"rejected"} => Lives[t] = "over"
    BY ServiceAssumption DEF Lives, Life, Live, Working, Gone
  <2>3. HeldStep
    BY <1>2, HeldSteps
  <2>4. ASSUME UNCHANGED Journalled  PROVE UNCHANGED Slots!vars
    BY <2>1, <2>4 DEF Lives, Slots!vars
  <2>5. ASSUME NEW t \in Tasks, remote[t] = "none", Cardinality(Journalled) < MaxActive,
               Journalled' = Journalled \cup {t}
        PROVE  Slots!Reserve(t)
    <3>1. Slots!Cardinality(Journalled) = Cardinality(Journalled)
      BY DEF Slots!Cardinality, Cardinality
    <3> QED
      BY <2>1, <2>2, <2>5, <3>1 DEF Lives, Slots!Reserve
  <2>6. ASSUME NEW t \in Tasks, remote[t] \in Gone \cup {"rejected"},
               Journalled' = Journalled \ {t}
        PROVE  Slots!Release(t)
    BY <2>1, <2>2, <2>6 DEF Lives, Slots!Release
  <2>7. ASSUME NEW S \in SUBSET Tasks, \A t \in S : remote[t] \in Gone \cup {"rejected"},
               Journalled' = Journalled \cup S
        PROVE  Slots!Retake(S)
    BY <2>1, <2>2, <2>7 DEF Lives, Slots!Retake
  <2> QED
    BY <2>3, <2>4, <2>5, <2>6, <2>7 DEF HeldStep, Slots!Next
<1>3. CASE Next /\ remote' # remote
  <2>1. PICK t \in Tasks : /\ UNCHANGED Journalled
                           /\ \E r : remote' = [remote EXCEPT ![t] = r]
                           /\ RemoteStep(t)
                           /\ remote[t] = "none" => t \in Journalled
    BY <1>3, LifeSteps DEF LifeStep
  <2>2. Lives' = [Lives EXCEPT ![t] = Life(t)']
    <3>1. \A u \in Tasks : u # t => remote'[u] = remote[u]
      BY <2>1
    <3>2. \A u \in Tasks : u # t => Life(u)' = Life(u)
      BY <3>1 DEF Life
    <3> QED
      BY <3>2 DEF Lives
  <2>3. \/ Life(t)' = Life(t)
        \/ Life(t) = "new" /\ Life(t)' = "asked"
        \/ Life(t) = "asked" /\ Life(t)' \in {"live", "over"}
        \/ Life(t) = "live" /\ Life(t)' = "over"
    BY <2>1, ServiceAssumption DEF RemoteStep, Life, Live, Working, Gone
  <2>4. Life(t) = "new" => remote[t] = "none"
    BY DEF Life
  <2> QED
    BY <2>1, <2>2, <2>3, <2>4 DEF Lives, Slots!vars, Slots!Next, Slots!Ask, Slots!Open, Slots!End,
       Slots!Become
<1> QED
  BY <1>1, <1>2, <1>3

\* The daemon implements RemoteSlots: a task has its slot from before its
\* session is asked for until that session can no longer exist, whatever the
\* number of tasks, handlers, failures and crashes.
THEOREM Implementation == Spec => ImplementsRemoteSlots
<1>1. Init => SlotInv
  <2> SUFFICES ASSUME Init  PROVE SlotInv
    OBVIOUS
  <2>1. IndInv
    BY IndInvInit
  <2> QED
    BY <2>1 DEF Init, StoreInit, SlotInv, BegunRows, BegunCancel, BegunRec, NoTask, NoCancel, NoRec
<1> QED
  BY <1>1, SlotsInit, SlotInvStep, SlotsStep, PTL DEF Spec, ImplementsRemoteSlots, Slots!Spec

=============================================================================
