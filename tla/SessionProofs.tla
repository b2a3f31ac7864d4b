--------------------------- MODULE SessionProofs ---------------------------
(***************************************************************************)
(* What AgentService does to the sessions at the provider, for any number  *)
(* of tasks, cancelling threads and faults: none is cancelled or deleted   *)
(* while its task still needs it.                                          *)
(***************************************************************************)
EXTENDS VerdictProofs

\* A task with a retention deadline is not waited for any more, though a late
\* confirm_cancel may call it "cancelling" again.
RetiredRows ==
    \A t \in Tasks : tasks[t].retention => tasks[t].status \notin {"creating", "running"}

\* The approval of the task is used and nobody waits for its session; the task
\* has its verdict.
Settled(t) ==
    confirmations["start"][t] = "spent" /\ tasks[t].status \notin {"creating", "running"}

Judged(t) ==
    /\ confirmations["start"][t] = "spent"
    /\ tasks[t].retention \/ tasks[t].status = "absent"

\* The turn of the session has ended, if another was not begun by a steer
\* message since; the session of the task may be deleted once the journal says
\* how, or never will be there to delete.
Done(t) == remote[t] \in Outcomes \cup Gone \/ t \in reopened

Safe(t) ==
    \/ remote_work[t].cancel_required
    \/ Done(t)
    \/ remote[t] = "rejected"
    \/ remote[t] = "none" /\ start[t] # "post"

\* A confirm_cancel has told the user that a task is cancelled before it cancels
\* its session.
SettledCancel ==
    \A c \in Cancellers :
        /\ cancel[c].pc = "mark" => confirmations["start"][cancel[c].task] = "spent"
        /\ cancel[c].pc \in {"queue", "call"} => Settled(cancel[c].task)

\* _cleanup_remote runs for tasks with a verdict, unless no start had been
\* confirmed when the reconciliation looked for the task.
SettledRec ==
    /\ rec.pc = "cancel" => Settled(rec.task)
    /\ rec.pc \in {"journal", "stop", "check", "delete", "clear"} =>
           rec.early \/ Judged(rec.task)

\* The journal says of the session of a judged task that it is to be cancelled
\* first, or there is nothing to cancel.
SafeRows == \A t \in Tasks : Judged(t) => Safe(t)

SafeRec ==
    /\ rec.pc \in {"capture", "manifest"} => Done(rec.task)
    /\ rec.pc = "queue" => Done(rec.task) \/ rec.result = "timed_out"
    /\ rec.pc = "finish" => Safe(rec.task)
    /\ rec.pc = "delete" => rec.early \/ Done(rec.task)

SessionInv ==
    /\ IndInv /\ VerdictInv
    /\ RetiredRows /\ SettledCancel /\ SettledRec /\ SafeRows /\ SafeRec

-----------------------------------------------------------------------------
(* What a step may do to the session of a task, and to its cancel flag.    *)

TurnStep(t) ==
    /\ t \in reopened => t \in reopened'
    /\ remote[t] \in Outcomes => remote'[t] \in Outcomes \cup Gone \/ t \in reopened'
    /\ remote[t] = "active" /\ remote'[t] = "cancelling" =>
           \/ \E c \in Cancellers : cancel[c].pc = "call" /\ cancel[c].task = t
           \/ rec.pc \in {"cancel", "stop"} /\ rec.task = t
    /\ remote[t] # "deleted" /\ remote'[t] = "deleted" => rec.pc = "delete" /\ rec.task = t

FlagStep(t) ==
    remote_work[t].cancel_required /\ ~remote_work'[t].cancel_required =>
        \/ confirmations["start"][t] # "spent"
        \/ ~remote_work[t].present \/ ~remote_work'[t].present
        \/ rec.pc = "queue" /\ rec.task = t /\ rec.result # "timed_out"

\* A turn ends but once, unless a steer message begins another; sessions are
\* cancelled in three places and deleted in one (service.py:106, 143, 171, 174).
LEMMA TurnSteps ==
    ASSUME TypeOK, Next
    PROVE  \A u \in Tasks : TurnStep(u)
<1> USE ServiceAssumption DEF TypeOK, ProviderTypeOK
<1>1. CASE UNCHANGED providerVars
  BY <1>1 DEF providerVars, TurnStep
<1>2. ASSUME NEW t \in Tasks, StartThread(t)  PROVE \A u \in Tasks : TurnStep(u)
  <2>1. CASE StartPost(t)
    BY <2>1 DEF StartPost, CreateSent, TurnStep
  <2> QED BY <1>1, <1>2, <2>1 DEF StartThread, StartCreated, StartRejected, StartUncertain,
          StartAttach, StartFail, StartRelease
<1>3. ASSUME NEW c \in Cancellers, CancelThread(c)  PROVE \A u \in Tasks : TurnStep(u)
  <2>1. ASSUME cancel[c].pc = "call", CancelReceived(cancel[c].task)
        PROVE  \A u \in Tasks : TurnStep(u)
    BY <2>1 DEF CancelReceived, TurnStep, Gone
  <2>2. CASE CancelCall(c)
    BY <1>1, <2>1, <2>2 DEF CancelCall, CancelAt
  <2> QED BY <1>1, <1>3, <2>2 DEF CancelThread, CancelRead, CancelMark, CancelQueue
<1>4. ASSUME NEW t \in Tasks, SteerSend(t)  PROVE \A u \in Tasks : TurnStep(u)
  <2>1. CASE SteerReceived(t)
    BY <2>1 DEF SteerReceived, TurnStep
  <2> QED BY <1>1, <1>4, <2>1 DEF SteerSend
<1>5. ASSUME NEW t \in Tasks, ProviderStep(t)  PROVE \A u \in Tasks : TurnStep(u)
  BY <1>5 DEF ProviderStep, ProviderCreate, ProviderReject, ProviderEnd, ProviderDrop, TurnStep,
     Live, Working, Gone
<1>6. CASE Reconcile
  <2>1. ASSUME rec.pc \in {"cancel", "stop"}, CancelReceived(rec.task)
        PROVE  \A u \in Tasks : TurnStep(u)
    BY <2>1 DEF CancelReceived, TurnStep, Gone
  <2>2. ASSUME rec.pc = "delete", DeleteReceived(rec.task)
        PROVE  \A u \in Tasks : TurnStep(u)
    BY <2>2 DEF DeleteReceived, TurnStep, Gone
  <2>3. CASE ReconcileCancel
    BY <1>1, <2>1, <2>3 DEF ReconcileCancel, RecAt
  <2>4. CASE CleanupCancel
    BY <1>1, <2>1, <2>4 DEF CleanupCancel, CleanupCall, RecAt
  <2>5. CASE CleanupCheck
    BY <1>1, <2>5 DEF CleanupCheck, CleanupCall
  <2>6. CASE CleanupDelete
    BY <1>1, <2>2, <2>6 DEF CleanupDelete, CleanupCall, RecAt
  <2> QED BY <1>1, <1>6, <2>3, <2>4, <2>5, <2>6 DEF Reconcile, ReconcilePoll, CaptureFiles,
          CaptureManifest, ReconcileQueue, ReconcileFinish, CleanupRead, CleanupClear
<1>7. CASE Monitor
  BY <1>1, <1>7 DEF Monitor, RecoverPending, RecoverList, RecoverVisit, RecoverAttach, RecoverAdopt,
     RecoverRecord, RecoverDone, CleanupRows, CleanupTree, CleanupTreeFails, TickDone
<1>8. CASE Restart
  BY <1>1, <1>8 DEF Restart
<1>9. ASSUME NEW t \in Tasks,
             \/ PrepareStart(t) \/ PrepareCancel(t) \/ ConfirmStart(t)
             \/ \E action \in {"start", "cancel"} : ApprovalExpires(action, t)
             \/ \E c \in Cancellers : ConfirmCancel(c, t)
             \/ Steer(t) \/ ReconcileBegin(t) \/ DeadlinePasses(t)
      PROVE  \A u \in Tasks : TurnStep(u)
  BY <1>1, <1>9 DEF PrepareStart, PrepareCancel, ConfirmStart, ApprovalExpires, ConfirmCancel,
     Steer, ReconcileBegin, DeadlinePasses
<1> QED BY <1>2, <1>3, <1>4, <1>5, <1>6, <1>7, <1>8, <1>9 DEF Next

\* A cancel flag is taken back only by a reconciliation that has seen the turn
\* end, or with its row (queue_cleanup and its callers, store.py:149).
LEMMA FlagSteps ==
    ASSUME TypeOK, Next
    PROVE  \A u \in Tasks : FlagStep(u)
<1> USE DEF TypeOK, StoreTypeOK
<1>1. CASE UNCHANGED remote_work
  BY <1>1 DEF FlagStep
<1>2. ASSUME NEW t \in Tasks, NEW s, queue_cleanup(t, s, TRUE)  PROVE \A u \in Tasks : FlagStep(u)
  BY <1>2 DEF queue_cleanup, FlagStep
<1>3. ASSUME NEW t \in Tasks, attach_session(t)  PROVE \A u \in Tasks : FlagStep(u)
  BY <1>3 DEF attach_session, FlagStep, WorkRow
<1>4. ASSUME NEW t \in Tasks, clear_remote(t)  PROVE \A u \in Tasks : FlagStep(u)
  BY <1>4 DEF clear_remote, FlagStep, NoWork
<1>5. ASSUME NEW t \in Tasks, StartThread(t)  PROVE \A u \in Tasks : FlagStep(u)
  BY <1>1, <1>3, <1>4, <1>5 DEF StartThread, StartPost, StartCreated, StartRejected, StartUncertain,
     StartAttach, StartFail, StartRelease, finish_task, storeVars
<1>6. ASSUME NEW c \in Cancellers, CancelThread(c)  PROVE \A u \in Tasks : FlagStep(u)
  <2>1. CASE CancelQueue(c)
    BY <1>2, <2>1 DEF CancelQueue, CancelAt, CancelTypeOK
  <2> QED BY <1>1, <1>6, <2>1 DEF CancelThread, CancelRead, CancelMark, CancelCall, update_task, storeVars
<1>7. CASE Reconcile
  <2>1. CASE ReconcileQueue
    BY <2>1 DEF ReconcileQueue, RecAt, RecTypeOK, queue_cleanup, FlagStep
  <2>2. CASE CleanupClear
    BY <1>4, <2>2 DEF CleanupClear, RecAt, RecTypeOK
  <2> QED BY <1>1, <1>7, <2>1, <2>2 DEF Reconcile, ReconcileCancel, ReconcilePoll, CaptureFiles,
          CaptureManifest, ReconcileFinish, CleanupRead, CleanupCancel, CleanupCheck, CleanupDelete,
          CleanupCall, update_task, finish_task, storeVars
<1>8. CASE Monitor
  <2>1. CASE RecoverAttach \/ RecoverAdopt
    BY <1>2, <1>3, <2>1 DEF RecoverAttach, RecoverAdopt, MonAt, MonTypeOK
  <2> QED BY <1>1, <1>8, <2>1 DEF Monitor, RecoverPending, RecoverList, RecoverVisit, RecoverRecord,
          RecoverDone, CleanupRows, CleanupTree, CleanupTreeFails, TickDone, update_task, cleanup, storeVars
<1>9. CASE Restart
  BY <1>9 DEF Restart, backfill, FlagStep
<1>10. ASSUME NEW t \in Tasks, ConfirmStart(t)  PROVE \A u \in Tasks : FlagStep(u)
  BY <1>10 DEF ConfirmStart, reserve_start, consume_confirmation, FlagStep
<1>11. ASSUME NEW t \in Tasks,
             \/ PrepareStart(t) \/ PrepareCancel(t)
             \/ \E action \in {"start", "cancel"} : ApprovalExpires(action, t)
             \/ \E c \in Cancellers : ConfirmCancel(c, t)
             \/ Steer(t) \/ SteerSend(t) \/ ReconcileBegin(t) \/ DeadlinePasses(t) \/ ProviderStep(t)
      PROVE  \A u \in Tasks : FlagStep(u)
  BY <1>1, <1>11 DEF PrepareStart, PrepareCancel, ApprovalExpires, ConfirmCancel, Steer, SteerSend,
     ReconcileBegin, DeadlinePasses, ProviderStep, storeVars
<1> QED BY <1>5, <1>6, <1>7, <1>8, <1>9, <1>10, <1>11 DEF Next

-----------------------------------------------------------------------------
(* What stays true of a task, whatever is done to it.                      *)

\* Nobody waits again for the session of a settled task, and a judged one keeps
\* its verdict until it is deleted.
LEMMA SettledStays ==
    ASSUME TypeOK, Next, NEW u \in Tasks
    PROVE  /\ Settled(u) => Settled(u)'
           /\ Judged(u) => Judged(u)'
<1>1. RowLife(u)
  BY RowLives
<1>2. NoTask.status = "absent"
  BY DEF NoTask
<1> QED BY <1>1, <1>2 DEF RowLife, Kept, Made, Changed, Finished, Deleted, Settled, Judged, Terminal

\* A task with a retention deadline is not waited for.
LEMMA RetiredRowsStep ==
    ASSUME TypeOK, RetiredRows, Next
    PROVE  RetiredRows'
<1>1. ASSUME NEW u \in Tasks, tasks'[u].retention  PROVE tasks'[u].status \notin {"creating", "running"}
  <2>1. RowLife(u)
    BY RowLives
  <2>2. ~NoTask.retention /\ ~[NoTask EXCEPT !.status = "creating"].retention
    BY DEF NoTask
  <2> QED BY <1>1, <2>1, <2>2 DEF RowLife, Kept, Made, Changed, Finished, Deleted, RetiredRows, Terminal
<1> QED BY <1>1 DEF RetiredRows

\* A turn that has ended stays ended, but for steer messages.
LEMMA DoneStays ==
    ASSUME IndInv, Next, NEW u \in Tasks, Done(u)
    PROVE  Done(u)'
<1>1. TurnStep(u) /\ RemoteStep(u)
  BY TurnSteps, RemoteSteps DEF IndInv
<1>2. remote[u] \in Gone => remote'[u] \in Gone
  BY <1>1, CreatedStays, ServiceAssumption
<1> QED BY <1>1, <1>2 DEF Done, TurnStep

\* What makes it safe to clean up after a task stays so once its approval is used.
LEMMA SafeStays ==
    ASSUME IndInv, Next, NEW u \in Tasks, confirmations["start"][u] = "spent", Safe(u),
           rec.pc = "queue" => Done(rec.task) \/ rec.result = "timed_out"
    PROVE  Safe(u)'
<1>1. CASE Done(u)
  BY <1>1, DoneStays DEF Safe
<1>2. RemoteStep(u) /\ StartStep(u)
  BY RemoteSteps, StartSteps
<1>3. CASE remote[u] = "rejected"
  <2>1. remote'[u] = "rejected"
    BY <1>2, <1>3, CreatedStays, ServiceAssumption
  <2> QED BY <2>1 DEF Safe
<1>4. CASE remote[u] = "none" /\ start[u] # "post"
  <2>1. remote'[u] = "none"
    BY <1>2, <1>4, ServiceAssumption DEF RemoteStep, Live, Working
  <2>2. start'[u] # "post"
    BY <1>2, <1>4 DEF StartStep
  <2> QED BY <2>1, <2>2 DEF Safe
<1>5. CASE remote_work[u].cancel_required
  <2>1. CASE remote_work'[u].cancel_required
    BY <2>1 DEF Safe
  <2>2. CASE ~remote_work[u].present
    <3>1. remote[u] \notin MayExist /\ start[u] # "post"
      BY <2>2 DEF IndInv, NoOrphanSession, UnsentStart
    <3>2. remote[u] \in {"none", "rejected"} \cup Gone
      BY <3>1 DEF IndInv, TypeOK, ProviderTypeOK
    <3> QED BY <1>1, <1>3, <1>4, <3>1, <3>2 DEF Done
  <2>3. CASE remote_work[u].present /\ ~remote_work'[u].present
    <3>1. RowStep(u)
      BY RowSteps
    <3>2. remote[u] \in Gone \cup {"rejected"}
      BY <2>3, <3>1 DEF RowStep
    <3> QED BY <1>1, <1>3, <3>2 DEF Done
  <2>4. CASE rec.pc = "queue" /\ rec.task = u /\ rec.result # "timed_out"
    BY <1>1, <2>4
  <2>5. FlagStep(u)
    BY FlagSteps DEF IndInv
  <2> QED BY <1>5, <2>1, <2>2, <2>3, <2>4, <2>5 DEF FlagStep
<1> QED BY <1>1, <1>3, <1>4, <1>5 DEF Safe

-----------------------------------------------------------------------------
(* The invariant.                                                          *)

\* confirm_cancel between its transactions (service.py:103-106).
LEMMA SettledCancelStep ==
    ASSUME SessionInv, Next
    PROVE  SettledCancel'
<1> USE DEF SessionInv, VerdictInv, TypeOK, CancelTypeOK
<1> DEFINE After(u) == /\ confirmations'["start"][u] = "spent"
                       /\ tasks'[u].status \notin {"creating", "running"}
<1>a. \A u \in Tasks : confirmations["start"][u] = "spent" => confirmations'["start"][u] = "spent"
  BY RowLives DEF RowLife
<1>b. \A u \in Tasks : Settled(u) => After(u)
  BY SettledStays DEF Settled
<1>1. ASSUME NEW c \in Cancellers, cancel'[c] = cancel[c]
      PROVE  /\ cancel'[c].pc = "mark" => confirmations'["start"][cancel'[c].task] = "spent"
             /\ cancel'[c].pc \in {"queue", "call"} => After(cancel'[c].task)
  <2>1. CASE cancel[c].pc \in {"mark", "queue", "call"}
    <3>1. cancel[c].task \in Tasks
      BY <2>1
    <3>2. \A u \in Tasks : u = cancel[c].task => cancel'[c].task = u
      BY <1>1
    <3>3. /\ cancel[c].pc = "mark" => confirmations["start"][cancel[c].task] = "spent"
          /\ cancel[c].pc \in {"queue", "call"} => Settled(cancel[c].task)
      BY DEF SettledCancel
    <3> QED BY <1>1, <1>a, <1>b, <3>1, <3>2, <3>3 DEF Settled
  <2> QED BY <1>1, <2>1
<1>2. ASSUME NEW c \in Cancellers, cancel'[c].pc \notin {"mark", "queue", "call"}
      PROVE  /\ cancel'[c].pc = "mark" => confirmations'["start"][cancel'[c].task] = "spent"
             /\ cancel'[c].pc \in {"queue", "call"} => After(cancel'[c].task)
  BY <1>2
<1>3. ASSUME NEW c \in Cancellers, CancelThread(c)
      PROVE  /\ cancel'[c].pc = "mark" => confirmations'["start"][cancel'[c].task] = "spent"
             /\ cancel'[c].pc \in {"queue", "call"} => After(cancel'[c].task)
  <2> DEFINE t == cancel[c].task
  <2>0. t \in Tasks /\ NoCancel.pc = "idle"
    BY <1>3 DEF CancelThread, CancelRead, CancelMark, CancelQueue, CancelCall, CancelAt, NoCancel
  <2>1. CASE CancelRead(c)
    <3>1. cancel'[c] = NoCancel \/ (cancel'[c].pc = "mark" /\ cancel'[c].task = t
                                    /\ tasks[t].status \in {"creating", "running"})
      BY <2>1 DEF CancelRead, CancelAt
    <3>2. tasks[t].status \in {"creating", "running"} => confirmations["start"][t] = "spent"
      BY <2>0 DEF FreshRows
    <3> QED BY <1>2, <1>a, <2>0, <3>1, <3>2
  <2>2. CASE CancelMark(c)
    <3>1. cancel'[c].pc = "queue" /\ cancel'[c].task = t /\ confirmations["start"][t] = "spent"
      BY <2>2 DEF CancelMark, CancelAt, SettledCancel
    <3>2. tasks'[t].status \in {"absent", "cancelling"} /\ confirmations' = confirmations
      BY <2>0, <2>2 DEF CancelMark, update_task, StoreTypeOK, TaskRow
    <3> QED BY <3>1, <3>2
  <2>3. CASE CancelQueue(c)
    <3>1. cancel'[c] = NoCancel \/ (cancel'[c].pc = "call" /\ cancel'[c].task = t)
      BY <2>3 DEF CancelQueue, CancelAt
    <3>2. Settled(t)
      BY <2>3 DEF CancelQueue, CancelAt, SettledCancel
    <3> HIDE DEF t
    <3> QED BY <1>2, <1>b, <2>0, <3>1, <3>2 DEF Settled
  <2>4. CASE CancelCall(c)
    BY <1>2, <2>0, <2>4 DEF CancelCall, CancelAt
  <2> QED BY <1>3, <2>1, <2>2, <2>3, <2>4 DEF CancelThread
<1>4. \A c \in Cancellers : \/ cancel'[c] = cancel[c]
                            \/ cancel'[c].pc \notin {"mark", "queue", "call"}
                            \/ CancelThread(c)
  <2>1. ASSUME NEW d \in Cancellers, CancelThread(d)
        PROVE  \A c \in Cancellers : cancel'[c] = cancel[c] \/ CancelThread(c)
    BY <2>1 DEF CancelThread, CancelRead, CancelMark, CancelQueue, CancelCall, CancelAt
  <2>2. ASSUME NEW d \in Cancellers, NEW t \in Tasks, ConfirmCancel(d, t)
        PROVE  \A c \in Cancellers : cancel'[c] = cancel[c] \/ cancel'[c].pc \notin {"mark", "queue", "call"}
    BY <2>2 DEF ConfirmCancel, CancelAt, NoCancel
  <2>3. CASE Restart
    BY <2>3 DEF Restart, NoCancel
  <2>4. CASE Reconcile \/ Monitor
    BY <2>4 DEF Reconcile, ReconcileCancel, ReconcilePoll, CaptureFiles, CaptureManifest,
       ReconcileQueue, ReconcileFinish, CleanupRead, CleanupCancel, CleanupCheck, CleanupDelete,
       CleanupClear, RecAt, Monitor, RecoverPending, RecoverList, RecoverVisit, RecoverAttach,
       RecoverAdopt, RecoverRecord, RecoverDone, CleanupRows, CleanupTree, CleanupTreeFails,
       TickDone, MonAt
  <2>5. ASSUME NEW t \in Tasks,
               \/ PrepareStart(t) \/ PrepareCancel(t) \/ ConfirmStart(t) \/ StartThread(t)
               \/ \E action \in {"start", "cancel"} : ApprovalExpires(action, t)
               \/ Steer(t) \/ SteerSend(t) \/ ReconcileBegin(t) \/ DeadlinePasses(t) \/ ProviderStep(t)
        PROVE  UNCHANGED cancel
    BY <2>5 DEF PrepareStart, PrepareCancel, ConfirmStart, StartThread, StartPost, StartCreated,
       StartRejected, StartUncertain, StartAttach, StartFail, StartRelease, StartAt, ApprovalExpires,
       Steer, SteerSend, ReconcileBegin, RecAt, DeadlinePasses, ProviderStep, threadVars
  <2> QED BY <2>1, <2>2, <2>3, <2>4, <2>5 DEF Next
<1> QED BY <1>1, <1>2, <1>3, <1>4 DEF SettledCancel, Settled

\* From one step of the holder of reconcile_lock to the next (service.py:132-175).
RecFlow(t) ==
    \/ rec.pc = "cancel" /\ rec'.pc = "poll"
    \/ rec.pc = "poll" /\ rec'.pc \in {"capture", "queue"} /\ remote[t] \in Outcomes
    \/ rec.pc = "capture" /\ rec'.pc \in {"manifest", "queue"}
    \/ rec.pc = "manifest" /\ rec'.pc = "queue"
    \/ rec.pc = "queue" /\ rec'.pc = "finish" /\ ReconcileQueue
    \/ rec.pc = "finish" /\ rec'.pc = "journal" /\ ReconcileFinish
    \/ /\ rec.pc = "journal"
       /\ \/ rec'.pc = "stop"
          \/ rec'.pc = "delete" /\ remote_work[t].session /\ ~remote_work[t].cancel_required
    \/ rec.pc = "stop" /\ rec'.pc = "check"
    \/ rec.pc = "check" /\ rec'.pc = "delete" /\ remote[t] \in Outcomes
    \/ rec.pc \in {"stop", "check", "delete"} /\ rec'.pc = "clear"

\* The reconciliation goes on with the task it began with.
SameCall == rec'.task = rec.task /\ rec'.early = rec.early

\* Those are all of its steps.
LEMMA RecFlows ==
    ASSUME TypeOK, Reconcile
    PROVE  /\ rec.task \in Tasks
           /\ rec'.pc = "idle" \/ (SameCall /\ RecFlow(rec.task))
<1> USE DEF TypeOK, RecTypeOK, SameCall
<1>0. rec.task \in Tasks
  BY DEF Reconcile, ReconcileCancel, ReconcilePoll, CaptureFiles, CaptureManifest,
     ReconcileQueue, ReconcileFinish, CleanupRead, CleanupCancel, CleanupCheck, CleanupDelete,
     CleanupClear, RecAt
<1>a. NoRec.pc = "idle"
  BY DEF NoRec
<1>b. \A pc : [rec EXCEPT !.pc = pc].pc = pc /\ [rec EXCEPT !.pc = pc].task = rec.task
           /\ [rec EXCEPT !.pc = pc].early = rec.early
  OBVIOUS
<1>c. \A pc, r : [rec EXCEPT !.pc = pc, !.result = r].pc = pc
                 /\ [rec EXCEPT !.pc = pc, !.result = r].task = rec.task
                 /\ [rec EXCEPT !.pc = pc, !.result = r].early = rec.early
  OBVIOUS
<1> SUFFICES rec'.pc = "idle" \/ (SameCall /\ RecFlow(rec.task))
  BY <1>0
<1>1. CASE ReconcileCancel
  BY <1>1, <1>a, <1>b DEF ReconcileCancel, RecAt, RecFlow
<1>2. CASE ReconcilePoll
  <2> DEFINE r == terminal_result(rec.task)
  <2>1. rec.pc = "poll" /\ (r # "none" => remote[rec.task] \in Outcomes)
    BY <1>2 DEF ReconcilePoll, RecAt, terminal_result
  <2>2. \/ rec' = NoRec
        \/ r # "none" /\ rec' = [rec EXCEPT !.pc = "capture", !.result = r]
        \/ r # "none" /\ rec' = [rec EXCEPT !.pc = "queue", !.result = r]
    BY <1>2 DEF ReconcilePoll
  <2> HIDE DEF r
  <2>3. ASSUME NEW pc \in {"capture", "queue"}, rec' = [rec EXCEPT !.pc = pc, !.result = r]
        PROVE  rec'.pc = pc /\ SameCall
    BY <2>3
  <2> QED BY <1>a, <2>1, <2>2, <2>3 DEF RecFlow
<1>3. CASE CaptureFiles
  BY <1>3, <1>b, <1>c DEF CaptureFiles, RecAt, RecFlow
<1>4. CASE CaptureManifest
  BY <1>4, <1>c DEF CaptureManifest, RecAt, RecFlow
<1>5. CASE ReconcileQueue \/ ReconcileFinish
  BY <1>5, <1>b DEF ReconcileQueue, ReconcileFinish, RecAt, RecFlow
<1>6. CASE CleanupRead
  <2>1. rec.pc = "journal"
    BY <1>6 DEF CleanupRead, RecAt
  <2>2. \/ rec' = NoRec
        \/ rec' = [rec EXCEPT !.pc = "stop"]
        \/ /\ rec' = [rec EXCEPT !.pc = "delete"]
           /\ remote_work[rec.task].session /\ ~remote_work[rec.task].cancel_required
    BY <1>6 DEF CleanupRead
  <2> QED BY <1>a, <1>b, <2>1, <2>2 DEF RecFlow
<1>7. CASE CleanupCancel
  BY <1>7, <1>a, <1>b DEF CleanupCancel, CleanupCall, RecAt, RecFlow
<1>8. CASE CleanupCheck
  BY <1>8, <1>a, <1>b DEF CleanupCheck, CleanupCall, RecAt, RecFlow, terminal_result
<1>9. CASE CleanupDelete \/ CleanupClear
  BY <1>9, <1>a, <1>b DEF CleanupDelete, CleanupCall, CleanupClear, RecAt, RecFlow
<1> QED BY <1>1, <1>2, <1>3, <1>4, <1>5, <1>6, <1>7, <1>8, <1>9 DEF Reconcile

\* Only ReconcileBegin, the steps of Reconcile and a crash change who holds the lock.
LEMMA RecMoves ==
    ASSUME TypeOK, Next
    PROVE  rec' = rec \/ rec'.pc = "idle" \/ (\E t \in Tasks : ReconcileBegin(t)) \/ Reconcile
<1>1. CASE Monitor
  BY <1>1 DEF Monitor, RecoverPending, RecoverList, RecoverVisit, RecoverAttach, RecoverAdopt,
     RecoverRecord, RecoverDone, CleanupRows, CleanupTree, CleanupTreeFails, TickDone, MonAt
<1>2. ASSUME NEW t \in Tasks,
             \/ PrepareStart(t) \/ PrepareCancel(t) \/ ConfirmStart(t) \/ StartThread(t)
             \/ \E action \in {"start", "cancel"} : ApprovalExpires(action, t)
             \/ \E c \in Cancellers : ConfirmCancel(c, t)
             \/ Steer(t) \/ SteerSend(t) \/ DeadlinePasses(t) \/ ProviderStep(t)
      PROVE  UNCHANGED rec
  BY <1>2 DEF PrepareStart, PrepareCancel, ConfirmStart, StartThread, StartPost, StartCreated,
     StartRejected, StartUncertain, StartAttach, StartFail, StartRelease, StartAt, ApprovalExpires,
     ConfirmCancel, CancelAt, Steer, SteerSend, DeadlinePasses, ProviderStep, threadVars
<1>3. ASSUME NEW c \in Cancellers, CancelThread(c)  PROVE UNCHANGED rec
  BY <1>3 DEF CancelThread, CancelRead, CancelMark, CancelQueue, CancelCall, CancelAt
<1>4. CASE Restart
  BY <1>4 DEF Restart, NoRec
<1> QED BY <1>1, <1>2, <1>3, <1>4 DEF Next

Cleaning == {"journal", "stop", "check", "delete", "clear"}

\* _cleanup_remote is reached with a verdict on record (service.py:135-159).
LEMMA SettledRecStep ==
    ASSUME SessionInv, Next
    PROVE  SettledRec'
<1> USE DEF SessionInv, VerdictInv, TypeOK
<1> DEFINE AfterSettled(u) == /\ confirmations'["start"][u] = "spent"
                              /\ tasks'[u].status \notin {"creating", "running"}
           AfterJudged(u) == /\ confirmations'["start"][u] = "spent"
                             /\ tasks'[u].retention \/ tasks'[u].status = "absent"
<1>a. \A u \in Tasks : (Settled(u) => AfterSettled(u)) /\ (Judged(u) => AfterJudged(u))
  BY SettledStays DEF Settled, Judged
<1>g. SUFFICES /\ rec'.pc = "cancel" => AfterSettled(rec'.task)
               /\ rec'.pc \in Cleaning => rec'.early \/ AfterJudged(rec'.task)
  BY DEF SettledRec, Settled, Judged, Cleaning
<1>1. CASE rec' = rec
  <2>1. rec.pc # "idle" => rec.task \in Tasks
    BY DEF RecTypeOK
  <2>2. /\ rec.pc = "cancel" => Settled(rec.task)
        /\ rec.pc \in Cleaning => rec.early \/ Judged(rec.task)
    BY DEF SettledRec, Cleaning
  <2> HIDE DEF AfterSettled, AfterJudged
  <2>3. rec.pc = "cancel" \/ rec.pc \in Cleaning => rec.task \in Tasks
    BY <2>1 DEF Cleaning
  <2> QED BY <1>1, <1>a, <2>2, <2>3
<1>2. CASE rec'.pc = "idle"
  BY <1>2 DEF Cleaning
<1>3. ASSUME NEW t \in Tasks, ReconcileBegin(t)
      PROVE  /\ rec'.pc = "cancel" => AfterSettled(rec'.task)
             /\ rec'.pc \in Cleaning => rec'.early \/ AfterJudged(rec'.task)
  <2>0. /\ tasks[t].status \in Active => confirmations["start"][t] = "spent"
        /\ tasks[t].status \in Terminal => tasks[t].retention
        /\ tasks[t].status \in Active \cup Terminal \cup {"absent"}
    BY DEF FreshRows, FinishedIsAnnounced, StoreTypeOK, TaskRow, Active
  <2>a. /\ rec'.task = t
        /\ rec'.pc = "cancel" => tasks[t].status = "cancelling"
        /\ rec'.pc \in Cleaning => tasks[t].status \notin Active
    BY <1>3 DEF ReconcileBegin, ReadTask, Cleaning
  <2>b. rec'.early <=> confirmations["start"][t] # "spent"
    <3> DEFINE unspent == confirmations["start"][t] # "spent"
    <3>1. PICK pc, result :
              rec' = [pc |-> pc, task |-> t, session |-> tasks[t].session, result |-> result,
                      early |-> unspent]
      BY <1>3 DEF ReconcileBegin, ReadTask
    <3>2. rec'.early = unspent
      BY <3>1
    <3> QED BY <3>2
  <2>1. /\ rec'.task = t
        /\ rec'.pc = "cancel" => tasks[t].status = "cancelling"
        /\ rec'.pc \in Cleaning =>
               tasks[t].status \notin Active /\ (rec'.early \/ confirmations["start"][t] = "spent")
    BY <2>a, <2>b
  <2>2. rec'.pc = "cancel" => Settled(t)
    BY <2>0, <2>1 DEF Settled, Active
  <2>3. rec'.pc \in Cleaning => rec'.early \/ Judged(t)
    BY <2>0, <2>1 DEF Judged
  <2> HIDE DEF AfterSettled, AfterJudged
  <2> QED BY <1>a, <2>1, <2>2, <2>3
<1>4. CASE Reconcile
  <2>1. rec.task \in Tasks /\ (rec'.pc = "idle" \/ (SameCall /\ RecFlow(rec.task)))
    BY <1>4, RecFlows
  <2>2. CASE ReconcileFinish
    <3> DEFINE t == rec.task
    <3>1. rec'.pc = "journal" /\ rec'.task = t /\ t \in Tasks /\ confirmations["start"][t] = "spent"
          /\ rec.result \in Terminal
      BY <2>1, <2>2 DEF ReconcileFinish, RecAt, RecTypeOK, SpentRec, SameCall
    <3>2. confirmations' = confirmations
      BY <2>2 DEF ReconcileFinish, finish_task
    <3>3. tasks'[t].retention \/ tasks'[t].status = "absent"
      <4>1. CASE tasks[t].status \in Active
        <5>1. tasks'[t] = [tasks[t] EXCEPT !.status = rec.result, !.retention = TRUE]
          BY <2>2, <3>1, <4>1 DEF ReconcileFinish, finish_task, StoreTypeOK
        <5>2. tasks[t] \in TaskRow
          BY <3>1 DEF StoreTypeOK
        <5> QED BY <5>1, <5>2 DEF TaskRow
      <4>2. CASE tasks[t].status \notin Active
        <5>1. tasks' = tasks
          BY <2>2, <4>2 DEF ReconcileFinish, finish_task
        <5>2. tasks[t].status \in Terminal \cup {"absent"}
          BY <3>1, <4>2 DEF StoreTypeOK, TaskRow
        <5> QED BY <3>1, <5>1, <5>2 DEF FinishedIsAnnounced
      <4> QED BY <4>1, <4>2
    <3> QED BY <3>1, <3>2, <3>3
  <2>3. CASE ~ReconcileFinish /\ rec'.pc \in Cleaning \cup {"cancel"}
    <3>1. rec.pc \in Cleaning /\ rec'.pc \in Cleaning /\ SameCall
      BY <2>1, <2>3 DEF RecFlow, Cleaning
    <3>2. rec.early \/ Judged(rec.task)
      BY <3>1 DEF SettledRec, Cleaning
    <3> HIDE DEF AfterSettled, AfterJudged
    <3>3. rec'.pc # "cancel"
      BY <3>1 DEF Cleaning
    <3> QED BY <1>a, <2>1, <3>1, <3>2, <3>3 DEF SameCall
  <2>4. CASE rec'.pc \notin Cleaning \cup {"cancel"}
    BY <2>4
  <2> HIDE DEF AfterSettled, AfterJudged
  <2> QED BY <2>2, <2>3, <2>4
<1> HIDE DEF AfterSettled, AfterJudged
<1> QED BY <1>1, <1>2, <1>3, <1>4, RecMoves

\* The journal says how the session of a judged task is to be cleaned up: what a
\* verdict is given to has been looked at, or is marked to be cancelled first.
LEMMA SafeRowsStep ==
    ASSUME SessionInv, Next
    PROVE  SafeRows'
<1> USE DEF SessionInv
<1>1. SUFFICES ASSUME NEW u \in Tasks, Judged(u)'  PROVE Safe(u)'
  BY DEF SafeRows
<1>a. rec.pc = "queue" => Done(rec.task) \/ rec.result = "timed_out"
  BY DEF SafeRec
<1>b. RowLife(u)
  BY RowLives DEF VerdictInv
<1>2. CASE confirmations["start"][u] = "spent" /\ Safe(u)
  BY <1>2, <1>a, SafeStays
<1>3. CASE Judged(u)
  BY <1>2, <1>3 DEF SafeRows, Judged
<1>4. CASE Finished(u)
  <2>1. confirmations["start"][u] = "spent"
    BY <1>4 DEF Finished, VerdictInv, FreshRows
  <2>2. CASE start[u] = "reject"
    <3>1. Safe(u)
      BY <2>2 DEF IndInv, RejectedStart, Safe
    <3> QED BY <1>2, <2>1, <3>1
  <2>3. CASE rec.pc = "finish" /\ rec.task = u
    <3>1. Safe(u)
      BY <2>3 DEF SafeRec
    <3> QED BY <1>2, <2>1, <3>1
  <2> QED BY <1>4, <2>2, <2>3 DEF Finished
<1>5. CASE confirmations["start"][u] # "spent"
  <2>1. start[u] = "idle" /\ remote[u] = "none"
    BY <1>5 DEF IndInv, UnsentStart
  <2>2. ~Made(u)
    <3>1. ASSUME Made(u)  PROVE tasks'[u].status = "creating" /\ ~tasks'[u].retention
      BY <3>1 DEF Made, NoTask
    <3> QED BY <1>1, <3>1 DEF Judged
  <2>3. ~ConfirmStart(u)
    <3>1. ASSUME ConfirmStart(u)  PROVE tasks'[u].status = "creating" /\ ~tasks'[u].retention
      BY <3>1 DEF ConfirmStart, reserve_start, NoTask, VerdictInv, TypeOK, StoreTypeOK
    <3> QED BY <1>1, <3>1 DEF Judged
  <2>4. RemoteStep(u) /\ StartStep(u)
    BY RemoteSteps, StartSteps
  <2>5. remote'[u] = "none"
    BY <2>1, <2>4, ServiceAssumption DEF RemoteStep, Live, Working
  <2>6. start'[u] # "post"
    BY <2>1, <2>3, <2>4 DEF StartStep
  <2> QED BY <2>5, <2>6 DEF Safe
<1>6. CASE confirmations["start"][u] = "spent" /\ (Kept(u) \/ Changed(u) \/ Deleted(u))
  <2>1. Judged(u)
    BY <1>1, <1>6 DEF Judged, Kept, Changed, Deleted
  <2> QED BY <1>3, <2>1
<1> QED BY <1>b, <1>4, <1>5, <1>6 DEF RowLife, Made

\* The holder of reconcile_lock on its way to a verdict and to the deletion.
LEMMA SafeRecStep ==
    ASSUME SessionInv, Next
    PROVE  SafeRec'
<1> USE DEF SessionInv, VerdictInv, TypeOK
<1> DEFINE t == rec'.task
           AfterDone == remote'[t] \in Outcomes \cup Gone \/ t \in reopened'
           AfterSafe == \/ remote_work'[t].cancel_required
                        \/ AfterDone
                        \/ remote'[t] = "rejected"
                        \/ remote'[t] = "none" /\ start'[t] # "post"
           Goal == /\ rec'.pc \in {"capture", "manifest"} => AfterDone
                   /\ rec'.pc = "queue" => AfterDone \/ rec'.result = "timed_out"
                   /\ rec'.pc = "finish" => AfterSafe
                   /\ rec'.pc = "delete" => rec'.early \/ AfterDone
<1>g. SUFFICES Goal
  BY DEF SafeRec, Safe, Done
<1>a. rec.pc = "queue" => Done(rec.task) \/ rec.result = "timed_out"
  BY DEF SafeRec
<1>b. \A u \in Tasks : u = t /\ Done(u) => AfterDone
  BY DoneStays DEF Done
<1>c. \A u \in Tasks : u = t /\ confirmations["start"][u] = "spent" /\ Safe(u) => AfterSafe
  BY <1>a, SafeStays DEF Safe, Done
<1>d. rec.pc # "idle" => rec.task \in Tasks
  BY DEF RecTypeOK
<1>e. rec.pc \in {"queue", "finish"} => confirmations["start"][rec.task] = "spent"
  BY DEF SpentRec
<1>1. CASE rec' = rec
  <2> HIDE DEF AfterDone, AfterSafe
  <2>1. CASE rec.pc \in {"capture", "manifest"} \/ (rec.pc = "queue" /\ rec.result # "timed_out")
    BY <1>1, <1>b, <1>d, <2>1 DEF SafeRec
  <2>2. CASE rec.pc = "finish"
    BY <1>1, <1>c, <1>d, <1>e, <2>2 DEF SafeRec
  <2>3. CASE rec.pc = "delete"
    BY <1>1, <1>b, <1>d, <2>3 DEF SafeRec
  <2> QED BY <1>1, <2>1, <2>2, <2>3
<1>2. CASE rec'.pc = "idle"
  BY <1>2
<1>3. ASSUME NEW u \in Tasks, ReconcileBegin(u)  PROVE Goal
  <2>1. rec'.pc \in {"journal", "cancel", "poll"} \/ (rec'.pc = "queue" /\ rec'.result = "timed_out")
    BY <1>3 DEF ReconcileBegin, ReadTask
  <2> HIDE DEF AfterDone, AfterSafe
  <2> QED BY <2>1
<1>4. CASE Reconcile
  <2>1. rec.task \in Tasks /\ (rec'.pc = "idle" \/ (t = rec.task /\ rec'.early = rec.early /\ RecFlow(rec.task)))
    BY <1>4, RecFlows DEF SameCall
  <2>2. CASE rec.pc \in {"poll", "capture", "manifest"} /\ t = rec.task /\ RecFlow(rec.task)
    <3>1. Done(rec.task)
      BY <2>2 DEF RecFlow, SafeRec, Done
    <3>2. rec'.pc \in {"capture", "manifest", "queue"}
      BY <2>2 DEF RecFlow
    <3> HIDE DEF AfterDone, AfterSafe
    <3> QED BY <1>b, <2>1, <2>2, <3>1, <3>2
  <2>3. CASE rec.pc = "queue" /\ t = rec.task /\ RecFlow(rec.task)
    <3>1. rec'.pc = "finish" /\ ReconcileQueue
      BY <2>3 DEF RecFlow
    <3>2. CASE Done(rec.task)
      <4>1. AfterSafe
        BY <1>b, <2>1, <2>3, <3>2
      <4> HIDE DEF AfterDone, AfterSafe
      <4> QED BY <3>1, <4>1
    <3>3. CASE rec.result = "timed_out"
      <4>1. remote_work'[rec.task].cancel_required
        BY <2>1, <3>1, <3>3 DEF ReconcileQueue, queue_cleanup, StoreTypeOK
      <4>2. AfterSafe
        BY <2>3, <4>1
      <4> HIDE DEF AfterDone, AfterSafe
      <4> QED BY <3>1, <4>2
    <3> QED BY <1>a, <2>3, <3>2, <3>3
  <2>4. CASE /\ rec.pc = "journal" /\ rec'.pc = "delete"
           /\ t = rec.task /\ rec'.early = rec.early /\ RecFlow(rec.task)
    <3>1. remote_work[rec.task].session /\ ~remote_work[rec.task].cancel_required
      BY <2>4 DEF RecFlow
    <3>2. Created(rec.task)
      BY <2>1, <3>1 DEF IndInv, KnownSessions, KnownByRows
    <3>3. remote[rec.task] \notin {"rejected", "none"}
      BY <3>2, ServiceAssumption DEF Created, Live, Working, Gone
    <3>4. rec.early \/ Judged(rec.task)
      BY <2>4 DEF SettledRec
    <3>5. Judged(rec.task) => Done(rec.task)
      BY <2>1, <3>1, <3>3 DEF SafeRows, Safe
    <3> HIDE DEF AfterDone, AfterSafe
    <3> QED BY <1>b, <2>1, <2>4, <3>4, <3>5
  <2>5. CASE rec.pc = "check" /\ rec'.pc = "delete" /\ t = rec.task /\ RecFlow(rec.task)
    <3>1. Done(rec.task)
      BY <2>5 DEF RecFlow, Done
    <3> HIDE DEF AfterDone, AfterSafe
    <3> QED BY <1>b, <2>1, <2>5, <3>1
  <2>6. CASE rec'.pc \in {"idle", "poll", "journal", "stop", "check", "clear"}
    <3> HIDE DEF AfterDone, AfterSafe
    <3> QED BY <2>6
  <2> HIDE DEF t, Goal
  <2> QED BY <2>1, <2>2, <2>3, <2>4, <2>5, <2>6 DEF RecFlow
<1> HIDE DEF Goal
<1> QED BY <1>1, <1>2, <1>3, <1>4, RecMoves

\* A task is over before its session is touched: the invariant of the three
\* properties below.
THEOREM SessionsCorrect == Spec => []SessionInv
<1>1. Init => SessionInv
  <2> SUFFICES ASSUME Init  PROVE SessionInv
    OBVIOUS
  <2>1. IndInv
    BY IndInvInit
  <2>2. VerdictInv
    BY VerdictInvInit
  <2>3. RetiredRows /\ SettledCancel /\ SettledRec /\ SafeRec
    BY DEF Init, StoreInit, NoTask, NoCancel, NoRec, RetiredRows, SettledCancel, SettledRec, SafeRec
  <2>4. SafeRows
    BY DEF Init, StoreInit, SafeRows, Judged
  <2> QED BY <2>1, <2>2, <2>3, <2>4 DEF SessionInv
<1>2. SessionInv /\ [Next]_vars => SessionInv'
  <2>1. ASSUME SessionInv, Next  PROVE SessionInv'
    <3>1. IndInv' /\ VerdictInv' /\ RetiredRows'
      BY <2>1, IndInvStep, VerdictInvStep, RetiredRowsStep DEF SessionInv, IndInv
    <3> QED BY <2>1, <3>1, SettledCancelStep, SettledRecStep, SafeRowsStep, SafeRecStep DEF SessionInv
  <2>2. ASSUME SessionInv, UNCHANGED vars  PROVE SessionInv'
    <3>1. IndInv' /\ VerdictInv'
      BY <2>2, IndInvStutter, VerdictInvStutter DEF SessionInv
    <3> QED BY <2>2, <3>1 DEF vars, storeVars, providerVars, threadVars, SessionInv, RetiredRows,
            SettledCancel, SettledRec, SafeRows, SafeRec, Settled, Judged, Safe, Done
  <2> QED BY <2>1, <2>2
<1> QED BY <1>1, <1>2, PTL DEF Spec

-----------------------------------------------------------------------------
(* The properties, with the exception that AgentService states: a           *)
(* reconciliation that looked for its task before the start was confirmed. *)

\* No thread cancels the session of a task that is waited for, but an early
\* reconciliation.
THEOREM CancelsRequested == Spec => NoUnrequestedCancel
<1> DEFINE A == \A t \in Tasks :
           remote[t] = "active" /\ remote'[t] = "cancelling"
               => tasks[t].status \notin {"creating", "running"} \/ Early(t)
<1>1. SessionInv /\ [Next]_vars => [A]_vars
  <2>1. ASSUME SessionInv, Next  PROVE A
    <3>1. SUFFICES ASSUME NEW t \in Tasks, remote[t] = "active", remote'[t] = "cancelling"
                   PROVE  tasks[t].status \notin {"creating", "running"} \/ Early(t)
      OBVIOUS
    <3>2. TurnStep(t)
      BY <2>1, TurnSteps DEF SessionInv, IndInv
    <3>3. ASSUME NEW c \in Cancellers, cancel[c].pc = "call", cancel[c].task = t
          PROVE  tasks[t].status \notin {"creating", "running"}
      BY <2>1, <3>3 DEF SessionInv, SettledCancel, Settled
    <3>4. CASE rec.pc = "cancel" /\ rec.task = t
      BY <2>1, <3>4 DEF SessionInv, SettledRec, Settled
    <3>5. CASE rec.pc = "stop" /\ rec.task = t
      <4>1. rec.early \/ Judged(t)
        BY <2>1, <3>5 DEF SessionInv, SettledRec
      <4> QED BY <2>1, <3>5, <4>1 DEF SessionInv, Judged, RetiredRows, Early
    <3> QED BY <3>1, <3>2, <3>3, <3>4, <3>5 DEF TurnStep
  <2> QED BY <2>1
<1> QED BY <1>1, SessionsCorrect, PTL DEF Spec, NoUnrequestedCancel

\* What a session did is on record before it is deleted, but by an early
\* reconciliation.
THEOREM VerdictFirst == Spec => VerdictBeforeDelete
<1> DEFINE A == \A t \in Tasks :
           remote[t] # "deleted" /\ remote'[t] = "deleted"
               => tasks[t].retention \/ tasks[t].status = "absent" \/ Early(t)
<1>1. SessionInv /\ [Next]_vars => [A]_vars
  <2>1. ASSUME SessionInv, Next, NEW t \in Tasks, remote[t] # "deleted", remote'[t] = "deleted"
        PROVE  tasks[t].retention \/ tasks[t].status = "absent" \/ Early(t)
    <3>1. rec.pc = "delete" /\ rec.task = t
      BY <2>1, TurnSteps DEF SessionInv, IndInv, TurnStep
    <3>2. rec.early \/ Judged(t)
      BY <2>1, <3>1 DEF SessionInv, SettledRec
    <3> QED BY <3>1, <3>2 DEF Judged, Early
  <2> QED BY <2>1
<1> QED BY <1>1, SessionsCorrect, PTL DEF Spec, VerdictBeforeDelete

\* No session is deleted in the middle of a turn that no steer message began,
\* but by an early reconciliation.
THEOREM DoneBeforeDelete == Spec => DeletedOnlyWhenDone
<1> DEFINE A == \A t \in Tasks :
           remote[t] \in Working /\ remote'[t] = "deleted" => t \in reopened \/ Early(t)
<1>1. SessionInv /\ [Next]_vars => [A]_vars
  <2>1. ASSUME SessionInv, Next, NEW t \in Tasks, remote[t] \in Working, remote'[t] = "deleted"
        PROVE  t \in reopened \/ Early(t)
    <3>1. rec.pc = "delete" /\ rec.task = t
      BY <2>1, TurnSteps DEF SessionInv, IndInv, TurnStep, Working
    <3>2. rec.early \/ Done(t)
      BY <2>1, <3>1 DEF SessionInv, SafeRec
    <3> QED BY <2>1, <3>1, <3>2, ServiceAssumption DEF Done, Working, Gone, Early
  <2> QED BY <2>1
<1> QED BY <1>1, SessionsCorrect, PTL DEF Spec, DeletedOnlyWhenDone

=============================================================================
