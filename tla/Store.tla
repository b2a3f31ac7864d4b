------------------------------- MODULE Store -------------------------------
(***************************************************************************)
(* The SQLite journal of the Combadge daemon (src/combadge/store.py).      *)
(*                                                                         *)
(* Every method of the class Store runs in one BEGIN IMMEDIATE transaction *)
(* under one lock, so every operator below is one atomic step.  A column   *)
(* is kept when some guard of the program reads it; free text (prompt,     *)
(* summary, activity, usage, time stamps) and the events table are not.    *)
(*                                                                         *)
(* A session identifier is a BOOLEAN ("session_id IS NOT NULL"): at most   *)
(* one session is created for a task and it carries the task id in its     *)
(* metadata, so the identifier is determined by the task.                  *)
(***************************************************************************)
EXTENDS Naturals, FiniteSets

CONSTANTS
    Tasks,      \* the task ids handed out by AgentService._task_id
    MaxActive   \* AgentConfig.max_active

ASSUME StoreAssumption == IsFiniteSet(Tasks) /\ MaxActive \in Nat

VARIABLES
    tasks,          \* table tasks, one record per possible id
    remote_work,    \* table remote_work, the journal of provider sessions
    notifications,  \* the 'terminal' row of table notifications, per task
    confirmations   \* table confirmations, per action and task

storeVars == <<tasks, remote_work, notifications, confirmations>>

Active == {"creating", "running", "cancelling"}
Terminal == {"completed", "failed", "cancelled", "timed_out", "expired"}

\* The row is absent when its status is.  retention says that
\* retention_deadline is set, manifest that manifest_json is.
TaskRow == [status: Active \cup Terminal \cup {"absent"},
            session: BOOLEAN, manifest: BOOLEAN, retention: BOOLEAN]

NoTask == [status |-> "absent", session |-> FALSE,
           manifest |-> FALSE, retention |-> FALSE]

WorkRow == [present: BOOLEAN, session: BOOLEAN, cancel_required: BOOLEAN]

NoWork == [present |-> FALSE, session |-> FALSE, cancel_required |-> FALSE]

Journalled == {t \in Tasks : remote_work[t].present}

StoreTypeOK ==
    /\ tasks \in [Tasks -> TaskRow]
    /\ remote_work \in [Tasks -> WorkRow]
    /\ notifications \in [Tasks -> Terminal \cup {"none"}]
    /\ confirmations \in [{"start", "cancel"} -> [Tasks -> {"none", "open", "spent"}]]

StoreInit ==
    /\ tasks = [t \in Tasks |-> NoTask]
    /\ remote_work = [t \in Tasks |-> NoWork]
    /\ notifications = [t \in Tasks |-> "none"]
    /\ confirmations = [a \in {"start", "cancel"} |-> [t \in Tasks |-> "none"]]

-----------------------------------------------------------------------------
(* Confirmations: opaque, single use, valid for sixty seconds.             *)

create_confirmation(action, t) ==
    confirmations' = [confirmations EXCEPT ![action][t] = "open"]

consume_confirmation(action, t) ==
    /\ confirmations[action][t] = "open"
    /\ confirmations' = [confirmations EXCEPT ![action][t] = "spent"]

-----------------------------------------------------------------------------
(* Tasks and the journal of remote work.                                   *)

\* Mutant: the capacity is checked by prepare_start only.
reserve_unchecked(t) ==
    /\ consume_confirmation("start", t)
    /\ tasks' = [tasks EXCEPT ![t] = [NoTask EXCEPT !.status = "creating"]]
    /\ remote_work' = [remote_work EXCEPT ![t] = [NoWork EXCEPT !.present = TRUE]]
    /\ UNCHANGED notifications

\* Consumes the approval and takes a slot in one transaction.  With no slot
\* free the transaction raises and rolls back: the approval stays open.
reserve_start(t) ==
    /\ Cardinality(Journalled) < MaxActive
    /\ consume_confirmation("start", t)
    /\ tasks' = [tasks EXCEPT ![t] = [NoTask EXCEPT !.status = "creating"]]
    /\ remote_work' = [remote_work EXCEPT ![t] = [NoWork EXCEPT !.present = TRUE]]
    /\ UNCHANGED notifications

\* Mutant: the session is attached whatever has become of the task.
attach_always_runs(t) ==
    /\ tasks' = [tasks EXCEPT ![t].session = TRUE, ![t].status = "running"]
    /\ remote_work' = [remote_work EXCEPT ![t].session = TRUE]
    /\ UNCHANGED <<notifications, confirmations>>

\* Two UPDATEs: the task only while it has no session, the journal always.
attach_session(t) ==
    LET attached == [tasks[t] EXCEPT !.session = TRUE,
                                     !.status = IF @ = "creating" THEN "running" ELSE @] IN
    /\ tasks' = IF tasks[t].status # "absent" /\ ~tasks[t].session
                THEN [tasks EXCEPT ![t] = attached]
                ELSE tasks
    /\ remote_work' = IF remote_work[t].present
                      THEN [remote_work EXCEPT ![t].session = TRUE]
                      ELSE remote_work
    /\ UNCHANGED <<notifications, confirmations>>

\* Upsert: whatever the row held is replaced by the caller's values.
queue_cleanup(t, session, cancel) ==
    /\ remote_work' = [remote_work EXCEPT ![t] =
           [present |-> TRUE, session |-> session, cancel_required |-> cancel]]
    /\ UNCHANGED <<tasks, notifications, confirmations>>

clear_remote(t) ==
    /\ remote_work' = [remote_work EXCEPT ![t] = NoWork]
    /\ UNCHANGED <<tasks, notifications, confirmations>>

\* update_task(t, column = value) changes nothing when the row is gone.
update_task(t, row) ==
    /\ tasks' = [tasks EXCEPT ![t] = IF @.status = "absent" THEN @ ELSE row]
    /\ UNCHANGED <<remote_work, notifications, confirmations>>

\* The verdict and its announcement, in one transaction, unless the task is
\* gone or has a verdict already.
finish_task(t, status) ==
    LET finished == [tasks[t] EXCEPT !.status = status, !.retention = TRUE] IN
    /\ IF tasks[t].status \in Active
       THEN /\ tasks' = [tasks EXCEPT ![t] = finished]
            /\ notifications' = [notifications EXCEPT ![t] =
                                     IF @ = "none" THEN status ELSE @]
       ELSE UNCHANGED <<tasks, notifications>>
    /\ UNCHANGED <<remote_work, confirmations>>

\* Mutant: the announcements of a deleted task stay.
cleanup_tasks_only(S) ==
    /\ \A t \in S : tasks[t].retention
    /\ tasks' = [t \in Tasks |-> IF t \in S THEN NoTask ELSE tasks[t]]
    /\ UNCHANGED <<notifications, remote_work, confirmations>>

\* Mutant: the journal rows of a deleted task go with it.
cleanup_with_journal(S) ==
    /\ \A t \in S : tasks[t].retention
    /\ tasks' = [t \in Tasks |-> IF t \in S THEN NoTask ELSE tasks[t]]
    /\ notifications' = [t \in Tasks |-> IF t \in S THEN "none" ELSE notifications[t]]
    /\ remote_work' = [t \in Tasks |-> IF t \in S THEN NoWork ELSE remote_work[t]]
    /\ UNCHANGED confirmations

\* Deletes the tasks of S, those whose retention deadline has passed.  The
\* journal of remote work is left alone.
cleanup(S) ==
    /\ \A t \in S : tasks[t].retention
    /\ tasks' = [t \in Tasks |-> IF t \in S THEN NoTask ELSE tasks[t]]
    /\ notifications' = [t \in Tasks |-> IF t \in S THEN "none" ELSE notifications[t]]
    /\ UNCHANGED <<remote_work, confirmations>>

\* Store.__init__ on an existing database: active tasks that have no journal
\* row are given one.
backfill ==
    /\ remote_work' = [t \in Tasks |->
           IF tasks[t].status \in Active /\ ~remote_work[t].present
           THEN [present |-> TRUE, session |-> tasks[t].session, cancel_required |-> FALSE]
           ELSE remote_work[t]]
    /\ UNCHANGED <<tasks, notifications, confirmations>>

=============================================================================
