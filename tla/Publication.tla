---------------------------- MODULE Publication ----------------------------
(***************************************************************************)
(* Publishing the output of a completed task: the table publish_jobs of    *)
(* src/combadge/store.py, the Publisher of src/combadge/github.py, its two *)
(* callers in src/combadge/service.py (confirm_publish and recover), and   *)
(* GitHub as the publisher sees it.                                        *)
(*                                                                         *)
(* A commit is the sequence of the authors of its history: the object id   *)
(* computed by commit_sha is determined by the job (its tree, time and     *)
(* identity) and the parent, so a job's commit on top of c is Append(c, j).*)
(* Likewise the ownership marker of a job is the job, for its row draws one *)
(* marker only.                                                            *)
(***************************************************************************)
EXTENDS Naturals, SequencesExt

CONSTANTS
    Jobs,        \* publish_jobs rows by idempotency key
    Tasks, Repositories,
    TaskOf, RepositoryOf,   \* the task and the repository of each job
    Blocked,     \* tasks whose output validation refuses: nothing to publish in it,
                 \* or a recognisable credential
    None,        \* no job, no repository owner
    Outside,     \* whoever else writes to the account: "create", "push"
    MaxOutside,  \* bound on what they do
    MaxFaults    \* bound on failed requests and crashes

ASSUME PublicationAssumption ==
    /\ TaskOf \in [Jobs -> Tasks] /\ RepositoryOf \in [Jobs -> Repositories]
    /\ Blocked \subseteq Tasks
    /\ {None, "init", "outside"} \cap Jobs = {} /\ None # "outside"
    /\ Outside \subseteq {"create", "push"}
    /\ MaxOutside \in Nat /\ MaxFaults \in Nat

VARIABLES
    kept,          \* tasks still within their retention
    publish_jobs,  \* the table, a row per job
    announced,     \* the 'published' row of notifications, per task: the job it names
    calls,         \* jobs some thread is about to publish, waiting for Publisher.lock
    pub,           \* the holder of Publisher.lock
    returned,      \* jobs whose publish has returned, not announced yet
    owner,         \* per repository, whose marker its description carries
    head,          \* per repository, the commit of its default branch
    objects,       \* per repository, the commit objects uploaded to it
    outside, faults

storeVars == <<kept, publish_jobs, announced>>
callVars == <<calls, returned>>
githubVars == <<owner, head, objects>>
countVars == <<outside, faults>>
vars == <<storeVars, callVars, pub, githubVars, countVars>>

Phases == {"prepared", "repository_creating", "repository_created", "blobs_uploaded",
           "tree_created", "commit_prepared", "commit_created", "complete"}

NoCommit == <<>>
Root == <<"init">>
Foreign == <<"outside">>

NoRow == [phase |-> "absent", payload |-> NoCommit, commit_sha |-> NoCommit]
Unlocked == [pc |-> "idle", job |-> None, row |-> NoRow, work |-> NoCommit]

Commits == Seq(Jobs \cup {"init", "outside"})

Rows == [phase: Phases \cup {"absent"}, payload: Commits, commit_sha: Commits]

TypeOK ==
    /\ kept \subseteq Tasks
    /\ publish_jobs \in [Jobs -> Rows]
    /\ announced \in [Tasks -> Jobs \cup {None}]
    /\ calls \subseteq Jobs /\ returned \subseteq Jobs
    /\ pub \in [pc: {"idle", "mark", "find", "create", "created", "refs", "blobs", "tree",
                     "payload", "commit", "sha", "patch", "done"},
                job: Jobs \cup {None}, row: Rows, work: Commits]
    /\ pub.pc # "idle" => pub.job \in Jobs
    /\ owner \in [Repositories -> Jobs \cup {None, "outside"}]
    /\ head \in [Repositories -> Commits]
    /\ objects \in [Repositories -> SUBSET Commits]
    /\ outside \in 0..MaxOutside /\ faults \in 0..MaxFaults

Init ==
    /\ kept = Tasks
    /\ publish_jobs = [j \in Jobs |-> NoRow]
    /\ announced = [t \in Tasks |-> None]
    /\ calls = {} /\ returned = {}
    /\ pub = Unlocked
    /\ owner = [r \in Repositories |-> None]
    /\ head = [r \in Repositories |-> NoCommit]
    /\ objects = [r \in Repositories |-> {}]
    /\ outside = 0 /\ faults = 0

Fault == faults < MaxFaults /\ faults' = faults + 1 /\ UNCHANGED outside
NoFault == UNCHANGED countVars

-----------------------------------------------------------------------------
(* The callers.                                                            *)

\* An approval is used: the row is created unless it exists, and published.
\* For a task that has been deleted the foreign key makes the insert fail.
ConfirmPublish(j) ==
    /\ TaskOf[j] \in kept
    /\ publish_jobs' = [publish_jobs EXCEPT ![j] =
           IF @.phase = "absent" THEN [NoRow EXCEPT !.phase = "prepared"] ELSE @]
    /\ calls' = calls \cup {j}
    /\ UNCHANGED <<kept, announced, returned, pub, githubVars>>
    /\ NoFault

\* recover takes up a job that is not complete.
RecoverPublish(j) ==
    /\ publish_jobs[j].phase \notin {"absent", "complete"}
    /\ calls' = calls \cup {j}
    /\ UNCHANGED <<storeVars, returned, pub, githubVars>>
    /\ NoFault

\* notify: one 'published' row per task, a second one is ignored.
Announce(j) ==
    /\ j \in returned
    /\ returned' = returned \ {j}
    /\ announced' = [announced EXCEPT ![TaskOf[j]] = IF @ = None THEN j ELSE @]
    /\ UNCHANGED <<kept, publish_jobs, calls, pub, githubVars>>
    /\ NoFault

-----------------------------------------------------------------------------
(* Publisher._publish.  A failed request ends it: the caller gets the      *)
(* error and the row keeps its phase.                                      *)

PubAt(from) ==
    /\ pub.pc = from
    /\ UNCHANGED <<kept, announced, calls>>

Repo == RepositoryOf[pub.job]

Go(to) == pub' = [pub EXCEPT !.pc = to]

\* Mutant: the lock is not released after an error.
AbortKeepsLock == pub' = [Unlocked EXCEPT !.pc = pub.pc]

Abort == pub' = Unlocked

\* update_publish changes nothing when the row is gone.
update_publish(row) ==
    publish_jobs' = [publish_jobs EXCEPT ![pub.job] = IF @.phase = "absent" THEN @ ELSE row]

\* publish_by_key after an update: it raises when the row is gone.
UpdateAndRead(row, to) ==
    /\ update_publish(row)
    /\ pub' = IF publish_jobs[pub.job].phase = "absent" THEN Unlocked
              ELSE [pub EXCEPT !.pc = to, !.row = row]

\* A request that fails without an effect.
RequestFails(from) ==
    /\ PubAt(from)
    /\ Abort
    /\ UNCHANGED <<publish_jobs, returned, githubVars>>
    /\ Fault

\* The files are validated first, in every attempt: those of a blocked task are
\* refused each time, others may fail to be read.  A complete job returns at once.
Begin(j) ==
    LET row == publish_jobs[j]
        from == CASE row.phase = "prepared" -> "mark"
                  [] row.phase = "repository_creating" -> "find"
                  [] OTHER -> "refs" IN
    /\ pub.pc = "idle"
    /\ j \in calls
    /\ calls' = calls \ {j}
    /\ \/ /\ row.phase = "complete"
          /\ returned' = returned \cup {j}
          /\ NoFault
          /\ UNCHANGED pub
       \/ /\ row.phase \notin {"complete", "absent"}
          /\ TaskOf[j] \notin Blocked
          /\ pub' = [Unlocked EXCEPT !.pc = from, !.job = j, !.row = row]
          /\ NoFault
          /\ UNCHANGED returned
       \/ /\ row.phase = "absent" \/ (row.phase # "complete" /\ TaskOf[j] \in Blocked)
          /\ NoFault
          /\ UNCHANGED <<pub, returned>>
       \/ /\ row.phase # "complete"
          /\ Fault
          /\ UNCHANGED <<pub, returned>>
    /\ UNCHANGED <<storeVars, githubVars>>

\* The marker is journaled before anything is created.
Mark ==
    /\ PubAt("mark")
    /\ UpdateAndRead([pub.row EXCEPT !.phase = "repository_creating"], "find")
    /\ UNCHANGED <<returned, githubVars>>
    /\ NoFault

\* Mutant: a repository that exists is a collision.
FindExpectsNone ==
    /\ PubAt("find")
    /\ \/ owner[Repo] = None /\ Go("create")
       \/ owner[Repo] # None /\ Abort
    /\ UNCHANGED <<publish_jobs, returned, githubVars>>
    /\ NoFault

\* Mutant: the marker is not looked for.
FindAnyOwner ==
    /\ PubAt("find")
    /\ \/ owner[Repo] = None /\ Go("create")
       \/ owner[Repo] # None /\ Go("created")
    /\ UNCHANGED <<publish_jobs, returned, githubVars>>
    /\ NoFault

\* A repository of that name is the job's own, by its marker, or a collision.
Find ==
    /\ PubAt("find")
    /\ \/ owner[Repo] = None /\ Go("create")
       \/ owner[Repo] = pub.job /\ Go("created")
       \/ owner[Repo] \notin {None, pub.job} /\ Abort
    /\ UNCHANGED <<publish_jobs, returned, githubVars>>
    /\ NoFault

Created ==
    /\ owner' = [owner EXCEPT ![Repo] = pub.job]
    /\ head' = [head EXCEPT ![Repo] = Root]
    /\ UNCHANGED objects

Create ==
    /\ PubAt("create")
    /\ \/ owner[Repo] = None /\ Created /\ Go("created") /\ NoFault
       \/ owner[Repo] = None /\ Created /\ Abort /\ Fault
       \/ owner[Repo] # None /\ Abort /\ UNCHANGED githubVars /\ NoFault
    /\ UNCHANGED <<publish_jobs, returned>>

JournalCreated ==
    /\ PubAt("created")
    /\ UpdateAndRead([pub.row EXCEPT !.phase = "repository_created"], "refs")
    /\ UNCHANGED <<returned, githubVars>>
    /\ NoFault

\* Mutant: recovery builds a new commit on the present head.
RefsRebuild ==
    /\ PubAt("refs")
    /\ pub' = [pub EXCEPT !.pc = "blobs", !.work = head[Repo]]
    /\ UNCHANGED <<publish_jobs, returned, githubVars>>
    /\ NoFault

\* The head of the default branch decides where to go on: a journaled commit is
\* put on the branch again, a journaled payload is used again.
Refs ==
    LET sha == pub.row.commit_sha
        payload == pub.row.payload
        next == CASE sha # NoCommit -> [pub EXCEPT !.pc = IF head[Repo] = sha THEN "done" ELSE "patch",
                                                   !.work = sha]
                  [] sha = NoCommit /\ payload # NoCommit -> [pub EXCEPT !.pc = "commit", !.work = payload]
                  [] OTHER -> [pub EXCEPT !.pc = "blobs", !.work = head[Repo]] IN
    /\ PubAt("refs")
    /\ pub' = next
    /\ UNCHANGED <<publish_jobs, returned, githubVars>>
    /\ NoFault

Upload(from, phase, to) ==
    /\ PubAt(from)
    /\ update_publish([pub.row EXCEPT !.phase = phase])
    /\ pub' = [pub EXCEPT !.pc = to, !.row.phase = phase]
    /\ UNCHANGED <<returned, githubVars>>
    /\ NoFault

\* The parent and everything else that determines the commit are journaled
\* before the commit is made.
JournalPayload ==
    LET commit == Append(pub.work, pub.job) IN
    /\ PubAt("payload")
    /\ update_publish([pub.row EXCEPT !.phase = "commit_prepared", !.payload = commit])
    /\ pub' = [pub EXCEPT !.pc = "commit", !.work = commit,
                          !.row.phase = "commit_prepared", !.row.payload = commit]
    /\ UNCHANGED <<returned, githubVars>>
    /\ NoFault

\* The commit is fetched, or created if its parent is in the repository.
Commit ==
    LET exists == pub.work \in objects[Repo]
        possible == IsPrefix(Front(pub.work), head[Repo]) IN
    /\ PubAt("commit")
    /\ \/ exists /\ Go("sha") /\ UNCHANGED githubVars /\ NoFault
       \/ /\ ~exists /\ possible
          /\ objects' = [objects EXCEPT ![Repo] = @ \cup {pub.work}]
          /\ UNCHANGED <<owner, head>>
          /\ \/ Go("sha") /\ NoFault
             \/ Abort /\ Fault
       \/ ~exists /\ ~possible /\ Abort /\ UNCHANGED githubVars /\ NoFault
    /\ UNCHANGED <<publish_jobs, returned>>

JournalCommit ==
    /\ PubAt("sha")
    /\ update_publish([pub.row EXCEPT !.phase = "commit_created", !.commit_sha = pub.work])
    /\ pub' = [pub EXCEPT !.pc = "patch", !.row.phase = "commit_created",
                          !.row.commit_sha = pub.work]
    /\ UNCHANGED <<returned, githubVars>>
    /\ NoFault

\* Mutant: the branch is moved to the commit by force.
ForcePatch ==
    /\ PubAt("patch")
    /\ head' = [head EXCEPT ![Repo] = pub.work]
    /\ Go("done")
    /\ UNCHANGED <<publish_jobs, returned, owner, objects>>
    /\ NoFault

\* Mutant: a refused update is not noticed.
PatchUnchecked ==
    /\ PubAt("patch")
    /\ head' = IF IsPrefix(head[Repo], pub.work) THEN [head EXCEPT ![Repo] = pub.work] ELSE head
    /\ Go("done")
    /\ UNCHANGED <<publish_jobs, returned, owner, objects>>
    /\ NoFault

\* The branch is moved forward, never forced.
Patch ==
    LET forward == IsPrefix(head[Repo], pub.work) /\ pub.work \in objects[Repo] IN
    /\ PubAt("patch")
    /\ \/ /\ forward
          /\ head' = [head EXCEPT ![Repo] = pub.work]
          /\ UNCHANGED <<owner, objects>>
          /\ \/ Go("done") /\ NoFault
             \/ Abort /\ Fault
       \/ ~forward /\ Abort /\ UNCHANGED githubVars /\ NoFault
    /\ UNCHANGED <<publish_jobs, returned>>

Complete ==
    /\ PubAt("done")
    /\ update_publish([pub.row EXCEPT !.phase = "complete"])
    /\ Abort
    /\ returned' = IF publish_jobs[pub.job].phase = "absent" THEN returned
                   ELSE returned \cup {pub.job}
    /\ UNCHANGED githubVars
    /\ NoFault

Publish ==
    \/ Mark
    \/ Find
    \/ Create
    \/ JournalCreated
    \/ Refs
    \/ Upload("blobs", "blobs_uploaded", "tree")
    \/ Upload("tree", "tree_created", "payload")
    \/ JournalPayload
    \/ Commit
    \/ JournalCommit
    \/ Patch
    \/ Complete
    \/ \E pc \in {"find", "create", "refs", "blobs", "tree", "commit", "patch"} : RequestFails(pc)

-----------------------------------------------------------------------------
(* The environment.                                                        *)

\* The retention of a task ends: its rows go, the announcement with them.
Retire(t) ==
    /\ t \in kept
    /\ kept' = kept \ {t}
    /\ publish_jobs' = [j \in Jobs |-> IF TaskOf[j] = t THEN NoRow ELSE publish_jobs[j]]
    /\ announced' = [announced EXCEPT ![t] = None]
    /\ UNCHANGED <<callVars, pub, githubVars>>
    /\ NoFault

Crash ==
    /\ calls' = {} /\ returned' = {} /\ pub' = Unlocked
    /\ UNCHANGED <<storeVars, githubVars>>
    /\ Fault

\* Others with access to the account create a repository of the name or push to
\* its branch.
OthersAct(r) ==
    /\ outside < MaxOutside
    /\ outside' = outside + 1
    /\ \/ /\ "create" \in Outside /\ owner[r] = None
          /\ owner' = [owner EXCEPT ![r] = "outside"]
          /\ head' = [head EXCEPT ![r] = Foreign]
       \/ /\ "push" \in Outside /\ owner[r] # None
          /\ head' = [head EXCEPT ![r] = Append(@, "outside")]
          /\ UNCHANGED owner
    /\ UNCHANGED objects
    /\ UNCHANGED <<storeVars, callVars, pub, faults>>

Next ==
    \/ \E j \in Jobs : ConfirmPublish(j) \/ RecoverPublish(j) \/ Begin(j) \/ Announce(j)
    \/ Publish
    \/ \E t \in Tasks : Retire(t)
    \/ \E r \in Repositories : OthersAct(r)
    \/ Crash

Spec == Init /\ [][Next]_vars

\* The monitor takes up incomplete jobs in each tick and every request ends.
Fairness ==
    /\ \A j \in Jobs : /\ WF_vars(RecoverPublish(j))
                       /\ SF_vars(Begin(j))
                       /\ WF_vars(Announce(j))
    /\ WF_vars(Publish)

FairSpec == Spec /\ Fairness

-----------------------------------------------------------------------------

Times(j, commit) == Cardinality({i \in DOMAIN commit : commit[i] = j})

\* A publication makes one commit, whatever crash or lost answer falls between
\* a request and its journal entry: "recovery retrieves the deterministic Git
\* object instead of constructing a new commit" (README.md:47).
OneCommit == \A j \in Jobs, r \in Repositories : Times(j, head[r]) <= 1

\* A job recorded as complete has its commit on the branch (github.py:98-104,
\* 132-135): no failed or skipped request goes unnoticed.
CompleteIsPublished ==
    \A j \in Jobs : publish_jobs[j].phase = "complete" => Times(j, head[RepositoryOf[j]]) = 1

\* "Unrelated name collisions fail closed" (README.md:49): commits go to a
\* repository the job created, though ownership is checked in one phase only.
OnlyOwnRepositories == \A r \in Repositories : \A c \in objects[r] : Last(c) = owner[r]

\* Nothing on the branch is lost: a push by others between the reading of the
\* head and the update (github.py:99, 133) is not overwritten.
BranchOnlyGrows ==
    [][\A r \in Repositories : owner'[r] = owner[r] => IsPrefix(head[r], head'[r])]_vars

\* Every approved publication gets done, across crashes and lost answers, unless
\* others write to a repository of that name or the task is deleted.  Output that
\* is not published at all is excepted: without publishable files, or blocked by
\* "recognizable embedded private keys or tokens" (README.md:42-45), for which
\* every attempt fails in validation (github.py:77-78).
PublicationCompletes ==
    \A j \in {i \in Jobs : TaskOf[i] \notin Blocked} :
        publish_jobs[j].phase = "prepared"
            ~> \/ publish_jobs[j].phase \in {"complete", "absent"}
               \/ owner[RepositoryOf[j]] \notin {j, None}
               \/ Times("outside", head[RepositoryOf[j]]) > 0

=============================================================================
