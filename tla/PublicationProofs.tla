------------------------- MODULE PublicationProofs -------------------------
(***************************************************************************)
(* Theorems about Publication, for any jobs, tasks and repositories and any *)
(* number of faults and of writes by others.                               *)
(***************************************************************************)
EXTENDS Publication, SequenceTheorems, FiniteSetTheorems, TLAPS

Authors == Jobs \cup {"init", "outside"}

\* No job has a commit in the history c.
Fresh(c) == \A i \in 1..Len(c) : c[i] \notin Jobs

\* c is a commit of job j on top of a history without commits of jobs.
Signed(c, j) ==
    /\ Len(c) > 0 /\ c[Len(c)] = j
    /\ \A i \in 1..Len(c) - 1 : c[i] \notin Jobs

Early == {"absent", "prepared", "repository_creating"}

-----------------------------------------------------------------------------
(* The inductive invariant.                                                *)

\* What a row of job j, in the table or as the publisher has read it, says: the
\* commit it names is one of j's own, from before it is made, and the branch has
\* no other commit of a job.
RowOK(row, j) ==
    /\ row.phase \in Early => row.payload = NoCommit
    /\ row.phase \notin Early => owner[RepositoryOf[j]] = j
    /\ row.payload # NoCommit => Signed(row.payload, j)
    /\ row.commit_sha \in {NoCommit, row.payload}
    /\ owner[RepositoryOf[j]] = j /\ ~Fresh(head[RepositoryOf[j]]) =>
           row.payload # NoCommit /\ IsPrefix(row.payload, head[RepositoryOf[j]])

TableOK ==
    \A j \in Jobs :
        /\ TaskOf[j] \notin kept => publish_jobs[j] = NoRow
        /\ publish_jobs[j].phase = "absent" /\ TaskOf[j] \in kept => owner[RepositoryOf[j]] # j
        /\ publish_jobs[j].phase # "absent" => RowOK(publish_jobs[j], j)
        /\ publish_jobs[j].phase = "complete" => ~Fresh(head[RepositoryOf[j]])

\* The row in the hands of the publisher is the one in the table, unless the
\* task has been deleted; and what each step relies on.
PubOK ==
    pub.pc # "idle" =>
        /\ IF publish_jobs[pub.job].phase = "absent" THEN TaskOf[pub.job] \notin kept
           ELSE pub.row = publish_jobs[pub.job]
        /\ pub.row.phase \notin {"absent", "complete"} /\ RowOK(pub.row, pub.job)
        /\ pub.pc \in {"mark", "find", "create", "created"} <=> pub.row.phase \in Early
        /\ pub.pc = "created" => owner[Repo] = pub.job
        /\ pub.pc \in {"blobs", "tree", "payload"} =>
               pub.row.payload = NoCommit /\ Fresh(pub.work)
        /\ pub.pc \in {"commit", "sha", "patch", "done"} =>
               pub.row.payload # NoCommit /\ pub.work = pub.row.payload
        /\ pub.pc = "done" => ~Fresh(head[Repo])

\* A commit of a job is on a branch that this job owns, and there is one only.
HeadOK ==
    \A r \in Repositories :
        /\ \A i \in 1..Len(head[r]) : head[r][i] \in Jobs => head[r][i] = owner[r]
        /\ \A i, k \in 1..Len(head[r]) : head[r][i] \in Jobs /\ head[r][k] \in Jobs => i = k

ObjectsOK ==
    \A r \in Repositories : \A c \in objects[r] :
        Len(c) > 0 /\ c[Len(c)] = owner[r] /\ owner[r] \in Jobs

IndInv == TypeOK /\ TableOK /\ PubOK /\ HeadOK /\ ObjectsOK

-----------------------------------------------------------------------------
(* Histories.                                                              *)

LEMMA CommitFacts ==
    /\ NoCommit \in Commits /\ Root \in Commits /\ Foreign \in Commits
    /\ Fresh(NoCommit) /\ Fresh(Root) /\ Fresh(Foreign)
    /\ \A c \in Commits : Len(c) \in Nat /\ (c # NoCommit => Len(c) > 0)
    /\ NoRow \in Rows
BY PublicationAssumption, EmptySeq
   DEF NoCommit, Root, Foreign, Commits, Fresh, NoRow, Rows, Phases

\* IsPrefix, element by element.
LEMMA PrefixMeans ==
    ASSUME NEW S, NEW s \in Seq(S), NEW t \in Seq(S)
    PROVE  IsPrefix(s, t) <=> Len(s) <= Len(t) /\ \A i \in 1..Len(s) : s[i] = t[i]
<1>1. Len(s) \in Nat /\ Len(t) \in Nat /\ DOMAIN s = 1..Len(s) /\ DOMAIN t = 1..Len(t)
  BY LenProperties
<1>2. SubSeq(s, 1, Len(s)) = s
  BY SubSeqFull
<1>3. ASSUME Len(s) <= Len(t)
      PROVE  /\ SubSeq(t, 1, Len(s)) \in Seq(S) /\ Len(SubSeq(t, 1, Len(s))) = Len(s)
             /\ \A i \in 1..Len(s) : SubSeq(t, 1, Len(s))[i] = t[i]
  BY <1>1, <1>3, SubSeqProperties, ElementOfSeq
<1>4. ASSUME Len(s) <= Len(t), \A i \in 1..Len(s) : s[i] = t[i]
      PROVE  SubSeq(t, 1, Len(s)) = s
  BY <1>1, <1>3, <1>4, SeqEqual
<1> QED BY <1>1, <1>2, <1>3, <1>4 DEF IsPrefix

\* A commit on top of another one.
LEMMA AppendFacts ==
    ASSUME NEW c \in Commits, NEW a \in Authors
    PROVE  /\ Append(c, a) \in Commits /\ Append(c, a) # NoCommit
           /\ Len(Append(c, a)) = Len(c) + 1 /\ Append(c, a)[Len(c) + 1] = a
           /\ \A i \in 1..Len(c) : Append(c, a)[i] = c[i]
           /\ IsPrefix(c, Append(c, a))
<1>1. /\ Append(c, a) \in Commits /\ Append(c, a) # NoCommit
      /\ Len(Append(c, a)) = Len(c) + 1 /\ Append(c, a)[Len(c) + 1] = a
      /\ \A i \in 1..Len(c) : Append(c, a)[i] = c[i]
  BY AppendProperties DEF Commits, Authors, NoCommit
<1>2. Len(c) \in Nat
  BY CommitFacts
<1>3. IsPrefix(c, Append(c, a)) <=>
          Len(c) <= Len(Append(c, a)) /\ \A i \in 1..Len(c) : c[i] = Append(c, a)[i]
  BY <1>1, PrefixMeans DEF Commits
<1> QED BY <1>1, <1>2, <1>3

\* What a branch had it has after a step that only appends to it.
LEMMA PrefixFacts ==
    /\ \A c \in Commits : IsPrefix(c, c)
    /\ \A c, d, e \in Commits : IsPrefix(c, d) /\ IsPrefix(d, e) => IsPrefix(c, e)
    /\ \A c, d \in Commits : IsPrefix(c, d) /\ ~Fresh(c) => ~Fresh(d)
<1>1. \A c, d \in Commits :
          IsPrefix(c, d) <=> Len(c) <= Len(d) /\ \A i \in 1..Len(c) : c[i] = d[i]
  BY PrefixMeans DEF Commits
<1>2. \A c \in Commits : Len(c) \in Nat
  BY CommitFacts
<1>3. \A c, d, e \in Commits : IsPrefix(c, d) /\ IsPrefix(d, e) => IsPrefix(c, e)
  <2> TAKE c, d, e \in Commits
  <2> HAVE IsPrefix(c, d) /\ IsPrefix(d, e)
  <2>1. Len(c) <= Len(d) /\ Len(d) <= Len(e) /\ Len(c) <= Len(e)
    BY <1>1, <1>2
  <2>2. \A i \in 1..Len(c) : i \in 1..Len(d) /\ c[i] = d[i] /\ d[i] = e[i]
    BY <1>1, <1>2, <2>1
  <2> QED BY <1>1, <2>1, <2>2
<1>4. \A c, d \in Commits : IsPrefix(c, d) /\ ~Fresh(c) => ~Fresh(d)
  BY <1>1, <1>2 DEF Fresh
<1> QED BY <1>1, <1>2, <1>3, <1>4

\* The commit that the publisher builds.
LEMMA SignedAppend ==
    ASSUME NEW c \in Commits, Fresh(c), NEW j \in Jobs
    PROVE  Signed(Append(c, j), j)
BY AppendFacts, CommitFacts DEF Signed, Fresh, Authors

\* A signed commit holds one commit of a job.
LEMMA SignedFacts ==
    ASSUME NEW c \in Commits, NEW j \in Jobs, Signed(c, j)
    PROVE  /\ ~Fresh(c)
           /\ \A i \in 1..Len(c) : c[i] \in Jobs => i = Len(c) /\ c[i] = j
BY CommitFacts DEF Signed, Fresh

-----------------------------------------------------------------------------
(* Types.                                                                  *)

\* A row with some columns assigned is a row.
LEMMA RowTypes ==
    ASSUME NEW row \in Rows
    PROVE  /\ \A phase \in Phases : [row EXCEPT !.phase = phase] \in Rows
           /\ \A phase \in Phases, c \in Commits :
                 /\ [row EXCEPT !.phase = phase, !.payload = c] \in Rows
                 /\ [row EXCEPT !.phase = phase, !.commit_sha = c] \in Rows
BY DEF Rows

\* update_publish.
LEMMA Updates ==
    ASSUME TypeOK, pub.pc # "idle", NEW row \in Rows, update_publish(row)
    PROVE  /\ publish_jobs' \in [Jobs -> Rows]
           /\ publish_jobs'[pub.job] = IF publish_jobs[pub.job].phase = "absent"
                                       THEN publish_jobs[pub.job] ELSE row
           /\ \A j \in Jobs \ {pub.job} : publish_jobs'[j] = publish_jobs[j]
BY DEF TypeOK, update_publish

LEMMA InitTypeOK == Init => TypeOK
BY PublicationAssumption, CommitFacts DEF Init, TypeOK, Unlocked

\* The callers and the environment keep the types.
LEMMA CallerTypes ==
    ASSUME TypeOK, NEW j \in Jobs, ConfirmPublish(j) \/ RecoverPublish(j) \/ Announce(j)
    PROVE  TypeOK'
<1>1. [NoRow EXCEPT !.phase = "prepared"] \in Rows
  BY CommitFacts, RowTypes DEF Phases
<1>2. publish_jobs' \in [Jobs -> Rows]
  BY <1>1 DEF TypeOK, ConfirmPublish, RecoverPublish, Announce, storeVars
<1>3. TaskOf[j] \in Tasks
  BY PublicationAssumption
<1>4. announced' \in [Tasks -> Jobs \cup {None}]
  BY <1>3 DEF TypeOK, ConfirmPublish, RecoverPublish, Announce, storeVars
<1> QED BY <1>2, <1>4 DEF TypeOK, ConfirmPublish, RecoverPublish, Announce, storeVars, githubVars,
           NoFault, countVars

LEMMA BeginTypes ==
    ASSUME TypeOK, NEW j \in Jobs, Begin(j)
    PROVE  TypeOK'
<1>1. publish_jobs[j] \in Rows
  BY DEF TypeOK
<1>2. pub' = pub \/ \E from \in {"mark", "find", "refs"} :
          pub' = [Unlocked EXCEPT !.pc = from, !.job = j, !.row = publish_jobs[j]]
  BY DEF Begin
<1>3. \/ pub' = pub
      \/ /\ pub' \in [pc: {"mark", "find", "refs"}, job: Jobs \cup {None}, row: Rows, work: Commits]
         /\ pub'.job = j
  BY <1>1, <1>2, CommitFacts DEF Unlocked
<1>4. calls' \subseteq Jobs /\ returned' \subseteq Jobs
  BY DEF TypeOK, Begin
<1>5. outside' \in 0..MaxOutside /\ faults' \in 0..MaxFaults
  BY PublicationAssumption DEF TypeOK, Begin, NoFault, Fault, countVars
<1> QED BY <1>3, <1>4, <1>5 DEF TypeOK, Begin, storeVars, githubVars

LEMMA EnvironmentTypes ==
    ASSUME TypeOK, (\E t \in Tasks : Retire(t)) \/ (\E r \in Repositories : OthersAct(r)) \/ Crash
    PROVE  TypeOK'
<1>1. CASE \E t \in Tasks : Retire(t)
  BY <1>1, CommitFacts DEF TypeOK, Retire, callVars, githubVars, NoFault, countVars
<1>2. ASSUME NEW r \in Repositories, OthersAct(r)
      PROVE  TypeOK'
  <2>1. Append(head[r], "outside") \in Commits
    BY AppendFacts DEF TypeOK, Authors
  <2>2. head' \in [Repositories -> Commits] /\ owner' \in [Repositories -> Jobs \cup {None, "outside"}]
    BY <1>2, <2>1, CommitFacts DEF TypeOK, OthersAct
  <2>3. outside' \in 0..MaxOutside
    BY <1>2, PublicationAssumption DEF TypeOK, OthersAct
  <2> QED BY <1>2, <2>2, <2>3 DEF TypeOK, OthersAct, storeVars, callVars
<1>3. CASE Crash
  <2>1. faults' \in 0..MaxFaults /\ outside' = outside
    BY <1>3, PublicationAssumption DEF TypeOK, Crash, Fault
  <2> QED BY <1>3, <2>1, CommitFacts DEF TypeOK, Crash, Unlocked, storeVars, githubVars
<1> QED BY <1>1, <1>2, <1>3

\* Steps of the publisher, whose results are of the right kinds.
LEMMA PublisherTypes ==
    ASSUME TypeOK, pub.pc # "idle",
           \/ pub' = Unlocked
           \/ /\ pub' \in [pc: {"find", "create", "created", "refs", "blobs", "tree",
                                "payload", "commit", "sha", "patch", "done"},
                           job: Jobs \cup {None}, row: Rows, work: Commits]
              /\ pub'.job = pub.job,
           NoFault \/ Fault, UNCHANGED <<kept, announced, calls>>,
           publish_jobs' \in [Jobs -> Rows], returned' \subseteq Jobs,
           owner' \in [Repositories -> Jobs \cup {None, "outside"}],
           head' \in [Repositories -> Commits], objects' \in [Repositories -> SUBSET Commits]
    PROVE  TypeOK'
<1>1. outside' \in 0..MaxOutside /\ faults' \in 0..MaxFaults
  BY PublicationAssumption DEF TypeOK, NoFault, Fault, countVars
<1>2. /\ pub' \in [pc: {"idle", "mark", "find", "create", "created", "refs", "blobs", "tree",
                       "payload", "commit", "sha", "patch", "done"},
                  job: Jobs \cup {None}, row: Rows, work: Commits]
      /\ pub'.pc # "idle" => pub'.job \in Jobs
  BY CommitFacts DEF TypeOK, Unlocked
<1> QED BY <1>1, <1>2 DEF TypeOK

-----------------------------------------------------------------------------
(* The invariant is kept by the steps of the publisher.                    *)

\* What every step of the publisher may rely on.
LEMMA PubFacts ==
    ASSUME IndInv, pub.pc # "idle"
    PROVE  /\ pub.job \in Jobs /\ Repo \in Repositories /\ pub.row \in Rows /\ pub.work \in Commits
           /\ pub.row.payload \in Commits /\ pub.row.commit_sha \in Commits
           /\ pub.row.phase \in Phases \ {"complete"}
           /\ RowOK(pub.row, pub.job)
           /\ head[Repo] \in Commits /\ objects[Repo] \subseteq Commits
BY PublicationAssumption DEF IndInv, TypeOK, PubOK, Repo, Rows

\* A journal entry: the row in the table, if there is one, is the new one.
LEMMA JournalStep ==
    ASSUME IndInv, pub.pc # "idle", NEW row \in Rows, row.phase # "absent",
           RowOK(row, pub.job), row.phase = "complete" => ~Fresh(head[Repo]),
           update_publish(row), UNCHANGED <<kept, owner, head>>
    PROVE  /\ TableOK'
           /\ publish_jobs[pub.job].phase = "absent" => TaskOf[pub.job] \notin kept
           /\ publish_jobs'[pub.job] = IF publish_jobs[pub.job].phase = "absent"
                                       THEN publish_jobs[pub.job] ELSE row
<1>1. TypeOK /\ TableOK /\ PubOK /\ pub.job \in Jobs
  BY PubFacts DEF IndInv
<1>2. publish_jobs'[pub.job] = IF publish_jobs[pub.job].phase = "absent"
                               THEN publish_jobs[pub.job] ELSE row
  BY <1>1, Updates
<1>3. publish_jobs[pub.job].phase = "absent" => TaskOf[pub.job] \notin kept
  BY <1>1 DEF PubOK
<1>4. ASSUME NEW j \in Jobs
      PROVE  /\ TaskOf[j] \notin kept => publish_jobs'[j] = NoRow
             /\ publish_jobs'[j].phase # "absent" => RowOK(publish_jobs'[j], j)
             /\ publish_jobs'[j].phase = "complete" => ~Fresh(head[RepositoryOf[j]])
             /\ publish_jobs'[j].phase = "absent" /\ TaskOf[j] \in kept => owner[RepositoryOf[j]] # j
  <2>1. CASE j # pub.job
    BY <1>1, <2>1, Updates DEF TableOK
  <2>2. CASE j = pub.job /\ publish_jobs[j].phase = "absent"
    BY <1>1, <1>2, <2>2 DEF TableOK
  <2>3. CASE j = pub.job /\ publish_jobs[j].phase # "absent"
    BY <1>1, <1>2, <2>3 DEF TableOK, Repo, NoRow
  <2> QED BY <2>1, <2>2, <2>3
<1>5. TableOK'
  BY <1>4 DEF TableOK, RowOK
<1> QED BY <1>2, <1>3, <1>5

\* What a step on the publisher alone, an abort included, leaves as it was.
LEMMA LocalStep ==
    ASSUME IndInv, UNCHANGED <<kept, publish_jobs, githubVars>>
    PROVE  TableOK' /\ HeadOK' /\ ObjectsOK'
BY DEF IndInv, TableOK, HeadOK, ObjectsOK, RowOK, githubVars

LEMMA AbortStep ==
    ASSUME IndInv, pub.pc # "idle", pub' = Unlocked, NoFault \/ Fault,
           UNCHANGED <<kept, announced, calls, publish_jobs, returned, githubVars>>
    PROVE  IndInv'
<1>1. TableOK' /\ HeadOK' /\ ObjectsOK'
  BY LocalStep
<1>2. PubOK'
  BY DEF PubOK, Unlocked
<1>3. TypeOK'
  <2>1. TypeOK
    BY DEF IndInv
  <2> QED BY <2>1, PublisherTypes DEF TypeOK, githubVars
<1> QED BY <1>1, <1>2, <1>3 DEF IndInv

\* The job, the row and the commit that the publisher has in hand stay.
LEMMA GoStep ==
    ASSUME IndInv, pub.pc # "idle",
           NEW pc \in {"find", "create", "created", "refs", "blobs", "tree",
                       "payload", "commit", "sha", "patch", "done"},
           NEW work \in Commits, pub' = [pub EXCEPT !.pc = pc, !.work = work],
           NoFault \/ Fault,
           UNCHANGED <<kept, announced, calls, publish_jobs, returned, githubVars>>,
           pc \in {"find", "create", "created"} <=> pub.row.phase \in Early,
           pc = "created" => owner[Repo] = pub.job,
           pc \in {"blobs", "tree", "payload"} => pub.row.payload = NoCommit /\ Fresh(work),
           pc \in {"commit", "sha", "patch", "done"} =>
               pub.row.payload # NoCommit /\ work = pub.row.payload,
           pc = "done" => ~Fresh(head[Repo])
    PROVE  IndInv'
<1>1. TableOK' /\ HeadOK' /\ ObjectsOK'
  BY LocalStep
<1>2. /\ pub'.pc = pc /\ pub'.work = work /\ pub'.job = pub.job /\ pub'.row = pub.row
      /\ pub' \in [pc: {"find", "create", "created", "refs", "blobs", "tree",
                        "payload", "commit", "sha", "patch", "done"},
                   job: Jobs \cup {None}, row: Rows, work: Commits]
  BY DEF IndInv, TypeOK
<1>3. PubOK'
  BY <1>2 DEF IndInv, PubOK, RowOK, Repo, githubVars
<1>4. TypeOK'
  <2>1. TypeOK
    BY DEF IndInv
  <2> QED BY <1>2, <2>1, PublisherTypes DEF TypeOK, githubVars
<1> QED BY <1>1, <1>3, <1>4 DEF IndInv

\* A journal entry that the publisher makes and goes on from.
LEMMA EntryStep ==
    ASSUME IndInv, pub.pc # "idle", NEW row \in Rows, update_publish(row),
           RowOK(row, pub.job), row.phase \notin {"absent", "complete"},
           NEW pc \in {"find", "create", "created", "refs", "blobs", "tree",
                       "payload", "commit", "sha", "patch"},
           NEW work \in Commits, pub' = [pub EXCEPT !.pc = pc, !.work = work, !.row = row],
           NoFault, UNCHANGED <<kept, announced, calls, returned, githubVars>>,
           pc \in {"find", "create", "created"} <=> row.phase \in Early,
           pc # "created",
           pc \in {"blobs", "tree", "payload"} => row.payload = NoCommit /\ Fresh(work),
           pc \in {"commit", "sha", "patch"} => row.payload # NoCommit /\ work = row.payload
    PROVE  IndInv'
<1>1. UNCHANGED <<kept, owner, head>>
  BY DEF githubVars
<1>2. /\ TableOK'
      /\ publish_jobs[pub.job].phase = "absent" => TaskOf[pub.job] \notin kept
      /\ publish_jobs'[pub.job] = IF publish_jobs[pub.job].phase = "absent"
                                  THEN publish_jobs[pub.job] ELSE row
  BY <1>1, JournalStep
<1>3. HeadOK' /\ ObjectsOK'
  BY DEF IndInv, HeadOK, ObjectsOK, githubVars
<1>4. /\ pub'.pc = pc /\ pub'.work = work /\ pub'.job = pub.job /\ pub'.row = row
      /\ pub' \in [pc: {"find", "create", "created", "refs", "blobs", "tree",
                        "payload", "commit", "sha", "patch", "done"},
                   job: Jobs \cup {None}, row: Rows, work: Commits]
  BY DEF IndInv, TypeOK
<1>5. PubOK'
  BY <1>1, <1>2, <1>4 DEF PubOK, RowOK
<1>6. TypeOK'
  <2>1. TypeOK
    BY DEF IndInv
  <2>2. publish_jobs' \in [Jobs -> Rows]
    BY <2>1, Updates
  <2> QED BY <1>4, <2>1, <2>2, PublisherTypes DEF TypeOK, githubVars
<1> QED BY <1>2, <1>3, <1>5, <1>6 DEF IndInv

\* The marker, and the creation, are journaled: UpdateAndRead.
LEMMA MarkStep ==
    ASSUME IndInv, Mark \/ JournalCreated
    PROVE  IndInv'
<1> DEFINE row(phase) == [pub.row EXCEPT !.phase = phase]
<1>1. pub.pc # "idle"
  BY DEF Mark, JournalCreated, PubAt
<1>2. pub.row.phase \in Early /\ pub.row.payload = NoCommit /\ pub.row.commit_sha = NoCommit
  BY <1>1 DEF IndInv, PubOK, RowOK, Mark, JournalCreated, PubAt
<1>3. ASSUME NEW phase \in {"repository_creating", "repository_created"},
             NEW to \in {"find", "refs"},
             phase = "repository_creating" <=> to = "find",
             phase = "repository_created" => owner[Repo] = pub.job,
             UpdateAndRead(row(phase), to), NoFault,
             UNCHANGED <<kept, announced, calls, returned, githubVars>>
      PROVE  IndInv'
  <2>1. row(phase) \in Rows /\ row(phase).phase = phase
        /\ row(phase).payload = NoCommit /\ row(phase).commit_sha = NoCommit
    <3>1. pub.row \in Rows
      BY <1>1, PubFacts
    <3> QED BY <1>2, <3>1 DEF Phases, Rows
  <2>2. RowOK(row(phase), pub.job)
    <3>1. RowOK(pub.row, pub.job)
      BY <1>1, PubFacts
    <3> HIDE DEF row
    <3> QED BY <1>2, <1>3, <2>1, <3>1 DEF RowOK, Early, Repo
  <2>3. CASE publish_jobs[pub.job].phase = "absent"
    <3>1. pub' = Unlocked
      BY <1>3, <2>3 DEF UpdateAndRead
    <3>2. publish_jobs' = publish_jobs
      BY <1>1, <1>3, <2>3, PubFacts DEF UpdateAndRead, update_publish, IndInv, TypeOK
    <3> QED BY <1>1, <1>3, <3>1, <3>2, AbortStep
  <2>4. CASE publish_jobs[pub.job].phase # "absent"
    <3>1. pub' = [pub EXCEPT !.pc = to, !.work = pub.work, !.row = row(phase)]
      BY <1>3, <2>4 DEF UpdateAndRead, IndInv, TypeOK
    <3>2. update_publish(row(phase))
      BY <1>3 DEF UpdateAndRead
    <3>3. to = "find" <=> phase \in Early
      BY <1>3 DEF Early
    <3> HIDE DEF row
    <3>4. pub.work \in Commits
      BY <1>1, PubFacts
    <3> QED BY <1>1, <1>3, <2>1, <2>2, <3>1, <3>2, <3>3, <3>4, EntryStep
  <2> QED BY <2>3, <2>4
<1>4. CASE Mark
  BY <1>3, <1>4 DEF Mark, PubAt
<1>5. CASE JournalCreated
  <2>1. owner[Repo] = pub.job
    BY <1>1, <1>5 DEF JournalCreated, PubAt, IndInv, PubOK
  <2> QED BY <1>3, <1>5, <2>1 DEF JournalCreated, PubAt
<1> QED BY <1>4, <1>5

\* Blobs and tree.
LEMMA UploadStep ==
    ASSUME IndInv, Upload("blobs", "blobs_uploaded", "tree")
                   \/ Upload("tree", "tree_created", "payload")
    PROVE  IndInv'
<1> DEFINE row(phase) == [pub.row EXCEPT !.phase = phase]
<1>1. pub.pc \in {"blobs", "tree"}
  BY DEF Upload, PubAt
<1>2. pub.row.phase \notin Early /\ pub.row.payload = NoCommit /\ pub.row.commit_sha = NoCommit
      /\ Fresh(pub.work)
  BY <1>1 DEF IndInv, PubOK, RowOK
<1>3. ASSUME NEW phase \in {"blobs_uploaded", "tree_created"}, NEW to \in {"tree", "payload"},
             update_publish(row(phase)), pub' = [pub EXCEPT !.pc = to, !.row.phase = phase],
             NoFault, UNCHANGED <<kept, announced, calls, returned, githubVars>>
      PROVE  IndInv'
  <2>1. row(phase) \in Rows /\ row(phase).phase = phase
        /\ row(phase).payload = NoCommit /\ row(phase).commit_sha = NoCommit
    <3>1. pub.row \in Rows
      BY <1>1, PubFacts
    <3> QED BY <1>2, <3>1 DEF Phases, Rows
  <2>2. RowOK(row(phase), pub.job)
    <3>1. RowOK(pub.row, pub.job)
      BY <1>1, PubFacts
    <3> HIDE DEF row
    <3> QED BY <1>2, <2>1, <3>1 DEF RowOK
  <2>3. pub' = [pub EXCEPT !.pc = to, !.work = pub.work, !.row = row(phase)]
    BY <1>3 DEF IndInv, TypeOK
  <2>4. phase \notin Early \cup {"absent", "complete"}
    BY DEF Early
  <2> HIDE DEF row
  <2>5. pub.work \in Commits
    BY <1>1, PubFacts
  <2>6. pub.pc # "idle" /\ row(phase).phase \notin Early /\ row(phase).phase \notin {"absent", "complete"}
    BY <1>1, <2>1, <2>4
  <2>7. /\ to \notin {"find", "create", "created", "commit", "sha", "patch"}
        /\ to \in {"find", "create", "created", "refs", "blobs", "tree",
                   "payload", "commit", "sha", "patch"}
    OBVIOUS
  <2> QED BY <1>2, <1>3, <2>1, <2>2, <2>3, <2>5, <2>6, <2>7, EntryStep
<1>4. CASE Upload("blobs", "blobs_uploaded", "tree")
  BY <1>3, <1>4 DEF Upload, PubAt
<1>5. CASE Upload("tree", "tree_created", "payload")
  BY <1>3, <1>5 DEF Upload, PubAt
<1> QED BY <1>4, <1>5

\* The commit is journaled before it is made, on top of a history without one.
LEMMA PayloadStep ==
    ASSUME IndInv, JournalPayload
    PROVE  IndInv'
<1> DEFINE commit == Append(pub.work, pub.job)
           row == [pub.row EXCEPT !.phase = "commit_prepared", !.payload = commit]
<1>1. pub.pc = "payload" /\ pub.pc # "idle"
  BY DEF JournalPayload, PubAt
<1>2. /\ pub.row.phase \notin Early /\ pub.row.payload = NoCommit
      /\ pub.row.commit_sha = NoCommit /\ Fresh(pub.work)
  BY <1>1 DEF IndInv, PubOK, RowOK
<1>3. commit \in Commits /\ commit # NoCommit /\ Signed(commit, pub.job)
  <2>1. pub.work \in Commits /\ pub.job \in Jobs /\ pub.job \in Authors
    BY <1>1, PubFacts DEF Authors
  <2> QED BY <1>2, <2>1, AppendFacts, SignedAppend
<1>4. row \in Rows /\ row.phase = "commit_prepared" /\ row.payload = commit
      /\ row.commit_sha = NoCommit
  <2> HIDE DEF commit
  <2>1. pub.row \in Rows
    BY <1>1, PubFacts
  <2> QED BY <1>2, <1>3, <2>1 DEF Rows, Phases
<1>5. pub' = [pub EXCEPT !.pc = "commit", !.work = commit, !.row = row]
  BY DEF JournalPayload, IndInv, TypeOK, Rows
<1>6. update_publish(row)
  BY DEF JournalPayload
<1>7. RowOK(row, pub.job)
  <2>1. RowOK(pub.row, pub.job)
    BY <1>1, PubFacts
  <2> HIDE DEF row, commit
  <2> QED BY <1>2, <1>3, <1>4, <2>1 DEF RowOK, Early
<1>8. NoFault /\ UNCHANGED <<kept, announced, calls, returned, githubVars>>
  BY DEF JournalPayload, PubAt
<1>9. row.phase \notin Early /\ row.phase \notin {"absent", "complete"}
  <2> HIDE DEF row
  <2> QED BY <1>4 DEF Early
<1> HIDE DEF row, commit
<1> QED BY <1>1, <1>3, <1>4, <1>5, <1>6, <1>7, <1>8, <1>9, EntryStep

\* The name of the commit is journaled.
LEMMA CommitEntryStep ==
    ASSUME IndInv, JournalCommit
    PROVE  IndInv'
<1> DEFINE row == [pub.row EXCEPT !.phase = "commit_created", !.commit_sha = pub.work]
<1>1. pub.pc = "sha" /\ pub.pc # "idle"
  BY DEF JournalCommit, PubAt
<1>2. /\ pub.row.phase \notin Early /\ pub.row.payload # NoCommit
      /\ pub.work = pub.row.payload
  BY <1>1 DEF IndInv, PubOK
<1>3. pub.work \in Commits /\ pub.row \in Rows /\ RowOK(pub.row, pub.job)
  BY <1>1, PubFacts
<1>4. row \in Rows /\ row.phase = "commit_created" /\ row.payload = pub.row.payload
      /\ row.commit_sha = pub.row.payload
  BY <1>2, <1>3 DEF Rows, Phases
<1>5. pub' = [pub EXCEPT !.pc = "patch", !.work = pub.work, !.row = row]
  BY DEF JournalCommit, IndInv, TypeOK, Rows
<1>6. update_publish(row)
  BY DEF JournalCommit
<1>7. NoFault /\ UNCHANGED <<kept, announced, calls, returned, githubVars>>
  BY DEF JournalCommit, PubAt
<1> HIDE DEF row
<1>8. RowOK(row, pub.job)
  BY <1>2, <1>3, <1>4 DEF RowOK, Early
<1>9. row.phase \notin Early /\ row.phase \notin {"absent", "complete"}
  BY <1>4 DEF Early
<1> QED BY <1>1, <1>2, <1>3, <1>4, <1>5, <1>6, <1>7, <1>8, <1>9, EntryStep

\* The search for the repository, and for the state of its branch.
LEMMA FindStep ==
    ASSUME IndInv, Find
    PROVE  IndInv'
<1>1. pub.pc = "find" /\ pub.pc # "idle"
  BY DEF Find, PubAt
<1>2. pub.row.phase \in Early /\ pub.work \in Commits
  BY <1>1, PubFacts DEF IndInv, PubOK
<1>3. UNCHANGED <<kept, announced, calls, publish_jobs, returned, githubVars>> /\ NoFault
  BY DEF Find, PubAt
<1>4. CASE pub' = Unlocked
  BY <1>1, <1>3, <1>4, AbortStep
<1>5. ASSUME NEW pc \in {"create", "created"}, Go(pc), pc = "created" => owner[Repo] = pub.job
      PROVE  IndInv'
  <2>1. pub' = [pub EXCEPT !.pc = pc, !.work = pub.work]
    BY <1>5 DEF Go, IndInv, TypeOK
  <2> QED BY <1>1, <1>2, <1>3, <1>5, <2>1, GoStep
<1> QED BY <1>4, <1>5 DEF Find, Abort

LEMMA RefsStep ==
    ASSUME IndInv, Refs
    PROVE  IndInv'
<1>1. pub.pc = "refs" /\ pub.pc # "idle"
  BY DEF Refs, PubAt
<1>2. pub.row.phase \notin Early
  BY <1>1 DEF IndInv, PubOK
<1>3. UNCHANGED <<kept, announced, calls, publish_jobs, returned, githubVars>> /\ NoFault
  BY DEF Refs, PubAt
<1>4. /\ RowOK(pub.row, pub.job) /\ pub.row.payload \in Commits /\ pub.row.commit_sha \in Commits
      /\ head[Repo] \in Commits /\ pub.job \in Jobs
  BY <1>1, PubFacts
<1>5. CASE pub.row.commit_sha # NoCommit
  <2>1. pub.row.commit_sha = pub.row.payload
    BY <1>4, <1>5 DEF RowOK
  <2>2. PICK pc \in {"done", "patch"} :
            /\ pub' = [pub EXCEPT !.pc = pc, !.work = pub.row.commit_sha]
            /\ pc = "done" => head[Repo] = pub.row.commit_sha
    BY <1>5 DEF Refs
  <2>3. pc = "done" => ~Fresh(head[Repo])
    BY <1>4, <1>5, <2>1, <2>2, SignedFacts DEF RowOK
  <2> QED BY <1>1, <1>2, <1>3, <1>4, <1>5, <2>1, <2>2, <2>3, GoStep
<1>6. CASE pub.row.commit_sha = NoCommit /\ pub.row.payload # NoCommit
  <2>1. pub' = [pub EXCEPT !.pc = "commit", !.work = pub.row.payload]
    BY <1>6 DEF Refs
  <2> QED BY <1>1, <1>2, <1>3, <1>4, <1>6, <2>1, GoStep
<1>7. CASE pub.row.commit_sha = NoCommit /\ pub.row.payload = NoCommit
  <2>1. pub' = [pub EXCEPT !.pc = "blobs", !.work = head[Repo]]
    BY <1>7 DEF Refs
  <2>2. Fresh(head[Repo])
    BY <1>2, <1>4, <1>7 DEF RowOK, Repo
  <2> QED BY <1>1, <1>2, <1>3, <1>4, <1>7, <2>1, <2>2, GoStep
<1> QED BY <1>5, <1>6, <1>7

\* A repository appears: no row names it as its own, for it was not there.
LEMMA NewRepository ==
    ASSUME IndInv, NEW r \in Repositories, owner[r] = None,
           NEW o \in Jobs \cup {"outside"}, NEW c \in Commits, Fresh(c),
           o \in Jobs /\ publish_jobs[o].phase = "absent" => TaskOf[o] \notin kept,
           owner' = [owner EXCEPT ![r] = o], head' = [head EXCEPT ![r] = c],
           UNCHANGED <<kept, publish_jobs, objects>>
    PROVE  /\ TableOK' /\ HeadOK' /\ ObjectsOK'
           /\ \A row, j : j \in Jobs /\ RowOK(row, j) => RowOK(row, j)'
<1>1. TypeOK /\ TableOK /\ HeadOK /\ ObjectsOK
  BY DEF IndInv
<1>2. /\ owner'[r] = o /\ head'[r] = c
      /\ \A q \in Repositories \ {r} : owner'[q] = owner[q] /\ head'[q] = head[q]
  BY <1>1 DEF TypeOK
<1>3. \A j \in Jobs : RepositoryOf[j] \in Repositories /\ j # None
  BY PublicationAssumption
<1>4. ASSUME NEW row, NEW j \in Jobs, RowOK(row, j)
      PROVE  RowOK(row, j)'
  <2>1. CASE RepositoryOf[j] = r
    BY <1>2, <1>3, <1>4, <2>1 DEF RowOK
  <2>2. CASE RepositoryOf[j] # r
    BY <1>2, <1>3, <1>4, <2>2 DEF RowOK
  <2> QED BY <2>1, <2>2
<1>5. ASSUME NEW j \in Jobs, publish_jobs[j].phase = "complete"
      PROVE  ~Fresh(head'[RepositoryOf[j]])
  <2>1. owner[RepositoryOf[j]] = j
    BY <1>1, <1>5 DEF TableOK, RowOK, Early
  <2> QED BY <1>1, <1>2, <1>3, <1>5, <2>1 DEF TableOK
<1>6. ASSUME NEW j \in Jobs, publish_jobs[j].phase = "absent", TaskOf[j] \in kept
      PROVE  owner'[RepositoryOf[j]] # j
  BY <1>1, <1>2, <1>3, <1>6 DEF TableOK
<1>9. TableOK'
  BY <1>1, <1>4, <1>5, <1>6 DEF TableOK, RowOK
<1>7. HeadOK'
  BY <1>1, <1>2 DEF HeadOK, Fresh
<1>8. ObjectsOK'
  BY <1>1, <1>2, PublicationAssumption DEF ObjectsOK
<1> QED BY <1>4, <1>7, <1>8, <1>9

LEMMA CreateStep ==
    ASSUME IndInv, Create
    PROVE  IndInv'
<1>1. pub.pc = "create" /\ pub.pc # "idle"
  BY DEF Create, PubAt
<1>2. /\ pub.job \in Jobs /\ Repo \in Repositories /\ pub.row \in Rows /\ pub.work \in Commits
      /\ RowOK(pub.row, pub.job) /\ TypeOK
  BY <1>1, PubFacts DEF IndInv
<1>3. UNCHANGED <<kept, announced, calls, publish_jobs, returned>>
  BY DEF Create, PubAt
<1>4. CASE UNCHANGED githubVars
  <2>1. pub' = Unlocked /\ NoFault
    BY <1>2, <1>4, PublicationAssumption DEF Create, Abort, Created, githubVars, TypeOK
  <2> QED BY <1>1, <1>3, <1>4, <2>1, AbortStep
<1>5. CASE owner[Repo] = None /\ Created
  <2>1. /\ TableOK' /\ HeadOK' /\ ObjectsOK'
        /\ \A row, j : j \in Jobs /\ RowOK(row, j) => RowOK(row, j)'
    <3>1. /\ owner' = [owner EXCEPT ![Repo] = pub.job] /\ head' = [head EXCEPT ![Repo] = Root]
          /\ UNCHANGED <<kept, publish_jobs, objects>>
      BY <1>3, <1>5 DEF Created
    <3>2. publish_jobs[pub.job].phase = "absent" => TaskOf[pub.job] \notin kept
      BY <1>1 DEF IndInv, PubOK
    <3> QED BY <1>2, <1>5, <3>1, <3>2, NewRepository, CommitFacts
  <2>2. /\ \/ pub' = Unlocked
           \/ pub' = [pub EXCEPT !.pc = "created"]
        /\ NoFault \/ Fault
    BY <1>5 DEF Create, Abort, Go
  <2>3. TypeOK'
    <3>1. /\ owner' \in [Repositories -> Jobs \cup {None, "outside"}]
          /\ head' \in [Repositories -> Commits] /\ objects' \in [Repositories -> SUBSET Commits]
      BY <1>2, <1>5, CommitFacts DEF Created, TypeOK
    <3>2. publish_jobs' \in [Jobs -> Rows] /\ returned' \subseteq Jobs
      BY <1>2, <1>3 DEF TypeOK
    <3>3. \/ pub' = Unlocked
          \/ /\ pub' \in [pc: {"find", "create", "created", "refs", "blobs", "tree",
                               "payload", "commit", "sha", "patch", "done"},
                          job: Jobs \cup {None}, row: Rows, work: Commits]
             /\ pub'.job = pub.job
      BY <1>2, <2>2 DEF TypeOK
    <3> QED BY <1>1, <1>2, <1>3, <2>2, <3>1, <3>2, <3>3, PublisherTypes
  <2>4. PubOK'
    <3>1. CASE pub' = Unlocked
      BY <3>1 DEF PubOK, Unlocked
    <3>2. CASE pub' = [pub EXCEPT !.pc = "created"]
      <4>1. /\ pub'.pc = "created" /\ pub'.job = pub.job /\ pub'.row = pub.row
            /\ owner'[RepositoryOf[pub.job]] = pub.job
        BY <1>2, <1>5, <3>2 DEF TypeOK, Created, Repo
      <4>2. ASSUME NEW row, NEW j, row = pub.row, j = pub.job
            PROVE  RowOK(row, j)'
        BY <1>2, <2>1, <4>2
      <4>3. RowOK(pub.row, pub.job)'
        BY <4>1, <4>2 DEF RowOK
      <4>4. pub.row.phase \in Early \ {"absent"}
        BY <1>1 DEF IndInv, PubOK
      <4> QED BY <1>1, <1>3, <4>1, <4>3, <4>4 DEF PubOK, IndInv, Repo, Early
    <3> QED BY <2>2, <3>1, <3>2
  <2> QED BY <2>1, <2>3, <2>4 DEF IndInv
<1> QED BY <1>4, <1>5 DEF Create

LEMMA CommitStep ==
    ASSUME IndInv, Commit
    PROVE  IndInv'
<1>1. pub.pc = "commit" /\ pub.pc # "idle"
  BY DEF Commit, PubAt
<1>2. /\ pub.job \in Jobs /\ Repo \in Repositories /\ pub.row \in Rows /\ pub.work \in Commits
      /\ RowOK(pub.row, pub.job) /\ TypeOK
  BY <1>1, PubFacts DEF IndInv
<1>3. UNCHANGED <<kept, announced, calls, publish_jobs, returned, owner, head>>
  BY DEF Commit, PubAt, githubVars
<1>4. /\ pub.row.phase \notin Early /\ pub.row.payload # NoCommit /\ pub.work = pub.row.payload
      /\ Signed(pub.work, pub.job) /\ owner[Repo] = pub.job
  BY <1>1, <1>2 DEF IndInv, PubOK, RowOK, Repo
<1>5. \/ pub' = Unlocked /\ (NoFault \/ Fault)
      \/ pub' = [pub EXCEPT !.pc = "sha"] /\ NoFault
  BY DEF Commit, Abort, Go
<1>6. \/ objects' = objects
      \/ objects' = [objects EXCEPT ![Repo] = @ \cup {pub.work}]
  BY DEF Commit, githubVars
<1>7. TableOK' /\ HeadOK'
  BY <1>3 DEF IndInv, TableOK, HeadOK, RowOK
<1>8. ObjectsOK'
  <2>1. ASSUME NEW r \in Repositories, NEW c \in objects'[r]
        PROVE  c \in objects[r] \/ (r = Repo /\ c = pub.work)
    BY <1>2, <1>6, <2>1 DEF TypeOK
  <2>2. Len(pub.work) > 0 /\ pub.work[Len(pub.work)] = owner[Repo] /\ owner[Repo] \in Jobs
    BY <1>2, <1>4 DEF Signed
  <2> QED BY <1>3, <2>1, <2>2 DEF IndInv, ObjectsOK
<1>9. PubOK'
  <2>1. CASE pub' = Unlocked
    BY <2>1 DEF PubOK, Unlocked
  <2>2. CASE pub' = [pub EXCEPT !.pc = "sha"]
    <3>1. /\ pub'.pc = "sha" /\ pub'.job = pub.job /\ pub'.row = pub.row /\ pub'.work = pub.work
      BY <1>2, <2>2 DEF TypeOK
    <3> QED BY <1>1, <1>3, <1>4, <3>1 DEF IndInv, PubOK, RowOK
  <2> QED BY <1>5, <2>1, <2>2
<1>a. TypeOK'
  <2>1. objects' \in [Repositories -> SUBSET Commits]
    BY <1>2, <1>6 DEF TypeOK
  <2>2. \/ pub' = Unlocked
        \/ /\ pub' \in [pc: {"find", "create", "created", "refs", "blobs", "tree",
                             "payload", "commit", "sha", "patch", "done"},
                        job: Jobs \cup {None}, row: Rows, work: Commits]
           /\ pub'.job = pub.job
    BY <1>2, <1>5 DEF TypeOK
  <2>3. /\ publish_jobs' \in [Jobs -> Rows] /\ returned' \subseteq Jobs
        /\ owner' \in [Repositories -> Jobs \cup {None, "outside"}]
        /\ head' \in [Repositories -> Commits]
    BY <1>2, <1>3 DEF TypeOK
  <2> QED BY <1>1, <1>2, <1>3, <1>5, <2>1, <2>2, <2>3, PublisherTypes
<1> QED BY <1>7, <1>8, <1>9, <1>a DEF IndInv

\* The branch is moved to the commit of its owner, the only one of a job on it.
LEMMA PatchStep ==
    ASSUME IndInv, Patch
    PROVE  IndInv'
<1>1. pub.pc = "patch" /\ pub.pc # "idle"
  BY DEF Patch, PubAt
<1>2. /\ pub.job \in Jobs /\ Repo \in Repositories /\ pub.row \in Rows /\ pub.work \in Commits
      /\ RowOK(pub.row, pub.job) /\ TypeOK
  BY <1>1, PubFacts DEF IndInv
<1>3. UNCHANGED <<kept, announced, calls, publish_jobs, returned>>
  BY DEF Patch, PubAt
<1>4. /\ pub.row.phase \notin Early /\ pub.row.payload # NoCommit /\ pub.work = pub.row.payload
      /\ Signed(pub.work, pub.job) /\ owner[Repo] = pub.job
  BY <1>1, <1>2 DEF IndInv, PubOK, RowOK, Repo
<1>5. CASE UNCHANGED githubVars /\ pub' = Unlocked /\ NoFault
  BY <1>1, <1>3, <1>5, AbortStep
<1>6. CASE /\ head' = [head EXCEPT ![Repo] = pub.work] /\ UNCHANGED <<owner, objects>>
           /\ \/ pub' = [pub EXCEPT !.pc = "done"]
              \/ pub' = Unlocked
           /\ NoFault \/ Fault
  <2>1. /\ head'[Repo] = pub.work /\ ~Fresh(pub.work)
        /\ \A q \in Repositories \ {Repo} : head'[q] = head[q]
    BY <1>2, <1>4, <1>6, SignedFacts DEF TypeOK
  <2>2. ASSUME NEW j \in Jobs, RepositoryOf[j] = Repo, j # pub.job
        PROVE  publish_jobs[j].phase \in Early
    BY <1>4, <2>2 DEF IndInv, TableOK, RowOK, Early
  <2>3. publish_jobs[pub.job].phase # "absent" => publish_jobs[pub.job] = pub.row
    BY <1>1 DEF IndInv, PubOK
  <2>4. IsPrefix(pub.row.payload, pub.work)
    BY <1>2, <1>4, PrefixFacts
  <2>5. ASSUME NEW row, NEW j, row = pub.row, j = pub.job
        PROVE  RowOK(row, j)'
    BY <1>2, <1>4, <1>6, <2>1, <2>4, <2>5 DEF RowOK, Repo
  <2>6. ASSUME NEW j \in Jobs
        PROVE  /\ publish_jobs[j].phase # "absent" => RowOK(publish_jobs[j], j)'
               /\ publish_jobs[j].phase = "complete" => ~Fresh(head'[RepositoryOf[j]])
    <3>1. CASE RepositoryOf[j] # Repo
      <4>1. head'[RepositoryOf[j]] = head[RepositoryOf[j]]
        BY <2>1, <3>1, PublicationAssumption
      <4> QED BY <1>3, <1>6, <4>1 DEF IndInv, TableOK, RowOK
    <3>2. CASE RepositoryOf[j] = Repo /\ j # pub.job
      BY <1>3, <1>4, <1>6, <2>1, <2>2, <3>2 DEF IndInv, TableOK, RowOK
    <3>3. CASE j = pub.job
      BY <1>3, <2>1, <2>3, <2>5, <3>3 DEF RowOK, Repo
    <3> QED BY <3>1, <3>2, <3>3
  <2>7. TableOK'
    <3>1. ASSUME NEW j \in Jobs
          PROVE  /\ TaskOf[j] \notin kept => publish_jobs[j] = NoRow
                 /\ publish_jobs[j].phase = "absent" /\ TaskOf[j] \in kept =>
                        owner[RepositoryOf[j]] # j
      BY DEF IndInv, TableOK
    <3> QED BY <1>3, <1>6, <2>6, <3>1 DEF TableOK
  <2>8. HeadOK'
    <3>1. \A i \in 1..Len(pub.work) : pub.work[i] \in Jobs =>
              i = Len(pub.work) /\ pub.work[i] = pub.job
      BY <1>2, <1>4, SignedFacts
    <3> QED BY <1>4, <1>6, <2>1, <3>1 DEF IndInv, HeadOK
  <2>9. ObjectsOK'
    BY <1>6 DEF IndInv, ObjectsOK
  <2>a. PubOK'
    <3>1. CASE pub' = Unlocked
      BY <3>1 DEF PubOK, Unlocked
    <3>2. CASE pub' = [pub EXCEPT !.pc = "done"]
      <4>1. /\ pub'.pc = "done" /\ pub'.job = pub.job /\ pub'.row = pub.row /\ pub'.work = pub.work
            /\ ~Fresh(head'[RepositoryOf[pub.job]])
        BY <1>2, <2>1, <3>2 DEF TypeOK, Repo
      <4>2. RowOK(pub.row, pub.job)'
        BY <2>5, <4>1 DEF RowOK
      <4> QED BY <1>1, <1>3, <1>4, <4>1, <4>2 DEF IndInv, PubOK, Repo
    <3> QED BY <1>6, <3>1, <3>2
  <2>b. TypeOK'
    <3>1. \/ pub' = Unlocked
          \/ /\ pub' \in [pc: {"find", "create", "created", "refs", "blobs", "tree",
                               "payload", "commit", "sha", "patch", "done"},
                          job: Jobs \cup {None}, row: Rows, work: Commits]
             /\ pub'.job = pub.job
      BY <1>2, <1>6 DEF TypeOK
    <3>2. /\ publish_jobs' \in [Jobs -> Rows] /\ returned' \subseteq Jobs
          /\ owner' \in [Repositories -> Jobs \cup {None, "outside"}]
          /\ head' \in [Repositories -> Commits] /\ objects' \in [Repositories -> SUBSET Commits]
      BY <1>2, <1>3, <1>6 DEF TypeOK
    <3> QED BY <1>1, <1>2, <1>3, <1>6, <3>1, <3>2, PublisherTypes
  <2> QED BY <2>7, <2>8, <2>9, <2>a, <2>b DEF IndInv
<1> QED BY <1>5, <1>6 DEF Patch, Abort, Go

LEMMA CompleteStep ==
    ASSUME IndInv, Complete
    PROVE  IndInv'
<1> DEFINE row == [pub.row EXCEPT !.phase = "complete"]
<1>1. pub.pc = "done" /\ pub.pc # "idle"
  BY DEF Complete, PubAt
<1>2. /\ pub.job \in Jobs /\ pub.row \in Rows /\ RowOK(pub.row, pub.job) /\ TypeOK
      /\ pub.row.phase \notin Early /\ ~Fresh(head[Repo])
  BY <1>1, PubFacts DEF IndInv, PubOK
<1>3. /\ UNCHANGED <<kept, announced, calls, githubVars>> /\ NoFault
      /\ update_publish(row) /\ pub' = Unlocked
  BY DEF Complete, PubAt, Abort
<1>4. row \in Rows /\ row.phase = "complete" /\ row.payload = pub.row.payload
      /\ row.commit_sha = pub.row.commit_sha
  BY <1>2 DEF Rows, Phases
<1>5. returned' \subseteq Jobs
  BY <1>2 DEF Complete, TypeOK
<1> HIDE DEF row
<1>6. RowOK(row, pub.job)
  BY <1>2, <1>4 DEF RowOK, Early
<1>7. UNCHANGED <<kept, owner, head>>
  BY <1>3 DEF githubVars
<1>8. TableOK'
  BY <1>1, <1>2, <1>3, <1>4, <1>6, <1>7, JournalStep
<1>9. PubOK' /\ HeadOK' /\ ObjectsOK'
  BY <1>3 DEF IndInv, PubOK, Unlocked, HeadOK, ObjectsOK, githubVars
<1>a. TypeOK'
  <2>1. publish_jobs' \in [Jobs -> Rows]
    BY <1>1, <1>2, <1>3, <1>4, Updates
  <2>2. /\ owner' \in [Repositories -> Jobs \cup {None, "outside"}]
        /\ head' \in [Repositories -> Commits] /\ objects' \in [Repositories -> SUBSET Commits]
    BY <1>2, <1>3 DEF TypeOK, githubVars
  <2> QED BY <1>1, <1>2, <1>3, <1>5, <2>1, <2>2, PublisherTypes
<1> QED BY <1>8, <1>9, <1>a DEF IndInv

LEMMA PublishStep ==
    ASSUME IndInv, Publish
    PROVE  IndInv'
<1>1. ASSUME NEW pc \in {"find", "create", "refs", "blobs", "tree", "commit", "patch"},
             RequestFails(pc)
      PROVE  IndInv'
  BY <1>1, AbortStep DEF RequestFails, PubAt, Abort
<1> QED BY <1>1, MarkStep, FindStep, CreateStep, RefsStep, UploadStep, PayloadStep, CommitStep,
           CommitEntryStep, PatchStep, CompleteStep DEF Publish

-----------------------------------------------------------------------------
(* The invariant is kept by the callers and the environment.               *)

LEMMA CallerStep ==
    ASSUME IndInv, NEW j \in Jobs, ConfirmPublish(j) \/ RecoverPublish(j) \/ Announce(j)
    PROVE  IndInv'
<1>1. TypeOK'
  BY CallerTypes DEF IndInv
<1>2. UNCHANGED <<kept, pub, githubVars>>
  BY DEF ConfirmPublish, RecoverPublish, Announce, storeVars
<1>3. ASSUME NEW k \in Jobs
      PROVE  \/ publish_jobs'[k] = publish_jobs[k]
             \/ /\ publish_jobs[k].phase = "absent" /\ TaskOf[k] \in kept
                /\ publish_jobs'[k] = [NoRow EXCEPT !.phase = "prepared"]
  BY DEF ConfirmPublish, RecoverPublish, Announce, storeVars, IndInv, TypeOK
<1>4. \A k \in Jobs : publish_jobs[k].phase = "absent" => publish_jobs[k] = NoRow \/ TaskOf[k] \in kept
  BY DEF IndInv, TableOK
<1>5. ASSUME NEW k \in Jobs, publish_jobs'[k] # publish_jobs[k]
      PROVE  /\ publish_jobs'[k].phase = "prepared" /\ RowOK(publish_jobs'[k], k)
             /\ publish_jobs[k].phase = "absent" /\ TaskOf[k] \in kept
  <2>1. /\ publish_jobs[k].phase = "absent" /\ owner[RepositoryOf[k]] # k
        /\ publish_jobs'[k] = [NoRow EXCEPT !.phase = "prepared"] /\ TaskOf[k] \in kept
    BY <1>3, <1>5 DEF IndInv, TableOK
  <2> QED BY <2>1 DEF RowOK, NoRow, Early
<1>6. TableOK'
  <2>1. ASSUME NEW k \in Jobs
        PROVE  /\ TaskOf[k] \notin kept => publish_jobs'[k] = NoRow
               /\ publish_jobs'[k].phase = "absent" /\ TaskOf[k] \in kept =>
                      owner[RepositoryOf[k]] # k
               /\ publish_jobs'[k].phase # "absent" => RowOK(publish_jobs'[k], k)
               /\ publish_jobs'[k].phase = "complete" => ~Fresh(head[RepositoryOf[k]])
    BY <1>5 DEF IndInv, TableOK
  <2> QED BY <1>2, <2>1 DEF TableOK, RowOK, githubVars
<1>7. PubOK'
  <2>1. ASSUME pub.pc # "idle"
        PROVE  publish_jobs'[pub.job] = publish_jobs[pub.job]
    BY <1>5, <2>1, PubFacts DEF IndInv, PubOK
  <2> QED BY <1>2, <2>1 DEF IndInv, PubOK, RowOK, Repo, githubVars
<1>8. HeadOK' /\ ObjectsOK'
  BY <1>2 DEF IndInv, HeadOK, ObjectsOK, githubVars
<1> QED BY <1>1, <1>6, <1>7, <1>8 DEF IndInv

LEMMA BeginStep ==
    ASSUME IndInv, NEW j \in Jobs, Begin(j)
    PROVE  IndInv'
<1>1. TypeOK'
  BY BeginTypes DEF IndInv
<1>2. UNCHANGED <<kept, publish_jobs, githubVars>>
  BY DEF Begin, storeVars
<1>3. TableOK' /\ HeadOK' /\ ObjectsOK'
  BY <1>2, LocalStep
<1>4. CASE pub' = pub
  <2>1. pub'.pc = "idle"
    BY <1>4 DEF Begin
  <2> QED BY <1>1, <1>3, <2>1 DEF IndInv, PubOK
<1>5. ASSUME NEW from \in {"mark", "find", "refs"},
             pub' = [Unlocked EXCEPT !.pc = from, !.job = j, !.row = publish_jobs[j]],
             from = "refs" <=> publish_jobs[j].phase \notin Early,
             publish_jobs[j].phase \notin {"absent", "complete"}
      PROVE  PubOK'
  <2>1. pub'.pc = from /\ pub'.job = j /\ pub'.row = publish_jobs[j]
    BY <1>5 DEF Unlocked
  <2>2. RowOK(publish_jobs[j], j)
    BY <1>5 DEF IndInv, TableOK
  <2> QED BY <1>2, <1>5, <2>1, <2>2 DEF PubOK, RowOK, githubVars
<1>6. pub' = pub \/ PubOK'
  BY <1>5 DEF Begin, Early
<1> QED BY <1>1, <1>3, <1>4, <1>6 DEF IndInv

\* A task that is deleted during a publication takes its rows with it for ever.
LEMMA RetireStep ==
    ASSUME IndInv, NEW t \in Tasks, Retire(t)
    PROVE  IndInv'
<1>1. TypeOK'
  BY EnvironmentTypes DEF IndInv
<1>2. /\ kept' = kept \ {t} /\ UNCHANGED <<pub, githubVars>>
      /\ publish_jobs' = [j \in Jobs |-> IF TaskOf[j] = t THEN NoRow ELSE publish_jobs[j]]
  BY DEF Retire
<1>3. TableOK'
  <2>1. ASSUME NEW k \in Jobs
        PROVE  /\ TaskOf[k] \notin kept' => publish_jobs'[k] = NoRow
               /\ publish_jobs'[k].phase = "absent" /\ TaskOf[k] \in kept' =>
                      owner[RepositoryOf[k]] # k
               /\ publish_jobs'[k].phase # "absent" => RowOK(publish_jobs'[k], k)
               /\ publish_jobs'[k].phase = "complete" => ~Fresh(head[RepositoryOf[k]])
    BY <1>2 DEF IndInv, TableOK, NoRow
  <2> QED BY <1>2, <2>1 DEF TableOK, RowOK, githubVars
<1>4. PubOK'
  <2>1. ASSUME pub.pc # "idle"
        PROVE  \/ publish_jobs'[pub.job] = publish_jobs[pub.job] /\ TaskOf[pub.job] # t
               \/ publish_jobs'[pub.job].phase = "absent" /\ TaskOf[pub.job] = t
    BY <1>2, <2>1, PubFacts DEF NoRow
  <2> QED BY <1>2, <2>1 DEF IndInv, PubOK, RowOK, Repo, githubVars
<1>5. HeadOK' /\ ObjectsOK'
  BY <1>2 DEF IndInv, HeadOK, ObjectsOK, githubVars
<1> QED BY <1>1, <1>3, <1>4, <1>5 DEF IndInv

LEMMA CrashStep ==
    ASSUME IndInv, Crash
    PROVE  IndInv'
<1>1. TypeOK'
  BY EnvironmentTypes DEF IndInv
<1>2. TableOK' /\ HeadOK' /\ ObjectsOK'
  BY LocalStep DEF Crash, storeVars
<1>3. PubOK'
  BY DEF Crash, PubOK, Unlocked
<1> QED BY <1>1, <1>2, <1>3 DEF IndInv

\* Others never write what looks like a commit of a job.
LEMMA OthersStep ==
    ASSUME IndInv, NEW r \in Repositories, OthersAct(r)
    PROVE  IndInv'
<1>1. TypeOK'
  BY EnvironmentTypes DEF IndInv
<1>2. UNCHANGED <<kept, publish_jobs, pub, objects>> /\ TypeOK
  BY DEF OthersAct, storeVars, IndInv
<1>3. ASSUME owner[r] = None, owner' = [owner EXCEPT ![r] = "outside"],
             head' = [head EXCEPT ![r] = Foreign]
      PROVE  IndInv'
  <2>1. "outside" \notin Jobs
    BY PublicationAssumption
  <2>2. /\ TableOK' /\ HeadOK' /\ ObjectsOK'
        /\ \A row, j : j \in Jobs /\ RowOK(row, j) => RowOK(row, j)'
    BY <1>2, <1>3, <2>1, CommitFacts, NewRepository
  <2>3. ASSUME pub.pc # "idle"
        PROVE  /\ RowOK(pub.row, pub.job)'
               /\ owner[Repo] = pub.job => owner'[Repo] = owner[Repo] /\ head'[Repo] = head[Repo]
    <3>1. ASSUME NEW row, NEW j, row = pub.row, j = pub.job
          PROVE  RowOK(row, j)'
      BY <2>2, <2>3, <3>1, PubFacts
    <3>2. RowOK(pub.row, pub.job)'
      BY <1>2, <3>1 DEF RowOK
    <3>3. pub.job # None /\ Repo \in Repositories
      BY <2>3, PubFacts, PublicationAssumption
    <3> QED BY <1>2, <1>3, <3>2, <3>3 DEF TypeOK
  <2>4. PubOK'
    <3>1. CASE pub.pc = "idle"
      BY <1>2, <3>1 DEF PubOK
    <3>2. CASE pub.pc # "idle"
      <4>1. pub.row.phase \notin Early => owner[Repo] = pub.job
        BY <3>2, PubFacts DEF RowOK, Repo
      <4> QED BY <1>2, <2>3, <3>2, <4>1 DEF IndInv, PubOK, Repo
    <3> QED BY <3>1, <3>2
  <2> QED BY <1>1, <2>2, <2>4 DEF IndInv
<1>4. ASSUME owner' = owner, head' = [head EXCEPT ![r] = Append(head[r], "outside")]
      PROVE  IndInv'
  <2>1. /\ \A q \in Repositories : head[q] \in Commits /\ head'[q] \in Commits
        /\ \A q \in Repositories : IsPrefix(head[q], head'[q]) /\ (Fresh(head[q]) => Fresh(head'[q]))
    <3>1. head[r] \in Commits /\ "outside" \in Authors /\ "outside" \notin Jobs
      BY <1>2, PublicationAssumption DEF TypeOK, Authors
    <3>2. Fresh(head[r]) => Fresh(Append(head[r], "outside"))
      <4>1. /\ Len(head[r]) \in Nat /\ Len(Append(head[r], "outside")) = Len(head[r]) + 1
            /\ Append(head[r], "outside")[Len(head[r]) + 1] = "outside"
            /\ \A i \in 1..Len(head[r]) : Append(head[r], "outside")[i] = head[r][i]
        BY <3>1, AppendFacts, CommitFacts
      <4> QED BY <3>1, <4>1 DEF Fresh
    <3> QED BY <1>1, <1>2, <1>4, <3>1, <3>2, AppendFacts, PrefixFacts DEF TypeOK
  <2>2. ASSUME NEW row, NEW j \in Jobs, row \in Rows, RowOK(row, j)
        PROVE  RowOK(row, j)'
    <3>1. RepositoryOf[j] \in Repositories /\ row.payload \in Commits
      BY <2>2, PublicationAssumption DEF Rows
    <3> QED BY <1>4, <2>1, <2>2, <3>1, PrefixFacts DEF RowOK
  <2>3. \A q \in Repositories : ~Fresh(head[q]) => ~Fresh(head'[q])
    BY <2>1, PrefixFacts
  <2>4. TableOK'
    <3>1. \A j \in Jobs : publish_jobs[j] \in Rows /\ RepositoryOf[j] \in Repositories
      BY <1>2, PublicationAssumption DEF TypeOK
    <3> QED BY <1>2, <1>4, <2>2, <2>3, <3>1 DEF IndInv, TableOK, RowOK
  <2>5. PubOK'
    <3>1. CASE pub.pc = "idle"
      BY <1>2, <3>1 DEF PubOK
    <3>2. CASE pub.pc # "idle"
      <4>1. ASSUME NEW row, NEW j, row = pub.row, j = pub.job
            PROVE  RowOK(row, j)'
        BY <2>2, <3>2, <4>1, PubFacts
      <4>2. RowOK(pub.row, pub.job)'
        BY <1>2, <4>1 DEF RowOK
      <4>3. Repo \in Repositories
        BY <3>2, PubFacts
      <4> QED BY <1>2, <1>4, <2>3, <3>2, <4>2, <4>3 DEF IndInv, PubOK, Repo
    <3> QED BY <3>1, <3>2
  <2>6. HeadOK'
    <3>1. \A i \in 1..Len(head'[r]) : head'[r][i] \in Jobs =>
              i \in 1..Len(head[r]) /\ head'[r][i] = head[r][i]
      <4>1. head[r] \in Commits /\ "outside" \in Authors /\ "outside" \notin Jobs
            /\ head'[r] = Append(head[r], "outside")
        BY <1>2, <1>4, PublicationAssumption DEF TypeOK, Authors
      <4>2. /\ Len(head[r]) \in Nat /\ Len(Append(head[r], "outside")) = Len(head[r]) + 1
            /\ Append(head[r], "outside")[Len(head[r]) + 1] = "outside"
            /\ \A i \in 1..Len(head[r]) : Append(head[r], "outside")[i] = head[r][i]
        BY <4>1, AppendFacts, CommitFacts
      <4> QED BY <4>1, <4>2
    <3>2. \A q \in Repositories \ {r} : head'[q] = head[q]
      BY <1>2, <1>4 DEF TypeOK
    <3> QED BY <1>4, <3>1, <3>2 DEF IndInv, HeadOK
  <2>7. ObjectsOK'
    BY <1>2, <1>4 DEF IndInv, ObjectsOK
  <2> QED BY <1>1, <2>4, <2>5, <2>6, <2>7 DEF IndInv
<1> QED BY <1>3, <1>4 DEF OthersAct

-----------------------------------------------------------------------------
(* The theorems.                                                           *)

LEMMA InitIndInv == Init => IndInv
<1> SUFFICES ASSUME Init PROVE IndInv
  OBVIOUS
<1>1. TypeOK
  BY InitTypeOK
<1>2. \A j \in Jobs : RepositoryOf[j] \in Repositories /\ j # None
  BY PublicationAssumption
<1>3. TableOK
  BY <1>2 DEF Init, TableOK, RowOK, NoRow
<1>4. PubOK /\ HeadOK /\ ObjectsOK
  BY DEF Init, PubOK, Unlocked, HeadOK, ObjectsOK, NoCommit
<1> QED BY <1>1, <1>3, <1>4 DEF IndInv

LEMMA NextIndInv == IndInv /\ [Next]_vars => IndInv'
<1> SUFFICES ASSUME IndInv, [Next]_vars PROVE IndInv'
  OBVIOUS
<1>1. CASE UNCHANGED vars
  BY <1>1 DEF vars, storeVars, callVars, githubVars, countVars, IndInv, TypeOK, TableOK, RowOK,
     PubOK, Repo, HeadOK, ObjectsOK
<1>2. CASE Next
  BY <1>2, CallerStep, BeginStep, PublishStep, RetireStep, OthersStep, CrashStep DEF Next
<1> QED BY <1>1, <1>2

\* Rows, the publisher and GitHub agree: the commit a row names is the only one
\* of a job that the branch of its repository has or will get, and the publisher
\* works on the row that is in the table, unless the task has been deleted.
THEOREM RowsAndBranches == Spec => []IndInv
BY InitIndInv, NextIndInv, PTL DEF Spec

\* Every variable of the publication keeps to its values.
THEOREM TypeCorrect == Spec => []TypeOK
<1>1. IndInv => TypeOK
  BY DEF IndInv
<1> QED BY <1>1, RowsAndBranches, PTL

\* Times counts what Fresh and Signed speak of.
LEMMA TimesFacts ==
    ASSUME NEW j \in Jobs, NEW c \in Commits,
           \A i, k \in 1..Len(c) : c[i] \in Jobs /\ c[k] \in Jobs => i = k
    PROVE  /\ Times(j, c) <= 1
           /\ (\E i \in 1..Len(c) : c[i] = j) => Times(j, c) = 1
<1> DEFINE T == {i \in DOMAIN c : c[i] = j}
<1>1. DOMAIN c = 1..Len(c)
  BY LenProperties DEF Commits
<1>2. CASE T = {}
  <2>1. Times(j, c) = 0
    BY <1>2, FS_EmptySet DEF Times
  <2> QED BY <1>1, <1>2, <2>1
<1>3. CASE T # {}
  <2>1. PICK i \in 1..Len(c) : c[i] = j /\ T = {i}
    BY <1>1, <1>3
  <2>2. Cardinality(T) = 1
    BY <2>1, FS_Singleton
  <2> QED BY <2>2 DEF Times
<1> QED BY <1>2, <1>3

\* A publication never makes a second commit, whatever crash, lost answer or
\* second caller falls between a request and its journal entry.
THEOREM OnlyOneCommit == Spec => []OneCommit
<1>1. IndInv => OneCommit
  <2> SUFFICES ASSUME IndInv, NEW j \in Jobs, NEW r \in Repositories
               PROVE  Times(j, head[r]) <= 1
    BY DEF OneCommit
  <2>1. /\ head[r] \in Commits
        /\ \A i, k \in 1..Len(head[r]) : head[r][i] \in Jobs /\ head[r][k] \in Jobs => i = k
    BY DEF IndInv, TypeOK, HeadOK
  <2> QED BY <2>1, TimesFacts
<1> QED BY <1>1, RowsAndBranches, PTL

\* A job that is complete in the journal is on its branch, once.
THEOREM CompleteIsOnBranch == Spec => []CompleteIsPublished
<1>1. IndInv => CompleteIsPublished
  <2> SUFFICES ASSUME IndInv, NEW j \in Jobs, publish_jobs[j].phase = "complete"
               PROVE  Times(j, head[RepositoryOf[j]]) = 1
    BY DEF CompleteIsPublished
  <2>1. RepositoryOf[j] \in Repositories
    BY PublicationAssumption
  <2> DEFINE c == head[RepositoryOf[j]]
  <2>2. /\ c \in Commits
        /\ \A i, k \in 1..Len(c) : c[i] \in Jobs /\ c[k] \in Jobs => i = k
        /\ \A i \in 1..Len(c) : c[i] \in Jobs => c[i] = owner[RepositoryOf[j]]
    BY <2>1 DEF IndInv, TypeOK, HeadOK
  <2>3. owner[RepositoryOf[j]] = j /\ ~Fresh(c)
    BY DEF IndInv, TableOK, RowOK, Early
  <2>4. \E i \in 1..Len(c) : c[i] = j
    BY <2>2, <2>3 DEF Fresh
  <2> QED BY <2>2, <2>4, TimesFacts
<1> QED BY <1>1, RowsAndBranches, PTL

\* A collision of names fails closed: commit objects go only to repositories
\* that their job has created.
THEOREM OwnRepositories == Spec => []OnlyOwnRepositories
<1>1. IndInv => OnlyOwnRepositories
  BY DEF IndInv, ObjectsOK, OnlyOwnRepositories, Last
<1> QED BY <1>1, RowsAndBranches, PTL

\* Nothing that others have pushed is lost.
THEOREM NothingOverwritten == Spec => BranchOnlyGrows
<1>1. ASSUME IndInv, [Next]_vars
      PROVE  \A r \in Repositories : owner'[r] = owner[r] => IsPrefix(head[r], head'[r])
  <2>1. \A r \in Repositories : head[r] \in Commits /\ IsPrefix(head[r], head[r])
    BY <1>1, PrefixFacts DEF IndInv, TypeOK
  <2>2. CASE UNCHANGED head
    BY <2>1, <2>2
  <2>3. CASE Patch
    <3>1. head' = head \/ (/\ head' = [head EXCEPT ![Repo] = pub.work]
                           /\ IsPrefix(head[Repo], pub.work))
      BY <2>3 DEF Patch, githubVars
    <3> QED BY <1>1, <2>1, <2>2, <3>1 DEF IndInv, TypeOK
  <2>4. CASE Create
    <3>1. pub.pc # "idle"
      BY <2>4 DEF Create, PubAt
    <3>2. pub.job \in Jobs /\ Repo \in Repositories
      BY <1>1, <3>1, PubFacts
    <3>3. head' = head \/ (/\ owner[Repo] = None /\ owner' = [owner EXCEPT ![Repo] = pub.job]
                           /\ head' = [head EXCEPT ![Repo] = Root])
      BY <2>4 DEF Create, Created, githubVars
    <3> QED BY <1>1, <2>1, <2>2, <3>2, <3>3, PublicationAssumption DEF IndInv, TypeOK
  <2>5. ASSUME NEW q \in Repositories, OthersAct(q)
        PROVE  \A r \in Repositories : owner'[r] = owner[r] => IsPrefix(head[r], head'[r])
    <3>1. IsPrefix(head[q], Append(head[q], "outside"))
      BY <2>1, AppendFacts DEF Authors
    <3>2. CASE owner[q] = None /\ owner' = [owner EXCEPT ![q] = "outside"]
               /\ head' = [head EXCEPT ![q] = Foreign]
      BY <1>1, <2>1, <3>2, PublicationAssumption DEF IndInv, TypeOK
    <3>3. CASE head' = [head EXCEPT ![q] = Append(head[q], "outside")]
      BY <1>1, <2>1, <3>1, <3>3 DEF IndInv, TypeOK
    <3> QED BY <2>5, <3>2, <3>3 DEF OthersAct
  <2>6. UNCHANGED head \/ Patch \/ Create \/ \E q \in Repositories : OthersAct(q)
    <3>1. CASE UNCHANGED vars
      BY <3>1 DEF vars, githubVars
    <3>2. CASE Publish
      BY <3>2 DEF Publish, Mark, Find, JournalCreated, Refs, Upload, JournalPayload, Commit,
         JournalCommit, Complete, RequestFails, githubVars
    <3>3. CASE Crash \/ \E t \in Tasks : Retire(t)
      BY <3>3 DEF Crash, Retire, githubVars
    <3>4. CASE \E j \in Jobs : ConfirmPublish(j) \/ RecoverPublish(j) \/ Begin(j) \/ Announce(j)
      BY <3>4 DEF ConfirmPublish, RecoverPublish, Begin, Announce, githubVars
    <3> QED BY <1>1, <3>1, <3>2, <3>3, <3>4 DEF Next
  <2> QED BY <2>2, <2>3, <2>4, <2>5, <2>6
<1>2. IndInv /\ [Next]_vars =>
          [\A r \in Repositories : owner'[r] = owner[r] => IsPrefix(head[r], head'[r])]_vars
  BY <1>1
<1> QED BY <1>2, RowsAndBranches, PTL DEF Spec, BranchOnlyGrows

=============================================================================
