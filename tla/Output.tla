------------------------------- MODULE Output -------------------------------
(***************************************************************************)
(* What a session leaves behind, from the provider to GitHub: _capture     *)
(* (src/combadge/service.py) with pagination and bounded downloads         *)
(* (agents.py), the checks and the extraction of artifacts.py, the         *)
(* publisher's reading of the extracted tree (github.py), and the removal  *)
(* of the tree after retention, for one task.                              *)
(*                                                                         *)
(* An entry of an archive has a path (outside Paths when _safe_name        *)
(* rejects it), a kind, a size and a text, its content.  The directory of  *)
(* the task maps a path to the text of the file there, "dir" or "none".    *)
(* The verdict is one step here and several in AgentService; so are the    *)
(* requests of the publisher in Publication.                               *)
(***************************************************************************)
EXTENDS Naturals, SequencesExt

CONSTANTS
    Offers,      \* what the turns of a session may leave
    Paths,       \* of files below the source directory, at most two levels deep
    Texts,       \* of files
    Parent,      \* Parent[p]: the path of the directory p is in, or "top"
    Excluded,    \* paths that match EXCLUDED_NAMES or EXCLUDED_PATTERNS
    Secret,      \* a text that matches SECRET_PATTERN
    Chunk, MaxBytes, MaxManifest, MaxFiles,
    MaxFaults    \* bound on failed or cut requests and crashes

Entries ==
    [path: Paths \cup {"outside"}, kind: {"file", "dir", "link"}, size: Nat, text: Texts]

\* The names listed page by page, the sizes of source and manifest, whether the
\* manifest is valid, and the archive.
Outputs ==
    [pages: Seq(SUBSET {"source", "manifest"}) \ {<<>>}, bytes: Nat, manifest_bytes: Nat,
     manifest: BOOLEAN, format: {"zip", "tar"}, archive: Seq(Entries)]

ASSUME OutputAssumption ==
    /\ Offers \subseteq Outputs
    /\ Paths \cap {"outside", "top"} = {} /\ Texts \cap {"none", "dir"} = {}
    /\ \A p \in Paths : Parent[p] # "top" => Parent[p] \in Paths /\ Parent[Parent[p]] = "top"
    /\ {Chunk, MaxBytes, MaxManifest, MaxFiles} \subseteq Nat \ {0}
    /\ MaxFaults \in Nat

VARIABLES
    offer,      \* the artifacts of the session
    reopened,   \* history: a steer message has replaced them
    status,     \* of the task; "deleted" once cleanup has removed its rows
    source,     \* the directory artifact_dir/<task>/source
    cap,        \* the holder of reconcile_lock in _capture
    job,        \* the row of publish_jobs: its phase and, once journaled, its tree
    pub,        \* the holder of Publisher.lock
    branch,     \* the files of the published commit
    sweeping,   \* cleanup is removing the directory
    outlived,   \* history: the task was deleted during a publication
    faults

vars == <<offer, reopened, status, source, cap, job, pub, branch, sweeping, outlived, faults>>

FilesOf(tree) == {<<p, tree[p]>> : p \in {q \in Paths : tree[q] \notin {"none", "dir"}}}

NoCap == [pc |-> "idle", offer |-> offer, page |-> 1, items |-> {},
          got |-> [source |-> 0, manifest |-> 0], cut |-> FALSE, written |-> 0, ok |-> TRUE]
NoPub == [pc |-> "idle", phase |-> "none", tree |-> {}, todo |-> {}, files |-> {}]

Init ==
    /\ offer \in Offers /\ reopened = FALSE
    /\ status = "running"
    /\ source = [p \in Paths |-> "none"]
    /\ cap = NoCap /\ pub = NoPub
    /\ job = [phase |-> "none", tree |-> {}]
    /\ branch = {} /\ sweeping = FALSE /\ outlived = FALSE
    /\ faults = 0

Fault == faults < MaxFaults /\ faults' = faults + 1

-----------------------------------------------------------------------------
(* _capture.                                                               *)

CapAt(pc) ==
    /\ cap.pc = pc
    /\ UNCHANGED <<offer, reopened, job, pub, branch, sweeping, outlived>>

\* The last turn has been seen to be completed (_reconcile).
CaptureBegin ==
    /\ CapAt("idle") /\ status = "running"
    /\ cap' = [NoCap EXCEPT !.pc = "list"]
    /\ UNCHANGED <<status, source, faults>>

\* An exception anywhere in _capture makes the verdict "failed".
CaptureFails ==
    /\ \E pc \in {"list", "source", "manifest", "check", "write"} : CapAt(pc)
    /\ Fault
    /\ cap' = [cap EXCEPT !.pc = "verdict", !.ok = FALSE]
    /\ UNCHANGED <<status, source>>

\* Mutant: a page without items ends the listing.
MoreWhileItems(page, pages, data) == page < Len(pages) /\ data # {}

\* paginate reads the next page while there is one.
MorePages(page, pages, data) == page < Len(pages)

\* list(paginate(list_artifacts)); the source and the manifest must be listed.
ListPage ==
    LET pages == cap.offer.pages
        items == cap.items \cup pages[cap.page]
        found == {"source", "manifest"} \subseteq items IN
    /\ CapAt("list")
    /\ cap' = IF MorePages(cap.page, pages, pages[cap.page])
              THEN [cap EXCEPT !.page = @ + 1, !.items = items]
              ELSE [cap EXCEPT !.items = items, !.ok = found,
                               !.pc = IF found THEN "source" ELSE "verdict"]
    /\ UNCHANGED <<status, source, faults>>

\* Mutant: up to the limit, where the loop takes the empty read for the end.
AskToLimit(max, got) == Min({Chunk, max - got})

\* How much a read asks for: up to one byte past the limit.
Ask(max, got) == Min({Chunk, (max + 1) - got})

\* Mutant: the byte past the limit is let through.
OverByTwo(max, total) == total > max + 1

Over(max, total) == total > max

\* One turn of the loop of download_artifact.  An empty read ends it: the
\* artifact has been read, or the connection was cut.
ReadChunk(name, size, max, next) ==
    LET got == cap.got[name]
        n == Min({Ask(max, got), size - got}) IN
    /\ CapAt(name)
    /\ \/ /\ n > 0
          /\ cap' = IF Over(max, got + n) THEN [cap EXCEPT !.pc = "verdict", !.ok = FALSE]
                    ELSE [cap EXCEPT !.got[name] = got + n]
          /\ UNCHANGED faults
       \/ n = 0 /\ cap' = [cap EXCEPT !.pc = next] /\ UNCHANGED faults
       \/ n > 0 /\ Fault /\ cap' = [cap EXCEPT !.pc = next, !.cut = TRUE]
    /\ UNCHANGED <<status, source>>

ReadSource == ReadChunk("source", cap.offer.bytes, MaxBytes, "manifest")
ReadManifest == ReadChunk("manifest", cap.offer.manifest_bytes, MaxManifest, "check")

-----------------------------------------------------------------------------
(* extract_source: the loops over the entries of a zip and of a tar, the   *)
(* entries seen so far in s.                                               *)

Start == [index |-> 0, files |-> 0, total |-> 0, ok |-> TRUE]

\* Mutant: the limit applies to each file.
CountedOneByOne(s, e) ==
    [index |-> s.index + 1, files |-> s.files + (IF e.kind = "file" THEN 1 ELSE 0),
     total |-> 0, ok |-> s.ok /\ e.size <= MaxBytes]

\* An entry counted; ok unless its size takes the total past the limit.
Counted(s, e) ==
    LET file == e.kind = "file"
        total == s.total + (IF file THEN e.size ELSE 0) IN
    [index |-> s.index + 1, files |-> s.files + (IF file THEN 1 ELSE 0),
     total |-> total, ok |-> s.ok /\ total <= MaxBytes]

ZipEntry(s, e) ==
    LET t == Counted(s, e) IN
    [t EXCEPT !.ok = /\ @ /\ e.path \in Paths /\ e.kind # "link"
                     /\ ~(s.files >= MaxFiles /\ e.kind # "dir")]

TarEntry(s, e) ==
    LET t == Counted(s, e) IN
    [t EXCEPT !.ok = @ /\ s.index < MaxFiles /\ e.path \in Paths /\ e.kind # "link"]

Passes(o) ==
    IF o.format = "zip"
    THEN Len(o.archive) <= MaxFiles /\ FoldLeft(ZipEntry, Start, o.archive).ok
    ELSE FoldLeft(TarEntry, Start, o.archive).ok

\* validate_manifest, then the loop.  What a cut connection leaves is no
\* archive (the directory of a zip is at its end, a compressed tar has a
\* checksum there) and no JSON.
CheckOutput ==
    LET ok == ~cap.cut /\ cap.offer.manifest /\ Passes(cap.offer) IN
    /\ CapAt("check")
    /\ cap' = [cap EXCEPT !.pc = IF ok THEN "write" ELSE "verdict", !.ok = ok]
    /\ UNCHANGED <<status, source, faults>>

\* entries: the files of an archive, by their places in it; and those to come.
Files(archive) == {i \in DOMAIN archive : archive[i].kind = "file"}
Left == {i \in Files(cap.offer.archive) : i > cap.written}

\* Mutant: a file that is there is kept.
PlacedOnce(tree, e) ==
    [p \in Paths |-> IF p = e.path /\ tree[p] = "none" THEN e.text
                     ELSE IF p = Parent[e.path] THEN "dir" ELSE tree[p]]

\* The file of an entry, in its directory; an earlier one is replaced.  It
\* fails where a file stands for the directory or a directory for the file.
Placed(tree, e) ==
    [p \in Paths |-> IF p = e.path THEN e.text ELSE IF p = Parent[e.path] THEN "dir" ELSE tree[p]]

Clashes(tree, e) ==
    \/ tree[e.path] = "dir"
    \/ (Parent[e.path] # "top" /\ tree[Parent[e.path]] \notin {"none", "dir"})

WriteFile ==
    LET e == cap.offer.archive[Min(Left)] IN
    /\ CapAt("write") /\ Left # {}
    /\ IF Clashes(source, e)
       THEN cap' = [cap EXCEPT !.pc = "verdict", !.ok = FALSE] /\ UNCHANGED source
       ELSE cap' = [cap EXCEPT !.written = Min(Left)] /\ source' = Placed(source, e)
    /\ UNCHANGED <<status, faults>>

\* The end of _capture and _finish.
Verdict ==
    /\ \/ CapAt("verdict")
       \/ CapAt("write") /\ Left = {}
    /\ status' = IF cap.ok THEN "completed" ELSE "failed"
    /\ cap' = NoCap
    /\ UNCHANGED <<source, faults>>

\* steer: the session works again and leaves other artifacts.
Steer ==
    /\ status = "running" /\ ~reopened
    /\ offer' \in Offers /\ reopened' = TRUE
    /\ UNCHANGED <<status, source, cap, job, pub, branch, sweeping, outlived, faults>>

-----------------------------------------------------------------------------
(* The publisher.                                                          *)

PubAt(pc) ==
    /\ pub.pc = pc
    /\ UNCHANGED <<offer, reopened, status, source, cap, sweeping, outlived>>

\* confirm_publish or recover: create_publish, publish_by_key, and the names
\* publishable_files goes through.
PubBegin ==
    /\ PubAt("idle") /\ status = "completed" /\ job.phase # "complete"
    /\ job' = IF job.phase = "none" THEN [job EXCEPT !.phase = "prepared"] ELSE job
    /\ pub' = [pc |-> "read", phase |-> job'.phase, tree |-> job.tree, files |-> {},
               todo |-> {p \in Paths : source[p] # "none"}]
    /\ UNCHANGED <<branch, faults>>

\* Mutant: only the last part of the path is looked at.
SkippedByName(p) == p \in Excluded

Skipped(p) == p \in Excluded \/ Parent[p] \in Excluded

\* One turn of the loop of publishable_files: what is no file, or no more, is
\* passed over, and a possible credential ends the attempt.
PubRead ==
    /\ PubAt("read")
    /\ \E p \in pub.todo :
          LET text == source[p]
              rest == [pub EXCEPT !.todo = @ \ {p}] IN
          pub' = IF Skipped(p) \/ text \in {"none", "dir"} THEN rest
                 ELSE IF text = Secret THEN NoPub
                 ELSE [rest EXCEPT !.files = @ \cup {<<p, text>>}]
    /\ UNCHANGED <<job, branch, faults>>

\* Without a file there is no publication.  The creation marker is recorded in
\* the row, read back, and the repository created.
PubCreate ==
    /\ PubAt("read") /\ pub.todo = {}
    /\ IF pub.files = {} \/ (pub.phase = "prepared" /\ job.phase = "none")
       THEN pub' = NoPub /\ UNCHANGED job
       ELSE /\ pub' = [pub EXCEPT !.pc = "commit", !.phase = "created"]
            /\ job' = IF job.phase = "prepared" THEN [job EXCEPT !.phase = "created"] ELSE job
    /\ UNCHANGED <<branch, faults>>

\* Blobs and tree; the commit is journaled, or the journaled one taken up.
PubTree ==
    /\ PubAt("commit")
    /\ pub' = [pub EXCEPT !.pc = "ref", !.files = IF pub.tree # {} THEN pub.tree ELSE @]
    /\ job' = IF job.phase = "none" THEN job ELSE [phase |-> "committed", tree |-> pub'.files]
    /\ UNCHANGED <<branch, faults>>

PubRef ==
    /\ PubAt("ref")
    /\ branch' = pub.files
    /\ job' = IF job.phase = "none" THEN job ELSE [job EXCEPT !.phase = "complete"]
    /\ pub' = NoPub
    /\ UNCHANGED faults

PubFails ==
    /\ pub.pc # "idle" /\ PubAt(pub.pc)
    /\ Fault
    /\ pub' = NoPub
    /\ UNCHANGED <<job, branch>>

-----------------------------------------------------------------------------
(* Retention, crashes.                                                     *)

\* The transaction of Store.cleanup.
Expire ==
    /\ status \in {"completed", "failed"}
    /\ status' = "deleted"
    /\ sweeping' = TRUE /\ outlived' = (pub.pc # "idle")
    /\ job' = [phase |-> "none", tree |-> {}]
    /\ UNCHANGED <<offer, reopened, source, cap, pub, branch, faults>>

Sweeps == sweeping /\ UNCHANGED <<offer, reopened, status, job, branch, outlived>>

\* Mutant: files are removed, directories stay.
RemovableFile(p) == source[p] \notin {"none", "dir"}

Removable(p) == source[p] # "none" /\ \A q \in Paths : Parent[q] = p => source[q] = "none"

\* shutil.rmtree removes a file or a directory that it has emptied.
Sweep ==
    /\ Sweeps
    /\ \E p \in Paths : Removable(p) /\ source' = [source EXCEPT ![p] = "none"]
    /\ UNCHANGED <<cap, pub, sweeping, faults>>

SweepFails ==
    /\ Sweeps /\ Fault
    /\ sweeping' = FALSE
    /\ UNCHANGED <<source, cap, pub>>

Crash ==
    /\ cap.pc # "idle" \/ pub.pc # "idle" \/ sweeping
    /\ Fault
    /\ cap' = NoCap /\ pub' = NoPub /\ sweeping' = FALSE
    /\ UNCHANGED <<offer, reopened, status, source, job, branch, outlived>>

Next ==
    \/ CaptureBegin \/ CaptureFails \/ ListPage \/ ReadSource \/ ReadManifest
    \/ CheckOutput \/ WriteFile \/ Verdict \/ Steer
    \/ PubBegin \/ PubRead \/ PubCreate \/ PubTree \/ PubRef \/ PubFails
    \/ Expire \/ Sweep \/ SweepFails \/ Crash

\* A removal goes on unless it fails.
Spec == Init /\ [][Next]_vars /\ WF_vars(Sweep)

-----------------------------------------------------------------------------
(* Properties.                                                             *)

\* Every variable keeps to the values the code gives it.
TypeOK ==
    /\ offer \in Offers /\ {reopened, sweeping, outlived} \subseteq BOOLEAN
    /\ status \in {"running", "completed", "failed", "deleted"}
    /\ source \in [Paths -> Texts \cup {"none", "dir"}]
    /\ cap.pc \in {"idle", "list", "source", "manifest", "check", "write", "verdict"}
    /\ cap.offer \in Offers
    /\ cap.got \in [source: 0..MaxBytes, manifest: 0..MaxManifest]
    /\ job.phase \in {"none", "prepared", "created", "committed", "complete"}
    /\ pub.pc \in {"idle", "read", "commit", "ref"}
    /\ job.tree \cup pub.tree \cup pub.files \cup branch \subseteq Paths \X Texts
    /\ faults \in 0..MaxFaults

AddSize(n, e) == IF e.kind = "file" THEN n + e.size ELSE n

\* What the loops of extract_source are to let through.
Safe(archive) ==
    /\ Len(archive) <= MaxFiles
    /\ \A i \in DOMAIN archive : archive[i].path \in Paths /\ archive[i].kind # "link"
    /\ FoldLeft(AddSize, 0, archive) <= MaxBytes

FilePaths(o) == {o.archive[i].path : i \in Files(o.archive)}

\* What a session must have left for its task to be completed.
Acceptable(o) ==
    /\ {"source", "manifest"} \subseteq UNION ToSet(o.pages)
    /\ o.bytes <= MaxBytes /\ o.manifest_bytes <= MaxManifest /\ o.manifest
    /\ Safe(o.archive)
    /\ \A p \in FilePaths(o) : Parent[p] \notin FilePaths(o)

\* The tree the archive describes: for each path its last file.
Tree(o) ==
    LET last(p) == o.archive[Max({i \in Files(o.archive) : o.archive[i].path = p})] IN
    [p \in Paths |-> IF p \in FilePaths(o) THEN last(p).text
                     ELSE IF \E q \in FilePaths(o) : Parent[q] = p THEN "dir" ELSE "none"]

\* A download that the connection did not cut short is the whole artifact, an
\* artifact of exactly the limit included, and one that exceeds the limit is
\* never handed on as if it ended there (download_artifact).
DownloadWhole ==
    cap.pc \in {"check", "write"} /\ ~cap.cut =>
        cap.got.source = cap.offer.bytes /\ cap.got.manifest = cap.offer.manifest_bytes

\* No file is written before every entry of the archive, the later ones
\* included, has been found safe and the manifest valid (_capture,
\* extract_source): a rejected archive leaves nothing on the disk.
CheckedFirst ==
    [][WriteFile /\ source' # source => cap.offer.manifest /\ Safe(cap.offer.archive)]_vars

\* The verdict fits the output: a task is completed only with an acceptable
\* output, and one with an acceptable output fails only if a request failed
\* (_reconcile, paginate, download_artifact, extract_source).
VerdictFits ==
    ~reopened =>
        /\ status = "completed" => Acceptable(offer)
        /\ status = "failed" /\ faults = 0 => ~Acceptable(offer)

\* A completed task's source directory holds the files of its archive, after
\* captures cut off by crashes too; after a steer message files of an earlier
\* capture may be left beside them, never in their place (extract_source
\* writes into the directory that is there).
SourceIsArchive ==
    [][Verdict /\ status' = "completed" =>
          /\ \A p \in FilePaths(cap.offer) : source[p] = Tree(cap.offer)[p]
          /\ ~reopened => source = Tree(offer)]_vars

\* A published commit holds nothing but publishable files of the captured
\* archive, never a possible credential, and it holds all of them, whichever
\* attempts and crashes went before.  A publication that outlives its task may
\* read a directory that is being removed and miss some (publishable_files,
\* _publish, cleanup).
PublishedWhole ==
    LET due == {f \in FilesOf(Tree(offer)) : f[1] \notin Excluded /\ Parent[f[1]] \notin Excluded} IN
    branch # {} =>
        /\ \A f \in branch : f[2] # Secret
        /\ ~reopened => branch \subseteq due
        /\ ~reopened /\ ~outlived => branch = due

\* The directory of a deleted task goes, with what a capture cut off by a crash
\* has left in it, unless its removal fails or the daemon stops: then no row
\* names it any more and nobody removes it (cleanup).
DirectoryGoes == sweeping ~> ~sweeping \/ source = [p \in Paths |-> "none"]

=============================================================================
