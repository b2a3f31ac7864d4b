---------------------------- MODULE OutputProofs ----------------------------
(***************************************************************************)
(* Theorems about Output, for any outputs of sessions, of any size, any    *)
(* limits and any number of faults.                                        *)
(***************************************************************************)
EXTENDS Output, FiniteSetTheorems, NaturalsInduction, WellFoundedInduction, TLAPS

-----------------------------------------------------------------------------
(* The inductive invariant.                                                *)

Names == {"source", "manifest"}

Trees == SUBSET (Paths \X Texts)

CapPcs == {"idle", "list", "source", "manifest", "check", "write", "verdict"}
Phases == {"none", "prepared", "created", "committed", "complete"}

Captures ==
    [pc: CapPcs, offer: Offers, page: Nat, items: SUBSET Names,
     got: [source: 0..MaxBytes, manifest: 0..MaxManifest],
     cut: BOOLEAN, written: Nat, ok: BOOLEAN]

PublishJobs == [phase: Phases, tree: Trees]

Publishers ==
    [pc: {"idle", "read", "commit", "ref"}, phase: Phases, tree: Trees, todo: SUBSET Paths,
     files: Trees]

Types ==
    /\ offer \in Offers /\ reopened \in BOOLEAN /\ sweeping \in BOOLEAN /\ outlived \in BOOLEAN
    /\ status \in {"running", "completed", "failed", "deleted"}
    /\ source \in [Paths -> Texts \cup {"none", "dir"}]
    /\ cap \in Captures /\ job \in PublishJobs /\ pub \in Publishers /\ branch \in Trees
    /\ faults \in 0..MaxFaults

\* What _capture has found of the output when it comes to a step.
Captured ==
    LET o == cap.offer IN
    /\ cap.pc # "idle" => status = "running" /\ (~reopened => o = offer)
    /\ cap.pc = "verdict" <=> ~cap.ok
    /\ cap.pc = "list" => /\ cap.page \in 1..Len(o.pages)
                          /\ cap.items = UNION {o.pages[i] : i \in 1..cap.page - 1}
    /\ cap.pc \in {"source", "manifest", "check", "write"} => Names \subseteq UNION ToSet(o.pages)
    /\ cap.pc \in {"list", "source", "manifest", "check"} => cap.written = 0
    /\ cap.pc = "write" => ~cap.cut /\ o.manifest /\ Safe(o.archive)
    /\ faults = 0 => ~cap.cut

\* How far the downloads are.
Downloaded ==
    LET o == cap.offer IN
    /\ cap.pc = "list" => cap.got.source = 0
    /\ cap.pc \in {"list", "source"} => cap.got.manifest = 0 /\ ~cap.cut
    /\ cap.got.source <= o.bytes /\ cap.got.manifest <= o.manifest_bytes
    /\ cap.pc \in {"manifest", "check", "write"} /\ ~cap.cut => cap.got.source = o.bytes
    /\ cap.pc \in {"check", "write"} /\ ~cap.cut => cap.got.manifest = o.manifest_bytes

\* The files written so far are there, in their directories, and of each path the
\* last one; they are not in the way of each other.
InPlace ==
    LET a == cap.offer.archive
        done == {i \in Files(a) : i <= cap.written} IN
    cap.pc = "write" => \A i \in done :
        /\ source[a[i].path] \in Texts
        /\ Parent[a[i].path] # "top" => source[Parent[a[i].path]] = "dir"
        /\ (\A j \in done : a[j].path = a[i].path => j <= i) => source[a[i].path] = a[i].text

\* Whatever captures were cut off, the directory has nothing but what the archive
\* describes.
OnlyArchive ==
    ~reopened /\ status # "deleted" => \A p \in Paths :
        /\ source[p] \in Texts => p \in FilePaths(offer)
        /\ source[p] = "dir" => \E q \in FilePaths(offer) \cap Paths : Parent[q] = p

\* What a verdict means.
Judged ==
    ~reopened =>
        /\ status = "completed" => Acceptable(offer) /\ source = Tree(offer)
        /\ faults = 0 /\ (cap.pc = "verdict" \/ status = "failed") => ~Acceptable(offer)

\* Only the directory of a deleted task is removed, and outlives it.
Retained == sweeping \/ outlived => status = "deleted"

\* What is to be published of an output.
Due(o) == {f \in FilesOf(Tree(o)) : f[1] \notin Excluded /\ Parent[f[1]] \notin Excluded}

\* What the publisher reads and has read.
Reading ==
    pub.pc # "idle" =>
        /\ status \in {"completed", "deleted"}
        /\ status = "deleted" => outlived
        /\ ~reopened => \A p \in Paths : source[p] \in {"none", Tree(offer)[p]}
        /\ ~reopened /\ ~outlived =>
              /\ pub.pc = "read" => \A f \in Due(offer) : f[1] \in pub.todo \/ f \in pub.files
              /\ pub.pc # "read" => pub.files = Due(offer)

\* What it has journaled and committed.
Published ==
    /\ \A f \in job.tree \cup pub.tree \cup pub.files \cup branch : f[2] # Secret
    /\ ~reopened => job.tree \cup pub.tree \cup pub.files \cup branch \subseteq Due(offer)
    /\ ~reopened /\ ~outlived => {job.tree, pub.tree, branch} \subseteq {{}, Due(offer)}

IndInv ==
    /\ Types /\ Captured /\ Downloaded /\ InPlace /\ OnlyArchive /\ Judged
    /\ Retained /\ Reading /\ Published

-----------------------------------------------------------------------------
(* Induction over data.  The induction theorems of the library take a      *)
(* predicate; these take a set.                                            *)

\* A set with 0 and the successor of each of its elements below n.
LEMMA SetInduction ==
    ASSUME NEW n \in Nat, NEW S, 0 \in S, \A k \in 1..n : k - 1 \in S => k \in S
    PROVE  \A k \in 0..n : k \in S
<1> DEFINE T == {k \in 0..n : k \notin S}
<1> SUFFICES ASSUME T # {} PROVE FALSE
  OBVIOUS
<1>1. T \subseteq Nat
  OBVIOUS
<1>2. PICK m \in T : \A k \in T : <<k, m>> \notin OpToRel(<, Nat)
  BY <1>1, NatLessThanWellFounded, WFMin, Zenon
<1>3. \A k \in T : ~(k < m)
  BY <1>1, <1>2, Zenon DEF OpToRel
<1>4. m \in 1..n /\ m - 1 \in 0..n /\ m - 1 < m
  OBVIOUS
<1>5. m - 1 \in S
  BY <1>3, <1>4
<1> QED BY <1>4, <1>5

\* The least and the greatest of a set of numbers up to n.
LEMMA MinMax ==
    ASSUME NEW n \in Nat, NEW S \in SUBSET (0..n), S # {}
    PROVE  /\ Min(S) \in S /\ \A k \in S : Min(S) <= k
           /\ Max(S) \in S /\ \A k \in S : k <= Max(S)
<1>0. S \subseteq Nat
  OBVIOUS
<1>1. PICK m \in S : \A k \in S : <<k, m>> \notin OpToRel(<, Nat)
  BY <1>0, NatLessThanWellFounded, WFMin, Zenon
<1>2. \A k \in S : ~(k < m)
  BY <1>0, <1>1, Zenon DEF OpToRel
<1>3. Min(S) \in S /\ \A k \in S : Min(S) <= k
  <2>1. \A k \in S : m <= k
    BY <1>0, <1>2
  <2> QED BY <2>1 DEF Min
<1> DEFINE R == {n - k : k \in S}
<1>4. R \subseteq Nat /\ R # {}
  <2>1. \A k \in S : n - k \in Nat
    OBVIOUS
  <2> QED BY <2>1, Zenon
<1>5. PICK r \in R : \A k \in R : <<k, r>> \notin OpToRel(<, Nat)
  BY <1>4, NatLessThanWellFounded, WFMin, Zenon
<1>6. \A k \in R : ~(k < r)
  BY <1>4, <1>5, Zenon DEF OpToRel
<1>7. PICK g \in S : r = n - g
  OBVIOUS
<1>8. \A k \in S : n - k \in R
  OBVIOUS
<1>9. \A k \in S : k <= g
  BY <1>6, <1>7, <1>8
<1>10. Max(S) \in S /\ \A k \in S : k <= Max(S)
  BY <1>9 DEF Max
<1> QED BY <1>3, <1>10

\* h goes through sets of numbers up to n from the greatest of them.
Solves(h, n, base, step) ==
    \A s \in SUBSET (1..n) :
        h[s] = IF s = {} THEN base ELSE step[<<h[s \ {Max(s)}], Max(s)>>]

\* A function on the sets of numbers up to n that is defined by recursion on the
\* greatest of them exists, as the one in the definition of a fold.
LEMMA Recursion ==
    ASSUME NEW n \in Nat, NEW T, NEW base \in T, NEW step \in [T \X (1..n) -> T]
    PROVE  \E h \in [SUBSET (1..n) -> T] : Solves(h, n, base, step)
<1> USE DEF Solves
<1> DEFINE S == {k \in 0..n : \E h \in [SUBSET (1..k) -> T] : Solves(h, k, base, step)}
<1>1. 0 \in S
  <2> DEFINE h == [s \in SUBSET (1..0) |-> base]
  <2>1. h \in [SUBSET (1..0) -> T]
    OBVIOUS
  <2>2. \A s \in SUBSET (1..0) : s = {} /\ h[s] = base
    OBVIOUS
  <2> HIDE DEF h
  <2>3. Solves(h, 0, base, step)
    BY <2>2
  <2>4. 0 \in 0..n
    OBVIOUS
  <2> QED BY <2>1, <2>3, <2>4
<1>2. ASSUME NEW k \in 1..n, k - 1 \in S PROVE k \in S
  <2>1. PICK g \in [SUBSET (1..k - 1) -> T] : Solves(g, k - 1, base, step)
    BY <1>2
  <2>2. \A s \in SUBSET (1..k) : s \ {k} \in SUBSET (1..k - 1) /\ (k \notin s => s \in SUBSET (1..k - 1))
    OBVIOUS
  <2> DEFINE h == [s \in SUBSET (1..k) |-> IF k \in s THEN step[<<g[s \ {k}], k>>] ELSE g[s]]
  <2>3. h \in [SUBSET (1..k) -> T]
    <3>1. ASSUME NEW s \in SUBSET (1..k), k \in s PROVE step[<<g[s \ {k}], k>>] \in T
      <4>1. g[s \ {k}] \in T
        BY <2>2
      <4> QED BY <4>1
    <3>2. ASSUME NEW s \in SUBSET (1..k), k \notin s PROVE g[s] \in T
      BY <2>2, <3>2
    <3>3. \A s \in SUBSET (1..k) : (IF k \in s THEN step[<<g[s \ {k}], k>>] ELSE g[s]) \in T
      BY <3>1, <3>2, Zenon
    <3> QED BY <3>3, Zenon
  <2>4. ASSUME NEW s \in SUBSET (1..k)
        PROVE  h[s] = IF s = {} THEN base ELSE step[<<h[s \ {Max(s)}], Max(s)>>]
    <3>1. CASE k \in s
      <4>1. s \in SUBSET (0..k) /\ s # {} /\ k \in Nat
        BY <3>1
      <4>2. PICK m \in s : m = Max(s) /\ k <= m
        BY <3>1, <4>1, MinMax
      <4>3. Max(s) = k
        BY <4>2
      <4>4. s \ {k} \in SUBSET (1..k) /\ k \notin s \ {k}
        OBVIOUS
      <4>5. h[s \ {k}] = g[s \ {k}]
        BY <4>4
      <4>6. h[s] = step[<<g[s \ {k}], k>>]
        BY <3>1
      <4> QED BY <4>1, <4>3, <4>5, <4>6, Zenon
    <3>2. CASE k \notin s
      <4>1. h[s] = g[s] /\ s \in SUBSET (1..k - 1)
        BY <2>2, <3>2
      <4>2. h[s] = IF s = {} THEN base ELSE step[<<g[s \ {Max(s)}], Max(s)>>]
        BY <2>1, <4>1
      <4>3. s \ {Max(s)} \in SUBSET (1..k) /\ k \notin s \ {Max(s)}
        BY <3>2
      <4>4. h[s \ {Max(s)}] = g[s \ {Max(s)}]
        BY <4>3
      <4> QED BY <4>2, <4>4
    <3> QED BY <3>1, <3>2
  <2> HIDE DEF h
  <2>5. k \in 0..n /\ Solves(h, k, base, step)
    BY <2>4
  <2> QED BY <2>3, <2>5
<1> HIDE DEF S
<1>3. \A k \in 0..n : k \in S
  BY <1>1, <1>2, SetInduction
<1>4. n \in S
  BY <1>3
<1> QED BY <1>4 DEF S

\* The greatest of the numbers up to k.
LEMMA MaxOfInterval ==
    ASSUME NEW k \in Nat, k # 0
    PROVE  Max(1..k) = k
<1>1. PICK m \in 1..k : m = Max(1..k) /\ k <= m
  BY MinMax, 1..k \in SUBSET (0..k), k \in 1..k
<1> QED BY <1>1

-----------------------------------------------------------------------------
(* The loops of extract_source.                                            *)

Counts == [index: Nat, files: Nat, total: Nat, ok: BOOLEAN]

\* What each entry adds to what has been counted.
LEMMA EntryFacts ==
    ASSUME NEW v \in Counts, NEW e \in Entries
    PROVE  /\ ZipEntry(v, e) \in Counts /\ TarEntry(v, e) \in Counts
           /\ ZipEntry(v, e).index = v.index + 1
           /\ ZipEntry(v, e).files \in {v.files, v.files + 1}
           /\ ZipEntry(v, e).total = AddSize(v.total, e)
           /\ TarEntry(v, e).index = v.index + 1
           /\ TarEntry(v, e).total = AddSize(v.total, e)
           /\ ZipEntry(v, e).ok <=>
                 /\ v.ok /\ AddSize(v.total, e) <= MaxBytes
                 /\ e.path \in Paths /\ e.kind # "link" /\ ~(v.files >= MaxFiles /\ e.kind # "dir")
           /\ TarEntry(v, e).ok <=>
                 /\ v.ok /\ AddSize(v.total, e) <= MaxBytes
                 /\ v.index < MaxFiles /\ e.path \in Paths /\ e.kind # "link"
           /\ AddSize(v.total, e) \in Nat
<1> DEFINE t == Counted(v, e)
           z == ZipEntry(v, e)
           r == TarEntry(v, e)
<1>1. /\ v.index \in Nat /\ v.files \in Nat /\ v.total \in Nat /\ v.ok \in BOOLEAN
      /\ e.size \in Nat
  BY DEF Counts, Entries
<1>2. AddSize(v.total, e) = v.total + (IF e.kind = "file" THEN e.size ELSE 0)
  BY <1>1 DEF AddSize
<1>3. AddSize(v.total, e) \in Nat
  BY <1>1, <1>2
<1>4. t = [index |-> v.index + 1, files |-> v.files + (IF e.kind = "file" THEN 1 ELSE 0),
           total |-> AddSize(v.total, e), ok |-> v.ok /\ AddSize(v.total, e) <= MaxBytes]
  BY <1>2, Zenon DEF Counted
<1> HIDE DEF t
<1>5. /\ t.index = v.index + 1 /\ t.files = v.files + (IF e.kind = "file" THEN 1 ELSE 0)
      /\ t.total = AddSize(v.total, e) /\ t.ok = (v.ok /\ AddSize(v.total, e) <= MaxBytes)
  BY <1>4
<1>6. t.ok \in BOOLEAN
  BY <1>5, Zenon
<1>7. t \in Counts
  BY <1>1, <1>3, <1>4, <1>5, <1>6 DEF Counts
<1>8. z = [t EXCEPT !.ok = /\ t.ok /\ e.path \in Paths /\ e.kind # "link"
                           /\ ~(v.files >= MaxFiles /\ e.kind # "dir")]
  BY DEF ZipEntry, t
<1>9. r = [t EXCEPT !.ok = t.ok /\ v.index < MaxFiles /\ e.path \in Paths /\ e.kind # "link"]
  BY DEF TarEntry, t
<1> HIDE DEF z, r
<1>10. z \in Counts /\ r \in Counts
  BY <1>7, <1>8, <1>9 DEF Counts
<1>11. /\ \A u \in {z, r} : u.index = t.index /\ u.files = t.files /\ u.total = t.total
       /\ z.ok <=> t.ok /\ e.path \in Paths /\ e.kind # "link"
                   /\ ~(v.files >= MaxFiles /\ e.kind # "dir")
       /\ r.ok <=> t.ok /\ v.index < MaxFiles /\ e.path \in Paths /\ e.kind # "link"
  BY <1>7, <1>8, <1>9 DEF Counts
<1>12. t.files \in {v.files, v.files + 1}
  BY <1>1, <1>5
<1>13. t.ok <=> v.ok /\ AddSize(v.total, e) <= MaxBytes
  BY <1>5
<1>14. /\ z.index = v.index + 1 /\ z.files \in {v.files, v.files + 1}
       /\ z.total = AddSize(v.total, e)
       /\ r.index = v.index + 1 /\ r.total = AddSize(v.total, e)
  BY <1>5, <1>11, <1>12
<1> QED BY <1>3, <1>10, <1>11, <1>13, <1>14 DEF z, r

\* Sums of sizes are numbers.
LEMMA SizeFacts ==
    ASSUME NEW m \in Nat, NEW e \in Entries
    PROVE  AddSize(m, e) \in Nat /\ AddSize(m, e) >= m
BY DEF AddSize, Entries


\* The fold over a zip goes through the entries one by one.
LEMMA ZipFold ==
    ASSUME NEW a \in Seq(Entries)
    PROVE  \E g : /\ g[0] = Start /\ \A k \in 1..Len(a) : g[k] = ZipEntry(g[k - 1], a[k])
                 /\ FoldLeft(ZipEntry, Start, a) = g[Len(a)]
<1> DEFINE n == Len(a)
           step == [p \in Counts \X (1..n) |-> ZipEntry(p[1], a[p[2]])]
           Equation(h) == h = [s \in SUBSET DOMAIN a |->
                                 IF s = {} THEN Start ELSE ZipEntry(h[s \ {Max(s)}], a[Max(s)])]
           iter == CHOOSE h : Equation(h)
<1>1. n \in Nat /\ DOMAIN a = 1..n /\ \A i \in 1..n : a[i] \in Entries
  OBVIOUS
<1> HIDE DEF n
<1>2. \A v \in Counts, e \in Entries : ZipEntry(v, e) \in Counts
  BY EntryFacts
<1>3. step \in [Counts \X (1..n) -> Counts] /\ Start \in Counts
  <2>1. Start \in Counts
    BY DEF Start, Counts
  <2>2. \A p \in Counts \X (1..n) : ZipEntry(p[1], a[p[2]]) \in Counts
    BY <1>1, <1>2
  <2> QED BY <2>1, <2>2, Zenon
<1>4. \A v \in Counts, i \in 1..n : step[<<v, i>>] = ZipEntry(v, a[i])
  OBVIOUS
<1> HIDE DEF step
<1>5. PICK h \in [SUBSET (1..n) -> Counts] : Solves(h, n, Start, step)
  BY <1>1, <1>3, Recursion, Zenon
<1>6. \A s \in SUBSET (1..n) :
          h[s] = IF s = {} THEN Start ELSE ZipEntry(h[s \ {Max(s)}], a[Max(s)])
  <2>1. ASSUME NEW s \in SUBSET (1..n), s # {} PROVE Max(s) \in 1..n /\ h[s \ {Max(s)}] \in Counts
    <3>1. s \in SUBSET (0..n)
      BY <1>1
    <3>2. Max(s) \in s
      BY <1>1, <2>1, <3>1, MinMax
    <3> QED BY <1>5, <3>2
  <2> QED BY <1>4, <1>5, <2>1, Zenon DEF Solves
<1>7. h = [s \in SUBSET (1..n) |-> h[s]]
  BY <1>5
<1>8. Equation(h)
  BY <1>1, <1>6, <1>7, Zenon
<1>9. Equation(iter) /\ FoldLeft(ZipEntry, Start, a) = iter[DOMAIN a]
  BY <1>8, Zenon DEF FoldLeft, MapThenFoldSet
<1>10. \A s \in SUBSET (1..n) :
           iter[s] = IF s = {} THEN Start ELSE ZipEntry(iter[s \ {Max(s)}], a[Max(s)])
  BY <1>1, <1>9, Zenon
<1> HIDE DEF iter
<1> DEFINE g == [k \in 0..n |-> iter[1..k]]
<1>11. g[0] = Start /\ g[n] = FoldLeft(ZipEntry, Start, a)
  <2>1. 1..0 = {} /\ {} \in SUBSET (1..n) /\ 0 \in 0..n /\ n \in 0..n
    BY <1>1
  <2>2. iter[{}] = Start
    BY <1>10, <2>1, Zenon
  <2> QED BY <1>1, <1>9, <2>1, <2>2
<1>12. ASSUME NEW k \in 1..n PROVE g[k] = ZipEntry(g[k - 1], a[k])
  <2>1. 1..k \in SUBSET (1..n) /\ 1..k # {} /\ Max(1..k) = k /\ (1..k) \ {k} = 1..k - 1
    <3>1. k \in Nat /\ k # 0 /\ k <= n
      BY <1>1
    <3>2. Max(1..k) = k
      BY <3>1, MaxOfInterval
    <3>3. 1..k \in SUBSET (1..n) /\ k \in 1..k /\ (1..k) \ {k} = 1..k - 1
      BY <1>1
    <3> QED BY <3>2, <3>3
  <2>2. iter[1..k] = ZipEntry(iter[1..k - 1], a[k])
    BY <1>10, <2>1, Zenon
  <2>3. g[k] = iter[1..k] /\ g[k - 1] = iter[1..k - 1]
    BY <1>1
  <2> QED BY <2>2, <2>3, Zenon
<1> HIDE DEF g
<1> QED BY <1>11, <1>12 DEF n


\* So does the one over a tar.
LEMMA TarFold ==
    ASSUME NEW a \in Seq(Entries)
    PROVE  \E g : /\ g[0] = Start /\ \A k \in 1..Len(a) : g[k] = TarEntry(g[k - 1], a[k])
                 /\ FoldLeft(TarEntry, Start, a) = g[Len(a)]
<1> DEFINE n == Len(a)
           step == [p \in Counts \X (1..n) |-> TarEntry(p[1], a[p[2]])]
           Equation(h) == h = [s \in SUBSET DOMAIN a |->
                                 IF s = {} THEN Start ELSE TarEntry(h[s \ {Max(s)}], a[Max(s)])]
           iter == CHOOSE h : Equation(h)
<1>1. n \in Nat /\ DOMAIN a = 1..n /\ \A i \in 1..n : a[i] \in Entries
  OBVIOUS
<1> HIDE DEF n
<1>2. \A v \in Counts, e \in Entries : TarEntry(v, e) \in Counts
  BY EntryFacts
<1>3. step \in [Counts \X (1..n) -> Counts] /\ Start \in Counts
  <2>1. Start \in Counts
    BY DEF Start, Counts
  <2>2. \A p \in Counts \X (1..n) : TarEntry(p[1], a[p[2]]) \in Counts
    BY <1>1, <1>2
  <2> QED BY <2>1, <2>2, Zenon
<1>4. \A v \in Counts, i \in 1..n : step[<<v, i>>] = TarEntry(v, a[i])
  OBVIOUS
<1> HIDE DEF step
<1>5. PICK h \in [SUBSET (1..n) -> Counts] : Solves(h, n, Start, step)
  BY <1>1, <1>3, Recursion, Zenon
<1>6. \A s \in SUBSET (1..n) :
          h[s] = IF s = {} THEN Start ELSE TarEntry(h[s \ {Max(s)}], a[Max(s)])
  <2>1. ASSUME NEW s \in SUBSET (1..n), s # {} PROVE Max(s) \in 1..n /\ h[s \ {Max(s)}] \in Counts
    <3>1. s \in SUBSET (0..n)
      BY <1>1
    <3>2. Max(s) \in s
      BY <1>1, <2>1, <3>1, MinMax
    <3> QED BY <1>5, <3>2
  <2> QED BY <1>4, <1>5, <2>1, Zenon DEF Solves
<1>7. h = [s \in SUBSET (1..n) |-> h[s]]
  BY <1>5
<1>8. Equation(h)
  BY <1>1, <1>6, <1>7, Zenon
<1>9. Equation(iter) /\ FoldLeft(TarEntry, Start, a) = iter[DOMAIN a]
  BY <1>8, Zenon DEF FoldLeft, MapThenFoldSet
<1>10. \A s \in SUBSET (1..n) :
           iter[s] = IF s = {} THEN Start ELSE TarEntry(iter[s \ {Max(s)}], a[Max(s)])
  BY <1>1, <1>9, Zenon
<1> HIDE DEF iter
<1> DEFINE g == [k \in 0..n |-> iter[1..k]]
<1>11. g[0] = Start /\ g[n] = FoldLeft(TarEntry, Start, a)
  <2>1. 1..0 = {} /\ {} \in SUBSET (1..n) /\ 0 \in 0..n /\ n \in 0..n
    BY <1>1
  <2>2. iter[{}] = Start
    BY <1>10, <2>1, Zenon
  <2> QED BY <1>1, <1>9, <2>1, <2>2
<1>12. ASSUME NEW k \in 1..n PROVE g[k] = TarEntry(g[k - 1], a[k])
  <2>1. 1..k \in SUBSET (1..n) /\ 1..k # {} /\ Max(1..k) = k /\ (1..k) \ {k} = 1..k - 1
    <3>1. k \in Nat /\ k # 0 /\ k <= n
      BY <1>1
    <3>2. Max(1..k) = k
      BY <3>1, MaxOfInterval
    <3>3. 1..k \in SUBSET (1..n) /\ k \in 1..k /\ (1..k) \ {k} = 1..k - 1
      BY <1>1
    <3> QED BY <3>2, <3>3
  <2>2. iter[1..k] = TarEntry(iter[1..k - 1], a[k])
    BY <1>10, <2>1, Zenon
  <2>3. g[k] = iter[1..k] /\ g[k - 1] = iter[1..k - 1]
    BY <1>1
  <2> QED BY <2>2, <2>3, Zenon
<1> HIDE DEF g
<1> QED BY <1>11, <1>12 DEF n


\* So does the sum of the sizes.
LEMMA SizeFold ==
    ASSUME NEW a \in Seq(Entries)
    PROVE  \E g : /\ g[0] = 0 /\ \A k \in 1..Len(a) : g[k] = AddSize(g[k - 1], a[k])
                 /\ FoldLeft(AddSize, 0, a) = g[Len(a)]
<1> DEFINE n == Len(a)
           step == [p \in Nat \X (1..n) |-> AddSize(p[1], a[p[2]])]
           Equation(h) == h = [s \in SUBSET DOMAIN a |->
                                 IF s = {} THEN 0 ELSE AddSize(h[s \ {Max(s)}], a[Max(s)])]
           iter == CHOOSE h : Equation(h)
<1>1. n \in Nat /\ DOMAIN a = 1..n /\ \A i \in 1..n : a[i] \in Entries
  OBVIOUS
<1> HIDE DEF n
<1>2. \A v \in Nat, e \in Entries : AddSize(v, e) \in Nat
  BY SizeFacts
<1>3. step \in [Nat \X (1..n) -> Nat] /\ 0 \in Nat
  <2>1. 0 \in Nat
    BY DEF Start, Counts
  <2>2. \A p \in Nat \X (1..n) : AddSize(p[1], a[p[2]]) \in Nat
    BY <1>1, <1>2
  <2> QED BY <2>1, <2>2, Zenon
<1>4. \A v \in Nat, i \in 1..n : step[<<v, i>>] = AddSize(v, a[i])
  OBVIOUS
<1> HIDE DEF step
<1>5. PICK h \in [SUBSET (1..n) -> Nat] : Solves(h, n, 0, step)
  BY <1>1, <1>3, Recursion, Zenon
<1>6. \A s \in SUBSET (1..n) :
          h[s] = IF s = {} THEN 0 ELSE AddSize(h[s \ {Max(s)}], a[Max(s)])
  <2>1. ASSUME NEW s \in SUBSET (1..n), s # {} PROVE Max(s) \in 1..n /\ h[s \ {Max(s)}] \in Nat
    <3>1. s \in SUBSET (0..n)
      BY <1>1
    <3>2. Max(s) \in s
      BY <1>1, <2>1, <3>1, MinMax
    <3> QED BY <1>5, <3>2
  <2> QED BY <1>4, <1>5, <2>1, Zenon DEF Solves
<1>7. h = [s \in SUBSET (1..n) |-> h[s]]
  BY <1>5
<1>8. Equation(h)
  BY <1>1, <1>6, <1>7, Zenon
<1>9. Equation(iter) /\ FoldLeft(AddSize, 0, a) = iter[DOMAIN a]
  BY <1>8, Zenon DEF FoldLeft, MapThenFoldSet
<1>10. \A s \in SUBSET (1..n) :
           iter[s] = IF s = {} THEN 0 ELSE AddSize(iter[s \ {Max(s)}], a[Max(s)])
  BY <1>1, <1>9, Zenon
<1> HIDE DEF iter
<1> DEFINE g == [k \in 0..n |-> iter[1..k]]
<1>11. g[0] = 0 /\ g[n] = FoldLeft(AddSize, 0, a)
  <2>1. 1..0 = {} /\ {} \in SUBSET (1..n) /\ 0 \in 0..n /\ n \in 0..n
    BY <1>1
  <2>2. iter[{}] = 0
    BY <1>10, <2>1, Zenon
  <2> QED BY <1>1, <1>9, <2>1, <2>2
<1>12. ASSUME NEW k \in 1..n PROVE g[k] = AddSize(g[k - 1], a[k])
  <2>1. 1..k \in SUBSET (1..n) /\ 1..k # {} /\ Max(1..k) = k /\ (1..k) \ {k} = 1..k - 1
    <3>1. k \in Nat /\ k # 0 /\ k <= n
      BY <1>1
    <3>2. Max(1..k) = k
      BY <3>1, MaxOfInterval
    <3>3. 1..k \in SUBSET (1..n) /\ k \in 1..k /\ (1..k) \ {k} = 1..k - 1
      BY <1>1
    <3> QED BY <3>2, <3>3
  <2>2. iter[1..k] = AddSize(iter[1..k - 1], a[k])
    BY <1>10, <2>1, Zenon
  <2>3. g[k] = iter[1..k] /\ g[k - 1] = iter[1..k - 1]
    BY <1>1
  <2> QED BY <2>2, <2>3, Zenon
<1> HIDE DEF g
<1> QED BY <1>11, <1>12 DEF n

\* An entry that may be extracted.
Fits(e) == e.path \in Paths /\ e.kind # "link"

\* The constants.
LEMMA Limits ==
    /\ {Chunk, MaxBytes, MaxManifest, MaxFiles} \subseteq Nat \ {0} /\ MaxFaults \in Nat
    /\ Chunk \in Nat \ {0} /\ MaxBytes \in Nat \ {0} /\ MaxManifest \in Nat \ {0}
    /\ MaxFiles \in Nat \ {0}
BY OutputAssumption

\* Nothing is counted at first.
LEMMA StartFacts ==
    Start \in Counts /\ Start.index = 0 /\ Start.files = 0 /\ Start.total = 0 /\ Start.ok
BY DEF Start, Counts

\* A zip gets through the loop if it is safe, and only then.
LEMMA ZipPasses ==
    ASSUME NEW a \in Seq(Entries)
    PROVE  Len(a) <= MaxFiles /\ FoldLeft(ZipEntry, Start, a).ok <=> Safe(a)
<1> DEFINE n == Len(a)
<1>1. n \in Nat /\ DOMAIN a = 1..n /\ \A i \in 1..n : a[i] \in Entries
  OBVIOUS
<1>2. PICK g : /\ g[0] = Start /\ \A k \in 1..Len(a) : g[k] = ZipEntry(g[k - 1], a[k])
               /\ FoldLeft(ZipEntry, Start, a) = g[Len(a)]
  BY ZipFold
<1>3. PICK m : /\ m[0] = 0 /\ \A k \in 1..Len(a) : m[k] = AddSize(m[k - 1], a[k])
               /\ FoldLeft(AddSize, 0, a) = m[Len(a)]
  BY SizeFold
<1>4. CASE n <= MaxFiles
  <2> DEFINE S == {k \in 0..n :
                     /\ g[k] \in Counts /\ g[k].index = k /\ g[k].files <= k
                     /\ g[k].total = m[k] /\ m[k] \in Nat
                     /\ g[k].ok <=> m[k] <= MaxBytes /\ \A i \in 1..k : Fits(a[i])}
  <2>1. 0 \in S
    BY <1>1, <1>2, <1>3, StartFacts, Limits
  <2>2. ASSUME NEW k \in 1..n, k - 1 \in S PROVE k \in S
    <3> DEFINE v == g[k - 1]
               e == a[k]
    <3>1. /\ v \in Counts /\ v.index = k - 1 /\ v.files <= k - 1 /\ v.total = m[k - 1]
          /\ m[k - 1] \in Nat
          /\ v.ok <=> m[k - 1] <= MaxBytes /\ \A i \in 1..k - 1 : Fits(a[i])
      BY <2>2
    <3>2. e \in Entries /\ g[k] = ZipEntry(v, e) /\ m[k] = AddSize(m[k - 1], e)
      BY <1>1, <1>2, <1>3
    <3> HIDE DEF v, e
    <3>3. /\ g[k] \in Counts /\ g[k].index = v.index + 1 /\ g[k].files \in {v.files, v.files + 1}
          /\ g[k].total = AddSize(v.total, e)
          /\ g[k].ok <=> /\ v.ok /\ AddSize(v.total, e) <= MaxBytes
                         /\ e.path \in Paths /\ e.kind # "link"
                         /\ ~(v.files >= MaxFiles /\ e.kind # "dir")
      <4>1. v \in Counts /\ e \in Entries
        BY <3>1, <3>2
      <4>2. /\ ZipEntry(v, e) \in Counts /\ ZipEntry(v, e).index = v.index + 1
            /\ ZipEntry(v, e).files \in {v.files, v.files + 1}
            /\ ZipEntry(v, e).total = AddSize(v.total, e)
            /\ ZipEntry(v, e).ok <=>
                  /\ v.ok /\ AddSize(v.total, e) <= MaxBytes
                  /\ e.path \in Paths /\ e.kind # "link" /\ ~(v.files >= MaxFiles /\ e.kind # "dir")
        BY <4>1, EntryFacts, Zenon
      <4> QED BY <3>2, <4>2, Zenon
    <3>4. m[k] \in Nat /\ m[k] >= m[k - 1]
      BY <3>1, <3>2, SizeFacts
    <3>5. v.files \in Nat /\ v.files < MaxFiles
      BY <1>1, <1>4, <3>1, Limits DEF Counts
    <3>6. g[k].total = m[k] /\ g[k].index = k /\ g[k].files <= k
      BY <3>1, <3>2, <3>3, <3>5
    <3>7. g[k].ok <=> v.ok /\ m[k] <= MaxBytes /\ Fits(e)
      BY <3>1, <3>2, <3>3, <3>5, Limits DEF Fits
    <3>8. (\A i \in 1..k : Fits(a[i])) <=> (\A i \in 1..k - 1 : Fits(a[i])) /\ Fits(e)
      BY DEF e
    <3>9. m[k] <= MaxBytes => m[k - 1] <= MaxBytes
      BY <3>1, <3>4, Limits
    <3>10. g[k].ok <=> m[k] <= MaxBytes /\ \A i \in 1..k : Fits(a[i])
      BY <3>1, <3>7, <3>8, <3>9
    <3> QED BY <3>3, <3>4, <3>6, <3>10
  <2> HIDE DEF S, n
  <2>3. n \in S
    <3>1. \A k \in 0..n : k \in S
      BY <1>1, <2>1, <2>2, SetInduction
    <3> QED BY <1>1, <3>1
  <2>4. g[n].ok <=> m[n] <= MaxBytes /\ \A i \in 1..n : Fits(a[i])
    BY <2>3 DEF S
  <2> USE DEF n
  <2> QED BY <1>1, <1>2, <1>3, <1>4, <2>4 DEF Safe, Fits
<1>5. CASE ~(n <= MaxFiles)
  BY <1>5 DEF Safe
<1> QED BY <1>4, <1>5

\* So does a tar, whose entries are counted as they come.
LEMMA TarPasses ==
    ASSUME NEW a \in Seq(Entries)
    PROVE  FoldLeft(TarEntry, Start, a).ok <=> Safe(a)
<1> DEFINE n == Len(a)
<1>1. n \in Nat /\ DOMAIN a = 1..n /\ \A i \in 1..n : a[i] \in Entries
  OBVIOUS
<1>2. PICK g : /\ g[0] = Start /\ \A k \in 1..Len(a) : g[k] = TarEntry(g[k - 1], a[k])
               /\ FoldLeft(TarEntry, Start, a) = g[Len(a)]
  BY TarFold
<1>3. PICK m : /\ m[0] = 0 /\ \A k \in 1..Len(a) : m[k] = AddSize(m[k - 1], a[k])
               /\ FoldLeft(AddSize, 0, a) = m[Len(a)]
  BY SizeFold
<1> DEFINE S == {k \in 0..n :
                   /\ g[k] \in Counts /\ g[k].index = k
                   /\ g[k].total = m[k] /\ m[k] \in Nat
                   /\ g[k].ok <=> /\ m[k] <= MaxBytes /\ k <= MaxFiles
                                  /\ \A i \in 1..k : Fits(a[i])}
<1>4. 0 \in S
  BY <1>1, <1>2, <1>3, StartFacts, Limits
<1>5. ASSUME NEW k \in 1..n, k - 1 \in S PROVE k \in S
  <2> DEFINE v == g[k - 1]
             e == a[k]
  <2>1. /\ v \in Counts /\ v.index = k - 1 /\ v.total = m[k - 1] /\ m[k - 1] \in Nat
        /\ v.ok <=> /\ m[k - 1] <= MaxBytes /\ k - 1 <= MaxFiles
                    /\ \A i \in 1..k - 1 : Fits(a[i])
    BY <1>5
  <2>2. e \in Entries /\ g[k] = TarEntry(v, e) /\ m[k] = AddSize(m[k - 1], e)
    BY <1>1, <1>2, <1>3
  <2> HIDE DEF v, e
  <2>3. /\ g[k] \in Counts /\ g[k].index = v.index + 1
        /\ g[k].total = AddSize(v.total, e)
        /\ g[k].ok <=> /\ v.ok /\ AddSize(v.total, e) <= MaxBytes
                       /\ v.index < MaxFiles /\ e.path \in Paths /\ e.kind # "link"
    <3>1. v \in Counts /\ e \in Entries
      BY <2>1, <2>2
    <3>2. /\ TarEntry(v, e) \in Counts /\ TarEntry(v, e).index = v.index + 1
          /\ TarEntry(v, e).total = AddSize(v.total, e)
          /\ TarEntry(v, e).ok <=>
                /\ v.ok /\ AddSize(v.total, e) <= MaxBytes
                /\ v.index < MaxFiles /\ e.path \in Paths /\ e.kind # "link"
      BY <3>1, EntryFacts, Zenon
    <3> QED BY <2>2, <3>2, Zenon
  <2>4. m[k] \in Nat /\ m[k] >= m[k - 1]
    BY <2>1, <2>2, SizeFacts
  <2>5. g[k].total = m[k] /\ g[k].index = k
    BY <2>1, <2>2, <2>3
  <2>6. g[k].ok <=> v.ok /\ m[k] <= MaxBytes /\ k <= MaxFiles /\ Fits(e)
    BY <2>1, <2>2, <2>3, Limits DEF Fits
  <2>7. (\A i \in 1..k : Fits(a[i])) <=> (\A i \in 1..k - 1 : Fits(a[i])) /\ Fits(e)
    BY DEF e
  <2>8. (m[k] <= MaxBytes => m[k - 1] <= MaxBytes) /\ (k <= MaxFiles => k - 1 <= MaxFiles)
    BY <2>1, <2>4, Limits
  <2>9. g[k].ok <=> m[k] <= MaxBytes /\ k <= MaxFiles /\ \A i \in 1..k : Fits(a[i])
    BY <2>1, <2>6, <2>7, <2>8
  <2> QED BY <2>3, <2>4, <2>5, <2>9
<1> HIDE DEF S, n
<1>6. n \in S
  <2>1. \A k \in 0..n : k \in S
    BY <1>1, <1>4, <1>5, SetInduction
  <2> QED BY <1>1, <2>1
<1>7. g[n].ok <=> m[n] <= MaxBytes /\ n <= MaxFiles /\ \A i \in 1..n : Fits(a[i])
  BY <1>6 DEF S
<1> USE DEF n
<1> QED BY <1>1, <1>2, <1>3, <1>7 DEF Safe, Fits

\* The loops of extract_source let through the archives that are safe and no
\* others, in either format, whatever their length.
THEOREM PassesIsSafe == \A o \in Offers : Passes(o) <=> Safe(o.archive)
<1> SUFFICES ASSUME NEW o \in Offers PROVE Passes(o) <=> Safe(o.archive)
  OBVIOUS
<1>1. o.archive \in Seq(Entries)
  BY OutputAssumption DEF Outputs
<1> QED BY <1>1, ZipPasses, TarPasses DEF Passes

-----------------------------------------------------------------------------
(* Single steps.                                                           *)

\* The lesser of two numbers.
LEMMA MinTwo ==
    ASSUME NEW a \in Nat, NEW b \in Nat
    PROVE  Min({a, b}) \in {a, b} /\ Min({a, b}) <= a /\ Min({a, b}) <= b
<1>1. {a, b} \in SUBSET (0..(a + b)) /\ a + b \in Nat /\ {a, b} # {}
  OBVIOUS
<1> QED BY <1>1, MinMax

\* What an offer is.
LEMMA OfferFacts ==
    ASSUME NEW o \in Offers
    PROVE  /\ o.bytes \in Nat /\ o.manifest_bytes \in Nat /\ o.manifest \in BOOLEAN
           /\ o.archive \in Seq(Entries) /\ Len(o.archive) \in Nat
           /\ DOMAIN o.archive = 1..Len(o.archive)
           /\ \A i \in DOMAIN o.archive : o.archive[i] \in Entries
           /\ Len(o.pages) \in Nat \ {0} /\ DOMAIN o.pages = 1..Len(o.pages)
           /\ \A i \in 1..Len(o.pages) : o.pages[i] \in SUBSET Names
<1>1. o \in Outputs
  BY OutputAssumption
<1>2. /\ o.bytes \in Nat /\ o.manifest_bytes \in Nat /\ o.manifest \in BOOLEAN
      /\ o.archive \in Seq(Entries) /\ o.pages \in Seq(SUBSET Names) /\ o.pages # <<>>
  BY <1>1 DEF Outputs, Names
<1> DEFINE a == o.archive
           p == o.pages
<1>3. Len(a) \in Nat /\ DOMAIN a = 1..Len(a) /\ \A i \in DOMAIN a : a[i] \in Entries
  BY <1>2
<1>4. Len(p) \in Nat \ {0} /\ DOMAIN p = 1..Len(p) /\ \A i \in 1..Len(p) : p[i] \in SUBSET Names
  BY <1>2
<1> QED BY <1>2, <1>3, <1>4

\* How much is read, and when nothing is.
Amount(max, got, size) == Min({Ask(max, got), size - got})

\* Something is, until the end.
LEMMA AmountFacts ==
    ASSUME NEW max \in Nat, NEW got \in 0..max, NEW size \in Nat, got <= size
    PROVE  /\ Amount(max, got, size) \in Nat /\ got + Amount(max, got, size) <= size
           /\ Amount(max, got, size) = 0 <=> got = size
<1>1. Chunk \in Nat \ {0} /\ (max + 1) - got \in Nat \ {0} /\ size - got \in Nat
  BY Limits
<1> DEFINE k == (max + 1) - got
           l == size - got
           m == Min({Chunk, k})
           n == Amount(max, got, size)
<1>2. k \in Nat \ {0} /\ l \in Nat
  BY <1>1
<1> HIDE DEF k
<1>3. m \in Nat \ {0}
  BY <1>1, <1>2, MinTwo
<1>a. n = Min({m, l})
  BY DEF Ask, Amount, k
<1> HIDE DEF m, l, n
<1>4. n \in {m, l} /\ n <= l
  BY <1>a, <1>2, <1>3, MinTwo
<1>5. n \in Nat /\ n <= l /\ (n = 0 <=> l = 0)
  BY <1>2, <1>3, <1>4
<1>6. n \in Nat /\ got + n <= size /\ (n = 0 <=> got = size)
  BY <1>5 DEF l
<1> QED BY <1>6 DEF n

\* A turn of the loop of a download: it goes on, stops past the limit, ends, or
\* is cut off.
Reads(name, size, max, next) ==
    \/ \E k \in 0..max : k <= size /\ cap' = [cap EXCEPT !.got[name] = k] /\ faults' = faults
    \/ size > max /\ cap' = [cap EXCEPT !.pc = "verdict", !.ok = FALSE] /\ faults' = faults
    \/ cap.got[name] = size /\ cap' = [cap EXCEPT !.pc = next] /\ faults' = faults
    \/ cap' = [cap EXCEPT !.pc = next, !.cut = TRUE] /\ Fault

\* ReadChunk does one of these.
LEMMA ReadFacts ==
    ASSUME NEW name, NEW size \in Nat, NEW max \in Nat, NEW next,
           cap.got[name] \in 0..max, cap.got[name] <= size, ReadChunk(name, size, max, next)
    PROVE  Reads(name, size, max, next)
<1> DEFINE got == cap.got[name]
           n == Amount(max, got, size)
<1>1. n \in Nat /\ got + n <= size /\ (n = 0 <=> got = size) /\ got \in Nat
  <2>1. got \in 0..max /\ got <= size
    OBVIOUS
  <2> HIDE DEF got
  <2>2. n \in Nat /\ got + n <= size /\ (n = 0 <=> got = size)
    BY <2>1, AmountFacts
  <2> QED BY <2>1, <2>2
<1>2. \/ /\ n > 0
         /\ cap' = IF Over(max, got + n) THEN [cap EXCEPT !.pc = "verdict", !.ok = FALSE]
                   ELSE [cap EXCEPT !.got[name] = got + n]
         /\ faults' = faults
      \/ n = 0 /\ cap' = [cap EXCEPT !.pc = next] /\ faults' = faults
      \/ cap' = [cap EXCEPT !.pc = next, !.cut = TRUE] /\ Fault
  BY Zenon DEF ReadChunk, Amount
<1> HIDE DEF n
<1>3. CASE /\ n > 0
           /\ cap' = IF Over(max, got + n) THEN [cap EXCEPT !.pc = "verdict", !.ok = FALSE]
                     ELSE [cap EXCEPT !.got[name] = got + n]
           /\ faults' = faults
  <2>1. CASE got + n > max
    <3>1. size > max
      BY <1>1, <2>1
    <3> QED BY <1>3, <2>1, <3>1 DEF Over, Reads
  <2>2. CASE ~(got + n > max)
    <3>1. got + n \in 0..max
      BY <1>1, <2>2
    <3>2. cap' = [cap EXCEPT !.got[name] = got + n]
      BY <1>3, <2>2 DEF Over
    <3> QED BY <1>1, <1>3, <3>1, <3>2 DEF Reads
  <2> QED BY <2>1, <2>2
<1>4. CASE n = 0 /\ cap' = [cap EXCEPT !.pc = next] /\ faults' = faults
  BY <1>1, <1>4 DEF Reads
<1>5. CASE cap' = [cap EXCEPT !.pc = next, !.cut = TRUE] /\ Fault
  BY <1>5 DEF Reads
<1> QED BY <1>2, <1>3, <1>4, <1>5

\* The entry to be written next.
LEMMA LeftFacts ==
    ASSUME Types
    PROVE  LET a == cap.offer.archive IN
           /\ DOMAIN a = 1..Len(a) /\ \A i \in Files(a) : a[i] \in Entries
           /\ Left # {} => /\ Min(Left) \in Files(a) /\ Min(Left) > cap.written
                           /\ \A i \in Files(a) : i <= Min(Left) => i <= cap.written \/ i = Min(Left)
                           /\ Min(Left) \in Nat
<1> DEFINE a == cap.offer.archive
           n == Len(a)
<1>1. cap.offer \in Offers /\ cap.written \in Nat
  BY DEF Types, Captures
<1>2. n \in Nat /\ DOMAIN a = 1..n /\ \A i \in DOMAIN a : a[i] \in Entries
  BY <1>1, OfferFacts
<1>3. Files(a) \subseteq 1..n /\ Left = {i \in Files(a) : i > cap.written}
  BY <1>2 DEF Files, Left
<1> HIDE DEF a, n
<1>4. ASSUME Left # {}
      PROVE  /\ Min(Left) \in Files(a) /\ Min(Left) > cap.written /\ Min(Left) \in Nat
             /\ \A i \in Files(a) : i <= Min(Left) => i <= cap.written \/ i = Min(Left)
  <2>1. Left \in SUBSET (0..n)
    BY <1>2, <1>3
  <2>2. PICK m \in Left : m = Min(Left) /\ \A k \in Left : m <= k
    BY <1>2, <1>4, <2>1, MinMax
  <2>3. m \in Files(a) /\ m > cap.written /\ m \in Nat
    <3>1. m \in Files(a) /\ m > cap.written
      BY <1>3, <2>2
    <3>2. m \in 1..n
      BY <1>3, <3>1
    <3> QED BY <1>2, <3>1, <3>2
  <2>4. ASSUME NEW i \in Files(a), i <= m PROVE i <= cap.written \/ i = m
    BY <1>1, <1>2, <1>3, <2>2, <2>3, <2>4
  <2> QED BY <2>2, <2>3, <2>4
<1>5. \A i \in Files(a) : a[i] \in Entries
  BY <1>2 DEF Files
<1> QED BY <1>2, <1>4, <1>5 DEF a, n

-----------------------------------------------------------------------------
(* The variables keep their types.                                         *)

\* The types of the invariant are those of the module, and more.
LEMMA TypesSuffice == Types => TypeOK
<1> SUFFICES ASSUME Types PROVE TypeOK
  OBVIOUS
<1>1. cap.pc \in CapPcs /\ cap.offer \in Offers
      /\ cap.got \in [source: 0..MaxBytes, manifest: 0..MaxManifest]
  BY DEF Types, Captures
<1>2. job.phase \in Phases /\ pub.pc \in {"idle", "read", "commit", "ref"}
  BY DEF Types, PublishJobs, Publishers
<1>3. job.tree \in Trees /\ pub.tree \in Trees /\ pub.files \in Trees /\ branch \in Trees
  BY DEF Types, PublishJobs, Publishers
<1>4. job.tree \cup pub.tree \cup pub.files \cup branch \subseteq Paths \X Texts
  BY <1>3 DEF Trees
<1>5. /\ offer \in Offers /\ {reopened, sweeping, outlived} \subseteq BOOLEAN
      /\ status \in {"running", "completed", "failed", "deleted"}
      /\ source \in [Paths -> Texts \cup {"none", "dir"}] /\ faults \in 0..MaxFaults
  BY DEF Types
<1> QED BY <1>1, <1>2, <1>4, <1>5 DEF TypeOK, CapPcs, Phases

\* The fields of the records.
LEMMA FieldFacts ==
    ASSUME Types
    PROVE  /\ cap.pc \in CapPcs /\ cap.offer \in Offers /\ cap.page \in Nat
           /\ cap.items \in SUBSET Names /\ cap.cut \in BOOLEAN /\ cap.written \in Nat
           /\ cap.ok \in BOOLEAN /\ cap.got \in [source: 0..MaxBytes, manifest: 0..MaxManifest]
           /\ cap.got.source \in 0..MaxBytes /\ cap.got.manifest \in 0..MaxManifest
           /\ job.phase \in Phases /\ job.tree \in Trees
           /\ pub.pc \in {"idle", "read", "commit", "ref"} /\ pub.phase \in Phases
           /\ pub.tree \in Trees /\ pub.todo \in SUBSET Paths /\ pub.files \in Trees
BY DEF Types, Captures, PublishJobs, Publishers

\* Idle holders have their types, and a capture and a publication start from them.
LEMMA IdleFacts ==
    ASSUME Types
    PROVE  NoCap \in Captures /\ NoPub \in Publishers
<1>1. 0 \in 0..MaxBytes /\ 0 \in 0..MaxManifest /\ offer \in Offers
  BY Limits DEF Types
<1> QED BY <1>1 DEF NoCap, NoPub, Captures, Publishers, CapPcs, Phases, Trees

\* A fault is counted.
LEMMA FaultFacts ==
    ASSUME Types, Fault
    PROVE  faults' \in 0..MaxFaults /\ faults' > 0
BY Limits DEF Types, Fault

\* The steps of a capture, and what they leave alone.
CaptureStep ==
    \/ CaptureBegin \/ CaptureFails \/ ListPage \/ ReadSource \/ ReadManifest
    \/ CheckOutput \/ WriteFile \/ Verdict

\* They leave the publication and the retention alone.
LEMMA CaptureFrame ==
    ASSUME CaptureStep
    PROVE  UNCHANGED <<offer, reopened, job, pub, branch, sweeping, outlived>>
BY DEF CaptureStep, CaptureBegin, CaptureFails, ListPage, ReadSource, ReadManifest, ReadChunk,
       CheckOutput, WriteFile, Verdict, CapAt

\* The steps of the publisher.
PublishStep == PubBegin \/ PubRead \/ PubCreate \/ PubTree \/ PubRef \/ PubFails

\* They leave the capture and the retention alone.
LEMMA PublishFrame ==
    ASSUME PublishStep
    PROVE  UNCHANGED <<offer, reopened, status, source, cap, sweeping, outlived>>
BY DEF PublishStep, PubBegin, PubRead, PubCreate, PubTree, PubRef, PubFails, PubAt

\* What a field of the record of a capture may become.
LEMMA CaptureUpdates ==
    ASSUME Types
    PROVE  /\ \A k \in 0..MaxBytes : [cap EXCEPT !.got["source"] = k] \in Captures
           /\ \A k \in 0..MaxManifest : [cap EXCEPT !.got["manifest"] = k] \in Captures
           /\ \A pc \in CapPcs : /\ [cap EXCEPT !.pc = pc] \in Captures
                                 /\ [cap EXCEPT !.pc = pc, !.cut = TRUE] \in Captures
                                 /\ \A b \in BOOLEAN : [cap EXCEPT !.pc = pc, !.ok = b] \in Captures
           /\ \A k \in Nat : [cap EXCEPT !.written = k] \in Captures
<1> DEFINE Got == [source: 0..MaxBytes, manifest: 0..MaxManifest]
<1>1. cap \in Captures /\ cap.got \in Got
  BY FieldFacts DEF Types
<1>2. ASSUME NEW k \in 0..MaxBytes PROVE [cap EXCEPT !.got["source"] = k] \in Captures
  <2>1. [cap.got EXCEPT !["source"] = k] \in Got
    BY <1>1
  <2> HIDE DEF Got
  <2>2. [cap EXCEPT !.got = [cap.got EXCEPT !["source"] = k]] \in Captures
    BY <1>1, <2>1 DEF Captures, Got
  <2> QED BY <2>2
<1>3. ASSUME NEW k \in 0..MaxManifest PROVE [cap EXCEPT !.got["manifest"] = k] \in Captures
  <2>1. [cap.got EXCEPT !["manifest"] = k] \in Got
    BY <1>1
  <2> HIDE DEF Got
  <2>2. [cap EXCEPT !.got = [cap.got EXCEPT !["manifest"] = k]] \in Captures
    BY <1>1, <2>1 DEF Captures, Got
  <2> QED BY <2>2
<1>4. ASSUME NEW pc \in CapPcs
      PROVE  /\ [cap EXCEPT !.pc = pc] \in Captures
             /\ [cap EXCEPT !.pc = pc, !.cut = TRUE] \in Captures
             /\ \A b \in BOOLEAN : [cap EXCEPT !.pc = pc, !.ok = b] \in Captures
  BY <1>1 DEF Captures
<1>5. \A k \in Nat : [cap EXCEPT !.written = k] \in Captures
  BY <1>1 DEF Captures
<1> QED BY <1>2, <1>3, <1>4, <1>5

\* A turn of a download keeps the type of the record.
LEMMA ReadsType ==
    ASSUME Types, Downloaded, ReadSource \/ ReadManifest
    PROVE  /\ cap' \in Captures /\ faults' \in 0..MaxFaults /\ UNCHANGED <<status, source>>
           /\ ReadSource => cap.pc = "source" /\ Reads("source", cap.offer.bytes, MaxBytes, "manifest")
           /\ ReadManifest => /\ cap.pc = "manifest"
                              /\ Reads("manifest", cap.offer.manifest_bytes, MaxManifest, "check")
<1>1. /\ cap.offer.bytes \in Nat /\ cap.offer.manifest_bytes \in Nat
      /\ MaxBytes \in Nat /\ MaxManifest \in Nat
      /\ cap.got.source \in 0..MaxBytes /\ cap.got.manifest \in 0..MaxManifest
      /\ cap.got.source <= cap.offer.bytes /\ cap.got.manifest <= cap.offer.manifest_bytes
  BY FieldFacts, OfferFacts, Limits DEF Downloaded
<1>2. CASE ReadSource
  <2>1. Reads("source", cap.offer.bytes, MaxBytes, "manifest")
    BY <1>1, <1>2, ReadFacts DEF ReadSource
  <2>2. cap.pc = "source" /\ UNCHANGED <<status, source>>
    BY <1>2 DEF ReadSource, ReadChunk, CapAt
  <2>3. cap' \in Captures /\ faults' \in 0..MaxFaults
    BY <2>1, CaptureUpdates, FaultFacts DEF Reads, CapPcs, Types
  <2>4. ~ReadManifest
    BY <2>2 DEF ReadManifest, ReadChunk, CapAt
  <2> QED BY <2>1, <2>2, <2>3, <2>4
<1>3. CASE ReadManifest
  <2>1. Reads("manifest", cap.offer.manifest_bytes, MaxManifest, "check")
    BY <1>1, <1>3, ReadFacts DEF ReadManifest
  <2>2. cap.pc = "manifest" /\ UNCHANGED <<status, source>>
    BY <1>3 DEF ReadManifest, ReadChunk, CapAt
  <2>3. cap' \in Captures /\ faults' \in 0..MaxFaults
    BY <2>1, CaptureUpdates, FaultFacts DEF Reads, CapPcs, Types
  <2>4. ~ReadSource
    BY <2>2 DEF ReadSource, ReadChunk, CapAt
  <2> QED BY <2>1, <2>2, <2>3, <2>4
<1> QED BY <1>2, <1>3

\* The file that is written is one of the archive.
LEMMA PlacedType ==
    ASSUME Types, NEW e \in Entries
    PROVE  Placed(source, e) \in [Paths -> Texts \cup {"none", "dir"}]
<1>1. e.text \in Texts
  BY DEF Entries
<1>2. \A p \in Paths : source[p] \in Texts \cup {"none", "dir"}
  BY DEF Types
<1> QED BY <1>1, <1>2 DEF Placed

\* Each step of a capture keeps the types.
LEMMA CaptureTypes ==
    ASSUME Types, Captured, Downloaded, CaptureStep
    PROVE  Types'
<1> DEFINE Now == /\ cap' \in Captures /\ faults' \in 0..MaxFaults
                  /\ status' \in {"running", "completed", "failed", "deleted"}
                  /\ source' \in [Paths -> Texts \cup {"none", "dir"}]
<1>0. /\ cap \in Captures /\ faults \in 0..MaxFaults /\ source \in [Paths -> Texts \cup {"none", "dir"}]
      /\ status \in {"running", "completed", "failed", "deleted"}
  BY DEF Types
<1>1. ASSUME CaptureBegin PROVE Now
  <2>1. /\ cap' = [NoCap EXCEPT !.pc = "list"] /\ UNCHANGED <<status, source, faults>>
    BY <1>1 DEF CaptureBegin
  <2>2. [NoCap EXCEPT !.pc = "list"] \in Captures
    BY IdleFacts DEF Captures, CapPcs
  <2> QED BY <1>0, <2>1, <2>2
<1>2. ASSUME CaptureFails PROVE Now
  <2>1. /\ cap' = [cap EXCEPT !.pc = "verdict", !.ok = FALSE] /\ UNCHANGED <<status, source>> /\ Fault
    BY <1>2 DEF CaptureFails
  <2>2. [cap EXCEPT !.pc = "verdict", !.ok = FALSE] \in Captures
    BY CaptureUpdates DEF CapPcs
  <2> QED BY <1>0, <2>1, <2>2, FaultFacts
<1>3. ASSUME ListPage PROVE Now
  <2> DEFINE pages == cap.offer.pages
             items == cap.items \cup pages[cap.page]
             found == {"source", "manifest"} \subseteq items
  <2>1. /\ cap' = IF MorePages(cap.page, pages, pages[cap.page])
                  THEN [cap EXCEPT !.page = cap.page + 1, !.items = items]
                  ELSE [cap EXCEPT !.items = items, !.ok = found,
                                   !.pc = IF found THEN "source" ELSE "verdict"]
        /\ UNCHANGED <<status, source, faults>> /\ cap.pc = "list"
    BY <1>3 DEF ListPage, CapAt
  <2>2. items \in SUBSET Names
    <3>1. cap.page \in 1..Len(cap.offer.pages)
      BY <2>1 DEF Captured
    <3> QED BY <3>1, FieldFacts, OfferFacts
  <2>3. found \in BOOLEAN /\ (IF found THEN "source" ELSE "verdict") \in CapPcs
    BY DEF CapPcs
  <2> HIDE DEF items, found
  <2>4. cap' \in Captures
    <3>1. \A pc \in CapPcs :
              [cap EXCEPT !.items = items, !.ok = found, !.pc = pc] \in Captures
      BY <1>0, <2>2, <2>3 DEF Captures
    <3>2. [cap EXCEPT !.page = cap.page + 1, !.items = items] \in Captures
      <4>1. cap.page + 1 \in Nat
        BY FieldFacts
      <4>2. \A k \in Nat : [cap EXCEPT !.page = k, !.items = items] \in Captures
        BY <1>0, <2>2 DEF Captures
      <4> QED BY <4>1, <4>2
    <3> QED BY <2>1, <2>3, <3>1, <3>2, Zenon
  <2> QED BY <1>0, <2>1, <2>4
<1>4. ASSUME ReadSource \/ ReadManifest PROVE Now
  BY <1>0, <1>4, ReadsType
<1>5. ASSUME CheckOutput PROVE Now
  <2> DEFINE ok == ~cap.cut /\ cap.offer.manifest /\ Passes(cap.offer)
  <2>1. /\ cap' = [cap EXCEPT !.pc = IF ok THEN "write" ELSE "verdict", !.ok = ok]
        /\ UNCHANGED <<status, source, faults>>
    BY <1>5 DEF CheckOutput
  <2>2. ok \in BOOLEAN /\ (IF ok THEN "write" ELSE "verdict") \in CapPcs
    BY DEF CapPcs
  <2> HIDE DEF ok
  <2>3. cap' \in Captures
    BY <2>1, <2>2, CaptureUpdates
  <2> QED BY <1>0, <2>1, <2>3
<1>6. ASSUME WriteFile PROVE Now
  <2> DEFINE e == cap.offer.archive[Min(Left)]
  <2>1. /\ Left # {} /\ UNCHANGED <<status, faults>>
        /\ \/ cap' = [cap EXCEPT !.pc = "verdict", !.ok = FALSE] /\ source' = source
           \/ cap' = [cap EXCEPT !.written = Min(Left)] /\ source' = Placed(source, e)
    BY <1>6 DEF WriteFile
  <2>2. e \in Entries /\ Min(Left) \in Nat
    BY <2>1, LeftFacts
  <2> HIDE DEF e
  <2>3. cap' \in Captures
    BY <2>1, <2>2, CaptureUpdates DEF CapPcs
  <2> QED BY <1>0, <2>1, <2>2, <2>3, PlacedType
<1>7. ASSUME Verdict PROVE Now
  BY <1>0, <1>7, IdleFacts DEF Verdict
<1> HIDE DEF Now
<1>8. Now
  BY <1>1, <1>2, <1>3, <1>4, <1>5, <1>6, <1>7 DEF CaptureStep
<1> QED BY <1>8, CaptureFrame DEF Types, Now

\* What each step of the publisher does to trees of files.
LEMMA PublishFacts ==
    ASSUME Types
    PROVE  /\ PubBegin => /\ pub.pc = "idle" /\ status = "completed" /\ branch' = branch
                          /\ pub'.pc = "read" /\ pub'.files = {} /\ pub'.tree = job.tree
                          /\ pub'.todo = {p \in Paths : source[p] # "none"}
                          /\ job'.tree = job.tree
                          /\ pub' \in Publishers /\ job' \in PublishJobs /\ faults' = faults
           /\ PubRead => /\ pub.pc = "read" /\ UNCHANGED <<job, branch, faults>>
                         /\ \/ pub' = NoPub
                            \/ \E p \in pub.todo :
                                  /\ pub' \in Publishers /\ pub'.pc = "read" /\ pub'.tree = pub.tree
                                  /\ pub'.todo = pub.todo \ {p}
                                  /\ \/ /\ Skipped(p) \/ source[p] \in {"none", "dir"}
                                        /\ pub'.files = pub.files
                                     \/ /\ ~Skipped(p) /\ source[p] \in Texts \ {Secret}
                                        /\ pub'.files = pub.files \cup {<<p, source[p]>>}
           /\ PubCreate => /\ pub.pc = "read" /\ pub.todo = {} /\ UNCHANGED <<branch, faults>>
                           /\ job' \in PublishJobs /\ job'.tree = job.tree
                           /\ \/ pub' = NoPub
                              \/ /\ pub' \in Publishers /\ pub'.pc = "commit"
                                 /\ pub'.tree = pub.tree /\ pub'.files = pub.files
           /\ PubTree => /\ pub.pc = "commit" /\ UNCHANGED <<branch, faults>>
                         /\ pub' \in Publishers /\ pub'.pc = "ref" /\ pub'.tree = pub.tree
                         /\ pub'.files = (IF pub.tree # {} THEN pub.tree ELSE pub.files)
                         /\ job' \in PublishJobs /\ job'.tree \in {job.tree, pub'.files}
           /\ PubRef => /\ pub.pc = "ref" /\ branch' = pub.files /\ pub' = NoPub /\ faults' = faults
                        /\ job' \in PublishJobs /\ job'.tree = job.tree
           /\ PubFails => pub' = NoPub /\ UNCHANGED <<job, branch>> /\ Fault
<1>0. /\ job \in PublishJobs /\ pub \in Publishers /\ branch \in Trees
      /\ \A p \in Paths : source[p] \in Texts \cup {"none", "dir"}
      /\ {} \in Trees
  BY DEF Types, Trees
<1>1. ASSUME PubBegin
      PROVE  /\ pub.pc = "idle" /\ status = "completed" /\ branch' = branch
             /\ pub'.pc = "read" /\ pub'.files = {} /\ pub'.tree = job.tree
             /\ pub'.todo = {p \in Paths : source[p] # "none"}
             /\ job'.tree = job.tree
             /\ pub' \in Publishers /\ job' \in PublishJobs /\ faults' = faults
  <2>1. /\ pub.pc = "idle" /\ status = "completed" /\ UNCHANGED <<branch, faults>>
        /\ job' = IF job.phase = "none" THEN [job EXCEPT !.phase = "prepared"] ELSE job
        /\ pub' = [pc |-> "read", phase |-> job'.phase, tree |-> job.tree, files |-> {},
                   todo |-> {p \in Paths : source[p] # "none"}]
    BY <1>1 DEF PubBegin, PubAt
  <2>2. job' \in PublishJobs /\ job'.tree = job.tree
    BY <1>0, <2>1 DEF PublishJobs, Phases
  <2>3. job'.phase \in Phases /\ job.tree \in Trees
    BY <1>0, <2>2 DEF PublishJobs
  <2> DEFINE todo == {p \in Paths : source[p] # "none"}
  <2>4. todo \in SUBSET Paths
    OBVIOUS
  <2> HIDE DEF todo
  <2>5. pub' = [pc |-> "read", phase |-> job'.phase, tree |-> job.tree, files |-> {}, todo |-> todo]
    BY <2>1 DEF todo
  <2>6. /\ pub' \in Publishers /\ pub'.pc = "read" /\ pub'.files = {} /\ pub'.tree = job.tree
        /\ pub'.todo = todo
    BY <1>0, <2>3, <2>4, <2>5 DEF Publishers
  <2> QED BY <2>1, <2>2, <2>6 DEF todo
<1>2. ASSUME PubRead
      PROVE  /\ pub.pc = "read" /\ UNCHANGED <<job, branch, faults>>
             /\ \/ pub' = NoPub
                \/ \E p \in pub.todo :
                      /\ pub' \in Publishers /\ pub'.pc = "read" /\ pub'.tree = pub.tree
                      /\ pub'.todo = pub.todo \ {p}
                      /\ \/ /\ Skipped(p) \/ source[p] \in {"none", "dir"}
                            /\ pub'.files = pub.files
                         \/ /\ ~Skipped(p) /\ source[p] \in Texts \ {Secret}
                            /\ pub'.files = pub.files \cup {<<p, source[p]>>}
  <2>1. pub.pc = "read" /\ UNCHANGED <<job, branch, faults>>
    BY <1>2 DEF PubRead, PubAt
  <2>2. PICK p \in pub.todo :
          pub' = IF Skipped(p) \/ source[p] \in {"none", "dir"} THEN [pub EXCEPT !.todo = @ \ {p}]
                 ELSE IF source[p] = Secret THEN NoPub
                 ELSE [[pub EXCEPT !.todo = @ \ {p}] EXCEPT !.files = @ \cup {<<p, source[p]>>}]
    BY <1>2, Zenon DEF PubRead
  <2>3. p \in Paths /\ source[p] \in Texts \cup {"none", "dir"} /\ pub.todo \ {p} \in SUBSET Paths
    BY <1>0 DEF Publishers
  <2>4. CASE Skipped(p) \/ source[p] \in {"none", "dir"}
    <3>1. pub' = [pub EXCEPT !.todo = pub.todo \ {p}]
      BY <2>2, <2>4
    <3>2. /\ pub' \in Publishers /\ pub'.pc = "read" /\ pub'.tree = pub.tree
          /\ pub'.todo = pub.todo \ {p} /\ pub'.files = pub.files
      BY <1>0, <2>1, <2>3, <3>1 DEF Publishers
    <3> QED BY <2>1, <2>4, <3>2
  <2>5. CASE ~(Skipped(p) \/ source[p] \in {"none", "dir"}) /\ source[p] = Secret
    BY <2>1, <2>2, <2>5
  <2>6. CASE ~(Skipped(p) \/ source[p] \in {"none", "dir"}) /\ source[p] # Secret
    <3> DEFINE more == pub.files \cup {<<p, source[p]>>}
    <3>1. pub' = [pub EXCEPT !.todo = pub.todo \ {p}, !.files = more]
      BY <2>2, <2>6, <1>0 DEF Publishers
    <3>2. ~Skipped(p) /\ source[p] \in Texts \ {Secret} /\ more \in Trees
      BY <1>0, <2>3, <2>6 DEF Publishers, Trees
    <3> HIDE DEF more
    <3>3. /\ pub' \in Publishers /\ pub'.pc = "read" /\ pub'.tree = pub.tree
          /\ pub'.todo = pub.todo \ {p} /\ pub'.files = more
      BY <1>0, <2>1, <2>3, <3>1, <3>2 DEF Publishers
    <3> QED BY <2>1, <3>2, <3>3 DEF more
  <2> QED BY <2>4, <2>5, <2>6
<1>3. ASSUME PubCreate
      PROVE  /\ pub.pc = "read" /\ pub.todo = {} /\ UNCHANGED <<branch, faults>>
             /\ job' \in PublishJobs /\ job'.tree = job.tree
             /\ \/ pub' = NoPub
                \/ /\ pub' \in Publishers /\ pub'.pc = "commit"
                   /\ pub'.tree = pub.tree /\ pub'.files = pub.files
  <2>1. /\ pub.pc = "read" /\ pub.todo = {} /\ UNCHANGED <<branch, faults>>
        /\ \/ pub' = NoPub /\ job' = job
           \/ /\ pub' = [pub EXCEPT !.pc = "commit", !.phase = "created"]
              /\ job' \in {job, [job EXCEPT !.phase = "created"]}
    BY <1>3 DEF PubCreate, PubAt
  <2> QED BY <1>0, <2>1 DEF Publishers, PublishJobs, Phases
<1>4. ASSUME PubTree
      PROVE  /\ pub.pc = "commit" /\ UNCHANGED <<branch, faults>>
             /\ pub' \in Publishers /\ pub'.pc = "ref" /\ pub'.tree = pub.tree
             /\ pub'.files = (IF pub.tree # {} THEN pub.tree ELSE pub.files)
             /\ job' \in PublishJobs /\ job'.tree \in {job.tree, pub'.files}
  <2> DEFINE files == IF pub.tree # {} THEN pub.tree ELSE pub.files
  <2>1. /\ pub.pc = "commit" /\ UNCHANGED <<branch, faults>>
        /\ pub' = [pub EXCEPT !.pc = "ref", !.files = files]
        /\ job' = IF job.phase = "none" THEN job ELSE [phase |-> "committed", tree |-> pub'.files]
    BY <1>4 DEF PubTree, PubAt
  <2>2. files \in Trees
    BY <1>0 DEF Publishers
  <2> HIDE DEF files
  <2>3. pub' \in Publishers /\ pub'.pc = "ref" /\ pub'.tree = pub.tree /\ pub'.files = files
    BY <1>0, <2>1, <2>2 DEF Publishers
  <2>4. job' \in PublishJobs /\ job'.tree \in {job.tree, pub'.files}
    BY <1>0, <2>1, <2>2, <2>3 DEF PublishJobs, Phases
  <2> QED BY <2>1, <2>3, <2>4 DEF files
<1>5. ASSUME PubRef
      PROVE  /\ pub.pc = "ref" /\ branch' = pub.files /\ pub' = NoPub /\ faults' = faults
             /\ job' \in PublishJobs /\ job'.tree = job.tree
  <2>1. /\ pub.pc = "ref" /\ branch' = pub.files /\ pub' = NoPub /\ faults' = faults
        /\ job' \in {job, [job EXCEPT !.phase = "complete"]}
    BY <1>5 DEF PubRef, PubAt
  <2> QED BY <1>0, <2>1 DEF PublishJobs, Phases
<1>6. ASSUME PubFails PROVE pub' = NoPub /\ UNCHANGED <<job, branch>> /\ Fault
  BY <1>6 DEF PubFails
<1> QED BY <1>1, <1>2, <1>3, <1>4, <1>5, <1>6

\* Each step of the publisher keeps the types.
LEMMA PublishTypes ==
    ASSUME Types, PublishStep
    PROVE  Types'
<1>1. /\ NoPub \in Publishers /\ pub.files \in Trees
      /\ job \in PublishJobs /\ branch \in Trees /\ faults \in 0..MaxFaults
  BY IdleFacts, FieldFacts DEF Types
<1>2. pub' \in Publishers /\ job' \in PublishJobs /\ branch' \in Trees /\ faults' \in 0..MaxFaults
  <2>1. CASE PubBegin \/ PubTree \/ PubRef \/ PubFails
    BY <1>1, <2>1, PublishFacts, FaultFacts
  <2>2. CASE PubRead
    <3>1. pub' = NoPub \/ pub' \in Publishers
      BY <2>2, PublishFacts
    <3> QED BY <1>1, <2>2, <3>1, PublishFacts
  <2>3. CASE PubCreate
    <3>1. pub' = NoPub \/ pub' \in Publishers
      BY <2>3, PublishFacts
    <3> QED BY <1>1, <2>3, <3>1, PublishFacts
  <2> QED BY <2>1, <2>2, <2>3 DEF PublishStep
<1> QED BY <1>2, PublishFrame DEF Types

\* So do all others.
LEMMA OtherTypes ==
    ASSUME Types, Steer \/ Expire \/ Sweep \/ SweepFails \/ Crash \/ UNCHANGED vars
    PROVE  Types'
<1>1. /\ NoPub \in Publishers /\ NoCap \in Captures
      /\ [phase |-> "none", tree |-> {}] \in PublishJobs
  BY IdleFacts DEF PublishJobs, Phases, Trees
<1>2. CASE Steer
  BY <1>2 DEF Steer, Types
<1>3. CASE Expire
  BY <1>1, <1>3 DEF Expire, Types
<1>4. CASE Sweep
  <2>1. PICK p \in Paths : source' = [source EXCEPT ![p] = "none"]
    BY <1>4 DEF Sweep
  <2>2. UNCHANGED <<offer, reopened, status, cap, job, pub, branch, sweeping, outlived, faults>>
    BY <1>4 DEF Sweep, Sweeps
  <2> QED BY <2>1, <2>2 DEF Types
<1>5. CASE SweepFails
  BY <1>5, FaultFacts DEF SweepFails, Sweeps, Types
<1>6. CASE Crash
  BY <1>1, <1>6, FaultFacts DEF Crash, Types
<1>7. CASE UNCHANGED vars
  BY <1>7 DEF vars, Types
<1> QED BY <1>2, <1>3, <1>4, <1>5, <1>6, <1>7

\* A step is one of these.
LEMMA Steps ==
    [Next]_vars => \/ CaptureStep \/ PublishStep
                   \/ Steer \/ Expire \/ Sweep \/ SweepFails \/ Crash \/ UNCHANGED vars
BY DEF Next, CaptureStep, PublishStep

\* The variables keep their types.
LEMMA TypesStep ==
    ASSUME Types, Captured, Downloaded, [Next]_vars
    PROVE  Types'
BY Steps, CaptureTypes, PublishTypes, OtherTypes

-----------------------------------------------------------------------------
(* The steps of a capture, field by field.                                 *)

\* The capture goes on, or ends, with what it has.
Moves(pc, ok) ==
    /\ cap'.pc = pc /\ cap'.ok = ok /\ cap'.offer = cap.offer
    /\ cap'.got = cap.got /\ cap'.cut = cap.cut /\ cap'.written = cap.written

\* A capture begins with nothing.
Begins(pc) ==
    /\ cap'.pc = pc /\ cap'.ok = TRUE /\ cap'.offer = offer /\ cap'.page = 1 /\ cap'.items = {}
    /\ cap'.got.source = 0 /\ cap'.got.manifest = 0 /\ cap'.cut = FALSE /\ cap'.written = 0

\* A turn of a download, field by field; other names the other artifact.
Turns(name, other, size, max, next) ==
    \/ \E k \in 0..max :
          /\ k <= size /\ cap'.got[name] = k /\ cap'.got[other] = cap.got[other] /\ faults' = faults
          /\ cap'.pc = cap.pc /\ cap'.ok = cap.ok /\ cap'.offer = cap.offer
          /\ cap'.cut = cap.cut /\ cap'.written = cap.written
    \/ size > max /\ Moves("verdict", FALSE) /\ faults' = faults
    \/ cap.got[name] = size /\ Moves(next, cap.ok) /\ faults' = faults
    \/ /\ Fault /\ cap'.cut = TRUE /\ cap'.pc = next /\ cap'.ok = cap.ok
       /\ cap'.offer = cap.offer /\ cap'.got = cap.got /\ cap'.written = cap.written

\* The start, the end and a failure.
LEMMA EdgeFacts ==
    ASSUME Types
    PROVE  /\ CaptureBegin => /\ cap.pc = "idle" /\ status = "running" /\ Begins("list")
                              /\ UNCHANGED <<status, source, faults>>
           /\ CaptureFails => /\ cap.pc \notin {"idle", "verdict"} /\ Moves("verdict", FALSE) /\ Fault
                              /\ UNCHANGED <<status, source>>
           /\ Verdict => /\ cap.pc = "verdict" \/ (cap.pc = "write" /\ Left = {})
                         /\ status' = (IF cap.ok THEN "completed" ELSE "failed") /\ Begins("idle")
                         /\ UNCHANGED <<source, faults>>
<1>1. cap \in Captures
  BY DEF Types
<1>2. ASSUME CaptureBegin
      PROVE  /\ cap.pc = "idle" /\ status = "running" /\ Begins("list")
             /\ UNCHANGED <<status, source, faults>>
  BY <1>2 DEF CaptureBegin, CapAt, NoCap, Begins
<1>3. ASSUME CaptureFails
      PROVE  /\ cap.pc \notin {"idle", "verdict"} /\ Moves("verdict", FALSE) /\ Fault
             /\ UNCHANGED <<status, source>>
  <2>1. /\ cap' = [cap EXCEPT !.pc = "verdict", !.ok = FALSE] /\ Fault /\ UNCHANGED <<status, source>>
        /\ cap.pc \notin {"idle", "verdict"}
    BY <1>3 DEF CaptureFails, CapAt
  <2> QED BY <1>1, <2>1 DEF Captures, Moves
<1>4. ASSUME Verdict
      PROVE  /\ cap.pc = "verdict" \/ (cap.pc = "write" /\ Left = {})
             /\ status' = (IF cap.ok THEN "completed" ELSE "failed") /\ Begins("idle")
             /\ UNCHANGED <<source, faults>>
  <2>1. /\ cap.pc = "verdict" \/ (cap.pc = "write" /\ Left = {})
        /\ status' = (IF cap.ok THEN "completed" ELSE "failed") /\ cap' = NoCap
        /\ UNCHANGED <<source, faults>>
    BY <1>4 DEF Verdict, CapAt
  <2>2. Begins("idle")
    BY <2>1 DEF NoCap, Begins
  <2> QED BY <2>1, <2>2
<1> QED BY <1>2, <1>3, <1>4

\* A page of the listing.
LEMMA ListFacts ==
    ASSUME Types, Captured, ListPage
    PROVE  LET pages == cap.offer.pages
               items == cap.items \cup pages[cap.page] IN
           /\ cap.pc = "list" /\ UNCHANGED <<status, source, faults>>
           /\ \/ /\ cap.page < Len(pages) /\ Moves("list", cap.ok)
                 /\ cap'.page = cap.page + 1 /\ cap'.items = items
              \/ cap.page = Len(pages) /\ Names \subseteq items /\ Moves("source", TRUE)
              \/ cap.page = Len(pages) /\ ~(Names \subseteq items) /\ Moves("verdict", FALSE)
<1> DEFINE pages == cap.offer.pages
           items == cap.items \cup pages[cap.page]
           found == Names \subseteq items
<1>1. /\ cap' = IF cap.page < Len(pages)
                THEN [cap EXCEPT !.page = cap.page + 1, !.items = items]
                ELSE [cap EXCEPT !.items = items, !.ok = found,
                                 !.pc = IF found THEN "source" ELSE "verdict"]
      /\ UNCHANGED <<status, source, faults>> /\ cap.pc = "list"
  BY DEF ListPage, CapAt, MorePages, Names
<1>2. cap.page \in 1..Len(pages) /\ cap \in Captures /\ Len(pages) \in Nat
  BY <1>1, FieldFacts, OfferFacts DEF Captured, Types
<1> HIDE DEF items, pages, found
<1>3. CASE cap.page < Len(pages)
  <2>1. cap' = [cap EXCEPT !.page = cap.page + 1, !.items = items]
    BY <1>1, <1>3
  <2>2. Moves("list", cap.ok) /\ cap'.page = cap.page + 1 /\ cap'.items = items
    BY <1>1, <1>2, <2>1 DEF Captures, Moves
  <2> QED BY <1>1, <1>3, <2>2 DEF pages, items
<1>4. CASE ~(cap.page < Len(pages))
  <2>1. cap' = [cap EXCEPT !.items = items, !.ok = found, !.pc = IF found THEN "source" ELSE "verdict"]
    BY <1>1, <1>4
  <2>2. cap.page = Len(pages)
    BY <1>2, <1>4
  <2>3. Moves(IF found THEN "source" ELSE "verdict", found)
    BY <1>2, <2>1 DEF Captures, Moves
  <2>4. found \/ ~found
    OBVIOUS
  <2>5. (found /\ Moves("source", TRUE)) \/ (~found /\ Moves("verdict", FALSE))
    <3>1. found \in BOOLEAN
      BY DEF found
    <3> QED BY <2>3, <3>1
  <2> QED BY <1>1, <2>2, <2>5 DEF pages, items, found
<1> QED BY <1>3, <1>4

\* The checks before the extraction, and its first pass.
LEMMA CheckFacts ==
    ASSUME Types, CheckOutput
    PROVE  /\ cap.pc = "check" /\ UNCHANGED <<status, source, faults>>
           /\ \/ /\ ~cap.cut /\ cap.offer.manifest /\ Safe(cap.offer.archive)
                 /\ Moves("write", TRUE)
              \/ /\ cap.cut \/ ~cap.offer.manifest \/ ~Safe(cap.offer.archive)
                 /\ Moves("verdict", FALSE)
<1> DEFINE ok == ~cap.cut /\ cap.offer.manifest /\ Passes(cap.offer)
<1>1. /\ cap' = [cap EXCEPT !.pc = IF ok THEN "write" ELSE "verdict", !.ok = ok]
      /\ UNCHANGED <<status, source, faults>> /\ cap.pc = "check"
  BY DEF CheckOutput, CapAt
<1>2. ok \in BOOLEAN /\ (ok <=> ~cap.cut /\ cap.offer.manifest /\ Safe(cap.offer.archive))
  BY FieldFacts, PassesIsSafe
<1> HIDE DEF ok
<1>3. Moves(IF ok THEN "write" ELSE "verdict", ok)
  BY <1>1, FieldFacts DEF Types, Captures, Moves
<1>4. ok = TRUE \/ ok = FALSE
  BY <1>2
<1>5. CASE ok = TRUE
  BY <1>1, <1>2, <1>3, <1>5
<1>6. CASE ok = FALSE
  BY <1>1, <1>2, <1>3, <1>6
<1> QED BY <1>4, <1>5, <1>6

\* A turn of either download.
LEMMA TurnFacts ==
    ASSUME Types, Downloaded, ReadSource \/ ReadManifest
    PROVE  /\ UNCHANGED <<status, source>>
           /\ \/ /\ cap.pc = "source"
                 /\ Turns("source", "manifest", cap.offer.bytes, MaxBytes, "manifest")
              \/ /\ cap.pc = "manifest"
                 /\ Turns("manifest", "source", cap.offer.manifest_bytes, MaxManifest, "check")
<1>0. cap \in Captures /\ cap.got \in [source: 0..MaxBytes, manifest: 0..MaxManifest]
  BY FieldFacts DEF Types
<1>1. ASSUME NEW name \in Names, NEW other \in Names \ {name}, NEW size, NEW max \in Nat, NEW next,
             Reads(name, size, max, next)
      PROVE  Turns(name, other, size, max, next)
  <2>1. CASE \E k \in 0..max : k <= size /\ cap' = [cap EXCEPT !.got[name] = k] /\ faults' = faults
    <3>1. PICK k \in 0..max : k <= size /\ cap' = [cap EXCEPT !.got[name] = k] /\ faults' = faults
      BY <2>1
    <3> DEFINE more == [cap.got EXCEPT ![name] = k]
    <3>2. more[name] = k /\ more[other] = cap.got[other]
      BY <1>0 DEF Names
    <3>3. cap' = [cap EXCEPT !.got = more]
      BY <3>1
    <3> HIDE DEF more
    <3>4. /\ cap'.got = more /\ cap'.pc = cap.pc /\ cap'.ok = cap.ok /\ cap'.offer = cap.offer
          /\ cap'.cut = cap.cut /\ cap'.written = cap.written
      BY <1>0, <3>3 DEF Captures
    <3>5. cap'.got[name] = k /\ cap'.got[other] = cap.got[other]
      BY <3>2, <3>4
    <3> QED BY <3>1, <3>4, <3>5 DEF Turns
  <2>2. CASE size > max /\ cap' = [cap EXCEPT !.pc = "verdict", !.ok = FALSE] /\ faults' = faults
    BY <1>0, <2>2 DEF Captures, Moves, Turns
  <2>3. CASE cap.got[name] = size /\ cap' = [cap EXCEPT !.pc = next] /\ faults' = faults
    BY <1>0, <2>3 DEF Captures, Moves, Turns
  <2>4. CASE cap' = [cap EXCEPT !.pc = next, !.cut = TRUE] /\ Fault
    BY <1>0, <2>4 DEF Captures, Turns
  <2> QED BY <1>1, <2>1, <2>2, <2>3, <2>4 DEF Reads
<1>2. MaxBytes \in Nat /\ MaxManifest \in Nat /\ "source" \in Names \ {"manifest"}
      /\ "manifest" \in Names \ {"source"} /\ "source" \in Names /\ "manifest" \in Names
  BY Limits DEF Names
<1>3. CASE ReadSource
  BY <1>1, <1>2, <1>3, ReadsType
<1>4. CASE ReadManifest
  BY <1>1, <1>2, <1>4, ReadsType
<1> QED BY <1>3, <1>4

\* A file written, or not.
LEMMA WriteFacts ==
    ASSUME Types, WriteFile
    PROVE  LET e == cap.offer.archive[Min(Left)] IN
           /\ cap.pc = "write" /\ Left # {} /\ UNCHANGED <<status, faults>>
           /\ \/ Clashes(source, e) /\ Moves("verdict", FALSE) /\ source' = source
              \/ /\ ~Clashes(source, e) /\ source' = Placed(source, e)
                 /\ cap'.written = Min(Left) /\ cap'.pc = cap.pc /\ cap'.ok = cap.ok
                 /\ cap'.offer = cap.offer /\ cap'.got = cap.got /\ cap'.cut = cap.cut
<1> DEFINE e == cap.offer.archive[Min(Left)]
           k == Min(Left)
<1>1. /\ cap.pc = "write" /\ Left # {} /\ UNCHANGED <<status, faults>>
      /\ \/ /\ Clashes(source, e) /\ cap' = [cap EXCEPT !.pc = "verdict", !.ok = FALSE]
            /\ source' = source
         \/ /\ ~Clashes(source, e) /\ cap' = [cap EXCEPT !.written = k]
            /\ source' = Placed(source, e)
  BY DEF WriteFile, CapAt
<1>2. cap \in Captures
  BY DEF Types
<1> HIDE DEF e, k
<1> QED BY <1>1, <1>2 DEF e, k, Captures, Moves

-----------------------------------------------------------------------------
(* What a capture has found.                                               *)

\* The pages before n.
Before(o, n) == UNION {o.pages[i] : i \in 1..n - 1}

\* The listing, page by page: what the last page completes is all of it.
LEMMA PageFacts ==
    ASSUME NEW o \in Offers
    PROVE  /\ Before(o, 1) = {}
           /\ \A n \in 1..Len(o.pages) : Before(o, n) \cup o.pages[n] = Before(o, n + 1)
           /\ Before(o, Len(o.pages) + 1) = UNION ToSet(o.pages)
<1> DEFINE p == o.pages
           last == Len(p)
<1>1. last \in Nat \ {0} /\ DOMAIN p = 1..last
  BY OfferFacts
<1>2. ToSet(p) = {p[i] : i \in 1..last}
  BY <1>1 DEF ToSet
<1>3. Before(o, 1) = {}
  <2>1. 1..1 - 1 = {}
    OBVIOUS
  <2> QED BY <2>1 DEF Before
<1>4. 1..(last + 1) - 1 = 1..last
  BY <1>1
<1> HIDE DEF last
<1>5. Before(o, last + 1) = UNION ToSet(p)
  <2>1. {p[i] : i \in 1..(last + 1) - 1} = {p[i] : i \in 1..last}
    BY <1>4
  <2>2. Before(o, last + 1) = UNION {p[i] : i \in 1..(last + 1) - 1}
    BY DEF Before
  <2> HIDE DEF p
  <2> QED BY <1>2, <2>1, <2>2
<1>6. ASSUME NEW m \in 1..last PROVE Before(o, m) \cup o.pages[m] = Before(o, m + 1)
  <2>1. 1..(m + 1) - 1 = (1..m - 1) \cup {m}
    BY <1>1
  <2>2. {o.pages[i] : i \in 1..(m + 1) - 1} = {o.pages[i] : i \in 1..m - 1} \cup {o.pages[m]}
    BY <2>1
  <2> QED BY <2>2 DEF Before
<1> QED BY <1>3, <1>5, <1>6 DEF last

\* Each step of a capture keeps what it has found true.
LEMMA CaptureFinds ==
    ASSUME Types, Captured, Downloaded, CaptureStep
    PROVE  Captured'
<1>1. reopened' = reopened /\ offer' = offer
  BY CaptureFrame
<1>2. cap.pc # "idle" => status = "running" /\ (~reopened => cap.offer = offer)
  BY DEF Captured
<1>3. faults \in Nat
  BY Limits DEF Types
<1>4. CASE CaptureBegin
  <2>1. Begins("list") /\ status' = "running" /\ cap'.offer \in Offers
    BY <1>4, EdgeFacts DEF Types, Begins
  <2>2. Len(cap'.offer.pages) \in Nat \ {0} /\ Before(cap'.offer, 1) = {}
    BY <2>1, OfferFacts, PageFacts
  <2>3. 1 \in 1..Len(cap'.offer.pages)
    BY <2>2
  <2> QED BY <1>1, <2>1, <2>2, <2>3 DEF Captured, Begins, Before
<1>5. CASE CaptureFails
  <2>1. /\ cap.pc # "idle" /\ Moves("verdict", FALSE) /\ status' = status /\ faults' > 0
    BY <1>5, EdgeFacts, FaultFacts
  <2> QED BY <1>1, <1>2, <2>1 DEF Captured, Moves
<1>6. CASE ListPage
  <2> DEFINE o == cap.offer
             items == cap.items \cup o.pages[cap.page]
  <2>1. /\ cap.pc = "list" /\ UNCHANGED <<status, source, faults>>
        /\ \/ /\ cap.page < Len(o.pages) /\ Moves("list", cap.ok)
              /\ cap'.page = cap.page + 1 /\ cap'.items = items
           \/ cap.page = Len(o.pages) /\ Names \subseteq items /\ Moves("source", TRUE)
           \/ Moves("verdict", FALSE)
    BY <1>6, ListFacts
  <2>2. /\ cap.page \in 1..Len(o.pages) /\ cap.items = Before(o, cap.page) /\ cap.written = 0
        /\ cap.ok = TRUE /\ (faults = 0 => ~cap.cut)
    BY <2>1, FieldFacts DEF Captured, Before
  <2>3. items = Before(o, cap.page + 1)
    BY <2>2, FieldFacts, PageFacts
  <2>4. CASE cap.page < Len(o.pages) /\ Moves("list", cap.ok) /\ cap'.page = cap.page + 1
             /\ cap'.items = items
    <3>1. cap'.page \in 1..Len(o.pages)
      BY <2>2, <2>4, FieldFacts, OfferFacts
    <3> QED BY <1>1, <1>2, <2>1, <2>2, <2>3, <2>4, <3>1 DEF Captured, Moves, Before
  <2>5. CASE cap.page = Len(o.pages) /\ Names \subseteq items /\ Moves("source", TRUE)
    <3>1. Names \subseteq UNION ToSet(o.pages)
      BY <2>3, <2>5, FieldFacts, PageFacts
    <3> HIDE DEF items
    <3> QED BY <1>1, <1>2, <2>1, <2>2, <2>5, <3>1 DEF Captured, Moves
  <2>6. CASE Moves("verdict", FALSE)
    BY <1>1, <1>2, <2>1, <2>2, <2>6 DEF Captured, Moves
  <2> QED BY <2>1, <2>4, <2>5, <2>6
<1>7. CASE ReadSource \/ ReadManifest
  <2>1. /\ status' = status /\ cap.pc \in {"source", "manifest"}
        /\ cap'.offer = cap.offer /\ cap'.written = cap.written
        /\ \/ cap'.pc = "verdict" /\ cap'.ok = FALSE
           \/ cap'.pc \in {"source", "manifest", "check"} /\ cap'.ok = cap.ok
        /\ faults' = 0 => faults = 0 /\ cap'.cut = cap.cut
    <3>1. status' = status
      BY <1>7, TurnFacts
    <3>2. CASE cap.pc = "source"
               /\ Turns("source", "manifest", cap.offer.bytes, MaxBytes, "manifest")
      BY <3>1, <3>2, FaultFacts DEF Turns, Moves
    <3>3. CASE cap.pc = "manifest"
               /\ Turns("manifest", "source", cap.offer.manifest_bytes, MaxManifest, "check")
      BY <3>1, <3>3, FaultFacts DEF Turns, Moves
    <3> QED BY <1>7, <3>2, <3>3, TurnFacts
  <2>2. cap.ok = TRUE
    BY <2>1, FieldFacts DEF Captured
  <2> QED BY <1>1, <1>2, <2>1, <2>2 DEF Captured
<1>8. CASE CheckOutput
  <2>1. /\ cap.pc = "check" /\ UNCHANGED <<status, faults>>
        /\ \/ /\ ~cap.cut /\ cap.offer.manifest /\ Safe(cap.offer.archive)
              /\ Moves("write", TRUE)
           \/ Moves("verdict", FALSE)
    BY <1>8, CheckFacts
  <2> QED BY <1>1, <1>2, <2>1 DEF Captured, Moves
<1>9. CASE WriteFile
  <2>1. /\ cap.pc = "write" /\ UNCHANGED <<status, faults>>
        /\ \/ Moves("verdict", FALSE)
           \/ /\ cap'.pc = cap.pc /\ cap'.ok = cap.ok
              /\ cap'.offer = cap.offer /\ cap'.cut = cap.cut
    BY <1>9, WriteFacts DEF Moves
  <2> QED BY <1>1, <1>2, <2>1 DEF Captured, Moves
<1>10. CASE Verdict
  <2>1. Begins("idle") /\ faults' = faults
    BY <1>10, EdgeFacts
  <2> QED BY <2>1 DEF Captured, Begins
<1> QED BY <1>4, <1>5, <1>6, <1>7, <1>8, <1>9, <1>10 DEF CaptureStep

\* So does every other step.
LEMMA OthersFind ==
    ASSUME Types, Captured, Downloaded,
           PublishStep \/ Steer \/ Expire \/ Sweep \/ SweepFails \/ Crash \/ UNCHANGED vars
    PROVE  (Captured /\ Downloaded)'
<1>1. CASE PublishStep \/ Sweep \/ SweepFails \/ UNCHANGED vars
  <2>1. UNCHANGED <<offer, reopened, status, cap>> /\ (faults' = 0 => faults = 0)
    <3>1. CASE PublishStep
      <4>1. faults' = 0 => faults = 0
        BY <3>1, PublishFacts, FaultFacts DEF PublishStep
      <4> QED BY <3>1, <4>1, PublishFrame
    <3>2. CASE Sweep
      BY <3>2 DEF Sweep, Sweeps
    <3>3. CASE SweepFails
      BY <3>3, FaultFacts DEF SweepFails, Sweeps
    <3>4. CASE UNCHANGED vars
      BY <3>4 DEF vars
    <3> QED BY <1>1, <3>1, <3>2, <3>3, <3>4
  <2> QED BY <2>1 DEF Captured, Downloaded
<1>2. CASE Steer
  <2>1. UNCHANGED <<status, cap, faults>> /\ reopened' = TRUE
    BY <1>2 DEF Steer
  <2> QED BY <2>1 DEF Captured, Downloaded
<1>3. CASE Expire
  <2>1. UNCHANGED <<cap, faults>> /\ cap.pc = "idle"
    BY <1>3 DEF Expire, Captured
  <2> QED BY <2>1 DEF Captured, Downloaded
<1>4. CASE Crash
  <2>1. Begins("idle")
    BY <1>4 DEF Crash, NoCap, Begins
  <2>2. cap'.offer.bytes \in Nat /\ cap'.offer.manifest_bytes \in Nat
    <3>1. offer \in Offers /\ cap'.offer = offer
      BY <2>1 DEF Types, Begins
    <3> QED BY <3>1, OfferFacts
  <2> QED BY <2>1, <2>2 DEF Captured, Downloaded, Begins
<1> QED BY <1>1, <1>2, <1>3, <1>4

\* Each step of a capture keeps account of how far the downloads are.
LEMMA CaptureDownloads ==
    ASSUME Types, Captured, Downloaded, CaptureStep
    PROVE  Downloaded'
<1>1. CASE CaptureBegin \/ Verdict
  <2>1. (Begins("list") \/ Begins("idle")) /\ offer \in Offers
    BY <1>1, EdgeFacts DEF Types
  <2>2. cap'.offer.bytes \in Nat /\ cap'.offer.manifest_bytes \in Nat
    <3>1. cap'.offer = offer
      BY <2>1 DEF Begins
    <3> QED BY <2>1, <3>1, OfferFacts
  <2> QED BY <2>1, <2>2 DEF Downloaded, Begins
<1>2. CASE CaptureFails
  <2>1. Moves("verdict", FALSE)
    BY <1>2, EdgeFacts
  <2> QED BY <2>1 DEF Downloaded, Moves
<1>3. CASE ListPage
  <2>1. /\ cap.pc = "list"
        /\ Moves("list", cap.ok) \/ Moves("source", TRUE) \/ Moves("verdict", FALSE)
    BY <1>3, ListFacts
  <2> QED BY <2>1 DEF Downloaded, Moves
<1>4. CASE ReadSource \/ ReadManifest
  <2>1. CASE cap.pc = "source"
             /\ Turns("source", "manifest", cap.offer.bytes, MaxBytes, "manifest")
    BY <2>1 DEF Downloaded, Turns, Moves
  <2>2. CASE cap.pc = "manifest"
             /\ Turns("manifest", "source", cap.offer.manifest_bytes, MaxManifest, "check")
    BY <2>2 DEF Downloaded, Turns, Moves
  <2> QED BY <1>4, <2>1, <2>2, TurnFacts
<1>5. CASE CheckOutput
  <2>1. cap.pc = "check" /\ (Moves("write", TRUE) \/ Moves("verdict", FALSE))
    BY <1>5, CheckFacts
  <2> QED BY <2>1 DEF Downloaded, Moves
<1>6. CASE WriteFile
  <2>1. /\ cap.pc = "write"
        /\ \/ Moves("verdict", FALSE)
           \/ /\ cap'.pc = cap.pc /\ cap'.got = cap.got
              /\ cap'.offer = cap.offer /\ cap'.cut = cap.cut
    BY <1>6, WriteFacts DEF Moves
  <2> QED BY <2>1 DEF Downloaded, Moves
<1> QED BY <1>1, <1>2, <1>3, <1>4, <1>5, <1>6 DEF CaptureStep

-----------------------------------------------------------------------------
(* The files in the directory.                                             *)

\* The text of a file is no mark, and a path is no directory of itself.
LEMMA PathFacts ==
    /\ "none" \notin Texts /\ "dir" \notin Texts /\ "top" \notin Paths
    /\ \A p \in Paths : Parent[p] # "top" => Parent[p] \in Paths /\ Parent[p] # p
BY OutputAssumption

\* What the writing of a file changes and what it leaves, where nothing is in its way.
LEMMA PlacedFacts ==
    ASSUME Types, NEW e \in Entries, e.path \in Paths, ~Clashes(source, e), source' = Placed(source, e)
    PROVE  /\ source'[e.path] = e.text /\ e.text \in Texts
           /\ Parent[e.path] # "top" => source'[Parent[e.path]] = "dir"
           /\ \A p \in Paths : /\ p # e.path /\ source[p] \in Texts => source'[p] = source[p]
                               /\ source[p] = "dir" => source'[p] = "dir"
                               /\ source'[p] \in Texts => p = e.path \/ source[p] \in Texts
                               /\ source'[p] = "dir" => p = Parent[e.path] \/ source[p] = "dir"
<1> DEFINE d == Parent[e.path]
           x == e.path
<1>1. e.text \in Texts /\ x \in Paths
  BY DEF Entries
<1>2. d # "top" => d \in Paths /\ d # x
  BY PathFacts
<1>3. source[x] # "dir" /\ (d # "top" => source[d] \in {"none", "dir"})
  BY DEF Clashes
<1>4. \A p \in Paths : source'[p] = IF p = x THEN e.text ELSE IF p = d THEN "dir" ELSE source[p]
  BY DEF Placed
<1>5. \A p \in Paths : source[p] \in Texts \cup {"none", "dir"}
  BY DEF Types
<1> HIDE DEF d, x
<1>6. source'[x] = e.text /\ (d # "top" => source'[d] = "dir")
  BY <1>1, <1>2, <1>4
<1>7. ASSUME NEW p \in Paths
      PROVE  /\ p # x /\ source[p] \in Texts => source'[p] = source[p]
             /\ source[p] = "dir" => source'[p] = "dir"
             /\ source'[p] \in Texts => p = x \/ source[p] \in Texts
             /\ source'[p] = "dir" => p = d \/ source[p] = "dir"
  <2>1. source'[p] = IF p = x THEN e.text ELSE IF p = d THEN "dir" ELSE source[p]
    BY <1>4
  <2>2. CASE p = x
    BY <1>1, <1>3, <2>1, <2>2, PathFacts
  <2>3. CASE p # x /\ p = d
    <3>1. d # "top" /\ source[p] \in {"none", "dir"} /\ source'[p] = "dir"
      BY <1>3, <2>1, <2>3, PathFacts
    <3> QED BY <2>3, <3>1, PathFacts
  <2>4. CASE p # x /\ p # d
    BY <2>1, <2>4
  <2> QED BY <2>2, <2>3, <2>4
<1> QED BY <1>1, <1>6, <1>7 DEF d, x

\* The tree of an archive, path by path.
LEMMA TreeFacts ==
    ASSUME NEW o \in Offers, NEW p \in Paths
    PROVE  /\ p \in FilePaths(o) =>
                \E i \in Files(o.archive) :
                   /\ o.archive[i].path = p /\ Tree(o)[p] = o.archive[i].text
                   /\ o.archive[i].text \in Texts
                   /\ \A j \in Files(o.archive) : o.archive[j].path = p => j <= i
           /\ p \notin FilePaths(o) =>
                Tree(o)[p] = IF \E q \in FilePaths(o) : Parent[q] = p THEN "dir" ELSE "none"
<1> DEFINE a == o.archive
           n == Len(a)
           F == Files(a)
           S == {i \in F : a[i].path = p}
<1>1. n \in Nat /\ DOMAIN a = 1..n /\ \A i \in DOMAIN a : a[i] \in Entries
  BY OfferFacts
<1>2. F \subseteq 1..n /\ F \subseteq DOMAIN a
  BY <1>1 DEF Files
<1>3. Tree(o)[p] = IF p \in FilePaths(o) THEN a[Max(S)].text
                   ELSE IF \E q \in FilePaths(o) : Parent[q] = p THEN "dir" ELSE "none"
  BY DEF Tree
<1>4. FilePaths(o) = {a[i].path : i \in F}
  BY DEF FilePaths
<1> HIDE DEF a, n, F
<1>5. ASSUME p \in FilePaths(o)
      PROVE  \E i \in F : /\ a[i].path = p /\ Tree(o)[p] = a[i].text /\ a[i].text \in Texts
                          /\ \A j \in F : a[j].path = p => j <= i
  <2>1. S # {}
    BY <1>4, <1>5
  <2>2. S \in SUBSET (0..n)
    <3>1. S \subseteq F /\ 1..n \subseteq 0..n
      BY <1>1
    <3> QED BY <1>2, <3>1
  <2>3. Max(S) \in S /\ \A k \in S : k <= Max(S)
    BY <1>1, <2>1, <2>2, MinMax
  <2>4. PICK i \in S : i = Max(S)
    BY <2>3
  <2>5. i \in F /\ a[i].path = p /\ \A j \in F : a[j].path = p => j <= i
    BY <2>3, <2>4
  <2>6. Tree(o)[p] = a[i].text
    BY <1>3, <1>5, <2>4
  <2>7. a[i].text \in Texts
    BY <1>1, <1>2, <2>5 DEF Entries
  <2> QED BY <2>5, <2>6, <2>7
<1> QED BY <1>3, <1>5 DEF a, F

\* A path of a file of a safe archive is one of the paths.
LEMMA SafePaths ==
    ASSUME NEW o \in Offers, Safe(o.archive)
    PROVE  /\ \A i \in Files(o.archive) : o.archive[i].path \in Paths \cap FilePaths(o)
           /\ FilePaths(o) \subseteq Paths
<1>1. \A i \in Files(o.archive) : o.archive[i].path \in Paths
  BY DEF Safe, Files
<1> QED BY <1>1 DEF FilePaths

\* When all files have been written the output is acceptable, and the directory has
\* what the archive describes.
LEMMA AllInPlace ==
    ASSUME Types, Captured, Downloaded, InPlace, cap.pc = "write", Left = {}
    PROVE  /\ Acceptable(cap.offer)
           /\ \A p \in FilePaths(cap.offer) : source[p] = Tree(cap.offer)[p]
           /\ \A q \in FilePaths(cap.offer) \cap Paths :
                 Parent[q] # "top" => source[Parent[q]] = "dir" /\ Parent[q] \notin FilePaths(cap.offer)
<1> DEFINE o == cap.offer
           a == o.archive
           F == Files(a)
<1>1. /\ o \in Offers /\ ~cap.cut /\ o.manifest /\ Safe(a) /\ Names \subseteq UNION ToSet(o.pages)
      /\ cap.got.source = o.bytes /\ cap.got.manifest = o.manifest_bytes
      /\ cap.got.source \in 0..MaxBytes /\ cap.got.manifest \in 0..MaxManifest
  BY FieldFacts DEF Captured, Downloaded
<1>2. o.bytes <= MaxBytes /\ o.manifest_bytes <= MaxManifest
  BY <1>1, Limits
<1>3. \A i \in F : a[i].path \in Paths \cap FilePaths(o)
  BY <1>1, SafePaths
<1>4. F \subseteq Nat /\ cap.written \in Nat
  <2>1. DOMAIN a = 1..Len(a)
    BY <1>1, OfferFacts
  <2> QED BY <2>1, FieldFacts DEF Files
<1>5. \A i \in F : i <= cap.written
  BY <1>4 DEF Left
<1>6. \A i \in F : /\ source[a[i].path] \in Texts
                   /\ Parent[a[i].path] # "top" => source[Parent[a[i].path]] = "dir"
                   /\ (\A j \in F : a[j].path = a[i].path => j <= i) => source[a[i].path] = a[i].text
  BY <1>5 DEF InPlace
<1>7. FilePaths(o) = {a[i].path : i \in F} /\ FilePaths(o) \subseteq Paths
  BY <1>1, SafePaths DEF FilePaths
<1> HIDE DEF a, F
<1>8. \A p \in FilePaths(o) : /\ source[p] \in Texts
                              /\ Parent[p] # "top" => source[Parent[p]] = "dir"
  BY <1>6, <1>7
<1>9. \A p \in FilePaths(o) : Parent[p] \notin FilePaths(o)
  BY <1>7, <1>8, PathFacts
<1>10. Acceptable(o)
  BY <1>1, <1>2, <1>9 DEF Acceptable, Names, a
<1>11. ASSUME NEW p \in FilePaths(o) PROVE source[p] = Tree(o)[p]
  <2>1. p \in Paths
    BY <1>7
  <2>2. PICK i \in F : /\ a[i].path = p /\ Tree(o)[p] = a[i].text
                       /\ \A j \in F : a[j].path = p => j <= i
    BY <1>1, <2>1, TreeFacts DEF a, F
  <2> QED BY <1>6, <2>2
<1> QED BY <1>8, <1>9, <1>10, <1>11

\* ... and nothing else, where it has nothing but what the archive describes.
LEMMA TreeInPlace ==
    ASSUME Types, Captured, Downloaded, InPlace, OnlyArchive, cap.pc = "write", Left = {}, ~reopened
    PROVE  source = Tree(offer) /\ Acceptable(offer)
<1>1. cap.offer = offer /\ status = "running" /\ offer \in Offers
  BY DEF Captured, Types
<1>2. /\ Acceptable(offer) /\ \A p \in FilePaths(offer) : source[p] = Tree(offer)[p]
      /\ \A q \in FilePaths(offer) \cap Paths : Parent[q] # "top" => source[Parent[q]] = "dir"
  BY <1>1, AllInPlace
<1>3. ASSUME NEW p \in Paths PROVE source[p] = Tree(offer)[p]
  <2>1. CASE p \in FilePaths(offer)
    BY <1>2, <2>1
  <2>2. CASE p \notin FilePaths(offer)
    <3>1. Tree(offer)[p] = IF \E q \in FilePaths(offer) : Parent[q] = p THEN "dir" ELSE "none"
      BY <1>1, <2>2, TreeFacts
    <3>2. source[p] \in {"none", "dir"}
      BY <1>1, <2>2 DEF OnlyArchive, Types
    <3>3. source[p] = "dir" <=> \E q \in FilePaths(offer) : Parent[q] = p
      <4>1. FilePaths(offer) \subseteq Paths
        <5>1. Safe(offer.archive)
          BY <1>2 DEF Acceptable
        <5> QED BY <1>1, <5>1, SafePaths
      <4>2. source[p] = "dir" => \E q \in FilePaths(offer) : Parent[q] = p
        BY <1>1 DEF OnlyArchive
      <4> QED BY <1>2, <4>1, <4>2, PathFacts
    <3> QED BY <3>1, <3>2, <3>3
  <2> QED BY <2>1, <2>2
<1>4. source = [p \in Paths |-> source[p]] /\ Tree(offer) = [p \in Paths |-> Tree(offer)[p]]
  BY DEF Types, Tree
<1> QED BY <1>2, <1>3, <1>4

\* The next file is written: InPlace and OnlyArchive, as far as the directory goes.
LEMMA WriteKeeps ==
    ASSUME Types, Captured, InPlace, OnlyArchive, WriteFile
    PROVE  (InPlace /\ OnlyArchive)'
<1> DEFINE o == cap.offer
           a == o.archive
           F == Files(a)
           k == Min(Left)
           e == a[k]
<1>1. /\ cap.pc = "write" /\ Left # {} /\ UNCHANGED <<status, faults>>
      /\ \/ Clashes(source, e) /\ Moves("verdict", FALSE) /\ source' = source
         \/ /\ ~Clashes(source, e) /\ source' = Placed(source, e)
            /\ cap'.written = k /\ cap'.pc = cap.pc /\ cap'.offer = cap.offer
  BY WriteFacts
<1>2. UNCHANGED <<offer, reopened>>
  BY CaptureFrame DEF CaptureStep
<1>3. CASE Clashes(source, e) /\ Moves("verdict", FALSE) /\ source' = source
  BY <1>1, <1>2, <1>3 DEF InPlace, OnlyArchive, Moves
<1>4. CASE /\ ~Clashes(source, e) /\ source' = Placed(source, e)
           /\ cap'.written = k /\ cap'.pc = cap.pc /\ cap'.offer = cap.offer
  <2>1. /\ k \in F /\ k > cap.written /\ k \in Nat /\ cap.written \in Nat
        /\ \A i \in F : i <= k => i <= cap.written \/ i = k
        /\ \A i \in F : a[i] \in Entries
    BY <1>1, LeftFacts, FieldFacts
  <2>2. o \in Offers /\ Safe(a) /\ status = "running" /\ (~reopened => o = offer)
    BY <1>1, FieldFacts DEF Captured
  <2>3. \A i \in F : a[i].path \in Paths \cap FilePaths(o)
    BY <2>2, SafePaths
  <2>4. e \in Entries /\ e.path \in Paths \cap FilePaths(o)
    BY <2>1, <2>3
  <2>5. /\ source'[e.path] = e.text /\ e.text \in Texts
        /\ Parent[e.path] # "top" => source'[Parent[e.path]] = "dir"
        /\ \A p \in Paths : /\ p # e.path /\ source[p] \in Texts => source'[p] = source[p]
                            /\ source[p] = "dir" => source'[p] = "dir"
                            /\ source'[p] \in Texts => p = e.path \/ source[p] \in Texts
                            /\ source'[p] = "dir" => p = Parent[e.path] \/ source[p] = "dir"
    BY <1>4, <2>4, PlacedFacts
  <2>6. \A i \in F : i <= cap.written =>
           /\ source[a[i].path] \in Texts
           /\ Parent[a[i].path] # "top" => source[Parent[a[i].path]] = "dir"
           /\ (\A j \in F : j <= cap.written /\ a[j].path = a[i].path => j <= i)
              => source[a[i].path] = a[i].text
    BY <1>1 DEF InPlace
  <2> HIDE DEF F, k
  <2>7. ASSUME NEW i \in F, i <= k
        PROVE  /\ source'[a[i].path] \in Texts
               /\ Parent[a[i].path] # "top" => source'[Parent[a[i].path]] = "dir"
               /\ (\A j \in F : j <= k /\ a[j].path = a[i].path => j <= i)
                  => source'[a[i].path] = a[i].text
    <3> DEFINE x == a[i].path
               y == e.path
               d == Parent[x]
    <3>1. x \in Paths /\ (d # "top" => d \in Paths)
      BY <2>3, PathFacts
    <3>2. e = a[k] /\ k <= k
      BY <2>1
    <3>3. CASE i = k
      BY <2>5, <3>3
    <3>4. CASE i # k
      <4>1. i <= cap.written
        BY <2>1, <2>7, <3>4
      <4>2. source[x] \in Texts /\ (d # "top" => source[d] = "dir")
        BY <2>6, <4>1
      <4>3. d # "top" => source'[d] = "dir"
        BY <2>5, <3>1, <4>2
      <4>4. source'[x] \in Texts
        BY <2>5, <3>1, <4>2
      <4>5. ASSUME \A j \in F : j <= k /\ a[j].path = x => j <= i
            PROVE  source'[x] = a[i].text
        <5>1. i \in Nat /\ i < k
          <6>1. DOMAIN a = 1..Len(a)
            BY <2>2, OfferFacts
          <6>2. i \in Nat
            BY <6>1 DEF F, Files
          <6> QED BY <2>1, <4>1, <6>2
        <5>2. y # x
          BY <2>1, <3>2, <4>5, <5>1
        <5>3. source'[x] = source[x]
          BY <2>5, <3>1, <4>2, <5>2
        <5>4. \A j \in F : j <= cap.written /\ a[j].path = x => j <= i
          <6>1. ASSUME NEW j \in F, j <= cap.written, a[j].path = x PROVE j <= i
            <7>1. j \in Nat
              <8>1. DOMAIN a = 1..Len(a)
                BY <2>2, OfferFacts
              <8> QED BY <8>1 DEF F, Files
            <7>2. j <= k
              BY <2>1, <6>1, <7>1
            <7> QED BY <4>5, <6>1, <7>2
          <6> QED BY <6>1
        <5> QED BY <2>6, <4>1, <5>3, <5>4
      <4> QED BY <4>3, <4>4, <4>5
    <3> QED BY <3>3, <3>4
  <2>8. InPlace'
    BY <1>4, <2>7 DEF InPlace, F, k
  <2>9. OnlyArchive'
    <3>1. ASSUME ~reopened, NEW p \in Paths
          PROVE  /\ source'[p] \in Texts => p \in FilePaths(offer)
                 /\ source'[p] = "dir" => \E q \in FilePaths(offer) \cap Paths : Parent[q] = p
      <4>1. e.path \in FilePaths(offer) \cap Paths
        BY <2>2, <2>4, <3>1
      <4>2. /\ source[p] \in Texts => p \in FilePaths(offer)
            /\ source[p] = "dir" => \E q \in FilePaths(offer) \cap Paths : Parent[q] = p
        BY <2>2, <3>1 DEF OnlyArchive
      <4> QED BY <2>5, <4>1, <4>2
    <3> QED BY <1>2, <3>1 DEF OnlyArchive
  <2> QED BY <2>8, <2>9
<1> QED BY <1>1, <1>3, <1>4

\* Each step keeps what is in the directory.
LEMMA DirectoryStep ==
    ASSUME Types, Captured, Downloaded, InPlace, OnlyArchive, Retained, [Next]_vars
    PROVE  (InPlace /\ OnlyArchive /\ Retained)'
<1>1. \A o \in Offers : Files(o.archive) \subseteq Nat \ {0}
  <2>1. \A o \in Offers : DOMAIN o.archive = 1..Len(o.archive)
    BY OfferFacts
  <2> QED BY <2>1 DEF Files
<1>2. CASE CaptureStep
  <2>1. UNCHANGED <<offer, reopened, sweeping, outlived>> /\ cap.offer \in Offers
    BY <1>2, CaptureFrame, FieldFacts
  <2>2. CASE WriteFile
    <3>1. status' = status
      BY <2>2, WriteFacts
    <3> QED BY <2>1, <2>2, <3>1, WriteKeeps DEF Retained
  <2>3. CASE CheckOutput
    <3>1. /\ UNCHANGED <<status, source>> /\ cap'.offer = cap.offer /\ cap'.written = cap.written
          /\ cap.pc = "check"
      BY <2>3, CheckFacts DEF Moves
    <3>2. cap'.written = 0
      BY <3>1 DEF Captured
    <3>3. {i \in Files(cap'.offer.archive) : i <= cap'.written} = {}
      BY <1>1, <2>1, <3>1, <3>2
    <3>4. InPlace'
      BY <3>3 DEF InPlace
    <3> QED BY <2>1, <3>1, <3>4 DEF OnlyArchive, Retained
  <2>4. CASE CaptureBegin \/ CaptureFails \/ ListPage \/ ReadSource \/ ReadManifest \/ Verdict
    <3>1. /\ cap'.pc # "write" /\ source' = source
          /\ status' = status \/ (status = "running" /\ status' # "deleted")
      <4>1. CASE CaptureBegin \/ CaptureFails
        BY <4>1, EdgeFacts DEF Begins, Moves
      <4>2. CASE ListPage
        BY <4>2, ListFacts DEF Moves
      <4>3. CASE ReadSource \/ ReadManifest
        BY <4>3, TurnFacts DEF Moves, Turns
      <4>4. CASE Verdict
        <5>1. cap.pc # "idle"
          BY <4>4, EdgeFacts
        <5>2. status = "running"
          BY <5>1 DEF Captured
        <5> QED BY <4>4, <5>2, EdgeFacts DEF Begins
      <4> QED BY <2>4, <4>1, <4>2, <4>3, <4>4
    <3> QED BY <2>1, <3>1 DEF InPlace, OnlyArchive, Retained
  <2> QED BY <1>2, <2>2, <2>3, <2>4 DEF CaptureStep
<1>3. CASE PublishStep
  <2>1. UNCHANGED <<offer, reopened, status, source, cap, sweeping, outlived>>
    BY <1>3, PublishFrame
  <2> QED BY <2>1 DEF InPlace, OnlyArchive, Retained
<1>4. CASE Steer
  BY <1>4 DEF Steer, InPlace, OnlyArchive, Retained
<1>5. CASE Expire
  BY <1>5 DEF Expire, InPlace, OnlyArchive, Retained
<1>6. CASE Sweep
  <2>1. UNCHANGED <<offer, reopened, status, cap, sweeping, outlived>> /\ status = "deleted"
    BY <1>6 DEF Sweep, Sweeps, Retained
  <2>2. cap.pc = "idle"
    BY <2>1 DEF Captured
  <2> QED BY <2>1, <2>2 DEF InPlace, OnlyArchive, Retained
<1>7. CASE SweepFails
  BY <1>7 DEF SweepFails, Sweeps, InPlace, OnlyArchive, Retained
<1>8. CASE Crash
  BY <1>8 DEF Crash, NoCap, InPlace, OnlyArchive, Retained
<1>9. CASE UNCHANGED vars
  BY <1>9 DEF vars, InPlace, OnlyArchive, Retained
<1> QED BY <1>2, <1>3, <1>4, <1>5, <1>6, <1>7, <1>8, <1>9, Steps

-----------------------------------------------------------------------------
(* The verdict.                                                            *)

\* What is listed, too large, unsafe or in its own way cannot be accepted.
LEMMA FailuresFit ==
    ASSUME Types, Captured, Downloaded, OnlyArchive, ~reopened, faults' = 0, cap'.pc = "verdict",
           ListPage \/ ReadSource \/ ReadManifest \/ CheckOutput \/ WriteFile
    PROVE  ~Acceptable(offer)
<1> DEFINE o == cap.offer
<1>1. CASE ListPage
  <2> DEFINE items == cap.items \cup o.pages[cap.page]
  <2>1. cap.pc = "list" /\ cap.page = Len(o.pages) /\ ~(Names \subseteq items)
    BY <1>1, ListFacts DEF Moves
  <2>2. o \in Offers /\ o = offer /\ cap.page \in 1..Len(o.pages)
    BY <2>1, FieldFacts DEF Captured
  <2>3. items = UNION ToSet(o.pages)
    <3>1. cap.items = Before(o, cap.page)
      BY <2>1 DEF Captured, Before
    <3> QED BY <2>1, <2>2, <3>1, PageFacts
  <2> QED BY <2>1, <2>2, <2>3 DEF Acceptable, Names
<1>2. CASE ReadSource \/ ReadManifest
  <2>1. CASE cap.pc = "source" /\ Turns("source", "manifest", o.bytes, MaxBytes, "manifest")
    <3>1. o.bytes > MaxBytes /\ o = offer
      BY <2>1, FaultFacts DEF Turns, Moves, Captured
    <3> QED BY <3>1, FieldFacts, OfferFacts, Limits DEF Acceptable
  <2>2. CASE cap.pc = "manifest" /\ Turns("manifest", "source", o.manifest_bytes, MaxManifest, "check")
    <3>1. o.manifest_bytes > MaxManifest /\ o = offer
      BY <2>2, FaultFacts DEF Turns, Moves, Captured
    <3> QED BY <3>1, FieldFacts, OfferFacts, Limits DEF Acceptable
  <2> QED BY <1>2, <2>1, <2>2, TurnFacts
<1>3. CASE CheckOutput
  <2>1. cap.pc = "check" /\ faults = 0 /\ (cap.cut \/ ~o.manifest \/ ~Safe(o.archive))
    BY <1>3, CheckFacts DEF Moves
  <2>2. ~cap.cut /\ o = offer
    BY <2>1 DEF Captured
  <2> QED BY <2>1, <2>2 DEF Acceptable
<1>4. CASE WriteFile
  <2> DEFINE e == o.archive[Min(Left)]
             x == e.path
             d == Parent[e.path]
  <2>1. cap.pc = "write" /\ Left # {} /\ Clashes(source, e)
    BY <1>4, WriteFacts DEF Moves
  <2>2. o = offer /\ o \in Offers /\ Safe(o.archive) /\ status = "running"
    BY <2>1, FieldFacts DEF Captured
  <2>3. Min(Left) \in Files(o.archive)
    BY <2>1, LeftFacts
  <2>4. x \in Paths /\ x \in FilePaths(offer)
    BY <2>2, <2>3, SafePaths
  <2>5. source[x] = "dir" \/ (d # "top" /\ source[d] \notin {"none", "dir"})
    BY <2>1 DEF Clashes
  <2> HIDE DEF x
  <2>6. CASE source[x] = "dir"
    <3>1. \E q \in FilePaths(offer) \cap Paths : Parent[q] = x
      BY <2>2, <2>4, <2>6 DEF OnlyArchive
    <3> QED BY <2>4, <3>1 DEF Acceptable
  <2>7. CASE d # "top" /\ source[d] \notin {"none", "dir"}
    <3>1. d \in Paths
      BY <2>4, <2>7, PathFacts DEF x
    <3>2. source[d] \in Texts
      BY <2>7, <3>1 DEF Types
    <3>3. d \in FilePaths(offer)
      BY <2>2, <3>1, <3>2 DEF OnlyArchive
    <3> QED BY <2>4, <3>3 DEF Acceptable, x
  <2> QED BY <2>5, <2>6, <2>7
<1> QED BY <1>1, <1>2, <1>3, <1>4

\* Each step keeps the verdict fitting.
LEMMA JudgedStep ==
    ASSUME Types, Captured, Downloaded, InPlace, OnlyArchive, Retained, Judged, [Next]_vars
    PROVE  Judged'
<1>1. CASE CaptureStep
  <2>1. UNCHANGED <<offer, reopened>>
    BY <1>1, CaptureFrame
  <2>2. faults' = 0 => faults = 0
    <3>0. Fault => faults' # 0
      BY FaultFacts
    <3>1. CASE ReadSource \/ ReadManifest
      <4>1. faults' = faults \/ Fault
        <5>1. CASE Turns("source", "manifest", cap.offer.bytes, MaxBytes, "manifest")
          BY <5>1 DEF Turns
        <5>2. CASE Turns("manifest", "source", cap.offer.manifest_bytes, MaxManifest, "check")
          BY <5>2 DEF Turns
        <5> QED BY <3>1, <5>1, <5>2, TurnFacts
      <4> QED BY <3>0, <4>1
    <3>2. CASE ListPage
      BY <3>2, ListFacts
    <3>3. CASE CaptureBegin \/ CaptureFails \/ CheckOutput \/ WriteFile \/ Verdict
      <4>1. faults' = faults \/ Fault
        BY <3>3, EdgeFacts, CheckFacts, WriteFacts
      <4> QED BY <3>0, <4>1
    <3> QED BY <1>1, <3>1, <3>2, <3>3 DEF CaptureStep
  <2>3. CASE ListPage \/ ReadSource \/ ReadManifest \/ CheckOutput \/ WriteFile
    <3>1. status' = status /\ cap.pc # "idle"
      BY <2>3, ListFacts, TurnFacts, CheckFacts, WriteFacts
    <3>2. status = "running"
      BY <3>1 DEF Captured
    <3> QED BY <2>1, <2>3, <3>1, <3>2, FailuresFit DEF Judged
  <2>4. CASE CaptureBegin
    <3>1. cap'.pc = "list" /\ UNCHANGED <<status, source, faults>>
      BY <2>4, EdgeFacts DEF Begins
    <3> QED BY <2>1, <3>1 DEF Judged
  <2>5. CASE CaptureFails
    <3>1. cap.pc # "idle" /\ faults' > 0 /\ status' = status
      BY <2>5, EdgeFacts, FaultFacts
    <3>2. status = "running" /\ faults' # 0
      BY <3>1 DEF Captured
    <3> QED BY <2>1, <3>1, <3>2 DEF Judged
  <2>6. CASE Verdict
    <3>1. /\ cap.pc = "verdict" \/ (cap.pc = "write" /\ Left = {})
          /\ status' = (IF cap.ok THEN "completed" ELSE "failed")
          /\ cap'.pc = "idle" /\ UNCHANGED <<source, faults>>
      BY <2>6, EdgeFacts DEF Begins
    <3>2. CASE cap.pc = "verdict"
      <4>1. status' = "failed"
        BY <3>1, <3>2 DEF Captured
      <4> QED BY <2>1, <3>1, <3>2, <4>1 DEF Judged
    <3>3. CASE cap.pc = "write" /\ Left = {}
      <4>1. cap.ok = TRUE
        BY <3>3, FieldFacts DEF Captured
      <4>2. ~reopened => source = Tree(offer) /\ Acceptable(offer)
        BY <3>3, TreeInPlace
      <4>3. source' = source /\ Tree(offer)' = Tree(offer) /\ Acceptable(offer)' = Acceptable(offer)
        BY <2>1, <3>1
      <4> QED BY <2>1, <3>1, <4>1, <4>2, <4>3 DEF Judged
    <3> QED BY <3>1, <3>2, <3>3
  <2> QED BY <1>1, <2>3, <2>4, <2>5, <2>6 DEF CaptureStep
<1>2. CASE PublishStep
  <2>1. UNCHANGED <<offer, reopened, status, source, cap>>
    BY <1>2, PublishFrame
  <2>2. faults' = 0 => faults = 0
    BY <1>2, PublishFacts, FaultFacts DEF PublishStep
  <2> QED BY <2>1, <2>2 DEF Judged
<1>3. CASE Steer
  BY <1>3 DEF Steer, Judged
<1>4. CASE Expire
  <2>1. cap.pc = "idle" /\ cap' = cap /\ status' = "deleted"
    BY <1>4 DEF Expire, Captured
  <2> QED BY <2>1 DEF Judged
<1>5. CASE Sweep
  <2>1. UNCHANGED <<offer, reopened, status, cap, faults>> /\ status = "deleted"
    BY <1>5 DEF Sweep, Sweeps, Retained
  <2> QED BY <2>1 DEF Judged
<1>6. CASE SweepFails \/ Crash
  <2>1. faults' # 0 /\ UNCHANGED <<offer, reopened, status, source>>
    <3>1. faults' > 0
      BY <1>6, FaultFacts DEF SweepFails, Crash
    <3> QED BY <1>6, <3>1 DEF SweepFails, Sweeps, Crash
  <2> QED BY <2>1 DEF Judged
<1>7. CASE UNCHANGED vars
  BY <1>7 DEF vars, Judged
<1> QED BY <1>1, <1>2, <1>3, <1>4, <1>5, <1>6, <1>7, Steps

-----------------------------------------------------------------------------
(* The publication.                                                        *)

\* What is due are the files of the tree that are not skipped.
LEMMA DueFacts ==
    ASSUME NEW o
    PROVE  /\ \A f \in Due(o) : /\ f[1] \in Paths /\ f = <<f[1], Tree(o)[f[1]]>> /\ ~Skipped(f[1])
                                /\ Tree(o)[f[1]] \notin {"none", "dir"}
           /\ \A p \in Paths : Tree(o)[p] \notin {"none", "dir"} /\ ~Skipped(p)
                                  => <<p, Tree(o)[p]>> \in Due(o)
<1> DEFINE t == Tree(o)
<1> HIDE DEF t
<1>1. Due(o) = {f \in {<<p, t[p]>> : p \in {q \in Paths : t[q] \notin {"none", "dir"}}} :
                  f[1] \notin Excluded /\ Parent[f[1]] \notin Excluded}
  BY DEF Due, FilesOf, t
<1>2. ASSUME NEW f \in Due(o)
      PROVE  /\ f[1] \in Paths /\ f = <<f[1], t[f[1]]>> /\ ~Skipped(f[1])
             /\ t[f[1]] \notin {"none", "dir"}
  BY <1>1 DEF Skipped
<1>3. ASSUME NEW p \in Paths, t[p] \notin {"none", "dir"}, ~Skipped(p)
      PROVE  <<p, t[p]>> \in Due(o)
  BY <1>1, <1>3 DEF Skipped
<1> QED BY <1>2, <1>3 DEF t

\* An idle publisher has read nothing.
LEMMA NoPubFacts ==
    NoPub.pc = "idle" /\ NoPub.tree = {} /\ NoPub.files = {}
BY DEF NoPub

\* A publication that is given up leaves the row and the branch as they are.
LEMMA GivenUp ==
    ASSUME Published, pub' = NoPub, job'.tree \in {job.tree, {}}, branch' = branch,
           offer' = offer, reopened' = reopened, outlived' = outlived
    PROVE  (Reading /\ Published)'
<1>1. pub'.pc = "idle" /\ pub'.tree = {} /\ pub'.files = {}
  BY NoPubFacts
<1>2. Due(offer)' = Due(offer)
  BY DEF Due, Tree, FilesOf
<1>3. Reading'
  BY <1>1 DEF Reading
<1>4. Published'
  <2> DEFINE D == Due(offer)
  <2>1. D' = D
    BY <1>2
  <2> HIDE DEF D
  <2>2. /\ \A f \in job.tree \cup pub.tree \cup pub.files \cup branch : f[2] # Secret
        /\ ~reopened => job.tree \cup pub.tree \cup pub.files \cup branch \subseteq D
        /\ ~reopened /\ ~outlived => {job.tree, pub.tree, branch} \subseteq {{}, D}
    BY DEF Published, D
  <2>3. /\ \A f \in job'.tree \cup pub'.tree \cup pub'.files \cup branch' : f[2] # Secret
        /\ ~reopened' => job'.tree \cup pub'.tree \cup pub'.files \cup branch' \subseteq D
        /\ ~reopened' /\ ~outlived' => {job'.tree, pub'.tree, branch'} \subseteq {{}, D}
    BY <1>1, <2>2
  <2> QED BY <2>1, <2>3 DEF Published, D
<1> QED BY <1>3, <1>4

\* Each step of the publisher keeps what it has read, journaled and committed whole.
LEMMA PublisherKeeps ==
    ASSUME Types, Judged, Retained, Reading, Published, PublishStep
    PROVE  (Reading /\ Published)'
<1> DEFINE D == Due(offer)
           t == Tree(offer)
<1>0. UNCHANGED <<offer, reopened, status, source, cap, sweeping, outlived>>
  BY PublishFrame
<1>1. Due(offer)' = D /\ Tree(offer)' = t
  BY <1>0 DEF Due, Tree, FilesOf
<1>2. /\ \A f \in D : f[1] \in Paths /\ f = <<f[1], t[f[1]]>> /\ ~Skipped(f[1])
                      /\ t[f[1]] \notin {"none", "dir"}
      /\ \A p \in Paths : t[p] \notin {"none", "dir"} /\ ~Skipped(p) => <<p, t[p]>> \in D
  BY DueFacts
<1>3. ~reopened /\ status = "completed" => source = t
  BY DEF Judged
<1> HIDE DEF D, t
<1>4. /\ \A f \in job.tree \cup pub.tree \cup pub.files \cup branch : f[2] # Secret
      /\ ~reopened => job.tree \cup pub.tree \cup pub.files \cup branch \subseteq D
      /\ ~reopened /\ ~outlived => {job.tree, pub.tree, branch} \subseteq {{}, D}
  BY DEF Published, D
<1>5. pub.pc # "idle" =>
        /\ status \in {"completed", "deleted"} /\ (status = "deleted" => outlived)
        /\ ~reopened => \A p \in Paths : source[p] \in {"none", t[p]}
        /\ ~reopened /\ ~outlived =>
              /\ pub.pc = "read" => \A f \in D : f[1] \in pub.todo \/ f \in pub.files
              /\ pub.pc # "read" => pub.files = D
  BY DEF Reading, D, t
<1> DEFINE NowReading ==
             /\ status \in {"completed", "deleted"} /\ (status = "deleted" => outlived)
             /\ ~reopened => \A p \in Paths : source[p] \in {"none", t[p]}
             /\ ~reopened /\ ~outlived =>
                   /\ pub'.pc = "read" => \A f \in D : f[1] \in pub'.todo \/ f \in pub'.files
                   /\ pub'.pc # "read" => pub'.files = D
           NowPublished ==
             /\ \A f \in job'.tree \cup pub'.tree \cup pub'.files \cup branch' : f[2] # Secret
             /\ ~reopened => job'.tree \cup pub'.tree \cup pub'.files \cup branch' \subseteq D
             /\ ~reopened /\ ~outlived => {job'.tree, pub'.tree, branch'} \subseteq {{}, D}
<1>6. ASSUME NowReading, NowPublished PROVE (Reading /\ Published)'
  <2>1. Reading'
    BY <1>0, <1>1, <1>6 DEF Reading, D, t
  <2>2. Published'
    BY <1>0, <1>1, <1>6 DEF Published, D
  <2> QED BY <2>1, <2>2
<1>7. CASE PubBegin
  <2>1. /\ status = "completed" /\ branch' = branch
        /\ pub'.pc = "read" /\ pub'.files = {} /\ pub'.tree = job.tree
        /\ pub'.todo = {p \in Paths : source[p] # "none"} /\ job'.tree = job.tree
    BY <1>7, PublishFacts
  <2>2. NowPublished
    BY <1>4, <2>1
  <2>3. ~reopened => source = t
    BY <1>3, <2>1
  <2>4. NowReading
    <3>1. ~reopened => \A f \in D : f[1] \in pub'.todo
      BY <1>2, <2>1, <2>3
    <3> QED BY <2>1, <2>3, <3>1
  <2> QED BY <1>6, <2>2, <2>4
<1>8. CASE PubRead
  <2>1. /\ pub.pc = "read" /\ UNCHANGED <<job, branch, faults>>
        /\ \/ pub' = NoPub
           \/ \E p \in pub.todo :
                 /\ pub' \in Publishers /\ pub'.pc = "read" /\ pub'.tree = pub.tree
                 /\ pub'.todo = pub.todo \ {p}
                 /\ \/ /\ Skipped(p) \/ source[p] \in {"none", "dir"}
                       /\ pub'.files = pub.files
                    \/ /\ ~Skipped(p) /\ source[p] \in Texts \ {Secret}
                       /\ pub'.files = pub.files \cup {<<p, source[p]>>}
    BY <1>8, PublishFacts
  <2>2. CASE pub' = NoPub
    BY <1>0, <2>1, <2>2, GivenUp
  <2>3. CASE pub' # NoPub
    <3>1. PICK p \in pub.todo :
             /\ pub'.pc = "read" /\ pub'.tree = pub.tree
             /\ pub'.todo = pub.todo \ {p}
             /\ \/ /\ Skipped(p) \/ source[p] \in {"none", "dir"}
                   /\ pub'.files = pub.files
                \/ /\ ~Skipped(p) /\ source[p] \in Texts \ {Secret}
                   /\ pub'.files = pub.files \cup {<<p, source[p]>>}
      BY <2>1, <2>3
    <3>2. p \in Paths
      BY FieldFacts
    <3>3. CASE (Skipped(p) \/ source[p] \in {"none", "dir"}) /\ pub'.files = pub.files
      <4>1. NowPublished
        BY <1>4, <2>1, <3>1, <3>3
      <4>2. ASSUME ~reopened, ~outlived, NEW f \in D
            PROVE  f[1] \in pub'.todo \/ f \in pub'.files
        <5>1. source = t
          BY <1>3, <1>5, <2>1, <4>2
        <5>2. f[1] # p
          BY <1>2, <3>3, <5>1
        <5> QED BY <1>5, <2>1, <3>1, <3>3, <4>2, <5>2
      <4>3. NowReading
        BY <1>5, <2>1, <3>1, <4>2
      <4> QED BY <1>6, <4>1, <4>3
    <3>4. CASE /\ ~Skipped(p) /\ source[p] \in Texts \ {Secret}
               /\ pub'.files = pub.files \cup {<<p, source[p]>>}
      <4>1. source[p] \notin {"none", "dir"} /\ <<p, source[p]>>[2] # Secret
        BY <3>4, PathFacts
      <4>2. ~reopened => <<p, source[p]>> \in D
        <5>1. ~reopened => source[p] = t[p]
          BY <1>5, <2>1, <3>2, <4>1
        <5> QED BY <1>2, <3>2, <3>4, <4>1, <5>1
      <4> DEFINE new == <<p, source[p]>>
      <4> HIDE DEF new
      <4>3. pub'.files = pub.files \cup {new} /\ new[2] # Secret /\ (~reopened => new \in D)
        BY <3>4, <4>1, <4>2 DEF new
      <4>4. NowPublished
        BY <1>4, <2>1, <3>1, <4>3
      <4>5. ASSUME ~reopened, ~outlived, NEW f \in D
            PROVE  f[1] \in pub'.todo \/ f \in pub'.files
        <5>1. source = t
          BY <1>3, <1>5, <2>1, <4>5
        <5>2. f[1] = p => f = new
          BY <1>2, <5>1 DEF new
        <5>3. f[1] \in pub.todo \/ f \in pub.files
          BY <1>5, <2>1, <4>5
        <5> QED BY <3>1, <4>3, <5>2, <5>3
      <4>6. NowReading
        BY <1>5, <2>1, <3>1, <4>5
      <4> QED BY <1>6, <4>4, <4>6
    <3> QED BY <3>1, <3>3, <3>4
  <2> QED BY <2>2, <2>3
<1>9. CASE PubCreate
  <2>1. /\ pub.pc = "read" /\ pub.todo = {} /\ UNCHANGED <<branch, faults>> /\ job'.tree = job.tree
        /\ \/ pub' = NoPub
           \/ pub'.pc = "commit" /\ pub'.tree = pub.tree /\ pub'.files = pub.files
    BY <1>9, PublishFacts
  <2>2. CASE pub' = NoPub
    BY <1>0, <2>1, <2>2, GivenUp
  <2>3. CASE pub'.pc = "commit" /\ pub'.tree = pub.tree /\ pub'.files = pub.files
    <3>1. NowPublished
      BY <1>4, <2>1, <2>3
    <3>2. ~reopened /\ ~outlived => pub.files = D
      BY <1>4, <1>5, <2>1
    <3>3. NowReading
      BY <1>5, <2>1, <2>3, <3>2
    <3> QED BY <1>6, <3>1, <3>3
  <2> QED BY <2>1, <2>2, <2>3
<1>10. CASE PubTree
  <2>1. /\ pub.pc = "commit" /\ UNCHANGED <<branch, faults>> /\ pub'.pc = "ref"
        /\ pub'.tree = pub.tree /\ pub'.files = (IF pub.tree # {} THEN pub.tree ELSE pub.files)
        /\ job'.tree \in {job.tree, pub'.files}
    BY <1>10, PublishFacts
  <2>2. ~reopened /\ ~outlived => pub'.files = D
    BY <1>4, <1>5, <2>1
  <2>3. NowPublished
    BY <1>4, <2>1, <2>2
  <2>4. NowReading
    BY <1>5, <2>1, <2>2
  <2> QED BY <1>6, <2>3, <2>4
<1>11. CASE PubRef
  <2>1. pub.pc = "ref" /\ branch' = pub.files /\ pub' = NoPub /\ job'.tree = job.tree
    BY <1>11, PublishFacts
  <2>2. pub'.pc = "idle" /\ pub'.tree = {} /\ pub'.files = {}
    BY <2>1, NoPubFacts
  <2>3. ~reopened /\ ~outlived => pub.files = D
    BY <1>5, <2>1
  <2>4. NowPublished
    BY <1>4, <2>1, <2>2, <2>3
  <2>5. Reading'
    BY <2>2 DEF Reading
  <2>6. Published'
    BY <1>0, <1>1, <2>4 DEF Published, D
  <2> QED BY <2>5, <2>6
<1>12. CASE PubFails
  <2>1. pub' = NoPub /\ UNCHANGED <<job, branch>>
    BY <1>12, PublishFacts
  <2> QED BY <1>0, <2>1, GivenUp
<1> QED BY <1>7, <1>8, <1>9, <1>10, <1>11, <1>12 DEF PublishStep

\* So does each other step.
LEMMA OthersKeep ==
    ASSUME Types, Captured, Retained, Reading, Published,
           CaptureStep \/ Steer \/ Expire \/ Sweep \/ SweepFails \/ Crash \/ UNCHANGED vars
    PROVE  (Reading /\ Published)'
<1>1. ASSUME UNCHANGED <<offer, reopened, job, pub, branch, outlived>>, pub.pc = "idle"
      PROVE  (Reading /\ Published)'
  <2>1. Due(offer)' = Due(offer)
    BY <1>1 DEF Due, Tree, FilesOf
  <2> QED BY <1>1, <2>1 DEF Reading, Published
<1>2. CASE CaptureStep
  <2>1. status = "running"
    <3>1. CASE CaptureBegin \/ CaptureFails \/ Verdict
      BY <3>1, EdgeFacts DEF Captured
    <3>2. CASE ListPage \/ ReadSource \/ ReadManifest \/ CheckOutput \/ WriteFile
      <4>1. cap.pc # "idle"
        <5>1. CASE ReadSource \/ ReadManifest
          BY <5>1 DEF ReadSource, ReadManifest, ReadChunk, CapAt
        <5>2. CASE ListPage
          BY <5>2 DEF ListPage, CapAt
        <5>3. CASE CheckOutput \/ WriteFile
          BY <5>3, CheckFacts, WriteFacts
        <5> QED BY <3>2, <5>1, <5>2, <5>3
      <4> QED BY <4>1 DEF Captured
    <3> QED BY <1>2, <3>1, <3>2 DEF CaptureStep
  <2>2. pub.pc = "idle"
    BY <2>1 DEF Reading
  <2> QED BY <1>1, <1>2, <2>2, CaptureFrame
<1>3. CASE Steer
  <2>1. UNCHANGED <<job, pub, branch, outlived>> /\ reopened' = TRUE /\ status = "running"
    BY <1>3 DEF Steer
  <2>2. pub.pc = "idle"
    BY <2>1 DEF Reading
  <2> QED BY <2>1, <2>2 DEF Reading, Published
<1>4. CASE Expire
  <2>1. /\ status \in {"completed", "failed"} /\ status' = "deleted" /\ job'.tree = {}
        /\ outlived' = (pub.pc # "idle") /\ UNCHANGED <<offer, reopened, source, pub, branch>>
    BY <1>4 DEF Expire
  <2>2. outlived = FALSE
    BY <2>1 DEF Retained, Types
  <2>3. Due(offer)' = Due(offer) /\ Tree(offer)' = Tree(offer)
    BY <2>1 DEF Due, Tree, FilesOf
  <2>4. Reading'
    BY <2>1, <2>2, <2>3 DEF Reading
  <2> DEFINE D == Due(offer)
  <2>5. D' = D
    BY <2>3
  <2> HIDE DEF D
  <2>6. /\ \A f \in job.tree \cup pub.tree \cup pub.files \cup branch : f[2] # Secret
        /\ ~reopened => job.tree \cup pub.tree \cup pub.files \cup branch \subseteq D
        /\ ~reopened /\ ~outlived => {job.tree, pub.tree, branch} \subseteq {{}, D}
    BY DEF Published, D
  <2>7. /\ \A f \in job'.tree \cup pub'.tree \cup pub'.files \cup branch' : f[2] # Secret
        /\ ~reopened' => job'.tree \cup pub'.tree \cup pub'.files \cup branch' \subseteq D
        /\ ~reopened' /\ ~outlived' => {job'.tree, pub'.tree, branch'} \subseteq {{}, D}
    BY <2>1, <2>2, <2>6
  <2>8. Published'
    BY <2>5, <2>7 DEF Published, D
  <2> QED BY <2>4, <2>8
<1>5. CASE Sweep
  <2>1. /\ UNCHANGED <<offer, reopened, status, job, pub, branch, outlived>> /\ status = "deleted"
        /\ \E p \in Paths : source' = [source EXCEPT ![p] = "none"]
    BY <1>5 DEF Sweep, Sweeps, Retained
  <2>2. \A p \in Paths : source'[p] \in {"none", source[p]}
    BY <2>1 DEF Types
  <2>3. Due(offer)' = Due(offer) /\ Tree(offer)' = Tree(offer)
    BY <2>1 DEF Due, Tree, FilesOf
  <2>4. Published'
    BY <2>1, <2>3 DEF Published
  <2>5. CASE pub.pc = "idle"
    BY <2>1, <2>4, <2>5 DEF Reading
  <2>6. CASE pub.pc # "idle"
    <3>1. outlived /\ (~reopened => \A p \in Paths : source[p] \in {"none", Tree(offer)[p]})
      BY <2>1, <2>6 DEF Reading
    <3>2. ~reopened => \A p \in Paths : source'[p] \in {"none", Tree(offer)[p]}
      BY <2>2, <3>1
    <3>3. Reading'
      BY <2>1, <2>3, <3>1, <3>2 DEF Reading
    <3> QED BY <2>4, <3>3
  <2> QED BY <2>5, <2>6
<1>6. CASE SweepFails \/ UNCHANGED vars
  <2>1. UNCHANGED <<offer, reopened, status, source, job, pub, branch, outlived>>
    BY <1>6 DEF SweepFails, Sweeps, vars
  <2>2. Due(offer)' = Due(offer) /\ Tree(offer)' = Tree(offer)
    BY <2>1 DEF Due, Tree, FilesOf
  <2> QED BY <2>1, <2>2 DEF Reading, Published
<1>7. CASE Crash
  BY <1>7, GivenUp DEF Crash
<1> QED BY <1>2, <1>3, <1>4, <1>5, <1>6, <1>7

-----------------------------------------------------------------------------
(* The theorems.                                                           *)

\* The invariant holds at first.
LEMMA InitInvariant == Init => IndInv
<1> SUFFICES ASSUME Init PROVE IndInv
  OBVIOUS
<1>1. /\ offer \in Offers /\ reopened = FALSE /\ status = "running"
      /\ source = [p \in Paths |-> "none"] /\ cap = NoCap /\ pub = NoPub
      /\ job = [phase |-> "none", tree |-> {}] /\ branch = {} /\ sweeping = FALSE
      /\ outlived = FALSE /\ faults = 0
  BY DEF Init
<1>2. /\ cap.pc = "idle" /\ cap.ok = TRUE /\ cap.offer = offer /\ cap.cut = FALSE
      /\ cap.got.source = 0 /\ cap.got.manifest = 0
  BY <1>1 DEF NoCap
<1>3. pub.pc = "idle" /\ pub.tree = {} /\ pub.files = {} /\ job.tree = {}
  BY <1>1, NoPubFacts
<1>4. Types
  <2>1. 0 \in 0..MaxBytes /\ 0 \in 0..MaxManifest /\ 0 \in 0..MaxFaults
    BY Limits
  <2>2. cap \in Captures /\ pub \in Publishers
    BY <1>1, <2>1 DEF NoCap, NoPub, Captures, Publishers, CapPcs, Phases, Trees
  <2>3. job \in PublishJobs /\ branch \in Trees
    BY <1>1 DEF PublishJobs, Phases, Trees
  <2> QED BY <1>1, <2>1, <2>2, <2>3 DEF Types
<1>5. Captured
  BY <1>1, <1>2 DEF Captured
<1>6. Downloaded
  BY <1>1, <1>2, OfferFacts DEF Downloaded
<1>7. InPlace /\ Retained /\ Judged
  BY <1>1, <1>2 DEF InPlace, Retained, Judged
<1>8. OnlyArchive
  BY <1>1, PathFacts DEF OnlyArchive
<1>9. Reading /\ Published
  BY <1>1, <1>3 DEF Reading, Published
<1> QED BY <1>4, <1>5, <1>6, <1>7, <1>8, <1>9 DEF IndInv

\* Every step keeps it.
LEMMA NextInvariant == IndInv /\ [Next]_vars => IndInv'
<1> SUFFICES ASSUME IndInv, [Next]_vars PROVE IndInv'
  OBVIOUS
<1>0. /\ Types /\ Captured /\ Downloaded /\ InPlace /\ OnlyArchive /\ Judged
      /\ Retained /\ Reading /\ Published
  BY DEF IndInv
<1>1. Types'
  BY <1>0, TypesStep
<1>2. (Captured /\ Downloaded)'
  BY <1>0, Steps, CaptureFinds, CaptureDownloads, OthersFind
<1>3. (InPlace /\ OnlyArchive /\ Retained)'
  BY <1>0, DirectoryStep
<1>4. Judged'
  BY <1>0, JudgedStep
<1>5. (Reading /\ Published)'
  BY <1>0, Steps, PublisherKeeps, OthersKeep
<1> QED BY <1>1, <1>2, <1>3, <1>4, <1>5 DEF IndInv

\* What a session leaves behind is downloaded whole, judged by what it is, found in
\* the directory and published, whatever fails (service.py, agents.py,
\* artifacts.py, github.py).
THEOREM OutputsCorrect == Spec => []IndInv
BY InitInvariant, NextInvariant, PTL DEF Spec

\* Every variable keeps to the values the code gives it.
THEOREM TypeCorrect == Spec => []TypeOK
<1>1. IndInv => TypeOK
  BY TypesSuffice DEF IndInv
<1> QED BY <1>1, OutputsCorrect, PTL

\* Pagination and limits do not lose or cut an artifact: a download that the
\* connection did not cut is the whole artifact (download_artifact).
THEOREM WholeDownloads == Spec => []DownloadWhole
<1>1. IndInv => DownloadWhole
  BY DEF IndInv, Downloaded, DownloadWhole
<1> QED BY <1>1, OutputsCorrect, PTL

\* A task is completed only with an acceptable output, and fails with one only
\* if a request failed (_capture, extract_source).
THEOREM FittingVerdicts == Spec => []VerdictFits
<1>1. IndInv => VerdictFits
  BY DEF IndInv, Judged, VerdictFits
<1> QED BY <1>1, OutputsCorrect, PTL

\* A commit has the publishable files of the archive and no others
\* (publishable_files, _publish).
THEOREM WholePublications == Spec => []PublishedWhole
<1>1. IndInv => PublishedWhole
  <2> SUFFICES ASSUME IndInv, branch # {}
               PROVE  /\ \A f \in branch : f[2] # Secret
                      /\ ~reopened => branch \subseteq Due(offer)
                      /\ ~reopened /\ ~outlived => branch = Due(offer)
    BY DEF PublishedWhole, Due
  <2> DEFINE D == Due(offer)
  <2> HIDE DEF D
  <2>1. /\ \A f \in job.tree \cup pub.tree \cup pub.files \cup branch : f[2] # Secret
        /\ ~reopened => job.tree \cup pub.tree \cup pub.files \cup branch \subseteq D
        /\ ~reopened /\ ~outlived => {job.tree, pub.tree, branch} \subseteq {{}, D}
    BY DEF IndInv, Published, D
  <2>2. /\ \A f \in branch : f[2] # Secret
        /\ ~reopened => branch \subseteq D
        /\ ~reopened /\ ~outlived => branch = D
    BY <2>1
  <2> QED BY <2>2 DEF D
<1> QED BY <1>1, OutputsCorrect, PTL

\* No file is written before the whole archive has been found safe
\* (extract_source).
THEOREM ChecksComeFirst == Spec => CheckedFirst
<1>1. IndInv /\ [Next]_vars =>
        [WriteFile /\ source' # source => cap.offer.manifest /\ Safe(cap.offer.archive)]_vars
  <2> SUFFICES ASSUME IndInv, WriteFile PROVE cap.offer.manifest /\ Safe(cap.offer.archive)
    OBVIOUS
  <2>1. cap.pc = "write"
    BY WriteFacts DEF IndInv
  <2> QED BY <2>1 DEF IndInv, Captured
<1> QED BY <1>1, OutputsCorrect, PTL DEF Spec, CheckedFirst

\* The directory of a completed task has the files of its archive, whatever
\* captures were cut off before (extract_source).
THEOREM SourceHasArchive == Spec => SourceIsArchive
<1>1. IndInv /\ [Next]_vars =>
        [Verdict /\ status' = "completed" =>
            /\ \A p \in FilePaths(cap.offer) : source[p] = Tree(cap.offer)[p]
            /\ ~reopened => source = Tree(offer)]_vars
  <2> SUFFICES ASSUME IndInv, Verdict, status' = "completed"
               PROVE  /\ \A p \in FilePaths(cap.offer) : source[p] = Tree(cap.offer)[p]
                      /\ ~reopened => source = Tree(offer)
    OBVIOUS
  <2>0. Types /\ Captured /\ Downloaded /\ InPlace /\ OnlyArchive
    BY DEF IndInv
  <2>1. /\ cap.pc = "verdict" \/ (cap.pc = "write" /\ Left = {})
        /\ status' = IF cap.ok THEN "completed" ELSE "failed"
    BY <2>0, EdgeFacts
  <2>2. cap.pc = "write" /\ Left = {}
    BY <2>0, <2>1 DEF Captured
  <2> QED BY <2>0, <2>2, AllInPlace, TreeInPlace
<1> QED BY <1>1, OutputsCorrect, PTL DEF Spec, SourceIsArchive

=============================================================================
