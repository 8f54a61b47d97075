---------------------------- MODULE PublishProofs ---------------------------
(***************************************************************************)
(* Publish's safety properties for any files, configurations and number of *)
(* pushes.                                                                 *)
(*                                                                         *)
(* Half of it is about the functions: pages are those DESIGN-0004 asks for *)
(* (PagesAreDesired), documents too but for the strays (DocsAreServed),    *)
(* paths are keys (KeysOK), and all depends only on the files the push     *)
(* filter watches (SameServed).  The other half is the inductive           *)
(* invariant: what HEAD has and the row, or the run under way, does not is *)
(* announced by an event that is still due (Announced).                    *)
(***************************************************************************)
EXTENDS Publish, SequenceTheorems, TLAPS

Trees == {t \in [Files -> 0 .. MaxPush] : GitTree(t)}

\* The files a push of which passes the filter once configuration c is stored.
Watched(c) == ({c.changelog, ApiFields(c).landing} \ {None}) \cup ApiFields(c).docs
Relevant(c, f) == UnderDir(f, c.docsDir) \/ f \in Watched(c)

\* Events ds announce every difference that matters between (c, t) and HEAD.
Announced(c, t, ds) ==
  /\ config # c => \E d \in ds : ConfigFile \in d.paths
  /\ \A f \in Files : Relevant(c, f) /\ tree[f] # t[f] => \E d \in ds : f \in d.paths

Later(n) == {d \in due : d.n > n}

Types ==
  /\ config \in Configs /\ tree \in Trees /\ head \in 1 .. MaxPush
  /\ \A d \in due : d.n \in 2 .. head /\ d.paths \subseteq Files \cup {ConfigFile}
  /\ job \in {"none", "pending", "running"} /\ missed \in BOOLEAN
  /\ run # None =>
       /\ job = "running" /\ run.head \in 1 .. head
       /\ run.config \in Configs /\ run.tree \in Trees

RowInv == row # None => \E c \in Configs, t \in Trees : row = Reconciled(c, t)

BaseInv == Types /\ RowInv

CurrentInv ==
  /\ job = "none" /\ ~missed =>
       \E c \in Configs, t \in Trees : row = Reconciled(c, t) /\ Announced(c, t, due)
  /\ run # None /\ ~missed => Announced(run.config, run.tree, Later(run.head))

PublishInv == BaseInv /\ CurrentInv

\* Every docs_dir is spelled as the paths of a push are.
AllPlain == \A c \in Configs : c.plain

-----------------------------------------------------------------------------
(***************************************************************************)
(* Paths.                                                                  *)
(***************************************************************************)
LEMMA PathLen == \A p \in Path : p \in Seq(Segment) /\ Len(p) \in Nat /\ Len(p) >= 1
BY DEF Path

LEMMA SameSeq ==
  ASSUME NEW p \in Seq(Segment), NEW q \in Seq(Segment), Len(p) = Len(q),
         \A i \in 1 .. Len(p) : p[i] = q[i]
  PROVE  p = q
OBVIOUS

LEMMA DirSeq ==
  ASSUME NEW p \in Path
  PROVE  /\ Dir(p) \in Seq(Segment) /\ Len(Dir(p)) = Len(p) - 1
         /\ \A i \in 1 .. Len(p) - 1 : Dir(p)[i] = p[i]
<1>1. p \in Seq(Segment) /\ Len(p) \in Nat /\ Len(p) - 1 \in Nat
  BY PathLen
<1>2. Dir(p) \in Seq(Segment)
  BY <1>1 DEF Dir
<1>3. Len(Dir(p)) = Len(p) - 1
  <2>1. \A i \in 1 .. Len(p) - 1 : p[i] \in Segment
    BY <1>1
  <2>2. Len(Dir(p)) = IF 1 <= Len(p) - 1 THEN (Len(p) - 1) - 1 + 1 ELSE 0
    BY <1>1, <2>1, SubSeqProperties DEF Dir
  <2>3. \A n \in Nat : (n - 1 \in Nat) => (IF 1 <= n - 1 THEN (n - 1) - 1 + 1 ELSE 0) = n - 1
    OBVIOUS
  <2> QED  BY <1>1, <2>2, <2>3
<1>4. \A i \in 1 .. Len(p) - 1 : Dir(p)[i] = p[i]
  BY <1>1 DEF Dir
<1> QED  BY <1>2, <1>3, <1>4

\* A path is its directory and its base.
LEMMA DirBase ==
  ASSUME NEW p \in Path, NEW q \in Path, Dir(p) = Dir(q), Base(p) = Base(q)
  PROVE  p = q
<1>1. Len(p) = Len(q)
  BY DirSeq, PathLen
<1>2. \A i \in 1 .. Len(p) : p[i] = q[i]
  BY <1>1, DirSeq, PathLen DEF Base
<1> QED  BY <1>1, <1>2, SameSeq, PathLen

LEMMA AppendDir ==
  ASSUME NEW d \in Seq(Segment), NEW s \in Segment
  PROVE  Append(d, s) \in Path /\ Dir(Append(d, s)) = d /\ Base(Append(d, s)) = s
<1> DEFINE p == Append(d, s)
<1>1. /\ p \in Seq(Segment) /\ Len(p) = Len(d) + 1 /\ p[Len(d) + 1] = s
      /\ \A i \in 1 .. Len(d) : p[i] = d[i]
  BY AppendProperties
<1>2. Len(d) \in Nat
  OBVIOUS
<1> HIDE DEF p
<1>3. p # <<>>
  BY <1>1, <1>2
<1>4. p \in Path
  BY <1>1, <1>3 DEF Path
<1>5. /\ Dir(p) \in Seq(Segment) /\ Len(Dir(p)) = Len(d)
      /\ \A i \in 1 .. Len(d) : Dir(p)[i] = d[i]
  BY <1>1, <1>2, <1>4, DirSeq
<1>6. Dir(p) = d
  BY <1>5, SameSeq
<1>7. Base(p) = s
  BY <1>1 DEF Base
<1> QED  BY <1>4, <1>6, <1>7 DEF p

LEMMA UnderSeq ==
  ASSUME NEW p \in Seq(Segment), NEW d \in Seq(Segment)
  PROVE  UnderDir(p, d) <=> Len(p) > Len(d) /\ \A i \in 1 .. Len(d) : p[i] = d[i]
<1>1. CASE Len(p) > Len(d)
  <2>1. /\ SubSeq(p, 1, Len(d)) \in Seq(Segment) /\ Len(SubSeq(p, 1, Len(d))) = Len(d)
        /\ \A i \in 1 .. Len(d) : SubSeq(p, 1, Len(d))[i] = p[i]
    BY <1>1
  <2> QED  BY <1>1, <2>1, SameSeq DEF UnderDir
<1> QED  BY <1>1 DEF UnderDir

LEMMA UnderOwnDir ==
  ASSUME NEW p \in Path
  PROVE  UnderDir(p, Dir(p))
BY DirSeq, PathLen, UnderSeq

LEMMA UnderTrans ==
  ASSUME NEW p \in Seq(Segment), NEW d \in Seq(Segment), NEW e \in Seq(Segment),
         UnderDir(p, d), UnderDir(d, e)
  PROVE  UnderDir(p, e)
<1>1. /\ Len(p) > Len(d) /\ \A i \in 1 .. Len(d) : p[i] = d[i]
      /\ Len(d) > Len(e) /\ \A i \in 1 .. Len(e) : d[i] = e[i]
  BY UnderSeq
<1>2. Len(p) \in Nat /\ Len(d) \in Nat /\ Len(e) \in Nat
  OBVIOUS
<1>3. Len(p) > Len(e) /\ \A i \in 1 .. Len(e) : p[i] = e[i]
  BY <1>1, <1>2
<1> QED  BY <1>3, UnderSeq

LEMMA DirUnder ==
  ASSUME NEW p \in Path, NEW d \in Seq(Segment), UnderDir(p, d), Dir(p) # d
  PROVE  UnderDir(Dir(p), d)
<1>1. Len(p) > Len(d) /\ \A i \in 1 .. Len(d) : p[i] = d[i]
  BY PathLen, UnderSeq
<1>2. /\ Dir(p) \in Seq(Segment) /\ Len(Dir(p)) = Len(p) - 1
      /\ \A i \in 1 .. Len(p) - 1 : Dir(p)[i] = p[i]
  BY DirSeq
<1>3. Len(p) \in Nat /\ Len(d) \in Nat
  BY PathLen
<1>4. \A i \in 1 .. Len(d) : Dir(p)[i] = d[i]
  BY <1>1, <1>2, <1>3
<1>5. Len(Dir(p)) # Len(d)
  BY <1>2, <1>4, SameSeq
<1>6. Len(Dir(p)) > Len(d)
  BY <1>1, <1>2, <1>3, <1>5
<1> QED  BY <1>2, <1>4, <1>6, UnderSeq

LEMMA RelSeq ==
  ASSUME NEW p \in Seq(Segment), NEW d \in Seq(Segment), UnderDir(p, d)
  PROVE  /\ Rel(p, d) \in Seq(Segment) /\ Len(Rel(p, d)) = Len(p) - Len(d)
         /\ Len(p) - Len(d) \in Nat \ {0} /\ Rel(p, d) # <<>>
         /\ \A i \in 1 .. Len(p) - Len(d) : Rel(p, d)[i] = p[Len(d) + i]
<1>1. Len(p) > Len(d) /\ Len(p) \in Nat /\ Len(d) \in Nat
  BY DEF UnderDir
<1>2. Len(p) - Len(d) \in Nat \ {0} /\ Len(p) = Len(d) + (Len(p) - Len(d))
  BY <1>1
<1>3. Rel(p, d) \in Seq(Segment) /\ Len(Rel(p, d)) = Len(p) - Len(d)
  BY <1>1 DEF Rel
<1>4. \A i \in 1 .. Len(p) - Len(d) : Rel(p, d)[i] = p[Len(d) + i]
  BY <1>1 DEF Rel
<1> QED  BY <1>2, <1>3, <1>4

\* Below one directory the relative path determines the path.
LEMMA RelEq ==
  ASSUME NEW p \in Seq(Segment), NEW q \in Seq(Segment), NEW d \in Seq(Segment),
         UnderDir(p, d), UnderDir(q, d), Rel(p, d) = Rel(q, d)
  PROVE  p = q
<1>1. Len(p) \in Nat /\ Len(q) \in Nat /\ Len(d) \in Nat /\ Len(p) > Len(d)
  BY DEF UnderDir
<1>2. Len(p) = Len(q)
  BY <1>1, RelSeq
<1>3. \A i \in 1 .. Len(d) : p[i] = q[i]
  BY UnderSeq
<1>4. \A i \in 1 .. Len(p) - Len(d) : p[Len(d) + i] = q[Len(d) + i]
  <2>1. \A i \in 1 .. Len(p) - Len(d) : Rel(p, d)[i] = p[Len(d) + i]
    BY RelSeq
  <2>2. \A i \in 1 .. Len(q) - Len(d) : Rel(q, d)[i] = q[Len(d) + i]
    BY RelSeq
  <2> QED  BY <1>2, <2>1, <2>2
<1>5. ASSUME NEW i \in 1 .. Len(p), i > Len(d)
      PROVE  p[i] = q[i]
  <2>1. i - Len(d) \in 1 .. Len(p) - Len(d) /\ i = Len(d) + (i - Len(d))
    BY <1>1, <1>5
  <2> QED  BY <1>4, <2>1
<1>6. \A i \in 1 .. Len(p) : p[i] = q[i]
  BY <1>1, <1>3, <1>5
<1> QED  BY <1>2, <1>6, SameSeq

-----------------------------------------------------------------------------
(***************************************************************************)
(* The classifier.                                                         *)
(***************************************************************************)
LEMMA ConfigFacts ==
  ASSUME NEW c \in Configs
  PROVE  /\ c.docsDir \in Path /\ c.docsDir \in Seq(Segment)
         /\ c.plain \in BOOLEAN /\ c.api \in BOOLEAN
         /\ c.landing \in Path \cup {None} /\ c.changelog \in Path \cup {None}
         /\ c.additional \subseteq Path /\ c.typeDirs \subseteq Path
         /\ \A d \in c.typeDirs : UnderDir(d, c.docsDir)
         /\ c.api => /\ c.landing # None
                     /\ \A p \in c.additional :
                          ~UnderDir(p, c.docsDir) /\ p # c.landing /\ ValidPublishedPath(p)
<1>1. c.docsDir \in Path
  BY PublishAssumption
<1> QED  BY <1>1, PathLen, PublishAssumption

LEMMA FileFacts ==
  /\ \A f \in Files : f \in Path /\ f \in Seq(Segment) /\ f # None
  /\ {Readme, Index} \subseteq Segment /\ {Readme, Index} \subseteq Markdown /\ Readme # Index
<1>1. Files \subseteq Path /\ None \notin Path /\ {Readme, Index} \subseteq Markdown
  BY PublishAssumption
<1>2. Readme \in Segment /\ Index \in Segment
  BY PublishAssumption
<1>3. Readme # Index
  BY DEF Readme, Index
<1> QED  BY <1>1, <1>2, <1>3, PathLen

\* A file named Readme or Index is the one its directory's name leads to.
LEMMA NamedFile ==
  ASSUME NEW f \in Files
  PROVE  /\ Dir(f) \in Seq(Segment)
         /\ \A s \in {Readme, Index} : Base(f) = s <=> f = Append(Dir(f), s)
<1>1. f \in Path
  BY FileFacts
<1>2. Dir(f) \in Seq(Segment)
  BY <1>1, DirSeq
<1>3. ASSUME NEW s \in {Readme, Index}
      PROVE  Base(f) = s <=> f = Append(Dir(f), s)
  <2>1. s \in Segment
    BY FileFacts
  <2>2. /\ Append(Dir(f), s) \in Path /\ Dir(Append(Dir(f), s)) = Dir(f)
        /\ Base(Append(Dir(f), s)) = s
    BY <1>2, <2>1, AppendDir
  <2>3. Base(f) = s => f = Append(Dir(f), s)
    BY <1>1, <2>2, DirBase
  <2>4. f = Append(Dir(f), s) => Base(f) = s
    BY <2>2
  <2> QED  BY <2>3, <2>4
<1> QED  BY <1>2, <1>3

Dirs(c, t) == ClaimReadmeDirs(c, Blobs(c, t))

At(c, t, f) == PublishedPath(c, f, Dirs(c, t))

\* The fetch sees every file the classifier may publish.
LEMMA FetchSees ==
  ASSUME NEW c \in Configs, NEW t \in Trees, c.api
  PROVE  /\ Blobs(c, t) \subseteq Present(t) /\ Present(t) \subseteq Files
         /\ Eligible(c, t) \subseteq Present(t)
         /\ \A f : f \in Blobs(c, t) /\ Classified(c, f) <=> f \in Eligible(c, t) \ {c.landing}
         /\ \A f \in c.additional : f \in Blobs(c, t) /\ IsMd(f) <=> f \in Present(t) /\ IsMd(f)
<1>1. Blobs(c, t) \subseteq Present(t) /\ Present(t) \subseteq Files /\ Eligible(c, t) \subseteq Present(t)
  BY DEF Blobs, ClassifyTree, FetchAdditionalDocs, Present, Eligible
<1>2. \A f \in Eligible(c, t) : f \in Blobs(c, t)
  BY DEF Eligible, Blobs, ClassifyTree
<1>3. \A f \in Blobs(c, t) : Classified(c, f) => f \in Eligible(c, t) \ {c.landing}
  BY <1>1 DEF Eligible, Classified
<1>4. \A f \in Eligible(c, t) \ {c.landing} : Classified(c, f)
  BY DEF Eligible, Classified
<1>5. \A f \in c.additional : f \in Present(t) /\ IsMd(f) => f \in Blobs(c, t)
  BY DEF Blobs, FetchAdditionalDocs
<1> QED  BY <1>1, <1>2, <1>3, <1>4, <1>5

\* The directories claimed before classification are those with an eligible README.md.
LEMMA ClaimedDirs ==
  ASSUME NEW c \in Configs, NEW t \in Trees, c.api, NEW D \in Seq(Segment), D # c.docsDir
  PROVE  D \in Dirs(c, t) <=> Append(D, Readme) \in Eligible(c, t)
<1>1. ASSUME D \in Dirs(c, t)
      PROVE  Append(D, Readme) \in Eligible(c, t)
  <2>1. PICK f \in Blobs(c, t) : /\ UnderDir(f, c.docsDir) /\ ~Excluded(c, f) /\ ~InTypeDir(c, f)
                                 /\ Base(f) = Readme /\ D = Dir(f)
    BY <1>1 DEF Dirs, ClaimReadmeDirs
  <2>2. f \in Present(t) /\ f \in Files
    BY FetchSees
  <2>3. f = Append(D, Readme)
    BY <2>1, <2>2, NamedFile
  <2>4. f \in Eligible(c, t)
    BY <2>1, <2>2, FileFacts DEF Eligible, IsMd
  <2> QED  BY <2>3, <2>4
<1>2. ASSUME Append(D, Readme) \in Eligible(c, t)
      PROVE  D \in Dirs(c, t)
  <2> DEFINE f == Append(D, Readme)
  <2>1. f \in Blobs(c, t)
    BY <1>2 DEF Eligible, Blobs, ClassifyTree
  <2>2. Dir(f) = D /\ Base(f) = Readme
    BY AppendDir, FileFacts
  <2>3. UnderDir(f, c.docsDir) /\ ~Excluded(c, f) /\ ~InTypeDir(c, f)
    BY <1>2 DEF Eligible
  <2> HIDE DEF f
  <2> QED  BY <2>1, <2>2, <2>3 DEF Dirs, ClaimReadmeDirs
<1> QED  BY <1>1, <1>2

\* Which directory a file is the page of, in the classifier and in the reference.
LEMMA OwnerIs ==
  ASSUME NEW c \in Configs, NEW t \in Trees, c.api, NEW f \in Eligible(c, t)
  PROVE  /\ At(c, t, f) = Rel(IF Owner(c, t, Dir(f)) = f THEN Dir(f) ELSE f, c.docsDir)
         /\ Owner(c, t, Dir(f)) = f => Dir(f) # c.docsDir /\ Base(f) \in {Readme, Index}
         /\ Owner(c, t, Dir(f)) = f /\ Base(f) = Index => Append(Dir(f), Readme) \notin Eligible(c, t)
<1>1. f \in Files /\ f # None /\ Dir(f) \in Seq(Segment)
  BY FetchSees, FileFacts, NamedFile
<1>2. \A s \in {Readme, Index} : Base(f) = s <=> f = Append(Dir(f), s)
  BY <1>1, NamedFile
<1>3. CASE Dir(f) = c.docsDir
  BY <1>1, <1>3 DEF Owner, At, PublishedPath
<1>4. CASE Dir(f) # c.docsDir
  <2>1. Dir(f) \in Dirs(c, t) <=> Append(Dir(f), Readme) \in Eligible(c, t)
    BY <1>1, <1>4, ClaimedDirs
  <2>2. CASE Base(f) = Readme
    <3>1. Owner(c, t, Dir(f)) = f
      BY <1>2, <1>4, <2>2 DEF Owner
    <3> QED  BY <1>4, <2>2, <3>1, FileFacts DEF At, PublishedPath
  <2>3. CASE Base(f) = Index
    <3>1. f = Append(Dir(f), Index) /\ f # Append(Dir(f), Readme)
      BY <1>2, <2>3, FileFacts
    <3>2. Owner(c, t, Dir(f)) = f <=> Append(Dir(f), Readme) \notin Eligible(c, t)
      BY <1>4, <3>1 DEF Owner
    <3>3. At(c, t, f) = Rel(IF Dir(f) \notin Dirs(c, t) THEN Dir(f) ELSE f, c.docsDir)
      BY <1>4, <2>3, FileFacts DEF At, PublishedPath
    <3> QED  BY <1>4, <2>1, <2>3, <3>2, <3>3
  <2>4. CASE Base(f) \notin {Readme, Index}
    <3>1. Owner(c, t, Dir(f)) # f
      BY <1>1, <1>2, <1>4, <2>4 DEF Owner
    <3> QED  BY <2>4, <3>1 DEF At, PublishedPath
  <2> QED  BY <2>2, <2>3, <2>4
<1> QED  BY <1>3, <1>4

\* Where a file is published: below docs_dir, at itself or at its directory.
LEMMA AtIs ==
  ASSUME NEW c \in Configs, NEW t \in Trees, c.api, NEW f \in Eligible(c, t)
  PROVE  /\ \E x \in {f, Dir(f)} : /\ x \in Seq(Segment) /\ UnderDir(x, c.docsDir)
                                   /\ At(c, t, f) = Rel(x, c.docsDir)
                                   /\ x = f \/ Owner(c, t, Dir(f)) = f
         /\ At(c, t, f) \in Seq(Segment) /\ At(c, t, f) # <<>>
<1>1. f \in Files /\ f \in Path /\ f \in Seq(Segment) /\ Dir(f) \in Seq(Segment)
  BY FetchSees, FileFacts, NamedFile
<1>2. UnderDir(f, c.docsDir) /\ c.docsDir \in Seq(Segment)
  BY ConfigFacts DEF Eligible
<1>3. \E x \in {f, Dir(f)} : /\ x \in Seq(Segment) /\ UnderDir(x, c.docsDir)
                             /\ At(c, t, f) = Rel(x, c.docsDir)
                             /\ x = f \/ Owner(c, t, Dir(f)) = f
  <2>1. CASE Owner(c, t, Dir(f)) = f
    <3>1. At(c, t, f) = Rel(Dir(f), c.docsDir) /\ Dir(f) # c.docsDir
      BY <2>1, OwnerIs
    <3>2. UnderDir(Dir(f), c.docsDir)
      BY <1>1, <1>2, <3>1, DirUnder
    <3> QED  BY <1>1, <2>1, <3>1, <3>2
  <2>2. CASE Owner(c, t, Dir(f)) # f
    BY <1>1, <1>2, <2>2, OwnerIs
  <2> QED  BY <2>1, <2>2
<1> QED  BY <1>2, <1>3, RelSeq

\* No two files have one published path: a directory has one page, and in git a file is
\* no directory.
LEMMA AtIsInjective ==
  ASSUME NEW c \in Configs, NEW t \in Trees, c.api,
         NEW f \in Eligible(c, t), NEW g \in Eligible(c, t), At(c, t, f) = At(c, t, g)
  PROVE  f = g
<1>1. PICK x \in {f, Dir(f)} : /\ x \in Seq(Segment) /\ UnderDir(x, c.docsDir)
                               /\ At(c, t, f) = Rel(x, c.docsDir)
                               /\ x = f \/ Owner(c, t, Dir(f)) = f
  BY AtIs
<1>2. PICK y \in {g, Dir(g)} : /\ y \in Seq(Segment) /\ UnderDir(y, c.docsDir)
                               /\ At(c, t, g) = Rel(y, c.docsDir)
                               /\ y = g \/ Owner(c, t, Dir(g)) = g
  BY AtIs
<1>3. x = y
  BY <1>1, <1>2, ConfigFacts, RelEq
<1>4. /\ f \in Files /\ g \in Files /\ f \in Path /\ g \in Path
      /\ Dir(f) \in Seq(Segment) /\ Dir(g) \in Seq(Segment)
  BY FetchSees, FileFacts, NamedFile
<1>5. Dir(f) # g /\ Dir(g) # f
  <2>1. f \in Present(t) /\ g \in Present(t)
    BY FetchSees
  <2>2. ~UnderDir(f, g) /\ ~UnderDir(g, f)
    BY <2>1 DEF Trees, GitTree
  <2> QED  BY <1>4, <2>2, UnderOwnDir
<1>6. CASE Dir(f) = Dir(g) /\ Owner(c, t, Dir(f)) = f /\ Owner(c, t, Dir(g)) = g
  BY <1>6
<1> QED  BY <1>1, <1>2, <1>3, <1>5, <1>6

-----------------------------------------------------------------------------
(***************************************************************************)
(* The pages of a row, file by file.                                       *)
(***************************************************************************)
Placed(c, t) == {f \in Eligible(c, t) \ {c.landing} : ValidPublishedPath(At(c, t, f))}

Beside(c, t) ==
  {f \in c.additional \cap Present(t) : IsMd(f) /\ \A g \in Placed(c, t) : At(c, t, g) # f}

Inside(c, t) == {<<At(c, t, f), f, t[f]>> : f \in Placed(c, t)}

Extra(c, t) == {<<f, f, t[f]>> : f \in Beside(c, t)}

LEMMA PagesForm ==
  ASSUME NEW c \in Configs, NEW t \in Trees, c.api
  PROVE  Reconciled(c, t).pages = Inside(c, t) \cup Extra(c, t)
<1> DEFINE B == Blobs(c, t)
           page(f) == [path |-> At(c, t, f), file |-> f]
           own(f) == [path |-> f, file |-> f]
<1>1. DocsDirPages(c, B) = {page(f) : f \in Placed(c, t)}
  <2>1. {b \in B : Classified(c, b)} = Eligible(c, t) \ {c.landing}
    BY FetchSees
  <2>2. \A f : page(f).path = At(c, t, f) /\ page(f).file = f
    OBVIOUS
  <2>3. DocsDirPages(c, B) = {pg \in {page(f) : f \in Eligible(c, t) \ {c.landing}} :
                                ValidPublishedPath(pg.path)}
    BY <2>1 DEF DocsDirPages, At, Dirs
  <2> HIDE DEF page
  <2> QED  BY <2>2, <2>3 DEF Placed
<1>2. {f \in c.additional : IsMd(f) /\ f \in B /\ \A pg \in DocsDirPages(c, B) : pg.path # f}
        = Beside(c, t)
  <2>1. \A f : page(f).path = At(c, t, f)
    OBVIOUS
  <2>2. \A f \in c.additional : f \in B /\ IsMd(f) <=> f \in Present(t) /\ IsMd(f)
    BY FetchSees
  <2> HIDE DEF page, B
  <2>3. \A f : (\A pg \in DocsDirPages(c, B) : pg.path # f)
                 <=> \A g \in Placed(c, t) : At(c, t, g) # f
    BY <1>1, <2>1
  <2> QED  BY <2>2, <2>3 DEF Beside
<1>3. BuildPages(c, B) = {page(f) : f \in Placed(c, t)} \cup {own(f) : f \in Beside(c, t)}
  <2> HIDE DEF page, B
  <2> QED  BY <1>1, <1>2 DEF BuildPages
<1>4. /\ \A f : PageInput(page(f), t) = <<At(c, t, f), f, t[f]>>
      /\ \A f : PageInput(own(f), t) = <<f, f, t[f]>>
  BY DEF PageInput
<1>5. Reconciled(c, t).pages = {PageInput(pg, t) : pg \in BuildPages(c, B)}
  BY DEF Reconciled
<1> HIDE DEF page, own, B
<1>6. {PageInput(pg, t) : pg \in BuildPages(c, B)} = Inside(c, t) \cup Extra(c, t)
  BY <1>3, <1>4 DEF Inside, Extra
<1> QED  BY <1>5, <1>6

LEMMA NoPages ==
  ASSUME NEW c \in Configs, NEW t \in Trees, ~c.api
  PROVE  Reconciled(c, t).pages = {}
<1>1. BuildPages(c, Blobs(c, t)) = {}
  BY DEF BuildPages
<1>2. Reconciled(c, t).pages = {PageInput(pg, t) : pg \in BuildPages(c, Blobs(c, t))}
  BY DEF Reconciled
<1> QED  BY <1>1, <1>2

\* What the classifier publishes, blob by blob, is what DESIGN-0004 asks for, directory by
\* directory.
LEMMA PagesAreDesired ==
  ASSUME NEW c \in Configs, NEW t \in Trees
  PROVE  Reconciled(c, t).pages = DesiredPages(c, t)
<1>1. CASE ~c.api
  BY <1>1, NoPages DEF DesiredPages
<1>2. CASE c.api
  <2> DEFINE at(f) == Rel(IF Owner(c, t, Dir(f)) = f THEN Dir(f) ELSE f, c.docsDir)
             safe(f) == \A i \in 1 .. Len(at(f)) : at(f)[i] \notin Unsafe
             ins == {<<at(f), f, t[f]>> : f \in {g \in Eligible(c, t) \ {c.landing} : safe(g)}}
             ext == {<<f, f, t[f]>> : f \in {g \in c.additional \cap Present(t) : IsMd(g)}}
  <2>1. DesiredPages(c, t) = ins \cup {x \in ext : \A y \in ins : y[1] # x[1]}
    BY <1>2 DEF DesiredPages
  <2>2. \A f \in Eligible(c, t) : at(f) = At(c, t, f) /\ At(c, t, f) # <<>>
    BY <1>2, OwnerIs, AtIs
  <2>3. {g \in Eligible(c, t) \ {c.landing} : safe(g)} = Placed(c, t)
    BY <2>2 DEF Placed, ValidPublishedPath
  <2>4. Placed(c, t) \subseteq Eligible(c, t)
    BY DEF Placed
  <2> HIDE DEF at, safe
  <2>5. ins = Inside(c, t)
    BY <2>2, <2>3, <2>4 DEF Inside
  <2>6. \A f : (\A y \in Inside(c, t) : y[1] # f) <=> \A g \in Placed(c, t) : At(c, t, g) # f
    <3>1. \A g \in Placed(c, t) : \E y \in Inside(c, t) : y[1] = At(c, t, g)
      <4>1. \A g \in Placed(c, t) : <<At(c, t, g), g, t[g]>> \in Inside(c, t)
        BY DEF Inside
      <4> QED  BY <4>1
    <3>2. \A y \in Inside(c, t) : \E g \in Placed(c, t) : y[1] = At(c, t, g)
      BY DEF Inside
    <3> QED  BY <3>1, <3>2
  <2>7. {x \in ext : \A y \in Inside(c, t) : y[1] # x[1]} = Extra(c, t)
    BY <2>6 DEF Extra, Beside
  <2> HIDE DEF ins, ext
  <2> QED  BY <1>2, <2>1, <2>5, <2>7, PagesForm
<1> QED  BY <1>1, <1>2, ConfigFacts

\* The documents of rule 4 and the strays are the files buildDocuments takes.
Taken(c, t) == {g \in InType(c, t) : Base(g) \in DoczNames \/ (c.api /\ IsMd(g))}
ServedDocs(c, t) == DesiredDocs(c, t) \cup Strays(c, t)

LEMMA ServedAreTaken ==
  ASSUME NEW c, NEW t
  PROVE  ServedDocs(c, t) = {<<f, t[f]>> : f \in Taken(c, t)}
  BY DEF ServedDocs, DesiredDocs, Strays, Taken

LEMMA DocsAreServed ==
  ASSUME NEW c \in Configs, NEW t \in Trees
  PROVE  Reconciled(c, t).docs = ServedDocs(c, t)
<1>1. Reconciled(c, t).docs = {<<f, t[f]>> : f \in BuildDocuments(c, Blobs(c, t))}
  BY DEF Reconciled
<1>2. \A f \in Present(t) : Dir(f) \in c.typeDirs => UnderDir(f, c.docsDir)
  <2> SUFFICES ASSUME NEW f \in Present(t), Dir(f) \in c.typeDirs
               PROVE  UnderDir(f, c.docsDir)
    OBVIOUS
  <2>1. f \in Path /\ f \in Seq(Segment) /\ Dir(f) \in Seq(Segment)
    BY FileFacts, NamedFile DEF Present
  <2>2. UnderDir(f, Dir(f)) /\ UnderDir(Dir(f), c.docsDir)
    BY <2>1, UnderOwnDir, ConfigFacts
  <2> QED  BY <2>1, <2>2, UnderTrans, ConfigFacts
<1>3. BuildDocuments(c, Blobs(c, t)) = Taken(c, t)
  BY <1>2, ConfigFacts DEF BuildDocuments, Blobs, ClassifyTree, FetchAdditionalDocs, Taken, InType
<1> QED  BY <1>1, <1>3, ServedAreTaken

\* The published paths of a row are keys, and safe ones.
LEMMA KeysOK ==
  ASSUME NEW c \in Configs, NEW t \in Trees,
         NEW x \in Reconciled(c, t).pages, NEW y \in Reconciled(c, t).pages
  PROVE  (x[1] = y[1] => x = y) /\ ValidPublishedPath(x[1])
<1>1. c.api
  BY NoPages, ConfigFacts
<1>2. /\ x \in Inside(c, t) \cup Extra(c, t)
      /\ y \in Inside(c, t) \cup Extra(c, t)
  BY <1>1, PagesForm
<1>3. \A z \in Inside(c, t) : \E f \in Placed(c, t) : z = <<At(c, t, f), f, t[f]>> /\ z[1] = At(c, t, f)
  BY DEF Inside
<1>4. \A z \in Extra(c, t) : \E f \in Beside(c, t) : z = <<f, f, t[f]>> /\ z[1] = f
  BY DEF Extra
<1>5. \A f, g \in Placed(c, t) : At(c, t, f) = At(c, t, g) => f = g
  BY <1>1, AtIsInjective DEF Placed
<1>6. \A f \in Placed(c, t) : ValidPublishedPath(At(c, t, f))
  BY DEF Placed
<1>7. \A f \in Beside(c, t) : ValidPublishedPath(f) /\ \A g \in Placed(c, t) : At(c, t, g) # f
  BY <1>1, ConfigFacts DEF Beside
<1>8. ValidPublishedPath(x[1])
  BY <1>2, <1>3, <1>4, <1>6, <1>7
<1>9. ASSUME x[1] = y[1]
      PROVE  x = y
  <2>1. CASE x \in Inside(c, t) /\ y \in Inside(c, t)
    BY <1>3, <1>5, <1>9, <2>1
  <2>2. CASE x \in Extra(c, t) /\ y \in Extra(c, t)
    BY <1>4, <1>9, <2>2
  <2>3. CASE x \in Inside(c, t) /\ y \in Extra(c, t)
    BY <1>3, <1>4, <1>7, <1>9, <2>3
  <2>4. CASE x \in Extra(c, t) /\ y \in Inside(c, t)
    BY <1>3, <1>4, <1>7, <1>9, <2>4
  <2> QED  BY <1>2, <2>1, <2>2, <2>3, <2>4
<1> QED  BY <1>8, <1>9

-----------------------------------------------------------------------------
(***************************************************************************)
(* The row and the push filter.                                            *)
(***************************************************************************)
LEMMA TreeFacts ==
  ASSUME NEW t \in Trees
  PROVE  /\ \A f \in Files : t[f] \in Nat /\ t[f] \in 0 .. MaxPush
         /\ \A f \in Present(t) : t[f] \in 1 .. MaxPush
         /\ \A p : Fetched(p, t) \in Nat
<1>1. MaxPush \in Nat
  BY PublishAssumption
<1>2. \A f \in Files : t[f] \in 0 .. MaxPush
  BY DEF Trees
<1>3. \A f \in Files : t[f] \in Nat
  BY <1>1, <1>2
<1>4. \A f \in Present(t) : t[f] \in 1 .. MaxPush
  BY <1>1, <1>2 DEF Present
<1>5. \A p : Fetched(p, t) \in Nat
  BY <1>3 DEF Fetched, Present
<1> QED  BY <1>2, <1>3, <1>4, <1>5

\* A row is a row, and the filter reads from it what the configuration says.
LEMMA ReconciledRow ==
  ASSUME NEW c \in Configs, NEW t \in Trees
  PROVE  /\ Reconciled(c, t) # None
         /\ Reconciled(c, t).docs \subseteq Files \X (1 .. MaxPush)
         /\ Reconciled(c, t).docsDir = c.docsDir /\ Reconciled(c, t).plain = c.plain
         /\ WatchedFiles(Reconciled(c, t)) = Watched(c)
<1> DEFINE r == Reconciled(c, t)
<1>1. /\ r.docsDir = c.docsDir /\ r.plain = c.plain /\ r.changelogFile = c.changelog
      /\ r.apiLanding = ApiFields(c).landing /\ r.apiDocs = ApiFields(c).docs
      /\ r.index = Fetched(LandingPath(c), t) /\ r.changelog = Fetched(c.changelog, t)
  BY DEF Reconciled
<1>2. r = [docsDir |-> r.docsDir, plain |-> r.plain, changelogFile |-> r.changelogFile,
           apiLanding |-> r.apiLanding, apiDocs |-> r.apiDocs, pages |-> r.pages,
           docs |-> r.docs, index |-> r.index, changelog |-> r.changelog]
  BY DEF Reconciled
<1>3. WatchedFiles(r) = Watched(c)
  BY <1>1 DEF WatchedFiles, Watched
<1>4. r.docs \subseteq Files \X (1 .. MaxPush)
  <2>1. r.docs = {<<f, t[f]>> : f \in Taken(c, t)}
    BY DocsAreServed, ServedAreTaken
  <2>2. Taken(c, t) \subseteq Present(t)
    BY DEF Taken, InType
  <2>3. Present(t) \subseteq Files
    BY DEF Present
  <2>4. \A f \in Present(t) : <<f, t[f]>> \in Files \X (1 .. MaxPush)
    BY <2>3, TreeFacts
  <2> HIDE DEF r
  <2> QED  BY <2>1, <2>2, <2>4
<1>5. r.docs \subseteq Files \X Nat
  <2>1. MaxPush \in Nat
    BY PublishAssumption
  <2> HIDE DEF r
  <2> QED  BY <1>4, <2>1
<1>6. r.pages \subseteq Seq(Segment) \X Files \X Nat
  <2>1. CASE ~c.api
    BY <2>1, NoPages
  <2>2. CASE c.api
    <3>1. r.pages = Inside(c, t) \cup Extra(c, t)
      BY <2>2, PagesForm
    <3>2. Present(t) \subseteq Files /\ Eligible(c, t) \subseteq Present(t)
      BY <2>2, FetchSees
    <3>3. \A f \in Placed(c, t) : f \in Files /\ At(c, t, f) \in Seq(Segment) /\ t[f] \in Nat
      BY <2>2, <3>2, AtIs, TreeFacts DEF Placed
    <3>4. \A f \in Beside(c, t) : f \in Files /\ f \in Seq(Segment) /\ t[f] \in Nat
      BY <3>2, FileFacts, TreeFacts DEF Beside
    <3> HIDE DEF r
    <3>5. Inside(c, t) \subseteq Seq(Segment) \X Files \X Nat
      BY <3>3 DEF Inside
    <3>6. Extra(c, t) \subseteq Seq(Segment) \X Files \X Nat
      BY <3>4 DEF Extra
    <3> QED  BY <3>1, <3>5, <3>6
  <2> QED  BY <2>1, <2>2, ConfigFacts
<1>7. /\ r.docsDir \in Path /\ r.plain \in BOOLEAN
      /\ r.changelogFile \in Path \cup {None} /\ r.apiLanding \in Path \cup {None}
      /\ r.apiDocs \subseteq Path /\ r.index \in Nat /\ r.changelog \in Nat
  <2> HIDE DEF r
  <2> QED  BY <1>1, ConfigFacts, TreeFacts DEF ApiFields
<1> HIDE DEF r
<1>8. r \in Row
  BY <1>2, <1>5, <1>6, <1>7 DEF Row
<1>9. r # None
  BY <1>8, PublishAssumption
<1> QED  BY <1>1, <1>3, <1>4, <1>9 DEF r

\* What is served depends on the files the filter lets through, and on no other.
LEMMA SameServed ==
  ASSUME NEW c \in Configs, NEW t \in Trees, NEW u \in Trees,
         \A f \in Files : Relevant(c, f) => t[f] = u[f]
  PROVE  /\ DesiredPages(c, t) = DesiredPages(c, u)
         /\ ServedDocs(c, t) = ServedDocs(c, u)
         /\ Fetched(LandingPath(c), t) = Fetched(LandingPath(c), u)
         /\ Fetched(c.changelog, t) = Fetched(c.changelog, u)
<1>1. \A f : Relevant(c, f) => (f \in Present(t) <=> f \in Present(u)) /\ (f \in Present(t) => t[f] = u[f])
  BY DEF Present
<1>2. \A f : f \notin Files => f \notin Present(t) /\ f \notin Present(u)
  BY DEF Present
<1>3. \A f : Relevant(c, f) => Fetched(f, t) = Fetched(f, u)
  BY <1>1 DEF Fetched
<1>4. \A f \in Files : UnderDir(f, c.docsDir) => Relevant(c, f)
  BY DEF Relevant
<1>5. c.docsDir \in Seq(Segment) /\ c.changelog \in Path \cup {None}
  BY ConfigFacts
<1>6. Fetched(LandingPath(c), t) = Fetched(LandingPath(c), u)
  <2>1. CASE c.api
    <3>1. Relevant(c, c.landing)
      BY <2>1, ConfigFacts DEF Relevant, Watched, ApiFields
    <3> QED  BY <1>3, <2>1, <3>1 DEF LandingPath
  <2>2. CASE ~c.api
    <3>1. UnderDir(Append(c.docsDir, Index), c.docsDir)
      BY <1>5, AppendDir, UnderOwnDir, FileFacts
    <3> QED  BY <1>3, <2>2, <3>1 DEF LandingPath, Relevant
  <2> QED  BY <2>1, <2>2
<1>7. Fetched(c.changelog, t) = Fetched(c.changelog, u)
  <2>1. CASE c.changelog = None
    <3>1. None \notin Files
      BY FileFacts
    <3> QED  BY <1>2, <2>1, <3>1 DEF Fetched
  <2>2. CASE c.changelog # None
    BY <1>3, <2>2 DEF Relevant, Watched
  <2> QED  BY <2>1, <2>2
<1>8. ServedDocs(c, t) = ServedDocs(c, u)
  <2>1. \A f \in Files : Dir(f) \in c.typeDirs => UnderDir(f, c.docsDir)
    <3> SUFFICES ASSUME NEW f \in Files, Dir(f) \in c.typeDirs
                 PROVE  UnderDir(f, c.docsDir)
      OBVIOUS
    <3>1. f \in Path /\ f \in Seq(Segment) /\ Dir(f) \in Seq(Segment)
      BY FileFacts, NamedFile
    <3>2. UnderDir(f, Dir(f)) /\ UnderDir(Dir(f), c.docsDir)
      BY <3>1, UnderOwnDir, ConfigFacts
    <3> QED  BY <1>5, <3>1, <3>2, UnderTrans
  <2>2. Taken(c, t) = Taken(c, u) /\ \A f \in Taken(c, t) : t[f] = u[f]
    BY <1>1, <1>2, <1>4, <2>1 DEF Taken, InType
  <2> QED  BY <2>2, ServedAreTaken
<1>9. DesiredPages(c, t) = DesiredPages(c, u)
  <2>1. CASE ~c.api
    BY <2>1 DEF DesiredPages
  <2>2. CASE c.api
    <3>1. Eligible(c, t) = Eligible(c, u) /\ \A f \in Eligible(c, t) : t[f] = u[f]
      BY <1>1, <1>2, <1>4 DEF Eligible
    <3>2. \A d : Owner(c, t, d) = Owner(c, u, d)
      BY <3>1 DEF Owner
    <3>3. \A f \in c.additional : Relevant(c, f)
      BY <2>2 DEF Relevant, Watched, ApiFields
    <3> DEFINE at(x, f) == Rel(IF Owner(c, x, Dir(f)) = f THEN Dir(f) ELSE f, c.docsDir)
               safe(x, f) == \A i \in 1 .. Len(at(x, f)) : at(x, f)[i] \notin Unsafe
               S(x) == {g \in Eligible(c, x) \ {c.landing} : safe(x, g)}
               A(x) == {g \in c.additional \cap Present(x) : IsMd(g)}
               ins(x) == {<<at(x, f), f, x[f]>> : f \in S(x)}
               ext(x) == {<<f, f, x[f]>> : f \in A(x)}
    <3>4. /\ DesiredPages(c, t) = ins(t) \cup {x \in ext(t) : \A y \in ins(t) : y[1] # x[1]}
          /\ DesiredPages(c, u) = ins(u) \cup {x \in ext(u) : \A y \in ins(u) : y[1] # x[1]}
      BY <2>2 DEF DesiredPages
    <3>5. \A f : at(t, f) = at(u, f)
      BY <3>2
    <3>6. S(t) = S(u) /\ \A f \in S(t) : t[f] = u[f]
      <4>1. \A f : safe(t, f) <=> safe(u, f)
        BY <3>5
      <4> HIDE DEF safe
      <4> QED  BY <3>1, <4>1
    <3>7. A(t) = A(u) /\ \A f \in A(t) : t[f] = u[f]
      BY <1>1, <3>3
    <3> HIDE DEF at, S, A
    <3>8. ins(t) = ins(u) /\ ext(t) = ext(u)
      BY <3>5, <3>6, <3>7
    <3> HIDE DEF ins, ext
    <3> QED  BY <3>4, <3>8
  <2> QED  BY <2>1, <2>2
<1> QED  BY <1>6, <1>7, <1>8, <1>9

-----------------------------------------------------------------------------
(***************************************************************************)
(* The inductive invariant.                                                *)
(***************************************************************************)
LEMMA BaseInit == Init => BaseInv
<1>1. MaxPush \in Nat \ {0}
  BY PublishAssumption
<1> SUFFICES ASSUME Init  PROVE BaseInv
  OBVIOUS
<1>2. /\ config \in Configs /\ head = 1 /\ due = {} /\ row = None
      /\ job = "pending" /\ run = None /\ missed = FALSE
  BY DEF Init
<1>3. tree \in Trees
  <2>1. 0 \in 0 .. MaxPush /\ 1 \in 0 .. MaxPush
    BY <1>1
  <2>2. tree = [f \in Files |-> IF \E g \in Files : UnderDir(f, g) THEN 0 ELSE 1]
    BY DEF Init
  <2>3. tree \in [Files -> 0 .. MaxPush]
    BY <2>1, <2>2
  <2>4. \A f \in Present(tree) : \A g \in Files : ~UnderDir(f, g)
    BY <2>2 DEF Present
  <2>5. GitTree(tree)
    BY <2>4 DEF GitTree, Present
  <2> QED  BY <2>3, <2>5 DEF Trees
<1>4. head \in 1 .. MaxPush
  BY <1>1, <1>2
<1>5. Types
  BY <1>2, <1>3, <1>4 DEF Types
<1> QED  BY <1>2, <1>5 DEF BaseInv, RowInv

\* What a push does: the files ps are the ones it writes or removes.
Pushed(c, ps, listed) ==
  /\ config' = c /\ tree' \in [Files -> {0, head'} \cup {tree[f] : f \in Files}]
  /\ \A f \in Files \ ps : tree'[f] = tree[f]
  /\ due' = due \cup {[n |-> head', paths |-> IF ~listed THEN {} ELSE
                         ps \cup IF c # config THEN {ConfigFile} ELSE {}]}
  /\ missed' = (missed \/ ~listed)

\* A push leaves a tree in which no file is a directory.
LEMMA PushIs ==
  ASSUME Types, Push
  PROVE  \E c \in Configs, ps \in SUBSET Files, listed \in BOOLEAN :
           Pushed(c, ps, listed) /\ GitTree(tree')
<1>1. PICK c \in Configs, qs \in {{}} \cup {{f} : f \in Files}, listed \in BOOLEAN :
        \E w \in {{}, qs} : PushOf(c, Changed(qs, w), w, listed)
  BY DEF Push
<1> PICK written \in {{}, qs} : PushOf(c, Changed(qs, written), written, listed)
  BY <1>1
<1> DEFINE ps == Changed(qs, written)
<1>2. /\ ps \in SUBSET Files /\ written \subseteq ps
      /\ \A f, g \in written : f = g
      /\ \A f \in written, g \in Present(tree) \ ps : g \notin Clash(f)
  BY DEF Changed, Present
<1>3. Pushed(c, ps, listed)
  BY DEF Pushed, PushOf
<1>4. ASSUME NEW f \in Present(tree')
      PROVE  f \in Present(tree) \ ps \/ f \in written
  <2>1. f \in Files /\ tree'[f] > 0
    BY DEF Present
  <2>2. tree'[f] = IF f \notin ps THEN tree[f] ELSE IF f \in written THEN head' ELSE 0
    BY <2>1 DEF PushOf
  <2> HIDE DEF ps
  <2> QED  BY <2>1, <2>2 DEF Present
<1>5. ASSUME NEW f \in Present(tree'), NEW g \in Present(tree')
      PROVE  ~UnderDir(f, g)
  <2>1. CASE f \in Present(tree) \ ps /\ g \in Present(tree) \ ps
    BY <2>1 DEF Types, Trees, GitTree
  <2>2. CASE f \in written /\ g \in Present(tree) \ ps
    BY <1>2, <2>2 DEF Clash, Present
  <2>3. CASE g \in written /\ f \in Present(tree) \ ps
    BY <1>2, <2>3 DEF Clash, Present
  <2>4. CASE f \in written /\ g \in written
    <3>1. f = g /\ Len(f) \in Nat
      BY <1>2, <2>4, FileFacts
    <3> QED  BY <3>1 DEF UnderDir
  <2> QED  BY <1>4, <2>1, <2>2, <2>3, <2>4
<1>6. GitTree(tree')
  BY <1>5 DEF GitTree
<1> QED  BY <1>2, <1>3, <1>6

LEMMA BaseStep ==
  ASSUME BaseInv, [Next]_vars
  PROVE  BaseInv'
<1>0. MaxPush \in Nat \ {0}
  BY PublishAssumption
<1> USE DEF BaseInv
<1>1. CASE UNCHANGED vars
  BY <1>1 DEF vars, Types, RowInv
<1>2. CASE Push
  <2>1. head' = head + 1 /\ head < MaxPush /\ head \in 1 .. MaxPush
    BY <1>2 DEF Push, Types
  <2>2. head' \in 1 .. MaxPush
    BY <1>0, <2>1
  <2>3. PICK c \in Configs, ps \in SUBSET Files, listed \in BOOLEAN :
          Pushed(c, ps, listed) /\ GitTree(tree')
    BY <1>2, PushIs
  <2>4. UNCHANGED <<row, job, run>>
    BY <1>2 DEF Push
  <2>5. tree' \in Trees
    <3>1. \A f \in Files : tree[f] \in 0 .. MaxPush
      BY DEF Types, Trees
    <3>2. {0, head'} \subseteq 0 .. MaxPush
      BY <1>0, <2>2
    <3>3. tree' \in [Files -> 0 .. MaxPush]
      BY <2>3, <3>1, <3>2 DEF Pushed
    <3> QED  BY <2>3, <3>3 DEF Trees
  <2>6. \A d \in due' : d.n \in 2 .. head' /\ d.paths \subseteq Files \cup {ConfigFile}
    <3>1. \A d \in due : d.n \in 2 .. head' /\ d.paths \subseteq Files \cup {ConfigFile}
      BY <1>0, <2>1 DEF Types
    <3>2. head' \in 2 .. head'
      BY <1>0, <2>1
    <3> QED  BY <2>3, <3>1, <3>2 DEF Pushed
  <2>7. /\ job' \in {"none", "pending", "running"} /\ missed' \in BOOLEAN
        /\ run' # None => /\ job' = "running" /\ run'.head \in 1 .. head'
                          /\ run'.config \in Configs /\ run'.tree \in Trees
    BY <1>0, <2>1, <2>3, <2>4 DEF Types, Pushed
  <2>8. RowInv'
    BY <2>4 DEF RowInv
  <2> QED  BY <2>2, <2>3, <2>5, <2>6, <2>7, <2>8 DEF Types, Pushed
<1>3. ASSUME NEW d \in due, HandlePush(d)
      PROVE  BaseInv'
  BY <1>3 DEF HandlePush, Dropped, Types, RowInv
<1>4. CASE StartRun
  BY <1>4 DEF StartRun, Types, RowInv
<1>5. CASE Fetch
  <2>1. /\ run' = [head |-> head, config |-> config, tree |-> tree] /\ job' = "running"
        /\ UNCHANGED <<config, tree, head, due, row>> /\ missed' = FALSE
    BY <1>5 DEF Fetch
  <2>2. run'.head = head /\ run'.config = config /\ run'.tree = tree /\ head \in 1 .. head
    BY <1>0, <2>1 DEF Types
  <2> QED  BY <2>1, <2>2 DEF Types, RowInv
<1>6. CASE Reconcile
  <2>1. /\ row' = Reconciled(run.config, run.tree) /\ job' = "none" /\ run' = None
        /\ UNCHANGED <<config, tree, head, due, missed>>
        /\ run.config \in Configs /\ run.tree \in Trees
    BY <1>6 DEF Reconcile, Types
  <2> QED  BY <2>1 DEF Types, RowInv
<1>7. CASE Retry \/ Archive
  BY <1>7 DEF Retry, Archive, Types, RowInv
<1> QED  BY <1>1, <1>2, <1>3, <1>4, <1>5, <1>6, <1>7 DEF Next

\* Type correctness: configuration, tree, events, queue slot and run keep their types, and
\* a stored document is a file with the push that wrote it.
THEOREM TypeCorrect == Spec => []TypeOK
<1>1. BaseInv => TypeOK
  BY ReconciledRow DEF BaseInv, Types, RowInv, TypeOK, Trees
<1> QED  BY <1>1, BaseInit, BaseStep, PTL DEF Spec

\* For any tree and any configuration docz lets through, the published paths of the rows
\* that runs store are keys of the repository's pages, and none has an unsafe segment.
THEOREM PathsAreKeys == Spec => []PublishedPathsAreKeys
<1>1. BaseInv => PublishedPathsAreKeys
  BY KeysOK DEF BaseInv, RowInv, PublishedPathsAreKeys
<1> QED  BY <1>1, BaseInit, BaseStep, PTL DEF Spec

-----------------------------------------------------------------------------
(***************************************************************************)
(* What is served is current.  A configuration is plain when its docs_dir  *)
(* is spelled as the paths of a push are.  The publish_spelling run shows  *)
(* what becomes of the others, so the hypothesis cannot be dropped.        *)
(***************************************************************************)
LEMMA CurrentInit == Init => CurrentInv
BY DEF Init, CurrentInv

\* A push that lists its paths keeps every difference announced.
LEMMA PushAnnounces ==
  ASSUME BaseInv, CurrentInv, Push
  PROVE  CurrentInv'
<1>0. PICK c \in Configs, ps \in SUBSET Files, listed \in BOOLEAN : Pushed(c, ps, listed)
  BY PushIs DEF BaseInv
<1>1. /\ config' = c /\ \A f \in Files \ ps : tree'[f] = tree[f]
      /\ due' = due \cup {[n |-> head', paths |-> IF ~listed THEN {} ELSE
                             ps \cup IF c # config THEN {ConfigFile} ELSE {}]}
      /\ missed' = (missed \/ ~listed)
  BY <1>0 DEF Pushed
<1> DEFINE ev == [n |-> head', paths |-> IF ~listed THEN {} ELSE
                    ps \cup IF c # config THEN {ConfigFile} ELSE {}]
<1>2. UNCHANGED <<row, job, run>> /\ head' = head + 1
  BY DEF Push
<1>3. ev.n = head' /\ (listed => /\ ps \subseteq ev.paths
                                 /\ c # config => ConfigFile \in ev.paths)
  OBVIOUS
<1>4. due' = due \cup {ev}
  BY <1>1
<1> HIDE DEF ev
<1>5. ASSUME NEW c0 \in Configs, NEW t0 \in Trees, NEW ds, NEW es, ~missed',
             Announced(c0, t0, ds), ds \subseteq es, ev \in es
      PROVE  /\ config' # c0 => \E d \in es : ConfigFile \in d.paths
             /\ \A f \in Files : Relevant(c0, f) /\ tree'[f] # t0[f] => \E d \in es : f \in d.paths
  <2>1. listed
    BY <1>1, <1>5
  <2>2. config' # c0 => \E d \in es : ConfigFile \in d.paths
    BY <1>1, <1>3, <1>5, <2>1 DEF Announced
  <2>3. \A f \in Files : f \notin ps => tree'[f] = tree[f]
    BY <1>1
  <2>4. \A f \in Files : Relevant(c0, f) /\ tree'[f] # t0[f] => \E d \in es : f \in d.paths
    BY <1>3, <1>5, <2>1, <2>3 DEF Announced
  <2> QED  BY <2>2, <2>4
<1>6. ASSUME job' = "none", ~missed'
      PROVE  \E c0 \in Configs, t0 \in Trees : row' = Reconciled(c0, t0) /\ Announced(c0, t0, due)'
  <2>1. PICK c0 \in Configs, t0 \in Trees : row = Reconciled(c0, t0) /\ Announced(c0, t0, due)
    BY <1>1, <1>2, <1>6 DEF CurrentInv
  <2>2. due \subseteq due' /\ ev \in due'
    BY <1>4
  <2>3. /\ config' # c0 => \E d \in due' : ConfigFile \in d.paths
        /\ \A f \in Files : Relevant(c0, f) /\ tree'[f] # t0[f] => \E d \in due' : f \in d.paths
    BY <1>5, <1>6, <2>1, <2>2
  <2>4. Announced(c0, t0, due)'
    BY <2>3 DEF Announced
  <2> QED  BY <1>2, <2>1, <2>4
<1>7. ASSUME run' # None, ~missed'
      PROVE  Announced(run.config, run.tree, Later(run.head))'
  <2>1. Announced(run.config, run.tree, Later(run.head)) /\ run # None
    BY <1>1, <1>2, <1>7 DEF CurrentInv
  <2>2. run.config \in Configs /\ run.tree \in Trees /\ run.head \in 1 .. head
    BY <2>1 DEF BaseInv, Types
  <2>3. head' > run.head
    <3>1. head \in Nat
      BY PublishAssumption DEF BaseInv, Types
    <3> QED  BY <1>2, <2>2, <3>1
  <2>4. Later(run.head) \subseteq Later(run.head)' /\ ev \in Later(run.head)'
    BY <1>2, <1>3, <1>4, <2>3 DEF Later
  <2>5. /\ config' # run.config => \E d \in Later(run.head)' : ConfigFile \in d.paths
        /\ \A f \in Files : Relevant(run.config, f) /\ tree'[f] # run.tree[f] =>
              \E d \in Later(run.head)' : f \in d.paths
    BY <1>5, <1>7, <2>1, <2>2, <2>4
  <2> QED  BY <1>2, <2>5 DEF Announced
<1> QED  BY <1>6, <1>7 DEF CurrentInv

\* An event the filter turns away announced nothing that matters to the stored row.
LEMMA FilterIsSafe ==
  ASSUME AllPlain, NEW c \in Configs, NEW t \in Trees, NEW d, ~ShouldIngest(d, Reconciled(c, t)),
         Announced(c, t, due)
  PROVE  Announced(c, t, due \ {d})
<1>1. /\ Reconciled(c, t).plain /\ Reconciled(c, t).docsDir = c.docsDir
      /\ WatchedFiles(Reconciled(c, t)) = Watched(c)
  BY ReconciledRow DEF AllPlain
<1>2. \A p \in d.paths : p # ConfigFile /\ ~Relevant(c, p)
  BY <1>1 DEF ShouldIngest, Relevant
<1> QED  BY <1>2 DEF Announced

LEMMA HandleAnnounces ==
  ASSUME AllPlain, BaseInv, CurrentInv, NEW d \in due, HandlePush(d)
  PROVE  CurrentInv'
<1>1. due' = due \ {d} /\ UNCHANGED <<config, tree, head, row, run>>
  BY DEF HandlePush
<1>2. CASE row # None /\ ShouldIngest(d, row) /\ job = "none"
  <2>1. job' = "pending" /\ run' = None
    BY <1>1, <1>2 DEF HandlePush, BaseInv, Types
  <2> QED  BY <2>1 DEF CurrentInv
<1>3. CASE ~(row # None /\ ShouldIngest(d, row) /\ job = "none")
  <2>1. job' = job /\ missed' = (missed \/ (run # None /\ d.n > run.head))
    BY <1>3 DEF HandlePush, Dropped
  <2>2. ASSUME job' = "none", ~missed'
        PROVE  \E c \in Configs, t \in Trees : row' = Reconciled(c, t) /\ Announced(c, t, due)'
    <3>1. PICK c \in Configs, t \in Trees : row = Reconciled(c, t) /\ Announced(c, t, due)
      BY <2>1, <2>2 DEF CurrentInv
    <3>2. ~ShouldIngest(d, Reconciled(c, t))
      BY <1>3, <2>1, <2>2, <3>1, ReconciledRow
    <3>3. Announced(c, t, due \ {d})
      BY <3>1, <3>2, FilterIsSafe
    <3>4. Announced(c, t, due)'
      BY <1>1, <3>3 DEF Announced
    <3> QED  BY <1>1, <3>1, <3>4
  <2>3. ASSUME run' # None, ~missed'
        PROVE  Announced(run.config, run.tree, Later(run.head))'
    <3>1. run # None /\ ~missed /\ ~(d.n > run.head)
      BY <1>1, <2>1, <2>3 DEF BaseInv, Types
    <3>2. Later(run.head)' = Later(run.head)
      BY <1>1, <3>1 DEF Later
    <3>3. Announced(run.config, run.tree, Later(run.head))
      BY <3>1 DEF CurrentInv
    <3> QED  BY <1>1, <3>2, <3>3 DEF Announced
  <2> QED  BY <2>2, <2>3 DEF CurrentInv
<1> QED  BY <1>2, <1>3

LEMMA CurrentStep ==
  ASSUME AllPlain, BaseInv, CurrentInv, [Next]_vars
  PROVE  CurrentInv'
<1>1. CASE UNCHANGED vars
  BY <1>1 DEF vars, CurrentInv, Announced, Later
<1>2. CASE Push
  BY <1>2, PushAnnounces
<1>3. ASSUME NEW d \in due, HandlePush(d)
      PROVE  CurrentInv'
  BY <1>3, HandleAnnounces
<1>4. CASE StartRun
  <2>1. job' = "running" /\ run' = None
    BY <1>4 DEF StartRun, BaseInv, Types
  <2> QED  BY <2>1 DEF CurrentInv
<1>5. CASE Fetch
  <2>1. /\ job' = "running" /\ UNCHANGED <<config, tree>>
        /\ run' = [head |-> head, config |-> config, tree |-> tree]
    BY <1>5 DEF Fetch
  <2>2. run'.config = config' /\ run'.tree = tree'
    BY <2>1
  <2>3. Announced(run.config, run.tree, Later(run.head))'
    BY <2>2 DEF Announced
  <2> QED  BY <2>1, <2>3 DEF CurrentInv
<1>6. CASE Reconcile
  <2>1. /\ row' = Reconciled(run.config, run.tree) /\ job' = "none" /\ run' = None
        /\ UNCHANGED <<config, tree, due, missed>>
        /\ run # None /\ run.config \in Configs /\ run.tree \in Trees
    BY <1>6 DEF Reconcile, BaseInv, Types
  <2>2. PICK c \in Configs, t \in Trees : c = run.config /\ t = run.tree
    BY <2>1
  <2>3. ASSUME ~missed'
        PROVE  Announced(c, t, due)'
    <3>1. Announced(c, t, Later(run.head))
      BY <2>1, <2>2, <2>3 DEF CurrentInv
    <3>2. Later(run.head) \subseteq due'
      BY <2>1 DEF Later
    <3> QED  BY <2>1, <3>1, <3>2 DEF Announced
  <2> QED  BY <2>1, <2>2, <2>3 DEF CurrentInv
<1>7. CASE Retry \/ Archive
  BY <1>7 DEF Retry, Archive, CurrentInv
<1> QED  BY <1>1, <1>2, <1>3, <1>4, <1>5, <1>6, <1>7 DEF Next

\* Nothing due and nothing under way: the row is what HEAD asks for.
LEMMA CurrentAtRest ==
  ASSUME BaseInv, CurrentInv, job = "none", due = {}, ~missed
  PROVE  /\ row.pages = DesiredPages(config, tree)
         /\ row.docs = ServedDocs(config, tree)
         /\ row.index = Fetched(LandingPath(config), tree)
         /\ row.changelog = Fetched(config.changelog, tree)
<1>1. PICK c \in Configs, t \in Trees : row = Reconciled(c, t) /\ Announced(c, t, due)
  BY DEF CurrentInv
<1>2. config = c /\ \A f \in Files : Relevant(c, f) => t[f] = tree[f]
  BY <1>1 DEF Announced
<1>3. tree \in Trees
  BY DEF BaseInv, Types
<1>4. /\ DesiredPages(c, t) = DesiredPages(c, tree)
      /\ ServedDocs(c, t) = ServedDocs(c, tree)
      /\ Fetched(LandingPath(c), t) = Fetched(LandingPath(c), tree)
      /\ Fetched(c.changelog, t) = Fetched(c.changelog, tree)
  BY <1>2, <1>3, SameServed
<1>5. /\ Reconciled(c, t).index = Fetched(LandingPath(c), t)
      /\ Reconciled(c, t).changelog = Fetched(c.changelog, t)
  BY DEF Reconciled
<1> QED  BY <1>1, <1>2, <1>4, <1>5, PagesAreDesired, DocsAreServed

\* For any files and plain configurations, across changes of the configuration and events
\* in any order: at rest, with no push excused, the pages, documents, landing page and
\* changelog that are served are those HEAD asks for, and the only documents beyond them
\* are the stray files buildDocuments lets in.
THEOREM PublicationIsCurrent ==
  ASSUME AllPlain
  PROVE  Spec => []PublishedIsCurrent
<1>1. Init => PublishInv
  BY BaseInit, CurrentInit DEF PublishInv
<1>2. PublishInv /\ [Next]_vars => PublishInv'
  BY BaseStep, CurrentStep DEF PublishInv
<1>3. PublishInv => PublishedIsCurrent
  BY CurrentAtRest DEF PublishInv, PublishedIsCurrent, ServedDocs
<1> QED  BY <1>1, <1>2, <1>3, PTL DEF Spec
=============================================================================
