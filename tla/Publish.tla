------------------------------- MODULE Publish ------------------------------
(***************************************************************************)
(* What docz-api serves of a repository's files, and which pushes make it  *)
(* look again: the fetch of internal/githubapp, the documents and pages    *)
(* internal/ingest builds from it, and the push filter of                  *)
(* internal/webhook.  A path is the sequence of its segments, a file's     *)
(* content the number of the push that wrote it.  The queue is one slot    *)
(* (JobSlot.tla): a trigger that meets a waiting or running job is merged  *)
(* into it.                                                                *)
(*                                                                         *)
(* GitHub and the docz library that parses and validates .docz.yaml are    *)
(* external.  docz normalises every path of the configuration except       *)
(* docs_dir, which stays as it is spelled ("docs/", "./docs").             *)
(***************************************************************************)
EXTENDS Naturals, Sequences, FiniteSets

CONSTANTS
  Files,         \* the paths that occur in the tree
  Configs,       \* the valid contents of .docz.yaml
  Markdown,      \* file names that end in .md
  DoczNames,     \* file names doczdoc.IsDoczFile accepts
  Frontmatter,   \* the files that have one
  Unsafe,        \* segments no published path may have: ".", "..", ...
  None,
  MaxPush        \* BOUND

ConfigFile == <<".docz.yaml">>
Readme == "README.md"
Index == "index.md"

Dir(p) == SubSeq(p, 1, Len(p) - 1)
Base(p) == p[Len(p)]
UnderDir(p, d) == Len(p) > Len(d) /\ SubSeq(p, 1, Len(d)) = d
Rel(p, d) == SubSeq(p, Len(d) + 1, Len(p))
IsMd(p) == Base(p) \in Markdown

Segment == STRING
Path == Seq(Segment) \ {<<>>}

ValidPublishedPath(p) == p # <<>> /\ \A i \in 1 .. Len(p) : p[i] \notin Unsafe

\* What is stored of a repository, and the snapshot of a run.
Row == [docsDir : Path, plain : BOOLEAN, changelogFile : Path \cup {None},
        apiLanding : Path \cup {None}, apiDocs : SUBSET Path,
        pages : SUBSET (Seq(Segment) \X Files \X Nat), docs : SUBSET (Files \X Nat),
        index : Nat, changelog : Nat]
Run == [head : Nat, config : Configs, tree : [Files -> Nat]]

\* The configuration is as docz's validator leaves it (clause R10: an enabled api: block
\* has its landing page filled in, and its additional documents are clean and outside
\* docs_dir).
ASSUME PublishAssumption ==
  /\ MaxPush \in Nat \ {0} /\ {Readme, Index} \subseteq Markdown /\ Markdown \subseteq Segment
  /\ Files \subseteq Path /\ ConfigFile \notin Files
  /\ None \notin Path /\ None \notin Row /\ None \notin Run
  /\ \A c \in Configs :
       /\ c.docsDir \in Path /\ c.plain \in BOOLEAN /\ c.api \in BOOLEAN
       /\ {c.landing, c.changelog} \subseteq Path \cup {None} /\ c.additional \subseteq Path
       /\ c.typeDirs \subseteq Path /\ \A d \in c.typeDirs : UnderDir(d, c.docsDir)
       /\ c.api =>
            /\ c.landing # None
            /\ \A p \in c.additional :
                 ~UnderDir(p, c.docsDir) /\ p # c.landing /\ ValidPublishedPath(p)

VARIABLES
  config, tree, head,     \* GitHub: .docz.yaml, the files (0 absent), pushes so far
  due,                    \* push events on their way
  row,                    \* Postgres: the repository with its documents and pages
  job, run,               \* the queue's slot and the run's snapshot
  missed                  \* history: HEAD has what no delivery or run will look at

vars == <<config, tree, head, due, row, job, run, missed>>

Present(t) == {f \in Files : t[f] > 0}

\* In git a path is a file or a directory, not both; which of them may change.
GitTree(t) == \A f, g \in Present(t) : ~UnderDir(f, g)

Clash(f) == {g \in Files : UnderDir(f, g) \/ UnderDir(g, f)}

-----------------------------------------------------------------------------
(***************************************************************************)
(* Fetch (internal/githubapp/client.go).                                   *)
(***************************************************************************)
\* classifyTree and fetchAdditionalDocs: the blobs ingest gets to see.
ClassifyTree(c, t) ==
  {f \in Present(t) : Base(f) \in DoczNames \/ (c.api /\ UnderDir(f, c.docsDir) /\ IsMd(f))}

FetchAdditionalDocs(c, t) ==
  IF c.api THEN {f \in c.additional \cap Present(t) : IsMd(f)} ELSE {}

Blobs(c, t) == ClassifyTree(c, t) \cup FetchAdditionalDocs(c, t)

LandingPath(c) == IF c.api THEN c.landing ELSE Append(c.docsDir, Index)

Fetched(p, t) == IF p \in Present(t) THEN t[p] ELSE 0

-----------------------------------------------------------------------------
(***************************************************************************)
(* The page classifier (internal/ingest/pages.go) and buildDocuments.      *)
(***************************************************************************)
Excluded(c, p) ==
  \E e \in {Append(c.docsDir, "templates")} \cup {c.docsDir \o x : x \in c.exclude} :
    p = e \/ UnderDir(p, e)

InTypeDir(c, p) == \E d \in c.typeDirs : UnderDir(p, d)

\* MUTANT: an index.md is its directory's page even beside a README.md.
ClaimReadmeDirsNone(c, blobs) == {}

ClaimReadmeDirs(c, blobs) ==
  {Dir(p) : p \in {f \in blobs : /\ UnderDir(f, c.docsDir) /\ ~Excluded(c, f) /\ ~InTypeDir(c, f)
                                 /\ Base(f) = Readme /\ Dir(f) # c.docsDir}}

Classified(c, p) ==
  /\ p # c.landing
  /\ UnderDir(p, c.docsDir) /\ IsMd(p)
  /\ ~Excluded(c, p) /\ ~InTypeDir(c, p)

PublishedPath(c, p, readmeDirs) ==
  LET dirPage == \/ Base(p) = Readme
                 \/ Base(p) = Index /\ Dir(p) \notin readmeDirs
  IN IF Dir(p) # c.docsDir /\ dirPage THEN Rel(Dir(p), c.docsDir) ELSE Rel(p, c.docsDir)

\* A page: where it is published and the file it comes from.
DocsDirPages(c, blobs) ==
  LET dirs == ClaimReadmeDirs(c, blobs) IN
  {pg \in {[path |-> PublishedPath(c, f, dirs), file |-> f] : f \in {b \in blobs : Classified(c, b)}} :
     ValidPublishedPath(pg.path)}

BuildPages(c, blobs) ==
  LET pages == DocsDirPages(c, blobs)
      extra == {f \in c.additional : IsMd(f) /\ f \in blobs /\ \A pg \in pages : pg.path # f}
  IN IF c.api THEN pages \cup {[path |-> f, file |-> f] : f \in extra} ELSE {}

BuildDocuments(c, blobs) == {f \in blobs : Dir(f) \in c.typeDirs /\ f \in Frontmatter}

\* The row of a page, and what the push filter needs of the api: block.
PageInput(pg, t) == <<pg.path, pg.file, t[pg.file]>>

ApiFields(c) == IF c.api THEN [landing |-> c.landing, docs |-> c.additional]
                ELSE [landing |-> None, docs |-> {}]

\* The row a run writes.  docs_dir is stored as it is spelled.
Reconciled(c, t) ==
  LET pages == BuildPages(c, Blobs(c, t)) docs == BuildDocuments(c, Blobs(c, t)) IN
  [docsDir |-> c.docsDir, plain |-> c.plain,
   changelogFile |-> c.changelog,
   apiLanding |-> ApiFields(c).landing, apiDocs |-> ApiFields(c).docs,
   pages |-> {PageInput(pg, t) : pg \in pages},
   docs |-> {<<f, t[f]>> : f \in docs},
   index |-> Fetched(LandingPath(c), t),
   changelog |-> Fetched(c.changelog, t)]

-----------------------------------------------------------------------------
Init ==
  /\ config \in Configs /\ head = 1 /\ due = {}
  /\ tree = [f \in Files |-> IF \E g \in Files : UnderDir(f, g) THEN 0 ELSE 1]
  /\ row = None /\ job = "pending" /\ run = None      \* onboarding
  /\ missed = FALSE

\* A file that takes the place of a directory removes the files below it, and the other
\* way round.
Changed(ps, written) == ps \cup {g \in Present(tree) : \E f \in written : g \in Clash(f)}

\* The push that makes c the configuration and changes the files fs.
PushOf(c, fs, written, listed) ==
  /\ config' = c
  /\ tree' = [f \in Files |-> IF f \notin fs THEN tree[f] ELSE IF f \in written THEN head' ELSE 0]
  /\ due' = due \cup {[n |-> head', paths |-> IF ~listed THEN {} ELSE
                         fs \cup IF c # config THEN {ConfigFile} ELSE {}]}
  /\ missed' = (missed \/ ~listed)

\* A push to the default branch writes or removes one file, .docz.yaml, or both.  One that
\* takes HEAD back, or has too many commits, does not list what it changed.
Push ==
  /\ head < MaxPush /\ head' = head + 1
  /\ \E c \in Configs, ps \in {{}} \cup {{f} : f \in Files}, listed \in BOOLEAN :
       /\ c # config \/ ps # {}
       /\ \E written \in {{}, ps} : PushOf(c, Changed(ps, written), written, listed)
  /\ UNCHANGED <<row, job, run>>

\* MUTANT: only the changelog is watched outside docs_dir.
WatchedFilesOld(r) == {r.changelogFile} \ {None}

WatchedFiles(r) == ({r.changelogFile, r.apiLanding} \ {None}) \cup r.apiDocs

\* The prefix is docs_dir as it is stored: "docs/" and "./docs" are under no path.
ShouldIngest(d, r) ==
  \E p \in d.paths :
    p = ConfigFile \/ (r.plain /\ UnderDir(p, r.docsDir)) \/ p \in WatchedFiles(r)

\* A trigger is merged into the job there is; while the run has fetched and not
\* finished, what it has not seen is nobody's business any more.
Dropped(d) == missed' = (missed \/ (run # None /\ d.n > run.head))

HandlePush(d) ==
  /\ d \in due /\ due' = due \ {d}
  /\ IF row # None /\ ShouldIngest(d, row) /\ job = "none"
     THEN job' = "pending" /\ UNCHANGED missed
     ELSE UNCHANGED job /\ Dropped(d)
  /\ UNCHANGED <<config, tree, head, row, run>>

StartRun ==
  /\ job = "pending" /\ job' = "running"
  /\ UNCHANGED <<config, tree, head, due, row, run, missed>>

Fetch ==
  /\ job = "running" /\ run = None
  /\ run' = [head |-> head, config |-> config, tree |-> tree]
  /\ missed' = FALSE
  /\ UNCHANGED <<config, tree, head, due, row, job>>

\* MUTANT: the job is finished before the run is.
ReconcileLeavesRun ==
  /\ run # None
  /\ row' = Reconciled(run.config, run.tree)
  /\ job' = "none"
  /\ UNCHANGED <<config, tree, head, due, run, missed>>

Reconcile ==
  /\ run # None
  /\ row' = Reconciled(run.config, run.tree)
  /\ job' = "none" /\ run' = None
  /\ UNCHANGED <<config, tree, head, due, missed>>

\* The run fails and is retried from its fetch.
Retry ==
  /\ job = "running" /\ job' = "pending" /\ run' = None
  /\ UNCHANGED <<config, tree, head, due, row, missed>>

\* The run fails for the last time and its job is archived, where it keeps no later trigger
\* out (IngestQueue.tla); which failure is the last is left open.
Archive ==
  /\ job = "running" /\ job' = "none" /\ run' = None
  /\ missed' = TRUE
  /\ UNCHANGED <<config, tree, head, due, row>>

Next ==
  \/ Push \/ (\E d \in due : HandlePush(d))
  \/ StartRun \/ Fetch \/ Reconcile \/ Retry \/ Archive

Spec == Init /\ [][Next]_vars

-----------------------------------------------------------------------------
(***************************************************************************)
(* Properties.                                                             *)
(***************************************************************************)
TypeOK ==
  /\ config \in Configs /\ tree \in [Files -> 0 .. MaxPush] /\ GitTree(tree) /\ head \in 1 .. MaxPush
  /\ \A d \in due : d.n \in 2 .. head /\ d.paths \subseteq Files \cup {ConfigFile}
  /\ row = None \/ (row.docs \subseteq Files \X (1 .. MaxPush))
  /\ job \in {"none", "pending", "running"} /\ missed \in BOOLEAN
  /\ run # None => job = "running" /\ run.head \in 1 .. head

(***************************************************************************)
(* What a repository's HEAD should be served as, said per directory and    *)
(* over the whole tree, in the words of DESIGN-0004: a directory below     *)
(* docs_dir is published as its README.md, or else its index.md; other     *)
(* Markdown files under their path relative to docs_dir; nothing of        *)
(* templates, the excluded prefixes and the type directories; the landing  *)
(* page apart; additional documents where no page has their path.  A file  *)
(* directly in a type directory is a document if its name is docz's and it *)
(* has a frontmatter (rule 4); the exclusions are read as about pages      *)
(* only, since buildDocuments is "untouched" (DESIGN-0004:267).            *)
(***************************************************************************)
Eligible(c, t) ==
  {f \in Present(t) : UnderDir(f, c.docsDir) /\ IsMd(f) /\ ~Excluded(c, f) /\ ~InTypeDir(c, f)}

Owner(c, t, d) ==
  LET has(name) == Append(d, name) \in Eligible(c, t)
  IN IF d = c.docsDir THEN None
     ELSE IF has(Readme) THEN Append(d, Readme) ELSE IF has(Index) THEN Append(d, Index) ELSE None

DesiredPages(c, t) ==
  LET at(f) == Rel(IF Owner(c, t, Dir(f)) = f THEN Dir(f) ELSE f, c.docsDir)
      safe(f) == \A i \in 1 .. Len(at(f)) : at(f)[i] \notin Unsafe
      inside == {<<at(f), f, t[f]>> : f \in {g \in Eligible(c, t) \ {c.landing} : safe(g)}}
      extra == {<<f, f, t[f]>> : f \in {g \in c.additional \cap Present(t) : IsMd(g)}}
  IN IF ~c.api THEN {} ELSE inside \cup {x \in extra : \A y \in inside : y[1] # x[1]}

InType(c, t) == {f \in Present(t) : f \in Frontmatter /\ Dir(f) \in c.typeDirs}

DesiredDocs(c, t) == {<<f, t[f]>> : f \in {g \in InType(c, t) : Base(g) \in DoczNames}}

\* Rule 4 skips and reports these; buildDocuments, which asks for no docz name, serves them
\* once the api: block has widened the fetch (StraysAreSkipped).
Strays(c, t) ==
  IF c.api THEN {<<f, t[f]>> : f \in {g \in InType(c, t) : IsMd(g) /\ Base(g) \notin DoczNames}}
  ELSE {}

\* Once no push event is on its way and no job waits or runs, what is served is what
\* HEAD asks for, pages, documents, landing page and changelog alike: the fetch saw
\* every file the classifier needs and the push filter let no relevant push through
\* (events.go:218-250), also across changes of the configuration and events out of
\* order.  Excused are pushes whose event lists no paths, pushes that were handled after
\* the fetch of a run and before its end, and what a run archived after its last retry
\* should have published; the stray files are those the publish_stray run is about.
PublishedIsCurrent ==
  job = "none" /\ due = {} /\ ~missed =>
    /\ row.pages = DesiredPages(config, tree)
    /\ row.docs = DesiredDocs(config, tree) \cup Strays(config, tree)
    /\ row.index = Fetched(LandingPath(config), tree)
    /\ row.changelog = Fetched(config.changelog, tree)

\* Published paths are keys (the unique constraint on repo_id and path): no two files
\* claim one, whatever mixture of README.md, index.md, plain files and additional
\* documents the tree and the configuration have, and none has an unsafe segment.
PublishedPathsAreKeys ==
  row # None =>
    \A x, y \in row.pages : (x[1] = y[1] => x = y) /\ ValidPublishedPath(x[1])

\* DESIGN-0004:389 says of the filter's prefix check "covers ALL under-docs_dir pages":
\* at rest every page under docs_dir is served as HEAD has it.
DocsDirPagesCovered ==
  job = "none" /\ due = {} /\ ~missed => row.pages = DesiredPages(config, tree)

\* DESIGN-0004:254-261 says of a type directory "IsDoczFile + frontmatter -> document" and
\* "anything else -> skip + Warn", and pages.go:185 logs "skipping stray file in a docz type
\* directory": at rest no stray file is served as a document.
StraysAreSkipped ==
  job = "none" /\ due = {} /\ ~missed => row.docs \cap Strays(config, tree) = {}
=============================================================================
