------------------------------ MODULE Reconcile ------------------------------
(***************************************************************************)
(* One repository in Postgres and in Meilisearch, under a sequence of      *)
(* ingest runs: store.ReconcileRepo (internal/store/reconcile.go), the     *)
(* statements of its transaction one by one, then the index sync of        *)
(* ingest.Service (internal/ingest/service.go: indexSearch, syncIndex).    *)
(*                                                                         *)
(* Documents and pages go through the same loop over their own table: an   *)
(* upsert pass gated on the content hash read before the pass, then a      *)
(* delete pass.  Their keys (doc id, published path) never meet, and both  *)
(* passes are in one transaction, so a key here is either.  What a row     *)
(* holds besides its key is split in two: "hash" is all that the sha256 of *)
(* the file's bytes decides (title, status, author, body, git sha), "type" *)
(* what it does not (doc type and path; repo_path of a page).              *)
(***************************************************************************)
EXTENDS Integers, Sequences

CONSTANTS
  Keys,       \* doc ids and published page paths
  Types,      \* doc types (with the directory they stand for)
  Hashes,     \* content hashes
  Absent,     \* no row, no record
  Snapshots   \* what Run can build from a HEAD: doc types, rows in tree order

Row == [type : Types, hash : Hashes]
Entry == [key : Keys, row : Row]

\* An installed row has a type that the snapshot's config enables
\* (buildDocuments ignores a blob outside every enabled type's directory).
ASSUME ReconcileAssumption ==
  /\ Absent \notin Row
  /\ Absent \notin Hashes
  /\ Snapshots \subseteq [types : SUBSET Types, rows : Seq(Entry)]
  /\ \A s \in Snapshots : \A j \in 1 .. Len(s.rows) : s.rows[j].row.type \in s.types

VARIABLES
  docs, types,       \* Postgres, committed
  index,             \* Meilisearch
  phase,             \* where the run of this repository is
  want,              \* the snapshot it ingests
  current,           \* the hashes it read before the upsert pass
  wdocs, wtypes,     \* its transaction's view
  i, todo,           \* positions of the upsert and the delete loop
  upserted, deleted, \* the ReconcileResult the index sync works from
  records,           \* rows read back for the index
  \* history: the snapshot last committed, the keys whose last sync did not complete
  synced, lag

txVars == <<want, current, wdocs, wtypes, i, todo>>
vars == <<docs, types, index, phase, txVars, upserted, deleted, records,
          synced, lag>>

NoRows == [k \in Keys |-> Absent]
NoSnapshot == [types |-> {}, rows |-> <<>>]

TypeOK ==
  /\ docs \in [Keys -> Row \cup {Absent}]
  /\ types \in SUBSET Types
  /\ index \in [Keys -> Row \cup {Absent}]
  /\ phase \in {"idle", "upsert", "delete", "unindex", "readback", "index"}
  /\ want \in Snapshots \cup {NoSnapshot}
  /\ current \in [Keys -> Hashes \cup {Absent}]
  /\ wdocs \in [Keys -> Row \cup {Absent}]
  /\ wtypes \in SUBSET Types
  /\ i \in Nat \ {0}
  /\ todo \in SUBSET Keys
  /\ upserted \in SUBSET Keys
  /\ deleted \in SUBSET Keys
  /\ records \in [Keys -> Row \cup {Absent}]
  /\ synced \in Snapshots \cup {NoSnapshot}
  /\ lag \in SUBSET Keys

Init ==
  /\ docs = NoRows
  /\ types = {}
  /\ index = NoRows
  /\ phase = "idle"
  /\ want = NoSnapshot
  /\ current = NoRows
  /\ wdocs = NoRows
  /\ wtypes = {}
  /\ i = 1
  /\ todo = {}
  /\ upserted = {}
  /\ deleted = {}
  /\ records = NoRows
  /\ synced = NoSnapshot
  /\ lag = {}

-----------------------------------------------------------------------------
(***************************************************************************)
(* The transaction.                                                        *)
(***************************************************************************)
HashOf(row) == IF row = Absent THEN Absent ELSE row.hash

\* MUTANT: the upsert loop starts one too early.
BeginReconcileAtZero(s) ==
  /\ phase = "idle"
  /\ phase' = "upsert"
  /\ want' = s
  /\ wtypes' = s.types
  /\ wdocs' = docs
  /\ current' = [k \in Keys |-> HashOf(docs[k])]
  /\ i' = 0
  /\ todo' = {k \in Keys : docs[k] # Absent}
  /\ UNCHANGED <<docs, types, index, upserted, deleted, records, synced, lag>>

\* Begin, UpsertRepo, reconcileDocTypes (upsert the desired, delete the others:
\* no gate) and ListDocumentHashes.  Nothing of this is visible before Commit.
BeginReconcile(s) ==
  /\ phase = "idle"
  /\ phase' = "upsert"
  /\ want' = s
  /\ wtypes' = s.types
  /\ wdocs' = docs
  /\ current' = [k \in Keys |-> HashOf(docs[k])]
  /\ i' = 1
  /\ todo' = {k \in Keys : docs[k] # Absent}
  /\ UNCHANGED <<docs, types, index, upserted, deleted, records, synced, lag>>

At(j) == want.rows[j]

\* MUTANT: the gate asks only whether the row exists.
UnchangedByKey(e) == current[e.key] # Absent

\* MUTANT: the gate is gone, every row is written again.
UnchangedNever(e) == FALSE

\* The content-hash gate, against the hashes read before the pass.
Unchanged(e) == current[e.key] # Absent /\ current[e.key] = e.row.hash

SkipUnchanged ==
  /\ phase = "upsert"
  /\ i <= Len(want.rows)
  /\ Unchanged(At(i))
  /\ i' = i + 1
  /\ UNCHANGED <<docs, types, index, phase, want, current, wdocs, wtypes, todo,
                 upserted, deleted, records, synced, lag>>

\* MUTANT: the changed key is left out of the result.
UpsertDocumentUnreported ==
  /\ phase = "upsert"
  /\ i <= Len(want.rows)
  /\ ~Unchanged(At(i))
  /\ wdocs' = [wdocs EXCEPT ![At(i).key] = At(i).row]
  /\ i' = i + 1
  /\ UNCHANGED <<docs, types, index, phase, want, current, wtypes, todo,
                 upserted, deleted, records, synced, lag>>

UpsertDocument ==
  /\ phase = "upsert"
  /\ i <= Len(want.rows)
  /\ ~Unchanged(At(i))
  /\ wdocs' = [wdocs EXCEPT ![At(i).key] = At(i).row]
  /\ upserted' = upserted \cup {At(i).key}
  /\ i' = i + 1
  /\ UNCHANGED <<docs, types, index, phase, want, current, wtypes, todo,
                 deleted, records, synced, lag>>

EndUpserts ==
  /\ phase = "upsert"
  /\ i > Len(want.rows)
  /\ phase' = "delete"
  /\ UNCHANGED <<docs, types, index, txVars, upserted, deleted, records,
                 synced, lag>>

KeysOf(s) == {s.rows[j].key : j \in 1 .. Len(s.rows)}

\* The keep set of the upsert pass: gated entries count.
Kept(k) == k \in KeysOf(want)

DeleteAbsent(k) ==
  /\ phase = "delete"
  /\ k \in todo
  /\ todo' = todo \ {k}
  /\ IF Kept(k)
     THEN UNCHANGED <<wdocs, deleted>>
     ELSE /\ wdocs' = [wdocs EXCEPT ![k] = Absent]
          /\ deleted' = deleted \cup {k}
  /\ UNCHANGED <<docs, types, index, phase, want, current, wtypes, i,
                 upserted, records, synced, lag>>

\* Run returns; its locals are gone.
ReturnRun ==
  /\ phase' = "idle"
  /\ want' = NoSnapshot
  /\ current' = NoRows
  /\ wdocs' = NoRows
  /\ wtypes' = {}
  /\ i' = 1
  /\ todo' = {}
  /\ upserted' = {}
  /\ deleted' = {}
  /\ records' = NoRows

\* Any statement fails, or the process dies: the deferred rollback leaves the
\* committed rows alone and Run returns an error.
Rollback ==
  /\ phase \in {"upsert", "delete"}
  /\ ReturnRun
  /\ UNCHANGED <<docs, types, index, synced, lag>>

CommitTx ==
  /\ phase = "delete"
  /\ todo = {}
  /\ docs' = wdocs
  /\ types' = wtypes
  /\ synced' = want

Commit ==
  /\ CommitTx
  /\ phase' = "unindex"
  /\ UNCHANGED <<index, txVars, upserted, deleted, records, lag>>

\* The commit is applied but its answer is lost, or the process dies right
\* after it: Run returns an error and the index is never told.
CommitUnacknowledged ==
  /\ CommitTx
  /\ ReturnRun
  /\ lag' = lag \cup upserted \cup deleted
  /\ UNCHANGED index

-----------------------------------------------------------------------------
(***************************************************************************)
(* The index sync.  It is best-effort: a failure is logged, Run succeeds.  *)
(***************************************************************************)
\* The index after DeleteDocuments, after IndexDocuments.
WithoutDeleted == [k \in Keys |-> IF k \in deleted THEN Absent ELSE index[k]]
WithRecords == [k \in Keys |-> IF records[k] # Absent THEN records[k] ELSE index[k]]

Unindex ==
  /\ phase = "unindex"
  /\ phase' = "readback"
  /\ index' = WithoutDeleted
  /\ lag' = lag \ deleted
  /\ UNCHANGED <<docs, types, txVars, upserted, deleted, records, synced>>

\* upsertedIndexRecords: a row removed since the commit is simply missing.
Readback ==
  /\ phase = "readback"
  /\ phase' = "index"
  /\ records' = [k \in Keys |-> IF k \in upserted THEN docs[k] ELSE Absent]
  /\ UNCHANGED <<docs, types, index, txVars, upserted, deleted, synced, lag>>

IndexUpserted ==
  /\ phase = "index"
  /\ ReturnRun
  /\ index' = WithRecords
  /\ lag' = lag \ upserted
  /\ UNCHANGED <<docs, types, synced>>

\* Meilisearch or the read-back fails, or the process dies.  A write whose wait
\* failed may have been applied.
SyncFails ==
  /\ phase \in {"unindex", "readback", "index"}
  /\ ReturnRun
  /\ \/ UNCHANGED index
     \/ phase = "unindex" /\ index' = WithoutDeleted
     \/ phase = "index" /\ index' = WithRecords
  /\ lag' = lag \cup upserted \cup (IF phase = "unindex" THEN deleted ELSE {})
  /\ UNCHANGED <<docs, types, synced>>

-----------------------------------------------------------------------------
Next ==
  \/ \E s \in Snapshots : BeginReconcile(s)
  \/ SkipUnchanged \/ UpsertDocument \/ EndUpserts
  \/ \E k \in Keys : DeleteAbsent(k)
  \/ Rollback \/ Commit \/ CommitUnacknowledged
  \/ Unindex \/ Readback \/ IndexUpserted \/ SyncFails

Spec == Init /\ [][Next]_vars

-----------------------------------------------------------------------------
(***************************************************************************)
(* Properties.                                                             *)
(***************************************************************************)
InTx == phase \in {"upsert", "delete"}

\* No doc id (or published path) occurs twice in the snapshot.  Nothing in
\* buildDocuments makes sure of it.
Distinct(s) ==
  \A j, l \in 1 .. Len(s.rows) : s.rows[j].key = s.rows[l].key => j = l

\* "ReconcileRepo drives the DB to match the desired state of one repo at HEAD":
\* the committed keys are those of the last committed snapshot, and each row
\* has the content of an entry with its key, through any sequence of earlier
\* snapshots, failures and duplicate keys.
CommittedMatchesSnapshot ==
  \A k \in Keys :
    /\ docs[k] # Absent <=> k \in KeysOf(synced)
    /\ docs[k] # Absent =>
         \E j \in 1 .. Len(synced.rows) :
           synced.rows[j].key = k /\ synced.rows[j].row.hash = docs[k].hash

\* The keys the running sync has not brought to the index yet.
InSync ==
  CASE phase = "unindex" -> upserted \cup deleted
    [] phase \in {"readback", "index"} -> upserted
    [] OTHER -> {}

\* The index differs from Postgres only where a sync is under way or where the
\* last one for that key failed: the change set of the reconcile misses nothing.
\* A later run makes up for the failure only if the document changes again, where
\* service.go:179-180 has "the next reconcile re-indexes the affected documents".
IndexAccounted ==
  \A k \in Keys : index[k] # docs[k] => k \in lag \cup InSync

\* "the content-hash gate makes any redundant re-run a cheap no-op"
\* (client.go:91): reconciling the snapshot that is already committed writes
\* and deletes nothing, whatever happened in between.  For snapshots in which
\* no key occurs twice.
RerunWritesNothing ==
  InTx /\ want = synced /\ Distinct(want) => upserted = {} /\ deleted = {}

\* "drives the DB to match the desired state" (reconcile.go:8), for the whole
\* row: a committed document has the type its snapshot gives it.
RowsMatchSnapshot ==
  \A j \in 1 .. Len(synced.rows) :
    Distinct(synced) => docs[synced.rows[j].key] = synced.rows[j].row
=============================================================================
