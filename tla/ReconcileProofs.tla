--------------------------- MODULE ReconcileProofs ---------------------------
(***************************************************************************)
(* Proofs about Reconcile for any keys, types, hashes and snapshots, of    *)
(* any length and with duplicate keys.                                     *)
(***************************************************************************)
EXTENDS Reconcile, TLAPS

\* Key k occurs among the entries the upsert loop has been through.
Seen(k) == \E j \in 1 .. Len(want.rows) : j < i /\ want.rows[j].key = k

\* Outside a run there is no result and no loop.
IdleInv == phase = "idle" => upserted = {} /\ deleted = {}

\* The invariant of the two loops.  A key the loop has seen holds the content of
\* an entry with that key (not always the last one: the gate compares with the
\* hashes read before the loop); any other key is as committed until the delete
\* loop has been over it; and every difference is in the result.
LoopInv ==
  InTx =>
    /\ current = [k \in Keys |-> HashOf(docs[k])]
    /\ i <= Len(want.rows) + 1
    /\ phase = "delete" => i = Len(want.rows) + 1
    /\ phase = "upsert" => todo = {k \in Keys : docs[k] # Absent}
    /\ todo \subseteq {k \in Keys : docs[k] # Absent}
    /\ \A k \in Keys :
         Seen(k) =>
           /\ wdocs[k] # Absent
           /\ \E j \in 1 .. Len(want.rows) :
                want.rows[j].key = k /\ want.rows[j].row.hash = wdocs[k].hash
    /\ \A k \in Keys :
         ~Seen(k) => IF docs[k] # Absent /\ k \notin todo
                     THEN wdocs[k] = Absent
                     ELSE wdocs[k] = docs[k]
    /\ \A k \in upserted : Seen(k)
    /\ \A k \in deleted : ~Seen(k) /\ docs[k] # Absent /\ k \notin todo
    /\ \A k \in Keys : wdocs[k] # docs[k] => k \in upserted \cup deleted

\* What the index sync relies on.
SyncInv ==
  /\ phase \in {"unindex", "readback", "index"} =>
       /\ \A k \in deleted : docs[k] = Absent
       /\ \A k \in upserted : docs[k] # Absent
  /\ phase = "index" =>
       records = [k \in Keys |-> IF k \in upserted THEN docs[k] ELSE Absent]

IInv ==
  /\ TypeOK
  /\ IdleInv
  /\ LoopInv
  /\ SyncInv
  /\ CommittedMatchesSnapshot
  /\ IndexAccounted
  /\ RerunWritesNothing

-----------------------------------------------------------------------------
\* A snapshot is a list of typed entries, the empty one included.
LEMMA SnapshotType ==
  ASSUME NEW s \in Snapshots \cup {NoSnapshot}
  PROVE  /\ s.rows \in Seq(Entry)
         /\ s.types \in SUBSET Types
         /\ Len(s.rows) \in Nat
         /\ \A j \in 1 .. Len(s.rows) :
              s.rows[j].key \in Keys /\ s.rows[j].row \in Row
              /\ s.rows[j].row.hash \in Hashes /\ s.rows[j].row # Absent
<1>1. s.rows \in Seq(Entry) /\ s.types \in SUBSET Types
  <2>1. CASE s \in Snapshots
    BY <2>1, ReconcileAssumption
  <2>2. CASE s = NoSnapshot
    BY <2>2 DEF NoSnapshot
  <2> QED
    BY <2>1, <2>2
<1>2. Len(s.rows) \in Nat /\ \A j \in 1 .. Len(s.rows) : s.rows[j] \in Entry
  BY <1>1
<1>3. \A e \in Entry : /\ e.key \in Keys /\ e.row \in Row
                       /\ e.row.hash \in Hashes /\ e.row # Absent
  BY ReconcileAssumption DEF Entry, Row
<1> QED
  BY <1>1, <1>2, <1>3

\* Every statement of a run keeps the state well typed.
LEMMA TypeStep == TypeOK /\ [Next]_vars => TypeOK'
<1> SUFFICES ASSUME TypeOK, [Next]_vars PROVE TypeOK'
  OBVIOUS
<1> USE ReconcileAssumption DEF TypeOK
<1>0. \A k \in Keys : HashOf(docs[k]) \in Hashes \cup {Absent}
  BY DEF HashOf, Row
<1>1. ASSUME NEW s \in Snapshots, BeginReconcile(s) PROVE TypeOK'
  BY <1>0, <1>1, SnapshotType DEF BeginReconcile
<1>2. CASE SkipUnchanged
  BY <1>2 DEF SkipUnchanged
<1>3. CASE UpsertDocument
  <2>1. At(i).key \in Keys /\ At(i).row \in Row
    BY <1>3, SnapshotType DEF UpsertDocument, At
  <2> QED
    BY <1>3, <2>1 DEF UpsertDocument
<1>4. CASE EndUpserts
  BY <1>4 DEF EndUpserts, txVars
<1>5. ASSUME NEW k \in Keys, DeleteAbsent(k) PROVE TypeOK'
  BY <1>5 DEF DeleteAbsent
<1>6. CASE Rollback
  BY <1>6 DEF Rollback, ReturnRun, NoRows
<1>7. CASE Commit
  BY <1>7 DEF Commit, CommitTx, txVars
<1>8. CASE CommitUnacknowledged
  BY <1>8 DEF CommitUnacknowledged, CommitTx, ReturnRun, NoRows
<1>9. CASE Unindex
  BY <1>9 DEF Unindex, WithoutDeleted, txVars
<1>10. CASE Readback
  BY <1>10 DEF Readback, txVars
<1>11. CASE IndexUpserted
  BY <1>11 DEF IndexUpserted, WithRecords, ReturnRun, NoRows
<1>12. CASE SyncFails
  BY <1>12 DEF SyncFails, WithRecords, WithoutDeleted, ReturnRun, NoRows
<1>13. CASE UNCHANGED vars
  BY <1>13 DEF vars, txVars
<1> QED
  BY <1>1, <1>2, <1>3, <1>4, <1>5, <1>6, <1>7, <1>8, <1>9, <1>10, <1>11, <1>12, <1>13
  DEF Next

\* The invariant holds of the empty database.
LEMMA InvInit == Init => IInv
<1> SUFFICES ASSUME Init PROVE IInv
  OBVIOUS
<1>1. TypeOK
  BY DEF Init, TypeOK, NoRows, NoSnapshot
<1>2. IdleInv /\ LoopInv /\ SyncInv /\ RerunWritesNothing
  BY DEF Init, IdleInv, LoopInv, SyncInv, RerunWritesNothing, InTx
<1>3. CommittedMatchesSnapshot
  <2>1. KeysOf(synced) = {} /\ \A k \in Keys : docs[k] = Absent
    BY DEF Init, NoRows, NoSnapshot, KeysOf
  <2> QED
    BY <2>1 DEF CommittedMatchesSnapshot
<1>4. IndexAccounted
  BY DEF Init, IndexAccounted
<1> QED
  BY <1>1, <1>2, <1>3, <1>4 DEF IInv

-----------------------------------------------------------------------------
\* One turn of the upsert loop adds one key to those seen.
LEMMA SeenStep ==
  ASSUME TypeOK, i \in 1 .. Len(want.rows), i' = i + 1, want' = want
  PROVE  \A k \in Keys : Seen(k)' <=> Seen(k) \/ k = want.rows[i].key
<1>1. Len(want.rows) \in Nat
  BY SnapshotType DEF TypeOK
<1> QED
  BY <1>1 DEF Seen, TypeOK

\* After the upsert loop the keys seen are the keys kept.
LEMMA SeenAll ==
  ASSUME TypeOK, i = Len(want.rows) + 1
  PROVE  \A k \in Keys : Seen(k) <=> k \in KeysOf(want)
<1>1. Len(want.rows) \in Nat
  BY SnapshotType DEF TypeOK
<1> QED
  BY <1>1 DEF Seen, KeysOf

\* A run starts from the committed rows.
LEMMA BeginInv == ASSUME IInv, NEW s \in Snapshots, BeginReconcile(s) PROVE IInv'
<1> USE DEF IInv
<1>1. TypeOK'
  BY TypeStep DEF Next
<1>2. IdleInv' /\ SyncInv'
  BY DEF BeginReconcile, IdleInv, SyncInv
<1>3. /\ want' = s /\ i' = 1 /\ upserted' = {} /\ deleted' = {} /\ docs' = docs
      /\ wdocs' = docs /\ phase' = "upsert"
      /\ current' = [k \in Keys |-> HashOf(docs[k])]
      /\ todo' = {k \in Keys : docs[k] # Absent}
  BY DEF BeginReconcile, IdleInv
<1>4. Len(s.rows) \in Nat
  BY SnapshotType
<1>5. \A k \in Keys : ~Seen(k)'
  BY <1>3, <1>4 DEF Seen
<1>6. LoopInv'
  BY <1>3, <1>4, <1>5 DEF LoopInv, InTx
<1>7. CommittedMatchesSnapshot'
  BY DEF BeginReconcile, CommittedMatchesSnapshot, KeysOf
<1>8. IndexAccounted'
  BY DEF BeginReconcile, IndexAccounted, InSync
<1>9. RerunWritesNothing'
  BY <1>3 DEF RerunWritesNothing
<1> QED
  BY <1>1, <1>2, <1>6, <1>7, <1>8, <1>9

\* A gated entry: the row has the entry's content already, or that of an earlier
\* entry with the same key.
LEMMA SkipInv == ASSUME IInv, SkipUnchanged PROVE IInv'
<1> USE DEF IInv
<1>1. TypeOK'
  BY TypeStep DEF Next
<1>2. /\ UNCHANGED <<docs, types, index, phase, want, current, wdocs, wtypes, todo,
                     upserted, deleted, records, synced, lag>>
      /\ i' = i + 1 /\ phase = "upsert" /\ i <= Len(want.rows) /\ Unchanged(At(i))
  BY DEF SkipUnchanged
<1>3. /\ Len(want.rows) \in Nat /\ i \in 1 .. Len(want.rows)
      /\ want.rows[i].key \in Keys
  BY <1>2, SnapshotType DEF TypeOK
<1>4. \A k \in Keys : Seen(k)' <=> Seen(k) \/ k = want.rows[i].key
  BY <1>2, <1>3, SeenStep
<1>5. LoopInv'
  <2> DEFINE e == want.rows[i]
  <2>1. LoopInv!2 /\ todo = {k \in Keys : docs[k] # Absent}
    BY <1>2 DEF LoopInv, InTx
  <2>2. docs[e.key] # Absent /\ docs[e.key].hash = e.row.hash
    BY <1>2, <1>3, <2>1 DEF Unchanged, At, HashOf
  <2>3. \A k \in Keys : Seen(k)' =>
          /\ wdocs[k] # Absent
          /\ \E j \in 1 .. Len(want.rows) :
               want.rows[j].key = k /\ want.rows[j].row.hash = wdocs[k].hash
    BY <1>3, <1>4, <2>1, <2>2
  <2>4. \A k \in upserted : Seen(k)'
    BY <1>4, <2>1 DEF TypeOK
  <2>5. deleted = {}
    BY <2>1 DEF TypeOK
  <2> QED
    BY <1>2, <1>3, <1>4, <2>1, <2>3, <2>4, <2>5 DEF LoopInv, InTx
<1>6. IdleInv' /\ SyncInv' /\ CommittedMatchesSnapshot' /\ IndexAccounted'
      /\ RerunWritesNothing'
  BY <1>2 DEF IdleInv, SyncInv, CommittedMatchesSnapshot, KeysOf, IndexAccounted,
              InSync, RerunWritesNothing, InTx, Distinct
<1> QED
  BY <1>1, <1>5, <1>6

\* An entry that is new or changed.  When the snapshot is the committed one and
\* its keys are distinct there is none: the committed hash is the entry's own.
LEMMA UpsertInv == ASSUME IInv, UpsertDocument PROVE IInv'
<1> USE DEF IInv
<1> DEFINE e == want.rows[i]
<1>1. TypeOK'
  BY TypeStep DEF Next
<1>2. /\ UNCHANGED <<docs, types, index, phase, want, current, wtypes, todo,
                     deleted, records, synced, lag>>
      /\ i' = i + 1 /\ phase = "upsert" /\ i <= Len(want.rows) /\ ~Unchanged(At(i))
      /\ wdocs' = [wdocs EXCEPT ![e.key] = e.row]
      /\ upserted' = upserted \cup {e.key}
  BY DEF UpsertDocument, At
<1>3. /\ Len(want.rows) \in Nat /\ i \in 1 .. Len(want.rows)
      /\ e.key \in Keys /\ e.row \in Row /\ e.row # Absent
  BY <1>2, SnapshotType DEF TypeOK
<1>4. \A k \in Keys : Seen(k)' <=> Seen(k) \/ k = e.key
  BY <1>2, <1>3, SeenStep
<1>5. LoopInv!2 /\ todo = {k \in Keys : docs[k] # Absent}
  BY <1>2 DEF LoopInv, InTx
<1>6. LoopInv'
  <2>1. \A k \in Keys : wdocs'[k] = IF k = e.key THEN e.row ELSE wdocs[k]
    BY <1>2, <1>3 DEF TypeOK
  <2>2. \A k \in Keys : Seen(k)' =>
          /\ wdocs'[k] # Absent
          /\ \E j \in 1 .. Len(want.rows) :
               want.rows[j].key = k /\ want.rows[j].row.hash = wdocs'[k].hash
    BY <1>3, <1>4, <1>5, <2>1
  <2>3. \A k \in upserted' : Seen(k)'
    BY <1>2, <1>3, <1>4, <1>5 DEF TypeOK
  <2>4. deleted = {}
    BY <1>5 DEF TypeOK
  <2>5. \A k \in Keys : wdocs'[k] # docs[k] => k \in upserted' \cup deleted
    BY <1>2, <1>5, <2>1
  <2>6. \A k \in Keys : ~Seen(k)' => wdocs'[k] = docs[k]
    BY <1>4, <1>5, <2>1
  <2> QED
    BY <1>2, <1>3, <1>5, <2>2, <2>3, <2>4, <2>5, <2>6 DEF LoopInv, InTx
<1>7. IdleInv' /\ SyncInv' /\ CommittedMatchesSnapshot' /\ IndexAccounted'
  BY <1>2 DEF IdleInv, SyncInv, CommittedMatchesSnapshot, KeysOf, IndexAccounted, InSync
<1>8. ~(want = synced /\ Distinct(want))
  <2> SUFFICES ASSUME want = synced, Distinct(want) PROVE FALSE
    OBVIOUS
  <2>1. e.key \in KeysOf(synced)
    BY <1>3 DEF KeysOf
  <2>2. docs[e.key] # Absent
    BY <1>3, <2>1 DEF CommittedMatchesSnapshot
  <2>3. PICK j \in 1 .. Len(want.rows) :
          want.rows[j].key = e.key /\ want.rows[j].row.hash = docs[e.key].hash
    BY <1>3, <2>2 DEF CommittedMatchesSnapshot
  <2>4. j = i
    BY <1>3, <2>3 DEF Distinct
  <2>5. HashOf(docs[e.key]) = e.row.hash /\ HashOf(docs[e.key]) # Absent
    BY <1>3, <2>2, <2>3, <2>4, ReconcileAssumption DEF HashOf, Row
  <2> QED
    BY <1>2, <1>3, <1>5, <2>5 DEF Unchanged, At
<1>9. RerunWritesNothing'
  BY <1>2, <1>8 DEF RerunWritesNothing, Distinct
<1> QED
  BY <1>1, <1>6, <1>7, <1>9

\* The upsert loop is through.
LEMMA EndUpsertsInv == ASSUME IInv, EndUpserts PROVE IInv'
<1> USE DEF IInv
<1>1. TypeOK'
  BY TypeStep DEF Next
<1>2. /\ UNCHANGED <<docs, types, index, want, current, wdocs, wtypes, i, todo,
                     upserted, deleted, records, synced, lag>>
      /\ phase = "upsert" /\ phase' = "delete" /\ i > Len(want.rows)
  BY DEF EndUpserts, txVars
<1>3. Len(want.rows) \in Nat
  BY SnapshotType DEF TypeOK
<1>4. i = Len(want.rows) + 1
  BY <1>2, <1>3 DEF LoopInv, InTx, TypeOK
<1>5. \A k \in Keys : Seen(k)' <=> Seen(k)
  BY <1>2 DEF Seen
<1>6. LoopInv'
  BY <1>2, <1>4, <1>5 DEF LoopInv, InTx, TypeOK
<1>7. IdleInv' /\ SyncInv' /\ CommittedMatchesSnapshot' /\ IndexAccounted'
      /\ RerunWritesNothing'
  BY <1>2 DEF IdleInv, SyncInv, CommittedMatchesSnapshot, KeysOf, IndexAccounted,
              InSync, RerunWritesNothing, InTx, Distinct
<1> QED
  BY <1>1, <1>6, <1>7

\* The delete loop examines one committed key.
LEMMA DeleteInv == ASSUME IInv, NEW d \in Keys, DeleteAbsent(d) PROVE IInv'
<1> USE DEF IInv
<1>1. TypeOK'
  BY TypeStep DEF Next
<1>2. /\ UNCHANGED <<docs, types, index, phase, want, current, wtypes, i,
                     upserted, records, synced, lag>>
      /\ phase = "delete" /\ d \in todo /\ todo' = todo \ {d}
      /\ IF Kept(d) THEN UNCHANGED <<wdocs, deleted>>
         ELSE /\ wdocs' = [wdocs EXCEPT ![d] = Absent]
              /\ deleted' = deleted \cup {d}
  BY DEF DeleteAbsent
<1>3. LoopInv!2 /\ i = Len(want.rows) + 1 /\ docs[d] # Absent
  BY <1>2 DEF LoopInv, InTx
<1>4. \A k \in Keys : (Seen(k)' <=> Seen(k)) /\ (Seen(k) <=> k \in KeysOf(want))
  BY <1>2, <1>3, SeenAll DEF Seen
<1>5. \A k \in Keys : wdocs'[k] = IF k = d /\ ~Kept(d) THEN Absent ELSE wdocs[k]
  BY <1>2 DEF TypeOK
<1>6. LoopInv'
  <2>1. \A k \in Keys : Seen(k)' =>
          /\ wdocs'[k] # Absent
          /\ \E j \in 1 .. Len(want.rows) :
               want.rows[j].key = k /\ want.rows[j].row.hash = wdocs'[k].hash
    BY <1>3, <1>4, <1>5 DEF Kept
  <2>2. \A k \in Keys : ~Seen(k)' => IF docs[k] # Absent /\ k \notin todo'
                                     THEN wdocs'[k] = Absent ELSE wdocs'[k] = docs[k]
    BY <1>2, <1>3, <1>4, <1>5 DEF Kept
  <2>3. \A k \in upserted : Seen(k)'
    BY <1>3, <1>4 DEF TypeOK
  <2>4. \A k \in deleted' : ~Seen(k)' /\ docs[k] # Absent /\ k \notin todo'
    BY <1>2, <1>3, <1>4 DEF TypeOK, Kept
  <2>5. \A k \in Keys : wdocs'[k] # docs[k] => k \in upserted \cup deleted'
    BY <1>2, <1>3, <1>5
  <2>6. todo' \subseteq {k \in Keys : docs[k] # Absent}
    BY <1>2, <1>3
  <2> QED
    BY <1>2, <1>3, <2>1, <2>2, <2>3, <2>4, <2>5, <2>6 DEF LoopInv, InTx
<1>7. IdleInv' /\ SyncInv' /\ CommittedMatchesSnapshot' /\ IndexAccounted'
  BY <1>2 DEF IdleInv, SyncInv, CommittedMatchesSnapshot, KeysOf, IndexAccounted, InSync
<1>8. RerunWritesNothing'
  <2>1. want = synced => Kept(d)
    BY <1>3 DEF CommittedMatchesSnapshot, Kept
  <2> QED
    BY <1>2, <2>1 DEF RerunWritesNothing, Distinct, InTx
<1> QED
  BY <1>1, <1>6, <1>7, <1>8

\* The commit: every kept key has been seen and every other one deleted, so the
\* transaction's rows are those of the snapshot.
LEMMA CommitRows ==
  ASSUME IInv, CommitTx
  PROVE  /\ \A k \in Keys : wdocs[k] # Absent <=> k \in KeysOf(want)
         /\ \A k \in Keys : wdocs[k] # Absent =>
              \E j \in 1 .. Len(want.rows) :
                want.rows[j].key = k /\ want.rows[j].row.hash = wdocs[k].hash
         /\ \A k \in deleted : wdocs[k] = Absent
         /\ \A k \in upserted : wdocs[k] # Absent
         /\ \A k \in Keys : wdocs[k] # docs[k] => k \in upserted \cup deleted
<1> USE DEF IInv
<1>1. LoopInv!2 /\ i = Len(want.rows) + 1 /\ todo = {}
  BY DEF CommitTx, LoopInv, InTx
<1>2. \A k \in Keys : Seen(k) <=> k \in KeysOf(want)
  BY <1>1, SeenAll
<1>3. \A k \in Keys : wdocs[k] # Absent <=> Seen(k)
  BY <1>1
<1>4. upserted \subseteq Keys /\ deleted \subseteq Keys
  BY DEF TypeOK
<1> QED
  BY <1>1, <1>2, <1>3, <1>4

\* What a commit makes true of the committed rows.
LEMMA CommitMatches ==
  ASSUME IInv, CommitTx PROVE CommittedMatchesSnapshot'
<1>1. docs' = wdocs /\ synced' = want
  BY DEF CommitTx
<1>2. \A k \in Keys :
        /\ wdocs[k] # Absent <=> k \in KeysOf(want)
        /\ wdocs[k] # Absent =>
             \E j \in 1 .. Len(want.rows) :
               want.rows[j].key = k /\ want.rows[j].row.hash = wdocs[k].hash
  BY CommitRows
<1> QED
  BY <1>1, <1>2 DEF CommittedMatchesSnapshot, KeysOf

\* A run that has returned holds nothing.
LEMMA ReturnInv ==
  ASSUME ReturnRun
  PROVE  IdleInv' /\ LoopInv' /\ SyncInv' /\ RerunWritesNothing' /\ InSync' = {}
BY DEF ReturnRun, IdleInv, LoopInv, SyncInv, RerunWritesNothing, InTx, InSync

\* A failed transaction leaves no trace.
LEMMA RollbackInv == ASSUME IInv, Rollback PROVE IInv'
<1> USE DEF IInv
<1>1. TypeOK'
  BY TypeStep DEF Next
<1>2. IdleInv' /\ LoopInv' /\ SyncInv' /\ RerunWritesNothing' /\ InSync' = {}
  BY ReturnInv DEF Rollback
<1>3. UNCHANGED <<docs, index, synced, lag>> /\ InSync = {}
  BY DEF Rollback, InSync
<1>4. CommittedMatchesSnapshot' /\ IndexAccounted'
  BY <1>2, <1>3 DEF CommittedMatchesSnapshot, KeysOf, IndexAccounted
<1> QED
  BY <1>1, <1>2, <1>4

\* The acknowledged commit hands its result to the sync.
LEMMA CommitInv == ASSUME IInv, Commit PROVE IInv'
<1> USE DEF IInv
<1>1. TypeOK'
  BY TypeStep DEF Next
<1>2. /\ docs' = wdocs /\ phase' = "unindex" /\ phase = "delete" /\ CommitTx
      /\ UNCHANGED <<index, upserted, deleted, records, lag>>
  BY DEF Commit, CommitTx
<1>3. CommittedMatchesSnapshot'
  BY <1>2, CommitMatches
<1>4. IdleInv' /\ LoopInv' /\ SyncInv' /\ RerunWritesNothing'
  BY <1>2, CommitRows DEF IdleInv, LoopInv, SyncInv, RerunWritesNothing, InTx
<1>5. InSync' = upserted \cup deleted /\ InSync = {}
  BY <1>2 DEF InSync
<1>6. IndexAccounted'
  BY <1>2, <1>5, CommitRows DEF IndexAccounted
<1> QED
  BY <1>1, <1>3, <1>4, <1>6

\* The commit whose answer is lost: its keys lag.
LEMMA UnacknowledgedInv == ASSUME IInv, CommitUnacknowledged PROVE IInv'
<1> USE DEF IInv
<1>1. TypeOK'
  BY TypeStep DEF Next
<1>2. /\ docs' = wdocs /\ phase = "delete" /\ CommitTx /\ index' = index
      /\ lag' = lag \cup upserted \cup deleted
  BY DEF CommitUnacknowledged, CommitTx
<1>3. IdleInv' /\ LoopInv' /\ SyncInv' /\ RerunWritesNothing' /\ InSync' = {}
  BY ReturnInv DEF CommitUnacknowledged
<1>4. CommittedMatchesSnapshot'
  BY <1>2, CommitMatches
<1>5. IndexAccounted'
  BY <1>2, <1>3, CommitRows DEF IndexAccounted, InSync
<1> QED
  BY <1>1, <1>3, <1>4, <1>5

\* The sync's first write.
LEMMA UnindexInv == ASSUME IInv, Unindex PROVE IInv'
<1> USE DEF IInv
<1>1. TypeOK'
  BY TypeStep DEF Next
<1>2. /\ UNCHANGED <<docs, upserted, deleted, synced>>
      /\ phase = "unindex" /\ phase' = "readback"
      /\ index' = WithoutDeleted /\ lag' = lag \ deleted
  BY DEF Unindex
<1>3. IdleInv' /\ LoopInv' /\ SyncInv' /\ RerunWritesNothing'
  BY <1>2 DEF IdleInv, LoopInv, SyncInv, RerunWritesNothing, InTx
<1>4. CommittedMatchesSnapshot'
  BY <1>2 DEF CommittedMatchesSnapshot, KeysOf
<1>5. InSync = upserted \cup deleted /\ InSync' = upserted
  BY <1>2 DEF InSync
<1>6. IndexAccounted'
  BY <1>2, <1>5 DEF IndexAccounted, WithoutDeleted, SyncInv
<1> QED
  BY <1>1, <1>3, <1>4, <1>6

\* The rows read back are the committed ones.
LEMMA ReadbackInv == ASSUME IInv, Readback PROVE IInv'
<1> USE DEF IInv
<1>1. TypeOK'
  BY TypeStep DEF Next
<1>2. /\ UNCHANGED <<docs, index, upserted, deleted, synced, lag>>
      /\ phase = "readback" /\ phase' = "index"
      /\ records' = [k \in Keys |-> IF k \in upserted THEN docs[k] ELSE Absent]
  BY DEF Readback
<1>3. IdleInv' /\ LoopInv' /\ SyncInv' /\ RerunWritesNothing'
  BY <1>2 DEF IdleInv, LoopInv, SyncInv, RerunWritesNothing, InTx
<1>4. CommittedMatchesSnapshot'
  BY <1>2 DEF CommittedMatchesSnapshot, KeysOf
<1>5. IndexAccounted'
  BY <1>2 DEF IndexAccounted, InSync
<1> QED
  BY <1>1, <1>3, <1>4, <1>5

\* The sync's second write completes it.
LEMMA IndexInv == ASSUME IInv, IndexUpserted PROVE IInv'
<1> USE DEF IInv
<1>1. TypeOK'
  BY TypeStep DEF Next
<1>2. /\ UNCHANGED <<docs, synced>> /\ phase = "index"
      /\ index' = WithRecords /\ lag' = lag \ upserted
  BY DEF IndexUpserted
<1>3. IdleInv' /\ LoopInv' /\ SyncInv' /\ RerunWritesNothing' /\ InSync' = {}
  BY ReturnInv DEF IndexUpserted
<1>4. CommittedMatchesSnapshot'
  BY <1>2 DEF CommittedMatchesSnapshot, KeysOf
<1>5. \A k \in Keys : index'[k] = IF k \in upserted THEN docs[k] ELSE index[k]
  BY <1>2 DEF WithRecords, SyncInv
<1>6. IndexAccounted'
  BY <1>2, <1>3, <1>5 DEF IndexAccounted, InSync
<1> QED
  BY <1>1, <1>3, <1>4, <1>6

\* A sync that fails, its write applied or not, leaves its keys lagging.
LEMMA SyncFailsInv == ASSUME IInv, SyncFails PROVE IInv'
<1> USE DEF IInv
<1>1. TypeOK'
  BY TypeStep DEF Next
<1>2. /\ UNCHANGED <<docs, synced>> /\ phase \in {"unindex", "readback", "index"}
      /\ lag' = lag \cup upserted \cup (IF phase = "unindex" THEN deleted ELSE {})
      /\ \/ index' = index
         \/ phase = "unindex" /\ index' = WithoutDeleted
         \/ phase = "index" /\ index' = WithRecords
  BY DEF SyncFails
<1>3. IdleInv' /\ LoopInv' /\ SyncInv' /\ RerunWritesNothing' /\ InSync' = {}
  BY ReturnInv DEF SyncFails
<1>4. CommittedMatchesSnapshot'
  BY <1>2 DEF CommittedMatchesSnapshot, KeysOf
<1>5. InSync \subseteq upserted \cup (IF phase = "unindex" THEN deleted ELSE {})
  BY <1>2 DEF InSync
<1>6. \A k \in Keys : index'[k] = index[k] \/ index'[k] = docs[k]
  BY <1>2 DEF WithRecords, WithoutDeleted, SyncInv
<1>7. IndexAccounted'
  BY <1>2, <1>3, <1>5, <1>6 DEF IndexAccounted
<1> QED
  BY <1>1, <1>3, <1>4, <1>7

-----------------------------------------------------------------------------
\* The invariant is inductive.
LEMMA InvStep == IInv /\ [Next]_vars => IInv'
<1> SUFFICES ASSUME IInv, [Next]_vars PROVE IInv'
  OBVIOUS
<1>1. CASE UNCHANGED vars
  BY <1>1 DEF vars, txVars, IInv, TypeOK, IdleInv, LoopInv, SyncInv, Seen, InTx,
              CommittedMatchesSnapshot, KeysOf, IndexAccounted, InSync,
              RerunWritesNothing, Distinct
<1> QED
  BY <1>1, BeginInv, SkipInv, UpsertInv, EndUpsertsInv, DeleteInv, RollbackInv,
     CommitInv, UnacknowledgedInv, UnindexInv, ReadbackInv, IndexInv, SyncFailsInv
  DEF Next

LEMMA InvAlways == Spec => []IInv
BY InvInit, InvStep, PTL DEF Spec

\* Every state of a sequence of reconciles and index syncs is well typed.
THEOREM TypeCorrect == Spec => []TypeOK
<1>1. IInv => TypeOK
  BY DEF IInv
<1> QED
  BY <1>1, InvAlways, PTL

\* store.ReconcileRepo drives the rows of a repository to the snapshot it
\* commits, whatever rows, failures and duplicate keys came before.
THEOREM ReconcileMatchesSnapshot == Spec => []CommittedMatchesSnapshot
<1>1. IInv => CommittedMatchesSnapshot
  BY DEF IInv
<1> QED
  BY <1>1, InvAlways, PTL

\* The change set that ReconcileRepo returns to ingest.Service misses no row:
\* the index and Postgres differ only where a sync is under way or failed.
THEOREM IndexIsAccounted == Spec => []IndexAccounted
<1>1. IInv => IndexAccounted
  BY DEF IInv
<1> QED
  BY <1>1, InvAlways, PTL

\* The content-hash gate makes a second reconcile of the committed snapshot
\* write nothing, for a snapshot without duplicate keys.
THEOREM RerunsWriteNothing == Spec => []RerunWritesNothing
<1>1. IInv => RerunWritesNothing
  BY DEF IInv
<1> QED
  BY <1>1, InvAlways, PTL
=============================================================================
