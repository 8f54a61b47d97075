------------------------------- MODULE Pipeline ------------------------------
(***************************************************************************)
(* docz-api from GitHub's webhooks to the search index: the webhook        *)
(* handlers (internal/webhook), the ingest runs (internal/ingest), the     *)
(* rows of Postgres (internal/store) and the Meilisearch records.  The     *)
(* queue is the one of JobSlot.tla, which IngestQueue.tla implements; the  *)
(* reconcile is one step, Reconcile.tla has its statements.                *)
(*                                                                         *)
(* GitHub is external: it installs and uninstalls the app, grants and      *)
(* revokes repositories, takes pushes, and delivers an event for each of   *)
(* them at any later time, in any order, possibly never, possibly again.   *)
(* A repository's content is the version number of its HEAD; every push    *)
(* here is to the default branch and touches docz content (shouldIngest).  *)
(***************************************************************************)
EXTENDS Integers, Sequences, FiniteSets

CONSTANTS
  Repos,
  Installs,      \* GitHub installation ids; GitHub never uses one twice
  Handlers,      \* webhook requests served at a time
  None,          \* no installation, no row, no record
  MaxRetry,      \* attempts after the first (client.go:21)
  MaxHead,       \* BOUND: versions of a repository
  MaxSent,       \* BOUND: deliveries
  MaxAgain,      \* BOUND: redeliveries
  MaxId          \* BOUND: values of repos.id

VARIABLES
  \* GitHub
  head, granted, active, used, sent, due, again,
  \* Postgres: webhook_deliveries, installations, repos with their documents
  recorded, insts, row, nextId,
  \* Meilisearch: per repos.id, the version it has records of
  index,
  \* the webhook requests
  pc, dlv, todo, ids, cur,
  \* the queue: slot and payload of each repository's job
  slot, payload, tries,
  \* the run of each repository
  run,
  \* history, read by no action
  routed, excused, leftover, lag

github == <<head, granted, active, used, sent, due, again>>
tables == <<recorded, insts, row, nextId>>
requests == <<pc, dlv, todo, ids, cur>>
queue == <<slot, payload, tries>>
history == <<routed, excused, leftover, lag>>
vars == <<github, tables, index, requests, queue, run, history>>

Slot == INSTANCE JobSlot

Ids == 1 .. MaxId
Kinds == {"created", "deleted", "added", "removed", "push"}
Delivery == [kind : Kinds, inst : Installs, repos : SUBSET Repos, ver : [Repos -> 1 .. MaxHead]]
Row == [id : Ids, inst : Installs, ver : 1 .. MaxHead]
Steps == {"idle", "received", "route", "enqueue", "clear", "reenqueue", "uninstall", "offboard"}
NoRun == [phase |-> "none", ver |-> 0, id |-> 0, rec |-> None]

\* A repository has a HEAD; None is nothing else.
ASSUME PipelineAssumption ==
  /\ {MaxRetry, MaxSent, MaxAgain, MaxId} \subseteq Nat
  /\ MaxHead \in Nat \ {0}
  /\ None \notin Installs \cup Nat \cup Row

Later(a, b) == IF a > b THEN a ELSE b

TypeOK ==
  /\ head \in [Repos -> 1 .. MaxHead]
  /\ granted \in [Repos -> Installs \cup {None}]
  /\ active \in SUBSET used /\ used \in SUBSET Installs
  /\ sent \in Seq(Delivery) /\ Len(sent) <= MaxSent
  /\ due \in SUBSET (1 .. Len(sent))
  /\ again \in 0 .. MaxAgain
  /\ recorded \in SUBSET (1 .. Len(sent))
  /\ insts \in SUBSET Installs
  /\ row \in [Repos -> Row \cup {None}]
  /\ nextId \in 1 .. MaxId + 1
  /\ index \in [Ids -> 1 .. MaxHead \cup {None}]
  /\ pc \in [Handlers -> Steps]
  /\ dlv \in [Handlers -> 0 .. Len(sent)]
  /\ todo \in [Handlers -> SUBSET Repos]
  /\ ids \in [Handlers -> SUBSET Ids]
  /\ cur \in [Handlers -> Repos \cup {None}]
  /\ Slot!SlotTypeOK
  /\ payload \in [Repos -> Installs \cup {None}]
  /\ tries \in [Repos -> 0 .. MaxRetry]
  /\ run \in [Repos -> [phase : {"none", "started", "fetched", "committed", "read"},
                        ver : 0 .. MaxHead, id : 0 .. MaxId, rec : 1 .. MaxHead \cup {None}]]
  \* a slot is running exactly while its run is under way
  /\ \A r \in Repos : slot[r] = "running" <=> run[r].phase # "none"

Init ==
  /\ head = [r \in Repos |-> 1]
  /\ granted = [r \in Repos |-> None]
  /\ active = {} /\ used = {} /\ sent = <<>> /\ due = {} /\ again = 0
  /\ recorded = {} /\ insts = {} /\ row = [r \in Repos |-> None] /\ nextId = 1
  /\ index = [x \in Ids |-> None]
  /\ pc = [h \in Handlers |-> "idle"]
  /\ dlv = [h \in Handlers |-> 0]
  /\ todo = [h \in Handlers |-> {}]
  /\ ids = [h \in Handlers |-> {}]
  /\ cur = [h \in Handlers |-> None]
  /\ Slot!SlotInit
  /\ payload = [r \in Repos |-> None]
  /\ tries = [r \in Repos |-> 0]
  /\ run = [r \in Repos |-> NoRun]
  /\ routed = <<>>
  /\ excused = [r \in Repos |-> 0]
  /\ leftover = {} /\ lag = {}

-----------------------------------------------------------------------------
(***************************************************************************)
(* GitHub (external).                                                      *)
(***************************************************************************)
Send(kind, i, rs) ==
  /\ Len(sent) < MaxSent
  /\ sent' = Append(sent, [kind |-> kind, inst |-> i, repos |-> rs, ver |-> head'])
  /\ due' = due \cup {Len(sent) + 1}
  /\ routed' = Append(routed, 0)

Grant(rs, i) == granted' = [r \in Repos |-> IF r \in rs THEN i ELSE granted[r]]

EventRest ==
  UNCHANGED <<again, tables, index, requests, queue, run,
              excused, leftover, lag>>

\* The repositories belong to one account, which has at most one installation of
\* the app at a time.
Install(i) ==
  /\ i \notin used /\ active = {}
  /\ used' = used \cup {i}
  /\ active' = active \cup {i}
  /\ \E rs \in (SUBSET {r \in Repos : granted[r] = None}) \ {{}} :
       Grant(rs, i) /\ UNCHANGED head /\ Send("created", i, rs)
  /\ EventRest

Uninstall(i) ==
  /\ i \in active
  /\ active' = active \ {i}
  /\ Grant({r \in Repos : granted[r] = i}, None)
  /\ UNCHANGED <<head, used>>
  /\ Send("deleted", i, {})
  /\ EventRest

AddRepo(i, r) ==
  /\ i \in active /\ granted[r] = None
  /\ Grant({r}, i)
  /\ UNCHANGED <<head, active, used>>
  /\ Send("added", i, {r})
  /\ EventRest

RemoveRepo(r) ==
  /\ granted[r] # None
  /\ Grant({r}, None)
  /\ UNCHANGED <<head, active, used>>
  /\ Send("removed", granted[r], {r})
  /\ EventRest

Push(r) ==
  /\ head[r] < MaxHead /\ granted[r] # None
  /\ head' = [head EXCEPT ![r] = @ + 1]
  /\ UNCHANGED <<granted, active, used>>
  /\ Send("push", granted[r], {r})
  /\ EventRest

Redeliver(d) ==
  /\ again < MaxAgain /\ d \notin due
  /\ again' = again + 1
  /\ due' = due \cup {d}
  /\ UNCHANGED <<head, granted, active, used, sent, tables, index, requests, queue, run, history>>

-----------------------------------------------------------------------------
(***************************************************************************)
(* History: the triggers whose loss the code documents or reports.         *)
(***************************************************************************)
Triggers == {"created", "added", "push"}

\* The trigger of delivery d is lost for the repositories rs.
Excusing(d, rs) ==
  [r \in Repos |-> IF r \in rs /\ sent[d].kind \in Triggers
                   THEN Later(excused[r], sent[d].ver[r]) ELSE excused[r]]

Excuse(d, rs) == excused' = Excusing(d, rs)

\* The offboarding of delivery d is lost.
LeaveOver(d) ==
  leftover' = IF sent[d].kind \in {"deleted", "removed"} THEN leftover \cup {sent[d].inst} ELSE leftover

\* GitHub gives up on a delivery it could not make.
Lose(d) ==
  /\ d \in due
  /\ due' = due \ {d}
  /\ Excuse(d, sent[d].repos) /\ LeaveOver(d)
  /\ UNCHANGED <<head, granted, active, used, sent, again, tables, index, requests, queue, run,
                 routed, lag>>

-----------------------------------------------------------------------------
(***************************************************************************)
(* webhook.Handler: ServeHTTP.                                             *)
(***************************************************************************)
Event(h) == sent[dlv[h]]

Goto(h, step) == pc' = [pc EXCEPT ![h] = step]

\* The response is written, the request's frame is gone.
Respond(h) ==
  /\ Goto(h, "idle")
  /\ dlv' = [dlv EXCEPT ![h] = 0]
  /\ todo' = [todo EXCEPT ![h] = {}]
  /\ ids' = [ids EXCEPT ![h] = {}]
  /\ cur' = [cur EXCEPT ![h] = None]

Receive(h, d) ==
  /\ pc[h] = "idle" /\ d \in due
  /\ due' = due \ {d}
  /\ Goto(h, "received")
  /\ dlv' = [dlv EXCEPT ![h] = d]
  /\ UNCHANGED <<todo, ids, cur, head, granted, active, used, sent, again, tables, index, queue, run, history>>

\* MUTANT: the answer of the insert is ignored, a known delivery is routed again.
RecordDeliveryAnyway(h) ==
  /\ recorded' = recorded \cup {dlv[h]}
  /\ Goto(h, "route")
  /\ routed' = [routed EXCEPT ![dlv[h]] = @ + 1]
  /\ UNCHANGED <<dlv, todo, ids, cur>>

\* INSERT ... ON CONFLICT DO NOTHING: one of two concurrent requests inserts.
RecordDelivery(h) ==
  \/ /\ dlv[h] \notin recorded
     /\ recorded' = recorded \cup {dlv[h]}
     /\ Goto(h, "route")
     /\ routed' = [routed EXCEPT ![dlv[h]] = @ + 1]
     /\ UNCHANGED <<dlv, todo, ids, cur>>
  \/ /\ dlv[h] \in recorded
     /\ Respond(h)
     /\ UNCHANGED <<recorded, routed>>

Record(h) ==
  /\ pc[h] = "received"
  /\ RecordDelivery(h)
  /\ UNCHANGED <<github, insts, row, nextId, index, queue, run,
                 excused, leftover, lag>>

\* What a request that stops here has not done yet.
Undone(h) == IF pc[h] \in {"received", "route"} THEN Event(h).repos ELSE todo[h]

\* Any early return with an error, or the death of the process: the body or the
\* signature is refused, the insert fails (it may have been applied), the
\* payload does not parse, a store or queue call fails.  Offboarding that is
\* past its delete is only a purge and does not fail, but it may die.  A request
\* that dies between DeleteTask and the second enqueue may have deleted a job
\* that stood for other triggers.
HandlerFails(h) ==
  /\ pc[h] # "idle"
  /\ \/ UNCHANGED recorded
     \/ pc[h] = "received" /\ recorded' = recorded \cup {dlv[h]}
  /\ excused' = IF pc[h] = "reenqueue" /\ slot[cur[h]] = "free"
                THEN [Excusing(dlv[h], Undone(h)) EXCEPT ![cur[h]] = head[cur[h]]]
                ELSE Excusing(dlv[h], Undone(h))
  /\ LeaveOver(dlv[h])
  /\ lag' = lag \cup ids[h]
  /\ Respond(h)
  /\ UNCHANGED <<github, insts, row, nextId, index, queue, run,
                 routed>>

-----------------------------------------------------------------------------
(***************************************************************************)
(* Onboarding and push: handleInstallation, handleInstallationRepos,       *)
(* handlePush, enqueueRepos.                                               *)
(***************************************************************************)
UpsertInstallation(h) ==
  /\ pc[h] = "route" /\ Event(h).kind \in {"created", "added"}
  /\ insts' = insts \cup {Event(h).inst}
  /\ todo' = [todo EXCEPT ![h] = Event(h).repos]
  /\ Goto(h, "enqueue")
  \* an event that comes in after the "deleted" of its installation
  /\ leftover' = IF Event(h).inst \in active THEN leftover ELSE leftover \cup {Event(h).inst}
  /\ UNCHANGED <<dlv, ids, cur, github, recorded, row, nextId, index, queue, run,
                 routed, excused, lag>>

\* handlePush skips a repository it does not know.
GetRepo(h) ==
  /\ pc[h] = "route" /\ Event(h).kind = "push"
  /\ \E r \in Event(h).repos :
       IF row[r] = None
       THEN /\ Excuse(dlv[h], {r})
            /\ Respond(h)
       ELSE /\ todo' = [todo EXCEPT ![h] = {r}]
            /\ Goto(h, "enqueue")
            /\ UNCHANGED <<dlv, ids, cur, excused>>
  /\ UNCHANGED <<github, tables, index, queue, run, routed, leftover, lag>>

\* MUTANT: the loop over the repositories ends with the first one.
EnqueuedAll(h, r) == todo' = [todo EXCEPT ![h] = {}]

\* EnqueueIngest returned nil for r.
Enqueued(h, r) == todo' = [todo EXCEPT ![h] = @ \ {r}]

SubmitJob(h, r) ==
  /\ Slot!Submit(r)
  /\ payload' = [payload EXCEPT ![r] = Event(h).inst]
  /\ tries' = [tries EXCEPT ![r] = 0]
  /\ Enqueued(h, r)

\* MUTANT: a conflict with a job that was archived counts as coalesced.
CoalesceParked(h, r) ==
  /\ slot[r] # "free"
  /\ IF run[r].phase \in {"none", "started"} THEN UNCHANGED excused ELSE Excuse(dlv[h], {r})
  /\ Enqueued(h, r)
  /\ UNCHANGED queue

\* The job that holds the id covers the trigger; one that has fetched HEAD does
\* not, the drop documented at client.go:89-92.
Coalesce(h, r) ==
  /\ slot[r] \in {"waiting", "running"}
  /\ IF run[r].phase \in {"none", "started"} THEN UNCHANGED excused ELSE Excuse(dlv[h], {r})
  /\ Enqueued(h, r)
  /\ UNCHANGED queue

QueueRest == UNCHANGED <<dlv, ids, github, tables, index, run,
                         routed, leftover, lag>>

EnqueueIngest(h, r) ==
  /\ pc[h] = "enqueue" /\ r \in todo[h]
  /\ \/ SubmitJob(h, r) /\ UNCHANGED <<pc, cur, excused>>
     \/ Coalesce(h, r) /\ UNCHANGED <<pc, cur>>
     \* GetTaskInfo failed: answered nil, nothing enqueued
     \/ /\ slot[r] # "free"
        /\ Excuse(dlv[h], {r})
        /\ Enqueued(h, r)
        /\ UNCHANGED <<pc, cur, queue>>
     \/ /\ slot[r] = "parked"
        /\ Goto(h, "clear") /\ cur' = [cur EXCEPT ![h] = r]
        /\ UNCHANGED <<todo, queue, excused>>
  /\ QueueRest

\* MUTANT: the job is deleted even while it runs.
ClearRunning(h) ==
  /\ pc[h] = "clear"
  /\ slot' = [slot EXCEPT ![cur[h]] = "free"]
  /\ Goto(h, "reenqueue")
  /\ UNCHANGED <<todo, cur, payload, tries, excused>>
  /\ QueueRest

\* DeleteTask: nothing to delete is fine, a running job is an error.  A waiting
\* job that is deleted takes with it the triggers it stands for; the caller
\* enqueues in its place.
ClearFinished(h) ==
  /\ pc[h] = "clear" /\ slot[cur[h]] # "running"
  /\ \/ Slot!Clear(cur[h])
     \/ slot[cur[h]] = "free" /\ UNCHANGED slot
  /\ Goto(h, "reenqueue")
  /\ UNCHANGED <<todo, cur, payload, tries, excused>>
  /\ QueueRest

\* The second conflict is answered nil whatever it means.
Reenqueue(h) ==
  /\ pc[h] = "reenqueue"
  /\ \/ SubmitJob(h, cur[h]) /\ UNCHANGED excused
     \/ Coalesce(h, cur[h])
     \/ /\ slot[cur[h]] = "parked"
        /\ Enqueued(h, cur[h])
        /\ UNCHANGED <<queue, excused>>
  /\ Goto(h, "enqueue") /\ cur' = [cur EXCEPT ![h] = None]
  /\ QueueRest

-----------------------------------------------------------------------------
(***************************************************************************)
(* Offboarding: offboardInstallation, offboardRepos, purgeIndex.           *)
(***************************************************************************)
OffboardRest == UNCHANGED <<dlv, cur, github, recorded, nextId, queue, run,
                            routed, leftover>>

ListRepoIDs(h) ==
  /\ pc[h] = "route" /\ Event(h).kind = "deleted"
  /\ ids' = [ids EXCEPT ![h] = {row[r].id : r \in {q \in Repos : row[q] # None /\ row[q].inst = Event(h).inst}}]
  /\ Goto(h, "uninstall")
  /\ UNCHANGED <<todo, insts, row, index, excused, lag>>
  /\ OffboardRest

\* ON DELETE CASCADE: also the rows committed since the ids were listed.
DeleteInstallation(h) ==
  /\ pc[h] = "uninstall"
  /\ insts' = insts \ {Event(h).inst}
  /\ row' = [r \in Repos |-> IF row[r] # None /\ row[r].inst = Event(h).inst THEN None ELSE row[r]]
  /\ Goto(h, "offboard")
  /\ UNCHANGED <<todo, ids, index, excused, lag>>
  /\ OffboardRest

StartRemoval(h) ==
  /\ pc[h] = "route" /\ Event(h).kind = "removed"
  /\ todo' = [todo EXCEPT ![h] = Event(h).repos]
  /\ Goto(h, "offboard")
  /\ UNCHANGED <<ids, insts, row, index, excused, lag>>
  /\ OffboardRest

\* A repository that was granted again meanwhile loses its row all the same:
\* the events came in the wrong order.
DeleteRepo(h, r) ==
  /\ pc[h] = "offboard" /\ ids[h] = {} /\ r \in todo[h]
  /\ todo' = [todo EXCEPT ![h] = @ \ {r}]
  /\ IF row[r] = None
     THEN UNCHANGED <<ids, row, excused>>
     ELSE /\ ids' = [ids EXCEPT ![h] = {row[r].id}]
          /\ row' = [row EXCEPT ![r] = None]
          /\ excused' = IF granted[r] = None THEN excused ELSE [excused EXCEPT ![r] = head[r]]
  /\ UNCHANGED <<pc, insts, index, lag>>
  /\ OffboardRest

\* MUTANT: the purge goes by the name of the repository.
PurgedByName(x) ==
  [y \in Ids |-> IF y = x \/ \E r \in Repos : row[r] # None /\ row[r].id = y
                 THEN None ELSE index[y]]

\* DeleteRepoDocuments: a filter on repo_id.
Purged(x) == [index EXCEPT ![x] = None]

Live(x) == \E r \in Repos : row[r] # None /\ row[r].id = x

\* purgeIndex is best-effort: a delete that failed, or whose wait failed, is only
\* logged.  A row that an ingest moved to another installation after the ids
\* were listed is still served, and its records go all the same.
PurgeIndex(h, x) ==
  /\ pc[h] = "offboard" /\ x \in ids[h]
  /\ ids' = [ids EXCEPT ![h] = @ \ {x}]
  /\ \/ index' = Purged(x) /\ lag' = IF Live(x) THEN lag \cup {x} ELSE lag
     \/ lag' = lag \cup {x} /\ UNCHANGED index
  /\ UNCHANGED <<pc, todo, insts, row, excused>>
  /\ OffboardRest

\* 202.
Done(h) ==
  /\ pc[h] \in {"enqueue", "offboard"} /\ todo[h] = {} /\ ids[h] = {}
  /\ Respond(h)
  /\ UNCHANGED <<github, tables, index, queue, run, history>>

-----------------------------------------------------------------------------
(***************************************************************************)
(* The ingest run: handleIngest, ingest.Service.Run.                       *)
(***************************************************************************)
RunRest == UNCHANGED <<github, recorded, requests, payload,
                       routed, leftover>>

StartRun(r) ==
  /\ Slot!Start(r)
  /\ run' = [run EXCEPT ![r].phase = "started"]
  /\ UNCHANGED <<insts, row, nextId, index, tries, excused, lag>>
  /\ RunRest

\* MUTANT: HEAD is resolved by a cache that may be one push old.
FetchCached(r) ==
  /\ run[r].phase = "started" /\ payload[r] \in active
  /\ \E v \in {head[r], Later(head[r] - 1, 1)} :
       run' = [run EXCEPT ![r].phase = "fetched", ![r].ver = v]
  /\ UNCHANGED <<insts, row, nextId, index, slot, tries, excused, lag>>
  /\ RunRest

\* resolveHead and the blobs of that tree, with the token of the job's
\* installation: GitHub has none for an installation that was removed.
Fetch(r) ==
  /\ run[r].phase = "started" /\ payload[r] \in active
  /\ run' = [run EXCEPT ![r].phase = "fetched", ![r].ver = head[r]]
  /\ UNCHANGED <<insts, row, nextId, index, slot, tries, excused, lag>>
  /\ RunRest

\* MUTANT: the foreign key is not enforced.
InstallationExistsAlways(i) == i # None

\* repos.installation_id REFERENCES installations(id)
InstallationExists(i) == i \in insts

UpsertedRow(r, id) == [id |-> id, inst |-> payload[r], ver |-> run[r].ver]

\* store.ReconcileRepo in one transaction; "rec" says that something changed.  Of
\* the serial only that a new row gets an id no row had before is kept.
Reconcile(r) ==
  /\ run[r].phase = "fetched" /\ InstallationExists(payload[r])
  /\ LET new == row[r] = None
         id == IF new THEN nextId ELSE row[r].id
     IN /\ id \in Ids
        /\ row' = [row EXCEPT ![r] = UpsertedRow(r, id)]
        /\ nextId' = IF new THEN nextId + 1 ELSE nextId
        /\ run' = [run EXCEPT ![r].phase = "committed", ![r].id = id,
                     ![r].rec = IF ~new /\ row[r].ver = run[r].ver THEN None ELSE run[r].ver]
  /\ UNCHANGED <<insts, index, slot, tries, excused, lag>>
  /\ RunRest

\* GetDocumentsByIDs, by repos.id: the row may be gone.
Readback(r) ==
  /\ run[r].phase = "committed"
  /\ run' = [run EXCEPT ![r].phase = "read",
               ![r].rec = IF @ # None /\ row[r] # None /\ row[r].id = run[r].id THEN row[r].ver ELSE None]
  /\ UNCHANGED <<insts, row, nextId, index, slot, tries, excused, lag>>
  /\ RunRest

Indexed(r) == IF run[r].rec = None THEN index ELSE [index EXCEPT ![run[r].id] = run[r].rec]

EndRun(r) == run' = [run EXCEPT ![r] = NoRun]

IndexDocuments(r) ==
  /\ run[r].phase = "read"
  /\ index' = Indexed(r)
  /\ EndRun(r)
  /\ Slot!Finish(r)
  /\ lag' = IF run[r].rec = None THEN lag ELSE lag \ {run[r].id}
  /\ UNCHANGED <<insts, row, nextId, tries, excused>>
  /\ RunRest

\* indexSearch logs the error of the sync, the run succeeds.  A write whose wait
\* failed may have been applied.
SyncFails(r) ==
  /\ run[r].phase \in {"committed", "read"} /\ run[r].rec # None
  /\ lag' = lag \cup {run[r].id}
  /\ UNCHANGED index \/ (run[r].phase = "read" /\ index' = Indexed(r))
  /\ EndRun(r)
  /\ Slot!Finish(r)
  /\ UNCHANGED <<insts, row, nextId, tries, excused>>
  /\ RunRest

\* The run returns an error or its process dies: the job is tried again or, the
\* budget spent, archived.  A commit whose answer is lost counts as committed.
RunFails(r) ==
  /\ run[r].phase # "none"
  /\ EndRun(r)
  /\ IF tries[r] < MaxRetry
     THEN /\ Slot!Again(r)
          /\ tries' = [tries EXCEPT ![r] = @ + 1]
          /\ UNCHANGED excused
     ELSE /\ Slot!Park(r)
          /\ excused' = [excused EXCEPT ![r] = head[r]]
          /\ UNCHANGED tries
  /\ lag' = IF run[r].phase \in {"committed", "read"} THEN lag \cup {run[r].id} ELSE lag
  /\ UNCHANGED <<insts, row, nextId, index>>
  /\ RunRest

ExpireArchived(r) ==
  /\ Slot!Expire(r)
  /\ UNCHANGED <<insts, row, nextId, index, run, tries, excused, lag>>
  /\ RunRest

-----------------------------------------------------------------------------
Environment ==
  \/ \E i \in Installs : Install(i) \/ Uninstall(i) \/ \E r \in Repos : AddRepo(i, r)
  \/ \E r \in Repos : RemoveRepo(r) \/ Push(r)
  \/ \E d \in 1 .. Len(sent) : Redeliver(d) \/ Lose(d)

HandlerStep(h) ==
  \/ Record(h) \/ UpsertInstallation(h) \/ GetRepo(h)
  \/ \E r \in Repos : EnqueueIngest(h, r) \/ DeleteRepo(h, r)
  \/ ClearFinished(h) \/ Reenqueue(h)
  \/ ListRepoIDs(h) \/ DeleteInstallation(h) \/ StartRemoval(h)
  \/ \E x \in Ids : PurgeIndex(h, x)
  \/ Done(h) \/ HandlerFails(h)

RunStep(r) ==
  \/ StartRun(r) \/ Fetch(r) \/ Reconcile(r) \/ Readback(r) \/ IndexDocuments(r)
  \/ SyncFails(r) \/ RunFails(r)

Next ==
  \/ Environment
  \/ \E h \in Handlers : HandlerStep(h) \/ \E d \in 1 .. Len(sent) : Receive(h, d)
  \/ \E r \in Repos : RunStep(r) \/ ExpireArchived(r)

Spec == Init /\ [][Next]_vars

\* The http server keeps serving requests, GitHub keeps trying a delivery that
\* is due, the asynq server keeps running jobs.  Nothing is assumed of the
\* events, of redeliveries or of the archive.
Fairness ==
  /\ \A h \in Handlers : WF_vars(HandlerStep(h))
  /\ WF_vars(\E h \in Handlers, d \in 1 .. Len(sent) : Receive(h, d))
  /\ \A r \in Repos : WF_vars(RunStep(r))

FairSpec == Spec /\ Fairness

-----------------------------------------------------------------------------
(***************************************************************************)
(* Properties.                                                             *)
(***************************************************************************)
\* A replayed delivery is a no-op: of any number of concurrent requests with the
\* same X-GitHub-Delivery at most one is routed.
RoutedOnce == \A d \in 1 .. Len(sent) : routed[d] <= 1

Fresh(r) == row[r] # None /\ row[r].ver = head[r]

\* A trigger for r is on its way to the queue.
TriggerPending(r) ==
  \/ \E d \in due : sent[d].kind \in Triggers /\ r \in sent[d].repos /\ d \notin recorded
                    /\ sent[d].ver[r] > excused[r]
  \/ \E h \in Handlers : pc[h] # "idle" /\ Event(h).kind \in Triggers /\ r \in Undone(h)

\* A job for r will read HEAD, or has read it and not committed yet.
RunPending(r) ==
  \/ slot[r] = "waiting"
  \/ run[r].phase = "started"
  \/ run[r].phase = "fetched" /\ run[r].ver = head[r]

\* A granted repository is served at its HEAD, or work that brings it there is
\* pending, or the last trigger was lost in one of the ways the code documents
\* or reports: no delivery, a request that failed, the active-window drop, an
\* unknown repository, an unreadable task, an archived job, a removal that was
\* handled after the repository had been added again.
FreshOrExcused ==
  \A r \in Repos :
    granted[r] # None =>
      Fresh(r) \/ TriggerPending(r) \/ RunPending(r) \/ excused[r] >= head[r]

\* The same at the end of the day: once the events stop, every granted repository
\* comes to rest at HEAD or has lost its last trigger in one of those ways.
Converges ==
  <>[](\A r \in Repos : granted[r] # None => Fresh(r) \/ excused[r] >= head[r])

\* The offboarding of installation i is on its way.
OffboardPending(i) ==
  \/ \E d \in due : sent[d].kind = "deleted" /\ sent[d].inst = i /\ d \notin recorded
  \/ \E h \in Handlers : pc[h] \in {"received", "route", "uninstall"}
                         /\ Event(h).kind = "deleted" /\ Event(h).inst = i

\* Once an uninstall has been handled no row of the installation is left or
\* comes back, not even from a run that had fetched before (the foreign key).
\* Excepted: its event was lost, or another event of the installation came later.
UninstalledIsGone ==
  \A r \in Repos :
    row[r] # None =>
      row[r].inst \in active \/ OffboardPending(row[r].inst) \/ row[r].inst \in leftover

\* "Postgres (the source of truth) has already dropped the rows" when the index is
\* purged (events.go:184-185): no purge is of a row that is served.
PurgeSparesServedRows ==
  \A h \in Handlers : pc[h] = "offboard" => \A x \in ids[h] : ~Live(x)

\* What search returns for a served repository (authorize.AllReposAuthorizer and
\* search.buildFilter go by repos.id) is what Postgres holds, unless its sync is
\* under way or has failed; offboarding an earlier row of the same repository
\* does not touch it.
SearchMatchesRow ==
  \A r \in Repos :
    row[r] # None =>
      \/ index[row[r].id] = row[r].ver
      \/ row[r].id \in lag
      \/ run[r].phase \in {"committed", "read"} /\ run[r].id = row[r].id

\* What is served never goes back: a row that stays keeps its id and is only ever
\* replaced by the same or a later HEAD, whatever order deliveries, redeliveries,
\* retries and archived jobs come in (the job carries no commit, runner.go:29-44, and
\* a repository has one run at a time).
RowsNeverGoBack ==
  [][\A r \in Repos : row[r] # None /\ row'[r] # None =>
       row'[r].id = row[r].id /\ row'[r].ver >= row[r].ver]_vars

\* Neither does what search returns: a record is only ever replaced by one of the same
\* or a later HEAD (syncIndex, service.go:197-230), also when the sync before it had failed, was
\* applied all the same, or belongs to a row that is gone by now.
SearchNeverGoesBack ==
  [][\A x \in Ids : index[x] # None /\ index'[x] # None => index'[x] >= index[x]]_vars
=============================================================================
