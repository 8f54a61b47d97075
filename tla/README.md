# docz-api in TLA+

docz-api mirrors the docz documentation of GitHub repositories: a GitHub App
delivers webhooks, the webhooks enqueue ingest jobs in Redis (asynq), a worker
fetches the repository's HEAD, reconciles it into Postgres and mirrors the
change set into Meilisearch, and an HTTP API serves and searches the result.
This directory holds TLA+ models of the parts of that system that carry state
across steps, the TLC runs that check them on small instances, and TLAPS proofs
of the properties that matter most for every instance.

All paths below are relative to the repository.

## 1. Inventory

| Component | State it keeps | Operations that change it | Talks to |
|---|---|---|---|
| Queue client (`internal/queue/client.go`) | none of its own; the asynq task `ingest:<owner>/<name>` in Redis | `EnqueueIngest`, `resolveTaskIDConflict` | called by webhooks and `-onboard`; asynq client and inspector |
| Worker (`internal/queue/worker.go`, `cmd/docz-api/runner.go`) | asynq task state, retry count, lease | `handleIngest`, `isFailure`, `Shutdown` | asynq server; `ingest.Service.Run` |
| Ingest service (`internal/ingest`) | locals of one run | `Run`, `indexSearch`, `syncIndex` | GitHub fetch, store, search |
| Reconcile (`internal/store/reconcile.go`) | `repos`, `doc_types`, `documents`, `repo_pages` | `ReconcileRepo`, one transaction | Postgres |
| Store (`internal/store/store.go`, `read.go`) | `installations`, `repos`, `webhook_deliveries`, `users` | `UpsertInstallation`, `DeleteInstallation` (cascade), `DeleteRepo`, `RecordDelivery`, `UpsertUser` | Postgres |
| Webhook receiver (`internal/webhook`) | locals of one request | `ServeHTTP`, `handleInstallation`, `handleInstallationRepos`, `handlePush`, offboarding | store, queue client, search |
| Search (`internal/search`) | the `documents` index | `IndexDocuments`, `DeleteDocuments`, `DeleteRepoDocuments`; `Search` reads | Meilisearch |
| GitHub fetch (`internal/githubapp`) | none | `Fetch`, `SelfCheck` | GitHub |
| Login and sessions (`internal/auth`, `authhttp`, `session`) | `sess:<id>` keys with a TTL, the browser's cookie, `users` rows | `login`, `callback`, `logout`, `Issue`, `Revoke` | Redis, provider, store |
| Authorization, read API (`internal/authorize`, `httpapi`) | none | reads only | store, search |
| Process (`cmd/docz-api/main.go`) | HTTP server, worker, clients | `runServer`, `serveWithWorker`, `runOnboard` | all of the above |
| Config, telemetry, migrations, `doczcontract` | none at run time | | |

What is hard here is what no unit test drives:

* **Interleaving.** Several webhook requests, the worker's goroutines and asynq's
  own loops act on one task id, one `repos` row and one set of index records; a
  request sleeps between any two Redis, Postgres or Meilisearch calls.
* **Delivery.** GitHub may delay, reorder, repeat or give up a delivery.
* **Partial failure.** Postgres and the index are written one after the other and
  the second write is best-effort; an answer may be lost after its effect.
* **Crashes.** A run or a request may die anywhere; asynq runs the job again,
  nobody repeats the request. A process may die between any two steps of its start
  and of its shutdown.
* **Torn reads.** A request of the read API is several statements without a
  transaction; a push is filtered with what the last run stored of the configuration.

What makes each part correct:

* queue: a trigger that was answered with success has a run that reads HEAD after
  it; one job per repository; a finished job does not swallow triggers;
* reconcile: what is committed is the snapshot; a rerun does nothing; the change
  set handed to the index is complete;
* webhooks: a delivery takes effect once; a granted repository ends up at HEAD; an
  uninstalled one is gone and stays gone;
* index: search returns what Postgres serves;
* sessions: a logout is final, an outage signs nobody out, and whoever is let through is
  the user who logged in;
* process: a start that fails releases what it opened, a process that serves is
  complete, an orderly shutdown loses no trigger and comes to its end, and a job that
  was acknowledged is finished by a later process if not by this one;
* publication: what is served is what the tree at HEAD and its `.docz.yaml` ask for,
  under paths that are keys, and no relevant push is filtered out;
* read API: every answer and every 404 is true of some instant of its request, and
  nothing crosses the authorized set.

`PROJECT.json` lists the hazards line by line with the properties that watch them.

## 2. Modules

```
JobSlot            abstract queue: one job slot per repository
  ^ implemented by IngestQueue        (refinement, checked and proved)
  ^ used by        Pipeline           (INSTANCE JobSlot, proved)
IngestQueue        queue.Client, queue.Worker, asynq     MCIngestQueue, IngestQueueProofs
Reconcile          ReconcileRepo and the index sync      MCReconcile, ReconcileProofs
Pipeline           webhooks, queue, runs, rows, index    MCPipeline, PipelineProofs,
                                                         PipelineFreshProofs
Publish            fetch, page classifier, push filter   MCPublish, PublishProofs
Serving            authorization, read API, search       MCServing, ServingProofs
Session            login, gate, logout, Redis sessions   MCSession, SessionProofs
Lifecycle          configuration, start, shutdown        MCLifecycle, LifecycleProofs
```

`Pipeline` composes webhooks, queue, runs and stores and takes three things as
given that modules of their own look into: the queue (`IngestQueue` implements
`JobSlot`), the transaction (`Reconcile`), and what a run makes of a tree and which
pushes are relevant (`Publish`). `Serving` reads the rows that `Pipeline` and
`Reconcile` write, `Session` is the gate in front of it, and `Lifecycle` is the
process around all of them.

### IngestQueue

A caller is one goroutine inside `EnqueueIngest`; its program counter stands
between two Redis calls (`enqueue`, `inspect`, `clear`, `reenqueue`). `taskState`
is the asynq state of the repository's task, `none` if the id is free; `phase` and
`runHead` are the handler goroutine of an active task and the HEAD it works from.
One action per call and answer: `EnqueueOk`, `EnqueueConflict`,
`InspectUnreadable`, `InspectCoalesce`, `InspectTerminal`, `ClearDeleted`,
`ReenqueueOk`, `ReenqueueConflict`, plus `CallFails` (error or death at any
point) and `EnqueueUnacknowledged` (the task exists, its caller sees an error).
`handleIngest` is `Dequeue`, `Fetch` and one of `Succeed`, `Fail`,
`FailMalformed` (`asynq.SkipRetry`), `Cancelled` (`isFailure` is false),
`Requeue` (shutdown) or `WorkerCrash`, followed by asynq's `RecoverLease`.

asynq is external and modelled from its use here: the id conflict spans every
state, a success deletes the task at once because no `Retention` option is set
(so the `completed` state that `isTerminalTaskState` also lists, and that the
comment above it calls reachable, does not occur), a failure is retried until
`MaxRetry` and then archived, `DeleteTask` refuses an active task, the archive
expires. A lease is taken to expire only when the worker is gone.

The content of a trigger is the number of pushes before it (`ver`); a run's, the
number before its fetch. `accepted`, `settled` and `clobbered` are
history variables that no action reads.

### Reconcile

One repository under any sequence of runs. The transaction's statements are
steps: `BeginReconcile` (begin, `UpsertRepo`, doc types, hashes), the upsert loop
(`SkipUnchanged`, `UpsertDocument`), the delete loop (`DeleteAbsent`, in any
order: it ranges over a Go map), `Commit`; then `Unindex`, `Readback`,
`IndexUpserted`. `Rollback`, `CommitUnacknowledged` and `SyncFails` are the
failures, the last with the write applied or not. Documents and pages go through
the same two loops over disjoint keys in the same transaction, so one set of keys
stands for both. A row is `hash` (all that the file's bytes decide) and `type`
(what they do not: type and path).

### Pipeline

The whole way of an event. GitHub is external: it installs and uninstalls the
app, grants and revokes repositories, takes pushes (all relevant ones, in the
sense of `shouldIngest`), and makes a delivery of each that may come at any later
time, in any order, again, or never. The repositories belong to one account,
which has one installation at a time and a new id with each; the `repos` row is
keyed by owner and name, so a new installation takes it over.

`Receive`, `Record`, then one action per store, queue or index call of the
handlers; `HandlerFails` is every error return, and the death of the process, at
any of them. The queue is `JobSlot`'s slot, with the payload (`InstallationID`)
and the retry count. Runs: `StartRun`, `Fetch` (only with a live installation's
token), `Reconcile` (the transaction as one step, with the foreign key on
`installations`), `Readback`, `IndexDocuments`, or `SyncFails`, `RunFails`.
Cancellation and shutdown are `RunFails` with a retry; events that only record
their delivery (release, ping, suspend) add nothing and are left out; `-onboard`
is an "added" event without a delivery. A row's documents are the version of HEAD
they were built from, and so are its index records. `repos.id` counts up; that a
serial may skip values does not matter.

The history variables say which triggers were lost in a way the code documents or
reports (`excused`), which offboardings were (`leftover`), and for which rows a
sync failed (`lag`). `FreshOrExcused` and `UninstalledIsGone` are read as: the
losses in this list are the only ones.

### Publish

A path is the sequence of its segments, a file's content the number of the push that
wrote it, a configuration a record of what docz's validator lets through. `Blobs` is
what `Fetch` hands to ingest (`ClassifyTree`, `FetchAdditionalDocs`, the landing page
and the changelog apart), `BuildPages` is the classifier rule by rule
(`ClaimReadmeDirs`, `Classified`, `PublishedPath`, the additional documents where no
page has their path), `BuildDocuments` the documents, `Reconciled` the row. Around
them: pushes that change a file, the configuration or both, their events in any
order, `HandlePush` with `ShouldIngest` and `WatchedFiles` over the row of the last
run, and the run with its retries, the last of which may fail too (`Archive`). The queue
is one slot.

`DesiredPages` and `DesiredDocs` are the reference: the rules of DESIGN-0004 said per
directory and over the whole tree, not blob by blob. Rule 4 asks of a document a docz name
and a frontmatter; the code asks for the frontmatter only, and `Strays` are the files it
serves beyond the rule: `PublishedIsCurrent` says that there are no others, and the
`publish_stray` run that there are these. docs_dir is stored as it is
spelled; `plain` says whether the spelling is the clean one.

In every tree a path is a file or a directory and not both, as in git (`GitTree`); a push
that writes a file where there was a directory, or below a path that was a file, removes
what is in its way and lists it (`Clash`). So `index.md` may turn into a directory with a
`README.md` whose page takes over the same published path.

`PublishAssumption` says what the constants stand for. One clause is a fact about the
surroundings: an enabled `api:` block is as docz's validator leaves it, the landing page
filled in, the additional documents with clean paths outside docs_dir and not the landing
page.

### Serving

One request at a time, since requests share nothing: `Authorize` lists the ids,
`resolveRepo` reads the row, `resolveRepoType` the types, the handler its rows, each
on the catalog of its own instant. Between them reconciles commit, repositories go
and come back under new ids, records are indexed and purged. `resolveType` takes the
first of several rows that match, and the statement has no `ORDER BY`, so the choice
is free. `seen` is the history of the catalogs there were during the request.

### Session

One browser with a cookie jar and several requests under way: `Callback`,
`UpsertUser`, `Issue` are the login; `Gate` (`Middleware` or `AnonymousMiddleware`),
then `GetSession` or `Logout`. An answer reaches the jar later (`Deliver`), in any
order, or never (`Lose`). Every call to the provider, Postgres or Redis may fail, and
one that fails may have been applied. `TTL` is what the process makes of SESSION_TTL, 0 for
a value that is no Go duration, and a key stored with 0 never expires; `Expire` is the
expiry of the others, `Redeploy` a version that
enables other providers or cannot decode what is stored. A signed state is its
provider; the read API behind the gate is treated like `GET /auth/session`.
`loggedOut`, `good`, `late` and `owner` are history.

### Lifecycle

`pc` is the place of the process in `run`, `runServer`, `runOnboard` or
`serveWithWorker`; `open` what it holds, `defers` its deferred closes. Each step of
the start succeeds or returns an error after closing what the code closes by hand
(`Fails`). `Load` accepts exactly the environments `Validate` accepts. Serving ends
by `Signal` (drain, worker, client), `ServeError` (no drain) or `Kill`; the next
process starts in any mode. Webhook requests are two steps, `RecordDelivery` and
`EnqueueIngest`, which see the pool and the client closed under them. A job is queued,
runs, and is done, retried or, with `MaxRetry` used up, archived. The jobs a worker has in
hand when it shuts down go back to the queue unless Redis does not answer; those, and all
the jobs of a process that is killed, stay active in Redis without a worker (`orphaned`)
until a later process's recoverer finds the lease expired (`RecoverLease`). `rough` are the
processes whose requests were not waited for, `onboarded` says that an -onboard command
reported success. The installation's row, which the command seeds and a webhook may delete,
is `Pipeline`'s.

## 3. Runs

| Run | Checks | Bounds |
|---|---|---|
| `queue` | `TypeOK`, `AcceptedCovered`, `ReenqueueConflictCovered`, `ImplementsJobSlot`, `AcceptedSettles`, `CallsReturn` | 1 repository, 2 callers, 1 retry, 3 versions |
| `reconcile_safety` | `TypeOK`, `CommittedMatchesSnapshot`, `IndexAccounted`, `RerunWritesNothing` | 2 keys, 2 types, 2 hashes, trees of up to 3 files |
| `pipeline_safety` | `TypeOK`, `FreshOrExcused`, `UninstalledIsGone`, `SearchMatchesRow`, `RowsNeverGoBack`, `SearchNeverGoesBack` | 2 repositories, 2 installations, 2 requests, 3 deliveries, 3 versions, 3 row ids |
| `pipeline_live` | `RoutedOnce`, `Converges` | 1 repository, 1 installation, 2 requests, 3 deliveries, 1 redelivery, 1 retry, 3 versions |
| `publish` | `TypeOK`, `PublishedPathsAreKeys`, `PublishedIsCurrent` | 9 files, 4 configurations, 2 pushes after the first tree |
| `serving` | `TypeOK`, `MissWasTrue`, `AnswerWasServed`, `RepoListIsStable`, `SearchIsScoped` | 2 names, 3 ids, 3 contents of one repository, 2 changes during a request |
| `session` | `TypeOK`, `LogoutIsFinal`, `UnauthorizedIsDeserved`, `AdmittedAsOwner`, `SessionHasUser` | 2 requests at a time, 2 providers with a user each, 2 session ids, 1 redeployment |
| `lifecycle` | `TypeOK`, `ReleasedAtExit`, `ServingIsReady`, `OrderlyShutdownLosesNothing`, `SignalEnds`, `AcceptedJobsEnd` | 3 processes, 1 webhook request and the command's job, 1 retry, GitHub and one OIDC provider |

Why these bounds are enough to meet the hard cases.

* Queue: the races are between a caller that saw an archived task and one that
  re-enqueues over it; the proofs cover any number of callers and repositories. One
  retry separates the retried from the archived job.
* Reconcile: a document can be edited, moved, duplicated, removed and brought back
  with two keys and two hashes, and three files are the least in which duplicates come
  in both orders around another key.
* Pipeline: three deliveries make install, uninstall, reinstall, or install, push and
  removal; two requests are what can interleave; two repositories are a list that can
  stop half-way; three row ids let a repository be removed and made anew twice.
* Publish: the tree has a README.md and an index.md in one directory, a type directory
  with a document and a stray file, a path with "..", an index.md that may become a
  directory, and files outside docs_dir; the
  four configurations switch the `api:` block on and off, exclude the directory, move
  docs_dir into it (so that the root README.md collides with a page) and move the
  landing page. Two pushes are a change of configuration and a change of a file, in
  either order of their events.
* Serving: three contents move a document between two types and the alias with it, or
  let both types claim it; a removal and a new onboarding fit into one request.
* Session: a second login while the first one's answer is on its way, a logout racing
  a request of the other tab, and a cookie that comes back after it.
* Lifecycle: three processes are one that enqueues, one that dies or shuts down with the
  job in hand and one that finds it, or a job that is orphaned twice and has used up its
  one retry. Requests meet only in the drain, which waits for all of them; the proofs
  cover any number.

The event budgets of the pipeline, of publish and of the processes end, so their runs
do not check deadlock; the others do. Symmetry (requests, repositories, installations)
is used only in `pipeline_safety` and `pipeline_purge`.

**Fairness.** `IngestQueue!FairSpec`: a request runs to its end; the forwarder
(every second, `delayedTaskCheckInterval`) and the recoverer are periodic (weak
fairness); pending tasks are taken first in, first out, so strong fairness on
`Dequeue`; a run that is started over and over is not cut short by a crash,
shutdown or cancellation every time (strong fairness on `Fetch` and on success or
failure, never on success alone). `Pipeline!FairSpec`: weak fairness on the steps
of a request, on taking in what is due and on the steps of a run; nothing is
assumed of GitHub's events, of redelivery or of the archive. `GET`/enqueue errors
are never assumed away.
`Lifecycle!FairSpec`: the process takes its own shutdown steps, both drains being
bounded by a timeout, and Postgres answers a request that waits for it (`pool.Close`
waits for its connection); nothing is assumed of Redis, of jobs or of an enqueue.
`AcceptedJobsEnd` has a premise of its own, `JobFairness`: that a worker that is up takes queued jobs,
that a run ends, by asynq's task timeout at the latest, and that the recoverer is periodic
(weak fairness); the other premise is that some process stays up. That a run succeeds is
never assumed, and `SignalEnds` is checked without this premise: a job may never finish.

**Runs that must fail.** Each states a sentence of the repository and shows a
behaviour of the code that contradicts it; the findings in `PROJECT.json` quote
the lines.

| Run | What TLC shows |
|---|---|
| `reconcile_moved` | a file moved to another type's directory unchanged keeps its old type and path |
| `pipeline_purge` | a row moved to the new installation during the old one's offboarding is served but unsearchable |
| `publish_spelling` | with docs_dir "docs/" or "./docs" no push under it passes the filter |
| `publish_stray` | under an `api:` block a file with frontmatter in a type directory is served as a document whatever its name, while the log says it is skipped |

Other deviations are part of the models and named where a property excepts them:

* a failed index sync is not made up for: the next run finds the hash unchanged and
  re-indexes nothing until the document changes again, where the comment at
  `service.go:179-180` says "the next reconcile re-indexes the affected documents"
  (`lag` in `IndexAccounted`);
* with SESSION_TTL=30d, which DESIGN-0001 (line 702) gives as an example and Go does not
  parse, or with 0, the process starts and stores sessions without an expiry, where
  `store.go:2-3` has "with an expiry (SESSION_TTL)" (`TTL` and `Stored` in `Session`; the
  `session` run has a TTL of 720 hours);
* a task that cannot be inspected is answered with success and nothing is enqueued
  (`InspectUnreadable`);
* a push handled between the fetch and the commit of the onboard run is skipped as
  unknown and not caught by that run (`GetRepo`); a push handled between the fetch and
  the end of any run is merged into it (`missed` in `Publish`), one whose event lists no
  changed paths, such as a force push back, is ignored, and a run archived after its last
  retry leaves the row as it was until the next relevant push (`missed` again);
* DESIGN-0004 says of its rule 3 "always-excluded beats everything", but `api.exclude` over
  a type directory does not keep its documents out; the rule is read as about pages, since
  line 267 leaves `buildDocuments` "untouched";
* the delivery id is recorded before the event is routed (`webhook.go:119`), so the
  redelivery of a delivery that was answered 500 does nothing, although DESIGN-0001
  (lines 1070-1071) relies on GitHub's redelivery for transient failures (`excused`);
* after an uninstall and a reinstall the new installation's trigger may be merged into
  a job that carries the removed one's id and ends up archived (`client.go:110`,
  `excused`);
* "no ingest job is lost" (`main.go:442`) holds for a shutdown whose HTTP drain ends in
  time; after the drain's timeout, and after an error of the listener, a request that
  has recorded its delivery may find the client closed (`rough`);
* a repeated logout meets the session gate and is answered 401, where the comment at
  `endpoints.go:109-110` calls it idempotent;
* `GET /repos/{owner}/{name}` may combine a row with the types of a later commit, or
  with none if the repository has just gone (`AnswerWasServed`);
* two files with one doc id overwrite each other on every rerun (`Distinct` in
  `RerunWritesNothing`); a run across an offboarding may leave index records whose row
  is gone, which search filters out.

Every property of a passing run has a mutant of the code, listed in
`PROJECT.json`, that breaks it; they are the definitions marked MUTANT.

## 4. Proofs

Checked by TLAPS for every value of the constants.

**IngestQueueProofs**, from `QueueAssumption` (retries and versions are naturals,
at least one worker slot), for any sets of repositories and callers:
`TypeCorrect`; `AcceptedTriggersAreCovered`; `ReenqueueConflictsAreCovered`;
`QueueImplementsJobSlot`. `AcceptedCovered` alone is not inductive: a caller that
clears a finished task and then meets a conflict counts its trigger as accepted
on the strength of a task it has never looked at. The strengthening adds that any
task covers everything accepted so far (`TaskCovers`), that no trigger or
acceptance is ahead of HEAD (`Versions`, so that a new fetch covers them all), and
that a handler runs only while its task is active (`WorkerHoldsTask`, so that
nobody else moves the task under it). The refinement maps each asynq state to a
slot and goes action by action; it needs only types and `WorkerHoldsTask`.

**ReconcileProofs**, from `ReconcileAssumption` (snapshots are lists of typed
rows), for any keys, types, hashes and snapshots of any length: `TypeCorrect`;
`ReconcileMatchesSnapshot`; `IndexIsAccounted`; `RerunsWriteNothing`. The heart is
`LoopInv`, the invariant of the two loops: a key the upsert loop has seen holds
the content of some entry with that key, any other key is as committed until the
delete loop reaches it, and every difference from the committed rows is in the
result. `SyncInv` carries the result through the index sync.

**SessionProofs**, from `SessionAssumption` (`None` and `Anonymous` are not session
ids, some provider exists), for any providers, users, ids, requests under way and
redeployments: `TypeCorrect`; `SessionsHaveUsers`; `AdmissionIsOwners`; `LogoutFinal`;
`UnauthorizedDeserved`. The invariant has a part about what is stored (`StateInv`: a
stored session is its owner's, who has a row, and its id was never logged out) and one
about each request (`RequestInv`). `Placed` says what a request carries at each `pc`, so
that an id is stored only for a user with a row and only an id that was drawn reaches the
jar; `Final` adds to `LogoutIsFinal` that a late request's id is among the logged out
ones, which is why its lookup fails. A step disturbs only the request that takes it
(`OtherRequests`), so each action is left with the store and that one request.

**LifecycleProofs**, from `LifecycleAssumption` (at least one process, retries are a
natural, `-onboard` is not a webhook request), for any number of processes, webhook requests and login providers:
`TypeCorrect`, `EverythingIsReleased`, `ServesWhenReady`, `OrderlyShutdown`. `ReleasedAtExit` speaks of the last moment of
a process, so the invariant says what is open and which closes are deferred at each `pc`
(`Held`): an error path has to close by hand exactly what is open and not deferred.
`Prepared` says what the steps so far have established, `UnderWay` that a request is
under way only in the process that took it in and survives the drain only in a rough one.

**PipelineProofs**, from `PipelineAssumption` (the bounds are naturals, `None` is no
installation, number or row), for any repositories, installations, requests under way and
bounds: `TypeCorrect`, `DeliveriesAreRoutedOnce`, `OffboardingIsComplete`,
`SearchFollowsRows`, and `PipelineKeepsJobSlot` (`Slot!SlotSpec`: the pipeline's steps on
the queue are steps of `JobSlot`, which needs that the repository a request is about to
enqueue again is one of its own, `HandlerInv`). Common to all is `BaseInv`: what GitHub
never does (`GitHubInv`: one installation at a time, one that is gone has had its
"deleted" sent), what a request carries at each step (`HandlerInv`), how a run relates to
its row and to HEAD (`RunInv`).
On top: a routed delivery is recorded (`RoutedInv`); every uninstall that was sent is
still to be handled, being handled, lost, or done (`UninstallInv`, which speaks of
deliveries where the property speaks of rows, and has to, because a row can only come
back while its installation's row exists); row ids are never shared between repositories,
and a run that is to write nothing to the index has nothing to write (`SearchInv`).
Two theorems are about steps: `RowsOnlyAdvance` and `SearchOnlyAdvances`, what is served
never goes back to an older HEAD. For rows `RunInv` is enough, since a run that has
fetched is not behind the row it will replace. For search it is not: the record a run
replaces may be of a sync that failed, or of a row that is gone. `IndexBehind` adds that no
record is ahead of the row with its id, nor of the run about to write it, and that an id no
row has had has no record; everybody but a run only takes rows and records away
(`Shrinks`), so the argument is left with the steps of one job. Both theorems rest on one
run of a repository at a time (section 5) and on Meilisearch applying its tasks in the
order it accepted them, so that a write whose wait failed does not land after a later one.

**PipelineFreshProofs**, on top of `BaseInv`: `FreshnessIsExcused`. `FreshOrExcused` is
not inductive, because it is content with any trigger that is pending: that one may be
handled by a run that is already too old. `FreshInv` follows the last trigger, the one
that carries HEAD, through the delivery (`InDelivery`), the request (`InRequest`,
`InHand`), the job and the run (`RunWill`) to a row that is at HEAD and of the
installation that grants the repository now (`FreshOwn`). It needs that a run which is
about to replace such a row is itself for a live installation (`OwnRun`), and that a
caller about to enqueue over an archived job has its trigger excused (`ParkedOK`).

**ServingProofs**, from `ServingAssumption` (of which only the bound on ids is used), for
any repositories, contents and number of changes during a request: `TypeCorrect`,
`MissesAreTrue`, `AnswersWereServed`, `RepoListsAreStable`, `SearchesAreScoped`. The
invariant says what an id is worth: it belongs to one name for ever, in Postgres and in
the index (`IdsInv`); a name with an id the request knows has had it all along, a name
with another id was away at some instant of the request (`WatchInv`), which is why its
404 is true. `ReadInv` says that what was read came from a catalog of the request.

**PublishProofs**, from `PublishAssumption`, for any files, configurations and number of
pushes: `TypeCorrect`; `PathsAreKeys`; and, if every docs_dir is spelled cleanly
(`AllPlain`; the `publish_spelling` run shows that this cannot be dropped),
`PublicationIsCurrent`. Half of the argument is about the functions. `PagesAreDesired`
and `DocsAreServed`: fetch and classifier compute the reference of DESIGN-0004, and
`buildDocuments` adds the strays and nothing else, because
the fetch sees every file the rules look at and the directories claimed beforehand are
exactly those with an eligible README.md. `KeysOK`: two files with one published path are
one file, by the lemmas on directories and relative paths and because the tree has no file
and directory of one name (`GitTree`, which `PushIs` shows every push to keep).
`SameServed`: what is served depends on no file but those the filter watches. The other
half is the inductive invariant: every difference that matters between HEAD and the row, or the run under way,
is announced by an event that is still due and, for a run, later than its fetch
(`Announced`); an event the filter turns away announces no such difference
(`FilterIsSafe`).

Each inductive invariant was checked with TLC before it was proved: on the instance of
the run, that of `Publish` on one with fewer files.

Model-checked only: the liveness properties (`AcceptedSettles`, `CallsReturn`,
`Converges`, `SignalEnds`, `AcceptedJobsEnd`), which need fairness and are out of this
prover's reach. Every invariant and every action property of the passing runs is also a
theorem.

## 5. Not modelled

* Two runs of one repository at once, after a worker loses its lease while its
  handler is still at work. The older of the two may then commit last, and neither
  `FreshOrExcused` nor `RowsNeverGoBack` is claimed for that case.
* Several repositories competing for the worker's two slots: that pending tasks are
  taken first in, first out is asynq's, and assumed.
* GitHub's signature, the OAuth state's and the provider's cryptography: a check that
  fails is an answer, one that passes is taken to mean what it says.
* Ranking, sort keys, snippets, dates and windows of a search, the JSON of the read
  API beyond the fields the properties tell apart, the wording of errors.
* Malformed `.docz.yaml`, blobs and columns: a run or a statement that fails.
* The identity of equal bytes in `Publish` (a file's content is the push that wrote
  it); what the hash gate makes of them is `Reconcile`'s.
* The probe endpoints, telemetry beyond the setup and shutdown of the tracer, logging,
  generated query code beyond what its SQL does, charts and deployment, `doczcontract`
  (tests only).

## 6. Open ends

The models are complete in the sense of section 5, and every safety property of the
passing runs is proved. What is left, in the order of what it would say:

1. Two runs of one repository after a lost lease: `run` and the slot per worker instead
   of per repository, and the row lock of `UpsertRepo` between them.
2. Pushes that change any set of files in `Publish`, where one writes a file, the
   configuration or both.
3. Proofs of the liveness properties, with a prover that handles fairness.
