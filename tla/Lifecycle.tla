------------------------------ MODULE Lifecycle -----------------------------
(***************************************************************************)
(* The docz-api process from its flags and environment to its exit:        *)
(* run, runServer, runOnboard and serveWithWorker of cmd/docz-api/main.go, *)
(* the configuration they load (internal/config), the credential check     *)
(* (internal/githubapp), and the resources they open and close, while      *)
(* webhook requests record deliveries and enqueue jobs, and the worker     *)
(* runs them.  A signal, an error of the listener or a kill ends a         *)
(* process; the operator starts another, in any of the four modes.         *)
(***************************************************************************)
EXTENDS Naturals, Sequences, FiniteSets

CONSTANTS
  Hooks,         \* webhook deliveries, each for a repository of its own
  Cli,           \* the job of the -onboard command
  OIDC,          \* providers with a discovery: okta, keycloak
  MaxRetry,      \* retries of a job: 5 in the code
  MaxStarts      \* BOUND: processes

ASSUME LifecycleAssumption ==
  MaxStarts \in Nat \ {0} /\ MaxRetry \in Nat /\ Cli \notin Hooks

VARIABLES
  mode, cfg, pc, defers, open,      \* the process
  signalled,
  schema, indexReady,               \* Postgres and Meilisearch
  hook, job, tries,                 \* deliveries; jobs and their retries so far
  starts,
  \* history, read by no action
  by, rough, onboarded

process == <<mode, cfg, pc, defers, open, signalled>>
stores == <<schema, indexReady>>
work == <<hook, job, tries>>
history == <<by, rough, onboarded>>
vars == <<process, stores, work, starts, history>>

Resources == {"telemetry", "pool", "queue", "session", "worker"}
Known == {"github"} \cup OIDC
Jobs == Hooks \cup {Cli}
\* "orphaned": still active in Redis, under the lease of a worker that is gone.
JobStates == {"none", "queued", "running", "orphaned", "done", "archived"}
Boot == {"load", "telemetry", "migrate", "credentials", "pool", "index", "queue",
         "onboard", "enqueue", "providers", "session", "worker"}
Serving == {"serving", "drain"}
Ending == {"shutdownWorker", "closeQueue", "return"}
Down == {"down", "exited"}

-----------------------------------------------------------------------------
(***************************************************************************)
(* Configuration.  "required" stands for the seven variables every mode    *)
(* needs and the two log enums; "typo" is a provider nobody knows.         *)
(***************************************************************************)
Env == [required : BOOLEAN, secret : BOOLEAN, base : BOOLEAN,
        providers : SUBSET (Known \cup {"none", "typo"}), creds : SUBSET Known]

AuthDisabled(c) == c.providers = {"none"}

\* MUTANT: "none" ends the check, whatever it is combined with.
ValidAuthNoneWins(e) ==
  /\ e.providers # {}
  /\ \/ "none" \in e.providers /\ "typo" \notin e.providers
     \/ e.base /\ e.providers \subseteq e.creds

ValidAuth(e) ==
  /\ e.providers # {}
  /\ IF "none" \in e.providers THEN e.providers = {"none"}
     ELSE e.base /\ e.providers \subseteq e.creds

Validate(e) ==
  /\ e.required
  /\ AuthDisabled(e) \/ e.secret
  /\ ValidAuth(e)

\* What the rest of the process reads of the environment.
Loaded(e) == [providers |-> e.providers, creds |-> e.creds \cap e.providers,
              secret |-> e.secret, base |-> e.base]
NoConfig == [providers |-> {}, creds |-> {}, secret |-> FALSE, base |-> FALSE]

-----------------------------------------------------------------------------
TypeOK ==
  /\ mode \in {"version", "migrate", "onboard", "serve"}
  /\ cfg \in [providers : SUBSET (Known \cup {"none"}), creds : SUBSET Known,
              secret : BOOLEAN, base : BOOLEAN]
  /\ pc \in Boot \cup Serving \cup Ending \cup Down
  /\ defers \in Seq(Resources) /\ open \in SUBSET Resources
  \* a deferred close is of something open, and is deferred once
  /\ \A i, j \in 1 .. Len(defers) : defers[i] \in open /\ (defers[i] = defers[j] => i = j)
  /\ signalled \in BOOLEAN /\ schema \in BOOLEAN /\ indexReady \in BOOLEAN
  /\ hook \in [Hooks -> {"idle", "record", "enqueue", "ok", "error", "closed", "cut"}]
  /\ job \in [Jobs -> JobStates] /\ tries \in [Jobs -> 0 .. MaxRetry]
  /\ starts \in 0 .. MaxStarts
  /\ by \in [Hooks -> 0 .. MaxStarts] /\ rough \in SUBSET (1 .. MaxStarts)
  /\ onboarded \in BOOLEAN

Init ==
  /\ mode = "serve" /\ cfg = NoConfig /\ pc = "down" /\ defers = <<>> /\ open = {} /\ signalled = FALSE
  /\ schema = FALSE /\ indexReady = FALSE
  /\ hook = [h \in Hooks |-> "idle"] /\ job = [j \in Jobs |-> "none"] /\ tries = [j \in Jobs |-> 0]
  /\ starts = 0 /\ by = [h \in Hooks |-> 0] /\ rough = {} /\ onboarded = FALSE

\* The step at a succeeds: r is opened, and its close deferred or left to later code.
Opens(a, b, r) == pc = a /\ pc' = b /\ open' = open \cup {r}
Defer(r) == defers' = Append(defers, r)
Passes(a, b) == pc = a /\ pc' = b /\ UNCHANGED <<open, defers>>
\* The step at a returns an error after closing rs.
Fails(a, rs) == pc = a /\ pc' = "return" /\ open' = open \ rs /\ UNCHANGED defers

-----------------------------------------------------------------------------
(***************************************************************************)
(* run.                                                                    *)
(***************************************************************************)
Start(m) ==
  /\ pc \in Down /\ starts < MaxStarts
  /\ starts' = starts + 1 /\ mode' = m /\ signalled' = FALSE
  /\ pc' = IF m = "version" THEN "exited" ELSE "load"
  /\ UNCHANGED <<cfg, defers, open, stores, work, history>>

\* Load fails for what validate refuses and for a private key file it cannot read.
Load ==
  /\ \/ /\ cfg' \in {Loaded(e) : e \in {x \in Env : Validate(x)}}
        /\ Passes("load", "telemetry")
     \/ UNCHANGED cfg /\ Fails("load", {})
  /\ UNCHANGED <<mode, signalled, stores, work, starts, history>>

SetupTelemetry ==
  /\ \/ Opens("telemetry", "migrate", "telemetry") /\ Defer("telemetry")
     \/ Fails("telemetry", {})
  /\ UNCHANGED <<mode, cfg, signalled, stores, work, starts, history>>

\* goose skips what is applied; its own connection is closed either way.
Migrate ==
  /\ \/ schema' = TRUE /\ Passes("migrate", IF mode = "migrate" THEN "return" ELSE "credentials")
     \/ UNCHANGED schema /\ Fails("migrate", {})
  /\ UNCHANGED <<mode, cfg, signalled, indexReady, work, starts, history>>

\* A malformed key or a 401 is fatal; whatever else keeps the check from an answer is not.
SelfCheck == {"authenticated", "rejected", "unreachable"}

CheckGitHubCredentials ==
  /\ \E answer \in SelfCheck :
       IF answer = "rejected" THEN Fails("credentials", {}) ELSE Passes("credentials", "pool")
  /\ UNCHANGED <<mode, cfg, signalled, stores, work, starts, history>>

NewPool ==
  /\ \/ Opens("pool", "index", "pool") /\ Defer("pool")
     \/ Fails("pool", {})
  /\ UNCHANGED <<mode, cfg, signalled, stores, work, starts, history>>

EnsureIndex ==
  /\ \/ indexReady' = TRUE /\ Passes("index", "queue")
     \/ UNCHANGED indexReady /\ Fails("index", {})
  /\ UNCHANGED <<mode, cfg, signalled, schema, work, starts, history>>

\* MUTANT: the close is deferred for the server too, which closes the client itself.
NewClientDefers ==
  /\ \/ /\ Opens("queue", IF mode = "onboard" THEN "onboard" ELSE "providers", "queue")
        /\ Defer("queue")
     \/ Fails("queue", {})
  /\ UNCHANGED <<mode, cfg, signalled, stores, work, starts, history>>

\* Only -onboard defers the close of the queue client.
NewClient ==
  /\ \/ /\ Opens("queue", IF mode = "onboard" THEN "onboard" ELSE "providers", "queue")
        /\ IF mode = "onboard" THEN Defer("queue") ELSE UNCHANGED defers
     \/ Fails("queue", {})
  /\ UNCHANGED <<mode, cfg, signalled, stores, work, starts, history>>

-----------------------------------------------------------------------------
(***************************************************************************)
(* runOnboard.                                                             *)
(***************************************************************************)
\* parseOnboardSpec and UpsertInstallation; the row itself is Pipeline.tla's.
SeedInstallation ==
  /\ Passes("onboard", "enqueue") \/ Fails("onboard", {})
  /\ UNCHANGED <<mode, cfg, signalled, stores, work, starts, history>>

\* A job that waits or runs covers the trigger; a finished one makes room for a new one
\* (IngestQueue.tla).
Enqueued(j) ==
  IF job[j] \in {"none", "done", "archived"}
    THEN job' = [job EXCEPT ![j] = "queued"] /\ tries' = [tries EXCEPT ![j] = 0]
    ELSE UNCHANGED <<job, tries>>

EnqueueOnboard ==
  /\ \/ Enqueued(Cli) /\ onboarded' = TRUE /\ Passes("enqueue", "return")
     \/ /\ Enqueued(Cli) \/ UNCHANGED <<job, tries>>       \* the answer is lost, or all of it
        /\ UNCHANGED onboarded /\ Fails("enqueue", {})
  /\ UNCHANGED <<mode, cfg, signalled, stores, hook, starts, by, rough>>

-----------------------------------------------------------------------------
(***************************************************************************)
(* runServer.                                                              *)
(***************************************************************************)
BuildAuthProviders ==
  /\ \/ Passes("providers", "session")
     \/ cfg.providers \cap OIDC # {} /\ Fails("providers", {"queue"})   \* discovery
  /\ UNCHANGED <<mode, cfg, signalled, stores, work, starts, history>>

NewSession ==
  /\ \/ Opens("session", "worker", "session") /\ Defer("session")
     \/ Fails("session", {"queue"})
  /\ UNCHANGED <<mode, cfg, signalled, stores, work, starts, history>>

\* MUTANT: the last error path forgets the queue client.
StartWorkerLeaks ==
  /\ \/ Opens("worker", "serving", "worker") /\ UNCHANGED defers
     \/ Fails("worker", {})
  /\ UNCHANGED <<mode, cfg, signalled, stores, work, starts, history>>

\* NewWorker and Start, then the routes.
StartWorker ==
  /\ \/ Opens("worker", "serving", "worker") /\ UNCHANGED defers
     \/ Fails("worker", {"queue"})
  /\ UNCHANGED <<mode, cfg, signalled, stores, work, starts, history>>

-----------------------------------------------------------------------------
(***************************************************************************)
(* serveWithWorker.                                                        *)
(***************************************************************************)
\* MUTANT: the worker and the queue client are shut down without draining HTTP first.
SignalSkipsDrain ==
  /\ signalled' = TRUE /\ Passes("serving", "shutdownWorker")
  /\ UNCHANGED <<mode, cfg, stores, work, starts, history>>

Signal ==
  /\ signalled' = TRUE /\ Passes("serving", "drain")
  /\ UNCHANGED <<mode, cfg, stores, work, starts, history>>

\* The listener fails; the requests under way are not waited for.
ServeError ==
  /\ Passes("serving", "shutdownWorker")
  /\ rough' = rough \cup {starts}
  /\ UNCHANGED <<mode, cfg, signalled, stores, work, starts, by, onboarded>>

InFlight == {h \in Hooks : hook[h] \in {"record", "enqueue"}}

DrainHTTP ==
  /\ InFlight = {} /\ Passes("drain", "shutdownWorker")
  /\ UNCHANGED <<mode, cfg, signalled, stores, work, starts, history>>

\* MUTANT: srv.Shutdown with a context that has no deadline.
DrainTimeoutNever == FALSE /\ UNCHANGED vars

\* shutdownTimeout: a warning, and the shutdown goes on.
DrainTimeout ==
  /\ InFlight # {} /\ Passes("drain", "shutdownWorker")
  /\ rough' = rough \cup {starts}
  /\ UNCHANGED <<mode, cfg, signalled, stores, work, starts, by, onboarded>>

Running == {j \in Jobs : job[j] = "running"}
\* Of the jobs that run, those in back return to the queue and the others stay as they are
\* in Redis, without a worker.
Abandoned(back) ==
  job' = [j \in Jobs |-> IF j \notin Running THEN job[j] ELSE IF j \in back THEN "queued" ELSE "orphaned"]

\* asynq puts the jobs that do not end in time back; for some Redis may not answer.
ShutdownWorker ==
  /\ pc = "shutdownWorker" /\ pc' = "closeQueue"
  /\ open' = open \ {"worker"} /\ \E back \in SUBSET Running : Abandoned(back)
  /\ UNCHANGED <<mode, cfg, defers, signalled, stores, hook, tries, starts, history>>

CloseQueueClient ==
  /\ pc = "closeQueue" /\ pc' = "return" /\ open' = open \ {"queue"}
  /\ UNCHANGED <<mode, cfg, defers, signalled, stores, work, starts, history>>

\* The deferred closes, last one first.  pool.Close waits for the connections in use.
RunDeferred ==
  /\ pc = "return" /\ defers # <<>>
  /\ LET r == defers[Len(defers)] IN
       /\ r = "pool" => \A h \in Hooks : hook[h] # "record"
       /\ open' = open \ {r}
  /\ defers' = SubSeq(defers, 1, Len(defers) - 1)
  /\ UNCHANGED <<mode, cfg, pc, signalled, stores, work, starts, history>>

Cut == hook' = [h \in Hooks |-> IF h \in InFlight THEN "cut" ELSE hook[h]]

Exit ==
  /\ pc = "return" /\ defers = <<>> /\ pc' = "exited"
  /\ Cut /\ cfg' = NoConfig
  /\ UNCHANGED <<mode, defers, open, signalled, stores, job, tries, starts, history>>

Kill ==
  /\ pc \notin Down /\ pc' = "down"
  /\ open' = {} /\ defers' = <<>> /\ cfg' = NoConfig
  /\ Cut /\ Abandoned({})
  /\ rough' = rough \cup {starts}
  /\ UNCHANGED <<mode, signalled, stores, tries, starts, by, onboarded>>

-----------------------------------------------------------------------------
(***************************************************************************)
(* The work in a serving process.                                          *)
(***************************************************************************)
Arrive(h) ==
  /\ pc = "serving" /\ hook[h] = "idle"
  /\ hook' = [hook EXCEPT ![h] = "record"] /\ by' = [by EXCEPT ![h] = starts]
  /\ UNCHANGED <<process, stores, job, tries, starts, rough, onboarded>>

RecordDelivery(h) ==
  /\ hook[h] = "record"
  /\ \/ "pool" \in open /\ hook' = [hook EXCEPT ![h] = "enqueue"]
     \/ hook' = [hook EXCEPT ![h] = "error"]
  /\ UNCHANGED <<process, stores, job, tries, starts, history>>

\* MUTANT: an enqueue that fails is logged and the delivery answered as handled.
EnqueueIngestBestEffort(h) ==
  /\ hook[h] = "enqueue" /\ "queue" \in open
  /\ Enqueued(h) \/ UNCHANGED <<job, tries>>
  /\ hook' = [hook EXCEPT ![h] = "ok"]
  /\ UNCHANGED <<process, stores, starts, history>>

\* An enqueue that fails may have been applied, unless the client is closed.
EnqueueIngest(h) ==
  /\ hook[h] = "enqueue"
  /\ \/ "queue" \in open /\ Enqueued(h) /\ hook' = [hook EXCEPT ![h] = "ok"]
     \/ /\ "queue" \in open /\ hook' = [hook EXCEPT ![h] = "error"]
        /\ Enqueued(h) \/ UNCHANGED <<job, tries>>
     \/ "queue" \notin open /\ hook' = [hook EXCEPT ![h] = "closed"] /\ UNCHANGED <<job, tries>>
  /\ UNCHANGED <<process, stores, starts, history>>

RunJob(j) ==
  /\ pc \in Serving /\ job[j] = "queued"
  /\ job' = [job EXCEPT ![j] = "running"]
  /\ UNCHANGED <<process, stores, hook, tries, starts, history>>

RetryLater(j) ==
  /\ tries[j] < MaxRetry
  /\ job' = [job EXCEPT ![j] = "queued"] /\ tries' = [tries EXCEPT ![j] = @ + 1]

Archive(j) == tries[j] = MaxRetry /\ job' = [job EXCEPT ![j] = "archived"] /\ UNCHANGED tries

EndJob(j) ==
  /\ "worker" \in open /\ job[j] = "running"
  /\ \/ job' = [job EXCEPT ![j] = "done"] /\ UNCHANGED tries
     \/ RetryLater(j)
     \/ Archive(j)
  /\ UNCHANGED <<process, stores, hook, starts, history>>

\* MUTANT: a job that has used up its retries is not recovered.
RecoverLeaseRetries(j) ==
  /\ "worker" \in open /\ job[j] = "orphaned"
  /\ RetryLater(j)
  /\ UNCHANGED <<process, stores, hook, starts, history>>

\* The worker of a later process finds the lease expired.
RecoverLease(j) ==
  /\ "worker" \in open /\ job[j] = "orphaned"
  /\ RetryLater(j) \/ Archive(j)
  /\ UNCHANGED <<process, stores, hook, starts, history>>

Booting ==
  \/ Load \/ SetupTelemetry \/ Migrate \/ CheckGitHubCredentials \/ NewPool \/ EnsureIndex
  \/ NewClient \/ SeedInstallation \/ EnqueueOnboard
  \/ BuildAuthProviders \/ NewSession \/ StartWorker

ShuttingDown ==
  DrainHTTP \/ DrainTimeout \/ ShutdownWorker \/ CloseQueueClient \/ RunDeferred \/ Exit

Next ==
  \/ \E m \in {"version", "migrate", "onboard", "serve"} : Start(m)
  \/ Booting \/ Signal \/ ServeError \/ ShuttingDown \/ Kill
  \/ \E h \in Hooks : Arrive(h) \/ RecordDelivery(h) \/ EnqueueIngest(h)
  \/ \E j \in Jobs : RunJob(j) \/ EndJob(j) \/ RecoverLease(j)

Spec == Init /\ [][Next]_vars

\* The process takes its own steps, both drains being bounded by a timeout, and
\* Postgres answers; nothing is assumed of Redis, of jobs or of a request's enqueue.
FairSpec == Spec /\ WF_vars(ShuttingDown) /\ \A h \in Hooks : WF_vars(RecordDelivery(h))

-----------------------------------------------------------------------------
(***************************************************************************)
(* Properties.                                                             *)
(***************************************************************************)
\* Whatever step of the start fails, in whatever mode, and however the serving ends,
\* run returns with everything closed: what a defer covers and what each error path of
\* runServer and serveWithWorker closes by hand (main.go:180-202, 462-482) leave nothing.
ReleasedAtExit == pc = "exited" => open = {}

\* A process that serves is complete: schema and index are there, nobody it needs is
\* closed, and login is either off or works for every provider the process was given
\* (validate.go:28-89), also after a restart in another mode or with another environment.
ServingIsReady ==
  pc \in Serving =>
    /\ schema /\ indexReady /\ open = Resources
    /\ AuthDisabled(cfg) \/ /\ cfg.secret /\ cfg.base /\ cfg.providers # {}
                            /\ cfg.providers \subseteq cfg.creds

\* An orderly shutdown loses no trigger (main.go:439-442): a request that recorded its
\* delivery meets a closed client, or the end of the process, only if the listener had
\* failed, the HTTP drain had run into its timeout, or the process was killed.
OrderlyShutdownLosesNothing ==
  \A h \in Hooks : hook[h] \in {"closed", "cut"} => by[h] \in rough

\* A signalled process comes to its end, even with a request that never returns from
\* its enqueue and a job that never finishes.
SignalEnds == signalled /\ pc \notin Down ~> pc \in Down

Accepted(j) == IF j = Cli THEN onboarded ELSE hook[j] = "ok"

\* A worker that is up takes queued jobs, asynq ends a run by its timeout at the latest, and
\* the recoverer is periodic; a run is never assumed to succeed.
JobFairness ==
  \A j \in Jobs : WF_vars(RunJob(j)) /\ WF_vars(EndJob(j)) /\ WF_vars(RecoverLease(j))

\* Once some process stays up, every job that was acknowledged, to GitHub (webhook.go:149)
\* or to the operator of -onboard (main.go:283-294), comes to its end: it has run to
\* success or has used up its retries and is reported as archived.  That holds for one
\* that was running when its process was killed, or when a shutdown could not put it back.
\* It is the worker that has to see to it, so its fairness is assumed here and not in
\* SignalEnds, which has to hold with a job that never finishes.
AcceptedJobsEnd ==
  JobFairness /\ <>[](pc = "serving")
    => \A j \in Jobs : Accepted(j) ~> job[j] \in {"done", "archived"}
=============================================================================
