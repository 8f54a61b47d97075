--------------------------- MODULE LifecycleProofs --------------------------
(***************************************************************************)
(* Lifecycle's safety properties for any number of webhook requests,       *)
(* login providers and processes.                                          *)
(*                                                                         *)
(* The strengthening says what a process holds at each step: which         *)
(* resources are open, which closes are deferred (Held), what it has       *)
(* prepared (Prepared), and which requests can be under way (UnderWay).    *)
(***************************************************************************)
EXTENDS Lifecycle, TLAPS

\* The first n of the closes that are deferred; the third is the queue client's for
\* -onboard and the session store's for the server.
Deferred(n, third) ==
  /\ Len(defers) = n
  /\ n >= 1 => defers[1] = "telemetry"
  /\ n >= 2 => defers[2] = "pool"
  /\ n >= 3 => defers[3] = third

Holds(n, third, rs) == Deferred(n, third) /\ open = rs

Held ==
  /\ defers \in Seq(Resources)
  /\ pc \in Down \cup {"load", "telemetry"} => Holds(0, "none", {})
  /\ pc \in {"migrate", "credentials", "pool"} => Holds(1, "none", {"telemetry"})
  /\ pc \in {"index", "queue"} => Holds(2, "none", {"telemetry", "pool"})
  /\ pc \in {"onboard", "enqueue"} => Holds(3, "queue", {"telemetry", "pool", "queue"})
  /\ pc \in {"providers", "session"} => Holds(2, "none", {"telemetry", "pool", "queue"})
  /\ pc = "worker" => Holds(3, "session", Resources \ {"worker"})
  /\ pc \in Serving \cup {"shutdownWorker"} => Holds(3, "session", Resources)
  /\ pc = "closeQueue" => Holds(3, "session", Resources \ {"worker"})
  \* a return, early or late, leaves exactly what is deferred
  /\ pc = "return" => \/ Holds(0, "none", {})
                      \/ Holds(1, "none", {"telemetry"})
                      \/ Holds(2, "none", {"telemetry", "pool"})
                      \/ Holds(3, "queue", {"telemetry", "pool", "queue"})
                      \/ Holds(3, "session", {"telemetry", "pool", "session"})

AuthReady ==
  AuthDisabled(cfg) \/ /\ cfg.secret /\ cfg.base /\ cfg.providers # {}
                       /\ cfg.providers \subseteq cfg.creds

\* What the steps so far have prepared.
Prepared ==
  /\ pc \in (Boot \ {"load"}) \cup Serving => AuthReady
  /\ pc \in (Boot \ {"load", "telemetry", "migrate"}) \cup Serving => schema
  /\ pc \in {"queue", "onboard", "enqueue", "providers", "session", "worker"} \cup Serving
       => indexReady

\* A request is under way only in the process that took it in, and outlives its drain
\* only if the process is a rough one.
UnderWay ==
  /\ pc \notin Down => starts >= 1
  /\ \A h \in Hooks : hook[h] \in {"record", "enqueue"} =>
       /\ pc \in Serving \cup Ending
       /\ by[h] = starts
       /\ pc \in Ending => starts \in rough

Config == [providers : SUBSET (Known \cup {"none"}), creds : SUBSET Known,
           secret : BOOLEAN, base : BOOLEAN]

Types ==
  /\ mode \in {"version", "migrate", "onboard", "serve"}
  /\ cfg \in Config
  /\ pc \in Boot \cup Serving \cup Ending \cup Down
  /\ signalled \in BOOLEAN /\ schema \in BOOLEAN /\ indexReady \in BOOLEAN
  /\ hook \in [Hooks -> {"idle", "record", "enqueue", "ok", "error", "closed", "cut"}]
  /\ job \in [Jobs -> JobStates] /\ tries \in [Jobs -> 0 .. MaxRetry]
  /\ starts \in 0 .. MaxStarts
  /\ by \in [Hooks -> 0 .. MaxStarts] /\ rough \in SUBSET (1 .. MaxStarts)
  /\ onboarded \in BOOLEAN

LifecycleInv ==
  /\ Types /\ Held /\ Prepared /\ UnderWay
  /\ OrderlyShutdownLosesNothing
-----------------------------------------------------------------------------
(***************************************************************************)
(* The invariant says what the properties say.                             *)
(***************************************************************************)
LEMMA InvImplies ==
  LifecycleInv => /\ TypeOK /\ ReleasedAtExit /\ ServingIsReady
                  /\ OrderlyShutdownLosesNothing
<1> SUFFICES ASSUME LifecycleInv PROVE TypeOK /\ ReleasedAtExit /\ ServingIsReady
  BY DEF LifecycleInv
<1>1. /\ open \in SUBSET Resources
      /\ \A i, j \in 1 .. Len(defers) : defers[i] \in open /\ (defers[i] = defers[j] => i = j)
  <2>1. Held /\ pc \in Boot \cup Serving \cup Ending \cup Down
    BY DEF LifecycleInv, Types
  <2> QED
    BY <2>1 DEF Held, Holds, Deferred, Boot, Serving, Ending, Down, Resources
<1>2. TypeOK
  BY <1>1 DEF LifecycleInv, Types, Config, Held, TypeOK
<1>3. ReleasedAtExit
  BY DEF LifecycleInv, Held, Holds, Down, ReleasedAtExit
<1>4. ServingIsReady
  BY DEF LifecycleInv, Held, Holds, Prepared, AuthReady, ServingIsReady
<1> QED
  BY <1>2, <1>3, <1>4

LEMMA InitInv == Init => LifecycleInv
<1> SUFFICES ASSUME Init PROVE LifecycleInv
  OBVIOUS
<1> USE LifecycleAssumption DEF Init
<1>0. NoConfig \in Config
  BY DEF NoConfig, Config
<1>1. Types
  <2>1. 0 \in 0 .. MaxStarts /\ 0 \in 0 .. MaxRetry
    OBVIOUS
  <2> QED
    BY <1>0, <2>1 DEF Types, Down, JobStates
<1>2. Held
  BY DEF Held, Holds, Deferred, Down, Boot, Serving
<1>3. Prepared /\ UnderWay
  BY DEF Prepared, UnderWay, Down, Boot, Serving
<1>4. OrderlyShutdownLosesNothing
  BY DEF OrderlyShutdownLosesNothing
<1> QED
  BY <1>1, <1>2, <1>3, <1>4 DEF LifecycleInv
-----------------------------------------------------------------------------
(***************************************************************************)
(* The steps, one conjunct of the invariant at a time.                     *)
(***************************************************************************)
LEMMA LoadedIsReady ==
  ASSUME NEW e \in Env, Validate(e)
  PROVE  /\ Loaded(e) \in Config
         /\ \/ Loaded(e).providers = {"none"}
            \/ /\ Loaded(e).secret /\ Loaded(e).base /\ Loaded(e).providers # {}
               /\ Loaded(e).providers \subseteq Loaded(e).creds
<1>1. /\ e.providers \subseteq Known \cup {"none", "typo"} /\ e.creds \subseteq Known
      /\ e.secret \in BOOLEAN /\ e.base \in BOOLEAN
  BY DEF Env
<1>2. \/ e.providers = {"none"}
      \/ e.secret /\ e.base /\ e.providers # {} /\ e.providers \subseteq e.creds
  BY DEF Validate, ValidAuth, AuthDisabled
<1>3. e.providers \subseteq Known \cup {"none"}
  BY <1>1, <1>2
<1>4. Loaded(e) \in Config
  BY <1>1, <1>3 DEF Loaded, Config
<1> QED
  BY <1>2, <1>4 DEF Loaded

\* The steps on jobs.
JobTypes == job \in [Jobs -> JobStates] /\ tries \in [Jobs -> 0 .. MaxRetry]

LEMMA EnqueuedTypes ==
  ASSUME NEW j \in Jobs, JobTypes, Enqueued(j) \/ UNCHANGED <<job, tries>>
  PROVE  JobTypes'
  BY LifecycleAssumption DEF JobTypes, Enqueued, JobStates

LEMMA AbandonedTypes ==
  ASSUME NEW back, JobTypes, Abandoned(back)
  PROVE  job' \in [Jobs -> JobStates]
  BY DEF JobTypes, Abandoned, Running, JobStates

LEMMA JobStepTypes ==
  ASSUME NEW j \in Jobs, JobTypes, RunJob(j) \/ EndJob(j) \/ RecoverLease(j)
  PROVE  JobTypes'
<1> USE LifecycleAssumption DEF JobTypes, JobStates
<1>1. CASE RunJob(j)
  BY <1>1 DEF RunJob
<1>2. CASE RetryLater(j)
  BY <1>2 DEF RetryLater
<1>3. CASE Archive(j)
  BY <1>3 DEF Archive
<1>4. CASE job' = [job EXCEPT ![j] = "done"] /\ UNCHANGED tries
  BY <1>4
<1> QED
  BY <1>1, <1>2, <1>3, <1>4 DEF EndJob, RecoverLease

LEMMA TypesStep == LifecycleInv /\ Next => Types'
<1> SUFFICES ASSUME LifecycleInv, Next PROVE Types'
  OBVIOUS
<1> USE LifecycleAssumption DEF LifecycleInv, Types, process, stores, work, history
<1>0. JobTypes
  BY DEF JobTypes
<1>1. ASSUME NEW m \in {"version", "migrate", "onboard", "serve"}, Start(m) PROVE Types'
  <2>1. starts' \in 0 .. MaxStarts
    BY <1>1 DEF Start
  <2>2. pc' \in Boot \cup Down
    BY <1>1 DEF Start, Boot, Down
  <2> QED
    BY <1>1, <2>1, <2>2 DEF Start
<1>2. CASE Load
  <2>1. cfg' \in Config
    BY <1>2, LoadedIsReady DEF Load
  <2> QED
    BY <1>2, <2>1 DEF Load, Passes, Fails, Boot, Ending
<1>3. CASE SetupTelemetry \/ Migrate \/ CheckGitHubCredentials \/ NewPool \/ EnsureIndex \/ NewClient
  <2>1. CASE SetupTelemetry \/ CheckGitHubCredentials
    BY <2>1 DEF SetupTelemetry, CheckGitHubCredentials, Opens, Passes, Fails, Boot, Ending
  <2>2. CASE Migrate \/ EnsureIndex
    BY <2>2 DEF Migrate, EnsureIndex, Passes, Fails, Boot, Ending
  <2>3. CASE NewPool \/ NewClient
    BY <2>3 DEF NewPool, NewClient, Opens, Fails, Boot, Ending
  <2> QED
    BY <1>3, <2>1, <2>2, <2>3
<1>4. CASE SeedInstallation \/ EnqueueOnboard \/ BuildAuthProviders \/ NewSession \/ StartWorker
  <2>1. CASE SeedInstallation \/ BuildAuthProviders
    BY <2>1 DEF SeedInstallation, BuildAuthProviders, Passes, Fails, Boot, Ending
  <2>2. CASE NewSession \/ StartWorker
    BY <2>2 DEF NewSession, StartWorker, Opens, Fails, Boot, Ending, Serving
  <2>3. CASE EnqueueOnboard
    <3>1. /\ pc' \in Ending /\ onboarded' \in BOOLEAN
          /\ Enqueued(Cli) \/ UNCHANGED <<job, tries>>
          /\ UNCHANGED <<mode, cfg, signalled, stores, hook, starts, by, rough>>
      BY <2>3 DEF EnqueueOnboard, Passes, Fails, Ending
    <3>2. JobTypes'
      BY <3>1, <1>0, EnqueuedTypes DEF Jobs
    <3> QED
      BY <3>1, <3>2 DEF JobTypes
  <2> QED
    BY <1>4, <2>1, <2>2, <2>3
<1>5. CASE Signal \/ ServeError \/ DrainHTTP \/ DrainTimeout
  <2>1. pc \in Serving /\ pc' \in Serving \cup Ending
    BY <1>5 DEF Signal, ServeError, DrainHTTP, DrainTimeout, Passes, Serving, Ending
  <2>2. starts \in 1 .. MaxStarts
    BY <2>1 DEF UnderWay, Serving, Down
  <2>3. rough' \in {rough, rough \cup {starts}}
    BY <1>5 DEF Signal, ServeError, DrainHTTP, DrainTimeout
  <2>4. rough' \in SUBSET (1 .. MaxStarts)
    BY <2>2, <2>3
  <2> QED
    BY <1>5, <2>1, <2>4 DEF Signal, ServeError, DrainHTTP, DrainTimeout
<1>6. CASE ShutdownWorker \/ CloseQueueClient \/ RunDeferred
  <2>1. CASE ShutdownWorker
    BY <2>1, <1>0, AbandonedTypes DEF ShutdownWorker, Ending
  <2>2. CASE CloseQueueClient \/ RunDeferred
    BY <2>2 DEF CloseQueueClient, RunDeferred, Ending
  <2> QED
    BY <1>6, <2>1, <2>2
<1>7. CASE Exit \/ Kill
  <2>1. NoConfig \in Config
    BY DEF NoConfig, Config
  <2>2. hook' \in [Hooks -> {"idle", "record", "enqueue", "ok", "error", "closed", "cut"}]
    BY <1>7 DEF Exit, Kill, Cut
  <2>3. pc \notin Down => starts \in 1 .. MaxStarts
    BY DEF UnderWay
  <2>4. CASE Exit
    BY <2>1, <2>2, <2>4 DEF Exit, Down
  <2>5. CASE Kill
    BY <2>1, <2>2, <2>3, <2>5, <1>0, AbandonedTypes DEF Kill, Down
  <2> QED
    BY <1>7, <2>4, <2>5
<1>8. ASSUME NEW h \in Hooks, Arrive(h) PROVE Types'
  BY <1>8 DEF Arrive
<1>9. ASSUME NEW h \in Hooks, RecordDelivery(h) PROVE Types'
  BY <1>9 DEF RecordDelivery
<1>10. ASSUME NEW h \in Hooks, EnqueueIngest(h) PROVE Types'
  <2>1. /\ hook' \in [Hooks -> {"idle", "record", "enqueue", "ok", "error", "closed", "cut"}]
        /\ Enqueued(h) \/ UNCHANGED <<job, tries>>
        /\ UNCHANGED <<process, stores, starts, history>>
    BY <1>10 DEF EnqueueIngest
  <2>2. JobTypes'
    BY <2>1, <1>0, EnqueuedTypes DEF Jobs
  <2> QED
    BY <2>1, <2>2 DEF JobTypes
<1>11. ASSUME NEW j \in Jobs, RunJob(j) \/ EndJob(j) \/ RecoverLease(j) PROVE Types'
  <2>1. JobTypes' /\ UNCHANGED <<process, stores, hook, starts, history>>
    BY <1>11, <1>0, JobStepTypes DEF RunJob, EndJob, RecoverLease
  <2> QED
    BY <2>1 DEF JobTypes
<1> QED
  BY <1>1, <1>2, <1>3, <1>4, <1>5, <1>6, <1>7, <1>8, <1>9, <1>10, <1>11 DEF Next, Booting, ShuttingDown

LEMMA AppendDefers ==
  ASSUME NEW r \in Resources, defers \in Seq(Resources), Defer(r)
  PROVE  /\ defers' \in Seq(Resources) /\ Len(defers') = Len(defers) + 1
         /\ \A i \in 1 .. Len(defers) : defers'[i] = defers[i]
         /\ defers'[Len(defers) + 1] = r
  BY DEF Defer

LEMMA HeldStep == LifecycleInv /\ Next => Held'
<1> SUFFICES ASSUME LifecycleInv, Next PROVE Held'
  OBVIOUS
<1> USE DEF LifecycleInv, Held, Holds, Deferred, Boot, Serving, Ending, Down, Resources
<1>1. ASSUME NEW m \in {"version", "migrate", "onboard", "serve"}, Start(m) PROVE Held'
  BY <1>1 DEF Start
<1>2. CASE Load \/ Migrate \/ CheckGitHubCredentials \/ EnsureIndex
  BY <1>2 DEF Load, Migrate, CheckGitHubCredentials, EnsureIndex, Passes, Fails
<1>3. CASE SetupTelemetry
  <2>1. CASE Opens("telemetry", "migrate", "telemetry") /\ Defer("telemetry")
    BY <2>1, AppendDefers DEF Opens
  <2>2. CASE Fails("telemetry", {})
    BY <2>2 DEF Fails
  <2> QED
    BY <1>3, <2>1, <2>2 DEF SetupTelemetry
<1>4. CASE NewPool
  <2>1. CASE Opens("pool", "index", "pool") /\ Defer("pool")
    <3>1. pc = "pool" /\ pc' = "index" /\ open' = open \cup {"pool"}
      BY <2>1 DEF Opens
    <3>2. Len(defers) = 1 /\ defers \in Seq(Resources) /\ Defer("pool")
      BY <2>1, <3>1
    <3>3. /\ defers' \in Seq(Resources) /\ Len(defers') = 2 /\ defers'[2] = "pool"
          /\ \A i \in 1 .. 1 : defers'[i] = defers[i]
      BY <3>2, AppendDefers
    <3> QED
      BY <3>1, <3>3
  <2>2. CASE Fails("pool", {})
    BY <2>2 DEF Fails
  <2> QED
    BY <1>4, <2>1, <2>2 DEF NewPool
<1>5. CASE NewClient
  <2>1. CASE Opens("queue", "onboard", "queue") /\ Defer("queue")
    <3>1. pc = "queue" /\ pc' = "onboard" /\ open' = open \cup {"queue"}
      BY <2>1 DEF Opens
    <3>2. Len(defers) = 2 /\ defers \in Seq(Resources) /\ Defer("queue")
      BY <2>1, <3>1
    <3>3. /\ defers' \in Seq(Resources) /\ Len(defers') = 3 /\ defers'[3] = "queue"
          /\ \A i \in 1 .. 2 : defers'[i] = defers[i]
      BY <3>2, AppendDefers
    <3> QED
      BY <3>1, <3>3
  <2>2. CASE Opens("queue", "providers", "queue") /\ UNCHANGED defers
    BY <2>2 DEF Opens
  <2>3. CASE Fails("queue", {})
    BY <2>3 DEF Fails
  <2> QED
    BY <1>5, <2>1, <2>2, <2>3 DEF NewClient
<1>6. CASE SeedInstallation \/ EnqueueOnboard \/ BuildAuthProviders
  BY <1>6 DEF SeedInstallation, EnqueueOnboard, BuildAuthProviders, Passes, Fails
<1>7. CASE NewSession
  <2>1. CASE Opens("session", "worker", "session") /\ Defer("session")
    <3>1. pc = "session" /\ pc' = "worker" /\ open' = open \cup {"session"}
      BY <2>1 DEF Opens
    <3>2. Len(defers) = 2 /\ defers \in Seq(Resources) /\ Defer("session")
      BY <2>1, <3>1
    <3>3. /\ defers' \in Seq(Resources) /\ Len(defers') = 3 /\ defers'[3] = "session"
          /\ \A i \in 1 .. 2 : defers'[i] = defers[i]
      BY <3>2, AppendDefers
    <3> QED
      BY <3>1, <3>3
  <2>2. CASE Fails("session", {"queue"})
    BY <2>2 DEF Fails
  <2> QED
    BY <1>7, <2>1, <2>2 DEF NewSession
<1>8. CASE StartWorker \/ Signal \/ ServeError \/ DrainHTTP \/ DrainTimeout
  BY <1>8 DEF StartWorker, Signal, ServeError, DrainHTTP, DrainTimeout, Passes, Opens, Fails
<1>9. CASE ShutdownWorker \/ CloseQueueClient
  BY <1>9 DEF ShutdownWorker, CloseQueueClient
<1>10. CASE RunDeferred
  <2>1. /\ defers' \in Seq(Resources) /\ Len(defers') = Len(defers) - 1
        /\ \A i \in 1 .. Len(defers) - 1 : defers'[i] = defers[i]
        /\ open' = open \ {defers[Len(defers)]} /\ pc = "return" /\ pc' = "return"
        /\ Len(defers) # 0
    BY <1>10 DEF RunDeferred
  <2> QED
    BY <2>1
<1>11. CASE Exit \/ Kill
  <2>1. CASE Exit
    <3>1. Len(defers) = 0 /\ pc = "return" /\ pc' = "exited" /\ UNCHANGED <<defers, open>>
      BY <2>1 DEF Exit
    <3> QED
      BY <3>1
  <2>2. CASE Kill
    BY <2>2 DEF Kill
  <2> QED
    BY <1>11, <2>1, <2>2
<1>12. CASE UNCHANGED process
  BY <1>12 DEF process
<1>13. (\E h \in Hooks : Arrive(h) \/ RecordDelivery(h) \/ EnqueueIngest(h))
         \/ (\E j \in Jobs : RunJob(j) \/ EndJob(j) \/ RecoverLease(j)) => UNCHANGED process
  BY DEF Arrive, RecordDelivery, EnqueueIngest, RunJob, EndJob, RecoverLease
<1> QED
  BY <1>1, <1>2, <1>3, <1>4, <1>5, <1>6, <1>7, <1>8, <1>9, <1>10, <1>11, <1>12, <1>13
     DEF Next, Booting, ShuttingDown
LEMMA PreparedStep == LifecycleInv /\ Next => Prepared'
<1> SUFFICES ASSUME LifecycleInv, Next PROVE Prepared'
  OBVIOUS
<1> USE DEF LifecycleInv, Prepared, AuthReady, Boot, Serving, stores, work, history
<1>1. ASSUME NEW m \in {"version", "migrate", "onboard", "serve"}, Start(m) PROVE Prepared'
  BY <1>1 DEF Start
<1>2. CASE Load
  <2>1. pc' = "telemetry" => AuthReady'
    BY <1>2, LoadedIsReady DEF Load, Passes, Fails, AuthDisabled
  <2> QED
    BY <1>2, <2>1 DEF Load, Passes, Fails
<1>3. CASE SetupTelemetry \/ Migrate \/ CheckGitHubCredentials
  BY <1>3 DEF SetupTelemetry, Migrate, CheckGitHubCredentials, Opens, Passes, Fails
<1>4. CASE NewPool \/ EnsureIndex \/ NewClient
  BY <1>4 DEF NewPool, EnsureIndex, NewClient, Opens, Passes, Fails
<1>5. CASE SeedInstallation \/ EnqueueOnboard \/ BuildAuthProviders
  BY <1>5 DEF SeedInstallation, EnqueueOnboard, BuildAuthProviders, Passes, Fails
<1>6. CASE NewSession \/ StartWorker \/ Signal \/ ServeError \/ DrainHTTP \/ DrainTimeout
  BY <1>6 DEF NewSession, StartWorker, Signal, ServeError, DrainHTTP, DrainTimeout, Opens, Passes, Fails
<1>7. CASE ShutdownWorker \/ CloseQueueClient \/ RunDeferred \/ Exit \/ Kill
  <2>1. pc' \notin Boot \cup Serving
    BY <1>7 DEF ShutdownWorker, CloseQueueClient, RunDeferred, Exit, Kill
  <2> QED
    BY <2>1
<1>8. CASE UNCHANGED <<process, stores>>
  BY <1>8 DEF process
<1>9. (\E h \in Hooks : Arrive(h) \/ RecordDelivery(h) \/ EnqueueIngest(h))
         \/ (\E j \in Jobs : RunJob(j) \/ EndJob(j) \/ RecoverLease(j)) => UNCHANGED <<process, stores>>
  BY DEF Arrive, RecordDelivery, EnqueueIngest, RunJob, EndJob, RecoverLease
<1> QED
  BY <1>1, <1>2, <1>3, <1>4, <1>5, <1>6, <1>7, <1>8, <1>9 DEF Next, Booting, ShuttingDown

\* What becomes of requests.
Requests == UnderWay /\ OrderlyShutdownLosesNothing

LEMMA RequestsStep == LifecycleInv /\ Next => Requests'
<1> SUFFICES ASSUME LifecycleInv, Next PROVE Requests'
  OBVIOUS
<1> USE LifecycleAssumption DEF LifecycleInv, Requests, UnderWay, OrderlyShutdownLosesNothing, Types
<1> USE DEF Boot, Serving, Ending, Down, stores, work, history
<1>1. ASSUME NEW m \in {"version", "migrate", "onboard", "serve"}, Start(m) PROVE Requests'
  BY <1>1 DEF Start
<1>2. CASE Load \/ SetupTelemetry \/ Migrate \/ CheckGitHubCredentials \/ NewPool \/ EnsureIndex
  BY <1>2 DEF Load, SetupTelemetry, Migrate, CheckGitHubCredentials, NewPool, EnsureIndex,
     Opens, Passes, Fails
<1>3. CASE NewClient \/ BuildAuthProviders \/ NewSession \/ StartWorker
  BY <1>3 DEF NewClient, BuildAuthProviders, NewSession, StartWorker, Opens, Passes, Fails
<1>4. CASE SeedInstallation \/ EnqueueOnboard
  BY <1>4 DEF SeedInstallation, EnqueueOnboard, Passes, Fails
<1>5. CASE Signal \/ ServeError \/ DrainHTTP \/ DrainTimeout
  BY <1>5 DEF Signal, ServeError, DrainHTTP, DrainTimeout, Passes, InFlight
<1>6. CASE ShutdownWorker \/ CloseQueueClient \/ RunDeferred
  BY <1>6 DEF ShutdownWorker, CloseQueueClient, RunDeferred
<1>7. CASE Exit \/ Kill
  BY <1>7 DEF Exit, Kill, Cut, InFlight
<1>8. ASSUME NEW h \in Hooks, Arrive(h) PROVE Requests'
  BY <1>8 DEF Arrive, process
<1>9. ASSUME NEW h \in Hooks, RecordDelivery(h) PROVE Requests'
  BY <1>9 DEF RecordDelivery, process
<1>10. ASSUME NEW h \in Hooks, EnqueueIngest(h) PROVE Requests'
  <2>1. hook[h] = "enqueue" /\ UNCHANGED <<process, stores, starts, history>>
    BY <1>10 DEF EnqueueIngest
  <2>2. CASE hook' = [hook EXCEPT ![h] = "ok"]
    BY <2>1, <2>2 DEF process
  <2>3. CASE hook' = [hook EXCEPT ![h] = "error"]
    BY <2>1, <2>3 DEF process
  <2>4. ASSUME "queue" \notin open PROVE starts \in rough
    BY <2>1, <2>4 DEF Held, Holds, Resources
  <2>5. CASE "queue" \notin open /\ hook' = [hook EXCEPT ![h] = "closed"]
    BY <2>1, <2>4, <2>5 DEF process
  <2> QED
    BY <1>10, <2>2, <2>3, <2>5 DEF EnqueueIngest
<1>11. ASSUME NEW j \in Jobs, RunJob(j) \/ EndJob(j) \/ RecoverLease(j) PROVE Requests'
  BY <1>11 DEF RunJob, EndJob, RecoverLease, process
<1> QED
  BY <1>1, <1>2, <1>3, <1>4, <1>5, <1>6, <1>7, <1>8, <1>9, <1>10, <1>11
     DEF Next, Booting, ShuttingDown

\* Every reachable state satisfies the inductive invariant.
LEMMA InductiveInvariant == Spec => []LifecycleInv
<1>1. LifecycleInv /\ UNCHANGED vars => LifecycleInv'
  BY DEF vars, process, stores, work, history, LifecycleInv, Types, Held, Holds, Deferred, Prepared,
     AuthReady, UnderWay, OrderlyShutdownLosesNothing
<1>2. LifecycleInv /\ [Next]_vars => LifecycleInv'
  BY <1>1, TypesStep, HeldStep, PreparedStep, RequestsStep DEF LifecycleInv, Requests
<1> QED
  BY <1>2, InitInv, PTL DEF Spec

-----------------------------------------------------------------------------
(***************************************************************************)
(* The theorems.                                                           *)
(***************************************************************************)
\* Every value keeps its type, and a deferred close is of something open and deferred once.
THEOREM TypeCorrect == Spec => []TypeOK
  BY InductiveInvariant, InvImplies, PTL

\* run (main.go) returns with everything closed, whichever step of whichever mode failed.
THEOREM EverythingIsReleased == Spec => []ReleasedAtExit
  BY InductiveInvariant, InvImplies, PTL

\* A process serves only with schema, index, all resources and a login that is off or
\* complete (runServer and validate).
THEOREM ServesWhenReady == Spec => []ServingIsReady
  BY InductiveInvariant, InvImplies, PTL

\* A shutdown that drains in time (serveWithWorker) loses no request that has recorded its
\* delivery, for any number of requests under way.
THEOREM OrderlyShutdown == Spec => []OrderlyShutdownLosesNothing
  BY InductiveInvariant, InvImplies, PTL
=============================================================================
