------------------------- MODULE PipelineFreshProofs ------------------------
(***************************************************************************)
(* Pipeline's FreshOrExcused for any repositories, installations and       *)
(* requests under way, and for any bounds.                                 *)
(*                                                                         *)
(* The property speaks of any trigger that is pending; what keeps it true  *)
(* is that the LAST one is: the one whose version is HEAD.  FreshInv       *)
(* follows that trigger from the delivery through the request that handles *)
(* it and the job it becomes to the row, which has to be of the            *)
(* installation that grants the repository now: a row of an earlier one is *)
(* about to be deleted.                                                    *)
(***************************************************************************)
EXTENDS PipelineProofs

Carries(d, r) == sent[d].kind \in Triggers /\ sent[d].ver[r] = head[r]

\* The last trigger is a delivery that nobody has recorded,
InDelivery(r) == \E d \in due : d \notin recorded /\ r \in sent[d].repos /\ Carries(d, r)

\* or a request has it and has not come to r yet,
InRequest(h, r) ==
  /\ pc[h] # "idle" /\ r \in Undone(h) /\ Carries(dlv[h], r)
  /\ pc[h] = "received" => dlv[h] \notin recorded

\* or a request has deleted r's job and is about to enqueue another.
InHand(h, r) == pc[h] = "reenqueue" /\ cur[h] = r /\ slot[r] = "free"

LastTrigger(r) == InDelivery(r) \/ \E h \in Handlers : InRequest(h, r) \/ InHand(h, r)

\* A job will commit HEAD for the installation that grants r.
RunWill(r) ==
  \/ slot[r] = "waiting"
  \/ run[r].phase = "started"
  \/ run[r].phase = "fetched" /\ run[r].ver = head[r] /\ payload[r] = granted[r]

FreshOwn(r) == row[r] # None /\ row[r].ver = head[r] /\ row[r].inst = granted[r]

Excused(r) == excused[r] >= head[r]

FreshOK(r) == granted[r] # None => FreshOwn(r) \/ LastTrigger(r) \/ RunWill(r) \/ Excused(r)

\* A run that replaces a row of the present installation is itself for that installation.
OwnRun(r) ==
  run[r].phase = "fetched" /\ row[r] # None /\ row[r].inst \in active => payload[r] \in active

\* Archiving a job excuses the triggers of the requests that are about to enqueue it.
ParkedOK(h) ==
  pc[h] = "reenqueue" /\ slot[cur[h]] = "parked" => excused[cur[h]] >= Event(h).ver[cur[h]]

FreshInv ==
  (\A r \in Repos : FreshOK(r) /\ OwnRun(r)) /\ (\A h \in Handlers : ParkedOK(h))
-----------------------------------------------------------------------------
LEMMA FreshImplies == BaseInv /\ FreshInv => FreshOrExcused
<1> SUFFICES ASSUME BaseInv, FreshInv, NEW r \in Repos, granted[r] # None, ~Excused(r)
             PROVE  Fresh(r) \/ TriggerPending(r) \/ RunPending(r)
  BY DEF FreshOrExcused, Excused
<1>1. head[r] \in Nat /\ excused[r] \in Nat /\ excused[r] < head[r]
  BY DEF BaseInv, TypeOK, HistoryOK, Excused
<1>2. FreshOwn(r) \/ LastTrigger(r) \/ RunWill(r)
  BY DEF FreshInv, FreshOK
<1>3. CASE InDelivery(r)
  BY <1>1, <1>3 DEF InDelivery, Carries, TriggerPending
<1>4. ASSUME NEW h \in Handlers, InRequest(h, r) PROVE TriggerPending(r)
  BY <1>4 DEF InRequest, Carries, TriggerPending, Event
<1>5. ASSUME NEW h \in Handlers, InHand(h, r) PROVE TriggerPending(r)
  BY <1>5 DEF InHand, TriggerPending, BaseInv, HandlerInv, Undone
<1> QED
  BY <1>2, <1>3, <1>4, <1>5 DEF LastTrigger, FreshOwn, Fresh, RunWill, RunPending

LEMMA FreshInit == Init => FreshInv
<1> SUFFICES ASSUME Init PROVE FreshInv
  OBVIOUS
<1>1. /\ \A r \in Repos : granted[r] = None /\ run[r].phase = "none"
      /\ \A h \in Handlers : pc[h] = "idle"
  BY DEF Init, NoRun
<1> QED
  BY <1>1 DEF FreshInv, FreshOK, OwnRun, ParkedOK

\* What the two sides of a step have in common.
LEMMA FreshFacts ==
  ASSUME BaseInv, Next
  PROVE  /\ RequestTypes /\ QueueTypes /\ TableTypes /\ GitHubTypes
         /\ \A r \in Repos : /\ head[r] \in Nat /\ head'[r] \in Nat /\ head[r] <= head'[r]
                             /\ excused[r] \in Nat /\ excused'[r] \in Nat /\ excused[r] <= excused'[r]
         /\ \A d \in Deliveries : sent'[d] = sent[d]
         /\ \A d \in Deliveries : \A r \in Repos : sent[d].ver[r] \in Nat
<1>1. /\ RequestTypes /\ QueueTypes /\ TableTypes /\ GitHubTypes
  BY TypeParts DEF BaseInv
<1>2. \A r \in Repos : /\ head[r] \in Nat /\ head'[r] \in Nat /\ head[r] <= head'[r]
                       /\ excused[r] \in Nat /\ excused'[r] \in Nat /\ excused[r] <= excused'[r]
  BY <1>1, GitHubStep, ExcusedStep DEF BaseInv, HistoryOK, GitHubTypes, WorldGrows, ExcusedGrows
<1>3. \A d \in Deliveries : sent'[d] = sent[d]
  BY GitHubStep DEF WorldGrows
<1>4. \A d \in Deliveries : \A r \in Repos : sent[d].ver[r] \in Nat
  <2> SUFFICES ASSUME NEW d \in Deliveries, NEW r \in Repos PROVE sent[d].ver[r] \in Nat
    OBVIOUS
  <2>1. sent[d] \in Delivery
    BY <1>1 DEF GitHubTypes, Deliveries
  <2> QED
    BY <2>1 DEF Delivery
<1> QED
  BY <1>1, <1>2, <1>3, <1>4
-----------------------------------------------------------------------------
(***************************************************************************)
(* A run never replaces a row of the present installation for another one. *)
(***************************************************************************)
LEMMA OwnRunStep == BaseInv /\ FreshInv /\ Next => \A r \in Repos : OwnRun(r)'
<1> SUFFICES ASSUME BaseInv, FreshInv, Next, NEW r \in Repos PROVE OwnRun(r)'
  OBVIOUS
<1>0. /\ OwnRun(r) /\ QueueTypes /\ TableTypes
      /\ row[r] # None => row[r].inst \in used
      /\ run[r].phase = "fetched" => slot[r] = "running"
  BY TypeParts DEF FreshInv, BaseInv, RunInv, RunOK, QueueTypes
<1>1. CASE GitHubEvent
  <2>1. UNCHANGED <<run, row, payload>>
    BY <1>1, GitHubEventSteps DEF BaseInv, Grows, EventRest, tables, queue
  <2>2. CASE active' \subseteq active
    <3>1. \A i, j \in active : i = j
      BY DEF BaseInv, GitHubInv
    <3> QED
      BY <1>0, <2>1, <2>2, <3>1 DEF OwnRun
  <2>3. ASSUME NEW i \in Installs, Install(i) PROVE OwnRun(r)'
    <3>1. i \notin used /\ active' = {i}
      BY <2>3 DEF Install
    <3> QED
      BY <1>0, <2>1, <3>1 DEF OwnRun
  <2>4. (\E i \in Installs : Install(i)) \/ active' \subseteq active
    BY <1>1 DEF GitHubEvent, Uninstall, AddRepo, RemoveRepo, Push
  <2> QED
    BY <2>2, <2>3, <2>4
<1>2. ASSUME NEW d \in Deliveries, Redeliver(d) \/ Lose(d) PROVE OwnRun(r)'
  BY <1>0, <1>2, DeliverySteps DEF world, tables, queue, OwnRun
<1>3. ASSUME NEW h \in Handlers, RequestStep(h) PROVE OwnRun(r)'
  <2>1. UNCHANGED <<run, active>>
    BY <1>3, RequestSteps DEF world
  <2>2. CASE row'[r] \in {row[r], None} /\ UNCHANGED payload
    BY <1>0, <2>1, <2>2 DEF OwnRun
  <2>3. CASE Record(h) \/ Done(h) \/ GetRepo(h) \/ HandlerFails(h) \/ UpsertInstallation(h)
    BY <2>2, <2>3 DEF Record, Done, GetRepo, HandlerFails, UpsertInstallation, tables, queue
  <2>4. CASE (\E q \in Repos : EnqueueIngest(h, q)) \/ Reenqueue(h)
    <3>1. UNCHANGED row /\ \/ UNCHANGED payload
                           \/ \E q \in Repos : SubmitJob(h, q)
      <4>1. pc[h] = "reenqueue" => cur[h] \in Repos
        BY DEF BaseInv, HandlerInv, TypeOK
      <4> QED
        BY <2>4, <4>1 DEF EnqueueIngest, Reenqueue, Coalesce, QueueRest, tables, queue
    <3>2. ASSUME NEW q \in Repos, SubmitJob(h, q) PROVE slot[r] = "running" => payload'[r] = payload[r]
      BY <1>0, <3>2 DEF SubmitJob, Slot!Submit, Slot!Move, QueueTypes
    <3> QED
      BY <1>0, <2>1, <2>2, <3>1, <3>2 DEF OwnRun
  <2>5. CASE ClearFinished(h)
    BY <2>2, <2>5 DEF ClearFinished, QueueRest, tables
  <2>6. CASE ListRepoIDs(h) \/ StartRemoval(h) \/ DeleteInstallation(h)
             \/ (\E q \in Repos : DeleteRepo(h, q)) \/ (\E x \in Ids : PurgeIndex(h, x))
    <3>1. row'[r] \in {row[r], None}
      BY <1>0, <2>6 DEF ListRepoIDs, StartRemoval, DeleteInstallation, DeleteRepo, PurgeIndex, TableTypes
    <3>2. UNCHANGED payload
      BY <2>6 DEF ListRepoIDs, StartRemoval, DeleteInstallation, DeleteRepo, PurgeIndex, OffboardRest, queue
    <3> QED
      BY <2>2, <3>1, <3>2
  <2>7. CASE \E d \in Deliveries : Receive(h, d)
    BY <2>2, <2>7 DEF Receive, tables, queue
  <2> QED
    BY <1>3, <2>3, <2>4, <2>5, <2>6, <2>7 DEF RequestStep, HandlerStep
<1>4. ASSUME NEW q \in Repos, JobStep(q) PROVE OwnRun(r)'
  <2>1. UNCHANGED <<payload, active>>
    BY <1>4, JobSteps DEF RunRest, github
  <2>2. \/ run'[r].phase = run[r].phase /\ UNCHANGED row
        \/ run'[r].phase # "fetched"
        \/ payload[r] \in active
        \/ r # q /\ run'[r] = run[r] /\ row'[r] = row[r]
    <3>1. CASE Reconcile(q)
      BY <1>0, <3>1 DEF Reconcile, QueueTypes, TableTypes, Run
    <3>2. CASE Fetch(q)
      BY <1>0, <3>2 DEF Fetch, QueueTypes, Run
    <3>3. CASE StartRun(q) \/ Readback(q)
      BY <1>0, <3>3 DEF StartRun, Readback, QueueTypes, Run
    <3>4. CASE IndexDocuments(q) \/ SyncFails(q) \/ RunFails(q) \/ ExpireArchived(q)
      BY <1>0, <3>4 DEF IndexDocuments, SyncFails, RunFails, ExpireArchived, EndRun, QueueTypes, NoRun
    <3> QED
      BY <1>4, <3>1, <3>2, <3>3, <3>4 DEF JobStep, RunStep
  <2> QED
    BY <1>0, <2>1, <2>2 DEF OwnRun
<1> QED
  BY <1>1, <1>2, <1>3, <1>4, NextSteps
-----------------------------------------------------------------------------
(***************************************************************************)
(* A job that is archived under a request excuses the request's trigger.   *)
(***************************************************************************)
LEMMA ParkedStep == BaseInv /\ FreshInv /\ Next => \A h \in Handlers : ParkedOK(h)'
<1> SUFFICES ASSUME BaseInv, FreshInv, Next, NEW h \in Handlers,
                    pc'[h] = "reenqueue", slot'[cur'[h]] = "parked"
             PROVE  excused'[cur'[h]] >= Event(h)'.ver[cur'[h]]
  BY DEF ParkedOK
<1>0. RequestTypes /\ QueueTypes /\ HandlerInv /\ ParkedOK(h)
  BY FreshFacts DEF FreshInv, BaseInv
<1>1. /\ pc[h] = "reenqueue" => dlv[h] \in Deliveries /\ cur[h] \in Repos
  BY <1>0 DEF HandlerInv, RequestTypes
<1>2. CASE pc[h] = "reenqueue" /\ cur'[h] = cur[h] /\ dlv'[h] = dlv[h] /\ slot[cur[h]] = "parked"
  <2>1. excused[cur[h]] >= sent[dlv[h]].ver[cur[h]] /\ sent'[dlv[h]] = sent[dlv[h]]
    BY <1>0, <1>1, <1>2, FreshFacts DEF ParkedOK, Event
  <2>2. excused[cur[h]] \in Nat /\ excused'[cur[h]] \in Nat /\ excused[cur[h]] <= excused'[cur[h]]
        /\ sent[dlv[h]].ver[cur[h]] \in Nat
    BY <1>1, <1>2, FreshFacts
  <2> QED
    BY <1>2, <2>1, <2>2 DEF Event
<1>3. CASE UNCHANGED <<pc, cur, dlv, slot>>
  BY <1>2, <1>3
<1>4. GitHubEvent => UNCHANGED <<pc, cur, dlv, slot>>
  BY GitHubEventSteps DEF BaseInv, Grows, EventRest, requests, queue
<1>5. ASSUME NEW d \in Deliveries, Redeliver(d) \/ Lose(d) PROVE UNCHANGED <<pc, cur, dlv, slot>>
  BY <1>5, DeliverySteps DEF requests, queue
<1>6. ASSUME NEW g \in Handlers, RequestStep(g), g # h
      PROVE  pc[h] = "reenqueue" /\ cur'[h] = cur[h] /\ dlv'[h] = dlv[h] /\ slot[cur[h]] = "parked"
  <2>1. pc'[h] = pc[h] /\ cur'[h] = cur[h] /\ dlv'[h] = dlv[h]
    <3> USE <1>0 DEF RequestTypes, Respond, Goto
    <3>1. CASE Record(g) \/ Done(g) \/ HandlerFails(g) \/ UpsertInstallation(g)
      BY <1>6, <3>1 DEF Record, RecordDelivery, Done, HandlerFails, UpsertInstallation
    <3>2. CASE GetRepo(g)
      BY <1>6, <3>2 DEF GetRepo
    <3>3. CASE (\E q \in Repos : EnqueueIngest(g, q)) \/ ClearFinished(g) \/ Reenqueue(g)
      BY <1>6, <3>3 DEF EnqueueIngest, ClearFinished, Reenqueue, QueueRest
    <3>4. CASE ListRepoIDs(g) \/ StartRemoval(g) \/ DeleteInstallation(g)
               \/ (\E q \in Repos : DeleteRepo(g, q)) \/ (\E x \in Ids : PurgeIndex(g, x))
      BY <1>6, <3>4 DEF ListRepoIDs, StartRemoval, DeleteInstallation, DeleteRepo, PurgeIndex, OffboardRest
    <3>5. CASE \E d \in Deliveries : Receive(g, d)
      BY <1>6, <3>5 DEF Receive
    <3> QED
      BY <1>6, <3>1, <3>2, <3>3, <3>4, <3>5 DEF RequestStep, HandlerStep
  <2>2. slot'[cur[h]] = "parked" => slot[cur[h]] = "parked"
    <3>0. cur[h] \in Repos
      BY <1>1, <2>1
    <3>1. UNCHANGED slot \/ \E q \in Repos : slot' = [slot EXCEPT ![q] = "waiting"] \/ slot' = [slot EXCEPT ![q] = "free"]
      <4>1. pc[g] \in {"clear", "reenqueue"} => cur[g] \in Repos
        BY <1>0 DEF HandlerInv, RequestTypes
      <4>2. CASE (\E q \in Repos : EnqueueIngest(g, q)) \/ ClearFinished(g) \/ Reenqueue(g)
        BY <4>1, <4>2 DEF EnqueueIngest, ClearFinished, Reenqueue, Coalesce, SubmitJob, queue, Slot!Submit,
           Slot!Clear, Slot!Move
      <4>3. CASE Record(g) \/ Done(g) \/ HandlerFails(g) \/ UpsertInstallation(g) \/ GetRepo(g)
        BY <4>3 DEF Record, Done, HandlerFails, UpsertInstallation, GetRepo, queue
      <4>4. CASE ListRepoIDs(g) \/ StartRemoval(g) \/ DeleteInstallation(g)
                 \/ (\E q \in Repos : DeleteRepo(g, q)) \/ (\E x \in Ids : PurgeIndex(g, x))
        BY <4>4 DEF ListRepoIDs, StartRemoval, DeleteInstallation, DeleteRepo, PurgeIndex, OffboardRest, queue
      <4>5. CASE \E d \in Deliveries : Receive(g, d)
        BY <4>5 DEF Receive, queue
      <4> QED
        BY <1>6, <4>2, <4>3, <4>4, <4>5 DEF RequestStep, HandlerStep
    <3> QED
      BY <1>0, <3>0, <3>1 DEF QueueTypes
  <2> QED
    BY <2>1, <2>2
<1>7. ~RequestStep(h)
  <2> SUFFICES ASSUME RequestStep(h) PROVE FALSE
    OBVIOUS
  <2> USE <1>0 DEF RequestTypes, Respond, Goto
  <2>1. CASE ClearFinished(h)
    <3>1. cur[h] \in Repos /\ cur' = cur
      BY <1>0, <2>1 DEF ClearFinished, HandlerInv
    <3>2. slot'[cur[h]] = "free"
      BY <1>0, <2>1, <3>1 DEF ClearFinished, Slot!Clear, Slot!Move, QueueTypes
    <3> QED
      BY <3>1, <3>2
  <2>2. CASE Record(h) \/ Done(h) \/ HandlerFails(h) \/ UpsertInstallation(h)
    BY <2>2 DEF Record, RecordDelivery, Done, HandlerFails, UpsertInstallation
  <2>3. CASE GetRepo(h)
    BY <2>3 DEF GetRepo
  <2>4. CASE (\E q \in Repos : EnqueueIngest(h, q)) \/ Reenqueue(h)
    BY <2>4 DEF EnqueueIngest, Reenqueue
  <2>5. CASE ListRepoIDs(h) \/ StartRemoval(h) \/ DeleteInstallation(h)
             \/ (\E q \in Repos : DeleteRepo(h, q)) \/ (\E x \in Ids : PurgeIndex(h, x))
    BY <2>5 DEF ListRepoIDs, StartRemoval, DeleteInstallation, DeleteRepo, PurgeIndex
  <2>6. CASE \E d \in Deliveries : Receive(h, d)
    BY <2>6 DEF Receive
  <2> QED
    BY <2>1, <2>2, <2>3, <2>4, <2>5, <2>6 DEF RequestStep, HandlerStep
<1>8. ASSUME NEW r \in Repos, JobStep(r) PROVE excused'[cur'[h]] >= Event(h)'.ver[cur'[h]]
  <2>1. UNCHANGED <<pc, cur, dlv, sent, head>>
    BY <1>8, JobSteps DEF RunRest, requests, github
  <2>2. \/ slot[cur[h]] = "parked"
        \/ RunFails(r) /\ cur[h] = r /\ excused' = [excused EXCEPT ![r] = head[r]]
    <3>0. cur[h] \in Repos
      BY <1>1, <2>1
    <3> USE <1>0, <3>0, <2>1 DEF QueueTypes, Slot!Move
    <3>1. CASE StartRun(r) \/ Fetch(r) \/ Reconcile(r) \/ Readback(r)
      BY <3>1 DEF StartRun, Fetch, Reconcile, Readback, Slot!Start
    <3>2. CASE IndexDocuments(r) \/ SyncFails(r) \/ ExpireArchived(r)
      BY <3>2 DEF IndexDocuments, SyncFails, ExpireArchived, Slot!Finish, Slot!Expire
    <3>3. CASE RunFails(r)
      BY <3>3 DEF RunFails, Slot!Again, Slot!Park
    <3> QED
      BY <1>8, <3>1, <3>2, <3>3 DEF JobStep, RunStep
  <2>3. CASE cur[h] = r /\ excused' = [excused EXCEPT ![r] = head[r]]
    <3>1. excused'[r] = head[r] /\ dlv[h] \in Deliveries
      BY <1>1, <2>1, <2>3 DEF BaseInv, HistoryOK
    <3>2. sent[dlv[h]].ver[r] <= head[r] /\ head[r] \in Nat /\ sent[dlv[h]].ver[r] \in Nat
      BY <3>1, FreshFacts DEF BaseInv, GitHubInv
    <3> QED
      BY <2>1, <2>3, <3>1, <3>2 DEF Event
  <2> QED
    BY <1>2, <2>1, <2>2, <2>3
<1> QED
  BY <1>3, <1>4, <1>5, <1>2, <1>6, <1>7, <1>8, NextSteps
-----------------------------------------------------------------------------
(***************************************************************************)
(* The last trigger.                                                       *)
(***************************************************************************)
\* The goal is one of the four.
Covered(r) == FreshOwn(r) \/ LastTrigger(r) \/ RunWill(r) \/ Excused(r)

\* Another repository's event, a redelivery, or no delivery at all.
LEMMA DeliveryFrame ==
  ASSUME BaseInv, Next, NEW r \in Repos, Covered(r), due \subseteq due',
         head'[r] = head[r], granted'[r] = granted[r],
         UNCHANGED <<recorded, row, requests, queue, run, excused>>
  PROVE  Covered(r)'
<1>0. /\ \A d \in Deliveries : sent'[d] = sent[d]
      /\ due \subseteq Deliveries
      /\ \A h \in Handlers : pc[h] # "idle" => dlv[h] \in Deliveries
  BY FreshFacts DEF BaseInv, HandlerInv, RequestTypes
<1>1. InDelivery(r) => InDelivery(r)'
  BY <1>0 DEF InDelivery, Carries
<1>2. ASSUME NEW h \in Handlers, InRequest(h, r) PROVE InRequest(h, r)'
  <2>1. sent'[dlv[h]] = sent[dlv[h]]
    BY <1>0, <1>2 DEF InRequest
  <2> QED
    BY <1>2, <2>1 DEF InRequest, Carries, Undone, Event, requests
<1>3. ASSUME NEW h \in Handlers, InHand(h, r) PROVE InHand(h, r)'
  BY <1>3 DEF InHand, requests, queue
<1>4. LastTrigger(r) => LastTrigger(r)'
  BY <1>1, <1>2, <1>3 DEF LastTrigger
<1> QED
  BY <1>4 DEF Covered, FreshOwn, RunWill, Excused, queue

\* A step of request h that leaves r's job and row alone, and what it does to the trigger
\* that h has in hand.
LEMMA RequestFrame ==
  ASSUME BaseInv, Next, NEW r \in Repos, NEW h \in Handlers, Covered(r),
         UNCHANGED <<sent, due, recorded, head, granted, run>>,
         slot'[r] = slot[r], payload'[r] = payload[r], row'[r] = row[r],
         \A g \in Handlers \ {h} : /\ pc'[g] = pc[g] /\ dlv'[g] = dlv[g]
                                   /\ todo'[g] = todo[g] /\ cur'[g] = cur[g],
         InRequest(h, r) => InRequest(h, r)' \/ Excused(r)' \/ RunWill(r),
         InHand(h, r) => InHand(h, r)' \/ Excused(r)'
  PROVE  Covered(r)'
<1>1. InDelivery(r) => InDelivery(r)'
  BY DEF InDelivery, Carries
<1>2. \A g \in Handlers \ {h} : InRequest(g, r) => InRequest(g, r)'
  BY DEF InRequest, Carries, Undone, Event
<1>3. \A g \in Handlers \ {h} : InHand(g, r) => InHand(g, r)'
  BY DEF InHand
<1>4. LastTrigger(r) => LastTrigger(r)' \/ Excused(r)' \/ RunWill(r)
  BY <1>1, <1>2, <1>3 DEF LastTrigger
<1>5. RunWill(r) => RunWill(r)'
  BY DEF RunWill
<1>6. Excused(r) => Excused(r)'
  BY FreshFacts DEF Excused
<1>7. FreshOwn(r) => FreshOwn(r)'
  BY DEF FreshOwn
<1> QED
  BY <1>4, <1>5, <1>6, <1>7 DEF Covered

\* A trigger that carries HEAD and is excused.
LEMMA ExcuseCarried ==
  ASSUME BaseInv, Next, NEW r \in Repos, NEW d \in Deliveries, NEW rs, r \in rs, Carries(d, r),
         excused' = Excusing(d, rs), UNCHANGED head
  PROVE  Excused(r)'
<1>1. sent[d].ver[r] = head[r] /\ sent[d].ver[r] <= Excusing(d, rs)[r]
  BY ExcusingBounds DEF Carries
<1>2. head[r] <= excused'[r] /\ excused'[r] \in Nat /\ head'[r] = head[r] /\ head[r] \in Nat
  BY <1>1, FreshFacts
<1> QED
  BY <1>2 DEF Excused

LEMMA EventKeepsFresh ==
  ASSUME BaseInv, FreshInv, Next, GitHubEvent, NEW r \in Repos, granted'[r] # None
  PROVE  Covered(r)'
<1> DEFINE n == Len(sent) + 1
<1>0. /\ GitHubTypes /\ RequestTypes /\ GitHubInv /\ Len(sent) \in Nat
      /\ granted[r] # None => Covered(r)
  <2>1. GitHubTypes /\ RequestTypes /\ GitHubInv
    BY FreshFacts DEF BaseInv
  <2>2. Len(sent) \in Nat
    BY <2>1 DEF GitHubTypes
  <2>3. granted[r] # None => Covered(r)
    BY DEF FreshInv, FreshOK, Covered
  <2> QED
    BY <2>1, <2>2, <2>3
<1>1. Sent(n) /\ UNCHANGED <<recorded, row, requests, queue, run, excused>>
  BY GitHubEventSteps DEF BaseInv, Grows, EventRest, tables
<1>2. n \in due' /\ n \notin recorded' /\ due \subseteq due' /\ sent'[n].ver = head'
  BY <1>0, <1>1 DEF Sent, RequestTypes, Deliveries
<1> HIDE DEF n
<1>3. CASE sent'[n].kind \in Triggers /\ r \in sent'[n].repos
  <2>1. InDelivery(r)'
    BY <1>2, <1>3 DEF InDelivery, Carries
  <2> QED
    BY <2>1 DEF Covered, LastTrigger
<1>4. CASE head'[r] = head[r] /\ granted'[r] = granted[r]
  BY <1>0, <1>1, <1>2, <1>4, DeliveryFrame
<1> USE DEF n, Kinds, Triggers
<1>5. ASSUME NEW i \in Installs, Install(i) PROVE Covered(r)'
  <2>1. PICK rs \in SUBSET Repos : Grant(rs, i) /\ UNCHANGED head /\ Send("created", i, rs)
    BY <1>5 DEF Install
  <2>2. active = {}
    BY <1>5 DEF Install
  <2>3. granted[r] = None
    BY <1>0, <2>2 DEF GitHubInv
  <2>4. r \in rs
    BY <2>1, <2>3 DEF Grant
  <2>5. sent'[n].kind = "created" /\ sent'[n].repos = rs
    BY <1>0, <2>1, Sending DEF BaseInv, GitHubTypes
  <2> QED
    BY <1>3, <2>4, <2>5
<1>6. ASSUME NEW i \in Installs, Uninstall(i) PROVE Covered(r)'
  <2>1. i \in active /\ Grant({q \in Repos : granted[q] = i}, None)
    BY <1>6 DEF Uninstall
  <2>2. granted[r] # None => granted[r] = i
    BY <1>0, <2>1 DEF GitHubInv
  <2> QED
    BY <2>1, <2>2 DEF Grant
<1>7. ASSUME NEW i \in Installs, NEW q \in Repos, AddRepo(i, q) PROVE Covered(r)'
  <2>1. Grant({q}, i) /\ UNCHANGED head /\ Send("added", i, {q})
    BY <1>7 DEF AddRepo
  <2>2. sent'[n].kind = "added" /\ sent'[n].repos = {q}
    BY <1>0, <2>1, Sending DEF BaseInv, GitHubTypes
  <2>3. r # q => granted'[r] = granted[r]
    BY <2>1 DEF Grant
  <2> QED
    BY <1>3, <1>4, <2>1, <2>2, <2>3
<1>8. ASSUME NEW q \in Repos, RemoveRepo(q) PROVE Covered(r)'
  <2>1. Grant({q}, None) /\ UNCHANGED head
    BY <1>8 DEF RemoveRepo
  <2>2. granted'[r] = granted[r]
    BY <2>1 DEF Grant
  <2> QED
    BY <1>4, <2>1, <2>2
<1>9. ASSUME NEW q \in Repos, Push(q) PROVE Covered(r)'
  <2>1. /\ head' = [head EXCEPT ![q] = @ + 1] /\ head[q] < MaxHead /\ granted[q] # None
        /\ UNCHANGED granted /\ Send("push", granted[q], {q})
    BY <1>9 DEF Push
  <2>2. head' \in [Repos -> 1 .. MaxHead] /\ granted[q] \in Installs
    BY <1>0, <2>1, PipelineAssumption DEF GitHubTypes
  <2>3. sent'[n].kind = "push" /\ sent'[n].repos = {q}
    BY <2>1, <2>2, Sending DEF BaseInv
  <2>4. r # q => head'[r] = head[r]
    BY <1>0, <2>1 DEF GitHubTypes
  <2> QED
    BY <1>3, <1>4, <2>1, <2>3, <2>4
<1> QED
  BY <1>5, <1>6, <1>7, <1>8, <1>9 DEF GitHubEvent

LEMMA DeliveryKeepsFresh ==
  ASSUME BaseInv, Next, NEW e \in Deliveries, Redeliver(e) \/ Lose(e), NEW r \in Repos, Covered(r)
  PROVE  Covered(r)'
<1>1. UNCHANGED <<sent, head, granted, recorded, row, requests, queue, run>>
  BY DeliverySteps DEF world, tables
<1>2. CASE Redeliver(e)
  <2>1. due \subseteq due' /\ UNCHANGED excused
    BY <1>2 DEF Redeliver, history
  <2> QED
    BY <1>1, <2>1, DeliveryFrame
<1>3. CASE Lose(e)
  <2>1. due' = due \ {e} /\ excused' = Excusing(e, sent[e].repos)
    BY <1>3 DEF Lose, Excuse
  <2>2. InDelivery(r) => InDelivery(r)' \/ Excused(r)'
    <3> SUFFICES ASSUME NEW d \in due, d \notin recorded, r \in sent[d].repos, Carries(d, r)
                 PROVE  InDelivery(r)' \/ Excused(r)'
      BY DEF InDelivery
    <3>1. CASE d = e
      BY <1>1, <2>1, <3>1, ExcuseCarried
    <3>2. CASE d # e
      BY <1>1, <2>1, <3>2 DEF InDelivery, Carries
    <3> QED
      BY <3>1, <3>2
  <2>3. \A h \in Handlers : /\ InRequest(h, r) => InRequest(h, r)'
                            /\ InHand(h, r) => InHand(h, r)'
    BY <1>1 DEF InRequest, InHand, Carries, Undone, Event, requests, queue
  <2>4. Excused(r) => Excused(r)'
    BY <1>1, FreshFacts DEF Excused
  <2> QED
    BY <1>1, <2>2, <2>3, <2>4 DEF Covered, LastTrigger, FreshOwn, RunWill, queue
<1> QED
  BY <1>2, <1>3

\* A request that takes a delivery in, records it or fails.
LEMMA IntakeKeepsFresh ==
  ASSUME BaseInv, Next, NEW h \in Handlers, NEW r \in Repos, Covered(r),
         (\E d \in Deliveries : Receive(h, d)) \/ Record(h) \/ HandlerFails(h), RequestStep(h)
  PROVE  Covered(r)'
<1>0. /\ RequestTypes /\ QueueTypes /\ due \subseteq Deliveries
      /\ UNCHANGED <<sent, head, granted, run>>
      /\ Excused(r) => Excused(r)'
  <2>1. RequestTypes /\ QueueTypes /\ due \subseteq Deliveries /\ UNCHANGED <<sent, head, granted, run>>
    BY FreshFacts, RequestSteps DEF world, RequestTypes
  <2> QED
    BY <2>1, FreshFacts DEF Excused
<1> DEFINE Done1 == InDelivery(r)' \/ (\E g \in Handlers : InRequest(g, r)' \/ InHand(g, r)') \/ Excused(r)'
<1>a. ASSUME UNCHANGED <<row, queue>>, LastTrigger(r) => Done1 PROVE Covered(r)'
  <2>1. RunWill(r) => RunWill(r)'
    BY <1>0, <1>a DEF RunWill, queue
  <2>2. FreshOwn(r) => FreshOwn(r)'
    BY <1>0, <1>a DEF FreshOwn
  <2> QED
    BY <1>0, <1>a, <2>1, <2>2 DEF Covered, LastTrigger
<1> USE DEF InDelivery, InRequest, InHand, Carries, Undone, Event
<1>1. ASSUME NEW e \in Deliveries, Receive(h, e) PROVE Covered(r)'
  <2>1. /\ pc[h] = "idle" /\ due' = due \ {e} /\ UNCHANGED <<recorded, row, queue, todo, cur>>
        /\ pc'[h] = "received" /\ dlv'[h] = e
        /\ \A g \in Handlers \ {h} : pc'[g] = pc[g] /\ dlv'[g] = dlv[g]
    BY <1>0, <1>1 DEF Receive, Goto, tables, RequestTypes
  <2>2. InDelivery(r) => Done1
    BY <1>0, <2>1
  <2>3. ASSUME NEW g \in Handlers, InRequest(g, r) \/ InHand(g, r) PROVE Done1
    <3>1. g # h
      BY <2>1, <2>3
    <3> QED
      BY <1>0, <2>1, <2>3, <3>1 DEF queue
  <2> QED
    BY <1>a, <2>1, <2>2, <2>3 DEF LastTrigger
<1>2. CASE Record(h)
  <2>0. pc[h] = "received" /\ UNCHANGED <<due, row, queue>>
    BY <1>2 DEF Record, github
  <2>1. CASE /\ dlv[h] \notin recorded /\ recorded' = recorded \cup {dlv[h]}
             /\ Goto(h, "route") /\ UNCHANGED <<dlv, todo, ids, cur>>
    <3>1. pc'[h] = "route" /\ \A g \in Handlers \ {h} : pc'[g] = pc[g]
      BY <1>0, <2>1 DEF Goto, RequestTypes
    <3>2. ASSUME r \in sent[dlv[h]].repos, Carries(dlv[h], r) PROVE InRequest(h, r)'
      BY <1>0, <2>1, <3>1, <3>2
    <3>3. InDelivery(r) => Done1
      BY <1>0, <2>0, <2>1, <3>2
    <3>4. ASSUME NEW g \in Handlers, InRequest(g, r) PROVE Done1
      <4>1. CASE g = h \/ (dlv[g] = dlv[h] /\ pc[g] = "received")
        BY <2>0, <3>2, <3>4, <4>1
      <4>2. CASE g # h /\ ~(dlv[g] = dlv[h] /\ pc[g] = "received")
        BY <1>0, <2>0, <2>1, <3>1, <3>4, <4>2
      <4> QED
        BY <4>1, <4>2
    <3>5. ASSUME NEW g \in Handlers, InHand(g, r) PROVE Done1
      BY <2>0, <2>1, <3>1, <3>5 DEF queue
    <3> QED
      BY <1>a, <2>0, <3>3, <3>4, <3>5 DEF LastTrigger
  <2>2. CASE dlv[h] \in recorded /\ Respond(h) /\ UNCHANGED recorded
    <3>1. \A g \in Handlers \ {h} : pc'[g] = pc[g] /\ dlv'[g] = dlv[g] /\ todo'[g] = todo[g] /\ cur'[g] = cur[g]
      BY <1>0, <2>2 DEF Respond, Goto, RequestTypes
    <3>2. ~InRequest(h, r) /\ ~InHand(h, r)
      BY <2>0, <2>2
    <3>3. slot' = slot /\ payload' = payload
      BY <2>0 DEF queue
    <3> QED
      BY <1>0, <2>0, <2>2, <3>1, <3>2, <3>3, RequestFrame
  <2> QED
    BY <1>2, <2>1, <2>2 DEF Record, RecordDelivery
<1>3. CASE HandlerFails(h)
  <2>0. /\ pc[h] # "idle" /\ UNCHANGED <<due, row, queue>> /\ Respond(h)
        /\ recorded' = recorded \/ (pc[h] = "received" /\ recorded' = recorded \cup {dlv[h]})
        /\ excused' = IF pc[h] = "reenqueue" /\ slot[cur[h]] = "free"
                      THEN [Excusing(dlv[h], Undone(h)) EXCEPT ![cur[h]] = head[cur[h]]]
                      ELSE Excusing(dlv[h], Undone(h))
    BY <1>3 DEF HandlerFails, github
  <2>1. \A g \in Handlers \ {h} : pc'[g] = pc[g] /\ dlv'[g] = dlv[g] /\ todo'[g] = todo[g] /\ cur'[g] = cur[g]
    BY <1>0, <2>0 DEF Respond, Goto, RequestTypes
  <2>2. dlv[h] \in Deliveries /\ Excusing(dlv[h], Undone(h)) \in [Repos -> Nat]
    BY <2>0, ExcusingBounds DEF BaseInv, HandlerInv
  <2>3. InHand(h, r) => Excused(r)'
    <3> SUFFICES ASSUME InHand(h, r) PROVE Excused(r)'
      OBVIOUS
    <3>1. excused'[r] = head[r]
      BY <2>0, <2>2
    <3> QED
      BY <1>0, <3>1, FreshFacts DEF Excused
  <2>4. ASSUME r \in Undone(h), Carries(dlv[h], r) PROVE Excused(r)'
    <3>1. CASE pc[h] = "reenqueue" /\ slot[cur[h]] = "free"
      <4>1. sent[dlv[h]].ver[r] <= Excusing(dlv[h], Undone(h))[r] /\ sent[dlv[h]].ver[r] = head[r]
        BY <2>2, <2>4, ExcusingBounds
      <4>2. excused'[r] = head[r] \/ excused'[r] = Excusing(dlv[h], Undone(h))[r]
        BY <2>0, <2>2, <3>1
      <4> QED
        BY <1>0, <2>2, <4>1, <4>2, FreshFacts DEF Excused
    <3>2. CASE ~(pc[h] = "reenqueue" /\ slot[cur[h]] = "free")
      BY <1>0, <2>0, <2>2, <2>4, <3>2, ExcuseCarried
    <3> QED
      BY <3>1, <3>2
  <2>5. InDelivery(r) => Done1
    <3> SUFFICES ASSUME NEW d \in due, d \notin recorded, r \in sent[d].repos, Carries(d, r) PROVE Done1
      OBVIOUS
    <3>1. CASE recorded' = recorded \/ d # dlv[h]
      BY <1>0, <2>0, <3>1
    <3>2. CASE pc[h] = "received" /\ d = dlv[h]
      BY <2>4, <3>2
    <3> QED
      BY <2>0, <3>1, <3>2
  <2>6. ASSUME NEW g \in Handlers, InRequest(g, r) PROVE Done1
    <3>1. CASE g = h
      BY <2>4, <2>6, <3>1
    <3>2. CASE g # h /\ pc[g] = "received" /\ dlv[g] = dlv[h] /\ pc[h] = "received"
      BY <2>4, <2>6, <3>2
    <3>3. CASE g # h /\ ~(pc[g] = "received" /\ dlv[g] = dlv[h] /\ pc[h] = "received")
      BY <1>0, <2>0, <2>1, <2>6, <3>3
    <3> QED
      BY <3>1, <3>2, <3>3
  <2>7. ASSUME NEW g \in Handlers, InHand(g, r) PROVE Done1
    <3>1. CASE g = h
      BY <2>3, <2>7, <3>1
    <3>2. CASE g # h
      BY <2>0, <2>1, <2>7, <3>2 DEF queue
    <3> QED
      BY <3>1, <3>2
  <2> QED
    BY <1>a, <2>0, <2>5, <2>6, <2>7 DEF LastTrigger
<1> QED
  BY <1>1, <1>2, <1>3

\* What every other step of a request leaves alone.
LEMMA WorkSteps ==
  ASSUME BaseInv, Next, NEW h \in Handlers, RequestStep(h),
         ~((\E d \in Deliveries : Receive(h, d)) \/ Record(h) \/ HandlerFails(h))
  PROVE  /\ UNCHANGED <<sent, head, granted, run, due, recorded>>
         /\ \A g \in Handlers \ {h} : /\ pc'[g] = pc[g] /\ dlv'[g] = dlv[g]
                                      /\ todo'[g] = todo[g] /\ cur'[g] = cur[g]
         /\ HandlerStep(h) /\ dlv[h] \in Deliveries
<1>0. RequestTypes /\ UNCHANGED <<sent, head, granted, run>>
  BY FreshFacts, RequestSteps DEF world
<1>1. HandlerStep(h) /\ dlv[h] \in Deliveries
  BY AtWork DEF RequestStep
<1> DEFINE Rest == /\ UNCHANGED <<due, recorded>>
                   /\ \A g \in Handlers \ {h} : /\ pc'[g] = pc[g] /\ dlv'[g] = dlv[g]
                                                /\ todo'[g] = todo[g] /\ cur'[g] = cur[g]
<1> SUFFICES Rest
  BY <1>0, <1>1
<1> USE <1>0 DEF RequestTypes, Respond, Goto, github, tables
<1>2. CASE UpsertInstallation(h) \/ Done(h)
  BY <1>2 DEF UpsertInstallation, Done
<1>3. CASE GetRepo(h)
  BY <1>3 DEF GetRepo
<1>4. CASE \E r \in Repos : EnqueueIngest(h, r)
  BY <1>4 DEF EnqueueIngest, SubmitJob, Coalesce, Enqueued, QueueRest
<1>5. CASE ClearFinished(h) \/ Reenqueue(h)
  BY <1>5 DEF ClearFinished, Reenqueue, SubmitJob, Coalesce, Enqueued, QueueRest
<1>6. CASE ListRepoIDs(h) \/ StartRemoval(h) \/ DeleteInstallation(h)
  BY <1>6 DEF ListRepoIDs, StartRemoval, DeleteInstallation, OffboardRest
<1>7. CASE (\E r \in Repos : DeleteRepo(h, r)) \/ (\E x \in Ids : PurgeIndex(h, x))
  BY <1>7 DEF DeleteRepo, PurgeIndex, OffboardRest
<1> QED
  BY <1>1, <1>2, <1>3, <1>4, <1>5, <1>6, <1>7 DEF HandlerStep

\* EnqueueIngest's answers for the repository itself: a job is waiting or will read HEAD,
\* or the trigger is excused.
LEMMA EnqueueCovers ==
  ASSUME BaseInv, Next, NEW h \in Handlers, NEW r \in Repos, dlv[h] \in Deliveries,
         UNCHANGED <<head, run>>,
         Coalesce(h, r) \/ Excuse(dlv[h], {r}) \/ (UNCHANGED excused /\ excused[r] >= sent[dlv[h]].ver[r]),
         Carries(dlv[h], r)
  PROVE  Excused(r)' \/ RunWill(r)
<1>0. QueueTypes /\ head'[r] = head[r]
  BY FreshFacts
<1>1. CASE Excuse(dlv[h], {r})
  BY <1>1, ExcuseCarried DEF Excuse
<1>2. CASE Coalesce(h, r)
  <2>1. CASE run[r].phase \in {"none", "started"}
    BY <1>0, <1>2, <2>1 DEF Coalesce, RunWill, QueueTypes
  <2>2. CASE run[r].phase \notin {"none", "started"}
    BY <1>1, <1>2, <2>2 DEF Coalesce
  <2> QED
    BY <2>1, <2>2
<1>3. CASE UNCHANGED excused /\ excused[r] >= sent[dlv[h]].ver[r]
  BY <1>0, <1>3 DEF Excused, Carries
<1> QED
  BY <1>1, <1>2, <1>3

LEMMA WorkKeepsFresh ==
  ASSUME BaseInv, FreshInv, Next, NEW h \in Handlers, NEW r \in Repos, granted[r] # None, RequestStep(h),
         ~((\E d \in Deliveries : Receive(h, d)) \/ Record(h) \/ HandlerFails(h))
  PROVE  Covered(r)'
<1>0. /\ UNCHANGED <<sent, head, granted, run, due, recorded>>
      /\ \A g \in Handlers \ {h} : /\ pc'[g] = pc[g] /\ dlv'[g] = dlv[g]
                                   /\ todo'[g] = todo[g] /\ cur'[g] = cur[g]
      /\ HandlerStep(h) /\ dlv[h] \in Deliveries
  BY WorkSteps
<1>a. RequestTypes /\ QueueTypes /\ TableTypes /\ HandlerInv /\ GitHubInv /\ Covered(r) /\ ParkedOK(h)
  BY FreshFacts DEF BaseInv, FreshInv, FreshOK, Covered
<1>b. ASSUME slot'[r] = slot[r], payload'[r] = payload[r], row'[r] = row[r],
             InRequest(h, r) => InRequest(h, r)' \/ Excused(r)' \/ RunWill(r),
             InHand(h, r) => InHand(h, r)' \/ Excused(r)'
      PROVE  Covered(r)'
  BY <1>0, <1>a, <1>b, RequestFrame
<1>c. RunWill(r)' => Covered(r)'
  BY DEF Covered
<1>1. CASE UpsertInstallation(h)
  <2>1. /\ pc[h] = "route" /\ pc'[h] = "enqueue" /\ todo'[h] = Event(h).repos /\ dlv'[h] = dlv[h]
        /\ UNCHANGED <<slot, payload, row>>
    BY <1>a, <1>1 DEF UpsertInstallation, Goto, RequestTypes, queue
  <2>2. InRequest(h, r) => InRequest(h, r)'
    BY <1>0, <2>1 DEF InRequest, Undone, Event, Carries
  <2>3. ~InHand(h, r)
    BY <2>1 DEF InHand
  <2> QED
    BY <1>b, <2>1, <2>2, <2>3
<1>2. CASE GetRepo(h)
  <2>1. pc[h] = "route" /\ UNCHANGED <<slot, payload, row>> /\ Event(h).kind = "push"
    BY <1>2 DEF GetRepo, queue, tables
  <2>2. PICK q \in Event(h).repos :
          \/ Excuse(dlv[h], {q})
          \/ todo' = [todo EXCEPT ![h] = {q}] /\ Goto(h, "enqueue") /\ UNCHANGED dlv
    BY <1>2 DEF GetRepo
  <2>3. r \in Event(h).repos => r = q
    BY <1>0, <1>a, <2>1 DEF GitHubInv, Event
  <2>4. ~InHand(h, r)
    BY <2>1 DEF InHand
  <2>5. ASSUME InRequest(h, r) PROVE InRequest(h, r)' \/ Excused(r)'
    <3>1. r = q /\ Carries(dlv[h], r)
      BY <2>1, <2>3, <2>5 DEF InRequest, Undone
    <3>2. CASE Excuse(dlv[h], {q})
      BY <1>0, <3>1, <3>2, ExcuseCarried DEF Excuse
    <3>3. CASE todo' = [todo EXCEPT ![h] = {q}] /\ Goto(h, "enqueue") /\ UNCHANGED dlv
      <4>1. pc'[h] = "enqueue" /\ todo'[h] = {q} /\ dlv'[h] = dlv[h]
        BY <1>a, <3>3 DEF Goto, RequestTypes
      <4> QED
        BY <1>0, <3>1, <4>1 DEF InRequest, Undone, Carries
    <3> QED
      BY <2>2, <3>2, <3>3
  <2> QED
    BY <1>b, <2>1, <2>4, <2>5
<1>3. ASSUME NEW q \in Repos, EnqueueIngest(h, q) PROVE Covered(r)'
  <2>0. pc[h] = "enqueue" /\ q \in todo[h] /\ dlv' = dlv /\ row' = row
    BY <1>3 DEF EnqueueIngest, QueueRest, tables
  <2>1. ~InHand(h, r) /\ (InRequest(h, r) => r \in todo[h] /\ Carries(dlv[h], r))
    BY <2>0 DEF InHand, InRequest, Undone
  <2>2. ASSUME Enqueued(h, q), UNCHANGED pc, r # q, InRequest(h, r) PROVE InRequest(h, r)'
    <3>1. r \in todo'[h]
      BY <1>a, <2>1, <2>2 DEF Enqueued, RequestTypes
    <3> QED
      BY <1>0, <2>0, <2>1, <2>2, <3>1 DEF InRequest, Undone, Carries
  <2>3. CASE SubmitJob(h, q) /\ UNCHANGED <<pc, cur, excused>>
    <3>1. CASE r = q
      BY <1>a, <1>c, <2>3, <3>1 DEF SubmitJob, Slot!Submit, Slot!Move, RunWill, QueueTypes
    <3>2. CASE r # q
      <4>1. slot'[r] = slot[r] /\ payload'[r] = payload[r] /\ Enqueued(h, q)
        BY <1>a, <2>3, <3>2 DEF SubmitJob, Slot!Submit, Slot!Move, QueueTypes
      <4> QED
        BY <1>b, <2>0, <2>1, <2>2, <2>3, <3>2, <4>1
    <3> QED
      BY <3>1, <3>2
  <2>4. CASE /\ Coalesce(h, q) \/ Excuse(dlv[h], {q})
             /\ Enqueued(h, q) /\ UNCHANGED <<pc, cur, queue>>
    <3>1. slot' = slot /\ payload' = payload
      BY <2>4 DEF queue
    <3>2. InRequest(h, r) => InRequest(h, r)' \/ Excused(r)' \/ RunWill(r)
      BY <1>0, <2>1, <2>2, <2>4, EnqueueCovers
    <3> QED
      BY <1>b, <2>0, <2>1, <3>1, <3>2
  <2>5. CASE Goto(h, "clear") /\ UNCHANGED <<todo, queue, excused>>
    <3>1. slot' = slot /\ payload' = payload /\ pc'[h] = "clear"
      BY <1>a, <2>5 DEF queue, Goto, RequestTypes
    <3>2. InRequest(h, r) => InRequest(h, r)'
      BY <1>0, <2>0, <2>1, <2>5, <3>1 DEF InRequest, Undone, Carries
    <3> QED
      BY <1>b, <2>0, <2>1, <3>1, <3>2
  <2> QED
    BY <1>3, <2>3, <2>4, <2>5 DEF EnqueueIngest, Coalesce
<1>4. CASE ClearFinished(h)
  <2>0. /\ pc[h] = "clear" /\ pc'[h] = "reenqueue" /\ dlv' = dlv /\ row' = row
        /\ UNCHANGED <<todo, cur, payload, excused>> /\ cur[h] \in Repos
    BY <1>a, <1>4 DEF ClearFinished, QueueRest, tables, Goto, RequestTypes, HandlerInv
  <2>1. slot' = [slot EXCEPT ![cur[h]] = "free"]
    BY <1>a, <1>4 DEF ClearFinished, Slot!Clear, Slot!Move, QueueTypes
  <2>2. CASE r = cur[h]
    <3>1. InHand(h, r)'
      BY <1>a, <2>0, <2>1, <2>2 DEF InHand, QueueTypes
    <3> QED
      BY <3>1 DEF Covered, LastTrigger
  <2>3. CASE r # cur[h]
    <3>1. slot'[r] = slot[r]
      BY <1>a, <2>1, <2>3 DEF QueueTypes
    <3>2. InRequest(h, r) => InRequest(h, r)'
      BY <1>0, <2>0 DEF InRequest, Undone, Carries
    <3>3. ~InHand(h, r)
      BY <2>0 DEF InHand
    <3> QED
      BY <1>b, <2>0, <3>1, <3>2, <3>3
  <2> QED
    BY <2>2, <2>3
<1>5. CASE Reenqueue(h)
  <2> DEFINE q == cur[h]
  <2>0. /\ pc[h] = "reenqueue" /\ pc'[h] = "enqueue" /\ dlv' = dlv /\ row' = row /\ q \in Repos
        /\ Enqueued(h, q)
    BY <1>a, <1>5 DEF Reenqueue, SubmitJob, Coalesce, QueueRest, tables, Goto, RequestTypes, HandlerInv
  <2>1. InRequest(h, r) => r \in todo[h] /\ Carries(dlv[h], r)
    BY <2>0 DEF InRequest, Undone
  <2>2. ASSUME r # q, InRequest(h, r) PROVE InRequest(h, r)'
    <3>1. r \in todo'[h]
      BY <1>a, <2>0, <2>1, <2>2 DEF Enqueued, RequestTypes
    <3> QED
      BY <1>0, <2>0, <2>1, <2>2, <3>1 DEF InRequest, Undone, Carries
  <2>3. CASE SubmitJob(h, q)
    <3>1. CASE r = q
      BY <1>a, <1>c, <2>3, <3>1 DEF SubmitJob, Slot!Submit, Slot!Move, RunWill, QueueTypes
    <3>2. CASE r # q
      <4>1. slot'[r] = slot[r] /\ payload'[r] = payload[r] /\ ~InHand(h, r)
        BY <1>a, <2>3, <3>2 DEF SubmitJob, Slot!Submit, Slot!Move, QueueTypes, InHand
      <4> QED
        BY <1>b, <2>0, <2>2, <3>2, <4>1
    <3> QED
      BY <3>1, <3>2
  <2>4. CASE Coalesce(h, q) \/ (slot[q] = "parked" /\ UNCHANGED <<queue, excused>>)
    <3>1. slot' = slot /\ payload' = payload /\ slot[q] # "free"
      BY <2>4 DEF queue, Coalesce
    <3>2. ~InHand(h, r)
      BY <3>1 DEF InHand
    <3>3. slot[q] = "parked" => excused[q] >= sent[dlv[h]].ver[q]
      BY <1>a, <2>0 DEF ParkedOK, Event
    <3>4. InRequest(h, r) => InRequest(h, r)' \/ Excused(r)' \/ RunWill(r)
      BY <1>0, <2>1, <2>2, <2>4, <3>3, EnqueueCovers
    <3> QED
      BY <1>b, <2>0, <3>1, <3>2, <3>4
  <2> QED
    BY <1>5, <2>3, <2>4 DEF Reenqueue
<1>6. CASE ListRepoIDs(h) \/ StartRemoval(h)
  <2>1. UNCHANGED <<slot, payload, row>> /\ pc[h] = "route" /\ Event(h).kind \notin Triggers
    BY <1>6 DEF ListRepoIDs, StartRemoval, OffboardRest, queue, Triggers
  <2>2. ~InRequest(h, r) /\ ~InHand(h, r)
    BY <2>1 DEF InRequest, InHand, Carries, Event
  <2> QED
    BY <1>b, <2>1, <2>2
<1>7. CASE DeleteInstallation(h)
  <2>1. /\ UNCHANGED <<slot, payload>> /\ pc[h] = "uninstall"
        /\ row'[r] = IF row[r] # None /\ row[r].inst = Event(h).inst THEN None ELSE row[r]
    BY <1>7 DEF DeleteInstallation, OffboardRest, queue
  <2>2. Event(h).inst \notin active /\ Event(h).kind = "deleted" /\ granted[r] \in active
    BY <1>0, <1>a, <2>1 DEF HandlerInv, GitHubInv, Event
  <2>3. ~InRequest(h, r) /\ ~InHand(h, r)
    BY <2>1, <2>2 DEF InRequest, InHand, Carries, Event, Triggers
  <2>4. CASE row'[r] = row[r]
    BY <1>b, <2>1, <2>3, <2>4
  <2>5. CASE row'[r] # row[r]
    <3>1. ~FreshOwn(r)
      BY <2>1, <2>2, <2>5 DEF FreshOwn
    <3>2. LastTrigger(r) => LastTrigger(r)'
      <4>1. InDelivery(r) => InDelivery(r)'
        BY <1>0 DEF InDelivery, Carries
      <4>2. \A g \in Handlers \ {h} : /\ InRequest(g, r) => InRequest(g, r)'
                                      /\ InHand(g, r) => InHand(g, r)'
        BY <1>0, <2>1 DEF InRequest, InHand, Carries, Undone, Event
      <4> QED
        BY <2>3, <4>1, <4>2 DEF LastTrigger
    <3>3. RunWill(r) => RunWill(r)'
      BY <1>0, <2>1 DEF RunWill
    <3>4. Excused(r) => Excused(r)'
      BY <1>0, FreshFacts DEF Excused
    <3> QED
      BY <1>a, <3>1, <3>2, <3>3, <3>4 DEF Covered
  <2> QED
    BY <2>4, <2>5
<1>8. ASSUME NEW q \in Repos, DeleteRepo(h, q) PROVE Covered(r)'
  <2>1. /\ UNCHANGED <<slot, payload>> /\ pc[h] = "offboard"
        /\ row'[r] # row[r] => r = q /\ excused' = [excused EXCEPT ![r] = head[r]]
    BY <1>a, <1>8 DEF DeleteRepo, OffboardRest, queue, TableTypes
  <2>2. ~InRequest(h, r) /\ ~InHand(h, r)
    BY <1>a, <2>1 DEF InRequest, InHand, Carries, HandlerInv, Event, Triggers
  <2>3. CASE row'[r] = row[r]
    BY <1>b, <2>1, <2>2, <2>3
  <2>4. CASE row'[r] # row[r]
    <3>1. excused'[r] = head[r] /\ head'[r] = head[r] /\ head[r] \in Nat
      BY <1>0, <2>1, <2>4, FreshFacts DEF BaseInv, HistoryOK
    <3> QED
      BY <3>1 DEF Covered, Excused
  <2> QED
    BY <2>3, <2>4
<1>9. CASE \E x \in Ids : PurgeIndex(h, x)
  <2>1. UNCHANGED <<slot, payload, row>> /\ pc[h] = "offboard"
    BY <1>9 DEF PurgeIndex, OffboardRest, queue
  <2>2. ~InRequest(h, r) /\ ~InHand(h, r)
    BY <1>a, <2>1 DEF InRequest, InHand, Carries, HandlerInv, Event, Triggers
  <2> QED
    BY <1>b, <2>1, <2>2
<1>10. CASE Done(h)
  <2>1. UNCHANGED <<slot, payload, row>> /\ pc[h] \in {"enqueue", "offboard"} /\ todo[h] = {}
    BY <1>10 DEF Done, queue, tables
  <2>2. ~InRequest(h, r) /\ ~InHand(h, r)
    BY <2>1 DEF InRequest, InHand, Undone
  <2> QED
    BY <1>b, <2>1, <2>2
<1> QED
  BY <1>0, <1>1, <1>2, <1>3, <1>4, <1>5, <1>6, <1>7, <1>8, <1>9, <1>10 DEF HandlerStep

\* A run's step: triggers stay where they are.
LEMMA JobKeepsFresh ==
  ASSUME BaseInv, FreshInv, Next, NEW q \in Repos, JobStep(q), NEW r \in Repos, granted[r] # None
  PROVE  Covered(r)'
<1>0. UNCHANGED <<sent, due, recorded, head, granted, active, requests, payload>>
  BY JobSteps DEF RunRest, github
<1>a. /\ QueueTypes /\ TableTypes /\ Covered(r) /\ OwnRun(r) /\ RunOK(r)
      /\ head[r] \in Nat
      /\ granted[r] \in active /\ \A i, j \in active : i = j
  BY FreshFacts DEF BaseInv, FreshInv, FreshOK, Covered, GitHubInv, RunInv
<1>b. /\ slot[r] = "running" <=> run[r].phase # "none"
      /\ run[r] \in Run /\ (row[r] # None => row[r] \in Row)
  BY <1>a DEF QueueTypes, TableTypes
<1>1. (slot[r] = "free" => slot'[r] = "free") => (LastTrigger(r) => LastTrigger(r)')
  BY <1>0 DEF LastTrigger, InDelivery, InRequest, InHand, Carries, Undone, Event, requests
<1>2. Excused(r) => Excused(r)'
  BY <1>0, FreshFacts DEF Excused
<1>3. ASSUME slot[r] = "free" => slot'[r] = "free",
             FreshOwn(r) => FreshOwn(r)',
             RunWill(r) => RunWill(r)' \/ FreshOwn(r)' \/ Excused(r)'
      PROVE  Covered(r)'
  BY <1>a, <1>1, <1>2, <1>3 DEF Covered
<1>4. CASE r # q
  <2>1. slot'[r] = slot[r] /\ run'[r] = run[r] /\ row'[r] = row[r]
    <3>1. CASE Reconcile(q)
      BY <1>a, <1>4, <3>1 DEF Reconcile, QueueTypes, TableTypes
    <3>2. CASE StartRun(q) \/ Fetch(q) \/ Readback(q) \/ ExpireArchived(q)
      BY <1>a, <1>4, <3>2 DEF StartRun, Fetch, Readback, ExpireArchived, Slot!Start, Slot!Expire, Slot!Move,
         QueueTypes
    <3>3. CASE IndexDocuments(q) \/ SyncFails(q) \/ RunFails(q)
      BY <1>a, <1>4, <3>3 DEF IndexDocuments, SyncFails, RunFails, EndRun, Slot!Finish, Slot!Again, Slot!Park,
         Slot!Move, QueueTypes
    <3> QED
      BY <3>1, <3>2, <3>3 DEF JobStep, RunStep
  <2> QED
    BY <1>0, <1>3, <2>1 DEF FreshOwn, RunWill
<1>5. CASE r = q
  <2> USE <1>5
  <2>1. CASE StartRun(r)
    <3>1. run'[r].phase = "started"
      BY <1>a, <1>b, <2>1 DEF StartRun, QueueTypes, Run
    <3> QED
      BY <3>1 DEF Covered, RunWill
  <2>2. CASE Fetch(r)
    <3>1. run'[r].phase = "fetched" /\ run'[r].ver = head[r] /\ payload[r] \in active
      BY <1>a, <1>b, <2>2 DEF Fetch, QueueTypes, Run
    <3>2. payload[r] = granted[r]
      BY <1>a, <3>1
    <3> QED
      BY <1>0, <3>1, <3>2 DEF Covered, RunWill
  <2>3. CASE Reconcile(r)
    <3>1. PICK i \in Ids : row' = [row EXCEPT ![r] = UpsertedRow(r, i)]
      BY <2>3 DEF Reconcile
    <3>2. run[r].phase = "fetched" /\ UNCHANGED slot /\ payload[r] \in insts
      BY <2>3 DEF Reconcile, InstallationExists
    <3>3. row'[r].ver = run[r].ver /\ row'[r].inst = payload[r] /\ row'[r] # None
      <4>1. payload[r] \in Installs /\ run[r].ver \in 1 .. MaxHead
        BY <1>a, <3>2, PipelineAssumption DEF BaseInv, TypeOK, RunOK
      <4>2. UpsertedRow(r, i) \in Row
        BY <4>1 DEF UpsertedRow, Row
      <4>3. UpsertedRow(r, i) # None
        BY <4>2, PipelineAssumption
      <4> QED
        BY <1>a, <3>1, <4>3 DEF UpsertedRow, TableTypes
    <3>4. FreshOwn(r) => FreshOwn(r)'
      <4> SUFFICES ASSUME FreshOwn(r) PROVE FreshOwn(r)'
        OBVIOUS
      <4>1. payload[r] = granted[r]
        BY <1>a, <3>2 DEF FreshOwn, OwnRun
      <4>2. run[r].ver \in 1 .. head[r] /\ head[r] <= run[r].ver
        BY <1>a, <3>2 DEF FreshOwn, RunOK
      <4>3. run[r].ver = head[r]
        BY <1>a, <4>2
      <4> QED
        BY <1>0, <3>3, <4>1, <4>3 DEF FreshOwn
    <3>5. RunWill(r) => FreshOwn(r)'
      BY <1>0, <1>b, <3>2, <3>3 DEF RunWill, FreshOwn
    <3> QED
      BY <1>3, <3>2, <3>4, <3>5
  <2>4. CASE Readback(r) \/ IndexDocuments(r) \/ SyncFails(r)
    <3>1. run[r].phase \in {"committed", "read"} /\ UNCHANGED row
      BY <2>4 DEF Readback, IndexDocuments, SyncFails
    <3>2. ~RunWill(r) /\ slot[r] = "running"
      BY <1>b, <3>1 DEF RunWill
    <3> QED
      BY <1>0, <1>3, <3>1, <3>2 DEF FreshOwn
  <2>5. CASE RunFails(r)
    <3>1. \/ slot' = [slot EXCEPT ![r] = "waiting"]
          \/ excused' = [excused EXCEPT ![r] = head[r]]
      BY <2>5 DEF RunFails, Slot!Again, Slot!Move
    <3>2. slot'[r] = "waiting" \/ excused'[r] = head[r]
      BY <1>a, <3>1 DEF QueueTypes, BaseInv, HistoryOK
    <3> QED
      BY <1>0, <1>a, <3>2 DEF Covered, RunWill, Excused
  <2>6. CASE ExpireArchived(r)
    <3>1. slot[r] = "parked" /\ slot'[r] = "free" /\ UNCHANGED <<run, row>>
      BY <1>a, <2>6 DEF ExpireArchived, Slot!Expire, Slot!Move, QueueTypes
    <3> QED
      BY <1>0, <1>3, <3>1 DEF FreshOwn, RunWill
  <2> QED
    BY <2>1, <2>2, <2>3, <2>4, <2>5, <2>6 DEF JobStep, RunStep
<1> QED
  BY <1>4, <1>5

LEMMA FreshStep == BaseInv /\ FreshInv /\ Next => FreshInv'
<1> SUFFICES ASSUME BaseInv, FreshInv, Next PROVE FreshInv'
  OBVIOUS
<1>1. ASSUME NEW r \in Repos, granted'[r] # None PROVE Covered(r)'
  <2>1. ASSUME granted[r] # None PROVE Covered(r)
    BY <2>1 DEF FreshInv, FreshOK, Covered
  <2>2. CASE GitHubEvent
    BY <1>1, <2>2, EventKeepsFresh
  <2>3. ASSUME NEW d \in Deliveries, Redeliver(d) \/ Lose(d) PROVE Covered(r)'
    <3>1. granted[r] # None
      BY <1>1, <2>3, DeliverySteps DEF world
    <3> QED
      BY <2>1, <2>3, <3>1, DeliveryKeepsFresh
  <2>4. ASSUME NEW h \in Handlers, RequestStep(h) PROVE Covered(r)'
    <3>1. granted[r] # None
      BY <1>1, <2>4, RequestSteps DEF world
    <3>2. CASE (\E d \in Deliveries : Receive(h, d)) \/ Record(h) \/ HandlerFails(h)
      BY <2>1, <2>4, <3>1, <3>2, IntakeKeepsFresh
    <3>3. CASE ~((\E d \in Deliveries : Receive(h, d)) \/ Record(h) \/ HandlerFails(h))
      BY <2>4, <3>1, <3>3, WorkKeepsFresh
    <3> QED
      BY <3>2, <3>3
  <2>5. ASSUME NEW q \in Repos, JobStep(q) PROVE Covered(r)'
    <3>1. granted[r] # None
      BY <1>1, <2>5, JobSteps DEF RunRest, github
    <3> QED
      BY <2>5, <3>1, JobKeepsFresh
  <2> QED
    BY <2>2, <2>3, <2>4, <2>5, NextSteps
<1>2. \A r \in Repos : FreshOK(r)'
  BY <1>1 DEF FreshOK, Covered
<1> QED
  BY <1>2, OwnRunStep, ParkedStep DEF FreshInv

\* A granted repository is at HEAD, on its way there, or has lost its last trigger in one of
\* the ways the code documents or reports: for any number of repositories, of requests and
\* runs under way, of pushes, and of deliveries lost, repeated or reordered.
THEOREM FreshnessIsExcused == Spec => []FreshOrExcused
<1>1. FreshInv /\ UNCHANGED vars => FreshInv'
  BY DEF vars, github, tables, requests, queue, history, FreshInv, FreshOK, FreshOwn, LastTrigger, InDelivery,
     InRequest, InHand, Carries, Undone, Event, RunWill, Excused, OwnRun, ParkedOK
<1>2. SafetyInv => BaseInv
  BY DEF SafetyInv
<1> QED
  BY <1>1, <1>2, SafetyInvariant, FreshInit, FreshStep, FreshImplies, PTL DEF Spec
=============================================================================
