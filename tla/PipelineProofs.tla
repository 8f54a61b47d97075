--------------------------- MODULE PipelineProofs ---------------------------
(***************************************************************************)
(* Pipeline's safety properties for any repositories, installations and    *)
(* requests under way, and for any bounds.                                 *)
(*                                                                         *)
(* The invariant has a part for what GitHub does (GitHubInv), one for what *)
(* a request carries at each step (HandlerInv), one for what a run carries *)
(* (RunInv), and on top of them one for each property: RoutedInv,          *)
(* UninstallInv and SearchInv.  IndexBehind adds what is needed to say     *)
(* that no step takes rows or records back to an older HEAD.               *)
(***************************************************************************)
EXTENDS Pipeline, TLAPS

Deliveries == 1 .. Len(sent)

\* GitHub: an account has one installation at a time and ids are not used twice, so an
\* installation that is gone has had its "deleted" sent and is gone for good.
GitHubInv ==
  /\ \A i, j \in active : i = j
  /\ \A r \in Repos : granted[r] # None => granted[r] \in active
  /\ \A d \in Deliveries :
       /\ sent[d].inst \in used
       /\ \A r \in Repos : sent[d].ver[r] <= head[r]
       /\ sent[d].kind = "push" => \E r \in Repos : sent[d].repos = {r}
       /\ sent[d].kind = "deleted" => sent[d].inst \notin active
  /\ \A i \in used \ active : \E d \in Deliveries : sent[d].kind = "deleted" /\ sent[d].inst = i

\* A request has a delivery, and its step goes with the kind of the event.
HandlerInv ==
  \A h \in Handlers :
    /\ pc[h] # "idle" => dlv[h] \in Deliveries
    /\ pc[h] \in {"enqueue", "clear", "reenqueue"} => Event(h).kind \in Triggers
    /\ pc[h] = "uninstall" => Event(h).kind = "deleted"
    /\ pc[h] = "offboard" => Event(h).kind \in {"deleted", "removed"}
    /\ pc[h] \in {"clear", "reenqueue"} => cur[h] \in todo[h]

\* A run is of the repository's HEAD at its fetch and later; what it has committed is the
\* row, as long as there is one.
RunOK(r) ==
  /\ run[r].phase = "none" => run[r] = NoRun
  /\ slot[r] \in {"waiting", "running"} => payload[r] # None
  /\ run[r].phase \in {"fetched", "committed", "read"} => run[r].ver \in 1 .. head[r]
  /\ run[r].phase \in {"committed", "read"} => /\ run[r].id \in Ids /\ run[r].id < nextId
                                                   /\ run[r].rec \in {None, run[r].ver}
  /\ row[r] # None => /\ row[r].ver <= head[r] /\ row[r].id < nextId
                      /\ row[r].inst \in insts
  /\ row[r] # None /\ run[r].phase = "fetched" => row[r].ver <= run[r].ver
  /\ row[r] # None /\ run[r].phase \in {"committed", "read"} =>
       row[r].ver = run[r].ver /\ row[r].id = run[r].id

RunInv == \A r \in Repos : RunOK(r)

HistoryOK ==
  /\ routed \in Seq(Nat) /\ Len(routed) = Len(sent)
  /\ excused \in [Repos -> Nat] /\ \A r \in Repos : excused[r] <= head[r]
  /\ leftover \subseteq Installs /\ lag \subseteq Ids

BaseInv ==
  TypeOK /\ HistoryOK /\ GitHubInv /\ HandlerInv /\ RunInv /\ insts \subseteq used

\* A delivery that was routed is recorded, so that it is routed no more.
RoutedInv == \A d \in Deliveries : routed[d] = 0 \/ (routed[d] = 1 /\ d \in recorded)

\* What has become of an uninstall: nobody has handled it yet, or it is handled by now, or
\* it was lost, or another event of the installation came after it.
Offboarded(d) ==
  \/ d \in due /\ d \notin recorded
  \/ \E h \in Handlers : dlv[h] = d /\ pc[h] = "received" /\ d \notin recorded
  \/ \E h \in Handlers : dlv[h] = d /\ pc[h] \in {"route", "uninstall"}
  \/ sent[d].inst \in leftover
  \/ sent[d].inst \notin insts

UninstallInv == \A d \in Deliveries : sent[d].kind = "deleted" => Offboarded(d)

\* repos.id is never used twice: neither a row nor a commit of another repository has it.
IdsInv ==
  \A r, q \in Repos : r # q =>
    /\ row[r] # None /\ row[q] # None => row[r].id # row[q].id
    /\ row[r] # None /\ run[q].phase \in {"committed", "read"} => row[r].id # run[q].id
    /\ run[r].phase \in {"committed", "read"} /\ run[q].phase \in {"committed", "read"} =>
         run[r].id # run[q].id

Synced(r) == index[row[r].id] = row[r].ver \/ row[r].id \in lag

\* A run that is to write nothing has nothing to write, and the others write the row.
SearchInv ==
  /\ IdsInv
  /\ \A r \in Repos : row[r] # None =>
       /\ run[r].phase \notin {"committed", "read"} => Synced(r)
       /\ run[r].phase \in {"committed", "read"} => Synced(r) \/ run[r].rec = row[r].ver

SafetyInv == BaseInv /\ RoutedInv /\ UninstallInv /\ SearchInv
-----------------------------------------------------------------------------
(***************************************************************************)
(* GitHub's events send one delivery more and leave the rest alone.        *)
(***************************************************************************)
GitHubEvent ==
  \/ \E i \in Installs : Install(i) \/ Uninstall(i) \/ \E r \in Repos : AddRepo(i, r)
  \/ \E r \in Repos : RemoveRepo(r) \/ Push(r)

\* A delivery d of the event is new, the earlier ones are as they were.
Sent(d) ==
  /\ d = Len(sent) + 1
  /\ sent' \in Seq(Delivery) /\ Len(sent') = d /\ d <= MaxSent
  /\ \A e \in Deliveries : sent'[e] = sent[e]
  /\ sent'[d].ver = head'
  /\ due' = due \cup {d}
  /\ routed' \in Seq(Nat) /\ Len(routed') = d
  /\ \A e \in Deliveries : routed'[e] = routed[e]
  /\ routed'[d] = 0

LEMMA Sending ==
  ASSUME TypeOK, HistoryOK, NEW k \in Kinds, NEW i \in Installs, NEW rs \in SUBSET Repos,
         head' \in [Repos -> 1 .. MaxHead], Send(k, i, rs)
  PROVE  /\ Sent(Len(sent) + 1)
         /\ sent'[Len(sent) + 1].kind = k
         /\ sent'[Len(sent) + 1].inst = i
         /\ sent'[Len(sent) + 1].repos = rs
<1> DEFINE d == [kind |-> k, inst |-> i, repos |-> rs, ver |-> head']
<1>1. d \in Delivery
  BY DEF Delivery
<1>2. sent' = Append(sent, d) /\ routed' = Append(routed, 0) /\ Len(sent) < MaxSent
  BY DEF Send
<1>3. sent \in Seq(Delivery) /\ routed \in Seq(Nat) /\ Len(routed) = Len(sent) /\ MaxSent \in Nat
      /\ Len(sent) \in Nat
  BY PipelineAssumption DEF TypeOK, HistoryOK
<1>4. d.kind = k /\ d.inst = i /\ d.repos = rs /\ d.ver = head'
  OBVIOUS
<1> HIDE DEF d
<1>5. /\ sent' \in Seq(Delivery) /\ Len(sent') = Len(sent) + 1
      /\ \A e \in 1 .. Len(sent) : sent'[e] = sent[e]
      /\ sent'[Len(sent) + 1] = d
  BY <1>1, <1>2, <1>3
<1>6. /\ routed' \in Seq(Nat) /\ Len(routed') = Len(sent) + 1
      /\ \A e \in 1 .. Len(sent) : routed'[e] = routed[e]
      /\ routed'[Len(sent) + 1] = 0
  BY <1>2, <1>3
<1>7. due' = due \cup {Len(sent) + 1}
  BY DEF Send
<1> QED
  BY <1>2, <1>3, <1>4, <1>5, <1>6, <1>7 DEF Sent, Deliveries
\* GitHub's part of the types.
GitHubTypes ==
  /\ head \in [Repos -> 1 .. MaxHead]
  /\ granted \in [Repos -> Installs \cup {None}]
  /\ active \in SUBSET used /\ used \in SUBSET Installs
  /\ sent \in Seq(Delivery) /\ Len(sent) <= MaxSent

\* What an event may do to GitHub's side.
Grows ==
  /\ Sent(Len(sent) + 1) /\ EventRest
  /\ \A r \in Repos : head[r] <= head'[r]
  /\ used \subseteq used'

LEMMA OneMoreDelivery ==
  ASSUME TypeOK, GitHubInv, Sent(Len(sent) + 1), GitHubTypes',
         \A r \in Repos : head[r] <= head'[r],
         used \subseteq used', active' \cap used \subseteq active,
         \A i, j \in active' : i = j,
         \A r \in Repos : granted'[r] # None => granted'[r] \in active',
         sent'[Len(sent) + 1].inst \in used',
         sent'[Len(sent) + 1].kind = "push" => \E r \in Repos : sent'[Len(sent) + 1].repos = {r},
         sent'[Len(sent) + 1].kind = "deleted" => sent'[Len(sent) + 1].inst \notin active',
         \A i \in used' \ active' : \/ i \in used \ active
                                    \/ /\ sent'[Len(sent) + 1].kind = "deleted"
                                       /\ sent'[Len(sent) + 1].inst = i
  PROVE  GitHubInv'
<1> DEFINE n == Len(sent) + 1
<1>1. /\ Len(sent) \in Nat /\ n \in Nat /\ Len(sent') = n
      /\ \A e \in Deliveries : sent'[e] = sent[e] /\ sent[e] \in Delivery
      /\ sent'[n].ver = head'
  BY DEF TypeOK, Sent, Deliveries
<1>2. \A e : e \in Deliveries' <=> e \in Deliveries \/ e = n
  BY <1>1 DEF Deliveries
<1> HIDE DEF n
<1>3. \A e \in Deliveries' : \A r \in Repos : sent'[e].ver[r] <= head'[r]
  <2> SUFFICES ASSUME NEW e \in Deliveries', NEW r \in Repos PROVE sent'[e].ver[r] <= head'[r]
    OBVIOUS
  <2>1. head'[r] \in 1 .. MaxHead /\ head[r] \in 1 .. MaxHead /\ MaxHead \in Nat
    BY PipelineAssumption DEF GitHubTypes, TypeOK
  <2>2. CASE e = n
    BY <1>1, <2>1, <2>2
  <2>3. CASE e \in Deliveries
    <3>1. sent[e].ver[r] \in 1 .. MaxHead /\ sent[e].ver[r] <= head[r] /\ sent'[e] = sent[e]
      BY <1>1, <2>3 DEF Delivery, GitHubInv
    <3> QED
      BY <2>1, <3>1
  <2> QED
    BY <1>2, <2>2, <2>3
<1>4. \A e \in Deliveries' :
        /\ sent'[e].inst \in used'
        /\ sent'[e].kind = "push" => \E r \in Repos : sent'[e].repos = {r}
        /\ sent'[e].kind = "deleted" => sent'[e].inst \notin active'
  BY <1>1, <1>2 DEF GitHubInv, n
<1>5. \A i \in used' \ active' : \E d \in Deliveries' : sent'[d].kind = "deleted" /\ sent'[d].inst = i
  BY <1>1, <1>2 DEF GitHubInv, n
<1> QED
  BY <1>3, <1>4, <1>5 DEF GitHubInv

LEMMA GitHubEventSteps ==
  ASSUME TypeOK, HistoryOK, GitHubInv, GitHubEvent
  PROVE  GitHubTypes' /\ GitHubInv' /\ Grows
<1> DEFINE n == Len(sent) + 1
<1> USE PipelineAssumption
<1>0. /\ sent \in Seq(Delivery) /\ Len(sent) \in Nat /\ n \in Nat
      /\ \A e \in Deliveries : sent[e] \in Delivery
      /\ head \in [Repos -> 1 .. MaxHead] /\ granted \in [Repos -> Installs \cup {None}]
      /\ active \subseteq used /\ used \subseteq Installs
  BY DEF TypeOK, Deliveries
<1> HIDE DEF n
<1>1. ASSUME NEW i \in Installs, Install(i) PROVE GitHubTypes' /\ GitHubInv' /\ Grows
  <2>1. PICK rs \in SUBSET Repos : /\ Grant(rs, i) /\ UNCHANGED head /\ Send("created", i, rs)
                                   /\ \A r \in rs : granted[r] = None
    BY <1>1 DEF Install
  <2>2. i \notin used /\ active = {} /\ used' = used \cup {i} /\ active' = {i} /\ EventRest
    BY <1>1 DEF Install
  <2>3. Sent(n) /\ sent'[n].kind = "created" /\ sent'[n].inst = i /\ sent'[n].repos = rs
    BY <1>0, <2>1, Sending DEF Kinds, n
  <2>4. GitHubTypes'
    BY <1>0, <2>1, <2>2, <2>3 DEF GitHubTypes, Sent, Grant
  <2>5. Grows
    BY <1>0, <2>1, <2>2, <2>3 DEF Grows, n
  <2>6. GitHubInv'
    <3>1. \A r \in Repos : granted'[r] # None => granted'[r] \in active'
      BY <1>0, <2>1, <2>2 DEF GitHubInv, Grant
    <3>2. (\A j, k \in active' : j = k) /\ active' \cap used \subseteq active
      BY <2>2
    <3>3. i \in used' /\ \A j \in used' \ active' : j \in used \ active
      BY <2>2
    <3>4. \A r \in Repos : head[r] <= head'[r]
      BY <2>5 DEF Grows
    <3> QED
      BY <2>2, <2>3, <2>4, <3>1, <3>2, <3>3, <3>4, OneMoreDelivery DEF n
  <2> QED
    BY <2>4, <2>5, <2>6
<1>2. ASSUME NEW i \in Installs, Uninstall(i) PROVE GitHubTypes' /\ GitHubInv' /\ Grows
  <2>1. /\ Grant({r \in Repos : granted[r] = i}, None) /\ UNCHANGED <<head, used>>
        /\ Send("deleted", i, {}) /\ i \in active /\ active' = active \ {i} /\ EventRest
    BY <1>2 DEF Uninstall
  <2>3. Sent(n) /\ sent'[n].kind = "deleted" /\ sent'[n].inst = i /\ sent'[n].repos = {}
    BY <1>0, <2>1, Sending DEF Kinds, n
  <2>4. GitHubTypes'
    BY <1>0, <2>1, <2>3 DEF GitHubTypes, Sent, Grant
  <2>5. Grows
    BY <1>0, <2>1, <2>3 DEF Grows, n
  <2>6. GitHubInv'
    <3>1. active' = {}
      BY <2>1 DEF GitHubInv
    <3>2. \A r \in Repos : granted'[r] = None
      BY <1>0, <2>1 DEF GitHubInv, Grant
    <3>3. i \in used' /\ \A j \in used' \ active' : j \in used \ active \/ j = i
      BY <1>0, <2>1
    <3>4. \A r \in Repos : head[r] <= head'[r]
      BY <2>5 DEF Grows
    <3> QED
      BY <2>1, <2>3, <2>4, <3>1, <3>2, <3>3, <3>4, OneMoreDelivery DEF n
  <2> QED
    BY <2>4, <2>5, <2>6
<1>3. ASSUME NEW i \in Installs, NEW r \in Repos, AddRepo(i, r) PROVE GitHubTypes' /\ GitHubInv' /\ Grows
  <2>1. /\ Grant({r}, i) /\ UNCHANGED <<head, active, used>>
        /\ Send("added", i, {r}) /\ i \in active /\ EventRest
    BY <1>3 DEF AddRepo
  <2>3. Sent(n) /\ sent'[n].kind = "added" /\ sent'[n].inst = i /\ sent'[n].repos = {r}
    BY <1>0, <2>1, Sending DEF Kinds, n
  <2>4. GitHubTypes'
    BY <1>0, <2>1, <2>3 DEF GitHubTypes, Sent, Grant
  <2>5. Grows
    BY <1>0, <2>1, <2>3 DEF Grows, n
  <2>6. GitHubInv'
    <3>1. \A q \in Repos : granted'[q] # None => granted'[q] \in active'
      BY <1>0, <2>1 DEF GitHubInv, Grant
    <3>2. (\A j, k \in active' : j = k) /\ i \in used'
      BY <1>0, <2>1 DEF GitHubInv
    <3>3. \A q \in Repos : head[q] <= head'[q]
      BY <2>5 DEF Grows
    <3> QED
      BY <2>1, <2>3, <2>4, <3>1, <3>2, <3>3, OneMoreDelivery DEF n
  <2> QED
    BY <2>4, <2>5, <2>6
<1>4. ASSUME NEW r \in Repos, RemoveRepo(r) PROVE GitHubTypes' /\ GitHubInv' /\ Grows
  <2>1. /\ Grant({r}, None) /\ UNCHANGED <<head, active, used>>
        /\ Send("removed", granted[r], {r}) /\ granted[r] # None /\ EventRest
    BY <1>4 DEF RemoveRepo
  <2>2. granted[r] \in Installs /\ granted[r] \in active
    BY <1>0, <2>1 DEF GitHubInv
  <2>3. Sent(n) /\ sent'[n].kind = "removed" /\ sent'[n].inst = granted[r] /\ sent'[n].repos = {r}
    BY <1>0, <2>1, <2>2, Sending DEF Kinds, n
  <2>4. GitHubTypes'
    BY <1>0, <2>1, <2>3 DEF GitHubTypes, Sent, Grant
  <2>5. Grows
    BY <1>0, <2>1, <2>3 DEF Grows, n
  <2>6. GitHubInv'
    <3>1. \A q \in Repos : granted'[q] # None => granted'[q] \in active'
      BY <1>0, <2>1 DEF GitHubInv, Grant
    <3>2. (\A j, k \in active' : j = k) /\ granted[r] \in used'
      BY <1>0, <2>1, <2>2 DEF GitHubInv
    <3>3. \A q \in Repos : head[q] <= head'[q]
      BY <2>5 DEF Grows
    <3> QED
      BY <2>1, <2>3, <2>4, <3>1, <3>2, <3>3, OneMoreDelivery DEF n
  <2> QED
    BY <2>4, <2>5, <2>6
<1>5. ASSUME NEW r \in Repos, Push(r) PROVE GitHubTypes' /\ GitHubInv' /\ Grows
  <2>1. /\ UNCHANGED <<granted, active, used>> /\ head[r] < MaxHead
        /\ head' = [head EXCEPT ![r] = @ + 1]
        /\ Send("push", granted[r], {r}) /\ granted[r] # None /\ EventRest
    BY <1>5 DEF Push
  <2>2. granted[r] \in Installs /\ granted[r] \in active
    BY <1>0, <2>1 DEF GitHubInv
  <2>7. head' \in [Repos -> 1 .. MaxHead] /\ \A q \in Repos : head[q] <= head'[q]
    BY <1>0, <2>1
  <2>3. Sent(n) /\ sent'[n].kind = "push" /\ sent'[n].inst = granted[r] /\ sent'[n].repos = {r}
    BY <1>0, <2>1, <2>2, <2>7, Sending DEF Kinds, n
  <2>4. GitHubTypes'
    BY <1>0, <2>1, <2>3, <2>7 DEF GitHubTypes, Sent
  <2>5. Grows
    BY <1>0, <2>1, <2>3, <2>7 DEF Grows, n
  <2>6. GitHubInv'
    BY <1>0, <2>1, <2>2, <2>3, <2>4, <2>5, OneMoreDelivery DEF GitHubInv, Grows, n
  <2> QED
    BY <2>4, <2>5, <2>6
<1> QED
  BY <1>1, <1>2, <1>3, <1>4, <1>5 DEF GitHubEvent
-----------------------------------------------------------------------------
(***************************************************************************)
(* What the other steps leave alone.                                       *)
(***************************************************************************)
\* GitHub's state of the world.
world == <<head, granted, active, used, sent>>

\* A request's own step.
RequestStep(h) == HandlerStep(h) \/ \E d \in Deliveries : Receive(h, d)

\* A step of a repository's job.
JobStep(r) == RunStep(r) \/ ExpireArchived(r)

LEMMA NextSteps ==
  ASSUME Next
  PROVE  \/ GitHubEvent
         \/ \E d \in Deliveries : Redeliver(d) \/ Lose(d)
         \/ \E h \in Handlers : RequestStep(h)
         \/ \E r \in Repos : JobStep(r)
  BY DEF Next, Environment, GitHubEvent, RequestStep, JobStep, Deliveries

LEMMA DeliverySteps ==
  ASSUME NEW d \in Deliveries, Redeliver(d) \/ Lose(d)
  PROVE  UNCHANGED <<world, tables, index, requests, queue, run, routed, lag>>
  BY DEF Redeliver, Lose, world, history, Excuse, LeaveOver

LEMMA RequestSteps ==
  ASSUME NEW h \in Handlers, RequestStep(h)
  PROVE  UNCHANGED <<world, again, run, nextId>>
<1> USE DEF world, github, tables, queue, history
<1>1. CASE Record(h) \/ UpsertInstallation(h) \/ GetRepo(h) \/ Done(h) \/ HandlerFails(h)
  BY <1>1 DEF Record, UpsertInstallation, GetRepo, Done, HandlerFails
<1>2. CASE \E r \in Repos : EnqueueIngest(h, r)
  BY <1>2 DEF EnqueueIngest, QueueRest
<1>3. CASE ClearFinished(h) \/ Reenqueue(h)
  BY <1>3 DEF ClearFinished, Reenqueue, QueueRest
<1>4. CASE ListRepoIDs(h) \/ DeleteInstallation(h) \/ StartRemoval(h)
  BY <1>4 DEF ListRepoIDs, DeleteInstallation, StartRemoval, OffboardRest
<1>5. CASE (\E r \in Repos : DeleteRepo(h, r)) \/ (\E x \in Ids : PurgeIndex(h, x))
  BY <1>5 DEF DeleteRepo, PurgeIndex, OffboardRest
<1>6. CASE \E d \in Deliveries : Receive(h, d)
  BY <1>6 DEF Receive
<1> QED
  BY <1>1, <1>2, <1>3, <1>4, <1>5, <1>6 DEF RequestStep, HandlerStep

LEMMA AtWork ==
  ASSUME BaseInv, NEW h \in Handlers, HandlerStep(h)
  PROVE  /\ pc[h] # "idle" /\ dlv[h] \in Deliveries
         /\ Event(h) \in Delivery /\ Event(h).repos \in SUBSET Repos /\ Event(h).inst \in Installs
<1>1. pc[h] # "idle"
  BY DEF HandlerStep, Record, HandlerFails, UpsertInstallation, GetRepo, Done, EnqueueIngest, ClearFinished,
     Reenqueue, ListRepoIDs, DeleteInstallation, StartRemoval, DeleteRepo, PurgeIndex
<1>2. dlv[h] \in Deliveries /\ sent[dlv[h]] \in Delivery
  BY <1>1 DEF BaseInv, HandlerInv, TypeOK, Deliveries
<1> QED
  BY <1>1, <1>2 DEF Event, Delivery

LEMMA JobSteps ==
  ASSUME NEW r \in Repos, JobStep(r)
  PROVE  RunRest /\ UNCHANGED insts
  BY DEF JobStep, RunStep, StartRun, Fetch, Reconcile, Readback, IndexDocuments, SyncFails, RunFails,
     ExpireArchived
-----------------------------------------------------------------------------
(***************************************************************************)
(* Types.                                                                  *)
(***************************************************************************)
RequestTypes ==
  /\ pc \in [Handlers -> Steps]
  /\ dlv \in [Handlers -> 0 .. Len(sent)]
  /\ todo \in [Handlers -> SUBSET Repos]
  /\ ids \in [Handlers -> SUBSET Ids]
  /\ cur \in [Handlers -> Repos \cup {None}]
  /\ due \in SUBSET Deliveries
  /\ recorded \in SUBSET Deliveries

LEMMA RespondTypes ==
  ASSUME RequestTypes, Len(sent) \in Nat, UNCHANGED sent, NEW h \in Handlers, Respond(h),
         due' \in SUBSET Deliveries, recorded' \in SUBSET Deliveries
  PROVE  RequestTypes'
<1>1. 0 \in 0 .. Len(sent)
  OBVIOUS
<1> QED
  BY <1>1 DEF RequestTypes, Respond, Goto, Steps, Deliveries

LEMMA RequestTypesStep == BaseInv /\ Next => RequestTypes'
<1> SUFFICES ASSUME BaseInv, Next PROVE RequestTypes'
  OBVIOUS
<1>0. RequestTypes /\ Len(sent) \in Nat
  BY DEF BaseInv, TypeOK, RequestTypes, Deliveries
<1>1. CASE GitHubEvent
  <2>1. /\ Len(sent') = Len(sent) + 1 /\ due' = due \cup {Len(sent) + 1}
        /\ UNCHANGED <<pc, dlv, todo, ids, cur, recorded>>
    BY <1>1, GitHubEventSteps DEF BaseInv, Grows, Sent, EventRest, requests, tables
  <2>2. \A h \in Handlers : dlv[h] \in 0 .. Len(sent')
    BY <1>0, <2>1 DEF RequestTypes
  <2>3. /\ dlv' \in [Handlers -> 0 .. Len(sent')]
    BY <1>0, <2>1, <2>2 DEF RequestTypes
  <2>4. due' \in SUBSET Deliveries' /\ recorded' \in SUBSET Deliveries'
    <3>1. Deliveries' = Deliveries \cup {Len(sent) + 1}
      BY <1>0, <2>1 DEF Deliveries
    <3> QED
      BY <1>0, <2>1, <3>1 DEF RequestTypes
  <2> QED
    BY <1>0, <2>1, <2>3, <2>4 DEF RequestTypes
<1>2. ASSUME NEW d \in Deliveries, Redeliver(d) \/ Lose(d) PROVE RequestTypes'
  <2>1. UNCHANGED <<sent, pc, dlv, todo, ids, cur, recorded>>
    BY <1>2, DeliverySteps DEF world, requests, tables
  <2>2. due' \in SUBSET Deliveries
    BY <1>0, <1>2 DEF Redeliver, Lose, RequestTypes
  <2> QED
    BY <1>0, <2>1, <2>2 DEF RequestTypes, Deliveries
<1>3. ASSUME NEW h \in Handlers, RequestStep(h) PROVE RequestTypes'
  <2> USE <1>0 DEF RequestTypes, Steps
  <2>1. sent' = sent
    BY <1>3, RequestSteps DEF world
  <2>2. CASE HandlerStep(h)
    <3>1. dlv[h] \in Deliveries /\ Event(h).repos \in SUBSET Repos
      BY <2>2, AtWork
    <3>2. CASE Record(h)
      <4>1. recorded' \in SUBSET Deliveries /\ due' = due
        BY <3>1, <3>2 DEF Record, RecordDelivery, github
      <4>2. CASE Respond(h)
        BY <2>1, <4>1, <4>2, RespondTypes
      <4>3. CASE Goto(h, "route") /\ UNCHANGED <<dlv, todo, ids, cur>>
        BY <2>1, <4>1, <4>3 DEF Goto, Deliveries
      <4> QED
        BY <3>2, <4>2, <4>3 DEF Record, RecordDelivery
    <3>3. CASE HandlerFails(h)
      <4>1. recorded' = recorded \/ recorded' = recorded \cup {dlv[h]}
        BY <3>3 DEF HandlerFails
      <4>2. recorded' \in SUBSET Deliveries /\ due' = due /\ Respond(h)
        BY <3>1, <3>3, <4>1 DEF HandlerFails, github
      <4> QED
        BY <2>1, <4>2, RespondTypes
    <3>11. CASE UpsertInstallation(h)
      BY <2>1, <3>1, <3>11 DEF UpsertInstallation, Goto, github, Deliveries
    <3>12. CASE Done(h)
      BY <2>1, <3>12, RespondTypes DEF Done, github, tables
    <3>13. CASE GetRepo(h)
      <4>1. UNCHANGED <<due, recorded>>
        BY <3>13 DEF GetRepo, github, tables
      <4>2. PICK r \in Event(h).repos :
              \/ Respond(h)
              \/ todo' = [todo EXCEPT ![h] = {r}] /\ Goto(h, "enqueue") /\ UNCHANGED <<dlv, ids, cur>>
        BY <3>13 DEF GetRepo
      <4>3. CASE Respond(h)
        BY <2>1, <4>1, <4>3, RespondTypes
      <4>4. CASE todo' = [todo EXCEPT ![h] = {r}] /\ Goto(h, "enqueue") /\ UNCHANGED <<dlv, ids, cur>>
        BY <2>1, <3>1, <4>1, <4>4 DEF Goto, Deliveries
      <4> QED
        BY <4>2, <4>3, <4>4
    <3>4. ASSUME NEW r \in Repos, EnqueueIngest(h, r) PROVE RequestTypes'
      BY <2>1, <3>4 DEF EnqueueIngest, SubmitJob, Coalesce, Enqueued, QueueRest, Goto, github, tables, Deliveries
    <3>5. CASE ClearFinished(h)
      BY <2>1, <3>5 DEF ClearFinished, QueueRest, Goto, github, tables, Deliveries
    <3>6. CASE Reenqueue(h)
      BY <2>1, <3>6 DEF Reenqueue, SubmitJob, Coalesce, Enqueued, QueueRest, Goto, github, tables, Deliveries
    <3>7. CASE ListRepoIDs(h)
      <4>1. {row[r].id : r \in {q \in Repos : row[q] # None /\ row[q].inst = Event(h).inst}} \in SUBSET Ids
        BY DEF BaseInv, TypeOK, Row
      <4> QED
        BY <2>1, <3>7, <4>1 DEF ListRepoIDs, OffboardRest, Goto, github, Deliveries
    <3>8. CASE DeleteInstallation(h) \/ StartRemoval(h)
      BY <2>1, <3>1, <3>8 DEF DeleteInstallation, StartRemoval, OffboardRest, Goto, github, Deliveries
    <3>9. ASSUME NEW r \in Repos, DeleteRepo(h, r) PROVE RequestTypes'
      <4>1. row[r] # None => {row[r].id} \in SUBSET Ids
        BY DEF BaseInv, TypeOK, Row
      <4> QED
        BY <2>1, <3>9, <4>1 DEF DeleteRepo, OffboardRest, github, Deliveries
    <3>10. ASSUME NEW x \in Ids, PurgeIndex(h, x) PROVE RequestTypes'
      BY <2>1, <3>10 DEF PurgeIndex, OffboardRest, github, Deliveries
    <3> QED
      BY <2>2, <3>2, <3>3, <3>4, <3>5, <3>6, <3>7, <3>8, <3>9, <3>10, <3>11, <3>12, <3>13 DEF HandlerStep
  <2>3. ASSUME NEW d \in Deliveries, Receive(h, d) PROVE RequestTypes'
    BY <2>1, <2>3 DEF Receive, Goto, tables, Deliveries
  <2> QED
    BY <1>3, <2>2, <2>3 DEF RequestStep
<1>4. ASSUME NEW r \in Repos, JobStep(r) PROVE RequestTypes'
  BY <1>0, <1>4, JobSteps DEF RequestTypes, RunRest, github, requests, Deliveries
<1> QED
  BY <1>1, <1>2, <1>3, <1>4, NextSteps

Phases == {"none", "started", "fetched", "committed", "read"}
Run == [phase : Phases, ver : 0 .. MaxHead, id : 0 .. MaxId, rec : 1 .. MaxHead \cup {None}]

TableTypes ==
  /\ again \in 0 .. MaxAgain
  /\ insts \in SUBSET Installs
  /\ row \in [Repos -> Row \cup {None}]
  /\ nextId \in 1 .. MaxId + 1
  /\ index \in [Ids -> 1 .. MaxHead \cup {None}]

QueueTypes ==
  /\ slot \in [Repos -> {"free", "waiting", "running", "parked"}]
  /\ payload \in [Repos -> Installs \cup {None}]
  /\ tries \in [Repos -> 0 .. MaxRetry]
  /\ run \in [Repos -> Run]
  /\ \A r \in Repos : slot[r] = "running" <=> run[r].phase # "none"

LEMMA TypeParts == TypeOK <=> GitHubTypes /\ RequestTypes /\ TableTypes /\ QueueTypes
<1>1. TypeOK => GitHubTypes /\ RequestTypes /\ TableTypes /\ QueueTypes
  BY DEF TypeOK, GitHubTypes, RequestTypes, TableTypes, QueueTypes, Run, Phases, Deliveries,
     Slot!SlotTypeOK, Slot!Slots
<1>2. GitHubTypes /\ RequestTypes /\ TableTypes /\ QueueTypes => TypeOK
  BY DEF TypeOK, GitHubTypes, RequestTypes, TableTypes, QueueTypes, Run, Phases, Deliveries,
     Slot!SlotTypeOK, Slot!Slots
<1> QED
  BY <1>1, <1>2

\* The run's record, one field after the other.
LEMMA RunFetched ==
  \A x \in Run, p \in Phases, v \in 0 .. MaxHead : [x EXCEPT !.phase = p, !.ver = v] \in Run
<1> SUFFICES ASSUME NEW x \in Run, NEW p \in Phases, NEW v \in 0 .. MaxHead
             PROVE  [x EXCEPT !.phase = p, !.ver = v] \in Run
  OBVIOUS
<1> DEFINE a == [x EXCEPT !.phase = p]
<1>1. a \in Run
  BY DEF Run
<1> HIDE DEF a
<1>2. [a EXCEPT !.ver = v] \in Run
  BY <1>1 DEF Run
<1> QED
  BY <1>2 DEF a

LEMMA RunRead ==
  \A x \in Run, p \in Phases, c \in 1 .. MaxHead \cup {None} : [x EXCEPT !.phase = p, !.rec = c] \in Run
<1> SUFFICES ASSUME NEW x \in Run, NEW p \in Phases, NEW c \in 1 .. MaxHead \cup {None}
             PROVE  [x EXCEPT !.phase = p, !.rec = c] \in Run
  OBVIOUS
<1> DEFINE a == [x EXCEPT !.phase = p]
<1>1. a \in Run
  BY DEF Run
<1> HIDE DEF a
<1>2. [a EXCEPT !.rec = c] \in Run
  BY <1>1 DEF Run
<1> QED
  BY <1>2 DEF a

LEMMA RunCommitted ==
  \A x \in Run, p \in Phases, i \in 0 .. MaxId, c \in 1 .. MaxHead \cup {None} :
    [x EXCEPT !.phase = p, !.id = i, !.rec = c] \in Run
<1> SUFFICES ASSUME NEW x \in Run, NEW p \in Phases, NEW i \in 0 .. MaxId, NEW c \in 1 .. MaxHead \cup {None}
             PROVE  [x EXCEPT !.phase = p, !.id = i, !.rec = c] \in Run
  OBVIOUS
<1> DEFINE a == [x EXCEPT !.phase = p]
           b == [a EXCEPT !.id = i]
<1>1. a \in Run
  BY DEF Run
<1> HIDE DEF a
<1>2. b \in Run
  BY <1>1 DEF Run
<1> HIDE DEF b
<1>3. [b EXCEPT !.rec = c] \in Run
  BY <1>2 DEF Run
<1> QED
  BY <1>3 DEF a, b

LEMMA NoRunType == NoRun \in Run
  BY PipelineAssumption DEF NoRun, Run, Phases

LEMMA TableTypesStep == BaseInv /\ Next => TableTypes'
<1> SUFFICES ASSUME BaseInv, Next PROVE TableTypes'
  OBVIOUS
<1>0. TableTypes /\ QueueTypes
  BY TypeParts DEF BaseInv
<1> USE PipelineAssumption, <1>0 DEF TableTypes
<1>1. CASE GitHubEvent
  BY <1>1, GitHubEventSteps DEF BaseInv, Grows, EventRest, tables
<1>2. ASSUME NEW d \in Deliveries, Redeliver(d) \/ Lose(d) PROVE TableTypes'
  <2>1. UNCHANGED <<insts, row, nextId, index>>
    BY <1>2, DeliverySteps DEF tables
  <2> QED
    BY <1>2, <2>1 DEF Redeliver, Lose
<1>3. ASSUME NEW h \in Handlers, RequestStep(h) PROVE TableTypes'
  <2>1. UNCHANGED <<again, nextId>>
    BY <1>3, RequestSteps
  <2>2. CASE HandlerStep(h)
    <3>1. Event(h).inst \in Installs
      BY <2>2, AtWork
    <3>2. CASE Record(h) \/ GetRepo(h) \/ Done(h) \/ HandlerFails(h) \/ UpsertInstallation(h)
      BY <2>1, <3>1, <3>2 DEF Record, GetRepo, Done, HandlerFails, UpsertInstallation, tables
    <3>3. CASE \E r \in Repos : EnqueueIngest(h, r)
      BY <2>1, <3>3 DEF EnqueueIngest, QueueRest, tables
    <3>4. CASE ClearFinished(h) \/ Reenqueue(h)
      BY <2>1, <3>4 DEF ClearFinished, Reenqueue, QueueRest, tables
    <3>5. CASE ListRepoIDs(h) \/ StartRemoval(h)
      BY <2>1, <3>5 DEF ListRepoIDs, StartRemoval
    <3>6. CASE DeleteInstallation(h)
      BY <2>1, <3>6 DEF DeleteInstallation
    <3>7. CASE \E r \in Repos : DeleteRepo(h, r)
      BY <2>1, <3>7 DEF DeleteRepo
    <3>8. CASE \E x \in Ids : PurgeIndex(h, x)
      BY <2>1, <3>8 DEF PurgeIndex, Purged
    <3> QED
      BY <2>2, <3>2, <3>3, <3>4, <3>5, <3>6, <3>7, <3>8 DEF HandlerStep
  <2>3. CASE \E d \in Deliveries : Receive(h, d)
    BY <2>1, <2>3 DEF Receive, tables
  <2> QED
    BY <1>3, <2>2, <2>3 DEF RequestStep
<1>4. ASSUME NEW r \in Repos, JobStep(r) PROVE TableTypes'
  <2>1. UNCHANGED <<again, insts>>
    BY <1>4, JobSteps DEF RunRest, github
  <2>2. CASE StartRun(r) \/ Fetch(r) \/ Readback(r) \/ RunFails(r) \/ ExpireArchived(r)
    BY <2>1, <2>2 DEF StartRun, Fetch, Readback, RunFails, ExpireArchived
  <2>3. CASE Reconcile(r)
    <3> DEFINE new == row[r] = None
               id == IF new THEN nextId ELSE row[r].id
    <3>1. /\ payload[r] \in Installs /\ run[r].ver \in 1 .. MaxHead
      <4>1. run[r].phase = "fetched" /\ payload[r] \in insts
        BY <2>3 DEF Reconcile, InstallationExists
      <4>2. run[r].ver \in 1 .. head[r] /\ head[r] \in 1 .. MaxHead
        BY <4>1 DEF BaseInv, RunInv, RunOK, TypeOK
      <4> QED
        BY <4>1, <4>2
    <3>2. id \in Ids /\ row' = [row EXCEPT ![r] = UpsertedRow(r, id)] /\ UNCHANGED index
          /\ nextId' = IF new THEN nextId + 1 ELSE nextId
      BY <2>3 DEF Reconcile
    <3>3. UpsertedRow(r, id) \in Row
      BY <3>1, <3>2 DEF UpsertedRow, Row
    <3>4. nextId' \in 1 .. MaxId + 1
      BY <3>2 DEF Ids
    <3> HIDE DEF id
    <3> QED
      BY <2>1, <3>2, <3>3, <3>4
  <2>4. CASE IndexDocuments(r) \/ SyncFails(r)
    <3>1. run[r].phase \in {"committed", "read"}
      BY <2>4 DEF IndexDocuments, SyncFails
    <3>2. run[r].id \in Ids /\ run[r].rec \in 1 .. MaxHead \cup {None}
      BY <3>1 DEF BaseInv, RunInv, RunOK, QueueTypes, Run
    <3>3. Indexed(r) \in [Ids -> 1 .. MaxHead \cup {None}]
      BY <3>2 DEF Indexed
    <3>4. index' = index \/ index' = Indexed(r)
      BY <2>4 DEF IndexDocuments, SyncFails
    <3> QED
      BY <2>1, <2>4, <3>3, <3>4 DEF IndexDocuments, SyncFails
  <2> QED
    BY <1>4, <2>2, <2>3, <2>4 DEF JobStep, RunStep
<1> QED
  BY <1>1, <1>2, <1>3, <1>4, NextSteps

LEMMA QueueTypesStep == BaseInv /\ Next => QueueTypes'
<1> SUFFICES ASSUME BaseInv, Next PROVE QueueTypes'
  OBVIOUS
<1>0. TableTypes /\ QueueTypes
  BY TypeParts DEF BaseInv
<1> USE PipelineAssumption, <1>0 DEF QueueTypes
<1>1. CASE GitHubEvent
  BY <1>1, GitHubEventSteps DEF BaseInv, Grows, EventRest, queue
<1>2. ASSUME NEW d \in Deliveries, Redeliver(d) \/ Lose(d) PROVE QueueTypes'
  BY <1>2, DeliverySteps DEF queue
<1>3. ASSUME NEW h \in Handlers, RequestStep(h) PROVE QueueTypes'
  <2>1. UNCHANGED run
    BY <1>3, RequestSteps
  <2>2. CASE HandlerStep(h)
    <3>1. Event(h).inst \in Installs
      BY <2>2, AtWork
    <3>2. CASE Record(h) \/ GetRepo(h) \/ Done(h) \/ HandlerFails(h) \/ UpsertInstallation(h)
      BY <2>1, <3>2 DEF Record, GetRepo, Done, HandlerFails, UpsertInstallation, queue
    <3>3. ASSUME NEW r \in Repos, SubmitJob(h, r) PROVE QueueTypes'
      BY <2>1, <3>1, <3>3 DEF SubmitJob, Slot!Submit, Slot!Move
    <3>4. CASE UNCHANGED queue
      BY <2>1, <3>4 DEF queue
    <3>5. CASE ClearFinished(h)
      BY <2>1, <3>5 DEF ClearFinished, Slot!Clear, Slot!Move
    <3>6. ASSUME NEW r \in Repos, EnqueueIngest(h, r) PROVE QueueTypes'
      BY <3>3, <3>4, <3>6 DEF EnqueueIngest, Coalesce
    <3>7. CASE Reenqueue(h)
      <4>1. cur[h] \in Repos
        BY <3>7 DEF Reenqueue, BaseInv, HandlerInv, TypeOK
      <4> QED
        BY <3>3, <3>4, <3>7, <4>1 DEF Reenqueue, Coalesce
    <3>8. CASE \/ ListRepoIDs(h) \/ StartRemoval(h) \/ DeleteInstallation(h)
               \/ (\E r \in Repos : DeleteRepo(h, r)) \/ (\E x \in Ids : PurgeIndex(h, x))
      BY <3>4, <3>8 DEF ListRepoIDs, StartRemoval, DeleteInstallation, DeleteRepo, PurgeIndex, OffboardRest
    <3> QED
      BY <2>2, <3>2, <3>5, <3>6, <3>7, <3>8 DEF HandlerStep
  <2>3. CASE \E d \in Deliveries : Receive(h, d)
    BY <2>1, <2>3 DEF Receive, queue
  <2> QED
    BY <1>3, <2>2, <2>3 DEF RequestStep
<1>4. ASSUME NEW r \in Repos, JobStep(r) PROVE QueueTypes'
  <2>0. UNCHANGED payload /\ run[r] \in Run
    BY <1>4, JobSteps DEF RunRest
  <2> USE DEF Slot!Move
  <2>1. CASE StartRun(r)
    <3>1. [run[r] EXCEPT !.phase = "started"] \in Run
      BY <2>0 DEF Run, Phases
    <3> QED
      BY <2>0, <2>1, <3>1 DEF StartRun, Slot!Start
  <2>2. CASE Fetch(r)
    <3>1. head[r] \in 0 .. MaxHead
      BY DEF BaseInv, TypeOK
    <3>2. [run[r] EXCEPT !.phase = "fetched", !.ver = head[r]] \in Run
      BY <2>0, <3>1, RunFetched, Zenon DEF Phases
    <3> DEFINE x == [run[r] EXCEPT !.phase = "fetched", !.ver = head[r]]
    <3>3. x.phase = "fetched"
      BY <2>0 DEF Run
    <3>4. run' = [run EXCEPT ![r] = x] /\ UNCHANGED <<slot, tries>> /\ run[r].phase = "started"
      BY <2>2 DEF Fetch
    <3> HIDE DEF x
    <3> QED
      BY <2>0, <3>2, <3>3, <3>4 DEF x
  <2>3. CASE Reconcile(r)
    <3>1. PICK i \in Ids, c \in {None, run[r].ver} :
            run' = [run EXCEPT ![r].phase = "committed", ![r].id = i, ![r].rec = c]
      BY <2>3 DEF Reconcile
    <3>2. run[r].phase = "fetched" /\ UNCHANGED <<slot, tries>>
      BY <2>3 DEF Reconcile
    <3>3. run[r].ver \in 1 .. head[r] /\ head[r] \in 1 .. MaxHead
      BY <3>2 DEF BaseInv, RunInv, RunOK, TypeOK
    <3> DEFINE x == [run[r] EXCEPT !.phase = "committed", !.id = i, !.rec = c]
    <3>4. c \in 1 .. MaxHead \cup {None} /\ i \in 0 .. MaxId
      BY <3>1, <3>3 DEF Ids
    <3>5. x \in Run
      BY <2>0, <3>4, RunCommitted, Zenon DEF Phases
    <3>6. x.phase = "committed"
      BY <2>0 DEF Run
    <3>7. run' = [run EXCEPT ![r] = x]
      BY <3>1
    <3> HIDE DEF x
    <3> QED
      BY <2>0, <3>2, <3>5, <3>6, <3>7
  <2>4. CASE Readback(r)
    <3> DEFINE c == IF run[r].rec # None /\ row[r] # None /\ row[r].id = run[r].id THEN row[r].ver ELSE None
               x == [run[r] EXCEPT !.phase = "read", !.rec = c]
    <3>1. c \in 1 .. MaxHead \cup {None}
      BY DEF TableTypes, Row
    <3>2. run' = [run EXCEPT ![r] = x] /\ run[r].phase = "committed" /\ UNCHANGED <<slot, tries>>
      BY <2>4 DEF Readback
    <3> HIDE DEF c
    <3>3. x \in Run
      BY <2>0, <3>1, RunRead, Zenon DEF Phases
    <3>4. x.phase = "read"
      BY <2>0 DEF Run
    <3> HIDE DEF x
    <3> QED
      BY <2>0, <3>2, <3>3, <3>4
  <2>5. CASE IndexDocuments(r) \/ SyncFails(r)
    <3>1. EndRun(r) /\ Slot!Finish(r) /\ UNCHANGED tries
      BY <2>5 DEF IndexDocuments, SyncFails
    <3> QED
      BY <2>0, <3>1, NoRunType DEF EndRun, Slot!Finish, NoRun
  <2>6. CASE RunFails(r)
    <3>1. EndRun(r)
      BY <2>6 DEF RunFails
    <3>2. \/ Slot!Again(r) /\ tries' = [tries EXCEPT ![r] = @ + 1] /\ tries[r] < MaxRetry
          \/ Slot!Park(r) /\ UNCHANGED tries
      BY <2>6 DEF RunFails
    <3>3. tries' \in [Repos -> 0 .. MaxRetry]
      BY <3>2
    <3>4. slot' \in [Repos -> {"free", "waiting", "running", "parked"}]
          /\ slot'[r] # "running" /\ \A q \in Repos \ {r} : slot'[q] = slot[q]
      BY <3>2 DEF Slot!Again, Slot!Park
    <3>5. run' \in [Repos -> Run] /\ run'[r] = NoRun /\ \A q \in Repos \ {r} : run'[q] = run[q]
      BY <3>1, NoRunType DEF EndRun
    <3> QED
      BY <2>0, <3>3, <3>4, <3>5 DEF NoRun
  <2>7. CASE ExpireArchived(r)
    BY <2>0, <2>7 DEF ExpireArchived, Slot!Expire
  <2> QED
    BY <1>4, <2>1, <2>2, <2>3, <2>4, <2>5, <2>6, <2>7 DEF JobStep, RunStep
<1> QED
  BY <1>1, <1>2, <1>3, <1>4, NextSteps
-----------------------------------------------------------------------------
(***************************************************************************)
(* History.                                                                *)
(***************************************************************************)
LEMMA ExcusingBounds ==
  ASSUME BaseInv, NEW d \in Deliveries, NEW rs
  PROVE  /\ Excusing(d, rs) \in [Repos -> Nat]
         /\ \A r \in Repos :
              /\ excused[r] <= Excusing(d, rs)[r] /\ Excusing(d, rs)[r] <= head[r]
              /\ r \in rs /\ sent[d].kind \in Triggers => sent[d].ver[r] <= Excusing(d, rs)[r]
<1> SUFFICES ASSUME NEW r \in Repos
             PROVE  /\ Excusing(d, rs)[r] \in Nat
                    /\ excused[r] <= Excusing(d, rs)[r] /\ Excusing(d, rs)[r] <= head[r]
                    /\ r \in rs /\ sent[d].kind \in Triggers => sent[d].ver[r] <= Excusing(d, rs)[r]
  BY DEF Excusing
<1>1. head[r] \in Nat /\ excused[r] \in Nat /\ excused[r] <= head[r]
  BY DEF BaseInv, TypeOK, HistoryOK
<1>2. sent[d] \in Delivery /\ sent[d].ver[r] <= head[r]
  BY DEF BaseInv, TypeOK, GitHubInv, Deliveries
<1>3. sent[d].ver[r] \in Nat
  BY <1>2 DEF Delivery
<1>4. Excusing(d, rs)[r] = IF r \in rs /\ sent[d].kind \in Triggers
                           THEN Later(excused[r], sent[d].ver[r]) ELSE excused[r]
  BY DEF Excusing
<1> QED
  BY <1>1, <1>2, <1>3, <1>4 DEF Later

\* What is excused stays so, and never beyond HEAD.
ExcusedGrows ==
  /\ excused' \in [Repos -> Nat]
  /\ \A r \in Repos : excused[r] <= excused'[r] /\ excused'[r] <= head'[r]

LEMMA ExcusedStep == BaseInv /\ Next => ExcusedGrows
<1> SUFFICES ASSUME BaseInv, Next PROVE ExcusedGrows
  OBVIOUS
<1>0. excused \in [Repos -> Nat] /\ head \in [Repos -> Nat] /\ \A r \in Repos : excused[r] <= head[r]
  BY DEF BaseInv, TypeOK, HistoryOK
<1>a. ASSUME UNCHANGED excused, \A r \in Repos : head'[r] \in Nat /\ head[r] <= head'[r] PROVE ExcusedGrows
  BY <1>0, <1>a DEF ExcusedGrows
<1>b. ASSUME NEW d \in Deliveries, NEW rs, excused' = Excusing(d, rs), UNCHANGED head PROVE ExcusedGrows
  BY <1>0, <1>b, ExcusingBounds DEF ExcusedGrows
<1>1. CASE GitHubEvent
  <2>1. UNCHANGED excused /\ head' \in [Repos -> 1 .. MaxHead] /\ \A r \in Repos : head[r] <= head'[r]
    BY <1>1, GitHubEventSteps DEF BaseInv, Grows, EventRest, GitHubTypes
  <2> QED
    BY <1>a, <2>1
<1>2. ASSUME NEW d \in Deliveries, Redeliver(d) \/ Lose(d) PROVE ExcusedGrows
  BY <1>0, <1>2, <1>a, <1>b DEF Redeliver, Lose, history, Excuse
<1>3. ASSUME NEW h \in Handlers, RequestStep(h) PROVE ExcusedGrows
  <2>1. UNCHANGED head
    BY <1>3, RequestSteps DEF world
  <2>2. CASE UNCHANGED excused
    BY <1>0, <1>a, <2>1, <2>2
  <2>3. CASE HandlerStep(h)
    <3>0. dlv[h] \in Deliveries
      BY <2>3, AtWork
    <3>a. ASSUME NEW r, Excuse(dlv[h], {r}) PROVE ExcusedGrows
      BY <1>b, <2>1, <3>0, <3>a DEF Excuse
    <3>1. CASE Record(h) \/ Done(h) \/ UpsertInstallation(h) \/ ClearFinished(h) \/ ListRepoIDs(h)
               \/ DeleteInstallation(h) \/ StartRemoval(h) \/ (\E x \in Ids : PurgeIndex(h, x))
      BY <2>2, <3>1 DEF Record, Done, UpsertInstallation, ClearFinished, ListRepoIDs, DeleteInstallation,
         StartRemoval, PurgeIndex, history
    <3>2. CASE GetRepo(h)
      BY <2>2, <3>a, <3>2 DEF GetRepo
    <3>3. ASSUME NEW r \in Repos, EnqueueIngest(h, r) PROVE ExcusedGrows
      BY <2>2, <3>a, <3>3 DEF EnqueueIngest, Coalesce
    <3>4. CASE Reenqueue(h)
      BY <2>2, <3>a, <3>4 DEF Reenqueue, Coalesce
    <3>5. ASSUME NEW r \in Repos, DeleteRepo(h, r) PROVE ExcusedGrows
      <4>1. excused' = excused \/ excused' = [excused EXCEPT ![r] = head[r]]
        BY <3>5 DEF DeleteRepo
      <4> QED
        BY <1>0, <2>1, <4>1 DEF ExcusedGrows
    <3>6. CASE HandlerFails(h)
      <4>1. \/ excused' = Excusing(dlv[h], Undone(h))
            \/ excused' = [Excusing(dlv[h], Undone(h)) EXCEPT ![cur[h]] = head[cur[h]]] /\ pc[h] = "reenqueue"
        BY <3>6 DEF HandlerFails
      <4>2. pc[h] = "reenqueue" => cur[h] \in Repos
        BY DEF BaseInv, HandlerInv, TypeOK
      <4>3. /\ Excusing(dlv[h], Undone(h)) \in [Repos -> Nat]
            /\ \A r \in Repos : /\ excused[r] <= Excusing(dlv[h], Undone(h))[r]
                                /\ Excusing(dlv[h], Undone(h))[r] <= head[r]
        BY <3>0, ExcusingBounds
      <4> QED
        BY <1>0, <2>1, <4>1, <4>2, <4>3 DEF ExcusedGrows
    <3> QED
      BY <2>3, <3>1, <3>2, <3>3, <3>4, <3>5, <3>6 DEF HandlerStep
  <2>4. CASE \E d \in Deliveries : Receive(h, d)
    BY <2>2, <2>4 DEF Receive, history
  <2> QED
    BY <1>3, <2>3, <2>4 DEF RequestStep
<1>4. ASSUME NEW r \in Repos, JobStep(r) PROVE ExcusedGrows
  <2>1. UNCHANGED head
    BY <1>4, JobSteps DEF RunRest, github
  <2>2. excused' = excused \/ excused' = [excused EXCEPT ![r] = head[r]]
    BY <1>4 DEF JobStep, RunStep, StartRun, Fetch, Reconcile, Readback, IndexDocuments, SyncFails, RunFails,
       ExpireArchived
  <2> QED
    BY <1>0, <2>1, <2>2 DEF ExcusedGrows
<1> QED
  BY <1>1, <1>2, <1>3, <1>4, NextSteps

\* How "routed" and "recorded" go together.
Routing ==
  /\ routed' \in Seq(Nat) /\ Len(routed') = Len(sent')
  /\ RoutedInv => RoutedInv'

LEMMA RoutingStep == BaseInv /\ Next => Routing
<1> SUFFICES ASSUME BaseInv, Next PROVE Routing
  OBVIOUS
<1>0. routed \in Seq(Nat) /\ Len(routed) = Len(sent) /\ Len(sent) \in Nat
  BY DEF BaseInv, HistoryOK, TypeOK
<1>a. ASSUME UNCHANGED <<routed, sent>>, recorded \subseteq recorded' PROVE Routing
  BY <1>0, <1>a DEF Routing, RoutedInv, Deliveries
<1>1. CASE GitHubEvent
  <2>1. Sent(Len(sent) + 1) /\ UNCHANGED recorded
    BY <1>1, GitHubEventSteps DEF BaseInv, Grows, EventRest, tables
  <2>2. \A e : e \in Deliveries' <=> e \in Deliveries \/ e = Len(sent) + 1
    BY <1>0, <2>1 DEF Deliveries, Sent
  <2> QED
    BY <2>1, <2>2 DEF Routing, RoutedInv, Sent
<1>2. ASSUME NEW d \in Deliveries, Redeliver(d) \/ Lose(d) PROVE Routing
  BY <1>2, <1>a, DeliverySteps DEF world, tables
<1>3. ASSUME NEW h \in Handlers, RequestStep(h) PROVE Routing
  <2>1. UNCHANGED sent
    BY <1>3, RequestSteps DEF world
  <2>2. CASE UNCHANGED routed /\ recorded \subseteq recorded'
    BY <1>a, <2>1, <2>2
  <2>3. CASE HandlerStep(h)
    <3>1. CASE Done(h) \/ UpsertInstallation(h) \/ GetRepo(h) \/ HandlerFails(h)
      BY <2>2, <3>1 DEF Done, UpsertInstallation, GetRepo, HandlerFails, history, tables
    <3>2. CASE (\E r \in Repos : EnqueueIngest(h, r)) \/ ClearFinished(h) \/ Reenqueue(h)
      BY <2>2, <3>2 DEF EnqueueIngest, ClearFinished, Reenqueue, QueueRest, tables
    <3>3. CASE ListRepoIDs(h) \/ DeleteInstallation(h) \/ StartRemoval(h)
               \/ (\E x \in Ids : PurgeIndex(h, x)) \/ (\E r \in Repos : DeleteRepo(h, r))
      BY <2>2, <3>3 DEF ListRepoIDs, DeleteInstallation, StartRemoval, PurgeIndex, DeleteRepo, OffboardRest
    <3>4. CASE Record(h)
      <4>1. CASE /\ dlv[h] \notin recorded /\ recorded' = recorded \cup {dlv[h]}
                 /\ routed' = [routed EXCEPT ![dlv[h]] = @ + 1]
        <5>1. dlv[h] \in Deliveries /\ Deliveries = 1 .. Len(routed) /\ Deliveries' = Deliveries
          BY <1>0, <2>1, <2>3, AtWork DEF Deliveries
        <5>2. routed' \in Seq(Nat) /\ Len(routed') = Len(routed)
              /\ routed'[dlv[h]] = routed[dlv[h]] + 1
              /\ \A d \in Deliveries \ {dlv[h]} : routed'[d] = routed[d]
          BY <1>0, <4>1, <5>1
        <5> QED
          BY <1>0, <2>1, <4>1, <5>1, <5>2 DEF Routing, RoutedInv
      <4> QED
        BY <2>2, <3>4, <4>1 DEF Record, RecordDelivery
    <3> QED
      BY <2>3, <3>1, <3>2, <3>3, <3>4 DEF HandlerStep
  <2>4. CASE \E d \in Deliveries : Receive(h, d)
    BY <2>2, <2>4 DEF Receive, history, tables
  <2> QED
    BY <1>3, <2>3, <2>4 DEF RequestStep
<1>4. ASSUME NEW r \in Repos, JobStep(r) PROVE Routing
  BY <1>4, <1>a, JobSteps DEF RunRest, github
<1> QED
  BY <1>1, <1>2, <1>3, <1>4, NextSteps

LEMMA LeftoverStep == BaseInv /\ Next => leftover' \subseteq Installs /\ leftover \subseteq leftover'
<1> DEFINE P == leftover' \subseteq Installs /\ leftover \subseteq leftover'
<1> SUFFICES ASSUME BaseInv, Next PROVE P
  OBVIOUS
<1>a. leftover \subseteq Installs /\ \A d \in Deliveries : sent[d].inst \in Installs
  BY DEF BaseInv, HistoryOK, TypeOK, GitHubInv
<1>1. CASE GitHubEvent
  BY <1>1, <1>a, GitHubEventSteps DEF BaseInv, Grows, EventRest
<1>2. ASSUME NEW d \in Deliveries, Redeliver(d) \/ Lose(d) PROVE P
  BY <1>2, <1>a DEF Redeliver, Lose, history, LeaveOver
<1>3. ASSUME NEW h \in Handlers, RequestStep(h) PROVE P
  <2>1. CASE HandlerStep(h)
    <3>1. dlv[h] \in Deliveries /\ Event(h).inst \in Installs
      BY <2>1, AtWork
    <3>2. CASE Record(h) \/ Done(h) \/ GetRepo(h)
      BY <1>a, <3>2 DEF Record, Done, GetRepo, history
    <3>3. CASE (\E r \in Repos : EnqueueIngest(h, r)) \/ ClearFinished(h) \/ Reenqueue(h)
      BY <1>a, <3>3 DEF EnqueueIngest, ClearFinished, Reenqueue, QueueRest
    <3>4. CASE ListRepoIDs(h) \/ DeleteInstallation(h) \/ StartRemoval(h)
               \/ (\E x \in Ids : PurgeIndex(h, x)) \/ (\E r \in Repos : DeleteRepo(h, r))
      BY <1>a, <3>4 DEF ListRepoIDs, DeleteInstallation, StartRemoval, PurgeIndex, DeleteRepo, OffboardRest
    <3>5. CASE UpsertInstallation(h) \/ HandlerFails(h)
      BY <1>a, <3>1, <3>5 DEF UpsertInstallation, HandlerFails, LeaveOver
    <3> QED
      BY <2>1, <3>2, <3>3, <3>4, <3>5 DEF HandlerStep
  <2>2. CASE \E d \in Deliveries : Receive(h, d)
    BY <1>a, <2>2 DEF Receive, history
  <2> QED
    BY <1>3, <2>1, <2>2 DEF RequestStep
<1>4. ASSUME NEW r \in Repos, JobStep(r) PROVE P
  BY <1>4, <1>a, JobSteps DEF RunRest
<1> QED
  BY <1>1, <1>2, <1>3, <1>4, NextSteps

LEMMA LagStep == BaseInv /\ Next => lag' \subseteq Ids
<1> SUFFICES ASSUME BaseInv, Next PROVE lag' \subseteq Ids
  OBVIOUS
<1>a. lag \subseteq Ids /\ \A h \in Handlers : ids[h] \subseteq Ids
  BY DEF BaseInv, HistoryOK, TypeOK
<1>1. CASE GitHubEvent
  BY <1>1, <1>a, GitHubEventSteps DEF BaseInv, Grows, EventRest
<1>2. ASSUME NEW d \in Deliveries, Redeliver(d) \/ Lose(d) PROVE lag' \subseteq Ids
  BY <1>2, <1>a, DeliverySteps
<1>3. ASSUME NEW h \in Handlers, RequestStep(h) PROVE lag' \subseteq Ids
  <2>1. CASE Record(h) \/ Done(h) \/ GetRepo(h) \/ UpsertInstallation(h)
    BY <1>a, <2>1 DEF Record, Done, GetRepo, UpsertInstallation, history
  <2>2. CASE (\E r \in Repos : EnqueueIngest(h, r)) \/ ClearFinished(h) \/ Reenqueue(h)
    BY <1>a, <2>2 DEF EnqueueIngest, ClearFinished, Reenqueue, QueueRest
  <2>3. CASE ListRepoIDs(h) \/ DeleteInstallation(h) \/ StartRemoval(h) \/ (\E r \in Repos : DeleteRepo(h, r))
    BY <1>a, <2>3 DEF ListRepoIDs, DeleteInstallation, StartRemoval, DeleteRepo
  <2>4. CASE HandlerFails(h) \/ (\E x \in Ids : PurgeIndex(h, x))
    BY <1>a, <2>4 DEF HandlerFails, PurgeIndex
  <2>5. CASE \E d \in Deliveries : Receive(h, d)
    BY <1>a, <2>5 DEF Receive, history
  <2> QED
    BY <1>3, <2>1, <2>2, <2>3, <2>4, <2>5 DEF RequestStep, HandlerStep
<1>4. ASSUME NEW r \in Repos, JobStep(r) PROVE lag' \subseteq Ids
  <2>1. run[r].phase \in {"committed", "read"} => run[r].id \in Ids
    BY DEF BaseInv, RunInv, RunOK
  <2> QED
    BY <1>4, <1>a, <2>1 DEF JobStep, RunStep, StartRun, Fetch, Reconcile, Readback, IndexDocuments, SyncFails,
       RunFails, ExpireArchived
<1> QED
  BY <1>1, <1>2, <1>3, <1>4, NextSteps
-----------------------------------------------------------------------------
(***************************************************************************)
(* GitHub, requests and runs.                                              *)
(***************************************************************************)
\* Deliveries are never changed, HEAD never goes back, an installation id stays used.
WorldGrows ==
  /\ Len(sent) <= Len(sent') /\ \A d \in Deliveries : d \in Deliveries' /\ sent'[d] = sent[d]
  /\ \A r \in Repos : head[r] <= head'[r]
  /\ used \subseteq used'

LEMMA GitHubStep == BaseInv /\ Next => GitHubTypes' /\ GitHubInv' /\ WorldGrows
<1> SUFFICES ASSUME BaseInv, Next PROVE GitHubTypes' /\ GitHubInv' /\ WorldGrows
  OBVIOUS
<1>0. GitHubTypes /\ GitHubInv /\ Len(sent) \in Nat
  BY TypeParts DEF BaseInv, TypeOK
<1>1. CASE GitHubEvent
  <2>1. GitHubTypes' /\ GitHubInv' /\ Grows
    BY <1>1, GitHubEventSteps DEF BaseInv
  <2>2. WorldGrows
    BY <1>0, <2>1 DEF WorldGrows, Grows, Sent, Deliveries
  <2> QED
    BY <2>1, <2>2
<1>2. CASE UNCHANGED world
  <2>1. GitHubTypes' /\ GitHubInv'
    BY <1>0, <1>2 DEF world, GitHubTypes, GitHubInv, Deliveries
  <2>2. \A r \in Repos : head[r] <= head[r]
    BY <1>0 DEF GitHubTypes
  <2>3. WorldGrows
    BY <1>0, <1>2, <2>2 DEF world, WorldGrows, Deliveries
  <2> QED
    BY <2>1, <2>3
<1>3. GitHubEvent \/ UNCHANGED world
  BY NextSteps, DeliverySteps, RequestSteps, JobSteps DEF RunRest, github, world
<1> QED
  BY <1>1, <1>2, <1>3

LEMMA InstsStep == BaseInv /\ Next => insts' \subseteq used'
<1> SUFFICES ASSUME BaseInv, Next PROVE insts' \subseteq used'
  OBVIOUS
<1>a. insts \subseteq used /\ used \subseteq used'
  BY GitHubStep DEF BaseInv, WorldGrows
<1>1. CASE UNCHANGED insts
  BY <1>1, <1>a
<1>2. ASSUME NEW h \in Handlers, RequestStep(h) PROVE insts' \subseteq used'
  <2>1. CASE UpsertInstallation(h)
    <3>1. Event(h).inst \in used
      BY <2>1, AtWork DEF HandlerStep, BaseInv, GitHubInv, Event
    <3> QED
      BY <1>a, <2>1, <3>1 DEF UpsertInstallation
  <2>2. CASE DeleteInstallation(h)
    BY <1>a, <2>2 DEF DeleteInstallation
  <2>3. CASE Record(h) \/ Done(h) \/ GetRepo(h) \/ HandlerFails(h)
    BY <1>1, <2>3 DEF Record, Done, GetRepo, HandlerFails, tables
  <2>4. CASE (\E r \in Repos : EnqueueIngest(h, r)) \/ ClearFinished(h) \/ Reenqueue(h)
    BY <1>1, <2>4 DEF EnqueueIngest, ClearFinished, Reenqueue, QueueRest, tables
  <2>5. CASE ListRepoIDs(h) \/ StartRemoval(h) \/ (\E r \in Repos : DeleteRepo(h, r))
               \/ (\E x \in Ids : PurgeIndex(h, x))
    BY <1>1, <2>5 DEF ListRepoIDs, StartRemoval, DeleteRepo, PurgeIndex
  <2>6. CASE \E d \in Deliveries : Receive(h, d)
    BY <1>1, <2>6 DEF Receive, tables
  <2> QED
    BY <1>2, <2>1, <2>2, <2>3, <2>4, <2>5, <2>6 DEF RequestStep, HandlerStep
<1>3. GitHubEvent => UNCHANGED insts
  BY GitHubEventSteps DEF BaseInv, Grows, EventRest, tables
<1> QED
  BY <1>1, <1>2, <1>3, NextSteps, DeliverySteps, JobSteps DEF tables

LEMMA HandlerInvStep == BaseInv /\ Next => HandlerInv'
<1> SUFFICES ASSUME BaseInv, Next PROVE HandlerInv'
  OBVIOUS
<1>a. /\ HandlerInv /\ RequestTypes
      /\ \A d \in Deliveries : d \in Deliveries' /\ sent'[d] = sent[d]
  BY TypeParts, GitHubStep DEF BaseInv, WorldGrows
<1> USE DEF HandlerInv, Event
<1>1. CASE UNCHANGED requests
  BY <1>1, <1>a DEF requests
<1>2. ASSUME NEW h \in Handlers, RequestStep(h) PROVE HandlerInv'
  <2> USE <1>a DEF RequestTypes
  <2>1. UNCHANGED sent /\ Deliveries' = Deliveries
    BY <1>2, RequestSteps DEF world, Deliveries
  <2>2. CASE Respond(h)
    BY <2>1, <2>2 DEF Respond, Goto
  <2>3. CASE HandlerStep(h)
    <3>1. dlv[h] \in Deliveries
      BY <2>3, AtWork
    <3>2. CASE Record(h)
      <4>1. CASE Goto(h, "route") /\ UNCHANGED <<dlv, todo, ids, cur>>
        BY <2>1, <3>1, <4>1 DEF Goto
      <4> QED
        BY <2>2, <3>2, <4>1 DEF Record, RecordDelivery
    <3>3. CASE Done(h) \/ HandlerFails(h)
      BY <2>2, <3>3 DEF Done, HandlerFails
    <3>4. CASE UpsertInstallation(h)
      BY <2>1, <3>1, <3>4 DEF UpsertInstallation, Goto, Triggers
    <3>5. CASE GetRepo(h)
      <4>1. CASE Goto(h, "enqueue") /\ UNCHANGED <<dlv, cur>> /\ Event(h).kind = "push"
                 /\ \E r \in Event(h).repos : todo' = [todo EXCEPT ![h] = {r}]
        BY <2>1, <3>1, <4>1 DEF Goto, Triggers
      <4> QED
        BY <2>2, <3>5, <4>1 DEF GetRepo
    <3>6. ASSUME NEW r \in Repos, EnqueueIngest(h, r) PROVE HandlerInv'
      <4>0. pc[h] = "enqueue" /\ r \in todo[h] /\ UNCHANGED dlv
        BY <3>6 DEF EnqueueIngest, QueueRest
      <4>1. CASE Enqueued(h, r) /\ UNCHANGED <<pc, cur>>
        BY <2>1, <4>0, <4>1 DEF Enqueued
      <4>2. CASE Goto(h, "clear") /\ cur' = [cur EXCEPT ![h] = r] /\ UNCHANGED todo
        BY <2>1, <3>1, <4>0, <4>2 DEF Goto
      <4> QED
        BY <3>6, <4>1, <4>2 DEF EnqueueIngest, SubmitJob, Coalesce
    <3>7. CASE ClearFinished(h)
      BY <2>1, <3>7 DEF ClearFinished, QueueRest, Goto
    <3>8. CASE Reenqueue(h)
      <4>1. pc[h] = "reenqueue" /\ Goto(h, "enqueue") /\ cur' = [cur EXCEPT ![h] = None]
            /\ Enqueued(h, cur[h]) /\ UNCHANGED dlv
        BY <3>8 DEF Reenqueue, SubmitJob, Coalesce, QueueRest
      <4> QED
        BY <2>1, <3>1, <4>1 DEF Goto, Enqueued
    <3>9. CASE ListRepoIDs(h) \/ DeleteInstallation(h) \/ StartRemoval(h)
      BY <2>1, <3>1, <3>9 DEF ListRepoIDs, DeleteInstallation, StartRemoval, OffboardRest, Goto
    <3>10. CASE (\E r \in Repos : DeleteRepo(h, r)) \/ (\E x \in Ids : PurgeIndex(h, x))
      <4>1. pc[h] = "offboard" /\ UNCHANGED <<pc, dlv, cur>>
            /\ \A g \in Handlers : g # h => todo'[g] = todo[g]
        BY <3>10 DEF DeleteRepo, PurgeIndex, OffboardRest
      <4> QED
        BY <2>1, <4>1
    <3> QED
      BY <2>3, <3>2, <3>3, <3>4, <3>5, <3>6, <3>7, <3>8, <3>9, <3>10 DEF HandlerStep
  <2>4. ASSUME NEW d \in Deliveries, Receive(h, d) PROVE HandlerInv'
    BY <2>1, <2>4 DEF Receive, Goto
  <2> QED
    BY <1>2, <2>3, <2>4 DEF RequestStep
<1>3. GitHubEvent => UNCHANGED requests
  BY GitHubEventSteps DEF BaseInv, Grows, EventRest
<1> QED
  BY <1>1, <1>2, <1>3, NextSteps, DeliverySteps, JobSteps DEF RunRest

\* A run that is as it was stays consistent while rows disappear and HEAD moves on.
LEMMA RunOKFrame ==
  ASSUME BaseInv, NEW r \in Repos, run'[r] = run[r], row'[r] \in {row[r], None},
         slot'[r] \in {"waiting", "running"} => payload'[r] # None,
         head'[r] \in Nat, head[r] <= head'[r], nextId' \in Nat, nextId <= nextId',
         row'[r] # None => row[r].inst \in insts'
  PROVE  RunOK(r)'
<1>1. RunOK(r) /\ head[r] \in Nat /\ nextId \in Nat /\ run[r] \in Run /\ (row[r] # None => row[r] \in Row)
  BY PipelineAssumption, TypeParts DEF BaseInv, RunInv, GitHubTypes, QueueTypes, TableTypes
<1>2. run[r].ver \in Nat /\ run[r].id \in Nat
      /\ (row[r] # None => row[r].ver \in Nat /\ row[r].id \in Nat)
  BY <1>1 DEF Run, Row, Ids
<1> QED
  BY <1>1, <1>2 DEF RunOK

LEMMA RunInvStep == BaseInv /\ Next => RunInv'
<1> SUFFICES ASSUME BaseInv, Next PROVE RunInv'
  OBVIOUS
<1>a. /\ nextId \in Nat /\ head \in [Repos -> Nat]
      /\ \A r \in Repos : RunOK(r)
      /\ \A r \in Repos : head'[r] \in Nat /\ head[r] <= head'[r]
      /\ QueueTypes /\ TableTypes
  BY PipelineAssumption, TypeParts, GitHubStep
     DEF BaseInv, RunInv, GitHubTypes, QueueTypes, TableTypes, WorldGrows
<1>1. CASE GitHubEvent
  <2>1. UNCHANGED <<run, row, insts, nextId, slot, payload>>
    BY <1>1, GitHubEventSteps DEF BaseInv, Grows, EventRest, tables, queue
  <2> QED
    BY <1>a, <2>1, RunOKFrame DEF RunInv, RunOK
<1>2. ASSUME NEW d \in Deliveries, Redeliver(d) \/ Lose(d) PROVE RunInv'
  <2>1. UNCHANGED <<run, row, insts, nextId, slot, payload>>
    BY <1>2, DeliverySteps DEF tables, queue
  <2> QED
    BY <1>a, <2>1, RunOKFrame DEF RunInv, RunOK
<1>3. ASSUME NEW h \in Handlers, RequestStep(h) PROVE RunInv'
  <2>1. UNCHANGED <<run, nextId>>
    BY <1>3, RequestSteps
  <2>2. CASE UNCHANGED <<slot, payload>> /\ (\A r \in Repos : row'[r] \in {row[r], None}) /\ insts \subseteq insts'
    BY <1>a, <2>1, <2>2, RunOKFrame DEF RunInv, RunOK
  <2>3. CASE HandlerStep(h)
    <3>1. Event(h).inst \in Installs
      BY <2>3, AtWork
    <3>2. CASE Record(h) \/ Done(h) \/ GetRepo(h) \/ HandlerFails(h) \/ UpsertInstallation(h)
      BY <2>2, <3>2 DEF Record, Done, GetRepo, HandlerFails, UpsertInstallation, tables, queue
    <3>3. CASE ListRepoIDs(h) \/ StartRemoval(h) \/ (\E x \in Ids : PurgeIndex(h, x))
      BY <2>2, <3>3 DEF ListRepoIDs, StartRemoval, PurgeIndex, OffboardRest, queue
    <3>4. ASSUME NEW r \in Repos, DeleteRepo(h, r) PROVE RunInv'
      <4>1. row' = row \/ row' = [row EXCEPT ![r] = None]
        BY <3>4 DEF DeleteRepo
      <4>2. UNCHANGED <<slot, payload, insts>>
        BY <3>4 DEF DeleteRepo, OffboardRest, queue
      <4> QED
        BY <1>a, <2>2, <4>1, <4>2 DEF TableTypes
    <3>5. CASE DeleteInstallation(h)
      <4>1. UNCHANGED <<slot, payload>>
        BY <3>5 DEF DeleteInstallation, OffboardRest, queue
      <4>2. \A r \in Repos : row'[r] \in {row[r], None} /\ (row'[r] # None => row[r].inst \in insts')
        BY <1>a, <3>5 DEF DeleteInstallation, RunOK
      <4> QED
        BY <1>a, <2>1, <4>1, <4>2, RunOKFrame DEF RunInv, RunOK
    <3>6. ASSUME UNCHANGED <<row, insts>>,
                 \A r \in Repos : slot'[r] \in {"waiting", "running"} => payload'[r] # None
          PROVE  RunInv'
      BY <1>a, <2>1, <3>6, RunOKFrame DEF RunInv, RunOK
    <3>7. ASSUME NEW r \in Repos, SubmitJob(h, r), UNCHANGED <<row, insts>> PROVE RunInv'
      <4>1. \A q \in Repos : slot'[q] \in {"waiting", "running"} => payload'[q] # None
        BY <1>a, <3>1, <3>7, PipelineAssumption DEF SubmitJob, Slot!Submit, Slot!Move, QueueTypes, RunOK
      <4> QED
        BY <3>6, <3>7, <4>1
    <3>8. ASSUME NEW r \in Repos, EnqueueIngest(h, r) PROVE RunInv'
      <4>1. UNCHANGED <<row, insts>>
        BY <3>8 DEF EnqueueIngest, QueueRest, tables
      <4>2. SubmitJob(h, r) \/ UNCHANGED queue
        BY <3>8 DEF EnqueueIngest, Coalesce
      <4> QED
        BY <2>2, <3>7, <4>1, <4>2 DEF queue
    <3>9. CASE Reenqueue(h)
      <4>1. UNCHANGED <<row, insts>>
        BY <3>9 DEF Reenqueue, QueueRest, tables
      <4>2. SubmitJob(h, cur[h]) \/ UNCHANGED queue
        BY <3>9 DEF Reenqueue, Coalesce
      <4>3. cur[h] \in Repos
        BY <3>9 DEF Reenqueue, BaseInv, HandlerInv, TypeOK
      <4> QED
        BY <2>2, <3>7, <4>1, <4>2, <4>3 DEF queue
    <3>10. CASE ClearFinished(h)
      <4>1. UNCHANGED <<row, insts, payload>>
        BY <3>10 DEF ClearFinished, QueueRest, tables
      <4>2. slot' = slot \/ slot' = [slot EXCEPT ![cur[h]] = "free"]
        BY <3>10 DEF ClearFinished, Slot!Clear, Slot!Move
      <4>3. \A r \in Repos : slot'[r] \in {"waiting", "running"} => payload'[r] # None
        BY <1>a, <4>1, <4>2 DEF QueueTypes, RunOK
      <4> QED
        BY <3>6, <4>1, <4>3
    <3> QED
      BY <2>3, <3>2, <3>3, <3>4, <3>5, <3>8, <3>9, <3>10 DEF HandlerStep
  <2>4. CASE \E d \in Deliveries : Receive(h, d)
    BY <2>2, <2>4 DEF Receive, tables, queue
  <2> QED
    BY <1>3, <2>3, <2>4 DEF RequestStep
<1>4. ASSUME NEW r \in Repos, JobStep(r) PROVE RunInv'
  <2>0. UNCHANGED <<head, payload, insts>>
    BY <1>4, JobSteps DEF RunRest, github
  <2>1. /\ \A q \in Repos \ {r} : run'[q] = run[q] /\ row'[q] = row[q] /\ slot'[q] = slot[q]
        /\ nextId' \in Nat /\ nextId <= nextId'
    <3>1. CASE Reconcile(r)
      BY <1>a, <3>1 DEF Reconcile, QueueTypes, TableTypes
    <3>2. CASE ~Reconcile(r)
      BY <1>4, <1>a, <3>2 DEF JobStep, RunStep, StartRun, Fetch, Readback, IndexDocuments, SyncFails,
         RunFails, ExpireArchived, EndRun, Slot!Start, Slot!Finish, Slot!Again, Slot!Park, Slot!Expire,
         Slot!Move, QueueTypes
    <3> QED
      BY <3>1, <3>2
  <2>2. \A q \in Repos \ {r} : RunOK(q)'
    BY <1>a, <2>0, <2>1, RunOKFrame DEF RunOK
  <2>3. RunOK(r)'
    <3>0. /\ RunOK(r) /\ run[r] \in Run /\ head[r] \in Nat /\ slot[r] \in Slot!Slots
          /\ row[r] # None => row[r] \in Row
          /\ slot[r] = "running" <=> run[r].phase # "none"
      BY <1>a DEF QueueTypes, TableTypes, Slot!Slots
    <3> USE <1>a, <2>0, <3>0 DEF Slot!Move
    <3>1. CASE StartRun(r)
      <4>1. /\ run'[r].phase = "started" /\ UNCHANGED <<row, nextId>> /\ slot[r] = "waiting"
        BY <3>1 DEF StartRun, Slot!Start, QueueTypes, Run
      <4> QED
        BY <4>1 DEF RunOK
    <3>2. CASE Fetch(r)
      <4>1. /\ run'[r].phase = "fetched" /\ run'[r].ver = head[r]
            /\ UNCHANGED <<row, nextId, slot>> /\ run[r].phase = "started"
        BY <3>2 DEF Fetch, QueueTypes, Run
      <4>2. head[r] \in 1 .. head[r]
        BY DEF BaseInv, TypeOK
      <4> QED
        BY <4>1, <4>2 DEF RunOK
    <3>3. CASE Reconcile(r)
      <4> DEFINE id == IF row[r] = None THEN nextId ELSE row[r].id
      <4>1. /\ run[r].phase = "fetched" /\ payload[r] \in insts /\ id \in Ids /\ UNCHANGED slot
            /\ row'[r] = UpsertedRow(r, id) /\ nextId' = IF row[r] = None THEN nextId + 1 ELSE nextId
            /\ run'[r].phase = "committed" /\ run'[r].id = id /\ run'[r].ver = run[r].ver
            /\ run'[r].rec \in {None, run[r].ver}
        BY <3>3 DEF Reconcile, InstallationExists, QueueTypes, TableTypes, Run
      <4>2. row'[r].ver = run[r].ver /\ row'[r].id = id /\ row'[r].inst = payload[r]
        BY <4>1 DEF UpsertedRow
      <4>3. id < nextId' /\ run[r].ver <= head[r] /\ run[r].ver \in 1 .. head[r]
        BY <4>1 DEF RunOK, Row, Ids
      <4> HIDE DEF id
      <4> QED
        BY <4>1, <4>2, <4>3 DEF RunOK
    <3>4. CASE Readback(r)
      <4>1. /\ run'[r].phase = "read" /\ run'[r].ver = run[r].ver /\ run'[r].id = run[r].id
            /\ run'[r].rec = None \/ (row[r] # None /\ run'[r].rec = row[r].ver)
            /\ UNCHANGED <<row, nextId, slot>> /\ run[r].phase = "committed"
        BY <3>4 DEF Readback, QueueTypes, Run
      <4> QED
        BY <4>1 DEF RunOK
    <3>5. CASE IndexDocuments(r) \/ SyncFails(r) \/ RunFails(r)
      <4>1. /\ run'[r] = NoRun /\ UNCHANGED <<row, nextId>> /\ slot[r] = "running"
        BY <3>5 DEF IndexDocuments, SyncFails, RunFails, EndRun, QueueTypes
      <4> QED
        BY <4>1 DEF RunOK, NoRun
    <3>6. CASE ExpireArchived(r)
      <4>1. slot'[r] = "free" /\ UNCHANGED <<run, row, nextId>>
        BY <3>6 DEF ExpireArchived, Slot!Expire, QueueTypes
      <4> QED
        BY <4>1 DEF RunOK
    <3> QED
      BY <1>4, <3>1, <3>2, <3>3, <3>4, <3>5, <3>6 DEF JobStep, RunStep
  <2> QED
    BY <2>2, <2>3 DEF RunInv
<1> QED
  BY <1>1, <1>2, <1>3, <1>4, NextSteps

LEMMA BaseInit == Init => BaseInv /\ RoutedInv
<1> SUFFICES ASSUME Init PROVE BaseInv /\ RoutedInv
  OBVIOUS
<1> USE PipelineAssumption DEF Init
<1>0. 1 \in 1 .. MaxHead /\ 0 \in 0 .. MaxRetry /\ 0 \in 0 .. MaxAgain /\ 1 \in 1 .. MaxId + 1
  OBVIOUS
<1>1. Len(sent) = 0 /\ sent \in Seq(Delivery) /\ Deliveries = {} /\ 0 \in 0 .. Len(sent)
      /\ routed \in Seq(Nat) /\ Len(routed) = 0
  BY DEF Deliveries
<1>2. GitHubTypes
  BY <1>0, <1>1 DEF GitHubTypes
<1>3. RequestTypes
  BY <1>1 DEF RequestTypes, Steps
<1>4. TableTypes
  BY <1>0 DEF TableTypes
<1>5. QueueTypes
  BY <1>0, NoRunType DEF QueueTypes, Slot!SlotInit, NoRun
<1>6. HistoryOK
  BY <1>1 DEF HistoryOK
<1>7. GitHubInv /\ HandlerInv /\ RoutedInv
  BY <1>1 DEF GitHubInv, HandlerInv, RoutedInv
<1>8. RunInv
  BY DEF RunInv, RunOK, NoRun, Slot!SlotInit
<1> QED
  BY <1>2, <1>3, <1>4, <1>5, <1>6, <1>7, <1>8, TypeParts DEF BaseInv

LEMMA BaseStep == BaseInv /\ Next => BaseInv'
<1> SUFFICES ASSUME BaseInv, Next PROVE BaseInv'
  OBVIOUS
<1>1. TypeOK'
  BY TypeParts, GitHubStep, RequestTypesStep, TableTypesStep, QueueTypesStep, PTL
<1>2. HistoryOK'
  BY ExcusedStep, RoutingStep, LeftoverStep, LagStep DEF HistoryOK, ExcusedGrows, Routing
<1> QED
  BY <1>1, <1>2, GitHubStep, InstsStep, HandlerInvStep, RunInvStep DEF BaseInv
-----------------------------------------------------------------------------
(***************************************************************************)
(* Uninstalls.                                                             *)
(***************************************************************************)
LEMMA UninstallStep == BaseInv /\ UninstallInv /\ Next => UninstallInv'
<1> SUFFICES ASSUME BaseInv, UninstallInv, Next PROVE UninstallInv'
  OBVIOUS
<1>0. RequestTypes /\ Len(sent) \in Nat /\ \A d \in Deliveries : sent'[d] = sent[d]
  <2>1. RequestTypes /\ GitHubTypes
    BY TypeParts DEF BaseInv
  <2>2. Len(sent) \in Nat
    BY <2>1 DEF GitHubTypes
  <2>3. \A d \in Deliveries : sent'[d] = sent[d]
    BY GitHubStep DEF WorldGrows
  <2> QED
    BY <2>1, <2>2, <2>3
<1>1. CASE GitHubEvent
  <2>1. Sent(Len(sent) + 1) /\ UNCHANGED <<recorded, insts, leftover, pc, dlv>>
    BY <1>1, GitHubEventSteps DEF BaseInv, Grows, EventRest, tables, requests
  <2>2. \A e : e \in Deliveries' <=> e \in Deliveries \/ e = Len(sent) + 1
    BY <1>0, <2>1 DEF Deliveries, Sent
  <2>3. Len(sent) + 1 \in due' /\ Len(sent) + 1 \notin recorded' /\ due \subseteq due'
    BY <1>0, <2>1 DEF Sent, RequestTypes, Deliveries
  <2>4. \A e \in Deliveries : Offboarded(e) => Offboarded(e)'
    BY <1>0, <2>1, <2>3 DEF Offboarded
  <2>5. \A e : e = Len(sent) + 1 => Offboarded(e)'
    BY <2>3 DEF Offboarded
  <2> QED
    BY <1>0, <2>2, <2>4, <2>5 DEF UninstallInv
<1>2. ASSUME NEW e \in Deliveries, Redeliver(e) \/ Lose(e) PROVE UninstallInv'
  <2>1. UNCHANGED <<sent, recorded, insts, pc, dlv>>
    BY <1>2, DeliverySteps DEF world, tables, requests
  <2>2. \/ due \subseteq due' /\ leftover' = leftover
        \/ due' = due \ {e} /\ LeaveOver(e)
    BY <1>2 DEF Redeliver, Lose, history
  <2> QED
    BY <2>1, <2>2 DEF UninstallInv, Offboarded, LeaveOver, Deliveries
<1>3. ASSUME NEW h \in Handlers, RequestStep(h) PROVE UninstallInv'
  <2> SUFFICES ASSUME NEW d \in Deliveries, sent[d].kind = "deleted", Offboarded(d) PROVE Offboarded(d)'
    BY <1>0, <1>3, RequestSteps DEF UninstallInv, world, Deliveries
  <2>1. UNCHANGED sent
    BY <1>3, RequestSteps DEF world
  <2> USE <1>0, <2>1 DEF Offboarded, RequestTypes
  <2>2. CASE HandlerStep(h)
    <3>a. dlv[h] \in Deliveries /\ Event(h) = sent[dlv[h]]
      BY <2>2, AtWork DEF Event
    <3>1. CASE Record(h)
      <4>1. UNCHANGED <<due, insts, leftover>> /\ pc[h] = "received"
        BY <3>1 DEF Record, github
      <4>2. CASE dlv[h] \notin recorded /\ recorded' = recorded \cup {dlv[h]} /\ Goto(h, "route") /\ UNCHANGED dlv
        BY <4>1, <4>2 DEF Goto
      <4>3. CASE dlv[h] \in recorded /\ Respond(h) /\ UNCHANGED recorded
        BY <4>1, <4>3 DEF Respond, Goto
      <4> QED
        BY <3>1, <4>2, <4>3 DEF Record, RecordDelivery
    <3>2. CASE HandlerFails(h)
      <4>1. /\ UNCHANGED <<due, insts>> /\ Respond(h) /\ LeaveOver(dlv[h])
            /\ recorded' = recorded \/ recorded' = recorded \cup {dlv[h]}
        BY <3>2 DEF HandlerFails, github
      <4> QED
        BY <4>1 DEF Respond, Goto, LeaveOver
    <3>3. CASE UpsertInstallation(h)
      <4>1. /\ UNCHANGED <<due, dlv, recorded>> /\ Goto(h, "enqueue") /\ pc[h] = "route"
            /\ Event(h).kind # "deleted"
            /\ insts' = insts \cup {Event(h).inst}
            /\ leftover' = IF Event(h).inst \in active THEN leftover ELSE leftover \cup {Event(h).inst}
        BY <3>3 DEF UpsertInstallation, github
      <4>2. sent[d].inst \notin active
        BY DEF BaseInv, GitHubInv
      <4> QED
        BY <3>a, <4>1, <4>2 DEF Goto
    <3>4. CASE GetRepo(h) \/ StartRemoval(h)
      <4>1. /\ UNCHANGED <<due, recorded, insts, leftover>> /\ Event(h).kind # "deleted"
            /\ \A g \in Handlers \ {h} : pc'[g] = pc[g] /\ dlv'[g] = dlv[g]
        BY <3>4 DEF GetRepo, StartRemoval, OffboardRest, github, tables, Respond, Goto
      <4> QED
        BY <3>a, <4>1
    <3>5. CASE Done(h) \/ (\E r \in Repos : DeleteRepo(h, r)) \/ (\E x \in Ids : PurgeIndex(h, x))
      <4>1. /\ UNCHANGED <<due, recorded, insts, leftover>> /\ pc[h] \in {"enqueue", "offboard"}
            /\ \A g \in Handlers \ {h} : pc'[g] = pc[g] /\ dlv'[g] = dlv[g]
        BY <3>5 DEF Done, DeleteRepo, PurgeIndex, OffboardRest, github, tables, history, Respond, Goto
      <4> QED
        BY <4>1
    <3>6. CASE (\E r \in Repos : EnqueueIngest(h, r)) \/ ClearFinished(h) \/ Reenqueue(h)
      <4>1. /\ UNCHANGED <<due, recorded, insts, leftover, dlv>> /\ pc[h] \in {"enqueue", "clear", "reenqueue"}
            /\ \A g \in Handlers \ {h} : pc'[g] = pc[g]
        BY <3>6 DEF EnqueueIngest, ClearFinished, Reenqueue, QueueRest, github, tables, Goto
      <4> QED
        BY <4>1
    <3>7. CASE ListRepoIDs(h)
      BY <3>7 DEF ListRepoIDs, OffboardRest, github, Goto
    <3>8. CASE DeleteInstallation(h)
      <4>1. /\ UNCHANGED <<due, recorded, leftover, dlv>> /\ pc[h] = "uninstall" /\ Goto(h, "offboard")
            /\ insts' = insts \ {Event(h).inst}
        BY <3>8 DEF DeleteInstallation, OffboardRest, github
      <4> QED
        BY <3>a, <4>1 DEF Goto
    <3> QED
      BY <2>2, <3>1, <3>2, <3>3, <3>4, <3>5, <3>6, <3>7, <3>8 DEF HandlerStep
  <2>3. ASSUME NEW e \in Deliveries, Receive(h, e) PROVE Offboarded(d)'
    <3>1. /\ pc[h] = "idle" /\ due' = due \ {e} /\ Goto(h, "received") /\ dlv' = [dlv EXCEPT ![h] = e]
          /\ UNCHANGED <<recorded, insts, leftover>>
      BY <2>3 DEF Receive, tables, history
    <3> QED
      BY <3>1 DEF Goto
  <2> QED
    BY <1>3, <2>2, <2>3 DEF RequestStep
<1>4. ASSUME NEW r \in Repos, JobStep(r) PROVE UninstallInv'
  BY <1>4, JobSteps DEF RunRest, github, requests, UninstallInv, Offboarded, Deliveries
<1> QED
  BY <1>1, <1>2, <1>3, <1>4, NextSteps

LEMMA UninstallImplies == BaseInv /\ UninstallInv => UninstalledIsGone
<1> SUFFICES ASSUME BaseInv, UninstallInv, NEW r \in Repos, row[r] # None, row[r].inst \notin active
             PROVE  OffboardPending(row[r].inst) \/ row[r].inst \in leftover
  BY DEF UninstalledIsGone
<1>1. row[r].inst \in insts /\ row[r].inst \in used \ active
  BY DEF BaseInv, RunInv, RunOK
<1>2. PICK d \in Deliveries : sent[d].kind = "deleted" /\ sent[d].inst = row[r].inst
  BY <1>1 DEF BaseInv, GitHubInv
<1>3. Offboarded(d)
  BY <1>2 DEF UninstallInv
<1> QED
  BY <1>1, <1>2, <1>3 DEF Offboarded, OffboardPending, Event
-----------------------------------------------------------------------------
(***************************************************************************)
(* Search.                                                                 *)
(***************************************************************************)
SearchOK(r) ==
  row[r] # None =>
    /\ run[r].phase \notin {"committed", "read"} => Synced(r)
    /\ run[r].phase \in {"committed", "read"} => Synced(r) \/ run[r].rec = row[r].ver

\* Rows disappear, records are purged, syncs are known to lag: what search returns is not
\* taken for more than it is.
LEMMA SearchFrame ==
  ASSUME SearchInv, UNCHANGED run, \A r \in Repos : row'[r] \in {row[r], None},
         \A r \in Repos : row'[r] # None => \/ row[r].id \in lag'
                                            \/ index'[row[r].id] = index[row[r].id] /\ row[r].id \notin lag
  PROVE  SearchInv'
  BY DEF SearchInv, IdsInv, Synced

LEMMA SearchStep == BaseInv /\ SearchInv /\ Next => SearchInv'
<1> SUFFICES ASSUME BaseInv, SearchInv, Next PROVE SearchInv'
  OBVIOUS
<1>0. TableTypes /\ QueueTypes /\ \A r \in Repos : RunOK(r) /\ SearchOK(r)
  BY TypeParts DEF BaseInv, RunInv, SearchInv, SearchOK
<1>a. ASSUME UNCHANGED <<run, row, index>>, lag \subseteq lag' PROVE SearchInv'
  BY <1>a, SearchFrame
<1>1. GitHubEvent => UNCHANGED <<run, row, index, lag>>
  BY GitHubEventSteps DEF BaseInv, Grows, EventRest, tables
<1>2. ASSUME NEW d \in Deliveries, Redeliver(d) \/ Lose(d) PROVE UNCHANGED <<run, row, index, lag>>
  BY <1>2, DeliverySteps DEF tables
<1>3. ASSUME NEW h \in Handlers, RequestStep(h) PROVE SearchInv'
  <2>1. UNCHANGED run
    BY <1>3, RequestSteps
  <2>2. CASE Record(h) \/ Done(h) \/ GetRepo(h) \/ HandlerFails(h) \/ UpsertInstallation(h)
    BY <1>a, <2>1, <2>2 DEF Record, Done, GetRepo, HandlerFails, UpsertInstallation, tables, history
  <2>3. CASE (\E r \in Repos : EnqueueIngest(h, r)) \/ ClearFinished(h) \/ Reenqueue(h)
    BY <1>a, <2>1, <2>3 DEF EnqueueIngest, ClearFinished, Reenqueue, QueueRest, tables
  <2>4. CASE ListRepoIDs(h) \/ StartRemoval(h)
    BY <1>a, <2>1, <2>4 DEF ListRepoIDs, StartRemoval
  <2>5. CASE DeleteInstallation(h) \/ (\E r \in Repos : DeleteRepo(h, r))
    <3>1. UNCHANGED <<index, lag>> /\ \A r \in Repos : row'[r] \in {row[r], None}
      <4>1. CASE DeleteInstallation(h)
        BY <4>1 DEF DeleteInstallation
      <4>2. ASSUME NEW q \in Repos, DeleteRepo(h, q)
            PROVE  UNCHANGED <<index, lag>> /\ \A r \in Repos : row'[r] \in {row[r], None}
        <5>1. row' = row \/ row' = [row EXCEPT ![q] = None]
          BY <4>2 DEF DeleteRepo
        <5> QED
          BY <1>0, <4>2, <5>1 DEF DeleteRepo, TableTypes
      <4> QED
        BY <2>5, <4>1, <4>2
    <3> QED
      BY <2>1, <3>1, SearchFrame
  <2>6. ASSUME NEW x \in Ids, PurgeIndex(h, x) PROVE SearchInv'
    <3>1. UNCHANGED row
      BY <2>6 DEF PurgeIndex
    <3>2. CASE lag' = lag \cup {x} /\ UNCHANGED index
      BY <1>a, <2>1, <3>1, <3>2
    <3>3. CASE index' = Purged(x) /\ lag' = IF Live(x) THEN lag \cup {x} ELSE lag
      <4>1. \A r \in Repos : row[r] # None => row[r].id \in Ids
        BY <1>0 DEF TableTypes, Row
      <4> QED
        BY <1>0, <2>1, <3>1, <3>3, <4>1, SearchFrame DEF Purged, Live, TableTypes
    <3> QED
      BY <2>6, <3>2, <3>3 DEF PurgeIndex
  <2>7. CASE \E d \in Deliveries : Receive(h, d)
    BY <1>a, <2>7 DEF Receive, tables, history
  <2> QED
    BY <1>3, <2>2, <2>3, <2>4, <2>5, <2>6, <2>7 DEF RequestStep, HandlerStep
<1>4. ASSUME NEW r \in Repos, JobStep(r) PROVE SearchInv'
  <2>0. /\ run[r] \in Run /\ RunOK(r) /\ SearchOK(r) /\ (row[r] # None => row[r] \in Row)
        /\ row[r] # None => row[r].ver \in Nat /\ row[r].ver # None
    BY <1>0, PipelineAssumption DEF QueueTypes, TableTypes, Row
  <2>1. CASE StartRun(r) \/ Fetch(r)
    <3>1. /\ UNCHANGED <<row, index, lag>> /\ run[r].phase \notin {"committed", "read"}
          /\ run'[r].phase \notin {"committed", "read"} /\ \A q \in Repos \ {r} : run'[q] = run[q]
      <4>1. CASE StartRun(r)
        <5>1. run[r].phase = "none" /\ run'[r].phase = "started"
          BY <1>0, <4>1 DEF StartRun, Slot!Start, Slot!Move, QueueTypes, Run
        <5> QED
          BY <1>0, <4>1, <5>1 DEF StartRun, QueueTypes
      <4>2. CASE Fetch(r)
        BY <1>0, <4>2 DEF Fetch, QueueTypes, Run
      <4> QED
        BY <2>1, <4>1, <4>2
    <3> QED
      BY <3>1 DEF SearchInv, IdsInv, Synced
  <2>2. CASE Reconcile(r)
    <3> DEFINE id == IF row[r] = None THEN nextId ELSE row[r].id
    <3>1. /\ run[r].phase = "fetched" /\ UNCHANGED <<index, lag>> /\ row'[r] = UpsertedRow(r, id)
          /\ run'[r].phase = "committed" /\ run'[r].id = id
          /\ run'[r].rec = IF row[r] # None /\ row[r].ver = run[r].ver THEN None ELSE run[r].ver
      BY <1>0, <2>2 DEF Reconcile, QueueTypes, TableTypes, Run
    <3>2. \A q \in Repos \ {r} : run'[q] = run[q] /\ row'[q] = row[q]
      BY <1>0, <2>2 DEF Reconcile, QueueTypes, TableTypes
    <3>3. row'[r].ver = run[r].ver /\ row'[r].id = id
      BY <3>1 DEF UpsertedRow
    <3>4. \A q \in Repos \ {r} :
            /\ row[q] # None => row[q].id # id
            /\ run[q].phase \in {"committed", "read"} => run[q].id # id
      <4> SUFFICES ASSUME NEW q \in Repos \ {r}
                   PROVE  /\ row[q] # None => row[q].id # id
                          /\ run[q].phase \in {"committed", "read"} => run[q].id # id
        OBVIOUS
      <4>1. /\ nextId \in Nat /\ run[q].id \in Nat
            /\ row[q] # None => row[q].id \in Nat
        BY <1>0, PipelineAssumption DEF TableTypes, QueueTypes, Run, Row, Ids
      <4>2. CASE row[r] = None
        <5>1. /\ row[q] # None => row[q].id < nextId
              /\ run[q].phase \in {"committed", "read"} => run[q].id < nextId
          BY <1>0 DEF RunOK
        <5>2. id = nextId
          BY <4>2
        <5> QED
          BY <4>1, <5>1, <5>2
      <4>3. CASE row[r] # None
        BY <4>3 DEF SearchInv, IdsInv
      <4> QED
        BY <4>2, <4>3
    <3> HIDE DEF id
    <3>5. IdsInv'
      <4> SUFFICES ASSUME NEW p \in Repos, NEW q \in Repos, p # q
                   PROVE  /\ row'[p] # None /\ row'[q] # None => row'[p].id # row'[q].id
                          /\ row'[p] # None /\ run'[q].phase \in {"committed", "read"} => row'[p].id # run'[q].id
                          /\ run'[p].phase \in {"committed", "read"} /\ run'[q].phase \in {"committed", "read"} =>
                               run'[p].id # run'[q].id
        BY DEF IdsInv
      <4>1. CASE p # r /\ q # r
        BY <3>2, <4>1 DEF SearchInv, IdsInv
      <4>2. CASE p = r \/ q = r
        BY <3>1, <3>2, <3>3, <3>4, <4>2
      <4> QED
        BY <4>1, <4>2
    <3>6. Synced(r)' \/ run'[r].rec = row'[r].ver
      BY <2>0, <3>1, <3>3 DEF id, SearchOK, Synced
    <3>7. \A q \in Repos \ {r} : SearchOK(q)'
      BY <1>0, <3>1, <3>2 DEF SearchOK, Synced
    <3> QED
      BY <3>1, <3>5, <3>6, <3>7 DEF SearchInv, SearchOK
  <2>3. CASE Readback(r)
    <3>1. /\ UNCHANGED <<row, index, lag>> /\ run[r].phase = "committed"
          /\ run'[r].phase = "read" /\ run'[r].id = run[r].id
          /\ run'[r].rec = IF run[r].rec # None /\ row[r] # None /\ row[r].id = run[r].id THEN row[r].ver ELSE None
          /\ \A q \in Repos \ {r} : run'[q] = run[q]
      BY <1>0, <2>3 DEF Readback, QueueTypes, Run
    <3>2. IdsInv'
      BY <3>1 DEF SearchInv, IdsInv
    <3>3. row[r] # None => Synced(r)' \/ run'[r].rec = row[r].ver
      BY <2>0, <3>1 DEF SearchOK, RunOK, Synced
    <3> QED
      BY <3>1, <3>2, <3>3 DEF SearchInv, Synced
  <2>4. CASE IndexDocuments(r) \/ SyncFails(r) \/ RunFails(r)
    <3>1. /\ UNCHANGED row /\ run'[r] = NoRun /\ \A q \in Repos \ {r} : run'[q] = run[q]
      BY <1>0, <2>4 DEF IndexDocuments, SyncFails, RunFails, EndRun, QueueTypes
    <3>2. IdsInv'
      BY <3>1 DEF SearchInv, IdsInv, NoRun
    <3>3. /\ run[r].phase \in {"committed", "read"} => run[r].id \in Ids
          /\ \A q \in Repos : row[q] # None => row[q].id \in Ids
          /\ index \in [Ids -> 1 .. MaxHead \cup {None}]
      BY <1>0 DEF RunOK, TableTypes, Row
    <3>4. \A q \in Repos \ {r} : row[q] # None /\ run[r].phase \in {"committed", "read"} => row[q].id # run[r].id
      BY DEF SearchInv, IdsInv
    <3>5. /\ row[r] # None => Synced(r)'
          /\ \A q \in Repos \ {r} : row[q] # None => /\ index'[row[q].id] = index[row[q].id]
                                                     /\ row[q].id \in lag' <=> row[q].id \in lag
      <4>1. CASE IndexDocuments(r)
        <5>1. /\ run[r].phase = "read" /\ index' = Indexed(r)
              /\ lag' = IF run[r].rec = None THEN lag ELSE lag \ {run[r].id}
          BY <4>1 DEF IndexDocuments
        <5> QED
          BY <2>0, <3>1, <3>3, <3>4, <5>1 DEF Indexed, SearchOK, RunOK, Synced
      <4>2. CASE SyncFails(r)
        <5>1. /\ run[r].phase \in {"committed", "read"} /\ run[r].rec # None
              /\ index' = index \/ index' = Indexed(r)
              /\ lag' = lag \cup {run[r].id}
          BY <4>2 DEF SyncFails
        <5> QED
          BY <2>0, <3>1, <3>3, <3>4, <5>1 DEF Indexed, RunOK, Synced
      <4>3. CASE RunFails(r)
        <5>1. /\ UNCHANGED index
              /\ lag' = IF run[r].phase \in {"committed", "read"} THEN lag \cup {run[r].id} ELSE lag
          BY <4>3 DEF RunFails
        <5> QED
          BY <2>0, <3>1, <3>3, <3>4, <5>1 DEF SearchOK, RunOK, Synced
      <4> QED
        BY <2>4, <4>1, <4>2, <4>3
    <3>6. \A q \in Repos \ {r} : SearchOK(q)'
      BY <1>0, <3>1, <3>5 DEF SearchOK, Synced
    <3> QED
      BY <3>1, <3>2, <3>5, <3>6 DEF SearchInv, SearchOK, NoRun
  <2>5. CASE ExpireArchived(r)
    BY <1>a, <2>5 DEF ExpireArchived
  <2> QED
    BY <1>4, <2>1, <2>2, <2>3, <2>4, <2>5 DEF JobStep, RunStep
<1> QED
  BY <1>a, <1>1, <1>2, <1>3, <1>4, NextSteps

LEMMA SearchImplies == BaseInv /\ SearchInv => SearchMatchesRow
  BY DEF BaseInv, RunInv, RunOK, SearchInv, Synced, SearchMatchesRow
-----------------------------------------------------------------------------
(***************************************************************************)
(* The theorems.                                                           *)
(***************************************************************************)
LEMMA SafetyInvariant == Spec => []SafetyInv
<1>1. Init => SafetyInv
  <2>1. Init => UninstallInv /\ SearchInv
    <3> SUFFICES ASSUME Init PROVE UninstallInv /\ SearchInv
      OBVIOUS
    <3>1. Deliveries = {} /\ \A r \in Repos : row[r] = None /\ run[r].phase = "none"
      BY DEF Init, Deliveries, NoRun
    <3> QED
      BY <3>1 DEF UninstallInv, SearchInv, IdsInv
  <2> QED
    BY <2>1, BaseInit DEF SafetyInv
<1>2. SafetyInv /\ Next => SafetyInv'
  BY BaseStep, RoutingStep, UninstallStep, SearchStep DEF SafetyInv, Routing
<1>3. SafetyInv /\ UNCHANGED vars => SafetyInv'
  <2> SUFFICES ASSUME SafetyInv, UNCHANGED vars PROVE SafetyInv'
    OBVIOUS
  <2>1. /\ UNCHANGED <<head, granted, active, used, sent, due, again, recorded, insts, row, nextId, index>>
        /\ UNCHANGED <<pc, dlv, todo, ids, cur, slot, payload, tries, run, routed, excused, leftover, lag>>
    BY DEF vars, github, tables, requests, queue, history
  <2>2. TypeOK'
    BY <2>1 DEF SafetyInv, BaseInv, TypeOK, Slot!SlotTypeOK
  <2>3. HistoryOK' /\ GitHubInv'
    BY <2>1 DEF SafetyInv, BaseInv, HistoryOK, GitHubInv, Deliveries
  <2>4. HandlerInv' /\ RunInv'
    BY <2>1 DEF SafetyInv, BaseInv, HandlerInv, RunInv, RunOK, Event, Deliveries
  <2>5. RoutedInv' /\ UninstallInv'
    BY <2>1 DEF SafetyInv, RoutedInv, UninstallInv, Offboarded, Deliveries
  <2>6. SearchInv'
    BY <2>1 DEF SafetyInv, SearchInv, IdsInv, Synced
  <2> QED
    BY <2>1, <2>2, <2>3, <2>4, <2>5, <2>6 DEF SafetyInv, BaseInv
<1> QED
  BY <1>1, <1>2, <1>3, PTL DEF Spec

\* Every value keeps its type, and a slot is running exactly while its run is under way:
\* no step of a request or of a run leaves one without the other.
THEOREM TypeCorrect == Spec => []TypeOK
<1>1. SafetyInv => TypeOK
  BY DEF SafetyInv, BaseInv
<1> QED
  BY <1>1, SafetyInvariant, PTL

\* RecordDelivery lets one of any number of concurrent requests of a delivery through,
\* redelivered or not.
THEOREM DeliveriesAreRoutedOnce == Spec => []RoutedOnce
<1>1. SafetyInv => RoutedOnce
  BY DEF SafetyInv, RoutedInv, RoutedOnce, Deliveries
<1> QED
  BY <1>1, SafetyInvariant, PTL

\* Offboarding and the foreign key leave no row of an installation that is gone, for any
\* number of requests and runs in any order, except after the events the property names.
THEOREM OffboardingIsComplete == Spec => []UninstalledIsGone
<1>1. SafetyInv => UninstalledIsGone
  BY UninstallImplies DEF SafetyInv
<1> QED
  BY <1>1, SafetyInvariant, PTL

\* A served repository is found as Postgres holds it or its sync is under way or known to
\* have failed, whatever other repositories are ingested, removed or purged meanwhile.
THEOREM SearchFollowsRows == Spec => []SearchMatchesRow
<1>1. SafetyInv => SearchMatchesRow
  BY SearchImplies DEF SafetyInv
<1> QED
  BY <1>1, SafetyInvariant, PTL

\* A step of a request, of a run or of GitHub is a step of the queue or leaves it alone.
LEMMA SlotStep == BaseInv /\ Next => Slot!SlotNext \/ UNCHANGED slot
<1> SUFFICES ASSUME BaseInv, Next PROVE Slot!SlotNext \/ UNCHANGED slot
  OBVIOUS
<1>1. CASE GitHubEvent
  BY <1>1, GitHubEventSteps DEF BaseInv, Grows, EventRest, queue
<1>2. ASSUME NEW d \in Deliveries, Redeliver(d) \/ Lose(d) PROVE UNCHANGED slot
  BY <1>2, DeliverySteps DEF queue
<1>3. ASSUME NEW h \in Handlers, RequestStep(h) PROVE Slot!SlotNext \/ UNCHANGED slot
  <2>1. CASE \/ Record(h) \/ GetRepo(h) \/ Done(h) \/ HandlerFails(h) \/ UpsertInstallation(h)
             \/ \E d \in Deliveries : Receive(h, d)
    BY <2>1 DEF Record, GetRepo, Done, HandlerFails, UpsertInstallation, Receive, queue
  <2>2. ASSUME NEW r \in Repos, SubmitJob(h, r) PROVE Slot!SlotNext
    BY <2>2 DEF SubmitJob, Slot!SlotNext
  <2>3. ASSUME NEW r \in Repos, EnqueueIngest(h, r) PROVE Slot!SlotNext \/ UNCHANGED slot
    BY <2>2, <2>3 DEF EnqueueIngest, Coalesce, queue
  <2>4. CASE Reenqueue(h) \/ ClearFinished(h)
    <3>1. CASE Reenqueue(h)
      <4>1. cur[h] \in Repos
        BY <3>1 DEF Reenqueue, BaseInv, HandlerInv, TypeOK
      <4> QED
        BY <2>2, <3>1, <4>1 DEF Reenqueue, Coalesce, queue
    <3>2. CASE ClearFinished(h)
      <4>1. cur[h] \in Repos
        BY <3>2 DEF ClearFinished, BaseInv, HandlerInv, TypeOK
      <4> QED
        BY <3>2, <4>1 DEF ClearFinished, Slot!SlotNext
    <3> QED
      BY <2>4, <3>1, <3>2
  <2>5. CASE \/ ListRepoIDs(h) \/ StartRemoval(h) \/ DeleteInstallation(h)
             \/ (\E r \in Repos : DeleteRepo(h, r)) \/ (\E x \in Ids : PurgeIndex(h, x))
    BY <2>5 DEF ListRepoIDs, StartRemoval, DeleteInstallation, DeleteRepo, PurgeIndex, OffboardRest, queue
  <2> QED
    BY <1>3, <2>1, <2>3, <2>4, <2>5 DEF RequestStep, HandlerStep
<1>4. ASSUME NEW r \in Repos, JobStep(r) PROVE Slot!SlotNext \/ UNCHANGED slot
  <2>1. CASE Fetch(r) \/ Reconcile(r) \/ Readback(r)
    BY <2>1 DEF Fetch, Reconcile, Readback
  <2>2. CASE StartRun(r) \/ IndexDocuments(r) \/ SyncFails(r) \/ RunFails(r) \/ ExpireArchived(r)
    BY <2>2 DEF StartRun, IndexDocuments, SyncFails, RunFails, ExpireArchived, Slot!SlotNext
  <2> QED
    BY <1>4, <2>1, <2>2 DEF JobStep, RunStep
<1> QED
  BY <1>1, <1>2, <1>3, <1>4, NextSteps

\* The requests and runs of the pipeline use the queue only as JobSlot lets them: no job
\* enters an occupied slot, and none is deleted while it runs.  JobSlot is what IngestQueue
\* implements, so the composition of the two rests on theorems on both sides.
THEOREM PipelineKeepsJobSlot == Spec => Slot!SlotSpec
<1>1. Init => Slot!SlotInit
  BY DEF Init
<1>2. SafetyInv /\ [Next]_vars => [Slot!SlotNext]_slot
  <2>1. UNCHANGED vars => UNCHANGED slot
    BY DEF vars, queue
  <2> QED
    BY <2>1, SlotStep DEF SafetyInv
<1> QED
  BY <1>1, <1>2, SafetyInvariant, PTL DEF Spec, Slot!SlotSpec

-----------------------------------------------------------------------------
(***************************************************************************)
(* Nothing that is served goes back.  Rows cannot, by RunInv; for search   *)
(* the invariant adds that a record is never ahead of the row with its id, *)
(* nor of the run that is about to write it, and that an id no row has had *)
(* yet has no records.                                                     *)
(***************************************************************************)
Behind(x, v) == index[x] # None => index[x] <= v

IndexBehind ==
  /\ \A r \in Repos : row[r] # None => Behind(row[r].id, row[r].ver)
  /\ \A r \in Repos : run[r].phase \in {"committed", "read"} => Behind(run[r].id, run[r].ver)
  /\ \A x \in Ids : x >= nextId => index[x] = None

RowsAdvance ==
  \A r \in Repos : row[r] # None /\ row'[r] # None =>
    row'[r].id = row[r].id /\ row'[r].ver >= row[r].ver

IndexAdvances ==
  \A x \in Ids : index[x] # None /\ index'[x] # None => index'[x] >= index[x]

\* What everybody but the runs does to rows and records.
Shrinks ==
  /\ UNCHANGED <<run, nextId>>
  /\ \A r \in Repos : row'[r] \in {row[r], None}
  /\ \A x \in Ids : index'[x] \in {index[x], None}

LEMMA Versions ==
  ASSUME BaseInv
  PROVE  /\ \A r \in Repos : row[r] # None => row[r].ver \in Nat /\ row[r].id \in Ids
         /\ \A x \in Ids : index[x] # None => index[x] \in Nat
         /\ \A r \in Repos : run[r].ver \in Nat
         /\ nextId \in Nat /\ Ids \subseteq Nat
<1>1. TableTypes /\ QueueTypes
  BY TypeParts DEF BaseInv
<1>2. \A r \in Repos : row[r] # None => row[r].ver \in Nat /\ row[r].id \in Ids
  BY <1>1 DEF TableTypes, Row
<1>3. \A x \in Ids : index[x] # None => index[x] \in Nat
  BY <1>1 DEF TableTypes
<1>4. \A r \in Repos : run[r].ver \in Nat
  BY <1>1 DEF QueueTypes, Run
<1>5. nextId \in Nat /\ Ids \subseteq Nat
  BY <1>1, PipelineAssumption DEF TableTypes, Ids
<1> QED
  BY <1>2, <1>3, <1>4, <1>5

LEMMA ShrinkAdvances ==
  ASSUME BaseInv, IndexBehind, Shrinks
  PROVE  IndexBehind' /\ RowsAdvance /\ IndexAdvances
<1>1. RowsAdvance
  BY Versions DEF Shrinks, RowsAdvance
<1>2. IndexAdvances
  BY Versions DEF Shrinks, IndexAdvances
<1>3. \A r \in Repos : run[r].phase \in {"committed", "read"} => run[r].id \in Ids
  BY DEF BaseInv, RunInv, RunOK
<1>4. \A r \in Repos : row'[r] # None => row'[r] = row[r] /\ row[r].id \in Ids
  BY Versions DEF Shrinks
<1> QED
  BY <1>1, <1>2, <1>3, <1>4 DEF IndexBehind, Behind, Shrinks

LEMMA OthersShrink ==
  ASSUME BaseInv, Next
  PROVE  Shrinks \/ \E r \in Repos : JobStep(r)
<1>0. TableTypes
  BY TypeParts DEF BaseInv
<1>a. UNCHANGED <<run, nextId, row, index>> => Shrinks
  BY DEF Shrinks
<1>1. CASE GitHubEvent
  BY <1>a, <1>1, GitHubEventSteps DEF BaseInv, Grows, EventRest, tables
<1>2. ASSUME NEW d \in Deliveries, Redeliver(d) \/ Lose(d) PROVE Shrinks
  BY <1>a, <1>2, DeliverySteps DEF tables
<1>3. ASSUME NEW h \in Handlers, RequestStep(h) PROVE Shrinks
  <2>1. UNCHANGED <<run, nextId>>
    BY <1>3, RequestSteps
  <2>2. CASE Record(h) \/ Done(h) \/ GetRepo(h) \/ HandlerFails(h) \/ UpsertInstallation(h)
    BY <1>a, <2>1, <2>2 DEF Record, Done, GetRepo, HandlerFails, UpsertInstallation, tables
  <2>3. CASE (\E r \in Repos : EnqueueIngest(h, r)) \/ ClearFinished(h) \/ Reenqueue(h)
    BY <1>a, <2>1, <2>3 DEF EnqueueIngest, ClearFinished, Reenqueue, QueueRest, tables
  <2>4. CASE ListRepoIDs(h) \/ StartRemoval(h)
    BY <1>a, <2>1, <2>4 DEF ListRepoIDs, StartRemoval
  <2>5. CASE DeleteInstallation(h)
    BY <2>1, <2>5 DEF DeleteInstallation, Shrinks
  <2>6. ASSUME NEW q \in Repos, DeleteRepo(h, q) PROVE Shrinks
    <3>1. UNCHANGED index /\ (row' = row \/ row' = [row EXCEPT ![q] = None])
      BY <2>6 DEF DeleteRepo
    <3> QED
      BY <1>0, <2>1, <3>1 DEF Shrinks, TableTypes
  <2>7. ASSUME NEW x \in Ids, PurgeIndex(h, x) PROVE Shrinks
    <3>1. UNCHANGED row /\ (index' = index \/ index' = [index EXCEPT ![x] = None])
      BY <2>7 DEF PurgeIndex, Purged
    <3> QED
      BY <1>0, <2>1, <3>1 DEF Shrinks, TableTypes
  <2>8. CASE \E d \in Deliveries : Receive(h, d)
    BY <1>a, <2>8 DEF Receive, tables
  <2> QED
    BY <1>3, <2>2, <2>3, <2>4, <2>5, <2>6, <2>7, <2>8 DEF RequestStep, HandlerStep
<1> QED
  BY <1>1, <1>2, <1>3, NextSteps

LEMMA JobAdvances ==
  ASSUME BaseInv, SearchInv, IndexBehind, NEW r \in Repos, JobStep(r)
  PROVE  IndexBehind' /\ RowsAdvance /\ IndexAdvances
<1> DEFINE Others == \A q \in Repos \ {r} : run'[q] = run[q]
           Writing == run[r].phase \in {"committed", "read"}
<1>0. TableTypes /\ QueueTypes /\ RunOK(r)
  BY TypeParts DEF BaseInv, RunInv
<1>1. ASSUME UNCHANGED <<row, index>> PROVE RowsAdvance /\ IndexAdvances
  BY <1>1, Versions DEF RowsAdvance, IndexAdvances
\* a step that writes nothing, and after which the run has nothing to write either
<1>2. ASSUME UNCHANGED <<row, index, nextId>>, Others,
             run'[r].phase \in {"committed", "read"} =>
               Writing /\ run'[r].id = run[r].id /\ run'[r].ver = run[r].ver
      PROVE  IndexBehind'
  <2>1. \A q \in Repos : run'[q].phase \in {"committed", "read"} =>
          /\ run[q].phase \in {"committed", "read"}
          /\ run'[q].id = run[q].id /\ run'[q].ver = run[q].ver
    BY <1>2
  <2> QED
    BY <1>2, <2>1 DEF IndexBehind, Behind
<1>3. CASE StartRun(r) \/ Fetch(r) \/ ExpireArchived(r)
  <2>1. UNCHANGED <<row, index, nextId>> /\ Others
    BY <1>0, <1>3 DEF StartRun, Fetch, ExpireArchived, QueueTypes
  <2>2. run'[r].phase \in {"started", "fetched"} \/ run'[r] = run[r]
    BY <1>0, <1>3 DEF StartRun, Fetch, ExpireArchived, QueueTypes, Run
  <2> QED
    BY <1>1, <1>2, <2>1, <2>2
<1>4. CASE RunFails(r)
  <2>1. UNCHANGED <<row, index, nextId>> /\ Others /\ run'[r].phase = "none"
    BY <1>0, <1>4 DEF RunFails, EndRun, NoRun, QueueTypes
  <2> QED
    BY <1>1, <1>2, <2>1
<1>5. CASE Readback(r)
  <2>1. UNCHANGED <<row, index, nextId>> /\ Others
    BY <1>0, <1>5 DEF Readback, QueueTypes
  <2>2. Writing /\ run'[r].id = run[r].id /\ run'[r].ver = run[r].ver
    BY <1>0, <1>5 DEF Readback, QueueTypes, Run
  <2> QED
    BY <1>1, <1>2, <2>1, <2>2
\* the commit: a new version under the row's id, or the first under a new one
<1>6. CASE Reconcile(r)
  <2> DEFINE id == IF row[r] = None THEN nextId ELSE row[r].id
  <2>1. /\ run[r].phase = "fetched" /\ id \in Ids /\ UNCHANGED index
        /\ row' = [row EXCEPT ![r] = UpsertedRow(r, id)]
        /\ nextId' = IF row[r] = None THEN nextId + 1 ELSE nextId
    BY <1>6 DEF Reconcile
  <2>2. Others /\ run'[r].id = id /\ run'[r].ver = run[r].ver
    BY <1>0, <1>6 DEF Reconcile, QueueTypes, Run
  <2>3. /\ row'[r].id = id /\ row'[r].ver = run[r].ver
        /\ \A q \in Repos \ {r} : row'[q] = row[q]
    BY <1>0, <2>1 DEF TableTypes, UpsertedRow
  <2>4. row[r] # None => row[r].ver <= run[r].ver
    BY <1>0, <2>1 DEF RunOK
  <2>5. RowsAdvance
    BY <2>3, <2>4, Versions DEF RowsAdvance
  <2>6. IndexAdvances
    BY <2>1, Versions DEF IndexAdvances
  <2>7. Behind(id, run[r].ver)
    <3>1. CASE row[r] = None
      BY <2>1, <3>1, Versions DEF IndexBehind, Behind
    <3>2. CASE row[r] # None
      BY <2>1, <2>4, <3>2, Versions DEF IndexBehind, Behind
    <3> QED
      BY <3>1, <3>2
  <2>8. \A x \in Ids : x >= nextId' => index[x] = None
    BY <2>1, Versions DEF IndexBehind
  <2> HIDE DEF id
  <2>9. IndexBehind'
    BY <2>1, <2>2, <2>3, <2>7, <2>8 DEF IndexBehind, Behind
  <2> QED
    BY <2>5, <2>6, <2>9
\* the sync: the run writes the version it has committed, under an id only it writes
<1>7. CASE IndexDocuments(r) \/ SyncFails(r)
  <2>1. /\ UNCHANGED <<row, nextId>> /\ Writing
        /\ index' = index \/ index' = Indexed(r)
    BY <1>7 DEF IndexDocuments, SyncFails
  <2>2. Others /\ run'[r].phase = "none"
    BY <1>0, <1>7 DEF IndexDocuments, SyncFails, EndRun, NoRun, QueueTypes
  <2>3. CASE index' = index
    BY <1>1, <1>2, <2>1, <2>2, <2>3
  <2>4. CASE index' # index
    <3>1. /\ index' = [index EXCEPT ![run[r].id] = run[r].ver]
          /\ run[r].id \in Ids /\ run[r].id < nextId
      BY <1>0, <2>1, <2>4 DEF Indexed, RunOK
    <3>2. /\ index'[run[r].id] = run[r].ver
          /\ \A x \in Ids \ {run[r].id} : index'[x] = index[x]
      BY <1>0, <3>1 DEF TableTypes
    <3>3. RowsAdvance
      BY <2>1, Versions DEF RowsAdvance
    <3>4. Behind(run[r].id, run[r].ver)
      BY <2>1 DEF IndexBehind
    <3>5. IndexAdvances
      BY <3>2, <3>4, Versions DEF IndexAdvances, Behind
    <3>6. ASSUME NEW q \in Repos, row[q] # None
          PROVE  index'[row[q].id] # None => index'[row[q].id] <= row[q].ver
      <4>1. CASE q = r
        BY <1>0, <2>1, <3>2, <3>6, <4>1, Versions DEF RunOK
      <4>2. CASE q # r
        <5>1. row[q].id # run[r].id /\ row[q].id \in Ids
          BY <2>1, <3>6, <4>2, Versions DEF SearchInv, IdsInv
        <5> QED
          BY <3>2, <3>6, <5>1 DEF IndexBehind, Behind
      <4> QED
        BY <4>1, <4>2
    <3>7. ASSUME NEW q \in Repos \ {r}, run[q].phase \in {"committed", "read"}
          PROVE  index'[run[q].id] # None => index'[run[q].id] <= run[q].ver
      <4>1. run[q].id # run[r].id
        BY <2>1, <3>7 DEF SearchInv, IdsInv
      <4>2. run[q].id \in Ids
        BY <3>7 DEF BaseInv, RunInv, RunOK
      <4> QED
        BY <3>2, <3>7, <4>1, <4>2 DEF IndexBehind, Behind
    <3>8. \A x \in Ids : x >= nextId => index'[x] = None
      BY <3>1, <3>2, Versions DEF IndexBehind
    <3>9. IndexBehind'
      BY <2>1, <2>2, <3>6, <3>7, <3>8 DEF IndexBehind, Behind
    <3> QED
      BY <3>3, <3>5, <3>9
  <2> QED
    BY <2>3, <2>4
<1> QED
  BY <1>3, <1>4, <1>5, <1>6, <1>7 DEF JobStep, RunStep

LEMMA Advances ==
  ASSUME SafetyInv, IndexBehind, Next
  PROVE  IndexBehind' /\ RowsAdvance /\ IndexAdvances
<1>1. BaseInv /\ SearchInv
  BY DEF SafetyInv
<1>2. CASE Shrinks
  BY <1>1, <1>2, ShrinkAdvances
<1>3. CASE \E r \in Repos : JobStep(r)
  BY <1>1, <1>3, JobAdvances
<1> QED
  BY <1>1, <1>2, <1>3, OthersShrink

\* No record is ahead of the row it is of, nor of the run that is about to write it.
LEMMA RecordsAreBehind == Spec => []IndexBehind
<1>1. Init => IndexBehind
  <2> SUFFICES ASSUME Init PROVE IndexBehind
    OBVIOUS
  <2>1. /\ \A r \in Repos : row[r] = None /\ run[r].phase = "none"
        /\ \A x \in Ids : index[x] = None
    BY DEF Init, NoRun
  <2> QED
    BY <2>1 DEF IndexBehind
<1>2. SafetyInv /\ IndexBehind /\ Next => IndexBehind'
  BY Advances
<1>3. IndexBehind /\ UNCHANGED vars => IndexBehind'
  BY DEF IndexBehind, Behind, vars, tables
<1> QED
  BY <1>1, <1>2, <1>3, SafetyInvariant, PTL DEF Spec

\* A row that stays keeps its id and only moves to the same or a later HEAD, in whatever
\* order triggers come in, are repeated or fail: a run reads HEAD after it was started, and
\* no other run of the repository is under way (Fetch, Reconcile).
THEOREM RowsOnlyAdvance == Spec => RowsNeverGoBack
<1>1. SafetyInv /\ IndexBehind /\ [Next]_vars => [RowsAdvance]_vars
  BY Advances
<1> QED
  BY <1>1, SafetyInvariant, RecordsAreBehind, PTL DEF Spec, RowsNeverGoBack, RowsAdvance

\* A record of an id is only replaced by one of the same or a later HEAD, also where a sync
\* failed and was applied all the same, or its row was removed meanwhile (IndexDocuments,
\* SyncFails): the write is of what the run has committed, under an id no other run writes.
THEOREM SearchOnlyAdvances == Spec => SearchNeverGoesBack
<1>1. SafetyInv /\ IndexBehind /\ [Next]_vars => [IndexAdvances]_vars
  BY Advances
<1> QED
  BY <1>1, SafetyInvariant, RecordsAreBehind, PTL DEF Spec, SearchNeverGoesBack, IndexAdvances
=============================================================================
