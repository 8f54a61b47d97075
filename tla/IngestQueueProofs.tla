-------------------------- MODULE IngestQueueProofs --------------------------
(***************************************************************************)
(* Proofs about IngestQueue for any set of repositories and callers, any   *)
(* retry budget and any number of pushes.                                  *)
(***************************************************************************)
EXTENDS IngestQueue, TLAPS

\* Nothing speaks for a HEAD that GitHub has not reached.
Versions ==
  /\ \A c \in Clients : ver[c] <= head[target[c]]
  /\ \A r \in Repos : accepted[r] <= head[r]

\* A handler goroutine runs only while its task is active in Redis.
WorkerHoldsTask == \A r \in Repos : phase[r] # "none" => taskState[r] = "active"

\* Any task, even one enqueued for another trigger, covers all that was
\* accepted before: this is what makes AcceptedCovered inductive.
TaskCovers == \A r \in Repos : Conflict(r) => Covered(r, accepted[r])

IInv ==
  /\ TypeOK
  /\ Versions
  /\ WorkerHoldsTask
  /\ TaskCovers
  /\ ReenqueueConflictCovered
  /\ AcceptedCovered

-----------------------------------------------------------------------------
\* Every step of a caller, of the worker and of asynq keeps the state well typed.
LEMMA TypeStep == TypeOK /\ [Next]_vars => TypeOK'
<1> SUFFICES ASSUME TypeOK, [Next]_vars PROVE TypeOK'
  OBVIOUS
<1> USE QueueAssumption DEF TypeOK, TaskStates, Waiting, Phases, Steps,
        taskVars, runVars, callVars, history, vars, Later
<1>1. ASSUME NEW r \in Repos, Push(r) PROVE TypeOK'
  BY <1>1 DEF Push
<1>2. ASSUME NEW r \in Repos, WorkerStep(r) PROVE TypeOK'
  <2> USE DEF SetTask, EndRun, Settle, RetryLater, Archive, Exhausted
  <2>1. CASE Forward(r)
    BY <2>1 DEF Forward
  <2>2. CASE Dequeue(r)
    BY <2>2 DEF Dequeue
  <2>3. CASE Fetch(r)
    BY <2>3 DEF Fetch
  <2>4. CASE Succeed(r)
    BY <2>4 DEF Succeed
  <2>5. CASE Fail(r)
    BY <2>5 DEF Fail
  <2>6. CASE FailMalformed(r)
    BY <2>6 DEF FailMalformed
  <2>7. CASE Cancelled(r)
    BY <2>7 DEF Cancelled
  <2>8. CASE Requeue(r)
    BY <2>8 DEF Requeue
  <2>9. CASE WorkerCrash(r)
    BY <2>9 DEF WorkerCrash
  <2>10. CASE RecoverLease(r)
    BY <2>10 DEF RecoverLease
  <2>11. CASE ExpireArchived(r)
    BY <2>11 DEF ExpireArchived
  <2> QED
    BY <1>2, <2>1, <2>2, <2>3, <2>4, <2>5, <2>6, <2>7, <2>8, <2>9, <2>10, <2>11
    DEF WorkerStep
<1>3. ASSUME NEW c \in Clients, ClientStep(c) PROVE TypeOK'
  <2> USE DEF Goto, Return, Accept, enqueue
  <2>1. CASE EnqueueOk(c)
    BY <2>1 DEF EnqueueOk
  <2>2. CASE EnqueueConflict(c)
    BY <2>2 DEF EnqueueConflict
  <2>3. CASE EnqueueUnacknowledged(c)
    BY <2>3 DEF EnqueueUnacknowledged
  <2>4. CASE InspectUnreadable(c)
    BY <2>4 DEF InspectUnreadable
  <2>5. CASE InspectCoalesce(c)
    BY <2>5 DEF InspectCoalesce
  <2>6. CASE InspectTerminal(c)
    BY <2>6 DEF InspectTerminal
  <2>7. CASE ClearDeleted(c)
    BY <2>7 DEF ClearDeleted
  <2>8. CASE ReenqueueOk(c)
    BY <2>8 DEF ReenqueueOk
  <2>9. CASE ReenqueueConflict(c)
    BY <2>9 DEF ReenqueueConflict
  <2>10. CASE CallFails(c)
    BY <2>10 DEF CallFails, ForfeitCleared
  <2> QED
    BY <1>3, <2>1, <2>2, <2>3, <2>4, <2>5, <2>6, <2>7, <2>8, <2>9, <2>10
    DEF ClientStep
<1>4. ASSUME NEW c \in Clients, NEW r \in Repos, EnqueueIngest(c, r) PROVE TypeOK'
  BY <1>4 DEF EnqueueIngest, Goto
<1>5. CASE UNCHANGED vars
  BY <1>5
<1> QED
  BY <1>1, <1>2, <1>3, <1>4, <1>5 DEF Next

\* The program's first state is well typed.
LEMMA TypeInit == Init => TypeOK
  BY QueueAssumption DEF Init, TypeOK, TaskStates, Phases, Steps

\* The queue's variables keep their types: in particular asynq's retry count
\* never exceeds the MaxRetry the client sets.
THEOREM TypeCorrect == Spec => []TypeOK
  BY TypeInit, TypeStep, PTL DEF Spec

-----------------------------------------------------------------------------
\* Coverage of a version is coverage of the later of two covered versions.
LEMMA CoveredLater ==
  ASSUME NEW r \in Repos, NEW a \in Nat, NEW b \in Nat,
         Covered(r, a), Covered(r, b)
  PROVE  Covered(r, Later(a, b))
BY DEF Later

\* The inductive invariant holds before the first trigger.
LEMMA InvInit == Init => IInv
<1> SUFFICES ASSUME Init PROVE IInv
  OBVIOUS
<1>1. TypeOK
  BY TypeInit
<1>2. Versions /\ WorkerHoldsTask
  BY DEF Init, Versions, WorkerHoldsTask
<1>3. TaskCovers /\ ReenqueueConflictCovered
  BY DEF Init, TaskCovers, ReenqueueConflictCovered, Conflict
<1>4. AcceptedCovered
  BY DEF Init, AcceptedCovered, Covered
<1> QED
  BY <1>1, <1>2, <1>3, <1>4 DEF IInv

\* A push only moves HEAD away from what was accepted.
LEMMA PushInv == ASSUME IInv, NEW r \in Repos, Push(r) PROVE IInv'
<1> USE DEF IInv
<1>1. TypeOK'
  BY TypeStep DEF Next
<1>2. Versions'
  BY DEF Push, Versions, TypeOK, callVars, history
<1>3. (WorkerHoldsTask /\ TaskCovers /\ ReenqueueConflictCovered /\ AcceptedCovered)'
  BY DEF Push, taskVars, runVars, callVars, history, WorkerHoldsTask, TaskCovers,
         Conflict, Covered, ReenqueueConflictCovered, AcceptedCovered, Replacing
<1> QED
  BY <1>1, <1>2, <1>3

\* A new call raises a trigger for the current HEAD and touches nothing else.
LEMMA CallInv ==
  ASSUME IInv, NEW c \in Clients, NEW r \in Repos, EnqueueIngest(c, r) PROVE IInv'
<1> USE DEF IInv
<1>1. TypeOK'
  BY TypeStep DEF Next
<1>2. Versions'
  BY DEF EnqueueIngest, Versions, TypeOK, history
<1>3. (WorkerHoldsTask /\ TaskCovers)'
  BY DEF EnqueueIngest, taskVars, runVars, history, WorkerHoldsTask, TaskCovers,
         Conflict, Covered
<1>4. ReenqueueConflictCovered'
  BY DEF EnqueueIngest, Goto, TypeOK, taskVars, runVars, history, Conflict, Covered,
         ReenqueueConflictCovered
<1>5. AcceptedCovered'
  BY DEF EnqueueIngest, Goto, TypeOK, taskVars, runVars, history, Covered,
         AcceptedCovered, Replacing
<1> QED
  BY <1>1, <1>2, <1>3, <1>4, <1>5

\* A step of the worker or of asynq on the task of r: runs start from the
\* current HEAD, and a run that ends for good settles what it started from.
LEMMA WorkerInv == ASSUME IInv, NEW r \in Repos, WorkerStep(r) PROVE IInv'
<1> USE DEF IInv
<1>1. TypeOK'
  BY TypeStep DEF Next
<1>2. UNCHANGED <<callVars, head>> /\ UNCHANGED <<accepted, clobbered>>
  BY DEF WorkerStep, Forward, Dequeue, Fetch, Succeed, Fail, FailMalformed,
         Cancelled, Requeue, WorkerCrash, RecoverLease, ExpireArchived,
         RetryLater, Archive, Settle, history
<1>3. Versions'
  BY <1>2 DEF Versions, callVars
<1>4. /\ WorkerHoldsTask'
      /\ \A q \in Repos \ {r} : /\ taskState'[q] = taskState[q]
                                /\ runHead'[q] = runHead[q]
                                /\ settled'[q] = settled[q]
  BY DEF WorkerStep, Forward, Dequeue, Fetch, Succeed, Fail, FailMalformed,
         Cancelled, Requeue, WorkerCrash, RecoverLease, ExpireArchived,
         RetryLater, Archive, Settle, SetTask, EndRun, history, taskVars,
         runVars, WorkerHoldsTask, TypeOK
<1>5. /\ taskState[r] # "none"
      /\ settled'[r] >= settled[r]
      /\ \/ taskState'[r] \in Waiting
         \/ taskState'[r] = "active" /\ runHead'[r] = head[r]
         \/ taskState'[r] = "active" /\ taskState[r] = "active" /\ runHead'[r] = runHead[r]
         \/ taskState[r] = "active" /\ settled'[r] >= runHead[r]
         \/ taskState[r] = "archived"
  BY DEF WorkerStep, Forward, Dequeue, Fetch, Succeed, Fail, FailMalformed,
         Cancelled, Requeue, WorkerCrash, RecoverLease, ExpireArchived,
         RetryLater, Archive, Settle, SetTask, EndRun, history, taskVars,
         runVars, WorkerHoldsTask, TypeOK, Waiting, TaskStates, Phases, Later
<1>6. ASSUME NEW v \in Nat, v <= head[r], Covered(r, v) PROVE Covered(r, v)'
  <2>1. CASE taskState[r] = "active" \/ settled[r] >= v
    BY <1>1, <1>2, <1>5, <1>6, <2>1 DEF Covered, TypeOK, Waiting, callVars
  <2>2. CASE taskState[r] \in Waiting
    BY <1>1, <1>2, <1>5, <1>6, <2>2 DEF Covered, TypeOK, Waiting, callVars
  <2> QED
    BY <1>6, <2>1, <2>2 DEF Covered
<1>7. ASSUME NEW q \in Repos, NEW v \in Nat, q # r, Covered(q, v) PROVE Covered(q, v)'
  BY <1>4, <1>7 DEF Covered
<1>8. TaskCovers'
  BY <1>2, <1>4, <1>5, <1>6, <1>7 DEF TaskCovers, Conflict, Versions, TypeOK
<1>9. ReenqueueConflictCovered'
  BY <1>2, <1>4, <1>5, <1>6, <1>7
  DEF ReenqueueConflictCovered, Conflict, Versions, TypeOK, callVars
<1>10. AcceptedCovered'
  BY <1>2, <1>6, <1>7 DEF AcceptedCovered, Replacing, Versions, TypeOK, callVars
<1> QED
  BY <1>1, <1>3, <1>4, <1>8, <1>9, <1>10

\* A step of a caller of EnqueueIngest.  The worker's side is untouched, and
\* the caller's own task is the only one that can change.
LEMMA ClientInv == ASSUME IInv, NEW c \in Clients, ClientStep(c) PROVE IInv'
<1> USE DEF IInv
<1> PICK r \in Repos : r = target[c]
  BY DEF TypeOK
<1>1. TypeOK'
  BY TypeStep DEF Next
<1>2. /\ UNCHANGED <<runVars, head, settled, target>>
      /\ \A d \in Clients \ {c} : /\ pc'[d] = pc[d]
                                  /\ ver'[d] = ver[d]
                                  /\ clobber'[d] = clobber[d]
      /\ \A q \in Repos \ {r} : /\ taskState'[q] = taskState[q]
                                /\ accepted'[q] = accepted[q]
                                /\ clobbered'[q] = clobbered[q]
      /\ ver'[c] \in {0, ver[c]}
      /\ accepted'[r] \in {accepted[r], Later(accepted[r], ver[c])}
  BY DEF ClientStep, EnqueueOk, EnqueueConflict, EnqueueUnacknowledged,
         InspectUnreadable, InspectCoalesce, InspectTerminal, ClearDeleted,
         ReenqueueOk, ReenqueueConflict, CallFails, ForfeitCleared, enqueue, Accept,
         Return, Goto, history, taskVars, callVars, TypeOK
<1>3. Versions'
  BY <1>1, <1>2 DEF Versions, TypeOK, Later
<1>4. WorkerHoldsTask'
  <2>1. taskState[r] = "active" => taskState'[r] = "active"
    BY DEF ClientStep, EnqueueOk, EnqueueConflict, EnqueueUnacknowledged,
           InspectUnreadable, InspectCoalesce, InspectTerminal, ClearDeleted,
           ReenqueueOk, ReenqueueConflict, CallFails, enqueue, Conflict, taskVars, TypeOK
  <2> QED
    BY <1>2, <2>1 DEF WorkerHoldsTask, runVars
<1>5. ASSUME NEW q \in Repos, NEW v \in Nat, q # r, Covered(q, v) PROVE Covered(q, v)'
  BY <1>2, <1>5 DEF Covered, runVars
<1>6. /\ Conflict(r)' => Covered(r, accepted[r])'
      /\ Conflict(r)' => \A d \in Clients : pc'[d] = "reenqueue" /\ target[d] = r
                                              => Covered(r, ver[d])'
      /\ \/ Covered(r, accepted[r])'
         \/ clobbered'[r] >= accepted'[r]
         \/ \E d \in Clients : Replacing(d, r)'
  <2> USE DEF Conflict
  <2>1. CASE EnqueueOk(c) \/ ReenqueueOk(c) \/ EnqueueUnacknowledged(c)
    BY <2>1 DEF EnqueueOk, ReenqueueOk, EnqueueUnacknowledged, enqueue, Covered,
                Waiting, TypeOK
  <2>2. CASE EnqueueConflict(c) \/ InspectUnreadable(c) \/ InspectTerminal(c)
    <3>1. UNCHANGED <<taskState, runHead, settled, accepted, clobbered, target, ver>>
          \/ (UNCHANGED <<taskState, runHead, settled, accepted, clobbered, target>>
              /\ pc'[c] = "idle")
      BY <2>2 DEF EnqueueConflict, InspectUnreadable, InspectTerminal, Return, Goto,
                  taskVars, runVars, history, TypeOK
    <3>2. pc[c] # "reenqueue" /\ pc'[c] # "reenqueue"
      BY <2>2 DEF EnqueueConflict, InspectUnreadable, InspectTerminal, Return, Goto, TypeOK
    <3> QED
      BY <1>2, <3>1, <3>2
      DEF Covered, TaskCovers, ReenqueueConflictCovered, AcceptedCovered, Replacing
  <2>3. CASE InspectCoalesce(c)
    <3>1. UNCHANGED <<taskState, runHead, settled, clobbered, target>>
          /\ pc[c] # "reenqueue" /\ pc'[c] = "idle" /\ taskState[r] # "none"
      BY <2>3 DEF InspectCoalesce, Return, Goto, Accept, taskVars, runVars, history, TypeOK
    <3>2. accepted' = accepted \/ taskState[r] \in Waiting
      BY <2>3 DEF InspectCoalesce, classifyConflict, isTerminalTaskState, Waiting,
                  TaskStates, TypeOK, history
    <3> QED
      BY <1>2, <3>1, <3>2
      DEF Covered, TaskCovers, ReenqueueConflictCovered
  <2>4. CASE ClearDeleted(c)
    <3>1. /\ taskState'[r] = "none" /\ pc'[c] = "reenqueue" /\ target' = target
          /\ clobber'[c] = (taskState[r] \in Waiting)
          /\ UNCHANGED <<settled, accepted, clobbered>>
          /\ taskState[r] # "active"
          /\ pc[c] # "reenqueue"
      BY <2>4 DEF ClearDeleted, Goto, history, TypeOK
    <3>2. CASE taskState[r] \in Waiting
      BY <3>1, <3>2 DEF Replacing
    <3>3. CASE taskState[r] \notin Waiting
      BY <1>2, <3>1, <3>3 DEF Replacing, AcceptedCovered, Covered
    <3> QED
      BY <3>1, <3>2, <3>3
  <2>5. CASE ReenqueueConflict(c)
    <3>1. /\ UNCHANGED <<taskState, runHead, settled, clobbered, target>>
          /\ taskState[r] # "none" /\ pc[c] = "reenqueue" /\ pc'[c] = "idle"
          /\ accepted'[r] = Later(accepted[r], ver[c])
      BY <2>5 DEF ReenqueueConflict, Return, Goto, Accept, taskVars, runVars, TypeOK
    <3>2. Covered(r, accepted[r]) /\ Covered(r, ver[c])
      BY <3>1 DEF TaskCovers, ReenqueueConflictCovered, TypeOK
    <3>3. Covered(r, Later(accepted[r], ver[c]))
      BY <3>2, CoveredLater DEF TypeOK
    <3> QED
      BY <1>2, <3>1, <3>3 DEF Covered, ReenqueueConflictCovered
  <2>6. CASE CallFails(c)
    <3>1. /\ UNCHANGED <<taskState, runHead, settled, accepted, target>>
          /\ pc'[c] = "idle"
          /\ IF clobber[c] /\ taskState[r] = "none"
             THEN clobbered'[r] = accepted[r]
             ELSE clobbered' = clobbered
      BY <2>6 DEF CallFails, ForfeitCleared, Return, Goto, taskVars, runVars, TypeOK
    <3>2. CASE taskState[r] # "none"
      BY <1>2, <3>1, <3>2 DEF Covered, TaskCovers, ReenqueueConflictCovered
    <3>3. CASE taskState[r] = "none" /\ clobber[c]
      BY <3>1, <3>3 DEF TypeOK
    <3>4. CASE taskState[r] = "none" /\ ~clobber[c]
      BY <1>2, <3>1, <3>4 DEF Covered, AcceptedCovered, Replacing
    <3> QED
      BY <3>2, <3>3, <3>4 DEF TypeOK
  <2> QED
    BY <2>1, <2>2, <2>3, <2>4, <2>5, <2>6 DEF ClientStep
<1>7. TaskCovers'
  BY <1>2, <1>5, <1>6 DEF TaskCovers, Conflict, TypeOK
<1>8. ReenqueueConflictCovered'
  BY <1>2, <1>5, <1>6 DEF ReenqueueConflictCovered, Conflict, TypeOK
<1>9. AcceptedCovered'
  <2> SUFFICES ASSUME NEW q \in Repos
               PROVE  \/ Covered(q, accepted[q])' \/ clobbered'[q] >= accepted'[q]
                      \/ \E d \in Clients : Replacing(d, q)'
    BY DEF AcceptedCovered
  <2>1. CASE q = r
    BY <1>6, <2>1
  <2>2. CASE q # r
    <3>1. accepted'[q] = accepted[q] /\ clobbered'[q] = clobbered[q] /\ accepted[q] \in Nat
      BY <1>2, <2>2 DEF TypeOK
    <3>2. CASE Covered(q, accepted[q])
      BY <1>2, <2>2, <3>1, <3>2 DEF Covered, runVars
    <3>3. CASE clobbered[q] >= accepted[q]
      BY <3>1, <3>3
    <3>4. ASSUME NEW d \in Clients, Replacing(d, q) PROVE Replacing(d, q)'
      BY <1>2, <2>2, <3>4 DEF Replacing
    <3> QED
      BY <3>2, <3>3, <3>4 DEF AcceptedCovered
  <2> QED
    BY <2>1, <2>2
<1> QED
  BY <1>1, <1>3, <1>4, <1>7, <1>8, <1>9

\* The invariant is inductive over every interleaving of callers, worker, asynq
\* and pushes.
LEMMA InvStep == IInv /\ [Next]_vars => IInv'
<1> SUFFICES ASSUME IInv, [Next]_vars PROVE IInv'
  OBVIOUS
<1>1. CASE UNCHANGED vars
  BY <1>1 DEF IInv, vars, taskVars, runVars, callVars, history, TypeOK, Versions,
     WorkerHoldsTask, TaskCovers, ReenqueueConflictCovered, AcceptedCovered, Conflict,
     Covered, Replacing
<1>2. CASE Next
  BY <1>2, PushInv, CallInv, WorkerInv, ClientInv DEF Next
<1> QED
  BY <1>1, <1>2

\* A trigger that EnqueueIngest answered with nil is never forgotten, for any
\* number of repositories, callers, pushes and retries: its run is over, under
\* way or coming, but for the one loss AcceptedCovered names.
THEOREM AcceptedTriggersAreCovered == Spec => []AcceptedCovered
<1>1. IInv => AcceptedCovered
  BY DEF IInv
<1> QED
  BY <1>1, InvInit, InvStep, PTL DEF Spec

\* The comment on the second enqueue of resolveTaskIDConflict is right: a
\* conflict there means that a run starting after the trigger exists or is over.
THEOREM ReenqueueConflictsAreCovered == Spec => []ReenqueueConflictCovered
<1>1. IInv => ReenqueueConflictCovered
  BY DEF IInv
<1> QED
  BY <1>1, InvInit, InvStep, PTL DEF Spec

-----------------------------------------------------------------------------
\* The refinement mapping, as a state function.
slotMap == [r \in Repos |-> SlotOf(taskState[r])]

\* What a caller does to the task of its repository is a JobSlot step or none.
LEMMA ClientSlotStep ==
  ASSUME TypeOK, NEW c \in Clients, ClientStep(c)
  PROVE  UNCHANGED slotMap \/ Slot!SlotNext
<1> PICK r \in Repos : r = target[c]
  BY DEF TypeOK
<1>1. CASE UNCHANGED taskState
  BY <1>1 DEF slotMap
<1>2. CASE EnqueueOk(c) \/ ReenqueueOk(c) \/ EnqueueUnacknowledged(c)
  <2>1. taskState[r] = "none" /\ taskState' = [taskState EXCEPT ![r] = "scheduled"]
    BY <1>2 DEF EnqueueOk, ReenqueueOk, EnqueueUnacknowledged, enqueue, Conflict
  <2>2. Slot!Submit(r)
    BY <2>1 DEF Slot!Submit, Slot!Move, SlotOf, TypeOK
  <2> QED
    BY <2>2 DEF Slot!SlotNext
<1>3. CASE ClearDeleted(c)
  <2>1. CASE taskState[r] = "none"
    BY <1>3, <2>1 DEF ClearDeleted, slotMap, SlotOf, TypeOK
  <2>2. CASE taskState[r] # "none"
    <3>1. Slot!Clear(r)
      BY <1>3, <2>2 DEF ClearDeleted, Slot!Clear, Slot!Move, SlotOf, TypeOK, TaskStates
    <3> QED
      BY <3>1 DEF Slot!SlotNext
  <2> QED
    BY <2>1, <2>2
<1> QED
  BY <1>1, <1>2, <1>3
  DEF ClientStep, EnqueueConflict, InspectUnreadable, InspectCoalesce, InspectTerminal,
      ReenqueueConflict, CallFails, taskVars

\* What the worker and asynq do to a task is a JobSlot step or none.
LEMMA WorkerSlotStep ==
  ASSUME TypeOK, WorkerHoldsTask, NEW r \in Repos, WorkerStep(r)
  PROVE  UNCHANGED slotMap \/ Slot!SlotNext
<1> USE DEF slotMap, SlotOf, TypeOK, TaskStates, SetTask, WorkerHoldsTask, Slot!Move
<1>1. CASE Forward(r) \/ Fetch(r) \/ WorkerCrash(r)
  BY <1>1 DEF Forward, Fetch, WorkerCrash, taskVars
<1>2. CASE Dequeue(r)
  <2>1. Slot!Start(r)
    BY <1>2 DEF Dequeue, Slot!Start
  <2> QED
    BY <2>1 DEF Slot!SlotNext
<1>3. CASE Succeed(r)
  <2>1. Slot!Finish(r)
    BY <1>3 DEF Succeed, Slot!Finish
  <2> QED
    BY <2>1 DEF Slot!SlotNext
<1>4. CASE Fail(r) \/ FailMalformed(r) \/ RecoverLease(r) \/ Cancelled(r) \/ Requeue(r)
  <2>1. \E s \in {"retry", "pending", "archived"} : SetTask(r, s)
    BY <1>4 DEF Fail, FailMalformed, RecoverLease, Cancelled, Requeue, RetryLater, Archive
  <2>2. taskState[r] = "active"
    BY <1>4 DEF Fail, FailMalformed, RecoverLease, Cancelled, Requeue, WorkerHoldsTask
  <2>3. CASE SetTask(r, "archived")
    <3>1. Slot!Park(r)
      BY <2>2, <2>3 DEF Slot!Park
    <3> QED
      BY <3>1 DEF Slot!SlotNext
  <2>4. ASSUME NEW s \in {"retry", "pending"}, SetTask(r, s) PROVE Slot!SlotNext
    <3>1. \A x \in Repos : SlotOf(taskState'[x]) = IF x = r THEN "waiting" ELSE SlotOf(taskState[x])
      BY <2>4
    <3>2. Slot!Again(r)
      BY <2>2, <3>1 DEF Slot!Again
    <3> QED
      BY <3>2 DEF Slot!SlotNext
  <2> QED
    BY <2>1, <2>3, <2>4
<1>5. CASE ExpireArchived(r)
  <2>1. Slot!Expire(r)
    BY <1>5 DEF ExpireArchived, Slot!Expire
  <2> QED
    BY <2>1 DEF Slot!SlotNext
<1> QED
  BY <1>1, <1>2, <1>3, <1>4, <1>5 DEF WorkerStep

\* The detailed queue implements JobSlot, so what Pipeline assumes of the queue
\* is what EnqueueIngest, handleIngest and asynq provide.
THEOREM QueueImplementsJobSlot == Spec => ImplementsJobSlot
<1>1. Init => Slot!SlotInit
  BY DEF Init, Slot!SlotInit, SlotOf
<1>2. IInv /\ [Next]_vars => [Slot!SlotNext]_slotMap
  <2> SUFFICES ASSUME IInv, [Next]_vars PROVE UNCHANGED slotMap \/ Slot!SlotNext
    OBVIOUS
  <2>1. TypeOK /\ WorkerHoldsTask
    BY DEF IInv
  <2>2. CASE UNCHANGED taskState
    BY <2>2 DEF slotMap
  <2> QED
    BY <2>1, <2>2, ClientSlotStep, WorkerSlotStep
    DEF Next, vars, taskVars, Push, EnqueueIngest
<1> QED
  BY <1>1, <1>2, InvInit, InvStep, PTL DEF Spec, ImplementsJobSlot, Slot!SlotSpec, slotMap
=============================================================================
