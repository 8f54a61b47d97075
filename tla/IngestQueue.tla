----------------------------- MODULE IngestQueue -----------------------------
(***************************************************************************)
(* The ingest queue: internal/queue/client.go (EnqueueIngest and           *)
(* resolveTaskIDConflict, step by step, for several concurrent callers)    *)
(* and internal/queue/worker.go (handleIngest), over the asynq task that   *)
(* holds the id "ingest:<owner>/<name>" of each repository (external).     *)
(*                                                                         *)
(* A caller is one goroutine inside EnqueueIngest: a webhook request or    *)
(* the -onboard command.  It sleeps between two Redis calls, so any other  *)
(* caller, the worker and the asynq server may act in between.             *)
(*                                                                         *)
(* HEAD of a repository is a version number: a trigger speaks for the HEAD *)
(* of the moment it was raised, and a run ingests the HEAD it fetches.     *)
(***************************************************************************)
EXTENDS Integers, FiniteSets

CONSTANTS
  Repos,        \* repositories, hence task ids
  Clients,      \* goroutines that may be inside EnqueueIngest
  MaxRetry,     \* asynq.MaxRetry (client.go:21)
  Concurrency,  \* parallel ingests of the worker
  MaxHead       \* BOUND: pushes per repository

ASSUME QueueAssumption ==
  /\ MaxRetry \in Nat
  /\ Concurrency \in Nat \ {0}
  /\ MaxHead \in Nat

VARIABLES
  \* Redis: the asynq task of each repository.  "none" is a free id.
  taskState, retried,
  \* the worker goroutine of an active task, and the HEAD it works from
  phase, runHead,
  \* the callers of EnqueueIngest
  pc, target, ver, clobber,
  \* GitHub's HEAD
  head,
  \* history, read by no action: the latest version whose trigger got a nil
  \* error, the latest a run came to an end for, and the latest lost with a
  \* waiting task that another caller deleted
  accepted, settled, clobbered

taskVars == <<taskState, retried>>
runVars  == <<phase, runHead>>
callVars == <<pc, target, ver, clobber>>
history  == <<accepted, settled, clobbered>>
vars == <<taskVars, runVars, callVars, head, history>>

TaskStates == {"none", "scheduled", "pending", "active", "retry", "archived"}
Waiting == {"scheduled", "pending", "retry"}
Phases == {"none", "started", "fetched"}
Steps == {"idle", "enqueue", "inspect", "clear", "reenqueue"}

Later(a, b) == IF a > b THEN a ELSE b

TypeOK ==
  /\ taskState \in [Repos -> TaskStates]
  /\ retried \in [Repos -> 0 .. MaxRetry]
  /\ phase \in [Repos -> Phases]
  /\ runHead \in [Repos -> Nat]
  /\ pc \in [Clients -> Steps]
  /\ target \in [Clients -> Repos]
  /\ ver \in [Clients -> Nat]
  /\ clobber \in [Clients -> BOOLEAN]
  /\ head \in [Repos -> Nat]
  /\ accepted \in [Repos -> Nat]
  /\ settled \in [Repos -> Nat]
  /\ clobbered \in [Repos -> Nat]

Init ==
  /\ taskState = [r \in Repos |-> "none"]
  /\ retried = [r \in Repos |-> 0]
  /\ phase = [r \in Repos |-> "none"]
  /\ runHead = [r \in Repos |-> 0]
  /\ pc = [c \in Clients |-> "idle"]
  /\ target \in [Clients -> Repos]
  /\ ver = [c \in Clients |-> 0]
  /\ clobber = [c \in Clients |-> FALSE]
  /\ head = [r \in Repos |-> 1]
  /\ accepted = [r \in Repos |-> 0]
  /\ settled = [r \in Repos |-> 0]
  /\ clobbered = [r \in Repos |-> 0]

-----------------------------------------------------------------------------
(***************************************************************************)
(* GitHub.                                                                 *)
(***************************************************************************)
Push(r) ==
  /\ head[r] < MaxHead
  /\ head' = [head EXCEPT ![r] = @ + 1]
  /\ UNCHANGED <<taskVars, runVars, callVars, history>>

-----------------------------------------------------------------------------
(***************************************************************************)
(* queue.Client.                                                           *)
(***************************************************************************)
Goto(c, step) == pc' = [pc EXCEPT ![c] = step]

\* EnqueueIngest returns.  A caller's frame is gone with it, so nothing of it
\* is left but the program counter.
Return(c) ==
  /\ Goto(c, "idle")
  /\ clobber' = [clobber EXCEPT ![c] = FALSE]
  /\ ver' = [ver EXCEPT ![c] = 0]
  /\ UNCHANGED target

\* The nil error of a caller that enqueued its job or found one it relies on.
Accept(c) ==
  /\ accepted' = [accepted EXCEPT ![target[c]] = Later(@, ver[c])]
  /\ UNCHANGED <<settled, clobbered>>

\* A caller that deleted a waiting task goes away and leaves the id free.
ForfeitCleared(c) ==
  /\ clobbered' = IF clobber[c] /\ taskState[target[c]] = "none"
                  THEN [clobbered EXCEPT ![target[c]] = accepted[target[c]]]
                  ELSE clobbered
  /\ UNCHANGED <<accepted, settled>>

\* asynq.Client.EnqueueContext with TaskID, ProcessIn and MaxRetry: it fails
\* on any existing key, whatever the state of its task.
Conflict(r) == taskState[r] # "none"

\* MUTANT: the task id is not unique, a second enqueue replaces the task.
enqueueReplaces(r) ==
  /\ taskState' = [taskState EXCEPT ![r] = "scheduled"]
  /\ retried' = [retried EXCEPT ![r] = 0]

enqueue(r) ==
  /\ ~Conflict(r)
  /\ taskState' = [taskState EXCEPT ![r] = "scheduled"]
  /\ retried' = [retried EXCEPT ![r] = 0]

\* No Retention is set on the task, so "completed" never shows up in Redis; the
\* code lists it all the same.
isTerminalTaskState(s) == s \in {"archived", "completed"}

\* MUTANT: every conflict is taken for a job that is still coming.
classifyConflictAlwaysCoalesce(s) == "coalesceTrigger"

classifyConflict(s) ==
  IF isTerminalTaskState(s) THEN "clearAndRetry" ELSE "coalesceTrigger"

EnqueueIngest(c, r) ==
  /\ pc[c] = "idle"
  /\ Goto(c, "enqueue")
  /\ target' = [target EXCEPT ![c] = r]
  /\ ver' = [ver EXCEPT ![c] = head[r]]
  /\ UNCHANGED <<clobber, taskVars, runVars, head, history>>

EnqueueOk(c) ==
  /\ pc[c] = "enqueue"
  /\ enqueue(target[c])
  /\ Accept(c)
  /\ Return(c)
  /\ UNCHANGED <<runVars, head>>

EnqueueConflict(c) ==
  /\ pc[c] = "enqueue"
  /\ Conflict(target[c])
  /\ Goto(c, "inspect")
  /\ UNCHANGED <<target, ver, clobber, taskVars, runVars, head, history>>

\* resolveTaskIDConflict, GetTaskInfo failed: Redis erred, or the task is gone.
\* Fails open (client.go:207-208): the caller gets nil, nothing is enqueued and
\* the trigger is not counted as accepted.
InspectUnreadable(c) ==
  /\ pc[c] = "inspect"
  /\ Return(c)
  /\ UNCHANGED <<taskVars, runVars, head, history>>

\* The task will still run, or is running.  A trigger absorbed by an active
\* task is the documented active-window drop (client.go:89-92): it is answered
\* nil, but it is not counted as accepted.
InspectCoalesce(c) ==
  /\ pc[c] = "inspect"
  /\ Conflict(target[c])
  /\ classifyConflict(taskState[target[c]]) = "coalesceTrigger"
  /\ IF taskState[target[c]] = "active" THEN UNCHANGED history ELSE Accept(c)
  /\ Return(c)
  /\ UNCHANGED <<taskVars, runVars, head>>

InspectTerminal(c) ==
  /\ pc[c] = "inspect"
  /\ Conflict(target[c])
  /\ classifyConflict(taskState[target[c]]) = "clearAndRetry"
  /\ Goto(c, "clear")
  /\ UNCHANGED <<target, ver, clobber, taskVars, runVars, head, history>>

\* Inspector.DeleteTask removes whatever holds the id now, except a task that
\* is active.  ErrTaskNotFound is success.
\* MUTANT: the finished task is not deleted before the second enqueue.
ClearDeletedNothing(c) ==
  /\ pc[c] = "clear"
  /\ taskState[target[c]] # "active"
  /\ Goto(c, "reenqueue")
  /\ UNCHANGED <<target, ver, clobber, taskVars, runVars, head, history>>

ClearDeleted(c) ==
  /\ pc[c] = "clear"
  /\ taskState[target[c]] # "active"
  /\ taskState' = [taskState EXCEPT ![target[c]] = "none"]
  /\ clobber' = [clobber EXCEPT ![c] = taskState[target[c]] \in Waiting]
  /\ Goto(c, "reenqueue")
  /\ UNCHANGED <<target, ver, retried, runVars, head, history>>

ReenqueueOk(c) ==
  /\ pc[c] = "reenqueue"
  /\ enqueue(target[c])
  /\ Accept(c)
  /\ Return(c)
  /\ UNCHANGED <<runVars, head>>

\* MUTANT: a second conflict starts the whole dance again.
ReenqueueConflictLoops(c) ==
  /\ pc[c] = "reenqueue"
  /\ Conflict(target[c])
  /\ Goto(c, "enqueue")
  /\ UNCHANGED <<target, ver, clobber, taskVars, runVars, head, history>>

\* "another enqueue won the race, which means a run is now pending and the
\* trigger is covered" (client.go:176-177)
ReenqueueConflict(c) ==
  /\ pc[c] = "reenqueue"
  /\ Conflict(target[c])
  /\ Accept(c)
  /\ Return(c)
  /\ UNCHANGED <<taskVars, runVars, head>>

\* Any Redis call fails, DeleteTask meets an active task, or the process dies:
\* the caller reports an error (or nothing at all) and its job is not enqueued.
\* GetTaskInfo is the one call whose failure is answered nil.
CallFails(c) ==
  /\ pc[c] # "idle"
  /\ ForfeitCleared(c)
  /\ Return(c)
  /\ UNCHANGED <<taskVars, runVars, head>>

\* The answer to EnqueueContext is lost: the task exists, the caller reports an
\* error all the same.
EnqueueUnacknowledged(c) ==
  /\ pc[c] \in {"enqueue", "reenqueue"}
  /\ enqueue(target[c])
  /\ Return(c)
  /\ UNCHANGED <<runVars, head, history>>

ClientStep(c) ==
  \/ EnqueueOk(c) \/ EnqueueConflict(c) \/ EnqueueUnacknowledged(c)
  \/ InspectUnreadable(c) \/ InspectCoalesce(c) \/ InspectTerminal(c)
  \/ ClearDeleted(c) \/ ReenqueueOk(c) \/ ReenqueueConflict(c) \/ CallFails(c)

-----------------------------------------------------------------------------
(***************************************************************************)
(* The asynq server and queue.Worker.                                      *)
(***************************************************************************)
SetTask(r, s) == taskState' = [taskState EXCEPT ![r] = s]

EndRun(r) ==
  /\ phase' = [phase EXCEPT ![r] = "none"]
  /\ UNCHANGED runHead

\* A run is over for good: every trigger up to the HEAD it worked from has had
\* its run.
Settle(r) ==
  /\ settled' = [settled EXCEPT ![r] = Later(@, runHead[r])]
  /\ UNCHANGED <<accepted, clobbered>>

\* MUTANT: only debounced tasks are forwarded.
ForwardScheduledOnly(r) ==
  /\ taskState[r] = "scheduled"
  /\ SetTask(r, "pending")
  /\ UNCHANGED <<retried, runVars, callVars, head, history>>

\* The debounce window or the retry delay is over (DelayedTaskCheckInterval).
Forward(r) ==
  /\ taskState[r] \in {"scheduled", "retry"}
  /\ SetTask(r, "pending")
  /\ UNCHANGED <<retried, runVars, callVars, head, history>>

Busy == {r \in Repos : phase[r] # "none"}

Dequeue(r) ==
  /\ taskState[r] = "pending"
  /\ Cardinality(Busy) < Concurrency
  /\ SetTask(r, "active")
  /\ phase' = [phase EXCEPT ![r] = "started"]
  /\ runHead' = [runHead EXCEPT ![r] = head[r]]
  /\ UNCHANGED <<retried, callVars, head, history>>

\* handleIngest's Run reads the current HEAD: the job carries none.
Fetch(r) ==
  /\ phase[r] = "started"
  /\ phase' = [phase EXCEPT ![r] = "fetched"]
  /\ runHead' = [runHead EXCEPT ![r] = head[r]]
  /\ UNCHANGED <<taskVars, callVars, head, history>>

\* No Retention is configured, so a successful task is deleted at once.
Succeed(r) ==
  /\ phase[r] = "fetched"
  /\ SetTask(r, "none")
  /\ Settle(r)
  /\ EndRun(r)
  /\ UNCHANGED <<retried, callVars, head>>

\* MUTANT: the retry budget is never tested.
RetryLaterForever(r) ==
  /\ SetTask(r, "retry")
  /\ retried' = [retried EXCEPT ![r] = @ + 1]
  /\ UNCHANGED history

\* asynq's handling of a failed attempt: archive once the budget is spent,
\* otherwise retry later.
RetryLater(r) ==
  /\ retried[r] < MaxRetry
  /\ SetTask(r, "retry")
  /\ retried' = [retried EXCEPT ![r] = @ + 1]
  /\ UNCHANGED history

Archive(r) ==
  /\ SetTask(r, "archived")
  /\ Settle(r)
  /\ UNCHANGED retried

Exhausted(r) == retried[r] = MaxRetry

\* handleIngest returns an error.
Fail(r) ==
  /\ phase[r] # "none"
  /\ RetryLater(r) \/ (Exhausted(r) /\ Archive(r))
  /\ EndRun(r)
  /\ UNCHANGED <<callVars, head>>

\* A payload this build cannot decode: asynq.SkipRetry.
FailMalformed(r) ==
  /\ phase[r] = "started"
  /\ Archive(r)
  /\ EndRun(r)
  /\ UNCHANGED <<callVars, head>>

\* handleIngest returns context.Canceled: isFailure is false, so the retry is
\* not counted; asynq tests the budget first.
Cancelled(r) ==
  /\ phase[r] # "none"
  /\ ~Exhausted(r)
  /\ SetTask(r, "retry")
  /\ EndRun(r)
  /\ UNCHANGED <<retried, callVars, head, history>>

\* Worker.Shutdown ran out of time: asynq puts the task back.
Requeue(r) ==
  /\ phase[r] # "none"
  /\ SetTask(r, "pending")
  /\ EndRun(r)
  /\ UNCHANGED <<retried, callVars, head, history>>

\* The process running the handler dies: the task stays active in Redis.
WorkerCrash(r) ==
  /\ phase[r] # "none"
  /\ EndRun(r)
  /\ UNCHANGED <<taskVars, callVars, head, history>>

\* asynq's recoverer finds an active task whose lease expired.
RecoverLease(r) ==
  /\ taskState[r] = "active"
  /\ phase[r] = "none"
  /\ RetryLater(r) \/ (Exhausted(r) /\ Archive(r))
  /\ UNCHANGED <<runVars, callVars, head>>

\* The archive keeps a task for 90 days.
ExpireArchived(r) ==
  /\ taskState[r] = "archived"
  /\ SetTask(r, "none")
  /\ UNCHANGED <<retried, runVars, callVars, head, history>>

WorkerStep(r) ==
  \/ Forward(r) \/ Dequeue(r) \/ Fetch(r) \/ Succeed(r) \/ Fail(r)
  \/ FailMalformed(r) \/ Cancelled(r) \/ Requeue(r) \/ WorkerCrash(r)
  \/ RecoverLease(r) \/ ExpireArchived(r)

-----------------------------------------------------------------------------
Next ==
  \/ \E r \in Repos : Push(r) \/ WorkerStep(r)
  \/ \E c \in Clients : ClientStep(c) \/ \E r \in Repos : EnqueueIngest(c, r)

Spec == Init /\ [][Next]_vars

(***************************************************************************)
(* A caller's request runs to its end; the forwarder and the recoverer are *)
(* periodic; pending tasks are taken first in, first out, so none waits    *)
(* forever for a worker slot (SF); a run that is started again and again   *)
(* is not cut short by a shutdown, a crash or a cancellation every time    *)
(* (SF on its proper ends).                                                *)
(***************************************************************************)
Fairness ==
  /\ \A c \in Clients : WF_vars(ClientStep(c))
  /\ \A r \in Repos :
       /\ WF_vars(Forward(r))
       /\ WF_vars(RecoverLease(r))
       /\ SF_vars(Dequeue(r))
       /\ SF_vars(Fetch(r))
       /\ SF_vars(Succeed(r) \/ Fail(r))

FairSpec == Spec /\ Fairness

-----------------------------------------------------------------------------
(***************************************************************************)
(* Properties.                                                             *)
(***************************************************************************)

\* A trigger at version v has its run behind it, ahead of it, or under way.
Covered(r, v) ==
  \/ settled[r] >= v
  \/ taskState[r] \in Waiting
  \/ taskState[r] = "active" /\ runHead[r] >= v

\* Caller c has deleted a waiting task of r and is about to replace it.
Replacing(c, r) == pc[c] = "reenqueue" /\ target[c] = r /\ clobber[c]

\* A nil error from EnqueueIngest (outside the documented active-window drop
\* and the unreadable task) means a run that starts after the trigger: it is
\* scheduled, running or over.  The one way to lose such a trigger is a second
\* caller that saw the archived task too, deleted the first caller's new task
\* and then failed before it enqueued its own.
AcceptedCovered ==
  \A r \in Repos :
    \/ Covered(r, accepted[r])
    \/ clobbered[r] >= accepted[r]
    \/ \E c \in Clients : Replacing(c, r)

\* "If this conflicts again another enqueue won the race, which means a run is
\* now pending and the trigger is covered" (client.go:176): whatever holds the
\* id after this caller cleared it was enqueued after this caller's trigger.
ReenqueueConflictCovered ==
  \A c \in Clients :
    pc[c] = "reenqueue" /\ Conflict(target[c]) => Covered(target[c], ver[c])

\* An accepted trigger is not merely covered: its run does come to an end, as
\* long as its task is not deleted under it (AcceptedCovered's one exception).
AcceptedSettles ==
  \A r \in Repos : \A v \in 1 .. MaxHead :
    accepted[r] >= v ~> (settled[r] >= v \/ clobbered[r] >= v)

\* Every caller of EnqueueIngest gets an answer: no chain of conflicts, clears
\* and re-enqueues keeps a webhook request waiting.
CallsReturn == \A c \in Clients : pc[c] # "idle" ~> pc[c] = "idle"

\* The slot of JobSlot that an asynq task state stands for.
SlotOf(s) ==
  CASE s = "none" -> "free"
    [] s = "active" -> "running"
    [] s = "archived" -> "parked"
    [] OTHER -> "waiting"

Slot == INSTANCE JobSlot WITH slot <- [r \in Repos |-> SlotOf(taskState[r])]

\* The queue implements JobSlot: whatever callers, worker and asynq do, a
\* repository has one job, a running one is never deleted or replaced, and
\* only a free id takes a new one.
ImplementsJobSlot == Slot!SlotSpec
=============================================================================
