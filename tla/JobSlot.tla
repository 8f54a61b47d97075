------------------------------- MODULE JobSlot -------------------------------
(***************************************************************************)
(* What the rest of docz-api may assume of the ingest queue: one job slot  *)
(* per repository.  A slot is free, waiting (a run is coming), running, or *)
(* parked (asynq archived the job; it will never run again by itself).     *)
(* IngestQueue.tla, which models the asynq task and every step of          *)
(* queue.Client.EnqueueIngest and queue.Worker, implements this module;    *)
(* Pipeline.tla uses it in place of the detailed queue.                    *)
(***************************************************************************)
CONSTANT Repos

VARIABLE slot

Slots == {"free", "waiting", "running", "parked"}

SlotTypeOK == slot \in [Repos -> Slots]

SlotInit == slot = [r \in Repos |-> "free"]

Move(r, from, to) ==
  /\ slot[r] \in from
  /\ slot' = [slot EXCEPT ![r] = to]

\* A job enters only a free slot: the task id is unique per repository.
Submit(r) == Move(r, {"free"}, "waiting")

\* A client that saw a parked job deletes whatever now holds the id, which may
\* be a job that is waiting, never one that is running.
Clear(r) == Move(r, {"parked", "waiting"}, "free")

Start(r) == Move(r, {"waiting"}, "running")

\* A run that succeeds gives the id back; any other end keeps it.
Finish(r) == Move(r, {"running"}, "free")
Again(r) == Move(r, {"running"}, "waiting")
Park(r) == Move(r, {"running"}, "parked")

\* asynq trims the archive after 90 days.
Expire(r) == Move(r, {"parked"}, "free")

SlotNext ==
  \E r \in Repos :
    \/ Submit(r) \/ Clear(r) \/ Start(r)
    \/ Finish(r) \/ Again(r) \/ Park(r) \/ Expire(r)

SlotSpec == SlotInit /\ [][SlotNext]_slot
=============================================================================
