----------------------------- MODULE Lifecycle ------------------------------
(***************************************************************************)
(* Orderly stops and restarts of the process.  cmd/api leaves the order to *)
(* fx, which runs the OnStop hooks in the reverse of the order in which    *)
(* the parts were started:                                                 *)
(*                                                                         *)
(*   "draining"   no connection is accepted; Shutdown waits for handlers   *)
(*   "scheduler"  the scheduler's context is cancelled and its end awaited *)
(*   "workers"    the same for the pool; a worker finishes what it holds   *)
(*   "down"       the process is gone; "up" is the next one.               *)
(*                                                                         *)
(* A part that has not been asked to stop yet goes on as before.  A stop   *)
(* that outlasts fx's StopTimeout kills the process: that is a Crash of    *)
(* DeliverySystem.                                                         *)
(***************************************************************************)
EXTENDS DeliveryRefinement

CONSTANT MaxStops  (* bound: how often the process is stopped              *)

ASSUME LifecycleAssumption == MaxStops \in Nat

VARIABLES
    phase,   (* how far the stop has come                                  *)
    inBRPop, (* "workers": those whose last BRPOP is still under way       *)
    stops    (* the stops begun so far                                     *)

lifeVars == <<phase, inBRPop, stops>>

allVars == <<vars, lifeVars>>

Phases == {"up", "draining", "scheduler", "workers", "down"}

LifeInit == Init /\ phase = "up" /\ inBRPop = {} /\ stops = 0

Turn(from, to) == phase = from /\ phase' = to

(* SIGTERM.                                                                *)
BeginStop ==
    /\ Turn("up", "draining")
    /\ stops < MaxStops
    /\ stops' = stops + 1
    /\ UNCHANGED <<vars, inBRPop>>

(* Shutdown returns when every handler has answered.                       *)
HandlersDone ==
    /\ Turn("draining", "scheduler")
    /\ \A r \in Requests : toEnqueue[r] = {}
    /\ UNCHANGED <<vars, inBRPop, stops>>

(* Faulty: after a failed pipeline processScheduled goes on to the UPDATE. *)
GiveUpMarked ==
    /\ phase = "scheduler"
    /\ \/ /\ spc = "push" /\ pipe = batch
          /\ BulkUpdateStatus(sids, "queued")
          /\ spc' = "retries"
       \/ spc \in {"retries", "requeue", "archive"} /\ spc' = "wait" /\ UNCHANGED tableVars
    /\ batch' = {}
    /\ pipe' = {}
    /\ sids' = {}
    /\ moving' = {}
    /\ UNCHANGED <<queueVars, serviceVars, workerVars, faultsLeft, lifeVars>>

(* Under a cancelled context nothing new is begun: a SELECT, a ZRANGE and  *)
(* a pipeline that was not sent yet, or would be sent again, fail, and an  *)
(* archive statement may.  A pipeline that was sent is executed to its     *)
(* end.  Of the requeues, one cut short and one that fetched less leave    *)
(* the same behind.                                                        *)
GiveUp ==
    /\ phase = "scheduler"
    /\ \/ spc = "push" /\ pipe = batch /\ spc' = "retries"
       \/ spc \in {"retries", "requeue", "archive"} /\ spc' = "wait"
    /\ batch' = {}
    /\ pipe' = {}
    /\ sids' = {}
    /\ moving' = {}
    /\ UNCHANGED <<tableVars, queueVars, serviceVars, workerVars, faultsLeft, lifeVars>>

(* The bulk UPDATE under a cancelled context: an error, after which the    *)
(* rows may have been changed all the same.                                *)
GiveUpBulk ==
    /\ phase = "scheduler"
    /\ spc = "bulk"
    /\ BulkUpdateStatus(sids, "queued") \/ UNCHANGED tableVars
    /\ sids' = {}
    /\ spc' = "retries"
    /\ UNCHANGED <<batch, pipe, moving, queueVars, serviceVars, workerVars, faultsLeft, lifeVars>>

(* What is left of a pipeline that was sent, or the archive statement.     *)
FinishUnderWay ==
    /\ phase = "scheduler"
    /\ spc \in {"push", "requeue", "archive"}
    /\ Tick
    /\ UNCHANGED lifeVars

(* wg.Wait of the scheduler returns; the pool's context is cancelled while *)
(* its idle workers are in BRPOP.                                          *)
SchedulerDone ==
    /\ Turn("scheduler", "workers")
    /\ spc = "wait"
    /\ inBRPop' = {w \in Workers : wpc[w] = "pop"}
    /\ UNCHANGED <<vars, stops>>

(* A BRPOP that is under way may still return a message.                   *)
LastPop(w) ==
    /\ phase = "workers"
    /\ w \in inBRPop
    /\ Pop(w) /\ UNCHANGED <<serviceVars, schedulerVars>>
    /\ inBRPop' = inBRPop \ {w}
    /\ UNCHANGED <<phase, stops>>

(* ... or time out; the worker sees that its context is cancelled.         *)
LastPopEmpty(w) ==
    /\ phase = "workers"
    /\ w \in inBRPop
    /\ inBRPop' = inBRPop \ {w}
    /\ UNCHANGED <<vars, phase, stops>>

FinishMessage(w) ==
    /\ phase = "workers"
    /\ wpc[w] # "pop"
    /\ Work(w)
    /\ UNCHANGED lifeVars

(* Faulty: OnStop does not wait for the pool.                              *)
ExitAtOnce ==
    /\ Turn("workers", "down")
    /\ wpc' = [w \in Workers |-> "pop"]
    /\ wmsg' = [w \in Workers |-> NoMsg]
    /\ inBRPop' = {}
    /\ UNCHANGED <<tableVars, queueVars, serviceVars, attempts, accepted, events,
                   schedulerVars, faultsLeft, stops>>

(* Faulty: wg.Wait without a Done for workers that have nothing to do.     *)
ExitWhenBusy ==
    /\ Turn("workers", "down")
    /\ \E w \in Workers : wpc[w] # "pop"
    /\ UNCHANGED <<vars, inBRPop, stops>>

(* wg.Wait of the pool returns, the hub is stopped and the process exits.  *)
WorkersDone ==
    /\ Turn("workers", "down")
    /\ inBRPop = {}
    /\ \A w \in Workers : wpc[w] = "pop"
    /\ UNCHANGED <<vars, inBRPop, stops>>

Restart == Turn("down", "up") /\ UNCHANGED <<vars, inBRPop, stops>>

(* The parts that have not been asked to stop.                             *)
Serving == phase \in {"up", "draining"}

RunApi == Serving /\ Api /\ UNCHANGED lifeVars

RunTick == Serving /\ Tick /\ UNCHANGED lifeVars

RunWork(w) == phase \in {"up", "draining", "scheduler"} /\ Work(w) /\ UNCHANGED lifeVars

LifeNext ==
    \/ RunApi
    \/ RunTick
    \/ BeginStop
    \/ HandlersDone
    \/ GiveUp
    \/ GiveUpBulk
    \/ FinishUnderWay
    \/ SchedulerDone
    \/ \E w \in Workers : RunWork(w) \/ LastPop(w) \/ LastPopEmpty(w) \/ FinishMessage(w)
    \/ WorkersDone
    \/ Restart

LifeSpec == LifeInit /\ [][LifeNext]_allVars

(***************************************************************************)
(* Progress: the goroutines of a running part keep running, and the hooks  *)
(* of a stop are called one after the other.  Nothing makes a stop begin.  *)
(***************************************************************************)
LifeFairness ==
    /\ \A r \in Requests :
          WF_allVars(/\ Serving /\ \E id \in Ids : Enqueue(r, id)
                     /\ UNCHANGED <<workerVars, schedulerVars, lifeVars>>)
    /\ \A w \in Workers :
          WF_allVars(RunWork(w)) /\ WF_allVars(LastPopEmpty(w)) /\ WF_allVars(FinishMessage(w))
    /\ WF_allVars(RunTick)
    /\ \A id \in Ids :
          /\ SF_allVars(spc = "wait" /\ RunTick /\ id \in sids')
          /\ SF_allVars(spc = "retries" /\ RunTick /\ \E m \in pipe' : m.id = id)
    /\ WF_allVars(HandlersDone)
    /\ WF_allVars(GiveUp \/ GiveUpBulk \/ FinishUnderWay)
    /\ WF_allVars(SchedulerDone)
    /\ WF_allVars(WorkersDone)
    /\ WF_allVars(Restart)

LiveLifeSpec == LifeSpec /\ LifeFairness

(* While the process is down, every notification that is neither scheduled *)
(* nor finished has its message in Redis: the next process finds it.       *)
StopLosesNothing ==
    phase = "down" =>
        \A id \in Immediate \cap table :
            status[id] \in Completed \/ Listed(id) \/ AwaitingRetry(id)

(* A stop that was begun ends, whatever the parts were doing, and the next *)
(* process starts.                                                         *)
StopCompletes == phase # "up" ~> phase = "up"

=============================================================================
