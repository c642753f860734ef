--------------------------- MODULE DeliveryPromise ---------------------------
(***************************************************************************)
(* The delivery pipeline implements NotificationPromise, and an orderly    *)
(* stop keeps what it holds: the steps of DeliveryOutcome, read as steps   *)
(* of the promise and as steps of a process that is being stopped.         *)
(***************************************************************************)
EXTENDS DeliveryAccounting, DeliveryOutcome, Lifecycle

(***************************************************************************)
(* The refinement.                                                         *)
(***************************************************************************)

LEMMA PromiseInit == Init => Promise!Init
<1> SUFFICES ASSUME Init
             PROVE  Promise!Init
  OBVIOUS
<1>1. \A id \in Immediate :
        StageOf(id) = "new" /\ attempts[id] = 0 /\ accepted[id] = {} /\ events[id] = {}
  BY DEF Init, TableInit, WorkerInit, StageOf, Fresh, Immediate
<1> QED
  BY <1>1 DEF Promise!Init

LEMMA PromiseTypes == TypeOK => Promise!PromiseTypeOK
<1> SUFFICES ASSUME TypeOK
             PROVE  Promise!PromiseTypeOK
  OBVIOUS
<1>1. \A id \in Immediate :
        /\ StageOf(id) \in {"new", "open", "closed"}
        /\ attempts[id] \in Nat /\ events[id] \in SUBSET {"delivered", "failed"}
  BY DEF StageOf, TypeOK, WorkerTypeOK, Immediate
<1> QED
  BY <1>1 DEF Promise!PromiseTypeOK, Promise!Stages, Promise!Outcomes

(* The five ways to move are the five steps of the promise.                *)
LEMMA MovesAreSteps ==
    ASSUME TypeOK, NEW id \in Immediate, OnTrack(id)', Moves(id)
    PROVE  Promise!Step(id)
<1> USE DEF Promise!Move, Promise!NoTry, Promise!Silent
<1>1. CASE StageOf(id)' = StageOf(id) /\ Unseen(id)
  BY <1>1 DEF Promise!Step, Promise!Stay, Unseen, SameTries
<1>2. CASE From(id, "new", "open") /\ Unseen(id)
  BY <1>2 DEF Promise!Step, Promise!Accept, Unseen, SameTries, From
<1>3. CASE /\ From(id, "open", "open")
           /\ accepted[id] = {}
           /\ attempts[id] < MaxRetries + 1
           /\ attempts'[id] = attempts[id] + 1
           /\ events'[id] = events[id]
  BY <1>3 DEF Promise!Step, Promise!Try, From
<1>4. CASE /\ From(id, "open", "closed")
           /\ accepted[id] # {} \/ attempts[id] = MaxRetries + 1
           /\ events'[id] = {IF accepted[id] # {} THEN "delivered" ELSE "failed"}
           /\ SameTries(id)
  BY <1>4 DEF Promise!Step, Promise!Announce, SameTries, From
<1>5. CASE /\ Faults # {}
           /\ StageOf(id) # "closed" /\ StageOf(id)' = "closed"
           /\ Unseen(id)
  BY <1>5 DEF Promise!Step, Promise!Lose, Unseen, SameTries
<1> QED
  BY <1>1, <1>2, <1>3, <1>4, <1>5 DEF Moves

LEMMA PromiseNext ==
    ASSUME TypeOK, Sourced, Reliable, EveryCopyOnTrack, [Next]_vars
    PROVE  Promise!Next
<1>0. TypeOK'
  BY NextType
<1>1. Promise!PromiseTypeOK'
  BY <1>0, PromiseTypes, PTL
<1>2. \A id \in Immediate : Promise!Step(id)
  BY NextMoves, MovesAreSteps DEF EveryCopyOnTrack
<1> QED
  BY <1>1, <1>2 DEF Promise!Next

(* The pipeline implements the promise: it accepts, tries, announces once  *)
(* with the outcome of the tries, and loses only when a call fails.        *)
THEOREM PipelineImplementsPromise ==
    ASSUME Reliable
    PROVE  Spec => ImplementsPromise
<1>1. TypeOK /\ Sourced /\ EveryCopyOnTrack /\ [Next]_vars => [Promise!Next]_Promise!promiseVars
  BY PromiseNext
<1> QED
  BY <1>1, PromiseInit, AlwaysShown, PTL DEF Spec, ImplementsPromise, Promise!Spec

(***************************************************************************)
(* Orderly stops, without failing calls.                                   *)
(***************************************************************************)

(* What the steps of a stop preserve as well as those of Next.             *)
Sound ==
    /\ TypeOK
    /\ Sourced
    /\ ArchiveSettled
    /\ EveryCopyOnTrack
    /\ NotShownEarly
    /\ EveryOutcomeStored
    /\ GoneWhenTold

LEMMA InitSound == Init => Sound
<1>1. Init => Sourced /\ ArchiveSettled
  BY DEF Init, TableInit, SchedulerInit, Sourced, Fresh, ArchiveSettled
<1> QED
  BY <1>1, InitType, InitOnTrack, InitShown, InitTold, InitGone DEF Sound

LEMMA NextSound ==
    ASSUME Faults = {}, Sound, [Next]_vars
    PROVE  Sound'
<1> USE DEF Sound
<1>1. Reliable /\ "status" \notin Faults
  BY DEF Reliable
<1>2. TypeOK' /\ Sourced' /\ ArchiveSettled'
  BY NextType, NextSourced, NextKeeps, KeepingSettles
<1>3. EveryCopyOnTrack' /\ NotShownEarly' /\ EveryOutcomeStored' /\ GoneWhenTold'
  BY <1>1, NextOnTrack, NextShown, NextTold, NextGone
<1> QED
  BY <1>2, <1>3

(* What the scheduler leaves undone when its context is cancelled.         *)
LEMMA GivingUpIsCalm ==
    ASSUME Sound, GiveUp \/ GiveUpBulk, NEW id \in Immediate
    PROVE  Calm(id) /\ Kept(id) /\ OnTrack(id) /\ status'[id] = status[id]
<1>1. OnTrack(id) /\ id \in Ids /\ id \notin sids
  BY DEF Sound, EveryCopyOnTrack, OnTrack, WithScheduler, Immediate
<1>2. /\ UNCHANGED <<lists, retryQueue, toEnqueue, wpc, wmsg, table, archive>>
      /\ Unseen(id) /\ sids' = {}
  BY DEF GiveUp, GiveUpBulk, BulkUpdateStatus, tableVars, queueVars, serviceVars, workerVars,
         Unseen, SameTries
<1>3. status'[id] = status[id]
  BY <1>1 DEF GiveUp, GiveUpBulk, BulkUpdateStatus, tableVars
<1>4. Kept(id)
  BY <1>1, <1>2
  DEF Kept, HasCopy, WithRequest, Listed, Slots, AwaitingRetry, WithWorker, Holds,
      WithScheduler, Fresh
<1> QED
  BY <1>1, <1>2, <1>3, <1>4, ListsUnchanged DEF Calm, Holds, WithScheduler, Fresh

LEMMA GivingUpIsSound ==
    ASSUME Sound, GiveUp \/ GiveUpBulk
    PROVE  Sound'
<1> USE DEF Sound
<1>1. /\ UNCHANGED <<lists, retryQueue, toEnqueue, sending, wpc, wmsg, attempts, accepted,
                     events, table, archive, retryCount, providerMsgID, faultsLeft>>
      /\ sids' = {} /\ spc' \in {"retries", "wait"}
      /\ \/ batch' = {} /\ pipe' = {} /\ moving' = {}
         \/ UNCHANGED <<batch, pipe, moving>> /\ spc # "push"
  BY DEF GiveUp, GiveUpBulk, BulkUpdateStatus, tableVars, queueVars, serviceVars, workerVars
<1>2. /\ status' \in [Ids -> Status \cup {NoStatus}]
      /\ \A id \in Ids : id \notin table => status'[id] = status[id]
  BY DEF GiveUp, GiveUpBulk, BulkUpdateStatus, tableVars, TypeOK, TableTypeOK, Status
<1>3. TypeOK'
  BY <1>1, <1>2
  DEF TypeOK, TableTypeOK, QueueTypeOK, ServiceTypeOK, WorkerTypeOK, SchedulerTypeOK, SchedulerPCs
<1>4. Sourced'
  BY <1>1, <1>2 DEF Sourced, Fresh
<1>5. ArchiveSettled'
  BY <1>1, <1>2 DEF ArchiveSettled, TypeOK, TableTypeOK
<1>6. EveryCopyOnTrack'
  BY GivingUpIsCalm, CalmOnTrack DEF EveryCopyOnTrack
<1>7. ASSUME NEW id \in Immediate
      PROVE  /\ HasCopy(id)' <=> HasCopy(id)
             /\ id \in Fresh' <=> id \in Fresh
             /\ status'[id] = status[id] /\ events'[id] = events[id]
  BY GivingUpIsCalm DEF Calm, Kept, Unseen
<1>8. NotShownEarly'
  BY <1>1, <1>7 DEF NotShownEarly, Undecided, Holds, Announcing
<1>9. EveryOutcomeStored'
  BY <1>1, <1>7 DEF EveryOutcomeStored, Told, Shows, Holds
<1>10. GoneWhenTold'
  BY <1>7 DEF GoneWhenTold, StageOf
<1> QED
  BY <1>3, <1>4, <1>5, <1>6, <1>8, <1>9, <1>10

(* The other steps of a process that is being stopped are its usual ones.  *)
LEMMA LifeSteps ==
    ASSUME [LifeNext]_allVars
    PROVE  [Next]_vars \/ GiveUp \/ GiveUpBulk
BY DEF LifeNext, allVars, RunApi, RunTick, BeginStop, HandlersDone, FinishUnderWay, SchedulerDone,
       RunWork, LastPop, LastPopEmpty, FinishMessage, WorkersDone, Restart, Next, Work, WorkerStep

(* The hooks end in order: no request is left when the scheduler is asked  *)
(* to stop, and no worker is busy when the process is gone.                *)
StoppedInOrder ==
    /\ phase \in {"scheduler", "workers", "down"} => \A r \in Requests : toEnqueue[r] = {}
    /\ phase = "down" => \A w \in Workers : wpc[w] = "pop"

LEMMA NextInOrder ==
    ASSUME StoppedInOrder, [LifeNext]_allVars
    PROVE  StoppedInOrder'
<1>1. CASE UNCHANGED allVars
  BY <1>1 DEF StoppedInOrder, allVars, vars, serviceVars, workerVars, lifeVars
<1>2. CASE RunApi \/ RunTick \/ BeginStop \/ Restart
  BY <1>2
  DEF StoppedInOrder, RunApi, RunTick, BeginStop, Restart, Serving, Turn, lifeVars
<1>3. CASE HandlersDone \/ SchedulerDone \/ WorkersDone
  BY <1>3
  DEF StoppedInOrder, HandlersDone, SchedulerDone, WorkersDone, Turn, vars, serviceVars,
      workerVars
<1>4. CASE GiveUp \/ GiveUpBulk \/ FinishUnderWay
  BY <1>4
  DEF StoppedInOrder, GiveUp, GiveUpBulk, FinishUnderWay, Tick, serviceVars, workerVars, lifeVars
<1>5. ASSUME NEW w \in Workers, RunWork(w) \/ LastPop(w) \/ LastPopEmpty(w) \/ FinishMessage(w)
      PROVE  StoppedInOrder'
  BY <1>5
  DEF StoppedInOrder, RunWork, LastPop, LastPopEmpty, FinishMessage, Work,
      serviceVars, lifeVars, vars
<1> QED
  BY <1>1, <1>2, <1>3, <1>4, <1>5 DEF LifeNext

LEMMA AlwaysSoundInOrder ==
    ASSUME Faults = {}
    PROVE  LifeSpec => [](Sound /\ StoppedInOrder)
<1>1. LifeInit => Sound /\ StoppedInOrder
  BY InitSound DEF LifeInit, StoppedInOrder
<1>2. Sound /\ StoppedInOrder /\ [LifeNext]_allVars => (Sound /\ StoppedInOrder)'
  BY LifeSteps, NextSound, GivingUpIsSound, NextInOrder
<1> QED
  BY <1>1, <1>2, PTL DEF LifeSpec

(* When the process is gone, what is not finished has its message in Redis.*)
THEOREM StopsLoseNothing ==
    ASSUME Faults = {}
    PROVE  LifeSpec => []StopLosesNothing
<1>1. Sound /\ StoppedInOrder => StopLosesNothing
  <2> SUFFICES ASSUME Sound, StoppedInOrder, phase = "down", NEW id \in Immediate, id \in table
               PROVE  status[id] \in Completed \/ Listed(id) \/ AwaitingRetry(id)
    BY DEF StopLosesNothing
  <2>1. HasCopy(id) \/ status[id] \in Completed
    BY GoneIsCompleted DEF Sound
  <2>2. ~WithRequest(id) /\ ~WithWorker(id) /\ ~WithScheduler(id)
    BY DEF StoppedInOrder, WithRequest, WithWorker, Holds, Sound, EveryCopyOnTrack, OnTrack
  <2> QED
    BY <2>1, <2>2 DEF HasCopy
<1> QED
  BY <1>1, AlwaysSoundInOrder, PTL

(* Stopping and starting the process breaks no promise: for the promise,   *)
(* the steps of a stop are the usual ones or none at all.                  *)
THEOREM StopsImplementPromise ==
    ASSUME Faults = {}
    PROVE  LifeSpec => ImplementsPromise
<1>1. Sound /\ Sound' /\ [LifeNext]_allVars => [Promise!Next]_Promise!promiseVars
  <2> SUFFICES ASSUME Sound, Sound', [LifeNext]_allVars
               PROVE  Promise!Next
    OBVIOUS
  <2>1. CASE [Next]_vars
    BY <2>1, PromiseNext DEF Sound, Reliable
  <2>2. CASE GiveUp \/ GiveUpBulk
    <3>1. \A id \in Immediate : Promise!Step(id)
      BY <2>2, GivingUpIsCalm, CalmMoves, MovesAreSteps DEF Sound
    <3>2. TypeOK'
      BY DEF Sound
    <3>3. Promise!PromiseTypeOK'
      BY <3>2, PromiseTypes, PTL
    <3> QED
      BY <3>1, <3>3 DEF Promise!Next
  <2> QED
    BY <2>1, <2>2, LifeSteps
<1>2. LifeInit => Promise!Init
  BY PromiseInit DEF LifeInit
<1> QED
  BY <1>1, <1>2, AlwaysSoundInOrder, PTL DEF LifeSpec, ImplementsPromise, Promise!Spec


(***************************************************************************)
(* Orderly stops, whatever calls fail.                                     *)
(***************************************************************************)

(* What the scheduler gives up, it forgets; rows it was about to mark may  *)
(* have been marked.  Nothing else changes.                                *)
LeftUndone ==
    /\ UNCHANGED <<lists, retryQueue, serviceVars, workerVars, table, archive, retryCount,
                   providerMsgID, faultsLeft>>
    /\ sids' = {} /\ spc' \in {"retries", "wait"}
    /\ \/ batch' = {} /\ pipe' = {} /\ moving' = {}
       \/ UNCHANGED <<batch, pipe, moving>> /\ spc = "bulk"
    /\ status' \in [Ids -> Status \cup {NoStatus}]
    /\ \A id \in Ids : status'[id] = status[id] \/ (id \in table /\ status'[id] = "queued")

LEMMA GivingUp ==
    ASSUME TypeOK, GiveUp \/ GiveUpBulk
    PROVE  LeftUndone
<1>1. CASE GiveUp
  BY <1>1 DEF GiveUp, LeftUndone, tableVars, queueVars, TypeOK, TableTypeOK
<1>2. CASE GiveUpBulk
  <2>1. /\ UNCHANGED <<lists, retryQueue, serviceVars, workerVars, table, archive, retryCount,
                       providerMsgID, faultsLeft, batch, pipe, moving>>
        /\ spc = "bulk" /\ sids' = {} /\ spc' = "retries"
    BY <1>2 DEF GiveUpBulk, BulkUpdateStatus, tableVars, queueVars
  <2>2. /\ status' \in [Ids -> Status \cup {NoStatus}]
        /\ \A id \in Ids : status'[id] = status[id] \/ (id \in table /\ status'[id] = "queued")
    BY <1>2 DEF GiveUpBulk, BulkUpdateStatus, tableVars, TypeOK, TableTypeOK, Status
  <2> QED
    BY <2>1, <2>2 DEF LeftUndone
<1> QED
  BY <1>1, <1>2

LEMMA GivingUpKeepsBasis ==
    ASSUME WeakBasis, LeftUndone
    PROVE  WeakBasis'
<1> USE DEF WeakBasis, LeftUndone
<1>1. TypeOK'
  BY DEF TypeOK, TableTypeOK, QueueTypeOK, ServiceTypeOK, WorkerTypeOK, SchedulerTypeOK,
         SchedulerPCs, serviceVars, workerVars
<1>2. Sourced'
  BY DEF Sourced, Fresh
<1>3. AttemptsAccounted'
  BY DEF AttemptsAccounted, ListsBacked, Backed, WorkerBacked, CountsBacked, Counting,
         Exhausted, workerVars
<1>4. FreshIsIdle'
  BY DEF FreshIsIdle, Fresh, HasCopy, WithRequest, Listed, Slots, AwaitingRetry, WithWorker,
         Holds, WithScheduler, MayBeResent, serviceVars, workerVars
<1>5. AnnouncementsBacked'
  BY DEF AnnouncementsBacked, workerVars
<1> QED
  BY <1>1, <1>2, <1>3, <1>4, <1>5

LEMMA GivingUpIsWeakStep ==
    ASSUME WeakBasis, LeftUndone, NEW id \in Ids
    PROVE  Weak!WeakStep(id)
<1>1. SameRecord(id)
  BY DEF LeftUndone, workerVars, SameRecord
<1>2. id \in Fresh' <=> id \in Fresh
  BY DEF LeftUndone, Fresh
<1>3. HasCopy(id)' => HasCopy(id)
  BY DEF LeftUndone, HasCopy, WithRequest, Listed, Slots, AwaitingRetry, WithWorker, Holds,
         WithScheduler, serviceVars, workerVars
<1>4. /\ ToBeFetched(id)' => ToBeFetched(id)
      /\ MayBeResent(id)' => MayBeResent(id)
  BY DEF LeftUndone, ToBeFetched, MayBeResent, serviceVars
<1>5. \/ WeakStageOf(id)' = WeakStageOf(id)
      \/ WeakStageOf(id) = "open" /\ WeakStageOf(id)' = "closed"
  BY <1>2, <1>3, <1>4 DEF WeakStageOf
<1> QED
  BY <1>1, <1>5
  DEF Weak!WeakStep, Weak!Stay, Weak!Lose, Weak!NoTry, Weak!Silent, SameRecord

(* Stopping and starting the process keeps the weak promise, whatever else *)
(* fails meanwhile.                                                        *)
THEOREM StopsKeepWeakPromise == LifeSpec => KeepsWeakPromise
<1>1. LifeInit => WeakBasis /\ Weak!Init
  BY InitWeakBasis, WeakInit DEF LifeInit
<1>2. WeakBasis /\ [LifeNext]_allVars => WeakBasis'
  BY LifeSteps, NextWeakBasis, GivingUp, GivingUpKeepsBasis DEF WeakBasis
<1>3. WeakBasis /\ WeakBasis' /\ [LifeNext]_allVars => [Weak!WeakNext]_Weak!promiseVars
  <2> SUFFICES ASSUME WeakBasis, WeakBasis', [LifeNext]_allVars
               PROVE  Weak!WeakNext
    OBVIOUS
  <2>1. CASE [Next]_vars
    BY <2>1, WeakNextStep DEF WeakBasis
  <2>2. CASE GiveUp \/ GiveUpBulk
    <3>1. \A id \in Ids : Weak!WeakStep(id)
      BY <2>2, GivingUp, GivingUpIsWeakStep DEF WeakBasis
    <3>2. TypeOK'
      BY DEF WeakBasis
    <3>3. Weak!PromiseTypeOK'
      BY <3>2, WeakTypes, PTL
    <3> QED
      BY <3>1, <3>3 DEF Weak!WeakNext
  <2> QED
    BY <2>1, <2>2, LifeSteps
<1> QED
  BY <1>1, <1>2, <1>3, PTL DEF LifeSpec, KeepsWeakPromise, Weak!WeakSpec

=============================================================================
