--------------------------- MODULE DeliveryOutcome ---------------------------
(***************************************************************************)
(* One message per notification, and so one outcome: what holds for the    *)
(* notifications without a scheduled_at, for any number of them, of        *)
(* workers, requests and retries, while no pipeline of the scheduler is    *)
(* cut short and no command is sent twice.  Other calls may fail.          *)
(*                                                                         *)
(* A notification is followed on its own: a step of the system leaves it   *)
(* calm, at most taking away its message, or is the next step of the one   *)
(* copy of its message.                                                    *)
(***************************************************************************)
EXTENDS DeliveryRows, DeliveryRefinement

Reliable == Faults \cap {"pipeline", "resend"} = {}

(***************************************************************************)
(* The lists, seen from one notification.                                  *)
(***************************************************************************)

(* No message of the notification is added to a list.                      *)
NoneAdded(id) ==
    /\ OneSlot(id) => OneSlot(id)'
    /\ \A p \in Priority : \A i \in Slots(id, p)' :
          \E j \in Slots(id, p) : lists'[p][i] = lists[p][j]

SameListed(id) == Listed(id)' = Listed(id)

LEMMA ListsUnchanged ==
    ASSUME NEW id, UNCHANGED lists
    PROVE  NoneAdded(id) /\ SameListed(id)
BY DEF NoneAdded, SameListed, OneSlot, Listed, Slots

LEMMA AppendElements ==
    ASSUME NEW S, NEW s \in Seq(S), NEW m \in S
    PROVE  /\ DOMAIN s = 1 .. Len(s) /\ Len(s) \in Nat
           /\ DOMAIN Append(s, m) = 1 .. Len(s) + 1
           /\ Append(s, m)[Len(s) + 1] = m
           /\ \A i \in 1 .. Len(s) : Append(s, m)[i] = s[i]
OBVIOUS

LEMMA TailElements ==
    ASSUME NEW S, NEW s \in Seq(S), s # <<>>
    PROVE  /\ DOMAIN Tail(s) = 1 .. Len(s) - 1
           /\ \A i \in 1 .. Len(s) - 1 : Tail(s)[i] = s[i + 1]
<1>1. Tail(s) \in Seq(S) /\ Len(s) \in Nat \ {0} /\ Len(Tail(s)) = Len(s) - 1
  OBVIOUS
<1>2. DOMAIN Tail(s) = 1 .. Len(s) - 1
  BY <1>1
<1> QED
  BY <1>1, <1>2

LEMMA PushedElsewhere ==
    ASSUME TypeOK, NEW id, NEW m \in Message, m.id # id, LPush(m)
    PROVE  NoneAdded(id) /\ SameListed(id)
<1>1. ASSUME NEW p \in Priority
      PROVE  /\ Slots(id, p)' = Slots(id, p)
             /\ \A i \in Slots(id, p) : lists'[p][i] = lists[p][i]
  <2>1. lists[p] \in Seq(Message)
    BY DEF TypeOK, QueueTypeOK
  <2>2. lists'[p] = IF p = queueKey(m) THEN Append(lists[p], m) ELSE lists[p]
    BY DEF TypeOK, QueueTypeOK, LPush
  <2>3. CASE p = queueKey(m)
    <3>1. /\ DOMAIN lists[p] = 1 .. Len(lists[p])
          /\ DOMAIN lists'[p] = 1 .. Len(lists[p]) + 1
          /\ Len(lists[p]) \in Nat
          /\ lists'[p][Len(lists[p]) + 1] = m
          /\ \A i \in 1 .. Len(lists[p]) : lists'[p][i] = lists[p][i]
      BY <2>1, <2>2, <2>3, AppendElements
    <3> QED
      BY <3>1 DEF Slots
  <2> QED
    BY <2>2, <2>3 DEF Slots
<1> QED
  BY <1>1 DEF NoneAdded, SameListed, OneSlot, Listed

LEMMA PushedHere ==
    ASSUME TypeOK, NEW m \in Message, LPush(m), ~Listed(m.id)
    PROVE  /\ OneSlot(m.id)' /\ Listed(m.id)'
           /\ \A p \in Priority : \A i \in Slots(m.id, p)' : lists'[p][i] = m
<1> DEFINE k == queueKey(m)
<1>1. k \in Priority /\ lists[k] \in Seq(Message)
  BY DomainAssumption DEF queueKey, Message, TypeOK, QueueTypeOK
<1>2. \A p \in Priority :
        lists'[p] = IF p = k THEN Append(lists[p], m) ELSE lists[p]
  BY DEF TypeOK, QueueTypeOK, LPush
<1>3. /\ DOMAIN lists[k] = 1 .. Len(lists[k])
      /\ DOMAIN lists'[k] = 1 .. Len(lists[k]) + 1
      /\ Len(lists[k]) \in Nat
      /\ lists'[k][Len(lists[k]) + 1] = m
      /\ \A i \in 1 .. Len(lists[k]) : lists'[k][i] = lists[k][i]
  <2>1. lists'[k] = Append(lists[k], m)
    BY <1>1, <1>2
  <2> HIDE DEF k
  <2> QED
    BY <1>1, <2>1, AppendElements
<1>4. \A p \in Priority : Slots(m.id, p)' = IF p = k THEN {Len(lists[k]) + 1} ELSE {}
  <2> HIDE DEF k
  <2> SUFFICES ASSUME NEW p \in Priority
               PROVE  Slots(m.id, p)' = IF p = k THEN {Len(lists[k]) + 1} ELSE {}
    OBVIOUS
  <2>1. Slots(m.id, p) = {}
    BY DEF Listed
  <2>2. CASE p = k
    <3>1. \A i \in DOMAIN lists'[k] : i \in DOMAIN lists[k] \/ i = Len(lists[k]) + 1
      BY <1>3
    <3>2. \A i \in DOMAIN lists[k] : lists'[k][i].id # m.id
      BY <1>3, <2>1, <2>2 DEF Slots
    <3>3. \A i \in DOMAIN lists'[k] : lists'[k][i].id = m.id <=> i = Len(lists[k]) + 1
      BY <1>3, <3>1, <3>2
    <3>4. Len(lists[k]) + 1 \in DOMAIN lists'[k]
      BY <1>3
    <3>5. Slots(m.id, p)' = {i \in DOMAIN lists'[k] : lists'[k][i].id = m.id}
      BY <2>2 DEF Slots
    <3> QED
      BY <2>2, <3>3, <3>4, <3>5
  <2>3. CASE p # k
    BY <1>2, <2>1, <2>3 DEF Slots
  <2> QED
    BY <2>2, <2>3
<1> QED
  BY <1>1, <1>3, <1>4 DEF OneSlot, Listed

LEMMA Popped ==
    ASSUME TypeOK, NEW id, NEW p \in Priority, Poppable(p), RPop(p)
    PROVE  /\ NoneAdded(id)
           /\ Head(lists[p]).id # id => SameListed(id)
           /\ Head(lists[p]).id = id =>
                 /\ \E i \in Slots(id, p) : Head(lists[p]) = lists[p][i]
                 /\ OneSlot(id) => ~Listed(id)'
<1>1. /\ lists[p] \in Seq(Message) /\ lists[p] # <<>>
      /\ DOMAIN lists[p] = 1 .. Len(lists[p]) /\ Len(lists[p]) \in Nat \ {0}
      /\ Head(lists[p]) = lists[p][1]
  BY DEF TypeOK, QueueTypeOK, Poppable
<1>2. \A q \in Priority : lists'[q] = IF q = p THEN Tail(lists[p]) ELSE lists[q]
  BY DEF TypeOK, QueueTypeOK, RPop
<1>3. /\ DOMAIN lists'[p] = 1 .. Len(lists[p]) - 1
      /\ \A i \in 1 .. Len(lists[p]) - 1 : lists'[p][i] = lists[p][i + 1]
  BY <1>1, <1>2, TailElements
<1>4. \A i \in Slots(id, p)' :
        i \in Nat \ {0} /\ i + 1 \in Slots(id, p) /\ lists'[p][i] = lists[p][i + 1]
  BY <1>1, <1>3 DEF Slots
<1>5. \A q \in Priority : q # p => Slots(id, q)' = Slots(id, q)
  BY <1>2 DEF Slots
<1>6. \A q \in Priority : q # p => lists'[q] = lists[q]
  BY <1>2
<1>7. NoneAdded(id)
  <2>1. ASSUME OneSlot(id)
        PROVE  OneSlot(id)'
    <3> SUFFICES ASSUME NEW q1 \in Priority, NEW q2 \in Priority,
                        NEW i \in Slots(id, q1)', NEW j \in Slots(id, q2)'
                 PROVE  q1 = q2 /\ i = j
      BY DEF OneSlot
    <3>1. CASE q1 = p /\ q2 = p
      BY <2>1, <1>4, <3>1 DEF OneSlot
    <3>2. CASE q1 = p /\ q2 # p
      BY <2>1, <1>4, <1>5, <3>2 DEF OneSlot
    <3>3. CASE q1 # p /\ q2 = p
      BY <2>1, <1>4, <1>5, <3>3 DEF OneSlot
    <3>4. CASE q1 # p /\ q2 # p
      BY <2>1, <1>5, <3>4 DEF OneSlot
    <3> QED
      BY <3>1, <3>2, <3>3, <3>4
  <2>2. \A q \in Priority : \A i \in Slots(id, q)' :
          \E j \in Slots(id, q) : lists'[q][i] = lists[q][j]
    BY <1>4, <1>5, <1>6
  <2> QED
    BY <2>1, <2>2 DEF NoneAdded
<1>8. ASSUME Head(lists[p]).id # id
      PROVE  SameListed(id)
  <2>1. \A i \in Slots(id, p) : i \in Nat /\ i - 1 \in Slots(id, p)'
    BY <1>1, <1>3, <1>8 DEF Slots
  <2> QED
    BY <1>4, <1>5, <2>1 DEF SameListed, Listed
<1>9. ASSUME Head(lists[p]).id = id
      PROVE  /\ \E i \in Slots(id, p) : Head(lists[p]) = lists[p][i]
             /\ OneSlot(id) => ~Listed(id)'
  <2>1. 1 \in Slots(id, p)
    BY <1>1, <1>9 DEF Slots
  <2>2. ASSUME OneSlot(id), NEW q \in Priority, NEW i \in Slots(id, q)'
        PROVE  FALSE
    <3>1. CASE q = p
      BY <1>4, <2>1, <2>2, <3>1 DEF OneSlot
    <3>2. CASE q # p
      BY <1>5, <2>1, <2>2, <3>2 DEF OneSlot
    <3> QED
      BY <3>1, <3>2
  <2> QED
    BY <1>1, <2>1, <2>2 DEF Listed
<1> QED
  BY <1>7, <1>8, <1>9

(***************************************************************************)
(* What a step does to one notification.                                   *)
(***************************************************************************)

SameTries(id) == attempts'[id] = attempts[id] /\ accepted'[id] = accepted[id]

Unseen(id) == SameTries(id) /\ events'[id] = events[id]

(* Its row stays there or stays away, and its message does not get lost.   *)
Kept(id) == (id \in Fresh' <=> id \in Fresh) /\ (HasCopy(id)' <=> HasCopy(id))

(* The step is not a step of its message.  When a call fails the message   *)
(* may disappear.                                                          *)
Calm(id) ==
    /\ Unseen(id)
    /\ id \in Fresh' => id \in Fresh
    /\ ~WithScheduler(id)'
    /\ \A r \in Requests : id \in toEnqueue'[r] => id \in toEnqueue[r]
    /\ NoneAdded(id)
    /\ \A m \in retryQueue' : m.id = id => m \in retryQueue
    /\ \A w \in Workers :
          Holds(w, id)' => Holds(w, id) /\ wpc'[w] = wpc[w] /\ wmsg'[w] = wmsg[w]
    /\ Kept(id) \/ Faults # {}

(* The steps NotificationPromise allows, by the stage the notification is  *)
(* in before and after.                                                    *)
From(id, before, after) == StageOf(id) = before /\ StageOf(id)' = after

Moves(id) ==
    \/ StageOf(id)' = StageOf(id) /\ Unseen(id)
    \/ From(id, "new", "open") /\ Unseen(id)
    \/ /\ From(id, "open", "open")
       /\ accepted[id] = {}
       /\ attempts[id] < MaxRetries + 1
       /\ attempts'[id] = attempts[id] + 1
       /\ events'[id] = events[id]
    \/ /\ From(id, "open", "closed")
       /\ accepted[id] # {} \/ attempts[id] = MaxRetries + 1
       /\ events'[id] = {IF accepted[id] # {} THEN "delivered" ELSE "failed"}
       /\ SameTries(id)
    \/ /\ Faults # {}
       /\ StageOf(id) # "closed" /\ StageOf(id)' = "closed"
       /\ Unseen(id)

(* How many steps the copy of a message is from its end at most: what a    *)
(* worker has yet to do in this round, and ten for each attempt after it.  *)
StepsIn(pc) ==
    CASE pc = "processing" -> 2
      [] pc = "post" -> 1
      [] pc \in {"delivered", "failed"} -> 9
      [] pc \in {"announceDelivered", "announceFailed", "increment"} -> 8
      [] pc = "requeue" -> 7
      [] pc = "zadd" -> 6
      [] OTHER -> 0

Rounds(id) == MaxRetries + 1 - attempts[id]

Legs(id) ==
    {n \in 1 .. 9 : \/ (n = 3 /\ Listed(id))
                   \/ (n = 4 /\ WithRequest(id))
                   \/ (n = 5 /\ AwaitingRetry(id))
                   \/ \E w \in Workers : Holds(w, id) /\ n = StepsIn(wpc[w])}

StepsFrom(id) == {10 * Rounds(id) + n : n \in Legs(id)}

Stays(id) ==
    /\ attempts'[id] = attempts[id]
    /\ WithRequest(id)' <=> WithRequest(id)
    /\ Listed(id)' <=> Listed(id)
    /\ AwaitingRetry(id)' <=> AwaitingRetry(id)
    /\ \A w \in Workers : /\ Holds(w, id)' <=> Holds(w, id)
                          /\ Holds(w, id) => wpc'[w] = wpc[w]

Nearer(id) == \A n \in StepsFrom(id), k \in StepsFrom(id)' : k < n

Advances(id) == HasCopy(id) => ~HasCopy(id)' \/ Stays(id) \/ Nearer(id)

(* A calm step keeps the notification on track.                            *)
LEMMA CalmOnTrack ==
    ASSUME NEW id, OnTrack(id), Calm(id)
    PROVE  OnTrack(id)'
<1>1. /\ WithRequest(id)' => WithRequest(id)
      /\ AwaitingRetry(id)' => AwaitingRetry(id)
      /\ WithWorker(id)' => WithWorker(id)
      /\ ~WithScheduler(id)'
  BY DEF Calm, WithRequest, AwaitingRetry, WithWorker
<1>2. Listed(id)' => Listed(id)
  BY DEF Calm, NoneAdded, Listed
<1>3. HasCopy(id)' => HasCopy(id)
  BY <1>1, <1>2 DEF HasCopy
<1>4. OneRequest(id)' /\ OneRetry(id)'
  BY DEF OnTrack, OneCopy, Calm, OneRequest, OneRetry
<1>5. OneSlot(id)'
  BY DEF OnTrack, OneCopy, Calm, NoneAdded
<1>6. OneWorker(id)'
  BY DEF OnTrack, OneCopy, Calm, OneWorker
<1>7. OnePlace(id)'
  BY <1>1, <1>2 DEF OnTrack, OneCopy, OnePlace
<1>8. \A p \in Priority : \A i \in Slots(id, p)' : Ready(lists[p][i])'
  <2> SUFFICES ASSUME NEW p \in Priority, NEW i \in Slots(id, p)'
               PROVE  Ready(lists[p][i])'
    OBVIOUS
  <2>1. PICK j \in Slots(id, p) : lists'[p][i] = lists[p][j]
    BY DEF Calm, NoneAdded
  <2>2. Ready(lists[p][j]) /\ lists[p][j].id = id
    BY DEF OnTrack, Slots
  <2> QED
    BY <2>1, <2>2 DEF Ready, Calm, Unseen, SameTries
<1>9. \A m \in retryQueue' : m.id = id => Ready(m)'
  BY DEF OnTrack, Ready, Calm, Unseen, SameTries
<1>10. \A w \in Workers : Holds(w, id)' => InStep(w)'
  <2> SUFFICES ASSUME NEW w \in Workers, Holds(w, id)'
               PROVE  InStep(w)'
    OBVIOUS
  <2>1. /\ Holds(w, id) /\ InStep(w)
        /\ wpc'[w] = wpc[w] /\ wmsg'[w] = wmsg[w] /\ wmsg[w].id = id
    BY DEF OnTrack, Calm, Holds
  <2> QED
    BY <2>1 DEF InStep, Ready, Calm, Unseen, SameTries
<1>11. /\ id \in Fresh' => ~HasCopy(id)' /\ Untried(id)' /\ events'[id] = {}
       /\ WithRequest(id)' => Untried(id)'
       /\ attempts'[id] <= MaxRetries + 1
       /\ events'[id] # {} => ~HasCopy(id)'
       /\ events'[id] # {"delivered", "failed"}
  BY <1>1, <1>3 DEF OnTrack, Calm, Unseen, SameTries, Untried
<1> QED
  BY <1>1, <1>4, <1>5, <1>6, <1>7, <1>8, <1>9, <1>10, <1>11 DEF OnTrack, OneCopy

LEMMA CalmMoves ==
    ASSUME NEW id, OnTrack(id), Calm(id)
    PROVE  OnTrack(id)' /\ Moves(id)
<1> SUFFICES Moves(id)
  BY CalmOnTrack
<1>1. HasCopy(id)' => HasCopy(id)
  BY DEF Calm, NoneAdded, HasCopy, WithRequest, Listed, AwaitingRetry, WithWorker
<1>2. id \in Fresh => ~HasCopy(id)
  BY DEF OnTrack
<1>3. CASE Kept(id)
  BY <1>3 DEF Calm, Kept, Moves, StageOf
<1>4. CASE ~Kept(id) /\ StageOf(id)' # StageOf(id)
  <2>1. StageOf(id) # "closed" /\ StageOf(id)' = "closed"
    BY <1>1, <1>2, <1>4 DEF Calm, StageOf
  <2> QED
    BY <1>4, <2>1 DEF Calm, Moves
<1> QED
  BY <1>3, <1>4 DEF Calm, Moves

(* Nor does it send the message back.                                      *)
LEMMA CalmAdvances ==
    ASSUME NEW id, OnTrack(id), Calm(id)
    PROVE  Advances(id)
<1> SUFFICES ASSUME HasCopy(id), HasCopy(id)'
             PROVE  Stays(id)
  BY DEF Advances
<1>1. /\ attempts'[id] = attempts[id]
      /\ ~WithScheduler(id) /\ ~WithScheduler(id)'
      /\ WithRequest(id)' => WithRequest(id)
      /\ AwaitingRetry(id)' => AwaitingRetry(id)
      /\ Listed(id)' => Listed(id)
      /\ \A w \in Workers : Holds(w, id)' => Holds(w, id) /\ wpc'[w] = wpc[w]
  BY DEF OnTrack, Calm, Unseen, SameTries, NoneAdded, WithRequest, AwaitingRetry, Listed
<1>2. \/ WithRequest(id)' \/ Listed(id)' \/ AwaitingRetry(id)'
      \/ \E w \in Workers : Holds(w, id)'
  BY <1>1 DEF HasCopy, WithWorker
<1>3. OnePlace(id) /\ OneWorker(id)
  BY DEF OnTrack, OneCopy
<1>4. ASSUME NEW w \in Workers, Holds(w, id)'
      PROVE  Stays(id)
  <2>1. ~WithRequest(id) /\ ~Listed(id) /\ ~AwaitingRetry(id)
    BY <1>1, <1>3, <1>4 DEF OnePlace, WithWorker
  <2>2. \A v \in Workers : Holds(v, id) => v = w
    BY <1>1, <1>3, <1>4 DEF OneWorker
  <2> QED
    BY <1>1, <1>4, <2>1, <2>2 DEF Stays
<1>5. CASE WithRequest(id)' \/ Listed(id)' \/ AwaitingRetry(id)'
  <2>1. ~WithWorker(id)
    BY <1>1, <1>3, <1>5 DEF OnePlace
  <2> QED
    BY <1>1, <1>3, <1>5, <2>1 DEF OnePlace, Stays, WithWorker
<1> QED
  BY <1>2, <1>4, <1>5

(* A message is nearer to its end in a place with fewer steps, or after an *)
(* attempt.                                                                *)
LEMMA NearerByLegs ==
    ASSUME NEW id, NEW a \in 1 .. 9, NEW b \in 1 .. 9,
           Legs(id) \subseteq {a}, Legs(id)' \subseteq {b}, attempts[id] \in Nat,
           \/ attempts'[id] = attempts[id] /\ b < a
           \/ attempts'[id] = attempts[id] + 1
    PROVE  Nearer(id)
<1>1. \A n \in StepsFrom(id) : n = 10 * Rounds(id) + a
  BY DEF StepsFrom
<1>2. \A k \in StepsFrom(id)' : k = 10 * Rounds(id)' + b
  BY DEF StepsFrom
<1>3. PICK t \in Nat, u \in Nat, limit \in Nat :
        t = attempts[id] /\ u = attempts'[id] /\ limit = MaxRetries
  BY DomainAssumption
<1>4. 10 * (limit + 1 - u) + b < 10 * (limit + 1 - t) + a
  BY <1>3
<1>5. 10 * Rounds(id)' + b < 10 * Rounds(id) + a
  BY <1>3, <1>4 DEF Rounds
<1> QED
  BY <1>1, <1>2, <1>5 DEF Nearer

(***************************************************************************)
(* A step of the worker that holds its message.                            *)
(***************************************************************************)

(* Apart from what this worker holds, nothing that could be a copy of the  *)
(* message changes.                                                        *)
OnlyHolder(w) ==
    /\ UNCHANGED <<lists, retryQueue, toEnqueue, sids, table, archive>>
    /\ \A v \in Workers \ {w} : wpc'[v] = wpc[v] /\ wmsg'[v] = wmsg[v]

LEMMA HolderPlaces ==
    ASSUME NEW id, NEW w \in Workers, OnTrack(id), Holds(w, id), OnlyHolder(w),
           wpc'[w] = "pop" \/ wmsg'[w].id = id
    PROVE  /\ OneCopy(id)' /\ ~WithScheduler(id)'
           /\ ~WithRequest(id)' /\ ~Listed(id)' /\ ~AwaitingRetry(id)'
           /\ HasCopy(id)' <=> wpc'[w] # "pop"
           /\ \A v \in Workers : Holds(v, id)' => v = w
           /\ id \notin Fresh /\ id \notin Fresh'
           /\ HasCopy(id) /\ events[id] = {} /\ InStep(w)
<1>1. HasCopy(id) /\ WithWorker(id)
  BY DEF HasCopy, WithWorker
<1>2. /\ ~WithRequest(id) /\ ~Listed(id) /\ ~AwaitingRetry(id) /\ ~WithScheduler(id)
      /\ id \notin Fresh /\ events[id] = {} /\ InStep(w)
      /\ \A v \in Workers : Holds(v, id) => v = w
  BY <1>1 DEF OnTrack, OneCopy, OnePlace, OneWorker
<1>3. ~WithRequest(id)' /\ ~Listed(id)' /\ ~AwaitingRetry(id)' /\ ~WithScheduler(id)'
  BY <1>2 DEF OnlyHolder, WithRequest, Listed, Slots, AwaitingRetry, WithScheduler
<1>4. \A v \in Workers : Holds(v, id)' => v = w
  BY <1>2 DEF OnlyHolder, Holds
<1>5. HasCopy(id)' <=> wpc'[w] # "pop"
  BY <1>3, <1>4 DEF HasCopy, WithWorker, Holds
<1>6. OneCopy(id)'
  BY <1>3, <1>4
  DEF OneCopy, OneRequest, OneSlot, OneRetry, OneWorker, OnePlace, WithRequest, Listed,
      AwaitingRetry
<1>7. id \notin Fresh'
  BY <1>2 DEF OnlyHolder, Fresh
<1> QED
  BY <1>1, <1>2, <1>3, <1>4, <1>5, <1>6, <1>7

(* What it does next brings the message nearer to its end.                 *)
LEMMA HolderNearer ==
    ASSUME NEW id, NEW w \in Workers, OnTrack(id), Holds(w, id), OnlyHolder(w),
           wmsg'[w].id = id, wpc'[w] # "pop", attempts[id] \in Nat,
           StepsIn(wpc[w]) \in 1 .. 9, StepsIn(wpc'[w]) \in 1 .. 9,
           \/ attempts'[id] = attempts[id] /\ StepsIn(wpc'[w]) < StepsIn(wpc[w])
           \/ attempts'[id] = attempts[id] + 1
    PROVE  Advances(id)
<1>1. /\ ~WithRequest(id)' /\ ~Listed(id)' /\ ~AwaitingRetry(id)'
      /\ \A v \in Workers : Holds(v, id)' => v = w
  BY HolderPlaces
<1>2. /\ ~WithRequest(id) /\ ~Listed(id) /\ ~AwaitingRetry(id)
      /\ \A v \in Workers : Holds(v, id) => v = w
  BY DEF OnTrack, OneCopy, OnePlace, OneWorker, WithWorker
<1>3. Legs(id) \subseteq {StepsIn(wpc[w])}
  BY <1>2 DEF Legs
<1>4. Legs(id)' \subseteq {StepsIn(wpc'[w])}
  BY <1>1 DEF Legs, StepsIn
<1> QED
  BY <1>3, <1>4, NearerByLegs DEF Advances

(* It keeps the message, in step with the attempts.                        *)
LEMMA HolderGoesOn ==
    ASSUME NEW id, NEW w \in Workers, OnTrack(id), Holds(w, id), OnlyHolder(w),
           wpc'[w] # "pop", wmsg'[w].id = id, InStep(w)', events'[id] = events[id],
           attempts'[id] <= MaxRetries + 1
    PROVE  OnTrack(id)' /\ From(id, "open", "open")
<1>1. /\ OneCopy(id)' /\ ~WithScheduler(id)'
      /\ ~WithRequest(id)' /\ ~Listed(id)' /\ ~AwaitingRetry(id)'
      /\ HasCopy(id)' /\ HasCopy(id)
      /\ \A v \in Workers : Holds(v, id)' => v = w
      /\ id \notin Fresh /\ id \notin Fresh' /\ events[id] = {}
  BY HolderPlaces
<1> QED
  BY <1>1 DEF OnTrack, From, StageOf, Listed, AwaitingRetry

(* It lets the message go.                                                 *)
LEMMA HolderIsDone ==
    ASSUME NEW id, NEW w \in Workers, OnTrack(id), Holds(w, id), OnlyHolder(w),
           wpc'[w] = "pop", SameTries(id),
           events'[id] \in {{}, {"delivered"}, {"failed"}}
    PROVE  OnTrack(id)' /\ From(id, "open", "closed") /\ Advances(id)
<1>1. /\ OneCopy(id)' /\ ~WithScheduler(id)'
      /\ ~WithRequest(id)' /\ ~Listed(id)' /\ ~AwaitingRetry(id)'
      /\ ~HasCopy(id)' /\ HasCopy(id)
      /\ id \notin Fresh /\ id \notin Fresh'
  BY HolderPlaces
<1>2. \A v \in Workers : ~Holds(v, id)'
  BY <1>1 DEF HasCopy, WithWorker
<1>3. events'[id] # {"delivered", "failed"}
  OBVIOUS
<1> QED
  BY <1>1, <1>2, <1>3 DEF OnTrack, From, StageOf, Listed, AwaitingRetry, SameTries, Advances

LEMMA WorkHere ==
    ASSUME TypeOK, Reliable, NEW id \in Ids, OnTrack(id), NEW w \in Workers, Holds(w, id),
           Work(w)
    PROVE  OnTrack(id)' /\ Moves(id) /\ Advances(id)
<1>1. /\ wpc[w] # "pop" /\ wmsg[w] \in Message /\ wmsg[w].id = id
      /\ wmsg[w].retry \in Nat /\ attempts[id] \in Nat /\ MaxRetries \in Nat
      /\ wpc \in [Workers -> WorkerPCs] /\ wmsg \in [Workers -> Message \cup {NoMsg}]
      /\ attempts \in [Ids -> Nat] /\ accepted \in [Ids -> SUBSET Nat]
      /\ events \in [Ids -> SUBSET {"delivered", "failed"}]
  BY DomainAssumption DEF Holds, TypeOK, WorkerTypeOK, Message
<1>2. InStep(w) /\ attempts[id] <= MaxRetries + 1 /\ events[id] = {}
  BY DEF OnTrack, HasCopy, WithWorker
<1>3. UNCHANGED <<toEnqueue, sids>> /\ ~Fails("resend")
  BY DEF Work, serviceVars, schedulerVars, pipeVars, Reliable, Fails
<1>4. CASE MarkProcessing(w) \/ MarkDelivered(w) \/ MarkFailed(w)
  <2>1. OnlyHolder(w) /\ Unseen(id) /\ wmsg' = wmsg
    BY <1>1, <1>3, <1>4
    DEF MarkProcessing, MarkDelivered, MarkFailed, TryUpdate, UpdateStatus, tableVars, queueVars,
        Goto, OnlyHolder, Unseen, SameTries
  <2>2. \/ wpc[w] = "processing" /\ wpc'[w] = "post"
        \/ wpc[w] = "delivered" /\ wpc'[w] = "announceDelivered"
        \/ wpc[w] = "failed" /\ wpc'[w] = "announceFailed"
    BY <1>1, <1>4 DEF MarkProcessing, MarkDelivered, MarkFailed, TryUpdate, Goto
  <2>3. InStep(w)'
    BY <1>1, <1>2, <2>1, <2>2 DEF InStep, Ready, Unseen, SameTries
  <2>4. Advances(id)
    BY <1>1, <2>1, <2>2, HolderNearer DEF StepsIn, Unseen, SameTries
  <2> QED
    BY <1>1, <1>2, <2>1, <2>2, <2>3, <2>4, HolderGoesOn DEF Moves, Unseen, SameTries, From
<1>5. CASE Deliver(w)
  <2>a. PICK span \in Nat \ {NoProviderID}, pc \in {"delivered", "failed", "increment"} :
          Delivering(w, span, pc)
    BY <1>5, DeliverShape
  <2>b. wmsg'[w] = [wmsg[w] EXCEPT !.span = span] /\ wpc'[w] = pc
    BY <1>1, <2>a DEF Delivering
  <2>1. /\ wpc[w] = "post" /\ OnlyHolder(w)
        /\ attempts'[id] = attempts[id] + 1 /\ events' = events
        /\ wmsg'[w].id = id /\ wmsg'[w].retry = wmsg[w].retry
    <3>1. wpc[w] = "post" /\ attempts'[id] = attempts[id] + 1 /\ events' = events
      BY <1>1, <1>5 DEF Deliver
    <3>2. OnlyHolder(w)
      BY <1>1, <1>3, <1>5, <2>a DEF Deliver, Delivering, OnlyHolder, tableVars, queueVars
    <3>3. wmsg'[w].id = id /\ wmsg'[w].retry = wmsg[w].retry
      BY <1>1, <2>b DEF Message
    <3> QED
      BY <3>1, <3>2, <3>3
  <2>2. wmsg[w].retry = attempts[id] /\ attempts[id] <= MaxRetries /\ accepted[id] = {}
    BY <1>1, <1>2, <2>1 DEF InStep, Ready
  <2>3. \/ wpc'[w] = "delivered" /\ accepted'[id] # {}
        \/ wpc'[w] = "failed" /\ Exhausted(wmsg[w]) /\ accepted'[id] = {}
        \/ wpc'[w] = "increment" /\ ~Exhausted(wmsg[w]) /\ accepted'[id] = {}
    BY <1>1, <2>a, <2>b, <2>2 DEF Delivering
  <2>4. InStep(w)'
    BY <1>1, <2>1, <2>2, <2>3 DEF InStep, Exhausted
  <2>5. wpc'[w] # "pop" /\ attempts'[id] <= MaxRetries + 1 /\ attempts[id] < MaxRetries + 1
    BY <1>1, <2>1, <2>2, <2>3
  <2>6. OnTrack(id)' /\ From(id, "open", "open")
    BY <1>1, <2>1, <2>4, <2>5, HolderGoesOn
  <2>7. Advances(id)
    BY <1>1, <2>1, <2>3, <2>5, HolderNearer DEF StepsIn
  <2> QED
    BY <2>1, <2>2, <2>5, <2>6, <2>7 DEF Moves
<1>6. CASE AnnounceDelivered(w) \/ AnnounceFailed(w)
  <2>1. OnlyHolder(w) /\ SameTries(id) /\ wpc'[w] = "pop"
    BY <1>1, <1>3, <1>6
    DEF AnnounceDelivered, AnnounceFailed, Announce, OnlyHolder, SameTries, tableVars, queueVars,
        Done, Goto
  <2>2. \/ wpc[w] = "announceDelivered" /\ events'[id] = {"delivered"}
        \/ wpc[w] = "announceFailed" /\ events'[id] = {"failed"}
    BY <1>1, <1>2, <1>6 DEF AnnounceDelivered, AnnounceFailed, Announce
  <2>3. /\ accepted[id] # {} \/ attempts[id] = MaxRetries + 1
        /\ events'[id] = {IF accepted[id] # {} THEN "delivered" ELSE "failed"}
    BY <1>1, <1>2, <2>2 DEF InStep
  <2> QED
    BY <2>1, <2>2, <2>3, HolderIsDone DEF Moves
<1>7. CASE CountRetry(w)
  <2>1. /\ wpc[w] = "increment" /\ wpc'[w] = "requeue" /\ OnlyHolder(w) /\ Unseen(id)
        /\ wmsg'[w].id = id /\ wmsg'[w].retry = wmsg[w].retry + 1
    BY <1>1, <1>3, <1>7
    DEF CountRetry, OnlyHolder, Unseen, SameTries, IncrementRetry, tableVars, queueVars, Goto,
        Message
  <2>2. InStep(w)'
    BY <1>1, <1>2, <2>1 DEF InStep, Ready, Unseen, SameTries
  <2>3. Advances(id)
    BY <1>1, <2>1, HolderNearer DEF StepsIn, Unseen, SameTries
  <2> QED
    BY <1>2, <2>1, <2>2, <2>3, HolderGoesOn DEF Moves, Unseen, SameTries, From
<1>8. CASE MarkQueued(w)
  <2>1. wpc[w] = "requeue" /\ OnlyHolder(w) /\ Unseen(id)
    BY <1>1, <1>3, <1>8
    DEF MarkQueued, OnlyHolder, Unseen, SameTries, UpdateStatus, tableVars, queueVars, Goto, Done
  <2>2. CASE wpc'[w] = "zadd" /\ wmsg' = wmsg
    <3>1. InStep(w)'
      BY <1>1, <1>2, <2>1, <2>2 DEF InStep, Ready, Unseen, SameTries
    <3>2. Advances(id)
      BY <1>1, <2>1, <2>2, HolderNearer DEF StepsIn, Unseen, SameTries
    <3> QED
      BY <1>1, <1>2, <2>1, <2>2, <3>1, <3>2, HolderGoesOn DEF Moves, Unseen, SameTries, From
  <2>3. CASE wpc'[w] = "pop" /\ Fails("status")
    <3>1. OnTrack(id)' /\ From(id, "open", "closed") /\ Advances(id)
      BY <1>2, <2>1, <2>3, HolderIsDone DEF Unseen
    <3> QED
      BY <2>1, <2>3, <3>1 DEF Moves, From, Fails
  <2> QED
    BY <1>1, <1>8, <2>2, <2>3 DEF MarkQueued, Goto, Done
<1>9. CASE ScheduleRetry(w)
  <2>1. /\ wpc[w] = "zadd" /\ wpc'[w] = "pop" /\ Unseen(id)
        /\ UNCHANGED <<lists, toEnqueue, sids, table, archive>>
        /\ \A v \in Workers \ {w} : wpc'[v] = wpc[v] /\ wmsg'[v] = wmsg[v]
    BY <1>1, <1>3, <1>9 DEF ScheduleRetry, Works, Unseen, SameTries, tableVars, Done, Goto
  <2>2. CASE Works /\ retryQueue' = retryQueue \cup {wmsg[w]}
    <3>1. /\ ~WithRequest(id) /\ ~Listed(id) /\ ~AwaitingRetry(id) /\ ~WithScheduler(id)
          /\ HasCopy(id) /\ id \notin Fresh
          /\ \A v \in Workers : Holds(v, id) => v = w
      BY DEF OnTrack, OneCopy, OnePlace, OneWorker, HasCopy, WithWorker
    <3>2. /\ ~WithRequest(id)' /\ ~Listed(id)' /\ ~WithScheduler(id)' /\ id \notin Fresh'
          /\ \A v \in Workers : ~Holds(v, id)'
      BY <2>1, <3>1 DEF WithRequest, Listed, Slots, WithScheduler, Fresh, Holds
    <3>3. \A m \in retryQueue' : m.id = id => m = wmsg[w]
      BY <2>2, <3>1 DEF AwaitingRetry
    <3>4. HasCopy(id)'
      BY <1>1, <2>2 DEF HasCopy, AwaitingRetry
    <3>5. \A m \in retryQueue' : m.id = id => Ready(m)'
      <4>1. Ready(wmsg[w])
        BY <1>2, <2>1 DEF InStep
      <4> QED
        BY <1>1, <2>1, <3>3, <4>1 DEF Ready, Unseen, SameTries
    <3>6. OneCopy(id)'
      BY <3>2, <3>3
      DEF OneCopy, OneRequest, OneSlot, OneRetry, OneWorker, OnePlace, WithRequest, Listed,
          WithWorker
    <3>7. OnTrack(id)'
      BY <1>2, <2>1, <3>2, <3>4, <3>5, <3>6 DEF OnTrack, Listed, Unseen, SameTries
    <3>8. Legs(id) \subseteq {6} /\ Legs(id)' \subseteq {5}
      BY <2>1, <3>1, <3>2 DEF Legs, StepsIn
    <3>9. Advances(id)
      BY <1>1, <2>1, <3>8, NearerByLegs DEF Advances, Unseen, SameTries
    <3> QED
      BY <2>1, <3>1, <3>2, <3>4, <3>7, <3>9 DEF Moves, StageOf
  <2>3. CASE Fails("zadd") /\ UNCHANGED retryQueue
    <3>1. OnlyHolder(w)
      BY <2>1, <2>3 DEF OnlyHolder
    <3>2. OnTrack(id)' /\ From(id, "open", "closed") /\ Advances(id)
      BY <1>2, <2>1, <3>1, HolderIsDone DEF Unseen
    <3> QED
      BY <2>1, <2>3, <3>2 DEF Moves, From, Fails
  <2> QED
    BY <1>3, <1>9, <2>2, <2>3 DEF ScheduleRetry
<1> QED
  BY <1>1, <1>4, <1>5, <1>6, <1>7, <1>8, <1>9 DEF Work, WorkerStep, Pop

(***************************************************************************)
(* The other steps of the workers.                                         *)
(***************************************************************************)

LEMMA FaultsNotEmpty ==
    ASSUME NEW site, Fails(site)
    PROVE  Faults # {}
BY DEF Fails

(* A worker that holds the message of another notification.                *)
LEMMA WorkElsewhere ==
    ASSUME TypeOK, Reliable, NEW id \in Ids, OnTrack(id), NEW w \in Workers,
           wpc[w] # "pop", wmsg[w].id # id, Work(w)
    PROVE  Calm(id)
<1>1. /\ wmsg[w] \in Message /\ wmsg[w].id \in Ids
      /\ wpc \in [Workers -> WorkerPCs] /\ wmsg \in [Workers -> Message \cup {NoMsg}]
      /\ attempts \in [Ids -> Nat] /\ accepted \in [Ids -> SUBSET Nat]
      /\ events \in [Ids -> SUBSET {"delivered", "failed"}]
  BY DEF TypeOK, WorkerTypeOK, Message
<1>2. UNCHANGED <<toEnqueue, sids>> /\ ~Fails("resend")
  BY DEF Work, serviceVars, schedulerVars, pipeVars, Reliable, Fails
<1>3. /\ UNCHANGED <<lists, table, archive>>
      /\ retryQueue \subseteq retryQueue' /\ retryQueue' \subseteq retryQueue \cup {wmsg[w]}
  BY DEF Work, WorkerStep, Pop, MarkProcessing, Deliver, MarkDelivered, AnnounceDelivered,
         MarkFailed, AnnounceFailed, CountRetry, MarkQueued, ScheduleRetry, TryUpdate,
         Announce, UpdateStatus, IncrementRetry, queueVars, tableVars
<1>a. ASSUME Deliver(w)
      PROVE  \E span, pc : Delivering(w, span, pc)
  BY <1>a, DeliverShape
<1>4. Unseen(id)
  BY <1>1, <1>a
  DEF Work, WorkerStep, Pop, MarkProcessing, Deliver, Delivering, MarkDelivered,
      AnnounceDelivered, MarkFailed, AnnounceFailed, CountRetry, MarkQueued, ScheduleRetry,
      TryUpdate, Announce, Unseen, SameTries
<1>5. \A v \in Workers \ {w} : wpc'[v] = wpc[v] /\ wmsg'[v] = wmsg[v]
  BY <1>1, <1>2
  DEF Work, WorkerStep, Pop, MarkProcessing, Deliver, MarkDelivered, AnnounceDelivered,
      MarkFailed, AnnounceFailed, CountRetry, MarkQueued, ScheduleRetry, TryUpdate,
      Announce, Goto, Done
<1>6. wpc'[w] = "pop" \/ wmsg'[w].id # id
  <2>1. CASE Deliver(w) \/ CountRetry(w)
    BY <1>1, <2>1 DEF Deliver, CountRetry, Message
  <2>2. CASE MarkQueued(w) \/ ScheduleRetry(w) \/ AnnounceDelivered(w) \/ AnnounceFailed(w)
    BY <1>1, <1>2, <2>2
    DEF MarkQueued, ScheduleRetry, AnnounceDelivered, AnnounceFailed, Announce, Done, Goto
  <2>3. CASE MarkProcessing(w) \/ MarkDelivered(w) \/ MarkFailed(w)
    BY <2>3 DEF MarkProcessing, MarkDelivered, MarkFailed, TryUpdate
  <2> QED
    BY <2>1, <2>2, <2>3 DEF Work, WorkerStep, Pop
<1>7. \A v \in Workers : /\ Holds(v, id)' <=> Holds(v, id)
                         /\ Holds(v, id) => wpc'[v] = wpc[v] /\ wmsg'[v] = wmsg[v]
  BY <1>5, <1>6 DEF Holds
<1>8. \A m \in retryQueue' : m.id = id => m \in retryQueue
  BY <1>3
<1>9. Kept(id)
  <2>1. AwaitingRetry(id)' <=> AwaitingRetry(id)
    BY <1>3, <1>8 DEF AwaitingRetry
  <2>2. /\ WithRequest(id)' <=> WithRequest(id)
        /\ Listed(id)' <=> Listed(id)
        /\ WithScheduler(id)' <=> WithScheduler(id)
        /\ WithWorker(id)' <=> WithWorker(id)
    BY <1>2, <1>3, <1>7 DEF WithRequest, Listed, Slots, WithScheduler, WithWorker
  <2> QED
    BY <1>3, <2>1, <2>2 DEF Kept, HasCopy, Fresh
<1> QED
  BY <1>2, <1>3, <1>4, <1>7, <1>8, <1>9, ListsUnchanged
  DEF Calm, OnTrack, WithScheduler, Fresh

LEMMA PopMoves ==
    ASSUME TypeOK, NEW id \in Ids, OnTrack(id), NEW w \in Workers, Work(w), Pop(w)
    PROVE  OnTrack(id)' /\ Moves(id) /\ Advances(id)
<1>1. PICK p \in Priority :
        /\ Poppable(p) /\ RPop(p)
        /\ \/ Works /\ wmsg' = [wmsg EXCEPT ![w] = Head(lists[p])] /\ Goto(w, "processing")
           \/ Fails("brpop") /\ UNCHANGED <<wpc, wmsg>>
  BY DEF Pop
<1>2. /\ wpc[w] = "pop" /\ Unseen(id) /\ retryQueue' = retryQueue
      /\ UNCHANGED <<toEnqueue, sids, table, archive>>
  BY DEF Work, Pop, Unseen, SameTries, tableVars, serviceVars, schedulerVars, pipeVars
<1>3. /\ wpc \in [Workers -> WorkerPCs] /\ wmsg \in [Workers -> Message \cup {NoMsg}]
  BY DEF TypeOK, WorkerTypeOK
<1>4. ~WithScheduler(id) /\ (id \in Fresh => ~HasCopy(id))
  BY DEF OnTrack
<1>5. /\ WithRequest(id)' <=> WithRequest(id)
      /\ AwaitingRetry(id)' <=> AwaitingRetry(id)
      /\ ~WithScheduler(id)' /\ (id \in Fresh' <=> id \in Fresh)
  BY <1>2, <1>4 DEF WithRequest, AwaitingRetry, WithScheduler, Fresh
<1>6. CASE Fails("brpop") /\ UNCHANGED <<wpc, wmsg>>
  <2>1. Calm(id)
    BY <1>1, <1>2, <1>5, <1>6, Popped, FaultsNotEmpty DEF Calm, Holds
  <2> QED
    BY <2>1, CalmMoves, CalmAdvances
<1>7. CASE /\ Works /\ wmsg' = [wmsg EXCEPT ![w] = Head(lists[p])] /\ Goto(w, "processing")
           /\ Head(lists[p]).id # id
  <2>1. \A v \in Workers : /\ Holds(v, id)' <=> Holds(v, id)
                           /\ Holds(v, id) => wpc'[v] = wpc[v] /\ wmsg'[v] = wmsg[v]
    BY <1>2, <1>3, <1>7 DEF Holds, Goto
  <2>2. Listed(id)' <=> Listed(id)
    BY <1>1, <1>7, Popped DEF SameListed
  <2>3. Kept(id)
    BY <1>4, <1>5, <2>1, <2>2 DEF Kept, HasCopy, WithWorker
  <2>4. Calm(id)
    BY <1>1, <1>2, <1>5, <2>1, <2>3, Popped DEF Calm
  <2> QED
    BY <2>4, CalmMoves, CalmAdvances
<1>8. CASE /\ Works /\ wmsg' = [wmsg EXCEPT ![w] = Head(lists[p])] /\ Goto(w, "processing")
           /\ Head(lists[p]).id = id
  <2>1. PICK i \in Slots(id, p) : Head(lists[p]) = lists[p][i]
    BY <1>1, <1>8, Popped
  <2>2. Listed(id) /\ Ready(Head(lists[p]))
    BY <2>1 DEF OnTrack, Listed
  <2>3. /\ ~WithRequest(id) /\ ~AwaitingRetry(id) /\ ~WithWorker(id)
        /\ HasCopy(id) /\ id \notin Fresh /\ events[id] = {}
    BY <2>2 DEF OnTrack, OneCopy, OnePlace, HasCopy
  <2>4. ~Listed(id)'
    BY <1>1, <1>8, Popped DEF OnTrack, OneCopy
  <2>5. /\ wpc'[w] = "processing" /\ wmsg'[w] = Head(lists[p])
        /\ \A v \in Workers : Holds(v, id)' => v = w
    BY <1>3, <1>8, <2>3 DEF Goto, Holds, WithWorker
  <2>6. Holds(w, id)' /\ HasCopy(id)' /\ id \notin Fresh'
    BY <1>5, <1>8, <2>3, <2>5 DEF Holds, HasCopy, WithWorker
  <2>7. InStep(w)'
    BY <1>2, <1>8, <2>2, <2>5 DEF InStep, Ready, Unseen, SameTries
  <2>8. OneCopy(id)'
    BY <1>5, <2>3, <2>4, <2>5
    DEF OneCopy, OneRequest, OneSlot, OneRetry, OneWorker, OnePlace, WithRequest, Listed,
        AwaitingRetry
  <2>9. OnTrack(id)'
    BY <1>2, <1>5, <2>3, <2>4, <2>5, <2>6, <2>7, <2>8
    DEF OnTrack, Listed, AwaitingRetry, Unseen, SameTries
  <2>10. Legs(id) \subseteq {3} /\ Legs(id)' \subseteq {2}
    BY <1>5, <2>3, <2>4, <2>5 DEF Legs, StepsIn, WithWorker
  <2>11. Advances(id)
    BY <1>2, <2>10, NearerByLegs DEF Advances, Unseen, SameTries, TypeOK, WorkerTypeOK
  <2> QED
    BY <1>2, <2>3, <2>6, <2>9, <2>11 DEF Moves, StageOf
<1> QED
  BY <1>1, <1>6, <1>7, <1>8

LEMMA WorkMoves ==
    ASSUME TypeOK, Reliable, NEW id \in Ids, OnTrack(id), NEW w \in Workers, Work(w)
    PROVE  OnTrack(id)' /\ Moves(id) /\ Advances(id)
<1>1. CASE Pop(w)
  BY <1>1, PopMoves
<1>2. CASE wpc[w] # "pop" /\ wmsg[w].id = id
  BY <1>2, WorkHere DEF Holds
<1>3. CASE wpc[w] # "pop" /\ wmsg[w].id # id
  BY <1>3, WorkElsewhere, CalmMoves, CalmAdvances
<1> QED
  BY <1>1, <1>2, <1>3
  DEF Work, WorkerStep, MarkProcessing, Deliver, MarkDelivered, AnnounceDelivered,
      MarkFailed, AnnounceFailed, Announce, CountRetry, MarkQueued, ScheduleRetry

(***************************************************************************)
(* The steps of the requests.                                              *)
(***************************************************************************)

LEMMA StoreMoves ==
    ASSUME TypeOK, NEW id \in Immediate, OnTrack(id), Api,
           NEW r \in Requests, NEW S \in SUBSET Fresh, Store(r, S)
    PROVE  OnTrack(id)' /\ Moves(id) /\ Advances(id)
<1>1. /\ Unseen(id) /\ UNCHANGED <<lists, retryQueue, wpc, wmsg, sids, archive>>
      /\ table' = table \cup S
  BY DEF Api, workerVars, schedulerVars, pipeVars, Store, InsertRows, queueVars, Unseen,
         SameTries
<1>2. toEnqueue \in [Requests -> SUBSET Ids] /\ id \in Ids \ Scheduled
  BY DEF TypeOK, ServiceTypeOK, Immediate
<1>3. /\ Listed(id)' <=> Listed(id)
      /\ AwaitingRetry(id)' <=> AwaitingRetry(id)
      /\ WithWorker(id)' <=> WithWorker(id)
      /\ ~WithScheduler(id)' /\ ~WithScheduler(id)
  BY <1>1 DEF OnTrack, Listed, Slots, AwaitingRetry, WithWorker, Holds, WithScheduler
<1>4. id \in Fresh' <=> id \in Fresh /\ id \notin S
  BY <1>1 DEF Fresh
<1>5. CASE id \notin S \/ (Fails("insert") /\ UNCHANGED toEnqueue)
  <2>1. \A q \in Requests : id \in toEnqueue'[q] <=> id \in toEnqueue[q]
    BY <1>2, <1>5 DEF Store, serviceVars
  <2>2. Kept(id) \/ Faults # {}
    BY <1>3, <1>4, <1>5, <2>1, FaultsNotEmpty DEF Kept, HasCopy, WithRequest
  <2>3. Calm(id)
    BY <1>1, <1>3, <1>4, <2>1, <2>2, ListsUnchanged DEF Calm, Holds
  <2> QED
    BY <2>3, CalmMoves, CalmAdvances
<1>6. CASE id \in S /\ toEnqueue' = [toEnqueue EXCEPT ![r] = S \ Scheduled]
  <2>1. id \in Fresh /\ ~HasCopy(id) /\ Untried(id) /\ events[id] = {}
    BY <1>6 DEF OnTrack
  <2>2. /\ ~WithRequest(id) /\ ~Listed(id)' /\ ~AwaitingRetry(id)' /\ ~WithWorker(id)'
    BY <1>3, <2>1 DEF HasCopy
  <2>3. \A q \in Requests : id \in toEnqueue'[q] <=> q = r
    BY <1>2, <1>6, <2>2 DEF WithRequest
  <2>4. WithRequest(id)' /\ HasCopy(id)' /\ id \notin Fresh' /\ Untried(id)'
    BY <1>1, <1>4, <1>6, <2>1, <2>3 DEF WithRequest, HasCopy, Untried, Unseen, SameTries
  <2>5. OneCopy(id)'
    BY <2>2, <2>3
    DEF OneCopy, OneRequest, OneSlot, OneRetry, OneWorker, OnePlace, Listed, AwaitingRetry,
        WithWorker
  <2>6. OnTrack(id)'
    BY <1>1, <1>3, <2>1, <2>2, <2>4, <2>5
    DEF OnTrack, Listed, AwaitingRetry, WithWorker, Unseen, SameTries
  <2> QED
    BY <1>1, <2>1, <2>4, <2>6 DEF Moves, From, StageOf, Advances
<1> QED
  BY <1>5, <1>6 DEF Store, serviceVars

LEMMA EnqueueMoves ==
    ASSUME TypeOK, Reliable, NEW id \in Immediate, OnTrack(id), Api,
           NEW r \in Requests, NEW pushed \in Ids, Enqueue(r, pushed)
    PROVE  OnTrack(id)' /\ Moves(id) /\ Advances(id)
<1> DEFINE m == [id |-> pushed, retry |-> 0, span |-> 0]
<1>1. /\ Unseen(id) /\ UNCHANGED <<retryQueue, wpc, wmsg, sids, table, archive>>
      /\ pushed \in toEnqueue[r]
  BY DEF Api, workerVars, schedulerVars, pipeVars, Enqueue, tableVars, Unseen, SameTries
<1>2. toEnqueue \in [Requests -> SUBSET Ids] /\ m \in Message /\ m.id = pushed
  BY DEF TypeOK, ServiceTypeOK, Message
<1>3. ~Fails("resend")
  BY DEF Reliable, Fails
<1>4. /\ AwaitingRetry(id)' <=> AwaitingRetry(id)
      /\ WithWorker(id)' <=> WithWorker(id)
      /\ ~WithScheduler(id)' /\ ~WithScheduler(id)
      /\ id \in Fresh' <=> id \in Fresh
  BY <1>1 DEF OnTrack, AwaitingRetry, WithWorker, Holds, WithScheduler, Fresh
<1>5. \A q \in Requests : toEnqueue'[q] \subseteq toEnqueue[q]
  BY <1>2, <1>3 DEF Enqueue
<1>6. CASE UNCHANGED lists /\ Fails("enqueue")
  <2>1. Calm(id)
    BY <1>1, <1>4, <1>5, <1>6, ListsUnchanged, FaultsNotEmpty DEF Calm, Holds
  <2> QED
    BY <2>1, CalmMoves, CalmAdvances
<1>7. CASE LPush(m) /\ pushed # id
  <2>1. NoneAdded(id) /\ SameListed(id)
    BY <1>2, <1>7, PushedElsewhere
  <2>2. Kept(id) \/ Faults # {}
    <3>1. CASE Fails("enqueue")
      BY <3>1, FaultsNotEmpty
    <3>2. CASE toEnqueue' = [toEnqueue EXCEPT ![r] = @ \ {pushed}]
      <4>1. WithRequest(id)' <=> WithRequest(id)
        BY <1>2, <1>7, <3>2 DEF WithRequest
      <4> QED
        BY <1>4, <2>1, <4>1 DEF Kept, HasCopy, SameListed
    <3> QED
      BY <1>3, <3>1, <3>2 DEF Enqueue
  <2>3. Calm(id)
    BY <1>1, <1>4, <1>5, <2>1, <2>2 DEF Calm, Holds
  <2> QED
    BY <2>3, CalmMoves, CalmAdvances
<1>8. CASE LPush(m) /\ pushed = id
  <2>1. WithRequest(id) /\ HasCopy(id)
    BY <1>1, <1>8 DEF WithRequest, HasCopy
  <2>2. /\ ~Listed(id) /\ ~AwaitingRetry(id) /\ ~WithWorker(id) /\ ~WithScheduler(id)
        /\ Untried(id) /\ id \notin Fresh /\ events[id] = {} /\ attempts[id] = 0
        /\ \A q \in Requests : id \in toEnqueue[q] => q = r
    BY <1>1, <1>8, <2>1 DEF OnTrack, OneCopy, OnePlace, OneRequest, Untried
  <2>3. /\ OneSlot(id)' /\ Listed(id)'
        /\ \A p \in Priority : \A i \in Slots(id, p)' : lists'[p][i] = m
    BY <1>2, <1>8, <2>2, PushedHere
  <2>4. ~WithRequest(id)'
    BY <1>2, <1>3, <1>8, <2>2 DEF Enqueue, WithRequest
  <2>5. ~AwaitingRetry(id)' /\ ~WithWorker(id)' /\ id \notin Fresh' /\ HasCopy(id)'
    BY <1>4, <2>2, <2>3 DEF HasCopy
  <2>6. OneCopy(id)'
    BY <2>3, <2>4, <2>5
    DEF OneCopy, OneRequest, OneRetry, OneWorker, OnePlace, WithRequest, AwaitingRetry,
        WithWorker
  <2>7. \A p \in Priority : \A i \in Slots(id, p)' : Ready(lists[p][i])'
    BY <1>1, <1>8, <2>2, <2>3, DomainAssumption DEF Ready, Untried, Unseen, SameTries
  <2>8. 0 <= MaxRetries + 1
    BY DomainAssumption
  <2>9. OnTrack(id)'
    BY <1>1, <1>4, <2>2, <2>4, <2>5, <2>6, <2>7, <2>8
    DEF OnTrack, AwaitingRetry, WithWorker, Unseen, SameTries
  <2>10. Legs(id) \subseteq {4} /\ Legs(id)' \subseteq {3}
    BY <2>2, <2>4, <2>5 DEF Legs, WithWorker
  <2>11. Advances(id)
    BY <1>1, <2>2, <2>10, NearerByLegs DEF Advances, Unseen, SameTries
  <2> QED
    BY <1>1, <2>1, <2>2, <2>5, <2>9, <2>11 DEF Moves, StageOf
<1> QED
  BY <1>3, <1>6, <1>7, <1>8 DEF Enqueue

LEMMA ApiMoves ==
    ASSUME TypeOK, Reliable, NEW id \in Immediate, OnTrack(id), Api
    PROVE  OnTrack(id)' /\ Moves(id) /\ Advances(id)
<1>1. ASSUME NEW other \in Ids, Cancel(other)
      PROVE  OnTrack(id)' /\ Moves(id) /\ Advances(id)
  <2>1. /\ Unseen(id)
        /\ UNCHANGED <<lists, retryQueue, toEnqueue, wpc, wmsg, sids, table, archive>>
    BY <1>1
    DEF Api, workerVars, serviceVars, schedulerVars, pipeVars, Cancel, CancelRow, queueVars,
        Unseen, SameTries
  <2>2. Kept(id)
    BY <2>1
    DEF Kept, HasCopy, WithRequest, Listed, Slots, AwaitingRetry, WithWorker, Holds,
        WithScheduler, Fresh
  <2>3. Calm(id)
    BY <2>1, <2>2, ListsUnchanged DEF Calm, OnTrack, Holds, WithScheduler, Fresh
  <2> QED
    BY <2>3, CalmMoves, CalmAdvances
<1> QED
  BY <1>1, StoreMoves, EnqueueMoves DEF Api, ServiceStep, Create, CreateBatch, Fresh

(***************************************************************************)
(* The steps of the scheduler, and a crash.                                *)
(***************************************************************************)

LEMMA TickMoves ==
    ASSUME TypeOK, Sourced, Reliable, NEW id \in Immediate, OnTrack(id), Tick
    PROVE  OnTrack(id)' /\ Moves(id) /\ Advances(id)
<1>1. /\ Unseen(id) /\ UNCHANGED <<toEnqueue, wpc, wmsg>>
      /\ ~WithScheduler(id) /\ id \in Ids \ Scheduled
      /\ ~Fails("pipeline") /\ ~Fails("resend")
  BY DEF Tick, serviceVars, workerVars, Unseen, SameTries, OnTrack, Immediate, Reliable, Fails
<1>2. ASSUME id \notin sids', NoneAdded(id), SameListed(id),
             \A m \in Message : m.id = id => (m \in retryQueue' <=> m \in retryQueue),
             retryQueue' \subseteq Message,
             id \in Fresh' <=> id \in Fresh
      PROVE  OnTrack(id)' /\ Moves(id) /\ Advances(id)
  <2>1. retryQueue \subseteq Message
    BY DEF TypeOK, QueueTypeOK
  <2>2. AwaitingRetry(id)' <=> AwaitingRetry(id)
    BY <1>2, <2>1 DEF AwaitingRetry
  <2>3. Kept(id)
    BY <1>1, <1>2, <2>2
    DEF Kept, HasCopy, WithRequest, SameListed, WithWorker, Holds, WithScheduler
  <2>4. Calm(id)
    BY <1>1, <1>2, <2>3 DEF Calm, Holds, WithScheduler
  <2> QED
    BY <2>4, CalmMoves, CalmAdvances
<1>3. /\ retryQueue \subseteq Message /\ pipe \subseteq Message /\ pipe \subseteq batch
      /\ id \notin sids
  BY <1>1 DEF TypeOK, QueueTypeOK, SchedulerTypeOK, WithScheduler
<1>4. ASSUME NEW S \in SUBSET DueScheduled, FetchScheduled(S)
      PROVE  OnTrack(id)' /\ Moves(id) /\ Advances(id)
  BY <1>1, <1>2, <1>3, <1>4, ListsUnchanged
  DEF FetchScheduled, DueScheduled, tableVars, queueVars, Fresh
<1>5. ASSUME NEW m \in pipe, PushScheduled(m)
      PROVE  OnTrack(id)' /\ Moves(id) /\ Advances(id)
  <2>1. m \in Message /\ m.id # id /\ LPush(m)
    BY <1>3, <1>5 DEF PushScheduled, Sourced
  <2>2. NoneAdded(id) /\ SameListed(id)
    BY <2>1, PushedElsewhere
  <2>3. id \notin sids' /\ UNCHANGED <<retryQueue, table, archive>>
    BY <1>1, <1>3, <1>5 DEF PushScheduled, Executed, Resent, GivenUp, tableVars
  <2> QED
    BY <1>2, <1>3, <2>2, <2>3 DEF Fresh
<1>6. CASE MarkScheduledQueued
  <2>1. sids' = {} /\ UNCHANGED <<lists, retryQueue, table, archive>>
    BY <1>6 DEF MarkScheduledQueued, BulkUpdateStatus, tableVars, queueVars
  <2> QED
    BY <1>2, <1>3, <2>1, ListsUnchanged DEF Fresh
<1>7. ASSUME NEW S \in SUBSET retryQueue, FetchRetries(S)
      PROVE  OnTrack(id)' /\ Moves(id) /\ Advances(id)
  BY <1>2, <1>3, <1>7, ListsUnchanged DEF FetchRetries, tableVars, queueVars, Fresh
<1>8. ASSUME NEW m \in pipe, RequeueRetry(m), m.id # id
      PROVE  OnTrack(id)' /\ Moves(id) /\ Advances(id)
  <2>1. NoneAdded(id) /\ SameListed(id)
    BY <1>3, <1>8, PushedElsewhere DEF RequeueRetry
  <2>2. retryQueue' = retryQueue \ {m} /\ UNCHANGED <<sids, table, archive>>
    BY <1>1, <1>8 DEF RequeueRetry, Executed, Resent, GivenUp, tableVars
  <2> QED
    BY <1>2, <1>3, <1>8, <2>1, <2>2 DEF Fresh
<1>9. ASSUME NEW m \in pipe, RequeueRetry(m), m.id = id
      PROVE  OnTrack(id)' /\ Moves(id) /\ Advances(id)
  <2>1. /\ m \in retryQueue /\ LPush(m) /\ retryQueue' = retryQueue \ {m}
        /\ UNCHANGED <<sids, table, archive>>
    BY <1>1, <1>9 DEF RequeueRetry, Executed, Resent, GivenUp, Sourced, Reliable, tableVars
  <2>2. AwaitingRetry(id) /\ Ready(m)
    BY <1>9, <2>1 DEF AwaitingRetry, OnTrack
  <2>3. /\ ~WithRequest(id) /\ ~Listed(id) /\ ~WithWorker(id) /\ HasCopy(id)
        /\ id \notin Fresh /\ events[id] = {} /\ attempts[id] <= MaxRetries + 1
        /\ \A o \in retryQueue : o.id = id => o = m
    BY <1>9, <2>1, <2>2 DEF OnTrack, OneCopy, OnePlace, OneRetry, HasCopy
  <2>4. /\ OneSlot(id)' /\ Listed(id)'
        /\ \A p \in Priority : \A i \in Slots(id, p)' : lists'[p][i] = m
    BY <1>3, <1>9, <2>1, <2>3, PushedHere
  <2>5. /\ ~WithRequest(id)' /\ ~AwaitingRetry(id)' /\ ~WithWorker(id)' /\ id \notin Fresh'
        /\ ~WithScheduler(id)' /\ HasCopy(id)'
    BY <1>1, <2>1, <2>3, <2>4
    DEF WithRequest, AwaitingRetry, WithWorker, Holds, Fresh, WithScheduler, HasCopy
  <2>6. OneCopy(id)'
    BY <2>4, <2>5
    DEF OneCopy, OneRequest, OneRetry, OneWorker, OnePlace, WithRequest, AwaitingRetry,
        WithWorker
  <2>7. \A p \in Priority : \A i \in Slots(id, p)' : Ready(lists[p][i])'
    BY <1>1, <1>9, <2>2, <2>4 DEF Ready, Unseen, SameTries
  <2>8. OnTrack(id)'
    BY <1>1, <2>3, <2>5, <2>6, <2>7
    DEF OnTrack, AwaitingRetry, WithWorker, Unseen, SameTries
  <2>9. Legs(id) \subseteq {5} /\ Legs(id)' \subseteq {3}
    BY <2>3, <2>5 DEF Legs, WithWorker
  <2>10. Advances(id)
    BY <1>1, <2>9, NearerByLegs DEF Advances, Unseen, SameTries, TypeOK, WorkerTypeOK
  <2> QED
    BY <1>1, <2>3, <2>5, <2>8, <2>10 DEF Moves, StageOf
<1>10. CASE PipelineBreaks
  BY <1>1, <1>10 DEF PipelineBreaks, Resent, GivenUp
<1>11. CASE ArchiveMove \/ \E S \in SUBSET Archivable : ArchiveSelect(S)
  <2>1. UNCHANGED <<lists, retryQueue, sids>> /\ Fresh' = Fresh
    BY <1>11 DEF ArchiveSelect, ArchiveMove, Archive, pipeVars, tableVars, queueVars, Fresh
  <2> QED
    BY <1>2, <1>3, <2>1, ListsUnchanged
<1> QED
  BY <1>4, <1>5, <1>6, <1>7, <1>8, <1>9, <1>10, <1>11 DEF Tick, SchedulerStep

LEMMA CrashMoves ==
    ASSUME NEW id \in Immediate, OnTrack(id), Crash
    PROVE  OnTrack(id)' /\ Moves(id) /\ Advances(id)
<1>1. /\ UNCHANGED <<lists, retryQueue, table, archive>> /\ Unseen(id) /\ ~WithScheduler(id)'
      /\ \A r \in Requests : toEnqueue'[r] = {}
      /\ \A w \in Workers : ~Holds(w, id)'
  BY DEF Crash, tableVars, queueVars, Unseen, SameTries, WithScheduler, Holds
<1>2. Calm(id)
  BY <1>1, ListsUnchanged, FaultsNotEmpty DEF Calm, Crash, Fresh
<1> QED
  BY <1>2, CalmMoves, CalmAdvances

(* Every step of the system is a step of each notification that has no     *)
(* scheduled_at.                                                           *)
LEMMA NextMoves ==
    ASSUME TypeOK, Sourced, Reliable, [Next]_vars, NEW id \in Immediate, OnTrack(id)
    PROVE  OnTrack(id)' /\ Moves(id) /\ Advances(id)
<1>1. id \in Ids
  BY DEF Immediate
<1>2. CASE UNCHANGED vars
  <2>1. /\ Unseen(id)
        /\ UNCHANGED <<lists, retryQueue, toEnqueue, wpc, wmsg, sids, table, archive>>
    BY <1>2
    DEF vars, tableVars, queueVars, serviceVars, workerVars, schedulerVars, pipeVars, Unseen,
        SameTries
  <2>2. Kept(id)
    BY <2>1
    DEF Kept, HasCopy, WithRequest, Listed, Slots, AwaitingRetry, WithWorker, Holds,
        WithScheduler, Fresh
  <2>3. Calm(id)
    BY <2>1, <2>2, ListsUnchanged DEF Calm, OnTrack, Holds, WithScheduler, Fresh
  <2> QED
    BY <2>3, CalmMoves, CalmAdvances
<1> QED
  BY <1>1, <1>2, ApiMoves, WorkMoves, TickMoves, CrashMoves DEF Next

(* A message never goes in circles: each step leaves it where it is, ends  *)
(* its way or shortens what is left of it, although a retry returns it to  *)
(* the list it came from.                                                  *)
MessagesGetNearer == [][\A id \in Immediate : Advances(id)]_vars

(* What is left of the way of a message, wherever it is, is a number of    *)
(* steps.                                                                  *)
WaysAreCounted ==
    \A id \in Immediate :
        HasCopy(id) => StepsFrom(id) # {} /\ StepsFrom(id) \subseteq Nat \ {0}

(***************************************************************************)
(* One copy, and what follows from where it can be.                        *)
(***************************************************************************)

LEMMA InitOnTrack == Init => EveryCopyOnTrack
BY DomainAssumption
DEF Init, TableInit, QueueInit, ServiceInit, WorkerInit, SchedulerInit, EveryCopyOnTrack, OnTrack,
    OneCopy, OneRequest, OneSlot, OneRetry, OneWorker, OnePlace, WithRequest, Listed, Slots,
    AwaitingRetry, WithWorker, Holds, WithScheduler, HasCopy, Untried, Immediate

LEMMA NextOnTrack ==
    ASSUME TypeOK, Sourced, Reliable, EveryCopyOnTrack, [Next]_vars
    PROVE  EveryCopyOnTrack'
BY NextMoves DEF EveryCopyOnTrack

(* While no pipeline is cut short and no command is sent twice, the one    *)
(* copy of each message counts the attempts that were made with it.             *)
THEOREM CopiesStayOnTrack ==
    ASSUME Reliable
    PROVE  Spec => []EveryCopyOnTrack
BY InitOnTrack, NextOnTrack, AlwaysSourced, PTL DEF Spec

(* No message circulates for ever, as long as there is only one of it: a   *)
(* bound on its steps goes down with each of them, for any MaxRetries.     *)
THEOREM WaysAreFinite ==
    ASSUME Reliable
    PROVE  Spec => []WaysAreCounted /\ MessagesGetNearer
<1>1. ASSUME TypeOK, Sourced, EveryCopyOnTrack, [Next]_vars
      PROVE  [\A id \in Immediate : Advances(id)]_vars
  BY <1>1, NextMoves DEF EveryCopyOnTrack
<1>2. TypeOK /\ EveryCopyOnTrack => WaysAreCounted
  <2> SUFFICES ASSUME TypeOK, EveryCopyOnTrack, NEW id \in Immediate, HasCopy(id)
               PROVE  StepsFrom(id) # {} /\ StepsFrom(id) \subseteq Nat \ {0}
    BY DEF WaysAreCounted
  <2>1. /\ OnTrack(id) /\ attempts[id] \in Nat
        /\ wpc \in [Workers -> WorkerPCs]
    BY DEF EveryCopyOnTrack, Immediate, TypeOK, WorkerTypeOK
  <2>2. attempts[id] <= MaxRetries + 1
    BY <2>1 DEF OnTrack
  <2>3. Rounds(id) \in Nat
    BY <2>1, <2>2, DomainAssumption DEF Rounds
  <2>4. Legs(id) # {}
    <3>1. CASE WithRequest(id) \/ Listed(id) \/ AwaitingRetry(id)
      BY <3>1 DEF Legs
    <3>2. ASSUME NEW w \in Workers, Holds(w, id)
          PROVE  Legs(id) # {}
      <4>1. StepsIn(wpc[w]) \in 1 .. 9
        BY <2>1, <3>2 DEF StepsIn, WorkerPCs, Holds
      <4> QED
        BY <3>2, <4>1 DEF Legs
    <3> QED
      BY <2>1, <3>1, <3>2 DEF HasCopy, WithWorker, OnTrack
  <2>5. \A r \in Nat, n \in 1 .. 9 : 10 * r + n \in Nat \ {0}
    OBVIOUS
  <2> QED
    BY <2>3, <2>4, <2>5 DEF StepsFrom, Legs
<1> QED
  BY <1>1, <1>2, AlwaysSourced, CopiesStayOnTrack, PTL DEF Spec, MessagesGetNearer

(* There is never a second copy of a message: not with another request,    *)
(* not in another slot or list, not in the retry set, not with a worker.   *)
THEOREM CopiesAreSingle ==
    ASSUME Reliable
    PROVE  Spec => []SingleCopy
<1>1. EveryCopyOnTrack => SingleCopy
  BY DEF EveryCopyOnTrack, OnTrack, SingleCopy
<1> QED
  BY <1>1, CopiesStayOnTrack, PTL

(* An outcome is only announced when no message is left, so that no second *)
(* one follows.                                                            *)
THEOREM OutcomesAreUnique ==
    ASSUME Reliable
    PROVE  Spec => []OutcomeIsUnique
<1>1. EveryCopyOnTrack => OutcomeIsUnique
  BY DEF EveryCopyOnTrack, OnTrack, OutcomeIsUnique
<1> QED
  BY <1>1, CopiesStayOnTrack, PTL

(* The provider never gets more than MaxRetries + 1 requests for one.      *)
THEOREM AttemptsAreBounded ==
    ASSUME Reliable
    PROVE  Spec => []AttemptsBounded
<1>1. EveryCopyOnTrack => AttemptsBounded
  BY DEF EveryCopyOnTrack, OnTrack, AttemptsBounded
<1> QED
  BY <1>1, CopiesStayOnTrack, PTL

(***************************************************************************)
(* The row of a notification, and where its message is.                    *)
(***************************************************************************)

OutcomeStatus == {"delivered", "failed"}

Announcing(w) == wpc[w] \in {"announceDelivered", "announceFailed"}

(* Its message is under way and has not been decided on the row.           *)
Undecided(id) == HasCopy(id) /\ \A w \in Workers : Holds(w, id) => ~Announcing(w)

(* A row does not show an outcome before there is one.                     *)
NotShownEarly == \A id \in Immediate : Undecided(id) => status[id] \notin OutcomeStatus

(* What a step does to the status of a row.                                *)
Marks(w, id) ==
    /\ Holds(w, id)
    /\ \/ wpc[w] = "processing" /\ status'[id] = "processing"
       \/ wpc[w] = "requeue" /\ status'[id] = "queued"
       \/ wpc[w] = "delivered" /\ wpc'[w] = "announceDelivered" /\ wmsg'[w] = wmsg[w]
       \/ wpc[w] = "failed" /\ wpc'[w] = "announceFailed" /\ wmsg'[w] = wmsg[w]

RowMoves(id) ==
    \/ status'[id] = status[id]
    \/ id \in Fresh /\ status'[id] = "queued"
    \/ status[id] \in {"pending", "queued"} /\ status'[id] = "cancelled"
    \/ \E w \in Workers : Marks(w, id)

LEMMA WorkRowMoves ==
    ASSUME TypeOK, NEW id \in Immediate, NEW w \in Workers, Work(w)
    PROVE  RowMoves(id)
<1>1. /\ wpc[w] # "pop" => wmsg[w] \in Message /\ wmsg[w].id \in Ids
      /\ wpc \in [Workers -> WorkerPCs] /\ status \in [Ids -> Status \cup {NoStatus}]
  BY DEF TypeOK, WorkerTypeOK, TableTypeOK, Message
<1>2. CASE Pop(w) \/ Deliver(w) \/ AnnounceDelivered(w) \/ AnnounceFailed(w)
           \/ CountRetry(w) \/ ScheduleRetry(w)
  BY <1>2
  DEF Pop, Deliver, AnnounceDelivered, AnnounceFailed, Announce, CountRetry, IncrementRetry,
      ScheduleRetry, tableVars, RowMoves
<1>3. CASE /\ wmsg[w].id # id
           /\ MarkProcessing(w) \/ MarkDelivered(w) \/ MarkFailed(w) \/ MarkQueued(w)
  <2>1. \/ UNCHANGED tableVars
        \/ \E s, n : UpdateStatus(wmsg[w].id, s, n)
    BY <1>3 DEF MarkProcessing, MarkDelivered, MarkFailed, MarkQueued, TryUpdate
  <2>2. status'[id] = status[id]
    BY <1>1, <1>3, <2>1 DEF UpdateStatus, tableVars, Immediate
  <2> QED
    BY <2>2 DEF RowMoves
<1>4. CASE wmsg[w].id = id /\ (MarkProcessing(w) \/ MarkDelivered(w) \/ MarkFailed(w))
  BY <1>1, <1>4
  DEF MarkProcessing, MarkDelivered, MarkFailed, TryUpdate, UpdateStatus, Goto, tableVars,
      RowMoves, Marks, Holds
<1>5. CASE wmsg[w].id = id /\ MarkQueued(w)
  BY <1>1, <1>5 DEF MarkQueued, UpdateStatus, tableVars, RowMoves, Marks, Holds
<1> QED
  BY <1>2, <1>3, <1>4, <1>5
  DEF Work, WorkerStep

LEMMA NextRowMoves ==
    ASSUME TypeOK, [Next]_vars, NEW id \in Immediate, OnTrack(id)
    PROVE  RowMoves(id)
<1>1. id \in Ids \ Scheduled /\ id \notin sids
  BY DEF OnTrack, WithScheduler, Immediate
<1>2. CASE Api
  <2>1. CASE \E S \in SUBSET Fresh : InsertRows(S)
    BY <1>1, <2>1 DEF InsertRows, InitialStatus, RowMoves
  <2>2. CASE \E other \in Ids : CancelRow(other)
    BY <1>1, <2>2 DEF CancelRow, Cancellable, TypeOK, TableTypeOK, RowMoves
  <2>3. CASE UNCHANGED tableVars
    BY <2>3 DEF tableVars, RowMoves
  <2> QED
    BY <1>2, <2>1, <2>2, <2>3
    DEF Api, ServiceStep, Create, CreateBatch, Store, Enqueue, Cancel, Fresh
<1>3. CASE Tick
  BY <1>1, <1>3
  DEF Tick, SchedulerStep, FetchScheduled, PushScheduled, MarkScheduledQueued, BulkUpdateStatus,
      FetchRetries, RequeueRetry, PipelineBreaks, ArchiveSelect, ArchiveMove, Archive,
      tableVars, RowMoves
<1>4. CASE Crash \/ UNCHANGED vars
  BY <1>4 DEF Crash, vars, tableVars, RowMoves
<1> QED
  BY <1>2, <1>3, <1>4, WorkRowMoves DEF Next

(* A worker is only moved by its own steps and by a crash.                 *)
LEMMA OtherStepsLeaveWorker ==
    ASSUME TypeOK, [Next]_vars, NEW w \in Workers, ~Work(w), ~Crash
    PROVE  wpc'[w] = wpc[w] /\ wmsg'[w] = wmsg[w]
<1>1. ASSUME NEW v \in Workers, Work(v)
      PROVE  wpc'[w] = wpc[w] /\ wmsg'[w] = wmsg[w]
  <2>1. v # w /\ wpc \in [Workers -> WorkerPCs] /\ DOMAIN wmsg = Workers
    BY <1>1 DEF TypeOK, WorkerTypeOK
  <2>2. CASE Pop(v) \/ Deliver(v) \/ CountRetry(v)
    BY <2>1, <2>2 DEF Pop, Deliver, CountRetry, Goto
  <2>3. CASE AnnounceDelivered(v) \/ AnnounceFailed(v)
    BY <2>1, <2>3 DEF AnnounceDelivered, AnnounceFailed, Announce, Done, Goto
  <2>4. CASE MarkProcessing(v) \/ MarkDelivered(v) \/ MarkFailed(v)
    BY <2>1, <2>4 DEF MarkProcessing, MarkDelivered, MarkFailed, TryUpdate, Goto
  <2>5. CASE MarkQueued(v) \/ ScheduleRetry(v)
    BY <2>1, <2>5 DEF MarkQueued, ScheduleRetry, Done, Goto
  <2> QED
    BY <1>1, <2>2, <2>3, <2>4, <2>5 DEF Work, WorkerStep
<1> QED
  BY <1>1 DEF Next, Api, Tick, vars, workerVars

LEMMA UndecidedBefore ==
    ASSUME TypeOK, Sourced, Reliable, [Next]_vars, NEW id \in Immediate, OnTrack(id),
           Undecided(id)'
    PROVE  Undecided(id) \/ id \in Fresh
<1>1. OnTrack(id)' /\ Moves(id)
  BY NextMoves
<1>2. HasCopy(id)' /\ id \notin Fresh' /\ events'[id] = {}
  BY <1>1 DEF OnTrack, Undecided
<1>3. HasCopy(id) \/ id \in Fresh
  BY <1>1, <1>2 DEF Moves, From, StageOf
<1>4. ASSUME NEW w \in Workers, Holds(w, id), Announcing(w)
      PROVE  FALSE
  <2>1. CASE Work(w)
    <3>1. AnnounceDelivered(w) \/ AnnounceFailed(w)
      BY <1>4, <2>1
      DEF Work, WorkerStep, Pop, MarkProcessing, Deliver, MarkDelivered, MarkFailed,
          CountRetry, MarkQueued, ScheduleRetry, Announcing
    <3>2. wmsg[w].id = id /\ id \in Ids /\ DOMAIN events = Ids
      BY <1>4 DEF Holds, Immediate, TypeOK, WorkerTypeOK
    <3>3. events'[id] # {}
      BY <3>1, <3>2 DEF AnnounceDelivered, AnnounceFailed, Announce
    <3> QED
      BY <1>2, <3>3
  <2>2. CASE Crash
    <3>1. ~Listed(id) /\ ~AwaitingRetry(id)
      BY <1>4 DEF OnTrack, OneCopy, OnePlace, WithWorker
    <3>2. ~HasCopy(id)'
      BY <2>2, <3>1
      DEF Crash, HasCopy, WithRequest, Listed, Slots, AwaitingRetry, WithWorker, Holds,
          WithScheduler, queueVars
    <3> QED
      BY <1>2, <3>2
  <2>3. CASE wpc'[w] = wpc[w] /\ wmsg'[w] = wmsg[w]
    BY <1>4, <2>3 DEF Undecided, Holds, Announcing
  <2> QED
    BY <2>1, <2>2, <2>3, OtherStepsLeaveWorker
<1> QED
  BY <1>3, <1>4 DEF Undecided

LEMMA NextShown ==
    ASSUME TypeOK, Sourced, Reliable, EveryCopyOnTrack, NotShownEarly, [Next]_vars
    PROVE  NotShownEarly'
<1> SUFFICES ASSUME NEW id \in Immediate, Undecided(id)'
             PROVE  status'[id] \notin OutcomeStatus
  BY DEF NotShownEarly
<1>1. OnTrack(id) /\ RowMoves(id) /\ (Undecided(id) \/ id \in Fresh)
  BY NextRowMoves, UndecidedBefore DEF EveryCopyOnTrack
<1>2. status[id] \notin OutcomeStatus
  BY <1>1 DEF NotShownEarly, Sourced, NoStatus, OutcomeStatus
<1>3. ASSUME NEW w \in Workers, Marks(w, id)
      PROVE  status'[id] \notin OutcomeStatus
  BY <1>3 DEF Marks, Undecided, Holds, Announcing, OutcomeStatus
<1> QED
  BY <1>1, <1>2, <1>3 DEF RowMoves, OutcomeStatus

LEMMA InitShown == Init => NotShownEarly
BY DEF Init, TableInit, NoStatus, OutcomeStatus, NotShownEarly, Immediate

LEMMA AlwaysShown ==
    ASSUME Reliable
    PROVE  Spec => [](TypeOK /\ Sourced /\ EveryCopyOnTrack /\ NotShownEarly)
<1>1. TypeOK /\ Sourced /\ EveryCopyOnTrack /\ NotShownEarly /\ [Next]_vars => NotShownEarly'
  BY NextShown
<1> QED
  BY InitShown, <1>1, AlwaysSourced, CopiesStayOnTrack, PTL DEF Spec

LEMMA ShownStays ==
    ASSUME TypeOK, Sourced, EveryCopyOnTrack, NotShownEarly, [Next]_vars, NEW id \in Immediate,
           status[id] \in OutcomeStatus
    PROVE  status'[id] = status[id]
<1>1. OnTrack(id) /\ RowMoves(id) /\ id \notin Fresh /\ ~Undecided(id)
  BY NextRowMoves DEF EveryCopyOnTrack, NotShownEarly, Sourced, NoStatus, OutcomeStatus, Immediate
<1>2. ASSUME NEW w \in Workers, Marks(w, id)
      PROVE  FALSE
  <2>1. HasCopy(id)
    BY <1>2 DEF Marks, HasCopy, WithWorker
  <2>2. PICK v \in Workers : Holds(v, id) /\ Announcing(v)
    BY <1>1, <2>1 DEF Undecided
  <2>3. v = w
    BY <1>1, <1>2, <2>2 DEF OnTrack, OneCopy, OneWorker, Marks
  <2> QED
    BY <1>2, <2>2, <2>3 DEF Marks, Announcing
<1> QED
  BY <1>1, <1>2 DEF RowMoves, OutcomeStatus

(* A row that shows an outcome is never changed again, although nothing in *)
(* the UPDATEs prevents it.                                                *)
THEOREM OutcomesAreFinal ==
    ASSUME Reliable
    PROVE  Spec => OutcomeIsFinal
<1>1. TypeOK /\ Sourced /\ EveryCopyOnTrack /\ NotShownEarly /\ [Next]_vars =>
        [\A id \in Immediate :
            status[id] \in {"delivered", "failed"} => status'[id] = status[id]]_vars
  BY ShownStays DEF OutcomeStatus
<1> QED
  BY <1>1, AlwaysShown, PTL DEF Spec, OutcomeIsFinal

(***************************************************************************)
(* What is announced is what the row shows, unless an UPDATE fails.        *)
(***************************************************************************)

Shows(id, s) == status[id] = s \/ (id \in archive /\ status[id] \notin OutcomeStatus)

(* The outcome is on the row before it is announced, and stays there.      *)
Told(id) ==
    /\ \A w \in Workers : Holds(w, id) =>
          /\ wpc[w] = "announceDelivered" => Shows(id, "delivered")
          /\ wpc[w] = "announceFailed" => Shows(id, "failed")
    /\ \A s \in events[id] : Shows(id, s)

EveryOutcomeStored == \A id \in Immediate : Told(id)

LEMMA ShowsStays ==
    ASSUME TypeOK, Sourced, ArchiveSettled, EveryCopyOnTrack, NotShownEarly, [Next]_vars,
           NEW id \in Immediate, NEW s \in OutcomeStatus, Shows(id, s)
    PROVE  Shows(id, s)'
<1>1. CASE status[id] = s
  BY <1>1, ShownStays DEF Shows
<1>2. CASE id \in archive /\ status[id] \notin OutcomeStatus
  <2>1. KeepsArchive
    BY NextKeeps
  <2> QED
    BY <1>2, <2>1 DEF KeepsArchive, Archive, Shows
<1> QED
  BY <1>1, <1>2 DEF Shows

LEMMA EventsComeFromAnnouncers ==
    ASSUME TypeOK, [Next]_vars, NEW id \in Immediate, NEW s \in events'[id], s \notin events[id]
    PROVE  \E w \in Workers :
              /\ Holds(w, id)
              /\ \/ wpc[w] = "announceDelivered" /\ s = "delivered"
                 \/ wpc[w] = "announceFailed" /\ s = "failed"
<1>1. events \in [Ids -> SUBSET {"delivered", "failed"}] /\ id \in Ids
  BY DEF TypeOK, WorkerTypeOK, Immediate
<1>2. PICK w \in Workers : AnnounceDelivered(w) \/ AnnounceFailed(w)
  BY DEF Next, Api, Tick, Crash, vars, workerVars, Work, WorkerStep, Pop, MarkProcessing,
         Deliver, MarkDelivered, MarkFailed, CountRetry, MarkQueued, ScheduleRetry, TryUpdate
<1>3. /\ wpc[w] # "pop"
      /\ \/ wpc[w] = "announceDelivered" /\
            events' = [events EXCEPT ![wmsg[w].id] = @ \cup {"delivered"}]
         \/ wpc[w] = "announceFailed" /\
            events' = [events EXCEPT ![wmsg[w].id] = @ \cup {"failed"}]
  BY <1>2 DEF AnnounceDelivered, AnnounceFailed, Announce
<1> QED
  BY <1>1, <1>3 DEF Holds

LEMMA AnnouncersHaveStored ==
    ASSUME TypeOK, EveryCopyOnTrack, NotShownEarly, "status" \notin Faults,
           NEW id \in Immediate, NEW w \in Workers, Work(w), Holds(w, id)', Announcing(w)'
    PROVE  /\ wpc'[w] = "announceDelivered" => Shows(id, "delivered")'
           /\ wpc'[w] = "announceFailed" => Shows(id, "failed")'
<1>1. /\ wpc \in [Workers -> WorkerPCs] /\ status \in [Ids -> Status \cup {NoStatus}]
      /\ id \in Ids
  BY DEF TypeOK, WorkerTypeOK, TableTypeOK, Immediate
<1>2. wpc'[w] \in {"announceDelivered", "announceFailed"} /\ wpc[w] # "pop"
  BY <1>1
  DEF Announcing, Work, WorkerStep, Pop, MarkProcessing, Deliver, MarkDelivered,
      AnnounceDelivered, MarkFailed, AnnounceFailed, Announce, CountRetry, MarkQueued,
      ScheduleRetry, TryUpdate, Goto, Done
<1>3. \/ MarkDelivered(w) /\ wpc'[w] = "announceDelivered"
      \/ MarkFailed(w) /\ wpc'[w] = "announceFailed"
  BY <1>1, <1>2
  DEF Work, WorkerStep, Pop, MarkProcessing, Deliver, MarkDelivered,
      AnnounceDelivered, MarkFailed, AnnounceFailed, Announce, CountRetry, MarkQueued,
      ScheduleRetry, TryUpdate, Goto, Done
<1>4. /\ Holds(w, id) /\ wmsg[w].id = id /\ ~Announcing(w)
      /\ \/ UpdateStatus(id, "delivered", wmsg[w].span) /\ wpc'[w] = "announceDelivered"
         \/ UpdateStatus(id, "failed", NoProviderID) /\ wpc'[w] = "announceFailed"
  BY <1>2, <1>3 DEF MarkDelivered, MarkFailed, TryUpdate, Holds, Fails, Announcing
<1>5. CASE id \in table
  BY <1>1, <1>4, <1>5 DEF UpdateStatus, Shows
<1>6. CASE id \notin table
  <2>1. OnTrack(id) /\ HasCopy(id)
    BY <1>4 DEF EveryCopyOnTrack, HasCopy, WithWorker
  <2>2. id \in archive /\ \A v \in Workers : Holds(v, id) => v = w
    BY <1>1, <1>4, <1>6, <2>1 DEF OnTrack, OneCopy, OneWorker, Fresh
  <2>3. status[id] \notin OutcomeStatus
    BY <1>4, <2>1, <2>2 DEF NotShownEarly, Undecided
  <2> QED
    BY <1>4, <1>6, <2>2, <2>3 DEF UpdateStatus, Shows
<1> QED
  BY <1>5, <1>6

LEMMA NextTold ==
    ASSUME TypeOK, Sourced, ArchiveSettled, EveryCopyOnTrack, NotShownEarly,
           EveryOutcomeStored, "status" \notin Faults, [Next]_vars
    PROVE  EveryOutcomeStored'
<1> SUFFICES ASSUME NEW id \in Immediate
             PROVE  Told(id)'
  BY DEF EveryOutcomeStored
<1>1. Told(id)
  BY DEF EveryOutcomeStored
<1>2. \A s \in OutcomeStatus : Shows(id, s) => Shows(id, s)'
  BY ShowsStays
<1>3. ASSUME NEW w \in Workers, Holds(w, id)', Announcing(w)'
      PROVE  /\ wpc'[w] = "announceDelivered" => Shows(id, "delivered")'
             /\ wpc'[w] = "announceFailed" => Shows(id, "failed")'
  <2>1. CASE Work(w)
    BY <1>3, <2>1, AnnouncersHaveStored
  <2>2. CASE Crash
    BY <1>3, <2>2 DEF Crash, Holds
  <2>3. CASE wpc'[w] = wpc[w] /\ wmsg'[w] = wmsg[w]
    BY <1>1, <1>2, <1>3, <2>3 DEF Told, Holds, OutcomeStatus
  <2> QED
    BY <2>1, <2>2, <2>3, OtherStepsLeaveWorker
<1>4. ASSUME NEW s \in events'[id]
      PROVE  Shows(id, s)'
  <2>1. Shows(id, s) /\ s \in OutcomeStatus
    <3>1. CASE s \in events[id]
      BY <1>1, <3>1 DEF Told, OutcomeStatus, TypeOK, WorkerTypeOK, Immediate
    <3>2. CASE s \notin events[id]
      BY <1>1, <3>2, EventsComeFromAnnouncers DEF Told, OutcomeStatus
    <3> QED
      BY <3>1, <3>2
  <2> QED
    BY <1>2, <2>1
<1> QED
  BY <1>3, <1>4 DEF Told, Announcing

LEMMA InitTold == Init => EveryOutcomeStored
BY DEF Init, WorkerInit, EveryOutcomeStored, Told, Holds, Immediate

LEMMA AlwaysTold ==
    ASSUME Reliable, "status" \notin Faults
    PROVE  Spec => []EveryOutcomeStored
<1>1. TypeOK /\ Sourced /\ ArchiveSettled /\ EveryCopyOnTrack /\ NotShownEarly
        /\ EveryOutcomeStored /\ [Next]_vars => EveryOutcomeStored'
  BY NextTold
<1> QED
  BY InitTold, <1>1, AlwaysShown, Settled, PTL DEF Spec

(* Unless an UPDATE of a status fails, the row shows what was announced,   *)
(* or was cancelled and archived before the worker came to write it; then  *)
(* it never shows the opposite outcome, whatever status it was moved with. *)
THEOREM AnnouncedOutcomesAreStored ==
    ASSUME Reliable, "status" \notin Faults
    PROVE  Spec => []AnnouncedIsStored
<1>1. EveryOutcomeStored => AnnouncedIsStored
  BY DEF EveryOutcomeStored, Told, Shows, AnnouncedIsStored, OutcomeStatus
<1> QED
  BY <1>1, AlwaysTold, PTL

(***************************************************************************)
(* Without failing calls no message is lost.                               *)
(***************************************************************************)

(* The message is only gone when the outcome has been announced.           *)
GoneWhenTold == \A id \in Immediate : StageOf(id) = "closed" => events[id] # {}

LEMMA NextGone ==
    ASSUME TypeOK, Sourced, EveryCopyOnTrack, GoneWhenTold, [Next]_vars, Faults = {}
    PROVE  GoneWhenTold'
<1> SUFFICES ASSUME NEW id \in Immediate, StageOf(id)' = "closed"
             PROVE  events'[id] # {}
  BY DEF GoneWhenTold
<1>1. Moves(id)
  BY NextMoves DEF Reliable, EveryCopyOnTrack
<1> QED
  BY <1>1 DEF Moves, From, GoneWhenTold, Unseen

LEMMA InitGone == Init => GoneWhenTold
BY DEF Init, TableInit, GoneWhenTold, StageOf, Fresh, Immediate

LEMMA AlwaysGoneWhenTold ==
    ASSUME Faults = {}
    PROVE  Spec => []GoneWhenTold
<1>1. TypeOK /\ Sourced /\ EveryCopyOnTrack /\ GoneWhenTold /\ [Next]_vars => GoneWhenTold'
  BY NextGone
<1>2. Reliable
  BY DEF Reliable
<1> QED
  BY InitGone, <1>1, <1>2, AlwaysShown, PTL DEF Spec

LEMMA GoneIsCompleted ==
    ASSUME TypeOK, ArchiveSettled, GoneWhenTold, EveryOutcomeStored, NEW id \in Immediate,
           id \in table
    PROVE  HasCopy(id) \/ status[id] \in Completed
<1> SUFFICES ASSUME ~HasCopy(id)
             PROVE  status[id] \in Completed
  OBVIOUS
<1>1. events[id] # {}
  BY DEF GoneWhenTold, StageOf, Fresh
<1>2. PICK s \in events[id] : Shows(id, s)
  BY <1>1 DEF EveryOutcomeStored, Told
<1> QED
  BY <1>2 DEF Shows, ArchiveSettled, TypeOK, WorkerTypeOK, Immediate, Completed

(* A row that says it is queued or processing is being worked on: without  *)
(* failing calls no notification is left behind.                           *)
THEOREM NoneIsStranded ==
    ASSUME Faults = {}
    PROVE  Spec => []NothingStranded
<1>1. TypeOK /\ ArchiveSettled /\ GoneWhenTold /\ EveryOutcomeStored => NothingStranded
  BY GoneIsCompleted DEF NothingStranded, Completed
<1>2. Reliable /\ "status" \notin Faults
  BY DEF Reliable
<1> QED
  BY <1>1, <1>2, Settled, AlwaysGoneWhenTold, AlwaysTold, PTL

=============================================================================
