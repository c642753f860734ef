------------------------------ MODULE HubProofs ------------------------------
(***************************************************************************)
(* The WebSocket hub, for any number of connections and events and any     *)
(* capacity of its channels: the theorems about Hub.  One invariant says   *)
(* which connections Run may still close, the other where in the order of  *)
(* the events each connection is.                                          *)
(***************************************************************************)
EXTENDS Hub, SequenceTheorems, TLAPS

InSeq(x, s) == \E i \in DOMAIN s : s[i] = x

(***************************************************************************)
(* The invariants.                                                         *)
(***************************************************************************)

(* Run offers its event to clients of the map only, and none of the map is *)
(* closed.                                                                 *)
MapIsOpen == fanout \subseteq clients /\ clients \cap closed = {}

(* A connection is unknown to Run until it is in register, and is there    *)
(* once: Run takes it from there only one time.                            *)
Unknown(c) == c \notin clients \cup closed

RegisteredOnce ==
    /\ \A c \in Clients : rpc[c] \in {"absent", "register"} =>
          Unknown(c) /\ ~ InSeq(c, register)
    /\ \A i \in DOMAIN register : Unknown(register[i])
    /\ \A i, j \in DOMAIN register : register[i] = register[j] => i = j

Typed ==
    /\ running \in BOOLEAN /\ panicked \in BOOLEAN
    /\ clients \in SUBSET Clients /\ fanout \in SUBSET Clients
    /\ closed \in SUBSET Clients /\ conn \in SUBSET Clients
    /\ broadcast \in Seq(Events) /\ Len(broadcast) <= BroadcastSize
    /\ register \in Seq(Clients) /\ Len(register) <= RegisterSize
    /\ unregister \in Seq(Clients) /\ Len(unregister) <= RegisterSize
    /\ current \in Events \cup {0} /\ notified \in Events \cup {0}
    /\ fanout # {} => current \in Events

Buffers ==
    /\ send \in [Clients -> Seq(Events)]
    /\ \A c \in Clients : Len(send[c]) <= SendSize

Pumping ==
    /\ rpc \in [Clients -> {"absent", "register", "read", "unregister", "gone"}]
    /\ wpc \in [Clients -> {"absent", "take", "write", "close", "gone"}]

Recorded ==
    /\ sent \in Seq(Events)
    /\ since \in [Clients -> Nat]
    /\ written \in [Clients -> Seq(Events)]

HubInv ==
    /\ Typed /\ Buffers /\ Pumping /\ Recorded
    /\ MapIsOpen
    /\ RegisteredOnce
    /\ ~ panicked

(* Where a connection is in the order of the events: what was written to   *)
(* it, and then what is in its channel, follow its registration.           *)
Got(c) ==
    /\ since[c] + Len(written[c]) <= Len(sent)
    /\ \A i \in 1 .. Len(written[c]) : written[c][i] = sent[since[c] + i]

Queued(c) ==
    /\ since[c] + Len(written[c]) + Len(send[c]) <= Len(sent)
    /\ \A i \in 1 .. Len(send[c]) :
          send[c][i] = sent[since[c] + Len(written[c]) + i]

(* Nothing is missing but the event Run has yet to offer to it.            *)
Complete(c) ==
    since[c] + Len(written[c]) + Len(send[c]) + (IF c \in fanout THEN 1 ELSE 0) = Len(sent)

InOrder(c) ==
    /\ Unknown(c) => send[c] = <<>> /\ written[c] = <<>>
    /\ Got(c)
    /\ c \in conn => Queued(c)
    /\ c \in conn \cap clients => Complete(c)

OrderInv ==
    /\ \A c \in Clients : InOrder(c)
    /\ fanout # {} => Len(sent) > 0 /\ current = sent[Len(sent)]


(***************************************************************************)
(* Channels.                                                               *)
(***************************************************************************)

LEMMA AppendElements ==
    ASSUME NEW S, NEW s \in Seq(S), NEW m \in S
    PROVE  /\ DOMAIN s = 1 .. Len(s) /\ Len(s) \in Nat
           /\ Append(s, m) \in Seq(S)
           /\ Len(Append(s, m)) = Len(s) + 1
           /\ DOMAIN Append(s, m) = 1 .. Len(s) + 1
           /\ Append(s, m)[Len(s) + 1] = m
           /\ \A i \in 1 .. Len(s) : Append(s, m)[i] = s[i]
OBVIOUS

LEMMA TailElements ==
    ASSUME NEW S, NEW s \in Seq(S), s # <<>>
    PROVE  /\ DOMAIN s = 1 .. Len(s) /\ Len(s) \in Nat \ {0}
           /\ Head(s) \in S /\ Head(s) = s[1]
           /\ Tail(s) \in Seq(S)
           /\ Len(Tail(s)) = Len(s) - 1
           /\ DOMAIN Tail(s) = 1 .. Len(s) - 1
           /\ \A i \in 1 .. Len(s) - 1 : Tail(s)[i] = s[i + 1]
<1>1. /\ Tail(s) \in Seq(S) /\ Len(s) \in Nat \ {0} /\ Len(Tail(s)) = Len(s) - 1
      /\ DOMAIN s = 1 .. Len(s) /\ Head(s) \in S /\ Head(s) = s[1]
  OBVIOUS
<1>2. DOMAIN Tail(s) = 1 .. Len(s) - 1
  BY <1>1
<1> QED
  BY <1>1, <1>2

(* A count takes one from the next: the sum is the same.                  *)
LEMMA Regroup ==
    ASSUME NEW a \in Nat, NEW b \in Nat, NEW k \in Nat, NEW w \in Nat
    PROVE  /\ a + b + (k + 1) = a + (b + 1) + k
           /\ k # 0 => a + (b + 1) + (k - 1) + w = a + b + k + w
OBVIOUS

(***************************************************************************)
(* Types.                                                                  *)
(***************************************************************************)

LEMMA EventNumbers ==
    ASSUME NEW n \in Events \cup {0}, n < MaxEvents
    PROVE  n + 1 \in Events
BY HubAssumption DEF Events

LEMMA TypedStep ==
    ASSUME HubInv, Next
    PROVE  Typed'
<1>1. Typed /\ fanout \subseteq clients /\ running \in BOOLEAN
  BY DEF HubInv, Typed, MapIsOpen
<1>2. CASE Notify
  <2>1. notified' \in Events
    BY <1>1, <1>2, EventNumbers DEF Notify, Typed
  <2>2. broadcast' \in Seq(Events) /\ Len(broadcast') <= BroadcastSize
    <3>1. CASE Len(broadcast) < BroadcastSize
      <4>1. broadcast' = Append(broadcast, notified')
        BY <1>2, <3>1 DEF Notify
      <4>2. Len(broadcast') = Len(broadcast) + 1 /\ broadcast' \in Seq(Events)
            /\ Len(broadcast) \in Nat
        BY <1>1, <2>1, <4>1, AppendElements DEF Typed
      <4> QED
        BY <3>1, <4>2, HubAssumption
    <3>2. CASE ~ Len(broadcast) < BroadcastSize
      BY <1>1, <1>2, <3>2 DEF Notify, Typed
    <3> QED
      BY <3>1, <3>2
  <2> QED
    BY <1>1, <1>2, <2>1, <2>2 DEF Notify, Typed, clientVars
<1>3. CASE RunStop
  BY <1>1, <1>3 DEF RunStop, Typed, clientVars, ghostVars
<1>4. CASE RunRegister
  <2>1. /\ Head(register) \in Clients /\ register' \in Seq(Clients)
        /\ Len(register') <= RegisterSize
    BY <1>1, <1>4, TailElements, HubAssumption DEF RunRegister, Typed
  <2> QED
    BY <1>1, <1>4, <2>1 DEF RunRegister, Typed, clientVars
<1>5. CASE RunUnregister
  <2>1. /\ Head(unregister) \in Clients /\ unregister' \in Seq(Clients)
        /\ Len(unregister') <= RegisterSize
    BY <1>1, <1>5, TailElements, HubAssumption DEF RunUnregister, Typed
  <2>2. clients' \in SUBSET Clients /\ closed' \in SUBSET Clients /\ panicked' \in BOOLEAN
    BY <1>1, <1>5, <2>1 DEF RunUnregister, Drop, Typed
  <2> QED
    BY <1>1, <1>5, <2>1, <2>2 DEF RunUnregister, Typed
<1>6. CASE RunBroadcast
  <2>1. /\ Head(broadcast) \in Events /\ broadcast' \in Seq(Events)
        /\ Len(broadcast') <= BroadcastSize
    BY <1>1, <1>6, TailElements, HubAssumption DEF RunBroadcast, Typed
  <2> QED
    BY <1>1, <1>6, <2>1 DEF RunBroadcast, Typed, clientVars
<1>7. ASSUME NEW c \in fanout, Offer(c)
      PROVE  Typed'
  <2>1. clients' \in SUBSET Clients /\ closed' \in SUBSET Clients /\ panicked' \in BOOLEAN
    <3>1. panicked' \in BOOLEAN
      BY <1>1, <1>7 DEF Offer, Drop, Typed
    <3>2. CASE c \in closed \/ Len(send[c]) < SendSize
      BY <1>1, <1>7, <3>1, <3>2 DEF Offer, Typed
    <3>3. CASE ~ (c \in closed \/ Len(send[c]) < SendSize)
      BY <1>1, <1>7, <3>1, <3>3 DEF Offer, Drop, Typed
    <3> QED
      BY <3>2, <3>3
  <2>2. fanout' \subseteq fanout
    BY <1>7 DEF Offer
  <2> QED
    BY <1>1, <1>7, <2>1, <2>2 DEF Offer, Typed
<1>8. ASSUME NEW c \in Clients, Register(c)
      PROVE  Typed'
  <2>1. register' \in Seq(Clients) /\ Len(register') <= RegisterSize
    BY <1>1, <1>8, AppendElements, HubAssumption DEF Register, Typed
  <2> QED
    BY <1>1, <1>8, <2>1 DEF Register, Typed, ghostVars
<1>9. ASSUME NEW c \in Clients, Unregister(c)
      PROVE  Typed'
  <2>1. unregister' \in Seq(Clients) /\ Len(unregister') <= RegisterSize
    BY <1>1, <1>9, AppendElements, HubAssumption DEF Unregister, Typed
  <2> QED
    BY <1>1, <1>9, <2>1 DEF Unregister, Typed, ghostVars
<1>10. ASSUME NEW c \in Clients, Upgrade(c) \/ Disconnect(c)
       PROVE  Typed'
  BY <1>1, <1>10 DEF Upgrade, Disconnect, Typed, hubVars, ghostVars
<1>11. ASSUME NEW c \in Clients, WriteEvent(c) \/ WriteClose(c) \/ WriteReturns(c) \/ ReadFails(c)
       PROVE  Typed'
  BY <1>1, <1>11 DEF WriteEvent, WriteClose, WriteReturns, ReadFails, Typed, hubVars, ghostVars
<1> QED
  BY <1>2, <1>3, <1>4, <1>5, <1>6, <1>7, <1>8, <1>9, <1>10, <1>11 DEF Next, Run, Pumps

LEMMA PumpingStep ==
    ASSUME HubInv, Next
    PROVE  Pumping'
<1>1. Pumping
  BY DEF HubInv
<1> QED
  BY <1>1 DEF Next, Run, Pumps, Pumping, Notify, RunStop, RunRegister, RunUnregister, RunBroadcast, Offer,
     Upgrade, Register, Disconnect, WriteEvent, WriteClose, WriteReturns, ReadFails, Unregister,
     clientVars

LEMMA BuffersStep ==
    ASSUME HubInv, Next
    PROVE  Buffers'
<1>1. Buffers /\ Typed /\ MapIsOpen
  BY DEF HubInv
<1>2. ASSUME NEW c \in fanout, Offer(c)
      PROVE  Buffers'
  <2>1. c \in Clients /\ current \in Events /\ c \notin closed
    BY <1>1, <1>2 DEF Typed, MapIsOpen
  <2>2. CASE Len(send[c]) < SendSize
    <3>1. send' = [send EXCEPT ![c] = Append(@, current)]
      BY <1>2, <2>2 DEF Offer
    <3>2. send[c] \in Seq(Events)
      BY <1>1, <2>1 DEF Buffers
    <3>3. /\ Append(send[c], current) \in Seq(Events)
          /\ Len(Append(send[c], current)) = Len(send[c]) + 1 /\ Len(send[c]) \in Nat
      BY <2>1, <3>2, AppendElements
    <3>4. Len(Append(send[c], current)) <= SendSize
      BY <2>2, <3>3, HubAssumption
    <3> QED
      BY <1>1, <3>1, <3>3, <3>4 DEF Buffers
  <2>3. CASE ~ Len(send[c]) < SendSize
    BY <1>1, <1>2, <2>1, <2>3 DEF Offer, Buffers
  <2> QED
    BY <2>2, <2>3
<1>3. ASSUME NEW c \in Clients, WriteEvent(c)
      PROVE  Buffers'
  <2>1. send[c] \in Seq(Events) /\ send[c] # <<>> /\ send' = [send EXCEPT ![c] = Tail(@)]
    BY <1>1, <1>3 DEF WriteEvent, Buffers
  <2>2. /\ Tail(send[c]) \in Seq(Events)
        /\ Len(Tail(send[c])) = Len(send[c]) - 1 /\ Len(send[c]) \in Nat
    BY <2>1, TailElements
  <2>3. Len(Tail(send[c])) <= SendSize
    BY <1>1, <2>2, HubAssumption DEF Buffers
  <2> QED
    BY <1>1, <2>1, <2>2, <2>3 DEF Buffers
<1>4. ASSUME send' = send
      PROVE  Buffers'
  BY <1>1, <1>4 DEF Buffers
<1> QED
  BY <1>2, <1>3, <1>4 DEF Next, Run, Pumps, Notify, RunStop, RunRegister, RunUnregister,
     RunBroadcast, Upgrade, Register, Disconnect, WriteClose, WriteReturns, ReadFails, Unregister,
     clientVars

LEMMA RecordedStep ==
    ASSUME HubInv, Next
    PROVE  Recorded'
<1>1. Recorded /\ Typed /\ Buffers
  BY DEF HubInv
<1>2. CASE RunRegister
  <2>1. Len(sent) \in Nat
    BY <1>1 DEF Recorded
  <2> QED
    BY <1>1, <1>2, <2>1 DEF RunRegister, Recorded
<1>3. CASE RunBroadcast
  <2>1. Head(broadcast) \in Events
    BY <1>1, <1>3, TailElements DEF RunBroadcast, Typed
  <2> QED
    BY <1>1, <1>3, <2>1 DEF RunBroadcast, Recorded
<1>4. ASSUME NEW c \in Clients, WriteEvent(c)
      PROVE  Recorded'
  <2>1. Head(send[c]) \in Events
    BY <1>1, <1>4, TailElements DEF WriteEvent, Buffers
  <2>2. written' \in [Clients -> Seq(Events)]
    <3>1. CASE c \in conn
      <4>1. written[c] \in Seq(Events)
        BY <1>1 DEF Recorded
      <4>2. Append(written[c], Head(send[c])) \in Seq(Events)
        BY <2>1, <4>1
      <4>3. written' = [written EXCEPT ![c] = Append(written[c], Head(send[c]))]
        BY <1>4, <3>1 DEF WriteEvent
      <4> QED
        BY <1>1, <4>2, <4>3 DEF Recorded
    <3>2. CASE c \notin conn
      BY <1>1, <1>4, <3>2 DEF WriteEvent, Recorded
    <3> QED
      BY <3>1, <3>2
  <2> QED
    BY <1>1, <1>4, <2>2 DEF WriteEvent, Recorded
<1>5. ASSUME UNCHANGED <<sent, since, written>>
      PROVE  Recorded'
  BY <1>1, <1>5 DEF Recorded
<1> QED
  BY <1>2, <1>3, <1>4, <1>5 DEF Next, Run, Pumps, Notify, RunStop, RunUnregister, Offer,
     Upgrade, Register, Disconnect, WriteClose, WriteReturns, ReadFails, Unregister, ghostVars


(***************************************************************************)
(* The map of the clients.                                                 *)
(***************************************************************************)

(* No client that Run knows, or will take from register, is closed twice   *)
(* or offered an event when it is closed.                                  *)
Safe == MapIsOpen /\ RegisteredOnce /\ ~ panicked

LEMMA RunUnregisterSafe ==
    ASSUME HubInv, RunUnregister
    PROVE  Safe'
<1>1. /\ Typed /\ MapIsOpen /\ RegisteredOnce /\ ~ panicked /\ fanout = {}
      /\ fanout' = fanout /\ register' = register /\ rpc' = rpc
  BY DEF HubInv, RunUnregister, Selecting
<1>2. CASE Head(unregister) \in clients
  <2>1. PICK c : c = Head(unregister)
    OBVIOUS
  <2>2. /\ clients' = clients \ {c} /\ closed' = closed \cup {c}
        /\ panicked' = (panicked \/ c \in closed)
    BY <1>2, <2>1 DEF RunUnregister, Drop
  <2>3. c \in clients /\ c \notin closed
    BY <1>1, <1>2, <2>1 DEF MapIsOpen
  <2>4. ~ panicked'
    BY <1>1, <2>2, <2>3
  <2>5. MapIsOpen'
    BY <1>1, <2>2 DEF MapIsOpen
  <2>6. \A d : Unknown(d)' <=> Unknown(d)
    BY <2>2, <2>3 DEF Unknown
  <2>7. RegisteredOnce'
    BY <1>1, <2>6 DEF RegisteredOnce, InSeq
  <2> QED
    BY <2>4, <2>5, <2>7 DEF Safe
<1>3. CASE Head(unregister) \notin clients
  <2>1. UNCHANGED <<clients, closed, panicked>>
    BY <1>3 DEF RunUnregister
  <2> QED
    BY <1>1, <2>1 DEF Safe, MapIsOpen, RegisteredOnce, Unknown, InSeq
<1> QED
  BY <1>2, <1>3

LEMMA OfferSafe ==
    ASSUME HubInv, NEW c \in fanout, Offer(c)
    PROVE  Safe'
<1>1. /\ Typed /\ MapIsOpen /\ RegisteredOnce /\ ~ panicked
      /\ fanout' = fanout \ {c} /\ register' = register /\ rpc' = rpc
  BY DEF HubInv, Offer
<1>2. c \in clients /\ c \notin closed
  BY <1>1 DEF MapIsOpen
<1>3. CASE Len(send[c]) < SendSize
  <2>1. UNCHANGED <<clients, closed>> /\ panicked' = (panicked \/ c \in closed)
    BY <1>3 DEF Offer
  <2>2. ~ panicked'
    BY <1>1, <1>2, <2>1
  <2> QED
    BY <1>1, <2>1, <2>2 DEF Safe, MapIsOpen, RegisteredOnce, Unknown, InSeq
<1>4. CASE ~ Len(send[c]) < SendSize
  <2>1. /\ clients' = clients \ {c} /\ closed' = closed \cup {c}
        /\ panicked' = (panicked \/ c \in closed)
    BY <1>2, <1>4 DEF Offer, Drop
  <2>2. ~ panicked'
    BY <1>1, <1>2, <2>1
  <2>3. MapIsOpen'
    BY <1>1, <2>1 DEF MapIsOpen
  <2>4. \A d : Unknown(d)' <=> Unknown(d)
    BY <1>2, <2>1 DEF Unknown
  <2>5. RegisteredOnce'
    BY <1>1, <2>4 DEF RegisteredOnce, InSeq
  <2> QED
    BY <2>2, <2>3, <2>5 DEF Safe
<1> QED
  BY <1>3, <1>4

LEMMA RunRegisterSafe ==
    ASSUME HubInv, RunRegister
    PROVE  Safe'
<1>1. /\ Typed /\ MapIsOpen /\ RegisteredOnce /\ ~ panicked /\ fanout = {}
      /\ fanout' = fanout /\ rpc' = rpc /\ closed' = closed /\ panicked' = panicked
      /\ register # <<>> /\ register' = Tail(register)
      /\ clients' = clients \cup {Head(register)}
  BY DEF HubInv, RunRegister, Selecting, clientVars
<1>2. /\ DOMAIN register = 1 .. Len(register) /\ Len(register) \in Nat \ {0}
      /\ Head(register) \in Clients /\ Head(register) = register[1]
      /\ DOMAIN register' = 1 .. Len(register) - 1
      /\ \A i \in 1 .. Len(register) - 1 : register'[i] = register[i + 1]
  BY <1>1, TailElements DEF Typed
<1>3. PICK c \in Clients : c = register[1] /\ clients' = clients \cup {c}
  BY <1>1, <1>2
<1>4. Unknown(c) /\ \A d : Unknown(d)' <=> Unknown(d) /\ d # c
  BY <1>1, <1>2, <1>3 DEF RegisteredOnce, Unknown
<1>5. MapIsOpen'
  BY <1>1, <1>3, <1>4 DEF MapIsOpen, Unknown
<1>6. \A i \in DOMAIN register' :
          i + 1 \in DOMAIN register /\ register'[i] = register[i + 1] /\ i \in Int
  BY <1>2
<1>7. ASSUME NEW d \in Clients, rpc'[d] \in {"absent", "register"}
      PROVE  Unknown(d)' /\ ~ InSeq(d, register')
  <2>1. Unknown(d) /\ ~ InSeq(d, register)
    BY <1>1, <1>7 DEF RegisteredOnce
  <2>2. d # c
    BY <1>2, <1>3, <2>1 DEF InSeq
  <2> QED
    BY <1>4, <1>6, <2>1, <2>2 DEF InSeq
<1>8. ASSUME NEW i \in DOMAIN register'
      PROVE  register'[i] \notin clients' \cup closed'
  <2>1. PICK d : d = register[i + 1] /\ d = register'[i]
    BY <1>6
  <2>2. Unknown(d)
    BY <1>1, <1>6, <2>1 DEF RegisteredOnce
  <2>3. i + 1 \in DOMAIN register /\ i + 1 # 1 /\ 1 \in DOMAIN register
    BY <1>2, <1>6
  <2>4. d # c
    BY <1>1, <1>3, <2>1, <2>3 DEF RegisteredOnce
  <2>5. d \notin clients' \cup closed'
    BY <1>1, <1>3, <2>2, <2>4 DEF Unknown
  <2> QED
    BY <2>1, <2>5
<1>9. ASSUME NEW i \in DOMAIN register', NEW j \in DOMAIN register',
             register'[i] = register'[j]
      PROVE  i = j
  <2>1. i + 1 = j + 1
    BY <1>1, <1>6, <1>9 DEF RegisteredOnce
  <2> QED
    BY <1>6, <2>1
<1>10. RegisteredOnce'
  BY <1>7, <1>8, <1>9 DEF RegisteredOnce, InSeq, Unknown
<1> QED
  BY <1>1, <1>5, <1>10 DEF Safe

LEMMA RegisterSafe ==
    ASSUME HubInv, NEW c \in Clients, Register(c)
    PROVE  Safe'
<1>1. /\ Typed /\ Pumping /\ MapIsOpen /\ RegisteredOnce /\ ~ panicked
      /\ UNCHANGED <<fanout, clients, closed, panicked>>
      /\ rpc[c] = "register" /\ register' = Append(register, c)
      /\ rpc' = [rpc EXCEPT ![c] = "read"]
  BY DEF HubInv, Register, ghostVars
<1>2. /\ DOMAIN register = 1 .. Len(register) /\ Len(register) \in Nat
      /\ DOMAIN register' = 1 .. Len(register) + 1
      /\ register'[Len(register) + 1] = c
      /\ \A i \in 1 .. Len(register) : register'[i] = register[i]
  BY <1>1, AppendElements DEF Typed
<1>3. Unknown(c) /\ ~ InSeq(c, register)
  BY <1>1 DEF RegisteredOnce
<1>4. \A d : Unknown(d)' <=> Unknown(d)
  BY <1>1 DEF Unknown
<1>5. \A i \in DOMAIN register' :
          \/ i \in DOMAIN register /\ register'[i] = register[i]
          \/ i = Len(register) + 1 /\ register'[i] = c
  BY <1>2
<1>6. ASSUME NEW d \in Clients, rpc'[d] \in {"absent", "register"}
      PROVE  Unknown(d)' /\ ~ InSeq(d, register')
  <2>1. d # c /\ rpc'[d] = rpc[d]
    BY <1>1, <1>6 DEF Pumping
  <2>2. Unknown(d) /\ ~ InSeq(d, register)
    BY <1>1, <1>6, <2>1 DEF RegisteredOnce
  <2> QED
    BY <1>4, <1>5, <2>1, <2>2 DEF InSeq
<1>7. \A i \in DOMAIN register' : register'[i] \notin clients' \cup closed'
  BY <1>1, <1>3, <1>5 DEF RegisteredOnce, Unknown
<1>8. \A i, j \in DOMAIN register' : register'[i] = register'[j] => i = j
  BY <1>1, <1>3, <1>5 DEF RegisteredOnce, InSeq
<1>9. RegisteredOnce'
  BY <1>6, <1>7, <1>8 DEF RegisteredOnce, InSeq, Unknown
<1> QED
  BY <1>1, <1>9 DEF Safe, MapIsOpen

LEMMA SafeStep ==
    ASSUME HubInv, Next
    PROVE  Safe'
<1>1. Typed /\ Pumping /\ MapIsOpen /\ RegisteredOnce /\ ~ panicked
  BY DEF HubInv
<1>2. CASE RunBroadcast
  BY <1>1, <1>2 DEF RunBroadcast, Safe, MapIsOpen, RegisteredOnce, Unknown, InSeq, clientVars
<1>3. ASSUME UNCHANGED <<fanout, clients, closed, register, panicked>>,
             \A d \in Clients : rpc'[d] \in {"absent", "register"} =>
                rpc[d] \in {"absent", "register"}
      PROVE  Safe'
  BY <1>1, <1>3 DEF Safe, MapIsOpen, RegisteredOnce, Unknown, InSeq
<1>4. CASE Notify \/ RunStop
  BY <1>3, <1>4 DEF Notify, RunStop, clientVars, ghostVars
<1>5. ASSUME NEW c \in Clients,
             Upgrade(c) \/ Disconnect(c) \/ WriteEvent(c) \/ WriteClose(c)
                \/ WriteReturns(c) \/ ReadFails(c) \/ Unregister(c)
      PROVE  Safe'
  <2>1. UNCHANGED <<fanout, clients, closed, register, panicked>>
    BY <1>5 DEF Upgrade, Disconnect, WriteEvent, WriteClose, WriteReturns, ReadFails,
                Unregister, hubVars, ghostVars
  <2>2. \A d \in Clients : rpc'[d] \in {"absent", "register"} =>
            rpc[d] \in {"absent", "register"}
    BY <1>1, <1>5 DEF Pumping, Upgrade, Disconnect, WriteEvent, WriteClose, WriteReturns, ReadFails,
                      Unregister
  <2> QED
    BY <1>3, <2>1, <2>2
<1> QED
  BY <1>2, <1>4, <1>5, RunUnregisterSafe, OfferSafe, RunRegisterSafe, RegisterSafe
  DEF Next, Run, Pumps

LEMMA HubInvStep == HubInv /\ [Next]_vars => HubInv'
<1> SUFFICES ASSUME HubInv, [Next]_vars
             PROVE  HubInv'
  OBVIOUS
<1>1. CASE Next
  BY <1>1, TypedStep, BuffersStep, PumpingStep, RecordedStep, SafeStep DEF HubInv, Safe
<1>2. CASE UNCHANGED vars
  BY <1>2 DEF vars, hubVars, clientVars, ghostVars, HubInv, Typed, Buffers, Pumping, Recorded,
              MapIsOpen, RegisteredOnce, Unknown, InSeq
<1> QED
  BY <1>1, <1>2

LEMMA HubInit == Init => HubInv
<1> SUFFICES ASSUME Init
             PROVE  HubInv
  OBVIOUS
<1>1. Typed
  <2>1. Len(broadcast) = 0 /\ Len(register) = 0 /\ Len(unregister) = 0
    BY DEF Init
  <2>2. 0 <= BroadcastSize /\ 0 <= RegisterSize
    BY HubAssumption
  <2>3. broadcast \in Seq(Events) /\ register \in Seq(Clients) /\ unregister \in Seq(Clients)
    BY DEF Init
  <2> QED
    BY <2>1, <2>2, <2>3 DEF Init, Typed
<1>2. Buffers
  BY HubAssumption DEF Init, Buffers
<1>3. Pumping /\ Recorded /\ MapIsOpen
  BY DEF Init, Pumping, Recorded, MapIsOpen
<1>4. RegisteredOnce /\ ~ panicked
  BY DEF Init, RegisteredOnce, Unknown, InSeq
<1> QED
  BY <1>1, <1>2, <1>3, <1>4 DEF HubInv

LEMMA AlwaysHubInv == Spec => []HubInv
BY HubInit, HubInvStep, PTL DEF Spec

(* No channel ever holds more than its capacity, nor Run and the pumps     *)
(* anything but clients and events.                                        *)
THEOREM HubIsTyped == Spec => []HubTypeOK
<1>1. HubInv => HubTypeOK
  BY DEF HubInv, Typed, Buffers, Pumping, Recorded, HubTypeOK
<1> QED
  BY <1>1, AlwaysHubInv, PTL

(* Run closes a send channel once and never sends on a closed one, in      *)
(* whatever order the goroutines of a client register and unregister it.   *)
THEOREM RunNeverPanics == Spec => []NoPanic
<1>1. HubInv => NoPanic
  BY DEF HubInv, NoPanic
<1> QED
  BY <1>1, AlwaysHubInv, PTL


(***************************************************************************)
(* The order of the events.                                                *)
(***************************************************************************)

(* What a step leaves alone of a connection, or takes from it: a place in  *)
(* the map, or the connection itself.                                      *)
Kept(c) ==
    /\ sent' = sent
    /\ since'[c] = since[c] /\ written'[c] = written[c] /\ send'[c] = send[c]
    /\ Unknown(c)' => Unknown(c)
    /\ c \in conn' => c \in conn
    /\ c \in clients' => c \in clients /\ (c \in fanout' <=> c \in fanout)

LEMMA KeptInOrder ==
    ASSUME NEW c \in Clients, InOrder(c), Kept(c)
    PROVE  InOrder(c)'
<1>1. Unknown(c)' => send'[c] = <<>> /\ written'[c] = <<>>
  BY DEF Kept, InOrder
<1>2. Got(c)'
  BY DEF Kept, InOrder, Got
<1>3. (c \in conn)' => Queued(c)'
  BY DEF Kept, InOrder, Queued
<1>4. (c \in conn \cap clients)' => Complete(c)'
  BY DEF Kept, InOrder, Complete
<1> QED
  BY <1>1, <1>2, <1>3, <1>4 DEF InOrder

(* A new connection has nothing yet.                                       *)
LEMMA UpgradeInOrder ==
    ASSUME HubInv, NEW d \in Clients, Upgrade(d), NEW c \in Clients, InOrder(c)
    PROVE  InOrder(c)'
<1>1. /\ UNCHANGED <<sent, since, written, send, clients, closed, fanout>>
      /\ conn' = conn \cup {d}
  BY DEF Upgrade, hubVars, ghostVars
<1>2. CASE c # d
  BY <1>1, <1>2, KeptInOrder DEF Kept, Unknown
<1>3. CASE c = d
  <2>1. Unknown(c)
    BY <1>3 DEF HubInv, RegisteredOnce, Upgrade
  <2>2. send[c] = <<>> /\ written[c] = <<>> /\ Got(c) /\ c \notin clients
    BY <2>1 DEF InOrder, Unknown
  <2>3. since[c] \in Nat /\ Len(sent) \in Nat
    BY DEF HubInv, Recorded
  <2>4. Len(<<>>) = 0 /\ 1 .. 0 = {}
    OBVIOUS
  <2>5. Queued(c)'
    BY <1>1, <2>2, <2>3, <2>4 DEF Got, Queued
  <2>6. Got(c)' /\ c \notin clients' /\ send'[c] = <<>> /\ written'[c] = <<>>
    BY <1>1, <2>2 DEF Got
  <2> QED
    BY <2>5, <2>6 DEF InOrder
<1> QED
  BY <1>2, <1>3

(* Run takes a client from register: it gets the events from here on.      *)
LEMMA RunRegisterInOrder ==
    ASSUME HubInv, RunRegister, NEW c \in Clients, InOrder(c)
    PROVE  InOrder(c)'
<1>1. PICK d \in Clients :
          /\ d = Head(register)
          /\ clients' = clients \cup {d} /\ since' = [since EXCEPT ![d] = Len(sent)]
  BY TailElements DEF RunRegister, HubInv, Typed
<1>2. UNCHANGED <<sent, written, send, closed, conn, fanout>> /\ fanout = {}
  BY DEF RunRegister, Selecting, clientVars
<1>3. since \in [Clients -> Nat] /\ Len(sent) \in Nat
  BY DEF HubInv, Recorded
<1>4. CASE c # d
  <2>1. Kept(c)
    BY <1>1, <1>2, <1>3, <1>4 DEF Kept, Unknown
  <2> QED
    BY <2>1, KeptInOrder
<1>5. CASE c = d
  <2>1. Unknown(c)
    <3>1. Head(register) = register[1] /\ 1 \in DOMAIN register
      BY TailElements DEF RunRegister, HubInv, Typed
    <3> QED
      BY <1>1, <1>5, <3>1 DEF HubInv, RegisteredOnce
  <2>2. send'[c] = <<>> /\ written'[c] = <<>> /\ since'[c] = Len(sent')
    BY <1>1, <1>2, <1>3, <1>5, <2>1 DEF InOrder
  <2>3. Len(<<>>) = 0 /\ 1 .. 0 = {} /\ Len(sent') \in Nat
    BY <1>2, <1>3
  <2>4. Got(c)'
    BY <2>2, <2>3 DEF Got
  <2>5. Queued(c)'
    BY <2>2, <2>3 DEF Queued
  <2>6. Complete(c)'
    BY <1>2, <2>2, <2>3 DEF Complete
  <2> QED
    BY <2>2, <2>4, <2>5, <2>6 DEF InOrder
<1> QED
  BY <1>4, <1>5

(* Run takes an event: every client of the map now misses one.             *)
LEMMA RunBroadcastInOrder ==
    ASSUME HubInv, RunBroadcast, NEW c \in Clients, InOrder(c)
    PROVE  InOrder(c)'
<1>1. /\ UNCHANGED <<since, written, send, closed, conn, clients>>
      /\ fanout = {} /\ fanout' = clients /\ sent' = Append(sent, Head(broadcast))
  BY DEF RunBroadcast, Selecting, clientVars
<1>2. /\ Len(sent) \in Nat /\ Len(sent') = Len(sent) + 1
      /\ \A i \in 1 .. Len(sent) : sent'[i] = sent[i]
  <2>1. Head(broadcast) \in Events /\ sent \in Seq(Events)
    BY TailElements DEF RunBroadcast, HubInv, Typed, Recorded
  <2> QED
    BY <1>1, <2>1, AppendElements
<1>3. since[c] \in Nat /\ Len(written[c]) \in Nat /\ Len(send[c]) \in Nat
  BY DEF HubInv, Recorded, Buffers
<1>4. Got(c)'
  <2>1. Got(c)
    BY DEF InOrder
  <2>2. \A i \in 1 .. Len(written[c]) : since[c] + i \in 1 .. Len(sent)
    BY <1>2, <1>3, <2>1 DEF Got
  <2> QED
    <3>1. since[c] + Len(written[c]) <= Len(sent')
      BY <1>2, <1>3, <2>1 DEF Got
    <3>2. \A i \in 1 .. Len(written[c]) : written[c][i] = sent'[since[c] + i]
      BY <1>2, <2>1, <2>2 DEF Got
    <3> QED
      BY <1>1, <3>1, <3>2 DEF Got
<1>5. ASSUME c \in conn'
      PROVE  Queued(c)'
  <2>1. Queued(c)
    BY <1>1, <1>5 DEF InOrder
  <2>2. PICK k \in Nat, n \in Nat : k = since[c] + Len(written[c]) /\ n = Len(send[c])
    BY <1>3
  <2>3. k + n <= Len(sent) /\ \A i \in 1 .. n : send[c][i] = sent[k + i]
    BY <2>1, <2>2 DEF Queued
  <2>4. \A i \in 1 .. n : k + i \in 1 .. Len(sent)
    BY <1>2, <2>3
  <2>5. k + n <= Len(sent')
    BY <1>2, <2>3
  <2>6. \A i \in 1 .. n : send[c][i] = sent'[k + i]
    BY <1>2, <2>3, <2>4
  <2> QED
    BY <1>1, <2>2, <2>5, <2>6 DEF Queued
<1>6. ASSUME c \in conn' \cap clients'
      PROVE  Complete(c)'
  <2>1. Complete(c) /\ c \notin fanout /\ c \in fanout'
    BY <1>1, <1>6 DEF InOrder
  <2>2. since[c] + Len(written[c]) + Len(send[c]) = Len(sent)
    BY <1>3, <2>1 DEF Complete
  <2> QED
    BY <1>1, <1>2, <1>3, <2>1, <2>2 DEF Complete
<1>7. Unknown(c)' => send'[c] = <<>> /\ written'[c] = <<>>
  BY <1>1 DEF InOrder, Unknown
<1> QED
  BY <1>4, <1>5, <1>6, <1>7 DEF InOrder

(* Run offers it to a client, which gets it last, or is dropped.           *)
LEMMA OfferInOrder ==
    ASSUME HubInv, OrderInv, NEW d \in fanout, Offer(d), NEW c \in Clients
    PROVE  InOrder(c)'
<1>1. /\ UNCHANGED <<sent, since, written, conn>> /\ fanout' = fanout \ {d}
      /\ InOrder(c) /\ d \in Clients /\ d \in clients /\ d \notin closed
  BY DEF Offer, OrderInv, HubInv, Typed, MapIsOpen
<1>2. CASE ~ Len(send[d]) < SendSize
  <2>1. send' = send /\ clients' = clients \ {d} /\ closed' = closed \cup {d}
    BY <1>1, <1>2 DEF Offer, Drop
  <2>2. Kept(c)
    BY <1>1, <2>1 DEF Kept, Unknown
  <2> QED
    BY <1>1, <2>2, KeptInOrder
<1>3. CASE Len(send[d]) < SendSize
  <2>1. send' = [send EXCEPT ![d] = Append(send[d], current)] /\ UNCHANGED <<clients, closed>>
    BY <1>1, <1>3 DEF Offer
  <2>2. send \in [Clients -> Seq(Events)]
    BY DEF HubInv, Buffers
  <2>3. CASE c # d
    <3>1. Kept(c)
      BY <1>1, <2>1, <2>2, <2>3 DEF Kept, Unknown
    <3> QED
      BY <1>1, <3>1, KeptInOrder
  <2>4. CASE c = d
    <3>1. current \in Events /\ Len(sent) \in Nat \ {0} /\ current = sent[Len(sent)]
      BY DEF HubInv, Typed, Recorded, OrderInv
    <3>2. send'[c] = Append(send[c], current)
      BY <2>1, <2>2, <2>4
    <3>3. /\ Len(send[c]) \in Nat /\ Len(send'[c]) = Len(send[c]) + 1
          /\ send'[c][Len(send[c]) + 1] = current
          /\ \A i \in 1 .. Len(send[c]) : send'[c][i] = send[c][i]
      BY <2>2, <3>1, <3>2, AppendElements
    <3>4. since[c] \in Nat /\ Len(written[c]) \in Nat
      BY DEF HubInv, Recorded
    <3>5. Got(c)' /\ ~ Unknown(c)' /\ c \in clients
      BY <1>1, <2>1, <2>4 DEF InOrder, Got, Unknown
    <3>6. ASSUME c \in conn'
          PROVE  Queued(c)' /\ Complete(c)'
      <4>1. Queued(c) /\ Complete(c) /\ c \in fanout /\ c \notin fanout'
        BY <1>1, <2>4, <3>5, <3>6 DEF InOrder
      <4>2. PICK a \in Nat, b \in Nat, k \in Nat :
                a = since[c] /\ b = Len(written[c]) /\ k = Len(send[c])
        BY <3>3, <3>4
      <4>3. a + b + (k + 1) = Len(sent) /\ Len(send'[c]) = k + 1
        <5>1. a + b + k + 1 = Len(sent) /\ Len(send'[c]) = k + 1
          BY <3>3, <4>1, <4>2 DEF Complete
        <5>2. a + b + (k + 1) = a + b + k + 1
          OBVIOUS
        <5> QED
          BY <5>1, <5>2
      <4>4. Complete(c)'
        <5>1. a + b + (k + 1) + 0 = a + b + (k + 1)
          OBVIOUS
        <5> QED
          BY <1>1, <4>1, <4>2, <4>3, <5>1 DEF Complete
      <4>5. ASSUME NEW i \in 1 .. Len(send'[c])
            PROVE  send'[c][i] = sent[since[c] + Len(written[c]) + i]
        <5>1. CASE i = k + 1
          BY <3>1, <3>3, <4>2, <4>3, <5>1
        <5>2. CASE i \in 1 .. Len(send[c])
          BY <3>3, <4>1, <5>2 DEF Queued
        <5> QED
          BY <4>2, <4>3, <5>1, <5>2
      <4>6. Queued(c)'
        <5>1. since[c] + Len(written[c]) + Len(send'[c]) <= Len(sent)
          BY <3>1, <4>2, <4>3
        <5> QED
          BY <1>1, <4>5, <5>1 DEF Queued
      <4> QED
        BY <4>4, <4>6
    <3> QED
      BY <3>5, <3>6 DEF InOrder
  <2> QED
    BY <2>3, <2>4
<1> QED
  BY <1>2, <1>3

(* writePump moves the first event of the channel to the connection.       *)
LEMMA WriteEventInOrder ==
    ASSUME HubInv, NEW d \in Clients, WriteEvent(d), NEW c \in Clients, InOrder(c)
    PROVE  InOrder(c)'
<1>1. /\ UNCHANGED <<sent, since, conn, clients, closed, fanout>>
      /\ send[d] # <<>> /\ send' = [send EXCEPT ![d] = Tail(send[d])]
      /\ send \in [Clients -> Seq(Events)] /\ written \in [Clients -> Seq(Events)]
  BY DEF WriteEvent, hubVars, HubInv, Buffers, Recorded
<1>2. CASE c # d
  <2>1. written'[c] = written[c]
    BY <1>1, <1>2 DEF WriteEvent
  <2>2. Kept(c)
    BY <1>1, <1>2, <2>1 DEF Kept, Unknown
  <2> QED
    BY <2>2, KeptInOrder
<1>3. CASE c = d /\ c \notin conn
  <2>1. written'[c] = written[c]
    BY <1>3 DEF WriteEvent
  <2>2. Got(c)' /\ c \notin conn' /\ ~ Unknown(c)'
    BY <1>1, <1>3, <2>1 DEF InOrder, Got, Unknown
  <2> QED
    BY <2>2 DEF InOrder
<1>4. CASE c = d /\ c \in conn
  <2>1. written'[c] = Append(written[c], Head(send[c])) /\ send'[c] = Tail(send[c])
    BY <1>1, <1>4 DEF WriteEvent
  <2>2. /\ Len(send[c]) \in Nat \ {0} /\ Head(send[c]) \in Events /\ Head(send[c]) = send[c][1]
        /\ Len(send'[c]) = Len(send[c]) - 1
        /\ \A i \in 1 .. Len(send[c]) - 1 : send'[c][i] = send[c][i + 1]
    BY <1>1, <1>4, <2>1, TailElements
  <2>3. /\ Len(written[c]) \in Nat /\ Len(written'[c]) = Len(written[c]) + 1
        /\ written'[c][Len(written[c]) + 1] = send[c][1]
        /\ \A i \in 1 .. Len(written[c]) : written'[c][i] = written[c][i]
    BY <1>1, <2>1, <2>2, AppendElements
  <2>4. since[c] \in Nat /\ Len(sent) \in Nat
    BY DEF HubInv, Recorded
  <2>5. Got(c) /\ Queued(c) /\ ~ Unknown(c)'
    BY <1>1, <1>4 DEF InOrder, Unknown
  <2>6. /\ since[c] \in Nat /\ Len(sent) \in Nat
        /\ Len(written[c]) \in Nat /\ Len(written'[c]) = Len(written[c]) + 1
        /\ Len(send[c]) \in Nat \ {0} /\ Len(send'[c]) = Len(send[c]) - 1
    BY <2>2, <2>3, <2>4
  <2>7. Got(c)'
    <3>1. send[c][1] = sent[since[c] + Len(written[c]) + 1]
      BY <2>2, <2>5 DEF Queued
    <3>2. since[c] + Len(written'[c]) <= Len(sent)
      BY <2>2, <2>3, <2>4, <2>5 DEF Queued
    <3>3. ASSUME NEW i \in 1 .. Len(written'[c])
          PROVE  written'[c][i] = sent[since[c] + i]
      <4>1. CASE i = Len(written[c]) + 1
        <5>1. since[c] + i = since[c] + Len(written[c]) + 1
          BY <2>3, <2>4, <4>1
        <5> QED
          BY <2>3, <3>1, <4>1, <5>1
      <4>2. CASE i \in 1 .. Len(written[c])
        BY <2>3, <2>5, <4>2 DEF Got
      <4> QED
        BY <2>3, <4>1, <4>2
    <3> QED
      BY <1>1, <3>2, <3>3 DEF Got
  <2>8. Queued(c)'
    <3>1. since[c] + Len(written'[c]) + Len(send'[c]) <= Len(sent)
      BY <2>2, <2>3, <2>4, <2>5 DEF Queued
    <3>2. ASSUME NEW i \in 1 .. Len(send'[c])
          PROVE  send'[c][i] = sent[since[c] + Len(written'[c]) + i]
      <4>1. i + 1 \in 1 .. Len(send[c]) /\ send'[c][i] = send[c][i + 1]
        BY <2>2
      <4>2. send[c][i + 1] = sent[since[c] + Len(written[c]) + (i + 1)]
        BY <2>5, <4>1 DEF Queued
      <4>3. since[c] + Len(written[c]) + (i + 1) = since[c] + Len(written'[c]) + i
        <5>1. i \in Nat
          BY <2>6
        <5>2. PICK a \in Nat, b \in Nat : a = since[c] /\ b = Len(written[c])
          BY <2>6
        <5>3. a + b + (i + 1) = a + (b + 1) + i
          BY <5>1, Regroup
        <5>4. Len(written'[c]) = b + 1
          BY <2>6, <5>2
        <5> QED
          BY <5>2, <5>3, <5>4
      <4> QED
        BY <4>1, <4>2, <4>3
    <3> QED
      BY <1>1, <3>1, <3>2 DEF Queued
  <2>9. ASSUME c \in clients'
        PROVE  Complete(c)'
    <3> DEFINE waiting == IF c \in fanout THEN 1 ELSE 0
    <3>1. since[c] + Len(written[c]) + Len(send[c]) + waiting = Len(sent)
      BY <1>1, <1>4, <2>9 DEF InOrder, Complete
    <3>2. waiting \in Nat
      OBVIOUS
    <3> HIDE DEF waiting
    <3>3. since[c] + Len(written'[c]) + Len(send'[c]) + waiting = Len(sent)
      <4>1. PICK a \in Nat, b \in Nat, k \in Nat \ {0} :
                a = since[c] /\ b = Len(written[c]) /\ k = Len(send[c])
        BY <2>6
      <4>2. a + (b + 1) + (k - 1) + waiting = a + b + k + waiting
        BY <3>2, Regroup
      <4>3. Len(written'[c]) = b + 1 /\ Len(send'[c]) = k - 1
        BY <2>6, <4>1
      <4> QED
        BY <3>1, <4>1, <4>2, <4>3
    <3> QED
      BY <1>1, <3>3 DEF Complete, waiting
  <2> QED
    BY <2>5, <2>7, <2>8, <2>9 DEF InOrder
<1> QED
  BY <1>2, <1>3, <1>4


LEMMA InOrderStep ==
    ASSUME HubInv, OrderInv, Next, NEW c \in Clients
    PROVE  InOrder(c)'
<1>1. InOrder(c)
  BY DEF OrderInv
<1>2. ASSUME UNCHANGED <<sent, since, written, send, clients, closed, fanout>>,
             conn' \subseteq conn
      PROVE  InOrder(c)'
  BY <1>1, <1>2, KeptInOrder DEF Kept, Unknown
<1>3. CASE Notify \/ RunStop
  BY <1>2, <1>3 DEF Notify, RunStop, clientVars, ghostVars
<1>4. CASE RunUnregister
  <2>1. UNCHANGED <<sent, since, written, send, conn, fanout>>
    BY <1>4 DEF RunUnregister
  <2>2. clients' \subseteq clients /\ (Unknown(c)' => Unknown(c))
    BY <1>4 DEF RunUnregister, Drop, Unknown
  <2>3. Kept(c)
    BY <2>1, <2>2 DEF Kept
  <2> QED
    BY <1>1, <2>3, KeptInOrder
<1>5. ASSUME NEW d \in Clients,
             Register(d) \/ Disconnect(d) \/ WriteClose(d) \/ WriteReturns(d)
                \/ ReadFails(d) \/ Unregister(d)
      PROVE  InOrder(c)'
  <2>1. /\ UNCHANGED <<sent, since, written, send, clients, closed, fanout>>
        /\ conn' \subseteq conn
    BY <1>5 DEF Register, Disconnect, WriteClose, WriteReturns, ReadFails, Unregister,
                hubVars, ghostVars
  <2> QED
    BY <1>2, <2>1
<1> QED
  BY <1>1, <1>3, <1>4, <1>5, UpgradeInOrder, RunRegisterInOrder, RunBroadcastInOrder,
     OfferInOrder, WriteEventInOrder DEF Next, Run, Pumps

LEMMA OrderInvStep == HubInv /\ OrderInv /\ [Next]_vars => OrderInv'
<1> SUFFICES ASSUME HubInv, OrderInv, [Next]_vars
             PROVE  OrderInv'
  OBVIOUS
<1>1. CASE Next
  <2>1. \A c \in Clients : InOrder(c)'
    BY <1>1, InOrderStep
  <2>2. fanout' # {} => Len(sent') > 0 /\ current' = sent'[Len(sent')]
    <3>1. CASE RunBroadcast
      <4>1. sent \in Seq(Events) /\ Head(broadcast) \in Events
        BY <3>1, TailElements DEF RunBroadcast, HubInv, Typed, Recorded
      <4>2. sent' = Append(sent, Head(broadcast)) /\ current' = Head(broadcast)
        BY <3>1 DEF RunBroadcast
      <4>3. /\ Len(sent) \in Nat /\ Len(sent') = Len(sent) + 1
            /\ sent'[Len(sent) + 1] = current'
        BY <4>1, <4>2, AppendElements
      <4> QED
        BY <4>3
    <3>2. CASE ~ RunBroadcast
      <4>1. sent' = sent /\ current' = current /\ fanout' \subseteq fanout
        BY <1>1, <3>2 DEF Next, Run, Pumps, Notify, RunStop, RunRegister, RunUnregister, Offer,
           Upgrade, Register, Disconnect, WriteEvent, WriteClose, WriteReturns, ReadFails,
           Unregister, hubVars, ghostVars
      <4>2. fanout' # {} => fanout # {}
        BY <4>1
      <4> QED
        BY <4>1, <4>2 DEF OrderInv
    <3> QED
      BY <3>1, <3>2
  <2> QED
    BY <2>1, <2>2 DEF OrderInv
<1>2. CASE UNCHANGED vars
  BY <1>2 DEF vars, hubVars, clientVars, ghostVars, OrderInv, InOrder, Unknown, Got, Queued,
              Complete
<1> QED
  BY <1>1, <1>2

LEMMA OrderInit == Init => OrderInv
<1> SUFFICES ASSUME Init, NEW c \in Clients
             PROVE  InOrder(c)
  BY DEF Init, OrderInv
<1>1. /\ sent = <<>> /\ since[c] = 0 /\ written[c] = <<>> /\ send[c] = <<>>
      /\ c \notin conn
  BY DEF Init
<1>2. Len(<<>>) = 0 /\ 1 .. 0 = {}
  OBVIOUS
<1>3. Got(c)
  BY <1>1, <1>2 DEF Got
<1> QED
  BY <1>1, <1>3 DEF InOrder

LEMMA AlwaysInOrder == Spec => [](HubInv /\ OrderInv)
<1>1. Init => HubInv /\ OrderInv
  BY HubInit, OrderInit
<1>2. HubInv /\ OrderInv /\ [Next]_vars => HubInv' /\ OrderInv'
  BY HubInvStep, OrderInvStep
<1> QED
  BY <1>1, <1>2, PTL DEF Spec

(* What follows the first n elements of a sequence.                        *)
LEMMA SuffixElements ==
    ASSUME NEW S, NEW s \in Seq(S), NEW n \in Nat, n <= Len(s)
    PROVE  /\ SubSeq(s, n + 1, Len(s)) \in Seq(S)
           /\ Len(SubSeq(s, n + 1, Len(s))) = Len(s) - n
           /\ \A i \in 1 .. Len(s) - n : SubSeq(s, n + 1, Len(s))[i] = s[n + i]
<1> DEFINE due == SubSeq(s, n + 1, Len(s))
<1>1. Len(s) \in Nat /\ n + 1 \in Int
  OBVIOUS
<1>2. \A i \in n + 1 .. Len(s) : s[i] \in S
  BY <1>1
<1>3. /\ due \in Seq(S)
      /\ Len(due) = IF n + 1 <= Len(s) THEN Len(s) - (n + 1) + 1 ELSE 0
      /\ \A i \in 1 .. Len(s) - (n + 1) + 1 : due[i] = s[n + 1 + i - 1]
  BY <1>1, <1>2, SubSeqProperties
<1> HIDE DEF due
<1>4. Len(due) = Len(s) - n
  <2>1. Len(due) = IF n + 1 <= Len(s) THEN Len(s) - (n + 1) + 1 ELSE 0
    BY <1>3
  <2> QED
    BY <1>1, <2>1
<1>5. ASSUME NEW i \in 1 .. Len(s) - n
      PROVE  due[i] = s[n + i]
  <2>1. i \in 1 .. Len(s) - (n + 1) + 1 /\ n + 1 + i - 1 = n + i
    BY <1>1
  <2> QED
    BY <1>3, <2>1
<1> QED
  BY <1>3, <1>4, <1>5 DEF due

(* Two sequences in step with a third, one behind the other: the first is  *)
(* a prefix of what follows in it, and all of it with the second.          *)
LEMMA PrefixOfDue ==
    ASSUME NEW S, NEW s \in Seq(S), NEW n \in Nat, NEW got \in Seq(S),
           n + Len(got) <= Len(s), \A i \in 1 .. Len(got) : got[i] = s[n + i]
    PROVE  IsPrefix(got, SubSeq(s, n + 1, Len(s)))
<1> DEFINE due == SubSeq(s, n + 1, Len(s))
<1>1. Len(s) \in Nat /\ Len(got) \in Nat
  OBVIOUS
<1>2. /\ due \in Seq(S) /\ Len(due) = Len(s) - n
      /\ \A i \in 1 .. Len(s) - n : due[i] = s[n + i]
  BY <1>1, SuffixElements
<1> HIDE DEF due
<1>3. SubSeq(got, 1, Len(got)) = got
  BY SubSeqFull
<1>4. SubSeq(due, 1, Len(got)) = got
  <2>1. Len(got) <= Len(due)
    BY <1>1, <1>2
  <2>2. \A i \in 1 .. Len(got) : due[i] \in S
    BY <1>1, <1>2, <2>1
  <2>3. /\ SubSeq(due, 1, Len(got)) \in Seq(S)
        /\ Len(SubSeq(due, 1, Len(got))) = IF 1 <= Len(got) THEN Len(got) - 1 + 1 ELSE 0
        /\ \A i \in 1 .. Len(got) - 1 + 1 : SubSeq(due, 1, Len(got))[i] = due[1 + i - 1]
    BY <1>1, <2>2, SubSeqProperties
  <2>4. Len(SubSeq(due, 1, Len(got))) = Len(got)
    BY <1>1, <2>3
  <2>5. ASSUME NEW i \in 1 .. Len(got)
        PROVE  SubSeq(due, 1, Len(got))[i] = got[i]
    <3>1. i \in 1 .. Len(got) - 1 + 1 /\ 1 + i - 1 = i /\ i \in 1 .. Len(s) - n
      BY <1>1
    <3>2. SubSeq(due, 1, Len(got))[i] = due[i]
      BY <2>3, <3>1
    <3> QED
      BY <1>2, <3>1, <3>2
  <2> QED
    BY <2>3, <2>4, <2>5, SeqEqual
<1>5. Len(got) <= Len(due)
  BY <1>1, <1>2
<1>6. IsPrefix(got, due)
  BY <1>3, <1>4, <1>5 DEF IsPrefix
<1> QED
  BY <1>6 DEF due

LEMMA AllOfDue ==
    ASSUME NEW S, NEW s \in Seq(S), NEW n \in Nat, NEW got \in Seq(S), NEW rest \in Seq(S),
           n + Len(got) + Len(rest) = Len(s),
           \A i \in 1 .. Len(got) : got[i] = s[n + i],
           \A i \in 1 .. Len(rest) : rest[i] = s[n + Len(got) + i]
    PROVE  got \o rest = SubSeq(s, n + 1, Len(s))
<1> DEFINE due == SubSeq(s, n + 1, Len(s))
           all == got \o rest
<1>1. Len(s) \in Nat /\ Len(got) \in Nat /\ Len(rest) \in Nat
  OBVIOUS
<1>2. /\ due \in Seq(S) /\ Len(due) = Len(s) - n
      /\ \A i \in 1 .. Len(s) - n : due[i] = s[n + i]
  BY <1>1, SuffixElements
<1>3. /\ all \in Seq(S) /\ Len(all) = Len(got) + Len(rest)
      /\ \A i \in 1 .. Len(got) + Len(rest) :
            all[i] = IF i <= Len(got) THEN got[i] ELSE rest[i - Len(got)]
  BY ConcatProperties
<1> HIDE DEF due, all
<1>4. Len(all) = Len(due)
  BY <1>1, <1>2, <1>3
<1>5. ASSUME NEW i \in 1 .. Len(all)
      PROVE  all[i] = due[i]
  <2>1. i \in 1 .. Len(s) - n /\ i \in 1 .. Len(got) + Len(rest)
    BY <1>1, <1>3
  <2>2. due[i] = s[n + i]
    BY <1>2, <2>1
  <2>3. CASE i <= Len(got)
    <3>1. all[i] = got[i] /\ i \in 1 .. Len(got)
      BY <1>1, <1>3, <2>1, <2>3
    <3> QED
      BY <2>2, <3>1
  <2>4. CASE ~ i <= Len(got)
    <3> DEFINE j == i - Len(got)
    <3>1. j \in 1 .. Len(rest) /\ n + Len(got) + j = n + i
      BY <1>1, <2>1, <2>4
    <3>2. all[i] = rest[j]
      BY <1>3, <2>1, <2>4, <3>1
    <3> QED
      BY <2>2, <3>1, <3>2
  <2> QED
    BY <2>3, <2>4
<1>6. all = due
  BY <1>2, <1>3, <1>4, <1>5, SeqEqual
<1> QED
  BY <1>6 DEF all, due

(* Every connection gets the events from its registration on, in order and *)
(* without a gap, and as long as it is registered all of them are written  *)
(* or wait in its channel: a client that is too slow is dropped whole.     *)
THEOREM ConnectionsHaveNoGaps == Spec => []NoGaps
<1>1. HubInv /\ OrderInv => NoGaps
  <2> SUFFICES ASSUME HubInv, OrderInv, NEW c \in Clients
               PROVE  /\ IsPrefix(written[c], SubSeq(sent, since[c] + 1, Len(sent)))
                      /\ c \in conn \cap clients /\ fanout = {} =>
                            written[c] \o send[c] = SubSeq(sent, since[c] + 1, Len(sent))
    BY DEF NoGaps
  <2>1. /\ sent \in Seq(Events) /\ since[c] \in Nat /\ written[c] \in Seq(Events)
        /\ send[c] \in Seq(Events) /\ InOrder(c)
    BY DEF HubInv, Recorded, Buffers, OrderInv
  <2>2. IsPrefix(written[c], SubSeq(sent, since[c] + 1, Len(sent)))
    BY <2>1, PrefixOfDue DEF InOrder, Got
  <2>3. ASSUME c \in conn \cap clients, fanout = {}
        PROVE  written[c] \o send[c] = SubSeq(sent, since[c] + 1, Len(sent))
    <3>1. Got(c) /\ Queued(c) /\ Complete(c) /\ c \notin fanout
      BY <2>1, <2>3 DEF InOrder
    <3>2. since[c] + Len(written[c]) + Len(send[c]) = Len(sent)
      <4>1. since[c] + Len(written[c]) + Len(send[c]) + 0 = Len(sent)
        BY <3>1 DEF Complete
      <4>2. PICK a \in Nat, b \in Nat, k \in Nat :
                a = since[c] /\ b = Len(written[c]) /\ k = Len(send[c])
        BY <2>1
      <4>3. a + b + k + 0 = a + b + k
        OBVIOUS
      <4> QED
        BY <4>1, <4>2, <4>3
    <3>3. \A i \in 1 .. Len(written[c]) : written[c][i] = sent[since[c] + i]
      BY <3>1 DEF Got
    <3>4. \A i \in 1 .. Len(send[c]) : send[c][i] = sent[since[c] + Len(written[c]) + i]
      BY <3>1 DEF Queued
    <3> QED
      BY <2>1, <3>2, <3>3, <3>4, AllOfDue
  <2> QED
    BY <2>2, <2>3
<1> QED
  BY <1>1, AlwaysInOrder, PTL

=============================================================================
