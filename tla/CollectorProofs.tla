--------------------------- MODULE CollectorProofs ---------------------------
(***************************************************************************)
(* What GET /metrics reports, for any number of workers, of recordings and *)
(* any latencies: the theorems about Collector.  The invariants that carry *)
(* them say what a worker has yet to add, and what the counters a snapshot *)
(* has yet to load will at least show.                                     *)
(***************************************************************************)
EXTENDS Collector, FiniteSetTheorems, TLAPS

Outcomes == {"delivered", "failed"}
Count == <<"latencyCount", All>>
Total == <<"totalLatency", All>>

(***************************************************************************)
(* The invariants.                                                         *)
(***************************************************************************)

(* What a worker has to add: to a counter once, one to each but the sum of *)
(* the latencies, and to that before it counts the latency.                *)
Orderly(todo) ==
    /\ \A i, j \in DOMAIN todo : todo[i].counter = todo[j].counter => i = j
    /\ \A i \in DOMAIN todo :
          IF todo[i].counter = Total THEN todo[i].n >= MinLatency ELSE todo[i].n = 1
    /\ \A i, j \in DOMAIN todo :
          todo[i].counter = Count /\ todo[j].counter = Total => j < i

Has(todo, c) == \E i \in DOMAIN todo : todo[i].counter = c

AddsOrderly == \A w \in Workers : Orderly(adds[w])

(* A latency is added before it is counted.                                *)
SumFirst == Owing(Total) \subseteq Owing(Count)

(* It records one delivery or failure at a time, of one channel.           *)
OneChannel ==
    \A what \in Outcomes : \A c, d \in Channels :
        Owing(<<what, c>>) \cap Owing(<<what, d>>) # {} => c = d

(* The workers whose latency is in the sum and not yet counted.            *)
Uncounted == Owing(Count) \ Owing(Total)

LatencyCounted ==
    counters[Total] >= MinLatency * (counters[Count] + Cardinality(Uncounted))

ToLoad(c) == \E i \in DOMAIN loads : loads[i] = c

(* A snapshot loads a counter once, a total before its channels, and the   *)
(* number of latencies before their sum.                                   *)
LoadsOnce ==
    \A i, j \in DOMAIN loads : loads[i] = loads[j] => i = j

ChannelsLast ==
    \A what \in Outcomes : ToLoad(<<what, All>>) =>
        /\ \A ch \in Channels : ToLoad(<<what, ch>>)
        /\ \A i, j \in DOMAIN loads, ch \in Channels :
              loads[i] = <<what, All>> /\ loads[j] = <<what, ch>> => i < j

SumLast ==
    ToLoad(Count) =>
        /\ ToLoad(Total)
        /\ \A i, j \in DOMAIN loads :
              loads[i] = Count /\ loads[j] = Total => i < j

(* What the snapshot shows of a counter: if it has yet to load it, no less *)
(* than the counter's value now.                                           *)
View == [c \in Counters |-> IF ToLoad(c) THEN counters[c] ELSE seen[c]]

SumSeen ==
    ~ ToLoad(Count) => View[Total] >= MinLatency * seen[Count]

ChannelsSeen ==
    \A what \in Outcomes : ~ ToLoad(<<what, All>>) =>
        OverChannels(View, what) + Cardinality(Workers) >= seen[<<what, All>>]

RecordingInv ==
    /\ CollectorTypeOK
    /\ AddsOrderly
    /\ SumFirst
    /\ OneChannel
    /\ CountersBalance
    /\ LatencyCounted

SnapshotInv ==
    /\ LoadsOnce
    /\ ChannelsLast
    /\ SumLast
    /\ SumSeen
    /\ ChannelsSeen


(***************************************************************************)
(* Counters, and the workers that owe to them.                             *)
(***************************************************************************)

LEMMA CounterNames ==
    /\ Count \in Counters /\ Total \in Counters /\ Count # Total
    /\ \A what \in Outcomes :
          /\ <<what, All>> \in Counters
          /\ <<what, All>> # Count /\ <<what, All>> # Total
    /\ \A what \in Outcomes, ch \in Channels :
          /\ <<what, ch>> \in Counters
          /\ <<what, ch>> # Count /\ <<what, ch>> # Total
          /\ ch # All
BY DEF Counters, Count, Total, Outcomes, Channels, All

LEMMA OwingIsFinite ==
    ASSUME NEW c
    PROVE  /\ IsFiniteSet(Owing(c)) /\ Cardinality(Owing(c)) \in Nat
           /\ Owing(c) \subseteq Workers
<1>1. Owing(c) \subseteq Workers
  BY DEF Owing
<1>2. IsFiniteSet(Owing(c))
  BY <1>1, FS_Subset, CollectorAssumption
<1> QED
  BY <1>1, <1>2, FS_CardinalityType

LEMMA TailElements ==
    ASSUME NEW S, NEW s \in Seq(S), s # <<>>
    PROVE  /\ DOMAIN Tail(s) = 1 .. Len(s) - 1
           /\ \A i \in 1 .. Len(s) - 1 : Tail(s)[i] = s[i + 1]
<1>1. Tail(s) \in Seq(S) /\ Len(s) \in Nat \ {0} /\ Len(Tail(s)) = Len(s) - 1
  OBVIOUS
<1>2. DOMAIN Tail(s) = 1 .. Len(s) - 1
  BY <1>1
<1> QED
  BY <1>1, <1>2

(* A worker that adds owed to that counter, and no longer does.            *)
LEMMA AddStep ==
    ASSUME RecordingInv, NEW w \in Workers, Add(w)
    PROVE  \E a \in Adds :
              /\ a = adds[w][1] /\ 1 \in DOMAIN adds[w]
              /\ counters' = [counters EXCEPT ![a.counter] = @ + a.n]
              /\ w \in Owing(a.counter)
              /\ Owing(a.counter)' = Owing(a.counter) \ {w}
              /\ \A d : d # a.counter => Owing(d)' = Owing(d)
              /\ a.counter # Total => a.n = 1
              /\ a.counter = Total => a.n >= MinLatency
<1>1. /\ adds \in [Workers -> Seq(Adds)] /\ adds[w] \in Seq(Adds) /\ adds[w] # <<>>
      /\ adds[w][1] \in Adds /\ Head(adds[w]) = adds[w][1]
  BY DEF RecordingInv, CollectorTypeOK, Add
<1>2. PICK s \in Seq(Adds) : s = adds[w]
  BY <1>1
<1>3. PICK a \in Adds : a = s[1]
  BY <1>1, <1>2
<1>4. /\ adds' = [adds EXCEPT ![w] = Tail(s)]
      /\ counters' = [counters EXCEPT ![a.counter] = @ + a.n]
  BY <1>1, <1>2, <1>3 DEF Add
<1>5. /\ DOMAIN s = 1 .. Len(s) /\ Len(s) \in Nat /\ 1 \in 1 .. Len(s)
      /\ DOMAIN Tail(s) = 1 .. Len(s) - 1
      /\ \A i \in 1 .. Len(s) - 1 : Tail(s)[i] = s[i + 1]
  BY <1>1, <1>2, TailElements
<1>6. adds'[w] = Tail(s) /\ \A v \in Workers \ {w} : adds'[v] = adds[v]
  BY <1>1, <1>4
<1>7. ASSUME NEW d
      PROVE  Owing(d)' = IF d = a.counter THEN Owing(d) \ {w} ELSE Owing(d)
  <2>1. w \in Owing(d)' <=> \E i \in 1 .. Len(s) - 1 : s[i + 1].counter = d
    BY <1>5, <1>6 DEF Owing
  <2>2. w \in Owing(d) <=> \E i \in 1 .. Len(s) : s[i].counter = d
    BY <1>2, <1>5 DEF Owing
  <2>3. \A i \in 1 .. Len(s) : s[i].counter = a.counter => i = 1
    BY <1>2, <1>3, <1>5 DEF RecordingInv, AddsOrderly, Orderly
  <2>4. w \in Owing(d)' => w \in Owing(d) /\ d # a.counter
    <3>1. SUFFICES ASSUME NEW i \in 1 .. Len(s) - 1, s[i + 1].counter = d
                   PROVE  w \in Owing(d) /\ d # a.counter
      BY <2>1
    <3>2. i + 1 \in 1 .. Len(s) /\ i + 1 # 1
      BY <1>5
    <3> QED
      BY <2>2, <2>3, <3>1, <3>2
  <2>5. w \in Owing(d) /\ d # a.counter => w \in Owing(d)'
    <3>1. SUFFICES ASSUME NEW i \in 1 .. Len(s), s[i].counter = d, d # a.counter
                   PROVE  w \in Owing(d)'
      BY <2>2
    <3>2. i # 1
      BY <1>3, <3>1
    <3>3. i - 1 \in 1 .. Len(s) - 1 /\ (i - 1) + 1 = i
      BY <1>5, <3>2
    <3> QED
      BY <2>1, <3>1, <3>3
  <2>6. \A v \in Workers \ {w} : v \in Owing(d)' <=> v \in Owing(d)
    BY <1>6 DEF Owing
  <2>7. Owing(d) \subseteq Workers /\ Owing(d)' \subseteq Workers
    BY DEF Owing
  <2>8. CASE d = a.counter
    <3>1. Owing(d)' = Owing(d) \ {w}
      BY <2>4, <2>6, <2>7, <2>8
    <3> QED
      BY <2>8, <3>1
  <2>9. CASE d # a.counter
    <3>1. Owing(d)' = Owing(d)
      BY <2>4, <2>5, <2>6, <2>7, <2>9
    <3> QED
      BY <2>9, <3>1
  <2> QED
    BY <2>8, <2>9
<1>8. w \in Owing(a.counter)
  BY <1>2, <1>3, <1>5 DEF Owing
<1>9. /\ a.counter # Total => a.n = 1
      /\ a.counter = Total => a.n >= MinLatency
  BY <1>2, <1>3, <1>5 DEF RecordingInv, AddsOrderly, Orderly
<1>10. /\ Owing(a.counter)' = Owing(a.counter) \ {w}
       /\ \A d : d # a.counter => Owing(d)' = Owing(d)
  BY <1>7
<1>11. a = adds[w][1] /\ 1 \in DOMAIN adds[w]
  BY <1>2, <1>3, <1>5
<1> QED
  BY <1>4, <1>8, <1>9, <1>10, <1>11

(* A worker that begins to record owed to no counter, and now owes to      *)
(* those of the recording.                                                 *)
LEMMA RecordStep ==
    ASSUME CollectorTypeOK, NEW w \in Workers, NEW todo \in Seq(Adds), Record(w, todo)
    PROVE  /\ \A d : w \notin Owing(d)
           /\ \A d : Owing(d)' = IF Has(todo, d) THEN Owing(d) \cup {w} ELSE Owing(d)
           /\ adds'[w] = todo /\ \A v \in Workers \ {w} : adds'[v] = adds[v]
           /\ counters' = counters
<1>1. adds \in [Workers -> Seq(Adds)] /\ adds[w] = <<>>
  BY DEF CollectorTypeOK, Record
<1>2. adds'[w] = todo /\ \A v \in Workers \ {w} : adds'[v] = adds[v]
  BY <1>1 DEF Record
<1>3. \A d : w \notin Owing(d)
  BY <1>1 DEF Owing
<1>4. ASSUME NEW d
      PROVE  /\ w \in Owing(d)' <=> Has(todo, d)
             /\ \A v \in Workers \ {w} : v \in Owing(d)' <=> v \in Owing(d)
             /\ Owing(d) \subseteq Workers /\ Owing(d)' \subseteq Workers
  BY <1>2 DEF Owing, Has
<1>5. ASSUME NEW d
      PROVE  Owing(d)' = IF Has(todo, d) THEN Owing(d) \cup {w} ELSE Owing(d)
  <2>1. CASE Has(todo, d)
    <3>1. Owing(d)' = Owing(d) \cup {w}
      BY <1>4, <2>1
    <3> QED
      BY <2>1, <3>1
  <2>2. CASE ~ Has(todo, d)
    <3>1. w \notin Owing(d) /\ w \notin Owing(d)'
      BY <1>3, <1>4, <2>2
    <3>2. /\ \A v \in Workers \ {w} : v \in Owing(d)' <=> v \in Owing(d)
          /\ Owing(d) \subseteq Workers /\ Owing(d)' \subseteq Workers
      BY <1>4
    <3>3. Owing(d)' = Owing(d)
      BY <3>1, <3>2
    <3> QED
      BY <2>2, <3>3
  <2> QED
    BY <2>1, <2>2
<1> QED
  BY <1>2, <1>3, <1>5 DEF Record


(***************************************************************************)
(* The recordings.                                                         *)
(***************************************************************************)

LEMMA DeliveryIsOrderly ==
    ASSUME NEW ch \in Channels, NEW latency \in MinLatency .. MaxLatency
    PROVE  /\ DeliveryAdds(ch, latency) \in Seq(Adds)
           /\ Orderly(DeliveryAdds(ch, latency))
           /\ \A c : Has(DeliveryAdds(ch, latency), c) <=>
                        c \in {<<"delivered", All>>, Total, Count, <<"delivered", ch>>}
<1> DEFINE todo == DeliveryAdds(ch, latency)
<1>1. latency \in Nat /\ latency >= MinLatency
  BY CollectorAssumption
<1>2. /\ [counter |-> <<"delivered", All>>, n |-> 1] \in Adds
      /\ [counter |-> Total, n |-> latency] \in Adds
      /\ [counter |-> Count, n |-> 1] \in Adds
      /\ [counter |-> <<"delivered", ch>>, n |-> 1] \in Adds
  BY <1>1, CounterNames DEF Adds, Outcomes
<1>3. todo = <<[counter |-> <<"delivered", All>>, n |-> 1],
               [counter |-> Total, n |-> latency],
               [counter |-> Count, n |-> 1],
               [counter |-> <<"delivered", ch>>, n |-> 1]>>
  BY DEF DeliveryAdds, One, Total, Count
<1>4. todo \in Seq(Adds)
  BY <1>2, <1>3
<1>5. /\ DOMAIN todo = {1, 2, 3, 4}
      /\ todo[1].counter = <<"delivered", All>> /\ todo[1].n = 1
      /\ todo[2].counter = Total /\ todo[2].n = latency
      /\ todo[3].counter = Count /\ todo[3].n = 1
      /\ todo[4].counter = <<"delivered", ch>> /\ todo[4].n = 1
  BY <1>3
<1>6. /\ <<"delivered", All>> # Total /\ <<"delivered", All>> # Count
      /\ <<"delivered", ch>> # Total /\ <<"delivered", ch>> # Count
      /\ <<"delivered", All>> # <<"delivered", ch>> /\ Count # Total
  BY CounterNames DEF Outcomes
<1> HIDE DEF todo
<1>7. Orderly(todo)
  <2>1. \A i, j \in DOMAIN todo : todo[i].counter = todo[j].counter => i = j
    BY <1>5, <1>6
  <2>2. \A i \in DOMAIN todo :
            IF todo[i].counter = Total THEN todo[i].n >= MinLatency ELSE todo[i].n = 1
    BY <1>1, <1>5, <1>6
  <2>3. \A i, j \in DOMAIN todo :
            todo[i].counter = Count /\ todo[j].counter = Total => j < i
    BY <1>5, <1>6
  <2> QED
    BY <2>1, <2>2, <2>3 DEF Orderly
<1>8. ASSUME NEW c
      PROVE  Has(todo, c) <=> c \in {<<"delivered", All>>, Total, Count, <<"delivered", ch>>}
  BY <1>5 DEF Has
<1> QED
  BY <1>4, <1>7, <1>8 DEF todo

LEMMA FailureIsOrderly ==
    ASSUME NEW ch \in Channels
    PROVE  /\ FailureAdds(ch) \in Seq(Adds)
           /\ Orderly(FailureAdds(ch))
           /\ \A c : Has(FailureAdds(ch), c) <=>
                        c \in {<<"failed", All>>, <<"failed", ch>>}
<1> DEFINE todo == FailureAdds(ch)
<1>1. /\ [counter |-> <<"failed", All>>, n |-> 1] \in Adds
      /\ [counter |-> <<"failed", ch>>, n |-> 1] \in Adds
  BY CounterNames DEF Adds, Outcomes
<1>2. todo = <<[counter |-> <<"failed", All>>, n |-> 1],
               [counter |-> <<"failed", ch>>, n |-> 1]>>
  BY DEF FailureAdds, One
<1>3. todo \in Seq(Adds)
  BY <1>1, <1>2
<1>4. /\ DOMAIN todo = {1, 2}
      /\ todo[1].counter = <<"failed", All>> /\ todo[1].n = 1
      /\ todo[2].counter = <<"failed", ch>> /\ todo[2].n = 1
  BY <1>2
<1>5. /\ <<"failed", All>> # Total /\ <<"failed", All>> # Count
      /\ <<"failed", ch>> # Total /\ <<"failed", ch>> # Count
      /\ <<"failed", All>> # <<"failed", ch>>
  BY CounterNames DEF Outcomes
<1> HIDE DEF todo
<1>6. Orderly(todo)
  BY <1>4, <1>5 DEF Orderly
<1>7. ASSUME NEW c
      PROVE  Has(todo, c) <=> c \in {<<"failed", All>>, <<"failed", ch>>}
  BY <1>4 DEF Has
<1> QED
  BY <1>3, <1>6, <1>7 DEF todo

LEMMA RestIsOrderly ==
    ASSUME NEW todo \in Seq(Adds), todo # <<>>, Orderly(todo)
    PROVE  Orderly(Tail(todo)) /\ Tail(todo) \in Seq(Adds)
<1>1. /\ DOMAIN Tail(todo) = 1 .. Len(todo) - 1 /\ Len(todo) \in Nat
      /\ \A i \in 1 .. Len(todo) - 1 : Tail(todo)[i] = todo[i + 1]
      /\ Tail(todo) \in Seq(Adds)
  BY TailElements
<1>2. \A i \in DOMAIN Tail(todo) : i \in Int /\ i + 1 \in DOMAIN todo
  BY <1>1
<1> QED
  BY <1>1, <1>2 DEF Orderly


LEMMA EventualValue ==
    ASSUME CollectorTypeOK, NEW c \in Counters
    PROVE  /\ Eventual[c] = counters[c] + Cardinality(Owing(c))
           /\ counters[c] \in Nat /\ Cardinality(Owing(c)) \in Nat
BY OwingIsFinite DEF Eventual, CollectorTypeOK

(* A counter of recordings comes to the same before and after an add.      *)
LEMMA EventualAfterAdd ==
    ASSUME RecordingInv, CollectorTypeOK', NEW w \in Workers, Add(w),
           NEW c \in Counters, c # Total
    PROVE  Eventual'[c] = Eventual[c]
<1>1. PICK a \in Adds :
          /\ counters' = [counters EXCEPT ![a.counter] = @ + a.n]
          /\ w \in Owing(a.counter)
          /\ Owing(a.counter)' = Owing(a.counter) \ {w}
          /\ \A d : d # a.counter => Owing(d)' = Owing(d)
          /\ a.counter # Total => a.n = 1
  BY AddStep
<1>2. counters \in [Counters -> Nat]
  BY DEF RecordingInv, CollectorTypeOK
<1>3. Eventual[c] = counters[c] + Cardinality(Owing(c))
  BY EventualValue DEF RecordingInv
<1>4. Eventual'[c] = counters'[c] + Cardinality(Owing(c)')
  BY DEF Eventual
<1>5. CASE c # a.counter
  <2>1. counters'[c] = counters[c]
    BY <1>1, <1>2, <1>5
  <2> QED
    BY <1>1, <1>3, <1>4, <1>5, <2>1
<1>6. CASE c = a.counter
  <2>1. counters'[c] = counters[c] + 1 /\ counters[c] \in Nat
    BY <1>1, <1>2, <1>6
  <2>2. Cardinality(Owing(c) \ {w}) = Cardinality(Owing(c)) - 1
    BY <1>1, <1>6, OwingIsFinite, FS_RemoveElement
  <2>3. Cardinality(Owing(c)) \in Nat /\ Owing(c)' = Owing(c) \ {w}
    BY <1>1, <1>6, OwingIsFinite
  <2> QED
    BY <1>3, <1>4, <2>1, <2>2, <2>3
<1> QED
  BY <1>5, <1>6

(* A recording counts at once in what its counters come to.                *)
LEMMA EventualAfterRecord ==
    ASSUME CollectorTypeOK, NEW w \in Workers, NEW todo \in Seq(Adds), Record(w, todo),
           NEW c \in Counters
    PROVE  Eventual'[c] = IF Has(todo, c) THEN Eventual[c] + 1 ELSE Eventual[c]
<1>1. Eventual[c] = counters[c] + Cardinality(Owing(c)) /\ counters[c] \in Nat
  BY EventualValue
<1>2. Eventual'[c] = counters[c] + Cardinality(Owing(c)')
  BY RecordStep DEF Eventual
<1>3. CASE Has(todo, c)
  <2>1. Owing(c)' = Owing(c) \cup {w} /\ w \notin Owing(c)
    BY <1>3, RecordStep
  <2>2. Cardinality(Owing(c) \cup {w}) = Cardinality(Owing(c)) + 1
    BY <2>1, OwingIsFinite, FS_AddElement
  <2>3. Cardinality(Owing(c)) \in Nat
    BY OwingIsFinite
  <2> QED
    BY <1>1, <1>2, <1>3, <2>1, <2>2, <2>3
<1>4. CASE ~ Has(todo, c)
  <2>1. Owing(c)' = Owing(c)
    BY <1>4, RecordStep
  <2> QED
    BY <1>1, <1>2, <1>4, <2>1
<1> QED
  BY <1>3, <1>4

LEMMA TypeAfterAdd ==
    ASSUME RecordingInv, NEW w \in Workers, Add(w)
    PROVE  CollectorTypeOK'
<1>1. PICK a \in Adds :
          a = adds[w][1] /\ counters' = [counters EXCEPT ![a.counter] = @ + a.n]
  BY AddStep
<1>2. CollectorTypeOK
  BY DEF RecordingInv
<1>3. counters' \in [Counters -> Nat]
  BY <1>1, <1>2 DEF CollectorTypeOK, Adds
<1>4. adds' \in [Workers -> Seq(Adds)]
  BY <1>2 DEF CollectorTypeOK, Add
<1> QED
  BY <1>2, <1>3, <1>4 DEF CollectorTypeOK, Add

LEMMA TypeAfterRecord ==
    ASSUME CollectorTypeOK, NEW w \in Workers, NEW todo \in Seq(Adds), Record(w, todo)
    PROVE  CollectorTypeOK'
BY DEF CollectorTypeOK, Record


LEMMA BalanceAfterAdd ==
    ASSUME RecordingInv, NEW w \in Workers, Add(w)
    PROVE  CountersBalance'
<1>1. \A c \in Counters : c # Total => Eventual'[c] = Eventual[c]
  BY EventualAfterAdd, TypeAfterAdd
<1>2. CountersBalance
  BY DEF RecordingInv
<1>3. ASSUME NEW what \in Outcomes
      PROVE  Eventual'[<<what, All>>] = OverChannels(Eventual', what)
  BY <1>1, <1>2, <1>3, CounterNames DEF CountersBalance, OverChannels, Outcomes, Channels
<1>4. Eventual'[Count] = Eventual'[<<"delivered", All>>]
  BY <1>1, <1>2, CounterNames DEF CountersBalance, Outcomes, Count
<1> QED
  BY <1>3, <1>4 DEF CountersBalance, Outcomes, Count

LEMMA BalanceAfterDelivery ==
    ASSUME RecordingInv, NEW w \in Workers, NEW ch \in Channels,
           NEW latency \in MinLatency .. MaxLatency, RecordDelivered(w, ch, latency)
    PROVE  CountersBalance'
<1> DEFINE todo == DeliveryAdds(ch, latency)
<1>1. todo \in Seq(Adds) /\ Record(w, todo) /\ CollectorTypeOK
  BY DeliveryIsOrderly DEF RecordDelivered, RecordingInv
<1>2. \A c : Has(todo, c) <=> c \in {<<"delivered", All>>, Total, Count, <<"delivered", ch>>}
  BY DeliveryIsOrderly
<1> HIDE DEF todo
<1>3. \A c \in Counters : Eventual'[c] = IF Has(todo, c) THEN Eventual[c] + 1 ELSE Eventual[c]
  BY <1>1, EventualAfterRecord
<1>4. \A c \in Counters : Eventual[c] \in Nat
  BY <1>1, EventualValue
<1>5. CountersBalance
  BY DEF RecordingInv
<1>6. Eventual'[<<"failed", All>>] = OverChannels(Eventual', "failed")
  <2>1. \A d \in {All} \cup Channels : Eventual'[<<"failed", d>>] = Eventual[<<"failed", d>>]
    BY <1>2, <1>3, CounterNames DEF Outcomes, Count, Total
  <2> QED
    BY <1>5, <2>1 DEF CountersBalance, OverChannels, Channels
<1>7. Eventual'[<<"delivered", All>>] = OverChannels(Eventual', "delivered")
  <2>1. Eventual'[<<"delivered", All>>] = Eventual[<<"delivered", All>>] + 1
    BY <1>2, <1>3, CounterNames DEF Outcomes
  <2>2. \A d \in Channels : Eventual'[<<"delivered", d>>] =
            IF d = ch THEN Eventual[<<"delivered", d>>] + 1 ELSE Eventual[<<"delivered", d>>]
    BY <1>2, <1>3, CounterNames DEF Outcomes
  <2>3. \A d \in Channels : Eventual[<<"delivered", d>>] \in Nat
    BY <1>4, CounterNames DEF Outcomes
  <2>4. OverChannels(Eventual', "delivered") = OverChannels(Eventual, "delivered") + 1
    BY <2>2, <2>3 DEF OverChannels, Channels
  <2> QED
    BY <1>5, <2>1, <2>4 DEF CountersBalance
<1>8. Eventual'[Count] = Eventual'[<<"delivered", All>>]
  BY <1>2, <1>3, <1>5, CounterNames DEF CountersBalance, Outcomes, Count
<1> QED
  BY <1>6, <1>7, <1>8 DEF CountersBalance, Count

LEMMA BalanceAfterFailure ==
    ASSUME RecordingInv, NEW w \in Workers, NEW ch \in Channels, RecordFailed(w, ch)
    PROVE  CountersBalance'
<1> DEFINE todo == FailureAdds(ch)
<1>1. todo \in Seq(Adds) /\ Record(w, todo) /\ CollectorTypeOK
  BY FailureIsOrderly DEF RecordFailed, RecordingInv
<1>2. \A c : Has(todo, c) <=> c \in {<<"failed", All>>, <<"failed", ch>>}
  BY FailureIsOrderly
<1> HIDE DEF todo
<1>3. \A c \in Counters : Eventual'[c] = IF Has(todo, c) THEN Eventual[c] + 1 ELSE Eventual[c]
  BY <1>1, EventualAfterRecord
<1>4. CountersBalance
  BY DEF RecordingInv
<1>5. Eventual'[<<"delivered", All>>] = OverChannels(Eventual', "delivered")
  <2>1. \A d \in {All} \cup Channels :
            Eventual'[<<"delivered", d>>] = Eventual[<<"delivered", d>>]
    BY <1>2, <1>3, CounterNames DEF Outcomes
  <2> QED
    BY <1>4, <2>1 DEF CountersBalance, OverChannels, Channels
<1>6. Eventual'[<<"failed", All>>] = OverChannels(Eventual', "failed")
  <2>1. Eventual'[<<"failed", All>>] = Eventual[<<"failed", All>>] + 1
    BY <1>2, <1>3, CounterNames DEF Outcomes
  <2>2. \A d \in Channels : Eventual'[<<"failed", d>>] =
            IF d = ch THEN Eventual[<<"failed", d>>] + 1 ELSE Eventual[<<"failed", d>>]
    BY <1>2, <1>3, CounterNames DEF Outcomes
  <2>3. \A d \in Channels : Eventual[<<"failed", d>>] \in Nat
    <3>1. \A c \in Counters : Eventual[c] \in Nat
      BY <1>1, EventualValue
    <3> QED
      BY <3>1, CounterNames DEF Outcomes
  <2>4. OverChannels(Eventual', "failed") = OverChannels(Eventual, "failed") + 1
    BY <2>2, <2>3 DEF OverChannels, Channels
  <2> QED
    BY <1>4, <2>1, <2>4 DEF CountersBalance
<1>7. Eventual'[Count] = Eventual'[<<"delivered", All>>]
  BY <1>2, <1>3, <1>4, CounterNames DEF CountersBalance, Outcomes, Count
<1> QED
  BY <1>5, <1>6, <1>7 DEF CountersBalance, Count


LEMMA TimesNext ==
    ASSUME NEW a \in Nat, NEW b \in Nat
    PROVE  a * b \in Nat /\ a * (b + 1) = a * b + a /\ a * 0 = 0
OBVIOUS

LEMMA LatencyAfterAdd ==
    ASSUME RecordingInv, NEW w \in Workers, Add(w)
    PROVE  LatencyCounted'
<1>1. PICK a \in Adds :
          /\ a = adds[w][1] /\ 1 \in DOMAIN adds[w]
          /\ counters' = [counters EXCEPT ![a.counter] = @ + a.n]
          /\ w \in Owing(a.counter)
          /\ Owing(a.counter)' = Owing(a.counter) \ {w}
          /\ \A d : d # a.counter => Owing(d)' = Owing(d)
          /\ a.counter # Total => a.n = 1
          /\ a.counter = Total => a.n >= MinLatency
  BY AddStep
<1>2. /\ counters \in [Counters -> Nat] /\ MinLatency \in Nat
      /\ counters[Total] \in Nat /\ counters[Count] \in Nat /\ a.n \in Nat
  BY CollectorAssumption, CounterNames DEF RecordingInv, CollectorTypeOK, Adds
<1>3. /\ IsFiniteSet(Uncounted) /\ Cardinality(Uncounted) \in Nat
  BY OwingIsFinite, FS_Difference, FS_CardinalityType DEF Uncounted
<1>4. counters[Total] >= MinLatency * (counters[Count] + Cardinality(Uncounted))
  BY DEF RecordingInv, LatencyCounted
<1>5. Owing(Total) \subseteq Owing(Count)
  BY DEF RecordingInv, SumFirst
<1>6. SUFFICES counters'[Total] >= MinLatency * (counters'[Count] + Cardinality(Uncounted'))
  BY DEF LatencyCounted
<1>7. CASE a.counter = Total
  <2>1. Uncounted' = Uncounted \cup {w} /\ w \notin Uncounted
    BY <1>1, <1>5, <1>7, CounterNames DEF Uncounted
  <2>2. Cardinality(Uncounted') = Cardinality(Uncounted) + 1
    BY <1>3, <2>1, FS_AddElement
  <2>3. counters'[Total] = counters[Total] + a.n /\ counters'[Count] = counters[Count]
    BY <1>1, <1>2, <1>7, CounterNames
  <2>4. PICK n \in Nat : n = counters[Count] + Cardinality(Uncounted)
    BY <1>2, <1>3
  <2>5. counters'[Count] + Cardinality(Uncounted') = n + 1
    BY <1>2, <1>3, <2>2, <2>3, <2>4
  <2>6. MinLatency * (n + 1) = MinLatency * n + MinLatency /\ MinLatency * n \in Nat
    BY <1>2, TimesNext
  <2>7. counters[Total] + a.n >= MinLatency * n + MinLatency
    <3>1. counters[Total] >= MinLatency * n /\ a.n >= MinLatency
      BY <1>1, <1>4, <1>7, <2>4
    <3> QED
      BY <1>2, <2>6, <3>1
  <2> QED
    BY <2>3, <2>5, <2>6, <2>7
<1>8. CASE a.counter = Count
  <2>1. w \notin Owing(Total)
    <3>1. SUFFICES ASSUME NEW j \in DOMAIN adds[w], adds[w][j].counter = Total
                   PROVE  FALSE
      BY DEF Owing
    <3>2. j < 1
      BY <1>1, <1>8, <3>1 DEF RecordingInv, AddsOrderly, Orderly
    <3> QED
      BY <3>1, <3>2 DEF RecordingInv, CollectorTypeOK
  <2>2. Uncounted' = Uncounted \ {w} /\ w \in Uncounted
    BY <1>1, <1>8, <2>1, CounterNames DEF Uncounted
  <2>3. Cardinality(Uncounted') = Cardinality(Uncounted) - 1
    BY <1>3, <2>2, FS_RemoveElement
  <2>4. counters'[Total] = counters[Total] /\ counters'[Count] = counters[Count] + 1
    BY <1>1, <1>2, <1>8, CounterNames
  <2> QED
    BY <1>2, <1>3, <1>4, <2>3, <2>4
<1>9. CASE a.counter # Total /\ a.counter # Count
  <2>1. Uncounted' = Uncounted
    BY <1>1, <1>9 DEF Uncounted
  <2>2. counters'[Total] = counters[Total] /\ counters'[Count] = counters[Count]
    BY <1>1, <1>2, <1>9, CounterNames
  <2> QED
    BY <1>4, <2>1, <2>2
<1> QED
  BY <1>7, <1>8, <1>9

(* A recording's latency is counted after it is in the sum, or never was.  *)
LEMMA LatencyAfterRecord ==
    ASSUME RecordingInv, NEW w \in Workers, NEW todo \in Seq(Adds), Record(w, todo),
           Has(todo, Total) <=> Has(todo, Count)
    PROVE  LatencyCounted' /\ SumFirst'
<1>1. /\ w \notin Owing(Count) /\ w \notin Owing(Total)
      /\ Owing(Count)' = IF Has(todo, Count) THEN Owing(Count) \cup {w} ELSE Owing(Count)
      /\ Owing(Total)' = IF Has(todo, Total) THEN Owing(Total) \cup {w} ELSE Owing(Total)
      /\ counters' = counters
  BY RecordStep DEF RecordingInv
<1>2. Uncounted' = Uncounted
  <2>1. CASE Has(todo, Count)
    BY <1>1, <2>1 DEF Uncounted
  <2>2. CASE ~ Has(todo, Count)
    BY <1>1, <2>2 DEF Uncounted
  <2> QED
    BY <2>1, <2>2
<1>3. LatencyCounted'
  BY <1>1, <1>2 DEF RecordingInv, LatencyCounted
<1>4. SumFirst'
  <2>1. Owing(Total) \subseteq Owing(Count)
    BY DEF RecordingInv, SumFirst
  <2>2. CASE Has(todo, Count)
    BY <1>1, <2>1, <2>2 DEF SumFirst
  <2>3. CASE ~ Has(todo, Count)
    BY <1>1, <2>1, <2>3 DEF SumFirst
  <2> QED
    BY <2>2, <2>3
<1> QED
  BY <1>3, <1>4

LEMMA OrderAfterAdd ==
    ASSUME RecordingInv, NEW w \in Workers, Add(w)
    PROVE  AddsOrderly' /\ SumFirst' /\ OneChannel'
<1>1. PICK a \in Adds :
          /\ a = adds[w][1] /\ 1 \in DOMAIN adds[w]
          /\ w \in Owing(a.counter)
          /\ Owing(a.counter)' = Owing(a.counter) \ {w}
          /\ \A d : d # a.counter => Owing(d)' = Owing(d)
  BY AddStep
<1>2. AddsOrderly'
  <2>1. /\ adds \in [Workers -> Seq(Adds)] /\ adds[w] \in Seq(Adds) /\ adds[w] # <<>>
        /\ adds' = [adds EXCEPT ![w] = Tail(adds[w])]
    BY DEF RecordingInv, CollectorTypeOK, Add
  <2>2. \A v \in Workers : Orderly(adds[v])
    BY DEF RecordingInv, AddsOrderly
  <2>3. Orderly(Tail(adds[w]))
    BY <2>1, <2>2, RestIsOrderly
  <2>4. ASSUME NEW v \in Workers
        PROVE  Orderly(adds'[v])
    <3>1. CASE v = w
      BY <2>1, <2>3, <3>1
    <3>2. CASE v # w
      BY <2>1, <2>2, <3>2
    <3> QED
      BY <3>1, <3>2
  <2> QED
    BY <2>4 DEF AddsOrderly, Orderly
<1>3. SumFirst'
  <2>1. Owing(Total) \subseteq Owing(Count)
    BY DEF RecordingInv, SumFirst
  <2>2. CASE a.counter = Count
    <3>1. w \notin Owing(Total)
      <4>1. SUFFICES ASSUME NEW j \in DOMAIN adds[w], adds[w][j].counter = Total
                     PROVE  FALSE
        BY DEF Owing
      <4>2. j < 1
        BY <1>1, <2>2, <4>1 DEF RecordingInv, AddsOrderly, Orderly
      <4> QED
        BY <4>1, <4>2 DEF RecordingInv, CollectorTypeOK
    <3> QED
      BY <1>1, <2>1, <2>2, <3>1, CounterNames DEF SumFirst
  <2>3. CASE a.counter # Count
    <3>1. Owing(Total)' \subseteq Owing(Total) /\ Owing(Count)' = Owing(Count)
      BY <1>1, <2>3
    <3> QED
      BY <2>1, <3>1 DEF SumFirst
  <2> QED
    BY <2>2, <2>3
<1>4. OneChannel'
  <2>1. \A d : Owing(d)' \subseteq Owing(d)
    BY <1>1
  <2> QED
    BY <2>1 DEF RecordingInv, OneChannel
<1> QED
  BY <1>2, <1>3, <1>4

LEMMA OrderAfterRecord ==
    ASSUME RecordingInv, NEW w \in Workers, NEW todo \in Seq(Adds), Record(w, todo),
           Orderly(todo),
           \A what \in Outcomes : \A c, d \in Channels :
              Has(todo, <<what, c>>) /\ Has(todo, <<what, d>>) => c = d
    PROVE  AddsOrderly' /\ OneChannel'
<1>1. /\ \A d : w \notin Owing(d)
      /\ \A d : Owing(d)' = IF Has(todo, d) THEN Owing(d) \cup {w} ELSE Owing(d)
      /\ adds'[w] = todo /\ \A v \in Workers \ {w} : adds'[v] = adds[v]
  BY RecordStep DEF RecordingInv
<1>2. AddsOrderly'
  <2>1. \A v \in Workers : Orderly(adds[v])
    BY DEF RecordingInv, AddsOrderly
  <2>2. ASSUME NEW v \in Workers
        PROVE  Orderly(adds'[v])
    BY <1>1, <2>1
  <2> QED
    BY <2>2 DEF AddsOrderly, Orderly
<1>3. OneChannel'
  <2>1. SUFFICES ASSUME NEW what \in Outcomes, NEW c \in Channels, NEW d \in Channels,
                        NEW v, v \in Owing(<<what, c>>)', v \in Owing(<<what, d>>)'
                 PROVE  c = d
    BY DEF OneChannel
  <2>2. CASE v = w
    <3>1. Has(todo, <<what, c>>) /\ Has(todo, <<what, d>>)
      BY <1>1, <2>1, <2>2
    <3> QED
      BY <3>1
  <2>3. CASE v # w
    <3>1. v \in Owing(<<what, c>>) /\ v \in Owing(<<what, d>>)
      BY <1>1, <2>1, <2>3
    <3> QED
      BY <3>1 DEF RecordingInv, OneChannel
  <2> QED
    BY <2>2, <2>3
<1> QED
  BY <1>2, <1>3


LEMMA RecordingInit == Init => RecordingInv
<1> SUFFICES ASSUME Init
             PROVE  RecordingInv
  OBVIOUS
<1>1. CollectorTypeOK
  BY DEF Init, CollectorTypeOK
<1>2. \A w \in Workers : adds[w] = <<>>
  BY DEF Init
<1>3. AddsOrderly
  BY <1>2 DEF AddsOrderly, Orderly
<1>4. \A c : Owing(c) = {}
  BY <1>2 DEF Owing
<1>5. SumFirst /\ OneChannel /\ Uncounted = {}
  BY <1>4 DEF SumFirst, OneChannel, Uncounted
<1>6. \A c \in Counters : Eventual[c] = 0
  <2>1. ASSUME NEW c \in Counters
        PROVE  Eventual[c] = 0
    <3>1. counters[c] = 0 /\ Cardinality(Owing(c)) = 0
      BY <1>4, FS_EmptySet DEF Init
    <3> QED
      BY <3>1 DEF Eventual
  <2> QED
    BY <2>1
<1>7. CountersBalance
  BY <1>6, CounterNames DEF CountersBalance, OverChannels, Outcomes, Channels, Count
<1>8. LatencyCounted
  <2>1. counters[Total] = 0 /\ counters[Count] = 0 /\ Cardinality(Uncounted) = 0
    BY <1>5, FS_EmptySet, CounterNames DEF Init
  <2> QED
    BY <2>1, TimesNext, CollectorAssumption DEF LatencyCounted
<1> QED
  BY <1>1, <1>3, <1>5, <1>7, <1>8 DEF RecordingInv

LEMMA RecordingStep == RecordingInv /\ [Next]_collectorVars => RecordingInv'
<1> SUFFICES ASSUME RecordingInv, [Next]_collectorVars
             PROVE  RecordingInv'
  OBVIOUS
<1>1. ASSUME NEW w \in Workers, NEW ch \in Channels,
             NEW latency \in MinLatency .. MaxLatency, RecordDelivered(w, ch, latency)
      PROVE  RecordingInv'
  <2> DEFINE todo == DeliveryAdds(ch, latency)
  <2>1. todo \in Seq(Adds) /\ Orderly(todo) /\ Record(w, todo) /\ CollectorTypeOK
    BY <1>1, DeliveryIsOrderly DEF RecordDelivered, RecordingInv
  <2>2. \A c : Has(todo, c) <=>
                  c \in {<<"delivered", All>>, Total, Count, <<"delivered", ch>>}
    BY DeliveryIsOrderly
  <2> HIDE DEF todo
  <2>3. \A what \in Outcomes : \A c, d \in Channels :
            Has(todo, <<what, c>>) /\ Has(todo, <<what, d>>) => c = d
    BY <2>2, CounterNames DEF Outcomes
  <2>4. Has(todo, Total) <=> Has(todo, Count)
    BY <2>2
  <2>5. CountersBalance'
    BY <1>1, BalanceAfterDelivery
  <2> QED
    BY <2>1, <2>3, <2>4, <2>5, TypeAfterRecord, OrderAfterRecord, LatencyAfterRecord
    DEF RecordingInv
<1>2. ASSUME NEW w \in Workers, NEW ch \in Channels, RecordFailed(w, ch)
      PROVE  RecordingInv'
  <2> DEFINE todo == FailureAdds(ch)
  <2>1. todo \in Seq(Adds) /\ Orderly(todo) /\ Record(w, todo) /\ CollectorTypeOK
    BY <1>2, FailureIsOrderly DEF RecordFailed, RecordingInv
  <2>2. \A c : Has(todo, c) <=> c \in {<<"failed", All>>, <<"failed", ch>>}
    BY FailureIsOrderly
  <2> HIDE DEF todo
  <2>3. \A what \in Outcomes : \A c, d \in Channels :
            Has(todo, <<what, c>>) /\ Has(todo, <<what, d>>) => c = d
    BY <2>2, CounterNames DEF Outcomes
  <2>4. Has(todo, Total) <=> Has(todo, Count)
    BY <2>2, CounterNames DEF Outcomes
  <2>5. CountersBalance'
    BY <1>2, BalanceAfterFailure
  <2> QED
    BY <2>1, <2>3, <2>4, <2>5, TypeAfterRecord, OrderAfterRecord, LatencyAfterRecord
    DEF RecordingInv
<1>3. ASSUME NEW w \in Workers, Add(w)
      PROVE  RecordingInv'
  BY <1>3, TypeAfterAdd, OrderAfterAdd, BalanceAfterAdd, LatencyAfterAdd
  DEF RecordingInv
<1>4. ASSUME UNCHANGED <<counters, adds>>, CollectorTypeOK'
      PROVE  RecordingInv'
  <2>1. \A c : Owing(c)' = Owing(c)
    BY <1>4 DEF Owing
  <2>2. Eventual' = Eventual /\ Uncounted' = Uncounted
    BY <1>4, <2>1 DEF Eventual, Uncounted
  <2>3. AddsOrderly'
    BY <1>4 DEF RecordingInv, AddsOrderly, Orderly
  <2>4. SumFirst' /\ OneChannel'
    BY <2>1 DEF RecordingInv, SumFirst, OneChannel
  <2>5. CountersBalance'
    BY <2>2 DEF RecordingInv, CountersBalance, OverChannels
  <2>6. LatencyCounted'
    BY <1>4, <2>2 DEF RecordingInv, LatencyCounted
  <2> QED
    BY <1>4, <2>3, <2>4, <2>5, <2>6 DEF RecordingInv
<1>5. CollectorTypeOK
  BY DEF RecordingInv
<1>6. LoadOrder \in Seq(Counters)
  BY DEF LoadOrder, Counters, Channels
<1>7. CASE BeginSnapshot
  <2>1. CollectorTypeOK'
    BY <1>5, <1>6, <1>7 DEF BeginSnapshot, CollectorTypeOK
  <2> QED
    BY <1>4, <1>7, <2>1 DEF BeginSnapshot
<1>8. CASE Load
  <2>1. CollectorTypeOK'
    BY <1>5, <1>8 DEF Load, CollectorTypeOK
  <2> QED
    BY <1>4, <1>8, <2>1 DEF Load
<1>9. CASE UNCHANGED collectorVars
  <2>1. CollectorTypeOK'
    BY <1>5, <1>9 DEF collectorVars, CollectorTypeOK
  <2> QED
    BY <1>4, <1>9, <2>1 DEF collectorVars
<1> QED
  BY <1>1, <1>2, <1>3, <1>7, <1>8, <1>9 DEF Next

(***************************************************************************)
(* The snapshot.                                                           *)
(***************************************************************************)

(* The load order, by places.                                              *)
LEMMA LoadOrderPlaces ==
    /\ DOMAIN LoadOrder = 1 .. 10
    /\ LoadOrder[1] = <<"delivered", All>> /\ LoadOrder[2] = <<"failed", All>>
    /\ LoadOrder[3] = Count /\ LoadOrder[4] = Total
    /\ LoadOrder[5] = <<"delivered", "sms">> /\ LoadOrder[6] = <<"failed", "sms">>
    /\ LoadOrder[7] = <<"delivered", "email">> /\ LoadOrder[8] = <<"failed", "email">>
    /\ LoadOrder[9] = <<"delivered", "push">> /\ LoadOrder[10] = <<"failed", "push">>
BY DEF LoadOrder, Count, Total

Begun == loads = LoadOrder

AllToLoad == \A c \in Counters : ToLoad(c)

LEMMA LoadOrderIsSound == Begun => LoadsOnce /\ ChannelsLast /\ SumLast /\ AllToLoad
<1> SUFFICES ASSUME loads = LoadOrder
             PROVE  LoadsOnce /\ ChannelsLast /\ SumLast /\ \A c \in Counters : ToLoad(c)
  BY DEF Begun, AllToLoad
<1>1. LoadsOnce
  BY LoadOrderPlaces DEF LoadsOnce, Count, Total, All
<1>2. ASSUME NEW c \in Counters
      PROVE  ToLoad(c)
  BY LoadOrderPlaces DEF ToLoad, Counters, Channels, Count, Total
<1>3. SumLast
  BY <1>1, <1>2, CounterNames, LoadOrderPlaces DEF SumLast, LoadsOnce
<1>4. ChannelsLast
  <2>1. ASSUME NEW what \in Outcomes, NEW i \in DOMAIN loads, loads[i] = <<what, All>>
        PROVE  i < 5
    BY <2>1, LoadOrderPlaces DEF Count, Total, All
  <2>2. ASSUME NEW what \in Outcomes, NEW ch \in Channels, NEW j \in DOMAIN loads,
               loads[j] = <<what, ch>>
        PROVE  j >= 5
    BY <2>2, LoadOrderPlaces DEF Count, Total, All, Channels, Outcomes
  <2>3. \A i \in DOMAIN loads : i \in Int
    BY LoadOrderPlaces
  <2>4. \A what \in Outcomes, ch \in Channels : ToLoad(<<what, ch>>)
    BY <1>2, CounterNames
  <2>5. \A what \in Outcomes : \A i, j \in DOMAIN loads, ch \in Channels :
            loads[i] = <<what, All>> /\ loads[j] = <<what, ch>> => i < j
    BY <2>1, <2>2, <2>3
  <2> QED
    BY <2>4, <2>5 DEF ChannelsLast
<1> QED
  BY <1>1, <1>2, <1>3, <1>4


(* The head of the load order is loaded, and is then no longer to load.    *)
LEMMA LoadStep ==
    ASSUME CollectorTypeOK, LoadsOnce, Load
    PROVE  \E c \in Counters :
              /\ ToLoad(c) /\ \A d : ToLoad(d)' <=> ToLoad(d) /\ d # c
              /\ 1 \in DOMAIN loads /\ loads[1] = c
              /\ seen' = IF c = Total /\ seen[Count] = 0
                            THEN seen ELSE [seen EXCEPT ![c] = counters[c]]
              /\ counters' = counters
              /\ \A i \in DOMAIN loads' : i \in Int /\ i + 1 \in DOMAIN loads
                                          /\ loads'[i] = loads[i + 1]
<1>1. loads \in Seq(Counters) /\ loads # <<>> /\ loads[1] \in Counters
      /\ Head(loads) = loads[1] /\ loads' = Tail(loads)
  BY DEF CollectorTypeOK, Load
<1>2. PICK c \in Counters : c = loads[1]
  BY <1>1
<1>3. /\ DOMAIN loads = 1 .. Len(loads) /\ Len(loads) \in Nat /\ 1 \in 1 .. Len(loads)
      /\ DOMAIN loads' = 1 .. Len(loads) - 1
      /\ \A i \in 1 .. Len(loads) - 1 : loads'[i] = loads[i + 1]
  BY <1>1, TailElements
<1>4. /\ counters' = counters
      /\ seen' = IF c = Total /\ seen[Count] = 0
                    THEN seen ELSE [seen EXCEPT ![c] = counters[c]]
  BY <1>1, <1>2 DEF Load, Total, Count
<1>5. \A i \in DOMAIN loads : loads[i] = c => i = 1
  BY <1>2, <1>3 DEF LoadsOnce
<1>6. \A i \in DOMAIN loads' : i \in Int /\ i + 1 \in DOMAIN loads
                               /\ loads'[i] = loads[i + 1]
  BY <1>3
<1>7. ASSUME NEW d
      PROVE  ToLoad(d)' <=> ToLoad(d) /\ d # c
  <2>1. ASSUME NEW i \in DOMAIN loads', loads'[i] = d
        PROVE  ToLoad(d) /\ d # c
    <3>1. i + 1 \in DOMAIN loads /\ loads[i + 1] = d /\ i + 1 # 1
      BY <1>3, <2>1
    <3> QED
      BY <1>5, <3>1 DEF ToLoad
  <2>2. ASSUME NEW i \in DOMAIN loads, loads[i] = d, d # c
        PROVE  ToLoad(d)'
    <3>1. i # 1
      BY <1>2, <2>2
    <3>2. i - 1 \in 1 .. Len(loads) - 1 /\ (i - 1) + 1 = i
      BY <1>3, <3>1
    <3>3. loads'[i - 1] = d
      BY <1>3, <2>2, <3>2
    <3> QED
      BY <1>3, <3>2, <3>3 DEF ToLoad
  <2> QED
    BY <2>1, <2>2 DEF ToLoad
<1>8. ToLoad(c)
  BY <1>2, <1>3 DEF ToLoad
<1>9. 1 \in DOMAIN loads /\ loads[1] = c
  BY <1>2, <1>3
<1> QED
  BY <1>4, <1>6, <1>7, <1>8, <1>9

LEMMA LoadsAfterLoad ==
    ASSUME CollectorTypeOK, LoadsOnce, ChannelsLast, SumLast, Load
    PROVE  LoadsOnce' /\ ChannelsLast' /\ SumLast'
<1>1. PICK c \in Counters :
          /\ \A d : ToLoad(d)' <=> ToLoad(d) /\ d # c
          /\ 1 \in DOMAIN loads /\ loads[1] = c
          /\ \A i \in DOMAIN loads' : i \in Int /\ i + 1 \in DOMAIN loads
                                      /\ loads'[i] = loads[i + 1]
  BY LoadStep
<1>2. DOMAIN loads = 1 .. Len(loads) /\ Len(loads) \in Nat
  BY DEF CollectorTypeOK
<1>3. LoadsOnce'
  <2>1. SUFFICES ASSUME NEW i \in DOMAIN loads', NEW j \in DOMAIN loads',
                        loads'[i] = loads'[j]
                 PROVE  i = j
    BY DEF LoadsOnce
  <2>2. i + 1 = j + 1 /\ i \in Int /\ j \in Int
    BY <1>1, <2>1 DEF LoadsOnce
  <2> QED
    BY <2>2
<1>4. ChannelsLast'
  <2>1. SUFFICES ASSUME NEW what \in Outcomes, ToLoad(<<what, All>>)'
                 PROVE  /\ \A ch \in Channels : ToLoad(<<what, ch>>)'
                        /\ \A i, j \in DOMAIN loads', ch \in Channels :
                              loads'[i] = <<what, All>> /\ loads'[j] = <<what, ch>> => i < j
    BY DEF ChannelsLast
  <2>2. /\ ToLoad(<<what, All>>)
        /\ \A ch \in Channels : ToLoad(<<what, ch>>)
        /\ \A i, j \in DOMAIN loads, ch \in Channels :
              loads[i] = <<what, All>> /\ loads[j] = <<what, ch>> => i < j
    BY <1>1, <2>1 DEF ChannelsLast
  <2>3. ASSUME NEW ch \in Channels
        PROVE  ToLoad(<<what, ch>>)'
    <3>1. PICK i \in DOMAIN loads : loads[i] = <<what, All>>
      BY <2>2 DEF ToLoad
    <3>2. c = <<what, ch>> => i < 1
      BY <1>1, <2>2, <3>1
    <3>3. c # <<what, ch>>
      BY <1>2, <3>1, <3>2
    <3> QED
      BY <1>1, <2>2, <3>3
  <2>4. ASSUME NEW i \in DOMAIN loads', NEW j \in DOMAIN loads', NEW ch \in Channels,
               loads'[i] = <<what, All>>, loads'[j] = <<what, ch>>
        PROVE  i < j
    <3>1. i + 1 < j + 1 /\ i \in Int /\ j \in Int
      BY <1>1, <2>2, <2>4
    <3> QED
      BY <3>1
  <2> QED
    BY <2>3, <2>4
<1>5. SumLast'
  <2>1. SUFFICES ASSUME ToLoad(Count)'
                 PROVE  /\ ToLoad(Total)'
                        /\ \A i, j \in DOMAIN loads' :
                              loads'[i] = Count /\ loads'[j] = Total => i < j
    BY DEF SumLast, Count, Total
  <2>2. /\ ToLoad(Count) /\ ToLoad(Total)
        /\ \A i, j \in DOMAIN loads : loads[i] = Count /\ loads[j] = Total => i < j
    BY <1>1, <2>1 DEF SumLast
  <2>3. ToLoad(Total)'
    <3>1. PICK i \in DOMAIN loads : loads[i] = Count
      BY <2>2 DEF ToLoad
    <3>2. c = Total => i < 1
      BY <1>1, <2>2, <3>1
    <3>3. c # Total
      BY <1>2, <3>1, <3>2
    <3> QED
      BY <1>1, <2>2, <3>3
  <2>4. ASSUME NEW i \in DOMAIN loads', NEW j \in DOMAIN loads',
               loads'[i] = Count, loads'[j] = Total
        PROVE  i < j
    <3>1. i + 1 < j + 1 /\ i \in Int /\ j \in Int
      BY <1>1, <2>2, <2>4
    <3> QED
      BY <3>1
  <2> QED
    BY <2>3, <2>4
<1> QED
  BY <1>3, <1>4, <1>5

(* At any moment the channels miss at most the recordings being made.      *)
LEMMA ChannelsNow ==
    ASSUME RecordingInv, NEW what \in Outcomes
    PROVE  OverChannels(counters, what) + Cardinality(Workers) >= counters[<<what, All>>]
<1> DEFINE W(ch) == Owing(<<what, ch>>)
<1>1. \A c \in Counters : /\ Eventual[c] = counters[c] + Cardinality(Owing(c))
                          /\ counters[c] \in Nat /\ Cardinality(Owing(c)) \in Nat
  BY EventualValue DEF RecordingInv
<1>2. Eventual[<<what, All>>] = OverChannels(Eventual, what)
  BY DEF RecordingInv, CountersBalance, Outcomes
<1>3. /\ W("sms") \cap W("email") = {} /\ W("sms") \cap W("push") = {}
      /\ W("email") \cap W("push") = {}
  BY DEF RecordingInv, OneChannel, Channels
<1>4. \A ch : IsFiniteSet(W(ch)) /\ Cardinality(W(ch)) \in Nat /\ W(ch) \subseteq Workers
  BY OwingIsFinite
<1> DEFINE n == Cardinality(W("sms")) + Cardinality(W("email")) + Cardinality(W("push"))
<1>5. Cardinality(Workers) \in Nat /\ n <= Cardinality(Workers)
  <2> DEFINE two == W("sms") \cup W("email")
  <2> HIDE DEF W
  <2>1. IsFiniteSet(two) /\ Cardinality(two) = Cardinality(W("sms")) + Cardinality(W("email"))
    <3>1. /\ IsFiniteSet(two)
          /\ Cardinality(two) = Cardinality(W("sms")) + Cardinality(W("email"))
                                - Cardinality(W("sms") \cap W("email"))
      BY <1>4, FS_Union
    <3> QED
      BY <1>3, <1>4, <3>1, FS_EmptySet
  <2>2. two \cap W("push") = {}
    BY <1>3
  <2> HIDE DEF two
  <2>3. /\ IsFiniteSet(two \cup W("push"))
        /\ Cardinality(two \cup W("push")) = Cardinality(two) + Cardinality(W("push"))
    <3>1. /\ IsFiniteSet(two \cup W("push"))
          /\ Cardinality(two \cup W("push")) = Cardinality(two) + Cardinality(W("push"))
                                               - Cardinality(two \cap W("push"))
      BY <1>4, <2>1, FS_Union
    <3>2. Cardinality(two) \in Nat
      BY <2>1, FS_CardinalityType
    <3>3. Cardinality(two \cap W("push")) = 0
      BY <2>2, FS_EmptySet
    <3>4. Cardinality(W("push")) \in Nat
      BY <1>4
    <3> QED
      BY <3>1, <3>2, <3>3, <3>4
  <2>4. two \cup W("push") \subseteq Workers
    BY <1>4 DEF two
  <2>5. /\ Cardinality(two \cup W("push")) <= Cardinality(Workers)
        /\ Cardinality(Workers) \in Nat
    BY <2>4, FS_Subset, FS_CardinalityType, CollectorAssumption
  <2> QED
    BY <2>1, <2>3, <2>5
<1>6. \A ch \in Channels \cup {All} :
          /\ <<what, ch>> \in Counters
          /\ Eventual[<<what, ch>>] = counters[<<what, ch>>] + Cardinality(W(ch))
          /\ counters[<<what, ch>>] \in Nat /\ Cardinality(W(ch)) \in Nat
  <2>1. \A ch \in Channels \cup {All} : <<what, ch>> \in Counters
    BY CounterNames
  <2> QED
    BY <1>1, <2>1
<1> HIDE DEF W
<1>7. Eventual[<<what, All>>] = OverChannels(counters, what) + n
  BY <1>2, <1>6 DEF OverChannels, Channels
<1>8. counters[<<what, All>>] <= Eventual[<<what, All>>]
  BY <1>6
<1>9. OverChannels(counters, what) \in Nat /\ n \in Nat /\ counters[<<what, All>>] \in Nat
  BY <1>6 DEF OverChannels, Channels
<1> QED
  BY <1>5, <1>7, <1>8, <1>9


(* What a snapshot will show only grows while it is taken.                 *)
LEMMA SeenWhileGrowing ==
    ASSUME CollectorTypeOK, CollectorTypeOK', SumSeen, ChannelsSeen,
           UNCHANGED <<loads, seen>>,
           \A c \in Counters : counters'[c] >= counters[c]
    PROVE  SumSeen' /\ ChannelsSeen'
<1>1. \A d : ToLoad(d)' <=> ToLoad(d)
  BY DEF ToLoad
<1>2. ASSUME NEW c \in Counters
      PROVE  View'[c] >= View[c] /\ View[c] \in Nat /\ View'[c] \in Nat
  BY <1>1 DEF View, CollectorTypeOK
<1>3. SumSeen'
  <2>1. SUFFICES ASSUME ~ ToLoad(Count)
                 PROVE  View'[Total] >= MinLatency * seen[Count]
    BY <1>1 DEF SumSeen, Count, Total
  <2>2. View[Total] >= MinLatency * seen[Count]
    BY <2>1 DEF SumSeen
  <2>3. seen[Count] \in Nat /\ MinLatency * seen[Count] \in Nat
    BY CounterNames, TimesNext, CollectorAssumption DEF CollectorTypeOK
  <2> QED
    BY <1>2, <2>2, <2>3, CounterNames
<1>4. ASSUME NEW what \in Outcomes, ~ ToLoad(<<what, All>>)
      PROVE  OverChannels(View', what) + Cardinality(Workers) >= seen[<<what, All>>]
  <2>1. OverChannels(View, what) + Cardinality(Workers) >= seen[<<what, All>>]
    BY <1>4 DEF ChannelsSeen
  <2>2. \A ch \in Channels :
            /\ View'[<<what, ch>>] >= View[<<what, ch>>]
            /\ View[<<what, ch>>] \in Nat /\ View'[<<what, ch>>] \in Nat
    BY <1>2, CounterNames
  <2>3. Cardinality(Workers) \in Nat /\ seen[<<what, All>>] \in Nat
    BY CounterNames, CollectorAssumption, FS_CardinalityType DEF CollectorTypeOK
  <2> QED
    BY <2>1, <2>2, <2>3 DEF OverChannels, Channels
<1>5. ChannelsSeen'
  BY <1>1, <1>4 DEF ChannelsSeen, OverChannels
<1> QED
  BY <1>3, <1>5

LEMMA SeenAfterLoad ==
    ASSUME RecordingInv, SnapshotInv, Load
    PROVE  SumSeen' /\ ChannelsSeen'
<1>1. PICK c \in Counters :
          /\ ToLoad(c) /\ \A d : ToLoad(d)' <=> ToLoad(d) /\ d # c
          /\ 1 \in DOMAIN loads /\ loads[1] = c
          /\ seen' = IF c = Total /\ seen[Count] = 0
                        THEN seen ELSE [seen EXCEPT ![c] = counters[c]]
          /\ counters' = counters
  BY LoadStep DEF RecordingInv, SnapshotInv
<1>2. counters \in [Counters -> Nat] /\ seen \in [Counters -> Nat]
  BY DEF RecordingInv, CollectorTypeOK
<1>3. ASSUME NEW d \in Counters, ~ (c = Total /\ d = Total /\ seen[Count] = 0)
      PROVE  View'[d] = View[d]
  <2>1. CASE d = c
    <3>1. ToLoad(d) /\ ~ ToLoad(d)' /\ seen'[d] = counters[d]
      BY <1>1, <1>2, <1>3, <2>1
    <3> QED
      BY <3>1 DEF View
  <2>2. CASE d # c
    <3>1. (ToLoad(d)' <=> ToLoad(d)) /\ seen'[d] = seen[d] /\ counters'[d] = counters[d]
      BY <1>1, <1>2, <2>2
    <3> QED
      BY <3>1 DEF View
  <2> QED
    BY <2>1, <2>2
<1>4. ASSUME NEW d \in Counters, d # c
      PROVE  (ToLoad(d)' <=> ToLoad(d)) /\ seen'[d] = seen[d]
  BY <1>1, <1>2, <1>4
<1>5. SumSeen'
  <2>1. SUFFICES ASSUME ~ ToLoad(Count)'
                 PROVE  View'[Total] >= MinLatency * seen'[Count]
    BY DEF SumSeen, Count, Total
  <2>2. CASE c = Count
    <3>1. ToLoad(Count) /\ ToLoad(Total)
      BY <1>1, <2>2 DEF SnapshotInv, SumLast
    <3>2. View'[Total] = counters[Total]
      <4>1. View[Total] = counters[Total]
        BY <3>1, CounterNames DEF View
      <4> QED
        BY <1>3, <2>2, <4>1, CounterNames
    <3>3. seen'[Count] = counters[Count]
      BY <1>1, <1>2, <2>2, CounterNames
    <3>4. PICK n \in Nat : n = Cardinality(Uncounted)
      <4>1. IsFiniteSet(Uncounted)
        BY OwingIsFinite, FS_Difference DEF Uncounted
      <4> QED
        BY <4>1, FS_CardinalityType
    <3>5. counters[Total] >= MinLatency * (counters[Count] + n)
      BY <3>4 DEF RecordingInv, LatencyCounted
    <3>6. MinLatency * (counters[Count] + n) >= MinLatency * counters[Count]
      BY <1>2, CounterNames, CollectorAssumption
    <3>7. /\ counters[Total] \in Nat /\ counters[Count] \in Nat
          /\ MinLatency * (counters[Count] + n) \in Nat /\ MinLatency * counters[Count] \in Nat
      BY <1>2, CounterNames, CollectorAssumption, TimesNext
    <3> QED
      BY <3>2, <3>3, <3>5, <3>6, <3>7
  <2>3. CASE c = Total /\ seen[Count] = 0
    <3>1. seen' = seen /\ ~ ToLoad(Total)'
      BY <1>1, <2>3
    <3>2. View'[Total] = seen[Total] /\ seen[Total] \in Nat
      BY <1>2, <3>1, CounterNames DEF View
    <3>3. MinLatency * seen'[Count] = 0
      BY <2>3, <3>1, TimesNext, CollectorAssumption
    <3> QED
      BY <3>2, <3>3
  <2>4. CASE c # Count /\ ~ (c = Total /\ seen[Count] = 0)
    <3>1. ~ ToLoad(Count) /\ seen'[Count] = seen[Count]
      BY <1>4, <2>1, <2>4, CounterNames
    <3>2. View'[Total] = View[Total]
      BY <1>3, <2>4, CounterNames
    <3> QED
      BY <3>1, <3>2 DEF SnapshotInv, SumSeen
  <2> QED
    BY <2>2, <2>3, <2>4
<1>6. ASSUME NEW what \in Outcomes, ~ ToLoad(<<what, All>>)'
      PROVE  OverChannels(View', what) + Cardinality(Workers) >= seen'[<<what, All>>]
  <2>1. /\ \A ch \in Channels : View'[<<what, ch>>] = View[<<what, ch>>]
        /\ OverChannels(View', what) = OverChannels(View, what)
    <3>1. \A ch \in Channels : View'[<<what, ch>>] = View[<<what, ch>>]
      BY <1>3, CounterNames
    <3> QED
      BY <3>1 DEF OverChannels, Channels
  <2>2. CASE c = <<what, All>>
    <3>1. \A ch \in Channels : ToLoad(<<what, ch>>)
      BY <1>1, <2>2 DEF SnapshotInv, ChannelsLast
    <3>2. \A ch \in Channels : View[<<what, ch>>] = counters[<<what, ch>>]
      BY <3>1, CounterNames DEF View
    <3>3. OverChannels(View, what) = OverChannels(counters, what)
      BY <3>2 DEF OverChannels, Channels
    <3>4. seen'[<<what, All>>] = counters[<<what, All>>]
      BY <1>1, <1>2, <2>2, CounterNames
    <3> QED
      BY <2>1, <3>3, <3>4, ChannelsNow
  <2>3. CASE c # <<what, All>>
    <3>1. ~ ToLoad(<<what, All>>) /\ seen'[<<what, All>>] = seen[<<what, All>>]
      BY <1>4, <1>6, <2>3, CounterNames
    <3> QED
      BY <2>1, <3>1 DEF SnapshotInv, ChannelsSeen
  <2> QED
    BY <2>2, <2>3
<1>7. ChannelsSeen'
  BY <1>6 DEF ChannelsSeen, OverChannels
<1> QED
  BY <1>5, <1>7

LEMMA SnapshotInit == Init => SnapshotInv
<1> SUFFICES ASSUME Init
             PROVE  SnapshotInv
  OBVIOUS
<1>1. loads = <<>> /\ (\A c \in Counters : seen[c] = 0) /\ \A c : ~ ToLoad(c)
  BY DEF Init, ToLoad
<1>2. \A c \in Counters : View[c] = 0
  BY <1>1 DEF View
<1>3. LoadsOnce /\ ChannelsLast /\ SumLast
  BY <1>1 DEF LoadsOnce, ChannelsLast, SumLast
<1>4. SumSeen
  BY <1>1, <1>2, CounterNames, TimesNext, CollectorAssumption DEF SumSeen
<1>5. ASSUME NEW what \in Outcomes
      PROVE  OverChannels(View, what) + Cardinality(Workers) >= seen[<<what, All>>]
  <2>1. seen[<<what, All>>] = 0 /\ \A ch \in Channels : View[<<what, ch>>] = 0
    BY <1>1, <1>2, CounterNames
  <2>2. Cardinality(Workers) \in Nat
    BY CollectorAssumption, FS_CardinalityType
  <2> QED
    BY <2>1, <2>2 DEF OverChannels, Channels
<1>6. ChannelsSeen
  BY <1>5 DEF ChannelsSeen
<1> QED
  BY <1>3, <1>4, <1>6 DEF SnapshotInv

LEMMA SnapshotStep ==
    RecordingInv /\ RecordingInv' /\ SnapshotInv /\ [Next]_collectorVars => SnapshotInv'
<1> SUFFICES ASSUME RecordingInv, RecordingInv', SnapshotInv, [Next]_collectorVars
             PROVE  SnapshotInv'
  OBVIOUS
<1>1. ASSUME UNCHANGED <<loads, seen>>, \A c \in Counters : counters'[c] >= counters[c]
      PROVE  SnapshotInv'
  <2>1. \A d : ToLoad(d)' <=> ToLoad(d)
    BY <1>1 DEF ToLoad
  <2>2. LoadsOnce' /\ ChannelsLast' /\ SumLast'
    BY <1>1, <2>1 DEF SnapshotInv, LoadsOnce, ChannelsLast, SumLast
  <2>3. SumSeen' /\ ChannelsSeen'
    BY <1>1, SeenWhileGrowing DEF SnapshotInv, RecordingInv
  <2> QED
    BY <2>2, <2>3 DEF SnapshotInv
<1>2. counters \in [Counters -> Nat]
  BY DEF RecordingInv, CollectorTypeOK
<1>3. ASSUME NEW w \in Workers, NEW ch \in Channels,
             NEW latency \in MinLatency .. MaxLatency, RecordDelivered(w, ch, latency)
      PROVE  SnapshotInv'
  BY <1>1, <1>2, <1>3 DEF RecordDelivered, Record
<1>4. ASSUME NEW w \in Workers, NEW ch \in Channels, RecordFailed(w, ch)
      PROVE  SnapshotInv'
  BY <1>1, <1>2, <1>4 DEF RecordFailed, Record
<1>5. ASSUME NEW w \in Workers, Add(w)
      PROVE  SnapshotInv'
  <2>1. PICK a \in Adds : counters' = [counters EXCEPT ![a.counter] = @ + a.n]
    BY <1>5, AddStep
  <2>2. a.n \in Nat
    BY DEF Adds
  <2>3. \A c \in Counters : counters'[c] >= counters[c]
    BY <1>2, <2>1, <2>2
  <2> QED
    BY <1>1, <1>5, <2>3 DEF Add
<1>6. CASE BeginSnapshot
  <2>1. Begun'
    BY <1>6 DEF BeginSnapshot, Begun
  <2>2. LoadsOnce' /\ ChannelsLast' /\ SumLast' /\ AllToLoad'
    BY <2>1, LoadOrderIsSound, PTL
  <2>3. SumSeen' /\ ChannelsSeen'
    BY <2>2, CounterNames DEF AllToLoad, SumSeen, ChannelsSeen
  <2> QED
    BY <2>2, <2>3 DEF SnapshotInv
<1>7. CASE Load
  BY <1>7, SeenAfterLoad, LoadsAfterLoad DEF SnapshotInv, RecordingInv
<1>8. CASE UNCHANGED collectorVars
  BY <1>1, <1>2, <1>8 DEF collectorVars
<1> QED
  BY <1>3, <1>4, <1>5, <1>6, <1>7, <1>8 DEF Next


(***************************************************************************)
(* The theorems.                                                           *)
(***************************************************************************)

LEMMA CollectorInv == Spec => [](RecordingInv /\ SnapshotInv)
<1>1. Init => RecordingInv /\ SnapshotInv
  BY RecordingInit, SnapshotInit
<1>2. RecordingInv /\ SnapshotInv /\ [Next]_collectorVars
          => (RecordingInv /\ SnapshotInv)'
  <2> SUFFICES ASSUME RecordingInv, SnapshotInv, [Next]_collectorVars
               PROVE  RecordingInv' /\ SnapshotInv'
    OBVIOUS
  <2> QED
    BY RecordingStep, SnapshotStep
<1> QED
  BY <1>1, <1>2, PTL DEF Spec

(* The counters and what a snapshot has loaded of them stay natural        *)
(* numbers, as the atomic Adds of RecordDelivered and RecordFailed leave   *)
(* them.                                                                   *)
THEOREM CollectorIsTyped == Spec => []CollectorTypeOK
<1>1. RecordingInv => CollectorTypeOK
  BY DEF RecordingInv
<1> QED
  BY <1>1, CollectorInv, PTL

(* However the adds of RecordDelivered and RecordFailed interleave, none   *)
(* is lost or made twice: with those still to come, each total is the sum  *)
(* over the channels, and there is one latency for every delivery.         *)
THEOREM CountersStayBalanced == Spec => []CountersBalance
<1>1. RecordingInv => CountersBalance
  BY DEF RecordingInv
<1> QED
  BY <1>1, CollectorInv, PTL

(* The average latency of a snapshot is no smaller than the smallest       *)
(* latency recorded: RecordDelivered adds a latency to the sum before it   *)
(* counts it, and Snapshot loads the count before the sum.                 *)
THEOREM AveragesAreNotTooSmall == Spec => []AverageNotTooSmall
<1>1. RecordingInv /\ SnapshotInv => AverageNotTooSmall
  <2> SUFFICES ASSUME RecordingInv, SnapshotInv, loads = <<>>
               PROVE  seen[Total] >= MinLatency * seen[Count]
    BY DEF AverageNotTooSmall, Total, Count
  <2>1. ~ ToLoad(Count) /\ ~ ToLoad(Total)
    BY DEF ToLoad
  <2>2. View[Total] = seen[Total]
    BY <2>1, CounterNames DEF View
  <2> QED
    BY <2>1, <2>2 DEF SnapshotInv, SumSeen
<1> QED
  BY <1>1, CollectorInv, PTL

(* The counts by channel of a snapshot, which Snapshot loads after the     *)
(* totals, miss no more of these than one recording for each worker.       *)
THEOREM ChannelsAlwaysKeepUp == Spec => []ChannelsKeepUp
<1>1. RecordingInv /\ SnapshotInv => ChannelsKeepUp
  <2> SUFFICES ASSUME RecordingInv, SnapshotInv, loads = <<>>, NEW what \in Outcomes
               PROVE  OverChannels(seen, what) + Cardinality(Workers) >= seen[<<what, All>>]
    BY DEF ChannelsKeepUp, Outcomes
  <2>1. \A c : ~ ToLoad(c)
    BY DEF ToLoad
  <2>2. \A ch \in Channels : View[<<what, ch>>] = seen[<<what, ch>>]
    BY <2>1, CounterNames DEF View
  <2>3. OverChannels(View, what) = OverChannels(seen, what)
    BY <2>2 DEF OverChannels, Channels
  <2> QED
    BY <2>1, <2>3 DEF SnapshotInv, ChannelsSeen
<1> QED
  BY <1>1, CollectorInv, PTL

=============================================================================
