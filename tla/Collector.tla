----------------------------- MODULE Collector ------------------------------
(***************************************************************************)
(* internal/metrics/collector.go: ten atomic counters, to which the worker *)
(* pool adds and which GET /metrics reads.  There is no lock: the adds of  *)
(* one recording and the loads of one snapshot are separate steps, and     *)
(* anything may happen between two of them.                                *)
(*                                                                         *)
(* A counter is named by what it counts and, for those kept by channel,    *)
(* the channel; All marks the ones over all channels.                      *)
(***************************************************************************)
EXTENDS Integers, Sequences, FiniteSets

CONSTANTS
    Workers,     (* the goroutines that record                             *)
    MinLatency,  (* the latencies a recording may have, in milliseconds    *)
    MaxLatency,
    MaxRecords   (* bound: how many recordings are made                    *)

ASSUME CollectorAssumption ==
    /\ IsFiniteSet(Workers)
    /\ MinLatency \in Nat
    /\ MaxLatency \in Nat
    /\ MaxRecords \in Nat

VARIABLES
    counters,  (* the values of the counters                               *)
    adds,      (* what each worker has yet to add, in order                *)
    loads,     (* the counters the snapshot has yet to load, in order      *)
    seen,      (* what it has loaded                                       *)
    records    (* the recordings begun so far                              *)

collectorVars == <<counters, adds, loads, seen, records>>

(* The channels channelIndex tells apart.                                  *)
Channels == {"sms", "email", "push"}

All == "all"

Counters == ({"delivered", "failed", "totalLatency", "latencyCount"} \X {All})
            \cup ({"delivered", "failed"} \X Channels)

Adds == [counter : Counters, n : Nat]

CollectorTypeOK ==
    /\ counters \in [Counters -> Nat]
    /\ adds \in [Workers -> Seq(Adds)]
    /\ loads \in Seq(Counters)
    /\ seen \in [Counters -> Nat]
    /\ records \in Nat

Init ==
    /\ counters = [c \in Counters |-> 0]
    /\ adds = [w \in Workers |-> <<>>]
    /\ loads = <<>>
    /\ seen = [c \in Counters |-> 0]
    /\ records = 0

(* A worker begins to record: it has these adds to make, one after another.*)
Record(w, todo) ==
    /\ adds[w] = <<>>
    /\ records < MaxRecords
    /\ records' = records + 1
    /\ adds' = [adds EXCEPT ![w] = todo]
    /\ UNCHANGED <<counters, loads, seen>>

One(what, ch) == [counter |-> <<what, ch>>, n |-> 1]

(* Faulty: the recording is counted before its latency is added.           *)
RecordCountFirst(w, ch, latency) ==
    Record(w, <<One("delivered", All),
                One("latencyCount", All),
                [counter |-> <<"totalLatency", All>>, n |-> latency],
                One("delivered", ch)>>)

(* Faulty: the latency is measured from the answer to the request.         *)
RecordNegative(w, ch, latency) ==
    Record(w, <<One("delivered", All),
                [counter |-> <<"totalLatency", All>>, n |-> 0 - latency],
                One("latencyCount", All),
                One("delivered", ch)>>)

(* The adds of one delivery, and of one failure, in their order.           *)
DeliveryAdds(ch, latency) ==
    <<One("delivered", All),
      [counter |-> <<"totalLatency", All>>, n |-> latency],
      One("latencyCount", All),
      One("delivered", ch)>>

FailureAdds(ch) == <<One("failed", All), One("failed", ch)>>

RecordDelivered(w, ch, latency) == Record(w, DeliveryAdds(ch, latency))

(* Faulty: the failure is counted in the other array.                      *)
RecordFailedAsDelivered(w, ch) == Record(w, <<One("failed", All), One("delivered", ch)>>)

RecordFailed(w, ch) == Record(w, FailureAdds(ch))

(* One atomic Add.                                                         *)
Add(w) ==
    LET a == Head(adds[w])
    IN
    /\ adds[w] # <<>>
    /\ counters' = [counters EXCEPT ![a.counter] = @ + a.n]
    /\ adds' = [adds EXCEPT ![w] = Tail(@)]
    /\ UNCHANGED <<loads, seen, records>>

(* Faulty: the channels are read before the totals.                        *)
ChannelsFirst ==
    <<<<"delivered", "sms">>, <<"failed", "sms">>,
      <<"delivered", "email">>, <<"failed", "email">>,
      <<"delivered", "push">>, <<"failed", "push">>,
      <<"delivered", All>>, <<"failed", All>>,
      <<"latencyCount", All>>, <<"totalLatency", All>>>>

(* The order in which Snapshot loads the counters.                         *)
LoadOrder ==
    <<<<"delivered", All>>, <<"failed", All>>,
      <<"latencyCount", All>>, <<"totalLatency", All>>,
      <<"delivered", "sms">>, <<"failed", "sms">>,
      <<"delivered", "email">>, <<"failed", "email">>,
      <<"delivered", "push">>, <<"failed", "push">>>>

BeginSnapshot ==
    /\ loads = <<>>
    /\ loads' = LoadOrder
    /\ seen' = [c \in Counters |-> 0]
    /\ UNCHANGED <<counters, adds, records>>

(* One Load.  Without latencies to average the total is not loaded.        *)
Load ==
    LET c == Head(loads)
        skipped == c = <<"totalLatency", All>> /\ seen[<<"latencyCount", All>>] = 0
    IN
    /\ loads # <<>>
    /\ seen' = IF skipped THEN seen ELSE [seen EXCEPT ![c] = counters[c]]
    /\ loads' = Tail(loads)
    /\ UNCHANGED <<counters, adds, records>>

Next ==
    \/ \E w \in Workers, ch \in Channels, latency \in MinLatency .. MaxLatency :
          RecordDelivered(w, ch, latency)
    \/ \E w \in Workers, ch \in Channels : RecordFailed(w, ch)
    \/ \E w \in Workers : Add(w)
    \/ BeginSnapshot
    \/ Load

Spec == Init /\ [][Next]_collectorVars

(***************************************************************************)
(* What the counters and a snapshot of them say.                           *)
(***************************************************************************)

OverChannels(f, what) ==
    f[<<what, "sms">>] + f[<<what, "email">>] + f[<<what, "push">>]

(* The workers that have yet to add to a counter: to each counter a        *)
(* recording adds once.                                                    *)
Owing(c) == {w \in Workers : \E i \in DOMAIN adds[w] : adds[w][i].counter = c}

(* What a counter of recordings comes to when those have been added.       *)
Eventual == [c \in Counters |-> counters[c] + Cardinality(Owing(c))]

(* Whatever the interleaving, no add is lost or counted twice: once the    *)
(* workers have made the adds they began, the totals are the sums over the *)
(* channels, and every delivery has its latency.                           *)
CountersBalance ==
    /\ \A what \in {"delivered", "failed"} :
          Eventual[<<what, All>>] = OverChannels(Eventual, what)
    /\ Eventual[<<"latencyCount", All>>] = Eventual[<<"delivered", All>>]

(* The average a snapshot reports is no smaller than the smallest latency, *)
(* although the sum and the count are loaded while workers add to both: a  *)
(* latency is in the sum before it is counted, and counted before the sum  *)
(* is read.  (It may exceed the largest.)                                  *)
AverageNotTooSmall ==
    loads = <<>> =>
        seen[<<"totalLatency", All>>] >= MinLatency * seen[<<"latencyCount", All>>]

(* The counts by channel of a snapshot miss at most one recording of each  *)
(* worker that its totals include.                                         *)
ChannelsKeepUp ==
    loads = <<>> =>
        \A what \in {"delivered", "failed"} :
            OverChannels(seen, what) + Cardinality(Workers) >= seen[<<what, All>>]

=============================================================================
