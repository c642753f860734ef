--------------------------------- MODULE Hub --------------------------------
(***************************************************************************)
(* internal/ws: the hub that fans the terminal statuses out to WebSocket   *)
(* clients.  Run is one goroutine; every client has a writePump and a      *)
(* readPump; Notify is called by the workers.  They only share channels:   *)
(*                                                                         *)
(*   Notify -> broadcast -> Run -> send of each client -> writePump -> conn*)
(*   ServeWS -> register -> Run <- unregister <- readPump                  *)
(*                                                                         *)
(* An event is the ordinal of the call of Notify that made it.             *)
(***************************************************************************)
EXTENDS Naturals, Sequences, SequencesExt

CONSTANTS
    Clients,        (* the connections that may ever be made               *)
    BroadcastSize,  (* the capacity of the channel broadcast               *)
    RegisterSize,   (* that of register and of unregister                  *)
    SendSize,       (* that of the send channel of a client                *)
    MaxEvents       (* how many calls of Notify a behaviour has            *)

ASSUME HubAssumption ==
    /\ BroadcastSize \in Nat \ {0}
    /\ RegisterSize \in Nat \ {0}
    /\ SendSize \in Nat \ {0}
    /\ MaxEvents \in Nat

VARIABLES
    running,     (* Run has not returned                                   *)
    clients,     (* the keys of the map h.clients                          *)
    broadcast,   (* the channels of the hub, as sequences                  *)
    register,
    unregister,
    fanout,      (* the clients Run has yet to offer its event to          *)
    current,     (* that event                                             *)
    send,        (* the send channel of each client                        *)
    closed,      (* the clients whose send channel is closed               *)
    rpc,         (* ServeWS, then readPump: what each does next            *)
    wpc,         (* writePump                                              *)
    conn,        (* the connections that are open                          *)
    notified,    (* how many times Notify was called                       *)
    sent,        (* the events Run took from broadcast, in order           *)
    since,       (* how many those were when a client was registered       *)
    written,     (* the events WriteMessage was called with, in order, for *)
                 (* each connection that was open                          *)
    panicked     (* a send or a close on a closed channel                  *)

hubVars == <<running, clients, broadcast, register, unregister, fanout, current>>
clientVars == <<send, closed, rpc, wpc, conn>>
ghostVars == <<notified, sent, since, written, panicked>>
vars == <<hubVars, clientVars, ghostVars>>

Events == 1 .. MaxEvents

HubTypeOK ==
    /\ running \in BOOLEAN /\ panicked \in BOOLEAN
    /\ clients \in SUBSET Clients /\ fanout \in SUBSET Clients
    /\ closed \in SUBSET Clients /\ conn \in SUBSET Clients
    /\ broadcast \in Seq(Events) /\ Len(broadcast) <= BroadcastSize
    /\ register \in Seq(Clients) /\ Len(register) <= RegisterSize
    /\ unregister \in Seq(Clients) /\ Len(unregister) <= RegisterSize
    /\ current \in Events \cup {0} /\ notified \in Events \cup {0}
    /\ send \in [Clients -> Seq(Events)]
    /\ \A c \in Clients : Len(send[c]) <= SendSize
    /\ rpc \in [Clients -> {"absent", "register", "read", "unregister", "gone"}]
    /\ wpc \in [Clients -> {"absent", "take", "write", "close", "gone"}]
    /\ sent \in Seq(Events)
    /\ since \in [Clients -> Nat]
    /\ written \in [Clients -> Seq(Events)]

Init ==
    /\ running = TRUE /\ panicked = FALSE
    /\ clients = {} /\ fanout = {} /\ closed = {} /\ conn = {}
    /\ broadcast = <<>> /\ register = <<>> /\ unregister = <<>>
    /\ current = 0 /\ notified = 0
    /\ send = [c \in Clients |-> <<>>]
    /\ rpc = [c \in Clients |-> "absent"]
    /\ wpc = [c \in Clients |-> "absent"]
    /\ sent = <<>>
    /\ since = [c \in Clients |-> 0]
    /\ written = [c \in Clients |-> <<>>]

(* Faulty: the channel grows without a bound.                              *)
NotifyUnbounded ==
    /\ notified < MaxEvents
    /\ notified' = notified + 1
    /\ broadcast' = Append(broadcast, notified')
    /\ UNCHANGED <<running, clients, register, unregister, fanout, current, clientVars,
                   sent, since, written, panicked>>

(* select with a default: an event that finds broadcast full is dropped.   *)
Notify ==
    /\ notified < MaxEvents
    /\ notified' = notified + 1
    /\ IF Len(broadcast) < BroadcastSize
       THEN broadcast' = Append(broadcast, notified')
       ELSE UNCHANGED broadcast
    /\ UNCHANGED <<running, clients, register, unregister, fanout, current, clientVars,
                   sent, since, written, panicked>>

(***************************************************************************)
(* Run: between two selects it may be inside the loop over its clients.    *)
(***************************************************************************)

Selecting == running /\ fanout = {}

RunStop ==
    /\ Selecting
    /\ running' = FALSE
    /\ UNCHANGED <<clients, broadcast, register, unregister, fanout, current, clientVars, ghostVars>>

RunRegister ==
    /\ Selecting
    /\ register # <<>>
    /\ register' = Tail(register)
    /\ clients' = clients \cup {Head(register)}
    /\ since' = [since EXCEPT ![Head(register)] = Len(sent)]
    /\ UNCHANGED <<running, broadcast, unregister, fanout, current, clientVars,
                   notified, sent, written, panicked>>

(* delete(h.clients, c); close(c.send), which panics when it is closed.    *)
Drop(c) ==
    /\ clients' = clients \ {c}
    /\ closed' = closed \cup {c}
    /\ panicked' = (panicked \/ c \in closed)

(* Faulty: the channel is closed whether or not the client is in the map.  *)
RunUnregisterAlways ==
    /\ Selecting
    /\ unregister # <<>>
    /\ unregister' = Tail(unregister)
    /\ Drop(Head(unregister))
    /\ UNCHANGED <<running, broadcast, register, fanout, current, send, rpc, wpc, conn,
                   notified, sent, since, written>>

RunUnregister ==
    /\ Selecting
    /\ unregister # <<>>
    /\ unregister' = Tail(unregister)
    /\ IF Head(unregister) \in clients
       THEN Drop(Head(unregister))
       ELSE UNCHANGED <<clients, closed, panicked>>
    /\ UNCHANGED <<running, broadcast, register, fanout, current, send, rpc, wpc, conn,
                   notified, sent, since, written>>

RunBroadcast ==
    /\ Selecting
    /\ broadcast # <<>>
    /\ broadcast' = Tail(broadcast)
    /\ current' = Head(broadcast)
    /\ fanout' = clients
    /\ sent' = Append(sent, Head(broadcast))
    /\ UNCHANGED <<running, clients, register, unregister, clientVars,
                   notified, since, written, panicked>>

(* Faulty: a client that is too slow only misses the event.                *)
OfferOrSkip(c) ==
    /\ c \in fanout
    /\ fanout' = fanout \ {c}
    /\ send' = IF Len(send[c]) < SendSize THEN [send EXCEPT ![c] = Append(@, current)] ELSE send
    /\ panicked' = (panicked \/ c \in closed)
    /\ UNCHANGED <<clients, closed, running, broadcast, register, unregister, current, rpc, wpc,
                   conn, notified, sent, since, written>>

(* Faulty: Run waits for room in the channel of a client.                  *)
OfferBlocks(c) ==
    /\ running
    /\ c \in fanout
    /\ Len(send[c]) < SendSize
    /\ fanout' = fanout \ {c}
    /\ send' = [send EXCEPT ![c] = Append(@, current)]
    /\ UNCHANGED <<clients, closed, running, broadcast, register, unregister, current, rpc, wpc,
                   conn, ghostVars>>

(* select with a default: a client whose channel is full is dropped.       *)
Offer(c) ==
    /\ running
    /\ c \in fanout
    /\ fanout' = fanout \ {c}
    /\ IF c \in closed \/ Len(send[c]) < SendSize
       THEN /\ send' = [send EXCEPT ![c] = Append(@, current)]
            /\ panicked' = (panicked \/ c \in closed)
            /\ UNCHANGED <<clients, closed>>
       ELSE Drop(c) /\ UNCHANGED send
    /\ UNCHANGED <<running, broadcast, register, unregister, current, rpc, wpc, conn,
                   notified, sent, since, written>>

Run ==
    \/ RunRegister
    \/ RunUnregister
    \/ RunBroadcast
    \/ \E c \in fanout : Offer(c)

(***************************************************************************)
(* One connection.                                                         *)
(***************************************************************************)

Upgrade(c) ==
    /\ rpc[c] = "absent"
    /\ conn' = conn \cup {c}
    /\ rpc' = [rpc EXCEPT ![c] = "register"]
    /\ UNCHANGED <<hubVars, send, closed, wpc, ghostVars>>

(* h.register <- c blocks while the channel is full; then the pumps start. *)
Register(c) ==
    /\ rpc[c] = "register"
    /\ Len(register) < RegisterSize
    /\ register' = Append(register, c)
    /\ rpc' = [rpc EXCEPT ![c] = "read"]
    /\ wpc' = [wpc EXCEPT ![c] = "take"]
    /\ UNCHANGED <<running, clients, broadcast, unregister, fanout, current,
                   send, closed, conn, ghostVars>>

(* The peer goes away, or sends what ReadMessage refuses.                  *)
Disconnect(c) ==
    /\ c \in conn
    /\ conn' = conn \ {c}
    /\ UNCHANGED <<hubVars, send, closed, rpc, wpc, ghostVars>>

(* writePump takes an event and calls WriteMessage with it.                *)
WriteEvent(c) ==
    /\ wpc[c] = "take"
    /\ send[c] # <<>>
    /\ send' = [send EXCEPT ![c] = Tail(@)]
    /\ written' = IF c \in conn THEN [written EXCEPT ![c] = Append(@, Head(send[c]))] ELSE written
    /\ wpc' = [wpc EXCEPT ![c] = "write"]
    /\ UNCHANGED <<hubVars, closed, rpc, conn, notified, sent, since, panicked>>

(* Faulty: the pump ends as soon as the channel is closed.                 *)
WriteCloseAtOnce(c) ==
    /\ wpc[c] = "take"
    /\ c \in closed
    /\ wpc' = [wpc EXCEPT ![c] = "close"]
    /\ UNCHANGED <<hubVars, send, closed, rpc, conn, ghostVars>>

(* A closed channel that is empty: the last message is a close frame.      *)
WriteClose(c) ==
    /\ wpc[c] = "take"
    /\ send[c] = <<>>
    /\ c \in closed
    /\ wpc' = [wpc EXCEPT ![c] = "close"]
    /\ UNCHANGED <<hubVars, send, closed, rpc, conn, ghostVars>>

(* WriteMessage has no deadline: while the peer is there and does not read *)
(* it need not return.  It fails once the connection is closed, but may    *)
(* not notice while only the peer is away.                                 *)
WriteReturns(c) ==
    /\ \/ /\ wpc[c] = "write" /\ rpc[c] # "gone"
          /\ wpc' = [wpc EXCEPT ![c] = "take"]
          /\ UNCHANGED conn
       \/ /\ wpc[c] = "close" \/ (wpc[c] = "write" /\ c \notin conn)
          /\ wpc' = [wpc EXCEPT ![c] = "gone"]
          /\ conn' = conn \ {c}
    /\ UNCHANGED <<hubVars, send, closed, rpc, ghostVars>>

(* ReadMessage fails once the connection is closed.                        *)
ReadFails(c) ==
    /\ rpc[c] = "read"
    /\ c \notin conn
    /\ rpc' = [rpc EXCEPT ![c] = "unregister"]
    /\ UNCHANGED <<hubVars, send, closed, wpc, conn, ghostVars>>

(* The deferred unregister <- c blocks while the channel is full.          *)
Unregister(c) ==
    /\ rpc[c] = "unregister"
    /\ Len(unregister) < RegisterSize
    /\ unregister' = Append(unregister, c)
    /\ rpc' = [rpc EXCEPT ![c] = "gone"]
    /\ UNCHANGED <<running, clients, broadcast, register, fanout, current,
                   send, closed, wpc, conn, ghostVars>>

Pumps(c) ==
    \/ Register(c)
    \/ WriteEvent(c)
    \/ WriteClose(c)
    \/ WriteReturns(c)
    \/ ReadFails(c)
    \/ Unregister(c)

Next ==
    \/ Notify
    \/ RunStop
    \/ Run
    \/ \E c \in Clients : Upgrade(c) \/ Disconnect(c) \/ Pumps(c)

Spec == Init /\ [][Next]_vars

(* Run, the writePumps and ServeWS with the readPump that follows it are   *)
(* goroutines that keep running.  A WriteMessage whose peer is there       *)
(* returns when the peer reads, which nothing makes it do; one whose peer  *)
(* is away comes to an end.                                                *)
LiveSpec ==
    /\ Spec
    /\ WF_vars(Run)
    /\ \A c \in Clients :
          /\ WF_vars(WriteEvent(c) \/ WriteClose(c) \/ (c \notin conn /\ WriteReturns(c)))
          /\ WF_vars(Register(c) \/ ReadFails(c) \/ Unregister(c))

(* Run never sends on a channel it closed and never closes one twice, also *)
(* when a client is unregistered before Run has seen its registration.     *)
NoPanic == ~panicked

(* A connection gets the events from its registration on, in the order of  *)
(* the calls of Notify that were not dropped and without a gap: a client   *)
(* that cannot keep up loses its connection, never a single event.         *)
NoGaps ==
    \A c \in Clients :
        LET due == SubSeq(sent, since[c] + 1, Len(sent))
        IN  /\ IsPrefix(written[c], due)
            /\ c \in conn \cap clients /\ fanout = {} => written[c] \o send[c] = due

(* The hub never keeps a readPump waiting, whatever the clients do, also   *)
(* one whose peer stopped reading in the middle of a message: it gets rid  *)
(* of its registration as long as Run has not been stopped.                *)
ReadersLeave ==
    \A c \in Clients : rpc[c] = "unregister" ~> rpc[c] = "gone" \/ ~running

(* A peer that reads, so that no WriteMessage lasts for ever, gets all     *)
(* that is in its channel unless it goes away while its writePump runs:    *)
(* when Run drops a client that is too slow, what it was given before is   *)
(* still written before the connection closes.  Nothing is said once Run   *)
(* has been stopped, which the process does not outlive for long.          *)
BufferedIsWritten ==
    \A c \in Clients :
        []<>(wpc[c] \notin {"write", "close"}) =>
            (c \in conn /\ send[c] # <<>> ~>
                \/ send[c] = <<>>
                \/ c \notin conn /\ wpc[c] # "gone"
                \/ ~running)

=============================================================================
