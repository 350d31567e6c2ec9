-------------------------------- MODULE ClientHub -------------------------------
(***************************************************************************)
(* Live updates of the API: a hub of WebSocket clients, each with a        *)
(* bounded queue, a goroutine that reads the connection and one that       *)
(* writes to it.  Messages are broadcast by the callbacks of the NATS      *)
(* subscriptions and by HTTP handlers, at the same time.                   *)
(***************************************************************************)
EXTENDS Naturals, Sequences

CONSTANTS
    Clients,        \* connections of browsers
    Broadcasters,   \* goroutines that call Broadcast
    Topic,          \* Topic[b]: topic of what b broadcasts
    Subscriptions,  \* sets of topics that a browser may ask for
    Capacity        \* of a client's queue

Topics == {Topic[b] : b \in Broadcasters} \cup UNION Subscriptions

ASSUME HubAssumption == Capacity \in Nat \ {0}

VARIABLES
    registered,   \* hub.clients
    queue,        \* client.send: topics of the messages, "ack" for Connected
    closed,       \* clients whose queue is closed
    conn,         \* the connection
    handler,      \* handleWebSocket, which becomes the read loop
    writer,       \* the write loop
    topics,       \* client.topics
    adding,       \* topics of a subscription that are not in client.topics yet
    inbox,        \* inbox[b]: messages that b has to broadcast
    broadcaster   \* what each broadcaster is doing

clientVars == <<conn, handler, writer, topics, adding>>
hubVars == <<registered, queue, closed, clientVars, inbox, broadcaster>>

--------------------------------------------------------------------------------

Quiet == [step |-> "quiet"]
Sending(b) == broadcaster[b] # Quiet

\* A broadcaster holds the read lock of the hub, which excludes the write lock.
Unlocked == \A b \in Broadcasters : ~ Sending(b)

HubTypeOK ==
    /\ registered \subseteq Clients
    /\ queue \in [Clients -> Seq(Topics \cup {"ack"})]
    /\ \A c \in Clients : Len(queue[c]) <= Capacity
    /\ closed \subseteq Clients
    /\ conn \in [Clients -> {"none", "open", "broken"}]
    /\ handler \in [Clients -> {"none", "ack", "reading", "leaving", "gone"}]
    /\ writer \in [Clients -> {"none", "select", "write", "done"}]
    /\ topics \in [Clients -> SUBSET Topics]
    /\ adding \in [Clients -> SUBSET Topics]
    /\ inbox \in [Broadcasters -> Nat]
    /\ broadcaster \in [Broadcasters -> {Quiet} \cup [step : {"offer"}, left : SUBSET Clients]]

HubInit ==
    /\ registered = {}
    /\ queue = [c \in Clients |-> <<>>]
    /\ closed = {}
    /\ conn = [c \in Clients |-> "none"]
    /\ handler = [c \in Clients |-> "none"]
    /\ writer = [c \in Clients |-> "none"]
    /\ topics = [c \in Clients |-> {}]
    /\ adding = [c \in Clients |-> {}]
    /\ inbox = [b \in Broadcasters |-> 0]
    /\ broadcaster = [b \in Broadcasters |-> Quiet]

\* The API process stops, and every connection with it.
HubStops ==
    /\ registered' = {}
    /\ queue' = [c \in Clients |-> <<>>]
    /\ closed' = {}
    /\ conn' = [c \in Clients |-> "none"]
    /\ handler' = [c \in Clients |-> "none"]
    /\ writer' = [c \in Clients |-> "none"]
    /\ topics' = [c \in Clients |-> {}]
    /\ adding' = [c \in Clients |-> {}]
    /\ inbox' = [b \in Broadcasters |-> 0]
    /\ broadcaster' = [b \in Broadcasters |-> Quiet]

--------------------------------------------------------------------------------
(* Broadcast.                                                              *)

\* A message arrives for b, from the NATS connection or as an HTTP request.
Receive(b) ==
    /\ inbox' = [inbox EXCEPT ![b] = @ + 1]
    /\ UNCHANGED <<registered, queue, closed, clientVars, broadcaster>>

BeginBroadcast(b) ==
    /\ ~ Sending(b)
    /\ inbox[b] > 0
    /\ inbox' = [inbox EXCEPT ![b] = @ - 1]
    /\ broadcaster' = [broadcaster EXCEPT ![b] = [step |-> "offer", left |-> registered]]
    /\ UNCHANGED <<registered, queue, closed, clientVars>>

\* No topics is all topics.
Subscribed(c, topic) == topic \in topics[c] \/ topics[c] = {}

OfferFaulty(b, c) ==
    /\ Sending(b)
    /\ c \in broadcaster[b].left
    /\ queue' = [queue EXCEPT ![c] = IF Subscribed(c, Topic[b]) THEN Append(@, Topic[b]) ELSE @]
    /\ broadcaster' = [broadcaster EXCEPT ![b].left = @ \ {c}]
    /\ UNCHANGED <<registered, closed, clientVars, inbox>>

OfferBlocking(b, c) ==
    /\ Subscribed(c, Topic[b]) => Len(queue[c]) < Capacity
    /\ OfferFaulty(b, c)

\* A message for a full queue is dropped.
Offer(b, c) ==
    /\ Sending(b)
    /\ c \in broadcaster[b].left
    /\ queue' = [queue EXCEPT ![c] =
                    IF Subscribed(c, Topic[b]) /\ Len(@) < Capacity
                    THEN Append(@, Topic[b]) ELSE @]
    /\ broadcaster' = [broadcaster EXCEPT ![b].left = @ \ {c}]
    /\ UNCHANGED <<registered, closed, clientVars, inbox>>

EndBroadcast(b) ==
    /\ Sending(b)
    /\ broadcaster[b].left = {}
    /\ broadcaster' = [broadcaster EXCEPT ![b] = Quiet]
    /\ UNCHANGED <<registered, queue, closed, clientVars, inbox>>

\* Broadcast reads the map of topics while the read loop writes to it, without a
\* lock: the runtime may stop the process.
TopicsRace(b, c) ==
    /\ Sending(b)
    /\ c \in broadcaster[b].left
    /\ adding[c] # {}
    /\ HubStops

--------------------------------------------------------------------------------
(* A client: handleWebSocket and the read loop.                            *)

\* Upgrade and Add: from here on broadcasts reach the queue.
Connect(c) ==
    /\ Unlocked
    /\ \/ handler[c] = "none"
       \/ handler[c] = "gone" /\ writer[c] = "done"
    /\ registered' = registered \cup {c}
    /\ queue' = [queue EXCEPT ![c] = <<>>]
    /\ closed' = closed \ {c}
    /\ conn' = [conn EXCEPT ![c] = "open"]
    /\ handler' = [handler EXCEPT ![c] = "ack"]
    /\ writer' = [writer EXCEPT ![c] = "none"]
    /\ topics' = [topics EXCEPT ![c] = {}]
    /\ UNCHANGED <<adding, inbox, broadcaster>>

\* The acknowledgement waits for room in the queue, which nobody empties before
\* the write loop is started.
Acknowledge(c) ==
    /\ handler[c] = "ack"
    /\ Len(queue[c]) < Capacity
    /\ queue' = [queue EXCEPT ![c] = Append(@, "ack")]
    /\ handler' = [handler EXCEPT ![c] = "reading"]
    /\ writer' = [writer EXCEPT ![c] = "select"]
    /\ UNCHANGED <<registered, closed, conn, topics, adding, inbox, broadcaster>>

\* A subscription replaces the map by an empty one and then fills it.
Subscribe(c, wanted) ==
    /\ handler[c] = "reading" /\ adding[c] = {}
    /\ conn[c] = "open"
    /\ topics' = [topics EXCEPT ![c] = {}]
    /\ adding' = [adding EXCEPT ![c] = wanted]
    /\ UNCHANGED <<registered, queue, closed, conn, handler, writer, inbox, broadcaster>>

AddTopic(c, topic) ==
    /\ topic \in adding[c]
    /\ topics' = [topics EXCEPT ![c] = @ \cup {topic}]
    /\ adding' = [adding EXCEPT ![c] = @ \ {topic}]
    /\ UNCHANGED <<registered, queue, closed, conn, handler, writer, inbox, broadcaster>>

ConnectionBreaks(c) ==
    /\ conn[c] = "open"
    /\ conn' = [conn EXCEPT ![c] = "broken"]
    /\ UNCHANGED <<registered, queue, closed, handler, writer, topics, adding, inbox, broadcaster>>

ReadFailsFaulty(c) ==
    /\ handler[c] = "reading" /\ adding[c] = {}
    /\ conn[c] = "broken"
    /\ handler' = [handler EXCEPT ![c] = "gone"]
    /\ UNCHANGED <<registered, queue, closed, conn, writer, topics, adding, inbox, broadcaster>>

\* The loop ends, and its deferred calls close the connection and call Remove.
ReadFails(c) ==
    /\ handler[c] = "reading" /\ adding[c] = {}
    /\ conn[c] = "broken"
    /\ handler' = [handler EXCEPT ![c] = "leaving"]
    /\ UNCHANGED <<registered, queue, closed, conn, writer, topics, adding, inbox, broadcaster>>

RemoveFaulty(c) ==
    /\ handler[c] = "leaving"
    /\ registered' = registered \ {c}
    /\ closed' = closed \cup {c}
    /\ handler' = [handler EXCEPT ![c] = "gone"]
    /\ UNCHANGED <<queue, conn, writer, topics, adding, inbox, broadcaster>>

\* Remove takes the write lock; a client leaves once, so its queue is closed once.
Remove(c) ==
    /\ handler[c] = "leaving"
    /\ Unlocked
    /\ c \in registered
    /\ registered' = registered \ {c}
    /\ closed' = closed \cup {c}
    /\ handler' = [handler EXCEPT ![c] = "gone"]
    /\ UNCHANGED <<queue, conn, writer, topics, adding, inbox, broadcaster>>

--------------------------------------------------------------------------------
(* The write loop.                                                         *)

TakeMessage(c) ==
    /\ writer[c] = "select"
    /\ queue[c] # <<>>
    /\ queue' = [queue EXCEPT ![c] = Tail(@)]
    /\ writer' = [writer EXCEPT ![c] = "write"]
    /\ UNCHANGED <<registered, closed, conn, handler, topics, adding, inbox, broadcaster>>

\* WriteJSON has no deadline: a browser that does not read may hold it for ever.
WriteMessage(c) ==
    /\ writer[c] = "write"
    /\ conn[c] = "open"
    /\ writer' = [writer EXCEPT ![c] = "select"]
    /\ UNCHANGED <<registered, queue, closed, conn, handler, topics, adding, inbox, broadcaster>>

\* The queue is closed, or a message or a ping cannot be written; the loop closes the
\* connection, which ends the read loop, too.
WriterEnds(c) ==
    /\ writer[c] \in {"select", "write"}
    /\ writer' = [writer EXCEPT ![c] = "done"]
    /\ conn' = [conn EXCEPT ![c] = "broken"]
    /\ UNCHANGED <<registered, queue, closed, handler, topics, adding, inbox, broadcaster>>

--------------------------------------------------------------------------------
(* Properties.                                                             *)

\* Nobody is about to send on a closed queue, which would stop the process: a
\* client leaves between two broadcasts, and never before its acknowledgement.
NoSendOnClosedQueue ==
    /\ \A b \in Broadcasters : Sending(b) => broadcaster[b].left \cap closed = {}
    /\ \A c \in Clients : handler[c] = "ack" => c \notin closed

\* Add and Remove pair up, whatever stalls, breaks or restarts in between: the hub
\* holds exactly the clients whose handler or read loop has yet to remove them, and
\* who is neither new nor held has a closed queue, which lets its write loop end.
NoClientIsLeaked ==
    \A c \in Clients :
        /\ c \in registered <=> handler[c] \in {"ack", "reading", "leaving"}
        /\ c \in closed <=> handler[c] = "gone"

\* Goroutines run.  A write to a connection that is open need not return, and a
\* browser need not read.  A blocked Lock excludes later readers, so it is granted.
HubFairness ==
    /\ \A b \in Broadcasters :
          WF_hubVars(\/ \E c \in Clients : Offer(b, c)
                     \/ EndBroadcast(b))
    /\ \A c \in Clients :
          /\ SF_hubVars(\/ \E topic \in Topics : AddTopic(c, topic)
                        \/ ReadFails(c)
                        \/ Remove(c))
          /\ WF_hubVars(conn[c] = "broken" /\ WriterEnds(c))

\* A broadcast ends, however slow or dead the browsers are.
SlowClientsDelayNobody ==
    \A b \in Broadcasters : Sending(b) ~> ~ Sending(b)

\* A client whose connection has broken, once its loops run, leaves the hub, and
\* both its loops end.
BrokenClientsLeave ==
    \A c \in Clients :
        conn[c] = "broken" /\ handler[c] \in {"reading", "leaving"} ~>
            c \notin registered /\ writer[c] \in {"none", "done"}

================================================================================
