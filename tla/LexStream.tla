----------------------------- MODULE LexStream -----------------------------
(***************************************************************************)
(* The lex stream of one channel (internal/model/channelLexiconStream.go): *)
(* subscribers register a bounded bus under clientsmu, broadcast sends to  *)
(* every registered bus without blocking and evicts a subscriber whose bus *)
(* is full, and every subscriber's wsWriter moves events from its bus to   *)
(* its websocket.  An event is the position of its broadcast.              *)
(*                                                                         *)
(* A subscriber takes clientsmu for a single change of the client set, so  *)
(* its critical section is one step; a broadcast holds it for one step per *)
(* client.                                                                 *)
(***************************************************************************)
EXTENDS Naturals, Sequences

CONSTANTS Client,   \* subscribers, each of which connects once
          Cap,      \* capacity of a bus (10)
          MaxSent   \* bound on the number of broadcasts

ASSUME CapAssumption == Cap \in Nat \ {0}

VARIABLES
  clients,  \* cm.clients
  bus,      \* what the bus of a client holds
  closed,   \* whether the bus was closed
  cpc,      \* control of the client's WSHandler: "select" and "write" are wsWriter's
  hand,     \* the event WriteJSON is writing
  conn,     \* the peer: "up", "stalled" (its socket takes no bytes) or "down"
  sending,  \* a broadcast holds clientsmu
  todo,     \* the clients its range loop still has to visit
  sent,     \* number of broadcasts so far
  next,     \* the broadcast the peer receives next
  panicked  \* a send on a closed bus, or a second close, ended the process

stream == <<sending, todo, sent>>
vars == <<clients, bus, closed, cpc, hand, conn, stream, next, panicked>>

Writing == {"select", "write"}

TypeOK ==
  /\ clients \subseteq Client /\ todo \subseteq Client
  /\ bus \in [Client -> Seq(Nat)]
  /\ \A c \in Client : Len(bus[c]) <= Cap
  /\ closed \in [Client -> BOOLEAN]
  /\ cpc \in [Client -> {"out", "register", "unregister", "gone"} \cup Writing]
  /\ hand \in [Client -> Nat]
  /\ conn \in [Client -> {"up", "stalled", "down"}]
  /\ sending \in BOOLEAN /\ panicked \in BOOLEAN
  /\ sent \in Nat
  /\ next \in [Client -> Nat]

Init ==
  /\ clients = {} /\ todo = {}
  /\ bus = [c \in Client |-> <<>>]
  /\ closed = [c \in Client |-> FALSE]
  /\ cpc = [c \in Client |-> "out"]
  /\ hand = [c \in Client |-> 0]
  /\ conn = [c \in Client |-> "up"]
  /\ sending = FALSE /\ panicked = FALSE
  /\ sent = 0
  /\ next = [c \in Client |-> 0]

Goto(c, pc) == cpc' = [cpc EXCEPT ![c] = pc]

-----------------------------------------------------------------------------
(* The handler of a subscriber.                                            *)

\* The connection is upgraded and the bus made.
Upgrade(c) ==
  /\ cpc[c] = "out"
  /\ Goto(c, "register")
  /\ UNCHANGED <<clients, bus, closed, hand, conn, stream, next, panicked>>

Register(c) ==
  /\ cpc[c] = "register" /\ ~sending
  /\ clients' = clients \cup {c}
  /\ next' = [next EXCEPT ![c] = sent + 1]
  /\ Goto(c, "select")
  /\ UNCHANGED <<bus, closed, hand, conn, stream, panicked>>

\* case e := <-c.bus
Take(c) ==
  /\ cpc[c] = "select" /\ bus[c] # <<>>
  /\ hand' = [hand EXCEPT ![c] = Head(bus[c])]
  /\ bus' = [bus EXCEPT ![c] = Tail(@)]
  /\ Goto(c, "write")
  /\ UNCHANGED <<clients, closed, conn, stream, next, panicked>>

\* WriteJSON: blocks while the peer is stalled, and its error is ignored.
Write(c) ==
  /\ cpc[c] = "write" /\ conn[c] # "stalled"
  /\ next' = IF conn[c] = "up" THEN [next EXCEPT ![c] = hand[c] + 1] ELSE next
  /\ Goto(c, "select")
  /\ UNCHANGED <<clients, bus, closed, hand, conn, stream, panicked>>

\* Mutant: a closed bus is not noticed.
BusClosedIgnored(c) == FALSE

\* case e, ok := <-c.bus with !ok: what was in the bus has been taken.
BusClosed(c) ==
  /\ cpc[c] = "select" /\ bus[c] = <<>> /\ closed[c]
  /\ Goto(c, "unregister")
  /\ UNCHANGED <<clients, bus, closed, hand, conn, stream, next, panicked>>

\* case <-ticker.C: the ping fails; within its deadline if the peer is stalled.
PingFails(c) ==
  /\ cpc[c] = "select" /\ conn[c] # "up"
  /\ Goto(c, "unregister")
  /\ UNCHANGED <<clients, bus, closed, hand, conn, stream, next, panicked>>

UnregisterNothing(c) == \* mutant: the handler leaves its client behind
  /\ cpc[c] = "unregister"
  /\ Goto(c, "gone")
  /\ UNCHANGED <<clients, bus, closed, hand, conn, stream, next, panicked>>

Unregister(c) ==
  /\ cpc[c] = "unregister" /\ ~sending
  /\ clients' = clients \ {c}
  /\ Goto(c, "gone")
  /\ UNCHANGED <<bus, closed, hand, conn, stream, next, panicked>>

\* The peer stops reading, reads again, or is lost.
Peer(c, state) ==
  /\ cpc[c] \in Writing /\ conn[c] # "down" /\ conn[c] # state
  /\ conn' = [conn EXCEPT ![c] = state]
  /\ UNCHANGED <<clients, bus, closed, cpc, hand, stream, next, panicked>>

-----------------------------------------------------------------------------
(* broadcast, called for a signet, a message or an image.                  *)

Broadcast ==
  /\ ~sending /\ sent < MaxSent
  /\ sending' = TRUE /\ todo' = clients /\ sent' = sent + 1
  /\ UNCHANGED <<clients, bus, closed, cpc, hand, conn, next, panicked>>

\* case cli.bus <- a
Enqueue(c) ==
  /\ bus' = [bus EXCEPT ![c] = Append(@, sent)]
  /\ UNCHANGED <<clients, closed>>

\* Mutants of the default case: the client stays registered; only the event is
\* dropped; the oldest event makes room; there is no default case and the send
\* waits for room.
EvictOnlyClose(c) == closed' = [closed EXCEPT ![c] = TRUE] /\ UNCHANGED <<clients, bus>>
EvictNobody(c) == UNCHANGED <<clients, bus, closed>>
EvictOldest(c) ==
  bus' = [bus EXCEPT ![c] = Append(Tail(@), sent)] /\ UNCHANGED <<clients, closed>>
EvictNever(c) == FALSE

\* default: delete(cm.clients, cli); close(cli.bus)
Evict(c) ==
  /\ clients' = clients \ {c}
  /\ closed' = [closed EXCEPT ![c] = TRUE]
  /\ UNCHANGED bus

\* Mutant: off by one in what fits.
SendBeyondCap(c) ==
  /\ sending /\ c \in todo
  /\ todo' = todo \ {c}
  /\ IF Len(bus[c]) <= Cap THEN Enqueue(c) ELSE Evict(c)
  /\ panicked' = closed[c]
  /\ UNCHANGED <<cpc, hand, conn, sending, sent, next>>

\* One round of the range loop; a closed bus panics in either case.
Send(c) ==
  /\ sending /\ c \in todo
  /\ todo' = todo \ {c}
  /\ IF Len(bus[c]) < Cap THEN Enqueue(c) ELSE Evict(c)
  /\ panicked' = closed[c]
  /\ UNCHANGED <<cpc, hand, conn, sending, sent, next>>

Unlock ==
  /\ sending /\ todo = {}
  /\ sending' = FALSE
  /\ UNCHANGED <<clients, bus, closed, cpc, hand, conn, todo, sent, next, panicked>>

-----------------------------------------------------------------------------
WSHandler(c) ==
  Register(c) \/ Take(c) \/ Write(c) \/ BusClosed(c) \/ PingFails(c) \/ Unregister(c)

Next ==
  \/ \E c \in Client : Upgrade(c) \/ WSHandler(c) \/ Send(c)
                       \/ \E state \in {"up", "stalled", "down"} : Peer(c, state)
  \/ Broadcast \/ Unlock

Spec == Init /\ [][~panicked /\ Next]_vars

\* Goroutines run, and Go's mutex does not starve a goroutine that waits for
\* it; nobody has to subscribe, to broadcast, or to be a good peer.
Fairness ==
  /\ \A c \in Client :
       /\ SF_vars(~panicked /\ Register(c)) /\ SF_vars(~panicked /\ Unregister(c))
       /\ WF_vars(~panicked /\ Take(c)) /\ SF_vars(~panicked /\ Write(c))
       /\ WF_vars(~panicked /\ BusClosed(c)) /\ SF_vars(~panicked /\ PingFails(c))
       /\ WF_vars(~panicked /\ Send(c))
  /\ WF_vars(~panicked /\ Unlock)

FairSpec == Spec /\ Fairness

-----------------------------------------------------------------------------
(* Properties.                                                             *)

\* No send on a closed bus and no second close: a bus is closed in the same
\* critical section that removes its client (channelLexiconStream.go:80-88).
NoSendOnClosed == ~panicked /\ \A c \in clients : ~closed[c]

\* A client in cm.clients still has a handler that will remove it.
RegisteredHasHandler == \A c \in clients : cpc[c] \in Writing \cup {"unregister"}

\* A subscriber receives the broadcasts in order and without a gap from its
\* registration on: a slow one is cut off, never skipped over.
Feed == INSTANCE LexFeed WITH
          status <- [c \in Client |->
                       CASE cpc[c] \in {"out", "register"} -> "out"
                         [] cpc[c] = "gone" -> "gone"
                         [] OTHER -> "in"]
ImplementsLexFeed == Feed!Spec

\* A broadcast ends, however many peers take no bytes.
BroadcastCompletes == sending ~> ~sending

\* A registered subscriber catches up, unless it is cut off or its peer stalls.
CatchesUp ==
  \A c \in Client : c \in clients ~> (next[c] = sent + 1 \/ c \notin clients \/ conn[c] # "up")

\* The handler of a subscriber that was evicted, or whose peer is lost, ends
\* unless a stalled peer keeps its WriteJSON, which has no deadline, waiting.
DeadClientsLeave ==
  \A c \in Client : closed[c] \/ conn[c] = "down" ~> (cpc[c] = "gone" \/ conn[c] = "stalled")
=============================================================================
