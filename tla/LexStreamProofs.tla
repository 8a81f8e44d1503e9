-------------------------- MODULE LexStreamProofs --------------------------
(***************************************************************************)
(* Proofs about LexStream for every set of subscribers, every capacity of  *)
(* their buses and every number of broadcasts: no broadcast ever sends on  *)
(* a closed bus, and the stream implements LexFeed.                        *)
(***************************************************************************)
EXTENDS LexStream, TLAPS

(* The inductive invariant.                                                *)

\* A broadcast visits registered clients only, and a client that has not
\* registered yet has a fresh bus.
ClientInv ==
  /\ todo \subseteq clients /\ (~sending => todo = {})
  /\ \A c \in clients : ~closed[c] /\ cpc[c] \in Writing \cup {"unregister"}
  /\ \A c \in Client : cpc[c] \in {"out", "register"} => bus[c] = <<>> /\ ~closed[c]
  /\ ~panicked

\* The broadcasts a subscriber has in hand.
InHand(c) == IF cpc[c] = "write" THEN 1 ELSE 0
\* The first broadcast that has not reached its bus.
Ahead(c) == next[c] + InHand(c) + Len(bus[c])

\* Hand and bus of a subscriber hold the broadcasts from next on, without a
\* gap; those of a registered one reach to the last broadcast that visited it.
FeedInv(c) ==
  cpc[c] \in Writing /\ conn[c] # "down" =>
    /\ cpc[c] = "write" => hand[c] = next[c]
    /\ \A i \in 1..Len(bus[c]) : bus[c][i] = next[c] + InHand(c) + i - 1
    /\ Ahead(c) <= sent + 1
    /\ c \in clients => Ahead(c) = IF c \in todo THEN sent ELSE sent + 1

IInv == TypeOK /\ ClientInv /\ \A c \in Client : FeedInv(c)

-----------------------------------------------------------------------------
\* Taking the head of a bus moves the rest up, adding an event leaves it alone.
LEMMA BusOps ==
  ASSUME NEW q \in Seq(Nat)
  PROVE  /\ Len(q) \in Nat
         /\ q # <<>> => /\ Tail(q) \in Seq(Nat) /\ Len(Tail(q)) = Len(q) - 1 /\ Len(q) > 0
                        /\ Head(q) \in Nat /\ Head(q) = q[1]
                        /\ \A i \in 1..Len(Tail(q)) : Tail(q)[i] = q[i + 1]
         /\ \A n \in Nat : /\ Append(q, n) \in Seq(Nat) /\ Len(Append(q, n)) = Len(q) + 1
                           /\ Append(q, n)[Len(q) + 1] = n
                           /\ \A i \in 1..Len(q) : Append(q, n)[i] = q[i]
  OBVIOUS

\* Every step keeps every variable in its type.
LEMMA TypeStep == TypeOK /\ [~panicked /\ Next]_vars => TypeOK'
<1> SUFFICES ASSUME TypeOK, [~panicked /\ Next]_vars PROVE TypeOK'
  OBVIOUS
<1> USE CapAssumption DEF TypeOK, Goto, Writing, stream
<1>1. ASSUME NEW c \in Client, Upgrade(c) \/ BusClosed(c) \/ PingFails(c) PROVE TypeOK'
  <2>1. CASE Upgrade(c)
    BY <2>1 DEF Upgrade
  <2>2. CASE BusClosed(c)
    BY <2>2 DEF BusClosed
  <2>3. CASE PingFails(c)
    BY <2>3 DEF PingFails
  <2>4. QED
    BY <1>1, <2>1, <2>2, <2>3
<1>2. ASSUME NEW c \in Client, Register(c) PROVE TypeOK'
  BY <1>2 DEF Register
<1>3. ASSUME NEW c \in Client, Take(c) PROVE TypeOK'
  <2>1. Tail(bus[c]) \in Seq(Nat) /\ Len(Tail(bus[c])) <= Cap /\ Head(bus[c]) \in Nat
    BY <1>3, BusOps DEF Take
  <2>2. QED
    BY <1>3, <2>1 DEF Take
<1>4. ASSUME NEW c \in Client, Write(c) PROVE TypeOK'
  BY <1>4 DEF Write
<1>5. ASSUME NEW c \in Client, Unregister(c) PROVE TypeOK'
  BY <1>5 DEF Unregister
<1>6. ASSUME NEW c \in Client, NEW state \in {"up", "stalled", "down"}, Peer(c, state) PROVE TypeOK'
  BY <1>6 DEF Peer
<1>7. ASSUME NEW c \in Client, Send(c) PROVE TypeOK'
  <2>1. CASE Len(bus[c]) < Cap
    <3>1. Append(bus[c], sent) \in Seq(Nat) /\ Len(Append(bus[c], sent)) <= Cap
      BY <2>1, BusOps
    <3>2. QED
      BY <1>7, <2>1, <3>1 DEF Send, Enqueue
  <2>2. CASE ~(Len(bus[c]) < Cap)
    BY <1>7, <2>2 DEF Send, Evict
  <2>3. QED
    BY <2>1, <2>2
<1>8. CASE Broadcast
  BY <1>8 DEF Broadcast
<1>9. CASE Unlock
  BY <1>9 DEF Unlock
<1>10. CASE UNCHANGED vars
  BY <1>10 DEF vars
<1>11. QED
  BY <1>1, <1>2, <1>3, <1>4, <1>5, <1>6, <1>7, <1>8, <1>9, <1>10 DEF Next, WSHandler

\* Nobody has subscribed yet, and nothing was broadcast.
LEMMA Initial == Init => IInv
<1> SUFFICES ASSUME Init PROVE IInv
  OBVIOUS
<1>1. bus \in [Client -> Seq(Nat)] /\ \A c \in Client : Len(bus[c]) <= Cap
  BY CapAssumption DEF Init
<1>2. TypeOK
  BY <1>1 DEF Init, TypeOK, Writing
<1>3. ClientInv /\ \A c \in Client : FeedInv(c)
  BY DEF Init, ClientInv, FeedInv, Writing
<1>4. QED
  BY <1>2, <1>3 DEF IInv

\* Every step keeps registration, control and closed bus of a client in line.
LEMMA ClientStep == TypeOK /\ ClientInv /\ [~panicked /\ Next]_vars => ClientInv'
<1> SUFFICES ASSUME TypeOK, ClientInv, [~panicked /\ Next]_vars PROVE ClientInv'
  OBVIOUS
<1> USE DEF TypeOK, ClientInv, Goto, Writing, stream
<1>1. ASSUME NEW c \in Client, Upgrade(c) \/ BusClosed(c) \/ PingFails(c) PROVE ClientInv'
  <2>1. CASE Upgrade(c)
    BY <2>1 DEF Upgrade
  <2>2. CASE BusClosed(c)
    BY <2>2 DEF BusClosed
  <2>3. CASE PingFails(c)
    BY <2>3 DEF PingFails
  <2>4. QED
    BY <1>1, <2>1, <2>2, <2>3
<1>2. ASSUME NEW c \in Client, Register(c) PROVE ClientInv'
  BY <1>2 DEF Register
<1>3. ASSUME NEW c \in Client, Take(c) PROVE ClientInv'
  BY <1>3 DEF Take
<1>4. ASSUME NEW c \in Client, Write(c) PROVE ClientInv'
  BY <1>4 DEF Write
<1>5. ASSUME NEW c \in Client, Unregister(c) PROVE ClientInv'
  BY <1>5 DEF Unregister
<1>6. ASSUME NEW c \in Client, NEW state \in {"up", "stalled", "down"}, Peer(c, state)
      PROVE  ClientInv'
  BY <1>6 DEF Peer
<1>7. ASSUME NEW c \in Client, Send(c) PROVE ClientInv'
  BY <1>7 DEF Send, Enqueue, Evict
<1>8. CASE Broadcast \/ Unlock
  BY <1>8 DEF Broadcast, Unlock
<1>9. CASE UNCHANGED vars
  BY <1>9 DEF vars
<1>10. QED
  BY <1>1, <1>2, <1>3, <1>4, <1>5, <1>6, <1>7, <1>8, <1>9 DEF Next, WSHandler

\* A step that leaves a subscriber's own state and the broadcasts alone.
LEMMA FeedFrame ==
  ASSUME NEW c \in Client, FeedInv(c), cpc'[c] \in Writing => cpc'[c] = cpc[c],
         bus'[c] = bus[c], hand'[c] = hand[c], next'[c] = next[c],
         conn'[c] = "down" \/ conn[c] # "down", sent' = sent,
         c \in clients' => c \in clients /\ (c \in todo' <=> c \in todo)
  PROVE  FeedInv(c)'
  BY DEF FeedInv, Ahead, InHand, Writing

\* Every step keeps the event in hand and the bus of a client gapless.
LEMMA FeedStep == IInv /\ [~panicked /\ Next]_vars => \A d \in Client : FeedInv(d)'
<1> SUFFICES ASSUME IInv, [~panicked /\ Next]_vars, NEW d \in Client PROVE FeedInv(d)'
  OBVIOUS
<1> USE DEF Goto, Writing, stream
<1>0. TypeOK /\ ClientInv /\ FeedInv(d)
  BY DEF IInv
<1>1. ASSUME NEW c \in Client, Upgrade(c) \/ BusClosed(c) \/ PingFails(c) PROVE FeedInv(d)'
  BY <1>0, <1>1, FeedFrame DEF Upgrade, BusClosed, PingFails, TypeOK
<1>2. ASSUME NEW c \in Client, Register(c) PROVE FeedInv(d)'
  <2>1. CASE d = c
    BY <1>0, <1>2, <2>1 DEF Register, FeedInv, Ahead, InHand, TypeOK, ClientInv
  <2>2. CASE d # c
    BY <1>0, <1>2, <2>2, FeedFrame DEF Register, TypeOK
  <2>3. QED
    BY <2>1, <2>2
<1>3. ASSUME NEW c \in Client, Take(c) PROVE FeedInv(d)'
  <2>1. CASE d = c
    <3>1. /\ bus[d] \in Seq(Nat) /\ bus[d] # <<>> /\ cpc[d] = "select" /\ cpc'[d] = "write"
          /\ bus'[d] = Tail(bus[d]) /\ hand'[d] = Head(bus[d])
          /\ UNCHANGED <<clients, conn, todo, sent, next>>
      BY <1>0, <1>3, <2>1 DEF Take, TypeOK
    <3>2. next[d] \in Nat /\ sent \in Nat
      BY <1>0 DEF TypeOK
    <3>3. /\ Len(bus[d]) \in Nat /\ Len(bus[d]) > 0 /\ Len(bus'[d]) = Len(bus[d]) - 1
          /\ hand'[d] = bus[d][1] /\ \A i \in 1..Len(bus'[d]) : bus'[d][i] = bus[d][i + 1]
      BY <3>1, BusOps
    <3>4. ASSUME conn[d] # "down" PROVE FeedInv(d)'
      <4>1. /\ \A i \in 1..Len(bus[d]) : bus[d][i] = next[d] + i - 1
            /\ next[d] + Len(bus[d]) <= sent + 1
            /\ d \in clients => next[d] + Len(bus[d]) = IF d \in todo THEN sent ELSE sent + 1
        BY <1>0, <3>1, <3>2, <3>3, <3>4 DEF FeedInv, Ahead, InHand
      <4>2. hand'[d] = next[d]
        BY <3>2, <3>3, <4>1
      <4>3. \A i \in 1..Len(bus'[d]) : bus'[d][i] = next[d] + i
        BY <3>2, <3>3, <4>1
      <4>4. QED
        BY <3>1, <3>2, <3>3, <4>1, <4>2, <4>3 DEF FeedInv, Ahead, InHand
    <3>5. QED
      BY <3>1, <3>4 DEF FeedInv
  <2>2. CASE d # c
    BY <1>0, <1>3, <2>2, FeedFrame DEF Take, TypeOK
  <2>3. QED
    BY <2>1, <2>2
<1>4. ASSUME NEW c \in Client, Write(c) PROVE FeedInv(d)'
  <2>1. CASE d = c
    <3>1. /\ bus[d] \in Seq(Nat) /\ cpc[d] = "write" /\ cpc'[d] = "select"
          /\ conn[d] = "up" => next'[d] = hand[d] + 1
          /\ conn[d] \in {"up", "down"}
          /\ UNCHANGED <<clients, conn, todo, sent, bus>>
      BY <1>0, <1>4, <2>1 DEF Write, TypeOK
    <3>2. next[d] \in Nat /\ sent \in Nat
      BY <1>0 DEF TypeOK
    <3>3. QED
      BY <1>0, <3>1, <3>2, BusOps DEF FeedInv, Ahead, InHand
  <2>2. CASE d # c
    BY <1>0, <1>4, <2>2, FeedFrame DEF Write, TypeOK
  <2>3. QED
    BY <2>1, <2>2
<1>5. ASSUME NEW c \in Client, Unregister(c) PROVE FeedInv(d)'
  BY <1>0, <1>5, FeedFrame DEF Unregister, TypeOK
<1>6. ASSUME NEW c \in Client, NEW state \in {"up", "stalled", "down"}, Peer(c, state)
      PROVE  FeedInv(d)'
  BY <1>0, <1>6, FeedFrame DEF Peer, TypeOK
<1>7. ASSUME NEW c \in Client, Send(c) PROVE FeedInv(d)'
  <2>1. CASE d # c
    BY <1>0, <1>7, <2>1, FeedFrame DEF Send, Enqueue, Evict, TypeOK
  <2>2. CASE d = c /\ Len(bus[c]) < Cap
    <3>1. /\ d \in todo /\ d \in clients /\ todo' = todo \ {d} /\ d \in clients'
          /\ bus'[d] = Append(bus[d], sent) /\ bus[d] \in Seq(Nat)
          /\ UNCHANGED <<cpc, hand, conn, sent, next>>
      BY <1>0, <1>7, <2>2 DEF Send, Enqueue, TypeOK, ClientInv
    <3>2. next[d] \in Nat /\ sent \in Nat
      BY <1>0 DEF TypeOK
    <3>3. /\ Len(bus[d]) \in Nat /\ Len(bus'[d]) = Len(bus[d]) + 1
          /\ bus'[d][Len(bus[d]) + 1] = sent
          /\ \A i \in 1..Len(bus[d]) : bus'[d][i] = bus[d][i]
      BY <3>1, <3>2, BusOps
    <3>4. ASSUME conn[d] # "down", cpc[d] \in Writing PROVE FeedInv(d)'
      <4> DEFINE h == InHand(d)
      <4>1. /\ \A i \in 1..Len(bus[d]) : bus[d][i] = next[d] + h + i - 1
            /\ next[d] + h + Len(bus[d]) = sent /\ h \in {0, 1} /\ h' = h
            /\ cpc[d] = "write" => hand[d] = next[d]
        BY <1>0, <3>1, <3>2, <3>3, <3>4 DEF FeedInv, Ahead, InHand
      <4> HIDE DEF h
      <4>2. ASSUME NEW i \in 1..Len(bus'[d]) PROVE bus'[d][i] = next[d] + h + i - 1
        <5>1. CASE i = Len(bus[d]) + 1
          BY <3>2, <3>3, <4>1, <5>1
        <5>2. CASE i # Len(bus[d]) + 1
          <6>1. i \in 1..Len(bus[d])
            BY <3>3, <5>2
          <6>2. QED
            BY <3>3, <4>1, <6>1
        <5>3. QED
          BY <5>1, <5>2
      <4>3. next[d] + h + Len(bus'[d]) = sent + 1
        BY <3>2, <3>3, <4>1
      <4>4. QED
        BY <3>1, <3>2, <3>3, <4>1, <4>2, <4>3 DEF FeedInv, Ahead, h
    <3>5. QED
      BY <3>1, <3>4 DEF FeedInv
  <2>3. CASE d = c /\ ~(Len(bus[c]) < Cap)
    BY <1>0, <1>7, <2>3, FeedFrame DEF Send, Evict, TypeOK
  <2>4. QED
    BY <2>1, <2>2, <2>3
<1>8. CASE Broadcast
  BY <1>0, <1>8 DEF Broadcast, FeedInv, Ahead, InHand, TypeOK, ClientInv
<1>9. CASE Unlock
  BY <1>0, <1>9, FeedFrame DEF Unlock, TypeOK
<1>10. CASE UNCHANGED vars
  BY <1>0, <1>10, FeedFrame DEF vars
<1>11. QED
  BY <1>1, <1>2, <1>3, <1>4, <1>5, <1>6, <1>7, <1>8, <1>9, <1>10 DEF Next, WSHandler

\* The inductive invariant: types, the life of a client, and its gapless feed.
THEOREM Invariance == Spec => []IInv
<1>1. IInv /\ [~panicked /\ Next]_vars => IInv'
  BY TypeStep, ClientStep, FeedStep DEF IInv
<1>2. QED
  BY <1>1, Initial, PTL DEF Spec

\* Type correctness, for any subscribers and any capacity: no bus ever holds
\* more than its capacity.
THEOREM TypeCorrect == Spec => []TypeOK
<1>1. IInv => TypeOK
  BY DEF IInv
<1> QED
  BY <1>1, Invariance, PTL

\* A broadcast never sends on, and never closes, a bus that is closed: no such
\* panic can end the process (channelLexiconStream.go:79-90).
THEOREM BusesAreOpen == Spec => []NoSendOnClosed
<1>1. IInv => NoSendOnClosed
  BY DEF IInv, ClientInv, NoSendOnClosed
<1>2. QED
  BY <1>1, Invariance, PTL

\* A client in cm.clients has a handler that removes it once it ends
\* (channelLexiconStream.go:40-49).
THEOREM HandlersRemoveClients == Spec => []RegisteredHasHandler
<1>1. IInv => RegisteredHasHandler
  BY DEF IInv, ClientInv, RegisteredHasHandler
<1>2. QED
  BY <1>1, Invariance, PTL

\* Every subscriber receives the broadcasts since its registration in order and
\* without a gap, however slow it is: the stream implements LexFeed.
THEOREM Refinement == Spec => ImplementsLexFeed
<1> DEFINE st == [c \in Client |-> CASE cpc[c] \in {"out", "register"} -> "out"
                                     [] cpc[c] = "gone" -> "gone"
                                     [] OTHER -> "in"]
<1>1. Init => Feed!Init
  BY DEF Init, Feed!Init
<1>2. IInv /\ [~panicked /\ Next]_vars => [Feed!Next]_(Feed!vars)
  <2> SUFFICES ASSUME IInv, [~panicked /\ Next]_vars PROVE [Feed!Next]_(Feed!vars)
    OBVIOUS
  <2> USE DEF Feed!vars, Goto, Writing, stream
  <2>1. TypeOK /\ ClientInv /\ \A c \in Client : FeedInv(c)
    BY DEF IInv
  <2>2. ASSUME NEW c \in Client, Upgrade(c) \/ BusClosed(c) \/ PingFails(c)
        PROVE  UNCHANGED Feed!vars
    BY <2>1, <2>2 DEF Upgrade, BusClosed, PingFails, TypeOK
  <2>3. ASSUME NEW c \in Client, Register(c) PROVE Feed!Subscribe(c)
    BY <2>1, <2>3 DEF Register, TypeOK, Feed!Subscribe
  <2>4. ASSUME NEW c \in Client, Take(c) PROVE UNCHANGED Feed!vars
    BY <2>1, <2>4 DEF Take, TypeOK
  <2>5. ASSUME NEW c \in Client, Write(c) PROVE Feed!Deliver(c) \/ UNCHANGED Feed!vars
    <3>1. UNCHANGED <<st, sent>> /\ st[c] = "in"
      BY <2>1, <2>5 DEF Write, TypeOK
    <3>2. CASE conn[c] # "up"
      BY <2>5, <3>1, <3>2 DEF Write
    <3>3. CASE conn[c] = "up"
      <4>1. hand[c] = next[c] /\ next[c] \in Nat /\ sent \in Nat /\ Len(bus[c]) \in Nat
            /\ next[c] + 1 + Len(bus[c]) <= sent + 1
        BY <2>1, <2>5, <3>3, BusOps DEF Write, TypeOK, FeedInv, Ahead, InHand
      <4>2. next' = [next EXCEPT ![c] = next[c] + 1] /\ next[c] <= sent
        BY <2>5, <3>3, <4>1 DEF Write
      <4>3. QED
        BY <3>1, <4>2 DEF Feed!Deliver
    <3>4. QED
      BY <3>2, <3>3
  <2>6. ASSUME NEW c \in Client, Unregister(c) PROVE Feed!Leave(c)
    BY <2>1, <2>6 DEF Unregister, TypeOK, Feed!Leave
  <2>7. ASSUME NEW c \in Client, NEW state \in {"up", "stalled", "down"}, Peer(c, state)
        PROVE  UNCHANGED Feed!vars
    BY <2>7 DEF Peer
  <2>8. ASSUME NEW c \in Client, Send(c) PROVE UNCHANGED Feed!vars
    BY <2>8 DEF Send
  <2>9. CASE Broadcast
    BY <2>9 DEF Broadcast, Feed!Next, Feed!Broadcast
  <2>10. CASE Unlock \/ UNCHANGED vars
    BY <2>10 DEF Unlock, vars
  <2>11. QED
    BY <2>2, <2>3, <2>4, <2>5, <2>6, <2>7, <2>8, <2>9, <2>10 DEF Next, WSHandler, Feed!Next
<1>3. QED
  BY <1>1, <1>2, Invariance, PTL DEF Spec, ImplementsLexFeed, Feed!Spec
=============================================================================
