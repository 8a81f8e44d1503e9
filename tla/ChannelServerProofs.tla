------------------------ MODULE ChannelServerProofs ------------------------
(***************************************************************************)
(* Proofs about ChannelServer for every set of requests, every capacity of *)
(* the buffered channels and every bound of the ids: the type invariant,   *)
(* the ownership of the running server, the freshness of the ids, and the  *)
(* refinement of SignetLog.                                                *)
(***************************************************************************)
EXTENDS ChannelServer, TLAPS

(* The inductive invariant.                                                *)

\* A request that is being served holds a server.
TypeInv == TypeOK /\ \A r \in Req : rpc[r] \in {"connect", "conn"} => ret[r] # Nil

\* m.mu is held by one request at a time.
MutexInv ==
  \A r, s \in Req : rpc[r] \in Locked /\ rpc[s] \in Locked => r = s

\* A server no request has started yet is unknown everywhere.
NewInv ==
  \A r \in Req :
    /\ rpc[r] = "idle" => srv[r] = "new"
    /\ srv[r] = "new" => server # r /\ \A q \in Req : ret[q] # r
    /\ srv[r] = "new" \/ rpc[r] \in Building =>
         hpc[r] = "none" /\ \A k \in Kind : queue[r][k] = <<>>

\* While a request builds its server, nothing is published; while it
\* publishes, its server is the published one and has no goroutine yet.
LockInv ==
  \A r \in Req :
    /\ rpc[r] \in Building =>
         server = Nil /\ srv[r] = "running" /\ curID[r] = lastID /\ \A q \in Req : ret[q] # r
    /\ rpc[r] \in Publishing => server = r /\ hpc[r] = "none" /\ srv[r] = "running"

\* A goroutine that did not give its server up owns the published server.
OwnerInv ==
  \A h \in Req :
    /\ hpc[h] \in Looping \cup {"stop"} => server = h /\ srv[h] = "running"
    /\ hpc[h] = "nilServer" => server = h /\ srv[h] = "stopped" /\ lastID = curID[h]

\* The published server runs until its goroutine has stopped it.
ServerInv ==
  server # Nil => \/ srv[server] = "running"
                  \/ srv[server] = "stopped" /\ hpc[server] = "nilServer"

\* A server a request got is the published one or was stopped.
RetInv ==
  \A r \in Req :
    /\ rpc[r] \in {"connect", "conn"} => ret[r] # Nil
    /\ rpc[r] = "conn" => srv[ret[r]] = "running"
    /\ ret[r] # Nil => srv[ret[r]] = "stopped" \/ (srv[ret[r]] = "running" /\ ret[r] = server)

\* A goroutine only ever listens to its own channels.
ChanInv ==
  \A h \in Req, k \in Kind :
    /\ rpc[h] = "setCancel" \/ hpc[h] \in Looping => chan[k] \in {h, Nil}
    /\ hpc[h] = "select" => sel[h].chan[k] \in {h, Nil}

ControlInv ==
  MutexInv /\ NewInv /\ LockInv /\ OwnerInv /\ ServerInv /\ RetInv /\ ChanInv

\* No id was given out that the next server, or the running one, does not know.
Newest == IF server = Nil THEN lastID ELSE curID[server]

IdInv ==
  /\ FreshIds
  /\ \A i \in 1..Len(issued) : issued[i].id <= Newest

\* Event e is somewhere in log s.
In(e, s) == \E i \in 1..Len(s) : s[i] = e

\* What waits in a channel of server s did happen and is in order; what waits
\* at the published server was not passed over.
WaitingInv(s, k) ==
  \A i \in 1..Len(queue[s][k]) :
    /\ In(queue[s][k][i], issued) /\ queue[s][k][i].kind = k
    /\ \A j \in 1..Len(queue[s][k]) : i < j => queue[s][k][i].id < queue[s][k][j].id
    /\ s = server =>
         \A j \in 1..Len(posted) : posted[j].kind = k => posted[j].id < queue[s][k][i].id

QueueInv ==
  /\ \A i \in 1..Len(posted) : In(posted[i], issued)
  /\ \A s \in Req, k \in Kind : WaitingInv(s, k)

IInv == TypeInv /\ ControlInv /\ IdInv /\ QueueInv

-----------------------------------------------------------------------------
(* Type correctness.                                                       *)

\* The next id of a counter with ids left, and the counter after it.
LEMMA NextId ==
  ASSUME NEW f \in [Req -> Nat], NEW s \in Req, f[s] < MaxId
  PROVE  f[s] + 1 \in 1..MaxId /\ [f EXCEPT ![s] = f[s] + 1] \in [Req -> Nat]
<1>1. f[s] \in Nat /\ f[s] + 1 \in Nat
  OBVIOUS
<1>2. f[s] + 1 \in 1..MaxId
  BY <1>1, IdAssumption
<1>3. QED
  BY <1>1, <1>2

\* Every field keeps its type in every step.
LEMMA TypeStep == TypeInv /\ [Next]_vars => TypeInv'
<1> SUFFICES ASSUME TypeInv, [Next]_vars PROVE TypeInv'
  OBVIOUS
<1> USE NilAssumption, CapAssumption, IdAssumption, KindAssumption, WorkerAssumption
        DEF TypeInv, TypeOK, entry, cm, lrcd, request, goroutine, history, Goto, HGoto, WGoto,
        Locked, Building, Publishing, Looping
<1>1. ASSUME NEW r \in Req, Refuse(r) PROVE TypeInv'
  BY <1>1 DEF Refuse
<1>2. ASSUME NEW r \in Req, FindServer(r) PROVE TypeInv'
  BY <1>2 DEF FindServer
<1>3. ASSUME NEW r \in Req, StartServer(r) PROVE TypeInv'
  BY <1>3 DEF StartServer
<1>4. ASSUME NEW r \in Req, FailToStart(r) PROVE TypeInv'
  BY <1>4 DEF FailToStart
<1>5. ASSUME NEW r \in Req, CheckOldCancel(r) PROVE TypeInv'
  BY <1>5 DEF CheckOldCancel
<1>6. ASSUME NEW r \in Req, CancelOld(r) PROVE TypeInv'
  <2>1. CASE cancel # Nil /\ cancelled' = cancelled \cup {cancel} /\ Goto(r, "publish")
    BY <1>6, <2>1 DEF CancelOld
  <2>2. CASE cancel = Nil /\ Goto(r, "done") /\ UNCHANGED cancelled
    BY <1>6, <2>2 DEF CancelOld
  <2>3. QED
    BY <1>6, <2>1, <2>2 DEF CancelOld
<1>7. ASSUME NEW r \in Req, Publish(r) PROVE TypeInv'
  BY <1>7 DEF Publish
<1>8. ASSUME NEW r \in Req, SetChan(r) PROVE TypeInv'
  BY <1>8 DEF SetChan
<1>9. ASSUME NEW r \in Req, SetCancel(r) PROVE TypeInv'
  BY <1>9 DEF SetCancel
<1>10. ASSUME NEW r \in Req, Return(r) PROVE TypeInv'
  BY <1>10 DEF Return
<1>11. ASSUME NEW r \in Req, Connect(r) PROVE TypeInv'
  BY <1>11 DEF Connect
<1>12. ASSUME NEW r \in Req, Disconnect(r) PROVE TypeInv'
  BY <1>12 DEF Disconnect
<1>13. ASSUME NEW r \in Req, NEW k \in Kind, Speak(r, k) PROVE TypeInv'
  <2> DEFINE s == ret[r]
             e == [id |-> curID[s] + 1, kind |-> k]
  <2>1. s \in Req /\ k \in Kind
    BY <1>13 DEF Speak
  <2>2. curID[s] + 1 \in 1..MaxId
    <3>1. IdLeft(s)
      BY <1>13 DEF Speak
    <3>2. curID[s] < MaxId
      BY <3>1 DEF IdLeft
    <3>3. QED
      BY <2>1, <3>2, NextId
  <2>3. e \in Event
    BY <2>2, <2>1 DEF Event
  <2>4. queue[s][k] \in Seq(Event) /\ Append(queue[s][k], e) \in Seq(Event)
    BY <2>1, <2>3
  <2>5. queue' \in [Req -> [Kind -> Seq(Event)]]
    <3>1. CASE Len(queue[s][k]) < Cap
      <4>1. queue' = [queue EXCEPT ![s][k] = Append(queue[s][k], e)]
        BY <1>13, <3>1 DEF Speak
      <4>2. QED
        BY <2>1, <2>4, <4>1
    <3>2. CASE ~(Len(queue[s][k]) < Cap)
      BY <1>13, <3>2 DEF Speak
    <3>3. QED
      BY <3>1, <3>2
  <2>6. curID' \in [Req -> Nat] /\ issued' \in Seq(Event)
    <3>1. curID' = [curID EXCEPT ![s] = @ + 1] /\ issued' = Append(issued, e)
      BY <1>13 DEF Speak
    <3>2. IdLeft(s)
      BY <1>13 DEF Speak
    <3>3. curID' \in [Req -> Nat]
      <4>1. [curID EXCEPT ![s] = curID[s] + 1] \in [Req -> Nat]
        BY <2>1, <3>2, NextId DEF IdLeft
      <4>2. QED
        BY <3>1, <4>1
    <3>4. issued' \in Seq(Event)
      BY <2>3, <3>1
    <3>5. QED
      BY <3>3, <3>4
  <2>7. QED
    BY <1>13, <2>5, <2>6 DEF Speak
<1>14. ASSUME NEW h \in Req, EvalSelect(h) PROVE TypeInv'
  BY <1>14 DEF EvalSelect
<1>15. ASSUME NEW h \in Req, ContextDone(h) PROVE TypeInv'
  BY <1>15 DEF ContextDone
<1>16. ASSUME NEW h \in Req, Tick(h) PROVE TypeInv'
  BY <1>16 DEF Tick
<1>17. ASSUME NEW h \in Req, Stop(h) PROVE TypeInv'
  <2>1. CASE server # Nil /\ srv[server] = "running"
    <3>1. server \in Req /\ lastID' = curID[server]
      BY <1>17, <2>1 DEF Stop
    <3>2. \A r \in Req : rpc'[r] = "done" \/ rpc'[r] = rpc[r]
      BY <1>17, <2>1 DEF Stop
    <3>3. rpc' \in [Req -> {"idle", "done", "connect", "conn"} \cup Locked]
      BY <1>17, <2>1 DEF Stop
    <3>4. QED
      BY <1>17, <2>1, <3>1, <3>2, <3>3 DEF Stop
  <2>2. CASE ~(server # Nil /\ srv[server] = "running")
    BY <1>17, <2>2 DEF Stop
  <2>3. QED
    BY <2>1, <2>2
<1>18. ASSUME NEW h \in Req, NilServer(h) PROVE TypeInv'
  BY <1>18 DEF NilServer
<1>19. ASSUME NEW h \in Req, NilChan(h) PROVE TypeInv'
  BY <1>19 DEF NilChan
<1>20. ASSUME NEW h \in Req, CallCancel(h) PROVE TypeInv'
  <2>1. CASE cancel # Nil
    <3>1. cancelled' = cancelled \cup {cancel} /\ HGoto(h, "nilCancel") /\ UNCHANGED crashed
      BY <1>20, <2>1 DEF CallCancel
    <3>2. cancelled' \in SUBSET Req
      BY <2>1, <3>1
    <3>3. QED
      BY <1>20, <3>1, <3>2 DEF CallCancel
  <2>2. CASE cancel = Nil
    BY <1>20, <2>2 DEF CallCancel
  <2>3. QED
    BY <2>1, <2>2
<1>21. ASSUME NEW h \in Req, NilCancel(h) PROVE TypeInv'
  BY <1>21 DEF NilCancel
<1>22. ASSUME NEW h \in Req, NEW k \in Kind, Receive(h, k) PROVE TypeInv'
  <2> DEFINE s == sel[h].chan[k]
  <2>1. s \in Req
    BY <1>22 DEF Receive
  <2>2. queue[s][k] \in Seq(Event) /\ queue[s][k] # <<>>
    BY <1>22, <2>1 DEF Receive
  <2>3. Head(queue[s][k]) \in Event /\ Tail(queue[s][k]) \in Seq(Event)
    BY <2>2
  <2>4. queue' \in [Req -> [Kind -> Seq(Event)]]
    BY <1>22, <2>1, <2>3 DEF Receive
  <2>5. posted' \in Seq(Event)
    <3>1. CASE posted' = Append(posted, Head(queue[s][k]))
      BY <2>3, <3>1
    <3>2. CASE UNCHANGED posted
      BY <3>2
    <3>3. QED
      BY <1>22, <3>1, <3>2 DEF Receive
  <2>6. QED
    BY <1>22, <2>4, <2>5 DEF Receive
<1>23. ASSUME NEW w \in Worker, DeleteRow(w) PROVE TypeInv'
  BY <1>23 DEF DeleteRow
<1>24. ASSUME NEW w \in Worker, Uncache(w) PROVE TypeInv'
  BY <1>24 DEF Uncache
<1>25. ASSUME NEW w \in Worker, Cancel(w) PROVE TypeInv'
  BY <1>25 DEF Cancel
<1>26. CASE AcceptCreate
  BY <1>26 DEF AcceptCreate
<1>27. CASE AcceptUpdate
  BY <1>27 DEF AcceptUpdate
<1>28. ASSUME NEW b \in BOOLEAN, SetValid(b) PROVE TypeInv'
  BY <1>28 DEF SetValid
<1>29. CASE UNCHANGED vars
  BY <1>29 DEF vars
<1>30. QED
    BY <1>1, <1>2, <1>3, <1>4, <1>5, <1>6, <1>7, <1>8, <1>9, <1>10, <1>11, <1>12, <1>13, <1>14,
     <1>15, <1>16, <1>17, <1>18, <1>19, <1>20, <1>21, <1>22, <1>23, <1>24, <1>25, <1>26, <1>27,
     <1>28, <1>29 DEF Next, GetServer, Participant, HandleInitEvents, Work, Jetstream

\* Every field starts with its type.
LEMMA TypeInit == Init => TypeInv
<1> SUFFICES ASSUME Init PROVE TypeInv
  OBVIOUS
<1>1. queue \in [Req -> [Kind -> Seq(Event)]] /\ issued \in Seq(Event) /\ posted \in Seq(Event)
  BY DEF Init
<1>2. sel \in [Req -> [done : Req \cup {Nil}, chan : [Kind -> Req \cup {Nil}]]]
  BY DEF Init
<1>3. curID \in [Req -> Nat] /\ lastID \in Nat
  BY IdAssumption DEF Init
<1>4. QED
  BY <1>1, <1>2, <1>3 DEF Init, TypeInv, TypeOK, Locked, Building, Publishing, Looping

\* The fields of the channelModel, of its servers and of every goroutine have
\* their types in every reachable state (channel.go:20-44).
THEOREM TypeCorrect == Spec => []TypeOK
<1>1. TypeInv => TypeOK
  BY DEF TypeInv
<1>2. QED
  BY <1>1, TypeInit, TypeStep, PTL DEF Spec

-----------------------------------------------------------------------------
(* Control: who owns the server.                                           *)

\* Every step keeps the relation between the control points of requests and
\* goroutines and the fields of the channelModel that they read and write.
LEMMA ControlStep == TypeInv /\ ControlInv /\ [Next]_vars => ControlInv'
<1> SUFFICES ASSUME TypeInv, ControlInv, [Next]_vars PROVE ControlInv'
  OBVIOUS
<1> USE NilAssumption
    DEF TypeInv, TypeOK, ControlInv, MutexInv, NewInv, LockInv, OwnerInv, ServerInv, RetInv, ChanInv,
        entry, cm, lrcd, request, goroutine, history, Goto, HGoto, LockFree, Connected,
        Locked, Building, Publishing, Looping
<1>1. ASSUME NEW r \in Req, Refuse(r) PROVE ControlInv'
  BY <1>1 DEF Refuse
<1>2. ASSUME NEW r \in Req, FindServer(r) PROVE ControlInv'
  BY <1>2 DEF FindServer
<1>3. ASSUME NEW r \in Req, StartServer(r) PROVE ControlInv'
  BY <1>3 DEF StartServer
<1>4. ASSUME NEW r \in Req, FailToStart(r) PROVE ControlInv'
  BY <1>4 DEF FailToStart
<1>5. ASSUME NEW r \in Req, CheckOldCancel(r) PROVE ControlInv'
  BY <1>5 DEF CheckOldCancel
<1>6. ASSUME NEW r \in Req, CancelOld(r) PROVE ControlInv'
  <2>1. CASE Goto(r, "publish")
    BY <1>6, <2>1 DEF CancelOld
  <2>2. CASE Goto(r, "done")
    BY <1>6, <2>2 DEF CancelOld
  <2>3. QED
    BY <1>6, <2>1, <2>2 DEF CancelOld
<1>7. ASSUME NEW r \in Req, Publish(r) PROVE ControlInv'
  BY <1>7 DEF Publish
<1>8. ASSUME NEW r \in Req, SetChan(r) PROVE ControlInv'
  BY <1>8 DEF SetChan
<1>9. ASSUME NEW r \in Req, SetCancel(r) PROVE ControlInv'
  BY <1>9 DEF SetCancel
<1>10. ASSUME NEW r \in Req, Return(r) PROVE ControlInv'
  BY <1>10 DEF Return
<1>11. ASSUME NEW r \in Req, Connect(r) PROVE ControlInv'
  BY <1>11 DEF Connect
<1>12. ASSUME NEW r \in Req, Disconnect(r) PROVE ControlInv'
  BY <1>12 DEF Disconnect
<1>13. ASSUME NEW r \in Req, NEW k \in Kind, Speak(r, k) PROVE ControlInv'
  <2> DEFINE s == ret[r]
  <2>1. s \in Req /\ rpc[r] = "conn" /\ srv[s] = "running" /\ s = server
    BY <1>13 DEF Speak
  <2>2. \A q \in Req : rpc[q] \in Building => q # s
    BY <2>1
  <2>3. \A q \in Req : q # s => curID'[q] = curID[q] /\ queue'[q] = queue[q]
    BY <1>13, <2>1 DEF Speak
  <2>4. UNCHANGED <<cm, srv, request, goroutine>>
    BY <1>13 DEF Speak
  <2>5. MutexInv' /\ OwnerInv' /\ ServerInv' /\ RetInv' /\ ChanInv'
    BY <2>1, <2>4, <2>3
  <2>6. NewInv' /\ LockInv'
    BY <2>1, <2>2, <2>3, <2>4
  <2>7. QED
    BY <2>5, <2>6
<1>14. ASSUME NEW h \in Req, EvalSelect(h) PROVE ControlInv'
  BY <1>14 DEF EvalSelect
<1>15. ASSUME NEW h \in Req, ContextDone(h) PROVE ControlInv'
  BY <1>15 DEF ContextDone
<1>16. ASSUME NEW h \in Req, Tick(h) PROVE ControlInv'
  BY <1>16 DEF Tick
<1>17. ASSUME NEW h \in Req, Stop(h) PROVE ControlInv'
  <2>1. server = h /\ srv[h] = "running" /\ h # Nil
    BY <1>17 DEF Stop
  <2>2. /\ srv' = [srv EXCEPT ![h] = "stopped"]
        /\ lastID' = curID[h]
        /\ rpc' = [r \in Req |-> IF r \in Connected(h) THEN "done" ELSE rpc[r]]
        /\ hpc' = [hpc EXCEPT ![h] = "nilServer"]
        /\ UNCHANGED <<server, chan, curID, queue, ret, sel>>
    BY <1>17, <2>1 DEF Stop
  <2>3. \A r \in Req : /\ rpc'[r] \in Locked \/ rpc'[r] = "idle" => rpc'[r] = rpc[r]
                       /\ rpc'[r] \in {"connect", "conn"} => rpc'[r] = rpc[r]
                       /\ rpc'[r] = "conn" => ret[r] # h
    <3> TAKE r \in Req
    <3>1. CASE rpc[r] = "conn" /\ ret[r] = h
      BY <2>2, <3>1
    <3>2. CASE ~(rpc[r] = "conn" /\ ret[r] = h)
      <4>1. rpc'[r] = rpc[r]
        BY <2>2, <3>2
      <4>2. QED
        BY <3>2, <4>1
    <3>3. QED
      BY <3>1, <3>2
  <2>4. MutexInv' /\ NewInv'
    BY <2>1, <2>2, <2>3
  <2>5. LockInv'
    <3>1. \A r \in Req : rpc[r] \notin Building \cup Publishing
      BY <1>17, <2>1 DEF Stop
    <3>2. \A r \in Req : rpc'[r] \notin Building \cup Publishing
      BY <2>3, <3>1
    <3>3. QED
      BY <3>2
  <2>6. OwnerInv'
    BY <2>1, <2>2
  <2>7. ServerInv' /\ ChanInv'
    BY <2>1, <2>2, <2>3
  <2>8. RetInv'
    BY <2>1, <2>2, <2>3
  <2>9. QED
    BY <2>4, <2>5, <2>6, <2>7, <2>8
<1>18. ASSUME NEW h \in Req, NilServer(h) PROVE ControlInv'
  BY <1>18 DEF NilServer
<1>19. ASSUME NEW h \in Req, NilChan(h) PROVE ControlInv'
  BY <1>19 DEF NilChan
<1>20. ASSUME NEW h \in Req, CallCancel(h) PROVE ControlInv'
  BY <1>20 DEF CallCancel
<1>21. ASSUME NEW h \in Req, NilCancel(h) PROVE ControlInv'
  BY <1>21 DEF NilCancel
<1>22. ASSUME NEW h \in Req, NEW k \in Kind, Receive(h, k) PROVE ControlInv'
  BY <1>22 DEF Receive
<1>23. ASSUME UNCHANGED <<cm, lrcd, request, goroutine>> PROVE ControlInv'
  BY <1>23
<1>24. ASSUME NEW w \in Worker, DeleteRow(w) \/ Uncache(w) \/ Cancel(w) PROVE ControlInv'
  BY <1>23, <1>24 DEF DeleteRow, Uncache, Cancel
<1>25. CASE Jetstream
  BY <1>23, <1>25 DEF Jetstream, AcceptCreate, AcceptUpdate, SetValid
<1>26. CASE UNCHANGED vars
  BY <1>23, <1>26 DEF vars
<1>27. QED
    BY <1>1, <1>2, <1>3, <1>4, <1>5, <1>6, <1>7, <1>8, <1>9, <1>10, <1>11, <1>12, <1>13, <1>14,
     <1>15, <1>16, <1>17, <1>18, <1>19, <1>20, <1>21, <1>22, <1>24, <1>25, <1>26
     DEF Next, GetServer, Participant, HandleInitEvents, Work

\* Initially there is neither a server nor a goroutine.
LEMMA ControlInit == Init => ControlInv
  BY NilAssumption
     DEF Init, ControlInv, MutexInv, NewInv, LockInv, OwnerInv, ServerInv, RetInv, ChanInv,
         Locked, Building, Publishing, Looping

\* The control part of the invariant holds in every reachable state.
LEMMA ControlCorrect == Spec => [](TypeInv /\ ControlInv)
<1>1. Init => TypeInv /\ ControlInv
  BY TypeInit, ControlInit
<1>2. TypeInv /\ ControlInv /\ [Next]_vars => (TypeInv /\ ControlInv)'
  BY TypeStep, ControlStep
<1>3. QED
  BY <1>1, <1>2, PTL DEF Spec

\* Connected() and Stop() of handleInitEvents are only ever called on the
\* goroutine's own, running server (channel.go:231-239).
THEOREM HandlerOwnership == Spec => []HandlerOwnsServer
<1>1. TypeInv /\ ControlInv => HandlerOwnsServer
  BY DEF ControlInv, OwnerInv, HandlerOwnsServer
<1>2. QED
  BY <1>1, ControlCorrect, PTL

\* No participant is ever connected to a running server that the channel no
\* longer publishes (channel.go:199-218).
THEOREM OneServer == Spec => []OneLiveServer
<1>1. TypeInv /\ ControlInv => OneLiveServer
  BY DEF TypeInv, TypeOK, ControlInv, RetInv, OneLiveServer
<1>2. QED
  BY <1>1, ControlCorrect, PTL

-----------------------------------------------------------------------------
(* Data: what each step does to the ids, the queues and the history.       *)

\* The steps that give out an id, that post a signet, that publish a server
\* and that give it up; every other step leaves all of this alone.
LEMMA DataSteps ==
  ASSUME TypeInv, ControlInv, [Next]_vars
  PROVE  \/ \E r \in Req, k \in Kind : Speak(r, k)
         \/ \E h \in Req, k \in Kind : Receive(h, k)
         \/ \E r \in Req : StartServer(r) \/ Publish(r) \/ Stop(r) \/ NilServer(r)
         \/ UNCHANGED <<lastID, server, curID, queue, issued, posted>>
<1> USE DEF entry, cm, lrcd, request, goroutine, history
<1> DEFINE Quiet == UNCHANGED <<lastID, server, curID, queue, issued, posted>>
<1>1. ASSUME NEW r \in Req, GetServer(r) PROVE StartServer(r) \/ Publish(r) \/ Quiet
  BY <1>1 DEF GetServer, Refuse, FindServer, FailToStart, CheckOldCancel, CancelOld, SetChan,
              SetCancel, Return, Connect
<1>2. ASSUME NEW r \in Req, Participant(r) PROVE Quiet \/ \E k \in Kind : Speak(r, k)
  BY <1>2 DEF Participant, Disconnect
<1>3. ASSUME NEW h \in Req, HandleInitEvents(h)
      PROVE  Stop(h) \/ NilServer(h) \/ Quiet \/ \E k \in Kind : Receive(h, k)
  BY <1>3 DEF HandleInitEvents, EvalSelect, ContextDone, Tick, NilChan, CallCancel, NilCancel
<1>4. ASSUME NEW w \in Worker, DeleteRow(w) \/ Work(w) PROVE Quiet
  BY <1>4 DEF DeleteRow, Work, Uncache, Cancel
<1>5. CASE Jetstream
  BY <1>5 DEF Jetstream, AcceptCreate, AcceptUpdate, SetValid
<1>6. CASE UNCHANGED vars
  BY <1>6 DEF vars
<1>7. QED
  BY <1>1, <1>2, <1>3, <1>4, <1>5, <1>6 DEF Next

\* A participant speaks to the published server only.
LEMMA SpeakEffect ==
  ASSUME TypeInv, ControlInv, NEW r \in Req, NEW k \in Kind, Speak(r, k),
         NEW e, e = [id |-> curID[server] + 1, kind |-> k]
  PROVE  /\ server \in Req /\ e \in Event
         /\ curID' = [curID EXCEPT ![server] = curID[server] + 1]
         /\ issued' = Append(issued, e)
         /\ \/ queue' = queue
            \/ queue' = [queue EXCEPT ![server][k] = Append(queue[server][k], e)]
         /\ UNCHANGED <<server, lastID, posted>>
<1>1. server \in Req /\ ret[r] = server
  BY NilAssumption DEF Speak, TypeInv, TypeOK, ControlInv, RetInv
<1>2. IdLeft(server)
  BY <1>1 DEF Speak
<1>3. e \in Event
  <2>1. curID[server] + 1 \in 1..MaxId
    BY <1>1, <1>2, NextId DEF IdLeft, TypeInv, TypeOK
  <2>2. QED
    BY <2>1 DEF Event
<1>4. QED
  BY <1>1, <1>3 DEF Speak, cm

\* A goroutine takes the head of a channel of the published server, its own.
LEMMA ReceiveEffect ==
  ASSUME TypeInv, ControlInv, NEW h \in Req, NEW k \in Kind, Receive(h, k)
  PROVE  /\ server = h /\ queue[h][k] # <<>>
         /\ queue' = [queue EXCEPT ![h][k] = Tail(queue[h][k])]
         /\ \/ posted' = Append(posted, Head(queue[h][k]))
            \/ posted' = posted
         /\ UNCHANGED <<server, lastID, curID, issued>>
<1>1. server = h /\ sel[h].chan[k] = h
  BY DEF Receive, TypeInv, TypeOK, ControlInv, OwnerInv, ChanInv, Looping
<1>2. QED
  BY <1>1 DEF Receive, cm

-----------------------------------------------------------------------------
(* Ids.                                                                    *)

\* Appending an event with a larger id keeps a history in order.
LEMMA AppendFresh ==
  ASSUME NEW s \in Seq(Event), NEW e \in Event,
         \A i \in 1..Len(s) : s[i].id < e.id,
         \A i, j \in 1..Len(s) : i < j => s[i].id < s[j].id
  PROVE  LET t == Append(s, e)
         IN  /\ Len(t) = Len(s) + 1 /\ t[Len(t)] = e
             /\ \A i \in 1..Len(s) : t[i] = s[i]
             /\ \A i, j \in 1..Len(t) : i < j => t[i].id < t[j].id
<1> DEFINE t == Append(s, e)
<1>1. Len(s) \in Nat /\ Len(t) = Len(s) + 1 /\ t[Len(t)] = e /\ \A i \in 1..Len(s) : t[i] = s[i]
  OBVIOUS
<1> HIDE DEF t
<1>2. ASSUME NEW i \in 1..Len(t), NEW j \in 1..Len(t), i < j PROVE t[i].id < t[j].id
  <2>1. i \in 1..Len(s)
    BY <1>1, <1>2
  <2>2. CASE j = Len(t)
    BY <1>1, <2>1, <2>2
  <2>3. CASE j # Len(t)
    <3>1. j \in 1..Len(s)
      BY <1>1, <2>3
    <3>2. QED
      BY <1>1, <1>2, <2>1, <3>1
  <2>4. QED
    BY <2>2, <2>3
<1>3. QED
  BY <1>1, <1>2 DEF t

\* A server starts from lastID, which only the goroutine of a stopped server
\* moves up; so an id is given out after all the smaller ones.
LEMMA IdStep == TypeInv /\ ControlInv /\ IdInv /\ [Next]_vars => IdInv'
<1> SUFFICES ASSUME TypeInv, ControlInv, IdInv, [Next]_vars PROVE IdInv'
  OBVIOUS
<1> USE NilAssumption
<1>0. lastID \in Nat /\ curID \in [Req -> Nat] /\ server \in Req \cup {Nil} /\ issued \in Seq(Event)
  BY DEF TypeInv, TypeOK
<1>1. ASSUME NEW r \in Req, NEW k \in Kind, Speak(r, k) PROVE IdInv'
  <2> DEFINE e == [id |-> curID[server] + 1, kind |-> k]
  <2>1. /\ server \in Req /\ e \in Event
        /\ curID' = [curID EXCEPT ![server] = curID[server] + 1]
        /\ issued' = Append(issued, e) /\ server' = server
    BY <1>1, SpeakEffect
  <2>2. \A i \in 1..Len(issued) : issued[i].id \in Nat /\ issued[i].id <= curID[server]
    <3>1. \A i \in 1..Len(issued) : issued[i] \in Event /\ issued[i].id <= curID[server]
      BY <1>0, <2>1 DEF IdInv, Newest
    <3>2. \A d \in Event : d.id \in Nat
      BY IdAssumption DEF Event
    <3>3. QED
      BY <3>1, <3>2
  <2>3. e.id = curID[server] + 1 /\ curID[server] \in Nat
    BY <1>0, <2>1
  <2>4. \A i \in 1..Len(issued) : issued[i].id < e.id
    BY <2>2, <2>3
  <2>5. /\ Len(issued') = Len(issued) + 1 /\ issued'[Len(issued')] = e
        /\ \A i \in 1..Len(issued) : issued'[i] = issued[i]
        /\ \A i, j \in 1..Len(issued') : i < j => issued'[i].id < issued'[j].id
    BY <1>0, <2>1, <2>4, AppendFresh DEF IdInv, FreshIds
  <2>6. Newest' = curID[server] + 1
    BY <1>0, <2>1 DEF Newest
  <2>7. ASSUME NEW i \in 1..Len(issued') PROVE issued'[i].id <= curID[server] + 1
    <3>1. CASE i \in 1..Len(issued)
      BY <2>2, <2>3, <2>5, <3>1
    <3>2. CASE i = Len(issued')
      BY <2>3, <2>5, <3>2
    <3>3. QED
      BY <1>0, <2>5, <3>1, <3>2
  <2>8. QED
    BY <2>5, <2>6, <2>7 DEF IdInv, FreshIds
<1>2. ASSUME issued' = issued, Newest' = Newest PROVE IdInv'
  BY <1>2 DEF IdInv, FreshIds
<1>3. ASSUME NEW h \in Req, NEW k \in Kind, Receive(h, k) PROVE IdInv'
  BY <1>2, <1>3, ReceiveEffect DEF Newest
<1>4. ASSUME NEW r \in Req, StartServer(r) PROVE IdInv'
  BY <1>2, <1>4 DEF StartServer, Newest, cm, history
<1>5. ASSUME NEW r \in Req, Publish(r) PROVE IdInv'
  <2>1. server = Nil /\ curID[r] = lastID
    BY <1>5 DEF Publish, ControlInv, LockInv, Building
  <2>2. QED
    BY <1>2, <1>5, <2>1 DEF Publish, Newest, lrcd, history
<1>6. ASSUME NEW h \in Req, Stop(h) PROVE IdInv'
  <2>1. server = h
    BY <1>6 DEF Stop, ControlInv, OwnerInv
  <2>2. QED
    BY <1>2, <1>6, <2>1 DEF Stop, Newest, history
<1>7. ASSUME NEW h \in Req, NilServer(h) PROVE IdInv'
  <2>1. server = h /\ lastID = curID[h]
    BY <1>7 DEF NilServer, ControlInv, OwnerInv
  <2>2. QED
    BY <1>2, <1>7, <2>1 DEF NilServer, Newest, lrcd, history
<1>8. CASE UNCHANGED <<lastID, server, curID, queue, issued, posted>>
  BY <1>2, <1>8 DEF Newest
<1>9. QED
  BY <1>1, <1>3, <1>4, <1>5, <1>6, <1>7, <1>8, DataSteps

\* The ids given out so far bound the ids to come, in every reachable state.
LEMMA IdCorrect == Spec => []IdInv
<1>1. Init => IdInv
  BY DEF Init, IdInv, FreshIds
<1>2. QED
  BY <1>1, IdStep, ControlCorrect, PTL DEF Spec

\* The ids participants receive grow over every server the channel ever starts:
\* a new server never reuses an id of an earlier one (channel.go:171, 190, 234-239).
THEOREM IdsAreFresh == Spec => []FreshIds
<1>1. IdInv => FreshIds
  BY DEF IdInv
<1>2. QED
  BY <1>1, IdCorrect, PTL

-----------------------------------------------------------------------------
(* Queues, signets and the refinement of SignetLog.                        *)

\* Taking the head of a queue moves the rest up.
LEMMA TailQueue ==
  ASSUME NEW q \in Seq(Event), q # <<>>
  PROVE  /\ Len(Tail(q)) = Len(q) - 1 /\ Len(q) \in Nat \ {0}
         /\ Head(q) = q[1] /\ Head(q) \in Event
         /\ \A i \in 1..Len(Tail(q)) : Tail(q)[i] = q[i + 1]
  OBVIOUS

\* Every event has a number for its id.
LEMMA EventId == \A e \in Event : e.id \in Nat
  BY IdAssumption DEF Event

\* An init that happened stays in the history.
LEMMA IssuedStays ==
  ASSUME issued \in Seq(Event), NEW e \in Event, issued' = Append(issued, e)
  PROVE  In(e, issued') /\ \A d : In(d, issued) => In(d, issued')
<1>1. Len(issued') = Len(issued) + 1 /\ issued'[Len(issued) + 1] = e
      /\ Len(issued) \in Nat /\ \A i \in 1..Len(issued) : issued'[i] = issued[i]
  OBVIOUS
<1>2. 1..Len(issued) \subseteq 1..Len(issued') /\ Len(issued) + 1 \in 1..Len(issued')
  BY <1>1
<1>3. QED
  BY <1>1, <1>2 DEF In

\* Where queue, history and server are as before, so is what waits.
LEMMA WaitingFrame ==
  ASSUME NEW s \in Req, NEW k \in Kind, WaitingInv(s, k), queue'[s][k] = queue[s][k],
         \A d : In(d, issued) => In(d, issued'), s = server' => s = server,
         s = server => posted' = posted
  PROVE  WaitingInv(s, k)'
  BY DEF WaitingInv

\* An init made by a participant is queued behind the older ones of its kind.
LEMMA SpeakQueue ==
  ASSUME IInv, NEW r \in Req, NEW k \in Kind, Speak(r, k)
  PROVE  QueueInv'
<1>0. PICK e : e = [id |-> curID[server] + 1, kind |-> k]
  OBVIOUS
<1> DEFINE q == queue[server][k]
<1>1. /\ TypeInv /\ ControlInv /\ IdInv /\ QueueInv /\ curID \in [Req -> Nat]
      /\ issued \in Seq(Event) /\ posted \in Seq(Event) /\ queue \in [Req -> [Kind -> Seq(Event)]]
  BY DEF IInv, TypeInv, TypeOK
<1>2. /\ server \in Req /\ e \in Event /\ server # Nil
      /\ issued' = Append(issued, e) /\ server' = server /\ posted' = posted
      /\ queue' = queue \/ queue' = [queue EXCEPT ![server][k] = Append(q, e)]
  BY <1>0, <1>1, SpeakEffect, NilAssumption
<1>3. In(e, issued') /\ \A d : In(d, issued) => In(d, issued')
  BY <1>1, <1>2, IssuedStays
<1>4. \A i \in 1..Len(posted') : In(posted'[i], issued')
  BY <1>1, <1>2, <1>3 DEF QueueInv
<1>5. ASSUME NEW s \in Req, NEW l \in Kind, queue'[s][l] = queue[s][l] PROVE WaitingInv(s, l)'
  BY <1>1, <1>2, <1>3, <1>5, WaitingFrame DEF QueueInv
<1>6. ASSUME queue' = [queue EXCEPT ![server][k] = Append(q, e)]
      PROVE  \A s \in Req : s = server => WaitingInv(s, k)'
  <2>1. q \in Seq(Event) /\ WaitingInv(server, k)
    BY <1>1, <1>2 DEF QueueInv
  <2>2. \A i \in 1..Len(issued) : issued[i].id <= curID[server] /\ issued[i] \in Event
    BY <1>1, <1>2 DEF IdInv, Newest
  <2>3. e.id = curID[server] + 1 /\ e.kind = k /\ curID[server] \in Nat
    BY <1>0, <1>1, <1>2
  <2>4. \A d \in Event : In(d, issued) => d.id < e.id
    BY <2>2, <2>3, EventId DEF In
  <2>5. \A i \in 1..Len(q) : q[i] \in Event /\ q[i].id < e.id
    BY <2>1, <2>4 DEF WaitingInv
  <2> DEFINE t == Append(q, e)
  <2>6. /\ Len(t) = Len(q) + 1 /\ t[Len(t)] = e
        /\ \A i \in 1..Len(q) : t[i] = q[i]
        /\ \A i, j \in 1..Len(t) : i < j => t[i].id < t[j].id
    BY <1>2, <2>1, <2>5, AppendFresh DEF WaitingInv
  <2>7. queue'[server][k] = t
    BY <1>1, <1>2, <1>6
  <2>8. \A j \in 1..Len(posted) : posted[j].id < e.id
    BY <1>1, <2>4 DEF QueueInv
  <2>9. \A i \in 1..Len(q) :
           /\ In(q[i], issued) /\ q[i].kind = k
           /\ \A j \in 1..Len(posted) : posted[j].kind = k => posted[j].id < q[i].id
    BY <2>1 DEF WaitingInv
  <2> HIDE DEF t, q
  <2>10. ASSUME NEW i \in 1..Len(t)
         PROVE  /\ In(t[i], issued') /\ t[i].kind = k
                /\ \A j \in 1..Len(posted) : posted[j].kind = k => posted[j].id < t[i].id
    <3>1. CASE i = Len(t)
      BY <1>3, <2>3, <2>6, <2>8, <3>1
    <3>2. CASE i # Len(t)
      <4>1. i \in 1..Len(q)
        BY <2>1, <2>6, <3>2
      <4>2. QED
        BY <1>3, <2>6, <2>9, <4>1
    <3>3. QED
      BY <3>1, <3>2
  <2>11. QED
    BY <1>2, <2>6, <2>7, <2>10 DEF WaitingInv
<1>7. ASSUME NEW s \in Req, NEW l \in Kind PROVE WaitingInv(s, l)'
  <2>1. CASE queue' = queue
    BY <1>5, <2>1
  <2>2. CASE queue' = [queue EXCEPT ![server][k] = Append(q, e)]
    <3>1. CASE s = server /\ l = k
      BY <1>6, <2>2, <3>1
    <3>2. CASE ~(s = server /\ l = k)
      <4>1. queue'[s][l] = queue[s][l]
        BY <1>1, <1>2, <2>2, <3>2
      <4>2. QED
        BY <1>5, <4>1
    <3>3. QED
      BY <3>1, <3>2
  <2>3. QED
    BY <1>2, <2>1, <2>2
<1>8. QED
  BY <1>4, <1>7 DEF QueueInv

\* The goroutine takes the oldest init of a kind that has no signet yet.
LEMMA ReceiveQueue ==
  ASSUME IInv, NEW h \in Req, NEW k \in Kind, Receive(h, k)
  PROVE  QueueInv'
<1> DEFINE q == queue[h][k]
<1>1. /\ TypeInv /\ ControlInv /\ QueueInv
      /\ posted \in Seq(Event) /\ queue \in [Req -> [Kind -> Seq(Event)]]
  BY DEF IInv, TypeInv, TypeOK
<1>2. /\ server = h /\ q # <<>> /\ server' = server /\ issued' = issued
      /\ queue' = [queue EXCEPT ![h][k] = Tail(q)]
      /\ posted' = Append(posted, Head(q)) \/ posted' = posted
  BY <1>1, ReceiveEffect
<1>3. /\ q \in Seq(Event) /\ WaitingInv(h, k) /\ queue'[h][k] = Tail(q)
      /\ Len(Tail(q)) = Len(q) - 1 /\ Len(q) \in Nat \ {0}
      /\ Head(q) = q[1] /\ Head(q) \in Event
      /\ \A i \in 1..Len(Tail(q)) : Tail(q)[i] = q[i + 1]
  <2>1. q \in Seq(Event) /\ WaitingInv(h, k)
    BY <1>1 DEF QueueInv
  <2>2. queue'[h][k] = Tail(q)
    BY <1>1, <1>2
  <2>3. QED
    BY <1>2, <2>1, <2>2, TailQueue
<1>4. /\ \A i \in 1..Len(q) :
           /\ In(q[i], issued) /\ q[i].kind = k
           /\ \A j \in 1..Len(q) : i < j => q[i].id < q[j].id
           /\ \A j \in 1..Len(posted) : posted[j].kind = k => posted[j].id < q[i].id
      /\ 1 \in 1..Len(q)
  BY <1>2, <1>3 DEF WaitingInv
\* Every event of the new history was in the old one or is the head.
<1>5. \A j \in 1..Len(posted') :
         posted'[j] = q[1] \/ \E i \in 1..Len(posted) : posted'[j] = posted[i]
  <2>1. CASE posted' = posted
    BY <2>1
  <2>2. CASE posted' = Append(posted, Head(q))
    <3>1. Len(posted') = Len(posted) + 1 /\ posted'[Len(posted')] = q[1]
          /\ Len(posted) \in Nat /\ \A i \in 1..Len(posted) : posted'[i] = posted[i]
      BY <1>1, <1>3, <2>2
    <3>2. QED
      BY <3>1
  <2>3. QED
    BY <1>2, <2>1, <2>2
<1>6. \A j \in 1..Len(posted') : In(posted'[j], issued')
  BY <1>1, <1>2, <1>4, <1>5 DEF QueueInv
\* What stays in the queue comes after all of it.
<1>7. \A s \in Req : s = h => WaitingInv(s, k)'
  <2> DEFINE t == Tail(q)
  <2>1. \A i \in 1..Len(t) : i + 1 \in 1..Len(q) /\ 1 < i + 1 /\ t[i] = q[i + 1]
    BY <1>3
  <2>2. \A i \in 1..Len(t) : In(t[i], issued') /\ t[i].kind = k
    BY <1>2, <1>4, <2>1
  <2>3. \A i, j \in 1..Len(t) : i < j => t[i].id < t[j].id
    <3> TAKE i, j \in 1..Len(t)
    <3> HAVE i < j
    <3>1. i + 1 < j + 1
      OBVIOUS
    <3>2. QED
      BY <1>4, <2>1, <3>1
  <2>4. \A i \in 1..Len(t) : \A j \in 1..Len(posted') :
           posted'[j].kind = k => posted'[j].id < t[i].id
    <3> TAKE i \in 1..Len(t)
    <3>1. q[1].id < t[i].id
      BY <1>4, <2>1
    <3>2. \A j \in 1..Len(posted) : posted[j].kind = k => posted[j].id < t[i].id
      BY <1>4, <2>1
    <3>3. QED
      BY <1>5, <3>1, <3>2
  <2> HIDE DEF t, q
  <2>5. QED
    BY <1>3, <2>2, <2>3, <2>4 DEF WaitingInv, t
<1>8. ASSUME NEW s \in Req, NEW l \in Kind, ~(s = h /\ l = k) PROVE WaitingInv(s, l)'
  <2>1. queue'[s][l] = queue[s][l] /\ WaitingInv(s, l)
    BY <1>1, <1>2, <1>8 DEF QueueInv
  <2>2. CASE s = h
    <3>1. l # k
      BY <1>8, <2>2
    <3>2. \A j \in 1..Len(posted') : posted'[j].kind = l =>
             \E i \in 1..Len(posted) : posted'[j] = posted[i]
      BY <1>4, <1>5, <3>1
    <3>3. ASSUME NEW i \in 1..Len(queue[s][l])
          PROVE  /\ In(queue[s][l][i], issued') /\ queue[s][l][i].kind = l
                 /\ \A j \in 1..Len(posted') :
                      posted'[j].kind = l => posted'[j].id < queue[s][l][i].id
      <4>1. \A j \in 1..Len(posted) : posted[j].kind = l => posted[j].id < queue[s][l][i].id
        BY <1>2, <2>1, <2>2 DEF WaitingInv
      <4>2. QED
        BY <1>2, <2>1, <3>2, <4>1 DEF WaitingInv
    <3>4. QED
      BY <2>1, <3>3 DEF WaitingInv
  <2>3. CASE s # h
    BY <1>2, <2>1, <2>3, WaitingFrame
  <2>4. QED
    BY <2>2, <2>3
<1>9. QED
  BY <1>6, <1>7, <1>8 DEF QueueInv

\* Without a new event in the history or in a queue, only a server that starts
\* to be published needs a look, and its queues are empty.
LEMMA QuietQueue ==
  ASSUME QueueInv, queue' = queue, issued' = issued, posted' = posted,
         \A s \in Req, k \in Kind : s = server' => s = server \/ queue[s][k] = <<>>
  PROVE  QueueInv'
<1>1. \A i \in 1..Len(posted') : In(posted'[i], issued')
  BY DEF QueueInv
<1>2. ASSUME NEW s \in Req, NEW k \in Kind PROVE WaitingInv(s, k)'
  <2>1. CASE queue[s][k] = <<>>
    BY <2>1 DEF WaitingInv
  <2>2. CASE queue[s][k] # <<>>
    BY <2>2, WaitingFrame DEF QueueInv
  <2>3. QED
    BY <2>1, <2>2
<1>3. QED
  BY <1>1, <1>2 DEF QueueInv

\* Every step keeps the queues in the order of the ids, behind what was posted.
LEMMA QueueStep == IInv /\ [Next]_vars => QueueInv'
<1> SUFFICES ASSUME IInv, [Next]_vars PROVE QueueInv'
  OBVIOUS
<1>1. TypeInv /\ ControlInv /\ QueueInv
  BY DEF IInv
<1>2. ASSUME NEW r \in Req, StartServer(r) PROVE QueueInv'
  BY <1>1, <1>2, QuietQueue DEF StartServer, cm, history
<1>3. ASSUME NEW r \in Req, Publish(r) PROVE QueueInv'
  <2>1. \A k \in Kind : queue[r][k] = <<>>
    BY <1>1, <1>3 DEF Publish, ControlInv, NewInv, Building
  <2>2. QED
    BY <1>1, <1>3, <2>1, QuietQueue DEF Publish, lrcd, history
<1>4. ASSUME NEW h \in Req, Stop(h) PROVE QueueInv'
  BY <1>1, <1>4, QuietQueue DEF Stop, history
<1>5. ASSUME NEW h \in Req, NilServer(h) PROVE QueueInv'
  BY <1>1, <1>5, QuietQueue, NilAssumption DEF NilServer, lrcd, history
<1>6. CASE UNCHANGED <<lastID, server, curID, queue, issued, posted>>
  BY <1>1, <1>6, QuietQueue
<1>7. QED
  BY <1>1, <1>2, <1>3, <1>4, <1>5, <1>6, DataSteps, SpeakQueue, ReceiveQueue

\* The whole inductive invariant.
THEOREM Invariance == Spec => []IInv
<1>1. Init => IInv
  <2>1. Init => IdInv /\ QueueInv
    BY DEF Init, IdInv, FreshIds, QueueInv, WaitingInv
  <2>2. QED
    BY <2>1, TypeInit, ControlInit DEF IInv
<1>2. IInv /\ [Next]_vars => IInv'
  BY TypeStep, ControlStep, IdStep, QueueStep DEF IInv
<1>3. QED
  BY <1>1, <1>2, PTL DEF Spec

\* Every step of the channel is a step of SignetLog or none: a participant's
\* init gets a larger id than all before it, and a signet is only posted for an
\* init that happened, once, and in order (channel.go:221-271).
THEOREM Refinement == Spec => ImplementsSignetLog
<1>1. Init => Log!Init
  BY DEF Init, Log!Init
<1>2. IInv /\ [Next]_vars => [Log!Next]_(Log!vars)
  <2> SUFFICES ASSUME IInv, [Next]_vars PROVE [Log!Next]_(Log!vars)
    OBVIOUS
  <2> USE DEF Log!vars
  <2>1. /\ TypeInv /\ ControlInv /\ IdInv /\ QueueInv /\ curID \in [Req -> Nat]
        /\ queue \in [Req -> [Kind -> Seq(Event)]]
    BY DEF IInv, TypeInv, TypeOK
  <2>2. ASSUME NEW r \in Req, NEW k \in Kind, Speak(r, k) PROVE Log!Next
    <3>1. PICK e : e = [id |-> curID[server] + 1, kind |-> k]
      OBVIOUS
    <3>2. server \in Req /\ e \in Event /\ issued' = Append(issued, e) /\ posted' = posted
      BY <2>1, <2>2, <3>1, SpeakEffect
    <3>3. \A i \in 1..Len(issued) : issued[i].id < e.id
      <4>1. issued \in Seq(Event) /\ server # Nil
        BY <2>1, <3>2, NilAssumption DEF TypeInv, TypeOK
      <4>2. e.id = curID[server] + 1 /\ curID[server] \in Nat
        BY <2>1, <3>1, <3>2
      <4>3. \A i \in 1..Len(issued) : issued[i].id \in Nat /\ issued[i].id <= curID[server]
        BY <2>1, <4>1, EventId DEF IdInv, Newest
      <4>4. QED
        BY <4>2, <4>3
    <3>4. Log!Issue(e)
      BY <3>2, <3>3 DEF Log!Issue
    <3>5. QED
      BY <3>2, <3>4 DEF Log!Next, Log!Event, Event
  <2>3. ASSUME NEW h \in Req, NEW k \in Kind, Receive(h, k) PROVE [Log!Next]_(Log!vars)
    <3>1. /\ server = h /\ queue[h][k] # <<>> /\ issued' = issued
          /\ posted' = Append(posted, Head(queue[h][k])) \/ posted' = posted
      BY <2>1, <2>3, ReceiveEffect
    <3>2. CASE posted' = Append(posted, Head(queue[h][k]))
      <4> DEFINE q == queue[h][k]
      <4>1. q \in Seq(Event) /\ WaitingInv(h, k)
        BY <2>1 DEF QueueInv
      <4>2. Head(q) = q[1] /\ Head(q) \in Event /\ Len(q) \in Nat \ {0}
        BY <3>1, <4>1, TailQueue
      <4>3. 1 \in 1..Len(q)
        BY <4>2
      <4>4. \A i \in 1..Len(q) :
               /\ In(q[i], issued) /\ q[i].kind = k
               /\ \A j \in 1..Len(posted) : posted[j].kind = k => posted[j].id < q[i].id
        BY <3>1, <4>1 DEF WaitingInv
      <4>5. In(Head(q), issued) /\ Head(q).kind = k
            /\ \A j \in 1..Len(posted) : posted[j].kind = k => posted[j].id < Head(q).id
        BY <4>2, <4>3, <4>4
      <4>6. Log!Witness(Head(q))
        BY <3>1, <3>2, <4>5 DEF Log!Witness, In
      <4>7. QED
        BY <4>2, <4>6 DEF Log!Next, Log!Event, Event
    <3>3. CASE posted' = posted
      <4>1. UNCHANGED Log!vars
        BY <3>1, <3>3
      <4>2. QED
        BY <4>1
    <3>4. QED
      BY <3>1, <3>2, <3>3
  <2>4. ASSUME NEW r \in Req, StartServer(r) \/ Publish(r) \/ Stop(r) \/ NilServer(r)
        PROVE  UNCHANGED Log!vars
    BY <2>4 DEF StartServer, Publish, Stop, NilServer, history
  <2>5. CASE UNCHANGED <<lastID, server, curID, queue, issued, posted>>
    BY <2>5
  <2>6. QED
    BY <2>1, <2>2, <2>3, <2>4, <2>5, DataSteps
<1>3. QED
  BY <1>1, <1>2, Invariance, PTL DEF Spec, ImplementsSignetLog, Log!Spec

-----------------------------------------------------------------------------
(* What SignetLog promises holds of the channel server, since it is one.   *)

\* Ids only grow; what was witnessed happened, in order for each kind.
LogInv ==
  /\ issued \in Seq(Event) /\ posted \in Seq(Event)
  /\ \A i, j \in 1..Len(issued) : i < j => issued[i].id < issued[j].id
  /\ \A i, j \in 1..Len(posted) :
       i < j /\ posted[i].kind = posted[j].kind => posted[i].id < posted[j].id
  /\ \A i \in 1..Len(posted) : In(posted[i], issued)

\* The abstract log keeps to it.
LEMMA LogStep == LogInv /\ [Log!Next]_(Log!vars) => LogInv'
<1> SUFFICES ASSUME LogInv, [Log!Next]_(Log!vars) PROVE LogInv'
  OBVIOUS
<1>1. ASSUME NEW e \in Event, Log!Issue(e) PROVE LogInv'
  <2>1. /\ issued' = Append(issued, e) /\ UNCHANGED posted
        /\ \A i \in 1..Len(issued) : issued[i].id < e.id
    BY <1>1 DEF Log!Issue
  <2>2. /\ issued' \in Seq(Event) /\ Len(issued') = Len(issued) + 1 /\ Len(issued) \in Nat
        /\ issued'[Len(issued) + 1] = e
        /\ \A i \in 1..Len(issued) : issued'[i] = issued[i]
    BY <2>1 DEF LogInv
  <2>3. \A i, j \in 1..Len(issued') : i < j => issued'[i].id < issued'[j].id
    <3> SUFFICES ASSUME NEW i \in 1..Len(issued'), NEW j \in 1..Len(issued'), i < j
                 PROVE  issued'[i].id < issued'[j].id
      OBVIOUS
    <3>1. i \in 1..Len(issued) /\ (j \in 1..Len(issued) \/ j = Len(issued) + 1)
      BY <2>2
    <3> QED
      BY <2>1, <2>2, <3>1 DEF LogInv
  <2>4. \A i \in 1..Len(posted) : In(posted[i], issued')
    BY <2>2 DEF LogInv, In
  <2> QED
    BY <2>1, <2>2, <2>3, <2>4 DEF LogInv
<1>2. ASSUME NEW e \in Event, Log!Witness(e) PROVE LogInv'
  <2>1. /\ posted' = Append(posted, e) /\ UNCHANGED issued
        /\ In(e, issued)
        /\ \A i \in 1..Len(posted) : posted[i].kind = e.kind => posted[i].id < e.id
    BY <1>2 DEF Log!Witness, In
  <2>2. /\ posted' \in Seq(Event) /\ Len(posted') = Len(posted) + 1 /\ Len(posted) \in Nat
        /\ posted'[Len(posted) + 1] = e
        /\ \A i \in 1..Len(posted) : posted'[i] = posted[i]
    BY <2>1 DEF LogInv
  <2>3. \A i, j \in 1..Len(posted') :
          i < j /\ posted'[i].kind = posted'[j].kind => posted'[i].id < posted'[j].id
    <3> SUFFICES ASSUME NEW i \in 1..Len(posted'), NEW j \in 1..Len(posted'), i < j,
                        posted'[i].kind = posted'[j].kind
                 PROVE  posted'[i].id < posted'[j].id
      OBVIOUS
    <3>1. i \in 1..Len(posted) /\ (j \in 1..Len(posted) \/ j = Len(posted) + 1)
      BY <2>2
    <3> QED
      BY <2>1, <2>2, <3>1 DEF LogInv
  <2>4. \A i \in 1..Len(posted') : In(posted'[i], issued)
    <3> SUFFICES ASSUME NEW i \in 1..Len(posted') PROVE In(posted'[i], issued)
      OBVIOUS
    <3>1. i \in 1..Len(posted) \/ i = Len(posted) + 1
      BY <2>2
    <3> QED
      BY <2>1, <2>2, <3>1 DEF LogInv
  <2>5. \A i \in 1..Len(posted') : In(posted'[i], issued')
    BY <2>1, <2>4
  <2> QED
    BY <2>1, <2>2, <2>3, <2>5 DEF LogInv
<1>3. CASE UNCHANGED Log!vars
  BY <1>3 DEF Log!vars, LogInv, In
<1> QED
  BY <1>1, <1>2, <1>3 DEF Log!Next, Log!Event, Event

\* One id is the id of one init, which was witnessed once.
LEMMA LogIsUnique == LogInv => Log!OneSignetEach
<1> SUFFICES ASSUME LogInv, NEW i \in 1..Len(posted), NEW j \in 1..Len(posted),
                    posted[i].id = posted[j].id, i # j
             PROVE  FALSE
  BY DEF Log!OneSignetEach
<1>1. PICK a \in 1..Len(issued) : issued[a] = posted[i]
  BY DEF LogInv, In
<1>2. PICK b \in 1..Len(issued) : issued[b] = posted[j]
  BY DEF LogInv, In
<1>3. /\ Len(issued) \in Nat /\ Len(posted) \in Nat
      /\ posted[i].id \in Nat /\ posted[j].id \in Nat
  BY EventId DEF LogInv
<1>4. a = b
  BY <1>1, <1>2, <1>3 DEF LogInv
<1>5. posted[i].kind = posted[j].kind
  BY <1>1, <1>2, <1>4
<1>6. i < j \/ j < i
  BY <1>3
<1> QED
  BY <1>3, <1>5, <1>6 DEF LogInv

\* For any number of rounds, requests and ids a channelModel posts at most one
\* signet for an id.
THEOREM SignetsAreUnique == Spec => []Log!OneSignetEach
<1>1. Log!Init => LogInv
  BY DEF Log!Init, LogInv
<1> QED
  BY <1>1, LogStep, LogIsUnique, Refinement, PTL DEF ImplementsSignetLog, Log!Spec
=============================================================================
