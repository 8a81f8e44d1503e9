--------------------------- MODULE ChannelServer ---------------------------
(***************************************************************************)
(* The life of one channelModel of internal/model/channel.go: the lrcd     *)
(* server it starts on demand (getServer), the handleInitEvents goroutine  *)
(* that posts a signet for every init and stops the server once it is      *)
(* empty, and the deletion and the update of the channel, which cancel     *)
(* that goroutine.  Only getServer takes Model.mu; the goroutine, the      *)
(* deletion and the update touch the same fields without a lock, so every  *)
(* access to a shared field is a step of its own.                          *)
(*                                                                         *)
(* A request starts at most one server, so the server, its context and its *)
(* goroutine carry the name of the request that started them.  The module  *)
(* is about ONE channelModel object: once uriMap no longer points to it, a *)
(* channel added again under the same uri is another object.               *)
(***************************************************************************)
EXTENDS Naturals, Sequences

CONSTANTS
  Req,           \* websocket requests of participants (GetWSHandlerFrom)
  Nil,           \* Go's nil
  Cap,           \* capacity of initChan and mediainitChan (100)
  MaxId,         \* largest message id (uint32)
  InitialID,     \* lastID of the channelModel: MAX(message_id) or 1
  Kind,          \* the event channels of a server: "init", "mediainit"
  Worker         \* who deletes or updates the channel: "jetstream", "http"

ASSUME NilAssumption == Nil \notin Req
ASSUME CapAssumption == Cap \in Nat \ {0}
ASSUME IdAssumption == MaxId \in Nat /\ InitialID \in Nat
ASSUME KindAssumption == "init" \in Kind /\ Kind \subseteq {"init", "mediainit"}
ASSUME WorkerAssumption == Worker \subseteq {"jetstream", "http"}

VARIABLES
  row,       \* does the channels table hold the uri?
  inMap,     \* does uriMap[uri] point to this channelModel?
  valid,     \* cm.valid
  lastID,    \* cm.lastID
  server,    \* cm.server
  chan,      \* cm.initChan and cm.mediainitChan, by kind
  cancel,    \* cm.cancel: the context it cancels
  ctx,       \* cm.ctx
  cancelled, \* the contexts that are done
  srv,       \* lrcd: "new", "running" or "stopped", per server
  curID,     \* lrcd: the last id the server gave out
  queue,     \* what the buffered channels of a server hold, per kind
  rpc,       \* control of a websocket request
  ret,       \* the server getServer returned to it
  hpc,       \* control of a handleInitEvents goroutine
  sel,       \* the channels its select statement evaluated
  wpc,       \* control of a worker that deletes or updates the channel
  crashed,   \* an unrecovered panic ended the process
  issued,    \* history: the inits the participants made
  posted     \* history: the inits a signet was posted for

entry == <<row, inMap, valid>>
cm == <<lastID, server, chan, cancel, ctx>>
lrcd == <<srv, curID, queue>>
request == <<rpc, ret>>
goroutine == <<hpc, sel>>
history == <<issued, posted>>
vars == <<entry, cm, cancelled, lrcd, request, goroutine, wpc, crashed, history>>

Event == [id : 1..MaxId, kind : Kind]

\* Control points of a request that holds m.mu.
Building == {"checkOld", "cancelOld", "publish"}
Publishing == {"setChan", "setCancel"}
Locked == Building \cup Publishing \cup {"return"}
Looping == {"eval", "select"}

\* Mutant: getServer without m.mu.
LockFreeIgnored == TRUE

LockFree == \A r \in Req : rpc[r] \notin Locked
Connected(s) == {r \in Req : rpc[r] = "conn" /\ ret[r] = s}

TypeOK ==
  /\ row \in BOOLEAN /\ inMap \in BOOLEAN /\ valid \in BOOLEAN /\ crashed \in BOOLEAN
  /\ lastID \in Nat
  /\ server \in Req \cup {Nil}
  /\ chan \in [Kind -> Req \cup {Nil}]
  /\ cancel \in Req \cup {Nil}
  /\ ctx \in Req \cup {Nil}
  /\ cancelled \in SUBSET Req
  /\ srv \in [Req -> {"new", "running", "stopped"}]
  /\ curID \in [Req -> Nat]
  /\ queue \in [Req -> [Kind -> Seq(Event)]]
  /\ rpc \in [Req -> {"idle", "done", "connect", "conn"} \cup Locked]
  /\ ret \in [Req -> Req \cup {Nil}]
  /\ hpc \in [Req -> {"none", "stop", "nilServer", "nilChan", "callCancel",
                      "nilCancel", "done"} \cup Looping]
  /\ sel \in [Req -> [done : Req \cup {Nil}, chan : [Kind -> Req \cup {Nil}]]]
  /\ wpc \in [Worker -> {"idle", "uncache", "lookup", "cancel"}]
  /\ issued \in Seq(Event)
  /\ posted \in Seq(Event)

\* A channelModel made by Init (lastID from the signets table) or by
\* AddChannel (lastID 1).  The row may be gone already: AddChannel runs after
\* the row was stored, and a deletion may come in between.
Init ==
  /\ row \in BOOLEAN /\ inMap = TRUE /\ valid \in BOOLEAN
  /\ lastID = InitialID
  /\ server = Nil
  /\ chan = [k \in Kind |-> Nil]
  /\ cancel = Nil
  /\ ctx = Nil
  /\ cancelled = {}
  /\ srv = [r \in Req |-> "new"]
  /\ curID = [r \in Req |-> 0]
  /\ queue = [r \in Req |-> [k \in Kind |-> <<>>]]
  /\ rpc = [r \in Req |-> "idle"]
  /\ ret = [r \in Req |-> Nil]
  /\ hpc = [r \in Req |-> "none"]
  /\ sel = [r \in Req |-> [done |-> Nil, chan |-> [k \in Kind |-> Nil]]]
  /\ wpc = [w \in Worker |-> "idle"]
  /\ crashed = FALSE
  /\ issued = <<>>
  /\ posted = <<>>

-----------------------------------------------------------------------------
(* Requests of participants: getServer, then the handler lrcd returns.     *)

Goto(r, pc) == rpc' = [rpc EXCEPT ![r] = pc]

\* m.mu.Lock(), then: unknown uri or not hosted here, and back out.
Refuse(r) ==
  /\ rpc[r] = "idle" /\ LockFree
  /\ ~inMap \/ ~valid
  /\ Goto(r, "done")
  /\ UNCHANGED <<entry, cm, cancelled, lrcd, ret, goroutine, wpc, crashed, history>>

\* cm.server is there already.
FindServer(r) ==
  /\ rpc[r] = "idle" /\ LockFree
  /\ inMap /\ valid /\ server # Nil
  /\ Goto(r, "return")
  /\ UNCHANGED <<entry, cm, cancelled, lrcd, ret, goroutine, wpc, crashed, history>>

\* Mutant: the new server is started without WithInitialID.
StartServerFromZero(r) ==
  /\ rpc[r] = "idle" /\ LockFree /\ inMap /\ valid /\ server = Nil
  /\ srv' = [srv EXCEPT ![r] = "running"]
  /\ Goto(r, "checkOld")
  /\ UNCHANGED <<entry, cm, cancelled, curID, queue, ret, goroutine, wpc, crashed, history>>

\* cm.server is nil: a new lrcd server continues from cm.lastID.
StartServer(r) ==
  /\ rpc[r] = "idle" /\ LockFree
  /\ inMap /\ valid /\ server = Nil
  /\ srv' = [srv EXCEPT ![r] = "running"]
  /\ curID' = [curID EXCEPT ![r] = lastID]
  /\ Goto(r, "checkOld")
  /\ UNCHANGED <<entry, cm, cancelled, queue, ret, goroutine, wpc, crashed, history>>

\* NewServer or Start fails: the request is refused and nothing was changed.
FailToStart(r) ==
  /\ rpc[r] = "idle" /\ LockFree
  /\ inMap /\ valid /\ server = Nil
  /\ Goto(r, "done")
  /\ UNCHANGED <<entry, cm, cancelled, lrcd, ret, goroutine, wpc, crashed, history>>

\* if cm.cancel != nil
CheckOldCancel(r) ==
  /\ rpc[r] = "checkOld"
  /\ Goto(r, IF cancel = Nil THEN "publish" ELSE "cancelOld")
  /\ UNCHANGED <<entry, cm, cancelled, lrcd, ret, goroutine, wpc, crashed, history>>

\* "that's weird, old cancel lying around": cm.cancel is read again and
\* called.  If it became nil meanwhile the handler panics; net/http recovers,
\* m.mu is released, and the server just started is left behind.
CancelOld(r) ==
  /\ rpc[r] = "cancelOld"
  /\ \/ cancel # Nil /\ cancelled' = cancelled \cup {cancel} /\ Goto(r, "publish")
     \/ cancel = Nil /\ Goto(r, "done") /\ UNCHANGED cancelled
  /\ UNCHANGED <<entry, cm, lrcd, ret, goroutine, wpc, crashed, history>>

Publish(r) ==
  /\ rpc[r] = "publish"
  /\ server' = r
  /\ Goto(r, "setChan")
  /\ UNCHANGED <<entry, lastID, chan, cancel, ctx, cancelled, lrcd, ret, goroutine, wpc, crashed,
                 history>>

SetChan(r) ==
  /\ rpc[r] = "setChan"
  /\ chan' = [k \in Kind |-> r]
  /\ Goto(r, "setCancel")
  /\ UNCHANGED <<entry, lastID, server, cancel, ctx, cancelled, lrcd, ret, goroutine, wpc, crashed,
                 history>>

\* cm.cancel, cm.ctx, and go m.handleInitEvents(cm).
SetCancel(r) ==
  /\ rpc[r] = "setCancel"
  /\ cancel' = r /\ ctx' = r
  /\ hpc' = [hpc EXCEPT ![r] = "eval"]
  /\ Goto(r, "return")
  /\ UNCHANGED <<entry, lastID, server, chan, cancelled, lrcd, ret, sel, wpc, crashed, history>>

\* return cm.server, read again; WSHandler of a nil server panics, recovered.
Return(r) ==
  /\ rpc[r] = "return"
  /\ ret' = [ret EXCEPT ![r] = server]
  /\ Goto(r, IF server = Nil THEN "done" ELSE "connect")
  /\ UNCHANGED <<entry, cm, cancelled, lrcd, goroutine, wpc, crashed, history>>

\* lrcd accepts the participant if the server still runs.
Connect(r) ==
  /\ rpc[r] = "connect"
  /\ Goto(r, IF srv[ret[r]] = "running" THEN "conn" ELSE "done")
  /\ UNCHANGED <<entry, cm, cancelled, lrcd, ret, goroutine, wpc, crashed, history>>

Disconnect(r) ==
  /\ rpc[r] = "conn"
  /\ Goto(r, "done")
  /\ UNCHANGED <<entry, cm, cancelled, lrcd, ret, goroutine, wpc, crashed, history>>

\* A server has ids left (uint32 in lrcd, capped by MaxId here).
IdLeft(s) == curID[s] < MaxId

\* lrcd: a participant starts a message.  Its init takes the next id and goes
\* to the buffered channel of its kind; lrcd either waits for room in a full
\* channel (no step) or drops the event.
Speak(r, k) ==
  LET s == ret[r]
      e == [id |-> curID[s] + 1, kind |-> k]
  IN  /\ rpc[r] = "conn" /\ IdLeft(s)
      /\ curID' = [curID EXCEPT ![s] = @ + 1]
      /\ queue' = IF Len(queue[s][k]) < Cap
                    THEN [queue EXCEPT ![s][k] = Append(@, e)]
                    ELSE queue
      /\ issued' = Append(issued, e)
      /\ UNCHANGED <<entry, cm, cancelled, srv, request, goroutine, wpc, crashed, posted>>

-----------------------------------------------------------------------------
(* handleInitEvents of the server h.                                       *)

HGoto(h, pc) == hpc' = [hpc EXCEPT ![h] = pc]

\* The operands of select are evaluated: cm.ctx, cm.initChan, cm.mediainitChan.
EvalSelect(h) ==
  /\ hpc[h] = "eval"
  /\ sel' = [sel EXCEPT ![h] = [done |-> ctx, chan |-> chan]]
  /\ HGoto(h, "select")
  /\ UNCHANGED <<entry, cm, cancelled, lrcd, request, wpc, crashed, history>>

\* case <-cm.ctx.Done(): the goroutine ends; the server is left running.
ContextDone(h) ==
  /\ hpc[h] = "select" /\ sel[h].done \in cancelled
  /\ HGoto(h, "done")
  /\ UNCHANGED <<entry, cm, cancelled, lrcd, request, sel, wpc, crashed, history>>

\* Mutant: an init that could not be posted yet is left in front of the queue,
\* but posted all the same.
ReceiveAndKeep(h, k) ==
  /\ hpc[h] = "select" /\ sel[h].chan[k] # Nil
  /\ queue[sel[h].chan[k]][k] # <<>>
  /\ posted' = Append(posted, Head(queue[sel[h].chan[k]][k]))
  /\ HGoto(h, "eval")
  /\ UNCHANGED <<entry, cm, cancelled, lrcd, request, sel, wpc, crashed, issued>>

\* case e := <-cm.initChan and its media twin: PostSignet; an error is logged
\* and the init forgotten.
Receive(h, k) ==
  LET s == sel[h].chan[k]
  IN  /\ hpc[h] = "select" /\ s # Nil
      /\ queue[s][k] # <<>>
      /\ queue' = [queue EXCEPT ![s][k] = Tail(@)]
      /\ \/ posted' = Append(posted, Head(queue[s][k]))
         \/ UNCHANGED posted
      /\ HGoto(h, "eval")
      /\ UNCHANGED <<entry, cm, cancelled, srv, curID, request, sel, wpc, crashed, issued>>

\* Mutant: the ticker does not look whether the server is empty.
TickWithoutCheck(h) ==
  /\ hpc[h] = "select"
  /\ HGoto(h, "eval")
  /\ UNCHANGED <<entry, cm, cancelled, lrcd, request, sel, wpc, crashed, history>>

\* case <-ticker.C: cm.server.Connected().
Tick(h) ==
  /\ hpc[h] = "select"
  /\ IF server = Nil
       THEN crashed' = TRUE /\ UNCHANGED hpc
       ELSE /\ HGoto(h, IF Connected(server) = {} THEN "stop" ELSE "eval")
            /\ UNCHANGED crashed
  /\ UNCHANGED <<entry, cm, cancelled, lrcd, request, sel, wpc, history>>

\* lastID, err := cm.server.Stop(); cm.lastID = lastID.  Whoever connected
\* since the tick is thrown out; stopping twice is an error, which panics.
Stop(h) ==
  /\ hpc[h] = "stop"
  /\ IF server # Nil /\ srv[server] = "running"
       THEN /\ srv' = [srv EXCEPT ![server] = "stopped"]
            /\ lastID' = curID[server]
            /\ rpc' = [r \in Req |-> IF r \in Connected(server) THEN "done" ELSE rpc[r]]
            /\ HGoto(h, "nilServer")
            /\ UNCHANGED crashed
       ELSE crashed' = TRUE /\ UNCHANGED <<srv, lastID, rpc, hpc>>
  /\ UNCHANGED <<entry, server, chan, cancel, ctx, cancelled, curID, queue, ret, sel, wpc, history>>

NilServer(h) ==
  /\ hpc[h] = "nilServer"
  /\ server' = Nil
  /\ HGoto(h, "nilChan")
  /\ UNCHANGED <<entry, lastID, chan, cancel, ctx, cancelled, lrcd, request, sel, wpc, crashed,
                 history>>

\* cm.initChan = nil; cm.mediainitChan is kept.
NilChan(h) ==
  /\ hpc[h] = "nilChan"
  /\ chan' = [chan EXCEPT !["init"] = Nil]
  /\ HGoto(h, "callCancel")
  /\ UNCHANGED <<entry, lastID, server, cancel, ctx, cancelled, lrcd, request, sel, wpc, crashed,
                 history>>

\* cm.cancel(), whichever context it cancels by now.
CallCancel(h) ==
  /\ hpc[h] = "callCancel"
  /\ \/ /\ cancel # Nil /\ cancelled' = cancelled \cup {cancel}
        /\ HGoto(h, "nilCancel") /\ UNCHANGED crashed
     \/ /\ cancel = Nil /\ crashed' = TRUE
        /\ UNCHANGED <<cancelled, hpc>>
  /\ UNCHANGED <<entry, cm, lrcd, request, sel, wpc, history>>

NilCancelAndLoop(h) == \* mutant: the return is missing
  /\ hpc[h] = "nilCancel"
  /\ cancel' = Nil
  /\ HGoto(h, "eval")
  /\ UNCHANGED <<entry, lastID, server, chan, ctx, cancelled, lrcd, request, sel, wpc, crashed,
                 history>>

NilCancel(h) ==
  /\ hpc[h] = "nilCancel"
  /\ cancel' = Nil
  /\ HGoto(h, "done")
  /\ UNCHANGED <<entry, lastID, server, chan, ctx, cancelled, lrcd, request, sel, wpc, crashed,
                 history>>

-----------------------------------------------------------------------------
(* Deletion (by the jetstream consumer, or by the owner or the admin over  *)
(* HTTP), and creation and update events of the jetstream consumer.        *)

WGoto(w, pc) == wpc' = [wpc EXCEPT ![w] = pc]

\* AcceptChannelDelete: the row first.  (An error of the database ends it there, which
\* ChannelRegistry tells: here a row may be missing from the beginning.)
DeleteRow(w) ==
  /\ wpc[w] = "idle"
  /\ row' = FALSE
  /\ WGoto(w, "uncache")
  /\ UNCHANGED <<inMap, valid, cm, cancelled, lrcd, request, goroutine, crashed, history>>

\* Model.DeleteChannel: the entry of uriMap.
Uncache(w) ==
  /\ wpc[w] = "uncache"
  /\ inMap' = FALSE
  /\ WGoto(w, IF inMap THEN "cancel" ELSE "idle")
  /\ UNCHANGED <<row, valid, cm, cancelled, lrcd, request, goroutine, crashed, history>>

\* cm.cancel() at the end of DeleteChannel and of UpdateChannel.  A nil cancel
\* panics: net/http recovers, the jetstream consumer does not.
Cancel(w) ==
  /\ wpc[w] = "cancel"
  /\ WGoto(w, "idle")
  /\ cancelled' = IF cancel = Nil THEN cancelled ELSE cancelled \cup {cancel}
  /\ crashed' = (cancel = Nil /\ w = "jetstream")
  /\ UNCHANGED <<entry, cm, lrcd, request, goroutine, history>>

\* AcceptChannel with wasNew: AddChannel refuses, or makes another object.
AcceptCreate ==
  /\ "jetstream" \in Worker /\ wpc["jetstream"] = "idle" /\ ~row
  /\ row' = TRUE
  /\ UNCHANGED <<inMap, valid, cm, cancelled, lrcd, request, goroutine, wpc, crashed, history>>

\* AcceptChannelUpdate: a plain INSERT, an error if the row is there.
AcceptUpdate ==
  /\ "jetstream" \in Worker /\ wpc["jetstream"] = "idle" /\ ~row
  /\ row' = TRUE
  /\ WGoto("jetstream", "lookup")
  /\ UNCHANGED <<inMap, valid, cm, cancelled, lrcd, request, goroutine, crashed, history>>

\* Model.UpdateChannel, up to its cm.cancel().
SetValid(hosted) ==
  /\ "jetstream" \in Worker /\ wpc["jetstream"] = "lookup"
  /\ valid' = IF inMap THEN hosted ELSE valid
  /\ WGoto("jetstream", IF inMap /\ valid /\ ~hosted THEN "cancel" ELSE "idle")
  /\ UNCHANGED <<row, inMap, cm, cancelled, lrcd, request, goroutine, crashed, history>>

-----------------------------------------------------------------------------
GetServer(r) ==
  \/ Refuse(r) \/ FindServer(r) \/ StartServer(r) \/ FailToStart(r)
  \/ CheckOldCancel(r) \/ CancelOld(r) \/ Publish(r) \/ SetChan(r) \/ SetCancel(r)
  \/ Return(r) \/ Connect(r)

Participant(r) == Disconnect(r) \/ \E k \in Kind : Speak(r, k)

HandleInitEvents(h) ==
  \/ EvalSelect(h) \/ ContextDone(h) \/ (\E k \in Kind : Receive(h, k)) \/ Tick(h)
  \/ Stop(h) \/ NilServer(h) \/ NilChan(h) \/ CallCancel(h) \/ NilCancel(h)

Work(w) == Uncache(w) \/ Cancel(w)

Jetstream == AcceptCreate \/ AcceptUpdate \/ \E hosted \in BOOLEAN : SetValid(hosted)

Next ==
  /\ ~crashed
  /\ \/ \E r \in Req : GetServer(r) \/ Participant(r) \/ HandleInitEvents(r)
     \/ \E w \in Worker : DeleteRow(w) \/ Work(w)
     \/ Jetstream

Spec == Init /\ [][Next]_vars

\* Goroutines are scheduled, the ticker ticks and mutexes are handed over;
\* nobody has to connect, to speak or to leave, or to delete a channel.
Fairness ==
  /\ \A r \in Req : WF_vars(~crashed /\ rpc[r] # "idle" /\ GetServer(r))
  /\ \A h \in Req : WF_vars(~crashed /\ HandleInitEvents(h))
  /\ \A w \in Worker : WF_vars(~crashed /\ Work(w))

FairSpec == Spec /\ Fairness

-----------------------------------------------------------------------------
(* Properties.                                                             *)

\* The ids participants receive only grow, over every server the channel ever
\* starts: a server that was stopped handed its last id over before another
\* could be started (lastID := Stop() before server = nil, channel.go:234-239).
FreshIds ==
  \A i, j \in 1..Len(issued) : i < j => issued[i].id < issued[j].id

\* The only running server a participant can be connected to is the one the
\* channel publishes: nobody talks to a server of an earlier round, or to one
\* that getServer started and then lost to a panic (channel.go:199-218).
OneLiveServer ==
  \A r \in Req : ret[r] # Nil /\ srv[ret[r]] = "running" => ret[r] = server

\* A goroutine in its loop, or about to stop the idle server, deals with its
\* own server, which runs: Connected() and Stop() never see a nil, a stopped
\* or somebody else's server (channel.go:231-239).
HandlerOwnsServer ==
  \A h \in Req : hpc[h] \in Looping \cup {"stop"} => server = h /\ srv[h] = "running"

\* The signets posted are those of SignetLog: of inits that happened, never
\* twice, in order within a kind.  Checked as a refinement.
Log == INSTANCE SignetLog
ImplementsSignetLog == Log!Spec

\* The goroutine of a server that everybody has left ends: it does not leak
\* (channel.go:227-243), whatever was deleted, updated or raced before.
NoGoroutineLeak ==
  \A h \in Req : <>[](Connected(h) = {}) => <>[](crashed \/ hpc[h] \in {"none", "done"})

\* The guard and the comment of DeleteChannel (channel.go:147-150): an entry of
\* uriMap that has no running channel can be deleted.
DeletableWithoutServer == \A w \in Worker : wpc[w] = "cancel" => cancel # Nil
=============================================================================
