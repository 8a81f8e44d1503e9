------------------------- MODULE RecordIngestProofs -------------------------
(***************************************************************************)
(* Theorems of RecordIngest, for every instance: any records, any number   *)
(* of requests, lost and replayed events, failed statements, crashes.      *)
(***************************************************************************)
EXTENDS RecordIngest, TLAPS

\* A worker that is given a task, or is through with one, has a proper task.
LEMMA TaskTypes ==
  ASSUME TypeOK, NEW w \in Worker
  PROVE  /\ [task EXCEPT ![w] = Idle] \in [Worker -> Task]
         /\ \A step \in Storing, r \in Record, v \in Version :
              [task EXCEPT ![w] = [step |-> step, rec |-> r, ver |-> v]] \in [Worker -> Task]
         /\ \A step \in Removing, r \in Record :
              [task EXCEPT ![w] = [step |-> step, rec |-> r, ver |-> "none"]] \in [Worker -> Task]
         /\ task[w] # Idle => task[w].rec \in Record
         /\ task[w] # Idle /\ task[w].step \in Storing => task[w].ver \in Version
  BY DEF TypeOK, Task, Idle, Storing, Removing

\* The rows of a table that a deletion leaves.
LEMMA RemoveTypes ==
  ASSUME TypeOK, NEW rows, Remove(rows)
  PROVE  db' \in [Record -> Version \cup {"none"}] /\ removed' \in SUBSET Record
  BY DEF TypeOK, Remove, Rows

\* A commit extends the stream by one event.
LEMMA CommitTypes ==
  ASSUME TypeOK, NEW op \in {"create", "update", "delete"}, NEW r \in Record,
         NEW v \in Version \cup {"none", "bad"}, Commit(op, r, v),
         op = "delete" <=> v = "none"
  PROVE  /\ repo' \in [Record -> Version \cup {"none", "bad"}]
         /\ log' \in Seq(Event) /\ Len(log') = Len(log) + 1
  BY DEF TypeOK, Commit, Event

\* Resuming the stream records whether it left events behind.
LEMMA ResumeTypes == ASSUME TypeOK, Resume PROVE missed' \in BOOLEAN
<1>1. missed \in BOOLEAN /\ missed' = (missed \/ cur' > Handled)
  BY DEF Resume, TypeOK
<1> QED
  BY <1>1, Zenon

\* The steps that a worker takes on the database keep the types.
LEMMA WorkTypes == ASSUME TypeOK, NEW w \in Worker, Work(w) PROVE TypeOK'
<1> DEFINE t == task[w]
<1>1. t # Idle /\ t.rec \in Record /\ (t.step \in Storing => t.ver \in Version)
  BY TaskTypes DEF Work, CreateRecord, CreateFails, Store, Insert, CheckInterference, Unsign,
                   Delete, Forward, Fail, Doing
<1>2. ASSUME Finish(w) PROVE task' \in [Worker -> Task]
  BY <1>2, TaskTypes DEF Finish
<1>3. ASSUME NEW step \in Storing, NEW r \in Record, NEW v \in Version, Start(w, step, r, v)
      PROVE  task' \in [Worker -> Task]
  BY <1>3, TaskTypes DEF Start
<1>12. ASSUME NEW step \in Removing, NEW r \in Record, Start(w, step, r, "none")
       PROVE  task' \in [Worker -> Task]
  BY <1>12, TaskTypes DEF Start
<1>4. CASE CreateRecord(w)
  <2>1. task' \in [Worker -> Task]
    BY <1>1, <1>3, <1>4 DEF CreateRecord, Storing, Version
  <2>2. Commit("create", t.rec, "v1")
    BY <1>4 DEF CreateRecord
  <2> QED
    BY <1>1, <1>4, <2>1, <2>2, CommitTypes DEF CreateRecord, TypeOK, Version, history
<1>5. CASE CreateFails(w) \/ Fail(w)
  BY <1>2, <1>5 DEF CreateFails, Fail, TypeOK, history
<1>6. CASE Store(w)
  <2>1. task' \in [Worker -> Task]
    BY <1>1, <1>2, <1>3, <1>6 DEF Store, Doing, Storing
  <2>2. db' \in [Record -> Version \cup {"none"}]
    BY <1>1, <1>6 DEF Store, Doing, Storing, TypeOK
  <2> QED
    BY <1>6, <2>1, <2>2 DEF Store, TypeOK, history
<1>7. CASE Insert(w)
  <2>1. task' \in [Worker -> Task]
    BY <1>1, <1>2, <1>3, <1>7 DEF Insert, Doing, Storing
  <2>2. db' \in [Record -> Version \cup {"none"}]
    BY <1>1, <1>7 DEF Insert, Doing, Storing, TypeOK
  <2> QED
    BY <1>7, <2>1, <2>2 DEF Insert, TypeOK, history
<1>8. CASE CheckInterference(w)
  <2>1. SignetOf[t.rec] \in Signet => SignetOf[t.rec] \in Record
    BY DEF Record
  <2>2. task' \in [Worker -> Task]
    <3>1. CASE Finish(w)
      BY <1>2, <3>1
    <3>2. CASE SignetOf[t.rec] \in Mine /\ Start(w, "unsign", SignetOf[t.rec], "none")
      <4>1. SignetOf[t.rec] \in Record
        BY <2>1, <3>2, KindsAssumption
      <4> QED
        BY <1>12, <3>2, <4>1 DEF Removing
    <3> QED
      BY <1>8, <3>1, <3>2 DEF CheckInterference
  <2> QED
    BY <1>8, <2>2 DEF CheckInterference, TypeOK, history
<1>9. CASE Unsign(w)
  <2>1. task' \in [Worker -> Task]
    BY <1>1, <1>2, <1>12, <1>9 DEF Unsign, Removing
  <2>2. Commit("delete", t.rec, "none") \/ UNCHANGED <<repo, log>>
    BY <1>9 DEF Unsign
  <2> QED
    BY <1>1, <1>9, <2>1, <2>2, CommitTypes DEF Unsign, TypeOK, history
<1>10. CASE Delete(w)
  BY <1>2, <1>10, RemoveTypes DEF Delete, TypeOK, history
<1>11. CASE Forward(w)
  <2>1. forwards' \in [Record -> 0..2]
    BY <1>1, <1>11 DEF Forward, TypeOK
  <2> QED
    BY <1>2, <1>11, <2>1 DEF Forward, TypeOK, history
<1> QED
  BY <1>4, <1>5, <1>6, <1>7, <1>8, <1>9, <1>10, <1>11 DEF Work

\* Every step keeps every variable in its type.
LEMMA TypeStep == TypeOK /\ [Next]_vars => TypeOK'
<1> SUFFICES ASSUME TypeOK, [Next]_vars PROVE TypeOK'
  OBVIOUS
<1>1. ASSUME NEW r \in Record, NEW v \in Version \cup {"none", "bad"}, UserCommits(r, v)
      PROVE  TypeOK'
  <2>1. PICK op \in {"create", "update", "delete"} :
          Commit(op, r, v) /\ (op = "delete" <=> v = "none")
    BY <1>1 DEF UserCommits
  <2> QED
    BY <1>1, <2>1, CommitTypes DEF UserCommits, TypeOK, history
<1>2. CASE DropChannel
  BY <1>2, RemoveTypes DEF DropChannel, TypeOK
<1>3. CASE RestoreChannel
  BY <1>3 DEF RestoreChannel, TypeOK, history
<1>4. ASSUME NEW w \in Http, NEW r \in Record, PostRecord(w, r) PROVE TypeOK'
  <2>1. w \in Worker /\ "create" \in Storing /\ "v1" \in Version
    BY DEF Worker, Storing, Version
  <2>2. task' \in [Worker -> Task]
    BY <1>4, <2>1, TaskTypes DEF PostRecord, Start
  <2> QED
    BY <1>4, <2>2 DEF PostRecord, TypeOK
<1>5. ASSUME NEW w \in Worker, Work(w) PROVE TypeOK'
  BY <1>5, WorkTypes
<1>6. CASE Fetch
  <2>1. cur + 1 \in 1..Len(log) /\ log[cur + 1] \in Event
    BY <1>6 DEF Fetch, TypeOK
  <2>2. HandlerOf(log[cur + 1]) \in Task
    <3>1. PICK e \in Event : e = log[cur + 1]
      BY <2>1
    <3>2. CASE HandlerOf(e) = Idle
      BY <3>1, <3>2 DEF Task
    <3>3. CASE HandlerOf(e) # Idle /\ e.op = "delete"
      <4>1. HandlerOf(e) = [step |-> "delete", rec |-> e.rec, ver |-> e.ver]
        BY <3>3 DEF HandlerOf
      <4>2. e.rec \in Record /\ e.ver = "none"
        BY <3>3 DEF Event
      <4> QED
        BY <3>1, <4>1, <4>2 DEF Task, Removing
    <3>4. CASE HandlerOf(e) # Idle /\ e.op # "delete"
      <4>1. PICK step \in Storing : HandlerOf(e) = [step |-> step, rec |-> e.rec, ver |-> e.ver]
        BY <3>3, <3>4 DEF HandlerOf, Event, Storing
      <4>2. e.rec \in Record /\ e.ver \in Version
        BY <3>4 DEF HandlerOf, Event
      <4> QED
        BY <3>1, <4>1, <4>2 DEF Task
    <3> QED
      BY <3>2, <3>3, <3>4
  <2>3. task' \in [Worker -> Task]
    BY <1>6, <2>2 DEF Fetch, TypeOK
  <2>4. cur' \in 0..Len(log') /\ log' = log
    BY <1>6, <2>1 DEF Fetch, TypeOK
  <2> QED
    BY <1>6, <2>3, <2>4 DEF Fetch, TypeOK, history
<1>7. CASE Reconnect
  <2>1. cur' \in 0..Len(log') /\ UNCHANGED <<repo, log, channel, db, task, forwards, removed, helped>>
    BY <1>7 DEF Reconnect, Resume
  <2>2. missed' \in BOOLEAN
    BY <1>7, ResumeTypes DEF Reconnect
  <2> QED
    BY <2>1, <2>2 DEF TypeOK
<1>8. CASE Restart
  <2>1. task' \in [Worker -> Task]
    BY <1>8 DEF Restart, Task
  <2>2. cur' \in 0..Len(log') /\ UNCHANGED <<repo, log, channel, db, forwards, removed, helped>>
    BY <1>8 DEF Restart, Resume
  <2>3. missed' \in BOOLEAN
    BY <1>8, ResumeTypes DEF Restart
  <2> QED
    BY <2>1, <2>2, <2>3 DEF TypeOK
<1>9. CASE UNCHANGED vars
  BY <1>9 DEF vars, TypeOK, history
<1> QED
  BY <1>1, <1>2, <1>3, <1>4, <1>5, <1>6, <1>7, <1>8, <1>9 DEF Next

\* Type correctness of the repositories, the stream, the tables and the tasks.
THEOREM TypeCorrect == Spec => []TypeOK
<1>1. Init => TypeOK
  <2>1. Init => task \in [Worker -> Task]
    BY DEF Init, Task
  <2>2. Init => channel \in BOOLEAN /\ missed \in BOOLEAN
    BY Zenon DEF Init
  <2>3. Init => /\ repo \in [Record -> Version \cup {"none", "bad"}]
                /\ db \in [Record -> Version \cup {"none"}]
                /\ forwards \in [Record -> 0..2]
                /\ removed \in SUBSET Record /\ helped \in SUBSET Record
    BY DEF Init
  <2>4. Init => log \in Seq(Event) /\ cur \in 0..Len(log)
    BY DEF Init
  <2> QED BY <2>1, <2>2, <2>3, <2>4 DEF TypeOK
<1> QED
  BY <1>1, TypeStep, PTL DEF Spec

-----------------------------------------------------------------------------
(* BroadcastOnce.                                                          *)

Forwarding(w, r) == Doing(w, "forward") /\ task[w].rec = r

\* Only the worker that inserts the row of a record gets to forward it, and
\* while the row is there nobody else inserts it.
OneForwarder ==
  \A r \in Record \ removed :
    /\ db[r] = "none" => forwards[r] = 0 /\ \A w \in Worker : ~Forwarding(w, r)
    /\ forwards[r] > 0 => forwards[r] = 1 /\ \A w \in Worker : ~Forwarding(w, r)
    /\ \A v, w \in Worker : Forwarding(v, r) /\ Forwarding(w, r) => v = w

\* What leaves OneForwarder alone: no row appears, rows only go by removal,
\* nothing is broadcast and no worker takes up forwarding.
LEMMA ForwardFrame ==
  ASSUME TypeOK, OneForwarder, UNCHANGED forwards, removed \subseteq removed',
         \A r \in Record \ removed' : db[r] = "none" <=> db'[r] = "none",
         \A w \in Worker, r \in Record : Forwarding(w, r)' => Forwarding(w, r)
  PROVE  OneForwarder'
  BY DEF OneForwarder

\* A worker that is given a task other than to forward does not forward, and
\* the other workers go on with what they do.
LEMMA TaskFrame ==
  ASSUME TypeOK, NEW v \in Worker, NEW t, task' = [task EXCEPT ![v] = t],
         t = Idle \/ t.step # "forward"
  PROVE  \A w \in Worker, r \in Record : Forwarding(w, r)' => Forwarding(w, r)
  BY DEF Forwarding, Doing, TypeOK

\* The worker that inserted a row takes up forwarding it.
LEMMA StoreForwards ==
  ASSUME TypeOK, OneForwarder, NEW v \in Worker, Store(v)
  PROVE  OneForwarder'
<1>1. PICK r \in Record : r = task[v].rec
  BY TaskTypes DEF Store, Doing
<1>2. CASE HasParent(r) /\ db[r] = "none"
  <2>1. /\ task' = [task EXCEPT ![v] = [step |-> "forward", rec |-> r, ver |-> task[v].ver]]
        /\ db' = [db EXCEPT ![r] = task[v].ver]
        /\ UNCHANGED <<forwards, removed>>
    BY <1>1, <1>2 DEF Store, Start
  <2>2. \A q \in Record \ {r} : db'[q] = db[q]
    BY <2>1 DEF TypeOK
  <2>3. \A w \in Worker, q \in Record : Forwarding(w, q)' <=> \/ w # v /\ Forwarding(w, q)
                                                              \/ w = v /\ q = r
    BY <1>1, <2>1 DEF Forwarding, Doing, TypeOK, Idle
  <2>4. \A q \in Record : ~Forwarding(v, q)
    BY DEF Forwarding, Store, Doing
  <2>5. task[v].ver \in Version
    BY TaskTypes DEF Store, Doing, Storing
  <2>6. db'[r] # "none"
    BY <2>1, <2>5 DEF TypeOK, Version
  <2> QED
    BY <1>2, <2>1, <2>2, <2>3, <2>4, <2>6 DEF OneForwarder
<1>3. CASE ~(HasParent(r) /\ db[r] = "none")
  <2>1. task' = [task EXCEPT ![v] = Idle] /\ UNCHANGED <<db, forwards, removed>>
    BY <1>1, <1>3 DEF Store, Finish
  <2> QED
    BY <2>1, TaskFrame, ForwardFrame
<1> QED
  BY <1>2, <1>3

\* An update inserts a row that it does not forward: another worker can only
\* have forwarded the record if its row was removed since.
LEMMA InsertForwardsNothing ==
  ASSUME TypeOK, OneForwarder, NEW v \in Worker, Insert(v)
  PROVE  OneForwarder'
<1>1. PICK r \in Record : r = task[v].rec
  BY TaskTypes DEF Insert, Doing
<1>2. PICK t : task' = [task EXCEPT ![v] = t] /\ (t = Idle \/ t.step # "forward")
  BY DEF Insert, Start, Finish
<1>3. \A w \in Worker, q \in Record : Forwarding(w, q)' => Forwarding(w, q)
  BY <1>2, TaskFrame
<1>4. /\ UNCHANGED <<forwards, removed>>
      /\ \A q \in Record \ {r} : db'[q] = db[q]
      /\ db[r] # "none" => db' = db
  BY <1>1 DEF Insert, TypeOK, history
<1>5. db'[r] = "none" => db[r] = "none"
  BY <1>4 DEF TypeOK
<1> QED
  BY <1>3, <1>4, <1>5 DEF OneForwarder

\* The broadcast that ends the forwarding of a record, or that failed to.
LEMMA ForwardEnds ==
  ASSUME TypeOK, OneForwarder, NEW v \in Worker, Forward(v)
  PROVE  OneForwarder'
<1>1. PICK r \in Record : r = task[v].rec
  BY TaskTypes DEF Forward, Doing
<1>2. /\ Forwarding(v, r) /\ UNCHANGED <<db, removed>> /\ task' = [task EXCEPT ![v] = Idle]
      /\ \A q \in Record \ {r} : forwards'[q] = forwards[q]
      /\ \/ forwards' = forwards
         \/ forwards'[r] = IF forwards[r] < 2 THEN forwards[r] + 1 ELSE forwards[r]
  BY <1>1 DEF Forward, Forwarding, Finish, TypeOK
<1>3. \A w \in Worker, q \in Record : Forwarding(w, q)' <=> w # v /\ Forwarding(w, q)
  BY <1>2 DEF Forwarding, Doing, TypeOK
<1>4. \A q \in Record \ {r} : ~Forwarding(v, q)
  BY <1>1 DEF Forwarding
<1>5. forwards[r] \in 0..2
  BY DEF TypeOK
<1>6. ASSUME r \notin removed
      PROVE  /\ db[r] # "none" /\ forwards[r] = 0 /\ forwards'[r] \in 0..1
             /\ \A w \in Worker : ~Forwarding(w, r)'
  BY <1>2, <1>3, <1>5, <1>6 DEF OneForwarder
<1>7. ASSUME NEW q \in Record \ removed', q # r
      PROVE  /\ db'[q] = "none" => forwards'[q] = 0 /\ \A w \in Worker : ~Forwarding(w, q)'
             /\ forwards'[q] > 0 => forwards'[q] = 1 /\ \A w \in Worker : ~Forwarding(w, q)'
             /\ \A u, w \in Worker : Forwarding(u, q)' /\ Forwarding(w, q)' => u = w
  BY <1>2, <1>3, <1>4, <1>7 DEF OneForwarder
<1>8. ASSUME r \in Record \ removed'
      PROVE  /\ db'[r] = "none" => forwards'[r] = 0 /\ \A w \in Worker : ~Forwarding(w, r)'
             /\ forwards'[r] > 0 => forwards'[r] = 1 /\ \A w \in Worker : ~Forwarding(w, r)'
             /\ \A u, w \in Worker : Forwarding(u, r)' /\ Forwarding(w, r)' => u = w
  BY <1>2, <1>6, <1>8
<1> QED
  BY <1>7, <1>8 DEF OneForwarder

\* Every step leaves at most one worker to broadcast a record.
LEMMA OneForwarderStep == TypeOK /\ OneForwarder /\ [Next]_vars => OneForwarder'
<1> SUFFICES ASSUME TypeOK, OneForwarder, [Next]_vars PROVE OneForwarder'
  OBVIOUS
<1>1. ASSUME UNCHANGED <<db, task, forwards, removed>> PROVE OneForwarder'
  BY <1>1 DEF OneForwarder, Forwarding, Doing
<1>2. ASSUME NEW w \in Worker, NEW t, task' = [task EXCEPT ![w] = t],
             t = Idle \/ t.step # "forward", UNCHANGED <<db, forwards, removed>>
      PROVE  OneForwarder'
  BY <1>2, TaskFrame, ForwardFrame
<1>3. ASSUME NEW rows, Remove(rows)
      PROVE  /\ removed \subseteq removed'
             /\ \A r \in Record \ removed' : db[r] = "none" <=> db'[r] = "none"
  BY <1>3 DEF Remove, Rows
<1>4. ASSUME NEW r \in Record, NEW v \in Version \cup {"none", "bad"}, UserCommits(r, v)
      PROVE  OneForwarder'
  BY <1>1, <1>4 DEF UserCommits
<1>5. CASE DropChannel
  <2>1. UNCHANGED <<task, forwards>> /\ Remove(Record)
    BY <1>5 DEF DropChannel
  <2>2. \A w \in Worker, r \in Record : Forwarding(w, r)' => Forwarding(w, r)
    BY <2>1 DEF Forwarding, Doing
  <2> QED
    BY <1>3, <2>1, <2>2, ForwardFrame
<1>6. CASE RestoreChannel \/ Reconnect
  BY <1>1, <1>6 DEF RestoreChannel, Reconnect
<1>7. ASSUME NEW w \in Http, NEW r \in Record, PostRecord(w, r) PROVE OneForwarder'
  BY <1>2, <1>7 DEF PostRecord, Start, Worker
<1>8. ASSUME NEW w \in Worker, Work(w) PROVE OneForwarder'
  <2>1. CASE CreateRecord(w)
    BY <1>2, <2>1 DEF CreateRecord, Start
  <2>2. CASE CreateFails(w) \/ Fail(w)
    BY <1>2, <2>2 DEF CreateFails, Fail, Finish
  <2>3. CASE Store(w)
    BY <2>3, StoreForwards
  <2>4. CASE Insert(w)
    BY <2>4, InsertForwardsNothing
  <2>5. CASE CheckInterference(w) \/ Unsign(w)
    BY <1>2, <2>5 DEF CheckInterference, Unsign, Start, Finish
  <2>6. CASE Delete(w)
    <3>1. /\ task' = [task EXCEPT ![w] = Idle] /\ UNCHANGED forwards
          /\ Remove(Below(task[w].rec))
      BY <2>6 DEF Delete, Finish
    <3>2. \A v \in Worker, r \in Record : Forwarding(v, r)' => Forwarding(v, r)
      BY <3>1, TaskFrame
    <3> QED
      BY <1>3, <3>1, <3>2, ForwardFrame
  <2>7. CASE Forward(w)
    BY <2>7, ForwardEnds
  <2> QED
    BY <1>8, <2>1, <2>2, <2>3, <2>4, <2>5, <2>6, <2>7 DEF Work
<1>9. CASE Fetch
  <2>1. HandlerOf(log[cur + 1]) = Idle \/ HandlerOf(log[cur + 1]).step # "forward"
    <3>1. PICK e \in Event : e = log[cur + 1]
      BY <1>9 DEF Fetch, TypeOK
    <3> QED
      BY <3>1 DEF HandlerOf, Event
  <2> QED
    BY <1>2, <1>9, <2>1 DEF Fetch, Worker
<1>10. CASE Restart
  <2>1. \A w \in Worker, r \in Record : ~Forwarding(w, r)'
    BY <1>10 DEF Restart, Forwarding, Doing
  <2> QED
    BY <1>10, <2>1, ForwardFrame DEF Restart
<1>11. CASE UNCHANGED vars
  BY <1>1, <1>11 DEF vars
<1> QED
  BY <1>4, <1>5, <1>6, <1>7, <1>8, <1>9, <1>10, <1>11 DEF Next

\* For every instance, a record is broadcast at most once per row it had.
THEOREM RecordsBroadcastOnce == Spec => []BroadcastOnce
<1>1. Init => OneForwarder
  BY DEF Init, OneForwarder, Forwarding, Doing
<1>2. TypeOK /\ OneForwarder => BroadcastOnce
  BY DEF TypeOK, OneForwarder, BroadcastOnce
<1> QED
  BY <1>1, <1>2, TypeCorrect, OneForwarderStep, PTL DEF Spec

-----------------------------------------------------------------------------
(* CacheComplete and CacheForgets.                                         *)

DeleteAt(r, j) == log[j].rec = r /\ log[j].op = "delete"

\* The jetstream goroutine is about to insert the row of r, or to delete it.
InHand(r) ==
  /\ task["jetstream"] # Idle /\ task["jetstream"].step \in {"store", "insert"}
  /\ task["jetstream"].rec = r
Deleting(r) == Doing("jetstream", "delete") /\ task["jetstream"].rec = r

\* Requests only store what they posted; what the jetstream goroutine deletes
\* was deleted by the event in hand, or by one it has not fetched yet.
HandsInv ==
  /\ \A w \in Http : task[w] # Idle =>
       task[w].step \in {"create", "store", "forward"} /\ task[w].rec \in helped
  /\ \A r \in Record : Deleting(r) => \E j \in 1..Len(log) : cur <= j /\ DeleteAt(r, j)

\* The jetstream goroutine creates no records.
OnlyReads == ~Doing("jetstream", "create")

\* What the event at i wrote is in the table, or about to be.
Cached(r, i) == db[r] # "none" \/ (i = cur /\ InHand(r))

\* The events that were fetched have been handled.
CompleteInv ==
  ~missed =>
    /\ channel
    /\ \A s \in Signet, i \in 1..cur : Written(s, i) => Cached(s, i)
    /\ \A p \in Post, i, j \in 1..cur :
         i < j /\ Written(SignetOf[p], i) /\ Written(p, j) => Cached(p, j)

-----------------------------------------------------------------------------
\* Streams only grow.
LogGrows == Len(log) <= Len(log') /\ \A i \in 1..Len(log) : log'[i] = log[i]

\* A step commits one event, or none; no deletion leaves a record.
Commits ==
  \E op \in {"create", "update", "delete"}, r \in Record, v \in Version \cup {"none", "bad"} :
    Commit(op, r, v) /\ (op = "delete" <=> v = "none")

LEMMA CommitsStep ==
  ASSUME TypeOK, [Next]_vars
  PROVE  Commits \/ UNCHANGED <<repo, log>>
<1>1. ASSUME NEW r \in Record, NEW v \in Version \cup {"none", "bad"}, UserCommits(r, v)
      PROVE  Commits
  <2>1. PICK op \in {"create", "update", "delete"} :
          Commit(op, r, v) /\ (op = "delete" <=> v = "none")
    BY <1>1 DEF UserCommits
  <2> QED
    BY <2>1 DEF Commits
<1>2. ASSUME NEW w \in Worker, Work(w) PROVE Commits \/ UNCHANGED <<repo, log>>
  <2>1. CASE CreateRecord(w)
    <3>1. task[w].rec \in Record /\ Commit("create", task[w].rec, "v1")
      BY <2>1, TaskTypes DEF CreateRecord, Doing
    <3> QED
      BY <3>1 DEF Commits, Version
  <2>2. CASE Unsign(w)
    <3>1. task[w].rec \in Record
      BY <2>2, TaskTypes DEF Unsign, Doing
    <3>2. Commit("delete", task[w].rec, "none") \/ UNCHANGED <<repo, log>>
      BY <2>2 DEF Unsign
    <3> QED
      BY <3>1, <3>2 DEF Commits, Version
  <2>3. CASE ~CreateRecord(w) /\ ~Unsign(w)
    BY <1>2, <2>3
       DEF Work, CreateFails, Store, Insert, CheckInterference, Delete, Forward, Fail
  <2> QED
    BY <2>1, <2>2, <2>3
<1>3. CASE \/ DropChannel \/ RestoreChannel \/ Fetch \/ Reconnect \/ Restart \/ UNCHANGED vars
           \/ \E w \in Http, r \in Record : PostRecord(w, r)
  BY <1>3 DEF DropChannel, RestoreChannel, Fetch, Reconnect, Restart, vars, PostRecord
<1> QED
  BY <1>1, <1>2, <1>3 DEF Next

\* What a commit does to the stream.
LEMMA CommitLog ==
  ASSUME TypeOK, NEW op \in {"create", "update", "delete"}, NEW r \in Record,
         NEW v \in Version \cup {"none", "bad"}, Commit(op, r, v)
  PROVE  /\ Len(log) \in Nat /\ Len(log') = Len(log) + 1
         /\ \A i \in 1..Len(log) : log'[i] = log[i]
         /\ log'[Len(log) + 1] = [op |-> op, rec |-> r, ver |-> v]
         /\ \A q \in Record : repo'[q] = IF q = r THEN v ELSE repo[q]
<1>1. [op |-> op, rec |-> r, ver |-> v] = [op |-> op, rec |-> r, ver |-> v]
  OBVIOUS
<1> QED
  BY DEF TypeOK, Commit

LEMMA GrowsStep == ASSUME TypeOK, [Next]_vars PROVE LogGrows
<1>1. CASE Commits
  <2>1. PICK op \in {"create", "update", "delete"}, r \in Record,
             v \in Version \cup {"none", "bad"} : Commit(op, r, v)
    BY <1>1 DEF Commits
  <2>2. /\ Len(log) \in Nat /\ Len(log') = Len(log) + 1
        /\ \A i \in 1..Len(log) : log'[i] = log[i]
    BY <2>1, CommitLog
  <2> QED
    BY <2>2 DEF LogGrows
<1>2. CASE UNCHANGED <<repo, log>>
  BY <1>2 DEF LogGrows, TypeOK
<1> QED
  BY <1>1, <1>2, CommitsStep

\* What is written was written before, for no deletion is taken back.
LEMMA WrittenBefore ==
  ASSUME TypeOK, LogGrows, NEW r, NEW i \in 1..Len(log), Written(r, i)'
  PROVE  Written(r, i)
<1>1. Len(log) \in Nat /\ Len(log') >= Len(log) /\ \A j \in 1..Len(log) : log'[j] = log[j]
  BY DEF TypeOK, LogGrows
<1>2. \A j \in i + 1..Len(log) : j \in 1..Len(log) /\ j \in i + 1..Len(log')
  BY <1>1 DEF TypeOK
<1> QED
  BY <1>1, <1>2 DEF Written

\* What is written is not deleted later.
LEMMA WrittenNotDeleted ==
  ASSUME TypeOK, NEW r, NEW i \in 1..Len(log), Written(r, i),
         NEW j \in 1..Len(log), i <= j
  PROVE  ~DeleteAt(r, j)
<1>1. CASE i = j
  <2>1. log[i] \in Event
    BY DEF TypeOK
  <2> QED
    BY <1>1, <2>1 DEF Event, Written, DeleteAt, Version
<1>2. CASE i < j
  BY <1>2 DEF Written, DeleteAt, TypeOK
<1> QED
  BY <1>1, <1>2

-----------------------------------------------------------------------------
\* A deletion of r that is at or after the cursor stays one.
LEMMA DeletionStays ==
  ASSUME TypeOK, LogGrows, NEW r, NEW j \in 1..Len(log), cur <= j, DeleteAt(r, j), cur' = cur
  PROVE  j \in 1..Len(log') /\ cur' <= j /\ DeleteAt(r, j)'
<1>1. Len(log) \in Nat /\ j <= Len(log) /\ Len(log) <= Len(log') /\ log'[j] = log[j]
  BY DEF TypeOK, LogGrows
<1>2. Len(log') \in Nat \/ j \in 1..Len(log')
  BY <1>1
<1> QED
  BY <1>1, <1>2 DEF DeleteAt

LEMMA HandsStep ==
  ASSUME TypeOK, TypeOK', HandsInv, [Next]_vars
  PROVE  HandsInv'
<1>1. LogGrows
  BY GrowsStep
<1>2. "jetstream" \in Worker /\ "jetstream" \notin Http /\ Http \subseteq Worker
  BY HttpAssumption DEF Worker
<1>3. ASSUME cur' = cur, helped \subseteq helped',
             \A w \in Http : task'[w] # Idle =>
               task'[w].step \in {"create", "store", "forward"} /\ task'[w].rec \in helped',
             \A r \in Record : Deleting(r)' => Deleting(r)
      PROVE  HandsInv'
  <2>1. ASSUME NEW r \in Record, Deleting(r)'
        PROVE  \E j \in 1..Len(log') : cur' <= j /\ DeleteAt(r, j)'
    <3>1. PICK j \in 1..Len(log) : cur <= j /\ DeleteAt(r, j)
      BY <1>3, <2>1 DEF HandsInv
    <3> QED
      BY <1>1, <1>3, <3>1, DeletionStays
  <2> QED
    BY <1>3, <2>1 DEF HandsInv
<1>4. ASSUME UNCHANGED <<cur, task, helped>> PROVE HandsInv'
  BY <1>3, <1>4 DEF HandsInv, Deleting, Doing
<1>5. ASSUME NEW r \in Record, NEW v \in Version \cup {"none", "bad"}, UserCommits(r, v)
      PROVE  HandsInv'
  BY <1>4, <1>5 DEF UserCommits, history
<1>6. CASE DropChannel \/ RestoreChannel \/ UNCHANGED vars
  BY <1>4, <1>6 DEF DropChannel, RestoreChannel, vars, history
<1>7. ASSUME NEW w \in Http, NEW r \in Record, PostRecord(w, r) PROVE HandsInv'
  <2>1. /\ task' = [task EXCEPT ![w] = [step |-> "create", rec |-> r, ver |-> "v1"]]
        /\ helped' = helped \cup {r} /\ cur' = cur
    BY <1>7 DEF PostRecord, Start
  <2> QED
    BY <1>2, <1>3, <2>1 DEF HandsInv, TypeOK, Deleting, Doing
<1>8. ASSUME NEW w \in Http, Work(w) PROVE HandsInv'
  <2>1. /\ task[w] # Idle /\ task[w].step \in {"create", "store", "forward"}
        /\ task[w].rec \in helped /\ w \in Worker
    <3>1. task[w] # Idle
      BY <1>8 DEF Work, CreateRecord, CreateFails, Store, Insert, CheckInterference, Unsign,
                  Delete, Forward, Fail, Doing
    <3> QED
      BY <1>2, <3>1 DEF HandsInv
  <2>2. /\ cur' = cur /\ helped' = helped
        /\ \/ task' = [task EXCEPT ![w] = Idle]
           \/ \E step \in {"create", "store", "forward"} :
                task' = [task EXCEPT ![w] = [step |-> step, rec |-> task[w].rec, ver |-> "v1"]]
           \/ \E step \in {"create", "store", "forward"} :
                task' = [task EXCEPT ![w] = [step |-> step, rec |-> task[w].rec,
                                             ver |-> task[w].ver]]
    BY <1>8, <2>1
       DEF Work, CreateRecord, CreateFails, Store, Insert, CheckInterference, Unsign,
           Delete, Forward, Fail, Doing, Start, Finish, history
  <2>3. PICK t : /\ task' = [task EXCEPT ![w] = t]
                 /\ t # Idle => t.step \in {"create", "store", "forward"} /\ t.rec = task[w].rec
    BY <2>2
  <2>4. task'[w] = t /\ \A v \in Worker \ {w} : task'[v] = task[v]
    BY <2>1, <2>3 DEF TypeOK
  <2>5. \A v \in Http : task'[v] # Idle =>
          task'[v].step \in {"create", "store", "forward"} /\ task'[v].rec \in helped'
    BY <1>2, <2>1, <2>2, <2>3, <2>4 DEF HandsInv
  <2>6. \A r \in Record : Deleting(r)' => Deleting(r)
    BY <1>2, <2>4 DEF Deleting, Doing
  <2> QED
    BY <1>3, <2>2, <2>5, <2>6
<1>9. CASE Work("jetstream") /\ ~Unsign("jetstream")
  <2>1. /\ cur' = cur /\ helped' = helped
        /\ \E t : task' = [task EXCEPT !["jetstream"] = t] /\ (t = Idle \/ t.step # "delete")
    BY <1>2, <1>9
       DEF Work, CreateRecord, CreateFails, Store, Insert, CheckInterference,
           Delete, Forward, Fail, Doing, Start, Finish, history
  <2>2. PICK t : task' = [task EXCEPT !["jetstream"] = t] /\ (t = Idle \/ t.step # "delete")
    BY <2>1
  <2>3. task'["jetstream"] = t /\ \A w \in Http : task'[w] = task[w]
    BY <1>2, <2>2 DEF TypeOK
  <2>4. \A r \in Record : ~Deleting(r)'
    BY <2>2, <2>3 DEF Deleting, Doing
  <2> QED
    BY <1>3, <2>1, <2>3, <2>4 DEF HandsInv
<1>10. CASE Unsign("jetstream")
  <2>1. PICK s \in Record : s = task["jetstream"].rec
    BY <1>2, <1>10, TaskTypes DEF Unsign, Doing
  <2>2. CASE Commit("delete", s, "none") /\ Start("jetstream", "delete", s, "none")
    <3>1. PICK n \in Nat : /\ n = Len(log) + 1 /\ Len(log') = n
                           /\ log'[n] = [op |-> "delete", rec |-> s, ver |-> "none"]
      BY <2>2, CommitLog
    <3>2. n \in 1..Len(log') /\ cur' <= n /\ DeleteAt(s, n)'
      BY <1>10, <3>1 DEF Unsign, TypeOK, DeleteAt
    <3>3. task' = [task EXCEPT !["jetstream"] = [step |-> "delete", rec |-> s, ver |-> "none"]]
          /\ helped' = helped
      BY <1>10, <2>2 DEF Unsign, Start, history
    <3>4. \A r \in Record : Deleting(r)' => r = s
      BY <1>2, <3>3 DEF Deleting, Doing, TypeOK
    <3>5. \A r \in Record : Deleting(r)' =>
            \E j \in 1..Len(log') : cur' <= j /\ DeleteAt(r, j)'
      BY <3>2, <3>4
    <3> QED
      BY <1>2, <3>3, <3>5 DEF HandsInv, TypeOK
  <2>3. CASE Finish("jetstream")
    <3>1. task' = [task EXCEPT !["jetstream"] = Idle] /\ cur' = cur /\ helped' = helped
      BY <1>10, <2>3 DEF Unsign, Finish, history
    <3> QED
      BY <1>2, <1>3, <3>1 DEF HandsInv, TypeOK, Deleting, Doing
  <2> QED
    BY <1>10, <2>1, <2>2, <2>3 DEF Unsign
<1>11. CASE Fetch
  <2>1. PICK e \in Event : e = log[cur + 1]
    BY <1>11 DEF Fetch, TypeOK
  <2>2. /\ cur' = cur + 1 /\ cur + 1 \in 1..Len(log') /\ log' = log /\ helped' = helped
        /\ task' = [task EXCEPT !["jetstream"] = HandlerOf(e)]
    BY <1>11, <2>1 DEF Fetch, TypeOK, history
  <2>3. task'["jetstream"] = HandlerOf(e) /\ \A w \in Http : task'[w] = task[w]
    BY <1>2, <2>2 DEF TypeOK
  <2>4. PICK n \in 1..Len(log') : n = cur' /\ log'[n] = e
    BY <2>1, <2>2
  <2>5. \A r \in Record : Deleting(r)' => cur' <= n /\ DeleteAt(r, n)'
    <3> SUFFICES ASSUME NEW r \in Record, Deleting(r)' PROVE cur' <= n /\ DeleteAt(r, n)'
      OBVIOUS
    <3>1. HandlerOf(e) # Idle /\ HandlerOf(e).step = "delete" /\ HandlerOf(e).rec = r
      BY <2>3 DEF Deleting, Doing
    <3>2. e.op = "delete" /\ e.rec = r
      BY <3>1 DEF HandlerOf, Event
    <3>3. n \in Nat /\ n = cur'
      BY <2>4
    <3> QED
      BY <2>4, <3>2, <3>3 DEF DeleteAt
  <2> QED
    BY <2>2, <2>3, <2>4, <2>5 DEF HandsInv
<1>12. CASE Reconnect
  <2>1. UNCHANGED <<task, helped>> /\ \A r \in Record : ~Deleting(r)'
    BY <1>12 DEF Reconnect, Deleting, Doing
  <2> QED
    BY <2>1 DEF HandsInv
<1>13. CASE Restart
  <2>1. helped' = helped /\ \A w \in Worker : task'[w] = Idle
    BY <1>13 DEF Restart
  <2>2. \A r \in Record : ~Deleting(r)'
    BY <1>2, <2>1 DEF Deleting, Doing
  <2> QED
    BY <1>2, <2>1, <2>2 DEF HandsInv
<1> QED
  BY <1>2, <1>5, <1>6, <1>7, <1>8, <1>9, <1>10, <1>11, <1>12, <1>13 DEF Next, Worker

-----------------------------------------------------------------------------
\* What is missed stays missed; a failing statement and the end of the channel
\* are.
LEMMA NotMissed ==
  ASSUME TypeOK, [Next]_vars, ~missed'
  PROVE  ~missed /\ ~DropChannel /\ \A w \in Worker : ~Fail(w)
<1>1. ASSUME NEW r \in Record, NEW v \in Version \cup {"none", "bad"}, UserCommits(r, v)
      PROVE  missed' = missed
  BY <1>1 DEF UserCommits, history
<1>2. ASSUME NEW w \in Worker, Work(w) PROVE missed' = missed \/ missed' = TRUE
  BY <1>2
     DEF Work, CreateRecord, CreateFails, Store, Insert, CheckInterference, Unsign, Delete,
         Forward, Fail, history
<1>3. CASE Reconnect \/ Restart
  BY <1>3, Zenon DEF Reconnect, Restart, Resume, DropChannel, Fail
<1>4. CASE \/ DropChannel \/ RestoreChannel \/ Fetch \/ UNCHANGED vars
           \/ \E w \in Http, r \in Record : PostRecord(w, r)
  BY <1>4 DEF DropChannel, RestoreChannel, Fetch, vars, PostRecord, history, Fail
<1>5. ~DropChannel /\ \A w \in Worker : ~Fail(w)
  BY DEF DropChannel, Fail
<1> QED
  BY <1>1, <1>2, <1>3, <1>4, <1>5 DEF Next

\* Steps after which everything cached stays cached.
LEMMA CompleteFrame ==
  ASSUME TypeOK, TypeOK', CompleteInv, LogGrows, ~missed, channel', cur' <= cur,
         \A r \in Record, i \in 1..cur' : Cached(r, i) => Cached(r, i)'
  PROVE  CompleteInv'
<1>1. 1..cur' \subseteq 1..cur /\ 1..cur \subseteq 1..Len(log)
  BY DEF TypeOK
<1>2. \A r \in Record, i \in 1..cur' : Written(r, i)' => Written(r, i)
  BY <1>1, WrittenBefore
<1>3. \A s \in Signet, i \in 1..cur' : Written(s, i)' => Cached(s, i)'
  BY <1>1, <1>2 DEF CompleteInv, Record
<1>4. ASSUME NEW p \in Post, NEW i \in 1..cur', NEW j \in 1..cur',
             i < j, Written(SignetOf[p], i)', Written(p, j)'
      PROVE  Cached(p, j)'
  <2>1. p \in Record /\ SignetOf[p] \in Record
    BY SignetOfAssumption DEF Record
  <2>2. Written(SignetOf[p], i) /\ Written(p, j)
    BY <1>2, <1>4, <2>1
  <2> QED
    BY <1>1, <1>4, <2>1, <2>2 DEF CompleteInv
<1> QED
  BY <1>3, <1>4 DEF CompleteInv

\* A signet is stored since the channel is there, and a post since its signet is,
\* which was stored when its event was handled.
LEMMA StoreCompletes ==
  ASSUME TypeOK, TypeOK', CompleteInv, LogGrows, ~missed,
         Store("jetstream") \/ Insert("jetstream")
  PROVE  CompleteInv'
<1>1. PICK r \in Record : r = task["jetstream"].rec
  BY TaskTypes DEF Store, Insert, Doing, Worker
<1>2. /\ UNCHANGED <<cur, channel, missed, log>>
      /\ \A q \in Record : InHand(q) => q = r
      /\ \A q \in Record : db[q] # "none" => db'[q] # "none"
      /\ HasParent(r) => db'[r] # "none"
  <2>1. task["jetstream"].ver \in Version
    BY TaskTypes DEF Store, Insert, Doing, Worker, Storing
  <2>2. /\ UNCHANGED <<cur, channel, missed, log>>
        /\ IF HasParent(r) /\ db[r] = "none"
             THEN db' = [db EXCEPT ![r] = task["jetstream"].ver] ELSE db' = db
    BY <1>1 DEF Store, Insert, history
  <2> QED
    BY <1>1, <2>1, <2>2 DEF TypeOK, InHand, Version
<1>3. channel /\ 1..cur \subseteq 1..Len(log)
  BY DEF CompleteInv, TypeOK
<1>4. \A q \in Record, i \in 1..cur : Written(q, i)' => Written(q, i)
  BY <1>3, WrittenBefore
<1>5. ASSUME NEW s \in Signet, NEW i \in 1..cur, Written(s, i) PROVE db'[s] # "none"
  <2>1. Cached(s, i) /\ s \in Record
    BY <1>5 DEF CompleteInv, Record
  <2>2. HasParent(s)
    BY <1>3 DEF HasParent
  <2> QED
    BY <1>2, <2>1, <2>2 DEF Cached
<1>6. ASSUME NEW p \in Post, NEW i \in 1..cur, NEW j \in 1..cur, i < j,
             Written(SignetOf[p], i), Written(p, j)
      PROVE  db'[p] # "none"
  <2>1. Cached(p, j) /\ Cached(SignetOf[p], i) /\ p \in Record /\ SignetOf[p] \in Signet
    BY <1>6, SignetOfAssumption DEF CompleteInv, Record
  <2>2. i # cur
    BY <1>6 DEF TypeOK
  <2>3. HasParent(p)
    BY <2>1, <2>2, KindsAssumption DEF Cached, HasParent
  <2> QED
    BY <1>2, <2>1, <2>3 DEF Cached
<1>7. \A s \in Signet, i \in 1..cur : Written(s, i)' => Cached(s, i)'
  BY <1>4, <1>5 DEF Cached, Record
<1>8. ASSUME NEW p \in Post, NEW i \in 1..cur, NEW j \in 1..cur,
             i < j, Written(SignetOf[p], i)', Written(p, j)'
      PROVE  Cached(p, j)'
  <2>1. p \in Record /\ SignetOf[p] \in Record
    BY SignetOfAssumption DEF Record
  <2> QED
    BY <1>4, <1>6, <1>8, <2>1 DEF Cached
<1> QED
  BY <1>2, <1>3, <1>7, <1>8 DEF CompleteInv

\* What is deleted, with the posts below it, is deleted in the stream as well.
LEMMA DeleteCompletes ==
  ASSUME TypeOK, TypeOK', CompleteInv, HandsInv, LogGrows, ~missed, Delete("jetstream")
  PROVE  CompleteInv'
<1>1. PICK r \in Record : r = task["jetstream"].rec
  BY TaskTypes DEF Delete, Doing, Worker
<1>2. /\ UNCHANGED <<cur, channel, missed, log>>
      /\ \A q \in Record : ~InHand(q)
      /\ \A q \in Record \ Below(r) : db'[q] = db[q]
  BY <1>1 DEF Delete, Remove, InHand, Doing, history, TypeOK
<1>3. PICK d \in 1..Len(log) : cur <= d /\ DeleteAt(r, d)
  BY <1>1 DEF HandsInv, Deleting, Delete
<1>4. channel /\ 1..cur \subseteq 1..Len(log) /\ cur \in Nat
  BY DEF CompleteInv, TypeOK
<1>5. \A q \in Record, i \in 1..cur : Written(q, i)' => Written(q, i) /\ q # r
  <2> SUFFICES ASSUME NEW q \in Record, NEW i \in 1..cur, Written(q, i)'
               PROVE  Written(q, i) /\ q # r
    OBVIOUS
  <2>1. Written(q, i) /\ i \in 1..Len(log) /\ i <= d
    BY <1>3, <1>4, WrittenBefore
  <2> QED
    BY <1>3, <2>1, WrittenNotDeleted
<1>6. \A s \in Signet, i \in 1..cur : Written(s, i)' => Cached(s, i)'
  <2> SUFFICES ASSUME NEW s \in Signet, NEW i \in 1..cur, Written(s, i)'
               PROVE  Cached(s, i)'
    OBVIOUS
  <2>1. Written(s, i) /\ s # r /\ s \in Record /\ Cached(s, i)
    BY <1>5 DEF Record, CompleteInv
  <2>2. s \notin Below(r)
    BY <2>1, KindsAssumption DEF Below
  <2> QED
    BY <1>2, <2>1, <2>2 DEF Cached
<1>7. ASSUME NEW p \in Post, NEW i \in 1..cur, NEW j \in 1..cur,
             i < j, Written(SignetOf[p], i)', Written(p, j)'
      PROVE  Cached(p, j)'
  <2>1. p \in Record /\ SignetOf[p] \in Record
    BY SignetOfAssumption DEF Record
  <2>2. Written(p, j) /\ p # r /\ Written(SignetOf[p], i) /\ SignetOf[p] # r
    BY <1>5, <1>7, <2>1
  <2>3. p \notin Below(r) /\ Cached(p, j)
    BY <1>7, <2>2 DEF Below, CompleteInv
  <2> QED
    BY <1>2, <2>1, <2>3 DEF Cached
<1> QED
  BY <1>2, <1>4, <1>6, <1>7 DEF CompleteInv

\* The next event is in hand.
LEMMA FetchCompletes ==
  ASSUME TypeOK, TypeOK', CompleteInv, LogGrows, ~missed, Fetch
  PROVE  CompleteInv'
<1>1. PICK n \in Nat : n = cur + 1 /\ cur' = n /\ n \in 1..Len(log) /\ log[n] \in Event
  BY DEF Fetch, TypeOK
<1>2. /\ UNCHANGED <<channel, missed, log, db>>
      /\ \A q \in Record : ~InHand(q)
      /\ task'["jetstream"] = HandlerOf(log[n])
  BY <1>1 DEF Fetch, InHand, history, TypeOK, Worker
<1>3. \A r \in Record : Written(r, n)' => InHand(r)'
  <2> SUFFICES ASSUME NEW r \in Record, Written(r, n)' PROVE InHand(r)'
    OBVIOUS
  <2>1. log[n].rec = r /\ log[n].ver \in Version
    BY <1>2 DEF Written
  <2>2. log[n].op \in {"create", "update"}
    BY <1>1, <2>1 DEF Event, Version
  <2>3. HandlerOf(log[n]) = [step |-> IF log[n].op = "create" THEN "store" ELSE "insert",
                             rec |-> r, ver |-> log[n].ver]
    BY <2>1, <2>2 DEF HandlerOf, Version
  <2> QED
    BY <1>2, <2>2, <2>3 DEF InHand, Idle
<1>4. \A i \in 1..n : i = n \/ i \in 1..cur
  BY <1>1 DEF TypeOK
<1>5. \A r \in Record, i \in 1..cur : Written(r, i)' => Written(r, i)
  BY <1>1, WrittenBefore DEF TypeOK
<1>6. \A s \in Signet, i \in 1..n : Written(s, i)' => Cached(s, i)'
  BY <1>1, <1>2, <1>3, <1>4, <1>5 DEF CompleteInv, Cached, Record
<1>7. ASSUME NEW p \in Post, NEW i \in 1..n, NEW j \in 1..n,
             i < j, Written(SignetOf[p], i)', Written(p, j)'
      PROVE  Cached(p, j)'
  <2>1. p \in Record /\ SignetOf[p] \in Record
    BY SignetOfAssumption DEF Record
  <2>2. CASE j = n
    BY <1>1, <1>3, <1>7, <2>1, <2>2 DEF Cached
  <2>3. CASE j \in 1..cur
    <3>1. i \in 1..cur
      BY <1>1, <1>7, <2>3 DEF TypeOK
    <3>2. Cached(p, j)
      BY <1>5, <1>7, <2>1, <2>3, <3>1 DEF CompleteInv
    <3> QED
      BY <1>2, <2>1, <3>2 DEF Cached
  <2> QED
    BY <1>4, <2>2, <2>3
<1> QED
  BY <1>1, <1>2, <1>6, <1>7 DEF CompleteInv

LEMMA CompleteStep ==
  ASSUME TypeOK, TypeOK', CompleteInv, HandsInv, [Next]_vars
  PROVE  CompleteInv'
<1> SUFFICES ASSUME ~missed' PROVE CompleteInv'
  BY DEF CompleteInv
<1>1. LogGrows /\ ~missed /\ ~DropChannel /\ (\A w \in Worker : ~Fail(w)) /\ channel
  BY GrowsStep, NotMissed DEF CompleteInv
<1>2. "jetstream" \in Worker /\ "jetstream" \notin Http /\ Http \subseteq Worker /\ cur \in Nat
  BY HttpAssumption DEF Worker, TypeOK
<1>3. ASSUME cur' = cur, channel',
             \A r \in Record : db[r] # "none" => db'[r] # "none",
             \A r \in Record : InHand(r) => InHand(r)'
      PROVE  CompleteInv'
  BY <1>1, <1>2, <1>3, CompleteFrame DEF Cached
<1>4. ASSUME NEW r \in Record, NEW v \in Version \cup {"none", "bad"}, UserCommits(r, v)
      PROVE  CompleteInv'
  BY <1>1, <1>3, <1>4 DEF UserCommits, InHand
<1>5. CASE RestoreChannel \/ UNCHANGED vars
  BY <1>1, <1>3, <1>5 DEF RestoreChannel, vars, InHand
<1>6. ASSUME NEW w \in Http, NEW r \in Record, PostRecord(w, r) PROVE CompleteInv'
  BY <1>1, <1>2, <1>3, <1>6 DEF PostRecord, Start, InHand, TypeOK
<1>7. ASSUME NEW w \in Http, Work(w) PROVE CompleteInv'
  <2>1. CreateRecord(w) \/ CreateFails(w) \/ Store(w) \/ Forward(w)
    BY <1>1, <1>2, <1>7
       DEF HandsInv, Work, Insert, CheckInterference, Unsign, Delete, Doing
  <2>2. cur' = cur /\ channel' = channel
        /\ \E t : task' = [task EXCEPT ![w] = t]
    BY <2>1 DEF CreateRecord, CreateFails, Store, Forward, Start, Finish
  <2>3. \A r \in Record : InHand(r) => InHand(r)'
    <3>1. task'["jetstream"] = task["jetstream"]
      BY <1>2, <2>2 DEF TypeOK
    <3> QED
      BY <3>1 DEF InHand
  <2>4. \A r \in Record : db[r] # "none" => db'[r] # "none"
    BY <2>1 DEF CreateRecord, CreateFails, Store, Forward, TypeOK
  <2> QED
    BY <1>1, <1>3, <2>2, <2>3, <2>4
<1>8. CASE Store("jetstream") \/ Insert("jetstream")
  BY <1>1, <1>8, StoreCompletes
<1>9. CASE Delete("jetstream")
  BY <1>1, <1>9, DeleteCompletes
<1>10. CASE \/ CreateRecord("jetstream") \/ CreateFails("jetstream") \/ Forward("jetstream")
            \/ CheckInterference("jetstream") \/ Unsign("jetstream")
  <2>1. UNCHANGED <<cur, channel, db>> /\ \A r \in Record : ~InHand(r)
    BY <1>10
       DEF CreateRecord, CreateFails, Forward, CheckInterference, Unsign, Doing, InHand
  <2> QED
    BY <1>1, <1>3, <2>1
<1>11. CASE Fetch
  BY <1>1, <1>11, FetchCompletes
<1>12. CASE Reconnect \/ Restart
  <2>1. UNCHANGED <<channel, db>> /\ cur' <= cur /\ (task["jetstream"] # Idle => cur' < cur)
    <3>1. Resume /\ UNCHANGED <<channel, db>>
      BY <1>12 DEF Reconnect, Restart
    <3>2. cur' \in 0..Len(log) /\ ~(cur' > Handled)
      BY <3>1, Zenon DEF Resume
    <3> QED
      BY <1>2, <3>1, <3>2 DEF Handled, TypeOK
  <2>2. \A i \in 1..cur' : i = cur => task["jetstream"] = Idle
    BY <1>2, <2>1 DEF TypeOK
  <2>3. ASSUME NEW r \in Record, NEW i \in 1..cur', Cached(r, i) PROVE Cached(r, i)'
    BY <2>1, <2>2, <2>3 DEF Cached, InHand
  <2> QED
    BY <1>1, <2>1, <2>2, <2>3, CompleteFrame
<1> QED
  BY <1>1, <1>2, <1>4, <1>5, <1>6, <1>7, <1>8, <1>9, <1>10, <1>11, <1>12
     DEF Next, Work, Worker

\* Once the stream is handled nothing is in hand any more.
LEMMA CompleteImplies == TypeOK /\ CompleteInv => CacheComplete
<1> SUFFICES ASSUME TypeOK, CompleteInv, Quiet, ~missed
             PROVE  /\ \A s \in Signet, i \in 1..Len(log) : Written(s, i) => db[s] # "none"
                    /\ \A p \in Post, i, j \in 1..Len(log) :
                         i < j /\ Written(SignetOf[p], i) /\ Written(p, j) => db[p] # "none"
  BY DEF CacheComplete
<1>1. cur = Len(log) /\ \A r \in Record : ~InHand(r)
  BY DEF Quiet, InHand, Worker
<1> QED
  BY <1>1 DEF CompleteInv, Cached, Record

\* For all records and any number of requests, over any replays and crashes: the
\* table holds every signet of the stream that is not deleted in it, and every
\* post written after its signet, unless an event was skipped, a statement
\* refused, or the channel gone.
THEOREM CacheIsComplete == Spec => []CacheComplete
<1>1. Init => HandsInv /\ CompleteInv
  BY DEF Init, HandsInv, CompleteInv, Deleting, Doing, Worker
<1>2. TypeOK /\ TypeOK' /\ HandsInv /\ CompleteInv /\ [Next]_vars => HandsInv' /\ CompleteInv'
  BY HandsStep, CompleteStep
<1> QED
  BY <1>1, <1>2, TypeCorrect, CompleteImplies, PTL DEF Spec

-----------------------------------------------------------------------------
\* What is in a repository was not deleted after it was last written.
DeletedAfter(r, i) == \E j \in 1..Len(log) : i < j /\ DeleteAt(r, j)
LogTells ==
  \A r \in Record, i \in 1..Len(log) :
    log[i].rec = r /\ log[i].op # "delete" => repo[r] # "none" \/ DeletedAfter(r, i)

\* A row that was written with another client is that of a record, or of one
\* whose deletion has not been fetched, or is in hand.
ForgetInv ==
  ~missed =>
    \A r \in (Signet \cup Message) \ helped :
      db[r] # "none" \/ InHand(r) => repo[r] # "none" \/ DeletedAfter(r, cur) \/ Deleting(r)

\* A commit that empties a repository is a deletion at the end of the stream.
LEMMA CommitDeletes ==
  ASSUME TypeOK, [Next]_vars, NEW r \in Record, NEW i \in Nat, i <= Len(log),
         repo[r] # "none" \/ DeletedAfter(r, i)
  PROVE  repo'[r] # "none" \/ (\E j \in 1..Len(log') : i < j /\ DeleteAt(r, j)')
<1>1. CASE Commits
  <2>1. PICK op \in {"create", "update", "delete"}, q \in Record,
             v \in Version \cup {"none", "bad"} :
               Commit(op, q, v) /\ (op = "delete" <=> v = "none")
    BY <1>1 DEF Commits
  <2>2. PICK n \in Nat :
          /\ n = Len(log) + 1 /\ Len(log') = n /\ Len(log) \in Nat
          /\ \A j \in 1..Len(log) : log'[j] = log[j]
          /\ log'[n] = [op |-> op, rec |-> q, ver |-> v]
          /\ repo'[r] = IF r = q THEN v ELSE repo[r]
    BY <2>1, CommitLog
  <2>3. CASE DeletedAfter(r, i)
    <3>1. PICK j \in 1..Len(log) : i < j /\ DeleteAt(r, j)
      BY <2>3 DEF DeletedAfter
    <3>2. j \in 1..Len(log') /\ DeleteAt(r, j)'
      BY <2>2, <3>1 DEF DeleteAt
    <3> QED
      BY <3>1, <3>2
  <2>4. CASE repo[r] # "none" /\ repo'[r] = "none"
    <3>1. r = q /\ op = "delete"
      BY <2>1, <2>2, <2>4
    <3>2. n \in 1..Len(log') /\ i < n /\ DeleteAt(r, n)'
      BY <2>2, <3>1 DEF DeleteAt
    <3> QED
      BY <3>2
  <2> QED
    BY <2>3, <2>4
<1>2. CASE UNCHANGED <<repo, log>>
  BY <1>2 DEF DeletedAfter, DeleteAt
<1> QED
  BY <1>1, <1>2, CommitsStep

LEMMA LogTellsStep ==
  ASSUME TypeOK, LogTells, [Next]_vars
  PROVE  LogTells'
<1> SUFFICES ASSUME NEW r \in Record, NEW i \in 1..Len(log'),
                    log'[i].rec = r, log'[i].op # "delete"
             PROVE  repo'[r] # "none" \/ (\E j \in 1..Len(log') : i < j /\ DeleteAt(r, j)')
  BY DEF LogTells, DeletedAfter
<1>1. Len(log) \in Nat /\ i \in Nat
  BY DEF TypeOK
<1>2. CASE i \in 1..Len(log)
  <2>1. log'[i] = log[i]
    BY <1>2, GrowsStep DEF LogGrows
  <2>2. repo[r] # "none" \/ DeletedAfter(r, i)
    BY <1>2, <2>1 DEF LogTells
  <2> QED
    BY <1>1, <1>2, <2>2, CommitDeletes
<1>3. CASE i \notin 1..Len(log)
  <2>1. PICK op \in {"create", "update", "delete"}, q \in Record,
             v \in Version \cup {"none", "bad"} :
               Commit(op, q, v) /\ (op = "delete" <=> v = "none")
    BY <1>3, CommitsStep DEF Commits
  <2>2. log'[i] = [op |-> op, rec |-> q, ver |-> v] /\ repo'[q] = v
    BY <1>1, <1>3, <2>1, CommitLog
  <2> QED
    BY <2>1, <2>2
<1> QED
  BY <1>2, <1>3

\* Steps that do not move the cursor and put nothing new in hand.
LEMMA ForgetFrame ==
  ASSUME TypeOK, ForgetInv, ~missed, [Next]_vars, cur' = cur, helped \subseteq helped',
         \A r \in Record \ helped :
           db'[r] # "none" \/ InHand(r)' =>
             (db[r] # "none" \/ InHand(r)) /\ (Deleting(r) => Deleting(r)')
  PROVE  ForgetInv'
<1> SUFFICES ASSUME NEW r \in (Signet \cup Message) \ helped', db'[r] # "none" \/ InHand(r)'
             PROVE  repo'[r] # "none" \/ DeletedAfter(r, cur)' \/ Deleting(r)'
  BY DEF ForgetInv
<1>1. r \in Record \ helped /\ r \in (Signet \cup Message) \ helped
  BY DEF Record, Post
<1>2. repo[r] # "none" \/ DeletedAfter(r, cur) \/ Deleting(r)'
  BY <1>1 DEF ForgetInv
<1>3. cur \in Nat /\ cur <= Len(log)
  BY DEF TypeOK
<1>4. repo[r] # "none" \/ DeletedAfter(r, cur)
        => repo'[r] # "none" \/ (\E j \in 1..Len(log') : cur < j /\ DeleteAt(r, j)')
  BY <1>1, <1>3, CommitDeletes
<1> QED
  BY <1>2, <1>4 DEF DeletedAfter

\* The event that is fetched is the deletion, or it comes later, or the record
\* is there.
LEMMA FetchForgets ==
  ASSUME TypeOK, ForgetInv, LogTells, ~missed, Fetch
  PROVE  ForgetInv'
<1>1. PICK n \in Nat : n = cur + 1 /\ cur' = n /\ n \in 1..Len(log) /\ log[n] \in Event
  BY DEF Fetch, TypeOK
<1>2. /\ UNCHANGED <<repo, log, db, helped>> /\ task["jetstream"] = Idle
      /\ task'["jetstream"] = HandlerOf(log[n])
  BY <1>1 DEF Fetch, history, TypeOK, Worker
<1> SUFFICES ASSUME NEW r \in (Signet \cup Message) \ helped, db[r] # "none" \/ InHand(r)'
             PROVE  repo[r] # "none" \/ DeletedAfter(r, n) \/ Deleting(r)'
  BY <1>1, <1>2 DEF ForgetInv, DeletedAfter, DeleteAt
<1>3. r \in Record /\ r \notin Image
  BY KindsAssumption DEF Record, Post
<1>4. CASE InHand(r)'
  <2>1. /\ HandlerOf(log[n]) # Idle /\ HandlerOf(log[n]).rec = r
        /\ HandlerOf(log[n]).step \in {"store", "insert"}
    BY <1>2, <1>4 DEF InHand
  <2>2. log[n].rec = r /\ log[n].op # "delete"
    BY <1>1, <2>1 DEF HandlerOf, Event
  <2> QED
    BY <1>1, <1>3, <2>2 DEF LogTells
<1>5. CASE db[r] # "none"
  <2>1. repo[r] # "none" \/ DeletedAfter(r, cur)
    BY <1>2, <1>5 DEF ForgetInv, Deleting, Doing
  <2>2. CASE DeletedAfter(r, cur)
    <3>1. PICK j \in 1..Len(log) : cur < j /\ DeleteAt(r, j)
      BY <2>2 DEF DeletedAfter
    <3>2. CASE j = n
      <4>1. log[n].rec = r /\ log[n].op = "delete" /\ log[n].ver = "none"
        BY <1>1, <3>1, <3>2 DEF DeleteAt, Event
      <4>2. HandlerOf(log[n]) = [step |-> "delete", rec |-> r, ver |-> "none"]
        BY <1>3, <4>1 DEF HandlerOf
      <4> QED
        BY <1>2, <4>2 DEF Deleting, Doing, Idle
    <3>3. CASE j # n
      <4>1. n < j
        BY <1>1, <3>1, <3>3 DEF TypeOK
      <4> QED
        BY <3>1, <4>1 DEF DeletedAfter
    <3> QED
      BY <3>2, <3>3
  <2> QED
    BY <2>1, <2>2
<1> QED
  BY <1>4, <1>5

\* A deletion in hand when the stream is resumed is met again.
LEMMA ResumeForgets ==
  ASSUME TypeOK, TypeOK', ForgetInv, HandsInv, ~missed, ~missed', Reconnect \/ Restart
  PROVE  ForgetInv'
<1>1. /\ UNCHANGED <<repo, log, db, helped>> /\ task'["jetstream"] = Idle
      /\ cur \in Nat /\ cur' \in Nat
      /\ cur' <= cur /\ (task["jetstream"] # Idle => cur' < cur)
  <2>1. Resume /\ UNCHANGED <<repo, log, db, helped>> /\ task'["jetstream"] = Idle
    BY DEF Reconnect, Restart, Worker
  <2>2. ~(cur' > Handled)
    BY <2>1, Zenon DEF Resume
  <2> QED
    BY <2>1, <2>2 DEF Handled, TypeOK
<1> SUFFICES ASSUME NEW r \in (Signet \cup Message) \ helped, db[r] # "none"
             PROVE  repo[r] # "none" \/ DeletedAfter(r, cur')
  BY <1>1 DEF ForgetInv, InHand, DeletedAfter, DeleteAt
<1>2. r \in Record
  BY DEF Record, Post
<1>3. CASE DeletedAfter(r, cur)
  <2>1. PICK j \in 1..Len(log) : cur < j /\ DeleteAt(r, j)
    BY <1>3 DEF DeletedAfter
  <2>2. cur' < j
    BY <1>1, <2>1 DEF TypeOK
  <2> QED
    BY <2>1, <2>2 DEF DeletedAfter
<1>4. CASE Deleting(r)
  <2>1. PICK j \in 1..Len(log) : cur <= j /\ DeleteAt(r, j)
    BY <1>2, <1>4 DEF HandsInv
  <2>2. cur' < j
    BY <1>1, <1>4, <2>1 DEF TypeOK, Deleting, Doing
  <2> QED
    BY <2>1, <2>2 DEF DeletedAfter
<1> QED
  BY <1>3, <1>4 DEF ForgetInv

LEMMA ReadsStep ==
  ASSUME TypeOK, OnlyReads, [Next]_vars
  PROVE  OnlyReads'
<1>1. "jetstream" \in Worker /\ "jetstream" \notin Http /\ Http \subseteq Worker
  BY HttpAssumption DEF Worker
<1>2. ASSUME task'["jetstream"] = task["jetstream"] PROVE OnlyReads'
  BY <1>2 DEF OnlyReads, Doing
<1>3. ASSUME NEW t, task' = [task EXCEPT !["jetstream"] = t], t = Idle \/ t.step # "create"
      PROVE  OnlyReads'
  BY <1>1, <1>3 DEF OnlyReads, Doing, TypeOK
<1>4. CASE DropChannel \/ RestoreChannel \/ Reconnect \/ UNCHANGED vars
  BY <1>2, <1>4 DEF DropChannel, RestoreChannel, Reconnect, vars
<1>5. ASSUME NEW r \in Record, NEW v \in Version \cup {"none", "bad"}, UserCommits(r, v)
      PROVE  OnlyReads'
  BY <1>2, <1>5 DEF UserCommits
<1>6. ASSUME NEW w \in Http, NEW r \in Record, PostRecord(w, r) PROVE OnlyReads'
  BY <1>1, <1>2, <1>6 DEF PostRecord, Start, TypeOK
<1>7. CASE Work("jetstream")
  <2>1. \E t : task' = [task EXCEPT !["jetstream"] = t] /\ (t = Idle \/ t.step # "create")
    BY <1>7
       DEF OnlyReads, Work, CreateRecord, CreateFails, Store, Insert, CheckInterference, Unsign,
           Delete, Forward, Fail, Start, Finish
  <2> QED
    BY <1>3, <2>1
<1>8. CASE Fetch
  <2>1. HandlerOf(log[cur + 1]) = Idle \/ HandlerOf(log[cur + 1]).step # "create"
    BY <1>8 DEF Fetch, TypeOK, Event, HandlerOf
  <2> QED
    BY <1>3, <1>8, <2>1 DEF Fetch
<1>9. CASE Restart
  BY <1>1, <1>9 DEF Restart, OnlyReads, Doing
<1>10. ASSUME NEW w \in Http, Work(w) PROVE OnlyReads'
  <2>1. \E t : task' = [task EXCEPT ![w] = t]
    BY <1>10
       DEF Work, CreateRecord, CreateFails, Store, Insert, CheckInterference, Unsign,
           Delete, Forward, Fail, Start, Finish
  <2> QED
    BY <1>1, <1>2, <2>1 DEF TypeOK
<1> QED
  BY <1>4, <1>5, <1>6, <1>7, <1>8, <1>9, <1>10 DEF Next, Worker

LEMMA ForgetStep ==
  ASSUME TypeOK, TypeOK', ForgetInv, HandsInv, OnlyReads, LogTells, [Next]_vars
  PROVE  ForgetInv'
<1> SUFFICES ASSUME ~missed' PROVE ForgetInv'
  BY DEF ForgetInv
<1>1. ~missed /\ ~DropChannel /\ \A w \in Worker : ~Fail(w)
  BY NotMissed
<1>2. "jetstream" \in Worker /\ "jetstream" \notin Http /\ Http \subseteq Worker
  BY HttpAssumption DEF Worker
<1>3. ASSUME UNCHANGED <<cur, db>>, helped \subseteq helped', task'["jetstream"] = task["jetstream"]
      PROVE  ForgetInv'
  <2>1. \A r \in Record : (InHand(r)' <=> InHand(r)) /\ (Deleting(r)' <=> Deleting(r))
    BY <1>3 DEF InHand, Deleting, Doing
  <2> QED
    BY <1>1, <1>3, <2>1, ForgetFrame
<1>4. ASSUME NEW r \in Record, NEW v \in Version \cup {"none", "bad"}, UserCommits(r, v)
      PROVE  ForgetInv'
  BY <1>3, <1>4 DEF UserCommits, history
<1>5. CASE RestoreChannel \/ UNCHANGED vars
  BY <1>3, <1>5 DEF RestoreChannel, vars, history
<1>6. ASSUME NEW w \in Http, NEW r \in Record, PostRecord(w, r) PROVE ForgetInv'
  BY <1>2, <1>3, <1>6 DEF PostRecord, Start, TypeOK
<1>7. ASSUME NEW w \in Http, Work(w) PROVE ForgetInv'
  <2>1. /\ CreateRecord(w) \/ CreateFails(w) \/ Store(w) \/ Forward(w)
        /\ task[w].rec \in helped
    BY <1>1, <1>2, <1>7
       DEF HandsInv, Work, CreateRecord, CreateFails, Store, Forward, Insert, CheckInterference,
           Unsign, Delete, Doing
  <2>2. cur' = cur /\ helped' = helped /\ \E t : task' = [task EXCEPT ![w] = t]
    BY <2>1 DEF CreateRecord, CreateFails, Store, Forward, Start, Finish, history
  <2>3. \A r \in Record : (InHand(r)' <=> InHand(r)) /\ (Deleting(r)' <=> Deleting(r))
    <3>1. task'["jetstream"] = task["jetstream"]
      BY <1>2, <2>2 DEF TypeOK
    <3> QED
      BY <3>1 DEF InHand, Deleting, Doing
  <2>4. \A r \in Record \ helped : db'[r] = db[r]
    BY <2>1 DEF CreateRecord, CreateFails, Store, Forward, TypeOK
  <2> QED
    BY <1>1, <2>2, <2>3, <2>4, ForgetFrame
<1>8. CASE Store("jetstream") \/ Insert("jetstream")
  <2>1. UNCHANGED <<cur, helped>> /\ \A r \in Record : ~Deleting(r)
    BY <1>8 DEF Store, Insert, Deleting, Doing, history
  <2>2. \A r \in Record : ~InHand(r) => db'[r] = db[r]
    BY <1>8 DEF Store, Insert, InHand, Doing, TypeOK
  <2>3. PICK step \in {"forward", "check"} :
          \/ Finish("jetstream")
          \/ Start("jetstream", step, task["jetstream"].rec, task["jetstream"].ver)
    BY <1>8 DEF Store, Insert
  <2>4. \A r \in Record : ~InHand(r)'
    <3>1. CASE Finish("jetstream")
      BY <1>2, <3>1 DEF Finish, InHand, TypeOK
    <3>2. CASE Start("jetstream", step, task["jetstream"].rec, task["jetstream"].ver)
      <4>1. task'["jetstream"]
              = [step |-> step, rec |-> task["jetstream"].rec, ver |-> task["jetstream"].ver]
        BY <1>2, <3>2 DEF Start, TypeOK
      <4> QED
        BY <4>1 DEF InHand
    <3> QED
      BY <2>3, <3>1, <3>2
  <2> QED
    BY <1>1, <2>1, <2>2, <2>4, ForgetFrame
<1>9. CASE Delete("jetstream")
  <2>1. /\ UNCHANGED <<cur, helped>> /\ task'["jetstream"] = Idle
        /\ \A r \in Record : db'[r] # "none" => db[r] # "none" /\ ~Deleting(r)
    BY <1>2, <1>9 DEF Delete, Remove, Below, Finish, Deleting, history, TypeOK
  <2>2. \A r \in Record : ~InHand(r)'
    BY <2>1 DEF InHand
  <2> QED
    BY <1>1, <2>1, <2>2, ForgetFrame
<1>10. CASE \/ CreateRecord("jetstream") \/ CreateFails("jetstream") \/ Forward("jetstream")
            \/ CheckInterference("jetstream") \/ Unsign("jetstream")
  <2>1. ~CreateRecord("jetstream")
    BY DEF CreateRecord, OnlyReads
  <2>2. /\ UNCHANGED <<cur, helped, db>> /\ \A r \in Record : ~Deleting(r)
        /\ \E t : /\ task' = [task EXCEPT !["jetstream"] = t]
                  /\ t = Idle \/ t.step \notin {"store", "insert"}
    BY <1>10, <2>1
       DEF CreateFails, Forward, CheckInterference, Unsign, Doing, Deleting, Start, Finish, history
  <2>3. \A r \in Record : ~InHand(r)'
    BY <1>2, <2>2 DEF InHand, TypeOK
  <2> QED
    BY <1>1, <2>2, <2>3, ForgetFrame
<1>11. CASE Fetch
  BY <1>1, <1>11, FetchForgets
<1>12. CASE Reconnect \/ Restart
  BY <1>1, <1>12, ResumeForgets
<1> QED
  BY <1>1, <1>2, <1>4, <1>5, <1>6, <1>7, <1>8, <1>9, <1>10, <1>11, <1>12
     DEF Next, Work, Worker

\* Once the stream is handled no deletion is left.
LEMMA ForgetImplies == TypeOK /\ ForgetInv => CacheForgets
<1> SUFFICES ASSUME TypeOK, ForgetInv, Quiet, ~missed,
                    NEW r \in (Signet \cup Message) \ helped, db[r] # "none"
             PROVE  repo[r] # "none"
  BY DEF CacheForgets
<1>1. cur = Len(log) /\ ~Deleting(r)
  BY DEF Quiet, Deleting, Doing, Worker
<1>2. ~DeletedAfter(r, cur)
  BY <1>1 DEF DeletedAfter, TypeOK
<1> QED
  BY <1>1, <1>2 DEF ForgetInv

\* For all records and any number of requests, over any replays and crashes: a
\* signet or message that was written with another client and is gone from its
\* repository is gone from the table, unless an event was skipped, a statement
\* refused, or the channel gone.
THEOREM CacheIsClean == Spec => []CacheForgets
<1>1. Init => HandsInv /\ OnlyReads /\ LogTells /\ ForgetInv
  BY DEF Init, HandsInv, OnlyReads, LogTells, ForgetInv, Deleting, InHand, Doing, Worker
<1>2. TypeOK /\ TypeOK' /\ HandsInv /\ OnlyReads /\ LogTells /\ ForgetInv /\ [Next]_vars
        => HandsInv' /\ OnlyReads' /\ LogTells' /\ ForgetInv'
  BY HandsStep, ReadsStep, LogTellsStep, ForgetStep
<1> QED
  BY <1>1, <1>2, TypeCorrect, ForgetImplies, PTL DEF Spec

-----------------------------------------------------------------------------
(* The tables are a RecordCache.                                           *)

\* What a worker is about to insert was published, what it is about to delete was
\* withdrawn with all that refers to it, and without the channel there are no rows.
HandsAreTrue ==
  /\ \A w \in Worker : Doing(w, "store") \/ Doing(w, "insert")
                         => <<task[w].rec, task[w].ver>> \in Published
  /\ \A w \in Worker : Doing(w, "delete") => Below(task[w].rec) \subseteq Withdrawn
  /\ ~channel => \A r \in Record : db[r] = "none"

\* A commit publishes a good version, or withdraws the record and what refers to it.
LEMMA CommitPublishes ==
  ASSUME TypeOK, NEW op \in {"create", "update", "delete"}, NEW r \in Record,
         NEW v \in Version \cup {"none", "bad"}, Commit(op, r, v)
  PROVE  /\ Published' = Published \cup (IF v \in Version THEN {<<r, v>>} ELSE {})
         /\ Withdrawn' = Withdrawn \cup (IF op = "delete" THEN Below(r) ELSE {})
<1>1. PICK n \in Nat :
        /\ n = Len(log) + 1 /\ Len(log') = n /\ Len(log) \in Nat
        /\ \A j \in 1..Len(log) : log'[j] = log[j]
        /\ log'[n] = [op |-> op, rec |-> r, ver |-> v]
  BY CommitLog
<1>2. log'[n].op = op /\ log'[n].rec = r /\ log'[n].ver = v
  BY <1>1
<1>3. 1..Len(log') = 1..Len(log) \cup {n} /\ n \notin 1..Len(log)
  BY <1>1
<1>4. Published' = {<<log'[i].rec, log'[i].ver>> : i \in {j \in 1..Len(log') : log'[j].ver \in Version}}
  BY DEF Published, Version
<1>5. Published' \subseteq Published \cup (IF v \in Version THEN {<<r, v>>} ELSE {})
  BY <1>1, <1>2, <1>3, <1>4 DEF Published
<1>6. Published \subseteq Published'
  BY <1>1, <1>3, <1>4 DEF Published
<1>7. v \in Version => <<r, v>> \in Published'
  BY <1>2, <1>3, <1>4
<1>8. \A q : q \in Withdrawn' <=>
        \E i \in 1..Len(log') : log'[i].op = "delete" /\ q \in Below(log'[i].rec)
  BY DEF Withdrawn, Below
<1>9. \A q : q \in Withdrawn <=>
        \E i \in 1..Len(log) : log[i].op = "delete" /\ q \in Below(log[i].rec)
  BY DEF Withdrawn
<1>10. \A q : q \in Withdrawn' <=> q \in Withdrawn \/ (op = "delete" /\ q \in Below(r))
  BY <1>1, <1>2, <1>3, <1>8, <1>9
<1>11. Withdrawn' = Withdrawn \cup (IF op = "delete" THEN Below(r) ELSE {})
  BY <1>10
<1> QED
  BY <1>5, <1>6, <1>7, <1>11

\* Nothing is taken back.
LEMMA PublishedGrows ==
  ASSUME TypeOK, [Next]_vars
  PROVE  Published \subseteq Published' /\ Withdrawn \subseteq Withdrawn'
<1>1. CASE Commits
  <2>1. PICK op \in {"create", "update", "delete"}, r \in Record,
             v \in Version \cup {"none", "bad"} : Commit(op, r, v)
    BY <1>1 DEF Commits
  <2> QED
    BY <2>1, CommitPublishes
<1>2. CASE UNCHANGED <<repo, log>>
  BY <1>2 DEF Published, Withdrawn, Version, Below
<1> QED
  BY <1>1, <1>2, CommitsStep

\* HandsAreTrue needs to be seen to for new insertions and deletions, and when the
\* channel goes or a row appears, only.
LEMMA HandsFrame ==
  ASSUME TypeOK, HandsAreTrue, [Next]_vars,
         \A w \in Worker :
           \/ task'[w] = task[w] \/ task'[w] = Idle
           \/ /\ task'[w].step \in {"store", "insert"} => <<task'[w].rec, task'[w].ver>> \in Published'
              /\ task'[w].step = "delete" => Below(task'[w].rec) \subseteq Withdrawn',
         ~channel' => \A r \in Record : db'[r] = "none"
  PROVE  HandsAreTrue'
<1>1. Published \subseteq Published' /\ Withdrawn \subseteq Withdrawn'
  BY PublishedGrows
<1>2. ASSUME NEW w \in Worker, Doing(w, "store")' \/ Doing(w, "insert")'
      PROVE  <<task'[w].rec, task'[w].ver>> \in Published'
  BY <1>1, <1>2 DEF HandsAreTrue, Doing
<1>3. ASSUME NEW w \in Worker, Doing(w, "delete")'
      PROVE  Below(task'[w].rec) \subseteq Withdrawn'
  BY <1>1, <1>3 DEF HandsAreTrue, Doing
<1>4. HandsAreTrue' <=>
        /\ \A w \in Worker : (Doing(w, "store") \/ Doing(w, "insert"))'
                               => <<task'[w].rec, task'[w].ver>> \in Published'
        /\ \A w \in Worker : Doing(w, "delete")' => Below(task'[w].rec) \subseteq Withdrawn'
        /\ ~channel' => \A r \in Record : db'[r] = "none"
  BY DEF HandsAreTrue, Below
<1> QED
  BY <1>2, <1>3, <1>4

\* What a row refers to hangs on the channel.
LEMMA ParentNeedsChannel ==
  ASSUME TypeOK, HandsAreTrue, NEW r \in Record, HasParent(r)
  PROVE  channel
<1>1. CASE r \in Signet
  BY <1>1 DEF HasParent
<1>2. CASE r \notin Signet
  <2>1. SignetOf[r] \in Record /\ db[SignetOf[r]] # "none"
    BY <1>2, SignetOfAssumption DEF HasParent, Record
  <2> QED
    BY <2>1, Zenon DEF HandsAreTrue
<1> QED
  BY <1>1, <1>2

\* What an insertion does to the tables.
LEMMA StoreEffect ==
  ASSUME TypeOK, HandsAreTrue, NEW w \in Worker, Store(w) \/ Insert(w)
  PROVE  \E r \in Record, v \in Version :
           /\ <<r, v>> \in Published
           /\ UNCHANGED <<log, channel>>
           /\ \/ channel /\ db[r] = "none" /\ db' = [db EXCEPT ![r] = v]
              \/ UNCHANGED db
<1>1. PICK r : r = task[w].rec
  OBVIOUS
<1>2. PICK v : v = task[w].ver
  OBVIOUS
<1>3. Doing(w, "store") \/ Doing(w, "insert")
  BY DEF Store, Insert
<1>4. r \in Record /\ v \in Version /\ <<r, v>> \in Published
  BY <1>1, <1>2, <1>3, TaskTypes DEF Doing, Storing, HandsAreTrue
<1>5. UNCHANGED <<log, channel>>
  BY DEF Store, Insert
<1>6. (HasParent(r) /\ db[r] = "none" /\ db' = [db EXCEPT ![r] = v]) \/ UNCHANGED db
  BY <1>1, <1>2 DEF Store, Insert
<1>7. HasParent(r) => channel
  BY <1>4, ParentNeedsChannel
<1> QED
  BY <1>4, <1>5, <1>6, <1>7

\* What a worker's step leaves in its hands.
LEMMA WorkHands ==
  ASSUME TypeOK, HandsAreTrue, NEW w \in Worker, Work(w)
  PROVE  \A x \in Worker :
           \/ task'[x] = task[x] \/ task'[x] = Idle
           \/ /\ task'[x].step \in {"store", "insert"} => <<task'[x].rec, task'[x].ver>> \in Published'
              /\ task'[x].step = "delete" => Below(task'[x].rec) \subseteq Withdrawn'
<1>1. CASE CreateRecord(w)
  <2>1. PICK r \in Record : r = task[w].rec
    BY <1>1, TaskTypes DEF CreateRecord, Doing
  <2>2. Commit("create", r, "v1") /\ task' = [task EXCEPT ![w] = [step |-> "store", rec |-> r, ver |-> "v1"]]
    BY <1>1, <2>1 DEF CreateRecord, Start
  <2>3. <<r, "v1">> \in Published'
    BY <2>2, CommitPublishes DEF Version
  <2> QED
    BY <2>2, <2>3 DEF TypeOK
<1>2. CASE Unsign(w)
  <2>1. PICK r \in Record : r = task[w].rec
    BY <1>2, TaskTypes DEF Unsign, Doing
  <2>2. CASE Commit("delete", r, "none") /\ Start(w, "delete", r, "none")
    <3>1. Below(r) \subseteq Withdrawn'
      BY <2>2, CommitPublishes
    <3>2. task' = [task EXCEPT ![w] = [step |-> "delete", rec |-> r, ver |-> "none"]]
      BY <2>2 DEF Start
    <3> QED
      BY <3>1, <3>2 DEF TypeOK
  <2>3. CASE Finish(w)
    BY <2>3 DEF Finish, TypeOK
  <2> QED
    BY <1>2, <2>1, <2>2, <2>3 DEF Unsign
<1>3. CASE ~CreateRecord(w) /\ ~Unsign(w)
  <2>1. PICK t : /\ task' = [task EXCEPT ![w] = t]
                 /\ t = Idle \/ t.step \in {"forward", "check", "unsign"}
    BY <1>3 DEF Work, CreateFails, Store, Insert, CheckInterference, Delete, Forward, Fail, Start, Finish
  <2> QED
    BY <2>1 DEF TypeOK
<1> QED
  BY <1>1, <1>2, <1>3

\* Every step keeps to it: requests store what they have published, the jetstream
\* goroutine what an event carries, and a signet's row goes after its record.
LEMMA HandsAreTrueStep ==
  ASSUME TypeOK, HandsAreTrue, [Next]_vars
  PROVE  HandsAreTrue'
<1>1. ASSUME UNCHANGED <<channel, db>> \/ channel', \* no row without the channel
             \A w \in Worker : \/ task'[w] = task[w] \/ task'[w] = Idle
      PROVE  HandsAreTrue'
  <2>1. CASE channel'
    BY <1>1, <2>1, HandsFrame
  <2>2. CASE channel' = channel /\ db' = db
    <3>1. ~channel' => \A r \in Record : db'[r] = "none"
      BY <2>2, Zenon DEF HandsAreTrue
    <3> QED
      BY <1>1, <3>1, HandsFrame
  <2> QED
    BY <1>1, <2>1, <2>2
<1>2. ASSUME NEW w \in Worker, Work(w) PROVE HandsAreTrue'
  <2>1. ~channel' => \A r \in Record : db'[r] = "none"
    <3>1. CASE Store(w) \/ Insert(w)
      <4>1. UNCHANGED channel /\ (channel \/ UNCHANGED db)
        BY <3>1, StoreEffect
      <4> QED
        BY <4>1, Zenon DEF HandsAreTrue
    <3>2. CASE Delete(w)
      <4>1. UNCHANGED channel /\ \A r \in Record : db'[r] = "none" \/ db'[r] = db[r]
        BY <3>2 DEF Delete, Remove
      <4> QED
        BY <4>1, Zenon DEF HandsAreTrue
    <3>3. CASE ~Store(w) /\ ~Insert(w) /\ ~Delete(w)
      <4>1. UNCHANGED <<channel, db>>
        BY <1>2, <3>3
           DEF Work, CreateRecord, CreateFails, CheckInterference, Unsign, Forward, Fail
      <4> QED
        BY <4>1, Zenon DEF HandsAreTrue
    <3> QED
      BY <3>1, <3>2, <3>3
  <2> QED
    BY <1>2, <2>1, WorkHands, HandsFrame
<1>3. CASE Fetch
  <2>1. PICK i \in 1..Len(log) : i = cur + 1
    BY <1>3 DEF Fetch, TypeOK
  <2>2. PICK e \in Event : e = log[i]
    BY <2>1 DEF TypeOK
  <2>3. UNCHANGED <<log, channel, db>> /\ task' = [task EXCEPT !["jetstream"] = HandlerOf(e)]
    BY <1>3, <2>1, <2>2 DEF Fetch
  <2>4. e.ver \in Version => <<e.rec, e.ver>> \in Published
    BY <2>2 DEF Published
  <2>5. e.op = "delete" => Below(e.rec) \subseteq Withdrawn
    BY <2>2 DEF Withdrawn
  <2>6. Published \subseteq Published' /\ Withdrawn \subseteq Withdrawn'
    BY PublishedGrows
  <2>7. \/ HandlerOf(e) = Idle
        \/ /\ HandlerOf(e).step \in {"store", "insert"} => e.ver \in Version
           /\ HandlerOf(e).step = "delete" => e.op = "delete"
           /\ HandlerOf(e).rec = e.rec /\ HandlerOf(e).ver = e.ver
    BY DEF HandlerOf, Event, Version
  <2>8. PICK t : t = HandlerOf(e)
    OBVIOUS
  <2>9. \A w \in Worker :
          \/ task'[w] = task[w] \/ task'[w] = Idle
          \/ /\ task'[w].step \in {"store", "insert"} => <<task'[w].rec, task'[w].ver>> \in Published'
             /\ task'[w].step = "delete" => Below(task'[w].rec) \subseteq Withdrawn'
    BY <2>3, <2>4, <2>5, <2>6, <2>7, <2>8 DEF TypeOK
  <2>10. ~channel' => \A r \in Record : db'[r] = "none"
    BY <2>3, Zenon DEF HandsAreTrue
  <2> QED
    BY <2>9, <2>10, HandsFrame
<1>4. ASSUME NEW w \in Http, NEW r \in Record, PostRecord(w, r) PROVE HandsAreTrue'
  <2>1. task' = [task EXCEPT ![w] = [step |-> "create", rec |-> r, ver |-> "v1"]]
        /\ UNCHANGED <<channel, db>>
    BY <1>4 DEF PostRecord, Start
  <2>2. \A x \in Worker : task'[x] = task[x] \/ task'[x].step = "create"
    BY <2>1 DEF TypeOK
  <2>3. ~channel' => \A q \in Record : db'[q] = "none"
    BY <2>1, Zenon DEF HandsAreTrue
  <2> QED
    BY <2>2, <2>3, HandsFrame
<1>5. CASE DropChannel
  <2>1. UNCHANGED task /\ \A r \in Record : db'[r] = "none"
    BY <1>5 DEF DropChannel, Remove
  <2> QED
    BY <2>1, HandsFrame
<1>6. CASE RestoreChannel
  BY <1>1, <1>6 DEF RestoreChannel
<1>7. ASSUME NEW r \in Record, NEW v \in Version \cup {"none", "bad"}, UserCommits(r, v)
      PROVE  HandsAreTrue'
  BY <1>1, <1>7 DEF UserCommits
<1>8. CASE Reconnect \/ Restart \/ UNCHANGED vars
  BY <1>1, <1>8 DEF Reconnect, Restart, vars
<1> QED
  BY <1>2, <1>3, <1>4, <1>5, <1>6, <1>7, <1>8 DEF Next

\* Before anything happened.
LEMMA HandsAreTrueInit == Init => HandsAreTrue
  BY DEF Init, HandsAreTrue, Doing, Idle

\* The tables of signets, messages and images are a RecordCache, whatever workers,
\* replays, crashes and cascades do to each other.
THEOREM Refinement == Spec => ImplementsRecordCache
<1>1. Init => Cache!Init
  BY DEF Init, Published, Withdrawn, Cache!Init
<1>2. TypeOK /\ HandsAreTrue /\ [Next]_vars => [Cache!Next]_(Cache!vars)
  <2> SUFFICES ASSUME TypeOK, HandsAreTrue, [Next]_vars
               PROVE  [Cache!Next]_(Cache!vars)
    OBVIOUS
  <2>1. ASSUME UNCHANGED <<log, channel, db>> PROVE UNCHANGED Cache!vars
    BY <2>1 DEF Cache!vars, Published, Withdrawn, Version, Below
  <2>2. CASE Commits /\ UNCHANGED <<channel, db>>
    <3>1. PICK op \in {"create", "update", "delete"}, r \in Record,
               v \in Version \cup {"none", "bad"} :
                 Commit(op, r, v) /\ (op = "delete" <=> v = "none")
      BY <2>2 DEF Commits
    <3>2. /\ Published' = Published \cup (IF v \in Version THEN {<<r, v>>} ELSE {})
          /\ Withdrawn' = Withdrawn \cup (IF op = "delete" THEN Below(r) ELSE {})
      BY <3>1, CommitPublishes
    <3>3. CASE v \in Version
      <4>1. op # "delete"
        BY <3>1, <3>3 DEF Version
      <4>2. Cache!Publish(r, v)
        BY <2>2, <3>2, <3>3, <4>1 DEF Cache!Publish
      <4> QED
        BY <3>3, <4>2 DEF Cache!Next
    <3>4. CASE v \notin Version
      <4>1. Withdrawn \subseteq Record /\ Below(r) \subseteq Record
        BY DEF Withdrawn, Below, Record, TypeOK, Event
      <4>2. Cache!Withdraw
        BY <2>2, <3>2, <3>4, <4>1 DEF Cache!Withdraw
      <4> QED
        BY <4>2 DEF Cache!Next
    <3> QED
      BY <3>3, <3>4
  <2>3. ASSUME NEW w \in Worker, Store(w) \/ Insert(w) PROVE [Cache!Next]_(Cache!vars)
    <3>1. PICK r \in Record, v \in Version :
            /\ <<r, v>> \in Published
            /\ UNCHANGED <<log, channel>>
            /\ \/ channel /\ db[r] = "none" /\ db' = [db EXCEPT ![r] = v]
               \/ UNCHANGED db
      BY <2>3, StoreEffect
    <3>2. CASE UNCHANGED db
      BY <2>1, <3>1, <3>2
    <3>3. CASE channel /\ db[r] = "none" /\ db' = [db EXCEPT ![r] = v]
      <4>1. Published' = Published /\ Withdrawn' = Withdrawn
        BY <3>1 DEF Published, Withdrawn, Version, Below
      <4>2. Cache!Show(r, v)
        BY <3>1, <3>3, <4>1 DEF Cache!Show
      <4> QED
        BY <4>2 DEF Cache!Next
    <3> QED
      BY <3>1, <3>2, <3>3
  <2>4. ASSUME NEW w \in Worker, Delete(w) PROVE Cache!Next
    <3>1. PICK rows : rows = Below(task[w].rec)
      OBVIOUS
    <3>2. /\ rows \in SUBSET Withdrawn
          /\ db' = [r \in Record |-> IF r \in rows THEN "none" ELSE db[r]]
          /\ UNCHANGED <<log, channel>>
      BY <2>4, <3>1 DEF Delete, Remove, HandsAreTrue
    <3>3. Published' = Published /\ Withdrawn' = Withdrawn
      BY <3>2 DEF Published, Withdrawn, Version, Below
    <3>4. Cache!Hide(rows)
      BY <3>2, <3>3 DEF Cache!Hide
    <3> QED
      BY <3>2, <3>4 DEF Cache!Next
  <2>5. CASE DropChannel
    <3>1. /\ channel /\ channel' = FALSE /\ UNCHANGED log
          /\ db' = [r \in Record |-> "none"]
      BY <2>5 DEF DropChannel, Remove
    <3>2. Published' = Published /\ Withdrawn' = Withdrawn
      BY <3>1 DEF Published, Withdrawn, Version, Below
    <3>3. Cache!DropBase
      BY <3>1, <3>2 DEF Cache!DropBase
    <3> QED
      BY <3>3 DEF Cache!Next
  <2>6. CASE RestoreChannel
    <3>1. ~channel /\ channel' = TRUE /\ UNCHANGED <<log, db>>
      BY <2>6, Zenon DEF RestoreChannel
    <3>2. Published' = Published /\ Withdrawn' = Withdrawn
      BY <3>1 DEF Published, Withdrawn, Version, Below
    <3>3. Cache!RestoreBase
      BY <3>1, <3>2 DEF Cache!RestoreBase
    <3> QED
      BY <3>3 DEF Cache!Next
  <2>7. ASSUME NEW w \in Worker, Work(w), ~Store(w), ~Insert(w), ~Delete(w)
        PROVE  [Cache!Next]_(Cache!vars)
    <3>1. UNCHANGED <<channel, db>>
      BY <2>7 DEF Work, CreateRecord, CreateFails, CheckInterference, Unsign, Forward, Fail
    <3> QED
      BY <2>1, <2>2, <3>1, CommitsStep
  <2>8. ASSUME NEW r \in Record, NEW v \in Version \cup {"none", "bad"}, UserCommits(r, v)
        PROVE  [Cache!Next]_(Cache!vars)
    <3>1. UNCHANGED <<channel, db>>
      BY <2>8 DEF UserCommits
    <3> QED
      BY <2>1, <2>2, <3>1, CommitsStep
  <2>9. CASE \/ Fetch \/ Reconnect \/ Restart \/ UNCHANGED vars
             \/ \E w \in Http, r \in Record : PostRecord(w, r)
    BY <2>1, <2>9 DEF Fetch, Reconnect, Restart, vars, PostRecord
  <2> QED
    BY <2>3, <2>4, <2>5, <2>6, <2>7, <2>8, <2>9 DEF Next
<1>3. TypeOK /\ HandsAreTrue /\ [Next]_vars => HandsAreTrue'
  BY HandsAreTrueStep
<1> QED
  BY <1>1, <1>2, <1>3, HandsAreTrueInit, TypeCorrect, PTL
  DEF Spec, ImplementsRecordCache, Cache!Spec

\* A row shows what its record said once, and goes only because its record, or the
\* signet it names, was deleted, or the channel: every RecordCache is like that.
THEOREM RowsFollowRecords == Spec => RowsHaveReasons
<1> DEFINE Reason(r) ==
      db'[r] # db[r] =>
        IF db'[r] = "none" THEN r \in Withdrawn \/ ~channel'
        ELSE channel /\ db[r] = "none" /\ <<r, db'[r]>> \in Published
<1>1. TypeOK /\ [Cache!Next]_(Cache!vars) => [\A k \in Record : Reason(k)]_(Cache!vars)
  <2> SUFFICES ASSUME TypeOK, [Cache!Next]_(Cache!vars), NEW r \in Record PROVE Reason(r)
    OBVIOUS
  <2>1. db \in [Record -> Version \cup {"none"}] /\ "none" \notin Version
    BY DEF TypeOK, Version
  <2>2. ASSUME NEW k \in Record, NEW v \in Version, Cache!Publish(k, v) \/ Cache!Show(k, v)
        PROVE  Reason(r)
    BY <2>1, <2>2 DEF Cache!Publish, Cache!Show
  <2>3. ASSUME NEW keys \in SUBSET Withdrawn, Cache!Hide(keys) PROVE Reason(r)
    BY <2>1, <2>3 DEF Cache!Hide
  <2>4. CASE Cache!DropBase
    BY <2>4 DEF Cache!DropBase
  <2>5. CASE Cache!Withdraw \/ Cache!RestoreBase \/ UNCHANGED Cache!vars
    BY <2>5 DEF Cache!Withdraw, Cache!RestoreBase, Cache!vars
  <2> QED
    BY <2>2, <2>3, <2>4, <2>5 DEF Cache!Next
<1> QED
  BY <1>1, Refinement, TypeCorrect, PTL
  DEF ImplementsRecordCache, Cache!Spec, RowsHaveReasons, Cache!ChangesHaveReasons
=============================================================================
