----------------------- MODULE ChannelRegistryProofs -----------------------
(***************************************************************************)
(* Theorems of ChannelRegistry.  KeptIsServed holds for every instance:    *)
(* any number of HTTP requests next to the jetstream goroutine, with lost  *)
(* events, statements that fail or whose answer is lost, loads cut short   *)
(* and crashes.  BoundaryAgreement and FollowsRepo hold as long as the     *)
(* jetstream goroutine is alone.                                           *)
(***************************************************************************)
EXTENDS ChannelRegistry, Integers, TLAPS

\* The process starts with what it could load.
Restarts == \E rows \in SUBSET db : Restart(rows)

\* While the jetstream goroutine is at work an event was fetched, and nobody is
\* at work when the process is down.
InHand ==
  /\ task["jetstream"] # Idle => cur > 0
  /\ ~up => \A w \in Worker : task[w] = Idle

\* Every step, of either kind of worker, keeps every variable in its type.
LEMMA TypeStep == TypeOK /\ InHand /\ [Next]_vars => TypeOK'
<1> SUFFICES ASSUME TypeOK, InHand, [Next]_vars PROVE TypeOK'
  OBVIOUS
<1> USE LogAssumption
<1> USE DEF TypeOK
<1>1. ASSUME NEW w \in Worker, NEW u \in Uri,
             NEW step \in {"store", "insert", "add", "model", "delRow", "delEntry"}
      PROVE  [task EXCEPT ![w] = [step |-> step, uri |-> u]] \in [Worker -> Task]
  BY DEF Task
<1>2. ASSUME NEW w \in Worker PROVE [task EXCEPT ![w] = Idle] \in [Worker -> Task]
  BY DEF Task
<1>3. ASSUME NEW w \in Worker, NEW step, Doing(w, step) PROVE task[w].uri \in Uri
  BY <1>3 DEF Doing, Task, Idle
<1>4. ASSUME NEW op \in {"create", "update", "delete"}, NEW u \in Uri,
             NEW record \in {"none", "good", "bad"}, Commit(op, u, record)
      PROVE  /\ repo' \in [Uri -> {"none", "good", "bad"}] /\ log' \in Seq(Event)
             /\ Len(log') = Len(log) + 1
             /\ deleted' \in SUBSET Uri
  BY <1>4 DEF Commit, Event
<1>5. ASSUME NEW u \in Uri, NEW record \in {"none", "good", "bad"}, UserCommits(u, record)
      PROVE  TypeOK'
  BY <1>4, <1>5 DEF UserCommits
<1>6. ASSUME NEW w \in Http, NEW u \in Uri, PostChannel(w, u) PROVE TypeOK'
  <2>1. w \in Worker
    BY DEF Worker
  <2>2. task' \in [Worker -> Task]
    BY <1>1, <1>6, <2>1 DEF PostChannel, Start
  <2> QED
    BY <1>4, <1>6, <2>2 DEF PostChannel
<1>7. ASSUME NEW w \in Http, NEW u \in Uri, DeleteMine(w, u) PROVE TypeOK'
  <2>1. w \in Worker
    BY DEF Worker
  <2>2. task' \in [Worker -> Task]
    BY <1>1, <1>7, <2>1 DEF DeleteMine, Start
  <2> QED
    BY <1>4, <1>7, <2>2 DEF DeleteMine
<1>8. ASSUME NEW w \in Http, NEW u \in Uri, DeleteAsAdmin(w, u) PROVE TypeOK'
  <2>1. w \in Worker
    BY DEF Worker
  <2> QED
    BY <1>1, <1>8, <2>1 DEF DeleteAsAdmin, Start
<1>9. CASE Fetch
  <2>1. log[cur + 1] \in Event
    BY <1>9 DEF Fetch
  <2>2. HandlerOf(log[cur + 1]) \in Task
    BY <2>1 DEF HandlerOf, Event, Task, Idle
  <2>3. task' \in [Worker -> Task]
    BY <1>9, <2>2 DEF Fetch
  <2>4. cur' \in 0..Len(log')
    BY <1>9 DEF Fetch
  <2> QED
    BY <1>9, <2>3, <2>4 DEF Fetch
<1>10. CASE Reconnect
  BY <1>10 DEF Reconnect, Resume
<1>11. ASSUME NEW w \in Worker, Store(w) PROVE TypeOK'
  <2>1. task[w].uri \in Uri
    BY <1>3, <1>11 DEF Store
  <2>2. [task EXCEPT ![w] = [step |-> "add", uri |-> task[w].uri]] \in [Worker -> Task]
    BY <1>1, <2>1
  <2>3. task' \in [Worker -> Task]
    BY <1>2, <1>11, <2>2 DEF Store, Start, Finish, Inserts, LoseAnswer, Fail
  <2>4. db' \in SUBSET Uri
    BY <1>11, <2>1 DEF Store, Inserts, LoseAnswer, Fail
  <2> QED
    BY <1>11, <2>3, <2>4 DEF Store, Inserts, LoseAnswer, Fail
<1>12. ASSUME NEW w \in Worker, Insert(w) PROVE TypeOK'
  <2>1. task[w].uri \in Uri
    BY <1>3, <1>12 DEF Insert
  <2>2. [task EXCEPT ![w] = [step |-> "model", uri |-> task[w].uri]] \in [Worker -> Task]
    BY <1>1, <2>1
  <2>3. task' \in [Worker -> Task]
    BY <1>2, <1>12, <2>2 DEF Insert, Start, Finish, Inserts, LoseAnswer, Fail
  <2>4. db' \in SUBSET Uri
    BY <1>12, <2>1 DEF Insert, Inserts, LoseAnswer, Fail
  <2> QED
    BY <1>12, <2>3, <2>4 DEF Insert, Inserts, LoseAnswer, Fail
<1>13. ASSUME NEW w \in Worker, Add(w) PROVE TypeOK'
  <2>1. task[w].uri \in Uri
    BY <1>3, <1>13 DEF Add
  <2>2. task' \in [Worker -> Task]
    BY <1>2, <1>13 DEF Add, Finish
  <2> QED
    BY <1>13, <2>1, <2>2 DEF Add
<1>14. ASSUME NEW w \in Worker, DeleteRow(w) PROVE TypeOK'
  <2>1. task[w].uri \in Uri
    BY <1>3, <1>14 DEF DeleteRow
  <2>2. [task EXCEPT ![w] = [step |-> "delEntry", uri |-> task[w].uri]] \in [Worker -> Task]
    BY <1>1, <2>1
  <2>3. task' \in [Worker -> Task]
    BY <1>2, <1>14, <2>2 DEF DeleteRow, Start, Finish, Inserts, LoseAnswer, Fail
  <2>4. db' \in SUBSET Uri
    BY <1>14, <2>1 DEF DeleteRow, Inserts, LoseAnswer, Fail
  <2> QED
    BY <1>14, <2>3, <2>4 DEF DeleteRow, Inserts, LoseAnswer, Fail
<1>15. ASSUME NEW w \in Worker, DeleteEntry(w) PROVE TypeOK'
  <2>1. task' \in [Worker -> Task]
    BY <1>2, <1>15 DEF DeleteEntry, Finish
  <2> QED
    BY <1>15, <2>1 DEF DeleteEntry
<1>16. CASE Crash
  <2>1. task' \in [Worker -> Task]
    BY <1>16 DEF Crash, Task
  <2>2. cur' \in 0..Len(log')
    BY <1>16 DEF Crash, Handled, InHand
  <2> QED
    BY <1>16, <2>1, <2>2 DEF Crash
<1>17. CASE Restarts
  BY <1>17 DEF Restarts, Restart, Resume
<1>18. CASE UNCHANGED vars
  BY <1>18 DEF vars
<1> HIDE DEF TypeOK
<1> QED
  BY <1>5, <1>6, <1>7, <1>8, <1>9, <1>10, <1>11, <1>12, <1>13, <1>14, <1>15, <1>16, <1>17, <1>18
  DEF Next, Work, Restarts

\* A worker only takes up a task when it is idle, and jetstream only by Fetch.
LEMMA InHandStep == TypeOK /\ InHand /\ [Next]_vars => InHand'
<1> SUFFICES ASSUME TypeOK, InHand, [Next]_vars PROVE InHand'
  OBVIOUS
<1> USE DEF InHand
<1>1. ASSUME up', cur' = cur, task["jetstream"] = Idle => task'["jetstream"] = Idle
      PROVE  InHand'
  BY <1>1
<1>2. ASSUME NEW w \in Http, NEW x, task' = [task EXCEPT ![w] = x]
      PROVE  task'["jetstream"] = task["jetstream"]
  BY <1>2, HttpAssumption DEF TypeOK
<1>3. ASSUME NEW w \in Worker, NEW x, task' = [task EXCEPT ![w] = x], task[w] # Idle
      PROVE  task["jetstream"] = Idle => task'["jetstream"] = Idle
  BY <1>3 DEF TypeOK
<1>4. ASSUME NEW u \in Uri, NEW record \in {"none", "good", "bad"}, UserCommits(u, record)
      PROVE  InHand'
  BY <1>4 DEF UserCommits
<1>5. ASSUME NEW w \in Http, NEW u \in Uri,
             PostChannel(w, u) \/ DeleteMine(w, u) \/ DeleteAsAdmin(w, u)
      PROVE  InHand'
  BY <1>1, <1>2, <1>5 DEF PostChannel, DeleteMine, DeleteAsAdmin, Start
<1>6. ASSUME NEW w \in Worker, Work(w) PROVE InHand'
  <2>1. cur' = cur /\ up' /\ task[w] # Idle
    BY <1>6 DEF Work, Store, Insert, Add, DeleteRow, DeleteEntry, Doing
  <2>2. \E x : task' = [task EXCEPT ![w] = x]
    BY <1>6 DEF Work, Store, Insert, Add, DeleteRow, DeleteEntry, Start, Finish, Inserts, LoseAnswer, Fail
  <2> QED
    BY <1>1, <1>3, <2>1, <2>2
<1>7. CASE Fetch
  BY <1>7 DEF Fetch, TypeOK
<1>8. CASE Reconnect
  BY <1>8 DEF Reconnect
<1>9. CASE Restarts
  <2>1. task["jetstream"] = Idle /\ task' = task /\ up'
    BY <1>9 DEF Restarts, Restart, Worker
  <2> QED
    BY <2>1
<1>10. CASE Crash
  BY <1>10 DEF Crash, Worker
<1>11. CASE UNCHANGED vars
  BY <1>11 DEF vars
<1> QED
  BY <1>4, <1>5, <1>6, <1>7, <1>8, <1>9, <1>10, <1>11 DEF Next, Restarts

\* Type correctness of the table, the map, the stream and the workers.
THEOREM TypeCorrect == Spec => [](TypeOK /\ InHand)
<1>1. Init => TypeOK
  <2>1. Init => task \in [Worker -> Task]
    BY DEF Init, Task
  <2>2. Init => up \in BOOLEAN /\ helped \in BOOLEAN /\ missed \in BOOLEAN
    BY Zenon DEF Init
  <2>3. Init => /\ repo \in [Uri -> {"none", "good", "bad"}]
                /\ db \in SUBSET Uri /\ map \in SUBSET Uri /\ deleted \in SUBSET Uri
                /\ apart \in SUBSET Uri
    BY DEF Init
  <2>4. Init => log \in Seq(Event) /\ cur \in 0..Len(log)
    BY DEF Init
  <2> QED BY <2>1, <2>2, <2>3, <2>4 DEF TypeOK
<1>2. Init => InHand
  BY DEF Init, Worker, InHand
<1> QED
  BY <1>1, <1>2, TypeStep, InHandStep, PTL DEF Spec

-----------------------------------------------------------------------------
(* KeptIsServed.                                                           *)

\* Nothing is removed that nobody asked to remove: deletions on the stream and
\* in the hands of a worker are on the record.
DeletesRecorded ==
  /\ \A i \in 1..Len(log) : log[i].op = "delete" => log[i].uri \in deleted
  /\ \A w \in Worker : Doing(w, "delRow") \/ Doing(w, "delEntry") => task[w].uri \in deleted

\* deleted only grows, so what was recorded stays recorded.
LEMMA DeletedGrows == TypeOK /\ [Next]_vars => deleted \subseteq deleted'
  BY DEF Next, vars, UserCommits, PostChannel, DeleteMine, DeleteAsAdmin, Commit, Work, Store,
         Insert, Add, DeleteRow, DeleteEntry, Fetch, Reconnect, Crash, Restarts, Restart

\* The effect of Commit on the part of DeletesRecorded about the stream.
LEMMA CommitRecords ==
  ASSUME TypeOK, DeletesRecorded, NEW op \in {"create", "update", "delete"}, NEW u \in Uri,
         NEW record \in {"none", "good", "bad"}, Commit(op, u, record)
  PROVE  /\ \A i \in 1..Len(log') : log'[i].op = "delete" => log'[i].uri \in deleted'
         /\ deleted \subseteq deleted'
         /\ op = "delete" => u \in deleted'
<1> DEFINE e == [op |-> op, uri |-> u, record |-> record]
<1>1. e \in Event /\ e.op = op /\ e.uri = u
  BY DEF Event
<1> HIDE DEF e
<1>2. log' = Append(log, e)
  BY DEF Commit, e
<1>3. Len(log') = Len(log) + 1 /\ log'[Len(log) + 1] = e
      /\ \A i \in 1..Len(log) : log'[i] = log[i]
  BY <1>1, <1>2 DEF TypeOK
<1>4. /\ deleted \subseteq deleted'
      /\ op = "delete" => u \in deleted'
  BY DEF Commit
<1> QED
  BY <1>1, <1>3, <1>4 DEF DeletesRecorded, TypeOK

\* Whoever starts to delete a channel has recorded that before.
LEMMA DeletesRecordedStep ==
  TypeOK /\ InHand /\ DeletesRecorded /\ [Next]_vars => DeletesRecorded'
<1> SUFFICES ASSUME TypeOK, InHand, DeletesRecorded, [Next]_vars PROVE DeletesRecorded'
  OBVIOUS
<1>1. deleted \subseteq deleted'
  BY DeletedGrows
<1>2. ASSUME UNCHANGED log, up' => up,
             \A w \in Worker : task'[w] = task[w] \/ task'[w] = Idle
      PROVE  DeletesRecorded'
  BY <1>1, <1>2 DEF DeletesRecorded, Doing, Idle, TypeOK
<1>3. ASSUME NEW w \in Worker,
             NEW step \in {"store", "insert", "add", "model", "delRow", "delEntry"},
             NEW u \in Uri, Start(w, step, u), UNCHANGED log, up' => up,
             step \in {"delRow", "delEntry"} => u \in deleted'
      PROVE  DeletesRecorded'
  BY <1>1, <1>3 DEF DeletesRecorded, Doing, Start, TypeOK
<1>4. ASSUME NEW u \in Uri, NEW record \in {"none", "good", "bad"}, UserCommits(u, record)
      PROVE  DeletesRecorded'
  <2>1. PICK op \in {"create", "update", "delete"} : Commit(op, u, record)
    BY <1>4 DEF UserCommits
  <2> QED
    BY <1>4, <2>1, CommitRecords DEF UserCommits, DeletesRecorded, Doing
<1>5. ASSUME NEW w \in Http, NEW u \in Uri, PostChannel(w, u) \/ DeleteMine(w, u)
      PROVE  DeletesRecorded'
  <2>1. PICK op \in {"create", "delete"}, record \in {"none", "good"},
             step \in {"store", "delRow"} :
          /\ Commit(op, u, record) /\ Start(w, step, u) /\ UNCHANGED up
          /\ step = "delRow" => op = "delete"
    BY <1>5 DEF PostChannel, DeleteMine
  <2>2. /\ \A i \in 1..Len(log') : log'[i].op = "delete" => log'[i].uri \in deleted'
        /\ deleted \subseteq deleted'
        /\ op = "delete" => u \in deleted'
    BY <2>1, CommitRecords
  <2>3. w \in Worker /\ task' = [task EXCEPT ![w] = [step |-> step, uri |-> u]]
    BY <2>1 DEF Start, Worker
  <2> QED
    BY <2>1, <2>2, <2>3 DEF DeletesRecorded, Doing, TypeOK
<1>6. ASSUME NEW w \in Http, NEW u \in Uri, DeleteAsAdmin(w, u) PROVE DeletesRecorded'
  BY <1>3, <1>6 DEF DeleteAsAdmin, Worker
<1>7. ASSUME NEW w \in Worker, Store(w) PROVE DeletesRecorded'
  <2>1. task[w].uri \in Uri
    BY <1>7 DEF Store, Doing, TypeOK, Task, Idle
  <2> QED
    BY <1>2, <1>3, <1>7, <2>1 DEF Store, Finish, Inserts, LoseAnswer, Fail, TypeOK
<1>8. ASSUME NEW w \in Worker, Insert(w) PROVE DeletesRecorded'
  <2>1. task[w].uri \in Uri
    BY <1>8 DEF Insert, Doing, TypeOK, Task, Idle
  <2> QED
    BY <1>2, <1>3, <1>8, <2>1 DEF Insert, Finish, Inserts, LoseAnswer, Fail, TypeOK
<1>9. ASSUME NEW w \in Worker, Add(w) \/ DeleteEntry(w) PROVE DeletesRecorded'
  BY <1>2, <1>9 DEF Add, DeleteEntry, Finish, TypeOK
<1>10. ASSUME NEW w \in Worker, DeleteRow(w) PROVE DeletesRecorded'
  <2>1. task[w].uri \in Uri /\ task[w].uri \in deleted
    BY <1>10 DEF DeleteRow, Doing, TypeOK, Task, Idle, DeletesRecorded
  <2> QED
    BY <1>1, <1>2, <1>3, <1>10, <2>1 DEF DeleteRow, Finish, Inserts, LoseAnswer, Fail, TypeOK
<1>11. CASE Fetch
  <2>1. PICK e \in Event : e = log[cur + 1] /\ (e.op = "delete" => e.uri \in deleted)
    BY <1>11 DEF Fetch, TypeOK, DeletesRecorded
  <2>2. task' = [task EXCEPT !["jetstream"] = HandlerOf(e)] /\ "jetstream" \in Worker
    BY <1>11, <2>1 DEF Fetch, Worker
  <2>3. CASE e.record = "bad"
    BY <1>2, <1>11, <2>2, <2>3 DEF Fetch, HandlerOf, TypeOK
  <2>4. CASE e.record # "bad"
    BY <1>1, <1>3, <1>11, <2>1, <2>2, <2>4 DEF Fetch, HandlerOf, Start, Event
  <2> QED
    BY <2>3, <2>4
<1>12. CASE Reconnect
  BY <1>2, <1>12 DEF Reconnect
<1>13. CASE Crash
  BY <1>2, <1>13 DEF Crash
<1>14. CASE Restarts
  BY <1>14 DEF Restarts, Restart, DeletesRecorded, Doing, InHand, Idle
<1>15. CASE UNCHANGED vars
  BY <1>2, <1>15 DEF vars
<1> QED
  BY <1>4, <1>5, <1>6, <1>7, <1>8, <1>9, <1>10, <1>11, <1>12, <1>13, <1>14, <1>15 DEF Next, Work, Restarts

\* A worker is about to enter the channel into uriMap.
Entering(w, u) == (Doing(w, "add") \/ Doing(w, "model")) /\ task[w].uri = u

\* A new row is entered into the map by the worker that inserted it; a row that
\* leaves the map did so on somebody's request.
LEMMA KeptStep ==
  TypeOK /\ InHand /\ DeletesRecorded /\ KeptIsServed /\ [Next]_vars => KeptIsServed'
<1> SUFFICES ASSUME TypeOK, InHand, DeletesRecorded, KeptIsServed, [Next]_vars, up',
                    NEW u \in db', u \notin deleted', u \notin apart'
             PROVE  u \in map' \/ \E w \in Worker : Entering(w, u)'
  BY DEF KeptIsServed, Entering
<1>1. u \notin deleted
  BY DeletedGrows
<1>2. ASSUME up, u \in db, u \notin apart
      PROVE  u \in map \/ \E w \in Worker : Entering(w, u)
  BY <1>1, <1>2 DEF KeptIsServed, Entering
<1>3. ASSUME up, u \in db, apart \subseteq apart', map \subseteq map', NEW v \in Worker,
             ~Doing(v, "add"), ~Doing(v, "model"), \A w \in Worker \ {v} : task'[w] = task[w]
      PROVE  u \in map' \/ \E w \in Worker : Entering(w, u)'
  BY <1>2, <1>3 DEF Entering, Doing
<1>4. ASSUME NEW x \in Uri, NEW record \in {"none", "good", "bad"}, UserCommits(x, record)
      PROVE  u \in map' \/ \E w \in Worker : Entering(w, u)'
  BY <1>2, <1>4 DEF UserCommits, Entering, Doing
<1>5. ASSUME NEW v \in Http, NEW x \in Uri,
             PostChannel(v, x) \/ DeleteMine(v, x) \/ DeleteAsAdmin(v, x)
      PROVE  u \in map' \/ \E w \in Worker : Entering(w, u)'
  <2>1. /\ up /\ u \in db /\ map \subseteq map' /\ apart' = apart /\ v \in Worker /\ task[v] = Idle
        /\ \A w \in Worker \ {v} : task'[w] = task[w]
    BY <1>5 DEF PostChannel, DeleteMine, DeleteAsAdmin, Start, TypeOK, Worker
  <2> QED
    BY <1>3, <2>1 DEF Doing
<1>6. ASSUME NEW v \in Worker, Store(v) \/ Insert(v)
      PROVE  u \in map' \/ \E w \in Worker : Entering(w, u)'
  <2>1. /\ up /\ map \subseteq map' /\ apart \subseteq apart' /\ ~Doing(v, "add") /\ ~Doing(v, "model")
        /\ \A w \in Worker \ {v} : task'[w] = task[w]
    BY <1>6 DEF Store, Insert, Doing, Start, Finish, Inserts, LoseAnswer, Fail, TypeOK
  <2>2. CASE u \in db
    BY <1>3, <2>1, <2>2
  <2>3. CASE u \notin db
    <3>1. up' /\ task[v].uri = u /\ (Start(v, "add", u) \/ Start(v, "model", u))
      <4>1. CASE Store(v)
        BY <2>3, <4>1 DEF Store, Doing, Inserts, LoseAnswer, Fail
      <4>2. CASE Insert(v)
        BY <2>3, <4>2 DEF Insert, Doing, Inserts, LoseAnswer, Fail
      <4> QED
        BY <1>6, <4>1, <4>2
    <3>2. task'[v] # Idle /\ task'[v].step \in {"add", "model"} /\ task'[v].uri = u
      BY <3>1 DEF Start, Idle, TypeOK
    <3> QED
      BY <3>1, <3>2 DEF Entering, Doing
  <2> QED
    BY <2>2, <2>3
<1>7. ASSUME NEW v \in Worker, Add(v) PROVE u \in map' \/ \E w \in Worker : Entering(w, u)'
  <2>1. /\ up /\ u \in db /\ map' = map \cup {task[v].uri} /\ apart' = apart \ {task[v].uri}
        /\ \A w \in Worker \ {v} : task'[w] = task[w]
    BY <1>7 DEF Add, Doing, Finish, TypeOK
  <2> QED
    BY <1>2, <1>7, <2>1 DEF Entering, Doing, Add
<1>8. ASSUME NEW v \in Worker, DeleteRow(v)
      PROVE  u \in map' \/ \E w \in Worker : Entering(w, u)'
  <2>1. /\ up /\ u \in db /\ map \subseteq map' /\ apart \subseteq apart' /\ ~Doing(v, "add") /\ ~Doing(v, "model")
        /\ \A w \in Worker \ {v} : task'[w] = task[w]
    BY <1>8 DEF DeleteRow, Doing, Start, Finish, Inserts, LoseAnswer, Fail, TypeOK
  <2> QED
    BY <1>3, <2>1
<1>9. ASSUME NEW v \in Worker, DeleteEntry(v)
      PROVE  u \in map' \/ \E w \in Worker : Entering(w, u)'
  <2>1. /\ up /\ u \in db /\ map' = map \ {task[v].uri} /\ apart' = apart \ {task[v].uri}
        /\ ~Doing(v, "add") /\ ~Doing(v, "model") /\ task[v].uri \in deleted
        /\ \A w \in Worker \ {v} : task'[w] = task[w]
    BY <1>9 DEF DeleteEntry, Doing, Finish, TypeOK, DeletesRecorded
  <2> QED
    BY <1>1, <1>2, <2>1 DEF Entering, Doing
<1>10. CASE Fetch
  <2>1. "jetstream" \in Worker /\ up /\ u \in db /\ map \subseteq map' /\ apart' = apart
        /\ task["jetstream"] = Idle
        /\ \A w \in Worker \ {"jetstream"} : task'[w] = task[w]
    BY <1>10 DEF Fetch, TypeOK, Worker
  <2> QED
    BY <1>3, <2>1 DEF Doing
<1>11. CASE Reconnect
  BY <1>2, <1>11 DEF Reconnect, Entering, Doing
<1>12. CASE Crash
  BY <1>12 DEF Crash
<1>13. CASE Restarts
  BY <1>13 DEF Restarts, Restart
<1>14. CASE UNCHANGED vars
  BY <1>2, <1>14 DEF vars, Entering, Doing
<1> QED
  BY <1>4, <1>5, <1>6, <1>7, <1>8, <1>9, <1>10, <1>11, <1>12, <1>13, <1>14 DEF Next, Work, Restarts

\* For every instance, a stored channel nobody asked to delete is served, unless an
\* error of the database took its row and its entry apart since the start.
THEOREM KeptAreServed == Spec => []KeptIsServed
<1>1. Init => DeletesRecorded /\ KeptIsServed
  BY DEF Init, DeletesRecorded, KeptIsServed, Doing, Idle
<1> QED
  BY <1>1, TypeCorrect, DeletesRecordedStep, KeptStep, PTL DEF Spec

-----------------------------------------------------------------------------
(* BoundaryAgreement: only the jetstream goroutine writes.                 *)

\* The entries are the rows, apart from some channels.
Agree(entries, except) == \A u \in Uri \ except : u \in entries <=> u \in db

\* How the table and the map differ at each step of handling one event.  The
\* channel in hand is not exempt: its entry is about to follow its row.
Between ==
  up => LET t == task["jetstream"]
        IN  /\ t = Idle \/ t.step \in {"store", "insert", "delRow"} => Agree(map, apart)
            /\ t # Idle /\ t.step \in {"add", "model"} => Agree(map \cup {t.uri}, apart \ {t.uri})
            /\ t # Idle /\ t.step = "delEntry" => Agree(map \ {t.uri}, apart \ {t.uri})

\* As long as no HTTP request was made none has anything to do.
Agreement == ~helped => Between /\ \A w \in Http : task[w] = Idle

\* Once helped, always helped.
LEMMA HelpedGrows == [Next]_vars /\ ~helped' => ~helped
<1> SUFFICES ASSUME [Next]_vars, ~helped' PROVE ~helped
  OBVIOUS
<1>1. helped' = helped \/ helped' = TRUE
  BY DEF Next, vars, UserCommits, PostChannel, DeleteMine, DeleteAsAdmin, Work, Store, Insert,
         Add, DeleteRow, DeleteEntry, Fetch, Reconnect, Crash, Restarts, Restart
<1> QED BY <1>1

\* A step that nobody's request takes part in is one of the jetstream goroutine,
\* of the users or of the process.
LEMMA LoneStep ==
  ASSUME TypeOK, [Next]_vars, ~helped', \A w \in Http : task[w] = Idle
  PROVE  /\ \/ \E u \in Uri, record \in {"none", "good", "bad"} : UserCommits(u, record)
            \/ Work("jetstream") \/ Fetch \/ Reconnect \/ Crash \/ Restarts \/ UNCHANGED vars
         /\ \A w \in Http : task'[w] = Idle
<1>1. ASSUME NEW w \in Http, Work(w) PROVE FALSE
  BY <1>1 DEF Work, Store, Insert, Add, DeleteRow, DeleteEntry, Doing
<1>2. ASSUME NEW w \in Http, NEW u \in Uri,
             PostChannel(w, u) \/ DeleteMine(w, u) \/ DeleteAsAdmin(w, u)
      PROVE  FALSE
  BY <1>2 DEF PostChannel, DeleteMine, DeleteAsAdmin
<1>3. \/ \E u \in Uri, record \in {"none", "good", "bad"} : UserCommits(u, record)
      \/ Work("jetstream") \/ Fetch \/ Reconnect \/ Crash \/ Restarts \/ UNCHANGED vars
  BY <1>1, <1>2 DEF Next, Restarts, Worker
<1>4. ASSUME NEW u \in Uri, NEW record \in {"none", "good", "bad"}, UserCommits(u, record)
      PROVE  \A w \in Http : task'[w] = Idle
  BY <1>4 DEF UserCommits
<1>5. CASE Work("jetstream")
  <2>1. PICK x : task' = [task EXCEPT !["jetstream"] = x]
    BY <1>5 DEF Work, Store, Insert, Add, DeleteRow, DeleteEntry, Start, Finish, Inserts, LoseAnswer, Fail
  <2>2. task \in [Worker -> Task] /\ Http \subseteq Worker
    BY DEF TypeOK, Worker
  <2>3. ASSUME NEW w \in Http PROVE task'[w] = task[w]
    <3>1. w # "jetstream" /\ w \in Worker
      BY <2>2, HttpAssumption
    <3> QED BY <2>1, <2>2, <3>1
  <2> QED BY <1>3, <2>3
<1>6. CASE Fetch
  BY <1>6, HttpAssumption DEF Fetch, TypeOK, Worker
<1>7. CASE Reconnect \/ Crash \/ Restarts \/ UNCHANGED vars
  BY <1>7 DEF Reconnect, Crash, Restarts, Restart, vars, Worker
<1> QED BY <1>3, <1>4, <1>5, <1>6, <1>7

\* With one worker the table and the map move together.
LEMMA AgreementStep == TypeOK /\ InHand /\ Agreement /\ [Next]_vars => Agreement'
<1> SUFFICES ASSUME TypeOK, InHand, Between, [Next]_vars, ~helped',
                    \A w \in Http : task[w] = Idle
             PROVE  Between' /\ \A w \in Http : task'[w] = Idle
  BY HelpedGrows DEF Agreement
<1> DEFINE j == "jetstream"
<1>1. Worker = Http \cup {j} /\ j \notin Http /\ task \in [Worker -> Task]
  BY HttpAssumption DEF Worker, TypeOK
<1>0. \A w \in Http : task'[w] = Idle
  BY <1>1, LoneStep
<1>10. SUFFICES Between'
  BY <1>0
<1>2. ASSUME UNCHANGED <<db, map, up, task, apart>> PROVE Between'
  BY <1>2 DEF Between, Agree
<1>3. ASSUME NEW u \in Uri, NEW record \in {"none", "good", "bad"}, UserCommits(u, record)
      PROVE  Between'
  BY <1>2, <1>3 DEF UserCommits
<1>4. CASE Fetch
  <2>1. up /\ up' /\ map' = map /\ db' = db /\ apart' = apart /\ Agree(map, apart)
    BY <1>4 DEF Fetch, Between
  <2>2. log[cur + 1] \in Event
    BY <1>4 DEF Fetch, TypeOK
  <2>3. \/ task'[j] = Idle
        \/ task'[j] # Idle /\ task'[j].step \in {"store", "insert", "delRow"}
    <3>1. task'[j] = HandlerOf(log[cur + 1])
      BY <1>1, <1>4 DEF Fetch
    <3>2. PICK e \in Event : e = log[cur + 1]
      BY <2>2
    <3>3. CASE e.record = "bad"
      <4>1. HandlerOf(e) = Idle
        BY <3>3 DEF HandlerOf
      <4> QED
        BY <3>1, <3>2, <4>1
    <3>4. CASE e.record # "bad"
      <4>1. PICK step \in {"store", "insert", "delRow"} : task'[j] = [step |-> step, uri |-> e.uri]
        BY <3>1, <3>2, <3>4 DEF HandlerOf, Event
      <4> QED
        BY <4>1 DEF Idle
    <3> QED
      BY <3>3, <3>4
  <2> QED
    BY <2>1, <2>3 DEF Between, Agree
<1>5. CASE Work(j)
  <2>1. up /\ up' /\ task[j] # Idle /\ task[j].uri \in Uri
    BY <1>1, <1>5 DEF Work, Store, Insert, Add, DeleteRow, DeleteEntry, Doing, Task, Idle
  <2>2. ASSUME Finish(j) PROVE task'[j] = Idle
    BY <1>1, <2>2 DEF Finish
  <2>3. ASSUME NEW step \in {"add", "model", "delEntry"}, Start(j, step, task[j].uri)
        PROVE  task'[j] # Idle /\ task'[j].step = step /\ task'[j].uri = task[j].uri
    BY <1>1, <2>3 DEF Start, Idle
  <2>4. CASE Store(j)
    BY <2>1, <2>2, <2>3, <2>4 DEF Store, Doing, Between, Agree, Inserts, LoseAnswer, Fail
  <2>5. CASE Insert(j)
    BY <2>1, <2>2, <2>3, <2>5 DEF Insert, Doing, Between, Agree, Inserts, LoseAnswer, Fail
  <2>6. CASE Add(j)
    BY <2>1, <2>2, <2>6 DEF Add, Doing, Between, Agree
  <2>7. CASE DeleteRow(j)
    BY <2>1, <2>2, <2>3, <2>7 DEF DeleteRow, Doing, Between, Agree, Inserts, LoseAnswer, Fail
  <2>8. CASE DeleteEntry(j)
    BY <2>1, <2>2, <2>8 DEF DeleteEntry, Doing, Between, Agree
  <2> QED
    BY <1>5, <2>4, <2>5, <2>6, <2>7, <2>8 DEF Work
<1>6. CASE Reconnect
  BY <1>2, <1>6 DEF Reconnect
<1>7. CASE Crash
  BY <1>7 DEF Crash, Between
<1>8. CASE Restarts
  BY <1>1, <1>8 DEF Restarts, Restart, Between, Agree, InHand
<1>9. CASE UNCHANGED vars
  BY <1>2, <1>9 DEF vars
<1> QED
  BY LoneStep, <1>3, <1>4, <1>5, <1>6, <1>7, <1>8, <1>9

\* As long as no HTTP request wrote, the table and the map agree between any two
\* events, except about channels an error of the database took apart.
THEOREM TableAndMapAgree == Spec => []BoundaryAgreement
<1>1. Init => Agreement
  BY DEF Init, Agreement, Between, Agree, Worker, Idle
<1>2. Agreement => BoundaryAgreement
  BY DEF Agreement, Between, Agree, BoundaryAgreement
<1> QED
  BY <1>1, <1>2, AgreementStep, TypeCorrect, PTL DEF Spec

-----------------------------------------------------------------------------
(* FollowsRepo: the stream is replayed but nothing is skipped or fails.    *)

\* Whether the i-th event decides about u, and whether it is the last to do so.
Decisive(i, u) == log[i].uri = u /\ log[i].record # "bad"
Last(i, u) == Decisive(i, u) /\ \A k \in 1..Len(log) : Decisive(k, u) => k <= i

\* The last decisive event of a channel tells what its repository holds.
LogTells ==
  /\ \A i \in 1..Len(log) : log[i].op = "delete" => log[i].record = "none"
  /\ \A u \in Uri, i \in 1..Len(log) :
       Last(i, u) => /\ repo[u] = "good" => log[i].op # "delete"
                     /\ repo[u] = "none" => log[i].op = "delete"
  /\ \A u \in Uri : (\E i \in 1..Len(log) : Decisive(i, u)) => \E i \in 1..Len(log) : Last(i, u)
  /\ \A u \in Uri : repo[u] = "good" => \E i \in 1..Len(log) : Last(i, u)

\* The event in hand and how far it is handled.
TaskTells ==
  LET t == task["jetstream"]
  IN  t # Idle =>
        /\ Decisive(cur, t.uri)
        /\ t.step \in {"delRow", "delEntry"} <=> log[cur].op = "delete"
        /\ t.step \in {"add", "model"} => t.uri \in db
        /\ t.step = "delEntry" => t.uri \notin db

\* The table holds what the last decisive event says, once that is handled.
TableTells ==
  /\ \A u \in Uri, i \in 1..Len(log) :
       Last(i, u) /\ i <= Handled => (u \in db <=> log[i].op # "delete")
  /\ \A u \in db : \E i \in 1..Len(log) : Decisive(i, u)

\* A commit is the last decisive event of its channel unless its record is bad,
\* and the last decisive events of the other channels stay what they were.
LEMMA CommitLast ==
  ASSUME TypeOK, NEW op \in {"create", "update", "delete"}, NEW x \in Uri,
         NEW record \in {"none", "good", "bad"}, Commit(op, x, record),
         NEW n \in Nat, n = Len(log) + 1
  PROVE  /\ Len(log') = n /\ log'[n].op = op /\ log'[n].record = record
         /\ \A i \in 1..Len(log) : log'[i] = log[i]
         /\ \A u \in Uri, i \in 1..Len(log) : Decisive(i, u)' <=> Decisive(i, u)
         /\ \A u \in Uri : Decisive(n, u)' <=> u = x /\ record # "bad"
         /\ \A u \in Uri : Decisive(n, u)' => Last(n, u)'
         /\ \A u \in Uri, i \in 1..Len(log) : Last(i, u)' <=> Last(i, u) /\ ~Decisive(n, u)'
<1> DEFINE e == [op |-> op, uri |-> x, record |-> record]
<1>1. e \in Event /\ e.op = op /\ e.uri = x /\ e.record = record
  BY DEF Event
<1>2. log' = Append(log, e) /\ log \in Seq(Event)
  BY DEF Commit, TypeOK
<1> HIDE DEF e
<1>3. /\ Len(log') = n /\ log'[n] = e
      /\ \A i \in 1..Len(log) : log'[i] = log[i]
  BY <1>1, <1>2
<1>4. \A u \in Uri, i \in 1..Len(log) : Decisive(i, u)' <=> Decisive(i, u)
  BY <1>3 DEF Decisive
<1>5. \A u \in Uri : Decisive(n, u)' <=> u = x /\ record # "bad"
  BY <1>1, <1>3 DEF Decisive
<1>6. \A u \in Uri : Decisive(n, u)' => Last(n, u)'
  BY <1>3 DEF Last
<1>7. \A u \in Uri, i \in 1..Len(log) : Last(i, u)' <=> Last(i, u) /\ ~Decisive(n, u)'
  <2> SUFFICES ASSUME NEW u \in Uri, NEW i \in 1..Len(log)
               PROVE  Last(i, u)' <=> Last(i, u) /\ ~Decisive(n, u)'
    OBVIOUS
  <2>1. (\A k \in 1..Len(log') : Decisive(k, u)' => k <= i)
          <=> (\A k \in 1..Len(log) : Decisive(k, u) => k <= i) /\ ~Decisive(n, u)'
    <3>1. 1..Len(log') = 1..Len(log) \cup {n} /\ ~(n <= i)
      BY <1>3 DEF TypeOK
    <3> QED
      BY <1>4, <3>1
  <2> QED
    BY <1>4, <2>1 DEF Last
<1> QED
  BY <1>1, <1>3, <1>4, <1>5, <1>6, <1>7

\* LogTells is about the repositories and the stream, which only commits touch.
LEMMA LogFrame == LogTells /\ UNCHANGED <<repo, log>> => LogTells'
  BY DEF LogTells, Last, Decisive

\* A commit keeps the stream and the repositories telling the same.
LEMMA CommitTells ==
  ASSUME TypeOK, LogTells, NEW op \in {"create", "update", "delete"}, NEW x \in Uri,
         NEW record \in {"none", "good", "bad"}, Commit(op, x, record),
         op = "delete" <=> record = "none"
  PROVE  LogTells'
<1>0. PICK n \in Nat : n = Len(log) + 1
  BY DEF TypeOK
<1>1. /\ Len(log) \in Nat /\ Len(log') = n
      /\ log'[n].op = op /\ log'[n].record = record
      /\ \A i \in 1..Len(log) : log'[i] = log[i]
      /\ \A u \in Uri, i \in 1..Len(log) : Decisive(i, u)' <=> Decisive(i, u)
      /\ \A u \in Uri : Decisive(n, u)' <=> u = x /\ record # "bad"
      /\ \A u \in Uri : Decisive(n, u)' => Last(n, u)'
      /\ \A u \in Uri, i \in 1..Len(log) : Last(i, u)' <=> Last(i, u) /\ ~Decisive(n, u)'
  BY <1>0, CommitLast DEF TypeOK
<1>2. repo'[x] = record /\ \A u \in Uri \ {x} : repo'[u] = repo[u]
  BY DEF Commit, TypeOK
<1>3. \A i \in 1..Len(log') : log'[i].op = "delete" => log'[i].record = "none"
  BY <1>0, <1>1 DEF LogTells
<1>4. ASSUME NEW u \in Uri, NEW i \in 1..Len(log'), Last(i, u)'
      PROVE  /\ repo'[u] = "good" => log'[i].op # "delete"
             /\ repo'[u] = "none" => log'[i].op = "delete"
  <2>1. CASE i = n
    BY <1>1, <1>2, <1>4, <2>1 DEF Last
  <2>2. CASE i # n
    <3>1. i \in 1..Len(log)
      BY <1>0, <1>1, <2>2
    <3>2. Last(i, u) /\ ~Decisive(n, u)' /\ log'[i] = log[i]
      BY <1>1, <1>4, <3>1
    <3>3. u # x \/ repo'[u] = "bad"
      BY <1>1, <1>2, <3>2
    <3> QED
      BY <1>2, <3>1, <3>2, <3>3 DEF LogTells
  <2> QED
    BY <2>1, <2>2
<1>5. ASSUME NEW u \in Uri, \/ \E i \in 1..Len(log') : Decisive(i, u)'
                            \/ repo'[u] = "good"
      PROVE  \E i \in 1..Len(log') : Last(i, u)'
  <2>1. CASE Decisive(n, u)'
    BY <1>0, <1>1, <2>1
  <2>2. CASE ~Decisive(n, u)'
    <3>1. \/ \E i \in 1..Len(log) : Decisive(i, u)
          \/ repo[u] = "good"
      BY <1>0, <1>1, <1>2, <1>5, <2>2
    <3>2. PICK i \in 1..Len(log) : Last(i, u)
      BY <3>1 DEF LogTells
    <3> QED
      BY <1>0, <1>1, <2>2, <3>2
  <2> QED
    BY <2>1, <2>2
<1> QED
  BY <1>3, <1>4, <1>5 DEF LogTells

Told == LogTells /\ TaskTells /\ TableTells
Follows == ~helped /\ ~missed => Told /\ \A w \in Http : task[w] = Idle

\* A step that leaves the table alone and does not move on in the stream.
LEMMA FollowsFrame ==
  ASSUME TypeOK, TableTells, UNCHANGED <<log, db>>, Handled' <= Handled, Handled' \in Int
  PROVE  TableTells'
<1>1. Handled \in Int
  BY DEF Handled, TypeOK
<1>2. \A u \in Uri, i \in 1..Len(log) : Last(i, u)' <=> Last(i, u)
  BY DEF Last, Decisive
<1>3. \A u \in db, i \in 1..Len(log) : Decisive(i, u)' <=> Decisive(i, u)
  BY DEF Decisive
<1>4. ASSUME NEW u \in Uri, NEW i \in 1..Len(log'), Last(i, u)', i <= Handled'
      PROVE  u \in db' <=> log'[i].op # "delete"
  BY <1>1, <1>2, <1>4 DEF TableTells
<1> QED
  BY <1>3, <1>4 DEF TableTells

\* A commit is beyond what is handled, and takes nothing from what is known.
LEMMA CommitFollows ==
  ASSUME TypeOK, InHand, TaskTells, TableTells, NEW op \in {"create", "update", "delete"},
         NEW x \in Uri, NEW record \in {"none", "good", "bad"}, Commit(op, x, record),
         UNCHANGED <<cur, db, task>>
  PROVE  TaskTells' /\ TableTells'
<1>0. PICK n \in Nat : n = Len(log) + 1
  BY DEF TypeOK
<1>1. /\ Len(log) \in Nat /\ Len(log') = n /\ cur <= Len(log)
      /\ \A i \in 1..Len(log) : log'[i] = log[i]
      /\ \A u \in Uri, i \in 1..Len(log) : Decisive(i, u)' <=> Decisive(i, u)
      /\ \A u \in Uri, i \in 1..Len(log) : Last(i, u)' => Last(i, u)
  BY <1>0, CommitLast DEF TypeOK
<1>2. Handled' = Handled /\ Handled \in Int /\ Handled <= Len(log)
  BY <1>1 DEF Handled, TypeOK
<1>3. TaskTells'
  <2> SUFFICES ASSUME task["jetstream"] # Idle PROVE TaskTells'
    BY DEF TaskTells
  <2>1. cur \in 1..Len(log)
    BY DEF InHand, TypeOK
  <2>2. task' = task /\ cur' = cur /\ db' = db /\ log'[cur] = log[cur]
    BY <1>1, <2>1
  <2>3. Decisive(cur, task["jetstream"].uri)'
    BY <2>2 DEF Decisive, TaskTells
  <2> QED
    BY <2>2, <2>3 DEF TaskTells
<1>4. ASSUME NEW u \in Uri, NEW i \in 1..Len(log'), Last(i, u)', i <= Handled'
      PROVE  u \in db' <=> log'[i].op # "delete"
  <2>1. i \in 1..Len(log)
    BY <1>1, <1>2, <1>4
  <2> QED
    BY <1>1, <1>2, <1>4, <2>1 DEF TableTells
<1>5. \A u \in db : \E i \in 1..Len(log') : Decisive(i, u)'
  BY <1>0, <1>1 DEF TableTells, TypeOK
<1> QED
  BY <1>3, <1>4, <1>5 DEF TableTells

\* The goroutine at work on the event in hand: what it has to show when it is
\* done, and that on the way it touches the channel of that event only.
LEMMA WorkFollows ==
  ASSUME TypeOK, InHand, TaskTells, TableTells, ~missed', Work("jetstream")
  PROVE  TaskTells' /\ TableTells'
<1> DEFINE j == "jetstream"
<1>1. /\ j \in Worker /\ task[j] # Idle /\ cur \in 1..Len(log)
      /\ cur' = cur /\ log' = log /\ task \in [Worker -> Task]
  BY DEF Work, Store, Insert, Add, DeleteRow, DeleteEntry, Doing, Worker, InHand, TypeOK
<1>2. PICK x \in Uri : x = task[j].uri
  BY <1>1 DEF Task, Idle
<1>3. /\ Decisive(cur, x) /\ \A i \in 1..Len(log) : Last(i, x) => i >= cur
      /\ \A i \in 1..Len(log), u \in Uri : Decisive(i, u)' <=> Decisive(i, u)
      /\ \A i \in 1..Len(log), u \in Uri : Last(i, u)' <=> Last(i, u)
  BY <1>1, <1>2 DEF TaskTells, Last, Decisive
<1>4. /\ db \ {x} = db' \ {x}
      /\ \/ /\ task'[j] # Idle /\ task'[j].uri = x
            /\ \/ task[j].step = "store" /\ task'[j].step = "add" /\ x \in db'
               \/ task[j].step = "insert" /\ task'[j].step = "model" /\ x \in db'
               \/ task[j].step = "delRow" /\ task'[j].step = "delEntry" /\ x \notin db'
         \/ /\ task'[j] = Idle
            /\ \/ task[j].step \in {"store", "insert", "add", "model"} /\ x \in db'
               \/ task[j].step \in {"delRow", "delEntry"} /\ x \notin db'
  <2>1. ASSUME Finish(j) PROVE task'[j] = Idle
    BY <1>1, <2>1 DEF Finish
  <2>2. ASSUME NEW step \in {"add", "model", "delEntry"}, Start(j, step, x)
        PROVE  task'[j] # Idle /\ task'[j].step = step /\ task'[j].uri = x
    BY <1>1, <2>2 DEF Start, Idle
  <2>3. CASE Store(j)
    BY <1>2, <2>1, <2>2, <2>3 DEF Store, Doing, Inserts, LoseAnswer, Fail
  <2>4. CASE Insert(j)
    BY <1>2, <2>1, <2>2, <2>4 DEF Insert, Doing, Inserts, LoseAnswer, Fail
  <2>5. CASE Add(j)
    BY <1>1, <1>2, <2>1, <2>5 DEF Add, Doing, TaskTells
  <2>6. CASE DeleteRow(j)
    BY <1>2, <2>1, <2>2, <2>6 DEF DeleteRow, Doing, Inserts, LoseAnswer, Fail
  <2>7. CASE DeleteEntry(j)
    BY <1>1, <1>2, <2>1, <2>7 DEF DeleteEntry, Doing, TaskTells
  <2> QED
    BY <2>3, <2>4, <2>5, <2>6, <2>7 DEF Work
<1>5. TaskTells'
  <2>1. task[j].step \in {"delRow", "delEntry"} <=> log[cur].op = "delete"
    BY <1>1 DEF TaskTells
  <2>2. Decisive(cur, x)'
    BY <1>1, <1>3
  <2>3. CASE task'[j] = Idle
    BY <2>3 DEF TaskTells
  <2>4. CASE task'[j] # Idle
    BY <1>1, <1>4, <2>1, <2>2, <2>4 DEF TaskTells
  <2> QED
    BY <2>3, <2>4
<1>6. ASSUME NEW u \in Uri, NEW i \in 1..Len(log'), Last(i, u)', i <= Handled'
      PROVE  u \in db' <=> log'[i].op # "delete"
  <2>1. Last(i, u) /\ i \in 1..Len(log)
    BY <1>1, <1>3, <1>6
  <2>2. CASE u # x
    <3>1. i # cur
      BY <1>3, <2>1, <2>2 DEF Last, Decisive
    <3>2. i <= Handled
      BY <1>1, <1>6, <3>1 DEF Handled
    <3> QED
      BY <1>1, <1>4, <2>1, <2>2, <3>2 DEF TableTells
  <2>3. CASE u = x
    <3>1. i = cur /\ task'[j] = Idle
      BY <1>1, <1>3, <1>6, <2>1, <2>3 DEF Handled
    <3> QED
      BY <1>1, <1>4, <2>3, <3>1 DEF TaskTells
  <2> QED
    BY <2>2, <2>3
<1>7. \A u \in db' : \E i \in 1..Len(log') : Decisive(i, u)'
  BY <1>1, <1>3, <1>4 DEF TableTells, TypeOK
<1> QED
  BY <1>5, <1>6, <1>7 DEF TableTells

\* Once missed, always missed.
LEMMA MissedGrows == TypeOK /\ [Next]_vars /\ ~missed' => ~missed
<1> SUFFICES ASSUME TypeOK, [Next]_vars, ~missed' PROVE ~missed
  OBVIOUS
<1>1. missed' = missed \/ missed' = TRUE
  BY DEF TypeOK, Next, vars, UserCommits, PostChannel, DeleteMine, DeleteAsAdmin, Work, Store,
         Insert, Add, DeleteRow, DeleteEntry, Inserts, LoseAnswer, Fail, Fetch, Reconnect, Crash, Restarts, Restart, Resume
<1> QED BY <1>1

\* Every step of the lone jetstream goroutine, and every replay, keeps the
\* account of the stream, the event in hand and the table.
LEMMA FollowsStep == TypeOK /\ InHand /\ Follows /\ [Next]_vars => Follows'
<1> SUFFICES ASSUME TypeOK, InHand, Told, [Next]_vars, ~helped', ~missed',
                    \A w \in Http : task[w] = Idle
             PROVE  Told' /\ \A w \in Http : task'[w] = Idle
  BY HelpedGrows, MissedGrows DEF Follows
<1> USE DEF Told
<1> DEFINE j == "jetstream"
<1>1. j \in Worker /\ j \notin Http /\ cur \in 0..Len(log) /\ task \in [Worker -> Task]
  BY HttpAssumption DEF Worker, TypeOK
<1>0. \A w \in Http : task'[w] = Idle
  BY LoneStep
<1>10. SUFFICES Told'
  BY <1>0
<1>2. ASSUME UNCHANGED <<repo, log, db>>, cur' \in 0..Handled, task'[j] = Idle
      PROVE  Told'
  <2>1. Handled' \in Int /\ Handled' <= Handled
    BY <1>1, <1>2 DEF Handled
  <2>2. TableTells'
    BY <1>2, <2>1, FollowsFrame
  <2> QED
    BY <1>2, <2>2, LogFrame DEF TaskTells
<1>11. ASSUME Resume PROVE cur' \in 0..Handled
  <2>1. cur' \in 0..Len(log)
    BY <1>11 DEF Resume
  <2>3. ~(cur' > Handled)
    BY <1>11, Zenon DEF Resume
  <2>2. Handled \in Int
    BY <1>1 DEF Handled
  <2> QED BY <2>1, <2>2, <2>3
<1>3. ASSUME NEW x \in Uri, NEW record \in {"none", "good", "bad"}, UserCommits(x, record)
      PROVE  Told'
  <2>1. PICK op \in {"create", "update", "delete"} :
          Commit(op, x, record) /\ (op = "delete" <=> record = "none")
    BY <1>3 DEF UserCommits
  <2> QED
    BY <1>3, <2>1, CommitTells, CommitFollows DEF UserCommits
<1>4. CASE Work(j)
  <2>1. UNCHANGED <<repo, log>>
    BY <1>4 DEF Work, Store, Insert, Add, DeleteRow, DeleteEntry
  <2> QED
    BY <1>4, <2>1, LogFrame, WorkFollows
<1>5. CASE Fetch
  <2>1. /\ task[j] = Idle /\ Handled = cur /\ cur' = cur + 1 /\ UNCHANGED <<repo, log, db>>
        /\ cur' \in 1..Len(log)
    BY <1>1, <1>5 DEF Fetch, Handled
  <2>2. PICK e \in Event : e = log[cur + 1] /\ task'[j] = HandlerOf(e)
    BY <1>1, <1>5, <2>1 DEF Fetch, TypeOK
  <2>3. CASE e.record = "bad"
    <3>1. task'[j] = Idle
      BY <2>2, <2>3 DEF HandlerOf
    <3>2. Handled' = cur + 1
      BY <2>1, <3>1 DEF Handled
    <3>3. ASSUME NEW u \in Uri, NEW i \in 1..Len(log'), Last(i, u)', i <= Handled'
          PROVE  u \in db' <=> log'[i].op # "delete"
      <4>1. Last(i, u) /\ i # cur + 1
        BY <2>1, <2>2, <2>3, <3>3 DEF Last, Decisive
      <4> QED
        BY <1>1, <2>1, <3>2, <3>3, <4>1 DEF TableTells
    <3>4. \A u \in db' : \E i \in 1..Len(log') : Decisive(i, u)'
      BY <2>1 DEF TableTells, Decisive
    <3> QED
      BY <2>1, <3>1, <3>3, <3>4, LogFrame DEF TaskTells, TableTells
  <2>4. CASE e.record # "bad"
    <3>1. PICK step \in {"store", "insert", "delRow"} :
            /\ task'[j] = [step |-> step, uri |-> e.uri]
            /\ step = "delRow" <=> e.op = "delete"
      BY <2>2, <2>4 DEF HandlerOf, Event
    <3>2. task'[j] # Idle /\ task'[j].step = step /\ task'[j].uri = e.uri
      BY <3>1 DEF Idle
    <3>3. Handled' = cur' - 1
      BY <3>2 DEF Handled
    <3>4. Handled' = Handled /\ Handled' \in Int
      BY <1>1, <2>1, <3>3
    <3>5. TableTells'
      BY <2>1, <3>4, FollowsFrame
    <3>6. log'[cur'] = e
      BY <2>1, <2>2
    <3>7. Decisive(cur, e.uri)'
      BY <2>4, <3>6 DEF Decisive
    <3>8. TaskTells'
      BY <3>1, <3>2, <3>6, <3>7 DEF TaskTells
    <3> QED
      BY <2>1, <3>5, <3>8, LogFrame
  <2> QED
    BY <2>3, <2>4
<1>6. CASE Reconnect
  BY <1>2, <1>6, <1>11 DEF Reconnect
<1>7. CASE Crash
  <2>1. Handled \in 0..Handled
    BY <1>1 DEF InHand, Handled
  <2> QED
    BY <1>1, <1>2, <1>7, <2>1 DEF Crash
<1>8. CASE Restarts
  <2>1. task[j] = Idle
    BY <1>1, <1>8 DEF Restarts, Restart, InHand
  <2> QED
    BY <1>2, <1>8, <1>11, <2>1 DEF Restarts, Restart
<1>9. CASE UNCHANGED vars
  <2>1. Handled' = Handled /\ Handled \in Int
    BY <1>1, <1>9 DEF vars, Handled
  <2>2. TableTells'
    BY <1>9, <2>1, FollowsFrame DEF vars
  <2> QED
    BY <1>9, <2>2, LogFrame DEF vars, TaskTells, Decisive
<1> QED
  BY LoneStep, <1>3, <1>4, <1>5, <1>6, <1>7, <1>8, <1>9

\* Without HTTP writers, lost events and failures of the database the table
\* follows the repositories, however often the stream is replayed.
THEOREM TableFollowsRepo == Spec => []FollowsRepo
<1>1. Init => Follows
  BY DEF Init, Follows, Told, LogTells, TaskTells, TableTells, Worker
<1>2. TypeOK /\ InHand /\ Follows => FollowsRepo
  <2> SUFFICES ASSUME TypeOK, Told, up, task["jetstream"] = Idle, cur = Len(log),
                      NEW u \in Uri
               PROVE  (repo[u] = "good" => u \in db) /\ (repo[u] = "none" => u \notin db)
    BY DEF FollowsRepo, Follows
  <2>1. \A i \in 1..Len(log) : Last(i, u) => (u \in db <=> log[i].op # "delete")
    BY DEF Told, TableTells, Handled, TypeOK
  <2>2. ASSUME repo[u] = "good" PROVE u \in db
    BY <2>1, <2>2 DEF Told, LogTells
  <2>3. ASSUME repo[u] = "none" PROVE u \notin db
    BY <2>1, <2>3 DEF Told, LogTells, TableTells
  <2> QED
    BY <2>2, <2>3
<1> QED
  BY <1>1, <1>2, FollowsStep, TypeCorrect, PTL DEF Spec

-----------------------------------------------------------------------------
(* The table is a RecordCache.                                             *)

\* What a worker is about to insert was published: an event that is no deletion
\* carries a record, and the steps behind it keep to it.
HandsAreTrue ==
  /\ \A i \in 1..Len(log) : log[i].op # "delete" => log[i].record # "none"
  /\ \A w \in Worker : Doing(w, "store") \/ Doing(w, "insert")
                         => <<task[w].uri, "good">> \in Published

\* An event on the stream that is good publishes, and nothing else does.
LEMMA PublishedIs ==
  ASSUME NEW u
  PROVE  <<u, "good">> \in Published <=>
           \E i \in 1..Len(log) : log[i].uri = u /\ log[i].record = "good"
  BY DEF Published

\* A commit publishes a good record, and takes nothing back.
LEMMA CommitPublishes ==
  ASSUME TypeOK, NEW op \in {"create", "update", "delete"}, NEW u \in Uri,
         NEW record \in {"none", "good", "bad"}, Commit(op, u, record)
  PROVE  /\ Published' = Published \cup (IF record = "good" THEN {<<u, "good">>} ELSE {})
         /\ deleted' = deleted \cup (IF op = "delete" THEN {u} ELSE {})
<1> DEFINE e == [op |-> op, uri |-> u, record |-> record]
<1>1. e \in Event /\ e.uri = u /\ e.record = record
  BY DEF Event
<1> HIDE DEF e
<1>2. log' = Append(log, e)
  BY DEF Commit, e
<1>3. /\ Len(log') = Len(log) + 1 /\ Len(log) \in Nat
      /\ log'[Len(log) + 1] = e
      /\ \A i \in 1..Len(log) : log'[i] = log[i]
  BY <1>1, <1>2 DEF TypeOK
<1>4. 1..Len(log') = 1..Len(log) \cup {Len(log) + 1}
  BY <1>3
<1>5. Published' = {<<log'[i].uri, "good">> : i \in {j \in 1..Len(log') : log'[j].record = "good"}}
  BY DEF Published
<1>6. Published' \subseteq Published \cup (IF record = "good" THEN {<<u, "good">>} ELSE {})
  BY <1>1, <1>3, <1>4, <1>5 DEF Published
<1>7. Published \subseteq Published'
  BY <1>3, <1>4, <1>5 DEF Published
<1>8. record = "good" => <<u, "good">> \in Published'
  BY <1>1, <1>3, <1>4, <1>5
<1>9. deleted' = deleted \cup (IF op = "delete" THEN {u} ELSE {})
  BY DEF Commit
<1> QED
  BY <1>6, <1>7, <1>8, <1>9

\* HandsAreTrue needs to be seen to for new events and for new insertions only.
LEMMA HandsFrame ==
  ASSUME HandsAreTrue, up' => up, Published \subseteq Published',
         \A i \in 1..Len(log') : log'[i].op # "delete" => log'[i].record # "none",
         \A w \in Worker : \/ task'[w] = task[w] \/ task'[w] = Idle
                           \/ task'[w].step \notin {"store", "insert"}
                           \/ <<task'[w].uri, "good">> \in Published'
  PROVE  HandsAreTrue'
  BY DEF HandsAreTrue, Doing

\* A commit carries a record unless it is a deletion.
LEMMA CommitCarries ==
  ASSUME TypeOK, HandsAreTrue, NEW op \in {"create", "update", "delete"}, NEW u \in Uri,
         NEW record \in {"none", "good", "bad"}, Commit(op, u, record),
         op # "delete" => record # "none"
  PROVE  \A i \in 1..Len(log') : log'[i].op # "delete" => log'[i].record # "none"
<1> DEFINE e == [op |-> op, uri |-> u, record |-> record]
<1>1. e \in Event /\ e.op = op /\ e.record = record
  BY DEF Event
<1> HIDE DEF e
<1>2. log' = Append(log, e)
  BY DEF Commit, e
<1>3. Len(log') = Len(log) + 1 /\ log'[Len(log) + 1] = e
      /\ \A i \in 1..Len(log) : log'[i] = log[i]
  BY <1>1, <1>2 DEF TypeOK
<1> QED
  BY <1>1, <1>3 DEF HandsAreTrue, TypeOK

\* Every step keeps to it: requests insert what they have published, the jetstream
\* goroutine what an event carries.
LEMMA HandsStep == TypeOK /\ InHand /\ HandsAreTrue /\ [Next]_vars => HandsAreTrue'
<1> SUFFICES ASSUME TypeOK, InHand, HandsAreTrue, [Next]_vars PROVE HandsAreTrue'
  OBVIOUS
<1>1. ASSUME UNCHANGED log, up' => up,
             \A w \in Worker : \/ task'[w] = task[w] \/ task'[w] = Idle
                               \/ task'[w].step \notin {"store", "insert"}
                               \/ <<task'[w].uri, "good">> \in Published
      PROVE  HandsAreTrue'
  <2>1. Published' = Published
    BY <1>1 DEF Published
  <2>2. \A i \in 1..Len(log') : log'[i].op # "delete" => log'[i].record # "none"
    BY <1>1 DEF HandsAreTrue
  <2> QED
    BY <1>1, <2>1, <2>2, HandsFrame
<1>2. ASSUME NEW u \in Uri, NEW record \in {"none", "good", "bad"}, UserCommits(u, record)
      PROVE  HandsAreTrue'
  <2>1. PICK op \in {"create", "update", "delete"} :
          Commit(op, u, record) /\ (op # "delete" => record # "none")
    BY <1>2 DEF UserCommits
  <2>2. \A i \in 1..Len(log') : log'[i].op # "delete" => log'[i].record # "none"
    BY <2>1, CommitCarries
  <2>3. Published \subseteq Published'
    BY <2>1, CommitPublishes
  <2> QED
    BY <1>2, <2>2, <2>3, HandsFrame DEF UserCommits
<1>3. ASSUME NEW w \in Http, NEW u \in Uri, PostChannel(w, u) \/ DeleteMine(w, u)
      PROVE  HandsAreTrue'
  <2>1. PICK op \in {"create", "delete"}, record \in {"none", "good"},
             step \in {"store", "delRow"} :
          /\ Commit(op, u, record) /\ Start(w, step, u) /\ UNCHANGED up
          /\ op = "create" => record = "good"
          /\ step = "store" => record = "good"
    BY <1>3 DEF PostChannel, DeleteMine
  <2>2. \A i \in 1..Len(log') : log'[i].op # "delete" => log'[i].record # "none"
    BY <2>1, CommitCarries
  <2>3. Published \subseteq Published' /\ (step = "store" => <<u, "good">> \in Published')
    BY <2>1, CommitPublishes
  <2>4. task' = [task EXCEPT ![w] = [step |-> step, uri |-> u]]
    BY <2>1 DEF Start
  <2>5. \A v \in Worker : \/ task'[v] = task[v]
                          \/ task'[v].step \notin {"store", "insert"}
                          \/ <<task'[v].uri, "good">> \in Published'
    BY <2>3, <2>4 DEF TypeOK
  <2> QED
    BY <2>1, <2>2, <2>3, <2>5, HandsFrame
<1>4. ASSUME NEW w \in Http, NEW u \in Uri, DeleteAsAdmin(w, u) PROVE HandsAreTrue'
  BY <1>1, <1>4 DEF DeleteAsAdmin, Start, TypeOK
<1>5. ASSUME NEW w \in Worker, Work(w) PROVE HandsAreTrue'
  BY <1>1, <1>5 DEF Work, Store, Insert, Add, DeleteRow, DeleteEntry, Start, Finish, Inserts, LoseAnswer, Fail, TypeOK
<1>6. CASE Fetch
  <2>1. PICK i \in 1..Len(log) : i = cur + 1
    BY <1>6 DEF Fetch, TypeOK
  <2>2. PICK e \in Event : e = log[i]
    BY <2>1 DEF TypeOK
  <2>3. e.op # "delete" => e.record # "none"
    BY <2>2 DEF HandsAreTrue
  <2>4. e.op # "delete" /\ e.record # "bad" => <<e.uri, "good">> \in Published
    BY <2>2, <2>3, PublishedIs DEF Event
  <2>5. task' = [task EXCEPT !["jetstream"] = HandlerOf(e)]
    BY <1>6, <2>1, <2>2 DEF Fetch
  <2>6. HandlerOf(e) = Idle \/ HandlerOf(e).step = "delRow"
        \/ <<HandlerOf(e).uri, "good">> \in Published
    BY <2>4 DEF HandlerOf, Event
  <2> QED
    BY <1>1, <1>6, <2>5, <2>6 DEF Fetch, TypeOK
<1>7. CASE Reconnect
  BY <1>1, <1>7 DEF Reconnect
<1>8. CASE Crash
  BY <1>1, <1>8 DEF Crash
<1>9. CASE Restarts
  <2>1. \A w \in Worker : task'[w] = Idle
    BY <1>9 DEF Restarts, Restart, InHand
  <2>2. Published' = Published /\ UNCHANGED log
    BY <1>9 DEF Restarts, Restart, Published
  <2> QED
    BY <2>1, <2>2 DEF HandsAreTrue, Doing
<1>10. CASE UNCHANGED vars
  BY <1>1, <1>10 DEF vars
<1> QED
  BY <1>2, <1>3, <1>4, <1>5, <1>6, <1>7, <1>8, <1>9, <1>10 DEF Next, Restarts

\* The channels table is a RecordCache, whatever requests, the jetstream goroutine,
\* crashes and replays do to each other.
THEOREM Refinement == Spec => ImplementsRecordCache
<1>1. Init => Cache!Init
  BY DEF Init, Published, Cache!Init
<1>2. Init => DeletesRecorded /\ HandsAreTrue
  BY DEF Init, DeletesRecorded, HandsAreTrue, Doing, Idle
<1>3. TypeOK /\ InHand /\ DeletesRecorded /\ HandsAreTrue /\ [Next]_vars
        => [Cache!Next]_(Cache!vars)
  <2> SUFFICES ASSUME TypeOK, InHand, DeletesRecorded, HandsAreTrue, [Next]_vars
               PROVE  [Cache!Next]_(Cache!vars)
    OBVIOUS
  <2> DEFINE cache == [u \in Uri |-> IF u \in db THEN "good" ELSE "none"]
  <2>1. ASSUME UNCHANGED <<log, deleted, db>> PROVE UNCHANGED Cache!vars
    BY <2>1 DEF Cache!vars, Published
  <2>2. ASSUME NEW op \in {"create", "update", "delete"}, NEW u \in Uri,
               NEW record \in {"none", "good", "bad"}, Commit(op, u, record), UNCHANGED db,
               op = "delete" => record = "none"
        PROVE  [Cache!Next]_(Cache!vars)
    <3>1. /\ Published' = Published \cup (IF record = "good" THEN {<<u, "good">>} ELSE {})
          /\ deleted' = deleted \cup (IF op = "delete" THEN {u} ELSE {})
      BY <2>2, CommitPublishes
    <3>2. CASE record = "good"
      <4>1. Cache!Publish(u, "good")
        BY <2>2, <3>1, <3>2 DEF Cache!Publish
      <4> QED
        BY <4>1 DEF Cache!Next
    <3>3. CASE record # "good"
      <4>1. Cache!Withdraw
        BY <2>2, <3>1, <3>3 DEF Cache!Withdraw, TypeOK
      <4> QED
        BY <4>1 DEF Cache!Next
    <3> QED
      BY <3>2, <3>3
  <2>3. ASSUME NEW u \in Uri, NEW record \in {"none", "good", "bad"}, UserCommits(u, record)
        PROVE  [Cache!Next]_(Cache!vars)
    <3>1. PICK op \in {"create", "update", "delete"} :
            Commit(op, u, record) /\ (op = "delete" => record = "none")
      BY <2>3 DEF UserCommits
    <3> QED
      BY <2>2, <2>3, <3>1 DEF UserCommits
  <2>4. ASSUME NEW w \in Http, NEW u \in Uri, PostChannel(w, u) \/ DeleteMine(w, u)
        PROVE  [Cache!Next]_(Cache!vars)
    <3>1. PICK op \in {"create", "delete"}, record \in {"none", "good"} :
            Commit(op, u, record) /\ (op = "delete" => record = "none") /\ UNCHANGED db
      BY <2>4 DEF PostChannel, DeleteMine
    <3> QED
      BY <2>2, <3>1
  <2>5. ASSUME NEW w \in Http, NEW u \in Uri, DeleteAsAdmin(w, u)
        PROVE  Cache!Next
    <3>1. Cache!Withdraw
      BY <2>5 DEF DeleteAsAdmin, Cache!Withdraw, TypeOK, Published
    <3> QED
      BY <3>1 DEF Cache!Next
  <2>6. ASSUME NEW w \in Worker, Store(w) \/ Insert(w) PROVE [Cache!Next]_(Cache!vars)
    <3>1. PICK u : u = task[w].uri
      OBVIOUS
    <3>2. /\ u \in Uri /\ <<u, "good">> \in Published
          /\ UNCHANGED <<log, deleted>>
          /\ \/ u \notin db /\ db' = db \cup {u}
             \/ UNCHANGED db
      BY <2>6, <3>1 DEF Store, Insert, Inserts, LoseAnswer, Fail, Doing, TypeOK, Task, Idle, HandsAreTrue
    <3>3. CASE u \notin db /\ db' = db \cup {u}
      <4>1. cache[u] = "none" /\ cache' = [cache EXCEPT ![u] = "good"]
        BY <3>2, <3>3
      <4>2. Cache!Show(u, "good")
        BY <3>2, <4>1 DEF Cache!Show, Published
      <4> QED
        BY <3>2, <4>2 DEF Cache!Next
    <3> QED
      BY <2>1, <3>2, <3>3
  <2>7. ASSUME NEW w \in Worker, DeleteRow(w) PROVE [Cache!Next]_(Cache!vars)
    <3>1. PICK u : u = task[w].uri
      OBVIOUS
    <3>2. /\ u \in Uri /\ u \in deleted
          /\ UNCHANGED <<log, deleted>>
          /\ db' = db \ {u} \/ UNCHANGED db
      BY <2>7, <3>1 DEF DeleteRow, Inserts, LoseAnswer, Fail, Doing, TypeOK, Task, Idle, DeletesRecorded
    <3>3. CASE db' = db \ {u}
      <4>1. cache' = [v \in Uri |-> IF v \in {u} THEN "none" ELSE cache[v]]
        BY <3>2, <3>3
      <4>2. Cache!Hide({u})
        BY <3>2, <4>1 DEF Cache!Hide, Published
      <4>3. {u} \in SUBSET deleted
        BY <3>2
      <4> QED
        BY <4>2, <4>3 DEF Cache!Next
    <3> QED
      BY <2>1, <3>2, <3>3
  <2>8. ASSUME NEW w \in Worker, Add(w) \/ DeleteEntry(w) PROVE UNCHANGED Cache!vars
    BY <2>1, <2>8 DEF Add, DeleteEntry
  <2>9. CASE Fetch \/ Reconnect \/ Crash \/ Restarts \/ UNCHANGED vars
    BY <2>1, <2>9 DEF Fetch, Reconnect, Crash, Restarts, Restart, vars
  <2> QED
    BY <2>3, <2>4, <2>5, <2>6, <2>7, <2>8, <2>9 DEF Next, Work, Restarts
<1> QED
  BY <1>1, <1>2, <1>3, TypeCorrect, DeletesRecordedStep, HandsStep, PTL
  DEF Spec, ImplementsRecordCache, Cache!Spec
=============================================================================
