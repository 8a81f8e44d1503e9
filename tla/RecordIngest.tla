---------------------------- MODULE RecordIngest ----------------------------
(***************************************************************************)
(* How the records of one channel (signets, and the messages and images    *)
(* posted under them) get from the users' repositories into the database,  *)
(* and from there to the subscribers.  A record posted through this server *)
(* is written to the repository, stored and broadcast by the request that  *)
(* posts it (recordmanager: PostSignet, PostMessage, PostMyMessage,        *)
(* PostMedia), while the event of that same record comes back over the     *)
(* jetstream, whose goroutine stores and broadcasts it as well             *)
(* (AcceptSignet, AcceptMessage, AcceptImage).  Whoever inserts the row is *)
(* the one that broadcasts it.  Records written with other clients come    *)
(* over the jetstream alone.                                               *)
(*                                                                         *)
(* The tables reference each other: a signet its channel, a post its       *)
(* signet (ON DELETE CASCADE).  A crash empties the hands of all workers   *)
(* and resumes the stream a minute back.                                   *)
(***************************************************************************)
EXTENDS Naturals, Sequences

CONSTANTS
  Signet, Message, Image, \* uris of the records
  SignetOf,     \* the signet a post names in signetURI
  Mine,         \* the signets issued by this instance
  BySigner,     \* the posts written by the author of their signet
  Http,         \* requests and goroutines that post records
  MaxLog        \* bound on the length of the stream, deletions of Mine excepted

Post == Message \cup Image
Record == Signet \cup Post

ASSUME KindsAssumption ==
  /\ Signet \cap Post = {} /\ Message \cap Image = {}
  /\ Mine \subseteq Signet /\ BySigner \subseteq Post
ASSUME SignetOfAssumption == SignetOf \in [Post -> Signet]
ASSUME HttpAssumption == "jetstream" \notin Http
ASSUME BoundAssumption == MaxLog \in Nat

VARIABLES
  repo,     \* what the repositories hold: "none", a version, or "bad"
  log,      \* the jetstream: the commits of these records
  cur,      \* how many of them were fetched
  channel,  \* is the channel's row there?
  db,       \* what the tables hold: "none" or a version
  task,     \* what each worker is about to do
  forwards, \* history: how often a record was broadcast (at most 2 counted)
  removed,  \* history: the records whose row was removed
  helped,   \* history: the records posted through this server
  missed    \* history: was an event skipped, a statement refused, or the
            \* channel gone for a while?

history == <<helped, missed>>
vars == <<repo, log, cur, channel, db, task, forwards, removed, history>>

Version == {"v1", "v2"}
Worker == Http \cup {"jetstream"}
Idle == [step |-> "idle"]
Storing == {"create", "store", "insert", "check", "forward"}
Removing == {"unsign", "delete"}
Task == {Idle} \cup [step : Storing, rec : Record, ver : Version]
               \cup [step : Removing, rec : Record, ver : {"none"}]
Event == [op : {"create", "update"}, rec : Record, ver : Version \cup {"bad"}]
         \cup [op : {"delete"}, rec : Record, ver : {"none"}]

TypeOK ==
  /\ repo \in [Record -> Version \cup {"none", "bad"}]
  /\ log \in Seq(Event)
  /\ cur \in 0..Len(log)
  /\ channel \in BOOLEAN
  /\ db \in [Record -> Version \cup {"none"}]
  /\ task \in [Worker -> Task]
  /\ forwards \in [Record -> 0..2]
  /\ removed \in SUBSET Record /\ helped \in SUBSET Record
  /\ missed \in BOOLEAN

Init ==
  /\ repo = [r \in Record |-> "none"]
  /\ log = <<>> /\ cur = 0
  /\ channel = TRUE
  /\ db = [r \in Record |-> "none"]
  /\ task = [w \in Worker |-> Idle]
  /\ forwards = [r \in Record |-> 0]
  /\ removed = {} /\ helped = {} /\ missed = FALSE

Doing(w, step) == task[w] # Idle /\ task[w].step = step
Start(w, step, r, v) == task' = [task EXCEPT ![w] = [step |-> step, rec |-> r, ver |-> v]]
Finish(w) == task' = [task EXCEPT ![w] = Idle]

\* A commit changes a repository and goes out on the stream.
Commit(op, r, v) ==
  /\ repo' = [repo EXCEPT ![r] = v]
  /\ log' = Append(log, [op |-> op, rec |-> r, ver |-> v])

\* The rows that refer to r, r itself included.
Below(r) == {r} \cup {p \in Post : SignetOf[p] = r}
Rows == {r \in Record : db[r] # "none"}
Remove(rows) ==
  /\ db' = [r \in Record |-> IF r \in rows THEN "none" ELSE db[r]]
  /\ removed' = removed \cup (rows \cap Rows)

\* The row r refers to is there.
HasParent(r) == IF r \in Signet THEN channel ELSE db[SignetOf[r]] # "none"

-----------------------------------------------------------------------------
(* Outside: users with other clients, and the channel (ChannelRegistry).   *)

\* The first good version of a record is called v1.
UserCommits(r, v) ==
  /\ r \notin Mine /\ Len(log) < MaxLog
  /\ repo[r] # v /\ (v = "v2" => repo[r] = "v1")
  /\ Commit(CASE repo[r] = "none" -> "create" [] v = "none" -> "delete" [] OTHER -> "update", r, v)
  /\ UNCHANGED <<cur, channel, db, task, forwards, removed, history>>

DropChannel ==
  /\ channel
  /\ channel' = FALSE /\ missed' = TRUE
  /\ Remove(Record)
  /\ UNCHANGED <<repo, log, cur, task, forwards, helped>>

RestoreChannel ==
  /\ ~channel
  /\ channel' = TRUE
  /\ UNCHANGED <<repo, log, cur, db, task, forwards, removed, history>>

-----------------------------------------------------------------------------
(* Posting a record through this server.                                   *)

\* validateMessage has to find the signet; media may name any signet, and the
\* channel numbers its signets itself.  A record key is used once.
PostRecord(w, r) ==
  /\ task[w] = Idle /\ repo[r] = "none"
  /\ r \in Message => HasParent(r)
  /\ r \in Signet => r \in Mine
  /\ \A i \in 1..Len(log) : log[i].rec # r
  /\ \A v \in Worker : Doing(v, "create") => task[v].rec # r
  /\ Start(w, "create", r, "v1")
  /\ helped' = helped \cup {r}
  /\ UNCHANGED <<repo, log, cur, channel, db, forwards, removed, missed>>

\* CreateXCVRSignet, CreateXCVRMessage, CreateXCVRMedia.
CreateRecord(w) ==
  /\ Doing(w, "create")
  /\ repo[task[w].rec] = "none" /\ Len(log) < MaxLog
  /\ Commit("create", task[w].rec, "v1")
  /\ Start(w, "store", task[w].rec, "v1")
  /\ UNCHANGED <<cur, channel, db, forwards, removed, history>>

\* The repository refused the record.
CreateFails(w) ==
  /\ Doing(w, "create")
  /\ Finish(w)
  /\ UNCHANGED <<repo, log, cur, channel, db, forwards, removed, history>>

-----------------------------------------------------------------------------
(* The jetstream goroutine: one event at a time, each handled to its end.  *)

\* handleMessageUpdate goes on after a parse error, with a nil message.
NilMessage(e) == e.op = "update" /\ e.ver = "bad" /\ e.rec \in Message

\* Mutant: a deletion is taken for an unknown operation.
HandlerForgetsDeletes(e) ==
  IF e.ver = "bad" \/ e.op = "delete" THEN Idle
  ELSE [step |-> IF e.op = "create" THEN "store" ELSE "insert", rec |-> e.rec, ver |-> e.ver]

\* Mutant: an update of an unknown record is not worth storing.
HandlerForgetsUpdates(e) ==
  IF e.ver = "bad" \/ e.op = "update" \/ (e.op = "delete" /\ e.rec \in Image) THEN Idle
  ELSE [step |-> IF e.op = "create" THEN "store" ELSE "delete", rec |-> e.rec, ver |-> e.ver]

\* handleSignet, handleMessage, handleMedia.  A record that does not parse is
\* skipped; handleMediaDelete parses a record the event does not carry.
HandlerOf(e) ==
  IF e.ver = "bad" \/ (e.op = "delete" /\ e.rec \in Image) THEN Idle
  ELSE [step |-> CASE e.op = "create" -> "store"
                   [] e.op = "update" -> "insert"
                   [] e.op = "delete" -> "delete",
        rec  |-> e.rec, ver |-> e.ver]

Fetch ==
  /\ task["jetstream"] = Idle /\ cur < Len(log)
  /\ ~NilMessage(log[cur + 1])
  /\ cur' = cur + 1
  /\ task' = [task EXCEPT !["jetstream"] = HandlerOf(log[cur + 1])]
  /\ UNCHANGED <<repo, log, channel, db, forwards, removed, history>>

\* The events whose handling is over; the cursor goes a minute back, which is
\* before their end unless the connection or the process was away for longer.
Handled == IF task["jetstream"] = Idle THEN cur ELSE cur - 1
Resume ==
  /\ cur' \in 0..Len(log)
  /\ missed' = (missed \/ cur' > Handled)

\* consumeLoop: the connection broke or a handler returned an error.
Reconnect ==
  /\ task["jetstream"] = Idle
  /\ Resume
  /\ UNCHANGED <<repo, log, channel, db, task, forwards, removed, helped>>

\* The process crashed (a nil message is one reason) and was started again.
Restart ==
  /\ task' = [w \in Worker |-> Idle]
  /\ Resume
  /\ UNCHANGED <<repo, log, channel, db, forwards, removed, helped>>

-----------------------------------------------------------------------------
(* Steps of either kind of worker on the database.                         *)

\* A statement of the worker fails, and so does the handler or the request.  One
\* whose answer alone is lost is the step below, and a failure right after it.
Fail(w) ==
  /\ task[w] # Idle /\ task[w].step \notin {"create", "unsign"}
  /\ Finish(w) /\ missed' = TRUE
  /\ UNCHANGED <<repo, log, cur, channel, db, forwards, removed, helped>>

\* Mutant: broadcast whether or not this worker inserted the row.
StoreForwardsAlways(w) ==
  /\ Doing(w, "store")
  /\ LET r == task[w].rec
     IN  /\ HasParent(r)
         /\ db' = [db EXCEPT ![r] = IF @ = "none" THEN task[w].ver ELSE @]
         /\ Start(w, "forward", r, task[w].ver)
  /\ UNCHANGED <<repo, log, cur, channel, forwards, removed, history>>

\* StoreSignet, StoreMessage, StoreImage: ON CONFLICT DO NOTHING, and only the
\* worker whose row is new goes on to forward it.
Store(w) ==
  /\ Doing(w, "store")
  /\ LET r == task[w].rec
     IN  IF HasParent(r) /\ db[r] = "none"
         THEN db' = [db EXCEPT ![r] = task[w].ver] /\ Start(w, "forward", r, task[w].ver)
         ELSE Finish(w) /\ UNCHANGED db
  /\ UNCHANGED <<repo, log, cur, channel, forwards, removed, history>>

\* UpdateSignet, UpdateMessage, UpdateImage: plain INSERTs, so that a row that
\* is there already is an error; only a message goes on, to checkInterference.
Insert(w) ==
  /\ Doing(w, "insert")
  /\ LET r == task[w].rec
     IN  IF HasParent(r) /\ db[r] = "none"
         THEN /\ db' = [db EXCEPT ![r] = task[w].ver]
              /\ IF r \in Message THEN Start(w, "check", r, task[w].ver) ELSE Finish(w)
         ELSE Finish(w) /\ UNCHANGED db
  /\ UNCHANGED <<repo, log, cur, channel, forwards, removed, history>>

\* checkInterference: the author of one of my signets rewrote the message.
CheckInterference(w) ==
  /\ Doing(w, "check")
  /\ LET r == task[w].rec
     IN  IF HasParent(r) /\ SignetOf[r] \in Mine /\ r \in BySigner
         THEN Start(w, "unsign", SignetOf[r], "none")
         ELSE Finish(w)
  /\ UNCHANGED <<repo, log, cur, channel, db, forwards, removed, history>>

\* Mutant: the row goes although the repository refused.
UnsignAnyway(w) ==
  /\ Doing(w, "unsign")
  /\ LET s == task[w].rec
     IN  /\ \/ repo[s] # "none" /\ Commit("delete", s, "none")
            \/ UNCHANGED <<repo, log>>
         /\ Start(w, "delete", s, "none")
  /\ UNCHANGED <<cur, channel, db, forwards, removed, history>>

\* DeleteSignet: DeleteXCVRSignet from my repository, which fails if the record
\* is gone ("nothing to delete :3") or may not be removed now, ...
Unsign(w) ==
  /\ Doing(w, "unsign")
  /\ LET s == task[w].rec
     IN  \/ /\ repo[s] # "none" /\ Commit("delete", s, "none")
            /\ Start(w, "delete", s, "none")
         \/ Finish(w) /\ UNCHANGED <<repo, log>>
  /\ UNCHANGED <<cur, channel, db, forwards, removed, history>>

\* ... and DELETE from signets, messages or images, cascading.
Delete(w) ==
  /\ Doing(w, "delete")
  /\ Remove(Below(task[w].rec))
  /\ Finish(w)
  /\ UNCHANGED <<repo, log, cur, channel, forwards, history>>

\* forwardSignet, forwardMessage, forwardImage: broadcast to the channel of the
\* signet, unless that, the uriMap entry or the profile cannot be found.
Forward(w) ==
  /\ Doing(w, "forward")
  /\ LET r == task[w].rec
     IN  \/ /\ r \in Post => HasParent(r)
            /\ forwards' = [forwards EXCEPT ![r] = IF @ < 2 THEN @ + 1 ELSE @]
         \/ UNCHANGED forwards
  /\ Finish(w)
  /\ UNCHANGED <<repo, log, cur, channel, db, removed, history>>

Work(w) ==
  \/ CreateRecord(w) \/ CreateFails(w)
  \/ Store(w) \/ Insert(w) \/ CheckInterference(w) \/ Unsign(w) \/ Delete(w) \/ Forward(w)
  \/ Fail(w)

Next ==
  \/ \E r \in Record, v \in Version \cup {"none", "bad"} : UserCommits(r, v)
  \/ DropChannel \/ RestoreChannel
  \/ \E w \in Http, r \in Record : PostRecord(w, r)
  \/ \E w \in Worker : Work(w)
  \/ Fetch \/ Reconnect \/ Restart

Spec == Init /\ [][Next]_vars

-----------------------------------------------------------------------------
(* Properties.                                                             *)

\* A record is broadcast once, whether its request or its event came first and
\* however often the event is replayed, unless its row was removed since.
BroadcastOnce == \A r \in Record : forwards[r] > 1 => r \in removed

Quiet == cur = Len(log) /\ \A w \in Worker : task[w] = Idle

\* A write of a good record of r that is not undone later in the stream.
Written(r, i) ==
  /\ log[i].rec = r /\ log[i].ver \in Version
  /\ \A j \in i + 1..Len(log) : log[j].rec = r => log[j].op # "delete"

\* A record is in the database once the stream is handled to its end, if its
\* signet was written before it and not removed: no crash or replay loses it,
\* unless an event was skipped, a statement refused, or the channel gone.
CacheComplete ==
  Quiet /\ ~missed
    => /\ \A s \in Signet, i \in 1..Len(log) : Written(s, i) => db[s] # "none"
       /\ \A p \in Post, i, j \in 1..Len(log) :
            i < j /\ Written(SignetOf[p], i) /\ Written(p, j) => db[p] # "none"

\* A signet or message that was written with another client, and is gone from its
\* repository, is gone from the database once the stream is handled to its end.
CacheForgets ==
  Quiet /\ ~missed
    => \A r \in (Signet \cup Message) \ helped : repo[r] = "none" => db[r] = "none"

\* For the rest of the system the tables are a cache of the repositories.
Published ==
  {<<log[i].rec, log[i].ver>> : i \in {j \in 1..Len(log) : log[j].ver \in Version}}
Withdrawn ==
  UNION {Below(log[i].rec) : i \in {j \in 1..Len(log) : log[j].op = "delete"}}
Cache ==
  INSTANCE RecordCache WITH
    Key <- Record, None <- "none", published <- Published, withdrawn <- Withdrawn,
    base <- channel, cache <- db
ImplementsRecordCache == Cache!Spec

\* A row shows what its record said once, whatever workers, replays and crashes made
\* of it on the way, and goes only when the record, or the signet it names, was
\* deleted from its repository, or the channel from the table.
RowsHaveReasons == Cache!ChangesHaveReasons
=============================================================================
