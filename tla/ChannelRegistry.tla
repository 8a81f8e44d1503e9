-------------------------- MODULE ChannelRegistry --------------------------
(***************************************************************************)
(* Where the channels of an instance live: in the users' repositories (the *)
(* truth), in the channels table, and in uriMap, the map of channelModels  *)
(* that websocket requests look into.  Two kinds of workers keep the last  *)
(* two in step with the first: the one goroutine that handles jetstream    *)
(* events in order (atplistener/jetstream.go), and HTTP requests that post *)
(* and delete channels (recordmanager/channel.go).  Both write the table   *)
(* and the map in two steps with no lock around them, and the event of a   *)
(* channel posted here comes back over jetstream.  A restart reloads the   *)
(* map from the table and resumes the stream a minute back.                *)
(*                                                                         *)
(* ChannelServer tells what is behind one entry of uriMap; here an entry   *)
(* is there or not.  A panic of its cancel (ChannelServer!Cancel) and a    *)
(* concurrent write of the Go map, which Go detects and aborts on, are     *)
(* among the reasons of Crash.                                             *)
(***************************************************************************)
EXTENDS Naturals, Sequences

CONSTANTS
  Uri,       \* channel uris
  NoTopic,   \* those whose record has no topic
  Http,      \* HTTP requests that post or delete channels
  MaxLog     \* bound on the length of the stream

ASSUME TopicAssumption == NoTopic \subseteq Uri
ASSUME HttpAssumption == "jetstream" \notin Http
ASSUME LogAssumption == MaxLog \in Nat

VARIABLES
  repo,    \* the record at a uri: "none", "good" or "bad" (does not parse)
  log,     \* the jetstream: the commits of the channel collection
  cur,     \* how many of them were fetched
  db,      \* the uris in the channels table
  map,     \* the uris in uriMap
  task,    \* what each worker is about to do, and to which channel
  up,      \* the process runs
  apart,   \* history: the uris whose row and entry an error took apart since the start
  deleted, \* history: the uris somebody asked to delete
  helped,  \* history: did an HTTP request post or delete a channel?
  missed   \* history: was an event skipped, or a statement refused?

vars == <<repo, log, cur, db, map, task, up, apart, deleted, helped, missed>>

Worker == Http \cup {"jetstream"}
Idle == [step |-> "idle"]
Task == {Idle} \cup [step : {"store", "insert", "add", "model", "delRow", "delEntry"}, uri : Uri]
Event == [op : {"create", "update", "delete"}, uri : Uri, record : {"none", "good", "bad"}]

TypeOK ==
  /\ repo \in [Uri -> {"none", "good", "bad"}]
  /\ log \in Seq(Event)
  /\ cur \in 0..Len(log)
  /\ db \in SUBSET Uri
  /\ map \in SUBSET Uri
  /\ task \in [Worker -> Task]
  /\ up \in BOOLEAN /\ apart \in SUBSET Uri
  /\ deleted \in SUBSET Uri
  /\ helped \in BOOLEAN /\ missed \in BOOLEAN

Init ==
  /\ repo = [u \in Uri |-> "none"]
  /\ log = <<>> /\ cur = 0
  /\ db = {} /\ map = {}
  /\ task = [w \in Worker |-> Idle]
  /\ up = TRUE /\ apart = {}
  /\ deleted = {} /\ helped = FALSE /\ missed = FALSE

Doing(w, step) == up /\ task[w] # Idle /\ task[w].step = step
Start(w, step, u) == task' = [task EXCEPT ![w] = [step |-> step, uri |-> u]]
Finish(w) == task' = [task EXCEPT ![w] = Idle]

-----------------------------------------------------------------------------
(* The repositories: a commit changes a record and goes out on the stream. *)

Commit(op, u, record) ==
  /\ Len(log) < MaxLog
  /\ repo' = [repo EXCEPT ![u] = record]
  /\ log' = Append(log, [op |-> op, uri |-> u, record |-> record])
  /\ deleted' = IF op = "delete" THEN deleted \cup {u} ELSE deleted

\* A user writes or removes a channel record with some other client.
UserCommits(u, record) ==
  /\ repo[u] # "none" \/ record # "none"
  /\ Commit(IF repo[u] = "none" THEN "create" ELSE IF record = "none" THEN "delete" ELSE "update",
            u, record)
  /\ UNCHANGED <<cur, db, map, task, up, apart, helped, missed>>

-----------------------------------------------------------------------------
(* HTTP requests.                                                          *)

\* postchannelflow: CreateXCVRChannel made the record, storeChannel is next.
PostChannel(w, u) ==
  /\ up /\ task[w] = Idle /\ repo[u] = "none"
  /\ Commit("create", u, "good")
  /\ Start(w, "store", u)
  /\ helped' = TRUE
  /\ UNCHANGED <<cur, db, map, up, apart, missed>>

\* Deletion by the author: DeleteXCVRChannel, then AcceptChannelDelete.
DeleteMine(w, u) ==
  /\ up /\ task[w] = Idle /\ repo[u] # "none"
  /\ Commit("delete", u, "none")
  /\ Start(w, "delRow", u)
  /\ helped' = TRUE
  /\ UNCHANGED <<cur, db, map, up, apart, missed>>

\* Deletion by ADMIN_DID: the record stays in the repository.
DeleteAsAdmin(w, u) ==
  /\ up /\ task[w] = Idle
  /\ deleted' = deleted \cup {u}
  /\ Start(w, "delRow", u)
  /\ helped' = TRUE
  /\ UNCHANGED <<repo, log, cur, db, map, up, apart, missed>>

-----------------------------------------------------------------------------
(* The jetstream goroutine: one event at a time, each handled to its end.  *)

\* Mutant: only creations and deletions are handled.
HandlerForgetsUpdates(e) ==
  IF e.record = "bad" \/ e.op = "update" THEN Idle
  ELSE [step |-> IF e.op = "delete" THEN "delRow" ELSE "store", uri |-> e.uri]

\* Mutant: a record that does not parse is stored with what could be read.
HandlerTakesBad(e) ==
  [step |-> CASE e.op = "create" -> "store"
              [] e.op = "update" -> "insert"
              [] e.op = "delete" -> "delRow",
   uri  |-> e.uri]

\* handleChannel; a record that does not parse is logged and skipped.
HandlerOf(e) ==
  IF e.record = "bad" THEN Idle
  ELSE [step |-> CASE e.op = "create" -> "store"
                   [] e.op = "update" -> "insert"
                   [] e.op = "delete" -> "delRow",
        uri  |-> e.uri]

Fetch ==
  /\ up /\ task["jetstream"] = Idle /\ cur < Len(log)
  /\ cur' = cur + 1
  /\ task' = [task EXCEPT !["jetstream"] = HandlerOf(log[cur + 1])]
  /\ UNCHANGED <<repo, log, db, map, up, apart, deleted, helped, missed>>

\* The events whose handling is over.
Handled == IF task["jetstream"] = Idle THEN cur ELSE cur - 1

\* The cursor goes a minute back, which is before their end unless the
\* connection or the process was away for longer than that.
Resume ==
  /\ cur' \in 0..Len(log)
  /\ missed' = (missed \/ cur' > Handled)

\* consumeLoop: the connection broke or a handler returned an error.
Reconnect ==
  /\ up /\ task["jetstream"] = Idle
  /\ Resume
  /\ UNCHANGED <<repo, log, db, map, task, up, apart, deleted, helped>>

-----------------------------------------------------------------------------
(* Steps of either kind of worker on the table and on the map.             *)

\* The statement is refused, and the handler or the request fails.
Fail(w) == Finish(w) /\ missed' = TRUE /\ UNCHANGED <<db, apart>>

\* The statement is carried out, but Exec returns an error, since its answer is
\* lost: the handler or the request fails as well, and never comes to the map.
LoseAnswer(w, rows) ==
  /\ db' = rows /\ Finish(w)
  /\ apart' = apart \cup {task[w].uri}
  /\ UNCHANGED missed

\* A statement that inserts the row, where there is none; if it made the row the
\* worker goes on.
Inserts(w, next) ==
  LET u == task[w].uri
  IN  \/ u \notin db /\ db' = db \cup {u} /\ Start(w, next, u) /\ UNCHANGED <<apart, missed>>
      \/ u \notin db /\ LoseAnswer(w, db \cup {u})
      \/ u \in db /\ Finish(w) /\ UNCHANGED <<db, apart, missed>>
      \/ Fail(w)

\* StoreChannel: ON CONFLICT DO NOTHING, and only a new row goes on to the map.
Store(w) ==
  /\ Doing(w, "store") /\ Inserts(w, "add")
  /\ UNCHANGED <<repo, log, cur, map, up, deleted, helped>>

\* db.UpdateChannel is a plain INSERT: a row that is there is an error.
Insert(w) ==
  /\ Doing(w, "insert") /\ Inserts(w, "model")
  /\ UNCHANGED <<repo, log, cur, map, up, deleted, helped>>

\* AddChannel, which refuses a uri that has an entry, and UpdateChannel,
\* which adds an entry where there is none.
Add(w) ==
  /\ Doing(w, "add") \/ Doing(w, "model")
  /\ map' = map \cup {task[w].uri} /\ apart' = apart \ {task[w].uri}
  /\ Finish(w)
  /\ UNCHANGED <<repo, log, cur, db, up, deleted, helped, missed>>

DeleteRow(w) ==
  /\ Doing(w, "delRow")
  /\ \/ /\ db' = db \ {task[w].uri} /\ Start(w, "delEntry", task[w].uri)
        /\ UNCHANGED <<apart, missed>>
     \/ task[w].uri \in db /\ LoseAnswer(w, db \ {task[w].uri})
     \/ Fail(w)
  /\ UNCHANGED <<repo, log, cur, map, up, deleted, helped>>

\* Mutant: the entry stays and keeps serving the deleted channel.
DeleteEntryNot(w) ==
  /\ Doing(w, "delEntry")
  /\ Finish(w)
  /\ UNCHANGED <<repo, log, cur, db, map, up, apart, deleted, helped, missed>>

\* Model.DeleteChannel: delete(m.uriMap, uri).
DeleteEntry(w) ==
  /\ Doing(w, "delEntry")
  /\ map' = map \ {task[w].uri} /\ apart' = apart \ {task[w].uri}
  /\ Finish(w)
  /\ UNCHANGED <<repo, log, cur, db, up, deleted, helped, missed>>

-----------------------------------------------------------------------------
Crash ==
  /\ up
  /\ up' = FALSE
  /\ map' = {} /\ apart' = {}
  /\ cur' = Handled
  /\ task' = [w \in Worker |-> Idle]
  /\ UNCHANGED <<repo, log, db, deleted, helped, missed>>

\* GetChannelURIs scans topic, which may be NULL, into a string.
Loadable(rows) == rows \cap NoTopic = {}

\* Mutant: the map starts empty.
RestartEmpty(rows) ==
  /\ ~up /\ Loadable(rows)
  /\ up' = TRUE /\ apart' = db \ rows
  /\ Resume
  /\ UNCHANGED <<repo, log, db, map, task, deleted, helped>>

\* main: model.Init panics if the channels cannot be loaded.  rows.Err() is not
\* asked, so that the rows before an answer broke off are taken for all.
Restart(rows) ==
  /\ ~up /\ Loadable(rows)
  /\ up' = TRUE
  /\ map' = rows /\ apart' = db \ rows
  /\ Resume
  /\ UNCHANGED <<repo, log, db, task, deleted, helped>>

Work(w) ==
  Store(w) \/ Insert(w) \/ Add(w) \/ DeleteRow(w) \/ DeleteEntry(w)

Next ==
  \/ \E u \in Uri, record \in {"none", "good", "bad"} : UserCommits(u, record)
  \/ \E w \in Http, u \in Uri : PostChannel(w, u) \/ DeleteMine(w, u) \/ DeleteAsAdmin(w, u)
  \/ \E w \in Worker : Work(w)
  \/ Fetch \/ Reconnect \/ Crash
  \/ \E rows \in SUBSET db : Restart(rows)

Spec == Init /\ [][Next]_vars

\* Whoever runs the instance starts the process again when it is down, and no
\* answer of the database has to break off.
FairSpec == Spec /\ WF_vars(Restart(db))

-----------------------------------------------------------------------------
(* Properties.                                                             *)

\* Between two events the map and the table agree on every channel, whatever was
\* lost, replayed, refused by the database or cut short by a crash, as long as
\* the jetstream goroutine is the only worker; except for a channel whose
\* statement was carried out with an error, or that the load at the start left
\* out, until the channel is added or deleted anew.
BoundaryAgreement ==
  up /\ ~helped /\ task["jetstream"] = Idle
    => \A u \in Uri \ apart : u \in map <=> u \in db

\* When the stream is handled to its end by the jetstream goroutine alone the
\* table holds every channel that has a good record and none that has no record,
\* whatever was replayed, unless an event was skipped or a statement refused.
FollowsRepo ==
  up /\ ~helped /\ ~missed /\ task["jetstream"] = Idle /\ cur = Len(log)
    => \A u \in Uri : /\ repo[u] = "good" => u \in db
                      /\ repo[u] = "none" => u \notin db

\* A stored channel nobody asked to delete is served, or about to be, except for one
\* whose insertion was carried out with an error, or that the load at the start
\* left out.
KeptIsServed ==
  up => \A u \in db \ (deleted \cup apart) :
          u \in map \/ \E w \in Worker : (Doing(w, "add") \/ Doing(w, "model")) /\ task[w].uri = u

\* For the rest of the system the table is a cache of the repositories: a row is
\* there for a record that was published, and goes when a deletion was asked for.
Published ==
  {<<log[i].uri, "good">> : i \in {j \in 1..Len(log) : log[j].record = "good"}}
Cache ==
  INSTANCE RecordCache WITH
    Key <- Uri, Version <- {"good"}, None <- "none", published <- Published,
    withdrawn <- deleted, base <- TRUE, cache <- [u \in Uri |-> IF u \in db THEN "good" ELSE "none"]
ImplementsRecordCache == Cache!Spec

\* Of the lexicon: topic is optional, so no channel can keep the server down.
ComesBackUp == ~up ~> up
=============================================================================
