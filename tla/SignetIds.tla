----------------------------- MODULE SignetIds -----------------------------
(***************************************************************************)
(* Where the message ids of one channel uri go on when its server does     *)
(* not.  Every channelModel of the uri (internal/model/channel.go) is a    *)
(* LIFE of the channel: one begins at each start of the process, with the  *)
(* largest message_id of the signets table as its lastID (model.Init), and *)
(* one whenever the channel is added (AddChannel), with lastID 1.  A life  *)
(* ends with the process, or when the channel is deleted; in that case the *)
(* participants still connected to its server go on writing, next to those *)
(* of the life that follows.                                               *)
(*                                                                         *)
(* A message is posted with the uri of its channel and the id of its init, *)
(* and is put under a signet that has both (db.QuerySignet): the ids must  *)
(* tell the inits of all lives apart.  Inits are known by their life and   *)
(* their id, and so are the signets posted for them.                       *)
(*                                                                         *)
(* ChannelServer tells how one life hands its counter from server to       *)
(* server; here a life has one counter.  The jetstream may be resumed at   *)
(* any earlier point, so any published signet can be handled at any time.  *)
(* Signets that other issuers publish are left out.                        *)
(***************************************************************************)
EXTENDS Naturals, FiniteSets

CONSTANTS
  MaxLife, \* bound on the number of lives
  MaxId,   \* largest message id (uint32)
  MaxInt,  \* largest value of column message_id (INTEGER, 32 bits signed)
  Worker   \* who adds and deletes the channel: jetstream, HTTP requests

ASSUME LifeAssumption == MaxLife \in Nat \ {0}
ASSUME MaxAssumption == MaxId \in Nat /\ MaxInt \in Nat

VARIABLES
  row,       \* does table channels hold the uri?
  table,     \* the signets of the channel in table signets
  lives,     \* how many lives there were
  first,     \* the first life of the running process
  object,    \* the life uriMap points to, 0 if none
  cur,       \* the last id each life gave out
  waiting,   \* inits in the event channels of a server
  creating,  \* inits in createSignet
  storing,   \* inits in storeSignet
  published, \* signets the repository of the instance has, or had
  task,      \* control of a worker
  start,     \* history: the lastID each life began with
  known      \* history: the signets it was computed from

channel == <<row, lives, first, object, task, start, known>>
inits == <<waiting, creating, storing>>
vars == <<channel, table, cur, inits, published>>

Life == 1..MaxLife
Signet == [life : Life, id : 1..MaxId]

\* The inits a life has numbered.
Given == {x \in Signet : x.life <= lives /\ start[x.life] < x.id /\ x.id <= cur[x.life]}

TypeOK ==
  /\ row \in BOOLEAN
  /\ lives \in Life /\ first \in 1..MaxLife + 1 /\ object \in Life \cup {0}
  /\ task \in [Worker -> {"idle", "add", "drop"}]
  /\ cur \in [Life -> Nat] /\ start \in [Life -> Nat]
  /\ known \in [Life -> SUBSET Signet]
  /\ waiting \subseteq Given /\ creating \subseteq Given /\ published \subseteq Given
  /\ storing \subseteq published /\ table \subseteq published

\* AddChannel for a channel that is new.
Init ==
  /\ row = TRUE /\ table = {}
  /\ lives = 1 /\ first = 1 /\ object = 1
  /\ start = [l \in Life |-> 1] /\ cur = start
  /\ known = [l \in Life |-> {}]
  /\ waiting = {} /\ creating = {} /\ storing = {} /\ published = {}
  /\ task = [w \in Worker |-> "idle"]

-----------------------------------------------------------------------------
(* The participants and the handleInitEvents goroutine of a life.          *)

\* Whether it still has a goroutine is for ChannelServer: its inits may be lost.
Running(l) == first <= l /\ l <= lives

\* An init gets the next id and is put into the event channel of its server.
Speak(l) ==
  /\ Running(l) /\ cur[l] < MaxId
  /\ cur' = [cur EXCEPT ![l] = @ + 1]
  /\ waiting' = waiting \cup {[life |-> l, id |-> cur[l] + 1]}
  /\ UNCHANGED <<channel, table, creating, storing, published>>

\* The event channel is full, or its server or its goroutine stops.
Lose(x) ==
  /\ x \in waiting /\ waiting' = waiting \ {x}
  /\ UNCHANGED <<channel, table, cur, creating, storing, published>>

\* handleInitEvents posts one signet at a time.
Receive(x) ==
  /\ x \in waiting /\ \A y \in creating \cup storing : y.life # x.life
  /\ waiting' = waiting \ {x} /\ creating' = creating \cup {x}
  /\ UNCHANGED <<channel, table, cur, storing, published>>

\* Mutant: nobody minds an error.
CreateSignetAndGoOn(x) ==
  /\ x \in creating /\ creating' = creating \ {x}
  /\ published' \in {published, published \cup {x}} /\ storing' = storing \cup {x}
  /\ UNCHANGED <<channel, table, cur, waiting>>

\* The record is created, or not; and the answer comes, or does not.
CreateSignet(x) ==
  /\ x \in creating /\ creating' = creating \ {x}
  /\ \/ published' = published \cup {x} /\ storing' = storing \cup {x}
     \/ published' \in {published, published \cup {x}} /\ UNCHANGED storing
  /\ UNCHANGED <<channel, table, cur, waiting>>

\* Two constraints on a row of table signets.
Fits(x) == row /\ x.id <= MaxInt

StoreSignet(x) ==
  /\ x \in storing /\ storing' = storing \ {x}
  /\ table' = IF Fits(x) THEN table \cup {x} ELSE table
  /\ UNCHANGED <<channel, cur, waiting, creating, published>>

\* The statement fails.
FailToStore(x) ==
  /\ x \in storing /\ storing' = storing \ {x}
  /\ UNCHANGED <<channel, table, cur, waiting, creating, published>>

\* handleSignetCreate, and handleSignetUpdate when there is no row yet.
AcceptSignet(x) ==
  /\ x \in published /\ Fits(x)
  /\ table' = table \cup {x}
  /\ UNCHANGED <<channel, cur, inits, published>>

\* handleSignetDelete; or the signet is not needed any more (checkInterference).
DeleteSignet(x) ==
  /\ x \in table /\ table' = table \ {x}
  /\ UNCHANGED <<channel, cur, inits, published>>

-----------------------------------------------------------------------------
(* The channel is deleted and added again.                                 *)

Goto(w, label) == task' = [task EXCEPT ![w] = label]

\* An error of a statement ends the work, even if it was carried out.
GotoOrFail(w, label) == Goto(w, label) \/ UNCHANGED task

\* Signets go with their channel: ON DELETE CASCADE.
DeleteRow(w) ==
  /\ task[w] = "idle"
  /\ row' = FALSE /\ table' = {}
  /\ GotoOrFail(w, "drop")
  /\ UNCHANGED <<lives, first, object, start, known, cur, inits, published>>

\* DeleteChannel: delete(m.uriMap, uri).
Drop(w) ==
  /\ task[w] = "drop"
  /\ object' = 0
  /\ Goto(w, "idle")
  /\ UNCHANGED <<row, lives, first, start, known, table, cur, inits, published>>

\* StoreChannel, or UpdateChannel of db: an insertion.
StoreRow(w) ==
  /\ task[w] = "idle" /\ ~row
  /\ row' = TRUE
  /\ GotoOrFail(w, "add")
  /\ UNCHANGED <<lives, first, object, start, known, table, cur, inits, published>>

\* A life begins after id n, for which signets S were looked at.
Begin(n, S) ==
  /\ lives < MaxLife
  /\ lives' = lives + 1 /\ object' = lives + 1
  /\ start' = [start EXCEPT ![lives + 1] = n]
  /\ cur' = [cur EXCEPT ![lives + 1] = n]
  /\ known' = [known EXCEPT ![lives + 1] = S]

\* AddChannel of the model, which refuses a uri that has an object.
Add(w) ==
  /\ task[w] = "add"
  /\ \/ object = 0 /\ Begin(1, {})
     \/ object # 0 /\ UNCHANGED <<lives, object, start, known, cur>>
  /\ Goto(w, "idle")
  /\ UNCHANGED <<row, first, table, inits, published>>

-----------------------------------------------------------------------------
\* Mutant: the signets are counted.
CountOfIds(n, S) == n = Cardinality(S)

\* COALESCE(MAX(message_id), 0).
MaxOfIds(n, S) ==
  /\ \A x \in S : x.id <= n
  /\ n = 0 \/ \E x \in S : x.id = n

\* The process dies and starts again, with model.Init; the answer of GetChannelURIs
\* may break off before the row of the channel, which then has no object.
Restart ==
  /\ waiting' = {} /\ creating' = {} /\ storing' = {}
  /\ task' = [w \in Worker |-> "idle"]
  /\ first' = lives + 1
  /\ \/ row /\ \E n \in 0..MaxId : MaxOfIds(n, table) /\ Begin(n, table)
     \/ object' = 0 /\ UNCHANGED <<lives, start, known, cur>>
  /\ UNCHANGED <<row, table, published>>

Post(x) == Lose(x) \/ Receive(x) \/ CreateSignet(x) \/ StoreSignet(x) \/ FailToStore(x)

Jetstream(x) == AcceptSignet(x) \/ DeleteSignet(x)

Work(w) == DeleteRow(w) \/ Drop(w) \/ StoreRow(w) \/ Add(w)

Next ==
  \/ \E l \in Life : Speak(l)
  \/ \E x \in Signet : Post(x) \/ Jetstream(x)
  \/ \E w \in Worker : Work(w)
  \/ Restart

Spec == Init /\ [][Next]_vars

-----------------------------------------------------------------------------
(* Properties.                                                             *)

\* Mutant: any signet of the channel will do.
QueryAnySignet(id) == table

\* db.QuerySignet: WHERE channel_uri = $1 AND message_id = $2, the first row.
QuerySignet(id) == {y \in table : y.id = id}

\* Ids go on across restarts: the inits of a life are numbered after every
\* signet that was in the table when the life began, so that the messages under
\* them are listed after the older ones.
IdsGoOn ==
  \A x \in Given : \A y \in known[x.life] : y.life < x.life /\ y.id < x.id

\* A message for the init x is put under the signet y of another init only if
\* the later of the two lives began without the earlier one's signet: because
\* that was lost with the process, came late, or is too large for the table, or
\* because the channel was added again.
WrongSignetOnlyAfterLoss ==
  \A x \in Given : \A y \in QuerySignet(x.id) :
    \/ y = x
    \/ y.life < x.life /\ y \notin known[x.life]
    \/ x.life < y.life /\ x \notin known[y.life]
=============================================================================
