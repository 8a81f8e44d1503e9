------------------------------ MODULE Accounts ------------------------------
(***************************************************************************)
(* What the instance knows of the accounts it meets: table did_handles,    *)
(* the handle under which a did was first met (db/db.go, FullResolveDid,   *)
(* FullResolveHandle, StoreDidHandle; ensureIKnowYou of jetstream.go), and *)
(* table profiles, which follows the record org.xcvr.actor.profile/self in *)
(* the repository of the account (recordmanager/profile.go).  A login, a   *)
(* posted profile, an event of the jetstream and a request for a view take *)
(* several steps each and run concurrently, while accounts change their    *)
(* handles, and their records with other clients.                          *)
(*                                                                         *)
(* The identity directory is a cache (atputils/identity.go asks the        *)
(* default one), so it may answer with a handle an account had before.     *)
(* The jetstream may be resumed at any earlier point, so the commit of any *)
(* version of a profile can be handled at any time.  A row is never        *)
(* deleted: the statement of DeleteProfile names a column there is not.    *)
(***************************************************************************)
EXTENDS Naturals

CONSTANTS
  Did,     \* accounts
  Writer,  \* those that log in, and have a profile
  Handle,  \* the handles they may have
  Invalid, \* handle.invalid, the directory's answer for a did without a handle
  Version, \* contents of a profile record
  Default, \* the content a first login makes up
  Nil,     \* no record, no row
  Http     \* requests; the jetstream goroutine is one more worker

ASSUME WriterAssumption == Writer \subseteq Did
ASSUME InvalidAssumption == Invalid \notin Handle
ASSUME VersionAssumption == Default \in Version /\ Nil \notin Version
ASSUME HttpAssumption == "jetstream" \notin Http

VARIABLES
  handle,     \* the handle of each did
  didHandles, \* table did_handles
  repo,       \* the profile record of each account
  profile,    \* table profiles
  task,       \* what each worker does for an account
  had,        \* history: the handles the directory could name for a did
  published,  \* history: the versions of its record
  met,        \* history: accounts of which an event was handled
  loggedIn,   \* history: accounts that logged in
  dropped,    \* history: accounts without a row whose handle had one, of another did
  refused     \* history: accounts that went on to log in after a failing insertion

past == <<had, published, met, loggedIn, dropped, refused>>
accountVars == <<handle, didHandles, repo, profile, task, past>>

Row == [did : Did, handle : Handle \cup {Invalid}]
Worker == Http \cup {"jetstream"}

Purpose == {"profile", "event", "login", "post", "view"}
Idle == [step |-> "idle"]
Task == {Idle} \cup
        [step : {"store", "get", "create", "insert"}, for : Purpose, did : Did,
         handle : Handle \cup {Invalid}, record : Version]

AccountTypeOK ==
  /\ handle \in [Did -> Handle \cup {Invalid}]
  /\ didHandles \in SUBSET Row
  /\ repo \in [Did -> Version \cup {Nil}]
  /\ profile \in [Did -> Version \cup {Nil}]
  /\ task \in [Worker -> Task]
  /\ had \in [Did -> SUBSET (Handle \cup {Invalid})]
  /\ published \in [Did -> SUBSET Version]
  /\ {met, loggedIn, dropped, refused} \subseteq SUBSET Did

AccountInit ==
  /\ handle = [d \in Did |-> Invalid]
  /\ didHandles = {}
  /\ repo = [d \in Did |-> Nil] /\ profile = repo
  /\ task = [w \in Worker |-> Idle]
  /\ had = [d \in Did |-> {Invalid}]
  /\ published = [d \in Did |-> {}]
  /\ met = {} /\ loggedIn = {} /\ dropped = {} /\ refused = {}

At(w, step) == task[w].step = step
Finish(w) == task' = [task EXCEPT ![w] = Idle]

\* Task t goes on at a step; its handle is not needed any more.
Goto(w, t, step) == task' = [task EXCEPT ![w] = [t EXCEPT !.step = step, !.handle = Invalid]]

-----------------------------------------------------------------------------
(* The rest of the world.                                                  *)

\* No two accounts have a handle at the same time.
Rename(d, h) ==
  /\ h = Invalid \/ \A e \in Did : handle[e] # h
  /\ handle' = [handle EXCEPT ![d] = h]
  /\ had' = [had EXCEPT ![d] = @ \cup {h}]
  /\ UNCHANGED <<didHandles, repo, profile, task, published, met, loggedIn, dropped, refused>>

\* The record becomes v, on the stream as well.
Publish(d, v) ==
  /\ repo' = [repo EXCEPT ![d] = v]
  /\ published' = [published EXCEPT ![d] = @ \cup ({v} \ {Nil})]

\* With another client.
UserCommits(d, v) ==
  /\ Publish(d, v)
  /\ UNCHANGED <<handle, didHandles, profile, task, had, met, loggedIn, dropped, refused>>

-----------------------------------------------------------------------------
(* did_handles.                                                            *)

\* What brings an account up: an event of the jetstream, with a version of the
\* profile or with anything else; a login that got a session; a request for a
\* view, or an init in a channel, that names the did or a handle of it.
Tasks(w, d) ==
  [step : {"store"}, did : {d}, handle : {Invalid},
   for : IF w = "jetstream" THEN {"event"} ELSE {"view"}, record : {Default}]
  \cup
  [step : {"store"}, did : {d} \cap Writer, handle : {Invalid},
   for : IF w = "jetstream" THEN {"profile"} ELSE {"login"},
   record : IF w = "jetstream" THEN published[d] ELSE {Default}]

\* It is settled who the account is, and the handler of t goes on.
Proceed(w, t) ==
  /\ CASE t.for = "profile" -> Goto(w, t, "insert")
       [] t.for = "login" -> Goto(w, t, "get")
       [] t.for \in {"event", "view"} -> Finish(w)
  /\ met' = IF w = "jetstream" THEN met \cup {t.did} ELSE met

HasRow(d) == \E x \in didHandles : x.did = d

\* ResolveDid, or ResolveHandle, finds a row.
Resolve(w, t) ==
  /\ At(w, "idle") /\ HasRow(t.did)
  /\ Proceed(w, t)
  /\ UNCHANGED <<handle, didHandles, repo, profile, had, published, loggedIn, dropped, refused>>

\* There is none, or the query fails: TryLookupDid, or TryLookupHandle, which may
\* fail as well and end the task.
TryLookup(w, t) ==
  /\ At(w, "idle")
  /\ \E h \in had[t.did] : task' = [task EXCEPT ![w] = [t EXCEPT !.handle = h]]
  /\ UNCHANGED <<handle, didHandles, repo, profile, past>>

\* Mutant: only the handle is a key.
ConflictsNever(x) == FALSE

\* did is UNIQUE; ON CONFLICT is about the handle only.
Conflicts(x) == HasRow(x.did) /\ \A y \in didHandles : y.handle # x.handle

\* What a worker stores, and the table with it: a handle that is in it stays with
\* its did, and nobody is told.
Found(w) == [did |-> task[w].did, handle |-> task[w].handle]
HasHandle(h) == \E y \in didHandles : y.handle = h
With(x) == IF HasHandle(x.handle) THEN didHandles ELSE didHandles \cup {x}

\* StoreDidHandle.
StoreDidHandle(w) ==
  LET x == Found(w)
  IN  /\ At(w, "store") /\ ~Conflicts(x)
      /\ didHandles' = With(x)
      /\ dropped' = IF HasHandle(x.handle) /\ ~HasRow(x.did) THEN dropped \cup {x.did} ELSE dropped
      /\ Proceed(w, task[w])
      /\ UNCHANGED <<handle, repo, profile, had, published, loggedIn, refused>>

\* Mutant: nobody minds that it fails.
FailToStoreAndGoOn(w) ==
  /\ At(w, "store")
  /\ Proceed(w, task[w])
  /\ refused' = IF task[w].for = "login" THEN refused \cup {task[w].did} ELSE refused
  /\ UNCHANGED <<handle, didHandles, repo, profile, had, published, loggedIn, dropped>>

\* It fails, with a conflict or without, or only its answer is lost: only
\* ensureIKnowYou minds.
FailToStore(w) ==
  /\ At(w, "store")
  /\ \/ UNCHANGED didHandles
     \/ ~Conflicts(Found(w)) /\ didHandles' = With(Found(w))
  /\ IF w = "jetstream" THEN Finish(w) /\ UNCHANGED met ELSE Proceed(w, task[w])
  /\ refused' = IF task[w].for = "login" THEN refused \cup {task[w].did} ELSE refused
  /\ UNCHANGED <<handle, repo, profile, had, published, loggedIn, dropped>>

-----------------------------------------------------------------------------
(* profiles.                                                               *)

\* A posted profile.
PostProfile(w, d, v) ==
  /\ At(w, "idle") /\ w # "jetstream"
  /\ task' = [task EXCEPT ![w] = [step |-> "get", for |-> "post", did |-> d,
                                  handle |-> Invalid, record |-> v]]
  /\ UNCHANGED <<handle, didHandles, repo, profile, past>>

\* Mutant: the content that was to be written is taken for the record.
GetRecordForNothing(w) ==
  /\ At(w, "get")
  /\ Goto(w, task[w], IF repo[task[w].did] = Nil THEN "create" ELSE "insert")
  /\ UNCHANGED <<handle, didHandles, repo, profile, past>>

\* CreateXCVRProfile and UpdateXCVRProfile: a record that is there is taken as
\* it is; if there is none, or the call fails, one is created.
GetRecord(w) ==
  LET v == repo[task[w].did]
  IN  /\ At(w, "get")
      /\ \/ v # Nil /\ Goto(w, [task[w] EXCEPT !.record = v], "insert")
         \/ Goto(w, task[w], "create")
      /\ UNCHANGED <<handle, didHandles, repo, profile, past>>

\* createRecord fails if there is a record; its answer may get lost.
CreateRecord(w) ==
  LET d == task[w].did
  IN  /\ At(w, "create")
      /\ \/ repo[d] = Nil /\ Publish(d, task[w].record) /\ (Goto(w, task[w], "insert") \/ Finish(w))
         \/ Finish(w) /\ UNCHANGED <<repo, published>>
      /\ UNCHANGED <<handle, didHandles, profile, had, met, loggedIn, dropped, refused>>

\* InitializeProfile lets a row be, UpdateProfile fails if there is one: in
\* either case the first row stays.
InsertRow(t) ==
  profile' = IF profile[t.did] = Nil THEN [profile EXCEPT ![t.did] = t.record] ELSE profile

\* Then a login is through.
Insert(w) ==
  LET t == task[w]
  IN  /\ At(w, "insert") /\ InsertRow(t)
      /\ loggedIn' = IF t.for = "login" THEN loggedIn \cup {t.did} ELSE loggedIn
      /\ Finish(w)
      /\ UNCHANGED <<handle, didHandles, repo, had, published, met, dropped, refused>>

\* The statement fails, or only its answer is lost, and with it the login.
FailToInsert(w) ==
  /\ At(w, "insert") /\ (UNCHANGED profile \/ InsertRow(task[w]))
  /\ Finish(w)
  /\ UNCHANGED <<handle, didHandles, repo, past>>

-----------------------------------------------------------------------------
Work(w) ==
  \/ \E d \in Did : \E t \in Tasks(w, d) : Resolve(w, t) \/ TryLookup(w, t)
  \/ StoreDidHandle(w) \/ FailToStore(w)
  \/ \E d \in Writer, v \in Version : PostProfile(w, d, v)
  \/ GetRecord(w) \/ CreateRecord(w) \/ Insert(w) \/ FailToInsert(w)

AccountNext ==
  \/ \E d \in Did, h \in Handle \cup {Invalid} : Rename(d, h)
  \/ \E d \in Writer, v \in Version \cup {Nil} : UserCommits(d, v)
  \/ \E w \in Worker : Work(w)

AccountSpec == AccountInit /\ [][AccountNext]_accountVars

-----------------------------------------------------------------------------
(* Properties.                                                             *)

\* Every answer that comes from did_handles was one of the directory's once, and
\* a did and a handle have one answer each, in whatever order accounts change
\* their handles and lookups that began before store what they found.
RowsWereTrue ==
  /\ \A x \in didHandles : x.handle \in had[x.did]
  /\ \A x, y \in didHandles : x.did = y.did \/ x.handle = y.handle => x = y

\* An account is in did_handles, without which its channels and its profile are
\* not shown, once an event of it was handled or it logged in, unless the table
\* had the very handle it was to be stored with, of another did, or the login
\* went on after a failing insertion.
MetIsKnown ==
  /\ \A d \in met : HasRow(d) \/ d \in dropped
  /\ \A d \in loggedIn : HasRow(d) \/ d \in dropped \/ d \in refused

\* The profile that is shown of an account was its record once, and whoever is
\* logged in has one, whatever logins, posts, events and other clients did in
\* between.
ProfileIsTheirs ==
  /\ \A d \in Did : profile[d] \in published[d] \cup {Nil}
  /\ \A d \in loggedIn : profile[d] # Nil
=============================================================================
