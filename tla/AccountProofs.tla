---------------------------- MODULE AccountProofs ----------------------------
(* Theorems about the accounts: Sessions, who is logged in, for any number *)
(* of logins, requests and administrators, and Accounts, what is known of  *)
(* them, for any accounts, handles, records and requests.                  *)
EXTENDS Sessions, Accounts, TLAPS

\* Once a ban's sessions are deleted, a session that is in the table and was not
\* saved again belongs to a login that has yet to ask for bans, or gave up.
Barred == {"saved", "refused", "failed"}
OnlyBarred ==
  kicked /\ Banned => \A s \in rows \ revived : login[s] \in Barred

\* On the way from a deleted row to a deleted cookie the row stays deleted.
StaysDeleted ==
  /\ left \cap rows \subseteq revived \cup unread
  /\ \A r \in Request : req[r] \in {"without", "clear"} /\ of[r] \in rows
                          => of[r] \in revived \cup unread

Inv == TypeOK /\ OnlyBarred /\ left \cap cookie = {} /\ StaysDeleted

-----------------------------------------------------------------------------
\* The first state satisfies the invariant.
LEMMA InitInv == Init => Inv
BY DEF Init, Inv, TypeOK, OnlyBarred, StaysDeleted, Sentence

\* A step of a login keeps the invariant.
LEMMA LoginInv ==
  ASSUME Inv, NEW s \in Session, Login(s)
  PROVE  Inv'
<1> USE DEF Inv, history, LoginGoto, Barred
<1>0. UNCHANGED <<ban, req, of, admin, kicked, unread, left>>
  BY DEF Login
<1>1. CASE OauthCallback(s)
  <2> USE <1>0, <1>1 DEF OauthCallback, Fail
  <2>1. TypeOK' BY DEF TypeOK
  <2>2. OnlyBarred' BY DEF TypeOK, OnlyBarred, Banned
  <2>3. (left \cap cookie = {})' OBVIOUS
  <2>4. StaysDeleted' BY DEF TypeOK, StaysDeleted
  <2> QED BY <2>1, <2>2, <2>3, <2>4
<1>2. CASE CheckBan(s)
  <2> USE <1>0, <1>2 DEF CheckBan
  <2>1. TypeOK' BY DEF TypeOK
  <2>2. OnlyBarred' BY DEF TypeOK, OnlyBarred, Banned
  <2>3. (left \cap cookie = {})' OBVIOUS
  <2>4. StaysDeleted' BY DEF TypeOK, StaysDeleted
  <2> QED BY <2>1, <2>2, <2>3, <2>4
<1>3. CASE ResumeForProfile(s)
  <2> USE <1>0, <1>3 DEF ResumeForProfile
  <2>1. TypeOK' BY DEF TypeOK
  <2>2. OnlyBarred' BY DEF TypeOK, OnlyBarred, Banned
  <2>3. (left \cap cookie = {})' OBVIOUS
  <2>4. StaysDeleted' BY DEF TypeOK, StaysDeleted
  <2> QED BY <2>1, <2>2, <2>3, <2>4
<1>4. CASE CreateProfile(s)
  <2> USE <1>0, <1>4 DEF CreateProfile, Save, Fail
  <2>1. TypeOK' BY DEF TypeOK
  <2>2. OnlyBarred' BY DEF TypeOK, OnlyBarred, Banned
  <2>3. (left \cap cookie = {})' BY DEF TypeOK
  <2>4. StaysDeleted' BY DEF TypeOK, StaysDeleted
  <2> QED BY <2>1, <2>2, <2>3, <2>4
<1> QED BY <1>1, <1>2, <1>3, <1>4 DEF Login

\* A step of a request keeps the invariant.
LEMMA ServeInv ==
  ASSUME Inv, NEW r \in Request, Serve(r)
  PROVE  Inv'
<1> USE DEF Inv, history, ReqGoto, Barred
<1>0. UNCHANGED <<ban, login, admin, kicked>>
  BY DEF Serve
<1>1. ASSUME NEW s \in Session, Begin(r, s) PROVE Inv'
  <2> USE <1>0, <1>1 DEF Begin
  <2>1. TypeOK' BY DEF TypeOK
  <2>2. OnlyBarred' BY DEF TypeOK, OnlyBarred, Banned
  <2>3. (left \cap cookie = {})' OBVIOUS
  <2>4. StaysDeleted' BY DEF TypeOK, StaysDeleted
  <2> QED BY <2>1, <2>2, <2>3, <2>4
<1>2. CASE ResumeSession(r)
  <2> USE <1>0, <1>2 DEF ResumeSession
  <2>1. TypeOK' BY DEF TypeOK
  <2>2. OnlyBarred' BY DEF TypeOK, OnlyBarred, Banned
  <2>3. (left \cap cookie = {})' OBVIOUS
  <2>4. StaysDeleted' BY DEF TypeOK, StaysDeleted
  <2> QED BY <2>1, <2>2, <2>3, <2>4
<1>3. CASE Act(r)
  <2> USE <1>0, <1>3 DEF Act, Save
  <2>1. TypeOK' BY DEF TypeOK
  <2>2. OnlyBarred' BY DEF TypeOK, OnlyBarred, Banned
  <2>3. (left \cap cookie = {})' OBVIOUS
  <2>4. StaysDeleted' BY DEF TypeOK, StaysDeleted
  <2> QED BY <2>1, <2>2, <2>3, <2>4
<1>4. CASE DeleteSession(r)
  <2> USE <1>0, <1>4 DEF DeleteSession, Remove
  <2>1. TypeOK' BY DEF TypeOK
  <2>2. OnlyBarred' BY DEF TypeOK, OnlyBarred, Banned
  <2>3. (left \cap cookie = {})' OBVIOUS
  <2>4. StaysDeleted' BY DEF TypeOK, StaysDeleted
  <2> QED BY <2>1, <2>2, <2>3, <2>4
<1>5. CASE ClearCookie(r)
  <2> USE <1>0, <1>5 DEF ClearCookie
  <2>1. TypeOK' BY DEF TypeOK
  <2>2. OnlyBarred' BY DEF TypeOK, OnlyBarred, Banned
  <2>3. (left \cap cookie = {})' OBVIOUS
  <2>4. StaysDeleted' BY DEF TypeOK, StaysDeleted
  <2> QED BY <2>1, <2>2, <2>3, <2>4
<1> QED BY <1>1, <1>2, <1>3, <1>4, <1>5 DEF Serve

\* A step of postBan keeps the invariant: a new ban asks for a new kick, and the
\* kick leaves no row.
LEMMA PostBanInv ==
  ASSUME Inv, NEW a \in Admin, PostBan(a)
  PROVE  Inv'
<1> USE DEF Inv, history, AdminGoto, Barred
<1>0. UNCHANGED <<cookie, login, req, of, unread, left>>
  BY DEF PostBan
<1>1. CASE AddBan(a)
  <2> USE <1>0, <1>1 DEF AddBan
  <2>1. TypeOK' BY DEF TypeOK
  <2>2. OnlyBarred' BY DEF OnlyBarred
  <2>3. (left \cap cookie = {})' OBVIOUS
  <2>4. StaysDeleted' BY DEF StaysDeleted
  <2> QED BY <2>1, <2>2, <2>3, <2>4
<1>2. CASE GetBanned(a)
  <2> USE <1>0, <1>2 DEF GetBanned
  <2>1. TypeOK' BY DEF TypeOK
  <2>2. OnlyBarred' BY DEF OnlyBarred, Banned
  <2>3. (left \cap cookie = {})' OBVIOUS
  <2>4. StaysDeleted' BY DEF StaysDeleted
  <2> QED BY <2>1, <2>2, <2>3, <2>4
<1>3. CASE DeleteAllSessions(a)
  <2> USE <1>0, <1>3 DEF DeleteAllSessions, Remove
  <2>1. TypeOK' BY DEF TypeOK
  <2>2. OnlyBarred' BY DEF TypeOK, OnlyBarred, Banned
  <2>3. (left \cap cookie = {})' OBVIOUS
  <2>4. StaysDeleted' BY DEF StaysDeleted
  <2> QED BY <2>1, <2>2, <2>3, <2>4
<1> QED BY <1>1, <1>2, <1>3 DEF PostBan

\* Every step keeps the invariant.
LEMMA NextInv == Inv /\ [Next]_vars => Inv'
<1> SUFFICES ASSUME Inv, [Next]_vars PROVE Inv'
  OBVIOUS
<1>1. CASE TimePasses
  BY <1>1 DEF TimePasses, history, Inv, TypeOK, OnlyBarred, StaysDeleted, Banned, Sentence
<1>2. ASSUME NEW s \in Session, Expire(s) PROVE Inv'
  BY <1>2 DEF Expire, history, Inv, TypeOK, OnlyBarred, StaysDeleted, Banned
<1>3. CASE UNCHANGED vars
  BY <1>3 DEF vars, history, Inv, TypeOK, OnlyBarred, StaysDeleted, Banned
<1> QED BY <1>1, <1>2, <1>3, LoginInv, ServeInv, PostBanInv DEF Next

-----------------------------------------------------------------------------
\* The tables, the cookies and the handlers have their types, and only a login
\* that completed has a cookie.
THEOREM TypeCorrect == Spec => []TypeOK
<1>1. Inv => TypeOK BY DEF Inv
<1> QED BY InitInv, NextInv, <1>1, PTL DEF Spec

\* A banned and kicked account is logged in nowhere, whatever was under way when
\* it was banned, except with sessions that were saved again.
THEOREM BannedAreOut == Spec => []BannedIsOut
<1>1. Inv => BannedIsOut
  BY DEF Inv, TypeOK, OnlyBarred, BannedIsOut, Barred
<1> QED BY InitInv, NextInv, <1>1, PTL DEF Spec

\* Logging out works, whatever other requests do with the same session, except
\* that they may save it again.
THEOREM LogoutWorks == Spec => []LoggedOutIsGone
<1>1. Inv => LoggedOutIsGone
  BY DEF Inv, StaysDeleted, LoggedOutIsGone
<1> QED BY InitInv, NextInv, <1>1, PTL DEF Spec

-----------------------------------------------------------------------------
(* What is known of the accounts.                                          *)

\* A task that stores knows a handle the account had, a version of the profile
\* that comes with an event was in the repository, and a post stores no handle.
TasksAreTrue ==
  \A w \in Worker :
    /\ At(w, "store") => /\ task[w].handle \in had[task[w].did]
                         /\ task[w].for # "post"
                         /\ task[w].for = "profile" => task[w].record \in published[task[w].did]
    /\ At(w, "insert") => task[w].record \in published[task[w].did]

\* Whoever goes on to log in is known, or has an excuse.
Known(d) == HasRow(d) \/ d \in dropped
Excused(d) == Known(d) \/ d \in refused
LoginsAreKnown ==
  \A w \in Worker : task[w].step \in {"get", "create", "insert"} /\ task[w].for = "login"
                      => Excused(task[w].did)

\* A record that is in the repository was published.
RepoIsPublished == \A d \in Did : repo[d] \in published[d] \cup {Nil}

AccountInv ==
  /\ AccountTypeOK /\ TasksAreTrue /\ RowsWereTrue /\ LoginsAreKnown /\ MetIsKnown
  /\ RepoIsPublished /\ ProfileIsTheirs

\* A task that is not idle.
Busy == Task \ {Idle}

\* A step of a task is what tells it from none.
LEMMA TaskFields ==
  ASSUME NEW t \in Task, t.step # "idle"
  PROVE  /\ t \in Busy
         /\ t.step \in {"store", "get", "create", "insert"} /\ t.for \in Purpose
         /\ t.did \in Did /\ t.handle \in Handle \cup {Invalid} /\ t.record \in Version
BY DEF Task, Idle, Busy

\* A task that goes on keeps what it is for.
LEMMA TaskGoesOn ==
  ASSUME NEW t \in Task, t.step # "idle", NEW step \in {"get", "create", "insert"}
  PROVE  \E u \in Task :
           /\ u = [t EXCEPT !.step = step, !.handle = Invalid]
           /\ u.step = step /\ u.for = t.for /\ u.did = t.did /\ u.record = t.record
<1>1. t \in [step : {"store", "get", "create", "insert"}, for : Purpose, did : Did,
             handle : Handle \cup {Invalid}, record : Version]
  BY DEF Task, Idle
<1>2. PICK u : u = [t EXCEPT !.step = step, !.handle = Invalid]
  OBVIOUS
<1>3. u = [step |-> step, for |-> t.for, did |-> t.did, handle |-> Invalid, record |-> t.record]
  BY <1>1, <1>2
<1>4. u \in [step : {"store", "get", "create", "insert"}, for : Purpose, did : Did,
             handle : Handle \cup {Invalid}, record : Version]
  BY <1>1, <1>3
<1>5. u.step = step /\ u.for = t.for /\ u.did = t.did /\ u.record = t.record
  BY <1>3
<1> QED BY <1>2, <1>4, <1>5 DEF Task

\* What brings an account up.
LEMMA TasksBegin ==
  ASSUME AccountTypeOK, NEW w \in Worker, NEW d \in Did, NEW t \in Tasks(w, d)
  PROVE  /\ t \in Task /\ t.step = "store" /\ t.did = d
         /\ t.for \in {"event", "view", "profile", "login"}
         /\ t.for = "profile" => t.record \in published[d]
<1>1. published[d] \subseteq Version /\ Default \in Version
  BY VersionAssumption DEF AccountTypeOK
<1>2. CASE t \in [step : {"store"}, did : {d}, handle : {Invalid},
                  for : IF w = "jetstream" THEN {"event"} ELSE {"view"}, record : {Default}]
  <2>1. t \in [step : {"store"}, did : {d}, handle : {Invalid}, for : {"event", "view"},
               record : {Default}]
    BY <1>2
  <2>2. t \in Task
    BY <2>1, <1>1 DEF Task, Purpose
  <2> QED BY <2>1, <2>2
<1>3. CASE t \in [step : {"store"}, did : {d} \cap Writer, handle : {Invalid},
                  for : IF w = "jetstream" THEN {"profile"} ELSE {"login"},
                  record : IF w = "jetstream" THEN published[d] ELSE {Default}]
  <2>1. /\ t \in [step : {"store"}, did : {d}, handle : {Invalid}, for : {"profile", "login"},
                  record : Version]
        /\ t.for = "profile" => t.record \in published[d]
    BY <1>1, <1>3
  <2>2. t \in Task
    BY <2>1 DEF Task, Purpose
  <2> QED BY <2>1, <2>2
<1> QED BY <1>2, <1>3 DEF Tasks

\* The first state satisfies the invariant.
LEMMA AccountInitInv == AccountInit => AccountInv
<1> SUFFICES ASSUME AccountInit PROVE AccountInv
  OBVIOUS
<1>1. Idle \in Task /\ Idle.step = "idle"
  BY DEF Task, Idle
<1>2. AccountTypeOK
  BY <1>1 DEF AccountInit, AccountTypeOK
<1>3. \A w \in Worker : task[w].step = "idle"
  BY <1>1 DEF AccountInit
<1>4. TasksAreTrue /\ LoginsAreKnown
  BY <1>3 DEF TasksAreTrue, LoginsAreKnown, At
<1>5. RowsWereTrue /\ MetIsKnown /\ RepoIsPublished /\ ProfileIsTheirs
  BY DEF AccountInit, RowsWereTrue, MetIsKnown, RepoIsPublished, ProfileIsTheirs
<1> QED BY <1>2, <1>4, <1>5 DEF AccountInv

\* No row goes, no handle is forgotten that an account had, no version of a
\* record, no insertion that was dropped, and no login that went on without a row.
Grows ==
  /\ didHandles \subseteq didHandles'
  /\ dropped \subseteq dropped' /\ refused \subseteq refused'
  /\ \A d \in Did : had[d] \subseteq had'[d] /\ published[d] \subseteq published'[d]

\* Whoever is known stays known.
LEMMA KnownStays ==
  ASSUME Grows, NEW d \in Did
  PROVE  (HasRow(d) => HasRow(d)') /\ (Known(d) => Known(d)') /\ (Excused(d) => Excused(d)')
BY DEF Grows, HasRow, Known, Excused

\* A task of worker w becomes u, while what is known only grows: what is left to
\* show of the invariant.
LEMMA TaskStep ==
  ASSUME AccountInv, Grows, NEW w \in Worker, NEW u \in Task,
         task' = [task EXCEPT ![w] = u],
         u.step = "store" => /\ u.handle \in had'[u.did] /\ u.for # "post"
                             /\ u.for = "profile" => u.record \in published'[u.did],
         u.step = "insert" => u.record \in published'[u.did],
         u.step \in {"get", "create", "insert"} /\ u.for = "login" => Excused(u.did)'
  PROVE  task' \in [Worker -> Task] /\ TasksAreTrue' /\ LoginsAreKnown'
<1>1. task \in [Worker -> Task] /\ task'[w] = u /\ \A x \in Worker \ {w} : task'[x] = task[x]
  BY DEF AccountInv, AccountTypeOK
<1>2. task' \in [Worker -> Task]
  BY <1>1 DEF AccountInv, AccountTypeOK
<1>3. ASSUME NEW x \in Worker, x # w, task[x].step # "idle"
      PROVE  /\ task[x].did \in Did
             /\ had[task[x].did] \subseteq had'[task[x].did]
             /\ published[task[x].did] \subseteq published'[task[x].did]
  BY <1>1, <1>3, TaskFields DEF Grows
<1>4. TasksAreTrue'
  <2> SUFFICES ASSUME NEW x \in Worker
      PROVE  /\ task'[x].step = "store" =>
                  /\ task'[x].handle \in had'[task'[x].did] /\ task'[x].for # "post"
                  /\ task'[x].for = "profile" => task'[x].record \in published'[task'[x].did]
             /\ task'[x].step = "insert" => task'[x].record \in published'[task'[x].did]
    BY DEF TasksAreTrue, At
  <2>1. CASE x = w
    BY <1>1, <2>1
  <2>2. CASE x # w
    BY <1>1, <1>3, <2>2 DEF AccountInv, TasksAreTrue, At
  <2> QED BY <2>1, <2>2
<1>5. LoginsAreKnown'
  <2>1. ASSUME NEW x \in Worker, NEW d, d = task'[x].did,
               task'[x].step \in {"get", "create", "insert"}, task'[x].for = "login"
        PROVE  Excused(d)'
    <3>1. CASE x = w
      BY <1>1, <2>1, <3>1
    <3>2. CASE x # w
      <4>1. task[x].step # "idle" /\ d = task[x].did /\ Excused(d)
        BY <1>1, <2>1, <3>2 DEF AccountInv, LoginsAreKnown
      <4>2. d \in Did
        BY <1>3, <3>2, <4>1
      <4> QED BY <4>1, <4>2, KnownStays
    <3> QED BY <3>1, <3>2
  <2> QED BY <2>1 DEF LoginsAreKnown, Excused, Known, HasRow
<1> QED BY <1>2, <1>4, <1>5

\* No worker goes on.
LEMMA TasksStay ==
  ASSUME AccountInv, Grows, task' = task
  PROVE  TasksAreTrue' /\ LoginsAreKnown'
<1>1. PICK t : t = task["jetstream"]
  OBVIOUS
<1>2. "jetstream" \in Worker /\ t \in Task /\ task' = [task EXCEPT !["jetstream"] = t]
  BY <1>1 DEF Worker, AccountInv, AccountTypeOK
<1>3. ASSUME t.step # "idle"
      PROVE  t.did \in Did /\ had[t.did] \subseteq had'[t.did]
             /\ published[t.did] \subseteq published'[t.did]
  BY <1>2, <1>3, TaskFields DEF Grows
<1>4. /\ t.step = "store" => /\ t.handle \in had'[t.did] /\ t.for # "post"
                             /\ t.for = "profile" => t.record \in published'[t.did]
      /\ t.step = "insert" => t.record \in published'[t.did]
  BY <1>1, <1>2, <1>3 DEF AccountInv, TasksAreTrue, At
<1>5. t.step \in {"get", "create", "insert"} /\ t.for = "login" => Excused(t.did)'
  BY <1>1, <1>2, <1>3, KnownStays DEF AccountInv, LoginsAreKnown
<1> QED BY <1>2, <1>4, <1>5, TaskStep

\* A worker is done with its task.
LEMMA FinishStep ==
  ASSUME AccountInv, Grows, NEW w \in Worker, Finish(w)
  PROVE  task' \in [Worker -> Task] /\ TasksAreTrue' /\ LoginsAreKnown'
<1>1. Idle \in Task /\ Idle.step = "idle"
  BY DEF Task, Idle
<1>2. task' = [task EXCEPT ![w] = Idle]
  BY DEF Finish
<1> QED BY <1>1, <1>2, TaskStep

\* A task goes on.
LEMMA GotoStep ==
  ASSUME AccountInv, Grows, NEW w \in Worker, NEW t \in Task, t.step # "idle",
         NEW step \in {"get", "create", "insert"}, Goto(w, t, step),
         step = "insert" => t.record \in published'[t.did],
         t.for = "login" => Excused(t.did)'
  PROVE  task' \in [Worker -> Task] /\ TasksAreTrue' /\ LoginsAreKnown'
<1>1. PICK u \in Task :
        /\ u = [t EXCEPT !.step = step, !.handle = Invalid]
        /\ u.step = step /\ u.for = t.for /\ u.did = t.did /\ u.record = t.record
  BY TaskGoesOn, Zenon
<1>2. task' = [task EXCEPT ![w] = u]
  BY <1>1 DEF Goto
<1>3. u.for = "login" => Excused(u.did)'
  BY <1>1
<1> QED BY <1>1, <1>2, <1>3, TaskStep

\* The handler of a task goes on, once it is settled who the account is.
LEMMA ProceedStep ==
  ASSUME AccountInv, Grows, NEW w \in Worker, NEW t \in Task, t.step = "store",
         t.for \in {"event", "view", "profile", "login"}, Proceed(w, t),
         t.for = "profile" => t.record \in published'[t.did],
         t.for = "login" => Excused(t.did)'
  PROVE  /\ task' \in [Worker -> Task] /\ TasksAreTrue' /\ LoginsAreKnown'
         /\ met' = IF w = "jetstream" THEN met \cup {t.did} ELSE met
<1>1. CASE t.for = "profile"
  <2>1. Goto(w, t, "insert")
    BY <1>1 DEF Proceed
  <2> QED BY <1>1, <2>1, GotoStep DEF Proceed
<1>2. CASE t.for = "login"
  <2>1. Goto(w, t, "get")
    BY <1>2 DEF Proceed
  <2> QED BY <1>2, <2>1, GotoStep DEF Proceed
<1>3. CASE t.for \in {"event", "view"}
  <2>1. Finish(w)
    BY <1>3 DEF Proceed
  <2> QED BY <2>1, FinishStep DEF Proceed
<1> QED BY <1>1, <1>2, <1>3

\* Those of whom an event was handled, or who logged in, are still known, and so
\* are those that join them.
LEMMA MetStay ==
  ASSUME AccountInv, Grows, NEW M \in SUBSET Did, NEW L \in SUBSET Did,
         met' = met \cup M, loggedIn' = loggedIn \cup L,
         \A d \in M : Known(d)', \A d \in L : Excused(d)'
  PROVE  met' \subseteq Did /\ loggedIn' \subseteq Did /\ MetIsKnown'
<1>1. met \subseteq Did /\ loggedIn \subseteq Did
  BY DEF AccountInv, AccountTypeOK
<1>2. ASSUME NEW d \in met' PROVE Known(d)'
  BY <1>1, <1>2, KnownStays DEF AccountInv, MetIsKnown, Known
<1>3. ASSUME NEW d \in loggedIn' PROVE Excused(d)'
  BY <1>1, <1>3, KnownStays DEF AccountInv, MetIsKnown, Excused, Known
<1> QED BY <1>1, <1>2, <1>3 DEF MetIsKnown, Excused, Known

LEMMA MetStays ==
  ASSUME AccountInv, Grows, met' = met, loggedIn' = loggedIn
  PROVE  MetIsKnown'
BY MetStay, {} \in SUBSET Did

\* The tables stay true as more and more was the case.
LEMMA TablesStay ==
  ASSUME AccountInv, Grows
  PROVE  /\ UNCHANGED didHandles => RowsWereTrue'
         /\ UNCHANGED repo => RepoIsPublished'
         /\ UNCHANGED <<profile, loggedIn>> => ProfileIsTheirs'
<1>1. \A x \in didHandles : x.did \in Did
  BY DEF AccountInv, AccountTypeOK, Row
<1>2. UNCHANGED didHandles => RowsWereTrue'
  BY <1>1 DEF AccountInv, RowsWereTrue, Grows
<1>3. UNCHANGED repo => RepoIsPublished'
  BY DEF AccountInv, RepoIsPublished, Grows
<1>4. UNCHANGED <<profile, loggedIn>> => ProfileIsTheirs'
  BY DEF AccountInv, ProfileIsTheirs, Grows
<1> QED BY <1>2, <1>3, <1>4

\* An account changes its handle.
LEMMA RenameInv ==
  ASSUME AccountInv, NEW d \in Did, NEW h \in Handle \cup {Invalid}, Rename(d, h)
  PROVE  AccountInv'
<1>0. /\ handle' = [handle EXCEPT ![d] = h] /\ had' = [had EXCEPT ![d] = @ \cup {h}]
      /\ UNCHANGED <<didHandles, repo, profile, task, published, met, loggedIn, dropped, refused>>
  BY DEF Rename
<1>1. AccountTypeOK'
  BY <1>0 DEF AccountInv, AccountTypeOK
<1>2. Grows
  BY <1>0 DEF AccountInv, AccountTypeOK, Grows
<1>3. TasksAreTrue' /\ LoginsAreKnown'
  BY <1>0, <1>1, <1>2, TasksStay
<1>4. RowsWereTrue' /\ RepoIsPublished' /\ ProfileIsTheirs'
  BY <1>0, <1>2, TablesStay
<1>5. MetIsKnown'
  BY <1>0, <1>2, MetStays
<1> QED BY <1>1, <1>3, <1>4, <1>5 DEF AccountInv

\* What the publication of a record does to what was published.
LEMMA PublishGrows ==
  ASSUME AccountInv, NEW d \in Did, NEW v \in Version \cup {Nil}, Publish(d, v),
         UNCHANGED <<didHandles, dropped, refused, had>>
  PROVE  /\ repo' \in [Did -> Version \cup {Nil}] /\ published' \in [Did -> SUBSET Version]
         /\ Grows /\ RepoIsPublished' /\ (v # Nil => v \in published'[d])
<1>1. published' = [published EXCEPT ![d] = @ \cup ({v} \ {Nil})] /\ repo' = [repo EXCEPT ![d] = v]
  BY DEF Publish
<1>2. {v} \ {Nil} \subseteq Version
  OBVIOUS
<1>3. repo' \in [Did -> Version \cup {Nil}] /\ published' \in [Did -> SUBSET Version]
  BY <1>1, <1>2 DEF AccountInv, AccountTypeOK
<1>4. Grows
  BY <1>1 DEF AccountInv, AccountTypeOK, Grows
<1>5. RepoIsPublished'
  BY <1>1 DEF AccountInv, AccountTypeOK, RepoIsPublished
<1> QED BY <1>1, <1>3, <1>4, <1>5 DEF AccountInv, AccountTypeOK

\* An account changes its record with another client.
LEMMA UserCommitsInv ==
  ASSUME AccountInv, NEW d \in Did, NEW v \in Version \cup {Nil}, UserCommits(d, v)
  PROVE  AccountInv'
<1>0. Publish(d, v) /\ UNCHANGED <<handle, didHandles, profile, task, had, met, loggedIn, dropped, refused>>
  BY DEF UserCommits
<1>1. /\ repo' \in [Did -> Version \cup {Nil}] /\ published' \in [Did -> SUBSET Version]
      /\ Grows /\ RepoIsPublished'
  BY <1>0, PublishGrows
<1>2. AccountTypeOK'
  BY <1>0, <1>1 DEF AccountInv, AccountTypeOK
<1>3. TasksAreTrue' /\ LoginsAreKnown'
  BY <1>0, <1>1, TasksStay
<1>4. RowsWereTrue' /\ ProfileIsTheirs'
  BY <1>0, <1>1, TablesStay
<1>5. MetIsKnown'
  BY <1>0, <1>1, MetStays
<1> QED BY <1>1, <1>2, <1>3, <1>4, <1>5 DEF AccountInv

\* A row is found, and the handler goes on.
LEMMA ResolveInv ==
  ASSUME AccountInv, NEW w \in Worker, NEW d \in Did, NEW t \in Tasks(w, d), Resolve(w, t)
  PROVE  AccountInv'
<1>0. /\ HasRow(t.did) /\ Proceed(w, t)
      /\ UNCHANGED <<handle, didHandles, repo, profile, had, published, loggedIn, dropped, refused>>
  BY DEF Resolve
<1>1. /\ t \in Task /\ t.step = "store" /\ t.did = d
      /\ t.for \in {"event", "view", "profile", "login"}
      /\ t.for = "profile" => t.record \in published[d]
  BY TasksBegin DEF AccountInv
<1>2. Grows
  BY <1>0 DEF Grows
<1>3. HasRow(d)' /\ Excused(d)'
  BY <1>0, <1>1, <1>2, KnownStays DEF Excused, Known
<1>4. /\ task' \in [Worker -> Task] /\ TasksAreTrue' /\ LoginsAreKnown'
      /\ met' = IF w = "jetstream" THEN met \cup {d} ELSE met
  BY <1>0, <1>1, <1>2, <1>3, ProceedStep
<1>5. met' \subseteq Did /\ MetIsKnown'
  <2>1. CASE w = "jetstream"
    <3>1. PICK e \in Did : e = d
      BY <1>2, <1>3
    <3>2. {e} \in SUBSET Did /\ {} \in SUBSET Did /\ met' = met \cup {e}
      BY <1>4, <2>1, <3>1
    <3>3. loggedIn' = loggedIn \cup {} /\ Known(e)'
      BY <1>0, <1>1, <1>2, <1>3, <3>1 DEF Known
    <3> QED BY <1>2, <3>2, <3>3, MetStay
  <2>2. CASE w # "jetstream"
    <3>1. met' = met /\ loggedIn' = loggedIn
      BY <1>0, <1>4, <2>2
    <3>2. met' \subseteq Did
      BY <3>1 DEF AccountInv, AccountTypeOK
    <3> QED BY <1>2, <3>1, <3>2, MetStays
  <2> QED BY <2>1, <2>2
<1>6. AccountTypeOK'
  BY <1>0, <1>4, <1>5 DEF AccountInv, AccountTypeOK
<1>7. RowsWereTrue' /\ RepoIsPublished' /\ ProfileIsTheirs'
  BY <1>0, <1>2, TablesStay
<1> QED BY <1>4, <1>5, <1>6, <1>7 DEF AccountInv

\* The directory names a handle the account had.
LEMMA TryLookupInv ==
  ASSUME AccountInv, NEW w \in Worker, NEW d \in Did, NEW t \in Tasks(w, d), TryLookup(w, t)
  PROVE  AccountInv'
<1>0. UNCHANGED <<handle, didHandles, repo, profile, had, published, met, loggedIn, dropped, refused>>
  BY DEF TryLookup, past
<1>1. /\ t \in Task /\ t.step = "store" /\ t.did = d
      /\ t.for \in {"event", "view", "profile", "login"}
      /\ t.for = "profile" => t.record \in published[d]
  BY TasksBegin DEF AccountInv
<1>2. PICK h \in had[d] : task' = [task EXCEPT ![w] = [t EXCEPT !.handle = h]]
  BY <1>1 DEF TryLookup
<1>3. PICK u : u = [t EXCEPT !.handle = h]
  OBVIOUS
<1>4. /\ u \in Task /\ u.step = "store" /\ u.handle = h /\ u.did = d
      /\ u.for = t.for /\ u.record = t.record
  <2>1. h \in Handle \cup {Invalid}
    BY <1>2 DEF AccountInv, AccountTypeOK
  <2>2. t \in [step : {"store", "get", "create", "insert"}, for : Purpose, did : Did,
               handle : Handle \cup {Invalid}, record : Version]
    BY <1>1 DEF Task, Idle
  <2>3. u = [step |-> "store", for |-> t.for, did |-> d, handle |-> h, record |-> t.record]
    BY <1>1, <1>3, <2>2
  <2>4. u \in [step : {"store", "get", "create", "insert"}, for : Purpose, did : Did,
               handle : Handle \cup {Invalid}, record : Version]
    BY <2>1, <2>2, <2>3
  <2> QED BY <2>3, <2>4 DEF Task
<1>5. Grows
  BY <1>0 DEF Grows
<1>6. task' \in [Worker -> Task] /\ TasksAreTrue' /\ LoginsAreKnown'
  <2>1. u.handle \in had'[u.did] /\ u.for # "post"
        /\ (u.for = "profile" => u.record \in published'[u.did])
    BY <1>0, <1>1, <1>2, <1>4
  <2>2. task' = [task EXCEPT ![w] = u]
    BY <1>2, <1>3
  <2> QED BY <1>4, <1>5, <2>1, <2>2, TaskStep
<1>7. AccountTypeOK'
  BY <1>0, <1>6 DEF AccountInv, AccountTypeOK
<1>8. RowsWereTrue' /\ MetIsKnown' /\ RepoIsPublished' /\ ProfileIsTheirs'
  BY <1>0, <1>5, TablesStay, MetStays
<1> QED BY <1>6, <1>7, <1>8 DEF AccountInv

\* What is known of a task that stores.
LEMMA Storing ==
  ASSUME AccountInv, NEW w \in Worker, NEW t, t = task[w], t.step = "store"
  PROVE  /\ t \in Task /\ t.did \in Did /\ t.handle \in Handle \cup {Invalid}
         /\ t.for \in {"event", "view", "profile", "login"}
         /\ t.handle \in had[t.did]
         /\ t.for = "profile" => t.record \in published[t.did]
<1>1. t \in Task
  BY DEF AccountInv, AccountTypeOK
<1>2. t.did \in Did /\ t.handle \in Handle \cup {Invalid} /\ t.for \in Purpose
  BY <1>1, TaskFields
<1>3. /\ t.handle \in had[t.did] /\ t.for # "post"
      /\ t.for = "profile" => t.record \in published[t.did]
  BY DEF AccountInv, TasksAreTrue, At
<1> QED BY <1>1, <1>2, <1>3 DEF Purpose

\* What a worker stores keeps the rows true.
LEMMA RowStored ==
  ASSUME AccountInv, Grows, NEW x \in Row, x.handle \in had[x.did], ~Conflicts(x),
         didHandles' = With(x)
  PROVE  didHandles' \subseteq Row /\ RowsWereTrue'
<1>1. CASE HasHandle(x.handle)
  <2>1. didHandles' = didHandles
    BY <1>1 DEF With
  <2> QED BY <2>1, TablesStay DEF AccountInv, AccountTypeOK
<1>2. CASE ~HasHandle(x.handle)
  <2>1. /\ didHandles' = didHandles \cup {x}
        /\ \A y \in didHandles : y.did # x.did /\ y.handle # x.handle
    BY <1>2 DEF With, HasHandle, Conflicts, HasRow
  <2>2. x.did \in Did /\ \A y \in didHandles : y.did \in Did
    BY DEF AccountInv, AccountTypeOK, Row
  <2>3. \A y \in didHandles' : y.handle \in had'[y.did]
    BY <2>1, <2>2 DEF AccountInv, RowsWereTrue, Grows
  <2>4. \A y, z \in didHandles' : y.did = z.did \/ y.handle = z.handle => y = z
    BY <2>1 DEF AccountInv, RowsWereTrue
  <2>5. didHandles' \subseteq Row
    BY <2>1 DEF AccountInv, AccountTypeOK
  <2> QED BY <2>3, <2>4, <2>5 DEF RowsWereTrue
<1> QED BY <1>1, <1>2

\* A row is stored, or its insertion is dropped: then the account is known, or is
\* one of those whose handle had a row.  The rows are still true.
LEMMA StoreDidHandleInv ==
  ASSUME AccountInv, NEW w \in Worker, StoreDidHandle(w)
  PROVE  AccountInv'
<1>1. PICK t : t = task[w]
  OBVIOUS
<1>2. PICK x : x = [did |-> t.did, handle |-> t.handle]
  OBVIOUS
<1>0. /\ t.step = "store" /\ ~Conflicts(x) /\ Proceed(w, t)
      /\ didHandles' = With(x)
      /\ dropped' = IF HasHandle(x.handle) /\ ~HasRow(x.did) THEN dropped \cup {x.did} ELSE dropped
      /\ UNCHANGED <<handle, repo, profile, had, published, loggedIn, refused>>
  BY <1>1, <1>2 DEF StoreDidHandle, Found, At
<1>3. /\ t \in Task /\ t.did \in Did /\ t.handle \in Handle \cup {Invalid}
      /\ t.for \in {"event", "view", "profile", "login"}
      /\ t.handle \in had[t.did]
      /\ t.for = "profile" => t.record \in published[t.did]
  BY <1>0, <1>1, Storing
<1>4. x.did = t.did /\ x.handle = t.handle /\ x \in Row
  BY <1>2, <1>3 DEF Row
<1>5. Grows /\ dropped' \subseteq Did
  BY <1>0, <1>3, <1>4 DEF Grows, With, AccountInv, AccountTypeOK
<1>6. Known(t.did)'
  <2>1. CASE HasHandle(x.handle)
    BY <1>0, <1>4, <2>1 DEF Known, HasRow, With
  <2>2. CASE ~HasHandle(x.handle)
    BY <1>0, <1>4, <2>2 DEF Known, HasRow, With
  <2> QED BY <2>1, <2>2
<1>7. /\ task' \in [Worker -> Task] /\ TasksAreTrue' /\ LoginsAreKnown'
      /\ met' = IF w = "jetstream" THEN met \cup {t.did} ELSE met
  BY <1>0, <1>3, <1>5, <1>6, ProceedStep DEF Excused
<1>8. met' \subseteq Did /\ MetIsKnown'
  <2>1. CASE w = "jetstream"
    <3>1. PICK e \in Did : e = t.did
      BY <1>3, <1>5, <1>6
    <3>2. {e} \in SUBSET Did /\ {} \in SUBSET Did /\ met' = met \cup {e}
      BY <1>7, <2>1, <3>1
    <3>3. loggedIn' = loggedIn \cup {} /\ Known(e)'
      BY <1>0, <1>3, <1>5, <1>6, <3>1
    <3> QED BY <1>5, <3>2, <3>3, MetStay
  <2>2. CASE w # "jetstream"
    <3>1. met' = met /\ loggedIn' = loggedIn
      BY <1>0, <1>7, <2>2
    <3>2. met' \subseteq Did
      BY <3>1 DEF AccountInv, AccountTypeOK
    <3> QED BY <1>5, <3>1, <3>2, MetStays
  <2> QED BY <2>1, <2>2
<1>9. didHandles' \subseteq Row /\ RowsWereTrue'
  BY <1>0, <1>3, <1>4, <1>5, RowStored
<1>10. AccountTypeOK'
  BY <1>0, <1>5, <1>7, <1>8, <1>9 DEF AccountInv, AccountTypeOK
<1>11. RepoIsPublished' /\ ProfileIsTheirs'
  BY <1>0, <1>5, TablesStay
<1> QED BY <1>7, <1>8, <1>9, <1>10, <1>11 DEF AccountInv

\* It fails, stored or not: an event is over, a login goes on with an excuse.
LEMMA FailToStoreInv ==
  ASSUME AccountInv, NEW w \in Worker, FailToStore(w)
  PROVE  AccountInv'
<1>1. PICK t : t = task[w]
  OBVIOUS
<1>2. PICK x : x = [did |-> t.did, handle |-> t.handle]
  OBVIOUS
<1>0. /\ t.step = "store"
      /\ \/ UNCHANGED didHandles
         \/ ~Conflicts(x) /\ didHandles' = With(x)
      /\ IF w = "jetstream" THEN Finish(w) /\ UNCHANGED met ELSE Proceed(w, t)
      /\ refused' = IF t.for = "login" THEN refused \cup {t.did} ELSE refused
      /\ UNCHANGED <<handle, repo, profile, had, published, loggedIn, dropped>>
  BY <1>1, <1>2 DEF FailToStore, Found, At
<1>3. /\ t \in Task /\ t.did \in Did /\ t.handle \in Handle \cup {Invalid}
      /\ t.for \in {"event", "view", "profile", "login"}
      /\ t.handle \in had[t.did]
      /\ t.for = "profile" => t.record \in published[t.did]
  BY <1>0, <1>1, Storing
<1>4. x.did = t.did /\ x.handle = t.handle /\ x \in Row
  BY <1>2, <1>3 DEF Row
<1>5. Grows /\ refused' \subseteq Did
  BY <1>0, <1>3 DEF Grows, With, AccountInv, AccountTypeOK
<1>6. t.for = "login" => Excused(t.did)'
  BY <1>0 DEF Excused
<1>7. task' \in [Worker -> Task] /\ TasksAreTrue' /\ LoginsAreKnown' /\ met' = met
  <2>1. CASE w = "jetstream"
    BY <1>0, <1>5, <2>1, FinishStep
  <2>2. CASE w # "jetstream"
    BY <1>0, <1>3, <1>5, <1>6, <2>2, ProceedStep
  <2> QED BY <2>1, <2>2
<1>8. didHandles' \subseteq Row /\ RowsWereTrue'
  <2>1. CASE UNCHANGED didHandles
    BY <1>5, <2>1, TablesStay DEF AccountInv, AccountTypeOK
  <2>2. CASE ~Conflicts(x) /\ didHandles' = With(x)
    BY <1>3, <1>4, <1>5, <2>2, RowStored
  <2> QED BY <1>0, <2>1, <2>2
<1>9. AccountTypeOK'
  BY <1>0, <1>5, <1>7, <1>8 DEF AccountInv, AccountTypeOK
<1>10. MetIsKnown' /\ RepoIsPublished' /\ ProfileIsTheirs'
  BY <1>0, <1>5, <1>7, TablesStay, MetStays
<1> QED BY <1>7, <1>8, <1>9, <1>10 DEF AccountInv

\* A profile is posted.
LEMMA PostProfileInv ==
  ASSUME AccountInv, NEW w \in Worker, NEW d \in Did, NEW v \in Version, PostProfile(w, d, v)
  PROVE  AccountInv'
<1>0. UNCHANGED <<handle, didHandles, repo, profile, had, published, met, loggedIn, dropped, refused>>
  BY DEF PostProfile, past
<1>1. PICK u : u = [step |-> "get", for |-> "post", did |-> d, handle |-> Invalid, record |-> v]
  OBVIOUS
<1>2. u \in Task
  BY <1>1 DEF Task, Purpose
<1>3. Grows
  BY <1>0 DEF Grows
<1>4. task' \in [Worker -> Task] /\ TasksAreTrue' /\ LoginsAreKnown'
  <2>1. task' = [task EXCEPT ![w] = u] /\ u.step = "get" /\ u.for = "post"
    BY <1>1 DEF PostProfile
  <2> QED BY <1>2, <1>3, <2>1, TaskStep
<1>5. AccountTypeOK'
  BY <1>0, <1>4 DEF AccountInv, AccountTypeOK
<1>6. RowsWereTrue' /\ MetIsKnown' /\ RepoIsPublished' /\ ProfileIsTheirs'
  BY <1>0, <1>3, TablesStay, MetStays
<1> QED BY <1>4, <1>5, <1>6 DEF AccountInv

\* A record that is there was published; one that is not is to be created.
LEMMA GetRecordInv ==
  ASSUME AccountInv, NEW w \in Worker, GetRecord(w)
  PROVE  AccountInv'
<1>1. PICK t : t = task[w]
  OBVIOUS
<1>0. /\ t.step = "get"
      /\ UNCHANGED <<handle, didHandles, repo, profile, had, published, met, loggedIn, dropped, refused>>
  BY <1>1 DEF GetRecord, At, past
<1>2. t \in Task /\ t.did \in Did /\ t.for \in Purpose
  <2>1. t \in Task
    BY <1>1 DEF AccountInv, AccountTypeOK
  <2> QED BY <1>0, <2>1, TaskFields
<1>3. Grows
  BY <1>0 DEF Grows
<1>4. t.for = "login" => Excused(t.did)'
  BY <1>0, <1>1, <1>2, <1>3, KnownStays DEF AccountInv, LoginsAreKnown
<1>5. task' \in [Worker -> Task] /\ TasksAreTrue' /\ LoginsAreKnown'
  <2>1. CASE repo[t.did] # Nil /\ Goto(w, [t EXCEPT !.record = repo[t.did]], "insert")
    <3>1. PICK u : u = [t EXCEPT !.record = repo[t.did]]
      OBVIOUS
    <3>2. repo[t.did] \in published'[t.did] /\ repo[t.did] \in Version
      BY <1>0, <1>2, <2>1 DEF AccountInv, AccountTypeOK, RepoIsPublished
    <3>3. t \in [step : {"store", "get", "create", "insert"}, for : Purpose, did : Did,
                 handle : Handle \cup {Invalid}, record : Version]
      BY <1>0, <1>2 DEF Task, Idle
    <3>4. u = [step |-> "get", for |-> t.for, did |-> t.did, handle |-> t.handle,
               record |-> repo[t.did]]
      BY <1>0, <3>1, <3>3
    <3>5. u \in Task
      <4>1. u \in [step : {"store", "get", "create", "insert"}, for : Purpose, did : Did,
                   handle : Handle \cup {Invalid}, record : Version]
        BY <3>2, <3>3, <3>4
      <4> QED BY <4>1 DEF Task
    <3>6. u.step = "get" /\ u.record \in published'[u.did] /\ (u.for = "login" => Excused(u.did)')
      BY <1>4, <3>2, <3>4
    <3>7. Goto(w, u, "insert")
      BY <2>1, <3>1
    <3> QED BY <1>3, <3>5, <3>6, <3>7, GotoStep
  <2>2. CASE Goto(w, t, "create")
    BY <1>0, <1>2, <1>3, <1>4, <2>2, GotoStep
  <2> QED BY <1>1, <2>1, <2>2 DEF GetRecord
<1>6. AccountTypeOK'
  BY <1>0, <1>5 DEF AccountInv, AccountTypeOK
<1>7. RowsWereTrue' /\ MetIsKnown' /\ RepoIsPublished' /\ ProfileIsTheirs'
  BY <1>0, <1>3, TablesStay, MetStays
<1> QED BY <1>5, <1>6, <1>7 DEF AccountInv

\* The record is created, and published, or it is not.
LEMMA CreateRecordInv ==
  ASSUME AccountInv, NEW w \in Worker, CreateRecord(w)
  PROVE  AccountInv'
<1>1. PICK t : t = task[w]
  OBVIOUS
<1>0. /\ t.step = "create"
      /\ UNCHANGED <<handle, didHandles, profile, had, met, loggedIn, dropped, refused>>
      /\ \/ Publish(t.did, t.record) /\ (Goto(w, t, "insert") \/ Finish(w))
         \/ Finish(w) /\ UNCHANGED <<repo, published>>
  BY <1>1 DEF CreateRecord, At
<1>2. t \in Task /\ t.did \in Did /\ t.record \in Version /\ t.record # Nil
  <2>1. t \in Task
    BY <1>1 DEF AccountInv, AccountTypeOK
  <2> QED BY <1>0, <2>1, TaskFields, VersionAssumption
<1>3. CASE Publish(t.did, t.record) /\ (Goto(w, t, "insert") \/ Finish(w))
  <2>1. /\ repo' \in [Did -> Version \cup {Nil}] /\ published' \in [Did -> SUBSET Version]
        /\ Grows /\ RepoIsPublished' /\ t.record \in published'[t.did]
    BY <1>0, <1>2, <1>3, PublishGrows
  <2>2. t.for = "login" => Excused(t.did)'
    BY <1>0, <1>1, <1>2, <2>1, KnownStays DEF AccountInv, LoginsAreKnown
  <2>3. task' \in [Worker -> Task] /\ TasksAreTrue' /\ LoginsAreKnown'
    <3>1. CASE Goto(w, t, "insert")
      BY <1>0, <1>2, <2>1, <2>2, <3>1, GotoStep
    <3>2. CASE Finish(w)
      BY <2>1, <3>2, FinishStep
    <3> QED BY <1>3, <3>1, <3>2
  <2>4. AccountTypeOK'
    BY <1>0, <2>1, <2>3 DEF AccountInv, AccountTypeOK
  <2>5. RowsWereTrue' /\ MetIsKnown' /\ ProfileIsTheirs'
    BY <1>0, <2>1, TablesStay, MetStays
  <2> QED BY <2>1, <2>3, <2>4, <2>5 DEF AccountInv
<1>4. CASE Finish(w) /\ UNCHANGED <<repo, published>>
  <2>1. Grows
    BY <1>0, <1>4 DEF Grows
  <2>2. task' \in [Worker -> Task] /\ TasksAreTrue' /\ LoginsAreKnown'
    BY <1>4, <2>1, FinishStep
  <2>3. AccountTypeOK'
    BY <1>0, <1>4, <2>2 DEF AccountInv, AccountTypeOK
  <2>4. RowsWereTrue' /\ MetIsKnown' /\ RepoIsPublished' /\ ProfileIsTheirs'
    BY <1>0, <1>4, <2>1, TablesStay, MetStays
  <2> QED BY <2>2, <2>3, <2>4 DEF AccountInv
<1> QED BY <1>0, <1>3, <1>4

\* A row of a profile that is inserted, or stays, has a version of the record.
LEMMA RowInserted ==
  ASSUME AccountInv, Grows, NEW t, t.did \in Did, t.record \in published[t.did],
         t.record \in Version, InsertRow(t)
  PROVE  /\ profile' \in [Did -> Version \cup {Nil}]
         /\ \A d \in Did : profile'[d] \in published'[d] \cup {Nil}
         /\ \A d \in Did : profile[d] # Nil => profile'[d] # Nil
         /\ profile'[t.did] # Nil
<1>0. /\ profile \in [Did -> Version \cup {Nil}] /\ t.record # Nil
      /\ profile' = IF profile[t.did] = Nil THEN [profile EXCEPT ![t.did] = t.record] ELSE profile
  BY VersionAssumption DEF AccountInv, AccountTypeOK, InsertRow
<1>1. \A d \in Did : profile[d] \in published'[d] \cup {Nil}
  BY DEF AccountInv, ProfileIsTheirs, Grows
<1>2. t.record \in published'[t.did]
  BY DEF Grows
<1>3. profile' \in [Did -> Version \cup {Nil}] /\ profile'[t.did] # Nil
  BY <1>0
<1>4. \A d \in Did : profile'[d] \in published'[d] \cup {Nil}
  BY <1>0, <1>1, <1>2
<1>5. \A d \in Did : profile[d] # Nil => profile'[d] # Nil
  BY <1>0
<1> QED BY <1>3, <1>4, <1>5

\* The profile is stored, unless there is one, and with it a login is through.
LEMMA InsertInv ==
  ASSUME AccountInv, NEW w \in Worker, Insert(w)
  PROVE  AccountInv'
<1>1. PICK t : t = task[w]
  OBVIOUS
<1>0. /\ t.step = "insert" /\ Finish(w) /\ InsertRow(t)
      /\ loggedIn' = IF t.for = "login" THEN loggedIn \cup {t.did} ELSE loggedIn
      /\ UNCHANGED <<handle, didHandles, repo, had, published, met, dropped, refused>>
  BY <1>1 DEF Insert, At
<1>2. t \in Task /\ t.did \in Did /\ t.record \in published[t.did] /\ t.record \in Version
  <2>1. t \in Task
    BY <1>1 DEF AccountInv, AccountTypeOK
  <2> QED BY <1>0, <1>1, <2>1, TaskFields DEF AccountInv, TasksAreTrue, At
<1>3. Grows
  BY <1>0 DEF Grows
<1>4. task' \in [Worker -> Task] /\ TasksAreTrue' /\ LoginsAreKnown'
  BY <1>0, <1>3, FinishStep
<1>5. loggedIn' \subseteq Did /\ MetIsKnown'
  <2>1. CASE t.for = "login"
    <3>1. PICK e \in Did : e = t.did
      BY <1>2
    <3>2. {e} \in SUBSET Did /\ {} \in SUBSET Did /\ met' = met \cup {} /\ loggedIn' = loggedIn \cup {e}
      BY <1>0, <2>1, <3>1
    <3>3. Excused(e)'
      BY <1>0, <1>1, <1>3, <2>1, <3>1, KnownStays DEF AccountInv, LoginsAreKnown
    <3> QED BY <1>3, <3>2, <3>3, MetStay
  <2>2. CASE t.for # "login"
    <3>1. met' = met /\ loggedIn' = loggedIn
      BY <1>0, <2>2
    <3> QED BY <1>3, <3>1, MetStays DEF AccountInv, AccountTypeOK
  <2> QED BY <2>1, <2>2
<1>6. /\ profile' \in [Did -> Version \cup {Nil}]
      /\ \A d \in Did : profile'[d] \in published'[d] \cup {Nil}
      /\ \A d \in Did : profile[d] # Nil => profile'[d] # Nil
      /\ profile'[t.did] # Nil
  BY <1>0, <1>2, <1>3, RowInserted
<1>7. ProfileIsTheirs'
  <2>1. \A d \in loggedIn' : d = t.did \/ (d \in loggedIn /\ d \in Did)
    <3>1. loggedIn \subseteq Did
      BY DEF AccountInv, AccountTypeOK
    <3>2. loggedIn' \subseteq loggedIn \cup {t.did}
      BY <1>0
    <3> QED BY <3>1, <3>2
  <2>2. ASSUME NEW d \in loggedIn' PROVE profile'[d] # Nil
    <3>1. CASE d = t.did BY <1>6, <3>1
    <3>2. CASE d \in loggedIn /\ d \in Did
      BY <1>6, <3>2 DEF AccountInv, ProfileIsTheirs
    <3> QED BY <2>1, <3>1, <3>2
  <2>3. \A d \in loggedIn' : profile'[d] # Nil
    BY <2>2
  <2> QED BY <1>6, <2>3 DEF ProfileIsTheirs
<1>8. AccountTypeOK'
  BY <1>0, <1>4, <1>5, <1>6 DEF AccountInv, AccountTypeOK
<1>9. RowsWereTrue' /\ RepoIsPublished'
  BY <1>0, <1>3, TablesStay
<1> QED BY <1>4, <1>5, <1>7, <1>8, <1>9 DEF AccountInv

\* The statement fails, or its answer is lost.
LEMMA FailToInsertInv ==
  ASSUME AccountInv, NEW w \in Worker, FailToInsert(w)
  PROVE  AccountInv'
<1>1. PICK t : t = task[w]
  OBVIOUS
<1>0. /\ t.step = "insert" /\ Finish(w) /\ (UNCHANGED profile \/ InsertRow(t))
      /\ UNCHANGED <<handle, didHandles, repo, had, published, met, loggedIn, dropped, refused>>
  BY <1>1 DEF FailToInsert, past, At
<1>2. t.did \in Did /\ t.record \in published[t.did] /\ t.record \in Version
  <2>1. t \in Task
    BY <1>1 DEF AccountInv, AccountTypeOK
  <2> QED BY <1>0, <1>1, <2>1, TaskFields DEF AccountInv, TasksAreTrue, At
<1>3. Grows
  BY <1>0 DEF Grows
<1>4. task' \in [Worker -> Task] /\ TasksAreTrue' /\ LoginsAreKnown'
  BY <1>0, <1>3, FinishStep
<1>5. profile' \in [Did -> Version \cup {Nil}] /\ ProfileIsTheirs'
  <2>1. CASE UNCHANGED profile
    BY <1>0, <1>3, <2>1, TablesStay DEF AccountInv, AccountTypeOK
  <2>2. CASE InsertRow(t)
    <3>1. /\ profile' \in [Did -> Version \cup {Nil}]
          /\ \A d \in Did : profile'[d] \in published'[d] \cup {Nil}
          /\ \A d \in Did : profile[d] # Nil => profile'[d] # Nil
      BY <1>2, <1>3, <2>2, RowInserted
    <3>2. loggedIn' \subseteq Did /\ \A d \in loggedIn' : profile[d] # Nil
      BY <1>0 DEF AccountInv, AccountTypeOK, ProfileIsTheirs
    <3> QED BY <3>1, <3>2 DEF ProfileIsTheirs
  <2> QED BY <1>0, <2>1, <2>2
<1>6. AccountTypeOK'
  BY <1>0, <1>4, <1>5 DEF AccountInv, AccountTypeOK
<1>7. RowsWereTrue' /\ MetIsKnown' /\ RepoIsPublished'
  BY <1>0, <1>3, TablesStay, MetStays
<1> QED BY <1>4, <1>5, <1>6, <1>7 DEF AccountInv

\* Every step keeps the invariant.
LEMMA AccountNextInv == AccountInv /\ [AccountNext]_accountVars => AccountInv'
<1> SUFFICES ASSUME AccountInv, [AccountNext]_accountVars PROVE AccountInv'
  OBVIOUS
<1>1. ASSUME NEW w \in Worker, Work(w) PROVE AccountInv'
  <2>1. ASSUME NEW d \in Writer, NEW v \in Version, PostProfile(w, d, v) PROVE AccountInv'
    BY <2>1, WriterAssumption, PostProfileInv
  <2> QED BY <1>1, <2>1, ResolveInv, TryLookupInv, StoreDidHandleInv, FailToStoreInv,
             GetRecordInv, CreateRecordInv, InsertInv, FailToInsertInv DEF Work
<1>2. CASE UNCHANGED accountVars
  <2>1. UNCHANGED <<handle, didHandles, repo, profile, task, had, published, met, loggedIn, dropped, refused>>
    BY <1>2 DEF accountVars, past
  <2>2. Grows
    BY <2>1 DEF Grows
  <2>3. AccountTypeOK'
    BY <2>1 DEF AccountInv, AccountTypeOK
  <2> QED BY <2>1, <2>2, <2>3, TasksStay, TablesStay, MetStays DEF AccountInv
<1>3. ASSUME NEW d \in Writer, NEW v \in Version \cup {Nil}, UserCommits(d, v) PROVE AccountInv'
  BY <1>3, WriterAssumption, UserCommitsInv
<1> QED BY <1>1, <1>2, <1>3, RenameInv DEF AccountNext

-----------------------------------------------------------------------------
\* The accounts, the tables and the tasks have their types: in particular no task
\* stores the absence of a record as a profile.
THEOREM AccountTypeCorrect == AccountSpec => []AccountTypeOK
<1>1. AccountInv => AccountTypeOK BY DEF AccountInv
<1> QED BY AccountInitInv, AccountNextInv, <1>1, PTL DEF AccountSpec

\* For any number of accounts, handles and requests, whatever the directory
\* answers and accounts call themselves in between: a row of did_handles was true
\* once, and no did and no handle has two.
THEOREM HandlesWereTrue == AccountSpec => []RowsWereTrue
<1>1. AccountInv => RowsWereTrue BY DEF AccountInv
<1> QED BY AccountInitInv, AccountNextInv, <1>1, PTL DEF AccountSpec

\* Whoever had an event handled, or logged in, has a row, whatever other accounts
\* are called, except those whose own insertion was dropped, as the handle it came
\* with had a row of another did, and logins that went on after one that failed.
THEOREM TheMetAreKnown == AccountSpec => []MetIsKnown
<1>1. AccountInv => MetIsKnown BY DEF AccountInv
<1> QED BY AccountInitInv, AccountNextInv, <1>1, PTL DEF AccountSpec

\* A profile that is shown was a record of the account, and whoever is logged in
\* has one.
THEOREM ProfilesAreTheirs == AccountSpec => []ProfileIsTheirs
<1>1. AccountInv => ProfileIsTheirs BY DEF AccountInv
<1> QED BY AccountInitInv, AccountNextInv, <1>1, PTL DEF AccountSpec
=============================================================================
