--------------------------- MODULE PasswordClient ---------------------------
(***************************************************************************)
(* The one client through which the instance writes to its own repository  *)
(* (oauth/passwordclient.go): signets of every channel's goroutine,        *)
(* messages of PostMyMessage, deletions of checkInterference.  The calls   *)
(* run in goroutines of their own and share the two tokens and the         *)
(* Authorization header of c.xrpc without a lock; each of them answers an  *)
(* error of its first request by refreshing the session and asking again.  *)
(*                                                                         *)
(* A refresh token is used up by the refresh that it allows.  A token is   *)
(* named by the number of refreshes before it.  That Go may end the        *)
(* process when two goroutines write the header map at once is not a state *)
(* of the model: nothing survives it.                                      *)
(***************************************************************************)
EXTENDS Naturals

CONSTANTS
  Call,    \* calls of createMyRecord and deleteMyRecord
  Delete,  \* the ones that delete
  MaxGen   \* bound on the number of refreshes

ASSUME CallAssumption == Delete \subseteq Call
ASSUME GenAssumption == MaxGen \in Nat

VARIABLES
  accessjwt, refreshjwt, \* c.accessjwt, c.refreshjwt
  header,   \* Authorization of c.xrpc.Headers
  good,     \* repository: the access tokens it takes
  current,  \* repository: the refresh token it takes
  pc,       \* control of a call
  tok,      \* the token a call is about to put into the header
  got,      \* the token a refresh returned to a call
  done,     \* history: how often the repository carried a call out
  lost,     \* history: the calls an answer was lost to
  excused   \* history: the calls that overlapped another one, or were refused
            \* without reason

client == <<accessjwt, refreshjwt, header>>
repository == <<good, current, done>>
history == <<lost, excused>>
vars == <<client, repository, pc, tok, got, history>>

Gen == 0..MaxGen
Token == [kind : {"none", "access", "refresh"}, gen : Gen]
None == [kind |-> "none", gen |-> 0]
Access(g) == [kind |-> "access", gen |-> g]
Refresh(g) == [kind |-> "refresh", gen |-> g]

Over == {"ok", "failed"}
Storing == {"storeAccess", "storeRefresh"}
Renewed == Storing \cup {"again", "setAgain", "sendAgain"}

TypeOK ==
  /\ accessjwt \in Gen /\ refreshjwt \in Gen /\ current \in Gen
  /\ header \in Token
  /\ good \in SUBSET Gen
  /\ pc \in [Call -> {"idle", "set", "send", "renew", "setRenew", "sendRenew"} \cup Renewed
                       \cup Over]
  /\ tok \in [Call -> Token]
  /\ got \in [Call -> Gen]
  /\ done \in [Call -> 0..2]
  /\ lost \in SUBSET Call /\ excused \in SUBSET Call

\* main: NewPasswordClient and CreateSession.
Init ==
  /\ accessjwt = 0 /\ refreshjwt = 0 /\ current = 0
  /\ header = None
  /\ good = {0}
  /\ pc = [c \in Call |-> "idle"]
  /\ tok = [c \in Call |-> None]
  /\ got = [c \in Call |-> 0]
  /\ done = [c \in Call |-> 0]
  /\ lost = {} /\ excused = {}

Goto(c, label) == pc' = [pc EXCEPT ![c] = label]
Running == {c \in Call : pc[c] \notin Over \cup {"idle"}}

-----------------------------------------------------------------------------
(* createMyRecord and deleteMyRecord.                                      *)

\* The token is read ...
Read(c, from, token, to) ==
  /\ pc[c] = from
  /\ tok' = [tok EXCEPT ![c] = token]
  /\ excused' = IF Running \ {c} = {} THEN excused ELSE excused \cup Running \cup {c}
  /\ Goto(c, to)
  /\ UNCHANGED <<client, repository, got, lost>>

\* ... and put into the header that all calls share.
SetHeader(c, from, to) ==
  /\ pc[c] = from
  /\ header' = tok[c]
  /\ Goto(c, to)
  /\ UNCHANGED <<accessjwt, refreshjwt, repository, tok, got, history>>

\* Mutant: the header still holds the refresh token when the request is
\* repeated.
SetAccessOnce(c) ==
  \/ Read(c, "idle", Access(accessjwt), "set") \/ SetHeader(c, "set", "send")
  \/ Read(c, "again", Access(accessjwt), "sendAgain")

SetAccess(c) ==
  \/ Read(c, "idle", Access(accessjwt), "set") \/ SetHeader(c, "set", "send")
  \/ Read(c, "again", Access(accessjwt), "setAgain") \/ SetHeader(c, "setAgain", "sendAgain")

\* The repository carries out a request that has a good access token, as often
\* as it is asked to create, once if it is asked to delete.
Accepted == header.kind = "access" /\ header.gen \in good
CarryOut(c) == done' = [done EXCEPT ![c] = IF c \in Delete THEN 1 ELSE @ + 1]

\* An answer is lost; a request is refused, with or without reason.
Lose(c) == lost' = lost \cup {c} /\ UNCHANGED excused
Refuse(c, legal) ==
  /\ excused' = IF legal THEN excused \cup {c} ELSE excused
  /\ UNCHANGED lost

\* A request with outcome ok or err, as the call sees it.
Ask(c, ok, err) ==
  /\ \/ Accepted /\ CarryOut(c) /\ Goto(c, ok) /\ UNCHANGED history
     \/ Accepted /\ CarryOut(c) /\ Goto(c, err) /\ Lose(c)
     \/ Goto(c, err) /\ Refuse(c, Accepted) /\ UNCHANGED done
  /\ UNCHANGED <<client, good, current, tok, got>>

\* Mutant: the first request is repeated whatever its answer.
SendTwice(c) ==
  \/ pc[c] = "send" /\ Ask(c, "again", "renew")
  \/ pc[c] = "sendAgain" /\ Ask(c, "ok", "failed")

\* Mutant: the second error is answered like the first.
SendForever(c) ==
  pc[c] \in {"send", "sendAgain"} /\ Ask(c, "ok", "renew")

Send(c) ==
  \/ pc[c] = "send" /\ Ask(c, "ok", "renew")
  \/ pc[c] = "sendAgain" /\ Ask(c, "ok", "failed")

-----------------------------------------------------------------------------
(* RefreshSession.                                                         *)

SetRefresh(c) ==
  Read(c, "renew", Refresh(refreshjwt), "setRenew") \/ SetHeader(c, "setRenew", "sendRenew")

Renewable == header = Refresh(current) /\ current < MaxGen

SendRefresh(c) ==
  /\ pc[c] = "sendRenew"
  /\ \/ /\ Renewable
        /\ current' = current + 1 /\ good' = good \cup {current + 1}
        /\ \/ /\ got' = [got EXCEPT ![c] = current + 1] /\ Goto(c, "storeAccess")
              /\ UNCHANGED history
           \/ UNCHANGED got /\ Goto(c, "failed") /\ Lose(c)
     \/ Goto(c, "failed") /\ Refuse(c, Renewable) /\ UNCHANGED <<current, good, got>>
  /\ UNCHANGED <<client, done, tok>>

StoreAccess(c) ==
  /\ pc[c] = "storeAccess"
  /\ accessjwt' = got[c]
  /\ Goto(c, "storeRefresh")
  /\ UNCHANGED <<refreshjwt, header, repository, tok, got, history>>

\* Mutant: only the access token is kept.
StoreRefreshNot(c) ==
  /\ pc[c] = "storeRefresh"
  /\ Goto(c, "again")
  /\ UNCHANGED <<client, repository, tok, got, history>>

StoreRefresh(c) ==
  /\ pc[c] = "storeRefresh"
  /\ refreshjwt' = got[c]
  /\ Goto(c, "again")
  /\ UNCHANGED <<accessjwt, header, repository, tok, got, history>>

-----------------------------------------------------------------------------
\* Access tokens expire, though not during the call that fetched them.
Expire(g) ==
  /\ g \in good
  /\ \A c \in Call : pc[c] \in Renewed => got[c] # g
  /\ good' = good \ {g}
  /\ UNCHANGED <<client, current, done, pc, tok, got, history>>

Proceed(c) ==
  SetAccess(c) \/ Send(c) \/ SetRefresh(c) \/ SendRefresh(c) \/ StoreAccess(c) \/ StoreRefresh(c)

Next == (\E c \in Call : Proceed(c)) \/ \E g \in Gen : Expire(g)

Spec == Init /\ [][Next]_vars

-----------------------------------------------------------------------------
(* Properties.                                                             *)

\* The instance can renew its session for ever: however the calls race, the
\* refresh token it keeps is the one the repository takes, or the call that
\* was given that one is about to store it, unless an answer was lost.
CanRenew ==
  lost = {} => \/ refreshjwt = current
               \/ \E c \in Call : pc[c] \in Storing /\ got[c] = current

\* A call that reports success was carried out, whatever was lost on the way;
\* unless an answer to it was lost it was carried out once, and if it reports a
\* failure not at all.
ReportsTheTruth ==
  \A c \in Call : /\ pc[c] = "ok" => done[c] > 0
                  /\ c \notin lost /\ pc[c] = "ok" => done[c] = 1
                  /\ c \notin lost /\ pc[c] = "failed" => done[c] = 0

\* An expired token is no reason to fail: a call that had the client for itself
\* renews it and succeeds, unless the repository refuses or an answer is lost.
FailsOnlyInRace ==
  lost = {} /\ current < MaxGen => \A c \in Call : pc[c] = "failed" => c \in excused

\* To the rest of the instance a call is one step: it is carried out where it ends,
\* and neither before nor after, unless an answer to it was lost.
Calls == INSTANCE RepoCalls WITH
           answer <- [c \in Call |-> IF pc[c] \in Over THEN pc[c] ELSE "none"]
ImplementsRepoCalls == Calls!Spec
=============================================================================
