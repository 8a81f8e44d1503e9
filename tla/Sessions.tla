------------------------------ MODULE Sessions ------------------------------
(***************************************************************************)
(* Who is logged in (handler/oauthHandlers.go, db/oauth.go, the bans of    *)
(* db/db.go): the rows of table sessions and of table bans of one account, *)
(* and the cookies of its browsers.  A login, a ban, a logout and any      *)
(* other request take several statements each and run concurrently; the    *)
(* sessions of other accounts are other rows that none of them touches.    *)
(*                                                                         *)
(* A session is logged in when a browser has its cookie and the table has  *)
(* its row: oauthMiddleware needs both.  The oauth library saves a resumed *)
(* session again, through Store.SaveSession, whenever its tokens change,   *)
(* and the row comes back if it was deleted in the meantime.               *)
(***************************************************************************)
EXTENDS Naturals

CONSTANTS
  Session,  \* session ids, one for each login
  Request,  \* requests, and the ones that follow them
  Admin     \* requests of the administrator to ban the account

VARIABLES
  rows,    \* table sessions
  ban,     \* table bans: its last row, which is the one that counts
  cookie,  \* sessions of which a browser has the cookie
  login,   \* control of oauthCallback
  req,     \* control of a request
  of,      \* the session of its cookie
  admin,   \* control of postBan
  kicked,  \* history: was the last ban followed by a kick?
  revived, \* history: sessions saved again since their row was last deleted
  unread,  \* history: sessions a request could not read, though in the table
  left     \* history: sessions that were logged out

history == <<revived, unread, left>>
vars == <<rows, ban, cookie, login, req, of, admin, kicked, history>>

Sentence == {"till", "forever", "over"}

TypeOK ==
  /\ rows \in SUBSET Session /\ cookie \in SUBSET Session
  /\ ban \in Sentence \cup {"none"}
  /\ login \in [Session -> {"no", "saved", "checked", "resumed", "in", "refused", "failed"}]
  /\ req \in [Request -> {"idle", "resume", "with", "without", "clear"}]
  /\ of \in [Request -> Session]
  /\ admin \in [Admin -> {"idle", "banned", "kick"}]
  /\ kicked \in BOOLEAN
  /\ revived \in SUBSET Session /\ unread \in SUBSET Session
  /\ left \in SUBSET Session
  /\ \A s \in rows \cup revived : login[s] # "no"
  /\ \A s \in cookie \cup left : login[s] = "in"
  /\ \A r \in Request : req[r] # "idle" => login[of[r]] = "in"

Init ==
  /\ rows = {} /\ cookie = {} /\ ban = "none"
  /\ login = [s \in Session |-> "no"]
  /\ req = [r \in Request |-> "idle"]
  /\ of \in [Request -> Session]
  /\ admin = [a \in Admin |-> "idle"]
  /\ kicked = FALSE /\ revived = {} /\ unread = {} /\ left = {}

\* SaveSession: an upsert.
Save(s) ==
  /\ rows' = rows \cup {s}
  /\ revived' = IF s \in rows THEN revived ELSE revived \cup {s}

\* DELETE FROM sessions.
Remove(deleted) == rows' = rows \ deleted /\ revived' = revived \ deleted

-----------------------------------------------------------------------------
(* oauthCallback.                                                          *)

LoginGoto(s, label) == login' = [login EXCEPT ![s] = label]
Fail(s) == LoginGoto(s, "failed") /\ UNCHANGED <<rows, cookie, revived>>

\* OauthCallback: the library exchanges the code and saves the session, of which
\* the login may not hear.
OauthCallback(s) ==
  /\ login[s] = "no"
  /\ \/ rows' = rows \cup {s} /\ (LoginGoto(s, "saved") \/ LoginGoto(s, "failed"))
     \/ Fail(s)
  /\ UNCHANGED <<cookie, revived>>

\* IsBanned: the ban with the highest id counts, until its time is over.
Banned == ban \in {"till", "forever"}

\* Mutant: nobody asks.
CheckBanNot(s) ==
  /\ login[s] = "saved" /\ LoginGoto(s, "checked")
  /\ UNCHANGED <<rows, cookie, revived>>

CheckBan(s) ==
  /\ login[s] = "saved"
  /\ \/ Banned /\ LoginGoto(s, "refused")
     \/ ~Banned /\ LoginGoto(s, "checked")
     \/ LoginGoto(s, "failed")
  /\ UNCHANGED <<rows, cookie, revived>>

\* CreateInitialProfile: the session is resumed, for which it must still be in
\* the table, and the profile is looked up and created with it.
ResumeForProfile(s) ==
  /\ login[s] = "checked"
  /\ \/ s \in rows /\ LoginGoto(s, "resumed")
     \/ LoginGoto(s, "failed")
  /\ UNCHANGED <<rows, cookie, revived>>

\* The tokens may change on the way; afterwards the cookie is set.
CreateProfile(s) ==
  /\ login[s] = "resumed"
  /\ \/ Save(s) /\ UNCHANGED <<login, cookie>>
     \/ LoginGoto(s, "in") /\ cookie' = cookie \cup {s} /\ UNCHANGED <<rows, revived>>
     \/ Fail(s)

Login(s) ==
  /\ OauthCallback(s) \/ CheckBan(s) \/ ResumeForProfile(s) \/ CreateProfile(s)
  /\ UNCHANGED <<ban, req, of, admin, kicked, unread, left>>

-----------------------------------------------------------------------------
(* oauthMiddleware, and the handlers behind it.                            *)

ReqGoto(r, label) == req' = [req EXCEPT ![r] = label]

Begin(r, s) ==
  /\ req[r] = "idle" /\ s \in cookie
  /\ of' = [of EXCEPT ![r] = s]
  /\ ReqGoto(r, "resume")
  /\ UNCHANGED <<rows, cookie, history>>

\* GetSession by did and session id; the handler gets no session if there is no
\* row, or it cannot be read.
ResumeSession(r) ==
  /\ req[r] = "resume"
  /\ \/ of[r] \in rows /\ ReqGoto(r, "with") /\ UNCHANGED unread
     \/ ReqGoto(r, "without") /\ unread' = unread \cup ({of[r]} \cap rows)
  /\ UNCHANGED <<rows, cookie, of, revived, left>>

\* A handler uses its session, which may change its tokens, and is done.
Act(r) ==
  /\ \/ req[r] = "with" /\ Save(of[r]) /\ UNCHANGED req
     \/ req[r] \in {"with", "without"} /\ ReqGoto(r, "idle") /\ UNCHANGED <<rows, revived>>
  /\ UNCHANGED <<cookie, of, unread, left>>

\* Mutant: only the cookie is deleted.
DeleteSessionNot(r) ==
  /\ req[r] = "with" /\ ReqGoto(r, "clear")
  /\ UNCHANGED <<rows, cookie, of, history>>

\* oauthLogout deletes the row, if the request came with a session ...
DeleteSession(r) ==
  /\ \/ req[r] = "with" /\ Remove({of[r]}) /\ ReqGoto(r, "clear")
     \/ \* the statement fails, or its answer is lost
        req[r] = "with" /\ (Remove({of[r]}) \/ Remove({})) /\ ReqGoto(r, "idle")
     \/ req[r] = "without" /\ ReqGoto(r, "clear") /\ UNCHANGED <<rows, revived>>
  /\ UNCHANGED <<cookie, of, unread, left>>

\* ... and then the cookie.
ClearCookie(r) ==
  /\ req[r] = "clear"
  /\ cookie' = cookie \ {of[r]} /\ left' = left \cup {of[r]}
  /\ ReqGoto(r, "idle")
  /\ UNCHANGED <<rows, of, revived, unread>>

Serve(r) ==
  /\ (\E s \in Session : Begin(r, s)) \/ ResumeSession(r) \/ Act(r) \/ DeleteSession(r)
     \/ ClearCookie(r)
  /\ UNCHANGED <<ban, login, admin, kicked>>

-----------------------------------------------------------------------------
(* postBan.                                                                *)

AdminGoto(a, label) == admin' = [admin EXCEPT ![a] = label]

\* Any number of days, or none for good.
AddBan(a) ==
  /\ admin[a] = "idle"
  /\ ban' \in Sentence /\ kicked' = FALSE
  /\ AdminGoto(a, "banned")
  /\ UNCHANGED <<rows, revived>>

GetBanned(a) ==
  /\ admin[a] = "banned"
  /\ AdminGoto(a, "kick") \/ AdminGoto(a, "idle")
  /\ UNCHANGED <<rows, revived, ban, kicked>>

\* The request ends here, whether or not it hears of the deletion.
DeleteAllSessions(a) ==
  /\ admin[a] = "kick"
  /\ \/ Remove(Session) /\ kicked' = TRUE
     \/ UNCHANGED <<rows, revived, kicked>>
  /\ AdminGoto(a, "idle")
  /\ UNCHANGED ban

PostBan(a) ==
  /\ AddBan(a) \/ GetBanned(a) \/ DeleteAllSessions(a)
  /\ UNCHANGED <<cookie, login, req, of, unread, left>>

-----------------------------------------------------------------------------
\* The time of a ban passes.
TimePasses ==
  /\ ban = "till" /\ ban' = "over"
  /\ UNCHANGED <<rows, cookie, login, req, of, admin, kicked, history>>

\* A browser drops a cookie after a week.
Expire(s) ==
  /\ s \in cookie /\ cookie' = cookie \ {s}
  /\ UNCHANGED <<rows, ban, login, req, of, admin, kicked, history>>

Next ==
  \/ \E s \in Session : Login(s) \/ Expire(s)
  \/ \E r \in Request : Serve(r)
  \/ \E a \in Admin : PostBan(a)
  \/ TimePasses

Spec == Init /\ [][Next]_vars

-----------------------------------------------------------------------------
(* Properties.                                                             *)

\* While a ban lasts whose request got as far as to kick the account, the
\* account is logged in nowhere: the ban stands before the sessions are deleted,
\* so that every login that was under way finds its row gone, or the ban there.
\* The exceptions are sessions that a request or a login saved again since their
\* row was deleted: what was saved again before the kick goes with it.
BannedIsOut ==
  kicked /\ Banned => rows \cap cookie \subseteq revived

\* A session that was logged out is gone from the browser, and from the table
\* as well unless it could not be read or another request saved it again since.
LoggedOutIsGone ==
  /\ left \cap cookie = {}
  /\ left \cap rows \subseteq revived \cup unread
=============================================================================
