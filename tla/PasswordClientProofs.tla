------------------------ MODULE PasswordClientProofs ------------------------
(* Theorems about PasswordClient, for every set of calls and every bound.  *)
EXTENDS PasswordClient, TLAPS

\* Before its first request nothing was carried out for a call, and before the
\* repeated one at most one request; a call ends in a success only when one was.
Fresh == {"idle", "set", "send"}
Carried ==
  \A c \in Call : /\ pc[c] \in Fresh => done[c] = 0
                  /\ pc[c] \notin Over => done[c] \in 0..1
                  /\ pc[c] = "ok" => done[c] > 0

\* What the repository did for a call is what the call reports, as long as no
\* answer to it was lost.
Truth ==
  \A c \in Call \ lost : /\ pc[c] = "ok" => done[c] = 1
                         /\ pc[c] # "ok" => done[c] = 0

\* No token older than the one the client keeps comes back: what is in the
\* header and in the hands of the calls is as old as it, or older ...
NoneAhead ==
  /\ refreshjwt <= current
  /\ header.kind = "refresh" => header.gen <= refreshjwt
  /\ \A c \in Call : tok[c].kind = "refresh" => tok[c].gen <= refreshjwt

\* ... and one call at a time has a newer one, which it is about to store.
OneRenewer ==
  /\ \A c \in Call : pc[c] \in Storing => got[c] = current /\ refreshjwt < current
  /\ \A c, d \in Call : pc[c] \in Storing /\ pc[d] \in Storing => c = d

Inv == TypeOK /\ Carried /\ Truth /\ NoneAhead /\ OneRenewer /\ CanRenew

Labels == {"idle", "set", "send", "renew", "setRenew", "sendRenew"} \cup Renewed \cup Over

-----------------------------------------------------------------------------
\* The first state satisfies the invariant.
LEMMA InitInv == Init => Inv
BY GenAssumption
   DEF Init, Inv, TypeOK, Carried, Truth, NoneAhead, OneRenewer, CanRenew, Gen, Token, None, Fresh,
       Over, Storing, Renewed

\* Reading a token into a call's hands keeps the invariant, when a refresh token
\* so read is the one the client keeps.
LEMMA ReadInv ==
  ASSUME Inv, NEW c \in Call, NEW from \in Labels \ (Over \cup Storing),
         NEW to \in Labels \ (Over \cup Storing), NEW token \in Token,
         to \in Fresh => from \in Fresh,
         token.kind = "refresh" => token.gen <= refreshjwt,
         Read(c, from, token, to)
  PROVE  Inv'
<1> USE DEF Inv, Read, client, repository, history, Goto, Over, Storing, Labels, Fresh
<1>1. TypeOK' BY DEF TypeOK, Running, Renewed
<1>2. pc' = [pc EXCEPT ![c] = to] /\ pc[c] = from /\ tok' = [tok EXCEPT ![c] = token]
  OBVIOUS
<1>3. Carried' BY <1>2 DEF TypeOK, Carried
<1>4. Truth' BY <1>2 DEF TypeOK, Truth
<1>5. NoneAhead' BY <1>2 DEF TypeOK, NoneAhead
<1>6. OneRenewer' BY <1>2 DEF TypeOK, OneRenewer
<1>7. CanRenew' BY <1>2 DEF TypeOK, CanRenew
<1> QED BY <1>1, <1>3, <1>4, <1>5, <1>6, <1>7

\* Putting it into the header keeps the invariant.
LEMMA SetHeaderInv ==
  ASSUME Inv, NEW c \in Call, NEW from \in Labels \ (Over \cup Storing),
         NEW to \in Labels \ (Over \cup Storing), to \in Fresh => from \in Fresh,
         SetHeader(c, from, to)
  PROVE  Inv'
<1> USE DEF Inv, SetHeader, repository, history, Goto, Over, Storing, Labels, Fresh
<1>1. TypeOK' BY DEF TypeOK, Renewed
<1>2. pc' = [pc EXCEPT ![c] = to] /\ pc[c] = from /\ header' = tok[c]
  OBVIOUS
<1>3. Carried' BY <1>2 DEF TypeOK, Carried
<1>4. Truth' BY <1>2 DEF TypeOK, Truth
<1>5. NoneAhead' BY <1>2 DEF TypeOK, NoneAhead
<1>6. OneRenewer' BY <1>2 DEF TypeOK, OneRenewer
<1>7. CanRenew' BY <1>2 DEF TypeOK, CanRenew
<1> QED BY <1>1, <1>3, <1>4, <1>5, <1>6, <1>7

\* A request that the repository carries out is counted, once for a call that
\* had none carried out before.
LEMMA CarriedOut ==
  ASSUME Inv, NEW c \in Call, pc[c] \notin Over, CarryOut(c)
  PROVE  \E n \in 1..2 : /\ done' = [done EXCEPT ![c] = n]
                         /\ done[c] = 0 => n = 1
<1>1. done[c] \in 0..1
  BY DEF Inv, Carried
<1>2. CASE c \in Delete
  <2>1. done' = [done EXCEPT ![c] = 1]
    BY <1>2 DEF CarryOut
  <2> QED BY <2>1
<1>3. CASE c \notin Delete
  <2>1. done' = [done EXCEPT ![c] = done[c] + 1]
    BY <1>3 DEF CarryOut
  <2>2. done[c] + 1 \in 1..2 /\ (done[c] = 0 => done[c] + 1 = 1)
    BY <1>1
  <2> QED BY <2>1, <2>2
<1> QED BY <1>2, <1>3

\* A request keeps the invariant when its answer, label, tells how often the
\* call was carried out, n, as truly as the losses allow.
LEMMA AnswerInv ==
  ASSUME Inv, NEW c \in Call, NEW label \in {"ok", "renew", "failed"}, NEW n \in 0..2,
         pc[c] \in {"send", "sendAgain"},
         pc' = [pc EXCEPT ![c] = label], done' = [done EXCEPT ![c] = n],
         UNCHANGED <<accessjwt, refreshjwt, header, good, current, tok, got>>,
         UNCHANGED lost \/ lost' = lost \cup {c}, excused' \in SUBSET Call,
         label = "ok" => n > 0, label = "renew" => n < 2,
         c \notin lost' => (label = "ok" /\ n = 1) \/ (label # "ok" /\ n = 0)
  PROVE  Inv'
<1> USE DEF Inv, Over, Storing, Fresh
<1>1. TypeOK' BY DEF TypeOK, Renewed
<1>2. Carried' BY DEF TypeOK, Carried
<1>3. Truth' BY DEF TypeOK, Truth
<1>4. NoneAhead' BY DEF NoneAhead
<1>5. OneRenewer' BY DEF TypeOK, OneRenewer
<1>6. CanRenew' BY DEF TypeOK, CanRenew
<1> QED BY <1>1, <1>2, <1>3, <1>4, <1>5, <1>6

\* A request with an answer or without keeps the invariant.
LEMMA SendInv ==
  ASSUME Inv, NEW c \in Call, Send(c)
  PROVE  Inv'
<1>1. PICK err \in {"renew", "failed"} :
        /\ pc[c] = IF err = "renew" THEN "send" ELSE "sendAgain"
        /\ Ask(c, "ok", err)
  BY DEF Send
<1>2. /\ UNCHANGED <<accessjwt, refreshjwt, header, good, current, tok, got>>
      /\ UNCHANGED lost \/ lost' = lost \cup {c}
      /\ excused' \in SUBSET Call
  BY <1>1 DEF Ask, client, history, Lose, Refuse, Inv, TypeOK
<1>3. /\ pc[c] \in {"send", "sendAgain"} /\ pc[c] \notin Over
      /\ done[c] \in 0..1
      /\ err = "renew" => done[c] = 0
      /\ c \notin lost => done[c] = 0
  BY <1>1 DEF Inv, Carried, Truth, Over, Fresh
<1>4. CASE Accepted /\ CarryOut(c) /\ Goto(c, "ok") /\ UNCHANGED history
  <2>1. PICK n \in 1..2 : done' = [done EXCEPT ![c] = n] /\ (done[c] = 0 => n = 1)
    BY <1>3, <1>4, CarriedOut
  <2>2. n \in 0..2 /\ n > 0 /\ (c \notin lost' => n = 1)
    BY <1>3, <1>4, <2>1 DEF history
  <2>3. pc' = [pc EXCEPT ![c] = "ok"]
    BY <1>4 DEF Goto
  <2> QED BY <1>2, <1>3, <2>1, <2>2, <2>3, AnswerInv
<1>5. CASE Accepted /\ CarryOut(c) /\ Goto(c, err) /\ Lose(c)
  <2>1. PICK n \in 1..2 : done' = [done EXCEPT ![c] = n] /\ (done[c] = 0 => n = 1)
    BY <1>3, <1>5, CarriedOut
  <2>2. n \in 0..2 /\ (err = "renew" => n < 2)
    BY <1>3, <2>1
  <2>3. pc' = [pc EXCEPT ![c] = err]
    BY <1>5 DEF Goto
  <2>4. c \in lost'
    BY <1>5 DEF Lose
  <2> QED BY <1>2, <1>3, <2>1, <2>2, <2>3, <2>4, AnswerInv
<1>6. CASE Goto(c, err) /\ Refuse(c, Accepted) /\ UNCHANGED done
  <2>1. PICK n \in 0..1 : n = done[c]
    BY <1>3
  <2>2. done' = [done EXCEPT ![c] = n]
    BY <1>6, <2>1 DEF Inv, TypeOK
  <2>3. pc' = [pc EXCEPT ![c] = err]
    BY <1>6 DEF Goto
  <2>4. n \in 0..2 /\ n < 2 /\ (c \notin lost' => n = 0)
    BY <1>3, <1>6, <2>1 DEF Refuse
  <2> QED BY <1>2, <1>3, <2>2, <2>3, <2>4, AnswerInv
<1> QED BY <1>1, <1>4, <1>5, <1>6 DEF Ask

\* A refresh uses up the token the client keeps, so there is no other renewer:
\* the one that got the next token is the only one to store it.
LEMMA SendRefreshInv ==
  ASSUME Inv, NEW c \in Call, SendRefresh(c)
  PROVE  Inv'
<1> USE DEF Inv, Over, Storing, Fresh, Gen, history, Lose, Refuse
<1>0. /\ pc[c] = "sendRenew"
      /\ UNCHANGED <<accessjwt, refreshjwt, header, done, tok>>
  BY DEF SendRefresh, client
<1>1. CASE /\ Renewable /\ current' = current + 1 /\ good' = good \cup {current + 1}
           /\ got' = [got EXCEPT ![c] = current + 1] /\ Goto(c, "storeAccess")
           /\ UNCHANGED history
  <2>1. /\ refreshjwt = current /\ current < MaxGen
        /\ current' = current + 1 /\ current' \in Gen
    BY <1>1, GenAssumption DEF Renewable, Refresh, NoneAhead, TypeOK
  <2>2. \A d \in Call : pc[d] \notin Storing
    BY <2>1 DEF OneRenewer, TypeOK
  <2>3. pc' = [pc EXCEPT ![c] = "storeAccess"] /\ got' = [got EXCEPT ![c] = current']
    BY <1>1, <2>1 DEF Goto
  <2>4. TypeOK' BY <1>0, <1>1, <2>1, <2>3 DEF TypeOK, Renewed
  <2>5. Carried' BY <1>0, <2>3 DEF TypeOK, Carried
  <2>6. Truth' BY <1>0, <1>1, <2>3 DEF TypeOK, Truth
  <2>7. NoneAhead' BY <1>0, <2>1 DEF TypeOK, NoneAhead
  <2>8. OneRenewer' BY <1>0, <2>1, <2>2, <2>3 DEF TypeOK, OneRenewer
  <2>9. CanRenew' BY <1>0, <1>1, <2>1, <2>3 DEF TypeOK, CanRenew
  <2> QED BY <2>4, <2>5, <2>6, <2>7, <2>8, <2>9
<1>2. CASE /\ Renewable /\ current' = current + 1 /\ good' = good \cup {current + 1}
           /\ UNCHANGED got /\ Goto(c, "failed") /\ Lose(c)
  <2>1. /\ refreshjwt = current /\ current < MaxGen
        /\ current' = current + 1 /\ current' \in Gen
    BY <1>2, GenAssumption DEF Renewable, Refresh, NoneAhead, TypeOK
  <2>2. \A d \in Call : pc[d] \notin Storing
    BY <2>1 DEF OneRenewer, TypeOK
  <2>3. pc' = [pc EXCEPT ![c] = "failed"] /\ got' = got
    BY <1>2 DEF Goto
  <2>4. TypeOK' BY <1>0, <1>2, <2>1, <2>3 DEF TypeOK, Renewed
  <2>5. Carried' BY <1>0, <2>3 DEF TypeOK, Carried
  <2>6. Truth' BY <1>0, <1>2, <2>3 DEF TypeOK, Truth
  <2>7. NoneAhead' BY <1>0, <2>1 DEF TypeOK, NoneAhead
  <2>8. OneRenewer' BY <2>2, <2>3 DEF TypeOK, OneRenewer
  <2>9. CanRenew' BY <1>2 DEF TypeOK, CanRenew
  <2> QED BY <2>4, <2>5, <2>6, <2>7, <2>8, <2>9
<1>3. CASE Goto(c, "failed") /\ Refuse(c, Renewable) /\ UNCHANGED <<current, good, got>>
  <2>1. pc' = [pc EXCEPT ![c] = "failed"] /\ UNCHANGED <<current, good, got>>
    BY <1>3 DEF Goto
  <2>2. TypeOK' BY <1>0, <1>3, <2>1 DEF TypeOK, Renewed
  <2>3. Carried' BY <1>0, <1>3, <2>1 DEF TypeOK, Carried
  <2>4. Truth' BY <1>0, <1>3, <2>1 DEF TypeOK, Truth
  <2>5. NoneAhead' BY <1>0, <1>3, <2>1 DEF TypeOK, NoneAhead
  <2>6. OneRenewer' BY <1>0, <1>3, <2>1 DEF TypeOK, OneRenewer
  <2>7. CanRenew' BY <1>0, <1>3, <2>1 DEF TypeOK, CanRenew
  <2> QED BY <2>2, <2>3, <2>4, <2>5, <2>6, <2>7
<1> QED BY <1>1, <1>2, <1>3 DEF SendRefresh

\* The access token is stored before the refresh token; neither breaks the
\* invariant, for the one that stores has the newest token.
LEMMA StoreInv ==
  ASSUME Inv, NEW c \in Call, StoreAccess(c) \/ StoreRefresh(c)
  PROVE  Inv'
<1> USE DEF Inv, Over, Storing, Fresh, client, repository, history
<1>1. CASE StoreAccess(c)
  <2>1. pc' = [pc EXCEPT ![c] = "storeRefresh"] /\ pc[c] = "storeAccess"
    BY <1>1 DEF StoreAccess, Goto
  <2> USE <1>1, <2>1 DEF StoreAccess
  <2>2. TypeOK' BY DEF TypeOK, Renewed
  <2>3. Carried' BY DEF TypeOK, Carried
  <2>4. Truth' BY DEF TypeOK, Truth
  <2>5. NoneAhead' BY DEF TypeOK, NoneAhead
  <2>6. OneRenewer' BY DEF TypeOK, OneRenewer
  <2>7. CanRenew' BY DEF TypeOK, CanRenew
  <2> QED BY <2>2, <2>3, <2>4, <2>5, <2>6, <2>7
<1>2. CASE StoreRefresh(c)
  <2>1. pc' = [pc EXCEPT ![c] = "again"] /\ pc[c] = "storeRefresh"
    BY <1>2 DEF StoreRefresh, Goto
  <2>2. got[c] = current /\ refreshjwt < current /\ refreshjwt' = current
    BY <1>2, <2>1 DEF StoreRefresh, OneRenewer
  <2>3. \A d \in Call : pc'[d] \notin Storing
    BY <2>1 DEF OneRenewer, TypeOK
  <2> USE <1>2, <2>1, <2>2 DEF StoreRefresh
  <2>4. TypeOK' BY DEF TypeOK, Renewed
  <2>5. Carried' BY DEF TypeOK, Carried
  <2>6. Truth' BY DEF TypeOK, Truth
  <2>7. NoneAhead' BY DEF TypeOK, NoneAhead, Token, Gen
  <2>8. OneRenewer' BY <2>3 DEF OneRenewer
  <2>9. CanRenew' BY DEF CanRenew
  <2> QED BY <2>4, <2>5, <2>6, <2>7, <2>8, <2>9
<1> QED BY <1>1, <1>2

\* Every step keeps the invariant.
LEMMA NextInv == Inv /\ [Next]_vars => Inv'
<1> SUFFICES ASSUME Inv, [Next]_vars PROVE Inv'
  OBVIOUS
<1>1. ASSUME NEW c \in Call, SetAccess(c) PROVE Inv'
  <2>1. Access(accessjwt) \in Token /\ Access(accessjwt).kind # "refresh"
    BY DEF Inv, TypeOK, Token, Access
  <2>2. CASE Read(c, "idle", Access(accessjwt), "set")
    BY <2>1, <2>2, ReadInv DEF Labels, Over, Storing, Renewed, Fresh
  <2>3. CASE SetHeader(c, "set", "send")
    BY <2>3, SetHeaderInv DEF Labels, Over, Storing, Renewed, Fresh
  <2>4. CASE Read(c, "again", Access(accessjwt), "setAgain")
    BY <2>1, <2>4, ReadInv DEF Labels, Over, Storing, Renewed, Fresh
  <2>5. CASE SetHeader(c, "setAgain", "sendAgain")
    BY <2>5, SetHeaderInv DEF Labels, Over, Storing, Renewed, Fresh
  <2> QED BY <1>1, <2>2, <2>3, <2>4, <2>5 DEF SetAccess
<1>2. ASSUME NEW c \in Call, SetRefresh(c) PROVE Inv'
  <2>1. /\ Refresh(refreshjwt) \in Token
        /\ Refresh(refreshjwt).kind = "refresh" => Refresh(refreshjwt).gen <= refreshjwt
    BY GenAssumption DEF Inv, TypeOK, Token, Refresh, Gen
  <2>2. CASE Read(c, "renew", Refresh(refreshjwt), "setRenew")
    BY <2>1, <2>2, ReadInv DEF Labels, Over, Storing, Renewed, Fresh
  <2>3. CASE SetHeader(c, "setRenew", "sendRenew")
    BY <2>3, SetHeaderInv DEF Labels, Over, Storing, Renewed, Fresh
  <2> QED BY <1>2, <2>2, <2>3 DEF SetRefresh
<1>3. ASSUME NEW g \in Gen, Expire(g) PROVE Inv'
  BY <1>3 DEF Expire, client, history, Inv, TypeOK, Carried, Truth, NoneAhead, OneRenewer, CanRenew
<1>4. CASE UNCHANGED vars
  BY <1>4 DEF vars, client, repository, history, Inv, TypeOK, Carried, Truth, NoneAhead, OneRenewer, CanRenew
<1> QED
  BY <1>1, <1>2, <1>3, <1>4, SendInv, SendRefreshInv, StoreInv DEF Next, Proceed

-----------------------------------------------------------------------------
\* The state of the client and of the calls has its type, however many calls
\* there are.
THEOREM TypeCorrect == Spec => []TypeOK
<1>1. Inv => TypeOK BY DEF Inv
<1> QED BY InitInv, NextInv, <1>1, PTL DEF Spec

\* However the calls race over the header and the two tokens, the newest refresh
\* token is kept or about to be kept, so that the session can be renewed.
THEOREM SessionCanBeRenewed == Spec => []CanRenew
<1>1. Inv => CanRenew BY DEF Inv
<1> QED BY InitInv, NextInv, <1>1, PTL DEF Spec

\* What a call reports to its caller is what the repository did for it.
THEOREM CallsReportTheTruth == Spec => []ReportsTheTruth
<1>1. Inv => ReportsTheTruth
  BY DEF Inv, Carried, Truth, ReportsTheTruth, Over
<1> QED BY InitInv, NextInv, <1>1, PTL DEF Spec

-----------------------------------------------------------------------------
(* A call that has the client for itself fails only if it is refused or an *)
(* answer is lost.                                                         *)

\* The access token that a call fetched does not expire on it.
RenewedGood == \A c \in Call : pc[c] \in Renewed => got[c] \in good

\* What a call that nobody got in the way of put into its hand, the header and
\* the client is there still.
Undisturbed(c) ==
  /\ pc[c] = "setRenew" => tok[c] = Refresh(refreshjwt)
  /\ pc[c] = "sendRenew" => header = Refresh(refreshjwt)
  /\ pc[c] \in {"storeRefresh", "again"} => accessjwt = got[c]
  /\ pc[c] = "setAgain" => tok[c] = Access(got[c])
  /\ pc[c] = "sendAgain" => header = Access(got[c])

\* There is one such call at a time.
Solo == \A c \in Running \ excused : Running = {c} /\ Undisturbed(c)

RaceInv == Inv /\ RenewedGood /\ Solo /\ FailsOnlyInRace

-----------------------------------------------------------------------------
\* A call that runs already goes on: every other is excused, or it is alone.
LEMMA SoloGoesOn ==
  ASSUME TypeOK, Solo, NEW c \in Running, NEW label \in Labels \ {"idle"},
         pc' = [pc EXCEPT ![c] = label], excused \subseteq excused',
         c \notin excused' /\ label \notin Over => Undisturbed(c)'
  PROVE  Solo'
<1> SUFFICES ASSUME NEW d \in Running' \ excused'
             PROVE  Running' = {d} /\ Undisturbed(d)'
  BY DEF Solo
<1>1. c \in Call /\ d \in Call /\ pc'[d] \notin Over \cup {"idle"} /\ d \notin excused
  BY DEF Running
<1>2. d = c
  <2> SUFFICES ASSUME d # c PROVE FALSE
    OBVIOUS
  <2>1. d \in Running
    BY <1>1 DEF Running, TypeOK
  <2> QED BY <1>1, <2>1 DEF Solo
<1>3. Running = {c} /\ label \notin Over
  BY <1>1, <1>2 DEF Solo, TypeOK
<1>4. Running' = {c}
  BY <1>1, <1>2, <1>3 DEF Running, TypeOK
<1> QED BY <1>2, <1>3, <1>4

\* A call reads a token: either it is alone, or all that run are excused.
LEMMA ReadRace ==
  ASSUME RaceInv, NEW c \in Call, NEW from \in Labels \ Over,
         NEW to \in Labels \ (Over \cup {"idle", "sendRenew", "storeRefresh", "again", "sendAgain"}),
         NEW token, to \in Renewed => from \in Renewed,
         Read(c, from, token, to),
         to = "setRenew" => token = Refresh(refreshjwt),
         to = "setAgain" => token = Access(accessjwt) /\ from = "again"
  PROVE  RenewedGood' /\ Solo' /\ FailsOnlyInRace'
<1>1. /\ pc' = [pc EXCEPT ![c] = to] /\ pc[c] = from
      /\ tok' = [tok EXCEPT ![c] = token]
      /\ excused' = IF Running \ {c} = {} THEN excused ELSE excused \cup Running \cup {c}
      /\ UNCHANGED <<accessjwt, refreshjwt, header, good, current, got, lost>>
      /\ pc \in [Call -> Labels] /\ tok \in [Call -> Token]
  BY DEF Read, Goto, client, repository, RaceInv, Inv, TypeOK, Labels
<1>2. RenewedGood'
  BY <1>1 DEF RaceInv, RenewedGood
<1>3. FailsOnlyInRace'
  BY <1>1 DEF RaceInv, FailsOnlyInRace, Over
<1>4. Solo'
  <2> SUFFICES ASSUME NEW d \in Running' \ excused'
               PROVE  Running' = {d} /\ Undisturbed(d)'
    BY DEF Solo
  <2>1. d \in Call /\ d \notin excused /\ (d # c => d \in Running)
    BY <1>1 DEF Running
  <2>2. Running \ {c} = {} /\ d = c
    BY <1>1, <2>1
  <2>3. Running' = {c}
    BY <1>1, <2>2 DEF Running, Over
  <2>4. to = "setAgain" => accessjwt = got[c]
    <3> SUFFICES ASSUME to = "setAgain" PROVE accessjwt = got[c]
      OBVIOUS
    <3>1. pc[c] = "again" /\ c \in Running
      BY <1>1 DEF Running, Over
    <3> QED BY <2>1, <2>2, <3>1 DEF RaceInv, Solo, Undisturbed
  <2>5. Undisturbed(c)'
    BY <1>1, <2>4 DEF Undisturbed
  <2> QED BY <2>2, <2>3, <2>5
<1> QED BY <1>2, <1>3, <1>4

\* The header is what an undisturbed call puts into it.
LEMMA SetHeaderRace ==
  ASSUME RaceInv, NEW c \in Call,
         NEW from \in {"set", "setRenew", "setAgain"},
         NEW to, to = CASE from = "set" -> "send"
                        [] from = "setRenew" -> "sendRenew"
                        [] from = "setAgain" -> "sendAgain",
         SetHeader(c, from, to)
  PROVE  RenewedGood' /\ Solo' /\ FailsOnlyInRace'
<1>1. /\ pc' = [pc EXCEPT ![c] = to] /\ pc[c] = from /\ header' = tok[c]
      /\ UNCHANGED <<accessjwt, refreshjwt, good, current, tok, got, lost, excused>>
      /\ pc \in [Call -> Labels] /\ TypeOK
  BY DEF SetHeader, Goto, repository, history, RaceInv, Inv, TypeOK, Labels
<1>2. c \in Running /\ to \in Labels \ {"idle"} /\ to \notin Over
  BY <1>1 DEF Running, Over, Labels, Renewed
<1>3. RenewedGood'
  BY <1>1 DEF RaceInv, RenewedGood, Renewed, Storing
<1>4. FailsOnlyInRace'
  BY <1>1, <1>2 DEF RaceInv, FailsOnlyInRace, Over
<1>5. c \notin excused' => Undisturbed(c)'
  <2>1. c \notin excused => Undisturbed(c)
    BY <1>2 DEF RaceInv, Solo
  <2> QED BY <1>1, <2>1 DEF Undisturbed
<1> QED BY <1>1, <1>2, <1>3, <1>4, <1>5, SoloGoesOn DEF RaceInv

\* The request of an undisturbed call has a good token the second time.
LEMMA SendRace ==
  ASSUME RaceInv, NEW c \in Call, Send(c)
  PROVE  RenewedGood' /\ Solo' /\ FailsOnlyInRace'
<1>1. PICK err \in {"renew", "failed"} :
        /\ pc[c] = IF err = "renew" THEN "send" ELSE "sendAgain"
        /\ Ask(c, "ok", err)
  BY DEF Send
<1>2. /\ UNCHANGED <<accessjwt, refreshjwt, header, good, current, tok, got>>
      /\ pc' = [pc EXCEPT ![c] = "ok"] \/ pc' = [pc EXCEPT ![c] = err]
      /\ lost \subseteq lost' /\ excused \subseteq excused'
      /\ pc \in [Call -> Labels] /\ TypeOK
  BY <1>1 DEF Ask, Goto, client, history, Lose, Refuse, RaceInv, Inv, TypeOK, Labels
<1>3. PICK label \in {"ok", "renew", "failed"} :
        /\ pc' = [pc EXCEPT ![c] = label]
        /\ label \in Labels \ {"idle"} /\ label \notin Renewed
        /\ label = "failed" =>
             pc[c] = "sendAgain" /\ (c \in lost' \/ (Accepted => c \in excused'))
  <2>1. CASE pc' = [pc EXCEPT ![c] = "ok"]
    BY <2>1 DEF Labels, Over, Renewed, Storing
  <2>2. CASE pc' # [pc EXCEPT ![c] = "ok"]
    <3>1. pc' = [pc EXCEPT ![c] = err] /\ (c \in lost' \/ (Accepted => c \in excused'))
      BY <1>1, <2>2 DEF Ask, Goto, Lose, Refuse
    <3>2. err \in Labels \ {"idle"} /\ err \notin Renewed
      BY DEF Labels, Over, Renewed, Storing
    <3> QED BY <1>1, <3>1, <3>2
  <2> QED BY <2>1, <2>2
<1>4. c \in Running
  BY <1>1 DEF Running, Over
<1>5. RenewedGood'
  BY <1>2, <1>3 DEF RaceInv, RenewedGood
<1>6. Solo'
  <2>1. label \notin Over => Undisturbed(c)'
    BY <1>2, <1>3 DEF Undisturbed, Over
  <2> QED BY <1>2, <1>3, <1>4, <2>1, SoloGoesOn DEF RaceInv
<1>7. FailsOnlyInRace'
  <2> SUFFICES ASSUME lost' = {}, current' < MaxGen, NEW d \in Call, pc'[d] = "failed"
               PROVE  d \in excused'
    BY DEF FailsOnlyInRace
  <2>1. CASE d # c
    BY <1>2, <1>3, <2>1 DEF RaceInv, FailsOnlyInRace
  <2>2. CASE d = c /\ c \notin excused
    <3>1. label = "failed" /\ pc[c] = "sendAgain"
      BY <1>2, <1>3, <2>2
    <3>2. header = Access(got[c]) /\ got[c] \in good
      BY <1>4, <2>2, <3>1 DEF RaceInv, Solo, Undisturbed, RenewedGood, Renewed
    <3>3. Accepted
      BY <3>2 DEF Accepted, Access
    <3> QED BY <1>3, <2>2, <3>1, <3>3
  <2> QED BY <1>2, <2>1, <2>2
<1> QED BY <1>5, <1>6, <1>7

\* The refresh of an undisturbed call has the token the repository takes.
LEMMA SendRefreshRace ==
  ASSUME RaceInv, NEW c \in Call, SendRefresh(c)
  PROVE  RenewedGood' /\ Solo' /\ FailsOnlyInRace'
<1>1. /\ pc[c] = "sendRenew" /\ c \in Running /\ TypeOK /\ pc \in [Call -> Labels]
      /\ UNCHANGED <<accessjwt, refreshjwt, header, tok>>
      /\ lost \subseteq lost' /\ excused \subseteq excused' /\ good \subseteq good'
      /\ current \in Nat /\ current' \in Nat /\ current <= current'
  BY GenAssumption
     DEF SendRefresh, client, history, Lose, Refuse, Running, Over, RaceInv, Inv, TypeOK, Labels, Gen
<1>2. c \notin excused /\ lost = {} /\ current < MaxGen => Renewable
  <2> SUFFICES ASSUME c \notin excused, lost = {}, current < MaxGen PROVE Renewable
    OBVIOUS
  <2>1. Running = {c} /\ header = Refresh(refreshjwt)
    BY <1>1 DEF RaceInv, Solo, Undisturbed
  <2>2. refreshjwt = current
    BY <1>1, <2>1 DEF RaceInv, Inv, CanRenew, Running, Storing, Over
  <2> QED BY <2>1, <2>2 DEF Renewable
<1>3. CASE /\ good' = good \cup {current + 1}
           /\ got' = [got EXCEPT ![c] = current + 1] /\ Goto(c, "storeAccess")
  <2>1. pc' = [pc EXCEPT ![c] = "storeAccess"]
    BY <1>3 DEF Goto
  <2>2. RenewedGood'
    BY <1>1, <1>3, <2>1 DEF RaceInv, RenewedGood, TypeOK
  <2>3. "storeAccess" \in Labels \ {"idle"} /\ "storeAccess" \notin Over
    BY DEF Labels, Renewed, Storing, Over
  <2>4. Undisturbed(c)'
    BY <1>1, <2>1 DEF Undisturbed
  <2>5. Solo'
    BY <1>1, <2>1, <2>3, <2>4, SoloGoesOn DEF RaceInv
  <2>6. FailsOnlyInRace'
    <3>1. lost' = {} /\ current' < MaxGen => lost = {} /\ current < MaxGen
      BY <1>1, GenAssumption
    <3>2. \A d \in Call : pc'[d] = "failed" => pc[d] = "failed"
      BY <1>1, <2>1
    <3> QED BY <1>1, <3>1, <3>2 DEF RaceInv, FailsOnlyInRace
  <2> QED BY <2>2, <2>5, <2>6
<1>4. CASE /\ UNCHANGED got /\ Goto(c, "failed")
           /\ c \in lost' \/ (Renewable => c \in excused')
  <2>1. pc' = [pc EXCEPT ![c] = "failed"]
    BY <1>4 DEF Goto
  <2>2. RenewedGood'
    BY <1>1, <1>4, <2>1 DEF RaceInv, RenewedGood, Renewed, Storing
  <2>3. "failed" \in Labels \ {"idle"} /\ "failed" \in Over
    BY DEF Labels, Over
  <2>4. Solo'
    BY <1>1, <2>1, <2>3, SoloGoesOn DEF RaceInv
  <2>5. FailsOnlyInRace'
    <3> SUFFICES ASSUME lost' = {}, current' < MaxGen, NEW d \in Call, pc'[d] = "failed"
                 PROVE  d \in excused'
      BY DEF FailsOnlyInRace
    <3>1. lost = {} /\ current < MaxGen
      BY <1>1, GenAssumption DEF SendRefresh
    <3>2. CASE d # c
      BY <1>1, <2>1, <3>1, <3>2 DEF RaceInv, FailsOnlyInRace
    <3>3. CASE d = c
      BY <1>1, <1>2, <1>4, <3>1, <3>3
    <3> QED BY <3>2, <3>3
  <2> QED BY <2>2, <2>4, <2>5
<1> QED BY <1>3, <1>4 DEF SendRefresh, Lose, Refuse

\* The tokens are stored.
LEMMA StoreRace ==
  ASSUME RaceInv, NEW c \in Call, StoreAccess(c) \/ StoreRefresh(c)
  PROVE  RenewedGood' /\ Solo' /\ FailsOnlyInRace'
<1>1. PICK label \in {"storeRefresh", "again"} :
        /\ pc' = [pc EXCEPT ![c] = label]
        /\ pc[c] = IF label = "again" THEN "storeRefresh" ELSE "storeAccess"
        /\ accessjwt' = IF label = "again" THEN accessjwt ELSE got[c]
        /\ UNCHANGED <<header, good, current, tok, got, lost, excused>>
  BY DEF StoreAccess, StoreRefresh, Goto, repository, history
<1>2. /\ c \in Running /\ TypeOK /\ pc \in [Call -> Labels]
      /\ label \in Labels \ {"idle"} /\ label \in Renewed /\ label \notin Over
  BY <1>1 DEF Running, RaceInv, Inv, TypeOK, Labels, Renewed, Storing, Over
<1>3. RenewedGood'
  BY <1>1, <1>2 DEF RaceInv, RenewedGood, Renewed, Storing
<1>4. FailsOnlyInRace'
  BY <1>1, <1>2 DEF RaceInv, FailsOnlyInRace
<1>5. c \notin excused' => Undisturbed(c)'
  <2>1. c \notin excused => Undisturbed(c)
    BY <1>2 DEF RaceInv, Solo
  <2> QED BY <1>1, <1>2, <2>1 DEF Undisturbed
<1> QED BY <1>1, <1>2, <1>3, <1>4, <1>5, SoloGoesOn DEF RaceInv

LEMMA InitRace == Init => RaceInv
<1>1. Init => Inv
  BY InitInv
<1> QED
  BY <1>1 DEF Init, RaceInv, RenewedGood, Solo, FailsOnlyInRace, Running, Renewed, Storing, Over

LEMMA NextRace == RaceInv /\ [Next]_vars => RaceInv'
<1> SUFFICES ASSUME RaceInv, [Next]_vars PROVE RaceInv'
  OBVIOUS
<1>1. Inv'
  BY NextInv DEF RaceInv
<1>2. ASSUME NEW c \in Call, SetAccess(c) PROVE RenewedGood' /\ Solo' /\ FailsOnlyInRace'
  <2>1. CASE Read(c, "idle", Access(accessjwt), "set")
    BY <2>1, ReadRace DEF Labels, Over, Storing, Renewed
  <2>2. CASE SetHeader(c, "set", "send")
    BY <2>2, SetHeaderRace
  <2>3. CASE Read(c, "again", Access(accessjwt), "setAgain")
    BY <2>3, ReadRace DEF Labels, Over, Storing, Renewed
  <2>4. CASE SetHeader(c, "setAgain", "sendAgain")
    BY <2>4, SetHeaderRace
  <2> QED BY <1>2, <2>1, <2>2, <2>3, <2>4 DEF SetAccess
<1>3. ASSUME NEW c \in Call, SetRefresh(c) PROVE RenewedGood' /\ Solo' /\ FailsOnlyInRace'
  <2>1. CASE Read(c, "renew", Refresh(refreshjwt), "setRenew")
    BY <2>1, ReadRace DEF Labels, Over, Storing, Renewed
  <2>2. CASE SetHeader(c, "setRenew", "sendRenew")
    BY <2>2, SetHeaderRace
  <2> QED BY <1>3, <2>1, <2>2 DEF SetRefresh
<1>4. ASSUME NEW g \in Gen, Expire(g) PROVE RenewedGood' /\ Solo' /\ FailsOnlyInRace'
  <2>1. /\ \A c \in Call : pc[c] \in Renewed => got[c] # g
        /\ good' = good \ {g}
        /\ UNCHANGED <<accessjwt, refreshjwt, header, current, pc, tok, got, lost, excused>>
    BY <1>4 DEF Expire, client, history
  <2>2. RenewedGood'
    BY <2>1 DEF RaceInv, RenewedGood
  <2>3. Solo'
    BY <2>1 DEF RaceInv, Solo, Running, Undisturbed
  <2> QED BY <2>1, <2>2, <2>3 DEF RaceInv, FailsOnlyInRace
<1>5. CASE UNCHANGED vars
  BY <1>1, <1>5
     DEF vars, client, repository, history, RaceInv, RenewedGood, Solo, Running, Undisturbed,
         FailsOnlyInRace
<1> QED
  BY <1>1, <1>2, <1>3, <1>4, <1>5, SendRace, SendRefreshRace, StoreRace
     DEF Next, Proceed, RaceInv

\* However many calls share the client, one that had it for itself fails only if
\* the repository refuses it without a reason, or an answer is lost: an expired
\* token is renewed (createMyRecord and deleteMyRecord after an error).
THEOREM FailuresHaveReasons == Spec => []FailsOnlyInRace
<1>1. RaceInv => FailsOnlyInRace BY DEF RaceInv
<1> QED BY InitRace, NextRace, <1>1, PTL DEF Spec

-----------------------------------------------------------------------------
(* A call is one step.                                                     *)

\* What a call that goes on to label has answered.
LEMMA Answers ==
  ASSUME TypeOK, NEW c \in Call, NEW label, Goto(c, label)
  PROVE  [d \in Call |-> IF pc'[d] \in Over THEN pc'[d] ELSE "none"]
           = [[d \in Call |-> IF pc[d] \in Over THEN pc[d] ELSE "none"]
                EXCEPT ![c] = IF label \in Over THEN label ELSE "none"]
  BY DEF TypeOK, Goto

\* A request that is answered ends the call in the step that carries it out; one
\* whose answer is lost had none carried out before, or was the last.
LEMMA SendIsCall ==
  ASSUME Inv, NEW c \in Call, Send(c)
  PROVE  [Calls!Next]_(Calls!vars)
<1> DEFINE answer == [d \in Call |-> IF pc[d] \in Over THEN pc[d] ELSE "none"]
<1>1. PICK err \in {"renew", "failed"} :
        /\ pc[c] = IF err = "renew" THEN "send" ELSE "sendAgain"
        /\ Ask(c, "ok", err)
  BY DEF Send
<1>2. /\ answer[c] = "none"
      /\ err = "renew" => done[c] = 0
      /\ answer = [answer EXCEPT ![c] = "none"]
  BY <1>1 DEF Inv, Carried, Over, Fresh
<1>3. CASE Accepted /\ CarryOut(c) /\ Goto(c, "ok") /\ UNCHANGED history
  <2>1. answer' = [answer EXCEPT ![c] = "ok"]
    BY <1>3, Answers DEF Inv, Over
  <2>2. Calls!Succeed(c)
    BY <1>2, <1>3, <2>1
       DEF Calls!Succeed, Calls!CarryOut, Calls!Return, CarryOut, history, Over
  <2> QED BY <2>2 DEF Calls!Next
<1>4. CASE Accepted /\ CarryOut(c) /\ Goto(c, err) /\ Lose(c)
  <2>1. answer' = [answer EXCEPT ![c] = IF err = "failed" THEN "failed" ELSE "none"]
    BY <1>4, Answers DEF Inv, Over
  <2>2. (done[c] = 0 /\ answer' = answer) \/ answer' = [answer EXCEPT ![c] = "failed"]
    BY <1>2, <2>1
  <2>3. Calls!LoseAnswer(c)
    BY <1>2, <1>4, <2>2
       DEF Calls!LoseAnswer, Calls!CarryOut, Calls!Return, CarryOut, Lose, Over
  <2> QED BY <2>3 DEF Calls!Next
<1>5. CASE Goto(c, err) /\ Refuse(c, Accepted) /\ UNCHANGED done
  <2>1. answer' = [answer EXCEPT ![c] = IF err = "failed" THEN "failed" ELSE "none"]
    BY <1>5, Answers DEF Inv, Over
  <2>2. UNCHANGED <<done, lost>>
    BY <1>5 DEF Refuse
  <2>3. CASE err = "renew"
    BY <1>2, <2>1, <2>2, <2>3 DEF Calls!vars
  <2>4. CASE err = "failed"
    <3>1. Calls!Fail(c)
      BY <1>2, <2>1, <2>2, <2>4 DEF Calls!Fail, Calls!Return
    <3> QED BY <3>1 DEF Calls!Next
  <2> QED BY <2>3, <2>4
<1> QED BY <1>1, <1>3, <1>4, <1>5 DEF Ask

\* A refresh ends a call only if it fails.
LEMMA RefreshIsCall ==
  ASSUME Inv, NEW c \in Call, SendRefresh(c)
  PROVE  [Calls!Next]_(Calls!vars)
<1> DEFINE answer == [d \in Call |-> IF pc[d] \in Over THEN pc[d] ELSE "none"]
<1>1. /\ answer[c] = "none" /\ answer = [answer EXCEPT ![c] = "none"]
      /\ UNCHANGED done
  BY DEF SendRefresh, Over
<1>2. PICK label \in {"storeAccess", "failed"} :
        /\ Goto(c, label)
        /\ lost' \in {lost, lost \cup {c}}
        /\ label = "storeAccess" => lost' = lost
  BY DEF SendRefresh, history, Lose, Refuse
<1>3. answer' = [answer EXCEPT ![c] = IF label = "failed" THEN "failed" ELSE "none"]
  BY <1>2, Answers DEF Inv, Over
<1>4. CASE label = "failed"
  <2>1. Calls!Fail(c)
    BY <1>1, <1>2, <1>3, <1>4 DEF Calls!Fail, Calls!Return
  <2> QED BY <2>1 DEF Calls!Next
<1>5. CASE label = "storeAccess"
  BY <1>1, <1>2, <1>3, <1>5 DEF Calls!vars
<1> QED BY <1>4, <1>5

\* The steps of a call between its requests are its own business.
LEMMA StepIsNone ==
  ASSUME Inv, NEW c \in Call, SetAccess(c) \/ SetRefresh(c) \/ StoreAccess(c) \/ StoreRefresh(c)
  PROVE  UNCHANGED Calls!vars
<1> DEFINE answer == [d \in Call |-> IF pc[d] \in Over THEN pc[d] ELSE "none"]
<1>1. PICK label \in Labels \ Over :
        pc[c] \notin Over /\ Goto(c, label) /\ UNCHANGED <<done, lost>>
  BY DEF SetAccess, SetRefresh, Read, SetHeader, StoreAccess, StoreRefresh, repository, history,
         Labels, Over, Storing, Renewed
<1>2. answer' = [answer EXCEPT ![c] = "none"] /\ answer = [answer EXCEPT ![c] = "none"]
  BY <1>1, Answers DEF Inv
<1> QED BY <1>1, <1>2 DEF Calls!vars

\* For any number of calls that share tokens and header, each of them is one step to
\* its caller (createMyRecord and deleteMyRecord), but for the answers that are lost.
THEOREM Refinement == Spec => ImplementsRepoCalls
<1>1. Init => Calls!Init
  BY DEF Init, Calls!Init, Over
<1>2. Inv /\ [Next]_vars => [Calls!Next]_(Calls!vars)
  <2> SUFFICES ASSUME Inv, [Next]_vars PROVE [Calls!Next]_(Calls!vars)
    OBVIOUS
  <2>1. ASSUME NEW c \in Call, Proceed(c) PROVE [Calls!Next]_(Calls!vars)
    BY <2>1, SendIsCall, RefreshIsCall, StepIsNone DEF Proceed
  <2>2. ASSUME NEW g \in Gen, Expire(g) PROVE UNCHANGED Calls!vars
    BY <2>2 DEF Expire, history, Calls!vars
  <2>3. CASE UNCHANGED vars
    BY <2>3 DEF vars, repository, history, Calls!vars
  <2> QED BY <2>1, <2>2, <2>3 DEF Next
<1> QED
  BY <1>1, <1>2, InitInv, NextInv, PTL DEF Spec, ImplementsRepoCalls, Calls!Spec
=============================================================================
