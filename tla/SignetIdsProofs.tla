-------------------------- MODULE SignetIdsProofs --------------------------
(***************************************************************************)
(* What SignetIds promises, for any number of lives, ids and workers: the  *)
(* ids of a channel go on across restarts, and two inits are taken for one *)
(* another only if the later life did not know the signet of the earlier.  *)
(*                                                                         *)
(* Neither is inductive.  What a new life has to find is that the signets  *)
(* in the table are those of inits that older lives numbered (TypeOK), and *)
(* what it then keeps is that it started at or above all it knew of.       *)
(***************************************************************************)
EXTENDS SignetIds, TLAPS

\* No counter is behind its start.
CountsUp == \A l \in Life : start[l] <= cur[l]

\* The signets a life was started from are those of older lives, and their ids
\* are not above its start.
StartsAboveKnown ==
  \A l \in Life : \A y \in known[l] : y.life < l /\ y.id <= start[l]

IInv == TypeOK /\ CountsUp /\ StartsAboveKnown

-----------------------------------------------------------------------------
\* The inits a life has numbered are known by what they are made of: as long as
\* no counter goes back and older lives stay as they are, none is forgotten.
LEMMA GivenGrows ==
  ASSUME TypeOK,
         lives' \in Life, lives <= lives',
         \A l \in 1..lives : start'[l] = start[l] /\ cur[l] <= cur'[l] /\ cur'[l] \in Nat
  PROVE  Given \subseteq Given'
BY DEF TypeOK, Given, Signet, Life

\* The same counters have numbered the same inits.
LEMMA GivenStays ==
  ASSUME UNCHANGED <<lives, start, cur>>
  PROVE  Given' = Given
BY DEF Given, Signet

\* A life that begins after id n, for signets that older lives posted and none
\* of which has an id above n, keeps the invariants of lives.
LEMMA LifeBegins ==
  ASSUME IInv, NEW n \in Nat, NEW S, S \subseteq Given, \A y \in S : y.id <= n,
         Begin(n, S)
  PROVE  /\ lives' \in Life /\ lives' = lives + 1 /\ object' \in Life
         /\ cur' \in [Life -> Nat] /\ start' \in [Life -> Nat]
         /\ known' \in [Life -> SUBSET Signet]
         /\ Given \subseteq Given'
         /\ CountsUp' /\ StartsAboveKnown'
PROOF
<1>1. /\ lives' \in Life /\ lives' = lives + 1 /\ object' \in Life
      /\ lives + 1 \in Life /\ lives \in Nat
  BY LifeAssumption DEF IInv, TypeOK, Begin, Life
<1>2. cur' \in [Life -> Nat] /\ start' \in [Life -> Nat]
  BY <1>1 DEF IInv, TypeOK, Begin
<1>3. known' \in [Life -> SUBSET Signet]
  BY <1>1 DEF IInv, TypeOK, Begin, Given
<1>4. \A l \in 1..lives : l \in Life /\ l # lives + 1
  BY <1>1, LifeAssumption DEF Life
<1>5. Given \subseteq Given'
  <2>1. \A l \in 1..lives : start'[l] = start[l] /\ cur'[l] = cur[l] /\ cur[l] \in Nat
    BY <1>4 DEF IInv, TypeOK, Begin
  <2> QED
    BY <1>1, <2>1, GivenGrows DEF IInv
<1>6. CountsUp'
  BY <1>1, <1>2 DEF IInv, TypeOK, CountsUp, Begin
<1>7. StartsAboveKnown'
  <2> SUFFICES ASSUME NEW l \in Life, NEW y \in known'[l]
               PROVE  y.life < l /\ y.id <= start'[l]
    BY DEF StartsAboveKnown
  <2>1. CASE l = lives + 1
    <3>1. y \in S /\ start'[l] = n
      BY <1>1, <2>1 DEF IInv, TypeOK, Begin
    <3>2. y.life <= lives /\ y.life \in Nat
      BY <3>1, <1>1 DEF Given, Signet, Life
    <3> QED
      BY <3>1, <3>2, <2>1, <1>1
  <2>2. CASE l # lives + 1
    <3>1. y \in known[l] /\ start'[l] = start[l]
      BY <2>2, <1>1 DEF IInv, TypeOK, Begin
    <3> QED
      BY <3>1 DEF IInv, StartsAboveKnown
  <2> QED
    BY <2>1, <2>2
<1> QED
  BY <1>1, <1>2, <1>3, <1>5, <1>6, <1>7

\* Steps that leave the lives and their counters alone.
LEMMA CountersRest ==
  ASSUME IInv, UNCHANGED <<lives, start, cur, known>>
  PROVE  /\ CountsUp' /\ StartsAboveKnown' /\ Given' = Given
         /\ lives' \in Life /\ cur' \in [Life -> Nat] /\ start' \in [Life -> Nat]
         /\ known' \in [Life -> SUBSET Signet]
PROOF
<1>1. Given' = Given
  BY GivenStays
<1> QED
  BY <1>1 DEF IInv, TypeOK, CountsUp, StartsAboveKnown

-----------------------------------------------------------------------------
LEMMA InitIInv == Init => IInv
PROOF
<1> SUFFICES ASSUME Init PROVE IInv
  OBVIOUS
<1>1. 1 \in Life
  BY LifeAssumption DEF Life
<1>2. TypeOK
  BY <1>1, LifeAssumption DEF Init, TypeOK, Life
<1>3. CountsUp
  BY DEF Init, CountsUp
<1>4. StartsAboveKnown
  BY DEF Init, StartsAboveKnown
<1> QED
  BY <1>2, <1>3, <1>4 DEF IInv

\* One init more, which is in the event channel of its server.
LEMMA SpeakIInv ==
  ASSUME IInv, NEW l \in Life, Speak(l)
  PROVE  IInv'
PROOF
<1> DEFINE x == [life |-> l, id |-> cur[l] + 1]
<1>1. /\ cur' \in [Life -> Nat] /\ cur'[l] = cur[l] + 1
      /\ \A k \in Life : cur[k] <= cur'[k] /\ cur[k] \in Nat
      /\ lives \in Nat /\ 1..lives \subseteq Life
  BY LifeAssumption DEF IInv, TypeOK, Speak, Life
<1>2. UNCHANGED <<row, lives, first, object, task, start, known, table, creating, storing, published>>
  BY DEF Speak, channel
<1>3. Given \subseteq Given'
  BY <1>1, <1>2, GivenGrows DEF IInv, TypeOK
<1>4. x \in Given'
  <2>1. x \in Signet
    BY <1>1, MaxAssumption DEF Speak, Signet
  <2>2. l <= lives' /\ start'[l] < cur[l] + 1 /\ cur[l] + 1 <= cur'[l]
    BY <1>1, <1>2 DEF Speak, Running, IInv, TypeOK, CountsUp
  <2> QED
    BY <2>1, <2>2 DEF Given
<1>5. TypeOK'
  BY <1>1, <1>2, <1>3, <1>4 DEF IInv, TypeOK, Speak
<1>6. CountsUp'
  BY <1>1, <1>2 DEF IInv, TypeOK, CountsUp
<1>7. StartsAboveKnown'
  BY <1>2 DEF IInv, StartsAboveKnown
<1> QED
  BY <1>5, <1>6, <1>7 DEF IInv

\* An init that is passed on, posted, stored, or lost; a signet that comes over
\* the jetstream or is deleted.
LEMMA SignetIInv ==
  ASSUME IInv, NEW x \in Signet, Post(x) \/ Jetstream(x)
  PROVE  IInv'
PROOF
<1>1. UNCHANGED <<row, lives, first, object, task, start, known, cur>>
  BY DEF Post, Jetstream, Lose, Receive, CreateSignet, StoreSignet, FailToStore,
         AcceptSignet, DeleteSignet, channel
<1>2. /\ CountsUp' /\ StartsAboveKnown' /\ Given' = Given
      /\ lives' \in Life /\ cur' \in [Life -> Nat] /\ start' \in [Life -> Nat]
      /\ known' \in [Life -> SUBSET Signet]
  BY <1>1, CountersRest
<1>3. /\ waiting' \subseteq Given /\ creating' \subseteq Given /\ published' \subseteq Given
      /\ storing' \subseteq published' /\ table' \subseteq published'
  <2>1. CASE Lose(x)
    BY <2>1 DEF IInv, TypeOK, Lose
  <2>2. CASE Receive(x)
    BY <2>2 DEF IInv, TypeOK, Receive
  <2>3. CASE CreateSignet(x)
    BY <2>3 DEF IInv, TypeOK, CreateSignet
  <2>4. CASE StoreSignet(x)
    BY <2>4 DEF IInv, TypeOK, StoreSignet
  <2>5. CASE FailToStore(x)
    BY <2>5 DEF IInv, TypeOK, FailToStore
  <2>6. CASE AcceptSignet(x)
    BY <2>6 DEF IInv, TypeOK, AcceptSignet, inits
  <2>7. CASE DeleteSignet(x)
    BY <2>7 DEF IInv, TypeOK, DeleteSignet, inits
  <2> QED
    BY <2>1, <2>2, <2>3, <2>4, <2>5, <2>6, <2>7 DEF Post, Jetstream
<1>4. TypeOK'
  BY <1>1, <1>2, <1>3 DEF IInv, TypeOK
<1> QED
  BY <1>2, <1>4 DEF IInv

\* The row of the channel and its signets, the object, and the steps in between.
LEMMA WorkIInv ==
  ASSUME IInv, NEW w \in Worker, Work(w)
  PROVE  IInv'
PROOF
<1>1. task' \in [Worker -> {"idle", "add", "drop"}]
  BY DEF IInv, TypeOK, Work, DeleteRow, Drop, StoreRow, Add, Goto, GotoOrFail
<1>2. CASE Add(w) /\ object = 0
  <2>1. Begin(1, {}) /\ UNCHANGED <<row, first, table, waiting, creating, storing, published>>
    BY <1>2 DEF Add, inits
  <2>2. /\ lives' \in Life /\ object' \in Life
        /\ cur' \in [Life -> Nat] /\ start' \in [Life -> Nat]
        /\ known' \in [Life -> SUBSET Signet]
        /\ Given \subseteq Given' /\ CountsUp' /\ StartsAboveKnown'
    BY <2>1, LifeBegins
  <2>3. TypeOK'
    BY <1>1, <2>1, <2>2 DEF IInv, TypeOK
  <2> QED
    BY <2>2, <2>3 DEF IInv
<1>3. CASE DeleteRow(w) \/ Drop(w) \/ StoreRow(w) \/ (Add(w) /\ object # 0)
  <2>1. /\ UNCHANGED <<lives, first, start, known, cur, waiting, creating, storing, published>>
        /\ row' \in BOOLEAN /\ object' \in {object, 0} /\ table' \in {table, {}}
    BY <1>3 DEF DeleteRow, Drop, StoreRow, Add, inits, IInv, TypeOK
  <2>2. /\ CountsUp' /\ StartsAboveKnown' /\ Given' = Given
    BY <2>1, CountersRest
  <2>3. TypeOK'
    BY <1>1, <2>1, <2>2 DEF IInv, TypeOK
  <2> QED
    BY <2>2, <2>3 DEF IInv
<1> QED
  BY <1>2, <1>3 DEF Work

\* The table is all that is left, and with it the largest id.
LEMMA RestartIInv ==
  ASSUME IInv, Restart
  PROVE  IInv'
PROOF
<1>1. /\ UNCHANGED <<row, table, published>>
      /\ waiting' = {} /\ creating' = {} /\ storing' = {}
      /\ task' \in [Worker -> {"idle", "add", "drop"}]
      /\ first' \in 1..MaxLife + 1
  BY LifeAssumption DEF Restart, IInv, TypeOK, Life
<1>2. CASE \E n \in 0..MaxId : MaxOfIds(n, table) /\ Begin(n, table)
  <2>1. PICK n \in 0..MaxId : MaxOfIds(n, table) /\ Begin(n, table)
    BY <1>2
  <2>2. n \in Nat /\ table \subseteq Given /\ \A y \in table : y.id <= n
    BY <2>1, MaxAssumption DEF MaxOfIds, IInv, TypeOK
  <2>3. /\ lives' \in Life /\ object' \in Life
        /\ cur' \in [Life -> Nat] /\ start' \in [Life -> Nat]
        /\ known' \in [Life -> SUBSET Signet]
        /\ Given \subseteq Given' /\ CountsUp' /\ StartsAboveKnown'
    BY <2>1, <2>2, LifeBegins
  <2>4. TypeOK'
    BY <1>1, <2>3 DEF IInv, TypeOK
  <2> QED
    BY <2>3, <2>4 DEF IInv
<1>3. CASE object' = 0 /\ UNCHANGED <<lives, start, known, cur>>
  <2>1. object' = 0 /\ UNCHANGED <<lives, start, known, cur>>
    BY <1>3
  <2>2. CountsUp' /\ StartsAboveKnown' /\ Given' = Given
    BY <2>1, CountersRest
  <2>3. TypeOK'
    BY <1>1, <2>1, <2>2 DEF IInv, TypeOK
  <2> QED
    BY <2>2, <2>3 DEF IInv
<1> QED
  BY <1>2, <1>3 DEF Restart

LEMMA NextIInv == IInv /\ [Next]_vars => IInv'
PROOF
<1> SUFFICES ASSUME IInv, [Next]_vars PROVE IInv'
  OBVIOUS
<1>1. CASE \E l \in Life : Speak(l)
  BY <1>1, SpeakIInv
<1>2. CASE \E x \in Signet : Post(x) \/ Jetstream(x)
  BY <1>2, SignetIInv
<1>3. CASE \E w \in Worker : Work(w)
  BY <1>3, WorkIInv
<1>4. CASE Restart
  BY <1>4, RestartIInv
<1>5. CASE UNCHANGED vars
  BY <1>5, CountersRest DEF vars, channel, inits, IInv, TypeOK
<1> QED
  BY <1>1, <1>2, <1>3, <1>4, <1>5 DEF Next

\* The inductive invariant holds in every state.
THEOREM Invariance == Spec => []IInv
PROOF
<1> QED
  BY InitIInv, NextIInv, PTL DEF Spec

-----------------------------------------------------------------------------
\* Type correctness: whatever waits, is posted or stored is the signet of an
\* init some life numbered, and the table holds published signets only.
THEOREM TypeCorrect == Spec => []TypeOK
PROOF
<1>1. IInv => TypeOK
  BY DEF IInv
<1> QED
  BY <1>1, Invariance, PTL

\* For any number of lives, in whatever order the process restarts and the
\* channel is deleted and added: the ids of a life are above all signets that
\* were in the table when it began (model.Init, GetChannelURIs).
THEOREM IdsContinue == Spec => []IdsGoOn
PROOF
<1>1. ASSUME IInv PROVE IdsGoOn
  <2> SUFFICES ASSUME NEW x \in Given, NEW y \in known[x.life]
               PROVE  y.life < x.life /\ y.id < x.id
    BY DEF IdsGoOn
  <2>1. /\ x.life \in Life /\ x.id \in Nat /\ start[x.life] < x.id
        /\ start[x.life] \in Nat /\ y \in Signet /\ y.id \in Nat
    BY <1>1, MaxAssumption DEF IInv, TypeOK, Given, Signet
  <2>2. y.life < x.life /\ y.id <= start[x.life]
    BY <1>1, <2>1 DEF IInv, StartsAboveKnown
  <2> QED
    BY <2>1, <2>2
<1> QED
  BY <1>1, Invariance, PTL

\* For any number of lives a message is put under the signet of another init
\* only if the later life began without the signet of the earlier one.
THEOREM WrongSignetsNeedLoss == Spec => []WrongSignetOnlyAfterLoss
PROOF
<1>1. ASSUME IInv PROVE WrongSignetOnlyAfterLoss
  <2> SUFFICES ASSUME NEW x \in Given, NEW y \in QuerySignet(x.id), y # x
               PROVE  \/ y.life < x.life /\ y \notin known[x.life]
                      \/ x.life < y.life /\ x \notin known[y.life]
    BY DEF WrongSignetOnlyAfterLoss
  <2>1. y \in Given /\ y.id = x.id
    BY <1>1 DEF QuerySignet, IInv, TypeOK
  <2>2. x.life \in Nat /\ y.life \in Nat /\ x.life # y.life
    BY <2>1 DEF Given, Signet, Life
  <2>3. y \notin known[x.life] /\ x \notin known[y.life]
    <3>1. \A u, v \in Given : u.id = v.id => v \notin known[u.life]
      BY <1>1, MaxAssumption DEF IInv, TypeOK, StartsAboveKnown, Given, Signet, Life
    <3> QED
      BY <2>1, <3>1
  <2> QED
    BY <2>2, <2>3
<1> QED
  BY <1>1, Invariance, PTL

=============================================================================
