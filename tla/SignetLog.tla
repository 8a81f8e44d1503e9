----------------------------- MODULE SignetLog -----------------------------
(***************************************************************************)
(* What one hosted channel promises to the rest of the protocol, with no   *)
(* servers, goroutines or queues in it: the channel numbers the inits of   *)
(* its participants with ids that only grow, and the signets it posts bear *)
(* witness of inits that did happen, each at most once and, among those    *)
(* that travel over the same channel of Go, in the order of their ids.     *)
(* ChannelServer is shown to implement this specification.                 *)
(***************************************************************************)
EXTENDS Naturals, Sequences

CONSTANTS Kind,   \* the two streams of inits: text and media
          MaxId   \* largest message id (uint32 in the code)

VARIABLES issued, \* the inits that happened, in order
          posted  \* the inits a signet was posted for, in order

vars == <<issued, posted>>

Event == [id : 1..MaxId, kind : Kind]

Init == issued = <<>> /\ posted = <<>>

\* A participant starts a message: its id is larger than every earlier one.
Issue(e) ==
  /\ \A i \in 1..Len(issued) : issued[i].id < e.id
  /\ issued' = Append(issued, e)
  /\ UNCHANGED posted

\* A signet is posted for an init that happened and was not passed over yet.
Witness(e) ==
  /\ \E i \in 1..Len(issued) : issued[i] = e
  /\ \A i \in 1..Len(posted) : posted[i].kind = e.kind => posted[i].id < e.id
  /\ posted' = Append(posted, e)
  /\ UNCHANGED issued

Next == \E e \in Event : Issue(e) \/ Witness(e)

Spec == Init /\ [][Next]_vars

-----------------------------------------------------------------------------
\* What follows for those who look a signet up by its id: there is one.
OneSignetEach == \A i, j \in 1..Len(posted) : posted[i].id = posted[j].id => i = j
=============================================================================
