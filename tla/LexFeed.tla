------------------------------ MODULE LexFeed ------------------------------
(***************************************************************************)
(* What a subscriber of a channel's lex stream is promised: from the first *)
(* broadcast after it registered it receives one broadcast after the other *)
(* without a gap, a repetition or a change of order, until it is gone.     *)
(* A broadcast is named by its position in the order of all of them.       *)
(***************************************************************************)
EXTENDS Naturals

CONSTANT Client

VARIABLES sent,   \* number of broadcasts so far
          next,   \* the broadcast a subscriber receives next
          status  \* "out", "in" or "gone"

vars == <<sent, next, status>>

Init ==
  /\ sent = 0
  /\ next = [c \in Client |-> 0]
  /\ status = [c \in Client |-> "out"]

Broadcast == sent' = sent + 1 /\ UNCHANGED <<next, status>>

Subscribe(c) ==
  /\ status[c] = "out"
  /\ status' = [status EXCEPT ![c] = "in"]
  /\ next' = [next EXCEPT ![c] = sent + 1]
  /\ UNCHANGED sent

Deliver(c) ==
  /\ status[c] = "in" /\ next[c] <= sent
  /\ next' = [next EXCEPT ![c] = next[c] + 1]
  /\ UNCHANGED <<sent, status>>

Leave(c) ==
  /\ status[c] = "in"
  /\ status' = [status EXCEPT ![c] = "gone"]
  /\ UNCHANGED <<sent, next>>

Next == Broadcast \/ \E c \in Client : Subscribe(c) \/ Deliver(c) \/ Leave(c)

Spec == Init /\ [][Next]_vars
=============================================================================
