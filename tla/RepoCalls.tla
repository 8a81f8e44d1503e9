----------------------------- MODULE RepoCalls -----------------------------
(***************************************************************************)
(* What the instance's calls to its own repository are to those who make   *)
(* them, with no tokens, headers, refreshes or steps in it: a call that    *)
(* succeeds is carried out in the step that ends it, one that fails is     *)
(* not, and nothing is carried out afterwards.  Only when an answer is     *)
(* lost may a call have been carried out before, once, and be carried out  *)
(* again, or fail.  This is why a call is one step in ChannelServer and    *)
(* RecordIngest.  PasswordClient is shown to implement this specification. *)
(***************************************************************************)
EXTENDS Naturals

CONSTANTS Call,  \* calls of createMyRecord and deleteMyRecord
          Delete \* the ones that delete

VARIABLES answer, \* "none", "ok" or "failed"
          done,   \* how often the repository carried a call out
          lost    \* the calls an answer was lost to

vars == <<answer, done, lost>>

Init ==
  /\ answer = [c \in Call |-> "none"]
  /\ done = [c \in Call |-> 0]
  /\ lost = {}

Return(c, result) == answer' = [answer EXCEPT ![c] = result]

\* What is deleted twice is deleted once.
CarryOut(c) == done' = [done EXCEPT ![c] = IF c \in Delete THEN 1 ELSE @ + 1]

Succeed(c) ==
  /\ answer[c] = "none"
  /\ CarryOut(c) /\ Return(c, "ok")
  /\ UNCHANGED lost

\* The answer to the first attempt that is carried out may be lost to the call; it
\* asks no more than once again.
LoseAnswer(c) ==
  /\ answer[c] = "none"
  /\ CarryOut(c) /\ lost' = lost \cup {c}
  /\ \/ done[c] = 0 /\ UNCHANGED answer
     \/ Return(c, "failed")

\* A call fails, or the answer to the renewal of its session is lost.
Fail(c) ==
  /\ answer[c] = "none"
  /\ Return(c, "failed")
  /\ lost' \in {lost, lost \cup {c}}
  /\ UNCHANGED done

Next == \E c \in Call : Succeed(c) \/ LoseAnswer(c) \/ Fail(c)

Spec == Init /\ [][Next]_vars
=============================================================================
