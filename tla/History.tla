------------------------------- MODULE History -------------------------------
(***************************************************************************)
(* A reader walks back through a channel (handler/lexiconHandlers.go:      *)
(* getHistory and getMessages, db/db.go: GetHistory and GetMessages): page *)
(* after page, each the items with the greatest message ids below the      *)
(* cursor that came with the page before, while items are stored and       *)
(* deleted.                                                                *)
(*                                                                         *)
(* An item is a message or an image with all that the query joins to it    *)
(* (its signet, whose message_id is the id, the handle and the profile of  *)
(* its author): it is there when all of them are.  More than one item may  *)
(* have the same id, since a participant may post a message and an image   *)
(* for one signet; the query leaves their order open.                      *)
(***************************************************************************)
EXTENDS Naturals, FiniteSets

CONSTANTS
  Item,
  IdOf,    \* message_id of the signet of an item
  Bare,    \* items whose record has no nick or no color
  Limit    \* items on a page

ASSUME IdAssumption == IdOf \in [Item -> Nat]
ASSUME LimitAssumption == Limit \in Nat \ {0}
ASSUME ItemAssumption == IsFiniteSet(Item) /\ Bare \subseteq Item

VARIABLES
  present, \* items the query finds in the channel
  handler, \* the handler the reader asks: "getHistory" or "getMessages"
  reader,  \* what the reader does next
  cursor,  \* cursor of the last page
  got,     \* history: items the reader was given
  twice,   \* history: items the reader was given again
  broken,  \* history: did an answer of the database break off?
  stayed   \* history: items there since the walk began

items == <<present, stayed>>
walk == <<handler, reader, cursor, got, twice, broken>>
vars == <<items, walk>>

TypeOK ==
  /\ present \in SUBSET Item /\ stayed \in SUBSET present
  /\ handler \in {"getHistory", "getMessages"} /\ broken \in BOOLEAN
  /\ reader \in {"first", "next", "end", "failed"}
  /\ cursor \in Nat /\ (reader = "next" => cursor > 2)
  /\ got \in SUBSET Item /\ twice \in SUBSET got

Init ==
  /\ present \in SUBSET Item /\ stayed = present
  /\ handler \in {"getHistory", "getMessages"}
  /\ reader = "first" /\ cursor = 0
  /\ got = {} /\ twice = {} /\ broken = FALSE

-----------------------------------------------------------------------------
\* Mutant: up to the cursor.
FoundUpTo == {i \in present : reader = "next" => IdOf[i] <= cursor}

\* WHERE: the items of the channel, below the cursor if there is one.
Found == {i \in present : reader = "next" => IdOf[i] < cursor}

\* ORDER BY message_id DESC LIMIT.
IsPage(page) ==
  /\ page \subseteq Found
  /\ Cardinality(page) = IF Cardinality(Found) < Limit THEN Cardinality(Found) ELSE Limit
  /\ \A i \in page, j \in Found \ page : IdOf[j] <= IdOf[i]

\* The rows that arrive: rows.Err() is not asked, so that an answer that breaks
\* off is a shorter page.
Arrives(page, full) ==
  /\ \A i \in page, j \in full \ page : IdOf[j] <= IdOf[i]
  /\ broken' = (broken \/ page # full)

\* evalGetItems scans nick and color into variables that cannot be null.
Scanned(page) == handler = "getHistory" => page \cap Bare = {}

\* Mutant: no cursor at id 3.
AnswerTooSoon(page) ==
  \/ page = {} /\ reader' = "end" /\ UNCHANGED cursor
  \/ \E last \in page :
       /\ \A i \in page : IdOf[last] <= IdOf[i]
       /\ \/ IdOf[last] > 3 /\ reader' = "next" /\ cursor' = IdOf[last]
          \/ IdOf[last] <= 3 /\ reader' = "end" /\ UNCHANGED cursor

\* The cursor is the id of the last item, and is left out from id 2 down: that is
\* the first id after AddChannel, but a channel that had no signets when the process
\* started begins with 1, and other issuers' signets may have 0.
Answer(page) ==
  \/ /\ page = {}
     /\ reader' = "end" /\ UNCHANGED cursor
  \/ \E last \in page :
       /\ \A i \in page : IdOf[last] <= IdOf[i]
       /\ \/ IdOf[last] > 2 /\ reader' = "next" /\ cursor' = IdOf[last]
          \/ IdOf[last] <= 2 /\ reader' = "end" /\ UNCHANGED cursor

Deliver(page) == got' = got \cup page /\ twice' = twice \cup (page \cap got)

\* A request for a page.
Page ==
  /\ reader \in {"first", "next"}
  /\ \E full \in SUBSET Found : \E page \in SUBSET full :
       /\ IsPage(full) /\ Arrives(page, full)
       /\ \/ Scanned(page) /\ Answer(page) /\ Deliver(page)
          \/ ~Scanned(page) /\ reader' = "failed" /\ UNCHANGED <<cursor, got, twice>>
  /\ UNCHANGED <<items, handler>>

\* Meanwhile rows are inserted and deleted.
Post(i) ==
  /\ i \notin present /\ present' = present \cup {i}
  /\ UNCHANGED <<stayed, walk>>

Remove(i) ==
  /\ i \in present /\ present' = present \ {i} /\ stayed' = stayed \ {i}
  /\ UNCHANGED walk

Next == Page \/ \E i \in Item : Post(i) \/ Remove(i)

Spec == Init /\ [][Next]_vars

\* The reader goes on asking, and an answer that breaks off is never the only
\* one the database has left to give.
FairSpec == Spec /\ WF_vars(Page /\ broken' = broken)

-----------------------------------------------------------------------------
(* Properties.                                                             *)

\* No item is given twice in a walk, whatever is stored and deleted between its
\* pages.
NothingTwice == twice = {}

\* A walk that ended has shown every item that was there from its beginning to
\* its end, unless the database's answer broke off, and except that of the items
\* with one id it may lose some at the end of a page, and all that are below a last
\* item of id 2 or 1.
Alone(i) == \A j \in Item \ {i} : IdOf[j] # IdOf[i]
CutOff(i) == \E last \in got : IdOf[last] <= 2 /\ IdOf[i] < IdOf[last]
WalkIsComplete ==
  ~broken /\ reader = "end" => \A i \in stayed : Alone(i) => i \in got \/ CutOff(i)

\* A walk ends, however fast the channel grows.
WalkEnds == <>(reader \in {"end", "failed"})
=============================================================================
