---------------------------- MODULE RecordCache ----------------------------
(***************************************************************************)
(* What the tables of the instance promise about the records they copy,    *)
(* with no stream, requests, workers or crashes in it: a row shows what    *)
(* was published once under its key, and is not overwritten; and only the  *)
(* rows of withdrawn records go away, or all of them at once.              *)
(* ChannelRegistry and RecordIngest are shown to implement this            *)
(* specification.                                                          *)
(***************************************************************************)
CONSTANTS Key,     \* uris
          Version, \* what a good record may say
          None     \* no row

VARIABLES published, \* what records said at some time, with their keys
          withdrawn, \* the keys somebody asked to remove at some time
          base,      \* is what all the rows refer to there?
          cache      \* the row of a key

vars == <<published, withdrawn, base, cache>>

Init == published = {} /\ withdrawn = {} /\ base = TRUE /\ cache = [k \in Key |-> None]

\* Outside: a record is written, or records are withdrawn.
Publish(k, v) ==
  /\ published' = published \cup {<<k, v>>}
  /\ UNCHANGED <<withdrawn, base, cache>>

Withdraw ==
  /\ withdrawn' \in SUBSET Key /\ withdrawn \subseteq withdrawn'
  /\ UNCHANGED <<published, base, cache>>

\* A row is inserted, however old the news of it are.
Show(k, v) ==
  /\ base /\ cache[k] = None /\ <<k, v>> \in published
  /\ cache' = [cache EXCEPT ![k] = v]
  /\ UNCHANGED <<published, withdrawn, base>>

\* Rows of withdrawn records go.
Hide(keys) ==
  /\ cache' = [k \in Key |-> IF k \in keys THEN None ELSE cache[k]]
  /\ UNCHANGED <<published, withdrawn, base>>

\* What all the rows refer to goes, and they with it; it comes back without them.
DropBase ==
  /\ base /\ base' = FALSE
  /\ cache' = [k \in Key |-> None]
  /\ UNCHANGED <<published, withdrawn>>

RestoreBase == ~base /\ base' = TRUE /\ UNCHANGED <<published, withdrawn, cache>>

Next ==
  \/ \E k \in Key, v \in Version : Publish(k, v) \/ Show(k, v)
  \/ Withdraw
  \/ \E keys \in SUBSET withdrawn : Hide(keys)
  \/ DropBase \/ RestoreBase

Spec == Init /\ [][Next]_vars

-----------------------------------------------------------------------------
\* A row appears with what its record said at some time, where there was none, and
\* goes because its record was withdrawn or what all the rows refer to went.
ChangesHaveReasons ==
  [][\A k \in Key : cache'[k] # cache[k] =>
       IF cache'[k] = None
         THEN k \in withdrawn \/ ~base'
         ELSE base /\ cache[k] = None /\ <<k, cache'[k]>> \in published]_vars
=============================================================================
