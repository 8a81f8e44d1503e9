------------------------------ MODULE MCHistory ------------------------------
(* Instance of History for TLC: the items are numbers, of which 4 and 5    *)
(* belong to one signet; their ids are 0, 1, 2, 3, 3, 4.                   *)
EXTENDS History

MCItem == 1..6
MCId == [i \in MCItem |-> IF i >= 5 THEN i - 2 ELSE i - 1]
MCBare == {3}
=============================================================================
