--------------------------- MODULE MCRecordIngest ---------------------------
(* A message posted under a signet of this instance, and an image posted   *)
(* under one of another instance.                                          *)
EXTENDS RecordIngest

CONSTANTS mine, theirs

MCSignetOf == [p \in Post |-> IF p \in Message THEN mine ELSE theirs]
=============================================================================
