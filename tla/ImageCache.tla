----------------------------- MODULE ImageCache -----------------------------
(***************************************************************************)
(* Requests for one image: getImage (handler/lrcHandlers.go), which serves *)
(* the copy of the blob in ./uploads, and AddImageToCache of               *)
(* recordmanager/media.go, which fetches the blob if there is no such file *)
(* yet.  Requests run concurrently, and nothing but the file tells them of *)
(* each other: whoever finds no file fetches the blob, creates the file    *)
(* anew and writes it; whoever finds one serves it, be it finished or not. *)
(*                                                                         *)
(* A write goes on at its own offset, whatever became of the file since: a *)
(* gap before it reads as zeros.  The file is a sequence of parts.         *)
(***************************************************************************)
EXTENDS Naturals, Sequences

CONSTANTS
  Req,  \* requests for the image
  Size, \* how many parts the blob has
  Nil   \* no file

ASSUME SizeAssumption == Size \in Nat \ {0}
ASSUME NilAssumption == Nil \notin Seq({"data", "zero"})

VARIABLES
  file,    \* ./uploads/<did><cid>
  banned,  \* is the author banned?
  row,     \* does table images hold the image?
  pc,      \* control of a request
  image,   \* did it find a row with the uri it was given?
  offset,  \* how much of the file it wrote
  length,  \* the Content-Length it announced
  body,    \* what it sent
  seen,    \* history: what was the case at some time since it began
  raced,   \* history: requests that served while another one wrote
  damaged  \* history: was a write cut short?

cache == <<file, offset, damaged>>
response == <<length, body, raced>>
author == <<banned, row, seen>>
imageVars == <<cache, response, author, pc, image>>

Part == {"data", "zero"}
Whole == [i \in 1..Size |-> "data"]

ImageTypeOK ==
  /\ file \in Seq(Part) \cup {Nil}
  /\ banned \in BOOLEAN /\ row \in BOOLEAN /\ damaged \in BOOLEAN
  /\ pc \in [Req -> {"idle", "ban", "cache", "stat", "fetch", "write", "size", "row",
                     "send", "sent", "failed"}]
  /\ image \in [Req -> BOOLEAN]
  /\ offset \in [Req -> 0..Size]
  /\ length \in [Req -> Nat]
  /\ body \in [Req -> Seq(Part)]
  /\ seen \in [Req -> SUBSET {"allowed", "row"}]
  /\ raced \in SUBSET Req

ImageInit ==
  /\ file = Nil /\ banned \in BOOLEAN /\ row \in BOOLEAN
  /\ pc = [r \in Req |-> "idle"]
  /\ image = [r \in Req |-> FALSE]
  /\ offset = [r \in Req |-> 0]
  /\ length = [r \in Req |-> 0] /\ body = [r \in Req |-> <<>>]
  /\ seen = [r \in Req |-> {}] /\ raced = {} /\ damaged = FALSE

Goto(r, label) == pc' = [pc EXCEPT ![r] = label]
Writers == {r \in Req : pc[r] = "write"}
Serving == {r \in Req : pc[r] \in {"row", "send"}}

\* What a request can find out now.
Now(ban, r) == (IF ban THEN {} ELSE {"allowed"}) \cup (IF r THEN {"row"} ELSE {})

-----------------------------------------------------------------------------
(* getImage, up to the cache.                                              *)

\* The image is asked for by did and cid; or by a uri whose row is found: its own, or
\* one of the same author without a blob (blob_cid is NULL for a media record that has
\* none), which tells the did only, so that the cid is the one in the query.
Start(r) ==
  /\ pc[r] = "idle"
  /\ \E found \in BOOLEAN : image' = [image EXCEPT ![r] = found]
  /\ seen' = [seen EXCEPT ![r] = Now(banned, row)]
  /\ Goto(r, "ban")
  /\ UNCHANGED <<cache, response, banned, row>>

\* ib, _ := IsBanned: if the query fails the request goes on.
CheckBan(r) ==
  /\ pc[r] = "ban"
  /\ \/ banned /\ Goto(r, "failed")
     \/ Goto(r, "cache")
  /\ UNCHANGED <<cache, response, author, image>>

\* Mutant: a failing query is ignored here as well.
CheckBanAgainNot(r) ==
  /\ pc[r] = "cache"
  /\ Goto(r, "failed") \/ Goto(r, "stat")
  /\ UNCHANGED <<cache, response, author, image>>

\* AddImageToCache asks again, and fails if the query does.
CheckBanAgain(r) ==
  /\ pc[r] = "cache"
  /\ \/ Goto(r, "failed")
     \/ ~banned /\ Goto(r, "stat")
  /\ UNCHANGED <<cache, response, author, image>>

-----------------------------------------------------------------------------
(* AddImageToCache.                                                        *)

\* Mutant: whoever comes here stores the blob.
StatNot(r) ==
  /\ pc[r] = "stat"
  /\ Goto(r, "fetch")
  /\ UNCHANGED <<cache, response, author, image>>

\* Any error of os.Stat is taken for an absent file; there is none else here.
Stat(r) ==
  /\ pc[r] = "stat"
  /\ Goto(r, IF file = Nil THEN "fetch" ELSE "size")
  /\ UNCHANGED <<cache, response, author, image>>

\* SyncGetBlob, or os.Create, fails.
FailToFetch(r) ==
  /\ pc[r] = "fetch" /\ Goto(r, "failed")
  /\ UNCHANGED <<cache, response, author, image>>

\* SyncGetBlob, then os.Create: an existing file is truncated.
Create(r) ==
  /\ pc[r] = "fetch"
  /\ file' = <<>> /\ offset' = [offset EXCEPT ![r] = 0]
  /\ raced' = raced \cup Serving
  /\ Goto(r, "write")
  /\ UNCHANGED <<damaged, length, body, author, image>>

\* File f with the next part written at position i.
Written(f, i) ==
  [j \in 1..(IF i > Len(f) THEN i ELSE Len(f)) |->
     IF j = i THEN "data" ELSE IF j <= Len(f) THEN f[j] ELSE "zero"]

\* Mutant: a short write counts as a whole one.
WriteShort(r) ==
  /\ pc[r] = "write"
  /\ file' = Written(file, offset[r] + 1)
  /\ offset' = [offset EXCEPT ![r] = @ + 1]
  /\ Goto(r, "size")
  /\ UNCHANGED <<damaged, response, author, image>>

\* file.Write, in as many steps as it takes.
Write(r) ==
  /\ pc[r] = "write"
  /\ file' = Written(file, offset[r] + 1)
  /\ offset' = [offset EXCEPT ![r] = @ + 1]
  /\ IF offset[r] + 1 = Size THEN Goto(r, "size") ELSE UNCHANGED pc
  /\ UNCHANGED <<damaged, response, author, image>>

\* The disk is full: the file stays as it is.
FailToWrite(r) ==
  /\ pc[r] = "write" /\ Goto(r, "failed")
  /\ damaged' = TRUE
  /\ UNCHANGED <<file, offset, response, author, image>>

-----------------------------------------------------------------------------
(* getImage, from the cache on.                                            *)

\* Mutant: the size is what this request wrote.
StatSizeOfWritten(r) ==
  /\ pc[r] = "size"
  /\ length' = [length EXCEPT ![r] = offset[r]]
  /\ raced' = IF Writers = {} THEN raced ELSE raced \cup {r}
  /\ Goto(r, "row")
  /\ UNCHANGED <<cache, body, author, image>>

\* stats.Size().
StatSize(r) ==
  /\ pc[r] = "size"
  /\ length' = [length EXCEPT ![r] = Len(file)]
  /\ raced' = IF Writers = {} THEN raced ELSE raced \cup {r}
  /\ Goto(r, "row")
  /\ UNCHANGED <<cache, body, author, image>>

\* GetImageDidCID, unless some row was found at the beginning.
LookUp(r) ==
  /\ pc[r] = "row"
  /\ \/ (image[r] \/ row) /\ Goto(r, "send")
     \/ ~image[r] /\ Goto(r, "failed")
  /\ UNCHANGED <<cache, response, author, image>>

\* Open and WriteTo: what is in the file, at most as much as was announced.
Send(r) ==
  LET n == Len(body[r]) + 1
  IN  /\ pc[r] = "send"
      /\ IF n <= Len(file) /\ n <= length[r]
           THEN body' = [body EXCEPT ![r] = Append(@, file[n])] /\ UNCHANGED pc
           ELSE Goto(r, "sent") /\ UNCHANGED body
      /\ UNCHANGED <<cache, length, raced, author, image>>

-----------------------------------------------------------------------------
\* postBan, or the end of a ban; the image is stored, or deleted.
Author(ban, r) ==
  /\ banned' = ban /\ row' = r
  /\ seen' = [q \in Req |-> IF pc[q] = "idle" THEN seen[q] ELSE seen[q] \cup Now(ban, r)]
  /\ UNCHANGED <<cache, response, pc, image>>

\* The process dies with its requests; the file stays.
Crash ==
  /\ damaged' = (damaged \/ Writers # {})
  /\ pc' = [r \in Req |-> IF pc[r] \in {"idle", "sent"} THEN pc[r] ELSE "failed"]
  /\ UNCHANGED <<file, offset, response, author, image>>

GetImage(r) ==
  \/ Start(r) \/ CheckBan(r) \/ StatSize(r) \/ LookUp(r) \/ Send(r)

AddImageToCache(r) ==
  \/ CheckBanAgain(r) \/ Stat(r) \/ FailToFetch(r) \/ Create(r) \/ Write(r) \/ FailToWrite(r)

ImageNext ==
  \/ \E r \in Req : GetImage(r) \/ AddImageToCache(r)
  \/ \E ban, r \in BOOLEAN : Author(ban, r)
  \/ Crash

ImageSpec == ImageInit /\ [][ImageNext]_imageVars

-----------------------------------------------------------------------------
(* Properties.                                                             *)

\* When nobody is writing it the file is the whole blob, in whatever order the
\* writers truncated and wrote it, unless a write failed or the process died.
SettledIsWhole ==
  file # Nil /\ Writers = {} /\ ~damaged => file = Whole

\* A response that looks complete, with as many bytes as it announced, is the
\* whole blob, unless another request was writing the file while this one
\* served it, or a write was cut short before.
CompleteIsWhole ==
  \A r \in Req : pc[r] = "sent" /\ Len(body[r]) = length[r] =>
    body[r] = Whole \/ r \in raced \/ damaged

\* An image is served only if at some time since the request its author was not
\* banned, since the ban query whose failure is ignored is repeated; and only if its
\* row was there at some time, so that a file in the cache is not enough, or the
\* request gave the uri of some row of the author.
ServedIsAllowed ==
  \A r \in Req : pc[r] \in {"send", "sent"} =>
    "allowed" \in seen[r] /\ ("row" \in seen[r] \/ image[r])

\* The blob is stored once: a file that is there when nobody is about to create or
\* write it is never changed again, whatever requests, bans and crashes follow.
Storers == {r \in Req : pc[r] \in {"fetch", "write"}}
StoredOnce ==
  [][file # Nil /\ Storers = {} => file' = file /\ Storers' = {}]_imageVars
=============================================================================
