---------------------------- MODULE ReadingProofs ----------------------------
(* Theorems about what is served of what was posted: History, the walk     *)
(* through a channel, for any items, ids and page size, and ImageCache, an *)
(* image, for any number of requests and any size.                         *)
EXTENDS History, ImageCache, FiniteSetTheorems, TLAPS

\* The reader has seen nothing below its cursor ...
AheadOfCursor ==
  /\ reader = "first" => got = {}
  /\ reader = "next" => \A i \in got : cursor <= IdOf[i]

\* ... and whatever stayed where it is above it.
Shown(i) == Alone(i) => i \in got
CursorLosesNone ==
  ~broken => /\ reader = "next" => \A i \in stayed : cursor <= IdOf[i] => Shown(i)
             /\ reader = "end" => \A i \in stayed : Shown(i) \/ CutOff(i)

Inv == TypeOK /\ AheadOfCursor /\ NothingTwice /\ CursorLosesNone

-----------------------------------------------------------------------------
\* A full page is empty only when there is nothing to find.
LEMMA EmptyPage ==
  ASSUME present \in SUBSET Item, IsPage({})
  PROVE  Found = {}
<1>1. IsFiniteSet(Found)
  BY ItemAssumption, FS_Subset DEF Found
<1>2. Cardinality({}) = 0
  BY FS_EmptySet
<1>3. Cardinality(Found) = 0
  BY <1>1, <1>2, LimitAssumption, FS_CardinalityType DEF IsPage
<1> QED BY <1>1, <1>3, FS_EmptySet

\* An item that was there all the time, has its id for itself, and is not below
\* the last item of a full page was shown before or is shown now.
LEMMA NoneSkipped ==
  ASSUME TypeOK, reader \in {"first", "next"}, CursorLosesNone, ~broken,
         NEW page \in SUBSET Found, IsPage(page), NEW last \in page,
         \A i \in page : IdOf[last] <= IdOf[i],
         NEW i \in stayed, IdOf[last] <= IdOf[i], Alone(i)
  PROVE  i \in got \cup page
<1>1. i \in Item /\ i \in present /\ last \in Item /\ IdOf[i] \in Nat /\ IdOf[last] \in Nat
  BY IdAssumption DEF TypeOK, Found
<1>2. CASE i \in Found
  <2>1. i \in page \/ IdOf[i] <= IdOf[last]
    BY <1>2 DEF IsPage
  <2>2. i \in page \/ IdOf[i] = IdOf[last]
    BY <2>1, <1>1
  <2> QED BY <2>2, <1>1 DEF Alone
<1>3. CASE i \notin Found
  <2>1. reader = "next" /\ cursor <= IdOf[i]
    BY <1>1, <1>3 DEF Found, TypeOK
  <2> QED BY <2>1 DEF CursorLosesNone, Shown
<1> QED BY <1>2, <1>3

\* The first state satisfies the invariant.
LEMMA InitInv == Init => Inv
<1>1. Init => broken \in BOOLEAN
  BY Zenon DEF Init
<1> QED BY <1>1 DEF Init, Inv, TypeOK, AheadOfCursor, NothingTwice, CursorLosesNone

\* A page keeps the invariant.
LEMMA PageInv ==
  ASSUME Inv, Page
  PROVE  Inv'
<1>0. TypeOK /\ reader \in {"first", "next"} /\ UNCHANGED <<present, stayed, handler>>
  BY DEF Inv, Page, items
<1>1. PICK full \in SUBSET Found : \E page \in SUBSET full :
        /\ IsPage(full) /\ Arrives(page, full)
        /\ \/ Scanned(page) /\ Answer(page) /\ Deliver(page)
           \/ ~Scanned(page) /\ reader' = "failed" /\ UNCHANGED <<cursor, got, twice>>
  BY DEF Page
<1>2. PICK page \in SUBSET full :
        /\ IsPage(full) /\ Arrives(page, full)
        /\ \/ Scanned(page) /\ Answer(page) /\ Deliver(page)
           \/ ~Scanned(page) /\ reader' = "failed" /\ UNCHANGED <<cursor, got, twice>>
  BY <1>1
<1>3. broken \in BOOLEAN /\ broken' = (broken \/ page # full)
  BY <1>0, <1>2 DEF TypeOK, Arrives
<1>4. broken' \in BOOLEAN /\ (broken => broken')
  BY <1>3, Zenon
<1>5. CASE ~Scanned(page) /\ reader' = "failed" /\ UNCHANGED <<cursor, got, twice>>
  BY <1>0, <1>5, <1>4 DEF Inv, TypeOK, AheadOfCursor, NothingTwice, CursorLosesNone
<1>6. CASE Answer(page) /\ Deliver(page)
  <2>1. /\ page \subseteq present /\ page \subseteq Item
        /\ \A i \in page : IdOf[i] \in Nat /\ (reader = "next" => IdOf[i] < cursor)
    BY <1>0, IdAssumption DEF Found, TypeOK
  <2>2. page \cap got = {}
    BY <1>0, <2>1, IdAssumption DEF Inv, AheadOfCursor, TypeOK
  <2>3. got' = got \cup page /\ twice' = {}
    BY <1>6, <2>2 DEF Deliver, Inv, NothingTwice
  <2>4. \A i \in got : i \in Item /\ IdOf[i] \in Nat
    BY IdAssumption, <1>0 DEF TypeOK
  <2>5. CASE page = {} /\ reader' = "end" /\ UNCHANGED cursor
    <3>1. TypeOK' BY <1>0, <1>4, <2>3, <2>5 DEF TypeOK
    <3>2. AheadOfCursor' /\ NothingTwice' BY <2>3, <2>5 DEF AheadOfCursor, NothingTwice
    <3>3. ASSUME ~broken', NEW i \in stayed, Alone(i) PROVE i \in got'
      <4>1. full = {}
        BY <1>2, <2>5, <3>3 DEF Arrives
      <4>2. Found = {}
        BY <1>0, <1>2, <4>1, EmptyPage DEF TypeOK
      <4>3. reader = "next" /\ cursor <= IdOf[i]
        BY <1>0, <4>2, IdAssumption DEF Found, TypeOK
      <4> QED BY <1>4, <2>3, <3>3, <4>3 DEF Inv, CursorLosesNone, Shown
    <3>4. CursorLosesNone'
      BY <1>0, <2>5, <3>3 DEF CursorLosesNone, Shown, Alone
    <3> QED BY <3>1, <3>2, <3>4 DEF Inv
  <2>6. ASSUME NEW last \in page, \A i \in page : IdOf[last] <= IdOf[i],
               \/ IdOf[last] > 2 /\ reader' = "next" /\ cursor' = IdOf[last]
               \/ IdOf[last] <= 2 /\ reader' = "end" /\ UNCHANGED cursor
        PROVE  Inv'
    <3>1. TypeOK' BY <1>0, <1>4, <2>1, <2>3, <2>6 DEF TypeOK
    <3>2. NothingTwice' BY <2>3 DEF NothingTwice
    <3>3. \A i \in got \cup page : IdOf[last] <= IdOf[i]
      <4>1. ASSUME NEW i \in got PROVE IdOf[last] <= IdOf[i]
        <5>1. reader = "next" /\ cursor <= IdOf[i]
          BY <1>0, <4>1 DEF Inv, AheadOfCursor
        <5> QED BY <1>0, <2>1, <2>4, <4>1, <5>1 DEF TypeOK
      <4> QED BY <2>6, <4>1
    <3>4. AheadOfCursor' BY <2>3, <2>6, <3>3 DEF AheadOfCursor
    <3>5. ASSUME ~broken', NEW i \in stayed, IdOf[last] <= IdOf[i], Alone(i) PROVE i \in got'
      <4>1. page = full
        BY <1>2, <3>5 DEF Arrives
      <4>2. page \in SUBSET Found /\ IsPage(page)
        BY <1>2, <4>1
      <4>3. i \in got \cup page
        BY <1>0, <1>4, <2>6, <3>5, <4>2, NoneSkipped DEF Inv
      <4> QED BY <2>3, <4>3
    <3>6. CASE IdOf[last] > 2 /\ reader' = "next" /\ cursor' = IdOf[last]
      <4>1. CursorLosesNone'
        BY <1>0, <3>5, <3>6 DEF CursorLosesNone, Shown, Alone
      <4> QED BY <3>1, <3>2, <3>4, <4>1 DEF Inv
    <3>7. CASE IdOf[last] <= 2 /\ reader' = "end" /\ UNCHANGED cursor
      <4>1. \A i \in stayed : i \in Item /\ IdOf[i] \in Nat
        BY <1>0, IdAssumption DEF TypeOK
      <4>2. \A i \in stayed : IdOf[last] <= IdOf[i] \/ CutOff(i)'
        BY <2>1, <2>3, <3>7, <4>1 DEF CutOff
      <4>3. CursorLosesNone'
        BY <1>0, <3>5, <3>7, <4>2 DEF CursorLosesNone, Shown, Alone
      <4> QED BY <3>1, <3>2, <3>4, <4>3 DEF Inv
    <3> QED BY <2>6, <3>6, <3>7
  <2> QED BY <1>6, <2>5, <2>6 DEF Answer
<1> QED BY <1>2, <1>5, <1>6

\* Every step keeps the invariant.
LEMMA NextInv == Inv /\ [Next]_vars => Inv'
<1> SUFFICES ASSUME Inv, [Next]_vars PROVE Inv'
  OBVIOUS
<1>1. ASSUME NEW i \in Item, Post(i) PROVE Inv'
  BY <1>1 DEF Post, walk, Inv, TypeOK, AheadOfCursor, NothingTwice, CursorLosesNone, Shown, Alone,
              CutOff
<1>2. ASSUME NEW i \in Item, Remove(i) PROVE Inv'
  BY <1>2 DEF Remove, walk, Inv, TypeOK, AheadOfCursor, NothingTwice, CursorLosesNone, Shown, Alone,
              CutOff
<1>3. CASE UNCHANGED vars
  BY <1>3 DEF vars, items, walk, Inv, TypeOK, AheadOfCursor, NothingTwice, CursorLosesNone, Shown,
              Alone, CutOff
<1> QED BY <1>1, <1>2, <1>3, PageInv DEF Next

-----------------------------------------------------------------------------
\* The walk's state has its type, and there is a cursor only above id 2.
THEOREM TypeCorrect == Spec => []TypeOK
<1>1. Inv => TypeOK BY DEF Inv
<1> QED BY InitInv, NextInv, <1>1, PTL DEF Spec

\* No walk shows an item twice, whatever is stored and deleted meanwhile.
THEOREM NothingIsShownTwice == Spec => []NothingTwice
<1>1. Inv => NothingTwice BY DEF Inv
<1> QED BY InitInv, NextInv, <1>1, PTL DEF Spec

\* A walk that ends, of which no answer broke off, has shown every item with an id of
\* its own that was there all the time, unless a page ended with id 2 or 1 above it.
THEOREM WalksAreComplete == Spec => []WalkIsComplete
<1>1. Inv => WalkIsComplete
  BY IdAssumption DEF Inv, TypeOK, CursorLosesNone, Shown, WalkIsComplete
<1> QED BY InitInv, NextInv, <1>1, PTL DEF Spec

\* Every page but the first ends the walk or moves the cursor down, to a number that
\* a page below it can be asked with: why a walk has only so many pages.
CursorFalls ==
  [][Page /\ reader = "next" => reader' # "next" \/ (cursor' \in Nat /\ cursor' < cursor)]_vars

\* For any items and page size no walk goes round in circles.
THEOREM CursorsFall == Spec => CursorFalls
<1>1. TypeOK /\ [Next]_vars
        => [Page /\ reader = "next"
              => reader' # "next" \/ (cursor' \in Nat /\ cursor' < cursor)]_vars
  <2> SUFFICES ASSUME TypeOK, Page, reader = "next", reader' = "next"
               PROVE  cursor' \in Nat /\ cursor' < cursor
    OBVIOUS
  <2>1. PICK full \in SUBSET Found : \E page \in SUBSET full : Scanned(page) /\ Answer(page)
    BY DEF Page
  <2>2. PICK last \in full : cursor' = IdOf[last]
    BY <2>1 DEF Answer
  <2>3. last \in Item /\ IdOf[last] < cursor
    BY <2>1, <2>2 DEF Found, TypeOK
  <2> QED
    BY <2>2, <2>3, IdAssumption
<1> QED
  BY <1>1, TypeCorrect, PTL DEF Spec, CursorFalls

-----------------------------------------------------------------------------
(* Requests for an image.                                                  *)

\* A request that writes has parts to write, there is a file for whoever uses it,
\* and nothing is written beyond the end of the blob.
FileInUse ==
  /\ \A r \in Req : pc[r] \in {"write", "size", "row", "send"} => file # Nil
  /\ \A r \in Writers : offset[r] < Size
  /\ file # Nil => Len(file) <= Size

\* What request r wrote is in the file, and r is writing or has written it all:
\* so it is with the request that was the last to create the file.
Wrote(r) ==
  /\ offset[r] <= Len(file)
  /\ \A i \in 1..offset[r] : file[i] = "data"
  /\ pc[r] = "write" \/ offset[r] = Size
CreatorWrote == file # Nil /\ ~damaged => \E r \in Req : Wrote(r)

\* A request that serves undisturbed has the whole file in front of it, and
\* what it has sent is data.
OnlyData(s) == \A i \in 1..Len(s) : s[i] = "data"
Undisturbed(r) == r \notin raced /\ ~damaged
ServesTheWhole ==
  /\ \A r \in Req : pc[r] \notin {"send", "sent", "failed"} => body[r] = <<>>
  /\ \A r \in Serving : Undisturbed(r) => file = Whole /\ Writers = {}
  /\ \A r \in Req : pc[r] \in {"row", "send", "sent"} /\ Undisturbed(r)
                      => length[r] = Size /\ OnlyData(body[r])

\* What is the case now was seen by whoever has begun, and what a request has
\* found out it has seen.
SeesAll ==
  \A r \in Req :
    /\ pc[r] # "idle" => Now(banned, row) \subseteq seen[r]
    /\ pc[r] \notin {"idle", "ban", "cache", "failed"} => "allowed" \in seen[r]
    /\ pc[r] \in {"send", "sent"} => "row" \in seen[r] \/ image[r]

ImageInv == ImageTypeOK /\ FileInUse /\ CreatorWrote /\ ServesTheWhole /\ SeesAll

\* Writing a part extends the file as far as the part, and changes no other part
\* that was there.
LEMMA WrittenParts ==
  ASSUME NEW f \in Seq(Part), NEW i \in Nat \ {0}
  PROVE  /\ Written(f, i) \in Seq(Part)
         /\ Len(Written(f, i)) = IF i > Len(f) THEN i ELSE Len(f)
         /\ Written(f, i)[i] = "data"
         /\ \A j \in 1..Len(f) : j # i => Written(f, i)[j] = f[j]
<1> DEFINE n == IF i > Len(f) THEN i ELSE Len(f)
<1>1. Len(f) \in Nat /\ n \in Nat /\ i \in 1..n /\ 1..Len(f) \subseteq 1..n
  OBVIOUS
<1>2. \A j \in 1..Len(f) : f[j] \in Part
  OBVIOUS
<1>3. Written(f, i) \in [1..n -> Part]
  BY <1>1, <1>2 DEF Written, Part
<1>4. Written(f, i) \in Seq(Part) /\ Len(Written(f, i)) = n
  BY <1>1, <1>3
<1> QED BY <1>1, <1>4 DEF Written

\* The whole blob is data.
LEMMA WholeIsData ==
  /\ Whole \in Seq(Part) /\ Len(Whole) = Size
  /\ \A i \in 1..Size : Whole[i] = "data"
<1>1. Whole \in [1..Size -> Part] /\ Size \in Nat
  BY SizeAssumption DEF Whole, Part
<1> QED BY <1>1 DEF Whole

\* A file that nobody writes is the whole blob, if no write was cut short.
LEMMA Settled ==
  ASSUME ImageTypeOK, FileInUse, CreatorWrote
  PROVE  SettledIsWhole
<1> SUFFICES ASSUME file # Nil, Writers = {}, ~damaged PROVE file = Whole
  BY DEF SettledIsWhole
<1>1. PICK r \in Req : Wrote(r)
  BY DEF CreatorWrote
<1>2. offset[r] = Size /\ file \in Seq(Part) /\ Size \in Nat /\ Len(file) \in Nat
  BY <1>1, SizeAssumption DEF Wrote, Writers, ImageTypeOK
<1>3. Len(file) = Size
  BY <1>1, <1>2 DEF Wrote, FileInUse
<1>4. \A i \in 1..Size : file[i] = "data"
  BY <1>1, <1>2 DEF Wrote
<1> QED BY <1>2, <1>3, <1>4 DEF Whole

\* The first state satisfies the invariant.
LEMMA ImageInitInv == ImageInit => ImageInv
<1> SUFFICES ASSUME ImageInit PROVE ImageInv
  OBVIOUS
<1>1. ImageTypeOK
  <2>1. damaged \in BOOLEAN /\ banned \in BOOLEAN /\ row \in BOOLEAN
    BY Zenon DEF ImageInit
  <2> QED BY <2>1, SizeAssumption DEF ImageInit, ImageTypeOK
<1>2. FileInUse /\ CreatorWrote
  BY DEF ImageInit, FileInUse, CreatorWrote, Writers
<1>3. ServesTheWhole /\ SeesAll
  BY DEF ImageInit, ServesTheWhole, SeesAll, Serving
<1> QED BY <1>1, <1>2, <1>3 DEF ImageInv

\* A request goes on, and neither writes nor comes to serve: the file stays as it
\* is for those that serve.
LEMMA FileRests ==
  ASSUME ImageInv, NEW r \in Req, NEW label, Goto(r, label), UNCHANGED <<cache, response>>,
         pc[r] # "write", label \notin {"write", "row"},
         label = "size" => file # Nil,
         label = "send" => pc[r] = "row",
         label = "sent" => pc[r] = "send",
         label \in {"sent", "failed"} \/ pc[r] \notin {"send", "sent", "failed"}
  PROVE  FileInUse' /\ CreatorWrote' /\ ServesTheWhole'
<1> USE DEF ImageInv
<1>1. /\ UNCHANGED <<file, offset, damaged, length, body, raced>>
      /\ pc' = [q \in Req |-> IF q = r THEN label ELSE pc[q]]
  BY DEF Goto, cache, response, ImageTypeOK
<1>2. Writers' = Writers
  BY <1>1 DEF Writers
<1>3. \A q \in Req : pc'[q] \in {"row", "send"} => pc[q] \in {"row", "send"}
  BY <1>1
<1>4. FileInUse'
  BY <1>1, <1>2, <1>3 DEF FileInUse
<1>5. CreatorWrote'
  BY <1>1 DEF CreatorWrote, Wrote
<1>6. Serving' \subseteq Serving
  BY <1>3 DEF Serving
<1>7. \A q \in Req : pc'[q] \in {"row", "send", "sent"} => pc[q] \in {"row", "send", "sent"}
  BY <1>1
<1>8. \A q \in Req : pc'[q] \notin {"send", "sent", "failed"}
                       => pc[q] \notin {"send", "sent", "failed"}
  BY <1>1
<1>9. ServesTheWhole'
  BY <1>1, <1>2, <1>6, <1>7, <1>8 DEF ServesTheWhole, Undisturbed, Whole
<1> QED BY <1>4, <1>5, <1>9

\* What can be found out now.
LEMMA NowSees ==
  ASSUME NEW ban \in BOOLEAN, NEW there \in BOOLEAN
  PROVE  /\ Now(ban, there) \subseteq {"allowed", "row"}
         /\ ~ban => "allowed" \in Now(ban, there)
         /\ there => "row" \in Now(ban, there)
BY DEF Now

\* getImage keeps the invariant.
LEMMA GetImageInv ==
  ASSUME ImageInv, NEW r \in Req, GetImage(r)
  PROVE  ImageInv'
<1>0. ImageTypeOK /\ FileInUse /\ CreatorWrote /\ ServesTheWhole /\ SeesAll
  BY DEF ImageInv
<1> USE <1>0
<1>1. CASE Start(r)
  <2>0. /\ UNCHANGED <<file, offset, damaged, length, body, raced, banned, row>>
        /\ pc[r] = "idle" /\ pc' = [pc EXCEPT ![r] = "ban"]
        /\ seen' = [seen EXCEPT ![r] = Now(banned, row)]
        /\ banned \in BOOLEAN /\ row \in BOOLEAN
    BY <1>1 DEF Start, Goto, ImageTypeOK, cache, response
  <2>1. PICK found \in BOOLEAN : image' = [image EXCEPT ![r] = found]
    BY <1>1 DEF Start
  <2>3. ImageTypeOK'
    BY <2>0, <2>1, NowSees DEF ImageTypeOK
  <2>4. FileInUse' /\ CreatorWrote' /\ ServesTheWhole'
    <3>1. Goto(r, "ban") /\ UNCHANGED <<cache, response>>
      BY <1>1 DEF Start
    <3> QED BY <2>0, <3>1, FileRests
  <2>5. SeesAll'
    <3>2. ASSUME NEW q \in Req, q # r
          PROVE  image'[q] = image[q] /\ pc'[q] = pc[q] /\ seen'[q] = seen[q]
      BY <2>0, <2>1, <3>2 DEF ImageTypeOK
    <3>3. pc'[r] = "ban" /\ seen'[r] = Now(banned, row)
      BY <2>0 DEF ImageTypeOK
    <3> QED BY <2>0, <3>2, <3>3 DEF SeesAll
  <2> QED BY <2>3, <2>4, <2>5 DEF ImageInv
<1>2. CASE CheckBan(r)
  <2>1. ImageTypeOK'
    BY <1>2 DEF CheckBan, Goto, ImageTypeOK, cache, response, author
  <2>2. FileInUse' /\ CreatorWrote' /\ ServesTheWhole'
    BY <1>2, FileRests DEF CheckBan, cache, response
  <2>3. SeesAll'
    BY <1>2 DEF CheckBan, Goto, ImageTypeOK, SeesAll, Now, author
  <2> QED BY <2>1, <2>2, <2>3 DEF ImageInv
<1>3. CASE StatSize(r)
  <2>0. UNCHANGED <<file, offset, damaged, body, banned, row, seen, image>> /\ pc[r] = "size"
    BY <1>3 DEF StatSize, Goto, cache, author
  <2>1. ImageTypeOK'
    BY <1>3, <2>0 DEF StatSize, Goto, ImageTypeOK, FileInUse
  <2>2. Writers' = Writers /\ FileInUse'
    BY <1>3, <2>0 DEF StatSize, Goto, ImageTypeOK, FileInUse, Writers
  <2>3. CreatorWrote'
    BY <1>3, <2>0 DEF StatSize, Goto, ImageTypeOK, CreatorWrote, Wrote
  <2>4. Undisturbed(r)' => file = Whole /\ Writers = {}
    BY <1>3, <2>0, Settled DEF StatSize, Goto, Undisturbed, FileInUse, SettledIsWhole
  <2>5. Undisturbed(r)' => length'[r] = Size /\ OnlyData(body'[r])
    <3>1. body'[r] = <<>> /\ length'[r] = Len(file)
      BY <1>3, <2>0 DEF StatSize, ImageTypeOK, ServesTheWhole
    <3> QED BY <2>4, <3>1, WholeIsData DEF OnlyData
  <2>6. ServesTheWhole'
    BY <1>3, <2>0, <2>2, <2>4, <2>5
    DEF StatSize, Goto, ImageTypeOK, ServesTheWhole, Undisturbed, Serving, Whole
  <2>7. SeesAll'
    BY <1>3, <2>0 DEF StatSize, Goto, ImageTypeOK, SeesAll, Now
  <2> QED BY <2>1, <2>2, <2>3, <2>6, <2>7 DEF ImageInv
<1>4. CASE LookUp(r)
  <2>1. ImageTypeOK'
    BY <1>4 DEF LookUp, Goto, ImageTypeOK, cache, response, author
  <2>2. FileInUse' /\ CreatorWrote' /\ ServesTheWhole'
    BY <1>4, FileRests DEF LookUp, cache, response
  <2>3. SeesAll'
    BY <1>4 DEF LookUp, Goto, ImageTypeOK, SeesAll, Now, author
  <2> QED BY <2>1, <2>2, <2>3 DEF ImageInv
<1>5. CASE Send(r)
  <2> DEFINE n == Len(body[r]) + 1
  <2>0. /\ UNCHANGED <<file, offset, damaged, length, raced, banned, row, seen, image>>
        /\ pc[r] = "send" /\ file \in Seq(Part) /\ body[r] \in Seq(Part) /\ n \in Nat \ {0}
    BY <1>5 DEF Send, Goto, cache, author, ImageTypeOK, FileInUse
  <2>1. CASE /\ n <= Len(file) /\ UNCHANGED pc
             /\ body' = [body EXCEPT ![r] = Append(@, file[n])]
    <3>1. file[n] \in Part /\ Append(body[r], file[n]) \in Seq(Part)
      BY <2>0, <2>1
    <3>2. ImageTypeOK'
      BY <2>0, <2>1, <3>1 DEF ImageTypeOK
    <3>3. FileInUse' /\ CreatorWrote' /\ SeesAll'
      BY <2>0, <2>1 DEF FileInUse, CreatorWrote, SeesAll, Wrote, Writers, Now
    <3>4. ASSUME Undisturbed(r) PROVE OnlyData(Append(body[r], file[n]))
      <4>1. file[n] = "data" /\ OnlyData(body[r])
        BY <2>0, <2>1, <3>4, WholeIsData DEF ServesTheWhole, Serving
      <4> QED BY <2>0, <3>1, <4>1 DEF OnlyData
    <3>5. ServesTheWhole'
      BY <2>0, <2>1, <3>4 DEF ServesTheWhole, ImageTypeOK, Serving, Writers, Undisturbed, Whole
    <3> QED BY <3>2, <3>3, <3>5 DEF ImageInv
  <2>2. CASE Goto(r, "sent") /\ UNCHANGED body
    <3>1. ImageTypeOK'
      BY <2>0, <2>2 DEF ImageTypeOK, Goto
    <3>2. FileInUse' /\ CreatorWrote' /\ ServesTheWhole'
      BY <2>0, <2>2, FileRests DEF cache, response
    <3>3. SeesAll'
      BY <2>0, <2>2 DEF ImageTypeOK, SeesAll, Now, Goto
    <3> QED BY <3>1, <3>2, <3>3 DEF ImageInv
  <2> QED BY <1>5, <2>1, <2>2 DEF Send, Goto
<1> QED BY <1>1, <1>2, <1>3, <1>4, <1>5 DEF GetImage

\* AddImageToCache keeps the invariant.
LEMMA AddImageToCacheInv ==
  ASSUME ImageInv, NEW r \in Req, AddImageToCache(r)
  PROVE  ImageInv'
<1>0. ImageTypeOK /\ FileInUse /\ CreatorWrote /\ ServesTheWhole /\ SeesAll
  BY DEF ImageInv
<1> USE <1>0
<1>1. CASE CheckBanAgain(r)
  <2>1. ImageTypeOK'
    BY <1>1 DEF CheckBanAgain, Goto, ImageTypeOK, cache, response, author
  <2>2. FileInUse' /\ CreatorWrote' /\ ServesTheWhole'
    BY <1>1, FileRests DEF CheckBanAgain, cache, response
  <2>3. SeesAll'
    BY <1>1 DEF CheckBanAgain, Goto, ImageTypeOK, SeesAll, Now, author
  <2> QED BY <2>1, <2>2, <2>3 DEF ImageInv
<1>2. CASE Stat(r)
  <2>1. ImageTypeOK'
    BY <1>2 DEF Stat, Goto, ImageTypeOK, cache, response, author
  <2>2. FileInUse' /\ CreatorWrote' /\ ServesTheWhole'
    BY <1>2, FileRests DEF Stat, cache, response
  <2>3. SeesAll'
    BY <1>2 DEF Stat, Goto, ImageTypeOK, SeesAll, Now, author
  <2> QED BY <2>1, <2>2, <2>3 DEF ImageInv
<1>3. CASE FailToFetch(r)
  <2>1. ImageTypeOK'
    BY <1>3 DEF FailToFetch, Goto, ImageTypeOK, cache, response, author
  <2>2. FileInUse' /\ CreatorWrote' /\ ServesTheWhole'
    BY <1>3, FileRests DEF FailToFetch, cache, response
  <2>3. SeesAll'
    BY <1>3 DEF FailToFetch, Goto, ImageTypeOK, SeesAll, Now, author
  <2> QED BY <2>1, <2>2, <2>3 DEF ImageInv
<1>4. CASE Create(r)
  <2>0. /\ UNCHANGED <<damaged, length, body, banned, row, seen, image>>
        /\ pc[r] = "fetch" /\ file' = <<>> /\ raced' = raced \cup Serving
        /\ pc' = [pc EXCEPT ![r] = "write"] /\ offset' = [offset EXCEPT ![r] = 0]
    BY <1>4 DEF Create, Goto, author
  <2>6. file' \in Seq(Part) /\ file' # Nil /\ Len(file') = 0
    <3>1. <<>> \in Seq({"data", "zero"}) OBVIOUS
    <3> QED BY <2>0, <3>1, NilAssumption DEF Part
  <2>1. ImageTypeOK'
    BY <2>0, <2>6, SizeAssumption DEF ImageTypeOK, Serving
  <2>2. FileInUse'
    BY <2>0, <2>6, SizeAssumption DEF ImageTypeOK, FileInUse, Writers
  <2>3. CreatorWrote'
    <3>1. Wrote(r)' BY <2>0, <2>6 DEF ImageTypeOK, Wrote
    <3> QED BY <3>1 DEF CreatorWrote
  <2>4. ServesTheWhole'
    BY <2>0 DEF ImageTypeOK, ServesTheWhole, Serving, Undisturbed
  <2>5. SeesAll'
    BY <2>0 DEF ImageTypeOK, SeesAll, Now
  <2> QED BY <2>1, <2>2, <2>3, <2>4, <2>5 DEF ImageInv
<1>5. CASE Write(r)
  <2> DEFINE i == offset[r] + 1
  <2>0. /\ UNCHANGED <<damaged, length, body, raced, banned, row, seen, image>>
        /\ pc[r] = "write" /\ r \in Writers
        /\ file' = Written(file, i) /\ offset' = [offset EXCEPT ![r] = i]
        /\ pc' = [pc EXCEPT ![r] = IF i = Size THEN "size" ELSE "write"]
    BY <1>5 DEF Write, Goto, response, author, Writers, ImageTypeOK
  <2>1. file \in Seq(Part) /\ i \in Nat \ {0} /\ i <= Size /\ Size \in Nat /\ Len(file) <= Size
    BY <2>0, SizeAssumption DEF ImageTypeOK, FileInUse, Writers
  <2>2. /\ file' \in Seq(Part) /\ file' # Nil
        /\ Len(file') = IF i > Len(file) THEN i ELSE Len(file)
        /\ file'[i] = "data" /\ \A j \in 1..Len(file) : j # i => file'[j] = file[j]
    BY <2>0, <2>1, WrittenParts, NilAssumption DEF Part
  <2>3. ImageTypeOK'
    BY <2>0, <2>1, <2>2 DEF ImageTypeOK
  <2>4. FileInUse'
    BY <2>0, <2>1, <2>2 DEF ImageTypeOK, FileInUse, Writers
  <2>5. CreatorWrote'
    <3> SUFFICES ASSUME ~damaged PROVE \E q \in Req : Wrote(q)'
      BY <2>0 DEF CreatorWrote
    <3>1. PICK q \in Req : Wrote(q)
      BY <2>1, NilAssumption DEF CreatorWrote, Part
    <3>2. offset[q] \in Nat /\ offset[q] <= Len(file) /\ Len(file) \in Nat
      BY <2>1, <3>1 DEF Wrote, ImageTypeOK
    <3>3. \A j \in 1..offset[q] : file'[j] = "data"
      BY <2>2, <3>1, <3>2 DEF Wrote
    <3>4. CASE q = r
      <4>1. offset'[q] = i /\ i <= Len(file')
        BY <2>0, <2>1, <2>2, <3>2, <3>4 DEF ImageTypeOK
      <4>2. \A j \in 1..i : file'[j] = "data"
        BY <2>1, <2>2, <3>2, <3>3, <3>4
      <4>3. pc'[q] = "write" \/ offset'[q] = Size
        BY <2>0, <3>4, <4>1 DEF ImageTypeOK
      <4> QED BY <4>1, <4>2, <4>3 DEF Wrote
    <3>5. CASE q # r
      <4>1. offset'[q] = offset[q] /\ pc'[q] = pc[q] /\ offset[q] <= Len(file')
        BY <2>0, <2>1, <2>2, <3>2, <3>5 DEF ImageTypeOK
      <4> QED BY <3>1, <3>3, <4>1 DEF Wrote
    <3> QED BY <3>4, <3>5
  <2>6. ServesTheWhole'
    <3>1. \A q \in Serving : ~Undisturbed(q)
      BY <2>0 DEF ServesTheWhole
    <3>2. Serving' \subseteq Serving
      BY <2>0 DEF ImageTypeOK, Serving
    <3> QED BY <2>0, <3>1, <3>2 DEF ImageTypeOK, ServesTheWhole, Undisturbed
  <2>7. SeesAll'
    BY <2>0 DEF ImageTypeOK, SeesAll, Now
  <2> QED BY <2>3, <2>4, <2>5, <2>6, <2>7 DEF ImageInv
<1>6. CASE FailToWrite(r)
  <2>0. /\ UNCHANGED <<file, offset, length, body, raced, banned, row, seen, image>>
        /\ pc[r] = "write" /\ pc' = [pc EXCEPT ![r] = "failed"] /\ damaged' = TRUE
    BY <1>6 DEF FailToWrite, Goto, response, author
  <2>1. ImageTypeOK'
    BY <2>0 DEF ImageTypeOK
  <2>2. FileInUse' /\ CreatorWrote'
    BY <2>0 DEF ImageTypeOK, FileInUse, CreatorWrote, Writers
  <2>3. ServesTheWhole'
    BY <2>0 DEF ImageTypeOK, ServesTheWhole, Undisturbed
  <2>4. SeesAll'
    BY <2>0 DEF ImageTypeOK, SeesAll, Now
  <2> QED BY <2>1, <2>2, <2>3, <2>4 DEF ImageInv
<1> QED BY <1>1, <1>2, <1>3, <1>4, <1>5, <1>6 DEF AddImageToCache

\* A ban, or an image that is stored or deleted, is seen by all.
LEMMA AuthorInv ==
  ASSUME ImageInv, NEW ban \in BOOLEAN, NEW there \in BOOLEAN, Author(ban, there)
  PROVE  ImageInv'
<1>0. /\ UNCHANGED <<file, offset, damaged, length, body, raced, pc, image>>
      /\ banned' = ban /\ row' = there
      /\ seen' = [q \in Req |-> IF pc[q] = "idle" THEN seen[q]
                                ELSE seen[q] \cup Now(ban, there)]
  BY DEF Author, cache, response
<1>1. ImageTypeOK'
  BY <1>0 DEF ImageInv, ImageTypeOK, Now
<1>2. FileInUse' /\ CreatorWrote'
  BY <1>0 DEF ImageInv, FileInUse, CreatorWrote, Writers, Wrote
<1>3. ServesTheWhole'
  BY <1>0 DEF ImageInv, ServesTheWhole, Serving, Writers, Undisturbed, Whole
<1>4. SeesAll'
  BY <1>0 DEF ImageInv, SeesAll, Now
<1> QED BY <1>1, <1>2, <1>3, <1>4 DEF ImageInv

\* After a crash nobody writes or serves, and what was being written is damaged.
LEMMA CrashInv ==
  ASSUME ImageInv, Crash
  PROVE  ImageInv'
<1>0. /\ UNCHANGED <<file, offset, length, body, raced, banned, row, seen, image>>
      /\ pc' = [q \in Req |-> IF pc[q] \in {"idle", "sent"} THEN pc[q] ELSE "failed"]
      /\ damaged' \in BOOLEAN /\ (~damaged' => ~damaged /\ Writers = {})
  <2>1. damaged' = (damaged \/ Writers # {}) /\ damaged \in BOOLEAN
    BY DEF Crash, ImageInv, ImageTypeOK
  <2>2. damaged' \in BOOLEAN /\ (~damaged' => ~damaged /\ Writers = {})
    BY <2>1, Zenon
  <2> QED BY <2>2 DEF Crash, response, author
<1>1. ImageTypeOK'
  BY <1>0 DEF ImageInv, ImageTypeOK
<1>2. FileInUse'
  BY <1>0 DEF ImageInv, FileInUse, Writers
<1>3. CreatorWrote'
  <2> SUFFICES ASSUME file # Nil, ~damaged' PROVE \E q \in Req : Wrote(q)'
    BY <1>0 DEF CreatorWrote
  <2>1. PICK q \in Req : Wrote(q)
    BY <1>0 DEF ImageInv, CreatorWrote
  <2> QED BY <1>0, <2>1 DEF Wrote, Writers
<1>4. ServesTheWhole'
  BY <1>0 DEF ImageInv, ServesTheWhole, Serving, Undisturbed
<1>5. SeesAll'
  BY <1>0 DEF ImageInv, SeesAll, Now
<1> QED BY <1>1, <1>2, <1>3, <1>4, <1>5 DEF ImageInv

\* Every step keeps the invariant.
LEMMA ImageNextInv == ImageInv /\ [ImageNext]_imageVars => ImageInv'
<1> SUFFICES ASSUME ImageInv, [ImageNext]_imageVars PROVE ImageInv'
  OBVIOUS
<1>1. CASE UNCHANGED imageVars
  <2>1. UNCHANGED <<file, offset, damaged, length, body, raced, banned, row, seen, pc, image>>
    BY <1>1 DEF imageVars, cache, response, author
  <2> QED BY <2>1 DEF ImageInv, ImageTypeOK, FileInUse, CreatorWrote, ServesTheWhole, SeesAll,
                     Writers, Wrote, Serving, Undisturbed, Whole, Now
<1> QED BY <1>1, GetImageInv, AddImageToCacheInv, AuthorInv, CrashInv DEF ImageNext

-----------------------------------------------------------------------------
\* The file, the requests and what they have seen have their types: in particular
\* no request writes more than the blob has.
THEOREM ImageTypeCorrect == ImageSpec => []ImageTypeOK
<1>1. ImageInv => ImageTypeOK BY DEF ImageInv
<1> QED BY ImageInitInv, ImageNextInv, <1>1, PTL DEF ImageSpec

\* However many requests create and write the file at the same time, it is whole
\* once nobody writes any more, if no write was cut short.
THEOREM CacheSettles == ImageSpec => []SettledIsWhole
<1>1. ImageInv => SettledIsWhole BY Settled DEF ImageInv
<1> QED BY ImageInitInv, ImageNextInv, <1>1, PTL DEF ImageSpec

\* However many requests there are, only one that served while another one wrote
\* can pass a part of the image, or a gap in it, for the whole.
THEOREM ResponsesAreWhole == ImageSpec => []CompleteIsWhole
<1>1. ASSUME ImageInv PROVE CompleteIsWhole
  <2> SUFFICES ASSUME NEW r \in Req, pc[r] = "sent", Len(body[r]) = length[r], Undisturbed(r)
               PROVE  body[r] = Whole
    BY DEF CompleteIsWhole, Undisturbed
  <2>1. body[r] \in Seq(Part) /\ Len(body[r]) = Size /\ OnlyData(body[r])
    BY <1>1 DEF ImageInv, ImageTypeOK, ServesTheWhole
  <2> QED BY <2>1 DEF OnlyData, Whole
<1> QED BY ImageInitInv, ImageNextInv, <1>1, PTL DEF ImageSpec

\* No image is served whose author was banned for as long as the request took; nor one
\* whose row was missing for that long, unless the request found a row by a uri.
THEOREM BansAreObserved == ImageSpec => []ServedIsAllowed
<1>1. ASSUME ImageInv PROVE ServedIsAllowed
  <2> SUFFICES ASSUME NEW r \in Req, pc[r] \in {"send", "sent"}
               PROVE  "allowed" \in seen[r] /\ ("row" \in seen[r] \/ image[r])
    BY DEF ServedIsAllowed
  <2> QED BY <1>1 DEF ImageInv, ImageTypeOK, SeesAll
<1> QED BY ImageInitInv, ImageNextInv, <1>1, PTL DEF ImageSpec

\* The blob is stored once: nobody creates the file when it is there, and whoever was
\* about to write it is through.
THEOREM BlobIsStoredOnce == ImageSpec => StoredOnce
<1> DEFINE Kept == file # Nil /\ Storers = {} => file' = file /\ Storers' = {}
<1>1. ImageTypeOK /\ [ImageNext]_imageVars => [Kept]_imageVars
  <2> SUFFICES ASSUME ImageTypeOK, [ImageNext]_imageVars, file # Nil, Storers = {}
               PROVE  file' = file /\ Storers' = {}
    OBVIOUS
  <2>1. \A r \in Req : pc[r] \notin {"fetch", "write"}
    BY DEF Storers
  <2>2. ASSUME NEW r \in Req, NEW label, label \notin {"fetch", "write"}, Goto(r, label)
        PROVE  Storers' = {}
    BY <2>1, <2>2 DEF Storers, Goto, ImageTypeOK
  <2>3. ASSUME UNCHANGED pc PROVE Storers' = {}
    BY <2>1, <2>3 DEF Storers
  <2>4. ASSUME NEW r \in Req, GetImage(r) PROVE file' = file /\ Storers' = {}
    BY <2>2, <2>3, <2>4 DEF GetImage, Start, CheckBan, StatSize, LookUp, Send, cache
  <2>5. ASSUME NEW r \in Req, AddImageToCache(r) PROVE file' = file /\ Storers' = {}
    BY <2>1, <2>2, <2>5
       DEF AddImageToCache, CheckBanAgain, Stat, FailToFetch, Create, Write, FailToWrite, cache
  <2>6. ASSUME NEW ban \in BOOLEAN, NEW r \in BOOLEAN, Author(ban, r)
        PROVE  file' = file /\ Storers' = {}
    BY <2>3, <2>6 DEF Author, cache
  <2>7. CASE Crash
    BY <2>1, <2>7 DEF Crash, Storers
  <2>8. CASE UNCHANGED imageVars
    BY <2>3, <2>8 DEF imageVars, cache
  <2> QED
    BY <2>4, <2>5, <2>6, <2>7, <2>8 DEF ImageNext
<1> QED
  BY <1>1, ImageTypeCorrect, PTL DEF ImageSpec, StoredOnce
=============================================================================
