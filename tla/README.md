# Formal verification of rvcx

rvcx is the backend of the xcvr appview: it hosts lrc channels over websockets
(with the library lrcd), keeps a PostgreSQL cache of atproto records, writes
signets, messages and channels of its own to an atproto repository, acts for its
users as an OAuth client, and streams what happens in a channel to lex stream
subscribers. This directory holds TLA+ models of it, the TLC runs that check
them on small instances, and TLAPS proofs of their main properties for all
instances. File names below are relative to `src/server/internal` unless they
begin with `src/`.

## 1. The system

### Components, their state and operations

| Component | Code | State | Operations |
|---|---|---|---|
| Channel server | `model/channel.go` | a `channelModel` per channel: `server`, `initChan`, `mediainitChan`, `cancel`, `ctx`, `lastID`, `valid` | `getServer`, the goroutine `handleInitEvents` with its five-minute idle stop, `DeleteChannel`, `UpdateChannel` |
| Lex stream | `model/channelLexiconStream.go` | `cm.clients`, a bus of 10 per subscriber | `WSHandler`, `wsWriter`, `broadcast` |
| Channel registry | `model/channel.go`, `recordmanager/channel.go`, `db/db.go`, `db/lexicon.go`, `src/server/cmd/main.go` | table `channels`, `uriMap` | post, update, delete by request and by jetstream; `Init` at start |
| Record ingestion | `recordmanager/{message,signet,media}.go`, `atplistener/jetstream.go`, `db/lexicon.go` | tables `signets`, `messages`, `images` | `Post*`, `Accept*`, `forward*`, `checkInterference` |
| Jetstream consumer | `atplistener/jetstream.go`, `src/server/cmd/main.go` | a cursor, which is a time | `HandleEvent`, one event at a time; `consumeLoop` reconnects |
| Instance repository client | `oauth/passwordclient.go` | two tokens, one header map | `createMyRecord`, `deleteMyRecord`, `RefreshSession` |
| User repository client | `oauth/oauthclient.go` | none of its own | records, profiles and blobs of a user |
| Sessions and bans | `handler/oauthHandlers.go`, `db/oauth.go`, `db/db.go` | tables `sessions`, `bans`; the cookies of browsers | login, logout, `oauthMiddleware`, `postBan` |
| History queries | `handler/lexiconHandlers.go`, `db/db.go` | a cursor in the hands of the reader | `getHistory`, `getMessages` |
| Message ids | `model/channel.go`, `recordmanager/signet.go`, `db/db.go`, `db/lexicon.go` | `lastID` of each `channelModel`, column `message_id` of table `signets` | `GetChannelURIs` at start, `AddChannel`, `QuerySignet` |
| Profiles, identities | `recordmanager/profile.go`, `oauth/oauthclient.go`, `atputils/identity.go`, `db/db.go`, `db/lexicon.go` | tables `profiles`, `did_handles` | first login, posted profile, profile event; `FullResolveDid`, `FullResolveHandle`, `ensureIKnowYou` |
| Image cache | `recordmanager/media.go`, `handler/lrcHandlers.go` | files in `./uploads` | `AddImageToCache`, `getImage`: store once, serve for ever |

### How they interact

* A websocket request looks a `channelModel` up in `uriMap` and calls
  `getServer`, which starts an lrcd server and the goroutine
  `handleInitEvents` when there is none. lrcd sends the inits of participants
  over two buffered Go channels to that goroutine, which posts a signet for each
  through the record manager.
* The record manager writes to a repository (its own through the password
  client, a user's through OAuth), then to the database, then broadcasts to the
  subscribers of the channel's lex stream.
* The commit it made comes back over the jetstream, whose goroutine stores and
  broadcasts it as well. Who broadcasts is decided by who inserted the row.
* Channels go the same way: repository, table, `uriMap`; and a deletion cancels
  the goroutine of the channel's server.
* All of these run in goroutines of their own: one for each HTTP request, one
  for each running channel, one for the jetstream. They share `uriMap`, the
  fields of each `channelModel`, and the client of the instance's repository.
  `m.mu` covers only `getServer`; `clientsmu` covers `cm.clients`.

### What is hard about it

Unlocked shared state between goroutines (the idle stop against `getServer`, the
shared Authorization header); two writers that do not know of each other (a
request and the jetstream event of its own record); a stream that is replayed
from a minute back after every reconnect and skips what is older; crashes
between repository, table and map; slow and lost websocket peers; sessions that
the OAuth library saves again while they are being deleted; pages of a history
that changes under the reader; message ids that are rebuilt from a table after a
crash; a file that requests truncate and read under each other; handles that
change hands while they are looked up. `PROJECT.json` lists every such hazard at its
line, with the properties that cover it.

## 2. What each component has to guarantee

* Channel server: ids never repeat or go back; the idle stop only ever stops its
  own, running server; nobody sits on a running server that the channel does not
  publish; signets are posted for inits that happened, once, in order; goroutines
  end when everybody has left.
* Lex stream: a subscriber sees a gapless run of broadcasts until it is cut off;
  a slow one never holds up the others; no send on a closed bus.
* Registry: table and map agree; the table follows the repositories over any
  replay; a stored channel can be found.
* Ingestion: a record is broadcast once; the cache ends up with what was written
  and without what was deleted.
* Password client: the session stays renewable; what a call reports is true.
* Sessions: a banned and kicked account is out; a logout lasts.
* History: a walk shows nothing twice, skips nothing that stayed, and ends.
* Message ids: they go on across restarts, so that a message finds the signet of
  its own init.
* Profiles, identities: what is stored was true once, a handle and a did have one
  answer each, and who was met is known.
* Image cache: the file ends up whole whoever wrote it; a response that looks
  complete is; nothing of a banned author is served.

## 3. The modules

| Module | Models | Actions and code |
|---|---|---|
| `SignetLog` | abstract: what a channel promises to the protocol | `Issue`, `Witness` |
| `ChannelServer` | one `channelModel` for its lifetime, access by access | `Refuse` .. `Return`: the statements of `getServer`; `EvalSelect`, `ContextDone`, `Receive`, `Tick`: the select of `handleInitEvents`; `Stop` .. `NilCancel`: the six assignments of the idle stop; `DeleteRow`, `Uncache`, `Cancel`, `AcceptCreate`, `AcceptUpdate`, `SetValid`: deletion, creation and update of the channel |
| `RecordCache` | abstract: what the tables promise about the records they copy | `Publish`, `Withdraw`, `Show`, `Hide`, `DropBase`, `RestoreBase` |
| `RepoCalls` | abstract: what a call to the instance's repository is to its caller | `Succeed`, `LoseAnswer`, `Fail` |
| `LexFeed` | abstract: what a subscriber is promised | `Broadcast`, `Subscribe`, `Deliver`, `Leave` |
| `LexStream` | one channel's subscribers | `Upgrade`, `Register`, `Unregister`: `WSHandler`; `Take`, `Write`, `BusClosed`, `PingFails`: `wsWriter`; `Broadcast`, `Send`, `Unlock`: `broadcast`, one step for each client it visits |
| `ChannelRegistry` | channels in repositories, table and `uriMap` | `PostChannel`, `DeleteMine`, `DeleteAsAdmin`: requests; `Fetch`: the jetstream takes an event; `Store`, `Insert`, `Add`, `DeleteRow`, `DeleteEntry`: their steps; `Crash`, `Restart`, `Reconnect` |
| `RecordIngest` | signets, messages, images of one channel | `PostRecord`, `CreateRecord`, `CreateFails`: requests; `Fetch`; `Store`, `Insert`, `CheckInterference`, `Unsign`, `Delete`, `Forward`, `Fail`: the steps behind them; `DropChannel`, `RestoreChannel`: what the registry does to it |
| `PasswordClient` | the client of the instance's repository | `SetAccess`, `Send`: `createMyRecord`, `deleteMyRecord`; `SetRefresh`, `SendRefresh`, `StoreAccess`, `StoreRefresh`: `RefreshSession` |
| `Sessions` | the sessions and bans of one account | `OauthCallback`, `CheckBan`, `ResumeForProfile`, `CreateProfile`: login; `Begin`, `ResumeSession`, `Act`, `DeleteSession`, `ClearCookie`: requests and logout; `AddBan`, `GetBanned`, `DeleteAllSessions`: `postBan` |
| `SignetIds` | the ids of one channel uri over the lives of its `channelModel` objects | `Speak`, `Receive`, `CreateSignet`, `StoreSignet`: from an init to its signet; `AcceptSignet`, `DeleteSignet`: the jetstream; `DeleteRow`, `Drop`, `StoreRow`, `Add`: the channel is deleted and added again; `Restart`: `GetChannelURIs` and `Init`; operator `QuerySignet` |
| `ImageCache` | requests for one image | `Start`, `CheckBan`, `StatSize`, `LookUp`, `Send`: `getImage`; `CheckBanAgain`, `Stat`, `Create`, `Write` and their failures: `AddImageToCache`; `Author`: bans and the row; `Crash` |
| `Accounts` | `did_handles` and `profiles` | `Resolve`, `TryLookup`, `StoreDidHandle`, `FailToStore`: an account is brought up; `PostProfile`, `GetRecord`, `CreateRecord`, `Insert`: a login, a posted profile, an event; `Rename`, `UserCommits`: the rest of the world |
| `History` | a reader's walk | `Page`: a request of `getHistory` or `getMessages`; `Post`, `Remove` |

By `INSTANCE ... WITH`, `ChannelServer` implements `SignetLog`, `LexStream`
implements `LexFeed`, `PasswordClient` implements `RepoCalls`, and
`ChannelRegistry` and `RecordIngest` both implement `RecordCache`: the first with
nothing its rows refer to, the second with the row of the channel as the base
that all its rows go with. In `RecordCache` nothing is said of order: a row shows
what its record said at *some* time, and may come back after it was removed, for
that is all that replays allow in general. What holds when nothing was missed is
what `FollowsRepo`, `CacheComplete` and `CacheForgets` say.

Each `MC<module>` instantiates a module for TLC, each `<module>Proofs` holds its
theorems; `ReadingProofs` those of `History` and `ImageCache`, the two
components that only read the tables, and `AccountProofs` those of `Sessions`
and `Accounts`. The names in `ImageCache` and `Accounts` that begin with `Image`
and `Account` (`ImageSpec`, `AccountTypeOK`) keep the two apart there.
Definitions marked "Mutant" are plausible bugs; nothing uses them but the
exercise of showing that a property would notice.

Granularity. Where goroutines share memory without a lock (`ChannelServer`,
`PasswordClient`) each access is a step. Where a mutex covers a block
(`clientsmu`) the block is one step, or one step for each client where that
makes a difference. A SQL statement is one step. It may be carried out although
`Exec` returns an error, because its answer got lost: that is an outcome of its
own in `ChannelRegistry`, `SignetIds`, `Sessions` and `Accounts`; in
`RecordIngest` it is the step and a failure of the worker right after it; and
`ChannelServer`, which knows of no database but whether there is a row, leaves
it to `ChannelRegistry`. An HTTP call to a repository is one step, with its
answer, and may fail; in `PasswordClient`, `SignetIds` and `Accounts` the
repository may carry a request out and lose the answer. A write of a file, and
the copy of a file to a response, is one step for each part.

Abstractions. Ids are small numbers below the named bound `MaxId`, commits of a
stream are bounded by `MaxLog`, refreshes by `MaxGen`, broadcasts by `MaxSent`,
objects of a channel by `MaxLife`; an image has `Size` parts, and `MaxInt` stands
for the largest value of the 32-bit column.
A record is one of two good versions or "bad" (it does not parse, or does not
validate). Time is nondeterminism: a tick, an expiring token or ban, a jetstream
cursor that comes back at any earlier event, or later if the process was away.
`SignetIds` and `Accounts` have no cursor: whatever was published can be handled
at any time, as often as it likes. In `SignetIds` a life has one counter, which
`ChannelServer` shows to be handed from server to server (`FreshIds`); signets of
other issuers, who may use any id, are left out. In `Accounts` the directory is a
cache and may name any handle the account had.

External parts, modelled from how the code uses them: lrcd (`Connected`,
`IdLeft`, `Speak`, `Disconnect`), a PDS and the jetstream behind it (`Commit`,
`UserCommits`, `Accepted`, `CarryOut`, `Renewable`, `Expire`, `Lose`,
`Refuse`, `Publish`), the identity directory (`Rename`), the file system
(`Written`), the websocket peer (`Peer`), the process and who runs it (`Crash`,
the fairness of `Restart`).

History variables record what no variable of the program holds. Some are what a
property is about (`issued`, `posted`, `forwards`, `removed`, `done`, `got`,
`twice`, `stayed`, `deleted`, `left`, `kicked`, `start`, `known`, `seen`, `had`,
`published`, `met`, `loggedIn`). The others record that one of the things
happened for which the code makes no promise, so that one model with every
failure in it can be checked: `missed` (an event fell out of the minute, a
statement was refused, or the channel was gone), `helped` (a request wrote what
the jetstream then wrote too), `lost` and `excused` (an answer was lost; a call
overlapped another or was refused without a reason), `unread` (a session row
could not be read), `revived` (a session was saved again since its row was last
deleted), `broken` (an answer of the database broke off), `raced` (a request
served a file while another wrote it), `damaged` (a write was cut short),
`refused` (a login went on although its handle could not be stored), `dropped`
(the table had the very handle an account was to be stored with, of another
did), `apart` (the row of a channel was written or deleted with an error, so
that the map was left alone, or the load at the start broke off before it, and
the channel was not added or deleted anew since).

## 4. The runs

`tlc -config <cfg> <MC module>`; states are distinct states.

| Run | Instance | Checks | Shows |
|---|---|---|---|
| `channel` | 2 participants, ids up to 2, text inits, a buffer of 1, jetstream worker, fair; 573 k states | `HandlerOwnsServer`, `FreshIds`, `OneLiveServer`, `ImplementsSignetLog`, `NoGoroutineLeak` | Whatever the idle stop, a second `getServer` and a deletion do to each other, the loop and `Stop()` see their own running server, ids grow from round to round, no participant is on a lost server, signets are those of `SignetLog`, and the goroutine of a server that everybody has left ends, or the process has |
| `channel_delete` | as `channel` with 1 id, HTTP worker | `DeletableWithoutServer`, violated | Finding 1 |
| `lex` | 2 subscribers, bus of 1, 2 broadcasts, fair; 13 k states | `TypeOK`, `NoSendOnClosed`, `RegisteredHasHandler`, `ImplementsLexFeed`, `BroadcastCompletes`, `CatchesUp`, `DeadClientsLeave` | Eviction is safe against the handler that reads the same bus, nothing is skipped, nobody is held up |
| `client` | 2 creating calls, 1 deleting call, 3 refreshes; 702 k states | `CanRenew`, `ReportsTheTruth`, `FailsOnlyInRace`, `ImplementsRepoCalls` | The shared header and tokens may make a racing call fail but not lose the session or lie; and unless an answer is lost a call is carried out in the step that ends it, or never |
| `sessions` | 2 logins, 2 requests, 1 administrator, who may ban again; 110 k states | `BannedIsOut`, `LoggedOutIsGone` | The order of ban and kick against save and check leaves no gap, except for sessions saved again after it |
| `history` | 6 items with ids 0, 1, 2, 3, 3 and 4, pages of 2, fair reader; 79 k states | `NothingTwice`, `WalkIsComplete`, `WalkEnds` | The cursor is right under insertions and deletions, down to where a page ends with id 2 or less |
| `registry` | 2 channels, one without a topic, 1 request and the jetstream, 3 commits; 326 k states | `BoundaryAgreement`, `FollowsRepo`, `KeptIsServed`, `ImplementsRecordCache` | Table, map and repositories stay in step over replays, crashes and failures; where an answer of the database is lost or a load breaks off, only the channels it concerns go out of step; no row appears that was not published, is overwritten, or goes unasked |
| `registry_topic` | 1 channel without a topic, fair | `ComesBackUp`, violated | Finding 2 |
| `ingest` | a signet of this and one of another instance, a message, an image, 1 request, 3 commits (deletions by this instance come on top); 1.3 M states | `BroadcastOnce`, `CacheComplete`, `CacheForgets`, `RowsHaveReasons` | Request and jetstream do not broadcast a record twice; a replayed stream neither loses nor revives a record; each change of a row has its reason in a repository, also while the interference check removes what was just stored |
| `signet_ids` | 2 lives, ids up to 4, the column up to 3, a jetstream and an HTTP worker; 1.0 M states | `TypeOK`, `IdsGoOn`, `WrongSignetOnlyAfterLoss` | Ids continue after what the table held when the process started; a message finds a signet that is not its own only if one of the lives began without the other's |
| `images` | 3 requests, an image of 2 parts; 1.6 M states | `SettledIsWhole`, `CompleteIsWhole`, `ServedIsAllowed`, `StoredOnce` | Requests that truncate and write the file under each other leave it whole; a complete response is whole unless it overlapped a writer or followed a damage; the ban query whose error is ignored is made up for; without a row only a request that gave the uri of another row of the author gets the image; a file nobody is storing stays as it is |
| `accounts` | 2 accounts, one of them with profiles, 1 handle that may change hands, 1 request and the jetstream; 1.7 M states | `RowsWereTrue`, `MetIsKnown`, `ProfileIsTheirs` | Concurrent lookups, logins, posts and events keep the two tables true to what was the case once, whatever becomes of the insertions; and whoever was met has a row unless his own insertion was dropped or failed |

The type invariants are theorems; the runs keep those of `LexStream` and
`SignetIds`, which also say that no bus overflows and that only published signets
are stored. Of `RecordIngest`'s refinement of `RecordCache` the run checks the
consequence `RowsHaveReasons`, for evaluating the whole mapping on each of its
transitions takes too long; the refinement itself is a theorem.

Why the bounds are enough. In `channel` a server is named by the request that
starts it, so that two requests give two rounds, with the goroutine of the first
still in its idle stop while the second runs; that is every pair of rounds that
can interact, because a goroutine holds on to nothing but its own round. Two ids
and buffers of one make an init wait in a buffer, and a participant speak again
after another round began. Media inits have a buffer and a select case of their
own that are twins of the text ones; the theorems cover both kinds. The theorems
of section 6 are for any number of requests, ids and any capacity. In `lex` a
bus of one that two broadcasts fill overflows; the second subscriber gives
broadcasts that visit one client before and one after it unregistered. Three
calls of `client` allow one call to renew while a second sends a request with
the header of a third. Three commits are the shortest streams in which a record
is created, deleted and created again, and in which a channel or signet, its
post, and a deletion follow each other; the cursor may replay them from any
place any number of times; one request and the jetstream are two workers that
know nothing of each other. Six items make three pages, with the shared id at a
page boundary or inside a page, and pages that end with each of the ids around
the limit of 2. Two lives are all that the properties of `SignetIds` relate;
four ids leave room for three inits in the first life and for two after a
restart, and `MaxInt` below `MaxId` makes the last one too large for the column;
more lives and ids are covered by the theorems. Three requests for an image are
two that write it and one that reads it meanwhile, and two parts make a
truncation in the middle of a write leave a gap. One handle and `handle.invalid`
for two accounts give every conflict of the two keys of `did_handles`; two
versions of a profile tell its row from its record.

Symmetry is used for names that are interchangeable, in runs without liveness
properties only (the refinement of `SignetLog` is a safety property).

Deadlock is checked in `sessions`, `history`, `images` and `accounts`. The other models do come to
rest: a process that panicked or a stream, a supply of ids, of calls or of
subscribers that is used up is the end of the instance, so their runs set
`CHECK_DEADLOCK FALSE`; that nobody waits for ever where he should not is what
`NoGoroutineLeak`, `BroadcastCompletes`, `CatchesUp`, `DeadClientsLeave` and
`WalkEnds` say.

## 5. Fairness

* `ChannelServer!FairSpec`: a goroutine that can take a step takes one (Go's
  scheduler), so the ticker of `handleInitEvents` fires when nothing else does.
  A select with several ready cases has no fairness between them. A mutex is
  handed over. Nobody has to connect, speak, leave or delete.
* `LexStream!FairSpec`: the same for the handlers and the broadcaster. Strong
  fairness for `Register` and `Unregister` is Go's mutex, which does not starve a
  waiter; for `Write`, a peer that takes bytes again and again lets a write
  through; for `PingFails`, the ticker competes with the bus in a select that
  picks at random. Nothing is assumed of peers.
* `ChannelRegistry!FairSpec`: whoever runs the instance starts it again when it
  is down, for otherwise `ComesBackUp` would fail for want of a start; it is asked
  only of the start that loads all rows (`Restart(db)`), no answer has to break off.
* `History!FairSpec`: the reader goes on asking, and the database is not obliged
  to break an answer off; otherwise the end that such an answer puts to a walk
  could hide a cursor that does not move.

## 6. What is proved

The proofs hold for every value of the constants under the named assumptions of
each module: positive capacities and page sizes, natural bounds, workers and
kinds as named, and that the sets of names do not overlap. Nothing else is
assumed.

| Module | Theorems | Inductive invariant, and why it is needed |
|---|---|---|
| `ChannelServerProofs` | `TypeCorrect`, `HandlerOwnership`, `OneServer`, `IdsAreFresh`, `Refinement` (of `SignetLog`), `SignetsAreUnique` | `IInv` = `TypeInv`, `ControlInv`, `IdInv`, `QueueInv`. `HandlerOwnsServer` alone does not survive a `getServer` between two assignments of the idle stop: `ControlInv` says who may hold the lock (`MutexInv`), that a server being built is known to nobody (`NewInv`, `LockInv`), that a published server that is stopped has a goroutine about to unpublish it (`OwnerInv`, `ServerInv`), and which channels a goroutine may listen to (`ChanInv`). `IdInv` adds that no id is larger than what the next server starts from; `QueueInv` that what waits in the buffers happened, is in order and was not passed over, which makes each `Receive` a `Witness`. `SignetsAreUnique` needs nothing of the channel: `LogInv` (posted signets are of issued inits and in their order) is an invariant of `SignetLog`, and the refinement carries its consequence over |
| `LexStreamProofs` | `TypeCorrect`, `BusesAreOpen`, `HandlersRemoveClients`, `Refinement` (of `LexFeed`) | `IInv` = `TypeOK`, `ClientInv`, `FeedInv`: the loop of a broadcast visits registered clients only, and hand and bus of a subscriber are the broadcasts from `next` on without a gap |
| `PasswordClientProofs` | `TypeCorrect`, `SessionCanBeRenewed`, `CallsReportTheTruth`, `FailuresHaveReasons`, `Refinement` (of `RepoCalls`) | `Inv`: no token newer than the client's is in a header or a hand (`NoneAhead`), and one call at a time holds a newer one (`OneRenewer`), or `CanRenew` would not survive a store. `RaceInv` adds that a renewed token stays good until others interfere (`RenewedGood`) and that a call nobody overlapped is alone with header and tokens (`Solo`). The refinement needs from `Inv` that a call which may still be sent was carried out only if its answer was lost (`Carried`) |
| `AccountProofs`, of `Sessions` | `TypeCorrect`, `BannedAreOut`, `LogoutWorks` | `OnlyBarred`: the sessions left after a kick belong to logins that will ask for bans yet, or gave up; `StaysDeleted` for a logout between row and cookie |
| `AccountProofs`, of `Accounts` | `AccountTypeCorrect`, `HandlesWereTrue`, `TheMetAreKnown`, `ProfilesAreTheirs` | `AccountInv`: what a task is about to store the account had or published at some time (`TasksAreTrue`); whoever reached a step behind the lookup has a row, was dropped or was refused (`LoginsAreKnown`); a record in a repository is among the published (`RepoIsPublished`) |
| `ReadingProofs`, of `History` | `TypeCorrect`, `NothingIsShownTwice`, `WalksAreComplete`, `CursorsFall` | `AheadOfCursor`: everything shown is at or above the cursor; `CursorLosesNone`: everything that stayed above it was shown. `CursorsFall` is the variant behind `WalkEnds`: a page that does not end the walk moves the cursor down, and cursors are natural numbers |
| `ReadingProofs`, of `ImageCache` | `ImageTypeCorrect`, `CacheSettles`, `ResponsesAreWhole`, `BansAreObserved`, `BlobIsStoredOnce` | `ImageInv`: a request that is writing has a file under it (`FileInUse`); the last one to have created the file has truncated all others, so what it has written is still there (`CreatorWrote`), whatever gaps the others leave; a request that serves unraced has the whole file (`ServesTheWhole`) and has seen the author allowed (`SeesAll`) |
| `ChannelRegistryProofs` | `TypeCorrect`, `KeptAreServed`, `TableAndMapAgree`, `TableFollowsRepo`, `Refinement` (of `RecordCache`) | each step's task matches the table (`InHand`, `DeletesRecorded`); for one worker `Agreement` between its steps, on every channel that is in hand or not in `apart`, and `Follows`: table and hand are what the handled part of the stream told, and the rest of it tells what the repository holds. `HandsAreTrue`, for the refinement: what a worker is about to insert was published |
| `RecordIngestProofs` | `TypeCorrect`, `RecordsBroadcastOnce`, `CacheIsComplete`, `CacheIsClean`, `Refinement` (of `RecordCache`), `RowsFollowRecords` | `OneForwarder`: while a row stands only one worker is, or was, about to forward its record. `HandsInv`: what the jetstream goroutine is about to delete was deleted by the event in hand or a later one. `CompleteInv`: what the handled part of the stream wrote is in the table, or in the hand of the goroutine, or deleted further on; a signet's event is handled before its posts', which is why they find it. `ForgetInv`, with `LogTells`: a row or insertion in hand whose record is gone has its deletion still to come. `HandsAreTrue`, for the refinement: insertions in hand were published, deletions in hand withdrawn, with all that refers to them, and without the channel there are no rows; `RowsFollowRecords` holds of every `RecordCache` |
| `SignetIdsProofs` | `TypeCorrect`, `IdsContinue`, `WrongSignetsNeedLoss` | `IInv`: a life never counts below where it began (`CountsUp`), and began at or above every signet it was computed from, all of them of earlier lives (`StartsAboveKnown`), so that whatever it numbers is above them |

The refinement mappings use the history variables the abstract modules have as
their own (`issued` and `posted`; `done` and `lost`; `deleted` for the withdrawn
channels), and the log of the stream for what was published and withdrawn.

Model-checked only. Liveness (`NoGoroutineLeak`, `BroadcastCompletes`,
`CatchesUp`, `DeadClientsLeave`, `WalkEnds`), for the prover handles neither
fairness nor ENABLED; every other property of a passing run is a theorem.
Induction over data and recursive
operators are out of the prover's reach too; the models have neither, so nothing
is lost by it.

## 7. Findings

1. `channel_delete`: `DeleteChannel` calls `cm.cancel()` although it is nil before
   the first `getServer` and after an idle stop. `net/http` recovers the panic of a
   request; on the jetstream goroutine it ends the process.
2. `registry_topic`: a channel without a topic, which the lexicon allows, is stored
   as NULL and scanned into a string at the start, where the error is a panic.

Behaviour met while modelling that the properties allow and no run is about:

* `SaveSession` is an upsert: a request or login that resumed its session before a
  ban saves it again after the kick, and the account is in (`revived`).
* The update statements are plain INSERTs, so an edit of a known record fails and
  the cache keeps the version before it; a row of `profiles` is never changed.
* After a crash, or when a channel is added again, ids are given out a second
  time, and `QuerySignet` has two rows to choose from. A deleted channel's server
  runs on for those who are connected, under the ids of the old object.
* A file in `./uploads` that a full disk or a crash cut short is served for ever;
  a request that reads while another writes may answer with a part of the image.
* All accounts the directory has no handle for share `handle.invalid`: one of them
  has the row, and the jetstream lets the others in without one (`dropped`).
* `GetChannelURIs` does not ask `rows.Err()`: a start whose answer breaks off
  serves the channels before the break only, until the next start. A channel whose
  INSERT was carried out but answered with an error is stored and not served: a
  replay finds the row and adds nothing (`apart`).
* A row of `images` without a `blob_cid`, which the jetstream makes of a media
  record without a blob (`atplistener/jetstream.go:443-450`), lets the request that names its uri name any cid of the author:
  the image is served without a row of its own.
* An update that moves a channel to another host ends the goroutine and leaves the
  server published, with nobody to read its inits or to stop it.
* Whoever posts a profile when there is a record gets the record there is.
* `handleProfileDelete` names a column `profiles` does not have: the row stays.
* A tick may win the select over inits in the buffers, which then get no signet.
* A request may find the cancel of the round before, and the old goroutine may
  then call or clear the cancel of the new round.
* A deletion between the row and the map entry of a posted channel leaves an
  entry without a row until the next start.
* A channel deleted by the administrator comes back with a replay of its creation.
* The deletion of an image is dropped: `handleMediaDelete` parses a record that a
  delete event does not carry.
* A message update that does not parse goes on with a nil message and panics.
* A message without nick or color makes `getHistory` fail for its page.
* Items that share an id may be lost at the end of a page, and items below a page
  that ends with id 2 or 1 always are: id 1 is given out after a start of a channel
  without signets (`COALESCE(MAX(message_id), 0)`), id 0 by others. `rows.Err()` is not
  asked, so a broken answer looks like a short page.
* A lost answer of `createRecord` makes two records. A call is one step in
  `ChannelServer` and `RecordIngest`, which `RepoCalls` justifies but for lost
  answers, so "at most once" there is about calls. A
  lost answer of `refreshSession` leaves a spent refresh token until a restart.
* Refused logins leave their row in `sessions`; the latest row of `bans` counts,
  so a later, shorter ban replaces a longer one.
* `message_id` is a signed 32-bit column for ids that are unsigned.

## 8. What is not modelled

* What a record, a view or a page contains, beyond what control depends on; the
  generated CBOR code, lexicon types, logging, key generation, URI formatting.
* The start of an OAuth flow and its table of requests, keys and metadata.
* Posting media without a session (`postMedia` with a nil client), which panics in
  the request, and uploads, which only pass a blob on to the user's repository.
* `GetPDSFromDid` and the views of channels and last messages, which only read.
* Signets of other issuers in `SignetIds`, which may have any id.
* lrcd itself: how it numbers inits and ends connections is external.
* A data race inside a Go map or a word-sized field beyond the order of accesses:
  Go aborts on the first (`Crash`), and pointers are read and written whole.
* A message id going around 2^32.

## 9. Plan

Done: the modules of section 3, each with its run or as the abstraction of others;
theorems for every safety property of the passing runs, and five refinements.

Next:

1. Compositions: `ChannelRegistry` with several `channelModel` objects of
   `ChannelServer` (a subscriber holding an object that was deleted and added
   again), and `RecordIngest` with `LexStream` through `LexFeed` (in what order
   broadcasts of racing workers reach a subscriber).
2. The variants behind the other liveness properties, as action properties like
   `CursorFalls`: what has to shrink until a bus is empty or a goroutine ends.
3. `FollowsRepo` and `CacheComplete` channel by channel and record by record, so
   that one missed event does not excuse the others.
4. Signets of other issuers in `SignetIds`, and the start of an OAuth flow.
