# zevBot in TLA+

zevBot is a WhatsApp client that other programs drive over a WebSocket. It is
built on whatsmeow; `src/` holds the bot (main, session, hub, messages, command
line) and a copy of whatsmeow's store: the SQL-backed implementation of every
store interface, with the caches in front of it.

The modules here model the parts of that code in which something can go wrong
that a unit test would hardly reach: goroutines that share caches, channels and
tables, transactions that fail half way, processes that end between two
statements. TLC checks them on small instances, TLAPS proves the most important
results for all values of the constants.

    tlc -config MCLidMap.cfg MCLidMap      model-check one run
    tlapm LidMapProofs.tla                 check one module of proofs

`main.go` opens its database through `src/store/sqlstore`, `session.go` imports
whatsmeow's own `store` package. The interfaces are the same; the modules model
the code in `src/`.

## 1. Inventory

### The bot

| Part | State | Operations | Interacts with |
|---|---|---|---|
| WebSocket hub (`ws.go`) | map of clients under an RWMutex, a channel `send` of 64 events per client, the channel `Control` of 64 messages | `ServeWS` (register, reader loop, deferred exit), a writer goroutine per client with keep-alive pings, `Broadcast` | `Bot.run` reads Control; every goroutine that reports something broadcasts |
| Session loop (`session.go`) | whatsmeow client, paired or not | `run` (pairing, connect, select loop), `handleControl`, `handleWAEvent`, `logout` | hub, whatsmeow, device store |
| Pairing | a result channel, a QR channel | `runPairCode`, `runQR` | whatsmeow's event goroutine, hub |
| Messages (`messages.go`) | none | the Event and Control records | hub, session loop |
| Process (`main.go`) | context, database | signal handling, opening and closing the store, exit code | all |
| Command line (`cli.go`) | none | parsing of os.Args | main |

Hard here: a client leaves between two halves of a broadcast; a client stops
reading; the control channel fills; reader and writer have to end each other;
the context ends while messages wait; pairing blocks the control loop.

What makes it correct: a channel is closed only when its client is gone and the
client is gone only together with its channel; events of one goroutine arrive
in order and once; a control message gets at most one answer, and one that was
accepted gets one; no dead connection leaves a goroutine or a map entry behind.

### The store

| Part | State | Operations | Interacts with |
|---|---|---|---|
| LID map (`lidmap.go`) | table `lid_map`, two caches, `cacheFilled`, `lidCacheLock` | `GetLIDForPN`, `GetPNForLID`, `GetManyLIDsForPNs`, `FillCache`, `PutLIDMapping`, `PutManyLIDMappings` | every goroutine of whatsmeow |
| Contacts (`store.go` 583-815) | table `contacts`, `contactCache`, its lock | `PutPushName`, `PutBusinessName`, `PutContactName`, `PutAllContactNames`, `PutManyRedactedPhones`, `GetContact`, `GetAllContacts` | event handlers, app state sync |
| One-time prekeys (308-405) | table `pre_keys`, `preKeyLock` | `GetOrGenPreKeys`, `GenOnePreKey`, `RemovePreKey`, `MarkPreKeysAsUploaded` | key upload, decryption |
| Sessions (111-306, `signal.go`, `sessioncache.go`) | table `sessions`, `migratedPNSessionsCache`, one cache per context | `WithCachedSessions`, `LoadSession`, `StoreSession`, `PutCachedSessions`, `MigratePNToLID`, `DeleteSession`, `DeleteAllSessions` | libsignal, message sending |
| Identity and sender keys (73-109, 130-146, 407-426, `signal.go`) | two tables | `PutIdentity`, `DeleteIdentity`, `DeleteAllIdentities`, `IsTrustedIdentity`, `PutSenderKey`, `GetSenderKey` | the migration moves them with the sessions |
| Devices (`container.go`, `store.go` of `store/`, `noop.go`) | table `device`, the `Initialized` flag, the stores of a device | `NewDevice`, `PutDevice`, `DeleteDevice`, `GetFirstDevice`, `Delete`, `SetAllStores` | pairing, logout; foreign key of nearly every other table; a deleted device gets Noop stores |
| Event and retry buffers (1030-1110) | two tables | `GetBufferedEvent`, `DoDecryptionTxn`, `PutBufferedEvent`, `ClearBufferedEventPlaintext`, `DeleteOldBufferedHashes`; `AddOutgoingEvent`, `GetOutgoingEvent`, `DeleteOldOutgoingEvents` | decryption, after a crash as well; retry receipts |
| App state (428-581) | keys, versions, mutation MACs | put, get, delete, latest key | app state sync |
| Chat settings, secrets, tokens, salt (817-1028) | four tables | upserts, first-wins and newest-wins inserts, expiry | message handling; lookups go through `lid_map` |
| Schema (`upgrades/`) | - | constraints of all tables | all |
| Client payload | none | builds a protobuf | connect |

Hard here: caches that are filled, changed and invalidated under locks that do
not cover the whole operation; caches changed inside a transaction that is then
rolled back; a lock let go between a look into the cache and the query; ids
given again after rows were removed; a set of "migrated" users that is filled
before the migration has happened; copies of sessions held in several contexts;
messages that can be decrypted only once and arrive more often; three calls without
a transaction around them that belong together; two names (PN and LID) for one
user, learnt late; a device deleted under running calls; a process that ends
between any two statements.

What makes it correct: a cache never contradicts the table in a way a caller
can see after the operation that caused it has returned; acknowledged writes are
in the table; keys that count as published were published, and ids are given
once per batch; a session is at one address, its state only advances and no state
is used for two messages. A message that was decrypted is handled, once unless the
process ends while it is; the MACs of app state fit the hash of its version; what was
stored under one name of a user is found under the other, the newest where there
are several; keys leave a user only for the LID of that user; nothing is left of a
deleted device.

## 2. Modules

| Module | Models | Used by |
|---|---|---|
| `LidTable` | what the LID store promises: one table, whole batches | refined by `LidMap` |
| `LidMap` | `lidmap.go` and the table `lid_map` | `MCLidMap`, `LidMapProofs` |
| `LidMapProofs` | inductive invariant and refinement, proved | |
| `Hub` | `ws.go` composed with `Bot.run`'s loop and the event goroutines | `MCHub`, `HubProofs` |
| `HubProofs` | types, closed channels, ordered streams, one answer per control message, proved | |
| `Companion` | what a device promises its owner: stored, linked, given up | refined by `Bot` |
| `Bot` | the process, `Bot.run` with pairing and commands, the device and its row | `MCBot`, `BotProofs` |
| `BotProofs` | one row, logins, deletions and logouts, refinement, proved | |
| `Contacts` | contacts, their cache and lock | `MCContacts`, `ContactsProofs` |
| `ContactsProofs` | the cache is current, names are stored, changes are reported once, proved | |
| `PreKeys` | prekeys, lock, upload and use | `MCPreKeys`, `PreKeysProofs` |
| `PreKeysProofs` | types, freedom from key conflicts, distinct ids, only published keys count, marking is complete, proved | |
| `Ratchet` | what the session store promises: counters that only go up | refined by `Sessions` |
| `Sessions` | sessions, migration, per-context caches | `MCSessions`, `SessionsProofs` |
| `SessionsProofs` | no state is used twice, one address per session, migration, sessions advance, refinement, proved | |
| `DeviceRow` | what all tables share: the row of the device, the stores in memory, the time | the four modules below |
| `EventBuffer` | the event buffer and the goroutines that handle messages | `Tables` |
| `AppState` | versions, mutation MACs, sync keys | `Tables` |
| `SignalKeys` | identity and sender keys, their migration | `Tables` |
| `PeerData` | privacy tokens, message secrets, retry buffer, chat settings, NCT salt | `Tables` |
| `Tables` | composes these with the device: cascades, Noop stores, a process that pairs again | `MCTables`, which adds `LidMap`; the proofs below |
| `TablesProofs` | nothing outlives its device, the stored MACs fit the stored version, keys stay with their user, what was stored is read back, the newest is returned, types, proved | |
| `EventProofs` | no message is lost or handled twice, types of the events, proved | `TablesProofs` |

In all of them one action is one piece of code that no other goroutine can look
into: a section under a lock, a statement sent to the database, a channel
operation. A call of several pieces keeps what it carries over between them in
`op[t]`, and `ret` is what the call that returned in the last step returned, so
that properties can speak of what callers are told. `Restart` ends the process
between any two steps: tables stay, everything else starts as the constructors
leave it. A statement that fails before anything changed is either an action of
its own, if the code does something about it, or a stuttering step.

Operators whose comment begins with `Mutant` are variants of the definition
after them with one plausible mistake each; no specification uses them. Put in
place of that definition, each breaks one of the properties.

### LidMap

`rows` is the table as committed, `work` as the open transaction sees it; they
differ only while a goroutine is in `DoTxn`, that is while it holds
`lidCacheLock`. The two Go maps have disjoint keys (LIDs and PNs), so `cache` is
one function; `Absent` is a missing key, `NoUser` the empty string, which the
code caches for users that were looked up and have no mapping.
`LookupCached`/`LookupMisses`/`QueryMapping` are the RLock section and the Lock
section of `getLIDMapping`; `LookupMany`/`QueryMany` those of
`GetManyLIDsForPNs`. `StartPut` is the filter of `PutManyLIDMappings` (and of
`PutLIDMapping`, whose batch has one mapping), each `PutOne` one
`unlockedPutLIDMapping`, `Commit` and `Rollback` the end of the transaction.
`Rollback` takes the table back and leaves the cache, as the code does; the
history variable `poisoned` records that, and the properties about the cache
hold as long as it is FALSE. `LidTable` is the promise: a batch is applied whole
and in order, except for mappings that would change nothing.

### Hub

`Broadcast` is `Publish` (the snapshot under RLock) and one `Offer` or
`OfferPanics` per client, in any order, as a range over a map does. Reader
(`Connect`, `Receive`, `ReadFails`, `Unregister`) and writer (`WriterTakes`,
`WriterSucceeds`, `WriterFails`, `WriterStops`) of a connection share `cancelled`
(the context) and the channel `send`. `Bot.run` is `ShowCode`/`PairingEnds`
while it pairs and `TakeControl`/`AnswerControl`/`BotStops` in its loop;
`WAEvent` is a whatsmeow goroutine in `handleWAEvent`. What an event says is
abstracted to who made it and its number; `answers` notes which control message
an event of the bot answers.

### Bot

`proc` is where `Bot.run` is: connecting, in `PairPhone`, waiting with a code
shown, ranging over the QR channel, in its loop, or in `handleControl`. `Start`
is main up to `run`, `End` what the end of the process leaves of it, `ReturnNil`
(the deferred close), `ReturnError` (os.Exit) and `Kill` the ways to get there.
`device` is the table, `dev` the Device in memory. `PutDevice` and `DeleteDevice`
are the statements of `container.go`; whatsmeow calls them through `Save` and
`Delete` when a phone pairs (`PairSaves`, `PairFails`), when the server logs the
device out (`LoggedOut`) and when its name changes (`Save`, `SaveEnds`, in a
goroutine of its own). Keys are a number per created device; `linked` is
what the server knows. A logout is three things, one after the other:
`LogoutUnlinks`, `LogoutEnds` with a deletion that may fail, and the ack. `Hub`
has the other side of the same loop: it says nothing of what commands do, and `Bot`
nothing of who gets the answers. What whatsmeow, server and phone do is external.

`Companion` is the promise without the steps of main, pairing, commands and connection:
which devices are stored, whose keys are known, which the server has, which is logged in,
and what a `Save` is about to write. A device is paired under keys no device had, only a
stored device is linked, only a stored and linked one logs in, and while the process runs
it gives its row up (`Delete`) only when the server does not have the device. The refinement
mapping (`StoredDevices`, `KnownKeys`, `LoggedIn`, `LateSave`) is at the end of `Bot`.

### Contacts

`Lookup` is `getContact` under `contactCacheLock`; the lock is held until the
call ends (`PutEnds`, `GetContactEnds`, `...Skips`, `ExecFails`). The bulk puts
commit (`CommitNames`, `CommitPhones`) without the lock and invalidate in a
section of their own (`ClearCache`, `DropOutdated`). The names of
`PutAllContactNames` are one transaction whatever the number of chunks, so they
commit in one step. `reported` is what the callers of `PutPushName` and
`PutBusinessName` were told last.

### PreKeys

A generating call is `GetOrGenPreKeys` or `GenOnePreKey`, `GetNextPreKeyID`,
`InsertPreKey` as often as needed, `Finish` or `GenerationFails`. A key is its
number, since `NewPreKey` never gives the same twice. Upload, its loss and the
use of keys by peers are whatsmeow's and the server's (external); whatsmeow
uploads under a lock of its own, so there is one `Uploader`. `direct` are the
keys that `GenOnePreKey` stores as uploaded before it hands them out; `robbed`
marks a batch of which a peer used a key while it was put together.

### Sessions

A session is its person, its identity and the number of its state. A goroutine
works with a cache of its own (`WithCachedSessions`) or without one, and hands
sessions to libsignal (`LoadSession`, `Establish`, `Encrypt`). Messages go out
once the sessions they were encrypted with are stored (`PutCachedSessions`,
`Send`). `MigratePNToLID` is a step that notes the PN as migrated and another
that is the transaction. Two things the store does not prevent are recorded
and excepted: `mixed`, a session was written while another goroutine had a copy
of it, and `left`, a migration failed or a PN session was stored after it.
`Ratchet` is the promise without addresses, caches and transactions: `Stored` is the
table as a set of sessions. It shows nothing of a person who is `mixed`, and allows a
session to be lost, and to come back if it is past every message sent with it.

### Tables and its parts

The tables without a cache are simpler one by one; what is hard is what a sequence of
calls makes of them. Each of the four modules `EXTENDS DeviceRow`, has its own variables
and says what its part does when the device goes (`...Cascade`) and when a process
starts (`...Restart`); `Tables` puts them together. A step of one part leaves the others
alone. `DeleteRow` is the statement of `DeleteDevice` with everything the foreign keys
take along, `SetNoop` the rest of `Device.Delete`; between them, and after them in calls
that have begun, other goroutines run. `Insertable` is the guard that the foreign keys
put on an INSERT (`Upgrade` refuses a database that does not enforce them), `Callable`
the one that the Noop stores put on everything except the two buffers, whose Noop
methods succeed without doing anything.

`EventBuffer`: `GetBufferedEvent`, then the decryption (`DecryptionCommits`, one
transaction with the INSERT; `DecryptionFails`) or the plaintext in the buffer, then
`HandleEvent`, `ClearBufferedEventPlaintext`, `Acknowledge`, each a step of its own in
any goroutine. `consumed` are the messages the stored Signal session cannot decrypt
again. The server (external) delivers a message it has queued until it is acknowledged,
for `EventKeep`. `CallFails` and `EventsCrash` end a handling anywhere.

`AppState`: `truth` is what the server says of every version. A value stands for its MAC
and a version for its hash, so that "the patch can be verified" is an equality:
`StartSync` takes the next patch if the MACs it replaces are those the stored version
covers, otherwise it begins with a snapshot. The three calls that store a patch are
three steps, and `SyncFails` may come after each of them.

`SignalKeys`: an address is a user and a device. `LikeUser` is what LIKE makes of a
user as a pattern; a phone number has no `_`, so the statements of the migration, whose
pattern is the phone number, match exactly, while deletions with a LID may not. The PN
is noted as migrated in one step and the transaction is another; it may fail.

`PeerData`: `Forms(u)` are the two JIDs a lookup tries, by `lid_map` as it is then
(`LearnMapping` may displace other mappings, as in `LidTable`). Where the query has no
ORDER BY the answer is any of the rows. `newest`, `firstSecret`, `lastSent` and
`lastSet` are histories of what callers stored.

## 3. What is checked

| Run | Instance | Question |
|---|---|---|
| `lidmap` | 2 goroutines, 2 LIDs, 2 PNs, batches of up to 2 | Do caches and table agree, and do callers get what is stored, through failures and restarts? Does the store implement `LidTable`? |
| `lidmap_lost_put` | 1 goroutine | Finding 1 |
| `hub` | 2 clients, 1 event source, channels of 1 place | Registration, order of events, one answer per control message |
| `hub_live` | 1 client, 2 control messages, 2 events, 1 code | Do cancelled connections end, are accepted messages answered? |
| `hub_panic` | 2 clients | Finding 2 |
| `contacts` | 2 goroutines, 2 contacts | Is the cache stale only while a bulk put is under way? Are acknowledged names stored and reported changes right? |
| `contacts_order` | 1 goroutine, 1 contact | Finding 3 |
| `prekeys` | 2 goroutines, ids up to 3, 4 keys | Conflicts, distinct ids, what counts as uploaded |
| `sessions` | 2 goroutines, 1 person, 2 sessions, 2 states | States used once, one address, migration complete; does the store implement `Ratchet`? |
| `bot` | 2 accounts, 3 devices | Is what is logged in stored, what is deleted gone, the loop paired? Does a signal end the process? Is the life of the device one of `Companion`? |
| `bot_signal` | 1 account, 1 device | Finding 4 |
| `tables` | 2 messages, 2 goroutines, 2 indexes, 3 versions, 2 sync keys, 3 users with 5 addresses, 2 LIDs and 1 PN, times up to 2 | Is every message handled, and once? Do MACs fit the hash, keys stay with their user, lookups return what was stored under either JID and the newest of several? Is nothing left of a deleted device? With the LID store of `lidmap` (2 goroutines, 2 LIDs, 1 PN): does every call return? |

Why the bounds suffice. Two goroutines are what every race in this code needs:
one is between two of its steps, the other runs. Two LIDs and two PNs are needed
and enough for a mapping that displaces two others, which is the largest
change a put makes; batches of two contain a repetition, a contradiction and a
mapping on a wrong server. The buffers of the hub have one place instead of 64, so
that they fill; one message per client is enough to meet a full Control channel
with two clients. The prekey ids end below the number of keys made, so that the
limit of the schema is met, keys are removed and ids given again. Two sessions
and two states let a session be replaced by another and by an older state of
itself. Contacts have one text besides the empty one (names are then set and
cleared), which distinguishes stale from current; the ordering run has two.
Three devices let two accounts pair, be logged out and one of them pair again.
In `tables` a keep time of 1 with times up to 2 has a row that is kept, one at the
boundary and one that is too old; two messages and two goroutines let one message be
delivered to both, or be overtaken; one failure or crash can fall on any step, and what
two would do is what one does to two messages. Three versions let a snapshot follow a
patch and precede another. Of three users one is a phone number with a LID, and the
LID as a pattern matches the third. A behaviour of `tables` uses one part of the store
(`focus`), with the device and, where the part reads it, the time and `lid_map`: the
parts write no variable in common, so that a property of one part sees the same
behaviours as in the full product.

Fairness. `LidMap`: strong fairness of each goroutine's `Continue`, because a
goroutine inside the store is always scheduled and `sync.RWMutex` lets a waiting
writer in before later readers. `Bot`: weak fairness of the goroutine of `run` and
of a pairing that whatsmeow has begun; strong fairness of the case `ctx.Done`, since
select chooses at random among the cases that are ready; the QR channel closes once
the context is cancelled. Nothing obliges anybody to scan a code, to accept a
connection or to stop sending commands. `Hub`: weak fairness of the goroutines' own
steps; none for a peer that accepts what is written to it, for whatsmeow delivering
events, for pairing to end or for anybody to connect. `EventBuffer`: weak fairness
of each goroutine that handles a message, and of the lookups together, for the server
delivers again what was not acknowledged; not of any particular message, failure, crash
or deletion. No fairness is assumed of failures, commands or restarts. `Hub` runs without deadlock detection, for there the
process may stop or crash, and events and messages are bounded; the other runs check
for deadlock.

Exceptions in the properties. `poisoned` (LidMap), `NamesPending`/`PhonePending`
(Contacts), `direct`/`robbed` (PreKeys), `mixed`/`left` (Sessions), `raced` (Bot), `cut` (EventBuffer),
`torn` (AppState) and `Lookalikes` (SignalKeys) name the
circumstances in which a promise does not hold of the code. Each is as
narrow as it can be made, and the mutants show that the properties still reject
faulty variants.

### Findings

1. `lidmap_lost_put`: `unlockedPutLIDMapping` changes the caches inside the
   transaction. If a later statement or the commit fails, the table is rolled
   back and the cache is not; a later put of the same mapping is taken for stored
   and acknowledged without being written.
2. `hub_panic`: a client that disconnects between the snapshot of `Broadcast` and
   its turn makes the send on its closed channel panic, so that the clients after
   it are left out and, in `Bot.run`, the process ends.
3. `contacts_order`: `SQLStore.PutContactName` takes first name and full name in
   the opposite order of the interface it implements. Both are strings.
4. `bot_signal`: a signal cancels the context that `PairPhone` uses; `run` then returns
   an error and `main` calls os.Exit, which skips the deferred close of the
   database that the comment at `main.go:54` relies on. (TLC reports the shortest way
   there, a connection that fails after the signal.)

Seen while modelling, and part of the models as exceptions: a `Device.Save` that looked
at `Deleted` before a logout writes the row again after it (`raced`); a migration
that failed is not tried again (`left`); `GenOnePreKey` counts its key as uploaded
before anybody has it (`direct`); after a QR timeout the process stays up
without a device; while a device is paired with a phone, messages wait for an
answer. A message is handled twice when the process ends between handling and
clearing it, or when two goroutines look it up at the same time (`cut`). A failure
between `PutAppStateVersion` and `PutAppStateMutationMACs` leaves a version whose MACs
are missing (`torn`); the next patch that touches them cannot be verified, and a
snapshot repairs it. `DeleteIdentity` uses the LIKE query of `DeleteAllIdentities`,
so that the `_` in the address of a LID matches any character; the exact
`deleteIdentityQuery` is not used. `privacy_tokens` is the only table of a device
without a foreign key: its rows are there when the same JID pairs again. A mute until
the Unix epoch is stored as 0 and reads as no mute.

Seen, and left out because the data is abstracted: `edit_message` is acknowledged but
sends an empty text (`session.go:274`, `NewText` is not used); `PutPrivacyTokens` with
no tokens is a syntax error in SQL; `GetOutgoingEvent` returns sql.ErrNoRows where
the other lookups return nothing, and the one of the Noop store returns nothing;
old hashes are deleted for all devices, not only for the one of the store.

## 4. What is proved

`LidMapProofs`, for any sets of users, goroutines and batches that satisfy
`UsersAssumption` (LIDs, PNs and the special values are different from each other)
and `BatchesAssumption` (batches are sequences of mappings):

* `InductiveInvariant`: `Spec => []IInv`. The properties are not inductive by
  themselves: that a commit leaves the caches coherent with the table needs that
  they were coherent with the open transaction (`CachesMatchTable` is about
  `work`); that needs that only the holder of the lock has one (`LockInv`) and that
  the open table is the old one with the mappings put so far, the others having been
  redundant (`TxnInv`); that `GetManyLIDsForPNs` answers right needs what its hits
  were when the lock was let go (`ManyInv`). `CachesMatchTable` in turn needs that
  both columns are unique in the open table (`TablesAreOneToOne`), or else the
  entries of former partners would not be the only ones to drop.
* `TypeCorrectness`, `TableUniqueness`, `CacheCoherence`, `CallersSeeTheTable`
  follow.
* `Refinement`: `Spec => Table!Spec`. A commit is the abstract `PutBatch`, which
  is what `TxnInv` is for; a put that is filtered out completely stutters;
  a rollback that poisons the cache is `Distrust`.

`HubProofs`, for any clients, goroutines and channel sizes that satisfy
`HubAssumption`: `Typed`, `GoneIsClosed`, `OrderedStreams`, `OneAnswer`, from an
invariant that follows an event from its making to the socket.
`StreamsAreOrdered` needs to know, of a goroutine that is offering an event, that the
newest event is not in the stream of a client it has yet to offer it to (`Made`,
`Counted`): otherwise the next offer might come behind a newer event or repeat one. A
stream is what was written, what the writer holds and what waits in the channel; every
step leaves a subsequence of it (`Within`) or adds one event at its end.
`OneAnswerPerControl` needs that a control message is at one place only: waiting, in
hand, answered (`ControlsAreDistinct`, `AnswersAreDistinct`), or refused
(`RefusedIsForgotten`).

`BotProofs`, for any accounts and numbers of devices that satisfy `BotAssumption`:
`OneRow`, `LoggedInIsStored`, `DeletionHolds`, `PairedBeforeLoop`, and the action property
`LogoutIsComplete`. The invariant relates the Device in memory to its row
(`RowIsTheDevices`): a JID without a row is left by a failed Save only, and then the
connection stays down (`UnstoredIsDown`), which is why a later login cannot come from it;
a Save under way is one of the row that is there, unless the device was deleted since
(`JidIsNeeded`); between the two halves of a logout nobody can pair or connect
(`LogoutInBetween`), so that the deletion is that of the device that was unlinked.

`Refinement`: `Spec => Companion`'s specification. It needs to know in addition whose keys
are whose (`KeysInv`): the device that may be paired is the latest one made, and nobody has
heard of its keys; a row of its JID has its keys or none; while whatsmeow has saved a device
and not confirmed it, the server does not have it, so that the deletion of `PairFails` is
allowed as well as those of `LoggedOut` and `LogoutEnds`. Most steps of `Bot` are none of
`Companion`, or somebody goes offline (`Quiet`); `End` is `Stop`, however the process ends.

`ContactsProofs`, for any contacts, texts and goroutines that satisfy
`ContactsAssumption`: `CacheIsCurrent`, `NamesAreStored`, and the action property
`ReportsChain`. The lock alone does not make the cache current: the bulk puts commit
without it. The invariant names the contacts that may be stale (those of a bulk put that
has committed and not invalidated), says of a snapshot of `GetAllContacts` what it says
of the cache (`SnapshotIsCurrent`), and of a put that has executed what it will return
(`ReplyIsRight`, `ReportedIsStored`).

`PreKeysProofs`, for any goroutines, limits and counts that satisfy `PreKeysAssumption`.
`TypeCorrectness` and `NoConflict` need that whoever generates keys holds `preKeyLock`:
then only removals come between the reading of MAX and the INSERT, and they take ids
away. `DistinctIds`, `OnlyPublishedCount` and `MarkIsComplete` follow a batch from the
query to the mark (`BatchInv`): which pending keys are not in it (`PendingIsInBatch`:
those with ids above it, and only if it was full), that keys generated for it come above
those queried (`BatchIsOrdered`), and that every row up to its last id is of the batch or
counts rightly already (`MarkIsRight`), although ids are used again after removals. A
batch is finite and its size is compared with what was asked for, so that the lemmas
about cardinalities of the library are needed.

`SessionsProofs`, for any persons, goroutines and numbers of sessions and states that
satisfy `SessionsAssumption`: `StatesUsedOnce`, `AtOneAddress`, `MigratedMoved`, and the
action property `SessionsAdvance`. Copies of a session are in the table, in the caches of
contexts and in hand; the invariant says how they relate, person by person as long as the
person is not `mixed`:

* a copy that is not dirty is what the row is, unless the row was deleted; a dirty one is a
  later state of it (`Current`), and what is in hand is what the cache has (`HandFits`);
* all copies of a session are at one address (`OneHome`) and of one person (`OneOwner`);
* a state that was used, or that a goroutine is about to use, is older than every copy
  (`SpentIsPast`) and spent by one goroutine (`SpentOnce`). This is what a flush and a
  restart must not break: the messages of a context go out after its flush, and until
  then the context holds, dirty, the state that follows (`Covered`);
* a PN in the cache of migrated PNs has no row, or is being migrated, or is `left`
  (`MigratedAreMoved`).

`SessionsRefinement`: `Spec => Ratchet`'s specification. `Send` is the abstract `Send`, and
needs `SpentIsPast` (what is sent was stored before); everything else is `Store`, and needs
`SessionsAdvance`, `OneHome`, and `SpentIsPast` of the step's end: a row never comes to
have a state that a message was sent with.

Before the proof TLC checked this invariant on an instance with one session and two
states (3,029,641 states).

`TablesProofs`, for any constants that satisfy the assumptions of its parts:

* `NothingOutlives`. The property is inductive as it is: every part needs the row for
  whatever it inserts (`EventsNeedTheRow`, `AppNeedsTheRow`, `KeysNeedTheRow`,
  `PeersNeedTheRow`) and empties its tables in the step that takes the row.
* `MacsMatch` from `AppInv`. What each step may rely on is what the step before stored:
  `StoresNext` says which version a half stored patch belongs to and that its indexes are
  `torn` already, `RemovedAreDeleted` that no old MAC of a removed index is left when the
  new ones are inserted, `OneMACPerVersion` that the newest MAC of an index is one row.
* `KeysGoTogether`, an action property: a migration moves all keys of the PN and nobody
  else's (`MoveMoves`); what a LIKE pattern matches by mistake it only deletes.
* `ReadBack` from `ReadInv`: the tables hold what the histories say, JID by JID, so that
  the answer does not depend on when the mapping between two JIDs was learnt; an outgoing
  event is in the table as long as it is fresh, and nothing but the last is (`SentIsKept`).
* `LatestKey`: of all keys ever given, in any order, the newest is the one returned
  (`KeysAreGiven`).
* `NewestReturned`: `LatestKey`, and the same of privacy tokens under both JIDs of a user
  (`NewestAreStored`). `PutPrivacyTokens` is a fold over a batch; `FoldIsNewest` says what
  it computes: for every user the newest of the row and the tokens of the batch. The proof
  takes a smallest set of indexes for which the equation of the fold would not hold, by
  the library's theorem that strict inclusion is well-founded on finite sets
  (`SmallestSubset`), takes the index out that the fold takes, and comes to a smaller one.
  A batch then changes table and history alike (`NewestPut`), and so does the deletion of
  expired tokens (`NewestStep`).
* `TablesTyped` from `TypesInv`: `EventFits` (proved in `EventProofs`), `AppFits`, the types
  of the keys, and `PeerFits`. Outgoing events, secrets and settings have types because
  the tables hold what the histories say, so that `ReadInv` is used here again.

`EventProofs`, for any messages, goroutines, clocks and numbers of crashes that satisfy
`EventAssumption` and `MaxNowAssumption`:

* `NoLoss` from `LostInv`. `NoEventIsLost` speaks of messages that left the server's
  queue; to be kept by `DeleteOldBufferedHashes` it needs that a row is never older than
  the message is in the queue (`QueuedFirst`), by `ClearBufferedEventPlaintext` and
  `Acknowledge` that they follow the handling (`ClearedWasHandled`), and by
  `ServerSends` that an unsent message has no trace (`UnsentIsUnknown`).
* `NoRepetition` from `LostInv` and `Once`. A second handling needs the message
  decryptable or its plaintext in the buffer. `KnownIsConsumed` and `HandledIsKnown`
  exclude the first, `OneHandler` and `NotAgain` the second: as long as nothing was cut
  off one goroutine alone is between the decryption and the clearing.

The assumptions on constants bound nothing from above: `MaxNow`, `MaxFaults`,
`MaxVersion`, `MaxKeys`, `MaxMade`, `MaxState` and the channel sizes are any natural
numbers. They say that values which stand for "none" are not among the values proper, that
addresses are pairs of a user and a device and include those a migration moves keys to,
that a batch of privacy tokens is a sequence of tokens with times of the clock
(`TokenAssumption`), and that periods are natural numbers. TLC evaluates each of them in a run.

Only model-checked:

* Liveness under fairness, for the prover does not do ENABLED:
  `CancelledConnectionsEnd` and `AcceptedControlsAreAnswered` of `Hub`,
  `SignalEndsProcess` of `Bot`, `EventsAreHandled` and `EveryCallReturns` in the run of
  the tables.

Every invariant and every other action property of the runs, and each of the three
refinements, is a theorem.

## 5. What is not modelled, and the plan

Assumed of the environment: whatsmeow uploads prekeys from one goroutine at a time;
redacted phones from the server are not empty; the deduplication helper keeps the
first of equal entries; a transaction of the database is atomic, and statements of
different goroutines are serialised; LID puts are not called inside another
transaction; whatsmeow reconnects only a device that has a JID, and deletes a device
the server has logged out; one process at a time uses a session's files.

Of the environment of the tables: what whatsmeow does between the calls of the event
buffer (look up, decrypt in the transaction, handle, clear, acknowledge) and of app
state (one synchronisation of a name at a time, a snapshot when a patch cannot be
verified); the server keeps a message no longer than the buffer does, and both clocks
agree; a device that pairs again has no messages queued from before.

Not modelled: the client payload (a protobuf built from constants and the device, no
state), the command line (parsing of os.Args before anything runs), log output, the
upgrade scripts (run once by the external dbutil), the keep-alive period, the sender
timestamp of privacy tokens, the sender JID of message secrets (looked up by the same
expression as the chat), the content of messages. Reads of one row that change nothing
and compute nothing (`GetDevice`, `IsTrustedIdentity`, `GetSenderKey`, `GetPreKey`,
`GetAppStateSyncKey`, `GetNCTSalt`) have no action.

Next:

1. The parts of the code listed above that have no action yet.
2. A specification of what the contact store promises, without the cache and its lock,
   that `Contacts` implements.
