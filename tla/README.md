# kmatrix in TLA+

Specifications of kmatrixd, the Matrix daemon of the kmatrix KOReader plugin,
and of the part of the plugin that starts it, connects to it and lets it go.
The modules are translations of `daemon/src/*.rs` and
`plugin/kmatrix.koplugin/*.lua`; `PROJECT.json` says for each definition which
lines it stands for, and lists the runs, the mutants, the hazards and the
theorems.

## 1. The system

One process, `kmatrixd`, runs while at least one reader is connected. Inside it:

- **main thread** (`main.rs run`, `ipc.rs serve`): takes the data directory's
  lock, opens the store, restores the session, publishes a port and token in
  `kmatrix.port` and accepts connections;
- **sync thread** (`main.rs sync_loop`): long-polls `/sync` and stores what
  comes;
- **one thread per connection** (`ipc.rs handle_client`): answers requests, one
  at a time. A request may take many HTTP calls and runs concurrently with the
  sync thread and the other connections.

They share `Shared`: `db` (the SQLite store), `net` (crypto state), `api`, `st`
(status and session), the `Bus` of connected readers and the wake flag, each
with a mutex of its own. **No lock is held across an HTTP request, and an
operation that needs several of them takes them one after the other.** That is
why an action of these modules is one lock section or one request, and why what
a thread has read and not yet used is part of the state.

| Component | State | Operations | Hard behaviour | Correct when |
|---|---|---|---|---|
| Messages, edits, keys | tables `message`, `edit`; `Crypto.inbound`; sync token | process_sync, convert_event, insert_message, upgrade_message, record_edit, repair_room, restore_room, refetch_placeholders | edits before targets, keys after events, two writers of a row, half-stored batches, restarts | the newest edit shows; nothing passed by the token is lost; ciphertext is kept as long as it is needed; what can be read is read |
| Sending | outbound session and pickle, Olm sessions, device lists | do_send | concurrent sends, failing share, failing writes, crash after encryption | no ratchet index twice; recipients can read; one Olm session per device |
| Login and own keys | session row, account pickle, pickle key, `device_keys_published`, `api`, `net.crypto`, `st.session` | do_login, do_logout, load_or_create, maintain_otks, restart | logout and login under a running sync iteration, late answers, crashes | the server never lists an identity that is lost; only accepted keys are marked |
| Daemon lifecycle | lock, port file, Bus, running | take, listen, serve, handle_client, stop_serving; plugin: openMatrix, pollForDaemon, releaseIfHidden, onSuspend, onResume | two daemons, last reader leaving while one arrives, probes, slow readers, crash | a serving daemon can be found; it stops with its last reader and not before |
| Verification | `verifications`, `secret_requests`, backup key | handle_verification, confirm_verification, apply_verify_step, handle_secret | two threads in one transaction, repeated batches, lost sends, expiry, overtaking messages | nobody is verified without both users' word; the backup key comes from a verified device; it completes when nothing fails |
| Pagination | `room.back_token`, `back_done` | seed_back_token, do_load_older, set_back_token | several clients, a page failing half-way, limited syncs | no hole in what was walked; the start is reached |
| Request dispatch, event stream | a socket per reader, Bus, pending requests, the timeline and its window | client_loop, Bus::publish, do_load_older; plugin: request, handleLine, openTimeline, loadOlderMessages, onSuspend, onResume | replies and events from two threads on one socket, a reader that does not read, answers to a timeline that was closed | the timeline shows what is stored; a callback gets its own answer; no request is forgotten |
| Store encryption | key file, `store_encrypted`, encrypted columns, WAL | load_or_create_store_key, Store::open, encrypt_existing, clear, checkpoint | crash, power cut or failing statement between the steps, a wiped or restored key file | marked encrypted is encrypted; one key reads it all; contents are never lost; a logout sticks |
| Room names and the loop around them | `room.name`, `room_names_cursor`, `room_names_schema`, wake flag | sync_loop, wait_for_kick, backfill_room_names, process_sync | a sweep in batches that a failing request, a store error, a stop or a new login ends anywhere; a kick between a look and a wait | the cursor never passes a room that is not dealt with; the sweep ends; no login is slept through |
| Previews, unread counts, dialogs, HTTP transport | | | none shared | not modelled (section 7) |

Interactions: the plugin speaks line-JSON over loopback TCP; a client thread
calls `main.rs do_*`; these and the sync thread call `Store`, `Crypto` and `Api`;
results reach the other readers by `Bus::publish`. Verification ends by asking
for the backup key, whose arrival makes `restore_room` useful, which upgrades
rows that the sync thread or `do_load_older` stored as placeholders.

## 2. Modules

| Module | Models | Proofs |
|---|---|---|
| `EditRegister` | what the message and edit tables promise: a register per message that an edit outranks, in any order of arrival | |
| `Timeline` | conversion and storage of events, keys, backup, repair; implements `EditRegister` | `TimelineProofs` |
| `Outbound` | `do_send` into an encrypted room | `OutboundProofs` |
| `Account` | login, logout, the account and its one-time keys | `AccountProofs` |
| `Daemon` | life of the process and its connections | `DaemonProofs` |
| `Verification` | SAS verification and the backup key | `VerificationProofs` |
| `History` | backwards pagination | `HistoryProofs` |
| `Ledger` | what the store promises whoever writes to it: a sequence of contents that can lose its newest, never its middle | |
| `Vault` | encryption at rest, its key, its migration, and logging out; implements `Ledger` | `VaultProofs` |
| `Screen` | one timeline over the sockets that feed it | `RoomProofs` |
| `RoomNames` | the sync loop, its wake flag and the room-name sweep | `RoomProofs` |

`MC*` modules give TLC the constants a cfg cannot write; a definition with a
comment `faulty` is a plausible mistake that a property of the module must
refuse, and appears in no specification.

### Timeline
Variables `stored, decrypted, kept, body, newest` are the columns of `message`
and `edit`; `held` is the earliest index known of each Megolm session
(`Crypto.inbound`), `backupKey` the backup key; `delivered` and `taken` stand for
the sync token: what the server will not send again. `pc, todo, plain, locked,
edits` hold, per thread, the converted events that wait for the db lock. The sync
thread goes to-device, convert, store, token. A client's `repair_room` is
refetch then restore, and `do_load_older` uses the same conversion. Under
`Faults` a room key that comes may be lost, as one is whose pickle cannot be
written (`crypto.rs` logs it and goes on). Bodies are
abstracted to "the text of event e", "its fallback" and the placeholder. Left
out: malformed plaintext, names and previews, `Placeholders` older than the
limit of `placeholder_event_ids`.

### Outbound
`outbound` and `saved` are the ratchet in memory and in its pickle; `audience` is
who is in the room when `do_send` begins, `roster` what the device query
answered, `need` the devices without an Olm session, `claimed` those a
one-time key was then claimed for, without the lock, so that two racing sends
each use up one of a device that needs one; the sessions are made after a second
look under the lock. `share` the encrypted room
keys on their way, `listed` those given out. `olm` counts the sessions we start
with a device. Other devices are external: they keep the earliest key they get.
Unencrypted rooms are left out.

### Account
`row, pickle, pickleKey, secrets, published` are the store; `api, session,
crypto` memory; `identity, otks, uploaded, issued, revoked` the server. The sync
thread captures `sapi` and `ssession` when an iteration begins, as `sync_loop`
does, and maintain_otks builds, uploads and marks in three steps. An account is
an identity, the pickle key it is written with, and its unpublished and
published one-time keys.

### Daemon
`phase` is how far `run` has come; a connection's `thread` goes queued, accepted,
welcomed (`hello` answered), subscribed (in the Bus), last (removed, and the Bus
is empty), ended. The plugin is `conn, polls, lost, asleep, reconnect`.
Connections of `Probes` hang up without `hello`. `publish` may drop a slow
reader from the Bus without closing its connection, as the code does.

### Verification
One transaction. `entry` is the daemon's record of it, `step` the events a
thread still has to send for a `VerifyStep`, `token, at, upto` the sync batch,
`feed` and `mail` the to-device streams either way. The other device (`their,
commit, macs`) is external, honest, and the account's only other one: the
code asks all own devices for the backup key (`main.rs:1641`) and does not look
at who sends it (`crypto.rs:547`). It speaks `m.sas.v1`, so a cancel for a method
it would not offer is left out. `known` says that a device query has brought its
ed25519 key; the query before a request or start may fail, and then the MAC over
that key is skipped, as the code does (`entry.mac`). A number stands for one ephemeral key of
ours, and so for the emoji, the commitment and the MAC keys that follow from it:
a request that is delivered again makes a new one.

### History
An event is its position, a token the position behind which it stands. `row,
token, done, stored, since` are the store. `walk` is each client's
`do_load_older`: the edge it read, what is left of its page, the page's end.
Pages may end at the start of the room with or without one more token, and
leave out the events of `Hidden` (MESSAGES_FILTER, `api.rs:523`), so that one in
the middle of the room may be empty and have an end token; the code takes it for
the start. A crash is all threads failing, which is why it is no action. Two
history variables: `skipped` holds the positions the edge was moved past, by a
limited batch or by a page begun before the edge was seeded, and `early` says
that `done` was set by an empty page above the start. `Legacy` rooms have a row
and no token.

### Vault
`disk` is the database as last checkpointed followed by every commit since (WAL
with `synchronous = NORMAL`): a process that dies loses nothing, a power cut any
tail of it. A cell is an encrypted column or secret meta entry and holds a text
and the key it is sealed with, if any. `Prefixed` texts are plaintext that
happens to begin with `k1:`, which is what the code takes for a sealed value.
`phase` is how far `run` has come, `step` the next statement of `clear`, since
the flag is deleted with the rows and put back by a later statement. `made` keeps
keys apart: a key file that is gone is replaced by a key nobody ever had.
`--reset-store` removes three files; it is one step, because a stop between them
leaves the database or nothing of it (a WAL without a database is deleted by
SQLite when it is opened). `Ledger` knows nothing of keys: the refinement `Invisible` says that taking a
key, migrating or running `--no-encryption` in between never changes contents.

### Screen
`stored` is the store as versions of rows, `batch` what sync has stored and not
yet published (it publishes after requests of its own, and the event's own text
even where an edit recorded earlier is what it stored). An edit is consumed by
`record_if_edit` and a repair by `upgrade_message`: both rewrite the row and
publish nothing. A repair is part of `messages` and of `load_older`. `handler` a connection's
thread with the rows it has read and not yet written, `up` and `down` the
sockets. A line cut by BUS_WRITE_TIMEOUT has no end and eats the next one.
`pending` holds the plugin's callbacks, with the timeline they were made for.
`overtaken` is a history variable: rows of which the reader was told something
older last, because `reply` and `Bus::publish` take no common lock; rows an edit
or a repair rewrote that nothing has told since; and, when `messages` fails, all
rows, since what its answer was to bring is told to nobody. Other rooms and requests without a reply that
matters are left out. Names that `RoomNames` has too carry the module's name
(`ScreenInit`, `ScreenSpec`, `ScreenFaults`, `ScreenTypeOK`), because `RoomProofs`
extends both. `Limit <= WindowMax` is assumed: they are MESSAGE_LIMIT, 100
(`main.lua:33`), and MESSAGE_WINDOW_MAX, 500 (`main.lua:39`).

### RoomNames
`pc` is the place of the sync thread in its loop, `me` the login it captured at
the top, `todo, reached, done` the locals of a pass of the sweep; `at` is the
place of a client in `do_login` or `do_logout`. A name is told apart by where it
comes from. A login may fail where the store does: at `save_session`
(`login_unsaved`), or at `load_or_create` (`login_fails`), which leaves the new
`api` and the saved session beside the old `session` and kicks nobody. A look-up
writes members and name in two lock sections; they are one action, `sweep_error`
can end the pass between them, a stop there leaves the same store, and a login
there clears both. What a batch brings is any set of rooms, each with or without an
`m.room.name` in the state part of its answer.

## 3. Runs

All passing runs check deadlock, except where the modelled work ends: a finished
verification, and a room whose bounded events are all stored.

| Run | Result | What it shows |
|---|---|---|
| `timeline` | pass | 3 events (a message and two edits), one session backed up and shared late, one client, faults and restarts, rows of an old version: the tables' invariants, nothing skipped, refinement of `EditRegister` |
| `outbound` | pass | 2 clients, 2 devices of which one joins late, 2 sessions of 2 messages, request and write failures, crashes: one Olm session per device, though each of two racing sends may claim a key |
| `account` | pass | one client, two logins, one-time keys, request failures and crashes |
| `daemon` | pass | 2 daemons, 2 plugin connections, a probe; failing open, crash, slow reader; safety and liveness |
| `verification` | pass | every subset of lost sends, repeated batches, crashes and expiry; completes when nothing goes wrong |
| `history` | pass | 2 clients, 6 events of which three make no message and two of those are missing from pages, windows and pages of 2, failing batches and pages |
| `vault` | pass | 2 keys, the session and one more cell, a plaintext that looks sealed, every mix of crash, power cut, failing statement, wiped and restored key file, with and without `--no-encryption`: 5 invariants and the refinement of `Ledger` |
| `screen` | pass | 4 rows, 2 connections in a row, a suspend, a slow reader dropped in the middle of a line, pages of older rows, edits and repairs, requests and reads that fail: the screen is current but for the rows section 5 names, answers find their callback, no request is forgotten |
| `rooms` | pass | 2 rooms swept one at a time, two logins, two starts, failing requests and store errors, rooms that are named meanwhile; safety and that the sweep ends |
| `share_lost` | violation | after a failed share the next message is sent and nobody can read it (`EveryDeviceHasTheKey`) |
| `history_skipped` | violation | from a room as its first sync left it (`SeededSpec`): a limited sync leaves a gap nothing fetches (`HistoryWhole`) |
| `never_swept` | violation | after a login the sweep runs over an empty list and marks the store as swept (`SweepCovers`) |

### Bounds
- `timeline`: two edits are what it takes for one to be older than the other
  when either arrives last; one session suffices because keys of different
  sessions do not meet; the page and sync limits of 2 allow a batch to be stored
  in part. Two threads (sync and one client) are every pair of writers of a row.
- `outbound`: two clients race; two sessions let one be replaced; an index of 2
  lets a session be used after a crash; a late device has one session it was
  not given and one it was.
- `account`: two devices and two accounts are a login, a logout and a login
  again under the iteration of the first. `MaxKeys` 2 allows a retry to top up.
- `daemon`: two daemons meet at the lock; two connections are one leaving while
  one arrives; `Tries` 2 is a poll that fails once.
- `verification`: `MaxKeys` 2 is one restart of the transaction; `MaxMail` 2
  is one event overtaking another.
- `vault`: two keys are an old and a new one; one cell beside the session lets
  rows of two keys, or a sealed and a plain one, meet; a log of 5 holds all of
  `clear` and a login behind the last checkpoint.
- `screen`: a limit of 2 in a room of 4 lets a row fall out of the window and
  come back by paging; a socket of 2 lines fills; two connections are a resume
  while the first one's thread is still at work; one timeline and one socket with
  four requests let an answer come back to a room that is closed.
- `rooms`: two rooms with batches of one are a sweep that stops between two and
  goes on; one of them is direct and one crowded; two logins are a sweep under
  which the list is emptied.
- `history`: windows of 2 in a room of 6 are limited more than once; pages of 2
  end inside, at and past the start, and one of them, all of it hidden, is empty
  above the start. Two clients are two pages of one edge.
- `history_skipped`: a first window of 2 and three events more, one of them left
  out of the second window.

### Fairness
- `Timeline`: WF of the sync thread and of each client in the middle of an
  operation (threads run), SF of `repair_room`: the reader opens the room again
  and again. `LateKeyUnlocks` (section 5) fails even then, with no request ever
  failing.
- `Daemon`: WF of the main thread, of the handlers and of the UI loop (KOReader
  calls it back). Nothing is assumed of the user, of probes or of faults.
- `Verification`: WF of both daemon threads, of both users and of the other
  device. `CalmCompletes` speaks only of behaviours without faults.
- `RoomNames`: WF of the sync thread and of a client in the middle of a login
  or logout; SF of `list` and of `name_room` of each room: a request that is made
  again and again is answered in the end. Without it the sweep need not end, since
  it stops at the first room that cannot be read, and so a room that never can be
  read does hold up all those after it (`main.rs:793`). `names_done` is set by an
  error of the store as well, which `SweepEnds` counts as the end of the sweep in
  this run of the daemon.
- `Screen` states fairness of the handlers, of `sync_publish` and of the plugin's
  poll; only the two liveness properties of section 5 speak of it.
- `History`: WF of the sync thread and of each client: a reader who keeps
  asking. `StartIsReached` assumes that pages cease to fail at some time; that he
  is told of the start there, and not above it, is `DoneIsTheStart` (section 5).

## 4. Proofs

`tlapm` proves for all values of the constants, under the named assumptions of
the modules:

- `TimelineProofs`: `TypeOK`, `EditOutranks`, `ReadableRowIsCurrent`,
  `LockedRowKeepsCiphertext`, `NothingSkipped`, `CiphertextOutlivesLock`,
  `EditsOnlyAdvance` and the refinement `EditsAreRegister`. Two layers: a
  control invariant (`Staging`, `Phases`: an event is staged once, and only by a
  thread in its conversion loop) and the lemma that every step writes the tables
  by `insert_message`, `upgrade_message` or `record_edit` or not at all
  (`StoreWrite`); the table invariants need only be preserved by these three.
  The crashes are of the process; what a power cut does to commits is `Vault`'s.
  `NothingSkipped` needs `BatchAccounted`: an event of the batch is still to
  convert, staged, or accounted for.
- `OutboundProofs`: `TypeOK`, `IndexNeverReused`, `KeyBeforeMessage`,
  `NoSecondOlm`. The invariant `RatchetInv` says that every event given to a
  request lies behind the *saved* ratchet position, from which a crash restarts,
  and that memory is never behind the pickle; `ShareInv` that a key under way
  reads whatever the session encrypts next. From it follows the action property
  `PickleOnlyAdvances`: the pickle only moves to a later index or session.
- `HistoryProofs`: `TypeOK` and `Unbroken`. `Unbroken` alone is not inductive:
  it says nothing of a stored batch whose token is not saved (`Upto`), of a page
  asked for from an edge that another client has since moved (`Asking`), nor of
  a page partly stored (`Storing`). A room marked done by an empty page counts as
  walked only as far as its edge.

- `AccountProofs`: `TypeOK`, `IdentityKept`, `MarkedWereUploaded`. No lock is
  held through a login, so the invariant is about copies: whenever memory and
  store both hold an account it is the same one and memory is the newer (`Same`);
  a login whose account was loaded keeps row and account together (`SettledInv`);
  a device belongs to one login (`DevicesInv`); an upload under way has every key
  that may be marked when it is answered (`UploadInv`). The run has one client;
  the theorems have any number.
- `DaemonProofs`: `TypeOK`, `ServingIsFindable`, `ProbesStopNothing`. The port
  file is written and removed only by the lock's holder (`Locked`), and a
  connection goes one way and a probe never onto the Bus (`Connections`).
- `VaultProofs`: `TypeOK`, `AtRest`, `OneKey`, `ReadBack`, `LogoutSticks` and the
  refinement `Invisible`. Every content a power cut may come back to satisfies
  `Good`: what it holds is sealed by one key or by none, and sealed if it says so.
  A process that writes has read the session, and the session shows that this
  key is its own (`Modes`); that is why a start with a strange key over a store
  without a login is harmless.
- `VerificationProofs`: `TypeOK`, `NobodyVerifiesAlone`, `TrustedOnlyWhenApproved`,
  `BackupOnlyAfterVerification`, and the action property `OneKeyForGood`: once a
  verification is announced, no step takes it back, announces another key or
  moves the other device's commitment. The promises are about an announcement
  and are prepared in five places, so the invariant follows the key through all
  of them. What the other device has said stays said and is about the key it is
  committed to (`Feed`); a MAC or `done` of ours, in the record, in the mail or
  still to be sent, is there only after the reader's yes about that key, even
  where a repeated request has put a new transaction in its place since (`Word`);
  one of theirs only after they sent it (`Theirs`); what either thread is still to
  do is allowed, and the backup key is asked for directly behind the announcement
  (`Queues`); and what has been announced or asked was (`Announced`). That no
  step unsays anything (`Moves`) is proved once for all steps.
- `RoomProofs`, on `RoomNames`: `TypeOK`, `NoSleepThroughLogin`,
  `SweepSkipsNothing` (direct chats are called by the name they carry or by their
  partner, the others at least not by their id). The flag says what the thread has not looked at yet
  (`Heard`). The batch is the first rooms ahead of the cursor and is taken in
  order, so below any room still to be looked at every room is dealt with or in
  the batch (`Below`); that the least room of a batch exists is derived from the
  well-foundedness of strict inclusion on finite sets (`LeastIsLeast`). The action
  property `SweepOnlyAdvances` says that only clearing the store sets the sweep
  back, though a pass may outlive the login it began in (`Onward`).
- `RoomProofs`, on `Screen`: `ScreenTypeOK`, `OwnAnswers`, `NoRequestForgotten`,
  `ScreenIsCurrent`, for any number of sockets, rows and requests. Two layers.
  - `Link` is about the socket in use: requests and replies on it are in the
    order of their numbers (`Ordered`), each is of a request the plugin waits for
    (`Owed`), `hello` comes first and a cut line belongs to a reader that has been
    dropped (`Greets`); and every request is somewhere (`Here`), unless the
    reader has been dropped or the daemon has closed its end. The lemmas on one
    socket (`Takes` to `Opens`) are about sequences only; `OnlyOpened` says that a
    socket not opened yet is untouched, so a new connection starts clean although
    the threads of the old one are still at work.
  - `Sees` is about the rows: of a reader that is counted and has no `messages`
    request coming, either its thread holds rows that replace the screen and
    reach back over all that came by sync, or, for every row that is not
    overtaken, the last line on its way that sets the row, or else the screen,
    has the version stored, or the sync thread is still to publish it. `Reasks`
    says why the others do not matter: a reader not yet counted, or just
    resumed, has a request coming, for at least `Limit` rows. `Known` says that
    only rows that are stored are ever told or shown, which is what keeps an
    edited row from being a row nobody has. It is a statement about messages and
    about the texts told, not about edits: those are not told.

Three action properties are stated beside their proofs and in no run:
`OneKeyForGood`, `PickleOnlyAdvances` and `SweepOnlyAdvances`.

Model-checked only: the liveness properties (`LastReaderStopsIt`,
`StoppedDaemonsExit`, `CalmCompletes`, `StartIsReached`, `SweepEnds`), since
liveness under fairness is beyond the prover. Every invariant a passing run
checks, and every refinement, is a theorem.

## 5. Where code and comments disagree

The three violation runs above, each quoting the comment in `PROJECT.json`.
The following are stated as properties at the end of their modules, under "What
the source says and the code does not do". TLC refutes each on the small
instance named; no run is kept for them, and the run that passes checks the
weaker promise the code does keep.

| Property | Where | What happens | Instance |
|---|---|---|---|
| `Timeline!LateKeyUnlocks` | `main.rs:1336` | a row whose key arrives by to-device later, without a backup that holds it, stays locked | one message, no faults, `PageLimit` 0 |
| `Timeline!NeverDowngraded` | `store.rs:645` | a row another thread has made readable is overwritten by the placeholder converted before its key came | one message, one client |
| `Account!FlaggedKeysArePublished` | `main.rs:1098` | an upload answered after a logout and a login flags the new login's keys, which are then never uploaded | one client, two devices |
| `Account!LogoutLeavesNothing` | `store.rs:386` | with two clients, a logout between the other's `save_session` and `load_or_create` leaves a fresh account in a store nobody is logged in to; with one client it holds | two clients, two devices |
| `Daemon!StopsOnlyAlone` | `ipc.rs:211` | the count of readers and the decision to stop are not one step, and a reader answered `hello` is not counted yet | one daemon, two connections |
| `Verification!KeyOnHand` | `crypto.rs:598`: "the key has to be on hand before the `m.key.verification.mac` arrives" | a device query that fails, or a restart between start and MAC, leaves the key out, and the verification is announced with the MAC over it skipped (`crypto.rs:1490`) | `MaxKeys` 1, `Mishaps = {"send"}` |
| `History!DoneIsTheStart` | `store.rs:565`: "`done` is set once the server has told us we reached the start of the room" | an empty page with an end token is taken for the start (`main.rs:1766`) | one client, a hidden page |
| `Vault!WindowCloses` | `store.rs:56`: "the window for that closes at migration" | a value that begins with `k1:` is left as it is by `encrypt_existing` (`store.rs:1048`) and cannot be read afterwards | one key, `Faults = {"crash"}` |
| `Screen!LoadingEnds` | `kmatrix_ipc.lua:127`: "a synthetic failure table when the daemon is gone" | `onSuspend` tears the connection down and drops the callbacks without calling them: `loading_older` stays set and older messages are never loaded again | two connections, one suspend |
| `Screen!EditsReachTheScreen` | `main.lua:961`: "the daemon resends an event under its own id after another client edited it" | an edit is recorded (`main.rs:951`) and makes no message (`main.rs:991`), so nothing is published and an open timeline keeps the old text; and a message whose edit was recorded before it is published with the text it came with | one connection, no faults |
| `Screen!DroppedReaderReconnects` | `ipc.rs:46`: "the plugin re-reads state on reconnect" | a reader dropped from the Bus (`ipc.rs:80`) keeps its connection, so nothing makes it reconnect | one connection, `Cap` 1 |

Found in the same way, without a property of their own:

- A `messages` reply read before an event was published and written after it
  replaces the list, and the new message vanishes until the next event or
  opening (`main.lua:910`). `ScreenIsCurrent` excludes exactly the rows told so,
  those rewritten without being told, and those of an answer that failed
  (`overtaken`).
- An edit of a row outside the window is merged as a new row, so the list
  then has a hole (`main.lua:965`); a page loaded from a window that has been
  refreshed at its old limit can drop rows that were backfilled before.
  `ScreenIsCurrent` therefore speaks of the newest `Limit` rows that came by sync
  and of what is shown.
- An `m.room.name` that comes in a batch's timeline, as a renaming does in an
  incremental sync, is ignored: only `jr.state` is read (`main.rs:660`), so a
  room renamed while the daemon runs keeps its old name. `main.rs:401` and
  `PROTOCOL.md:68` speak of rooms without a name only.
- `restore_room` shows an edit that arrived locked as a message of its own,
  `* new text` (`main.rs:1350`; `main.rs:949` says why it must not).
- `crypto.rs complete` ("both have said `done`") may be reported while our
  `done` is still unsent or could not be sent (`main.rs:1517`).
- A plugin suspended while it polls for a daemon it launched leaves that daemon
  running with no reader (`main.lua:279` says it should not outlive a screen).
- A page asked for without a token while a limited sync seeds the edge
  overwrites the seeded edge (`main.rs:1765`). `skipped` allows for it, and
  `HistoryWhole` is violated by it too.
- Two sends that both find a device without a session each claim a one-time key
  of it (`main.rs:1206`), and one of the two is wasted.
- A pickle of the old login written between `clear` and `load_or_create` makes
  the new login fail (`crypto.rs:200`), with its session saved.
- A sync iteration begun in one login may save its batch and its token into the
  store of the next (`main.rs:584`).

## 6. Plan

Done in this order: Timeline and its abstract register; Outbound; Account;
Daemon; Verification; History; proofs of Timeline, Outbound, History; Vault and
its Ledger; Screen; RoomNames; proofs of Account, RoomNames, Vault, Daemon;
proofs of Verification and Screen.

Next:

1. Action properties of the components that have none yet, where TLC finds that
   they hold: what `Vault` may never do to a sealed cell, `Daemon` to another
   daemon's port file, `Account` to a key that is marked.
2. `Account` with the sync token; `Timeline` with a second share of a session
   that starts later.
3. The backoff of the sync loop, if something comes to depend on its length.

## 7. Not modelled

Previews, profile look-ups, unread counts and the wording of composed names
(computed from one row at a time, nothing else reads them); the HTTP client
beyond "a request succeeds, fails, or is answered late"; Megolm, Olm, AES and
SAS cryptography beyond who holds what; SQLite beyond atomic statements, the WAL
and its checkpoint; lengths of intervals; screens other than the timeline, menus
and layout; packaging and test scripts.

Also left out, each for being a repetition of what is modelled or out of any
property's sight: that a sync iteration which fails after publishing publishes
again when it is repeated (a merge of the same rows); two threads fetching the
same page as far as the screen sees it (`History` has them); a `do_logout` whose
`clear` fails, beyond `Vault`'s half-done one; a room whose state can never be
read, which the fairness of `RoomNames` excludes; the undoing of an `unlink` by a
power cut during `--reset-store`.
