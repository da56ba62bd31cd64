# TLA+ verification of Epistl

Epistl is an end-to-end encrypted chat: a Rust API (`apps/api`: Axum, PostgreSQL, NATS
JetStream), a React Native client (`apps/mobile`), a QUIC client library
(`packages/quic-relay-client`) and the tooling its developers run
(`apps/api/src/bin/migrate.rs`, `packages/dev-setup`). This directory holds TLA+ models of
its core logic, the TLC configurations that check them, and theorems that TLAPS proves for
every value of the constants. Paths below are relative to the repository; `api/` stands for
`apps/api/src/`, `mobile/` for `apps/mobile/src/`.

## Inventory

| Component | State | Operations | What is hard | Module |
|---|---|---|---|---|
| Connection registry (`api/registry.rs`) | user → sender half of the channel of the user's one live connection | insert (returns the replaced sender), get, remove_if_current | sender halves are used after the lock is gone; the cleanup of a replaced connection races its successor's registration | `Relay` |
| Connections (`api/ws.rs`, `api/quic.rs`) | a handler task, a forward task, an unbounded channel between them | register, tell the replaced one to close, catch up, read, clean up; forward, close | two tasks and the client end at different moments; the transports differ in what a close does | `Relay` |
| Relay logic (`api/relay.rs`) | none of its own | handle_send, deliver_queued_messages, redeliver_if_now_connected | the recipient comes or goes between any two steps; NATS calls fail, time out, or succeed unconfirmed | `Relay`, `Mailbox` |
| Offline queue (`api/nats.rs`) | JetStream WorkQueue stream | publish, consumer, fetch, ack, delete, expiry; creation, drop and prune of worktree streams | one consumer per subject; ephemeral consumers linger; crash of the API | `Relay`, `Worktrees` |
| Queue endpoint (`api/messages.rs`) | none | get_queued walks the queue without consuming | the queue changes between the calls of the walk | `NotificationDecrypt` |
| Contacts (`api/contacts.rs`) | `contacts` (two directed rows), `contact_requests` | add, remove, create, accept, decline, cancel; two lists | several statements per call at READ COMMITTED; row waits, deadlocks, unconfirmed commits | `Contacts` |
| Accounts (`api/auth.rs`, `account.rs`, `username.rs`, `keys.rs`, `push_tokens.rs`) | users, sessions, user_keys, push_tokens | sign up, log in, bearer token, rename, upload keys, register a device, delete | what was read by one statement is gone at the next | `Accounts` |
| Avatars (`api/avatars.rs`) | object store, `users.image` | upload URL, confirm, serve | the client writes the store directly, at any time before its URL expires | `Accounts` |
| Search limiter (`api/search.rs`) | window start and count | try_acquire | the boundary of two windows | `Accounts` |
| Transport store (`mobile/transport/store.ts`, `quic.ts`; `packages/quic-relay-client`) | socket, QUIC connection, generation, attempt id, timers, and each attempt's locals | connect, close, getToken, race of QUIC, its timeout and WebSocket, reconnect | late events of superseded attempts; success or failure after a timeout | `Transport` |
| Shared notification decryption (`mobile/crypto/notificationDecrypt.ts`) | session with a generation, decrypted-message records, lock | notificationDecrypt, receiveEnvelopeShared | two processes; a lock that expires under its holder; death at any await | `NotificationDecrypt` |
| Ratchet (`mobile/crypto/session.ts`, `envelope.ts`) | chain keys and numbers | handshake, encrypt, decrypt with ratchet step | duplicates, losses, reordering | its receive rule in `NotificationDecrypt` |
| Worktree databases, migrate, start-up (`api/db.rs`, `nats.rs`, `bin/migrate.rs`, `main.rs`) | databases with their migration versions, streams, sessions, git worktrees | migrate, drop, prune, serve | names derived anew at each call; commands side by side; worktrees that come and go | `Worktrees` |
| Developer set-up (`packages/dev-setup`) | installed tools, PATH, profile block, .env files, docker stack | detection, prompt and install of each tool; compose, health poll, migration | half-successes, runs without a terminal, two tools writing one block | `DevSetup` |
| Identity on the device (`mobile/crypto/identity.ts`, `keyRegistration.ts`) | six keys in the keychain, a marker | load or create, upload | parallel writes of which some fail | — |
| Inbox and sending (`mobile/inbox/listener.ts`, `screens/ChatScreen.tsx`) | session store, message table | load, decrypt, save; load, encrypt, send, save | handlers over one stored session without a lock | — |
| Push fan-out (`api/push.rs`), screens, REST client | — | — | no protocol | — |

Interactions. A client opens a WebSocket or QUIC connection, which the API registers and
drains the user's JetStream subject into. `handle_send` reads `contacts`, then the
recipient's registry entry, then pushes into the recipient's channel or publishes to
JetStream. The other endpoints are plain HTTP over PostgreSQL. A notification process on
the phone peeks at the queue and shares the ratchet session with the app.

`PROJECT.json` lists the hazards of this code at their lines, with the property that covers
each, or why none does.

## Modules

For each component `X` there is `X` (the state machine), `XProperties`, `MCX` with its
`.cfg` files, and, where something is proved, `XProofs`. `Mailbox` is an abstract
specification, and `RelayRefinement` holds further theorems about the relay, the refinement
among them.

### Relay

A connection `c` is a handler task, whose program counter is `phase[c]`, a channel
`chan[c]`, and a forward task that owns the receiving half `rx[c]`. One action is what the
handler does from one await to the next, or up to the next access to shared state where
there is none. `Register` is the registry insert, which returns the sender it replaced
(`prev`); `ReplacePrevious` pushes the close frame. `CreateConsumer` … `CatchUpAborted` are
`deliver_queued_messages`; `ReceiveSend` … `QueueUnavailable` are `handle_send` with
`queue_for_offline_delivery`; `Redeliver*` is the task it spawns; `WriteFrame`,
`WriteFails` and `WriteClose` are the forward task, where the transports differ: a
WebSocket stays readable after our close frame, a QUIC connection is closed. `CleanUp` is
the tail of both handlers. JetStream survives `Crash`; registry, tasks and channels do not.
`handed`, `written`, `lost`, `expired` and `caughtUp` are history variables.

Abstractions: the contact check is a free choice (`IsContact`, `NotAContact`), since its
table changes under it; push fan-out changes no relay state; authentication is over before
`Register`. `Fetch` takes a snapshot of the oldest `MaxFetch` messages, and a batch that
falls short of the queue makes no claim (`caughtUp`), as the code leaves the rest for the
next reconnect. An ack takes effect at once, or never. A publish whose confirmation is lost
reaches the stream before the sender is told `queue_unavailable`, or not at all. `CleanUp`
merges `remove_if_current`, dropping the sender and aborting the forward task: in between,
no other task can tell the difference except by steps that commute.

`Mailbox` says what a sender may rely on without connections, channels or a queue: only a
message the relay has taken is acknowledged, and the last copy of it goes only once one was
delivered or given up, which is expiry or the end of a connection. `RelayProperties` maps
the relay to it (`Promise`): held is what is queued or in a channel, dropped is what expired
or went with a channel.

### Contacts

A call is one HTTP request. `pc[c]` is the SQL statement it runs next, `inserted`, `deleted`
and `written` are what its open transaction has done, and `Close` ends it. The database is
PostgreSQL at READ COMMITTED, the default of the pool: a statement sees what is committed
when it starts; an `INSERT ... ON CONFLICT` waits for an open write of its pair, a `DELETE`
or `UPDATE` for the open write of a row it saw, and goes after that row alone
(`DeleteWaits`, `Scanned`); the two-row `INSERT` of an accept handles its rows one after the
other. Of two transactions that wait for each other one is aborted (`DeadlockVictim`). Any
statement may fail (`StatementFails`), and a commit may happen unconfirmed
(`CommitUnconfirmed`); an `INSERT` outside a transaction that is applied and not confirmed
is left out, as what follows is what follows a confirmed one. Also left out: the list
endpoints, the lookup of the target user, the best-effort live push, deletion of users under
the calls.

### Accounts

A request is a task; one action is one statement or one call of the object store. `Receive`
takes the endpoint and its arguments; `RateLimit`, `ReadSession` and `ReadAccount` are the
search's limiter and the extractor that every authenticated endpoint runs first, so an
endpoint acts for an account it read earlier. `MayReference` is the foreign key, `Taken`
the unique index; deletion cascades. The client's `Put` writes the object store behind the
API's back. `Tick` moves the limiter's clock, whose window is two ticks. Each statement and
each call of the store may fail. BetterAuth's sign-up and login are external and one step
each; password hashing and the adapter's row conversions are left out. `oversized` and
`granted` are history.

### Transport

One action is one JavaScript callback, or a step of the native client beneath. Every call of
`attemptConnect` is an attempt with its local variables (`at[a]`), which later callbacks
still use when another attempt has begun; `Stale` and `Foreign` are the guards with which
they notice. `GotToken` dials QUIC and starts its timer; `QuicTimeout`, `Resolved` and
`Rejected` are the three events that race; `WsOpens` and `WsCloses` are the socket's.
`ConnectImpl` and `PeerCloses` are the native client: handshake and auth grace period, and
the end of a connection. `OnClosed` may come as soon as that end is there, before
`connectQuic` has resolved: `connect_impl` spawns the reader before it returns
(`lib.rs:494`), and the result has several hops to take to JavaScript.
Frames are not state: `HearsQuic`, `HearsWs`, `SendsOnQuic` and `SendsOnWs` say which
connection a frame would be taken from and given to. Backoff delays are left out: a timer
that is pending may fire, and `timers` counts them, because `scheduleReconnect` does not look
whether one is pending. `Orderly` is the condition of four properties. An attempt gets
disorderly in two ways: its QUIC times out and then fails, so that it dials a second
WebSocket (finding 3), or an `onClosed` is heeded before `connectQuic` resolves (`early`, a
history field; below, under further disagreements).

### NotificationDecrypt

A receiver is one call of `notificationDecrypt` or `receiveEnvelopeShared`; its `pc` is the
await it is at. The notification process first walks the offline queue (`StartFetch` …
`FetchFailed`, the endpoint of `api/messages.rs`) while `Publish` and `Dequeue` change it;
the app is handed envelopes by its connection. Then `Acquire` … `Release` are
`receiveLocked`. The lock expires at any time (`Expire`), a store call throws before or
after its effect (`StoreThrows`, `WriteUnconfirmed`), and a process dies at any await
(`Dies`). `SessionStore` and `Lock` are interfaces in the code, so they are modelled by the
contract their comments state: `write` is an atomic compare-and-set of the generation that
also stores the record. The ratchet keeps no skipped keys: an envelope decrypts when it is
next in its chain or first of the next (`Decrypts`); cryptography is exact. `Id[e]` is the
message id the fetch returns with an envelope; the endpoint's reply has no such field yet,
so the ids are a constant, and a damaged envelope may carry the id of another. `consumed`
and `ingested` are history.

### Worktrees

A process is one invocation of `migrate` (plain, `--drop`, `--prune`) or of the server; one
action is one call of PostgreSQL, NATS or git. Names are sequences of characters, with
`SanitizeSlug`, the 63-byte limit (`Truncate`) and the prefix of `derive_db_name` and
`effective_stream_name`. Every call asks git again (`SlugsIn`), so two steps of one command
may disagree. `AddTree` and `RemoveTree` are git, `Kill` the operating system;
`SessionLost` is what `pg_terminate_backend` does to others. Either git command may fail:
without an answer to `rev-parse` a checkout counts as the primary one, and without one to
`worktree list` every derived name is an orphan (`KeepOrphans`). History: `steady[p]`, the
worktrees that have been there since `p` started, and `blind`, the prunes whose current list
comes from a `git worktree list` that failed. The rule that PostgreSQL refuses to drop a
database somebody is connected to is part of `DropDb`; what the code adds to it is whose
sessions it ends, and when (`ReconnectsAreKept`).

### DevSetup

One run at a time, on one host, repeated; `stage` is the tool, `phase` its detection,
prompt or installation. `host`, `disk`, `path`, `profile`, `group`, `login` and `daemon` are
the machine, which survives a run; `NewSession` is a new login shell, `DockerChanges` the
daemon and containers. What `EnsureNode` adds to `path` stays there although the process that
set it ends; no property depends on it. Every install may fail, and a download piped into a
shell may succeed with nothing installed. Versions, package names and messages are abstracted
to what the checks compare.

## Runs

"States" are distinct states. Deadlock is checked in `worktrees` and `dev_setup`, which can
always go on; the other instances end when their connections, calls or receivers are used
up.

| Run | Instance | States | Shows |
|---|---|---|---|
| `relay` | a sender and a QUIC connection of the recipient, two messages, batches of two, NATS faults, one crash | 2.3 M | `TypeOK`, `DeliveryInv` (the invariant of the proofs), `NoStrandedMessage`, `AckedIsAccountedFor`, `LiveNeverQueued`; every step is one of `Mailbox` (`ImplementsMailbox`) |
| `relay_live` | the recipient is connected over WebSocket and reconnects over QUIC, the client of the first connection goes on reading, one message, NATS faults, one crash | 63 k | `NoConnectionForgotten`, `OnlyReplacedIsClosed`; under fairness `QueuedReachesConnected`, `ClosedLeavesRegistry`, `ReplacedIsClosed` |
| `relay_ack_order` | finding 1 | | `QueuedSurvivesUntilWritten` violated |
| `contacts` | two users; five calls, each any endpoint by either user; faults | 471 k | `TypeOK`, `ResolvedOnce`, `ConsentIsRespected` |
| `contacts_live` | four calls of create, accept, remove | 105 k | under fairness `EveryCallIsAnswered` |
| `contacts_symmetry` | finding 2 | | `SymmetricContacts` violated |
| `accounts` | one account and room for a second, three requests of any endpoint, three spellings of two names, faults | 0.9 M | `TypeOK`, `NothingOutlivesItsAccount`, `NamesUnique`, `ImageIsServable`, `SearchBudget` |
| `transport` | two calls of connect, two faults, so up to four attempts | 1.3 M | `TypeOK`, `UsableIfOrderly`, `NothingIsLeftOpen`, `RefusedIsTerminal`, `DiscardedIfOrderly`; under fairness `ReconnectEnds` |
| `transport_second_socket` | finding 3 | | `SocketForGoodIsUsable` violated |
| `notification_decrypt` | three receivers of either process; the first envelopes of two chains, a damaged copy, a handshake, and another contact's message | 3.9 M | `TypeOK`, `PlaintextIsBound`, `OldestIsFetched`, `NothingIsLost`, `NeverAdvancedTwice` |
| `worktrees` | two commands side by side, two worktree names of which one is too long for a database name, a slug from the environment, failing git, PostgreSQL and NATS | 246 k | `TypeOK`, `BaseIsNeverDropped`, `NeverPrunesLive`, `ReconnectsAreKept`; under fairness `CommandEnds` |
| `dev_setup` | Ubuntu, Arch, macOS and an unsupported host, four sets of flags, two runs | 1.4 M | `TypeOK`, `SuccessIsUsable`, `CheckOnlyWritesEnv`; under fairness `UnattendedRunEnds` |

Why the bounds are enough. The relay's races are between a message and the life of its
recipient's connections: one registration meets each message before, during or after its
publish, the second message cuts a batch in two, and the replacement of one connection by
another is in `relay_live`. That run has two connections of the user; a third, which
displaces one that is not forwarding yet, is covered by the proofs
(`NoConnectionIsForgotten`, `CurrentIsNeverClosed`), which hold for any number. For
contacts, crossed requests, two resolutions of either and a removal take five calls, the
most any property relates. For accounts, a property is broken by at most two requests with a
deletion or a sign-up between their steps, and three requests leave one over. A transport
attempt is superseded by a reconnect or by `close` and `connect`, and both fit in four
attempts. Two receivers race for an envelope while the third comes later and finds the
result. In `worktrees` a command meets one other command and git; a third could only do what
one of the two does; a command in the primary checkout derives what one in a worktree
derives when git fails, so the run has none. `dev_setup`'s second run meets whatever the
first left behind. `SearchBudget` needs no more ticks than the window has, since `granted`
only keeps the last ones. Symmetry is used over calls and users (`contacts`), requests and
emails (`accounts`) and receivers (`notification_decrypt`), which only their actions' bound
variables name; no run with a liveness property uses it. The properties that are proved do
not depend on the bounds.

### Findings

1. **Ack before write** (`api/relay.rs:133`). ADR 0008 (lines 54-60) says a queued message
   is acked after the send to the live socket succeeds. It is acked when it is in the
   in-memory channel; a connection that ends before the forward task writes it loses it.
2. **One-sided contacts** (`api/contacts.rs:621`). The design document has contacts
   symmetric once accepted and both rows inserted atomically. A second request can be
   inserted while the first is accepted; if a removal commits while the accept of the second
   has passed its first row (skipped as existing) and not its second, only the second is
   inserted.
3. **Two WebSockets of one attempt** (`mobile/transport/store.ts:384`). `startWs` is
   documented as called once QUIC has failed or timed out. When it times out *and then*
   fails, both handlers call it. The second socket's opening is taken for a socket that lost
   the race: it sets the flag that both share, and the first socket, over which the store is
   connected, is no longer heard, for as long as it stays open.

Further disagreements between code and words, which no run is spent on:

- `mobile/transport/store.ts:366-368` says a late QUIC success never displaces a connected
  WebSocket. With two sockets of one attempt (finding 3) it can: each schedules a reconnect
  when it closes (`store.ts:306-307`, `318`), and `scheduleReconnect` (`store.ts:159-170`)
  sets a timer without looking for one that is pending. Both fire; the first reconnect
  connects by WebSocket, the second begins a newer attempt whose QUIC takes over, and the
  WebSocket stays open and unheard. It takes one call of `connect` and three faults
  (`MaxConnects = 1`, `MaxFaults = 3`).
- `mobile/transport/quic.ts:75-76` says `onClosed` comes after `connectQuic` has resolved.
  Nothing enforces it. `store.ts:336` compares `quicConnection` with `thisQuicConn`, and both
  are null until then, so an early `onClosed` is heeded: it schedules a reconnect, or after a
  4001 ends in `disconnected`. Then `connectQuic` resolves, and unless a WebSocket won,
  `finishWithQuic` shows `connected` on the dead connection, for good, over the refusal too;
  after QUIC's timeout the reconnect runs beside the WebSocket of the first attempt, which is
  left open or displaced by the second attempt's QUIC. With one call of `connect` and one
  fault (`MaxConnects = 1`, `MaxFaults = 1`) TLC refutes `UsableIfOrderly`, `RefusedIsTerminal`,
  `NothingIsLeftOpen` and `DiscardedIfOrderly` if `Orderly` does not exclude `early`, in 7 to
  12 states. They hold, and are proved, for every execution in which no attempt is
  disorderly; `TypeOK` and `ReconnectEnds` hold for all.
- `api/relay.rs:225-226` says a message answered `queue_unavailable` is not delivered by any
  path; when only the publish's confirmation was lost, a later catch-up delivers it.
- `api/ws.rs:120-122` says a reconnect always catches up first; when the previous consumer
  lingers, the new one is refused and the handler reads on (`ConsumerRefused`).
- `api/db.rs:414-416` says a live worktree's database is never touched. A database name is
  cut at 63 bytes and compared with the full slug, and a failing `git worktree list` makes
  every derived database an orphan (`db.rs:386-395`), whose sessions are ended and which is
  dropped. Both are in the model. `NeverPrunesLive` and `ReconnectsAreKept` therefore speak of
  databases with short names, and of prunes whose last list did not fail: without the second
  condition TLC refutes them in 6 and 7 states.
- `packages/dev-setup/src/main.rs:159` says `--check` never mutates state; it writes the
  missing `.env` files (`CheckOnlyWritesEnv` is the claim without those).
- `packages/quic-relay-client/src/lib.rs:341-349` says `on_closed` is called after a local
  `close()`; `close()` aborts the reader first so that it is not (lines 417-429). The model
  follows the code.

## Fairness

- Relay: weak fairness of every handler and redelivery task. tokio polls every ready task,
  and each of their awaits ends: fetch and publish have timeouts, channels are unbounded. Of
  the forward tasks only those of the connections in `Reading` are fair: their socket writes
  (`ws.rs:114`, `quic.rs:345`, `348`) have no timeout, so a client that stops reading keeps
  the frames behind them, a close frame too, from ever going out. `ReplacedIsClosed` is
  promised to a client that reads; `QueuedReachesConnected` ends at the channel and
  `ClosedLeavesRegistry` at the handler, and need no forward task.
- Contacts: weak fairness of every call. The server runs each handler and PostgreSQL each
  statement whose locks are free; its deadlock detection resolves the rest.
- Transport: weak fairness of the event loop as a whole, with the reconnect timer. Every
  event that is due is handled in the end because the pending ones are finitely many, and
  whatever was begun ends: QUIC's idle timeout and the platform bound both kinds of connect.
- Worktrees: weak fairness of each process that is running; waiting for the advisory lock is
  not a step, so it takes the holder to end.
- DevSetup: weak fairness of the run; the answer at a terminal is the user's and not fair,
  which is why `UnattendedRunEnds` is about runs without one.

There is no fairness for clients, crashes, timers of JetStream, git, or faults, and no
progress depends on a fault.

## Proofs

TLAPS proves these for any sets of users, connections, messages, calls, requests, receivers,
envelopes, names and hosts, and any number of connects, faults, runs and crashes:

| Theorem | Statement | Argument |
|---|---|---|
| `RelayProofs!Typing` | `[]TypeOK` | with `HoldsWhatItUses`: a handler in the middle of a send has a message, one that is sending has a peer |
| `DeliveryHolds`, `NoMessageIsStranded` | `[]DeliveryInv`, `[]NoStrandedMessage` | below |
| `RelayRefinement!AckedMessagesAreAccountedFor` | `[]AckedIsAccountedFor` | `AccountInv`, below |
| `RelayImplementsMailbox` | `Spec => Promise!Spec` | below |
| `LiveIsNeverQueued` | `LiveNeverQueued` | `PushedLiveIsAcked`, below |
| `CurrentIsNeverClosed` | `[]OnlyReplacedIsClosed` | `ClosesReplaced`, below |
| `NoConnectionIsForgotten` | `[]NoConnectionForgotten` | with `PrevIsReplacing`: only a handler between its insert and its close frame knows a previous connection |
| `ContactsProofs!ContactsTyping`, `OneOutcome`, `Consent`, `RequestsAreOwned` | `[]TypeOK`, `[]ResolvedOnce`, `[]ConsentIsRespected`, `[]ConsentInv` | below |
| `AccountsProofs!RowsHaveTheirAccount`, `NamesAreUnique`, `ImagesAreServable` | `[]NothingOutlivesItsAccount`, `[]NamesUnique`, `[]ImageIsServable` | below |
| `NotificationDecryptProofs!SessionTyping`, `RecordsAreBoundToEnvelopes`, `FetchesInOrder`, `EveryMessageIsReadable`, `RatchetMovesOnce` | `[]TypeOK`, `[]PlaintextIsBound`, `[]OldestIsFetched`, `[]NothingIsLost`, `NeverAdvancedTwice` | below |
| `AccountsProofs!SearchesAreLimited`, `TypeCorrect` | `[]SearchBudget`, `[]TypeOK` | `WindowInv`, below |
| `WorktreesProofs!BaseIsSafe` | `BaseIsNeverDropped` | no derived name is the base name, and what a prune has listed and compared is derived |
| `TypeCorrect` | `[]TypeOK` | `TypeInv`, below |
| `LiveWorktreesAreSpared` | `NeverPrunesLive` | `LiveAreSpared`, below |
| `ReconnectsAreSafe` | `ReconnectsAreKept` | `OneTarget`, below |
| `TransportProofs!TypeCorrect` | `[]TypeOK` | `TypeInv`, below |
| `ConnectedIsTrue`, `NothingLeaks`, `RefusalEndsIt`, `LateSuccessIsDiscarded` | `[]UsableIfOrderly`, `[]NothingIsLeftOpen`, `[]RefusedIsTerminal`, `DiscardedIfOrderly` | `SingleInv`, below |
| `DevSetupProofs!TypeCorrect`, `SuccessLasts`, `CheckIsHarmless` | `[]TypeOK`, `[]SuccessIsUsable`, `CheckOnlyWritesEnv` | `SetupInv`, below |

**Relay, delivery.** `NoStrandedMessage` is not inductive, since it says nothing about a
message that is being published. `DeliveryInv` adds that every message in the queue of a
connected and caught-up user is covered by someone (`Covered`): the batch that will forward
it, the channel it was pushed into, the handler that has just published it and will spawn
the redelivery, or the redelivery task itself. Handing on that responsibility needs that one
handler works on a message and publishes it once (`OneHandler`), that stream order is strict
(`StreamOrder`), that an ack follows its push (`ForwardedBeforeAck`), that what the registry
names is running (`RegisteredIsRunning`), and that a connection fetches once
(`FetchedOnce`). The key case is a publish after the fetch of a connection that is already
registered: the redelivery is spawned after the publish, so it finds that connection.

**Relay, refinement.** `AccountInv` says where every published or pushed message is: queued,
in a channel, written, expired or lost. It needs what the tasks remember: a confirmed
handler has published, a redelivery works on what was published. The steps fall into a few
kinds (quiet ones, a push, an answer, a channel that is dropped, a step of the queue), each
with a lemma on what it does to the messages in transit, and each maps to one step of
`Mailbox` or to a stutter. `Drop` takes several messages at once because a connection that
ends drops its whole channel.

**Relay, live path.** A message in no stream that was pushed has its ack
(`PushedLiveIsAcked`): `handle_send` answers in the step that pushes, while a catch-up and a
redelivery push only what was published (`StreamOrder`, `RedeliversWhatWasPublished`). The
handler that publishes holds a message that has no answer yet (`OneHandler`), so it is not
one of those.

**Relay, replacement.** A close frame gets into a channel only from a handler that learnt of
that connection when it registered (`CloseIsKnown`), and only a registration puts a
connection into the registry, once (`OnlyRegisterNames`). So a connection that has been told
to close, or is about to be, has registered and is no longer the one its user's entry names
(`ClosesReplaced`), whichever of several displaced it and however late the frame is sent.

**Contacts.** `ResolvedOnce` is not inductive because a second resolution may already be
under way. In `ConsentInv`, whoever has written a request row holds it alone until it
commits, and the row is still pending (`HoldsItsRequest`); what was resolved stays resolved
(`ResolvedForGood`); rows carry the call that inserted them (`RowsAreSigned`); calls and
requests fit each other (`InItsEndpoint`, `RequestsExist`). The fifteen actions of a call
are reduced to six shapes (`StepShape`).

**Accounts.** Names are stored normalised (`Normalized`), so the unique index compares what
`NamesUnique` compares. For images, what `HeadObject` saw must still hold when the row is
updated (`HeadStillHolds`): only an oversized upload brings the object store to a state in
which a purge may run, so an account that never uploaded one keeps its object.

**Notification decryption.** The lock is no part of the argument. `SeenIsOld`: a session
that a receiver read has a generation no newer than the stored one, and equals it if the
generations are equal, so a write that passes the compare-and-set is a step of the stored
session (`WritesFollow`). `ConsumedIsBehind`: an envelope that was decrypted is behind the
stored chain position and never decrypts again. `RecordsAreBound` and `OkIsConsumed` tie
records and answers to envelopes, and since no two intact envelopes share an id, no write or
deletion removes another's record. `QueueOrder`: a walk has passed only sequences below every
queued envelope of the contact, and what is published later is younger.

**Search limiter.** `SearchBudget` sums what was granted in the last ticks, which the
limiter does not know. `WindowInv` relates the two: what was granted since the window opened
is counted, so it is at most the budget, and what is older came from one earlier window.
Nothing is granted between the end of a window and the first request of the next.

**Worktrees.** A session is one to the database that the process's URL names, and is held
only in certain phases (`SessionsAtUrl`); with that, a connected process finds its database
there (`SessionsKeepTheirDb`), which types need: a migration reads its version. For pruning,
`LiveAreSpared`: what a prune has listed as orphaned and not yet dropped holds no name of a
worktree that has been there since the prune began, unless the prune is blind. A database
counts if its name holds the whole slug (`Len(n) <= Room`), a stream always. The comparison
establishes it when git answered, and from there the list only shrinks. `StepKinds` sorts the
steps by what they do to a prune, so that the other commands take one case. For sessions,
`OneTarget`: between two drops a prune's target is one it has taken off its list or none, so
what it terminates is never what it has just dropped or refused to drop, and nothing but that
terminate touches the sessions of others (`OnlyTerminates`).

**Transport.** `TypeInv` holds always. It bounds attempts and timers by the calls and faults
they follow (`Counted`) and says what an attempt's locals imply of each other (`Coherent`).
`SingleInv` holds as long as every attempt is `Orderly`, and says that the store has one
pair of hands: at most one pending timer or one attempt that may still schedule one
(`OneAtATime`), the variable `socket` is the one WebSocket that is dialling or open
(`HoldsSocket`), `quicConnection` every QUIC connection that is up once its promise has
resolved (`HoldsQuic`), and `active` names the one that is held (`ActiveIsUp`). Each callback
either keeps the hands, passes them on to one timer or one attempt, or drops them for good
(`HandsOn`). The four safety theorems are read off it, the last one step by step.

**Developer set-up.** `SuccessIsUsable` speaks of the end of a run and of a session that
begins later. `SetupInv` carries it there: while nothing has failed, every tool whose stage
is over is delivered (`Passed`), that is, a *new* session finds it, not only the running one.
What a later stage writes takes nothing away, since a profile block keeps the lines of the
other tools; the machine is sound between runs too, killed ones among them (`Machine`): what
a session finds is on the disk, and where the profile can be written, a node that is found
now is found again. `Checking` says that a `--check` run never reaches a prompt, an
installation or the start of the stack.

Assumptions: the named assumption of each module, which says what its constants are.
`NotificationAssumption` contains the ones with content: intact envelopes have ids of their
own, and stream sequences are unique. `DevSetupAssumption` has a host start without a node
of fnm's; what node it has is one that every session finds. `TransportAssumption` and
`WorktreesAssumption` keep `None` apart from what it stands beside. No assumption excludes a
fault. Where the code does not keep what it says, the condition is in the property, as a
history variable: `Orderly` in the four safety properties of Transport, `blind` in the two
about prunes; the disagreements above say what happens without it.

Only model-checked: liveness (`QueuedReachesConnected`, `ClosedLeavesRegistry`,
`ReplacedIsClosed`, `EveryCallIsAnswered`, `ReconnectEnds`, `CommandEnds`,
`UnattendedRunEnds`), since fairness and `ENABLED` are out of TLAPS's reach here. Every
other property of a passing run is proved.

## Not modelled

- **Cryptography and the ratchet's sending side.** Signing, key agreement and key derivation
  are symbolic. The handshake and `deriveNextSendingMessageKey` only compute keys; the
  receive rule is in `NotificationDecrypt`.
- **Inbox listener and chat sending.** `loadSession` and `saveSession` have neither a lock
  nor a generation, and nothing in the code or its documents says what two handlers at once
  may rely on. ADR 0022 moves receiving onto the store that `NotificationDecrypt` models.
- **Identity and key registration on the device.** Parallel keychain writes and a marker,
  with one actor; the server's side is in `Accounts`.
- **Push fan-out** (`api/push.rs`): best-effort HTTP, no state.
- **`auth.rs:172-565`**: row conversions of the BetterAuth adapter. Password checks, token
  generation and session storage are the library's.
- **HTTP routing, REST client, screens, generated bindings, spikes** (`quic_ping`): no
  protocol state.
- Backoff delays, `lastFrame`, frame encoding, and the contents of messages.
