# cc-poker in TLA+

Models, model checks and proofs about the server of this repository
(`backend/`, Go) and about the one thing its web client (`web/`) does with its
messages that matters here: it shows the snapshots they bring. Paths below are
relative to the repository.

The poker itself is not written yet: the server hands out sessions and
nicknames, keeps wallets, sells buy-ins, seats players at tables, and tells
everybody at a table what it looks like. What can go wrong is therefore not a
card but a chip, a seat or a name: one that is lost, or there twice, because two
goroutines, two connections of one player, two transactions or a failure came
at the wrong moment.

## 1. Inventory

### Components

| component | source | state | operations |
|---|---|---|---|
| table | `internal/table/table.go` | seats, index player → seat, `seq`; one mutex | `Join`, `Leave`, `Snapshot`, `Restore` |
| table manager | `internal/table/manager.go` | table per id; one mutex | the same, by table id; creates tables on first use |
| event store, in memory | `internal/store/event_store.go` (`noopEventStore`) | balances, pending buy-ins; one mutex | `EnsureWallet`, `CreditWallet`, `CreateBuyIn`, `ConsumePendingBuyIn` |
| event store, PostgreSQL | `internal/store/postgres_event_store.go` | tables `wallets`, `buy_ins`, `users`, `sessions`, `table_events` | the same as transactions; `SaveSession`, `SaveTableEvent` |
| snapshot store | `internal/store/table_snapshot_store.go` | the last saved snapshot of a table (Redis or none) | `Save`, `Load` |
| session store | `internal/session/store.go` | sessions, `nicknameOwners`, `playerNicknames`; one RW mutex | `create`, `Delete`, `FindValid` |
| hub and clients | `internal/app/ws_hub.go` | set of connections; per connection: table, seated, idempotency cache | `add`, `remove`, `clientsForPlayer`, `SetTableState`, `ReplayIdempotent`, `StoreIdempotent` |
| WebSocket handlers | `internal/app/ws_handlers.go`, `state_helpers.go` | local variables of a goroutine per connection | `handleWebSocket`, `handleJoinTableEvent`, `handleLeaveTableEvent`, `closeClient`, `broadcastSnapshot` |
| HTTP handlers | `internal/app/http_handlers.go`, `session_helpers.go` | local variables of a goroutine per request | guest session, token exchange, logout, wallet, buy-in |
| boot | `internal/app/app.go`, `state_helpers.go` | which stores were within reach | seeds rooms, restores the default table's snapshot |
| web client | `web/src/features/play/model/usePlayConsole.ts` | the snapshot on screen | applies messages as they arrive |

Left aside: configuration and `main` (they only yield constants), the token
verifier (one HTTPS call, no state), wire types and wording of errors, SQL
schema files (what matters of them, the unique index on nicknames and the
absence of one on pending buy-ins, is in the models), the pages of the web
client.

### How they interact

* A **connection** is one goroutine in `handleWebSocket`: it registers with the
  hub, reads one request after the other, and runs `closeClient` when reading
  fails. What a connection knows of itself (`tableID`, `seated`) is a copy of
  what the table knows of the player, kept in step by hand.
* A **join** is a chain over three components: check the seat (table lock),
  consume the pending buy-in (store), leave the table the player sits at and
  refund that stack (table lock, table lock, store), take the seat (table lock),
  refund if the seat is refused (store), mark the connection, broadcast, save.
  No lock spans two links of the chain.
* An **HTTP request** that issues a session first revokes the one its cookie
  names: it deletes it and runs `closeClient` on every connection of that player,
  in its own goroutine, while these connections' goroutines go on.
* **Sessions** are created in memory, then saved, then handed out as a cookie; a
  failed save deletes the session again.
* A **broadcast** takes the snapshot a handler was handed under the table's lock
  and writes it, without that lock, to the connections at that table one by
  one; one that cannot be written to is removed from the hub and closed, and
  finds out by itself. The web client shows whatever snapshot comes.
* After a change the same snapshot overwrites a key in Redis and an event with
  its number goes to PostgreSQL, outside any lock; errors are only logged.
* A **repeated request** on a connection is answered from that connection's
  cache; the cache ends with the connection.
* A **boot** gives the default table the seats of its key; the other tables
  start empty, whatever their keys hold.

### What is hard

* Interleaving: every chain above is cut between any two links by any other
  goroutine, including one of the same player (a second tab; a revoking request).
* Partial failure: a store call fails after another component was changed.
* Retries and lost answers: a commit that nobody heard of, a request repeated.
* Order: snapshots saved and messages written in another order than their
  numbers.
* Crash: between two links; chips are in PostgreSQL, seats in Redis, and no
  transaction spans both; on boot only the default table comes back.
* Limits: the 128 entries and the 10 minutes of a cache that is a list and a map
  at once.

`PROJECT.json` lists these hazards at the lines where they bite, with the
properties that cover them.

### What makes each component correct

* table, manager: the seats and the index are two views of one assignment;
  within one process a sequence number stands for one state of the seats.
* wallets and buy-ins: a chip is in exactly one place; a buy-in is spent once.
* connections: a seat belongs to a connection; when it goes its chips come back.
* sessions: the two indices agree with each other and with the sessions; a
  nickname has one bearer.
* PostgreSQL store: its transactions look to their callers like whole transfers.
* publication: once the handlers are through, the screens, Redis and the event
  log tell what the table is; a restart creates no chips.
* request cache: list and map are one queue, and a repeated request gets its
  own last answer.

## 2. Modules

```
Identities ─┬─ Table ──────────┬─ TableManager ── MCTableManager
            │                  │       └─ TableManagerProofs (TableProofs)
            │                  ├─ Publication ── PublicationProperties ─┬─ MCPublication
            │                  │                                        └─ PublicationProofs (TableProofs, SumProofs)
            ├─ BuyInStore ─────┴─ TableService ── TableServiceProperties ─┬─ MCTableService
            │                                                             └─ TableServiceProofs (TableProofs, SumProofs)
            ├─ NicknameRegistry ── SessionStore ── SessionService ── SessionServiceProperties ─┬─ MCSessionService
            │                                                                                  └─ SessionServiceProofs
            └─ WalletLedger ── PostgresStore ── PostgresStoreProperties ── PostgresStoreProofs (SumProofs)
RequestMemory ── RequestCache ── RequestCacheProperties ─┬─ MCRequestCache
                                                         └─ RequestCacheProofs (SumProofs)
```

A line is EXTENDS, and so are the modules in parentheses, except that
`RequestCacheProperties` makes an INSTANCE of the abstract `RequestMemory`, and
`TableServiceProperties` one of `WalletLedger`, WITH a refinement mapping;
`SessionStore` and `PostgresStore` keep the variables of their abstract
specifications as they are.

| module | models | steps |
|---|---|---|
| `Identities` | player and table ids | – |
| `Table` | `Table` as a record with operators `Join`, `Leave`, `AllocateSeat`, `Snapshot`, `Restore` | each whole, as under the mutex |
| `TableManager` | the manager with callers that keep the snapshots they were handed, and the boot | one per operation |
| `BuyInStore` | the `EventStore` interface as the in-memory store implements it | one per call |
| `TableService` | connections, requests that buy in or revoke, `closeClient`, over the two above | one per critical section or store call of a goroutine |
| `NicknameRegistry` | the nickname policy (abstract) | take, release, all released by a restart |
| `SessionStore` | `session.Store` | each operation whole, as under the mutex |
| `SessionService` | the requests that issue and end sessions, the `users` table, expiry, restart | one per call |
| `WalletLedger` | what callers of an event store rely on (abstract) | open, charge, consume, credit |
| `PostgresStore` | the PostgreSQL implementation | one per statement or commit |
| `Publication` | what happens to a table's new state after the lock: broadcast, save, log, and a restart at any point of it | one per lock, message, or store call |
| `RequestMemory` | what a connection promises about repeated requests (abstract) | repeat, execute, finish, forget by time, loss of the connection |
| `RequestCache` | `ReplayIdempotent`, `StoreIdempotent` and the loop around them | one per call, and the clock |
| `…Properties` | what is required of the machine it extends | – |
| `MC…` | definitions only TLC needs: spellings, owners, what a run refutes | – |
| `…Proofs` | inductive invariants, lemmas, theorems; `SumProofs` those about sums over finite sets | – |

`TableService` uses the store through the interface (`BuyInStore`): its callers
see whole transfers. That both implementations give them that is stated by one
abstract specification, `WalletLedger`, and checked and proved of each
(`ImplementsLedger`): of `PostgresStore` for any calls, of the in-memory store as
`TableService` calls it. The two differ in one point that the code has too: the
in-memory store keeps at most one pending buy-in for a player and a table, and
PostgreSQL does not when two requests run at once.

### State and steps, against the code

`TableService` (`ws_handlers.go`, `ws_hub.go`, `session_helpers.go`,
`state_helpers.go`):

| variable | in the code |
|---|---|
| `tables` | `Manager.tables` |
| `balances`, `pending`, `buyIns` | the store |
| `client[c]` | `wsClient.tableID`, `.seated` |
| `hub`, `open` | `hub.clients`; whether the socket can still be read |
| `pc`, `reg` | where a goroutine is, and its local variables |
| `victim`, `todo` | the connection a `closeClient` is about; the list `clientsForPlayer` returned |
| `refunds`, `lost`, `shared` | history, read by properties only |

A join goes `ReceiveJoin` (checks) → `Consume` → [`SwitchRead` → `SwitchLeave` →
`SwitchMark` → `SwitchRefund` → `Tell`] → `TakeSeat` → `SeatMark` → `Tell`, or
`TakeSeat` → `SeatRefund` when the seat is refused; a leave `ReceiveLeave` →
`LeaveTable` → `LeaveRefund` → `LeaveMark` → `Tell`; a `closeClient` `Close` →
`CloseTable` → `CloseRead` → `CloseLeave` → `CloseRefund` → `Tell` → `CloseEnd`.
Any other goroutine runs between two of them.

`SessionService` (`http_handlers.go` 64–224): `GuestSession` or `AuthExchange`
(with the revocation of the cookie's session) → `CreateSession` →
`PersistSession` → `Grant`, or `Forget` when the save failed; `Logout`, `Expire`,
`FindExpired` → `DeleteExpired` (the two locks of `FindValid`) and `Restart` at
any time.

`PostgresStore` (`postgres_event_store.go` 155–376): `CreateBuyIn` is `Begin` →
`LookForPending` → `LockWallet` → `CommitBuyIn`; `ConsumePendingBuyIn` is
`Begin` → `ScanPending` → `TakePending` (again for each row it had to skip) →
`CommitConsume`; the two wallet operations are `InsertWallet` and `AddToWallet`.
`Fail` ends a call at any point; by `GiveUp` a caller stops waiting for a COMMIT
that is under way and takes effect, or fails, later.

`Publication` (`ws_handlers.go`, `state_helpers.go` 15–52 and 135,
`table_snapshot_store.go`, `app.go`):

| variable | in the code |
|---|---|
| `tables`, `client`, `open`, `pc`, `reg` | as in `TableService`; `reg[p].msg` is the snapshot a handler was handed, `reg[p].todo` what is left of the list `clientsForTable` returned |
| `screen[p]` | the snapshot in the console of the player (`usePlayConsole.ts` 334–349) |
| `saved[t]` | the key of `t` in Redis |
| `events[t]` | the numbers of `t` in `table_events` |
| `bank[p]` | the player's wallet and pending buy-ins in PostgreSQL, as one number |
| `boot` | whether this server has Redis, and whether it could load the key |
| `overlapped`, `unsaved`, `unlogged`, `doubted` | history, read by properties only |

`Connect` → `ReadSnapshot` → `Answer` is the greeting; a join is `JoinRequest` →
[`SwitchLeave` → *publish*] → `TakeSeat` → *publish*, a leave `LeaveRequest` →
*publish*, a lost connection `Close` → *publish* without its mark; *publish* is
`Mark` → `List` → `Write`, once for each connection → `Save` → `Log`. `Drop` ends a
connection, `Restart` the process, at any time.

`RequestCache` (`ws_hub.go` 95–168): `Replay` when the cache has the request,
otherwise `Dispatch` → `Answer`; `Tick` lets time pass, `Reconnect` takes the cache
away. `Memory!MemorySpec` is the refinement: the list and the map together are a
set of numbered answers, `Replay` is `Repeat`, `Dispatch` is `Execute`, `Answer` is
`Finish`.

### Abstractions, and why they are sound

* *A stack is the number of the buy-in that paid for it.* No code changes the
  stack of a seated player, so the number determines it; properties can say
  which chips are where instead of comparing sums.
* *Replies are left out*, and with them the requests that only get a reply. A
  reply that cannot be written ends the connection: that is `Hangup`, possible
  at any time.
* *`hub.remove` and `Close` at the end of `closeClient` are one step*: nothing
  the properties see happens between them. A connection that was closed by the
  server reads no further request.
* *`Publication` has one connection to a player, stacks of one chip, and nobody
  asks for a seat by number.* More connections of a player, other stacks and the
  places between read, leave and refund are in `TableService`: `Publication` is
  about what happens after. Therefore a leave and its refund are one step there.
* *A connection that is lost shows nothing*: its screen is reset, and it is of no
  consequence when the hub drops it. Error notices change no screen.
* *An orderly shutdown is a crash*: `Shutdown` of `net/http` leaves WebSockets alone,
  so no `closeClient` runs for it.
* *Redis fails at a save, at a load or at boot, PostgreSQL at an event*, any of
  them `MaxErrors` times together; wallet calls do not fail here (they do in
  `TableService` and `PostgresStore`).
* *A key that was never written* is the message of an empty table with number
  0, which is also what a boot makes of it.
* *An answer is known by its number* in `RequestCache`; that a handler that returns
  no error has at least one response was checked by reading. A handler that
  returns an error, or a write that fails, ends the connection: `Reconnect`.
* *A store call that reports an error changed nothing, or committed unheard*, in
  `TableService` as in PostgreSQL. Which of the two makes a difference to the
  caller in two places: a refund (`Refund`: credited, or lost) and a consume
  (`Consume`: still pending, or consumed and lost, since the handler returns
  without it). A wallet that was opened or a buy-in that was made unheard is
  the same state as one that was heard of. A COMMIT that is still under way when
  its caller gives up keeps the row locked, so that for the handlers it is one
  that took effect at once; in `PostgresStore` it is `GiveUp`.
* *A save of a snapshot, or of an event, that reports an error* may have been
  done nevertheless, in `Publication`; when this server has no Redis it was not.
* *`tables.Leave` has one error*, `ErrPlayerNotFound`; the branch for others in
  `handleJoinTableEvent` is dead.
* *A table exists from the start*, empty: `getOrCreateTable` creates it on first
  use, unseen.
* *The 20-rune cut of a nickname and its spelling* are `Canonical`, a function
  from spellings to names.
* *What `FindValid` saw does not matter to a revocation*: whether the session was
  expired or not, the request deletes its id under one lock, where it looks
  again.
* *A session id is the request that created it* (128 random bits).
* *READ COMMITTED*: a statement sees what was committed when it began; a
  locking statement waits, then sees the newest row. What a transaction wrote
  is kept in the call until it commits. `LIMIT 1 FOR UPDATE` skips a row that no
  longer matches once its lock is free and goes on to the next one it found.
* *Room limits and foreign keys* are taken to hold: the statements that check
  them write nothing. A `CreateBuyIn` that had to insert the wallet itself finds
  it empty, cannot pay, and rolls back.

## 3. Runs

Each bound is a constant of the `.cfg`. `CHECK_DEADLOCK FALSE` is set where there
is a finite number of connections, requests, buy-ins or calls, and the model
stops when they are used up: the runs of `TableService`, `SessionService` and
`PostgresStore`. `table`, `requests`, `publication` and `late_broadcast` check that
there is no deadlock.

| run | what it asks | bounds |
|---|---|---|
| `table` | seats = index in every order of operations; within a process a number names one snapshot | 3 players, 2 seats (so that a table is full), preferred seats −1…2, saved lists sound and broken, `MaxSeq` 5 |
| `service` | every buy-in in exactly one place; seats belong to connections; chips add up; a disconnected player's chips come back; the store refines `WalletLedger` | 2 players, 1 connection each, 2 tables of 1 seat (so they race), 2 buy-ins of 1, store may fail or commit unheard, fairness |
| `service_revoke` | closing from two goroutines at once | 1 player, 2 connections, 1 revoking request, 1 table, 1 buy-in, fairness |
| `sessions` | nickname indices, uniqueness, agreement with the database | 3 requests, 2 guests, 1 account, 2 names in 3 spellings, saves may fail before or after commit, restarts |
| `postgres` | transfers whole, handed once, charged once, every call ends | 1 player, 1 table, 4 calls over 3 connections, amounts 2 and 3 of a wallet of 4; callers may give up on a COMMIT |
| `requests` | list and map one queue; a repeated request gets its own last answer and is executed again only when it was forgotten; the cache refines `RequestMemory` | 3 ids and the empty one, 2 event types, 2 entries, TTL 1, 5 requests to a connection, 3 ticks, any number of connections |
| `publication` | screens, Redis and the event log agree with the table once its handlers are through; a restart at rest loses nothing, none creates chips | 2 players of 2 chips, 2 tables of 1 seat, 2 joins, 1 error of a store, 2 restarts |
| `two_tabs` | finding 1 | 1 player, 2 connections, 1 table, 2 buy-ins |
| `stale_refund` | finding 2 | 1 player, 1 connection, 1 revoker, buy-ins of 1 or 2 |
| `orphan_seat` | finding 3 | 1 player, 2 connections, 2 tables |
| `duplicate_nickname` | finding 4 | as `sessions`, saves do not fail |
| `late_broadcast` | finding 5 | 2 players of 1 chip, 1 table, 1 join, no errors, no restarts |

Why the bounds are enough to be worth something: tables share nothing but a
player who switches, so two tables show a switch and one shows the rest; two
players show every race for a seat; a buy-in in flight, one on a seat and one
pending need no more than two; three sessions show a change of nickname while
an older session lives and a third player takes the name; four calls show two
that overlap, one that retries and one that credits in between. A third id
pushes the oldest of two entries out, and with five requests that one comes
back, under its type or another, before or after its time. Two joins let both
players publish at once, or one of them switch tables; the second restart
restores what was saved after the first. What does not depend on the size at all
is proved (section 5).

### Properties

* `SeatsMatchIndex`, `SeqNamesSnapshot` (`TableManager`). The second is about one
  process: the boot is the first step, and after a restart numbers may
  repeat (section 4).
* `BuyInInOnePlace`: the buy-in of a player who is *alone* is pending, in a
  handler's hands, on one seat, off the seat on its way back, refunded once, or
  lost to an error of the store (a credit that failed, a consume that committed
  unheard); one of these. *Alone* means that no two
  threads were ever at work for him at once (`shared` records it). The others
  do as they please.
* `BuyInSpentOnce`: for anybody, alone or not, a pending buy-in was never
  spent, and a buy-in is on one seat or in one hand at most.
* `SeatBelongsToConnection`: when the only connection of a player waits for its
  next request, he sits where the connection says and nowhere else; without a
  connection he has no seat.
* `AloneChipsConserved`: his wallet, his chips outside and those two losses add up.
* `ImplementsLedger` (here of the in-memory store): a buy-in is the row of the
  ledger that it would be in PostgreSQL, pending while it is in `pending`; every
  step is one transfer of `WalletLedger` or none.
* `DisconnectReturnsChips`, `ClosedConnectionsFinish`: liveness. What a player had
  at a table comes back to his wallet after he is gone, but for what was lost.
* `IndexesAgree`, `NicknameHeldInSession`, `NicknamesUniqueOnce`,
  `CookieMeansSaved`, `ImplementsRegistry` (`SessionServiceProperties`).
* `ChipsConserved`, `HandedOnce`, `RetriesChargeOnce`, `ImplementsLedger`,
  `CallsEnd` (`PostgresStoreProperties`).
* `OrderMatchesCache`, `CachedAnswerIsLatest`, `NotExecutedAgain`,
  `ImplementsMemory` (`RequestCacheProperties`). `NotExecutedAgain` says when a
  request *is* executed again on its connection: after its time, pushed out by
  `MaxEntries` others, or because its id was also sent under another event type
  (the lookup then misses, and the store keeps the entry that is there). On
  another connection nothing is remembered.
* `AloneScreenCurrent`, `AloneSavedCurrent`: once the handlers of a table are
  through and none overlapped another, every waiting connection there shows,
  and Redis has, the table as it is. `overlapped` records the tables of which
  two handlers held snapshots at once, and those whose snapshot could still
  reach a connection that another handler was taking to, or from, a different
  table (`Overlap`); for those neither holds. The second clause was found
  by the proof: without it, with three tables, a broadcast of the table a
  player had left arrives after he has switched twice.
* `ChangesLogged`: each number of a table is in the event log once its handler is
  through, however the handlers interleaved.
* `QuietRestartKeepsTable`, `TrustedNoChipsCreated` (`PublicationProperties`): what
  a restart brings back. `doubted` records a boot from a snapshot that was not of
  a table at rest.

Each property has a mutant in `PROJECT.json`: an operator next to the one it
replaces, wrong the way that code could have been wrong, for which TLC finds the
property violated.

### Fairness

`TableService!FairSpec` is weak fairness of each goroutine's own steps, which is
what the Go scheduler gives a goroutine that is not blocked; the locks are held
for straight-line code only, and each store call has a timeout. Nothing is
assumed of the peers: nobody has to connect, ask or hang up.
`PostgresStore!FairSpec` is weak fairness of each call's statements. Weak is
enough: calls are finitely many, so a row is not locked again and again for
ever. A failure is never assumed to happen. The other runs need no fairness.

## 4. Findings

1. **Second tab loses a buy-in** (`two_tabs`). A player's second connection joins
   the table the first sits at: the buy-in is consumed
   (`ws_handlers.go` 133), then `Table.Join` returns the old seat and no error
   (`table.go` 70–76), and nobody refunds.
   `docs/work-logs/work-20260307-1738-26.md:6` says that the join paths lose no
   wallet amount.
2. **Refund of a stack that is gone** (`stale_refund`). `closeClient` reads the
   stack and leaves under two locks (87, 88). A revoker's `closeClient` may read
   the first stack while the connection's own goroutine leaves and joins with
   another: the first is refunded twice, the second vanishes.
   `docs/plans/phase-0-nfr-slo.md:76` makes one chip mismatch a release blocker.
3. **Orphan seat** (`orphan_seat`). `leave_table` may name another table; if the
   player sits there through another connection, `SetTableState` overwrites
   what this connection knows of its own seat, and its `closeClient` leaves it
   taken. `docs/work-logs/work-20260307-1738-26.md:5` says leave and disconnect
   refund the remaining stack.
4. **Two bearers of a nickname** (`duplicate_nickname`). `create` frees a player's
   previous nickname (`store.go` 112–114) although an older session still goes
   by it; a guest is given it.
   `docs/commits/commit-20260307-0730-feat-enforce-unique-nickname-policy.md:5`
   says nicknames are unique, globally.
5. **Late snapshot** (`late_broadcast`). A snapshot is read under the table's lock
   and written after it (`ws_handlers.go` 40–42, 208–211), and the web client
   shows what comes last, whatever its number (`usePlayConsole.ts` 334–349): a
   greeting that a broadcast overtakes leaves the older state on the screen.
   `docs/plans/phase-0-architecture.md:51` says that numbers keep events in order,
   `phase-0-event-schema-draft.md:194` that the client applies events by number.

The findings above are the counterexample of a run each. The models show more
that the texts of the repository speak against; there it is an exception that a
property makes, by a history variable or a reason it names:

* **Unheard consume** (`lost`). `ConsumePendingBuyIn` may commit and report an
  error (`postgres_event_store.go` 372; a lost answer, a timeout). The join takes
  that for a buy-in that is still pending (`ws_handlers.go` 133–137): it is
  consumed, on no seat and never refunded. A refund whose store call fails is
  logged and lost too (`state_helpers.go` 108).
  `docs/work-logs/work-20260307-1738-26.md:6` says that a failed join loses no
  wallet amount.
* **Chips doubled by a crash** (`doubted`). A refund reaches PostgreSQL before the
  freed seat reaches Redis (`ws_handlers.go` 95 and 98, 193 and 197); a crash in
  between, or a save that failed, brings back a seat whose chips its player has
  already. So does a boot that finds Redis again after one that ran without it,
  and restores a key from before. `docs/plans/phase-0-nfr-slo.md:36` says that
  chips are settled atomically; its line 76 and `phase-0-prd.md:67` allow no chip
  mismatch. `TrustedNoChipsCreated` says that chips grow in no other way, and
  without its exception TLC finds them doubled.
* **Other tables are not restored** (`app.go` 79). Their snapshots are saved and
  never read; the stacks on them are gone after a restart.
  `docs/work-logs/work-20260307-0451-04.md:9` promises the default table only, but
  `phase-0-nfr-slo.md:35` and `phase-0-architecture.md:69-70` speak of the state of
  the games without exception. `QuietRestartKeepsTable` is about the default one.
* **Numbers that start again.** Such a table counts from 0 after a restart, and
  rows of `table_events` share a number (`ChangesLogged` asks for one row at
  least). `docs/plans/phase-0-event-schema-draft.md:32` calls `seq` a sequence that
  rises monotonically for each table.
* **Older snapshot saved last** (`overlapped` of `Publication`). Two handlers of a
  table may save their snapshots in the opposite order of their numbers
  (`state_helpers.go` 41, outside the table's lock), and Redis keeps the older one
  until the next change, however late. `phase-0-nfr-slo.md:38` allows a loss of
  one minute.
* **Id under two types** (a reason of `NotExecutedAgain`). The cache answers an id
  only for the event type it was stored with (`ws_hub.go` 105), and keeps no
  answer of an id it has: a request whose id was used under another type before
  is executed again when it is repeated.
  `docs/work-logs/work-20260307-0451-04.md:5-6` promises that no change happens
  twice for a `request_id`.

And exceptions of which no text says the contrary in so many words:

* Two `CreateBuyIn` of a player for a table that overlap in PostgreSQL charge
  twice (`overlapped` of `PostgresStore`, `RetriesChargeOnce`). A retry while the
  first COMMIT is still under way overlaps it too.
* A restored seat belongs to no connection. Its player finds himself seated when
  he joins again, and the buy-in he joins with is lost, as in finding 1; if
  he does not, nobody frees the seat. (`TrustedNoChipsCreated` is thus "no
  more chips", not "as many".)

## 5. Proofs

TLAPS proves the following for every value of the constants that satisfies the
assumptions stated in the modules: any number of players, tables, requests,
seats, connections, calls. The players and tables may be infinitely many, but
for `Publication`, whose sum over all of them needs them finite
(`FiniteAssumption`).

| module | theorems | argument |
|---|---|---|
| `TableProofs` | lemmas on `Join`, `Leave`, `Restore`, `AllocateSeat` | each takes a table whose seats and index agree to such a table |
| `SumProofs` | lemmas on `SumFunction` and `SumFunctionOnSet` | below |
| `TableManagerProofs` | `TypeCorrect`, `SeatsAlwaysMatchIndex`, `SeqAlwaysNamesSnapshot` | within one process: published numbers are behind the table's, or name the seats it has now |
| `TableServiceProofs` | `TypeCorrect`, `NoBuyInSpentTwice`, `TablesAlwaysAgree`, `BuyInAlwaysInOnePlace`, `SeatAlwaysBelongsToConnection`, `AloneChipsAlwaysConserved`, `ServiceImplementsLedger` | below |
| `SessionServiceProofs` | `TypeCorrect`, `IndexesAlwaysAgree`, `NicknameAlwaysHeldInSession`, `NicknamesUniqueForOne`, `CookieAlwaysSaved`, `StoreImplementsRegistry` | below |
| `PostgresStoreProofs` | `TypeCorrect`, `HandedOutOnce`, `RetriesChargedOnce`, `StoreImplementsLedger`, `ChipsAlwaysConserved` | below |
| `RequestCacheProofs` | `TypeCorrect`, `RepeatsGetLatestAnswer`, `CacheAlwaysOneQueue`, `NeverExecutedAgain`, `CacheImplementsMemory` | below |
| `PublicationProofs` | `TypeCorrect`, `AloneScreensAlwaysCurrent`, `AloneSavedAlwaysCurrent`, `ChangesAlwaysLogged`, `QuietRestartAlwaysKeepsTable`, `TrustedNeverCreatesChips` | below |

Each is `Spec => []Inv` from an inductive invariant `IInv`: `Init => IInv`,
`IInv /\ [Next]_vars => IInv'` with one lemma per group of actions,
`IInv => Inv`, and a last step by temporal logic.

**TableService.** `BuyInSpentOnce` is not inductive: nothing in it says that the
number a goroutine is about to put on a seat is on no other. `IInv` adds
`IdsKnown` (every number anywhere was given out), `HandsFull` (a goroutine that
is about to seat or refund something holds something), `TablesAgree` (needed
for `Leave` to take away the seat its player has), `SeatsPaid` and
`HandsDiffer` (no two seats, no two hands, no seat and hand share a number) and
`PendingUnspent` (a pending number is nowhere else, registers of a stack that
was read included). `refunds` is *not* bounded by it, and cannot be: finding 2
refunds twice.

**TableService, a player who is alone.** What `IInv` says of anybody is not
enough: that a buy-in is *somewhere*, and that the seat is where the
connection thinks, depends on what the one thread at work still means to do. `JInv`
adds four things. `ThreadsInv`: two threads at work for one player have made him
shared, a revoker always has, and a thread that is through has an empty
register; so an alone player has one thread, that of his connection. `Owned`:
pending, seated, in a hand or in a register, a buy-in is that of the player it is
there for, so that no step of another player's thread can move it. `AtConn`: the
tables the player sits at are `Sits(c)`, a function of where his connection's
handler is. Between a `Leave` and the `SetTableState` that follows it the
`wsClient` still says otherwise, and between `Join` and `SetTableState` it
does not say so yet; the function lists these places, and says that the stack
that was read is the stack on the seat. `Kept`: each of his buy-ins is
pending, on a seat, in a hand, off the seat on its way back, or settled
(refunded, or lost as a failed credit or an unheard consume), and these exclude
each other. The steps are sorted by what they change
(`WorkHasShape`): a step of a player's thread changes only his seats, his
buy-ins and his registers, which is one lemma for all the other players
(`OthersKept`, `OthersAtConn`) instead of one for each action.

**TableService, chips.** `WalletInv`: an alone player's wallet is short of the
amounts of just those buy-ins of his that were not credited back. A step
changes at most one term of that sum. `OnePlaceCounts` then turns
`BuyInInOnePlace` into arithmetic: the amount of each of his buy-ins is counted
once, wherever it is.

**TableService, the ledger.** Each step calls the store once or not at all
(`StoreCalls`). A charge and a consume are those of `WalletLedger` because a
pending number has one place and is never given out again (`Spent`); a credit is
one because it goes to a wallet that exists: the stack that is refunded belongs to
the player it is refunded to (`Owned`), and who has a buy-in has a wallet
(`WalletInv`).

**SessionService.** The store's own invariant (`IndexesAgree` and
`NicknameHeldInSession`) is kept by `Create` and `Delete` alone; around it,
`IdsFresh` and `UnderWay` say that a request's session id is unused before the
create and that its session is there, in nobody's cookie, until the grant;
`OnlySession` that a player not in `twice` has one session, which bears the
nickname the index has; `SavedNickname` that the `users` row is that nickname
once the request is past its save.
`StoreImplementsRegistry` follows: under `StoreInv` a `Create` is a `Take`, a
`Delete` a `Release` or nothing, a restart `ReleaseAll`.

**PostgresStore.** What a call may rely on between its lock and its commit:
`Paying` (it holds the wallet's lock, and the wallet has the balance it read),
`Taking` (it holds the row's lock, and the row is pending), `IdsUnused` (the id
it drew names no row and is nobody else's), and for retries `ChargedOnce`: for a
player and table that never had two calls at once, at most one call is under
way, and once it has looked there is nothing pending until it commits. Every
action then maps to one transfer of `WalletLedger` or to none. For
`ChipsConserved` no more is needed than `Paying` and one sum: balance and
charges are together what was paid in, and a commit writes a balance that is
still the one it read.

**RequestCache.** `CachedAnswerIsLatest` needs one fact more: a request that is
being handled is not in the cache under its type (`MissedWhileDispatching`).
`StoreIdempotent` keeps an entry that is there under the same id, and only
because that entry is of another type does the new answer not outdate it. The
list of ids plays no part in that property: whatever it makes the store drop, an
entry that is left was the latest answer before. It is what the other three
are about. `Queue` says that list and map have the same ids, each once, in the
order of their answers and of their times; hence what expires is at the head,
expiry leaves the end of the list (`LiveIsSuffix`), and the bound drops the head of
what is left. `InCacheOrForgotten` says of each answer on the connection that it is
in the cache or was forgotten for one of the three reasons `NotExecutedAgain`
names; that as many younger answers as the bound push one out is a count of the
list (`QueueCounts`). With both, a `Replay` finds an answer `RequestMemory` may
repeat, and a `Dispatch` finds that it may execute. The pass of
`evictExpiredLocked` over the list is written as a recursive function
(`Filtered`), so that what it leaves can be proved (`FilteredIsSuffix`, by the
least place where a claim about it would fail, `SmallestNat`).

**Publication.** The properties say what is true when the handlers are
through; the invariant says what each of them has in its hand before that.
`OneHolder`: as long as a table is not in `overlapped`, at most one handler has a
snapshot of it, and that is the table. `SavedInv`, `ScreensInv`: Redis has the
table, and a screen shows it, or that handler has still to get there;
`StraysKnown`: a message of another table reaches a connection only where
handlers overlapped. `LoggedInv`: each number is logged or in a hand, overlapped or
not. `SeatHeld` (where a connection says its player
sits, he sits) makes the `Leave` of a switch or of a lost connection one that has a
seat to free, so that it changes the table and its number; `Wired` keeps
handlers from writing to a connection that is off. `MessagesSound` says that a saved
message is the snapshot of some well-formed table, which with the lemma that
`Restore` of a `Snapshot` is the table (`SavedComesBack`) gives
`QuietRestartKeepsTable`.
For the chips, a player's purse is his wallet and the chip his handler may have
in hand (`HasChip`); the sum of all purses and seats never grows (`StepCreatesNone`). A
step moves one chip at most, between one purse and one seat; a restart compares
the two sums term by term: hands are lost, the other tables' seats are lost, and
those of the default table are what was saved of it, unless `doubted`.

**SumProofs.** The library's induction theorems cannot be used here, since
they take an operator. Induction can still be had with a *set* as its parameter:
the strict subset ordering of the finite subsets of a set is well-founded
(a library theorem), so a set of numbers has a least one (`SmallestNat`), and a
set with 0 and closed under successor has all numbers (`NumberInduction`);
in the same way for the subsets of a finite set (`SubsetInduction`). From these: the
function by which a sum over a finite set is defined exists and is unique
(`IterExists`, `IterUnique`), a sum does not depend on the order in which it is
taken (`SumFacts`), and what it is when a term changes, one is added, or all
terms are smaller.

### Checked by TLC only

Each invariant, action property and refinement of a run that passes is a theorem. What
is left is liveness under fairness: `DisconnectReturnsChips`,
`ClosedConnectionsFinish` and `CallsEnd`. It is out of the prover's reach (it
needs ENABLED), so that these hold is known for the bounds of their runs
only. What the runs find violated (section 4) needs no proof: the counterexample is
one.

## 6. What is left

### Not modelled, and why

* *Token verifier*: one HTTPS request and the decoding of its answer; no state.
  `AuthExchange` is a request whose token was accepted.
* *Configuration and `main`*: constants, and the shutdown, which is `Restart`.
* *Wire types, error texts, cookies and JSON*: declarations and wording.
* *Migrations*: schema; what matters of it (the unique index on nicknames, and
  the absence of one on pending buy-ins and on event numbers) is in the
  models. Two servers that boot, or run, at the same time are left out: nothing
  in the code provides for a second server.
* *Seeding of rooms and the read-only queries*: no later step that changes state
  depends on them.
* *The boot of the event store*: when PostgreSQL is out of reach the server runs
  with empty in-memory wallets; that is another instance of `BuyInStore`, not
  another behaviour of it.
* *The other parts of the web client*: its forms, its sign-in and its wallet
  display keep no state the server depends on.
