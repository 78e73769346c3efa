# Formal model of the chat server

TLA+ modules for the C++ chat server in this repository, with TLC
configurations that check them on small instances and TLAPS proofs of the
results that matter most. Everything is translated from the code under
`src/src` and `src/include`; where a document, a comment or a test says
something else, the difference is a property that TLC refutes (section 4).

## 1. The system

| Part | Code | State | Operations |
|---|---|---|---|
| Reactor | `net/reactor_epoll.cpp`, `net/reactor_select.cpp` | callbacks, `pending_`, wake descriptor, `stopping_` | `add`, `modify`, `remove`, `post`, `run`, `stop` |
| Server | `net/server.cpp` | listener, `conns_` | `listen`, accept loop, register, unregister, `stop` |
| Connection | `net/connection.cpp` | `rbuf_`, `wbuf_`, `write_armed_`, `closing_`, `closed_`, user and token | `start`, `on_event`, `send_frame`, `close`, `deliver_close` |
| Framing | `protocol/framing.cpp`, the parser in `connection.cpp` | buffer, wanted length | `frame`, `feed`, parsing loop |
| ThreadPool | `common/thread_pool.cpp` | `q_`, `stopping_`, workers | `submit`, `worker_loop`, `shutdown` |
| Handlers | `handlers/handlers.cpp` | none of their own | one per request type |
| Presence | `chat/presence.cpp` | user to connections | `bind`, `unbind`, `connections_of`, `is_online` |
| MessageRouter | `chat/message_router.cpp` | none of its own | `send_dm`, `send_room`, `replay_offline` |
| RoomManager | `chat/room_manager.cpp` | `cache_`, `loaded_` | `is_member`, `members_of`, `on_join`, `on_leave` |
| SessionManager | `auth/session.cpp` | token cache | `warm`, `create`, `validate`, `revoke` |
| Passwords | `auth/crypto.cpp`, `common/util.cpp` | a `Sha256`; the table of `base64_decode` | hashing and checking, hex and base64 |
| Repositories | `db/repositories.cpp` | the tables (MySQL or in memory) | one query each |
| MysqlPool | `db/mysql_pool.cpp` | `idle_`, `outstanding_` | `acquire`, `release` |
| Process | `main.cpp`, `chat/chat_server.cpp` | the wiring | `init`, `run`, `stop`, the signal handler |

One I/O thread runs the reactor: it accepts, reads, parses frames, flushes
write buffers and closes. Each frame becomes a task of the pool; workers run
the handlers, which query the tables, change presence, caches and sessions, and
answer through `send_frame`, which appends to the connection's buffer and posts
a flush to the reactor. Closing a connection is posted the same way; `on_close`
then unbinds the user on the I/O thread.

What makes it hard: handlers of one connection run concurrently on several
workers; a handler can outlive its connection; presence, table and cache are
changed in separate steps; every query may fail; the process may restart between
two of them; epoll reports an edge once; a condition variable forgets a
notification nobody waits for; a decoder fills its table without a lock;
shutdown runs inside a signal handler. The list
is in `PROJECT.json` under `hazards`, each at its line.

## 2. Modules

| Module | Models | Grain |
|---|---|---|
| `TaskPool` | what `thread_pool.h` promises, abstractly | one step per operation |
| `ThreadPool` | the worker pool; implements `TaskPool` | one step per access to mutex, condition variable or atomic |
| `Delivery` | login, logout, authentication, `send_dm`, `send_room`, replay, presence, `on_close`, the message tables | one step per lock, query and `send_frame` |
| `Connection` | one connection with either reactor and the kernel's socket | one step per system call, lock, post and closure |
| `RoomManager` | the room tables, their cache and the room handlers | one step per query and lock |
| `Session` | tokens, their table, expiry, crashes and restarts | one step per lock and query |
| `Accounts` | registration, the password check, presence requests, `last_seen_at` | one step per lock, query and call that another thread can see |
| `MysqlPool` | the connection pool, outages, `RoomManager::mu_` | one step per wait, lock and call to the server |
| `Framing` | the wire format, the server's parser and the client's, each with its own loop and limit | one step per `recv` |
| `Sha256` | how `Sha256` cuts its input into blocks and pads it; fed with the stream of `Framing` | one step per `update` |
| `Codecs` | hex and base64 with their decoders | pure functions |
| `History` | history pages of both stores, stored time stamps | one step per query |
| `Server` | accepting, the registry, the loop, `stop()` in a signal handler | one step per lock and call |

`MC*` modules give TLC its instances. `MCIdentity` checks `Session` and
`Accounts` in one run: they share no state, so `Init` chooses which of the two
moves. `Sha256` is fed the bytes of the parsers' stream, in the same pieces, and
`MCFraming` also encodes them: in the program these have nothing to do with each
other, here they share the enumeration of streams and pieces. The two parsers
read one stream for the same reason; what is said of each is said against
`frame()` and its own limit, not against the other.

The proofs are in modules of their own: `ConnectionProofs`, `DeliveryProofs`,
`HistoryProofs`, `ServerProofs`; `PoolProofs` for `ThreadPool` and `MysqlPool`;
`RoomProofs` for `RoomManager`; `IdentityProofs` for `Session` and `Accounts`;
`FramingProofs` for `Framing`, `Sha256` and `Codecs`.
`Delivery`, `Accounts` and `Server` are compositions: the first of handlers,
Presence, MessageRouter, both stores and the I/O thread; the second of handlers,
Presence, the users table and the I/O thread; the third of Server, Reactor,
ThreadPool and the process.
`map` in `PROJECT.json` gives the source lines of every definition.

How code becomes TLA+: a member variable is a variable of the same name without
its underscore; a thread's position between two steps another thread can
observe is a value of `pc` (`wpc`, `iopc`, ...); a lock held across no
observable step is part of the step; a query is one step that succeeds or,
where the store is MySQL, fails. Variables commented *history* record what
happened, so that a property can speak of it; no guard of the code's steps
reads them. Operators named `...As` take the place where a likely mistake
would sit as a parameter, and operators commented *Mutant* make that mistake:
they are used only to confirm that the properties notice it.

What the models leave out inside a modelled part:

- `Delivery`: one room with fixed members (who is a member is `RoomManager`'s
  subject); requests rejected before they change anything; `last_seen_at`, which
  is in `Accounts`; the order among the messages of one replay; frames longer
  than `max_frame_`, which `send_frame` drops (the messages here fit).
- `Connection`: a frame is a header part and a payload part (lengths are
  `Framing`'s subject); reuse of a descriptor number after `close`.
- `RoomManager`: `invalidate`, which nothing calls. `Session`: `touch`, which
  nothing calls; the in-memory build, where no query fails and nothing survives.
- `Accounts`: a stored hash is the password it was made from; tokens are
  `Session`'s subject. `Sha256`: the mixing of a block; a digest is the sequence
  of blocks compressed.
- `MysqlPool`: the destructor. `History`: content and status of messages.
- `Server`: at most one signal and one frame per client; the callback map that
  a handler on a worker changes without a lock (a data race) is only its two
  outcomes "listener still there" and "gone"; an exception that leaves the
  handler ends the process.

## 3. Runs that pass

| Run | Shows |
|---|---|
| `thread_pool` | When `shutdown` returns, nothing accepted is queued or running; the pool implements `TaskPool` (tasks start in order, nothing is accepted after a worker has ended); every accepted task is run to its end; `shutdown` returns unless a worker that was about to block missed its notification. |
| `delivery_memory` | With the in-memory store no copy of a message is lost or written twice; `delivered` is only set for copies that were written; what stays queued for a user who is online was queued by a sender who had seen the user offline; presence follows the identities of connections; a closed connection stays bound only for a cause that is named. |
| `delivery_mysql` | With MySQL and failing queries, copies are lost only to the drain race or to a failed INSERT. |
| `connection` | With either reactor, no posted closure, byte of output or input is forgotten; frames are never mixed; no closed socket is used; what was posted before a close is flushed before it. |
| `connection_liveness` | Appended frames go out or the connection closes; a scheduled close is carried out. |
| `rooms` | With either store, cache and table agree except where a cause is recorded: a query failed, the answer to an INSERT was lost, or a join and a leave of one user overlapped. A message goes to every member whose row was settled, and not hidden from the cache by such a cause, for as long as `send_room` ran, and to nobody who had no row, no change of it under way and was not left in the cache by an INSERT without a row or an overlap; `send_room` and `history_room` serve and refuse by the same rule. A SELECT that fails can hide members; it lets nobody in. |
| `identity` | No token outlives its ttl; none is accepted after its logout unless the DELETE failed; none is lost over restarts unless its INSERT or the warming of the cache failed. A login is judged by the registered password; who asks about a user who is offline learns a time no older than the last departure; both have exceptions that the property names. |
| `mysql_pool` | Leases are exclusive, no connection disappears unnoticed, no caller sleeps beside an idle connection, and every request is served unless all connections have been given up. |
| `framing` | The server's parser undoes `frame()` however the stream is cut, and until it meets a bad length holds no complete frame back; so does the client's with its own loop and limit, which throws only at a zero or excessive length and loses only the frames found in the call that throws. Hex and base64 can be undone for every length and every byte value tried; `Sha256` compresses the padded message and nothing else, however it is cut into calls of `update`. |
| `history` | With either store, paging sends messages of the conversation only, each at most once, in order, while others are written; wherever the walk ends, what it lacks is older than all it was sent, and an empty page, unless it stands for a query that failed, leaves it lacking nothing; the in-memory loop returns what the SQL query defines; stored times keep their order but for the first 100 ms of a second. |
| `server` | `conns_` is exact until `stop()`; the close of every open connection is posted, even of one accepted during the handler; a waiting client is announced unless `accept` failed; the server is destroyed only after the pool is drained and joined; `stop()` waits only for steps that another thread can take, but for a missed notification and a mutex of the thread it interrupted. |

Every module with variables has a type invariant (`TypeOK`, `PoolTypeOK`, ...). No run lists it: TLC
confirms it when it is added to the configuration, and the proofs begin with the
part of it that they need.

Where a store or a reactor is chosen when the server starts, it is a variable
that `Init` chooses and no step changes, so that one run covers both.
`Delivery` has constants for it (`SplitDrain`, `DbMayFail`) because one of its
properties depends on them: with MySQL two overlapping drains of one user can
both read a row before either deletes it, so `WrittenOnce` is a property of the
in-memory store only. `src/docs/architecture.md` allows this ("worst case, one
extra delivery").

### Bounds

The bounds are named constants and are chosen so that the case each property is
about happens; the mutants confirm it, since every property is violated when the
code it is about is changed.

- `ThreadPool`: two workers, two callers, three tasks: one task each way around
  a race, and one more behind it.
- `Delivery`: two users, up to three connections, two workers and one message.
  One message suffices because copies do not influence each other except through
  the queue of one user, and the proofs hold for any number. The requests make
  the receiver log in, out and in again on another connection while the sender
  sends. `delivery_mysql` lets clients send without waiting for answers.
- `Connection`: a send buffer of one part, so that every send can be partial.
- `RoomManager`: three workers and five requests: one user makes the room and
  writes while another joins, reads and leaves. Rooms do not influence each other.
- `Session`: a ttl of two seconds of two ticks, so that truncation to a second
  matters, and time to expire a token that was born last.
- `Accounts`: one name, two passwords and two connections: two clients that
  register, log in and ask at once; time in which a second departure is stored
  in a later second than the first.
- `MysqlPool`: two connections for two workers and the I/O thread, two outages.
- `Framing`: 10 bytes in pieces of up to 5 hold a complete frame and a whole bad
  header after it; the server's limit is 2 and the client's 1, so that 0, 1, 2
  and more all occur and the two refuse different frames.
- `Sha256` and `Codecs`: blocks of 5 bytes with a length of 2 in place of 64 and 8, so that
  streams of up to 10 bytes end at every place of a block, with and without
  room for the length; up to 7 bytes are encoded, for each remainder of 3 twice,
  as 0, 97 and 255, whose bits fill every digit.
- `History`: a word of 8 and a cap of 2 in place of 2^32 and 200; four messages.
- `Server`: two clients behind one edge, one worker, a signal on any thread.

Deadlock is checked in the runs of `ThreadPool`, `RoomManager`, `Session`,
`Accounts` and `History`.
In the others the requests, frames or clients of the instance run out and the
system is right to stop.

### Fairness

Weak fairness of each thread's own steps: the operating system runs a thread
that can run. Nobody is obliged to call `submit`, `shutdown`, to send or to
close. `Connection` also assumes that the peer keeps reading. `MysqlPool` needs
only weak fairness although its callers compete: their requests are bounded.
That a waiting client is accepted is stated as a safety property of `Server`
(`WaitingIsAnnounced`): an event is still to come, so the loop will handle it.

## 4. What the code does not do

`delivery_drain_race` is a run that TLC refutes: with MySQL a message queued
between the SELECT and the DELETE of `drain_undelivered`
(`src/src/db/repositories.cpp:459`) is deleted unread, although
`src/docs/architecture.md:144-148` says that the drain is atomic and that
concurrent enqueues race benignly.

The properties below state what the repository says elsewhere. They are at the
end of their modules, and no run lists them: TLC refutes each one when it takes
the place of the properties in the configuration named. Where one of them holds
up to a cause, a property of section 3 states that weaker form.

| Property (configuration) | The repository says | What happens |
|---|---|---|
| `ShutdownReturns` (`ThreadPool.cfg`) | `include/common/thread_pool.h:31` "blocks until workers join" | `shutdown` sets `stopping_` and notifies without the mutex; a worker about to block misses it and is joined for ever. |
| `ClosedMeansUnbound` (`DeliveryMemory.cfg`) | `docs/architecture.md:104-106` a disconnect "removes presence binding" | A login still running when its connection closes binds the closed connection for good. |
| `BoundAsIdentity` (`DeliveryMemory.cfg`, `Requests <- TwoLogins`) | `include/chat/presence.h:14` | A second login on a connection leaves it bound to the first user. |
| `QueuedOnlyOffline` (`DeliveryMemory.cfg`) | `docs/api.md:71-72` queued "and replayed on their next login" | A message is queued just after its receiver's login drained the queue. |
| `WrittenGetsStatus` (`DeliveryMemory.cfg`) | `docs/architecture.md:98` "Status flips to `delivered`" | Replayed messages keep status 0. |
| `FailedWriteIsReported` (`DeliveryMysql.cfg`) | `docs/architecture.md:110-111` writes "fail loud" | A message whose INSERT into the queue failed is acked. |
| `RoomSkipsSender` (`DeliveryMysql.cfg`) | `include/chat/message_router.h:28` "except sender" | The sender of a room message receives it (`docs/api.md:84-85` agrees with the code). |
| `CacheMirrorsTable` (`Room.cfg`) | `include/chat/room_manager.h:12-13` "kept warm" | An overlapping join and leave leave the user cached and not in the table. |
| `LeaveWritesFirst` (`Room.cfg`) | `include/chat/room_manager.h:22` "After DB write succeeds" | A failed DELETE is followed by `on_leave` and an ack. |
| `FailedReadIsNotAbsence` (`Room.cfg`) | `docs/architecture.md:110-111` reads "fail loud" | A failed SELECT is cached as an empty room. |
| `EmptyPageIsTheEnd` (`History.cfg`) | `docs/architecture.md:110-111` reads "fail loud" | A failed SELECT is acked as an empty page. |
| `LogoutRevokes` (`Identity.cfg`) | `docs/api.md:60` | A failed DELETE is acked, and the token is valid again after a restart. |
| `LoginPersists` (`Identity.cfg`) | `docs/architecture.md:107-108` "sessions persist" | A failed INSERT is acked, and the token is unknown after a restart. |
| `LastSeenNeverGoesBack` (`Identity.cfg`) | `docs/architecture.md:104-106` a disconnect "updates `last_seen_at` in the DB" | Two departures of one user store their times in either order. |
| `RightPasswordIsAccepted` (`Identity.cfg`) | `docs/api.md:52` "Errors: `unauthorized`" | Two first logins decode at once; one reads the table the other is filling and rejects the right password. |
| `PoolRecovers` (`MysqlPool.cfg`) | `docs/architecture.md:110` "replaced transparently" | A connection lost in an outage is never replaced; callers wait for ever. |
| `IoNeverWaits` (`MysqlPool.cfg`) | `INTERVIEW.md:43-44` "never blocks on application work" | The I/O thread waits for a pooled connection in `on_close`. |
| `PagesAreCapped` (`History.cfg`) | `docs/api.md:139` "capped at 200" | The in-memory store does not cap the limit. |
| `HistoryIsAnswered` (`History.cfg`, `Fits = 1`) | `docs/api.md:8-10` | A page longer than a frame is dropped and the request gets no reply. |
| `TimesAlwaysKeepOrder` (`History.cfg`) | `docs/architecture.md:149` "millisecond resolution for ordering" | 5 ms are stored as 500 ms. |
| `AllTornDown` (`Server.cfg`) | `include/net/server.h:32` "tear down all live connections" | `stop()` posts the closes and stops the loop that would run them. |
| `ShutdownIsGraceful` (`Server.cfg`) | `README.md:29` "graceful shutdown" | The handler waits for a mutex of the thread it interrupted. |

## 5. Proofs

The theorems hold for every value of the constants that satisfies the named
assumption of the module: any sets of workers, threads, users, connections,
tokens, rooms, tasks and requests, any bytes and pieces of a stream, any buffer,
block and page size, ttl and bound. The assumptions
say what the code has by construction: that the values standing for "none" are
none of the others, that numbers are natural, that a byte is below 256 and a
length fits into its block, and that the loop's own
descriptors are not those of clients. Each proof has an inductive invariant
(mostly called `IInv`), which TLC confirmed first on the run's instance; what it adds to the
properties is the argument. Where a theorem about `Delivery` has a hypothesis,
it is one of the constants that say which system is meant: `~SplitDrain` the
in-memory store, whose drain is one locked step; `~DbMayFail` queries that
succeed; `~Pipelined` clients that wait for an answer before they send the next
request. Each of them is needed: TLC refutes the property with that one constant
the other way in `DeliveryMemory.cfg`.

**PoolProofs.** For `ThreadPool`, `TypeCorrect`, `GracefulShutdown` (`DrainedAtReturn`),
`FifoStart` (`StartsInOrder`), `ClosedAfterExit` (`NothingAcceptedAfterExit`)
and `Refinement` (`KeepsPromise`: the pool implements `TaskPool`). That
shutdown drains is not inductive: one needs that whoever is in a critical
section holds `mu_` (`Mutex`), that each task is in one place (`Hands`,
`Queued`), and, the heart of it, that once a worker has ended the pool is
stopping, the queue empty, and no caller between its second look at `stopping_`
and its push (`Ended`). The last holds because both are done under `mu_`.
For `MysqlPool`, `ExclusiveLeases` (`LeasesAreExclusive`) and `NotifyOneSuffices`
(`NobodySleepsInVain`), with the invariant `PoolInv`. The second needs more than
it says: while anybody sleeps every idle connection has a caller about to look
at the queue to itself (`EnoughAwake`). A push adds one of each; a caller that
takes any connection leaves its own to whoever that one had (`CoveredLess`).

**DeliveryProofs.** `TypeCorrect`,
`LossCauses` (`LossesHaveACause`), `MemoryStoreLosesNothing` (`NoMessageLost`
when the drain is one step and queries do not fail) and `StatusIsTruthful`
(`DeliveredIsWritten`). `IInv` adds what a worker has in hand at each step
(`Busy`, `InHand`, `Routed`, `Addressed`), that a replaying worker's connection
is bound unless it was unbound meanwhile (`Attached`), that a DELETE removes
only rows that were selected or came later (`Selected`), and that a status was
earned (`StatusEarned`). Each action has a lemma: a copy that leaves one place
(queue, hand, buffer) is in the next, or the cause of its loss is recorded.

The second half of the module builds three more invariants on that one.
- `PresenceIsIdentity` (`PresenceMatchesIdentity`) and `OnlyCausedGhosts`
  (`GhostsHaveCause`), under `~Pipelined`. A connection then has one frame in
  pool and handlers together (`OneAtATime`), so between `set_user_id` and
  Presence only its own handler can come (`Settled`), and a connection closed at
  rest stays at rest (`ClosedAtRest`): nobody binds it after `on_close` has
  unbound it.
- `OnlyLateIsQueued` (`QueuedWasLate`), under `~DbMayFail` and with either
  drain. Whatever is queued for a user who is online was queued late, or a
  worker is about to drain it (`ReplayPending`).
- `NothingIsWrittenTwice` (`WrittenOnce`), under `~SplitDrain`. The copy of a
  message for a user is in one place (`OnePlace`): still to be routed, queued,
  drained, to be written to a connection, or written there. Every step moves it
  forward; a message to oneself, which is routed and echoed, is the exception.

**ConnectionProofs.** All five properties of the run `connection`:
`WakeupsArrive` (`PostsAreHeard`), `FramesInOrder` (`FramesStayWhole`),
`NoUseAfterClose` (`NoCallAfterClose`), `NothingIsStranded` (`NothingStranded`)
and `GracefulClose` (`CloseFlushesFirst`). The invariant says where the duty to
send lies at every moment: as long as there are bytes in `wbuf_`, a thread is
about to post a flush, or a flush is in `pending_` or in the batch, or the loop
is flushing, or writing is armed and the kernel's edge is still to come
(`OutputKept`, `Watched`); and likewise for input (`InputKept`). It rests on
`write_armed_` agreeing with the registered events (`Registered`), on only the
thread that set `closing_` having posted a close (`Closing`), and on the loop
having nothing in hand when it waits (`Loop`). For the close, a flush for what
is owed comes before the first `deliver_close` in batch and queue, or has been
tried (`Due`).

**IdentityProofs.** For `Session`, `TtlIsKept` (`NeverOutlivesTtl`), `LogoutIsFinal`
(`RevokedStaysDead`) and `LoginSurvives` (`SessionsSurvive`). Cache and table
hold what `create` made, up to the fraction of a second the table drops
(`CacheIsTrue`, `RowsAreTrue`); a token is inserted once, before any client has
it, so no INSERT can follow its DELETE (`InHand`, `Stages`); after a logout it
is in neither unless the DELETE failed (`Gone`), before it in both unless the
INSERT or the warming failed (`Kept`). For `Accounts`,
`LoginIsJudged` (`LoginsAreJudged`) and `LastSeenFresh` (`LastSeenIsFresh`), of
`A!Spec`, the specification of `Accounts` as `MCIdentity` instantiates it; the
invariant is `AInv`. The unique key keeps a row for good (`AckedIsKept`), so the
password a login carries is still that of the row when it is compared, however
many registrations come between (`Handled`). For the second: of a user whose
`last_seen_at` is not known to be behind, at most one departure is in flight, and
it is the last one; when none is, it has been written (`Departing`). Writing it
is sound because truncating to seconds keeps the order of instants.

**RoomProofs.** `CacheIsTheTable` (`CacheAgrees`), `FanoutFollowsTheTable`
(`FanoutIsCurrent`) and `MembershipDecides` (`MembersAreServed`), with the
invariant `RoomInv`. A membership is `hidden` when the cache may lack it though
the table has it, and a ghost when the cache may have it though the table does
not; each is recorded at the step that causes it and struck off by the step
that mends it. The updates in flight on a membership that is neither all go the
same way (`OneWay`), so the table is as a handler left it when the handler comes
to the cache (`Written`), and cache and table agree on every membership that no
handler has yet to report, up to the one direction that is excused (`Agree`).
What a reader takes from the cache is then within what `must` and `may`, kept up
to date while it runs, allow (`ServedStep`).

**ServerProofs.** All four properties of the run `server`, without a hypothesis:
`RegistryExact` (`RegistryIsExact`), `TeardownComplete` (`TeardownIsComplete`),
`StopOnlyWaits` (`StopWaitsForSteps`) and `NobodyIsForgotten`
(`WaitingIsAnnounced`). One connection at a time is between `accept` and `start`
(`Accepted`); a mutex is held only by a thread at a place where it needs it
(`Holding`); a worker that has left found the pool stopped and the queue empty,
and both stay (`Joining`). For the teardown, an open connection is in `conns_`,
or in the snapshot of a `stop()`, or its close is under way, and `closing_`,
which makes `stop()` pass it over, means the last (`Reached`): also between the
step that sets the flag and the one that posts the close.

**HistoryProofs.** All three properties of the run `history`. `PagesAreExactAlways`
(`PagesAreExact`): what the client has been sent is increasing and from its
conversation, `before` is the least of it, and whatever was there when it began
and has not been sent is below all of it (`Walk`); a page takes the greatest of
what is below `before`, so this stays so, and an empty page leaves nothing,
unless it stands for a failed query, after which the client stops. That
rests on what a page is. For the SQL query, a finite set of ids can be listed in
decreasing order, in one way only; for the in-memory loop, after every
iteration it has collected the greatest matches among the rows it has passed,
which with rows in the order of their ids is the same list: hence
`StoresAgreeAlways` (`StoresAgree`). `TimesKeepOrderAlways` (`TimesKeepOrder`)
is arithmetic over any clock.

**FramingProofs.** `FramingInvariant` is about both parsers after any pieces
(`FrameInv`, one half for each): the payloads given out, framed again, with the
bytes pending, are the bytes fed; what is pending is less than a frame, unless
the connection is closing or `feed` has thrown; and then the client's pending
bytes begin with the length it refused. The server's loop takes a length or a
payload at a time (`IterationAdvances`), the client's a whole frame
(`RoundAdvances`, as up to two advances); an advance keeps the bytes together
(`TurnSound`) and takes at least one or stops, so after as many turns as there
are bytes nothing is left to do (`LoopEnds`, `ParseSound`, `FeedLoopSound`).
`HeaderInverts` is the arithmetic: the four bytes of a length below 2^32 give it
back. `ServerInvertsFrameAlways` (`ServerInvertsFrame`) and
`ClientInvertsFrameAlways` (`ClientInvertsFrame`) follow, for any two limits.
`DigestInvariant` says the same of `Sha256`: the blocks compressed and the
buffer are the bytes fed, and the buffer is never full between two calls
(`HashInv`). `DigestIsOfTheStreamAlways` (`DigestIsOfTheStream`) then compares
what `finish` appends, in one block or in two, with the padding that RFC 6234
defines by a remainder.
The third part is about the encodings. `EncodingsAreUndone` is for bytes of any
number and value; `EncodingsInvertAlways` (`EncodingsInvert`) takes it to the
streams of the run. The text that RFC 4648 defines by bits is first shown to be
one digit for every remainder and quotient of the bytes (`Encoding`); then
`base64_encode` writes it, group by group and for each of the three endings
(`EncodeEncodes`); and after j digits `base64_decode` has put out the bytes that
6j bits hold and has the bits of the next byte at the low end of `v` (`Part`),
up to the filler, which it passes over (`DecodeInverts`). For the powers of two
to be numbers and not variables, the four places of a digit in its group are
four cases.

An induction over data cannot be written with the library's induction theorems,
whose parameter is an operator. These two modules use a least counterexample
instead: a set of naturals that is not empty has a least element (`WFMin` with
`NatLessThanWellFounded`), so a set that has 0 and is closed under successor up
to n has all of 0..n (`Climb`). The loops they are about are recursive functions
on the number of iterations done, which `LoopExists` shows to exist. `Framing`
and `Sha256` define the concatenation of sequences (`Join`) themselves, since
everything that a proof module can see of `SequencesExt` is sent along with
each obligation and makes the provers several times slower.

Every safety property of a passing run has a theorem. Only model-checked is
liveness, since the prover has no ENABLED: `AcceptedTaskRuns`,
`ShutdownReturnsUnlessMissed`, `FrameGoesOut`, `CloseCompletes` and `Served`.

Most leaves of the large proofs are first-order and are given to Zenon, which
`USE Zenon` makes the default; arithmetic and sequences are given to SMT by name.

## 6. Not modelled

- The arithmetic of SHA-256, HMAC and PBKDF2 and the random source
  (`auth/crypto.cpp`): no states or interleavings, and known-answer tests say
  more than a model with small words would.
- JSON encoding and the dispatch table: a function from names to handlers.
- `list_rooms` and `ping`: one query or none, and a reply.
- Configuration, logging and socket options.
- The command-line client apart from its decoder: one reader thread and one
  terminal, which share the flag that ends both and the output stream.
- `ChatServer::init`: it ends before there is a second thread that uses what it
  builds.
- `RoomManager::invalidate` and `SessionManager::touch`: nothing calls them.

## 7. Plan

Done: the pool and its promise; delivery; the connection and its reactor; rooms;
sessions; users and presence; the MySQL pool; the server and its shutdown;
framing, hashing and encodings; history; each with proofs. To come: reuse of
descriptor numbers in the reactor's callback map.

## 8. Running

    tlc -workers 2 -config ThreadPool.cfg MCThreadPool   # any run: its cfg and module
    tlapm PoolProofs.tla                                 # any proof module
