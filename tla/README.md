# A verification of mini-redis

The repository is an exercise book for Rust (`en/`, `zh-CN/src/`, `solutions/`:
Markdown) with two toy crates (`practices/`) and one real program:
`zh-CN/assets/mini-redis`, an asynchronous key-value server with expiring keys
and publish/subscribe, and a client library. This directory models that program
in TLA+, checks the models with TLC and proves the most important properties
with TLAPS. Paths like `db.rs:159` are relative to
`zh-CN/assets/mini-redis/src/`.

## 1. The system

| Part | State | Operations | Talks to |
|---|---|---|---|
| Database, `db.rs` | under one mutex: `entries`, `expirations` (an ordered map from (Instant, id) to key), `next_id`, `shutdown`, `pub_sub`; beside it a `Notify` and a timer | `get`, `set`, `subscribe`, `publish`, the purge task, `shutdown_purge_task` | handlers call it; it notifies the purge task |
| Server, `server.rs`, `shutdown.rs` | the semaphore, the back-off of `accept`, one `Handler` per connection, two shutdown channels | `run`, `Listener::run`, `accept`, `Handler::run`, the drop of a `Handler` | spawns handlers; broadcasts the shutdown; waits for handlers to be dropped |
| Subscribed loop, `cmd/subscribe.rs` | the `StreamMap` of broadcast receivers | subscribe, unsubscribe, deliver, leave | the broadcast channels of the database, one connection |
| Connection, `connection.rs`, and Frame, `frame.rs` | the read buffer | `read_frame`, `parse_frame`, `write_frame`; `check`, `parse` | the socket |
| Commands, `cmd/*.rs`, `parse.rs` | none | `from_frame`, `parse_frames`, `into_frame`, `apply` | frames on one side, the database on the other |
| Client, `client.rs` | the connection; a `Subscriber` has its list of channels | `get`, `set`, `publish`, `subscribe`, `unsubscribe`, `next_message` | a server |
| Buffer, `buffer.rs` | a request channel of 32 and one oneshot per request | `get`, `set`, the task | a `Client` |
| Blocking client, binaries, examples | none of their own | wrappers | the client, the server |

What is hard here: `set` decides under the lock whether the purge task must be
woken and wakes it after unlocking, while the task computes how long to sleep in
one critical section and goes to sleep outside it; the shutdown must stop the
purge task and the handlers without losing a reply or a permit; `select!` drops
a `read_frame` in the middle of a frame; messages arrive between the
confirmations a subscribing client counts; a slow subscriber lags behind a
bounded broadcast channel; every way in which a handler can end (error,
panic, hang-up, shutdown) must return its permit; and the future of a call may
be dropped, by a timeout for example, with its request or its answer on the way.
`PROJECT.json` lists these hazards at their lines, with the properties that
watch them.

What makes each part correct:

* database: index and entries agree; no wake-up and no shutdown signal is lost;
  a purge removes exactly what is due; expired values go away;
* server: permits are conserved; the shutdown is orderly, completes, and
  interrupts no command; a peer that hangs up frees its permit;
* subscribed loop: receivers are counted exactly; frames match what the client
  was told; messages come in order, once, and none is skipped without need;
* connection: a channel of whole frames with a truthful end, whatever the pieces
  and however often a read is dropped;
* commands: the server understands what the client meant, and refuses the rest;
* client: list and subscriptions agree, an answer is taken by the call that
  asked for it, and every call returns;
* buffer: however many share a client and whoever goes away, each call takes
  effect once and gets the answer to its own request;
* server and database together: the database is served, and purged, until the
  last handler has gone, and then everything ends.

## 2. The modules

| Module | Models | Kind |
|---|---|---|
| `KeyValue` | what the database promises: a map with deadlines, purged by the clock | abstract specification |
| `Db` | `db.rs` without its channels | specification; implements `KeyValue` |
| `DbProofs` | theorems about `Db` | proofs |
| `Server` | `server.rs`, `shutdown.rs` | specification |
| `ServerProofs` | theorems about `Server` | proofs |
| `MiniRedis` | `Server` and `Db` together, `apply` of GET, SET, PUBLISH, SUBSCRIBE and unknown commands | composition; implements `Server` and `Db` |
| `MiniRedisProofs` | theorems about `MiniRedis`, from those about `Server` | proofs |
| `PubSub` | the channels of `db.rs` and `cmd/subscribe.rs` | specification |
| `PubSubProofs` | theorems about `PubSub` | proofs |
| `Frame` | `frame.rs`, `parse_frame`, the encoding of `write_frame` | functions |
| `FrameReader` | any bytes in a read buffer | specification over `Frame` |
| `MCWire` | `FrameReader` and `Command` in one run, one at a time | instance for TLC |
| `FrameChannel` | what a pair of connections promises: a FIFO of whole frames | abstract specification |
| `Connection`, `MCConnection` | `connection.rs` with the socket and the peer | specification; implements `FrameChannel` |
| `ConnectionProofs` | theorems about `Frame`, `FrameReader` and `Connection` | proofs |
| `Command` | `cmd/*.rs`, `parse.rs` | functions and the requests they are applied to |
| `CommandProofs` | theorems about `Command` | proofs |
| `Session` | `client.rs` and the handler that serves it | specification |
| `SessionProofs` | theorems about `Session` | proofs |
| `SharedStore` | what a shared client promises: each call takes effect once, in order | abstract specification |
| `Buffer` | `buffer.rs` with the `Client` it owns | specification; implements `SharedStore` |
| `Subsequence` | the messages of a channel that belong to one caller | helper of `Buffer` and `SharedStore` |
| `BufferProofs` | theorems about `Buffer` | proofs |

### Db

`entries`, `expirations`, `next_id`, `shutdown` are the fields of `State`;
`poisoned` is the state of the mutex. A critical section is one action (`Get`,
`Set`, `SignalShutdown`, `Check`, `Purge`); what happens outside is an action of
its own (`SetNotifies`, `ShutdownNotifies`, `Poll`, `WakeNotified`,
`WakeElapsed`). `Notify` is its `permit` and the flag `notified` of the one
waiter; when the timer wins over a notification the notification is passed on
and becomes a permit, as tokio does. `SetOverflows` is the panic of
`Instant::now() + duration` with the lock held, after which `LockPanics` and
`TaskPanics` are what every user of the mutex gets. The guard is `DbDropGuard`.

### Server

`handler[c]` goes from `backlog` through `loop`, `select` and `reply` to the
steps of the drop: permit, `db`, completion sender, in the order in which Rust
drops `Drop::drop` and then the fields. `Execute`, `Reject`, `Panic`, `HangUp`
and `Reset` are the ways a wait for a frame ends; `subscribed` says which of the
two `select!` loops is waiting. `AcceptFails` and `BackoffElapses` are the loop
of `accept`; `Signal`, `Release` and `Return` are the end of `run`. `owed`,
`outcome` and `failures` are history.

### PubSub

A message is its position in its channel. `tail` and `rx_count` are those of the
broadcast channel, `cursor[c]` is the `StreamMap` of client `c`. `Register`
(`Db::subscribe`), `Insert` (`StreamMap::insert`, which drops the receiver it
replaces) and `AckWritten` are separate steps, as publishers run in between.
`acked` and `seen` record what the client has been told.

### Frame, FrameReader, Connection, FrameChannel

`Check` and `Parse` follow `frame.rs` branch by branch on a sequence of bytes;
`ParseFrame` is `Connection::parse_frame` and `Encode` is `write_frame`. The
recursion of `check` and `parse` is a recursive function over the positions of
the buffer: an array that begins at one is its first entry and what follows, at a
later one. `Writable` are the frames a reader can tell apart: the text of a
simple string or an error has no line end in it, and an array has no arrays in
it. The code does not see to the first: `cmd/unknown.rs:30` puts the name of an unknown
command into the text of an error, and a name may hold a line end.
`FrameReader` is a read buffer (`input`) that receives any bytes at all.
`Connection` has the bytes on their way (`stream`), the read buffer, and a
`read_frame` that is `parsing` (synchronous) or `waiting` (where `Cancel` may
drop it). The peer closes, dies with any prefix of its bytes on the way
(`PeerDies`), or sends what is no frame (`PeerBreaks`). `FrameChannel` has the
frames only; the mapping takes its queue from the frames that were written, have
reached the stream whole, and were not yet returned.

### Command

`FromFrame` is `Command::from_frame` with the `Parse` cursor, on the entries of
an array frame; `IntoFrame` is `into_frame` of each command. Texts, their lower
case and the numbers they begin with are constants. Every parse error ends the
connection, so all of them are `Failed`. The requests are the calls of the
client library and any array frame, built entry by entry.

### Session

`mode` says whether the application holds a `Client` or a `Subscriber`, or has
lost it: `Client::subscribe` consumes the client, so that nothing is left when
it fails. `subscribed_channels`, `call`, `channels` and `awaited` are the client;
`subscriptions` and `handler` are the loop that serves it; `requests` and
`replies` are the connection, as `FrameChannel` promises it. `Serve` is one
command with all its replies, since the handler looks at no stream in the
meantime; `Deliver` is a message. An application may go on after a call has
failed, and may drop the future of one (`Abandon`); its request is with the
connection then, and its reply still to come. `failure` remembers the last call
that went wrong, and `careful` that the application has only subscribed to new
channels and only unsubscribed from its own. The stream of `into_stream` is
`NextMessage` until the first error, the iterator of `blocking_client.rs` is
`NextMessage` over and over, and a `BlockingClient` makes the same calls with
`MaxDrops = 0`.

### Buffer and SharedStore

`caller[c]` is where the future of a call is: `sending` (it waits for a slot of
the channel), `awaiting` (its oneshot), or `none` without a handle. A oneshot is
a caller and the number of its call, so that an answer that comes for an earlier
call has no receiver. `Recv`, `Read`, `ReadFails` and `End` are the task;
`Execute` and `Break` are the rest of the world.

`SharedStore` knows no channel, no task and no connection, only a store, the
calls that have not taken effect (`todo`) and the answers. `Buffer` implements
it with `todo` taken from the requests at the server, those in the channel, and
the one that waits for a slot; a call takes effect when the server executes it.
A call that was abandoned may take effect later, which is why `todo` is a
sequence and no single call. The mapping assumes that the keys of the buffer
are used by this client only.

### MiniRedis

The variables of `Server` and of `Db`, with the connections as the `Handlers` of
`Db`: `user[c]` is where the handler of `c` is inside the database. Each action
is one of `Server` and one of `Db` taken together (`Execute` with `Get`, `Set`, or
what the other commands do; `Panic` with `LockPanics` or `SetOverflows`; `DropGuard`
when `run` has returned) or one of them alone. The pub/sub half of the database is
present with its use of the mutex only (`Locks`): it too panics on a poisoned one.

### How the modules fit together

`Command` is how a command is read from a frame; `Connection` shows that a
connection is the channel of frames that `Server`, `PubSub`, `Session` and `Buffer`
assume. `Server` treats a command as one step that may panic or be rejected; `Db`
and `PubSub` are what that step does, and `MiniRedis` is the two halves in one.
`PubSub` shows what the loop does with its receivers; `Session` abstracts from
those and adds the client. `Buffer` takes from `Session` that a client that drops no
call finds the answer to its own request next, and shares that client.

## 3. The runs

All runs are exhaustive for their constants. `CHECK_DEADLOCK FALSE` is given
where the system really stops: the server has returned, the session has ended,
the mutex is poisoned, the request is complete.

| Run | Bounds, and why they are enough | Shows |
|---|---|---|
| `db` | 2 keys, 2 handlers and the guard, 3 SETs, times 0 to 1, durations 0, 1 and 2, `MaxInstant` 2: deadlines that are due at once, tie, or are two different ones in the future; a sum that overflows; three notifiers at once. One value: entries are told apart by their deadlines, and the refinement is proved for all values | `ExpirationsMatchEntries`, `NoLostWakeup`, `ShutdownNotLost`, `ImplementsKeyValue`, `ExpiredIsPurged`, `TaskStopsAfterShutdown`, `TaskComesToRest` |
| `server` | 2 connections, 1 permit, the real back-off limit of 64: the second connection waits for the permit of the first, and `accept` fails eight times in a row before, between and after | `PermitsConserved`, `NoHandlerOutlivesRun`, `NoReplyOwedAtExit`, `BackoffSchedule`, `ShutdownCompletes`, `HangUpFreesPermit` |
| `mini_redis` | 1 connection, 1 key, 2 SETs without a deadline, with one in the future, or with one that overflows, back-off limit 0: every order of the last commands, the shutdown, the drops and the purge. Two connections (3.7 million states, without liveness) were checked once, and the invariant and the action property are proved for any number | `TaskOutlivesHandlers`, `FrozenAfterShutdown`, `EverythingEnds` |
| `pubsub` | 1 client, 2 channels, 2 channels in a command, capacity 2 and 4 messages: a lag by one and by two, channels named twice, subscribed again and unsubscribed without being subscribed. All of it is proved for any number of clients | `ReceiversCounted`, `AckedIsListening`, `ConfirmedNumberIsTrue`, `MessagesOnlyWhileSubscribed`, `InOrderWithoutDuplicates`, `SkipsOnlyWhatIsGone` |
| `wire` | of bytes, every buffer of up to seven of those that errors, nulls, strings, arrays and misfits are made of; of entries, every request of up to 6, one more than the longest command takes, 2 units to a millisecond, a small u64. Bytes and entries are sent one or the other, as their parsers share no state. The theorems cover every other input | `CheckMeasuresParse`, `NeverUnimplemented`, `RoundTrip`, `DecisionIsFinal`, `UnderstoodAsMeant`, `NothingLeftOver` |
| `connection` | 2 frames out of 6, one of each kind, with a line end inside a bulk string and arrays: one frame boundary is in the buffer, cut anywhere | `BytesAccountedFor`, `EndIsTruthful`, `ImplementsFrameChannel`, `FramesArrive`, `EndIsReported` |
| `session` | 2 channels, lists of up to 2, 4 calls or 3 and a dropped one, 1 message: a channel can be named twice in a call and in two calls, then be unsubscribed and subscribed again; a reply or a message can be left over by a dropped or failed call and met by the next two | `OnlyOwnMessages`, `InStep`, `FailsForCause`, `CallsReturn` |
| `buffer` | 2 callers with 2 calls each, 1 key, 2 values, a channel of 1: one request at the server, one in the channel, one caller waiting for the slot; the answer to an abandoned call can meet the next call of its caller and a call of the other | `ImplementsSharedStore`, `CallsReturn`, `TaskEnds` |

Every property has a mutant, a plausible bug in one definition, with which the
run fails (marked `Mutant:` in the modules).

Four more runs check what a document says and the code does not do; each finds a
counterexample:

* `db_doc_task`: a duration that overflows `Instant` panics with the lock held;
  the purge task dies while the database is in use (`db.rs:27-30`).
* `server_doc_accept`: the sixth failure of `accept` in a row does not end it, where
  `server.rs:286-290` says "on the 6th try after waiting for 64 seconds". With the
  pauses that the same comment gives, 1, 2, 4, ..., the wait of 64 seconds comes
  before the 8th try, and that is the one the code gives up on (`BackoffSchedule`).
* `session_doc_confirm`: a message of a channel already subscribed to comes
  where `subscribe` takes the next frame for its confirmation
  (`client.rs:307-308`); the call fails and the message is lost.
* `session_doc_unsubscribe`: an `unsubscribe` without channels awaits as many
  confirmations as the list of the `Subscriber` is long, and the handler sends as
  many as it has streams (`client.rs:433-435`). A message comes before the
  confirmation of `unsubscribe([a])`, which fails; `next_message` consumes the
  confirmation, with an error; `unsubscribe([])` then waits for ever.

Other differences between documents and code, met while modelling, have no run:

* `get` does not compare `expires_at` with the clock: from the deadline to the
  next purge it returns the value, where `db.rs:150-152` says `None`
  (`ExpiredIsPurged` says that the purge comes);
* `get_name` calls PUBLISH `"pub"` (`cmd/mod.rs:109`);
* `Set::into_frame` drops the fraction of a millisecond and wraps at 2^64
  milliseconds (`cmd/set.rs:157`; the guard `Transmissible` of `UnderstoodAsMeant`
  names exactly this);
* `get_subscribed` can name a channel twice (`client.rs:361, 417`);
* a `get` whose future is dropped leaves its reply on the connection, and the next
  call takes it (`client.rs:124`): the condition `Untroubled` of `OnlyOwnMessages`;
* `next_message` builds the content with `to_string` (`client.rs:379`), which does
  not keep bytes that are no UTF-8;
* after the mutex is poisoned the drop of the guard panics, and a purge task that
  is parked is told nothing and stays (`db.rs:282-293`): the condition `poisoned` of
  `EverythingEnds`.

## 4. Fairness

* A spawned task that can run does run, and code between two awaits completes:
  weak fairness of the purge task, of the notifying steps of `set` and of the
  guard, of `run` and of the drops. Nothing obliges
  clients to send, the clock to move, or the shutdown to happen.
* `select!` polls its branches from a random start, so a branch that is ready again
  and again is taken: strong fairness of `Read` and `ReceiveShutdown` in Server, of
  `Fill` in Connection (a `read_frame` may be dropped any number of times, but not
  always before it reads).
* PubSub has no liveness property and states no fairness. That a busy channel does
  not starve another is the work of the random start of `StreamMap`, a library; to
  assume it, stream by stream, would be to assume the result.
* `parse_frame` is synchronous, so a reader does not stay in `parsing`:
  `[]<>(call # "parsing")`, from where a step is always enabled.
* `PeersRead` in Server is an assumption about peers that the code does not
  enforce: a peer that never reads keeps its handler in `write_frame`, where the
  handler does not look at the shutdown, and `run` never returns. The assumption
  is named in `FairSpec` so that `ShutdownCompletes` says what it rests on.
* In Session the handler serves (`WF(Serve)`) and the calls are awaited
  (`WF(Read)`).
* In Buffer the task runs, and a call returns once it is answered. The slots of
  the channel come from a semaphore that serves its waiters in turn, so a caller
  is not overtaken for ever: strong fairness of `Send`. `ServerAnswers` is an
  assumption about the server that `get` and `set`, which have no timeout, do not
  enforce; a connection that is closed needs no such assumption.
* MiniRedis has the fairness of Server and Db, action by action, and adds that a
  guard that is being dropped is dropped (`WF(DropGuard)`).

## 5. The proofs

TLAPS checks these for all values of the constants, under the `ASSUME`s of the
modules (finiteness of the connections, natural bounds, durations in `Nat`, the
names of commands being texts, the marks of the wire format being bytes, the frames
a peer writes being `Writable`).

`DbProofs`:

* `TypeCorrect`, from the definitions and `NextExpirationType`: the earliest
  expiration is unique, because the natural numbers are well ordered.
* `IndexCorrect`: `ExpirationsMatchEntries` is not inductive, because `set`
  removes from the index by identifier; `IndexInv` adds `IdsAreFresh` (an
  identifier is below `next_id` and belongs to one key).
* `WakeupsCorrect` and `ShutdownReachesTask`: `NoLostWakeup` and
  `ShutdownNotLost` are inductive together with the types. The argument is that
  each step either leaves the wake-up that is on its way, or replaces it:
  a `set` that makes the next deadline earlier is itself about to notify; a purge
  computes a sleep that covers every deadline it leaves; a notification that the
  timer overtakes becomes a permit.
* `DbImplementsKeyValue`: each step maps to a step of `KeyValue` or a stutter;
  the purge needs `IndexInv`.

`ServerProofs`:

* `TypeCorrect` and `PermitsCorrect` are proved at once by `PermitInv`: that the
  semaphore stays within its initial count is true only because permits are
  conserved. `TakenWhileAccepting` says where the listener has a permit in hand.
  The cardinality of the holders changes by one in `Accept` and `DropPermit` and
  nowhere else.
* `ConnectionsBounded` follows.
* `NoHandlerOutlives`: `ReturnInv` adds that `run` leaves its `select!` only with
  the listener stopped, so that no handler can appear after the last has gone.

`MiniRedisProofs`:

* `MiniRedisImplementsServer` and `MiniRedisImplementsDb`: each step of the
  composition is a step of the one and a step or a stutter of the other. With
  `SP == INSTANCE ServerProofs` every theorem about Server is one about the
  composition.
* `TaskOutlives` rests on the `ReturnInv` of `ServerProofs`: the flag `shutdown` is
  set by `DropGuard` only, and that needs `run` to have returned, when the last
  handler has gone.
* `Frozen`: with no handler left there is no `Set`, and `Purge` looks at `shutdown`
  under the lock.

`PubSubProofs`, over `TypeInv` (types, and what the place of a session says about
its other variables):

* `CountCorrect`: `ReceiversCounted` is inductive with `TypeInv`. The cardinality of
  `Registering` changes in `Register` and `Insert`, that of `Subscribers` in
  `Insert`, `RemoveStream` and `DropReceiver`, each time by the one client.
* `Listening`, `NumberCorrect` and `MessagesMatch`, from `ToldInv`: the streams of a client are the
  channels it has been told, but for the one whose confirmation is being written.
  That publishers see the receiver of a confirmed channel uses the count.
* `OrderCorrect` and `SkipsCorrect`, from `OrderInv`: what was seen, what is being
  written, the stream, a receiver not yet inserted and the channel's end are in
  this order.

`CommandProofs`:

* `EncodingUnderstood`: `from_frame` undoes `into_frame` for every command a
  client can send, by one lemma per command; that for SET with an expiration
  rests on `MillisExact`, those for lists on `ChannelsRead`.
* `CallsUnderstood`: the invariant `Asked` (a request that was called is the
  frame of the call) gives `UnderstoodAsMeant`.
* `ExcessRefused`: what `from_frame` returns tells the name and the number of the
  entries (`CommandIs`), so that with one entry more it fails.

`ServerProofs`, further:

* `NoReplyOwed`: `ReplyInv` adds that a connection has an outcome only once its
  handler has begun to end.
* `KeepsSchedule`: `BackoffInv` pairs the pause with the number of failures at every
  point of `accept`. It is stated for the limit of the code, `MaxBackoff = 64`.

`SessionProofs`, for any channels and lists, repeated, empty or of others:

* `NoReplyLeftOver` and `SameChannels`, from `StepInv`: as long as no call was
  dropped or failed, there is no call and the two sides agree (`Quiet`), or the
  request of the call is the last one on its way (`Unserved`), or the handler has
  served it and the confirmations that are still to be read lead from the list of
  the client to the subscriptions of the handler (`Served`). Requests that no call
  waits for, of `subscribe` and `unsubscribe` without channels, may lie before it.
* `FirstFailureHasCause`: for a careful application the confirmations come in the
  order and number it counts on, so that a call can fail only because of a message
  among them or because the session has ended.

`BufferProofs`, for any callers, commands and slots:

* `BufferTypeCorrect` and `Implements`, from `BufferInv`: `Wire` (one request is with
  the server, the one the task works on), `InOrder` (the messages of a caller are in
  the order of its calls) and `Unanswered` (a oneshot is empty until its message has
  been worked on). The refinement is argued caller by caller: a step changes what
  the store sees of one of them (`Seen`), in the way of a step of `SharedStore`, or of
  none. Its mapping takes a subsequence of the channel; `Only` is a recursive
  function, and the lemmas about it are inductions.

`ConnectionProofs`, for any bytes, frames and bounds:

* that the recursive functions of `Frame` exist: `Recursion` shows that an equation
  whose right side looks only at places of a smaller rank has a solution, and
  `CheckEntriesIs`, `ParseEntriesIs` and `NumeralIs` that these equations do.
* `CheckIsMeasure` and `Implemented`: `EntriesAgree`, by induction from the last
  position of the buffer to the first, says that `parse` ends where `check` ended,
  or rejects what `check` accepted (`$-x`), and never meets an unknown type.
* `Final`: `EntriesStay` and `ParsedEntriesStay`, by the same induction, say that one
  more byte does not change what was decided.
* `ReadFramesRoundTrip`: `Encode` of a frame of `Writable` at any place of a buffer is
  parsed there, to its last byte (`FrameAt`), and what `parse` reads is `Writable`,
  arrays in arrays apart (`EntriesRead`).
* `ConnectionInvariant`: the bytes in the read buffer and on the stream are the
  encoding of the frames that got through and were not returned, and behind them
  nothing, the beginning of the next frame, or what is no frame (`OnTheWay`). A
  proper beginning of a frame is undecided (`PartUndecided`): were it a frame or an
  error, it would be one, by `Final`, when the rest has come, but the whole frame
  parses to its own last byte. This is why `read_frame` fails or ends only where
  the peer did.
* `BytesKept`, `EndsTruthfully` and `ConnectionIsChannel` follow: each action keeps the
  invariant and is a step of `FrameChannel` or none.

The induction theorems of the library cannot be used here (they take an operator),
but induction over sets can: a set of numbers with 0 that is closed under + 1 is
`Nat` (`NatInduct`), and likewise downwards from the end of a buffer, and for sequences.
What is shown about the recursive functions is shown in this way, for all inputs.

Every invariant and action property that a passing run checks, and every
refinement, is also a theorem. Only model-checked: all liveness (`ExpiredIsPurged`,
`TaskStopsAfterShutdown`, `TaskComesToRest`, `ShutdownCompletes`, `HangUpFreesPermit`,
`EverythingEnds`, `FramesArrive`, `EndIsReported`, `CallsReturn`,
`TaskEnds`), as fairness is out of the prover's reach, and the four counterexamples.

The models are written so that they can be reasoned about. Recursion is a recursive
function, in `Frame` over the places of a buffer. The guards of a `CASE` are
exclusive: TLC takes the first that holds, the semantics any of them. `Without` of
`Session` and `Only` stand where `SelectSeq` would, whose definition no prover opens.

## 6. The plan

The order was by importance: the database and the server, whose interleavings
carry the most risk, came first; then publish/subscribe, the connection, the
commands and the session; then the client library, the buffer and the
composition; and the proofs in the same order. What is left:

1. `ConnectionProofs` holds the theorems about the wire format and those about the
   connection; they could be two modules.
2. A session over a `Connection` in place of the channel it promises, so that the
   composition of the two is a theorem and not an assumption.

The runs are limited to the questions above; a new module's run will replace the
least telling of the existing ones.

## 7. Not modelled

* `blocking_client.rs`, beyond the calls it passes on (`Session` with
  `MaxDrops = 0`): each method blocks a runtime of its own on the asynchronous one.
* `connect`: a resolved address and a fresh connection are the initial state.
* Binaries and examples: argument parsing and printing around a library call.
* A future of `write_frame` that is dropped in the middle of a frame larger than the
  write buffer (`connection.rs:157`): frames are written whole in the models. The
  handler never drops such a future; an application that drops a call can.
* The error paths of `Buffer::get` and `set` for a closed channel and a dropped
  oneshot (`buffer.rs:91, 96`): the task outlives all handles and answers every
  request it takes, so they cannot be reached.
* The wording of errors, tracing, and `Display` of frames.
* Lengths near the limit of `usize` (`len + 2`, `frame.rs:89, 142`): lengths are
  mathematical numbers.
* tokio itself (the scheduler, `Notify`, broadcast and mpsc channels, oneshots,
  semaphores, timers) and the socket are modelled from their use and marked
  external in the map.
* The books, their solutions, the toy crates and the book's tooling: there is no
  system in them.
