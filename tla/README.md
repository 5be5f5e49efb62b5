# The telesrv/tdlibgo repository in TLA+

The repository is two programs in one Go module. `telesrv` is a Telegram server
in one process over PostgreSQL and Redis: MTProto connections and sessions
(`internal/mtprotoedge`), RPC handlers (`internal/rpc`), business services
(`internal/app`), stores (`internal/store`). The other is a small desktop client
around TDLib (`internal/services`, `internal/state`, `internal/server`).

What makes the server hard is one promise: **a client that was told its pts has
every update up to it**. The update log, the online push, the retention of the
log, the delivery of RPC results and the caches in front of the tables all rest on
it. The modules here start from there.

- [Inventory](#inventory): parts, state, operations, hard behaviours
- [Modules](#modules): what is modelled, and how it corresponds to the code
- [Runs](#runs): what TLC checks, the bounds, the fairness
- [Theorems](#theorems): what is proved and how
- [Findings](#findings): where the code and its comments disagree
- [Plan](#plan): what follows, in order
- [Not modelled](#not-modelled)

## Inventory

Paths are under `src/internal/`. `PROJECT.json` lists every part, its status, and
under "hazards" what is hard to test, line by line.

### Durable updates

| Part | State | Operations | Correct means |
|---|---|---|---|
| **Dispatch outbox** `rpc/outbox_dispatcher.go`, `store/postgres/dispatch_outbox.go`, migration 0186 | `dispatch_outbox` rows, `dispatch_outbox_user_heads`, the lane fence, leases with an attempts token | append with its task, claim, push, mark delivered or failed, poison cleanup | a lane's updates are pushed in pts order; no task is lost or hidden; a late worker cannot settle another's lease |
| **Account update log and cursors** `app/updates`, `rpc/updates*.go`, `postresponse`, `store/postgres/update*.go`, `authorization.go` | watermark, event log, retention floor, `update_states` (delivered and observed pts), `authorizations` | getState, getDifference, record, post-response commit, prune, bind, revoke, logOut | retention never takes an update a device still needs; "you are synchronised" is never said to a device that is not |
| **Retention worker** `app/maintenance` | none of its own | loops over both of the above | as above |
| **Channel fan-out** `rpc/channel_fanout_dispatcher.go` | shards with a FIFO, an overflow map of coalesced pts, a nudge queue, a recovery-sweep flag | enqueue, drain, offer nudge, sweep | per channel pts are monotonic; what overflows ends in a nudge of the largest pts or in a sweep |
| **Bot API queue** `rpc/botapi_update_queue.go`, `botapi` | per-bot queue, confirmed offset | enqueue, poll with offset, confirm | nothing unconfirmed is dropped, nothing confirmed returns |
| **Welcome delivery, broadcast** `rpc/welcome_delivery_dispatcher.go`, `app/broadcast` | leased delivery rows | lease, deliver, retry | each recipient once, each lease one owner |

### Connections, sessions and RPC results (`mtprotoedge`)

| Part | State | Operations | Correct means |
|---|---|---|---|
| **RPC execution ledger and result flights** `rpc_flight.go`, `rpc_execution_ledger.go`, `rpc_execution_budget.go`, `rpc_result_subscriber_budget.go` | flights, receipts and tombstones by (auth key, session, msg id), subscriber slots | Acquire, Subscribe, CompleteExecution, HandOff, Abort, Acknowledge, Replay, expiry | a request executes once; every waiter gets one outcome; slots return to zero |
| **Outbound actor and result delivery** `outbound.go`, `bulk_rpc_scheduler.go` | priority queues, the reliable log, per-result delivery state and hook state | enqueue, write, ack, resend, retarget, replay, hook claim and run | a delivery hook runs once, after a write of its result, whatever the retarget or replay |
| **Session manager, logical sessions** `session_manager.go`, `logical_session.go` | connection of each session, owners by user, pending pushes, activation and bootstrap tokens | Begin/Publish/AbortActivation, Unregister, bind, DestroySession, flush, sweep | an old connection changes nothing after a new one was published; pending pushes flush in order |
| **Rewrap registry** `rpc_rewrap.go`; **admission, layer profile** `admission.go`, `conn_layer_profile.go` | joined executions; counters | join; acquire, release | no second execution; counters balance |
| **Transport, key exchange** `transport`, `encrypted.go` | framing, keys | I/O | out of reach here |

### Caches, counters and conversations

| Part | State | Operations | Correct means |
|---|---|---|---|
| **Read-model cache** `readmodelcache/cache.go` | entries, LRU list, epoch, flights | GetOrLoad, GetOrLoadVersioned, GetOrLoadBatch, LoadEpoch/StoreIfEpoch, Store, Invalidate… | nothing stale becomes resident; nobody gets what was invalidated before it asked |
| **Redis counters and sign-in codes** `store/redisstore` | box-id and channel-id counters, code records | next, bump, recover; verify, consume | ids are unique across a lost counter; every attempt counts, one verification wins |
| **Phone calls** `app/phone` | call registry, ring and tombstone deadlines | request, received, accept, confirm, discard, expire | one device accepts; a call ends once |
| **Secret chats** `app/secretchat`, `rpc/encrypted_*.go`, `store/postgres/encrypted_queue.go` | chat state, qts queues, state events | request, accept, discard, send, ack | one device accepts; both sides agree on the end |
| **Client queue** `services/queue_manager.go` | tasks in memory and in bbolt, slots, schedule | add, pause, resume, complete, tick | a restart resumes what was saved; slots balance |
| **Services, handlers, stores, tools** | rows | validation and one transaction per call | see [Not modelled](#not-modelled) |

Interactions. A business transaction appends the event **and** its outbox task under
the account's watermark row (log → outbox). Outbox workers push through the session
manager (outbox → sessions → outbound). A result written to the socket runs its
post-response callback, which commits the device's cursor (outbound → log).
Retention reads those cursors and deletes from both tables (cursors → log,
outbox). Writers commit, PostgreSQL notifies, and the listener invalidates the caches
(stores → cache).

The hard behaviours are therefore: transactions that commit in an order other than
the one in which they read; leases that expire under a live worker; callbacks that
run late, twice or never; retention between two statements of a handler that
holds no lock; values loaded before an invalidation and stored after it;
overlapping flights that wait for each other.

## Modules

| Module | Models | Role |
|---|---|---|
| `LaneQueue` | what the outbox promises of one account's lane | abstract specification |
| `DispatchOutbox` | tables, locks, producers, workers, janitors of one lane | implements `LaneQueue` |
| `DispatchOutboxProofs` | | theorems |
| `AccountUpdates` | log, retention, authorizations, handlers, clients of one account | proved and model-checked |
| `AccountUpdatesProofs` | | theorems |
| `ReadModelCache` | one cache, its callers, its source and its listener | proved and model-checked |
| `ReadModelCacheProofs` | | theorems |
| `ChannelFanout` | the channel fan-out dispatcher: shards, mailboxes, nudges, recovery | proved and model-checked |
| `ChannelFanoutProofs` | | theorems |
| `SecretChats` | secret chats, their events and message queues, and the differences of one device | proved and model-checked |
| `SecretChatsProofs` | | theorems |
| `RpcLedger` | the RPC execution ledger, its flights and budgets, and the requests that use it | proved and model-checked |
| `RpcLedgerProofs` | | theorems |
| `MC*` | symmetry sets for TLC | instances |

Conventions: constants that only bound a behaviour are marked `bound:` where they
are declared. A definition whose comment begins `Mutated:` is not part of the
model; it is the nearest plausible bug, kept beside the definition it would replace,
and each property is known to fail under one of them. An operator that takes the
varying part as a parameter (`InsertTaskHolding`, `BindWith`, `InvalidateAt`)
exists so that the two differ in that part alone.

### DispatchOutbox

The rows are keyed by pts, since the watermark row serialises the producers of an
account and row ids therefore grow with pts. A transaction's writes appear at its
commit, so the actions are the points where it takes a lock another waits for,
reads what it later relies on, or commits.

| Code | Actions |
|---|---|
| watermark upsert; insert trigger of migration 0186 (shared fence, then "has the lane a head?"); commit, rollback | `Reserve`, `InsertTask`, `CommitTx`, `AbortTx` |
| `ClaimDispatchOutbox` SQL; `dispatchBatch`, `dispatchPreparedItem` | `Claim`, `Load`, `Push`, `PushFails`, `PushDeferred` |
| `MarkDelivered` (exclusive fence, then delete); `MarkFailed` | `FenceDelivered`, `MarkDelivered`, `MarkFailed` |
| process stop, failed database call | `Crash` |
| `next_attempt_at`, the lease on `updated_at`, the quarantine of poison | `TimerEnds` |
| `DeleteFailed` | `ListPoison`, `FencePoison`, `DeletePoison`, `AbortPoison` |
| `pruneConfirmedUserPrefixTx` | `LockPrune`, `FencePrune`, `DeletePrefix`, `AbortPrune` |

Time is one bit per row: `due` says that its timer ran out. An overrun lease, a
deferral (the push's deadline ran out or its context ended) and a crash (of a worker
or a janitor) are faults, counted and bounded. Which prefix all devices have
confirmed is the concern of `AccountUpdates`; here the prune takes any prefix. One
lane: lanes share no row. The division of lanes among workers only makes workers
fewer per lane, and the batch build changes no row, so both are left out. The locks of
the head and outbox rows are taken and released inside one SQL statement or its commit,
so they are part of the step; `TransactionsEnd` is about the watermark, the retention
row and the lane fence.

### AccountUpdates

Each action of a handler is one of its statements, except that `Observe` and `Probe`
join to theirs the read of the account's state before it; the log may be trimmed between
any two of them. `calls` holds a handler from the request to the commit of its
callback and the client's reading of the answer, which come in either order.

| Code | Actions |
|---|---|
| `UpdateEventStore.append`, `recordEventCore` | `Publish`, `Record` |
| retention of a confirmed prefix | `BeginPrune`, `CommitPrune`, `AbortPrune` |
| bind, revoke, `onAuthLogOut` and its second statement | `Bind`, `Revoke`, `LogOut`, `ClearAuthKey` |
| `onUpdatesGetDifference`, `updates.Service` | `AskDifference`, `Observe`, `TooLong`, `Probe`, `List`, `Recheck` |
| `onUpdatesGetState` | `AskState`, `Snapshot` |
| socket write, delivery callback | `Write`, `Commit`, `Lose` |
| the client | `Receive`, `ApplyPush`, `Restart` |

Assumptions about clients, which are not in this repository: a pushed update is
applied only when it is the next one; an answer is applied only if the client
still waits for it and still stands where it asked from; audited clients
(TDesktop and Android, the ones for which getState is a baseline) lose their cursor
on restart and begin with getState, and do not repeat it while one is in
progress; what precedes a sign-in is loaded as history. `Impatient` names what a
client may do before the server is done with an earlier request: `{}` in the runs
that hold, `{"logout"}` in the one that refutes. With two overlapping getState
requests (`"state"`) a client may adopt the older snapshot while the newer is
committed as observed; no run allows it.

### ReadModelCache

A value is the version of the row it was loaded from, so "stale" is an inequality.
`told[k]` is the version row `k` had when it was last invalidated. Each action
holds the cache's mutex once, reads the source once, or settles one flight.

| Code | Actions |
|---|---|
| writers; the listener's `Invalidate*`, `Flush` | `Commit`, `Invalidate` |
| `GetOrLoad`, `GetOrLoadVersioned`, `GetOrLoadBatch` | `Ask`, `Lookup`, `LookAgain`, `Claim`, `Load`, `LoadFails`, `Store`, `Settle`, `Await`, `Retry`, `Cancel`, `Return` |
| `LoadEpoch`, `StoreIfEpoch` | `ReadEpoch`, `Load`, `Store` |
| `Store` by a writer | `CommitThrough`, `Put` |

A call that asks for one key with `singleflight` and a batch take the same path with
different keys; `FlightKey` says which flights they may share. A load reads the
source in one step and finds every key. Left out: `Clone`, weights (every value
weighs one), and `OnStore`/`OnRemove`, which maintain an index and decide nothing.

### ChannelFanout

Memory is bounded at every level and no level may block a sender or forget a loss,
so the model is about what each level hands to the next.

| Code | Actions |
|---|---|
| a commit and its `Enqueue`: `reserveQueuedJob`, `channelFanoutShard.enqueue`, `enqueueOverflow`, `requestRecoverySweep` | `Publish`, `Reserve`, `Put`, `Spill` |
| a shard's worker: job, `overflowWake`, `retryC`, `tryQueueOverflow` | `RunJob`, `FinishJob`, `TakeWake`, `RetryFires`, `Drain` |
| a nudge worker: `nudgeJobs`, `takeNudge`, a complete or a cut-off nudge | `Receive`, `TakeNudge`, `Nudged`, `CutOff` |
| `runRecoverySweeps`, `sweepOnlineChannelRecovery`, `enqueueOverflowWait` | `CheckGeneration`, `TakeRecoveryWake`, `Snapshot`, `ReadPage`, `Admit`, `CompleteSweep`, `SweepFails`, `BackoffEnds` |
| `Run`: start, cancellation, the stop goroutine, the end | `Start`, `Cancel`, `StopEnqueues`, `End` |
| members come and go | `Connect`, `Disconnect` |

`owed[c]` is the highest pts lost while a member was online; `behind` remembers the
barrier a nudge waited for. Left out: whom a payload goes to (audience, prefetch,
builds per viewer, the cap on nudged members), jobs without a pts, and the byte
budget, which counts as the job budget does. Before `Run` has started a request
pushes by itself; only that it leaves is modelled. No property says that payloads of
a channel leave in pts order, although the comment at lines 20-23 of
`channel_fanout_dispatcher.go` argues so from the FIFO: the commit and `Enqueue` are
two steps, and two senders may take the second in the other order.

### SecretChats

A handler is a set of steps, one per query; the first is merged with its start, since
a call that the first query rejects changes nothing.

| Code | Actions |
|---|---|
| `onMessagesRequestEncryption` | `Request` |
| `onMessagesAcceptEncryption`: `GetSecretChat`, then `AcceptSecretChat` | `AcceptRead`, `AcceptWrite` |
| `onMessagesDiscardEncryption` | `DiscardRead`, `DiscardWrite` |
| `onAuthLogOut`, `DiscardForAuthKey` | `Revoke`, `ListBound`, `Cascade`, `CascadeFails` |
| `recordEncryptionEventBestEffort`; after the last event `pushUpdateEncryption`, `pushAcceptedLoserDiscarded` and the answer | `Record`, `RecordFails` (`AfterEvent`, `Push`) |
| `SendEncrypted`, `AppendEncryptedMessage` | `SendRead`, `SendLookup`, `SendAppend` |
| `encryptedDifference`, `encryptedStateUpdates`, delivery | `StartDiff`, `ReadEvent`, `Deliver`, `LoseDiff` |
| the process dies | `Crash` |

What a difference writes is read by the differences of the same device only, so
each behaviour follows one device, the `reader`, chosen at the start. `LoseDiff`
covers an answer that is lost and one that arrives but whose events are not retired.
`missed` collects the chats of which an event could not be written: best effort is
what the code promises.

A push goes out after the call's events and reaches an online device or does not; it is
part of the step of the last event, as no property asks in which order the reader hears. It
shows the chat as the call's own query returned it, where a difference projects the
event for the device that reads it. `Audience` says to whom: the accept pushes the
established chat to the inviting device only (and to the other devices of the invited
account that it is over), a request to the whole invited account, also when it is
repeated after the accept. `pushed` remembers which kinds of call pushed the reader an
established chat. Pushes that a chat is over are left out: they are best effort, and
`EndIsTold` must hold without them. Also left out are access hashes, keys, files, read
events and acknowledgements (an acknowledged message stays in the queue).

Reading the handlers step by step showed one thing that contradicts a comment, the push
of a repeated request (see Findings), and four that no property claims: a device of the
invited account whose discard was checked before another device accepted ends a chat it is
not bound to, and the winner, being of the same account, is not told; a sign-out's
list may be read before an accept that the same device began is written, which binds
the chat to a device that is gone; a message may be appended after the discard of its
chat; a device that declines an invitation does not tell the account's others.

### RpcLedger

| Code | Actions |
|---|---|
| `acquire`, `expireReceipts` on a full budget | `Acquire`, `ReapAll`, `AcquireAgain` |
| `ObserveDependency` | `Observe` |
| `subscribe` in its three forms | `SubscribeAs` |
| the worker and the owner: `CompleteExecution`, `HandOff`, `Abort` | `Run`, `CompleteExecution`, `HandOff`, `Abort` |
| the queue timeout, answered by `sendResult` | `TimeOut` |
| `Complete` before its lock, `completeOnce` | `CheckFrame`, `Publish` |
| the outbound actor's acknowledgement; `Acknowledge` | `AckFrame`, `Acknowledge` |
| the receipt's lifetime, `forgetSession` | `Expire`, `ForgetSession` |

A copy of a request is one process; it becomes the owner, joins the owner's flight, or
is settled. Each action is one critical section of the shard. `frame` stands for
the outbox: which requests have their result frame there. `ran` and `released` are
histories, emptied by what ends a claim (abort, acknowledgement, expiry). Callbacks
run in the step that removes them from the flight; in the code they run just after the lock
is gone, and their order among each other is not modelled. The reservation of a
flight that is given back because no entry is left is not seen by other shards. Left out: request
identities and layer profiles, admission numbers, abort hooks, the rewrap registry,
and completions without an owner. After an acknowledgement the ledger knows nothing
of the request: a still later duplicate would be owned anew, and what prevents that is the
connection's check of msg ids, not this component. `Abort` of a request that ran, when
its result cannot be encoded, lets a duplicate run it again, and `RunsOnce` says so.

## Runs

Alone, on two workers, each finishes within three minutes.

| Run | Instance | States | Shows |
|---|---|---|---|
| `outbox_safety` | 2 producers, 2 workers, 3 pts of which one silent, 2 attempts, 2 faults of any kind | 748 k | the type invariant; the head marker finds every task; nothing is lost; pushes come in order; the log backs every task; a running lease excludes others; the lane implements `LaneQueue` |
| `outbox_liveness` | 1 producer, 2 workers, 2 pts, 1 fault | 29 k | every task is delivered, abandoned as poison or pruned; every transaction ends |
| `outbox_deferral` | 1 worker, limit 5, 4 deferrals | | refutes a comment, see Findings |
| `account_devices` | an audited device and a fast skipper, 2 pts, pages of 1, 1 handler | 915 k | no device skips an update; no authorized device is below the floor; a device that hears answers catches up |
| `account_handlers` | 1 device, 2 handlers, 3 pts, pages of 2 | 1.24 M | the same with overlapping handlers; no dishonest "synchronised"; no watermark falls |
| `account_relogin` | 1 device that signs in before its logOut ended | | refutes a comment |
| `cache_safety` | 2 keys, 2 callers, a cache of 1 entry, 1 invalidation; single, batch and build | 933 k | the bound and the list; nothing stale resident; nothing stale answered |
| `cache_gates` | 1 key, 2 callers, versioned and bypassing, expiry, write-through | 202 k | the version gate; every call returns |
| `cache_write_through` | 1 key, 2 callers, 2 invalidations | | refutes a comment |
| `channel_fanout` | 2 channels in 1 shard, 1 nudge worker, every mailbox of 1, 2 jobs, pages of 1, 3 updates, 1 fault | 600 k | reservations are returned; what was lost is remembered; nudges stay behind earlier payloads; the sweep sleeps only on a full mailbox; who lost a payload is nudged |
| `secret_chats` | 1 chat, an inviting device, an account of two devices, 1 message id, 4 calls of which 2 at once, 1 fault | 447 k | one device is bound for good; losers are told it is over, and nothing but the push of a repeated request shows it to them established; a chat does not outlive the device that signs out; the queue is exact and is received |
| `rpc_ledger` | 3 copies of 3 requests in 2 shards, 2 entries, 2 flights, 2 callbacks | 545 k | one run per owed outcome; callbacks once, both or neither; an acknowledgement is final; counters are exact; every copy is settled |

**Why the bounds suffice.** The outbox's races are between two producers at the
empty lane, a producer and the worker that takes its last head, two workers on one
head, and either janitor with all of them. Three pts give a head, a successor and
an append; two faults give an overrun lease *and* a crash of the second worker.
The account's races need a device behind the floor, a prune, and two commits:
two pts let a snapshot and a cursor differ, three let a page end before the
log does. The cache's need a load across an invalidation and a second caller of the
same key; two keys in a cache of one make a batch evict its own keys. Batches that own
keys of each other are in `cache_safety` only: two keys with liveness are too many states,
so that such batches all return rests on `cache_gates` with its one key, where a batch
is an owner and a waiter in turn but never both at once.
The fan-out's races need a loss at each level while the level below is busy: with
mailboxes of one entry the second channel already finds them full, and three updates
are a running job, a queued one and a loss. A chat's races are between an accept and one other
call at a time, and each of the four calls may be the same handler again; the second
device of the account is followed by symmetry. The ledger's are between an owner and
two copies: one that joins, one that acknowledges, expires or reclaims; three
requests and two entries fill the budget with receipts, two flights fill the other.
What a theorem states does not depend on the bounds at all; that is
now every safety property of the six components, and the bounds matter for liveness.

`CHECK_DEADLOCK FALSE` is set for every module but the cache: once the bounded pts,
updates, calls or copies are used up and settled, nothing more happens. The cache
cannot stop, since callers ask again.

**Fairness.** *Outbox*: `runWorker`, the cleaner and `RetentionWorker.Run` loop
until shutdown, a transaction that has its locks ends, and time passes. Steps that
wait for a lock are strongly fair where others may take it again and again. No push
is assumed to succeed: a task may end as poison. *Account*: none in the
specification; `CaughtUp` says that a device which hears answers to its differences
again and again, and does not sign in for ever, catches up, so it holds whatever is scheduled.
*Cache*: the
steps of a call that has started are weakly fair, since its goroutine runs on.
Contexts need not end, and a load may fail every time. Invalidations are finitely
many in a behaviour: without that, a call may retry for as long as they come, which
is what the code does. *Fan-out*: while `Run` is up its goroutines are scheduled and
a request that committed reaches the end of `Enqueue`; the recovery actor retries a
failed sweep after its timer. *Secret chats*: a handler that was started runs to its
end unless the process dies, and a signed-in device fetches differences until nothing
is left. *Ledger*: a copy that arrived is carried on by its reader, worker or outbound
actor; a queued task may instead time out or be released.

## Theorems

TLAPS proves these for all values of the constants that satisfy the modules'
named assumptions: any number of producers, workers, callers, keys, pts, faults.

**DispatchOutboxProofs.** `IInv` is inductive. Its parts:

- `LockInv`: who holds which lock follows from where each transaction stands.
- `TxInv`: what a transaction read under its locks is still true at its commit: the
  pts it reserved is the next one, and it still knows whether the lane has a head.
  This is what the shared fence is for.
- `LogInv`: the log is the interval above the floor, and every task lies in it.
- `HeadInv`: the head marker is the oldest row and mirrors its status.
- `ItemInv`: what a worker holds was the head when it was claimed, so no queued row
  is older than it. This is why pushes come in order although leases overrun.

`PushOrder` alone is not inductive: a worker with an arbitrary claim would break
it. From `Inductive` follow `TypeCorrect`, `AlwaysDiscoverable`, `PushedInOrder`,
`LosesNothing`, `BackedByLog`. `LeasesProtect` needs `TokenInv` besides: no two
workers hold the same token for a queued row. `Refinement` maps `queue` to the
rows, `newest` to the watermark, `sent`, `dropped` to the histories and `trimmed`
to the floor; each action is one step of `LaneQueue` or a stutter.

**ReadModelCacheProofs.** The invariant (also `IInv`) says of every call where its
keys are (`Placed`), that an owner that loaded has a value for each key it owns
(`Complete`), that what it loaded is no older than its hash (`Versioned`) nor, if
the epoch has not moved since it read it, than what was told (`Fresh`); that those
who wait for one flight know no later invalidation than its owner (`Joined`,
`SameEpoch`); and of every entry that it is neither older than what was told nor
newer than its stamp allows (`Entries`). The epoch argument in one line: a value may be
stored only under the epoch read *before* its load, and every invalidation moves
the epoch, so what is stored was loaded after the last one.

`VersionHonouredHolds` is unconditional. `NoStaleResidentHolds` and
`ReadsFreshHolds` assume `Guarded`: no caller is of kind "through", that is, no
writer puts a row outside the epoch guard. Without that proviso the theorem is
false, as `cache_write_through` shows.

`ReadsFresh` has one exception, in the definition: a caller that joins a flight
whose owner has stored but not yet settled may get a value that was
invalidated in that instant. The code documents no promise for it.

`TypeCorrect` is unconditional. It rests on `Listed` (the LRU list names exactly the
resident keys, each once, and no more than `Cap`) and `Bounded` (no entry or load is
newer than its row). What is removed from the list keeps the order of what
stays: `Dropped` is defined by the ranks of the remaining positions instead of
`SelectSeq`, which is recursive and takes an operator, and the lemmas on ranks
(`Ranks`, `NthRanked`) show that it loses and repeats nothing. That the bound holds
after a batch was stored, whatever it evicts, is `KeptList`; that a hit does not
lengthen the list is `ListCounts`, a list of distinct keys being as long as their set is large.

**AccountUpdatesProofs.** The invariant is in three layers. `Ordered` says that the
log is the interval above the floor and that nobody, client, handler or pruner, knows
of more than was appended, and of every handler what it may have found at the place
it stands (`Orderly`). `TypeCorrect` and `HonestAnswerHolds` follow for every choice of
the constants: only retention can have emptied a page below the watermark, and the
handler that met it went through the recheck.

The other theorems need a proviso on the clients and are false without it.
`BaselineStands` and `NeverBackwardsHolds` assume that no client signs in over a logOut
in progress (`"logout" \notin Impatient`): then no device is both authorized and about
to be cleared, and the floor and a prune in progress are within what every authorized
device has observed (`Baseline`). `account_relogin` shows what happens otherwise.
`NoSilentGapHolds` assumes that no client repeats a getState in progress
(`"state" \notin Impatient`). `NoSilentGap` alone says nothing of answers on their way,
and one stale answer breaks it; `Covering` says of each handler what its answer rests on
(`Backed`), that a device waits for one state at most (`OneState`), and of each authorized
device that it can do without what it observed, what was pruned and what is being
pruned: it covered all of that, or has no cursor until a state arrives that is at least
as high (`Marked`).

**ChannelFanoutProofs.** All the safety properties of the run, unconditionally.
`NothingForgotten` is where the work lies: the trace of a loss moves. It begins in
the request that spilled, becomes a mailbox entry, then a queued nudge, then one that a
worker sends; and where a mailbox is full it is a generation that the recovery
actor sweeps until it has read the channel. `Owing` adds that whoever is owed something
is online and that the dispatcher is up. The rest of `IInv` is what its steps need:

- `Lanes`: the jobs of a shard are numbered as they stand in its queue and none of them
  was processed; so what a nudge waited for (`Waited`) is every payload accepted
  before the first of the losses it reports, which is `NudgeBehindPayloads`;
- `Queued`: a channel in the nudge queue is pending and stands there once;
  `Mailboxes`: a mailbox lists exactly the channels that have an entry, each once, and no
  more than its limit. Without these an entry could be taken twice or never;
- `Sweeping`: a sweep works for a generation that was announced and is not complete, so a
  loss during a sweep starts another;
- `Over`: a dispatcher that has stopped holds no reservation.

`Budget` is `BudgetExact` with what its induction needs: what is counted is finite.
It is carried by two lemmas on finite sets: an accepted job takes exactly one slot,
a processed one returns exactly one.

**SecretChatsProofs.** Unconditional too. `BoundOnceHolds` and `OnlyRepeatsLeakHolds`
rest on one argument: a chat gains ends and never loses one. Every action that writes
a row lets it `Grow`, so what a handler addresses (`Running`), what an event for a single
device was addressed to (`Log`) and what a difference has seen (`Reading`, `Remembered`)
stays right, however long it is held; what was pushed is right for good (`PushKeeps`).
`Rows` says what a row has in each state.
`QueueExactHolds` is `Queues`: the numbers of a queue are those its device's counter has
given out, a message id stands there once per chat, and every message is for an
end; an insert and its number are one transaction.

**RpcLedgerProofs.** `IInv` is the conjunction of

- `Claimed`: a flight and the copy that owns it name each other, and a request has a
  flight or a receipt, never both;
- `Noted`: what was acknowledged since it was last claimed has no receipt, and its
  flight, if it still has one, has the acknowledgement written in it;
- `Framed`: a receipt that promises a replay, or an owner that is about to leave one,
  has its frame in the outbox, or the acknowledgement that took the frame is on its
  way to the ledger or noted in the flight;
- `Remembered`: a request that ran and whose outcome is owed has a receipt, or a flight
  whose owner is past the queue.

`AckIsFinal` alone is not inductive: between `CheckFrame` and `Publish` the promise is
only in the owner's place in the code, which `Framed` says. `AckIsFinalHolds` is `Noted`
and `Framed`; `RunsOnceHolds` is `Remembered`, with `Claimed` to know that a queued
copy is the one the flight names. The three lemmas on a bystander's, an owner's
and an ending step carry the invariant; each action only shows that it is one of them.

`CalledOnceHolds` adds `Calls`: a copy that joined a flight names it (`Joined`); a
flight is not over while its owner is at work (`Open`); a callback is in the flight
exactly from its subscription to the end of what it waits for (`Installed`), and was
called once from then on (`Called`). The step that needs `Claimed` is a subscription that
finds the flight pending: only because the flight's owner is at work is it not over,
and the callback not called a second time by its end.

`BudgetExactHolds` and `TypeCorrect` add `Booked` (an entry is counted for each flight
and each receipt, what expired had a receipt) and `Retained` (a flight's slots are
the callbacks it holds, the ledger's are those of all flights). Each step is shown
to change the sets as much as the counters. Two places need more than counting: a callback about to
be retained must not be in a flight already, or its slot would be counted twice for
one member (that is `Installed`); and a receipt that is reaped, acknowledged or
forgotten with its session returns its entry once, because an expired request
still has its receipt until one of these removes it. Slots are counted as pairs of flight and
copy, so that those of all flights are the cardinality of one set. The
assumptions are finite sets of requests and copies and a `None` that is none of them.

**Only model-checked**: the liveness properties, among them `CaughtUp`,
`LostIsNudged` and `EveryCallReturns` (fairness and `ENABLED` are outside the prover). Every
safety property of a passing run has its theorem. The provisos are not for the
prover's sake: what they exclude fails. `account_relogin` shows it for `BaselineHolds`,
`cache_write_through` for `NoStaleResident`; and `NoSilentGap` fails within seconds
on `account_handlers` with an audited device and `Impatient = {"state"}`: a client
that sends getState twice may take the older answer for the later one. No run is
kept for that, since it is the client's doing and no text of the repository denies it.

## Findings

- **Deferrals escalate** (`outbox_deferral`). A push whose deadline runs out or whose
  context ends is deferred; `outbox_dispatcher.go`, which calls this a full queue, says
  that it does not count as an attempt. The claim after its lease expires does
  increment `attempts`, so after four deferrals the first recorded failure makes
  the row poison.
- **A baseline below the floor** (`account_relogin`). `update_event_retention.go`
  states an invariant of authorizations that `onAuthLogOut` breaks by clearing
  `update_states` in a later statement than the authorization. The device repairs
  itself once it sends a large enough pts; until then getDifference fails.
- **Write-through outruns the guard** (`cache_write_through`).
  `channel_row_cache.go` calls the epoch guard the only protection against
  permanent staleness; `SetAvailableReactions` puts its row with `Store`, which
  does not look at the epoch.
- **A repeated request is pushed past the accept** (`secret_chats`, the exception in
  `OnlyRepeatsLeak`). `encrypted_chats.go:62` allows an account-wide push only before
  the accept, and `encrypted_messages.go:196` says that of an established chat a device
  that is not bound hears only that it is over. But a `requestEncryption` sent again
  after the accept gets the established row (`service.go:48`), and the handler pushes
  this row to every online device of the invited account (`encrypted_chats.go:199`).
  The property states what does hold, with this push as its only exception; with
  `pushed[c] = {}` in its second conjunct TLC refutes it on the same instance in seven
  states: requested, accepted by `b2`, requested again, pushed to `b1`. In the code a
  device that was told that the chat is over may hear this push last: `EndIsTold` says that it was
  told, not that it was told last.

## Plan

The order is by what depends on the promise at the top.

1. *Done*: `LaneQueue`, `DispatchOutbox`, `AccountUpdates`, `ReadModelCache`,
   `ChannelFanout`, `SecretChats` and `RpcLedger`, and the proofs of their safety
   properties.
2. Abstract specifications of the ledger (a request is answered once per outcome owed)
   and of the account's log (a register of prefixes), and their refinement step by step.
3. `OutboundDelivery`: the delivery half of `outbound.go` (retarget against the write,
   hooks that run once) composed with `RpcLedger`, where `frame` is now one variable.
4. `Sessions`: claim of a session by a new connection, activation tokens, the pending
   queue; `PhoneCalls`: one accepting device, one end, timers racing handlers.
5. `QueueManager`: memory against bbolt across a restart. `Counters`, `LoginCodes`:
   the Redis scripts against concurrent callers and a lost key.

Each later component gets one run that checks safety and liveness at once, on the
smallest instance in which its hazards occur; the runs of proved components are then
narrowed to what the proofs leave open. Modules are written without RECURSIVE
operators so that they can be proved about.

## Not modelled

- **RPC handlers, content and profile services, domain, configuration**: decoding,
  validation, projection and one transaction per call. Their concurrency is that of
  the stores.
- **Stores**: the tables of modelled components are variables of their modules. SQL
  isolation is modelled where it matters (row locks, advisory fences,
  visibility at commit), not the database.
- **Transport, key exchange**: cryptography and framing.
- **Group calls, live streams**: a media relay.
- **Administration, CDN, one-time-password delivery, load harness, seeds, tools,
  observability**: I/O and generated data.
- **Outbound actor, session manager, phone calls, the client's queue, Redis counters
  and sign-in codes**: not yet, see the plan. Their hazards are listed in `PROJECT.json`.
- **In modelled parts**: dates and multi-pts events of the update log; what each
  module's section above leaves out; the session-activation half of the delivery plan; panics in a
  cache's loader.
