# Verification of Accumen

TLA+ modules, TLC configurations and TLAPS proofs about `accumulate-accumen`, a layer-1
sequencer in Go that orders transactions, executes wasm contracts, writes metadata and anchors
to the Accumulate network (L0), and keeps its state in a key-value store with snapshots.
Paths below are relative to the repository; line numbers are in `PROJECT.json` under `map`.

## Inventory

| Component | State | Operations | Hard behaviour | Correct when |
|---|---|---|---|---|
| Transaction pool, `sequencer/mempool.go` | a map by id, a list per sender, a list by priority, totals, a cleanup goroutine | add, remove, expire, flush, re-prioritise, top n, start, stop | three stores updated by hand; priorities computed at different times; limits counted from different stores | the stores agree, the list is sorted, limits hold, totals are right, expired transactions leave, ties keep their order |
| Block production, `sequencer/loop.go` | height, current block, counters, last anchor height, ticker | start, stop, produce a block, submit, reconfigure | a ticker loop that re-reads shared state between steps; anchors in goroutines; partial failures that are printed and ignored | headers form a chain, heights agree, a transaction runs once, blocks keep coming |
| Execution engine, `sequencer/exec.go` | its own height, worker queue, scope cache | execute a batch in order or in parallel, simulate, migrate, close | worker pool and cancellation; writes before the authority check; cached scopes | results match what was written, unauthorised output is never staged |
| Stores and snapshots, `engine/state/*.go` | memory or badger store, snapshot files | get, set, iterate; write, read, list, prune | partial files, lost flush errors, restore into a non-empty store | a complete snapshot holds a consistent chain |
| Persistent mempool, `sequencer/mempool_persist.go` | records, hash index, pending queue in badger | add, remove, replay | check and insert in separate transactions; crash | index and queue agree, replay hands out each pending transaction once |
| Output stage and submitter, `bridge/outputs/stage.go`, `submit.go` | outputs with a status, retries, dependencies, expiry; workers | stage, ready, update, fail, clean up; worker loop | several workers on one stage; expiry during a submission; Stop against workers | no output submitted twice, dependencies first, what fails is retried a bounded number of times |
| Outbox, `bridge/outputs/outbox.go`, and the submission loop of `sequencer/loop.go` | persistent queue with tries and next-try times | enqueue, dequeue ready, done, retry, clean up | crash between submission and done; lost answers | each item is delivered at least once or is permanently refused |
| Verification, limits, scopes, `bridge/outputs/verify.go`, `limits.go`, `scope.go`, `registry/authority` | counters per hour, day and block; scope versions; pause flag | check, increment, fetch, pause | check then act; read then write of versions | limits hold, versions only grow |
| Contract store, `engine/state/contracts/store.go` | modules, wasm files, version lists | save, get, version, activate, delete; deploy and upgrade over RPC | read-change-write without a lock; files shared by hash | the active version is what runs, no version is lost |
| Transaction events, `bridge/l0api/events.go` | websocket, subscriptions, channels | subscribe, wait, dispatch, reconnect | reconnects, shared channels, channels closed by another goroutine | a waiter receives its own confirmation or a timeout |
| L0 client, endpoints, DN writer, pricing | connections, retry counters, caches | submit, query, choose an endpoint, top up credits | lost answers, read then act | at-least-once submission |
| Runtime, host, gas, module cache, `engine/runtime`, `engine/gas`, `engine/host` | compiled modules, gas counter, audit | execute, meter, evict | cache at its limit, overflow | gas never exceeds its limit |
| Follower, `follower/indexer/indexer.go` | position, checkpoint, reconstructed state | scan, apply, save, stop | a position shared by two accounts; entries that fail; restarts between batch and checkpoint | what lies before the position is stored, and later entries win |
| Keystore, `internal/crypto/keystore/keystore.go`, under `accucli` | one index file | create, import, list, sign | several processes rewrite one file, which is truncated first | a stored key stays stored |
| RPC server, `internal/rpc/server.go`, `auth.go`, and the process, `cmd/accumen/main.go`, `cmd/accumen-follower/main.go` | calls under way, buckets of the rate limiter, what is open | serve, limit, clean up, shut down | cleanup between look-up and use of a bucket; stores closed under calls | no call outlives what it uses, the limit holds |
| Configuration, signers, health, metrics, logging, other commands, types, SDK, scripts | little or none | parse, print | - | - |

How they interact: an RPC or a test calls `Sequencer.SubmitTransaction`, which validates with the
engine and adds to the pool. `mainLoop` waits on a ticker; each tick runs `produceBlock`, which
reads the best transactions, executes them through the engine (which reads contracts from the
contract store and scopes from a cache), builds a header on the stored previous one, removes
the transactions from the pool, commits the height, persists the header, starts a goroutine that
anchors the header on L0, and takes a snapshot when one is due. The executed transactions' staged
outputs and metadata go to the outbox and stage, from which background workers submit to L0.
The pool's cleanup goroutine and the callers of `FlushMempool` and `UpdateConfig` run concurrently.

## Modules

* `OrderedLists.tla` - lists without repetition that index a set: removal of first matches,
  insertion, agreement with a set, and sums of sizes. Without recursion, so theorems can use it.
* `Mempool.tla` - the pool of `mempool.go`. One variable per field; every exported method holds
  the write lock throughout, so it is one action. `AddTransaction(t, m)` adds a transaction whose
  `ReceivedAt`, chosen by the caller, is `m` minutes ago. The priority is computed as in the code,
  modulo the word. `UpdatePriorities` sorts with `sort.Slice`, which is not stable: any sorted
  order may result. `RemoveTransaction` and `Cleanup` share `Evict`, because the code spells the
  same removal out twice. The cleanup routine ends when the pool is stopped or its context is done.
* `BlockProduction.tla` - `loop.go` around the pool (it extends `Mempool`), with the engine's
  height, the header keys of the store and the snapshot directory. `pc` is the step at which
  `mainLoop` stands; between two steps any other goroutine's action may happen, and the process may
  die and start again. A header is known by the run of the process and its height, which is what its
  hash distinguishes.
* `OutputSubmission.tla` - the stage of outputs and the workers that submit them. A method of the
  stage is one action; a worker reads the ready outputs, and for each marks it, submits it and
  marks the result, with the other workers, the cleanup, the callers and `Stop` in between. The
  L0 client is external: it may try several times, and an attempt that L0 accepted may look failed.
* `Delivery.tla` - what a persistent queue of submissions promises, in terms of items that are new,
  queued or settled; `Outbox` implements it.
* `Outbox.tla` - `outbox.go` and the `SubmissionLoop` of `loop.go`. Each badger transaction is a step
  whose effect survives the process; the worker takes several for an item, with the submission in
  between, and drops their errors. The process may die at any step and start again.
* `DNWriter.tla` - `dn_writer.go` on the `EventSubscriber` of `events.go`: writes with two nested
  retry loops, the one channel of confirmations that all writes share, and a connection loop for each
  write that found the subscriber disconnected. L0 may accept a submission whose answer is lost.
  `config`, chosen at the start, is what writer and client are configured with.
* `TxEvents.tla` - the `Manager` of `events.go` with the goroutines that monitor a transaction
  (`loop.go`), those that send a subscription, those that remove one 100 ms after its final status,
  and `Stop` step by step. The lock is not held while a status is put into a channel.
* `Endpoints.tla` - `RoundRobin` of `endpoints.go`: callers of `Next` that race for the index, reported
  failures, and a health checker that holds no lock while it looks and probes.
* `Pricing.tla` - the schedule cache (`schedule.go`) and the top-ups of the key page
  (`credits_manager.go`, `creditsManagementLoop`), which read it.
* `PersistentMempool.tla` - `mempool_persist.go` under the `submitTx` calls of `server.go`. Badger lets
  a transaction read one version of the store and refuses the commit of one whose reads changed.
* `ContractStore.tla` - `store.go` of the contracts, under the deploy, upgrade and activate calls of
  `server.go`, with the namespace check and the migration of `exec.go`. Every access to the store or
  to a file is a step; writing a file is two, because it is truncated first.
* `BlockRoots.tla` - sorting, Merkle root, proof and verification of `receipt.go`, as recursive
  functions; a hash of two nodes is the pair of them.
* `Execution.tla` - the engine's batch with its workers (`exec.go`), a run in the wasm runtime
  (`runtime.go`, `cache.go`, `host_bindings.go`, `abi.go`), the gas meter, queries, simulations,
  cancellation and `Close`. `pool` is the set of workers the engine was made with, none for an
  engine that executes in the loop.
* `ScopeGate.tla` - the pause of a contract: the scope on the directory network (`scope.go`), the
  `ScopeCache` and the checks of `executeSingleTransaction`.
* `Indexer.tla` - the scan of `indexer.go` step by step, over errors, `Stop` beside a scan, and
  restarts. The accounts are external; a key is a number that grows over both.
* `Keystore.tla` - `keystore.go` under the commands of `accucli`, each a process of its own that reads
  the index, changes it in memory and writes all of it back; the write is two steps.
* `Node.tla` - `runSequencer` and `runFollower` with what they open and close, and the way of a call
  through the middleware of `auth.go` and `handleRequest`. A handler is known by the parts it uses;
  what it does to them is in the modules of the parts.
* `OrderedListProofs.tla` - lemmas; `MempoolProofs.tla`, `BlockProductionProofs.tla`,
  `OutputSubmissionProofs.tla`, `OutboxProofs.tla`, `StorageProofs.tla` - the theorems about the
  module each is named after (those of `Sequencer` are in `BlockProductionProofs`);
  `ExecutionProofs.tla` - those about `ScopeGate`, `Execution`, `TxEvents` and `Contracts`;
  `L0Proofs.tla` - those about `DNWriter`, `Endpoints`, `Pricing` and `Bridge` (see Proofs).
* `Maps.tla` - the assignment to a key of a Go map, and a map put over another.
* `MCBlockProduction.tla`, `MCOutputSubmission.tla` - the instances of the violation runs about blocks
  and the submission of outputs.
* `Sequencer.tla`, `Bridge.tla`, `Storage.tla`, `Contracts.tla` - each puts several components side
  by side: the pool under every sequence of calls and block production on the pool; the outbox, the
  stage of outputs and the other traffic with L0; what is stored; execution. `MCSequencer.tla`,
  `MCDelivery.tla`, `MCStorage.tla` and `MCExecution.tla` only give them their constants, so that
  the theorems on them hold for any. The variable `part` says which instance a behaviour is about,
  the variables of the others keep their initial values, and a property says of each instance what
  its module says. This is one run per group of components, not a composition of processes: the
  states add up and do not multiply. Some modules of a group (`BlockProduction` with `Mempool`,
  `Outbox` and `OutputSubmission`, `PersistentMempool`, `ScopeGate`) are extended, so that their
  properties are checked under their own names; the others are instances. The fairness of a module
  is restated there for the instances it applies to, and so are the assumptions on the constants,
  which the small modules state as the operators `OutboxAssumption` and the like;
  `BridgeAssumption`, `StorageAssumption` and `ContractsAssumption` are their conjunctions. The type
  invariants of a group are checked together, as `DeliveryTypeOK`, `StorageTypeOK` and
  `ExecutionTypeOK`.

Abstractions worth knowing. An execution of a transaction is counted, not carried out: its result
does not matter to block production, which removes failed transactions too. Executions of a batch
are in batch order; with the worker pool they may be in any order, which the count does not
distinguish. The state, transaction and result roots of a header are data; only the link to the
previous header is kept. The bridge is enabled. In `BlockProduction` the ages in the pool do not
advance: a transaction is fresh or expired when submitted, which is enough to let the cleanup take
it at any step; `UpdatePriorities` has no caller in the repository and is not an action there.
`Stop` is what it does to the pool and the loop, and `LoopExits` takes the loop out through
`stopChan` or a context that is done; the closing of submitter, events manager, writer and engine is
left out. `main.go` does not pass a snapshot manager to the sequencer and `state.KVStore` lacks the
`Iterate` that `snapshot.go` calls on it: the snapshot part is modelled as `loop.go` and
`snapshot.go` are written. `runs` counts executions up to 2, which stands for more. In
`OutputSubmission` the times of a staged output are not kept: only the cleanup reads them and the
caller chooses `ExpiresAt`, so the cleanup may find any output expired. Nothing in the repository
calls `StageOutput` yet, so its callers are any callers: they stage, set dependencies and remove at
any time. Each output is handled by its ID, which is never reused.

Where the code does not compile, the model takes what its callers mean: three variants of the
key-value interface, the import of a `limits` package that is not there, `TryConsume` and
`host.API`. `NewSequencer` fills the events manager's configuration with field names it does not
have; values like the defaults are assumed.

In `Outbox`, `submitEnvelope` is a placeholder that succeeds, or fails when its context is done
before it has sent anything: a submission never fails there although L0 took the item, which happens
in `OutputSubmission` and `DNWriter` only. `isPermanentError` is always false. In `DNWriter` a
confirmation that is still pending leaves the channel as it was, or ends the wait of its write like
a timeout. A panic is a step of `DNWriter`, `TxEvents` and `Execution` (`crashed`, `panicked`),
after which nothing is claimed: `handleConnection` on a connection that `Stop` or `Close` set to
nil, a status put into a closed channel, the first eviction of the module cache, a block begun after
`Close`. Two goroutines that write on one websocket at a time are not told apart from two that write
one after the other. In `TxEvents` a monitor waits for the status "confirmed" while the manager
sends "executed", so it ends only by its timer of 30 s. In `Execution` the module that holds the
host functions has one name, and the shared runtime instantiates it once: only the first execution
on it takes effect, later ones fail. Staged operations are always refused: `VerifyAllWithBinding`
calls `Verify` for each, whose switch has no case for the names the host functions give
(`verifyOperationBinding`, which has, comes after it). A simulation always finds no module loaded.
The writes of a run that fails, times out or is refused stay in the store. In `ScopeGate` an absent
or expired scope counts as not paused, as in the code, and the answer of the directory network is at
most `MaxDelay` old. In `ContractStore` a migration waits for a lock that its own call holds, for
ever, after a snapshot of the contract's state that is one step because the engine is locked;
`SaveVersion` on the memory backend always fails. In `PersistentMempool` `Next` and `Remove` have no
caller, and the replay only logs.

`audit.go` accepts imports of the namespace "accumen" only, while the runtime registers the host
functions under "accuwasm_host" (`runtime.go`): as the code stands, a contract that passes the audit
cannot call the host, and one that can is refused. `Execution` takes the two names as one, because
otherwise no contract would ever read or write, and takes the verdict of the audit as given.

In `Indexer` the listing of an account, a placeholder that returns no entries, is taken as what its
callers expect: the next entries above a key, in order. The indexer looks for memos that begin with
"crosslink:" or "l1:", while `accutil.WithCrossLink` writes "L1:" and a short hash: the constant field
`linked` says which entries it recognises. An entry that fails is not tried again, a batch without
linked entries does not move the position, and when both accounts have entries the anchors' key
replaces the other: `missed` records what is skipped so. In `Keystore` no key is ever decrypted:
`decryptKey` compares five characters with "plain" and "aes:", and keys are stored with the four of
"aes:"; `Sign` therefore signs nothing. In `Node` the commands call `NewServer` without its
configuration and `Start` with an argument it does not have; the model takes them as meant. The
store that the RPC server reads is not the one the sequencer's engine writes, which does not matter
to what is open. When the persistent mempool cannot be opened, `runSequencer` returns without
stopping the sequencer. A handler that waits for a lock a migration keeps stays until the process is killed.

## Runs

| Run | Bounds | Shows |
|---|---|---|
| `sequencer` | pool: five transactions of two senders, four additions, a pool of three, two per sender, ages 0 to 2 with TTL 1, word 16; blocks: two of the transactions, of one sender, two additions and two heights in each of two runs of the process, one storage failure, snapshot and anchor at every height, one snapshot retained, both backends | the invariants of the pool, `NoOvertaking`, `ExpiredAreRemoved`; chain, heights, executions, anchors, snapshots, progress |
| `height_regression` | blocks as above | `HeightNeverGoesBack` fails |
| `retiming` | as above, with fairness | `RetimingKeepsBlocks` fails |
| `partial_snapshot` | as above | `NoPartialSnapshotLeft` fails |
| `double_submission` | two workers, two outputs that may depend on each other, two tries, batches of one | `NoDoubleSubmission` fails |
| `stop_waits` | as above | `StopWaitsForWorkers` fails |
| `delivery` | outbox: two items, one malformed, given up after one failure, three tries, two runs of the process, one storage error; outputs: two workers, two tries, batches of one, two outputs that may depend on each other, or one with stop and cancellation; writes: two on one connection, one over two connections, one that may be submitted four times, each loop with one retry; endpoints: two, with one caller and a change, or two callers and no change; pricing: TTL 2, target 3, two top-ups | `ImplementsDelivery`, `ItemsSettle`, `NoOrphan`, `DeliveredInOrder`, `OutputsSettle`, `SuccessIsFinal`, `WritesReturn`, `NextPrefersHealthy`, `RecoveredIsHealthy`, `ToppedUp` |
| `storage` | mempool: three callers, three transactions, one of them forbidden, four sequence numbers, a restart; contracts: two requests, two addresses, two codes, three calls, two versions, one storage error, one restart, both backends; roots: five results; indexer: three entries of four kinds in two accounts, batches of two for each, a save after every second entry, one storage error, two restarts, both backends; keystore: two processes, two names, four commands, one failed write; node: two connections, either two calls of all kinds without a limit, or three status calls of two clients with a bucket of one, a second and a cleanup | `AcceptedIsQueued`, `DeployedLoads`, `PairedAreAccepted`, `PositionCovers`, `KeysSurvive`, `StoresOutliveRequests`, `RateHolds` |
| `execution` | runs: three codes, one of them unfit, and a cache of one module; no pool, or two workers, with one block of up to two transactions, a query and, without a pool, a simulation; one worker with two blocks of up to three and transactions that call the host twice; scopes: two checkers, TTL 2, delay 1; events: one connection with more events than the channel takes, and two connections with fewer | `ResultsAreFinal`, `BlocksReturn`, `PauseHolds`, `SubscriptionsHold` |
| `inclusion` | up to five results | `IncludedAreAccepted` fails |
| `atomic_updates` | one worker, one block of one transaction, a query | `AtomicUpdates` fails |
| `resubscription` | one write, one connection | `Resubscribed` fails |

Why the bounds are enough. In the pool: a full account, a full pool, a tie, a cheap
transaction that overtakes with age, and a price whose product overflows all occur, and four
additions leave room for one after a removal. In block production: the second height has a
predecessor, the second run of the process finds the headers and snapshots of the first, the
single failure can hit any storage operation, and one retained snapshot makes pruning happen.
In the submission of outputs: two workers hold the same output, the second after the first has
finished with it, both orders of dependency and a cycle occur, a batch is smaller than what is
ready, and the retry count goes past `MaxOutputRetries` by the one that `SubmissionTypeOK` allows; stop and
cancellation meet one output in every status, with both workers at it.
`MaxOutputs`, `MaxAdds`, `MaxAge`, `MaxHeight`, `MaxBoots`, `MaxFailures`, `BlockTxs` and `MaxBlockAdds` are
the bounds; the rest of the CONSTANTS are the configuration of the program. `ScopedBlocks` keeps block
production to `BlockTxs`, to `MaxBlockAdds` additions, and to a cleanup routine that leaves after
`mainLoop`, since a pool without one behaves like one whose ticks find nothing; `ScopedOutputs`,
`ScopedWrites` and `ScopedCalls` say what the instances named in the table take of their component.
Deadlock is not checked in block production because the process may stop for good: a truncated latest
snapshot keeps it from starting, and the bounds are reached; in the submission, once its workers have
left; and in the other runs because calls, dials, commands and starts are bounded, a process may have
died or ended, and a migration never returns.

In `delivery`: a failed item is retried, given up and cleaned up, an item is submitted and not
marked before a death, the second write finds the confirmation of the first in the channel of one
place, a submission accepted with its answer lost is repeated by both loops, both endpoints are in
backoff at once. A panic of two connection loops on one connection needs two writes and two
connections, and these instances have only one of the two. In `storage`: three adders of one
transaction read the same index, two deploys of an address and of one code at two addresses overlap,
a file is found truncated. Five leaves give a leaf that is promoted twice and a level that is even
after one that is odd. A batch of the indexer leaves the third entry for the next scan, the anchor's
key jumps over metadata, a restart comes before and after a save, and a second one in the middle of
a replay. One command finds the file another has truncated, or writes the index it has read before.
A call that has looked up its bucket is still there when the bucket is removed, replaced and
refilled, and calls of each kind are under way when the signal comes. In `execution`: the block
fills the queue of the worker (twice their number), both workers finish out of order and after the
block has timed out, the sum of the gas wraps (`GasModulus` 10000 for 2^64), the second code evicts
the first. In `ScopeGate` a pause older than `Ttl` + `MaxDelay` counts as that old. The bounds are
those named "bound" where the constants are declared; the rest is configuration.

Fairness. `Mempool`: `cleanupRoutine` is a goroutine on a one-minute ticker, so `Cleanup` is weakly
fair (`PoolFairness`). Nothing is fair about callers. `BlockProduction`: `mainLoop` is one goroutine on a
ticker, so the steps of `produceBlock` together are weakly fair; nothing else is, its end (`LoopExits`)
neither. `OutputSubmission`: each worker is a goroutine on a ticker whose
submissions end by `SubmissionTimeout`, and `Stop` ends by its timer. `Outbox`: the worker and the
passing of time. `DNWriter`: a write that has begun, whose calls of L0 and whose wait have
timeouts; the connection loops need no fairness. `Endpoints`: the checker, a call of `Next` and the
time. `Pricing`: strong for the credit loop and the users of the schedule, whose mutex goes to each
waiter in turn, and weak for L0, which executes a top-up it has. `Execution`: the producer, the
workers and the runs, which assumes that contracts terminate (gas, or the trap) and that the
directory network answers: `FetchFromDN` of a worker has no timeout. `ScopeGate`, `TxEvents`, and
the modules of `storage`: safety only. `BlocksAreProduced` excludes a run that dies or stops, a storage
operation that fails, a ticker that was replaced, and the bound on heights.

What the properties are about. `ChainIntact`: the header of the previous height is read from a
store in which an earlier run of the process, or a snapshot, left headers of the same heights;
each block of this run still links to the one below it. `NoHeaderGap`: a header that could not
be persisted is only printed, and yet no header is stored above a missing one (badger refuses
to build the next block; the memory store does not fail). `HeightsAgree`: engine, sequencer and
block count agree between blocks. `RunsAtMostOnce`: expiry, flushes and resubmissions during a
block do not make a transaction run again. `AnchorNotAhead`: anchors complete out of order, and
the metrics subtract their height from the block height as unsigned numbers. `SnapshotsHoldChain`:
a complete snapshot of height h holds the chain up to h. After a failed storage operation the
chain, the heights and the executions are not claimed: when a header is lost with badger, each
later tick executes its batch, fails to build and leaves the transactions in the pool.

Of the submission: `NoOrphan` (a status `submitting` always has a worker behind it, although workers
overwrite each other's status), `DeliveredInOrder` (what is shown as submitted was accepted, and a
dependency that expires or is removed is never taken for submitted) and `OutputsSettle`;
`SubmissionTypeOK` bounds the retries, of which workers that hold the same output each count one.
`DeliveredInOrder` speaks of the dependencies set before a worker took the output: `StageOutput`
makes an output ready at once, so a dependency set afterwards may come too late.

Of what goes to L0: `ImplementsDelivery` (no item leaves the outbox undelivered but a malformed or
given-up one, whatever dies, fails or is cleaned up), `ItemsSettle` (in a process that stays alive
the outbox empties: a failing item or a lost mark does not block the others), `SuccessIsFinal` (a
write that reports success was accepted and executed, although every waiter takes confirmations
from one channel), `WritesReturn`, `NextPrefersHealthy` (races for the index do not hide a healthy
endpoint), `RecoveredIsHealthy` (no stale answer of a probe takes an endpoint out for good),
`ToppedUp` (a page
short of its target gets there although top-ups are computed from stale balances; it may get more,
since one that waits in the outbox is not counted and `minBuffer` is not looked at).

Of what is stored: `AcceptedIsQueued` (two calls never share a number, and the index never leads
to another call's transaction; the same transaction may be queued twice, the first entry being an
orphan of the index), `DeployedLoads` (bytes are stored before the record that names them, so a
record loads, whatever failed half-way; two addresses with the same code share a file, and while
one is deployed again the other may find it truncated, which is left out of the property), and
`PairedAreAccepted` (a proof of inclusion is accepted for nothing but members of the block, and for each of
them that has a partner at every level of the tree; no member can be left out without changing the root).
The others, promoted at some level, are refused, against the comment of `VerifyTxInclusion`:
`IncludedAreAccepted` fails.

Of the follower, the keys and the process: `PositionCovers` (a linked entry before the position, in
memory or saved, is stored unless it failed or was jumped over, and once a replay after a restart has
caught up the state is again what the last entry wrote; a start whose read of the position fails begins
at the first entry, and when the next start reads the higher position that was saved before, the
entries in between are not applied again: they count as jumped over, and a slot may keep what an
older entry wrote), `KeysSurvive` (a key reported as stored stays
in every index that can be read, unless another command was writing at the same time; a file cut
short is never taken for an empty keystore), `StoresOutliveRequests` (a handler at work finds what it
uses open, unless Shutdown has given up on it), and `RateHolds` (calls at the same time and a cleanup
between look-up and use give a client no second bucket; the cleanup itself gives it a new one by
removing the exhausted ones, against its comment).

Of execution: `ResultsAreFinal` (only transactions write, a success has run to its end, a failure is
final, and only a cancelled block leaves runs behind that may still write; it does not say that a
failure wrote nothing, for which `AtomicUpdates` fails), `BlocksReturn`, `PauseHolds` (a
paused contract passes a check for at most the life of a cache entry and the age of an answer),
`SubscriptionsHold` (no channel is closed twice, and after a reconnection every subscription gets on
the new connection).

Two of the hazards listed are outside every property. The gas meter adds without regard to overflow:
a contract that consumes an amount that wraps goes on beyond its limit. The wrap is in the model, so
that the other properties are checked with it, but that a run stays within its limit is false and
not claimed, and the type of the counter does not tell. A migration waits for itself, always. And the
panics (the first eviction of the module cache, a block begun after `Close`, a status put into a closed
channel) are steps after which nothing is claimed, so that the properties of execution and events hold of
processes that did not panic.

Eight statements of the repository that the code does not keep are violation runs, explained
under `findings`: the height after a restore, a changed block time, the partial snapshot, an
output submitted by two workers, the `Stop` that no worker can end, a result that is in the block and whose
proof is refused, the changes of the state that a failed transaction leaves behind, and the subscriptions
that are not sent again on a new connection.

## Proofs

Every theorem holds for every value of the constants that satisfies the assumptions its module
states: `Mempool` and `BlockProduction` in `ASSUME`s, which their runs evaluate, the others in an
operator such as `OutboxAssumption`, which is the hypothesis of the theorem and an `ASSUME` of the
MC module that gives the constants their values. The assumptions are types, finiteness, and limits
that are natural numbers (positive where the code divides by them or its defaults are). The bounds
of the runs (`MaxHeight`, `MaxBoots`, `MaxDials` and the like) are arbitrary in the theorems.

Each component has an inductive invariant (`IInv`, or one named for the component where a module is about
several), one lemma for each action or group of actions that change the same variables, and theorems
that follow from the invariant. TLC found each to hold on
the instances of the runs before it was proved.

| Module | Proved | What makes it inductive |
|---|---|---|
| `MempoolProofs` | `PoolTypeOK`, `IndexesAgree`, `SortedByPriority`, `WithinCapacity`, `MetricsAgree`, and `NoOvertaking` of every step | `PooledAreValid` |
| `BlockProductionProofs` | `TypeOK`, `ChainIntact`, `NoHeaderGap`, `HeightsAgree`, `AnchorNotAhead`, `SnapshotsHoldChain`, `RunsAtMostOnce` | heights, headers and runs at every `pc`, and what is left of them after a failure |
| | all of them and those of the pool in `Sequencer`, `NoOvertaking` too | the invariants above |
| `OutputSubmissionProofs` | `SubmissionTypeOK`, `NoOrphan`, `DeliveredInOrder` | what each worker has read and not finished, `Counted` and `Tallied` |
| `OutboxProofs` | `TypeOK`, and that `Outbox` implements `Delivery` | `MarksJustified` |
| `StorageProofs` | persistent mempool: `TypeOK`, `AcceptedIsQueued`, and `ReplayIsComplete` of every step | `Indexed`, and what a call of `Add` has read |
| | keystore: `KeysSurvive` | `SoundCommand`: what a command under way carries |
| | process: `StoresOutliveRequests`, `RateHolds` | `ServesOpen`; `OwnBuckets`, `RateCounted` |
| | indexer: `PositionCovers` | `Covered`, `InOrder`, `Latest`, `Storing` |
| | contract store: `DeployedLoads` | `FilesFound`, `KeysFound`, `CopyHeld` |
| | roots of a block: `PairedAreAccepted`, `PromotedAreRefused` | none: theorems about every block |
| | the types of all six parts, `StorageTypeOK` | the invariants above |
| `ExecutionProofs` | pause: `TypeOK`, `PauseHolds` | `EntryAges`, `AnswersAge` |
| | events: `TypeOK`, `SubscriptionsHold`, and `ClosedIsFinal` of every step | `OwnChannels`, `Sending` |
| | engine: `TypeOK`, `ResultsAreFinal`, and `ResultsStay` of every step | `HandedOnce`, `HandedOut`, `Answered`, `Collected` |
| | all of them in `Contracts`: `ExecutionTypeOK`, `ResultsAreFinal`, `PauseHolds`, `SubscriptionsHold` | the invariants above |
| `L0Proofs` | writes: `TypeOK`, `SuccessIsFinal` | `Confirmations`, `Counts`, `Budget` |
| | endpoints: `TypeOK`, `NextPrefersHealthy` | `HealthCounted`, `Started` |
| | top-ups: `TypeOK` | `TypeOK` itself |
| | all of them in `Bridge`: `DeliveryTypeOK`, `NoOrphan`, `DeliveredInOrder`, `SuccessIsFinal`, `NextPrefersHealthy`, `ImplementsDelivery` | the invariants above |

**The pool.** A pooled transaction passed validation (`PooledAreValid`), so its size is at most `MaxTxSize`,
which is what makes `SizeOf` of disjoint sets add up, and its priority was computed by a division that
is defined. That an insertion keeps the order needs that the list holds only pooled transactions
(`IndexesAgree`), else a priority reset by an eviction could belong to a listed one. `WithinCapacity` for
an account needs that the length of the list, which `checkLimits` compares, is the number of its transactions.

**Block production** works on the pool's invariant, `PoolInv`. `HeightsInStep` says for each `pc`
how far engine, sequencer, the header under way and the anchors are apart; `HeadersInStep` which
headers the store must hold for the header under way; `UntilFailure` that, as long as the storage
has not failed, the persisted blocks are a chain, whatever lies above them. `NoHeaderGap` is claimed
after failures too, and is inductive only because badger refuses to build on a missing header and
the memory store does not fail. Files of snapshots carry the chain (`SoundFiles`), so that a restore
brings it back. A second invariant, `RInv`, adds the pool (`PoolInStep`), the batch (`BatchInStep`)
and, for `RunsAtMostOnce`, `RunsInStep`: a pooled transaction that has run is in the part of the
batch that is yet to be removed from the pool, and one still to run has not run since the pool
accepted it.

**Submission of outputs.** `NoOrphan` alone is not inductive: a worker's mark may overwrite the
status another has set. `Counted` says that the retries counted and those that workers holding the
output may still count stay together within the bound of `SubmissionTypeOK`, for which a worker must
hold an output once (`HeldOnce`) and only an output with a try left may wait (`Tallied`). For
`DeliveredInOrder`, `DependenciesSeen` keeps what a worker found when it read the output ready.

**The outbox** maps to `Delivery` by the mapping in `Outbox`. A step that stores or removes an item
is a step of `Delivery`, every other one a stutter. Only `MarkDone` and `MarkRetry` need an
invariant: `MarksJustified`, that an item about to be marked done was sent to L0 and one about to be
refused for good is malformed, although submission and mark are steps apart. Deaths and storage
errors map to stutters because what is stored does not change.

**The persistent mempool.** Badger refuses the commit of an `Add` that has read a key since written, so what a
pending call has read still holds when it commits (`SoundCalls`, `Indexed`). Then the number it takes is
unused, and the index leads to an entry of its own transaction. `ReplayIsComplete` follows from
the index and from the order of the list that `Queue` builds (`Ascending`, in `OrderedListProofs`): what a
restart replays is every accepted transaction, in the order of their numbers, whatever calls the death
cut off. No run lists this property; TLC finds it to hold when it is added to `MCStorage.cfg`.

**The keystore.** A command writes back the copy of the index it read when it began, so that the file
holds what was reported is not inductive: each command that may still write must carry in its copy every
key reported since, but for those reported while it held the copy (`Carries`, `SoundCommand`). A file
that is cut short says nothing about the keys until it is written again, and is then written from such a copy.

**The process.** `ServesOpen` says for each step of the process what is open, and that a handler runs
only while the server is up or drains, unless `Shutdown` gave up. For the rate, `RateCounted` counts for a
client the calls let through, the tokens it can still get (those of its bucket, or a full one if the
cleanup has removed it) and the calls under way that hold a bucket no longer in the map
(`Stale`): together they stay within the burst, what was refilled and the calls that held a removed bucket.
That tokens of one client are not taken by another is `OwnBuckets`.

**The indexer.** `Covered` says that what is up to the position in memory or saved is stored or
missed, and what a scan has collected is that or in its batch. That a slot holds what its last entry
wrote (`Latest`) is kept while a scan applies because a batch is applied in the order of the keys
(`InOrder`), although it may replay what was stored, and because the events of an entry come before
its record (`Storing`). The assumption that anchors carry no events is what `processEntry` does with
them.

**The contract store.** A name of a file tells the module it holds (`FileNames`), so one that is written
again gets the same bytes; until then it is `rewritten`. With badger every record, in the store and in the
copy for a roll-back, finds its bytes, as does every call about to store one (`FilesFound`); in memory
the record comes first, and whoever stored it is still there to put the bytes (`KeysFound`). A
roll-back finds its copy because it holds the engine (`CopyHeld`).

**The roots of a block.** The loops that build the levels of the tree, collect the path of a leaf
and verify it are recursive functions. That each of them exists is `LoopExists`, from which
`LevelsStep`, `PathStep` and `ClimbStep` unfold it once; a statement about all levels is proved by
taking the least level at which it fails. No induction over the nodes is needed for the uniqueness
of the root: a set of nodes that is closed under taking the two halves of a pair has a function that
tells the leaves under each node (`Halves`, `BlockShares`), and nodes that tell different leaves
differ, so that a block and the same block without one of its results have different roots
(`RootTells`, `RootsDiffer`). The climb of `verifyMerkleProof` keeps in step with the levels while
the path has a partner at each (`Fits`, `PairedTurn`). A promotion it does not notice (`AloneTurn`):
it has the last node of a level, under an even index, and puts the next partner on its wrong side.
From there on its hash is not that of the path (`Astray`), so that the proof is refused:
`PromotedAreRefused` says this of every promoted result of every block, and is the extent of what
the run `inclusion` finds at three. The pair of two nodes stands for their hash, so the theorem
leaves collisions of SHA-256 out.

**The pause.** `EntryAges` bounds the time since the pause by the age of the cached entry plus the
delay of the answer it was made from, and `AnswersAge` the same for each answer under way, which may be
stored late and over a newer one.

**The engine.** That a result "failed" is final is not inductive: another actor might have the same
job still to run. A job is in one place, a slot of the queue or an actor (`HandedOnce`), and what is
under way is of an earlier block, or of this one as far as the loop has got (`HandedOut`); so the
answer to a job is its last word (`Answered`) wherever the block stands, and the results up to
`next` have been collected (`Collected`). That only transactions write follows from the host module,
which only its own mode can use (`OwnHost`). A worker outside `pool` does nothing, so that the
argument is one for engines with any number of workers and with none. `ResultsStay` is about a step:
while its block is under way a result that was collected, which a late answer of a worker or of a
timed out transaction could reach, is not written again.

**The transaction events.** A final status closes the channel of a subscription that another call of
`Subscribe` may have put there meanwhile; that it is open, and that of the same transaction, is
`OwnChannels`. After a reconnection each subscription is on the connection, or a goroutine has it to
send which has yet to read the connection or has read this one (`Sending`); one that read an older
connection does not count. `ClosedIsFinal` says of every step that a closed channel takes no more
statuses and does not return to the map. The loop picks the channel under the lock and sends after
it has released it, so this is where a panic would otherwise come from: it is the step of
`DeliverStatus` that finds the channel closed.

**The endpoints.** `Next` may look twice at one endpoint and miss the healthy one. Then it takes one with the
fewest failures, and since health and count say the same (`HealthCounted`), it is unhealthy only if all are.
Between the choice and the return the pool cannot change, because writers wait for the lock; backoffs
only run down. `Started` is needed because `Start` fills the pool without looking at the calls.

**The writes.** What is in the channel is a member of `Confirmations`: the outcome of the
transaction it names, which L0 does not change. A write that reads the confirmation of another drops
it, and one that reads its own reads the truth. `Counts` makes each return be counted once; `Budget`
says that every attempt which is over has used all tries of the client, from which the bound on the
submissions follows: it is that of the configuration the writer was made with, whatever it is.

**The groups.** In `Sequencer`, `Bridge`, `Storage` and `Contracts` a step of one component leaves
the variables of the others alone, so that their invariants stay; the bounds of the instances
(`ScopedWrites`, `ScopedBlocks` and the like) only take behaviours away. With this, each invariant
of a run is stated by a theorem about the specification the run checks, for all values of its
constants.

`OrderedListProofs` holds the lemmas on lists and sums that the others cite: where `Insert` puts the new
element and that it keeps each pair of the others in order (`InsertProperties`), what `Insert`, `Without`,
`Append` and a permutation do to a list that lists a set, `Ascending` of a finite set, and that `Weight`
of disjoint sets adds up.

Only model-checked: liveness (`ExpiredAreRemoved`, `BlocksAreProduced`, `OutputsSettle`,
`ItemsSettle`, `WritesReturn`, `RecoveredIsHealthy`, `ToppedUp`, `BlocksReturn`), which the prover
cannot treat. The property of `Pricing` is liveness, so only its types are proved.

## Plan

Done: every component with state of its own has a module, and every invariant and step property the
runs check has its proof. Left: `BlockProduction` with the closing of the submitter, the
events manager, the writer and the engine in `Stop`.

## Not modelled

* Code without a caller: in `verify.go`, `limits.go`, `scope.go` and `binding.go` the `Verifier`, the
  `OperationCounter`, the `Scope` type, `Limits.ValidateOutput`, `VerifyAuthority`, `VerifyBindingOnly`;
  `ValidateTransaction`, `StagedOp.Validate` and `processStagedOperations`; the first variant of the
  host bindings (`host_bindings.go` 21-689), `LoadModule` and the L0 functions of `abi.go`; the storing
  of receipts, `VerifyTxInclusion` outside `BlockRoots`, and `DeleteModule`. A model of it would have to
  invent its callers.
* Data: URLs and their matching, the building, signing and encoding of envelopes and metadata, the
  audit of wasm code (a parser, whose verdict is the constant `Unfit`), the conversion of gas to
  credits in floating point.
* The wasm interpreter, badger, gorilla websockets, L0 and the directory network are external: what
  the modules assume of them is marked as external in `map` or stated in the module's comment.
* Of the follower: the writes of L0 outputs, under keys nothing reads, the look-ups and `Reset`.
* Of the keystore: `Export`, `Delete`, `ChangePassword`, `Backup` and `Restore`, which have no caller.
* Configuration, signers, health, metrics, logging, types, scripts, the Rust SDK, and the commands
  that make one call and print the answer: parsing, cryptography, output, without protocol state.
* What the reading RPC methods answer, the counters of the server, `UpdateKeys` and `UpdateOrigins`.
