-------------------------- MODULE BlockProduction --------------------------
(***************************************************************************)
(* The block production of the sequencer (sequencer/loop.go) with the      *)
(* engine's height (sequencer/exec.go), the headers in the key-value store *)
(* and the snapshots (SnapshotManager, engine/state/snapshot.go), around   *)
(* the pool of module Mempool.                                             *)
(*                                                                         *)
(* One goroutine, mainLoop, runs produceBlock from tick to tick; `pc` is   *)
(* where it stands.  Between its steps clients submit, the pool is cleaned *)
(* or flushed, the configuration changes, anchors of earlier blocks        *)
(* complete, and the process may die.  What survives a death is the        *)
(* snapshot directory and, with the badger backend, the key-value store.   *)
(* The engine and the snapshot manager are given the same store.           *)
(***************************************************************************)
EXTENDS Mempool

CONSTANTS
  BlockGasLimit,     \* the limit of the engine's gas meter
  MaxTransactions,   \* Config.MaxTransactions
  AnchorInterval,    \* Sequencer.anchorInterval
  EveryN,            \* config.Snapshots, as Retain; 0 turns each off
  Retain,
  Backends,          \* config.Storage.Backend: "memory" or "badger"
  MaxHeight,         \* bound: heights of one run of the process
  MaxBoots,          \* bound: runs of the process
  MaxFailures        \* bound: failing reads and writes of the storage

ASSUME ProductionAssumption ==
  /\ {BlockGasLimit, MaxTransactions, AnchorInterval} \subseteq Nat \ {0}
  /\ {EveryN, Retain, MaxHeight, MaxBoots, MaxFailures} \subseteq Nat
  /\ Backends # {}
  /\ Backends \subseteq {"memory", "badger"}

VARIABLES
  backend,
  boot,             \* how many times the process has been started
  pc,               \* where mainLoop stands
  batch,            \* the transactions of the block being produced
  done,             \* how many of them the current phase has handled
  header,           \* its formal header, once built
  engineHeight,     \* ExecutionEngine.currentHeight
  blockHeight,      \* Sequencer.blockHeight
  blocksProduced,
  headers,          \* "/block/header/<height>" in the store
  snaps,            \* the snapshot files, oldest first
  anchoring,        \* heights whose anchor goroutine runs
  lastAnchorHeight,
  stale,            \* mainLoop waits on a ticker that UpdateConfig stopped
  failures,         \* failing storage operations so far
  runs              \* executions of a transaction since it was last accepted

blockVars == <<batch, done, header>>
heightVars == <<engineHeight, blockHeight, blocksProduced>>
anchorVars == <<anchoring, lastAnchorHeight>>
vars == <<poolVars, backend, boot, pc, blockVars, heightVars, headers, snaps,
          anchorVars, stale, failures, runs>>

\* A header is known by the run of the process that built it and its height;
\* prev is the identity whose hash it carries.
Id(h) == <<h.boot, h.height>>
Genesis == <<0, 0>>      \* 32 zero bytes
Unset == <<0, 1>>        \* the hash of a header without fields
NoHeader == [boot |-> 0, height |-> 0, prev |-> Genesis]

Phases == {"down", "idle", "executing", "building", "removing", "committing",
           "persisting", "snapshot", "writing", "stopped"}

Fail == failures < MaxFailures /\ failures' = failures + 1

----------------------------------------------------------------------------
Init ==
  /\ NewMempool
  /\ backend \in Backends
  /\ boot = 0
  /\ pc = "down"
  /\ batch = <<>> /\ done = 0 /\ header = NoHeader
  /\ engineHeight = 0 /\ blockHeight = 0 /\ blocksProduced = 0
  /\ headers = <<>>
  /\ snaps = <<>>
  /\ anchoring = {} /\ lastAnchorHeight = 0
  /\ stale = FALSE
  /\ failures = 0
  /\ runs = [t \in Txs |-> 0]

\* isKVStoreEmpty at the start of the process.  The store also holds the
\* contract modules, without which nothing runs: with badger it is empty only
\* while there is no snapshot either.
StoreEmpty == backend = "memory"

\* findLatestSnapshot: the file of the greatest height.
Latest == CHOOSE s \in Range(snaps) : \A r \in Range(snaps) : r.height =< s.height

Restores == StoreEmpty /\ snaps # <<>>

\* NewSequencer and Start.  A truncated latest snapshot makes Start return its
\* error: the process does not come up.  The restored height goes to the
\* sequencer; the height of the engine stays 0.
Start ==
  /\ pc = "down"
  /\ boot < MaxBoots
  /\ Restores => Latest.form = "full"
  /\ boot' = boot + 1
  /\ pc' = "idle"
  /\ headers' = IF Restores THEN Latest.headers ELSE headers
  /\ blockHeight' = IF Restores THEN Latest.height ELSE 0
  /\ PoolStart
  /\ UNCHANGED <<backend, blockVars, engineHeight, blocksProduced, snaps,
                 anchorVars, stale, failures, runs>>

\* The process dies, or exits after Stop.  A new one begins with an empty pool,
\* an engine at height 0 and, in memory, an empty store.
Crash ==
  /\ pc # "down"
  /\ pc' = "down"
  /\ transactions' = {} /\ byAccount' = [a \in Accounts |-> <<>>] /\ byPriority' = <<>>
  /\ priority' = [t \in Txs |-> 0] /\ age' = [t \in Txs |-> 0]
  /\ totalSize' = 0 /\ totalAdded' = 0 /\ totalRemoved' = 0
  /\ running' = FALSE /\ stopClosed' = FALSE /\ cleaner' = FALSE
  /\ batch' = <<>> /\ done' = 0 /\ header' = NoHeader
  /\ engineHeight' = 0 /\ blockHeight' = 0 /\ blocksProduced' = 0
  /\ headers' = IF backend = "memory" THEN <<>> ELSE headers
  /\ anchoring' = {} /\ lastAnchorHeight' = 0
  /\ stale' = FALSE
  /\ runs' = [t \in Txs |-> 0]
  /\ UNCHANGED <<backend, boot, snaps, failures>>

----------------------------------------------------------------------------
\* What other goroutines do meanwhile.

\* SubmitTransaction, with ValidateTransaction of the engine.
SubmitTransaction(t, m) ==
  /\ running
  /\ GasLimit[t] \in 1 .. BlockGasLimit
  /\ AddTransaction(t, m)
  /\ runs' = [runs EXCEPT ![t] = 0]
  /\ UNCHANGED <<backend, boot, pc, blockVars, heightVars, headers, snaps,
                 anchorVars, stale, failures>>

\* The cleanup ticker of the pool, and FlushMempool.
PoolChanges ==
  /\ pc # "down"
  /\ Cleanup \/ CleanerExits \/ Flush
  /\ UNCHANGED <<backend, boot, pc, blockVars, heightVars, headers, snaps,
                 anchorVars, stale, failures, runs>>

\* Stop does not wait for mainLoop.
Stop ==
  /\ pc # "down"
  /\ PoolStop
  /\ UNCHANGED <<backend, boot, pc, blockVars, heightVars, headers, snaps,
                 anchorVars, stale, failures, runs>>

\* UpdateConfig with another BlockTime stops the ticker and makes a new one.
\* A mainLoop already waiting in its select has read the channel of the old.
UpdateConfig ==
  /\ pc # "down"
  /\ ~stale
  /\ stale' = (pc = "idle")
  /\ UNCHANGED <<poolVars, backend, boot, pc, blockVars, heightVars, headers,
                 snaps, anchorVars, failures, runs>>

\* The goroutine of writeBlockHeader returns; anchors may finish out of order.
AnchorDone(h) ==
  /\ h \in anchoring
  /\ anchoring' = anchoring \ {h}
  /\ lastAnchorHeight' = h
  /\ UNCHANGED <<poolVars, backend, boot, pc, blockVars, heightVars, headers,
                 snaps, stale, failures, runs>>

AnchorFails(h) ==
  /\ h \in anchoring
  /\ anchoring' = anchoring \ {h}
  /\ UNCHANGED <<poolVars, backend, boot, pc, blockVars, heightVars, headers,
                 snaps, lastAnchorHeight, stale, failures, runs>>

----------------------------------------------------------------------------
\* produceBlock, run by mainLoop.

\* select takes the stopChan case, or ctx.Done(): main cancels the context when a
\* signal tells it to exit, at any time.
LoopExits ==
  /\ pc = "idle"
  /\ pc' = "stopped"
  /\ UNCHANGED <<poolVars, backend, boot, blockVars, heightVars, headers, snaps,
                 anchorVars, stale, failures, runs>>

\* Mutant: a tick waits until the block can be filled.
BeginFullBlock ==
  /\ pc = "idle"
  /\ ~stale
  /\ engineHeight < MaxHeight
  /\ Len(byPriority) >= MaxTransactions
  /\ batch' = GetTopTransactions(MaxTransactions)
  /\ pc' = "executing"
  /\ UNCHANGED <<poolVars, backend, boot, done, header, heightVars, headers,
                 snaps, anchorVars, stale, failures, runs>>

\* A tick finds transactions in the pool.  select may still prefer a tick to a
\* closed stopChan or a cancelled context.
BeginBlock ==
  /\ pc = "idle"
  /\ ~stale
  /\ engineHeight < MaxHeight
  /\ GetTopTransactions(MaxTransactions) # <<>>
  /\ batch' = GetTopTransactions(MaxTransactions)
  /\ pc' = "executing"
  /\ UNCHANGED <<poolVars, backend, boot, done, header, heightVars, headers,
                 snaps, anchorVars, stale, failures, runs>>

\* executeSingleTransaction; its writes go to the store, whatever its result.
ExecuteNext ==
  /\ pc = "executing"
  /\ done < Len(batch)
  /\ done' = done + 1
  /\ runs' = [runs EXCEPT ![batch[done + 1]] = IF @ = 2 THEN 2 ELSE @ + 1]
  /\ UNCHANGED <<poolVars, backend, boot, pc, batch, header, heightVars, headers,
                 snaps, anchorVars, stale, failures>>

\* The rest of ExecuteTransactions: the engine has the new height.
FinishExecution ==
  /\ pc = "executing"
  /\ done = Len(batch)
  /\ done' = 0
  /\ engineHeight' = engineHeight + 1
  /\ pc' = "building"
  /\ UNCHANGED <<poolVars, backend, boot, batch, header, blockHeight,
                 blocksProduced, headers, snaps, anchorVars, stale, failures, runs>>

\* getPreviousBlockHash: of a missing header the memory store returns no bytes
\* and no error, badger an error.
PreviousKnown == engineHeight = 1 \/ engineHeight - 1 \in DOMAIN headers

\* Mutant: the hash of the last block of the sequencer.
PreviousOfSequencer ==
  IF blockHeight \in DOMAIN headers THEN Id(headers[blockHeight]) ELSE Genesis

PreviousHash ==
  IF engineHeight = 1 THEN Genesis
  ELSE IF PreviousKnown THEN Id(headers[engineHeight - 1]) ELSE Unset

\* Mutant: a missing header is no error with any backend.
BuildRegardless ==
  /\ pc = "building"
  /\ header' = [boot |-> boot, height |-> engineHeight, prev |-> PreviousHash]
  /\ pc' = "removing"
  /\ UNCHANGED <<poolVars, backend, boot, batch, done, heightVars, headers, snaps,
                 anchorVars, stale, failures, runs>>

BuildFormalBlock ==
  /\ pc = "building"
  /\ PreviousKnown \/ backend = "memory"
  /\ header' = [boot |-> boot, height |-> engineHeight, prev |-> PreviousHash]
  /\ pc' = "removing"
  /\ UNCHANGED <<poolVars, backend, boot, batch, done, heightVars, headers, snaps,
                 anchorVars, stale, failures, runs>>

\* buildFormalBlock returns an error: the previous header is missing, or badger
\* fails to read.  The block is given up, the transactions stay in the pool.
BuildFails ==
  /\ pc = "building"
  /\ backend = "badger"
  /\ Fail \/ (~PreviousKnown /\ UNCHANGED failures)
  /\ batch' = <<>>
  /\ pc' = "idle"
  /\ UNCHANGED <<poolVars, backend, boot, done, header, heightVars, headers,
                 snaps, anchorVars, stale, runs>>

\* Mutant: a transaction that has left the pool is subtracted again.
RemoveNextRegardless ==
  /\ pc = "removing"
  /\ done < Len(batch)
  /\ done' = done + 1
  /\ Evict({batch[done + 1]})
  /\ UNCHANGED lifeVars
  /\ UNCHANGED <<backend, boot, pc, batch, header, heightVars, headers, snaps,
                 anchorVars, stale, failures, runs>>

\* One RemoveTransaction of the loop; the error of one that has left the pool
\* is ignored.
RemoveNext ==
  /\ pc = "removing"
  /\ done < Len(batch)
  /\ done' = done + 1
  /\ \/ RemoveTransaction(batch[done + 1])
     \/ batch[done + 1] \notin transactions /\ UNCHANGED poolVars
  /\ UNCHANGED <<backend, boot, pc, batch, header, heightVars, headers, snaps,
                 anchorVars, stale, failures, runs>>

\* Mutant: the loop leaves out the last transaction of the block.
RemovalDoneEarly ==
  /\ pc = "removing"
  /\ done = Len(batch) - 1
  /\ pc' = "committing"
  /\ UNCHANGED <<poolVars, backend, boot, blockVars, heightVars, headers, snaps,
                 anchorVars, stale, failures, runs>>

RemovalDone ==
  /\ pc = "removing"
  /\ done = Len(batch)
  /\ pc' = "committing"
  /\ UNCHANGED <<poolVars, backend, boot, blockVars, heightVars, headers, snaps,
                 anchorVars, stale, failures, runs>>

\* Mutant: the height goes up from whatever was restored.
CommitNext ==
  /\ pc = "committing"
  /\ blockHeight' = blockHeight + 1
  /\ blocksProduced' = blocksProduced + 1
  /\ pc' = "persisting"
  /\ UNCHANGED <<poolVars, backend, boot, blockVars, engineHeight, headers, snaps,
                 anchorVars, stale, failures, runs>>

\* Mutant: the height is the count of the blocks before this one.
CommitCount ==
  /\ pc = "committing"
  /\ blockHeight' = blocksProduced
  /\ blocksProduced' = blocksProduced + 1
  /\ pc' = "persisting"
  /\ UNCHANGED <<poolVars, backend, boot, blockVars, engineHeight, headers, snaps,
                 anchorVars, stale, failures, runs>>

\* The section under s.mu.
CommitBlock ==
  /\ pc = "committing"
  /\ blockHeight' = header.height
  /\ blocksProduced' = blocksProduced + 1
  /\ pc' = "persisting"
  /\ UNCHANGED <<poolVars, backend, boot, blockVars, engineHeight, headers, snaps,
                 anchorVars, stale, failures, runs>>

\* persistBlockHeader, whose failure is printed and forgotten, and the start of
\* the anchor goroutine.
PersistBlockHeader ==
  /\ pc = "persisting"
  /\ \/ /\ headers' = [h \in DOMAIN headers \cup {header.height} |->
                         IF h = header.height THEN header ELSE headers[h]]
        /\ UNCHANGED failures
     \/ backend = "badger" /\ Fail /\ UNCHANGED headers
  /\ anchoring' = IF header.height % AnchorInterval = 0
                  THEN anchoring \cup {header.height} ELSE anchoring
  /\ pc' = "snapshot"
  /\ UNCHANGED <<poolVars, backend, boot, blockVars, heightVars, snaps,
                 lastAnchorHeight, stale, runs>>

ShouldTakeSnapshot(h) == EveryN > 0 /\ h > 0 /\ h % EveryN = 0

EndBlock == batch' = <<>> /\ done' = 0 /\ header' = NoHeader /\ pc' = "idle"

\* No snapshot is due; or the store cannot be read for GenerateAppHash, or the
\* directory cannot be made.
SkipSnapshot ==
  /\ pc = "snapshot"
  /\ IF ShouldTakeSnapshot(header.height) THEN Fail ELSE UNCHANGED failures
  /\ EndBlock
  /\ UNCHANGED <<poolVars, backend, boot, heightVars, headers, snaps, anchorVars,
                 stale, runs>>

WithoutFile(h) == Without(snaps, {s \in Range(snaps) : s.height = h})

\* Mutant: the snapshot is labelled with the height of the next block.
CreateNextSnapshot ==
  /\ pc = "snapshot"
  /\ ShouldTakeSnapshot(header.height)
  /\ snaps' = Append(WithoutFile(header.height + 1),
                     [height |-> header.height + 1, headers |-> headers,
                      form |-> "truncated", sound |-> failures = 0])
  /\ pc' = "writing"
  /\ UNCHANGED <<poolVars, backend, boot, blockVars, heightVars, headers,
                 anchorVars, stale, failures, runs>>

\* os.Create: a file of the same height is truncated, and this is the newest.
CreateSnapshot ==
  /\ pc = "snapshot"
  /\ ShouldTakeSnapshot(header.height)
  /\ snaps' = Append(WithoutFile(header.height),
                     [height |-> header.height, headers |-> headers,
                      form |-> "truncated", sound |-> failures = 0])
  /\ pc' = "writing"
  /\ UNCHANGED <<poolVars, backend, boot, blockVars, heightVars, headers,
                 anchorVars, stale, failures, runs>>

\* PruneOld keeps the files modified last.
PruneOld(files) ==
  IF Retain > 0 /\ Len(files) > Retain
  THEN SubSeq(files, Len(files) - Retain + 1, Len(files)) ELSE files

\* The end of TakeSnapshot: the file is complete, the old ones pruned or not;
\* or the error of the deferred Flush is lost and it stays truncated; or an
\* error is seen and it is removed.
FinishSnapshot ==
  /\ pc = "writing"
  /\ LET complete == [snaps EXCEPT ![Len(snaps)].form = "full"]
     IN  \/ snaps' = PruneOld(complete) /\ UNCHANGED failures
         \/ snaps' = complete /\ Fail
         \/ snaps' = PruneOld(snaps) /\ Fail
         \/ snaps' = WithoutFile(header.height) /\ Fail
  /\ EndBlock
  /\ UNCHANGED <<poolVars, backend, boot, heightVars, headers, anchorVars, stale, runs>>

LoopStep ==
  \/ BeginBlock \/ ExecuteNext \/ FinishExecution \/ BuildFormalBlock \/ BuildFails
  \/ RemoveNext \/ RemovalDone \/ CommitBlock \/ PersistBlockHeader
  \/ SkipSnapshot \/ CreateSnapshot \/ FinishSnapshot

Next ==
  \/ Start
  \/ Crash
  \/ \E t \in Txs, m \in {0, MaxAge} : SubmitTransaction(t, m)
  \/ PoolChanges
  \/ Stop \/ LoopExits
  \/ UpdateConfig
  \/ \E h \in 1 .. MaxHeight : AnchorDone(h) \/ AnchorFails(h)
  \/ LoopStep

Spec == Init /\ [][Next]_vars

\* The goroutine of mainLoop is scheduled, and its ticker ticks.
LiveSpec == Spec /\ WF_vars(LoopStep)

----------------------------------------------------------------------------
HeaderSet == [boot : 0 .. MaxBoots, height : 0 .. MaxHeight,
              prev : (0 .. MaxBoots) \X (0 .. MaxHeight)]

IsHeaderMap(f) == DOMAIN f \subseteq 1 .. MaxHeight /\ \A h \in DOMAIN f : f[h] \in HeaderSet

\* The types of the variables.
TypeOK ==
  /\ PoolTypeOK
  /\ backend \in Backends
  /\ boot \in 0 .. MaxBoots
  /\ pc \in Phases
  /\ batch \in Seq(Txs) /\ Len(batch) =< MaxTransactions
  /\ done \in 0 .. Len(batch)
  /\ header \in HeaderSet
  /\ engineHeight \in 0 .. MaxHeight /\ blockHeight \in 0 .. MaxHeight
  /\ blocksProduced \in 0 .. MaxHeight
  /\ IsHeaderMap(headers)
  /\ \A i \in DOMAIN snaps :
       /\ snaps[i].height \in 1 .. MaxHeight
       /\ IsHeaderMap(snaps[i].headers)
       /\ snaps[i].form \in {"full", "truncated"}
       /\ snaps[i].sound \in BOOLEAN
  /\ anchoring \subseteq 1 .. MaxHeight
  /\ lastAnchorHeight \in 0 .. MaxHeight
  /\ stale \in BOOLEAN
  /\ failures \in 0 .. MaxFailures
  /\ runs \in [Txs -> 0 .. 2]

\* The headers f[1], ..., f[n] are there and each carries the hash of the one
\* below it.
Chain(f, n) ==
  /\ 1 .. n \subseteq DOMAIN f
  /\ \A h \in 2 .. n : f[h].prev = Id(f[h - 1])
  /\ n > 0 => f[1].prev = Genesis

\* Until the storage fails, the blocks of this run of the process are a chain
\* in the store, over whatever headers an earlier run or a snapshot left there.
ChainIntact ==
  (failures = 0 /\ pc \in {"idle", "stopped"}) => Chain(headers, blocksProduced)

\* Whatever fails, no header is ever stored above a missing one.
NoHeaderGap == \E n \in 0 .. MaxHeight : DOMAIN headers = 1 .. n

\* The three heights that loop.go and exec.go keep apart agree between blocks
\* once this run of the process has produced one, until the storage fails.
HeightsAgree ==
  (failures = 0 /\ pc \in {"idle", "stopped"}) =>
    /\ engineHeight = blocksProduced
    /\ blocksProduced > 0 => blockHeight = blocksProduced

\* Until the storage fails, a transaction runs at most once for each time the
\* pool accepts it: neither expiry nor a flush nor a resubmission while its
\* block is being produced makes it run again.
RunsAtMostOnce == failures = 0 => \A t \in Txs : runs[t] =< 1

\* The metrics subtract lastAnchorHeight from blockHeight as unsigned numbers
\* (cmd/accumen/main.go:215): an anchor is never ahead of the committed height.
AnchorNotAhead == lastAnchorHeight =< blockHeight

\* A complete snapshot of height h taken while the storage had not failed holds
\* the chain of blocks 1 to h, although headers of earlier runs lie above it.
SnapshotsHoldChain ==
  \A s \in Range(snaps) : (s.form = "full" /\ s.sound) => Chain(s.headers, s.height)

\* The process is down or mainLoop has left, a storage operation has failed, or the
\* bound on heights keeps the next block from starting.
Halted ==
  \/ pc \in {"down", "stopped"} \/ failures > 0
  \/ pc = "idle" /\ engineHeight = MaxHeight

\* While nothing fails and the ticker is alive, pending transactions lead to a
\* block: produceBlock never stays in the middle, and each tick with a filled
\* pool starts one.
BlocksAreProduced ==
  \A n \in 0 .. MaxHeight - 1 :
    (byPriority # <<>> /\ blocksProduced = n)
      ~> (blocksProduced > n \/ byPriority = <<>> \/ stale \/ Halted)

----------------------------------------------------------------------------
\* What the repository says and the code does not keep.

\* "Restored sequencer state from snapshot at height %d" (loop.go:475): the
\* height of a running sequencer, restored or not, never goes back.
HeightNeverGoesBack ==
  [][(pc # "down" /\ pc' # "down") => blockHeight' >= blockHeight]_vars

\* "Update block timing if changed" (loop.go:1059): a new block time is not the
\* end of block production.
RetimingKeepsBlocks ==
  \A n \in 0 .. MaxHeight - 1 :
    (byPriority # <<>> /\ blocksProduced = n)
      ~> (blocksProduced > n \/ byPriority = <<>> \/ Halted)

\* "Clean up partial snapshot on failure" (loop.go:86): when TakeSnapshot is
\* over, no partial file of its height remains.
NoPartialSnapshotLeft ==
  [][pc = "writing" /\ pc' = "idle" =>
       \A s \in Range(snaps') : s.height = header.height => s.form = "full"]_vars
=============================================================================
