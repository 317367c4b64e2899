------------------------------ MODULE Storage ------------------------------
(***************************************************************************)
(* What is stored, and the process around it: what the sequencer, the      *)
(* follower's indexer and the keystore keep, and how a node opens and      *)
(* closes what its calls use.  `part` says which component a behaviour is  *)
(* about, and the variables of the others keep their initial values.  The  *)
(* persistent mempool is extended, the others are instances.               *)
(***************************************************************************)
EXTENDS PersistentMempool

CONSTANTS
  MaxErrors, MaxCalls,
  \* ContractStore
  Requests, Addrs, Codes, Unfit, Reserved, Authorized, MaxVersions,
  \* BlockRoots
  MaxResults,
  \* Indexer
  Entries, BatchSize, SaveEvery, MaxEntries, MaxBoots,
  \* Keystore
  Processes, Aliases, MaxCommands,
  \* Node
  Connections, Clients, Kinds, Burst, Rps, MaxSeconds, MaxCleanups

VARIABLES
  part,
  \* ContractStore
  backend, modules, versions, bytes, call, engine, saved, rewritten, quota,
  \* BlockRoots
  results,
  \* Indexer
  kv, account, txs, state, position, checkpoint, scan, running, receipts, missed, budget,
  \* Keystore
  form, keys, command, reported, raced, signed, left,
  \* Node
  role, hasKeys, rate, at, open, server, signalled, gaveUp, lock, calling, limiters, buckets,
  since, bounds

contractStore ==
  <<backend, modules, versions, bytes, call, engine, saved, rewritten, quota>>
indexer ==
  <<kv, account, txs, state, position, checkpoint, scan, running, receipts, missed, budget>>
keystore == <<form, keys, command, reported, raced, signed, left>>
node ==
  <<role, hasKeys, rate, at, open, server, signalled, gaveUp, lock, calling, limiters, buckets,
    since, bounds>>
storageVars == <<part, vars, contractStore, results, indexer, keystore, node>>

CS == INSTANCE ContractStore
BR == INSTANCE BlockRoots
IX == INSTANCE Indexer WITH store <- kv, saved <- position, Kinds <- Entries,
                            MaxStarts <- MaxBoots
KS == INSTANCE Keystore WITH index <- keys, quota <- left
ND == INSTANCE Node WITH engine <- lock

StorageAssumption ==
  /\ PersistentMempoolAssumption /\ CS!ContractStoreAssumption /\ BR!BlockRootsAssumption
  /\ IX!IndexerAssumption /\ KS!KeystoreAssumption /\ ND!NodeAssumption

\* A node is looked at without a rate limit, and with one.
StorageInit ==
  /\ part \in {"mempool", "contracts", "roots", "index", "keys", "calls", "limits"}
  /\ Init /\ CS!Init /\ BR!Init /\ IX!Init /\ KS!Init /\ ND!Init
  /\ part # "contracts" => backend = "badger"
  /\ part # "index" => kv = "badger"
  /\ part # "calls" => role = "sequencer" /\ ~hasKeys
  /\ rate = IF part = "limits" THEN Rps ELSE 0

\* Bound: with a rate limit the calls are of one kind; without one, they are fewer.
Scoped ==
  IF part = "limits" THEN \A r \in Connections : calling'[r] # ND!NoCall => calling'[r].kind = "status"
  ELSE bounds'.calls > 0 /\ bounds'.seconds = MaxSeconds /\ bounds'.cleanups = MaxCleanups

StorageNext ==
  /\ UNCHANGED part
  /\ \/ /\ part = "mempool" /\ Next
        /\ UNCHANGED <<contractStore, results, indexer, keystore, node>>
     \/ /\ part = "contracts" /\ CS!Next
        /\ UNCHANGED <<vars, results, indexer, keystore, node>>
     \/ /\ part = "roots" /\ BR!Next
        /\ UNCHANGED <<vars, contractStore, indexer, keystore, node>>
     \/ /\ part = "index" /\ IX!Next
        /\ UNCHANGED <<vars, contractStore, results, keystore, node>>
     \/ /\ part = "keys" /\ KS!Next
        /\ UNCHANGED <<vars, contractStore, results, indexer, node>>
     \/ /\ part \in {"calls", "limits"} /\ ND!Next /\ Scoped
        /\ UNCHANGED <<vars, contractStore, results, indexer, keystore>>

StorageSpec == StorageInit /\ [][StorageNext]_storageVars

----------------------------------------------------------------------------
\* The types of the variables of every component.
StorageTypeOK ==
  /\ part = "mempool" => TypeOK
  /\ part = "contracts" => CS!TypeOK
  /\ part = "roots" => BR!TypeOK
  /\ part = "index" => IX!TypeOK
  /\ part = "keys" => KS!TypeOK
  /\ part \in {"calls", "limits"} => ND!TypeOK

\* A contract and a version whose record is stored load (ContractStore).
DeployedLoads == part = "contracts" => CS!DeployedLoads

\* The results whose paths are never promoted are proved to be in the block (BlockRoots).
PairedAreAccepted == part = "roots" => BR!PairedAreAccepted

\* What is below the indexer's position is in the store (Indexer).
PositionCovers == part = "index" => IX!PositionCovers

\* A key that was reported as stored stays (Keystore).
KeysSurvive == part = "keys" => KS!KeysSurvive

\* A handler finds what it uses open (Node).
StoresOutliveRequests == part \in {"calls", "limits"} => ND!StoresOutliveRequests

\* A client gets no second bucket (Node).
RateHolds == part \in {"calls", "limits"} => ND!RateHolds
=============================================================================
