------------------------------ MODULE Indexer ------------------------------
(***************************************************************************)
(* The follower's indexer (follower/indexer/indexer.go), which reads the   *)
(* data accounts of the directory network from a position on, applies what *)
(* it finds to a key-value store, and saves the position now and then.     *)
(*                                                                         *)
(* The accounts are external.  The code that lists them is a placeholder   *)
(* that finds nothing; QueryDataAccountEntries is what its callers expect. *)
(* A key is a number that grows over both accounts, 0 is the empty key.    *)
(***************************************************************************)
EXTENDS Integers, Sequences, FiniteSets, FiniteSetsExt, Functions, Maps

CONSTANTS
  Kinds,        \* entries that may be written: [path, linked, events, slot]
  BatchSize,    \* Config.BatchSize
  SaveEvery,    \* entries between two saves of the checkpoint (100)
  MaxEntries,   \* bound: entries of the accounts
  MaxErrors,    \* bound: storage errors
  MaxStarts     \* bound: starts of the process

IndexerAssumption ==
  /\ Kinds \subseteq [path : {"metadata", "anchors"}, linked : BOOLEAN,
                      events : {"none", "good", "malformed"}, slot : STRING]
  \* what the DN writer puts there is a blob, not metadata
  /\ \A kind \in Kinds : kind.path = "anchors" => kind.events = "none"
  /\ {BatchSize, SaveEvery} \subseteq Nat \ {0}
  /\ {MaxEntries, MaxErrors, MaxStarts} \subseteq Nat

VARIABLES
  store,        \* "badger" or "memory"
  account,      \* the entries of both accounts, by key
  txs,          \* tx:... in the store: the entries stored
  state,        \* state:... in the store: the entry that wrote each slot last
  saved,        \* indexer_checkpoint in the store
  checkpoint,   \* Indexer.checkpoint
  scan,         \* what the indexing loop is doing
  running,      \* Indexer.running: "yes", "no", or "last": no, with a tick that is left over
  receipts,     \* Indexer.l1HashMapping
  missed,       \* linked entries that failed or were jumped over, and not applied since
  budget        \* errors and starts left

kept == <<txs, state, saved>>
vars == <<store, account, kept, checkpoint, scan, running, receipts, missed, budget>>

Empty == <<>>
Beginning == [key |-> 0, count |-> 0, height |-> 0]   \* StartFromKey is ""
Idle == [step |-> "idle"]

\* NewIndexer and Start.
Boot(position) ==
  /\ checkpoint' = position
  /\ scan' = Idle
  /\ running' = "yes"
  /\ receipts' = {}

Init ==
  /\ store \in {"badger", "memory"}
  /\ account = <<>>
  /\ txs = {} /\ state = Empty /\ saved = Empty
  /\ checkpoint = Beginning /\ scan = Idle /\ running = "yes" /\ receipts = {}
  /\ missed = {}
  /\ budget = [errors |-> MaxErrors, starts |-> MaxStarts]

----------------------------------------------------------------------------
\* Others write to the accounts.
Publish ==
  /\ Len(account) < MaxEntries
  /\ \E kind \in Kinds : account' = Append(account, kind)
  /\ UNCHANGED <<store, kept, checkpoint, scan, running, receipts, missed, budget>>

\* The first entries of a path above a key: half of a batch for each path.
QueryDataAccountEntries(path, from) ==
  LET above == {k \in DOMAIN account : k > from /\ account[k].path = path}
  IN  {k \in above : Cardinality({j \in above : j < k}) < BatchSize \div 2}

\* Entries without an L1 hash in the memo are left out, ...
ScanDNDataAccount(path, from) ==
  {k \in QueryDataAccountEntries(path, from) : account[k].linked}

\* Mutant: the next key is the one behind the last entry.
KeyBehind(keys) == IF keys = {} THEN 0 ELSE Max(keys) + 1

\* ... and the next key is the last that is not.
NextKey(keys) == IF keys = {} THEN 0 ELSE Max(keys)

\* indexingLoop at a tick: its select may take a last one after Stop.
Tick ==
  /\ scan.step = "idle" /\ running # "no"
  /\ running' = IF running = "last" THEN "no" ELSE running

\* A query that has failed MaxRetries times finds nothing.
QueryFails ==
  /\ \/ Tick /\ scan' = Idle
     \/ scan.step = "anchors" /\ scan' = [scan EXCEPT !.step = "collected"] /\ UNCHANGED running
  /\ UNCHANGED <<store, account, kept, checkpoint, receipts, missed, budget>>

QueryMetadata ==
  /\ Tick
  /\ LET found == ScanDNDataAccount("metadata", checkpoint.key) IN
       /\ scan' = [step |-> "anchors", batch |-> found, size |-> Cardinality(found),
                   next |-> NextKey(found)]
       /\ receipts' = receipts \cup found
  /\ UNCHANGED <<store, account, kept, checkpoint, missed, budget>>

\* The anchors' next key, if there is one, takes the place of the other.
QueryAnchors ==
  /\ scan.step = "anchors"
  /\ LET found == ScanDNDataAccount("anchors", checkpoint.key) IN
       /\ scan' = [step |-> "collected", batch |-> scan.batch \cup found,
                   size |-> scan.size + Cardinality(found),
                   next |-> IF found = {} THEN scan.next ELSE NextKey(found)]
       /\ receipts' = receipts \cup found
  /\ UNCHANGED <<store, account, kept, checkpoint, running, missed, budget>>

\* Nothing found leaves the position where it is.
Collected ==
  /\ scan.step = "collected"
  /\ IF scan.batch = {} THEN scan' = Idle /\ UNCHANGED missed
     ELSE /\ scan' = [scan EXCEPT !.step = "apply"]
          /\ missed' = missed \cup {k \in DOMAIN account : /\ account[k].linked
                                                           /\ checkpoint.key < k /\ k <= scan.next
                                                           /\ k \notin scan.batch}
  /\ UNCHANGED <<store, account, kept, checkpoint, running, receipts, budget>>

----------------------------------------------------------------------------
\* Metadata entries come before anchors, each in the order of the account.
Current ==
  LET metadata == {k \in scan.batch : account[k].path = "metadata"}
  IN  Min(IF metadata = {} THEN scan.batch ELSE metadata)

\* An entry that fails is counted and left behind.
Skip ==
  /\ missed' = missed \cup {Current}
  /\ scan' = [scan EXCEPT !.step = "apply", !.batch = @ \ {Current}]

\* applyEvent, in applyEntry: one Set for the events, ...
ApplyEvents ==
  /\ scan.step = "apply" /\ scan.batch # {}
  /\ LET entry == account[Current] IN
     /\ state' = IF entry.events = "none" THEN state ELSE Put(state, entry.slot, Current)
     /\ IF entry.events = "malformed" THEN Skip
        ELSE scan' = [scan EXCEPT !.step = "store"] /\ UNCHANGED missed
  /\ UNCHANGED <<store, account, txs, saved, checkpoint, running, receipts, budget>>

\* ... and one for the entry itself.  processEntry then raises the height.
StoreEntry ==
  /\ scan.step = "store"
  /\ txs' = txs \cup {Current}
  /\ receipts' = receipts \cup {Current}
  /\ checkpoint' = [checkpoint EXCEPT !.height = Max({@, Current})]
  /\ scan' = [scan EXCEPT !.step = "apply", !.batch = @ \ {Current}]
  /\ missed' = missed \ {Current}
  /\ UNCHANGED <<store, account, state, saved, running, budget>>

\* A storage error, which memory does not have.
StorageError ==
  /\ store = "badger"
  /\ budget.errors > 0
  /\ budget' = [budget EXCEPT !.errors = @ - 1]

SetFails ==
  /\ scan.step = "store" \/ (scan.step = "apply" /\ scan.batch # {})
  /\ StorageError
  /\ Skip
  /\ UNCHANGED <<store, account, kept, checkpoint, running, receipts>>

\* The end of performScan: the position, then the count.
UpdatePosition ==
  /\ scan.step = "apply" /\ scan.batch = {}
  /\ checkpoint' = [checkpoint EXCEPT !.key = scan.next]
  /\ scan' = [scan EXCEPT !.step = "count"]
  /\ UNCHANGED <<store, account, kept, running, receipts, missed, budget>>

\* A save that fails is only logged.
SaveCheckpoint ==
  \/ saved' = checkpoint' /\ UNCHANGED budget
  \/ StorageError /\ UNCHANGED saved

Finish ==
  /\ scan.step = "count"
  /\ checkpoint' = [checkpoint EXCEPT !.count = @ + scan.size]
  /\ IF checkpoint'.count % SaveEvery = 0 THEN SaveCheckpoint ELSE UNCHANGED <<saved, budget>>
  /\ scan' = Idle
  /\ UNCHANGED <<store, account, txs, state, running, receipts, missed>>

\* Stop does not wait for a scan that is under way.
Stop ==
  /\ running = "yes"
  /\ running' \in {"last", "no"}
  /\ UNCHANGED checkpoint
  /\ SaveCheckpoint
  /\ UNCHANGED <<store, account, txs, state, scan, receipts, missed>>

\* The process ends, by itself or not, and comes up again: from the beginning, if
\* the checkpoint cannot be read.  The next time it is read, and jumps over what a
\* replay from the beginning has not come to.
Restart ==
  /\ budget.starts > 0
  /\ budget' = [budget EXCEPT !.starts = @ - 1]
  /\ IF store = "badger"
     THEN /\ UNCHANGED kept
          /\ \E position \in {saved, Beginning} \ {Empty} :
               /\ Boot(position)
               /\ missed' = missed \cup {k \in DOMAIN account : /\ account[k].linked
                                                              /\ checkpoint.key < k
                                                              /\ k <= position.key}
     ELSE /\ txs' = {} /\ state' = Empty /\ saved' = Empty
          /\ Boot(Beginning)
          /\ UNCHANGED missed
  /\ UNCHANGED <<store, account>>

Next ==
  \/ Publish \/ QueryFails \/ QueryMetadata \/ QueryAnchors \/ Collected
  \/ ApplyEvents \/ StoreEntry \/ SetFails \/ UpdatePosition \/ Finish
  \/ Stop \/ Restart

Spec == Init /\ [][Next]_vars

----------------------------------------------------------------------------
\* The types of the variables; only entries with an L1 hash are handled.
TypeOK ==
  LET Linked == {k \in DOMAIN account : account[k].linked}
      Positions == [key : Nat, count : Nat, height : {0} \cup Linked]
  IN
  /\ store \in {"badger", "memory"}
  /\ account \in Seq(Kinds)
  /\ txs \subseteq Linked /\ Range(state) \subseteq Linked /\ receipts \subseteq Linked
  /\ saved \in {Empty} \cup Positions /\ running \in {"yes", "last", "no"}
  /\ checkpoint \in Positions
  /\ scan.step \in {"idle", "anchors", "collected", "apply", "store", "count"}
  /\ scan # Idle => scan.batch \subseteq Linked
  /\ missed \subseteq Linked

\* A linked entry up to the position, saved or not, is in the store, whatever died
\* in between: only one that failed, or that a position jumped over, is missing.  And once a scan has ended and the position has come up
\* to all that the store holds, every slot holds what its last entry wrote, although
\* entries were applied again over later ones after a restart.
PositionCovers ==
  /\ \A k \in DOMAIN account :
       /\ account[k].linked
       /\ k <= checkpoint.key \/ (saved # Empty /\ k <= saved.key)
       => k \in txs \cup missed
  /\ (scan = Idle /\ \A k \in txs \cup Range(state) : k <= checkpoint.key) =>
       \A s \in DOMAIN state :
         LET writers == {k \in DOMAIN account : /\ account[k].linked /\ account[k].slot = s
                                                /\ account[k].events # "none"}
         IN  writers \cap missed # {} \/ state[s] = Max(writers \cap txs)
=============================================================================
