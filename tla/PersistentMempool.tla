------------------------- MODULE PersistentMempool -------------------------
(***************************************************************************)
(* The persistent mempool (sequencer/mempool_persist.go): a queue in badger*)
(* by sequence number, with an index by hash, filled by the submitTx calls *)
(* of the RPC server and replayed when the process starts.                 *)
(*                                                                         *)
(* A transaction of badger reads one version of the store, and its commit  *)
(* is refused if a key it has read was written in between.  One that reads *)
(* and writes without a rival is one step here; Add, whose rivals are other*)
(* calls of Add, is taken apart.                                           *)
(***************************************************************************)
EXTENDS OrderedLists, Functions, Maps

CONSTANTS
  Callers,     \* goroutines that serve RPC requests
  Txs,         \* transactions, by their hash
  Invalid,     \* those that l1.Tx.Validate refuses
  Forbidden,   \* those whose contract the namespace check refuses
  MaxSeq,      \* bound: sequence numbers
  MaxStarts    \* bound: starts of the process

PersistentMempoolAssumption ==
  /\ Invalid \subseteq Txs /\ Forbidden \subseteq Txs
  /\ MaxSeq \in Nat \ {0} /\ MaxStarts \in Nat

VARIABLES
  pending,     \* mp:pending: the transaction under each sequence number
  index,       \* mp:index: the sequence number of each hash
  seq,         \* mp:seq
  caller,      \* the Add of each caller: its step, transaction and what it read
  accepted,    \* transactions that an Add has returned for and no Remove since
  replayed,    \* what the latest Replay handed over
  startsLeft

store == <<pending, index, seq>>
vars == <<store, caller, accepted, replayed, startsLeft>>

NoCall == [step |-> "none"]

Init ==
  /\ pending = <<>>
  /\ index = <<>>
  /\ seq = 0
  /\ caller = [c \in Callers |-> NoCall]
  /\ accepted = {}
  /\ replayed = <<>>
  /\ startsLeft = MaxStarts

----------------------------------------------------------------------------
\* Mutant: the namespace of the contract is not looked at.
SubmitUnchecked(c, t) ==
  /\ caller[c] = NoCall
  /\ t \notin Invalid
  /\ caller' = [caller EXCEPT ![c] = [step |-> "submitted", tx |-> t]]
  /\ UNCHANGED <<store, accepted, replayed, startsLeft>>

\* handleSubmitTx: what it refuses leaves no trace.
SubmitTx(c, t) ==
  /\ caller[c] = NoCall
  /\ t \notin Invalid \cup Forbidden
  /\ caller' = [caller EXCEPT ![c] = [step |-> "submitted", tx |-> t]]
  /\ UNCHANGED <<store, accepted, replayed, startsLeft>>

\* Add looks for the hash in a transaction of its own.
Exists(c) ==
  /\ caller[c].step = "submitted"
  /\ caller' = [caller EXCEPT ![c] =
                  IF @.tx \in DOMAIN index THEN NoCall ELSE [@ EXCEPT !.step = "absent"]]
  /\ UNCHANGED <<store, accepted, replayed, startsLeft>>

GetNextSequence(c) ==
  /\ caller[c].step = "absent"
  /\ seq < MaxSeq
  /\ caller' = [caller EXCEPT ![c] = [step |-> "numbered", tx |-> @.tx, read |-> seq]]
  /\ UNCHANGED <<store, accepted, replayed, startsLeft>>

\* Mutant: the sequence number was read outside of the transaction.
CommitUnchecked(c) ==
  /\ caller[c].step = "numbered"
  /\ caller' = [caller EXCEPT ![c] = NoCall]
  /\ LET t == caller[c].tx  n == caller[c].read + 1 IN
     /\ seq' = n
     /\ pending' = Put(pending, n, t)
     /\ index' = Put(index, t, n)
     /\ accepted' = accepted \cup {t}
  /\ UNCHANGED <<replayed, startsLeft>>

\* The commit of the transaction that began with GetNextSequence.
Commit(c) ==
  /\ caller[c].step = "numbered"
  /\ caller' = [caller EXCEPT ![c] = NoCall]
  /\ IF caller[c].read = seq
     THEN LET t == caller[c].tx IN
          /\ seq' = seq + 1
          /\ pending' = Put(pending, seq + 1, t)
          /\ index' = Put(index, t, seq + 1)
          /\ accepted' = accepted \cup {t}
     ELSE UNCHANGED <<store, accepted>>          \* badger.ErrConflict
  /\ UNCHANGED <<replayed, startsLeft>>

\* Of a hash that is not in the index this is an error.
Remove(t) ==
  /\ t \in DOMAIN index
  /\ pending' = Restrict(pending, DOMAIN pending \ {index[t]})
  /\ index' = Restrict(index, DOMAIN index \ {t})
  /\ accepted' = accepted \ {t}
  /\ UNCHANGED <<seq, caller, replayed, startsLeft>>

\* Next with n beyond the length of the queue, and Replay: in order of the keys,
\* which end in the big-endian sequence number.
Queue ==
  LET numbers == Ascending(DOMAIN pending)
  IN  [i \in DOMAIN numbers |-> pending[numbers[i]]]

\* The process dies and comes up again on the same directory; main replays the
\* queue before the RPC server starts, and only logs it.
Restart ==
  /\ startsLeft > 0
  /\ startsLeft' = startsLeft - 1
  /\ caller' = [c \in Callers |-> NoCall]
  /\ replayed' = Queue
  /\ UNCHANGED <<store, accepted>>

Next ==
  \/ \E c \in Callers : \E t \in Txs : SubmitTx(c, t)
  \/ \E c \in Callers : Exists(c) \/ GetNextSequence(c) \/ Commit(c)
  \/ \E t \in Txs : Remove(t)
  \/ Restart

Spec == Init /\ [][Next]_vars

----------------------------------------------------------------------------
\* The types of the variables; the index names no number that was not given.
TypeOK ==
  /\ seq \in 0 .. MaxSeq
  /\ DOMAIN pending \subseteq 1 .. seq /\ Range(pending) \subseteq Txs
  /\ DOMAIN index \subseteq Txs /\ Range(index) \subseteq 1 .. seq
  /\ caller \in [Callers -> {NoCall} \cup [step : {"submitted", "absent"}, tx : Txs]
                            \cup [step : {"numbered"}, tx : Txs, read : 0 .. seq]]
  /\ accepted \subseteq Txs \ (Invalid \cup Forbidden)
  /\ Range(replayed) \subseteq Txs
  /\ startsLeft \in 0 .. MaxStarts

\* A transaction that Add has returned for is in the queue, under the number
\* the index gives it, until it is removed, however calls and restarts
\* interleave: two calls never share a number (getNextSequence), and the index
\* never leads to the transaction of another call.
AcceptedIsQueued ==
  \A t \in accepted :
    /\ t \in DOMAIN index
    /\ index[t] \in DOMAIN pending
    /\ pending[index[t]] = t

\* What main replays at a start is every accepted transaction, and of two the
\* one that Add gave the smaller number first, whatever calls of Add the death of
\* the process cut off (Replay).
ReplayIsComplete ==
  [][startsLeft' # startsLeft =>
       \A t, u \in accepted :
         /\ t \in Range(replayed')
         /\ index[t] < index[u] => Ahead(replayed', t, u)]_vars
=============================================================================
