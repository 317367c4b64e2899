----------------------- MODULE StorageProofs -------------------------------
(***************************************************************************)
(* Theorems about what Storage composes: the persistent mempool, for any   *)
(* number of callers, of transactions, of sequence numbers and of          *)
(* restarts, and the keystore, the process of a node, the indexer and the  *)
(* contract store, as parts of StorageSpec, for any constants.             *)
(***************************************************************************)
EXTENDS Storage, OrderedListProofs

Permitted == Txs \ (Invalid \cup Forbidden)

\* A call of Add is for a transaction that may be added, and once it has read a
\* sequence number it may give the next one.
SoundCalls ==
  {NoCall} \cup [step : {"submitted", "absent"}, tx : Permitted]
           \cup [step : {"numbered"}, tx : Permitted, read : {n \in 0 .. seq : n < MaxSeq}]

\* The index holds the accepted transactions and nothing else, so that no two
\* of them have one number: what Remove deletes from the queue is its own.
Indexed ==
  /\ DOMAIN index = accepted
  /\ \A t \in accepted : index[t] \in DOMAIN pending /\ pending[index[t]] = t

\* The inductive invariant.
IInv == TypeOK /\ caller \in [Callers -> SoundCalls] /\ Indexed

LEMMA Bounds ==
  ASSUME PersistentMempoolAssumption
  PROVE  MaxSeq \in Nat \ {0} /\ MaxStarts \in Nat
BY DEF PersistentMempoolAssumption

LEMMA CallSteps ==
  ASSUME NEW r \in SoundCalls
  PROVE  /\ r.step \in {"submitted", "absent"} =>
              r \in [step : {"submitted", "absent"}, tx : Permitted]
         /\ r.step = "numbered" =>
              r.tx \in Permitted /\ r.read \in 0 .. seq /\ r.read < MaxSeq
BY DEF SoundCalls, NoCall

LEMMA InitInvariant ==
  ASSUME PersistentMempoolAssumption, Init
  PROVE  IInv
<1>1. 0 \in 0 .. MaxSeq /\ MaxStarts \in 0 .. MaxStarts
  BY Bounds
<1>2. TypeOK
  BY <1>1 DEF Init, TypeOK, Range
<1>3. caller \in [Callers -> SoundCalls] /\ Indexed
  BY DEF Init, SoundCalls, Indexed
<1> QED
  BY <1>2, <1>3 DEF IInv

\* The steps of an Add before its commit.
LEMMA CallPreserves ==
  ASSUME PersistentMempoolAssumption, IInv, NEW c \in Callers,
         (\E t \in Txs : SubmitTx(c, t)) \/ Exists(c) \/ GetNextSequence(c)
  PROVE  IInv'
<1>1. UNCHANGED <<store, accepted, replayed, startsLeft>>
  BY DEF SubmitTx, Exists, GetNextSequence
<1>2. caller \in [Callers -> SoundCalls] /\ caller[c] \in SoundCalls
  BY DEF IInv
<1>3. \E r \in SoundCalls : caller' = [caller EXCEPT ![c] = r]
  <2>1. ASSUME NEW t \in Txs, SubmitTx(c, t)
        PROVE  \E r \in SoundCalls : caller' = [caller EXCEPT ![c] = r]
    <3>1. [step |-> "submitted", tx |-> t] \in SoundCalls
      BY <2>1 DEF SubmitTx, SoundCalls, Permitted
    <3> QED
      BY <2>1, <3>1 DEF SubmitTx
  <2>2. CASE Exists(c)
    <3>1. caller[c] \in [step : {"submitted", "absent"}, tx : Permitted]
      BY <1>2, <2>2, CallSteps DEF Exists
    <3>2. [caller[c] EXCEPT !.step = "absent"] \in SoundCalls /\ NoCall \in SoundCalls
      BY <3>1 DEF SoundCalls
    <3>3. \/ caller' = [caller EXCEPT ![c] = NoCall]
          \/ caller' = [caller EXCEPT ![c] = [caller[c] EXCEPT !.step = "absent"]]
      BY <1>2, <2>2 DEF Exists
    <3> QED
      BY <3>2, <3>3
  <2>3. CASE GetNextSequence(c)
    <3>1. caller[c] \in [step : {"submitted", "absent"}, tx : Permitted] /\ seq < MaxSeq
      BY <1>2, <2>3, CallSteps DEF GetNextSequence
    <3>2. seq \in 0 .. seq
      BY Bounds DEF IInv, TypeOK
    <3>3. [step |-> "numbered", tx |-> caller[c].tx, read |-> seq] \in SoundCalls
      BY <3>1, <3>2 DEF SoundCalls
    <3>4. caller' = [caller EXCEPT ![c] = [step |-> "numbered", tx |-> caller[c].tx, read |-> seq]]
      BY <1>2, <2>3 DEF GetNextSequence
    <3> QED
      BY <3>3, <3>4
  <2> QED
    BY <2>1, <2>2, <2>3
<1>4. caller' \in [Callers -> SoundCalls']
  BY <1>1, <1>2, <1>3 DEF store, SoundCalls
<1>5. TypeOK'
  <2>1. SoundCalls' \subseteq {NoCall} \cup [step : {"submitted", "absent"}, tx : Txs]
                              \cup [step : {"numbered"}, tx : Txs, read : 0 .. seq']
    BY DEF SoundCalls, Permitted
  <2> QED
    BY <1>1, <1>4, <2>1 DEF store, IInv, TypeOK
<1>6. Indexed'
  BY <1>1 DEF IInv, Indexed, store
<1> QED
  BY <1>4, <1>5, <1>6 DEF IInv

\* A number is given once: the commit of an Add that read an older one is refused.
LEMMA CommitPreserves ==
  ASSUME PersistentMempoolAssumption, IInv, NEW c \in Callers, Commit(c)
  PROVE  IInv'
<1> DEFINE t == caller[c].tx
<1>1. caller \in [Callers -> SoundCalls]
  BY DEF IInv
<1>2. /\ caller[c].step = "numbered" /\ t \in Permitted /\ caller[c].read < MaxSeq
      /\ UNCHANGED <<replayed, startsLeft>>
      /\ caller' = [caller EXCEPT ![c] = NoCall]
      /\ \/ /\ caller[c].read = seq
            /\ seq' = seq + 1
            /\ pending' = Put(pending, seq + 1, t) /\ index' = Put(index, t, seq + 1)
            /\ accepted' = accepted \cup {t}
         \/ UNCHANGED <<store, accepted>>
  BY <1>1, CallSteps DEF Commit
<1>3. seq \in 0 .. MaxSeq /\ MaxSeq \in Nat
  BY Bounds DEF IInv, TypeOK
<1>4. seq' \in 0 .. MaxSeq /\ seq =< seq'
  BY <1>2, <1>3 DEF store
<1>5. SoundCalls \subseteq SoundCalls' /\ NoCall \in SoundCalls
  <2>1. 0 .. seq \subseteq 0 .. seq'
    BY <1>3, <1>4
  <2> QED
    BY <2>1 DEF SoundCalls
<1>6. caller' \in [Callers -> SoundCalls']
  BY <1>1, <1>2, <1>5
<1>7. /\ DOMAIN pending' \subseteq 1 .. seq' /\ Range(pending') \subseteq Txs
      /\ DOMAIN index' \subseteq Txs /\ Range(index') \subseteq 1 .. seq'
      /\ Indexed'
  <2>1. CASE UNCHANGED <<store, accepted>>
    BY <2>1 DEF store, IInv, TypeOK, Indexed
  <2>2. ASSUME seq' = seq + 1, accepted' = accepted \cup {t},
               pending' = Put(pending, seq + 1, t), index' = Put(index, t, seq + 1)
        PROVE  /\ DOMAIN pending' \subseteq 1 .. seq' /\ Range(pending') \subseteq Txs
               /\ DOMAIN index' \subseteq Txs /\ Range(index') \subseteq 1 .. seq'
               /\ Indexed'
    <3>1. /\ DOMAIN pending' = DOMAIN pending \cup {seq + 1} /\ pending'[seq + 1] = t
          /\ \A n \in DOMAIN pending \ {seq + 1} : pending'[n] = pending[n]
          /\ DOMAIN index' = DOMAIN index \cup {t} /\ index'[t] = seq + 1
          /\ \A u \in DOMAIN index \ {t} : index'[u] = index[u]
      BY <2>2 DEF Put
    <3>2. /\ DOMAIN pending \subseteq 1 .. seq /\ \A n \in DOMAIN pending : pending[n] \in Txs
          /\ DOMAIN index \subseteq Txs /\ \A u \in DOMAIN index : index[u] \in 1 .. seq
      BY DEF IInv, TypeOK, Range
    <3>3. 1 .. seq \subseteq 1 .. seq' /\ seq + 1 \in 1 .. seq' /\ seq + 1 \notin 1 .. seq
      BY <1>3, <2>2
    <3>4. DOMAIN pending' \subseteq 1 .. seq' /\ Range(pending') \subseteq Txs
      BY <1>2, <3>1, <3>2, <3>3 DEF Range, Permitted
    <3>5. DOMAIN index' \subseteq Txs /\ Range(index') \subseteq 1 .. seq'
      BY <1>2, <3>1, <3>2, <3>3 DEF Range, Permitted
    <3>6. Indexed'
      BY <2>2, <3>1, <3>2, <3>3 DEF IInv, Indexed
    <3> QED
      BY <3>4, <3>5, <3>6
  <2> QED
    BY <1>2, <2>1, <2>2
<1>8. accepted' \subseteq Txs \ (Invalid \cup Forbidden)
  BY <1>2 DEF IInv, TypeOK, Permitted
<1>9. caller' \in [Callers -> {NoCall} \cup [step : {"submitted", "absent"}, tx : Txs]
                              \cup [step : {"numbered"}, tx : Txs, read : 0 .. seq']]
  <2>1. SoundCalls' \subseteq {NoCall} \cup [step : {"submitted", "absent"}, tx : Txs]
                              \cup [step : {"numbered"}, tx : Txs, read : 0 .. seq']
    BY DEF SoundCalls, Permitted
  <2> QED
    BY <1>6, <2>1
<1> QED
  BY <1>2, <1>4, <1>6, <1>7, <1>8, <1>9 DEF IInv, TypeOK

LEMMA RemovePreserves ==
  ASSUME IInv, NEW t \in Txs, Remove(t)
  PROVE  IInv'
<1> DEFINE n == index[t]
<1>1. /\ UNCHANGED <<seq, caller, replayed, startsLeft>> /\ t \in DOMAIN index
      /\ pending' = [k \in DOMAIN pending \ {n} |-> pending[k]]
      /\ index' = [u \in DOMAIN index \ {t} |-> index[u]]
      /\ accepted' = accepted \ {t}
  BY DEF Remove, Restrict
<1>2. /\ DOMAIN pending \subseteq 1 .. seq /\ \A k \in DOMAIN pending : pending[k] \in Txs
      /\ DOMAIN index \subseteq Txs /\ \A u \in DOMAIN index : index[u] \in 1 .. seq
  BY DEF IInv, TypeOK, Range
<1>3. \A u \in accepted \ {t} : index[u] # n
  BY <1>1 DEF IInv, Indexed
<1>4. Indexed'
  BY <1>1, <1>3 DEF IInv, Indexed
<1>5. TypeOK'
  BY <1>1, <1>2 DEF IInv, TypeOK, Range
<1>6. caller' \in [Callers -> SoundCalls']
  BY <1>1 DEF IInv, SoundCalls
<1> QED
  BY <1>4, <1>5, <1>6 DEF IInv

----------------------------------------------------------------------------
\* The queue lists what is under the sequence numbers, by ascending number.
LEMMA QueueIsOrdered ==
  ASSUME PersistentMempoolAssumption, TypeOK
  PROVE  /\ Range(Queue) \subseteq Txs
         /\ \A m \in DOMAIN pending : pending[m] \in Range(Queue)
         /\ \A m, n \in DOMAIN pending : m < n => Ahead(Queue, pending[m], pending[n])
<1> DEFINE K == DOMAIN pending
           numbers == Ascending(K)
           c == Cardinality(K)
<1>1. seq \in Nat /\ K \in SUBSET (1 .. seq) /\ \A n \in K : n \in Nat /\ pending[n] \in Txs
  BY Bounds DEF TypeOK, Range
<1>2. numbers \in [1 .. c -> K] /\ IsAscending(numbers, K)
  <2>1. \E pos \in [1 .. Cardinality(K) -> K] : IsAscending(pos, K)
    BY <1>1, AscendingExists
  <2> QED
    BY <2>1 DEF Ascending
<1>3. c \in Nat
  <2>1. IsFiniteSet(1 .. seq)
    BY <1>1, FS_Interval
  <2> HIDE DEF K
  <2> QED
    BY <1>1, <2>1, FS_Subset, FS_CardinalityType DEF c
<1> HIDE DEF c
<1>4. DOMAIN numbers = 1 .. c /\ \A i \in 1 .. c : numbers[i] \in K
  BY <1>2
<1>5. Queue = [i \in 1 .. c |-> pending[numbers[i]]]
  BY <1>4 DEF Queue
<1> HIDE DEF numbers
<1>6. \A n \in K : \E i \in 1 .. c : numbers[i] = n /\ Queue[i] = pending[n]
  BY <1>2, <1>4, <1>5 DEF IsAscending
<1>7. Range(Queue) \subseteq Txs /\ \A n \in K : pending[n] \in Range(Queue)
  BY <1>1, <1>4, <1>5, <1>6 DEF Range
<1>8. ASSUME NEW m \in K, NEW n \in K, m < n
      PROVE  Ahead(Queue, pending[m], pending[n])
  <2>1. PICK i \in 1 .. c : numbers[i] = m /\ Queue[i] = pending[m]
    BY <1>6
  <2>2. PICK j \in 1 .. c : numbers[j] = n /\ Queue[j] = pending[n]
    BY <1>6
  <2>3. ~ (j < i) /\ i # j
    BY <1>1, <1>2, <1>4, <1>8, <2>1, <2>2 DEF IsAscending
  <2>4. i < j
    BY <1>3, <2>3
  <2> QED
    BY <1>5, <2>1, <2>2, <2>4 DEF Ahead
<1> QED
  BY <1>7, <1>8

LEMMA RestartPreserves ==
  ASSUME PersistentMempoolAssumption, IInv, Restart
  PROVE  IInv'
<1>1. /\ UNCHANGED <<store, accepted>>
      /\ caller' = [c \in Callers |-> NoCall] /\ replayed' = Queue
      /\ startsLeft > 0 /\ startsLeft' = startsLeft - 1
  BY DEF Restart
<1>2. Range(Queue) \subseteq Txs
  BY QueueIsOrdered DEF IInv
<1>3. startsLeft' \in 0 .. MaxStarts
  BY <1>1, Bounds DEF IInv, TypeOK
<1>4. TypeOK'
  BY <1>1, <1>2, <1>3 DEF store, IInv, TypeOK
<1>5. caller' \in [Callers -> SoundCalls'] /\ Indexed'
  BY <1>1 DEF store, IInv, SoundCalls, Indexed
<1> QED
  BY <1>4, <1>5 DEF IInv

LEMMA NextPreserves ==
  ASSUME PersistentMempoolAssumption
  PROVE  IInv /\ [Next]_vars => IInv'
<1> SUFFICES ASSUME IInv, [Next]_vars PROVE IInv'
  OBVIOUS
<1>1. CASE UNCHANGED vars
  <2>1. TypeOK'
    BY <1>1 DEF vars, store, IInv, TypeOK
  <2>2. caller' \in [Callers -> SoundCalls'] /\ Indexed'
    BY <1>1 DEF vars, store, IInv, SoundCalls, Indexed
  <2> QED
    BY <2>1, <2>2 DEF IInv
<1> QED
  BY <1>1, CallPreserves, CommitPreserves, RemovePreserves, RestartPreserves DEF Next

\* The inductive invariant holds throughout (Add, Remove, Replay).
THEOREM PersistentMempoolInvariant ==
  ASSUME PersistentMempoolAssumption
  PROVE  Spec => []IInv
<1>1. Init => IInv
  BY InitInvariant
<1>2. IInv /\ [Next]_vars => IInv'
  BY NextPreserves
<1> QED
  BY <1>1, <1>2, PTL DEF Spec

\* The variables of the persistent mempool have their types.
THEOREM PersistentMempoolTypeOK ==
  ASSUME PersistentMempoolAssumption
  PROVE  Spec => []TypeOK
<1>1. IInv => TypeOK
  BY DEF IInv
<1> QED
  BY <1>1, PersistentMempoolInvariant, PTL

\* However many calls of Add race over one transaction or over the next number,
\* what was accepted stays in the queue under its own number until it is removed
\* (Add, getNextSequence, Remove).
THEOREM PersistentMempoolAcceptedIsQueued ==
  ASSUME PersistentMempoolAssumption
  PROVE  Spec => []AcceptedIsQueued
<1>1. IInv => AcceptedIsQueued
  BY DEF IInv, Indexed, AcceptedIsQueued
<1> QED
  BY <1>1, PersistentMempoolInvariant, PTL

\* Every start replays all that was accepted, in the order of the numbers (Replay).
THEOREM PersistentMempoolReplayIsComplete ==
  ASSUME PersistentMempoolAssumption
  PROVE  Spec => ReplayIsComplete
<1> DEFINE Complete ==
             startsLeft' # startsLeft =>
               \A t, u \in accepted :
                 /\ t \in Range(replayed')
                 /\ index[t] < index[u] => Ahead(replayed', t, u)
<1>1. IInv /\ [Next]_vars => [Complete]_vars
  <2> SUFFICES ASSUME IInv, Next, startsLeft' # startsLeft PROVE Complete
    OBVIOUS
  <2>1. replayed' = Queue
    BY DEF Next, SubmitTx, Exists, GetNextSequence, Commit, Remove, Restart
  <2>2. /\ \A m \in DOMAIN pending : pending[m] \in Range(Queue)
        /\ \A m, n \in DOMAIN pending : m < n => Ahead(Queue, pending[m], pending[n])
    BY QueueIsOrdered DEF IInv
  <2>3. \A t \in accepted : index[t] \in DOMAIN pending /\ pending[index[t]] = t
    BY DEF IInv, Indexed
  <2> QED
    BY <2>1, <2>2, <2>3
<1>2. Spec => [][Complete]_vars
  BY <1>1, PersistentMempoolInvariant, PTL DEF Spec
<1> QED
  BY <1>2 DEF ReplayIsComplete

----------------------------------------------------------------------------
(***************************************************************************)
(* The keystore.                                                           *)
(***************************************************************************)
KeyMaps ==
  UNION {[D -> [by : 0 .. MaxCommands, encrypted : {KS!EncryptKey}]] : D \in SUBSET Aliases}

KeyOps == {"init", "gen", "import", "list", "sign"}

KeyCommands ==
  {KS!NoCommand} \cup [step : {"open"}, op : KeyOps, alias : Aliases]
    \cup [step : {"use"}, op : KeyOps, alias : Aliases, entries : KeyMaps]
    \cup [step : {"truncate", "write"}, op : {"gen", "import"}, alias : Aliases,
          entries : KeyMaps]

\* What was reported, and not raced for, is in a copy of the index.
Carries(f) ==
  \A a \in DOMAIN reported \ raced : a \in DOMAIN f /\ f[a] = reported[a]

\* A command that may write carries what was reported since it has read the index: a
\* report while it held its copy was raced for.  What it writes has its own key.
SoundCommand(c) ==
  /\ c \in KeyCommands
  /\ c.step \in {"use", "truncate", "write"} /\ c.op \in {"gen", "import"} => Carries(c.entries)
  /\ c.step \in {"truncate", "write"} => c.alias \in DOMAIN c.entries

KeyFile ==
  /\ form \in {"none", "cut", "list"} /\ keys \in KeyMaps
  /\ form # "list" => keys = <<>>
  /\ form = "none" => reported = <<>>
  /\ form = "list" => Carries(keys)

KeyReports ==
  /\ reported \in KeyMaps /\ raced \subseteq DOMAIN reported /\ signed \subseteq Aliases
  /\ left \in [commands : 0 .. MaxCommands, errors : 0 .. MaxErrors]

KeyInv ==
  /\ KeyFile /\ KeyReports
  /\ command \in [Processes -> KeyCommands]
  /\ \A p \in Processes : SoundCommand(command[p])

LEMMA KeyBounds ==
  ASSUME KS!KeystoreAssumption
  PROVE  MaxCommands \in Nat /\ MaxErrors \in Nat
BY DEF KS!KeystoreAssumption

LEMMA PutInMaps ==
  ASSUME NEW f \in KeyMaps, NEW a \in Aliases,
         NEW k \in [by : 0 .. MaxCommands, encrypted : {KS!EncryptKey}]
  PROVE  /\ KS!Put(f, a, k) \in KeyMaps /\ DOMAIN KS!Put(f, a, k) = DOMAIN f \cup {a}
         /\ KS!Put(f, a, k)[a] = k
         /\ \A b \in DOMAIN f \ {a} : KS!Put(f, a, k)[b] = f[b]
<1>1. PICK D \in SUBSET Aliases :
        f \in [D -> [by : 0 .. MaxCommands, encrypted : {KS!EncryptKey}]]
  BY DEF KeyMaps
<1>2. KS!Put(f, a, k) \in [D \cup {a} -> [by : 0 .. MaxCommands, encrypted : {KS!EncryptKey}]]
  BY <1>1 DEF KS!Put
<1>3. D \cup {a} \in SUBSET Aliases /\ DOMAIN f = D
  BY <1>1
<1> QED
  BY <1>1, <1>2, <1>3 DEF KS!Put, KeyMaps

LEMMA KeyInit ==
  ASSUME KS!KeystoreAssumption, KS!Init
  PROVE  KeyInv
<1>1. <<>> \in KeyMaps
  <2>1. <<>> \in [{} -> [by : 0 .. MaxCommands, encrypted : {KS!EncryptKey}]]
    OBVIOUS
  <2> QED
    BY <2>1 DEF KeyMaps
<1>2. KeyFile /\ KeyReports
  BY <1>1, KeyBounds DEF KS!Init, KS!NoKeys, KeyFile, KeyReports, Carries
<1>3. \A p \in Processes : command[p] = KS!NoCommand
  BY DEF KS!Init
<1>4. SoundCommand(KS!NoCommand)
  BY DEF SoundCommand, KeyCommands, KS!NoCommand
<1> QED
  BY <1>2, <1>3, <1>4 DEF KeyInv, KS!Init, KeyCommands

\* A step after which the file still holds what was reported, and which leaves the other
\* commands alone.
LEMMA KeyCommandChanges ==
  ASSUME KeyInv, NEW p \in Processes, NEW c, SoundCommand(c),
         command' = [command EXCEPT ![p] = c],
         reported' = reported, raced' = raced, KeyFile', KeyReports'
  PROVE  KeyInv'
<1>1. command' \in [Processes -> KeyCommands]
  BY DEF KeyInv, SoundCommand
<1>2. \A q \in Processes : SoundCommand(command'[q])
  BY DEF KeyInv
<1>3. \A q \in Processes : SoundCommand(command[q])'
  BY <1>2 DEF SoundCommand, Carries
<1> QED
  BY <1>1, <1>3 DEF KeyInv

\* A command that ends.
LEMMA KeyFinish ==
  ASSUME KeyInv, NEW p \in Processes, KS!Finish(p),
         reported' = reported, raced' = raced, KeyFile', KeyReports'
  PROVE  KeyInv'
<1>1. SoundCommand(KS!NoCommand)
  BY DEF SoundCommand, KeyCommands, KS!NoCommand
<1> QED
  BY <1>1, KeyCommandChanges DEF KS!Finish

\* The steps that leave the file and the reports alone.
LEMMA KeyUnchanged ==
  ASSUME KeyInv, form' = form, keys' = keys, reported' = reported, raced' = raced,
         signed' \subseteq Aliases, left' \in [commands : 0 .. MaxCommands, errors : 0 .. MaxErrors]
  PROVE  KeyFile' /\ KeyReports'
BY DEF KeyInv, KeyFile, KeyReports, Carries

\* What a command has at each step.
LEMMA CommandSteps ==
  ASSUME NEW c \in KeyCommands
  PROVE  /\ c.step = "open" => c \in [step : {"open"}, op : KeyOps, alias : Aliases]
         /\ c.step = "use" =>
              c \in [step : {"use"}, op : KeyOps, alias : Aliases, entries : KeyMaps]
         /\ c.step \in {"truncate", "write"} =>
              c \in [step : {"truncate", "write"}, op : {"gen", "import"}, alias : Aliases,
                     entries : KeyMaps]
BY DEF KeyCommands, KS!NoCommand

LEMMA KeyBegin ==
  ASSUME KS!KeystoreAssumption, KeyInv, NEW p \in Processes, KS!Begin(p)
  PROVE  KeyInv'
<1>1. PICK op \in KeyOps, a \in Aliases :
        command' = [command EXCEPT ![p] = [step |-> "open", op |-> op, alias |-> a]]
  BY DEF KS!Begin, KeyOps
<1>2. SoundCommand([step |-> "open", op |-> op, alias |-> a])
  BY DEF SoundCommand, KeyCommands
<1>3. left.commands - 1 \in 0 .. MaxCommands
  BY KeyBounds DEF KeyInv, KeyReports, KS!Begin
<1>4. left' \in [commands : 0 .. MaxCommands, errors : 0 .. MaxErrors]
  BY <1>3 DEF KeyInv, KeyReports, KS!Begin
<1>5. /\ form' = form /\ keys' = keys /\ reported' = reported /\ raced' = raced
      /\ signed' \subseteq Aliases
  BY DEF KeyInv, KeyReports, KS!Begin, KS!file
<1> QED
  BY <1>1, <1>2, <1>4, <1>5, KeyUnchanged, KeyCommandChanges

LEMMA KeyNew ==
  ASSUME KeyInv, NEW p \in Processes, KS!New(p)
  PROVE  KeyInv'
<1>1. /\ form' = form /\ keys' = keys /\ reported' = reported /\ raced' = raced
      /\ signed' \subseteq Aliases
      /\ left' \in [commands : 0 .. MaxCommands, errors : 0 .. MaxErrors]
  BY DEF KeyInv, KeyReports, KS!New, KS!file
<1>2. KeyFile' /\ KeyReports'
  BY <1>1, KeyUnchanged
<1>3. CASE KS!Finish(p)
  BY <1>1, <1>2, <1>3, KeyFinish
<1>4. CASE form # "cut" /\ ~ KS!Finish(p)
  <2> DEFINE c == [step |-> "use", op |-> command[p].op, alias |-> command[p].alias,
                   entries |-> keys]
  <2>1. command' = [command EXCEPT ![p] = c]
    BY <1>4 DEF KS!New
  <2>2. command[p] \in [step : {"open"}, op : KeyOps, alias : Aliases]
    BY CommandSteps DEF KS!New, KeyInv
  <2>3. Carries(keys) /\ keys \in KeyMaps
    BY <1>4 DEF KeyInv, KeyFile, Carries
  <2>4. SoundCommand(c)
    BY <2>2, <2>3 DEF SoundCommand, KeyCommands
  <2> QED
    BY <1>1, <1>2, <2>1, <2>4, KeyCommandChanges
<1> QED
  BY <1>3, <1>4 DEF KS!New, KS!Refused

LEMMA KeyCreate ==
  ASSUME KS!KeystoreAssumption, KeyInv, NEW p \in Processes, KS!Create(p)
  PROVE  KeyInv'
<1>1. /\ form' = form /\ keys' = keys /\ reported' = reported /\ raced' = raced
      /\ signed' \subseteq Aliases
      /\ left' \in [commands : 0 .. MaxCommands, errors : 0 .. MaxErrors]
  BY DEF KeyInv, KeyReports, KS!Create, KS!file
<1>2. KeyFile' /\ KeyReports'
  BY <1>1, KeyUnchanged
<1>3. CASE KS!Finish(p)
  BY <1>1, <1>2, <1>3, KeyFinish
<1>4. CASE command[p].alias \notin DOMAIN command[p].entries /\ ~ KS!Finish(p)
  <2> DEFINE k == [by |-> left.commands, encrypted |-> KS!EncryptKey]
             e == KS!Put(command[p].entries, command[p].alias, k)
             c == [step |-> "truncate", op |-> command[p].op, alias |-> command[p].alias,
                   entries |-> e]
  <2>1. command[p] \in [step : {"use"}, op : KeyOps, alias : Aliases, entries : KeyMaps]
    BY CommandSteps DEF KS!Create, KeyInv
  <2>2. command' = [command EXCEPT ![p] = c]
    BY <1>4, <2>1 DEF KS!Create, KeyInv
  <2>3. k \in [by : 0 .. MaxCommands, encrypted : {KS!EncryptKey}]
    BY DEF KeyInv, KeyReports
  <2>4. /\ e \in KeyMaps /\ command[p].alias \in DOMAIN e
        /\ \A b \in DOMAIN command[p].entries : b \in DOMAIN e /\ e[b] = command[p].entries[b]
    <3>1. command[p].entries \in KeyMaps /\ command[p].alias \in Aliases
      BY <2>1
    <3>2. /\ e \in KeyMaps /\ DOMAIN e = DOMAIN command[p].entries \cup {command[p].alias}
          /\ \A b \in DOMAIN command[p].entries \ {command[p].alias} :
               e[b] = command[p].entries[b]
      <4> DEFINE f == command[p].entries
                 a == command[p].alias
      <4>1. f \in KeyMaps /\ a \in Aliases
        BY <3>1
      <4>2. k \in [by : 0 .. MaxCommands, encrypted : {KS!EncryptKey}]
        BY <2>3
      <4> HIDE DEF f, a, k
      <4>3. /\ KS!Put(f, a, k) \in KeyMaps /\ DOMAIN KS!Put(f, a, k) = DOMAIN f \cup {a}
            /\ \A b \in DOMAIN f \ {a} : KS!Put(f, a, k)[b] = f[b]
        BY <4>1, <4>2, PutInMaps
      <4> QED
        BY <4>3 DEF f, a
    <3> HIDE DEF e
    <3> QED
      BY <1>4, <3>2
  <2>5. Carries(command[p].entries) /\ command[p].op \in {"gen", "import"}
    BY DEF KS!Create, KeyInv, SoundCommand
  <2> HIDE DEF e
  <2>6. SoundCommand(c)
    BY <2>1, <2>4, <2>5 DEF SoundCommand, KeyCommands, Carries
  <2> QED
    BY <1>1, <1>2, <2>2, <2>6, KeyCommandChanges
<1> QED
  BY <1>3, <1>4 DEF KS!Create

LEMMA KeyShowSignFail ==
  ASSUME KS!KeystoreAssumption, KeyInv, NEW p \in Processes,
         KS!Show(p) \/ KS!Sign(p) \/ KS!Fail(p)
  PROVE  KeyInv'
<1>1. KS!Finish(p) /\ form' = form /\ keys' = keys /\ reported' = reported /\ raced' = raced
  BY DEF KS!Show, KS!Sign, KS!Fail, KS!file
<1>2. signed' \subseteq Aliases
  <2>1. CASE KS!Sign(p)
    <3>1. command[p] \in [step : {"use"}, op : KeyOps, alias : Aliases, entries : KeyMaps]
      BY <2>1, CommandSteps DEF KS!Sign, KeyInv
    <3> QED
      BY <2>1, <3>1 DEF KS!Sign, KeyInv, KeyReports
  <2> QED
    BY <2>1 DEF KS!Show, KS!Fail, KeyInv, KeyReports
<1>3. left' \in [commands : 0 .. MaxCommands, errors : 0 .. MaxErrors]
  <2>1. CASE KS!Fail(p)
    <3>1. left.errors - 1 \in 0 .. MaxErrors
      BY <2>1, KeyBounds DEF KS!Fail, KeyInv, KeyReports
    <3> QED
      BY <2>1, <3>1 DEF KS!Fail, KeyInv, KeyReports
  <2> QED
    BY <2>1 DEF KS!Show, KS!Sign, KeyInv, KeyReports
<1> QED
  BY <1>1, <1>2, <1>3, KeyUnchanged, KeyFinish

LEMMA KeyTruncate ==
  ASSUME KeyInv, NEW p \in Processes, KS!Truncate(p)
  PROVE  KeyInv'
<1> DEFINE c == [step |-> "write", op |-> command[p].op, alias |-> command[p].alias,
                 entries |-> command[p].entries]
<1>1. command[p] \in [step : {"truncate", "write"}, op : {"gen", "import"}, alias : Aliases,
                      entries : KeyMaps]
  BY CommandSteps DEF KS!Truncate, KeyInv
<1>2. command' = [command EXCEPT ![p] = c]
  <2>1. [command[p] EXCEPT !.step = "write"] = c
    BY <1>1
  <2>2. command' = [command EXCEPT ![p] = [command[p] EXCEPT !.step = "write"]]
    BY DEF KS!Truncate
  <2> QED
    BY <2>1, <2>2
<1>3. SoundCommand(c)
  BY <1>1 DEF KS!Truncate, KeyInv, SoundCommand, KeyCommands
<1>4. KeyFile' /\ KeyReports' /\ reported' = reported /\ raced' = raced
  <2>1. <<>> \in KeyMaps
    <3>1. <<>> \in [{} -> [by : 0 .. MaxCommands, encrypted : {KS!EncryptKey}]]
      OBVIOUS
    <3> QED
      BY <3>1 DEF KeyMaps
  <2> QED
    BY <2>1 DEF KS!Truncate, KS!NoKeys, KeyInv, KeyFile, KeyReports
<1> QED
  BY <1>2, <1>3, <1>4, KeyCommandChanges

\* A report: the commands that hold a copy of the index from before are raced for.
LEMMA KeyWrite ==
  ASSUME KeyInv, NEW p \in Processes, KS!Write(p)
  PROVE  KeyInv'
<1> DEFINE a == command[p].alias
           e == command[p].entries
<1>1. a \in Aliases /\ e \in KeyMaps /\ a \in DOMAIN e /\ Carries(e)
  <2>1. command[p] \in [step : {"truncate", "write"}, op : {"gen", "import"}, alias : Aliases,
                        entries : KeyMaps]
    BY CommandSteps DEF KS!Write, KeyInv
  <2> QED
    BY <2>1 DEF KS!Write, KeyInv, SoundCommand
<1>2. /\ reported' = KS!Put(reported, a, e[a])
      /\ raced' = IF KS!Holders = {p} THEN raced ELSE raced \cup {a}
      /\ \/ form' = "list" /\ keys' = e
         \/ form' = "cut" /\ keys' = <<>>
      /\ command' = [command EXCEPT ![p] = KS!NoCommand]
      /\ signed' = signed /\ left' = left
  BY DEF KS!Write, KS!NoKeys, KS!Finish
<1>3. e[a] \in [by : 0 .. MaxCommands, encrypted : {KS!EncryptKey}]
  BY <1>1 DEF KeyMaps
<1>4. p \in KS!Holders
  <2>1. command[p].op \in {"gen", "import"}
    BY CommandSteps DEF KS!Write, KeyInv
  <2> QED
    BY <2>1 DEF KS!Write, KS!Holders
<1> HIDE DEF a, e
<1>5. /\ reported' \in KeyMaps /\ DOMAIN reported' = DOMAIN reported \cup {a}
      /\ reported'[a] = e[a]
      /\ \A b \in DOMAIN reported \ {a} : reported'[b] = reported[b]
  <2> DEFINE f == reported
             k == e[a]
  <2>1. f \in KeyMaps
    BY DEF KeyInv, KeyReports
  <2>2. k \in [by : 0 .. MaxCommands, encrypted : {KS!EncryptKey}]
    BY <1>3
  <2> HIDE DEF f, k
  <2>3. /\ KS!Put(f, a, k) \in KeyMaps /\ DOMAIN KS!Put(f, a, k) = DOMAIN f \cup {a}
        /\ KS!Put(f, a, k)[a] = k
        /\ \A b \in DOMAIN f \ {a} : KS!Put(f, a, k)[b] = f[b]
    BY <1>1, <2>1, <2>2, PutInMaps
  <2> QED
    BY <1>2, <2>3 DEF f, k
<1>6. raced \subseteq raced' /\ raced' \subseteq DOMAIN reported'
  BY <1>2, <1>5 DEF KeyInv, KeyReports
<1>7. \A b \in DOMAIN reported' \ raced' : b \in DOMAIN e /\ e[b] = reported'[b]
  BY <1>1, <1>5, <1>6 DEF Carries
<1>8. <<>> \in KeyMaps
  <2>1. <<>> \in [{} -> [by : 0 .. MaxCommands, encrypted : {KS!EncryptKey}]]
    OBVIOUS
  <2> QED
    BY <2>1 DEF KeyMaps
<1>9. KeyFile'
  BY <1>1, <1>2, <1>7, <1>8 DEF KeyFile, Carries
<1>10. KeyReports'
  BY <1>2, <1>5, <1>6 DEF KeyInv, KeyReports
<1>11. ASSUME NEW q \in Processes
       PROVE  command'[q] \in KeyCommands /\ SoundCommand(command[q])'
  <2>1. CASE q = p
    <3>1. command'[q] = KS!NoCommand
      BY <1>2, <2>1 DEF KeyInv
    <3> QED
      BY <3>1 DEF SoundCommand, KeyCommands, KS!NoCommand
  <2>2. CASE q # p
    <3>1. command'[q] = command[q] /\ SoundCommand(command[q])
      BY <1>2, <2>2 DEF KeyInv
    <3>2. ASSUME command[q].step \in {"use", "truncate", "write"},
                 command[q].op \in {"gen", "import"}
          PROVE  \A b \in DOMAIN reported' \ raced' :
                   b \in DOMAIN command[q].entries /\ command[q].entries[b] = reported'[b]
      <4>1. a \in raced'
        BY <1>2, <2>2, <3>2 DEF KS!Holders
      <4>2. Carries(command[q].entries)
        BY <3>1, <3>2 DEF SoundCommand
      <4> QED
        BY <1>5, <1>6, <4>1, <4>2 DEF Carries
    <3> QED
      BY <3>1, <3>2 DEF SoundCommand, Carries
  <2> QED
    BY <2>1, <2>2
<1> QED
  BY <1>2, <1>9, <1>10, <1>11 DEF KeyInv

LEMMA KeyNext ==
  ASSUME KS!KeystoreAssumption, KeyInv, KS!Next
  PROVE  KeyInv'
BY KeyBegin, KeyNew, KeyCreate, KeyShowSignFail, KeyTruncate, KeyWrite DEF KS!Next

\* Only the keystore's own steps change what it keeps.
LEMMA KeyStep ==
  ASSUME KS!KeystoreAssumption, part = "keys" => KeyInv, [StorageNext]_storageVars
  PROVE  (part = "keys" => KeyInv)'
<1> SUFFICES ASSUME part' = "keys" PROVE KeyInv'
  OBVIOUS
<1>1. CASE StorageNext
  <2>1. part = "keys" /\ KS!Next
    BY <1>1 DEF StorageNext
  <2> QED
    BY <2>1, KeyNext
<1>2. CASE UNCHANGED storageVars
  <2>1. part = "keys" /\ UNCHANGED keystore
    BY <1>2 DEF storageVars
  <2> QED
    BY <2>1 DEF KeyInv, KeyFile, KeyReports, Carries, SoundCommand, keystore
<1> QED
  BY <1>1, <1>2

THEOREM StorageKeyInvariant ==
  ASSUME KS!KeystoreAssumption
  PROVE  StorageSpec => [](part = "keys" => KeyInv)
<1>1. StorageInit => (part = "keys" => KeyInv)
  BY KeyInit DEF StorageInit
<1>2. (part = "keys" => KeyInv) /\ [StorageNext]_storageVars => (part = "keys" => KeyInv)'
  BY KeyStep
<1> QED
  BY <1>1, <1>2, PTL DEF StorageSpec

\* A key that a command reported as stored stays as it was stored, while the file can be
\* read, whatever other commands are cut short (saveIndex, loadIndex).  Left out are keys
\* of commands that ran at the same time.
THEOREM StorageKeysSurvive ==
  ASSUME KS!KeystoreAssumption
  PROVE  StorageSpec => []KeysSurvive
<1>1. (part = "keys" => KeyInv) => KeysSurvive
  BY DEF KeyInv, KeyFile, Carries, KeysSurvive, KS!KeysSurvive
<1> QED
  BY <1>1, StorageKeyInvariant, PTL

----------------------------------------------------------------------------
(***************************************************************************)
(* The process of a node: what is open while calls are under way.          *)
(***************************************************************************)
LEMMA SameRange == \A f : ND!Range(f) = Range(f)
BY DEF ND!Range, Range

LEMMA SameCardinality == \A S : ND!Cardinality(S) = Cardinality(S)
BY DEF ND!Cardinality, ND!IsFiniteSet, Cardinality, IsFiniteSet

LEMMA NodeBounds ==
  ASSUME ND!NodeAssumption
  PROVE  /\ Burst \in Nat /\ Rps \in Nat /\ MaxCalls \in Nat /\ MaxSeconds \in Nat
         /\ MaxCleanups \in Nat /\ IsFiniteSet(Connections)
BY DEF ND!NodeAssumption, ND!IsFiniteSet, IsFiniteSet

\* With its last member a list is complete.
LEMMA LastPart ==
  ASSUME NEW S, NEW s \in Seq(S), NEW i \in DOMAIN s, i = Len(s)
  PROVE  Range(SubSeq(s, 1, i - 1)) \cup {s[i]} = Range(s)
<1>1. i \in Nat \ {0} /\ DOMAIN s = 1 .. i /\ \A j \in 1 .. i : s[j] \in S
  BY LenProperties
<1>2. /\ DOMAIN SubSeq(s, 1, i - 1) = 1 .. i - 1
      /\ \A j \in 1 .. i - 1 : SubSeq(s, 1, i - 1)[j] = s[j]
  <2>1. SubSeq(s, 1, i - 1) = [j \in 1 .. i - 1 |-> s[j]]
    BY <1>1
  <2> QED
    BY <2>1
<1>3. 1 .. i = (1 .. i - 1) \cup {i}
  BY <1>1
<1> QED
  BY <1>1, <1>2, <1>3 DEF Range

LEMMA ListOfLength ==
  ASSUME NEW S, NEW n \in Nat, NEW f \in [1 .. n -> S]
  PROVE  f \in Seq(S) /\ Len(f) = n
OBVIOUS

LEMMA PartsAreList ==
  /\ ND!Parts \in Seq({"store", "sequencer", "mempool", "indexer"})
  /\ ND!Parts # <<>>
<1>1. CASE role = "sequencer"
  <2>1. ND!Parts = <<"store", "sequencer", "mempool">>
    BY <1>1 DEF ND!Parts
  <2> QED
    BY <2>1
<1>2. CASE role # "sequencer"
  <2>1. ND!Parts = <<"store", "indexer">>
    BY <1>2 DEF ND!Parts
  <2> QED
    BY <2>1
<1> QED
  BY <1>1, <1>2

NodeCalls ==
  {ND!NoCall} \cup [step : {"key", "limiter", "allow", "cors", "handle", "stuck"},
                    client : Clients, kind : Kinds, keyed : BOOLEAN, bucket : Nat]

NodeTypes ==
  /\ role \in {"sequencer", "follower"} /\ hasKeys \in BOOLEAN /\ rate \in {0, Rps}
  /\ at \in {"opening", "opened", "serving", "draining", "closing", "failed", "ended"}
  /\ open \subseteq Range(ND!Parts) /\ server \in {"off", "up", "down"}
  /\ signalled \in BOOLEAN /\ gaveUp \in BOOLEAN /\ lock \in {"free", "kept"}
  /\ calling \in [Connections -> NodeCalls]

\* Everything is open while the server is or drains, and calls are under way only then,
\* unless Shutdown gave up.
ServesOpen ==
  /\ at \in {"opened", "serving", "draining"} => open = Range(ND!Parts)
  /\ server = "up" => at = "serving"
  /\ ~gaveUp /\ at \notin {"serving", "draining"} =>
       \A r \in Connections : calling[r] = ND!NoCall

\* Where a call that came through getLimiter holds a bucket that is not in the map.
Stale(c) ==
  {r \in Connections : /\ calling[r].step = "allow" /\ calling[r].client = c
                       /\ calling[r].bucket # limiters[c]}

Tokens(c) == IF limiters[c] = 0 THEN Burst ELSE buckets[limiters[c]]

RateTypes ==
  /\ limiters \in [Clients -> Nat] /\ \A c \in Clients : limiters[c] =< Len(buckets)
  /\ buckets \in Seq(0 .. Burst)
  /\ since \in [Clients -> [through : Nat, seconds : Nat, held : Nat]]

\* No two clients share a bucket, and a call holds none of another client.
OwnBuckets ==
  /\ \A c, d \in Clients : limiters[c] # 0 /\ limiters[c] = limiters[d] => c = d
  /\ \A r \in Connections : calling[r] # ND!NoCall =>
       /\ calling[r].bucket =< Len(buckets)
       /\ calling[r].step = "allow" =>
            /\ calling[r].bucket # 0
            /\ \A c \in Clients : calling[r].bucket = limiters[c] => calling[r].client = c

\* What a client was let through for, can be, and may yet be on buckets removed.
RateCounted ==
  \A c \in Clients :
    since[c].through + Tokens(c) + Cardinality(Stale(c))
      =< Burst + rate * since[c].seconds + since[c].held

RateInv == RateTypes /\ OwnBuckets /\ RateCounted

NodeInv == NodeTypes /\ ServesOpen /\ RateInv

\* A second adds the rate.
LEMMA Refill ==
  ASSUME NEW b \in Nat, NEW r \in Nat, NEW n \in Nat, NEW h \in Nat
  PROVE  b + r * n + h \in Nat /\ b + r * (n + 1) + h = (b + r * n + h) + r
<1>1. r * n \in Nat /\ r * (n + 1) = r * n + r
  OBVIOUS
<1> DEFINE m == r * n
<1>2. m \in Nat
  BY <1>1
<1> HIDE DEF m
<1>3. b + m + h \in Nat /\ b + (m + r) + h = (b + m + h) + r
  BY <1>2
<1> QED
  BY <1>1, <1>3 DEF m

LEMMA StaleFinite ==
  ASSUME ND!NodeAssumption, NEW c
  PROVE  IsFiniteSet(Stale(c)) /\ Cardinality(Stale(c)) \in Nat
<1>1. Stale(c) \subseteq Connections /\ IsFiniteSet(Connections)
  BY NodeBounds DEF Stale
<1> QED
  BY <1>1, FS_Subset, FS_CardinalityType

LEMMA NodeInit ==
  ASSUME ND!NodeAssumption, ND!Init
  PROVE  NodeInv
<1>1. NodeTypes
  BY DEF ND!Init, NodeTypes, NodeCalls
<1>2. ServesOpen
  BY DEF ND!Init, ServesOpen
<1>3. \A r \in Connections : calling[r] = ND!NoCall
  BY DEF ND!Init
<1>4. RateTypes /\ OwnBuckets
  <2>1. buckets \in Seq(0 .. Burst) /\ Len(buckets) = 0
    BY DEF ND!Init
  <2>2. RateTypes
    BY <2>1 DEF ND!Init, RateTypes
  <2> QED
    BY <1>3, <2>2 DEF ND!Init, OwnBuckets
<1>5. ASSUME NEW c \in Clients
      PROVE  since[c].through + Tokens(c) + Cardinality(Stale(c))
               =< Burst + rate * since[c].seconds + since[c].held
  <2>1. Stale(c) = {}
    BY <1>3 DEF Stale, ND!NoCall
  <2>2. Cardinality(Stale(c)) = 0
    BY <2>1, FS_EmptySet
  <2>3. since[c].through = 0 /\ since[c].seconds = 0 /\ since[c].held = 0 /\ Tokens(c) = Burst
    BY DEF ND!Init, Tokens
  <2>4. rate \in Nat /\ Burst \in Nat
    BY NodeBounds DEF ND!Init
  <2> QED
    BY <2>2, <2>3, <2>4
<1> QED
  BY <1>1, <1>2, <1>4, <1>5 DEF NodeInv, RateInv, RateCounted

LEMMA TokensType ==
  ASSUME ND!NodeAssumption, RateTypes, NEW c \in Clients
  PROVE  /\ Tokens(c) \in 0 .. Burst /\ Tokens(c) \in Nat
         /\ limiters[c] # 0 => limiters[c] \in 1 .. Len(buckets)
<1>1. /\ Burst \in Nat /\ Len(buckets) \in Nat
      /\ limiters[c] \in Nat /\ limiters[c] =< Len(buckets)
      /\ \A i \in 1 .. Len(buckets) : buckets[i] \in 0 .. Burst
  BY NodeBounds, LenProperties DEF RateTypes
<1>2. limiters[c] # 0 => limiters[c] \in 1 .. Len(buckets)
  BY <1>1
<1>3. Tokens(c) \in 0 .. Burst
  BY <1>1, <1>2 DEF Tokens
<1> QED
  BY <1>1, <1>2, <1>3

\* A client with no more tokens and no more calls on removed buckets counts no more.
LEMMA CountKept ==
  ASSUME ND!NodeAssumption, RateInv, rate \in Nat, rate' = rate, NEW c \in Clients,
         since'[c] = since[c], Stale(c)' \subseteq Stale(c),
         Tokens(c)' \in Nat, Tokens(c)' =< Tokens(c)
  PROVE  (since[c].through + Tokens(c) + Cardinality(Stale(c))
            =< Burst + rate * since[c].seconds + since[c].held)'
<1>1. Cardinality(Stale(c)') =< Cardinality(Stale(c)) /\ Cardinality(Stale(c)) \in Nat
      /\ Cardinality(Stale(c)') \in Nat
  BY StaleFinite, FS_Subset, FS_CardinalityType
<1>2. Tokens(c) \in Nat /\ since[c].through \in Nat
  BY NodeBounds DEF RateInv, RateTypes, Tokens
<1> DEFINE a == Burst + rate * since[c].seconds + since[c].held
<1>3. a \in Nat
  <2>1. since[c].seconds \in Nat /\ since[c].held \in Nat /\ Burst \in Nat
    BY NodeBounds DEF RateInv, RateTypes
  <2> QED
    BY <2>1, Refill
<1>4. since[c].through + Tokens(c) + Cardinality(Stale(c)) =< a
  BY DEF RateInv, RateCounted
<1>5. a' = a
  OBVIOUS
<1> HIDE DEF a
<1>6. since[c].through + Tokens(c)' + Cardinality(Stale(c)') =< a
  BY <1>1, <1>2, <1>3, <1>4
<1> QED
  BY <1>5, <1>6 DEF a

\* Calls that end, or go on to a step where they hold no bucket, count no more.
LEMMA RateCalls ==
  ASSUME ND!NodeAssumption, RateInv, rate \in Nat, UNCHANGED <<rate, limiters, buckets, since>>,
         \A r \in Connections :
           \/ calling'[r] = calling[r]
           \/ calling'[r] = ND!NoCall
           \/ calling'[r].step # "allow" /\ calling'[r].bucket =< Len(buckets)
  PROVE  RateInv'
<1>1. RateTypes'
  BY DEF RateInv, RateTypes
<1>2. OwnBuckets'
  BY DEF RateInv, OwnBuckets, ND!NoCall
<1>3. ASSUME NEW c \in Clients
      PROVE  (since[c].through + Tokens(c) + Cardinality(Stale(c))
                =< Burst + rate * since[c].seconds + since[c].held)'
  <2>1. Stale(c)' \subseteq Stale(c)
    BY DEF Stale, ND!NoCall
  <2>2. Tokens(c)' = Tokens(c) /\ Tokens(c) \in Nat
    BY NodeBounds DEF RateInv, RateTypes, Tokens
  <2> QED
    BY <2>1, <2>2, CountKept
<1> QED
  BY <1>1, <1>2, <1>3 DEF RateInv, RateCounted

LEMMA RateIsNat ==
  ASSUME ND!NodeAssumption, NodeTypes
  PROVE  rate \in Nat
BY NodeBounds DEF NodeTypes

\* A part is opened, and with the last one all are open.
LEMMA NodeOpens ==
  ASSUME NodeTypes, ServesOpen, ND!OpenNext
  PROVE  NodeTypes' /\ ServesOpen'
<1>1. PICK i \in DOMAIN ND!Parts :
        /\ Range(SubSeq(ND!Parts, 1, i - 1)) = open
        /\ open' = open \cup {ND!Parts[i]}
        /\ at' = IF i = Len(ND!Parts) THEN "opened" ELSE at
  BY SameRange DEF ND!OpenNext
<1>2. /\ at = "opening"
      /\ UNCHANGED <<role, hasKeys, rate, server, signalled, gaveUp, lock, calling>>
  BY DEF ND!OpenNext, ND!configVars
<1>3. ND!Parts' = ND!Parts
  BY <1>2 DEF ND!Parts
<1>4. i = Len(ND!Parts) => open' = Range(ND!Parts)
  BY <1>1, LastPart, PartsAreList
<1>5. open' \subseteq Range(ND!Parts)
  BY <1>1 DEF NodeTypes, Range
<1>6. at' \in {"opening", "opened"} /\ (at' = "opened" => open' = Range(ND!Parts))
  BY <1>1, <1>2, <1>4
<1>7. NodeTypes'
  BY <1>2, <1>3, <1>5, <1>6 DEF NodeTypes
<1>8. ServesOpen'
  BY <1>2, <1>3, <1>6 DEF ServesOpen
<1> QED
  BY <1>7, <1>8

\* The node goes from phase to phase with the same parts open.
LEMMA NodePhases ==
  ASSUME NodeTypes, ServesOpen,
         \/ ND!OpenFails \/ ND!StartServer \/ ND!Signal \/ ND!StopServer
         \/ ND!Drained \/ ND!ShutdownTimesOut
  PROVE  NodeTypes' /\ ServesOpen'
<1>1. UNCHANGED <<role, hasKeys, rate, open, lock, calling>>
  BY DEF ND!OpenFails, ND!StartServer, ND!Signal, ND!StopServer, ND!Drained, ND!ShutdownTimesOut,
         ND!configVars
<1>2. ND!Parts' = ND!Parts
  BY <1>1 DEF ND!Parts
<1>3. NodeTypes'
  BY <1>1, <1>2
     DEF NodeTypes, ND!OpenFails, ND!StartServer, ND!Signal, ND!StopServer, ND!Drained,
         ND!ShutdownTimesOut
<1>4. ServesOpen'
  <2>1. CASE ND!OpenFails
    BY <1>1, <1>2, <2>1 DEF NodeTypes, ServesOpen, ND!OpenFails
  <2>2. CASE ND!StartServer
    BY <1>1, <1>2, <2>2 DEF NodeTypes, ServesOpen, ND!StartServer
  <2>3. CASE ND!Signal
    BY <1>1, <1>2, <2>3 DEF ServesOpen, ND!Signal
  <2>4. CASE ND!StopServer
    BY <1>1, <1>2, <2>4 DEF NodeTypes, ServesOpen, ND!StopServer
  <2>5. CASE ND!Drained
    BY <1>1, <1>2, <2>5 DEF NodeTypes, ServesOpen, ND!Drained
  <2>6. CASE ND!ShutdownTimesOut
    BY <1>1, <1>2, <2>6 DEF NodeTypes, ServesOpen, ND!ShutdownTimesOut
  <2> QED
    BY <2>1, <2>2, <2>3, <2>4, <2>5, <2>6
<1> QED
  BY <1>3, <1>4

\* Parts are closed when the server is gone.
LEMMA NodeCloses ==
  ASSUME NodeTypes, ServesOpen, ND!CloseNext \/ ND!Exit
  PROVE  NodeTypes' /\ ServesOpen'
<1>1. UNCHANGED <<role, hasKeys, rate, server, signalled, gaveUp, lock>>
  BY DEF ND!CloseNext, ND!Exit, ND!configVars
<1>2. ND!Parts' = ND!Parts
  BY <1>1 DEF ND!Parts
<1>3. at \in {"closing", "failed"} /\ at' \in {at, "ended"} /\ open' \subseteq open
  BY DEF ND!CloseNext, ND!Exit
<1>4. \/ calling' = calling
      \/ calling' = [r \in Connections |-> ND!NoCall]
  BY DEF ND!CloseNext, ND!Exit
<1>5. calling' \in [Connections -> NodeCalls]
  BY <1>4 DEF NodeTypes, NodeCalls
<1>6. NodeTypes'
  BY <1>1, <1>2, <1>3, <1>5 DEF NodeTypes
<1>7. ServesOpen'
  BY <1>1, <1>2, <1>3, <1>4 DEF ServesOpen
<1> QED
  BY <1>6, <1>7

ProcessStep ==
  \/ ND!OpenNext \/ ND!OpenFails \/ ND!StartServer \/ ND!Signal \/ ND!StopServer
  \/ ND!Drained \/ ND!ShutdownTimesOut \/ ND!CloseNext \/ ND!Exit

LEMMA ProcessPreserves ==
  ASSUME ND!NodeAssumption, NodeInv, ProcessStep
  PROVE  NodeInv'
<1>1. NodeTypes' /\ ServesOpen'
  BY NodeOpens, NodePhases, NodeCloses DEF NodeInv, ProcessStep
<1>2. UNCHANGED <<rate, limiters, buckets, since>>
  BY DEF ProcessStep, ND!OpenNext, ND!OpenFails, ND!StartServer, ND!Signal, ND!StopServer,
         ND!Drained, ND!ShutdownTimesOut, ND!CloseNext, ND!Exit, ND!configVars, ND!limitVars
<1>3. \A r \in Connections : calling'[r] = calling[r] \/ calling'[r] = ND!NoCall
  BY DEF ProcessStep, ND!OpenNext, ND!OpenFails, ND!StartServer, ND!Signal, ND!StopServer,
         ND!Drained, ND!ShutdownTimesOut, ND!CloseNext, ND!Exit
<1>4. RateInv'
  BY <1>2, <1>3, RateIsNat, RateCalls DEF NodeInv
<1> QED
  BY <1>1, <1>4 DEF NodeInv

CallRecords ==
  [step : {"key", "limiter", "allow", "cors", "handle", "stuck"},
   client : Clients, kind : Kinds, keyed : BOOLEAN, bucket : Nat]

LEMMA CallIsRecord ==
  ASSUME NodeTypes, NEW r \in Connections, calling[r] # ND!NoCall
  PROVE  calling[r] \in CallRecords
BY DEF NodeTypes, NodeCalls, CallRecords

\* A call that arrives at a server that is up, or is under way, takes a step.
LEMMA CallKept ==
  ASSUME NodeTypes, ServesOpen, NEW r \in Connections, NEW n \in NodeCalls,
         calling' = [calling EXCEPT ![r] = n],
         UNCHANGED <<role, hasKeys, rate, at, open, server, signalled, gaveUp>>,
         lock' \in {"free", "kept"}, calling[r] # ND!NoCall \/ server = "up"
  PROVE  NodeTypes' /\ ServesOpen'
<1>1. ND!Parts' = ND!Parts
  BY DEF ND!Parts
<1>2. calling' \in [Connections -> NodeCalls]
  BY DEF NodeTypes
<1>3. NodeTypes'
  BY <1>1, <1>2 DEF NodeTypes
<1>4. gaveUp \/ at \in {"serving", "draining"}
  BY DEF ServesOpen
<1>5. ServesOpen'
  BY <1>1, <1>4 DEF ServesOpen
<1> QED
  BY <1>3, <1>5

\* The steps that neither look a bucket up nor use it.
LEMMA ServedCalls ==
  ASSUME ND!NodeAssumption, NodeInv, NEW r \in Connections,
         ND!Arrive(r) \/ ND!CheckKey(r) \/ ND!Dispatch(r) \/ ND!Handle(r)
  PROVE  NodeInv'
<1>1. /\ UNCHANGED <<role, hasKeys, rate, at, open, server, signalled, gaveUp>>
      /\ UNCHANGED <<rate, limiters, buckets, since>>
      /\ lock' \in {"free", "kept"}
  BY DEF ND!Arrive, ND!CheckKey, ND!Dispatch, ND!Handle, ND!configVars, ND!processVars,
         ND!limitVars, NodeInv, NodeTypes
<1>2. calling[r] # ND!NoCall \/ server = "up"
  BY DEF ND!Arrive, ND!CheckKey, ND!Dispatch, ND!Handle, ND!NoCall
<1>3. PICK n \in NodeCalls :
        /\ calling' = [calling EXCEPT ![r] = n]
        /\ n = ND!NoCall \/ (n.step # "allow" /\ n.bucket =< Len(buckets))
  <2>1. CASE ND!Arrive(r)
    <3>1. PICK c \in Clients, kind \in Kinds, keyed \in {FALSE, hasKeys} :
            calling' = [calling EXCEPT ![r] = [step |-> "key", client |-> c, kind |-> kind,
                                               keyed |-> keyed, bucket |-> 0]]
      BY <2>1 DEF ND!Arrive
    <3>2. keyed \in BOOLEAN
      BY DEF NodeInv, NodeTypes
    <3>3. [step |-> "key", client |-> c, kind |-> kind, keyed |-> keyed, bucket |-> 0]
            \in NodeCalls
      BY <3>2 DEF NodeCalls
    <3>4. 0 =< Len(buckets)
      BY DEF NodeInv, RateInv, RateTypes
    <3> QED
      BY <3>1, <3>3, <3>4
  <2>2. CASE ND!Answer(r)
    <3>1. ND!NoCall \in NodeCalls
      BY DEF NodeCalls
    <3> QED
      BY <2>2, <3>1 DEF ND!Answer
  <2>3. CASE \E step \in {"limiter", "cors", "handle", "stuck"} :
               ND!Continue(r, step) /\ calling[r] # ND!NoCall
    <3>1. PICK step \in {"limiter", "cors", "handle", "stuck"} : ND!Continue(r, step)
      BY <2>3
    <3>2. calling[r] \in CallRecords /\ calling[r].bucket =< Len(buckets)
      BY <2>3, CallIsRecord DEF NodeInv, RateInv, OwnBuckets
    <3> DEFINE n == [calling[r] EXCEPT !.step = step]
    <3>3. n \in CallRecords /\ n.step = step /\ n.bucket = calling[r].bucket
      BY <3>2 DEF CallRecords
    <3>4. n \in NodeCalls
      BY <3>3 DEF CallRecords, NodeCalls
    <3>5. calling' = [calling EXCEPT ![r] = n]
      BY <3>1 DEF ND!Continue
    <3> HIDE DEF n
    <3> QED
      BY <3>2, <3>3, <3>4, <3>5
  <2> QED
    BY <2>1, <2>2, <2>3 DEF ND!CheckKey, ND!Dispatch, ND!Handle, ND!NoCall
<1>4. NodeTypes' /\ ServesOpen'
  BY <1>1, <1>2, <1>3, CallKept DEF NodeInv
<1>5. \A q \in Connections :
        \/ calling'[q] = calling[q]
        \/ calling'[q] = ND!NoCall
        \/ calling'[q].step # "allow" /\ calling'[q].bucket =< Len(buckets)
  BY <1>3 DEF NodeInv, NodeTypes
<1>6. RateInv'
  BY <1>1, <1>5, RateIsNat, RateCalls DEF NodeInv
<1> QED
  BY <1>4, <1>6 DEF NodeInv

\* getLimiter gives the client's bucket, or a new one.
LEMMA LimiterPreserves ==
  ASSUME ND!NodeAssumption, NodeInv, NEW r \in Connections, ND!GetLimiter(r)
  PROVE  NodeInv'
<1> DEFINE d == calling[r].client
           known == limiters[d] # 0
           b == IF known THEN limiters[d] ELSE Len(buckets) + 1
           n == [calling[r] EXCEPT !.bucket = b, !.step = "allow"]
<1>1. calling[r] \in CallRecords /\ calling[r] # ND!NoCall /\ d \in Clients
  BY CallIsRecord DEF ND!GetLimiter, ND!NoCall, NodeInv, CallRecords
<1>2. /\ limiters' = [limiters EXCEPT ![d] = b]
      /\ calling' = [calling EXCEPT ![r] = n]
      /\ buckets' = IF known THEN buckets ELSE Append(buckets, Burst)
      /\ UNCHANGED <<role, hasKeys, rate, at, open, server, signalled, gaveUp>>
      /\ lock' = lock /\ since' = since
  BY DEF ND!GetLimiter, ND!configVars, ND!processVars
<1>3. /\ limiters \in [Clients -> Nat] /\ \A c \in Clients : limiters[c] =< Len(buckets)
      /\ buckets \in Seq(0 .. Burst) /\ Len(buckets) \in Nat
      /\ \A i \in 1 .. Len(buckets) : buckets[i] \in 0 .. Burst
  BY LenProperties DEF NodeInv, RateInv, RateTypes
<1>4. b \in Nat \ {0} /\ (~ known => b = Len(buckets) + 1)
  BY <1>1, <1>3
<1>5. n \in CallRecords /\ n.step = "allow" /\ n.bucket = b /\ n.client = d
  BY <1>1, <1>4 DEF CallRecords
<1> HIDE DEF n
<1>6. NodeTypes' /\ ServesOpen'
  <2>1. n \in NodeCalls /\ lock' \in {"free", "kept"}
    BY <1>2, <1>5 DEF CallRecords, NodeCalls, NodeInv, NodeTypes
  <2> QED
    BY <1>1, <1>2, <2>1, CallKept DEF NodeInv
<1>7. /\ buckets' \in Seq(0 .. Burst) /\ Len(buckets') \in Nat
      /\ Len(buckets) =< Len(buckets') /\ b =< Len(buckets')
      /\ \A i \in 1 .. Len(buckets) : buckets'[i] = buckets[i]
      /\ ~ known => buckets'[b] = Burst
  <2>1. CASE known
    BY <1>1, <1>2, <1>3, <2>1
  <2>2. CASE ~ known
    <3>1. Burst \in 0 .. Burst
      BY NodeBounds
    <3>2. /\ Append(buckets, Burst) \in Seq(0 .. Burst)
          /\ Len(Append(buckets, Burst)) = Len(buckets) + 1
          /\ \A i \in 1 .. Len(buckets) : Append(buckets, Burst)[i] = buckets[i]
          /\ Append(buckets, Burst)[Len(buckets) + 1] = Burst
      BY <1>3, <3>1, AppendProperties
    <3> QED
      BY <1>2, <1>3, <1>4, <2>2, <3>2
  <2> QED
    BY <2>1, <2>2
<1>8. /\ limiters' \in [Clients -> Nat] /\ limiters'[d] = b
      /\ \A c \in Clients \ {d} : limiters'[c] = limiters[c]
      /\ known => limiters' = limiters
  BY <1>1, <1>2, <1>3, <1>4
<1>9. /\ calling'[r] = n
      /\ \A q \in Connections \ {r} : calling'[q] = calling[q]
  BY <1>2 DEF NodeInv, NodeTypes
<1>10. known => b = limiters[d]
  OBVIOUS
<1> HIDE DEF b, known, d
<1>11. RateTypes'
  BY <1>2, <1>3, <1>7, <1>8 DEF RateTypes, NodeInv, RateInv
<1>12. OwnBuckets'
  <2>1. \A c, e \in Clients : limiters'[c] # 0 /\ limiters'[c] = limiters'[e] => c = e
    BY <1>1, <1>3, <1>4, <1>8 DEF NodeInv, RateInv, OwnBuckets
  <2>2. ASSUME NEW q \in Connections, calling'[q] # ND!NoCall
        PROVE  /\ calling'[q].bucket =< Len(buckets')
               /\ calling'[q].step = "allow" =>
                    /\ calling'[q].bucket # 0
                    /\ \A c \in Clients : calling'[q].bucket = limiters'[c]
                                            => calling'[q].client = c
    <3>1. CASE q = r
      BY <1>1, <1>4, <1>5, <1>7, <1>8, <1>9, <2>1, <3>1
    <3>2. CASE q # r
      <4>1. calling'[q] = calling[q] /\ calling[q] \in CallRecords
        BY <1>9, <2>2, <3>2, CallIsRecord DEF NodeInv
      <4>2. calling[q].bucket =< Len(buckets) /\ calling[q].bucket \in Nat
        BY <2>2, <4>1 DEF NodeInv, RateInv, OwnBuckets, CallRecords
      <4>3. \A c \in Clients : calling[q].bucket = limiters'[c] => calling[q].bucket = limiters[c]
        BY <1>3, <1>4, <1>8, <4>2
      <4> QED
        BY <1>3, <1>7, <2>2, <4>1, <4>2, <4>3 DEF NodeInv, RateInv, OwnBuckets
    <3> QED
      BY <3>1, <3>2
  <2> QED
    BY <2>1, <2>2 DEF OwnBuckets
<1>13. ASSUME NEW c \in Clients
       PROVE  (since[c].through + Tokens(c) + Cardinality(Stale(c))
                 =< Burst + rate * since[c].seconds + since[c].held)'
  <2>1. Tokens(c)' = Tokens(c)
    <3>1. CASE c = d /\ ~ known
      BY <1>4, <1>7, <1>8, <3>1 DEF Tokens, known
    <3>2. CASE limiters'[c] = limiters[c]
      BY <1>3, <1>7, <3>2 DEF Tokens
    <3> QED
      BY <1>8, <3>1, <3>2
  <2>2. Tokens(c) \in Nat
    BY <1>3, NodeBounds DEF Tokens
  <2>3. Stale(c)' \subseteq Stale(c)
    <3> SUFFICES ASSUME NEW q \in Stale(c)' PROVE q \in Stale(c)
      OBVIOUS
    <3>1. q \in Connections /\ q # r
      BY <1>5, <1>8, <1>9 DEF Stale
    <3>2. /\ calling[q].step = "allow" /\ calling[q].client = c
          /\ calling[q].bucket # limiters'[c]
      BY <1>9, <3>1 DEF Stale
    <3>3. calling[q].bucket # 0
      BY <3>1, <3>2 DEF NodeInv, RateInv, OwnBuckets, ND!NoCall
    <3>4. calling[q].bucket # limiters[c]
      BY <1>8, <3>2, <3>3 DEF known
    <3> QED
      BY <3>1, <3>2, <3>4 DEF Stale
  <2>4. RateInv /\ rate \in Nat /\ rate' = rate /\ since'[c] = since[c]
    BY <1>2, RateIsNat DEF NodeInv
  <2> QED
    BY <2>1, <2>2, <2>3, <2>4, CountKept
<1> QED
  BY <1>6, <1>11, <1>12, <1>13 DEF NodeInv, RateInv, RateCounted

\* Allow takes a token of the bucket that the call holds, which may be removed by now.
LEMMA AllowPreserves ==
  ASSUME ND!NodeAssumption, NodeInv, NEW r \in Connections, ND!Allow(r)
  PROVE  NodeInv'
<1>1. calling[r] \in CallRecords /\ calling[r] # ND!NoCall /\ calling[r].step = "allow"
  BY CallIsRecord DEF ND!Allow, ND!NoCall, NodeInv
<1>2. PICK d \in Clients, b \in Nat : d = calling[r].client /\ b = calling[r].bucket
  BY <1>1 DEF CallRecords
<1>3. /\ calling[r] \in CallRecords /\ calling[r] # ND!NoCall /\ calling[r].step = "allow"
      /\ calling[r].client = d /\ calling[r].bucket = b
  BY <1>1, <1>2
<1>4. /\ limiters \in [Clients -> Nat] /\ \A c \in Clients : limiters[c] =< Len(buckets)
      /\ buckets \in Seq(0 .. Burst) /\ Len(buckets) \in Nat
      /\ \A i \in 1 .. Len(buckets) : buckets[i] \in 0 .. Burst
      /\ since \in [Clients -> [through : Nat, seconds : Nat, held : Nat]]
  BY LenProperties DEF NodeInv, RateInv, RateTypes
<1>5. b \in 1 .. Len(buckets) /\ \A c \in Clients : b = limiters[c] => d = c
  BY <1>3, <1>4 DEF NodeInv, RateInv, OwnBuckets
<1>6. /\ UNCHANGED <<role, hasKeys, rate, at, open, server, signalled, gaveUp>>
      /\ lock' = lock /\ limiters' = limiters
  BY DEF ND!Allow, ND!configVars, ND!processVars
<1>7. PICK n \in NodeCalls :
        /\ calling' = [calling EXCEPT ![r] = n]
        /\ n.step # "allow" /\ (n = ND!NoCall \/ n.bucket = b)
  <2>1. CASE ND!Answer(r)
    <3>1. ND!NoCall \in NodeCalls /\ ND!NoCall.step # "allow"
      BY DEF NodeCalls, ND!NoCall
    <3> QED
      BY <2>1, <3>1 DEF ND!Answer
  <2>2. CASE ND!Continue(r, "cors")
    <3> DEFINE n == [calling[r] EXCEPT !.step = "cors"]
    <3>1. n \in CallRecords /\ n.step = "cors" /\ n.bucket = b
      BY <1>3 DEF CallRecords
    <3>2. n \in NodeCalls
      BY <3>1 DEF CallRecords, NodeCalls
    <3>3. calling' = [calling EXCEPT ![r] = n]
      BY <2>2 DEF ND!Continue
    <3> HIDE DEF n
    <3> QED
      BY <3>1, <3>2, <3>3
  <2> QED
    BY <2>1, <2>2 DEF ND!Allow
<1>8. NodeTypes' /\ ServesOpen'
  BY <1>3, <1>6, <1>7, CallKept DEF NodeInv, NodeTypes
<1>9. /\ calling'[r] = n
      /\ \A q \in Connections \ {r} : calling'[q] = calling[q]
  BY <1>7 DEF NodeInv, NodeTypes
<1>10. \A c \in Clients : Stale(c)' \subseteq Stale(c) \ {r}
  BY <1>6, <1>7, <1>9 DEF Stale
<1>11. rate \in Nat /\ RateInv
  BY RateIsNat DEF NodeInv
<1>12. CASE UNCHANGED <<buckets, since>>
  <2>1. \A q \in Connections :
          \/ calling'[q] = calling[q]
          \/ calling'[q] = ND!NoCall
          \/ calling'[q].step # "allow" /\ calling'[q].bucket =< Len(buckets)
    BY <1>5, <1>7, <1>9
  <2> QED
    BY <1>6, <1>8, <1>11, <1>12, <2>1, RateCalls DEF NodeInv
<1>13. CASE /\ buckets[b] > 0
            /\ buckets' = [buckets EXCEPT ![b] = @ - 1]
            /\ since' = [since EXCEPT ![d].through = @ + 1]
  <2> DEFINE k == buckets[b] - 1
  <2>1. k \in 0 .. Burst /\ buckets[b] = k + 1
    <3>1. buckets[b] \in 0 .. Burst /\ buckets[b] > 0 /\ Burst \in Nat
      BY <1>4, <1>5, <1>13, NodeBounds
    <3> QED
      BY <3>1
  <2>2. /\ buckets' \in Seq(0 .. Burst) /\ Len(buckets') = Len(buckets)
        /\ buckets'[b] = k
        /\ \A i \in 1 .. Len(buckets) : i # b => buckets'[i] = buckets[i]
    <3>1. buckets' = [buckets EXCEPT ![b] = k]
      BY <1>13
    <3> HIDE DEF k
    <3> QED
      BY <1>4, <1>5, <2>1, <3>1, ExceptSeq
  <2>3. /\ since' \in [Clients -> [through : Nat, seconds : Nat, held : Nat]]
        /\ since'[d].through = since[d].through + 1
        /\ since'[d].seconds = since[d].seconds /\ since'[d].held = since[d].held
        /\ \A c \in Clients \ {d} : since'[c] = since[c]
    <3> DEFINE v == [through |-> since[d].through + 1, seconds |-> since[d].seconds,
                     held |-> since[d].held]
    <3>1. /\ since[d] \in [through : Nat, seconds : Nat, held : Nat]
          /\ since[d].through + 1 \in Nat
      BY <1>3, <1>4
    <3>2. v \in [through : Nat, seconds : Nat, held : Nat]
      BY <3>1
    <3>3. since' = [since EXCEPT ![d] = v]
      <4>1. [since[d] EXCEPT !.through = since[d].through + 1] = v
        BY <3>1
      <4>2. since' = [since EXCEPT ![d] = [since[d] EXCEPT !.through = since[d].through + 1]]
        BY <1>13
      <4> QED
        BY <4>1, <4>2
    <3>4. since'[d] = v /\ \A c \in Clients \ {d} : since'[c] = since[c]
      BY <1>3, <1>4, <3>3
    <3>5. since' \in [Clients -> [through : Nat, seconds : Nat, held : Nat]]
      <4> HIDE DEF v
      <4> QED
        BY <1>3, <1>4, <3>2, <3>3
    <3> QED
      BY <3>4, <3>5
  <2> HIDE DEF k
  <2>4. RateTypes'
    BY <1>4, <1>6, <2>2, <2>3 DEF RateTypes
  <2>5. OwnBuckets'
    BY <1>5, <1>6, <1>7, <1>9, <1>11, <2>2 DEF RateInv, OwnBuckets
  <2>6. ASSUME NEW c \in Clients
        PROVE  (since[c].through + Tokens(c) + Cardinality(Stale(c))
                  =< Burst + rate * since[c].seconds + since[c].held)'
    <3>1. CASE c # d
      <4>1. Tokens(c)' = Tokens(c) /\ Tokens(c) \in Nat
        <5>1. Tokens(c) \in Nat /\ (limiters[c] # 0 => limiters[c] \in 1 .. Len(buckets))
          BY <1>11, TokensType DEF RateInv
        <5>2. limiters[c] # b
          BY <1>5, <3>1
        <5> QED
          BY <1>6, <2>2, <5>1, <5>2 DEF Tokens
      <4>2. since'[c] = since[c] /\ Stale(c)' \subseteq Stale(c)
        BY <1>10, <2>3, <3>1
      <4> QED
        BY <1>6, <1>11, <4>1, <4>2, CountKept
    <3>2. CASE c = d
      <4> DEFINE a == Burst + rate * since[d].seconds + since[d].held
                 t == since[d].through
                 m == Cardinality(Stale(d))
      <4>1. t \in Nat /\ m \in Nat /\ Cardinality(Stale(d)') \in Nat /\ Tokens(d) \in Nat
        <5>1. IsFiniteSet(Stale(d)) /\ Stale(d)' \subseteq Stale(d)
          BY <1>3, <1>10, StaleFinite
        <5> QED
          BY <1>4, <1>11, <5>1, FS_Subset, FS_CardinalityType, TokensType DEF RateInv
      <4>2. a \in Nat
        BY <1>3, <1>4, <1>11, NodeBounds, Refill
      <4>3. t + Tokens(d) + m =< a
        BY <1>3, <1>11 DEF RateInv, RateCounted
      <4>4. a' = a /\ t' = t + 1
        BY <1>3, <1>6, <2>3
      <4>5. Tokens(d)' \in Nat /\ t' + Tokens(d)' + Cardinality(Stale(d)') =< a
        <5>1. CASE b = limiters[d]
          <6>1. Tokens(d)' = k /\ Tokens(d) = k + 1
            BY <1>5, <1>6, <2>1, <2>2, <5>1 DEF Tokens
          <6>2. Cardinality(Stale(d)') =< m
            BY <1>3, <1>10, StaleFinite, FS_Subset
          <6>3. k \in Nat
            BY <2>1
          <6> HIDE DEF a, t, m
          <6> QED
            BY <4>1, <4>2, <4>3, <4>4, <6>1, <6>2, <6>3
        <5>2. CASE b # limiters[d]
          <6>1. Tokens(d)' = Tokens(d)
            BY <1>3, <1>4, <1>6, <2>2, <5>2 DEF Tokens
          <6>2. r \in Stale(d)
            BY <1>3, <5>2 DEF Stale
          <6>3. /\ IsFiniteSet(Stale(d) \ {r}) /\ Cardinality(Stale(d) \ {r}) = m - 1
            BY <1>3, <6>2, StaleFinite, FS_RemoveElement
          <6>4. Cardinality(Stale(d)') =< m - 1
            BY <1>3, <1>10, <6>3, FS_Subset
          <6> HIDE DEF a, t, m
          <6> QED
            BY <4>1, <4>2, <4>3, <4>4, <6>1, <6>4
        <5> QED
          BY <5>1, <5>2
      <4> QED
        BY <3>2, <4>4, <4>5
    <3> QED
      BY <3>1, <3>2
  <2> QED
    BY <1>8, <2>4, <2>5, <2>6 DEF NodeInv, RateInv, RateCounted
<1> QED
  BY <1>3, <1>12, <1>13 DEF ND!Allow

\* A second refills the buckets, and is counted.
LEMMA SecondPreserves ==
  ASSUME ND!NodeAssumption, NodeInv, ND!Second
  PROVE  NodeInv'
<1>1. /\ UNCHANGED <<role, hasKeys, rate, at, open, server, signalled, gaveUp, lock, calling>>
      /\ limiters' = limiters
      /\ buckets' = [b \in DOMAIN buckets |-> IF buckets[b] + rate < Burst
                                               THEN buckets[b] + rate ELSE Burst]
      /\ since' = [c \in Clients |-> [since[c] EXCEPT !.seconds = @ + 1]]
  BY DEF ND!Second, ND!configVars, ND!processVars
<1>2. NodeTypes' /\ ServesOpen'
  <2>1. ND!Parts' = ND!Parts
    BY <1>1 DEF ND!Parts
  <2> QED
    BY <1>1, <2>1 DEF NodeInv, NodeTypes, ServesOpen
<1>3. /\ buckets \in Seq(0 .. Burst) /\ Len(buckets) \in Nat /\ DOMAIN buckets = 1 .. Len(buckets)
      /\ \A i \in 1 .. Len(buckets) : buckets[i] \in 0 .. Burst
      /\ since \in [Clients -> [through : Nat, seconds : Nat, held : Nat]]
      /\ rate \in Nat /\ Burst \in Nat
  BY LenProperties, NodeBounds, RateIsNat DEF NodeInv, RateInv, RateTypes
<1>4. /\ buckets' \in Seq(0 .. Burst) /\ Len(buckets') = Len(buckets)
      /\ \A i \in 1 .. Len(buckets) : buckets'[i] \in 0 .. Burst /\ buckets'[i] =< buckets[i] + rate
  <2>1. \A i \in 1 .. Len(buckets) : buckets'[i] \in 0 .. Burst /\ buckets'[i] =< buckets[i] + rate
    BY <1>1, <1>3
  <2>2. buckets' \in [1 .. Len(buckets) -> 0 .. Burst]
    BY <1>1, <1>3, <2>1
  <2>3. buckets' \in Seq(0 .. Burst) /\ Len(buckets') = Len(buckets)
    BY <1>3, <2>2, ListOfLength
  <2> QED
    BY <2>1, <2>3
<1>5. \A c \in Clients :
        /\ since'[c] \in [through : Nat, seconds : Nat, held : Nat]
        /\ since'[c].seconds = since[c].seconds + 1
        /\ since'[c].through = since[c].through /\ since'[c].held = since[c].held
  <2> TAKE c \in Clients
  <2>1. since[c] \in [through : Nat, seconds : Nat, held : Nat] /\ since[c].seconds + 1 \in Nat
    BY <1>3
  <2>2. since'[c] = [through |-> since[c].through, seconds |-> since[c].seconds + 1,
                     held |-> since[c].held]
    BY <1>1, <2>1
  <2> QED
    BY <2>1, <2>2
<1>6. RateTypes'
  <2>1. since' \in [Clients -> [through : Nat, seconds : Nat, held : Nat]]
    BY <1>1, <1>5
  <2> QED
    BY <1>1, <1>4, <2>1 DEF NodeInv, RateInv, RateTypes
<1>7. OwnBuckets'
  BY <1>1, <1>4 DEF NodeInv, RateInv, OwnBuckets
<1>8. ASSUME NEW c \in Clients
      PROVE  (since[c].through + Tokens(c) + Cardinality(Stale(c))
                =< Burst + rate * since[c].seconds + since[c].held)'
  <2> DEFINE a == Burst + rate * since[c].seconds + since[c].held
             t == since[c].through
             m == Cardinality(Stale(c))
  <2>1. t \in Nat /\ m \in Nat /\ a \in Nat
    BY <1>3, StaleFinite, Refill
  <2>2. Tokens(c) \in Nat /\ Tokens(c)' \in Nat /\ Tokens(c)' =< Tokens(c) + rate
    <3>1. limiters[c] # 0 => limiters[c] \in 1 .. Len(buckets)
      BY TokensType DEF NodeInv, RateInv
    <3>2. CASE limiters[c] = 0
      BY <1>1, <1>3, <3>2 DEF Tokens
    <3>3. CASE limiters[c] # 0
      BY <1>1, <1>3, <1>4, <3>1, <3>3 DEF Tokens
    <3> QED
      BY <3>2, <3>3
  <2>3. t + Tokens(c) + m =< a
    BY DEF NodeInv, RateInv, RateCounted
  <2>4. t' = t /\ m' = m
    BY <1>1, <1>5 DEF Stale
  <2>5. a' = a + rate
    <3> DEFINE n == since[c].seconds
               h == since[c].held
    <3>1. n \in Nat /\ h \in Nat
      BY <1>3
    <3>2. since'[c].seconds = n + 1 /\ since'[c].held = h /\ rate' = rate
      BY <1>1, <1>5
    <3> HIDE DEF n, h
    <3>3. Burst + rate * (n + 1) + h = (Burst + rate * n + h) + rate
      BY <1>3, <3>1, Refill
    <3> QED
      BY <3>2, <3>3 DEF n, h
  <2> HIDE DEF a, t, m
  <2>6. t' + Tokens(c)' + m' =< a'
    BY <1>3, <2>1, <2>2, <2>3, <2>4, <2>5
  <2> QED
    BY <2>6 DEF a, t, m
<1> QED
  BY <1>2, <1>6, <1>7, <1>8 DEF NodeInv, RateInv, RateCounted

\* cleanupLoop takes tokens, and a client whose bucket it removes is counted anew: what it
\* may get from the removed bucket are the calls that hold it.
LEMMA CleanUpPreserves ==
  ASSUME ND!NodeAssumption, NodeInv, ND!CleanUp
  PROVE  NodeInv'
<1> DEFINE Held(c) == {r \in Connections : calling[r].step = "allow" /\ calling[r].client = c}
           Removed(c) == limiters[c] # 0 /\ buckets[limiters[c]] = 0
<1>1. /\ UNCHANGED <<role, hasKeys, rate, at, open, server, signalled, gaveUp, lock, calling>>
      /\ buckets' = [b \in DOMAIN buckets |->
                       IF b \in Range(limiters) /\ buckets[b] > 0 THEN buckets[b] - 1
                       ELSE buckets[b]]
      /\ limiters' = [c \in Clients |-> IF Removed(c) THEN 0 ELSE limiters[c]]
      /\ since' = [c \in Clients |->
                     IF Removed(c) THEN [through |-> 0, seconds |-> 0,
                                         held |-> Cardinality(Held(c))]
                     ELSE since[c]]
  BY SameRange, SameCardinality DEF ND!CleanUp, ND!configVars, ND!processVars
<1>2. NodeTypes' /\ ServesOpen'
  <2>1. ND!Parts' = ND!Parts
    BY <1>1 DEF ND!Parts
  <2> QED
    BY <1>1, <2>1 DEF NodeInv, NodeTypes, ServesOpen
<1>3. /\ buckets \in Seq(0 .. Burst) /\ Len(buckets) \in Nat /\ DOMAIN buckets = 1 .. Len(buckets)
      /\ \A i \in 1 .. Len(buckets) : buckets[i] \in 0 .. Burst
      /\ since \in [Clients -> [through : Nat, seconds : Nat, held : Nat]]
      /\ limiters \in [Clients -> Nat] /\ \A c \in Clients : limiters[c] =< Len(buckets)
      /\ rate \in Nat /\ Burst \in Nat
  BY LenProperties, NodeBounds, RateIsNat DEF NodeInv, RateInv, RateTypes
<1>4. \A c \in Clients : IsFiniteSet(Held(c)) /\ Cardinality(Held(c)) \in Nat
  <2> TAKE c \in Clients
  <2>1. Held(c) \subseteq Connections /\ IsFiniteSet(Connections)
    BY NodeBounds
  <2> QED
    BY <2>1, FS_Subset, FS_CardinalityType
<1> HIDE DEF Held
<1>5. /\ buckets' \in Seq(0 .. Burst) /\ Len(buckets') = Len(buckets)
      /\ \A i \in 1 .. Len(buckets) : buckets'[i] \in 0 .. Burst /\ buckets'[i] =< buckets[i]
  <2>1. \A i \in 1 .. Len(buckets) : buckets'[i] \in 0 .. Burst /\ buckets'[i] =< buckets[i]
    BY <1>1, <1>3
  <2>2. buckets' \in [1 .. Len(buckets) -> 0 .. Burst]
    BY <1>1, <1>3, <2>1
  <2>3. buckets' \in Seq(0 .. Burst) /\ Len(buckets') = Len(buckets)
    BY <1>3, <2>2, ListOfLength
  <2> QED
    BY <2>1, <2>3
<1>6. /\ limiters' \in [Clients -> Nat]
      /\ \A c \in Clients : limiters'[c] = 0 \/ limiters'[c] = limiters[c]
  BY <1>1, <1>3
<1>7. RateTypes'
  <2>1. since' \in [Clients -> [through : Nat, seconds : Nat, held : Nat]]
    BY <1>1, <1>3, <1>4
  <2>2. ASSUME NEW c \in Clients PROVE limiters'[c] =< Len(buckets')
    <3>1. 0 =< Len(buckets) /\ limiters[c] =< Len(buckets)
      BY <1>3
    <3> QED
      BY <1>5, <1>6, <3>1
  <2> QED
    BY <1>5, <1>6, <2>1, <2>2 DEF RateTypes
<1>8. OwnBuckets'
  BY <1>1, <1>5, <1>6 DEF NodeInv, RateInv, OwnBuckets
<1>9. ASSUME NEW c \in Clients
      PROVE  (since[c].through + Tokens(c) + Cardinality(Stale(c))
                =< Burst + rate * since[c].seconds + since[c].held)'
  <2>1. CASE Removed(c)
    <3>1. limiters'[c] = 0 /\ since'[c] = [through |-> 0, seconds |-> 0,
                                           held |-> Cardinality(Held(c))]
      BY <1>1, <2>1
    <3>2. Stale(c)' = Held(c)
      BY <1>1, <3>1 DEF NodeInv, RateInv, OwnBuckets, Stale, Held, ND!NoCall
    <3>3. Tokens(c)' = Burst
      BY <3>1 DEF Tokens
    <3>4. since'[c].through = 0 /\ since'[c].seconds = 0 /\ since'[c].held = Cardinality(Held(c))
      BY <3>1
    <3>5. rate' \in Nat /\ rate' * 0 = 0
      BY <1>1, <1>3
    <3>6. 0 + Burst + Cardinality(Held(c)) =< Burst + 0 + Cardinality(Held(c))
      BY <1>3, <1>4
    <3> QED
      BY <3>2, <3>3, <3>4, <3>5, <3>6
  <2>2. CASE ~ Removed(c)
    <3>1. limiters'[c] = limiters[c] /\ since'[c] = since[c]
      BY <1>1, <2>2
    <3>2. Stale(c)' \subseteq Stale(c)
      BY <1>1, <3>1 DEF Stale
    <3>3. Tokens(c)' \in Nat /\ Tokens(c)' =< Tokens(c)
      <4>1. Tokens(c) \in Nat /\ (limiters[c] # 0 => limiters[c] \in 1 .. Len(buckets))
        BY TokensType DEF NodeInv, RateInv
      <4> QED
        BY <1>3, <1>5, <3>1, <4>1 DEF Tokens
    <3>4. rate' = rate /\ RateInv
      BY <1>1 DEF NodeInv
    <3> QED
      BY <1>3, <3>1, <3>2, <3>3, <3>4, CountKept
  <2> QED
    BY <2>1, <2>2
<1> QED
  BY <1>2, <1>7, <1>8, <1>9 DEF NodeInv, RateInv, RateCounted

LEMMA NodeNext ==
  ASSUME ND!NodeAssumption, NodeInv, ND!Next
  PROVE  NodeInv'
BY ProcessPreserves, ServedCalls, LimiterPreserves, AllowPreserves, SecondPreserves,
   CleanUpPreserves DEF ND!Next, ProcessStep

IsNode == part \in {"calls", "limits"}

\* Only the node's own steps change what it keeps.
LEMMA NodeStep ==
  ASSUME ND!NodeAssumption, IsNode => NodeInv, [StorageNext]_storageVars
  PROVE  (IsNode => NodeInv)'
<1> SUFFICES ASSUME IsNode' PROVE NodeInv'
  OBVIOUS
<1>1. CASE StorageNext
  <2>1. IsNode /\ ND!Next
    BY <1>1 DEF StorageNext, IsNode
  <2> QED
    BY <2>1, NodeNext
<1>2. CASE UNCHANGED storageVars
  <2>1. IsNode /\ UNCHANGED node
    BY <1>2 DEF storageVars, IsNode
  <2>2. ND!Parts' = ND!Parts
    BY <2>1 DEF ND!Parts, node
  <2> QED
    BY <2>1, <2>2
       DEF NodeInv, NodeTypes, ServesOpen, RateInv, RateTypes, OwnBuckets, RateCounted, Stale,
           Tokens, node
<1> QED
  BY <1>1, <1>2

THEOREM StorageNodeInvariant ==
  ASSUME ND!NodeAssumption
  PROVE  StorageSpec => [](IsNode => NodeInv)
<1>1. StorageInit => (IsNode => NodeInv)
  BY NodeInit DEF StorageInit
<1>2. (IsNode => NodeInv) /\ [StorageNext]_storageVars => (IsNode => NodeInv)'
  BY NodeStep
<1> QED
  BY <1>1, <1>2, PTL DEF StorageSpec

\* Every part that a handler uses is open while it runs, unless Shutdown gave up waiting for
\* it (runSequencer, runFollower, Server.Stop).
THEOREM StorageStoresOutliveRequests ==
  ASSUME ND!NodeAssumption
  PROVE  StorageSpec => []StoresOutliveRequests
<1>1. (IsNode => NodeInv) => StoresOutliveRequests
  <2> SUFFICES ASSUME NodeInv, NEW r \in Connections,
                      calling[r].step \in {"handle", "stuck"}, ~ gaveUp
               PROVE  ND!Uses(calling[r].kind) \cap ND!Range(ND!Parts) \subseteq open
    BY DEF IsNode, StoresOutliveRequests, ND!StoresOutliveRequests
  <2>1. calling[r] # ND!NoCall
    BY DEF ND!NoCall
  <2>2. open = Range(ND!Parts)
    BY <2>1 DEF NodeInv, ServesOpen
  <2> QED
    BY <2>2, SameRange
<1> QED
  BY <1>1, StorageNodeInvariant, PTL

\* Whatever calls come at the same time, and whenever the cleanup removes a bucket, a client
\* gets no more through than one bucket holds and is refilled with, but for the calls that
\* held the removed one (getLimiter, Allow, cleanup).
THEOREM StorageRateHolds ==
  ASSUME ND!NodeAssumption
  PROVE  StorageSpec => []RateHolds
<1>1. (IsNode => NodeInv) => RateHolds
  <2> SUFFICES ASSUME NodeInv, NEW c \in Clients
               PROVE  since[c].through =< Burst + rate * since[c].seconds + since[c].held
    BY DEF IsNode, RateHolds, ND!RateHolds
  <2> DEFINE a == Burst + rate * since[c].seconds + since[c].held
  <2>1. since[c].through \in Nat /\ a \in Nat
    BY NodeBounds, RateIsNat, Refill DEF NodeInv, RateInv, RateTypes
  <2>2. Tokens(c) \in Nat /\ Cardinality(Stale(c)) \in Nat
    BY TokensType, StaleFinite DEF NodeInv, RateInv
  <2>3. since[c].through + Tokens(c) + Cardinality(Stale(c)) =< a
    BY DEF NodeInv, RateInv, RateCounted
  <2> HIDE DEF a
  <2>4. since[c].through =< a
    BY <2>1, <2>2, <2>3
  <2> QED
    BY <2>4 DEF a
<1> QED
  BY <1>1, StorageNodeInvariant, PTL

----------------------------------------------------------------------------
(***************************************************************************)
(* The follower's indexer: what its position covers.                       *)
(***************************************************************************)
Keys == 0 .. Len(account)
Linked == {k \in DOMAIN account : account[k].linked}
Metadata == {k \in DOMAIN account : account[k].path = "metadata"}
Writers(s) == {k \in Linked : account[k].slot = s /\ account[k].events # "none"}

\* A scan applies its batch, up to its next key; before, it only collects it.
Applying == scan.step \in {"apply", "store"}
Batch == IF scan = IX!Idle THEN {} ELSE scan.batch
Reached(k) == k =< checkpoint.key \/ (Applying /\ k =< scan.next)

Positions == [key : Keys, count : Nat, height : Nat]
Scans == [step : {"anchors", "collected", "apply", "store", "count"},
          batch : SUBSET Linked, size : Nat, next : Keys]

IndexTypes ==
  /\ account \in Seq(Entries)
  /\ txs \subseteq Linked /\ missed \subseteq Linked
  /\ checkpoint \in Positions
  /\ position = IX!Empty \/ position \in Positions
  /\ scan = IX!Idle \/ scan \in Scans
  /\ \A k \in Batch : checkpoint.key < k
  /\ scan.step = "store" => Batch # {}
  /\ scan.step = "count" => Batch = {}

\* What is reached is stored or missed, or about to be applied.
Covered ==
  \A k \in Linked :
    /\ k =< checkpoint.key \/ (position # IX!Empty /\ k =< position.key) => k \in txs \cup missed
    /\ Applying /\ k =< scan.next => k \in txs \cup missed \cup Batch

\* The metadata of a scan are applied in order.
InOrder ==
  \A k \in Linked \cap Metadata :
    (Applying /\ checkpoint.key < k /\ k =< scan.next /\ k \notin missed \cup Batch)
      => \A j \in Batch \cap Metadata : k < j

\* A slot holds the last of what was reached, but for what is missed or about to be applied.
Latest ==
  \A s \in DOMAIN state :
    /\ state[s] \in Writers(s)
    /\ \A w \in Writers(s) : Reached(w) /\ w \notin missed \cup Batch => w =< state[s]

\* The events of an entry are applied before it is stored.
Storing ==
  scan.step = "store" =>
    \A s : IX!Current \in Writers(s) => s \in DOMAIN state /\ state[s] = IX!Current

IndexInv == IndexTypes /\ Covered /\ InOrder /\ Latest /\ Storing

LEMMA IndexBounds ==
  ASSUME IX!IndexerAssumption
  PROVE  /\ Entries \subseteq [path : {"metadata", "anchors"}, linked : BOOLEAN,
                               events : {"none", "good", "malformed"}, slot : STRING]
         /\ \A kind \in Entries : kind.path = "anchors" => kind.events = "none"
         /\ MaxErrors \in Nat /\ MaxBoots \in Nat
BY DEF IX!IndexerAssumption

\* The largest of a set of keys, and the least.
LEMMA LargestKey ==
  ASSUME NEW n \in Nat, NEW S \in SUBSET (1 .. n), S # {}
  PROVE  IX!Max(S) \in S /\ \A k \in S : k =< IX!Max(S)
<1> DEFINE T == {m \in Nat : n - m \in S}
<1>1. T \in SUBSET Nat /\ T # {}
  <2>1. PICK k \in S : TRUE
    OBVIOUS
  <2>2. k \in 1 .. n /\ n - k \in Nat /\ n - (n - k) = k
    BY <2>1
  <2> QED
    BY <2>1, <2>2
<1>2. PICK m \in T : \A l \in T : m =< l
  BY <1>1, LeastNat
<1>3. n - m \in S /\ m \in Nat
  OBVIOUS
<1>4. ASSUME NEW k \in S PROVE n - m >= k
  <2>1. k \in 1 .. n /\ n - k \in Nat /\ n - (n - k) = k
    OBVIOUS
  <2>2. m =< n - k
    BY <1>2, <2>1
  <2> QED
    BY <1>3, <2>1, <2>2
<1>5. \E x \in S : \A y \in S : x >= y
  BY <1>3, <1>4
<1>6. IX!Max(S) \in S /\ \A y \in S : IX!Max(S) >= y
  BY <1>5 DEF IX!Max
<1> QED
  BY <1>6

LEMMA LeastKey ==
  ASSUME NEW n \in Nat, NEW S \in SUBSET (1 .. n), S # {}
  PROVE  IX!Min(S) \in S /\ \A k \in S : IX!Min(S) =< k
<1>1. S \in SUBSET Nat
  OBVIOUS
<1>2. \E x \in S : \A y \in S : x =< y
  BY <1>1, LeastNat
<1> QED
  BY <1>2 DEF IX!Min

LEMMA AccountType ==
  ASSUME account \in Seq(Entries)
  PROVE  /\ Len(account) \in Nat /\ DOMAIN account = 1 .. Len(account)
         /\ \A k \in DOMAIN account : account[k] \in Entries
         /\ Linked \subseteq 1 .. Len(account)
BY LenProperties DEF Linked

\* What is applied next: the first of the metadata, and an anchor when there is none left.
LEMMA CurrentKey ==
  ASSUME IndexTypes, scan \in Scans, scan.batch # {}
  PROVE  /\ IX!Current \in scan.batch
         /\ \A j \in scan.batch \cap Metadata : IX!Current \in Metadata /\ IX!Current =< j
<1> DEFINE M == {k \in scan.batch : account[k].path = "metadata"}
<1>1. scan.batch \subseteq 1 .. Len(account) /\ Len(account) \in Nat
  BY AccountType DEF IndexTypes, Scans
<1>2. scan.batch \cap Metadata = M
  BY <1>1, AccountType DEF Metadata, IndexTypes
<1>3. IX!Current = IX!Min(IF M = {} THEN scan.batch ELSE M)
  BY DEF IX!Current
<1>4. CASE M = {}
  BY <1>1, <1>2, <1>3, <1>4, LeastKey
<1>5. CASE M # {}
  <2>1. M \in SUBSET (1 .. Len(account))
    BY <1>1
  <2>2. IX!Min(M) \in M /\ \A k \in M : IX!Min(M) =< k
    BY <1>1, <1>5, <2>1, LeastKey
  <2> QED
    BY <1>2, <1>3, <1>5, <2>2
<1> QED
  BY <1>4, <1>5

LEMMA ScanFinds ==
  ASSUME IndexTypes, NEW path
  PROVE  LET found == IX!ScanDNDataAccount(path, checkpoint.key) IN
         /\ found \subseteq Linked /\ \A k \in found : checkpoint.key < k
         /\ IX!Cardinality(found) \in Nat
         /\ IX!NextKey(found) \in Keys
<1> DEFINE found == IX!ScanDNDataAccount(path, checkpoint.key)
<1>1. found \subseteq Linked /\ \A k \in found : checkpoint.key < k
  BY DEF IX!ScanDNDataAccount, IX!QueryDataAccountEntries, Linked
<1>2. Linked \subseteq 1 .. Len(account) /\ Len(account) \in Nat
  BY AccountType DEF IndexTypes
<1> HIDE DEF found
<1>3. IsFiniteSet(1 .. Len(account))
  BY <1>2, FS_Interval
<1>4. IsFiniteSet(found)
  BY <1>1, <1>2, <1>3, FS_Subset
<1>5. Cardinality(found) \in Nat
  BY <1>4, FS_CardinalityType
<1>6. IX!Cardinality(found) = Cardinality(found)
  BY DEF IX!Cardinality, IX!IsFiniteSet, Cardinality, IsFiniteSet
<1>7. IX!NextKey(found) \in Keys
  <2>1. CASE found = {}
    BY <1>2, <2>1 DEF IX!NextKey, Keys
  <2>2. CASE found # {}
    <3>1. IX!Max(found) \in found
      BY <1>1, <1>2, <2>2, LargestKey
    <3>2. IX!NextKey(found) = IX!Max(found)
      BY <2>2 DEF IX!NextKey
    <3>3. IX!Max(found) \in 1 .. Len(account)
      BY <1>1, <1>2, <3>1
    <3> QED
      BY <1>2, <3>2, <3>3 DEF Keys
  <2> QED
    BY <2>1, <2>2
<1> QED
  BY <1>1, <1>5, <1>6, <1>7 DEF found

LEMMA IndexInit ==
  ASSUME IX!IndexerAssumption, IX!Init
  PROVE  IndexInv
<1>1. account = <<>> /\ Len(account) = 0 /\ DOMAIN account = {}
  BY EmptySeq, LenProperties DEF IX!Init
<1>2. /\ txs = {} /\ missed = {} /\ state = <<>> /\ position = IX!Empty
      /\ checkpoint = IX!Beginning /\ scan = IX!Idle
  BY DEF IX!Init, IX!Empty
<1>3. checkpoint \in Positions
  BY <1>1, <1>2 DEF Positions, Keys, IX!Beginning
<1>4. DOMAIN state = {} /\ Linked = {} /\ Batch = {} /\ ~ Applying
  BY <1>1, <1>2 DEF Linked, Batch, Applying, IX!Idle
<1>5. IndexTypes
  BY <1>1, <1>2, <1>3, <1>4, EmptySeq DEF IndexTypes, IX!Idle
<1> QED
  BY <1>2, <1>4, <1>5 DEF IndexInv, Covered, InOrder, Latest, Storing, IX!Idle

\* A new entry is behind everything that was reached.
LEMMA PublishPreserves ==
  ASSUME IX!IndexerAssumption, IndexInv, IX!Publish
  PROVE  IndexInv'
<1>1. PICK kind \in Entries : account' = Append(account, kind)
  BY DEF IX!Publish
<1>2. UNCHANGED <<txs, missed, checkpoint, position, scan, state>>
  BY DEF IX!Publish, IX!kept
<1>3. account \in Seq(Entries) /\ Len(account) \in Nat /\ DOMAIN account = 1 .. Len(account)
  BY AccountType DEF IndexInv, IndexTypes
<1>4. /\ account' \in Seq(Entries) /\ DOMAIN account' = 1 .. Len(account) + 1
      /\ Len(account') = Len(account) + 1
      /\ \A k \in 1 .. Len(account) : account'[k] = account[k]
  BY <1>1, <1>3, AppendProperties
<1> DEFINE n == Len(account) + 1
<1>5. /\ Linked \subseteq Linked' /\ Linked' \subseteq Linked \cup {n}
      /\ Metadata \subseteq Metadata' /\ Metadata' \subseteq Metadata \cup {n}
      /\ \A s : Writers(s) \subseteq Writers(s)' /\ Writers(s)' \subseteq Writers(s) \cup {n}
      /\ Keys \subseteq Keys'
  BY <1>3, <1>4 DEF Linked, Metadata, Writers, Keys
<1>6. Applying' = Applying /\ Batch' = Batch /\ \A k : Reached(k)' = Reached(k)
  BY <1>2 DEF Applying, Batch, Reached
<1>7. /\ checkpoint.key < n
      /\ position # IX!Empty => position.key < n
      /\ Applying => scan.next < n
  BY <1>3 DEF IndexInv, IndexTypes, Positions, Scans, Keys, Applying, IX!Idle
<1>8. Linked \subseteq 1 .. Len(account) /\ Batch \subseteq Linked
  BY <1>3 DEF IndexInv, IndexTypes, Batch, Scans, Linked
<1>9. /\ ~ (n =< checkpoint.key) /\ ~ (position # IX!Empty /\ n =< position.key)
       /\ ~ (Applying /\ n =< scan.next)
  BY <1>3, <1>7 DEF IndexInv, IndexTypes, Positions, Scans, Keys, Applying, IX!Idle
<1>10. IndexTypes'
  <2>1. Positions \subseteq Positions' /\ Scans \subseteq Scans'
    BY <1>5 DEF Positions, Scans
  <2> QED
    BY <1>2, <1>4, <1>5, <1>6, <2>1 DEF IndexInv, IndexTypes
<1>11. Covered'
  <2> SUFFICES ASSUME NEW k \in Linked'
               PROVE  /\ k =< checkpoint.key \/ (position # IX!Empty /\ k =< position.key)
                           => k \in txs \cup missed
                      /\ Applying /\ k =< scan.next => k \in txs \cup missed \cup Batch
    BY <1>2, <1>6 DEF Covered
  <2>1. k \in Linked \/ k = n
    BY <1>5
  <2>2. CASE k = n
    BY <1>9, <2>2
  <2> QED
    BY <2>1, <2>2 DEF IndexInv, Covered
<1>12. InOrder'
  <2> SUFFICES ASSUME NEW k \in Linked' \cap Metadata', Applying,
                      checkpoint.key < k /\ k =< scan.next /\ k \notin missed \cup Batch,
                      NEW j \in Batch \cap Metadata'
               PROVE  k < j
    BY <1>2, <1>6 DEF InOrder
  <2>1. k # n /\ j # n
    BY <1>3, <1>8, <1>9
  <2>2. k \in Linked \cap Metadata /\ j \in Batch \cap Metadata
    BY <1>5, <2>1
  <2> QED
    BY <2>2 DEF IndexInv, InOrder
<1>13. Latest'
  <2> SUFFICES ASSUME NEW s \in DOMAIN state
               PROVE  /\ state[s] \in Writers(s)'
                      /\ \A w \in Writers(s)' : Reached(w) /\ w \notin missed \cup Batch => w =< state[s]
    BY <1>2, <1>6 DEF Latest
  <2>1. ~ Reached(n)
    BY <1>9 DEF Reached
  <2> QED
    BY <1>5, <2>1 DEF IndexInv, Latest
<1>14. Storing'
  <2> SUFFICES ASSUME scan.step = "store", NEW s, IX!Current' \in Writers(s)'
               PROVE  s \in DOMAIN state /\ state[s] = IX!Current'
    BY <1>2 DEF Storing
  <2>1. scan \in Scans /\ scan.batch # {} /\ scan.batch \subseteq Linked
    BY DEF IndexInv, IndexTypes, Batch, Scans, IX!Idle
  <2>2. IX!Current' = IX!Current
    <3>1. {k \in scan.batch : account'[k].path = "metadata"} =
            {k \in scan.batch : account[k].path = "metadata"}
      BY <1>4, <1>8, <2>1
    <3> QED
      BY <1>2, <3>1 DEF IX!Current
  <2>3. IX!Current \in Writers(s)
    BY <1>3, <1>5, <1>8, <2>1, <2>2, CurrentKey DEF IndexInv
  <2> QED
    BY <2>2, <2>3 DEF IndexInv, Storing
<1> QED
  BY <1>10, <1>11, <1>12, <1>13, <1>14 DEF IndexInv

\* While entries are collected, nothing more is reached.
LEMMA CollectingPreserves ==
  ASSUME IndexInv, UNCHANGED <<account, txs, missed, checkpoint, position, state>>, ~ Applying,
         scan' = IX!Idle \/ (scan' \in Scans /\ scan'.step \in {"anchors", "collected"}),
         scan' # IX!Idle => \A k \in scan'.batch : checkpoint.key < k
  PROVE  IndexInv'
<1>1. /\ Linked' = Linked /\ Metadata' = Metadata /\ Positions' = Positions /\ Scans' = Scans
      /\ \A s : Writers(s)' = Writers(s)
  BY DEF Linked, Metadata, Positions, Scans, Writers, Keys
<1>2. ~ Applying'
  BY DEF Applying, IX!Idle
<1>3. \A k \in Batch' : checkpoint.key < k
  BY DEF Batch
<1>4. IndexTypes'
  BY <1>1, <1>3 DEF IndexInv, IndexTypes, IX!Idle
<1>5. Covered' /\ InOrder' /\ Storing'
  BY <1>1, <1>2 DEF IndexInv, Covered, InOrder, Storing, Applying
<1>6. Latest'
  <2>1. \A k \in Linked : Reached(k)' => k \notin Batch /\ Reached(k)
    <3>1. checkpoint.key \in Int /\ Linked \subseteq Int /\ \A k \in Batch : checkpoint.key < k
      BY AccountType DEF IndexInv, IndexTypes, Positions, Keys
    <3> QED
      BY <1>2, <3>1 DEF Reached
  <2>2. \A s : Writers(s) \subseteq Linked
    BY DEF Writers
  <2> QED
    BY <1>1, <2>1, <2>2 DEF IndexInv, Latest
<1> QED
  BY <1>4, <1>5, <1>6 DEF IndexInv

LEMMA QueriesPreserve ==
  ASSUME IX!IndexerAssumption, IndexInv, IX!QueryFails \/ IX!QueryMetadata \/ IX!QueryAnchors
  PROVE  IndexInv'
<1>1. UNCHANGED <<account, txs, missed, checkpoint, position, state>>
  BY DEF IX!QueryFails, IX!QueryMetadata, IX!QueryAnchors, IX!kept
<1>2. ~ Applying /\ (scan.step # "anchors" => scan.step = "idle")
  BY DEF IX!QueryFails, IX!QueryMetadata, IX!QueryAnchors, IX!Tick, Applying
<1>3. scan.step = "anchors" => /\ scan \in Scans /\ Batch = scan.batch
                               /\ \A k \in scan.batch : checkpoint.key < k
  BY DEF IndexInv, IndexTypes, IX!Idle, Batch
<1>4. /\ scan' = IX!Idle \/ (scan' \in Scans /\ scan'.step \in {"anchors", "collected"})
      /\ scan' # IX!Idle => \A k \in scan'.batch : checkpoint.key < k
  <2>1. CASE IX!QueryFails
    BY <1>3, <2>1 DEF IX!QueryFails, Scans
  <2>2. CASE IX!QueryMetadata
    <3> DEFINE found == IX!ScanDNDataAccount("metadata", checkpoint.key)
    <3>1. scan' = [step |-> "anchors", batch |-> found, size |-> IX!Cardinality(found),
                   next |-> IX!NextKey(found)]
      BY <2>2 DEF IX!QueryMetadata
    <3>2. /\ found \subseteq Linked /\ \A k \in found : checkpoint.key < k
          /\ IX!Cardinality(found) \in Nat /\ IX!NextKey(found) \in Keys
      BY ScanFinds DEF IndexInv
    <3> HIDE DEF found
    <3> QED
      BY <3>1, <3>2 DEF Scans
  <2>3. CASE IX!QueryAnchors
    <3> DEFINE found == IX!ScanDNDataAccount("anchors", checkpoint.key)
               next == IF found = {} THEN scan.next ELSE IX!NextKey(found)
    <3>1. scan' = [step |-> "collected", batch |-> scan.batch \cup found,
                   size |-> scan.size + IX!Cardinality(found), next |-> next]
          /\ scan.step = "anchors"
      BY <2>3 DEF IX!QueryAnchors
    <3>2. /\ found \subseteq Linked /\ \A k \in found : checkpoint.key < k
          /\ IX!Cardinality(found) \in Nat /\ IX!NextKey(found) \in Keys
      BY ScanFinds DEF IndexInv
    <3>3. /\ scan.batch \subseteq Linked /\ scan.size \in Nat /\ next \in Keys
          /\ \A k \in scan.batch : checkpoint.key < k
      BY <1>3, <3>1, <3>2 DEF Scans
    <3> HIDE DEF found, next
    <3> QED
      BY <3>1, <3>2, <3>3 DEF Scans
  <2> QED
    BY <2>1, <2>2, <2>3
<1> QED
  BY <1>1, <1>2, <1>4, CollectingPreserves

\* Entries that the next key is behind and the batch does not hold are jumped over.
LEMMA CollectedPreserves ==
  ASSUME IX!IndexerAssumption, IndexInv, IX!Collected
  PROVE  IndexInv'
<1>1. UNCHANGED <<account, txs, checkpoint, position, state>> /\ scan.step = "collected"
  BY DEF IX!Collected, IX!kept
<1>2. scan \in Scans /\ Batch = scan.batch /\ ~ Applying
  BY <1>1 DEF IndexInv, IndexTypes, IX!Idle, Batch, Applying
<1>3. CASE scan.batch = {}
  BY <1>1, <1>2, <1>3, CollectingPreserves DEF IX!Collected
<1>4. CASE scan.batch # {}
  <2> DEFINE over == {k \in Linked : checkpoint.key < k /\ k =< scan.next /\ k \notin Batch}
  <2>1. scan' = [scan EXCEPT !.step = "apply"] /\ missed' = missed \cup over
    BY <1>2, <1>4 DEF IX!Collected, Linked
  <2>2. /\ scan' \in Scans /\ scan'.step = "apply" /\ scan'.batch = Batch /\ scan'.next = scan.next
        /\ scan' # IX!Idle
    BY <1>2, <2>1 DEF Scans, IX!Idle
  <2>3. Batch' = Batch /\ Applying'
    BY <2>2 DEF Batch, Applying
  <2>4. /\ Linked' = Linked /\ Metadata' = Metadata /\ Positions' = Positions /\ Scans' = Scans
        /\ \A s : Writers(s)' = Writers(s) /\ Writers(s) \subseteq Linked
    BY <1>1 DEF Linked, Metadata, Positions, Scans, Writers, Keys
  <2>5. checkpoint.key \in Int /\ scan.next \in Int /\ Linked \subseteq Int
    BY <1>2, AccountType DEF IndexInv, IndexTypes, Positions, Keys, Scans
  <2>6. IndexTypes'
    BY <1>1, <2>1, <2>2, <2>3, <2>4 DEF IndexInv, IndexTypes
  <2>7. ASSUME NEW k \in Linked, k =< scan.next PROVE k =< checkpoint.key \/ k \in over \/ k \in Batch
    BY <2>5, <2>7
  <2>8. Covered'
    BY <1>1, <2>1, <2>2, <2>3, <2>4, <2>7 DEF IndexInv, Covered
  <2>9. InOrder'
    BY <1>1, <2>1, <2>2, <2>3, <2>4, <2>7 DEF InOrder
  <2>10. Latest'
    <3>1. \A w \in Linked : Reached(w)' /\ w \notin missed' \cup Batch' => Reached(w) /\ w \notin missed \cup Batch
      BY <1>1, <2>1, <2>2, <2>3, <2>7 DEF Reached
    <3> QED
      BY <1>1, <2>4, <3>1 DEF IndexInv, Latest
  <2>11. Storing'
    BY <2>2 DEF Storing
  <2> QED
    BY <2>6, <2>8, <2>9, <2>10, <2>11 DEF IndexInv
<1> QED
  BY <1>3, <1>4

\* An entry that fails is missed.
LEMMA SkipPreserves ==
  ASSUME IX!IndexerAssumption, IndexInv, UNCHANGED <<account, txs, checkpoint, position>>,
         Applying, Batch # {},
         missed' = missed \cup {IX!Current}, scan' \in Scans, scan'.step = "apply",
         scan'.next = scan.next, scan'.batch = Batch \ {IX!Current}, Latest'
  PROVE  IndexInv'
<1>1. scan \in Scans /\ Batch = scan.batch
  BY DEF IndexInv, IndexTypes, IX!Idle, Batch, Applying
<1>2. IX!Current \in Batch /\ Batch \subseteq Linked
  BY <1>1, CurrentKey DEF IndexInv, Scans
<1>3. /\ Linked' = Linked /\ Metadata' = Metadata /\ Positions' = Positions /\ Scans' = Scans
  BY DEF Linked, Metadata, Positions, Scans, Keys
<1>4. Batch' = Batch \ {IX!Current} /\ Applying'
  BY DEF Batch, Applying, IX!Idle
<1>5. IndexTypes'
  BY <1>1, <1>2, <1>3, <1>4 DEF IndexInv, IndexTypes
<1>6. Covered'
  BY <1>3, <1>4 DEF IndexInv, Covered
<1>7. InOrder'
  BY <1>3, <1>4 DEF IndexInv, InOrder
<1>8. Storing'
  BY DEF Storing
<1> QED
  BY <1>5, <1>6, <1>7, <1>8 DEF IndexInv

\* Skip, as a change of the scan.
LEMMA SkipTo ==
  ASSUME IndexInv, Applying, Batch # {}, IX!Skip
  PROVE  /\ missed' = missed \cup {IX!Current}
         /\ scan' \in Scans /\ scan'.step = "apply"
         /\ scan'.next = scan.next /\ scan'.batch = Batch \ {IX!Current}
<1>1. scan \in Scans /\ Batch = scan.batch
  BY DEF IndexInv, IndexTypes, IX!Idle, Batch, Applying
<1>2. /\ scan' = [scan EXCEPT !.step = "apply", !.batch = @ \ {IX!Current}]
      /\ missed' = missed \cup {IX!Current}
  BY DEF IX!Skip
<1> QED
  BY <1>1, <1>2 DEF Scans

\* The events of the current entry make it the last of its slot.
LEMMA LatestApplied ==
  ASSUME IX!IndexerAssumption, IndexInv, scan.step = "apply", Batch # {},
         UNCHANGED <<account, checkpoint>>,
         account[IX!Current].events # "none",
         state' = IX!Put(state, account[IX!Current].slot, IX!Current),
         \A w \in Linked : Reached(w)' /\ w \notin missed' \cup Batch'
            => w = IX!Current \/ (Reached(w) /\ w \notin missed \cup Batch)
  PROVE  Latest'
<1> DEFINE c == IX!Current
           slot == account[c].slot
<1>1. scan \in Scans /\ Batch = scan.batch /\ Applying
  BY DEF IndexInv, IndexTypes, IX!Idle, Batch, Applying
<1>2. c \in Batch /\ Batch \subseteq Linked /\ checkpoint.key < c
      /\ \A j \in Batch \cap Metadata : c =< j
  BY <1>1, CurrentKey DEF IndexInv, IndexTypes, Scans
<1>3. account[c] \in Entries /\ c \in DOMAIN account /\ Linked \subseteq Int /\ checkpoint.key \in Int
  BY <1>2, AccountType DEF IndexInv, IndexTypes, Linked, Positions, Keys
<1>4. \A w \in Linked : account[w].events # "none" => w \in Metadata
  BY AccountType, IndexBounds DEF IndexInv, IndexTypes, Linked, Metadata
<1>5. \A s : Writers(s)' = Writers(s) /\ Writers(s) \subseteq Linked
  BY DEF Writers, Linked
<1>6. c \in Writers(slot)
  BY <1>2 DEF Writers
<1>7. \A w \in Writers(slot) : Reached(w) /\ w \notin missed \cup Batch => w < c
  <2> SUFFICES ASSUME NEW w \in Writers(slot), Reached(w), w \notin missed \cup Batch
               PROVE  w < c
    OBVIOUS
  <2>1. w \in Linked \cap Metadata /\ c \in Batch \cap Metadata
    BY <1>2, <1>4, <1>5 DEF Writers
  <2>2. w \in Int /\ c \in Int /\ checkpoint.key \in Int /\ checkpoint.key < c
    BY <1>2, <1>3, <2>1
  <2> HIDE DEF c
  <2>3. CASE w =< checkpoint.key
    BY <2>2, <2>3
  <2>4. CASE ~ (w =< checkpoint.key)
    <3>1. checkpoint.key < w /\ w =< scan.next
      BY <2>2, <2>4 DEF Reached
    <3> QED
      BY <1>1, <2>1, <3>1 DEF IndexInv, InOrder
  <2> QED
    BY <2>3, <2>4
<1> HIDE DEF c, slot
<1>8. DOMAIN state' = DOMAIN state \cup {slot}
      /\ \A s \in DOMAIN state' : state'[s] = IF s = slot THEN c ELSE state[s]
  BY DEF IX!Put, c, slot
<1>9. \A s \in DOMAIN state' : s # slot => s \in DOMAIN state /\ c \notin Writers(s)
  BY <1>8 DEF Writers, slot
<1> SUFFICES ASSUME NEW s \in DOMAIN state'
             PROVE  /\ state'[s] \in Writers(s)
                    /\ \A w \in Writers(s) : Reached(w)' /\ w \notin missed' \cup Batch' => w =< state'[s]
  BY <1>5 DEF Latest
<1>10. CASE s = slot
  <2>1. state'[s] = c
    BY <1>8, <1>10
  <2> QED
    BY <1>2, <1>3, <1>5, <1>6, <1>7, <1>10, <2>1 DEF c
<1>11. CASE s # slot
  <2>1. state'[s] = state[s] /\ s \in DOMAIN state /\ c \notin Writers(s)
    BY <1>8, <1>9, <1>11
  <2> QED
    BY <1>5, <2>1 DEF IndexInv, Latest, c
<1> QED
  BY <1>10, <1>11

LEMMA ApplyEventsPreserves ==
  ASSUME IX!IndexerAssumption, IndexInv, IX!ApplyEvents
  PROVE  IndexInv'
<1>1. UNCHANGED <<account, txs, checkpoint, position>> /\ scan.step = "apply" /\ scan.batch # {}
  BY DEF IX!ApplyEvents
<1>2. scan \in Scans /\ Batch = scan.batch /\ Applying
  BY <1>1 DEF IndexInv, IndexTypes, IX!Idle, Batch, Applying
<1>3. IX!Current \in Batch /\ Batch \subseteq Linked
  BY <1>1, <1>2, CurrentKey DEF IndexInv, Scans
<1>4. /\ Linked' = Linked /\ Metadata' = Metadata /\ Positions' = Positions /\ Scans' = Scans
      /\ \A s : Writers(s)' = Writers(s) /\ Writers(s) \subseteq Linked
  BY <1>1 DEF Linked, Metadata, Positions, Scans, Writers, Keys
<1>5. CASE account[IX!Current].events = "malformed"
  <2>1. IX!Skip /\ state' = IX!Put(state, account[IX!Current].slot, IX!Current)
    BY <1>5 DEF IX!ApplyEvents
  <2>2. /\ missed' = missed \cup {IX!Current}
        /\ scan' \in Scans /\ scan'.step = "apply"
        /\ scan'.next = scan.next /\ scan'.batch = Batch \ {IX!Current}
    BY <1>1, <1>2, <2>1, SkipTo
  <2>3. Batch' = Batch \ {IX!Current} /\ \A w : Reached(w)' => Reached(w)
    BY <1>1, <1>2, <2>2 DEF Batch, Reached, Applying, IX!Idle
  <2>4. Latest'
    BY <1>1, <1>2, <1>5, <2>1, <2>2, <2>3, LatestApplied
  <2> QED
    BY <1>1, <1>2, <2>2, <2>4, SkipPreserves
<1>6. CASE account[IX!Current].events # "malformed"
  <2>1. scan' = [scan EXCEPT !.step = "store"] /\ missed' = missed
    BY <1>6 DEF IX!ApplyEvents
  <2>2. /\ scan' \in Scans /\ scan'.step = "store" /\ scan'.batch = scan.batch
        /\ scan'.next = scan.next /\ scan' # IX!Idle
    BY <1>2, <2>1 DEF Scans, IX!Idle
  <2>3. Batch' = Batch /\ Applying' /\ \A w : Reached(w)' = Reached(w)
    BY <1>1, <1>2, <2>2 DEF Batch, Reached, Applying
  <2>4. IX!Current' = IX!Current
    BY <1>1, <2>2 DEF IX!Current
  <2>5. IndexTypes'
    BY <1>1, <1>2, <1>4, <2>1, <2>2, <2>3 DEF IndexInv, IndexTypes
  <2>6. Covered' /\ InOrder'
    BY <1>1, <1>2, <1>4, <2>1, <2>2, <2>3 DEF IndexInv, Covered, InOrder
  <2>7. Latest' /\ Storing'
    <3>1. CASE account[IX!Current].events = "none"
      <4>1. state' = state /\ \A s : IX!Current \notin Writers(s)
        BY <3>1 DEF IX!ApplyEvents, Writers
      <4> QED
        BY <1>4, <2>1, <2>3, <2>4, <4>1 DEF IndexInv, Latest, Storing
    <3>2. CASE account[IX!Current].events # "none"
      <4>1. state' = IX!Put(state, account[IX!Current].slot, IX!Current)
        BY <3>2 DEF IX!ApplyEvents
      <4>2. Latest'
        BY <1>1, <1>2, <2>1, <2>3, <3>2, <4>1, LatestApplied
      <4>3. /\ account[IX!Current].slot \in DOMAIN state'
            /\ state'[account[IX!Current].slot] = IX!Current
        BY <4>1 DEF IX!Put
      <4>4. Storing'
        BY <1>4, <2>4, <4>3 DEF Storing, Writers
      <4> QED
        BY <4>2, <4>4
    <3> QED
      BY <3>1, <3>2
  <2> QED
    BY <2>5, <2>6, <2>7 DEF IndexInv
<1> QED
  BY <1>5, <1>6

LEMMA SetFailsPreserves ==
  ASSUME IX!IndexerAssumption, IndexInv, IX!SetFails
  PROVE  IndexInv'
<1>1. UNCHANGED <<account, txs, checkpoint, position, state>> /\ Applying /\ IX!Skip
  BY DEF IX!SetFails, IX!kept, Applying
<1>2. scan \in Scans /\ Batch = scan.batch
  BY <1>1 DEF IndexInv, IndexTypes, IX!Idle, Batch, Applying
<1>3. Batch # {}
  BY <1>2 DEF IX!SetFails, IndexInv, IndexTypes
<1>4. /\ missed' = missed \cup {IX!Current}
      /\ scan' \in Scans /\ scan'.step = "apply"
      /\ scan'.next = scan.next /\ scan'.batch = Batch \ {IX!Current}
  BY <1>1, <1>3, SkipTo
<1>5. Latest'
  <2>1. \A s : Writers(s)' = Writers(s)
    BY <1>1 DEF Writers, Linked
  <2>2. \A w : Reached(w)' /\ w \notin missed' \cup Batch' => Reached(w) /\ w \notin missed \cup Batch
    BY <1>1, <1>4 DEF Reached, Batch, Applying, IX!Idle
  <2> QED
    BY <1>1, <2>1, <2>2 DEF IndexInv, Latest
<1> QED
  BY <1>1, <1>3, <1>4, <1>5, SkipPreserves

LEMMA StoreEntryPreserves ==
  ASSUME IX!IndexerAssumption, IndexInv, IX!StoreEntry
  PROVE  IndexInv'
<1> DEFINE c == IX!Current
<1>1. UNCHANGED <<account, position, state>> /\ scan.step = "store" /\ txs' = txs \cup {c}
      /\ missed' = missed \ {c}
  BY DEF IX!StoreEntry
<1>2. scan \in Scans /\ Batch = scan.batch /\ Applying /\ Batch # {}
  BY <1>1 DEF IndexInv, IndexTypes, IX!Idle, Batch, Applying
<1>3. c \in Batch /\ Batch \subseteq Linked /\ \A j \in Batch \cap Metadata : c \in Metadata /\ c =< j
  BY <1>2, CurrentKey DEF IndexInv, Scans
<1>4. /\ Linked' = Linked /\ Metadata' = Metadata /\ Positions' = Positions /\ Scans' = Scans
      /\ \A s : Writers(s)' = Writers(s) /\ Writers(s) \subseteq Linked
  BY <1>1 DEF Linked, Metadata, Positions, Scans, Writers, Keys
<1>5. checkpoint' \in Positions /\ checkpoint'.key = checkpoint.key
  <2>1. checkpoint' = [checkpoint EXCEPT !.height = IX!Max({@, c})]
    BY DEF IX!StoreEntry
  <2>2. checkpoint \in Positions /\ c \in Nat
    BY <1>3, AccountType DEF IndexInv, IndexTypes
  <2>3. IX!Max({checkpoint.height, c}) \in Nat
    <3>1. \E x \in {checkpoint.height, c} : \A y \in {checkpoint.height, c} : x >= y
      BY <2>2 DEF Positions
    <3>2. IX!Max({checkpoint.height, c}) \in {checkpoint.height, c}
      BY <3>1 DEF IX!Max
    <3> QED
      BY <2>2, <3>2 DEF Positions
  <2> QED
    BY <2>1, <2>2, <2>3 DEF Positions
<1>6. scan' = [scan EXCEPT !.step = "apply", !.batch = @ \ {c}]
  BY DEF IX!StoreEntry
<1> HIDE DEF c
<1>7. /\ scan' \in Scans /\ scan'.step = "apply" /\ scan'.batch = Batch \ {c}
      /\ scan'.next = scan.next /\ scan' # IX!Idle
  BY <1>2, <1>6 DEF Scans, IX!Idle
<1>8. Batch' = Batch \ {c} /\ Applying' /\ \A w : Reached(w)' = Reached(w)
  BY <1>2, <1>5, <1>7 DEF Batch, Reached, Applying
<1>9. IndexTypes'
  BY <1>1, <1>3, <1>4, <1>5, <1>7, <1>8 DEF IndexInv, IndexTypes
<1>10. Covered'
  BY <1>1, <1>2, <1>4, <1>5, <1>7, <1>8 DEF IndexInv, Covered
<1>11. InOrder'
  <2> SUFFICES ASSUME NEW k \in Linked \cap Metadata,
                      checkpoint.key < k /\ k =< scan.next /\ k \notin missed' \cup Batch',
                      NEW j \in Batch' \cap Metadata
               PROVE  k < j
    BY <1>4, <1>5, <1>7 DEF InOrder
  <2>1. c =< j /\ j # c /\ c \in Int /\ j \in Int
    BY <1>3, <1>8, AccountType DEF IndexInv, IndexTypes
  <2>2. CASE k = c
    BY <2>1, <2>2
  <2>3. CASE k # c
    BY <1>1, <1>2, <1>8, <2>3 DEF IndexInv, InOrder
  <2> QED
    BY <2>2, <2>3
<1>12. Latest'
  <2> SUFFICES ASSUME NEW s \in DOMAIN state, NEW w \in Writers(s), Reached(w),
                      w \notin missed' \cup Batch'
               PROVE  w =< state[s]
    BY <1>1, <1>4, <1>8 DEF IndexInv, Latest
  <2>1. CASE w = c
    <3>1. state[s] = c
      BY <1>1, <2>1 DEF IndexInv, Storing, c
    <3>2. c \in Int
      BY <1>3, AccountType DEF IndexInv, IndexTypes
    <3> QED
      BY <2>1, <3>1, <3>2
  <2>2. CASE w # c
    BY <1>1, <1>8, <2>2 DEF IndexInv, Latest
  <2> QED
    BY <2>1, <2>2
<1>13. Storing'
  BY <1>7 DEF Storing
<1> QED
  BY <1>9, <1>10, <1>11, <1>12, <1>13 DEF IndexInv

LEMMA UpdatePositionPreserves ==
  ASSUME IX!IndexerAssumption, IndexInv, IX!UpdatePosition
  PROVE  IndexInv'
<1>1. UNCHANGED <<account, txs, missed, position, state>> /\ scan.step = "apply" /\ scan.batch = {}
  BY DEF IX!UpdatePosition, IX!kept
<1>2. scan \in Scans /\ Batch = {} /\ Applying
  BY <1>1 DEF IndexInv, IndexTypes, IX!Idle, Batch, Applying
<1>3. /\ checkpoint' = [checkpoint EXCEPT !.key = scan.next]
      /\ scan' = [scan EXCEPT !.step = "count"]
  BY DEF IX!UpdatePosition
<1>4. /\ checkpoint' \in Positions /\ checkpoint'.key = scan.next
      /\ scan' \in Scans /\ scan'.step = "count" /\ scan'.batch = {}
  BY <1>1, <1>2, <1>3 DEF IndexInv, IndexTypes, Positions, Scans
<1>5. Batch' = {} /\ ~ Applying' /\ \A w : Reached(w)' => Reached(w)
  BY <1>2, <1>4 DEF Batch, Applying, Reached
<1>6. /\ Linked' = Linked /\ Metadata' = Metadata /\ Positions' = Positions /\ Scans' = Scans
      /\ \A s : Writers(s)' = Writers(s)
  BY <1>1 DEF Linked, Metadata, Positions, Scans, Writers, Keys
<1>7. IndexTypes'
  BY <1>1, <1>4, <1>5, <1>6 DEF IndexInv, IndexTypes
<1>8. Covered'
  BY <1>1, <1>2, <1>4, <1>5, <1>6 DEF IndexInv, Covered
<1>9. InOrder' /\ Storing'
  BY <1>4, <1>5 DEF InOrder, Storing
<1>10. Latest'
  BY <1>1, <1>2, <1>5, <1>6 DEF IndexInv, Latest
<1> QED
  BY <1>7, <1>8, <1>9, <1>10 DEF IndexInv

\* What is saved is what is in memory.
LEMMA SavedPreserves ==
  ASSUME IX!IndexerAssumption, IndexInv, UNCHANGED <<account, txs, missed, state>>,
         checkpoint' \in Positions, checkpoint'.key = checkpoint.key,
         position' = checkpoint' \/ position' = position,
         scan' = scan \/ (scan' = IX!Idle /\ ~ Applying)
  PROVE  IndexInv'
<1>1. /\ Linked' = Linked /\ Metadata' = Metadata /\ Positions' = Positions /\ Scans' = Scans
      /\ \A s : Writers(s)' = Writers(s) /\ Writers(s) \subseteq Linked
  BY DEF Linked, Metadata, Positions, Scans, Writers, Keys
<1>2. Batch' \subseteq Batch /\ (scan' = scan => Batch' = Batch) /\ (scan' # scan => Batch' = {})
  BY DEF Batch
<1>3. /\ Applying' => Applying /\ scan' = scan
      /\ \A w : Reached(w)' => Reached(w)
  BY DEF Applying, Reached, IX!Idle
<1>4. IndexTypes'
  BY <1>1, <1>2 DEF IndexInv, IndexTypes, IX!Idle
<1>5. Covered'
  BY <1>1, <1>2, <1>3 DEF IndexInv, Covered
<1>6. InOrder'
  BY <1>1, <1>2, <1>3 DEF IndexInv, InOrder
<1>7. Latest'
  <2>1. \A w \in Linked : Reached(w)' /\ w \notin Batch' => Reached(w) /\ w \notin Batch
    <3>1. CASE scan' = scan
      BY <1>2, <1>3, <3>1
    <3>2. CASE scan' # scan
      <4>1. \A k \in Batch : checkpoint.key < k /\ k \in Int /\ checkpoint.key \in Int
        BY AccountType DEF IndexInv, IndexTypes, Positions, Keys, Batch, Scans
      <4>2. \A w \in Linked : Reached(w)' => w =< checkpoint.key
        BY <1>3, <3>2 DEF Reached
      <4> QED
        BY <1>3, <4>1, <4>2
    <3> QED
      BY <3>1, <3>2
  <2> QED
    BY <1>1, <2>1 DEF IndexInv, Latest
<1>8. Storing'
  <2> SUFFICES ASSUME scan'.step = "store" PROVE Storing'
    BY DEF Storing
  <2>1. scan' = scan
    BY <1>3 DEF Applying
  <2>2. IX!Current' = IX!Current
    BY <2>1 DEF IX!Current
  <2> QED
    BY <1>1, <2>1, <2>2 DEF IndexInv, Storing
<1> QED
  BY <1>4, <1>5, <1>6, <1>7, <1>8 DEF IndexInv

LEMMA SavesPreserve ==
  ASSUME IX!IndexerAssumption, IndexInv, IX!Finish \/ IX!Stop
  PROVE  IndexInv'
<1>1. CASE IX!Finish
  <2>1. /\ UNCHANGED <<account, txs, missed, state>> /\ scan.step = "count" /\ scan' = IX!Idle
        /\ checkpoint' = [checkpoint EXCEPT !.count = @ + scan.size]
        /\ position' = checkpoint' \/ position' = position
    BY <1>1 DEF IX!Finish, IX!SaveCheckpoint
  <2>2. scan.size \in Nat /\ ~ Applying
    BY <2>1 DEF IndexInv, IndexTypes, IX!Idle, Scans, Applying
  <2>3. checkpoint' \in Positions /\ checkpoint'.key = checkpoint.key
    BY <2>1, <2>2 DEF IndexInv, IndexTypes, Positions
  <2> QED
    BY <2>1, <2>2, <2>3, SavedPreserves
<1>2. CASE IX!Stop
  BY <1>2, SavedPreserves DEF IX!Stop, IX!SaveCheckpoint, IndexInv, IndexTypes
<1> QED
  BY <1>1, <1>2

LEMMA IndexRestartPreserves ==
  ASSUME IX!IndexerAssumption, IndexInv, IX!Restart
  PROVE  IndexInv'
<1>1. account' = account /\ scan' = IX!Idle
  BY DEF IX!Restart, IX!Boot
<1>2. ~ Applying' /\ Batch' = {} /\ \A k : Reached(k)' <=> k =< checkpoint'.key
  BY <1>1 DEF Applying, Batch, Reached, IX!Idle
<1>3. /\ Linked' = Linked /\ Metadata' = Metadata /\ Positions' = Positions /\ Scans' = Scans
      /\ \A s : Writers(s)' = Writers(s) /\ Writers(s) \subseteq Linked
  BY <1>1 DEF Linked, Metadata, Positions, Scans, Writers, Keys
<1>4. /\ Linked \subseteq Int /\ checkpoint.key \in Int /\ IX!Beginning \in Positions
      /\ \A k \in Linked : 0 < k
  BY AccountType DEF IndexInv, IndexTypes, Positions, Keys, IX!Beginning
<1>5. InOrder' /\ Storing'
  BY <1>1, <1>2 DEF InOrder, Storing, IX!Idle
<1>6. CASE kv = "badger"
  <2>1. PICK p \in {position, IX!Beginning} \ {IX!Empty} :
          /\ checkpoint' = p
          /\ missed' = missed \cup {k \in DOMAIN account : /\ account[k].linked
                                                         /\ checkpoint.key < k /\ k =< p.key}
    BY <1>6 DEF IX!Restart, IX!Boot
  <2>2. UNCHANGED <<txs, state, position>>
    BY <1>6 DEF IX!Restart, IX!kept
  <2>3. p \in Positions
    BY <1>4, <2>1 DEF IndexInv, IndexTypes
  <2>4. p.key \in Int /\ \A k \in Linked : k =< p.key => k =< checkpoint.key \/ k \in missed'
    BY <1>4, <2>1, <2>3 DEF Linked, Positions, Keys
  <2>5. missed \subseteq missed' /\ missed' \subseteq Linked
    BY <2>1 DEF IndexInv, IndexTypes, Linked
  <2>6. IndexTypes'
    BY <1>1, <1>2, <1>3, <2>1, <2>2, <2>3, <2>5 DEF IndexInv, IndexTypes, IX!Idle
  <2>7. Covered'
    BY <1>2, <1>3, <2>1, <2>2, <2>4, <2>5 DEF IndexInv, Covered
  <2>8. Latest'
    <3> SUFFICES ASSUME NEW s \in DOMAIN state, NEW w \in Writers(s), w =< p.key, w \notin missed'
                 PROVE  w =< state[s]
      BY <1>2, <1>3, <2>1, <2>2 DEF IndexInv, Latest
    <3>1. w =< checkpoint.key /\ w \notin missed
      BY <1>3, <2>4, <2>5
    <3>2. w \notin Batch
      <4>1. w \in Int /\ checkpoint.key \in Int
        BY <1>3, <1>4
      <4>2. ~ (checkpoint.key < w)
        BY <3>1, <4>1
      <4> QED
        BY <4>2 DEF IndexInv, IndexTypes
    <3> QED
      BY <3>1, <3>2 DEF IndexInv, Latest, Reached
  <2> QED
    BY <1>5, <2>6, <2>7, <2>8 DEF IndexInv
<1>7. CASE kv # "badger"
  <2>1. /\ txs' = {} /\ state' = <<>> /\ position' = IX!Empty /\ checkpoint' = IX!Beginning
        /\ missed' = missed
    BY <1>7 DEF IX!Restart, IX!Boot, IX!Empty
  <2>2. IndexTypes'
    BY <1>1, <1>2, <1>3, <1>4, <2>1 DEF IndexInv, IndexTypes, IX!Idle
  <2>3. checkpoint'.key = 0
    BY <2>1 DEF IX!Beginning
  <2>4. Covered'
    <3>1. \A k \in Linked : ~ (k =< 0)
      BY <1>4
    <3> QED
      BY <1>2, <1>3, <2>1, <2>3, <3>1 DEF Covered
  <2>5. Latest'
    BY <2>1 DEF Latest
  <2> QED
    BY <1>5, <2>2, <2>4, <2>5 DEF IndexInv
<1> QED
  BY <1>6, <1>7

LEMMA IndexNext ==
  ASSUME IX!IndexerAssumption, IndexInv, IX!Next
  PROVE  IndexInv'
BY PublishPreserves, QueriesPreserve, CollectedPreserves, ApplyEventsPreserves,
   StoreEntryPreserves, SetFailsPreserves, UpdatePositionPreserves, SavesPreserve,
   IndexRestartPreserves DEF IX!Next

\* Only the indexer's own steps change what it keeps.
LEMMA IndexStep ==
  ASSUME IX!IndexerAssumption, part = "index" => IndexInv, [StorageNext]_storageVars
  PROVE  (part = "index" => IndexInv)'
<1> SUFFICES ASSUME part' = "index" PROVE IndexInv'
  OBVIOUS
<1>1. CASE StorageNext
  <2>1. part = "index" /\ IX!Next
    BY <1>1 DEF StorageNext
  <2> QED
    BY <2>1, IndexNext
<1>2. CASE UNCHANGED storageVars
  <2>1. part = "index" /\ UNCHANGED indexer
    BY <1>2 DEF storageVars
  <2>2. IX!Current' = IX!Current
    BY <2>1 DEF IX!Current, indexer
  <2> QED
    BY <2>1, <2>2
       DEF IndexInv, IndexTypes, Covered, InOrder, Latest, Storing, Linked, Metadata, Writers,
           Positions, Scans, Keys, Batch, Applying, Reached, indexer
<1> QED
  BY <1>1, <1>2

THEOREM StorageIndexInvariant ==
  ASSUME IX!IndexerAssumption
  PROVE  StorageSpec => [](part = "index" => IndexInv)
<1>1. StorageInit => (part = "index" => IndexInv)
  BY IndexInit DEF StorageInit
<1>2. (part = "index" => IndexInv) /\ [StorageNext]_storageVars => (part = "index" => IndexInv)'
  BY IndexStep
<1> QED
  BY <1>1, <1>2, PTL DEF StorageSpec

\* The types that the invariant of the indexer does not need.
Heights == {0} \cup Linked

IndexTyped ==
  /\ kv \in {"badger", "memory"} /\ running \in {"yes", "last", "no"}
  /\ receipts \subseteq Linked
  /\ checkpoint.height \in Heights /\ (position # IX!Empty => position.height \in Heights)

LEMMA PublishTyped ==
  ASSUME IX!IndexerAssumption, IndexInv, IndexTyped, IX!Publish
  PROVE  IndexTyped'
<1>1. PICK kind \in Entries : account' = Append(account, kind)
  BY DEF IX!Publish
<1>2. Linked \subseteq Linked'
  <2>1. account \in Seq(Entries) /\ Len(account) \in Nat /\ DOMAIN account = 1 .. Len(account)
    BY AccountType DEF IndexInv, IndexTypes
  <2>2. /\ \A k \in 1 .. Len(account) : account'[k] = account[k]
        /\ DOMAIN account' = 1 .. Len(account) + 1
    BY <1>1, <2>1, AppendProperties, LenProperties
  <2> QED
    BY <2>1, <2>2 DEF Linked
<1>3. UNCHANGED <<kv, position, checkpoint, running, receipts>>
  BY DEF IX!Publish, IX!kept
<1> QED
  BY <1>2, <1>3 DEF IndexTyped, Heights

LEMMA ScansTyped ==
  ASSUME IX!IndexerAssumption, IndexInv, IndexTyped,
         \/ IX!QueryFails \/ IX!QueryMetadata \/ IX!QueryAnchors \/ IX!Collected
         \/ IX!ApplyEvents \/ IX!SetFails
  PROVE  IndexTyped'
<1>1. UNCHANGED <<kv, account, position, checkpoint>>
  BY DEF IX!QueryFails, IX!QueryMetadata, IX!QueryAnchors, IX!Collected, IX!ApplyEvents,
         IX!SetFails, IX!StorageError, IX!kept
<1>2. running' \in {"yes", "last", "no"}
  BY DEF IX!QueryFails, IX!QueryMetadata, IX!QueryAnchors, IX!Collected, IX!ApplyEvents,
         IX!SetFails, IX!Tick, IndexTyped
<1>3. receipts' \subseteq Linked
  <2>1. \A path : IX!ScanDNDataAccount(path, checkpoint.key) \subseteq Linked
    BY ScanFinds DEF IndexInv
  <2> QED
    BY <2>1 DEF IX!QueryFails, IX!QueryMetadata, IX!QueryAnchors, IX!Collected, IX!ApplyEvents,
                IX!SetFails, IndexTyped
<1>4. Linked' = Linked
  BY <1>1 DEF Linked
<1> QED
  BY <1>1, <1>2, <1>3, <1>4 DEF IndexTyped, Heights

LEMMA StoreEntryTyped ==
  ASSUME IX!IndexerAssumption, IndexInv, IndexTyped, IX!StoreEntry
  PROVE  IndexTyped'
<1> DEFINE c == IX!Current
<1>1. /\ UNCHANGED <<kv, account, position, running>> /\ scan.step = "store"
      /\ receipts' = receipts \cup {c}
      /\ checkpoint' = [checkpoint EXCEPT !.height = IX!Max({@, c})]
  BY DEF IX!StoreEntry
<1>2. c \in Linked
  <2>1. scan \in Scans /\ Batch = scan.batch /\ Batch # {}
    BY <1>1 DEF IndexInv, IndexTypes, IX!Idle, Batch
  <2> QED
    BY <2>1, CurrentKey DEF IndexInv, Scans
<1>3. checkpoint \in Positions /\ c \in Nat
  BY <1>2, AccountType DEF IndexInv, IndexTypes
<1> HIDE DEF c
<1>4. IX!Max({checkpoint.height, c}) \in {checkpoint.height, c}
  <2>1. \E x \in {checkpoint.height, c} : \A y \in {checkpoint.height, c} : x >= y
    BY <1>3 DEF Positions
  <2> QED
    BY <2>1 DEF IX!Max
<1>5. checkpoint'.height \in Heights
  BY <1>1, <1>2, <1>3, <1>4 DEF IndexTyped, Heights, Positions
<1>6. Linked' = Linked
  BY <1>1 DEF Linked
<1> QED
  BY <1>1, <1>2, <1>5, <1>6 DEF IndexTyped, Heights

LEMMA PositionsTyped ==
  ASSUME IX!IndexerAssumption, IndexInv, IndexTyped,
         IX!UpdatePosition \/ IX!Finish \/ IX!Stop \/ IX!Restart
  PROVE  IndexTyped'
<1>1. UNCHANGED <<kv, account>> /\ Linked' = Linked
  BY DEF IX!UpdatePosition, IX!Finish, IX!Stop, IX!Restart, IX!kept, Linked
<1>2. checkpoint \in Positions
  BY DEF IndexInv, IndexTypes
<1>3. CASE IX!Restart
  <2>1. /\ checkpoint' \in {position, IX!Beginning} /\ (checkpoint' # IX!Empty \/ checkpoint' = IX!Beginning)
        /\ running' = "yes" /\ receipts' = {}
        /\ position' \in {position, IX!Empty}
    BY <1>3 DEF IX!Restart, IX!Boot, IX!kept
  <2>2. checkpoint'.height \in Heights
    BY <2>1 DEF IX!Beginning, IndexTyped, Heights
  <2> QED
    BY <1>1, <2>1, <2>2 DEF IndexTyped, Heights
<1>4. CASE ~ IX!Restart
  <2>1. receipts' = receipts /\ running' \in {"yes", "last", "no"}
    BY <1>4 DEF IX!UpdatePosition, IX!Finish, IX!Stop, IndexTyped
  <2>2. checkpoint'.height = checkpoint.height /\ position' \in {position, checkpoint'}
    BY <1>2, <1>4
       DEF IX!UpdatePosition, IX!Finish, IX!Stop, IX!SaveCheckpoint, IX!kept, Positions
  <2> QED
    BY <1>1, <2>1, <2>2 DEF IndexTyped, Heights
<1> QED
  BY <1>3, <1>4

LEMMA IndexTypedStep ==
  ASSUME IX!IndexerAssumption, part = "index" => IndexInv, part = "index" => IndexTyped,
         [StorageNext]_storageVars
  PROVE  (part = "index" => IndexTyped)'
<1> SUFFICES ASSUME part' = "index" PROVE IndexTyped'
  OBVIOUS
<1>1. part = "index" /\ IndexInv /\ IndexTyped
  BY DEF StorageNext, storageVars
<1>2. CASE IX!Next
  BY <1>1, <1>2, PublishTyped, ScansTyped, StoreEntryTyped, PositionsTyped DEF IX!Next
<1>3. CASE UNCHANGED indexer
  BY <1>1, <1>3 DEF indexer, IndexTyped, Heights, Linked
<1> QED
  BY <1>1, <1>2, <1>3 DEF StorageNext, storageVars

THEOREM StorageIndexTypes ==
  ASSUME IX!IndexerAssumption
  PROVE  StorageSpec => [](part = "index" => IX!TypeOK)
<1>1. StorageInit => (part = "index" => IndexTyped)
  BY DEF StorageInit, IX!Init, IX!Beginning, IX!Empty, IndexTyped, Heights
<1>2. (part = "index" => IndexInv) /\ (part = "index" => IndexTyped) /\ [StorageNext]_storageVars
        => (part = "index" => IndexTyped)'
  BY IndexTypedStep
<1>3. (part = "index" => IndexInv) /\ (part = "index" => IndexTyped)
        => (part = "index" => IX!TypeOK)
  <2> SUFFICES ASSUME IndexInv, IndexTyped PROVE IX!TypeOK
    OBVIOUS
  <2>1. Keys \subseteq Nat
    BY AccountType DEF IndexInv, IndexTypes, Keys
  <2> DEFINE P == [key : Nat, count : Nat, height : {0} \cup Linked]
  <2>2. checkpoint \in P /\ (position # IX!Empty => position \in P)
    BY <2>1 DEF IndexInv, IndexTypes, IndexTyped, Positions, Heights
  <2>3. IX!Range(state) \subseteq Linked
    <3>1. \A s \in DOMAIN state : state[s] \in Linked
      BY DEF IndexInv, Latest, Writers
    <3> QED
      BY <3>1 DEF IX!Range
  <2>4. /\ scan.step \in {"idle", "anchors", "collected", "apply", "store", "count"}
        /\ scan # IX!Idle => scan.batch \subseteq Linked
    BY DEF IndexInv, IndexTypes, Scans, IX!Idle
  <2>5. /\ account \in Seq(Entries) /\ txs \subseteq Linked /\ missed \subseteq Linked
        /\ kv \in {"badger", "memory"} /\ running \in {"yes", "last", "no"}
        /\ receipts \subseteq Linked
    BY DEF IndexInv, IndexTypes, IndexTyped
  <2> QED
    BY <2>2, <2>3, <2>4, <2>5 DEF IX!TypeOK, Linked
<1> QED
  BY <1>1, <1>2, <1>3, StorageIndexInvariant, PTL DEF StorageSpec

\* A linked entry up to the position, in memory or saved, is stored, was missed or was jumped
\* over, for any number of errors, restarts and batches.  And when a scan has ended and the
\* position has come up to all that is stored, each slot holds what its last entry wrote
\* (performScan, processEntry, applyEntry, loadCheckpoint).
THEOREM StoragePositionCovers ==
  ASSUME IX!IndexerAssumption
  PROVE  StorageSpec => []PositionCovers
<1>1. (part = "index" => IndexInv) => PositionCovers
  <2> SUFFICES ASSUME IndexInv PROVE IX!PositionCovers
    BY DEF PositionCovers
  <2>1. /\ DOMAIN account = 1 .. Len(account) /\ Len(account) \in Nat /\ Linked \subseteq Int
        /\ checkpoint.key \in Int /\ txs \subseteq Linked /\ missed \subseteq Linked
    BY AccountType DEF IndexInv, IndexTypes, Positions, Keys
  <2>2. ASSUME NEW k \in DOMAIN account, account[k].linked,
               k =< checkpoint.key \/ (position # IX!Empty /\ k =< position.key)
        PROVE  k \in txs \cup missed
    BY <2>2 DEF IndexInv, Covered, Linked
  <2>3. ASSUME scan = IX!Idle, \A k \in txs \cup IX!Range(state) : k =< checkpoint.key,
               NEW s \in DOMAIN state, Writers(s) \cap missed = {}
        PROVE  state[s] = IX!Max(Writers(s) \cap txs)
    <3> DEFINE S == Writers(s) \cap txs
    <3>1. Batch = {} /\ Writers(s) \subseteq Linked /\ S \in SUBSET (1 .. Len(account))
      BY <2>1, <2>3 DEF Batch, Writers, Linked
    <3>2. state[s] \in Writers(s) /\ state[s] =< checkpoint.key
      BY <2>3 DEF IndexInv, Latest, IX!Range
    <3>3. state[s] \in S
      BY <2>3, <3>1, <3>2 DEF IndexInv, Covered
    <3>4. \A w \in S : w =< state[s]
      BY <2>3, <3>1 DEF IndexInv, Latest, Reached
    <3>5. IX!Max(S) \in S /\ \A w \in S : w =< IX!Max(S)
      BY <2>1, <3>1, <3>3, LargestKey
    <3> HIDE DEF S
    <3>6. state[s] =< IX!Max(S) /\ IX!Max(S) =< state[s]
      BY <3>3, <3>4, <3>5
    <3>7. \A k \in S : k \in Int
      BY <2>1, <3>1
    <3>8. state[s] \in Int /\ IX!Max(S) \in Int
      BY <3>3, <3>5, <3>7
    <3>9. state[s] = IX!Max(S)
      BY <3>6, <3>8
    <3> QED
      BY <3>9 DEF S
  <2>4. \A s : Writers(s) = {k \in DOMAIN account : /\ account[k].linked /\ account[k].slot = s
                                                    /\ account[k].events # "none"}
    BY DEF Writers, Linked
  <2> QED
    BY <2>2, <2>3, <2>4 DEF IX!PositionCovers
<1> QED
  BY <1>1, StorageIndexInvariant, PTL

----------------------------------------------------------------------------
(***************************************************************************)
(* The contract store: what a record names is there.                       *)
(***************************************************************************)
\* The bytes of a module are at a location, unless they were written again while in use.
Found(location, code) == location \in rewritten \/ CS!Holds(location, code)

FoundModule(a, code) == Found(CS!ModuleBytes(a, code), code)

FoundList(list) ==
  \A v \in DOMAIN list : Found(CS!VersionBytes(list[v], v), list[v])

FoundCopy(copy) ==
  /\ \A a \in DOMAIN copy[1] : FoundModule(a, copy[1][a])
  /\ \A a \in DOMAIN copy[2] : FoundList(copy[2][a].list)

VersionLists == [list : Seq(Codes), active : Nat]
Deploying == [step : {"check", "open", "fill", "record"}, op : {"deploy"}, addr : Addrs, code : Codes]
Upgrading ==
  [step : CS!Steps, op : {"upgrade"}, addr : Addrs, code : Codes, migrates : BOOLEAN,
   list : Seq(Codes), active : Nat]
Activating ==
  [step : {"check", "record"}, op : {"activate"}, addr : Addrs, version : Nat, list : Seq(Codes),
   active : Nat]
ContractCalls == Deploying \cup Upgrading \cup Activating

ContractTypes ==
  /\ \A a \in DOMAIN versions : versions[a] \in VersionLists
  /\ saved # CS!Empty => \A a \in DOMAIN saved[2] : saved[2][a] \in VersionLists
  /\ call \in [Requests -> ContractCalls \cup {CS!NoCall}]
  /\ backend = "memory" =>
       /\ versions = CS!Empty /\ saved = CS!Empty
       /\ \A r \in Requests : call[r] # CS!NoCall => call[r].op = "deploy" /\ call[r].step # "open"

\* A call that is about to record what it has written finds it, as it finds the versions
\* that it has read.
CallFinds(r) ==
  call[r] # CS!NoCall =>
    /\ call[r].op # "deploy" => FoundList(call[r].list)
    /\ call[r].step = "record" /\ call[r].op # "activate" => Found(CS!Location(r), call[r].code)

\* In badger the bytes come first, ...
FilesFound ==
  backend = "badger" =>
    /\ FoundCopy(CS!keys)
    /\ saved # CS!Empty => FoundCopy(saved)
    /\ \A r \in Requests : CallFinds(r)

\* ... and in memory last: who has recorded a module has its bytes to put.
Filling(r, a) == call[r] # CS!NoCall /\ call[r].step = "fill" /\ call[r].addr = a

KeysFound ==
  backend = "memory" =>
    \A a \in DOMAIN modules :
      LET location == CS!ModuleBytes(a, modules[a]) IN
      \/ location \in rewritten
      \/ /\ location \notin DOMAIN bytes
         /\ \E r \in Requests : Filling(r, a) /\ call[r].code = modules[a]
      \/ /\ location \in DOMAIN bytes
         /\ CS!Holds(location, modules[a]) \/ \E r \in Requests : Filling(r, a)

ContractInv == backend \in {"badger", "memory"} /\ ContractTypes /\ FilesFound /\ KeysFound

\* Who puts a copy back has the engine, and there is a copy.
CopyHeld ==
  \A r \in Requests : call[r].step = "restore" => engine = r /\ saved # CS!Empty

\* A file holds one module: its name tells which.
LEMMA FileNames ==
  ASSUME backend = "badger"
  PROVE  /\ \A a, b, c, d : CS!ModuleBytes(a, c) = CS!ModuleBytes(b, d) => c = d
         /\ \A c, d, v, w : CS!VersionBytes(c, v) = CS!VersionBytes(d, w) => c = d
         /\ \A a, c, d, v : CS!ModuleBytes(a, c) # CS!VersionBytes(d, v)
<1>1. \A a, c : CS!ModuleBytes(a, c) = <<"file", c>>
  BY DEF CS!ModuleBytes
<1>2. \A c, v : CS!VersionBytes(c, v) = <<"file", c, v>>
  BY DEF CS!VersionBytes
<1>3. \A c, d, v : <<"file", c>> # <<"file", d, v>>
  <2> TAKE c, d, v
  <2>1. Len(<<"file", c>>) = 2 /\ Len(<<"file", d, v>>) = 3
    OBVIOUS
  <2> QED
    BY <2>1
<1> QED
  BY <1>1, <1>2, <1>3

\* What is written to a file leaves what the others hold, and what is cut short while it is
\* in use counts as written again.
LEMMA FilledIsFound ==
  ASSUME NEW location, NEW code, Found(location, code), rewritten' = rewritten,
         NEW other, NEW value, CS!WriteBytes(other, value),
         location = other => code = value
  PROVE  Found(location, code)'
BY DEF Found, CS!Holds, CS!WriteBytes, CS!Put

LEMMA CutIsFound ==
  ASSUME NEW location, NEW code, Found(location, code), NEW r, CS!OpenFile(r),
         location \in CS!InUse(r)
  PROVE  Found(location, code)'
BY DEF Found, CS!Holds, CS!OpenFile, CS!WriteBytes, CS!Put

LEMMA ContractInit ==
  ASSUME CS!ContractStoreAssumption, CS!Init
  PROVE  ContractInv
<1>1. /\ modules = <<>> /\ versions = <<>> /\ saved = CS!Empty /\ backend \in {"badger", "memory"}
      /\ DOMAIN modules = {} /\ DOMAIN versions = {} /\ versions = CS!Empty
  BY DEF CS!Init, CS!Empty
<1>2. call = [r \in Requests |-> CS!NoCall]
  BY DEF CS!Init
<1>3. FoundCopy(CS!keys)
  BY <1>1 DEF FoundCopy, CS!keys
<1> QED
  BY <1>1, <1>2, <1>3 DEF ContractInv, ContractTypes, FilesFound, KeysFound, CallFinds

\* A step that changes only what one request is doing.
LEMMA CallChanges ==
  ASSUME ContractInv, UNCHANGED <<backend, modules, versions, bytes, rewritten>>,
         saved' = saved \/ saved' = CS!Empty,
         NEW r \in Requests, NEW n \in ContractCalls \cup {CS!NoCall},
         call' = [call EXCEPT ![r] = n],
         backend = "memory" => /\ call[r].step # "fill"
                               /\ n # CS!NoCall => n.op = "deploy" /\ n.step # "open",
         backend = "badger" => CallFinds(r)'
  PROVE  ContractInv'
<1>1. call'[r] = n /\ \A q \in Requests \ {r} : call'[q] = call[q]
  BY DEF ContractInv, ContractTypes
<1>2. ContractTypes'
  BY <1>1 DEF ContractInv, ContractTypes
<1>3. /\ \A location, code : Found(location, code)' <=> Found(location, code)
      /\ \A list : FoundList(list)' <=> FoundList(list)
      /\ \A copy : FoundCopy(copy)' <=> FoundCopy(copy)
  BY DEF Found, FoundList, FoundCopy, FoundModule, CS!Holds, CS!ModuleBytes, CS!VersionBytes
<1>4. \A q \in Requests \ {r} : CallFinds(q)' <=> CallFinds(q)
  <2> TAKE q \in Requests \ {r}
  <2>1. call'[q] = call[q] /\ CS!Location(q)' = CS!Location(q)
    BY <1>1 DEF CS!Location, CS!ModuleBytes, CS!VersionBytes
  <2> QED
    BY <1>3, <2>1 DEF CallFinds
<1>5. FilesFound'
  BY <1>3, <1>4 DEF ContractInv, FilesFound, CS!keys
<1>6. KeysFound'
  <2> SUFFICES ASSUME backend = "memory", NEW a \in DOMAIN modules
               PROVE  LET location == CS!ModuleBytes(a, modules[a]) IN
                      \/ location \in rewritten
                      \/ /\ location \notin DOMAIN bytes
                         /\ \E q \in Requests : Filling(q, a)' /\ call'[q].code = modules[a]
                      \/ /\ location \in DOMAIN bytes
                         /\ CS!Holds(location, modules[a]) \/ \E q \in Requests : Filling(q, a)'
    BY DEF KeysFound, CS!ModuleBytes, CS!Holds
  <2>1. \A q \in Requests : Filling(q, a) => Filling(q, a)' /\ call'[q].code = call[q].code
    BY <1>1 DEF Filling
  <2> QED
    BY <2>1 DEF ContractInv, KeysFound
<1> QED
  BY <1>2, <1>5, <1>6 DEF ContractInv

LEMMA CallIsContract ==
  ASSUME ContractInv, NEW r \in Requests, call[r].step # "none"
  PROVE  /\ call[r] # CS!NoCall
         /\ call[r] \in ContractCalls
         /\ call[r].op = "deploy" => call[r] \in Deploying
         /\ call[r].op = "upgrade" => call[r] \in Upgrading
         /\ call[r].op = "activate" => call[r] \in Activating
BY DEF ContractInv, ContractTypes, CS!NoCall, ContractCalls, Deploying, Upgrading, Activating

LEMMA BeginPreserves ==
  ASSUME ContractInv, NEW r \in Requests, CS!Begin(r)
  PROVE  ContractInv'
<1>1. PICK a \in Addrs : \E c \in CS!Deploys(a) \cup (IF backend = "badger"
                                    THEN CS!Upgrades(a) \cup CS!Activations(a) ELSE {}) :
                           call' = [call EXCEPT ![r] = c]
  BY DEF CS!Begin
<1>2. PICK n \in CS!Deploys(a) \cup (IF backend = "badger"
                        THEN CS!Upgrades(a) \cup CS!Activations(a) ELSE {}) :
        call' = [call EXCEPT ![r] = n]
  BY <1>1
<1>3. /\ n \in ContractCalls /\ n.step = "check" /\ (n.op # "deploy" => n.list = <<>>)
      /\ backend = "memory" => n.op = "deploy"
  <2>1. CASE n \in CS!Deploys(a)
    <3>1. n \in Deploying /\ n.step = "check" /\ n.op = "deploy"
      BY <2>1 DEF CS!Deploys, Deploying
    <3> QED
      BY <3>1 DEF ContractCalls
  <2>2. CASE backend = "badger" /\ n \in CS!Upgrades(a)
    <3>1. PICK code \in Codes, migrates \in BOOLEAN :
            n = [step |-> "check", op |-> "upgrade", addr |-> a, code |-> code,
                 migrates |-> migrates, list |-> <<>>, active |-> 0]
      BY <2>2 DEF CS!Upgrades
    <3>2. <<>> \in Seq(Codes) /\ "check" \in CS!Steps
      BY EmptySeq DEF CS!Steps
    <3>3. n \in Upgrading
      BY <3>1, <3>2 DEF Upgrading
    <3> QED
      BY <2>2, <3>1, <3>3 DEF ContractCalls
  <2>3. CASE backend = "badger" /\ n \in CS!Activations(a)
    <3>1. PICK v \in 1 .. MaxVersions :
            n = [step |-> "check", op |-> "activate", addr |-> a, version |-> v, list |-> <<>>,
                 active |-> 0]
      BY <2>3 DEF CS!Activations
    <3>2. <<>> \in Seq(Codes) /\ v \in Nat
      BY EmptySeq
    <3>3. n \in Activating
      BY <3>1, <3>2 DEF Activating
    <3> QED
      BY <2>3, <3>1, <3>3 DEF ContractCalls
  <2> QED
    BY <2>1, <2>2, <2>3
<1>4. /\ UNCHANGED <<backend, modules, versions, bytes, rewritten, saved>>
      /\ call[r] = CS!NoCall
  BY DEF CS!Begin, CS!keys
<1>5. call'[r] = n
  BY <1>2 DEF ContractInv, ContractTypes
<1>6. CallFinds(r)'
  <2>1. FoundList(<<>>)'
    BY DEF FoundList
  <2> QED
    BY <1>3, <1>5, <2>1 DEF CallFinds
<1>7. call[r].step # "fill"
  BY <1>4 DEF CS!NoCall
<1> QED
  BY <1>2, <1>3, <1>4, <1>6, <1>7, CallChanges

LEMMA ChecksPreserve ==
  ASSUME ContractInv, NEW r \in Requests, CS!CheckDeploy(r) \/ CS!ReadVersions(r)
  PROVE  ContractInv'
<1>1. UNCHANGED <<backend, modules, versions, bytes, rewritten, saved>> /\ call[r].step = "check"
  BY DEF CS!CheckDeploy, CS!ReadVersions, CS!keys
<1>2. call[r] # CS!NoCall /\ call[r] \in ContractCalls
  BY <1>1, CallIsContract
<1>3. CASE CS!Return(r)
  <2>1. call' = [call EXCEPT ![r] = CS!NoCall] /\ call'[r] = CS!NoCall
    BY <1>3 DEF CS!Return, ContractInv, ContractTypes
  <2> QED
    BY <1>1, <2>1, CallChanges DEF CallFinds
<1>4. CASE CS!CheckDeploy(r) /\ ~ CS!Return(r)
  <2> DEFINE n == [call[r] EXCEPT !.step = IF backend = "badger" THEN "open" ELSE "record"]
  <2>1. call' = [call EXCEPT ![r] = n] /\ call[r].op = "deploy"
    BY <1>4 DEF CS!CheckDeploy, CS!Goto, CS!BytesFirst
  <2>2. n \in Deploying /\ n.op = "deploy" /\ n.step = IF backend = "badger" THEN "open" ELSE "record"
    BY <1>1, <2>1, CallIsContract DEF Deploying
  <2> HIDE DEF n
  <2>3. call'[r] = n /\ n \in ContractCalls
    BY <2>1, <2>2 DEF ContractInv, ContractTypes, ContractCalls
  <2>4. backend = "badger" => CallFinds(r)'
    BY <2>2, <2>3 DEF CallFinds
  <2>5. n.step # "open" \/ backend # "memory"
    BY <2>2
  <2> QED
    BY <1>1, <2>1, <2>2, <2>3, <2>4, <2>5, CallChanges
<1>5. CASE CS!ReadVersions(r) /\ ~ CS!Return(r)
  <2> DEFINE known == call[r].addr \in DOMAIN versions
  <2>1. PICK list \in Seq(Codes), active \in Nat, step \in {"open", "record"} :
           /\ list = IF known THEN versions[call[r].addr].list ELSE <<>>
           /\ active = IF known THEN versions[call[r].addr].active ELSE 0
           /\ step = IF call[r].op = "upgrade" THEN "open" ELSE "record"
    BY EmptySeq DEF ContractInv, ContractTypes, VersionLists
  <2> DEFINE n == [call[r] EXCEPT !.step = step, !.list = list, !.active = active]
  <2>2. call' = [call EXCEPT ![r] = n] /\ call[r].op \in {"upgrade", "activate"}
    BY <1>5, <2>1 DEF CS!ReadVersions
  <2>3. list \in Seq(Codes) /\ active \in Nat
    OBVIOUS
  <2>4. FoundList(list) \/ backend # "badger"
    BY <2>1 DEF ContractInv, FilesFound, FoundCopy, FoundList, CS!keys
  <2>5. step = (IF call[r].op = "upgrade" THEN "open" ELSE "record")
    BY <2>1
  <2>6. /\ n \in ContractCalls /\ n.list = list /\ n.op = call[r].op /\ n.step = step
    <3>1. CASE call[r].op = "upgrade"
      <4>1. n \in Upgrading /\ n.list = list /\ n.op = call[r].op /\ n.step = step
        BY <1>1, <2>3, <2>5, <3>1, CallIsContract DEF Upgrading, CS!Steps
      <4> QED
        BY <4>1 DEF ContractCalls
    <3>2. CASE call[r].op = "activate"
      <4>1. n \in Activating /\ n.list = list /\ n.op = call[r].op /\ n.step = step
        BY <1>1, <2>3, <2>5, <3>2, CallIsContract DEF Activating
      <4> QED
        BY <4>1 DEF ContractCalls
    <3> QED
      BY <2>2, <3>1, <3>2
  <2> HIDE DEF n
  <2>7. call'[r] = n
    BY <2>2 DEF ContractInv, ContractTypes
  <2>8. backend # "memory"
    BY <1>2, <2>2 DEF ContractInv, ContractTypes
  <2>9. FoundList(list) => FoundList(list)'
    <3>1. \A location, code : Found(location, code) => Found(location, code)'
      BY <1>1 DEF Found, CS!Holds
    <3> QED
      BY <3>1 DEF FoundList, CS!VersionBytes
  <2>10. ~ (n.step = "record" /\ n.op # "activate")
    BY <2>2, <2>5, <2>6
  <2>11. backend = "badger" => CallFinds(r)'
    BY <2>4, <2>6, <2>7, <2>9, <2>10 DEF CallFinds
  <2> QED
    BY <1>1, <2>2, <2>6, <2>8, <2>11, CallChanges
<1> QED
  BY <1>3, <1>4, <1>5

\* The locations that name the bytes of a module.
Names(location, code) ==
  \/ \E a : location = CS!ModuleBytes(a, code)
  \/ \E v : location = CS!VersionBytes(code, v)

LEMMA LocationNames ==
  ASSUME NEW r, call[r].op \in {"deploy", "upgrade"}
  PROVE  Names(CS!Location(r), call[r].code)
BY DEF Names, CS!Location

\* When what is in use stays found, everybody finds it.
LEMMA FilesKept ==
  ASSUME ContractInv, backend = "badger", UNCHANGED <<backend, modules, versions, saved>>,
         NEW r \in Requests, call[r] # CS!NoCall,
         NEW n \in ContractCalls \cup {CS!NoCall}, call' = [call EXCEPT ![r] = n],
         n # CS!NoCall => /\ n.op = call[r].op
                          /\ n.op # "deploy" => n.list = call[r].list
                          /\ n.step = "record" /\ n.op # "activate" => Found(CS!Location(r), n.code)',
         \A location, code : location \in CS!InUse(r) /\ Names(location, code) /\ Found(location, code)
                               => Found(location, code)'
  PROVE  ContractInv'
<1>1. call'[r] = n /\ \A q \in Requests \ {r} : call'[q] = call[q]
  BY DEF ContractInv, ContractTypes
<1>2. ContractTypes' /\ KeysFound'
  BY <1>1 DEF ContractInv, ContractTypes, KeysFound
<1>3. ASSUME NEW list, FoundList(list), CS!ListBytes(list) \subseteq CS!InUse(r)
      PROVE  FoundList(list)'
  <2> SUFFICES ASSUME NEW v \in DOMAIN list PROVE Found(CS!VersionBytes(list[v], v), list[v])'
    BY DEF FoundList, CS!VersionBytes
  <2>1. CS!VersionBytes(list[v], v) \in CS!InUse(r) /\ Names(CS!VersionBytes(list[v], v), list[v])
    BY <1>3 DEF CS!ListBytes, Names
  <2> QED
    BY <1>3, <2>1 DEF FoundList
<1>4. ASSUME NEW copy, FoundCopy(copy), CS!Named(copy) \subseteq CS!InUse(r)
      PROVE  FoundCopy(copy)'
  <2>1. ASSUME NEW a \in DOMAIN copy[1] PROVE FoundModule(a, copy[1][a])'
    <3>1. CS!ModuleBytes(a, copy[1][a]) \in CS!InUse(r)
      BY <1>4 DEF CS!Named
    <3>2. Names(CS!ModuleBytes(a, copy[1][a]), copy[1][a])
      BY DEF Names
    <3>3. Found(CS!ModuleBytes(a, copy[1][a]), copy[1][a])
      BY <1>4 DEF FoundCopy, FoundModule
    <3>4. Found(CS!ModuleBytes(a, copy[1][a]), copy[1][a])'
      BY <3>1, <3>2, <3>3 DEF CS!ModuleBytes
    <3> QED
      BY <3>4 DEF FoundModule
  <2>2. ASSUME NEW a \in DOMAIN copy[2] PROVE FoundList(copy[2][a].list)'
    <3>1. FoundList(copy[2][a].list) /\ CS!ListBytes(copy[2][a].list) \subseteq CS!InUse(r)
      BY <1>4 DEF CS!Named, FoundCopy
    <3> QED
      BY <1>3, <3>1
  <2> QED
    BY <2>1, <2>2 DEF FoundCopy
<1>5. /\ CS!Named(CS!keys) \subseteq CS!InUse(r)
      /\ saved # CS!Empty => CS!Named(saved) \subseteq CS!InUse(r)
      /\ \A q \in Requests : call[q] # CS!NoCall /\ call[q].op # "deploy"
           => CS!ListBytes(call[q].list) \subseteq CS!InUse(r)
      /\ \A q \in Requests \ {r} : call[q].step \in {"fill", "record"} /\ call[q].op # "activate"
           => CS!Location(q) \in CS!InUse(r)
  BY DEF CS!InUse
<1>6. FoundCopy(CS!keys)' /\ (saved # CS!Empty => FoundCopy(saved))'
  <2>1. FoundCopy(CS!keys) /\ (saved # CS!Empty => FoundCopy(saved))
    BY DEF ContractInv, FilesFound
  <2>2. CS!keys' = CS!keys
    BY DEF CS!keys
  <2>3. PICK k, sv : k = CS!keys /\ sv = saved
    OBVIOUS
  <2>4. FoundCopy(k)' /\ (sv # CS!Empty => FoundCopy(sv)')
    BY <1>4, <1>5, <2>1, <2>3
  <2> QED
    BY <2>2, <2>3, <2>4
<1>7. ASSUME NEW q \in Requests PROVE CallFinds(q)'
  <2> SUFFICES ASSUME call'[q] # CS!NoCall
               PROVE  /\ call'[q].op # "deploy" => FoundList(call[q].list)'
                      /\ call'[q].step = "record" /\ call'[q].op # "activate"
                           => Found(CS!Location(q), call[q].code)'
    BY DEF CallFinds
  <2>1. call[q] # CS!NoCall /\ CallFinds(q)
    BY <1>1 DEF ContractInv, FilesFound
  <2>2. ASSUME call'[q].op # "deploy" PROVE FoundList(call[q].list)'
    <3>1. call[q].op # "deploy" /\ call'[q].list = call[q].list
      BY <1>1, <2>2
    <3>2. FoundList(call[q].list)
      BY <2>1, <3>1 DEF CallFinds
    <3>3. PICK list : list = call[q].list
      OBVIOUS
    <3>4. FoundList(list)'
      BY <1>3, <1>5, <2>1, <3>1, <3>2, <3>3
    <3>5. call'[q].list = list
      BY <3>1, <3>3
    <3> QED
      BY <3>4, <3>5
  <2>3. ASSUME call'[q].step = "record", call'[q].op # "activate"
        PROVE  Found(CS!Location(q), call[q].code)'
    <3>1. CASE q = r
      BY <1>1, <2>3, <3>1
    <3>2. CASE q # r
      <4>1. call'[q] = call[q] /\ CS!Location(q)' = CS!Location(q)
        BY <1>1, <3>2 DEF CS!Location, CS!ModuleBytes, CS!VersionBytes
      <4>2. Found(CS!Location(q), call[q].code) /\ CS!Location(q) \in CS!InUse(r)
        BY <1>5, <2>1, <2>3, <3>2, <4>1 DEF CallFinds
      <4>3. call[q].op \in {"deploy", "upgrade"}
        BY <2>1, <2>3, <4>1 DEF ContractInv, ContractTypes, ContractCalls, Deploying, Upgrading,
                                Activating
      <4>4. PICK location, code : location = CS!Location(q) /\ code = call[q].code
        OBVIOUS
      <4>5. Found(location, code)'
        BY <4>2, <4>3, <4>4, LocationNames
      <4> QED
        BY <4>1, <4>4, <4>5
    <3> QED
      BY <3>1, <3>2
  <2> QED
    BY <2>2, <2>3
<1>8. FilesFound'
  BY <1>6, <1>7 DEF FilesFound
<1> QED
  BY <1>2, <1>8 DEF ContractInv

LEMMA OpenFilePreserves ==
  ASSUME ContractInv, NEW r \in Requests, CS!OpenFile(r)
  PROVE  ContractInv'
<1> DEFINE n == [call[r] EXCEPT !.step = "fill"]
<1>1. /\ call' = [call EXCEPT ![r] = n] /\ call[r].step = "open"
      /\ UNCHANGED <<backend, modules, versions, saved>>
  BY DEF CS!OpenFile, CS!Goto, CS!keys
<1>2. call[r] \in ContractCalls /\ call[r] # CS!NoCall /\ backend = "badger"
  BY <1>1, CallIsContract DEF ContractInv, ContractTypes
<1>3. n \in ContractCalls /\ n.step = "fill" /\ n.op = call[r].op
      /\ (n.op # "deploy" => n.list = call[r].list)
  <2>1. CASE call[r] \in Deploying
    BY <2>1 DEF Deploying, ContractCalls
  <2>2. CASE call[r] \in Upgrading
    BY <2>2 DEF Upgrading, ContractCalls, CS!Steps
  <2>3. CASE call[r] \in Activating
    BY <1>1, <2>3 DEF Activating
  <2> QED
    BY <1>2, <2>1, <2>2, <2>3 DEF ContractCalls
<1> HIDE DEF n
<1>4. \A location, code : location \in CS!InUse(r) /\ Found(location, code)
                            => Found(location, code)'
  BY CutIsFound
<1> QED
  BY <1>1, <1>2, <1>3, <1>4, FilesKept

LEMMA FillFilePreserves ==
  ASSUME ContractInv, NEW r \in Requests, CS!FillFile(r)
  PROVE  ContractInv'
<1>1. PICK n : n = [call[r] EXCEPT !.step = "record"]
  OBVIOUS
<1>2. /\ call' = [call EXCEPT ![r] = n] /\ call[r].step = "fill" /\ backend = "badger"
      /\ CS!WriteBytes(CS!Location(r), call[r].code)
      /\ UNCHANGED <<backend, modules, versions, saved, rewritten>>
  BY <1>1 DEF CS!FillFile, CS!Goto, CS!keys, CS!BytesFirst
<1>3. call[r] \in ContractCalls /\ call[r] # CS!NoCall
  BY <1>2, CallIsContract
<1>4. /\ n \in ContractCalls /\ n.op = call[r].op /\ n.code = call[r].code /\ n.addr = call[r].addr
      /\ n.op # "deploy" => n.list = call[r].list
      /\ call[r].op \in {"deploy", "upgrade"}
  <2>1. CASE call[r] \in Deploying
    BY <1>1, <2>1 DEF Deploying, ContractCalls
  <2>2. CASE call[r] \in Upgrading
    BY <1>1, <2>2 DEF Upgrading, ContractCalls, CS!Steps
  <2>3. CASE call[r] \in Activating
    BY <1>2, <2>3 DEF Activating
  <2> QED
    BY <1>3, <2>1, <2>2, <2>3 DEF ContractCalls
<1>5. call'[r] = n
  BY <1>2 DEF ContractInv, ContractTypes
<1>6. Found(CS!Location(r), n.code)'
  <2>1. CS!Location(r)' = CS!Location(r)
    BY <1>2, <1>4, <1>5 DEF CS!Location, CS!ModuleBytes, CS!VersionBytes
  <2>2. PICK location, code : location = CS!Location(r) /\ code = call[r].code
    OBVIOUS
  <2>3. location \in DOMAIN bytes' /\ bytes'[location] = code
    BY <1>2, <2>2 DEF CS!WriteBytes, CS!Put
  <2>4. Found(location, code)'
    BY <2>3 DEF Found, CS!Holds
  <2> QED
    BY <1>4, <1>5, <2>1, <2>2, <2>4
<1>7. ASSUME NEW location, NEW code, Names(location, code), Found(location, code)
      PROVE  Found(location, code)'
  <2>1. Names(CS!Location(r), call[r].code)
    BY <1>4, LocationNames
  <2>2. location = CS!Location(r) => code = call[r].code
    BY <1>2, <1>7, <2>1, FileNames DEF Names
  <2> QED
    BY <1>2, <1>7, <2>2, FilledIsFound
<1> QED
  BY <1>2, <1>3, <1>4, <1>6, <1>7, FilesKept

LEMMA FillKeyPreserves ==
  ASSUME ContractInv, NEW r \in Requests, CS!FillKey(r)
  PROVE  ContractInv'
<1>1. /\ call' = [call EXCEPT ![r] = CS!NoCall] /\ call[r].step = "fill" /\ backend = "memory"
      /\ CS!WriteBytes(CS!Location(r), call[r].code)
      /\ rewritten' = rewritten \cup (DOMAIN bytes \cap {CS!Location(r)})
      /\ UNCHANGED <<backend, modules, versions, saved>>
  BY DEF CS!FillKey, CS!Return, CS!keys
<1>2. call[r] # CS!NoCall /\ call[r].op = "deploy"
  BY <1>1, CallIsContract DEF ContractInv, ContractTypes
<1>3. call'[r] = CS!NoCall /\ \A q \in Requests \ {r} : call'[q] = call[q]
  BY <1>1 DEF ContractInv, ContractTypes
<1>4. ContractTypes'
  BY <1>1, <1>3 DEF ContractInv, ContractTypes
<1>5. PICK l, b : l = CS!Location(r) /\ b = call[r].addr
  OBVIOUS
<1>6. l = <<"key", b>>
  BY <1>1, <1>2, <1>5 DEF CS!Location, CS!ModuleBytes
<1>7. /\ DOMAIN bytes' = DOMAIN bytes \cup {l} /\ bytes'[l] = call[r].code
      /\ \A k \in DOMAIN bytes : k # l => bytes'[k] = bytes[k]
      /\ rewritten' = rewritten \cup (DOMAIN bytes \cap {l})
  BY <1>1, <1>5 DEF CS!WriteBytes, CS!Put
<1>8. ASSUME NEW a \in DOMAIN modules
      PROVE  \/ <<"key", a>> \in rewritten'
             \/ /\ <<"key", a>> \notin DOMAIN bytes'
                /\ \E q \in Requests : Filling(q, a)' /\ call'[q].code = modules[a]
             \/ /\ <<"key", a>> \in DOMAIN bytes'
                /\ bytes'[<<"key", a>>] = modules[a] \/ \E q \in Requests : Filling(q, a)'
  <2>1. \/ <<"key", a>> \in rewritten
        \/ /\ <<"key", a>> \notin DOMAIN bytes
           /\ \E q \in Requests : Filling(q, a) /\ call[q].code = modules[a]
        \/ /\ <<"key", a>> \in DOMAIN bytes
           /\ bytes[<<"key", a>>] = modules[a] \/ \E q \in Requests : Filling(q, a)
    BY <1>1 DEF ContractInv, KeysFound, CS!ModuleBytes, CS!Holds
  <2>2. \A q \in Requests : Filling(q, a) /\ q # r => Filling(q, a)' /\ call'[q] = call[q]
    BY <1>3 DEF Filling
  <2>3. CASE a = b
    <3>1. CASE l \in DOMAIN bytes
      BY <1>6, <1>7, <2>3, <3>1
    <3>2. CASE l \notin DOMAIN bytes
      <4>1. l \in DOMAIN bytes' /\ l = <<"key", a>>
        BY <1>6, <1>7, <2>3
      <4>2. l \in rewritten \/ \E q \in Requests : Filling(q, a) /\ call[q].code = modules[a]
        BY <2>1, <3>2, <4>1
      <4>3. CASE l \in rewritten
        BY <1>7, <4>1, <4>3
      <4>4. ASSUME NEW q \in Requests, Filling(q, a), call[q].code = modules[a]
            PROVE  bytes'[l] = modules[a] \/ \E p \in Requests : Filling(p, a)'
        <5>1. CASE q = r
          BY <1>7, <4>4, <5>1
        <5>2. CASE q # r
          BY <2>2, <4>4, <5>2
        <5> QED
          BY <5>1, <5>2
      <4> QED
        BY <4>1, <4>2, <4>3, <4>4
    <3> QED
      BY <3>1, <3>2
  <2>4. CASE a # b
    <3>1. <<"key", a>> # l
      BY <1>6, <2>4
    <3>2. \A q \in Requests : Filling(q, a) => q # r
      BY <1>5, <2>4 DEF Filling
    <3> QED
      BY <1>7, <2>1, <2>2, <3>1, <3>2
  <2> QED
    BY <2>3, <2>4
<1>9. KeysFound'
  BY <1>1, <1>8 DEF KeysFound, CS!ModuleBytes, CS!Holds
<1> QED
  BY <1>1, <1>4, <1>9 DEF ContractInv, FilesFound

\* A step that changes the records, and no bytes.
LEMMA RecordsChange ==
  ASSUME ContractInv, backend = "badger", UNCHANGED <<backend, bytes, rewritten>>,
         \A a \in DOMAIN modules' : FoundModule(a, modules'[a]),
         \A a \in DOMAIN versions' : versions'[a] \in VersionLists /\ FoundList(versions'[a].list),
         saved' # CS!Empty =>
           /\ \A a \in DOMAIN saved'[1] : FoundModule(a, saved'[1][a])
           /\ \A a \in DOMAIN saved'[2] : saved'[2][a] \in VersionLists /\ FoundList(saved'[2][a].list),
         NEW r \in Requests, NEW n \in ContractCalls \cup {CS!NoCall},
         call' = [call EXCEPT ![r] = n],
         n # CS!NoCall => n.step # "record" /\ (n.op # "deploy" => FoundList(n.list))
  PROVE  ContractInv'
<1>1. call'[r] = n /\ \A q \in Requests \ {r} : call'[q] = call[q]
  BY DEF ContractInv, ContractTypes
<1>2. ContractTypes' /\ KeysFound'
  BY <1>1 DEF ContractInv, ContractTypes, KeysFound
<1>3. \A location, code : Found(location, code) => Found(location, code)'
  BY DEF Found, CS!Holds
<1>4. /\ \A a, code : FoundModule(a, code) => FoundModule(a, code)'
      /\ \A list : FoundList(list) => FoundList(list)'
  BY <1>3 DEF FoundModule, FoundList, CS!ModuleBytes, CS!VersionBytes
<1>5. FoundCopy(CS!keys)'
  <2>1. CS!keys'[1] = modules' /\ CS!keys'[2] = versions'
    BY DEF CS!keys
  <2> QED
    BY <1>4, <2>1 DEF FoundCopy
<1>6. (saved # CS!Empty => FoundCopy(saved))'
  BY <1>4 DEF FoundCopy
<1>7. ASSUME NEW q \in Requests PROVE CallFinds(q)'
  <2>1. CASE q = r
    BY <1>1, <1>4, <2>1 DEF CallFinds
  <2>2. CASE q # r
    <3>1. call'[q] = call[q] /\ CS!Location(q)' = CS!Location(q)
      BY <1>1, <2>2 DEF CS!Location, CS!ModuleBytes, CS!VersionBytes
    <3> QED
      BY <1>3, <1>4, <3>1 DEF ContractInv, FilesFound, CallFinds
  <2> QED
    BY <2>1, <2>2
<1> QED
  BY <1>2, <1>5, <1>6, <1>7 DEF ContractInv, FilesFound

\* The records of a copy, one by one.
LEMMA CopyFound ==
  ASSUME ContractInv, backend = "badger"
  PROVE  /\ \A a \in DOMAIN modules : FoundModule(a, modules[a])
         /\ \A a \in DOMAIN versions : versions[a] \in VersionLists /\ FoundList(versions[a].list)
         /\ saved # CS!Empty =>
              /\ \A a \in DOMAIN saved[1] : FoundModule(a, saved[1][a])
              /\ \A a \in DOMAIN saved[2] : saved[2][a] \in VersionLists /\ FoundList(saved[2][a].list)
<1>1. CS!keys[1] = modules /\ CS!keys[2] = versions
  BY DEF CS!keys
<1> QED
  BY <1>1 DEF ContractInv, ContractTypes, FilesFound, FoundCopy

LEMMA RecordModulePreserves ==
  ASSUME ContractInv, NEW r \in Requests, CS!RecordModule(r)
  PROVE  ContractInv'
<1>1. /\ call[r].step = "record" /\ call[r].op = "deploy"
      /\ modules' = CS!Put(modules, call[r].addr, call[r].code)
      /\ UNCHANGED <<backend, versions, bytes, saved, rewritten>>
  BY DEF CS!RecordModule
<1>2. call[r] # CS!NoCall /\ call[r] \in Deploying
  BY <1>1, CallIsContract
<1>3. PICK b, code : b = call[r].addr /\ code = call[r].code
  OBVIOUS
<1>4. /\ DOMAIN modules' = DOMAIN modules \cup {b} /\ modules'[b] = code
      /\ \A a \in DOMAIN modules : a # b => modules'[a] = modules[a]
  BY <1>1, <1>3 DEF CS!Put
<1>5. CASE backend = "badger"
  <2>1. call' = [call EXCEPT ![r] = CS!NoCall]
    BY <1>5 DEF CS!RecordModule, CS!BytesFirst, CS!Return
  <2>2. FoundModule(b, code)
    <3>1. CallFinds(r)
      BY <1>5 DEF ContractInv, FilesFound
    <3> QED
      BY <1>1, <1>2, <1>3, <3>1 DEF CallFinds, FoundModule, CS!Location
  <2>3. \A a \in DOMAIN modules' : FoundModule(a, modules'[a])
    BY <1>4, <1>5, <2>2, CopyFound
  <2> QED
    BY <1>1, <1>5, <2>1, <2>3, CopyFound, RecordsChange
<1>6. CASE backend = "memory"
  <2>1. call' = [call EXCEPT ![r].step = "fill"]
    BY <1>6 DEF CS!RecordModule, CS!BytesFirst, CS!Goto
  <2>2. /\ call'[r] \in Deploying /\ call'[r].step = "fill" /\ call'[r].addr = b
        /\ call'[r].code = code /\ call'[r].op = "deploy"
        /\ \A q \in Requests \ {r} : call'[q] = call[q]
    BY <1>2, <1>3, <2>1 DEF ContractInv, ContractTypes, Deploying
  <2>3. call' \in [Requests -> ContractCalls \cup {CS!NoCall}]
    BY <2>1, <2>2 DEF ContractInv, ContractTypes, ContractCalls
  <2>4. ContractTypes'
    BY <1>1, <1>6, <2>2, <2>3 DEF ContractInv, ContractTypes
  <2>5. Filling(r, b)'
    BY <2>2 DEF Filling, CS!NoCall
  <2>6. KeysFound'
    <3> SUFFICES ASSUME NEW a \in DOMAIN modules'
                 PROVE  \/ <<"key", a>> \in rewritten
                        \/ /\ <<"key", a>> \notin DOMAIN bytes
                           /\ \E q \in Requests : Filling(q, a)' /\ call'[q].code = modules'[a]
                        \/ /\ <<"key", a>> \in DOMAIN bytes
                           /\ \/ bytes[<<"key", a>>] = modules'[a]
                              \/ \E q \in Requests : Filling(q, a)'
      BY <1>1, <1>6 DEF KeysFound, CS!ModuleBytes, CS!Holds
    <3>1. CASE a = b
      BY <1>4, <2>2, <2>5, <3>1
    <3>2. CASE a # b
      <4>1. a \in DOMAIN modules /\ modules'[a] = modules[a]
        BY <1>4, <3>2
      <4>2. \/ <<"key", a>> \in rewritten
            \/ /\ <<"key", a>> \notin DOMAIN bytes
               /\ \E q \in Requests : Filling(q, a) /\ call[q].code = modules[a]
            \/ /\ <<"key", a>> \in DOMAIN bytes
               /\ bytes[<<"key", a>>] = modules[a] \/ \E q \in Requests : Filling(q, a)
        BY <1>6, <4>1 DEF ContractInv, KeysFound, CS!ModuleBytes, CS!Holds
      <4>3. \A q \in Requests : Filling(q, a) => Filling(q, a)' /\ call'[q].code = call[q].code
        BY <1>1, <2>2 DEF Filling
      <4> QED
        BY <4>1, <4>2, <4>3
    <3> QED
      BY <3>1, <3>2
  <2> QED
    BY <1>1, <1>6, <2>4, <2>6 DEF ContractInv, FilesFound
<1> QED
  BY <1>5, <1>6 DEF ContractInv

LEMMA RecordVersionsPreserves ==
  ASSUME ContractInv, NEW r \in Requests, CS!RecordVersions(r)
  PROVE  ContractInv'
<1>1. /\ call[r].step = "record" /\ call[r].op \in {"upgrade", "activate"}
      /\ UNCHANGED <<backend, modules, bytes, saved, rewritten>>
  BY DEF CS!RecordVersions
<1>2. call[r] # CS!NoCall /\ call[r] \in ContractCalls /\ backend = "badger"
  BY <1>1, CallIsContract DEF ContractInv, ContractTypes
<1>3. FoundList(call[r].list) /\ CallFinds(r)
  BY <1>1, <1>2 DEF ContractInv, FilesFound, CallFinds
<1>4. ASSUME NEW entry \in VersionLists, FoundList(entry.list),
             versions' = CS!Put(versions, call[r].addr, entry)
      PROVE  \A a \in DOMAIN versions' : versions'[a] \in VersionLists /\ FoundList(versions'[a].list)
  <2>1. \A a \in DOMAIN versions' : versions'[a] = entry
                                    \/ (a \in DOMAIN versions /\ versions'[a] = versions[a])
    BY <1>4 DEF CS!Put
  <2> QED
    BY <1>2, <1>4, <2>1, CopyFound
<1>5. CASE call[r].op = "activate"
  <2> DEFINE entry == [list |-> call[r].list, active |-> call[r].version]
  <2>1. entry \in VersionLists /\ entry.list = call[r].list
    BY <1>1, <1>5, CallIsContract DEF Activating, VersionLists
  <2>2. versions' = CS!Put(versions, call[r].addr, entry) /\ call' = [call EXCEPT ![r] = CS!NoCall]
    BY <1>5 DEF CS!RecordVersions, CS!Return
  <2> HIDE DEF entry
  <2> QED
    BY <1>1, <1>2, <1>3, <1>4, <2>1, <2>2, CopyFound, RecordsChange
<1>6. CASE call[r].op = "upgrade"
  <2> DEFINE list == Append(call[r].list, call[r].code)
             entry == [list |-> list, active |-> call[r].active]
  <2>1. /\ call[r].list \in Seq(Codes) /\ call[r].code \in Codes /\ call[r].active \in Nat
        /\ call[r] \in Upgrading
    BY <1>1, <1>6, CallIsContract DEF Upgrading
  <2>2. /\ list \in Seq(Codes) /\ DOMAIN list = 1 .. Len(call[r].list) + 1
        /\ DOMAIN call[r].list = 1 .. Len(call[r].list) /\ Len(call[r].list) \in Nat
        /\ \A v \in 1 .. Len(call[r].list) : list[v] = call[r].list[v]
        /\ list[Len(call[r].list) + 1] = call[r].code
    BY <2>1, AppendProperties, LenProperties
  <2>3. versions' = CS!Put(versions, call[r].addr, entry)
    BY <1>6 DEF CS!RecordVersions
  <2> HIDE DEF list
  <2>4. FoundList(list)
    <3> SUFFICES ASSUME NEW v \in DOMAIN list PROVE Found(CS!VersionBytes(list[v], v), list[v])
      BY DEF FoundList
    <3>1. CASE v \in 1 .. Len(call[r].list)
      BY <1>3, <2>2, <3>1 DEF FoundList
    <3>2. CASE v = Len(call[r].list) + 1
      BY <1>1, <1>2, <1>3, <1>6, <2>2, <3>2 DEF CallFinds, CS!Location
    <3> QED
      BY <2>2, <3>1, <3>2
  <2>5. entry \in VersionLists /\ entry.list = list
    BY <2>1, <2>2 DEF VersionLists
  <2>6. PICK n \in ContractCalls \cup {CS!NoCall} :
          /\ call' = [call EXCEPT ![r] = n]
          /\ n # CS!NoCall => n.step # "record" /\ n.list = call[r].list
    <3>1. CASE call' = [call EXCEPT ![r] = CS!NoCall]
      BY <3>1
    <3>2. CASE call' = [call EXCEPT ![r].step = "migrate"]
      <4> DEFINE n == [call[r] EXCEPT !.step = "migrate"]
      <4>1. n \in Upgrading /\ n.step = "migrate" /\ n.list = call[r].list
        BY <2>1 DEF Upgrading, CS!Steps
      <4> QED
        BY <3>2, <4>1 DEF ContractCalls
    <3> QED
      BY <1>6, <3>1, <3>2 DEF CS!RecordVersions, CS!Return, CS!Goto
  <2> HIDE DEF entry
  <2>7. \A a \in DOMAIN versions' : versions'[a] \in VersionLists /\ FoundList(versions'[a].list)
    BY <1>4, <2>3, <2>4, <2>5
  <2> QED
    BY <1>1, <1>2, <1>3, <2>6, <2>7, CopyFound, RecordsChange
<1> QED
  BY <1>1, <1>5, <1>6

\* A migration copies the records and puts them back.
LEMMA MigratePreserves ==
  ASSUME ContractInv, NEW r \in Requests, CS!Migrate(r)
  PROVE  ContractInv'
<1>1. UNCHANGED <<backend, bytes, rewritten>> /\ call[r].step = "migrate"
  BY DEF CS!Migrate
<1>2. /\ call[r] \in Upgrading /\ call[r] # CS!NoCall /\ call[r].op = "upgrade"
      /\ backend = "badger"
  BY <1>1, CallIsContract
     DEF ContractInv, ContractTypes, ContractCalls, Deploying, Upgrading, Activating
<1>3. FoundList(call[r].list)
  BY <1>2 DEF ContractInv, FilesFound, CallFinds
<1>4. CASE CS!Return(r) /\ UNCHANGED <<modules, versions, saved>>
  <2>1. CS!NoCall \in ContractCalls \cup {CS!NoCall} /\ call' = [call EXCEPT ![r] = CS!NoCall]
    BY <1>4 DEF CS!Return
  <2> QED
    BY <1>1, <1>2, <1>4, <2>1, CopyFound, RecordsChange
<1>5. CASE UNCHANGED <<modules, versions, saved, call>>
  <2> DEFINE n == call[r]
  <2>1. call' = [call EXCEPT ![r] = n] /\ n \in ContractCalls /\ n.step # "record"
    BY <1>1, <1>2, <1>5 DEF ContractInv, ContractTypes, ContractCalls
  <2> HIDE DEF n
  <2>2. FoundList(n.list)
    BY <1>3 DEF n
  <2> QED
    BY <1>1, <1>2, <1>5, <2>1, <2>2, CopyFound, RecordsChange
<1>6. CASE /\ saved' = CS!keys /\ modules' = CS!Empty /\ versions' = CS!Empty
           /\ CS!Goto(r, "restore")
  <2> DEFINE n == [call[r] EXCEPT !.step = "restore"]
  <2>1. call' = [call EXCEPT ![r] = n]
    BY <1>6 DEF CS!Goto
  <2>2. n \in ContractCalls /\ n.step = "restore" /\ n.list = call[r].list
    BY <1>2 DEF Upgrading, CS!Steps, ContractCalls
  <2>3. saved'[1] = modules /\ saved'[2] = versions
    BY <1>6 DEF CS!keys
  <2>4. DOMAIN modules' = {} /\ DOMAIN versions' = {}
    BY <1>6 DEF CS!Empty
  <2> HIDE DEF n
  <2> QED
    BY <1>1, <1>2, <1>3, <2>1, <2>2, <2>3, <2>4, CopyFound, RecordsChange
<1> QED
  BY <1>4, <1>5, <1>6 DEF CS!Migrate, CS!keys

LEMMA RestorePreserves ==
  ASSUME ContractInv, CopyHeld, NEW r \in Requests, CS!Restore(r)
  PROVE  ContractInv'
<1>1. /\ UNCHANGED <<backend, bytes, rewritten>> /\ call[r].step = "restore"
      /\ modules' = CS!Over(saved[1], modules) /\ versions' = CS!Over(saved[2], versions)
      /\ saved' = CS!Empty /\ call' = [call EXCEPT ![r] = CS!NoCall]
  BY DEF CS!Restore, CS!Return
<1>2. backend = "badger"
  BY <1>1, CallIsContract DEF ContractInv, ContractTypes, Deploying
<1>3. saved # CS!Empty
  BY <1>1 DEF CopyHeld
<1>4. \A a \in DOMAIN modules' : FoundModule(a, modules'[a])
  BY <1>1, <1>2, <1>3, CopyFound DEF CS!Over
<1>5. \A a \in DOMAIN versions' : versions'[a] \in VersionLists /\ FoundList(versions'[a].list)
  BY <1>1, <1>2, <1>3, CopyFound DEF CS!Over
<1> QED
  BY <1>1, <1>2, <1>4, <1>5, RecordsChange

LEMMA FailPreserves ==
  ASSUME ContractInv, NEW r \in Requests, CS!Fail(r)
  PROVE  ContractInv'
<1>1. /\ UNCHANGED <<backend, modules, versions, bytes, rewritten>> /\ backend = "badger"
      /\ saved' = saved \/ saved' = CS!Empty
      /\ call' = [call EXCEPT ![r] = CS!NoCall]
  BY DEF CS!Fail, CS!Return, CS!keys
<1>2. call'[r] = CS!NoCall
  BY <1>1 DEF ContractInv, ContractTypes
<1> QED
  BY <1>1, <1>2, CallChanges DEF CallFinds

LEMMA ContractRestartPreserves ==
  ASSUME ContractInv, CS!Restart
  PROVE  ContractInv'
<1>1. backend' = backend /\ saved' = CS!Empty /\ call' = [r \in Requests |-> CS!NoCall]
  BY DEF CS!Restart
<1>2. CASE backend = "badger"
  <2>1. UNCHANGED <<modules, versions, bytes, rewritten>>
    BY <1>2 DEF CS!Restart, CS!keys
  <2>2. FoundCopy(CS!keys)' <=> FoundCopy(CS!keys)
    <3>1. \A location, code : Found(location, code)' <=> Found(location, code)
      BY <2>1 DEF Found, CS!Holds
    <3>2. CS!keys' = CS!keys
      BY <2>1 DEF CS!keys
    <3> QED
      BY <1>1, <3>1, <3>2 DEF FoundCopy, FoundModule, FoundList, CS!ModuleBytes, CS!VersionBytes
  <2> QED
    BY <1>1, <1>2, <2>1, <2>2 DEF ContractInv, ContractTypes, FilesFound, KeysFound, CallFinds
<1>3. CASE backend = "memory"
  <2>1. /\ modules' = CS!Empty /\ versions' = CS!Empty
        /\ DOMAIN modules' = {} /\ DOMAIN versions' = {}
    BY <1>3 DEF CS!Restart, CS!Empty
  <2> QED
    BY <1>1, <1>3, <2>1 DEF ContractInv, ContractTypes, FilesFound, KeysFound
<1> QED
  BY <1>2, <1>3 DEF ContractInv

LEMMA ContractNext ==
  ASSUME ContractInv, CopyHeld, CS!Next
  PROVE  ContractInv'
BY BeginPreserves, ChecksPreserve, OpenFilePreserves, FillFilePreserves, FillKeyPreserves,
   RecordModulePreserves, RecordVersionsPreserves, MigratePreserves, RestorePreserves,
   FailPreserves, ContractRestartPreserves DEF CS!Next

LEMMA CopyHeldNext ==
  ASSUME CS!ContractStoreAssumption, ContractInv, CopyHeld, CS!Next
  PROVE  CopyHeld'
<1>1. call \in [Requests -> ContractCalls \cup {CS!NoCall}]
  BY DEF ContractInv, ContractTypes
<1>2. ASSUME NEW r \in Requests, NEW n, call' = [call EXCEPT ![r] = n], n.step # "restore",
             UNCHANGED <<engine, saved>>
      PROVE  CopyHeld'
  BY <1>1, <1>2 DEF CopyHeld
<1>3. CS!NoCall.step # "restore"
  BY DEF CS!NoCall
<1>4. ASSUME NEW r \in Requests, NEW step \in CS!Steps \ {"restore"}, CS!Goto(r, step),
             UNCHANGED <<engine, saved>>
      PROVE  CopyHeld'
  <2>1. /\ \A q \in Requests \ {r} : call'[q] = call[q]
        /\ call'[r] = [call[r] EXCEPT !.step = step]
    BY <1>1, <1>4 DEF CS!Goto
  <2>2. call[r] \in ContractCalls \cup {CS!NoCall}
    BY <1>1
  <2>3. call'[r].step = step
    BY <2>1, <2>2 DEF ContractCalls, Deploying, Upgrading, Activating, CS!NoCall
  <2> QED
    BY <1>4, <2>1, <2>3 DEF CopyHeld
<1>5. ASSUME NEW r \in Requests, CS!Return(r), UNCHANGED <<engine, saved>>
      PROVE  CopyHeld'
  BY <1>2, <1>3, <1>5 DEF CS!Return
<1>6. ASSUME NEW r \in Requests, CS!Begin(r) PROVE CopyHeld'
  <2>1. PICK a \in Addrs :
          \E c \in CS!Deploys(a) \cup (IF backend = "badger"
                             THEN CS!Upgrades(a) \cup CS!Activations(a) ELSE {}) :
            call' = [call EXCEPT ![r] = c]
    BY <1>6 DEF CS!Begin
  <2>2. PICK n \in CS!Deploys(a) \cup CS!Upgrades(a) \cup CS!Activations(a) :
          call' = [call EXCEPT ![r] = n]
    BY <2>1
  <2>3. n.step = "check"
    BY DEF CS!Deploys, CS!Upgrades, CS!Activations
  <2> QED
    BY <1>2, <1>6, <2>2, <2>3 DEF CS!Begin
<1>7. ASSUME NEW r \in Requests, CS!CheckDeploy(r) PROVE CopyHeld'
  BY <1>4, <1>5, <1>7 DEF CS!CheckDeploy, CS!Steps
<1>8. ASSUME NEW r \in Requests, CS!ReadVersions(r) PROVE CopyHeld'
  <2>1. CASE CS!Return(r)
    BY <1>5, <1>8, <2>1 DEF CS!ReadVersions
  <2>2. CASE ~ CS!Return(r)
    <3> DEFINE known == call[r].addr \in DOMAIN versions
               list == IF known THEN versions[call[r].addr].list ELSE <<>>
               active == IF known THEN versions[call[r].addr].active ELSE 0
               step == IF call[r].op = "upgrade" THEN "open" ELSE "record"
    <3>1. call' = [call EXCEPT ![r].step = step, ![r].list = list, ![r].active = active]
      BY <1>8, <2>2 DEF CS!ReadVersions
    <3>2. step # "restore"
      OBVIOUS
    <3> HIDE DEF list, active, step
    <3>3. call[r] \in Upgrading \cup Activating
      <4>1. call[r].step = "check" /\ call[r].op \in {"upgrade", "activate"}
        BY <1>8 DEF CS!ReadVersions
      <4> QED
        BY <4>1, CallIsContract
    <3>4. /\ \A q \in Requests \ {r} : call'[q] = call[q]
          /\ call'[r].step = step
      BY <1>1, <3>1, <3>3 DEF Upgrading, Activating
    <3> QED
      BY <1>8, <3>2, <3>4 DEF CopyHeld, CS!ReadVersions
  <2> QED
    BY <2>1, <2>2
<1>9. ASSUME NEW r \in Requests, CS!OpenFile(r) \/ CS!FillFile(r) \/ CS!FillKey(r)
      PROVE  CopyHeld'
  BY <1>4, <1>5, <1>9 DEF CS!OpenFile, CS!FillFile, CS!FillKey, CS!Steps
<1>10. ASSUME NEW r \in Requests, CS!RecordModule(r) \/ CS!RecordVersions(r) PROVE CopyHeld'
  BY <1>4, <1>5, <1>10 DEF CS!RecordModule, CS!RecordVersions, CS!Steps
<1>11. ASSUME NEW r \in Requests, CS!Migrate(r) PROVE CopyHeld'
  <2>1. engine = "free" /\ call[r].step = "migrate"
    BY <1>11 DEF CS!Migrate
  <2>2. \A q \in Requests : call[q].step # "restore"
    BY <2>1 DEF CopyHeld, CS!ContractStoreAssumption
  <2>3. CASE UNCHANGED call
    BY <2>2, <2>3 DEF CopyHeld
  <2>4. CASE CS!Return(r)
    BY <1>1, <1>3, <2>2, <2>4 DEF CopyHeld, CS!Return
  <2>5. CASE engine' = r /\ saved' = CS!keys /\ CS!Goto(r, "restore")
    <3>1. \A q \in Requests \ {r} : call'[q] = call[q]
      BY <1>1, <2>5 DEF CS!Goto
    <3>2. saved' # CS!Empty
      <4>1. Len(<<modules, versions>>) = 2 /\ Len(<<>>) = 0
        OBVIOUS
      <4> QED
        BY <2>5, <4>1 DEF CS!keys, CS!Empty
    <3> QED
      BY <2>2, <2>5, <3>1, <3>2 DEF CopyHeld
  <2> QED
    BY <1>11, <2>3, <2>4, <2>5 DEF CS!Migrate
<1>12. ASSUME NEW r \in Requests, CS!Restore(r) \/ CS!Fail(r) PROVE CopyHeld'
  <2>1. /\ call'[r] = CS!NoCall /\ \A q \in Requests \ {r} : call'[q] = call[q]
    BY <1>1, <1>12 DEF CS!Restore, CS!Fail, CS!Return
  <2>2. UNCHANGED <<engine, saved>> \/ engine = r
    BY <1>12 DEF CS!Restore, CS!Fail, CopyHeld
  <2> QED
    BY <1>3, <2>1, <2>2 DEF CopyHeld
<1>13. CS!Restart => CopyHeld'
  BY <1>3 DEF CS!Restart, CopyHeld
<1> QED
  BY <1>6, <1>7, <1>8, <1>9, <1>10, <1>11, <1>12, <1>13 DEF CS!Next

\* Only the store's own steps change what it keeps.
LEMMA ContractStep ==
  ASSUME CS!ContractStoreAssumption, part = "contracts" => ContractInv /\ CopyHeld,
         [StorageNext]_storageVars
  PROVE  (part = "contracts" => ContractInv /\ CopyHeld)'
<1> SUFFICES ASSUME part' = "contracts" PROVE ContractInv' /\ CopyHeld'
  OBVIOUS
<1>1. CASE StorageNext
  <2>1. part = "contracts" /\ CS!Next
    BY <1>1 DEF StorageNext
  <2> QED
    BY <2>1, ContractNext, CopyHeldNext
<1>2. CASE UNCHANGED storageVars
  <2>1. part = "contracts" /\ UNCHANGED contractStore
    BY <1>2 DEF storageVars
  <2>2. CS!keys' = CS!keys /\ \A r : CS!Location(r)' = CS!Location(r)
    BY <2>1 DEF CS!keys, CS!Location, CS!ModuleBytes, CS!VersionBytes, contractStore
  <2>3. \A location, code : Found(location, code)' <=> Found(location, code)
    BY <2>1 DEF Found, CS!Holds, contractStore
  <2>4. /\ \A copy : FoundCopy(copy)' <=> FoundCopy(copy)
        /\ \A list : FoundList(list)' <=> FoundList(list)
    BY <2>1, <2>3
       DEF FoundCopy, FoundModule, FoundList, CS!ModuleBytes, CS!VersionBytes, contractStore
  <2>5. FilesFound'
    BY <2>1, <2>2, <2>3, <2>4 DEF ContractInv, FilesFound, CallFinds, contractStore
  <2>6. ContractTypes' /\ KeysFound' /\ CopyHeld'
    BY <2>1 DEF ContractInv, ContractTypes, KeysFound, CopyHeld, Filling, CS!ModuleBytes,
                CS!Holds, contractStore
  <2> QED
    BY <2>1, <2>5, <2>6 DEF ContractInv, contractStore
<1> QED
  BY <1>1, <1>2

THEOREM StorageContractInvariant ==
  ASSUME CS!ContractStoreAssumption
  PROVE  StorageSpec => [](part = "contracts" => ContractInv /\ CopyHeld)
<1>1. StorageInit => (part = "contracts" => ContractInv /\ CopyHeld)
  <2>1. CS!Init => CopyHeld
    BY DEF CS!Init, CS!NoCall, CopyHeld
  <2> QED
    BY <2>1, ContractInit DEF StorageInit
<1>2. (part = "contracts" => ContractInv /\ CopyHeld) /\ [StorageNext]_storageVars
        => (part = "contracts" => ContractInv /\ CopyHeld)'
  BY ContractStep
<1> QED
  BY <1>1, <1>2, PTL DEF StorageSpec

\* The types that the invariant of the contract store does not need.
TypedList(v) == Len(v.list) =< MaxVersions /\ v.active =< Len(v.list)

TypedCopy(copy) ==
  /\ DOMAIN copy[1] \subseteq Addrs /\ \A a \in DOMAIN copy[1] : copy[1][a] \in Codes \ Unfit
  /\ DOMAIN copy[2] \subseteq Addrs /\ \A a \in DOMAIN copy[2] : TypedList(copy[2][a])

TypedCall(c) ==
  c # CS!NoCall =>
    /\ c.op = "deploy" => c.code \in Codes \ Unfit
    /\ c.op # "deploy" => TypedList(c)
    /\ c.op = "upgrade" /\ c.step \in {"open", "fill", "record"} => Len(c.list) < MaxVersions
    /\ c.op = "activate" /\ c.step = "record" => c.version =< Len(c.list)

TypedBytes ==
  /\ \A l \in DOMAIN bytes : bytes[l] \in Codes \cup {"cut"}
  /\ rewritten \subseteq DOMAIN bytes

TypedMigration ==
  /\ engine \in {"free", "stuck"} \cup Requests
  /\ saved # CS!Empty => engine \in Requests /\ TypedCopy(saved)

ContractTyped ==
  /\ \A r \in Requests : TypedCall(call[r])
  /\ TypedCopy(CS!keys) /\ TypedBytes /\ TypedMigration

LEMMA ContractAssumed ==
  ASSUME CS!ContractStoreAssumption
  PROVE  /\ Requests \cap {"free", "stuck"} = {} /\ Unfit \subseteq Codes
         /\ MaxVersions \in Nat
BY DEF CS!ContractStoreAssumption

LEMMA CallTyped ==
  ASSUME ContractInv, ContractTyped, NEW r \in Requests, NEW n, TypedCall(n),
         call' = [call EXCEPT ![r] = n]
  PROVE  \A q \in Requests : TypedCall(call'[q])
BY DEF ContractInv, ContractTypes, ContractTyped

LEMMA BytesTyped ==
  ASSUME TypedBytes, NEW location, NEW value \in Codes \cup {"cut"},
         CS!WriteBytes(location, value),
         rewritten' \subseteq rewritten \cup {location}
  PROVE  TypedBytes'
<1>1. /\ DOMAIN bytes' = DOMAIN bytes \cup {location} /\ bytes'[location] = value
      /\ \A l \in DOMAIN bytes \ {location} : bytes'[l] = bytes[l]
  BY DEF CS!WriteBytes, CS!Put
<1> QED
  BY <1>1 DEF TypedBytes

\* What a call has in each of its forms.
LEMMA CallForms ==
  ASSUME NEW c \in ContractCalls
  PROVE  /\ c # CS!NoCall /\ c.addr \in Addrs /\ c.op \in {"deploy", "upgrade", "activate"}
         /\ c.step \in CS!Steps
         /\ c.op = "deploy" => c \in Deploying
         /\ c.op = "upgrade" => c \in Upgrading
         /\ c.op = "activate" => c \in Activating
<1>1. CASE c \in Deploying
  BY <1>1 DEF Deploying, CS!NoCall, CS!Steps
<1>2. CASE c \in Upgrading
  BY <1>2 DEF Upgrading, CS!NoCall
<1>3. CASE c \in Activating
  BY <1>3 DEF Activating, CS!NoCall, CS!Steps
<1> QED
  BY <1>1, <1>2, <1>3 DEF ContractCalls

\* A call that goes on keeps what it has.
LEMMA GotoTyped ==
  ASSUME ContractInv, ContractTyped, NEW r \in Requests, NEW step, CS!Goto(r, step),
         call[r].step # "none", call[r].step # "check",
         step \in {"open", "fill", "record"} =>
           call[r].step \in {"open", "fill", "record"}
  PROVE  \A q \in Requests : TypedCall(call'[q])
<1> DEFINE n == [call[r] EXCEPT !.step = step]
<1>1. call' = [call EXCEPT ![r] = n]
  BY DEF CS!Goto
<1>2. call[r] \in ContractCalls /\ TypedCall(call[r])
  BY CallIsContract DEF ContractTyped
<1>3. TypedCall(n)
  <2>1. CASE call[r].op = "deploy"
    <3>1. call[r] \in Deploying
      BY <1>2, <2>1, CallForms
    <3>2. n.op = "deploy" /\ n.code = call[r].code
      BY <3>1 DEF Deploying
    <3> QED
      BY <1>2, <2>1, <3>2, CallForms DEF TypedCall
  <2>2. CASE call[r].op = "upgrade"
    <3>1. call[r] \in Upgrading
      BY <1>2, <2>2, CallForms
    <3>2. n.op = "upgrade" /\ n.list = call[r].list /\ n.active = call[r].active /\ n.step = step
      BY <3>1 DEF Upgrading
    <3> QED
      BY <1>2, <2>2, <3>2, CallForms DEF TypedCall, TypedList
  <2>3. CASE call[r].op = "activate"
    <3>1. call[r] \in Activating
      BY <1>2, <2>3, CallForms
    <3>2. /\ n.op = "activate" /\ n.list = call[r].list /\ n.active = call[r].active
          /\ n.version = call[r].version /\ call[r].step = "record"
      BY <3>1 DEF Activating
    <3> QED
      BY <1>2, <2>3, <3>2, CallForms DEF TypedCall, TypedList
  <2> QED
    BY <1>2, <2>1, <2>2, <2>3, CallForms
<1> HIDE DEF n
<1> QED
  BY <1>1, <1>3, CallTyped

LEMMA ReturnTyped ==
  ASSUME ContractInv, ContractTyped, NEW r \in Requests, CS!Return(r)
  PROVE  \A q \in Requests : TypedCall(call'[q])
<1>1. TypedCall(CS!NoCall)
  BY DEF TypedCall
<1> QED
  BY <1>1, CallTyped DEF CS!Return

LEMMA BeginTyped ==
  ASSUME CS!ContractStoreAssumption, ContractInv, ContractTyped, NEW r \in Requests, CS!Begin(r)
  PROVE  ContractTyped'
<1>1. UNCHANGED <<modules, versions, bytes, engine, saved, rewritten>>
  BY DEF CS!Begin, CS!keys
<1>2. PICK a, n : /\ n \in CS!Deploys(a) \cup CS!Upgrades(a) \cup CS!Activations(a)
                  /\ call' = [call EXCEPT ![r] = n]
  BY DEF CS!Begin
<1>3. TypedCall(n)
  <2>1. Len(<<>>) = 0 /\ MaxVersions \in Nat
    BY ContractAssumed
  <2>2. CASE n \in CS!Deploys(a)
    BY <2>2, ContractAssumed DEF CS!Deploys, TypedCall
  <2>3. CASE n \in CS!Upgrades(a)
    BY <2>1, <2>3 DEF CS!Upgrades, TypedCall, TypedList
  <2>4. CASE n \in CS!Activations(a)
    BY <2>1, <2>4 DEF CS!Activations, TypedCall, TypedList
  <2> QED
    BY <1>2, <2>2, <2>3, <2>4
<1>4. \A q \in Requests : TypedCall(call'[q])
  BY <1>2, <1>3, CallTyped
<1> QED
  BY <1>1, <1>4 DEF ContractTyped, TypedCopy, TypedBytes, TypedMigration, CS!keys

LEMMA ChecksTyped ==
  ASSUME CS!ContractStoreAssumption, ContractInv, ContractTyped, NEW r \in Requests,
         CS!CheckDeploy(r) \/ CS!ReadVersions(r)
  PROVE  ContractTyped'
<1>1. UNCHANGED <<modules, versions, bytes, engine, saved, rewritten>>
  BY DEF CS!CheckDeploy, CS!ReadVersions, CS!keys
<1>2. call[r] \in ContractCalls /\ TypedCall(call[r])
  BY CallIsContract DEF CS!CheckDeploy, CS!ReadVersions, ContractTyped
<1>3. CASE CS!CheckDeploy(r)
  <2>1. CASE CS!Return(r)
    BY <1>1, <2>1, ReturnTyped DEF ContractTyped, TypedCopy, TypedBytes, TypedMigration, CS!keys
  <2>2. CASE ~ CS!Return(r)
    <3>1. PICK step : call' = [call EXCEPT ![r].step = step]
      BY <1>3, <2>2 DEF CS!CheckDeploy, CS!Goto
    <3> DEFINE n == [call[r] EXCEPT !.step = step]
    <3>2. call[r] \in Deploying /\ call[r].op = "deploy"
      BY <1>2, <1>3, CallForms DEF CS!CheckDeploy
    <3>3. n.op = "deploy" /\ n.code = call[r].code
      BY <3>2 DEF Deploying
    <3>4. TypedCall(n)
      BY <1>2, <3>2, <3>3, CallForms DEF TypedCall
    <3>5. call' = [call EXCEPT ![r] = n]
      BY <3>1
    <3> HIDE DEF n
    <3> QED
      BY <1>1, <3>4, <3>5, CallTyped
         DEF ContractTyped, TypedCopy, TypedBytes, TypedMigration, CS!keys
  <2> QED
    BY <2>1, <2>2
<1>4. CASE CS!ReadVersions(r)
  <2> DEFINE c == call[r]
             list == IF c.addr \in DOMAIN versions THEN versions[c.addr].list ELSE <<>>
             active == IF c.addr \in DOMAIN versions THEN versions[c.addr].active ELSE 0
             step == IF c.op = "upgrade" THEN "open" ELSE "record"
             n == [c EXCEPT !.step = step, !.list = list, !.active = active]
  <2>1. CASE CS!Return(r)
    BY <1>1, <2>1, ReturnTyped DEF ContractTyped, TypedCopy, TypedBytes, TypedMigration, CS!keys
  <2>2. CASE ~ CS!Return(r)
    <3>1. /\ c.op \in {"upgrade", "activate"}
          /\ c.op = "upgrade" => Len(list) < MaxVersions
          /\ c.op = "activate" => c.version \in DOMAIN list
          /\ call' = [call EXCEPT ![r] = n]
      BY <1>4, <2>2 DEF CS!ReadVersions
    <3>2. list \in Seq(Codes) /\ active \in Nat /\ Len(list) =< MaxVersions /\ active =< Len(list)
      <4>1. CASE c.addr \in DOMAIN versions
        <5>1. versions[c.addr] \in VersionLists /\ TypedList(versions[c.addr])
          BY <4>1 DEF ContractInv, ContractTypes, ContractTyped, TypedCopy, CS!keys
        <5> QED
          BY <4>1, <5>1 DEF VersionLists, TypedList
      <4>2. CASE c.addr \notin DOMAIN versions
        BY <4>2, ContractAssumed
      <4> QED
        BY <4>1, <4>2
    <3> HIDE DEF list, active
    <3>3. TypedCall(n)
      <4>1. CASE c.op = "upgrade"
        <5>1. c \in Upgrading
          BY <1>2, <4>1, CallForms
        <5>2. n.op = "upgrade" /\ n.list = list /\ n.active = active
          BY <4>1, <5>1 DEF Upgrading
        <5> HIDE DEF n
        <5> QED
          BY <3>1, <3>2, <4>1, <5>2 DEF TypedCall, TypedList
      <4>2. CASE c.op = "activate"
        <5>1. c \in Activating
          BY <1>2, <4>2, CallForms
        <5>2. n.op = "activate" /\ n.list = list /\ n.active = active /\ n.version = c.version
          BY <4>2, <5>1 DEF Activating
        <5>3. DOMAIN list = 1 .. Len(list)
          BY <3>2, LenProperties
        <5> HIDE DEF n
        <5> QED
          BY <3>1, <3>2, <4>2, <5>2, <5>3 DEF TypedCall, TypedList
      <4> QED
        BY <3>1, <4>1, <4>2
    <3> HIDE DEF n
    <3> QED
      BY <1>1, <3>1, <3>3, CallTyped
         DEF ContractTyped, TypedCopy, TypedBytes, TypedMigration, CS!keys
  <2> QED
    BY <2>1, <2>2
<1> QED
  BY <1>3, <1>4

LEMMA WritesTyped ==
  ASSUME CS!ContractStoreAssumption, ContractInv, ContractTyped, NEW r \in Requests,
         CS!OpenFile(r) \/ CS!FillFile(r) \/ CS!FillKey(r)
  PROVE  ContractTyped'
<1>1. /\ UNCHANGED <<modules, versions, engine, saved>> /\ call[r].step \in {"open", "fill"}
      /\ CS!Return(r) \/ \E step \in {"fill", "record"} : CS!Goto(r, step)
      /\ rewritten' \subseteq rewritten \cup {CS!Location(r)}
      /\ \E value \in {"cut", call[r].code} : CS!WriteBytes(CS!Location(r), value)
  BY DEF CS!OpenFile, CS!FillFile, CS!FillKey, CS!keys
<1>2. \A q \in Requests : TypedCall(call'[q])
  BY <1>1, GotoTyped, ReturnTyped
<1>3. call[r].code \in Codes
  <2>1. call[r] \in ContractCalls
    BY <1>1, CallIsContract
  <2>2. CASE call[r] \in Deploying
    BY <2>2 DEF Deploying
  <2>3. CASE call[r] \in Upgrading
    BY <2>3 DEF Upgrading
  <2>4. CASE call[r] \in Activating
    BY <1>1, <2>4 DEF Activating
  <2> QED
    BY <2>1, <2>2, <2>3, <2>4 DEF ContractCalls
<1>4. TypedBytes'
  <2>1. TypedBytes
    BY DEF ContractTyped
  <2>2. PICK location, value : /\ value \in Codes \cup {"cut"}
                               /\ CS!WriteBytes(location, value)
                               /\ rewritten' \subseteq rewritten \cup {location}
    BY <1>1, <1>3
  <2> QED
    BY <2>1, <2>2, BytesTyped
<1> QED
  BY <1>1, <1>2, <1>4 DEF ContractTyped, TypedCopy, TypedMigration, CS!keys

LEMMA RecordTyped ==
  ASSUME CS!ContractStoreAssumption, ContractInv, ContractTyped, NEW r \in Requests,
         CS!RecordModule(r) \/ CS!RecordVersions(r)
  PROVE  ContractTyped'
<1> DEFINE c == call[r]
<1>1. /\ UNCHANGED <<bytes, engine, saved, rewritten>> /\ c.step = "record"
      /\ CS!Return(r) \/ \E step : CS!Goto(r, step)
  BY DEF CS!RecordModule, CS!RecordVersions
<1>2. \A q \in Requests : TypedCall(call'[q])
  BY <1>1, GotoTyped, ReturnTyped
<1>3. c \in ContractCalls /\ TypedCall(c) /\ c # CS!NoCall /\ c.addr \in Addrs
  BY <1>1, CallIsContract, CallForms DEF ContractTyped
<1>4. TypedCopy(CS!keys)
  BY DEF ContractTyped
<1>5. CASE CS!RecordModule(r)
  <2>1. c.code \in Codes \ Unfit
    BY <1>3, <1>5 DEF CS!RecordModule, TypedCall
  <2>2. PICK a, code : /\ a \in Addrs /\ code \in Codes \ Unfit
                       /\ modules' = CS!Put(modules, a, code) /\ versions' = versions
    BY <1>3, <1>5, <2>1 DEF CS!RecordModule
  <2>3. /\ DOMAIN modules' = DOMAIN modules \cup {a} /\ modules'[a] = code
        /\ \A x \in DOMAIN modules \ {a} : modules'[x] = modules[x]
    BY <2>2 DEF CS!Put
  <2>4. TypedCopy(CS!keys)'
    BY <1>4, <2>2, <2>3 DEF TypedCopy, CS!keys
  <2> QED
    BY <1>1, <1>2, <2>4 DEF ContractTyped, TypedBytes, TypedMigration
<1>6. CASE CS!RecordVersions(r)
  <2>1. \E v : TypedList(v) /\ versions' = CS!Put(versions, c.addr, v)
    <3>1. CASE c.op = "activate"
      <4> DEFINE v == [list |-> c.list, active |-> c.version]
      <4>1. TypedList(v)
        BY <1>1, <1>3, <3>1 DEF TypedCall, TypedList
      <4>2. versions' = CS!Put(versions, c.addr, v)
        BY <1>6, <3>1 DEF CS!RecordVersions
      <4> QED
        BY <4>1, <4>2
    <3>2. CASE c.op = "upgrade"
      <4> DEFINE v == [list |-> Append(c.list, c.code), active |-> c.active]
      <4>1. c \in Upgrading
        BY <1>3, <3>2, CallForms
      <4>2. c.list \in Seq(Codes) /\ c.code \in Codes /\ c.active \in Nat
        BY <4>1 DEF Upgrading
      <4>3. Len(Append(c.list, c.code)) = Len(c.list) + 1 /\ Len(c.list) \in Nat
        BY <4>2, AppendProperties, LenProperties
      <4>4. Len(c.list) < MaxVersions /\ c.active =< Len(c.list)
        BY <1>1, <1>3, <3>2 DEF TypedCall, TypedList
      <4>5. TypedList(v)
        BY <4>2, <4>3, <4>4, ContractAssumed DEF TypedList
      <4>6. versions' = CS!Put(versions, c.addr, v)
        BY <1>6, <3>2 DEF CS!RecordVersions
      <4> QED
        BY <4>5, <4>6
    <3> QED
      BY <1>6, <3>1, <3>2 DEF CS!RecordVersions
  <2>2. PICK a, v : /\ a \in Addrs /\ TypedList(v)
                    /\ versions' = CS!Put(versions, a, v) /\ modules' = modules
    BY <1>3, <1>6, <2>1 DEF CS!RecordVersions
  <2>3. /\ DOMAIN versions' = DOMAIN versions \cup {a} /\ versions'[a] = v
        /\ \A x \in DOMAIN versions \ {a} : versions'[x] = versions[x]
    BY <2>2 DEF CS!Put
  <2>4. TypedCopy(CS!keys)'
    BY <1>4, <2>2, <2>3 DEF TypedCopy, CS!keys
  <2> QED
    BY <1>1, <1>2, <2>4 DEF ContractTyped, TypedBytes, TypedMigration
<1> QED
  BY <1>5, <1>6

LEMMA MigrationTyped ==
  ASSUME CS!ContractStoreAssumption, ContractInv, CopyHeld, ContractTyped, NEW r \in Requests,
         CS!Migrate(r) \/ CS!Restore(r) \/ CS!Fail(r)
  PROVE  ContractTyped'
<1>1. UNCHANGED <<bytes, rewritten>>
  BY DEF CS!Migrate, CS!Restore, CS!Fail
<1>2. \A q \in Requests : TypedCall(call'[q])
  <2>1. CASE call' = call
    BY <2>1 DEF ContractTyped
  <2>2. CASE call' # call
    <3>1. call[r].step # "none" /\ call[r].step # "check"
          /\ (CS!Return(r) \/ CS!Goto(r, "restore"))
      BY <2>2 DEF CS!Migrate, CS!Restore, CS!Fail
    <3> QED
      BY <3>1, GotoTyped, ReturnTyped
  <2> QED
    BY <2>1, <2>2
<1>3. TypedCopy(CS!keys) /\ TypedMigration /\ TypedBytes
  BY DEF ContractTyped
<1>4. TypedBytes'
  BY <1>1, <1>3 DEF TypedBytes
<1>5. TypedCopy(CS!keys)' /\ TypedMigration'
  <2>1. DOMAIN CS!Empty = {}
    BY DEF CS!Empty
  <2>2. CASE CS!Migrate(r)
    <3>1. engine = "free" /\ saved = CS!Empty
      BY <1>3, <2>2, ContractAssumed DEF CS!Migrate, TypedMigration
    <3>2. CASE saved' = CS!keys
      <4>1. modules' = CS!Empty /\ versions' = CS!Empty /\ engine' = r
        BY <2>2, <3>1, <3>2 DEF CS!Migrate, CS!keys, CS!Empty
      <4> QED
        BY <1>3, <2>1, <3>2, <4>1 DEF TypedMigration, TypedCopy, CS!keys
    <3>3. CASE saved' # CS!keys
      <4>1. UNCHANGED <<modules, versions, saved>> /\ engine' \in {"free", "stuck"}
        BY <2>2, <3>1, <3>3 DEF CS!Migrate, CS!keys
      <4> QED
        BY <1>3, <3>1, <4>1 DEF TypedMigration, TypedCopy, CS!keys
    <3> QED
      BY <3>2, <3>3
  <2>3. CASE CS!Restore(r)
    <3>1. /\ modules' = CS!Over(saved[1], modules) /\ versions' = CS!Over(saved[2], versions)
          /\ saved' = CS!Empty /\ engine' = "free"
      BY <2>3 DEF CS!Restore
    <3>2. TypedCopy(saved)
      BY <1>3, <2>3 DEF CS!Restore, CopyHeld, TypedMigration
    <3> QED
      BY <1>3, <3>1, <3>2 DEF TypedMigration, TypedCopy, CS!keys, CS!Over
  <2>4. CASE CS!Fail(r)
    <3>1. /\ UNCHANGED <<modules, versions>>
          /\ UNCHANGED <<engine, saved>> \/ (engine' = "free" /\ saved' = CS!Empty)
      BY <2>4 DEF CS!Fail, CS!keys
    <3> QED
      BY <1>3, <3>1 DEF TypedMigration, TypedCopy, CS!keys
  <2> QED
    BY <2>2, <2>3, <2>4
<1> QED
  BY <1>2, <1>4, <1>5 DEF ContractTyped

LEMMA ContractRestartTyped ==
  ASSUME CS!ContractStoreAssumption, ContractInv, ContractTyped, CS!Restart
  PROVE  ContractTyped'
<1>1. /\ call' = [r \in Requests |-> CS!NoCall] /\ engine' = "free" /\ saved' = CS!Empty
      /\ \/ UNCHANGED <<modules, versions, bytes, rewritten>>
         \/ modules' = <<>> /\ versions' = <<>> /\ bytes' = <<>> /\ rewritten' = {}
  BY DEF CS!Restart, CS!keys, CS!Empty
<1>2. \A q \in Requests : TypedCall(call'[q])
  BY <1>1 DEF TypedCall
<1>3. TypedMigration'
  BY <1>1 DEF TypedMigration
<1>4. TypedBytes' /\ TypedCopy(CS!keys)'
  BY <1>1 DEF ContractTyped, TypedBytes, TypedCopy, CS!keys
<1> QED
  BY <1>2, <1>3, <1>4 DEF ContractTyped

LEMMA ContractTypedStep ==
  ASSUME CS!ContractStoreAssumption,
         part = "contracts" => ContractInv /\ CopyHeld,
         part = "contracts" => ContractTyped, [StorageNext]_storageVars
  PROVE  (part = "contracts" => ContractTyped)'
<1> SUFFICES ASSUME part' = "contracts" PROVE ContractTyped'
  OBVIOUS
<1>1. part = "contracts" /\ ContractInv /\ CopyHeld /\ ContractTyped
  BY DEF StorageNext, storageVars
<1>2. CASE CS!Next
  BY <1>1, <1>2, BeginTyped, ChecksTyped, WritesTyped, RecordTyped, MigrationTyped,
     ContractRestartTyped DEF CS!Next
<1>3. CASE UNCHANGED contractStore
  BY <1>1, <1>3 DEF contractStore, ContractTyped, TypedCopy, TypedBytes, TypedMigration, CS!keys
<1> QED
  BY <1>1, <1>2, <1>3 DEF StorageNext, storageVars

THEOREM StorageContractTypes ==
  ASSUME CS!ContractStoreAssumption
  PROVE  StorageSpec => [](part = "contracts" => CS!TypeOK)
<1>1. StorageInit => (part = "contracts" => ContractTyped)
  <2> SUFFICES ASSUME CS!Init PROVE ContractTyped
    BY DEF StorageInit
  <2>1. /\ modules = <<>> /\ versions = <<>> /\ bytes = <<>> /\ saved = CS!Empty /\ engine = "free"
        /\ rewritten = {} /\ call = [r \in Requests |-> CS!NoCall]
    BY DEF CS!Init, CS!Empty
  <2>2. \A r \in Requests : TypedCall(call[r])
    BY <2>1 DEF TypedCall
  <2>3. TypedCopy(CS!keys) /\ TypedBytes /\ TypedMigration
    BY <2>1 DEF TypedCopy, TypedBytes, TypedMigration, CS!keys
  <2> QED
    BY <2>2, <2>3 DEF ContractTyped
<1>2. (part = "contracts" => ContractInv /\ CopyHeld) /\ (part = "contracts" => ContractTyped)
        /\ [StorageNext]_storageVars
        => (part = "contracts" => ContractTyped)'
  BY ContractTypedStep
<1>3. (part = "contracts" => ContractInv /\ CopyHeld) /\ (part = "contracts" => ContractTyped)
        => (part = "contracts" => CS!TypeOK)
  <2> SUFFICES ASSUME ContractInv, ContractTyped PROVE CS!TypeOK
    OBVIOUS
  <2>1. /\ DOMAIN modules \subseteq Addrs /\ Range(modules) \subseteq Codes \ Unfit
        /\ DOMAIN versions \subseteq Addrs /\ Range(bytes) \subseteq Codes \cup {"cut"}
        /\ rewritten \subseteq DOMAIN bytes
    BY DEF ContractTyped, TypedCopy, TypedBytes, CS!keys, Range
  <2>2. ASSUME NEW a \in DOMAIN versions
        PROVE  /\ versions[a] \in [list : Seq(Codes), active : 0 .. MaxVersions]
               /\ versions[a].active \in 0 .. Len(versions[a].list)
    <3>1. versions[a] \in VersionLists /\ TypedList(versions[a])
      BY DEF ContractInv, ContractTypes, ContractTyped, TypedCopy, CS!keys
    <3>2. Len(versions[a].list) \in Nat
      BY <3>1, LenProperties DEF VersionLists
    <3> QED
      BY <3>1, <3>2, ContractAssumed DEF VersionLists, TypedList
  <2>3. Range(versions) \subseteq [list : Seq(Codes), active : 0 .. MaxVersions]
    BY <2>2 DEF Range
  <2>4. ASSUME NEW r \in Requests, call[r] # CS!NoCall
        PROVE  /\ call[r].step \in CS!Steps
               /\ call[r].op \in {"deploy", "upgrade", "activate"}
               /\ call[r].op # "deploy" /\ call[r].step # "check" =>
                    call[r].list \in Seq(Codes) /\ call[r].active \in 0 .. Len(call[r].list)
    <3>1. call[r] \in ContractCalls /\ TypedCall(call[r])
      BY <2>4 DEF ContractInv, ContractTypes, ContractTyped
    <3>2. call[r].op # "deploy" => call[r].list \in Seq(Codes) /\ call[r].active \in Nat
      BY <3>1, CallForms DEF Upgrading, Activating
    <3>3. call[r].op # "deploy" => call[r].active \in 0 .. Len(call[r].list)
      BY <2>4, <3>1, <3>2, LenProperties DEF TypedCall, TypedList
    <3> QED
      BY <3>1, <3>2, <3>3, CallForms
  <2>5. engine \in {"free", "stuck"} \cup Requests /\ (saved = CS!Empty \/ engine \in Requests)
    BY DEF ContractTyped, TypedMigration
  <2>6. \A f : CS!Range(f) = Range(f)
    BY DEF CS!Range, Range
  <2> QED
    BY <2>1, <2>2, <2>3, <2>4, <2>5, <2>6 DEF CS!TypeOK, ContractInv
<1> QED
  BY <1>1, <1>2, <1>3, StorageContractInvariant, PTL DEF StorageSpec

\* A contract, and a version in its list, whose record is stored load with the hash of the
\* record, however deploys, upgrades, roll-backs and migrations interleave, fail and die, but
\* for bytes that were written again while in use (SaveModule, SaveVersion, GetModule,
\* GetVersionModule).
THEOREM StorageDeployedLoads ==
  ASSUME CS!ContractStoreAssumption
  PROVE  StorageSpec => []DeployedLoads
<1>1. (part = "contracts" => ContractInv /\ CopyHeld) => DeployedLoads
  <2> SUFFICES ASSUME ContractInv PROVE CS!DeployedLoads
    BY DEF DeployedLoads
  <2>1. CASE backend = "badger"
    <3>1. ASSUME NEW a \in DOMAIN modules
          PROVE  CS!ModuleBytes(a, modules[a]) \in rewritten \/ CS!GetModule(a)
      BY <2>1, <3>1, CopyFound DEF FoundModule, Found, CS!GetModule
    <3>2. ASSUME NEW a \in DOMAIN versions, NEW v \in DOMAIN versions[a].list
          PROVE  CS!VersionBytes(versions[a].list[v], v) \in rewritten \/ CS!GetVersionModule(a, v)
      BY <2>1, <3>2, CopyFound DEF FoundList, Found, CS!GetVersionModule
    <3> QED
      BY <3>1, <3>2 DEF CS!DeployedLoads
  <2>2. CASE backend = "memory"
    <3>1. DOMAIN versions = {}
      BY <2>2 DEF ContractInv, ContractTypes, CS!Empty
    <3>2. ASSUME NEW a \in DOMAIN modules
          PROVE  \/ CS!ModuleBytes(a, modules[a]) \in rewritten
                 \/ \E r \in Requests : Filling(r, a)
                 \/ CS!GetModule(a)
      BY <2>2, <3>2 DEF ContractInv, KeysFound, CS!GetModule
    <3> QED
      BY <2>2, <3>1, <3>2 DEF CS!DeployedLoads, Filling
  <2> QED
    BY <2>1, <2>2 DEF ContractInv
<1> QED
  BY <1>1, StorageContractInvariant, PTL

----------------------------------------------------------------------------
\* The Merkle roots (BlockRoots).

\* The turns of the loops of receipt.go: x is what turn n starts from.
Turn(loop, of, x, n) ==
  CASE loop = "levels" -> BR!Parents(x)
    [] loop = "path" -> BR!Collect(x, BR!Levels(of)[n - 1])
    [] loop = "climb" -> BR!Combine(x, of[n])

Loops(f, loop, of, x) ==
  f = [n \in Nat |-> IF n = 0 THEN x ELSE Turn(loop, of, f[n - 1], n)]

\* A loop that starts from x defines what it has after any number of turns.
LEMMA LoopExists ==
  ASSUME NEW loop, NEW of, NEW x
  PROVE  \E f : Loops(f, loop, of, x)
<1> DEFINE Begun(g, n) == /\ g[0] = x
                          /\ \A k \in 1 .. n : g[k] = Turn(loop, of, g[k - 1], k)
           f == [n \in Nat |-> (CHOOSE g : Begun(g, n))[n]]
<1>1. \A n \in Nat : \E g : Begun(g, n)
  <2> DEFINE Bad == {n \in Nat : ~ \E g : Begun(g, n)}
  <2>1. SUFFICES ASSUME Bad # {} PROVE FALSE
    OBVIOUS
  <2>2. PICK n \in Bad : \A m \in Bad : n =< m
    BY <2>1, LeastNat
  <2>3. n # 0
    <3>1. Begun([k \in {0} |-> x], 0)
      OBVIOUS
    <3> QED
      BY <3>1
  <2>4. PICK g : Begun(g, n - 1)
    BY <2>2, <2>3
  <2> DEFINE h == [k \in 0 .. n |-> IF k < n THEN g[k] ELSE Turn(loop, of, g[n - 1], n)]
  <2>5. n \in Nat \ {0}
    BY <2>3
  <2>6. h[0] = x
    BY <2>4, <2>5
  <2>7. ASSUME NEW k \in 1 .. n PROVE h[k] = Turn(loop, of, h[k - 1], k)
    BY <2>4, <2>5
  <2>8. Begun(h, n)
    BY <2>6, <2>7
  <2> QED
    BY <2>8
<1>2. ASSUME NEW n \in Nat, NEW m \in Nat, n =< m, NEW g, Begun(g, n), NEW h, Begun(h, m)
      PROVE  g[n] = h[n]
  <2> DEFINE Bad == {k \in Nat : k =< n /\ g[k] # h[k]}
  <2>1. SUFFICES ASSUME Bad # {} PROVE FALSE
    OBVIOUS
  <2>2. PICK k \in Bad : \A j \in Bad : k =< j
    BY <2>1, LeastNat
  <2>3. k # 0
    BY <1>2
  <2>4. k \in 1 .. n /\ k \in 1 .. m /\ k - 1 \in Nat /\ k - 1 =< n
    BY <2>2, <2>3, <1>2
  <2>5. g[k - 1] = h[k - 1]
    BY <2>2, <2>4
  <2>6. g[k] = Turn(loop, of, g[k - 1], k) /\ h[k] = Turn(loop, of, h[k - 1], k)
    BY <1>2, <2>4
  <2> QED
    BY <2>2, <2>5, <2>6
<1>3. ASSUME NEW n \in Nat PROVE Begun(CHOOSE g : Begun(g, n), n)
  BY <1>1
<1>4. f[0] = x
  BY <1>3
<1>5. ASSUME NEW n \in Nat \ {0} PROVE f[n] = Turn(loop, of, f[n - 1], n)
  <2> DEFINE g == CHOOSE g : Begun(g, n - 1)
             h == CHOOSE h : Begun(h, n)
  <2>1. n - 1 \in Nat /\ n \in Nat /\ n - 1 =< n
    OBVIOUS
  <2>2. Begun(g, n - 1) /\ Begun(h, n)
    BY <1>3, <2>1
  <2>3. f[n] = h[n] /\ f[n - 1] = g[n - 1]
    BY <2>1
  <2> HIDE DEF g, h
  <2>4. h[n] = Turn(loop, of, h[n - 1], n)
    BY <2>1, <2>2
  <2> HIDE DEF Begun
  <2>5. g[n - 1] = h[n - 1]
    BY <1>2, <2>1, <2>2
  <2> QED
    BY <2>3, <2>4, <2>5
<1>6. f = [n \in Nat |-> IF n = 0 THEN x ELSE Turn(loop, of, f[n - 1], n)]
  BY <1>4, <1>5
<1> QED
  BY <1>6 DEF Loops

LEMMA LevelsStep ==
  ASSUME NEW list
  PROVE  /\ BR!Levels(list)[0] = list
         /\ \A d \in Nat : BR!Levels(list)[d + 1] = BR!Parents(BR!Levels(list)[d])
<1> DEFINE f == BR!Levels(list)
<1>1. \E g : Loops(g, "levels", list, list)
  BY LoopExists
<1>2. \E g : g = [d \in Nat |-> IF d = 0 THEN list ELSE BR!Parents(g[d - 1])]
  BY <1>1 DEF Loops, Turn
<1>3. f = [d \in Nat |-> IF d = 0 THEN list ELSE BR!Parents(f[d - 1])]
  BY <1>2 DEF BR!Levels
<1> QED
  BY <1>3

LEMMA PathStep ==
  ASSUME NEW list, NEW i
  PROVE  /\ BR!Path(list, i)[0] = [index |-> i, proof |-> <<>>]
         /\ \A d \in Nat : BR!Path(list, i)[d + 1] =
                             BR!Collect(BR!Path(list, i)[d], BR!Levels(list)[d])
<1> DEFINE x == [index |-> i, proof |-> <<>>]
           f == BR!Path(list, i)
<1>1. \E g : Loops(g, "path", list, x)
  BY LoopExists
<1>2. \E g : g = [d \in Nat |-> IF d = 0 THEN x
                                ELSE BR!Collect(g[d - 1], BR!Levels(list)[d - 1])]
  BY <1>1 DEF Loops, Turn
<1>3. f = [d \in Nat |-> IF d = 0 THEN x ELSE BR!Collect(f[d - 1], BR!Levels(list)[d - 1])]
  BY <1>2 DEF BR!Path
<1> QED
  BY <1>3

\* What the loop of verifyMerkleProof does with each partner.
TakesEach(climb, leaf, proof, i) ==
  /\ climb[0] = [hash |-> leaf, index |-> i]
  /\ \A k \in Nat : climb[k + 1] = BR!Combine(climb[k], proof[k + 1])

LEMMA ClimbStep ==
  ASSUME NEW leaf, NEW proof, NEW i
  PROVE  TakesEach(BR!Climb(leaf, proof, i), leaf, proof, i)
<1> DEFINE x == [hash |-> leaf, index |-> i]
           f == BR!Climb(leaf, proof, i)
<1>1. \E g : Loops(g, "climb", proof, x)
  BY LoopExists
<1>2. \E g : g = [k \in Nat |-> IF k = 0 THEN x ELSE BR!Combine(g[k - 1], proof[k])]
  BY <1>1 DEF Loops, Turn
<1>3. f = [k \in Nat |-> IF k = 0 THEN x ELSE BR!Combine(f[k - 1], proof[k])]
  BY <1>2 DEF BR!Climb
<1> QED
  BY <1>3 DEF TakesEach

LEMMA Halves ==
  ASSUME NEW k \in Nat
  PROVE  /\ k \div 2 \in Nat
         /\ \/ k % 2 = 0 /\ k = 2 * (k \div 2)
            \/ k % 2 = 1 /\ k = 2 * (k \div 2) + 1
<1>1. k \div 2 \in Nat /\ (k = 2 * (k \div 2) \/ k = 2 * (k \div 2) + 1)
  OBVIOUS
<1>2. \A m \in Nat : (2 * m) % 2 = 0 /\ (2 * m + 1) % 2 = 1
  OBVIOUS
<1> QED
  BY <1>1, <1>2

LEMMA NatsFrom0 ==
  ASSUME NEW S \in SUBSET Nat, 0 \in S, \A n \in S : n + 1 \in S
  PROVE  S = Nat
<1> SUFFICES ASSUME Nat \ S # {} PROVE FALSE
  OBVIOUS
<1>1. PICK n \in Nat \ S : \A m \in Nat \ S : n =< m
  BY LeastNat
<1>2. n # 0
  OBVIOUS
<1>3. n - 1 \in Nat /\ ~ (n =< n - 1)
  BY <1>2
<1>4. n - 1 \in S
  BY <1>1, <1>3
<1> QED
  BY <1>4

----------------------------------------------------------------------------
\* The levels.

Row(nodes, n) == n \in Nat /\ Len(nodes) = n /\ nodes = [k \in 1 .. n |-> nodes[k]]

\* What the list of the parents is.
LEMMA ParentsRow ==
  ASSUME NEW n \in Nat \ {0}, NEW nodes, Row(nodes, n)
  PROVE  /\ Row(BR!Parents(nodes), (n + 1) \div 2)
         /\ \A k \in 1 .. (n + 1) \div 2 :
              /\ 2 * k - 1 \in 1 .. n
              /\ 2 * k =< n => BR!Parents(nodes)[k] = <<nodes[2 * k - 1], nodes[2 * k]>>
              /\ 2 * k > n => BR!Parents(nodes)[k] = nodes[2 * k - 1]
<1>1. (n + 1) \div 2 \in Nat /\ Len(nodes) = n
  BY DEF Row
<1>2. \A k \in 1 .. (n + 1) \div 2 : 2 * k - 1 \in 1 .. n
  OBVIOUS
<1> QED
  BY <1>1, <1>2 DEF Row, BR!Parents, BR!HashPair

\* A level has about half the nodes of the one below, so that the last one is the root.
LEMMA LevelRows ==
  ASSUME NEW S, NEW list \in Seq(S), list # <<>>, NEW d \in Nat
  PROVE  /\ Row(BR!Levels(list)[d], Len(BR!Levels(list)[d]))
         /\ Len(BR!Levels(list)[d]) \in Nat \ {0}
         /\ Len(BR!Levels(list)[d + 1]) = (Len(BR!Levels(list)[d]) + 1) \div 2
         /\ Len(BR!Levels(list)[d]) = 1 \/ Len(BR!Levels(list)[d]) =< Len(list) - d
<1> DEFINE W(e) == Len(BR!Levels(list)[e])
           Holds(e) == /\ Row(BR!Levels(list)[e], W(e)) /\ W(e) \in Nat \ {0}
                       /\ W(e) = 1 \/ W(e) =< Len(list) - e
           D == {e \in Nat : Holds(e)}
<1>1. Holds(0)
  <2>1. list = [k \in 1 .. Len(list) |-> list[k]] /\ Len(list) \in Nat \ {0}
    BY LenProperties, EmptySeq
  <2> QED
    BY <2>1, LevelsStep DEF Row
<1>2. ASSUME NEW e \in Nat, Holds(e)
      PROVE  Holds(e + 1) /\ W(e + 1) = (W(e) + 1) \div 2
  <2>1. BR!Levels(list)[e + 1] = BR!Parents(BR!Levels(list)[e])
    BY LevelsStep
  <2>2. Row(BR!Levels(list)[e + 1], (W(e) + 1) \div 2)
    BY <1>2, <2>1, ParentsRow
  <2>3. W(e + 1) = (W(e) + 1) \div 2
    BY <2>2 DEF Row
  <2>4. Len(list) \in Nat
    BY LenProperties
  <2> HIDE DEF W
  <2>5. /\ W(e + 1) \in Nat \ {0}
        /\ W(e + 1) = 1 \/ W(e + 1) =< Len(list) - (e + 1)
    BY <1>2, <2>3, <2>4
  <2> QED
    BY <2>2, <2>3, <2>5
<1> HIDE DEF Holds, W
<1>3. 0 \in D /\ \A e \in D : e + 1 \in D
  BY <1>1, <1>2
<1>4. D = Nat
  BY <1>3, NatsFrom0
<1>5. Holds(d) /\ W(d + 1) = (W(d) + 1) \div 2
  BY <1>2, <1>4
<1> QED
  BY <1>5 DEF Holds, W

----------------------------------------------------------------------------
\* The leaves.

\* T has the parts of its members, and f gives the leaves of each.
Consistent(T, f) ==
  \A x, y : <<x, y>> \in T => x \in T /\ y \in T /\ f[<<x, y>>] = f[x] \cup f[y]

Agree(T, f, g) == \A t \in T : f[t] = g[t]

\* The nodes share out the leaves X.
Share(nodes, T, f, X) ==
  /\ \A k \in 1 .. Len(nodes) : nodes[k] \in T /\ f[nodes[k]] # {} /\ f[nodes[k]] \subseteq X
  /\ \A j, k \in 1 .. Len(nodes) : j # k => f[nodes[j]] \cap f[nodes[k]] = {}
  /\ \A x \in X : \E k \in 1 .. Len(nodes) : x \in f[nodes[k]]

\* The parents share out the same leaves.
LEMMA ParentsShare ==
  ASSUME NEW T, NEW f, Consistent(T, f), NEW n \in Nat \ {0}, NEW nodes, Row(nodes, n),
         NEW X, Share(nodes, T, f, X)
  PROVE  \E U, g : /\ Consistent(U, g) /\ T \subseteq U /\ Agree(T, f, g)
                   /\ Share(BR!Parents(nodes), U, g, X)
<1> DEFINE m == (n + 1) \div 2
           p == BR!Parents(nodes)
           U == T \cup {p[k] : k \in 1 .. m}
           g == [t \in U |-> IF t \in T THEN f[t] ELSE f[t[1]] \cup f[t[2]]]
           Below(k) == {j \in {2 * k - 1, 2 * k} : j =< n}
<1>1. /\ Len(nodes) = n /\ m \in Nat /\ Len(p) = m
      /\ \A k \in 1 .. m :
           /\ 2 * k - 1 \in 1 .. n
           /\ 2 * k =< n => p[k] = <<nodes[2 * k - 1], nodes[2 * k]>>
           /\ 2 * k > n => p[k] = nodes[2 * k - 1]
  BY ParentsRow DEF Row
<1> HIDE DEF p, m
<1>2. \A k \in 1 .. n : nodes[k] \in T /\ f[nodes[k]] # {} /\ f[nodes[k]] \subseteq X
  BY <1>1 DEF Share
<1>3. Agree(T, f, g)
  BY DEF Agree
<1>4. Consistent(U, g)
  <2> SUFFICES ASSUME NEW x, NEW y, <<x, y>> \in U
               PROVE  x \in U /\ y \in U /\ g[<<x, y>>] = g[x] \cup g[y]
    BY DEF Consistent
  <2>1. CASE <<x, y>> \in T
    BY <2>1 DEF Consistent
  <2>2. CASE <<x, y>> \notin T
    <3>1. PICK k \in 1 .. m : <<x, y>> = p[k]
      BY <2>2
    <3>2. 2 * k =< n
      BY <1>1, <1>2, <2>2, <3>1 DEF m
    <3>3. x \in T /\ y \in T
      BY <1>1, <1>2, <3>1, <3>2
    <3>4. <<x, y>>[1] = x /\ <<x, y>>[2] = y
      OBVIOUS
    <3>5. g[<<x, y>>] = f[x] \cup f[y]
      BY <2>2, <3>4
    <3> QED
      BY <3>3, <3>5
  <2> QED
    BY <2>1, <2>2
<1>5. ASSUME NEW k \in 1 .. m
      PROVE  /\ p[k] \in U
             /\ 2 * k =< n => g[p[k]] = f[nodes[2 * k - 1]] \cup f[nodes[2 * k]]
             /\ 2 * k > n => g[p[k]] = f[nodes[2 * k - 1]]
  <2>1. CASE 2 * k =< n
    <3>1. 2 * k - 1 \in 1 .. n /\ 2 * k \in 1 .. n
      BY <1>1, <2>1
    <3>2. p[k] = <<nodes[2 * k - 1], nodes[2 * k]>>
      BY <1>1, <2>1
    <3>3. g[p[k]] = g[nodes[2 * k - 1]] \cup g[nodes[2 * k]]
      BY <1>4, <3>2 DEF Consistent
    <3> QED
      BY <1>2, <2>1, <3>1, <3>3
  <2>2. CASE 2 * k > n
    BY <1>1, <1>2, <2>2
  <2> QED
    BY <1>1, <2>1, <2>2
<1> HIDE DEF g, U
<1>6. Share(p, U, g, X)
  <2>1. ASSUME NEW k \in 1 .. m PROVE p[k] \in U /\ g[p[k]] # {} /\ g[p[k]] \subseteq X
    <3>1. f[nodes[2 * k - 1]] # {} /\ f[nodes[2 * k - 1]] \subseteq X
      BY <1>1, <1>2
    <3>2. 2 * k =< n => f[nodes[2 * k]] \subseteq X
      BY <1>1, <1>2
    <3>3. CASE 2 * k =< n
      BY <1>5, <3>1, <3>2, <3>3
    <3>4. CASE 2 * k > n
      BY <1>5, <3>1, <3>4
    <3> QED
      BY <1>1, <3>3, <3>4
  <2>2. ASSUME NEW j \in 1 .. m, NEW k \in 1 .. m, j # k
        PROVE  g[p[j]] \cap g[p[k]] = {}
    <3> SUFFICES ASSUME NEW x \in g[p[j]], x \in g[p[k]] PROVE FALSE
      OBVIOUS
    <3>1. PICK a \in {2 * j - 1, 2 * j} : a \in 1 .. n /\ x \in f[nodes[a]]
      BY <1>1, <1>5 DEF m
    <3>2. PICK b \in {2 * k - 1, 2 * k} : b \in 1 .. n /\ x \in f[nodes[b]]
      BY <1>1, <1>5 DEF m
    <3>3. a # b
      BY <2>2, <1>1
    <3> QED
      BY <1>1, <3>1, <3>2, <3>3 DEF Share
  <2>3. ASSUME NEW x \in X PROVE \E k \in 1 .. m : x \in g[p[k]]
    <3>1. PICK a \in 1 .. n : x \in f[nodes[a]]
      BY <1>1 DEF Share
    <3> DEFINE k == (a + 1) \div 2
    <3>2. k \in 1 .. m /\ (a = 2 * k - 1 \/ a = 2 * k)
      BY DEF m
    <3> HIDE DEF k
    <3>3. CASE 2 * k =< n
      BY <1>5, <3>1, <3>2, <3>3
    <3>4. CASE 2 * k > n
      <4>1. a = 2 * k - 1
        BY <3>2, <3>4
      <4> QED
        BY <1>5, <3>1, <3>2, <3>4, <4>1
    <3> QED
      BY <1>1, <3>2, <3>3, <3>4
  <2> QED
    BY <1>1, <2>1, <2>2, <2>3 DEF Share
<1>7. T \subseteq U
  BY DEF U
<1> QED
  BY <1>3, <1>4, <1>6, <1>7 DEF p

\* So does every level.
LEMMA LevelsShare ==
  ASSUME NEW T, NEW f, Consistent(T, f), NEW list \in Seq(T), list # <<>>,
         NEW X, Share(list, T, f, X), NEW d \in Nat
  PROVE  \E U, g : /\ Consistent(U, g) /\ T \subseteq U /\ Agree(T, f, g)
                   /\ Share(BR!Levels(list)[d], U, g, X)
<1> DEFINE Holds(e) == \E U, g : /\ Consistent(U, g) /\ T \subseteq U /\ Agree(T, f, g)
                                 /\ Share(BR!Levels(list)[e], U, g, X)
           D == {e \in Nat : Holds(e)}
<1>1. Holds(0)
  BY LevelsStep DEF Agree
<1>2. ASSUME NEW e \in Nat, Holds(e) PROVE Holds(e + 1)
  <2>1. PICK U, g : /\ Consistent(U, g) /\ T \subseteq U /\ Agree(T, f, g)
                    /\ Share(BR!Levels(list)[e], U, g, X)
    BY <1>2
  <2> DEFINE nodes == BR!Levels(list)[e]
  <2>2. Row(nodes, Len(nodes)) /\ Len(nodes) \in Nat \ {0}
    BY LevelRows
  <2>3. \E V, h : /\ Consistent(V, h) /\ U \subseteq V /\ Agree(U, g, h)
                  /\ Share(BR!Parents(nodes), V, h, X)
    BY <2>1, <2>2, ParentsShare
  <2>4. BR!Levels(list)[e + 1] = BR!Parents(nodes)
    BY LevelsStep
  <2> QED
    BY <2>1, <2>3, <2>4 DEF Agree
<1>3. 0 \in D /\ \A e \in D : e + 1 \in D
  BY <1>1, <1>2
<1>4. D = Nat
  BY <1>3, NatsFrom0
<1> QED
  BY <1>4

----------------------------------------------------------------------------
\* The roots.

IsBlock(list, X) ==
  /\ list \in Seq(BR!Hashes) /\ X # {}
  /\ \A i, j \in DOMAIN list : list[i] = list[j] => i = j
  /\ X = {list[i] : i \in DOMAIN list}

LEMMA BlockShares ==
  ASSUME NEW T, NEW f, BR!Hashes \subseteq T, \A h \in BR!Hashes : f[h] = {h},
         NEW list, NEW X, IsBlock(list, X)
  PROVE  /\ list \in Seq(T) /\ list # <<>> /\ Len(list) \in Nat \ {0}
         /\ Share(list, T, f, X)
<1>1. list # <<>>
  BY DEF IsBlock
<1>2. /\ Len(list) \in Nat /\ DOMAIN list = 1 .. Len(list)
      /\ \A i \in 1 .. Len(list) : list[i] \in BR!Hashes
  BY LenProperties DEF IsBlock
<1>3. Len(list) # 0
  BY <1>1, EmptySeq DEF IsBlock
<1>4. list = [i \in 1 .. Len(list) |-> list[i]]
  BY LenProperties DEF IsBlock
<1>5. list \in Seq(T)
  BY <1>2, <1>4
<1>6. ASSUME NEW k \in 1 .. Len(list)
      PROVE  list[k] \in T /\ f[list[k]] = {list[k]} /\ list[k] \in X
  BY <1>2 DEF IsBlock
<1>7. \A j, k \in 1 .. Len(list) : list[j] = list[k] => j = k
  BY <1>2 DEF IsBlock
<1>8. \A x \in X : \E k \in 1 .. Len(list) : x = list[k]
  BY <1>2 DEF IsBlock
<1>9. Share(list, T, f, X)
  <2>1. \A k \in 1 .. Len(list) : list[k] \in T /\ f[list[k]] # {} /\ f[list[k]] \subseteq X
    BY <1>6
  <2>2. \A j, k \in 1 .. Len(list) : j # k => f[list[j]] \cap f[list[k]] = {}
    <3> SUFFICES ASSUME NEW j \in 1 .. Len(list), NEW k \in 1 .. Len(list), j # k
                 PROVE  f[list[j]] \cap f[list[k]] = {}
      OBVIOUS
    <3>1. f[list[j]] = {list[j]} /\ f[list[k]] = {list[k]} /\ list[j] # list[k]
      BY <1>6, <1>7
    <3> QED
      BY <3>1
  <2>3. \A x \in X : \E k \in 1 .. Len(list) : x \in f[list[k]]
    BY <1>6, <1>8
  <2> QED
    BY <2>1, <2>2, <2>3 DEF Share
<1> QED
  BY <1>1, <1>2, <1>3, <1>5, <1>9

\* A root of a block tells the leaves of the block, also from the root of none.
LEMMA RootTells ==
  ASSUME NEW T, NEW f, Consistent(T, f), BR!Hashes \subseteq T,
         \A h \in BR!Hashes : f[h] = {h},
         NEW list, NEW X, IsBlock(list, X)
  PROVE  \E U, g : /\ Consistent(U, g) /\ T \subseteq U /\ Agree(T, f, g)
                   /\ BR!MerkleRoot(list) \in U /\ g[BR!MerkleRoot(list)] = X
<1> DEFINE n == Len(list)
           nodes == BR!Levels(list)[n]
<1>1. list \in Seq(T) /\ list # <<>> /\ n \in Nat \ {0} /\ Share(list, T, f, X)
  BY BlockShares
<1>3. PICK U, g : /\ Consistent(U, g) /\ T \subseteq U /\ Agree(T, f, g)
                  /\ Share(nodes, U, g, X)
  BY <1>1, LevelsShare
<1>4. Len(nodes) = 1
  <2>1. /\ Len(nodes) \in Nat \ {0}
        /\ Len(nodes) = 1 \/ Len(nodes) =< Len(list) - n
    BY <1>1, LevelRows
  <2> HIDE DEF nodes
  <2> QED
    BY <1>1, <2>1
<1> HIDE DEF nodes
<1>5. nodes[1] \in U /\ g[nodes[1]] = X
  <2>1. /\ \A k \in 1 .. 1 : nodes[k] \in U /\ g[nodes[k]] \subseteq X
        /\ \A x \in X : \E k \in 1 .. 1 : x \in g[nodes[k]]
    BY <1>3, <1>4 DEF Share
  <2>2. nodes[1] \in U /\ g[nodes[1]] \subseteq X
    BY <2>1
  <2>3. \A x \in X : x \in g[nodes[1]]
    BY <2>1
  <2> QED
    BY <2>2, <2>3
<1>6. BR!MerkleRoot(list) = nodes[1]
  BY <1>1 DEF BR!MerkleRoot, nodes
<1> QED
  BY <1>3, <1>5, <1>6

LEMMA RootsDiffer ==
  ASSUME MaxResults \in Nat, NEW list, NEW X, IsBlock(list, X)
  PROVE  /\ BR!MerkleRoot(list) # BR!MerkleRoot(<<>>)
         /\ \A other, Y : IsBlock(other, Y) /\ BR!MerkleRoot(other) = BR!MerkleRoot(list)
              => X = Y
<1> DEFINE T == BR!Hashes \cup {<<0>>}
           f == [t \in T |-> IF t = <<0>> THEN {} ELSE {t}]
<1>1. Consistent(T, f)
  <2>1. \A x, y, n : <<x, y>> # <<n>>
    OBVIOUS
  <2> QED
    BY <2>1 DEF Consistent, BR!Hashes
<1>2. BR!Hashes \subseteq T /\ <<0>> \in T /\ f[<<0>>] = {}
      /\ \A h \in BR!Hashes : f[h] = {h}
  BY DEF BR!Hashes
<1> HIDE DEF T, f
<1>3. PICK U, g : /\ Consistent(U, g) /\ T \subseteq U /\ Agree(T, f, g)
                  /\ BR!MerkleRoot(list) \in U /\ g[BR!MerkleRoot(list)] = X
  BY <1>1, <1>2, RootTells
<1>4. BR!MerkleRoot(list) # BR!MerkleRoot(<<>>)
  BY <1>2, <1>3 DEF Agree, BR!MerkleRoot, IsBlock
<1>5. ASSUME NEW other, NEW Y, IsBlock(other, Y), BR!MerkleRoot(other) = BR!MerkleRoot(list)
      PROVE  X = Y
  <2>1. BR!Hashes \subseteq U /\ \A h \in BR!Hashes : g[h] = {h}
    BY <1>2, <1>3 DEF Agree
  <2>2. PICK V, h : /\ Consistent(V, h) /\ U \subseteq V /\ Agree(U, g, h)
                    /\ BR!MerkleRoot(other) \in V /\ h[BR!MerkleRoot(other)] = Y
    BY <1>3, <1>5, <2>1, RootTells
  <2> QED
    BY <1>3, <1>5, <2>2 DEF Agree
<1> QED
  BY <1>4, <1>5

\* The nodes of a level are different.
LEMMA LevelsDiffer ==
  ASSUME MaxResults \in Nat, NEW list, NEW X, IsBlock(list, X), NEW d \in Nat,
         NEW j \in 1 .. Len(BR!Levels(list)[d]), NEW k \in 1 .. Len(BR!Levels(list)[d]), j # k
  PROVE  BR!Levels(list)[d][j] # BR!Levels(list)[d][k]
<1> DEFINE T == BR!Hashes
           f == [t \in T |-> {t}]
<1>1. Consistent(T, f)
  <2>1. \A x, y, n : <<x, y>> # <<n>>
    OBVIOUS
  <2> QED
    BY <2>1 DEF Consistent, BR!Hashes
<1>2. list \in Seq(T) /\ list # <<>> /\ Share(list, T, f, X)
  BY BlockShares
<1> HIDE DEF T, f
<1>3. PICK U, g : Share(BR!Levels(list)[d], U, g, X)
  BY <1>1, <1>2, LevelsShare
<1> QED
  <2> SUFFICES ASSUME BR!Levels(list)[d][j] = BR!Levels(list)[d][k] PROVE FALSE
    OBVIOUS
  <2>1. /\ g[BR!Levels(list)[d][j]] # {}
        /\ g[BR!Levels(list)[d][j]] \cap g[BR!Levels(list)[d][k]] = {}
    BY <1>3 DEF Share
  <2> QED
    BY <2>1

----------------------------------------------------------------------------
\* The path of a leaf, and what verifyMerkleProof makes of it.

LEMMA AloneRow ==
  ASSUME NEW n \in Nat \ {0}, NEW nodes, Row(nodes, n), NEW k \in 0 .. n - 1,
         BR!Alone(k, nodes)
  PROVE  /\ k % 2 = 0 /\ k + 1 = n
         /\ BR!Parents(nodes)[(k \div 2) + 1] = nodes[k + 1]
         /\ (k \div 2) + 1 = (n + 1) \div 2
<1>1. k \in Nat /\ k < n /\ Len(nodes) = n
  BY DEF Row
<1>2. k % 2 = 0 /\ k = 2 * (k \div 2) /\ k \div 2 \in Nat
  BY <1>1, Halves DEF BR!Alone, BR!Partner
<1>3. k + 1 = n
  BY <1>1, <1>2 DEF BR!Alone, BR!Partner
<1> DEFINE m == (k \div 2) + 1
<1>4. m \in 1 .. (n + 1) \div 2 /\ 2 * m > n /\ 2 * m - 1 = k + 1 /\ m = (n + 1) \div 2
  BY <1>2, <1>3
<1> HIDE DEF m
<1>5. BR!Parents(nodes)[m] = nodes[2 * m - 1]
  BY <1>4, ParentsRow
<1> QED
  BY <1>2, <1>3, <1>4, <1>5 DEF m

LEMMA PairedRow ==
  ASSUME NEW n \in Nat \ {0}, NEW nodes, Row(nodes, n), NEW k \in 0 .. n - 1,
         ~ BR!Alone(k, nodes)
  PROVE  /\ BR!Partner(k) + 1 \in 1 .. n /\ BR!Partner(k) # k
         /\ k % 2 = 0 => BR!Parents(nodes)[(k \div 2) + 1] =
                           <<nodes[k + 1], nodes[BR!Partner(k) + 1]>>
         /\ k % 2 # 0 => BR!Parents(nodes)[(k \div 2) + 1] =
                           <<nodes[BR!Partner(k) + 1], nodes[k + 1]>>
         /\ k + 1 = n => k % 2 # 0
<1>1. k \in Nat /\ k < n /\ Len(nodes) = n
  BY DEF Row
<1> DEFINE m == (k \div 2) + 1
<1>2. /\ m \in Nat
      /\ \/ k % 2 = 0 /\ k = 2 * m - 2
         \/ k % 2 = 1 /\ k = 2 * m - 1
  BY <1>1, Halves
<1> HIDE DEF m
<1>3. CASE k % 2 = 0
  <2>1. BR!Partner(k) = k + 1 /\ k = 2 * m - 2 /\ k + 1 < n
    BY <1>1, <1>2, <1>3 DEF BR!Alone, BR!Partner
  <2>2. m \in 1 .. (n + 1) \div 2 /\ 2 * m =< n /\ 2 * m - 1 = k + 1
        /\ 2 * m = BR!Partner(k) + 1
    BY <1>1, <1>2, <2>1
  <2>3. BR!Parents(nodes)[m] = <<nodes[2 * m - 1], nodes[2 * m]>>
    BY <2>2, ParentsRow
  <2> QED
    BY <1>1, <1>3, <2>1, <2>2, <2>3 DEF m
<1>4. CASE k % 2 # 0
  <2>1. BR!Partner(k) = k - 1 /\ k = 2 * m - 1
    BY <1>2, <1>4 DEF BR!Partner
  <2>2. m \in 1 .. (n + 1) \div 2 /\ 2 * m =< n /\ 2 * m = k + 1
        /\ 2 * m - 1 = BR!Partner(k) + 1
    BY <1>1, <1>2, <2>1
  <2>3. BR!Parents(nodes)[m] = <<nodes[2 * m - 1], nodes[2 * m]>>
    BY <2>2, ParentsRow
  <2> QED
    BY <1>1, <1>4, <2>1, <2>2, <2>3 DEF m
<1> QED
  BY <1>3, <1>4

\* The nodes of a tree.
Nodes(list) == {BR!Levels(list)[d][k] : d, k \in Nat}

\* The path of a leaf runs through the levels.
LEMMA PathRows ==
  ASSUME NEW S, NEW list \in Seq(S), list # <<>>, NEW i \in 0 .. Len(list) - 1,
         NEW d \in Nat
  PROVE  /\ BR!Path(list, i)[d].index \in 0 .. Len(BR!Levels(list)[d]) - 1
         /\ BR!Path(list, i)[d].proof \in Seq(Nodes(list))
<1> DEFINE W(e) == Len(BR!Levels(list)[e])
           K(e) == BR!Path(list, i)[e].index
           Q(e) == BR!Path(list, i)[e].proof
           Holds(e) == K(e) \in 0 .. W(e) - 1 /\ Q(e) \in Seq(Nodes(list))
           D == {e \in Nat : Holds(e)}
<1>1. Holds(0)
  <2>1. BR!Path(list, i)[0] = [index |-> i, proof |-> <<>>]
    BY PathStep
  <2>2. BR!Levels(list)[0] = list
    BY LevelsStep
  <2>3. <<>> \in Seq(Nodes(list))
    BY EmptySeq
  <2> QED
    BY <2>1, <2>2, <2>3
<1>2. ASSUME NEW e \in Nat, Holds(e) PROVE Holds(e + 1)
  <2>1. /\ W(e) \in Nat \ {0} /\ W(e + 1) = (W(e) + 1) \div 2
        /\ Row(BR!Levels(list)[e], W(e))
    BY LevelRows
  <2>2. BR!Path(list, i)[e + 1] = BR!Collect(BR!Path(list, i)[e], BR!Levels(list)[e])
    BY PathStep
  <2>3. K(e + 1) = K(e) \div 2
    BY <2>2 DEF BR!Collect
  <2>4. K(e) \in 0 .. W(e) - 1
    BY <1>2
  <2>5. K(e + 1) \in 0 .. W(e + 1) - 1
    <3> HIDE DEF K, W
    <3>1. \A k \in Nat, w \in Nat \ {0} : k < w => k \div 2 \in Nat /\ k \div 2 < (w + 1) \div 2
      OBVIOUS
    <3>2. K(e) \in Nat /\ K(e) < W(e)
      BY <2>1, <2>4
    <3>3. K(e) \div 2 \in Nat /\ K(e) \div 2 < (W(e) + 1) \div 2
      BY <2>1, <3>1, <3>2
    <3>4. (W(e) + 1) \div 2 \in Nat
      BY <2>1
    <3> QED
      BY <2>1, <2>3, <3>3, <3>4
  <2>6. Q(e + 1) \in Seq(Nodes(list))
    <3>1. CASE BR!Alone(K(e), BR!Levels(list)[e])
      BY <1>2, <2>2, <3>1 DEF BR!Collect
    <3>2. CASE ~ BR!Alone(K(e), BR!Levels(list)[e])
      <4> DEFINE y == BR!Levels(list)[e][BR!Partner(K(e)) + 1]
      <4>1. BR!Partner(K(e)) + 1 \in 1 .. W(e)
        BY <2>1, <2>4, <3>2, PairedRow
      <4>2. BR!Partner(K(e)) + 1 \in Nat
        BY <2>1, <4>1
      <4>3. y \in Nodes(list)
        BY <4>2 DEF Nodes
      <4>4. Q(e + 1) = Append(Q(e), y)
        BY <2>2, <3>2 DEF BR!Collect
      <4>5. Q(e) \in Seq(Nodes(list))
        BY <1>2
      <4> HIDE DEF Q, y
      <4> QED
        BY <4>3, <4>4, <4>5, AppendProperties
    <3> QED
      BY <3>1, <3>2
  <2> QED
    BY <2>5, <2>6
<1> HIDE DEF Holds
<1>3. 0 \in D /\ \A e \in D : e + 1 \in D
  BY <1>1, <1>2
<1>4. D = Nat
  BY <1>3, NatsFrom0
<1> QED
  BY <1>4 DEF Holds

\* What the climb has at position k of a level while it keeps count of the levels.
Fits(turn, nodes, k) == turn.hash = nodes[k + 1] /\ turn.index = k

\* What it has after it has lost count: another hash, or the last node with an index
\* that puts the next partner on its wrong side.
Astray(turn, nodes, k) ==
  /\ turn.index \in Nat
  /\ turn.hash = nodes[k + 1] => turn.index % 2 = 0 /\ k + 1 = Len(nodes) /\ Len(nodes) > 1

\* A turn with a partner.
LEMMA PairedTurn ==
  ASSUME NEW n \in Nat \ {0}, NEW nodes, Row(nodes, n), NEW k \in 0 .. n - 1,
         \A a, b \in 1 .. n : a # b => nodes[a] # nodes[b],
         ~ BR!Alone(k, nodes), NEW turn
  PROVE  LET next == BR!Combine(turn, nodes[BR!Partner(k) + 1])
         IN  /\ Fits(turn, nodes, k) => Fits(next, BR!Parents(nodes), k \div 2)
             /\ Astray(turn, nodes, k) => Astray(next, BR!Parents(nodes), k \div 2)
<1> DEFINE own == nodes[k + 1]
           other == nodes[BR!Partner(k) + 1]
           up == BR!Parents(nodes)[(k \div 2) + 1]
           next == BR!Combine(turn, other)
<1>1. /\ k + 1 \in 1 .. n /\ BR!Partner(k) + 1 \in 1 .. n /\ BR!Partner(k) # k
      /\ k % 2 = 0 => up = <<own, other>>
      /\ k % 2 # 0 => up = <<other, own>>
      /\ k + 1 = n => k % 2 # 0
  BY PairedRow
<1>2. own # other
  <2>1. k + 1 # BR!Partner(k) + 1
    <3>1. BR!Partner(k) \in Int
      BY DEF BR!Partner
    <3> QED
      BY <1>1, <3>1
  <2> QED
    BY <1>1, <2>1
<1>3. /\ turn.index % 2 = 0 => next.hash = <<turn.hash, other>>
      /\ turn.index % 2 # 0 => next.hash = <<other, turn.hash>>
      /\ next.index = turn.index \div 2
  BY DEF BR!Combine, BR!HashPair
<1>4. \A a, b, c, e : <<a, b>> = <<c, e>> <=> a = c /\ b = e
  OBVIOUS
<1>5. Len(nodes) = n
  BY DEF Row
<1> HIDE DEF own, other, up, next
<1>6. ASSUME turn.hash = own, turn.index = k
      PROVE  next.hash = up /\ next.index = k \div 2
  BY <1>1, <1>3, <1>6
<1>7. ASSUME turn.index \in Nat, turn.hash = own => turn.index % 2 = 0 /\ k + 1 = n
      PROVE  next.index \in Nat /\ next.hash # up
  <2>1. next.index \in Nat
    BY <1>3, <1>7, Halves
  <2>2. CASE turn.hash # own
    <3>1. <<turn.hash, other>> # <<own, other>> /\ <<other, turn.hash>> # <<other, own>>
      BY <2>2
    <3>2. <<turn.hash, other>> # <<other, own>> /\ <<other, turn.hash>> # <<own, other>>
      BY <1>2
    <3> QED
      BY <1>1, <1>3, <2>1, <3>1, <3>2
  <2>3. CASE turn.hash = own
    BY <1>1, <1>2, <1>3, <1>4, <1>7, <2>3
  <2> QED
    BY <2>1, <2>2, <2>3
<1> QED
  BY <1>5, <1>6, <1>7 DEF Fits, Astray, own, other, up, next

\* A level that promotes the path: no turn.
LEMMA AloneTurn ==
  ASSUME NEW n \in Nat \ {0}, NEW nodes, Row(nodes, n), NEW k \in 0 .. n - 1,
         BR!Alone(k, nodes), NEW turn
  PROVE  /\ n = 1 /\ Fits(turn, nodes, k) => Fits(turn, BR!Parents(nodes), k \div 2)
         /\ n > 1 /\ Fits(turn, nodes, k) => Astray(turn, BR!Parents(nodes), k \div 2)
         /\ Astray(turn, nodes, k) => Astray(turn, BR!Parents(nodes), k \div 2)
<1> DEFINE up == BR!Parents(nodes)
           j == k \div 2
<1>1. /\ k % 2 = 0 /\ k + 1 = n /\ up[j + 1] = nodes[k + 1] /\ j + 1 = (n + 1) \div 2
  BY AloneRow
<1>2. Len(nodes) = n /\ Len(up) = (n + 1) \div 2
  BY ParentsRow DEF Row
<1>3. k \in Nat /\ n = 1 => j = k
  BY <1>1
<1>4. n > 1 => Len(up) > 1
  BY <1>1, <1>2
<1> HIDE DEF up
<1>5. n = 1 /\ Fits(turn, nodes, k) => Fits(turn, up, j)
  BY <1>1, <1>3 DEF Fits
<1>6. n > 1 /\ Fits(turn, nodes, k) => Astray(turn, up, j)
  BY <1>1, <1>2, <1>4 DEF Fits, Astray
<1>7. Astray(turn, nodes, k) => Astray(turn, up, j)
  BY <1>1, <1>2, <1>4 DEF Astray
<1> QED
  BY <1>5, <1>6, <1>7 DEF up

\* The path has been promoted below level d.
Strayed(list, i, d) ==
  \E e \in 0 .. d - 1 :
    /\ Len(BR!Levels(list)[e]) > 1
    /\ BR!Alone(BR!Path(list, i)[e].index, BR!Levels(list)[e])

\* Where the climb is with the partners that the path has collected up to level d.
ClimbAt(list, i, d, leaf, proof) ==
  BR!Climb(leaf, proof, i)[Len(BR!Path(list, i)[d].proof)]

\* The proof starts with those partners.
StartsWith(proof, begun) == \A k \in 1 .. Len(begun) : proof[k] = begun[k]

LEMMA ClimbFollows ==
  ASSUME MaxResults \in Nat, NEW list, NEW X, IsBlock(list, X),
         NEW i \in 0 .. Len(list) - 1, NEW d \in Nat,
         NEW proof, StartsWith(proof, BR!Path(list, i)[d].proof)
  PROVE  LET turn == ClimbAt(list, i, d, list[i + 1], proof)
             k == BR!Path(list, i)[d].index
         IN  IF Strayed(list, i, d) THEN Astray(turn, BR!Levels(list)[d], k)
                                    ELSE Fits(turn, BR!Levels(list)[d], k)
<1> DEFINE N(e) == BR!Levels(list)[e]
           K(e) == BR!Path(list, i)[e].index
           Q(e) == BR!Path(list, i)[e].proof
           At(e, q) == ClimbAt(list, i, e, list[i + 1], q)
           Holds(e) == \A q : StartsWith(q, Q(e)) =>
                         IF Strayed(list, i, e) THEN Astray(At(e, q), N(e), K(e))
                                                ELSE Fits(At(e, q), N(e), K(e))
           D == {e \in Nat : Holds(e)}
<1>0. list \in Seq(BR!Hashes) /\ list # <<>>
  BY DEF IsBlock
<1> DEFINE leaf == list[i + 1]
<1>c. \A q : TakesEach(BR!Climb(leaf, q, i), leaf, q, i)
  <2> HIDE DEF leaf
  <2> QED
    BY ClimbStep
<1>1. Holds(0)
  <2> SUFFICES ASSUME NEW q
               PROVE  ~ Strayed(list, i, 0) /\ Fits(At(0, q), N(0), K(0))
    OBVIOUS
  <2>1. ~ Strayed(list, i, 0)
    BY DEF Strayed
  <2>2. BR!Path(list, i)[0] = [index |-> i, proof |-> <<>>]
    BY PathStep
  <2>3. Len(<<>>) = 0
    OBVIOUS
  <2>4. At(0, q) = [hash |-> list[i + 1], index |-> i]
    <3>1. BR!Climb(list[i + 1], q, i)[0] = [hash |-> list[i + 1], index |-> i]
      BY <1>c DEF TakesEach
    <3>2. Len(BR!Path(list, i)[0].proof) = 0
      BY <2>2, <2>3
    <3> QED
      BY <3>1, <3>2 DEF ClimbAt
  <2>5. N(0) = list
    BY LevelsStep
  <2> QED
    BY <2>1, <2>2, <2>4, <2>5 DEF Fits
<1>2. ASSUME NEW e \in Nat, Holds(e) PROVE Holds(e + 1)
  <2> DEFINE n == Len(N(e))
             alone == BR!Alone(K(e), N(e))
  <2>1. n \in Nat \ {0} /\ Row(N(e), n)
    BY <1>0, LevelRows
  <2>2. K(e) \in 0 .. n - 1 /\ Q(e) \in Seq(Nodes(list))
    BY <1>0, PathRows
  <2>3. \A a, b \in 1 .. n : a # b => N(e)[a] # N(e)[b]
    BY LevelsDiffer
  <2>4. N(e + 1) = BR!Parents(N(e))
    BY LevelsStep
  <2>5. BR!Path(list, i)[e + 1] = BR!Collect(BR!Path(list, i)[e], N(e))
    BY PathStep
  <2>6. K(e + 1) = K(e) \div 2
    BY <2>5 DEF BR!Collect
  <2>7. Strayed(list, i, e + 1) <=> Strayed(list, i, e) \/ (n > 1 /\ alone)
    <3>1. \A c : c \in 0 .. (e + 1) - 1 <=> c \in 0 .. e - 1 \/ c = e
      OBVIOUS
    <3> QED
      BY <3>1 DEF Strayed
  <2> SUFFICES ASSUME NEW q, StartsWith(q, Q(e + 1))
               PROVE  IF Strayed(list, i, e + 1) THEN Astray(At(e + 1, q), N(e + 1), K(e + 1))
                                                 ELSE Fits(At(e + 1, q), N(e + 1), K(e + 1))
    OBVIOUS
  <2>8. CASE alone
    <3>1. Q(e + 1) = Q(e)
      BY <2>5, <2>8 DEF BR!Collect
    <3>2. At(e + 1, q) = At(e, q) /\ StartsWith(q, Q(e))
      BY <3>1 DEF ClimbAt
    <3> DEFINE turn == At(e, q)
    <3>3. IF Strayed(list, i, e) THEN Astray(turn, N(e), K(e)) ELSE Fits(turn, N(e), K(e))
      BY <1>2, <3>2
    <3> HIDE DEF turn, N, K
    <3>4. /\ n = 1 /\ Fits(turn, N(e), K(e)) => Fits(turn, BR!Parents(N(e)), K(e) \div 2)
          /\ n > 1 /\ Fits(turn, N(e), K(e)) => Astray(turn, BR!Parents(N(e)), K(e) \div 2)
          /\ Astray(turn, N(e), K(e)) => Astray(turn, BR!Parents(N(e)), K(e) \div 2)
      BY <2>1, <2>2, <2>8, AloneTurn
    <3>5. At(e + 1, q) = turn
      BY <3>2 DEF turn
    <3>6. n = 1 \/ n > 1
      <4>1. n \in Nat \ {0}
        BY <2>1
      <4> HIDE DEF n
      <4> QED
        BY <4>1
    <3> QED
      BY <2>4, <2>6, <2>7, <2>8, <3>3, <3>4, <3>5, <3>6
  <2>9. CASE ~ alone
    <3> DEFINE y == N(e)[BR!Partner(K(e)) + 1]
               c == Len(Q(e))
               turn == At(e, q)
    <3>1. Q(e + 1) = Append(Q(e), y)
      BY <2>5, <2>9 DEF BR!Collect
    <3>2. BR!Partner(K(e)) + 1 \in 1 .. n
      BY <2>1, <2>2, <2>9, PairedRow
    <3>3. y \in Nodes(list)
      <4>1. BR!Partner(K(e)) + 1 \in Nat
        BY <2>1, <3>2
      <4> QED
        BY <4>1 DEF Nodes
    <3>4. /\ c \in Nat /\ Len(Q(e + 1)) = c + 1 /\ Q(e + 1)[c + 1] = y
          /\ \A k \in 1 .. c : Q(e + 1)[k] = Q(e)[k]
      <4>1. Q(e) \in Seq(Nodes(list))
        BY <2>2
      <4> HIDE DEF Q, y
      <4> QED
        BY <3>1, <3>3, <4>1, AppendProperties, LenProperties
    <3>5. StartsWith(q, Q(e)) /\ q[c + 1] = y
      <4> HIDE DEF Q, c, y
      <4>1. c + 1 \in 1 .. c + 1 /\ \A k \in 1 .. c : k \in 1 .. c + 1
        BY <3>4
      <4>2. \A k \in 1 .. c + 1 : q[k] = Q(e + 1)[k]
        BY <3>4 DEF StartsWith
      <4> QED
        BY <3>4, <4>1, <4>2 DEF StartsWith, c
    <3>6. At(e + 1, q) = BR!Combine(turn, y)
      <4>1. BR!Climb(list[i + 1], q, i)[c + 1] = BR!Combine(BR!Climb(list[i + 1], q, i)[c], q[c + 1])
        BY <3>4, <1>c DEF TakesEach
      <4>2. At(e + 1, q) = BR!Climb(list[i + 1], q, i)[c + 1]
        BY <3>4 DEF ClimbAt
      <4>3. turn = BR!Climb(list[i + 1], q, i)[c]
        BY DEF ClimbAt
      <4> QED
        BY <3>5, <4>1, <4>2, <4>3
    <3>7. IF Strayed(list, i, e) THEN Astray(turn, N(e), K(e)) ELSE Fits(turn, N(e), K(e))
      BY <1>2, <3>5
    <3> HIDE DEF turn, N, K
    <3>8. /\ Fits(turn, N(e), K(e)) => Fits(BR!Combine(turn, y), BR!Parents(N(e)), K(e) \div 2)
          /\ Astray(turn, N(e), K(e)) => Astray(BR!Combine(turn, y), BR!Parents(N(e)), K(e) \div 2)
      BY <2>1, <2>2, <2>3, <2>9, PairedTurn
    <3> QED
      BY <2>4, <2>6, <2>7, <2>9, <3>6, <3>7, <3>8
  <2> QED
    BY <2>8, <2>9
<1> HIDE DEF Holds
<1>3. 0 \in D /\ \A e \in D : e + 1 \in D
  BY <1>1, <1>2
<1>4. D = Nat
  BY <1>3, NatsFrom0
<1>5. Holds(d)
  BY <1>4
<1> QED
  BY <1>5 DEF Holds

\* verifyMerkleProof finds the root from a leaf whose path is never promoted, and from no other.
LEMMA ProofFits ==
  ASSUME MaxResults \in Nat, NEW list, NEW X, IsBlock(list, X),
         NEW i \in 0 .. Len(list) - 1
  PROVE  BR!VerifyMerkleProof(list[i + 1], BR!GenerateMerkleProof(list, i), i)
           = BR!MerkleRoot(list) <=> ~ BR!Promoted(list, i)
<1> DEFINE n == Len(list)
           nodes == BR!Levels(list)[n]
           proof == BR!GenerateMerkleProof(list, i)
           turn == ClimbAt(list, i, n, list[i + 1], proof)
           k == BR!Path(list, i)[n].index
<1>1. list \in Seq(BR!Hashes) /\ list # <<>>
  BY DEF IsBlock
<1>2. n \in Nat \ {0}
  BY <1>1, LenProperties, EmptySeq
<1>3. Len(nodes) = 1
  <2>1. /\ Len(nodes) \in Nat \ {0}
        /\ Len(nodes) = 1 \/ Len(nodes) =< Len(list) - n
    BY <1>1, <1>2, LevelRows
  <2> HIDE DEF nodes
  <2> QED
    BY <1>2, <2>1
<1>4. k = 0
  <2>1. k \in 0 .. Len(nodes) - 1
    BY <1>1, <1>2, PathRows
  <2> HIDE DEF k, nodes
  <2> QED
    BY <1>3, <2>1
<1>5. BR!MerkleRoot(list) = nodes[1]
  BY <1>1 DEF BR!MerkleRoot
<1>6. BR!VerifyMerkleProof(list[i + 1], proof, i) = turn.hash
  BY DEF BR!VerifyMerkleProof, BR!GenerateMerkleProof, ClimbAt
<1>7. BR!Promoted(list, i) <=> Strayed(list, i, n)
  <2>1. \A c : c \in 0 .. n <=> c \in 0 .. n - 1 \/ c = n
    BY <1>2
  <2>2. ~ (Len(nodes) > 1)
    BY <1>3
  <2> HIDE DEF n
  <2>3. BR!Promoted(list, i) <=>
          \E c \in 0 .. n : /\ Len(BR!Levels(list)[c]) > 1
                           /\ BR!Alone(BR!Path(list, i)[c].index, BR!Levels(list)[c])
    BY DEF BR!Promoted, n
  <2> QED
    BY <2>1, <2>2, <2>3 DEF Strayed
<1>8. StartsWith(proof, BR!Path(list, i)[n].proof)
  BY DEF StartsWith, BR!GenerateMerkleProof
<1>9. IF Strayed(list, i, n) THEN Astray(turn, nodes, k) ELSE Fits(turn, nodes, k)
  BY <1>2, <1>8, ClimbFollows
<1> HIDE DEF turn, nodes, k, proof
<1>10. IF Strayed(list, i, n) THEN turn.hash # nodes[1] ELSE turn.hash = nodes[1]
  BY <1>3, <1>4, <1>9 DEF Astray, Fits
<1> QED
  BY <1>5, <1>6, <1>7, <1>10 DEF proof

----------------------------------------------------------------------------
\* The results of a block, sorted.

LEMMA RootOperators ==
  /\ \A S : BR!Ascending(S) = Ascending(S)
  /\ \A s, S : BR!Without(s, S) = Without(s, S)
<1>1. ASSUME NEW S PROVE BR!Cardinality(S) = Cardinality(S)
  BY DEF BR!Cardinality, Cardinality
<1>2. ASSUME NEW S PROVE BR!Ascending(S) = Ascending(S)
  BY <1>1 DEF BR!Ascending, Ascending, BR!IsAscending, IsAscending
<1>3. ASSUME NEW s, NEW S PROVE BR!Kept(s, S) = Kept(s, S)
  BY DEF BR!Kept, Kept
<1>4. ASSUME NEW s, NEW S PROVE BR!Without(s, S) = Without(s, S)
  BY <1>1, <1>2, <1>3 DEF BR!Without, Without
<1> QED
  BY <1>2, <1>4

\* Sorted, the results are the same hashes, each once.
LEMMA SortedResults ==
  ASSUME MaxResults \in Nat, BR!TypeOK
  PROVE  /\ BR!SortTxResults(results) \in Seq(BR!Hashes)
         /\ Lists(BR!SortTxResults(results), {results[i] : i \in DOMAIN results})
         /\ DOMAIN BR!SortTxResults(results) = DOMAIN results
<1> DEFINE n == Len(results)
           K == {results[i][1] : i \in DOMAIN results}
           order == Ascending(K)
           list == [i \in 1 .. n |-> <<order[i]>>]
<1>1. /\ results \in Seq(BR!Hashes) /\ n \in Nat /\ DOMAIN results = 1 .. n
      /\ \A i \in 1 .. n : results[i] \in BR!Hashes
  BY LenProperties DEF BR!TypeOK
<1>2. \A h \in BR!Hashes : h[1] \in 1 .. MaxResults /\ h = <<h[1]>>
  BY DEF BR!Hashes
<1>3. K \in SUBSET (1 .. MaxResults)
  BY <1>1, <1>2
<1>4. Cardinality(K) = n
  <2> DEFINE s == [i \in 1 .. n |-> results[i][1]]
  <2>1. s \in Seq(Nat)
    BY <1>1, <1>2
  <2>2. DOMAIN s = 1 .. n /\ Len(s) = n
    BY <1>1
  <2>3. Lists(s, K)
    <3>1. ASSUME NEW i \in 1 .. n, NEW j \in 1 .. n, s[i] = s[j] PROVE i = j
      <4>1. results[i][1] = results[j][1]
        BY <3>1
      <4>2. results[i] = results[j]
        BY <1>1, <1>2, <4>1
      <4> QED
        BY <1>1, <4>2 DEF BR!TypeOK
    <3>2. \A i \in 1 .. n : s[i] \in K
      BY <1>1
    <3>3. \A x \in K : \E i \in 1 .. n : s[i] = x
      BY <1>1
    <3> HIDE DEF s, K
    <3> QED
      BY <2>2, <3>1, <3>2, <3>3 DEF Lists
  <2> HIDE DEF s, K
  <2> QED
    BY <2>1, <2>2, <2>3, ListsCardinality
<1>5. order \in [1 .. n -> K] /\ IsAscending(order, K)
  <2> HIDE DEF K
  <2>1. \E pos \in [1 .. Cardinality(K) -> K] : IsAscending(pos, K)
    BY <1>3, AscendingExists
  <2> QED
    BY <1>4, <2>1 DEF Ascending
<1>6. BR!SortTxResults(results) = list
  BY <1>1, RootOperators DEF BR!SortTxResults
<1> HIDE DEF order
<1>7. \A i \in 1 .. n : list[i] \in BR!Hashes
  BY <1>3, <1>5 DEF BR!Hashes
<1>8. list \in Seq(BR!Hashes) /\ DOMAIN list = 1 .. n
  BY <1>1, <1>7
<1>9. Lists(list, {results[i] : i \in DOMAIN results})
  <2>1. ASSUME NEW i \in 1 .. n, NEW j \in 1 .. n, list[i] = list[j] PROVE i = j
    <3>1. order[i] = order[j]
      BY <2>1
    <3>2. ~ (i < j) /\ ~ (j < i)
      <4>1. order[i] \in Nat /\ order[j] \in Nat
        <5> HIDE DEF K
        <5>1. order[i] \in K /\ order[j] \in K
          BY <1>5
        <5>2. \A x \in K : x \in 1 .. MaxResults
          BY <1>3
        <5>3. \A x \in 1 .. MaxResults : x \in Nat
          OBVIOUS
        <5> QED
          BY <5>1, <5>2, <5>3
      <4>2. DOMAIN order = 1 .. n
        BY <1>5
      <4> QED
        BY <1>5, <3>1, <4>1, <4>2 DEF IsAscending
    <3> QED
      BY <1>1, <3>2
  <2>2. ASSUME NEW i \in 1 .. n PROVE \E j \in 1 .. n : list[i] = results[j]
    <3>1. PICK j \in 1 .. n : order[i] = results[j][1]
      BY <1>1, <1>5
    <3> QED
      BY <1>1, <1>2, <3>1
  <2>3. ASSUME NEW j \in 1 .. n PROVE \E i \in 1 .. n : list[i] = results[j]
    <3>1. PICK i \in 1 .. n : order[i] = results[j][1]
      BY <1>1, <1>5 DEF IsAscending
    <3> QED
      BY <1>1, <1>2, <3>1
  <2> DEFINE X == {results[i] : i \in DOMAIN results}
  <2>4. \A i \in 1 .. n : list[i] \in X
    BY <1>1, <2>2
  <2>5. \A x \in X : \E i \in 1 .. n : list[i] = x
    BY <1>1, <2>3
  <2> HIDE DEF list, X
  <2>6. Lists(list, X)
    BY <1>8, <2>1, <2>4, <2>5 DEF Lists
  <2> QED
    BY <2>6 DEF X
<1> QED
  BY <1>1, <1>6, <1>8, <1>9

LEMMA ListedBlock ==
  ASSUME NEW list \in Seq(BR!Hashes), NEW X, Lists(list, X), list # <<>>
  PROVE  IsBlock(list, X)
<1>1. Len(list) \in Nat /\ DOMAIN list = 1 .. Len(list) /\ Len(list) # 0
  BY LenProperties, EmptySeq
<1>2. X = {list[i] : i \in DOMAIN list}
  BY DEF Lists
<1>3. X # {}
  <2>1. 1 \in DOMAIN list
    BY <1>1
  <2> QED
    BY <1>2, <2>1
<1> QED
  BY <1>2, <1>3 DEF IsBlock, Lists

\* Which results the comment of VerifyTxInclusion does not hold for (IncludedAreAccepted).
PromotedAreRefused ==
  LET list == BR!SortTxResults(results)
  IN  \A i \in DOMAIN list :
        BR!Promoted(list, i - 1) =>
          ~ BR!VerifyTxInclusion(list[i], BR!ComputeTxsRoot(results), list)

LEMMA ProofsFit ==
  ASSUME BR!BlockRootsAssumption, BR!TypeOK
  PROVE  BR!PairedAreAccepted /\ PromotedAreRefused
<1> DEFINE list == BR!SortTxResults(results)
           X == {results[i] : i \in DOMAIN results}
           root == BR!ComputeTxsRoot(results)
<1>1. MaxResults \in Nat
  BY DEF BR!BlockRootsAssumption
<1>2. list \in Seq(BR!Hashes) /\ Lists(list, X)
  BY <1>1, SortedResults
<1>3. root = BR!MerkleRoot(list)
  BY DEF BR!ComputeTxsRoot
<1> HIDE DEF list, root, X
<1>4. Len(list) \in Nat /\ DOMAIN list = 1 .. Len(list)
  BY <1>2, LenProperties
<1>5. ASSUME NEW i \in DOMAIN list
      PROVE  /\ IsBlock(list, X) /\ i - 1 \in 0 .. Len(list) - 1
             /\ \A j \in DOMAIN list : list[i] = list[j] => i = j
  <2>1. list # <<>>
    BY <1>4
  <2> QED
    BY <1>2, <1>4, <2>1, ListedBlock DEF Lists
<1>6. ASSUME NEW i \in DOMAIN list
      PROVE  BR!VerifyMerkleProof(list[i], BR!GenerateMerkleProof(list, i - 1), i - 1) = root
               <=> ~ BR!Promoted(list, i - 1)
  <2> DEFINE k == i - 1
  <2>1. IsBlock(list, X) /\ k \in 0 .. Len(list) - 1
    BY <1>5
  <2>2. k + 1 = i
    BY <1>4
  <2> HIDE DEF k
  <2>3. BR!VerifyMerkleProof(list[k + 1], BR!GenerateMerkleProof(list, k), k)
          = BR!MerkleRoot(list) <=> ~ BR!Promoted(list, k)
    BY <1>1, <2>1, ProofFits
  <2> QED
    BY <1>3, <2>2, <2>3 DEF k
<1>7. ASSUME NEW i \in DOMAIN list
      PROVE  BR!VerifyTxInclusion(list[i], root, list) <=> ~ BR!Promoted(list, i - 1)
  <2>1. \A j \in 1 .. i - 1 : list[j] # list[i]
    BY <1>4, <1>5
  <2>2. \A j \in DOMAIN list : list[j] = list[i] => j = i
    BY <1>5
  <2> QED
    BY <1>6, <2>1, <2>2 DEF BR!VerifyTxInclusion
<1>8. ASSUME NEW i \in DOMAIN list
      PROVE  BR!MerkleRoot(BR!Without(list, {list[i]})) # root
  <2> DEFINE rest == Without(list, {list[i]})
             Y == X \ {list[i]}
  <2>1. rest \in Seq(BR!Hashes) /\ Lists(rest, Y)
    BY <1>2, WithoutProperties
  <2>2. list[i] \in X
    BY <1>2 DEF Lists
  <2>3. IsBlock(list, X)
    BY <1>5
  <2>4. BR!Without(list, {list[i]}) = rest
    BY RootOperators
  <2> HIDE DEF rest
  <2>5. CASE rest = <<>>
    BY <1>1, <1>3, <2>3, <2>4, <2>5, RootsDiffer
  <2>6. CASE rest # <<>>
    <3>1. IsBlock(rest, Y)
      BY <2>1, <2>6, ListedBlock
    <3>2. X # Y
      BY <2>2
    <3> HIDE DEF Y
    <3> QED
      BY <1>1, <1>3, <2>3, <2>4, <3>1, <3>2, RootsDiffer
  <2> QED
    BY <2>5, <2>6
<1> QED
  <2>1. \A h : BR!VerifyTxInclusion(h, root, list) => \E i \in DOMAIN list : list[i] = h
    BY DEF BR!VerifyTxInclusion
  <2> QED
    BY <1>7, <1>8, <2>1 DEF BR!PairedAreAccepted, PromotedAreRefused, list, root

LEMMA RootsStep ==
  ASSUME BR!BlockRootsAssumption, part = "roots" => BR!TypeOK, [StorageNext]_storageVars
  PROVE  (part = "roots" => BR!TypeOK)'
<1> SUFFICES ASSUME part' = "roots" PROVE BR!TypeOK'
  OBVIOUS
<1>1. part = "roots" /\ BR!TypeOK
  BY DEF StorageNext, storageVars
<1>2. CASE UNCHANGED results
  BY <1>1, <1>2 DEF BR!TypeOK
<1>3. ASSUME NEW h \in BR!Hashes, BR!AddResult(h)
      PROVE  BR!TypeOK'
  <2>1. /\ results \in Seq(BR!Hashes) /\ results' = Append(results, h)
        /\ \A i \in DOMAIN results : results[i] # h
        /\ \A i, j \in DOMAIN results : results[i] = results[j] => i = j
    BY <1>1, <1>3 DEF BR!TypeOK, BR!AddResult
  <2>2. /\ results' \in Seq(BR!Hashes) /\ Len(results') = Len(results) + 1
        /\ results'[Len(results) + 1] = h
        /\ \A i \in 1 .. Len(results) : results'[i] = results[i]
    BY <2>1, AppendProperties
  <2>3. /\ Len(results) \in Nat /\ DOMAIN results = 1 .. Len(results)
        /\ DOMAIN results' = 1 .. Len(results) + 1
    BY <2>1, <2>2, LenProperties
  <2>4. ASSUME NEW i \in DOMAIN results', NEW j \in DOMAIN results', results'[i] = results'[j]
        PROVE  i = j
    BY <2>1, <2>2, <2>3, <2>4
  <2> QED
    BY <2>2, <2>4 DEF BR!TypeOK
<1> QED
  BY <1>1, <1>2, <1>3 DEF StorageNext, storageVars, BR!Next

THEOREM StorageRootsTypeOK ==
  ASSUME BR!BlockRootsAssumption
  PROVE  StorageSpec => [](part = "roots" => BR!TypeOK)
<1>1. StorageInit => (part = "roots" => BR!TypeOK)
  <2>1. <<>> \in Seq(BR!Hashes) /\ DOMAIN <<>> = {}
    BY EmptySeq
  <2> QED
    BY <2>1 DEF StorageInit, BR!Init, BR!TypeOK
<1>2. (part = "roots" => BR!TypeOK) /\ [StorageNext]_storageVars
        => (part = "roots" => BR!TypeOK)'
  BY RootsStep
<1> QED
  BY <1>1, <1>2, PTL DEF StorageSpec

\* VerifyTxInclusion accepts nothing but results of the block, and those each whose path has
\* a partner at every level, for blocks of any size in any order; and the block without one
\* of its results has another root (SortTxResults, MerkleRoot, generateMerkleProof,
\* verifyMerkleProof).
THEOREM StoragePairedAreAccepted ==
  ASSUME BR!BlockRootsAssumption
  PROVE  StorageSpec => []PairedAreAccepted
<1>1. (part = "roots" => BR!TypeOK) => PairedAreAccepted
  BY ProofsFit DEF PairedAreAccepted
<1> QED
  BY <1>1, StorageRootsTypeOK, PTL

\* How far VerifyTxInclusion is from its comment: it refuses every result of a block that is
\* promoted at some level of the tree, for blocks of any size in any order.
THEOREM StoragePromotedAreRefused ==
  ASSUME BR!BlockRootsAssumption
  PROVE  StorageSpec => [](part = "roots" => PromotedAreRefused)
<1>1. (part = "roots" => BR!TypeOK) => (part = "roots" => PromotedAreRefused)
  BY ProofsFit
<1> QED
  BY <1>1, StorageRootsTypeOK, PTL

----------------------------------------------------------------------------
\* The types of every component.

LEMMA MempoolStep ==
  ASSUME PersistentMempoolAssumption, IInv, [StorageNext]_storageVars
  PROVE  IInv'
<1>1. [Next]_vars
  BY DEF StorageNext, storageVars
<1> QED
  BY <1>1, NextPreserves

LEMMA MempoolInvariant ==
  ASSUME PersistentMempoolAssumption
  PROVE  StorageSpec => []IInv
<1>1. StorageInit => IInv
  BY InitInvariant DEF StorageInit
<1>2. IInv /\ [StorageNext]_storageVars => IInv'
  BY MempoolStep
<1> QED
  BY <1>1, <1>2, PTL DEF StorageSpec

\* The persistent mempool keeps what it accepted beside the other stores too.
THEOREM StorageAcceptedIsQueued ==
  ASSUME StorageAssumption
  PROVE  StorageSpec => []AcceptedIsQueued
<1>1. IInv => AcceptedIsQueued
  BY DEF IInv, Indexed, AcceptedIsQueued
<1>2. PersistentMempoolAssumption
  BY DEF StorageAssumption
<1> QED
  BY <1>1, <1>2, MempoolInvariant, PTL

LEMMA KeyTypes ==
  ASSUME KeyInv
  PROVE  KS!TypeOK
<1>1. ASSUME NEW p \in Processes, command[p] # KS!NoCommand
      PROVE  /\ command[p].step \in {"open", "use", "truncate", "write"}
             /\ command[p].op \in {"init", "gen", "import", "list", "sign"}
             /\ command[p].alias \in Aliases
             /\ command[p].step # "open" => command[p].entries \in KeyMaps
  BY <1>1 DEF KeyInv, KeyCommands, KeyOps, SoundCommand
<1> QED
  BY <1>1 DEF KS!TypeOK, KeyInv, KeyFile, KeyReports, KeyMaps, KS!NoKeys

LEMMA NodeTyped ==
  ASSUME NodeInv
  PROVE  ND!TypeOK
<1>1. Len(buckets) \in Nat
  BY LenProperties DEF NodeInv, RateInv, RateTypes
<1>2. ASSUME NEW r \in Connections, calling[r] # ND!NoCall
      PROVE  /\ calling[r].step \in {"key", "limiter", "allow", "cors", "handle", "stuck"}
             /\ calling[r].client \in Clients /\ calling[r].kind \in Kinds
             /\ calling[r].bucket \in 0 .. Len(buckets)
  <2>1. calling[r] \in NodeCalls \ {ND!NoCall} /\ calling[r].bucket =< Len(buckets)
    BY <1>2 DEF NodeInv, NodeTypes, RateInv, OwnBuckets
  <2> QED
    BY <1>1, <2>1 DEF NodeCalls
<1>3. limiters \in [Clients -> 0 .. Len(buckets)]
  BY <1>1 DEF NodeInv, RateInv, RateTypes
<1>4. ND!Range(ND!Parts) = Range(ND!Parts)
  BY DEF ND!Range, Range
<1> QED
  BY <1>2, <1>3, <1>4 DEF ND!TypeOK, NodeInv, NodeTypes, RateInv, RateTypes

\* The variables of every component have their types.
THEOREM StorageTypes ==
  ASSUME StorageAssumption
  PROVE  StorageSpec => []StorageTypeOK
<1>1. /\ PersistentMempoolAssumption /\ CS!ContractStoreAssumption /\ BR!BlockRootsAssumption
      /\ IX!IndexerAssumption /\ KS!KeystoreAssumption /\ ND!NodeAssumption
  BY DEF StorageAssumption
<1>2. StorageSpec => []IInv
  BY <1>1, MempoolInvariant
<1>3. IInv => (part = "mempool" => TypeOK)
  BY DEF IInv
<1>4. (part = "keys" => KeyInv) => (part = "keys" => KS!TypeOK)
  BY KeyTypes
<1>5. (IsNode => NodeInv) => (part \in {"calls", "limits"} => ND!TypeOK)
  BY NodeTyped DEF IsNode
<1>6. ASSUME part = "mempool" => TypeOK, part = "contracts" => CS!TypeOK,
             part = "roots" => BR!TypeOK, part = "index" => IX!TypeOK,
             part = "keys" => KS!TypeOK, part \in {"calls", "limits"} => ND!TypeOK
      PROVE  StorageTypeOK
  BY <1>6 DEF StorageTypeOK
<1>7. /\ StorageSpec => [](part = "contracts" => CS!TypeOK)
      /\ StorageSpec => [](part = "index" => IX!TypeOK)
      /\ StorageSpec => [](part = "roots" => BR!TypeOK)
      /\ StorageSpec => [](part = "keys" => KeyInv)
      /\ StorageSpec => [](IsNode => NodeInv)
  BY <1>1, StorageContractTypes, StorageIndexTypes, StorageRootsTypeOK, StorageKeyInvariant,
     StorageNodeInvariant
<1> QED
  BY <1>2, <1>3, <1>4, <1>5, <1>6, <1>7, PTL
=============================================================================
