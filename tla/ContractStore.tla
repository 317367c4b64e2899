--------------------------- MODULE ContractStore ---------------------------
(***************************************************************************)
(* Deployed contracts and their versions (engine/state/contracts/store.go),*)
(* under the RPC calls that change them: deploy, upgrade with an optional  *)
(* migration (sequencer/exec.go), and activate.                            *)
(*                                                                         *)
(* Nothing locks the store.  Every access to the key-value store and every *)
(* system call on a file is a step; writing a file is two, since WriteFile *)
(* truncates first.  A call can end with a storage error between any two.  *)
(***************************************************************************)
EXTENDS Integers, Sequences, SequencesExt, Functions, Maps

CONSTANTS
  Requests,     \* goroutines that serve RPC requests
  Addrs,        \* contract addresses
  Codes,        \* wasm modules, by their hash
  Unfit,        \* modules that fail the size limits or the audit
  Reserved,     \* addresses in a namespace the registry lists as reserved
  Authorized,   \* addresses whose registry entry says "authorized"
  MaxCalls,     \* bound: calls in a behaviour
  MaxVersions,  \* bound: versions of a contract
  MaxErrors,    \* bound: storage errors
  MaxStarts     \* bound: starts of the process

ContractStoreAssumption ==
  /\ Requests \cap {"free", "stuck"} = {}
  /\ Unfit \subseteq Codes
  /\ Reserved \subseteq Addrs /\ Authorized \subseteq Addrs
  /\ {MaxCalls, MaxVersions, MaxErrors, MaxStarts} \subseteq Nat

VARIABLES
  backend,      \* "badger" or "memory"
  modules,      \* contract:meta: the hash of each deployed address
  versions,     \* contract:versions: the list of each address, and the active one
  bytes,        \* what is stored at each location, "cut" while it is written
  call,         \* what each request is doing
  engine,       \* ExecutionEngine.mu: "free", the request that migrates, "stuck"
  saved,        \* the copy of the key-value store that a migration holds
  rewritten,    \* locations that were written again while in use
  quota         \* calls, errors and starts left

keys == <<modules, versions>>
vars == <<backend, keys, bytes, call, engine, saved, rewritten, quota>>

NoCall == [step |-> "none"]
Empty == <<>>
Steps == {"check", "open", "fill", "record", "migrate", "restore"}

Init ==
  /\ backend \in {"badger", "memory"}
  /\ modules = Empty /\ versions = Empty /\ bytes = Empty /\ saved = Empty
  /\ call = [r \in Requests |-> NoCall]
  /\ engine = "free"
  /\ rewritten = {}
  /\ quota = [calls |-> MaxCalls, errors |-> MaxErrors, starts |-> MaxStarts]

----------------------------------------------------------------------------
\* NamespaceManager: both look-ups may fail, and one that fails says "not
\* reserved" or "not authorized".
IsReservedNamespace(a) == IF a \in Reserved THEN BOOLEAN ELSE {FALSE}

CheckContractRegistry(a) == IF a \in Authorized THEN BOOLEAN ELSE {FALSE}

ContractAllowed(a) ==
  \/ FALSE \in IsReservedNamespace(a)
  \/ TRUE \in CheckContractRegistry(a)

\* The place of the bytes of a module: a file named for its hash, or a key named
\* for the address.
ModuleBytes(a, code) == IF backend = "badger" THEN <<"file", code>> ELSE <<"key", a>>

\* The place of the bytes of a version.  Two addresses may share it.
VersionBytes(code, v) == <<"file", code, v>>

Location(r) ==
  IF call[r].op = "deploy" THEN ModuleBytes(call[r].addr, call[r].code)
  ELSE VersionBytes(call[r].code, Len(call[r].list) + 1)

Holds(location, code) == location \in DOMAIN bytes /\ bytes[location] = code

\* GetModule and GetVersionModule compare what they read with the hash.
GetModule(a) == Holds(ModuleBytes(a, modules[a]), modules[a])

GetVersionModule(a, v) ==
  /\ a \in DOMAIN versions
  /\ v \in DOMAIN versions[a].list
  /\ Holds(VersionBytes(versions[a].list[v], v), versions[a].list[v])

ListBytes(list) == {VersionBytes(list[v], v) : v \in DOMAIN list}

\* The locations that the records of a copy of the store name.
Named(copy) ==
  {ModuleBytes(a, copy[1][a]) : a \in DOMAIN copy[1]}
    \cup UNION {ListBytes(copy[2][a].list) : a \in DOMAIN copy[2]}

\* The locations that a record names, will name again when a migration is undone,
\* or may name when another request records what it writes or has read.
InUse(r) ==
  Named(keys) \cup (IF saved = Empty THEN {} ELSE Named(saved))
    \cup {Location(q) : q \in {q \in Requests \ {r} : call[q].step \in {"fill", "record"}
                                                    /\ call[q].op # "activate"}}
    \cup UNION {ListBytes(call[q].list) : q \in {q \in Requests : call[q] # NoCall
                                                              /\ call[q].op # "deploy"}}

----------------------------------------------------------------------------
Goto(r, step) == call' = [call EXCEPT ![r].step = step]

Return(r) == call' = [call EXCEPT ![r] = NoCall]

WriteBytes(location, value) == bytes' = Put(bytes, location, value)

\* The calls of the handlers, once their checks have passed.  SaveVersion needs a
\* list that memory, which answers a missing key with no bytes, never holds: the
\* last two end there with an error.
Deploys(a) ==
  {[step |-> "check", op |-> "deploy", addr |-> a, code |-> code] : code \in Codes \ Unfit}

Upgrades(a) ==
  {[step |-> "check", op |-> "upgrade", addr |-> a, code |-> code, migrates |-> migrates,
    list |-> <<>>, active |-> 0] :
     code \in Codes \ Unfit, migrates \in BOOLEAN}

Activations(a) ==
  {[step |-> "check", op |-> "activate", addr |-> a, version |-> v, list |-> <<>>, active |-> 0] :
     v \in 1 .. MaxVersions}

Begin(r) ==
  /\ call[r] = NoCall
  /\ quota.calls > 0
  /\ quota' = [quota EXCEPT !.calls = @ - 1]
  /\ \E a \in {x \in Addrs : ContractAllowed(x)} :
     \E c \in Deploys(a) \cup (IF backend = "badger" THEN Upgrades(a) \cup Activations(a) ELSE {}) :
       call' = [call EXCEPT ![r] = c]
  /\ UNCHANGED <<backend, keys, bytes, engine, saved, rewritten>>

\* Mutant: the record comes first.
RecordFirst == FALSE

\* Files are written before the record that names them, keys after it.
BytesFirst == backend = "badger"

\* HasModule.
CheckDeploy(r) ==
  /\ call[r].step = "check" /\ call[r].op = "deploy"
  /\ IF call[r].addr \in DOMAIN modules THEN Return(r)
     ELSE Goto(r, IF BytesFirst THEN "open" ELSE "record")
  /\ UNCHANGED <<backend, keys, bytes, engine, saved, rewritten, quota>>

\* SaveVersion refuses a module that is in the list, ActivateVersion a version
\* that is not.
ReadVersions(r) ==
  /\ call[r].step = "check" /\ call[r].op \in {"upgrade", "activate"}
  /\ LET c == call[r]
         list == IF c.addr \in DOMAIN versions THEN versions[c.addr].list ELSE <<>>
         active == IF c.addr \in DOMAIN versions THEN versions[c.addr].active ELSE 0
         refused == IF c.op = "upgrade" THEN c.code \in ToSet(list)
                    ELSE c.version \notin DOMAIN list
     IN  IF refused THEN Return(r)
         ELSE /\ c.op = "upgrade" => Len(list) < MaxVersions
              /\ call' = [call EXCEPT ![r].step = IF c.op = "upgrade" THEN "open" ELSE "record",
                                      ![r].list = list, ![r].active = active]
  /\ UNCHANGED <<backend, keys, bytes, engine, saved, rewritten, quota>>

\* WriteFile truncates the file, ...
OpenFile(r) ==
  /\ call[r].step = "open"
  /\ rewritten' = rewritten \cup (InUse(r) \cap {Location(r)})
  /\ WriteBytes(Location(r), "cut")
  /\ Goto(r, "fill")
  /\ UNCHANGED <<backend, keys, engine, saved, quota>>

\* ... then writes it.
FillFile(r) ==
  /\ call[r].step = "fill" /\ backend = "badger"
  /\ WriteBytes(Location(r), call[r].code)
  /\ IF BytesFirst THEN Goto(r, "record") ELSE Return(r)
  /\ UNCHANGED <<backend, keys, engine, saved, rewritten, quota>>

FillKey(r) ==
  /\ call[r].step = "fill" /\ backend = "memory"
  /\ rewritten' = rewritten \cup (DOMAIN bytes \cap {Location(r)})
  /\ WriteBytes(Location(r), call[r].code)
  /\ Return(r)
  /\ UNCHANGED <<backend, keys, engine, saved, quota>>

\* SaveModule.
RecordModule(r) ==
  /\ call[r].step = "record" /\ call[r].op = "deploy"
  /\ modules' = Put(modules, call[r].addr, call[r].code)
  /\ IF BytesFirst THEN Return(r)
     ELSE Goto(r, IF backend = "memory" THEN "fill" ELSE "open")
  /\ UNCHANGED <<backend, versions, bytes, engine, saved, rewritten, quota>>

\* SaveVersion and ActivateVersion put the whole list, as they have read it.
RecordVersions(r) ==
  /\ call[r].step = "record" /\ call[r].op \in {"upgrade", "activate"}
  /\ LET c == call[r] IN
     IF c.op = "activate"
     THEN /\ versions' = Put(versions, c.addr, [list |-> c.list, active |-> c.version])
          /\ Return(r)
     ELSE /\ versions' = Put(versions, c.addr, [list |-> Append(c.list, c.code),
                                                 active |-> c.active])
          /\ IF c.migrates THEN Goto(r, "migrate") ELSE Return(r)
  /\ UNCHANGED <<backend, modules, bytes, engine, saved, rewritten, quota>>

\* ExecuteMigration takes the engine's lock for all it does, and copies every
\* key.  It copies one after the other, here in one step: an iterator of badger reads
\* the state of one moment, and what runs in the engine has to wait.  A module that does not load is undone.  One that loads is not executed:
\* the context of its execution asks GetCurrentHeight, which wants the lock that
\* this goroutine holds.
Migrate(r) ==
  /\ call[r].step = "migrate"
  /\ engine = "free"
  /\ IF GetVersionModule(call[r].addr, Len(call[r].list) + 1)
     THEN \/ /\ engine' = r
             /\ saved' = keys
             /\ modules' = Empty /\ versions' = Empty     \* restoreStateSnapshot clears ...
             /\ Goto(r, "restore")
          \/ /\ engine' = "stuck"
             /\ UNCHANGED <<keys, saved, call>>
     ELSE Return(r) /\ UNCHANGED <<keys, saved, engine>>
  /\ UNCHANGED <<backend, bytes, rewritten, quota>>

\* ... and puts back what was copied, over what came in between.
Restore(r) ==
  /\ call[r].step = "restore"
  /\ modules' = Over(saved[1], modules)
  /\ versions' = Over(saved[2], versions)
  /\ saved' = Empty
  /\ engine' = "free"
  /\ Return(r)
  /\ UNCHANGED <<backend, bytes, rewritten, quota>>

\* A storage error ends the call and leaves what it did.  Memory has none.
Fail(r) ==
  /\ backend = "badger"
  /\ call[r].step \in {"open", "fill", "record", "restore"}
  /\ quota.errors > 0
  /\ quota' = [quota EXCEPT !.errors = @ - 1]
  /\ Return(r)
  /\ IF engine = r THEN engine' = "free" /\ saved' = Empty ELSE UNCHANGED <<engine, saved>>
  /\ UNCHANGED <<backend, keys, bytes, rewritten>>

\* The process dies and comes up again.
Restart ==
  /\ quota.starts > 0
  /\ quota' = [quota EXCEPT !.starts = @ - 1]
  /\ call' = [r \in Requests |-> NoCall]
  /\ engine' = "free" /\ saved' = Empty
  /\ IF backend = "badger" THEN UNCHANGED <<keys, bytes, rewritten>>
     ELSE modules' = Empty /\ versions' = Empty /\ bytes' = Empty /\ rewritten' = {}
  /\ UNCHANGED backend

Next ==
  \/ \E r \in Requests :
       \/ Begin(r) \/ CheckDeploy(r) \/ ReadVersions(r) \/ OpenFile(r) \/ FillFile(r)
       \/ FillKey(r) \/ RecordModule(r) \/ RecordVersions(r) \/ Migrate(r) \/ Restore(r)
       \/ Fail(r)
  \/ Restart

Spec == Init /\ [][Next]_vars

----------------------------------------------------------------------------
\* The types of the variables; a call that is past its checks holds what they
\* have read.
TypeOK ==
  LET Lists == [list : Seq(Codes), active : 0 .. MaxVersions] IN
  /\ backend \in {"badger", "memory"}
  /\ DOMAIN modules \subseteq Addrs /\ Range(modules) \subseteq Codes \ Unfit
  /\ DOMAIN versions \subseteq Addrs /\ Range(versions) \subseteq Lists
  /\ \A a \in DOMAIN versions : versions[a].active \in 0 .. Len(versions[a].list)
  /\ Range(bytes) \subseteq Codes \cup {"cut"}
  /\ \A r \in Requests : call[r] # NoCall =>
       /\ call[r].step \in Steps
       /\ call[r].op \in {"deploy", "upgrade", "activate"}
       /\ call[r].op # "deploy" /\ call[r].step # "check" =>
            call[r].list \in Seq(Codes) /\ call[r].active \in 0 .. Len(call[r].list)
  /\ engine \in {"free", "stuck"} \cup Requests
  /\ saved = Empty \/ engine \in Requests
  /\ rewritten \subseteq DOMAIN bytes

\* A contract whose record is stored loads, with the hash that the record gives,
\* and so does every version in its list, whatever died or failed half-way and
\* however deploys, upgrades and roll-backs interleave.  Left out are bytes that
\* were written again while in use (two addresses with the same code share a
\* file), and, in memory, a deploy that has not put its bytes yet.
DeployedLoads ==
  /\ \A a \in DOMAIN modules :
       \/ ModuleBytes(a, modules[a]) \in rewritten
       \/ /\ backend = "memory"
          /\ \E r \in Requests : call[r] # NoCall /\ call[r].step = "fill" /\ call[r].addr = a
       \/ GetModule(a)
  /\ \A a \in DOMAIN versions : \A v \in DOMAIN versions[a].list :
       \/ VersionBytes(versions[a].list[v], v) \in rewritten
       \/ GetVersionModule(a, v)
=============================================================================
