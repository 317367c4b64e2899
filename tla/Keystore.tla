------------------------------ MODULE Keystore ------------------------------
(***************************************************************************)
(* The keystore (internal/crypto/keystore/keystore.go) under the accucli   *)
(* commands that use it: `keystore init`, `gen`, `import` and `list`, and  *)
(* `tx sign`.  Each command is a process of its own: it reads the index    *)
(* into memory, changes it there, and writes all of it back.  Nothing      *)
(* locks the file.                                                         *)
(*                                                                         *)
(* Reading the file is a step; writing it is two, since WriteFile          *)
(* truncates first.                                                        *)
(***************************************************************************)
EXTENDS Integers, Maps

CONSTANTS
  Processes,    \* processes that run a command
  Aliases,      \* names of keys
  MaxCommands,  \* bound: commands in a behaviour
  MaxErrors     \* bound: writes that fail

KeystoreAssumption == {MaxCommands, MaxErrors} \subseteq Nat

VARIABLES
  form,         \* index.json: "none", "cut" or "list"
  index,        \* the key that it lists for each alias
  command,      \* what each process is doing
  reported,     \* the keys that a command has reported as stored
  raced,        \* aliases stored while another process held an older index
  signed,       \* aliases that a signature was made with
  quota         \* commands and errors left

file == <<form, index>>
vars == <<file, command, reported, raced, signed, quota>>

NoKeys == <<>>
NoCommand == [step |-> "none"]

Init ==
  /\ form = "none" /\ index = NoKeys
  /\ command = [p \in Processes |-> NoCommand]
  /\ reported = NoKeys /\ raced = {} /\ signed = {}
  /\ quota = [commands |-> MaxCommands, errors |-> MaxErrors]

----------------------------------------------------------------------------
\* getOSUserSecret always gives a password, so that encryptKey always puts the four
\* characters "aes:" before the key.
EncryptKey == [tag |-> "aes:", length |-> 4]

\* decryptKey compares the first five characters with "plain" and with "aes:": no
\* key that encryptKey has made is decrypted.
DecryptKey(encrypted) == encrypted.tag \in {"plain", "aes:"} /\ encrypted.length = 5

Begin(p) ==
  /\ command[p] = NoCommand
  /\ quota.commands > 0
  /\ quota' = [quota EXCEPT !.commands = @ - 1]
  /\ \E op \in {"init", "gen", "import", "list", "sign"}, alias \in Aliases :
       command' = [command EXCEPT ![p] = [step |-> "open", op |-> op, alias |-> alias]]
  /\ UNCHANGED <<file, reported, raced, signed>>

Finish(p) == command' = [command EXCEPT ![p] = NoCommand]

\* Mutant: an index that cannot be read is taken for none.
NeverRefused == {}

\* What loadIndex answers with an error other than that there is no file.
Refused == {"cut"}

\* A missing file is an empty keystore; a file that is no list of keys is an error.
New(p) ==
  /\ command[p].step = "open"
  /\ LET c == command[p] IN
     IF form \in Refused THEN Finish(p)
     ELSE command' = [command EXCEPT ![p] =
            [step |-> "use", op |-> c.op, alias |-> c.alias, entries |-> index]]
  /\ UNCHANGED <<file, reported, raced, signed, quota>>

\* Create and Import refuse an alias that is there.
Create(p) ==
  /\ command[p].step = "use" /\ command[p].op \in {"gen", "import"}
  /\ LET c == command[p] IN
     IF c.alias \in DOMAIN c.entries THEN Finish(p)
     ELSE command' = [command EXCEPT
            ![p].entries = Put(@, c.alias, [by |-> quota.commands, encrypted |-> EncryptKey]),
            ![p].step = "truncate"]
  /\ UNCHANGED <<file, reported, raced, signed, quota>>

\* init and list only show what is in memory.
Show(p) ==
  /\ command[p].step = "use" /\ command[p].op \in {"init", "list"}
  /\ Finish(p)
  /\ UNCHANGED <<file, reported, raced, signed, quota>>

\* HasKey, then GetPrivateKey through the signer.
Sign(p) ==
  /\ command[p].step = "use" /\ command[p].op = "sign"
  /\ LET c == command[p] IN
     signed' = IF c.alias \in DOMAIN c.entries /\ DecryptKey(c.entries[c.alias].encrypted)
               THEN signed \cup {c.alias} ELSE signed
  /\ Finish(p)
  /\ UNCHANGED <<file, reported, raced, quota>>

\* saveIndex: WriteFile truncates the file, ...
Truncate(p) ==
  /\ command[p].step = "truncate"
  /\ form' = "cut" /\ index' = NoKeys
  /\ command' = [command EXCEPT ![p].step = "write"]
  /\ UNCHANGED <<reported, raced, signed, quota>>

\* Processes that have read the index and may write what they have read.
Holders == {p \in Processes : command[p].step \in {"use", "truncate", "write"}
                                 /\ command[p].op \in {"gen", "import"}}

\* ... and writes it, over what another process has put there since: what is left
\* of a longer list makes the file unreadable.
Write(p) ==
  /\ command[p].step = "write"
  /\ LET c == command[p] IN
     /\ \/ form' = "list" /\ index' = c.entries
        \/ form = "list" /\ form' = "cut" /\ index' = NoKeys
     /\ reported' = Put(reported, c.alias, c.entries[c.alias])
     /\ raced' = IF Holders = {p} THEN raced ELSE raced \cup {c.alias}
  /\ Finish(p)
  /\ UNCHANGED <<signed, quota>>

\* Both system calls may fail; the entry is taken back in memory, and the process
\* ends with an error.  So does one that is killed.
Fail(p) ==
  /\ command[p].step \in {"truncate", "write"}
  /\ quota.errors > 0
  /\ quota' = [quota EXCEPT !.errors = @ - 1]
  /\ Finish(p)
  /\ UNCHANGED <<file, reported, raced, signed>>

Next ==
  \E p \in Processes :
    \/ Begin(p) \/ New(p) \/ Create(p) \/ Show(p) \/ Sign(p)
    \/ Truncate(p) \/ Write(p) \/ Fail(p)

Spec == Init /\ [][Next]_vars

----------------------------------------------------------------------------
\* The types of the variables.
TypeOK ==
  LET Keys == [by : 0 .. MaxCommands, encrypted : {EncryptKey}]
      Indexes == UNION {[D -> Keys] : D \in SUBSET Aliases}
  IN
  /\ form \in {"none", "cut", "list"} /\ index \in Indexes
  /\ form # "list" => index = NoKeys
  /\ \A p \in Processes : command[p] # NoCommand =>
       /\ command[p].step \in {"open", "use", "truncate", "write"}
       /\ command[p].op \in {"init", "gen", "import", "list", "sign"}
       /\ command[p].alias \in Aliases
       /\ command[p].step # "open" => command[p].entries \in Indexes
  /\ reported \in Indexes
  /\ raced \subseteq DOMAIN reported
  /\ signed \subseteq Aliases

\* A key that was reported as stored stays in the index, as it was stored, as long
\* as the index can be read at all: a write that was cut short by an error or a
\* kill leaves a file that no later command takes for an empty keystore.  Left out
\* are keys of commands that ran at the same time as another that writes, which
\* may write the index that it has read before.
KeysSurvive ==
  form = "list" =>
    \A alias \in DOMAIN reported \ raced :
      alias \in DOMAIN index /\ index[alias] = reported[alias]
=============================================================================
