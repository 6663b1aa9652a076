---------------------------------- MODULE Keys ----------------------------------
(***************************************************************************)
(* Creating and opening a repository: Init and SearchKey                   *)
(* (repository/repository.go), the key files (repository/key.go), the      *)
(* config (restic/config.go), and its upgrade to version 2                 *)
(* (internal/migrations/upgrade_repo_v2.go).                               *)
(*                                                                         *)
(* Clients do this without a lock, except for the upgrade: they run at the *)
(* same time, they crash, and the backend fails, before or after it has    *)
(* stored a file.  Keys, salts and ciphertexts are what is known of them:  *)
(* which key a text was sealed with.                                       *)
(***************************************************************************)
EXTENDS Naturals, FiniteSets

CONSTANTS
  Client,
  Searcher,        \* the clients that open the repository, others only create it
  Password,
  Limits,          \* the values of maxKeys that SearchKey is called with; 0 is no limit
  AtomicReplace,   \* HasAtomicReplace of the backend
  KeyFiles,        \* bound: how many key files are made
  KeyFaults        \* bound: how many failures and crashes happen

ASSUME KeysAssumption ==
  /\ Limits \subseteq Nat /\ KeyFiles \in Nat /\ KeyFaults \in Nat
  /\ AtomicReplace \in BOOLEAN

MinRepoVersion == 1
MaxRepoVersion == 2

-----------------------------------------------------------------------------
(* crypto: a key is where it comes from.                                   *)

NoKey == <<"none">>
NewRandomKey(n) == <<"master", n>>
KDF(salt, password) == <<"user", salt, password>>

Seal(key, plaintext) == [key |-> key, text |-> plaintext]
Authentic(key, box) == key # NoKey /\ key = box.key

-----------------------------------------------------------------------------
(* Files other than the config are compressed from version 2 on.           *)

compressUnpacked(version) == IF version < 2 THEN "json" ELSE "zstd"

\* Whether the reader gets the JSON text back: text that is not compressed is recognised.
decompressUnpacked(version, encoding) == version >= 2 \/ encoding = "json"

-----------------------------------------------------------------------------

VARIABLES
  keys,            \* the key files
  config,          \* the config file, a singleton, or {} if it does not exist
  unpacked,        \* the other files that were saved with SaveUnpacked
  client,          \* the state of each client
  backup,          \* the copies of the config that upgrades have left on local disks
  made,            \* how many key files were made
  failed,          \* how many faults have happened
  overlapped,      \* whether an Init went ahead while another one did, or after a config
                   \* had been saved
  existed          \* whether a config was ever saved

keyVars == <<keys, config, unpacked, client, backup, made, failed, overlapped, existed>>

Closed ==
  [pc |-> "closed", password |-> "", key |-> NoKey, version |-> 0, todo |-> {}, limit |-> 0, checked |-> 0,
   found |-> NoKey, due |-> FALSE, raw |-> {}]

KeysInit ==
  /\ keys = {} /\ config = {} /\ unpacked = {} /\ backup = {}
  /\ client = [c \in Client |-> Closed]
  /\ made = 0 /\ failed = 0
  /\ overlapped = FALSE /\ existed = FALSE

At(c, pc) == client[c].pc = pc
MoveTo(c, pc) == client' = [client EXCEPT ![c].pc = pc]
Opened(key, version) == [Closed EXCEPT !.pc = "open", !.key = key, !.version = version]
Found(key, due) == [Closed EXCEPT !.pc = "load", !.found = key, !.due = due]
Ends(c) == client' = [client EXCEPT ![c] = [Closed EXCEPT !.pc = "ended", !.due = client[c].due]]

Faulty == failed < KeyFaults /\ failed' = failed + 1

\* A call of Save: it succeeds, or fails with or without the file.
Save(saved, kept, ok, error) ==
  \/ saved /\ ok /\ UNCHANGED failed
  \/ Faulty /\ (saved \/ kept) /\ error

\* A client upgrades the repository, under an exclusive lock.
Upgrading == \E c \in Client : client[c].pc \in {"remove", "replace", "restore", "again"}

\* No search that runs can still be expected to succeed.
Undue == [d \in Client |-> [client[d] EXCEPT !.due = FALSE]]

-----------------------------------------------------------------------------
(* Init *)

\* The version must be known, and there must be no config.
InitStat(c) ==
  /\ At(c, "closed") /\ made < KeyFiles
  /\ \E password \in Password, version \in 0 .. MaxRepoVersion + 1 :
       IF version \notin MinRepoVersion .. MaxRepoVersion \/ config # {}
       THEN Ends(c) /\ UNCHANGED overlapped
       ELSE /\ client' = [client EXCEPT ![c] = [@ EXCEPT !.pc = "create", !.password = password, !.version = version]]
            /\ overlapped' = (overlapped \/ existed \/ \E d \in Client : client[d].pc \in {"create", "config"})
  /\ UNCHANGED <<keys, config, unpacked, backup, made, failed, existed>>

\* AddKey: a new key file, with the master key given or a new one.
AddKey(c, password, template, next) ==
  LET salt == made + 1
      master == IF template = NoKey THEN NewRandomKey(salt) ELSE template
      file == [id |-> salt, salt |-> salt, data |-> Seal(KDF(salt, password), master)]
  IN  /\ made < KeyFiles
      /\ made' = salt
      /\ Save(keys' = keys \cup {file}, UNCHANGED keys,
              client' = [client EXCEPT ![c] = [@ EXCEPT !.pc = next, !.key = master]], Ends(c))

createMasterKey(c) ==
  /\ At(c, "create")
  /\ AddKey(c, client[c].password, NoKey, "config")
  /\ UNCHANGED <<config, unpacked, backup, overlapped, existed>>

\* The config takes the place of one that exists.
SaveConfig(c) ==
  /\ At(c, "config")
  /\ Save(config' = {Seal(client[c].key, client[c].version)} /\ existed' = TRUE, UNCHANGED <<config, existed>>,
          client' = [client EXCEPT ![c] = Opened(@.key, @.version)], Ends(c))
  /\ UNCHANGED <<keys, unpacked, backup, made, overlapped>>

-----------------------------------------------------------------------------
(* SearchKey *)

Opens(file, password) == Authentic(KDF(file.salt, password), file.data)

\* There is a reason to expect that the password opens the repository.
Openable(password, limit) ==
  /\ config # {}
  /\ \E f \in keys : Opens(f, password)
  /\ \A f \in keys : Opens(f, password) => \A box \in config : f.data.text = box.key
  /\ limit = 0 \/ Cardinality(keys) <= limit

\* Find: the file of which the hint is a prefix, if there is just one.
Find(hint) ==
  LET match == {f \in keys : f.id \in hint} IN IF Cardinality(match) = 1 THEN match ELSE {}

\* If the key that is hinted at cannot be opened, all keys are listed.
StartSearch(c) ==
  /\ At(c, "closed") /\ c \in Searcher
  /\ \E password \in Password, limit \in Limits, hint \in {{}, {1}, {1, 2}} :
       LET found == {f \in Find(hint) : Opens(f, password)}
           due == Openable(password, limit)
       IN  client' = [client EXCEPT ![c] =
             IF found # {} THEN Found((CHOOSE f \in found : TRUE).data.text, due)
             ELSE [@ EXCEPT !.pc = "search", !.password = password, !.limit = limit, !.todo = keys, !.due = due]]
  /\ UNCHANGED <<keys, config, unpacked, backup, made, failed, overlapped, existed>>

LimitReached(c) == client[c].limit > 0 /\ client[c].checked >= client[c].limit

\* One call of the function given to List, for any of the files.  After a key was found List is
\* cancelled, but a backend may go on with files it has at hand.
TryKey(c) ==
  /\ At(c, "search")
  /\ \E f \in client[c].todo :
       LET rest == client[c].todo \ {f}
       IN  IF LimitReached(c) \/ f \notin keys
           THEN Ends(c)
           ELSE \E todo \in {rest, IF Opens(f, client[c].password) THEN {} ELSE rest} :
                  client' = [client EXCEPT ![c] = [@ EXCEPT
                     !.todo = todo, !.checked = @ + 1,
                     !.found = IF Opens(f, client[c].password) THEN f.data.text ELSE @]]
  /\ UNCHANGED <<keys, config, unpacked, backup, made, failed, overlapped, existed>>

EndSearch(c) ==
  /\ At(c, "search") /\ client[c].todo = {}
  /\ IF client[c].found = NoKey THEN Ends(c) ELSE client' = [client EXCEPT ![c] = Found(@.found, @.due)]
  /\ UNCHANGED <<keys, config, unpacked, backup, made, failed, overlapped, existed>>

\* The backend fails while the client searches.
SearchFails(c) ==
  /\ client[c].pc \in {"search", "load"}
  /\ Faulty
  /\ client' = [client EXCEPT ![c] = [Closed EXCEPT !.pc = "ended"]]
  /\ UNCHANGED <<keys, config, unpacked, backup, made, overlapped, existed>>

\* Mutant of LoadConfig: the config is taken whether it is authentic or not.
LoadConfigAnyKey(c) ==
  /\ At(c, "load")
  /\ IF config # {}
     THEN client' = [client EXCEPT ![c] = Opened(@.found, (CHOOSE box \in config : TRUE).text)]
     ELSE Ends(c)
  /\ UNCHANGED <<keys, config, unpacked, backup, made, failed, overlapped, existed>>

\* The config must be authentic under the master key that was found.
LoadConfig(c) ==
  /\ At(c, "load")
  /\ LET good == {box \in config : Authentic(client[c].found, box)}
     IN  IF good # {}
         THEN client' = [client EXCEPT ![c] = Opened(@.found, (CHOOSE box \in good : TRUE).text)]
         ELSE Ends(c)
  /\ UNCHANGED <<keys, config, unpacked, backup, made, failed, overlapped, existed>>

-----------------------------------------------------------------------------
(* What a client does with an open repository *)

AddPassword(c) ==
  /\ At(c, "open")
  /\ \E password \in Password : AddKey(c, password, client[c].key, "open")
  /\ UNCHANGED <<config, unpacked, backup, overlapped, existed>>

\* Another program removes a key while a client searches.
RemoveKey ==
  /\ \E c \in Client : At(c, "search")
  /\ Cardinality(keys) > 1
  /\ \E f \in keys : keys' = keys \ {f}
  /\ client' = Undue
  /\ UNCHANGED <<config, unpacked, backup, made, failed, overlapped, existed>>

\* A file is saved, under a lock; one is enough for the others to read.
SaveUnpacked(c) ==
  /\ At(c, "open") /\ unpacked = {}
  /\ ~Upgrading
  /\ unpacked' = unpacked \cup
       {[box |-> Seal(client[c].key, compressUnpacked(client[c].version)), version |-> client[c].version]}
  /\ UNCHANGED <<keys, config, client, backup, made, failed, overlapped, existed>>

-----------------------------------------------------------------------------
(* UpgradeRepoV2, which runs under an exclusive lock.                      *)

\* Mutant of BackupConfig: no copy is written.
BackupConfigSkipped(c) ==
  /\ At(c, "open") /\ client[c].version = 1
  /\ ~Upgrading
  /\ config # {}
  /\ client' = [client EXCEPT ![c] = [@ EXCEPT !.raw = config, !.pc = IF AtomicReplace THEN "replace" ELSE "remove"]]
  /\ UNCHANGED <<keys, config, unpacked, backup, made, failed, overlapped, existed>>

\* Apply keeps a copy of the raw config in a temporary directory.
BackupConfig(c) ==
  /\ At(c, "open") /\ client[c].version = 1
  /\ ~Upgrading
  /\ \/ /\ config # {}
        /\ backup' = backup \cup config
        /\ client' = [client EXCEPT ![c] = [@ EXCEPT !.raw = config, !.pc = IF AtomicReplace THEN "replace" ELSE "remove"]]
        /\ UNCHANGED failed
     \/ /\ IF config = {} THEN UNCHANGED failed ELSE Faulty
        /\ Ends(c) /\ UNCHANGED backup
  /\ UNCHANGED <<keys, config, unpacked, made, overlapped, existed>>

\* upgrade removes a config that it cannot replace in one step.
RemoveConfig(c) ==
  /\ At(c, "remove")
  /\ \/ config' = {} /\ client' = [Undue EXCEPT ![c].pc = "replace"] /\ UNCHANGED failed
     \/ Faulty /\ MoveTo(c, "restore") /\ UNCHANGED config
  /\ UNCHANGED <<keys, unpacked, backup, made, overlapped, existed>>

\* The new config is saved; then the copy is removed (copies of the same text are one here).
ReplaceConfig(c) ==
  /\ At(c, "replace")
  /\ Save(config' = {Seal(client[c].key, 2)}, UNCHANGED config,
          client' = [client EXCEPT ![c] = Opened(@.key, @.version)] /\ backup' = backup \ client[c].raw,
          MoveTo(c, "restore") /\ UNCHANGED backup)
  /\ UNCHANGED <<keys, unpacked, made, overlapped, existed>>

\* The contingency: the config is removed, whether or not that succeeds,
RemoveAgain(c) ==
  /\ At(c, "restore")
  /\ config' \in {{}, config}
  /\ client' = [Undue EXCEPT ![c].pc = "again"]
  /\ UNCHANGED <<keys, unpacked, backup, made, failed, overlapped, existed>>

\* and the old one is saved, or at least it was tried.
SaveAgain(c) ==
  /\ At(c, "again")
  /\ config' \in {client[c].raw, config}
  /\ Ends(c)
  /\ UNCHANGED <<keys, unpacked, backup, made, failed, overlapped, existed>>

-----------------------------------------------------------------------------

\* The client starts anew after an error or when it is done with the repository.
Restart(c) ==
  /\ client[c].pc \in {"open", "ended"}
  /\ client' = [client EXCEPT ![c] = Closed]
  /\ UNCHANGED <<keys, config, unpacked, backup, made, failed, overlapped, existed>>

Crash(c) ==
  /\ client[c].pc \in {"create", "config", "remove", "replace", "restore", "again"}
  /\ Faulty
  /\ client' = [client EXCEPT ![c] = Closed]
  /\ UNCHANGED <<keys, config, unpacked, backup, made, overlapped, existed>>

\* Nothing is promised, and the model ends, once calls of Init have overlapped.
KeysNext ==
  /\ ~overlapped
  /\ \/ \E c \in Client :
          \/ InitStat(c) \/ createMasterKey(c) \/ SaveConfig(c)
          \/ StartSearch(c) \/ TryKey(c) \/ EndSearch(c) \/ SearchFails(c) \/ LoadConfig(c)
          \/ AddPassword(c) \/ SaveUnpacked(c)
          \/ BackupConfig(c) \/ RemoveConfig(c) \/ ReplaceConfig(c) \/ RemoveAgain(c) \/ SaveAgain(c)
          \/ Restart(c) \/ Crash(c)
     \/ RemoveKey

-----------------------------------------------------------------------------
(* Properties *)

\* The type invariant; in particular no search tries more keys than its limit.
KeysTypeOK ==
  /\ Cardinality(config) <= 1
  /\ made \in 0 .. KeyFiles /\ failed \in 0 .. KeyFaults
  /\ \A f \in keys : f.id \in 1 .. made
  /\ \A c \in Client : /\ \A f \in client[c].todo : f.id \in 1 .. made
                       /\ client[c].limit > 0 => client[c].checked <= client[c].limit

\* Clients that have opened the repository, or created it, use one master key, and each reads
\* back what another one has saved before with no newer version of the format: whatever key
\* files interrupted calls of Init have left, and while the config is upgraded.  Only calls of
\* Init that overlap, or that find a config removed, make a second one.
FilesReadable ==
  ~overlapped =>
    \A c \in Client : client[c].pc = "open" =>
      \A f \in unpacked :
        /\ Authentic(client[c].key, f.box)
        /\ f.version <= client[c].version => decompressUnpacked(client[c].version, f.box.text)

\* SearchKey fails only if there is a reason: a password that opens the repository when the
\* search starts is found among other keys, in whatever order they are listed, unless the backend
\* fails, a key is removed meanwhile, or calls of Init overlap.
SearchFinds == ~overlapped => \A c \in Client : client[c].pc = "ended" => ~client[c].due

\* A config that was saved is never lost: if it is not in the repository, as before or upgraded,
\* then a copy of it is on the disk of a client that has run the upgrade, even after a crash.
ConfigSafe ==
  existed /\ ~overlapped =>
    /\ config # {} \/ backup # {}
    /\ \A box, copy \in config \cup backup : box.key = copy.key

\* Clients that create and open one repository get on with each other: SearchKey finds a key that
\* the password opens, and each client can read the files that another one has saved.
KeysShared == KeysTypeOK /\ FilesReadable /\ SearchFinds
=============================================================================
