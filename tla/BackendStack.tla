---------------------------- MODULE BackendStack ----------------------------
(***************************************************************************)
(* The backends a repository uses, wrapped in each other as OpenRepository *)
(* does it: the local cache (internal/cache), retries (backend/retry), the *)
(* limit on connections (backend/sema), and the storage itself.  Each      *)
(* client is a goroutine that makes one call after the other.              *)
(*                                                                         *)
(* A load is made by LoadUnpacked, whose consumer compares the hash of the *)
(* file with its name: a file is complete ("full") or not ("part").  A     *)
(* name belongs to one content, and only one client at a time saves it.    *)
(***************************************************************************)
EXTENDS Integers

CONSTANTS
  Client,
  Handle,
  AutoCached,      \* the files that autoCacheTypes accepts
  LockFile,        \* the lock files, which need no token
  Calls,           \* what the clients may call: <<client, operation, handle>>
  Connections,     \* the number of tokens
  MaxTries,        \* how often an operation is tried again
  Cancellable,     \* the clients whose context may be cancelled
  Faults,          \* "load" (and Stat), "save", "remove", "cache", "other"
  None

ASSUME StackAssumption ==
  /\ AutoCached \subseteq Handle /\ LockFile \subseteq Handle /\ AutoCached \cap LockFile = {}
  /\ Calls \subseteq Client \X {"load", "save", "remove", "stat"} \X Handle
  /\ Connections \in Nat \ {0}
  /\ MaxTries \in Nat
  /\ Cancellable \subseteq Client
  /\ Faults \subseteq {"load", "save", "remove", "cache", "other"}
  /\ None \notin Client \cup Handle

VARIABLES
  atomic,          \* whether the storage replaces files atomically
  stored,          \* the files in the storage
  cached,          \* the files in the cache
  download,        \* inProgress: who downloads a file, and whether the channel is closed
  waitFor,         \* the download for which a client waits
  op, file,        \* the call of each client
  pc,              \* where it is in internal/cache
  call,            \* where it is in backend/retry and backend/sema
  cleaning,        \* the clients that remove what a failed Save has left
  tries,           \* how often the operation was tried again
  buf,             \* what the client has read from the storage
  bad,             \* how often LoadUnpacked has seen a wrong hash
  cancelled,       \* the clients whose context is cancelled
  tokens,          \* how many tokens are taken
  frozen,          \* whether the backend is frozen
  clean,           \* the clients whose file is there and stays there, and who can load it
  saved,           \* the files that Save has stored and nobody has removed
  unhealed         \* whether a client could not load a file that was there

cacheVars == <<cached, download, waitFor>>
clientVars == <<op, file, pc>>
retryVars == <<cleaning, tries>>
loadVars == <<buf, bad, cancelled>>
semaVars == <<tokens, frozen>>
historyVars == <<clean, saved, unhealed>>
vars == <<atomic, stored, cacheVars, clientVars, call, retryVars, loadVars, semaVars, historyVars>>

Content == {"none", "part", "full"}
Downloading == [by : Client \cup {None}, done : BOOLEAN]

\* Where a client can be in internal/cache, and in the layers below.
Place == {"idle", "try", "join", "has", "fetch", "close", "leave", "again", "direct", "save", "remove", "stat"}
Stage == {"none", "token", "thaw", "raw", "upload", "consume", "backoff", "ok", "error", "notexist"}

TypeOK ==
  /\ atomic \in BOOLEAN
  /\ stored \in [Handle -> Content] /\ cached \in [Handle -> Content]
  /\ download \in [Handle -> Downloading]
  /\ waitFor \in [Client -> Client \cup {None}]
  /\ op \in [Client -> {"none", "load", "save", "remove", "stat"}]
  /\ file \in [Client -> Handle \cup {None}]
  /\ pc \in [Client -> Place]
  /\ call \in [Client -> Stage]
  /\ cleaning \subseteq Client /\ cancelled \subseteq Client /\ clean \subseteq Client
  /\ tries \in [Client -> 0 .. MaxTries]
  /\ buf \in [Client -> Content]
  /\ bad \in [Client -> 0 .. 2]
  /\ tokens \in 0 .. Connections
  /\ frozen \in BOOLEAN
  /\ saved \subseteq Handle
  /\ unhealed \in BOOLEAN

\* The repository is locked, and the cache may hold damaged copies from earlier.
Init ==
  /\ atomic \in BOOLEAN
  /\ stored \in {f \in [Handle -> {"none", "full"}] : \A h \in LockFile : f[h] = "full"}
  /\ cached \in {f \in [Handle -> Content] : \A h \in Handle \ AutoCached : f[h] = "none"}
  /\ download = [h \in Handle |-> [by |-> None, done |-> FALSE]]
  /\ waitFor = [c \in Client |-> None]
  /\ op = [c \in Client |-> "none"]
  /\ file = [c \in Client |-> None]
  /\ pc = [c \in Client |-> "idle"]
  /\ call = [c \in Client |-> "none"]
  /\ cleaning = {}
  /\ tries = [c \in Client |-> 0]
  /\ buf = [c \in Client |-> "none"]
  /\ bad = [c \in Client |-> 0]
  /\ cancelled = {}
  /\ tokens = 0
  /\ frozen = FALSE
  /\ clean = {}
  /\ saved = {}
  /\ unhealed = FALSE

Goto(c, l) == pc' = [pc EXCEPT ![c] = l] /\ UNCHANGED <<op, file>>
CallTo(c, l) == call' = [call EXCEPT ![c] = l]

\* The client, now at l, calls the backend below the cache: retry does nothing when the
\* context is cancelled.
CallBackend(c, l) == Goto(c, l) /\ CallTo(c, IF c \in cancelled THEN "error" ELSE "token")

\* The call of the client ends with r.
Return(c, r) ==
  /\ op' = [op EXCEPT ![c] = "none"]
  /\ file' = [file EXCEPT ![c] = None]
  /\ pc' = [pc EXCEPT ![c] = "idle"]
  /\ call' = [call EXCEPT ![c] = "none"]
  /\ tries' = [tries EXCEPT ![c] = 0]
  /\ buf' = [buf EXCEPT ![c] = "none"]
  /\ bad' = [bad EXCEPT ![c] = 0]
  /\ cancelled' = cancelled \ {c}
  /\ clean' = clean \ {c}
  /\ unhealed' = (unhealed \/ (r = "error" /\ op[c] = "load" /\ c \in clean /\ atomic))
  /\ UNCHANGED <<atomic, stored, cleaning, semaVars>>

\* Client c cannot load its file.
Spoil(c) == clean' = (IF op[c] = "load" THEN clean \ {c} ELSE clean) /\ UNCHANGED <<saved, unhealed>>

\* File h is gone: for those who read it and those who have saved it.
Gone(h) == clean' = {c \in clean : file[c] # h} /\ saved' = saved \ {h} /\ UNCHANGED unhealed

-----------------------------------------------------------------------------
(* internal/cache *)

\* The download of h that is in progress.
InProgress(h) == IF download[h].done THEN None ELSE download[h].by

StartCall(c, o, h, l) ==
  /\ pc[c] = "idle"
  /\ <<c, o, h>> \in Calls
  /\ op' = [op EXCEPT ![c] = o]
  /\ file' = [file EXCEPT ![c] = h]
  /\ pc' = [pc EXCEPT ![c] = l]
  /\ clean' = IF o = "load" /\ stored[h] # "full" THEN clean ELSE clean \cup {c}
  /\ UNCHANGED <<atomic, stored, cached, download, retryVars, loadVars, semaVars, saved, unhealed>>

\* Backend.Load waits for a download that is in progress.
Load(c, h) ==
  /\ StartCall(c, "load", h, "try")
  /\ waitFor' = [waitFor EXCEPT ![c] = InProgress(h)]
  /\ UNCHANGED call

\* Backend.Save, Backend.Remove and Backend.Stat begin in the backend.
Save(c, h) ==
  /\ stored[h] = "none"
  /\ \A d \in Client : ~(op[d] = "save" /\ file[d] = h)
  /\ StartCall(c, "save", h, "save")
  /\ CallTo(c, "token")
  /\ UNCHANGED waitFor

Remove(c, h) == StartCall(c, "remove", h, "remove") /\ CallTo(c, "token") /\ UNCHANGED waitFor
Stat(c, h) == StartCall(c, "stat", h, "stat") /\ CallTo(c, "token") /\ UNCHANGED waitFor

\* The consumer of LoadUnpacked finds a wrong hash; the second time it cancels its context.
WrongHash(c) ==
  /\ bad' = [bad EXCEPT ![c] = @ + 1]
  /\ cancelled' = IF bad[c] = 1 THEN cancelled \cup {c} ELSE cancelled
  /\ buf' = [buf EXCEPT ![c] = "none"]

\* The file is in the cache.
LoadFromCache(c) ==
  /\ pc[c] \in {"try", "again"}
  /\ waitFor[c] = None
  /\ cached[file[c]] = "full"
  /\ Return(c, "ok")
  /\ UNCHANGED <<cacheVars, saved>>

\* Cache.remove, if its error is ignored.
CacheRemove(h) == {[cached EXCEPT ![h] = "none"]} \cup (IF "cache" \in Faults THEN {cached} ELSE {})

\* Mutant of DropFromCache: the damaged file stays in the cache.
KeepInCache(c) ==
  /\ pc[c] = "try"
  /\ waitFor[c] = None
  /\ cached[file[c]] = "part"
  /\ WrongHash(c)
  /\ Goto(c, "join")
  /\ UNCHANGED <<atomic, stored, cacheVars, call, retryVars, semaVars, historyVars>>

\* The file in the cache is damaged: it is dropped, if that is possible.
DropFromCache(c) ==
  /\ pc[c] = "try"
  /\ waitFor[c] = None
  /\ cached[file[c]] = "part"
  /\ WrongHash(c)
  /\ cached' \in CacheRemove(file[c])
  /\ IF cached' = cached THEN Spoil(c) ELSE UNCHANGED historyVars
  /\ Goto(c, "join")
  /\ UNCHANGED <<atomic, stored, download, waitFor, call, retryVars, semaVars>>

\* The file is not in the cache.
NotInCache(c) ==
  /\ pc[c] = "try"
  /\ waitFor[c] = None
  /\ cached[file[c]] = "none"
  /\ \/ file[c] \in AutoCached /\ Goto(c, "join") /\ UNCHANGED call
     \/ file[c] \notin AutoCached /\ CallBackend(c, "direct")
  /\ UNCHANGED <<atomic, stored, cacheVars, retryVars, loadVars, semaVars, historyVars>>

\* cacheFile: somebody else is downloading the file, or the client begins to.
JoinDownload(c) ==
  /\ pc[c] = "join"
  /\ \/ /\ download[file[c]].by # None
        /\ waitFor' = [waitFor EXCEPT ![c] = InProgress(file[c])]
        /\ Goto(c, "again")
        /\ UNCHANGED download
     \/ /\ download[file[c]].by = None
        /\ download' = [download EXCEPT ![file[c]] = [by |-> c, done |-> FALSE]]
        /\ Goto(c, "has")
        /\ UNCHANGED waitFor
  /\ UNCHANGED <<atomic, stored, cached, call, retryVars, loadVars, semaVars, historyVars>>

\* It looks again whether the file is in the cache.
TestAgain(c) ==
  /\ pc[c] = "has"
  /\ \/ /\ cached[file[c]] # "none"
        /\ Goto(c, "close") /\ CallTo(c, "ok")
     \/ /\ cached[file[c]] = "none"
        /\ CallBackend(c, "fetch")
  /\ UNCHANGED <<atomic, stored, cacheVars, retryVars, loadVars, semaVars, historyVars>>

\* The download has ended.
Fetched(c) ==
  /\ pc[c] = "fetch"
  /\ \/ call[c] = "ok" /\ UNCHANGED cached
     \/ call[c] \in {"error", "notexist"} /\ cached' \in CacheRemove(file[c])
  /\ Goto(c, "close")
  /\ tries' = [tries EXCEPT ![c] = 0]
  /\ UNCHANGED <<atomic, stored, download, waitFor, call, cleaning, loadVars, semaVars, historyVars>>

\* Mutant of CloseDownload: the channel is not closed after an error.
CloseGoodDownload(c) ==
  /\ pc[c] = "close"
  /\ download' = [download EXCEPT ![file[c]].done = TRUE]
  /\ waitFor' = [d \in Client |-> IF waitFor[d] = c /\ call[c] = "ok" THEN None ELSE waitFor[d]]
  /\ Goto(c, "leave")
  /\ UNCHANGED <<atomic, stored, cached, call, retryVars, loadVars, semaVars, historyVars>>

\* Those who wait for the download go on.
CloseDownload(c) ==
  /\ pc[c] = "close"
  /\ download' = [download EXCEPT ![file[c]].done = TRUE]
  /\ waitFor' = [d \in Client |-> IF waitFor[d] = c THEN None ELSE waitFor[d]]
  /\ Goto(c, "leave")
  /\ UNCHANGED <<atomic, stored, cached, call, retryVars, loadVars, semaVars, historyVars>>

\* The download is taken off the map, and cacheFile returns.
LeaveDownload(c) ==
  /\ pc[c] = "leave"
  /\ download' = [download EXCEPT ![file[c]] = [by |-> None, done |-> FALSE]]
  /\ \/ call[c] = "ok" /\ Goto(c, "again") /\ CallTo(c, "none")
        /\ UNCHANGED <<atomic, stored, retryVars, loadVars, semaVars, clean, unhealed>>
     \/ call[c] # "ok" /\ Return(c, "error")
  /\ UNCHANGED <<cached, waitFor, saved>>

\* After the download the file in the cache is damaged, or still not there.
LoadAgain(c) ==
  /\ pc[c] = "again"
  /\ waitFor[c] = None
  /\ \/ cached[file[c]] = "part" /\ Return(c, "error")
     \/ cached[file[c]] = "none" /\ CallBackend(c, "direct")
        /\ UNCHANGED <<atomic, stored, retryVars, loadVars, semaVars, clean, unhealed>>
  /\ UNCHANGED <<cacheVars, saved>>

\* What the backend has answered is returned.
ReturnAnswer(c) ==
  /\ pc[c] = "direct" \/ (pc[c] = "save" /\ (file[c] \notin AutoCached \/ call[c] # "ok"))
  /\ call[c] \in {"ok", "error", "notexist"}
  /\ saved' = IF pc[c] = "save" /\ call[c] = "ok" /\ c \in clean THEN saved \cup {file[c]} ELSE saved
  /\ Return(c, IF call[c] = "ok" THEN "ok" ELSE "error")
  /\ UNCHANGED cacheVars

\* Save stores the file in the cache as well, or drops it if that fails.
SaveToCache(c) ==
  /\ pc[c] = "save"
  /\ call[c] = "ok" /\ file[c] \in AutoCached
  /\ \/ /\ cached' = [cached EXCEPT ![file[c]] = "full"]
        /\ saved' = IF c \in clean THEN saved \cup {file[c]} ELSE saved
        /\ Return(c, "ok")
     \/ /\ "cache" \in Faults
        /\ cached' \in CacheRemove(file[c])
        /\ Return(c, "error")
        /\ UNCHANGED saved
  /\ UNCHANGED <<download, waitFor>>

\* Remove and Stat drop the file from the cache when it is not in the storage.
ForgetFile(c) ==
  /\ \/ pc[c] = "remove" /\ call[c] = "ok"
     \/ pc[c] = "stat" /\ call[c] = "notexist"
  /\ \/ cached' = [cached EXCEPT ![file[c]] = "none"] /\ Return(c, IF pc[c] = "remove" THEN "ok" ELSE "error")
     \/ "cache" \in Faults /\ UNCHANGED cached /\ Return(c, "error")
  /\ UNCHANGED <<download, waitFor, saved>>

\* Remove and Stat leave the cache alone otherwise.
LeaveCache(c) ==
  /\ \/ pc[c] = "remove" /\ call[c] = "error"
     \/ pc[c] = "stat" /\ call[c] \in {"ok", "error"}
  /\ Return(c, call[c])
  /\ UNCHANGED <<cacheVars, saved>>

-----------------------------------------------------------------------------
(* backend/retry and backend/sema *)

\* The tokens when client c takes one, and when it gives it back.
TakeToken(c) == tokens' = tokens + (IF file[c] \in LockFile THEN 0 ELSE 1) /\ UNCHANGED frozen
GiveToken(c) == tokens' = tokens - (IF file[c] \in LockFile THEN 0 ELSE 1) /\ UNCHANGED frozen

\* typeDependentLimit: GetToken.
GetToken(c) ==
  /\ call[c] = "token"
  /\ file[c] \in LockFile \/ tokens < Connections
  /\ TakeToken(c)
  /\ CallTo(c, "thaw")
  /\ UNCHANGED <<atomic, stored, cacheVars, clientVars, retryVars, loadVars, historyVars>>

\* typeDependentLimit waits until the backend is not frozen; then the context is tested.
WaitThaw(c) ==
  /\ call[c] = "thaw"
  /\ file[c] \in LockFile \/ ~frozen
  /\ \/ c \notin cancelled /\ CallTo(c, "raw") /\ UNCHANGED <<cleaning, tokens, frozen>>
     \/ c \in cancelled /\ CallTo(c, "backoff") /\ cleaning' = cleaning \ {c} /\ GiveToken(c)
  /\ UNCHANGED <<atomic, stored, cacheVars, clientVars, tries, loadVars, historyVars>>

\* The operation is tried again, after some time.
TryAgain(c) ==
  /\ call[c] = "backoff"
  /\ tries[c] < MaxTries /\ c \notin cancelled
  /\ tries' = [tries EXCEPT ![c] = @ + 1]
  /\ CallTo(c, "token")
  /\ UNCHANGED <<atomic, stored, cacheVars, clientVars, cleaning, loadVars, semaVars, historyVars>>

GiveUp(c) ==
  /\ call[c] = "backoff"
  /\ tries[c] = MaxTries \/ c \in cancelled
  /\ CallTo(c, "error")
  /\ UNCHANGED <<atomic, stored, cacheVars, clientVars, retryVars, loadVars, semaVars, historyVars>>

-----------------------------------------------------------------------------
(* The storage *)

InStorage(c, o, l) == call[c] = l /\ op[c] = o /\ c \notin cleaning

\* A file that does not exist: for loads and stats the error is permanent.
NotFound(c) ==
  /\ InStorage(c, "load", "raw") \/ InStorage(c, "stat", "raw")
  /\ stored[file[c]] = "none"
  /\ GiveToken(c)
  /\ CallTo(c, "notexist")
  /\ UNCHANGED <<atomic, stored, cacheVars, clientVars, retryVars, loadVars, historyVars>>

FoundByStat(c) ==
  /\ InStorage(c, "stat", "raw")
  /\ stored[file[c]] # "none"
  /\ GiveToken(c)
  /\ CallTo(c, "ok")
  /\ UNCHANGED <<atomic, stored, cacheVars, clientVars, retryVars, loadVars, historyVars>>

OpenReader(c) ==
  /\ InStorage(c, "load", "raw")
  /\ stored[file[c]] # "none"
  /\ buf' = [buf EXCEPT ![c] = stored[file[c]]]
  /\ CallTo(c, "consume")
  /\ UNCHANGED <<atomic, stored, cacheVars, clientVars, retryVars, bad, cancelled, semaVars, historyVars>>

\* Reading fails, or Stat does.
ReadFails(c) ==
  /\ "load" \in Faults
  /\ InStorage(c, "load", "raw") \/ InStorage(c, "load", "consume") \/ InStorage(c, "stat", "raw")
  /\ buf' = [buf EXCEPT ![c] = "none"]
  /\ GiveToken(c)
  /\ CallTo(c, "backoff")
  /\ Spoil(c)
  /\ UNCHANGED <<atomic, stored, cacheVars, clientVars, retryVars, bad, cancelled>>

\* Mutant of FillCache: the file is not written under another name first.
FillCacheInPlace(c) ==
  /\ InStorage(c, "load", "consume")
  /\ pc[c] = "fetch"
  /\ \/ /\ cached' = [cached EXCEPT ![file[c]] = buf[c]]
        /\ CallTo(c, "ok")
        /\ UNCHANGED historyVars
     \/ /\ "cache" \in Faults
        /\ cached' = [cached EXCEPT ![file[c]] = "part"]
        /\ CallTo(c, "backoff")
        /\ Spoil(c)
  /\ buf' = [buf EXCEPT ![c] = "none"]
  /\ GiveToken(c)
  /\ UNCHANGED <<atomic, stored, download, waitFor, clientVars, retryVars, bad, cancelled>>

\* The consumer of a download writes the file to the cache: all of it, or nothing.
FillCache(c) ==
  /\ InStorage(c, "load", "consume")
  /\ pc[c] = "fetch"
  /\ \/ /\ cached' = [cached EXCEPT ![file[c]] = buf[c]]
        /\ CallTo(c, "ok")
        /\ UNCHANGED historyVars
     \/ /\ "cache" \in Faults
        /\ CallTo(c, "backoff")
        /\ Spoil(c)
        /\ UNCHANGED cached
  /\ buf' = [buf EXCEPT ![c] = "none"]
  /\ GiveToken(c)
  /\ UNCHANGED <<atomic, stored, download, waitFor, clientVars, retryVars, bad, cancelled>>

\* The consumer of LoadUnpacked reads the file.
ReadFile(c) ==
  /\ InStorage(c, "load", "consume")
  /\ pc[c] = "direct"
  /\ \/ buf[c] = "full" /\ CallTo(c, "ok") /\ buf' = [buf EXCEPT ![c] = "none"] /\ UNCHANGED <<bad, cancelled>>
     \/ buf[c] = "part" /\ CallTo(c, "backoff") /\ WrongHash(c)
  /\ GiveToken(c)
  /\ UNCHANGED <<atomic, stored, cacheVars, clientVars, retryVars, historyVars>>

\* A storage that replaces files atomically stores the file.
ReplaceFile(c) ==
  /\ InStorage(c, "save", "raw") /\ atomic
  /\ stored' = [stored EXCEPT ![file[c]] = "full"]
  /\ GiveToken(c)
  /\ CallTo(c, "ok")
  /\ UNCHANGED <<atomic, cacheVars, clientVars, retryVars, loadVars, historyVars>>

\* It fails to; the file may be stored nevertheless.  Some errors are permanent.
ReplaceFails(c) ==
  /\ "save" \in Faults
  /\ InStorage(c, "save", "raw") /\ atomic
  /\ stored' \in {stored, [stored EXCEPT ![file[c]] = "full"]}
  /\ GiveToken(c)
  /\ CallTo(c, "backoff") \/ CallTo(c, "error")
  /\ UNCHANGED <<atomic, cacheVars, clientVars, retryVars, loadVars, historyVars>>

\* Another storage begins to create the file, which others may see.
CreateFile(c) ==
  /\ InStorage(c, "save", "raw") /\ ~atomic
  /\ stored[file[c]] = "none"
  /\ stored' = [stored EXCEPT ![file[c]] = "part"]
  /\ CallTo(c, "upload")
  /\ UNCHANGED <<atomic, cacheVars, clientVars, retryVars, loadVars, semaVars, historyVars>>

FinishFile(c) ==
  /\ InStorage(c, "save", "upload")
  /\ stored' = [stored EXCEPT ![file[c]] = "full"]
  /\ GiveToken(c)
  /\ CallTo(c, "ok")
  /\ UNCHANGED <<atomic, cacheVars, clientVars, retryVars, loadVars, historyVars>>

\* It cannot create the file, or not complete it: what is there is removed.
CreateFails(c) ==
  /\ \/ InStorage(c, "save", "raw") /\ ~atomic /\ (stored[file[c]] # "none" \/ "save" \in Faults) /\ UNCHANGED stored
     \/ InStorage(c, "save", "upload") /\ "save" \in Faults /\ stored' \in {stored, [stored EXCEPT ![file[c]] = "full"]}
  /\ cleaning' = cleaning \cup {c}
  /\ GiveToken(c)
  /\ CallTo(c, "token")
  /\ UNCHANGED <<atomic, cacheVars, clientVars, tries, loadVars, historyVars>>

\* The file that a failed Save has left is removed, unless that fails; then comes the next try.
CleanUp(c) ==
  /\ c \in cleaning /\ call[c] = "raw"
  /\ \/ stored' = [stored EXCEPT ![file[c]] = "none"]
     \/ "remove" \in Faults /\ UNCHANGED stored
  /\ cleaning' = cleaning \ {c}
  /\ GiveToken(c)
  /\ CallTo(c, "backoff")
  /\ clean' = {d \in clean : d = c \/ file[d] # file[c]}
  /\ UNCHANGED <<atomic, cacheVars, clientVars, tries, loadVars, saved, unhealed>>

DeleteFile(c) ==
  /\ InStorage(c, "remove", "raw")
  /\ stored[file[c]] # "none"
  /\ stored' = [stored EXCEPT ![file[c]] = "none"]
  /\ GiveToken(c)
  /\ CallTo(c, "ok")
  /\ Gone(file[c])
  /\ UNCHANGED <<atomic, cacheVars, clientVars, retryVars, loadVars>>

\* There is no file to remove, or removing it fails, perhaps after it is gone.
DeleteFails(c) ==
  /\ InStorage(c, "remove", "raw")
  /\ \/ stored[file[c]] = "none" /\ UNCHANGED <<stored, historyVars>>
     \/ "remove" \in Faults /\ UNCHANGED <<stored, historyVars>>
     \/ "remove" \in Faults /\ stored' = [stored EXCEPT ![file[c]] = "none"] /\ Gone(file[c])
  /\ GiveToken(c)
  /\ CallTo(c, "backoff")
  /\ UNCHANGED <<atomic, cacheVars, clientVars, retryVars, loadVars>>

-----------------------------------------------------------------------------
(* Others *)

\* Another program removes a file that is not a lock.
OtherRemoves(h) ==
  /\ "other" \in Faults
  /\ h \notin LockFile
  /\ stored[h] = "full"
  /\ stored' = [stored EXCEPT ![h] = "none"]
  /\ Gone(h)
  /\ UNCHANGED <<atomic, cacheVars, clientVars, call, retryVars, loadVars, semaVars>>

Cancel(c) ==
  /\ c \in Cancellable
  /\ pc[c] # "idle" /\ c \notin cancelled
  /\ cancelled' = cancelled \cup {c}
  /\ Spoil(c)
  /\ UNCHANGED <<atomic, stored, cacheVars, clientVars, call, retryVars, buf, bad, semaVars>>

Freeze ==
  /\ ~frozen
  /\ frozen' = TRUE
  /\ UNCHANGED <<atomic, stored, cacheVars, clientVars, call, retryVars, loadVars, tokens, historyVars>>

Unfreeze ==
  /\ frozen
  /\ frozen' = FALSE
  /\ UNCHANGED <<atomic, stored, cacheVars, clientVars, call, retryVars, loadVars, tokens, historyVars>>

CacheStep(c) ==
  \/ LoadFromCache(c) \/ DropFromCache(c) \/ NotInCache(c) \/ JoinDownload(c) \/ TestAgain(c)
  \/ Fetched(c) \/ CloseDownload(c) \/ LeaveDownload(c) \/ LoadAgain(c) \/ ReturnAnswer(c)
  \/ SaveToCache(c) \/ ForgetFile(c) \/ LeaveCache(c)

StorageStep(c) ==
  \/ GetToken(c) \/ WaitThaw(c) \/ TryAgain(c) \/ GiveUp(c)
  \/ NotFound(c) \/ FoundByStat(c) \/ OpenReader(c) \/ ReadFails(c) \/ FillCache(c) \/ ReadFile(c)
  \/ ReplaceFile(c) \/ ReplaceFails(c) \/ CreateFile(c) \/ FinishFile(c) \/ CreateFails(c) \/ CleanUp(c)
  \/ DeleteFile(c) \/ DeleteFails(c)

Step(c) == CacheStep(c) \/ StorageStep(c)

Next ==
  \/ \E c \in Client, h \in Handle : Load(c, h) \/ Save(c, h) \/ Remove(c, h) \/ Stat(c, h)
  \/ \E c \in Client : Step(c) \/ Cancel(c)
  \/ \E h \in Handle : OtherRemoves(h)
  \/ Freeze \/ Unfreeze

Spec == Init /\ [][Next]_vars

\* Goroutines run; one that waits for a token, or for the end of a freeze, gets on when there
\* is one again and again.
Fairness == \A c \in Client : SF_vars(Step(c))
FairSpec == Spec /\ Fairness

-----------------------------------------------------------------------------
(* Properties *)

\* A file that Save has stored stays complete until somebody removes it: neither a retry nor
\* the removal of a partial upload destroys it.
SavedStays == \A h \in saved : stored[h] = "full"

\* LoadUnpacked gets the file when it is in the storage and nothing goes wrong there, however
\* damaged the copy in the cache is and whoever else downloads the file.
LoadHeals == ~unhealed

\* No step writes an incomplete file to the cache, unless the storage shows incomplete files.
NoBadCopy == [][\A h \in Handle : atomic /\ cached'[h] = "part" => cached[h] = "part"]_vars

\* Every call returns: waiters for a download of somebody else go on whatever becomes of it,
\* and tokens come back.  Only a freeze may stop a call, and not if it is on a lock file.
CallsReturn ==
  \A c \in Client : (pc[c] # "idle") ~> (pc[c] = "idle" \/ (frozen /\ file[c] \notin LockFile))

\* The layers together keep files: what Save has returned nil for stays until it is removed, and
\* a damaged file in the cache does not make LoadUnpacked fail.
StackSafe == TypeOK /\ SavedStays /\ LoadHeals
=============================================================================
