---------------------------- MODULE BackendProofs ----------------------------
(***************************************************************************)
(* Proofs about the backends: that the cache, the retries and the limit on *)
(* connections together keep what is saved and find what is stored, for    *)
(* any clients, files and faults; what Save of the local backend promises  *)
(* whatever fails and whenever the system crashes; what the retried List   *)
(* of backend/retry promises for any set of files, any number of retries,  *)
(* and whatever other processes do meanwhile; and that the migration of a  *)
(* bucket to the default layout loses no file.                             *)
(***************************************************************************)
EXTENDS BackendStack, LocalBackend, RetryList, Layouts, TLAPS

-----------------------------------------------------------------------------
(* The layers above the storage: the invariant *)

\* Where a client is tells what it has called and what it has heard from the layers below.
Loading == {"try", "join", "has", "fetch", "close", "leave", "again", "direct"}

At(c) ==
  /\ op[c] = IF pc[c] = "idle" THEN "none" ELSE IF pc[c] \in Loading THEN "load" ELSE pc[c]
  /\ pc[c] # "idle" => file[c] \in Handle
  /\ pc[c] \in {"idle", "try", "join", "has", "again"} <=> call[c] = "none"
  /\ pc[c] \in {"close", "leave"} => call[c] \in {"ok", "error", "notexist"}
  /\ call[c] = "upload" => pc[c] = "save" /\ ~atomic
  /\ call[c] = "consume" => pc[c] \in {"fetch", "direct"}
  /\ c \in cleaning => pc[c] = "save" /\ call[c] \in {"token", "thaw", "raw"}
  /\ pc[c] = "idle" => c \notin cancelled \cup clean
  /\ pc[c] \in {"idle", "try"} => bad[c] = 0
  /\ bad[c] = 2 => call[c] \in {"backoff", "error"} /\ c \in cancelled

\* One client at a time saves a file, and nobody saves one that is there; what it has stored
\* stays until somebody removes it.
Saving ==
  /\ SavedStays
  /\ \A c \in Client : op[c] = "save" =>
       /\ file[c] \notin saved
       /\ call[c] = "ok" /\ c \in clean => stored[file[c]] = "full"
       /\ \A d \in Client : op[d] = "save" /\ file[d] = file[c] => d = c

\* A storage that replaces files atomically shows no incomplete file.
Whole ==
  atomic => /\ \A h \in Handle : stored[h] # "part"
            /\ \A c \in Client : buf[c] # "part"

\* A client that can load its file is not told otherwise, and has got rid of a damaged copy in
\* the cache once it has tried it.
Healing ==
  /\ LoadHeals
  /\ atomic => \A c \in clean : op[c] = "load" =>
       /\ stored[file[c]] = "full"
       /\ c \notin cancelled
       /\ call[c] \notin {"backoff", "error", "notexist"}
       /\ pc[c] = "try" \/ cached[file[c]] # "part"

\* The clients that have a token.
Holder == {c \in Client : call[c] \in {"thaw", "raw", "upload", "consume"} /\ file[c] \notin LockFile}

\* The elements of S can be numbered from 1 to n.
Counts(n, S) ==
  \E f \in [1 .. n -> S] :
    /\ \A i, j \in 1 .. n : f[i] = f[j] => i = j
    /\ \A c \in S : \E i \in 1 .. n : f[i] = c

TokensCounted == tokens <= Connections /\ Counts(tokens, Holder)

\* The inductive invariant of the layers.
StackInv == TypeOK /\ (\A c \in Client : At(c)) /\ Saving /\ Whole /\ Healing /\ TokensCounted

-----------------------------------------------------------------------------
(* The layers above the storage: calls and tokens *)

\* One element more, and one less.
LEMMA CountsMore ==
  ASSUME NEW n \in Nat, NEW S, NEW c, c \notin S, Counts(n, S) PROVE Counts(n + 1, S \cup {c})
<1>1. PICK f \in [1 .. n -> S] :
        /\ \A i, j \in 1 .. n : f[i] = f[j] => i = j
        /\ \A d \in S : \E i \in 1 .. n : f[i] = d
  BY DEF Counts
<1> DEFINE g == [i \in 1 .. n + 1 |-> IF i \in 1 .. n THEN f[i] ELSE c]
<1>2. g \in [1 .. n + 1 -> S \cup {c}]
  BY <1>1
<1>3. \A i, j \in 1 .. n + 1 : g[i] = g[j] => i = j
  BY <1>1
<1>4. \A d \in S \cup {c} : \E i \in 1 .. n + 1 : g[i] = d
  <2>1. n + 1 \in 1 .. n + 1 /\ g[n + 1] = c
    OBVIOUS
  <2>2. \A i \in 1 .. n : i \in 1 .. n + 1 /\ g[i] = f[i]
    OBVIOUS
  <2> HIDE DEF g
  <2> QED
    BY <1>1, <2>1, <2>2
<1> HIDE DEF g
<1> QED
  BY <1>2, <1>3, <1>4, ZenonT(30) DEF Counts

LEMMA CountsLess ==
  ASSUME NEW n \in Nat, NEW S, NEW c \in S, Counts(n, S) PROVE n > 0 /\ Counts(n - 1, S \ {c})
<1>1. PICK f \in [1 .. n -> S] :
        /\ \A i, j \in 1 .. n : f[i] = f[j] => i = j
        /\ \A d \in S : \E i \in 1 .. n : f[i] = d
  BY DEF Counts
<1>2. PICK k \in 1 .. n : f[k] = c
  BY <1>1
<1> DEFINE g == [i \in 1 .. n - 1 |-> IF i = k THEN f[n] ELSE f[i]]
<1>3. n > 0 /\ n \in 1 .. n /\ \A i \in 1 .. n - 1 : i \in 1 .. n /\ i # n
  BY <1>2
<1>4. g \in [1 .. n - 1 -> S \ {c}]
  BY <1>1, <1>2, <1>3
<1>5. \A i, j \in 1 .. n - 1 : g[i] = g[j] => i = j
  BY <1>1, <1>2, <1>3
<1>6. \A d \in S \ {c} : \E i \in 1 .. n - 1 : g[i] = d
  <2>1. ASSUME NEW d \in S \ {c} PROVE \E i \in 1 .. n - 1 : g[i] = d
    <3>1. PICK i \in 1 .. n : f[i] = d
      BY <1>1, <2>1
    <3>2. CASE i = n
      <4>1. k \in 1 .. n - 1 /\ g[k] = d
        BY <1>2, <2>1, <3>1, <3>2
      <4> QED
        BY <4>1
    <3>3. CASE i # n
      <4>1. i \in 1 .. n - 1 /\ g[i] = d
        BY <1>2, <2>1, <3>1, <3>3
      <4> QED
        BY <4>1
    <3> QED
      BY <3>2, <3>3
  <2> QED
    BY <2>1
<1> HIDE DEF g
<1> QED
  BY <1>3, <1>4, <1>5, <1>6, ZenonT(30) DEF Counts

\* What the invariant says of the types and the calls, and of the files.
LEMMA InvTypes == StackInv => TypeOK /\ \A c \in Client : At(c)
BY DEF StackInv

LEMMA InvFiles == StackInv => Saving /\ Whole /\ Healing
BY DEF StackInv

\* Client c takes a token, or gives one back, or nothing happens to the tokens.
TokenMove(c) ==
  \/ Holder' = Holder /\ tokens' = tokens
  \/ c \notin Holder /\ Holder' = Holder \cup {c} /\ tokens < Connections /\ tokens' = tokens + 1
  \/ c \in Holder /\ Holder' = Holder \ {c} /\ tokens' = tokens - 1

\* What a step, of client c or of others, does to the calls and the tokens.
PlacesKept(c) == (\A d \in Client : At(d)') /\ TokenMove(c)

LEMMA KeepPlaces ==
  ASSUME NEW c, \A d \in Client : At(d)', TokenMove(c) PROVE PlacesKept(c)
BY DEF PlacesKept

USE StackAssumption, InvTypes, KeepPlaces
DEF TypeOK, Place, Stage, At, Loading, cacheVars, clientVars, retryVars, loadVars, semaVars,
    historyVars, Goto, CallTo, CallBackend, Return, Spoil, Gone, WrongHash, TakeToken,
    GiveToken, InStorage, StartCall, Holder, TokenMove

LEMMA SavePlaces ==
  ASSUME StackInv, NEW c \in Client, NEW h \in Handle, Save(c, h)
  PROVE  PlacesKept(c)
BY DEF Save

LEMMA RemoveStatPlaces ==
  ASSUME StackInv, NEW c \in Client, NEW h \in Handle, Remove(c, h) \/ Stat(c, h)
  PROVE  PlacesKept(c)
BY DEF Remove, Stat

LEMMA LoadPlaces ==
  ASSUME StackInv, NEW c \in Client, NEW h \in Handle, Load(c, h)
  PROVE  PlacesKept(c)
BY DEF Load

LEMMA DropPlaces ==
  ASSUME StackInv, NEW c \in Client, DropFromCache(c) \/ NotInCache(c) \/ TestAgain(c) \/ Fetched(c)
  PROVE  PlacesKept(c)
BY DEF DropFromCache, NotInCache, TestAgain, Fetched

LEMMA JoinDownloadPlaces == ASSUME StackInv, NEW c \in Client, JoinDownload(c) PROVE PlacesKept(c)
BY DEF JoinDownload

LEMMA CloseDownloadPlaces ==
  ASSUME StackInv, NEW c \in Client, CloseDownload(c)
  PROVE  PlacesKept(c)
BY DEF CloseDownload

LEMMA LeaveDownloadPlaces ==
  ASSUME StackInv, NEW c \in Client, LeaveDownload(c)
  PROVE  PlacesKept(c)
BY DEF LeaveDownload

LEMMA ReturnPlaces ==
  ASSUME StackInv, NEW c \in Client, LoadFromCache(c) \/ ReturnAnswer(c) \/ LeaveCache(c)
  PROVE  PlacesKept(c)
BY DEF LoadFromCache, ReturnAnswer, LeaveCache

LEMMA LoadAgainPlaces == ASSUME StackInv, NEW c \in Client, LoadAgain(c) PROVE PlacesKept(c)
BY SMTT(30) DEF LoadAgain

LEMMA ForgetPlaces ==
  ASSUME StackInv, NEW c \in Client, SaveToCache(c) \/ ForgetFile(c)
  PROVE  PlacesKept(c)
BY DEF SaveToCache, ForgetFile

LEMMA RetryPlaces ==
  ASSUME StackInv, NEW c \in Client, GetToken(c) \/ WaitThaw(c) \/ TryAgain(c) \/ GiveUp(c)
  PROVE  PlacesKept(c)
BY DEF GetToken, WaitThaw, TryAgain, GiveUp

LEMMA ReadPlaces ==
  ASSUME StackInv, NEW c \in Client, NotFound(c) \/ FoundByStat(c) \/ OpenReader(c) \/ ReadFails(c)
  PROVE  PlacesKept(c)
BY DEF NotFound, FoundByStat, OpenReader, ReadFails

LEMMA ConsumePlaces ==
  ASSUME StackInv, NEW c \in Client, FillCache(c) \/ ReadFile(c)
  PROVE  PlacesKept(c)
BY DEF FillCache, ReadFile

LEMMA ReplacePlaces ==
  ASSUME StackInv, NEW c \in Client, ReplaceFile(c) \/ ReplaceFails(c)
  PROVE  PlacesKept(c)
BY DEF ReplaceFile, ReplaceFails

LEMMA CreatePlaces ==
  ASSUME StackInv, NEW c \in Client, CreateFile(c) \/ FinishFile(c) \/ CreateFails(c) \/ CleanUp(c)
  PROVE  PlacesKept(c)
BY DEF CreateFile, FinishFile, CreateFails, CleanUp

LEMMA DeletePlaces ==
  ASSUME StackInv, NEW c \in Client, DeleteFile(c) \/ DeleteFails(c)
  PROVE  PlacesKept(c)
BY DEF DeleteFile, DeleteFails

LEMMA CancelPlaces == ASSUME StackInv, NEW c \in Client, Cancel(c) PROVE PlacesKept(c)
BY DEF Cancel

LEMMA OtherRemovesPlaces ==
  ASSUME StackInv, NEW h \in Handle, OtherRemoves(h)
  PROVE  PlacesKept(None)
BY DEF OtherRemoves

LEMMA UnfreezePlaces == ASSUME StackInv, Freeze \/ Unfreeze PROVE PlacesKept(None)
BY DEF Freeze, Unfreeze

HIDE KeepPlaces
HIDE InvTypes
HIDE DEF TypeOK, Place, Stage, At, Loading, cacheVars, clientVars, retryVars, loadVars, semaVars,
         historyVars, Goto, CallTo, CallBackend, Return, Spoil, Gone, WrongHash, TakeToken,
         GiveToken, InStorage, StartCall, Holder, TokenMove

-----------------------------------------------------------------------------
(* The layers above the storage: files *)

\* Over a storage that replaces files atomically no incomplete file is written to the cache.
NoPartWritten == \A h \in Handle : atomic /\ cached'[h] = "part" => cached[h] = "part"

\* What a step does to the files.
FilesKept == Saving' /\ Whole' /\ Healing' /\ NoPartWritten

LEMMA KeepFiles == Saving' /\ Whole' /\ Healing' /\ NoPartWritten => FilesKept
BY DEF FilesKept

USE InvTypes, InvFiles, KeepFiles DEF TypeOK, Content, At, Loading, cacheVars, clientVars,
                                      retryVars, loadVars, semaVars, historyVars, Goto, CallTo,
                                      CallBackend, Return, Spoil, Gone, WrongHash, TakeToken,
                                      GiveToken, InStorage, StartCall, CacheRemove, Saving,
                                      SavedStays, Whole, Healing, LoadHeals, NoPartWritten

LEMMA SaveFiles == ASSUME StackInv, NEW c \in Client, NEW h \in Handle, Save(c, h) PROVE FilesKept
BY DEF Save

LEMMA RemoveFiles ==
  ASSUME StackInv, NEW c \in Client, NEW h \in Handle, Remove(c, h)
  PROVE  FilesKept
BY DEF Remove

LEMMA StatFiles == ASSUME StackInv, NEW c \in Client, NEW h \in Handle, Stat(c, h) PROVE FilesKept
BY DEF Stat

LEMMA LoadFiles == ASSUME StackInv, NEW c \in Client, NEW h \in Handle, Load(c, h) PROVE FilesKept
BY SMTT(30) DEF Load

LEMMA DropFiles ==
  ASSUME StackInv, NEW c \in Client, DropFromCache(c) \/ NotInCache(c) \/ TestAgain(c) \/ Fetched(c)
  PROVE  FilesKept
BY DEF DropFromCache, NotInCache, TestAgain, Fetched

LEMMA JoinDownloadFiles == ASSUME StackInv, NEW c \in Client, JoinDownload(c) PROVE FilesKept
BY DEF JoinDownload

LEMMA CloseDownloadFiles == ASSUME StackInv, NEW c \in Client, CloseDownload(c) PROVE FilesKept
BY DEF CloseDownload

LEMMA LeaveDownloadFiles == ASSUME StackInv, NEW c \in Client, LeaveDownload(c) PROVE FilesKept
<1>1. CASE Return(c, "error")
  BY <1>1 DEF LeaveDownload
<1>2. CASE ~Return(c, "error")
  BY <1>2 DEF LeaveDownload
<1>3. QED BY <1>1, <1>2

LEMMA LoadAgainFiles == ASSUME StackInv, NEW c \in Client, LoadAgain(c) PROVE FilesKept
<1>1. CASE Return(c, "error")
  BY <1>1 DEF LoadAgain
<1>2. CASE ~Return(c, "error")
  BY <1>2 DEF LoadAgain
<1>3. QED BY <1>1, <1>2

LEMMA SaveToCacheFiles == ASSUME StackInv, NEW c \in Client, SaveToCache(c) PROVE FilesKept
<1>1. CASE Return(c, "ok")
  BY <1>1 DEF SaveToCache
<1>2. CASE Return(c, "error")
  BY <1>2, SMTT(30) DEF SaveToCache
<1>3. QED BY <1>1, <1>2 DEF SaveToCache

LEMMA ForgetFileFiles == ASSUME StackInv, NEW c \in Client, ForgetFile(c) PROVE FilesKept
<1>1. CASE Return(c, "ok")
  BY <1>1, SMTT(30) DEF ForgetFile
<1>2. CASE Return(c, "error")
  BY <1>2 DEF ForgetFile
<1>3. QED BY <1>1, <1>2, SMTT(30) DEF ForgetFile

LEMMA LoadFromCacheFiles == ASSUME StackInv, NEW c \in Client, LoadFromCache(c) PROVE FilesKept
BY DEF LoadFromCache

LEMMA ReturnAnswerFiles == ASSUME StackInv, NEW c \in Client, ReturnAnswer(c) PROVE FilesKept
BY DEF ReturnAnswer

LEMMA LeaveCacheFiles == ASSUME StackInv, NEW c \in Client, LeaveCache(c) PROVE FilesKept
BY SMTT(30) DEF LeaveCache

LEMMA RetryFiles ==
  ASSUME StackInv, NEW c \in Client, GetToken(c) \/ WaitThaw(c) \/ TryAgain(c) \/ GiveUp(c)
  PROVE  FilesKept
BY SMTT(30) DEF GetToken, WaitThaw, TryAgain, GiveUp

LEMMA ReadFiles ==
  ASSUME StackInv, NEW c \in Client, NotFound(c) \/ FoundByStat(c) \/ OpenReader(c) \/ ReadFails(c)
  PROVE  FilesKept
BY DEF NotFound, FoundByStat, OpenReader, ReadFails

LEMMA ConsumeFiles ==
  ASSUME StackInv, NEW c \in Client, FillCache(c) \/ ReadFile(c)
  PROVE  FilesKept
BY DEF FillCache, ReadFile

LEMMA ReplaceFiles ==
  ASSUME StackInv, NEW c \in Client, ReplaceFile(c) \/ ReplaceFails(c)
  PROVE  FilesKept
BY SMTT(30) DEF ReplaceFile, ReplaceFails

LEMMA CreateFiles ==
  ASSUME StackInv, NEW c \in Client, CreateFile(c) \/ FinishFile(c) \/ CreateFails(c) \/ CleanUp(c)
  PROVE  FilesKept
BY DEF CreateFile, FinishFile, CreateFails, CleanUp

LEMMA DeleteFiles ==
  ASSUME StackInv, NEW c \in Client, DeleteFile(c) \/ DeleteFails(c)
  PROVE  FilesKept
BY DEF DeleteFile, DeleteFails

LEMMA CancelFiles == ASSUME StackInv, NEW c \in Client, Cancel(c) PROVE FilesKept
BY DEF Cancel

LEMMA OtherRemovesFiles == ASSUME StackInv, NEW h \in Handle, OtherRemoves(h) PROVE FilesKept
BY DEF OtherRemoves

LEMMA UnfreezeFiles == ASSUME StackInv, Freeze \/ Unfreeze PROVE FilesKept
BY DEF Freeze, Unfreeze

HIDE KeepFiles
HIDE InvFiles
HIDE InvTypes
HIDE DEF TypeOK, Content, At, Loading, cacheVars, clientVars, retryVars, loadVars, semaVars,
         historyVars, Goto, CallTo, CallBackend, Return, Spoil, Gone, WrongHash, TakeToken,
         GiveToken, InStorage, StartCall, CacheRemove, Saving, SavedStays, Whole, Healing,
         LoadHeals, NoPartWritten

-----------------------------------------------------------------------------
(* The layers above the storage: types *)

\* A step keeps the types, if the number of tokens stays in its range.
TypesKept == tokens' \in 0 .. Connections => TypeOK'

\* Entering a download in inProgress and closing its channel keep the type of the map.
LEMMA DownloadTypes ==
  ASSUME NEW d \in [Handle -> Downloading], NEW h \in Handle, NEW x \in Client \cup {None}
  PROVE  /\ [d EXCEPT ![h].done = TRUE] \in [Handle -> Downloading]
         /\ [d EXCEPT ![h] = [by |-> x, done |-> FALSE]] \in [Handle -> Downloading]
<1>1. d[h] \in Downloading
  OBVIOUS
<1>2. [d[h] EXCEPT !.done = TRUE] \in Downloading
  BY <1>1, ZenonT(30) DEF Downloading
<1>3. [by |-> x, done |-> FALSE] \in Downloading
  BY DEF Downloading
<1>4. QED BY <1>1, <1>2, <1>3

\* A client waits for another client, or for none.
LEMMA InProgressType ==
  ASSUME TypeOK, NEW h \in Handle PROVE InProgress(h) \in Client \cup {None}
<1>1. download[h] \in Downloading
  BY DEF TypeOK
<1>2. QED BY <1>1 DEF InProgress, Downloading

USE DEF TypeOK, TypesKept, Content, Place, Stage, At, Loading, cacheVars, clientVars, retryVars,
        loadVars, semaVars, historyVars, Goto, CallTo, CallBackend, Return, Spoil, Gone,
        WrongHash, TakeToken, GiveToken, InStorage, StartCall

LEMMA SaveTypes ==
  ASSUME TypeOK, NEW c \in Client, NEW h \in Handle, At(c), Save(c, h)
  PROVE  TypesKept
BY DEF Save

LEMMA RemoveStatTypes ==
  ASSUME TypeOK, NEW c \in Client, NEW h \in Handle, At(c), Remove(c, h) \/ Stat(c, h)
  PROVE  TypesKept
BY DEF Remove, Stat

LEMMA LoadTypes ==
  ASSUME TypeOK, NEW c \in Client, NEW h \in Handle, At(c), Load(c, h)
  PROVE  TypesKept
<1>1. InProgress(h) \in Client \cup {None}
  BY InProgressType, SMTT(30)
<1>2. QED BY <1>1, SMTT(30) DEF Load

LEMMA DropTypes ==
  ASSUME TypeOK, NEW c \in Client, At(c), DropFromCache(c) \/ NotInCache(c) \/ TestAgain(c) \/ Fetched(c)
  PROVE  TypesKept
BY DEF DropFromCache, NotInCache, TestAgain, Fetched, CacheRemove

LEMMA JoinDownloadTypes == ASSUME TypeOK, NEW c \in Client, At(c), JoinDownload(c) PROVE TypesKept
<1>1. InProgress(file[c]) \in Client \cup {None}
  BY InProgressType DEF JoinDownload
<1>2. [download EXCEPT ![file[c]] = [by |-> c, done |-> FALSE]] \in [Handle -> Downloading]
  BY DownloadTypes, ZenonT(30) DEF JoinDownload
<1>3. CASE download[file[c]].by = None
  BY <1>2, <1>3, ZenonT(30) DEF JoinDownload
<1>4. CASE download[file[c]].by # None
  BY <1>1, <1>4 DEF JoinDownload
<1>5. QED BY <1>3, <1>4

LEMMA CloseDownloadTypes ==
  ASSUME TypeOK, NEW c \in Client, At(c), CloseDownload(c)
  PROVE  TypesKept
<1>1. download' \in [Handle -> Downloading]
  BY DownloadTypes, ZenonT(30) DEF CloseDownload
<1>2. QED BY <1>1 DEF CloseDownload

LEMMA LeaveDownloadTypes ==
  ASSUME TypeOK, NEW c \in Client, At(c), LeaveDownload(c)
  PROVE  TypesKept
<1>1. download' \in [Handle -> Downloading]
  BY DownloadTypes, ZenonT(30) DEF LeaveDownload
<1>2. CASE Return(c, "error")
  BY <1>1, <1>2, SMTT(30) DEF LeaveDownload
<1>3. CASE ~Return(c, "error")
  BY <1>1, <1>3, SMTT(30) DEF LeaveDownload
<1>4. QED BY <1>2, <1>3

LEMMA LoadFromCacheTypes == ASSUME TypeOK, NEW c \in Client, At(c), LoadFromCache(c) PROVE TypesKept
BY SMTT(30) DEF LoadFromCache

LEMMA ReturnAnswerTypes == ASSUME TypeOK, NEW c \in Client, At(c), ReturnAnswer(c) PROVE TypesKept
BY SMTT(30) DEF ReturnAnswer

LEMMA LeaveCacheTypes == ASSUME TypeOK, NEW c \in Client, At(c), LeaveCache(c) PROVE TypesKept
BY SMTT(30) DEF LeaveCache

LEMMA LoadAgainTypes == ASSUME TypeOK, NEW c \in Client, At(c), LoadAgain(c) PROVE TypesKept
BY SMTT(30) DEF LoadAgain

LEMMA SaveToCacheTypes == ASSUME TypeOK, NEW c \in Client, At(c), SaveToCache(c) PROVE TypesKept
BY SMTT(30) DEF SaveToCache, CacheRemove

LEMMA ForgetFileTypes == ASSUME TypeOK, NEW c \in Client, At(c), ForgetFile(c) PROVE TypesKept
BY SMTT(30) DEF ForgetFile

LEMMA RetryTypes ==
  ASSUME TypeOK, NEW c \in Client, At(c), GetToken(c) \/ WaitThaw(c) \/ TryAgain(c) \/ GiveUp(c)
  PROVE  TypesKept
BY SMTT(30) DEF GetToken, WaitThaw, TryAgain, GiveUp

LEMMA ReadTypes ==
  ASSUME TypeOK, NEW c \in Client, At(c), NotFound(c) \/ FoundByStat(c) \/ OpenReader(c) \/ ReadFails(c)
  PROVE  TypesKept
BY SMTT(30) DEF NotFound, FoundByStat, OpenReader, ReadFails

LEMMA ConsumeTypes ==
  ASSUME TypeOK, NEW c \in Client, At(c), FillCache(c) \/ ReadFile(c)
  PROVE  TypesKept
BY SMTT(30) DEF FillCache, ReadFile

LEMMA ReplaceTypes ==
  ASSUME TypeOK, NEW c \in Client, At(c), ReplaceFile(c) \/ ReplaceFails(c)
  PROVE  TypesKept
BY SMTT(30) DEF ReplaceFile, ReplaceFails

LEMMA CreateTypes ==
  ASSUME TypeOK, NEW c \in Client, At(c), CreateFile(c) \/ FinishFile(c) \/ CreateFails(c) \/ CleanUp(c)
  PROVE  TypesKept
BY SMTT(30) DEF CreateFile, FinishFile, CreateFails, CleanUp

LEMMA DeleteTypes ==
  ASSUME TypeOK, NEW c \in Client, At(c), DeleteFile(c) \/ DeleteFails(c)
  PROVE  TypesKept
BY SMTT(30) DEF DeleteFile, DeleteFails

LEMMA CancelTypes == ASSUME TypeOK, NEW c \in Client, At(c), Cancel(c) PROVE TypesKept
BY DEF Cancel

LEMMA OtherRemovesTypes == ASSUME TypeOK, NEW h \in Handle, OtherRemoves(h) PROVE TypesKept
BY DEF OtherRemoves

LEMMA UnfreezeTypes == ASSUME TypeOK, Freeze \/ Unfreeze PROVE TypesKept
BY ZenonT(30) DEF Freeze, Unfreeze

HIDE StackAssumption DEF TypeOK, TypesKept, Content, Place, Stage, At, Loading, cacheVars,
                         clientVars, retryVars, loadVars, semaVars, historyVars, Goto, CallTo,
                         CallBackend, Return, Spoil, Gone, WrongHash, TakeToken, GiveToken,
                         InStorage, StartCall

-----------------------------------------------------------------------------
(* The layers above the storage: theorems *)

\* Whoever takes a step, it keeps the invariant and the types.
LEMMA StackKeeps ==
  ASSUME StackInv, Next
  PROVE  TypesKept /\ FilesKept /\ \E c \in Client \cup {None} : PlacesKept(c)
<1>1. TypeOK /\ \A c \in Client : At(c)
  BY DEF StackInv
<1>2. TypesKept
  BY <1>1, SMTT(30), SaveTypes, RemoveStatTypes, LoadTypes, DropTypes, JoinDownloadTypes,
     CloseDownloadTypes, LeaveDownloadTypes, LoadFromCacheTypes, ReturnAnswerTypes,
     LeaveCacheTypes, LoadAgainTypes, SaveToCacheTypes, ForgetFileTypes, RetryTypes, ReadTypes,
     ConsumeTypes, ReplaceTypes, CreateTypes, DeleteTypes, CancelTypes, OtherRemovesTypes,
     UnfreezeTypes
  DEF Next, Step, CacheStep, StorageStep
<1>3. \E c \in Client \cup {None} : PlacesKept(c)
  BY SMTT(30), SavePlaces, RemoveStatPlaces, LoadPlaces, DropPlaces, JoinDownloadPlaces,
     CloseDownloadPlaces, LeaveDownloadPlaces, ReturnPlaces, LoadAgainPlaces, ForgetPlaces,
     RetryPlaces, ReadPlaces, ConsumePlaces, ReplacePlaces, CreatePlaces, DeletePlaces,
     CancelPlaces, OtherRemovesPlaces, UnfreezePlaces
  DEF Next, Step, CacheStep, StorageStep
<1>4. FilesKept
  BY SMTT(30), SaveFiles, RemoveFiles, StatFiles, LoadFiles, DropFiles, JoinDownloadFiles,
     CloseDownloadFiles, LeaveDownloadFiles, LoadAgainFiles, SaveToCacheFiles, ForgetFileFiles,
     LoadFromCacheFiles, ReturnAnswerFiles, LeaveCacheFiles, RetryFiles, ReadFiles, ConsumeFiles,
     ReplaceFiles, CreateFiles, DeleteFiles, CancelFiles, OtherRemovesFiles, UnfreezeFiles
  DEF Next, Step, CacheStep, StorageStep
<1>5. QED BY <1>2, <1>3, <1>4

\* The tokens that are taken are those of the calls in the storage, and never more than there are.
LEMMA TokensStep ==
  ASSUME StackInv, NEW c \in Client \cup {None}, TokenMove(c)
  PROVE  TokensCounted' /\ tokens' \in 0 .. Connections
<1>1. tokens \in Nat /\ Connections \in Nat /\ tokens <= Connections /\ Counts(tokens, Holder)
  BY StackAssumption DEF StackInv, TypeOK, TokensCounted
<1>2. TokensCounted' <=> tokens' <= Connections /\ Counts(tokens', Holder')
  BY DEF TokensCounted, Counts
<1>3. CASE Holder' = Holder /\ tokens' = tokens
  BY <1>1, <1>2, <1>3
<1>4. CASE c \notin Holder /\ Holder' = Holder \cup {c} /\ tokens < Connections /\ tokens' = tokens + 1
  BY <1>1, <1>2, <1>4, CountsMore, SMTT(30)
<1>5. CASE c \in Holder /\ Holder' = Holder \ {c} /\ tokens' = tokens - 1
  BY <1>1, <1>2, <1>5, CountsLess, SMTT(30)
<1>6. QED BY <1>3, <1>4, <1>5, SMTT(30) DEF TokenMove

\* At the start nobody has called anything.
LEMMA StackInit == Init => StackInv
<1> SUFFICES ASSUME Init PROVE StackInv
  OBVIOUS
<1>1. download \in [Handle -> Downloading]
  BY DEF Init, Downloading
<1>2. TypeOK
  <2>1. /\ op \in [Client -> {"none", "load", "save", "remove", "stat"}]
        /\ pc \in [Client -> Place] /\ call \in [Client -> Stage]
    BY DEF Init, Place, Stage
  <2>2. stored \in [Handle -> Content] /\ cached \in [Handle -> Content] /\ buf \in [Client -> Content]
    BY DEF Init, Content
  <2>3. waitFor \in [Client -> Client \cup {None}] /\ file \in [Client -> Handle \cup {None}]
    BY DEF Init
  <2>4. tries \in [Client -> 0 .. MaxTries] /\ bad \in [Client -> 0 .. 2] /\ tokens \in 0 .. Connections
    BY StackAssumption DEF Init
  <2>5. atomic \in BOOLEAN /\ frozen \in BOOLEAN /\ unhealed \in BOOLEAN
    BY ZenonT(30) DEF Init
  <2>6. cleaning = {} /\ cancelled = {} /\ clean = {} /\ saved = {}
    BY DEF Init
  <2>7. QED BY <1>1, <2>1, <2>2, <2>3, <2>4, <2>5, <2>6 DEF TypeOK
<1>3. ASSUME NEW c \in Client PROVE At(c)
  <2>1. /\ pc[c] = "idle" /\ op[c] = "none" /\ call[c] = "none" /\ bad[c] = 0
        /\ c \notin cleaning /\ c \notin cancelled /\ c \notin clean
    BY DEF Init
  <2>2. QED BY <2>1 DEF At
<1>4. Saving /\ Whole /\ Healing
  BY DEF Init, Saving, SavedStays, Whole, Healing, LoadHeals
<1>5. TokensCounted
  <2>1. Holder = {}
    BY DEF Init, Holder
  <2>2. tokens = 0 /\ Connections \in Nat
    BY StackAssumption DEF Init
  <2>3. Counts(0, {})
    <3>1. [i \in 1 .. 0 |-> i] \in [1 .. 0 -> {}]
      OBVIOUS
    <3>2. QED BY <3>1, ZenonT(30) DEF Counts
  <2>4. QED BY <2>1, <2>2, <2>3 DEF TokensCounted
<1>6. QED BY <1>2, <1>3, <1>4, <1>5 DEF StackInv

\* The invariant is inductive.
LEMMA StackStep == ASSUME StackInv, [Next]_vars PROVE StackInv' /\ NoPartWritten
<1>1. CASE Next
  <2>1. PICK c \in Client \cup {None} : PlacesKept(c)
    BY <1>1, StackKeeps
  <2>2. TokensCounted' /\ tokens' \in 0 .. Connections
    BY <2>1, TokensStep DEF PlacesKept
  <2>3. TypeOK'
    BY <1>1, <2>2, StackKeeps DEF TypesKept
  <2>4. FilesKept
    BY <1>1, StackKeeps
  <2>5. QED BY <2>1, <2>2, <2>3, <2>4 DEF StackInv, PlacesKept, FilesKept
<1>2. CASE UNCHANGED vars
  <2>1. UNCHANGED <<atomic, stored, cached, download, waitFor, op, file, pc, call, cleaning, tries,
                    buf, bad, cancelled, tokens, frozen, clean, saved, unhealed>>
    BY <1>2 DEF vars, cacheVars, clientVars, retryVars, loadVars, semaVars, historyVars
  <2>2. TypeOK' /\ NoPartWritten
    BY <2>1, SMTT(30) DEF StackInv, TypeOK, NoPartWritten
  <2>3. ASSUME NEW c \in Client PROVE At(c)'
    <3>1. At(c)
      BY InvTypes, ZenonT(30)
    <3>2. QED BY <2>1, <3>1 DEF At
  <2>4. Saving' /\ Whole' /\ Healing'
    BY <2>1, ZenonT(30) DEF StackInv, Saving, SavedStays, Whole, Healing, LoadHeals
  <2>5. TokensCounted'
    <3>1. Holder' = Holder
      BY <2>1 DEF Holder
    <3>2. QED BY <2>1, <3>1, ZenonT(30) DEF StackInv, TokensCounted, Counts
  <2>6. QED BY <2>2, <2>3, <2>4, <2>5 DEF StackInv
<1>3. QED BY <1>1, <1>2

\* For any clients, files and faults, and any number of connections and retries: a file that
\* Save has returned nil for stays complete until somebody removes it; and over a storage that
\* replaces files atomically LoadUnpacked gets a file that is there, unless the storage fails,
\* however damaged the copy in the cache is (StackSafe).
THEOREM StackIsSafe == Spec => []StackSafe
<1>1. StackInv /\ [Next]_vars => StackInv'
  BY StackStep, SMTT(30)
<1>2. StackInv => StackSafe
  BY DEF StackInv, StackSafe, Saving, Healing
<1>3. QED BY StackInit, <1>1, <1>2, PTL DEF Spec

\* Over a storage that replaces files atomically no step of any client writes an incomplete file
\* to the cache: not a download that fails, and not a Save that cannot write it (NoBadCopy).
THEOREM NoBadCopies == Spec => NoBadCopy
<1>1. StackInv /\ [Next]_vars => StackInv' /\ NoPartWritten
  BY StackStep
<1>2. NoPartWritten => [\A h \in Handle : atomic /\ cached'[h] = "part" => cached[h] = "part"]_vars
  BY DEF NoPartWritten
<1>3. QED BY StackInit, <1>1, <1>2, PTL DEF Spec, NoBadCopy

-----------------------------------------------------------------------------
(* Save of the local backend *)

\* What the steps of Save have achieved by the time the next one is due.
SaveOrder ==
  /\ localPc \in {"sync", "rename"} => temp = "full"
  /\ localPc \in {"syncdir", "chmod"} => final = "full"
  /\ localPc \in {"rename", "syncdir"} /\ syncs # "nothing" => tempSynced

\* What a crash may leave behind.
DiskSafe ==
  /\ syncs # "nothing" => "part" \notin disk
  /\ syncs = "all" /\ (localPc = "chmod" \/ kept = "yes") => disk = {"full"}

LocalInv == LocalTypeOK /\ SaveOrder /\ DiskSafe

LEMMA LocalInitInv == LocalInit => LocalInv
BY ZenonT(30) DEF LocalInit, LocalInv, LocalTypeOK, SaveOrder, DiskSafe, Contents

LEMMA LocalStepInv == LocalInv /\ [LocalNext]_localVars => LocalInv'
<1> SUFFICES ASSUME LocalInv, [LocalNext]_localVars PROVE LocalInv'
  OBVIOUS
<1> USE DEF LocalInv, LocalTypeOK, SaveOrder, DiskSafe, Contents
<1>1. CASE CreateTemp
  BY <1>1, ZenonT(30) DEF CreateTemp
<1>2. CASE CopyData
  BY <1>2 DEF CopyData
<1>3. CASE SyncFile
  BY <1>3, ZenonT(30) DEF SyncFile
<1>4. CASE Rename
  <2>1. syncs # "nothing" => AfterCrash(temp, tempSynced) = {"full"}
    BY <1>4 DEF Rename, AfterCrash
  <2>2. temp = "full" /\ "full" \in AfterCrash(temp, tempSynced) /\ AfterCrash(temp, tempSynced) \subseteq Contents
    BY <1>4 DEF Rename, AfterCrash
  <2> QED
    BY <1>4, <2>1, <2>2, ZenonT(30) DEF Rename
<1>5. CASE SyncDir
  <2>1. syncs = "all" => AfterCrash(final, tempSynced) = {"full"}
    BY <1>5 DEF SyncDir, AfterCrash
  <2> QED
    BY <1>5, <2>1, ZenonT(30) DEF SyncDir
<1>6. CASE SetReadonly
  BY <1>6 DEF SetReadonly
<1>7. CASE SaveFails
  BY <1>7, ZenonT(30) DEF SaveFails, SaveError
<1>8. CASE RemoveLocal
  BY <1>8, ZenonT(30) DEF RemoveLocal
<1>9. CASE Crash
  BY <1>9, ZenonT(30) DEF Crash
<1>10. CASE MakeDir
  BY <1>10, ZenonT(30) DEF MakeDir
<1>11. CASE UNCHANGED localVars
  BY <1>11 DEF localVars
<1> QED
  BY <1>1, <1>2, <1>3, <1>4, <1>5, <1>6, <1>7, <1>8, <1>9, <1>10, <1>11, ZenonT(30) DEF LocalNext

\* Save and Remove of the local backend: wherever files can be synced, no failure and no crash ever
\* leaves an incomplete file under its final name; wherever directories can be synced as well, a
\* file for which Save has returned nil stays complete until it is removed, or until a crash takes
\* the directory that MkdirAll has just made for it.
THEOREM LocalSafeHolds == LocalSpec => []LocalSafe
<1>1. LocalInv => NeverIncomplete
  BY DEF LocalInv, LocalTypeOK, DiskSafe, NeverIncomplete
<1>2. LocalInv => SurvivesCrash
  BY DEF LocalInv, LocalTypeOK, DiskSafe, SurvivesCrash
<1>3. LocalInv => LocalSafe
  BY <1>1, <1>2 DEF LocalInv, LocalSafe
<1> QED
  BY <1>3, LocalInitInv, LocalStepInv, PTL DEF LocalSpec

-----------------------------------------------------------------------------
(* The retried List *)

\* The map of listed files remembers every run of the callback.
RunsListed == \A n \in Name : ran[n] <= 1 /\ (ran[n] = 1 => n \in listed)

\* What is there all the time is in the backend, and was listed or is still to come.
StillToCome ==
  /\ always \subseteq names
  /\ listPc = "list" => always \subseteq listed \cup left

ListInv == ListTypeOK /\ RunsListed /\ StillToCome /\ ListsAll

LEMMA ListInitInv == ListInit => ListInv
<1> SUFFICES ASSUME ListInit PROVE ListInv
  OBVIOUS
<1>1. listTries \in 0 .. ListTries
  BY ListAssumption DEF ListInit
<1>2. ListTypeOK
  BY <1>1, ZenonT(30) DEF ListInit, ListTypeOK
<1>3. RunsListed
  BY DEF ListInit, RunsListed
<1>4. StillToCome /\ ListsAll
  BY DEF ListInit, StillToCome, ListsAll
<1> QED
  BY <1>2, <1>3, <1>4 DEF ListInv

\* A file that the backend yields.
LEMMA ListFileInv ==
  ASSUME ListInv, NEW n \in Name, ListFile(n)
  PROVE  ListInv'
<1>1. ListTypeOK'
  <2>1. innerErr' \in BOOLEAN
    <3>1. ("fn" \in ListFaults) = TRUE \/ ("fn" \in ListFaults) = FALSE
      OBVIOUS
    <3> QED
      BY <3>1, Zenon DEF ListFile, ListInv, ListTypeOK
  <2>2. ran' \in [Name -> Nat]
    <3>1. ran' = ran \/ ran' = [ran EXCEPT ![n] = @ + 1]
      BY Zenon DEF ListFile
    <3> QED
      BY <3>1 DEF ListInv, ListTypeOK
  <2> QED
    BY <2>1, <2>2, ZenonT(30) DEF ListFile, ListInv, ListTypeOK
<1>2. RunsListed'
  <2>1. CASE n \in listed
    BY <2>1, ZenonT(30) DEF ListFile, ListInv, RunsListed
  <2>2. CASE n \notin listed
    <3>1. ran[n] = 0
      BY <2>2 DEF ListInv, ListTypeOK, RunsListed
    <3>2. ran' = [ran EXCEPT ![n] = @ + 1] /\ listed' = listed \cup {n}
      BY <2>2, ZenonT(30) DEF ListFile
    <3> QED
      BY <3>1, <3>2 DEF ListInv, ListTypeOK, RunsListed
  <2> QED
    BY <2>1, <2>2
<1>3. StillToCome'
  BY ZenonT(30) DEF ListFile, ListInv, StillToCome
<1>4. ListsAll'
  <2>1. listPc' # "nil"
    BY SMTT(30) DEF ListFile
  <2> QED
    BY <2>1 DEF ListsAll
<1> QED
  BY <1>1, <1>2, <1>3, <1>4 DEF ListInv

LEMMA ListStepInv == ListInv /\ [ListNext]_listVars => ListInv'
<1> SUFFICES ASSUME ListInv, [ListNext]_listVars PROVE ListInv'
  OBVIOUS
<1>1. ASSUME NEW n \in Name, ListFile(n) PROVE ListInv'
  BY <1>1, ListFileInv
<1> USE DEF ListInv, ListTypeOK, RunsListed, StillToCome, ListsAll
<1>2. ASSUME NEW n \in Name, FilesChange(n) PROVE ListInv'
  <2>1. listPc = "list" /\ UNCHANGED <<listPc, listed, innerErr, listTries, ran>>
    BY <1>2 DEF FilesChange
  <2>2. CASE names' = names \cup {n} /\ left' \in {left, left \cup {n}} /\ UNCHANGED always
    BY <2>1, <2>2
  <2>3. CASE names' = names \ {n} /\ left' \in {left, left \ {n}} /\ always' = always \ {n}
    BY <2>1, <2>3
  <2> QED
    BY <1>2, <2>2, <2>3 DEF FilesChange
<1>3. CASE ListStart
  <2>1. listTries' \in 0 .. ListTries
    BY <1>3, ListAssumption DEF ListStart
  <2>2. ran' \in [Name -> Nat] /\ \A n \in Name : ran'[n] = 0
    BY <1>3 DEF ListStart
  <2>3. ListTypeOK'
    BY <1>3, <2>1, <2>2, ZenonT(30) DEF ListStart
  <2>4. RunsListed'
    BY <2>2
  <2>5. StillToCome' /\ ListsAll'
    BY <1>3 DEF ListStart
  <2> QED
    BY <2>3, <2>4, <2>5
<1>4. CASE ListEnds
  BY <1>4 DEF ListEnds
<1>5. CASE ListAborts
  BY <1>5 DEF ListAborts
<1>6. CASE ListAgain
  BY <1>6, ListAssumption DEF ListAgain
<1>7. CASE ListFails
  BY <1>7 DEF ListFails
<1>8. CASE UNCHANGED listVars
  BY <1>8 DEF listVars
<1> QED
  BY <1>1, <1>2, <1>3, <1>4, <1>5, <1>6, <1>7, <1>8 DEF ListNext

\* List of backend/retry never runs the callback twice for a file, however often the backend fails
\* and the listing is started again; and when it returns nil, the callback has run without an error
\* for every file that was in the backend all the time.
THEOREM ListingExactHolds == ListSpec => []ListingExact
<1>1. ListInv => ListsOnce
  BY DEF ListInv, RunsListed, ListsOnce
<1>2. ListInv => ListingExact
  BY <1>1 DEF ListInv, ListingExact
<1> QED
  BY ListInitInv, ListStepInv, <1>2, PTL DEF ListSpec

-----------------------------------------------------------------------------
(* The migration of a bucket *)

Handles == [type : FileTypes \cup {"config"}, name : Seq(STRING)]

\* The handle that is moved is one of a type that the migration knows.
LEMMA MovedType == moving \in 1 .. 4 => MoveOrder[moving] \in FileTypes /\ Moved.type \in FileTypes \ {"index"}
BY DEF MoveOrder, Moved, FileTypes

\* Two files have the same name in the old layout only if they are one.
LEMMA OldNamesDiffer ==
  ASSUME NEW h \in Handles, NEW g, g.type \in FileTypes, Filename("s3legacy", h) = Filename("s3legacy", g)
  PROVE  h.type = g.type /\ h.name = g.name
<1>1. Filename("s3legacy", g) = <<DirOf("s3legacy", g.type), g.name>>
  BY DEF Filename, InSubdir, FileTypes
<1>2. h.type # "config"
  BY <1>1 DEF Filename
<1>3. Filename("s3legacy", h) = <<DirOf("s3legacy", h.type), h.name>>
  BY <1>2 DEF Filename, InSubdir
<1>4. DirOf("s3legacy", h.type) = DirOf("s3legacy", g.type) /\ h.name = g.name
  BY <1>1, <1>3
<1>5. h.type \in FileTypes
  BY <1>2 DEF Handles
<1> QED
  BY <1>4, <1>5 DEF FileTypes, DirOf, s3LayoutPaths

\* No file has as its new name the old one of a file that has to be moved.
LEMMA NewNamesFree ==
  ASSUME NEW h \in Handles, NEW g, g.type \in FileTypes \ {"index"},
         Filename("s3legacy", g) # Filename("default", g)
  PROVE  Filename("default", h) # Filename("s3legacy", g)
<1> SUFFICES ASSUME Filename("default", h) = Filename("s3legacy", g) PROVE FALSE
  OBVIOUS
<1>1. Filename("s3legacy", g) = <<DirOf("s3legacy", g.type), g.name>>
  BY DEF Filename, InSubdir, FileTypes
<1>2. h.type # "config"
  BY <1>1 DEF Filename
<1>3. ~InSubdir("default", h)
  BY <1>1, <1>2 DEF Filename
<1>4. Filename("default", h) = <<DirOf("default", h.type), h.name>>
  BY <1>2, <1>3 DEF Filename
<1>5. DirOf("default", h.type) = DirOf("s3legacy", g.type) /\ h.name = g.name
  BY <1>1, <1>4
<1>6. h.type = "pack" /\ g.type = "pack"
  BY <1>2, <1>5 DEF Handles, FileTypes, DirOf, s3LayoutPaths, defaultLayoutPaths
<1>7. ~InSubdir("default", g)
  BY <1>3, <1>5, <1>6 DEF InSubdir
<1>8. Filename("default", g) = <<DirOf("default", "pack"), g.name>>
  BY <1>6, <1>7 DEF Filename
<1>9. DirOf("default", "pack") = DirOf("s3legacy", "pack")
  BY DEF DirOf, s3LayoutPaths, defaultLayoutPaths
<1> QED
  BY <1>1, <1>6, <1>8, <1>9

\* What Rename has done when it is about to remove the object.
MigrationInv ==
  /\ moving \in 0 .. 4
  /\ renaming # "no" => moving \in 1 .. 4 /\ toMove # <<>>
  /\ renaming = "remove" => OldName # NewName /\ NewName \in objects
  /\ MigrationKeeps

\* Without the old object of a file whose copy exists, all files are still there.
LEMMA RemovedKept ==
  ASSUME MigrationInv, renaming = "remove", objects' = objects \ {OldName}
  PROVE  MigrationKeeps'
<1> SUFFICES ASSUME NEW h \in Migrated
             PROVE  Filename("s3legacy", h) \in objects' \/ Filename("default", h) \in objects'
  BY DEF MigrationKeeps, In
<1>1. h \in Handles
  BY LayoutsAssumption DEF Handles
<1>2. Moved.type \in FileTypes \ {"index"}
  BY MovedType DEF MigrationInv
<1>3. Filename("default", h) # OldName
  BY <1>1, <1>2, NewNamesFree DEF MigrationInv, OldName, NewName
<1>4. CASE Filename("s3legacy", h) = OldName
  <2>1. h.type = Moved.type /\ h.name = Moved.name
    BY <1>1, <1>2, <1>4, OldNamesDiffer DEF OldName
  <2>2. Filename("default", h) = NewName
    BY <2>1 DEF NewName, Filename, InSubdir, Subdir
  <2> QED
    BY <1>3, <2>2 DEF MigrationInv
<1>5. CASE Filename("s3legacy", h) # OldName
  BY <1>3, <1>5 DEF MigrationInv, MigrationKeeps, In
<1> QED
  BY <1>4, <1>5

\* More objects do no harm.
LEMMA AddedKept ==
  ASSUME MigrationKeeps, objects \subseteq objects'
  PROVE  MigrationKeeps'
BY DEF MigrationKeeps, In

LEMMA MigrationInitInv == LayoutsInit => MigrationInv
BY DEF LayoutsInit, MigrationInv, MigrationKeeps, In

LEMMA RequestFailsInv ==
  ASSUME NEW effect, MigrationInv, renaming # "no", RequestFails(effect), MigrationKeeps'
  PROVE  MigrationInv'
<1>1. CASE attempts < RenameTries
  BY <1>1 DEF RequestFails, MigrationInv
<1>2. CASE ~(attempts < RenameTries)
  BY <1>2 DEF RequestFails, MigrationInv
<1> QED
  BY <1>1, <1>2

LEMMA MigrationStepInv == MigrationInv /\ [LayoutsNext]_layoutVars => MigrationInv'
<1> SUFFICES ASSUME MigrationInv, [LayoutsNext]_layoutVars PROVE MigrationInv'
  OBVIOUS
<1>0. MigrationKeeps /\ Len(MoveOrder) = 4
  BY DEF MigrationInv, MoveOrder
<1>1. CASE StartMigration
  <2>1. MigrationKeeps'
    BY <1>0, <1>1, AddedKept DEF StartMigration
  <2>2. moving = 0 /\ moving' = 1 /\ renaming' = renaming
    BY <1>1, Zenon DEF StartMigration, ListMoved
  <2>3. renaming = "no"
    BY <2>2 DEF MigrationInv
  <2> QED
    BY <2>1, <2>2, <2>3 DEF MigrationInv
<1>2. CASE StartRename
  <2>1. MigrationKeeps'
    BY <1>0, <1>2, AddedKept DEF StartRename
  <2> QED
    BY <1>2, <2>1 DEF StartRename, MigrationInv
<1>3. CASE CopyObject
  <2>1. MigrationKeeps'
    <3>1. objects \subseteq objects'
      BY <1>3 DEF CopyObject, RequestFails
    <3> QED
      BY <1>0, <3>1, AddedKept
  <2>2. CASE Renamed
    BY <1>3, <2>1, <2>2 DEF Renamed, MigrationInv
  <2>3. CASE RequestFails(objects \cup {NewName})
    BY <1>3, <2>1, <2>3, RequestFailsInv DEF CopyObject
  <2>4. CASE OldName # NewName /\ objects' = objects \cup {NewName} /\ renaming' = "remove" /\ UNCHANGED <<moving, toMove>>
    <3>1. OldName' = OldName /\ NewName' = NewName
      BY <2>4, ZenonT(30) DEF OldName, NewName, Moved
    <3>2. renaming = "copy"
      BY <1>3 DEF CopyObject
    <3>3. moving' \in 1 .. 4 /\ toMove' # <<>>
      BY <2>4, <3>2 DEF MigrationInv
    <3> QED
      BY <2>1, <2>4, <3>1, <3>3 DEF MigrationInv
  <2> QED
    BY <1>3, <2>2, <2>3, <2>4 DEF CopyObject
<1>4. CASE RemoveObject
  <2>1. CASE objects' = objects \ {OldName} /\ Renamed
    <3>1. MigrationKeeps'
      BY <1>4, <2>1, RemovedKept DEF RemoveObject
    <3> QED
      BY <2>1, <3>1 DEF Renamed, MigrationInv
  <2>2. CASE RequestFails(objects \ {OldName})
    <3>1. objects' = objects \/ objects' = objects \ {OldName}
      BY <2>2 DEF RequestFails
    <3>2. MigrationKeeps'
      BY <1>0, <1>4, <3>1, AddedKept, RemovedKept DEF RemoveObject
    <3> QED
      BY <1>4, <2>2, <3>2, RequestFailsInv DEF RemoveObject
  <2> QED
    BY <1>4, <2>1, <2>2 DEF RemoveObject
<1>5. CASE EndOfType
  <2>1. MigrationKeeps'
    BY <1>0, <1>5, AddedKept DEF EndOfType
  <2> QED
    BY <1>0, <1>5, <2>1 DEF EndOfType, ListMoved, MigrationInv
<1>6. CASE MigrationStops
  <2>1. MigrationKeeps'
    BY <1>0, <1>6, AddedKept DEF MigrationStops
  <2> QED
    BY <1>6, <2>1 DEF MigrationStops, MigrationInv
<1>7. CASE UNCHANGED layoutVars
  <2>1. MigrationKeeps' /\ OldName' = OldName /\ NewName' = NewName
    BY <1>0, <1>7, AddedKept, ZenonT(40) DEF layoutVars, OldName, NewName, Moved
  <2>2. UNCHANGED <<moving, renaming, toMove, objects>>
    BY <1>7 DEF layoutVars
  <2> QED
    BY <2>1, <2>2, SMTT(30) DEF MigrationInv
<1> QED
  BY <1>1, <1>2, <1>3, <1>4, <1>5, <1>6, <1>7 DEF LayoutsNext

\* S3Layout.Apply moves the files of a bucket one by one, with Rename of the s3 backend.  Whatever
\* files there are, whatever requests fail, with or without effect, and whenever the process is
\* killed and the migration started again, every file is where one of the layouts has it.
THEOREM MigrationKeepsHolds == LayoutsSpec => []MigrationKeeps
<1>1. MigrationInv => MigrationKeeps
  BY DEF MigrationInv
<1> QED
  BY MigrationInitInv, MigrationStepInv, <1>1, PTL DEF LayoutsSpec
=============================================================================
