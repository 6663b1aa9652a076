-------------------------------- MODULE Repack --------------------------------
(***************************************************************************)
(* Repack copies the blobs of keepBlobs out of old packs into new ones.    *)
(* Workers stream packs, each with a connection of the backend that it     *)
(* holds while it loads another copy of a damaged blob and while it hands  *)
(* blobs to the uploaders, which need connections as well.  A pack is      *)
(* streamed in one part: there are no wide gaps between its blobs.         *)
(***************************************************************************)
EXTENDS Integers, FiniteSets

CONSTANTS
  OldPack,         \* the packs to repack
  PackBlobs,       \* the blobs of each of them
  KeepBlobs,       \* keepBlobs at the beginning
  Damaged,         \* pairs of a pack and a blob that is damaged there
  Copies,          \* the blobs of which another pack has a good copy
  SameRepo,        \* whether repo = dstRepo
  Conns,           \* the connections of a backend
  NewPackSize,     \* the number of blobs with which a new pack is full
  AutoIndex,       \* whether Flush saves the index (noAutoIndexUpdate is not set)
  RepackTries,     \* how often a download is tried again
  RepackFaults,    \* "download", "copy", "upload", "flush", "cancel"
  NoPack

RBlob == UNION {PackBlobs[p] : p \in OldPack}

ASSUME RepackAssumption ==
  /\ NoPack \notin OldPack
  /\ KeepBlobs \subseteq RBlob
  /\ Damaged \subseteq OldPack \X RBlob
  /\ SameRepo \in BOOLEAN /\ AutoIndex \in BOOLEAN
  /\ Conns \in Nat \ {0} /\ (SameRepo => Conns > 1)
  /\ NewPackSize \in Nat \ {0}
  /\ RepackTries \in Nat

\* The workers; in the same repository one connection is left for uploads.
Downloaders == 1 .. (IF SameRepo THEN Conns - 1 ELSE Conns)

VARIABLES
  queue,           \* the packs that ListPacks has not yielded yet
  offer, offered,  \* the pack that is to be sent to a worker, and its blobs that are needed
  queueClosed,
  wpc,             \* where each worker is
  wpack, wblobs,   \* the pack it streams, and the blobs it wants from it
  wleft,           \* those it has not handled in this try
  wblob,           \* the blob it handles
  wtries,
  toKeep,          \* keepBlobs
  conns,           \* how many connections of repo are taken
  packer,          \* the blobs in the new pack that is not full
  upWait, upBusy,  \* the packs of uploaders that wait for a connection, and that have one
  inNew,           \* the blobs in the new packs
  copied,          \* how often SaveBlob was called for a blob
  rfailed,         \* whether a worker, or an upload, has failed
  rcancelled,      \* whether the caller's context is cancelled
  outcome          \* what Repack has returned

queueVars == <<queue, offer, offered, queueClosed>>
workerVars == <<wpack, wblobs, wtries>>
uploadVars == <<packer, upWait, upBusy, inNew>>
endVars == <<rfailed, rcancelled, outcome>>
repackVars == <<queueVars, wpc, workerVars, wleft, wblob, toKeep, conns, uploadVars, copied, endVars>>

RepackTypeOK ==
  /\ queue \subseteq OldPack /\ offer \in OldPack \cup {NoPack} /\ offered \subseteq RBlob
  /\ queueClosed \in BOOLEAN
  /\ wpc \in [Downloaders -> {"idle", "token", "stream", "loadtoken", "load", "keep", "save", "done"}]
  /\ wpack \in [Downloaders -> OldPack \cup {NoPack}]
  /\ wblobs \in [Downloaders -> SUBSET RBlob] /\ wleft \in [Downloaders -> SUBSET RBlob]
  /\ wblob \in [Downloaders -> SUBSET RBlob]
  /\ wtries \in [Downloaders -> 0 .. RepackTries]
  /\ toKeep \subseteq KeepBlobs
  /\ conns \in 0 .. Conns
  /\ packer \subseteq RBlob /\ upWait \subseteq SUBSET RBlob /\ upBusy \subseteq SUBSET RBlob
  /\ inNew \subseteq RBlob
  /\ copied \in [RBlob -> Nat]
  /\ rfailed \in BOOLEAN /\ rcancelled \in BOOLEAN
  /\ outcome \in {"none", "ok", "error"}

RepackInit ==
  /\ queue = OldPack /\ offer = NoPack /\ offered = {} /\ queueClosed = FALSE
  /\ wpc = [w \in Downloaders |-> "idle"]
  /\ wpack = [w \in Downloaders |-> NoPack]
  /\ wblobs = [w \in Downloaders |-> {}] /\ wleft = [w \in Downloaders |-> {}]
  /\ wblob = [w \in Downloaders |-> {}]
  /\ wtries = [w \in Downloaders |-> 0]
  /\ toKeep = KeepBlobs
  /\ conns = 0
  /\ packer = {} /\ upWait = {} /\ upBusy = {} /\ inNew = {}
  /\ copied = [b \in RBlob |-> 0]
  /\ rfailed = FALSE /\ rcancelled = FALSE
  /\ outcome = "none"

\* wgCtx is cancelled.
Stopped == rfailed \/ rcancelled

-----------------------------------------------------------------------------
(* The goroutine that fills downloadQueue *)

\* ListPacks yields a pack, maybe with some of its blobs only once the context is cancelled; the
\* blobs that are not to be kept are left out.
OfferPack(p) ==
  /\ ~queueClosed /\ offer = NoPack
  /\ p \in queue
  /\ queue' = queue \ {p}
  /\ offer' = p
  /\ \E bs \in SUBSET PackBlobs[p] :
       /\ bs = PackBlobs[p] \/ Stopped
       /\ offered' = bs \cap toKeep
  /\ UNCHANGED <<queueClosed, wpc, workerVars, wleft, wblob, toKeep, conns, uploadVars, copied, endVars>>

\* ListPacks has yielded all packs, or has stopped because of the context, which is no error.
CloseQueue ==
  /\ ~queueClosed /\ offer = NoPack
  /\ queue = {} \/ Stopped
  /\ queueClosed' = TRUE
  /\ UNCHANGED <<queue, offer, offered, wpc, workerVars, wleft, wblob, toKeep, conns, uploadVars, copied, endVars>>

\* The pack cannot be sent any more.
OfferCancelled ==
  /\ offer # NoPack
  /\ Stopped
  /\ offer' = NoPack /\ offered' = {}
  /\ queueClosed' = TRUE
  /\ rfailed' = TRUE
  /\ UNCHANGED <<queue, wpc, workerVars, wleft, wblob, toKeep, conns, uploadVars, copied, rcancelled, outcome>>

-----------------------------------------------------------------------------
(* A worker *)

WGoto(w, l) == wpc' = [wpc EXCEPT ![w] = l]

\* The worker returns an error, after it has given back c connections.
WorkerError(w, c) ==
  /\ WGoto(w, "done")
  /\ rfailed' = TRUE
  /\ conns' = conns - c
  /\ wpack' = [wpack EXCEPT ![w] = NoPack]
  /\ wblobs' = [wblobs EXCEPT ![w] = {}]
  /\ wleft' = [wleft EXCEPT ![w] = {}]
  /\ wblob' = [wblob EXCEPT ![w] = {}]
  /\ wtries' = [wtries EXCEPT ![w] = 0]
  /\ UNCHANGED <<queueVars, toKeep, uploadVars, copied, rcancelled, outcome>>

\* StreamPack has nothing to do if no blob is needed.
TakePack(w) ==
  /\ wpc[w] = "idle" /\ offer # NoPack
  /\ offer' = NoPack /\ offered' = {}
  /\ \/ /\ offered = {}
        /\ UNCHANGED <<wpc, wpack, wblobs>>
     \/ /\ offered # {}
        /\ WGoto(w, "token")
        /\ wpack' = [wpack EXCEPT ![w] = offer]
        /\ wblobs' = [wblobs EXCEPT ![w] = offered]
  /\ UNCHANGED <<queue, queueClosed, wtries, wleft, wblob, toKeep, conns, uploadVars, copied, endVars>>

WorkerEnds(w) ==
  /\ wpc[w] = "idle" /\ queueClosed
  /\ WGoto(w, "done")
  /\ UNCHANGED <<queueVars, workerVars, wleft, wblob, toKeep, conns, uploadVars, copied, endVars>>

\* The download begins, unless the context was cancelled while the worker waited.
StartStream(w) ==
  /\ wpc[w] = "token" /\ conns < Conns
  /\ \/ Stopped /\ WorkerError(w, 0)
     \/ /\ ~Stopped
        /\ conns' = conns + 1
        /\ WGoto(w, "stream")
        /\ wleft' = [wleft EXCEPT ![w] = wblobs[w]]
        /\ UNCHANGED <<queueVars, workerVars, wblob, toKeep, uploadVars, copied, endVars>>

\* The callback is called with a blob, or with an error if it is damaged.
ReadBlob(w, b) ==
  /\ wpc[w] = "stream" /\ b \in wleft[w]
  /\ WGoto(w, IF <<wpack[w], b>> \in Damaged THEN "loadtoken" ELSE "keep")
  /\ wblob' = [wblob EXCEPT ![w] = {b}]
  /\ wleft' = [wleft EXCEPT ![w] = @ \ {b}]
  /\ UNCHANGED <<queueVars, workerVars, toKeep, conns, uploadVars, copied, endVars>>

StreamEnds(w) ==
  /\ wpc[w] = "stream" /\ wleft[w] = {}
  /\ WGoto(w, "idle")
  /\ conns' = conns - 1
  /\ wpack' = [wpack EXCEPT ![w] = NoPack]
  /\ wblobs' = [wblobs EXCEPT ![w] = {}]
  /\ wtries' = [wtries EXCEPT ![w] = 0]
  /\ UNCHANGED <<queueVars, wleft, wblob, toKeep, uploadVars, copied, endVars>>

\* The download fails, and is tried again from its beginning.
StreamFails(w) ==
  /\ wpc[w] = "stream"
  /\ "download" \in RepackFaults \/ Stopped
  /\ \/ (wtries[w] = RepackTries \/ Stopped) /\ WorkerError(w, 1)
     \/ /\ wtries[w] < RepackTries /\ ~Stopped
        /\ WGoto(w, "token")
        /\ wtries' = [wtries EXCEPT ![w] = @ + 1]
        /\ wleft' = [wleft EXCEPT ![w] = {}]
        /\ conns' = conns - 1
        /\ UNCHANGED <<queueVars, wpack, wblobs, wblob, toKeep, uploadVars, copied, endVars>>

\* LoadBlob gets a connection for another copy of the blob.
LoadCopy(w) ==
  /\ wpc[w] = "loadtoken" /\ conns < Conns
  /\ conns' = conns + 1
  /\ WGoto(w, "load")
  /\ UNCHANGED <<queueVars, workerVars, wleft, wblob, toKeep, uploadVars, copied, endVars>>

\* Some pack in the index has a good copy.
HasCopy(b) == b \in Copies \/ \E p \in OldPack : b \in PackBlobs[p] /\ <<p, b>> \notin Damaged

CopyLoaded(w) ==
  /\ wpc[w] = "load"
  /\ \A b \in wblob[w] : HasCopy(b)
  /\ conns' = conns - 1
  /\ WGoto(w, "keep")
  /\ UNCHANGED <<queueVars, workerVars, wleft, wblob, toKeep, uploadVars, copied, endVars>>

\* The original error is returned, and StreamPack does not try again.
CopyFails(w) ==
  /\ wpc[w] = "load"
  /\ "copy" \in RepackFaults \/ Stopped \/ \E b \in wblob[w] : ~HasCopy(b)
  /\ WorkerError(w, 2)

\* Whether the blob is still to be kept is tested again.
KeepBlob(w) ==
  /\ wpc[w] = "keep"
  /\ toKeep' = toKeep \ wblob[w]
  /\ \/ wblob[w] \subseteq toKeep /\ WGoto(w, "save") /\ UNCHANGED wblob
     \/ ~ wblob[w] \subseteq toKeep /\ WGoto(w, "stream") /\ wblob' = [wblob EXCEPT ![w] = {}]
  /\ UNCHANGED <<queueVars, workerVars, wleft, conns, uploadVars, copied, endVars>>

\* SaveBlob adds the blob to a pack; a full pack is given to an idle uploader.
SaveKeptBlob(w) ==
  /\ wpc[w] = "save"
  /\ LET full == packer \cup wblob[w] IN
       \/ Cardinality(full) < NewPackSize /\ packer' = full /\ UNCHANGED upWait
       \/ /\ Cardinality(full) >= NewPackSize
          /\ ~rfailed
          /\ Cardinality(upWait \cup upBusy) < Conns
          /\ packer' = {} /\ upWait' = upWait \cup {full}
  /\ copied' = [b \in RBlob |-> copied[b] + (IF b \in wblob[w] THEN 1 ELSE 0)]
  /\ WGoto(w, "stream")
  /\ wblob' = [wblob EXCEPT ![w] = {}]
  /\ UNCHANGED <<queueVars, workerVars, wleft, toKeep, conns, upBusy, inNew, endVars>>

\* Mutant of SaveKeptFails: the error is not returned.
SaveKeptIgnored(w) ==
  /\ wpc[w] = "save"
  /\ "upload" \in RepackFaults \/ Stopped
  /\ WGoto(w, "stream")
  /\ wblob' = [wblob EXCEPT ![w] = {}]
  /\ UNCHANGED <<queueVars, workerVars, wleft, toKeep, conns, uploadVars, copied, endVars>>

\* A full pack cannot be queued any more, or the temporary file cannot be written.
SaveKeptFails(w) ==
  /\ wpc[w] = "save"
  /\ "upload" \in RepackFaults \/ Stopped
  /\ WorkerError(w, 1)

-----------------------------------------------------------------------------
(* Uploaders, Flush and the end *)

UploadToken(p) ==
  /\ p \in upWait
  /\ ~SameRepo \/ conns < Conns
  /\ conns' = IF SameRepo THEN conns + 1 ELSE conns
  /\ upWait' = upWait \ {p} /\ upBusy' = upBusy \cup {p}
  /\ UNCHANGED <<queueVars, wpc, workerVars, wleft, wblob, toKeep, packer, inNew, copied, endVars>>

\* The upload of a pack ends; after an error, or with a cancelled context, it fails.
UploadEnds(p) ==
  /\ p \in upBusy
  /\ conns' = IF SameRepo THEN conns - 1 ELSE conns
  /\ upBusy' = upBusy \ {p}
  /\ \/ inNew' = inNew \cup p /\ UNCHANGED rfailed
     \/ ("upload" \in RepackFaults \/ Stopped) /\ rfailed' = TRUE /\ UNCHANGED inNew
  /\ UNCHANGED <<queueVars, wpc, workerVars, wleft, wblob, toKeep, packer, upWait, copied, rcancelled, outcome>>

WorkersDone == queueClosed /\ \A w \in Downloaders : wpc[w] = "done"

\* Flush gives the last pack to an uploader.
FlushPacker ==
  /\ WorkersDone /\ ~rfailed /\ packer # {}
  /\ Cardinality(upWait \cup upBusy) < Conns
  /\ packer' = {} /\ upWait' = upWait \cup {packer}
  /\ UNCHANGED <<queueVars, wpc, workerVars, wleft, wblob, toKeep, conns, upBusy, inNew, copied, endVars>>

\* Flush may save the index.  With a cancelled context that fails unless there is nothing to save.
RepackReturns ==
  /\ WorkersDone /\ outcome = "none"
  /\ ~rfailed /\ packer = {} /\ upWait \cup upBusy = {}
  /\ ~rcancelled \/ ~AutoIndex \/ inNew = {}
  /\ outcome' = "ok"
  /\ UNCHANGED <<queueVars, wpc, workerVars, wleft, wblob, toKeep, conns, uploadVars, copied, rfailed, rcancelled>>

RepackFails ==
  /\ WorkersDone /\ outcome = "none"
  /\ upWait \cup upBusy = {}
  /\ "flush" \in RepackFaults \/ Stopped
  /\ outcome' = "error"
  /\ UNCHANGED <<queueVars, wpc, workerVars, wleft, wblob, toKeep, conns, uploadVars, copied, rfailed, rcancelled>>

CancelRepack ==
  /\ "cancel" \in RepackFaults
  /\ ~rcancelled /\ outcome = "none"
  /\ rcancelled' = TRUE
  /\ UNCHANGED <<queueVars, wpc, workerVars, wleft, wblob, toKeep, conns, uploadVars, copied, rfailed, outcome>>

WorkerStep(w) ==
  \/ TakePack(w) \/ WorkerEnds(w) \/ StartStream(w) \/ StreamEnds(w) \/ StreamFails(w)
  \/ \E b \in RBlob : ReadBlob(w, b)
  \/ LoadCopy(w) \/ CopyLoaded(w) \/ CopyFails(w) \/ KeepBlob(w) \/ SaveKeptBlob(w) \/ SaveKeptFails(w)

UploadStep == \E p \in upWait \cup upBusy : UploadToken(p) \/ UploadEnds(p)

RepackEndStep == CloseQueue \/ OfferCancelled \/ FlushPacker \/ RepackReturns \/ RepackFails

RepackNext ==
  \/ \E p \in OldPack : OfferPack(p)
  \/ \E w \in Downloaders : WorkerStep(w)
  \/ UploadStep \/ RepackEndStep \/ CancelRepack

\* Goroutines run, and one that waits for a connection or an uploader gets it in the end.
RepackFairness ==
  /\ \A w \in Downloaders : SF_repackVars(WorkerStep(w))
  /\ SF_repackVars(UploadStep)
  /\ WF_repackVars(RepackEndStep \/ \E p \in OldPack : OfferPack(p))

RepackSpec == RepackInit /\ [][RepackNext]_repackVars /\ RepackFairness

\* When Repack returns the packs as obsolete, what it has taken off keepBlobs is in new packs,
\* and unless it was cancelled that is everything.
RepackComplete ==
  outcome = "ok" => KeepBlobs \ toKeep \subseteq inNew /\ (~rcancelled => toKeep = {})

\* A blob is copied at most once, although packs share blobs and downloads are repeated.
CopiedOnce == \A b \in RBlob : copied[b] <= 1

\* Repack returns.  The connection that is left for uploads is needed for that.
RepackEnds == <>(outcome # "none")

\* Repack moves what is to be kept: a blob taken off keepBlobs is in a new pack when Repack
\* returns nil, and in no more than one, although packs share blobs and downloads are repeated.
RepackExact == RepackTypeOK /\ RepackComplete /\ CopiedOnce
=============================================================================
