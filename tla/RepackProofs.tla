---------------------------- MODULE RepackProofs ----------------------------
(***************************************************************************)
(* Repack moves what is to be kept, for any packs, blobs, damages, faults  *)
(* and number of connections.                                              *)
(***************************************************************************)
EXTENDS Repack, FiniteSetTheorems, TLAPS

-----------------------------------------------------------------------------
(* Repack: the inductive invariant *)

\* A worker that streams has a connection, and one that loads a copy has a second one.
Streaming == {w \in Downloaders : wpc[w] \in {"stream", "loadtoken", "load", "keep", "save"}}
LoadingCopy == {w \in Downloaders : wpc[w] = "load"}

\* The connections that are taken are those of workers and of uploads.
ConnsCounted ==
  /\ IsFiniteSet(upBusy)
  /\ conns = Cardinality(Streaming) + Cardinality(LoadingCopy) + (IF SameRepo THEN Cardinality(upBusy) ELSE 0)

\* What a worker has at hand in each of its states.
AtHand ==
  \A w \in Downloaders :
    /\ wpc[w] \in {"loadtoken", "load", "keep", "save"} => \E b \in wblobs[w] : wblob[w] = {b}
    /\ wpc[w] \notin {"loadtoken", "load", "keep", "save"} => wblob[w] = {}
    /\ wleft[w] \subseteq wblobs[w]

\* The blobs that worker w has taken off keepBlobs and not saved yet.
Saving(w) == IF wpc[w] = "save" THEN wblob[w] ELSE {}

\* A blob is taken off keepBlobs by one worker, before it is copied.
TakenOnce ==
  /\ CopiedOnce
  /\ \A b \in toKeep : copied[b] = 0
  /\ \A w \in Downloaders : \A b \in Saving(w) : copied[b] = 0 /\ b \notin toKeep
  /\ \A v, w \in Downloaders : v # w => Saving(v) \cap Saving(w) = {}

\* The new packs have blobs that were copied, and none in common.
NewPacksApart ==
  /\ \A b \in packer : copied[b] # 0
  /\ \A q \in upWait \cup upBusy : q # {} /\ q \cap packer = {} /\ \A b \in q : copied[b] # 0
  /\ upWait \cap upBusy = {}

\* As long as nothing fails, a blob that was taken off keepBlobs is on its way to a new pack,
NothingDropped ==
  ~rfailed =>
    \A b \in KeepBlobs \ toKeep :
      \/ b \in packer \cup inNew \cup UNION (upWait \cup upBusy)
      \/ \E w \in Downloaders : b \in Saving(w)

\* What worker w will still read in this try or the next.
ToRead(w) ==
  IF wpc[w] = "token" THEN wblobs[w] ELSE IF wpc[w] \in {"loadtoken", "load", "keep"} THEN wleft[w] \cup wblob[w] ELSE wleft[w]

\* and one that is still to be kept will be read.
NothingForgotten ==
  ~Stopped =>
    \A b \in toKeep :
      \/ \E p \in queue : b \in PackBlobs[p]
      \/ b \in offered
      \/ \E w \in Downloaders : b \in ToRead(w)

\* The order in which Repack comes to its end.
RepackPhases ==
  /\ offer = NoPack => offered = {}
  /\ queueClosed => offer = NoPack
  /\ queueClosed /\ ~Stopped => queue = {}
  /\ \A w \in Downloaders : wpc[w] \in {"idle", "done"} => wleft[w] = {}
  /\ ~rfailed => \A w \in Downloaders : wpc[w] = "done" => queueClosed
  /\ outcome = "ok" => WorkersDone /\ ~rfailed /\ packer = {} /\ upWait \cup upBusy = {}

RepackInv ==
  /\ RepackTypeOK /\ ConnsCounted /\ AtHand /\ TakenOnce /\ NewPacksApart
  /\ NothingDropped /\ NothingForgotten /\ RepackPhases

\* Repack begins with all packs to come and no connection taken.
LEMMA RepackInitInv == ASSUME RepackInit PROVE RepackInv
<1>1. RepackTypeOK
  <2>1. conns \in 0 .. Conns /\ wtries \in [Downloaders -> 0 .. RepackTries] /\ copied \in [RBlob -> Nat]
    BY RepackAssumption DEF RepackInit
  <2> QED
    BY <2>1, ZenonT(30) DEF RepackInit, RepackTypeOK
<1>2. Streaming = {} /\ LoadingCopy = {}
  BY DEF RepackInit, Streaming, LoadingCopy
<1>3. ConnsCounted
  BY <1>2, FS_EmptySet DEF ConnsCounted, RepackInit
<1>4. AtHand /\ TakenOnce /\ NewPacksApart /\ NothingDropped
  BY RepackAssumption DEF RepackInit, AtHand, TakenOnce, CopiedOnce, Saving, NewPacksApart, NothingDropped
<1>5. NothingForgotten
  BY RepackAssumption DEF RepackInit, NothingForgotten, RBlob
<1>6. RepackPhases
  BY DEF RepackInit, RepackPhases, WorkersDone
<1> QED
  BY <1>1, <1>3, <1>4, <1>5, <1>6 DEF RepackInv

\* The workers are finitely many.
LEMMA DownloadersFinite == IsFiniteSet(Downloaders)
<1>1. (IF SameRepo THEN Conns - 1 ELSE Conns) \in Int
  BY RepackAssumption
<1> QED
  BY <1>1, FS_Interval DEF Downloaders

\* How many connections worker w has.
Has(w) == (IF w \in Streaming THEN 1 ELSE 0) + (IF w \in LoadingCopy THEN 1 ELSE 0)

\* The connections of the workers.
Taken == Cardinality(Streaming) + Cardinality(LoadingCopy)

\* They are a number.
LEMMA TakenType == Taken \in Nat /\ Taken' \in Nat
<1>1. \A S \in SUBSET Downloaders : Cardinality(S) \in Nat
  BY DownloadersFinite, FS_Subset, FS_CardinalityType
<1>2. Streaming \subseteq Downloaders /\ LoadingCopy \subseteq Downloaders
  BY DEF Streaming, LoadingCopy
<1>3. Streaming' \subseteq Downloaders /\ LoadingCopy' \subseteq Downloaders
  BY DEF Streaming, LoadingCopy
<1>4. Cardinality(Streaming') \in Nat /\ Cardinality(LoadingCopy') \in Nat
  BY <1>1, <1>3
<1> QED
  BY <1>1, <1>2, <1>4 DEF Taken

\* When worker w goes to l, the connections of the workers change by those that it has.
LEMMA WorkerMoves ==
  ASSUME RepackInv, NEW w \in Downloaders, NEW l, wpc' = [wpc EXCEPT ![w] = l]
  PROVE  Taken' = Taken - Has(w) + Has(w)'
<1> DEFINE A == {v \in Downloaders : v # w /\ v \in Streaming}
           B == {v \in Downloaders : v # w /\ v \in LoadingCopy}
           H(S) == IF w \in S THEN 1 ELSE 0
<1>1. IsFiniteSet(A) /\ IsFiniteSet(B)
  BY DownloadersFinite, FS_Subset
<1>2. Cardinality(A) \in Nat /\ Cardinality(B) \in Nat
  BY <1>1, FS_CardinalityType
<1>3. w \notin A /\ w \notin B
  OBVIOUS
<1>4. Cardinality(A \cup {w}) = Cardinality(A) + 1 /\ Cardinality(B \cup {w}) = Cardinality(B) + 1
  BY <1>1, <1>3, FS_AddElement, ZenonT(30)
<1>5. Streaming = (IF w \in Streaming THEN A \cup {w} ELSE A) /\ LoadingCopy = IF w \in LoadingCopy THEN B \cup {w} ELSE B
  BY DEF Streaming, LoadingCopy
<1>6. \A v \in Downloaders : v # w => wpc'[v] = wpc[v]
  BY DEF RepackInv, RepackTypeOK
<1>7. /\ Streaming' = (IF w \in Streaming' THEN A \cup {w} ELSE A)
      /\ LoadingCopy' = (IF w \in LoadingCopy' THEN B \cup {w} ELSE B)
  BY <1>6 DEF Streaming, LoadingCopy
<1> HIDE DEF A, B
<1>8. Cardinality(Streaming) = Cardinality(A) + H(Streaming) /\ Cardinality(LoadingCopy) = Cardinality(B) + H(LoadingCopy)
  BY <1>2, <1>4, <1>5
<1>9. Cardinality(Streaming') = Cardinality(A) + H(Streaming') /\ Cardinality(LoadingCopy') = Cardinality(B) + H(LoadingCopy')
  BY <1>2, <1>4, <1>7
<1> QED
  BY <1>2, <1>8, <1>9 DEF Taken, Has

\* The connections of uploads.
Uploads == IF SameRepo THEN Cardinality(upBusy) ELSE 0

\* Every connection that is given back was taken.
LEMMA ConnsStep == ASSUME RepackInv, [RepackNext]_repackVars PROVE ConnsCounted' /\ conns' \in Nat
<1>1. Taken \in Nat /\ Taken' \in Nat
  BY TakenType
<1>2. IsFiniteSet(upBusy) /\ Uploads \in Nat /\ conns = Taken + Uploads
  BY RepackAssumption, FS_CardinalityType DEF RepackInv, ConnsCounted, Taken, Uploads
<1>3. SUFFICES IsFiniteSet(upBusy') /\ conns' = Taken' + Uploads'
  <2>1. IsFiniteSet(upBusy') => Uploads' \in Nat
    BY RepackAssumption, FS_CardinalityType DEF Uploads
  <2> QED
    BY <1>1, <2>1 DEF ConnsCounted, Taken, Uploads
<1>4. ASSUME NEW w \in Downloaders, WorkerStep(w) PROVE IsFiniteSet(upBusy') /\ conns' = Taken' + Uploads'
  <2>1. upBusy' = upBusy /\ Uploads' = Uploads
    BY <1>4, ZenonT(30) DEF Uploads, WorkerStep, TakePack, WorkerEnds, StartStream, StreamEnds, StreamFails, ReadBlob, LoadCopy, CopyLoaded,
       CopyFails, KeepBlob, SaveKeptBlob, SaveKeptFails, WorkerError, uploadVars
  <2>2. \E l : wpc' = [wpc EXCEPT ![w] = l]
    BY <1>4, ZenonT(30) DEF WorkerStep, TakePack, WorkerEnds, StartStream, StreamEnds, StreamFails, ReadBlob, LoadCopy, CopyLoaded,
       CopyFails, KeepBlob, SaveKeptBlob, SaveKeptFails, WorkerError, WGoto, RepackInv, RepackTypeOK
  <2>3. Taken' = Taken - Has(w) + Has(w)'
    BY <2>2, WorkerMoves, ZenonT(30)
  <2>4. conns' = conns - Has(w) + Has(w)'
    <3> USE DEF RepackInv, RepackTypeOK, Has, Streaming, LoadingCopy, WGoto
    <3>1. ASSUME NEW c \in 0 .. 2, Has(w) = c, WorkerError(w, c) PROVE conns' = conns - Has(w) + Has(w)'
      BY <3>1 DEF WorkerError
    <3>2. CASE StartStream(w)
      BY <3>1, <3>2 DEF StartStream
    <3>3. CASE StreamFails(w)
      BY <3>1, <3>3 DEF StreamFails
    <3>4. CASE CopyFails(w) \/ SaveKeptFails(w)
      BY <3>1, <3>4 DEF CopyFails, SaveKeptFails
    <3>5. CASE TakePack(w) \/ WorkerEnds(w)
      BY <3>5 DEF TakePack, WorkerEnds
    <3>6. CASE StreamEnds(w) \/ LoadCopy(w) \/ CopyLoaded(w)
      BY <3>6 DEF StreamEnds, LoadCopy, CopyLoaded
    <3>7. CASE KeepBlob(w) \/ SaveKeptBlob(w)
      BY <3>7 DEF KeepBlob, SaveKeptBlob
    <3>8. CASE \E b \in RBlob : ReadBlob(w, b)
      BY <3>8 DEF ReadBlob
    <3> QED
      BY <1>4, <3>2, <3>3, <3>4, <3>5, <3>6, <3>7, <3>8 DEF WorkerStep
  <2>5. Has(w) \in Int /\ Has(w)' \in Int
    BY DEF Has
  <2> QED
    BY <1>1, <1>2, <2>1, <2>3, <2>4, <2>5
<1>5. ASSUME wpc' = wpc PROVE Taken' = Taken
  BY <1>5 DEF Taken, Streaming, LoadingCopy
<1>6. ASSUME NEW p \in upWait, UploadToken(p) PROVE IsFiniteSet(upBusy') /\ conns' = Taken' + Uploads'
  <2>1. p \notin upBusy
    BY <1>6 DEF RepackInv, NewPacksApart
  <2>2. IsFiniteSet(upBusy \cup {p}) /\ Cardinality(upBusy \cup {p}) = Cardinality(upBusy) + 1
    BY <1>2, <2>1, FS_AddElement
  <2>3. upBusy' = upBusy \cup {p} /\ conns' = (IF SameRepo THEN conns + 1 ELSE conns) /\ wpc' = wpc
    BY <1>6 DEF UploadToken
  <2> QED
    BY <1>1, <1>2, <1>5, <2>2, <2>3 DEF Uploads
<1>7. ASSUME NEW p \in upBusy, UploadEnds(p) PROVE IsFiniteSet(upBusy') /\ conns' = Taken' + Uploads'
  <2>2. IsFiniteSet(upBusy \ {p}) /\ Cardinality(upBusy \ {p}) = Cardinality(upBusy) - 1
    BY <1>2, FS_RemoveElement
  <2>3. upBusy' = upBusy \ {p} /\ conns' = (IF SameRepo THEN conns - 1 ELSE conns) /\ wpc' = wpc
    BY <1>7 DEF UploadEnds
  <2> QED
    BY <1>1, <1>2, <1>5, <2>2, <2>3 DEF Uploads
<1>8. ASSUME UNCHANGED <<wpc, upBusy, conns>> PROVE IsFiniteSet(upBusy') /\ conns' = Taken' + Uploads'
  BY <1>2, <1>5, <1>8 DEF Uploads
<1> QED
  BY <1>4, <1>6, <1>7, <1>8, ZenonT(30) DEF RepackNext, UploadStep, RepackEndStep, UploadToken, UploadEnds, OfferPack, CloseQueue, OfferCancelled,
     FlushPacker, RepackReturns, RepackFails, CancelRepack, repackVars, uploadVars

\* The invariant implies the properties.
LEMMA RepackInvMeans == ASSUME RepackInv PROVE RepackExact
<1>1. CopiedOnce /\ RepackTypeOK
  BY DEF RepackInv, TakenOnce
<1>2. ASSUME outcome = "ok" PROVE KeepBlobs \ toKeep \subseteq inNew /\ (~rcancelled => toKeep = {})
  <2>1. WorkersDone /\ ~rfailed /\ packer = {} /\ upWait \cup upBusy = {}
    BY <1>2 DEF RepackInv, RepackPhases
  <2>2. \A w \in Downloaders : Saving(w) = {} /\ ToRead(w) = {}
    BY <2>1 DEF RepackInv, RepackPhases, WorkersDone, Saving, ToRead
  <2>3. KeepBlobs \ toKeep \subseteq inNew
    BY <2>1, <2>2 DEF RepackInv, NothingDropped
  <2>4. ASSUME ~rcancelled PROVE queue = {} /\ offered = {}
    BY <2>1, <2>4 DEF RepackInv, RepackPhases, WorkersDone, Stopped
  <2> QED
    BY <2>1, <2>2, <2>3, <2>4 DEF RepackInv, NothingForgotten, Stopped
<1> QED
  BY <1>1, <1>2 DEF RepackExact, RepackComplete

\* No more connections are taken than there are.
LEMMA ConnsBounded == ASSUME RepackInv, [RepackNext]_repackVars PROVE conns' \in 0 .. Conns
<1>1. conns \in 0 .. Conns /\ conns' \in Nat /\ Conns \in Nat
  BY ConnsStep, RepackAssumption DEF RepackInv, RepackTypeOK
<1>2. ASSUME NEW w \in Downloaders, WorkerStep(w) PROVE conns' <= Conns
  <2>1. ASSUME NEW c \in 0 .. 2, WorkerError(w, c) PROVE conns' <= Conns
    BY <1>1, <2>1 DEF WorkerError
  <2>2. CASE StartStream(w) \/ StreamFails(w) \/ StreamEnds(w)
    BY <1>1, <2>1, <2>2 DEF StartStream, StreamFails, StreamEnds
  <2>3. CASE LoadCopy(w) \/ CopyLoaded(w) \/ CopyFails(w) \/ SaveKeptFails(w)
    BY <1>1, <2>1, <2>3 DEF LoadCopy, CopyLoaded, CopyFails, SaveKeptFails
  <2>4. CASE UNCHANGED conns
    BY <1>1, <2>4
  <2> QED
    BY <1>2, <2>2, <2>3, <2>4, Zenon DEF WorkerStep, TakePack, WorkerEnds, ReadBlob, KeepBlob, SaveKeptBlob
<1>3. ASSUME NEW p, UploadToken(p) \/ UploadEnds(p) PROVE conns' <= Conns
  BY <1>1, <1>3 DEF UploadToken, UploadEnds
<1>4. ASSUME (\E p \in OldPack : OfferPack(p)) \/ RepackEndStep \/ CancelRepack \/ UNCHANGED repackVars PROVE conns' <= Conns
  <2>1. conns' = conns
    BY <1>4, Zenon DEF RepackEndStep, repackVars, OfferPack, FlushPacker, CloseQueue, OfferCancelled, RepackReturns, RepackFails,
       CancelRepack
  <2> QED
    BY <1>1, <2>1
<1>5. conns' <= Conns
  BY <1>2, <1>3, <1>4, Zenon DEF RepackNext, UploadStep
<1> QED
  BY <1>1, <1>5

\* A blob that is needed is handed on from the queue to a worker, and read again after a failure.
LEMMA NothingForgottenStep == ASSUME RepackInv, [RepackNext]_repackVars PROVE NothingForgotten'
<1> USE DEF RepackInv, RepackTypeOK, NothingForgotten, ToRead, Stopped, workerVars, endVars, WGoto
<1>1. ASSUME NEW p \in OldPack, OfferPack(p) PROVE NothingForgotten'
  <2>1. queue' = queue \ {p} /\ UNCHANGED <<toKeep, rfailed, rcancelled>> /\ (~Stopped => offered' = PackBlobs[p] \cap toKeep)
    BY <1>1 DEF OfferPack
  <2>2. offered = {}
    BY <1>1 DEF OfferPack, RepackPhases
  <2>3. \A w \in Downloaders : ToRead(w)' = ToRead(w)
    BY <1>1 DEF OfferPack
  <2> HIDE DEF ToRead, RepackTypeOK
  <2> QED
    BY Zenon, <2>1, <2>2, <2>3
<1>2. ASSUME NEW w \in Downloaders, TakePack(w) PROVE NothingForgotten'
  <2>1. UNCHANGED <<queue, toKeep, rfailed, rcancelled>>
    BY <1>2 DEF TakePack
  <2>2. \A v \in Downloaders : ToRead(v) \subseteq ToRead(v)'
    BY <1>2 DEF TakePack, RepackPhases
  <2>3. offered \subseteq ToRead(w)'
    BY <1>2 DEF TakePack
  <2> HIDE DEF ToRead, RepackTypeOK
  <2> QED
    BY Zenon, <2>1, <2>2, <2>3
<1>3. ASSUME rfailed' PROVE NothingForgotten'
  BY ZenonT(30), <1>3
<1>4. ASSUME NEW w \in Downloaders, KeepBlob(w) PROVE NothingForgotten'
  <2>1. \A v \in Downloaders : ToRead(v) \ wblob[w] \subseteq ToRead(v)'
    BY SMTT(30), <1>4 DEF KeepBlob
  <2>2. toKeep' = toKeep \ wblob[w] /\ UNCHANGED <<queue, offered, rfailed, rcancelled>>
    BY ZenonT(30), <1>4 DEF KeepBlob, queueVars
  <2> HIDE DEF ToRead
  <2> QED
    BY ZenonT(30), <2>1, <2>2
<1>5. ASSUME UNCHANGED <<queue, offered, toKeep>>, Stopped => Stopped', \A w \in Downloaders : ToRead(w) \subseteq ToRead(w)'
      PROVE  NothingForgotten'
  <2> HIDE DEF ToRead, Stopped
  <2> QED
    BY ZenonT(30), <1>5
<1>6. ASSUME NEW w \in Downloaders, WorkerStep(w), ~TakePack(w), ~KeepBlob(w), ~rfailed'
      PROVE  UNCHANGED <<queue, offered, toKeep>> /\ (Stopped => Stopped') /\ \A v \in Downloaders : ToRead(v) \subseteq ToRead(v)'
  <2>1. ASSUME NEW c, WorkerError(w, c) PROVE FALSE
    BY SMTT(30), <1>6, <2>1 DEF WorkerError
  <2>2. CASE WorkerEnds(w) \/ StreamEnds(w)
    BY SMTT(30), <2>2 DEF WorkerEnds, StreamEnds, queueVars
  <2>6. CASE StartStream(w)
    BY SMTT(30), <2>1, <2>6 DEF StartStream, queueVars
  <2>3. CASE StreamFails(w)
    BY ZenonT(30), <2>1, <2>3 DEF StreamFails, AtHand, queueVars
  <2>5. CASE \E b \in RBlob : ReadBlob(w, b)
    <3>1. UNCHANGED <<queue, offered, toKeep, rfailed, rcancelled>>
      BY ZenonT(30), <2>5 DEF ReadBlob, queueVars, endVars
    <3>2. \A v \in Downloaders : v # w => ToRead(v)' = ToRead(v)
      BY SMTT(30), <2>5 DEF ReadBlob
    <3>3. ToRead(w) \subseteq ToRead(w)'
      BY SMTT(30), <2>5 DEF ReadBlob
    <3>4. \A v \in Downloaders : ToRead(v) \subseteq ToRead(v)'
      <4> HIDE DEF ToRead
      <4> QED
        BY Zenon, <3>2, <3>3
    <3> QED
      BY Zenon, <3>1, <3>4
  <2>4. CASE LoadCopy(w) \/ CopyLoaded(w) \/ SaveKeptBlob(w)
    BY SMTT(30), <2>4 DEF LoadCopy, CopyLoaded, SaveKeptBlob, queueVars
  <2> QED
    BY ZenonT(30), <1>6, <2>1, <2>2, <2>3, <2>4, <2>5, <2>6 DEF WorkerStep, CopyFails, SaveKeptFails
<1>7. ASSUME UNCHANGED <<wpc, wblobs, wleft, wblob>> PROVE \A v \in Downloaders : ToRead(v) \subseteq ToRead(v)'
  BY ZenonT(30), <1>7
<1> HIDE DEF ToRead, NothingForgotten
<1> QED
  BY ZenonT(30), <1>1, <1>2, <1>3, <1>4, <1>5, <1>6, <1>7
     DEF RepackNext, UploadStep, RepackEndStep, repackVars, queueVars, UploadToken, UploadEnds,
         CloseQueue, OfferCancelled, FlushPacker, RepackReturns, RepackFails, CancelRepack

\* The queue is closed before workers end, and they end before Repack returns.
LEMMA RepackPhasesStep == ASSUME RepackInv, [RepackNext]_repackVars PROVE RepackPhases'
<1> USE DEF RepackInv, RepackTypeOK, RepackPhases, Stopped, WorkersDone, queueVars, workerVars, uploadVars, endVars, WGoto
<1>1. ASSUME NEW w \in Downloaders, NEW c, WorkerError(w, c), wpc[w] # "done" PROVE RepackPhases'
  BY SMTT(30), <1>1 DEF WorkerError
<1>2. ASSUME NEW w \in Downloaders, TakePack(w) \/ WorkerEnds(w) PROVE RepackPhases'
  BY SMTT(30), <1>2 DEF TakePack, WorkerEnds
<1>3. ASSUME NEW w \in Downloaders, StartStream(w) \/ StreamEnds(w) PROVE RepackPhases'
  BY SMTT(30), <1>1, <1>3 DEF StartStream, StreamEnds
<1>11. ASSUME NEW w \in Downloaders, StreamFails(w) PROVE RepackPhases'
  BY SMTT(30), <1>1, <1>11 DEF StreamFails
<1>4. ASSUME NEW w \in Downloaders, LoadCopy(w) \/ CopyLoaded(w) \/ KeepBlob(w) PROVE RepackPhases'
  BY SMTT(30), <1>4 DEF LoadCopy, CopyLoaded, KeepBlob
<1>10. ASSUME NEW w \in Downloaders, NEW b \in RBlob, ReadBlob(w, b) PROVE RepackPhases'
  BY SMTT(30), <1>10 DEF ReadBlob
<1>5. ASSUME NEW w \in Downloaders, SaveKeptBlob(w) \/ SaveKeptFails(w) \/ CopyFails(w) PROVE RepackPhases'
  BY SMTT(30), <1>1, <1>5 DEF SaveKeptBlob, SaveKeptFails, CopyFails
<1>6. ASSUME NEW p \in upWait \cup upBusy, UploadToken(p) \/ UploadEnds(p) PROVE RepackPhases'
  BY SMTT(30), <1>6 DEF UploadToken, UploadEnds
<1>7. ASSUME NEW p \in OldPack, OfferPack(p) PROVE RepackPhases'
  BY SMTT(30), <1>7, RepackAssumption DEF OfferPack
<1>8. ASSUME RepackEndStep PROVE RepackPhases'
  <2>1. CASE CloseQueue \/ OfferCancelled
    BY SMTT(30), <2>1 DEF CloseQueue, OfferCancelled
  <2>2. CASE FlushPacker \/ RepackFails
    BY SMTT(30), <2>2 DEF FlushPacker, RepackFails
  <2>3. CASE RepackReturns
    BY SMTT(30), <2>3 DEF RepackReturns
  <2> QED
    BY <1>8, <2>1, <2>2, <2>3 DEF RepackEndStep
<1>12. CASE CancelRepack
  BY SMTT(30), <1>12 DEF CancelRepack
<1>9. CASE UNCHANGED repackVars
  BY SMTT(30), <1>9 DEF repackVars
<1> QED
  BY ZenonT(30), <1>2, <1>3, <1>4, <1>5, <1>6, <1>7, <1>8, <1>9, <1>10, <1>11, <1>12 DEF RepackNext, WorkerStep, UploadStep

\* A blob that was taken off keepBlobs goes on, or somebody fails.
LEMMA NothingDroppedStep == ASSUME RepackInv, [RepackNext]_repackVars PROVE NothingDropped'
<1> USE DEF RepackInv, RepackTypeOK, NothingDropped, Saving, WGoto, uploadVars, endVars
<1>1. ASSUME NEW w \in Downloaders, KeepBlob(w) PROVE NothingDropped'
  BY SMTT(30), <1>1 DEF KeepBlob, AtHand
<1>2. ASSUME NEW w \in Downloaders, SaveKeptBlob(w) PROVE NothingDropped'
  <2>1. toKeep' = toKeep /\ rfailed' = rfailed /\ inNew' = inNew /\ upBusy' = upBusy
    BY SMTT(30), <1>2 DEF SaveKeptBlob
  <2>2. /\ packer \cup wblob[w] \subseteq packer' \cup UNION upWait'
        /\ UNION upWait \subseteq UNION upWait'
    BY ZenonT(30), <1>2 DEF SaveKeptBlob
  <2>3. \A v \in Downloaders : v # w => Saving(v)' = Saving(v)
    BY SMTT(30), <1>2 DEF SaveKeptBlob
  <2>4. Saving(w) = wblob[w]
    BY <1>2 DEF SaveKeptBlob
  <2>5. packer \cup wblob[w] \cup inNew \cup UNION (upWait \cup upBusy) \subseteq packer' \cup inNew' \cup UNION (upWait' \cup upBusy')
    BY SMTT(30), <2>1, <2>2
  <2> HIDE DEF Saving
  <2> QED
    <3>1. SUFFICES ASSUME ~rfailed, NEW b \in KeepBlobs \ toKeep
                   PROVE  \/ b \in packer' \cup inNew' \cup UNION (upWait' \cup upBusy')
                          \/ \E v \in Downloaders : b \in Saving(v)'
      BY Zenon, <2>1
    <3>2. CASE b \in packer \cup inNew \cup UNION (upWait \cup upBusy)
      BY Zenon, <3>2, <2>5
    <3>3. ASSUME NEW v \in Downloaders, b \in Saving(v), v # w PROVE b \in Saving(v)'
      BY Zenon, <3>3, <2>3
    <3>4. ASSUME b \in Saving(w) PROVE b \in packer' \cup inNew' \cup UNION (upWait' \cup upBusy')
      BY SMT, <3>4, <2>4, <2>5
    <3> QED
      BY Zenon, <3>1, <3>2, <3>3, <3>4
<1>3. ASSUME NEW p \in upWait \cup upBusy, UploadToken(p) \/ UploadEnds(p) PROVE NothingDropped'
  BY SMTT(30), <1>3 DEF UploadToken, UploadEnds
<1>4. ASSUME FlushPacker PROVE NothingDropped'
  BY SMTT(30), <1>4 DEF FlushPacker
<1>5. ASSUME UNCHANGED <<toKeep, packer, inNew, upWait, upBusy>>, rfailed => rfailed',
             ~rfailed' => \A v \in Downloaders : Saving(v) \subseteq Saving(v)'
      PROVE  NothingDropped'
  BY SMTT(30), <1>5
<1>6. ASSUME NEW w \in Downloaders, WorkerStep(w), ~KeepBlob(w), ~SaveKeptBlob(w)
      PROVE  /\ UNCHANGED <<toKeep, packer, inNew, upWait, upBusy>> /\ (rfailed => rfailed')
             /\ ~rfailed' => \A v \in Downloaders : Saving(v) \subseteq Saving(v)'
  <2>1. ASSUME NEW c, WorkerError(w, c)
        PROVE  UNCHANGED <<toKeep, packer, inNew, upWait, upBusy>> /\ rfailed'
    BY SMTT(30), <2>1 DEF WorkerError
  <2>2. CASE StartStream(w) \/ StreamFails(w) \/ CopyFails(w) \/ SaveKeptFails(w)
    BY SMTT(30), <2>1, <2>2 DEF StartStream, StreamFails, CopyFails, SaveKeptFails
  <2>3. CASE TakePack(w) \/ WorkerEnds(w) \/ StreamEnds(w) \/ LoadCopy(w) \/ CopyLoaded(w)
    BY ZenonT(30), <2>3 DEF TakePack, WorkerEnds, StreamEnds, LoadCopy, CopyLoaded
  <2>4. CASE \E b \in RBlob : ReadBlob(w, b)
    BY SMTT(30), <2>4 DEF ReadBlob
  <2> QED
    BY ZenonT(30), <1>6, <2>2, <2>3, <2>4 DEF WorkerStep
<1>7. ASSUME UNCHANGED <<wpc, wblob>> PROVE \A v \in Downloaders : Saving(v) \subseteq Saving(v)'
  BY ZenonT(30), <1>7
<1> QED
  BY ZenonT(30), <1>1, <1>2, <1>3, <1>4, <1>5, <1>6, <1>7
     DEF RepackNext, UploadStep, RepackEndStep, repackVars, OfferPack,
         CloseQueue, OfferCancelled, RepackReturns, RepackFails, CancelRepack

\* keepBlobs is tested and changed in one step, so only one worker copies a blob.
LEMMA TakenOnceStep == ASSUME RepackInv, [RepackNext]_repackVars PROVE TakenOnce'
<1> USE DEF RepackInv, RepackTypeOK, TakenOnce, CopiedOnce, Saving, WGoto
<1>1. ASSUME NEW w \in Downloaders, KeepBlob(w) PROVE TakenOnce'
  BY SMTT(30), <1>1 DEF KeepBlob, AtHand
<1>2. ASSUME NEW w \in Downloaders, SaveKeptBlob(w) PROVE TakenOnce'
  <2>1. /\ toKeep' = toKeep /\ Saving(w)' = {} /\ \A v \in Downloaders : v # w => Saving(v)' = Saving(v)
        /\ \A b \in RBlob : copied'[b] = copied[b] + (IF b \in Saving(w) THEN 1 ELSE 0)
    BY SMTT(30), <1>2 DEF SaveKeptBlob
  <2>2. \A v \in Downloaders : Saving(v) \subseteq RBlob
    OBVIOUS
  <2>3. \A b \in RBlob : b \notin wblob[w] => copied'[b] = copied[b]
    BY SMTT(30), <1>2 DEF SaveKeptBlob
  <2>6. Saving(w) = wblob[w]
    BY <1>2 DEF SaveKeptBlob
  <2>4. toKeep \subseteq RBlob
    BY RepackAssumption
  <2>5. CopiedOnce'
    BY SMTT(30), <2>1, <2>2
  <2> HIDE DEF Saving
  <2> QED
    BY ZenonT(30), <2>1, <2>2, <2>3, <2>4, <2>5, <2>6
<1>3. ASSUME UNCHANGED <<copied, toKeep>>, \A w \in Downloaders : Saving(w)' \subseteq Saving(w) PROVE TakenOnce'
  BY SMTT(30), <1>3
<1>4. ASSUME NEW w \in Downloaders, WorkerStep(w), ~KeepBlob(w), ~SaveKeptBlob(w)
      PROVE  UNCHANGED <<copied, toKeep>> /\ \A v \in Downloaders : Saving(v)' \subseteq Saving(v)
  BY ZenonT(30), <1>4 DEF WorkerStep, TakePack, WorkerEnds, StartStream, ReadBlob, StreamEnds, StreamFails, LoadCopy, CopyLoaded, CopyFails,
     SaveKeptFails, WorkerError
<1>5. ASSUME UNCHANGED <<wpc, wblob>> PROVE \A v \in Downloaders : Saving(v)' \subseteq Saving(v)
  BY ZenonT(30), <1>5
<1> QED
  BY ZenonT(30), <1>1, <1>2, <1>3, <1>4, <1>5
     DEF RepackNext, UploadStep, RepackEndStep, repackVars, OfferPack, UploadToken, UploadEnds,
         CloseQueue, OfferCancelled, FlushPacker, RepackReturns, RepackFails, CancelRepack

\* A blob that is copied for the first time is in no new pack yet.
LEMMA NewPacksApartStep == ASSUME RepackInv, [RepackNext]_repackVars PROVE NewPacksApart'
<1> USE DEF RepackInv, RepackTypeOK, NewPacksApart, TakenOnce, CopiedOnce, uploadVars
<1>1. ASSUME NEW w \in Downloaders, SaveKeptBlob(w) PROVE NewPacksApart'
  BY SMTT(30), <1>1 DEF SaveKeptBlob, AtHand, Saving
<1>2. ASSUME NEW p \in upWait \cup upBusy, UploadToken(p) \/ UploadEnds(p) PROVE NewPacksApart'
  BY SMTT(30), <1>2 DEF UploadToken, UploadEnds
<1>3. ASSUME FlushPacker PROVE NewPacksApart'
  BY SMTT(30), <1>3 DEF FlushPacker
<1>4. CASE UNCHANGED <<packer, upWait, upBusy, copied>>
  BY SMTT(30), <1>4
<1> QED
  BY <1>1, <1>2, <1>3, <1>4, Zenon
     DEF RepackNext, WorkerStep, UploadStep, RepackEndStep, repackVars, OfferPack, TakePack, WorkerEnds, StartStream,
       ReadBlob, StreamEnds, StreamFails, LoadCopy, CopyLoaded, CopyFails, KeepBlob, SaveKeptFails, WorkerError,
       CloseQueue, OfferCancelled, RepackReturns, RepackFails, CancelRepack

\* Workers go through their blobs one by one.
LEMMA AtHandStep == ASSUME RepackInv, [RepackNext]_repackVars PROVE AtHand'
<1> USE DEF RepackInv, RepackTypeOK, AtHand, workerVars, WGoto
<1>1. ASSUME NEW w \in Downloaders, NEW c, WorkerError(w, c) PROVE AtHand'
  BY SMTT(30), <1>1 DEF WorkerError
<1>2. ASSUME NEW w \in Downloaders, TakePack(w) \/ WorkerEnds(w) PROVE AtHand'
  BY SMTT(30), <1>2 DEF TakePack, WorkerEnds, RepackPhases
<1>3. ASSUME NEW w \in Downloaders, StartStream(w) \/ StreamEnds(w) \/ StreamFails(w) PROVE AtHand'
  BY SMTT(30), <1>1, <1>3 DEF StartStream, StreamEnds, StreamFails
<1>4. ASSUME NEW w \in Downloaders, NEW b \in RBlob, ReadBlob(w, b) PROVE AtHand'
  BY SMTT(30), <1>4 DEF ReadBlob
<1>5. ASSUME NEW w \in Downloaders, LoadCopy(w) \/ CopyLoaded(w) \/ KeepBlob(w) \/ SaveKeptBlob(w) PROVE AtHand'
  BY SMTT(30), <1>5 DEF LoadCopy, CopyLoaded, KeepBlob, SaveKeptBlob
<1>6. CASE UNCHANGED <<wpc, wblobs, wblob, wleft>>
  BY ZenonT(30), <1>6
<1> QED
  BY ZenonT(30), <1>1, <1>2, <1>3, <1>4, <1>5, <1>6
     DEF RepackNext, WorkerStep, UploadStep, RepackEndStep, repackVars, CopyFails, SaveKeptFails, OfferPack, UploadToken, UploadEnds,
         CloseQueue, OfferCancelled, FlushPacker, RepackReturns, RepackFails, CancelRepack

\* Types stay right.
LEMMA RepackTypesStep == ASSUME RepackInv, [RepackNext]_repackVars PROVE RepackTypeOK'
<1> USE DEF RepackInv, RepackTypeOK, queueVars, workerVars, uploadVars, endVars, WGoto
<1>1. conns' \in 0 .. Conns
  BY ConnsBounded
<1>2. ASSUME NEW w \in Downloaders, NEW c, WorkerError(w, c) PROVE RepackTypeOK'
  BY SMTT(30), <1>1, <1>2, RepackAssumption DEF WorkerError
<1>3. ASSUME NEW w \in Downloaders, TakePack(w) \/ WorkerEnds(w) PROVE RepackTypeOK'
  BY SMTT(30), <1>1, <1>3 DEF TakePack, WorkerEnds
<1>4. ASSUME NEW w \in Downloaders, StartStream(w) \/ StreamEnds(w) PROVE RepackTypeOK'
  BY SMTT(30), <1>1, <1>2, <1>4, RepackAssumption DEF StartStream, StreamEnds
<1>5. ASSUME NEW w \in Downloaders, StreamFails(w) PROVE RepackTypeOK'
  BY SMTT(30), <1>1, <1>2, <1>5, RepackAssumption DEF StreamFails
<1>6. ASSUME NEW w \in Downloaders, NEW b \in RBlob, ReadBlob(w, b) PROVE RepackTypeOK'
  BY SMTT(30), <1>1, <1>6 DEF ReadBlob
<1>7. ASSUME NEW w \in Downloaders, LoadCopy(w) \/ CopyLoaded(w) \/ KeepBlob(w) PROVE RepackTypeOK'
  BY SMTT(30), <1>1, <1>7 DEF LoadCopy, CopyLoaded, KeepBlob
<1>8. ASSUME NEW w \in Downloaders, SaveKeptBlob(w) PROVE RepackTypeOK'
  BY SMTT(30), <1>1, <1>8 DEF SaveKeptBlob
<1>9. ASSUME NEW p \in upWait \cup upBusy, UploadToken(p) \/ UploadEnds(p) PROVE RepackTypeOK'
  BY ZenonT(30), <1>1, <1>9 DEF UploadToken, UploadEnds
<1>10. ASSUME NEW p \in OldPack, OfferPack(p) PROVE RepackTypeOK'
  BY SMTT(30), <1>1, <1>10 DEF OfferPack, RBlob
<1>11. ASSUME RepackEndStep \/ CancelRepack \/ UNCHANGED repackVars PROVE RepackTypeOK'
  BY ZenonT(30), <1>1, <1>11 DEF RepackEndStep, CloseQueue, OfferCancelled, FlushPacker, RepackReturns, RepackFails, CancelRepack, repackVars
<1> QED
  BY ZenonT(30), <1>2, <1>3, <1>4, <1>5, <1>6, <1>7, <1>8, <1>9, <1>10, <1>11
     DEF RepackNext, WorkerStep, UploadStep, CopyFails, SaveKeptFails

\* When Repack returns nil every blob it has taken off keepBlobs is in a new pack, and without
\* cancellation that is every blob that was to be kept; no blob is copied twice although packs
\* share blobs, blobs are damaged, and downloads are repeated; and no connection is given back
\* that was not taken.
THEOREM RepackIsExact == RepackSpec => []RepackExact
<1>1. RepackInv /\ [RepackNext]_repackVars => RepackInv'
  BY RepackTypesStep, ConnsStep, AtHandStep, RepackPhasesStep, TakenOnceStep, NewPacksApartStep,
     NothingDroppedStep, NothingForgottenStep DEF RepackInv
<1> QED
  BY RepackInitInv, <1>1, RepackInvMeans, PTL DEF RepackSpec
=============================================================================
