-------------------------- MODULE WriteBackKeepProofs --------------------------
(***************************************************************************)
(* What is closed into a file is kept, and read back: for any files, ids,  *)
(* handles and contents, with uploads given up, lost answers, evictions,   *)
(* listings and crashes, when no two activities overlap on one file.       *)
(*                                                                         *)
(* NoLostUpdate speaks of one place, the dirty copy or Drive's; the bytes  *)
(* get there from a buffer, by way of the keys that open() and the uploader*)
(* read.  The invariant says what may lie in each of these (Buffers,       *)
(* Caches), that files, ids, rows and handles belong together (FileIds,    *)
(* FileRows, UploadRows, HandleIds, Unused), and that what a callback or   *)
(* an upload still needs is not taken away (DirtyCached ... DownloadClean).*)
(***************************************************************************)
EXTENDS WriteBackProofs

\* No two activities overlap on a file, and downloads for open() succeed.
NoOverlap == Disturbances \subseteq {"lostReply", "gone", "sum"}

\* No placeholder id is given out again for another file: handles are numbered
\* afresh by a restart only, which must then find no row that they could meet.
NoReuse ==
    \/ MaxCrashes = 0
    \/ (\A f, g \in NewFiles : f = g) /\ "gone" \notin Disturbances

\* The files that keep what is closed into them: the old ones in any case.
KeptFiles == IF NoReuse THEN Files ELSE OldFiles

\* A file has an id to itself, and something is expected of it until it is
\* given up.
FileIds ==
    /\ \A f \in OldFiles : idOf[f] = f
    /\ \A f \in NewFiles : idOf[f] \in SpareIds \cup PendingIds \cup {NoId}
    /\ \A f \in KeptFiles, g \in Files : idOf[f] = idOf[g] /\ idOf[f] # NoId => f = g
    /\ \A f \in KeptFiles :
          accepted[f] = {} <=> \/ idOf[f] = NoId
                               \/ uploader.phase = "forget" /\ uploader.id = idOf[f]

\* The row of a file is the one under its id, and has its inode.
FileRows ==
    \A f \in KeptFiles :
        /\ \A id \in Ids : row[id] # "none" /\ rowFile[id] = f => Home(f) = id
        /\ idOf[f] # NoId /\ row[Home(f)] # "none" => rowFile[Home(f)] = f

\* The rows of the entry in hand, and of the id that Drive has given to it.
UploadRows ==
    /\ uploader.phase \in {"migrate", "publish", "replace"} => row[uploader.id] # "dirty"
    /\ uploader.phase = "forget" => row[uploader.id] = "none"
    /\ uploader.newId # NoId =>
          /\ uploader.phase \notin {"idle", "pick"}
          /\ uploader.newId \in SpareIds /\ row[uploader.newId] # "dirty"
          /\ \A f \in Files : idOf[f] # uploader.newId
          /\ \A h \in Handles : handle[h].id # uploader.newId
    /\ uploader.phase = "finalize" =>
          row[uploader.newId] = "none" /\ content[uploader.newId] = NoBytes

\* The id of a handle is that of its file, or the placeholder's that the file
\* had when it was opened.  The handle of create() is there before any row.
HandleId(h) ==
    LET f == handle[h].file
        id == handle[h].id
    IN  /\ \/ idOf[f] = id
           \/ /\ handle[h].phase \in {"open", "mark"}
              /\ id \in PendingIds /\ ~handle[h].created
              /\ idOf[f] = NoId \/ (handle[h].phase = "open" /\ idOf[f] \in SpareIds)
        /\ handle[h].created =>
              idOf[f] = id /\ row[id] = "none" /\ uploader.id # id
HandleIds ==
    \A h \in Handles : handle[h].phase # "closed" =>
        /\ handle[h].file \in KeptFiles => HandleId(h)
        /\ \A f \in KeptFiles : idOf[f] = handle[h].id => handle[h].file = f
        /\ \A g \in Handles : handle[g].phase # "closed" /\ g # h =>
              /\ handle[g].file # handle[h].file
              /\ handle[g].phase \in Started => handle[h].phase \notin Started

\* Nothing refers to a placeholder's id yet.
Fresh(pid) ==
    /\ row[pid] = "none" /\ uploader.id # pid
    /\ \A h \in Handles : handle[h].id # pid
    /\ \A f \in Files : idOf[f] # pid
Unused ==
    /\ MaxCrashes = 0 => \A pid \in PendingIds \ mounted : Fresh(pid)
    /\ NoReuse /\ MaxCrashes # 0 =>
          /\ uploader.phase \notin {"abandon", "forget"}
          /\ \A pid \in PendingIds : row[pid] # "none" => rowFile[pid] \in NewFiles
          /\ (\E f \in NewFiles : idOf[f] = NoId) => \A pid \in PendingIds : Fresh(pid)

\* The local copy of a dirty file is there, and neither the cleaner nor the
\* worker is about to touch it.
DirtyCached == \A id \in Ids : row[id] = "dirty" => content[id] # NoBytes
\* What Drive has not given out is not cached.
Unborn == \A id \in DriveIds : drive[id] = NoBytes => content[id] = NoBytes
CleanerApart ==
    cleaner # NoBytes =>
        /\ cleaner \notin PendingIds
        /\ cleaner \in DriveIds => row[cleaner] # "dirty"
        /\ \A h \in Handles : handle[h].phase \in Started =>
              cleaner \notin {handle[h].id, CacheKey(handle[h].id)}
DownloadClean ==
    worker # NoDownload =>
        /\ row[worker.id] # "dirty"
        /\ \A h \in Handles : handle[h].phase = "mark" => handle[h].id # worker.id

\* A buffer that was not written to, or was flushed since, is as expected, and
\* what release() is about to mark as dirty is in the cache.
Seeded(h) ==
    handle[h].phase \in {"open", "mark"} /\ (handle[h].wrote => handle[h].flushed)
Buffer(h) ==
    LET f == handle[h].file
        id == handle[h].id
        b == handle[h].bytes
    IN  /\ Seeded(h) /\ f \in KeptFiles /\ accepted[f] # {} => b \in accepted[f]
        /\ handle[h].phase = "mark" => handle[h].flushed /\ content[id] = b
        /\ (/\ handle[h].phase = "open" /\ handle[h].flushed
            /\ f \in KeptFiles /\ Home(f) = id /\ id \in PendingIds)
              => content[id] = b
        /\ handle[h].phase \in {"fetch", "seed"} =>
              id \in DriveIds /\ row[id] # "dirty"
        /\ handle[h].phase = "seed" => content[CacheKey(id)] # NoBytes
Buffers == \A h \in Handles : Buffer(h)

\* What a restart would find, and what open() would, is as expected.
Cache(f) ==
    accepted[f] # {} =>
        /\ Durable(f) \in accepted[f]
        /\ Home(f) \in DriveIds /\ row[Home(f)] # "dirty" =>
              content[Home(f)] \in accepted[f] \cup {NoBytes}
        /\ (/\ Home(f) \in PendingIds
            /\ \A h \in Handles : handle[h].phase # "closed" => handle[h].file # f)
              => content[Home(f)] \in accepted[f]
Caches == \A f \in KeptFiles : Cache(f)

KeepInv ==
    /\ SumsInv
    /\ FileIds /\ FileRows /\ UploadRows /\ HandleIds /\ Unused
    /\ DirtyCached /\ Unborn /\ CleanerApart /\ DownloadClean
    /\ Buffers /\ Caches

-----------------------------------------------------------------------------
(* What the parts of such a step do.                                        *)

\* Which files these are.
LEMMA KeptFacts ==
         /\ OldFiles \subseteq KeptFiles /\ KeptFiles \subseteq Files
         /\ Files = OldFiles \cup NewFiles /\ OldFiles \cap NewFiles = {}
         /\ NoFile \notin Files
         /\ \A f \in KeptFiles : f \in NewFiles => NoReuse
         /\ NoReuse => KeptFiles = Files
BY NamesAssumption DEF KeptFiles, Files

\* What the guards say without the disturbances.
LEMMA Alone ==
  ASSUME NoOverlap
  PROVE  /\ UploadsApart
         /\ \A id : MayAccess(id) =>
               /\ ~Uploading(id) /\ worker.id # id
               /\ cleaner # id /\ cleaner # CacheKey(id)
         /\ \A h : ~OpenUnseeded(h)
         /\ \A id : Load(id) => ~InCallback(id) /\ worker.id # id
         /\ StoreListed => ~InCallback(answer.id)
         /\ \A h, f : Openable(h, f) => \A g \in Handles : handle[g].file # f
<1>1. Disturbances \cap {"upload", "cleaner", "reader", "handle", "relist",
                         "fetchErr"} = {}
  BY DEF NoOverlap
<1> QED BY <1>1 DEF UploadsApart, MayAccess, OpenUnseeded, Load, StoreListed,
              Openable

\* The types that the lemmas below need.
LEMMA KeepTypes ==
  ASSUME SumsInv
  PROVE  /\ idOf \in [Files -> Ids \cup {NoId}]
         /\ md5Of \in [Ids -> Bytes \cup {NoBytes}]
         /\ row \in [Ids -> {"none", "clean", "dirty"}]
         /\ rowFile \in [Ids -> Files \cup {NoFile}]
         /\ content \in [Keys -> Bytes \cup {NoBytes}]
         /\ drive \in [DriveIds -> Bytes \cup {NoBytes}]
         /\ handle \in [Handles -> HandleState]
         /\ accepted \in [Files -> SUBSET Bytes]
         /\ \A h \in Handles :
               /\ handle[h].phase \in {"closed", "fetch", "seed", "open", "mark"}
               /\ handle[h].bytes \in Bytes /\ handle[h].bytes # NoBytes
               /\ handle[h].phase # "closed" =>
                     handle[h].id \in Ids /\ handle[h].file \in Files
         /\ uploader.phase \notin {"idle", "pick"} => uploader.id \in Ids
         /\ uploader.phase \in {"send", "clear", "finalize", "abandon"} =>
               row[uploader.id] = "dirty"
<1>1. IndInv
  BY DEF SumsInv
<1>2. \A h \in Handles : handle[h] \in HandleState
  BY <1>1 DEF IndInv, TypeOK
<1>3. \A h \in Handles :
         /\ handle[h].phase \in {"closed", "fetch", "seed", "open", "mark"}
         /\ handle[h].bytes \in Bytes /\ handle[h].bytes # NoBytes
  BY <1>2, Apartness DEF HandleState
<1> QED BY <1>1, <1>3 DEF IndInv, TypeOK, HandleShape, UploaderShape

\* Where a file is to be found is its id, unless Drive has just given it another.
LEMMA HomeIs ==
  ASSUME SumsInv, NEW f \in Files
  PROVE  /\ Home(f) \in Ids \cup {NoId}
         /\ idOf[f] = NoId <=> Home(f) = NoId
         /\ \/ Home(f) = idOf[f]
            \/ /\ Home(f) = uploader.newId /\ Home(f) \in DriveIds
               /\ idOf[f] = uploader.id /\ idOf[f] \in PendingIds
               /\ uploader.phase \in {"migrate", "replace"}
               /\ Uploading(idOf[f]) /\ Uploading(Home(f))
         /\ ~Uploading(Home(f)) \/ ~Uploading(idOf[f]) => Home(f) = idOf[f]
         /\ Home(f) \in PendingIds \/ idOf[f] \in DriveIds => Home(f) = idOf[f]
         /\ uploader.phase \notin {"migrate", "replace"} => Home(f) = idOf[f]
         /\ Home(f) = uploader.id /\ Home(f) # NoId => uploader.newId = NoId
                \/ uploader.phase \notin {"migrate", "replace"}
<1>1. idOf[f] \in Ids \cup {NoId}
  BY KeepTypes
<1>2. CASE /\ idOf[f] = uploader.id /\ uploader.phase \in {"migrate", "replace"}
           /\ uploader.newId # NoId
  <2>1. Home(f) = uploader.newId
    BY <1>2 DEF Home
  <2>2. uploader.newId \in DriveIds /\ uploader.id \in PendingIds
    BY <1>2, UploaderRecord DEF SumsInv, Sent
  <2>3. Uploading(uploader.id) /\ Uploading(uploader.newId)
    BY <1>2 DEF Uploading
  <2> QED BY <1>2, <2>1, <2>2, <2>3, Apartness
<1>3. CASE ~(/\ idOf[f] = uploader.id /\ uploader.phase \in {"migrate", "replace"}
             /\ uploader.newId # NoId)
  <2>1. Home(f) = idOf[f]
    BY <1>3 DEF Home
  <2> QED BY <1>1, <1>3, <2>1
<1> QED BY <1>2, <1>3

\* create() hands out an id that nothing refers to.
LEMMA CreateFresh ==
  ASSUME Unused, NoReuse, NEW h \in Handles, NEW f \in Files,
         NEW pid \in PendingIds, Create(h, f, pid)
  PROVE  Fresh(pid)
BY DEF Unused, NoReuse, Create

\* A file moves to the id Drive has given it when finalize_new_file does.
LEMMA HomeStep ==
  ASSUME KeepInv, [Next]_vars, NEW f \in KeptFiles
  PROVE  \/ /\ Home(f)' = Home(f)
            /\ Finalize => Home(f) # uploader.id
         \/ /\ Finalize /\ Home(f) = uploader.id /\ idOf[f] = uploader.id
            /\ Home(f)' = uploader.newId
         \/ \E h \in Handles, pid \in PendingIds :
               /\ Create(h, f, pid) /\ Fresh(pid)
               /\ Home(f)' = pid /\ idOf'[f] = pid
         \/ /\ Forget /\ idOf[f] = uploader.id
            /\ Home(f)' = NoId /\ idOf'[f] = NoId
         \/ Crash /\ Home(f)' = idOf'[f]
<1> DEFINE Goal ==
         \/ /\ Home(f)' = Home(f)
            /\ Finalize => Home(f) # uploader.id
         \/ /\ Finalize /\ Home(f) = uploader.id /\ idOf[f] = uploader.id
            /\ Home(f)' = uploader.newId
         \/ \E h \in Handles, pid \in PendingIds :
               /\ Create(h, f, pid) /\ Fresh(pid)
               /\ Home(f)' = pid /\ idOf'[f] = pid
         \/ /\ Forget /\ idOf[f] = uploader.id
            /\ Home(f)' = NoId /\ idOf'[f] = NoId
         \/ Crash /\ Home(f)' = idOf'[f]
<1> USE DEF KeepInv
<1>0. /\ idOf \in [Files -> Ids \cup {NoId}]
      /\ uploader.phase \notin {"idle", "pick"} => uploader.id \in Ids
      /\ NoId \notin Ids /\ PendingIds \subseteq Ids /\ f \in Files
      /\ uploader.phase \in {"finalize", "replace"} => uploader.newId # NoId
      /\ uploader.phase \in {"send", "clear", "publish", "abandon", "forget"} =>
            uploader.newId = NoId
      /\ uploader.newId # NoId => uploader.id \in PendingIds
  BY KeepTypes, KeptFacts, Apartness DEF SumsInv, Sent
<1>1. ASSUME NEW h \in Handles, NEW g \in Files, NEW pid \in PendingIds,
             Create(h, g, pid)
      PROVE  Goal
  <2>1. UNCHANGED uploader /\ idOf' = [idOf EXCEPT ![g] = pid] /\ ~Finalize
    BY <1>1, <1>0 DEF Create, Finalize
  <2>2. CASE g = f
    <3>1. f \in NewFiles
      BY <1>1, <2>2 DEF Create
    <3>2. Fresh(pid)
      BY <1>1, <3>1, KeptFacts, CreateFresh
    <3>3. idOf'[f] = pid /\ uploader'.id # pid
      BY <1>0, <2>1, <2>2, <3>2 DEF Fresh
    <3>4. Home(f)' = pid
      BY <3>3 DEF Home
    <3> QED BY <1>1, <2>2, <3>2, <3>3, <3>4
  <2>3. CASE g # f
    <3>1. idOf'[f] = idOf[f]
      BY <1>0, <2>1, <2>3
    <3> QED BY <2>1, <3>1 DEF Home
  <2> QED BY <2>2, <2>3
<1>2. CASE Finalize
  <2>1. /\ uploader.phase = "finalize" /\ uploader.newId # NoId /\ UNCHANGED idOf
        /\ uploader' = Stage(Settling, uploader.newId)
    BY <1>2, <1>0 DEF Finalize
  <2>2. /\ uploader'.phase \in {"migrate", "replace"} /\ uploader'.id = uploader.id
        /\ uploader'.newId = uploader.newId
    BY <1>0, <2>1, UploaderRecord DEF Settling, SumsInv
  <2>3. Home(f) = idOf[f]
    BY <2>1 DEF Home
  <2>4. Home(f)' = IF idOf[f] = uploader.id THEN uploader.newId ELSE idOf[f]
    BY <2>1, <2>2 DEF Home
  <2> QED BY <1>2, <2>3, <2>4
<1>3. CASE Migrate
  <2>1. /\ uploader.phase = "migrate" /\ UNCHANGED idOf /\ ~Finalize
        /\ uploader' = Stage(IF uploader.id \in PendingIds THEN "replace"
                             ELSE "publish", uploader.newId)
    BY <1>3 DEF Migrate, Finalize
  <2>2. /\ uploader'.id = uploader.id /\ uploader'.newId = uploader.newId
        /\ uploader.newId # NoId => uploader'.phase = "replace"
    BY <1>0, <2>1, UploaderRecord DEF SumsInv
  <2> QED BY <2>1, <2>2 DEF Home
<1>4. CASE Replace
  <2>1. /\ uploader.phase = "replace" /\ uploader.newId # NoId /\ ~Finalize
        /\ uploader'.phase \in {"idle", "pick"}
        /\ idOf'[f] = IF idOf[f] = uploader.id THEN uploader.newId ELSE idOf[f]
    BY <1>0, <1>4, UploaderRecord DEF Replace, Finalize, SumsInv
  <2> QED BY <2>1 DEF Home
<1>5. CASE Forget
  <2>1. /\ uploader.phase = "forget" /\ ~Finalize
        /\ uploader'.phase \in {"idle", "pick"}
        /\ idOf'[f] = IF idOf[f] = uploader.id THEN NoId ELSE idOf[f]
    BY <1>0, <1>5, UploaderRecord DEF Forget, Finalize, SumsInv
  <2>2. Home(f) = idOf[f] /\ Home(f)' = idOf'[f]
    BY <2>1 DEF Home
  <2> QED BY <1>5, <2>1, <2>2
<1>6. CASE Crash
  <2>1. Home(f)' = idOf'[f]
    BY <1>6 DEF Crash, Home, Resting
  <2> QED BY <1>6, <2>1
<1>7. CASE Clear
  <2>1. /\ uploader.newId = NoId /\ uploader'.newId = NoId /\ UNCHANGED idOf
        /\ ~Finalize
    BY <1>0, <1>7, UploaderRecord DEF Clear, Finalize, SumsInv
  <2> QED BY <2>1 DEF Home
<1>8. CASE SendUpdate \/ SendCreate \/ SendFails \/ SendParentGone \/ Abandon
              \/ Snapshot \/ Publish \/ \E id \in Ids : Load(id)
  <2>1. UNCHANGED idOf
    BY <1>8 DEF SendUpdate, SendCreate, SendFails, SendParentGone, Abandon,
         Snapshot, Publish, Load
  <2>2. uploader.phase \notin {"migrate", "replace", "finalize"}
    BY <1>8 DEF SendUpdate, SendCreate, SendFails, SendParentGone, Abandon,
         Snapshot, Publish, Load
  <2>3. uploader'.phase \notin {"migrate", "replace"}
    <3>1. ASSUME NEW id \in Ids, Load(id)
          PROVE  uploader'.phase \notin {"migrate", "replace"}
      <4>1. \A q : Turning(q).phase \in {"idle", "pick"}
        BY UploaderRecord DEF SumsInv
      <4> QED BY <3>1, <4>1 DEF Load
    <3> QED BY <1>8, <3>1, UploaderRecord DEF SendUpdate, SendCreate, SendFails,
               SendParentGone, Abandon, Snapshot, Publish, SumsInv
  <2> QED BY <2>1, <2>2, <2>3 DEF Home, Finalize
<1>9. ASSUME UNCHANGED <<idOf, uploader>> PROVE Goal
  <2>1. Home(f)' = Home(f)
    BY <1>9 DEF Home
  <2>2. ~Finalize
    <3>1. SUFFICES ASSUME Finalize PROVE FALSE
      OBVIOUS
    <3>2. uploader.phase = "finalize" /\ uploader'.phase \in UploaderPhase \ {"finalize"}
      BY <3>1, UploaderRecord, AnswerTypes DEF Finalize, SumsInv, IndInv, UploaderPhase
    <3> QED BY <1>9, <3>2
  <2> QED BY <2>1, <2>2
<1> QED BY <1>1, <1>2, <1>3, <1>4, <1>5, <1>6, <1>7, <1>8, <1>9
        DEF Next, vars, OpenCall, Callback, OpenHit, OpenMiss, OpenSeed,
            OpenUnseeded, Mark, Write, Flush, Release, ReleaseEmpty,
            UploaderStep, Fetch, List, StoreFetched, StoreListed, CheckVictim, Evict

\* What a step stores under an id, and who takes a local copy away.
LEMMA StoreStep ==
  ASSUME SumsInv, [Next]_vars, NEW id \in Ids
  PROVE  \/ content'[id] = content[id]
         \/ \E h \in Handles : /\ Flush(h) /\ handle[h].id = id
                               /\ content'[id] = handle[h].bytes
         \/ \E h \in Handles : /\ Release(h) /\ Target(h) = id
                               /\ content'[id] = handle[h].bytes
         \/ /\ StoreFetched /\ worker.id = id /\ CacheKey(id) = id
            /\ content'[id] = worker.bytes
         \/ /\ Finalize /\ id = uploader.newId
            /\ content'[id] = content[uploader.id]
         \/ /\ content'[id] = NoBytes
            /\ \/ Evict /\ cleaner = id
               \/ (Migrate \/ Finalize) /\ uploader.id = id
               \/ Crash /\ row[id] # "dirty"
<1> DEFINE Goal ==
         \/ content'[id] = content[id]
         \/ \E h \in Handles : /\ Flush(h) /\ handle[h].id = id
                               /\ content'[id] = handle[h].bytes
         \/ \E h \in Handles : /\ Release(h) /\ Target(h) = id
                               /\ content'[id] = handle[h].bytes
         \/ /\ StoreFetched /\ worker.id = id /\ CacheKey(id) = id
            /\ content'[id] = worker.bytes
         \/ /\ Finalize /\ id = uploader.newId
            /\ content'[id] = content[uploader.id]
         \/ /\ content'[id] = NoBytes
            /\ \/ Evict /\ cleaner = id
               \/ (Migrate \/ Finalize) /\ uploader.id = id
               \/ Crash /\ row[id] # "dirty"
<1>0. /\ content \in [Keys -> Bytes \cup {NoBytes}]
      /\ id \in Keys /\ id \notin Bytes /\ id # NoBytes
  BY KeepTypes, Apartness
<1>1. ASSUME NEW h \in Handles, Flush(h) PROVE Goal
  <2>1. content' = [content EXCEPT ![handle[h].id] = handle[h].bytes]
    BY <1>1 DEF Flush
  <2> QED BY <1>0, <1>1, <2>1
<1>2. ASSUME NEW h \in Handles, Release(h) PROVE Goal
  <2>1. content' = [content EXCEPT ![Target(h)] = handle[h].bytes]
    BY <1>2 DEF Release
  <2> QED BY <1>0, <1>2, <2>1
<1>3. CASE StoreFetched
  <2>1. /\ worker.id \in DriveIds
        /\ content' = [content EXCEPT ![CacheKey(worker.id)] = worker.bytes]
    BY <1>3 DEF StoreFetched, SumsInv, DownloadFresh
  <2>2. CacheKey(worker.id) \in {worker.id} \cup Bytes
    BY <2>1, KeepTypes, Apartness DEF CacheKey
  <2> QED BY <1>0, <1>3, <2>1, <2>2
<1>4. CASE Finalize
  <2>1. PICK new : /\ content' \in BlobRenamed(uploader.id, new)
                   /\ new = AnsweredSum \/ new = uploader.newId
    BY <1>4 DEF Finalize
  <2>2. AnsweredSum # id
    BY <1>0, AnswerTypes DEF SumsInv, IndInv
  <2>3. \/ content'[id] = content[id]
        \/ id = new /\ content'[id] = content[uploader.id]
        \/ id = uploader.id /\ content'[id] = NoBytes
    BY <1>0, <2>1 DEF BlobRenamed
  <2> QED BY <1>4, <2>1, <2>2, <2>3
<1>5. CASE Migrate
  <2>1. AnsweredSum # id
    BY <1>0, AnswerTypes DEF SumsInv, IndInv
  <2>2. \/ content'[id] = content[id]
        \/ id = uploader.id /\ content'[id] = NoBytes
    BY <1>0, <1>5, <2>1 DEF Migrate
  <2> QED BY <1>5, <2>2
<1>6. CASE Evict
  <2>1. content' = [content EXCEPT ![cleaner] = NoBytes]
    BY <1>6 DEF Evict
  <2> QED BY <1>0, <1>6, <2>1
<1>7. CASE Crash
  <2>1. PICK orphans \in SUBSET {k \in Keys \ Protected : content[k] # NoBytes} :
           content' = [k \in Keys |-> IF k \in orphans THEN NoBytes ELSE content[k]]
    BY <1>7 DEF Crash
  <2>2. row[id] = "dirty" => id \in Protected
    BY DEF Protected, Dirty
  <2> QED BY <1>0, <1>7, <2>1, <2>2
<1>8. CASE UNCHANGED content
  BY <1>8
<1> QED BY <1>1, <1>2, <1>3, <1>4, <1>5, <1>6, <1>7, <1>8
        DEF Next, vars, OpenCall, Callback, OpenHit, OpenMiss, Create, OpenSeed,
            OpenUnseeded, Mark, Write, ReleaseEmpty, UploaderStep, Snapshot,
            Load, SendUpdate, SendCreate, SendFails, SendParentGone, Clear,
            Publish, Replace, Abandon, Forget, Fetch, List, StoreListed, CheckVictim

\* What a step does to a row.
LEMMA RowStep ==
  ASSUME KeepInv, [Next]_vars, NEW id \in Ids
  PROVE  \/ row'[id] = row[id] /\ rowFile'[id] = rowFile[id]
         \/ \E h \in Handles :
               /\ Mark(h) /\ handle[h].id = id /\ row'[id] = "dirty"
               /\ rowFile'[id] = IF row[id] # "none" THEN rowFile[id]
                                 ELSE IF idOf[handle[h].file] = id
                                      THEN handle[h].file ELSE NoFile
         \/ /\ Clear /\ id = uploader.id /\ row'[id] = "clean"
            /\ rowFile'[id] = rowFile[id]
         \/ /\ Finalize /\ id = uploader.newId /\ row'[id] = "clean"
            /\ rowFile'[id] = rowFile[uploader.id]
         \/ (Finalize \/ Abandon) /\ id = uploader.id /\ row'[id] = "none"
<1> DEFINE Goal ==
         \/ row'[id] = row[id] /\ rowFile'[id] = rowFile[id]
         \/ \E h \in Handles :
               /\ Mark(h) /\ handle[h].id = id /\ row'[id] = "dirty"
               /\ rowFile'[id] = IF row[id] # "none" THEN rowFile[id]
                                 ELSE IF idOf[handle[h].file] = id
                                      THEN handle[h].file ELSE NoFile
         \/ /\ Clear /\ id = uploader.id /\ row'[id] = "clean"
            /\ rowFile'[id] = rowFile[id]
         \/ /\ Finalize /\ id = uploader.newId /\ row'[id] = "clean"
            /\ rowFile'[id] = rowFile[uploader.id]
         \/ (Finalize \/ Abandon) /\ id = uploader.id /\ row'[id] = "none"
<1> USE DEF KeepInv
<1>0. /\ row \in [Ids -> {"none", "clean", "dirty"}]
      /\ rowFile \in [Ids -> Files \cup {NoFile}]
      /\ uploader.phase \in {"clear", "finalize", "abandon"} =>
            row[uploader.id] = "dirty"
  BY KeepTypes
<1>1. ASSUME NEW h \in Handles, Mark(h) PROVE Goal
  BY <1>0, <1>1 DEF Mark
<1>2. CASE Clear
  BY <1>0, <1>2 DEF Clear
<1>3. CASE Finalize
  <2>1. row[uploader.id] = "dirty" /\ row[uploader.newId] = "none"
    BY <1>0, <1>3 DEF Finalize, UploadRows
  <2>2. /\ row' = [row EXCEPT ![uploader.id] = "none", ![uploader.newId] = "clean"]
        /\ rowFile' = [rowFile EXCEPT ![uploader.id] = NoFile,
                                      ![uploader.newId] = rowFile[uploader.id]]
    BY <1>3, <2>1 DEF Finalize
  <2> QED BY <1>0, <1>3, <2>2
<1>4. CASE Abandon
  <2>1. /\ row' = [row EXCEPT ![uploader.id] = "none"]
        /\ rowFile' = [rowFile EXCEPT ![uploader.id] = NoFile]
    BY <1>0, <1>4 DEF Abandon
  <2> QED BY <1>0, <1>4, <2>1
<1>5. CASE UNCHANGED <<row, rowFile>>
  BY <1>5
<1> QED BY <1>1, <1>2, <1>3, <1>4, <1>5
        DEF Next, vars, OpenCall, Callback, OpenHit, OpenMiss, Create, OpenSeed,
            OpenUnseeded, Write, Flush, Release, ReleaseEmpty, UploaderStep,
            Snapshot, Load, SendUpdate, SendCreate, SendFails, SendParentGone,
            Migrate, Publish, Replace, Forget, Fetch, List, StoreFetched, StoreListed,
            CheckVictim, Evict, Crash

\* The key of a file stays while no upload, listing or write-back is at it.
LEMMA KeyStep ==
  ASSUME KeepInv, [Next]_vars, NEW id \in Ids, ~Uploading(id)
  PROVE  \/ CacheKey(id)' = CacheKey(id)
         \/ \E h \in Handles : Mark(h) /\ handle[h].id = id
         \/ StoreListed /\ answer.id = id
         \/ Crash
<1> SUFFICES ASSUME ~\E h \in Handles : Mark(h) /\ handle[h].id = id,
                    ~(StoreListed /\ answer.id = id), ~Crash
             PROVE  CacheKey(id)' = CacheKey(id)
  OBVIOUS
<1> USE DEF KeepInv
<1>1. row'[id] = "dirty" <=> row[id] = "dirty"
  <2>1. ASSUME Clear \/ Finalize \/ Abandon PROVE id # uploader.id
    BY <2>1 DEF Clear, Finalize, Abandon, Uploading
  <2>2. ASSUME Finalize PROVE id # uploader.newId
    BY <2>2 DEF Finalize, Uploading
  <2> QED BY <2>1, <2>2, RowStep
<1>2. md5Of'[id] = md5Of[id]
  <2>0. md5Of \in [Ids -> Bytes \cup {NoBytes}]
    BY KeepTypes
  <2>1. CASE StoreListed
    BY <2>0, <2>1 DEF StoreListed
  <2>2. CASE Publish
    BY <2>0, <2>2 DEF Publish, Uploading
  <2>3. CASE Replace
    BY <2>0, <2>3 DEF Replace, Uploading
  <2>4. CASE UNCHANGED md5Of
    BY <2>4
  <2> QED BY <2>1, <2>2, <2>3, <2>4
        DEF Next, vars, OpenCall, Callback, OpenHit, OpenMiss, Create, OpenSeed,
            OpenUnseeded, Mark, Write, Flush, Release, ReleaseEmpty,
            UploaderStep, Snapshot, Load, SendUpdate, SendCreate, SendFails,
            SendParentGone, Clear, Finalize, Migrate, Abandon, Forget, Fetch,
            List, StoreFetched, CheckVictim, Evict
<1> QED BY <1>1, <1>2 DEF CacheKey

\* A step of a callback on h.
CallbackOn(h) ==
    \/ OpenCall(h) \/ Callback(h) \/ \E b \in Bytes : Write(h, b)
    \/ Flush(h) \/ Release(h) \/ ReleaseEmpty(h)

\* Who changes a handle.
LEMMA HandleCases ==
  ASSUME SumsInv, [Next]_vars, NEW h \in Handles
  PROVE  \/ handle'[h] = handle[h]
         \/ CallbackOn(h)
         \/ /\ StoreFetched /\ handle[h].phase = "fetch" /\ handle[h].id = worker.id
            /\ handle'[h] = Opened("seed", handle[h].file, handle[h].id, FALSE, Empty)
         \/ Crash /\ handle'[h] = Closed
<1>0. handle \in [Handles -> HandleState]
  BY KeepTypes
<1>1. ASSUME NEW g \in Handles, CallbackOn(g), g # h
      PROVE  handle'[h] = handle[h]
  BY <1>0, <1>1
     DEF CallbackOn, OpenCall, Callback, OpenHit, OpenMiss, Create, OpenSeed,
         OpenUnseeded, Mark, Write, Flush, Release, ReleaseEmpty
<1>2. CASE StoreFetched
  BY <1>2 DEF StoreFetched
<1>3. CASE Crash
  BY <1>3 DEF Crash
<1>4. CASE UNCHANGED handle
  BY <1>4
<1> QED BY <1>1, <1>2, <1>3, <1>4
        DEF Next, vars, CallbackOn, UploaderStep, Snapshot, Load, SendUpdate,
            SendCreate, SendFails, SendParentGone, Clear, Finalize, Migrate,
            Publish, Replace, Abandon, Forget, Fetch, List, StoreListed, CheckVictim, Evict

\* Who changes what is expected of a file.
LEMMA AcceptedStep ==
  ASSUME SumsInv, [Next]_vars, NEW f \in Files
  PROVE  \/ accepted'[f] = accepted[f]
         \/ /\ \E h \in Handles, pid \in PendingIds : Create(h, f, pid)
            /\ accepted'[f] = {Empty}
         \/ \E h \in Handles :
               /\ handle[h].file = f /\ handle[h].wrote /\ idOf[f] # NoId
               /\ \/ Flush(h) /\ accepted'[f] = accepted[f] \cup {handle[h].bytes}
                  \/ /\ ReleaseEmpty(h) \/ Mark(h)
                     /\ accepted'[f] = {handle[h].bytes}
         \/ Abandon /\ idOf[f] = uploader.id /\ accepted'[f] = {}
         \/ Crash /\ idOf'[f] = NoId /\ accepted'[f] = {}
<1> DEFINE Goal ==
         \/ accepted'[f] = accepted[f]
         \/ /\ \E h \in Handles, pid \in PendingIds : Create(h, f, pid)
            /\ accepted'[f] = {Empty}
         \/ \E h \in Handles :
               /\ handle[h].file = f /\ handle[h].wrote /\ idOf[f] # NoId
               /\ \/ Flush(h) /\ accepted'[f] = accepted[f] \cup {handle[h].bytes}
                  \/ /\ ReleaseEmpty(h) \/ Mark(h)
                     /\ accepted'[f] = {handle[h].bytes}
         \/ Abandon /\ idOf[f] = uploader.id /\ accepted'[f] = {}
         \/ Crash /\ idOf'[f] = NoId /\ accepted'[f] = {}
<1>0. accepted \in [Files -> SUBSET Bytes]
  BY KeepTypes
<1>1. ASSUME NEW h \in Handles, NEW g \in Files, NEW pid \in PendingIds,
             Create(h, g, pid)
      PROVE  Goal
  <2>1. accepted' = [accepted EXCEPT ![g] = {Empty}]
    BY <1>1 DEF Create
  <2> QED BY <1>0, <1>1, <2>1
<1>2. ASSUME NEW h \in Handles, Flush(h) PROVE Goal
  <2>1. CASE handle[h].wrote /\ idOf[handle[h].file] # NoId
    <3>1. accepted' = [accepted EXCEPT ![handle[h].file] = @ \cup {handle[h].bytes}]
      BY <1>2, <2>1 DEF Flush
    <3> QED BY <1>0, <1>2, <2>1, <3>1
  <2>2. CASE ~(handle[h].wrote /\ idOf[handle[h].file] # NoId)
    BY <1>2, <2>2 DEF Flush
  <2> QED BY <2>1, <2>2
<1>3. ASSUME NEW h \in Handles, ReleaseEmpty(h) \/ Mark(h) PROVE Goal
  <2>0. accepted' = Saved(h)
    BY <1>3 DEF ReleaseEmpty, Mark
  <2>1. CASE handle[h].wrote /\ idOf[handle[h].file] # NoId
    <3>1. accepted' = [accepted EXCEPT ![handle[h].file] = {handle[h].bytes}]
      BY <2>0, <2>1 DEF Saved
    <3> QED BY <1>0, <1>3, <2>1, <3>1
  <2>2. CASE ~(handle[h].wrote /\ idOf[handle[h].file] # NoId)
    BY <2>0, <2>2 DEF Saved
  <2> QED BY <2>1, <2>2
<1>4. CASE Abandon
  BY <1>4 DEF Abandon
<1>5. CASE Crash
  BY <1>5 DEF Crash
<1>6. CASE UNCHANGED accepted
  BY <1>6
<1> QED BY <1>1, <1>2, <1>3, <1>4, <1>5, <1>6
        DEF Next, vars, OpenCall, Callback, OpenHit, OpenMiss, OpenSeed,
            OpenUnseeded, Write, Release, UploaderStep, Snapshot, Load,
            SendUpdate, SendCreate, SendFails, SendParentGone, Clear, Finalize,
            Migrate, Publish, Replace, Forget, Fetch, List, StoreFetched, StoreListed,
            CheckVictim, Evict

\* Who changes the id of a file.
LEMMA IdStep ==
  ASSUME SumsInv, [Next]_vars, NEW f \in Files
  PROVE  \/ idOf'[f] = idOf[f]
         \/ \E h \in Handles, pid \in PendingIds :
               Create(h, f, pid) /\ idOf'[f] = pid
         \/ Replace /\ idOf[f] = uploader.id /\ idOf'[f] = uploader.newId
         \/ Forget /\ idOf[f] = uploader.id /\ idOf'[f] = NoId
         \/ Crash
<1>0. idOf \in [Files -> Ids \cup {NoId}]
  BY KeepTypes
<1>1. ASSUME NEW h \in Handles, NEW g \in Files, NEW pid \in PendingIds,
             Create(h, g, pid)
      PROVE  \/ idOf'[f] = idOf[f]
             \/ Create(h, f, pid) /\ idOf'[f] = pid
  <2>1. idOf' = [idOf EXCEPT ![g] = pid]
    BY <1>1 DEF Create
  <2> QED BY <1>0, <1>1, <2>1
<1>2. CASE Replace
  BY <1>2 DEF Replace
<1>3. CASE Forget
  BY <1>3 DEF Forget
<1>4. CASE Crash
  BY <1>4
<1>5. CASE UNCHANGED idOf
  BY <1>5
<1> QED BY <1>1, <1>2, <1>3, <1>4, <1>5
        DEF Next, vars, OpenCall, Callback, OpenHit, OpenMiss, OpenSeed,
            OpenUnseeded, Mark, Write, Flush, Release, ReleaseEmpty,
            UploaderStep, Snapshot, Load, SendUpdate, SendCreate, SendFails,
            SendParentGone, Clear, Finalize, Migrate, Publish, Abandon, Fetch,
            List, StoreFetched, StoreListed, CheckVictim, Evict

\* A restart gives a file the id of its row.
LEMMA CrashIds ==
  ASSUME KeepInv, Crash, NEW f \in Files
  PROVE  \/ f \in OldFiles /\ idOf'[f] = f
         \/ /\ f \in NewFiles /\ idOf'[f] = NoId
            /\ ~\E id \in Ids : row[id] # "none" /\ rowFile[id] = f
         \/ /\ f \in NewFiles /\ idOf'[f] \in SpareIds \cup PendingIds
            /\ row[idOf'[f]] # "none" /\ rowFile[idOf'[f]] = f
<1>1. CASE f \in OldFiles
  BY <1>1 DEF Crash
<1>2. CASE f \notin OldFiles /\ ~\E id \in Ids : row[id] # "none" /\ rowFile[id] = f
  BY <1>2, KeptFacts DEF Crash
<1>3. CASE f \notin OldFiles /\ \E id \in Ids : row[id] # "none" /\ rowFile[id] = f
  <2>1. idOf'[f] = CHOOSE id \in Ids : row[id] # "none" /\ rowFile[id] = f
    BY <1>3 DEF Crash
  <2>2. PICK id \in Ids : id = idOf'[f] /\ row[id] # "none" /\ rowFile[id] = f
    BY <1>3, <2>1
  <2>3. id \notin OldFiles
    <3>1. SUFFICES ASSUME id \in OldFiles PROVE FALSE
      OBVIOUS
    <3>2. id \in KeptFiles /\ id \in Files /\ id \in DriveIds
      BY <3>1, KeptFacts, Apartness
    <3>3. idOf[id] = id /\ id # NoId
      BY <3>1, <3>2, Apartness DEF KeepInv, FileIds
    <3>4. Home(id) = id
      BY <3>2, <3>3, HomeIs DEF KeepInv
    <3>5. rowFile[id] = id
      BY <2>2, <3>2, <3>3, <3>4 DEF KeepInv, FileRows
    <3> QED BY <1>3, <2>2, <3>1, <3>5
  <2>4. id \in SpareIds \cup PendingIds
    BY <2>3 DEF Ids, DriveIds
  <2> QED BY <1>3, <2>2, <2>4, KeptFacts
<1> QED BY <1>1, <1>2, <1>3

\* What is under upload has no callback at work on it.
LEMMA CallbackApart ==
  ASSUME SumsInv, NEW h \in Handles, handle[h].phase \in Started
  PROVE  ~Uploading(handle[h].id) /\ InCallback(handle[h].id)
BY DEF SumsInv, CallbacksApart, InCallback, Started

-----------------------------------------------------------------------------
(* Files, ids, rows and handles belong together.                            *)

\* A file that is expected to hold something has an id, and no upload of it is
\* about to be given up.
LEMMA Expected ==
  ASSUME FileIds, NEW f \in KeptFiles
  PROVE  /\ accepted[f] # {} => idOf[f] # NoId
         /\ accepted[f] # {} => ~(uploader.phase = "forget" /\ uploader.id = idOf[f])
         /\ idOf[f] = NoId => accepted[f] = {}
BY DEF FileIds

\* FileIds, conjunct by conjunct.
LEMMA FileIdsOwn ==
  ASSUME KeepInv, [Next]_vars
  PROVE  /\ \A f \in OldFiles : idOf'[f] = f
         /\ \A f \in NewFiles : idOf'[f] \in SpareIds \cup PendingIds \cup {NoId}
<1> USE DEF KeepInv
<1>1. ASSUME NEW f \in OldFiles PROVE idOf'[f] = f
  <2>1. idOf[f] = f /\ f \in Files /\ f \notin NewFiles /\ f \in DriveIds
    BY KeptFacts, Apartness DEF FileIds
  <2>2. ASSUME Replace \/ Forget PROVE uploader.id \in PendingIds
    BY <2>2 DEF Replace, Forget, SumsInv, Sent
  <2>3. idOf[f] = uploader.id => ~Replace /\ ~Forget
    BY <2>1, <2>2, Apartness
  <2>4. CASE Crash
    BY <2>1, <2>4, CrashIds
  <2>5. CASE ~Crash
    BY <2>1, <2>3, <2>5, IdStep DEF Create
  <2> QED BY <2>4, <2>5
<1>2. ASSUME NEW f \in NewFiles
      PROVE  idOf'[f] \in SpareIds \cup PendingIds \cup {NoId}
  <2>1. /\ idOf[f] \in SpareIds \cup PendingIds \cup {NoId} /\ f \in Files
        /\ f \notin OldFiles
    BY KeptFacts DEF FileIds
  <2>2. ASSUME Replace PROVE uploader.newId \in SpareIds
    BY <2>2 DEF Replace, SumsInv, Sent, UploadRows
  <2> QED BY <2>1, <2>2, IdStep, CrashIds
<1> QED BY <1>1, <1>2

LEMMA FileIdsUnique ==
  ASSUME KeepInv, [Next]_vars, NEW f \in KeptFiles, NEW g \in Files,
         idOf'[f] = idOf'[g], idOf'[f] # NoId
  PROVE  f = g
<1> USE DEF KeepInv
<1>0. f \in Files
  BY KeptFacts
<1>1. CASE Crash
  <2>1. CASE f \in OldFiles /\ g \in OldFiles
    BY <1>0, <1>1, <2>1, CrashIds, KeptFacts
  <2>2. CASE f \in OldFiles /\ g \notin OldFiles
    <3>1. idOf'[f] = f /\ idOf'[g] \in SpareIds \cup PendingIds
      BY <1>0, <1>1, <2>2, CrashIds, KeptFacts
    <3> QED BY <2>2, <3>1, NamesAssumption, Apartness
  <2>3. CASE f \notin OldFiles /\ g \in OldFiles
    <3>1. idOf'[g] = g /\ idOf'[f] \in SpareIds \cup PendingIds
      BY <1>0, <1>1, <2>3, CrashIds, KeptFacts
    <3> QED BY <2>3, <3>1, NamesAssumption, Apartness
  <2>4. CASE f \notin OldFiles /\ g \notin OldFiles
    <3>1. rowFile[idOf'[f]] = f /\ rowFile[idOf'[g]] = g
      BY <1>0, <1>1, <2>4, CrashIds, KeptFacts
    <3> QED BY <3>1
  <2> QED BY <2>1, <2>2, <2>3, <2>4
<1>2. CASE ~Crash
  <2>1. \A a \in KeptFiles, b \in Files : idOf[a] = idOf[b] /\ idOf[a] # NoId => a = b
    BY DEF FileIds
  <2>2. CASE Replace
    <3>1. /\ uploader.newId # NoId
          /\ \A a \in Files : idOf[a] # uploader.newId
      BY <2>2 DEF Replace, SumsInv, Sent, UploadRows
    <3>2. \A a \in Files : idOf'[a] = IF idOf[a] = uploader.id THEN uploader.newId
                                      ELSE idOf[a]
      BY <2>2 DEF Replace
    <3>3. uploader.id # NoId
      BY <2>2, KeepTypes, Apartness DEF Replace
    <3>4. idOf[f] = idOf[g] /\ idOf[f] # NoId
      BY <1>0, <3>1, <3>2, <3>3
    <3> QED BY <2>1, <3>4
  <2>3. ASSUME NEW h \in Handles, NEW pid \in PendingIds, Create(h, f, pid)
        PROVE  f = g
    <3>1. f \in NewFiles
      BY <2>3 DEF Create
    <3>2. Fresh(pid)
      BY <1>0, <2>3, <3>1, KeptFacts, CreateFresh
    <3>3. idOf' = [idOf EXCEPT ![f] = pid] /\ idOf[g] # pid
      BY <2>3, <3>2 DEF Create, Fresh
    <3> QED BY <1>0, <3>3, KeepTypes
  <2>4. ASSUME NEW h \in Handles, NEW pid \in PendingIds, Create(h, g, pid), f # g
        PROVE  FALSE
    <3>1. idOf' = [idOf EXCEPT ![g] = pid]
      BY <2>4 DEF Create
    <3>2. idOf[f] = pid
      BY <1>0, <2>4, <3>1, KeepTypes
    <3>3. f \notin OldFiles
      BY <3>2, Apartness DEF FileIds
    <3>4. NoReuse /\ Fresh(pid)
      BY <1>0, <2>4, <3>3, KeptFacts, CreateFresh
    <3> QED BY <1>0, <3>2, <3>4 DEF Fresh
  <2>5. CASE idOf'[f] = idOf[f] /\ idOf'[g] = idOf[g]
    BY <2>1, <2>5
  <2> QED BY <1>0, <1>2, <2>2, <2>3, <2>4, <2>5, IdStep
<1> QED BY <1>1, <1>2

LEMMA FileIdsExpected ==
  ASSUME NoOverlap, KeepInv, [Next]_vars, NEW f \in KeptFiles
  PROVE  accepted'[f] = {} <=> \/ idOf'[f] = NoId
                               \/ uploader'.phase = "forget" /\ uploader'.id = idOf'[f]
<1> DEFINE Goal == accepted'[f] = {} <=>
                      \/ idOf'[f] = NoId
                      \/ uploader'.phase = "forget" /\ uploader'.id = idOf'[f]
<1> USE DEF KeepInv
<1>0. /\ f \in Files
      /\ accepted[f] = {} <=> \/ idOf[f] = NoId
                              \/ uploader.phase = "forget" /\ uploader.id = idOf[f]
      /\ idOf \in [Files -> Ids \cup {NoId}] /\ NoId \notin Ids
      /\ PendingIds \subseteq Ids /\ SpareIds \cap PendingIds = {}
      /\ uploader.phase \notin {"idle", "pick"} => uploader.id \in Ids
  BY KeptFacts, KeepTypes, Apartness DEF FileIds
<1>1. ASSUME NEW h \in Handles, NEW pid \in PendingIds, Create(h, f, pid)
      PROVE  Goal
  <2>1. f \in NewFiles
    BY <1>1 DEF Create
  <2>2. Fresh(pid)
    BY <1>0, <1>1, <2>1, KeptFacts, CreateFresh
  <2>3. idOf'[f] = pid /\ accepted'[f] = {Empty} /\ UNCHANGED uploader
    BY <1>0, <1>1, KeepTypes DEF Create
  <2> QED BY <1>0, <2>2, <2>3 DEF Fresh
\* Whoever writes into a file that is being given up is not allowed to.
<1>2. ASSUME NEW h \in Handles, handle[h].file = f, idOf[f] # NoId,
             Flush(h) \/ ReleaseEmpty(h) \/ Mark(h)
      PROVE  ~(uploader.phase = "forget" /\ uploader.id = idOf[f])
  <2>1. SUFFICES ASSUME uploader.phase = "forget", uploader.id = idOf[f] PROVE FALSE
    OBVIOUS
  <2>2. handle[h].phase \in {"open", "mark"}
    BY <1>2 DEF Flush, ReleaseEmpty, Mark
  <2>3. HandleId(h)
    BY <1>2, <2>2 DEF HandleIds
  <2>4. uploader.id \in PendingIds
    BY <2>1 DEF SumsInv, Sent
  <2>5. handle[h].id = uploader.id
    BY <1>0, <1>2, <2>1, <2>3, <2>4 DEF HandleId
  <2>6. Uploading(handle[h].id)
    BY <2>1, <2>5 DEF Uploading
  <2>7. CASE Flush(h)
    BY <2>6, <2>7, Alone DEF Flush
  <2>8. CASE ReleaseEmpty(h)
    <3>1. Target(h) = handle[h].id
      BY <1>2, <2>1, <2>5 DEF Target
    <3> QED BY <2>6, <2>8, <3>1, Alone DEF ReleaseEmpty
  <2>9. CASE Mark(h)
    BY <2>6, <2>9, CallbackApart DEF Mark, Started
  <2> QED BY <1>2, <2>7, <2>8, <2>9
<1>3. ASSUME NEW h \in Handles, handle[h].file = f, handle[h].wrote, idOf[f] # NoId,
             \/ Flush(h) /\ accepted'[f] = accepted[f] \cup {handle[h].bytes}
             \/ /\ ReleaseEmpty(h) \/ Mark(h)
                /\ accepted'[f] = {handle[h].bytes}
      PROVE  Goal
  <2>1. UNCHANGED <<idOf, uploader>>
    BY <1>3 DEF Flush, ReleaseEmpty, Mark
  <2>2. ~(uploader.phase = "forget" /\ uploader.id = idOf[f])
    BY <1>2, <1>3
  <2>3. accepted'[f] # {}
    BY <1>3
  <2> QED BY <1>3, <2>1, <2>2, <2>3
<1>4. CASE Abandon
  <2>1. /\ uploader'.phase = "forget" /\ uploader'.id = uploader.id
        /\ UNCHANGED idOf /\ uploader.phase = "abandon"
        /\ accepted'[f] = IF idOf[f] = uploader.id THEN {} ELSE accepted[f]
    BY <1>0, <1>4, UploaderRecord DEF Abandon, SumsInv
  <2> QED BY <1>0, <2>1
<1>5. CASE Crash
  <2>1. /\ accepted'[f] = IF idOf'[f] = NoId THEN {} ELSE accepted[f]
        /\ uploader'.phase = "idle"
    BY <1>0, <1>5 DEF Crash, Resting
  <2>2. ASSUME idOf'[f] # NoId PROVE accepted[f] # {}
    <3>1. CASE f \in OldFiles
      <4>1. idOf[f] = f /\ f \in DriveIds
        BY <3>1, Apartness DEF FileIds
      <4>2. uploader.phase = "forget" => uploader.id \in PendingIds
        BY DEF SumsInv, Sent
      <4> QED BY <1>0, <4>1, <4>2, Apartness
    <3>2. CASE f \notin OldFiles
      <4>1. PICK id \in Ids : id = idOf'[f] /\ row[id] # "none" /\ rowFile[id] = f
        BY <1>0, <1>5, <2>2, <3>2, CrashIds, Apartness
      <4>2. Home(f) = id
        BY <4>1 DEF FileRows
      <4>3. uploader.phase = "forget" => row[uploader.id] = "none" /\ Home(f) = idOf[f]
        BY <1>0, HomeIs DEF UploadRows
      <4>4. idOf[f] # NoId
        BY <1>0, <4>1, <4>2, HomeIs
      <4> QED BY <1>0, <4>1, <4>2, <4>3, <4>4
    <3> QED BY <3>1, <3>2
  <2> QED BY <2>1, <2>2
<1>6. ASSUME accepted'[f] = accepted[f], ~Abandon, ~Crash,
             ~\E h \in Handles, pid \in PendingIds : Create(h, f, pid)
      PROVE  Goal
  <2>1. CASE Replace
    <3>1. /\ idOf'[f] = IF idOf[f] = uploader.id THEN uploader.newId ELSE idOf[f]
          /\ uploader'.phase \in {"idle", "pick"} /\ uploader.newId # NoId
          /\ uploader.phase = "replace" /\ uploader.id # NoId
      BY <1>0, <2>1, UploaderRecord DEF Replace, SumsInv, Sent
    <3> QED BY <1>0, <1>6, <3>1
  <2>2. CASE Forget
    <3>1. /\ idOf'[f] = IF idOf[f] = uploader.id THEN NoId ELSE idOf[f]
          /\ uploader'.phase \in {"idle", "pick"} /\ uploader.phase = "forget"
      BY <1>0, <2>2, UploaderRecord DEF Forget, SumsInv
    <3> QED BY <1>0, <1>6, <3>1
  <2>3. CASE ~Replace /\ ~Forget
    <3>1. idOf'[f] = idOf[f]
      BY <1>0, <1>6, <2>3, IdStep
    <3>2. CASE ~UploaderStep
      <4>1. uploader' = uploader
        BY <1>6, <3>2 DEF Next, vars, OpenCall, Callback, OpenHit, OpenMiss,
             Create, OpenSeed, OpenUnseeded, Mark, Write, Flush, Release,
             ReleaseEmpty, Fetch, List, StoreFetched, StoreListed, CheckVictim, Evict
      <4> QED BY <1>0, <1>6, <3>1, <4>1
    <3>3. CASE UploaderStep
      <4>1. uploader.phase # "forget" /\ uploader'.phase # "forget"
        <5>1. ASSUME NEW id \in Ids, Load(id)
              PROVE  uploader.phase # "forget" /\ uploader'.phase # "forget"
          <6>1. \A q : Turning(q).phase \in {"idle", "pick"}
            BY UploaderRecord DEF SumsInv
          <6> QED BY <5>1, <6>1 DEF Load
        <5>2. Settling # "forget"
          BY AnswerTypes DEF SumsInv, IndInv
        <5> QED BY <1>6, <2>3, <3>3, <5>1, <5>2, UploaderRecord
                DEF UploaderStep, Snapshot, SendUpdate, SendCreate, SendFails,
                    SendParentGone, Clear, Finalize, Migrate, Publish, SumsInv
      <4> QED BY <1>0, <1>6, <3>1, <4>1
    <3> QED BY <3>2, <3>3
  <2> QED BY <2>1, <2>2, <2>3
<1> QED BY <1>0, <1>1, <1>3, <1>4, <1>5, <1>6, AcceptedStep

LEMMA FileIdsStep == NoOverlap /\ KeepInv /\ [Next]_vars => FileIds'
<1> SUFFICES ASSUME NoOverlap, KeepInv, [Next]_vars PROVE FileIds'
  OBVIOUS
<1> QED BY FileIdsOwn, FileIdsUnique, FileIdsExpected DEF FileIds

\* A crash is no other step.
LEMMA CrashCounts ==
  ASSUME SumsInv
  PROVE  /\ Crash => crashes' # crashes
         /\ Clear \/ Finalize \/ Abandon \/ Migrate \/ Replace \/ Forget => ~Crash
         /\ \A h : Mark(h) \/ Flush(h) \/ Release(h) \/ ReleaseEmpty(h) => ~Crash
         /\ StoreFetched \/ Evict => ~Crash
<1>1. crashes \in Nat
  BY BoundsAssumption DEF SumsInv, IndInv, TypeOK
<1>2. Crash => crashes' # crashes
  BY <1>1 DEF Crash
<1> QED BY <1>2 DEF Clear, Finalize, Abandon, Migrate, Replace, Forget, Mark,
            Flush, Release, ReleaseEmpty, StoreFetched, Evict

\* The rows of the entry after the uploader's steps on them.
LEMMA UploaderRowsAt ==
  ASSUME KeepInv
  PROVE  /\ Clear => row'[uploader.id] = "clean"
         /\ Finalize => /\ row'[uploader.id] = "none"
                        /\ row'[uploader.newId] = "clean"
                        /\ rowFile'[uploader.newId] = rowFile[uploader.id]
         /\ Abandon => row'[uploader.id] = "none"
<1> USE DEF KeepInv
<1>0. /\ row \in [Ids -> {"none", "clean", "dirty"}]
      /\ rowFile \in [Ids -> Files \cup {NoFile}]
      /\ uploader.phase \in {"clear", "finalize", "abandon"} =>
            row[uploader.id] = "dirty" /\ uploader.id \in Ids
      /\ DriveIds \subseteq Ids
  BY KeepTypes, Apartness
<1>1. ASSUME Finalize
      PROVE  /\ row'[uploader.id] = "none"
             /\ row'[uploader.newId] = "clean"
             /\ rowFile'[uploader.newId] = rowFile[uploader.id]
  <2>1. /\ row[uploader.id] = "dirty" /\ row[uploader.newId] = "none"
        /\ uploader.newId \in Ids /\ uploader.id \in Ids
        /\ uploader.newId # uploader.id
    BY <1>0, <1>1, Apartness DEF Finalize, UploadRows, SumsInv, Sent
  <2>2. /\ row' = [row EXCEPT ![uploader.id] = "none", ![uploader.newId] = "clean"]
        /\ rowFile' = [rowFile EXCEPT ![uploader.id] = NoFile,
                                      ![uploader.newId] = rowFile[uploader.id]]
    BY <1>1, <2>1 DEF Finalize
  <2> QED BY <1>0, <2>1, <2>2
<1> QED BY <1>0, <1>1 DEF Clear, Abandon

\* FileRows, one direction after the other.
LEMMA RowsOfFiles ==
  ASSUME NoOverlap, KeepInv, [Next]_vars, NEW f \in KeptFiles, NEW id \in Ids,
         row'[id] # "none", rowFile'[id] = f
  PROVE  Home(f)' = id
<1> USE DEF KeepInv
<1>0. f \in Files /\ id # NoId /\ NoFile # f
  BY KeptFacts, Apartness
<1>1. ASSUME row[id] # "none", rowFile[id] = f, ~Finalize \/ id # uploader.id
      PROVE  Home(f)' = id
  <2>1. Home(f) = id
    BY <1>1 DEF FileRows
  <2>2. idOf[f] # NoId
    BY <1>0, <2>1, HomeIs
  <2>3. ~\E h \in Handles, pid \in PendingIds : Create(h, f, pid)
    BY <2>2 DEF Create
  <2>4. ASSUME Forget, idOf[f] = uploader.id PROVE FALSE
    <3>1. uploader.phase = "forget"
      BY <2>4 DEF Forget
    <3>2. Home(f) = idOf[f] /\ row[uploader.id] = "none"
      BY <1>0, <3>1, HomeIs DEF UploadRows
    <3> QED BY <1>1, <2>1, <2>4, <3>2
  <2>5. ASSUME Crash, Home(f)' = idOf'[f] PROVE Home(f)' = id
    <3>1. CASE f \in OldFiles
      <4>1. idOf[f] = f /\ idOf'[f] = f /\ f \in DriveIds
        BY <1>0, <2>5, <3>1, CrashIds, Apartness DEF FileIds, Crash
      <4> QED BY <1>0, <2>1, <2>5, <4>1, HomeIs
    <3>2. CASE f \notin OldFiles
      <4>1. /\ idOf'[f] \in SpareIds \cup PendingIds
            /\ row[idOf'[f]] # "none" /\ rowFile[idOf'[f]] = f
        BY <1>0, <1>1, <2>5, <3>2, CrashIds
      <4>2. PICK i \in Ids : i = idOf'[f] /\ row[i] # "none" /\ rowFile[i] = f
        BY <4>1, Apartness
      <4>3. Home(f) = i
        BY <4>2 DEF FileRows
      <4> QED BY <2>1, <2>5, <4>2, <4>3
    <3> QED BY <3>1, <3>2
  <2> QED BY <1>1, <2>1, <2>3, <2>4, <2>5, HomeStep
<1>2. CASE row'[id] = row[id] /\ rowFile'[id] = rowFile[id]
  <2>1. ~Finalize \/ id # uploader.id
    BY UploaderRowsAt
  <2> QED BY <1>1, <1>2, <2>1
<1>3. ASSUME NEW h \in Handles, Mark(h), handle[h].id = id,
             rowFile'[id] = IF row[id] # "none" THEN rowFile[id]
                            ELSE IF idOf[handle[h].file] = id
                                 THEN handle[h].file ELSE NoFile
      PROVE  Home(f)' = id
  <2>1. ~Uploading(id) /\ UNCHANGED <<idOf, uploader>>
    BY <1>3, CallbackApart DEF Mark, Started
  <2>2. Home(f)' = Home(f)
    BY <2>1 DEF Home
  <2>3. Home(f) = id
    <3>1. CASE row[id] # "none"
      BY <1>3, <3>1 DEF FileRows
    <3>2. CASE row[id] = "none"
      <4>1. idOf[f] = id
        BY <1>0, <1>3, <3>2
      <4> QED BY <1>0, <2>1, <4>1, HomeIs
    <3> QED BY <3>1, <3>2
  <2> QED BY <2>2, <2>3
<1>4. ASSUME Clear, id = uploader.id, rowFile'[id] = rowFile[id]
      PROVE  Home(f)' = id
  <2>1. row[id] # "none" /\ ~Finalize
    BY <1>4, KeepTypes DEF Clear, Finalize
  <2> QED BY <1>1, <1>4, <2>1
<1>5. ASSUME Finalize, id = uploader.newId, rowFile'[id] = rowFile[uploader.id]
      PROVE  Home(f)' = id
  <2>1. uploader.id \in Ids /\ row[uploader.id] = "dirty" /\ uploader.phase = "finalize"
    BY <1>5, KeepTypes DEF Finalize
  <2>2. Home(f) = uploader.id
    BY <1>5, <2>1 DEF FileRows
  <2>3. Home(f) # NoId /\ idOf[f] # NoId
    BY <1>0, <2>1, <2>2, HomeIs, Apartness
  <2>4. ~Forget /\ ~Crash /\ ~\E h \in Handles, pid \in PendingIds : Create(h, f, pid)
    BY <1>5, <2>1, <2>3, CrashCounts DEF Forget, Create
  <2> QED BY <1>5, <2>2, <2>4, HomeStep
<1> QED BY <1>2, <1>3, <1>4, <1>5, RowStep

LEMMA FilesOfRows ==
  ASSUME NoOverlap, KeepInv, [Next]_vars, NEW f \in KeptFiles,
         idOf'[f] # NoId, row'[Home(f)'] # "none"
  PROVE  rowFile'[Home(f)'] = f
<1> USE DEF KeepInv
<1>0. f \in Files /\ NoId \notin Ids
  BY KeptFacts, Apartness
<1>1. CASE Crash
  <2>1. UNCHANGED <<row, rowFile>> /\ Home(f)' = idOf'[f]
    BY <1>1 DEF Crash, Home, Resting
  <2>2. CASE f \in OldFiles
    <3>1. idOf[f] = f /\ idOf'[f] = f /\ f \in DriveIds /\ f # NoId
      BY <1>0, <1>1, <2>2, Apartness DEF FileIds, Crash
    <3>2. Home(f) = f
      BY <1>0, <3>1, HomeIs
    <3> QED BY <2>1, <3>1, <3>2 DEF FileRows
  <2>3. CASE f \notin OldFiles
    BY <1>0, <1>1, <2>1, <2>3, CrashIds
  <2> QED BY <2>2, <2>3
<1>2. ASSUME NEW h \in Handles, NEW pid \in PendingIds,
             Create(h, f, pid), Fresh(pid), Home(f)' = pid
      PROVE  FALSE
  BY <1>2 DEF Create, Fresh
<1>3. ASSUME Finalize, Home(f) = uploader.id, Home(f)' = uploader.newId
      PROVE  rowFile'[Home(f)'] = f
  <2>1. uploader.id \in Ids /\ row[uploader.id] = "dirty"
    BY <1>3, KeepTypes DEF Finalize
  <2>2. rowFile[Home(f)] = f
    <3>1. idOf[f] # NoId
      BY <1>0, <1>3, <2>1, HomeIs
    <3> QED BY <1>3, <2>1, <3>1 DEF FileRows
  <2> QED BY <1>3, <2>2, UploaderRowsAt
<1>4. ASSUME Home(f)' = Home(f), Finalize => Home(f) # uploader.id, ~Crash,
             idOf[f] # NoId
      PROVE  rowFile'[Home(f)'] = f
  <2>1. PICK id \in Ids : id = Home(f)
    BY <1>0, <1>4, HomeIs
  <2>2. row[id] # "none" => rowFile[id] = f
    BY <1>4, <2>1 DEF FileRows
  <2>3. ASSUME NEW h \in Handles, Mark(h), handle[h].id = id,
               rowFile'[id] = IF row[id] # "none" THEN rowFile[id]
                              ELSE IF idOf[handle[h].file] = id
                                   THEN handle[h].file ELSE NoFile
        PROVE  rowFile'[id] = f
    <3>1. ~Uploading(id) /\ handle[h].phase # "closed"
      BY <2>3, CallbackApart DEF Mark, Started
    <3>2. idOf[f] = id
      BY <1>0, <2>1, <3>1, HomeIs
    <3>3. handle[h].file = f
      BY <2>3, <3>1, <3>2 DEF HandleIds
    <3> QED BY <2>2, <2>3, <3>2, <3>3
  <2>4. ASSUME Finalize, id = uploader.newId PROVE FALSE
    <3>1. Home(f) = idOf[f] /\ uploader.newId # NoId
      BY <1>0, <2>4, HomeIs DEF Finalize, SumsInv, Sent
    <3> QED BY <1>0, <2>1, <2>4, <3>1 DEF UploadRows
  <2>5. ASSUME Clear, id = uploader.id PROVE row[id] # "none"
    BY <2>5, KeepTypes DEF Clear
  <2>6. row'[id] # "none"
    BY <1>4, <2>1
  <2> QED BY <1>4, <2>1, <2>2, <2>3, <2>4, <2>5, <2>6, RowStep
<1>5. ASSUME ~Crash, ~\E h \in Handles, pid \in PendingIds :
                           Create(h, f, pid) /\ Fresh(pid) /\ Home(f)' = pid
      PROVE  idOf[f] # NoId
  <2>1. SUFFICES ASSUME idOf[f] = NoId PROVE FALSE
    OBVIOUS
  <2>2. PICK h \in Handles, pid \in PendingIds : Create(h, f, pid)
    <3>1. Replace \/ Forget => uploader.id \in Ids
      BY KeepTypes DEF Replace, Forget
    <3> QED BY <1>0, <1>5, <2>1, <3>1, IdStep
  <2>3. Home(f)' # NoId /\ Home(f)' # Home(f)
    <3>1. idOf'[f] = pid /\ UNCHANGED uploader /\ pid # NoId
      BY <1>0, <2>2, KeepTypes, Apartness DEF Create
    <3>2. Home(f)' \in {pid, uploader.newId} /\ Home(f)' # NoId
      BY <3>1 DEF Home
    <3> QED BY <1>0, <2>1, <3>2, HomeIs
  <2>4. ~Finalize /\ ~Forget
    <3>1. Finalize \/ Forget => uploader'.phase # uploader.phase
      BY UploaderRecord, AnswerTypes DEF Finalize, Forget, SumsInv, IndInv
    <3> QED BY <2>2, <3>1 DEF Create
  <2> QED BY <1>5, <2>3, <2>4, HomeStep
<1>6. CASE ~Crash
  <2>1. ~(Forget /\ idOf'[f] = NoId)
    OBVIOUS
  <2>2. ~\E h \in Handles, pid \in PendingIds :
            Create(h, f, pid) /\ Fresh(pid) /\ Home(f)' = pid
    BY <1>2
  <2>3. idOf[f] # NoId
    BY <1>5, <1>6, <2>2
  <2> QED BY <1>3, <1>4, <1>6, <2>2, <2>3, HomeStep
<1> QED BY <1>1, <1>6

LEMMA FileRowsStep == NoOverlap /\ KeepInv /\ [Next]_vars => FileRows'
<1> SUFFICES ASSUME NoOverlap, KeepInv, [Next]_vars, NEW f \in KeptFiles
             PROVE  /\ \A id \in Ids : row'[id] # "none" /\ rowFile'[id] = f
                                           => Home(f)' = id
                    /\ idOf'[f] # NoId /\ row'[Home(f)'] # "none" => rowFile'[Home(f)'] = f
  BY DEF FileRows
<1> QED BY RowsOfFiles, FilesOfRows

\* The stages of an entry.
LEMMA Stages ==
  ASSUME SumsInv, [Next]_vars
  PROVE  \/ uploader' = uploader /\ ~UploaderStep
         \/ /\ uploader'.phase \in {"idle", "pick"}
            /\ uploader'.id = NoId /\ uploader'.newId = NoId
         \/ \E id \in Ids :
               /\ Load(id) /\ uploader'.phase = "send" /\ uploader'.id = id
               /\ uploader'.newId = NoId
         \/ /\ SendCreate /\ uploader'.phase = "finalize"
            /\ uploader'.id = uploader.id /\ uploader'.newId \in SpareIds
            /\ drive[uploader'.newId] = NoBytes
         \/ /\ \/ SendUpdate /\ uploader'.phase = "clear"
               \/ SendParentGone /\ uploader'.phase = "abandon"
               \/ Clear /\ uploader'.phase \in {"migrate", "publish"}
               \/ Abandon /\ uploader'.phase = "forget"
            /\ uploader'.id = uploader.id /\ uploader'.newId = NoId
         \/ /\ \/ Finalize /\ uploader'.phase \in {"migrate", "replace"}
               \/ Migrate /\ uploader'.phase \in {"publish", "replace"}
            /\ uploader'.id = uploader.id /\ uploader'.newId = uploader.newId
<1> DEFINE Goal ==
         \/ uploader' = uploader /\ ~UploaderStep
         \/ /\ uploader'.phase \in {"idle", "pick"}
            /\ uploader'.id = NoId /\ uploader'.newId = NoId
         \/ \E id \in Ids :
               /\ Load(id) /\ uploader'.phase = "send" /\ uploader'.id = id
               /\ uploader'.newId = NoId
         \/ /\ SendCreate /\ uploader'.phase = "finalize"
            /\ uploader'.id = uploader.id /\ uploader'.newId \in SpareIds
            /\ drive[uploader'.newId] = NoBytes
         \/ /\ \/ SendUpdate /\ uploader'.phase = "clear"
               \/ SendParentGone /\ uploader'.phase = "abandon"
               \/ Clear /\ uploader'.phase \in {"migrate", "publish"}
               \/ Abandon /\ uploader'.phase = "forget"
            /\ uploader'.id = uploader.id /\ uploader'.newId = NoId
         \/ /\ \/ Finalize /\ uploader'.phase \in {"migrate", "replace"}
               \/ Migrate /\ uploader'.phase \in {"publish", "replace"}
            /\ uploader'.id = uploader.id /\ uploader'.newId = uploader.newId
<1>0. /\ uploader.phase \in {"send", "clear", "publish", "abandon", "forget"} =>
            uploader.newId = NoId
      /\ \A q : /\ Turning(q).phase \in {"idle", "pick"}
                /\ Turning(q).id = NoId /\ Turning(q).newId = NoId
      /\ \A ph, new : /\ Stage(ph, new).phase = ph /\ Stage(ph, new).newId = new
                      /\ Stage(ph, new).id = uploader.id
  BY UploaderRecord DEF SumsInv, Sent
<1>1. CASE ~UploaderStep
  <2>1. uploader' = uploader \/ uploader' = Resting
    BY <1>1, OtherStep DEF SumsInv, IndInv
  <2> QED BY <1>1, <2>1 DEF Resting
<1>2. CASE Snapshot \/ SendFails \/ Publish \/ Replace \/ Forget
  BY <1>0, <1>2 DEF Snapshot, SendFails, Publish, Replace, Forget
<1>3. ASSUME NEW id \in Ids, Load(id) PROVE Goal
  <2>1. \/ uploader' = Turning(uploader.queue \ {id})
        \/ uploader' = [phase |-> "send", queue |-> uploader.queue \ {id},
                        id |-> id, newId |-> NoId,
                        bytes |-> content[CacheKey(id)]]
    BY <1>3 DEF Load
  <2> QED BY <1>0, <1>3, <2>1
<1>4. CASE SendCreate
  <2>1. PICK new \in SpareIds : drive[new] = NoBytes /\ uploader' = Stage("finalize", new)
    BY <1>4 DEF SendCreate
  <2> QED BY <1>0, <1>4, <2>1
<1>5. CASE SendUpdate
  <2>1. uploader.newId = NoId /\ uploader' = Stage("clear", NoId)
    BY <1>0, <1>5 DEF SendUpdate
  <2> QED BY <1>0, <1>5, <2>1
<1>6. CASE SendParentGone \/ Abandon
  BY <1>0, <1>6 DEF SendParentGone, Abandon
<1>7. CASE Clear
  <2>1. uploader.id \in DriveIds /\ uploader.newId = NoId
    BY <1>0, <1>7 DEF Clear, SumsInv, Sent
  <2>2. Settling \in {"migrate", "publish"}
    BY <2>1, Apartness DEF Settling
  <2> QED BY <1>0, <1>7, <2>1, <2>2 DEF Clear
<1>8. CASE Finalize
  <2>1. uploader.id \in PendingIds
    BY <1>8 DEF Finalize, SumsInv, Sent
  <2>2. Settling \in {"migrate", "replace"}
    BY <2>1 DEF Settling
  <2> QED BY <1>0, <1>8, <2>2 DEF Finalize
<1>9. CASE Migrate
  BY <1>0, <1>9 DEF Migrate
<1> QED BY <1>1, <1>2, <1>3, <1>4, <1>5, <1>6, <1>7, <1>8, <1>9 DEF UploaderStep

\* Where release() works is on the id of the handle or of its file.
LEMMA TargetIs ==
  ASSUME SumsInv, NEW h \in Handles, Release(h) \/ ReleaseEmpty(h)
  PROVE  /\ Target(h) \in Ids /\ handle[h].file \in Files
         /\ \/ Target(h) = handle[h].id
            \/ /\ Target(h) = idOf[handle[h].file] /\ Target(h) \in DriveIds
               /\ ~handle[h].created
         /\ Target(h) \in PendingIds => Target(h) = handle[h].id
<1>1. handle[h].phase # "closed"
  BY DEF Release, ReleaseEmpty
<1>2. handle[h].id \in Ids /\ handle[h].file \in Files
  BY <1>1, KeepTypes
<1> QED BY <1>2, Apartness DEF Target

\* The uploader's own records of the new id.
LEMMA NewIdStays ==
  ASSUME NoOverlap, KeepInv, [Next]_vars, uploader.newId # NoId,
         uploader'.newId = uploader.newId, ~Crash
  PROVE  /\ uploader.newId \in SpareIds /\ row'[uploader.newId] # "dirty"
         /\ \A f \in Files : idOf'[f] # uploader.newId
         /\ \A h \in Handles : handle'[h].id # uploader.newId
         /\ row[uploader.newId] = "none" /\ ~Finalize => row'[uploader.newId] = "none"
         /\ content[uploader.newId] = NoBytes /\ ~Finalize =>
               content'[uploader.newId] = NoBytes
<1> USE DEF KeepInv
<1>1. /\ uploader.newId \in SpareIds /\ row[uploader.newId] # "dirty"
      /\ \A f \in Files : idOf[f] # uploader.newId
      /\ \A h \in Handles : handle[h].id # uploader.newId
  BY DEF UploadRows
<1>2. PICK id \in Ids : id = uploader.newId /\ id \in SpareIds /\ id \in DriveIds
  BY <1>1, Apartness
<1>3. id \notin PendingIds /\ id # NoId /\ uploader.id # id
  <2>1. uploader.id \in PendingIds
    BY DEF SumsInv, Sent
  <2> QED BY <1>2, <2>1, Apartness
<1>4. ASSUME NEW f \in Files PROVE idOf'[f] # id
  <2>1. ~Replace
    BY <1>2, <1>3, UploaderRecord DEF Replace, SumsInv
  <2> QED BY <1>1, <1>2, <1>3, <2>1, IdStep
<1>5. ASSUME NEW h \in Handles PROVE handle'[h].id # id
  <2>1. TypeOK /\ HandleShape
    BY DEF SumsInv, IndInv
  <2>2. Closed.id # id
    BY <1>3 DEF Closed
  <2> QED BY <1>1, <1>2, <1>3, <2>1, <2>2, HandleStep
<1>6. /\ row'[id] # "dirty"
      /\ row[id] = "none" /\ ~Finalize => row'[id] = "none"
  <2>1. ~\E h \in Handles : Mark(h) /\ handle[h].id = id
    BY <1>1, <1>2
  <2> QED BY <1>1, <1>2, <1>3, <2>1, RowStep
<1>7. content[id] = NoBytes /\ ~Finalize => content'[id] = NoBytes
  <2>1. ~\E h \in Handles : Flush(h) /\ handle[h].id = id
    BY <1>1, <1>2
  <2>2. ~\E h \in Handles : Release(h) /\ Target(h) = id
    BY <1>1, <1>2, TargetIs
  <2>3. ~(StoreFetched /\ worker.id = id)
    <3>1. SUFFICES ASSUME StoreFetched, worker.id = id PROVE FALSE
      OBVIOUS
    <3>2. ~Uploading(id)
      BY <3>1 DEF StoreFetched, SumsInv, DownloadFresh
    <3>3. uploader.phase \notin {"idle", "pick"}
      BY DEF UploadRows
    <3> QED BY <1>2, <3>2, <3>3 DEF Uploading
  <2> QED BY <2>1, <2>2, <2>3, StoreStep
<1> QED BY <1>1, <1>2, <1>4, <1>5, <1>6, <1>7

LEMMA UploadRowsStep == NoOverlap /\ KeepInv /\ [Next]_vars => UploadRows'
<1> SUFFICES ASSUME NoOverlap, KeepInv, [Next]_vars PROVE UploadRows'
  OBVIOUS
<1> USE DEF KeepInv
<1>0. uploader.phase \notin {"idle", "pick"} => uploader.id \in Ids
  BY KeepTypes
<1>1. CASE uploader'.phase \in {"idle", "pick"} /\ uploader'.newId = NoId
  BY <1>1 DEF UploadRows
<1>2. CASE uploader' = uploader /\ ~UploaderStep /\ ~Crash
  <2>1. ASSUME uploader.phase \notin {"idle", "pick"}
        PROVE  row'[uploader.id] = row[uploader.id]
    <3>1. PICK id \in Ids : id = uploader.id
      BY <1>0, <2>1
    <3>2. ~\E h \in Handles : Mark(h) /\ handle[h].id = id
      <4>1. Uploading(id)
        BY <2>1, <3>1 DEF Uploading
      <4> QED BY <4>1, CallbackApart DEF Mark, Started
    <3> QED BY <1>2, <3>1, <3>2, RowStep DEF UploaderStep
  <2>2. ~Finalize
    BY <1>2 DEF UploaderStep
  <2>3. CASE uploader.newId = NoId
    <3>1. uploader.phase # "finalize"
      BY <2>3 DEF SumsInv, Sent
    <3> QED BY <1>2, <2>1, <2>3, <3>1 DEF UploadRows
  <2>4. CASE uploader.newId # NoId
    <3>1. /\ uploader.newId \in SpareIds /\ row'[uploader.newId] # "dirty"
          /\ \A f \in Files : idOf'[f] # uploader.newId
          /\ \A h \in Handles : handle'[h].id # uploader.newId
          /\ row[uploader.newId] = "none" => row'[uploader.newId] = "none"
          /\ content[uploader.newId] = NoBytes => content'[uploader.newId] = NoBytes
      BY <1>2, <2>2, <2>4, NewIdStays
    <3> QED BY <1>2, <2>1, <3>1 DEF UploadRows
  <2> QED BY <2>3, <2>4
<1>3. ASSUME NEW id \in Ids, uploader'.phase = "send", uploader'.id = id,
             uploader'.newId = NoId
      PROVE  UploadRows'
  BY <1>3 DEF UploadRows
<1>4. CASE /\ SendCreate /\ uploader'.phase = "finalize"
           /\ uploader'.id = uploader.id /\ uploader'.newId \in SpareIds
           /\ drive[uploader'.newId] = NoBytes
  <2>1. PICK new \in SpareIds : new = uploader'.newId /\ drive[new] = NoBytes
    BY <1>4
  <2>2. /\ row[new] = "none" /\ content[new] = NoBytes
        /\ \A f \in Files : idOf[f] # new
        /\ \A h \in Handles : handle[h].id # new
    BY <2>1, Apartness DEF SumsInv, IndInv, Existing, Unborn
  <2>3. UNCHANGED <<row, content, idOf, handle>>
    BY <1>4 DEF SendCreate
  <2> QED BY <1>4, <2>1, <2>2, <2>3 DEF UploadRows
<1>5. CASE /\ \/ SendUpdate /\ uploader'.phase = "clear"
              \/ SendParentGone /\ uploader'.phase = "abandon"
              \/ Clear /\ uploader'.phase \in {"migrate", "publish"}
              \/ Abandon /\ uploader'.phase = "forget"
           /\ uploader'.id = uploader.id /\ uploader'.newId = NoId
  BY <1>5, UploaderRowsAt DEF UploadRows
<1>6. CASE /\ \/ Finalize /\ uploader'.phase \in {"migrate", "replace"}
              \/ Migrate /\ uploader'.phase \in {"publish", "replace"}
           /\ uploader'.id = uploader.id /\ uploader'.newId = uploader.newId
  <2>1. row'[uploader.id] # "dirty"
    <3>1. CASE Finalize
      BY <3>1, UploaderRowsAt
    <3>2. CASE Migrate
      BY <3>2 DEF Migrate, UploadRows
    <3> QED BY <1>6, <3>1, <3>2
  <2>2. ~Crash
    BY <1>6, CrashCounts
  <2>3. uploader.newId # NoId =>
          /\ uploader.newId \in SpareIds /\ row'[uploader.newId] # "dirty"
          /\ \A f \in Files : idOf'[f] # uploader.newId
          /\ \A h \in Handles : handle'[h].id # uploader.newId
    BY <1>6, <2>2, NewIdStays
  <2> QED BY <1>6, <2>1, <2>3 DEF UploadRows
<1>7. CASE Crash
  BY <1>7 DEF Crash, Resting, UploadRows
<1> QED BY <1>1, <1>2, <1>3, <1>4, <1>5, <1>6, <1>7, Stages

\* A callback leaves the other handles alone.
LEMMA OthersStay ==
  ASSUME SumsInv, NEW g \in Handles, NEW h \in Handles, CallbackOn(g), g # h
  PROVE  handle'[h] = handle[h]
<1>0. handle \in [Handles -> HandleState]
  BY KeepTypes
<1> QED BY <1>0
     DEF CallbackOn, OpenCall, Callback, OpenHit, OpenMiss, Create, OpenSeed,
         OpenUnseeded, Mark, Write, Flush, Release, ReleaseEmpty

\* What a step of a callback makes of its handle.
LEMMA CallbackEffect ==
  ASSUME NoOverlap, SumsInv, NEW h \in Handles, CallbackOn(h)
  PROVE  \/ (ReleaseEmpty(h) \/ Mark(h)) /\ handle'[h] = Closed
         \/ \E f \in Files :
               /\ Openable(h, f) /\ idOf[f] # NoId /\ UNCHANGED <<idOf, row>>
               /\ \/ /\ OpenMiss(h, f)
                     /\ handle'[h] = Opened("fetch", f, idOf[f], FALSE, Empty)
                  \/ /\ OpenHit(h, f)
                     /\ LET cached == content[CacheKey(idOf[f])]
                        IN  /\ cached # NoBytes \/ idOf[f] \in PendingIds
                            /\ handle'[h] = Opened("open", f, idOf[f], FALSE,
                                   IF cached = NoBytes THEN Empty ELSE cached)
         \/ \E f \in Files, pid \in PendingIds :
               /\ Create(h, f, pid)
               /\ handle'[h] = Opened("open", f, pid, TRUE, Empty)
         \/ /\ \/ /\ OpenSeed(h)
                  /\ LET cached == content[CacheKey(handle[h].id)]
                     IN  handle'[h] = Filled(h, IF cached = NoBytes THEN Empty
                                                ELSE cached, FALSE, FALSE)
               \/ \E b \in Bytes : Write(h, b) /\ handle'[h] = Filled(h, b, TRUE, FALSE)
               \/ /\ Flush(h)
                  /\ handle'[h] = Filled(h, handle[h].bytes, handle[h].wrote, TRUE)
            /\ handle[h].phase \in {"seed", "open"}
         \/ /\ Release(h)
            /\ handle'[h] = [phase |-> "mark", file |-> handle[h].file,
                             id |-> Target(h), created |-> handle[h].created,
                             bytes |-> handle[h].bytes, wrote |-> handle[h].wrote,
                             flushed |-> TRUE]
<1>0. handle \in [Handles -> HandleState]
  BY KeepTypes
<1>1. ~OpenUnseeded(h)
  BY Alone
<1>2. CASE ReleaseEmpty(h) \/ Mark(h)
  BY <1>0, <1>2 DEF ReleaseEmpty, Mark
<1>3. CASE \E f \in Files : OpenMiss(h, f)
  BY <1>0, <1>3 DEF OpenMiss, Openable
<1>4. CASE \E f \in Files : OpenHit(h, f)
  BY <1>0, <1>4 DEF OpenHit, Openable
<1>5. CASE \E f \in Files, pid \in PendingIds : Create(h, f, pid)
  BY <1>0, <1>5 DEF Create
<1>6. CASE OpenSeed(h)
  BY <1>0, <1>6 DEF OpenSeed
<1>7. CASE \E b \in Bytes : Write(h, b)
  BY <1>0, <1>7 DEF Write
<1>8. CASE Flush(h)
  BY <1>0, <1>8 DEF Flush
<1>9. CASE Release(h)
  BY <1>0, <1>9 DEF Release
<1> QED BY <1>1, <1>2, <1>3, <1>4, <1>5, <1>6, <1>7, <1>8, <1>9
        DEF CallbackOn, OpenCall, Callback

\* The fields of a handle that its callbacks write.
LEMMA HandleFields ==
  ASSUME NEW h \in Handles
  PROVE  /\ Closed.phase = "closed" /\ Closed.id = NoId /\ Closed.file = NoFile
         /\ \A ph, f, id, c, b :
               /\ Opened(ph, f, id, c, b).phase = ph
               /\ Opened(ph, f, id, c, b).file = f
               /\ Opened(ph, f, id, c, b).id = id
               /\ Opened(ph, f, id, c, b).created = c
               /\ Opened(ph, f, id, c, b).bytes = b
               /\ Opened(ph, f, id, c, b).wrote = FALSE
               /\ Opened(ph, f, id, c, b).flushed = FALSE
         /\ \A b, w, d :
               /\ Filled(h, b, w, d).phase = "open"
               /\ Filled(h, b, w, d).file = handle[h].file
               /\ Filled(h, b, w, d).id = handle[h].id
               /\ Filled(h, b, w, d).created = handle[h].created
               /\ Filled(h, b, w, d).bytes = b
               /\ Filled(h, b, w, d).wrote = w
               /\ Filled(h, b, w, d).flushed = d
BY DEF Closed, Opened, Filled

\* A handle keeps its file and id, or is new, or release() has found its target.
LEMMA HandleChange ==
  ASSUME NoOverlap, SumsInv, [Next]_vars, NEW h \in Handles,
         handle'[h].phase # "closed"
  PROVE  /\ ~Crash /\ ~Mark(h)
         /\ \/ /\ handle[h].phase # "closed"
               /\ handle'[h].file = handle[h].file /\ handle'[h].id = handle[h].id
               /\ handle'[h].created => handle[h].created
               /\ handle[h].phase \in {"open", "mark"} =>
                     handle'[h].phase = handle[h].phase
               /\ handle'[h].phase \in Started => handle[h].phase \in Started
               /\ handle'[h].phase = "mark" => handle[h].phase = "mark"
            \/ \E f \in Files :
                  /\ OpenHit(h, f) \/ OpenMiss(h, f)
                  /\ Openable(h, f) /\ idOf[f] # NoId /\ idOf'[f] = idOf[f]
                  /\ handle'[h].file = f /\ handle'[h].id = idOf[f]
                  /\ ~handle'[h].created
            \/ \E f \in Files, pid \in PendingIds :
                  /\ Create(h, f, pid)
                  /\ handle'[h].phase = "open"
                  /\ handle'[h].file = f /\ handle'[h].id = pid
            \/ /\ Release(h) /\ handle'[h].phase = "mark"
               /\ handle'[h].file = handle[h].file /\ handle'[h].id = Target(h)
               /\ handle'[h].created = handle[h].created
<1> DEFINE Goal ==
            \/ /\ handle[h].phase # "closed"
               /\ handle'[h].file = handle[h].file /\ handle'[h].id = handle[h].id
               /\ handle'[h].created => handle[h].created
               /\ handle[h].phase \in {"open", "mark"} =>
                     handle'[h].phase = handle[h].phase
               /\ handle'[h].phase \in Started => handle[h].phase \in Started
               /\ handle'[h].phase = "mark" => handle[h].phase = "mark"
            \/ \E f \in Files :
                  /\ OpenHit(h, f) \/ OpenMiss(h, f)
                  /\ Openable(h, f) /\ idOf[f] # NoId /\ idOf'[f] = idOf[f]
                  /\ handle'[h].file = f /\ handle'[h].id = idOf[f]
                  /\ ~handle'[h].created
            \/ \E f \in Files, pid \in PendingIds :
                  /\ Create(h, f, pid)
                  /\ handle'[h].phase = "open"
                  /\ handle'[h].file = f /\ handle'[h].id = pid
            \/ /\ Release(h) /\ handle'[h].phase = "mark"
               /\ handle'[h].file = handle[h].file /\ handle'[h].id = Target(h)
               /\ handle'[h].created = handle[h].created
<1>1. ~Crash /\ ~Mark(h)
  <2>0. handle \in [Handles -> HandleState]
    BY KeepTypes
  <2>1. Crash => handle'[h] = Closed
    BY DEF Crash
  <2>2. Mark(h) => handle'[h] = Closed
    BY <2>0 DEF Mark
  <2> QED BY <2>1, <2>2, HandleFields
<1> SUFFICES Goal
  BY <1>1
<1>2. CASE handle'[h] = handle[h]
  BY <1>2
<1>3. CASE CallbackOn(h)
  <2>1. CASE handle'[h] = Closed
    BY <2>1, HandleFields
  <2>2. ASSUME NEW f \in Files, OpenHit(h, f) \/ OpenMiss(h, f), Openable(h, f),
               idOf[f] # NoId, UNCHANGED <<idOf, row>>,
               \/ handle'[h] = Opened("fetch", f, idOf[f], FALSE, Empty)
               \/ \E b : handle'[h] = Opened("open", f, idOf[f], FALSE, b)
        PROVE  Goal
    <3>1. /\ handle'[h].file = f /\ handle'[h].id = idOf[f]
          /\ ~handle'[h].created
      <4>1. PICK ph, b : handle'[h] = Opened(ph, f, idOf[f], FALSE, b)
        BY <2>2
      <4> QED BY <4>1 DEF Opened
    <3>2. idOf'[f] = idOf[f]
      BY <2>2
    <3> QED BY <2>2, <3>1, <3>2
  <2>3. ASSUME NEW f \in Files, NEW pid \in PendingIds, Create(h, f, pid),
               handle'[h] = Opened("open", f, pid, TRUE, Empty)
        PROVE  Goal
    BY <2>3 DEF Opened, Started
  <2>4. ASSUME NEW b, NEW w, NEW d, handle'[h] = Filled(h, b, w, d),
               handle[h].phase \in {"seed", "open"}
        PROVE  Goal
    BY <2>4 DEF Filled, Started
  <2>5. CASE /\ Release(h)
             /\ handle'[h] = [phase |-> "mark", file |-> handle[h].file,
                             id |-> Target(h), created |-> handle[h].created,
                             bytes |-> handle[h].bytes, wrote |-> handle[h].wrote,
                             flushed |-> TRUE]
    BY <2>5
  <2> QED BY <1>3, <2>1, <2>2, <2>3, <2>4, <2>5, CallbackEffect
<1>4. CASE /\ StoreFetched /\ handle[h].phase = "fetch"
           /\ handle'[h] = Opened("seed", handle[h].file, handle[h].id, FALSE, Empty)
  BY <1>4 DEF Opened, Started
<1> QED BY <1>1, <1>2, <1>3, <1>4, HandleCases

\* The id of a handle stays right while the upload of its file goes on.
LEMMA HandleIdStays ==
  ASSUME NoOverlap, KeepInv, [Next]_vars, NEW h \in Handles,
         handle'[h].phase # "closed", handle[h].phase # "closed",
         handle[h].file \in KeptFiles,
         handle'[h].file = handle[h].file, handle'[h].id = handle[h].id,
         handle'[h].created => handle[h].created,
         handle[h].phase \in {"open", "mark"} => handle'[h].phase = handle[h].phase
  PROVE  HandleId(h)'
<1> DEFINE f == handle[h].file
           id == handle[h].id
<1> USE DEF KeepInv
<1>1. ~Crash /\ ~Mark(h)
  BY HandleChange
<1>2. /\ HandleId(h) /\ f \in Files /\ id \in Ids /\ id # NoId
      /\ ~\E g \in Handles, pid \in PendingIds : Create(g, f, pid)
  BY KeepTypes, KeptFacts, Apartness DEF HandleIds, Create
<1>3. /\ \/ idOf'[f] = id
         \/ /\ handle'[h].phase \in {"open", "mark"}
            /\ id \in PendingIds /\ ~handle'[h].created
            /\ idOf'[f] = NoId \/ (handle'[h].phase = "open" /\ idOf'[f] \in SpareIds)
      /\ handle[h].created => idOf'[f] = id
  <2>1. CASE idOf'[f] = idOf[f]
    BY <1>2, <2>1 DEF HandleId
  <2>2. CASE \/ Replace /\ idOf[f] = uploader.id /\ idOf'[f] = uploader.newId
             \/ Forget /\ idOf[f] = uploader.id /\ idOf'[f] = NoId
    <3>1. /\ uploader.id \in PendingIds /\ Uploading(uploader.id)
          /\ idOf'[f] \in SpareIds \cup {NoId}
      BY <2>2 DEF Replace, Forget, SumsInv, Sent, Uploading, UploadRows
    <3>2. CASE id = uploader.id
      <4>1. handle[h].phase \notin Started
        BY <3>1, <3>2, CallbackApart
      <4>2. handle[h].phase = "open" /\ ~handle[h].created
        BY <1>2, <3>2, <4>1, KeepTypes DEF Started, HandleId
      <4> QED BY <3>1, <3>2, <4>2
    <3>3. CASE id # uploader.id
      <4>1. idOf[f] = NoId \/ idOf[f] \in SpareIds
        BY <1>2, <2>2, <3>3 DEF HandleId
      <4> QED BY <2>2, <3>1, <4>1, Apartness
    <3> QED BY <3>2, <3>3
  <2> QED BY <1>1, <1>2, <2>1, <2>2, IdStep
<1>4. ASSUME handle[h].created
      PROVE  row'[id] = "none" /\ uploader'.id # id
  <2>1. idOf[f] = id /\ row[id] = "none" /\ uploader.id # id
    BY <1>2, <1>4 DEF HandleId
  <2>2. ASSUME NEW g \in Handles, Mark(g), handle[g].id = id PROVE FALSE
    <3>1. g # h /\ handle[g].phase # "closed"
      BY <1>1, <2>2 DEF Mark
    <3>2. handle[g].file = f
      BY <2>1, <2>2, <3>1 DEF HandleIds
    <3> QED BY <3>1, <3>2 DEF HandleIds
  <2>3. Finalize => uploader.newId # id
    BY DEF Finalize, SumsInv, Sent, UploadRows
  <2>4. row'[id] = "none"
    BY <1>2, <2>1, <2>2, <2>3, RowStep
  <2>5. ~Load(id)
    BY <2>1 DEF Load, SumsInv, IndInv, UploaderShape, Dirty
  <2>6. uploader'.id # id
    BY <1>2, <2>1, <2>5, Stages
  <2> QED BY <2>4, <2>6
<1> QED BY <1>3, <1>4 DEF HandleId

LEMMA HandleIdStep ==
  ASSUME NoOverlap, KeepInv, [Next]_vars, NEW h \in Handles,
         handle'[h].phase # "closed", handle'[h].file \in KeptFiles
  PROVE  HandleId(h)'
<1> USE DEF KeepInv
<1>1. CASE /\ handle[h].phase # "closed"
           /\ handle'[h].file = handle[h].file /\ handle'[h].id = handle[h].id
           /\ handle'[h].created => handle[h].created
           /\ handle[h].phase \in {"open", "mark"} =>
                 handle'[h].phase = handle[h].phase
  BY <1>1, HandleIdStays
<1>2. ASSUME NEW f \in Files, idOf'[f] = idOf[f],
             handle'[h].file = f, handle'[h].id = idOf[f], ~handle'[h].created
      PROVE  HandleId(h)'
  BY <1>2 DEF HandleId
<1>3. ASSUME NEW f \in Files, NEW pid \in PendingIds, Create(h, f, pid),
             handle'[h].phase = "open", handle'[h].file = f, handle'[h].id = pid
      PROVE  HandleId(h)'
  <2>1. f \in NewFiles
    BY <1>3 DEF Create
  <2>2. Fresh(pid)
    BY <1>3, <2>1, KeptFacts, CreateFresh
  <2>3. idOf'[f] = pid /\ UNCHANGED <<row, uploader>>
    BY <1>3, KeepTypes DEF Create
  <2> QED BY <1>3, <2>2, <2>3 DEF HandleId, Fresh
<1>4. CASE /\ Release(h) /\ handle'[h].phase = "mark"
           /\ handle'[h].file = handle[h].file /\ handle'[h].id = Target(h)
           /\ handle'[h].created = handle[h].created
  <2>1. HandleId(h)
    BY <1>4 DEF HandleIds, Release
  <2>2. UNCHANGED <<idOf, row, uploader>> /\ handle[h].phase = "open"
    BY <1>4 DEF Release
  <2>3. CASE Target(h) = idOf[handle[h].file] /\ ~handle[h].created
    BY <1>4, <2>2, <2>3 DEF HandleId
  <2>4. CASE Target(h) = handle[h].id /\ Target(h) # idOf[handle[h].file]
    <3>1. /\ handle[h].id \in PendingIds /\ ~handle[h].created
          /\ idOf[handle[h].file] \in SpareIds \cup {NoId}
      BY <2>1, <2>4 DEF HandleId
    <3>2. idOf[handle[h].file] \notin DriveIds
      BY <2>4, <3>1 DEF Target
    <3>3. idOf[handle[h].file] = NoId
      BY <3>1, <3>2, Apartness
    <3> QED BY <1>4, <2>2, <2>4, <3>1, <3>3 DEF HandleId
  <2>5. CASE Target(h) = handle[h].id /\ Target(h) = idOf[handle[h].file]
    BY <1>4, <2>1, <2>2, <2>5 DEF HandleId
  <2> QED BY <1>4, <2>3, <2>4, <2>5, TargetIs
<1> QED BY <1>1, <1>2, <1>3, <1>4, HandleChange

\* A file's id in a handle is in a handle of that file.
LEMMA HandleOfId ==
  ASSUME NoOverlap, KeepInv, [Next]_vars, NEW h \in Handles,
         handle'[h].phase # "closed", NEW f \in KeptFiles, idOf'[f] = handle'[h].id
  PROVE  handle'[h].file = f
<1> USE DEF KeepInv
<1>0. f \in Files
  BY KeptFacts
<1>1. CASE /\ handle[h].phase # "closed"
           /\ handle'[h].file = handle[h].file /\ handle'[h].id = handle[h].id
  <2>1. handle[h].id \in Ids /\ handle[h].id # NoId /\ ~Crash
    BY <1>1, KeepTypes, Apartness, HandleChange
  <2>2. ASSUME NEW g \in Handles, NEW pid \in PendingIds, Create(g, f, pid),
               idOf'[f] = pid
        PROVE  FALSE
    <3>1. f \in NewFiles
      BY <2>2 DEF Create
    <3>2. Fresh(pid)
      BY <1>0, <2>2, <3>1, KeptFacts, CreateFresh
    <3> QED BY <1>1, <2>2, <3>2 DEF Fresh
  <2>3. ASSUME Replace, idOf'[f] = uploader.newId PROVE FALSE
    BY <1>1, <2>3 DEF Replace, SumsInv, Sent, UploadRows
  <2>4. idOf'[f] = idOf[f]
    BY <1>0, <1>1, <2>1, <2>2, <2>3, IdStep
  <2> QED BY <1>1, <2>4 DEF HandleIds
<1>2. ASSUME NEW f0 \in Files, idOf[f0] # NoId, idOf'[f0] = idOf[f0],
             handle'[h].file = f0, handle'[h].id = idOf[f0]
      PROVE  handle'[h].file = f
  BY <1>2, FileIdsUnique
<1>3. ASSUME NEW f0 \in Files, NEW pid \in PendingIds, Create(h, f0, pid),
             handle'[h].file = f0, handle'[h].id = pid
      PROVE  handle'[h].file = f
  <2>1. idOf'[f0] = pid /\ pid # NoId
    BY <1>3, KeepTypes, Apartness DEF Create
  <2> QED BY <1>3, <2>1, FileIdsUnique
<1>4. CASE /\ Release(h)
           /\ handle'[h].file = handle[h].file /\ handle'[h].id = Target(h)
  <2>1. UNCHANGED idOf /\ handle[h].phase # "closed"
    BY <1>4 DEF Release
  <2>2. CASE Target(h) = handle[h].id
    BY <1>4, <2>1, <2>2 DEF HandleIds
  <2>3. CASE Target(h) = idOf[handle[h].file] /\ Target(h) \in DriveIds
    <3>1. Target(h) # NoId /\ handle[h].file \in Files
      BY <1>4, TargetIs, Apartness
    <3>2. idOf[f] = idOf[handle[h].file] /\ idOf[f] # NoId
      BY <1>4, <2>1, <2>3, <3>1
    <3> QED BY <1>4, <3>1, <3>2 DEF FileIds
  <2> QED BY <1>4, <2>2, <2>3, TargetIs
<1> QED BY <1>1, <1>2, <1>3, <1>4, HandleChange

\* Files of handles that are open, and the handle the event loop serves.
LEMMA OneHandlePerFile ==
  ASSUME NoOverlap, KeepInv, [Next]_vars, NEW h \in Handles, NEW g \in Handles,
         handle'[h].phase # "closed", handle'[g].phase # "closed", g # h
  PROVE  handle'[g].file # handle'[h].file
<1> USE DEF KeepInv
\* The file is new to one of the two handles.
<1>1. ASSUME NEW a \in Handles, NEW b \in Handles, a # b, NEW f \in Files,
             \/ OpenHit(a, f) \/ OpenMiss(a, f)
             \/ \E pid \in PendingIds : Create(a, f, pid)
      PROVE  handle'[b].file # f
  <2>1. CallbackOn(a)
    BY <1>1 DEF CallbackOn, OpenCall
  <2>2. handle'[b] = handle[b]
    BY <1>1, <2>1, OthersStay
  <2>3. handle[b].file # f
    BY <1>1, Alone DEF OpenHit, OpenMiss, Create
  <2> QED BY <2>2, <2>3
<1>2. CASE /\ handle[h].phase # "closed" /\ handle'[h].file = handle[h].file
           /\ handle[g].phase # "closed" /\ handle'[g].file = handle[g].file
  BY <1>2 DEF HandleIds
<1>3. ASSUME NEW a \in Handles, Release(a) PROVE handle[a].phase # "closed"
  BY <1>3 DEF Release
<1> QED BY <1>1, <1>2, <1>3, HandleChange

LEMMA OneCallback ==
  ASSUME NoOverlap, KeepInv, [Next]_vars, NEW h \in Handles, NEW g \in Handles,
         handle'[h].phase \in Started, handle'[g].phase \in Started, g # h
  PROVE  FALSE
<1> USE DEF KeepInv
<1>1. \A a \in Handles : handle'[a].phase \in Started => handle'[a].phase # "closed"
  BY DEF Started
<1>2. ASSUME NEW a \in Handles, handle'[a].phase \in Started,
             handle[a].phase \notin Started
      PROVE  EventLoopFree /\ CallbackOn(a)
  BY <1>1, <1>2, HandleChange
     DEF OpenHit, OpenMiss, Openable, Release, CallbackOn, OpenCall, Started,
         Create
<1>3. ASSUME NEW a \in Handles, NEW b \in Handles, a # b,
             handle'[b].phase \in Started, EventLoopFree, CallbackOn(a)
      PROVE  FALSE
  <2>1. handle'[b] = handle[b]
    BY <1>3, OthersStay
  <2> QED BY <1>3, <2>1 DEF EventLoopFree, Started
<1>4. CASE handle[h].phase \in Started /\ handle[g].phase \in Started
  BY <1>4 DEF HandleIds, Started
<1> QED BY <1>2, <1>3, <1>4

LEMMA HandleIdsStep == NoOverlap /\ KeepInv /\ [Next]_vars => HandleIds'
<1> SUFFICES ASSUME NoOverlap, KeepInv, [Next]_vars, NEW h \in Handles,
                    handle'[h].phase # "closed"
             PROVE  /\ handle'[h].file \in KeptFiles => HandleId(h)'
                    /\ \A f \in KeptFiles : idOf'[f] = handle'[h].id => handle'[h].file = f
                    /\ \A g \in Handles : handle'[g].phase # "closed" /\ g # h =>
                          /\ handle'[g].file # handle'[h].file
                          /\ handle'[g].phase \in Started => handle'[h].phase \notin Started
  BY DEF HandleIds, Started
<1> QED BY HandleIdStep, HandleOfId, OneHandlePerFile, OneCallback

\* A closed handle has no id, unless it had one.
LEMMA ClosedChange ==
  ASSUME NoOverlap, SumsInv, [Next]_vars, NEW h \in Handles,
         handle'[h].phase = "closed"
  PROVE  handle'[h] = handle[h] \/ handle'[h].id = NoId
<1>1. CASE CallbackOn(h)
  <2>1. ASSUME NEW ph \in {"open", "fetch"}, NEW f, NEW id, NEW c, NEW b,
               handle'[h] = Opened(ph, f, id, c, b)
        PROVE  FALSE
    BY <2>1 DEF Opened
  <2>2. ASSUME NEW b, NEW w, NEW d, handle'[h] = Filled(h, b, w, d) PROVE FALSE
    BY <2>2 DEF Filled
  <2>3. CASE handle'[h] = Closed
    BY <2>3 DEF Closed
  <2>5. ~Release(h) \/ ~(handle'[h] = [phase |-> "mark", file |-> handle[h].file,
                             id |-> Target(h), created |-> handle[h].created,
                             bytes |-> handle[h].bytes, wrote |-> handle[h].wrote,
                             flushed |-> TRUE])
    OBVIOUS
  <2> QED BY <1>1, <2>1, <2>2, <2>3, <2>5, CallbackEffect
<1>2. CASE handle'[h] = Opened("seed", handle[h].file, handle[h].id, FALSE, Empty)
  BY <1>2 DEF Opened
<1>3. CASE handle'[h] = Closed
  BY <1>3 DEF Closed
<1> QED BY <1>1, <1>2, <1>3, HandleCases

\* A placeholder's id is fresh until create() takes it.
LEMMA FreshStays ==
  ASSUME NoOverlap, KeepInv, [Next]_vars, NEW pid \in PendingIds, Fresh(pid),
         ~Crash, ~\E h \in Handles, f \in Files : Create(h, f, pid)
  PROVE  Fresh(pid)'
<1> USE DEF KeepInv
<1>0. pid \in Ids /\ pid # NoId /\ pid \notin DriveIds
  BY Apartness
<1>1. /\ row[pid] = "none" /\ uploader.id # pid
      /\ \A h \in Handles : handle[h].id # pid
      /\ \A f \in Files : idOf[f] # pid
  BY DEF Fresh
<1>2. row'[pid] = "none"
  <2>1. Finalize => uploader.newId # pid
    BY <1>0, Apartness DEF Finalize, SumsInv, Sent, UploadRows
  <2> QED BY <1>0, <1>1, <2>1, RowStep
<1>3. uploader'.id # pid
  <2>1. ~Load(pid)
    BY <1>1 DEF Load, SumsInv, IndInv, UploaderShape, Dirty
  <2> QED BY <1>0, <1>1, <2>1, Stages
<1>4. ASSUME NEW f \in Files PROVE idOf'[f] # pid
  <2>1. Replace => uploader.newId # pid
    BY <1>0, Apartness DEF Replace, SumsInv, Sent, UploadRows
  <2>2. \A h \in Handles, p \in PendingIds : Create(h, f, p) => p # pid
    OBVIOUS
  <2> QED BY <1>0, <1>1, <2>1, <2>2, IdStep
<1>5. ASSUME NEW h \in Handles PROVE handle'[h].id # pid
  <2>1. CASE handle'[h].phase = "closed"
    BY <1>0, <1>1, <2>1, ClosedChange
  <2>2. CASE handle'[h].phase # "closed"
    <3>1. ASSUME Release(h) PROVE Target(h) # pid
      BY <1>1, <3>1, TargetIs
    <3> QED BY <1>1, <2>2, <3>1, HandleChange
  <2> QED BY <2>1, <2>2
<1> QED BY <1>2, <1>3, <1>4, <1>5 DEF Fresh

LEMMA UnusedStep == NoOverlap /\ KeepInv /\ [Next]_vars => Unused'
<1> SUFFICES ASSUME NoOverlap, KeepInv, [Next]_vars PROVE Unused'
  OBVIOUS
<1> USE DEF KeepInv
<1>1. ASSUME MaxCrashes = 0, NEW pid \in PendingIds \ mounted' PROVE Fresh(pid)'
  <2>1. ~Crash
    <3>1. crashes \in Nat
      BY BoundsAssumption DEF SumsInv, IndInv, TypeOK
    <3> QED BY <1>1, <3>1 DEF Crash
  <2>2. mounted \subseteq mounted'
    BY <2>1 DEF Next, vars, OpenCall, Callback, OpenHit, OpenMiss, Create,
         OpenSeed, OpenUnseeded, Mark, Write, Flush, Release, ReleaseEmpty,
         UploaderStep, Snapshot, Load, SendUpdate, SendCreate, SendFails,
         SendParentGone, Clear, Finalize, Migrate, Publish, Replace, Abandon,
         Forget, Fetch, List, StoreFetched, StoreListed, CheckVictim, Evict
  <2>3. Fresh(pid)
    BY <1>1, <2>2 DEF Unused
  <2>4. ~\E h \in Handles, f \in Files : Create(h, f, pid)
    BY <1>1 DEF Create
  <2> QED BY <2>1, <2>3, <2>4, FreshStays
<1>2. ASSUME NoReuse, MaxCrashes # 0
      PROVE  /\ uploader'.phase \notin {"abandon", "forget"}
             /\ \A pid \in PendingIds : row'[pid] # "none" => rowFile'[pid] \in NewFiles
             /\ (\E f \in NewFiles : idOf'[f] = NoId) =>
                   \A pid \in PendingIds : Fresh(pid)'
  <2>1. /\ \A f, g \in NewFiles : f = g
        /\ "gone" \notin Disturbances /\ KeptFiles = Files
    BY <1>2, KeptFacts DEF NoReuse
  <2>2. /\ uploader.phase \notin {"abandon", "forget"}
        /\ \A pid \in PendingIds : row[pid] # "none" => rowFile[pid] \in NewFiles
        /\ (\E f \in NewFiles : idOf[f] = NoId) => \A pid \in PendingIds : Fresh(pid)
    BY <1>2 DEF Unused
  <2>3. uploader'.phase \notin {"abandon", "forget"}
    BY <2>1, <2>2, Stages DEF SendParentGone, Abandon
  <2>4. ASSUME NEW f \in Files, idOf[f] = NoId \/ idOf[f] \in PendingIds
        PROVE  f \in NewFiles
    BY <2>4, KeptFacts, Apartness DEF FileIds
  <2>5. ASSUME NEW pid \in PendingIds, row'[pid] # "none"
        PROVE  rowFile'[pid] \in NewFiles
    <3>1. ASSUME NEW h \in Handles, Mark(h), handle[h].id = pid
          PROVE  /\ idOf[handle[h].file] = pid /\ handle[h].file \in NewFiles
      <4>1. handle[h].phase = "mark" /\ handle[h].file \in Files
        BY <3>1, KeepTypes DEF Mark
      <4>2. HandleId(h)
        BY <2>1, <4>1 DEF HandleIds
      <4>3. idOf[handle[h].file] # NoId
        <5>1. SUFFICES ASSUME idOf[handle[h].file] = NoId PROVE FALSE
          OBVIOUS
        <5>2. Fresh(pid)
          BY <2>2, <2>4, <4>1, <5>1
        <5> QED BY <3>1, <5>2 DEF Fresh
      <4>4. idOf[handle[h].file] = pid
        BY <3>1, <4>1, <4>2, <4>3 DEF HandleId
      <4> QED BY <2>4, <4>1, <4>4
    <3>2. Finalize => uploader.newId # pid
      BY Apartness DEF Finalize, SumsInv, Sent, UploadRows
    <3>3. Clear /\ pid = uploader.id => row[pid] # "none"
      BY KeepTypes DEF Clear
    <3>4. pid \in Ids
      BY Apartness
    <3> QED BY <2>2, <2>5, <3>1, <3>2, <3>3, <3>4, RowStep
  <2>6. ASSUME NEW f \in NewFiles, idOf'[f] = NoId, NEW pid \in PendingIds
        PROVE  Fresh(pid)'
    <3>0. f \in Files /\ f \notin OldFiles /\ pid # NoId
      BY KeptFacts, Apartness
    <3>1. CASE Crash
      <4>1. ~\E id \in Ids : row[id] # "none" /\ rowFile[id] = f
        BY <2>6, <3>0, <3>1, CrashIds, Apartness
      <4>2. row[pid] = "none"
        BY <2>1, <2>2, <4>1, Apartness
      <4>3. ASSUME NEW g \in Files PROVE idOf'[g] # pid
        <5>1. CASE g \in OldFiles
          BY <3>1, <5>1, CrashIds, Apartness, KeptFacts
        <5>2. CASE g \in NewFiles
          BY <2>1, <2>6, <3>0, <5>2
        <5> QED BY <5>1, <5>2, KeptFacts
      <4>4. /\ row'[pid] = "none" /\ uploader'.id = NoId
            /\ \A h \in Handles : handle'[h].id = NoId
        BY <3>1, <4>2 DEF Crash, Resting, Closed
      <4> QED BY <3>0, <4>3, <4>4 DEF Fresh
    <3>2. CASE ~Crash
      <4>1. Replace => uploader.newId # NoId
        BY DEF Replace, SumsInv, Sent
      <4>2. ~Forget
        BY <2>2 DEF Forget
      <4>3. idOf[f] = NoId
        BY <2>6, <3>0, <3>2, <4>1, <4>2, IdStep, Apartness
      <4>4. Fresh(pid)
        BY <2>2, <4>3
      <4>5. ASSUME NEW h \in Handles, NEW g \in Files, Create(h, g, pid) PROVE FALSE
        <5>1. g = f
          BY <2>1, <4>5 DEF Create
        <5>2. idOf'[f] = pid
          BY <3>0, <4>5, <5>1, KeepTypes DEF Create
        <5> QED BY <2>6, <3>0, <5>2
      <4> QED BY <3>2, <4>4, <4>5, FreshStays
    <3> QED BY <3>1, <3>2
  <2> QED BY <2>3, <2>5, <2>6
<1> QED BY <1>1, <1>2 DEF Unused

-----------------------------------------------------------------------------
(* Nobody takes away what is still needed.                                  *)

LEMMA DirtyCachedStep == NoOverlap /\ KeepInv /\ [Next]_vars => DirtyCached'
<1> SUFFICES ASSUME NoOverlap, KeepInv, [Next]_vars, NEW id \in Ids,
                    row'[id] = "dirty"
             PROVE  content'[id] # NoBytes
  BY DEF DirtyCached
<1> USE DEF KeepInv
<1>1. ASSUME NEW h \in Handles, Mark(h), handle[h].id = id
      PROVE  content'[id] # NoBytes
  <2>1. content[id] = handle[h].bytes
    BY <1>1 DEF Mark, Buffers, Buffer
  <2> QED BY <1>1, <2>1, KeepTypes DEF Mark
<1>2. CASE row[id] = "dirty"
  <2>1. content[id] # NoBytes
    BY <1>2 DEF DirtyCached
  <2>2. ASSUME Evict, cleaner = id PROVE FALSE
    <3>1. cleaner # NoBytes /\ cleaner \in DriveIds
      BY <2>2 DEF Evict, CleanerApart, Ids
    <3> QED BY <1>2, <2>2, <3>1 DEF CleanerApart
  <2>3. ASSUME Migrate, uploader.id = id PROVE FALSE
    BY <1>2, <2>3 DEF Migrate, UploadRows
  <2>4. ASSUME Finalize, uploader.id = id PROVE FALSE
    BY <2>4, UploaderRowsAt
  <2>5. ASSUME Finalize, id = uploader.newId PROVE FALSE
    BY <2>5, UploaderRowsAt
  <2>6. ASSUME StoreFetched, worker.id = id PROVE FALSE
    BY <1>2, <2>6 DEF StoreFetched, DownloadClean
  <2>7. \A h \in Handles : handle[h].bytes # NoBytes
    BY KeepTypes
  <2> QED BY <1>2, <2>1, <2>2, <2>3, <2>4, <2>5, <2>6, <2>7, StoreStep
<1> QED BY <1>1, <1>2, RowStep

LEMMA UnbornStep == NoOverlap /\ KeepInv /\ [Next]_vars => Unborn'
<1> SUFFICES ASSUME NoOverlap, KeepInv, [Next]_vars, NEW id \in DriveIds,
                    drive'[id] = NoBytes
             PROVE  content'[id] = NoBytes
  BY DEF Unborn
<1> USE DEF KeepInv
<1>1. /\ drive[id] = NoBytes /\ content[id] = NoBytes /\ id \in Ids
      /\ \A f \in Files : idOf[f] # id
      /\ \A h \in Handles : handle[h].id # id
  BY DriveStep, Apartness DEF SumsInv, IndInv, Existing, Unborn
<1>2. ~\E h \in Handles : Release(h) /\ Target(h) = id
  BY <1>1, TargetIs
<1>3. ~(StoreFetched /\ worker.id = id)
  <2>1. StoreFetched => worker.bytes \in Bytes /\ worker.bytes = drive[worker.id]
    BY DEF StoreFetched, SumsInv, DownloadFresh, IndInv, TypeOK
  <2> QED BY <1>1, <2>1, Apartness
<1>4. ~(Finalize /\ id = uploader.newId)
  BY <1>1, UploaderRecord DEF Finalize, SumsInv, Sent
<1> QED BY <1>1, <1>2, <1>3, <1>4, StoreStep

\* The key of a file that a callback is at work on stays until the callback ends.
LEMMA KeyOfCallback ==
  ASSUME NoOverlap, KeepInv, [Next]_vars, NEW h \in Handles,
         handle[h].phase \in Started, handle'[h].phase # "closed",
         NEW id \in Ids, id = handle[h].id
  PROVE  CacheKey(id)' = CacheKey(id)
<1> USE DEF KeepInv
<1>1. ~Uploading(id) /\ ~(StoreListed /\ answer.id = id) /\ ~Crash
  BY CallbackApart, Alone, HandleChange
<1>2. ASSUME NEW g \in Handles, Mark(g), handle[g].id = id PROVE FALSE
  <2>1. g # h /\ handle[g].phase = "mark"
    BY <1>2, HandleChange DEF Mark
  <2> QED BY <2>1 DEF HandleIds, Started
<1> QED BY <1>1, <1>2, KeyStep

LEMMA CleanerApartStep == NoOverlap /\ KeepInv /\ [Next]_vars => CleanerApart'
<1> SUFFICES ASSUME NoOverlap, KeepInv, [Next]_vars, cleaner' # NoBytes
             PROVE  /\ cleaner' \notin PendingIds
                    /\ cleaner' \in DriveIds => row'[cleaner'] # "dirty"
                    /\ \A h \in Handles : handle'[h].phase \in Started =>
                          cleaner' \notin {handle'[h].id, CacheKey(handle[h].id)'}
  BY DEF CleanerApart
<1> USE DEF KeepInv
<1>1. ASSUME NEW k \in Keys, CheckVictim(k)
      PROVE  /\ cleaner' \notin PendingIds
             /\ cleaner' \in DriveIds => row'[cleaner'] # "dirty"
             /\ \A h \in Handles : handle'[h].phase \in Started =>
                   cleaner' \notin {handle'[h].id, CacheKey(handle[h].id)'}
  <2>1. /\ cleaner' = k /\ UNCHANGED <<row, md5Of, handle>>
        /\ k \notin PendingIds /\ (k \in DriveIds => row[k] # "dirty")
        /\ \A h \in Handles : handle[h].phase \in Started =>
              k \notin {handle[h].id, CacheKey(handle[h].id)}
    BY <1>1 DEF CheckVictim, NoOverlap, Started
  <2>2. \A h \in Handles : CacheKey(handle[h].id)' = CacheKey(handle[h].id)
    BY <2>1 DEF CacheKey
  <2> QED BY <2>1, <2>2
<1>2. CASE cleaner' = cleaner /\ ~Crash
  <2>1. cleaner \notin PendingIds /\ (cleaner \in DriveIds => row[cleaner] # "dirty")
    BY <1>2 DEF CleanerApart
  <2>2. ASSUME cleaner \in DriveIds PROVE row'[cleaner] # "dirty"
    <3>1. PICK id \in Ids : id = cleaner
      BY <2>2, Apartness
    <3>2. ~\E h \in Handles : Mark(h) /\ handle[h].id = id
      BY <1>2, <3>1 DEF Mark, Started, CleanerApart
    <3> QED BY <2>1, <2>2, <3>1, <3>2, RowStep
  <2>3. ASSUME NEW h \in Handles, handle'[h].phase \in Started
        PROVE  cleaner' \notin {handle'[h].id, CacheKey(handle[h].id)'}
    <3>0. handle'[h].phase # "closed"
      BY <2>3 DEF Started
    <3>1. TypeOK /\ HandleShape /\ HandleShape'
      BY HandleShapeStep DEF SumsInv, IndInv
    <3>2. PICK id \in Ids : id = handle'[h].id
      BY <3>0, <3>1 DEF HandleShape
    <3>3. CacheKey(handle[h].id)' = CacheKey(id)'
      BY <3>2
    <3>4. ASSUME MayAccess(id), UNCHANGED <<row, md5Of>>
          PROVE  cleaner' \notin {id, CacheKey(id)'}
      <4>1. CacheKey(id)' = CacheKey(id)
        BY <3>4 DEF CacheKey
      <4> QED BY <1>2, <3>4, <4>1, Alone
    <3>5. CASE handle[h].phase \in Started /\ handle'[h].id = handle[h].id
      <4>1. cleaner \notin {id, CacheKey(id)}
        BY <1>2, <3>2, <3>5 DEF CleanerApart
      <4>2. CacheKey(id)' = CacheKey(id)
        BY <3>0, <3>2, <3>5, KeyOfCallback
      <4> QED BY <1>2, <3>2, <3>3, <4>1, <4>2
    <3>6. ASSUME NEW f \in Files, OpenHit(h, f) \/ OpenMiss(h, f), Openable(h, f),
                 handle'[h].id = idOf[f]
          PROVE  MayAccess(id) /\ UNCHANGED <<row, md5Of>>
      BY <3>2, <3>6 DEF OpenHit, OpenMiss, Openable
    <3>7. ASSUME Release(h), handle'[h].id = Target(h)
          PROVE  MayAccess(id) /\ UNCHANGED <<row, md5Of>>
      BY <3>2, <3>7 DEF Release
    <3>8. CASE handle'[h].phase = "open"
      BY <2>3, <3>8 DEF Started
    <3> QED BY <2>3, <3>0, <3>2, <3>3, <3>4, <3>5, <3>6, <3>7, <3>8, HandleChange
  <2> QED BY <1>2, <2>1, <2>2, <2>3
<1>3. CASE Crash \/ Evict
  BY <1>3 DEF Crash, Evict
<1>4. CASE UNCHANGED cleaner /\ ~Crash
  BY <1>2, <1>4
<1> QED BY <1>1, <1>3, <1>4
        DEF Next, vars, OpenCall, Callback, OpenHit, OpenMiss, Create,
            OpenSeed, OpenUnseeded, Mark, Write, Flush, Release, ReleaseEmpty,
            UploaderStep, Snapshot, Load, SendUpdate, SendCreate, SendFails,
            SendParentGone, Clear, Finalize, Migrate, Publish, Replace, Abandon,
            Forget, Fetch, List, StoreFetched, StoreListed

LEMMA DownloadCleanStep == NoOverlap /\ KeepInv /\ [Next]_vars => DownloadClean'
<1> SUFFICES ASSUME NoOverlap, KeepInv, [Next]_vars, worker' # NoDownload
             PROVE  /\ row'[worker'.id] # "dirty"
                    /\ \A h \in Handles : handle'[h].phase = "mark" =>
                          handle'[h].id # worker'.id
  BY DEF DownloadClean
<1> USE DEF KeepInv
<1>1. ASSUME NEW id \in DriveIds, Fetch(id)
      PROVE  /\ row'[worker'.id] # "dirty"
             /\ \A h \in Handles : handle'[h].phase = "mark" =>
                   handle'[h].id # worker'.id
  <2>1. worker'.id = id /\ UNCHANGED <<row, handle>>
    BY <1>1 DEF Fetch
  <2>2. ASSUME NEW h \in Handles, handle[h].phase = "fetch", handle[h].id = id
        PROVE  /\ row[id] # "dirty"
               /\ \A g \in Handles : handle[g].phase # "mark"
    BY <2>2 DEF Buffers, Buffer, HandleIds, Started
  <2>3. CASE EventLoopFree /\ row[id] # "dirty"
    BY <2>1, <2>3 DEF EventLoopFree
  <2> QED BY <1>1, <2>1, <2>2, <2>3 DEF Fetch
<1>2. CASE worker' = worker /\ ~Crash
  <2>0. worker.id \in Ids /\ row[worker.id] # "dirty"
    BY <1>2, Apartness DEF DownloadClean, SumsInv, DownloadFresh
  <2>1. ~\E h \in Handles : Mark(h) /\ handle[h].id = worker.id
    BY <1>2 DEF Mark, DownloadClean
  <2>2. row'[worker.id] # "dirty"
    BY <2>0, <2>1, RowStep
  <2>3. ASSUME NEW h \in Handles, handle'[h].phase = "mark"
        PROVE  handle'[h].id # worker.id
    <3>1. ASSUME handle[h].phase = "mark", handle'[h].id = handle[h].id
          PROVE  handle'[h].id # worker.id
      BY <1>2, <3>1 DEF DownloadClean
    <3>2. ASSUME NEW f \in Files, Openable(h, f), handle'[h].id = idOf[f]
          PROVE  handle'[h].id # worker.id
      BY <3>2, Alone DEF Openable
    <3>3. ASSUME Release(h), handle'[h].id = Target(h)
          PROVE  handle'[h].id # worker.id
      BY <3>3, Alone DEF Release
    <3> QED BY <2>3, <3>1, <3>2, <3>3, HandleChange
  <2> QED BY <1>2, <2>2, <2>3
<1>3. CASE StoreFetched \/ Crash
  BY <1>3 DEF StoreFetched, Crash
<1>4. CASE UNCHANGED worker /\ ~Crash
  BY <1>2, <1>4
<1> QED BY <1>1, <1>3, <1>4
        DEF Next, vars, OpenCall, Callback, OpenHit, OpenMiss, Create,
            OpenSeed, OpenUnseeded, Mark, Write, Flush, Release, ReleaseEmpty,
            UploaderStep, Snapshot, Load, SendUpdate, SendCreate, SendFails,
            SendParentGone, Clear, Finalize, Migrate, Publish, Replace, Abandon,
            Forget, List, StoreListed, CheckVictim, Evict

\* Who takes a content out of the cache.
LEMMA Removed ==
  ASSUME SumsInv, [Next]_vars, NEW k \in Keys,
         content[k] # NoBytes, content'[k] = NoBytes
  PROVE  \/ Evict /\ cleaner = k
         \/ (Migrate \/ Finalize) /\ uploader.id = k
         \/ Crash
<1> DEFINE Goal == \/ Evict /\ cleaner = k
                   \/ (Migrate \/ Finalize) /\ uploader.id = k
                   \/ Crash
<1>0. /\ content \in [Keys -> Bytes \cup {NoBytes}]
      /\ \A h \in Handles : handle[h].bytes # NoBytes
  BY KeepTypes
<1>1. ASSUME NEW h \in Handles, Flush(h) \/ Release(h) PROVE FALSE
  <2>1. \E i : content' = [content EXCEPT ![i] = handle[h].bytes]
    BY <1>1 DEF Flush, Release
  <2> QED BY <1>0, <2>1
<1>2. CASE StoreFetched
  <2>1. /\ worker.bytes # NoBytes
        /\ \E i : content' = [content EXCEPT ![i] = worker.bytes]
    BY <1>2, Apartness DEF StoreFetched, SumsInv, IndInv, TypeOK
  <2> QED BY <1>0, <2>1
<1>3. CASE Finalize
  <2>1. PICK new : content' \in BlobRenamed(uploader.id, new)
    BY <1>3 DEF Finalize
  <2>2. k # uploader.id => content'[k] \in {content[k], content[uploader.id]}
    BY <1>0, <2>1 DEF BlobRenamed
  <2>3. content[uploader.id] # NoBytes \/ content' = content
    BY <2>1 DEF BlobRenamed
  <2> QED BY <1>3, <2>2, <2>3
<1>4. CASE Migrate
  <2>1. \/ content' = content
        \/ /\ content[uploader.id] # NoBytes
           /\ content' = [content EXCEPT ![AnsweredSum] = content[uploader.id],
                                         ![uploader.id] = NoBytes]
    BY <1>4 DEF Migrate
  <2> QED BY <1>0, <1>4, <2>1
<1>5. CASE Evict
  BY <1>0, <1>5 DEF Evict
<1>6. CASE UNCHANGED content
  BY <1>6
<1> QED BY <1>1, <1>2, <1>3, <1>4, <1>5, <1>6
        DEF Next, vars, OpenCall, Callback, OpenHit, OpenMiss, Create, OpenSeed,
            OpenUnseeded, Mark, Write, ReleaseEmpty, UploaderStep, Snapshot,
            Load, SendUpdate, SendCreate, SendFails, SendParentGone, Clear,
            Publish, Replace, Abandon, Forget, Fetch, List, StoreListed, CheckVictim

-----------------------------------------------------------------------------
(* What lies in a buffer or in the cache is what is expected.               *)

\* What open() finds under the key of a file that nobody else is at work on.
LEMMA ReadAccepted ==
  ASSUME KeepInv, NEW f \in KeptFiles, accepted[f] # {},
         NEW id \in Ids, id = idOf[f], ~Uploading(id)
  PROVE  /\ id \in DriveIds => content[CacheKey(id)] \in accepted[f] \cup {NoBytes}
         /\ (/\ id \in PendingIds
             /\ \A h \in Handles : handle[h].phase # "closed" => handle[h].file # f)
               => content[CacheKey(id)] \in accepted[f]
<1> USE DEF KeepInv
<1>1. f \in Files /\ Home(f) = id /\ id # NoId
  BY KeptFacts, HomeIs, Apartness
<1>2. /\ Durable(f) \in accepted[f]
      /\ id \in DriveIds /\ row[id] # "dirty" =>
            content[id] \in accepted[f] \cup {NoBytes}
      /\ (/\ id \in PendingIds
          /\ \A h \in Handles : handle[h].phase # "closed" => handle[h].file # f)
            => content[id] \in accepted[f]
  BY <1>1 DEF Caches, Cache
<1>3. id \in PendingIds => CacheKey(id) = id
  BY DEF CacheKey
<1>4. ASSUME id \in DriveIds
      PROVE  content[CacheKey(id)] \in accepted[f] \cup {NoBytes}
  <2>1. CASE row[id] = "dirty"
    <3>1. CacheKey(id) = id
      BY <2>1 DEF CacheKey
    <3>2. rowFile[id] = f
      BY <1>1, <2>1 DEF FileRows
    <3>3. Durable(f) = content[id]
      BY <1>1, <2>1, <3>2 DEF Durable
    <3> QED BY <1>2, <3>1, <3>3
  <2>2. CASE row[id] # "dirty" /\ CacheKey(id) = id
    BY <1>2, <1>4, <2>2
  <2>3. CASE row[id] # "dirty" /\ CacheKey(id) # id
    <3>1. CacheKey(id) = md5Of[id] /\ md5Of[id] # NoBytes
      BY <2>3 DEF CacheKey
    <3>2. md5Of[id] = drive[id] /\ md5Of[id] \in Bytes
      BY <1>4, <2>3, <3>1, KeepTypes DEF SumsInv, KnownSums
    <3>3. content[CacheKey(id)] \in {drive[id], NoBytes}
      BY <3>1, <3>2 DEF SumsInv, CasSound
    <3>4. Durable(f) = drive[id]
      BY <1>1, <1>4, <2>3 DEF Durable
    <3> QED BY <1>2, <3>3, <3>4
  <2> QED BY <2>1, <2>2, <2>3
<1> QED BY <1>2, <1>3, <1>4

\* What a buffer holds that was seeded or flushed.
LEMMA BufferExpected ==
  ASSUME NoOverlap, KeepInv, [Next]_vars, NEW h \in Handles,
         Seeded(h)', NEW f \in KeptFiles, f = handle'[h].file, accepted'[f] # {}
  PROVE  handle'[h].bytes \in accepted'[f]
<1> USE DEF KeepInv
<1>0. /\ f \in Files /\ handle'[h].phase \in {"open", "mark"}
      /\ handle'[h].wrote => handle'[h].flushed
      /\ accepted \in [Files -> SUBSET Bytes]
  BY KeptFacts, KeepTypes DEF Seeded
<1>1. CASE handle'[h] = handle[h]
  <2>1. /\ Seeded(h) /\ handle[h].file = f /\ handle[h].phase # "closed"
    BY <1>0, <1>1 DEF Seeded
  <2>2. accepted[f] # {} => handle[h].bytes \in accepted[f]
    BY <2>1 DEF Buffers, Buffer
  <2>3. ~\E g \in Handles, pid \in PendingIds : Create(g, f, pid)
    BY <2>1 DEF Create
  <2>4. ASSUME NEW g \in Handles, handle[g].file = f,
               Flush(g) \/ ReleaseEmpty(g) \/ Mark(g)
        PROVE  g = h
    <3>1. handle[g].phase # "closed"
      BY <2>4 DEF Flush, ReleaseEmpty, Mark
    <3> QED BY <2>1, <2>4, <3>1 DEF HandleIds
  <2> QED BY <1>0, <1>1, <2>2, <2>3, <2>4, AcceptedStep
<1>2. ASSUME NEW g \in Files, OpenHit(h, g), Openable(h, g), idOf[g] # NoId,
             \/ content[CacheKey(idOf[g])] # NoBytes
             \/ idOf[g] \in PendingIds,
             handle'[h] = Opened("open", g, idOf[g], FALSE,
                             IF content[CacheKey(idOf[g])] = NoBytes THEN Empty
                             ELSE content[CacheKey(idOf[g])])
      PROVE  handle'[h].bytes \in accepted'[f]
  <2>1. /\ g = f
        /\ handle'[h].bytes = IF content[CacheKey(idOf[g])] = NoBytes THEN Empty
                              ELSE content[CacheKey(idOf[g])]
    BY <1>2 DEF Opened
  <2>2. UNCHANGED accepted
    BY <1>2 DEF OpenHit
  <2>3. PICK id \in Ids : id = idOf[f]
    BY <1>0, <1>2, <2>1, KeepTypes
  <2>4. /\ ~Uploading(id)
        /\ \A a \in Handles : handle[a].file # f
    BY <1>2, <2>1, <2>3, Alone DEF Openable
  <2>5. /\ id \in DriveIds => content[CacheKey(id)] \in accepted[f] \cup {NoBytes}
        /\ id \in PendingIds => content[CacheKey(id)] \in accepted[f]
    BY <1>0, <2>2, <2>3, <2>4, ReadAccepted
  <2>6. content[CacheKey(id)] # NoBytes
    <3>1. NoBytes \notin accepted[f]
      BY <1>0, Apartness
    <3> QED BY <1>2, <2>1, <2>3, <2>5, <3>1
  <2> QED BY <2>1, <2>2, <2>3, <2>5, <2>6 DEF Ids
<1>3. ASSUME NEW g \in Files, NEW pid \in PendingIds, Create(h, g, pid),
             handle'[h] = Opened("open", g, pid, TRUE, Empty)
      PROVE  handle'[h].bytes \in accepted'[f]
  <2>1. g = f /\ handle'[h].bytes = Empty
    BY <1>3 DEF Opened
  <2>2. accepted'[f] = {Empty}
    BY <1>0, <1>3, <2>1 DEF Create
  <2> QED BY <2>1, <2>2
<1>4. ASSUME OpenSeed(h),
             handle'[h] = Filled(h, IF content[CacheKey(handle[h].id)] = NoBytes
                                    THEN Empty
                                    ELSE content[CacheKey(handle[h].id)], FALSE, FALSE)
      PROVE  handle'[h].bytes \in accepted'[f]
  <2>1. /\ handle[h].file = f
        /\ handle'[h].bytes = IF content[CacheKey(handle[h].id)] = NoBytes THEN Empty
                              ELSE content[CacheKey(handle[h].id)]
    BY <1>4 DEF Filled
  <2>2. UNCHANGED accepted /\ handle[h].phase = "seed"
    BY <1>4 DEF OpenSeed
  <2>3. HandleId(h) /\ handle[h].id \in Ids
    BY <2>1, <2>2, KeepTypes DEF HandleIds
  <2>4. PICK id \in Ids : id = handle[h].id /\ id = idOf[f]
    BY <2>1, <2>2, <2>3 DEF HandleId
  <2>5. ~Uploading(id) /\ id \in DriveIds /\ content[CacheKey(id)] # NoBytes
    BY <2>2, <2>4, CallbackApart DEF Started, Buffers, Buffer
  <2>6. content[CacheKey(id)] \in accepted[f]
    BY <1>0, <2>2, <2>4, <2>5, ReadAccepted
  <2> QED BY <2>1, <2>2, <2>4, <2>5, <2>6
<1>5. ASSUME NEW b \in Bytes, handle'[h] = Filled(h, b, TRUE, FALSE) PROVE FALSE
  BY <1>0, <1>5 DEF Filled
<1>6. ASSUME Flush(h), handle'[h] = Filled(h, handle[h].bytes, handle[h].wrote, TRUE)
      PROVE  handle'[h].bytes \in accepted'[f]
  <2>1. handle[h].file = f /\ handle'[h].bytes = handle[h].bytes
    BY <1>6 DEF Filled
  <2>2. CASE handle[h].wrote /\ idOf[f] # NoId
    <3>1. accepted' = [accepted EXCEPT ![f] = @ \cup {handle[h].bytes}]
      BY <1>6, <2>1, <2>2 DEF Flush
    <3> QED BY <1>0, <2>1, <3>1
  <2>3. CASE ~(handle[h].wrote /\ idOf[f] # NoId)
    <3>1. UNCHANGED accepted
      BY <1>6, <2>1, <2>3 DEF Flush
    <3>2. idOf[f] # NoId
      BY <1>0, <3>1, Expected
    <3>3. Seeded(h)
      BY <1>6, <2>3, <3>2 DEF Flush, Seeded
    <3> QED BY <1>0, <2>1, <3>1, <3>3 DEF Buffers, Buffer
  <2> QED BY <2>2, <2>3
<1>7. ASSUME Release(h), handle'[h].file = handle[h].file,
             handle'[h].bytes = handle[h].bytes
      PROVE  handle'[h].bytes \in accepted'[f]
  <2>1. Seeded(h) /\ UNCHANGED accepted
    BY <1>7 DEF Release, Seeded
  <2> QED BY <1>0, <1>7, <2>1 DEF Buffers, Buffer
<1>8. handle'[h] # Closed
  BY <1>0, HandleFields
<1>9. ASSUME NEW g, NEW id, NEW ph \in {"fetch", "seed"},
             handle'[h] = Opened(ph, g, id, FALSE, Empty)
      PROVE  FALSE
  BY <1>0, <1>9 DEF Opened
<1>10. CASE CallbackOn(h)
  <2>1. ASSUME NEW g \in Files, Openable(h, g), idOf[g] # NoId, OpenHit(h, g),
               LET cached == content[CacheKey(idOf[g])]
               IN  /\ cached # NoBytes \/ idOf[g] \in PendingIds
                   /\ handle'[h] = Opened("open", g, idOf[g], FALSE,
                          IF cached = NoBytes THEN Empty ELSE cached)
        PROVE  handle'[h].bytes \in accepted'[f]
    BY <1>2, <2>1
  <2>2. ASSUME LET cached == content[CacheKey(handle[h].id)]
               IN  handle'[h] = Filled(h, IF cached = NoBytes THEN Empty
                                          ELSE cached, FALSE, FALSE),
               OpenSeed(h)
        PROVE  handle'[h].bytes \in accepted'[f]
    BY <1>4, <2>2
  <2>3. ASSUME Release(h),
               handle'[h] = [phase |-> "mark", file |-> handle[h].file,
                             id |-> Target(h), created |-> handle[h].created,
                             bytes |-> handle[h].bytes, wrote |-> handle[h].wrote,
                             flushed |-> TRUE]
        PROVE  handle'[h].bytes \in accepted'[f]
    <3>1. /\ handle'[h].file = handle[h].file
          /\ handle'[h].bytes = handle[h].bytes
      BY <2>3
    <3> QED BY <1>7, <2>3, <3>1
  <2>4. ASSUME NEW g, NEW id, handle'[h] = Opened("fetch", g, id, FALSE, Empty)
        PROVE  FALSE
    BY <1>9, <2>4
  <2> QED BY <1>3, <1>5, <1>6, <1>8, <1>10, <2>1, <2>2, <2>3, <2>4, CallbackEffect
<1>11. ASSUME handle'[h] = Opened("seed", handle[h].file, handle[h].id, FALSE, Empty)
       PROVE  FALSE
  BY <1>9, <1>11
<1> QED BY <1>1, <1>8, <1>10, <1>11, HandleCases

\* What release() has stored stays until it marks the row.
LEMMA MarkedStored ==
  ASSUME NoOverlap, KeepInv, [Next]_vars, NEW h \in Handles,
         handle'[h].phase = "mark"
  PROVE  handle'[h].flushed /\ content'[handle'[h].id] = handle'[h].bytes
<1> USE DEF KeepInv
<1>1. ASSUME handle[h].phase = "mark", handle'[h] = handle[h]
      PROVE  handle'[h].flushed /\ content'[handle'[h].id] = handle'[h].bytes
  <2>1. PICK id \in Ids : id = handle[h].id
    BY <1>1, KeepTypes
  <2>2. handle[h].flushed /\ content[id] = handle[h].bytes
    BY <1>1, <2>1 DEF Buffers, Buffer
  <2>3. ~Uploading(id) /\ ~Crash
    BY <1>1, <2>1, CallbackApart, HandleChange DEF Started
  <2>4. ASSUME NEW g \in Handles, Flush(g) \/ Release(g) PROVE FALSE
    BY <1>1, <2>4 DEF Flush, Release, EventLoopFree
  <2>5. ASSUME StoreFetched, worker.id = id PROVE FALSE
    BY <1>1, <2>1, <2>5 DEF StoreFetched, DownloadClean
  <2>6. ASSUME Finalize \/ Migrate, id \in {uploader.id, uploader.newId} PROVE FALSE
    BY <2>3, <2>6 DEF Finalize, Migrate, Uploading
  <2>7. ASSUME Evict, cleaner = id PROVE FALSE
    BY <1>1, <2>1, <2>7 DEF Evict, CleanerApart, Started
  <2>8. content'[id] = content[id]
    BY <2>3, <2>4, <2>5, <2>6, <2>7, StoreStep
  <2> QED BY <1>1, <2>1, <2>2, <2>8
<1>2. ASSUME Release(h)
      PROVE  handle'[h].flushed /\ content'[handle'[h].id] = handle'[h].bytes
  <2>1. /\ handle \in [Handles -> HandleState] /\ content \in [Keys -> Bytes \cup {NoBytes}]
        /\ Target(h) \in Keys
    BY <1>2, KeepTypes, TargetIs, Apartness
  <2>2. /\ handle' = [handle EXCEPT ![h] =
              [phase |-> "mark", file |-> handle[h].file, id |-> Target(h),
               created |-> handle[h].created, bytes |-> handle[h].bytes,
               wrote |-> handle[h].wrote, flushed |-> TRUE]]
        /\ content' = [content EXCEPT ![Target(h)] = handle[h].bytes]
    BY <1>2 DEF Release
  <2>3. handle'[h] = [phase |-> "mark", file |-> handle[h].file, id |-> Target(h),
               created |-> handle[h].created, bytes |-> handle[h].bytes,
               wrote |-> handle[h].wrote, flushed |-> TRUE]
    BY <2>1, <2>2
  <2> QED BY <2>1, <2>2, <2>3
<1>3. CASE handle[h].phase = "mark"
  <2>1. ~Mark(h) /\ ~Crash
    BY HandleChange
  <2>2. ~CallbackOn(h)
    BY <1>3, <2>1
       DEF CallbackOn, OpenCall, Callback, OpenHit, OpenMiss, Openable, Create,
           OpenSeed, OpenUnseeded, Write, Flush, Release, ReleaseEmpty
  <2> QED BY <1>1, <1>3, <2>1, <2>2, HandleCases
<1>4. ASSUME NEW f, OpenHit(h, f) \/ OpenMiss(h, f) PROVE FALSE
  <2>1. handle \in [Handles -> HandleState]
    BY KeepTypes
  <2>2. \E ph \in {"open", "fetch"} : \E b :
           handle' = [handle EXCEPT ![h] = Opened(ph, f, idOf[f], FALSE, b)]
    BY <1>4 DEF OpenHit, OpenMiss
  <2> QED BY <2>1, <2>2 DEF Opened
<1> QED BY <1>2, <1>3, <1>4, HandleChange

\* The buffer of a file that has no other id yet is in the cache when flushed.
LEMMA FlushedStored ==
  ASSUME NoOverlap, KeepInv, [Next]_vars, NEW h \in Handles,
         handle'[h].phase = "open", handle'[h].flushed,
         NEW f \in KeptFiles, f = handle'[h].file,
         NEW id \in PendingIds, id = handle'[h].id, Home(f)' = id
  PROVE  content'[id] = handle'[h].bytes
<1> USE DEF KeepInv
<1>0. /\ f \in Files /\ id \in Ids /\ id \notin DriveIds /\ id # NoId
      /\ ~Crash
  BY KeptFacts, Apartness, HandleChange
<1>1. CASE handle'[h] = handle[h]
  <2>1. /\ handle[h].phase = "open" /\ handle[h].flushed
        /\ handle[h].file = f /\ handle[h].id = id
    BY <1>1
  <2>2. ~\E g \in Handles, pid \in PendingIds : Create(g, f, pid)
    BY <2>1 DEF Create
  <2>3. ASSUME Finalize PROVE uploader.newId \in DriveIds
    BY <2>3, UploaderRecord DEF Finalize, SumsInv, Sent
  <2>4. Home(f) = id /\ (Finalize => id # uploader.id)
    BY <1>0, <2>2, <2>3, HomeStep
  <2>5. idOf[f] = id /\ content[id] = handle[h].bytes
    BY <1>0, <2>1, <2>4, HomeIs DEF Buffers, Buffer
  <2>6. ASSUME NEW g \in Handles, Flush(g) \/ Release(g), handle[g].id = id
        PROVE  g = h
    <3>1. handle[g].phase = "open"
      BY <2>6 DEF Flush, Release
    <3>2. handle[g].file = f
      BY <2>5, <2>6, <3>1 DEF HandleIds
    <3> QED BY <2>1, <3>1, <3>2 DEF HandleIds
  <2>7. ASSUME NEW g \in Handles, Release(g), Target(g) = id PROVE handle[g].id = id
    BY <2>7, TargetIs
  <2>8. ASSUME StoreFetched PROVE worker.id # id
    BY <1>0, <2>8 DEF StoreFetched, SumsInv, DownloadFresh
  <2>9. ASSUME Migrate PROVE uploader.id # id
    <3>1. uploader.phase = "migrate" /\ uploader.id = id => uploader.newId # NoId
      BY <1>0 DEF SumsInv, Sent
    <3> QED BY <1>0, <2>4, <2>9, <3>1, HomeIs DEF Migrate
  <2>10. ASSUME Evict PROVE cleaner # id
    BY <2>10 DEF Evict, CleanerApart
  <2>11. ASSUME Finalize PROVE id # uploader.newId
    BY <1>0, <2>3, <2>11
  <2> QED BY <1>0, <1>1, <2>4, <2>5, <2>6, <2>7, <2>8, <2>9, <2>10, <2>11, StoreStep
<1>2. ASSUME Flush(h), handle'[h] = Filled(h, handle[h].bytes, handle[h].wrote, TRUE)
      PROVE  content'[id] = handle'[h].bytes
  <2>1. handle[h].id = id /\ handle'[h].bytes = handle[h].bytes
    BY <1>2 DEF Filled
  <2>2. content' = [content EXCEPT ![id] = handle[h].bytes]
    BY <1>2, <2>1 DEF Flush
  <2> QED BY <1>0, <2>1, <2>2, KeepTypes, Apartness
<1>3. ASSUME NEW g, NEW i, NEW ph, NEW c, NEW b,
             handle'[h] = Opened(ph, g, i, c, b)
      PROVE  FALSE
  BY <1>3 DEF Opened
<1>4. ASSUME NEW b, NEW w, handle'[h] = Filled(h, b, w, FALSE) PROVE FALSE
  BY <1>4 DEF Filled
<1>5. handle'[h] # Closed
  BY HandleFields
<1>6. CASE CallbackOn(h)
  <2>1. ASSUME NEW g \in Files,
               LET cached == content[CacheKey(idOf[g])]
               IN  /\ cached # NoBytes \/ idOf[g] \in PendingIds
                   /\ handle'[h] = Opened("open", g, idOf[g], FALSE,
                          IF cached = NoBytes THEN Empty ELSE cached)
        PROVE  FALSE
    BY <1>3, <2>1
  <2>2. ASSUME LET cached == content[CacheKey(handle[h].id)]
               IN  handle'[h] = Filled(h, IF cached = NoBytes THEN Empty
                                          ELSE cached, FALSE, FALSE)
        PROVE  FALSE
    BY <1>4, <2>2
  <2>3. ASSUME handle'[h] = [phase |-> "mark", file |-> handle[h].file,
                             id |-> Target(h), created |-> handle[h].created,
                             bytes |-> handle[h].bytes, wrote |-> handle[h].wrote,
                             flushed |-> TRUE]
        PROVE  FALSE
    BY <2>3
  <2>4. ASSUME NEW g \in Files, handle'[h] = Opened("fetch", g, idOf[g], FALSE, Empty)
        PROVE  FALSE
    BY <1>3, <2>4
  <2>5. ASSUME NEW g \in Files, NEW pid \in PendingIds,
               handle'[h] = Opened("open", g, pid, TRUE, Empty)
        PROVE  FALSE
    BY <1>3, <2>5
  <2>6. ASSUME NEW b \in Bytes, handle'[h] = Filled(h, b, TRUE, FALSE) PROVE FALSE
    BY <1>4, <2>6
  <2> QED BY <1>2, <1>5, <1>6, <2>1, <2>2, <2>3, <2>4, <2>5, <2>6, CallbackEffect
<1> QED BY <1>1, <1>3, <1>5, <1>6, HandleCases

\* open() waits for a file of Drive's whose row is not dirty.
LEMMA WaitsForDrive ==
  ASSUME NoOverlap, KeepInv, [Next]_vars, NEW h \in Handles,
         handle'[h].phase \in {"fetch", "seed"}
  PROVE  handle'[h].id \in DriveIds /\ row'[handle'[h].id] # "dirty"
<1> USE DEF KeepInv
<1>1. ASSUME handle[h].phase \in Started, handle[h].phase \notin {"open", "mark"},
             handle'[h].id = handle[h].id
      PROVE  handle'[h].id \in DriveIds /\ row'[handle'[h].id] # "dirty"
  <2>1. PICK id \in Ids : id = handle[h].id
    BY <1>1, KeepTypes DEF Started
  <2>2. id \in DriveIds /\ row[id] # "dirty"
    BY <1>1, <2>1 DEF Started, Buffers, Buffer
  <2>3. ASSUME NEW g \in Handles, Mark(g) PROVE FALSE
    <3>1. g # h /\ handle[g].phase = "mark"
      BY <2>3, HandleChange DEF Mark
    <3> QED BY <1>1, <3>1 DEF HandleIds, Started
  <2>4. row'[id] # "dirty"
    BY <2>2, <2>3, RowStep
  <2> QED BY <1>1, <2>1, <2>2, <2>4
<1>2. ASSUME NEW f \in Files, OpenMiss(h, f), handle'[h].id = idOf[f]
      PROVE  handle'[h].id \in DriveIds /\ row'[handle'[h].id] # "dirty"
  <2>1. PICK id \in Ids : id = idOf[f]
    BY <1>2, Apartness DEF OpenMiss
  <2>2. id \in DriveIds /\ content[CacheKey(id)] = NoBytes /\ UNCHANGED row
    BY <1>2, <2>1 DEF OpenMiss
  <2>3. row[id] # "dirty"
    BY <2>2 DEF DirtyCached, CacheKey
  <2> QED BY <1>2, <2>1, <2>2, <2>3
<1>3. ASSUME NEW f, OpenHit(h, f) PROVE FALSE
  <2>1. handle \in [Handles -> HandleState]
    BY KeepTypes
  <2>2. \E b : handle' = [handle EXCEPT ![h] = Opened("open", f, idOf[f], FALSE, b)]
    BY <1>3 DEF OpenHit
  <2> QED BY <2>1, <2>2 DEF Opened
<1> QED BY <1>1, <1>2, <1>3, HandleChange DEF Started

\* What the worker has stored for open() stays until open() reads it.
LEMMA SeedStored ==
  ASSUME NoOverlap, KeepInv, [Next]_vars, NEW h \in Handles,
         handle'[h].phase = "seed", NEW id \in Ids, id = handle'[h].id
  PROVE  content'[CacheKey(id)'] # NoBytes
<1> USE DEF KeepInv
<1>0. content \in [Keys -> Bytes \cup {NoBytes}] /\ CacheKey(id) \in {id} \cup Bytes
  BY KeepTypes DEF CacheKey
<1>1. CASE handle'[h] = handle[h]
  <2>1. /\ handle[h].phase = "seed" /\ handle[h].id = id
        /\ handle[h].phase \in Started
    BY <1>1 DEF Started
  <2>2. PICK k \in Keys : k = CacheKey(id)
    BY <1>0, Apartness
  <2>3. CacheKey(id)' = k
    BY <2>1, <2>2, KeyOfCallback
  <2>4. content[k] # NoBytes /\ ~Uploading(id) /\ ~Crash
    BY <2>1, <2>2, CallbackApart, HandleChange DEF Buffers, Buffer
  <2>5. ASSUME Evict, cleaner = k PROVE FALSE
    BY <2>1, <2>2, <2>5, Apartness DEF Evict, CleanerApart
  <2>6. ASSUME Migrate \/ Finalize, uploader.id = k PROVE FALSE
    <3>1. uploader.phase \in {"migrate", "finalize"} /\ k \in Ids
      BY <2>6, UploaderRecord, Apartness, KeepTypes DEF Migrate, Finalize
    <3>2. k = id
      BY <1>0, <2>2, <3>1, Apartness
    <3> QED BY <2>4, <2>6, <3>1, <3>2 DEF Uploading
  <2>7. content'[k] # NoBytes
    BY <2>4, <2>5, <2>6, Removed
  <2> QED BY <2>3, <2>7
<1>2. ASSUME StoreFetched, handle[h].id = worker.id,
             handle'[h] = Opened("seed", handle[h].file, handle[h].id, FALSE, Empty)
      PROVE  content'[CacheKey(id)'] # NoBytes
  <2>1. worker.id = id
    BY <1>2 DEF Opened
  <2>2. /\ content' = [content EXCEPT ![CacheKey(id)] = worker.bytes]
        /\ UNCHANGED <<md5Of, row>>
    BY <1>2, <2>1 DEF StoreFetched
  <2>3. CacheKey(id)' = CacheKey(id)
    BY <2>2 DEF CacheKey
  <2>4. worker.bytes # NoBytes
    BY Apartness DEF SumsInv, IndInv, TypeOK
  <2> QED BY <1>0, <2>2, <2>3, <2>4, Apartness
<1>3. CASE CallbackOn(h)
  <2>1. ASSUME NEW g, NEW i, NEW ph \in {"open", "fetch"}, NEW c, NEW b,
               handle'[h] = Opened(ph, g, i, c, b)
        PROVE  FALSE
    BY <2>1 DEF Opened
  <2>2. ASSUME NEW b, NEW w, NEW d, handle'[h] = Filled(h, b, w, d) PROVE FALSE
    BY <2>2 DEF Filled
  <2>3. ASSUME NEW g \in Files,
               LET cached == content[CacheKey(idOf[g])]
               IN  /\ cached # NoBytes \/ idOf[g] \in PendingIds
                   /\ handle'[h] = Opened("open", g, idOf[g], FALSE,
                          IF cached = NoBytes THEN Empty ELSE cached)
        PROVE  FALSE
    BY <2>1, <2>3
  <2>4. ASSUME LET cached == content[CacheKey(handle[h].id)]
               IN  handle'[h] = Filled(h, IF cached = NoBytes THEN Empty
                                          ELSE cached, FALSE, FALSE)
        PROVE  FALSE
    BY <2>2, <2>4
  <2>5. ASSUME handle'[h] = [phase |-> "mark", file |-> handle[h].file,
                             id |-> Target(h), created |-> handle[h].created,
                             bytes |-> handle[h].bytes, wrote |-> handle[h].wrote,
                             flushed |-> TRUE]
        PROVE  FALSE
    BY <2>5
  <2>6. handle'[h] # Closed
    BY HandleFields
  <2>7. ASSUME NEW g \in Files, handle'[h] = Opened("fetch", g, idOf[g], FALSE, Empty)
        PROVE  FALSE
    BY <2>1, <2>7
  <2>8. ASSUME NEW g \in Files, NEW pid \in PendingIds,
               handle'[h] = Opened("open", g, pid, TRUE, Empty)
        PROVE  FALSE
    BY <2>1, <2>8
  <2>9. ASSUME NEW b \in Bytes, handle'[h] = Filled(h, b, TRUE, FALSE) PROVE FALSE
    BY <2>2, <2>9
  <2>10. ASSUME handle'[h] = Filled(h, handle[h].bytes, handle[h].wrote, TRUE)
         PROVE  FALSE
    BY <2>2, <2>10
  <2> QED BY <1>3, <2>3, <2>4, <2>5, <2>6, <2>7, <2>8, <2>9, <2>10, CallbackEffect
<1>4. ~Crash
  BY HandleChange
<1> QED BY <1>1, <1>2, <1>3, <1>4, HandleCases

LEMMA BuffersStep == NoOverlap /\ KeepInv /\ [Next]_vars => Buffers'
<1> SUFFICES ASSUME NoOverlap, KeepInv, [Next]_vars, NEW h \in Handles
             PROVE  Buffer(h)'
  BY DEF Buffers
<1>1. ASSUME Seeded(h)', handle'[h].file \in KeptFiles,
             accepted'[handle'[h].file] # {}
      PROVE  handle'[h].bytes \in accepted'[handle'[h].file]
  BY <1>1, BufferExpected
<1>2. ASSUME handle'[h].phase = "open", handle'[h].flushed,
             handle'[h].file \in KeptFiles, Home(handle[h].file)' = handle'[h].id,
             handle'[h].id \in PendingIds
      PROVE  content'[handle'[h].id] = handle'[h].bytes
  <2>1. PICK f \in KeptFiles, id \in PendingIds : f = handle'[h].file /\ id = handle'[h].id
    BY <1>2
  <2>2. Home(f)' = id
    BY <1>2, <2>1 DEF Home
  <2> QED BY <1>2, <2>1, <2>2, FlushedStored
<1>3. ASSUME handle'[h].phase = "seed"
      PROVE  content'[CacheKey(handle[h].id)'] # NoBytes
  <2>1. PICK id \in Ids : id = handle'[h].id
    BY <1>3, WaitsForDrive, Apartness
  <2>2. content'[CacheKey(id)'] # NoBytes
    BY <1>3, <2>1, SeedStored
  <2> QED BY <2>1, <2>2 DEF CacheKey
<1>4. handle'[h].phase = "mark" =>
         handle'[h].flushed /\ content'[handle'[h].id] = handle'[h].bytes
  BY MarkedStored
<1>5. handle'[h].phase \in {"fetch", "seed"} =>
         handle'[h].id \in DriveIds /\ row'[handle'[h].id] # "dirty"
  BY WaitsForDrive
<1> QED BY <1>1, <1>2, <1>3, <1>4, <1>5 DEF Buffer

\* What Drive holds of a file changes by uploads of it only.
LEMMA DriveChange ==
  ASSUME SumsInv, [Next]_vars, NEW id \in DriveIds
  PROVE  \/ drive'[id] = drive[id]
         \/ drive[id] = NoBytes /\ drive'[id] = uploader.bytes
         \/ /\ uploader.phase = "send" /\ uploader.id = id /\ UNCHANGED row
            /\ drive'[id] = uploader.bytes
<1>0. drive \in [DriveIds -> Bytes \cup {NoBytes}] /\ OldFiles \subseteq DriveIds
      /\ SpareIds \subseteq DriveIds
  BY KeepTypes, Apartness
<1>1. CASE SendUpdate \/ SendCreate
  BY <1>0, <1>1 DEF SendUpdate, SendCreate
<1>2. CASE SendFails
  BY <1>0, <1>2 DEF SendFails
<1>3. CASE ~(SendUpdate \/ SendCreate \/ SendFails)
  <2>1. UNCHANGED drive
    BY <1>3 DEF Next, vars, OpenCall, Callback, OpenHit, OpenMiss, Create,
         OpenSeed, OpenUnseeded, Mark, Write, Flush, Release, ReleaseEmpty,
         UploaderStep, Snapshot, Load, SendParentGone, Clear, Finalize, Migrate,
         Publish, Replace, Abandon, Forget, Fetch, List, StoreFetched, StoreListed,
         CheckVictim, Evict, Crash
  <2> QED BY <2>1
<1> QED BY <1>1, <1>2, <1>3

\* The handle that stores or marks what is under the id of a file is the file's.
LEMMA Owner ==
  ASSUME NoOverlap, KeepInv, NEW f \in KeptFiles, NEW id \in Ids, id = Home(f),
         NEW h \in Handles,
         \/ Flush(h) /\ handle[h].id = id
         \/ Release(h) /\ Target(h) = id
         \/ Mark(h) /\ handle[h].id = id
  PROVE  handle[h].file = f /\ ~Uploading(id) /\ idOf[f] = id
<1> USE DEF KeepInv
<1>1. f \in Files /\ id # NoId /\ handle[h].phase # "closed"
  BY KeptFacts, Apartness DEF Flush, Release, Mark
<1>2. ~Uploading(id)
  <2>1. CASE Mark(h) /\ handle[h].id = id
    BY <2>1, CallbackApart DEF Mark, Started
  <2> QED BY <2>1, Alone DEF Flush, Release
<1>3. idOf[f] = id
  BY <1>1, <1>2, HomeIs
<1>4. CASE handle[h].id = id
  BY <1>1, <1>2, <1>3, <1>4 DEF HandleIds
<1>5. CASE Release(h) /\ handle[h].id # id
  <2>1. idOf[handle[h].file] = id /\ handle[h].file \in Files
    BY <1>5, TargetIs
  <2> QED BY <1>1, <1>2, <1>3, <2>1 DEF FileIds
<1> QED BY <1>2, <1>3, <1>4, <1>5

\* What a handle stores or marks is what is expected of its file then.
LEMMA BytesKept ==
  ASSUME NoOverlap, KeepInv, NEW f \in KeptFiles, accepted'[f] # {},
         idOf[f] # NoId, NEW h \in Handles, handle[h].file = f,
         Flush(h) \/ Release(h) \/ ReleaseEmpty(h) \/ Mark(h)
  PROVE  handle[h].bytes \in accepted'[f]
<1> USE DEF KeepInv
<1>0. /\ f \in Files /\ accepted \in [Files -> SUBSET Bytes]
      /\ handle[h].phase \in {"open", "mark"}
      /\ ~Flush(h) => handle[h].flushed
  <2>1. Mark(h) => handle[h].flushed
    BY DEF Mark, Buffers, Buffer
  <2> QED BY <2>1, KeptFacts, KeepTypes
          DEF Flush, Release, ReleaseEmpty, Mark
<1>1. ASSUME UNCHANGED accepted, Seeded(h)
      PROVE  handle[h].bytes \in accepted'[f]
  BY <1>1 DEF Buffers, Buffer
<1>2. CASE Flush(h)
  <2>1. CASE handle[h].wrote
    <3>1. accepted' = [accepted EXCEPT ![f] = @ \cup {handle[h].bytes}]
      BY <1>2, <2>1 DEF Flush
    <3> QED BY <1>0, <3>1
  <2>2. CASE ~handle[h].wrote
    BY <1>0, <1>1, <1>2, <2>2 DEF Flush, Seeded
  <2> QED BY <2>1, <2>2
<1>3. CASE Release(h)
  BY <1>0, <1>1, <1>3 DEF Release, Seeded
<1>4. CASE ReleaseEmpty(h) \/ Mark(h)
  <2>0. accepted' = Saved(h) /\ handle[h].flushed
    <3>1. Mark(h) => ~Flush(h)
      BY DEF Mark, Flush
    <3> QED BY <1>0, <1>4, <3>1 DEF ReleaseEmpty, Mark
  <2>1. CASE handle[h].wrote
    <3>1. accepted' = [accepted EXCEPT ![f] = {handle[h].bytes}]
      BY <2>0, <2>1 DEF Saved
    <3> QED BY <1>0, <3>1
  <2>2. CASE ~handle[h].wrote
    BY <1>0, <1>1, <2>0, <2>2 DEF Saved, Seeded
  <2> QED BY <2>1, <2>2
<1> QED BY <1>2, <1>3, <1>4

\* The row that a handle marks is that of its file.
LEMMA MarkedRow ==
  ASSUME NoOverlap, KeepInv, [Next]_vars, NEW f \in KeptFiles, idOf[f] # NoId,
         NEW h \in Handles, handle[h].file = f, Mark(h)
  PROVE  /\ handle[h].id = Home(f) /\ content[Home(f)] = handle[h].bytes
         /\ row'[Home(f)] = "dirty" /\ content' = content
<1> USE DEF KeepInv
<1>1. handle[h].phase = "mark" /\ handle[h].phase \in Started /\ f \in Files
  BY KeptFacts DEF Mark, Started
<1>2. HandleId(h)
  BY <1>1 DEF HandleIds
<1>3. idOf[f] = handle[h].id /\ ~Uploading(idOf[f])
  BY <1>1, <1>2, CallbackApart DEF HandleId
<1>4. Home(f) = handle[h].id
  BY <1>1, <1>3, HomeIs
<1>5. content[handle[h].id] = handle[h].bytes
  BY <1>1 DEF Buffers, Buffer
<1>6. row' = [row EXCEPT ![handle[h].id] = "dirty"] /\ content' = content
  BY DEF Mark
<1> QED BY <1>1, <1>4, <1>5, <1>6, KeepTypes

\* An empty file that release() does not upload is a placeholder in the cache.
LEMMA ReleasedEmpty ==
  ASSUME NoOverlap, KeepInv, NEW f \in KeptFiles, idOf[f] # NoId,
         NEW h \in Handles, handle[h].file = f, ReleaseEmpty(h)
  PROVE  /\ Home(f) \in PendingIds /\ content[Home(f)] = handle[h].bytes
         /\ handle[h].bytes = Empty /\ content' = content
<1> USE DEF KeepInv
<1>1. /\ handle[h].phase = "open" /\ handle[h].flushed /\ f \in Files
      /\ Target(h) \in PendingIds /\ handle[h].bytes = Empty /\ content' = content
      /\ ~Uploading(Target(h))
  BY KeptFacts, Alone DEF ReleaseEmpty
<1>2. HandleId(h) /\ Target(h) = handle[h].id
  BY <1>1, TargetIs DEF HandleIds
<1>3. idOf[f] = handle[h].id
  <2>1. ASSUME idOf[f] \in SpareIds, handle[h].id \in PendingIds, ~handle[h].created
        PROVE  FALSE
    <3>1. Target(h) = idOf[f] /\ idOf[f] \in DriveIds
      BY <2>1, Apartness DEF Target
    <3> QED BY <1>1, <3>1, Apartness
  <2> QED BY <1>1, <1>2, <2>1 DEF HandleId
<1>4. Home(f) = handle[h].id
  BY <1>1, <1>2, <1>3, HomeIs
<1> QED BY <1>1, <1>2, <1>4 DEF Buffers, Buffer

\* What is expected before a step that leaves a file where it is.
LEMMA ExpectedBefore ==
  ASSUME NoOverlap, KeepInv, [Next]_vars, NEW f \in KeptFiles, accepted'[f] # {},
         NEW id \in Ids, id = Home(f), Home(f)' = id, ~Crash
  PROVE  /\ accepted[f] # {} /\ idOf[f] # NoId
         /\ \/ accepted[f] \subseteq accepted'[f]
            \/ \E h \in Handles :
                  /\ handle[h].file = f /\ accepted'[f] = {handle[h].bytes}
                  /\ ReleaseEmpty(h) \/ Mark(h)
<1> USE DEF KeepInv
<1>1. f \in Files /\ idOf[f] # NoId
  BY KeptFacts, HomeIs, Apartness
<1>2. ~\E h \in Handles, pid \in PendingIds : Create(h, f, pid)
  BY <1>1 DEF Create
<1>3. \/ accepted'[f] = accepted[f]
      \/ \E h \in Handles :
            /\ handle[h].file = f
            /\ \/ Flush(h) /\ accepted'[f] = accepted[f] \cup {handle[h].bytes}
               \/ (ReleaseEmpty(h) \/ Mark(h)) /\ accepted'[f] = {handle[h].bytes}
  BY <1>1, <1>2, AcceptedStep
<1>4. ASSUME accepted[f] = {} PROVE FALSE
  <2>1. PICK h \in Handles : Flush(h) \/ ReleaseEmpty(h) \/ Mark(h)
    BY <1>3, <1>4
  <2>2. UNCHANGED <<uploader, idOf>>
    BY <2>1 DEF Flush, ReleaseEmpty, Mark
  <2>3. uploader.phase = "forget" /\ uploader.id = idOf[f]
    BY <1>1, <1>4 DEF FileIds
  <2> QED BY <2>2, <2>3, FileIdsExpected
<1> QED BY <1>1, <1>3, <1>4

\* A dirty copy is what is expected.
LEMMA DirtyKept ==
  ASSUME NoOverlap, KeepInv, [Next]_vars, NEW f \in KeptFiles, accepted'[f] # {},
         NEW id \in Ids, id = Home(f), Home(f)' = id, ~Crash,
         row'[id] = "dirty"
  PROVE  content'[id] \in accepted'[f]
<1> USE DEF KeepInv
<1>1. /\ accepted[f] # {} /\ idOf[f] # NoId /\ f \in Files
      /\ \/ accepted[f] \subseteq accepted'[f]
         \/ \E h \in Handles :
               /\ handle[h].file = f /\ accepted'[f] = {handle[h].bytes}
               /\ ReleaseEmpty(h) \/ Mark(h)
  BY ExpectedBefore, KeptFacts
<1>2. ASSUME NEW h \in Handles, Mark(h), handle[h].id = id
      PROVE  content'[id] \in accepted'[f]
  <2>1. handle[h].file = f
    BY <1>2, Owner
  <2> QED BY <1>1, <1>2, <2>1, BytesKept, MarkedRow
<1>3. CASE row[id] = "dirty"
  <2>1. content[id] \in accepted[f]
    <3>1. rowFile[id] = f
      BY <1>1, <1>3 DEF FileRows
    <3>2. Durable(f) = content[id]
      BY <1>3, <3>1 DEF Durable
    <3> QED BY <1>1, <3>2 DEF Caches, Cache
  <2>2. CASE content'[id] = content[id]
    <3>1. ASSUME NEW h \in Handles, handle[h].file = f, ReleaseEmpty(h) \/ Mark(h)
          PROVE  content[id] = handle[h].bytes
      BY <1>1, <3>1, MarkedRow, ReleasedEmpty
    <3> QED BY <1>1, <2>1, <2>2, <3>1
  <2>3. ASSUME NEW h \in Handles, content'[id] = handle[h].bytes,
               \/ Flush(h) /\ handle[h].id = id
               \/ Release(h) /\ Target(h) = id
        PROVE  content'[id] \in accepted'[f]
    <3>1. handle[h].file = f
      BY <2>3, Owner
    <3> QED BY <1>1, <2>3, <3>1, BytesKept
  <2>4. ASSUME StoreFetched, worker.id = id PROVE FALSE
    BY <1>3, <2>4 DEF StoreFetched, DownloadClean
  <2>5. ASSUME Finalize, id = uploader.newId PROVE FALSE
    BY <2>5, UploaderRowsAt
  <2>6. content'[id] # NoBytes
    BY DirtyCachedStep DEF DirtyCached
  <2> QED BY <2>2, <2>3, <2>4, <2>5, <2>6, StoreStep
<1> QED BY <1>2, <1>3, RowStep

\* What lies under the key of a clean file, and on Drive, is what is expected.
LEMMA DriveKept ==
  ASSUME NoOverlap, KeepInv, [Next]_vars, NEW f \in KeptFiles, accepted'[f] # {},
         NEW id \in DriveIds, id = Home(f), Home(f)' = id, ~Crash,
         row'[id] # "dirty"
  PROVE  /\ drive'[id] \in accepted'[f]
         /\ content'[id] \in accepted'[f] \cup {NoBytes}
<1> USE DEF KeepInv
<1>0. /\ f \in Files /\ id \in Ids /\ id \notin PendingIds /\ id # NoId
      /\ accepted[f] # {} /\ idOf[f] # NoId
      /\ accepted \in [Files -> SUBSET Bytes] /\ NoBytes \notin Bytes
  BY ExpectedBefore, KeptFacts, KeepTypes, Apartness
<1>1. accepted[f] \subseteq accepted'[f]
  <2>1. ASSUME NEW h \in Handles, handle[h].file = f, ReleaseEmpty(h) \/ Mark(h)
        PROVE  FALSE
    BY <1>0, <2>1, MarkedRow, ReleasedEmpty
  <2> QED BY <1>0, <2>1, ExpectedBefore
<1>2. Durable(f) \in accepted[f]
  BY <1>0 DEF Caches, Cache
<1>3. ASSUME Finalize PROVE id # uploader.newId /\ id # uploader.id
  <2>1. uploader.phase = "finalize" /\ uploader.newId # NoId
        /\ uploader.id \in PendingIds
    BY <1>3 DEF Finalize, SumsInv, Sent
  <2>2. Home(f) = idOf[f]
    BY <1>0, <2>1, HomeIs
  <2> QED BY <1>0, <2>1, <2>2 DEF UploadRows
<1>4. ASSUME row[id] = "dirty", Clear, id = uploader.id
      PROVE  /\ drive'[id] \in accepted'[f]
             /\ content'[id] \in accepted'[f] \cup {NoBytes}
  <2>1. rowFile[id] = f
    BY <1>0, <1>4 DEF FileRows
  <2>2. content[id] \in accepted[f] /\ content[id] # NoBytes
    BY <1>0, <1>2, <1>4, <2>1 DEF Durable, DirtyCached
  <2>3. /\ content[id] = uploader.bytes /\ drive[id] = uploader.bytes
        /\ UNCHANGED <<content, drive>>
    BY <1>4, <2>2 DEF Clear, SumsInv, LocalCopy, Sent
  <2> QED BY <1>1, <2>2, <2>3
<1>5. ASSUME row[id] # "dirty"
      PROVE  /\ drive'[id] \in accepted'[f]
             /\ content'[id] \in accepted'[f] \cup {NoBytes}
  <2>1. /\ drive[id] \in accepted[f] /\ drive[id] # NoBytes
        /\ content[id] \in accepted[f] \cup {NoBytes}
    BY <1>0, <1>2, <1>5 DEF Durable, Caches, Cache
  <2>2. drive'[id] = drive[id]
    <3>1. uploader.phase = "send" => row[uploader.id] = "dirty"
      BY KeepTypes
    <3> QED BY <1>5, <2>1, <3>1, DriveChange
  <2>3. ASSUME NEW h \in Handles, content'[id] = handle[h].bytes,
               \/ Flush(h) /\ handle[h].id = id
               \/ Release(h) /\ Target(h) = id
        PROVE  content'[id] \in accepted'[f]
    <3>1. handle[h].file = f
      BY <1>0, <2>3, Owner
    <3> QED BY <1>0, <2>3, <3>1, BytesKept
  <2>4. ASSUME StoreFetched, worker.id = id PROVE worker.bytes = drive[id]
    BY <2>4 DEF StoreFetched, SumsInv, DownloadFresh
  <2> QED BY <1>0, <1>1, <1>3, <2>1, <2>2, <2>3, <2>4, StoreStep
<1>6. ASSUME row[id] = "dirty" PROVE Clear /\ id = uploader.id
  <2>1. ASSUME Abandon PROVE id # uploader.id
    BY <1>0, <2>1 DEF Abandon, SumsInv, Sent
  <2> QED BY <1>0, <1>3, <1>6, <2>1, RowStep
<1> QED BY <1>4, <1>5, <1>6

\* A placeholder is empty, or its row is dirty; what it holds is in the cache.
LEMMA PendingKept ==
  ASSUME NoOverlap, KeepInv, [Next]_vars, NEW f \in KeptFiles, accepted'[f] # {},
         NEW id \in PendingIds, id = Home(f), Home(f)' = id, ~Crash,
         Finalize => id # uploader.id
  PROVE  /\ row'[id] # "dirty" => Empty \in accepted'[f]
         /\ (\A h \in Handles : handle'[h].phase # "closed" => handle'[h].file # f)
               => content'[id] \in accepted'[f]
<1> USE DEF KeepInv
<1>0. /\ f \in Files /\ id \in Ids /\ id \notin DriveIds /\ id # NoId
      /\ accepted[f] # {} /\ idOf[f] # NoId
      /\ idOf[f] = id
      /\ \/ accepted[f] \subseteq accepted'[f]
         \/ \E h \in Handles :
               /\ handle[h].file = f /\ accepted'[f] = {handle[h].bytes}
               /\ ReleaseEmpty(h) \/ Mark(h)
  BY ExpectedBefore, KeptFacts, HomeIs, Apartness
<1>1. ASSUME Finalize PROVE id # uploader.newId
  BY <1>0, <1>1, Apartness DEF Finalize, UploadRows, SumsInv, Sent
<1>2. ASSUME row'[id] # "dirty" PROVE Empty \in accepted'[f]
  <2>1. ASSUME Clear PROVE id # uploader.id
    BY <1>0, <2>1 DEF Clear, SumsInv, Sent
  <2>2. ASSUME Abandon, id = uploader.id PROVE FALSE
    BY <1>0, <2>2 DEF Abandon
  <2>3. row[id] # "dirty"
    BY <1>0, <1>1, <1>2, <2>1, <2>2, RowStep
  <2>4. Durable(f) = Empty
    BY <1>0, <2>3 DEF Durable
  <2>5. Empty \in accepted[f]
    BY <1>0, <2>4 DEF Caches, Cache
  <2>6. ASSUME NEW h \in Handles, handle[h].file = f, ReleaseEmpty(h) \/ Mark(h)
        PROVE  handle[h].bytes = Empty
    BY <1>0, <1>2, <2>6, MarkedRow, ReleasedEmpty
  <2> QED BY <1>0, <2>5, <2>6
<1>3. ASSUME \A h \in Handles : handle'[h].phase # "closed" => handle'[h].file # f,
             NEW h \in Handles, handle[h].phase # "closed", handle[h].file = f
      PROVE  content'[id] \in accepted'[f]
  <2>1. ReleaseEmpty(h) \/ Mark(h)
    <3>1. handle'[h].phase = "closed" \/ handle'[h].file # f
      BY <1>3
    <3>2. handle'[h].phase = "closed" /\ handle'[h] # handle[h]
      BY <1>3, <3>1, HandleChange DEF OpenHit, OpenMiss, Openable, Create
    <3>3. CallbackOn(h)
      <4>1. handle'[h] # Opened("seed", handle[h].file, handle[h].id, FALSE, Empty)
        BY <3>2 DEF Opened
      <4> QED BY <3>2, <4>1, HandleCases
    <3>5. ASSUME NEW b, NEW w, NEW d, handle'[h] = Filled(h, b, w, d) PROVE FALSE
      BY <3>2, <3>5 DEF Filled
    <3>6. handle[h].phase # "closed" => ~\E g \in Files : Openable(h, g)
      BY DEF Openable
    <3>7. handle[h].phase # "closed" => ~\E g \in Files, pid \in PendingIds : Create(h, g, pid)
      BY DEF Create
    <3>8. ASSUME LET cached == content[CacheKey(handle[h].id)]
                 IN  handle'[h] = Filled(h, IF cached = NoBytes THEN Empty
                                            ELSE cached, FALSE, FALSE)
          PROVE  FALSE
      BY <3>5, <3>8
    <3>9. ASSUME NEW b \in Bytes, handle'[h] = Filled(h, b, TRUE, FALSE) PROVE FALSE
      BY <3>5, <3>9
    <3>10. ASSUME handle'[h] = Filled(h, handle[h].bytes, handle[h].wrote, TRUE)
           PROVE  FALSE
      BY <3>5, <3>10
    <3>11. ASSUME handle'[h] = [phase |-> "mark", file |-> handle[h].file,
                             id |-> Target(h), created |-> handle[h].created,
                             bytes |-> handle[h].bytes, wrote |-> handle[h].wrote,
                             flushed |-> TRUE]
          PROVE  FALSE
      BY <3>2, <3>11
    <3> QED BY <1>3, <3>3, <3>6, <3>7, <3>8, <3>9, <3>10, <3>11, CallbackEffect
  <2>2. content'[id] = handle[h].bytes
    BY <1>0, <1>3, <2>1, MarkedRow, ReleasedEmpty
  <2> QED BY <1>0, <1>3, <2>1, <2>2, BytesKept
<1>4. ASSUME \A h \in Handles : handle[h].phase # "closed" => handle[h].file # f
      PROVE  content'[id] \in accepted'[f]
  <2>1. content[id] \in accepted[f]
    BY <1>0, <1>4 DEF Caches, Cache
  <2>2. accepted[f] \subseteq accepted'[f]
    <3>1. ASSUME NEW h \in Handles, ReleaseEmpty(h) \/ Mark(h)
          PROVE  handle[h].file # f
      BY <1>4, <3>1 DEF ReleaseEmpty, Mark
    <3> QED BY <1>0, <3>1
  <2>3. ASSUME NEW h \in Handles,
               \/ Flush(h) /\ handle[h].id = id
               \/ Release(h) /\ Target(h) = id
        PROVE  FALSE
    <3>1. handle[h].file = f
      BY <1>0, <2>3, Owner
    <3> QED BY <1>4, <2>3, <3>1 DEF Flush, Release
  <2>4. ASSUME StoreFetched PROVE worker.id # id
    BY <1>0, <2>4 DEF StoreFetched, SumsInv, DownloadFresh
  <2>5. ASSUME Migrate PROVE uploader.id # id
    <3>1. uploader.phase = "migrate" /\ uploader.id = id => uploader.newId # NoId
      BY <1>0 DEF SumsInv, Sent
    <3> QED BY <1>0, <2>5, <3>1, HomeIs DEF Migrate
  <2>6. ASSUME Evict PROVE cleaner # id
    BY <2>6 DEF Evict, CleanerApart
  <2> QED BY <1>0, <1>1, <2>1, <2>2, <2>3, <2>4, <2>5, <2>6, StoreStep
<1> QED BY <1>2, <1>3, <1>4

\* A file that finalize_new_file has moved to the id Drive has given it.
LEMMA FinalizedKept ==
  ASSUME NoOverlap, KeepInv, [Next]_vars, NEW f \in KeptFiles, accepted'[f] # {},
         Finalize, Home(f) = uploader.id, idOf[f] = uploader.id,
         NEW id \in SpareIds, id = uploader.newId
  PROVE  /\ row'[id] = "clean" /\ drive'[id] \in accepted'[f]
         /\ content'[id] \in accepted'[f] \cup {NoBytes}
<1> USE DEF KeepInv
<1>0. /\ f \in Files /\ id \in Ids /\ uploader.phase = "finalize"
      /\ UNCHANGED <<accepted, drive>> /\ row[uploader.id] = "dirty"
      /\ uploader.id \in Ids /\ idOf[f] # NoId
  BY KeptFacts, KeepTypes, Apartness DEF Finalize
<1>1. rowFile[uploader.id] = f
  BY <1>0 DEF FileRows
<1>2. content[uploader.id] \in accepted[f] /\ content[uploader.id] # NoBytes
  BY <1>0, <1>1 DEF Durable, Caches, Cache, DirtyCached
<1>3. content[uploader.id] = uploader.bytes /\ drive[id] = uploader.bytes
  <2>1. content[uploader.id] \in {uploader.bytes, NoBytes}
    BY <1>0 DEF SumsInv, LocalCopy
  <2>2. drive[uploader.newId] = uploader.bytes
    BY Apartness DEF SumsInv, Sent, Ids
  <2> QED BY <1>2, <2>1, <2>2
<1>4. content'[id] \in {NoBytes, content[uploader.id]}
  <2>1. content[id] = NoBytes
    BY <1>0 DEF UploadRows
  <2>2. PICK new : content' \in BlobRenamed(uploader.id, new)
    BY DEF Finalize
  <2>3. content \in [Keys -> Bytes \cup {NoBytes}] /\ id \in Keys
    BY KeepTypes, Apartness
  <2> QED BY <2>1, <2>2, <2>3 DEF BlobRenamed
<1>5. row'[id] = "clean"
  BY UploaderRowsAt
<1> QED BY <1>0, <1>2, <1>3, <1>4, <1>5

\* A restart finds every file where it was.
LEMMA RestartKept ==
  ASSUME NoOverlap, KeepInv, [Next]_vars, NEW f \in KeptFiles, accepted'[f] # {},
         Crash
  PROVE  Cache(f)'
<1> USE DEF KeepInv
<1>0. /\ f \in Files /\ accepted'[f] = accepted[f] /\ idOf'[f] # NoId
      /\ UNCHANGED <<row, rowFile, drive>>
  BY KeptFacts, FileIdsExpected DEF Crash
<1>1. PICK id \in Ids : /\ id = idOf'[f] /\ id = Home(f)
                        /\ id \in PendingIds =>
                              row[id] = "dirty" /\ rowFile[id] = f
  <2>1. CASE f \in OldFiles /\ idOf'[f] = f
    <3>1. idOf[f] = f /\ f \in DriveIds
      BY <2>1, Apartness DEF FileIds
    <3> QED BY <1>0, <2>1, <3>1, HomeIs, Apartness
  <2>2. CASE /\ idOf'[f] \in SpareIds \cup PendingIds
             /\ row[idOf'[f]] # "none" /\ rowFile[idOf'[f]] = f
    <3>1. PICK id \in Ids : id = idOf'[f]
      BY <2>2, Apartness
    <3>2. id = Home(f)
      BY <2>2, <3>1 DEF FileRows
    <3>3. id \in PendingIds => row[id] = "dirty"
      BY <2>2, <3>1, KeepTypes, Apartness
         DEF SumsInv, IndInv, CleanRowMatchesDrive
    <3> QED BY <2>2, <3>1, <3>2, <3>3
  <2> QED BY <1>0, <2>1, <2>2, CrashIds
<1>2. Home(f)' = id /\ id # NoId /\ idOf[f] # NoId
  BY <1>0, <1>1, Apartness, HomeIs DEF Crash, Home, Resting
<1>3. /\ content'[id] \in {content[id], NoBytes}
      /\ row[id] = "dirty" => content'[id] = content[id]
  <2>1. ~StoreFetched /\ ~Finalize /\ \A h \in Handles : ~Flush(h) /\ ~Release(h)
    BY CrashCounts
  <2>2. ~Evict /\ ~Migrate
    BY CrashCounts
  <2> QED BY <2>1, <2>2, StoreStep
<1>4. /\ Durable(f) \in accepted[f]
      /\ id \in DriveIds /\ row[id] # "dirty" =>
            content[id] \in accepted[f] \cup {NoBytes}
  BY <1>0, <1>1 DEF Caches, Cache
<1>5. row[id] = "dirty" => rowFile[id] = f
  BY <1>1, <1>2 DEF FileRows
<1>6. Durable(f)' = IF row[id] = "dirty" THEN content[id]
                    ELSE IF id \in DriveIds THEN drive[id] ELSE Empty
  BY <1>0, <1>2, <1>3, <1>5 DEF Durable
<1>7. Durable(f) = IF row[id] = "dirty" THEN content[id]
                   ELSE IF id \in DriveIds THEN drive[id] ELSE Empty
  BY <1>1, <1>5 DEF Durable
<1>8. id \in PendingIds => content'[id] \in accepted'[f]
  BY <1>0, <1>1, <1>3, <1>4, <1>7
<1>9. id \in DriveIds /\ row'[id] # "dirty" =>
         content'[id] \in accepted'[f] \cup {NoBytes}
  BY <1>0, <1>3, <1>4
<1>10. Durable(f)' \in accepted'[f]
  BY <1>0, <1>4, <1>6, <1>7
<1> QED BY <1>2, <1>8, <1>9, <1>10 DEF Cache

LEMMA CachesStep == NoOverlap /\ KeepInv /\ [Next]_vars => Caches'
<1> SUFFICES ASSUME NoOverlap, KeepInv, [Next]_vars, NEW f \in KeptFiles,
                    accepted'[f] # {}
             PROVE  Cache(f)'
  BY DEF Caches, Cache
<1> USE DEF KeepInv
<1>0. f \in Files /\ idOf'[f] # NoId
  BY KeptFacts, FileIdsExpected
<1>1. ASSUME NEW h \in Handles, NEW pid \in PendingIds, Create(h, f, pid),
             Fresh(pid), Home(f)' = pid
      PROVE  Cache(f)'
  <2>1. accepted'[f] = {Empty} /\ pid \notin DriveIds
    BY <1>0, <1>1, KeepTypes, Apartness DEF Create
  <2>2. row'[pid] = "none"
    BY <1>1 DEF Fresh, Create
  <2>3. Durable(f)' = Empty
    BY <1>1, <2>1, <2>2 DEF Durable
  <2>4. handle' = [handle EXCEPT ![h] = Opened("open", f, pid, TRUE, Empty)]
    BY <1>1 DEF Create
  <2>5. handle'[h].phase = "open" /\ handle'[h].file = f
    BY <2>4, KeepTypes DEF Opened
  <2> QED BY <1>1, <2>1, <2>3, <2>5 DEF Cache
<1>2. ASSUME Finalize, Home(f) = uploader.id, idOf[f] = uploader.id,
             Home(f)' = uploader.newId
      PROVE  Cache(f)'
  <2>1. PICK id \in SpareIds : id = uploader.newId
    BY <1>2 DEF Finalize, SumsInv, Sent, UploadRows
  <2>2. id \in DriveIds /\ id \notin PendingIds /\ Home(f)' = id
    BY <1>2, <2>1, Apartness
  <2>3. /\ row'[id] = "clean" /\ drive'[id] \in accepted'[f]
        /\ content'[id] \in accepted'[f] \cup {NoBytes}
    BY <1>2, <2>1, FinalizedKept
  <2>4. Durable(f)' = drive'[id]
    BY <2>2, <2>3 DEF Durable
  <2> QED BY <2>2, <2>3, <2>4 DEF Cache
<1>3. ASSUME Home(f)' = Home(f), Finalize => Home(f) # uploader.id, ~Crash
      PROVE  Cache(f)'
  <2>1. Home(f) # NoId
    <3>1. SUFFICES ASSUME Home(f) = NoId PROVE FALSE
      OBVIOUS
    <3>2. idOf[f] = NoId /\ accepted[f] = {}
      BY <1>0, <3>1, HomeIs, Expected
    <3>3. PICK h \in Handles, pid \in PendingIds : Create(h, f, pid)
      BY <1>0, <1>3, <3>2, AcceptedStep
    <3>4. Fresh(pid)
      BY <3>3, <1>0, KeptFacts, CreateFresh DEF Create
    <3>5. idOf'[f] = pid /\ uploader'.id # pid
      BY <1>0, <3>3, <3>4, KeepTypes DEF Create, Fresh
    <3>6. Home(f)' = pid
      BY <3>5 DEF Home
    <3> QED BY <1>3, <3>1, <3>6, Apartness
  <2>2. PICK id \in Ids : id = Home(f)
    BY <1>0, <2>1, HomeIs
  <2>3. Home(f)' = id /\ (Finalize => id # uploader.id)
    BY <1>3, <2>2
  <2>4. row'[id] = "dirty" => content'[id] \in accepted'[f]
    BY <1>3, <2>2, <2>3, DirtyKept
  <2>5. id \in DriveIds /\ row'[id] # "dirty" =>
           /\ drive'[id] \in accepted'[f]
           /\ content'[id] \in accepted'[f] \cup {NoBytes}
    BY <1>3, <2>2, <2>3, DriveKept
  <2>6. id \in PendingIds =>
           /\ row'[id] # "dirty" => Empty \in accepted'[f]
           /\ (\A h \in Handles : handle'[h].phase # "closed" => handle'[h].file # f)
                 => content'[id] \in accepted'[f]
    BY <1>3, <2>2, <2>3, PendingKept
  <2>7. row'[id] = "dirty" => rowFile'[id] = f
    BY <1>0, <2>3, FileRowsStep DEF FileRows
  <2>8. Durable(f)' \in accepted'[f]
    <3>1. Durable(f)' = IF row'[id] = "dirty" THEN content'[id]
                        ELSE IF id \in DriveIds THEN drive'[id] ELSE Empty
      BY <2>3, <2>7 DEF Durable
    <3> QED BY <2>4, <2>5, <2>6, <3>1 DEF Ids
  <2> QED BY <2>3, <2>5, <2>6, <2>8 DEF Cache
<1>4. CASE Crash
  BY <1>4, RestartKept
<1> QED BY <1>0, <1>1, <1>2, <1>3, <1>4, HomeStep

-----------------------------------------------------------------------------
(* What is closed is kept, and read back.                                   *)

LEMMA KeepInit == Init => KeepInv
<1> SUFFICES ASSUME Init PROVE KeepInv
  OBVIOUS
<1>1. SumsInv
  BY SumsInit
<1>2. /\ idOf = [f \in Files |-> IF f \in OldFiles THEN f ELSE NoId]
      /\ row = [id \in Ids |-> "none"]
      /\ content = [k \in Keys |-> NoBytes]
      /\ drive = [id \in DriveIds |-> IF id \in OldFiles THEN Original ELSE NoBytes]
      /\ handle = [h \in Handles |-> Closed]
      /\ uploader = Resting /\ cleaner = NoBytes /\ worker = NoDownload
      /\ accepted = [f \in Files |-> IF f \in OldFiles THEN {Original} ELSE {}]
  BY DEF Init
<1>3. \A h \in Handles : handle[h].phase = "closed" /\ handle[h].id = NoId
  BY <1>2 DEF Closed
<1>4. uploader.phase = "idle" /\ uploader.id = NoId /\ uploader.newId = NoId
  BY <1>2 DEF Resting
<1>5. \A f \in Files : /\ f \in OldFiles => idOf[f] = f /\ accepted[f] = {Original}
                       /\ f \notin OldFiles => idOf[f] = NoId /\ accepted[f] = {}
                       /\ Home(f) = idOf[f]
  BY <1>2, <1>4 DEF Home
<1>6. FileIds
  BY <1>4, <1>5, KeptFacts, Apartness DEF FileIds
<1>7. FileRows
  BY <1>2, <1>5, KeptFacts, HomeIs, <1>1, Apartness DEF FileRows
<1>8. UploadRows /\ HandleIds
  BY <1>3, <1>4 DEF UploadRows, HandleIds
<1>9. Unused
  <2>1. \A pid \in PendingIds : Fresh(pid)
    BY <1>2, <1>3, <1>4, <1>5, KeptFacts, Apartness DEF Fresh
  <2>2. \A pid \in PendingIds : row[pid] = "none"
    BY <1>2, Apartness
  <2> QED BY <1>4, <2>1, <2>2 DEF Unused
<1>10. DirtyCached /\ Unborn /\ CleanerApart /\ DownloadClean
  BY <1>2, Apartness DEF DirtyCached, Unborn, CleanerApart, DownloadClean
<1>11. Buffers
  BY <1>3 DEF Buffers, Buffer, Seeded
<1>12. Caches
  <2> SUFFICES ASSUME NEW f \in KeptFiles, accepted[f] # {} PROVE Cache(f)
    BY DEF Caches, Cache
  <2>1. f \in OldFiles /\ Home(f) = f /\ accepted[f] = {Original}
    BY <1>5, KeptFacts
  <2>2. /\ f \in DriveIds /\ f \in Ids /\ f \notin PendingIds
        /\ row[f] = "none" /\ drive[f] = Original /\ content[f] = NoBytes
    BY <1>2, <2>1, Apartness
  <2>3. Durable(f) = Original
    BY <2>1, <2>2 DEF Durable
  <2> QED BY <2>1, <2>2, <2>3 DEF Cache
<1> QED BY <1>1, <1>6, <1>7, <1>8, <1>9, <1>10, <1>11, <1>12 DEF KeepInv

LEMMA KeepStep == NoOverlap /\ KeepInv /\ [Next]_vars => KeepInv'
<1> SUFFICES ASSUME NoOverlap, KeepInv, [Next]_vars PROVE KeepInv'
  OBVIOUS
<1>1. UploadsApart /\ SumsInv
  BY Alone DEF KeepInv
<1>2. IndInv'
  BY <1>1, TypeStep, EntryInHand, HandleShapeStep, UploaderShapeStep, ExistingStep,
     CleanRowStep
     DEF SumsInv, IndInv
<1>3. SumsInv'
  BY <1>1, <1>2, SentStep, LocalCopyStep, CallbacksApartStep, DownloadFreshStep,
     ListingFreshStep, KnownSumsStep, CasSoundStep
     DEF SumsInv
<1> QED BY <1>3, FileIdsStep, FileRowsStep, UploadRowsStep, HandleIdsStep,
           UnusedStep, DirtyCachedStep, UnbornStep, CleanerApartStep,
           DownloadCleanStep, BuffersStep, CachesStep
        DEF KeepInv

\* The bytes of every file that Drive had at the start are kept as long as no two
\* activities overlap on a file: they are in the local copy of a dirty row or on
\* Drive, whatever is evicted, given up or answered, and over any number of
\* crashes (write_local_dirty, upload_entry, clear_dirty_after_upload, run_gc).
THEOREM OldFilesKept ==
  ASSUME NoOverlap
  PROVE  Spec => [](\A f \in OldFiles :
                       accepted[f] # {} => Durable(f) \in accepted[f])
<1>1. KeepInv => \A f \in OldFiles : accepted[f] # {} => Durable(f) \in accepted[f]
  BY KeptFacts DEF KeepInv, Caches, Cache
<1> QED BY <1>1, KeepInit, KeepStep, PTL DEF Spec

\* So are the bytes of every file, new ones too, where no placeholder id is given
\* out again: the upload that moves a file from its placeholder to the id Drive
\* has chosen never leaves it without what was closed into it
\* (finalize_new_file, replace_pending_id).
THEOREM ClosedBytesKept ==
  ASSUME NoOverlap, NoReuse
  PROVE  Spec => []NoLostUpdate
<1>1. KeepInv => NoLostUpdate
  BY KeptFacts DEF KeepInv, Caches, Cache, NoLostUpdate
<1> QED BY <1>1, KeepInit, KeepStep, PTL DEF Spec

\* What read() serves once the uploader and the callbacks have left a file is what
\* was closed into it, from whichever key the cache serves it (cache_key_for,
\* get_content).
THEOREM ClosedBytesReadBack ==
  ASSUME NoOverlap, NoReuse
  PROVE  Spec => []ReadYourWrites
<1>1. ASSUME KeepInv PROVE ReadYourWrites
  <2> SUFFICES ASSUME NEW f \in Files, accepted[f] # {}, ~Uploading(idOf[f])
               PROVE  View(f) \in accepted[f]
    BY DEF ReadYourWrites
  <2> USE <1>1 DEF KeepInv
  <2>1. f \in KeptFiles /\ idOf[f] # NoId
    BY KeptFacts, Expected
  <2>2. PICK id \in Ids : id = idOf[f] /\ id = Home(f)
    BY <2>1, KeepTypes, HomeIs
  <2>3. Durable(f) \in accepted[f] /\ (row[id] # "none" => rowFile[id] = f)
    BY <2>1, <2>2 DEF Caches, Cache, FileRows
  <2>4. id \in PendingIds => row[id] # "clean" /\ id \notin DriveIds
    BY Apartness DEF SumsInv, IndInv, CleanRowMatchesDrive
  <2>5. CASE row[id] = "dirty"
    <3>1. CacheKey(id) = id /\ content[id] # NoBytes
      BY <2>5 DEF CacheKey, DirtyCached
    <3>2. Durable(f) = content[id]
      BY <2>2, <2>3, <2>5 DEF Durable
    <3> QED BY <2>2, <2>3, <2>5, <3>1, <3>2 DEF View
  <2>6. CASE row[id] # "dirty" /\ id \in DriveIds
    <3>1. content[CacheKey(id)] \in accepted[f] \cup {NoBytes}
      BY <2>1, <2>2, <2>6, ReadAccepted
    <3>2. Durable(f) = drive[id] /\ id \notin PendingIds
      BY <2>2, <2>6, Apartness DEF Durable
    <3> QED BY <2>2, <2>3, <2>6, <3>1, <3>2 DEF View
  <2>7. CASE row[id] # "dirty" /\ id \in PendingIds
    <3>1. row[id] = "none" /\ Durable(f) = Empty
      BY <2>2, <2>4, <2>7, KeepTypes DEF Durable
    <3> QED BY <2>2, <2>3, <2>7, <3>1 DEF View
  <2> QED BY <2>5, <2>6, <2>7 DEF Ids
<1> QED BY <1>1, KeepInit, KeepStep, PTL DEF Spec

\* When an upload clears the flag of a row, what was closed into the file by then is
\* on Drive or still dirty: the second write is lost only where it overlaps the
\* upload (clear_dirty_after_upload, finalize_new_file).
THEOREM SecondWriteKept ==
  ASSUME NoOverlap, NoReuse
  PROVE  Spec => SecondWriteRedetected
<1>1. KeepInv /\ [Next]_vars =>
         [Clear \/ Finalize =>
             \A f \in Files : accepted[f] # {} => Durable(f)' \in accepted[f]]_vars
  <2> SUFFICES ASSUME KeepInv, [Next]_vars, Clear \/ Finalize,
                      NEW f \in Files, accepted[f] # {}
               PROVE  Durable(f)' \in accepted[f]
    OBVIOUS
  <2>1. f \in KeptFiles /\ UNCHANGED accepted
    BY KeptFacts DEF Clear, Finalize
  <2>2. Cache(f)'
    BY <2>1, CachesStep DEF Caches
  <2> QED BY <2>1, <2>2 DEF Cache
<1> QED BY <1>1, KeepInit, KeepStep, PTL DEF Spec, SecondWriteRedetected

================================================================================
