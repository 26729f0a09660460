--------------------------- MODULE WriteBackProofs ---------------------------
(***************************************************************************)
(* What TLAPS proves about WriteBack, for any files, ids, handles and      *)
(* contents and any number of crashes: the types and CleanRowMatchesDrive  *)
(* with every disturbance, CasSound (the last section) unless an upload or *)
(* a read overlaps what changes the file it is of.                         *)
(*                                                                         *)
(* CleanRowMatchesDrive is not inductive: that clear_dirty_after_upload    *)
(* and finalize_new_file write the checksum of what Drive has rests on     *)
(* what the uploader has in hand (UploaderShape), and that nobody else     *)
(* touches Drive's copy of a clean file on an id being in use only when    *)
(* Drive has it (Existing).                                                *)
(***************************************************************************)
EXTENDS WriteBack, TLAPS

\* A handle that is not closed is on a file and an id.
HandleShape ==
    \A h \in Handles : handle[h].phase # "closed" =>
        handle[h].id \in Ids /\ handle[h].file \in Files

\* What the uploader has in hand at each stage of an entry: the entry is dirty
\* until its own Clear, Finalize or Abandon, and so are the entries to come.
UploaderShape ==
    /\ uploader.queue \subseteq Dirty
    /\ uploader.phase \notin {"idle", "pick"} => uploader.id \in Ids \ uploader.queue
    /\ uploader.phase \in {"send", "clear", "finalize", "abandon"} =>
          row[uploader.id] = "dirty"
    /\ uploader.phase = "clear" =>
          uploader.id \in DriveIds /\ drive[uploader.id] = uploader.bytes
    /\ uploader.phase = "finalize" =>
          /\ uploader.id \in PendingIds
          /\ uploader.newId \in DriveIds \ uploader.queue
          /\ drive[uploader.newId] = uploader.bytes
    /\ uploader.newId # NoId => drive[uploader.newId] # NoBytes

\* The entry in hand, and what it becomes, are ids.
InHand ==
    /\ uploader.phase \notin {"idle", "pick"} => uploader.id \in Ids
    /\ uploader.phase = "finalize" => uploader.newId \in DriveIds

\* An id that Drive has not given out is in use nowhere; old files stay.
Existing ==
    /\ \A id \in DriveIds : drive[id] = NoBytes =>
          /\ row[id] = "none"
          /\ \A f \in Files : idOf[f] # id
          /\ \A h \in Handles : handle[h].id # id
    /\ \A id \in OldFiles : drive[id] # NoBytes

\* The inductive invariant.
IndInv ==
    TypeOK /\ HandleShape /\ UploaderShape /\ Existing /\ CleanRowMatchesDrive

-----------------------------------------------------------------------------
(* Types.                                                                   *)

LEMMA KeyTypes ==
  ASSUME TypeOK, NEW id \in Ids
  PROVE  CacheKey(id) \in Keys /\ content[CacheKey(id)] \in Bytes \cup {NoBytes}
<1>1. CacheKey(id) \in Keys
  BY DEF TypeOK, CacheKey, Keys
<1> QED BY <1>1 DEF TypeOK

\* Every record a callback writes is a handle record.
LEMMA HandleTypes ==
  ASSUME TypeOK, NEW h \in Handles
  PROVE  /\ handle[h] \in HandleState
         /\ Closed \in HandleState
         /\ \A ph \in {"fetch", "seed", "open", "mark"}, f \in Files \cup {NoFile},
               id \in Ids \cup {NoId}, c \in BOOLEAN, b \in Bytes :
                  Opened(ph, f, id, c, b) \in HandleState
         /\ \A b \in Bytes, w, d \in BOOLEAN : Filled(h, b, w, d) \in HandleState
<1>1. handle[h] \in HandleState
  BY DEF TypeOK
<1>2. Closed \in HandleState
  BY NamesAssumption DEF Closed, HandleState
<1>3. ASSUME NEW ph \in {"fetch", "seed", "open", "mark"},
             NEW f \in Files \cup {NoFile}, NEW id \in Ids \cup {NoId},
             NEW c \in BOOLEAN, NEW b \in Bytes
      PROVE  Opened(ph, f, id, c, b) \in HandleState
  BY DEF Opened, HandleState
<1>4. ASSUME NEW b \in Bytes, NEW w \in BOOLEAN, NEW d \in BOOLEAN
      PROVE  Filled(h, b, w, d) \in HandleState
  BY <1>1 DEF Filled, HandleState
<1> QED BY <1>1, <1>2, <1>3, <1>4

UploaderPhase ==
    {"idle", "pick", "send", "clear", "migrate", "publish", "finalize",
     "replace", "abandon", "forget"}

\* Every record the uploader writes is an uploader record.
LEMMA UploaderTypes ==
  ASSUME TypeOK
  PROVE  /\ uploader \in UploaderState
         /\ Resting \in UploaderState
         /\ \A q \in SUBSET Ids : Turning(q) \in UploaderState
         /\ \A ph \in UploaderPhase, new \in DriveIds \cup {NoId} :
               Stage(ph, new) \in UploaderState
<1>1. uploader \in UploaderState
  BY DEF TypeOK
<1>2. Resting \in UploaderState
  BY NamesAssumption DEF Resting, UploaderState
<1>3. ASSUME NEW q \in SUBSET Ids PROVE Turning(q) \in UploaderState
  BY NamesAssumption DEF Turning, UploaderState
<1>4. ASSUME NEW ph \in UploaderPhase, NEW new \in DriveIds \cup {NoId}
      PROVE  Stage(ph, new) \in UploaderState
  BY <1>1 DEF Stage, UploaderState, UploaderPhase
<1> QED BY <1>1, <1>2, <1>3, <1>4

LEMMA SavedTypes ==
  ASSUME TypeOK, NEW h \in Handles
  PROVE  Saved(h) \in [Files -> SUBSET Bytes]
<1>1. handle[h].bytes \in Bytes
  BY HandleTypes DEF HandleState
<1> QED BY <1>1 DEF TypeOK, Saved

LEMMA TypeInit == Init => TypeOK
<1> SUFFICES ASSUME Init PROVE TypeOK
  OBVIOUS
<1>1. handle \in [Handles -> HandleState]
  BY NamesAssumption DEF Init, Closed, HandleState
<1>2. uploader \in UploaderState
  BY NamesAssumption DEF Init, Resting, UploaderState
<1>3. worker \in [id : Ids \cup {NoId}, bytes : Bytes]
  BY NamesAssumption DEF Init, NoDownload
<1>4. /\ idOf \in [Files -> Ids \cup {NoId}]
      /\ md5Of \in [Ids -> Bytes \cup {NoBytes}]
      /\ drive \in [DriveIds -> Bytes \cup {NoBytes}]
      /\ accepted \in [Files -> SUBSET Bytes]
      /\ answer \in [id : Ids \cup {NoId}, sum : Bytes \cup {NoBytes}]
  BY NamesAssumption DEF Init, Ids, DriveIds, NoAnswer
<1> QED BY <1>1, <1>2, <1>3, <1>4, BoundsAssumption DEF Init, TypeOK

LEMMA TypeOfCallbacks ==
  ASSUME TypeOK, HandleShape, NEW h \in Handles,
         \/ OpenCall(h) \/ Callback(h) \/ \E b \in Bytes : Write(h, b)
         \/ Flush(h) \/ Release(h) \/ ReleaseEmpty(h)
  PROVE  TypeOK'
<1> USE DEF TypeOK
<1>1. ASSUME NEW f \in Files, OpenHit(h, f) PROVE TypeOK'
  <2>1. idOf[f] \in Ids
    BY <1>1 DEF OpenHit, Openable
  <2> QED BY <1>1, <2>1, KeyTypes, HandleTypes, NamesAssumption DEF OpenHit
<1>2. ASSUME NEW f \in Files, OpenMiss(h, f) PROVE TypeOK'
  BY <1>2, HandleTypes, NamesAssumption DEF OpenMiss
<1>3. ASSUME NEW f \in Files, NEW pid \in PendingIds, Create(h, f, pid) PROVE TypeOK'
  <2>1. pid \in Ids
    BY DEF Ids
  <2> QED BY <1>3, <2>1, HandleTypes, NamesAssumption DEF Create
<1>4. CASE OpenSeed(h)
  <2>1. handle[h].id \in Ids
    BY <1>4 DEF OpenSeed, HandleShape
  <2> QED BY <1>4, <2>1, KeyTypes, HandleTypes, NamesAssumption DEF OpenSeed
<1>5. CASE OpenUnseeded(h)
  BY <1>5, HandleTypes, NamesAssumption DEF OpenUnseeded
<1>6. CASE Mark(h)
  <2>1. handle[h].file \in Files
    BY <1>6 DEF Mark, HandleShape
  <2>2. /\ row' \in [Ids -> {"none", "clean", "dirty"}]
        /\ rowMd5' \in [Ids -> Bytes \cup {NoBytes}]
    BY <1>6 DEF Mark
  <2>3. rowFile' \in [Ids -> Files \cup {NoFile}]
    BY <1>6, <2>1 DEF Mark
  <2>4. handle' \in [Handles -> HandleState]
    BY <1>6, HandleTypes DEF Mark
  <2>5. accepted' \in [Files -> SUBSET Bytes]
    BY <1>6, SavedTypes DEF Mark
  <2>6. UNCHANGED <<idOf, md5Of, content, drive, uploader, cleaner, worker,
                    answer, mounted, writes, crashes>>
    BY <1>6 DEF Mark
  <2> QED BY <2>2, <2>3, <2>4, <2>5, <2>6
<1>7. ASSUME NEW b \in Bytes, Write(h, b) PROVE TypeOK'
  <2>1. Filled(h, b, TRUE, FALSE) \in HandleState
    BY HandleTypes, Zenon
  <2>2. writes' \in 0..MaxWrites
    BY <1>7, BoundsAssumption DEF Write
  <2>3. handle' \in [Handles -> HandleState]
    BY <1>7, <2>1 DEF Write
  <2> QED BY <1>7, <2>2, <2>3 DEF Write
<1>8. CASE Flush(h)
  <2>1. handle[h].bytes \in Bytes /\ handle[h].wrote \in BOOLEAN
    BY HandleTypes DEF HandleState
  <2> QED BY <1>8, <2>1, HandleTypes DEF Flush
<1>9. CASE Release(h)
  <2>1. /\ handle[h].bytes \in Bytes /\ handle[h].wrote \in BOOLEAN
        /\ handle[h].created \in BOOLEAN
        /\ handle[h].id \in Ids /\ handle[h].file \in Files
    BY <1>9, HandleTypes DEF HandleState, Release, HandleShape
  <2>2. Target(h) \in Ids
    BY <2>1 DEF Target, Ids
  <2>3. handle' \in [Handles -> HandleState]
    BY <1>9, <2>1, <2>2 DEF Release, HandleState
  <2> QED BY <1>9, <2>1, <2>3 DEF Release
<1>10. CASE ReleaseEmpty(h)
  BY <1>10, HandleTypes, SavedTypes DEF ReleaseEmpty
<1> QED BY <1>1, <1>2, <1>3, <1>4, <1>5, <1>6, <1>7, <1>8, <1>9, <1>10
        DEF OpenCall, Callback

\* What the answer to an upload leads to.
LEMMA AnswerTypes ==
  ASSUME TypeOK
  PROVE  /\ AnsweredSum \in {uploader.bytes, NoBytes}
         /\ AnsweredSum \in Bytes \cup {NoBytes}
         /\ Settling \in {"migrate", "publish", "replace"}
         /\ Settling \in UploaderPhase
         /\ Settling = "migrate" => AnsweredSum \in Bytes
<1>1. uploader.bytes \in Bytes
  BY UploaderTypes DEF UploaderState
<1> QED BY <1>1 DEF AnsweredSum, Settling, UploaderPhase

LEMMA TypeOfUploads ==
  ASSUME TypeOK, InHand, UploaderStep
  PROVE  TypeOK'
<1> USE DEF TypeOK
<1>0. /\ uploader.queue \subseteq Ids
      /\ uploader.id \in Ids \cup {NoId}
      /\ uploader.newId \in DriveIds \cup {NoId}
      /\ uploader.bytes \in Bytes
  BY UploaderTypes DEF UploaderState
<1>1. CASE Snapshot
  BY <1>1, UploaderTypes DEF Snapshot, Dirty
<1>2. ASSUME NEW id \in Ids, Load(id) PROVE TypeOK'
  <2>1. uploader.queue \ {id} \in SUBSET Ids
    BY <1>0
  <2>2. uploader' \in UploaderState
    <3>1. CASE uploader' = Turning(uploader.queue \ {id})
      BY <2>1, <3>1, UploaderTypes
    <3>2. CASE /\ content[CacheKey(id)] # NoBytes
               /\ uploader' = [phase |-> "send", queue |-> uploader.queue \ {id},
                               id |-> id, newId |-> NoId,
                               bytes |-> content[CacheKey(id)]]
      BY <2>1, <3>2, KeyTypes DEF UploaderState
    <3> QED BY <1>2, <3>1, <3>2 DEF Load
  <2> QED BY <1>2, <2>2 DEF Load
<1>3. CASE SendUpdate
  BY <1>0, <1>3, UploaderTypes DEF SendUpdate, UploaderPhase
<1>4. CASE SendCreate
  <2>1. PICK new \in SpareIds :
           /\ drive' = [drive EXCEPT ![new] = uploader.bytes]
           /\ uploader' = Stage("finalize", new)
    BY <1>4 DEF SendCreate
  <2>2. new \in DriveIds
    BY DEF DriveIds
  <2> QED BY <1>0, <1>4, <2>1, <2>2, UploaderTypes DEF SendCreate, UploaderPhase
<1>5. CASE SendFails
  <2>1. drive' \in [DriveIds -> Bytes \cup {NoBytes}]
    BY <1>0, <1>5 DEF SendFails
  <2> QED BY <1>0, <1>5, <2>1, UploaderTypes DEF SendFails
<1>6. CASE SendParentGone
  BY <1>6, UploaderTypes DEF SendParentGone, UploaderPhase
<1>7. CASE Clear
  <2>1. rowMd5' \in [Ids -> Bytes \cup {NoBytes}]
    BY <1>7, AnswerTypes DEF Clear
  <2> QED BY <1>0, <1>7, <2>1, UploaderTypes, AnswerTypes DEF Clear
<1>8. CASE Finalize
  <2>1. /\ row' \in [Ids -> {"none", "clean", "dirty"}]
        /\ rowFile' \in [Ids -> Files \cup {NoFile}]
        /\ rowMd5' \in [Ids -> Bytes \cup {NoBytes}]
    BY <1>0, <1>8, AnswerTypes DEF Finalize, InHand
  <2>2. content' \in [Keys -> Bytes \cup {NoBytes}]
    <3>1. uploader.id \in Keys
      BY <1>8 DEF Finalize, InHand, Keys
    <3>2. PICK k : content' \in BlobRenamed(uploader.id, k)
      BY <1>8 DEF Finalize
    <3> QED BY <1>8, <3>1, <3>2 DEF BlobRenamed
  <2> QED BY <1>0, <1>8, <2>1, <2>2, UploaderTypes, AnswerTypes DEF Finalize
<1>9. CASE Migrate
  <2>1. uploader.id \in Keys
    BY <1>9 DEF Migrate, InHand, Keys
  <2>2. content' \in [Keys -> Bytes \cup {NoBytes}]
    BY <1>9, <2>1 DEF Migrate
  <2> QED BY <1>0, <1>9, <2>2, UploaderTypes DEF Migrate, UploaderPhase
<1>10. CASE Publish
  BY <1>0, <1>10, UploaderTypes, AnswerTypes DEF Publish
<1>11. CASE Replace
  BY <1>0, <1>11, UploaderTypes, AnswerTypes DEF Replace, Ids
<1>12. CASE Abandon
  BY <1>0, <1>12, UploaderTypes DEF Abandon, UploaderPhase
<1>13. CASE Forget
  BY <1>0, <1>13, UploaderTypes DEF Forget
<1> QED BY <1>1, <1>2, <1>3, <1>4, <1>5, <1>6, <1>7, <1>8, <1>9, <1>10, <1>11,
           <1>12, <1>13 DEF UploaderStep

LEMMA TypeOfOthers ==
  ASSUME TypeOK,
         \/ \E id \in DriveIds : Fetch(id) \/ List(id)
         \/ StoreFetched \/ StoreListed
         \/ \E k \in Keys : CheckVictim(k)
         \/ Evict \/ Crash
  PROVE  TypeOK'
<1> USE DEF TypeOK
<1>1. ASSUME NEW id \in DriveIds, Fetch(id) PROVE TypeOK'
  BY <1>1 DEF Fetch, Ids
<1>2. ASSUME NEW id \in DriveIds, List(id) PROVE TypeOK'
  <2>1. answer' \in [id : Ids \cup {NoId}, sum : Bytes \cup {NoBytes}]
    BY <1>2 DEF List, Ids
  <2> QED BY <1>2, <2>1 DEF List
<1>3. CASE StoreFetched
  <2>1. handle' \in [Handles -> HandleState]
    <3>1. ASSUME NEW h \in Handles
          PROVE  /\ handle[h] \in HandleState
                 /\ Opened("seed", handle[h].file, handle[h].id, FALSE, Empty)
                       \in HandleState
      BY HandleTypes, NamesAssumption DEF HandleState
    <3> QED BY <1>3, <3>1 DEF StoreFetched
  <2>2. worker' \in [id : Ids \cup {NoId}, bytes : Bytes]
    BY <1>3, NamesAssumption DEF StoreFetched, NoDownload
  <2> QED BY <1>3, <2>1, <2>2 DEF StoreFetched
<1>4. ASSUME NEW k \in Keys, CheckVictim(k) PROVE TypeOK'
  BY <1>4 DEF CheckVictim
<1>5. CASE Evict
  BY <1>5 DEF Evict
<1>6. CASE Crash
  <2>1. idOf' \in [Files -> Ids \cup {NoId}]
    BY <1>6 DEF Crash, Ids, DriveIds
  <2>2. accepted' \in [Files -> SUBSET Bytes]
    BY <1>6 DEF Crash
  <2>3. content' \in [Keys -> Bytes \cup {NoBytes}]
    BY <1>6 DEF Crash
  <2>4. handle' \in [Handles -> HandleState] /\ uploader' \in UploaderState
    BY <1>6, UploaderTypes, NamesAssumption DEF Crash, Closed, HandleState
  <2>5. worker' \in [id : Ids \cup {NoId}, bytes : Bytes]
    BY <1>6, NamesAssumption DEF Crash, NoDownload
  <2>6. answer' \in [id : Ids \cup {NoId}, sum : Bytes \cup {NoBytes}]
    BY <1>6, NamesAssumption DEF Crash, NoAnswer
  <2> QED BY <1>6, <2>1, <2>2, <2>3, <2>4, <2>5, <2>6, BoundsAssumption DEF Crash
<1>7. CASE StoreListed
  <2>1. answer' \in [id : Ids \cup {NoId}, sum : Bytes \cup {NoBytes}]
    BY <1>7, NamesAssumption DEF StoreListed, NoAnswer
  <2>2. md5Of' \in [Ids -> Bytes \cup {NoBytes}]
    BY <1>7 DEF StoreListed
  <2> QED BY <1>7, <2>1, <2>2 DEF StoreListed
<1> QED BY <1>1, <1>2, <1>3, <1>4, <1>5, <1>6, <1>7

LEMMA TypeStep == TypeOK /\ HandleShape /\ InHand /\ [Next]_vars => TypeOK'
<1> SUFFICES ASSUME TypeOK, HandleShape, InHand, [Next]_vars PROVE TypeOK'
  OBVIOUS
<1>1. CASE UNCHANGED vars
  BY <1>1 DEF vars, TypeOK
<1> QED BY <1>1, TypeOfCallbacks, TypeOfUploads, TypeOfOthers DEF Next

-----------------------------------------------------------------------------
(* What the parts of a step do.                                             *)

LEMMA InitHolds == Init => IndInv
<1> SUFFICES ASSUME Init PROVE IndInv
  OBVIOUS
<1>1. TypeOK
  BY TypeInit
<1>2. HandleShape
  BY DEF Init, HandleShape, Closed
<1>3. UploaderShape
  BY DEF Init, UploaderShape, Resting
<1>4. Existing
  <2>1. ASSUME NEW id \in DriveIds, drive[id] = NoBytes
        PROVE  /\ row[id] = "none"
               /\ \A f \in Files : idOf[f] # id
               /\ \A h \in Handles : handle[h].id # id
    <3>1. id \in Ids /\ id # NoId
      BY NamesAssumption DEF Ids
    <3>2. id \notin OldFiles
      BY <2>1, NamesAssumption DEF Init, DriveIds, Ids, Keys
    <3> QED BY <3>1, <3>2 DEF Init, Closed
  <2>2. ASSUME NEW id \in OldFiles PROVE drive[id] # NoBytes
    BY NamesAssumption DEF Init, DriveIds, Keys
  <2> QED BY <2>1, <2>2 DEF Existing
<1>5. CleanRowMatchesDrive
  BY DEF Init, CleanRowMatchesDrive
<1> QED BY <1>1, <1>2, <1>3, <1>4, <1>5 DEF IndInv

\* A callback that has been given an id keeps it, or takes the one the inode
\* stands for.
LEMMA HandleStep ==
  ASSUME TypeOK, HandleShape, [Next]_vars, NEW h \in Handles
  PROVE  \/ handle'[h] = Closed
         \/ handle'[h] = handle[h]
         \/ /\ handle[h].phase # "closed"
            /\ handle'[h].id = handle[h].id /\ handle'[h].file = handle[h].file
         \/ \E f \in Files : /\ idOf[f] # NoId
                             /\ handle'[h].id = idOf[f] /\ handle'[h].file = f
         \/ handle'[h].id \in PendingIds /\ handle'[h].file \in Files
<1> DEFINE Kept ==
      \/ handle'[h] = Closed
      \/ handle'[h] = handle[h]
      \/ /\ handle[h].phase # "closed"
         /\ handle'[h].id = handle[h].id /\ handle'[h].file = handle[h].file
      \/ \E f \in Files : /\ idOf[f] # NoId
                          /\ handle'[h].id = idOf[f] /\ handle'[h].file = f
      \/ handle'[h].id \in PendingIds /\ handle'[h].file \in Files
<1>0. handle \in [Handles -> HandleState]
  BY DEF TypeOK
<1>1. ASSUME NEW g \in Handles, NEW f \in Files, OpenHit(g, f) PROVE Kept
  BY <1>0, <1>1 DEF OpenHit, Openable, Opened
<1>2. ASSUME NEW g \in Handles, NEW f \in Files, OpenMiss(g, f) PROVE Kept
  BY <1>0, <1>2 DEF OpenMiss, Openable, Opened
<1>3. ASSUME NEW g \in Handles, NEW f \in Files, NEW pid \in PendingIds,
             Create(g, f, pid)
      PROVE  Kept
  BY <1>0, <1>3 DEF Create, Opened
<1>4. ASSUME NEW g \in Handles,
             OpenSeed(g) \/ OpenUnseeded(g) \/ Flush(g)
                \/ \E b \in Bytes : Write(g, b)
      PROVE  Kept
  BY <1>0, <1>4 DEF OpenSeed, OpenUnseeded, Flush, Write, Filled
<1>5. ASSUME NEW g \in Handles, Release(g) PROVE Kept
  <2>1. handle[g].file \in Files
    BY <1>5 DEF Release, HandleShape
  <2>2. CASE Target(g) = handle[g].id
    BY <1>0, <1>5, <2>2 DEF Release
  <2>3. CASE Target(g) = idOf[handle[g].file] /\ Target(g) \in DriveIds
    BY <1>0, <1>5, <2>1, <2>3, NamesAssumption DEF Release, Ids
  <2> QED BY <2>2, <2>3 DEF Target
<1>6. ASSUME NEW g \in Handles, ReleaseEmpty(g) \/ Mark(g) PROVE Kept
  BY <1>0, <1>6 DEF ReleaseEmpty, Mark
<1>7. CASE StoreFetched
  BY <1>0, <1>7 DEF StoreFetched, Opened
<1>8. CASE Crash
  BY <1>8 DEF Crash
<1>9. CASE UploaderStep \/ Evict \/ (\E k \in Keys : CheckVictim(k))
              \/ StoreListed \/ \E id \in DriveIds : Fetch(id) \/ List(id)
  <2>1. UNCHANGED handle
    BY <1>9 DEF UploaderStep, Snapshot, Load, SendUpdate, SendCreate, SendFails,
         SendParentGone, Clear, Finalize, Migrate, Publish, Replace, Abandon,
         Forget, Evict, CheckVictim, Fetch, List, StoreListed
  <2> QED BY <2>1
<1>10. CASE UNCHANGED vars
  BY <1>10 DEF vars
<1> QED BY <1>1, <1>2, <1>3, <1>4, <1>5, <1>6, <1>7, <1>8, <1>9, <1>10
        DEF Next, OpenCall, Callback

LEMMA HandleShapeStep == TypeOK /\ HandleShape /\ [Next]_vars => HandleShape'
<1> SUFFICES ASSUME TypeOK, HandleShape, [Next]_vars, NEW h \in Handles,
                    handle'[h].phase # "closed"
             PROVE  handle'[h].id \in Ids /\ handle'[h].file \in Files
  BY DEF HandleShape
<1>1. handle'[h] # Closed
  BY DEF Closed
<1>2. \A f \in Files : idOf[f] \in Ids \cup {NoId}
  BY DEF TypeOK
<1> QED BY <1>1, <1>2, HandleStep DEF HandleShape, Ids

LEMMA InHandStep == TypeOK /\ InHand /\ [Next]_vars => InHand'
<1> SUFFICES ASSUME TypeOK, InHand, [Next]_vars PROVE InHand'
  OBVIOUS
<1>1. CASE uploader' = uploader \/ uploader' = Resting
  BY <1>1 DEF InHand, Resting
<1>2. CASE Snapshot \/ SendFails \/ Publish \/ Replace \/ Forget
              \/ \E id \in Ids : Load(id)
  BY <1>2 DEF Snapshot, Load, SendFails, Publish, Replace, Forget, InHand, Turning
<1>3. CASE SendUpdate \/ SendCreate \/ SendParentGone \/ Clear \/ Finalize
              \/ Migrate \/ Abandon
  BY <1>3, AnswerTypes
     DEF SendUpdate, SendCreate, SendParentGone, Clear, Finalize, Migrate, Abandon,
         InHand, Stage, DriveIds
<1> QED BY <1>1, <1>2, <1>3
        DEF Next, vars, OpenCall, Callback, OpenHit, OpenMiss, Create, OpenSeed,
            OpenUnseeded, Mark, Write, Flush, Release, ReleaseEmpty,
            UploaderStep, Fetch, List, StoreFetched, StoreListed, CheckVictim,
            Evict, Crash

LEMMA EntryInHand == UploaderShape => InHand
BY DEF UploaderShape, InHand

\* Whatever the uploader has in hand is some content.
LEMMA BytesKnown == TypeOK => uploader.bytes \in Bytes \ {NoBytes}
BY NamesAssumption DEF TypeOK, UploaderState, Keys

\* Drive forgets nothing.
LEMMA DriveStep ==
  ASSUME TypeOK, [Next]_vars, NEW id \in DriveIds, drive'[id] = NoBytes
  PROVE  drive[id] = NoBytes
<1>1. drive \in [DriveIds -> Bytes \cup {NoBytes}]
  BY DEF TypeOK
<1>2. CASE SendUpdate \/ SendCreate \/ SendFails
  BY <1>1, <1>2, BytesKnown DEF SendUpdate, SendCreate, SendFails
<1>3. CASE ~(SendUpdate \/ SendCreate \/ SendFails)
  <2>1. UNCHANGED drive
    BY <1>3 DEF Next, vars, OpenCall, Callback, OpenHit, OpenMiss, Create,
         OpenSeed, OpenUnseeded, Mark, Write, Flush, Release, ReleaseEmpty,
         UploaderStep, Snapshot, Load, SendParentGone, Clear, Finalize, Migrate,
         Publish, Replace, Abandon, Forget, Fetch, List, StoreFetched,
         StoreListed, CheckVictim, Evict, Crash
  <2> QED BY <2>1
<1> QED BY <1>2, <1>3

\* Nobody but the uploader takes a dirty flag away or writes to Drive.
LEMMA OtherStep ==
  ASSUME TypeOK, HandleShape, [Next]_vars, ~UploaderStep
  PROVE  /\ UNCHANGED drive
         /\ \/ uploader' = uploader
            \/ uploader' = Resting
         /\ \A id \in Ids :
               \/ row'[id] = row[id] /\ rowMd5'[id] = rowMd5[id]
               \/ row'[id] = "dirty" /\ \E h \in Handles : handle[h].id = id
<1>1. ASSUME NEW h \in Handles, Mark(h)
      PROVE  /\ UNCHANGED <<drive, uploader>>
             /\ \A id \in Ids :
                   \/ row'[id] = row[id] /\ rowMd5'[id] = rowMd5[id]
                   \/ row'[id] = "dirty" /\ handle[h].id = id
  BY <1>1 DEF TypeOK, Mark
<1>2. CASE ~\E h \in Handles : Mark(h)
  <2>1. UNCHANGED <<drive, row, rowMd5>> /\ (uploader' = uploader \/ uploader' = Resting)
    BY <1>2 DEF Next, vars, OpenCall, Callback, OpenHit, OpenMiss, Create,
         OpenSeed, OpenUnseeded, Write, Flush, Release, ReleaseEmpty, Fetch,
         List, StoreFetched, StoreListed, CheckVictim, Evict, Crash
  <2> QED BY <2>1
<1> QED BY <1>1, <1>2

\* What the uploader does to the rows: it touches no entry it still has to take.
LEMMA UploaderRows ==
  ASSUME TypeOK, UploaderShape, UploaderStep
  PROVE  /\ \A id \in uploader.queue : row'[id] = row[id]
         /\ \A id \in Ids : row'[id] = "none" \/ row[id] # "none"
                               \/ (id \in DriveIds /\ drive[id] # NoBytes)
<1>0. /\ uploader.queue \subseteq Ids
      /\ row \in [Ids -> {"none", "clean", "dirty"}]
  BY DEF UploaderShape, Dirty, TypeOK
<1>1. CASE Clear
  <2>1. uploader.id \in Ids \ uploader.queue
    BY <1>1 DEF Clear, UploaderShape
  <2> QED BY <1>0, <1>1, <2>1 DEF Clear
<1>2. CASE Finalize
  <2>1. /\ uploader.id \in Ids \ uploader.queue
        /\ uploader.newId \in DriveIds \ uploader.queue
        /\ drive[uploader.newId] # NoBytes
    BY <1>2, BytesKnown DEF Finalize, UploaderShape
  <2> QED BY <1>0, <1>2, <2>1 DEF Finalize, Ids
<1>3. CASE Abandon
  <2>1. uploader.id \in Ids \ uploader.queue
    BY <1>3 DEF Abandon, UploaderShape
  <2> QED BY <1>0, <1>3, <2>1 DEF Abandon
<1>4. CASE ~(Clear \/ Finalize \/ Abandon)
  <2>1. UNCHANGED row
    BY <1>4 DEF UploaderStep, Snapshot, Load, SendUpdate, SendCreate, SendFails,
         SendParentGone, Migrate, Publish, Replace, Forget
  <2> QED BY <2>1
<1> QED BY <1>1, <1>2, <1>3, <1>4

-----------------------------------------------------------------------------
(* The uploader has in hand what it should.                                 *)

LEMMA UploaderShapeStep == IndInv /\ [Next]_vars => UploaderShape'
<1> SUFFICES ASSUME IndInv, [Next]_vars PROVE UploaderShape'
  OBVIOUS
<1> USE DEF IndInv
<1>1. /\ row \in [Ids -> {"none", "clean", "dirty"}]
      /\ drive \in [DriveIds -> Bytes \cup {NoBytes}]
      /\ uploader.queue \subseteq Dirty
      /\ uploader.id \in Ids \cup {NoId}
      /\ uploader.newId \in DriveIds \cup {NoId}
      /\ uploader.bytes \in Bytes /\ uploader.bytes # NoBytes
      /\ NoId \notin Ids /\ DriveIds \subseteq Ids
  BY BytesKnown, NamesAssumption
     DEF TypeOK, UploaderState, UploaderShape, Ids
<1>2. CASE ~UploaderStep
  <2>1. CASE uploader' = Resting
    BY <2>1 DEF UploaderShape, Resting
  <2>2. CASE uploader' = uploader
    <3>1. \A id \in Ids : row[id] = "dirty" => row'[id] = "dirty"
      BY <1>2, OtherStep
    <3>2. UNCHANGED drive
      BY <1>2, OtherStep
    <3> QED BY <2>2, <3>1, <3>2 DEF UploaderShape, Dirty
  <2> QED BY <1>2, <2>1, <2>2, OtherStep
<1>3. CASE UploaderStep
  <2>0. \A id \in uploader.queue : id \in Ids /\ row[id] = "dirty" /\ row'[id] = "dirty"
    BY <1>1, <1>3, UploaderRows DEF Dirty
  \* The entry is left behind.
  <2>1. ASSUME NEW left \in SUBSET Dirty', uploader' = Turning(left)
        PROVE  UploaderShape'
    BY <2>1 DEF UploaderShape, Turning
  <2>2. uploader.queue \subseteq Dirty'
    BY <2>0 DEF Dirty
  <2>3. CASE Snapshot
    BY <2>1, <2>3 DEF Snapshot, Dirty
  <2>4. ASSUME NEW id \in Ids, Load(id) PROVE UploaderShape'
    <3>1. uploader.queue \ {id} \subseteq Dirty'
      BY <2>2
    <3>2. id \in uploader.queue
      BY <2>4 DEF Load
    <3>3. row[id] = "dirty" /\ UNCHANGED <<row, drive>>
      BY <2>0, <2>4, <3>2 DEF Load
    <3>4. CASE uploader' = Turning(uploader.queue \ {id})
      BY <2>1, <3>1, <3>4
    <3>5. CASE uploader' = [phase |-> "send", queue |-> uploader.queue \ {id},
                            id |-> id, newId |-> NoId,
                            bytes |-> content[CacheKey(id)]]
      BY <3>1, <3>3, <3>5 DEF UploaderShape
    <3> QED BY <2>4, <3>4, <3>5 DEF Load
  <2>5. CASE SendUpdate
    <3>1. /\ uploader.id \in Ids \ uploader.queue /\ row[uploader.id] = "dirty"
          /\ uploader.newId # NoId => drive[uploader.newId] # NoBytes
      BY <2>5 DEF SendUpdate, UploaderShape
    <3> QED BY <1>1, <2>2, <2>5, <3>1 DEF SendUpdate, UploaderShape, Stage
  <2>6. CASE SendCreate
    <3>1. /\ uploader.id \in Ids \ uploader.queue /\ row[uploader.id] = "dirty"
          /\ uploader.id \in PendingIds
      BY <2>6 DEF SendCreate, UploaderShape
    <3>2. PICK new \in SpareIds :
             /\ drive[new] = NoBytes
             /\ drive' = [drive EXCEPT ![new] = uploader.bytes]
             /\ uploader' = Stage("finalize", new)
      BY <2>6 DEF SendCreate
    <3>3. new \in DriveIds /\ new \notin uploader.queue
      BY <2>0, <3>2 DEF Existing, DriveIds
    <3>4. drive'[new] = uploader.bytes /\ UNCHANGED row
      BY <1>1, <2>6, <3>2, <3>3 DEF SendCreate
    <3> QED BY <1>1, <2>2, <3>1, <3>2, <3>3, <3>4 DEF UploaderShape, Stage
  <2>7. CASE SendFails \/ Publish \/ Replace \/ Forget
    BY <2>1, <2>2, <2>7 DEF SendFails, Publish, Replace, Forget
  <2>8. CASE SendParentGone
    <3>1. uploader.id \in Ids \ uploader.queue /\ row[uploader.id] = "dirty"
      BY <2>8 DEF SendParentGone, UploaderShape
    <3> QED BY <2>2, <2>8, <3>1 DEF SendParentGone, UploaderShape, Stage
  <2>9. CASE Clear \/ Finalize
    <3>1. /\ uploader.id \in Ids \ uploader.queue
          /\ uploader.newId # NoId => drive[uploader.newId] # NoBytes
      BY <2>9 DEF Clear, Finalize, UploaderShape
    <3> QED BY <2>2, <2>9, <3>1, AnswerTypes DEF Clear, Finalize, UploaderShape, Stage
  <2>10. CASE Migrate
    <3>1. /\ uploader.id \in Ids \ uploader.queue
          /\ uploader.newId # NoId => drive[uploader.newId] # NoBytes
      BY <2>10 DEF Migrate, UploaderShape
    <3> QED BY <2>2, <2>10, <3>1 DEF Migrate, UploaderShape, Stage
  <2>11. CASE Abandon
    <3>1. uploader.id \in Ids \ uploader.queue
      BY <2>11 DEF Abandon, UploaderShape
    <3> QED BY <2>2, <2>11, <3>1 DEF Abandon, UploaderShape, Stage
  <2> QED BY <1>3, <2>3, <2>4, <2>5, <2>6, <2>7, <2>8, <2>9, <2>10, <2>11
          DEF UploaderStep
<1> QED BY <1>2, <1>3

-----------------------------------------------------------------------------
(* Ids that Drive has not given out.                                        *)

LEMMA ExistingStep == IndInv /\ [Next]_vars => Existing'
<1> SUFFICES ASSUME IndInv, [Next]_vars PROVE Existing'
  OBVIOUS
<1> USE DEF IndInv
<1>1. \A id \in DriveIds : id \in Ids /\ id # NoId /\ id \notin PendingIds
  BY NamesAssumption DEF Ids
<1>2. ASSUME NEW id \in DriveIds, drive'[id] = NoBytes
      PROVE  row'[id] = "none"
  <2>1. /\ drive[id] = NoBytes /\ row[id] = "none"
        /\ \A h \in Handles : handle[h].id # id
    BY <1>2, DriveStep DEF Existing
  <2> QED BY <1>1, <2>1, OtherStep, UploaderRows
<1>3. ASSUME NEW id \in DriveIds, drive'[id] = NoBytes, NEW f \in Files
      PROVE  idOf'[f] # id
  <2>1. /\ drive[id] = NoBytes /\ row[id] = "none" /\ id \notin OldFiles
        /\ \A g \in Files : idOf[g] # id
    BY <1>3, DriveStep DEF Existing
  <2>2. ASSUME NEW h \in Handles, NEW g \in Files, NEW pid \in PendingIds,
               Create(h, g, pid)
        PROVE  idOf'[f] # id
    BY <1>1, <2>1, <2>2 DEF Create, TypeOK
  <2>3. CASE Replace
    <3>1. uploader.newId # id
      BY <1>1, <2>1, <2>3 DEF Replace, UploaderShape
    <3> QED BY <2>1, <2>3, <3>1 DEF Replace
  <2>4. CASE Forget
    BY <1>1, <2>1, <2>4 DEF Forget
  <2>5. CASE Crash
    <3>1. CASE f \in OldFiles
      BY <2>1, <2>5, <3>1 DEF Crash
    <3>2. CASE f \notin OldFiles
      <4>1. CASE \E i \in Ids : row[i] # "none" /\ rowFile[i] = f
        <5>1. PICK i \in Ids : idOf'[f] = i /\ row[i] # "none"
          BY <2>5, <3>2, <4>1 DEF Crash
        <5> QED BY <2>1, <5>1
      <4>2. CASE ~\E i \in Ids : row[i] # "none" /\ rowFile[i] = f
        BY <1>1, <2>5, <3>2, <4>2 DEF Crash
      <4> QED BY <4>1, <4>2
    <3> QED BY <3>1, <3>2
  <2>6. CASE UNCHANGED idOf
    BY <2>1, <2>6
  <2> QED BY <2>2, <2>3, <2>4, <2>5, <2>6
          DEF Next, vars, OpenCall, Callback, OpenHit, OpenMiss, OpenSeed,
              OpenUnseeded, Mark, Write, Flush, Release, ReleaseEmpty,
              UploaderStep, Snapshot, Load, SendUpdate, SendCreate, SendFails,
              SendParentGone, Clear, Finalize, Migrate, Publish, Abandon,
              Fetch, List, StoreFetched, StoreListed, CheckVictim, Evict
<1>4. ASSUME NEW id \in DriveIds, drive'[id] = NoBytes, NEW h \in Handles
      PROVE  handle'[h].id # id
  <2>1. /\ \A f \in Files : idOf[f] # id
        /\ \A g \in Handles : handle[g].id # id
    BY <1>4, DriveStep DEF Existing
  <2>2. Closed.id # id
    BY <1>1 DEF Closed
  <2> QED BY <1>1, <2>1, <2>2, HandleStep
<1>5. ASSUME NEW id \in OldFiles PROVE drive'[id] # NoBytes
  BY DriveStep DEF Existing, DriveIds
<1> QED BY <1>2, <1>3, <1>4, <1>5 DEF Existing

-----------------------------------------------------------------------------
(* Clean rows.                                                              *)

LEMMA CleanRowStep == IndInv /\ [Next]_vars => CleanRowMatchesDrive'
<1> SUFFICES ASSUME IndInv, [Next]_vars, NEW id \in Ids, row'[id] = "clean"
             PROVE  /\ id \in DriveIds /\ drive'[id] # NoBytes
                    /\ rowMd5'[id] \in {NoBytes, drive'[id]}
  BY DEF CleanRowMatchesDrive
<1> USE DEF IndInv
<1>1. /\ row \in [Ids -> {"none", "clean", "dirty"}]
      /\ rowMd5 \in [Ids -> Bytes \cup {NoBytes}]
      /\ drive \in [DriveIds -> Bytes \cup {NoBytes}]
      /\ DriveIds \subseteq Ids
  BY DEF TypeOK, Ids
\* A row that was clean before names what Drive has.
<1>2. row[id] = "clean" => /\ id \in DriveIds /\ drive[id] # NoBytes
                           /\ rowMd5[id] \in {NoBytes, drive[id]}
  BY DEF CleanRowMatchesDrive
<1>3. CASE ~UploaderStep
  BY <1>2, <1>3, OtherStep
<1>4. CASE Clear
  <2>1. uploader.id \in DriveIds /\ drive[uploader.id] = uploader.bytes
    BY <1>4 DEF Clear, UploaderShape
  <2> QED BY <1>1, <1>2, <1>4, <2>1, AnswerTypes, BytesKnown DEF Clear
<1>5. CASE Finalize
  <2>1. /\ uploader.id \in Ids
        /\ uploader.newId \in DriveIds /\ uploader.newId # uploader.id
        /\ drive[uploader.newId] = uploader.bytes
    BY <1>5, NamesAssumption DEF Finalize, UploaderShape
  <2> QED BY <1>1, <1>2, <1>5, <2>1, AnswerTypes, BytesKnown DEF Finalize
<1>6. CASE Abandon
  BY <1>1, <1>2, <1>6 DEF Abandon
\* Drive's copy of a clean file is nobody's to change: the upload of an entry
\* is under way only while it is dirty.
<1>7. CASE SendUpdate \/ SendCreate \/ SendFails
  <2>1. UNCHANGED <<row, rowMd5>>
    BY <1>7 DEF SendUpdate, SendCreate, SendFails
  <2>2. row[uploader.id] = "dirty"
    BY <1>7 DEF SendUpdate, SendCreate, SendFails, UploaderShape
  <2>3. \A new \in DriveIds : drive[new] = NoBytes => new # id
    BY <2>1 DEF Existing
  <2>4. drive'[id] = drive[id]
    BY <1>1, <1>2, <1>7, <2>1, <2>2, <2>3
       DEF SendUpdate, SendCreate, SendFails, DriveIds
  <2> QED BY <1>2, <2>1, <2>4
<1>8. CASE UploaderStep /\ ~(Clear \/ Finalize \/ Abandon \/ SendUpdate
                                \/ SendCreate \/ SendFails)
  <2>1. UNCHANGED <<row, rowMd5, drive>>
    BY <1>8 DEF UploaderStep, Snapshot, Load, SendParentGone, Migrate, Publish,
         Replace, Forget
  <2> QED BY <1>2, <2>1
<1> QED BY <1>3, <1>4, <1>5, <1>6, <1>7, <1>8

-----------------------------------------------------------------------------
(* The theorems.                                                            *)

\* The invariant is inductive: at every moment, crashes included, the uploader
\* has a dirty entry in hand, Drive has what it is about to record, and no id
\* is in use before Drive has given it out (upload_entry).
THEOREM WriteBackInductive == Spec => []IndInv
<1>1. Init => IndInv
  BY InitHolds
<1>2. IndInv /\ [Next]_vars => IndInv'
  BY TypeStep, EntryInHand, HandleShapeStep, UploaderShapeStep, ExistingStep,
     CleanRowStep
     DEF IndInv
<1> QED BY <1>1, <1>2, PTL DEF Spec

\* Every variable of the write-back path keeps its type.
THEOREM WriteBackTypeCorrect == Spec => []TypeOK
<1>1. IndInv => TypeOK
  BY DEF IndInv
<1> QED BY <1>1, WriteBackInductive, PTL

\* A row that clear_dirty_after_upload or finalize_new_file has made clean names
\* the bytes Drive has, whatever callbacks, cleaner, worker and crashes do in
\* the meantime and whichever answers of Drive are lost.
THEOREM CleanRowsMatchDrive == Spec => []CleanRowMatchesDrive
<1>1. IndInv => CleanRowMatchesDrive
  BY DEF IndInv
<1> QED BY <1>1, WriteBackInductive, PTL

-----------------------------------------------------------------------------
(* What lies under an MD5 key.                                              *)
(*                                                                          *)
(* A download goes under the checksum the object manager knows at that      *)
(* moment, and an upload under the one in the answer, whatever the old key  *)
(* holds by then.  CasSound rests on the known checksum being Drive's or    *)
(* the file being dirty or under upload (KnownSums), on downloads and       *)
(* answers to listings being of what Drive still has (DownloadFresh,        *)
(* ListingFresh), and on the local copy staying put while it is sent        *)
(* (LocalCopy).                                                             *)

\* No upload, no download for read() and no listing overlaps a callback on the
\* same file, and no upload a listing.  Every other disturbance may happen.
UploadsApart == Disturbances \cap {"upload", "reader", "relist"} = {}

Started == {"fetch", "seed", "mark"}

\* What the uploader has sent, and where it has put it.
Sent ==
    /\ uploader.phase \in {"send", "clear", "publish", "abandon", "forget"} =>
          uploader.newId = NoId
    /\ uploader.phase \in {"clear", "publish"} =>
          uploader.id \in DriveIds /\ drive[uploader.id] = uploader.bytes
    /\ uploader.phase \in {"finalize", "replace"} => uploader.newId # NoId
    /\ uploader.phase = "migrate" /\ uploader.newId = NoId =>
          uploader.id \in DriveIds /\ drive[uploader.id] = uploader.bytes
    /\ uploader.newId # NoId =>
          uploader.id \in PendingIds /\ drive[uploader.newId] = uploader.bytes
    /\ uploader.phase \in {"abandon", "forget"} => uploader.id \in PendingIds

\* The local copy of the entry is what was loaded, until it moves.
LocalCopy ==
    uploader.phase \in {"send", "clear", "finalize", "migrate"} =>
        content[uploader.id] \in {uploader.bytes, NoBytes}

\* A callback that waits or has yet to mark its row is not on the file under
\* upload, and it waits for a file of Drive's.
CallbacksApart ==
    \A h \in Handles :
        /\ handle[h].phase \in Started => ~Uploading(handle[h].id)
        /\ handle[h].phase = "fetch" => handle[h].id \in DriveIds

\* A download is of what Drive still has.
DownloadFresh ==
    worker # NoDownload =>
        /\ worker.id \in DriveIds /\ worker.bytes = drive[worker.id]
        /\ ~Uploading(worker.id)

\* The answer to a listing under way is what Drive still says.
ListingFresh ==
    answer # NoAnswer =>
        /\ answer.id \in DriveIds /\ drive[answer.id] # NoBytes
        /\ answer.sum \in {NoBytes, drive[answer.id]}
        /\ ~Uploading(answer.id)

\* The known checksum is out of date only while a row or the uploader says so.
KnownSums ==
    \A id \in DriveIds :
        md5Of[id] \in {NoBytes, drive[id]} \/ row[id] = "dirty" \/ Uploading(id)

SumsInv ==
    /\ IndInv
    /\ Sent /\ LocalCopy /\ CallbacksApart /\ DownloadFresh /\ ListingFresh
    /\ KnownSums /\ CasSound

LEMMA SumsInit == Init => SumsInv
<1> SUFFICES ASSUME Init PROVE SumsInv
  OBVIOUS
<1>1. Sent /\ LocalCopy
  BY NamesAssumption DEF Init, Resting, Sent, LocalCopy
<1>2. CallbacksApart
  BY DEF Init, Closed, Started, CallbacksApart
<1>3. DownloadFresh /\ ListingFresh
  BY DEF Init, NoDownload, DownloadFresh, NoAnswer, ListingFresh
<1>4. KnownSums
  BY DEF Init, KnownSums, Ids
<1>5. CasSound
  BY DEF Init, CasSound, Keys
<1> QED BY <1>1, <1>2, <1>3, <1>4, <1>5, InitHolds DEF SumsInv

\* Ids, checksums and the absence of either do not meet.
LEMMA Apartness ==
         /\ DriveIds \subseteq Ids /\ PendingIds \subseteq Ids
         /\ SpareIds \subseteq DriveIds /\ OldFiles \subseteq DriveIds
         /\ DriveIds \cap PendingIds = {} /\ Ids \cap Bytes = {}
         /\ Ids \subseteq Keys /\ Bytes \subseteq Keys
         /\ NoId \notin Ids /\ NoBytes \notin Keys /\ NoBytes \notin Bytes
BY NamesAssumption DEF Ids, DriveIds, Keys

\* A callback that begins to wait, or has stored its bytes, was allowed to start.
LEMMA CallbackStep ==
  ASSUME IndInv, CallbacksApart, [Next]_vars, NEW h \in Handles,
         handle'[h].phase \in Started
  PROVE  \/ /\ handle[h].phase \in Started
            /\ handle'[h].id = handle[h].id
            /\ handle'[h].phase = "fetch" => handle[h].phase = "fetch"
         \/ /\ MayAccess(handle'[h].id) /\ UNCHANGED uploader
            /\ handle'[h].phase = "fetch" => handle'[h].id \in DriveIds
<1> DEFINE Goal ==
      \/ /\ handle[h].phase \in Started
         /\ handle'[h].id = handle[h].id
         /\ handle'[h].phase = "fetch" => handle[h].phase = "fetch"
      \/ /\ MayAccess(handle'[h].id) /\ UNCHANGED uploader
         /\ handle'[h].phase = "fetch" => handle'[h].id \in DriveIds
<1>0. handle \in [Handles -> HandleState]
  BY DEF IndInv, TypeOK
<1>1. ASSUME NEW g \in Handles, NEW f \in Files, OpenHit(g, f) PROVE Goal
  BY <1>0, <1>1 DEF OpenHit, Opened, Started
<1>2. ASSUME NEW g \in Handles, NEW f \in Files, OpenMiss(g, f) PROVE Goal
  BY <1>0, <1>2 DEF OpenMiss, Openable, Opened, Started
<1>3. ASSUME NEW g \in Handles, NEW f \in Files, NEW pid \in PendingIds,
             Create(g, f, pid)
      PROVE  Goal
  BY <1>0, <1>3 DEF Create, Opened, Started
<1>4. ASSUME NEW g \in Handles,
             OpenSeed(g) \/ OpenUnseeded(g) \/ Flush(g)
                \/ \E b \in Bytes : Write(g, b)
      PROVE  Goal
  BY <1>0, <1>4 DEF OpenSeed, OpenUnseeded, Flush, Write, Filled, Started
<1>5. ASSUME NEW g \in Handles, Release(g) PROVE Goal
  BY <1>0, <1>5 DEF Release, Started
<1>6. ASSUME NEW g \in Handles, ReleaseEmpty(g) \/ Mark(g) PROVE Goal
  BY <1>0, <1>6 DEF ReleaseEmpty, Mark, Closed, Started
<1>7. CASE StoreFetched
  BY <1>0, <1>7 DEF StoreFetched, Opened, Started
<1>8. CASE Crash
  BY <1>8 DEF Crash, Closed, Started
<1>9. CASE UploaderStep \/ Evict \/ (\E k \in Keys : CheckVictim(k))
              \/ StoreListed \/ \E id \in DriveIds : Fetch(id) \/ List(id)
  <2>1. UNCHANGED handle
    BY <1>9 DEF UploaderStep, Snapshot, Load, SendUpdate, SendCreate, SendFails,
         SendParentGone, Clear, Finalize, Migrate, Publish, Replace, Abandon,
         Forget, Evict, CheckVictim, Fetch, List, StoreListed
  <2> QED BY <2>1
<1>10. CASE UNCHANGED vars
  BY <1>10 DEF vars
<1> QED BY <1>1, <1>2, <1>3, <1>4, <1>5, <1>6, <1>7, <1>8, <1>9, <1>10
        DEF Next, OpenCall, Callback

\* What the uploader records of itself, and what nobody else touches.
LEMMA UploaderRecord ==
  ASSUME IndInv
  PROVE  /\ uploader \in UploaderState
         /\ uploader.id \in Ids \cup {NoId} /\ uploader.newId \in DriveIds \cup {NoId}
         /\ uploader.bytes \in Bytes /\ uploader.bytes # NoBytes
         /\ uploader.queue \subseteq Ids
         /\ \A q : /\ Turning(q).phase \in {"idle", "pick"}
                   /\ Turning(q).id = NoId /\ Turning(q).newId = NoId
         /\ \A ph, new : /\ Stage(ph, new).phase = ph /\ Stage(ph, new).newId = new
                         /\ Stage(ph, new).id = uploader.id
                         /\ Stage(ph, new).bytes = uploader.bytes
BY BytesKnown DEF IndInv, TypeOK, UploaderState, Turning, Stage

LEMMA SentStep == SumsInv /\ [Next]_vars => Sent'
<1> SUFFICES ASSUME SumsInv, [Next]_vars PROVE Sent'
  OBVIOUS
<1> USE DEF SumsInv
<1>0. drive \in [DriveIds -> Bytes \cup {NoBytes}]
  BY DEF IndInv, TypeOK
<1>1. CASE ~UploaderStep
  <2>1. UNCHANGED drive /\ (uploader' = uploader \/ uploader' = Resting)
    BY <1>1, OtherStep DEF IndInv
  <2>2. CASE uploader' = uploader
    BY <2>1, <2>2 DEF Sent
  <2>3. CASE uploader' = Resting
    BY <2>3 DEF Sent, Resting
  <2> QED BY <2>1, <2>2, <2>3
\* The entry is left behind, or the next one not begun.
<1>2. ASSUME NEW q, uploader' = Turning(q) PROVE Sent'
  BY <1>2, UploaderRecord DEF Sent
<1>3. CASE Snapshot \/ SendFails \/ Publish \/ Replace \/ Forget
  BY <1>2, <1>3 DEF Snapshot, SendFails, Publish, Replace, Forget
<1>4. ASSUME NEW id \in Ids, Load(id) PROVE Sent'
  <2>1. CASE uploader' = Turning(uploader.queue \ {id})
    BY <1>2, <2>1
  <2>2. CASE uploader' = [phase |-> "send", queue |-> uploader.queue \ {id},
                          id |-> id, newId |-> NoId,
                          bytes |-> content[CacheKey(id)]]
    BY <2>2 DEF Sent
  <2> QED BY <1>4, <2>1, <2>2 DEF Load
<1>5. CASE SendUpdate
  <2>1. /\ uploader.newId = NoId /\ uploader.id \in DriveIds
        /\ drive' = [drive EXCEPT ![uploader.id] = uploader.bytes]
        /\ uploader' = Stage("clear", NoId)
    BY <1>5 DEF SendUpdate, Sent
  <2> QED BY <1>0, <2>1, UploaderRecord DEF Sent
<1>6. CASE SendCreate
  <2>1. PICK new \in SpareIds :
           /\ drive' = [drive EXCEPT ![new] = uploader.bytes]
           /\ uploader' = Stage("finalize", new)
    BY <1>6 DEF SendCreate
  <2>2. new # NoId /\ drive'[new] = uploader.bytes /\ uploader.id \in PendingIds
    BY <1>0, <1>6, <2>1, Apartness DEF SendCreate
  <2> QED BY <2>1, <2>2, UploaderRecord DEF Sent
<1>7. CASE SendParentGone \/ Abandon
  <2>1. /\ uploader.id \in PendingIds
        /\ uploader' = Stage("abandon", NoId) \/ uploader' = Stage("forget", NoId)
    BY <1>7 DEF SendParentGone, Abandon, Sent
  <2> QED BY <2>1, UploaderRecord DEF Sent
<1>8. CASE Clear
  <2>1. /\ uploader.newId = NoId /\ uploader.id \in DriveIds
        /\ drive[uploader.id] = uploader.bytes /\ UNCHANGED drive
        /\ uploader' = Stage(Settling, NoId)
    BY <1>8 DEF Clear, Sent
  <2>2. Settling \in {"migrate", "publish"}
    BY <2>1, Apartness DEF Settling
  <2> QED BY <2>1, <2>2, UploaderRecord DEF Sent
<1>9. CASE Finalize
  <2>1. /\ uploader.newId # NoId /\ uploader.id \in PendingIds
        /\ drive[uploader.newId] = uploader.bytes /\ UNCHANGED drive
        /\ uploader' = Stage(Settling, uploader.newId)
    BY <1>9 DEF Finalize, Sent
  <2>2. Settling \in {"migrate", "replace"}
    BY <2>1 DEF Settling
  <2> QED BY <2>1, <2>2, UploaderRecord DEF Sent
<1>10. CASE Migrate
  <2>1. /\ UNCHANGED drive
        /\ uploader' = Stage(IF uploader.id \in PendingIds THEN "replace"
                             ELSE "publish", uploader.newId)
        /\ uploader.newId = NoId =>
              uploader.id \in DriveIds /\ drive[uploader.id] = uploader.bytes
        /\ uploader.newId # NoId =>
              uploader.id \in PendingIds /\ drive[uploader.newId] = uploader.bytes
    BY <1>10 DEF Migrate, Sent
  <2>2. CASE uploader.newId = NoId
    <3>1. uploader' = Stage("publish", NoId)
      BY <2>1, <2>2, Apartness
    <3> QED BY <2>1, <2>2, <3>1, UploaderRecord DEF Sent
  <2>3. CASE uploader.newId # NoId
    <3>1. uploader' = Stage("replace", uploader.newId)
      BY <2>1, <2>3
    <3> QED BY <2>1, <2>3, <3>1, UploaderRecord DEF Sent
  <2> QED BY <2>2, <2>3
<1> QED BY <1>1, <1>3, <1>4, <1>5, <1>6, <1>7, <1>8, <1>9, <1>10 DEF UploaderStep

\* An upload begins on the entry that is loaded, and goes on with the id that
\* Drive has just given out.
LEMMA UploadingStep ==
  ASSUME SumsInv, [Next]_vars, NEW id \in Ids, Uploading(id)'
  PROVE  \/ Uploading(id)
         \/ Load(id)
         \/ id \in DriveIds /\ drive[id] = NoBytes
<1> USE DEF SumsInv
<1>0. NoId \notin Ids
  BY Apartness
<1>1. CASE ~UploaderStep
  <2>1. CASE uploader' = uploader
    BY <2>1 DEF Uploading
  <2>2. CASE uploader' = Resting
    BY <2>2 DEF Uploading, Resting
  <2> QED BY <1>1, <2>1, <2>2, OtherStep DEF IndInv
<1>2. ASSUME NEW q, uploader' = Turning(q) PROVE FALSE
  BY <1>2, UploaderRecord DEF Uploading
<1>3. CASE Snapshot \/ SendFails \/ Publish \/ Replace \/ Forget
  BY <1>2, <1>3 DEF Snapshot, SendFails, Publish, Replace, Forget
<1>4. ASSUME NEW i \in Ids, Load(i) PROVE Load(id)
  <2>1. uploader' = [phase |-> "send", queue |-> uploader.queue \ {i},
                     id |-> i, newId |-> NoId, bytes |-> content[CacheKey(i)]]
    BY <1>2, <1>4 DEF Load
  <2>2. i = id
    BY <1>0, <2>1 DEF Uploading
  <2> QED BY <1>4, <2>2
<1>5. CASE SendCreate
  <2>1. PICK new \in SpareIds :
           drive[new] = NoBytes /\ uploader' = Stage("finalize", new)
    BY <1>5 DEF SendCreate
  <2>2. id = uploader.id \/ id = new
    BY <2>1, UploaderRecord DEF Uploading
  <2>3. uploader.phase \notin {"idle", "pick"}
    BY <1>5 DEF SendCreate
  <2> QED BY <2>1, <2>2, <2>3, Apartness DEF Uploading
<1>6. CASE SendUpdate \/ SendParentGone \/ Clear \/ Finalize \/ Migrate \/ Abandon
  <2>1. uploader.phase \notin {"idle", "pick"}
    BY <1>6 DEF SendUpdate, SendParentGone, Clear, Finalize, Migrate, Abandon
  <2>2. uploader'.id = uploader.id /\ uploader'.newId \in {uploader.newId, NoId}
    BY <1>6, UploaderRecord
       DEF SendUpdate, SendParentGone, Clear, Finalize, Migrate, Abandon
  <2> QED BY <1>0, <2>1, <2>2 DEF Uploading
<1> QED BY <1>1, <1>3, <1>4, <1>5, <1>6 DEF UploaderStep

LEMMA CallbacksApartStep ==
  UploadsApart /\ SumsInv /\ [Next]_vars => CallbacksApart'
<1> SUFFICES ASSUME UploadsApart, SumsInv, [Next]_vars, NEW h \in Handles,
                    handle'[h].phase \in Started
             PROVE  /\ ~Uploading(handle[h].id)'
                    /\ handle'[h].phase = "fetch" => handle'[h].id \in DriveIds
  BY DEF CallbacksApart, Started
<1> USE DEF SumsInv
<1>1. handle'[h].id \in Ids
  BY HandleShapeStep DEF IndInv, HandleShape, Started
<1>2. PICK id \in Ids : id = handle'[h].id
  BY <1>1
<1>3. CASE /\ handle[h].phase \in Started /\ handle[h].id = id
           /\ handle'[h].phase = "fetch" => handle[h].phase = "fetch"
  <2>1. ~Uploading(id) /\ (handle'[h].phase = "fetch" => id \in DriveIds)
    BY <1>3 DEF CallbacksApart
  <2>2. InCallback(id)
    BY <1>3 DEF InCallback, Started
  <2>3. ~Load(id)
    BY <2>2 DEF Load, UploadsApart
  <2>4. ~(id \in DriveIds /\ drive[id] = NoBytes)
    BY <1>3 DEF IndInv, Existing
  <2>5. ~Uploading(id)'
    BY <2>1, <2>3, <2>4, UploadingStep
  <2> QED BY <1>2, <2>1, <2>5 DEF Uploading
<1>4. CASE /\ MayAccess(id) /\ UNCHANGED uploader
           /\ handle'[h].phase = "fetch" => id \in DriveIds
  <2>1. ~Uploading(id)
    BY <1>4 DEF MayAccess, UploadsApart
  <2> QED BY <1>2, <1>4, <2>1 DEF Uploading
<1> QED BY <1>2, <1>3, <1>4, CallbackStep

\* Drive's copy of a file stays as it is while no upload of it is under way.
LEMMA DriveUntouched ==
  ASSUME SumsInv, [Next]_vars, NEW id \in DriveIds, ~Uploading(id),
         drive[id] # NoBytes
  PROVE  drive'[id] = drive[id]
<1> USE DEF SumsInv
<1>1. CASE ~UploaderStep
  BY <1>1, OtherStep DEF IndInv
<1>2. CASE UploaderStep
  <2>1. \/ UNCHANGED drive
        \/ \E i \in DriveIds : /\ i = uploader.id \/ drive[i] = NoBytes
                               /\ uploader.phase = "send"
                               /\ drive' = [drive EXCEPT ![i] = uploader.bytes]
    BY <1>2, Apartness
       DEF UploaderStep, Snapshot, Load, SendUpdate, SendCreate, SendFails,
           SendParentGone, Clear, Finalize, Migrate, Publish, Replace,
           Abandon, Forget
  <2>2. uploader.phase = "send" => id # uploader.id
    BY DEF Uploading
  <2> QED BY <2>1, <2>2 DEF IndInv, TypeOK
<1> QED BY <1>1, <1>2

LEMMA DownloadFreshStep ==
  UploadsApart /\ SumsInv /\ [Next]_vars => DownloadFresh'
<1> SUFFICES ASSUME UploadsApart, SumsInv, [Next]_vars, worker' # NoDownload
             PROVE  /\ worker'.id \in DriveIds /\ worker'.bytes = drive'[worker'.id]
                    /\ ~Uploading(worker.id)'
  BY DEF DownloadFresh
<1> USE DEF SumsInv
<1>1. CASE UNCHANGED worker
  <2>1. PICK id \in DriveIds : id = worker.id
    BY <1>1 DEF DownloadFresh
  <2>2. worker.bytes = drive[id] /\ worker.bytes \in Bytes /\ ~Uploading(id)
    BY <1>1, <2>1 DEF DownloadFresh, IndInv, TypeOK
  <2>3. drive[id] # NoBytes /\ id \in Ids /\ id # NoId
    BY <2>2, Apartness
  <2>4. ~Load(id)
    BY <2>1 DEF Load, UploadsApart
  <2>5. ~Uploading(id)'
    BY <2>2, <2>3, <2>4, UploadingStep
  <2>6. drive'[id] = drive[id]
    BY <2>2, <2>3, DriveUntouched
  <2> QED BY <1>1, <2>1, <2>2, <2>5, <2>6 DEF Uploading
<1>2. ASSUME NEW id \in DriveIds, Fetch(id)
      PROVE  /\ worker'.id \in DriveIds /\ worker'.bytes = drive'[worker'.id]
             /\ ~Uploading(worker.id)'
  <2>1. worker' = [id |-> id, bytes |-> drive[id]] /\ UNCHANGED <<drive, uploader>>
    BY <1>2 DEF Fetch
  <2>2. ~Uploading(id)
    <3>1. CASE \E h \in Handles : handle[h].phase = "fetch" /\ handle[h].id = id
      BY <3>1 DEF CallbacksApart, Started
    <3>2. CASE MayAccess(id)
      BY <3>2 DEF MayAccess, UploadsApart
    <3> QED BY <1>2, <3>1, <3>2 DEF Fetch
  <2> QED BY <2>1, <2>2 DEF Uploading
<1>3. CASE StoreFetched \/ Crash
  <2>1. worker' = NoDownload
    BY <1>3 DEF StoreFetched, Crash
  <2> QED BY <2>1 DEF NoDownload
<1> QED BY <1>1, <1>2, <1>3
        DEF Next, vars, OpenCall, Callback, OpenHit, OpenMiss, Create, OpenSeed,
            OpenUnseeded, Mark, Write, Flush, Release, ReleaseEmpty,
            UploaderStep, Snapshot, Load, SendUpdate, SendCreate, SendFails,
            SendParentGone, Clear, Finalize, Migrate, Publish, Replace, Abandon,
            Forget, List, StoreListed, CheckVictim, Evict

LEMMA ListingFreshStep ==
  UploadsApart /\ SumsInv /\ [Next]_vars => ListingFresh'
<1> SUFFICES ASSUME UploadsApart, SumsInv, [Next]_vars, answer' # NoAnswer
             PROVE  /\ answer'.id \in DriveIds /\ drive'[answer'.id] # NoBytes
                    /\ answer'.sum \in {NoBytes, drive'[answer'.id]}
                    /\ ~Uploading(answer.id)'
  BY DEF ListingFresh
<1> USE DEF SumsInv
<1>1. CASE UNCHANGED answer
  <2>1. PICK id \in DriveIds : id = answer.id
    BY <1>1 DEF ListingFresh
  <2>2. /\ drive[id] # NoBytes /\ answer.sum \in {NoBytes, drive[id]}
        /\ ~Uploading(id)
    BY <1>1, <2>1 DEF ListingFresh
  <2>3. id \in Ids
    BY Apartness
  <2>4. ~Load(id)
    BY <2>1 DEF Load, UploadsApart
  <2>5. ~Uploading(id)'
    BY <2>2, <2>3, <2>4, UploadingStep
  <2>6. drive'[id] = drive[id]
    BY <2>2, DriveUntouched
  <2> QED BY <1>1, <2>1, <2>2, <2>5, <2>6 DEF Uploading
<1>2. ASSUME NEW id \in DriveIds, List(id)
      PROVE  /\ answer'.id \in DriveIds /\ drive'[answer'.id] # NoBytes
             /\ answer'.sum \in {NoBytes, drive'[answer'.id]}
             /\ ~Uploading(answer.id)'
  <2>1. PICK sum \in {drive[id], NoBytes} : answer' = [id |-> id, sum |-> sum]
    BY <1>2 DEF List
  <2>2. UNCHANGED <<drive, uploader>> /\ drive[id] # NoBytes /\ ~Uploading(id)
    BY <1>2 DEF List, UploadsApart
  <2> QED BY <2>1, <2>2 DEF Uploading
<1>3. CASE StoreListed \/ Crash
  BY <1>3 DEF StoreListed, Crash
<1> QED BY <1>1, <1>2, <1>3
        DEF Next, vars, OpenCall, Callback, OpenHit, OpenMiss, Create, OpenSeed,
            OpenUnseeded, Mark, Write, Flush, Release, ReleaseEmpty,
            UploaderStep, Snapshot, Load, SendUpdate, SendCreate, SendFails,
            SendParentGone, Clear, Finalize, Migrate, Publish, Replace, Abandon,
            Forget, Fetch, StoreFetched, CheckVictim, Evict

\* What a step may put under a key: the buffer of a handle, a download, or the
\* local copy of the entry under upload.
LEMMA ContentStep ==
  ASSUME SumsInv, [Next]_vars, NEW k \in Keys
  PROVE  \/ content'[k] \in {content[k], NoBytes}
         \/ k \in Ids /\ MayAccess(k) /\ UNCHANGED uploader
         \/ /\ worker # NoDownload /\ k = CacheKey(worker.id)
            /\ content'[k] = worker.bytes /\ UNCHANGED uploader
         \/ /\ uploader.phase \in {"finalize", "migrate"}
            /\ content'[k] = content[uploader.id]
            /\ \/ k = AnsweredSum
               \/ uploader.newId # NoId /\ k = uploader.newId
<1> DEFINE Goal ==
      \/ content'[k] \in {content[k], NoBytes}
      \/ k \in Ids /\ MayAccess(k) /\ UNCHANGED uploader
      \/ /\ worker # NoDownload /\ k = CacheKey(worker.id)
         /\ content'[k] = worker.bytes /\ UNCHANGED uploader
      \/ /\ uploader.phase \in {"finalize", "migrate"}
         /\ content'[k] = content[uploader.id]
         /\ \/ k = AnsweredSum
            \/ uploader.newId # NoId /\ k = uploader.newId
<1> USE DEF SumsInv
<1>0. content \in [Keys -> Bytes \cup {NoBytes}]
  BY DEF IndInv, TypeOK
<1>1. ASSUME NEW h \in Handles, Flush(h) PROVE Goal
  <2>1. handle[h].id \in Ids
    BY <1>1 DEF Flush, IndInv, HandleShape
  <2> QED BY <1>0, <1>1, <2>1 DEF Flush
<1>2. ASSUME NEW h \in Handles, Release(h) PROVE Goal
  <2>1. /\ Target(h) \in Ids /\ MayAccess(Target(h)) /\ UNCHANGED uploader
        /\ content' = [content EXCEPT ![Target(h)] = handle[h].bytes]
    BY <1>2, Apartness DEF Release, Target, IndInv, HandleShape
  <2> QED BY <1>0, <2>1
<1>3. CASE StoreFetched
  BY <1>0, <1>3 DEF StoreFetched
<1>4. CASE Finalize
  <2>1. PICK new : /\ content' \in BlobRenamed(uploader.id, new)
                   /\ new = AnsweredSum \/ new = uploader.newId
    BY <1>4 DEF Finalize
  <2>2. uploader.phase = "finalize" /\ uploader.newId # NoId
    BY <1>4 DEF Finalize, Sent
  <2>3. \/ content'[k] \in {content[k], NoBytes}
        \/ k = new /\ content'[k] = content[uploader.id]
    BY <1>0, <2>1 DEF BlobRenamed
  <2>4. CASE k = new /\ content'[k] = content[uploader.id]
    BY <2>1, <2>2, <2>4
  <2> QED BY <2>3, <2>4
<1>5. CASE Migrate
  <2>1. uploader.phase = "migrate"
    BY <1>5 DEF Migrate
  <2>2. \/ content'[k] \in {content[k], NoBytes}
        \/ k = AnsweredSum /\ content'[k] = content[uploader.id]
    BY <1>0, <1>5 DEF Migrate
  <2> QED BY <2>1, <2>2
<1>6. CASE Evict \/ Crash
  BY <1>0, <1>6 DEF Evict, Crash
<1>7. CASE UNCHANGED content
  BY <1>7
<1> QED BY <1>1, <1>2, <1>3, <1>4, <1>5, <1>6, <1>7
        DEF Next, vars, OpenCall, Callback, OpenHit, OpenMiss, Create, OpenSeed,
            OpenUnseeded, Mark, Write, ReleaseEmpty, UploaderStep, Snapshot,
            Load, SendUpdate, SendCreate, SendFails, SendParentGone, Clear,
            Publish, Replace, Abandon, Forget, Fetch, List, StoreListed,
            CheckVictim

\* The keys of a download, and of an answer, are not the id under upload.
LEMMA LocalCopyStays ==
  ASSUME UploadsApart, SumsInv, [Next]_vars,
         uploader.phase \in {"send", "clear", "finalize", "migrate"}
  PROVE  content'[uploader.id] \in {content[uploader.id], NoBytes}
<1> USE DEF SumsInv
<1>1. uploader.id \in Ids /\ uploader.id \in Keys
  BY Apartness DEF IndInv, UploaderShape
<1>2. PICK k \in Keys : k = uploader.id
  BY <1>1
<1>3. ~MayAccess(k)
  BY <1>2 DEF MayAccess, UploadsApart, Uploading
<1>4. ASSUME worker # NoDownload PROVE k # CacheKey(worker.id)
  <2>1. worker.id \in DriveIds /\ worker.id # k
    BY <1>2, <1>4 DEF DownloadFresh, Uploading
  <2>2. CacheKey(worker.id) \in {worker.id} \cup Bytes
    BY <2>1, Apartness DEF CacheKey, IndInv, TypeOK
  <2> QED BY <1>1, <1>2, <2>1, <2>2, Apartness
<1>5. k # AnsweredSum
  BY <1>1, <1>2, AnswerTypes, Apartness DEF IndInv
<1>6. uploader.newId # NoId => k # uploader.newId
  BY <1>2, UploaderRecord, Apartness DEF Sent
<1> QED BY <1>2, <1>3, <1>4, <1>5, <1>6, ContentStep

LEMMA LocalCopyStep ==
  UploadsApart /\ SumsInv /\ [Next]_vars => LocalCopy'
<1> DEFINE Loaded(ph) == ph \in {"send", "clear", "finalize", "migrate"}
<1> SUFFICES ASSUME UploadsApart, SumsInv, [Next]_vars, Loaded(uploader'.phase)
             PROVE  content'[uploader'.id] \in {uploader'.bytes, NoBytes}
  BY DEF LocalCopy
<1> USE DEF SumsInv
\* The entry stays in hand.
<1>1. ASSUME Loaded(uploader.phase), uploader'.id = uploader.id,
             uploader'.bytes = uploader.bytes
      PROVE  content'[uploader'.id] \in {uploader'.bytes, NoBytes}
  BY <1>1, LocalCopyStays DEF LocalCopy
<1>2. CASE ~UploaderStep
  <2>1. CASE uploader' = uploader
    BY <1>1, <2>1
  <2>2. CASE uploader' = Resting
    BY <2>2 DEF Resting
  <2> QED BY <1>2, <2>1, <2>2, OtherStep DEF IndInv
<1>3. ASSUME NEW q, uploader' = Turning(q) PROVE FALSE
  BY <1>3, UploaderRecord
<1>4. CASE Snapshot \/ SendFails \/ Publish \/ Replace \/ Forget
  BY <1>3, <1>4 DEF Snapshot, SendFails, Publish, Replace, Forget
<1>5. ASSUME NEW id \in Ids, Load(id)
      PROVE  content'[uploader'.id] \in {uploader'.bytes, NoBytes}
  <2>1. uploader' = [phase |-> "send", queue |-> uploader.queue \ {id},
                     id |-> id, newId |-> NoId, bytes |-> content[CacheKey(id)]]
    BY <1>3, <1>5 DEF Load
  <2>2. CacheKey(id) = id
    BY <1>5 DEF Load, IndInv, UploaderShape, Dirty, CacheKey
  <2>3. UNCHANGED content
    BY <1>5 DEF Load
  <2> QED BY <2>1, <2>2, <2>3
<1>6. CASE SendUpdate \/ SendCreate \/ Clear \/ Finalize
  <2>1. Loaded(uploader.phase)
    BY <1>6 DEF SendUpdate, SendCreate, Clear, Finalize
  <2>2. uploader'.id = uploader.id /\ uploader'.bytes = uploader.bytes
    BY <1>6, UploaderRecord DEF SendUpdate, SendCreate, Clear, Finalize
  <2> QED BY <1>1, <2>1, <2>2
<1>7. CASE SendParentGone \/ Migrate \/ Abandon
  BY <1>7, UploaderRecord DEF SendParentGone, Migrate, Abandon
<1> QED BY <1>2, <1>4, <1>5, <1>6, <1>7 DEF UploaderStep

LEMMA CasSoundStep ==
  UploadsApart /\ SumsInv /\ [Next]_vars => CasSound'
<1> SUFFICES ASSUME UploadsApart, SumsInv, [Next]_vars, NEW b \in Bytes
             PROVE  content'[b] \in {b, NoBytes}
  BY DEF CasSound
<1> USE DEF SumsInv
<1>1. b \in Keys /\ b \notin Ids /\ content[b] \in {b, NoBytes}
  BY Apartness DEF CasSound
<1>2. CASE worker # NoDownload /\ b = CacheKey(worker.id) /\ content'[b] = worker.bytes
  <2>1. /\ worker.id \in DriveIds /\ ~Uploading(worker.id)
        /\ worker.bytes = drive[worker.id]
    BY <1>2 DEF DownloadFresh
  <2>2. /\ row[worker.id] # "dirty" /\ md5Of[worker.id] # NoBytes
        /\ b = md5Of[worker.id]
    BY <1>1, <1>2, <2>1, Apartness DEF CacheKey
  <2>3. md5Of[worker.id] = drive[worker.id]
    BY <2>1, <2>2 DEF KnownSums
  <2> QED BY <1>2, <2>1, <2>2, <2>3
<1>3. CASE /\ uploader.phase \in {"finalize", "migrate"}
           /\ content'[b] = content[uploader.id]
           /\ \/ b = AnsweredSum
              \/ uploader.newId # NoId /\ b = uploader.newId
  <2>1. b = AnsweredSum
    BY <1>1, <1>3, UploaderRecord, Apartness
  <2>2. b = uploader.bytes
    BY <2>1, AnswerTypes, Apartness DEF IndInv
  <2> QED BY <1>3, <2>2 DEF LocalCopy
<1> QED BY <1>1, <1>2, <1>3, ContentStep

LEMMA KnownSumsStep == SumsInv /\ [Next]_vars => KnownSums'
<1> SUFFICES ASSUME SumsInv, [Next]_vars, NEW id \in DriveIds
             PROVE  \/ md5Of'[id] \in {NoBytes, drive'[id]}
                    \/ row'[id] = "dirty" \/ Uploading(id)'
  BY DEF KnownSums
<1> DEFINE Known == \/ md5Of'[id] \in {NoBytes, drive'[id]}
                    \/ row'[id] = "dirty" \/ Uploading(id)'
<1> USE DEF SumsInv
<1>0. /\ md5Of \in [Ids -> Bytes \cup {NoBytes}]
      /\ row \in [Ids -> {"none", "clean", "dirty"}]
      /\ drive \in [DriveIds -> Bytes \cup {NoBytes}]
      /\ id \in Ids /\ id # NoId /\ id \notin PendingIds
  BY Apartness DEF IndInv, TypeOK
<1>1. \/ md5Of[id] \in {NoBytes, drive[id]}
      \/ row[id] = "dirty" \/ Uploading(id)
  BY DEF KnownSums
\* Nothing changes for this file.
<1>2. ASSUME UNCHANGED md5Of, drive'[id] = drive[id],
             row[id] = "dirty" => row'[id] = "dirty", ~Uploading(id)
      PROVE  Known
  BY <1>1, <1>2
<1>3. CASE ~UploaderStep
  <2>0. UNCHANGED drive /\ (row[id] = "dirty" => row'[id] = "dirty")
    BY <1>0, <1>3, OtherStep DEF IndInv
  <2>1. CASE StoreListed
    <3>1. /\ answer.id \in DriveIds /\ answer.sum \in {NoBytes, drive[answer.id]}
          /\ md5Of' = [md5Of EXCEPT ![answer.id] = answer.sum]
          /\ UNCHANGED uploader
      BY <2>1 DEF StoreListed, ListingFresh
    <3>2. CASE answer.id = id
      BY <1>0, <2>0, <3>1, <3>2
    <3>3. CASE answer.id # id
      <4>1. md5Of'[id] = md5Of[id]
        BY <1>0, <3>1, <3>3
      <4> QED BY <1>1, <2>0, <3>1, <4>1 DEF Uploading
    <3> QED BY <3>2, <3>3
  <2>2. CASE Crash
    BY <1>0, <2>2 DEF Crash
  <2>3. CASE UNCHANGED <<md5Of, uploader>>
    BY <1>1, <2>0, <2>3 DEF Uploading
  <2> QED BY <1>3, <2>1, <2>2, <2>3
          DEF Next, vars, OpenCall, Callback, OpenHit, OpenMiss, Create,
              OpenSeed, OpenUnseeded, Mark, Write, Flush, Release,
              ReleaseEmpty, Fetch, List, StoreFetched, CheckVictim, Evict
<1>4. CASE Snapshot \/ \E i \in Ids : Load(i)
  <2>1. ~Uploading(id)
    BY <1>4 DEF Snapshot, Load, Uploading
  <2>2. UNCHANGED <<md5Of, drive, row>>
    BY <1>4 DEF Snapshot, Load
  <2> QED BY <1>2, <2>1, <2>2
<1>5. CASE SendUpdate
  <2>1. /\ uploader.newId = NoId /\ UNCHANGED <<md5Of, row>>
        /\ drive' = [drive EXCEPT ![uploader.id] = uploader.bytes]
        /\ uploader'.phase = "clear" /\ uploader'.id = uploader.id
    BY <1>5, UploaderRecord DEF SendUpdate, Sent
  <2>2. CASE id = uploader.id
    BY <2>1, <2>2 DEF Uploading
  <2>3. CASE id # uploader.id
    BY <1>0, <1>2, <2>1, <2>3 DEF Uploading
  <2> QED BY <2>2, <2>3
<1>6. CASE SendCreate
  <2>1. PICK new \in SpareIds :
           /\ drive' = [drive EXCEPT ![new] = uploader.bytes]
           /\ uploader' = Stage("finalize", new)
    BY <1>6 DEF SendCreate
  <2>2. /\ uploader.newId = NoId /\ uploader.id \in PendingIds
        /\ UNCHANGED <<md5Of, row>>
    BY <1>6 DEF SendCreate, Sent
  <2>3. CASE id = new
    BY <2>1, <2>3, UploaderRecord DEF Uploading
  <2>4. CASE id # new
    BY <1>0, <1>2, <2>1, <2>2, <2>4 DEF Uploading
  <2> QED BY <2>3, <2>4
<1>7. CASE SendFails
  <2>1. /\ uploader.newId = NoId /\ row[uploader.id] = "dirty"
        /\ UNCHANGED <<md5Of, row>>
    BY <1>7 DEF SendFails, Sent, IndInv, UploaderShape
  <2>2. CASE id = uploader.id
    BY <2>1, <2>2
  <2>3. CASE id # uploader.id
    <3>1. ~Uploading(id)
      BY <1>0, <2>1, <2>3 DEF Uploading
    <3>2. drive'[id] = drive[id] \/ drive[id] = NoBytes
      BY <1>0, <1>7, <2>3 DEF SendFails
    <3> QED BY <1>1, <2>1, <3>1, <3>2
  <2> QED BY <2>2, <2>3
\* The entry stays in hand, and no other row stops being dirty.
<1>8. CASE SendParentGone \/ Clear \/ Finalize \/ Migrate \/ Abandon
  <2>1. /\ UNCHANGED <<md5Of, drive>>
        /\ uploader'.phase \notin {"idle", "pick"}
        /\ uploader'.id = uploader.id
        /\ uploader'.newId = uploader.newId
    BY <1>8, UploaderRecord, AnswerTypes
       DEF SendParentGone, Clear, Finalize, Migrate, Abandon, Sent, IndInv
  <2>2. id # uploader.id /\ row[id] = "dirty" => row'[id] = "dirty"
    BY <1>0, <1>8 DEF SendParentGone, Clear, Finalize, Migrate, Abandon
  <2>3. uploader.phase \notin {"idle", "pick"}
    BY <1>8 DEF SendParentGone, Clear, Finalize, Migrate, Abandon
  <2> QED BY <1>1, <2>1, <2>2, <2>3 DEF Uploading
<1>9. CASE Publish
  <2>1. /\ uploader.newId = NoId /\ drive[uploader.id] = uploader.bytes
        /\ md5Of' = [md5Of EXCEPT ![uploader.id] = AnsweredSum]
        /\ UNCHANGED <<drive, row>>
    BY <1>9 DEF Publish, Sent
  <2>2. CASE id = uploader.id
    BY <1>0, <2>1, <2>2, AnswerTypes DEF IndInv
  <2>3. CASE id # uploader.id
    BY <1>0, <1>1, <2>1, <2>3 DEF Uploading
  <2> QED BY <2>2, <2>3
<1>10. CASE Replace
  <2>1. /\ uploader.newId # NoId
        /\ uploader.id \in PendingIds /\ drive[uploader.newId] = uploader.bytes
        /\ md5Of' = [md5Of EXCEPT ![uploader.newId] = AnsweredSum]
        /\ UNCHANGED <<drive, row>>
    BY <1>10 DEF Replace, Sent
  <2>2. CASE id = uploader.newId
    BY <1>0, <2>1, <2>2, AnswerTypes DEF IndInv
  <2>3. CASE id # uploader.newId
    BY <1>0, <1>1, <2>1, <2>3 DEF Uploading
  <2> QED BY <2>2, <2>3
<1>11. CASE Forget
  <2>1. /\ uploader.newId = NoId /\ uploader.id \in PendingIds
        /\ UNCHANGED <<md5Of, drive, row>>
    BY <1>11 DEF Forget, Sent
  <2>2. ~Uploading(id)
    BY <1>0, <2>1 DEF Uploading
  <2> QED BY <1>2, <2>1, <2>2
<1> QED BY <1>3, <1>4, <1>5, <1>6, <1>7, <1>8, <1>9, <1>10, <1>11
        DEF UploaderStep

\* An MD5 key, which every file of that content shares, holds the bytes it is the
\* sum of: no eviction, second handle, lost answer, crash or restart puts other
\* bytes there, when uploads and downloads for read() keep apart from the
\* callbacks on the same file, and listings, from the request to the storing of
\* the answer, from its uploads (store_content, store_dir_listing,
\* migrate_cache_key, finalize_new_file).
THEOREM SumsNameTheirBytes ==
  ASSUME UploadsApart
  PROVE  Spec => []CasSound
<1>1. Init => SumsInv
  BY SumsInit
<1>2. IndInv /\ [Next]_vars => IndInv'
  BY TypeStep, EntryInHand, HandleShapeStep, UploaderShapeStep, ExistingStep,
     CleanRowStep
     DEF IndInv
<1>3. SumsInv /\ [Next]_vars => SumsInv'
  BY <1>2, SentStep, LocalCopyStep, CallbacksApartStep, DownloadFreshStep,
     ListingFreshStep, KnownSumsStep, CasSoundStep
     DEF SumsInv
<1>4. SumsInv => CasSound
  BY DEF SumsInv
<1> QED BY <1>1, <1>3, <1>4, PTL DEF Spec

=============================================================================
