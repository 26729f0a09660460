-------------------------- MODULE SyncManagerProofs --------------------------
(***************************************************************************)
(* What TLAPS proves about SyncManager, for any files, ids, handles and    *)
(* contents, any edits and deletions by other clients and any number of    *)
(* crashes: the types with every disturbance, RowsCatchUp unless an upload *)
(* overlaps a callback, or a change of the poller's, on the same file.     *)
(*                                                                         *)
(* RowsCatchUp is not inductive.  A row may be out of date while the feed  *)
(* has yet to tell of its file; what is in flight must then be right: the  *)
(* changes fetched and not applied (FreshChanges), the checksum that an    *)
(* upload is about to record (UploadTold), and the change in hand.         *)
(***************************************************************************)
EXTENDS SyncManager, WriteBackProofs

UploadsWait == "upload" \notin Disturbances

\* Types, and what the write-back path needs for them.
Shapes == SyncTypeOK /\ HandleShape /\ InHand

Changes == {"drop", "refresh", "upsert"}

\* The changes of an answer are among those after the stored token.
PollerShape ==
    /\ poller.phase = "idle" => since = {} /\ batch = {}
    /\ poller.phase # "idle" => token
    /\ poller.phase \in Changes =>
          poller.change.id \in DriveIds /\ poller.change.id \in unseen
    /\ \A c \in batch : c.id \in unseen

\* A later answer tells of id, or none will, by way of a fresh token.
Covered(id) == id \in gone \cup missed \cup since

\* What the poller has yet to apply brings the present state of id.
Told(id) ==
    \/ Covered(id)
    \/ poller.phase = "idle" /\ id \in unseen
    \/ \E c \in batch : c.id = id /\ c.bytes = drive[id]

\* A change in flight is Drive's state, or a later one is announced.
FreshChanges ==
    /\ \A c \in batch : c.bytes = drive[c.id] \/ Covered(c.id)
    /\ poller.phase \in Changes =>
          \/ poller.change.bytes = drive[poller.change.id]
          \/ Covered(poller.change.id)

\* The checksum an upload is about to record is Drive's, or the poller tells.
UploadTold ==
    /\ uploader.phase = "clear" /\ uploader.id \in DriveIds =>
          drive[uploader.id] = uploader.bytes \/ Told(uploader.id)
    /\ uploader.phase = "finalize" =>
          drive[uploader.newId] = uploader.bytes \/ Told(uploader.newId)

\* A clean row is right, or the poller tells, now or with the change in hand.
RowTold(id) ==
    row[id] = "clean" =>
        \/ rowMd5[id] \in {NoBytes, drive[id]}
        \/ Told(id)
        \/ /\ poller.phase \in Changes /\ poller.change.id = id
           /\ poller.change.bytes = drive[id]
RowsTold == \A id \in DriveIds : RowTold(id)

\* The inductive invariant.
SyncInv == Shapes /\ PollerShape /\ FreshChanges /\ UploadTold /\ RowsTold

-----------------------------------------------------------------------------
(* Types.                                                                   *)

Change == [id : DriveIds, bytes : Bytes \cup {NoBytes}]
PollerState ==
    [phase : {"idle", "apply", "drop", "refresh", "upsert"},
     change : [id : DriveIds \cup {NoId}, bytes : Bytes \cup {NoBytes}]]

LEMMA PollerTypes ==
  /\ Waiting \in PollerState
  /\ \A ph \in {"idle", "apply", "drop", "refresh", "upsert"}, c \in Change :
        PollerAt(ph, c) \in PollerState
  /\ PollerAt("apply", NoChange) \in PollerState
BY DEF Waiting, PollerAt, NoChange, PollerState, Change

LEMMA ShapesInit == SyncInit => Shapes
<1> SUFFICES ASSUME SyncInit PROVE Shapes
  OBVIOUS
<1>1. TypeOK /\ HandleShape /\ InHand
  BY InitHolds, EntryInHand DEF SyncInit, IndInv
<1> QED BY <1>1, PollerTypes, RemoteAssumption
        DEF SyncInit, Shapes, SyncTypeOK, PollerState

LEMMA FeedTypes ==
  ASSUME SyncTypeOK, NEW ids \in SUBSET DriveIds, Announce(ids)
  PROVE  unseen' \subseteq DriveIds /\ since' \subseteq DriveIds
         /\ missed' \subseteq DriveIds
BY DEF SyncTypeOK, Announce

\* What the steps of the write-back path keep for its own variables.
LEMMA PathShapes ==
  ASSUME Shapes, [Next]_vars PROVE TypeOK' /\ HandleShape' /\ InHand'
BY TypeStep, HandleShapeStep, InHandStep DEF Shapes, SyncTypeOK

\* The steps that leave handles and uploader alone keep the rest by their types.
LEMMA PathKept ==
  ASSUME Shapes, UNCHANGED <<idOf, handle, uploader, cleaner, worker, answer, mounted,
                             writes, crashes>>,
         md5Of' \in [Ids -> Bytes \cup {NoBytes}],
         row' \in [Ids -> {"none", "clean", "dirty"}],
         rowFile' \in [Ids -> Files \cup {NoFile}],
         rowMd5' \in [Ids -> Bytes \cup {NoBytes}],
         content' \in [Keys -> Bytes \cup {NoBytes}],
         drive' \in [DriveIds -> Bytes \cup {NoBytes}],
         accepted' \in [Files -> SUBSET Bytes]
  PROVE  TypeOK' /\ HandleShape' /\ InHand'
<1>1. TypeOK'
  BY DEF Shapes, SyncTypeOK, TypeOK
<1>2. HandleShape' /\ InHand'
  BY DEF Shapes, HandleShape, InHand
<1> QED BY <1>1, <1>2

\* Only an upload that succeeds leads to the recording of its outcome.
LEMMA OutcomeStep ==
  ASSUME TypeOK, HandleShape, [Next]_vars
  PROVE  /\ uploader'.phase = "clear" => SendUpdate \/ UNCHANGED uploader
         /\ uploader'.phase = "finalize" => SendCreate \/ UNCHANGED uploader
<1>1. CASE ~UploaderStep
  BY <1>1, OtherStep DEF Resting
<1>2. CASE Snapshot \/ SendFails \/ Publish \/ Replace \/ Forget
              \/ \E id \in Ids : Load(id)
  BY <1>2 DEF Snapshot, Load, SendFails, Publish, Replace, Forget, Turning
<1>3. CASE SendUpdate \/ SendCreate
  BY <1>3 DEF SendUpdate, SendCreate, Stage
<1>4. CASE SendParentGone \/ Clear \/ Finalize \/ Migrate \/ Abandon
  BY <1>4, AnswerTypes DEF SendParentGone, Clear, Finalize, Migrate, Abandon, Stage
<1> QED BY <1>1, <1>2, <1>3, <1>4 DEF UploaderStep

LEMMA TypeOfRemote ==
  ASSUME Shapes, NEW id \in DriveIds,
         RemoteDelete(id) \/ \E b \in Bytes : RemoteEdit(id, b)
  PROVE  Shapes'
<1> USE DEF Shapes
<1>1. /\ md5Of \in [Ids -> Bytes \cup {NoBytes}]
      /\ row \in [Ids -> {"none", "clean", "dirty"}]
      /\ rowFile \in [Ids -> Files \cup {NoFile}]
      /\ rowMd5 \in [Ids -> Bytes \cup {NoBytes}]
      /\ content \in [Keys -> Bytes \cup {NoBytes}]
  BY DEF SyncTypeOK, TypeOK
<1>2. UNCHANGED <<idOf, md5Of, row, rowFile, rowMd5, content, handle, uploader,
                  cleaner, worker, answer, mounted, writes, crashes, token, batch, poller>>
  BY DEF RemoteDelete, RemoteEdit
<1>3. /\ drive' \in [DriveIds -> Bytes \cup {NoBytes}]
      /\ accepted' \in [Files -> SUBSET Bytes]
  BY DEF SyncTypeOK, TypeOK, RemoteDelete, RemoteEdit
<1>4. gone' \subseteq DriveIds /\ remote' \in 0..MaxRemote
  BY RemoteAssumption DEF SyncTypeOK, RemoteDelete, RemoteEdit
<1>5. Announce({id})
  BY DEF RemoteDelete, RemoteEdit
<1>6. TypeOK' /\ HandleShape' /\ InHand'
  BY <1>1, <1>2, <1>3, PathKept
<1>7. unseen' \subseteq DriveIds /\ since' \subseteq DriveIds /\ missed' \subseteq DriveIds
  BY <1>5, FeedTypes
<1> QED BY <1>2, <1>4, <1>6, <1>7 DEF SyncTypeOK

\* The steps that belong to the write-back path.
LEMMA TypeOfLocal ==
  ASSUME Shapes, LocalStep \/ SyncCrash \/ \E h \in Handles : OpenGone(h)
  PROVE  Shapes'
<1> USE DEF Shapes
<1>1. CASE LocalStep
  <2>1. TypeOK' /\ HandleShape' /\ InHand'
    BY <1>1, PathShapes DEF LocalStep
  <2>2. Uploaded \in SUBSET DriveIds
    <3>1. uploader.phase = "send" /\ uploader'.phase = "clear" =>
             uploader.id \in DriveIds
      BY <1>1, OutcomeStep DEF LocalStep, SyncTypeOK, SendUpdate
    <3> QED BY <3>1 DEF Uploaded
  <2>3. unseen' \subseteq DriveIds /\ since' \subseteq DriveIds /\ missed' \subseteq DriveIds
    BY <1>1, <2>2, FeedTypes DEF LocalStep
  <2> QED BY <1>1, <2>1, <2>3 DEF LocalStep, SyncTypeOK
<1>2. CASE SyncCrash
  <2>1. TypeOK' /\ HandleShape' /\ InHand'
    BY <1>2, PathShapes DEF SyncCrash, Next
  <2> QED BY <1>2, <2>1, PollerTypes DEF SyncCrash, SyncTypeOK, PollerState
<1>3. ASSUME NEW h \in Handles, OpenGone(h) PROVE Shapes'
  <2>1. /\ handle[h] \in HandleState
        /\ handle[h].phase # "closed"
        /\ Filled(h, Empty, FALSE, FALSE) \in HandleState
    BY <1>3, HandleTypes, NamesAssumption DEF OpenGone, SyncTypeOK
  <2>2. handle' \in [Handles -> HandleState]
    BY <1>3, <2>1 DEF OpenGone, SyncTypeOK, TypeOK
  <2>3. TypeOK'
    BY <1>3, <2>2 DEF OpenGone, SyncTypeOK, TypeOK
  <2>4. HandleShape'
    BY <1>3, <2>1 DEF OpenGone, HandleShape, Filled, SyncTypeOK, TypeOK
  <2>5. InHand'
    BY <1>3 DEF OpenGone, InHand
  <2> QED BY <1>3, <2>3, <2>4, <2>5 DEF OpenGone, SyncTypeOK, feedVars
<1> QED BY <1>1, <1>2, <1>3

LEMMA TypeOfPoller ==
  ASSUME Shapes, PollerShape,
         \/ Bootstrap \/ GetChanges \/ Expired \/ StoreToken
         \/ \E c \in batch : TakeUp(c)
         \/ Drop \/ Refresh \/ Upsert
  PROVE  Shapes'
<1> USE DEF Shapes
<1>0. /\ md5Of \in [Ids -> Bytes \cup {NoBytes}]
      /\ row \in [Ids -> {"none", "clean", "dirty"}]
      /\ rowFile \in [Ids -> Files \cup {NoFile}]
      /\ rowMd5 \in [Ids -> Bytes \cup {NoBytes}]
      /\ content \in [Keys -> Bytes \cup {NoBytes}]
      /\ drive \in [DriveIds -> Bytes \cup {NoBytes}]
      /\ accepted \in [Files -> SUBSET Bytes]
      /\ poller \in PollerState
  BY DEF SyncTypeOK, TypeOK, PollerState
<1>1. CASE Bootstrap \/ GetChanges \/ Expired \/ StoreToken
  <2>1. UNCHANGED vars
    BY <1>1 DEF Bootstrap, GetChanges, Expired, StoreToken
  <2>2. TypeOK' /\ HandleShape' /\ InHand'
    BY <2>1, <1>0, PathKept DEF vars
  <2>3. /\ token' \in BOOLEAN /\ remote' \in 0..MaxRemote
        /\ unseen' \subseteq DriveIds /\ since' \subseteq DriveIds
        /\ gone' \subseteq DriveIds /\ missed' \subseteq DriveIds
    BY <1>1 DEF Bootstrap, GetChanges, Expired, StoreToken, SyncTypeOK
  <2>4. batch' \subseteq Change
    BY <1>0, <1>1 DEF Bootstrap, GetChanges, Expired, StoreToken, SyncTypeOK, Change
  <2>5. poller' \in PollerState
    BY <1>0, <1>1, PollerTypes DEF Bootstrap, GetChanges, Expired, StoreToken
  <2> QED BY <2>2, <2>3, <2>4, <2>5 DEF SyncTypeOK, Change, PollerState
<1>2. ASSUME NEW c \in batch, TakeUp(c) PROVE Shapes'
  <2>0. c \in Change /\ c.id \in Ids
    BY Apartness DEF SyncTypeOK, Change
  <2>1. UNCHANGED <<idOf, drive, handle, uploader, cleaner, worker, answer, mounted,
                    accepted, writes, crashes,
                    token, unseen, since, gone, missed, remote>>
    BY <1>2 DEF TakeUp
  <2>2. /\ row' \in [Ids -> {"none", "clean", "dirty"}]
        /\ rowFile' \in [Ids -> Files \cup {NoFile}]
        /\ rowMd5' \in [Ids -> Bytes \cup {NoBytes}]
        /\ md5Of' \in [Ids -> Bytes \cup {NoBytes}]
    BY <1>0, <1>2, <2>0 DEF TakeUp
  <2>3. content' \in [Keys -> Bytes \cup {NoBytes}]
    BY <1>0, <1>2 DEF TakeUp, Forgotten
  <2>4. TypeOK' /\ HandleShape' /\ InHand'
    BY <1>0, <2>1, <2>2, <2>3, PathKept
  <2>5. batch' \subseteq Change
    BY <1>2 DEF TakeUp, SyncTypeOK, Change
  <2>6. poller' \in PollerState
    BY <1>2, <2>0, PollerTypes DEF TakeUp
  <2> QED BY <2>1, <2>4, <2>5, <2>6 DEF SyncTypeOK, Change, PollerState
<1>3. CASE Drop \/ Refresh \/ Upsert
  <2>0. /\ poller.change.id \in Ids /\ poller.change \in Change
    BY <1>0, <1>3, Apartness
       DEF Drop, Refresh, Upsert, PollerShape, Changes, PollerState, Change
  <2>1. UNCHANGED <<idOf, drive, handle, uploader, cleaner, worker, answer, mounted,
                    accepted, writes, crashes,
                    token, unseen, since, batch, gone, missed, remote>>
    BY <1>3 DEF Drop, Refresh, Upsert
  <2>2. /\ row' \in [Ids -> {"none", "clean", "dirty"}]
        /\ rowMd5' \in [Ids -> Bytes \cup {NoBytes}]
        /\ md5Of' \in [Ids -> Bytes \cup {NoBytes}]
    BY <1>0, <1>3, <2>0 DEF Drop, Refresh, Upsert, Change
  <2>3. rowFile' \in [Ids -> Files \cup {NoFile}]
    <3>1. InodeOf(poller.change.id) \in Files \cup {NoFile}
      BY DEF InodeOf
    <3> QED BY <1>0, <1>3, <2>0, <3>1 DEF Drop, Refresh, Upsert
  <2>4. content' \in [Keys -> Bytes \cup {NoBytes}]
    BY <1>0, <1>3 DEF Drop, Refresh, Upsert
  <2>5. TypeOK' /\ HandleShape' /\ InHand'
    BY <1>0, <2>1, <2>2, <2>3, <2>4, PathKept
  <2>6. poller' \in PollerState
    BY <1>3, <2>0, PollerTypes DEF Drop, Refresh, Upsert
  <2> QED BY <2>1, <2>5, <2>6 DEF SyncTypeOK, Change, PollerState
<1> QED BY <1>1, <1>2, <1>3

LEMMA ShapesStep == Shapes /\ PollerShape /\ [SyncNext]_syncVars => Shapes'
<1> SUFFICES ASSUME Shapes, PollerShape, [SyncNext]_syncVars PROVE Shapes'
  OBVIOUS
<1>1. CASE UNCHANGED syncVars
  BY <1>1 DEF syncVars, vars, feedVars, Shapes, SyncTypeOK, TypeOK, HandleShape,
       InHand
<1>2. CASE \E id \in DriveIds : RemoteDelete(id) \/ \E b \in Bytes : RemoteEdit(id, b)
  BY <1>2, TypeOfRemote
<1>3. CASE LocalStep \/ SyncCrash \/ \E h \in Handles : OpenGone(h)
  BY <1>3, TypeOfLocal
<1>4. CASE \/ Bootstrap \/ GetChanges \/ Expired \/ StoreToken
           \/ \E c \in batch : TakeUp(c)
           \/ Drop \/ Refresh \/ Upsert
  BY <1>4, TypeOfPoller
<1> QED BY <1>1, <1>2, <1>3, <1>4 DEF SyncNext

\* Only the poller touches its batch, and it shrinks the feed when it has none.
LEMMA PollerShapeStep == Shapes /\ PollerShape /\ [SyncNext]_syncVars => PollerShape'
<1> SUFFICES ASSUME Shapes, PollerShape, [SyncNext]_syncVars PROVE PollerShape'
  OBVIOUS
<1> USE DEF PollerShape, Changes
<1>1. CASE UNCHANGED syncVars
  BY <1>1 DEF syncVars, feedVars
<1>2. CASE \/ LocalStep \/ \E h \in Handles : OpenGone(h)
           \/ \E id \in DriveIds : RemoteDelete(id) \/ \E b \in Bytes : RemoteEdit(id, b)
  <2>1. UNCHANGED <<batch, poller, token>> /\ unseen \subseteq unseen'
        /\ (poller.phase = "idle" => since' = since)
    BY <1>2 DEF LocalStep, OpenGone, RemoteDelete, RemoteEdit, Announce, feedVars
  <2> QED BY <2>1
<1>3. CASE SyncCrash
  BY <1>3 DEF SyncCrash, Waiting
<1>4. CASE Bootstrap \/ Expired \/ StoreToken
  BY <1>4 DEF Bootstrap, Expired, StoreToken, Waiting
<1>5. CASE GetChanges
  BY <1>5 DEF GetChanges, PollerAt
<1>6. CASE \E c \in batch : TakeUp(c)
  <2> PICK c \in batch : TakeUp(c)
    BY <1>6
  <2>1. c.id \in DriveIds /\ c.id \in unseen
    BY DEF Shapes, SyncTypeOK
  <2>2. /\ poller.phase = "apply" /\ batch' = batch \ {c}
        /\ UNCHANGED <<token, unseen, since>>
        /\ poller'.phase \in {"drop", "refresh"} /\ poller'.change = c
    BY DEF TakeUp, PollerAt
  <2> QED BY <2>1, <2>2
<1>7. CASE Drop \/ Refresh \/ Upsert
  BY <1>7 DEF Drop, Refresh, Upsert, PollerAt
<1> QED BY <1>1, <1>2, <1>3, <1>4, <1>5, <1>6, <1>7 DEF SyncNext

-----------------------------------------------------------------------------
(* The feed.                                                                *)

LEMMA SyncInitHolds == SyncInit => SyncInv
<1> SUFFICES ASSUME SyncInit PROVE SyncInv
  OBVIOUS
<1>1. Shapes
  BY ShapesInit
<1>2. PollerShape
  BY DEF SyncInit, PollerShape, Waiting, Changes
<1>3. FreshChanges
  BY DEF SyncInit, FreshChanges, Waiting, Changes
<1>4. UploadTold
  BY DEF SyncInit, Init, Resting, UploadTold
<1>5. RowsTold
  BY Apartness DEF SyncInit, Init, RowsTold, RowTold
<1> QED BY <1>1, <1>2, <1>3, <1>4, <1>5 DEF SyncInv

\* Drive changes, here or by another client: what the poller was to tell of it
\* still tells, and of what changes it is told.
Outside == \/ LocalStep
           \/ \E id \in DriveIds : RemoteDelete(id) \/ \E b \in Bytes : RemoteEdit(id, b)
           \/ \E h \in Handles : OpenGone(h)

LEMMA OutsideFrame ==
  ASSUME Outside
  PROVE  /\ UNCHANGED <<batch, poller, token>>
         /\ unseen \subseteq unseen'
         /\ poller.phase = "idle" => UNCHANGED since
BY DEF Outside, LocalStep, RemoteDelete, RemoteEdit, OpenGone, feedVars, Announce

LEMMA OutsideStep ==
  ASSUME SyncInv, Outside, NEW id \in DriveIds
  PROVE  /\ Covered(id) => Covered(id)'
         /\ drive'[id] # drive[id] =>
               Told(id)' /\ (poller.phase # "idle" => Covered(id)')
         /\ Told(id) => Told(id)'
<1>1. CASE \E h \in Handles : OpenGone(h)
  BY <1>1 DEF OpenGone, feedVars, Told, Covered
<1>2. ASSUME NEW ids, Announce(ids), UNCHANGED <<batch, poller, token>>,
             gone \subseteq gone', drive'[id] # drive[id] => id \in ids
      PROVE  /\ Covered(id) => Covered(id)'
             /\ drive'[id] # drive[id] =>
                   Told(id)' /\ (poller.phase # "idle" => Covered(id)')
             /\ Told(id) => Told(id)'
  <2>1. unseen \subseteq unseen'
    BY <1>2 DEF Announce
  <2>2. Covered(id) => Covered(id)'
    BY <1>2 DEF Announce, Covered
  <2>3. CASE drive'[id] # drive[id]
    <3>1. poller.phase # "idle" => Covered(id)'
      BY <1>2, <2>3 DEF Announce, Covered
    <3>2. poller.phase = "idle" => id \in unseen' \/ Covered(id)'
      BY <1>2, <2>3 DEF Announce, Covered
    <3>3. Told(id)'
      BY <1>2, <3>1, <3>2 DEF Told
    <3> QED BY <1>2, <2>1, <2>2, <3>1, <3>3
  <2>4. CASE drive'[id] = drive[id]
    <3>1. Told(id) => Told(id)'
      BY <1>2, <2>1, <2>2, <2>4 DEF Told
    <3> QED BY <1>2, <2>1, <2>2, <2>4, <3>1
  <2> QED BY <2>3, <2>4
<1>3. CASE LocalStep
  <2>1. /\ Announce(Uploaded) /\ UNCHANGED <<batch, poller, token, gone>>
        /\ drive'[id] # drive[id] => id \in Uploaded
    BY <1>3 DEF LocalStep, Uploaded
  <2> QED BY <1>2, <2>1
<1>4. ASSUME NEW i \in DriveIds, RemoteDelete(i) \/ \E b \in Bytes : RemoteEdit(i, b)
      PROVE  /\ Announce({i}) /\ UNCHANGED <<batch, poller, token>>
             /\ gone \subseteq gone' /\ (drive'[id] # drive[id] => id \in {i})
  BY <1>4 DEF RemoteDelete, RemoteEdit, SyncInv, Shapes, SyncTypeOK, TypeOK
<1> QED BY <1>1, <1>2, <1>3, <1>4 DEF Outside

\* The rows that a step of the write-back path leaves clean.
LEMMA CleanStep ==
  ASSUME Shapes, [Next]_vars, NEW id \in DriveIds, row'[id] = "clean"
  PROVE  \/ row[id] = "clean" /\ rowMd5'[id] = rowMd5[id]
         \/ /\ uploader.phase = "clear" /\ id = uploader.id
            /\ rowMd5'[id] \in {uploader.bytes, NoBytes} /\ UNCHANGED drive
         \/ /\ uploader.phase = "finalize" /\ id = uploader.newId
            /\ rowMd5'[id] \in {uploader.bytes, NoBytes} /\ UNCHANGED drive
<1>0. /\ row \in [Ids -> {"none", "clean", "dirty"}]
      /\ rowMd5 \in [Ids -> Bytes \cup {NoBytes}]
      /\ id \in Ids /\ id \notin PendingIds
  BY Apartness DEF Shapes, SyncTypeOK, TypeOK
<1>1. CASE ~UploaderStep
  BY <1>0, <1>1, OtherStep DEF Shapes, SyncTypeOK
<1>2. CASE Clear
  <2>1. CASE id = uploader.id
    BY <1>0, <1>2, <2>1, AnswerTypes DEF Clear, Shapes, SyncTypeOK
  <2>2. CASE id # uploader.id
    BY <1>0, <1>2, <2>2 DEF Clear
  <2> QED BY <2>1, <2>2
<1>3. CASE Finalize
  <2>1. uploader.id \in Ids
    BY <1>3 DEF Finalize, Shapes, InHand
  <2>2. CASE UNCHANGED <<row, rowMd5>>
    BY <2>2
  <2>3. CASE /\ row' = [row EXCEPT ![uploader.id] = "none", ![uploader.newId] = "clean"]
             /\ rowMd5' = [rowMd5 EXCEPT ![uploader.id] = NoBytes,
                                         ![uploader.newId] = AnsweredSum]
    <3>1. CASE id = uploader.newId
      BY <1>0, <1>3, <2>3, <3>1, AnswerTypes DEF Finalize, Shapes, SyncTypeOK
    <3>2. CASE id # uploader.newId
      BY <1>0, <2>1, <2>3, <3>2
    <3> QED BY <3>1, <3>2
  <2> QED BY <1>3, <2>2, <2>3 DEF Finalize
<1>4. CASE Abandon
  BY <1>0, <1>4 DEF Abandon
<1>5. CASE UploaderStep /\ ~(Clear \/ Finalize \/ Abandon)
  <2>1. UNCHANGED <<row, rowMd5>>
    BY <1>5 DEF UploaderStep, Snapshot, Load, SendUpdate, SendCreate, SendFails,
         SendParentGone, Migrate, Publish, Replace, Forget
  <2> QED BY <2>1
<1> QED BY <1>1, <1>2, <1>3, <1>4, <1>5

LEMMA OutsideKeeps ==
  ASSUME SyncInv, Outside
  PROVE  PollerShape' /\ FreshChanges' /\ UploadTold' /\ RowsTold'
<1> USE DEF SyncInv
<1>0. /\ UNCHANGED <<batch, poller, token>> /\ unseen \subseteq unseen'
      /\ poller.phase = "idle" => UNCHANGED since
  BY OutsideFrame
<1>1. \A id \in DriveIds :
         /\ Covered(id) => Covered(id)'
         /\ drive'[id] # drive[id] =>
               Told(id)' /\ (poller.phase # "idle" => Covered(id)')
         /\ Told(id) => Told(id)'
  BY OutsideStep
<1>2. PollerShape'
  BY <1>0 DEF PollerShape
<1>3. FreshChanges'
  <2>1. \A c \in batch : c.id \in DriveIds /\ poller.phase # "idle"
    BY DEF Shapes, SyncTypeOK, PollerShape
  <2>2. ASSUME NEW c \in batch PROVE (c.bytes = drive[c.id] \/ Covered(c.id))'
    BY <1>0, <1>1, <2>1 DEF FreshChanges, Covered
  <2>3. ASSUME poller.phase \in Changes
        PROVE  (\/ poller.change.bytes = drive[poller.change.id]
                \/ Covered(poller.change.id))'
    <3>1. PICK id \in DriveIds : id = poller.change.id
      BY <2>3 DEF PollerShape
    <3>2. poller.phase # "idle" /\ (poller.change.bytes = drive[id] \/ Covered(id))
      BY <2>3, <3>1 DEF FreshChanges, Changes
    <3> QED BY <1>0, <1>1, <3>1, <3>2 DEF Covered
  <2> QED BY <1>0, <2>2, <2>3 DEF FreshChanges
<1>4. UploadTold'
  <2>1. CASE UNCHANGED uploader
    <3>1. ASSUME NEW id \in DriveIds, drive[id] = uploader.bytes \/ Told(id)
          PROVE  drive'[id] = uploader.bytes \/ Told(id)'
      BY <1>1, <3>1
    <3>2. uploader.phase = "clear" /\ uploader.id \in DriveIds =>
             (drive[uploader.id] = uploader.bytes \/ Told(uploader.id))'
      <4>1. SUFFICES ASSUME uploader.phase = "clear", NEW id \in DriveIds,
                            id = uploader.id
                     PROVE  drive'[id] = uploader.bytes \/ Told(id)'
        BY <2>1 DEF Told, Covered
      <4> QED BY <3>1, <4>1 DEF UploadTold
    <3>3. uploader.phase = "finalize" =>
             (drive[uploader.newId] = uploader.bytes \/ Told(uploader.newId))'
      <4>1. SUFFICES ASSUME uploader.phase = "finalize", NEW id \in DriveIds,
                            id = uploader.newId
                     PROVE  drive'[id] = uploader.bytes \/ Told(id)'
        BY <2>1 DEF Told, Covered, Shapes, InHand
      <4> QED BY <3>1, <4>1 DEF UploadTold
    <3> QED BY <2>1, <3>2, <3>3 DEF UploadTold
  <2>2. CASE ~UNCHANGED uploader
    <3>1. [Next]_vars
      BY <2>2 DEF Outside, LocalStep, RemoteDelete, RemoteEdit, OpenGone
    <3>2. CASE SendUpdate
      BY <3>2 DEF SendUpdate, Stage, UploadTold, Shapes, SyncTypeOK, TypeOK
    <3>3. CASE SendCreate
      <4>1. PICK new \in SpareIds :
               /\ drive' = [drive EXCEPT ![new] = uploader.bytes]
               /\ uploader' = Stage("finalize", new)
        BY <3>3 DEF SendCreate
      <4> QED BY <4>1, Apartness DEF Stage, UploadTold, Shapes, SyncTypeOK, TypeOK
    <3>4. CASE ~(SendUpdate \/ SendCreate)
      BY <2>2, <3>1, <3>4, OutcomeStep DEF UploadTold, Shapes, SyncTypeOK
    <3> QED BY <3>2, <3>3, <3>4
  <2> QED BY <2>1, <2>2
<1>5. RowsTold'
  <2>1. SUFFICES ASSUME NEW id \in DriveIds, row'[id] = "clean"
                 PROVE  \/ rowMd5'[id] \in {NoBytes, drive'[id]}
                        \/ Told(id)'
                        \/ /\ poller'.phase \in Changes /\ poller'.change.id = id
                           /\ poller'.change.bytes = drive'[id]
    BY DEF RowsTold, RowTold
  <2>2. CASE row[id] = "clean" /\ rowMd5'[id] = rowMd5[id]
    BY <1>0, <1>1, <2>2 DEF RowsTold, RowTold
  <2>3. CASE ~(row[id] = "clean" /\ rowMd5'[id] = rowMd5[id])
    <3>1. [Next]_vars
      BY <2>1, <2>3 DEF Outside, LocalStep, RemoteDelete, RemoteEdit, OpenGone
    <3>2. /\ rowMd5'[id] \in {uploader.bytes, NoBytes} /\ UNCHANGED drive
          /\ \/ uploader.phase = "clear" /\ id = uploader.id
             \/ uploader.phase = "finalize" /\ id = uploader.newId
      BY <2>1, <2>3, <3>1, CleanStep
    <3>3. drive[id] = uploader.bytes \/ Told(id)
      BY <3>2 DEF UploadTold
    <3> QED BY <1>1, <3>2, <3>3
  <2> QED BY <2>2, <2>3
<1> QED BY <1>2, <1>3, <1>4, <1>5

-----------------------------------------------------------------------------
(* The poller.                                                              *)

\* Steps that only move the feed on: what was told is told.
LEMMA FeedKeeps ==
  ASSUME SyncInv, Bootstrap \/ GetChanges \/ Expired \/ StoreToken
  PROVE  PollerShape' /\ FreshChanges' /\ UploadTold' /\ RowsTold'
<1> USE DEF SyncInv
<1>1. UNCHANGED <<row, rowMd5, drive, uploader>>
  BY DEF Bootstrap, GetChanges, Expired, StoreToken, vars
<1>2. poller.phase \notin Changes /\ poller'.phase \notin Changes
  BY DEF Bootstrap, GetChanges, Expired, StoreToken, PollerAt, Waiting, Changes
<1>3. PollerShape'
  BY <1>2 DEF Bootstrap, GetChanges, Expired, StoreToken, PollerShape, PollerAt,
       Waiting
<1>4. FreshChanges'
  <2>1. CASE GetChanges
    BY <1>1, <1>2, <2>1 DEF GetChanges, FreshChanges
  <2>2. CASE Bootstrap \/ Expired \/ StoreToken
    <3>1. batch' = {} \/ (batch' = batch /\ gone \cup missed \cup since
                             \subseteq gone' \cup missed' \cup since')
      BY <2>2 DEF Bootstrap, Expired, StoreToken
    <3> QED BY <1>1, <1>2, <3>1 DEF FreshChanges, Covered
  <2> QED BY <2>1, <2>2
<1>5. ASSUME NEW id \in DriveIds, Told(id) PROVE Told(id)'
  <2>1. CASE Bootstrap
    BY <1>5, <2>1 DEF Bootstrap, Told, Covered, vars
  <2>2. CASE GetChanges
    <3>1. Covered(id) \/ id \in unseen
      BY <1>5, <2>2 DEF GetChanges, Told, PollerShape
    <3>2. CASE Covered(id)
      BY <2>2, <3>2 DEF GetChanges, Told, Covered
    <3>3. CASE id \in unseen
      <4>1. [id |-> id, bytes |-> drive[id]] \in batch'
        BY <2>2, <3>3 DEF GetChanges
      <4> QED BY <1>1, <4>1 DEF Told
    <3> QED BY <3>1, <3>2, <3>3
  <2>3. CASE Expired
    BY <1>5, <2>3 DEF Expired, Told, Covered, PollerShape
  <2>4. CASE StoreToken
    BY <1>5, <2>4 DEF StoreToken, Told, Covered, Waiting
  <2> QED BY <2>1, <2>2, <2>3, <2>4
<1>6. UploadTold'
  <2>1. ASSUME NEW id \in DriveIds, drive[id] = uploader.bytes \/ Told(id)
        PROVE  (drive[id] = uploader.bytes \/ Told(id))'
    BY <1>1, <1>5, <2>1
  <2>2. uploader.phase = "clear" /\ uploader.id \in DriveIds =>
           (drive[uploader.id] = uploader.bytes \/ Told(uploader.id))'
    <3>1. SUFFICES ASSUME uploader.phase = "clear", NEW id \in DriveIds,
                          id = uploader.id
                   PROVE  (drive[id] = uploader.bytes \/ Told(id))'
      BY <1>1 DEF Told, Covered
    <3> QED BY <2>1, <3>1 DEF UploadTold
  <2>3. uploader.phase = "finalize" =>
           (drive[uploader.newId] = uploader.bytes \/ Told(uploader.newId))'
    <3>1. SUFFICES ASSUME uploader.phase = "finalize", NEW id \in DriveIds,
                          id = uploader.newId
                   PROVE  (drive[id] = uploader.bytes \/ Told(id))'
      BY <1>1 DEF Told, Covered, Shapes, InHand
    <3> QED BY <2>1, <3>1 DEF UploadTold
  <2> QED BY <1>1, <2>2, <2>3 DEF UploadTold
<1>7. RowsTold'
  BY <1>1, <1>2, <1>5 DEF RowsTold, RowTold
<1> QED BY <1>3, <1>4, <1>6, <1>7

\* A change is taken up while no upload of its file is under way.
LEMMA TakeUpKeeps ==
  ASSUME UploadsWait, SyncInv, NEW c \in batch, TakeUp(c)
  PROVE  PollerShape' /\ FreshChanges' /\ UploadTold' /\ RowsTold'
<1> USE DEF SyncInv
<1>0. /\ poller.phase = "apply" /\ ~Uploading(c.id)
      /\ batch' = batch \ {c} /\ c.id \in DriveIds /\ c.id \in Ids
      /\ UNCHANGED <<drive, uploader, token, unseen, since, gone, missed>>
  BY Apartness DEF TakeUp, UploadsWait, Shapes, SyncTypeOK
<1>1. /\ poller'.phase \in {"drop", "refresh"} /\ poller'.change = c
  BY DEF TakeUp, PollerAt
<1>2. \A id : Covered(id)' <=> Covered(id)
  BY <1>0 DEF Covered
\* Of another file the poller tells as before.
<1>3. ASSUME NEW id \in DriveIds, id # c.id, Told(id) PROVE Told(id)'
  BY <1>0, <1>2, <1>3 DEF Told
<1>4. PollerShape'
  BY <1>0, <1>1 DEF PollerShape, Changes
<1>5. FreshChanges'
  BY <1>0, <1>1, <1>2 DEF FreshChanges, Changes
<1>6. UploadTold'
  <2>1. ASSUME NEW id \in DriveIds, id # c.id,
               drive[id] = uploader.bytes \/ Told(id)
        PROVE  (drive[id] = uploader.bytes \/ Told(id))'
    BY <1>0, <1>3, <2>1
  <2>2. uploader.phase = "clear" /\ uploader.id \in DriveIds =>
           (drive[uploader.id] = uploader.bytes \/ Told(uploader.id))'
    <3>1. SUFFICES ASSUME uploader.phase = "clear", NEW id \in DriveIds,
                          id = uploader.id
                   PROVE  (drive[id] = uploader.bytes \/ Told(id))'
      BY <1>0 DEF Told, Covered
    <3>2. id # c.id
      BY <1>0, <3>1 DEF Uploading
    <3> QED BY <2>1, <3>1, <3>2 DEF UploadTold
  <2>3. uploader.phase = "finalize" =>
           (drive[uploader.newId] = uploader.bytes \/ Told(uploader.newId))'
    <3>1. SUFFICES ASSUME uploader.phase = "finalize", NEW id \in DriveIds,
                          id = uploader.newId
                   PROVE  (drive[id] = uploader.bytes \/ Told(id))'
      BY <1>0 DEF Told, Covered, Shapes, InHand
    <3>2. id # c.id
      BY <1>0, <3>1 DEF Uploading
    <3> QED BY <2>1, <3>1, <3>2 DEF UploadTold
  <2> QED BY <1>0, <2>2, <2>3 DEF UploadTold
<1>7. RowsTold'
  <2>1. SUFFICES ASSUME NEW id \in DriveIds, row'[id] = "clean"
                 PROVE  \/ rowMd5'[id] \in {NoBytes, drive[id]}
                        \/ Told(id)'
                        \/ c.id = id /\ c.bytes = drive[id]
    BY <1>0, <1>1 DEF RowsTold, RowTold, Changes
  <2>2. row[id] = "clean" /\ rowMd5'[id] = rowMd5[id]
    BY <1>0, <2>1, Apartness DEF TakeUp, Shapes, SyncTypeOK, TypeOK
  <2>3. rowMd5[id] \in {NoBytes, drive[id]} \/ Told(id)
    BY <1>0, <2>2 DEF RowsTold, RowTold, Changes
  <2>4. CASE Told(id)
    <3>1. CASE c.id = id
      BY <1>0, <1>2, <3>1 DEF FreshChanges, Told
    <3>2. CASE c.id # id
      BY <1>3, <2>4, <3>2
    <3> QED BY <3>1, <3>2
  <2> QED BY <2>2, <2>3, <2>4
<1> QED BY <1>4, <1>5, <1>6, <1>7

\* The change in hand reaches the row, or the row goes.
LEMMA ApplyKeeps ==
  ASSUME SyncInv, Drop \/ Refresh \/ Upsert
  PROVE  PollerShape' /\ FreshChanges' /\ UploadTold' /\ RowsTold'
<1> USE DEF SyncInv
<1>0. /\ poller.phase \in Changes /\ poller'.phase \in {"apply", "upsert"}
      /\ poller'.phase = "upsert" =>
            poller'.change = poller.change /\ UNCHANGED <<row, rowMd5>>
      /\ UNCHANGED <<batch, drive, uploader, token, unseen, since, gone, missed>>
  BY DEF Drop, Refresh, Upsert, PollerAt, Changes
<1>1. \A id : Covered(id)' <=> Covered(id)
  BY <1>0 DEF Covered
<1>2. \A id : Told(id)' <=> Told(id)
  BY <1>0, <1>1 DEF Told, Changes
<1>3. PollerShape'
  BY <1>0 DEF PollerShape, Changes
<1>4. FreshChanges'
  BY <1>0, <1>1 DEF FreshChanges, Changes
<1>5. UploadTold'
  BY <1>0, <1>2 DEF UploadTold, Told, Covered, Changes
<1>6. RowsTold'
  <2>1. SUFFICES ASSUME NEW id \in DriveIds, row'[id] = "clean"
                 PROVE  \/ rowMd5'[id] \in {NoBytes, drive[id]}
                        \/ Told(id)
                        \/ /\ poller'.phase = "upsert" /\ poller'.change.id = id
                           /\ poller'.change.bytes = drive[id]
    BY <1>0, <1>2 DEF RowsTold, RowTold, Changes
  <2>2. poller.change.id \in Ids /\ id \in Ids
    BY <1>0, Apartness DEF PollerShape
  <2>3. CASE Refresh
    BY <1>0, <2>1, <2>3 DEF Refresh, PollerAt, RowsTold, RowTold
  <2>4. CASE id # poller.change.id /\ (Drop \/ Upsert)
    <3>1. row[id] = "clean" /\ rowMd5'[id] = rowMd5[id]
      BY <2>1, <2>2, <2>4 DEF Drop, Upsert, Shapes, SyncTypeOK, TypeOK
    <3> QED BY <2>4, <3>1 DEF RowsTold, RowTold
  <2>5. CASE id = poller.change.id /\ Drop
    BY <2>1, <2>2, <2>5 DEF Drop, Shapes, SyncTypeOK, TypeOK
  <2>6. CASE id = poller.change.id /\ Upsert
    <3>1. rowMd5'[id] = poller.change.bytes
      BY <2>2, <2>6 DEF Upsert, Shapes, SyncTypeOK, TypeOK
    <3> QED BY <1>0, <2>6, <3>1 DEF FreshChanges, Told
  <2> QED BY <2>3, <2>4, <2>5, <2>6
<1> QED BY <1>3, <1>4, <1>5, <1>6

\* The changes that were in flight come again: the stored token is the old one.
LEMMA SyncCrashKeeps ==
  ASSUME SyncInv, SyncCrash
  PROVE  PollerShape' /\ FreshChanges' /\ UploadTold' /\ RowsTold'
<1> USE DEF SyncInv
<1>0. /\ UNCHANGED <<row, rowMd5, drive, gone, missed>> /\ uploader' = Resting
      /\ unseen' = unseen \cup since /\ since' = {} /\ batch' = {}
      /\ poller' = Waiting
  BY DEF SyncCrash, Crash
<1>1. PollerShape' /\ FreshChanges'
  BY <1>0 DEF PollerShape, FreshChanges, Waiting, Changes
<1>2. UploadTold'
  BY <1>0 DEF UploadTold, Resting
<1>3. ASSUME NEW id, id \in gone \cup missed \cup since \cup unseen PROVE Told(id)'
  BY <1>0, <1>3 DEF Told, Covered, Waiting
<1>4. ASSUME NEW id, Told(id) \/ (poller.phase \in Changes /\ poller.change.id = id)
      PROVE  id \in gone \cup missed \cup since \cup unseen
  BY <1>4 DEF Told, Covered, PollerShape
<1>5. RowsTold'
  BY <1>0, <1>3, <1>4 DEF RowsTold, RowTold
<1> QED BY <1>1, <1>2, <1>5

-----------------------------------------------------------------------------
(* The theorems.                                                            *)

LEMMA SyncInvStep ==
  ASSUME UploadsWait, SyncInv, [SyncNext]_syncVars
  PROVE  SyncInv'
<1>1. Shapes'
  BY ShapesStep DEF SyncInv
<1>2. PollerShape' /\ FreshChanges' /\ UploadTold' /\ RowsTold'
  <2>1. CASE UNCHANGED syncVars
    BY <2>1 DEF syncVars, vars, feedVars, SyncInv, PollerShape, FreshChanges,
         UploadTold, RowsTold, RowTold, Told, Covered
  <2>2. CASE Outside
    BY <2>2, OutsideKeeps
  <2>3. CASE Bootstrap \/ GetChanges \/ Expired \/ StoreToken
    BY <2>3, FeedKeeps
  <2>4. CASE \E c \in batch : TakeUp(c)
    BY <2>4, TakeUpKeeps
  <2>5. CASE Drop \/ Refresh \/ Upsert
    BY <2>5, ApplyKeeps
  <2>6. CASE SyncCrash
    BY <2>6, SyncCrashKeeps
  <2> QED BY <2>1, <2>2, <2>3, <2>4, <2>5, <2>6 DEF SyncNext, Outside
<1> QED BY <1>1, <1>2 DEF SyncInv

\* Whatever is wrong in a row is among the changes that the stored token brings.
LEMMA RowsCorrected == SyncInv => RowsCatchUp
<1> SUFFICES ASSUME SyncInv, NEW id \in DriveIds \ (gone \cup missed),
                    row[id] = "clean", rowMd5[id] \notin {NoBytes, drive[id]}
             PROVE  id \in unseen \cup since
  BY DEF RowsCatchUp
<1>1. \/ Told(id)
      \/ poller.phase \in Changes /\ poller.change.id = id
  BY DEF SyncInv, RowsTold, RowTold
<1> QED BY <1>1 DEF SyncInv, PollerShape, Told, Covered

LEMMA SyncInductive == UploadsWait => (SyncSpec => []SyncInv)
<1> SUFFICES ASSUME UploadsWait PROVE SyncSpec => []SyncInv
  OBVIOUS
<1>1. SyncInit => SyncInv
  BY SyncInitHolds
<1>2. SyncInv /\ [SyncNext]_syncVars => SyncInv'
  BY SyncInvStep
<1> QED BY <1>1, <1>2, PTL DEF SyncSpec

\* The variables of the poller, of Drive's feed and of the write-back path keep
\* their types when the two run together (poll_once, apply_change).
THEOREM SyncTypeCorrect == SyncSpec => []SyncTypeOK
<1>1. SyncInit => Shapes /\ PollerShape
  BY SyncInitHolds DEF SyncInv
<1>2. Shapes /\ PollerShape /\ [SyncNext]_syncVars => (Shapes /\ PollerShape)'
  BY ShapesStep, PollerShapeStep
<1>3. Shapes => SyncTypeOK
  BY DEF Shapes
<1> QED BY <1>1, <1>2, <1>3, PTL DEF SyncSpec

\* No clean row stays out of date for good: the feed, from the token that is
\* stored, tells of every file whose row is, after any edits by other clients,
\* lost answers and crashes in the middle of a batch, unless a fresh token has
\* skipped the change (poll_once, apply_change, clear_dirty_after_upload,
\* finalize_new_file).
THEOREM RowsAreCorrected ==
  ASSUME UploadsWait
  PROVE  SyncSpec => []RowsCatchUp
<1> QED BY RowsCorrected, SyncInductive, PTL

=============================================================================
