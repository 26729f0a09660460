-------------------------- MODULE ContentStoreProofs ---------------------------
(***************************************************************************)
(* What TLAPS proves about ContentStore: types with every disturbance, and *)
(* without any that the uploader sends what was stored last, and that the  *)
(* tiers implement a map (second part), for any ids, contents, writers and *)
(* readers, and any number of stores and crashes.                          *)
(*                                                                         *)
(* UploadsWhatWasStored is not inductive: that the uploader finds no older *)
(* copy rests on what a store has done to the tiers before it returns      *)
(* (StoresInOrder), and on nobody looking up a key meanwhile (Alone).      *)
(***************************************************************************)
EXTENDS ContentStore, TLAPS

WriterPhases == {"blob", "moka", "disk"}
UploaderPhases == Looking \cup {"check", "send"} \cup Moving

\* What the threads have in hand at each stage.
WriterShape ==
    \A w \in Writers :
        /\ writer[w].phase = "idle" => writer[w].key = NoKey
        /\ writer[w].phase # "idle" =>
              writer[w].key \in Keys /\ writer[w].bytes \in Contents
ReaderShape ==
    \A r \in Readers :
        /\ reader[r].phase = "idle" => reader[r].key = NoKey
        /\ reader[r].phase # "idle" => reader[r].key \in Keys
UploaderShape ==
    /\ uploader.phase = "idle" => uploader.key = NoKey
    /\ uploader.phase # "idle" => uploader.key \in Ids
    /\ uploader.phase \in {"warm", "check", "send"} \cup Moving =>
          uploader.bytes \in Contents
Shape == WriterShape /\ ReaderShape /\ UploaderShape

\* Who stores under an id is the only one at work on it.
Alone ==
    \A id \in Ids, w \in Writers : writer[w].key = id =>
        /\ \A v \in Writers \ {w} : writer[v].key # id
        /\ \A r \in Readers : reader[r].key # id
        /\ uploader.key # id

\* No tier holds a copy that was replaced.
TiersExpected ==
    \A id \in Ids :
        /\ moka[id] \in expected[id] \cup {NoBytes}
        /\ blob[id] \in expected[id] \cup {NoBytes}
        /\ disk[id] \in expected[id] \cup {NoBytes}

\* The tiers that a store has passed hold its content, or nothing.
StoresInOrder ==
    \A id \in Ids, w \in Writers : writer[w].key = id =>
        /\ writer[w].bytes \in expected[id]
        /\ writer[w].bytes \in Small => disk[id] = NoBytes
        /\ writer[w].phase \in {"moka", "disk"} =>
              blob[id] \in {writer[w].bytes, NoBytes}
        /\ writer[w].phase = "disk" => moka[id] = NoBytes

\* What has been read from a tier is not older than what is in the tiers.
CarriedExpected ==
    /\ \A id \in Ids, r \in Readers :
          reader[r].key = id /\ reader[r].phase = "warm" =>
             reader[r].bytes \in expected[id]
    /\ uploader.phase \in {"warm", "check", "send"} =>
          uploader.bytes \in expected[uploader.key]

\* The inductive invariant.
IndInv ==
    /\ TypeOK /\ Shape
    /\ Alone /\ TiersExpected /\ StoresInOrder /\ CarriedExpected

-----------------------------------------------------------------------------
(* Types.                                                                   *)

LEMMA NameFacts ==
  /\ NoKey \notin Keys /\ NoBytes \notin Contents /\ Ids \cap Contents = {}
  /\ Ids \subseteq Keys /\ Contents \subseteq Keys
BY NamesAssumption DEF Keys

LEMMA ThreadTypes ==
  ASSUME NEW phases
  PROVE  /\ Idle \in Thread(phases)
         /\ Idle.phase = "idle" /\ Idle.key = NoKey
         /\ \A ph \in phases, k \in Keys, c \in Contents \cup {NoBytes} :
               /\ At(ph, k, c) \in Thread(phases)
               /\ At(ph, k, c).phase = ph
               /\ At(ph, k, c).key = k
               /\ At(ph, k, c).bytes = c
BY DEF Idle, At, Thread

LEMMA TierTypes ==
  ASSUME NEW tier \in Tier, NEW k \in Keys, NEW c \in Contents \cup {NoBytes}
  PROVE  /\ Put(tier, k, c) \in Tier
         /\ Put(tier, k, c)[k] = c
         /\ \A l \in Keys : l # k => Put(tier, k, c)[l] = tier[l]
BY DEF Tier, Put

\* A writer that goes on to t keeps its type and its shape.
LEMMA WriterGoesOn ==
  ASSUME TypeOK, WriterShape, NEW w \in Writers, NEW t \in Thread(WriterPhases),
         t.phase = "idle" => t.key = NoKey,
         t.phase # "idle" => t.key \in Keys /\ t.bytes \in Contents,
         writer' = [writer EXCEPT ![w] = t]
  PROVE  writer' \in [Writers -> Thread(WriterPhases)] /\ WriterShape'
<1>1. writer \in [Writers -> Thread(WriterPhases)]
  BY DEF TypeOK, WriterPhases
<1>2. writer' \in [Writers -> Thread(WriterPhases)]
  BY <1>1
<1>3. ASSUME NEW v \in Writers
      PROVE  /\ writer'[v].phase = "idle" => writer'[v].key = NoKey
             /\ writer'[v].phase # "idle" =>
                   writer'[v].key \in Keys /\ writer'[v].bytes \in Contents
  <2>1. CASE v = w BY <1>1, <2>1
  <2>2. CASE v # w BY <1>1, <2>2 DEF WriterShape
  <2> QED BY <2>1, <2>2
<1> QED BY <1>2, <1>3 DEF WriterShape

LEMMA ReaderGoesOn ==
  ASSUME TypeOK, ReaderShape, NEW r \in Readers, NEW t \in Thread(Looking),
         t.phase = "idle" => t.key = NoKey,
         t.phase # "idle" => t.key \in Keys,
         reader' = [reader EXCEPT ![r] = t]
  PROVE  reader' \in [Readers -> Thread(Looking)] /\ ReaderShape'
<1>1. reader \in [Readers -> Thread(Looking)]
  BY DEF TypeOK
<1>2. reader' \in [Readers -> Thread(Looking)]
  BY <1>1
<1>3. ASSUME NEW q \in Readers
      PROVE  /\ reader'[q].phase = "idle" => reader'[q].key = NoKey
             /\ reader'[q].phase # "idle" => reader'[q].key \in Keys
  <2>1. CASE q = r BY <1>1, <2>1
  <2>2. CASE q # r BY <1>1, <2>2 DEF ReaderShape
  <2> QED BY <2>1, <2>2
<1> QED BY <1>2, <1>3 DEF ReaderShape

LEMMA WriterAt ==
  ASSUME TypeOK, Shape, NEW w \in Writers, NEW ph \in WriterPhases,
         NEW k \in Keys, NEW c \in Contents,
         writer' = [writer EXCEPT ![w] = At(ph, k, c)]
  PROVE  writer' \in [Writers -> Thread(WriterPhases)] /\ WriterShape'
<1>1. /\ At(ph, k, c) \in Thread(WriterPhases)
      /\ At(ph, k, c).key = k /\ At(ph, k, c).bytes = c
      /\ At(ph, k, c).phase = ph
  BY ThreadTypes
<1>2. ph # "idle"
  BY DEF WriterPhases
<1> QED BY <1>1, <1>2, WriterGoesOn DEF Shape

LEMMA ReaderAt ==
  ASSUME TypeOK, Shape, NEW r \in Readers, NEW ph \in Looking, NEW k \in Keys,
         NEW c \in Contents \cup {NoBytes},
         reader' = [reader EXCEPT ![r] = At(ph, k, c)]
  PROVE  reader' \in [Readers -> Thread(Looking)] /\ ReaderShape'
<1>1. /\ At(ph, k, c) \in Thread(Looking)
      /\ At(ph, k, c).key = k /\ At(ph, k, c).phase = ph
  BY ThreadTypes
<1>2. ph # "idle"
  BY DEF Looking
<1> QED BY <1>1, <1>2, ReaderGoesOn DEF Shape

\* So does the uploader.
LEMMA UploaderGoesOn ==
  ASSUME NEW ph \in UploaderPhases, NEW id \in Ids,
         NEW c \in Contents \cup {NoBytes},
         ph \in {"warm", "check", "send"} \cup Moving => c \in Contents,
         uploader' = At(ph, id, c)
  PROVE  /\ uploader' \in Thread(UploaderPhases) /\ UploaderShape'
         /\ uploader'.phase \in {"check", "send"} \cup Moving =>
               uploader'.key \in Ids /\ uploader'.bytes # NoBytes
<1>1. /\ uploader' \in Thread(UploaderPhases)
      /\ uploader'.phase = ph /\ uploader'.key = id /\ uploader'.bytes = c
  BY ThreadTypes, NameFacts
<1>2. ph # "idle"
  BY DEF UploaderPhases, Looking, Moving
<1> QED BY <1>1, <1>2, NameFacts DEF UploaderShape

LEMMA UploaderRests ==
  ASSUME uploader' = Idle
  PROVE  /\ uploader' \in Thread(UploaderPhases) /\ UploaderShape'
         /\ uploader'.phase \in {"check", "send"} \cup Moving =>
               uploader'.key \in Ids /\ uploader'.bytes # NoBytes
<1>1. uploader' \in Thread(UploaderPhases) /\ uploader'.phase = "idle"
      /\ uploader'.key = NoKey
  BY ThreadTypes
<1> QED BY <1>1 DEF UploaderShape, Moving

LEMMA TypeInit == Init => TypeOK /\ Shape
<1> SUFFICES ASSUME Init PROVE TypeOK /\ Shape
  OBVIOUS
<1>1. moka \in Tier /\ blob \in Tier /\ disk \in Tier
  BY DEF Init, NoContent, Tier
<1>2. /\ writer \in [Writers -> Thread(WriterPhases)]
      /\ reader \in [Readers -> Thread(Looking)]
  BY ThreadTypes DEF Init
<1>3. uploader \in Thread(UploaderPhases) /\ uploader.phase = "idle"
      /\ uploader.key = NoKey
  BY ThreadTypes DEF Init
<1>4. WriterShape /\ ReaderShape
  BY ThreadTypes DEF Init, WriterShape, ReaderShape
<1>5. UploaderShape
  BY <1>3 DEF UploaderShape, Moving
<1>6. TypeOK
  BY <1>1, <1>2, <1>3, BoundsAssumption
     DEF Init, TypeOK, WriterPhases, UploaderPhases, Moving
<1> QED BY <1>4, <1>5, <1>6 DEF Shape

LEMMA StoreTypes ==
  ASSUME TypeOK, Shape, Store
  PROVE  TypeOK' /\ Shape'
<1>0. /\ writer \in [Writers -> Thread(WriterPhases)]
      /\ moka \in Tier /\ blob \in Tier /\ disk \in Tier
      /\ expected \in [Keys -> SUBSET Contents]
  BY DEF TypeOK, WriterPhases
<1> SUFFICES ASSUME NEW w \in Writers,
                    \/ \E k \in Keys, c \in Contents : Begin(w, k, c)
                    \/ StoreBlob(w) \/ StoreMoka(w) \/ DropMoka(w) \/ StoreDisk(w)
             PROVE  TypeOK' /\ Shape'
  BY DEF Store
<1> DEFINE k == writer[w].key
           c == writer[w].bytes
<1>1. ASSUME NEW l \in Keys, NEW d \in Contents, Begin(w, l, d)
      PROVE  TypeOK' /\ Shape'
  <2>1. WriterShape' /\ writer' \in [Writers -> Thread(WriterPhases)]
    BY <1>1, WriterAt DEF Begin, WriterPhases
  <2>2. expected' \in [Keys -> SUBSET Contents] /\ stores' \in 0..MaxStores
    BY <1>0, <1>1, BoundsAssumption DEF Begin, TypeOK
  <2>3. TypeOK'
    BY <1>1, <2>1, <2>2 DEF Begin, TypeOK, tiers, WriterPhases
  <2> QED BY <1>1, <2>1, <2>3 DEF Begin, Shape, ReaderShape, UploaderShape
<1>2. CASE StoreBlob(w)
  <2>1. k \in Keys /\ c \in Contents
    BY <1>2 DEF StoreBlob, Shape, WriterShape
  <2>2. WriterShape' /\ writer' \in [Writers -> Thread(WriterPhases)]
    BY <1>2, <2>1, WriterAt DEF StoreBlob, WriterPhases
  <2>3. blob' \in Tier
    BY <1>0, <1>2, <2>1, TierTypes DEF StoreBlob
  <2>4. TypeOK'
    BY <1>2, <2>2, <2>3 DEF StoreBlob, TypeOK, WriterPhases
  <2> QED BY <1>2, <2>2, <2>4 DEF StoreBlob, Shape, ReaderShape, UploaderShape
<1>3. CASE StoreMoka(w)
  <2>1. k \in Keys /\ c \in Contents
    BY <1>3 DEF StoreMoka, Shape, WriterShape
  <2>2. WriterShape' /\ writer' \in [Writers -> Thread(WriterPhases)]
    BY <1>3, WriterGoesOn, ThreadTypes DEF StoreMoka, Shape
  <2>3. moka' \in Tier
    BY <1>0, <1>3, <2>1, TierTypes DEF StoreMoka
  <2>4. expected' \in [Keys -> SUBSET Contents]
    BY <1>0, <1>3, <2>1 DEF StoreMoka
  <2>5. TypeOK'
    BY <1>3, <2>2, <2>3, <2>4 DEF StoreMoka, TypeOK, WriterPhases
  <2> QED BY <1>3, <2>2, <2>5 DEF StoreMoka, Shape, ReaderShape, UploaderShape
<1>4. CASE DropMoka(w)
  <2>1. k \in Keys /\ c \in Contents
    BY <1>4 DEF DropMoka, Shape, WriterShape
  <2>2. WriterShape' /\ writer' \in [Writers -> Thread(WriterPhases)]
    BY <1>4, <2>1, WriterAt DEF DropMoka, WriterPhases
  <2>3. moka' \in Tier
    BY <1>0, <1>4, <2>1, TierTypes DEF DropMoka
  <2>4. TypeOK'
    BY <1>4, <2>2, <2>3 DEF DropMoka, TypeOK, WriterPhases
  <2> QED BY <1>4, <2>2, <2>4 DEF DropMoka, Shape, ReaderShape, UploaderShape
<1>5. CASE StoreDisk(w)
  <2>1. k \in Keys /\ c \in Contents
    BY <1>5 DEF StoreDisk, Shape, WriterShape
  <2>2. WriterShape' /\ writer' \in [Writers -> Thread(WriterPhases)]
    BY <1>5, WriterGoesOn, ThreadTypes DEF StoreDisk, Shape
  <2>3. disk' \in Tier
    BY <1>0, <1>5, <2>1, TierTypes DEF StoreDisk
  <2>4. expected' \in [Keys -> SUBSET Contents]
    BY <1>0, <1>5, <2>1 DEF StoreDisk
  <2>5. TypeOK'
    BY <1>5, <2>2, <2>3, <2>4 DEF StoreDisk, TypeOK, WriterPhases
  <2> QED BY <1>5, <2>2, <2>5 DEF StoreDisk, Shape, ReaderShape, UploaderShape
<1> QED BY <1>1, <1>2, <1>3, <1>4, <1>5

LEMMA ReadTypes ==
  ASSUME TypeOK, Shape, Read
  PROVE  TypeOK' /\ Shape'
<1>0. /\ reader \in [Readers -> Thread(Looking)]
      /\ moka \in Tier /\ blob \in Tier
  BY DEF TypeOK
<1> SUFFICES ASSUME NEW r \in Readers,
                    \/ \E k \in Keys : Look(r, k)
                    \/ LookBlob(r) \/ Warm(r) \/ LookDisk(r)
             PROVE  TypeOK' /\ Shape'
  BY DEF Read
<1>1. ASSUME NEW k \in Keys, Look(r, k) PROVE TypeOK' /\ Shape'
  <2>1. ReaderShape' /\ reader' \in [Readers -> Thread(Looking)]
    BY <1>1, ReaderAt DEF Look, Looking
  <2>2. TypeOK'
    BY <1>1, <2>1 DEF Look, TypeOK, tiers
  <2> QED BY <1>1, <2>1, <2>2 DEF Look, Shape, WriterShape, UploaderShape
<1>2. CASE LookBlob(r)
  <2>1. reader[r].key \in Keys /\ blob[reader[r].key] \in Contents \cup {NoBytes}
    BY <1>0, <1>2 DEF LookBlob, Shape, ReaderShape, Tier
  <2>2. /\ AfterBlob(reader[r].key) \in Thread(Looking)
        /\ AfterBlob(reader[r].key).key = reader[r].key
        /\ AfterBlob(reader[r].key).phase # "idle"
    BY <2>1, ThreadTypes DEF AfterBlob, Looking
  <2>3. ReaderShape' /\ reader' \in [Readers -> Thread(Looking)]
    BY <1>2, <2>1, <2>2, ReaderGoesOn DEF LookBlob, Shape
  <2>4. TypeOK'
    BY <1>2, <2>3 DEF LookBlob, TypeOK, tiers
  <2> QED BY <1>2, <2>3, <2>4 DEF LookBlob, Shape, WriterShape, UploaderShape
<1>3. CASE Warm(r)
  <2>1. /\ reader[r].key \in Keys /\ reader[r].bytes \in Contents \cup {NoBytes}
    BY <1>0, <1>3 DEF Warm, Shape, ReaderShape, Thread
  <2>2. ReaderShape' /\ reader' \in [Readers -> Thread(Looking)]
    BY <1>3, ReaderGoesOn, ThreadTypes DEF Warm, Shape
  <2>3. moka' \in Tier
    BY <1>0, <1>3, <2>1, TierTypes DEF Warm
  <2>4. TypeOK'
    BY <1>3, <2>2, <2>3 DEF Warm, TypeOK
  <2> QED BY <1>3, <2>2, <2>4 DEF Warm, Shape, WriterShape, UploaderShape
<1>4. CASE LookDisk(r)
  <2>1. ReaderShape' /\ reader' \in [Readers -> Thread(Looking)]
    BY <1>4, ReaderGoesOn, ThreadTypes DEF LookDisk, Shape
  <2>2. TypeOK'
    BY <1>4, <2>1 DEF LookDisk, TypeOK, tiers
  <2> QED BY <1>4, <2>1, <2>2 DEF LookDisk, Shape, WriterShape, UploaderShape
<1> QED BY <1>1, <1>2, <1>3, <1>4

UploaderTyped ==
    /\ uploader \in Thread(UploaderPhases) /\ UploaderShape
    /\ uploader.phase \in {"check", "send"} \cup Moving =>
          uploader.key \in Ids /\ uploader.bytes # NoBytes

LEMMA UploadTypes ==
  ASSUME TypeOK, Shape, Upload
  PROVE  TypeOK' /\ Shape'
<1>0. /\ uploader \in Thread(UploaderPhases) /\ UploaderShape
      /\ moka \in Tier /\ blob \in Tier /\ disk \in Tier
  BY DEF TypeOK, UploaderPhases, Shape
<1>1. /\ \A k \in Keys : /\ moka[k] \in Contents \cup {NoBytes}
                         /\ blob[k] \in Contents \cup {NoBytes}
                         /\ disk[k] \in Contents \cup {NoBytes}
      /\ uploader.phase # "idle" => uploader.key \in Ids
      /\ uploader.bytes \in Contents \cup {NoBytes}
  BY <1>0 DEF Tier, UploaderShape, Thread
<1>2. ASSUME UploaderTyped', moka' \in Tier, blob' \in Tier, disk' \in Tier,
             UNCHANGED <<writer, reader, expected, stores, crashes>>
      PROVE  TypeOK' /\ Shape'
  <2>1. TypeOK'
    BY <1>2 DEF UploaderTyped, TypeOK, UploaderPhases
  <2> QED BY <1>2, <2>1 DEF UploaderTyped, Shape, WriterShape, ReaderShape
<1>3. ASSUME UploaderTyped', UNCHANGED <<tiers, writer, reader, expected, stores, crashes>>
      PROVE  TypeOK' /\ Shape'
  BY <1>0, <1>2, <1>3 DEF tiers
<1>4. ASSUME NEW ph \in UploaderPhases, NEW id \in Ids,
             NEW c \in Contents \cup {NoBytes},
             ph \in {"warm", "check", "send"} \cup Moving => c \in Contents,
             uploader' = At(ph, id, c)
      PROVE  UploaderTyped'
  BY <1>4, UploaderGoesOn DEF UploaderTyped
<1>5. ASSUME uploader' = Idle PROVE UploaderTyped'
  BY <1>5, UploaderRests DEF UploaderTyped
<1>6. ASSUME NEW id \in Ids, Load(id) PROVE TypeOK' /\ Shape'
  <2>1. moka[id] \in Contents \cup {NoBytes}
    BY <1>1, NameFacts
  <2>2. CASE moka[id] = NoBytes
    BY <1>3, <1>4, <1>6, <2>2 DEF Load, UploaderPhases, Looking, Moving
  <2>3. CASE moka[id] # NoBytes
    BY <1>3, <1>4, <1>6, <2>1, <2>3 DEF Load, UploaderPhases, Looking
  <2> QED BY <2>2, <2>3
<1>7. CASE LoadBlob
  <2> DEFINE id == uploader.key
  <2>1. id \in Ids /\ blob[id] \in Contents \cup {NoBytes}
    BY <1>1, <1>7, NameFacts DEF LoadBlob
  <2>2. CASE blob[id] = NoBytes
    BY <1>3, <1>4, <1>7, <2>1, <2>2
       DEF LoadBlob, AfterBlob, UploaderPhases, Looking, Moving
  <2>3. CASE blob[id] # NoBytes
    BY <1>3, <1>4, <1>7, <2>1, <2>3 DEF LoadBlob, AfterBlob, UploaderPhases, Looking
  <2> QED BY <2>2, <2>3
<1>8. CASE LoadWarm
  <2>1. uploader.key \in Ids /\ uploader.bytes \in Contents
    BY <1>0, <1>8 DEF LoadWarm, UploaderShape
  <2>2. UploaderTyped'
    BY <1>4, <1>8, <2>1 DEF LoadWarm, Stage, UploaderPhases
  <2>3. moka' \in Tier
    BY <1>0, <1>8, <2>1, TierTypes, NameFacts DEF LoadWarm
  <2> QED BY <1>0, <1>2, <1>8, <2>2, <2>3 DEF LoadWarm
<1>9. CASE LoadDisk
  <2> DEFINE id == uploader.key
  <2>1. id \in Ids /\ disk[id] \in Contents \cup {NoBytes}
    BY <1>1, <1>9, NameFacts DEF LoadDisk
  <2>2. CASE disk[id] = NoBytes
    BY <1>3, <1>5, <1>9, <2>2 DEF LoadDisk
  <2>3. CASE disk[id] # NoBytes
    BY <1>3, <1>4, <1>9, <2>1, <2>3 DEF LoadDisk, UploaderPhases
  <2> QED BY <2>2, <2>3
<1>10. CASE Check
  <2>1. uploader.key \in Ids /\ uploader.bytes \in Contents
    BY <1>0, <1>10 DEF Check, UploaderShape
  <2>2. disk[uploader.key] \in Contents \cup {NoBytes}
    BY <1>1, <2>1, NameFacts
  <2>3. UploaderTyped'
    BY <1>4, <1>10, <2>1, <2>2 DEF Check, UploaderPhases
  <2> QED BY <1>3, <1>10, <2>3 DEF Check
<1>11. CASE Sent
  BY <1>3, <1>5, <1>11 DEF Sent
<1>12. CASE Migrate
  <2>1. uploader.key \in Ids /\ uploader.bytes \in Contents
    BY <1>0, <1>12 DEF Migrate, UploaderShape
  <2> QED BY <1>3, <1>4, <1>12, <2>1 DEF Migrate, UploaderPhases, Moving
<1>13. ASSUME uploader.phase \in Moving
       PROVE  /\ uploader.key \in Ids /\ uploader.bytes \in Contents
              /\ \A ph \in Moving : uploader' = Stage(ph) => UploaderTyped'
  <2>1. uploader.key \in Ids /\ uploader.bytes \in Contents
    BY <1>0, <1>13 DEF UploaderShape, Moving
  <2> QED BY <1>4, <2>1 DEF Stage, UploaderPhases
<1>14. CASE CopyBlob
  <2>1. uploader.key \in Ids /\ uploader.bytes \in Contents
    BY <1>13, <1>14 DEF CopyBlob, Moving
  <2>2. blob[uploader.key] \in Contents \cup {NoBytes}
    BY <1>1, <2>1, NameFacts
  <2>3. blob' \in Tier
    BY <1>0, <1>14, <2>1, <2>2, TierTypes, NameFacts DEF CopyBlob
  <2>4. UploaderTyped'
    BY <1>4, <1>14, <2>1 DEF CopyBlob, UploaderPhases, Moving
  <2> QED BY <1>0, <1>2, <1>14, <2>3, <2>4 DEF CopyBlob
<1>15. CASE DeleteBlob
  <2>1. uploader.key \in Ids /\ UploaderTyped'
    BY <1>13, <1>15 DEF DeleteBlob, Moving
  <2>2. blob' \in Tier
    BY <1>0, <1>15, <2>1, TierTypes, NameFacts DEF DeleteBlob
  <2> QED BY <1>0, <1>2, <1>15, <2>1, <2>2 DEF DeleteBlob
<1>16. CASE MigrateMoka
  <2>1. uploader.key \in Ids /\ uploader.bytes \in Contents /\ UploaderTyped'
    BY <1>13, <1>16 DEF MigrateMoka, Moving
  <2>2. moka[uploader.key] \in Contents \cup {NoBytes}
    BY <1>1, <2>1, NameFacts
  <2>3. Put(moka, uploader.bytes, moka[uploader.key]) \in Tier
    BY <1>0, <2>1, <2>2, TierTypes, NameFacts
  <2>4. moka' \in Tier
    BY <1>0, <1>16, <2>1, <2>3, TierTypes, NameFacts DEF MigrateMoka
  <2> QED BY <1>0, <1>2, <1>16, <2>1, <2>4 DEF MigrateMoka
<1>17. CASE RenameFile
  <2>1. uploader.key \in Ids /\ uploader.bytes \in Contents /\ UploaderTyped'
    BY <1>13, <1>17 DEF RenameFile, Moving
  <2>2. disk[uploader.key] \in Contents \cup {NoBytes}
    BY <1>1, <2>1, NameFacts
  <2>3. Put(disk, uploader.bytes, disk[uploader.key]) \in Tier
    BY <1>0, <2>1, <2>2, TierTypes, NameFacts
  <2>4. disk' \in Tier
    BY <1>0, <1>17, <2>1, <2>3, TierTypes, NameFacts DEF RenameFile
  <2> QED BY <1>0, <1>2, <1>17, <2>1, <2>4 DEF RenameFile
<1>18. CASE Migrated
  BY <1>3, <1>5, <1>18 DEF Migrated
<1> QED BY <1>6, <1>7, <1>8, <1>9, <1>10, <1>11, <1>12, <1>14, <1>15, <1>16,
           <1>17, <1>18 DEF Upload

LEMMA TypeStep == TypeOK /\ Shape /\ [Next]_vars => TypeOK' /\ Shape'
<1> SUFFICES ASSUME TypeOK, Shape, [Next]_vars PROVE TypeOK' /\ Shape'
  OBVIOUS
<1>0. /\ moka \in Tier /\ disk \in Tier
      /\ writer \in [Writers -> Thread(WriterPhases)]
      /\ reader \in [Readers -> Thread(Looking)]
  BY DEF TypeOK, WriterPhases
<1>1. CASE Store BY <1>1, StoreTypes
<1>2. CASE Read BY <1>2, ReadTypes
<1>3. CASE Upload BY <1>3, UploadTypes
<1>4. CASE Crash
  <2>1. /\ writer' \in [Writers -> Thread(WriterPhases)] /\ WriterShape'
        /\ reader' \in [Readers -> Thread(Looking)] /\ ReaderShape'
    BY <1>4, ThreadTypes DEF Crash, WriterShape, ReaderShape
  <2>2. UploaderTyped'
    BY <1>4, UploaderRests DEF Crash, UploaderTyped
  <2>3. moka' \in Tier
    BY <1>4 DEF Crash, NoContent, Tier
  <2>4. crashes' \in 0..MaxCrashes
    BY <1>4, BoundsAssumption DEF Crash, TypeOK
  <2>5. TypeOK'
    BY <1>4, <2>1, <2>2, <2>3, <2>4
       DEF Crash, UploaderTyped, TypeOK, WriterPhases, UploaderPhases
  <2> QED BY <2>1, <2>2, <2>5 DEF UploaderTyped, Shape
<1>5. ASSUME NEW k \in Keys, Expire(k) PROVE TypeOK' /\ Shape'
  <2>1. moka' \in Tier
    BY <1>0, <1>5, TierTypes DEF Expire
  <2>2. TypeOK'
    BY <1>5, <2>1 DEF Expire, TypeOK
  <2> QED BY <1>5, <2>2 DEF Expire, Shape, WriterShape, ReaderShape, UploaderShape
<1>6. ASSUME NEW k \in Keys, Unlink(k) PROVE TypeOK' /\ Shape'
  <2>1. disk' \in Tier
    BY <1>0, <1>6, TierTypes DEF Unlink
  <2>2. TypeOK'
    BY <1>6, <2>1 DEF Unlink, TypeOK
  <2> QED BY <1>6, <2>2 DEF Unlink, Shape, WriterShape, ReaderShape, UploaderShape
<1>7. CASE UNCHANGED vars
  BY <1>7 DEF vars, TypeOK, Shape, WriterShape, ReaderShape, UploaderShape
<1> QED BY <1>1, <1>2, <1>3, <1>4, <1>5, <1>6, <1>7 DEF Next

\* The variables keep their types, whatever overlaps; in particular the uploader
\* never has an entry without content to send (upload_entry).
THEOREM ContentStoreTypeCorrect == Spec => []TypeOK
<1>1. Init => TypeOK /\ Shape
  BY TypeInit
<1>2. TypeOK /\ Shape /\ [Next]_vars => (TypeOK /\ Shape)'
  BY TypeStep
<1> QED BY <1>1, <1>2, PTL DEF Spec

-----------------------------------------------------------------------------
(* Without disturbances, the uploader sends what was stored last.           *)

\* Threads that carry on, and tiers that at most lose copies, disturb nothing.
LEMMA TiersFade ==
  ASSUME TiersExpected, StoresInOrder, UNCHANGED <<writer, expected>>,
         \A id \in Ids : /\ moka'[id] \in {moka[id], NoBytes}
                         /\ blob'[id] \in {blob[id], NoBytes}
                         /\ disk'[id] \in {disk[id], NoBytes}
  PROVE  TiersExpected' /\ StoresInOrder'
<1>1. TiersExpected'
  BY DEF TiersExpected
<1>2. StoresInOrder'
  BY DEF StoresInOrder
<1> QED BY <1>1, <1>2

\* What a store has done to key k, and to the other writers.
LEMMA WriterNow ==
  ASSUME TypeOK, NEW w \in Writers, NEW ph \in WriterPhases, NEW k \in Keys,
         NEW c \in Contents, writer' = [writer EXCEPT ![w] = At(ph, k, c)]
  PROVE  /\ writer'[w].phase = ph /\ writer'[w].key = k /\ writer'[w].bytes = c
         /\ \A v \in Writers \ {w} : writer'[v] = writer[v]
<1>1. writer'[w] = At(ph, k, c) /\ \A v \in Writers \ {w} : writer'[v] = writer[v]
  BY DEF TypeOK
<1> QED BY <1>1 DEF At

LEMMA WriterDone ==
  ASSUME TypeOK, NEW w \in Writers, writer' = [writer EXCEPT ![w] = Idle]
  PROVE  /\ writer'[w].key = NoKey
         /\ \A v \in Writers \ {w} : writer'[v] = writer[v]
BY DEF TypeOK, Idle, At

LEMMA BeginSafe ==
  ASSUME Disturbances = {}, IndInv, NEW w \in Writers, NEW k \in Keys,
         NEW c \in Contents, Begin(w, k, c)
  PROVE  Alone' /\ TiersExpected' /\ StoresInOrder' /\ CarriedExpected'
<1>1. /\ \A v \in Writers : writer[v].key # k
      /\ \A r \in Readers : reader[r].key # k
      /\ uploader.key # k
      /\ c \in Small => disk[k] = NoBytes
  BY NamesAssumption DEF Begin, MayStore, Storing, LookingUp
<1>2. /\ writer'[w].phase = "blob" /\ writer'[w].key = k /\ writer'[w].bytes = c
      /\ \A v \in Writers \ {w} : writer'[v] = writer[v]
  BY WriterNow DEF Begin, IndInv, WriterPhases
<1>3. /\ expected'[k] = expected[k] \cup {c}
      /\ \A l \in Keys \ {k} : expected'[l] = expected[l]
      /\ UNCHANGED <<moka, blob, disk, reader, uploader>>
  BY DEF Begin, tiers, IndInv, TypeOK
<1>4. Ids \subseteq Keys
  BY NameFacts
<1>5. Alone'
  BY <1>1, <1>2, <1>3 DEF Alone, IndInv
<1>6. TiersExpected'
  BY <1>3, <1>4 DEF TiersExpected, IndInv
<1>7. StoresInOrder'
  BY <1>1, <1>2, <1>3, <1>4 DEF StoresInOrder, IndInv
<1>8. CarriedExpected'
  <2>1. \A id \in Ids : expected[id] \subseteq expected'[id]
    BY <1>3, <1>4
  <2>2. uploader.phase \in {"warm", "check", "send"} => uploader.key \in Ids
    BY DEF IndInv, Shape, UploaderShape
  <2> QED BY <1>3, <2>1, <2>2 DEF CarriedExpected, IndInv
<1> QED BY <1>5, <1>6, <1>7, <1>8

LEMMA StoreBlobSafe ==
  ASSUME IndInv, NEW w \in Writers, StoreBlob(w)
  PROVE  Alone' /\ TiersExpected' /\ StoresInOrder' /\ CarriedExpected'
<1> DEFINE k == writer[w].key
           c == writer[w].bytes
<1>1. k \in Keys /\ c \in Contents
  BY DEF StoreBlob, IndInv, Shape, WriterShape
<1>2. /\ writer'[w].phase = "moka" /\ writer'[w].key = k /\ writer'[w].bytes = c
      /\ \A v \in Writers \ {w} : writer'[v] = writer[v]
  BY <1>1, WriterNow DEF StoreBlob, IndInv, WriterPhases
<1>3. /\ blob'[k] \in {c, NoBytes}
      /\ \A l \in Keys \ {k} : blob'[l] = blob[l]
      /\ UNCHANGED <<moka, disk, reader, uploader, expected>>
  BY <1>1 DEF StoreBlob, Put, IndInv, TypeOK, Tier
<1>4. Ids \subseteq Keys
  BY NameFacts
<1>5. Alone'
  BY <1>2, <1>3 DEF Alone, IndInv
<1>6. TiersExpected'
  BY <1>3, <1>4 DEF TiersExpected, StoresInOrder, IndInv
<1>7. StoresInOrder'
  BY <1>2, <1>3, <1>4 DEF StoresInOrder, Alone, IndInv
<1>8. CarriedExpected'
  BY <1>3 DEF CarriedExpected, IndInv
<1> QED BY <1>5, <1>6, <1>7, <1>8

LEMMA DropMokaSafe ==
  ASSUME IndInv, NEW w \in Writers, DropMoka(w)
  PROVE  Alone' /\ TiersExpected' /\ StoresInOrder' /\ CarriedExpected'
<1> DEFINE k == writer[w].key
           c == writer[w].bytes
<1>1. k \in Keys /\ c \in Contents
  BY DEF DropMoka, IndInv, Shape, WriterShape
<1>2. /\ writer'[w].phase = "disk" /\ writer'[w].key = k /\ writer'[w].bytes = c
      /\ \A v \in Writers \ {w} : writer'[v] = writer[v]
  BY <1>1, WriterNow DEF DropMoka, IndInv, WriterPhases
<1>3. /\ moka'[k] = NoBytes /\ writer[w].phase = "moka"
      /\ \A l \in Keys \ {k} : moka'[l] = moka[l]
      /\ UNCHANGED <<blob, disk, reader, uploader, expected>>
  BY <1>1 DEF DropMoka, Put, IndInv, TypeOK, Tier
<1>4. Ids \subseteq Keys
  BY NameFacts
<1>5. Alone'
  BY <1>2, <1>3 DEF Alone, IndInv
<1>6. TiersExpected'
  BY <1>3, <1>4 DEF TiersExpected, IndInv
<1>7. StoresInOrder'
  BY <1>2, <1>3, <1>4 DEF StoresInOrder, Alone, IndInv
<1>8. CarriedExpected'
  BY <1>3 DEF CarriedExpected, IndInv
<1> QED BY <1>5, <1>6, <1>7, <1>8

\* A store returns: what the other tiers hold is the same content, or nothing.
LEMMA ReturnSafe ==
  ASSUME IndInv, NEW w \in Writers, StoreMoka(w) \/ StoreDisk(w)
  PROVE  Alone' /\ TiersExpected' /\ StoresInOrder' /\ CarriedExpected'
<1> DEFINE k == writer[w].key
           c == writer[w].bytes
<1>1. k \in Keys /\ c \in Contents
  BY DEF StoreMoka, StoreDisk, IndInv, Shape, WriterShape
<1>2. /\ writer'[w].key = NoKey
      /\ \A v \in Writers \ {w} : writer'[v] = writer[v]
  BY WriterDone DEF StoreMoka, StoreDisk, IndInv
<1>3. /\ expected'[k] = {c}
      /\ \A l \in Keys \ {k} :
            /\ expected'[l] = expected[l]
            /\ moka'[l] = moka[l] /\ blob'[l] = blob[l] /\ disk'[l] = disk[l]
      /\ UNCHANGED <<reader, uploader>>
  BY <1>1 DEF StoreMoka, StoreDisk, Put, IndInv, TypeOK, Tier
<1>4. Ids \subseteq Keys /\ NoKey \notin Ids
  BY NameFacts
<1>5. k \in Ids => /\ moka'[k] \in {c, NoBytes}
                   /\ blob'[k] \in {c, NoBytes}
                   /\ disk'[k] \in {c, NoBytes}
  <2>1. CASE StoreMoka(w)
    <3>1. moka'[k] = c /\ UNCHANGED <<blob, disk>>
      BY <1>1, <2>1 DEF StoreMoka, Put, IndInv, TypeOK, Tier
    <3> QED BY <2>1, <3>1 DEF StoreMoka, StoresInOrder, IndInv
  <2>2. CASE StoreDisk(w)
    <3>1. disk'[k] = c /\ UNCHANGED <<moka, blob>>
      BY <1>1, <2>2 DEF StoreDisk, Put, IndInv, TypeOK, Tier
    <3> QED BY <2>2, <3>1 DEF StoreDisk, StoresInOrder, IndInv
  <2> QED BY <2>1, <2>2
<1>6. Alone'
  BY <1>2, <1>3, <1>4 DEF Alone, IndInv
<1>7. TiersExpected'
  BY <1>3, <1>4, <1>5 DEF TiersExpected, IndInv
<1>8. StoresInOrder'
  BY <1>2, <1>3, <1>4 DEF StoresInOrder, Alone, IndInv
<1>9. CarriedExpected'
  <2>1. k \in Ids => uploader.key # k /\ \A r \in Readers : reader[r].key # k
    BY DEF Alone, IndInv
  <2>2. uploader.phase \in {"warm", "check", "send"} => uploader.key \in Ids
    BY DEF IndInv, Shape, UploaderShape
  <2> QED BY <1>3, <1>4, <2>1, <2>2 DEF CarriedExpected, IndInv
<1> QED BY <1>6, <1>7, <1>8, <1>9

LEMMA ReaderNow ==
  ASSUME TypeOK, NEW r \in Readers, NEW t, reader' = [reader EXCEPT ![r] = t]
  PROVE  /\ reader'[r] = t
         /\ \A q \in Readers \ {r} : reader'[q] = reader[q]
BY DEF TypeOK

LEMMA ReadSafe ==
  ASSUME Disturbances = {}, IndInv, Read
  PROVE  Alone' /\ TiersExpected' /\ StoresInOrder' /\ CarriedExpected'
<1> SUFFICES ASSUME NEW r \in Readers,
                    \/ \E k \in Keys : Look(r, k)
                    \/ LookBlob(r) \/ Warm(r) \/ LookDisk(r)
             PROVE  Alone' /\ TiersExpected' /\ StoresInOrder' /\ CarriedExpected'
  BY DEF Read
<1>0. Ids \subseteq Keys /\ NoKey \notin Ids
  BY NameFacts
<1>1. ASSUME NEW k \in Keys, Look(r, k)
      PROVE  Alone' /\ TiersExpected' /\ StoresInOrder' /\ CarriedExpected'
  <2>0. /\ reader'[r] = At("blob", k, NoBytes)
        /\ \A q \in Readers \ {r} : reader'[q] = reader[q]
    BY <1>1, ReaderNow DEF Look, IndInv
  <2>1. /\ reader'[r].key = k /\ reader'[r].phase = "blob"
        /\ \A q \in Readers \ {r} : reader'[q] = reader[q]
    BY <2>0 DEF At
  <2>2. \A v \in Writers : writer[v].key # k
    BY <1>1 DEF Look, MayLookUp, Storing
  <2>3. UNCHANGED <<tiers, writer, uploader, expected>>
    BY <1>1 DEF Look
  <2>4. Alone'
    BY <2>1, <2>2, <2>3 DEF Alone, IndInv
  <2>5. TiersExpected' /\ StoresInOrder'
    BY <2>3, TiersFade DEF tiers, IndInv
  <2>6. CarriedExpected'
    BY <2>1, <2>3 DEF CarriedExpected, IndInv
  <2> QED BY <2>4, <2>5, <2>6
<1>2. CASE LookBlob(r)
  <2> DEFINE k == reader[r].key
  <2>1. /\ reader'[r] = AfterBlob(k)
        /\ \A q \in Readers \ {r} : reader'[q] = reader[q]
    BY <1>2, ReaderNow DEF LookBlob, IndInv
  <2>2. /\ reader'[r].key = k
        /\ reader'[r].phase = "warm" =>
              blob[k] # NoBytes /\ reader'[r].bytes = blob[k]
    BY <2>1 DEF AfterBlob, At
  <2>3. UNCHANGED <<tiers, writer, uploader, expected>>
    BY <1>2 DEF LookBlob
  <2>4. Alone'
    BY <2>1, <2>2, <2>3 DEF Alone, IndInv
  <2>5. TiersExpected' /\ StoresInOrder'
    BY <2>3, TiersFade DEF tiers, IndInv
  <2>6. CarriedExpected'
    BY <2>1, <2>2, <2>3 DEF CarriedExpected, TiersExpected, IndInv
  <2> QED BY <2>4, <2>5, <2>6
<1>3. CASE Warm(r)
  <2> DEFINE k == reader[r].key
  <2>0. /\ reader'[r] = Idle
        /\ \A q \in Readers \ {r} : reader'[q] = reader[q]
    BY <1>3, ReaderNow DEF Warm, IndInv
  <2>1. /\ reader'[r].key = NoKey
        /\ \A q \in Readers \ {r} : reader'[q] = reader[q]
    BY <2>0 DEF Idle, At
  <2>2. /\ k \in Keys /\ moka'[k] = reader[r].bytes
        /\ \A l \in Keys \ {k} : moka'[l] = moka[l]
        /\ UNCHANGED <<blob, disk, writer, uploader, expected>>
    BY <1>3 DEF Warm, Put, IndInv, TypeOK, Tier, Shape, ReaderShape
  <2>3. k \in Ids => /\ reader[r].bytes \in expected[k]
                     /\ \A v \in Writers : writer[v].key # k
    BY <1>3 DEF Warm, CarriedExpected, Alone, IndInv
  <2>4. Alone'
    BY <1>0, <2>1, <2>2 DEF Alone, IndInv
  <2>5. TiersExpected'
    BY <1>0, <2>2, <2>3 DEF TiersExpected, IndInv
  <2>6. StoresInOrder'
    BY <1>0, <2>2, <2>3 DEF StoresInOrder, IndInv
  <2>7. CarriedExpected'
    BY <1>0, <2>1, <2>2 DEF CarriedExpected, IndInv
  <2> QED BY <2>4, <2>5, <2>6, <2>7
<1>4. CASE LookDisk(r)
  <2>0. /\ reader'[r] = Idle
        /\ \A q \in Readers \ {r} : reader'[q] = reader[q]
    BY <1>4, ReaderNow DEF LookDisk, IndInv
  <2>1. /\ reader'[r].key = NoKey
        /\ \A q \in Readers \ {r} : reader'[q] = reader[q]
    BY <2>0 DEF Idle, At
  <2>2. UNCHANGED <<tiers, writer, uploader, expected>>
    BY <1>4 DEF LookDisk
  <2>3. Alone'
    BY <1>0, <2>1, <2>2 DEF Alone, IndInv
  <2>4. TiersExpected' /\ StoresInOrder'
    BY <2>2, TiersFade DEF tiers, IndInv
  <2>5. CarriedExpected'
    BY <1>0, <2>1, <2>2 DEF CarriedExpected, IndInv
  <2> QED BY <2>3, <2>4, <2>5
<1> QED BY <1>1, <1>2, <1>3, <1>4

LEMMA UploadSafe ==
  ASSUME Disturbances = {}, IndInv, Upload
  PROVE  Alone' /\ TiersExpected' /\ StoresInOrder' /\ CarriedExpected'
<1>0. /\ Ids \subseteq Keys /\ NoKey \notin Ids /\ Contents \subseteq Keys
      /\ Ids \cap Contents = {}
      /\ uploader.phase # "idle" => uploader.key \in Ids
      /\ uploader.phase \in Moving => uploader.bytes \in Contents
      /\ moka \in Tier /\ blob \in Tier /\ disk \in Tier
  BY NameFacts DEF IndInv, Shape, UploaderShape, TypeOK
<1>1. UNCHANGED <<writer, reader, expected>>
  BY DEF Upload, Load, LoadBlob, LoadWarm, LoadDisk, Check, Sent, Migrate,
         CopyBlob, DeleteBlob, MigrateMoka, RenameFile, Migrated
<1>2. Alone'
  <2>1. ASSUME uploader'.key \in {uploader.key, NoKey} PROVE Alone'
    BY <1>0, <1>1, <2>1 DEF Alone, IndInv
  <2>2. ASSUME NEW id \in Ids, Load(id) PROVE Alone'
    <3>1. \A v \in Writers : writer[v].key # id
      BY <2>2 DEF Load, MayLookUp, Storing
    <3>2. uploader'.key = id
      BY <2>2 DEF Load, At
    <3> QED BY <1>1, <3>1, <3>2 DEF Alone, IndInv
  <2>3. CASE ~ \E id \in Ids : Load(id)
    <3>1. uploader'.key \in {uploader.key, NoKey}
      BY <2>3 DEF Upload, LoadBlob, AfterBlob, LoadWarm, LoadDisk, Check, Sent,
                  Migrate, CopyBlob, DeleteBlob, MigrateMoka, RenameFile,
                  Migrated, Stage, At, Idle
    <3> QED BY <2>1, <3>1
  <2> QED BY <2>2, <2>3
<1>3. CarriedExpected'
  <2>1. ASSUME uploader'.phase \in {"warm", "check", "send"} =>
                  uploader'.bytes \in expected[uploader'.key]
        PROVE  CarriedExpected'
    BY <1>1, <2>1 DEF CarriedExpected, IndInv
  <2>2. ASSUME NEW id \in Ids, Load(id) PROVE CarriedExpected'
    BY <2>1, <2>2 DEF Load, At, TiersExpected, IndInv
  <2>3. CASE LoadBlob
    BY <1>0, <2>1, <2>3 DEF LoadBlob, AfterBlob, At, TiersExpected, IndInv
  <2>4. CASE LoadWarm
    BY <2>1, <2>4 DEF LoadWarm, Stage, At, CarriedExpected, IndInv
  <2>5. CASE LoadDisk
    BY <1>0, <2>1, <2>5 DEF LoadDisk, Idle, At, TiersExpected, IndInv
  <2>6. CASE Check
    BY <1>0, <2>1, <2>6 DEF Check, At, TiersExpected, CarriedExpected, IndInv
  <2>7. CASE Sent \/ Migrate \/ CopyBlob \/ DeleteBlob \/ MigrateMoka
             \/ RenameFile \/ Migrated
    BY <2>1, <2>7 DEF Sent, Migrate, CopyBlob, DeleteBlob, MigrateMoka,
                      RenameFile, Migrated, Stage, Idle, At
  <2> QED BY <2>2, <2>3, <2>4, <2>5, <2>6, <2>7 DEF Upload
<1>4. TiersExpected' /\ StoresInOrder'
  <2>1. CASE LoadWarm
    <3> DEFINE id == uploader.key
    <3>1. /\ id \in Ids /\ moka'[id] = uploader.bytes
          /\ \A l \in Keys \ {id} : moka'[l] = moka[l]
          /\ UNCHANGED <<blob, disk>>
      BY <1>0, <2>1 DEF LoadWarm, Put, Tier
    <3>2. /\ uploader.bytes \in expected[id]
          /\ \A v \in Writers : writer[v].key # id
      BY <2>1, <3>1 DEF LoadWarm, CarriedExpected, Alone, IndInv
    <3>3. TiersExpected'
      BY <1>0, <1>1, <3>1, <3>2 DEF TiersExpected, IndInv
    <3>4. StoresInOrder'
      BY <1>0, <1>1, <3>1, <3>2 DEF StoresInOrder, IndInv
    <3> QED BY <3>3, <3>4
  <2>2. ASSUME \A id \in Ids : /\ moka'[id] \in {moka[id], NoBytes}
                               /\ blob'[id] \in {blob[id], NoBytes}
                               /\ disk'[id] \in {disk[id], NoBytes}
        PROVE  TiersExpected' /\ StoresInOrder'
    BY <1>1, <2>2, TiersFade DEF IndInv
  <2>3. CASE UNCHANGED tiers
    BY <2>2, <2>3 DEF tiers
  <2>4. CASE CopyBlob
    <3>1. uploader.bytes \in Contents /\ UNCHANGED <<moka, disk>>
      BY <1>0, <2>4 DEF CopyBlob, Moving
    <3>2. \A id \in Ids : blob'[id] = blob[id]
      BY <1>0, <2>4, <3>1 DEF CopyBlob, Put, Tier
    <3> QED BY <2>2, <3>1, <3>2
  <2>5. CASE DeleteBlob
    <3>1. \A id \in Ids : blob'[id] \in {blob[id], NoBytes}
      BY <1>0, <2>5 DEF DeleteBlob, Put, Tier
    <3> QED BY <2>2, <2>5, <3>1 DEF DeleteBlob
  <2>6. CASE MigrateMoka
    <3>1. uploader.bytes \in Contents /\ UNCHANGED <<blob, disk>>
      BY <1>0, <2>6 DEF MigrateMoka, Moving
    <3>2. \A id \in Ids : moka'[id] \in {moka[id], NoBytes}
      BY <1>0, <2>6, <3>1 DEF MigrateMoka, Put, Tier
    <3> QED BY <2>2, <3>1, <3>2
  <2>7. CASE RenameFile
    <3>1. uploader.bytes \in Contents /\ UNCHANGED <<moka, blob>>
      BY <1>0, <2>7 DEF RenameFile, Moving
    <3>2. \A id \in Ids : disk'[id] \in {disk[id], NoBytes}
      BY <1>0, <2>7, <3>1 DEF RenameFile, Put, Tier
    <3> QED BY <2>2, <3>1, <3>2
  <2> QED BY <2>1, <2>3, <2>4, <2>5, <2>6, <2>7
          DEF Upload, Load, LoadBlob, LoadDisk, Check, Sent, Migrate, Migrated
<1> QED BY <1>2, <1>3, <1>4

LEMMA SafeInit == Init => IndInv
<1> SUFFICES ASSUME Init PROVE IndInv
  OBVIOUS
<1>1. TypeOK /\ Shape
  BY TypeInit
<1>2. /\ \A w \in Writers : writer[w].key = NoKey
      /\ \A r \in Readers : reader[r].key = NoKey
      /\ uploader.phase = "idle"
      /\ \A id \in Ids : moka[id] = NoBytes /\ blob[id] = NoBytes /\ disk[id] = NoBytes
      /\ NoKey \notin Ids
  BY NameFacts DEF Init, Idle, At, NoContent
<1> QED BY <1>1, <1>2
        DEF IndInv, Alone, TiersExpected, StoresInOrder, CarriedExpected

LEMMA SafeStep ==
  ASSUME Disturbances = {}
  PROVE  IndInv /\ [Next]_vars => IndInv'
<1> SUFFICES ASSUME IndInv, [Next]_vars PROVE IndInv'
  OBVIOUS
<1>0. TypeOK' /\ Shape'
  BY TypeStep DEF IndInv
<1> SUFFICES Alone' /\ TiersExpected' /\ StoresInOrder' /\ CarriedExpected'
  BY <1>0 DEF IndInv
<1>1. CASE Store
  BY <1>1, BeginSafe, StoreBlobSafe, DropMokaSafe, ReturnSafe DEF Store
<1>2. CASE Read BY <1>2, ReadSafe
<1>3. CASE Upload BY <1>3, UploadSafe
<1>4. CASE Crash
  <2>1. /\ \A w \in Writers : writer'[w].key = NoKey
        /\ \A r \in Readers : reader'[r].key = NoKey
        /\ uploader'.phase = "idle" /\ uploader'.key = NoKey
        /\ \A id \in Ids : moka'[id] = NoBytes
        /\ UNCHANGED <<blob, disk, expected>>
        /\ NoKey \notin Ids
    BY <1>4, NameFacts DEF Crash, Idle, At, NoContent
  <2>2. Alone' /\ StoresInOrder' /\ CarriedExpected'
    BY <2>1 DEF Alone, StoresInOrder, CarriedExpected
  <2>3. TiersExpected'
    BY <2>1 DEF TiersExpected, IndInv
  <2> QED BY <2>2, <2>3
<1>5. ASSUME NEW k \in Keys, Expire(k) \/ Unlink(k)
      PROVE  Alone' /\ TiersExpected' /\ StoresInOrder' /\ CarriedExpected'
  <2>1. UNCHANGED <<blob, writer, reader, uploader, expected>>
    BY <1>5 DEF Expire, Unlink
  <2>2. \A id \in Ids : moka'[id] \in {moka[id], NoBytes}
                        /\ disk'[id] \in {disk[id], NoBytes}
    BY <1>5, NameFacts DEF Expire, Unlink, Put, IndInv, TypeOK, Tier
  <2>3. TiersExpected' /\ StoresInOrder'
    BY <2>1, <2>2, TiersFade DEF IndInv
  <2> QED BY <2>1, <2>3 DEF Alone, CarriedExpected, IndInv
<1>6. CASE UNCHANGED vars
  BY <1>6 DEF vars, IndInv, Alone, TiersExpected, StoresInOrder, CarriedExpected
<1> QED BY <1>1, <1>2, <1>3, <1>4, <1>5, <1>6 DEF Next

\* Without shrinking contents and overlaps on one key, the uploader sends the
\* content stored last under its id, or a later one, whichever tiers it is read
\* from and whatever is evicted, migrated or interrupted (upload_entry).
THEOREM StoredIsUploaded ==
  ASSUME Disturbances = {}
  PROVE  Spec => []UploadsWhatWasStored
<1>1. Init => IndInv
  BY SafeInit
<1>2. IndInv /\ [Next]_vars => IndInv'
  BY SafeStep
<1>3. IndInv => UploadsWhatWasStored
  BY DEF IndInv, CarriedExpected, UploadsWhatWasStored
<1> QED BY <1>1, <1>2, <1>3, PTL DEF Spec

-----------------------------------------------------------------------------
(***************************************************************************)
(* Without the disturbances ContentStore implements ContentMap, and loses  *)
(* no content.  Both rest on one invariant about all keys, file ids and    *)
(* sums: a key has a file on disk or a BLOB, not both (Copies); what moka  *)
(* has is the BLOB, or a store or a migration that is past the BLOB will   *)
(* drop it (Backed); and the threads know how far they have come (the      *)
(* three stages).                                                          *)
(***************************************************************************)


\* A store has its key to itself, ...
StoresAlone ==
    \A w \in Writers : writer[w].phase # "idle" =>
        LET k == writer[w].key
        IN  /\ \A v \in Writers \ {w} : writer[v].key # k
            /\ \A r \in Readers : reader[r].key # k
            /\ uploader.key # k
            /\ uploader.phase \in Moving => uploader.bytes # k

\* ... and a migration both of its keys.
MovesAlone ==
    uploader.phase \in Moving =>
        \A r \in Readers : reader[r].key \notin {uploader.key, uploader.bytes}

\* Each tier has its kind of contents, the sums lead to their contents only, and
\* what is on disk is nowhere else.
Copies(k) ==
    /\ moka[k] \in Small \cup {NoBytes} /\ blob[k] \in Small \cup {NoBytes}
    /\ disk[k] \in Large \cup {NoBytes}
    /\ disk[k] # NoBytes => moka[k] = NoBytes /\ blob[k] = NoBytes
    /\ k \in Contents => {moka[k], blob[k], disk[k]} \subseteq {k, NoBytes}

\* What is in moka is in the BLOB too, but for a store or a migration.
Backed(k) ==
    moka[k] # NoBytes =>
        \/ blob[k] = moka[k]
        \/ \E w \in Writers : writer[w].phase = "moka" /\ writer[w].key = k
        \/ /\ uploader.phase = "moka" /\ uploader.key = k
           /\ blob[uploader.bytes] = uploader.bytes

\* What a store has done so far.
WriterStage(w) ==
    writer[w].phase # "idle" =>
        LET k == writer[w].key
            c == writer[w].bytes
        IN  /\ k \in Contents => c = k
            /\ c \in Small => disk[k] = NoBytes
            /\ writer[w].phase \in {"moka", "disk"} =>
                  blob[k] = IF c \in Small THEN c ELSE NoBytes
            /\ writer[w].phase = "disk" => c \in Large /\ moka[k] = NoBytes

\* What a lookup is about to put into moka.
ReaderStage(r) ==
    reader[r].phase = "warm" =>
        reader[r].bytes # NoBytes /\ reader[r].bytes = blob[reader[r].key]

\* What the uploader has is what the tiers have, and what it has moved is gone.
UploaderStage ==
    LET k == uploader.key
        c == uploader.bytes
    IN  /\ uploader.phase = "warm" => c # NoBytes /\ c = blob[k]
        /\ uploader.phase \in {"check", "send"} \cup Moving =>
              {moka[k], blob[k], disk[k]} \subseteq {c, NoBytes}
        /\ uploader.phase = "delete" => blob[c] = c
        /\ uploader.phase \in {"moka", "rename", "done"} => blob[k] = NoBytes
        /\ uploader.phase \in {"rename", "done"} => moka[k] = NoBytes

MapInv ==
    /\ TypeOK /\ Shape
    /\ StoresAlone /\ MovesAlone
    /\ \A k \in Keys : Copies(k) /\ Backed(k)
    /\ \A w \in Writers : WriterStage(w)
    /\ \A r \in Readers : ReaderStage(r)
    /\ UploaderStage

MapSafe ==
    /\ StoresAlone /\ MovesAlone
    /\ \A k \in Keys : Copies(k) /\ Backed(k)
    /\ \A w \in Writers : WriterStage(w)
    /\ \A r \in Readers : ReaderStage(r)
    /\ UploaderStage

-----------------------------------------------------------------------------
(* The invariant.                                                           *)

LEMMA KindFacts ==
  /\ Small \cup Large = Contents /\ Small \cap Large = {}
  /\ NoBytes \notin Contents /\ Contents \subseteq Keys
  /\ Ids \subseteq Keys /\ Ids \cap Contents = {} /\ NoKey \notin Keys
BY NamesAssumption DEF Contents, Keys

\* A thread at work has a key, and the key is what it is at work on.
LEMMA AtWork ==
  ASSUME TypeOK, Shape
  PROVE  /\ \A w \in Writers :
               /\ writer[w].phase \in {"idle", "blob", "moka", "disk"}
               /\ writer[w].phase = "idle" => writer[w].key = NoKey
               /\ writer[w].phase # "idle" =>
                     writer[w].key \in Keys /\ writer[w].bytes \in Contents
         /\ \A r \in Readers :
               /\ reader[r].phase = "idle" => reader[r].key = NoKey
               /\ reader[r].phase # "idle" => reader[r].key \in Keys
         /\ uploader.phase = "idle" => uploader.key = NoKey
         /\ uploader.phase # "idle" => uploader.key \in Ids /\ uploader.key \in Keys
         /\ uploader.phase \in {"warm", "check", "send"} \cup Moving =>
               uploader.bytes \in Contents /\ uploader.bytes \in Keys
<1>1. \A w \in Writers : writer[w].phase \in {"idle", "blob", "moka", "disk"}
  BY DEF TypeOK, Thread
<1> QED BY <1>1, KindFacts DEF Shape, WriterShape, ReaderShape, UploaderShape

LEMMA PutFacts ==
  ASSUME TypeOK, NEW k \in Keys, NEW c
  PROVE  /\ Put(moka, k, c)[k] = c /\ Put(blob, k, c)[k] = c /\ Put(disk, k, c)[k] = c
         /\ \A l \in Keys \ {k} : /\ Put(moka, k, c)[l] = moka[l]
                                  /\ Put(blob, k, c)[l] = blob[l]
                                  /\ Put(disk, k, c)[l] = disk[l]
BY DEF TypeOK, Tier, Put

LEMMA WriterRests ==
  ASSUME TypeOK, NEW w \in Writers, writer' = [writer EXCEPT ![w] = Idle]
  PROVE  /\ writer'[w].phase = "idle" /\ writer'[w].key = NoKey
         /\ \A v \in Writers \ {w} : writer'[v] = writer[v]
BY DEF TypeOK, Idle, At

LEMMA MapBegin ==
  ASSUME Disturbances = {}, MapInv, NEW w \in Writers, NEW k \in Keys,
         NEW c \in Contents, Begin(w, k, c)
  PROVE  MapSafe'
<1>1. /\ writer'[w].phase = "blob" /\ writer'[w].key = k /\ writer'[w].bytes = c
      /\ \A v \in Writers \ {w} : writer'[v] = writer[v]
  BY WriterNow DEF Begin, MapInv, WriterPhases
<1>2. /\ writer[w].phase = "idle" /\ (k \in Contents => c = k)
      /\ c \in Large \/ disk[k] = NoBytes
      /\ UNCHANGED <<moka, blob, disk, reader, uploader>>
  BY DEF Begin, tiers
<1>3. /\ \A v \in Writers : writer[v].key # k
      /\ \A r \in Readers : reader[r].key # k
      /\ uploader.key # k /\ (uploader.phase \in Moving => uploader.bytes # k)
  BY DEF Begin, MayStore, Storing, LookingUp, Migrating
<1>4. StoresAlone' /\ MovesAlone'
  BY <1>1, <1>2, <1>3 DEF StoresAlone, MovesAlone, MapInv
<1>5. \A l \in Keys : Copies(l)' /\ Backed(l)'
  BY <1>1, <1>2 DEF MapInv, Copies, Backed
<1>6. \A v \in Writers : WriterStage(v)'
  BY <1>1, <1>2, KindFacts DEF MapInv, WriterStage
<1>7. (\A r \in Readers : ReaderStage(r)') /\ UploaderStage'
  BY <1>2 DEF MapInv, ReaderStage, UploaderStage
<1> QED BY <1>4, <1>5, <1>6, <1>7 DEF MapSafe

\* A step of a store concerns its key only.
LEMMA MapStoreStep ==
  ASSUME MapInv, NEW w \in Writers, writer[w].phase # "idle",
         NEW k \in Keys, k = writer[w].key,
         \/ writer'[w].phase # "idle" /\ writer'[w].key = k
         \/ writer'[w].phase = "idle" /\ writer'[w].key = NoKey,
         \A v \in Writers \ {w} : writer'[v] = writer[v],
         \A l \in Keys \ {k} : /\ moka'[l] = moka[l] /\ blob'[l] = blob[l]
                               /\ disk'[l] = disk[l],
         UNCHANGED <<reader, uploader>>,
         Copies(k)', Backed(k)', WriterStage(w)'
  PROVE  MapSafe'
<1>1. /\ \A v \in Writers \ {w} : writer[v].key # k
      /\ \A r \in Readers : reader[r].key # k
      /\ uploader.key # k /\ (uploader.phase \in Moving => uploader.bytes # k)
  BY DEF MapInv, StoresAlone
<1>2. /\ uploader.phase # "idle" => uploader.key \in Keys \ {k}
      /\ uploader.phase \in Moving => uploader.bytes \in Keys \ {k}
  BY <1>1, AtWork DEF MapInv
<1>3. StoresAlone' /\ MovesAlone'
  BY <1>1, AtWork, KindFacts DEF StoresAlone, MovesAlone, MapInv
<1>4. \A l \in Keys \ {k} : Copies(l)'
  BY DEF MapInv, Copies
<1>5. \A l \in Keys \ {k} : Backed(l)'
  BY <1>2 DEF MapInv, Backed, Moving
<1>6. \A v \in Writers \ {w} : WriterStage(v)'
  <2> SUFFICES ASSUME NEW v \in Writers \ {w} PROVE WriterStage(v)'
    OBVIOUS
  <2>1. writer[v].phase # "idle" => writer[v].key \in Keys \ {k}
    BY <1>1, AtWork DEF MapInv
  <2> QED BY <2>1 DEF MapInv, WriterStage
<1>7. \A r \in Readers : ReaderStage(r)'
  <2> SUFFICES ASSUME NEW r \in Readers PROVE ReaderStage(r)'
    OBVIOUS
  <2>1. reader[r].phase # "idle" => reader[r].key \in Keys \ {k}
    BY <1>1, AtWork DEF MapInv
  <2> QED BY <2>1 DEF MapInv, ReaderStage
<1>8. UploaderStage'
  BY <1>2 DEF MapInv, UploaderStage, Moving
<1> QED BY <1>3, <1>4, <1>5, <1>6, <1>7, <1>8 DEF MapSafe

LEMMA MapStoreBlob ==
  ASSUME MapInv, NEW w \in Writers, StoreBlob(w)
  PROVE  MapSafe'
<1> DEFINE k == writer[w].key
           c == writer[w].bytes
<1>1. k \in Keys /\ c \in Contents /\ writer[w].phase = "blob"
  BY AtWork DEF StoreBlob, MapInv
<1>2. /\ writer'[w].phase = "moka" /\ writer'[w].key = k /\ writer'[w].bytes = c
      /\ \A v \in Writers \ {w} : writer'[v] = writer[v]
  BY <1>1, WriterNow DEF StoreBlob, MapInv, WriterPhases
<1>3. /\ blob'[k] = IF c \in Small THEN c ELSE NoBytes
      /\ \A l \in Keys \ {k} : blob'[l] = blob[l]
      /\ UNCHANGED <<moka, disk, reader, uploader>>
  BY <1>1, PutFacts DEF StoreBlob, MapInv
<1>4. WriterStage(w)
  BY DEF MapInv
<1>5. Copies(k)'
  BY <1>1, <1>2, <1>3, <1>4, KindFacts DEF MapInv, Copies, WriterStage
<1>6. Backed(k)' /\ WriterStage(w)'
  BY <1>1, <1>2, <1>3, <1>4 DEF Backed, WriterStage
<1> QED BY <1>1, <1>2, <1>3, <1>5, <1>6, MapStoreStep

LEMMA MapStoreMoka ==
  ASSUME MapInv, NEW w \in Writers, StoreMoka(w)
  PROVE  MapSafe'
<1> DEFINE k == writer[w].key
           c == writer[w].bytes
<1>1. /\ k \in Keys /\ c \in Contents /\ writer[w].phase = "moka" /\ c \in Small
  BY AtWork DEF StoreMoka, MapInv
<1>2. /\ writer'[w].phase = "idle" /\ writer'[w].key = NoKey
      /\ \A v \in Writers \ {w} : writer'[v] = writer[v]
  BY WriterRests DEF StoreMoka, MapInv
<1>3. /\ moka'[k] = c
      /\ \A l \in Keys \ {k} : moka'[l] = moka[l]
      /\ UNCHANGED <<blob, disk, reader, uploader>>
  BY <1>1, PutFacts DEF StoreMoka, MapInv
<1>4. blob[k] = c /\ disk[k] = NoBytes /\ (k \in Contents => c = k)
  BY <1>1 DEF MapInv, WriterStage
<1>5. \A l \in {k} : Copies(l)' /\ Backed(l)'
  BY <1>1, <1>3, <1>4 DEF MapInv, Copies, Backed
<1>6. WriterStage(w)'
  BY <1>2 DEF WriterStage
<1> QED BY <1>1, <1>2, <1>3, <1>5, <1>6, MapStoreStep

LEMMA MapDropMoka ==
  ASSUME MapInv, NEW w \in Writers, DropMoka(w)
  PROVE  MapSafe'
<1> DEFINE k == writer[w].key
           c == writer[w].bytes
<1>1. k \in Keys /\ c \in Contents /\ writer[w].phase = "moka" /\ c \in Large
  BY AtWork DEF DropMoka, MapInv
<1>2. /\ writer'[w].phase = "disk" /\ writer'[w].key = k /\ writer'[w].bytes = c
      /\ \A v \in Writers \ {w} : writer'[v] = writer[v]
  BY <1>1, WriterNow DEF DropMoka, MapInv, WriterPhases
<1>3. /\ moka'[k] = NoBytes
      /\ \A l \in Keys \ {k} : moka'[l] = moka[l]
      /\ UNCHANGED <<blob, disk, reader, uploader>>
  BY <1>1, PutFacts DEF DropMoka, MapInv
<1>4. \A l \in {k} : Copies(l)' /\ Backed(l)'
  BY <1>1, <1>3 DEF MapInv, Copies, Backed
<1>5. WriterStage(w)'
  BY <1>1, <1>2, <1>3, KindFacts DEF MapInv, WriterStage
<1> QED BY <1>1, <1>2, <1>3, <1>4, <1>5, MapStoreStep

LEMMA MapStoreDisk ==
  ASSUME MapInv, NEW w \in Writers, StoreDisk(w)
  PROVE  MapSafe'
<1> DEFINE k == writer[w].key
           c == writer[w].bytes
<1>1. k \in Keys /\ c \in Contents /\ writer[w].phase = "disk"
  BY AtWork DEF StoreDisk, MapInv
<1>2. /\ writer'[w].phase = "idle" /\ writer'[w].key = NoKey
      /\ \A v \in Writers \ {w} : writer'[v] = writer[v]
  BY WriterRests DEF StoreDisk, MapInv
<1>3. /\ disk'[k] = c
      /\ \A l \in Keys \ {k} : disk'[l] = disk[l]
      /\ UNCHANGED <<moka, blob, reader, uploader>>
  BY <1>1, PutFacts DEF StoreDisk, MapInv
<1>4. /\ moka[k] = NoBytes /\ blob[k] = NoBytes /\ c \in Large
      /\ k \in Contents => c = k
  BY <1>1, KindFacts DEF MapInv, WriterStage
<1>5. \A l \in {k} : Copies(l)' /\ Backed(l)'
  BY <1>1, <1>3, <1>4 DEF MapInv, Copies, Backed
<1>6. WriterStage(w)'
  BY <1>2 DEF WriterStage
<1> QED BY <1>1, <1>2, <1>3, <1>5, <1>6, MapStoreStep

\* The readers.
LEMMA MapRead ==
  ASSUME Disturbances = {}, MapInv, Read
  PROVE  MapSafe'
<1> SUFFICES ASSUME NEW r \in Readers,
                    \/ \E k \in Keys : Look(r, k)
                    \/ LookBlob(r) \/ Warm(r) \/ LookDisk(r)
             PROVE  MapSafe'
  BY DEF Read
<1>1. ASSUME UNCHANGED <<moka, blob, disk, writer, uploader>>,
             \A q \in Readers \ {r} : reader'[q] = reader[q],
             \/ reader'[r].key \in {reader[r].key, NoKey}
             \/ /\ \A w \in Writers : writer[w].key # reader'[r].key
                /\ uploader.phase \in Moving =>
                      reader'[r].key \notin {uploader.key, uploader.bytes},
             ReaderStage(r)'
      PROVE  MapSafe'
  <2>1. StoresAlone' /\ MovesAlone'
    <3>1. /\ \A w \in Writers : writer[w].phase # "idle" => writer[w].key # NoKey
          /\ uploader.phase \in Moving => NoKey \notin {uploader.key, uploader.bytes}
      BY AtWork, KindFacts DEF MapInv, Moving
    <3>2. StoresAlone'
      BY <1>1, <3>1 DEF MapInv, StoresAlone
    <3>3. MovesAlone'
      BY <1>1, <3>1 DEF MapInv, MovesAlone
    <3> QED BY <3>2, <3>3
  <2>2. \A k \in Keys : Copies(k)' /\ Backed(k)'
    BY <1>1 DEF MapInv, Copies, Backed
  <2>3. \A w \in Writers : WriterStage(w)'
    BY <1>1 DEF MapInv, WriterStage
  <2>4. \A q \in Readers : ReaderStage(q)'
    BY <1>1 DEF MapInv, ReaderStage
  <2>5. UploaderStage'
    BY <1>1 DEF MapInv, UploaderStage
  <2> QED BY <2>1, <2>2, <2>3, <2>4, <2>5 DEF MapSafe
<1>2. ASSUME NEW k \in Keys, Look(r, k) PROVE MapSafe'
  <2>1. /\ reader'[r] = At("blob", k, NoBytes)
        /\ \A q \in Readers \ {r} : reader'[q] = reader[q]
    BY <1>2, ReaderNow DEF Look, MapInv
  <2>2. reader'[r].key = k /\ reader'[r].phase = "blob"
    BY <2>1 DEF At
  <2>3. /\ \A w \in Writers : writer[w].key # k
        /\ uploader.phase \in Moving => k \notin {uploader.key, uploader.bytes}
        /\ UNCHANGED <<moka, blob, disk, writer, uploader>>
    BY <1>2 DEF Look, MayLookUp, Storing, Migrating, tiers
  <2>4. ReaderStage(r)'
    BY <2>2 DEF ReaderStage
  <2> QED BY <1>1, <2>1, <2>2, <2>3, <2>4
<1>3. CASE LookBlob(r)
  <2> DEFINE k == reader[r].key
  <2>1. /\ reader'[r] = AfterBlob(k)
        /\ \A q \in Readers \ {r} : reader'[q] = reader[q]
    BY <1>3, ReaderNow DEF LookBlob, MapInv
  <2>2. /\ reader'[r].key = k
        /\ reader'[r].phase = "warm" =>
              blob[k] # NoBytes /\ reader'[r].bytes = blob[k]
    BY <2>1 DEF AfterBlob, At
  <2>3. UNCHANGED <<moka, blob, disk, writer, uploader>>
    BY <1>3 DEF LookBlob, tiers
  <2>4. ReaderStage(r)'
    BY <2>2, <2>3 DEF ReaderStage
  <2> QED BY <1>1, <2>1, <2>2, <2>3, <2>4
<1>4. CASE LookDisk(r)
  <2>1. /\ reader'[r] = Idle
        /\ \A q \in Readers \ {r} : reader'[q] = reader[q]
    BY <1>4, ReaderNow DEF LookDisk, MapInv
  <2>2. reader'[r].key = NoKey /\ reader'[r].phase = "idle"
    BY <2>1 DEF Idle, At
  <2>3. UNCHANGED <<moka, blob, disk, writer, uploader>>
    BY <1>4 DEF LookDisk, tiers
  <2>4. ReaderStage(r)'
    BY <2>2 DEF ReaderStage
  <2> QED BY <1>1, <2>1, <2>2, <2>3, <2>4
<1>5. CASE Warm(r)
  <2> DEFINE k == reader[r].key
  <2>1. /\ reader'[r] = Idle
        /\ \A q \in Readers \ {r} : reader'[q] = reader[q]
    BY <1>5, ReaderNow DEF Warm, MapInv
  <2>2. reader'[r].key = NoKey /\ reader'[r].phase = "idle"
    BY <2>1 DEF Idle, At
  <2>3. k \in Keys /\ reader[r].bytes # NoBytes /\ reader[r].bytes = blob[k]
    BY <1>5, AtWork DEF Warm, MapInv, ReaderStage
  <2>4. /\ moka'[k] = blob[k]
        /\ \A l \in Keys \ {k} : moka'[l] = moka[l]
        /\ UNCHANGED <<blob, disk, writer, uploader>>
    BY <1>5, <2>3, PutFacts DEF Warm, MapInv
  <2>5. /\ \A w \in Writers : writer[w].phase # "idle" => writer[w].key \in Keys \ {k}
        /\ uploader.phase \in Moving => k \notin {uploader.key, uploader.bytes}
    BY AtWork DEF MapInv, StoresAlone, MovesAlone
  <2>6. StoresAlone' /\ MovesAlone'
    <3>1. /\ \A w \in Writers : writer[w].phase # "idle" => writer[w].key # NoKey
          /\ uploader.phase \in Moving => NoKey \notin {uploader.key, uploader.bytes}
      BY AtWork, KindFacts DEF MapInv, Moving
    <3>2. StoresAlone'
      BY <2>1, <2>2, <2>4, <3>1 DEF MapInv, StoresAlone
    <3>3. MovesAlone'
      BY <2>1, <2>2, <2>4, <3>1 DEF MapInv, MovesAlone
    <3> QED BY <3>2, <3>3
  <2>7. \A l \in Keys : Copies(l)' /\ Backed(l)'
    BY <2>3, <2>4 DEF MapInv, Copies, Backed
  <2>8. \A w \in Writers : WriterStage(w)'
    BY <2>4, <2>5 DEF MapInv, WriterStage
  <2>9. \A q \in Readers : ReaderStage(q)'
    BY <2>1, <2>2, <2>4 DEF MapInv, ReaderStage
  <2>10. UploaderStage'
    <3>1. uploader.phase # "idle" => uploader.key \in Keys
      BY AtWork DEF MapInv
    <3> QED BY <2>3, <2>4, <2>5, <3>1 DEF MapInv, UploaderStage, Moving
  <2> QED BY <2>6, <2>7, <2>8, <2>9, <2>10 DEF MapSafe
<1> QED BY <1>2, <1>3, <1>4, <1>5

\* The uploader, as long as it leaves the tiers alone.
LEMMA MapUploadQuiet ==
  ASSUME MapInv, UNCHANGED <<moka, blob, disk, writer, reader>>,
         uploader.phase # "moka",
         StoresAlone', MovesAlone', UploaderStage'
  PROVE  MapSafe'
<1>1. \A k \in Keys : Copies(k)' /\ Backed(k)'
  BY DEF MapInv, Copies, Backed
<1>2. \A w \in Writers : WriterStage(w)'
  BY DEF MapInv, WriterStage
<1>3. \A r \in Readers : ReaderStage(r)'
  BY DEF MapInv, ReaderStage
<1> QED BY <1>1, <1>2, <1>3 DEF MapSafe

\* The uploader on its way to the migration, or back.
LEMMA MapLoad ==
  ASSUME Disturbances = {}, MapInv, NEW id \in Ids, Load(id)
  PROVE  MapSafe'
<1>1. /\ uploader'.key = id
      /\ \/ uploader'.phase = "blob"
         \/ uploader'.phase = "check" /\ uploader'.bytes = moka[id] /\ moka[id] # NoBytes
      /\ UNCHANGED <<moka, blob, disk, writer, reader>>
      /\ uploader.phase = "idle"
  BY DEF Load, At, tiers
<1>2. id \in Keys /\ \A w \in Writers : writer[w].key # id
  BY KindFacts DEF Load, MayLookUp, Storing
<1>3. StoresAlone' /\ MovesAlone'
  BY <1>1, <1>2 DEF StoresAlone, MovesAlone, MapInv, Moving
<1>4. UploaderStage'
  <2>1. Copies(id) /\ Backed(id)
    BY <1>2 DEF MapInv
  <2> QED BY <1>1, <1>2, <2>1 DEF UploaderStage, Moving, Copies, Backed
<1> QED BY <1>1, <1>3, <1>4, MapUploadQuiet

LEMMA MapLoadOn ==
  ASSUME MapInv, LoadBlob \/ LoadDisk \/ Check \/ Sent \/ Migrated
  PROVE  MapSafe'
<1> DEFINE k == uploader.key
<1>1. /\ UNCHANGED <<moka, blob, disk, writer, reader>>
      /\ uploader.phase \notin {"idle", "moka"} /\ k \in Keys
      /\ uploader'.phase \notin Moving
      /\ uploader'.phase = "idle" \/ uploader'.key = k
      /\ uploader'.phase = "idle" => uploader'.key = NoKey
  <2>1. /\ UNCHANGED <<moka, blob, disk, writer, reader>>
        /\ uploader.phase \notin {"idle", "moka"}
    BY DEF LoadBlob, LoadDisk, Check, Sent, Migrated, tiers
  <2>2. /\ uploader'.phase \notin Moving
        /\ uploader'.phase = "idle" \/ uploader'.key = k
        /\ uploader'.phase = "idle" => uploader'.key = NoKey
    BY DEF LoadBlob, AfterBlob, LoadDisk, Check, Sent, Migrated, At, Idle, Moving
  <2> QED BY <2>1, <2>2, AtWork DEF MapInv
<1>2. StoresAlone' /\ MovesAlone'
  BY <1>1, AtWork, KindFacts DEF StoresAlone, MovesAlone, MapInv
<1>3. UploaderStage'
  <2>1. Copies(k)
    BY <1>1 DEF MapInv
  <2>2. CASE LoadBlob
    <3>1. /\ uploader'.phase = "disk"
          \/ /\ uploader'.phase = "warm" /\ uploader'.key = k
             /\ uploader'.bytes = blob[k] /\ blob[k] # NoBytes
      BY <2>2 DEF LoadBlob, AfterBlob, At
    <3> QED BY <1>1, <3>1 DEF UploaderStage, Moving
  <2>3. CASE LoadDisk
    <3>1. \/ uploader'.phase = "idle"
          \/ /\ uploader'.phase = "check" /\ uploader'.key = k
             /\ uploader'.bytes = disk[k] /\ disk[k] # NoBytes
      BY <2>3 DEF LoadDisk, At, Idle
    <3> QED BY <1>1, <2>1, <3>1 DEF UploaderStage, Copies, Moving
  <2>4. CASE Check
    <3>1. /\ uploader'.phase = "send" /\ uploader'.key = k
          /\ uploader'.bytes = IF uploader.bytes = Empty /\ disk[k] # NoBytes
                               THEN disk[k] ELSE uploader.bytes
          /\ uploader.phase = "check"
      BY <2>4 DEF Check, At
    <3> QED BY <1>1, <2>1, <3>1 DEF MapInv, UploaderStage, Copies, Moving
  <2>5. CASE Sent \/ Migrated
    BY <1>1, <2>5 DEF Sent, Migrated, Idle, At, UploaderStage, Moving
  <2> QED BY <2>2, <2>3, <2>4, <2>5
<1> QED BY <1>1, <1>2, <1>3, MapUploadQuiet

LEMMA MapLoadWarm ==
  ASSUME MapInv, LoadWarm
  PROVE  MapSafe'
<1> DEFINE k == uploader.key
<1>1. /\ uploader.phase = "warm" /\ k \in Keys
      /\ uploader.bytes # NoBytes /\ uploader.bytes = blob[k]
  BY AtWork DEF LoadWarm, MapInv, UploaderStage
<1>2. /\ moka'[k] = blob[k]
      /\ \A l \in Keys \ {k} : moka'[l] = moka[l]
      /\ UNCHANGED <<blob, disk, writer, reader>>
  BY <1>1, PutFacts DEF LoadWarm, MapInv
<1>3. uploader'.phase = "check" /\ uploader'.key = k /\ uploader'.bytes = blob[k]
  BY <1>1 DEF LoadWarm, Stage, At
<1>4. StoresAlone' /\ MovesAlone'
  BY <1>2, <1>3 DEF MapInv, StoresAlone, MovesAlone, Moving
<1>5. \A l \in Keys : Copies(l)' /\ Backed(l)'
  BY <1>1, <1>2 DEF MapInv, Copies, Backed
<1>6. \A w \in Writers : WriterStage(w)'
  <2>1. \A w \in Writers : writer[w].phase # "idle" => writer[w].key \in Keys \ {k}
    BY AtWork DEF MapInv, StoresAlone
  <2> QED BY <1>2, <2>1 DEF MapInv, WriterStage
<1>7. \A r \in Readers : ReaderStage(r)'
  BY <1>2 DEF MapInv, ReaderStage
<1>8. UploaderStage'
  <2>1. Copies(k)
    BY <1>1 DEF MapInv
  <2> QED BY <1>1, <1>2, <1>3, <2>1 DEF UploaderStage, Copies, Moving
<1> QED BY <1>4, <1>5, <1>6, <1>7, <1>8 DEF MapSafe

\* What the uploader knows while it moves.
LEMMA MoveFacts ==
  ASSUME MapInv, uploader.phase \in Moving
  PROVE  /\ uploader.key \in Keys /\ uploader.bytes \in Contents
         /\ uploader.bytes \in Keys /\ uploader.key # uploader.bytes
         /\ uploader.key \notin Contents
         /\ Copies(uploader.key) /\ Backed(uploader.key)
         /\ Copies(uploader.bytes) /\ Backed(uploader.bytes)
         /\ {moka[uploader.key], blob[uploader.key], disk[uploader.key]}
               \subseteq {uploader.bytes, NoBytes}
         /\ \A w \in Writers : writer[w].phase # "idle" =>
               writer[w].key \in Keys \ {uploader.key, uploader.bytes}
         /\ \A r \in Readers : reader[r].phase # "idle" =>
               reader[r].key \in Keys \ {uploader.key, uploader.bytes}
<1>1. uploader.key \in Ids /\ uploader.bytes \in Contents
  BY AtWork DEF MapInv, Moving
<1>2. /\ uploader.key \in Keys /\ uploader.bytes \in Keys
      /\ uploader.key # uploader.bytes /\ uploader.key \notin Contents
  BY <1>1, KindFacts
<1>3. {moka[uploader.key], blob[uploader.key], disk[uploader.key]}
         \subseteq {uploader.bytes, NoBytes}
  BY DEF MapInv, UploaderStage
<1>4. \A w \in Writers : writer[w].phase # "idle" =>
         writer[w].key \in Keys \ {uploader.key, uploader.bytes}
  BY AtWork DEF MapInv, StoresAlone
<1>5. \A r \in Readers : reader[r].phase # "idle" =>
         reader[r].key \in Keys \ {uploader.key, uploader.bytes}
  BY AtWork DEF MapInv, MovesAlone
<1> QED BY <1>1, <1>2, <1>3, <1>4, <1>5 DEF MapInv

LEMMA MapMigrate ==
  ASSUME Disturbances = {}, MapInv, Migrate
  PROVE  MapSafe'
<1>1. /\ uploader.phase = "send" /\ uploader'.phase = "copy"
      /\ uploader'.key = uploader.key /\ uploader'.bytes = uploader.bytes
      /\ UNCHANGED <<moka, blob, disk, writer, reader>>
  BY DEF Migrate, At, tiers
<1>2. /\ \A w \in Writers : writer[w].key \notin {uploader.key, uploader.bytes}
      /\ \A r \in Readers : reader[r].key \notin {uploader.key, uploader.bytes}
  BY DEF Migrate, MayMigrate, Storing
<1>3. StoresAlone' /\ MovesAlone'
  BY <1>1, <1>2 DEF MapInv, StoresAlone, MovesAlone
<1>4. UploaderStage'
  BY <1>1 DEF MapInv, UploaderStage, Moving
<1> QED BY <1>1, <1>3, <1>4, MapUploadQuiet

\* A step of a migration concerns its two keys.
LEMMA MapMoveStep ==
  ASSUME MapInv, uploader.phase \in Moving, uploader'.phase \in Moving,
         uploader'.key = uploader.key, uploader'.bytes = uploader.bytes,
         UNCHANGED <<writer, reader>>,
         \A l \in Keys \ {uploader.key, uploader.bytes} :
            moka'[l] = moka[l] /\ blob'[l] = blob[l] /\ disk'[l] = disk[l],
         \A l \in {uploader.key, uploader.bytes} : Copies(l)' /\ Backed(l)',
         UploaderStage'
  PROVE  MapSafe'
<1> DEFINE old == uploader.key
           new == uploader.bytes
<1>1. /\ \A w \in Writers : writer[w].phase # "idle" =>
            writer[w].key \in Keys \ {old, new}
      /\ \A r \in Readers : reader[r].phase # "idle" =>
            reader[r].key \in Keys \ {old, new}
  BY MoveFacts
<1>2. StoresAlone' /\ MovesAlone'
  BY DEF MapInv, StoresAlone, MovesAlone
<1>3. \A l \in Keys \ {old, new} : Copies(l)' /\ Backed(l)'
  BY DEF MapInv, Copies, Backed
<1>4. \A w \in Writers : WriterStage(w)'
  BY <1>1 DEF MapInv, WriterStage
<1>5. \A r \in Readers : ReaderStage(r)'
  BY <1>1 DEF MapInv, ReaderStage
<1>6. \A l \in Keys : Copies(l)' /\ Backed(l)'
  BY <1>3
<1> QED BY <1>2, <1>4, <1>5, <1>6 DEF MapSafe

\* The stages of a migration, with what it has and what it leaves.
LEMMA MoveNow ==
  ASSUME MapInv, CopyBlob \/ DeleteBlob \/ MigrateMoka \/ RenameFile
  PROVE  /\ uploader.phase \in Moving /\ uploader'.phase \in Moving
         /\ uploader'.key = uploader.key /\ uploader'.bytes = uploader.bytes
         /\ UNCHANGED <<writer, reader>>
BY DEF CopyBlob, DeleteBlob, MigrateMoka, RenameFile, Stage, At, Moving

LEMMA MapCopyBlob ==
  ASSUME MapInv, CopyBlob
  PROVE  MapSafe'
<1> DEFINE old == uploader.key
           new == uploader.bytes
<1>1. /\ uploader.phase = "copy"
      /\ uploader'.phase = IF blob[old] = NoBytes THEN "moka" ELSE "delete"
      /\ uploader'.key = old /\ uploader'.bytes = new
      /\ UNCHANGED <<moka, disk, writer, reader>>
  BY DEF CopyBlob, At
<1>2. /\ old \in Keys /\ new \in Contents /\ new \in Keys /\ old # new
      /\ Copies(old) /\ Backed(old) /\ Copies(new) /\ Backed(new)
      /\ {moka[old], blob[old], disk[old]} \subseteq {new, NoBytes}
      /\ \A w \in Writers : writer[w].phase # "idle" =>
            writer[w].key \in Keys \ {old, new}
      /\ old \notin Contents
  BY <1>1, MoveFacts DEF Moving
<1>3. /\ \A l \in Keys \ {new} : blob'[l] = blob[l]
      /\ blob'[new] = IF blob[old] = NoBytes THEN blob[new] ELSE blob[old]
  BY <1>2, PutFacts DEF CopyBlob, MapInv
<1>4. Copies(old)' /\ Copies(new)'
  BY <1>1, <1>2, <1>3, KindFacts DEF Copies
<1>5. blob[old] = NoBytes => moka[old] = NoBytes
  BY <1>1, <1>2 DEF Backed
<1>6. \A l \in {old, new} : Backed(l)'
  BY <1>1, <1>2, <1>3, <1>5, KindFacts DEF Backed, Copies
<1>7. UploaderStage'
  BY <1>1, <1>2, <1>3 DEF UploaderStage, Moving
<1>8. \A l \in {old, new} : Copies(l)'
  BY <1>1, <1>4
<1> QED BY <1>1, <1>3, <1>6, <1>7, <1>8, MoveNow, MapMoveStep

LEMMA MapDeleteBlob ==
  ASSUME MapInv, DeleteBlob
  PROVE  MapSafe'
<1> DEFINE old == uploader.key
           new == uploader.bytes
<1>1. /\ uploader.phase = "delete" /\ uploader'.phase = "moka"
      /\ uploader'.key = old /\ uploader'.bytes = new
      /\ UNCHANGED <<moka, disk, writer, reader>>
  BY DEF DeleteBlob, Stage, At
<1>2. /\ old \in Keys /\ new \in Contents /\ new \in Keys /\ old # new
      /\ Copies(old) /\ Backed(old) /\ Copies(new) /\ Backed(new)
      /\ {moka[old], blob[old], disk[old]} \subseteq {new, NoBytes}
      /\ \A w \in Writers : writer[w].phase # "idle" =>
            writer[w].key \in Keys \ {old, new}
      /\ old \notin Contents
  BY <1>1, MoveFacts DEF Moving
<1>3. blob'[old] = NoBytes /\ \A l \in Keys \ {old} : blob'[l] = blob[l]
  BY <1>2, PutFacts DEF DeleteBlob, MapInv
<1>4. blob[new] = new
  BY <1>1 DEF MapInv, UploaderStage
<1>5. \A l \in {old, new} : Copies(l)'
  BY <1>1, <1>2, <1>3 DEF Copies
<1>6. \A l \in {old, new} : Backed(l)'
  BY <1>1, <1>2, <1>3, <1>4 DEF Backed
<1>7. UploaderStage'
  BY <1>1, <1>2, <1>3 DEF UploaderStage, Moving
<1> QED BY <1>1, <1>3, <1>5, <1>6, <1>7, MoveNow, MapMoveStep

LEMMA MapMigrateMoka ==
  ASSUME MapInv, MigrateMoka
  PROVE  MapSafe'
<1> DEFINE old == uploader.key
           new == uploader.bytes
<1>1. /\ uploader.phase = "moka" /\ uploader'.phase = "rename"
      /\ uploader'.key = old /\ uploader'.bytes = new
      /\ UNCHANGED <<blob, disk, writer, reader>>
  BY DEF MigrateMoka, Stage, At
<1>2. /\ old \in Keys /\ new \in Contents /\ new \in Keys /\ old # new
      /\ Copies(old) /\ Backed(old) /\ Copies(new) /\ Backed(new)
      /\ {moka[old], blob[old], disk[old]} \subseteq {new, NoBytes}
      /\ \A w \in Writers : writer[w].phase # "idle" =>
            writer[w].key \in Keys \ {old, new}
      /\ old \notin Contents
  BY <1>1, MoveFacts DEF Moving
<1>3. /\ moka'[old] = NoBytes
      /\ moka'[new] = IF moka[old] = NoBytes THEN moka[new] ELSE moka[old]
      /\ \A l \in Keys \ {old, new} : moka'[l] = moka[l]
  <2>1. CASE moka[old] = NoBytes
    BY <2>1 DEF MigrateMoka
  <2>2. CASE moka[old] # NoBytes
    <3>1. moka' = Put(Put(moka, new, moka[old]), old, NoBytes)
      BY <2>2 DEF MigrateMoka
    <3>2. DOMAIN moka = Keys
      BY DEF MapInv, TypeOK, Tier
    <3> QED BY <1>2, <2>2, <3>1, <3>2 DEF Put
  <2> QED BY <2>1, <2>2
<1>4. blob[old] = NoBytes
  BY <1>1 DEF MapInv, UploaderStage
<1>5. moka[old] # NoBytes => moka[old] = new /\ blob[new] = new
  BY <1>1, <1>2, <1>4 DEF Backed
<1>6. \A l \in {old, new} : Copies(l)'
  BY <1>1, <1>2, <1>3, <1>5, KindFacts DEF Copies
<1>7. \A l \in {old, new} : Backed(l)'
  BY <1>1, <1>2, <1>3, <1>5 DEF Backed
<1>8. UploaderStage'
  BY <1>1, <1>2, <1>3, <1>4 DEF UploaderStage, Moving
<1> QED BY <1>1, <1>3, <1>6, <1>7, <1>8, MoveNow, MapMoveStep

LEMMA MapRenameFile ==
  ASSUME MapInv, RenameFile
  PROVE  MapSafe'
<1> DEFINE old == uploader.key
           new == uploader.bytes
<1>1. /\ uploader.phase = "rename" /\ uploader'.phase = "done"
      /\ uploader'.key = old /\ uploader'.bytes = new
      /\ UNCHANGED <<moka, blob, writer, reader>>
  BY DEF RenameFile, Stage, At
<1>2. /\ old \in Keys /\ new \in Contents /\ new \in Keys /\ old # new
      /\ Copies(old) /\ Backed(old) /\ Copies(new) /\ Backed(new)
      /\ {moka[old], blob[old], disk[old]} \subseteq {new, NoBytes}
      /\ \A w \in Writers : writer[w].phase # "idle" =>
            writer[w].key \in Keys \ {old, new}
      /\ old \notin Contents
  BY <1>1, MoveFacts DEF Moving
<1>3. /\ disk'[old] = NoBytes
      /\ disk'[new] = IF disk[old] = NoBytes THEN disk[new] ELSE disk[old]
      /\ \A l \in Keys \ {old, new} : disk'[l] = disk[l]
  <2>1. CASE disk[old] = NoBytes
    BY <2>1 DEF RenameFile
  <2>2. CASE disk[old] # NoBytes
    <3>1. disk' = Put(Put(disk, new, disk[old]), old, NoBytes)
      BY <2>2 DEF RenameFile
    <3>2. DOMAIN disk = Keys
      BY DEF MapInv, TypeOK, Tier
    <3> QED BY <1>2, <2>2, <3>1, <3>2 DEF Put
  <2> QED BY <2>1, <2>2
<1>4. moka[old] = NoBytes /\ blob[old] = NoBytes
  BY <1>1 DEF MapInv, UploaderStage
<1>5. \A l \in {old, new} : Copies(l)'
  BY <1>1, <1>2, <1>3, <1>4, KindFacts DEF Copies
<1>6. \A l \in {old, new} : Backed(l)'
  BY <1>1, <1>2, <1>4 DEF Backed
<1>7. UploaderStage'
  BY <1>1, <1>2, <1>3, <1>4 DEF UploaderStage, Moving
<1> QED BY <1>1, <1>3, <1>5, <1>6, <1>7, MoveNow, MapMoveStep

\* What happens to the tiers besides.
LEMMA MapFade ==
  ASSUME MapInv, NEW k \in Keys, Expire(k) \/ Unlink(k)
  PROVE  MapSafe'
<1>1. /\ UNCHANGED <<blob, writer, reader, uploader>>
      /\ \A l \in Keys : /\ moka'[l] \in {moka[l], NoBytes}
                         /\ disk'[l] \in {disk[l], NoBytes}
  BY PutFacts DEF Expire, Unlink, MapInv
<1>2. StoresAlone' /\ MovesAlone'
  BY <1>1 DEF MapInv, StoresAlone, MovesAlone
<1>3. \A l \in Keys : Copies(l)' /\ Backed(l)'
  BY <1>1 DEF MapInv, Copies, Backed
<1>4. \A w \in Writers : WriterStage(w)'
  BY <1>1, AtWork DEF MapInv, WriterStage
<1>5. \A r \in Readers : ReaderStage(r)'
  BY <1>1 DEF MapInv, ReaderStage
<1>6. UploaderStage'
  BY <1>1, AtWork DEF MapInv, UploaderStage, Moving
<1> QED BY <1>2, <1>3, <1>4, <1>5, <1>6 DEF MapSafe

LEMMA MapCrash ==
  ASSUME MapInv, Crash
  PROVE  MapSafe'
<1>1. /\ \A w \in Writers : writer'[w].phase = "idle"
      /\ \A r \in Readers : reader'[r].phase = "idle"
      /\ uploader'.phase = "idle"
      /\ \A k \in Keys : moka'[k] = NoBytes
      /\ UNCHANGED <<blob, disk>>
  BY DEF Crash, Idle, At, NoContent
<1>2. \A k \in Keys : Copies(k)' /\ Backed(k)'
  BY <1>1 DEF MapInv, Copies, Backed
<1> QED BY <1>1, <1>2 DEF MapSafe, StoresAlone, MovesAlone, WriterStage, ReaderStage,
                          UploaderStage, Moving

LEMMA MapInit == Init => MapInv
<1> SUFFICES ASSUME Init PROVE MapInv
  OBVIOUS
<1>1. TypeOK /\ Shape
  BY TypeInit
<1>2. /\ \A w \in Writers : writer[w].phase = "idle"
      /\ \A r \in Readers : reader[r].phase = "idle"
      /\ uploader.phase = "idle"
      /\ \A k \in Keys : moka[k] = NoBytes /\ blob[k] = NoBytes /\ disk[k] = NoBytes
  BY DEF Init, Idle, At, NoContent
<1>3. \A k \in Keys : Copies(k) /\ Backed(k)
  BY <1>2 DEF Copies, Backed
<1> QED BY <1>1, <1>2, <1>3 DEF MapInv, StoresAlone, MovesAlone, WriterStage, ReaderStage,
                                UploaderStage, Moving

LEMMA MapStep ==
  ASSUME Disturbances = {}
  PROVE  MapInv /\ [Next]_vars => MapInv'
<1> SUFFICES ASSUME MapInv, [Next]_vars PROVE MapInv'
  OBVIOUS
<1>0. TypeOK' /\ Shape'
  BY TypeStep DEF MapInv
<1> SUFFICES MapSafe'
  BY <1>0 DEF MapInv, MapSafe
<1>1. CASE Store
  BY <1>1, MapBegin, MapStoreBlob, MapStoreMoka, MapDropMoka, MapStoreDisk DEF Store
<1>2. CASE Read
  BY <1>2, MapRead
<1>3. CASE Upload
  BY <1>3, MapLoad, MapLoadOn, MapLoadWarm, MapMigrate, MapCopyBlob, MapDeleteBlob,
     MapMigrateMoka, MapRenameFile DEF Upload
<1>4. CASE UNCHANGED vars
  BY <1>4 DEF vars, tiers, MapInv, MapSafe, StoresAlone, MovesAlone, Copies, Backed,
     WriterStage, ReaderStage, UploaderStage
<1> QED BY <1>1, <1>2, <1>3, <1>4, MapFade, MapCrash DEF Next

-----------------------------------------------------------------------------
(* What a lookup leads to, step by step.  (A key is named by l \in {k} where  *)
(* the step changes the thread it is read from.)                            *)

LEMMA LedFacts ==
  ASSUME MapInv, NEW k \in Keys
  PROVE  /\ Led(k) \in Contents \cup {NoBytes}
         /\ moka[k] # NoBytes => Led(k) = moka[k]
         /\ disk[k] # NoBytes => Led(k) = disk[k]
         /\ k \in Contents => Led(k) \in {k, NoBytes}
BY KindFacts DEF MapInv, Copies, Led

LEMMA LedStore ==
  ASSUME MapInv, NEW w \in Writers,
         StoreBlob(w) \/ StoreMoka(w) \/ DropMoka(w) \/ StoreDisk(w)
  PROVE  LET k == writer[w].key
             c == writer[w].bytes
         IN  /\ k \in Keys /\ c \in Contents
             /\ \A l \in Keys \ {k} : Led(l)' = Led(l)
             /\ StoreMoka(w) \/ StoreDisk(w) => \A l \in {k} : Led(l)' = c
             /\ \A l \in {k} : Led(l)' \in {Led(l), c, NoBytes}
             /\ \A l \in {k} : Led(l)' = NoBytes => Led(l) = NoBytes \/ c \in Large
<1> DEFINE k == writer[w].key
           c == writer[w].bytes
<1>1. k \in Keys /\ c \in Contents
  BY AtWork DEF StoreBlob, StoreMoka, DropMoka, StoreDisk, MapInv
<1>2. WriterStage(w) /\ Copies(k)
  BY <1>1 DEF MapInv
<1>3. CASE StoreBlob(w)
  <2>1. /\ blob'[k] = IF c \in Small THEN c ELSE NoBytes
        /\ \A l \in Keys \ {k} : blob'[l] = blob[l]
        /\ UNCHANGED <<moka, disk>> /\ writer[w].phase = "blob"
    BY <1>1, <1>3, PutFacts DEF StoreBlob, MapInv
  <2>2. ~StoreMoka(w) /\ ~StoreDisk(w)
    BY <2>1 DEF StoreMoka, StoreDisk
  <2> QED BY <1>1, <1>2, <2>1, <2>2, KindFacts DEF Led, Copies, WriterStage
<1>4. CASE StoreMoka(w)
  <2>1. /\ moka'[k] = c /\ \A l \in Keys \ {k} : moka'[l] = moka[l]
        /\ UNCHANGED <<blob, disk>>
    BY <1>1, <1>4, PutFacts DEF StoreMoka, MapInv
  <2> QED BY <1>1, <2>1, KindFacts DEF Led
<1>5. CASE DropMoka(w)
  <2>1. /\ moka'[k] = NoBytes /\ \A l \in Keys \ {k} : moka'[l] = moka[l]
        /\ UNCHANGED <<blob, disk>> /\ writer[w].phase = "moka" /\ c \in Large
    BY <1>1, <1>5, PutFacts DEF DropMoka, MapInv
  <2>2. ~StoreMoka(w) /\ ~StoreDisk(w)
    BY <2>1, KindFacts DEF StoreMoka, StoreDisk
  <2>3. blob[k] = NoBytes
    BY <1>2, <2>1, KindFacts DEF WriterStage
  <2>4. \A l \in {k} : Led(l)' \in {Led(l), NoBytes}
    BY <1>2, <2>1, <2>3 DEF Led, Copies
  <2> QED BY <1>1, <2>1, <2>2, <2>4 DEF Led
<1>6. CASE StoreDisk(w)
  <2>1. /\ disk'[k] = c /\ \A l \in Keys \ {k} : disk'[l] = disk[l]
        /\ UNCHANGED <<moka, blob>> /\ writer[w].phase = "disk"
    BY <1>1, <1>6, PutFacts DEF StoreDisk, MapInv
  <2>2. moka[k] = NoBytes /\ blob[k] = NoBytes
    BY <1>2, <2>1, KindFacts DEF WriterStage
  <2> QED BY <1>1, <2>1, <2>2, KindFacts DEF Led
<1> QED BY <1>3, <1>4, <1>5, <1>6

\* A lookup warms moka with what it leads to.
LEMMA LedRead ==
  ASSUME MapInv, Read \/ LoadWarm
  PROVE  \A l \in Keys : Led(l)' = Led(l)
<1>1. ASSUME NEW k \in Keys, blob[k] # NoBytes, moka' = Put(moka, k, blob[k]),
             UNCHANGED <<blob, disk>>,
             \A w \in Writers : writer[w].phase # "idle" => writer[w].key # k,
             uploader.phase = "moka" => uploader.key # k
      PROVE  \A l \in Keys : Led(l)' = Led(l)
  <2>1. Backed(k)
    BY DEF MapInv
  <2>2. moka[k] \in {NoBytes, blob[k]}
    BY <1>1, <2>1 DEF Backed
  <2> QED BY <1>1, <2>2, PutFacts DEF Led, MapInv
<1>2. ASSUME NEW r \in Readers, Warm(r) PROVE \A l \in Keys : Led(l)' = Led(l)
  <2>1. /\ reader[r].key \in Keys /\ reader[r].phase = "warm"
        /\ reader[r].bytes # NoBytes /\ reader[r].bytes = blob[reader[r].key]
    BY <1>2, AtWork DEF Warm, MapInv, ReaderStage
  <2>2. \A w \in Writers : writer[w].phase # "idle" => writer[w].key # reader[r].key
    BY DEF MapInv, StoresAlone
  <2>3. uploader.phase = "moka" => uploader.key # reader[r].key
    BY DEF MapInv, MovesAlone, Moving
  <2> QED BY <1>1, <1>2, <2>1, <2>2, <2>3 DEF Warm
<1>3. CASE LoadWarm
  <2>1. /\ uploader.key \in Keys /\ uploader.phase = "warm"
        /\ uploader.bytes # NoBytes /\ uploader.bytes = blob[uploader.key]
    BY <1>3, AtWork DEF LoadWarm, MapInv, UploaderStage
  <2>2. \A w \in Writers : writer[w].phase # "idle" => writer[w].key # uploader.key
    BY DEF MapInv, StoresAlone
  <2> QED BY <1>1, <1>3, <2>1, <2>2 DEF LoadWarm
<1>4. CASE UNCHANGED tiers
  BY <1>4 DEF tiers, Led
<1> QED BY <1>2, <1>3, <1>4 DEF Read, Look, LookBlob, LookDisk

\* A migration copies, and takes away what it has copied.
LEMMA LedMove ==
  ASSUME MapInv, CopyBlob \/ DeleteBlob \/ MigrateMoka \/ RenameFile
  PROVE  LET old == uploader.key
             new == uploader.bytes
         IN  /\ old \in Keys /\ new \in Contents /\ new \in Keys /\ old # new
             /\ Led(old) \in {new, NoBytes} /\ Led(new) \in {new, NoBytes}
             /\ \A l \in Keys \ {old, new} : Led(l)' = Led(l)
             /\ \A l \in {new} : Led(l)' \in {Led(l), new}
             /\ \A l \in {old} : Led(l)' \in {Led(l), NoBytes}
             /\ (\E l \in {old} : Led(l)' # Led(l)) => \A l \in {new} : Led(l)' = new
             /\ CopyBlob => \A l \in {old} : Led(l)' = Led(l)
             /\ DeleteBlob => \A l \in {new} : Led(l)' = Led(l)
             /\ ~CopyBlob /\ Led(old) = NoBytes => \A l \in {new} : Led(l)' = Led(l)
             /\ ~CopyBlob /\ ~DeleteBlob /\ (\E l \in {new} : Led(l)' # Led(l)) =>
                   \A l \in {old} : Led(l) = new /\ Led(l)' = NoBytes
<1> DEFINE old == uploader.key
           new == uploader.bytes
<1>0. uploader.phase \in Moving
  BY MoveNow
<1>1. /\ old \in Keys /\ new \in Contents /\ new \in Keys /\ old # new
      /\ Copies(old) /\ Backed(old) /\ Copies(new) /\ Backed(new)
      /\ {moka[old], blob[old], disk[old]} \subseteq {new, NoBytes}
      /\ \A w \in Writers : writer[w].phase # "idle" =>
            writer[w].key \in Keys \ {old, new}
  BY <1>0, MoveFacts
<1>2. Led(old) \in {new, NoBytes} /\ Led(new) \in {new, NoBytes}
  BY <1>1 DEF Led, Copies
<1>3. CASE CopyBlob
  <2>1. /\ \A l \in Keys \ {new} : blob'[l] = blob[l]
        /\ blob'[new] = IF blob[old] = NoBytes THEN blob[new] ELSE blob[old]
        /\ UNCHANGED <<moka, disk>> /\ uploader.phase = "copy"
    BY <1>1, <1>3, PutFacts DEF CopyBlob, MapInv
  <2>2. ~DeleteBlob
    BY <2>1 DEF DeleteBlob
  <2>3. \A l \in Keys \ {new} : Led(l)' = Led(l)
    BY <2>1 DEF Led
  <2>4. \A l \in {new} : Led(l)' \in {Led(l), new}
    BY <1>1, <2>1 DEF Led
  <2> QED BY <1>1, <1>2, <1>3, <2>2, <2>3, <2>4
<1>4. CASE DeleteBlob
  <2>1. /\ blob'[old] = NoBytes /\ \A l \in Keys \ {old} : blob'[l] = blob[l]
        /\ UNCHANGED <<moka, disk>> /\ uploader.phase = "delete"
    BY <1>1, <1>4, PutFacts DEF DeleteBlob, MapInv
  <2>2. ~CopyBlob
    BY <2>1 DEF CopyBlob
  <2>3. blob[new] = new
    BY <2>1 DEF MapInv, UploaderStage
  <2>4. \A l \in Keys \ {old} : Led(l)' = Led(l)
    BY <2>1 DEF Led
  <2>5. \A l \in {old} : Led(l)' \in {Led(l), NoBytes}
    BY <1>1, <2>1 DEF Led, Copies
  <2>6. Led(new) = new
    BY <1>1, <2>3, KindFacts DEF Led, Copies
  <2> QED BY <1>1, <1>2, <1>4, <2>2, <2>4, <2>5, <2>6
<1>5. CASE MigrateMoka
  <2>1. /\ uploader.phase = "moka" /\ UNCHANGED <<blob, disk>>
        /\ moka' = IF moka[old] = NoBytes THEN moka
                   ELSE Put(Put(moka, new, moka[old]), old, NoBytes)
        /\ DOMAIN moka = Keys
    BY <1>5 DEF MigrateMoka, MapInv, TypeOK, Tier
  <2>2. ~CopyBlob /\ ~DeleteBlob
    BY <2>1 DEF CopyBlob, DeleteBlob
  <2>3. CASE moka[old] = NoBytes
    BY <1>1, <1>2, <2>1, <2>2, <2>3 DEF Led
  <2>4. CASE moka[old] # NoBytes
    <3>1. /\ moka'[old] = NoBytes /\ moka'[new] = moka[old]
          /\ \A l \in Keys \ {old, new} : moka'[l] = moka[l]
      BY <1>1, <2>1, <2>4 DEF Put
    <3>2. moka[old] = new /\ blob[old] = NoBytes /\ disk[old] = NoBytes
      BY <1>1, <2>1, <2>4 DEF MapInv, UploaderStage, Copies
    <3>3. /\ \A l \in {new} : Led(l)' = new
          /\ \A l \in {old} : Led(l) = new /\ Led(l)' = NoBytes
      BY <2>1, <2>4, <3>1, <3>2 DEF Led
    <3>4. \A l \in Keys \ {old, new} : Led(l)' = Led(l)
      BY <2>1, <3>1 DEF Led
    <3> QED BY <1>1, <1>2, <2>2, <3>3, <3>4, KindFacts
  <2> QED BY <2>3, <2>4
<1>6. CASE RenameFile
  <2>1. /\ uploader.phase = "rename" /\ UNCHANGED <<moka, blob>>
        /\ disk' = IF disk[old] = NoBytes THEN disk
                   ELSE Put(Put(disk, new, disk[old]), old, NoBytes)
        /\ DOMAIN disk = Keys
    BY <1>6 DEF RenameFile, MapInv, TypeOK, Tier
  <2>2. ~CopyBlob /\ ~DeleteBlob
    BY <2>1 DEF CopyBlob, DeleteBlob
  <2>3. CASE disk[old] = NoBytes
    BY <1>1, <1>2, <2>1, <2>2, <2>3 DEF Led
  <2>4. CASE disk[old] # NoBytes
    <3>1. /\ disk'[old] = NoBytes /\ disk'[new] = disk[old]
          /\ \A l \in Keys \ {old, new} : disk'[l] = disk[l]
      BY <1>1, <2>1, <2>4 DEF Put
    <3>2. disk[old] = new /\ blob[old] = NoBytes /\ moka[old] = NoBytes
      BY <1>1, <2>1, <2>4 DEF MapInv, UploaderStage, Copies
    <3>3. moka[new] = NoBytes /\ blob[new] = NoBytes
      BY <1>1, <3>2, KindFacts DEF Copies
    <3>4. /\ \A l \in {new} : Led(l)' = new
          /\ \A l \in {old} : Led(l) = new /\ Led(l)' = NoBytes
      BY <2>1, <2>4, <3>1, <3>2, <3>3 DEF Led
    <3>5. \A l \in Keys \ {old, new} : Led(l)' = Led(l)
      BY <2>1, <3>1 DEF Led
    <3> QED BY <1>1, <1>2, <2>2, <3>4, <3>5, KindFacts
  <2> QED BY <2>3, <2>4
<1> QED BY <1>3, <1>4, <1>5, <1>6

LEMMA LedFade ==
  ASSUME MapInv, NEW k \in Keys, Expire(k) \/ Unlink(k)
  PROVE  /\ \A l \in Keys \ {k} : Led(l)' = Led(l)
         /\ \/ Led(k)' = Led(k)
            \/ Led(k)' = NoBytes /\ disk[k] = Led(k) /\ disk'[k] = NoBytes
            \/ \E w \in Writers : /\ writer[w].phase = "moka" /\ writer[w].key = k
                                  /\ \/ Led(k)' = writer[w].bytes
                                     \/ Led(k)' = NoBytes /\ writer[w].bytes \in Large
            \/ /\ Led(k)' = NoBytes /\ uploader.phase = "moka" /\ uploader.key = k
               /\ Led(k) = uploader.bytes /\ Led(uploader.bytes)' = uploader.bytes
<1>1. Copies(k) /\ Backed(k)
  BY DEF MapInv
<1>2. CASE Unlink(k)
  <2>1. /\ disk[k] # NoBytes /\ disk'[k] = NoBytes
        /\ \A l \in Keys \ {k} : disk'[l] = disk[l]
        /\ UNCHANGED <<moka, blob>>
    BY <1>2, PutFacts DEF Unlink, MapInv
  <2> QED BY <1>1, <2>1 DEF Led, Copies
<1>3. CASE Expire(k)
  <2>1. /\ moka[k] # NoBytes /\ moka'[k] = NoBytes
        /\ \A l \in Keys \ {k} : moka'[l] = moka[l]
        /\ UNCHANGED <<blob, disk>>
    BY <1>3, PutFacts DEF Expire, MapInv
  <2>2. disk[k] = NoBytes
    BY <1>1, <2>1 DEF Copies
  <2>3. \A l \in Keys \ {k} : Led(l)' = Led(l)
    BY <2>1 DEF Led
  <2>4. Led(k)' = blob[k] /\ Led(k) = moka[k]
    BY <2>1, <2>2 DEF Led
  <2>5. CASE blob[k] = moka[k]
    BY <2>3, <2>4, <2>5
  <2>6. ASSUME NEW w \in Writers, writer[w].phase = "moka", writer[w].key = k
        PROVE  \/ Led(k)' = writer[w].bytes
               \/ Led(k)' = NoBytes /\ writer[w].bytes \in Large
    <3>1. writer[w].bytes \in Contents /\ WriterStage(w)
      BY <2>6, AtWork DEF MapInv
    <3> QED BY <2>4, <2>6, <3>1, KindFacts DEF WriterStage
  <2>7. ASSUME uploader.phase = "moka", uploader.key = k
        PROVE  /\ Led(k)' = NoBytes /\ Led(k) = uploader.bytes
               /\ blob[uploader.bytes] = uploader.bytes =>
                     Led(uploader.bytes)' = uploader.bytes
    <3>1. /\ uploader.bytes \in Keys \ {k} /\ uploader.bytes \in Contents
          /\ Copies(uploader.bytes) /\ moka[k] \in {uploader.bytes, NoBytes}
      BY <2>7, MoveFacts DEF Moving
    <3>2. blob[k] = NoBytes
      BY <2>7 DEF MapInv, UploaderStage
    <3>3. blob[uploader.bytes] = uploader.bytes => Led(uploader.bytes) = uploader.bytes
      BY <3>1, KindFacts DEF Led, Copies
    <3>4. UNCHANGED uploader
      BY <1>3 DEF Expire
    <3> QED BY <2>1, <2>3, <2>4, <3>1, <3>2, <3>3, <3>4
  <2> QED BY <1>1, <2>1, <2>3, <2>5, <2>6, <2>7 DEF Backed
<1> QED BY <1>2, <1>3

\* A crash takes moka away and leaves the rest.
LEMMA LedCrash ==
  ASSUME MapInv, Crash, NEW k \in Keys
  PROVE  \/ Led(k)' = Led(k)
         \/ \E w \in Writers : /\ writer[w].phase = "moka" /\ writer[w].key = k
                               /\ \/ Led(k)' = writer[w].bytes
                                  \/ Led(k)' = NoBytes /\ writer[w].bytes \in Large
         \/ /\ Led(k)' = NoBytes /\ uploader.phase = "moka" /\ uploader.key = k
            /\ Led(k) = uploader.bytes
            /\ \A l \in {uploader.bytes} : Led(l)' = l
<1>1. Copies(k) /\ Backed(k)
  BY DEF MapInv
<1>2. (\A l \in Keys : moka'[l] = NoBytes) /\ UNCHANGED <<blob, disk>>
  BY DEF Crash, NoContent
<1>3. CASE moka[k] = NoBytes \/ blob[k] = moka[k]
  BY <1>1, <1>2, <1>3 DEF Led, Copies
<1>4. CASE moka[k] # NoBytes
  <2>1. Led(k) = moka[k] /\ Led(k)' = blob[k]
    BY <1>1, <1>2, <1>4 DEF Led, Copies
  <2>2. ASSUME NEW w \in Writers, writer[w].phase = "moka", writer[w].key = k
        PROVE  \/ Led(k)' = writer[w].bytes
               \/ Led(k)' = NoBytes /\ writer[w].bytes \in Large
    <3>1. writer[w].bytes \in Contents /\ WriterStage(w)
      BY <2>2, AtWork DEF MapInv
    <3> QED BY <2>1, <2>2, <3>1, KindFacts DEF WriterStage
  <2>3. ASSUME uploader.phase = "moka", uploader.key = k,
               blob[uploader.bytes] = uploader.bytes
        PROVE  /\ Led(k)' = NoBytes /\ Led(k) = uploader.bytes
               /\ \A l \in {uploader.bytes} : Led(l)' = l
    <3>1. /\ uploader.bytes \in Keys /\ uploader.bytes \in Contents
          /\ moka[k] \in {uploader.bytes, NoBytes}
      BY <2>3, MoveFacts DEF Moving
    <3>2. blob[k] = NoBytes
      BY <2>3 DEF MapInv, UploaderStage
    <3>3. \A l \in {uploader.bytes} : Led(l)' = l
      BY <1>2, <2>3, <3>1, KindFacts DEF Led
    <3> QED BY <1>4, <2>1, <3>1, <3>2, <3>3
  <2> QED BY <1>1, <1>4, <2>1, <2>2, <2>3 DEF Backed
<1> QED BY <1>3, <1>4

-----------------------------------------------------------------------------
(* No content is lost.                                                      *)

LEMMA LostOnlySo ==
  ASSUME MapInv, Next, NEW k \in Keys, NEW c \in Contents,
         Led(k) = c, Led(k)' = NoBytes
  PROVE  \/ disk[k] = c /\ disk'[k] = NoBytes
         \/ \E w \in Writers : writer[w].key = k /\ writer[w].bytes \in Large
         \/ Led(c)' = c
<1>0. c # NoBytes /\ c \in Keys
  BY KindFacts
<1>1. CASE Store
  <2>1. PICK w \in Writers : StoreBlob(w) \/ StoreMoka(w) \/ DropMoka(w) \/ StoreDisk(w)
    BY <1>0, <1>1 DEF Store, Begin, tiers, Led
  <2> QED BY <1>0, <2>1, LedStore
<1>2. CASE Read \/ LoadWarm
  BY <1>0, <1>2, LedRead
<1>3. CASE CopyBlob \/ DeleteBlob \/ MigrateMoka \/ RenameFile
  BY <1>0, <1>3, LedMove
<1>4. CASE UNCHANGED tiers
  BY <1>0, <1>4 DEF tiers, Led
<1>5. CASE Crash
  <2>1. \A w \in Writers : writer[w].phase = "moka" => writer[w].bytes # NoBytes
    BY AtWork, KindFacts DEF MapInv
  <2> QED BY <1>0, <1>5, <2>1, LedCrash
<1>6. ASSUME NEW l \in Keys, Expire(l) \/ Unlink(l)
      PROVE  \/ disk[k] = c /\ disk'[k] = NoBytes
             \/ \E w \in Writers : writer[w].key = k /\ writer[w].bytes \in Large
             \/ Led(c)' = c
  <2>1. UNCHANGED <<writer, uploader>> /\ l = k
    BY <1>0, <1>6, LedFade DEF Expire, Unlink
  <2>2. \A w \in Writers : writer[w].phase = "moka" => writer[w].bytes # NoBytes
    BY AtWork, KindFacts DEF MapInv
  <2> QED BY <1>0, <1>6, <2>1, <2>2, LedFade
<1> QED BY <1>1, <1>2, <1>3, <1>4, <1>5, <1>6
        DEF Next, Upload, Load, LoadBlob, LoadDisk, Check, Sent, Migrate, Migrated

\* Without shrinking contents and overlaps on one key, a content that can be found
\* stays so, under its key or under its sum, unless its file is unlinked or a
\* large content is being stored under its key (store_content_at_key,
\* get_content, migrate_cache_key, evict_disk_content).
THEOREM NoContentIsLost ==
  ASSUME Disturbances = {}
  PROVE  Spec => NothingIsLost
<1>1. Init => MapInv
  BY MapInit
<1>2. MapInv /\ [Next]_vars => MapInv'
  BY MapStep
<1>3. MapInv /\ [Next]_vars =>
         [\A k \in Keys, c \in Contents :
            Led(k) = c /\ Led(k)' = NoBytes =>
               \/ disk[k] = c /\ disk'[k] = NoBytes
               \/ \E w \in Writers : writer[w].key = k /\ writer[w].bytes \in Large
               \/ Led(c)' = c]_vars
  BY LostOnlySo
<1> QED BY <1>1, <1>2, <1>3, PTL DEF Spec, NothingIsLost

-----------------------------------------------------------------------------
(* ContentMap is implemented.                                               *)

\* The steps of the map, from what they do to the lookup of each key.
LEMMA MapStutters ==
  ASSUME \A l \in Keys : Led(l)' = Led(l) /\ OfferedNow(l)' = OfferedNow(l)
  PROVE  [Map!Next]_Map!vars
BY DEF Map!vars

LEMMA MapForgets ==
  ASSUME NEW k \in Keys, \A l \in Keys : OfferedNow(l)' = OfferedNow(l),
         \A l \in Keys \ {k} : Led(l)' = Led(l),
         Led(k)' \in {Led(k), NoBytes} \cup OfferedNow(k)
  PROVE  [Map!Next]_Map!vars
<1>1. CASE Led(k)' = Led(k)
  BY <1>1, MapStutters
<1>2. CASE Led(k)' = NoBytes
  <2>1. Map!Forget(k)
    BY <1>2 DEF Map!Forget
  <2> QED BY <2>1 DEF Map!Next
<1>3. CASE Led(k)' \in OfferedNow(k)
  <2>1. Map!Take(k)
    BY <1>3 DEF Map!Take
  <2> QED BY <2>1 DEF Map!Next
<1> QED BY <1>1, <1>2, <1>3

LEMMA MapOffers ==
  ASSUME NEW k \in Keys, NEW c \in Contents,
         \A l \in Keys : Led(l)' = Led(l),
         \A l \in Keys \ {k} : OfferedNow(l)' = OfferedNow(l),
         OfferedNow(k)' = OfferedNow(k) \cup {c}
  PROVE  [Map!Next]_Map!vars
<1>1. Map!Offer(k, c)
  BY DEF Map!Offer
<1> QED BY <1>1 DEF Map!Next

LEMMA MapReturns ==
  ASSUME NEW k \in Keys, NEW c \in Contents,
         \A l \in Keys \ {k} : Led(l)' = Led(l) /\ OfferedNow(l)' = OfferedNow(l),
         Led(k)' \in {c, NoBytes}, c \in OfferedNow(k),
         OfferedNow(k)' = OfferedNow(k) \ {c}
  PROVE  [Map!Next]_Map!vars
<1>1. Map!Return(k, c)
  BY DEF Map!Return
<1> QED BY <1>1 DEF Map!Next

LEMMA MapMoves ==
  ASSUME NEW k \in Keys, NEW l \in Keys, k # l,
         \A m \in Keys : OfferedNow(m)' = OfferedNow(m),
         \A m \in Keys \ {k, l} : Led(m)' = Led(m),
         Led(k) \in OfferedNow(l), Led(l)' = Led(k), Led(k)' = NoBytes
  PROVE  [Map!Next]_Map!vars
<1>1. Map!Move(k, l)
  BY DEF Map!Move
<1> QED BY <1>1 DEF Map!Next

\* What is offered depends on what the writers have, and on the migration.
LEMMA OfferedSame ==
  ASSUME UNCHANGED writer,
         \/ UNCHANGED uploader
         \/ uploader.phase \notin Moving /\ uploader'.phase \notin Moving
         \/ /\ uploader.phase \in Moving /\ uploader'.phase \in Moving
            /\ uploader'.bytes = uploader.bytes
  PROVE  \A l \in Keys : OfferedNow(l)' = OfferedNow(l)
BY DEF OfferedNow

LEMMA OfferedOnly ==
  ASSUME MapInv, NEW w \in Writers, writer[w].phase # "idle"
  PROVE  OfferedNow(writer[w].key) = {writer[w].bytes}
BY DEF OfferedNow, MapInv, StoresAlone

LEMMA RefineStore ==
  ASSUME Disturbances = {}, MapInv, Store
  PROVE  [Map!Next]_Map!vars
<1>1. ASSUME NEW w \in Writers, NEW k \in Keys, NEW c \in Contents, Begin(w, k, c)
      PROVE  [Map!Next]_Map!vars
  <2>1. /\ writer'[w].key = k /\ writer'[w].bytes = c
        /\ \A v \in Writers \ {w} : writer'[v] = writer[v]
        /\ writer[w].key \notin Keys
        /\ UNCHANGED <<moka, blob, disk, uploader>>
    <3>1. /\ writer'[w].key = k /\ writer'[w].bytes = c
          /\ \A v \in Writers \ {w} : writer'[v] = writer[v]
      BY <1>1, WriterNow DEF Begin, MapInv, WriterPhases
    <3>2. writer[w].key \notin Keys
      BY <1>1, AtWork, KindFacts DEF Begin, MapInv
    <3> QED BY <1>1, <3>1, <3>2 DEF Begin, tiers
  <2>2. OfferedNow(k)' = OfferedNow(k) \cup {c}
    BY <2>1 DEF OfferedNow
  <2>3. \A l \in Keys \ {k} : OfferedNow(l)' = OfferedNow(l)
    BY <2>1 DEF OfferedNow
  <2>4. \A l \in Keys : Led(l)' = Led(l)
    BY <2>1 DEF Led
  <2> QED BY <2>2, <2>3, <2>4, MapOffers
<1>2. ASSUME NEW w \in Writers,
             StoreBlob(w) \/ StoreMoka(w) \/ DropMoka(w) \/ StoreDisk(w)
      PROVE  [Map!Next]_Map!vars
  <2>1. PICK k \in Keys : k = writer[w].key
    BY <1>2, LedStore
  <2>2. PICK c \in Contents : c = writer[w].bytes
    BY <1>2, LedStore
  <2>3. writer[w].phase # "idle" /\ UNCHANGED uploader
    BY <1>2 DEF StoreBlob, StoreMoka, DropMoka, StoreDisk
  <2>4. OfferedNow(k) = {c}
    BY <2>1, <2>2, <2>3, OfferedOnly
  <2>5. \A l \in Keys \ {k} : Led(l)' = Led(l)
    BY <1>2, <2>1, LedStore
  <2>6. CASE StoreBlob(w) \/ DropMoka(w)
    <3>1. /\ writer'[w].key = k /\ writer'[w].bytes = c
          /\ \A v \in Writers \ {w} : writer'[v] = writer[v]
      BY <2>1, <2>2, <2>6, WriterNow DEF StoreBlob, DropMoka, MapInv, WriterPhases
    <3>2. \A l \in Keys : OfferedNow(l)' = OfferedNow(l)
      BY <2>1, <2>2, <2>3, <3>1 DEF OfferedNow
    <3>3. Led(k)' \in {Led(k), c, NoBytes}
      BY <1>2, <2>1, <2>2, LedStore
    <3> QED BY <2>4, <2>5, <3>2, <3>3, MapForgets
  <2>7. CASE StoreMoka(w) \/ StoreDisk(w)
    <3>1. /\ writer'[w].key \notin Keys
          /\ \A v \in Writers \ {w} : writer'[v] = writer[v]
      BY <2>7, WriterRests, KindFacts DEF StoreMoka, StoreDisk, MapInv
    <3>2. \A v \in Writers \ {w} : writer[v].key # k
      BY <2>1, <2>3 DEF MapInv, StoresAlone
    <3>3. uploader.phase \in Moving => uploader.bytes # k
      BY <2>1, <2>3 DEF MapInv, StoresAlone
    <3>4. OfferedNow(k)' = {}
      BY <2>3, <3>1, <3>2, <3>3 DEF OfferedNow
    <3>5. \A l \in Keys \ {k} : OfferedNow(l)' = OfferedNow(l)
      BY <2>1, <2>3, <3>1 DEF OfferedNow
    <3>6. Led(k)' = c
      BY <2>1, <2>2, <2>7, LedStore
    <3> QED BY <2>4, <2>5, <3>4, <3>5, <3>6, MapReturns
  <2> QED BY <1>2, <2>6, <2>7
<1> QED BY <1>1, <1>2 DEF Store

LEMMA RefineUpload ==
  ASSUME Disturbances = {}, MapInv, Upload
  PROVE  [Map!Next]_Map!vars
<1>0. UNCHANGED writer
  BY DEF Upload, Load, LoadBlob, LoadWarm, LoadDisk, Check, Sent, Migrate,
         CopyBlob, DeleteBlob, MigrateMoka, RenameFile, Migrated
<1>1. CASE (\E id \in Ids : Load(id)) \/ LoadBlob \/ LoadWarm \/ LoadDisk \/ Check \/ Sent
  <2>1. uploader.phase \notin Moving
    BY <1>1 DEF Load, LoadBlob, LoadWarm, LoadDisk, Check, Sent, Moving
  <2>2. uploader'.phase \notin Moving
    BY <1>1 DEF Load, LoadBlob, AfterBlob, LoadWarm, LoadDisk, Check, Sent, Stage,
                At, Idle, Moving
  <2>3. \A l \in Keys : Led(l)' = Led(l)
    <3>1. CASE LoadWarm
      BY <3>1, LedRead
    <3>2. CASE UNCHANGED tiers
      BY <3>2 DEF tiers, Led
    <3> QED BY <1>1, <3>1, <3>2 DEF Load, LoadBlob, LoadDisk, Check, Sent
  <2> QED BY <1>0, <2>1, <2>2, <2>3, OfferedSame, MapStutters
<1>2. ASSUME Migrate PROVE [Map!Next]_Map!vars
  <2>1. PICK new \in Contents : new = uploader.bytes
    BY <1>2, AtWork DEF Migrate, MapInv
  <2>2. /\ uploader.phase \notin Moving /\ uploader'.phase \in Moving
        /\ uploader'.bytes = new /\ UNCHANGED <<moka, blob, disk>>
    BY <1>2, <2>1 DEF Migrate, At, Moving, tiers
  <2>3. \A l \in Keys \ {new} : OfferedNow(l)' = OfferedNow(l)
    BY <1>0, <2>2 DEF OfferedNow
  <2>4. OfferedNow(new)' = OfferedNow(new) \cup {new}
    BY <1>0, <2>2 DEF OfferedNow
  <2>5. \A l \in Keys : Led(l)' = Led(l)
    BY <2>2 DEF Led
  <2> QED BY <2>3, <2>4, <2>5, MapOffers, KindFacts
<1>3. ASSUME CopyBlob \/ DeleteBlob \/ MigrateMoka \/ RenameFile
      PROVE  [Map!Next]_Map!vars
  <2>1. /\ uploader.phase \in Moving /\ uploader'.phase \in Moving
        /\ uploader'.bytes = uploader.bytes
    BY <1>3, MoveNow
  <2>2. \A l \in Keys : OfferedNow(l)' = OfferedNow(l)
    BY <1>0, <2>1, OfferedSame
  <2>3. PICK old \in Keys, new \in Keys : old = uploader.key /\ new = uploader.bytes
    BY <1>3, LedMove
  <2>4. new \in OfferedNow(new)
    BY <2>1, <2>3 DEF OfferedNow
  <2>5. /\ old # new /\ \A l \in Keys \ {old, new} : Led(l)' = Led(l)
        /\ Led(new)' \in {Led(new), new} /\ Led(old)' \in {Led(old), NoBytes}
        /\ CopyBlob => Led(old)' = Led(old)
        /\ DeleteBlob => Led(new)' = Led(new)
        /\ Led(old) \in {new, NoBytes} /\ Led(new) \in {new, NoBytes}
        /\ Led(old)' # Led(old) => Led(new)' = new
        /\ ~CopyBlob /\ ~DeleteBlob /\ Led(new)' # Led(new) =>
              Led(old) = new /\ Led(old)' = NoBytes
    BY <1>3, <2>3, LedMove
  <2>6. CASE Led(old)' = Led(old)
    BY <2>2, <2>4, <2>5, <2>6, MapForgets
  <2>7. CASE Led(old)' # Led(old)
    <3>1. Led(old) = new /\ Led(old)' = NoBytes /\ Led(new)' = new
      BY <2>5, <2>7
    <3> QED BY <2>2, <2>4, <2>5, <3>1, MapMoves
  <2> QED BY <2>6, <2>7
<1>4. ASSUME Migrated PROVE [Map!Next]_Map!vars
  <2>1. /\ uploader.phase \in Moving /\ uploader'.phase \notin Moving
        /\ UNCHANGED <<moka, blob, disk>>
    BY <1>4 DEF Migrated, Idle, At, Moving, tiers
  <2>2. PICK new \in Contents : new = uploader.bytes /\ new \in Keys
    BY <2>1, MoveFacts
  <2>3. \A w \in Writers : writer[w].key # new
    BY <2>1, <2>2, AtWork, KindFacts DEF MapInv, StoresAlone
  <2>4. OfferedNow(new) = {new} /\ OfferedNow(new)' = {}
    BY <1>0, <2>1, <2>2, <2>3 DEF OfferedNow
  <2>5. \A l \in Keys \ {new} : OfferedNow(l)' = OfferedNow(l)
    BY <1>0, <2>1, <2>2 DEF OfferedNow
  <2>6. (\A l \in Keys : Led(l)' = Led(l)) /\ Led(new) \in {new, NoBytes}
    BY <2>1, <2>2, LedFacts DEF Led
  <2> QED BY <2>2, <2>4, <2>5, <2>6, MapReturns
<1> QED BY <1>1, <1>2, <1>3, <1>4 DEF Upload

LEMMA RefineFade ==
  ASSUME MapInv, NEW k \in Keys, Expire(k) \/ Unlink(k)
  PROVE  [Map!Next]_Map!vars
<1>1. \A l \in Keys : OfferedNow(l)' = OfferedNow(l)
  BY OfferedSame DEF Expire, Unlink
<1>2. \A w \in Writers : writer[w].key = k => writer[w].bytes \in OfferedNow(k)
  BY DEF OfferedNow
<1>3. Led(k)' \in {Led(k), NoBytes} \cup OfferedNow(k)
  BY <1>2, LedFade
<1> QED BY <1>1, <1>3, LedFade, MapForgets

LEMMA RefineCrash ==
  ASSUME MapInv, MapInv', Crash
  PROVE  [Map!Next]_Map!vars
<1>1. \A l \in Keys : OfferedNow(l)' = {}
  <2>1. /\ \A w \in Writers : writer'[w].key \notin Keys
        /\ uploader'.phase \notin Moving
    BY KindFacts DEF Crash, Idle, At, Moving
  <2> QED BY <2>1 DEF OfferedNow
<1>2. ASSUME NEW k \in Keys
      PROVE  Led(k)' \in {Led(k), NoBytes} \cup OfferedNow(k)
  <2>1. \A w \in Writers : writer[w].key = k => writer[w].bytes \in OfferedNow(k)
    BY DEF OfferedNow
  <2> QED BY <2>1, LedCrash
<1>3. \A k \in Keys : Led(k)' \in Contents \cup {NoBytes}
  BY KindFacts DEF MapInv, Copies, Led
<1>4. Map!Crash
  BY <1>1, <1>2, <1>3 DEF Map!Crash
<1> QED BY <1>4 DEF Map!Next

LEMMA RefineStep ==
  ASSUME Disturbances = {}
  PROVE  MapInv /\ MapInv' /\ [Next]_vars => [Map!Next]_Map!vars
<1> SUFFICES ASSUME MapInv, MapInv', [Next]_vars PROVE [Map!Next]_Map!vars
  OBVIOUS
<1>1. CASE Store
  BY <1>1, RefineStore
<1>2. CASE Read
  <2>1. UNCHANGED <<writer, uploader>>
    BY <1>2 DEF Read, Look, LookBlob, Warm, LookDisk
  <2> QED BY <1>2, <2>1, LedRead, OfferedSame, MapStutters
<1>3. CASE Upload
  BY <1>3, RefineUpload
<1>4. CASE UNCHANGED vars
  BY <1>4, MapStutters, OfferedSame DEF vars, tiers, Led
<1> QED BY <1>1, <1>2, <1>3, <1>4, RefineFade, RefineCrash DEF Next

LEMMA RefineInit == Init => Map!Init
<1> SUFFICES ASSUME Init PROVE Map!Init
  OBVIOUS
<1>1. \A k \in Keys : Led(k) = NoBytes
  BY DEF Init, NoContent, Led
<1>2. \A k \in Keys : OfferedNow(k) = {}
  BY KindFacts DEF Init, Idle, At, OfferedNow, Moving
<1> QED BY <1>1, <1>2 DEF Map!Init

\* The three tiers implement one map that forgets but does not resurrect, for
\* any interleaving of stores, lookups, evictions, migrations and crashes in which
\* nothing is shrunk and a key is left alone while it is stored or moved
\* (object_manager.rs).
THEOREM ContentRefinement ==
  ASSUME Disturbances = {}
  PROVE  Spec => RefinesContentMap
<1>1. Init => MapInv
  BY MapInit
<1>2. MapInv /\ [Next]_vars => MapInv'
  BY MapStep
<1>3. MapInv /\ MapInv' /\ [Next]_vars => [Map!Next]_Map!vars
  BY RefineStep
<1> QED BY <1>1, <1>2, <1>3, RefineInit, PTL DEF Spec, RefinesContentMap, Map!Spec

================================================================================
