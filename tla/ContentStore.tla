----------------------------- MODULE ContentStore ------------------------------
(***************************************************************************)
(* The three tiers of the content cache (object_manager.rs): moka in RAM,  *)
(* the small_files BLOBs of SQLite (db_manager.rs) and the files of the    *)
(* content directory.  Every tier is changed by a step of its own, and the *)
(* threads that store, look up and migrate interleave between the steps.   *)
(*                                                                         *)
(* A content is small or large, and is its own MD5 sum: a key is a file id *)
(* or a content.  That a tier refuses a write (full disk, pool error) is   *)
(* left out.                                                               *)
(***************************************************************************)
EXTENDS Naturals

CONSTANTS
    Ids,          \* file ids, used as keys while a file is dirty
    Small, Large, \* contents, by the tier they belong to
    Empty,        \* the small content of length zero
    NoBytes, NoKey,
    Writers,      \* threads that store: the event loop, the P2 worker
    Readers,      \* threads that look up for read() and open()
    Disturbances, \* what the run lets happen, see below
    MaxStores,    \* bound: stores in a behaviour
    MaxCrashes    \* bound: crashes in a behaviour

(* Disturbances:                                                            *)
(*   "shrink"  a small content is stored where a large one has been         *)
(*   "overlap" a lookup, a store or a migration starts on a key while       *)
(*             another thread stores under it, looks it up or migrates it   *)
ASSUME DisturbancesAssumption == Disturbances \subseteq {"shrink", "overlap"}

Contents == Small \cup Large
Keys == Ids \cup Contents

ASSUME NamesAssumption ==
    /\ Small \cap Large = {} /\ Ids \cap Contents = {}
    /\ Empty \in Small /\ NoBytes \notin Keys /\ NoKey \notin Keys
ASSUME BoundsAssumption == MaxStores \in Nat /\ MaxCrashes \in Nat

VARIABLES
    moka, blob, disk,  \* the tiers, NoBytes where a key is not present
    writer,            \* store_content_at_key, running on each writer
    reader,            \* get_content and the disk lookup, on each reader
    uploader,          \* the uploader: loads the content of an id, migrates it
    expected,          \* history: the content of the last store that returned,
                       \* and those of the stores begun since
    stores, crashes

vars ==
    <<moka, blob, disk, writer, reader, uploader, expected, stores, crashes>>

tiers == <<moka, blob, disk>>
Tier == [Keys -> Contents \cup {NoBytes}]
At(phase, k, c) == [phase |-> phase, key |-> k, bytes |-> c]
Idle == At("idle", NoKey, NoBytes)
Thread(phases) == [phase : phases \cup {"idle"}, key : Keys \cup {NoKey},
                   bytes : Contents \cup {NoBytes}]

Looking == {"blob", "warm", "disk"}
Moving == {"copy", "delete", "moka", "rename", "done"}

TypeOK ==
    /\ moka \in Tier /\ blob \in Tier /\ disk \in Tier
    /\ expected \in [Keys -> SUBSET Contents]
    /\ writer \in [Writers -> Thread({"blob", "moka", "disk"})]
    /\ reader \in [Readers -> Thread(Looking)]
    /\ uploader \in Thread(Looking \cup {"check", "send"} \cup Moving)
    /\ uploader.phase \in {"check", "send"} \cup Moving =>
          uploader.key \in Ids /\ uploader.bytes # NoBytes
    /\ stores \in 0..MaxStores /\ crashes \in 0..MaxCrashes

NoContent == [k \in Keys |-> NoBytes]

Init ==
    /\ moka = NoContent /\ blob = NoContent /\ disk = NoContent
    /\ writer = [w \in Writers |-> Idle]
    /\ reader = [r \in Readers |-> Idle]
    /\ uploader = Idle
    /\ expected = [k \in Keys |-> {}]
    /\ stores = 0 /\ crashes = 0

Put(tier, k, c) == [tier EXCEPT ![k] = c]

\* get_content, then the disk: what a lookup of k leads to.
Led(k) == IF moka[k] # NoBytes THEN moka[k]
          ELSE IF blob[k] # NoBytes THEN blob[k] ELSE disk[k]

-----------------------------------------------------------------------------
(* What a run without the disturbances rules out.                           *)

Storing(k) == \E w \in Writers : writer[w].key = k
LookingUp(k) == uploader.key = k \/ \E r \in Readers : reader[r].key = k
Migrating(k) ==
    uploader.phase \in Moving /\ k \in {uploader.key, uploader.bytes}

MayStore(k) ==
    \/ "overlap" \in Disturbances
    \/ ~Storing(k) /\ ~LookingUp(k) /\ ~Migrating(k)
MayLookUp(k) ==
    "overlap" \in Disturbances \/ (~Storing(k) /\ ~Migrating(k))
MayMigrate(k) ==
    \/ "overlap" \in Disturbances
    \/ ~Storing(k) /\ \A r \in Readers : reader[r].key # k

-----------------------------------------------------------------------------
(* store_content_at_key and store_content_bytes.                            *)

Begin(w, k, c) ==
    /\ writer[w].phase = "idle" /\ stores < MaxStores
    /\ k \in Contents => c = k
    /\ MayStore(k)
    /\ "shrink" \in Disturbances \/ c \in Large \/ disk[k] = NoBytes
    /\ stores' = stores + 1
    /\ writer' = [writer EXCEPT ![w] = At("blob", k, c)]
    /\ expected' = [expected EXCEPT ![k] = @ \cup {c}]
    /\ UNCHANGED <<tiers, reader, uploader, crashes>>

\* Slip: a large content leaves the BLOB of the small one before it.
StoreBlobKept(w) ==
    LET c == writer[w].bytes
    IN  /\ writer[w].phase = "blob"
        /\ blob' = IF c \in Small THEN Put(blob, writer[w].key, c) ELSE blob
        /\ writer' = [writer EXCEPT ![w] = At("moka", writer[w].key, c)]
        /\ UNCHANGED <<moka, disk, reader, uploader, expected, stores, crashes>>

\* store_small_file or delete_small_file.
StoreBlob(w) ==
    LET c == writer[w].bytes
    IN  /\ writer[w].phase = "blob"
        /\ blob' = Put(blob, writer[w].key, IF c \in Small THEN c ELSE NoBytes)
        /\ writer' = [writer EXCEPT ![w] = At("moka", writer[w].key, c)]
        /\ UNCHANGED <<moka, disk, reader, uploader, expected, stores, crashes>>

\* The small content is in RAM, and the store returns.
StoreMoka(w) ==
    LET k == writer[w].key
        c == writer[w].bytes
    IN  /\ writer[w].phase = "moka" /\ c \in Small
        /\ moka' = Put(moka, k, c)
        /\ expected' = [expected EXCEPT ![k] = {c}]
        /\ writer' = [writer EXCEPT ![w] = Idle]
        /\ UNCHANGED <<blob, disk, reader, uploader, stores, crashes>>

\* Slip: a large content leaves the small one before it in RAM.
DropMokaKept(w) ==
    /\ writer[w].phase = "moka" /\ writer[w].bytes \in Large
    /\ writer' = [writer EXCEPT ![w] = At("disk", writer[w].key, writer[w].bytes)]
    /\ UNCHANGED <<tiers, reader, uploader, expected, stores, crashes>>

\* A large content is not kept in RAM.
DropMoka(w) ==
    /\ writer[w].phase = "moka" /\ writer[w].bytes \in Large
    /\ moka' = Put(moka, writer[w].key, NoBytes)
    /\ writer' = [writer EXCEPT ![w] = At("disk", writer[w].key, writer[w].bytes)]
    /\ UNCHANGED <<blob, disk, reader, uploader, expected, stores, crashes>>

\* DiskCache::insert: a temporary file renamed into place.
StoreDisk(w) ==
    LET k == writer[w].key
        c == writer[w].bytes
    IN  /\ writer[w].phase = "disk"
        /\ disk' = Put(disk, k, c)
        /\ expected' = [expected EXCEPT ![k] = {c}]
        /\ writer' = [writer EXCEPT ![w] = Idle]
        /\ UNCHANGED <<moka, blob, reader, uploader, stores, crashes>>

-----------------------------------------------------------------------------
(* get_content, then read_disk_slice or read_full_disk_content.             *)

\* A lookup that found nothing in moka reads the BLOB; it warms moka with it.
AfterBlob(k) == IF blob[k] = NoBytes THEN At("disk", k, NoBytes)
                ELSE At("warm", k, blob[k])

\* read() finds the content in moka or goes on.
Look(r, k) ==
    /\ reader[r].phase = "idle" /\ MayLookUp(k)
    /\ moka[k] = NoBytes
    /\ reader' = [reader EXCEPT ![r] = At("blob", k, NoBytes)]
    /\ UNCHANGED <<tiers, writer, uploader, expected, stores, crashes>>

LookBlob(r) ==
    /\ reader[r].phase = "blob"
    /\ reader' = [reader EXCEPT ![r] = AfterBlob(reader[r].key)]
    /\ UNCHANGED <<tiers, writer, uploader, expected, stores, crashes>>

Warm(r) ==
    /\ reader[r].phase = "warm"
    /\ moka' = Put(moka, reader[r].key, reader[r].bytes)
    /\ reader' = [reader EXCEPT ![r] = Idle]
    /\ UNCHANGED <<blob, disk, writer, uploader, expected, stores, crashes>>

LookDisk(r) ==
    /\ reader[r].phase = "disk"
    /\ reader' = [reader EXCEPT ![r] = Idle]
    /\ UNCHANGED <<tiers, writer, uploader, expected, stores, crashes>>

-----------------------------------------------------------------------------
(* upload_entry: it loads the content, uploads it, and on an answer with a  *)
(* checksum moves it from the id to the sum, BLOB first.  (migrate_cache_key *)
(* looks at the BLOB once more, in vain; for a created file the BLOB has    *)
(* been renamed in one statement by finalize_new_file.)                     *)

\* The uploader at another stage of the same content.
Stage(phase) == At(phase, uploader.key, uploader.bytes)

Load(id) ==
    /\ uploader.phase = "idle" /\ MayLookUp(id)
    /\ uploader' = IF moka[id] # NoBytes THEN At("check", id, moka[id])
                   ELSE At("blob", id, NoBytes)
    /\ UNCHANGED <<tiers, writer, reader, expected, stores, crashes>>

LoadBlob ==
    /\ uploader.phase = "blob"
    /\ uploader' = AfterBlob(uploader.key)
    /\ UNCHANGED <<tiers, writer, reader, expected, stores, crashes>>

LoadWarm ==
    /\ uploader.phase = "warm"
    /\ moka' = Put(moka, uploader.key, uploader.bytes)
    /\ uploader' = Stage("check")
    /\ UNCHANGED <<blob, disk, writer, reader, expected, stores, crashes>>

\* Slip: an entry without content is not skipped.
LoadDiskUnchecked ==
    /\ uploader.phase = "disk"
    /\ uploader' = At("check", uploader.key, disk[uploader.key])
    /\ UNCHANGED <<tiers, writer, reader, expected, stores, crashes>>

\* Nothing on disk either: the entry is skipped.
LoadDisk ==
    /\ uploader.phase = "disk"
    /\ uploader' = IF disk[uploader.key] = NoBytes THEN Idle
                   ELSE At("check", uploader.key, disk[uploader.key])
    /\ UNCHANGED <<tiers, writer, reader, expected, stores, crashes>>

\* An empty content gives way to a file on disk.
Check ==
    /\ uploader.phase = "check"
    /\ uploader' = At("send", uploader.key,
          IF uploader.bytes = Empty /\ disk[uploader.key] # NoBytes
          THEN disk[uploader.key] ELSE uploader.bytes)
    /\ UNCHANGED <<tiers, writer, reader, expected, stores, crashes>>

\* The upload fails, or its answer has no checksum.
Sent ==
    /\ uploader.phase = "send"
    /\ uploader' = Idle
    /\ UNCHANGED <<tiers, writer, reader, expected, stores, crashes>>

\* migrate_cache_key, called with the sum as the new key.
Migrate ==
    LET old == uploader.key
        new == uploader.bytes
    IN  /\ uploader.phase = "send"
        /\ MayMigrate(old) /\ MayMigrate(new)
        /\ uploader' = At("copy", old, new)
        /\ UNCHANGED <<tiers, writer, reader, expected, stores, crashes>>

\* Slip: the row is deleted whether or not it was copied.
CopyBlobFails ==
    /\ uploader.phase = "copy"
    /\ uploader' = Stage("delete")
    /\ UNCHANGED <<tiers, writer, reader, expected, stores, crashes>>

\* migrate_small_file_key: INSERT OR REPLACE ...
CopyBlob ==
    LET old == uploader.key
    IN  /\ uploader.phase = "copy"
        /\ blob' = IF blob[old] = NoBytes THEN blob
                   ELSE Put(blob, uploader.bytes, blob[old])
        /\ uploader' = At(IF blob[old] = NoBytes THEN "moka" ELSE "delete",
                          old, uploader.bytes)
        /\ UNCHANGED <<moka, disk, writer, reader, expected, stores, crashes>>

\* ... and DELETE, if something was copied.
DeleteBlob ==
    /\ uploader.phase = "delete"
    /\ blob' = Put(blob, uploader.key, NoBytes)
    /\ uploader' = Stage("moka")
    /\ UNCHANGED <<moka, disk, writer, reader, expected, stores, crashes>>

MigrateMoka ==
    LET old == uploader.key
        new == uploader.bytes
    IN  /\ uploader.phase = "moka"
        /\ moka' = IF moka[old] = NoBytes THEN moka
                   ELSE Put(Put(moka, new, moka[old]), old, NoBytes)
        /\ uploader' = Stage("rename")
        /\ UNCHANGED <<blob, disk, writer, reader, expected, stores, crashes>>

RenameFile ==
    LET old == uploader.key
        new == uploader.bytes
    IN  /\ uploader.phase = "rename"
        /\ disk' = IF disk[old] = NoBytes THEN disk
                   ELSE Put(Put(disk, new, disk[old]), old, NoBytes)
        /\ uploader' = Stage("done")
        /\ UNCHANGED <<moka, blob, writer, reader, expected, stores, crashes>>

\* The content is found under the sum from now on.
Migrated ==
    /\ uploader.phase = "done"
    /\ uploader' = Idle
    /\ UNCHANGED <<tiers, writer, reader, expected, stores, crashes>>

-----------------------------------------------------------------------------
(* What happens to the tiers besides.  invalidate_content, which leaves the  *)
(* BLOB alone, is an Expire and an Unlink of the same key.                   *)

\* moka: the capacity is reached, or ten minutes are over.
Expire(k) ==
    /\ moka[k] # NoBytes
    /\ moka' = Put(moka, k, NoBytes)
    /\ UNCHANGED <<blob, disk, writer, reader, uploader, expected, stores, crashes>>

\* The cleaner, the sync manager's evict_disk_content, or the garbage
\* collection of a start unlinks a file.
Unlink(k) ==
    /\ disk[k] # NoBytes
    /\ disk' = Put(disk, k, NoBytes)
    /\ UNCHANGED <<moka, blob, writer, reader, uploader, expected, stores, crashes>>

\* The process dies: RAM and the threads are gone.
Crash ==
    /\ crashes < MaxCrashes
    /\ crashes' = crashes + 1
    /\ moka' = NoContent
    /\ writer' = [w \in Writers |-> Idle]
    /\ reader' = [r \in Readers |-> Idle]
    /\ uploader' = Idle
    /\ UNCHANGED <<blob, disk, expected, stores>>

-----------------------------------------------------------------------------

Store == \E w \in Writers :
    \/ \E k \in Keys, c \in Contents : Begin(w, k, c)
    \/ StoreBlob(w) \/ StoreMoka(w) \/ DropMoka(w) \/ StoreDisk(w)
Read == \E r \in Readers :
    \/ \E k \in Keys : Look(r, k)
    \/ LookBlob(r) \/ Warm(r) \/ LookDisk(r)
Upload ==
    \/ \E id \in Ids : Load(id)
    \/ LoadBlob \/ LoadWarm \/ LoadDisk \/ Check \/ Sent
    \/ Migrate \/ CopyBlob \/ DeleteBlob \/ MigrateMoka \/ RenameFile
    \/ Migrated
Next ==
    \/ Store \/ Read \/ Upload \/ Crash
    \/ \E k \in Keys : Expire(k) \/ Unlink(k)

Spec == Init /\ [][Next]_vars

-----------------------------------------------------------------------------
(* Correctness.                                                             *)

\* The three tiers implement one map that forgets but does not resurrect:
\* whatever is begun, finished, evicted, migrated or interrupted by a crash, a
\* lookup of a key leads to the content of the last store under it, to the one
\* being stored, or nowhere (object_manager.rs 578-662).
OfferedNow(k) ==
    {writer[w].bytes : w \in {v \in Writers : writer[v].key = k}} \cup
    (IF uploader.phase \in Moving /\ uploader.bytes = k THEN {k} ELSE {})

Map == INSTANCE ContentMap WITH
    Nothing <- NoBytes,
    held <- [k \in Keys |-> Led(k)],
    offered <- [k \in Keys |-> OfferedNow(k)]

RefinesContentMap == Map!Spec

\* What the uploader sends for an id is the content stored last under it, or a
\* later one: no tier serves it a copy that was replaced, as long as no content
\* takes the place of a larger one ("shrink") and no reader is between two tiers
\* of a key while it is stored ("overlap") (upload_manager.rs 137-171).
UploadsWhatWasStored ==
    uploader.phase = "send" => uploader.bytes \in expected[uploader.key]

\* A content that can be found stays so, under its key or under its sum, through
\* crashes, expiries and migrations: only the unlinking of its file, or a store
\* under way that outgrows the RAM tier, takes it away.
NothingIsLost ==
    [][\A k \in Keys, c \in Contents :
         Led(k) = c /\ Led(k)' = NoBytes =>
             \/ disk[k] = c /\ disk'[k] = NoBytes
             \/ \E w \in Writers : writer[w].key = k /\ writer[w].bytes \in Large
             \/ Led(c)' = c]_vars

===============================================================================
