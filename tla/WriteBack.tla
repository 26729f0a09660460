------------------------------ MODULE WriteBack ------------------------------
(***************************************************************************)
(* The write-back path with SQLite present: write handles (fuse_ops.rs),   *)
(* the dirty rows (db_manager.rs), the content cache (object_manager.rs),  *)
(* the uploader (upload_manager.rs), the cleaner (cache_cleaner.rs), the   *)
(* P2 download worker, and a crash followed by a restart (main.rs).        *)
(*                                                                         *)
(* The three tiers of the content cache are one map from cache keys to     *)
(* contents; an MD5 sum is the content it is the sum of.  Names, parents,  *)
(* sizes and byte ranges are left out.  FUSE callbacks run one at a time;  *)
(* everything else interleaves with the steps of a callback.               *)
(***************************************************************************)
EXTENDS Naturals, FiniteSets

CONSTANTS
    OldFiles,     \* files Drive has at the start, named by their Drive id
    NewFiles,     \* files the user may create
    PendingIds,   \* "__pending__<fh>"
    SpareIds,     \* ids Drive gives to created files
    Handles,      \* write handles
    Bytes,        \* contents, and their MD5 sums
    Empty,        \* the content of length zero
    Original,     \* what Drive holds for the old files
    NoId, NoBytes, NoFile,
    Disturbances, \* what the run lets happen, see below
    MaxWrites,    \* bound: writes in a behaviour
    MaxCrashes    \* bound: crashes in a behaviour

(* Disturbances: an activity on one file overlaps another one on it ...     *)
(*   "upload"    the upload of an entry, with open / flush / release        *)
(*   "cleaner"   an eviction, with open / flush / release                   *)
(*   "reader"    a download for read(), with any of the above               *)
(*   "handle"    a second write handle                                      *)
(*   "relist"    a listing of it, from the request to the storing of the    *)
(*               answer, with an upload; or the storing, with open          *)
(* ... or an external call goes wrong:                                      *)
(*   "lostReply" Drive carries out an upload whose answer is lost           *)
(*   "fetchErr"  the download for open() fails                              *)
(*   "gone"      the parent folder of a created file is deleted             *)
(*   "sum"       the answer to an upload carries a checksum, which the      *)
(*               requests of gclient.rs do not ask for                      *)
ASSUME DisturbancesAssumption ==
    Disturbances \subseteq
        {"upload", "cleaner", "reader", "handle", "relist", "lostReply",
         "fetchErr", "gone", "sum"}

Files == OldFiles \cup NewFiles
DriveIds == OldFiles \cup SpareIds
Ids == DriveIds \cup PendingIds
Keys == Ids \cup Bytes

ASSUME NamesAssumption ==
    /\ OldFiles \cap NewFiles = {}
    /\ OldFiles \cap SpareIds = {}
    /\ DriveIds \cap PendingIds = {}
    /\ Ids \cap Bytes = {}
    /\ NoId \notin Ids /\ NoBytes \notin Keys /\ NoFile \notin Files
    /\ {Empty, Original} \subseteq Bytes
ASSUME BoundsAssumption == MaxWrites \in Nat /\ MaxCrashes \in Nat

VARIABLES
    idOf,      \* ino_to_id: the id behind each file, NoId if it has no inode
    md5Of,     \* ObjectManager.metadata: the MD5 sum known for an id
    row,       \* SQLite metadata: "none", "clean" or "dirty" ...
    rowFile,   \* ... its inode column ...
    rowMd5,    \* ... and its md5_checksum column
    content,   \* the content cache, by key
    drive,     \* what Drive holds
    handle,    \* write_buffers, and the callback running on each handle
    uploader,  \* the uploader thread
    cleaner,   \* the key the cleaner is about to unlink, or NoBytes
    worker,    \* the P2 worker: the id and bytes of a download in flight
    answer,    \* a listing in flight: what Drive has said of a file's checksum
    mounted,   \* pending ids handed out since the mount (next_fh)
    accepted,  \* history: the contents a user may expect to find in a file
    writes, crashes

vars == <<idOf, md5Of, row, rowFile, rowMd5, content, drive, handle, uploader,
          cleaner, worker, answer, mounted, accepted, writes, crashes>>

Closed == [phase |-> "closed", file |-> NoFile, id |-> NoId, created |-> FALSE,
           bytes |-> Empty, wrote |-> FALSE, flushed |-> FALSE]
Resting == [phase |-> "idle", queue |-> {}, id |-> NoId, newId |-> NoId,
            bytes |-> Empty]
NoDownload == [id |-> NoId, bytes |-> Empty]
NoAnswer == [id |-> NoId, sum |-> NoBytes]

HandleState ==
    [phase : {"closed", "fetch", "seed", "open", "mark"},
     file : Files \cup {NoFile}, id : Ids \cup {NoId}, created : BOOLEAN,
     bytes : Bytes, wrote : BOOLEAN, flushed : BOOLEAN]
UploaderState ==
    [phase : {"idle", "pick", "send", "clear", "migrate", "publish",
              "finalize", "replace", "abandon", "forget"},
     queue : SUBSET Ids, id : Ids \cup {NoId}, newId : DriveIds \cup {NoId},
     bytes : Bytes]

TypeOK ==
    /\ idOf \in [Files -> Ids \cup {NoId}]
    /\ md5Of \in [Ids -> Bytes \cup {NoBytes}]
    /\ row \in [Ids -> {"none", "clean", "dirty"}]
    /\ rowFile \in [Ids -> Files \cup {NoFile}]
    /\ rowMd5 \in [Ids -> Bytes \cup {NoBytes}]
    /\ content \in [Keys -> Bytes \cup {NoBytes}]
    /\ drive \in [DriveIds -> Bytes \cup {NoBytes}]
    /\ handle \in [Handles -> HandleState]
    /\ uploader \in UploaderState
    /\ cleaner \in Keys \cup {NoBytes}
    /\ worker \in [id : Ids \cup {NoId}, bytes : Bytes]
    /\ answer \in [id : Ids \cup {NoId}, sum : Bytes \cup {NoBytes}]
    /\ mounted \subseteq PendingIds
    /\ accepted \in [Files -> SUBSET Bytes]
    /\ writes \in 0..MaxWrites
    /\ crashes \in 0..MaxCrashes

Init ==
    /\ idOf = [f \in Files |-> IF f \in OldFiles THEN f ELSE NoId]
    /\ md5Of = [id \in Ids |-> NoBytes]
    /\ row = [id \in Ids |-> "none"]
    /\ rowFile = [id \in Ids |-> NoFile]
    /\ rowMd5 = [id \in Ids |-> NoBytes]
    /\ content = [k \in Keys |-> NoBytes]
    /\ drive = [id \in DriveIds |-> IF id \in OldFiles THEN Original ELSE NoBytes]
    /\ handle = [h \in Handles |-> Closed]
    /\ uploader = Resting
    /\ cleaner = NoBytes
    /\ worker = NoDownload
    /\ answer = NoAnswer
    /\ mounted = {}
    /\ accepted = [f \in Files |-> IF f \in OldFiles THEN {Original} ELSE {}]
    /\ writes = 0
    /\ crashes = 0

\* cache_key_for: the id while the file is pending or dirty, else its MD5 sum.
CacheKey(id) ==
    IF id \in PendingIds \/ row[id] = "dirty" \/ md5Of[id] = NoBytes
    THEN id ELSE md5Of[id]

-----------------------------------------------------------------------------
(* What a run without the disturbances rules out: two activities on a file. *)

Uploading(id) ==
    /\ uploader.phase \notin {"idle", "pick"}
    /\ id \in {uploader.id, uploader.newId}

InCallback(id) ==
    \E h \in Handles : /\ handle[h].id = id
                       /\ handle[h].phase \in {"fetch", "seed", "mark"}

\* A callback may start on id.
MayAccess(id) ==
    /\ "upload" \in Disturbances \/ ~Uploading(id)
    /\ "cleaner" \in Disturbances \/ cleaner \notin {id, CacheKey(id)}
    /\ "reader" \in Disturbances \/ worker.id # id

-----------------------------------------------------------------------------
(* The callbacks of fuse_ops.rs.  The event loop serves one at a time.      *)

EventLoopFree == \A h \in Handles : handle[h].phase \in {"closed", "open"}

Opened(phase, f, id, created, bytes) ==
    [phase |-> phase, file |-> f, id |-> id, created |-> created,
     bytes |-> bytes, wrote |-> FALSE, flushed |-> FALSE]

\* The open handle h with another buffer.
Filled(h, bytes, wrote, flushed) ==
    [phase |-> "open", file |-> handle[h].file, id |-> handle[h].id,
     created |-> handle[h].created, bytes |-> bytes, wrote |-> wrote,
     flushed |-> flushed]

\* create(): a placeholder, an inode and an empty write buffer.
Create(h, f, pid) ==
    /\ EventLoopFree
    /\ handle[h].phase = "closed"
    /\ f \in NewFiles /\ idOf[f] = NoId
    /\ \A g \in Handles : handle[g].file # f
    /\ pid \notin mounted
    /\ mounted' = mounted \cup {pid}
    /\ idOf' = [idOf EXCEPT ![f] = pid]
    /\ handle' = [handle EXCEPT ![h] = Opened("open", f, pid, TRUE, Empty)]
    /\ accepted' = [accepted EXCEPT ![f] = {Empty}]
    /\ UNCHANGED <<md5Of, row, rowFile, rowMd5, content, drive, uploader,
                   cleaner, worker, answer, writes, crashes>>

\* What a lookup can find: listed by Drive, or created since the mount.
Visible(id) ==
    \/ id \in mounted
    \/ id \in DriveIds /\ (drive[id] # NoBytes \/ md5Of[id] # NoBytes)

\* A file the kernel opens for writing.
Openable(h, f) ==
    /\ EventLoopFree
    /\ handle[h].phase = "closed"
    /\ idOf[f] # NoId /\ Visible(idOf[f]) /\ MayAccess(idOf[f])
    /\ "handle" \in Disturbances \/ \A g \in Handles : handle[g].file # f

\* open() seeds the buffer from the cache.  A pending file that is not there
\* cannot be downloaded either: its buffer starts empty.
OpenHit(h, f) ==
    /\ Openable(h, f)
    /\ LET cached == content[CacheKey(idOf[f])]
       IN  /\ cached # NoBytes \/ idOf[f] \in PendingIds
           /\ handle' = [handle EXCEPT ![h] = Opened("open", f, idOf[f],
                            FALSE, IF cached = NoBytes THEN Empty ELSE cached)]
    /\ UNCHANGED <<idOf, md5Of, row, rowFile, rowMd5, content, drive, uploader,
                   cleaner, worker, answer, mounted, accepted, writes, crashes>>

\* open() misses and waits for the P2 worker.
OpenMiss(h, f) ==
    /\ Openable(h, f)
    /\ idOf[f] \in DriveIds
    /\ content[CacheKey(idOf[f])] = NoBytes
    /\ handle' = [handle EXCEPT ![h] = Opened("fetch", f, idOf[f], FALSE, Empty)]
    /\ UNCHANGED <<idOf, md5Of, row, rowFile, rowMd5, content, drive, uploader,
                   cleaner, worker, answer, mounted, accepted, writes, crashes>>

\* The worker answered Ok: open() re-reads the cache (unwrap_or_default).
OpenSeed(h) ==
    /\ handle[h].phase = "seed"
    /\ LET cached == content[CacheKey(handle[h].id)]
       IN  handle' = [handle EXCEPT ![h] =
              Filled(h, IF cached = NoBytes THEN Empty ELSE cached, FALSE, FALSE)]
    /\ UNCHANGED <<idOf, md5Of, row, rowFile, rowMd5, content, drive, uploader,
                   cleaner, worker, answer, mounted, accepted, writes, crashes>>

\* The worker answered Err: the buffer starts empty.
OpenUnseeded(h) ==
    /\ "fetchErr" \in Disturbances
    /\ handle[h].phase = "fetch"
    /\ handle' = [handle EXCEPT ![h] = Filled(h, Empty, FALSE, FALSE)]
    /\ UNCHANGED <<idOf, md5Of, row, rowFile, rowMd5, content, drive, uploader,
                   cleaner, worker, answer, mounted, accepted, writes, crashes>>

\* write(), or setattr() with a handle: the buffer holds something else.
Write(h, b) ==
    /\ EventLoopFree
    /\ handle[h].phase = "open"
    /\ writes < MaxWrites
    /\ writes' = writes + 1
    /\ handle' = [handle EXCEPT ![h] = Filled(h, b, TRUE, FALSE)]
    /\ UNCHANGED <<idOf, md5Of, row, rowFile, rowMd5, content, drive, uploader,
                   cleaner, worker, answer, mounted, accepted, crashes>>

\* flush() and fsync(): the buffer is stored under the id of the handle.
Flush(h) ==
    /\ EventLoopFree
    /\ handle[h].phase = "open" /\ ~handle[h].flushed
    /\ MayAccess(handle[h].id)
    /\ content' = [content EXCEPT ![handle[h].id] = handle[h].bytes]
    /\ handle' = [handle EXCEPT ![h] =
                     Filled(h, handle[h].bytes, handle[h].wrote, TRUE)]
    /\ accepted' = IF handle[h].wrote /\ idOf[handle[h].file] # NoId
                   THEN [accepted EXCEPT ![handle[h].file] = @ \cup {handle[h].bytes}]
                   ELSE accepted
    /\ UNCHANGED <<idOf, md5Of, row, rowFile, rowMd5, drive, uploader, cleaner,
                   worker, answer, mounted, writes, crashes>>

\* Which id release() works on: a buffer opened on a pending id follows the
\* inode when the upload has finished; the buffer of create() does not.
Target(h) ==
    LET now == idOf[handle[h].file]
    IN  IF /\ handle[h].id \in PendingIds /\ ~handle[h].created
           /\ now \in DriveIds
        THEN now ELSE handle[h].id

\* What the user expects once the handle is closed, of a file that still exists.
Saved(h) ==
    IF handle[h].wrote /\ idOf[handle[h].file] # NoId
    THEN [accepted EXCEPT ![handle[h].file] = {handle[h].bytes}]
    ELSE accepted

\* release(): close(2) has flushed before.
Release(h) ==
    /\ EventLoopFree
    /\ handle[h].phase = "open" /\ handle[h].flushed
    /\ MayAccess(Target(h))
    /\ ~(Target(h) \in PendingIds /\ handle[h].bytes = Empty)
    /\ content' = [content EXCEPT ![Target(h)] = handle[h].bytes]
    /\ handle' = [handle EXCEPT ![h] =
          [phase |-> "mark", file |-> handle[h].file, id |-> Target(h),
           created |-> handle[h].created, bytes |-> handle[h].bytes,
           wrote |-> handle[h].wrote, flushed |-> TRUE]]
    /\ UNCHANGED <<idOf, md5Of, row, rowFile, rowMd5, drive, uploader, cleaner,
                   worker, answer, mounted, accepted, writes, crashes>>

\* release() does not upload an empty file that Drive does not have.
ReleaseEmpty(h) ==
    /\ EventLoopFree
    /\ handle[h].phase = "open" /\ handle[h].flushed
    /\ MayAccess(Target(h))
    /\ Target(h) \in PendingIds /\ handle[h].bytes = Empty
    /\ handle' = [handle EXCEPT ![h] = Closed]
    /\ accepted' = Saved(h)
    /\ UNCHANGED <<idOf, md5Of, row, rowFile, rowMd5, content, drive, uploader,
                   cleaner, worker, answer, mounted, writes, crashes>>

\* write_local_dirty, second half: the upsert of the row.  An id that has lost
\* its inode gets a new one, which is no file of the user's.
Mark(h) ==
    /\ handle[h].phase = "mark"
    /\ LET id == handle[h].id
           f == handle[h].file
       IN  /\ row' = [row EXCEPT ![id] = "dirty"]
           /\ rowMd5' = [rowMd5 EXCEPT ![id] = NoBytes]
           /\ rowFile' = IF row[id] # "none" THEN rowFile
                         ELSE [rowFile EXCEPT ![id] =
                                  IF idOf[f] = id THEN f ELSE NoFile]
    /\ handle' = [handle EXCEPT ![h] = Closed]
    /\ accepted' = Saved(h)
    /\ UNCHANGED <<idOf, md5Of, content, drive, uploader, cleaner, worker,
                   answer, mounted, writes, crashes>>

-----------------------------------------------------------------------------
(* The uploader.  Its poll tick lets a pass start at any time.              *)

Dirty == {id \in Ids : row[id] = "dirty"}

\* The uploader when these entries of its snapshot are left.
Turning(queue) ==
    [phase |-> IF queue = {} THEN "idle" ELSE "pick", queue |-> queue,
     id |-> NoId, newId |-> NoId, bytes |-> Empty]

\* The uploader at another stage of the same entry.
Stage(phase, newId) ==
    [phase |-> phase, queue |-> uploader.queue, id |-> uploader.id,
     newId |-> newId, bytes |-> uploader.bytes]

\* The checksum in the answer to the upload under way, or none.
AnsweredSum == IF "sum" \in Disturbances THEN uploader.bytes ELSE NoBytes

\* Without a checksum the content stays under the key it has.
Settling == IF AnsweredSum # NoBytes THEN "migrate"
            ELSE IF uploader.id \in PendingIds THEN "replace" ELSE "publish"

Snapshot ==
    /\ uploader.phase = "idle"
    /\ Dirty # {}
    /\ uploader' = Turning(Dirty)
    /\ UNCHANGED <<idOf, md5Of, row, rowFile, rowMd5, content, drive, handle,
                   cleaner, worker, answer, mounted, accepted, writes, crashes>>

\* Slip: every empty file is deferred, not only a new one.
LoadDefersEmpty(id) ==
    /\ uploader.phase = "pick"
    /\ id \in uploader.queue
    /\ "upload" \in Disturbances \/ ~InCallback(id)
    /\ "reader" \in Disturbances \/ worker.id # id
    /\ "relist" \in Disturbances \/ answer.id # id
    /\ LET found == content[CacheKey(id)]
           left == uploader.queue \ {id}
       IN  uploader' = IF found \in {NoBytes, Empty}
                       THEN Turning(left)
                       ELSE [phase |-> "send", queue |-> left, id |-> id,
                             newId |-> NoId, bytes |-> found]
    /\ UNCHANGED <<idOf, md5Of, row, rowFile, rowMd5, content, drive, handle,
                   cleaner, worker, answer, mounted, accepted, writes, crashes>>

\* upload_entry loads the content; with none, or an empty new file, it leaves
\* the entry to a later pass.
Load(id) ==
    /\ uploader.phase = "pick"
    /\ id \in uploader.queue
    /\ "upload" \in Disturbances \/ ~InCallback(id)
    /\ "reader" \in Disturbances \/ worker.id # id
    /\ "relist" \in Disturbances \/ answer.id # id
    /\ LET found == content[CacheKey(id)]
           left == uploader.queue \ {id}
       IN  uploader' = IF found = NoBytes \/ (id \in PendingIds /\ found = Empty)
                       THEN Turning(left)
                       ELSE [phase |-> "send", queue |-> left, id |-> id,
                             newId |-> NoId, bytes |-> found]
    /\ UNCHANGED <<idOf, md5Of, row, rowFile, rowMd5, content, drive, handle,
                   cleaner, worker, answer, mounted, accepted, writes, crashes>>

\* update_file_content succeeds.
SendUpdate ==
    /\ uploader.phase = "send" /\ uploader.id \in DriveIds
    /\ drive' = [drive EXCEPT ![uploader.id] = uploader.bytes]
    /\ uploader' = Stage("clear", uploader.newId)
    /\ UNCHANGED <<idOf, md5Of, row, rowFile, rowMd5, content, handle, cleaner,
                   worker, answer, mounted, accepted, writes, crashes>>

\* create_file succeeds: Drive chooses an id.
SendCreate ==
    /\ uploader.phase = "send" /\ uploader.id \in PendingIds
    /\ \E new \in SpareIds :
          /\ drive[new] = NoBytes
          /\ drive' = [drive EXCEPT ![new] = uploader.bytes]
          /\ uploader' = Stage("finalize", new)
    /\ UNCHANGED <<idOf, md5Of, row, rowFile, rowMd5, content, handle, cleaner,
                   worker, answer, mounted, accepted, writes, crashes>>

\* Slip: the flag is cleared whatever Drive has answered.
SendFailsUnnoticed ==
    /\ uploader.phase = "send" /\ uploader.id \in DriveIds
    /\ uploader' = Stage("clear", NoId)
    /\ UNCHANGED <<idOf, md5Of, row, rowFile, rowMd5, content, drive, handle,
                   cleaner, worker, answer, mounted, accepted, writes, crashes>>

\* Any other outcome leaves the flag set, for a later pass.
SendFails ==
    /\ uploader.phase = "send"
    /\ uploader' = Turning(uploader.queue)
    /\ \/ UNCHANGED drive
       \/ /\ "lostReply" \in Disturbances
          /\ \E id \in IF uploader.id \in DriveIds THEN {uploader.id}
                       ELSE {new \in SpareIds : drive[new] = NoBytes} :
                drive' = [drive EXCEPT ![id] = uploader.bytes]
    /\ UNCHANGED <<idOf, md5Of, row, rowFile, rowMd5, content, handle, cleaner,
                   worker, answer, mounted, accepted, writes, crashes>>

\* create_file answers 404: the parent folder is gone.
SendParentGone ==
    /\ "gone" \in Disturbances
    /\ uploader.phase = "send" /\ uploader.id \in PendingIds
    /\ uploader' = Stage("abandon", NoId)
    /\ UNCHANGED <<idOf, md5Of, row, rowFile, rowMd5, content, drive, handle,
                   cleaner, worker, answer, mounted, accepted, writes, crashes>>

\* clear_dirty_after_upload.
Clear ==
    /\ uploader.phase = "clear"
    /\ IF row[uploader.id] = "none" THEN UNCHANGED <<row, rowMd5>>
       ELSE /\ row' = [row EXCEPT ![uploader.id] = "clean"]
            /\ rowMd5' = [rowMd5 EXCEPT ![uploader.id] = AnsweredSum]
    /\ uploader' = Stage(Settling, uploader.newId)
    /\ UNCHANGED <<idOf, md5Of, rowFile, content, drive, handle, cleaner,
                   worker, answer, mounted, accepted, writes, crashes>>

\* Slip: the id and the checksum change places.
FinalizeSwapped ==
    /\ uploader.phase = "finalize"
    /\ row' = [row EXCEPT ![uploader.id] = "none", ![uploader.newId] = "clean"]
    /\ rowFile' = [rowFile EXCEPT ![uploader.id] = NoFile]
    /\ rowMd5' = [rowMd5 EXCEPT ![uploader.newId] = uploader.newId]
    /\ uploader' = Stage(Settling, uploader.newId)
    /\ UNCHANGED <<idOf, md5Of, content, drive, handle, cleaner, worker, answer,
                   mounted, accepted, writes, crashes>>

\* The content cache once the BLOB under key old, if there is one, has been
\* renamed: a copy in RAM or on disk stays where it is.
BlobRenamed(old, new) ==
    IF content[old] = NoBytes THEN {content}
    ELSE {content, [content EXCEPT ![new] = content[old]],
          [content EXCEPT ![new] = content[old], ![old] = NoBytes]}

\* finalize_new_file: the row moves to the real id, unless that has one already
\* (the UPDATE fails, and the error is ignored), and so does a small content.
Finalize ==
    /\ uploader.phase = "finalize"
    /\ LET old == uploader.id
           new == uploader.newId
       IN  IF row[old] = "none" \/ row[new] # "none"
           THEN UNCHANGED <<row, rowFile, rowMd5>>
           ELSE /\ row' = [row EXCEPT ![old] = "none", ![new] = "clean"]
                /\ rowFile' = [rowFile EXCEPT ![old] = NoFile, ![new] = rowFile[old]]
                /\ rowMd5' = [rowMd5 EXCEPT ![old] = NoBytes, ![new] = AnsweredSum]
    /\ content' \in BlobRenamed(uploader.id,
                       IF AnsweredSum = NoBytes THEN uploader.newId ELSE AnsweredSum)
    /\ uploader' = Stage(Settling, uploader.newId)
    /\ UNCHANGED <<idOf, md5Of, drive, handle, cleaner, worker, answer, mounted,
                   accepted, writes, crashes>>

\* migrate_cache_key: whatever the old key holds by now moves to the MD5 key.
Migrate ==
    /\ uploader.phase = "migrate"
    /\ content' = IF content[uploader.id] = NoBytes THEN content
                  ELSE [content EXCEPT ![AnsweredSum] = content[uploader.id],
                                       ![uploader.id] = NoBytes]
    /\ uploader' = Stage(IF uploader.id \in PendingIds THEN "replace" ELSE "publish",
                       uploader.newId)
    /\ UNCHANGED <<idOf, md5Of, row, rowFile, rowMd5, drive, handle, cleaner,
                   worker, answer, mounted, accepted, writes, crashes>>

\* Slip: the object manager keeps the old checksum.
PublishNothing ==
    /\ uploader.phase = "publish"
    /\ uploader' = Turning(uploader.queue)
    /\ UNCHANGED <<idOf, md5Of, row, rowFile, rowMd5, content, drive, handle,
                   cleaner, worker, answer, mounted, accepted, writes, crashes>>

\* store_metadata(updated).
Publish ==
    /\ uploader.phase = "publish"
    /\ md5Of' = [md5Of EXCEPT ![uploader.id] = AnsweredSum]
    /\ uploader' = Turning(uploader.queue)
    /\ UNCHANGED <<idOf, row, rowFile, rowMd5, content, drive, handle, cleaner,
                   worker, answer, mounted, accepted, writes, crashes>>

\* replace_pending_id: the inode now stands for the real id.
Replace ==
    /\ uploader.phase = "replace"
    /\ idOf' = [f \in Files |-> IF idOf[f] = uploader.id THEN uploader.newId
                                ELSE idOf[f]]
    /\ md5Of' = [md5Of EXCEPT ![uploader.newId] = AnsweredSum]
    /\ uploader' = Turning(uploader.queue)
    /\ UNCHANGED <<row, rowFile, rowMd5, content, drive, handle, cleaner,
                   worker, answer, mounted, accepted, writes, crashes>>

\* abandon_dirty_entry: the loss of the file is deliberate.
Abandon ==
    /\ uploader.phase = "abandon"
    /\ IF row[uploader.id] # "dirty" THEN UNCHANGED <<row, rowFile>>
       ELSE /\ row' = [row EXCEPT ![uploader.id] = "none"]
            /\ rowFile' = [rowFile EXCEPT ![uploader.id] = NoFile]
    /\ accepted' = [f \in Files |-> IF idOf[f] = uploader.id THEN {} ELSE accepted[f]]
    /\ uploader' = Stage("forget", NoId)
    /\ UNCHANGED <<idOf, md5Of, rowMd5, content, drive, handle, cleaner, worker,
                   answer, mounted, writes, crashes>>

\* remove_pending_from_dir.
Forget ==
    /\ uploader.phase = "forget"
    /\ idOf' = [f \in Files |-> IF idOf[f] = uploader.id THEN NoId ELSE idOf[f]]
    /\ uploader' = Turning(uploader.queue)
    /\ UNCHANGED <<md5Of, row, rowFile, rowMd5, content, drive, handle, cleaner,
                   worker, answer, mounted, accepted, writes, crashes>>

-----------------------------------------------------------------------------
(* The other threads.                                                       *)

\* DownloadFile on the P2 worker, for an open() that waits or for a read().
Fetch(id) ==
    /\ worker = NoDownload
    /\ id \in DriveIds /\ drive[id] # NoBytes
    /\ \/ \E h \in Handles : handle[h].phase = "fetch" /\ handle[h].id = id
       \/ /\ EventLoopFree /\ MayAccess(id) /\ Visible(id)
          /\ row[id] # "dirty" /\ content[CacheKey(id)] = NoBytes
    /\ worker' = [id |-> id, bytes |-> drive[id]]
    /\ UNCHANGED <<idOf, md5Of, row, rowFile, rowMd5, content, drive, handle,
                   uploader, cleaner, answer, mounted, accepted, writes,
                   crashes>>

\* store_content, under the key of that moment; the waiting open() wakes up.
StoreFetched ==
    /\ worker # NoDownload
    /\ content' = [content EXCEPT ![CacheKey(worker.id)] = worker.bytes]
    /\ handle' = [h \in Handles |->
          IF handle[h].phase = "fetch" /\ handle[h].id = worker.id
          THEN Opened("seed", handle[h].file, handle[h].id, FALSE, Empty)
          ELSE handle[h]]
    /\ worker' = NoDownload
    /\ UNCHANGED <<idOf, md5Of, row, rowFile, rowMd5, drive, uploader, cleaner,
                   answer, mounted, accepted, writes, crashes>>

\* A listing, or GetMetadata, asks Drive for a file's checksum: a first listing
\* does not request it, a conditional one and GetMetadata do.
List(id) ==
    /\ answer = NoAnswer
    /\ id \in DriveIds /\ drive[id] # NoBytes
    /\ "relist" \in Disturbances \/ ~Uploading(id)
    /\ \E sum \in {drive[id], NoBytes} : answer' = [id |-> id, sum |-> sum]
    /\ UNCHANGED <<idOf, md5Of, row, rowFile, rowMd5, content, drive, handle,
                   uploader, cleaner, worker, mounted, accepted, writes, crashes>>

\* store_dir_listing, store_metadata: the answer is taken over as it is.
StoreListed ==
    /\ answer # NoAnswer
    /\ "relist" \in Disturbances \/ ~InCallback(answer.id)
    /\ md5Of' = [md5Of EXCEPT ![answer.id] = answer.sum]
    /\ answer' = NoAnswer
    /\ UNCHANGED <<idOf, row, rowFile, rowMd5, content, drive, handle, uploader,
                   cleaner, worker, mounted, accepted, writes, crashes>>

\* clean_once: the cache is over its budget and the row is not dirty ...
CheckVictim(k) ==
    /\ cleaner = NoBytes
    /\ k \notin PendingIds /\ content[k] # NoBytes
    /\ k \in DriveIds => row[k] # "dirty"
    /\ \/ "cleaner" \in Disturbances
       \/ \A h \in Handles : handle[h].phase \in {"fetch", "seed", "mark"}
                                => k \notin {handle[h].id, CacheKey(handle[h].id)}
    /\ cleaner' = k
    /\ UNCHANGED <<idOf, md5Of, row, rowFile, rowMd5, content, drive, handle,
                   uploader, worker, answer, mounted, accepted, writes,
                   crashes>>

\* ... so the file is unlinked.
Evict ==
    /\ cleaner # NoBytes
    /\ content' = [content EXCEPT ![cleaner] = NoBytes]
    /\ cleaner' = NoBytes
    /\ UNCHANGED <<idOf, md5Of, row, rowFile, rowMd5, drive, handle, uploader,
                   worker, answer, mounted, accepted, writes, crashes>>

\* Slip: the keys of dirty entries are not protected.
ProtectedSums ==
    {rowMd5[id] : id \in {id \in Ids : row[id] # "none"}}

\* run_gc: the keys of content files that some row refers to.
Protected ==
    {rowMd5[id] : id \in {id \in Ids : row[id] # "none"}} \cup Dirty

\* The process dies; main() collects orphaned content files and restores the
\* inodes of the rows.  Small contents live in SQLite and are not collected.
Crash ==
    /\ crashes < MaxCrashes
    /\ crashes' = crashes + 1
    /\ \E orphans \in SUBSET {k \in Keys \ Protected : content[k] # NoBytes} :
          content' = [k \in Keys |-> IF k \in orphans THEN NoBytes ELSE content[k]]
    /\ idOf' = [f \in Files |->
          IF f \in OldFiles THEN f
          ELSE IF \E id \in Ids : row[id] # "none" /\ rowFile[id] = f
               THEN CHOOSE id \in Ids : row[id] # "none" /\ rowFile[id] = f
               ELSE NoId]
    /\ accepted' = [f \in Files |-> IF idOf'[f] = NoId THEN {} ELSE accepted[f]]
    /\ md5Of' = [id \in Ids |-> NoBytes]
    /\ handle' = [h \in Handles |-> Closed]
    /\ uploader' = Resting
    /\ cleaner' = NoBytes
    /\ worker' = NoDownload
    /\ answer' = NoAnswer
    /\ mounted' = {}
    /\ UNCHANGED <<row, rowFile, rowMd5, drive, writes>>

-----------------------------------------------------------------------------
OpenCall(h) ==
    \E f \in Files : OpenHit(h, f) \/ OpenMiss(h, f)
                    \/ \E pid \in PendingIds : Create(h, f, pid)

\* A callback that has begun.
Callback(h) == OpenSeed(h) \/ OpenUnseeded(h) \/ Mark(h)

UploaderStep ==
    \/ Snapshot \/ \E id \in Ids : Load(id)
    \/ SendUpdate \/ SendCreate \/ SendFails \/ SendParentGone
    \/ Clear \/ Finalize \/ Migrate \/ Publish \/ Replace
    \/ Abandon \/ Forget

Next ==
    \/ \E h \in Handles :
          \/ OpenCall(h) \/ Callback(h)
          \/ \E b \in Bytes : Write(h, b)
          \/ Flush(h) \/ Release(h) \/ ReleaseEmpty(h)
    \/ UploaderStep
    \/ \E id \in DriveIds : Fetch(id) \/ List(id)
    \/ StoreFetched \/ StoreListed
    \/ \E k \in Keys : CheckVictim(k)
    \/ Evict
    \/ Crash

Spec == Init /\ [][Next]_vars

\* Threads run, and the upload of an entry, tried again and again, gets through.
\* The uploader and the workers wait for nobody, so they take an entry, or store
\* an answer, although what a run rules out disables that now and then.
Fairness ==
    /\ \A h \in Handles : WF_vars(Callback(h))
    /\ WF_vars(UploaderStep)
    /\ \A id \in Ids : SF_vars(Load(id))
    /\ \A id \in Ids : SF_vars(uploader.id = id /\ (SendUpdate \/ SendCreate))
    /\ \A id \in DriveIds : WF_vars(Fetch(id))
    /\ WF_vars(StoreFetched)
    /\ SF_vars(StoreListed)
    /\ WF_vars(Evict)

FairSpec == Spec /\ Fairness

-----------------------------------------------------------------------------
(* Correctness.                                                             *)

\* The id under which f is to be found, while replace_pending_id is due too.
Home(f) ==
    IF idOf[f] = uploader.id /\ uploader.phase \in {"migrate", "replace"}
       /\ uploader.newId # NoId
    THEN uploader.newId ELSE idOf[f]

\* The content a restart would find: the dirty copy, else Drive's.
Durable(f) ==
    LET id == Home(f)
    IN  IF row[id] = "dirty" /\ rowFile[id] = f THEN content[id]
        ELSE IF id \in DriveIds THEN drive[id] ELSE Empty

\* The bytes of a handle that release() is done with are never lost: they are in
\* a dirty row's local copy or on Drive, until the user hands over others
\* (write_local_dirty, upload_entry), when no two activities on a file overlap.
NoLostUpdate ==
    \A f \in Files : accepted[f] # {} => Durable(f) \in accepted[f]

\* "So content survives a crash between flush and release": the start-up garbage
\* collection leaves what flush() has stored for a file being written (run_gc).
FlushSurvivesCrash ==
    [][Crash => \A h \in Handles :
          handle[h].phase = "open" /\ handle[h].wrote /\ handle[h].flushed
             => content'[handle[h].id] = handle[h].bytes]_vars

\* "The second write is then re-detected": when an upload clears the flag, the
\* bytes closed into the file by then are the bytes on Drive (upload_entry).
SecondWriteRedetected ==
    [][Clear \/ Finalize =>
          \A f \in Files : accepted[f] # {} => Durable(f)' \in accepted[f]]_vars

\* What read() serves.  A placeholder has size 0 until its first release.
View(f) ==
    LET id == idOf[f]
        cached == content[CacheKey(id)]
    IN  IF id \in PendingIds /\ row[id] = "none" THEN Empty
        ELSE IF cached # NoBytes THEN cached
        ELSE IF row[id] = "dirty" THEN NoBytes
        ELSE IF id \in DriveIds THEN drive[id] ELSE Empty

\* A file reads back what was closed into it, from whichever key it is served,
\* once no upload and no callback is at work on it (get_content), when none of
\* them has overlapped another, or a listing that was on its way.
ReadYourWrites ==
    \A f \in Files :
        (/\ accepted[f] # {} /\ Visible(idOf[f])
         /\ ~Uploading(idOf[f]) /\ ~InCallback(idOf[f]))
            => View(f) \in accepted[f]

\* A row that says clean is of a file on Drive, and names the bytes Drive has if
\* it names any (clear_dirty_after_upload, finalize_new_file), whatever overlaps
\* with what.
CleanRowMatchesDrive ==
    \A id \in Ids :
        row[id] = "clean" => /\ id \in DriveIds /\ drive[id] # NoBytes
                             /\ rowMd5[id] \in {NoBytes, drive[id]}

\* An MD5 key, which files of the same content share, holds the bytes it is the
\* sum of, whenever the known checksum changes (store_content, cache_key_for),
\* unless the answer to a listing is older than an upload that is over.
CasSound == \A b \in Bytes : content[b] \in {b, NoBytes}

\* The uploader has something to upload.
Uploadable(id) ==
    row[id] = "dirty" /\ (id \in DriveIds \/ content[id] # Empty)

\* Every dirty entry is uploaded (or given up), except for an empty new file.
EveryDirtyEntryIsSettled ==
    \A id \in Ids : Uploadable(id) ~> ~Uploadable(id)

=============================================================================
