# gdrive-fuse: verification project

TLA+ models, TLC checks and TLAPS proofs for the Rust client of gdrive-fuse
(`clients/rust/src`), a FUSE filesystem over Google Drive.

## 1. The system

One process serves the kernel's FUSE requests. Threads and what they share:

| part | source (under `src/clients/rust/src/`) | threads | state |
|---|---|---|---|
| FUSE handlers | `fuse_ops.rs` | kernel callbacks, 16 reply threads, 4 direct-upload threads | `write_buffers` (fh to buffer), `next_fh`, `active_uploads` |
| Queue manager | `queue_manager.rs` | five workers P0..P4 | five channels, `tracking` (key to waiters), `prefetch_epoch`, `active_uploads` |
| Object manager | `object_manager.rs` | called by everyone | inode maps, `metadata`, `dir_cache`, `name_index`, `pending_parents`, content cache (moka), disk cache |
| DB manager | `db_manager.rs` | called by everyone | SQLite `metadata`, `small_files`, `sync_state`; survives restarts |
| Upload manager | `upload_manager.rs` | one uploader | nothing of its own: reads dirty rows, writes everything above |
| Sync manager | `sync_manager.rs` | one poller | the `changes_token` in SQLite |
| Cache cleaner | `cache_cleaner.rs` | one cleaner | none: reads SQLite, unlinks content files |
| Duplicate names | `dup_mapping.rs` | any FUSE thread | `file_id` to display name, persisted to a file |
| Drive client, OAuth | `gclient.rs`, `auth.rs` | any | the token |
| Configuration, start-up | `config_manager.rs`, `main.rs` | main | thresholds, start order (GC, managers, mount) |
| C++ client | `clients/cpp` | FUSE threads | an independent, older implementation |

Interactions. A FUSE handler looks in the object manager; on a miss it calls
`enqueue_and_wait` and a worker calls Drive, stores into the object manager and
wakes the handler. A handler that closes a written file stores the bytes under
the file id, marks the SQLite row dirty and pings the uploader; without a database
it hands the buffer to a pool of upload threads instead. The uploader snapshots the
dirty rows, uploads each, clears the flag and, if the answer has a checksum, moves
the bytes to their MD5 key. A created file lives under a pending id until its upload
has given it a real one. The poller rewrites rows and evicts caches for every remote
change. The cleaner unlinks content files by name.

What is hard here: five workers and any number of callers race on `tracking`;
the uploader, the cleaner, the download worker and the FUSE callbacks all work
on the same rows, listings and cache keys with no lock per file; a read, a sleep of
1.5 s or an HTTP call lies between the check and the use; a content lives in up to
three tiers that are changed one after the other; a crash can fall between any
two of these steps; Drive may carry out a request whose answer is lost.

### What makes each part correct

| part | what must hold | where |
|---|---|---|
| Queue manager | identical requests share one call; every waiter is answered once; no task is lost or has two owners; a download is not held back by uploads; who is woken with an answer finds it in the cache | `QueueManager`, `SingleFlight` |
| Write path, uploader, cleaner, rows | what a handle was released with is never lost; a file reads it back; a checksum key holds the bytes of that sum; a clean row names what Drive has; every dirty entry is settled | `WriteBack` |
| Content tiers | the tiers together are one map that may forget but never brings back what was replaced; the uploader sends what was stored last; a migration or a crash loses nothing | `ContentStore`, `ContentMap` |
| Sync poller | a row that is out of date has its change on the way; only an upload takes a dirty flag away | `SyncManager` |
| Inodes | the two maps agree, also after a restart; an inode stands for one file, through its upload | `Namespace` |
| Listings | a placeholder is in the listing of its folder, once, until it is real; a file Drive has does not vanish when a listing is replaced | `Namespace` |
| Names | a folder shows no name twice; a file gets a suffix only because of another file; Drive gets a new file under its latest name | `Namespace` |
| Direct upload, unmount | one Drive file per file; `destroy()` returns, and then the last close of every file is on Drive | `DirectUploads` |

## 2. The modules

### The queue

`QueueManager.tla` models all of `queue_manager.rs`. A step is what one thread
does between two accesses to shared state.

| code | model |
|---|---|
| `enqueue_inner`: epoch bump, then the entry in `tracking` (attach or insert), then the send after the lock is gone | `Call`, `Attach` / `Insert`, `Send` |
| `TaskCompletion::wait`, the handler's second look in the cache | `Wake`, `Read` |
| worker loop: pause, `recv_timeout`, second look at the counter, epoch test | `PassPause`, `Receive`, `Timeout`, `RecheckPause`, `Discard` / `Accept` |
| `run_task`: the call, storing the answer, removal from `tracking`, completions | `Execute`, `Store`, `Remove`, `Complete` |
| `release` of a direct upload (the counter) | `StartUpload`, `EndUpload` |
| TTL of a listing; sync poller, cleaner, eviction of cached entries | `Expire`, `Evict` |

`SingleFlight.tla` says what the queue promises: a key in flight has one call,
a caller joins it or starts it, its outcome is decided once, and when it lands
everybody aboard is answered, once. `QueueManager` implements it (`Flight`, an `INSTANCE` with
a refinement mapping: in flight is `tracked`, aboard are the handles stored under
the key, answered who has been taken from there and has not returned).

### The write-back path

`WriteBack.tla` composes the five parts that handle a written file.

| code | model |
|---|---|
| `create`, `open` (cache hit; miss, wait, second look), `write`, `flush`/`fsync` | `Create`, `OpenHit`, `OpenMiss`, `OpenSeed`, `OpenUnseeded`, `Write`, `Flush` |
| `release`: id resolution, store, dirty row; the empty new file | `Release` then `Mark`; `ReleaseEmpty` |
| `UploadManager::run`, `upload_entry` | `Snapshot`, `Load`, `SendUpdate`, `SendCreate`, `SendFails`, `SendParentGone`, `Clear`, `Finalize`, `Migrate`, `Publish`, `Replace`, `Abandon`, `Forget` |
| P2 worker: HTTP answer, then `store_content` under the key of that moment | `Fetch`, `StoreFetched` |
| a listing or `GetMetadata` that brings another checksum, or none: the request, then the storing of the answer | `List`, `StoreListed` |
| `clean_once`: check, then unlink | `CheckVictim`, `Evict` |
| `kill -9`, then `main`: `run_gc`, `load_inode_map` | `Crash` |

State corresponds to fields: `idOf` to `ino_to_id`, `md5Of` to the checksums in
`metadata`, `row`/`rowFile`/`rowMd5` to the columns of the SQLite table, `handle`
to `write_buffers`, `content` to the three cache tiers merged into one map (which
`ContentStore` justifies), `mounted` to `next_fh`. `accepted` is history: the contents
a user may expect of a file (the last bytes closed into it, plus what was flushed
since; Drive's content before any write).
What was flushed is a candidate only: `NoLostUpdate` claims the bytes a handle was
released with. A checksum is represented by the content it
is the sum of. FUSE callbacks exclude each other (`EventLoopFree`): fuser serves one
request at a time and these handlers answer from the event loop. A create that
writes nothing and a flush without a write change no expectation.

`AnsweredSum` is the checksum in the answer to an upload. The upload requests of
`gclient.rs` do not ask for `md5Checksum`, so the answer has none, the row is left
without a checksum and the content stays under the id (`Settling`). The disturbance
`sum` gives the answer one, and with it the migration to the MD5 key that
`upload_manager.rs` is written for: with the requests as they are, `migrate_cache_key` does
not run, and `Migrate` here and in `ContentStore` is about code that waits for its request.

`Disturbances` says what a run lets overlap or fail. With the empty set no two
activities work on the *same* file at the same time; activities on different
files always interleave, and failed uploads and crashes always happen. The code
has no lock per file, so the overlaps are real; what they lead to is in section 3. In `WriteBack` a file's uploads, the callbacks on it, a download for `read()`
(`reader`), the cleaner (`cleaner`), a second handle (`handle`) and a listing that is on its way
(`relist`: from the request to the storing of its answer) keep apart; `fetchErr`, `gone`,
`lostReply` and `sum` are about answers. The other modules use the same scheme.

`SyncManager.tla` extends `WriteBack` with the poller and with other clients. Its
`LocalStep` is a step of `WriteBack` that Drive's change feed takes note of; a page
token is the set of ids that changed since it was given out.

| code | model |
|---|---|
| `poll_once`: no token, an answer, a refused token, the new token | `Bootstrap`, `GetChanges`, `Expired`, `StoreToken` |
| `apply_change`: compare and evict, metadata, row; removal | `TakeUp`, `Refresh`, `Upsert`; `TakeUp`, `Drop` |
| another client edits, deletes; the download of a deleted file | `RemoteEdit`, `RemoteDelete`, `OpenGone` |
| crash between two steps of a poll | `SyncCrash` |

### The content tiers

`ContentStore.tla` has moka, the BLOBs of SQLite and the files of the content
directory as three functions from cache keys, each changed by a step of its own.
A content is small or large and is its own checksum.

| code | model |
|---|---|
| `store_content_at_key`: BLOB stored or deleted, then moka filled or cleared, then the file | `Begin`, `StoreBlob`, `StoreMoka` / `DropMoka`, `StoreDisk` |
| `get_content` and `read_disk_slice` for a read: moka, BLOB, warming of moka, file | `Look`, `LookBlob`, `Warm`, `LookDisk` |
| `upload_entry`: the same tiers, then the test for an empty content with a file on disk | `Load`, `LoadBlob`, `LoadWarm`, `LoadDisk`, `Check`, `Sent` |
| `migrate_cache_key`: BLOB copied, deleted, moka moved, file renamed | `Migrate`, `CopyBlob`, `DeleteBlob`, `MigrateMoka`, `RenameFile`, `Migrated` |
| moka's TTL and capacity; cleaner, `evict_disk_content`, `run_gc`; a crash | `Expire`; `Unlink`; `Crash` |

`expected` is history: the content of the last store under a key that has
returned, and those of the stores begun since.

`ContentMap.tla` is what the cache promises, with no tiers: a map that takes an
offered content, may forget, may move a content to a key it is offered to, and
after a crash holds what it held, what was offered, or nothing. `ContentStore`
implements it (`Map`): a key holds what a lookup of it leads to (`Led`), offered are the
contents of the stores under way and the one being migrated.

### Names, inodes and listings

`Namespace.tla` composes the parts that name files. A step of a callback or of the
uploader is what it does between two accesses to state that another thread changes.

| code | model |
|---|---|
| `get_or_alloc_ino` | `Number`, part of the actions that call it |
| `create` and `inject_pending_into_dir`; `release` (the dirty row) | `Create`; `Release` |
| `rename`, of a placeholder: `rename_pending` up to the reading of the row, then the writing; of a file on Drive | `RenamePending`, `StoreRenamed`; `RenameFile` |
| `unlink` | `Unlink` |
| `lookup`, an entry of `readdir`, `DupMapping::resolve` | `Show`, `Resolved`, `FreeName` |
| `FetchDir`: the request, `store_dir_listing` with its loop over the answer, the merge with the placeholders, the new entry | `Ask`, `NumberListed`, `Merge` (`WithPending`), `Install` |
| `upload_entry` of a new file: the snapshot, the second reading after the settling delay, `create_file`, `finalize_new_file`, `replace_pending_id` | `Pick`, `Reread`, `CreateFile` / `SendFails`, `Finalize`, `Replace` |
| `abandon_dirty_entry`, `remove_pending_from_dir` | `Abandon`, `Forget` |
| `apply_change` (its upsert, which knows neither name nor parent; a removal); another client's rename | `Follow`, `FollowRemoval`; `MoveElsewhere` |
| a restart: `load_inode_map`, empty maps | `Remount`, `Restored` |

`create()` asks nothing of the placeholder id it takes, and a restart begins to count anew:
whether an id of an earlier mount is given out again is the disturbance `reuse`
(`mounted` has the ids that are gone). `rename()` and `unlink()` first resolve the names of the
listing; a stored name stays, also through a rename. The disturbance `move` lets
a file go to another folder during a fetch or to where another file is shown under its name
(`Moves`), and another client move a file that has been shown.

`wanted` and `copies` are history: where the user wants a new file (its write buffer, then its
row), and which Drive files have been made of it. A name is a sequence: a base, and the number of
each suffix that `suffix_name` has put behind it.

### Direct uploads

`DirectUploads.tla` is the path without a database: `release` counts the upload and sends
it to the pool (`ReleaseCreated`, `ReleaseOpened`, `Send`); a thread takes it, waits for
renames and looks at the inode again (`Take`, `Settle`), creates or updates the file on
Drive (`CreateFile`, `CreateFails`, `Update`, `UpdateFails`), replaces or removes the
placeholder (`Replace`, `Remove`) and counts down (`Done`); `destroy` waits for the counter
(`Destroy`, `Poll`). Contents are numbered by the release they come from. The threads of the
pool do not wait for each other: that an upload begins only when the earlier one of its file
is over is a hypothesis, and the disturbance `race` drops it.

### Modules for the checks

`MCQueueManager`, `MCWriteBack`, `MCSyncManager` and `MCNamespace` add the symmetry sets for
TLC. Operators marked `Slip` in the specifications are plausible mistakes in a step (a
dropped guard, a missing reset, a swapped pair); no specification uses them. Each
one put in the place of its step makes TLC report the property it is listed with
in `PROJECT.json`.

## 3. The runs

| run | instance | shows |
|---|---|---|
| `QueueProgress` | two callers, one directory, an epoch bump, a direct upload, evictions | one owner per task, no lost waiter; every `enqueue_and_wait` returns; implements `SingleFlight` with its fairness |
| `QueueDownloads` | two callers, one metadata key, one file, a direct upload that may never end | a download returns all the same; who is woken for it finds the content (`DownloadIsCached`) |
| `WriteBackSafety` | a new file, one handle, two writes, lost replies, a crash; two ids for Drive to give out | `NoLostUpdate`, `ReadYourWrites`, `CasSound` without overlaps on one file |
| `WriteBackProgress` | a new file, two writes, a deleted parent, failing downloads, checksums in the answers | `EveryDirtyEntryIsSettled`; `CleanRowMatchesDrive`, where rows have checksums |
| `SyncRows` | an old file, the poller, two edits, or an edit and the deletion, by another client, checksums in the answers, a crash | `RowsCatchUp`: the poller skips nothing but what a fresh token skips |
| `Namespace` | two folders, an old file, a new file, two base names, a rename, a restart at any point | inodes, listings and names stay right: `InodesAgree`, `InodeKeepsFile`, `PlaceholdersListed`, `NeverVanishes`, `UniqueNames`, `OwnNameIsFree`, `CreatedAsNamed`, without the overlaps below |
| `ContentStore` | one id, an empty, a small and a large content, two writers, a reader, three stores, a crash | `UploadsWhatWasStored`, `NothingIsLost`, implements `ContentMap`, as long as no large content is replaced by a small one |
| `DirectUploads` | an old and a new file, two threads, five releases, failing requests | `OneDriveFile`, `DestroyLosesNothing`, `DestroyReturns`, as long as the uploads of one file do not overtake each other |

Claims of the sources that the code does not keep, each with a run that TLC
ends with a counterexample:

* `WriteBackRace`: `upload_manager.rs` says a write during an upload "is then
  re-detected"; `clear_dirty_after_upload` clears the flag whatever was written
  since, so the second version stays local and is never uploaded.
* `SyncClearsFlag`: the poller writes `is_dirty = 0` into the row of every changed file; the
  feed's echo of this client's own upload is enough to take the flag of a version
  closed since, which is then never uploaded.
* `WriteBackFlush`: `flush()` stores the buffer "so content survives a crash between flush and
  release"; no row refers to it yet, and `run_gc` deletes it at the next start.
* `ContentShrink`: a large file that is stored again with no bytes keeps its file on
  disk, hidden by the empty BLOB. The uploader takes the file on disk for the content ("as
  a safety net"), uploads the bytes the user has truncated away and clears the flag.
  This is the disturbance `shrink`.

### Observed with TLC, without a run of its own

Unless another instance is given, each of these is a property of the component's own run,
violated when the named disturbance is added to the run's configuration.

* `QueueManager`: a `DirUrgent` caller bumps the epoch and then attaches to the queued
  prefetch of the same directory; the worker discards that task as stale and the
  caller is woken without a listing (`get_dir` re-reads the cache because "the worker just stored a
  (partial) result", and then answers `EIO`). Hence `DownloadIsCached` is about downloads only;
  stated of every key, it fails with `DirKeys = {d1}`, `MetaKeys = {m1}` and `MaxEpoch = 1`.
* `WriteBack`, the write that overlaps another activity: each of `upload`, `cleaner`, `reader`,
  `fetchErr`, `handle` and, with an old file, `relist` alone breaks `NoLostUpdate`. With `cleaner` a
  file is marked dirty between the cleaner's look at its row and the unlink, and its only copy
  is gone, although "a cache entry is **never** evicted while its `is_dirty` flag in SQLite is `1`"
  (`cache_cleaner.rs`). `EveryDirtyEntryIsSettled` fails with `upload`: a file marked dirty again
  just before `Migrate` loses its local copy and is skipped by every later pass. `CasSound` fails
  with `sum` and one of `upload` and `reader`: the content that is moved, or the download that is
  stored, under a checksum is no longer what the checksum was of.
* `WriteBack`, `relist`: a listing is answered before an upload and stored after it. The object
  manager knows the old checksum again, and the next download stores the new bytes under it,
  where files that still have the old bytes find them: `CasSound` fails with `OldFiles = {f1}`,
  no new file, one write and no crash, `ReadYourWrites` in the run's own instance. A listing
  stored between the download that `open()` waits for and its second look at the cache
  changes the key; the buffer starts empty and is stored when the file is closed
  (`NoLostUpdate`).
* `WriteBack`, two new files and one crash, no disturbance: a new file is closed and the process
  dies before its upload. Handle numbers start over, the next new file gets the same
  placeholder id, and its flush replaces the content that the crash recovery was to upload
  (`NoLostUpdate`, with `NewFiles = {g1, g2}`, one write and one spare id).
* `SyncManager`: with `upload`, `RowsCatchUp` fails when an upload's late answer is
  written over a newer change. `CasSound` does not survive another client's edit: a download
  between the edit and the poll brings the new bytes and stores them under the old
  checksum, which other files may share. `evict_disk_content` removes the file on disk
  only, so a read after a poll may still find the old small content under the id.
  `CleanRowMatchesDrive` is a property of the client alone; with others it becomes `RowsCatchUp`.
* `Namespace`: a placeholder that was listed before it is renamed goes on being shown under its
  stored name, although `rename_pending` promises that "`readdir` and `lookup` immediately
  reflect the new name". `DupMapping` has no removal, so this goes for every file.
* `Namespace`, `rename`: a rename that stores its row after the uploader has read it does not reach
  Drive, and `replace_pending_id` brings the old name back into the listing (`CreatedAsNamed`), against
  "the final create_file will use the updated name/parent". One that writes the row it has read
  after `finalize_new_file` has moved it leaves a pending row that is dirty again, with the
  inode of the real file, to be created once more (`InodesAgree`, `InodeKeepsFile`); and
  `replace_pending_id` looks for the placeholder in the folder it has left (`PlaceholdersListed`).
* `Namespace`, `poll`: the poller inserts the row of the new Drive file first, the `UPDATE` of
  `finalize_new_file` fails, its error is dropped and the pending row stays dirty, to be created
  again. A crash after `create_file` ends in a second Drive file, too; so does a lost answer
  (`twoCopies`), and the first copy is listed beside the placeholder under a suffix
  (`OwnNameIsFree`). No property of the run is about the number of Drive files.
* `Namespace`, `listing`: a listing that was asked for, or merged, before a placeholder was
  replaced is installed afterwards: the file is shown twice, under a suffix, or not at all
  (`PlaceholdersListed`, `UniqueNames`, `NeverVanishes`, `OwnNameIsFree`). `move`: two files that
  were shown under one name in two folders keep it when they meet in one (`UniqueNames`);
  one that leaves a folder and comes back during a fetch is missing (`NeverVanishes`, with two
  renames).
* `Namespace`, `reuse`: a new file takes over the name that `DupMapping` has stored for an earlier
  file with its placeholder id, although another file is shown under it (`UniqueNames`). A new
  file with the placeholder id of an earlier one that is still to be uploaded has its row, so that Drive gets it under the other name (`CreatedAsNamed`), and its listings
  and stored names get mixed up (`PlaceholdersListed`, `OwnNameIsFree`).
* `Namespace`: numbering starts at 2 on an empty database, so the second id gets inode 3, which
  `object_manager.rs` reserves for `.duplicates`; `getattr`, `open` and `read` of that file then
  answer for the report.
* `ContentStore`, `overlap`: a reader that has read a small BLOB warms moka with it after a
  large content was stored; the stale copy hides the file on disk. A crash in the
  middle of a large store leaves neither content; `NothingIsLost` names this case.
* `DirectUploads`, `race`: two uploads of one new file are both past the look at its inode before
  either has replaced the placeholder, and both create the file (`OneDriveFile`). Two uploads of
  one file overtake each other, and the older content wins (`DestroyLosesNothing`).

### Bounds

Queue: two callers are enough for the races, which are between the one that
holds a task and the one that attaches to it; one epoch bump makes every queued
prefetch stale. Between them the two runs have all three kinds of key, and so all five workers at work.

Write-back: a new file takes both paths of `upload_entry`, creation and then update; two
writes make a second version; three contents (empty, Drive's, another) tell apart
everything the code compares. Two spare ids let a lost reply leave one behind. One new file
is the bound that keeps the reuse of a placeholder id out of `WriteBackSafety`. One crash
falls between any two steps, and what follows is a full session. `SyncRows` has one old
file and needs no write: closing an unchanged file marks and uploads it too, and
another client's edit makes the contents differ. Its cleaner finds nothing to do
and it fetches no listing (`LocalStep`): `RowsCatchUp` is about rows, which neither of them
writes (`RowsAreCorrected`, in section 4, has both). Two changes by other clients let the second
one fall into the application of the first.

Namespace: two folders make a move; two base names are enough for a rename to another name and
for one old and one new file to collide, before or after it; five inodes are more than the ids need; the one
rename comes before the restart (`MaxRenames` counts the restarts before a rename, too); one
`FetchDir` is under way at a time, for any folder.

Content: what is wrong with a key does not depend on other keys, except through a
migration to a content's own key, so one id and three contents suffice; three stores
make a content that is replaced twice, or two that overlap with a crash.

Direct uploads: five releases on two files and two threads let a file be queued
three times while one of its uploads is under way.

All runs check deadlock except those whose instance (not the program, which goes on
serving requests) can come to rest: `WriteBackProgress` and `DirectUploads` when the
writes or releases are used up or the file system is unmounted, and `SyncRows` when
the file is deleted.

### Fairness

The five workers, the callers, the uploader, the cleaner and the callbacks are
threads that the operating system runs: weak fairness on what each one does. HTTP
calls end because the blocking client has a timeout of 30 s (the default of
`reqwest::blocking`). `EveryWaitReturns` also assumes that a direct upload ends
(`UploadFairness`), for the same reason; `DownloadsNeverHeldByUploads` does not.
`EveryDirtyEntryIsSettled` assumes that an entry tried again and again is uploaded some
time (strong fairness of its `SendUpdate`/`SendCreate`): with Drive
refusing for ever, the code retries for ever. `Load(id)` is strongly fair because the
uploader takes an entry whatever else goes on, while the model, without overlaps, makes
it wait for a callback on the same file. `DestroyReturns` assumes that `release` goes on to
send, that the upload threads run and that `destroy` polls; nobody has to unmount.

## 4. The proofs

All proofs are for arbitrary constants under the named assumptions of the modules
(`KeysAssumption`, `NamesAssumption`, `FilesAssumption`: kinds of names are disjoint;
`RowsAssumption`: no row is not a row; `ThreadsAssumption`: a finite pool of at least one
thread; `BoundsAssumption`, `RemoteAssumption`: bounds are natural numbers, and there is
the inode of the root; `DisturbancesAssumption`: which disturbances there are). Where a
theorem needs a disturbance to be off it is a hypothesis of the theorem; section 3 says which
properties TLC finds violated with it.

* `QueueManagerProofs`: `TypeCorrect`, then `OneOwner` and `WaiterKept` from `Inductive`.
  Neither property is inductive: that `Attach` joins a task somebody still has rests on
  `Ownership` (who owns a task has it in `tracking`, what is in `tracking` has an owner,
  never two), and that `Remove` answers everybody, once, on `Registration` (each
  handle is under the key its caller waits for, or with the worker that removed
  that key, or answered). `WorkerShape` says what a worker holds in each phase.
  `DownloadsAreCached` (`DownloadIsCached`) adds that a worker past `store` has left the
  content in the cache, and so has whoever answered a caller (`AnswersStored`). Nothing may
  be evicted for it. Downloads never meet a worker that discards (`DownloadsKept`), so it
  holds after any epoch bumps; of listings it would not (section 3).
  Last, `Refinement`: the queue implements `SingleFlight`. `Insert` is
  `Launch` or `Board`, `Attach` is `Board` (or stutters), `Execute` and `Discard` decide,
  `Remove` is `Land`, `Wake` is `Return`; the rest stutters.
* `WriteBackProofs`: `WriteBackTypeCorrect` and `CleanRowsMatchDrive` from
  `WriteBackInductive`, with every disturbance. A clean row is right at the step that
  cleans it only because Drive has the uploader's bytes under the id in hand
  (`UploaderShape`), and stays right because uploads are of dirty entries (the
  snapshot only holds dirty ones: nobody else takes the flag away) and because a new
  Drive id has no row yet (`Existing`).
  `SumsNameTheirBytes` (`CasSound`), without `upload`, `reader` and `relist`: a content moves to the
  key of a checksum after the upload that brought the checksum, so the local copy must
  still be what was sent (`Sent`, `LocalCopy`), a download must bring what the checksum
  it is stored under is of (`DownloadFresh`), and the object manager must know
  Drive's checksum or none (`KnownSums`), also once the listing on its way is stored
  (`ListingFresh`).
* `WriteBackKeepProofs`: `OldFilesKept`, `ClosedBytesKept` (`NoLostUpdate`), `SecondWriteKept`
  (`SecondWriteRedetected`, which `WriteBackRace` shows violated with `upload`) and
  `ClosedBytesReadBack` (`ReadYourWrites`), all with no two activities on one file and no failed
  download for `open()`: lost answers, deleted parents and checksums in answers may come, and
  listings that keep clear of uploads and of callbacks (`NoOverlap`). The properties name the place where the bytes are to be found, not how they get
  there, so `KeepInv` follows them: a buffer that is seeded or flushed is as expected and what
  `release()` marks is in the cache (`Buffers`); what `open()`, the uploader or a
  restart would read is as expected (`Caches`); an id, a row and a handle lead to the same
  file at every stage of an upload, the two ids of `finalize_new_file` included
  (`FileIds`, `FileRows`, `UploadRows`, `HandleIds`); and nobody removes or replaces a local copy
  that is still needed (`DirtyCached`, `CleanerApart`, `DownloadClean`). `Unused` says that
  `create()` takes an id nothing refers to. After a restart that is true only if no
  entry of another new file is left, so the theorems about all files assume no crash
  or one new file that is not given up (`NoReuse`); `OldFilesKept` assumes nothing about
  crashes. With two new files TLC finds one lost. The instance of `WriteBackSafety`
  satisfies both assumptions.
* `SyncManagerProofs`: `SyncTypeCorrect` with every disturbance, `RowsAreCorrected` without
  `upload`. That the feed will tell of a row that is out of date is lost at three places and
  must be regained there: by the change in hand (`RowTold`), by the fetched
  changes, which are Drive's state or are followed by a later one (`FreshChanges`), and by
  the checksum an upload is about to record (`UploadTold`).
* `ContentStoreProofs`: `ContentStoreTypeCorrect` with every disturbance, then
  `StoredIsUploaded` with none: no content takes the place of a larger one (`shrink`, which
  breaks it in `ContentShrink`) and no two operations overlap on a key (`overlap`). Expiries,
  unlinks, migrations and crashes stay. The theorem says of the uploader alone what depends on everyone: the bytes
  in its hands come from a tier, and a reader may have warmed that tier. `IndInv`
  therefore says that a store under way has its key for itself (`Alone`), that no tier
  holds a copy that was replaced (`TiersExpected`), that the tiers a store has passed hold its
  content or nothing (`StoresInOrder`), and that what a reader or the uploader carries
  is not older than the last store (`CarriedExpected`). `Shape` says what each thread
  holds in each phase.
  The second part is `NoContentIsLost` and `ContentRefinement`, again with no
  disturbance. `MapInv` says that a store or a migration has its keys to itself (`StoresAlone`,
  `MovesAlone`), which copies there are at each of its steps (`WriterStage`,
  `UploaderStage`), and that what is in RAM is in a BLOB too except between two of them
  (`Backed`), so that no expiry brings an older copy to light. `Begin` and
  `Migrate` are `Offer`, the last step of a store and `Migrated` are `Return`; what a step
  in between does to what a key leads to is `Take`, `Forget`, `Move` or nothing.
* `DirectUploadsProofs`: `DirectUploadsTypeCorrect` and `DestroyWaitsForAll` with any
  overlap: the counter counts the tasks in the pool, those of the threads and the one
  about to be sent (`Counted`), which keeps it from going below zero and makes `destroy()`
  wait. `NewFileCreatedOnce` and `UnmountAbandonsNoWrite` without `race`: tasks reach the
  threads in the order of the closes (`InOrder`), an upload past its delay is the oldest of
  its file (`Alone`), so that what it has decided still goes (`Decided`); a file without
  an id has nothing on Drive (`Linked`); and the last close of a file is on its way or has
  arrived to stay, unless an upload of it has failed (`Delivered`).
* `NamespaceProofs`: `InodesStayPaired`, `InodesKeepTheirFile`, `NewFilesNamedAsWanted`, with
  every disturbance but `rename` and `reuse`: no file is renamed under its upload (`RenamesWait`)
  and no placeholder id is given out again by a later mount (`IdsFresh`), which the code
  does not see to. With either, TLC finds `CreatedAsNamed` violated, with `rename` the others, too;
  with `reuse` it finds nothing against them, but the invariant does not hold. A restart builds both maps from the rows, so that they agree
  rests on the rows: their numbers were given out (`RowsNumbered`), none is in two of them
  (`OneRowEach`), and a file that may yet get a row has no number that is in another's
  (`Apart`). That numbering can go on after the largest number in the rows is `NextNumber`.
  For the names `Arrivals` follows a new file from `opened` to its row, through a rename
  and the stages of the uploader.
* `ListingProofs`: the listings and the names of `Namespace`, with crashes, restarts and the
  poller, in layers. The types hold with every disturbance; the other layers need some of
  them off.

  | theorem | property | off | invariant |
  |---|---|---|---|
  | `NamespaceTyped` | `TypeOK` | none | `ShapeInv` |
  | `PlaceholdersStayListed` | `PlaceholdersListed` | `rename`, `reuse`, `listing` | `TypeInv`, `ListInv` |
  | `NamesStayUnique`, `ListedFilesStay` | `UniqueNames`, `NeverVanishes` | and `move` | and `ShownInv` |
  | `OwnNamesAreFree` | `OwnNameIsFree` | `rename`, `reuse`, `listing`, `twoCopies` | `TypeInv`, `ListInv`, `CopiesArrive` |

  With `rename` off, a placeholder is not renamed during its upload. With `listing` off, no
  upload ends in a folder whose listing is on its way, and no placeholder comes or goes there
  once the answer is merged. With `move` off, a file is renamed in its folder as in the
  code (its name stays), but goes to another one only where no file is shown under its name,
  and not during a fetch. With `twoCopies` off, an upload learns what `create_file` has
  made, unless there is a restart.
  TLC has a counterexample for `PlaceholdersListed` with each of `rename`, `reuse` and `listing`,
  for `UniqueNames` with `reuse`, `listing` and `move`, for `NeverVanishes` with `listing` and, with two
  renames, `move`, and for `OwnNameIsFree` with `reuse`, `listing` and `twoCopies`. In the other
  places of the table it has found none in the bounds of the run; there a hypothesis is needed
  for the invariant, which rests on the layers before.

  `ShapeInv` has what the types rest on, whatever is renamed: that each stage of the uploader has
  its placeholder and its new file and a callback about to store a row has one
  (`Working`). It also says that a row the uploader
  may pick has a name and a folder, and so has what it picked (`RowsPlaced`,
  `TargetPlaced`): the poller's rows have neither. `TypeInv` is the invariant of
  `NamespaceProofs` with these and `HandedOut`: a placeholder id that something still refers to is
  one that `next_fh` has passed, so that `create()`, which asks nothing of its id, takes
  a fresh one. `Unseen` says that such an id was not shown yet either. `ListInv` says of every listing, and of an answer that is merged and
  not yet installed, that it has the placeholders of its folder, each once, and no
  others (`Placed`); that an upload goes where its placeholder is (`HomesKnown`,
  `UploadPlaced`); and that nobody has seen a Drive file before it was made (`SeenMade`).

  Uniqueness of names is not about one listing: a name is given once and kept, so that
  it must be free wherever the file is going to be listed. `ShownInv` therefore speaks of
  all that is in a folder by any account (`In`: Drive's, the placeholders', a listing's, the
  fetch's). A file is in one folder only (`OneFolder`); no two files in it have one name
  (`DifferentNames`); a listing has every file of the folder that has a name
  (`ShownEntered`), the answer of Drive has all of Drive's (`FetchWhole`), and what an upload
  has just put there has no name yet (`Arrived`). `CopiesArrive` says that the only Drive file
  made of a placeholder that is still in a folder is the one that is about to replace it.

  Listings and names are built by folds over sequences. The first part of the
  module says what these folds do for sequences of any length: `FoldValues` (the values a
  `FoldLeft` goes through, place by place), from it `KeptSteps`, `WithEntriesSteps` and
  `ResolvedSteps`, and from these what the results have (`KeptResult`, for one: the
  ids that were to be kept, each once if it was). They need no induction principle:
  `UpTo` takes the least place at which a claim fails. `FreeNameIsFree` is that the loop of
  `DupMapping::resolve` ends: a folder has fewer names than there are suffixes.

Model-checked only: liveness (`EveryWaitReturns`, `DownloadsNeverHeldByUploads`,
`EveryDirtyEntryIsSettled`, `DestroyReturns`) and `RefinesFairSingleFlight`, whose fairness is out
of the prover's reach. Every other property of a run that passes is the statement of a theorem.

## 5. Left out

* Buffers of large files on disk (`write_tmp`) and `setattr` without a handle (the code
  ignores it for content).
* `mkdir` and `rmdir`: the folders of `Namespace` do not change. Sizes and times.
* ETags, the `Stale` mark and 304 answers: a listing may be fetched at any time, and a
  304 changes none. The name index, which only `rename` falls back on.
* Streaming of byte ranges, byte budgets and LRU order: any key that is not
  protected may be the next victim.
* Symlinks, xattr, statfs, the generated `.duplicates` report and the other handlers that
  change no state.
* A tier that refuses a write (a full disk, an exhausted connection pool), and the
  atomic write of the name map to its file.
* OAuth, configuration, HTTP and JSON: I/O. A call is its outcomes.
* The C++ client: an older program without queue, database or write-back.

## 6. Plan

1. `DirCache`: TTL, ETag, `touch_dir` and the Stale mark, composed with `QueueManager`, so that
   a 304 for a listing that was evicted meanwhile is in a run.
2. `mkdir` and `rmdir` in `Namespace`.
3. An abstract specification `DurableFiles` (a file, its last closed bytes, what a restart
   may show) that `WriteBack` without overlaps implements. `WriteBackKeepProofs` has the
   invariant it would need.
4. The theorems with a weaker hypothesis where the code is mended: `FilesStay` and `IdsFresh`
   go when `DupMapping` forgets the name of a file that was renamed or is gone, `FetchesWait`
   when a listing that was asked for before a change of its folder is not installed.
