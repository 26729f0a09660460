------------------------------ MODULE Namespace ------------------------------
(***************************************************************************)
(* Names, inodes and listings: the maps of object_manager.rs, the names    *)
(* that dup_mapping.rs gives to files, create / release / rename / unlink  *)
(* of fuse_ops.rs, the directory fetch of queue_manager.rs, the creation   *)
(* of new files by upload_manager.rs, the rows of db_manager.rs that keep  *)
(* names, parents and inodes, and the poller of sync_manager.rs.           *)
(*                                                                         *)
(* Contents are left out (WriteBack.tla).  Folders do not change, and a    *)
(* new file is written through the handle of create() only.  A listing may *)
(* be fetched at any time, as its TTL may run out at any time; a 304       *)
(* answer changes no listing.                                              *)
(***************************************************************************)
EXTENDS Naturals, Sequences, FiniteSets, SequencesExt

CONSTANTS
    Folders,
    OldFiles,     \* files Drive has at the start, named by their Drive id
    SpareIds,     \* ids Drive gives to created files
    PendingIds,   \* "__pending__<fh>"
    Bases,        \* what file names are made of
    NoId, NoFolder, NoName, NoRow, NoListing,
    Disturbances, \* what the run lets happen, see below
    MaxIno,       \* bound: the largest inode number
    MaxRenames,   \* bound: renames, moves and restarts before the last of them
    MaxMounts     \* bound: mounts after the first

(* Disturbances: the upload of a new file overlaps ...                      *)
(*   "rename"    its rename                                                 *)
(*   "poll"      the poller hearing of it                                   *)
(*   "crash"     a restart                                                  *)
(* ... or                                                                   *)
(*   "listing"   a listing is fetched while its folder gets or loses a file *)
(*   "move"      a file goes to another folder while a listing is fetched,   *)
(*               or where another file is shown under its name, or, by      *)
(*               another client, once it has been shown                     *)
(*   "reuse"     a mount gives placeholder ids of earlier mounts out again   *)
(*   "twoCopies" the answer of create_file is lost                          *)
ASSUME DisturbancesAssumption ==
    Disturbances \subseteq {"rename", "listing", "poll", "crash", "twoCopies",
                            "move", "reuse"}

DriveIds == OldFiles \cup SpareIds
Ids == DriveIds \cup PendingIds

ASSUME NamesAssumption ==
    /\ OldFiles \cap SpareIds = {}
    /\ DriveIds \cap PendingIds = {}
    /\ NoId \notin Ids /\ NoFolder \notin Folders /\ IsFiniteSet(Ids)
ASSUME BoundsAssumption ==  \* there is the inode of the root
    MaxIno \in Nat \ {0} /\ MaxRenames \in Nat /\ MaxMounts \in Nat

FirstIno == 2   \* after ROOT_INO, on an empty database
Inodes == 1..MaxIno

\* A name as display_name returns it, and with the n-th suffix of suffix_name.
Suffix(name, n) == Append(name, n)
RawNames == {<<b>> : b \in Bases}
ShownNames ==
    RawNames \cup {Suffix(name, n) : name \in RawNames, n \in 1..Cardinality(Ids)}

ASSUME NoNameAssumption == NoName \notin ShownNames

Places == [name : RawNames, parent : Folders]
Entries == [id : Ids, name : RawNames]
ASSUME ListingAssumption == NoListing \notin Seq(Entries)

VARIABLES
    drive,     \* the name and the folder of each file Drive has
    inoOf,     \* id_to_ino, 0 for an id without inode
    idAt,      \* ino_to_id
    nextIno,
    named,     \* ObjectManager.metadata: the name of each placeholder
    home,      \* pending_parents
    listing,   \* dir_cache: the entries of each listing
    fetch,     \* the FetchDir task under way: one at a time
    shown,     \* DupMapping.inner: the name given to an id
    row,       \* SQLite metadata
    opened,    \* pending ids with an open handle of create()
    rename,    \* the callback that is about to store a row
    uploader,  \* the uploader thread
    mounted,   \* pending ids that next_fh has passed
    wanted,    \* where the user wants each new file, which the write buffer
               \* knows while the file is open
    copies,    \* history: the Drive files made of each new file
    renames, mounts

inodes == <<inoOf, idAt, nextIno>>
memory == <<named, home, listing>>
vars == <<drive, inodes, memory, fetch, shown, row, opened, rename, uploader,
          mounted, wanted, copies, renames, mounts>>

NoFetch == [phase |-> "idle", parent |-> NoFolder, files |-> <<>>]
NoRename == [pid |-> NoId, row |-> NoRow, to |-> NoRow]
Resting == [phase |-> "idle", pid |-> NoId, to |-> NoRow, newId |-> NoId]
Rows == [name : RawNames \cup {NoName}, parent : Folders \cup {NoFolder},
         ino : Inodes, dirty : BOOLEAN]
ASSUME RowsAssumption == NoRow \notin Places \cup Rows

TypeOK ==
    /\ drive \in [DriveIds -> Places \cup {NoRow}]
    /\ inoOf \in [Ids -> 0..MaxIno]
    /\ idAt \in [Inodes -> Ids \cup {NoId}]
    /\ nextIno \in 1..MaxIno + 1
    /\ named \in [PendingIds -> RawNames \cup {NoName}]
    /\ home \in [PendingIds -> Folders \cup {NoFolder}]
    /\ \A d \in Folders : listing[d] = NoListing \/ listing[d] \in Seq(Entries)
    /\ fetch.phase \in {"idle", "asked", "merged"}
    /\ fetch.parent \in Folders \cup {NoFolder} /\ fetch.files \in Seq(Entries)
    /\ shown \in [Ids -> ShownNames \cup {NoName}]
    /\ row \in [Ids -> Rows \cup {NoRow}]
    /\ opened \subseteq PendingIds
    /\ rename.pid \in PendingIds \cup {NoId}
    /\ uploader.phase \in {"idle", "settle", "send", "finalize", "replace",
                           "abandon", "forget"}
    /\ uploader.pid \in PendingIds \cup {NoId}
    /\ uploader.to \in Places \cup {NoRow}
    /\ mounted \subseteq PendingIds
    /\ wanted \in [PendingIds -> Places \cup {NoRow}]
    /\ copies \in [PendingIds -> SUBSET DriveIds]
    /\ renames \in 0..MaxRenames
    /\ mounts \in 0..MaxMounts

Place(name, parent) == [name |-> name, parent |-> parent]
Entry(id, name) == [id |-> id, name |-> name]

\* Before the first mount the files may be anywhere.
Init ==
    /\ drive \in [DriveIds -> Places \cup {NoRow}]
    /\ \A id \in DriveIds : drive[id] = NoRow <=> id \in SpareIds
    /\ inoOf = [id \in Ids |-> 0]
    /\ idAt = [ino \in Inodes |-> NoId]
    /\ nextIno = FirstIno
    /\ named = [pid \in PendingIds |-> NoName]
    /\ home = [pid \in PendingIds |-> NoFolder]
    /\ listing = [d \in Folders |-> NoListing]
    /\ fetch = NoFetch
    /\ shown = [id \in Ids |-> NoName]
    /\ row = [id \in Ids |-> NoRow]
    /\ opened = {}
    /\ rename = NoRename
    /\ uploader = Resting
    /\ mounted = {}
    /\ wanted = [pid \in PendingIds |-> NoRow]
    /\ copies = [pid \in PendingIds |-> {}]
    /\ renames = 0
    /\ mounts = 0

-----------------------------------------------------------------------------
(* The maps of the object manager.                                          *)

\* get_or_alloc_ino.
Number(id) ==
    IF inoOf[id] # 0 THEN UNCHANGED inodes
    ELSE /\ nextIno <= MaxIno
         /\ inoOf' = [inoOf EXCEPT ![id] = nextIno]
         /\ idAt' = [idAt EXCEPT ![nextIno] = id]
         /\ nextIno' = nextIno + 1

\* Where a sequence of entries has an id.
Positions(files, id) == {i \in DOMAIN files : files[i].id = id}
Has(files, id) == Positions(files, id) # {}
IdsOf(files) == {files[i].id : i \in DOMAIN files}
\* The entries with an id in ids, in their order (Vec::retain).
Kept(files, ids) ==
    FoldLeft(LAMBDA list, e : IF e.id \in ids THEN Append(list, e) ELSE list,
             <<>>, files)
Without(files, id) == Kept(files, Ids \ {id})
Listed(d, id) == listing[d] # NoListing /\ Has(listing[d], id)

\* The listings when that of d, if there is one, becomes files.
Edited(d, files) ==
    IF listing[d] = NoListing THEN listing ELSE [listing EXCEPT ![d] = files]

\* No new listing of d has been put together and is not there yet.
Quiet(d) == "listing" \in Disturbances \/ fetch.phase # "merged" \/ fetch.parent # d

\* The event loop serves one callback at a time.
EventLoopFree == rename = NoRename

\* The upload of pid has begun and is not over.
Uploading(pid) == uploader.phase # "idle" /\ uploader.pid = pid

\* Drive has a new file in d which this client still knows as a placeholder.
Arriving(d) == uploader.phase \in {"finalize", "replace"} /\ uploader.to.parent = d

-----------------------------------------------------------------------------
(* The names of dup_mapping.rs.                                             *)

\* The next free name of DupMapping::resolve.
FreeName(name, taken) ==
    IF name \notin taken THEN name
    ELSE Suffix(name, CHOOSE n \in 1..Cardinality(Ids) :
                         /\ Suffix(name, n) \notin taken
                         /\ \A m \in 1..(n - 1) : Suffix(name, m) \in taken)

\* Slip: a name just given is not marked as taken.
ResolvedForgetting(files) ==
    LET taken == {shown[files[i].id] : i \in DOMAIN files} \ {NoName}
        Assign(names, e) ==
            IF names[e.id] # NoName THEN names
            ELSE [names EXCEPT ![e.id] = FreeName(e.name, taken)]
    IN  FoldLeft(Assign, shown, files)

\* DupMapping::resolve: stored names are kept, new files get free ones in turn.
NamesTaken(names, ids) == {names[id] : id \in ids} \ {NoName}
WithName(names, ids, e) ==
    IF names[e.id] # NoName THEN names
    ELSE [names EXCEPT ![e.id] = FreeName(e.name, NamesTaken(names, ids))]
Resolved(files) ==
    FoldLeft(LAMBDA names, e : WithName(names, IdsOf(files), e), shown, files)

\* A file is in folder d, for Drive, for the placeholders or for the listing.
InFolder(id, d) ==
    \/ id \in DriveIds /\ drive[id] # NoRow /\ drive[id].parent = d
    \/ id \in PendingIds /\ home[id] = d
    \/ Listed(d, id)

\* A file gets another name where it is, or goes to another folder, where no
\* file is shown under the name that names has for it.
Moves(id, from, to, names) ==
    \/ "move" \in Disturbances \/ to = from
    \/ /\ fetch = NoFetch
       /\ \A o \in Ids \ {id} : InFolder(o, to) => names[o] # names[id]

-----------------------------------------------------------------------------
(* FUSE callbacks.                                                          *)

\* The name under which the kernel knows an entry.
NameOf(e) == IF shown[e.id] = NoName THEN e.name ELSE shown[e.id]

\* create() and inject_pending_into_dir: the kernel has not found the name.
\* Nothing is asked of the id, which may have a row, an inode or a name.
Create(pid, d, name) ==
    /\ EventLoopFree
    /\ pid \notin mounted
    /\ Quiet(d)
    /\ listing[d] # NoListing =>
          \A i \in DOMAIN listing[d] : NameOf(listing[d][i]) # name
    /\ mounted' = mounted \cup {pid}
    /\ opened' = opened \cup {pid}
    /\ Number(pid)
    /\ named' = [named EXCEPT ![pid] = name]
    /\ home' = [home EXCEPT ![pid] = d]
    /\ listing' = IF Listed(d, pid) THEN listing
                  ELSE Edited(d, Append(listing[d], Entry(pid, name)))
    /\ wanted' = [wanted EXCEPT ![pid] = Place(name, d)]
    /\ UNCHANGED <<drive, fetch, shown, row, rename, uploader, copies, renames,
                   mounts>>

\* The live name and parent of a placeholder, or those of its write buffer.
Live(pid) ==
    IF named[pid] = NoName THEN wanted[pid] ELSE Place(named[pid], home[pid])

\* release() of a file with content: write_local_dirty.  The upsert leaves the
\* inode column of a row as it is.
Release(pid) ==
    /\ EventLoopFree
    /\ pid \in opened
    /\ opened' = opened \ {pid}
    /\ Number(pid)
    /\ row' = [row EXCEPT ![pid] =
          [name |-> Live(pid).name, parent |-> Live(pid).parent, dirty |-> TRUE,
           ino |-> IF row[pid] = NoRow THEN inoOf'[pid] ELSE row[pid].ino]]
    /\ UNCHANGED <<drive, memory, fetch, shown, rename, uploader, mounted, wanted,
                   copies, renames, mounts>>

\* rename() of a placeholder: resolve, and rename_pending up to the reading of
\* the row.  The name that is shown stays.
RenamePending(pid, d, name) ==
    /\ EventLoopFree
    /\ home[pid] # NoFolder /\ Listed(home[pid], pid)
    /\ shown' = Resolved(listing[home[pid]])
    /\ "rename" \in Disturbances \/ ~Uploading(pid)
    /\ Moves(pid, home[pid], d, shown')
    /\ Quiet(d) /\ Quiet(home[pid])
    /\ Place(name, d) # Place(named[pid], home[pid])
    /\ renames + mounts < MaxRenames
    /\ renames' = renames + 1
    /\ named' = [named EXCEPT ![pid] = name]
    /\ home' = [home EXCEPT ![pid] = d]
    /\ LET from == home[pid]
           out == [listing EXCEPT ![from] = Without(@, pid)]
       IN  listing' =
             IF d # from
             THEN IF listing[d] = NoListing THEN out
                  ELSE [out EXCEPT ![d] = Append(@, Entry(pid, name))]
             ELSE [listing EXCEPT ![d] = [i \in DOMAIN @ |->
                     IF i \in Positions(@, pid) THEN Entry(pid, name) ELSE @[i]]]
    /\ rename' = IF row[pid] = NoRow THEN NoRename
                 ELSE [pid |-> pid, row |-> row[pid], to |-> Place(name, d)]
    /\ wanted' = [wanted EXCEPT ![pid] = Place(name, d)]
    /\ UNCHANGED <<drive, inodes, fetch, row, opened, uploader, mounted, copies,
                   mounts>>

\* Slip: the row keeps its folder.
StoreRenamedHere ==
    /\ rename # NoRename
    /\ row' = [row EXCEPT ![rename.pid] =
          [name |-> rename.to.name, parent |-> rename.row.parent,
           dirty |-> rename.row.dirty, ino |-> rename.row.ino]]
    /\ rename' = NoRename
    /\ UNCHANGED <<drive, inodes, memory, fetch, shown, opened, uploader, mounted,
                   wanted, copies, renames, mounts>>

\* rename_pending, the last step: the row that was read goes back with the new
\* name and parent.
StoreRenamed ==
    /\ rename # NoRename
    /\ LET pid == rename.pid
       IN  row' = [row EXCEPT ![pid] =
              [name |-> rename.to.name, parent |-> rename.to.parent,
               dirty |-> rename.row.dirty,
               ino |-> IF row[pid] = NoRow THEN rename.row.ino ELSE row[pid].ino]]
    /\ rename' = NoRename
    /\ UNCHANGED <<drive, inodes, memory, fetch, shown, opened, uploader, mounted,
                   wanted, copies, renames, mounts>>

\* rename() of a file Drive has: resolve, and both listings are dropped.
RenameFile(id, d, name) ==
    /\ EventLoopFree
    /\ drive[id] # NoRow /\ Listed(drive[id].parent, id)
    /\ shown' = Resolved(listing[drive[id].parent])
    /\ Moves(id, drive[id].parent, d, shown')
    /\ \A pid \in PendingIds : Uploading(pid) => id # uploader.newId
    /\ Place(name, d) # drive[id]
    /\ renames + mounts < MaxRenames
    /\ renames' = renames + 1
    /\ drive' = [drive EXCEPT ![id] = Place(name, d)]
    /\ listing' = [listing EXCEPT ![drive[id].parent] = NoListing, ![d] = NoListing]
    /\ Number(id)
    /\ UNCHANGED <<named, home, fetch, row, opened, rename, uploader, mounted,
                   wanted, copies, mounts>>

\* unlink(): resolve, and the listing is dropped.  Of a placeholder it fails:
\* Drive does not know the id.
Unlink(id) ==
    /\ EventLoopFree
    /\ drive[id] # NoRow /\ Listed(drive[id].parent, id)
    /\ shown' = Resolved(listing[drive[id].parent])
    /\ drive' = [drive EXCEPT ![id] = NoRow]
    /\ listing' = [listing EXCEPT ![drive[id].parent] = NoListing]
    /\ UNCHANGED <<inodes, named, home, fetch, row, opened, rename, uploader,
                   mounted, wanted, copies, renames, mounts>>

\* lookup(), and one entry of readdir(), from a listing that is there.
Show(d, id) ==
    /\ Listed(d, id)
    /\ shown' = Resolved(listing[d])
    /\ Number(id)
    /\ UNCHANGED <<drive, memory, fetch, row, opened, rename, uploader, mounted,
                   wanted, copies, renames, mounts>>

-----------------------------------------------------------------------------
(* FetchDir on a worker.                                                    *)

\* list_files: what Drive has in the folder.
Ask(d) ==
    /\ fetch = NoFetch
    /\ "listing" \in Disturbances \/ ~Arriving(d)
    /\ LET here == {id \in DriveIds : drive[id] # NoRow /\ drive[id].parent = d}
           Listing(ids) == [i \in DOMAIN ids |-> Entry(ids[i], drive[ids[i]].name)]
       IN  fetch' = [phase |-> "asked", parent |-> d, files |-> Listing(SetToSeq(here))]
    /\ UNCHANGED <<drive, inodes, memory, shown, row, opened, rename, uploader,
                   mounted, wanted, copies, renames, mounts>>

\* store_dir_listing, the loop over the answer.
NumberListed(id) ==
    /\ fetch.phase = "asked"
    /\ Has(fetch.files, id) /\ inoOf[id] = 0
    /\ Number(id)
    /\ UNCHANGED <<drive, memory, fetch, shown, row, opened, rename, uploader,
                   mounted, wanted, copies, renames, mounts>>

\* Slip: only the outgoing entry is asked for placeholders.
WithPendingCarried(d, files) ==
    files \o (IF listing[d] = NoListing THEN <<>>
              ELSE SelectSeq(listing[d], LAMBDA e : e.id \in PendingIds))

\* Slip: a placeholder takes the place of a file that has its name.
WithPendingByName(d, files) ==
    LET pids == {pid \in PendingIds : home[pid] = d}
        Placeholders(ids) == [i \in DOMAIN ids |-> Entry(ids[i], named[ids[i]])]
    IN  SelectSeq(files, LAMBDA e : \A pid \in pids : named[pid] # e.name)
          \o Placeholders(SetToSeq(pids))

\* An entry goes to the end, unless its id is there already.
WithEntry(list, e) == IF Has(list, e.id) THEN list ELSE Append(list, e)
WithEntries(list, more) == FoldLeft(WithEntry, list, more)

\* The placeholders of the outgoing entry, then those of pending_parents, each
\* unless it is there already.
WithPending(d, files) ==
    LET old == IF listing[d] = NoListing THEN <<>>
               ELSE Kept(listing[d], PendingIds)
        known == {pid \in PendingIds : home[pid] = d /\ named[pid] # NoName}
        Placeholders(pids) == [i \in DOMAIN pids |-> Entry(pids[i], named[pids[i]])]
    IN  WithEntries(files, old \o Placeholders(SetToSeq(known)))

Merge ==
    /\ fetch.phase = "asked"
    /\ \A i \in DOMAIN fetch.files : inoOf[fetch.files[i].id] # 0
    /\ fetch' = [phase |-> "merged", parent |-> fetch.parent,
                 files |-> WithPending(fetch.parent, fetch.files)]
    /\ UNCHANGED <<drive, inodes, memory, shown, row, opened, rename, uploader,
                   mounted, wanted, copies, renames, mounts>>

\* The new entry replaces the old one.
Install ==
    /\ fetch.phase = "merged"
    /\ listing' = [listing EXCEPT ![fetch.parent] = fetch.files]
    /\ fetch' = NoFetch
    /\ UNCHANGED <<drive, inodes, named, home, shown, row, opened, rename, uploader,
                   mounted, wanted, copies, renames, mounts>>

-----------------------------------------------------------------------------
(* The uploader and a new file.                                             *)

Stage(phase, to, newId) ==
    [phase |-> phase, pid |-> uploader.pid, to |-> to, newId |-> newId]

\* process_dirty_entries: the row as the snapshot has it.
Pick(pid) ==
    /\ uploader = Resting
    /\ row[pid] # NoRow /\ row[pid].dirty
    /\ "rename" \in Disturbances \/ rename.pid # pid
    /\ uploader' = [phase |-> "settle", pid |-> pid, newId |-> NoId,
                    to |-> Place(row[pid].name, row[pid].parent)]
    /\ UNCHANGED <<drive, inodes, memory, fetch, shown, row, opened, rename,
                   mounted, wanted, copies, renames, mounts>>

\* After the settling delay the name and the parent are read again.
Reread ==
    /\ uploader.phase = "settle"
    /\ LET fresh == row[uploader.pid]
       IN  uploader' = Stage("send", IF fresh = NoRow THEN uploader.to
                                     ELSE Place(fresh.name, fresh.parent), NoId)
    /\ UNCHANGED <<drive, inodes, memory, fetch, shown, row, opened, rename,
                   mounted, wanted, copies, renames, mounts>>

\* No listing is on its way that does not show what happens in folder d.
NoFetchUnderWay(d) == "listing" \in Disturbances \/ fetch.parent # d

\* Slip: the name and the folder change places.
CreateFileSwapped(new) ==
    /\ uploader.phase = "send"
    /\ new \in SpareIds /\ \A pid \in PendingIds : new \notin copies[pid]
    /\ drive' = [drive EXCEPT ![new] = Place(uploader.to.parent, uploader.to.name)]
    /\ copies' = [copies EXCEPT ![uploader.pid] = @ \cup {new}]
    /\ uploader' = Stage("finalize", uploader.to, new)
    /\ UNCHANGED <<inodes, memory, fetch, shown, row, opened, rename, mounted,
                   wanted, renames, mounts>>

\* create_file: Drive has the file, under an id it has not used.
CreateFile(new) ==
    /\ uploader.phase = "send"
    /\ new \in SpareIds /\ \A pid \in PendingIds : new \notin copies[pid]
    /\ NoFetchUnderWay(uploader.to.parent)
    /\ drive' = [drive EXCEPT ![new] = uploader.to]
    /\ copies' = [copies EXCEPT ![uploader.pid] = @ \cup {new}]
    /\ uploader' \in {Stage("finalize", uploader.to, new)} \cup
                     (IF "twoCopies" \in Disturbances THEN {Resting} ELSE {})
    /\ UNCHANGED <<inodes, memory, fetch, shown, row, opened, rename, mounted,
                   wanted, renames, mounts>>

\* create_file fails: the row stays dirty, or, when the parent is gone, goes.
SendFails ==
    /\ uploader.phase = "send"
    /\ uploader' \in {Resting, Stage("abandon", uploader.to, NoId)}
    /\ UNCHANGED <<drive, inodes, memory, fetch, shown, row, opened, rename,
                   mounted, wanted, copies, renames, mounts>>

\* finalize_new_file: the row gets the real id, unless there is one with it.
Finalize ==
    /\ uploader.phase = "finalize"
    /\ LET old == uploader.pid
           new == uploader.newId
       IN  row' = IF row[old] = NoRow \/ row[new] # NoRow THEN row
                  ELSE [row EXCEPT ![old] = NoRow,
                           ![new] = [name |-> row[old].name, dirty |-> FALSE,
                                     parent |-> row[old].parent, ino |-> row[old].ino]]
    /\ uploader' = Stage("replace", uploader.to, uploader.newId)
    /\ UNCHANGED <<drive, inodes, memory, fetch, shown, opened, rename, mounted,
                   wanted, copies, renames, mounts>>

\* Slip: the inode still stands for the placeholder.
ReplaceHalf ==
    /\ uploader.phase = "replace"
    /\ inoOf' = [inoOf EXCEPT ![uploader.pid] = 0,
                              ![uploader.newId] = inoOf[uploader.pid]]
    /\ home' = [home EXCEPT ![uploader.pid] = NoFolder]
    /\ named' = [named EXCEPT ![uploader.pid] = NoName]
    /\ uploader' = Resting
    /\ UNCHANGED <<drive, idAt, nextIno, listing, fetch, shown, row, opened, rename,
                   mounted, wanted, copies, renames, mounts>>

\* Slip: the real file is added to the listing, the placeholder stays.
ReplaceAppends ==
    /\ uploader.phase = "replace"
    /\ LET d == uploader.to.parent
       IN  listing' = Edited(d, Append(listing[d],
                                  Entry(uploader.newId, uploader.to.name)))
    /\ inoOf' = [inoOf EXCEPT ![uploader.pid] = 0,
                              ![uploader.newId] = inoOf[uploader.pid]]
    /\ idAt' = IF inoOf[uploader.pid] = 0 THEN idAt
               ELSE [idAt EXCEPT ![inoOf[uploader.pid]] = uploader.newId]
    /\ uploader' = Resting
    /\ UNCHANGED <<drive, named, home, nextIno, fetch, shown, row, opened, rename,
                   mounted, wanted, copies, renames, mounts>>

\* replace_pending_id.
Replace ==
    /\ uploader.phase = "replace" /\ Quiet(uploader.to.parent)
    /\ LET old == uploader.pid
           new == uploader.newId
           d == uploader.to.parent
           e == Entry(new, uploader.to.name)
           at == Positions(listing[d], old)
       IN  /\ home' = [home EXCEPT ![old] = NoFolder]
           /\ named' = [named EXCEPT ![old] = NoName]
           /\ inoOf' = IF inoOf[old] = 0 THEN inoOf
                       ELSE [inoOf EXCEPT ![old] = 0, ![new] = inoOf[old]]
           /\ idAt' = IF inoOf[old] = 0 THEN idAt
                      ELSE [idAt EXCEPT ![inoOf[old]] = new]
           /\ listing' = Edited(d,
                 IF at = {} THEN Append(listing[d], e)
                 ELSE [listing[d] EXCEPT
                         ![CHOOSE i \in at : \A j \in at : i <= j] = e])
    /\ uploader' = Resting
    /\ UNCHANGED <<drive, nextIno, fetch, shown, row, opened, rename, mounted, wanted,
                   copies, renames, mounts>>

\* abandon_dirty_entry.
Abandon ==
    /\ uploader.phase = "abandon"
    /\ row' = IF row[uploader.pid] # NoRow /\ row[uploader.pid].dirty
              THEN [row EXCEPT ![uploader.pid] = NoRow] ELSE row
    /\ uploader' = Stage("forget", uploader.to, NoId)
    /\ UNCHANGED <<drive, inodes, memory, fetch, shown, opened, rename, mounted,
                   wanted, copies, renames, mounts>>

\* remove_pending_from_dir.
Forget ==
    /\ uploader.phase = "forget" /\ Quiet(uploader.to.parent)
    /\ LET pid == uploader.pid
           d == uploader.to.parent
       IN  /\ home' = [home EXCEPT ![pid] = NoFolder]
           /\ named' = [named EXCEPT ![pid] = NoName]
           /\ inoOf' = [inoOf EXCEPT ![pid] = 0]
           /\ idAt' = IF inoOf[pid] = 0 THEN idAt
                      ELSE [idAt EXCEPT ![inoOf[pid]] = NoId]
           /\ listing' = Edited(d, Without(listing[d], pid))
           /\ wanted' = [wanted EXCEPT ![pid] = IF pid \in opened THEN @ ELSE NoRow]
    /\ uploader' = Resting
    /\ UNCHANGED <<drive, nextIno, fetch, shown, row, opened, rename, mounted,
                   copies, renames, mounts>>

-----------------------------------------------------------------------------
(* Other clients, the poller, and a restart.                                *)

\* Another client renames or moves a file.
MoveElsewhere(id, d, name) ==
    /\ drive[id] # NoRow /\ Place(name, d) # drive[id]
    /\ \/ "move" \in Disturbances \/ d = drive[id].parent
       \/ shown[id] = NoName /\ fetch = NoFetch /\ \A e \in Folders : ~Listed(e, id)
    /\ \A pid \in PendingIds : Uploading(pid) => id # uploader.newId
    /\ renames + mounts < MaxRenames
    /\ renames' = renames + 1
    /\ drive' = [drive EXCEPT ![id] = Place(name, d)]
    /\ UNCHANGED <<inodes, memory, fetch, shown, row, opened, rename, uploader,
                   mounted, wanted, copies, mounts>>

\* apply_change: the upsert knows neither name nor parent.
Follow(id) ==
    /\ drive[id] # NoRow
    /\ "poll" \in Disturbances \/ \A pid \in PendingIds : id \in copies[pid] => ~Uploading(pid)
    /\ Number(id)
    /\ row' = [row EXCEPT ![id] =
          [name |-> NoName, parent |-> NoFolder, dirty |-> FALSE,
           ino |-> IF row[id] = NoRow THEN inoOf'[id] ELSE row[id].ino]]
    /\ UNCHANGED <<drive, memory, fetch, shown, opened, rename, uploader, mounted,
                   wanted, copies, renames, mounts>>

\* apply_change of a removal: remove_entry.
FollowRemoval(id) ==
    /\ drive[id] = NoRow /\ row[id] # NoRow
    /\ row' = [row EXCEPT ![id] = NoRow]
    /\ UNCHANGED <<drive, inodes, memory, fetch, shown, opened, rename, uploader,
                   mounted, wanted, copies, renames, mounts>>

\* Slip: numbering starts over.
RestoredFromTwo ==
    LET kept == {id \in Ids : row[id] # NoRow}
    IN  /\ inoOf' = [id \in Ids |-> IF id \in kept THEN row[id].ino ELSE 0]
        /\ idAt' = [ino \in Inodes |->
              IF \E id \in kept : row[id].ino = ino
              THEN CHOOSE id \in kept : row[id].ino = ino ELSE NoId]
        /\ nextIno' = FirstIno

\* load_inode_map: each id gets the inode of its row, and each inode the id of
\* one row that has it; numbering goes on after the largest.
Restored ==
    LET kept == {id \in Ids : row[id] # NoRow}
        inos == {row[id].ino : id \in kept}
    IN  /\ inoOf' = [id \in Ids |-> IF id \in kept THEN row[id].ino ELSE 0]
        /\ idAt' = [ino \in Inodes |->
              IF ino \in inos THEN CHOOSE id \in kept : row[id].ino = ino ELSE NoId]
        /\ nextIno' = CHOOSE n \in 1..MaxIno + 1 :
              /\ \A ino \in inos \cup {FirstIno - 1} : ino < n
              /\ n - 1 \in inos \cup {FirstIno - 1}

\* next_fh begins at 1 again.
Remount ==
    /\ mounts < MaxMounts
    /\ "crash" \in Disturbances \/ (uploader = Resting /\ EventLoopFree)
    /\ mounts' = mounts + 1
    /\ Restored
    /\ named' = [pid \in PendingIds |-> NoName]
    /\ home' = [pid \in PendingIds |-> NoFolder]
    /\ listing' = [d \in Folders |-> NoListing]
    /\ fetch' = NoFetch
    /\ opened' = {}
    /\ rename' = NoRename
    /\ uploader' = Resting
    /\ mounted' = IF "reuse" \in Disturbances THEN {} ELSE mounted
    /\ wanted' = [pid \in PendingIds |-> IF row[pid] = NoRow THEN NoRow
                                      ELSE Place(row[pid].name, row[pid].parent)]
    /\ UNCHANGED <<drive, shown, row, copies, renames>>

-----------------------------------------------------------------------------
UploaderStep ==
    \/ \E pid \in PendingIds : Pick(pid)
    \/ Reread \/ SendFails \/ Finalize \/ Replace \/ Abandon \/ Forget
    \/ \E new \in SpareIds : CreateFile(new)

FetchStep ==
    \/ \E d \in Folders : Ask(d)
    \/ \E id \in DriveIds : NumberListed(id)
    \/ Merge \/ Install

Next ==
    \/ \E d \in Folders, name \in RawNames :
          \/ \E pid \in PendingIds : Create(pid, d, name) \/ RenamePending(pid, d, name)
          \/ \E id \in DriveIds : RenameFile(id, d, name) \/ MoveElsewhere(id, d, name)
    \/ \E pid \in PendingIds : Release(pid)
    \/ StoreRenamed
    \/ \E id \in DriveIds : Unlink(id) \/ Follow(id) \/ FollowRemoval(id)
    \/ \E d \in Folders, id \in Ids : Show(d, id)
    \/ FetchStep
    \/ UploaderStep
    \/ Remount

Spec == Init /\ [][Next]_vars

-----------------------------------------------------------------------------
(* Correctness.                                                             *)

\* The two inode maps agree: the inode of a file stands for that file, also
\* after a restart has put them together from the rows (ObjectManager::new).
InodesAgree ==
    \A id \in Ids : inoOf[id] # 0 => idAt[inoOf[id]] = id

\* An inode the kernel knows stands for one file until the file is given up or
\* the file system is mounted anew; its upload changes the id, not the inode
\* (replace_pending_id: open handles remain valid).
InodeKeepsFile ==
    [][\A ino \in Inodes :
          idAt[ino] # NoId /\ mounts' = mounts =>
             \/ idAt'[ino] = idAt[ino]
             \/ Replace /\ idAt[ino] = uploader.pid /\ idAt'[ino] = uploader.newId
             \/ Forget /\ idAt[ino] = uploader.pid /\ idAt'[ino] = NoId]_vars

\* A placeholder is in the listing of its folder, once, and in no other: neither
\* a fetch nor a rename loses it, and no upload leaves it behind
\* (store_dir_listing, rename_pending), as long as none of these overlap on it
\* ("rename", "listing") and its id is not given out again ("reuse").
PlaceholdersListed ==
    \A pid \in PendingIds, d \in Folders :
        listing[d] # NoListing =>
            Cardinality(Positions(listing[d], pid)) = IF home[pid] = d THEN 1 ELSE 0

\* A folder shows no name twice, whatever Drive and the placeholders have in it
\* (dup_mapping.rs: readdir must carry unique names), as long as nothing that was
\* named elsewhere comes into it: no placeholder id is given out again ("reuse"),
\* no file moves to where its name is shown ("move"), and no listing misses what
\* happens while it is fetched ("listing").
UniqueNames ==
    \A d \in Folders : listing[d] # NoListing =>
        \A i, j \in DOMAIN listing[d] :
           (i # j /\ shown[listing[d][i].id] # NoName) =>
              shown[listing[d][i].id] # shown[listing[d][j].id]

\* A file gets a suffix only because another file has the name, never because
\* its own placeholder has it (resolve, after replace_pending_id), as long as no
\* placeholder id is given out again ("reuse"), no answer of create_file is lost
\* ("twoCopies") and no listing is fetched while the file arrives ("listing").
OwnNameIsFree ==
    [][\A id \in Ids :
          shown[id] = NoName /\ shown'[id] \notin RawNames \cup {NoName} =>
             \E d \in Folders, o \in Ids \ {id} :
                /\ Listed(d, id) /\ Listed(d, o)
                /\ shown'[o] = Front(shown'[id])
                /\ o \in PendingIds => id \notin copies[o]]_vars

\* A file that a listing shows, and that Drive still has there, does not vanish
\* when another listing of the folder takes its place (store_dir_listing).
NeverVanishes ==
    [][\A d \in Folders, id \in DriveIds :
          (/\ Listed(d, id) /\ listing'[d] # NoListing
           /\ drive[id] # NoRow /\ drive[id].parent = d /\ drive'[id] = drive[id])
              => Has(listing'[d], id)]_vars

\* "The final create_file will use the updated name/parent": Drive gets a new
\* file under the name and in the folder the user gave it last (rename), as long
\* as it is not renamed while it is uploaded ("rename") and its id was not that
\* of a file which an earlier mount has left dirty ("reuse").
CreatedAsNamed ==
    [][\A new \in SpareIds : CreateFile(new) => drive'[new] = wanted[uploader.pid]]_vars

=============================================================================
