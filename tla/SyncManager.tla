----------------------------- MODULE SyncManager -----------------------------
(***************************************************************************)
(* sync_manager.rs: the poller that follows Drive's change feed, composed  *)
(* with the write-back path, and the other clients that edit and delete    *)
(* files on Drive.                                                         *)
(*                                                                         *)
(* A page token is the set of ids that have changed since Drive gave it    *)
(* out: the feed lists each of them once, with its state at that moment.   *)
(***************************************************************************)
EXTENDS WriteBack

CONSTANT MaxRemote   \* bound: edits and deletions by other clients

ASSUME RemoteAssumption == MaxRemote \in Nat

VARIABLES
    token,    \* whether sync_state holds a page token
    unseen,   \* what has changed on Drive since the stored token ...
    since,    \* ... and since the answer that the poller is applying
    batch,    \* the changes of that answer still to be applied
    poller,   \* the poller's stage, and the change in hand
    gone,     \* ids that another client has deleted
    missed,   \* history: changes that no token in use covers
    remote

feedVars == <<token, unseen, since, batch, poller, gone, missed, remote>>
syncVars == <<vars, feedVars>>

NoChange == [id |-> NoId, bytes |-> NoBytes]
Waiting == [phase |-> "idle", change |-> NoChange]

SyncTypeOK ==
    /\ TypeOK
    /\ token \in BOOLEAN
    /\ unseen \subseteq DriveIds /\ since \subseteq DriveIds
    /\ batch \subseteq [id : DriveIds, bytes : Bytes \cup {NoBytes}]
    /\ poller \in [phase : {"idle", "apply", "drop", "refresh", "upsert"},
                   change : [id : DriveIds \cup {NoId}, bytes : Bytes \cup {NoBytes}]]
    /\ gone \subseteq DriveIds /\ missed \subseteq DriveIds
    /\ remote \in 0..MaxRemote

\* The database is that of a first mount, or of an earlier one.
SyncInit ==
    /\ Init
    /\ token \in BOOLEAN
    /\ unseen = {} /\ since = {} /\ batch = {}
    /\ poller = Waiting
    /\ gone = {} /\ missed = {}
    /\ remote = 0

-----------------------------------------------------------------------------
(* Drive.                                                                   *)

\* Drive's feed has these ids as changed from now on.
Announce(ids) ==
    /\ unseen' = IF token /\ poller.phase = "idle" THEN unseen \cup ids ELSE unseen
    /\ since' = IF token /\ poller.phase # "idle" THEN since \cup ids ELSE since
    /\ missed' = IF token THEN missed ELSE missed \cup ids

\* Another client edits a file.  The user may find either content.
RemoteEdit(id, b) ==
    /\ remote < MaxRemote
    /\ drive[id] \notin {NoBytes, b}
    /\ "reader" \in Disturbances \/ worker.id # id
    /\ remote' = remote + 1
    /\ drive' = [drive EXCEPT ![id] = b]
    /\ accepted' = [f \in Files |-> IF idOf[f] = id THEN accepted[f] \cup {b}
                                    ELSE accepted[f]]
    /\ Announce({id})
    /\ UNCHANGED <<idOf, md5Of, row, rowFile, rowMd5, content, handle, uploader,
                   cleaner, worker, answer, mounted, writes, crashes, token,
                   batch, poller, gone>>

\* Another client deletes a file.
RemoteDelete(id) ==
    /\ remote < MaxRemote
    /\ drive[id] # NoBytes
    /\ remote' = remote + 1
    /\ drive' = [drive EXCEPT ![id] = NoBytes]
    /\ gone' = gone \cup {id}
    /\ accepted' = [f \in Files |-> IF idOf[f] = id THEN {} ELSE accepted[f]]
    /\ Announce({id})
    /\ UNCHANGED <<idOf, md5Of, row, rowFile, rowMd5, content, handle, uploader,
                   cleaner, worker, answer, mounted, writes, crashes, token,
                   batch, poller>>

-----------------------------------------------------------------------------
(* poll_once.                                                               *)

PollerAt(phase, change) == [phase |-> phase, change |-> change]

\* There is no token yet: the changes so far are not in the feed from here.
Bootstrap ==
    /\ poller.phase = "idle" /\ ~token
    /\ token' = TRUE
    /\ UNCHANGED <<vars, unseen, since, batch, poller, gone, missed, remote>>

\* get_changes succeeds.  (An empty answer changes nothing.)
GetChanges ==
    /\ poller.phase = "idle" /\ token
    /\ unseen # {}
    /\ batch' = {[id |-> id, bytes |-> drive[id]] : id \in unseen}
    /\ poller' = PollerAt("apply", NoChange)
    /\ UNCHANGED <<vars, token, unseen, since, gone, missed, remote>>

\* get_changes refuses the token: a fresh one skips what has not been seen.
Expired ==
    /\ poller.phase = "idle" /\ token
    /\ unseen # {}
    /\ unseen' = {}
    /\ missed' = missed \cup unseen
    /\ UNCHANGED <<vars, token, since, batch, poller, gone, remote>>

\* Slip: the token is asked for only when every change is applied.
StoreTokenLate ==
    /\ poller.phase = "apply" /\ batch = {}
    /\ unseen' = {}
    /\ since' = {}
    /\ poller' = Waiting
    /\ UNCHANGED <<vars, token, batch, gone, missed, remote>>

\* Every change is applied: the new token is stored.
StoreToken ==
    /\ poller.phase = "apply" /\ batch = {}
    /\ unseen' = since
    /\ since' = {}
    /\ poller' = Waiting
    /\ UNCHANGED <<vars, token, batch, gone, missed, remote>>

-----------------------------------------------------------------------------
(* apply_change.                                                            *)

\* The cache without the entries of id.  Of the checksum's only the file on
\* disk goes; a copy in RAM or in small_files stays.  (A removed file's own
\* copy in small_files stays until Drop.)
Forgotten(id) ==
    {[content EXCEPT ![id] = NoBytes],
     [content EXCEPT ![id] = NoBytes, ![CacheKey(id)] = NoBytes]}

\* The change is taken up: the row's checksum is compared, and what is stale or
\* removed is evicted, with the metadata.
TakeUp(c) ==
    /\ poller.phase = "apply"
    /\ c \in batch
    /\ "upload" \in Disturbances \/ ~Uploading(c.id)
    /\ "reader" \in Disturbances \/ worker.id # c.id
    /\ batch' = batch \ {c}
    /\ LET changed == /\ row[c.id] # "none"
                      /\ rowMd5[c.id] \notin {NoBytes, c.bytes}
           removed == c.bytes = NoBytes
       IN  /\ content' \in (IF changed \/ removed THEN Forgotten(c.id) ELSE {})
                             \cup (IF changed THEN {} ELSE {content})
           /\ IF changed /\ ~removed
              THEN /\ row' = [row EXCEPT ![c.id] = "none"]
                   /\ rowFile' = [rowFile EXCEPT ![c.id] = NoFile]
                   /\ rowMd5' = [rowMd5 EXCEPT ![c.id] = NoBytes]
              ELSE UNCHANGED <<row, rowFile, rowMd5>>
           /\ poller' = PollerAt(IF removed THEN "drop" ELSE "refresh", c)
    /\ md5Of' = [md5Of EXCEPT ![c.id] = NoBytes]
    /\ UNCHANGED <<idOf, drive, handle, uploader, cleaner, worker, answer,
                   mounted, accepted, writes, crashes, token, unseen, since,
                   gone, missed, remote>>

\* remove_entry of a file that is gone: the row, and the content if that is in
\* small_files.
Drop ==
    /\ poller.phase = "drop"
    /\ LET id == poller.change.id
       IN  /\ content' \in {content, [content EXCEPT ![id] = NoBytes]}
           /\ row' = [row EXCEPT ![id] = "none"]
           /\ rowFile' = [rowFile EXCEPT ![id] = NoFile]
           /\ rowMd5' = [rowMd5 EXCEPT ![id] = NoBytes]
    /\ poller' = PollerAt("apply", NoChange)
    /\ UNCHANGED <<idOf, md5Of, drive, handle, uploader, cleaner, worker,
                   answer, mounted, accepted, writes, crashes, token, unseen,
                   since, batch, gone, missed, remote>>

\* store_metadata of the object manager.
Refresh ==
    /\ poller.phase = "refresh"
    /\ md5Of' = [md5Of EXCEPT ![poller.change.id] = poller.change.bytes]
    /\ poller' = PollerAt("upsert", poller.change)
    /\ UNCHANGED <<idOf, row, rowFile, rowMd5, content, drive, handle, uploader,
                   cleaner, worker, answer, mounted, accepted, writes, crashes,
                   token, unseen, since, batch, gone, missed, remote>>

\* The inode column of a row that is inserted for id.
InodeOf(id) ==
    IF \E f \in Files : idOf[f] = id THEN CHOOSE f \in Files : idOf[f] = id ELSE NoFile

\* store_metadata of the database, with is_dirty = false.
Upsert ==
    /\ poller.phase = "upsert"
    /\ LET c == poller.change
       IN  /\ row' = [row EXCEPT ![c.id] = "clean"]
           /\ rowMd5' = [rowMd5 EXCEPT ![c.id] = c.bytes]
           /\ rowFile' = IF row[c.id] # "none" THEN rowFile
                         ELSE [rowFile EXCEPT ![c.id] = InodeOf(c.id)]
    /\ poller' = PollerAt("apply", NoChange)
    /\ UNCHANGED <<idOf, md5Of, content, drive, handle, uploader, cleaner,
                   worker, answer, mounted, accepted, writes, crashes, token,
                   unseen, since, batch, gone, missed, remote>>

-----------------------------------------------------------------------------
(* The write-back path, with a feed and other clients.                      *)

\* What this step uploads, also when Drive has the same bytes already.
Uploaded ==
    {id \in DriveIds : drive'[id] # drive[id]}
    \cup (IF uploader.phase = "send" /\ uploader'.phase = "clear"
          THEN {uploader.id} ELSE {})

\* Drive answers 404 for a file that is gone.  The poller's change in hand and
\* the entry being uploaded are different files, the cleaner finds the cache within
\* its budget, and no listing is fetched, unless the run says otherwise: neither of
\* these two writes a row.
LocalStep ==
    /\ Next
    /\ \A id \in gone : drive'[id] = drive[id]
    /\ \/ "upload" \in Disturbances
       \/ poller.change = NoChange
       \/ uploader'.phase # "send" \/ uploader'.id # poller.change.id
    /\ "cleaner" \in Disturbances \/ cleaner' = NoBytes
    /\ "relist" \in Disturbances \/ answer' = NoAnswer
    /\ crashes' = crashes
    /\ Announce(Uploaded)
    /\ UNCHANGED <<token, batch, poller, gone, remote>>

\* The worker fails to download a file that is gone: open() starts empty.
OpenGone(h) ==
    /\ handle[h].phase = "fetch" /\ handle[h].id \in gone
    /\ handle' = [handle EXCEPT ![h] = Filled(h, Empty, FALSE, FALSE)]
    /\ UNCHANGED <<idOf, md5Of, row, rowFile, rowMd5, content, drive, uploader,
                   cleaner, worker, answer, mounted, accepted, writes, crashes,
                   feedVars>>

\* The token in the database is the old one: the same changes come again.
SyncCrash ==
    /\ Crash
    /\ unseen' = unseen \cup since
    /\ since' = {}
    /\ batch' = {}
    /\ poller' = Waiting
    /\ UNCHANGED <<token, gone, missed, remote>>

SyncNext ==
    \/ LocalStep \/ SyncCrash
    \/ \E h \in Handles : OpenGone(h)
    \/ \E id \in DriveIds : RemoteDelete(id) \/ \E b \in Bytes : RemoteEdit(id, b)
    \/ Bootstrap \/ GetChanges \/ Expired \/ StoreToken
    \/ \E c \in batch : TakeUp(c)
    \/ Drop \/ Refresh \/ Upsert

SyncSpec == SyncInit /\ [][SyncNext]_syncVars

-----------------------------------------------------------------------------
(* Correctness.                                                             *)

\* A clean row that is out of date will be corrected: its file is among the
\* changes after the stored token, however the poller, a crash and the uploads
\* of this client fall.  Lost are only changes that a fresh token skips.
RowsCatchUp ==
    \A id \in DriveIds \ (gone \cup missed) :
        row[id] = "clean" => \/ rowMd5[id] \in {NoBytes, drive[id]}
                             \/ id \in unseen \cup since

\* "Mark a file as dirty (local modification not yet uploaded to Drive)": the
\* flag is taken away only when Drive has the local bytes (mark_dirty).
FlagFallsWhenUploaded ==
    [][\A id \in DriveIds :
          row[id] = "dirty" /\ row'[id] = "clean" => content[id] = drive[id]]_syncVars

=============================================================================
