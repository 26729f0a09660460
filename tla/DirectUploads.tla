----------------------------- MODULE DirectUploads -----------------------------
(***************************************************************************)
(* Uploads without the write-back path (fuse_ops.rs): release() hands the  *)
(* buffer of a handle to a pool of upload threads, the pool creates or     *)
(* updates the file on Drive, and destroy() waits for the counter of       *)
(* uploads under way before the process ends.                              *)
(*                                                                         *)
(* Contents are numbered by the release they come from.  Names, folders    *)
(* and the cache are left out; reading the buffer and skipping an empty    *)
(* one is in WriteBack.                                                    *)
(***************************************************************************)
EXTENDS Naturals, Sequences, FiniteSets

CONSTANTS
    OldFiles,     \* inodes of files on Drive
    NewFiles,     \* inodes of files made by create(), pending at the start
    NoFile,
    Threads,      \* the upload threads
    Disturbances, \* what the run lets happen, see below
    MaxReleases   \* bound: releases in a behaviour

(* Disturbances:                                                            *)
(*   "race"  an upload of a file overtakes an earlier one of the same file  *)
ASSUME DisturbancesAssumption == Disturbances \subseteq {"race"}
ASSUME FilesAssumption ==
    /\ OldFiles \cap NewFiles = {} /\ NoFile \notin OldFiles \cup NewFiles
ASSUME ThreadsAssumption == IsFiniteSet(Threads) /\ Threads # {}
ASSUME BoundsAssumption == MaxReleases \in Nat

Files == OldFiles \cup NewFiles
Versions == 0..MaxReleases
Tasks == [file : Files, create : BOOLEAN, bytes : Versions]
NoTask == [file |-> NoFile, create |-> FALSE, bytes |-> 0]

VARIABLES
    drive,     \* drive[f]: the contents of the Drive files made for f
    real,      \* real[f]: which of them the inode leads to, 0 while pending
    forgotten, \* the files whose pending id has lost its inode
    creator,   \* the files whose handle from create() is still open
    sending,   \* the task of the release() that runs, or NoTask
    pool,      \* upload_tx: the tasks no thread has taken
    thread,    \* what each upload thread is doing
    active,    \* active_uploads
    mount,     \* "mounted", "waiting" in destroy(), or "unmounted"
    last,      \* history: the last release of each file
    failed,    \* history: the files an upload has failed for
    releases

vars == <<drive, real, forgotten, creator, sending, pool, thread, active,
          mount, last, failed, releases>>

Resting == [phase |-> "idle", file |-> NoFile, bytes |-> 0, target |-> 0]
Working(phase, f, b, target) ==
    [phase |-> phase, file |-> f, bytes |-> b, target |-> target]
Phases == {"idle", "settle", "create", "replace", "remove", "update", "done"}

TypeOK ==
    /\ drive \in [Files -> Seq(Versions)]
    /\ real \in [Files -> Nat]
    /\ \A f \in Files : real[f] \in 0..Len(drive[f])
    /\ forgotten \subseteq NewFiles /\ creator \subseteq NewFiles
    /\ sending \in Tasks \cup {NoTask}
    /\ pool \in Seq(Tasks)
    /\ thread \in [Threads -> [phase : Phases, file : Files \cup {NoFile},
                               bytes : Versions, target : Nat]]
    /\ active \in Nat
    /\ mount \in {"mounted", "waiting", "unmounted"}
    /\ last \in [Files -> Versions]
    /\ failed \subseteq Files
    /\ releases \in Versions

Init ==
    /\ drive = [f \in Files |-> IF f \in OldFiles THEN <<0>> ELSE <<>>]
    /\ real = [f \in Files |-> IF f \in OldFiles THEN 1 ELSE 0]
    /\ forgotten = {}
    /\ creator = NewFiles
    /\ sending = NoTask
    /\ pool = <<>>
    /\ thread = [t \in Threads |-> Resting]
    /\ active = 0
    /\ mount = "mounted"
    /\ last = [f \in Files |-> 0]
    /\ failed = {}
    /\ releases = 0

-----------------------------------------------------------------------------
(* release(): the counter goes up before the task is sent.                  *)

Released(f, create) ==
    /\ mount = "mounted" /\ sending = NoTask
    /\ releases < MaxReleases
    /\ releases' = releases + 1
    /\ sending' = [file |-> f, create |-> create, bytes |-> releases + 1]
    /\ last' = [last EXCEPT ![f] = releases + 1]
    /\ active' = active + 1
    /\ UNCHANGED <<drive, real, forgotten, pool, thread, mount, failed>>

\* The handle of create() does not follow the inode.
ReleaseCreated(f) ==
    /\ f \in creator
    /\ creator' = creator \ {f}
    /\ Released(f, TRUE)

\* A handle of open() does: the file may have become a real one by now.
ReleaseOpened(f) ==
    /\ Released(f, real[f] = 0)
    /\ UNCHANGED creator

\* Slip: the count is given back when the task is sent, not when it has run.
SendUncounted ==
    /\ sending # NoTask
    /\ pool' = Append(pool, sending)
    /\ sending' = NoTask
    /\ active' = active - 1
    /\ UNCHANGED <<drive, real, forgotten, creator, thread, mount, last,
                   failed, releases>>

Send ==
    /\ sending # NoTask
    /\ pool' = Append(pool, sending)
    /\ sending' = NoTask
    /\ UNCHANGED <<drive, real, forgotten, creator, thread, active, mount,
                   last, failed, releases>>

-----------------------------------------------------------------------------
(* The upload threads.                                                      *)

\* An upload of f that came before bytes is under way on a thread.
Before(f, bytes) ==
    \E t \in Threads : thread[t].file = f /\ thread[t].bytes < bytes

\* An update goes ahead, a creation sleeps so that renames come in.  Nothing in the
\* code keeps two uploads of a file apart: that is what a run without the race
\* rules out, here and in Settle.
Take(t) ==
    LET task == Head(pool)
    IN  /\ thread[t].phase = "idle" /\ pool # <<>>
        /\ pool' = Tail(pool)
        /\ "race" \in Disturbances \/ task.create \/ ~Before(task.file, task.bytes)
        /\ thread' = [thread EXCEPT ![t] =
              IF task.create THEN Working("settle", task.file, task.bytes, 0)
              ELSE Working("update", task.file, task.bytes, real[task.file])]
        /\ UNCHANGED <<drive, real, forgotten, creator, sending, active, mount,
                       last, failed, releases>>

\* Slip: no late promotion.
SettleBlind(t) ==
    LET f == thread[t].file
        b == thread[t].bytes
    IN  /\ thread[t].phase = "settle"
        /\ "race" \in Disturbances \/ ~Before(f, b)
        /\ thread' = [thread EXCEPT ![t] = Working("create", f, b, 0)]
        /\ UNCHANGED <<drive, real, forgotten, creator, sending, pool, active,
                       mount, last, failed, releases>>

\* Late promotion: a file that is on Drive by now is updated.
Settle(t) ==
    LET f == thread[t].file
        b == thread[t].bytes
    IN  /\ thread[t].phase = "settle"
        /\ "race" \in Disturbances \/ ~Before(f, b)
        /\ thread' = [thread EXCEPT ![t] =
              IF real[f] # 0 THEN Working("update", f, b, real[f])
              ELSE Working("create", f, b, 0)]
        /\ UNCHANGED <<drive, real, forgotten, creator, sending, pool, active,
                       mount, last, failed, releases>>

\* create_file: Drive makes a file ...
CreateFile(t) ==
    LET f == thread[t].file
        b == thread[t].bytes
    IN  /\ thread[t].phase = "create"
        /\ drive' = [drive EXCEPT ![f] = Append(@, b)]
        /\ thread' = [thread EXCEPT ![t] =
                         Working("replace", f, b, Len(drive[f]) + 1)]
        /\ UNCHANGED <<real, forgotten, creator, sending, pool, active, mount,
                       last, failed, releases>>

\* ... or refuses to.
CreateFails(t) ==
    /\ thread[t].phase = "create"
    /\ failed' = failed \cup {thread[t].file}
    /\ thread' = [thread EXCEPT ![t].phase = "remove"]
    /\ UNCHANGED <<drive, real, forgotten, creator, sending, pool, active,
                   mount, last, releases>>

\* replace_pending_id: the inode of the pending id, if it still has one.
Replace(t) ==
    LET f == thread[t].file
    IN  /\ thread[t].phase = "replace"
        /\ real' = IF real[f] = 0 /\ f \notin forgotten
                   THEN [real EXCEPT ![f] = thread[t].target] ELSE real
        /\ thread' = [thread EXCEPT ![t].phase = "done"]
        /\ UNCHANGED <<drive, forgotten, creator, sending, pool, active, mount,
                       last, failed, releases>>

\* Slip: a failed creation leaves its thread behind.
RemoveHangs(t) ==
    /\ thread[t].phase = "remove"
    /\ UNCHANGED vars

\* Slip: a failed creation counts down on its own.
RemoveCounted(t) ==
    /\ thread[t].phase = "remove"
    /\ thread' = [thread EXCEPT ![t].phase = "done"]
    /\ active' = active - 1
    /\ UNCHANGED <<drive, real, forgotten, creator, sending, pool, mount, last,
                   failed, releases>>

\* remove_pending_from_dir.
Remove(t) ==
    LET f == thread[t].file
    IN  /\ thread[t].phase = "remove"
        /\ forgotten' = IF real[f] = 0 THEN forgotten \cup {f} ELSE forgotten
        /\ thread' = [thread EXCEPT ![t].phase = "done"]
        /\ UNCHANGED <<drive, real, creator, sending, pool, active, mount,
                       last, failed, releases>>

\* update_file_content: the file on Drive has the content, or keeps its own.
Update(t) ==
    LET f == thread[t].file
    IN  /\ thread[t].phase = "update"
        /\ drive' = [drive EXCEPT ![f] =
                        [@ EXCEPT ![thread[t].target] = thread[t].bytes]]
        /\ thread' = [thread EXCEPT ![t].phase = "done"]
        /\ UNCHANGED <<real, forgotten, creator, sending, pool, active, mount,
                       last, failed, releases>>

UpdateFails(t) ==
    /\ thread[t].phase = "update"
    /\ failed' = failed \cup {thread[t].file}
    /\ thread' = [thread EXCEPT ![t].phase = "done"]
    /\ UNCHANGED <<drive, real, forgotten, creator, sending, pool, active,
                   mount, last, releases>>

\* The counter goes down on every path.
Done(t) ==
    /\ thread[t].phase = "done"
    /\ active' = active - 1
    /\ thread' = [thread EXCEPT ![t] = Resting]
    /\ UNCHANGED <<drive, real, forgotten, creator, sending, pool, mount, last,
                   failed, releases>>

-----------------------------------------------------------------------------
(* destroy(), called by the event loop when the file system is unmounted.   *)

Destroy ==
    /\ mount = "mounted" /\ sending = NoTask
    /\ mount' = IF active > 0 THEN "waiting" ELSE "unmounted"
    /\ UNCHANGED <<drive, real, forgotten, creator, sending, pool, thread,
                   active, last, failed, releases>>

Poll ==
    /\ mount = "waiting" /\ active = 0
    /\ mount' = "unmounted"
    /\ UNCHANGED <<drive, real, forgotten, creator, sending, pool, thread,
                   active, last, failed, releases>>

-----------------------------------------------------------------------------

Run(t) ==
    \/ Take(t) \/ Settle(t) \/ CreateFile(t) \/ CreateFails(t) \/ Replace(t)
    \/ Remove(t) \/ Update(t) \/ UpdateFails(t) \/ Done(t)
Next ==
    \/ \E f \in Files : ReleaseCreated(f) \/ ReleaseOpened(f)
    \/ Send \/ Destroy \/ Poll
    \/ \E t \in Threads : Run(t)

Spec == Init /\ [][Next]_vars

\* Threads run, requests to Drive end, destroy() polls.  Nobody has to unmount.
FairSpec ==
    /\ Spec
    /\ WF_vars(Send) /\ WF_vars(Poll)
    /\ \A t \in Threads : WF_vars(Run(t))

-----------------------------------------------------------------------------
(* Correctness.                                                             *)

Busy == {t \in Threads : thread[t].phase # "idle"}

\* A clean unmount abandons no write: once destroy() has returned, the inode of
\* every file that was closed leads to a Drive file with the content of its last
\* release, unless an upload of that file has failed (fuse_ops.rs 1598-1617), as
\* long as no upload overtakes an earlier one of the same file.
DestroyLosesNothing ==
    mount = "unmounted" =>
        \A f \in Files : last[f] # 0 /\ f \notin failed =>
            real[f] # 0 /\ drive[f][real[f]] = last[f]

\* Drive gets one file for every file the user has made: an upload finds it there
\* and updates "the existing file instead of creating a duplicate" (fuse_ops.rs
\* 1546-1567).  So it does when the uploads of a file run one after the other,
\* but the threads do not wait for each other: not with the race.
OneDriveFile == \A f \in Files \ failed : Len(drive[f]) <= 1

\* destroy() returns: no path through the pool leaks a count.
DestroyReturns == mount = "waiting" ~> mount = "unmounted"

===============================================================================
