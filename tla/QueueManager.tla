---------------------------- MODULE QueueManager ----------------------------
(***************************************************************************)
(* queue_manager.rs: five priority channels, one worker thread each, one   *)
(* map `tracking` that merges identical tasks, an epoch that discards the  *)
(* prefetch backlog, and a counter of direct uploads that pauses P3/P4.    *)
(*                                                                         *)
(* A step is what one thread does between two accesses to shared state.    *)
(* Names, HTTP bodies, delays and log lines are left out; a key stands for *)
(* a TaskKey and its data is only "absent", "fresh" or "expired".          *)
(***************************************************************************)
EXTENDS Naturals, Sequences, FiniteSets

CONSTANTS
    Callers,     \* threads that call enqueue / enqueue_and_wait
    DirKeys,     \* TaskKey::FetchDir(_)
    MetaKeys,    \* TaskKey::GetMetadata(_)
    FileKeys,    \* TaskKey::DownloadFile(_)
    NoKey,       \* "no task in hand"
    MaxEpoch,    \* bound: DirUrgent calls in a behaviour
    MaxUploads,  \* bound: direct uploads started in a behaviour
    MayEvict     \* whether other components drop cache entries

Keys == DirKeys \cup MetaKeys \cup FileKeys

ASSUME KeysAssumption ==
    /\ NoKey \notin Keys
    /\ DirKeys \cap MetaKeys = {}
    /\ DirKeys \cap FileKeys = {}
    /\ MetaKeys \cap FileKeys = {}
ASSUME BoundsAssumption ==
    MaxEpoch \in Nat /\ MaxUploads \in Nat /\ MayEvict \in BOOLEAN

VARIABLES
    caller,        \* caller[c]: where thread c is inside enqueue_inner / wait
    result,        \* result[c]: TaskCompletion.result of c's current handle
    tracked,       \* keys of the `tracking` map ...
    waiters,       \* ... and the completions stored under each
    channel,       \* channel[p]: the unbounded channel of priority p
    worker,        \* worker[p]: the loop of the worker of priority p
    cache,         \* what the ObjectManager holds for the key
    prefetchEpoch,
    activeUploads,
    uploadsStarted \* only to bound the uploads

vars == <<caller, result, tracked, waiters, channel, worker, cache,
          prefetchEpoch, activeUploads, uploadsStarted>>

Prefetch == {"DirPrefetch", "MetaPrefetch"}
Priority == {"DirUrgent", "MetaUrgent", "FileDownload"} \cup Prefetch

\* Every call site of fuse_ops.rs: which key at which priority, waiting or not.
Site ==
    [key : DirKeys, prio : {"DirUrgent", "DirPrefetch"}, wait : BOOLEAN]
    \cup [key : MetaKeys, prio : {"MetaUrgent"}, wait : {TRUE}]
    \cup [key : MetaKeys, prio : {"MetaPrefetch"}, wait : {FALSE}]
    \cup [key : FileKeys, prio : {"FileDownload"}, wait : {TRUE}]

Answers == {"listing", "notModified", "metadata", "content", "err"}
Task == [key : Keys, epoch : Nat]

Idle == [phase |-> "idle", key |-> NoKey, prio |-> "DirUrgent", wait |-> FALSE]

\* The top of the worker loop: only P3 and P4 are given the upload counter.
Resting(p) == [phase |-> IF p \in Prefetch THEN "pause" ELSE "recv",
               key |-> NoKey, epoch |-> 0, answer |-> "none", notify |-> {}]

\* Caller c, moved to another phase of the same call.
At(c, phase) == [phase |-> phase, key |-> caller[c].key,
                 prio |-> caller[c].prio, wait |-> caller[c].wait]

\* Worker p, moved to another phase with the same task and this answer.
With(p, phase, answer) ==
    [phase |-> phase, key |-> worker[p].key, epoch |-> worker[p].epoch,
     answer |-> answer, notify |-> {}]

WorkerPhase ==
    {"pause", "recv", "recheck", "epoch", "execute", "store", "remove", "notify"}

CallerState ==
    {Idle} \cup [phase : {"entry", "send", "wait", "read"},
                 key : Keys, prio : Priority, wait : BOOLEAN]
WorkerState ==
    [phase : WorkerPhase,
     key : Keys \cup {NoKey}, epoch : Nat,
     answer : Answers \cup {"none"}, notify : SUBSET Callers]

TypeOK ==
    /\ caller \in [Callers -> CallerState]
    /\ result \in [Callers -> Answers \cup {"none"}]
    /\ tracked \subseteq Keys
    /\ waiters \in [Keys -> SUBSET Callers]
    /\ channel \in [Priority -> Seq(Task)]
    /\ worker \in [Priority -> WorkerState]
    /\ cache \in [Keys -> {"absent", "fresh", "expired"}]
    /\ prefetchEpoch \in 0..MaxEpoch
    /\ uploadsStarted \in 0..MaxUploads
    /\ activeUploads \in 0..uploadsStarted

Init ==
    /\ caller = [c \in Callers |-> Idle]
    /\ result = [c \in Callers |-> "none"]
    /\ tracked = {}
    /\ waiters = [k \in Keys |-> {}]
    /\ channel = [p \in Priority |-> <<>>]
    /\ worker = [p \in Priority |-> Resting(p)]
    /\ cache = [k \in Keys |-> "absent"]
    /\ prefetchEpoch = 0
    /\ activeUploads = 0
    /\ uploadsStarted = 0

-----------------------------------------------------------------------------
(* enqueue / enqueue_and_wait, by a FUSE, reply or prefetch thread.         *)

\* TaskCompletion::new, then the epoch bump of a DirUrgent call.
Call(c, s) ==
    /\ caller[c].phase = "idle"
    /\ s.prio = "DirUrgent" => prefetchEpoch < MaxEpoch
    /\ prefetchEpoch' = prefetchEpoch + (IF s.prio = "DirUrgent" THEN 1 ELSE 0)
    /\ caller' = [caller EXCEPT ![c] = [phase |-> "entry", key |-> s.key,
                                        prio |-> s.prio, wait |-> s.wait]]
    /\ UNCHANGED <<result, tracked, waiters, channel, worker, cache,
                   activeUploads, uploadsStarted>>

\* Where a caller goes once its task is somebody's business.
Enqueued(c) ==
    IF caller[c].wait THEN At(c, "wait") ELSE Idle

\* Slip: Occupied replaces the list of handles instead of pushing onto it.
AttachOverwrites(c) ==
    /\ caller[c].phase = "entry"
    /\ caller[c].key \in tracked
    /\ waiters' = IF caller[c].wait
                  THEN [waiters EXCEPT ![caller[c].key] = {c}]
                  ELSE waiters
    /\ caller' = [caller EXCEPT ![c] = Enqueued(c)]
    /\ UNCHANGED <<result, tracked, channel, worker, cache, prefetchEpoch,
                   activeUploads, uploadsStarted>>

\* Slip: the early return of Occupied is missing, the task is sent again.
AttachSends(c) ==
    /\ caller[c].phase = "entry"
    /\ caller[c].key \in tracked
    /\ waiters' = IF caller[c].wait
                  THEN [waiters EXCEPT ![caller[c].key] = @ \cup {c}]
                  ELSE waiters
    /\ caller' = [caller EXCEPT ![c] = At(c, "send")]
    /\ UNCHANGED <<result, tracked, channel, worker, cache, prefetchEpoch,
                   activeUploads, uploadsStarted>>

\* tracking.entry: Occupied attaches the handle and returns.
Attach(c) ==
    /\ caller[c].phase = "entry"
    /\ caller[c].key \in tracked
    /\ waiters' = IF caller[c].wait
                  THEN [waiters EXCEPT ![caller[c].key] = @ \cup {c}]
                  ELSE waiters
    /\ caller' = [caller EXCEPT ![c] = Enqueued(c)]
    /\ UNCHANGED <<result, tracked, channel, worker, cache, prefetchEpoch,
                   activeUploads, uploadsStarted>>

\* Slip: a plain insert in the place of the entry API.
InsertUnguarded(c) ==
    /\ caller[c].phase = "entry"
    /\ tracked' = tracked \cup {caller[c].key}
    /\ waiters' = [waiters EXCEPT ![caller[c].key] =
                      IF caller[c].wait THEN {c} ELSE {}]
    /\ caller' = [caller EXCEPT ![c] = At(c, "send")]
    /\ UNCHANGED <<result, channel, worker, cache, prefetchEpoch,
                   activeUploads, uploadsStarted>>

\* tracking.entry: Vacant inserts the handle, or an empty list.
Insert(c) ==
    /\ caller[c].phase = "entry"
    /\ caller[c].key \notin tracked
    /\ tracked' = tracked \cup {caller[c].key}
    /\ waiters' = [waiters EXCEPT ![caller[c].key] =
                      IF caller[c].wait THEN {c} ELSE {}]
    /\ caller' = [caller EXCEPT ![c] = At(c, "send")]
    /\ UNCHANGED <<result, channel, worker, cache, prefetchEpoch,
                   activeUploads, uploadsStarted>>

\* The epoch stamp and the send.  They are one step: the task is invisible
\* before the send, and a bump between the two is the same as one after both.
Send(c) ==
    /\ caller[c].phase = "send"
    /\ LET prio == caller[c].prio
           task == [key |-> caller[c].key,
                    epoch |-> IF prio \in Prefetch THEN prefetchEpoch ELSE 0]
       IN  channel' = [channel EXCEPT ![prio] = Append(@, task)]
    /\ caller' = [caller EXCEPT ![c] = Enqueued(c)]
    /\ UNCHANGED <<result, tracked, waiters, worker, cache, prefetchEpoch,
                   activeUploads, uploadsStarted>>

\* TaskCompletion::wait takes the result; an Err ends the FUSE request.
Wake(c) ==
    /\ caller[c].phase = "wait"
    /\ result[c] # "none"
    /\ result' = [result EXCEPT ![c] = "none"]
    /\ caller' = [caller EXCEPT ![c] =
                     IF result[c] = "err" THEN Idle
                     ELSE At(c, "read")]
    /\ UNCHANGED <<tracked, waiters, channel, worker, cache, prefetchEpoch,
                   activeUploads, uploadsStarted>>

\* The woken thread re-reads the cache (get_dir_files, get_metadata,
\* get_content) and replies: the data, or EIO when the entry is absent.
Read(c) ==
    /\ caller[c].phase = "read"
    /\ caller' = [caller EXCEPT ![c] = Idle]
    /\ UNCHANGED <<result, tracked, waiters, channel, worker, cache,
                   prefetchEpoch, activeUploads, uploadsStarted>>

-----------------------------------------------------------------------------
(* spawn_worker / run_task, by the worker of priority p.                    *)

\* P3 and P4 spin at the top of the loop while a direct upload is active.
PassPause(p) ==
    /\ worker[p].phase = "pause"
    /\ activeUploads = 0
    /\ worker' = [worker EXCEPT ![p] = With(p, "recv", "none")]
    /\ UNCHANGED <<caller, result, tracked, waiters, channel, cache,
                   prefetchEpoch, activeUploads, uploadsStarted>>

\* recv_timeout gives up on an empty channel (for P0..P2 this changes nothing).
Timeout(p) ==
    /\ p \in Prefetch
    /\ worker[p].phase = "recv"
    /\ channel[p] = <<>>
    /\ worker' = [worker EXCEPT ![p] = With(p, "pause", "none")]
    /\ UNCHANGED <<caller, result, tracked, waiters, channel, cache,
                   prefetchEpoch, activeUploads, uploadsStarted>>

\* A worker that has just received this task.
Holding(task, phase) ==
    [phase |-> phase, key |-> task.key, epoch |-> task.epoch,
     answer |-> "none", notify |-> {}]

\* Slip: every worker is given the upload counter.
ReceivePausing(p) ==
    /\ worker[p].phase = "recv"
    /\ channel[p] # <<>>
    /\ worker' = [worker EXCEPT ![p] = Holding(Head(channel[p]), "recheck")]
    /\ channel' = [channel EXCEPT ![p] = Tail(@)]
    /\ UNCHANGED <<caller, result, tracked, waiters, cache, prefetchEpoch,
                   activeUploads, uploadsStarted>>

\* P0..P2 have neither an upload counter nor an epoch guard: they go ahead.
Receive(p) ==
    /\ worker[p].phase = "recv"
    /\ channel[p] # <<>>
    /\ worker' = [worker EXCEPT ![p] =
          Holding(Head(channel[p]), IF p \in Prefetch THEN "recheck" ELSE "execute")]
    /\ channel' = [channel EXCEPT ![p] = Tail(@)]
    /\ UNCHANGED <<caller, result, tracked, waiters, cache, prefetchEpoch,
                   activeUploads, uploadsStarted>>

\* The upload counter again, after the wait on the channel.
RecheckPause(p) ==
    /\ worker[p].phase = "recheck"
    /\ activeUploads = 0
    /\ worker' = [worker EXCEPT ![p] = With(p, "epoch", "none")]
    /\ UNCHANGED <<caller, result, tracked, waiters, channel, cache,
                   prefetchEpoch, activeUploads, uploadsStarted>>

\* Slip: a discarded task is dropped without touching `tracking`.
DiscardForgets(p) ==
    /\ worker[p].phase = "epoch"
    /\ worker[p].epoch < prefetchEpoch
    /\ worker' = [worker EXCEPT ![p] = Resting(p)]
    /\ UNCHANGED <<caller, result, tracked, waiters, channel, cache,
                   prefetchEpoch, activeUploads, uploadsStarted>>

\* An outdated prefetch is not executed: its waiters will read NotModified.
Discard(p) ==
    /\ worker[p].phase = "epoch"
    /\ worker[p].epoch < prefetchEpoch
    /\ worker' = [worker EXCEPT ![p] = With(p, "remove", "notModified")]
    /\ UNCHANGED <<caller, result, tracked, waiters, channel, cache,
                   prefetchEpoch, activeUploads, uploadsStarted>>

Accept(p) ==
    /\ worker[p].phase = "epoch"
    /\ worker[p].epoch >= prefetchEpoch
    /\ worker' = [worker EXCEPT ![p] = With(p, "execute", "none")]
    /\ UNCHANGED <<caller, result, tracked, waiters, channel, cache,
                   prefetchEpoch, activeUploads, uploadsStarted>>

\* What Drive can make of a task: a listing past its TTL is revalidated and
\* may come back unmodified, everything can fail.
Outcomes(k) ==
    {"err"}
    \cup (IF k \in DirKeys THEN {"listing"} ELSE {})
    \cup (IF k \in DirKeys /\ cache[k] = "expired" THEN {"notModified"} ELSE {})
    \cup (IF k \in MetaKeys THEN {"metadata"} ELSE {})
    \cup (IF k \in FileKeys THEN {"content"} ELSE {})

Execute(p) ==
    /\ worker[p].phase = "execute"
    /\ \E a \in Outcomes(worker[p].key) :
          worker' = [worker EXCEPT ![p] = With(p, "store", a)]
    /\ UNCHANGED <<caller, result, tracked, waiters, channel, cache,
                   prefetchEpoch, activeUploads, uploadsStarted>>

\* Slip: the match in run_task has no arm for downloaded content.
StoreWithoutContent(p) ==
    /\ worker[p].phase = "store"
    /\ cache' = IF worker[p].answer \in {"err", "content", "notModified"} THEN cache
                ELSE [cache EXCEPT ![worker[p].key] = "fresh"]
    /\ worker' = [worker EXCEPT ![p] = With(p, "remove", worker[p].answer)]
    /\ UNCHANGED <<caller, result, tracked, waiters, channel, prefetchEpoch,
                   activeUploads, uploadsStarted>>

\* store_dir_listing, store_metadata, store_content; touch_dir for a 304,
\* which does nothing when the entry is gone.
Store(p) ==
    /\ worker[p].phase = "store"
    /\ LET k == worker[p].key
           gone == worker[p].answer = "notModified" /\ cache[k] = "absent"
       IN  cache' = IF worker[p].answer = "err" \/ gone THEN cache
                    ELSE [cache EXCEPT ![k] = "fresh"]
    /\ worker' = [worker EXCEPT ![p] = With(p, "remove", worker[p].answer)]
    /\ UNCHANGED <<caller, result, tracked, waiters, channel, prefetchEpoch,
                   activeUploads, uploadsStarted>>

\* The worker with these handles still to complete: with none left, run_task
\* returns and the loop starts over.
Notifying(p, handles) ==
    IF handles = {} THEN Resting(p)
    ELSE [phase |-> "notify", key |-> worker[p].key, epoch |-> worker[p].epoch,
          answer |-> worker[p].answer, notify |-> handles]

\* tracking.remove: the worker leaves with every handle stored so far.
Remove(p) ==
    /\ worker[p].phase = "remove"
    /\ tracked' = tracked \ {worker[p].key}
    /\ waiters' = [waiters EXCEPT ![worker[p].key] = {}]
    /\ worker' = [worker EXCEPT ![p] = Notifying(p, waiters[worker[p].key])]
    /\ UNCHANGED <<caller, result, channel, cache, prefetchEpoch,
                   activeUploads, uploadsStarted>>

\* TaskCompletion::complete on one of the handles.
Complete(p, c) ==
    /\ worker[p].phase = "notify"
    /\ c \in worker[p].notify
    /\ result' = [result EXCEPT ![c] = worker[p].answer]
    /\ worker' = [worker EXCEPT ![p] = Notifying(p, worker[p].notify \ {c})]
    /\ UNCHANGED <<caller, tracked, waiters, channel, cache, prefetchEpoch,
                   activeUploads, uploadsStarted>>

-----------------------------------------------------------------------------
(* The rest of the program, as far as the queue sees it.                    *)

\* Direct uploads of release().
StartUpload ==
    /\ uploadsStarted < MaxUploads
    /\ uploadsStarted' = uploadsStarted + 1
    /\ activeUploads' = activeUploads + 1
    /\ UNCHANGED <<caller, result, tracked, waiters, channel, worker, cache,
                   prefetchEpoch>>

\* Slip: a return path of the upload closure without its fetch_sub ...
EndUploadForgets == activeUploads > 0 /\ UNCHANGED vars

\* ... and one that runs it twice.
EndUploadTwice ==
    /\ activeUploads > 0
    /\ activeUploads' = activeUploads - 2
    /\ UNCHANGED <<caller, result, tracked, waiters, channel, worker, cache,
                   prefetchEpoch, uploadsStarted>>

EndUpload ==
    /\ activeUploads > 0
    /\ activeUploads' = activeUploads - 1
    /\ UNCHANGED <<caller, result, tracked, waiters, channel, worker, cache,
                   prefetchEpoch, uploadsStarted>>

\* A listing passes its TTL.
Expire(k) ==
    /\ k \in DirKeys
    /\ cache[k] = "fresh"
    /\ cache' = [cache EXCEPT ![k] = "expired"]
    /\ UNCHANGED <<caller, result, tracked, waiters, channel, worker,
                   prefetchEpoch, activeUploads, uploadsStarted>>

\* invalidate_dir, remove_metadata, the limits of the content cache.
Evict(k) ==
    /\ MayEvict
    /\ cache[k] # "absent"
    /\ cache' = [cache EXCEPT ![k] = "absent"]
    /\ UNCHANGED <<caller, result, tracked, waiters, channel, worker,
                   prefetchEpoch, activeUploads, uploadsStarted>>

-----------------------------------------------------------------------------
\* What a thread does once it is inside enqueue / enqueue_and_wait.
CallerStep(c) == Attach(c) \/ Insert(c) \/ Send(c) \/ Wake(c) \/ Read(c)

WorkerStep(p) ==
    \/ PassPause(p) \/ Timeout(p) \/ Receive(p) \/ RecheckPause(p)
    \/ Discard(p) \/ Accept(p) \/ Execute(p) \/ Store(p) \/ Remove(p)
    \/ \E c \in Callers : Complete(p, c)

Next ==
    \/ \E c \in Callers, s \in Site : Call(c, s)
    \/ \E c \in Callers : CallerStep(c)
    \/ \E p \in Priority : WorkerStep(p)
    \/ StartUpload \/ EndUpload
    \/ \E k \in Keys : Expire(k) \/ Evict(k)

Spec == Init /\ [][Next]_vars

\* Threads that can run do run; nobody has to call.
ThreadFairness ==
    /\ \A c \in Callers : WF_vars(CallerStep(c))
    /\ \A p \in Priority : WF_vars(WorkerStep(p))

\* Every HTTP upload ends, by its answer or by its timeout.
UploadFairness == WF_vars(EndUpload)

FairSpec == Spec /\ ThreadFairness /\ UploadFairness
ThreadFairSpec == Spec /\ ThreadFairness

-----------------------------------------------------------------------------
(* Correctness.                                                             *)

\* Who is responsible for task k: the thread that inserted it and has not sent
\* it yet, a place in a channel, a worker that has received it.
Owners(k) ==
    {<<"caller", c>> : c \in {c \in Callers :
                                caller[c].phase = "send" /\ caller[c].key = k}}
    \cup (UNION {{<<"channel", p, i>> : i \in {i \in DOMAIN channel[p] :
                                channel[p][i].key = k}} : p \in Priority})
    \cup {<<"worker", p>> : p \in {p \in Priority :
                                worker[p].key = k /\ worker[p].phase # "notify"}}

\* A key is in `tracking` exactly while one owner has it: the entry can neither
\* outlive its task (later callers would attach and hang for ever) nor be
\* missing while the task runs (the task would be fetched from Drive twice).
OneOwnerPerTask ==
    \A k \in Keys :
        /\ k \in tracked <=> Owners(k) # {}
        /\ \A o1, o2 \in Owners(k) : o1 = o2

\* Where the TaskCompletion of caller c can be found.
Handles(c) ==
    {<<"waiters", k>> : k \in {k \in tracked : c \in waiters[k]}}
    \cup {<<"notify", p>> : p \in {p \in Priority : c \in worker[p].notify}}
    \cup (IF result[c] # "none" THEN {<<"result">>} ELSE {})

\* A blocked thread has its handle in one place from which it will be answered,
\* with the key it asked for; a thread that is not blocked is referenced nowhere.
NoLostWaiter ==
    \A c \in Callers :
        /\ \A h1, h2 \in Handles(c) : h1 = h2
        /\ Handles(c) # {} <=>
              caller[c].wait /\ caller[c].phase \in {"send", "wait"}
        /\ \A k \in Keys : c \in waiters[k] => k = caller[c].key
        /\ \A p \in Priority : c \in worker[p].notify => worker[p].key = caller[c].key

\* A thread woken for a download finds it when it looks in the cache again
\* (get_content after enqueue_and_wait), as long as nothing is evicted.  That rests
\* on store before remove and remove before complete, and on every answer coming
\* from an execution: a listing that is discarded as stale is answered without one.
DownloadIsCached ==
    \A c \in Callers :
        caller[c].phase = "read" /\ caller[c].key \in FileKeys
            => cache[caller[c].key] # "absent"

\* Every enqueue_and_wait returns, whichever task it was attached to.
EveryWaitReturns ==
    \A c \in Callers : caller[c].phase = "wait" ~> caller[c].phase # "wait"

\* "a slow file download can never delay a directory listing": with uploads
\* that never end, P2's own callers, who share no key with a prefetch, return.
DownloadsNeverHeldByUploads ==
    \A c \in Callers : (caller[c].phase = "wait" /\ caller[c].key \in FileKeys)
                          ~> caller[c].phase # "wait"

-----------------------------------------------------------------------------
(* What it implements.                                                      *)

\* A flight of the abstract specification is an entry of `tracking`.  It is
\* decided from execute_task's return, or from the epoch check that discards it,
\* until the entry is removed; a caller is answered from the removal that found
\* its handle until it takes the result.
Flight == INSTANCE SingleFlight WITH
    inFlight <- tracked,
    decided  <- {k \in Keys : \E p \in Priority :
                    /\ worker[p].key = k
                    /\ \/ worker[p].phase = "store"
                       \/ worker[p].phase = "remove"},
    aboard   <- waiters,
    answered <- {c \in Callers :
                    result[c] # "none" \/ \E p \in Priority : c \in worker[p].notify}

\* Identical requests share one Drive call and are all answered, once
\* (enqueue_inner, run_task).
RefinesSingleFlight == Flight!Spec

\* ... and under the threads' fairness every flight lands.
RefinesFairSingleFlight == Flight!FairSpec

=============================================================================
