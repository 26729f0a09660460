-------------------------- MODULE DirectUploadsProofs --------------------------
(***************************************************************************)
(* What TLAPS proves about DirectUploads, for any files, any number of     *)
(* upload threads and of releases.                                         *)
(*                                                                         *)
(* The types and the counter of uploads are right whatever overtakes what. *)
(* That Drive gets one file, and that destroy() returns with every last    *)
(* content on Drive, is proved for uploads of one file that keep their     *)
(* order: the releases are numbered, and the invariant says that pool and  *)
(* threads have them in that order (InOrder), so that one upload of a file *)
(* at a time is beyond its settling delay (Alone).                         *)
(***************************************************************************)
EXTENDS DirectUploads, FiniteSetTheorems, TLAPS

Queued == 1..Len(pool)

\* The phase of a thread tells what its record holds ...
ThreadShape == \A t \in Threads :
    /\ thread[t].phase = "idle" <=> thread[t].file = NoFile
    /\ thread[t].phase \in {"replace", "update"} =>
          thread[t].target \in 1..Len(drive[thread[t].file])

\* ... and only a file on Drive, as the old ones are, is updated.
TaskShape ==
    /\ \A f \in OldFiles : real[f] # 0
    /\ sending # NoTask /\ ~sending.create => real[sending.file] # 0
    /\ \A i \in Queued : ~pool[i].create => real[pool[i].file] # 0

\* The counter counts the release() that has not sent yet, the tasks in the pool,
\* and the threads that have one.
Counted ==
    active = Cardinality(Busy) + Len(pool) + (IF sending = NoTask THEN 0 ELSE 1)

\* The event loop releases nothing once destroy() runs, which waits for zero.
MountShape ==
    /\ mount # "mounted" => sending = NoTask
    /\ mount = "unmounted" => active = 0

TypeInv == TypeOK /\ ThreadShape /\ TaskShape /\ Counted /\ MountShape

\* Releases are numbered in the order of time; so are the tasks on their way
\* from release() through the pool to the threads.
InOrder ==
    /\ \A f \in Files : last[f] <= releases
    /\ sending # NoTask =>
          /\ sending.bytes = last[sending.file]
          /\ \A i \in Queued : pool[i].bytes < sending.bytes
          /\ \A t \in Busy : thread[t].bytes < sending.bytes
    /\ \A i \in Queued :
          /\ pool[i].bytes <= last[pool[i].file]
          /\ \A j \in Queued : i < j => pool[i].bytes < pool[j].bytes
          /\ \A t \in Busy : thread[t].bytes < pool[i].bytes
    /\ \A t \in Busy :
          /\ thread[t].bytes <= last[thread[t].file]
          /\ \A s \in Busy \ {t} : thread[s].bytes # thread[t].bytes

Begun(t) == thread[t].phase \in Phases \ {"idle", "settle"}

\* An upload that is past its settling delay is the oldest of its file.
Alone ==
    \A t, s \in Threads :
        Begun(t) /\ s # t /\ thread[s].file = thread[t].file =>
            thread[t].bytes < thread[s].bytes

\* What a thread has decided still goes for the file.
DecidedBy(t) ==
    LET f == thread[t].file
    IN  /\ thread[t].phase \in {"create", "replace", "remove"} => real[f] = 0
        /\ thread[t].phase = "update" => thread[t].target = real[f]
        /\ thread[t].phase = "remove" => f \in failed
        /\ thread[t].phase = "replace" =>
              drive[f][thread[t].target] = thread[t].bytes

Decided == \A t \in Threads : DecidedBy(t)

\* The pending id of a file whose uploads have not failed has its inode, and
\* Drive has no file for it, or its thread is about to tell the object manager.
LinkedFile(f) ==
    real[f] = 0 => \/ drive[f] = <<>>
                   \/ \E t \in Threads : /\ thread[t].phase = "replace"
                                         /\ thread[t].file = f

Linked == forgotten \subseteq failed /\ \A f \in Files \ failed : LinkedFile(f)

\* The release b of f has not been taken to Drive yet.
OnItsWay(f, b) ==
    \/ sending.file = f /\ sending.bytes = b
    \/ \E i \in Queued : pool[i].file = f /\ pool[i].bytes = b
    \/ \E t \in Threads : /\ thread[t].file = f /\ thread[t].bytes = b
                          /\ thread[t].phase # "done"

\* Nothing will change what Drive has for f.
Settled(f) ==
    /\ sending.file # f
    /\ \A i \in Queued : pool[i].file # f
    /\ \A t \in Threads : thread[t].file = f => thread[t].phase = "done"

\* The last content of a file is on its way, or has arrived to stay.
Delivered ==
    \A f \in Files \ failed : last[f] # 0 =>
        \/ OnItsWay(f, last[f])
        \/ Settled(f) /\ real[f] # 0 /\ drive[f][real[f]] = last[f]

IndInv ==
    /\ TypeInv
    /\ InOrder /\ Alone /\ Decided /\ Linked /\ OneDriveFile /\ Delivered

-----------------------------------------------------------------------------
(* Types and the counter.                                                   *)

LEMMA NameFacts ==
  /\ OldFiles \cap NewFiles = {} /\ NoFile \notin Files
  /\ MaxReleases \in Nat /\ NoTask \notin Tasks /\ 0 \in Versions
  /\ Versions \subseteq Nat
BY FilesAssumption, BoundsAssumption DEF Files, Tasks, NoTask, Versions

\* The record of one thread, and of the others.
LEMMA ThreadNow ==
  ASSUME TypeOK, NEW t \in Threads, NEW r, thread' = [thread EXCEPT ![t] = r]
  PROVE  /\ thread'[t] = r
         /\ \A s \in Threads \ {t} : thread'[s] = thread[s]
BY DEF TypeOK

LEMMA ThreadPhase ==
  ASSUME TypeOK, NEW t \in Threads, NEW ph, thread' = [thread EXCEPT ![t].phase = ph]
  PROVE  /\ thread'[t].phase = ph /\ thread'[t].file = thread[t].file
         /\ thread'[t].bytes = thread[t].bytes
         /\ thread'[t].target = thread[t].target
         /\ \A s \in Threads \ {t} : thread'[s] = thread[s]
BY DEF TypeOK

\* The set of busy threads can be counted.
LEMMA BusyFacts ==
  /\ IsFiniteSet(Busy) /\ Cardinality(Busy) \in Nat
  /\ \A t \in Busy : Cardinality(Busy) >= 1
<1>1. Busy \subseteq Threads /\ IsFiniteSet(Threads)
  BY ThreadsAssumption DEF Busy
<1>2. IsFiniteSet(Busy)
  BY <1>1, FS_Subset
<1>3. Cardinality(Busy) \in Nat
  BY <1>2, FS_CardinalityType
<1>4. Cardinality(Busy) = 0 => Busy = {}
  BY <1>2, FS_EmptySet
<1> QED BY <1>2, <1>3, <1>4

\* What a release() does to the variables of the types.
LEMMA TypeRelease ==
  ASSUME TypeInv, NEW f \in Files, ReleaseCreated(f) \/ ReleaseOpened(f)
  PROVE  TypeInv'
<1>1. PICK create \in BOOLEAN :
        Released(f, create) /\ (~create => real[f] # 0)
  BY DEF ReleaseCreated, ReleaseOpened
<1>2. /\ sending' = [file |-> f, create |-> create, bytes |-> releases + 1]
      /\ sending = NoTask /\ mount = "mounted" /\ releases < MaxReleases
      /\ releases' = releases + 1 /\ active' = active + 1
      /\ last' = [last EXCEPT ![f] = releases + 1]
      /\ UNCHANGED <<drive, real, forgotten, pool, thread, mount, failed>>
  BY <1>1 DEF Released
<1>3. releases + 1 \in Versions /\ sending' \in Tasks /\ sending' # NoTask
  BY <1>2, NameFacts DEF Tasks, NoTask, TypeInv, TypeOK, Versions
<1>4. creator' \subseteq NewFiles
  BY DEF ReleaseCreated, ReleaseOpened, TypeInv, TypeOK
<1>5. TypeOK'
  BY <1>2, <1>3, <1>4 DEF TypeInv, TypeOK
<1>6. ThreadShape' /\ TaskShape'
  BY <1>1, <1>2, <1>3 DEF TypeInv, ThreadShape, TaskShape, Queued
<1>7. Counted'
  BY <1>2, <1>3, BusyFacts DEF TypeInv, TypeOK, Counted, Busy
<1>8. MountShape'
  BY <1>2 DEF TypeInv, MountShape
<1> QED BY <1>5, <1>6, <1>7, <1>8 DEF TypeInv

LEMMA TypeSend ==
  ASSUME TypeInv, Send
  PROVE  /\ TypeInv'
         /\ pool' \in Seq(Tasks) /\ Len(pool') = Len(pool) + 1
         /\ pool'[Len(pool) + 1] = sending
         /\ \A i \in Queued : pool'[i] = pool[i]
<1>1. /\ sending \in Tasks /\ sending # NoTask /\ pool \in Seq(Tasks)
      /\ pool' = Append(pool, sending) /\ sending' = NoTask
      /\ UNCHANGED <<drive, real, forgotten, creator, thread, active, mount,
                     last, failed, releases>>
  BY DEF TypeInv, TypeOK, Send
<1>2. /\ pool' \in Seq(Tasks) /\ Len(pool') = Len(pool) + 1
      /\ pool'[Len(pool) + 1] = sending
      /\ \A i \in Queued : pool'[i] = pool[i]
  BY <1>1 DEF Queued
<1>3. TypeOK'
  BY <1>1, <1>2 DEF TypeInv, TypeOK
<1>4. ThreadShape' /\ MountShape'
  BY <1>1 DEF TypeInv, ThreadShape, MountShape
<1>5. TaskShape'
  <2>1. \A i \in Queued' : i \in Queued \/ i = Len(pool) + 1
    BY <1>1, <1>2 DEF Queued
  <2> QED BY <1>1, <1>2, <2>1 DEF TypeInv, TaskShape
<1>6. Counted'
  BY <1>1, <1>2, BusyFacts DEF TypeInv, TypeOK, Counted, Busy
<1> QED BY <1>2, <1>3, <1>4, <1>5, <1>6 DEF TypeInv

\* A thread that is on its way to other phases stays busy.
LEMMA SameBusy ==
  ASSUME TypeOK, NEW t \in Threads,
         \A s \in Threads \ {t} : thread'[s] = thread[s],
         thread[t].phase # "idle", thread'[t].phase # "idle"
  PROVE  Busy' = Busy
BY DEF Busy

LEMMA TypeTake ==
  ASSUME TypeInv, NEW t \in Threads, Take(t)
  PROVE  /\ TypeInv'
         /\ pool \in Seq(Tasks) /\ pool # <<>> /\ Len(pool) \in Nat \ {0}
         /\ Len(pool') = Len(pool) - 1
         /\ \A i \in Queued' : i + 1 \in Queued /\ pool'[i] = pool[i + 1]
         /\ Busy' = Busy \cup {t} /\ t \notin Busy
         /\ 1 \in Queued /\ pool[1] \in Tasks
         /\ thread'[t].file = pool[1].file /\ thread'[t].bytes = pool[1].bytes
         /\ thread'[t].phase = IF pool[1].create THEN "settle" ELSE "update"
         /\ ~pool[1].create => thread'[t].target = real[pool[1].file]
         /\ \A s \in Threads \ {t} : thread'[s] = thread[s]
<1> DEFINE task == pool[1]
           new == IF task.create THEN Working("settle", task.file, task.bytes, 0)
                  ELSE Working("update", task.file, task.bytes, real[task.file])
<1>1. /\ pool \in Seq(Tasks) /\ pool # <<>> /\ pool' = Tail(pool)
      /\ thread[t].phase = "idle" /\ Head(pool) = task
      /\ thread' = [thread EXCEPT ![t] = new]
      /\ UNCHANGED <<drive, real, forgotten, creator, sending, active, mount,
                     last, failed, releases>>
  <2>1. pool \in Seq(Tasks) /\ pool # <<>> /\ Head(pool) = task
    BY DEF TypeInv, TypeOK, Take
  <2> QED BY <2>1 DEF Take
<1>2. /\ Len(pool) \in Nat \ {0} /\ task \in Tasks /\ 1 \in Queued
      /\ pool' \in Seq(Tasks) /\ Len(pool') = Len(pool) - 1
      /\ \A i \in Queued' : i + 1 \in Queued /\ pool'[i] = pool[i + 1]
  BY <1>1 DEF Queued
<1>3. /\ thread'[t] = new
      /\ \A s \in Threads \ {t} : thread'[s] = thread[s]
  <2> HIDE DEF new
  <2>1. TypeOK /\ thread' = [thread EXCEPT ![t] = new]
    BY <1>1 DEF TypeInv
  <2> QED BY <2>1, ThreadNow
<1>4. /\ thread'[t].file = task.file /\ thread'[t].bytes = task.bytes
      /\ thread'[t].phase = IF task.create THEN "settle" ELSE "update"
      /\ ~task.create => thread'[t].target = real[task.file]
  BY <1>3 DEF Working
<1>5. task.file \in Files /\ task.bytes \in Versions /\ task.create \in BOOLEAN
  BY <1>2 DEF Tasks
<1>6. real[task.file] \in Nat /\ real[task.file] \in 0..Len(drive[task.file])
  BY <1>5 DEF TypeInv, TypeOK
<1>7. new \in [phase : Phases, file : Files \cup {NoFile}, bytes : Versions,
               target : Nat]
  BY <1>5, <1>6 DEF Working, Phases
<1>8. TypeOK'
  BY <1>1, <1>2, <1>7 DEF TypeInv, TypeOK
<1>9. ~task.create => real[task.file] # 0
  BY <1>2 DEF TypeInv, TaskShape
<1>10. Len(drive[task.file]) \in Nat
  BY <1>5 DEF TypeInv, TypeOK
<1>11. ThreadShape'
  <2>1. thread'[t].phase = "update" =>
           thread'[t].target \in 1..Len(drive[thread'[t].file])
    BY <1>4, <1>6, <1>9, <1>10
  <2>2. thread'[t].phase # "idle" /\ thread'[t].phase # "replace"
        /\ thread'[t].file # NoFile
    BY <1>4, <1>5, NameFacts
  <2> QED BY <1>1, <1>3, <2>1, <2>2 DEF TypeInv, ThreadShape
<1>12. TaskShape' /\ MountShape'
  BY <1>1, <1>2 DEF TypeInv, TaskShape, MountShape
<1>13. Busy' = Busy \cup {t} /\ t \notin Busy
  BY <1>1, <1>3, <1>4 DEF Busy
<1>14. Cardinality(Busy') = Cardinality(Busy) + 1
  BY <1>13, BusyFacts, FS_AddElement
<1>15. Counted'
  BY <1>1, <1>2, <1>14, BusyFacts DEF TypeInv, TypeOK, Counted
<1> QED
  BY <1>1, <1>2, <1>3, <1>4, <1>8, <1>11, <1>12, <1>13, <1>15 DEF TypeInv

\* The steps of an upload between the pool and the counting down.
Work(t) ==
    \/ Settle(t) \/ CreateFile(t) \/ CreateFails(t) \/ Replace(t)
    \/ Remove(t) \/ Update(t) \/ UpdateFails(t)

\* What they have in common.
LEMMA WorkFrame ==
  ASSUME TypeInv, NEW t \in Threads, Work(t)
  PROVE  /\ UNCHANGED <<sending, pool, last, releases, active, mount, creator>>
         /\ thread[t].phase \notin {"idle", "done"} /\ thread'[t].phase # "idle"
         /\ thread[t].file \in Files /\ thread[t].bytes \in Versions
         /\ thread'[t].file = thread[t].file /\ thread'[t].bytes = thread[t].bytes
         /\ \A s \in Threads \ {t} : thread'[s] = thread[s]
<1> DEFINE f == thread[t].file
           b == thread[t].bytes
<1>1. UNCHANGED <<sending, pool, last, releases, active, mount, creator>>
  BY DEF Work, Settle, CreateFile, CreateFails, Replace, Remove, Update, UpdateFails
<1>2. thread[t].phase \notin {"idle", "done"}
  BY DEF Work, Settle, CreateFile, CreateFails, Replace, Remove, Update, UpdateFails
<1>3. thread[t].file \in Files /\ thread[t].bytes \in Versions
  BY <1>2 DEF TypeInv, TypeOK, ThreadShape
<1>4. CASE \E ph \in {"done", "remove"} : thread' = [thread EXCEPT ![t].phase = ph]
  BY <1>1, <1>2, <1>3, <1>4, ThreadPhase DEF TypeInv
<1>5. ASSUME NEW ph \in {"create", "replace", "update"}, NEW n,
             thread' = [thread EXCEPT ![t] = Working(ph, f, b, n)]
      PROVE  /\ thread'[t].phase # "idle" /\ thread'[t].file = f /\ thread'[t].bytes = b
             /\ \A s \in Threads \ {t} : thread'[s] = thread[s]
  <2>1. /\ thread'[t] = Working(ph, f, b, n)
        /\ \A s \in Threads \ {t} : thread'[s] = thread[s]
    BY <1>5, ThreadNow DEF TypeInv
  <2> QED BY <2>1 DEF Working
<1>6. \/ \E ph \in {"done", "remove"} : thread' = [thread EXCEPT ![t].phase = ph]
      \/ \E ph \in {"create", "replace", "update"}, n \in {0, real[f], Len(drive[f]) + 1} :
            thread' = [thread EXCEPT ![t] = Working(ph, f, b, n)]
  BY DEF Work, Settle, CreateFile, CreateFails, Replace, Remove, Update, UpdateFails
<1> QED BY <1>1, <1>2, <1>3, <1>4, <1>5, <1>6

\* What each of them does to its thread.
LEMMA WorkSteps ==
  ASSUME TypeInv, NEW t \in Threads
  PROVE  /\ Settle(t) => thread'[t] =
               IF real[thread[t].file] # 0
               THEN Working("update", thread[t].file, thread[t].bytes,
                            real[thread[t].file])
               ELSE Working("create", thread[t].file, thread[t].bytes, 0)
         /\ CreateFile(t) => thread'[t] =
               Working("replace", thread[t].file, thread[t].bytes,
                       Len(drive[thread[t].file]) + 1)
         /\ CreateFails(t) =>
               thread'[t].phase = "remove" /\ thread'[t].target = thread[t].target
         /\ Replace(t) \/ Remove(t) \/ Update(t) \/ UpdateFails(t) =>
               thread'[t].phase = "done" /\ thread'[t].target = thread[t].target
BY DEF TypeInv, TypeOK, Settle, CreateFile, CreateFails, Replace, Remove, Update,
       UpdateFails

\* Drive's files and the inode, of the file of t and of the others.
LEMMA FileSteps ==
  ASSUME TypeInv, NEW t \in Threads, Work(t)
  PROVE  /\ \A g \in Files \ {thread[t].file} :
               drive'[g] = drive[g] /\ real'[g] = real[g]
         /\ CreateFile(t) =>
               /\ drive'[thread[t].file] =
                     Append(drive[thread[t].file], thread[t].bytes)
               /\ UNCHANGED <<real, forgotten, failed>>
         /\ Update(t) =>
               /\ drive'[thread[t].file] =
                     [drive[thread[t].file] EXCEPT ![thread[t].target] =
                         thread[t].bytes]
               /\ UNCHANGED <<real, forgotten, failed>>
         /\ Replace(t) =>
               /\ real'[thread[t].file] =
                     IF real[thread[t].file] = 0 /\ thread[t].file \notin forgotten
                     THEN thread[t].target ELSE real[thread[t].file]
               /\ UNCHANGED <<drive, forgotten, failed>>
         /\ Settle(t) => UNCHANGED <<drive, real, forgotten, failed>>
         /\ Remove(t) => UNCHANGED <<drive, real, failed>>
         /\ CreateFails(t) \/ UpdateFails(t) =>
               UNCHANGED <<drive, real, forgotten>>
<1>1. thread[t].file \in Files
  BY WorkFrame
<1> QED BY <1>1 DEF Work, TypeInv, TypeOK, Settle, CreateFile, CreateFails, Replace,
       Remove, Update, UpdateFails

\* Drive only gets more files for f, and the inode leads to one of them.
LEMMA FilesGrow ==
  ASSUME TypeInv, NEW t \in Threads, Work(t), NEW g \in Files
  PROVE  /\ drive'[g] \in Seq(Versions)
         /\ Len(drive[g]) \in Nat /\ Len(drive'[g]) \in Nat
         /\ Len(drive'[g]) >= Len(drive[g])
         /\ real'[g] \in 0..Len(drive'[g])
         /\ real[g] # 0 => real'[g] = real[g]
<1> DEFINE f == thread[t].file
           b == thread[t].bytes
<1>1. /\ drive[g] \in Seq(Versions) /\ Len(drive[g]) \in Nat
      /\ real[g] \in 0..Len(drive[g])
  BY DEF TypeInv, TypeOK
<1>2. f \in Files /\ b \in Versions
  BY WorkFrame
<1>3. CASE g # f
  <2>1. drive'[g] = drive[g] /\ real'[g] = real[g]
    BY <1>3, FileSteps
  <2> QED BY <1>1, <2>1
<1>4. CASE g = f /\ CreateFile(t)
  <2>1. drive'[g] = Append(drive[g], b) /\ UNCHANGED real
    BY <1>4, FileSteps
  <2> QED BY <1>1, <1>2, <2>1
<1>5. CASE g = f /\ Update(t)
  <2>1. drive'[g] = [drive[g] EXCEPT ![thread[t].target] = b] /\ UNCHANGED real
    BY <1>5, FileSteps
  <2>2. thread[t].target \in 1..Len(drive[g])
    BY <1>5 DEF Update, TypeInv, ThreadShape
  <2>3. drive'[g] \in Seq(Versions) /\ Len(drive'[g]) = Len(drive[g])
    BY <1>1, <1>2, <2>1, <2>2
  <2> QED BY <1>1, <2>1, <2>3
<1>6. CASE g = f /\ Replace(t)
  <2>1. thread[t].target \in 1..Len(drive[g])
    BY <1>6 DEF Replace, TypeInv, ThreadShape
  <2>2. /\ drive' = drive
        /\ real'[g] = IF real[g] = 0 /\ g \notin forgotten
                      THEN thread[t].target ELSE real[g]
    BY <1>6, FileSteps
  <2> QED BY <1>1, <2>1, <2>2
<1>7. CASE Settle(t) \/ CreateFails(t) \/ Remove(t) \/ UpdateFails(t)
  <2>1. drive' = drive /\ real' = real
    BY <1>7, FileSteps
  <2> QED BY <1>1, <2>1
<1> QED BY <1>3, <1>4, <1>5, <1>6, <1>7 DEF Work

LEMMA TypeWork ==
  ASSUME TypeInv, NEW t \in Threads, Work(t)
  PROVE  TypeInv'
<1> DEFINE f == thread[t].file
           b == thread[t].bytes
<1>1. /\ UNCHANGED <<sending, pool, last, releases, active, mount, creator>>
      /\ thread[t].phase \notin {"idle", "done"} /\ thread'[t].phase # "idle"
      /\ f \in Files /\ b \in Versions /\ thread'[t].file = f /\ thread'[t].bytes = b
      /\ \A s \in Threads \ {t} : thread'[s] = thread[s]
  BY WorkFrame
<1>2. /\ thread'[t].phase \in Phases /\ thread'[t].target \in Nat
      /\ thread'[t].phase \in {"replace", "update"} =>
            thread'[t].target \in 1..Len(drive'[f])
  <2>1. /\ real[f] \in 0..Len(drive[f]) /\ Len(drive[f]) \in Nat
        /\ thread[t].target \in Nat /\ b \in Versions
        /\ drive[f] \in Seq(Versions)
    BY <1>1 DEF TypeInv, TypeOK
  <2>2. CASE Settle(t)
    <3>1. drive'[f] = drive[f]
      BY <2>2, FileSteps
    <3>2. CASE real[f] # 0
      <4>0. thread'[t] = Working("update", f, b, real[f])
        BY <2>2, <3>2, WorkSteps
      <4>1. thread'[t].phase = "update" /\ thread'[t].target = real[f]
        BY <4>0 DEF Working
      <4> QED BY <2>1, <3>1, <3>2, <4>1 DEF Phases
    <3>3. CASE real[f] = 0
      <4>0. thread'[t] = Working("create", f, b, 0)
        BY <2>2, <3>3, WorkSteps
      <4>1. thread'[t].phase = "create" /\ thread'[t].target = 0
        BY <4>0 DEF Working
      <4> QED BY <4>1 DEF Phases
    <3> QED BY <3>2, <3>3
  <2>3. CASE CreateFile(t)
    <3>0. /\ thread'[t] = Working("replace", f, b, Len(drive[f]) + 1)
          /\ drive'[f] = Append(drive[f], b)
      BY <2>3, WorkSteps, FileSteps
    <3>1. thread'[t].phase = "replace" /\ thread'[t].target = Len(drive[f]) + 1
      BY <3>0 DEF Working
    <3>2. Len(drive'[f]) = Len(drive[f]) + 1
      BY <2>1, <3>0
    <3> QED BY <2>1, <3>1, <3>2 DEF Phases
  <2>4. CASE CreateFails(t) \/ Replace(t) \/ Remove(t) \/ Update(t) \/ UpdateFails(t)
    BY <2>1, <2>4, WorkSteps DEF Phases
  <2> QED BY <2>2, <2>3, <2>4 DEF Work
<1>3. thread' \in [Threads -> [phase : Phases, file : Files \cup {NoFile},
                               bytes : Versions, target : Nat]]
  <2> DEFINE Record == [phase : Phases, file : Files \cup {NoFile},
                        bytes : Versions, target : Nat]
  <2>1. thread \in [Threads -> Record]
    BY DEF TypeInv, TypeOK
  <2>2. /\ real[f] \in Nat /\ Len(drive[f]) + 1 \in Nat
        /\ thread[t] \in Record
    BY <1>1 DEF TypeInv, TypeOK
  <2>3. ASSUME NEW ph \in Phases, NEW n \in Nat,
               thread' = [thread EXCEPT ![t] = Working(ph, f, b, n)]
        PROVE  thread' \in [Threads -> Record]
    <3>1. Working(ph, f, b, n) \in Record
      BY <1>1 DEF Working
    <3> QED BY <2>1, <2>3, <3>1
  <2>4. ASSUME NEW ph \in Phases, thread' = [thread EXCEPT ![t].phase = ph]
        PROVE  thread' \in [Threads -> Record]
    BY <2>1, <2>4
  <2>5. \/ \E ph \in {"done", "remove"} : thread' = [thread EXCEPT ![t].phase = ph]
        \/ \E ph \in {"create", "replace", "update"}, n \in {0, real[f], Len(drive[f]) + 1} :
              thread' = [thread EXCEPT ![t] = Working(ph, f, b, n)]
    BY DEF Work, Settle, CreateFile, CreateFails, Replace, Remove, Update, UpdateFails
  <2> QED BY <2>2, <2>3, <2>4, <2>5 DEF Phases
<1>4. /\ drive' \in [Files -> Seq(Versions)]
      /\ real' \in [Files -> Nat]
      /\ \A g \in Files : real'[g] \in 0..Len(drive'[g])
  <2>1. DOMAIN drive' = Files /\ DOMAIN real' = Files
        /\ drive' = [g \in Files |-> drive'[g]] /\ real' = [g \in Files |-> real'[g]]
    BY DEF Work, Settle, CreateFile, CreateFails, Replace, Remove, Update,
           UpdateFails, TypeInv, TypeOK
  <2> QED BY <2>1, FilesGrow
<1>5. forgotten' \subseteq NewFiles /\ failed' \subseteq Files
  <2>1. real[f] = 0 => f \in NewFiles
    BY <1>1 DEF TypeInv, TaskShape, Files
  <2> QED BY <1>1, <2>1 DEF Work, Settle, CreateFile, CreateFails, Replace, Remove,
             Update, UpdateFails, TypeInv, TypeOK
<1>6. TypeOK'
  BY <1>1, <1>3, <1>4, <1>5 DEF TypeInv, TypeOK
<1>7. ThreadShape'
  <2>1. \A s \in Threads : thread[s].phase \in {"replace", "update"} =>
           thread[s].file \in Files
    BY DEF TypeInv, TypeOK, ThreadShape
  <2>2. \A s \in Threads \ {t} : thread[s].phase \in {"replace", "update"} =>
           thread[s].target \in 1..Len(drive'[thread[s].file])
    BY <2>1, FilesGrow DEF TypeInv, ThreadShape
  <2>3. f # NoFile
    BY <1>1, NameFacts
  <2> QED BY <1>1, <1>2, <2>2, <2>3 DEF TypeInv, ThreadShape
<1>8. TaskShape'
  <2>1. sending # NoTask => sending.file \in Files
    BY DEF TypeInv, TypeOK, Tasks
  <2>2. \A i \in Queued : pool[i].file \in Files
    <3>1. \A i \in Queued : pool[i] \in Tasks
      BY DEF TypeInv, TypeOK, Queued
    <3> QED BY <3>1 DEF Tasks
  <2>3. \A g \in OldFiles : real[g] # 0 => real'[g] # 0
    BY FilesGrow DEF Files
  <2> QED BY <1>1, <2>1, <2>2, <2>3, FilesGrow DEF TypeInv, TaskShape, Queued
<1>9. Counted'
  <2>1. Busy' = Busy
    BY <1>1, SameBusy DEF TypeInv
  <2> QED BY <1>1, <2>1 DEF TypeInv, Counted
<1>10. MountShape'
  BY <1>1 DEF TypeInv, MountShape
<1> QED BY <1>6, <1>7, <1>8, <1>9, <1>10 DEF TypeInv

LEMMA TypeDone ==
  ASSUME TypeInv, NEW t \in Threads, Done(t)
  PROVE  /\ TypeInv'
         /\ Busy' = Busy \ {t} /\ thread'[t] = Resting
         /\ \A s \in Threads \ {t} : thread'[s] = thread[s]
<1>1. /\ thread' = [thread EXCEPT ![t] = Resting] /\ active' = active - 1
      /\ thread[t].phase = "done"
      /\ UNCHANGED <<drive, real, forgotten, creator, sending, pool, mount, last,
                     failed, releases>>
  BY DEF Done
<1>2. thread'[t] = Resting /\ \A s \in Threads \ {t} : thread'[s] = thread[s]
  BY <1>1, ThreadNow DEF TypeInv
<1>3. Busy' = Busy \ {t} /\ t \in Busy
  BY <1>1, <1>2 DEF Busy, Resting
<1>4. Cardinality(Busy') = Cardinality(Busy) - 1
  BY <1>3, BusyFacts, FS_RemoveElement
<1>5. Cardinality(Busy) \in Nat /\ Cardinality(Busy) >= 1 /\ Len(pool) \in Nat
  BY <1>3, BusyFacts DEF TypeInv, TypeOK
<1>6. Counted' /\ active \in Nat /\ active >= 1
  BY <1>1, <1>4, <1>5 DEF TypeInv, TypeOK, Counted
<1>7. TypeOK'
  <2>1. Resting \in [phase : Phases, file : Files \cup {NoFile}, bytes : Versions,
                     target : Nat]
    BY NameFacts DEF Resting, Phases
  <2>2. thread' \in [Threads -> [phase : Phases, file : Files \cup {NoFile},
                                 bytes : Versions, target : Nat]]
    BY <1>1, <2>1 DEF TypeInv, TypeOK
  <2>3. active' \in Nat
    BY <1>1, <1>6
  <2> QED BY <1>1, <2>2, <2>3 DEF TypeInv, TypeOK
<1>8. ThreadShape' /\ TaskShape'
  BY <1>1, <1>2 DEF TypeInv, ThreadShape, TaskShape, Resting, Queued
<1>9. MountShape'
  BY <1>1, <1>6 DEF TypeInv, MountShape
<1> QED BY <1>2, <1>3, <1>6, <1>7, <1>8, <1>9 DEF TypeInv

LEMMA TypeDestroy ==
  ASSUME TypeInv, Destroy \/ Poll
  PROVE  TypeInv'
<1>1. /\ mount' \in {"waiting", "unmounted"} /\ sending = NoTask
      /\ mount' = "unmounted" => active = 0
      /\ UNCHANGED <<drive, real, forgotten, creator, sending, pool, thread,
                     active, last, failed, releases>>
  BY DEF Destroy, Poll, TypeInv, TypeOK, MountShape
<1>2. TypeOK' /\ ThreadShape' /\ TaskShape' /\ MountShape'
  BY <1>1 DEF TypeInv, TypeOK, ThreadShape, TaskShape, MountShape, Queued
<1>3. Counted'
  BY <1>1 DEF TypeInv, Counted, Busy
<1> QED BY <1>2, <1>3 DEF TypeInv

LEMMA TypeInit == Init => TypeInv
<1> SUFFICES ASSUME Init PROVE TypeInv
  OBVIOUS
<1>1. /\ drive \in [Files -> Seq(Versions)]
      /\ \A f \in Files : real[f] \in 0..Len(drive[f])
  <2>1. <<0>> \in Seq(Versions) /\ <<>> \in Seq(Versions)
        /\ Len(<<0>>) = 1 /\ Len(<<>>) = 0
    BY NameFacts
  <2> QED BY <2>1 DEF Init
<1>2. TypeOK
  BY <1>1, NameFacts DEF Init, TypeOK, Resting, Phases
<1>3. ThreadShape /\ TaskShape /\ MountShape
  BY NameFacts DEF Init, ThreadShape, TaskShape, MountShape, Resting, Queued, Files
<1>4. Busy = {}
  BY DEF Init, Busy, Resting
<1>5. Cardinality({}) = 0 /\ Len(pool) = 0
  BY FS_EmptySet DEF Init
<1>6. Counted
  BY <1>4, <1>5 DEF Init, Counted
<1> QED BY <1>2, <1>3, <1>6 DEF TypeInv

\* The steps of the system, by what becomes of a task.
LEMMA StepKinds ==
  ASSUME [Next]_vars
  PROVE  \/ \E f \in Files : ReleaseCreated(f) \/ ReleaseOpened(f)
         \/ Send \/ Destroy \/ Poll
         \/ \E t \in Threads : Take(t) \/ Work(t) \/ Done(t)
         \/ UNCHANGED vars
BY DEF Next, Run, Work

LEMMA TypeStep == TypeInv /\ [Next]_vars => TypeInv'
<1> SUFFICES ASSUME TypeInv, [Next]_vars PROVE TypeInv'
  OBVIOUS
<1>1. CASE UNCHANGED vars
  BY <1>1 DEF vars, TypeInv, TypeOK, ThreadShape, TaskShape, Counted, MountShape,
              Busy, Queued
<1> QED
  BY <1>1, StepKinds, TypeRelease, TypeSend, TypeTake, TypeWork, TypeDone, TypeDestroy

\* DirectUploads keeps its types: no path counts an upload down twice, and the
\* inode of a file leads to a file that Drive has made for it (release, the
\* upload pool).
THEOREM DirectUploadsTypeCorrect == Spec => []TypeOK
<1>1. Init => TypeInv
  BY TypeInit
<1>2. TypeInv /\ [Next]_vars => TypeInv'
  BY TypeStep
<1>3. TypeInv => TypeOK
  BY DEF TypeInv
<1> QED BY <1>1, <1>2, <1>3, PTL DEF Spec

\* Whatever overtakes what, once destroy() has returned there is no upload left:
\* none in the pool, on a thread, or in a release() that has yet to send it.
THEOREM DestroyWaitsForAll ==
  Spec => [](mount = "unmounted" => pool = <<>> /\ Busy = {} /\ sending = NoTask)
<1> DEFINE Waited == mount = "unmounted" => pool = <<>> /\ Busy = {} /\ sending = NoTask
<1>1. Init => TypeInv
  BY TypeInit
<1>2. TypeInv /\ [Next]_vars => TypeInv'
  BY TypeStep
<1>3. TypeInv => Waited
  <2> SUFFICES ASSUME TypeInv, mount = "unmounted"
               PROVE  pool = <<>> /\ Busy = {} /\ sending = NoTask
    OBVIOUS
  <2>1. /\ Cardinality(Busy) + Len(pool) + (IF sending = NoTask THEN 0 ELSE 1) = 0
        /\ pool \in Seq(Tasks) /\ Len(pool) \in Nat
    BY DEF TypeInv, TypeOK, MountShape, Counted
  <2>2. Len(pool) = 0 /\ Busy = {} /\ sending = NoTask
    BY <2>1, BusyFacts
  <2> QED BY <2>1, <2>2
<1> QED BY <1>1, <1>2, <1>3, PTL DEF Spec

-----------------------------------------------------------------------------
(* Uploads of one file keep their order.                                    *)

\* All bytes that are compared are numbers, and files are files.
LEMMA Numbers ==
  ASSUME TypeInv
  PROVE  /\ \A f \in Files : last[f] \in Nat
         /\ releases \in Nat
         /\ sending # NoTask => sending.bytes \in Nat /\ sending.file \in Files
         /\ sending = NoTask => sending.file = NoFile
         /\ \A i \in Queued : i \in Nat /\ pool[i].bytes \in Nat /\ pool[i].file \in Files
         /\ \A t \in Threads : thread[t].bytes \in Nat
         /\ \A t \in Threads : thread[t].file # NoFile => t \in Busy
         /\ \A t \in Busy : thread[t].file \in Files
         /\ Len(pool) \in Nat
<1>1. pool \in Seq(Tasks) /\ Len(pool) \in Nat
  BY DEF TypeInv, TypeOK
<1>2. \A i \in Queued : i \in Nat /\ pool[i] \in Tasks
  BY <1>1 DEF Queued
<1>3. \A i \in Queued : pool[i].bytes \in Nat /\ pool[i].file \in Files
  BY <1>2, NameFacts DEF Tasks
<1>4. /\ sending # NoTask => sending.bytes \in Nat /\ sending.file \in Files
      /\ sending = NoTask => sending.file = NoFile
  <2>1. sending # NoTask => sending \in Tasks
    BY DEF TypeInv, TypeOK
  <2>2. \A task \in Tasks : task.bytes \in Versions /\ task.file \in Files
    BY DEF Tasks
  <2>3. NoTask.file = NoFile
    BY DEF NoTask
  <2> QED BY <2>1, <2>2, <2>3, NameFacts
<1>5. /\ \A t \in Threads : thread[t].bytes \in Nat
      /\ \A t \in Threads : thread[t].file # NoFile => t \in Busy
      /\ \A t \in Busy : thread[t].file \in Files
  BY NameFacts DEF TypeInv, TypeOK, ThreadShape, Busy
<1>6. releases \in Nat /\ \A f \in Files : last[f] \in Nat
  BY NameFacts DEF TypeInv, TypeOK
<1> QED BY <1>1, <1>2, <1>3, <1>4, <1>5, <1>6

\* A release() gives a task a number no other has, and starts no upload.
LEMMA SafeRelease ==
  ASSUME IndInv, NEW f \in Files, ReleaseCreated(f) \/ ReleaseOpened(f)
  PROVE  InOrder' /\ Alone' /\ Decided' /\ Linked' /\ OneDriveFile' /\ Delivered'
<1>1. /\ sending'.file = f /\ sending'.bytes = releases + 1
      /\ sending = NoTask /\ releases' = releases + 1
      /\ last'[f] = releases + 1
      /\ \A g \in Files \ {f} : last'[g] = last[g]
      /\ UNCHANGED <<drive, real, forgotten, pool, thread, failed>>
  BY DEF ReleaseCreated, ReleaseOpened, Released, IndInv, TypeInv, TypeOK
<1>2. TypeInv /\ InOrder
  BY DEF IndInv
<1>3. /\ \A i \in Queued : pool[i].bytes < releases + 1
      /\ \A t \in Busy : thread[t].bytes < releases + 1
  <2>1. \A g \in Files : last[g] <= releases /\ last[g] \in Nat /\ releases \in Nat
    BY <1>2, Numbers DEF InOrder
  <2>2. \A i \in Queued : /\ pool[i].file \in Files /\ pool[i].bytes \in Nat
                         /\ pool[i].bytes <= last[pool[i].file]
    BY <1>2, Numbers DEF InOrder
  <2>3. \A t \in Busy : /\ thread[t].file \in Files /\ thread[t].bytes \in Nat
                       /\ thread[t].bytes <= last[thread[t].file]
    BY <1>2, Numbers DEF InOrder, Busy
  <2> QED BY <2>1, <2>2, <2>3
<1>4. InOrder'
  <2>1. Queued' = Queued /\ Busy' = Busy
    BY <1>1 DEF Queued, Busy
  <2>2. \A g \in Files : last'[g] <= releases'
    BY <1>1, <1>2, Numbers DEF InOrder
  <2>3. \A i \in Queued : pool[i].bytes <= last'[pool[i].file]
    BY <1>1, <1>2, <1>3, Numbers DEF InOrder
  <2>4. \A t \in Busy : thread[t].bytes <= last'[thread[t].file]
    BY <1>1, <1>2, <1>3, Numbers DEF InOrder, Busy
  <2> QED BY <1>1, <1>2, <1>3, <2>1, <2>2, <2>3, <2>4 DEF InOrder
<1>5. Alone' /\ Decided' /\ Linked' /\ OneDriveFile'
  BY <1>1 DEF IndInv, Alone, Begun, Decided, DecidedBy, Linked, LinkedFile, OneDriveFile
<1>6. Delivered'
  <2>1. OnItsWay(f, last[f])'
    BY <1>1 DEF OnItsWay
  <2>2. ASSUME NEW g \in Files \ failed, g # f, last[g] # 0
        PROVE  \/ OnItsWay(g, last[g])'
               \/ Settled(g)' /\ real[g] # 0 /\ drive[g][real[g]] = last[g]
    <3>1. sending.file # g /\ sending'.file # g
      BY <1>1, <1>2, <2>2, Numbers, NameFacts
    <3>2. OnItsWay(g, last[g]) => OnItsWay(g, last[g])'
      BY <1>1, <2>2, <3>1 DEF OnItsWay, Queued
    <3>3. Settled(g) => Settled(g)'
      BY <1>1, <3>1 DEF Settled, Queued
    <3> QED BY <2>2, <3>2, <3>3 DEF IndInv, Delivered
  <2> QED BY <1>1, <2>1, <2>2 DEF Delivered
<1> QED BY <1>4, <1>5, <1>6

LEMMA SafeSend ==
  ASSUME IndInv, Send
  PROVE  InOrder' /\ Alone' /\ Decided' /\ Linked' /\ OneDriveFile' /\ Delivered'
<1> DEFINE n == Len(pool) + 1
<1>1. /\ sending # NoTask /\ sending' = NoTask
      /\ UNCHANGED <<drive, real, forgotten, thread, last, failed, releases>>
  BY DEF Send
<1>2. TypeInv /\ InOrder
  BY DEF IndInv
<1>3. /\ Queued' = Queued \cup {n} /\ n \notin Queued
      /\ \A i \in Queued : pool'[i] = pool[i] /\ i < n
      /\ pool'[n] = sending
  BY <1>2, TypeSend, Numbers DEF Queued
<1>4. InOrder'
  <2>1. Busy' = Busy
    BY <1>1 DEF Busy
  <2>2. \A i \in Queued' : pool'[i].bytes <= last[pool'[i].file]
    BY <1>1, <1>2, <1>3, Numbers DEF InOrder
  <2>3. \A i, j \in Queued' : i < j => pool'[i].bytes < pool'[j].bytes
    BY <1>1, <1>2, <1>3, Numbers DEF InOrder
  <2>4. \A i \in Queued', t \in Busy : thread[t].bytes < pool'[i].bytes
    BY <1>1, <1>2, <1>3, Numbers DEF InOrder
  <2> QED BY <1>1, <1>2, <2>1, <2>2, <2>3, <2>4 DEF InOrder
<1>5. Alone' /\ Decided' /\ Linked' /\ OneDriveFile'
  BY <1>1 DEF IndInv, Alone, Begun, Decided, DecidedBy, Linked, LinkedFile, OneDriveFile
<1>6. Delivered'
  <2>1. \A g \in Files : \A b : OnItsWay(g, b) => OnItsWay(g, b)'
    BY <1>1, <1>3 DEF OnItsWay
  <2>2. \A g \in Files : Settled(g) => Settled(g)'
    BY <1>1, <1>3, NameFacts DEF Settled, NoTask
  <2> QED BY <1>1, <2>1, <2>2 DEF IndInv, Delivered
<1> QED BY <1>4, <1>5, <1>6

LEMMA SafeTake ==
  ASSUME Disturbances = {}, IndInv, NEW t \in Threads, Take(t)
  PROVE  InOrder' /\ Alone' /\ Decided' /\ Linked' /\ OneDriveFile' /\ Delivered'
<1> DEFINE task == pool[1]
<1>1. /\ thread[t].phase = "idle"
      /\ task.create \/ ~Before(task.file, task.bytes)
      /\ UNCHANGED <<drive, real, forgotten, sending, last, failed, releases>>
  <2>1. Head(pool) = task
    BY TypeTake DEF IndInv, TypeInv, TypeOK
  <2> QED BY <2>1 DEF Take
<1>2. TypeInv /\ InOrder
  BY DEF IndInv
<1>3. /\ \A i \in Queued' : i + 1 \in Queued /\ pool'[i] = pool[i + 1] /\ i \in Nat \ {0}
      /\ Busy' = Busy \cup {t} /\ t \notin Busy
      /\ 1 \in Queued
      /\ thread'[t].file = task.file /\ thread'[t].bytes = task.bytes
      /\ thread'[t].phase = IF task.create THEN "settle" ELSE "update"
      /\ ~task.create => thread'[t].target = real[task.file]
      /\ \A s \in Threads \ {t} : thread'[s] = thread[s]
  BY <1>2, TypeTake DEF Queued
<1>4. /\ \A s \in Busy : thread[s].bytes < task.bytes
      /\ \A i \in Queued' : task.bytes < pool'[i].bytes
  <2>1. \A i \in Queued' : 1 < i + 1
    BY <1>3
  <2> QED BY <1>2, <1>3, <2>1 DEF InOrder
<1>5. \A i \in Queued \ {1} : i - 1 \in Queued' /\ pool'[i - 1] = pool[i]
  <2>1. \A i \in Queued \ {1} : i - 1 \in Queued' /\ (i - 1) + 1 = i
    BY <1>2, TypeTake, Numbers DEF Queued
  <2> QED BY <1>3, <2>1
<1>6. InOrder'
  <2>1. \A i \in Queued', j \in Queued' : i < j => i + 1 < j + 1
    BY <1>3
  <2>2. \A i \in Queued', j \in Queued' : i < j => pool'[i].bytes < pool'[j].bytes
    BY <1>2, <1>3, <2>1 DEF InOrder
  <2>3. \A i \in Queued' : /\ pool'[i].bytes <= last[pool'[i].file]
                           /\ \A s \in Busy : thread[s].bytes < pool'[i].bytes
                           /\ sending # NoTask => pool'[i].bytes < sending.bytes
    BY <1>2, <1>3 DEF InOrder
  <2>4. \A s \in Busy' : \A i \in Queued' : thread'[s].bytes < pool'[i].bytes
    BY <1>3, <1>4, <2>3 DEF Busy
  <2>5. \A s \in Busy' : thread'[s].bytes <= last[thread'[s].file]
    BY <1>2, <1>3 DEF InOrder, Busy
  <2>6. \A s \in Busy' : sending # NoTask => thread'[s].bytes < sending.bytes
    BY <1>2, <1>3 DEF InOrder, Busy
  <2>7. \A s \in Busy : \A r \in Busy \ {s} : thread'[s].bytes # thread'[r].bytes
    BY <1>2, <1>3 DEF InOrder, Busy
  <2>8. \A s \in Busy : thread'[s].bytes # thread'[t].bytes
    <3>1. \A s \in Busy : thread[s].bytes \in Nat /\ task.bytes \in Nat
      BY <1>2, <1>3, Numbers DEF Busy
    <3>2. \A s \in Busy : thread[s].bytes # task.bytes
      BY <1>4, <3>1
    <3> QED BY <1>3, <3>2 DEF Busy
  <2> QED BY <1>1, <1>2, <1>3, <2>2, <2>3, <2>4, <2>5, <2>6, <2>7, <2>8 DEF InOrder
<1>7. \A s \in Threads : thread[s].file = task.file => task.create /\ s \in Busy
  <2>1. \A s \in Threads : thread[s].file = task.file => s \in Busy
    BY <1>2, <1>3, Numbers, NameFacts
  <2> QED BY <1>1, <1>4, <2>1 DEF Before
<1>8. Alone'
  <2>1. ASSUME NEW r \in Threads, NEW s \in Threads, Begun(r)', s # r,
               thread'[s].file = thread'[r].file
        PROVE  thread'[r].bytes < thread'[s].bytes
    <3>1. CASE r = t
      <4>1. ~task.create
        BY <1>3, <2>1, <3>1 DEF Begun
      <4> QED BY <1>3, <1>7, <2>1, <3>1, <4>1
    <3>2. CASE s = t
      BY <1>3, <1>4, <1>7, <2>1, <3>2
    <3>3. CASE r # t /\ s # t
      BY <1>3, <2>1, <3>3 DEF IndInv, Alone, Begun
    <3> QED BY <3>1, <3>2, <3>3
  <2> QED BY <2>1 DEF Alone
<1>9. Decided'
  BY <1>1, <1>3 DEF IndInv, Decided, DecidedBy
<1>10. Linked' /\ OneDriveFile'
  BY <1>1, <1>3 DEF IndInv, Linked, LinkedFile, OneDriveFile
<1>11. Delivered'
  <2>1. ASSUME NEW g \in Files, NEW b, OnItsWay(g, b) PROVE OnItsWay(g, b)'
    <3>1. CASE sending.file = g /\ sending.bytes = b
      BY <1>1, <3>1 DEF OnItsWay
    <3>2. ASSUME NEW i \in Queued, pool[i].file = g, pool[i].bytes = b
          PROVE  OnItsWay(g, b)'
      <4>1. CASE i = 1
        BY <1>3, <3>2, <4>1 DEF OnItsWay
      <4>2. CASE i # 1
        BY <1>5, <3>2, <4>2 DEF OnItsWay
      <4> QED BY <4>1, <4>2
    <3>3. ASSUME NEW s \in Threads, thread[s].file = g, thread[s].bytes = b,
                 thread[s].phase # "done"
          PROVE  OnItsWay(g, b)'
      <4>1. s # t
        BY <1>1, <1>2, <3>3, NameFacts DEF TypeInv, ThreadShape
      <4> QED BY <1>3, <3>3, <4>1 DEF OnItsWay
    <3> QED BY <2>1, <3>1, <3>2, <3>3 DEF OnItsWay
  <2>2. ASSUME NEW g \in Files, Settled(g) PROVE Settled(g)'
    <3>1. task.file # g
      BY <1>3, <2>2 DEF Settled
    <3> QED BY <1>1, <1>3, <2>2, <3>1 DEF Settled
  <2> QED BY <1>1, <2>1, <2>2 DEF IndInv, Delivered
<1> QED BY <1>6, <1>8, <1>9, <1>10, <1>11

\* After a step of t no other thread is beyond its settling delay on the file.
LEMMA AloneWork ==
  ASSUME Disturbances = {}, IndInv, NEW t \in Threads, Work(t)
  PROVE  /\ InOrder' /\ Alone'
         /\ \A s \in Threads \ {t} : thread[s].file = thread[t].file =>
               ~Begun(s) /\ thread[t].bytes < thread[s].bytes
<1>1. /\ UNCHANGED <<sending, pool, last, releases>>
      /\ thread[t].phase \notin {"idle", "done"} /\ thread'[t].phase # "idle"
      /\ thread'[t].file = thread[t].file /\ thread'[t].bytes = thread[t].bytes
      /\ \A s \in Threads \ {t} : thread'[s] = thread[s]
      /\ thread[t].file \in Files
  BY WorkFrame DEF IndInv
<1>2. TypeInv /\ InOrder
  BY DEF IndInv
<1>3. /\ \A s \in Threads : thread'[s].file = thread[s].file
      /\ \A s \in Threads : thread'[s].bytes = thread[s].bytes
      /\ Busy' = Busy /\ Queued' = Queued
  BY <1>1, <1>2, SameBusy DEF TypeInv, Queued
<1>4. InOrder'
  BY <1>1, <1>2, <1>3 DEF InOrder, Busy
<1>5. \A s \in Threads \ {t} : thread[s].file = thread[t].file =>
         thread[t].bytes < thread[s].bytes
  <2>1. CASE Begun(t)
    BY <2>1 DEF IndInv, Alone
  <2>2. CASE ~Begun(t)
    <3>1. Settle(t)
      BY <2>2 DEF Work, Begun, Phases, CreateFile, CreateFails, Replace, Remove,
                  Update, UpdateFails
    <3>2. ~Before(thread[t].file, thread[t].bytes)
      BY <3>1 DEF Settle
    <3>3. ASSUME NEW s \in Threads \ {t}, thread[s].file = thread[t].file
          PROVE  thread[t].bytes < thread[s].bytes
      <4>1. s \in Busy /\ t \in Busy
        BY <1>1, <1>2, <3>3, Numbers, NameFacts
      <4>2. thread[s].bytes # thread[t].bytes
        BY <1>2, <4>1, <3>3 DEF InOrder
      <4> QED BY <1>2, <3>2, <3>3, <4>2, Numbers DEF Before
    <3> QED BY <3>3
  <2> QED BY <2>1, <2>2
<1>6. \A s \in Threads \ {t} : thread[s].file = thread[t].file => ~Begun(s)
  <2> SUFFICES ASSUME NEW s \in Threads \ {t}, thread[s].file = thread[t].file,
                      Begun(s)
               PROVE  FALSE
    OBVIOUS
  <2>1. thread[s].bytes < thread[t].bytes
    BY DEF IndInv, Alone
  <2> QED BY <1>2, <1>5, <2>1, Numbers
<1>7. Alone'
  BY <1>1, <1>3, <1>5, <1>6 DEF IndInv, Alone, Begun
<1> QED BY <1>4, <1>5, <1>6, <1>7

LEMMA DecidedWork ==
  ASSUME Disturbances = {}, IndInv, NEW t \in Threads, Work(t)
  PROVE  Decided' /\ Linked' /\ OneDriveFile'
<1> DEFINE f == thread[t].file
           b == thread[t].bytes
<1>1. /\ thread'[t].file = f /\ thread'[t].bytes = b
      /\ thread[t].phase \notin {"idle", "done"}
      /\ \A s \in Threads \ {t} : thread'[s] = thread[s]
      /\ f \in Files /\ b \in Versions
  BY WorkFrame DEF IndInv
<1>2. /\ drive[f] \in Seq(Versions) /\ Len(drive[f]) \in Nat
      /\ real[f] \in Nat
  BY <1>1 DEF IndInv, TypeInv, TypeOK
<1>3. \A s \in Threads \ {t} : thread[s].file = f => ~Begun(s)
  BY AloneWork
<1>4. /\ \A g \in Files \ {f} : drive'[g] = drive[g] /\ real'[g] = real[g]
      /\ failed \subseteq failed'
  BY FileSteps DEF IndInv, Work, Settle, CreateFile, CreateFails, Replace, Remove,
                   Update, UpdateFails
<1>5. \A s \in Threads \ {t} : Begun(s) => thread[s].file \in Files \ {f}
  BY <1>3, Numbers DEF IndInv, Begun, Busy
<1>6. f \notin failed /\ real[f] = 0 /\ ~(thread[t].phase = "replace") =>
         drive[f] = <<>>
  BY <1>1, <1>3 DEF IndInv, Linked, LinkedFile, Begun, Phases
<1>7. DecidedBy(t)
  BY DEF IndInv, Decided
<1>8. f \notin failed => Len(drive[f]) <= 1
  BY <1>1 DEF IndInv, OneDriveFile
<1>9. /\ DecidedBy(t)'
      /\ f \notin failed' => LinkedFile(f)' /\ Len(drive'[f]) <= 1
      /\ forgotten' \subseteq failed'
  <2>1. CASE Settle(t)
    <3>1. drive' = drive /\ real' = real /\ UNCHANGED <<forgotten, failed>>
      BY <2>1, FileSteps DEF IndInv
    <3>2. thread'[t] = IF real[f] # 0 THEN Working("update", f, b, real[f])
                       ELSE Working("create", f, b, 0)
      BY <2>1, WorkSteps DEF IndInv
    <3>3. thread[t].phase = "settle"
      BY <2>1 DEF Settle
    <3>4. DecidedBy(t)'
      BY <3>1, <3>2 DEF DecidedBy, Working
    <3>5. f \notin failed => LinkedFile(f)'
      <4>1. thread'[t].phase # "replace"
        BY <3>2 DEF Working
      <4>2. \A s \in Threads : thread'[s].phase = "replace" => thread[s] = thread'[s]
        BY <1>1, <4>1
      <4> QED BY <1>1, <3>1, <3>3, <4>2 DEF IndInv, Linked, LinkedFile
    <3> QED BY <1>8, <3>1, <3>4, <3>5 DEF IndInv, Linked
  <2>2. CASE CreateFile(t)
    <3>1. /\ drive'[f] = Append(drive[f], b)
          /\ real' = real /\ UNCHANGED <<forgotten, failed>>
      BY <2>2, FileSteps DEF IndInv
    <3>2. thread'[t] = Working("replace", f, b, Len(drive[f]) + 1)
      BY <2>2, WorkSteps DEF IndInv
    <3>3. /\ drive'[f][Len(drive[f]) + 1] = b
          /\ Len(drive'[f]) = Len(drive[f]) + 1
      BY <1>1, <1>2, <3>1
    <3>4. thread[t].phase = "create"
      BY <2>2 DEF CreateFile
    <3>5. real[f] = 0
      BY <1>7, <3>4 DEF DecidedBy
    <3>6. /\ thread'[t].phase = "replace" /\ thread'[t].file = f
          /\ thread'[t].bytes = b /\ thread'[t].target = Len(drive[f]) + 1
      BY <3>2 DEF Working
    <3>7. DecidedBy(t)'
      BY <3>1, <3>3, <3>5, <3>6 DEF DecidedBy
    <3>8. LinkedFile(f)'
      BY <3>6 DEF LinkedFile
    <3>9. f \notin failed => Len(drive'[f]) <= 1
      <4>1. f \notin failed => drive[f] = <<>>
        BY <1>6, <3>4, <3>5
      <4> QED BY <3>3, <4>1
    <3> QED BY <3>1, <3>7, <3>8, <3>9 DEF IndInv, Linked
  <2>3. CASE CreateFails(t)
    <3>1. /\ thread[t].phase = "create" /\ thread'[t].phase = "remove"
          /\ failed' = failed \cup {f} /\ UNCHANGED <<drive, real, forgotten>>
      BY <2>3, WorkSteps DEF CreateFails, IndInv
    <3> QED BY <1>1, <1>7, <3>1 DEF DecidedBy, IndInv, Linked
  <2>4. CASE Replace(t)
    <3>1. /\ thread[t].phase = "replace" /\ thread'[t].phase = "done"
          /\ real'[f] = IF real[f] = 0 /\ f \notin forgotten
                        THEN thread[t].target ELSE real[f]
          /\ UNCHANGED <<drive, forgotten, failed>>
      BY <2>4, WorkSteps, FileSteps DEF Replace, IndInv
    <3>2. thread[t].target \in 1..Len(drive[f])
      BY <3>1 DEF IndInv, TypeInv, ThreadShape
    <3>3. f \notin failed => real'[f] # 0
      BY <3>1, <3>2 DEF IndInv, Linked
    <3>4. DecidedBy(t)'
      BY <3>1 DEF DecidedBy
    <3>5. f \notin failed => LinkedFile(f)'
      BY <1>1, <3>3 DEF LinkedFile
    <3> QED BY <1>8, <3>1, <3>4, <3>5 DEF IndInv, Linked
  <2>5. CASE Remove(t)
    <3>1. /\ thread[t].phase = "remove" /\ thread'[t].phase = "done"
          /\ forgotten' \subseteq forgotten \cup {f}
          /\ UNCHANGED <<drive, real, failed>>
      BY <2>5, WorkSteps DEF Remove, IndInv
    <3>2. f \in failed
      BY <1>7, <3>1 DEF DecidedBy
    <3> QED BY <3>1, <3>2 DEF DecidedBy, IndInv, Linked
  <2>6. CASE Update(t)
    <3>1. /\ thread[t].phase = "update" /\ thread'[t].phase = "done"
          /\ drive'[f] = [drive[f] EXCEPT ![thread[t].target] = b]
          /\ real' = real /\ UNCHANGED <<forgotten, failed>>
      BY <2>6, WorkSteps, FileSteps DEF Update, IndInv
    <3>2. thread[t].target \in 1..Len(drive[f]) /\ thread[t].target = real[f]
      BY <1>7, <3>1 DEF IndInv, TypeInv, ThreadShape, DecidedBy
    <3>3. Len(drive'[f]) = Len(drive[f])
      BY <1>1, <1>2, <3>1
    <3>4. real[f] # 0
      BY <1>2, <3>2
    <3>5. DecidedBy(t)'
      BY <3>1 DEF DecidedBy
    <3>6. LinkedFile(f)'
      BY <1>1, <3>1, <3>4 DEF LinkedFile
    <3> QED BY <1>8, <3>1, <3>3, <3>5, <3>6 DEF IndInv, Linked
  <2>7. CASE UpdateFails(t)
    <3>1. /\ thread'[t].phase = "done" /\ failed' = failed \cup {f}
          /\ UNCHANGED <<drive, real, forgotten>>
      BY <2>7, WorkSteps DEF UpdateFails, IndInv
    <3> QED BY <3>1 DEF DecidedBy, IndInv, Linked
  <2> QED BY <2>1, <2>2, <2>3, <2>4, <2>5, <2>6, <2>7 DEF Work
<1>10. ASSUME NEW s \in Threads \ {t} PROVE DecidedBy(s)'
  <2>1. DecidedBy(s) /\ thread'[s] = thread[s]
    BY <1>1 DEF IndInv, Decided
  <2>2. CASE Begun(s)
    BY <1>4, <1>5, <2>1, <2>2 DEF DecidedBy
  <2>3. CASE ~Begun(s)
    BY <2>1, <2>3 DEF DecidedBy, Begun, Phases
  <2> QED BY <2>2, <2>3
<1>11. ASSUME NEW g \in Files \ failed', g # f
       PROVE  LinkedFile(g)' /\ Len(drive'[g]) <= 1
  <2>1. LinkedFile(g) /\ Len(drive[g]) <= 1
    BY <1>4, <1>11 DEF IndInv, Linked, OneDriveFile
  <2> QED BY <1>1, <1>4, <1>11, <2>1 DEF LinkedFile
<1>12. Decided'
  BY <1>9, <1>10 DEF Decided
<1>13. \A g \in Files \ failed' : LinkedFile(g)' /\ Len(drive'[g]) <= 1
  BY <1>1, <1>4, <1>9, <1>11
<1>14. Linked' /\ OneDriveFile'
  BY <1>9, <1>13 DEF Linked, OneDriveFile
<1> QED BY <1>12, <1>14

\* What t has done with the file has arrived, if it was the last release of it.
LEMMA DeliveredWork ==
  ASSUME Disturbances = {}, IndInv, NEW t \in Threads, Work(t)
  PROVE  Delivered'
<1> DEFINE f == thread[t].file
           b == thread[t].bytes
<1>1. /\ thread'[t].file = f /\ thread'[t].bytes = b
      /\ thread[t].phase \notin {"idle", "done"}
      /\ UNCHANGED <<sending, pool, last, releases>>
      /\ \A s \in Threads \ {t} : thread'[s] = thread[s]
      /\ f \in Files /\ b \in Nat /\ t \in Busy
  BY WorkFrame, NameFacts DEF IndInv, Busy
<1>2. /\ drive[f] \in Seq(Versions) /\ Len(drive[f]) \in Nat
      /\ real[f] \in Nat
  BY <1>1 DEF IndInv, TypeInv, TypeOK
<1>3. /\ \A g \in Files \ {f} : drive'[g] = drive[g] /\ real'[g] = real[g]
      /\ failed \subseteq failed'
  BY FileSteps DEF IndInv, Work, Settle, CreateFile, CreateFails, Replace, Remove,
                   Update, UpdateFails
<1>4. ASSUME NEW g \in Files \ failed', g # f, last[g] # 0
      PROVE  \/ OnItsWay(g, last[g])'
             \/ Settled(g)' /\ real'[g] # 0 /\ drive'[g][real'[g]] = last'[g]
  <2>1. OnItsWay(g, last[g]) => OnItsWay(g, last[g])'
    BY <1>1, <1>4 DEF OnItsWay, Queued
  <2>2. Settled(g) => Settled(g)'
    BY <1>1, <1>4 DEF Settled, Queued
  <2> QED BY <1>1, <1>3, <1>4, <2>1, <2>2 DEF IndInv, Delivered
<1>5. ASSUME f \notin failed', last[f] # 0
      PROVE  \/ OnItsWay(f, last[f])'
             \/ Settled(f)' /\ real'[f] # 0 /\ drive'[f][real'[f]] = last'[f]
  <2>1. OnItsWay(f, last[f])
    BY <1>1, <1>3, <1>5 DEF IndInv, Delivered, Settled
  <2>2. CASE thread'[t].phase # "done" \/ b # last[f]
    BY <1>1, <2>1, <2>2 DEF OnItsWay, Queued
  <2>3. CASE thread'[t].phase = "done" /\ b = last[f]
    <3>1. Settled(f)'
      <4>1. sending.file # f
        BY <1>1, <2>3, Numbers, NameFacts DEF IndInv, InOrder
      <4>2. \A i \in Queued : pool[i].file # f
        BY <1>1, <2>3, Numbers DEF IndInv, InOrder
      <4>3. \A s \in Threads \ {t} : thread[s].file # f
        <5> SUFFICES ASSUME NEW s \in Threads \ {t}, thread[s].file = f PROVE FALSE
          OBVIOUS
        <5>1. b < thread[s].bytes
          BY AloneWork
        <5>2. s \in Busy /\ thread[s].bytes \in Nat
          BY <1>1, Numbers, NameFacts DEF IndInv
        <5>3. thread[s].bytes <= last[f]
          BY <5>2 DEF IndInv, InOrder
        <5> QED BY <1>1, <2>3, <5>1, <5>2, <5>3
      <4> QED BY <1>1, <2>3, <4>1, <4>2, <4>3 DEF Settled, Queued
    <3>2. real'[f] # 0 /\ drive'[f][real'[f]] = b
      <4>1. DecidedBy(t)
        BY DEF IndInv, Decided
      <4>2. CASE Replace(t)
        <5>1. /\ thread[t].phase = "replace"
              /\ real'[f] = IF real[f] = 0 /\ f \notin forgotten
                            THEN thread[t].target ELSE real[f]
              /\ UNCHANGED <<drive, forgotten, failed>>
          BY <4>2, FileSteps DEF Replace, IndInv
        <5>2. real[f] = 0 /\ f \notin forgotten /\ drive[f][thread[t].target] = b
          BY <1>5, <4>1, <5>1 DEF IndInv, Linked, DecidedBy
        <5>3. thread[t].target \in 1..Len(drive[f])
          BY <5>1 DEF IndInv, TypeInv, ThreadShape
        <5> QED BY <5>1, <5>2, <5>3
      <4>3. CASE Update(t)
        <5>1. /\ thread[t].phase = "update" /\ real' = real
              /\ drive'[f] = [drive[f] EXCEPT ![thread[t].target] = b]
          BY <4>3, FileSteps DEF Update, IndInv
        <5>2. thread[t].target \in 1..Len(drive[f]) /\ thread[t].target = real[f]
          BY <4>1, <5>1 DEF IndInv, TypeInv, ThreadShape, DecidedBy
        <5> QED BY <1>2, <5>1, <5>2
      <4>4. CASE Remove(t)
        BY <1>3, <1>5, <4>1, <4>4 DEF Remove, DecidedBy
      <4>5. CASE UpdateFails(t)
        BY <1>5, <4>5 DEF UpdateFails
      <4>6. ~Settle(t) /\ ~CreateFile(t) /\ ~CreateFails(t)
        <5>1. Settle(t) => thread'[t].phase \in {"update", "create"}
          <6> SUFFICES ASSUME Settle(t) PROVE thread'[t].phase \in {"update", "create"}
            OBVIOUS
          <6>1. thread'[t] = IF real[f] # 0 THEN Working("update", f, b, real[f])
                             ELSE Working("create", f, b, 0)
            BY WorkSteps DEF IndInv
          <6> QED BY <6>1 DEF Working
        <5>2. CreateFile(t) => thread'[t].phase = "replace"
          <6> SUFFICES ASSUME CreateFile(t) PROVE thread'[t].phase = "replace"
            OBVIOUS
          <6>1. thread'[t] = Working("replace", f, b, Len(drive[f]) + 1)
            BY WorkSteps DEF IndInv
          <6> QED BY <6>1 DEF Working
        <5>3. CreateFails(t) => thread'[t].phase = "remove"
          BY WorkSteps DEF IndInv
        <5> QED BY <2>3, <5>1, <5>2, <5>3
      <4> QED BY <4>2, <4>3, <4>4, <4>5, <4>6 DEF Work
    <3> QED BY <1>1, <2>3, <3>1, <3>2
  <2> QED BY <2>2, <2>3
<1> QED BY <1>1, <1>4, <1>5 DEF Delivered

LEMMA SafeDone ==
  ASSUME IndInv, NEW t \in Threads, Done(t)
  PROVE  InOrder' /\ Alone' /\ Decided' /\ Linked' /\ OneDriveFile' /\ Delivered'
<1>1. /\ thread'[t].phase = "idle" /\ thread'[t].file = NoFile
      /\ thread[t].phase = "done"
      /\ \A s \in Threads \ {t} : thread'[s] = thread[s]
      /\ Busy' = Busy \ {t}
      /\ UNCHANGED <<drive, real, forgotten, sending, pool, last, failed, releases>>
  <2>1. /\ Busy' = Busy \ {t} /\ thread'[t] = Resting
        /\ \A s \in Threads \ {t} : thread'[s] = thread[s]
    BY TypeDone DEF IndInv
  <2>2. thread'[t].phase = "idle" /\ thread'[t].file = NoFile
    BY <2>1 DEF Resting
  <2>3. thread[t].phase = "done"
        /\ UNCHANGED <<drive, real, forgotten, sending, pool, last, failed, releases>>
    BY DEF Done
  <2> QED BY <2>1, <2>2, <2>3
<1>2. TypeInv /\ InOrder
  BY DEF IndInv
<1>3. InOrder'
  BY <1>1, <1>2 DEF InOrder, Queued, Busy
<1>4. Alone'
  <2>1. \A s \in Threads \ {t} : Begun(s) => thread[s].file # NoFile
    BY <1>2 DEF TypeInv, ThreadShape, Begun
  <2> QED BY <1>1, <2>1 DEF IndInv, Alone, Begun
<1>5. Decided'
  BY <1>1 DEF IndInv, Decided, DecidedBy
<1>6. Linked' /\ OneDriveFile'
  BY <1>1 DEF IndInv, Linked, LinkedFile, OneDriveFile
<1>7. Delivered'
  <2>1. \A g \in Files : \A b : OnItsWay(g, b) => OnItsWay(g, b)'
    BY <1>1 DEF OnItsWay, Queued
  <2>2. \A g \in Files : Settled(g) => Settled(g)'
    BY <1>1, NameFacts DEF Settled, Queued
  <2> QED BY <1>1, <2>1, <2>2 DEF IndInv, Delivered
<1> QED BY <1>3, <1>4, <1>5, <1>6, <1>7

LEMMA SafeStep ==
  ASSUME Disturbances = {}
  PROVE  IndInv /\ [Next]_vars => IndInv'
<1> SUFFICES ASSUME IndInv, [Next]_vars PROVE IndInv'
  OBVIOUS
<1>1. TypeInv'
  BY TypeStep DEF IndInv
<1>2. ASSUME NEW t \in Threads, Work(t) PROVE IndInv'
  BY <1>1, <1>2, AloneWork, DecidedWork, DeliveredWork DEF IndInv
<1>3. CASE Destroy \/ Poll \/ UNCHANGED vars
  BY <1>1, <1>3 DEF IndInv, Destroy, Poll, vars, InOrder, Alone, Begun, Decided,
       DecidedBy, Linked, LinkedFile, OneDriveFile, Delivered, OnItsWay, Settled,
       Queued, Busy
<1> QED
  BY <1>1, <1>2, <1>3, StepKinds, SafeRelease, SafeSend, SafeTake, SafeDone DEF IndInv

LEMMA SafeInit == Init => IndInv
<1> SUFFICES ASSUME Init PROVE IndInv
  OBVIOUS
<1>1. TypeInv
  BY TypeInit
<1>2. /\ \A f \in Files : last[f] = 0 /\ Len(drive[f]) <= 1
      /\ \A f \in Files : real[f] = 0 => drive[f] = <<>>
      /\ releases = 0 /\ sending = NoTask /\ Len(pool) = 0 /\ forgotten = {}
      /\ \A t \in Threads : thread[t].phase = "idle"
  <2>1. Len(<<0>>) = 1 /\ Len(<<>>) = 0
    OBVIOUS
  <2> QED BY <2>1 DEF Init, Resting
<1>3. Queued = {} /\ Busy = {}
  BY <1>2 DEF Queued, Busy
<1> QED
  BY <1>1, <1>2, <1>3 DEF IndInv, InOrder, Alone, Begun, Decided, DecidedBy, Linked,
       LinkedFile, OneDriveFile, Delivered

\* When destroy() has returned, nothing is on its way.
LEMMA UnmountedIsDone ==
  ASSUME IndInv
  PROVE  DestroyLosesNothing
<1> SUFFICES ASSUME mount = "unmounted", NEW f \in Files, last[f] # 0, f \notin failed
             PROVE  real[f] # 0 /\ drive[f][real[f]] = last[f]
  BY DEF DestroyLosesNothing
<1>1. /\ Cardinality(Busy) + Len(pool) + (IF sending = NoTask THEN 0 ELSE 1) = 0
      /\ Len(pool) \in Nat
  BY DEF IndInv, TypeInv, TypeOK, MountShape, Counted
<1>2. Busy = {} /\ Queued = {} /\ sending = NoTask
  BY <1>1, BusyFacts DEF Queued
<1>3. ~OnItsWay(f, last[f])
  <2>1. \A t \in Threads : thread[t].file # f
    BY <1>2, Numbers, NameFacts DEF IndInv
  <2>2. sending.file # f
    BY <1>2, NameFacts DEF NoTask
  <2> QED BY <1>2, <2>1, <2>2 DEF OnItsWay
<1> QED BY <1>3 DEF IndInv, Delivered

\* However many handles on a new file are released before its first upload is
\* over, and on whatever threads they are uploaded, Drive gets one file for it,
\* as long as no upload overtakes an earlier one of the same file (the late
\* promotion of the upload pool, replace_pending_id).
THEOREM NewFileCreatedOnce ==
  ASSUME Disturbances = {}
  PROVE  Spec => []OneDriveFile
<1>1. Init => IndInv
  BY SafeInit
<1>2. IndInv /\ [Next]_vars => IndInv'
  BY SafeStep
<1>3. IndInv => OneDriveFile
  BY DEF IndInv
<1> QED BY <1>1, <1>2, <1>3, PTL DEF Spec

\* Once destroy() has returned, Drive has the last content of every file whose
\* uploads have not failed, under the id its inode leads to, under the same
\* hypothesis.
THEOREM UnmountAbandonsNoWrite ==
  ASSUME Disturbances = {}
  PROVE  Spec => []DestroyLosesNothing
<1>1. Init => IndInv
  BY SafeInit
<1>2. IndInv /\ [Next]_vars => IndInv'
  BY SafeStep
<1>3. IndInv => DestroyLosesNothing
  BY UnmountedIsDone
<1> QED BY <1>1, <1>2, <1>3, PTL DEF Spec

===============================================================================
