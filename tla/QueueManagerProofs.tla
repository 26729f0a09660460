-------------------------- MODULE QueueManagerProofs --------------------------
(***************************************************************************)
(* What TLAPS proves about QueueManager, for any number of callers and     *)
(* keys and any bounds.  Types, owners and waiters are right with          *)
(* evictions or without; that a download is found (DownloadsAreCached) is  *)
(* proved for caches that evict nothing.  Last, QueueManager implements    *)
(* SingleFlight.                                                           *)
(*                                                                         *)
(* OneOwnerPerTask and NoLostWaiter speak of sets of places; the inductive *)
(* invariant says the same of the places pair by pair (Ownership,          *)
(* Registration), plus what a worker's phase says of its record.           *)
(***************************************************************************)
EXTENDS QueueManager, TLAPS

Sends(c) == caller[c].phase = "send"
Carries(p) == worker[p].phase \notin {"pause", "recv", "notify"}
Places(p) == 1..Len(channel[p])

\* The phase of a worker tells what its record holds.
Shape(w) ==
    /\ w.key = NoKey <=> w.phase \in {"pause", "recv"}
    /\ w.phase # "notify" => w.notify = {}
    /\ w.phase \in {"store", "remove", "notify"} => w.answer # "none"

WorkerShape == \A p \in Priority : Shape(worker[p])

\* Whoever has a task has it in `tracking` ...
OwnedIsTracked ==
    /\ \A c \in Callers : Sends(c) => caller[c].key \in tracked
    /\ \A p \in Priority : \A i \in Places(p) : channel[p][i].key \in tracked
    /\ \A p \in Priority : Carries(p) => worker[p].key \in tracked

\* ... whatever is in `tracking` somebody has ...
TrackedIsOwned ==
    \A k \in tracked :
        \/ \E c \in Callers : Sends(c) /\ caller[c].key = k
        \/ \E p \in Priority : \E i \in Places(p) : channel[p][i].key = k
        \/ \E p \in Priority : Carries(p) /\ worker[p].key = k

\* ... and nobody else has it.
OwnedOnce ==
    /\ \A c, d \in Callers :
          Sends(c) /\ Sends(d) /\ c # d => caller[c].key # caller[d].key
    /\ \A c \in Callers, p \in Priority : Sends(c) =>
          /\ \A i \in Places(p) : channel[p][i].key # caller[c].key
          /\ Carries(p) => worker[p].key # caller[c].key
    /\ \A p, q \in Priority : \A i \in Places(p), j \in Places(q) :
          channel[p][i].key = channel[q][j].key => p = q /\ i = j
    /\ \A p, q \in Priority : Carries(q) =>
          /\ \A i \in Places(p) : channel[p][i].key # worker[q].key
          /\ Carries(p) /\ p # q => worker[p].key # worker[q].key

Ownership == OwnedIsTracked /\ TrackedIsOwned /\ OwnedOnce

Waits(c) == caller[c].wait /\ caller[c].phase \in {"send", "wait"}

\* A handle under a tracked key is that of a caller of this key ...
WaitersKnown ==
    \A k \in Keys : \A c \in waiters[k] :
        /\ k \in tracked /\ k = caller[c].key
        /\ Waits(c) /\ result[c] = "none"
        /\ \A p \in Priority : c \notin worker[p].notify

\* ... so is one a worker is about to complete, and no other worker has it ...
NotifiedKnown ==
    \A p \in Priority : \A c \in worker[p].notify :
        /\ worker[p].key = caller[c].key
        /\ caller[c].wait /\ caller[c].phase = "wait" /\ result[c] = "none"
        /\ \A q \in Priority : c \in worker[q].notify => p = q

\* ... an answer lies with a blocked caller ...
AnsweredWaits ==
    \A c \in Callers : result[c] # "none" => caller[c].wait /\ caller[c].phase = "wait"

\* ... and a caller without an answer is known somewhere.
WaitingIsKnown ==
    \A c \in Callers : Waits(c) /\ result[c] = "none" =>
        \/ c \in waiters[caller[c].key]
        \/ \E p \in Priority : c \in worker[p].notify

Registration == WaitersKnown /\ NotifiedKnown /\ AnsweredWaits /\ WaitingIsKnown

IndInv == TypeOK /\ WorkerShape /\ Ownership /\ Registration

-----------------------------------------------------------------------------
(* Type correctness.                                                        *)

\* A caller inside a call holds a task of the right types, and stays typed when
\* it moves to another phase of that call.
LEMMA CallerTypes ==
  ASSUME TypeOK, NEW c \in Callers, caller[c].phase # "idle"
  PROVE  /\ caller[c].key \in Keys
         /\ caller[c].prio \in Priority
         /\ caller[c].wait \in BOOLEAN
         /\ \A ph \in {"entry", "send", "wait", "read"} : At(c, ph) \in CallerState
  BY DEF TypeOK, CallerState, Idle, At

\* Every record a worker's step writes is a worker record.
LEMMA WorkerTypes ==
  ASSUME TypeOK, NEW p \in Priority
  PROVE  /\ worker[p] \in WorkerState
         /\ Resting(p) \in WorkerState
         /\ \A ph \in WorkerPhase, a \in Answers \cup {"none"} :
               With(p, ph, a) \in WorkerState
         /\ \A task \in Task, ph \in WorkerPhase : Holding(task, ph) \in WorkerState
         /\ \A h \in SUBSET Callers : Notifying(p, h) \in WorkerState
<1>1. worker[p] \in WorkerState
  BY DEF TypeOK
<1>2. Resting(p) \in WorkerState
  BY DEF Resting, WorkerState, WorkerPhase
<1>3. ASSUME NEW ph \in WorkerPhase, NEW a \in Answers \cup {"none"}
      PROVE  With(p, ph, a) \in WorkerState
  BY <1>1 DEF With, WorkerState
<1>4. ASSUME NEW task \in Task, NEW ph \in WorkerPhase
      PROVE  Holding(task, ph) \in WorkerState
  BY DEF Holding, WorkerState, Task
<1>5. ASSUME NEW h \in SUBSET Callers PROVE Notifying(p, h) \in WorkerState
  BY <1>1, <1>2 DEF Notifying, WorkerState, WorkerPhase
<1> QED BY <1>1, <1>2, <1>3, <1>4, <1>5

\* Taking the head of a channel shifts the places of the other tasks by one.
LEMMA ChannelTypes ==
  ASSUME TypeOK, NEW p \in Priority
  PROVE  /\ channel[p] \in Seq(Task)
         /\ Len(channel[p]) \in Nat
         /\ channel[p] # <<>> =>
               /\ 1 \in Places(p)
               /\ Head(channel[p]) = channel[p][1]
               /\ Head(channel[p]) \in Task
               /\ Tail(channel[p]) \in Seq(Task)
               /\ Len(Tail(channel[p])) = Len(channel[p]) - 1
               /\ \A i \in 1..Len(Tail(channel[p])) :
                     i + 1 \in Places(p) /\ Tail(channel[p])[i] = channel[p][i + 1]
<1>1. channel[p] \in Seq(Task)
  BY DEF TypeOK
<1> QED BY <1>1 DEF Places

LEMMA TypeInit == Init => TypeOK
  BY KeysAssumption, BoundsAssumption
     DEF Init, TypeOK, Idle, Resting, CallerState, WorkerState, WorkerPhase,
         Priority, Prefetch, Task, Answers

LEMMA TypeStep == TypeOK /\ WorkerShape /\ [Next]_vars => TypeOK'
<1> SUFFICES ASSUME TypeOK, WorkerShape, [Next]_vars PROVE TypeOK'
  OBVIOUS
<1> USE DEF TypeOK
<1>1. ASSUME NEW c \in Callers, NEW s \in Site, Call(c, s) PROVE TypeOK'
  <2>1. s.key \in Keys /\ s.prio \in Priority /\ s.wait \in BOOLEAN
    BY DEF Site, Keys, Prefetch, Priority
  <2>2. caller' \in [Callers -> CallerState]
    BY <1>1, <2>1 DEF Call, CallerState
  <2>3. prefetchEpoch' \in 0..MaxEpoch
    BY <1>1, BoundsAssumption DEF Call
  <2> QED BY <1>1, <2>2, <2>3 DEF Call
<1>2. ASSUME NEW c \in Callers, CallerStep(c) PROVE TypeOK'
  <2>0. Idle \in CallerState
    BY DEF CallerState
  <2>1. CASE Attach(c)
    BY <2>0, <2>1, CallerTypes DEF Attach, Enqueued
  <2>2. CASE Insert(c)
    BY <2>2, CallerTypes DEF Insert
  <2>3. CASE Send(c)
    <3>1. caller' \in [Callers -> CallerState]
      BY <2>0, <2>3, CallerTypes DEF Send, Enqueued
    <3> DEFINE epoch == IF caller[c].prio \in Prefetch THEN prefetchEpoch ELSE 0
               task == [key |-> caller[c].key, epoch |-> epoch]
    <3>2. task \in Task
      <4>1. epoch \in Nat
        BY BoundsAssumption
      <4> QED BY <2>3, <4>1, CallerTypes DEF Send, Task
    <3>3. channel' = [channel EXCEPT ![caller[c].prio] = Append(@, task)]
      BY <2>3 DEF Send
    <3>4. channel' \in [Priority -> Seq(Task)]
      <4> HIDE DEF task
      <4> QED BY <2>3, <3>2, <3>3, CallerTypes DEF Send
    <3> QED BY <2>3, <3>1, <3>4 DEF Send
  <2>4. CASE Wake(c)
    BY <2>0, <2>4, CallerTypes DEF Wake
  <2>5. CASE Read(c)
    BY <2>0, <2>5 DEF Read
  <2> QED BY <1>2, <2>1, <2>2, <2>3, <2>4, <2>5 DEF CallerStep
<1>3. ASSUME NEW p \in Priority, WorkerStep(p) PROVE TypeOK'
  <2>1. CASE Receive(p)
    <3>2. Head(channel[p]) \in Task /\ Tail(channel[p]) \in Seq(Task)
      BY <2>1, ChannelTypes DEF Receive
    <3>3. channel' \in [Priority -> Seq(Task)]
      BY <2>1, <3>2 DEF Receive
    <3>4. worker' \in [Priority -> WorkerState]
      BY <2>1, <3>2, WorkerTypes DEF Receive, WorkerPhase
    <3> QED BY <2>1, <3>3, <3>4 DEF Receive
  <2>2. CASE PassPause(p)
    BY <2>2, WorkerTypes DEF PassPause, WorkerPhase
  <2>3. CASE Timeout(p)
    BY <2>3, WorkerTypes DEF Timeout, WorkerPhase
  <2>4. CASE RecheckPause(p)
    BY <2>4, WorkerTypes DEF RecheckPause, WorkerPhase
  <2>5. CASE Discard(p)
    BY <2>5, WorkerTypes DEF Discard, WorkerPhase, Answers
  <2>6. CASE Accept(p)
    BY <2>6, WorkerTypes DEF Accept, WorkerPhase
  <2>7. CASE Execute(p)
    <3>1. PICK a \in Answers : worker' = [worker EXCEPT ![p] = With(p, "store", a)]
      BY <2>7 DEF Execute, Outcomes, Answers
    <3> QED BY <2>7, <3>1, WorkerTypes DEF Execute, WorkerPhase
  <2>8. CASE Store(p)
    <3>0. worker[p].answer \in Answers \cup {"none"}
      BY WorkerTypes DEF WorkerState
    <3>1. worker' \in [Priority -> WorkerState]
      BY <2>8, <3>0, WorkerTypes DEF Store, WorkerPhase
    <3>2. cache' \in [Keys -> {"absent", "fresh", "expired"}]
      BY <2>8 DEF Store
    <3> QED BY <2>8, <3>1, <3>2 DEF Store
  <2>9. CASE Remove(p)
    <3>1. worker[p].key \in Keys
      BY <2>9, WorkerTypes DEF Remove, WorkerShape, Shape, WorkerState
    <3> QED BY <2>9, <3>1, WorkerTypes DEF Remove
  <2>10. ASSUME NEW c \in Callers, Complete(p, c) PROVE TypeOK'
    <3>1. worker[p].notify \in SUBSET Callers /\ worker[p].answer \in Answers \cup {"none"}
      BY WorkerTypes DEF WorkerState
    <3> QED BY <2>10, <3>1, WorkerTypes DEF Complete
  <2> QED BY <1>3, <2>1, <2>2, <2>3, <2>4, <2>5, <2>6, <2>7, <2>8, <2>9, <2>10
          DEF WorkerStep
<1>4. CASE StartUpload
  BY <1>4, BoundsAssumption DEF StartUpload
<1>5. CASE EndUpload
  BY <1>5, BoundsAssumption DEF EndUpload
<1>6. ASSUME NEW k \in Keys, Expire(k) \/ Evict(k) PROVE TypeOK'
  BY <1>6 DEF Expire, Evict
<1>7. CASE UNCHANGED vars
  BY <1>7 DEF vars
<1> QED BY <1>1, <1>2, <1>3, <1>4, <1>5, <1>6, <1>7 DEF Next

LEMMA ShapeInit == Init => WorkerShape
  BY KeysAssumption DEF Init, WorkerShape, Shape, Resting

LEMMA ShapeStep == TypeOK /\ WorkerShape /\ [Next]_vars => WorkerShape'
<1> SUFFICES ASSUME TypeOK, WorkerShape, [Next]_vars PROVE WorkerShape'
  OBVIOUS
<1>0. ASSUME NEW p \in Priority, NEW w, worker' = [worker EXCEPT ![p] = w], Shape(w)
      PROVE  WorkerShape'
  BY <1>0 DEF WorkerShape, TypeOK
<1>1. ASSUME NEW p \in Priority, WorkerStep(p) PROVE WorkerShape'
  <2>0. Shape(worker[p]) /\ Shape(Resting(p))
    BY KeysAssumption DEF WorkerShape, Shape, Resting
  <2>1. CASE PassPause(p) \/ Timeout(p)
    <3>1. Shape(With(p, "recv", "none")) /\ Shape(With(p, "pause", "none"))
      BY <2>0, <2>1 DEF PassPause, Timeout, Shape, With
    <3> QED BY <1>0, <2>1, <3>1 DEF PassPause, Timeout
  <2>2. CASE Receive(p)
    <3>1. Head(channel[p]).key \in Keys
      BY <2>2, ChannelTypes DEF Receive, Task
    <3>2. \A ph \in {"recheck", "execute"} : Shape(Holding(Head(channel[p]), ph))
      BY <3>1, KeysAssumption DEF Shape, Holding
    <3> QED BY <1>0, <2>2, <3>2 DEF Receive
  <2>3. CASE RecheckPause(p) \/ Accept(p)
    <3>1. Shape(With(p, "epoch", "none")) /\ Shape(With(p, "execute", "none"))
      BY <2>0, <2>3 DEF RecheckPause, Accept, Shape, With
    <3> QED BY <1>0, <2>3, <3>1 DEF RecheckPause, Accept
  <2>4. CASE Discard(p)
    <3>1. Shape(With(p, "remove", "notModified"))
      BY <2>0, <2>4 DEF Discard, Shape, With
    <3> QED BY <1>0, <2>4, <3>1 DEF Discard
  <2>5. CASE Execute(p)
    <3>1. PICK a \in Outcomes(worker[p].key) :
             worker' = [worker EXCEPT ![p] = With(p, "store", a)]
      BY <2>5 DEF Execute
    <3>2. a # "none"
      BY DEF Outcomes
    <3>3. Shape(With(p, "store", a))
      BY <2>0, <2>5, <3>2 DEF Execute, Shape, With
    <3> QED BY <1>0, <3>1, <3>3
  <2>6. CASE Store(p)
    <3>1. Shape(With(p, "remove", worker[p].answer))
      BY <2>0, <2>6 DEF Store, Shape, With
    <3> QED BY <1>0, <2>6, <3>1 DEF Store
  <2>7. CASE Remove(p)
    <3>1. Shape(Notifying(p, waiters[worker[p].key]))
      BY <2>0, <2>7 DEF Remove, Shape, Notifying
    <3> QED BY <1>0, <2>7, <3>1 DEF Remove
  <2>8. ASSUME NEW c \in Callers, Complete(p, c) PROVE WorkerShape'
    <3>1. Shape(Notifying(p, worker[p].notify \ {c}))
      BY <2>0, <2>8 DEF Complete, Shape, Notifying
    <3> QED BY <1>0, <2>8, <3>1 DEF Complete
  <2> QED BY <1>1, <2>1, <2>2, <2>3, <2>4, <2>5, <2>6, <2>7, <2>8 DEF WorkerStep
<1>2. ASSUME UNCHANGED worker PROVE WorkerShape'
  BY <1>2 DEF WorkerShape
<1> QED BY <1>1, <1>2 DEF Next, CallerStep, Call, Attach, Insert, Send, Wake, Read,
                          StartUpload, EndUpload, Expire, Evict, vars

\* Every variable has its type in every reachable state: the upload counter
\* never goes below zero, a task in a channel is a task.
THEOREM TypeCorrect == Spec => []TypeOK
<1>1. Init => TypeOK /\ WorkerShape
  BY TypeInit, ShapeInit
<1>2. TypeOK /\ WorkerShape /\ [Next]_vars => (TypeOK /\ WorkerShape)'
  BY TypeStep, ShapeStep
<1> QED BY <1>1, <1>2, PTL DEF Spec

-----------------------------------------------------------------------------
(* Ownership: a key is tracked exactly while one place has it.              *)

LEMMA OwnershipInit == Init => Ownership
  BY DEF Init, Ownership, OwnedIsTracked, TrackedIsOwned, OwnedOnce, Sends,
         Carries, Places, Idle, Resting

\* A step that moves no task from one place to another disturbs nothing.
LEMMA OwnershipFrame ==
  ASSUME Ownership, UNCHANGED <<tracked, channel>>,
         \A c \in Callers : Sends(c)' = Sends(c) /\ (Sends(c) => caller'[c].key = caller[c].key),
         \A p \in Priority : Carries(p)' = Carries(p) /\ (Carries(p) => worker'[p].key = worker[p].key)
  PROVE  Ownership'
<1>1. OwnedIsTracked'
  BY DEF Ownership, OwnedIsTracked, Places
<1>2. TrackedIsOwned'
  BY DEF Ownership, TrackedIsOwned, Places
<1>3. OwnedOnce'
  BY DEF Ownership, OwnedOnce, Places
<1> QED BY <1>1, <1>2, <1>3 DEF Ownership

\* Insert: the new key had no owner because it was not tracked.
LEMMA OwnershipInsert ==
  ASSUME IndInv, NEW c \in Callers, Insert(c)
  PROVE  Ownership'
<1> DEFINE k == caller[c].key
<1>1. k \in Keys /\ k \notin tracked /\ ~Sends(c)
  BY CallerTypes DEF IndInv, Insert, Sends
<1>2. /\ tracked' = tracked \cup {k}
      /\ UNCHANGED <<channel, worker>>
      /\ \A d \in Callers : Sends(d)' <=> (d = c \/ Sends(d))
      /\ \A d \in Callers : caller'[d].key = caller[d].key
  BY DEF IndInv, TypeOK, Insert, At, Sends
<1>3. \A p \in Priority : Carries(p)' = Carries(p) /\ Places(p)' = Places(p)
  BY <1>2 DEF Carries, Places
<1>4. OwnedIsTracked'
  BY <1>2, <1>3 DEF IndInv, Ownership, OwnedIsTracked
<1>5. TrackedIsOwned'
  BY <1>2, <1>3 DEF IndInv, Ownership, TrackedIsOwned
<1>6. OwnedOnce'
  BY <1>1, <1>2, <1>3 DEF IndInv, Ownership, OwnedIsTracked, OwnedOnce
<1> QED BY <1>4, <1>5, <1>6 DEF Ownership

\* Send: the task goes from the caller to the end of one channel.
LEMMA OwnershipSend ==
  ASSUME IndInv, NEW c \in Callers, Send(c)
  PROVE  Ownership'
<1>0. PICK k \in Keys, p \in Priority : k = caller[c].key /\ p = caller[c].prio
  BY CallerTypes DEF IndInv, Send
<1>1. Sends(c) /\ Len(channel[p]) \in Nat
  BY ChannelTypes DEF IndInv, Send, Sends
<1>9. PICK n \in Nat : n = Len(channel[p]) + 1
  BY <1>1
<1>2. /\ UNCHANGED <<tracked, worker>>
      /\ \A d \in Callers : Sends(d)' <=> (d # c /\ Sends(d))
      /\ \A d \in Callers \ {c} : caller'[d].key = caller[d].key
  BY DEF IndInv, TypeOK, Send, Enqueued, At, Idle, Sends
<1>3. \A q \in Priority : Carries(q)' = Carries(q)
  BY <1>2 DEF Carries
<1>4. PICK task : task.key = k /\ channel' = [channel EXCEPT ![p] = Append(@, task)]
  BY <1>0 DEF Send
<1>5. /\ \A q \in Priority \ {p} : channel'[q] = channel[q] /\ Places(q)' = Places(q)
      /\ Places(p)' = Places(p) \cup {n} /\ n \notin Places(p)
      /\ channel'[p][n].key = k
      /\ \A i \in Places(p) : channel'[p][i] = channel[p][i]
  <2>1. channel'[p] = Append(channel[p], task) /\ channel[p] \in Seq(Task)
    BY <1>4 DEF IndInv, TypeOK
  <2>2. /\ Len(Append(channel[p], task)) = n
        /\ Append(channel[p], task)[n] = task
        /\ \A i \in 1..Len(channel[p]) : Append(channel[p], task)[i] = channel[p][i]
    BY <1>1, <1>9, <2>1
  <2>3. \A q \in Priority \ {p} : channel'[q] = channel[q] /\ Places(q)' = Places(q)
    BY <1>4 DEF IndInv, TypeOK, Places
  <2>4. Places(p)' = Places(p) \cup {n} /\ n \notin Places(p)
    BY <1>1, <1>9, <2>1, <2>2 DEF Places
  <2> QED BY <1>4, <2>1, <2>2, <2>3, <2>4 DEF Places
<1>6. OwnedIsTracked'
  <2>1. k \in tracked
    BY <1>0, <1>1 DEF IndInv, Ownership, OwnedIsTracked
  <2> QED BY <1>2, <1>3, <1>5, <2>1 DEF IndInv, Ownership, OwnedIsTracked
<1>7. TrackedIsOwned'
  <2> SUFFICES ASSUME NEW j \in tracked
               PROVE  \/ \E d \in Callers : Sends(d)' /\ caller'[d].key = j
                      \/ \E q \in Priority : \E i \in Places(q)' : channel'[q][i].key = j
                      \/ \E q \in Priority : Carries(q)' /\ worker'[q].key = j
    BY <1>2 DEF TrackedIsOwned
  <2>1. CASE j = k
    BY <1>5, <2>1
  <2>2. ASSUME j # k, NEW d \in Callers, Sends(d), caller[d].key = j
        PROVE  \E e \in Callers : Sends(e)' /\ caller'[e].key = j
    BY <1>0, <1>2, <2>2
  <2>3. ASSUME NEW q \in Priority, NEW i \in Places(q), channel[q][i].key = j
        PROVE  \E r \in Priority : \E m \in Places(r)' : channel'[r][m].key = j
    BY <1>5, <2>3
  <2>4. ASSUME NEW q \in Priority, Carries(q), worker[q].key = j
        PROVE  \E r \in Priority : Carries(r)' /\ worker'[r].key = j
    BY <1>2, <1>3, <2>4
  <2> QED BY <2>1, <2>2, <2>3, <2>4 DEF IndInv, Ownership, TrackedIsOwned
<1>8. OwnedOnce'
  <2> USE DEF IndInv, Ownership, OwnedOnce
  <2>1. \A d \in Callers : Sends(d) /\ d # c => caller[d].key # k
    BY <1>0, <1>1
  <2>2. \A q \in Priority : \A i \in Places(q) : channel[q][i].key # k
    BY <1>0, <1>1
  <2>3. \A q \in Priority : Carries(q) => worker[q].key # k
    BY <1>0, <1>1
  <2>4. ASSUME NEW d \in Callers, NEW e \in Callers, Sends(d)', Sends(e)', d # e
        PROVE  caller'[d].key # caller'[e].key
    BY <1>2, <2>4
  <2>5. ASSUME NEW d \in Callers, NEW q \in Priority, Sends(d)'
        PROVE  /\ \A i \in Places(q)' : channel'[q][i].key # caller'[d].key
               /\ Carries(q)' => worker'[q].key # caller'[d].key
    BY <1>2, <1>3, <1>5, <2>1, <2>5
  <2>6. ASSUME NEW q \in Priority, NEW r \in Priority,
               NEW i \in Places(q)', NEW j \in Places(r)',
               channel'[q][i].key = channel'[r][j].key
        PROVE  q = r /\ i = j
    BY <1>5, <2>2, <2>6
  <2>7. ASSUME NEW q \in Priority, NEW r \in Priority, Carries(r)'
        PROVE  /\ \A i \in Places(q)' : channel'[q][i].key # worker'[r].key
               /\ Carries(q)' /\ q # r => worker'[q].key # worker'[r].key
    BY <1>2, <1>3, <1>5, <2>3, <2>7
  <2> QED BY <2>4, <2>5, <2>6, <2>7
<1> QED BY <1>6, <1>7, <1>8 DEF Ownership

\* Receive: the head of the channel goes to the worker, the rest moves up.
LEMMA OwnershipReceive ==
  ASSUME IndInv, NEW p \in Priority, Receive(p)
  PROVE  Ownership'
<1>1. PICK task \in Task, rest \in Seq(Task), n \in Nat :
        /\ task = Head(channel[p]) /\ rest = Tail(channel[p])
        /\ n = Len(channel[p]) /\ Len(rest) = n - 1
        /\ 1 \in Places(p) /\ channel[p][1] = task
        /\ \A i \in 1..Len(rest) : i + 1 \in Places(p) /\ rest[i] = channel[p][i + 1]
  BY ChannelTypes DEF IndInv, Receive
<1>2. UNCHANGED <<caller, tracked>> /\ channel' = [channel EXCEPT ![p] = rest]
  BY <1>1 DEF Receive
<1>3. /\ \A q \in Priority \ {p} : worker'[q] = worker[q]
      /\ ~Carries(p) /\ Carries(p)' /\ worker'[p].key = task.key
  BY <1>1 DEF IndInv, TypeOK, Receive, Holding, Carries
<1>4. /\ \A q \in Priority \ {p} : /\ channel'[q] = channel[q]
                                   /\ Places(q)' = Places(q)
                                   /\ Carries(q)' = Carries(q)
      /\ \A i \in Places(p)' : i + 1 \in Places(p) /\ channel'[p][i] = channel[p][i + 1]
      /\ \A i \in Places(p) : i = 1 \/ (i - 1 \in Places(p)' /\ channel'[p][i - 1] = channel[p][i])
      /\ Places(p) \subseteq Nat \ {0} /\ Places(p)' \subseteq Nat \ {0}
  <2>1. channel'[p] = rest /\ \A q \in Priority \ {p} : channel'[q] = channel[q]
    BY <1>2 DEF IndInv, TypeOK
  <2>2. \A i \in Places(p)' : i + 1 \in Places(p) /\ channel'[p][i] = channel[p][i + 1]
    BY <1>1, <2>1 DEF Places
  <2>3. \A i \in Places(p) : i = 1 \/ (i - 1 \in Places(p)' /\ channel'[p][i - 1] = channel[p][i])
    <3> SUFFICES ASSUME NEW i \in Places(p), i # 1
                 PROVE  i - 1 \in Places(p)' /\ channel'[p][i - 1] = channel[p][i]
      OBVIOUS
    <3>1. i - 1 \in 1..Len(rest) /\ (i - 1) + 1 = i
      BY <1>1 DEF Places
    <3> QED BY <1>1, <2>1, <3>1 DEF Places
  <2> QED BY <1>3, <2>1, <2>2, <2>3 DEF Places, Carries
<1>5. OwnedIsTracked'
  <2>1. task.key \in tracked
    BY <1>1 DEF IndInv, Ownership, OwnedIsTracked
  <2>2. \A c \in Callers : Sends(c)' => caller'[c].key \in tracked'
    BY <1>2 DEF IndInv, Ownership, OwnedIsTracked, Sends
  <2>3. \A q \in Priority : \A i \in Places(q)' : channel'[q][i].key \in tracked'
    BY <1>2, <1>4 DEF IndInv, Ownership, OwnedIsTracked
  <2>4. \A q \in Priority : Carries(q)' => worker'[q].key \in tracked'
    BY <1>2, <1>3, <1>4, <2>1 DEF IndInv, Ownership, OwnedIsTracked
  <2> QED BY <2>2, <2>3, <2>4 DEF OwnedIsTracked
<1>6. TrackedIsOwned'
  <2> SUFFICES ASSUME NEW j \in tracked
               PROVE  \/ \E d \in Callers : Sends(d)' /\ caller'[d].key = j
                      \/ \E q \in Priority : \E i \in Places(q)' : channel'[q][i].key = j
                      \/ \E q \in Priority : Carries(q)' /\ worker'[q].key = j
    BY <1>2 DEF TrackedIsOwned
  <2>1. ASSUME NEW d \in Callers, Sends(d), caller[d].key = j
        PROVE  Sends(d)' /\ caller'[d].key = j
    BY <1>2, <2>1 DEF Sends
  <2>2. ASSUME NEW q \in Priority, NEW i \in Places(q), channel[q][i].key = j
        PROVE  \/ \E r \in Priority : \E m \in Places(r)' : channel'[r][m].key = j
               \/ Carries(p)' /\ worker'[p].key = j
    <3>1. CASE q # p
      BY <1>4, <2>2, <3>1
    <3>2. CASE q = p /\ i = 1
      BY <1>1, <1>3, <2>2, <3>2
    <3>3. CASE q = p /\ i # 1
      BY <1>4, <2>2, <3>3
    <3> QED BY <3>1, <3>2, <3>3
  <2>3. ASSUME NEW q \in Priority, Carries(q), worker[q].key = j
        PROVE  Carries(q)' /\ worker'[q].key = j
    BY <1>3, <1>4, <2>3
  <2> QED BY <2>1, <2>2, <2>3 DEF IndInv, Ownership, TrackedIsOwned
<1>7. OwnedOnce'
  <2> USE DEF IndInv, Ownership, OwnedOnce
  <2>1. \A d \in Callers : Sends(d) => caller[d].key # task.key
    BY <1>1
  <2>2. \A q \in Priority : Carries(q) => worker[q].key # task.key
    BY <1>1
  <2>3. \A q \in Priority : \A i \in Places(q) :
           channel[q][i].key = task.key => q = p /\ i = 1
    BY <1>1
  <2>4. \A d \in Callers : Sends(d)' = Sends(d) /\ caller'[d] = caller[d]
    BY <1>2 DEF Sends
  <2>5. ASSUME NEW q \in Priority, NEW i \in Places(q)'
        PROVE  \E m \in Places(q) : /\ channel'[q][i] = channel[q][m]
                                    /\ q = p => m = i + 1
                                    /\ q # p => m = i
    BY <1>4
  <2>6. ASSUME NEW d \in Callers, NEW e \in Callers, Sends(d)', Sends(e)', d # e
        PROVE  caller'[d].key # caller'[e].key
    BY <2>4, <2>6
  <2>7. ASSUME NEW d \in Callers, NEW q \in Priority, Sends(d)'
        PROVE  /\ \A i \in Places(q)' : channel'[q][i].key # caller'[d].key
               /\ Carries(q)' => worker'[q].key # caller'[d].key
    <3>1. \A i \in Places(q)' : channel'[q][i].key # caller'[d].key
      BY <2>4, <2>5, <2>7
    <3>2. Carries(q)' => worker'[q].key # caller'[d].key
      BY <1>3, <1>4, <2>1, <2>4, <2>7
    <3> QED BY <3>1, <3>2
  <2>8. ASSUME NEW q \in Priority, NEW r \in Priority,
               NEW i \in Places(q)', NEW j \in Places(r)',
               channel'[q][i].key = channel'[r][j].key
        PROVE  q = r /\ i = j
    <3>1. PICK m \in Places(q) : /\ channel'[q][i] = channel[q][m]
                                 /\ (q = p => m = i + 1) /\ (q # p => m = i)
      BY <2>5
    <3>2. PICK l \in Places(r) : /\ channel'[r][j] = channel[r][l]
                                 /\ (r = p => l = j + 1) /\ (r # p => l = j)
      BY <2>5
    <3>3. q = r /\ m = l
      BY <2>8, <3>1, <3>2
    <3> QED BY <1>4, <3>1, <3>2, <3>3
  <2>9. ASSUME NEW q \in Priority, NEW r \in Priority, Carries(r)'
        PROVE  /\ \A i \in Places(q)' : channel'[q][i].key # worker'[r].key
               /\ Carries(q)' /\ q # r => worker'[q].key # worker'[r].key
    <3>1. ASSUME NEW i \in Places(q)' PROVE channel'[q][i].key # worker'[r].key
      <4>1. PICK m \in Places(q) : /\ channel'[q][i] = channel[q][m]
                                   /\ (q = p => m = i + 1) /\ (q # p => m = i)
        BY <2>5
      <4>2. CASE r = p
        <5>1. ~(q = p /\ m = 1)
          BY <1>4, <4>1
        <5> QED BY <1>3, <2>3, <4>1, <4>2, <5>1
      <4>3. CASE r # p
        <5>1. Carries(r) /\ worker'[r] = worker[r]
          BY <1>3, <1>4, <2>9, <4>3
        <5>2. channel[q][m].key # worker[r].key
          BY <4>1, <5>1
        <5> QED BY <4>1, <5>1, <5>2
      <4> QED BY <4>2, <4>3
    <3>2. Carries(q)' /\ q # r => worker'[q].key # worker'[r].key
      BY <1>3, <1>4, <2>2, <2>9
    <3> QED BY <3>1, <3>2
  <2> QED BY <2>6, <2>7, <2>8, <2>9
<1> QED BY <1>5, <1>6, <1>7 DEF Ownership

\* Remove: the worker was the only owner of the key it takes out.
LEMMA OwnershipRemove ==
  ASSUME IndInv, NEW p \in Priority, Remove(p)
  PROVE  Ownership'
<1>1. PICK k : k = worker[p].key
  OBVIOUS
<1>2. /\ UNCHANGED <<caller, channel>> /\ tracked' = tracked \ {k}
      /\ Carries(p) /\ ~Carries(p)'
      /\ \A q \in Priority \ {p} : worker'[q] = worker[q] /\ Carries(q)' = Carries(q)
  BY <1>1 DEF IndInv, TypeOK, Remove, Notifying, Resting, Carries
<1>3. \A c \in Callers : Sends(c)' = Sends(c) /\ caller'[c] = caller[c]
  BY <1>2 DEF Sends
<1>4. \A q \in Priority : Places(q)' = Places(q) /\ channel'[q] = channel[q]
  BY <1>2 DEF Places
<1>5. OwnedIsTracked'
  BY <1>1, <1>2, <1>3, <1>4 DEF IndInv, Ownership, OwnedIsTracked, OwnedOnce
<1>6. TrackedIsOwned'
  BY <1>1, <1>2, <1>3, <1>4 DEF IndInv, Ownership, TrackedIsOwned
<1>7. OwnedOnce'
  BY <1>2, <1>3, <1>4 DEF IndInv, Ownership, OwnedOnce
<1> QED BY <1>5, <1>6, <1>7 DEF Ownership

LEMMA OwnershipStep == IndInv /\ [Next]_vars => Ownership'
<1> SUFFICES ASSUME IndInv, [Next]_vars PROVE Ownership'
  OBVIOUS
<1>0. Ownership
  BY DEF IndInv
<1>1. ASSUME NEW c \in Callers, NEW s \in Site, Call(c, s) PROVE Ownership'
  <2>1. \A d \in Callers : Sends(d)' = Sends(d) /\ (Sends(d) => caller'[d].key = caller[d].key)
    BY <1>1 DEF IndInv, TypeOK, Call, Sends
  <2> QED BY <1>0, <1>1, <2>1, OwnershipFrame DEF Call, Carries
<1>2. ASSUME NEW c \in Callers, CallerStep(c) PROVE Ownership'
  <2>1. CASE Attach(c) \/ Wake(c) \/ Read(c)
    <3>1. \A d \in Callers : Sends(d)' = Sends(d) /\ (Sends(d) => caller'[d].key = caller[d].key)
      BY <2>1 DEF IndInv, TypeOK, Attach, Enqueued, Wake, Read, At, Idle, Sends
    <3> QED BY <1>0, <2>1, <3>1, OwnershipFrame DEF Attach, Wake, Read, Carries
  <2> QED BY <1>2, <2>1, OwnershipInsert, OwnershipSend DEF CallerStep
<1>3. ASSUME NEW p \in Priority, WorkerStep(p) PROVE Ownership'
  <2>1. ASSUME UNCHANGED <<caller, tracked, channel>>, NEW w,
               worker' = [worker EXCEPT ![p] = w],
               w.phase \in {"pause", "recv", "notify"} <=> ~Carries(p),
               Carries(p) => w.key = worker[p].key
        PROVE  Ownership'
    <3>1. \A q \in Priority : Carries(q)' = Carries(q) /\ (Carries(q) => worker'[q].key = worker[q].key)
      BY <2>1 DEF IndInv, TypeOK, Carries
    <3> QED BY <1>0, <2>1, <3>1, OwnershipFrame DEF Sends
  <2>2. CASE PassPause(p)
    BY <2>1, <2>2 DEF PassPause, With, Carries
  <2>3. CASE Timeout(p)
    BY <2>1, <2>3 DEF Timeout, With, Carries
  <2>4. CASE RecheckPause(p)
    BY <2>1, <2>4 DEF RecheckPause, With, Carries
  <2>5. CASE Discard(p)
    BY <2>1, <2>5 DEF Discard, With, Carries
  <2>6. CASE Accept(p)
    BY <2>1, <2>6 DEF Accept, With, Carries
  <2>7. CASE Execute(p)
    BY <2>1, <2>7 DEF Execute, With, Carries
  <2>8. CASE Store(p)
    BY <2>1, <2>8 DEF Store, With, Carries
  <2>9. ASSUME NEW c \in Callers, Complete(p, c) PROVE Ownership'
    BY <2>1, <2>9 DEF Complete, Notifying, Resting, Carries
  <2> QED BY <1>3, <2>2, <2>3, <2>4, <2>5, <2>6, <2>7, <2>8, <2>9,
             OwnershipReceive, OwnershipRemove DEF WorkerStep
<1>4. ASSUME UNCHANGED <<caller, tracked, channel, worker>> PROVE Ownership'
  BY <1>0, <1>4, OwnershipFrame DEF Sends, Carries
<1> QED BY <1>1, <1>2, <1>3, <1>4
        DEF Next, StartUpload, EndUpload, Expire, Evict, vars

-----------------------------------------------------------------------------
(* Registration: every blocked caller is known in exactly one place.        *)

LEMMA RegistrationInit == Init => Registration
  BY DEF Init, Registration, WaitersKnown, NotifiedKnown, AnsweredWaits,
         WaitingIsKnown, Waits, Idle, Resting

\* A caller that does not wait, before and after.
LEMMA RegistrationBystander ==
  ASSUME IndInv, NEW c \in Callers, NEW w,
         caller' = [caller EXCEPT ![c] = w],
         ~Waits(c), ~(w.wait /\ w.phase \in {"send", "wait"}),
         tracked \subseteq tracked', UNCHANGED <<result, waiters, worker>>
  PROVE  Registration'
<1>1. /\ caller'[c] = w
      /\ \A d \in Callers \ {c} : caller'[d] = caller[d] /\ Waits(d)' = Waits(d)
      /\ Waits(c)' = FALSE
  BY DEF IndInv, TypeOK, Waits
<1>2. waiters \in [Keys -> SUBSET Callers] /\ \A p \in Priority : worker[p].notify \subseteq Callers
  BY WorkerTypes DEF IndInv, TypeOK, WorkerState
<1>3. result[c] = "none" /\ (\A k \in Keys : c \notin waiters[k])
      /\ \A p \in Priority : c \notin worker[p].notify
  BY DEF IndInv, Registration, WaitersKnown, NotifiedKnown, AnsweredWaits, Waits
<1>4. WaitersKnown'
  BY <1>1, <1>2, <1>3 DEF IndInv, Registration, WaitersKnown
<1>5. NotifiedKnown'
  BY <1>1, <1>2, <1>3 DEF IndInv, Registration, NotifiedKnown
<1>6. AnsweredWaits'
  BY <1>1, <1>3 DEF IndInv, Registration, AnsweredWaits
<1>7. WaitingIsKnown'
  BY <1>1, <1>3 DEF IndInv, Registration, WaitingIsKnown
<1> QED BY <1>4, <1>5, <1>6, <1>7 DEF Registration

\* A caller that did not wait leaves its handle under a key that is tracked.
LEMMA RegistrationJoin ==
  ASSUME IndInv, NEW c \in Callers, NEW k \in Keys, NEW w,
         caller' = [caller EXCEPT ![c] = w],
         waiters' = [waiters EXCEPT ![k] = @ \cup {c}],
         ~Waits(c), w.key = k, w.wait, w.phase \in {"send", "wait"},
         k \in tracked', tracked \subseteq tracked', UNCHANGED <<result, worker>>
  PROVE  Registration'
<1>1. /\ caller'[c] = w /\ Waits(c)'
      /\ \A d \in Callers \ {c} : caller'[d] = caller[d] /\ Waits(d)' = Waits(d)
  BY DEF IndInv, TypeOK, Waits
<1>2. waiters \in [Keys -> SUBSET Callers] /\ \A p \in Priority : worker[p].notify \subseteq Callers
  BY WorkerTypes DEF IndInv, TypeOK, WorkerState
<1>3. result[c] = "none" /\ (\A j \in Keys : c \notin waiters[j])
      /\ \A p \in Priority : c \notin worker[p].notify
  BY DEF IndInv, Registration, WaitersKnown, NotifiedKnown, AnsweredWaits, Waits
<1>4. \A j \in Keys : waiters'[j] = IF j = k THEN waiters[k] \cup {c} ELSE waiters[j]
  BY <1>2
<1>5. WaitersKnown'
  BY <1>1, <1>2, <1>3, <1>4 DEF IndInv, Registration, WaitersKnown
<1>6. NotifiedKnown'
  BY <1>1, <1>2, <1>3 DEF IndInv, Registration, NotifiedKnown
<1>7. AnsweredWaits'
  BY <1>1, <1>3 DEF IndInv, Registration, AnsweredWaits
<1>8. WaitingIsKnown'
  <2> SUFFICES ASSUME NEW d \in Callers, Waits(d)', result'[d] = "none"
               PROVE  \/ d \in waiters'[caller'[d].key]
                      \/ \E p \in Priority : d \in worker'[p].notify
    BY DEF WaitingIsKnown
  <2>1. CASE d = c
    BY <1>1, <1>4, <2>1
  <2>2. CASE d # c
    <3>1. caller[d].key \in Keys
      BY <1>1, <2>2, CallerTypes DEF IndInv, Waits
    <3> QED BY <1>1, <1>4, <2>2, <3>1 DEF IndInv, Registration, WaitingIsKnown
  <2> QED BY <2>1, <2>2
<1> QED BY <1>5, <1>6, <1>7, <1>8 DEF Registration

\* Workers that keep the handles they hold, and the key they hold them for.
LEMMA RegistrationWorkers ==
  ASSUME Registration, UNCHANGED <<caller, result, waiters, tracked>>,
         \A p \in Priority : /\ worker'[p].notify = worker[p].notify
                             /\ worker[p].notify # {} => worker'[p].key = worker[p].key
  PROVE  Registration'
<1>1. WaitersKnown' /\ AnsweredWaits' /\ WaitingIsKnown'
  BY DEF Registration, WaitersKnown, AnsweredWaits, WaitingIsKnown, Waits
<1>2. NotifiedKnown'
  BY DEF Registration, NotifiedKnown
<1> QED BY <1>1, <1>2 DEF Registration

LEMMA RegistrationSend ==
  ASSUME IndInv, NEW c \in Callers, Send(c)
  PROVE  Registration'
<1>1. CASE ~caller[c].wait
  BY <1>1, RegistrationBystander DEF Send, Enqueued, Idle, Waits
<1>2. CASE caller[c].wait
  <2>1. /\ caller'[c].key = caller[c].key /\ caller'[c].wait /\ caller'[c].phase = "wait"
        /\ \A d \in Callers \ {c} : caller'[d] = caller[d]
        /\ \A d \in Callers : Waits(d)' = Waits(d) /\ caller'[d].key = caller[d].key
        /\ UNCHANGED <<result, waiters, worker, tracked>>
    BY <1>2 DEF IndInv, TypeOK, Send, Enqueued, At, Waits
  <2>2. waiters \in [Keys -> SUBSET Callers] /\ \A p \in Priority : worker[p].notify \subseteq Callers
    BY WorkerTypes DEF IndInv, TypeOK, WorkerState
  <2>3. \A p \in Priority : c \notin worker[p].notify
    BY DEF IndInv, Registration, NotifiedKnown, Send
  <2>4. WaitersKnown'
    BY <2>1, <2>2 DEF IndInv, Registration, WaitersKnown
  <2>5. NotifiedKnown'
    BY <2>1, <2>2, <2>3 DEF IndInv, Registration, NotifiedKnown
  <2>6. AnsweredWaits' /\ WaitingIsKnown'
    BY <2>1 DEF IndInv, Registration, AnsweredWaits, WaitingIsKnown
  <2> QED BY <2>4, <2>5, <2>6 DEF Registration
<1> QED BY <1>1, <1>2

LEMMA RegistrationWake ==
  ASSUME IndInv, NEW c \in Callers, Wake(c)
  PROVE  Registration'
<1>1. /\ result'[c] = "none" /\ caller'[c].phase \in {"idle", "read"} /\ ~Waits(c)'
      /\ \A d \in Callers \ {c} : /\ caller'[d] = caller[d] /\ Waits(d)' = Waits(d)
                                  /\ result'[d] = result[d]
      /\ UNCHANGED <<waiters, worker, tracked>>
  BY DEF IndInv, TypeOK, Wake, At, Idle, Waits
<1>2. waiters \in [Keys -> SUBSET Callers] /\ \A p \in Priority : worker[p].notify \subseteq Callers
  BY WorkerTypes DEF IndInv, TypeOK, WorkerState
<1>3. (\A k \in Keys : c \notin waiters[k]) /\ \A p \in Priority : c \notin worker[p].notify
  BY DEF IndInv, Registration, WaitersKnown, NotifiedKnown, Wake
<1>4. WaitersKnown'
  BY <1>1, <1>2, <1>3 DEF IndInv, Registration, WaitersKnown
<1>5. NotifiedKnown'
  BY <1>1, <1>2, <1>3 DEF IndInv, Registration, NotifiedKnown
<1>6. AnsweredWaits' /\ WaitingIsKnown'
  BY <1>1 DEF IndInv, Registration, AnsweredWaits, WaitingIsKnown
<1> QED BY <1>4, <1>5, <1>6 DEF Registration

\* Remove: the handles of the key move to the worker; their callers have sent,
\* for the caller that has not would own the key beside the worker.
LEMMA RegistrationRemove ==
  ASSUME IndInv, NEW p \in Priority, Remove(p)
  PROVE  Registration'
<1>1. PICK k \in Keys : k = worker[p].key
  BY WorkerTypes DEF IndInv, WorkerShape, Shape, WorkerState, Remove
<1>2. PICK h : h = waiters[k]
  OBVIOUS
<1>3. /\ UNCHANGED <<caller, result>> /\ tracked' = tracked \ {k}
      /\ waiters' = [waiters EXCEPT ![k] = {}]
      /\ worker' = [worker EXCEPT ![p] = Notifying(p, h)]
      /\ Carries(p) /\ worker[p].notify = {}
  BY <1>1, <1>2 DEF IndInv, WorkerShape, Shape, Remove, Carries
<1>4. /\ worker'[p].notify = h /\ (h # {} => worker'[p].key = k)
      /\ \A q \in Priority \ {p} : worker'[q] = worker[q]
  BY <1>1, <1>3 DEF IndInv, TypeOK, Notifying, Resting
<1>5. /\ waiters'[k] = {} /\ \A j \in Keys \ {k} : waiters'[j] = waiters[j]
      /\ waiters \in [Keys -> SUBSET Callers]
  BY <1>3 DEF IndInv, TypeOK
<1>6. \A c \in Callers : Waits(c)' = Waits(c)
  BY <1>3 DEF Waits
<1>7. \A c \in h : /\ c \in Callers /\ caller[c].key = k /\ caller[c].wait
                   /\ caller[c].phase = "wait" /\ result[c] = "none"
                   /\ \A q \in Priority : c \notin worker[q].notify
  <2> SUFFICES ASSUME NEW c \in h
               PROVE  /\ c \in Callers /\ caller[c].key = k /\ caller[c].wait
                      /\ caller[c].phase = "wait" /\ result[c] = "none"
                      /\ \A q \in Priority : c \notin worker[q].notify
    OBVIOUS
  <2>1. /\ c \in Callers /\ caller[c].key = k /\ Waits(c) /\ result[c] = "none"
        /\ \A q \in Priority : c \notin worker[q].notify
    BY <1>2, <1>5 DEF IndInv, Registration, WaitersKnown
  <2>2. ~Sends(c)
    BY <1>1, <1>3, <2>1 DEF IndInv, Ownership, OwnedOnce
  <2> QED BY <2>1, <2>2 DEF Waits, Sends
<1>8. WaitersKnown'
  <2> SUFFICES ASSUME NEW j \in Keys, NEW c \in waiters'[j]
               PROVE  /\ j \in tracked' /\ j = caller'[c].key
                      /\ Waits(c)' /\ result'[c] = "none"
                      /\ \A q \in Priority : c \notin worker'[q].notify
    BY DEF WaitersKnown
  <2>1. j # k /\ c \in waiters[j]
    BY <1>5
  <2>2. /\ j \in tracked /\ j = caller[c].key /\ Waits(c) /\ result[c] = "none"
        /\ \A q \in Priority : c \notin worker[q].notify
    BY <2>1 DEF IndInv, Registration, WaitersKnown
  <2>3. c \in Callers /\ c \notin h
    BY <1>5, <1>7, <2>1, <2>2
  <2> QED BY <1>3, <1>4, <1>6, <2>1, <2>2, <2>3
<1>9. NotifiedKnown'
  <2> SUFFICES ASSUME NEW q \in Priority, NEW c \in worker'[q].notify
               PROVE  /\ worker'[q].key = caller'[c].key
                      /\ caller'[c].wait /\ caller'[c].phase = "wait" /\ result'[c] = "none"
                      /\ \A r \in Priority : c \in worker'[r].notify => q = r
    BY DEF NotifiedKnown
  <2>1. CASE q = p
    BY <1>3, <1>4, <1>7, <2>1
  <2>2. CASE q # p
    <3>1. c \in worker[q].notify /\ worker'[q] = worker[q]
      BY <1>4, <2>2
    <3>2. /\ worker[q].key = caller[c].key
          /\ caller[c].wait /\ caller[c].phase = "wait" /\ result[c] = "none"
          /\ \A r \in Priority : c \in worker[r].notify => q = r
      BY <3>1 DEF IndInv, Registration, NotifiedKnown
    <3>3. c \notin h
      BY <1>7, <3>1
    <3> QED BY <1>3, <1>4, <3>1, <3>2, <3>3
  <2> QED BY <2>1, <2>2
<1>10. AnsweredWaits'
  BY <1>3 DEF IndInv, Registration, AnsweredWaits
<1>11. WaitingIsKnown'
  <2> SUFFICES ASSUME NEW c \in Callers, Waits(c), result[c] = "none"
               PROVE  \/ c \in waiters'[caller[c].key]
                      \/ \E q \in Priority : c \in worker'[q].notify
    BY <1>3, <1>6 DEF WaitingIsKnown
  <2>1. caller[c].key \in Keys
    BY CallerTypes DEF IndInv, Waits
  <2>2. CASE c \in waiters[caller[c].key]
    BY <1>2, <1>4, <1>5, <2>1, <2>2
  <2>3. ASSUME NEW q \in Priority, c \in worker[q].notify
        PROVE  c \in worker'[q].notify
    BY <1>3, <1>4, <2>3
  <2> QED BY <2>2, <2>3 DEF IndInv, Registration, WaitingIsKnown
<1> QED BY <1>8, <1>9, <1>10, <1>11 DEF Registration

\* Complete: the handle moves from the worker to the answer.
LEMMA RegistrationComplete ==
  ASSUME IndInv, NEW p \in Priority, NEW c \in Callers, Complete(p, c)
  PROVE  Registration'
<1>1. c \in worker[p].notify /\ worker[p].answer # "none"
  BY DEF IndInv, WorkerShape, Shape, Complete
<1>2. /\ UNCHANGED <<caller, waiters, tracked>> /\ result'[c] # "none"
      /\ \A d \in Callers \ {c} : result'[d] = result[d]
      /\ \A d \in Callers : Waits(d)' = Waits(d)
  BY <1>1 DEF IndInv, TypeOK, Complete, Waits
<1>3. /\ worker'[p].notify = worker[p].notify \ {c}
      /\ worker'[p].notify # {} => worker'[p].key = worker[p].key
      /\ \A q \in Priority \ {p} : worker'[q] = worker[q]
  BY DEF IndInv, TypeOK, Complete, Notifying, Resting
<1>4. /\ waiters \in [Keys -> SUBSET Callers]
      /\ \A q \in Priority : worker[q].notify \subseteq Callers
  BY WorkerTypes DEF IndInv, TypeOK, WorkerState
<1>5. /\ \A k \in Keys : c \notin waiters[k]
      /\ \A q \in Priority \ {p} : c \notin worker[q].notify
      /\ caller[c].wait /\ caller[c].phase = "wait"
  BY <1>1 DEF IndInv, Registration, WaitersKnown, NotifiedKnown
<1>6. WaitersKnown'
  BY <1>2, <1>3, <1>4, <1>5 DEF IndInv, Registration, WaitersKnown
<1>7. NotifiedKnown'
  <2> SUFFICES ASSUME NEW q \in Priority, NEW d \in worker'[q].notify
               PROVE  /\ worker'[q].key = caller'[d].key
                      /\ caller'[d].wait /\ caller'[d].phase = "wait" /\ result'[d] = "none"
                      /\ \A r \in Priority : d \in worker'[r].notify => q = r
    BY DEF NotifiedKnown
  <2>1. d \in worker[q].notify /\ d # c /\ d \in Callers /\ worker'[q].key = worker[q].key
    BY <1>3, <1>4, <1>5
  <2>2. \A r \in Priority : worker'[r].notify \subseteq worker[r].notify
    BY <1>3
  <2> QED BY <1>2, <2>1, <2>2 DEF IndInv, Registration, NotifiedKnown
<1>8. AnsweredWaits'
  BY <1>2, <1>5 DEF IndInv, Registration, AnsweredWaits
<1>9. WaitingIsKnown'
  BY <1>2, <1>3 DEF IndInv, Registration, WaitingIsKnown
<1> QED BY <1>6, <1>7, <1>8, <1>9 DEF Registration

LEMMA RegistrationStep == IndInv /\ [Next]_vars => Registration'
<1> SUFFICES ASSUME IndInv, [Next]_vars PROVE Registration'
  OBVIOUS
<1>0. Registration
  BY DEF IndInv
<1>1. ASSUME NEW c \in Callers, NEW s \in Site, Call(c, s) PROVE Registration'
  BY <1>1, RegistrationBystander DEF Call, Waits
<1>2. ASSUME NEW c \in Callers, CallerStep(c) PROVE Registration'
  <2>1. CASE (Attach(c) \/ Insert(c)) /\ ~caller[c].wait
    <3>1. CASE Attach(c)
      BY <2>1, <3>1, RegistrationBystander DEF Attach, Enqueued, Idle, Waits
    <3>2. CASE Insert(c)
      <4>1. waiters' = waiters
        <5>1. caller[c].key \in Keys /\ waiters[caller[c].key] = {}
          BY <3>2, CallerTypes DEF IndInv, TypeOK, Registration, WaitersKnown, Insert
        <5>2. waiters' = [waiters EXCEPT ![caller[c].key] = {}]
          BY <2>1, <3>2 DEF Insert
        <5> QED BY <5>1, <5>2 DEF IndInv, TypeOK
      <4> QED BY <2>1, <3>2, <4>1, RegistrationBystander DEF Insert, At, Waits
    <3> QED BY <2>1, <3>1, <3>2
  <2>2. CASE Attach(c) /\ caller[c].wait
    <3>1. PICK k \in Keys : k = caller[c].key
      BY <2>2, CallerTypes DEF IndInv, Attach
    <3>2. /\ caller' = [caller EXCEPT ![c] = At(c, "wait")]
          /\ waiters' = [waiters EXCEPT ![k] = @ \cup {c}]
          /\ ~Waits(c) /\ k \in tracked /\ UNCHANGED <<tracked, result, worker>>
      BY <2>2, <3>1 DEF Attach, Enqueued, Waits
    <3>3. PICK w : w = At(c, "wait")
      OBVIOUS
    <3>4. w.key = k /\ w.wait /\ w.phase = "wait"
      BY <2>2, <3>1, <3>3 DEF At
    <3> QED BY <3>2, <3>3, <3>4, RegistrationJoin
  <2>3. CASE Insert(c) /\ caller[c].wait
    <3>1. PICK k \in Keys : k = caller[c].key
      BY <2>3, CallerTypes DEF IndInv, Insert
    <3>2. waiters[k] = {}
      BY <2>3, <3>1 DEF IndInv, TypeOK, Registration, WaitersKnown, Insert
    <3>3. /\ caller' = [caller EXCEPT ![c] = At(c, "send")]
          /\ waiters' = [waiters EXCEPT ![k] = @ \cup {c}]
          /\ ~Waits(c) /\ tracked' = tracked \cup {k} /\ UNCHANGED <<result, worker>>
      BY <2>3, <3>1, <3>2 DEF Insert, Waits
    <3>4. PICK w : w = At(c, "send")
      OBVIOUS
    <3>5. w.key = k /\ w.wait /\ w.phase = "send"
      BY <2>3, <3>1, <3>4 DEF At
    <3> QED BY <3>3, <3>4, <3>5, RegistrationJoin
  <2>4. CASE Read(c)
    BY <2>4, RegistrationBystander DEF Read, Idle, Waits
  <2> QED BY <1>2, <2>1, <2>2, <2>3, <2>4, RegistrationSend, RegistrationWake
          DEF CallerStep
<1>3. ASSUME NEW p \in Priority, WorkerStep(p) PROVE Registration'
  <2>0. /\ \A ph, a : With(p, ph, a).notify = {}
        /\ \A task, ph : Holding(task, ph).notify = {}
    BY DEF With, Holding
  <2>1. ASSUME UNCHANGED <<caller, result, waiters, tracked>>, NEW w,
               worker' = [worker EXCEPT ![p] = w],
               worker[p].phase # "notify", w.notify = {}
        PROVE  Registration'
    <3>1. worker[p].notify = {}
      BY <2>1 DEF IndInv, WorkerShape, Shape
    <3>2. \A q \in Priority : /\ worker'[q].notify = worker[q].notify
                              /\ worker[q].notify # {} => worker'[q].key = worker[q].key
      BY <2>1, <3>1 DEF IndInv, TypeOK
    <3> QED BY <1>0, <2>1, <3>2, RegistrationWorkers
  <2>2. CASE PassPause(p)
    BY <2>0, <2>1, <2>2 DEF PassPause
  <2>3. CASE Timeout(p)
    BY <2>0, <2>1, <2>3 DEF Timeout
  <2>4. CASE Receive(p)
    BY <2>0, <2>1, <2>4 DEF Receive
  <2>5. CASE RecheckPause(p)
    BY <2>0, <2>1, <2>5 DEF RecheckPause
  <2>6. CASE Discard(p)
    BY <2>0, <2>1, <2>6 DEF Discard
  <2>7. CASE Accept(p)
    BY <2>0, <2>1, <2>7 DEF Accept
  <2>8. CASE Execute(p)
    BY <2>0, <2>1, <2>8 DEF Execute
  <2>9. CASE Store(p)
    BY <2>0, <2>1, <2>9 DEF Store
  <2> QED BY <1>3, <2>2, <2>3, <2>4, <2>5, <2>6, <2>7, <2>8, <2>9,
             RegistrationRemove, RegistrationComplete DEF WorkerStep
<1>4. ASSUME UNCHANGED <<caller, result, waiters, tracked, worker>> PROVE Registration'
  BY <1>0, <1>4, RegistrationWorkers
<1> QED BY <1>1, <1>2, <1>3, <1>4
        DEF Next, StartUpload, EndUpload, Expire, Evict, vars

-----------------------------------------------------------------------------
(* The inductive invariant and the safety properties it gives.              *)

\* The four parts hold together in every reachable state of the queue manager.
THEOREM Inductive == Spec => []IndInv
<1>1. Init => IndInv
  BY TypeInit, ShapeInit, OwnershipInit, RegistrationInit DEF IndInv
<1>2. IndInv /\ [Next]_vars => IndInv'
  BY TypeStep, ShapeStep, OwnershipStep, RegistrationStep DEF IndInv
<1> QED BY <1>1, <1>2, PTL DEF Spec

LEMMA OneOwnerFromInd == IndInv => OneOwnerPerTask
<1> SUFFICES ASSUME IndInv, NEW k \in Keys
             PROVE  /\ k \in tracked <=> Owners(k) # {}
                    /\ \A o1, o2 \in Owners(k) : o1 = o2
  BY DEF OneOwnerPerTask
<1>1. \A o : o \in Owners(k) <=>
        \/ \E c \in Callers : o = <<"caller", c>> /\ Sends(c) /\ caller[c].key = k
        \/ \E p \in Priority : \E i \in Places(p) :
              o = <<"channel", p, i>> /\ channel[p][i].key = k
        \/ \E p \in Priority : o = <<"worker", p>> /\ Carries(p) /\ worker[p].key = k
  <2>1. \A p \in Priority : DOMAIN channel[p] = Places(p)
    BY DEF IndInv, TypeOK, Places
  <2>2. \A p \in Priority : worker[p].key = k =>
           (worker[p].phase # "notify" <=> Carries(p))
    BY KeysAssumption DEF IndInv, WorkerShape, Shape, Carries
  <2> DEFINE byCaller == {<<"caller", c>> : c \in {c \in Callers :
                             caller[c].phase = "send" /\ caller[c].key = k}}
             inChannel(p) == {<<"channel", p, i>> : i \in {i \in DOMAIN channel[p] :
                             channel[p][i].key = k}}
             byWorker == {<<"worker", p>> : p \in {p \in Priority :
                             worker[p].key = k /\ worker[p].phase # "notify"}}
  <2>3. \A o : o \in byCaller <=>
          \E c \in Callers : o = <<"caller", c>> /\ Sends(c) /\ caller[c].key = k
    BY DEF Sends
  <2>4. \A p \in Priority : \A o : o \in inChannel(p) <=>
          \E i \in Places(p) : o = <<"channel", p, i>> /\ channel[p][i].key = k
    BY <2>1
  <2>5. \A o : o \in byWorker <=>
          \E p \in Priority : o = <<"worker", p>> /\ Carries(p) /\ worker[p].key = k
    BY <2>2
  <2> DEFINE inChannels == UNION {inChannel(p) : p \in Priority}
  <2>6. Owners(k) = byCaller \cup inChannels \cup byWorker
    BY DEF Owners
  <2> HIDE DEF inChannel
  <2>7. \A o : o \in inChannels <=> \E p \in Priority : o \in inChannel(p)
    OBVIOUS
  <2> HIDE DEF byCaller, inChannels, byWorker
  <2>8. \A o : o \in inChannels <=>
          \E p \in Priority : \E i \in Places(p) :
             o = <<"channel", p, i>> /\ channel[p][i].key = k
    BY <2>4, <2>7
  <2>9. \A o : o \in Owners(k) <=>
          o \in byCaller \/ o \in inChannels \/ o \in byWorker
    BY <2>6
  <2> QED BY <2>3, <2>5, <2>8, <2>9
<1>2. k \in tracked => Owners(k) # {}
  <2> SUFFICES ASSUME k \in tracked PROVE \E o : o \in Owners(k)
    OBVIOUS
  <2>1. ASSUME NEW c \in Callers, Sends(c), caller[c].key = k
        PROVE  \E o : o \in Owners(k)
    BY <1>1, <2>1
  <2>2. ASSUME NEW p \in Priority, NEW i \in Places(p), channel[p][i].key = k
        PROVE  \E o : o \in Owners(k)
    BY <1>1, <2>2
  <2>3. ASSUME NEW p \in Priority, Carries(p), worker[p].key = k
        PROVE  \E o : o \in Owners(k)
    BY <1>1, <2>3
  <2> QED BY <2>1, <2>2, <2>3 DEF IndInv, Ownership, TrackedIsOwned
<1>3. Owners(k) # {} => k \in tracked
  BY <1>1 DEF IndInv, Ownership, OwnedIsTracked
<1>4. ASSUME NEW o1 \in Owners(k), NEW o2 \in Owners(k) PROVE o1 = o2
  <2> USE DEF IndInv, Ownership, OwnedOnce
  <2>1. ASSUME NEW c \in Callers, o1 = <<"caller", c>>, Sends(c), caller[c].key = k
        PROVE  o1 = o2
    BY <1>1, <2>1
  <2>2. ASSUME NEW p \in Priority, NEW i \in Places(p),
               o1 = <<"channel", p, i>>, channel[p][i].key = k
        PROVE  o1 = o2
    BY <1>1, <2>2
  <2>3. ASSUME NEW p \in Priority, o1 = <<"worker", p>>, Carries(p), worker[p].key = k
        PROVE  o1 = o2
    BY <1>1, <2>3
  <2> QED BY <1>1, <2>1, <2>2, <2>3
<1> QED BY <1>2, <1>3, <1>4

LEMMA NoLostWaiterFromInd == IndInv => NoLostWaiter
<1> SUFFICES ASSUME IndInv, NEW c \in Callers
             PROVE  /\ \A h1, h2 \in Handles(c) : h1 = h2
                    /\ Handles(c) # {} <=>
                          caller[c].wait /\ caller[c].phase \in {"send", "wait"}
                    /\ \A k \in Keys : c \in waiters[k] => k = caller[c].key
                    /\ \A p \in Priority : c \in worker[p].notify =>
                          worker[p].key = caller[c].key
  BY DEF NoLostWaiter
<1> USE DEF IndInv, Registration
<1>1. \A h : h \in Handles(c) <=>
        \/ \E k \in tracked : h = <<"waiters", k>> /\ c \in waiters[k]
        \/ \E p \in Priority : h = <<"notify", p>> /\ c \in worker[p].notify
        \/ h = <<"result">> /\ result[c] # "none"
  BY DEF Handles
<1>2. tracked \subseteq Keys
  BY DEF TypeOK
<1>3. \A k \in Keys : c \in waiters[k] => k \in tracked /\ k = caller[c].key /\ Waits(c)
  BY DEF WaitersKnown
<1>4. \A p \in Priority : c \in worker[p].notify => worker[p].key = caller[c].key /\ Waits(c)
  BY DEF NotifiedKnown, Waits
<1>5. ASSUME NEW h1 \in Handles(c), NEW h2 \in Handles(c) PROVE h1 = h2
  <2>1. ASSUME NEW k \in tracked, h1 = <<"waiters", k>>, c \in waiters[k]
        PROVE  h1 = h2
    BY <1>1, <1>2, <1>3, <2>1 DEF WaitersKnown
  <2>2. ASSUME NEW p \in Priority, h1 = <<"notify", p>>, c \in worker[p].notify
        PROVE  h1 = h2
    BY <1>1, <1>2, <2>2 DEF NotifiedKnown, WaitersKnown
  <2>3. CASE h1 = <<"result">> /\ result[c] # "none"
    BY <1>1, <1>2, <2>3 DEF NotifiedKnown, WaitersKnown
  <2> QED BY <1>1, <2>1, <2>2, <2>3
<1>6. Handles(c) # {} => Waits(c)
  BY <1>1, <1>2, <1>3, <1>4 DEF AnsweredWaits, Waits
<1>7. Waits(c) => Handles(c) # {}
  <2> SUFFICES ASSUME Waits(c) PROVE \E h : h \in Handles(c)
    OBVIOUS
  <2>1. CASE result[c] # "none"
    BY <1>1, <2>1
  <2>2. CASE c \in waiters[caller[c].key]
    <3>1. caller[c].key \in tracked
      BY <1>3, <2>2, CallerTypes DEF Waits
    <3> QED BY <1>1, <2>2, <3>1
  <2>3. ASSUME NEW p \in Priority, c \in worker[p].notify
        PROVE  \E h : h \in Handles(c)
    BY <1>1, <2>3
  <2> QED BY <2>1, <2>2, <2>3 DEF WaitingIsKnown
<1> QED BY <1>3, <1>4, <1>5, <1>6, <1>7 DEF Waits

\* A key is in `tracking` exactly while one place of the program has its task.
THEOREM OneOwner == Spec => []OneOwnerPerTask
  BY Inductive, OneOwnerFromInd, PTL

\* A thread inside enqueue_and_wait is known in exactly one place.
THEOREM WaiterKept == Spec => []NoLostWaiter
  BY Inductive, NoLostWaiterFromInd, PTL

-------------------------------------------------------------------------------
(* What a woken caller finds in the cache.                                  *)
(*                                                                          *)
(* An answer of a task that has been executed comes after the store, and    *)
(* nothing takes the entry out again as long as nobody evicts.  The answer  *)
(* to a discarded prefetch has stored nothing: it is ruled out for          *)
(* downloads, which are no prefetch.                                        *)

NothingEvicted == MayEvict = FALSE

\* Downloads keep clear of the workers that look at the epoch.
DownloadsKept ==
    /\ \A c \in Callers : caller[c].key \in FileKeys => caller[c].prio \notin Prefetch
    /\ \A p \in Prefetch :
          /\ \A i \in Places(p) : channel[p][i].key \notin FileKeys
          /\ worker[p].key \notin FileKeys
    /\ \A p \in Priority : worker[p].phase \in {"recheck", "epoch"} => p \in Prefetch

Cached(k) == cache[k] # "absent"

\* A 304 is for an entry that is there; a worker that is past the store, a
\* handle that is completed and a caller that is woken find what they are to.
WorkerStored(p) ==
    /\ worker[p].phase = "store" /\ worker[p].answer = "notModified" =>
          Cached(worker[p].key)
    /\ /\ worker[p].phase \in {"remove", "notify"}
       /\ worker[p].answer # "err"
       /\ worker[p].key \in FileKeys
       => Cached(worker[p].key)
CallerStored(c) ==
    /\ result[c] \notin {"none", "err"} /\ caller[c].key \in FileKeys =>
          Cached(caller[c].key)
    /\ caller[c].phase = "read" /\ caller[c].key \in FileKeys =>
          Cached(caller[c].key)
AnswersStored ==
    (\A p \in Priority : WorkerStored(p)) /\ (\A c \in Callers : CallerStored(c))

CacheInv == IndInv /\ DownloadsKept /\ AnswersStored

LEMMA CacheInit == Init => DownloadsKept /\ AnswersStored
<1> SUFFICES ASSUME Init PROVE DownloadsKept /\ AnswersStored
  OBVIOUS
<1>1. NoKey \notin FileKeys
  BY KeysAssumption DEF Keys
<1>2. DownloadsKept
  BY <1>1 DEF Init, Idle, Resting, Places, DownloadsKept, Prefetch, Priority
<1>3. AnswersStored
  BY DEF Init, Idle, Resting, AnswersStored, WorkerStored, CallerStored
<1> QED BY <1>2, <1>3

LEMMA DownloadsKeptStep == IndInv /\ DownloadsKept /\ [Next]_vars => DownloadsKept'
<1> SUFFICES ASSUME IndInv, DownloadsKept, [Next]_vars PROVE DownloadsKept'
  OBVIOUS
<1>0. /\ caller \in [Callers -> CallerState]
      /\ worker \in [Priority -> WorkerState]
      /\ channel \in [Priority -> Seq(Task)]
      /\ NoKey \notin FileKeys /\ Prefetch \subseteq Priority
  BY KeysAssumption DEF IndInv, TypeOK, Keys, Prefetch, Priority
<1> DEFINE CallersKept ==
      \A c \in Callers : caller[c].key \in FileKeys => caller[c].prio \notin Prefetch
    ChannelsKept == \A p \in Prefetch : \A i \in Places(p) : channel[p][i].key \notin FileKeys
    WorkersKept ==
      /\ \A p \in Prefetch : worker[p].key \notin FileKeys
      /\ \A p \in Priority : worker[p].phase \in {"recheck", "epoch"} => p \in Prefetch
<1>1. ASSUME NEW c \in Callers, NEW s \in Site, Call(c, s) PROVE DownloadsKept'
  <2>1. s.key \in FileKeys => s.prio \notin Prefetch
    BY KeysAssumption DEF Site, Prefetch
  <2>2. CallersKept'
    BY <1>0, <1>1, <2>1 DEF Call, DownloadsKept
  <2> QED BY <1>1, <2>2 DEF Call, DownloadsKept, Places
<1>2. ASSUME NEW c \in Callers, CallerStep(c) PROVE DownloadsKept'
  <2>1. CallersKept'
    BY <1>0, <1>2 DEF CallerStep, Attach, Insert, Send, Wake, Read, Enqueued, At,
         Idle, DownloadsKept
  <2>2. UNCHANGED worker
    BY <1>2 DEF CallerStep, Attach, Insert, Send, Wake, Read
  <2>3. CASE Send(c)
    <3>1. PICK e : channel' = [channel EXCEPT ![caller[c].prio] =
                                  Append(@, [key |-> caller[c].key, epoch |-> e])]
      BY <2>3 DEF Send
    <3>2. ASSUME NEW p \in Prefetch, NEW i \in Places(p)'
          PROVE  channel'[p][i].key \notin FileKeys
      <4>1. channel[p] \in Seq(Task) /\ Len(channel[p]) \in Nat
        BY <1>0
      <4>2. CASE p # caller[c].prio
        BY <1>0, <3>1, <3>2, <4>2 DEF DownloadsKept, Places
      <4>3. CASE p = caller[c].prio
        <5>1. channel'[p] = Append(channel[p], [key |-> caller[c].key, epoch |-> e])
          BY <1>0, <3>1, <4>3
        <5>2. CASE i \in 1..Len(channel[p])
          BY <4>1, <5>1, <5>2 DEF DownloadsKept, Places
        <5>3. CASE i = Len(channel[p]) + 1
          BY <4>1, <4>3, <5>1, <5>3 DEF DownloadsKept
        <5> QED BY <3>2, <4>1, <5>1, <5>2, <5>3 DEF Places
      <4> QED BY <4>2, <4>3
    <3> QED BY <2>1, <2>2, <3>2 DEF DownloadsKept
  <2>4. CASE ~Send(c)
    <3>1. UNCHANGED channel
      BY <1>2, <2>4 DEF CallerStep, Attach, Insert, Wake, Read
    <3> QED BY <2>1, <2>2, <3>1 DEF DownloadsKept, Places
  <2> QED BY <2>3, <2>4
<1>3. ASSUME NEW p \in Priority, Receive(p) PROVE DownloadsKept'
  <2>1. /\ channel' = [channel EXCEPT ![p] = Tail(@)]
        /\ 1 \in Places(p) /\ Head(channel[p]) = channel[p][1]
        /\ \A i \in 1..Len(Tail(channel[p])) :
              i + 1 \in Places(p) /\ Tail(channel[p])[i] = channel[p][i + 1]
    BY <1>3, ChannelTypes DEF Receive, IndInv
  <2>2. ChannelsKept'
    <3>1. SUFFICES ASSUME NEW q \in Prefetch, NEW i \in Places(q)'
                   PROVE  channel'[q][i].key \notin FileKeys
      OBVIOUS
    <3>2. CASE q = p
      BY <1>0, <2>1, <3>1, <3>2 DEF DownloadsKept, Places
    <3>3. CASE q # p
      BY <1>0, <2>1, <3>1, <3>3 DEF DownloadsKept, Places
    <3> QED BY <3>2, <3>3
  <2>3. WorkersKept'
    BY <1>0, <1>3, <2>1 DEF Receive, Holding, DownloadsKept
  <2> QED BY <1>3, <2>2, <2>3 DEF Receive, DownloadsKept
<1>4. ASSUME NEW p \in Priority, WorkerStep(p), ~Receive(p) PROVE DownloadsKept'
  <2>1. UNCHANGED <<caller, channel>>
    BY <1>4 DEF WorkerStep, PassPause, Timeout, RecheckPause, Discard, Accept,
         Execute, Store, Remove, Complete
  <2>2. /\ worker'[p].key \in {worker[p].key, NoKey}
        /\ worker'[p].phase \in {"recheck", "epoch"} =>
              worker[p].phase \in {"recheck", "epoch"}
        /\ \A q \in Priority : q # p => worker'[q] = worker[q]
    BY <1>0, <1>4 DEF WorkerStep, PassPause, Timeout, RecheckPause, Discard,
         Accept, Execute, Store, Remove, Complete, With, Notifying, Resting
  <2> QED BY <1>0, <2>1, <2>2 DEF DownloadsKept, Places
<1>5. ASSUME UNCHANGED <<caller, channel, worker>> PROVE DownloadsKept'
  BY <1>5 DEF DownloadsKept, Places
<1> QED BY <1>1, <1>2, <1>3, <1>4, <1>5
        DEF Next, StartUpload, EndUpload, Expire, Evict, vars

\* Without evictions what is in the cache stays there.
LEMMA CacheKept ==
  ASSUME NothingEvicted, IndInv, [Next]_vars, NEW k, Cached(k)
  PROVE  Cached(k)'
<1>0. cache \in [Keys -> {"absent", "fresh", "expired"}]
  BY DEF IndInv, TypeOK
<1>1. ASSUME NEW p \in Priority, Store(p) PROVE Cached(k)'
  <2>1. CASE UNCHANGED cache
    BY <2>1 DEF Cached
  <2>2. CASE cache' = [cache EXCEPT ![worker[p].key] = "fresh"]
    <3>1. CASE k \in Keys
      BY <1>0, <2>2, <3>1 DEF Cached
    <3>2. CASE k \notin Keys
      <4>1. worker[p].key \in Keys
        BY <1>1, WorkerTypes DEF Store, IndInv, WorkerShape, Shape, WorkerState
      <4>2. cache'[k] = cache[k]
        BY <1>0, <2>2, <3>2, <4>1
      <4> QED BY <4>2 DEF Cached
    <3> QED BY <3>1, <3>2
  <2> QED BY <1>1, <2>1, <2>2 DEF Store
<1>2. ASSUME NEW i \in Keys, Expire(i) PROVE Cached(k)'
  BY <1>0, <1>2 DEF Expire, Cached
<1>3. CASE UNCHANGED cache
  BY <1>3 DEF Cached
<1> QED BY <1>1, <1>2, <1>3
        DEF Next, NothingEvicted, Evict, CallerStep, Call, Attach, Insert, Send,
            Wake, Read, WorkerStep, PassPause, Timeout, Receive, RecheckPause,
            Discard, Accept, Execute, Remove, Complete, StartUpload, EndUpload,
            vars

LEMMA WorkerStoredStep ==
  ASSUME NothingEvicted, CacheInv, [Next]_vars, NEW p \in Priority
  PROVE  WorkerStored(p)'
<1> USE DEF CacheInv
<1>0. /\ worker \in [Priority -> WorkerState]
      /\ cache \in [Keys -> {"absent", "fresh", "expired"}]
      /\ prefetchEpoch \in 0..MaxEpoch
      /\ MaxEpoch \in Nat
      /\ WorkerStored(p)
  BY BoundsAssumption DEF IndInv, TypeOK, AnswersStored
<1>1. CASE UNCHANGED <<worker[p]>>
  BY <1>0, <1>1, CacheKept DEF WorkerStored
<1>2. CASE Discard(p)
  <2>1. worker'[p] = With(p, "remove", "notModified") /\ p \in Prefetch
    <3>1. worker'[p] = With(p, "remove", "notModified")
      BY <1>0, <1>2 DEF Discard
    <3>2. p \in Prefetch
      BY <1>2 DEF Discard, DownloadsKept
    <3> QED BY <3>1, <3>2
  <2>2. worker[p].key \notin FileKeys
    BY <2>1 DEF DownloadsKept
  <2> QED BY <2>1, <2>2 DEF WorkerStored, With
<1>3. CASE Execute(p)
  <2>1. PICK a \in Outcomes(worker[p].key) : worker'[p] = With(p, "store", a)
    BY <1>0, <1>3 DEF Execute
  <2>2. a = "notModified" => Cached(worker[p].key)
    BY DEF Outcomes, Cached
  <2>3. UNCHANGED cache
    BY <1>3 DEF Execute
  <2> QED BY <2>1, <2>2, <2>3 DEF WorkerStored, With, Cached
<1>4. CASE Store(p)
  <2>1. worker'[p] = With(p, "remove", worker[p].answer) /\ worker[p].key \in Keys
    BY <1>0, <1>4, WorkerTypes DEF Store, IndInv, WorkerShape, Shape, WorkerState
  <2>2. worker[p].answer # "err" => cache'[worker[p].key] # "absent"
    BY <1>0, <1>4, <2>1 DEF Store, WorkerStored, Cached
  <2> QED BY <2>1, <2>2 DEF WorkerStored, With, Cached
<1>5. CASE Remove(p)
  <2>1. worker'[p] = Notifying(p, waiters[worker[p].key]) /\ UNCHANGED cache
    BY <1>0, <1>5 DEF Remove
  <2>2. worker[p].phase = "remove"
    BY <1>5 DEF Remove
  <2> QED BY <1>0, <2>1, <2>2 DEF WorkerStored, Notifying, Resting, Cached
<1>6. ASSUME NEW c \in Callers, Complete(p, c) PROVE WorkerStored(p)'
  <2>1. worker'[p] = Notifying(p, worker[p].notify \ {c}) /\ UNCHANGED cache
    BY <1>0, <1>6 DEF Complete
  <2>2. worker[p].phase = "notify"
    BY <1>6 DEF Complete
  <2> QED BY <1>0, <2>1, <2>2 DEF WorkerStored, Notifying, Resting, Cached
\* The other steps leave the worker before the store.
<1>7. CASE PassPause(p) \/ Timeout(p) \/ Receive(p) \/ RecheckPause(p) \/ Accept(p)
  <2>1. worker'[p].phase \notin {"store", "remove", "notify"}
    BY <1>0, <1>7 DEF PassPause, Timeout, Receive, RecheckPause, Accept, With, Holding
  <2> QED BY <2>1 DEF WorkerStored
<1>8. CASE ~UNCHANGED <<worker[p]>>
  <2>1. WorkerStep(p)
    <3>1. ASSUME NEW q \in Priority, WorkerStep(q), q # p PROVE FALSE
      BY <1>0, <1>8, <3>1 DEF WorkerStep, PassPause, Timeout, Receive,
           RecheckPause, Discard, Accept, Execute, Store, Remove, Complete
    <3>2. ASSUME UNCHANGED worker PROVE FALSE
      BY <1>8, <3>2
    <3> QED BY <3>1, <3>2
            DEF Next, CallerStep, Call, Attach, Insert, Send, Wake, Read,
                StartUpload, EndUpload, Expire, Evict, vars
  <2> QED BY <1>2, <1>3, <1>4, <1>5, <1>6, <1>7, <2>1 DEF WorkerStep
<1> QED BY <1>1, <1>8

LEMMA CallerStoredStep ==
  ASSUME NothingEvicted, CacheInv, [Next]_vars, NEW c \in Callers
  PROVE  CallerStored(c)'
<1> USE DEF CacheInv
<1>0. /\ caller \in [Callers -> CallerState]
      /\ result \in [Callers -> Answers \cup {"none"}]
      /\ CallerStored(c)
      /\ result[c] # "none" => caller[c].phase = "wait"
  BY DEF IndInv, TypeOK, AnswersStored, Registration, AnsweredWaits
\* Where the key stays, so does the entry.
<1>1. ASSUME caller'[c].key = caller[c].key, result'[c] \in {result[c], "none"},
             caller'[c].phase = "read" => caller[c].phase = "read"
      PROVE  CallerStored(c)'
  BY <1>0, <1>1, CacheKept DEF CallerStored
<1>2. ASSUME caller'[c].phase # "read", result'[c] = "none" PROVE CallerStored(c)'
  BY <1>2 DEF CallerStored
<1>3. ASSUME NEW s \in Site, Call(c, s) PROVE CallerStored(c)'
  BY <1>0, <1>2, <1>3 DEF Call
<1>4. CASE Attach(c) \/ Insert(c) \/ Send(c)
  <2>1. result'[c] = "none" /\ caller'[c].phase # "read"
    BY <1>0, <1>4 DEF Attach, Insert, Send, Enqueued, At, Idle
  <2> QED BY <1>2, <2>1
<1>5. CASE Read(c)
  <2>1. result'[c] = "none" /\ caller'[c].phase # "read"
    BY <1>0, <1>5 DEF Read, Idle
  <2> QED BY <1>2, <2>1
<1>6. CASE Wake(c)
  <2>1. result'[c] = "none" /\ UNCHANGED cache
    BY <1>0, <1>6 DEF Wake
  <2>2. CASE result[c] = "err"
    BY <1>0, <1>2, <1>6, <2>1, <2>2 DEF Wake, Idle
  <2>3. CASE result[c] # "err"
    <3>1. caller'[c].key = caller[c].key
      BY <1>0, <1>6, <2>3 DEF Wake, At
    <3>2. result[c] \notin {"none", "err"}
      BY <1>6, <2>3 DEF Wake
    <3> QED BY <1>0, <2>1, <3>1, <3>2 DEF CallerStored, Cached
  <2> QED BY <2>2, <2>3
<1>7. ASSUME NEW p \in Priority, Complete(p, c) PROVE CallerStored(c)'
  <2>1. worker[p].phase = "notify" /\ c \in worker[p].notify
    BY <1>7 DEF Complete
  <2>2. /\ worker[p].key = caller[c].key /\ caller[c].phase = "wait"
        /\ WorkerStored(p)
    BY <2>1 DEF IndInv, Registration, NotifiedKnown, AnswersStored
  <2>3. result'[c] = worker[p].answer /\ UNCHANGED <<caller, cache>>
    BY <1>0, <1>7 DEF Complete
  <2> QED BY <2>1, <2>2, <2>3 DEF CallerStored, WorkerStored, Cached
<1>8. CASE caller'[c] = caller[c] /\ result'[c] = result[c]
  BY <1>1, <1>8
<1>9. ASSUME NEW d \in Callers, d # c,
             CallerStep(d) \/ (\E s \in Site : Call(d, s))
                \/ \E p \in Priority : Complete(p, d)
      PROVE  caller'[c] = caller[c] /\ result'[c] = result[c]
  BY <1>0, <1>9 DEF CallerStep, Call, Attach, Insert, Send, Wake, Read, Complete
<1>10. ASSUME NEW p \in Priority, WorkerStep(p), ~\E d \in Callers : Complete(p, d)
       PROVE  UNCHANGED <<caller, result>>
  BY <1>10 DEF WorkerStep, PassPause, Timeout, Receive, RecheckPause, Discard,
       Accept, Execute, Store, Remove
<1>11. ASSUME \/ StartUpload \/ EndUpload \/ (\E k \in Keys : Expire(k) \/ Evict(k))
              \/ UNCHANGED vars
       PROVE  UNCHANGED <<caller, result>>
  BY <1>11 DEF StartUpload, EndUpload, Expire, Evict, vars
<1> QED BY <1>3, <1>4, <1>5, <1>6, <1>7, <1>8, <1>9, <1>10, <1>11
        DEF Next, CallerStep

LEMMA CacheInductive == NothingEvicted => (Spec => []CacheInv)
<1> SUFFICES ASSUME NothingEvicted PROVE Spec => []CacheInv
  OBVIOUS
<1>1. Init => DownloadsKept /\ AnswersStored
  BY CacheInit
<1>2. CacheInv /\ [Next]_vars => (DownloadsKept /\ AnswersStored)'
  BY DownloadsKeptStep, WorkerStoredStep, CallerStoredStep
     DEF CacheInv, AnswersStored
<1> QED BY <1>1, <1>2, Inductive, PTL DEF Spec, CacheInv

\* A thread that read() or open() has blocked for a download finds the content
\* when it re-reads the cache, however many DirUrgent calls discard prefetches
\* meanwhile, unless the download failed or the entry is evicted (run_task).
THEOREM DownloadsAreCached ==
  ASSUME NothingEvicted
  PROVE  Spec => []DownloadIsCached
<1>1. CacheInv => DownloadIsCached
  BY DEF CacheInv, AnswersStored, CallerStored, Cached, DownloadIsCached
<1> QED BY <1>1, CacheInductive, PTL

-----------------------------------------------------------------------------
(* QueueManager implements SingleFlight: every step of a caller or of a     *)
(* worker is a step of the abstract specification or changes nothing of it. *)

\* The abstract variables, as the refinement mapping defines them.
Decided == {k \in Keys : \E p \in Priority :
               /\ worker[p].key = k
               /\ \/ worker[p].phase = "store"
                  \/ worker[p].phase = "remove"}
Answered == {c \in Callers :
               result[c] # "none" \/ \E p \in Priority : c \in worker[p].notify}

AbstractStutter == UNCHANGED <<tracked, Decided, waiters, Answered>>

LEMMA StutterIsAllowed == AbstractStutter => [Flight!Next]_Flight!vars
  BY DEF AbstractStutter, Decided, Answered, Flight!vars

LEMMA RefineInit == Init => Flight!Init
<1> SUFFICES ASSUME Init PROVE Flight!Init
  OBVIOUS
<1>1. \A p \in Priority : worker[p].phase \in {"pause", "recv"} /\ worker[p].notify = {}
  BY DEF Init, Resting
<1>2. \A c \in Callers : result[c] = "none"
  BY DEF Init
<1>3. Decided = {}
  BY <1>1 DEF Decided
<1>4. Answered = {}
  BY <1>1, <1>2 DEF Answered
<1> QED BY <1>3, <1>4 DEF Init, Flight!Init, Decided, Answered

\* The records a worker step puts in the place of worker[p].
LEMMA WithFacts ==
  ASSUME NEW p \in Priority, NEW phase, NEW answer
  PROVE  /\ With(p, phase, answer).phase = phase
         /\ With(p, phase, answer).key = worker[p].key
         /\ With(p, phase, answer).notify = {}
  BY DEF With

LEMMA HoldingFacts ==
  ASSUME NEW task, NEW phase
  PROVE  Holding(task, phase).phase = phase /\ Holding(task, phase).notify = {}
  BY DEF Holding

LEMMA NotifyingFacts ==
  ASSUME NEW p \in Priority, NEW handles
  PROVE  /\ Notifying(p, handles).notify = handles
         /\ Notifying(p, handles).phase \in {"pause", "recv", "notify"}
  BY DEF Notifying, Resting

\* Only a change of the worker record p from or to "store" / "remove" matters.
LEMMA DecidedFrame ==
  ASSUME IndInv, NEW p \in Priority, NEW w, worker' = [worker EXCEPT ![p] = w],
         w.phase \in {"store", "remove"} <=> worker[p].phase \in {"store", "remove"},
         w.phase \in {"store", "remove"} => w.key = worker[p].key
  PROVE  Decided' = Decided
  BY DEF IndInv, TypeOK, Decided

LEMMA AnsweredFrame ==
  ASSUME IndInv, NEW p \in Priority, NEW w, worker' = [worker EXCEPT ![p] = w],
         w.notify = worker[p].notify, UNCHANGED result
  PROVE  Answered' = Answered
  BY DEF IndInv, TypeOK, Answered

\* A caller that is not blocked may board.
LEMMA BoardingIsFree ==
  ASSUME IndInv, NEW c \in Callers, caller[c].phase = "entry"
  PROVE  Flight!Free(c)
  BY DEF IndInv, Registration, WaitersKnown, NotifiedKnown, AnsweredWaits, Waits,
         Flight!Free

\* The flight of a carried key is in the air and nobody else decides it.
LEMMA CarriedIsUndecided ==
  ASSUME IndInv, NEW p \in Priority, worker[p].phase \in {"epoch", "execute"}
  PROVE  worker[p].key \in Keys /\ worker[p].key \in tracked \ Decided
<1>1. Carries(p) /\ worker[p].key \in tracked
  BY DEF IndInv, Ownership, OwnedIsTracked, Carries
<1>2. worker[p].key \in Keys
  BY <1>1 DEF IndInv, TypeOK
<1>3. ASSUME NEW q \in Priority, worker[q].phase \in {"store", "remove"}
      PROVE  worker[q].key # worker[p].key
  <2>1. Carries(q) /\ q # p
    BY <1>3 DEF Carries
  <2> QED BY <1>1, <2>1 DEF IndInv, Ownership, OwnedOnce
<1> QED BY <1>1, <1>2, <1>3 DEF Decided

LEMMA RefineStep == IndInv /\ [Next]_vars => [Flight!Next]_Flight!vars
<1> SUFFICES ASSUME IndInv, [Next]_vars PROVE [Flight!Next]_Flight!vars
  OBVIOUS
<1>0. waiters \in [Keys -> SUBSET Callers] /\ tracked \subseteq Keys
  BY DEF IndInv, TypeOK
<1>1. ASSUME UNCHANGED <<tracked, waiters, worker, result>>
      PROVE  [Flight!Next]_Flight!vars
  BY <1>1, StutterIsAllowed DEF AbstractStutter, Decided, Answered
<1>2. ASSUME NEW c \in Callers, CallerStep(c) PROVE [Flight!Next]_Flight!vars
  <2>1. CASE Attach(c) \/ Insert(c)
    <3>1. caller[c].key \in Keys /\ caller[c].phase = "entry"
      BY <2>1, CallerTypes DEF IndInv, Attach, Insert
    <3>2. Decided' = Decided /\ Answered' = Answered
      BY <2>1 DEF Attach, Insert, Decided, Answered
    <3>3. CASE caller[c].wait
      <4>1. Insert(c) => waiters[caller[c].key] = {}
        BY <1>0, <3>1 DEF IndInv, Registration, WaitersKnown, Insert
      <4>2. /\ tracked' = tracked \cup {caller[c].key}
            /\ waiters' = [waiters EXCEPT ![caller[c].key] = @ \cup {c}]
        BY <2>1, <3>3, <4>1 DEF Attach, Insert
      <4>3. Flight!Board(c, caller[c].key)
        BY <3>1, <3>2, <4>2, BoardingIsFree DEF Flight!Board, Decided, Answered
      <4> QED BY <3>1, <4>3 DEF Flight!Next
    <3>4. CASE ~caller[c].wait /\ Attach(c)
      BY <3>2, <3>4, StutterIsAllowed DEF Attach, AbstractStutter
    <3>5. CASE ~caller[c].wait /\ Insert(c)
      <4>1. waiters' = waiters
        <5>1. waiters[caller[c].key] = {}
          BY <1>0, <3>1, <3>5 DEF IndInv, Registration, WaitersKnown, Insert
        <5> QED BY <1>0, <3>1, <3>5, <5>1 DEF Insert
      <4>2. Flight!Launch(caller[c].key)
        BY <3>2, <3>5, <4>1 DEF Insert, Flight!Launch, Decided, Answered
      <4> QED BY <3>1, <4>2 DEF Flight!Next
    <3> QED BY <2>1, <3>3, <3>4, <3>5
  <2>2. CASE Send(c) \/ Read(c)
    BY <1>1, <2>2 DEF Send, Read
  <2>3. CASE Wake(c)
    <3>1. c \in Answered
      BY <2>3 DEF Wake, Answered
    <3>2. Answered' = Answered \ {c}
      <4>1. \A p \in Priority : c \notin worker[p].notify
        BY <2>3 DEF Wake, IndInv, Registration, NotifiedKnown
      <4>2. result' = [result EXCEPT ![c] = "none"] /\ worker' = worker
        BY <2>3 DEF Wake
      <4>3. result \in [Callers -> Answers \cup {"none"}]
        BY DEF IndInv, TypeOK
      <4> QED BY <4>1, <4>2, <4>3 DEF Answered
    <3>3. Flight!Return(c)
      BY <2>3, <3>1, <3>2 DEF Wake, Flight!Return, Decided, Answered
    <3> QED BY <3>3 DEF Flight!Next
  <2> QED BY <1>2, <2>1, <2>2, <2>3 DEF CallerStep
<1>3. ASSUME NEW p \in Priority, WorkerStep(p) PROVE [Flight!Next]_Flight!vars
  <2>0. worker[p].phase # "notify" => worker[p].notify = {}
    BY DEF IndInv, WorkerShape, Shape
  <2>1. ASSUME UNCHANGED <<tracked, waiters, result>>, NEW w,
               worker' = [worker EXCEPT ![p] = w],
               w.phase \in {"store", "remove"} <=> worker[p].phase \in {"store", "remove"},
               w.phase \in {"store", "remove"} => w.key = worker[p].key,
               w.notify = {}, worker[p].phase # "notify"
        PROVE  [Flight!Next]_Flight!vars
    BY <2>0, <2>1, StutterIsAllowed, DecidedFrame, AnsweredFrame DEF AbstractStutter
  <2>2. CASE PassPause(p)
    <3> DEFINE w == With(p, "recv", "none")
    <3>1. /\ w.phase = "recv" /\ w.notify = {}
          /\ w.key = worker[p].key
      BY WithFacts
    <3>2. /\ worker' = [worker EXCEPT ![p] = w]
          /\ UNCHANGED <<tracked, waiters, result>>
          /\ worker[p].phase # "notify"
          /\ w.phase \in {"store", "remove"} <=> worker[p].phase \in {"store", "remove"}
      BY <2>2, <3>1 DEF PassPause
    <3> HIDE DEF w
    <3> QED BY <2>1, <3>1, <3>2
  <2>3. CASE Timeout(p)
    <3> DEFINE w == With(p, "pause", "none")
    <3>1. /\ w.phase = "pause" /\ w.notify = {}
          /\ w.key = worker[p].key
      BY WithFacts
    <3>2. /\ worker' = [worker EXCEPT ![p] = w]
          /\ UNCHANGED <<tracked, waiters, result>>
          /\ worker[p].phase # "notify"
          /\ w.phase \in {"store", "remove"} <=> worker[p].phase \in {"store", "remove"}
      BY <2>3, <3>1 DEF Timeout
    <3> HIDE DEF w
    <3> QED BY <2>1, <3>1, <3>2
  <2>4. CASE Receive(p)
    <3>1. PICK w : /\ worker' = [worker EXCEPT ![p] = w]
                   /\ w.phase \in {"recheck", "execute"} /\ w.notify = {}
      BY <2>4, HoldingFacts DEF Receive
    <3>2. UNCHANGED <<tracked, waiters, result>> /\ worker[p].phase = "recv"
      BY <2>4 DEF Receive
    <3> QED BY <2>1, <3>1, <3>2
  <2>5. CASE RecheckPause(p)
    <3> DEFINE w == With(p, "epoch", "none")
    <3>1. /\ w.phase = "epoch" /\ w.notify = {}
          /\ w.key = worker[p].key
      BY WithFacts
    <3>2. /\ worker' = [worker EXCEPT ![p] = w]
          /\ UNCHANGED <<tracked, waiters, result>>
          /\ worker[p].phase # "notify"
          /\ w.phase \in {"store", "remove"} <=> worker[p].phase \in {"store", "remove"}
      BY <2>5, <3>1 DEF RecheckPause
    <3> HIDE DEF w
    <3> QED BY <2>1, <3>1, <3>2
  <2>6. CASE Accept(p)
    <3> DEFINE w == With(p, "execute", "none")
    <3>1. /\ w.phase = "execute" /\ w.notify = {}
          /\ w.key = worker[p].key
      BY WithFacts
    <3>2. /\ worker' = [worker EXCEPT ![p] = w]
          /\ UNCHANGED <<tracked, waiters, result>>
          /\ worker[p].phase # "notify"
          /\ w.phase \in {"store", "remove"} <=> worker[p].phase \in {"store", "remove"}
      BY <2>6, <3>1 DEF Accept
    <3> HIDE DEF w
    <3> QED BY <2>1, <3>1, <3>2
  <2>7. CASE Store(p)
    <3> DEFINE w == With(p, "remove", worker[p].answer)
    <3>1. /\ w.phase = "remove" /\ w.notify = {}
          /\ w.key = worker[p].key
      BY WithFacts
    <3>2. /\ worker' = [worker EXCEPT ![p] = w]
          /\ UNCHANGED <<tracked, waiters, result>>
          /\ worker[p].phase # "notify"
          /\ w.phase \in {"store", "remove"} <=> worker[p].phase \in {"store", "remove"}
      BY <2>7, <3>1 DEF Store
    <3> HIDE DEF w
    <3> QED BY <2>1, <3>1, <3>2
  <2>8. CASE Discard(p) \/ Execute(p)
    <3>1. PICK k \in Keys : k = worker[p].key /\ k \in tracked \ Decided
      BY <2>8, CarriedIsUndecided DEF Discard, Execute
    <3>2. PICK w : /\ worker' = [worker EXCEPT ![p] = w]
                   /\ w.key = k /\ w.phase \in {"store", "remove"} /\ w.notify = {}
      <4>1. \E a : \/ worker' = [worker EXCEPT ![p] = With(p, "store", a)]
                   \/ worker' = [worker EXCEPT ![p] = With(p, "remove", a)]
        BY <2>8 DEF Discard, Execute
      <4> QED BY <3>1, <4>1, WithFacts
    <3>3. Decided' = Decided \cup {k}
      BY <2>8, <3>1, <3>2 DEF IndInv, TypeOK, Decided, Discard, Execute
    <3>4. UNCHANGED <<tracked, waiters, result>> /\ worker[p].phase # "notify"
      BY <2>8 DEF Discard, Execute
    <3>5. Answered' = Answered
      BY <2>0, <3>2, <3>4, AnsweredFrame
    <3>6. Flight!Decide(k)
      BY <3>1, <3>3, <3>4, <3>5 DEF Flight!Decide, Decided, Answered
    <3> QED BY <3>6 DEF Flight!Next
  <2>9. CASE Remove(p)
    <3>1. PICK k \in Keys : k = worker[p].key
      BY <2>9, WorkerTypes DEF IndInv, WorkerShape, Shape, WorkerState, Remove
    <3>2. PICK w : /\ worker' = [worker EXCEPT ![p] = w] /\ w.notify = waiters[k]
                   /\ w.phase \notin {"store", "remove"}
      BY <2>9, <3>1, NotifyingFacts DEF Remove
    <3>3. /\ UNCHANGED result /\ tracked' = tracked \ {k}
          /\ waiters' = [waiters EXCEPT ![k] = {}]
          /\ worker[p].phase = "remove" /\ worker[p].notify = {}
      BY <2>0, <2>9, <3>1 DEF Remove
    <3>4. /\ worker'[p] = w
          /\ \A q \in Priority \ {p} : worker'[q] = worker[q]
      BY <3>2 DEF IndInv, TypeOK
    <3>5. \A q \in Priority \ {p} :
             worker[q].phase \in {"store", "remove"} => worker[q].key # k
      BY <3>1, <3>3 DEF IndInv, Ownership, OwnedOnce, Carries
    <3>6. k \in Decided /\ Decided' = Decided \ {k}
      BY <3>1, <3>2, <3>3, <3>4, <3>5 DEF Decided
    <3>7. Answered' = Answered \cup waiters[k]
      BY <1>0, <3>2, <3>3, <3>4 DEF Answered
    <3>8. k \in tracked
      BY <3>1, <3>3 DEF IndInv, Ownership, OwnedIsTracked, Carries
    <3>9. Flight!Land(k)
      BY <3>3, <3>6, <3>7, <3>8 DEF Flight!Land, Decided, Answered
    <3> QED BY <3>9 DEF Flight!Next
  <2>10. ASSUME NEW c \in Callers, Complete(p, c) PROVE [Flight!Next]_Flight!vars
    <3>1. PICK w : /\ worker' = [worker EXCEPT ![p] = w]
                   /\ w.notify = worker[p].notify \ {c}
                   /\ w.phase \notin {"store", "remove"}
      BY <2>10, NotifyingFacts DEF Complete
    <3>2. /\ UNCHANGED <<tracked, waiters>> /\ c \in worker[p].notify
          /\ worker[p].phase = "notify" /\ worker[p].answer # "none"
          /\ result' = [result EXCEPT ![c] = worker[p].answer]
      BY <2>10 DEF Complete, IndInv, WorkerShape, Shape
    <3>3. /\ worker'[p] = w
          /\ \A q \in Priority \ {p} : worker'[q] = worker[q]
      BY <3>1 DEF IndInv, TypeOK
    <3>4. Decided' = Decided
      BY <3>1, <3>2, DecidedFrame
    <3>5. result'[c] # "none" /\ \A d \in Callers \ {c} : result'[d] = result[d]
      BY <3>2 DEF IndInv, TypeOK
    <3>6. Answered' = Answered
      BY <3>1, <3>2, <3>3, <3>5 DEF Answered
    <3> QED BY <3>2, <3>4, <3>6, StutterIsAllowed DEF AbstractStutter
  <2> QED BY <1>3, <2>2, <2>3, <2>4, <2>5, <2>6, <2>7, <2>8, <2>9, <2>10
          DEF WorkerStep
<1> QED BY <1>1, <1>2, <1>3
        DEF Next, Call, StartUpload, EndUpload, Expire, Evict, vars

\* Identical requests share one decision and everybody who boarded is answered
\* once: the queue manager implements the single-flight specification.
THEOREM Refinement == Spec => RefinesSingleFlight
<1>1. Spec => []IndInv
  BY Inductive
<1> QED BY <1>1, RefineInit, RefineStep, PTL DEF Spec, RefinesSingleFlight, Flight!Spec

===============================================================================
