--------------------------- MODULE SyncJob_proofs ---------------------------
(***************************************************************************)
(* What SyncJob keeps for every set of syncs, sources, queues and callers: *)
(* the invariants the runs of MCSync check, and that the protocol          *)
(* implements SyncContract.                                                *)
(***************************************************************************)
EXTENDS SyncJob, TLAPS

-----------------------------------------------------------------------------
(* Lemmas on the operators of the model. *)

(* Enqueueing at the tail keeps every waiting job at its place. *)
LEMMA AppendKeeps ==
    ASSUME NEW S, NEW q \in Seq(S), NEW x \in S
    PROVE  /\ Append(q, x) \in Seq(S)
           /\ Len(Append(q, x)) = Len(q) + 1
           /\ \A i \in 1..Len(q) : Append(q, x)[i] = q[i]
           /\ Append(q, x)[Len(q) + 1] = x
    OBVIOUS

(* Popping the head shifts the others by one. *)
LEMMA TailShifts ==
    ASSUME NEW S, NEW q \in Seq(S), q # <<>>
    PROVE  /\ Tail(q) \in Seq(S)
           /\ Head(q) \in S /\ Head(q) = q[1] /\ 1 \in 1..Len(q)
           /\ Len(q) \in Nat \ {0} /\ Len(Tail(q)) = Len(q) - 1
           /\ \A i \in 1..Len(Tail(q)) : Tail(q)[i] = q[i + 1] /\ i + 1 \in 1..Len(q)
    OBVIOUS

(* Marking the callers overtaken by the end of a job keeps their type and  *)
(* their places.                                                           *)
LEMMA OvertakeType ==
    ASSUME caller \in [Callers -> Caller], NEW s
    PROVE  /\ Overtake(s) \in [Callers -> Caller]
           /\ \A c \in Callers :
                 /\ Overtake(s)[c].pc = caller[c].pc
                 /\ Overtake(s)[c].sync = caller[c].sync
                 /\ caller[c].overtaken => Overtake(s)[c].overtaken
                 /\ caller[c].pc = "enqueued" /\ caller[c].sync = s
                       => Overtake(s)[c].overtaken
    BY DEF Overtake, Caller

LEMMA NoJobType == NoJob \in Worker
    BY DEF NoJob, Worker

LEMMA IdleType == Idle \in Caller
    BY DEF Idle, Caller

(* The disjuncts of Next, one step of a proof each. *)
LEMMA NextCases ==
    ASSUME Next
    PROVE  \/ \E c \in Callers, s \in Syncs : Check(c, s)
           \/ \E c \in Callers : Enqueue(c) \/ MarkFetching(c) \/ CallerDies(c)
           \/ \E q \in QueueSet : Dequeue(q)
           \/ \E src \in AllSources : Fetch(src) \/ FetchFails(src) \/ RemoteMoves(src)
           \/ BeginRun \/ CommitAll \/ CommitSource \/ EndPerSource
           \/ RunFails \/ RunEscapes \/ Kill
    BY DEF Next, Trigger, WorkerStep

-----------------------------------------------------------------------------
(* Type correctness. *)

LEMMA InitType == Init => TypeOK
<1> SUFFICES ASSUME Init PROVE TypeOK
    OBVIOUS
<1>1. worker \in Worker /\ worker = NoJob /\ worker.pc = "idle"
    BY NoJobType DEF Init, NoJob
<1>2. caller \in [Callers -> Caller] /\ \A c \in Callers : caller[c].pc = "idle"
    BY IdleType DEF Init, Idle
<1>3. queue \in [QueueSet -> Seq(Syncs)] /\ \A q \in QueueSet : queue[q] = <<>>
    BY DEF Init
<1>4. \A q \in QueueSet : \A i \in 1..Len(queue[q]) : QueueOf[queue[q][i]] = q
    BY <1>3
<1>5. status \in [Syncs -> Status] /\ rows \in [AllSources -> Rows]
    BY DEF Init, Status, Rows
<1>6. stranded \subseteq Syncs /\ faults \in 0..MaxFaults
    BY QueuesOK DEF Init
<1> QED BY <1>1, <1>2, <1>3, <1>4, <1>5, <1>6 DEF TypeOK

(* The part of TypeOK about the callers and the part about the worker. *)
CallersTyped ==
    /\ caller \in [Callers -> Caller]
    /\ \A c \in Callers : caller[c].pc # "idle" => caller[c].sync \in Syncs

WorkerTyped ==
    /\ worker \in Worker
    /\ worker.pc = "idle" => worker = NoJob
    /\ worker.pc # "idle" =>
          /\ worker.sync \in Syncs
          /\ worker.todo \subseteq SourcesOf[worker.sync]
          /\ worker.errs \subseteq SourcesOf[worker.sync]
    /\ worker.pc = "fetched" =>
          worker.src \in worker.todo /\ worker.data \in Fetched

QueuesTyped ==
    /\ queue \in [QueueSet -> Seq(Syncs)]
    /\ \A q \in QueueSet : \A i \in 1..Len(queue[q]) : QueueOf[queue[q][i]] = q

Parts ==
    /\ status \in [Syncs -> Status] /\ rows \in [AllSources -> Rows]
    /\ QueuesTyped /\ CallersTyped /\ WorkerTyped
    /\ stranded \subseteq Syncs /\ faults \in 0..MaxFaults

LEMMA TypeParts == (TypeOK <=> Parts) /\ (TypeOK' <=> Parts')
    BY DEF Parts, TypeOK, QueuesTyped, CallersTyped, WorkerTyped

LEMMA FaultType ==
    ASSUME faults \in 0..MaxFaults, Fault
    PROVE  faults' \in 0..MaxFaults
    BY QueuesOK DEF Fault

(* An action that only moves callers to Overtake(s), or leaves them. *)
LEMMA OvertakeCallersTyped ==
    ASSUME CallersTyped, NEW s, caller' = Overtake(s)
    PROVE  CallersTyped'
    BY OvertakeType DEF CallersTyped

LEMMA NoJobTyped ==
    ASSUME worker' = NoJob PROVE WorkerTyped'
    BY NoJobType DEF WorkerTyped, NoJob

(* What every action but an update of a queue leaves to show. *)
LEMMA PublishType ==
    ASSUME TypeOK, NEW s \in Syncs, NEW st \in Status, Publish(s, st)
    PROVE  /\ status' \in [Syncs -> Status] /\ QueuesTyped' /\ CallersTyped'
           /\ WorkerTyped' /\ stranded' \subseteq Syncs
<1> USE DEF Publish
<1>1. status' \in [Syncs -> Status] /\ stranded' \subseteq Syncs
    BY TypeParts DEF Parts
<1>2. CallersTyped' /\ WorkerTyped'
    BY TypeParts, OvertakeCallersTyped, NoJobTyped DEF Parts
<1>3. QueuesTyped'
    BY TypeParts DEF Parts, QueuesTyped
<1> QED BY <1>1, <1>2, <1>3

(* One step per action: each leaves the typed parts it does not write. *)
LEMMA NextType == TypeOK /\ [Next]_vars => TypeOK'
<1> SUFFICES ASSUME TypeOK, [Next]_vars PROVE TypeOK'
    OBVIOUS
<1> USE TypeParts DEF Parts
<1>1. ASSUME NEW c \in Callers, NEW s \in Syncs, Check(c, s) PROVE TypeOK'
  <2>1. [Idle EXCEPT !.pc = "checked", !.sync = s] \in Caller
      BY DEF Idle, Caller
  <2>2. CallersTyped'
      BY <1>1, <2>1 DEF Check, CallersTyped, Idle
  <2> QED BY <1>1, <2>2 DEF Check, QueuesTyped, WorkerTyped
<1>2. ASSUME NEW c \in Callers, Enqueue(c) PROVE TypeOK'
  <2> DEFINE s == caller[c].sync
  <2>1. s \in Syncs /\ QueueOf[s] \in QueueSet
      BY <1>2, QueuesOK DEF Enqueue, CallersTyped
  <2>2. caller[c] \in Caller /\ [caller[c] EXCEPT !.pc = "enqueued"] \in Caller
      BY DEF CallersTyped, Caller
  <2>3. CallersTyped'
      BY <1>2, <2>1, <2>2 DEF Enqueue, CallersTyped, Caller
  <2>4. QueuesTyped'
    <3>1. queue[QueueOf[s]] \in Seq(Syncs)
        BY <2>1 DEF QueuesTyped
    <3>2. queue' = [queue EXCEPT ![QueueOf[s]] = Append(queue[QueueOf[s]], s)]
        BY <1>2 DEF Enqueue
    <3>3. Append(queue[QueueOf[s]], s) \in Seq(Syncs)
        BY <2>1, <3>1, AppendKeeps
    <3>4. queue' \in [QueueSet -> Seq(Syncs)]
        BY <3>2, <3>3 DEF QueuesTyped
    <3>5. ASSUME NEW q \in QueueSet, NEW i \in 1..Len(queue'[q])
          PROVE  QueueOf[queue'[q][i]] = q
      <4>1. CASE q # QueueOf[s]
          BY <3>2, <3>5, <4>1 DEF QueuesTyped
      <4>2. CASE q = QueueOf[s]
        <5>1. queue'[q] = Append(queue[q], s) /\ queue[q] \in Seq(Syncs)
            BY <3>1, <3>2, <4>2 DEF QueuesTyped
        <5>2. i \in 1..Len(queue[q]) \/ i = Len(queue[q]) + 1
            BY <5>1, <3>5, <2>1, AppendKeeps
        <5>3. CASE i \in 1..Len(queue[q])
            BY <5>1, <5>3, <2>1, AppendKeeps DEF QueuesTyped
        <5>4. CASE i = Len(queue[q]) + 1
            BY <5>1, <5>4, <2>1, <4>2, AppendKeeps
        <5> QED BY <5>2, <5>3, <5>4
      <4> QED BY <4>1, <4>2
    <3> QED BY <3>4, <3>5 DEF QueuesTyped
  <2> QED BY <1>2, <2>3, <2>4 DEF Enqueue, WorkerTyped
<1>3. ASSUME NEW c \in Callers, MarkFetching(c) PROVE TypeOK'
  <2>1. caller[c].sync \in Syncs
      BY <1>3 DEF MarkFetching, CallersTyped
  <2>2. CallersTyped'
      BY <1>3, IdleType DEF MarkFetching, CallersTyped, Idle
  <2>3. status' \in [Syncs -> Status] /\ stranded' \subseteq Syncs
      BY <1>3, <2>1 DEF MarkFetching, Status
  <2> QED BY <1>3, <2>2, <2>3 DEF MarkFetching, QueuesTyped, WorkerTyped
<1>4. ASSUME NEW c \in Callers, CallerDies(c) PROVE TypeOK'
  <2>1. CallersTyped'
      BY <1>4, IdleType DEF CallerDies, CallersTyped, Idle
  <2>2. faults' \in 0..MaxFaults
      BY <1>4, FaultType DEF CallerDies
  <2> QED BY <1>4, <2>1, <2>2 DEF CallerDies, QueuesTyped, WorkerTyped
<1>5. ASSUME NEW q \in QueueSet, Dequeue(q) PROVE TypeOK'
  <2>1. queue[q] \in Seq(Syncs) /\ queue[q] # <<>>
      BY <1>5 DEF Dequeue, QueuesTyped
  <2>2. Head(queue[q]) \in Syncs
      BY <2>1, TailShifts
  <2>3. WorkerTyped'
    <3>1. [NoJob EXCEPT !.pc = "dequeued", !.sync = Head(queue[q])] \in Worker
        BY <2>2 DEF NoJob, Worker
    <3> QED BY <1>5, <2>2, <3>1 DEF Dequeue, WorkerTyped, NoJob
  <2>4. QueuesTyped'
    <3>1. queue' = [queue EXCEPT ![q] = Tail(queue[q])]
        BY <1>5 DEF Dequeue
    <3>2. queue' \in [QueueSet -> Seq(Syncs)]
        BY <3>1, <2>1, TailShifts DEF QueuesTyped
    <3>3. ASSUME NEW r \in QueueSet, NEW i \in 1..Len(queue'[r])
          PROVE  QueueOf[queue'[r][i]] = r
      <4>1. CASE r # q
          BY <3>1, <3>3, <4>1 DEF QueuesTyped
      <4>2. CASE r = q
        <5>1. queue'[r] = Tail(queue[q])
            BY <3>1, <4>2 DEF QueuesTyped
        <5>2. queue'[r][i] = queue[q][i + 1] /\ i + 1 \in 1..Len(queue[q])
            BY <5>1, <3>3, <2>1, TailShifts
        <5> QED BY <5>2, <4>2 DEF QueuesTyped
      <4> QED BY <4>1, <4>2
    <3> QED BY <3>2, <3>3 DEF QueuesTyped
  <2> QED BY <1>5, <2>3, <2>4 DEF Dequeue, CallersTyped
<1>6. ASSUME NEW src \in AllSources, Fetch(src) PROVE TypeOK'
  <2>1. WorkerTyped'
    <3>1. PICK data \in Fetched :
             worker' = [worker EXCEPT !.pc = "fetched", !.src = src, !.data = data]
        BY <1>6 DEF Fetch
    <3> QED BY <1>6, <3>1 DEF Fetch, WorkerTyped, Worker
  <2> QED BY <1>6, <2>1 DEF Fetch, QueuesTyped, CallersTyped
<1>7. ASSUME NEW src \in AllSources, FetchFails(src) PROVE TypeOK'
  <2>1. WorkerTyped'
      BY <1>7 DEF FetchFails, WorkerTyped, Worker
  <2> QED BY <1>7, <2>1 DEF FetchFails, QueuesTyped, CallersTyped
<1>8. ASSUME NEW src \in AllSources, RemoteMoves(src) PROVE TypeOK'
  <2>1. rows' \in [AllSources -> Rows]
      BY <1>8 DEF RemoteMoves, Rows
  <2> QED BY <1>8, <2>1 DEF RemoteMoves, QueuesTyped, CallersTyped, WorkerTyped
<1>9. CASE BeginRun
  <2>1. worker.sync \in Syncs /\ SourcesOf[worker.sync] \subseteq AllSources
      BY <1>9 DEF BeginRun, WorkerTyped, AllSources
  <2>2. WorkerTyped'
      BY <1>9, <2>1 DEF BeginRun, WorkerTyped, Worker
  <2>3. status' \in [Syncs -> Status]
      BY <1>9, <2>1 DEF BeginRun, Status
  <2> QED BY <1>9, <2>2, <2>3 DEF BeginRun, QueuesTyped, CallersTyped
<1>10. CASE CommitAll
  <2>1. worker.sync \in Syncs /\ worker.data \in Fetched
      BY <1>10 DEF CommitAll, WorkerTyped
  <2>2. rows' \in [AllSources -> Rows]
      BY <1>10, <2>1 DEF CommitAll, Rows
  <2> QED BY <1>10, <2>1, <2>2, PublishType DEF CommitAll, Status
<1>11. CASE CommitSource
  <2>1. rows' \in [AllSources -> Rows]
      BY <1>11 DEF CommitSource, Rows, WorkerTyped
  <2>2. WorkerTyped'
      BY <1>11 DEF CommitSource, WorkerTyped, Worker
  <2> QED BY <1>11, <2>1, <2>2 DEF CommitSource, QueuesTyped, CallersTyped
<1>12. CASE EndPerSource
    BY <1>12, PublishType DEF EndPerSource, Status, WorkerTyped
<1>13. CASE RunFails
  <2>1. worker.sync \in Syncs
      BY <1>13 DEF RunFails, WorkerTyped, Inside
  <2> QED BY <1>13, <2>1, PublishType, FaultType DEF RunFails, Status
<1>14. CASE RunEscapes \/ Kill
  <2>1. CASE RunEscapes
      BY <2>1, OvertakeCallersTyped, NoJobTyped, FaultType
         DEF RunEscapes, LoseJob, QueuesTyped, WorkerTyped
  <2>2. CASE Kill
    <3>1. CallersTyped'
      <4>1. \A c \in Callers : caller'[c] = Idle \/ caller'[c] = Overtake(worker.sync)[c]
          BY <2>2 DEF Kill
      <4>2. Overtake(worker.sync) \in [Callers -> Caller]
          BY OvertakeType DEF CallersTyped
      <4>3. caller' \in [Callers -> Caller]
          BY <2>2, <4>2, IdleType DEF Kill
      <4> QED BY <4>1, <4>3, OvertakeType DEF CallersTyped, Idle
    <3> QED BY <2>2, <3>1, NoJobTyped, FaultType DEF Kill, LoseJob, QueuesTyped, WorkerTyped
  <2> QED BY <1>14, <2>1, <2>2
<1>15. CASE UNCHANGED vars
    BY <1>15 DEF vars, QueuesTyped, CallersTyped, WorkerTyped
<1> QED
    BY <1>1, <1>2, <1>3, <1>4, <1>5, <1>6, <1>7, <1>8, <1>9, <1>10, <1>11, <1>12,
       <1>13, <1>14, <1>15, NextCases

(* SyncJob: the type invariant holds in every state of every behaviour. *)
THEOREM TypeCorrect == Spec => []TypeOK
    BY InitType, NextType, PTL DEF Spec

-----------------------------------------------------------------------------
(* Ownership of FETCHING.  TypeOK is part of the inductive invariant since *)
(* a job is found again only on the queue of its own sync; CallerIsOwned   *)
(* is the strengthening FetchingIsOwned needs: a trigger writes FETCHING   *)
(* long after it enqueued, and must still own a job then, or be overtaken. *)

IInv == TypeOK /\ RunningIsFetching /\ FetchingIsOwned /\ CallerIsOwned

(* What an action does to the jobs in flight. *)
LEMMA EnqueueInFlight ==
    ASSUME TypeOK, NEW c \in Callers, Enqueue(c), NEW t, t = caller[c].sync
    PROVE  /\ InFlight(t)'
           /\ \A s \in Syncs : InFlight(s) => InFlight(s)'
<1> DEFINE p == QueueOf[t]
<1>1. t \in Syncs /\ p \in QueueSet /\ queue[p] \in Seq(Syncs)
    BY QueuesOK DEF TypeOK, Enqueue
<1>2. queue' = [queue EXCEPT ![p] = Append(queue[p], t)] /\ worker' = worker
    BY DEF Enqueue
<1>3. queue'[p] = Append(queue[p], t)
    BY <1>1, <1>2 DEF TypeOK
<1>4. Len(queue[p]) \in Nat
    BY <1>1
<1>5. /\ Len(queue'[p]) = Len(queue[p]) + 1
      /\ \A i \in 1..Len(queue[p]) : queue'[p][i] = queue[p][i]
      /\ queue'[p][Len(queue[p]) + 1] = t
    BY <1>1, <1>3, AppendKeeps
<1>6. Waiting(t)'
    BY <1>4, <1>5 DEF Waiting
<1>7. ASSUME NEW s \in Syncs, Waiting(s) PROVE Waiting(s)'
  <2>1. QueueOf[s] \in QueueSet
      BY QueuesOK
  <2>2. CASE QueueOf[s] = p
      BY <1>7, <1>4, <1>5, <2>2 DEF Waiting
  <2>3. CASE QueueOf[s] # p
      BY <1>7, <1>2, <2>1, <2>3 DEF Waiting, TypeOK
  <2> QED BY <2>2, <2>3
<1> QED BY <1>2, <1>6, <1>7 DEF InFlight

LEMMA DequeueInFlight ==
    ASSUME TypeOK, NEW q \in QueueSet, Dequeue(q)
    PROVE  \A s \in Syncs : InFlight(s) => InFlight(s)'
<1>1. queue[q] \in Seq(Syncs) /\ queue[q] # <<>>
    BY DEF TypeOK, Dequeue
<1>2. queue' = [queue EXCEPT ![q] = Tail(queue[q])]
    BY DEF Dequeue
<1>3. worker = NoJob /\ worker'.sync = Head(queue[q])
    BY DEF Dequeue, TypeOK, NoJob
<1> SUFFICES ASSUME NEW s \in Syncs, InFlight(s) PROVE InFlight(s)'
    OBVIOUS
<1>4. Waiting(s)
    BY <1>3, SyncsOK DEF InFlight, NoJob
<1>5. QueueOf[s] \in QueueSet
    BY QueuesOK
<1>6. CASE QueueOf[s] # q
    BY <1>2, <1>4, <1>5, <1>6 DEF InFlight, Waiting, TypeOK
<1>7. CASE QueueOf[s] = q
  <2>1. PICK i \in 1..Len(queue[q]) : queue[q][i] = s
      BY <1>4, <1>7 DEF Waiting
  <2>2. queue'[q] = Tail(queue[q])
      BY <1>2 DEF TypeOK
  <2>3. CASE i = 1
      BY <1>1, <1>3, <2>1, <2>3, TailShifts DEF InFlight
  <2>4. CASE i # 1
    <3>1. /\ Len(queue[q]) \in Nat \ {0} /\ Len(queue'[q]) = Len(queue[q]) - 1
          /\ \A k \in 1..Len(queue'[q]) : queue'[q][k] = queue[q][k + 1]
        BY <1>1, <2>2, TailShifts
    <3>2. i - 1 \in 1..Len(queue'[q]) /\ (i - 1) + 1 = i
        BY <2>1, <2>4, <3>1
    <3>3. queue'[q][i - 1] = s
        BY <2>1, <3>1, <3>2
    <3> QED BY <1>7, <3>2, <3>3 DEF InFlight, Waiting
  <2> QED BY <2>3, <2>4
<1> QED BY <1>6, <1>7

LEMMA QueueKeptInFlight ==
    ASSUME queue' = queue, NEW s
    PROVE  /\ Waiting(s)' <=> Waiting(s)
           /\ worker'.sync = worker.sync => (InFlight(s)' <=> InFlight(s))
    BY DEF InFlight, Waiting

(* The end of a job, published or not: the callers that count on a job of  *)
(* its sync are marked overtaken, the others keep theirs.                  *)
LEMMA EndKeepsCallers ==
    ASSUME TypeOK, CallerIsOwned, worker.pc # "idle", queue' = queue,
           \A c \in Callers : caller'[c] \in {Idle, Overtake(worker.sync)[c]}
    PROVE  CallerIsOwned'
<1> SUFFICES ASSUME NEW c \in Callers,
                    caller'[c].pc = "enqueued", ~caller'[c].overtaken
             PROVE  InFlight(caller[c].sync)'
    BY DEF CallerIsOwned
<1>1. caller'[c] = Overtake(worker.sync)[c]
    BY DEF Idle
<1>2. /\ caller[c].pc = "enqueued" /\ ~caller[c].overtaken
      /\ caller[c].sync # worker.sync /\ caller'[c].sync = caller[c].sync
  <2>1. caller \in [Callers -> Caller]
      BY DEF TypeOK
  <2>2. caller[c] \in Caller
      BY <2>1
  <2> QED BY <1>1, <2>1, <2>2, OvertakeType DEF Caller
<1>3. Waiting(caller[c].sync)
    BY <1>2 DEF CallerIsOwned, InFlight
<1> QED BY <1>2, <1>3 DEF InFlight, Waiting

LEMMA PublishKeeps ==
    ASSUME IInv, worker.sync \in Syncs, worker.pc # "idle",
           NEW st \in Status \ {"fetching"}, Publish(worker.sync, st)
    PROVE  RunningIsFetching' /\ FetchingIsOwned' /\ CallerIsOwned'
<1> USE DEF IInv
<1>1. worker' = NoJob /\ queue' = queue /\ caller' = Overtake(worker.sync)
      /\ status' = [status EXCEPT ![worker.sync] = st]
      /\ stranded' = stranded \ {worker.sync}
    BY DEF Publish
<1>2. RunningIsFetching'
    BY <1>1 DEF RunningIsFetching, Running, NoJob, Inside
<1>3. FetchingIsOwned'
    BY <1>1, QueueKeptInFlight DEF FetchingIsOwned, InFlight, TypeOK
<1>4. CallerIsOwned'
    BY <1>1, EndKeepsCallers
<1> QED BY <1>2, <1>3, <1>4

(* A step that writes no status, no queue entry and no job: the callers it *)
(* moves may only leave "enqueued".                                        *)
LEMMA QuietKeeps ==
    ASSUME IInv, status' = status, queue' = queue, worker'.sync = worker.sync,
           worker'.pc \in Inside => worker.pc \in Inside, stranded' = stranded,
           \A c \in Callers : caller'[c] = caller[c] \/ caller'[c].pc # "enqueued"
    PROVE  RunningIsFetching' /\ FetchingIsOwned' /\ CallerIsOwned'
<1> USE DEF IInv
<1>1. RunningIsFetching'
    BY DEF RunningIsFetching, Running
<1>2. FetchingIsOwned'
    BY DEF FetchingIsOwned, InFlight, Waiting
<1>3. CallerIsOwned'
    BY DEF CallerIsOwned, InFlight, Waiting
<1> QED BY <1>1, <1>2, <1>3

LEMMA InitOwned == Init => IInv
    BY InitType DEF Init, IInv, RunningIsFetching, FetchingIsOwned, CallerIsOwned,
                    Running, NoJob, Inside, Idle

LEMMA NextOwned == IInv /\ [Next]_vars => IInv'
<1> SUFFICES ASSUME IInv, [Next]_vars
             PROVE  RunningIsFetching' /\ FetchingIsOwned' /\ CallerIsOwned'
    BY NextType DEF IInv
<1> DEFINE Owned == RunningIsFetching /\ FetchingIsOwned /\ CallerIsOwned
<1> USE DEF IInv
<1>1. ASSUME NEW c \in Callers, NEW s \in Syncs, Check(c, s) PROVE Owned'
    BY <1>1, QuietKeeps DEF Check, TypeOK, Idle
<1>2. ASSUME NEW c \in Callers, Enqueue(c) PROVE Owned'
  <2> DEFINE t == caller[c].sync
  <2>1. InFlight(t)' /\ \A s \in Syncs : InFlight(s) => InFlight(s)'
    <3>1. PICK x : x = caller[c].sync
        OBVIOUS
    <3>2. InFlight(x)' /\ \A s \in Syncs : InFlight(s) => InFlight(s)'
        BY <1>2, <3>1, EnqueueInFlight
    <3>3. caller'[c].sync = x
        BY <1>2, <3>1 DEF Enqueue, TypeOK, Caller
    <3> QED BY <3>2, <3>3
  <2>2. FetchingIsOwned' /\ RunningIsFetching'
      BY <1>2, <2>1 DEF Enqueue, FetchingIsOwned, RunningIsFetching, Running
  <2>3. ASSUME NEW d \in Callers, caller'[d].pc = "enqueued", ~caller'[d].overtaken
        PROVE  InFlight(caller[d].sync)'
    <3>1. CASE d = c
        BY <2>1, <3>1
    <3>2. CASE d # c
      <4>1. caller'[d] = caller[d]
          BY <1>2, <3>2 DEF Enqueue, TypeOK
      <4>2. caller[d].sync \in Syncs /\ InFlight(caller[d].sync)
          BY <2>3, <4>1 DEF CallerIsOwned, TypeOK
      <4>3. PICK s \in Syncs : s = caller[d].sync
          BY <4>2
      <4>4. InFlight(s)'
          BY <2>1, <4>2, <4>3
      <4> QED BY <4>1, <4>3, <4>4
    <3> QED BY <3>1, <3>2
  <2> QED BY <2>2, <2>3 DEF CallerIsOwned
<1>3. ASSUME NEW c \in Callers, MarkFetching(c) PROVE Owned'
  <2>1. PICK s \in Syncs : s = caller[c].sync
      BY <1>3 DEF MarkFetching, TypeOK
  <2>2. /\ status' = [status EXCEPT ![s] = "fetching"]
        /\ queue' = queue /\ worker' = worker /\ stranded \subseteq stranded'
        /\ caller' = [caller EXCEPT ![c] = Idle]
      BY <1>3, <2>1 DEF MarkFetching
  <2>3. InFlight(s) \/ s \in stranded'
      BY <1>3, <2>1 DEF MarkFetching, CallerIsOwned
  <2>4. \A r \in Syncs : InFlight(r)' <=> InFlight(r)
      BY <2>2, QueueKeptInFlight
  <2>5. RunningIsFetching'
      BY <2>2 DEF RunningIsFetching, Running, TypeOK
  <2>6. FetchingIsOwned'
      BY <2>2, <2>3, <2>4 DEF FetchingIsOwned, TypeOK
  <2>7. CallerIsOwned'
      BY <2>2 DEF CallerIsOwned, InFlight, Waiting, TypeOK, Idle
  <2> QED BY <2>5, <2>6, <2>7
<1>4. ASSUME NEW c \in Callers, CallerDies(c) PROVE Owned'
    BY <1>4, QuietKeeps DEF CallerDies, TypeOK, Idle
<1>5. ASSUME NEW q \in QueueSet, Dequeue(q) PROVE Owned'
  <2>1. \A s \in Syncs : InFlight(s) => InFlight(s)'
      BY <1>5, DequeueInFlight
  <2>2. RunningIsFetching' /\ FetchingIsOwned'
      BY <1>5, <2>1 DEF Dequeue, RunningIsFetching, FetchingIsOwned, Running, Inside, NoJob
  <2>3. ASSUME NEW c \in Callers, caller'[c].pc = "enqueued", ~caller'[c].overtaken
        PROVE  InFlight(caller[c].sync)'
    <3>1. caller' = caller
        BY <1>5 DEF Dequeue
    <3>2. PICK s \in Syncs : s = caller[c].sync
        BY <2>3, <3>1 DEF TypeOK
    <3>3. InFlight(s)
        BY <2>3, <3>1, <3>2 DEF CallerIsOwned
    <3> QED BY <2>1, <3>1, <3>2, <3>3
  <2> QED BY <2>2, <2>3 DEF CallerIsOwned
<1>6. ASSUME NEW src \in AllSources, Fetch(src) \/ FetchFails(src) PROVE Owned'
    BY <1>6, QuietKeeps DEF Fetch, FetchFails, TypeOK, Worker, Inside
<1>7. ASSUME NEW src \in AllSources, RemoteMoves(src) PROVE Owned'
    BY <1>7, QuietKeeps DEF RemoteMoves
<1>8. CASE BeginRun
  <2>1. worker.sync \in Syncs /\ worker'.sync = worker.sync
      BY <1>8 DEF BeginRun, TypeOK, Worker
  <2>2. \A r \in Syncs : InFlight(r)' <=> InFlight(r)
      BY <1>8, <2>1, QueueKeptInFlight DEF BeginRun
  <2>3. RunningIsFetching'
      BY <1>8, <2>1 DEF BeginRun, RunningIsFetching, Running, TypeOK
  <2>4. FetchingIsOwned'
      BY <1>8, <2>1, <2>2 DEF BeginRun, FetchingIsOwned, InFlight, TypeOK
  <2>5. CallerIsOwned'
      BY <1>8, <2>1 DEF BeginRun, CallerIsOwned, InFlight, Waiting
  <2> QED BY <2>3, <2>4, <2>5
<1>9. CASE CommitAll
    BY <1>9, PublishKeeps DEF CommitAll, TypeOK, Status
<1>10. CASE CommitSource
    BY <1>10, QuietKeeps DEF CommitSource, TypeOK, Worker, Inside
<1>11. CASE EndPerSource
    BY <1>11, PublishKeeps DEF EndPerSource, TypeOK, Status
<1>12. CASE RunFails
  <2>1. worker.pc # "idle" /\ worker.sync \in Syncs
      BY <1>12 DEF RunFails, Inside, TypeOK
  <2> QED BY <1>12, <2>1, PublishKeeps DEF RunFails, Status
<1>13. CASE RunEscapes \/ Kill
  <2>1. /\ worker.pc # "idle" /\ worker' = NoJob /\ queue' = queue /\ status' = status
        /\ stranded' = stranded \cup {worker.sync}
        /\ \A c \in Callers : caller'[c] \in {Idle, Overtake(worker.sync)[c]}
      BY <1>13 DEF RunEscapes, Kill, LoseJob
  <2>2. CallerIsOwned'
      BY <2>1, EndKeepsCallers
  <2>3. RunningIsFetching'
      BY <2>1 DEF RunningIsFetching, Running, NoJob, Inside
  <2>4. FetchingIsOwned'
      BY <2>1, QueueKeptInFlight DEF FetchingIsOwned, InFlight
  <2> QED BY <2>2, <2>3, <2>4
<1>14. CASE UNCHANGED vars
    BY <1>14, QuietKeeps DEF vars
<1> QED
    BY <1>1, <1>2, <1>3, <1>4, <1>5, <1>6, <1>7, <1>8, <1>9, <1>10, <1>11, <1>12,
       <1>13, <1>14, NextCases

(* trigger_sync and the six run_* functions: while a job runs, its sync    *)
(* reads FETCHING, so every trigger is refused.                            *)
THEOREM RunningCorrect == Spec => []RunningIsFetching
<1>1. IInv => RunningIsFetching
    BY DEF IInv
<1> QED BY <1>1, InitOwned, NextOwned, PTL DEF Spec

(* A sync that reads FETCHING has a job, or is one that a lost job or a    *)
(* late trigger left behind: nothing else gets it stuck.                   *)
THEOREM FetchingCorrect == Spec => []FetchingIsOwned
<1>1. IInv => FetchingIsOwned
    BY DEF IInv
<1> QED BY <1>1, InitOwned, NextOwned, PTL DEF Spec

(* A trigger between its enqueue and its commit has its job in flight      *)
(* until a run of the sync ends.                                           *)
THEOREM CallerCorrect == Spec => []CallerIsOwned
<1>1. IInv => CallerIsOwned
    BY DEF IInv
<1> QED BY <1>1, InitOwned, NextOwned, PTL DEF Spec

-----------------------------------------------------------------------------
(* The protocol implements SyncContract.  Two facts about the running job  *)
(* are needed beside IInv: a source is never both still to do and failed,  *)
(* none has failed before the run begins, and an empty answer was accepted only where the sync accepts one.       *)

JobEarned ==
    /\ worker.todo \cap worker.errs = {}
    /\ worker.pc = "dequeued" => worker.errs = {}
    /\ worker.pc = "fetched" /\ worker.data = "empty" => worker.sync \notin RejectsEmpty

LEMMA JobEarnedInductive ==
    /\ Init => JobEarned
    /\ TypeOK /\ JobEarned /\ [Next]_vars => JobEarned'
<1>1. Init => JobEarned
    BY DEF Init, JobEarned, NoJob
<1>2. ASSUME TypeOK, JobEarned, [Next]_vars PROVE JobEarned'
  <2> USE DEF JobEarned
  <2>1. ASSUME worker' \in {worker, NoJob} PROVE JobEarned'
      BY <1>2, <2>1 DEF NoJob
  <2>2. ASSUME NEW q \in QueueSet, Dequeue(q) PROVE JobEarned'
      BY <2>2 DEF Dequeue, NoJob
  <2>3. ASSUME NEW src \in AllSources, Fetch(src) PROVE JobEarned'
    <3>1. PICK data \in Fetched :
             /\ data = "empty" => worker.sync \notin RejectsEmpty
             /\ worker' = [worker EXCEPT !.pc = "fetched", !.src = src, !.data = data]
        BY <2>3 DEF Fetch
    <3> QED BY <1>2, <3>1 DEF TypeOK, Worker
  <2>4. ASSUME NEW src \in AllSources, FetchFails(src) PROVE JobEarned'
      BY <1>2, <2>4 DEF FetchFails, TypeOK, Worker
  <2>5. CASE BeginRun
    <3>1. worker.errs = {}
        BY <1>2, <2>5 DEF BeginRun
    <3> QED BY <1>2, <2>5, <3>1 DEF BeginRun, TypeOK, Worker
  <2>6. CASE CommitSource
      BY <1>2, <2>6 DEF CommitSource, TypeOK, Worker
  <2>7. CASE CommitAll \/ EndPerSource \/ RunFails \/ RunEscapes \/ Kill
      BY <2>1, <2>7 DEF CommitAll, EndPerSource, RunFails, RunEscapes, Kill, LoseJob, Publish
  <2>8. CASE worker' = worker
      BY <2>1, <2>8
  <2> QED
      BY <1>2, <2>2, <2>3, <2>4, <2>5, <2>6, <2>7, <2>8, NextCases
         DEF vars, Check, Enqueue, MarkFetching, CallerDies, RemoteMoves
<1> QED BY <1>1, <1>2

LEMMA InitContract == Init => Contract!Init
    BY DEF Init, Contract!Init, AllSources, Contract!AllSources, Replaced, Running,
           Inside, NoJob

(* The end of a run of s empties Replaced, and a step that leaves the      *)
(* worker alone leaves Replaced alone.                                     *)
LEMMA ReplacedOfNoJob ==
    ASSUME worker' = NoJob
    PROVE  Replaced' = [s \in Syncs |-> {}]
    BY DEF Replaced, Running, Inside, NoJob

LEMMA ReplacedElsewhere ==
    ASSUME NEW s \in Syncs, s # worker.sync
    PROVE  Replaced[s] = {}
    BY DEF Replaced, Running

LEMMA NextContract ==
    ASSUME IInv, JobEarned, [Next]_vars
    PROVE  [Contract!Next]_(Contract!contractVars)
<1> DEFINE Goal == [Contract!Next]_(Contract!contractVars)
           w == worker.sync
<1> USE DEF IInv
<1>0. AllSources = Contract!AllSources
    BY DEF AllSources, Contract!AllSources
<1>1. ASSUME status' = status, rows' = rows, Replaced' = Replaced PROVE Goal
    BY <1>1 DEF Contract!contractVars
<1>2. ASSUME NEW c \in Callers, NEW s \in Syncs, Check(c, s) PROVE Goal
    BY <1>1, <1>2 DEF Check, Replaced, Running
<1>3. ASSUME NEW c \in Callers, Enqueue(c) \/ CallerDies(c) PROVE Goal
    BY <1>1, <1>3 DEF Enqueue, CallerDies, Replaced, Running
<1>4. ASSUME NEW c \in Callers, MarkFetching(c) PROVE Goal
  <2>1. PICK s \in Syncs : s = caller[c].sync
      BY <1>4 DEF MarkFetching, TypeOK
  <2>2. status' = [status EXCEPT ![s] = "fetching"] /\ rows' = rows /\ Replaced' = Replaced
      BY <1>4, <2>1 DEF MarkFetching, Replaced, Running
  <2>3. CASE Running(s)
    <3>1. status' = status
        BY <2>2, <2>3 DEF RunningIsFetching, TypeOK
    <3> QED BY <1>1, <2>2, <3>1
  <2>4. CASE ~Running(s)
    <3>1. Replaced' = [Replaced EXCEPT ![s] = {}]
        BY <2>2, <2>4 DEF Replaced
    <3>2. Contract!Start(s)
        BY <2>2, <3>1 DEF Contract!Start
    <3> QED BY <3>2 DEF Contract!Next
  <2> QED BY <2>3, <2>4
<1>5. ASSUME NEW q \in QueueSet, Dequeue(q) PROVE Goal
  <2>1. Replaced' = Replaced
      BY <1>5 DEF Dequeue, Replaced, Running, Inside, NoJob
  <2> QED BY <1>1, <1>5, <2>1 DEF Dequeue
<1>6. ASSUME NEW src \in AllSources, Fetch(src) \/ FetchFails(src) PROVE Goal
  <2>1. /\ worker'.sync = worker.sync /\ Running(w) /\ worker'.pc \in Inside
        /\ worker'.todo \cup worker'.errs = worker.todo \cup worker.errs
      BY <1>6 DEF Fetch, FetchFails, TypeOK, Worker, Running, Inside
  <2>2. Replaced' = Replaced
      BY <2>1 DEF Replaced, Running
  <2> QED BY <1>1, <1>6, <2>2 DEF Fetch, FetchFails
<1>7. ASSUME NEW src \in AllSources, RemoteMoves(src) PROVE Goal
  <2>1. PICK s \in Syncs : src \in SourcesOf[s]
      BY DEF AllSources
  <2>2. Replaced' = Replaced
      BY <1>7 DEF RemoteMoves, Replaced, Running
  <2>3. Contract!RemoteMoves(src)
      BY <1>7, <2>2 DEF RemoteMoves, Contract!RemoteMoves
  <2> QED BY <2>1, <2>3 DEF Contract!Next
<1>8. CASE BeginRun
  <2>1. w \in Syncs /\ worker'.pc \in Inside /\ worker'.sync = w
        /\ worker'.todo = SourcesOf[w]
      BY <1>8 DEF BeginRun, TypeOK, Worker, Inside
  <2>2. Replaced' = [Replaced EXCEPT ![w] = {}]
    <3>1. \A s \in Syncs : Replaced'[s] = {}
        BY <2>1 DEF Replaced, Running
    <3>2. \A s \in Syncs : Replaced[s] = {}
        BY <1>8 DEF BeginRun, Replaced, Running, Inside
    <3> QED BY <2>1, <3>1, <3>2 DEF Replaced
  <2>3. Contract!Start(w)
      BY <1>8, <2>2 DEF BeginRun, Contract!Start
  <2> QED BY <2>1, <2>3 DEF Contract!Next
<1>9. ASSUME w \in Syncs, Running(w), Publish(w, "failed"), Replaced[w] = {}, rows' = rows
      PROVE  Goal
  <2>1. status' = [status EXCEPT ![w] = "failed"] /\ status[w] = "fetching"
      BY <1>9 DEF Publish, RunningIsFetching
  <2>2. Replaced' = Replaced
    <3>1. \A s \in Syncs : Replaced[s] = {}
        BY <1>9, ReplacedElsewhere
    <3> QED BY <1>9, <3>1, ReplacedOfNoJob DEF Publish, Replaced
  <2>3. Contract!PublishFailed(w)
      BY <1>9, <2>1, <2>2 DEF Contract!PublishFailed
  <2> QED BY <1>9, <2>3 DEF Contract!Next
<1>10. ASSUME w \in Syncs, worker' = NoJob
       PROVE  Replaced' = [Replaced EXCEPT ![w] = {}]
  <2>1. \A s \in Syncs : s # w => Replaced[s] = {}
      BY ReplacedElsewhere
  <2> QED BY <1>10, <2>1, ReplacedOfNoJob DEF Replaced
<1>11. CASE CommitAll
  <2>1. /\ w \in Syncs /\ w \notin PerSource /\ Running(w) /\ worker.data \in Fetched
        /\ worker' = NoJob /\ status' = [status EXCEPT ![w] = "current"]
      BY <1>11 DEF CommitAll, Publish, TypeOK, Running, Inside
  <2>2. status[w] = "fetching" /\ (worker.data = "empty" => w \notin RejectsEmpty)
      BY <1>11, <2>1 DEF RunningIsFetching, JobEarned, CommitAll
  <2>3. Contract!ReplaceAll(w, worker.data)
      BY <1>0, <1>10, <1>11, <2>1, <2>2 DEF CommitAll, Contract!ReplaceAll
  <2> QED BY <2>1, <2>3 DEF Contract!Next, Fetched, Contract!Fetched
<1>12. CASE CommitSource
  <2> DEFINE src == worker.src
  <2>1. /\ w \in Syncs /\ w \in PerSource /\ Running(w) /\ worker.data \in Fetched
        /\ src \in worker.todo /\ src \in SourcesOf[w] /\ src \notin worker.errs
        /\ worker.todo \subseteq SourcesOf[w]
      BY <1>12 DEF CommitSource, TypeOK, Running, Inside, JobEarned
  <2>2. /\ worker'.sync = w /\ worker'.pc = "fetching"
        /\ worker'.todo = worker.todo \ {src} /\ worker'.errs = worker.errs
      BY <1>12 DEF CommitSource, TypeOK, Worker
  <2>3. Replaced' = [Replaced EXCEPT ![w] = Replaced[w] \cup {src}]
    <3>1. /\ Replaced[w] = SourcesOf[w] \ (worker.todo \cup worker.errs)
          /\ Replaced'[w] = SourcesOf[w] \ ((worker.todo \ {src}) \cup worker.errs)
        BY <2>1, <2>2 DEF Replaced, Running, Inside
    <3>2. Replaced'[w] = Replaced[w] \cup {src}
        BY <2>1, <3>1
    <3>3. \A s \in Syncs : s # w => Replaced'[s] = Replaced[s]
        BY <2>2 DEF Replaced, Running
    <3>4. Replaced = [s \in Syncs |-> Replaced[s]] /\ Replaced' = [s \in Syncs |-> Replaced'[s]]
        BY DEF Replaced
    <3> QED BY <2>1, <3>2, <3>3, <3>4
  <2>4. Contract!ReplaceSource(w, src, worker.data)
      BY <1>12, <2>1, <2>3 DEF CommitSource, Contract!ReplaceSource, RunningIsFetching
  <2> QED BY <2>1, <2>4 DEF Contract!Next, Fetched, Contract!Fetched
<1>13. CASE EndPerSource
  <2>1. /\ w \in Syncs /\ w \in PerSource /\ Running(w) /\ worker.todo = {}
        /\ worker.errs \subseteq SourcesOf[w] /\ rows' = rows
      BY <1>13 DEF EndPerSource, TypeOK, Running, Inside
  <2>2. Replaced[w] = SourcesOf[w] \ worker.errs
      BY <2>1 DEF Replaced
  <2>3. CASE worker.errs = SourcesOf[w]
      BY <1>9, <1>13, <2>1, <2>2, <2>3 DEF EndPerSource
  <2>4. CASE worker.errs # SourcesOf[w]
    <3>1. /\ worker' = NoJob /\ status' = [status EXCEPT ![w] = "current"]
          /\ status[w] = "fetching" /\ Replaced[w] # {}
      <4>1. status[w] = "fetching"
          BY <2>1 DEF RunningIsFetching
      <4>2. Publish(w, "current")
          BY <1>13, <2>4 DEF EndPerSource
      <4>3. Replaced[w] # {}
          BY <2>1, <2>2, <2>4
      <4> QED BY <4>1, <4>2, <4>3 DEF Publish
    <3>2. Contract!PublishCurrent(w)
        BY <1>10, <2>1, <3>1 DEF Contract!PublishCurrent
    <3> QED BY <2>1, <3>2 DEF Contract!Next
  <2> QED BY <2>3, <2>4
<1>14. CASE RunFails
  <2>1. w \in Syncs /\ Running(w) /\ Replaced[w] = {}
      BY <1>14 DEF RunFails, TypeOK, Running, Inside, Replaced
  <2> QED BY <1>9, <1>14, <2>1 DEF RunFails
<1>15. CASE RunEscapes \/ Kill
  <2>1. /\ w \in Syncs /\ worker' = NoJob /\ status' = status /\ rows' = rows
      BY <1>15 DEF RunEscapes, Kill, LoseJob, TypeOK
  <2>2. CASE Running(w)
    <3>1. Contract!Abandon(w)
        BY <1>10, <2>1, <2>2 DEF Contract!Abandon, RunningIsFetching
    <3> QED BY <2>1, <3>1 DEF Contract!Next
  <2>3. CASE ~Running(w)
    <3>1. Replaced' = Replaced
        BY <2>1, <2>3, ReplacedElsewhere, ReplacedOfNoJob DEF Replaced
    <3> QED BY <1>1, <2>1, <3>1
  <2> QED BY <2>2, <2>3
<1>16. CASE UNCHANGED vars
    BY <1>1, <1>16 DEF vars, Replaced, Running
<1> QED
    BY <1>2, <1>3, <1>4, <1>5, <1>6, <1>7, <1>8, <1>11, <1>12, <1>13, <1>14, <1>15,
       <1>16, NextCases

(* The six syncs: "no fake success".  Rows change only when a finished     *)
(* fetch replaces them under FETCHING; CURRENT and FAILED are earned.      *)
THEOREM Implements == Spec => ImplementsContract
<1>1. Init => IInv /\ JobEarned /\ Contract!Init
    BY InitOwned, JobEarnedInductive, InitContract
<1>2. IInv /\ JobEarned /\ [Next]_vars => IInv' /\ JobEarned'
    BY NextOwned, JobEarnedInductive DEF IInv
<1>3. IInv /\ JobEarned /\ [Next]_vars => [Contract!Next]_(Contract!contractVars)
    BY NextContract
<1> QED BY <1>1, <1>2, <1>3, PTL DEF Spec, ImplementsContract, Contract!Spec
=============================================================================
