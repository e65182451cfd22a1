------------------------------ MODULE SyncJob ------------------------------
(***************************************************************************)
(* The background-sync protocol shared by CardForge's six data syncs.      *)
(*                                                                         *)
(* trigger_sync runs in an API request, at API startup, or in the worker's *)
(* periodic thread.  It is three separate steps on two servers: read the   *)
(* status row (Postgres), enqueue a job (Redis), write FETCHING            *)
(* (Postgres).  Nothing locks the row.  One SimpleWorker takes jobs from   *)
(* the queues in the order of QUEUE_NAMES and runs one at a time: it       *)
(* re-asserts FETCHING, fetches, replaces the mirror's rows in one         *)
(* transaction (popular decks: one transaction per source) and publishes   *)
(* CURRENT or FAILED.  A hard kill loses the running job: RQ does not run  *)
(* it again.                                                               *)
(*                                                                         *)
(* Each action ends at a commit or at a step another process can see; the  *)
(* uncommitted work of the worker's transaction is worker.pc and .data.    *)
(***************************************************************************)
EXTENDS Naturals, Sequences, FiniteSets

CONSTANTS
    Syncs,          \* the syncs of this instance
    PerSource,      \* syncs that commit source by source and have no catch-all
    SourcesOf,      \* SourcesOf[s]: the sources sync s fetches
    RejectsEmpty,   \* syncs that fail when the remote answers with nothing
    QueueNames,     \* the worker's queues, first polled first
    QueueOf,        \* QueueOf[s]: the queue sync s is enqueued on
    Callers,        \* concurrent executions of trigger_sync
    Periodic,       \* callers that are the worker's periodic thread
    Startup,        \* callers that are an API process starting up
    PeriodicSyncs,  \* what the periodic thread triggers
    AutoSyncs,      \* what API startup triggers
    NoSync,
    MaxQueue,       \* bound: jobs waiting on one queue
    MaxFaults       \* bound: crashes, errors and kills in a behaviour

AllSources == UNION {SourcesOf[s] : s \in Syncs}

QueueSet == {QueueNames[i] : i \in 1..Len(QueueNames)}

ASSUME SyncsOK ==
    /\ NoSync \notin Syncs
    /\ PerSource \subseteq Syncs /\ RejectsEmpty \subseteq Syncs
    /\ PeriodicSyncs \subseteq Syncs /\ AutoSyncs \subseteq Syncs
    /\ \A s \in Syncs : SourcesOf[s] # {}
    /\ \A s, t \in Syncs : s # t => SourcesOf[s] \cap SourcesOf[t] = {}

ASSUME QueuesOK ==
    /\ QueueNames \in Seq(STRING)
    /\ QueueOf \in [Syncs -> QueueSet]
    /\ MaxQueue \in Nat \ {0} /\ MaxFaults \in Nat

ASSUME CallersOK == Periodic \subseteq Callers /\ Startup \subseteq Callers

VARIABLES
    status,    \* status[s]: the sync's state row
    rows,      \* rows[src]: the committed mirror rows of one source
    queue,     \* queue[q]: the jobs waiting in Redis
    caller,    \* caller[c]: where an execution of trigger_sync stands
    worker,    \* what the worker is doing
    stranded,  \* history: syncs left FETCHING by a lost job or by a race
    faults     \* crashes, errors and kills so far

vars == <<status, rows, queue, caller, worker, stranded, faults>>

Status == {"not_started", "fetching", "current", "failed"}
Fetched == {"fresh", "empty"}
Rows == Fetched \cup {"stale", "none"}

(* A caller that is "checked" has read the row and not yet enqueued;       *)
(* "enqueued", not yet committed FETCHING.  overtaken is history: a run of *)
(* the same sync has ended since this caller enqueued its job.             *)
Idle == [pc |-> "idle", sync |-> NoSync, overtaken |-> FALSE]
Caller ==
    [pc : {"idle", "checked", "enqueued"}, sync : Syncs \cup {NoSync},
     overtaken : BOOLEAN]

(* The worker's job: dequeued, then, for each source, fetching and fetched *)
(* (the deletion and the insertion of its rows are uncommitted until the   *)
(* commit).  todo: sources not yet dealt with; errs: those that failed.    *)
Worker ==
    [pc : {"idle", "dequeued", "fetching", "fetched"}, sync : Syncs \cup {NoSync},
     src : AllSources \cup {"none"}, data : Fetched \cup {"none"},
     todo : SUBSET AllSources, errs : SUBSET AllSources]
NoJob == [pc |-> "idle", sync |-> NoSync, src |-> "none", data |-> "none",
          todo |-> {}, errs |-> {}]
Inside == {"fetching", "fetched"}
Running(s) == worker.sync = s /\ worker.pc \in Inside

Waiting(s) == \E i \in 1..Len(queue[QueueOf[s]]) : queue[QueueOf[s]][i] = s
InFlight(s) == Waiting(s) \/ worker.sync = s

Init ==
    /\ status = [s \in Syncs |-> "not_started"]
    /\ rows = [src \in AllSources |-> "none"]
    /\ queue = [q \in QueueSet |-> <<>>]
    /\ caller = [c \in Callers |-> Idle]
    /\ worker = NoJob
    /\ stranded = {}
    /\ faults = 0

(* Failures are environment actions; the model caps them. *)
Fault ==
    /\ faults < MaxFaults
    /\ faults' = faults + 1

-----------------------------------------------------------------------------
(* trigger_sync *)

(* Broken variant: nobody retries a sync that has failed. *)
MayTriggerUnlessFailed(c, s) ==
    /\ status[s] \in {"not_started", "current"}
    /\ c \in Startup => s \in AutoSyncs /\ status[s] = "not_started"
    /\ c \in Periodic => s \in PeriodicSyncs

(* maybe_auto_trigger_sync asks for NOT_STARTED; the periodic thread only  *)
(* asks for its own syncs.                                                 *)
MayTrigger(c, s) ==
    /\ status[s] # "fetching"
    /\ c \in Startup => s \in AutoSyncs /\ status[s] = "not_started"
    /\ c \in Periodic => s \in PeriodicSyncs

(* Read the state row; FETCHING raises SyncAlreadyInProgressError. *)
Check(c, s) ==
    /\ caller[c].pc = "idle"
    /\ MayTrigger(c, s)
    /\ caller' = [caller EXCEPT ![c] = [Idle EXCEPT !.pc = "checked", !.sync = s]]
    /\ UNCHANGED <<status, rows, queue, worker, stranded, faults>>

Enqueue(c) ==
    LET q == QueueOf[caller[c].sync] IN
    /\ caller[c].pc = "checked"
    /\ Len(queue[q]) < MaxQueue
    /\ queue' = [queue EXCEPT ![q] = Append(@, caller[c].sync)]
    /\ caller' = [caller EXCEPT ![c].pc = "enqueued"]
    /\ UNCHANGED <<status, rows, worker, stranded, faults>>

(* Write FETCHING over whatever the row holds by now. *)
MarkFetching(c) ==
    /\ caller[c].pc = "enqueued"
    /\ status' = [status EXCEPT ![caller[c].sync] = "fetching"]
    /\ stranded' = IF caller[c].overtaken
                   THEN stranded \cup {caller[c].sync} ELSE stranded
    /\ caller' = [caller EXCEPT ![c] = Idle]
    /\ UNCHANGED <<rows, queue, worker, faults>>

(* The enqueue raises (Redis down), the commit does, or the API process is *)
(* stopped in between: what is done stays done.                            *)
CallerDies(c) ==
    /\ caller[c].pc # "idle"
    /\ Fault
    /\ caller' = [caller EXCEPT ![c] = Idle]
    /\ UNCHANGED <<status, rows, queue, worker, stranded>>

-----------------------------------------------------------------------------
(* The worker *)

(* RQ pops the first queue that is not empty. *)
Dequeue(q) ==
    /\ worker.pc = "idle"
    /\ queue[q] # <<>>
    /\ \E i \in 1..Len(QueueNames) :
          /\ QueueNames[i] = q
          /\ \A j \in 1..(i - 1) : queue[QueueNames[j]] = <<>>
    /\ worker' = [NoJob EXCEPT !.pc = "dequeued", !.sync = Head(queue[q])]
    /\ queue' = [queue EXCEPT ![q] = Tail(@)]
    /\ UNCHANGED <<status, rows, caller, stranded, faults>>

(* Broken variant: the run trusts the trigger to have written FETCHING. *)
BeginRunUnmarked ==
    /\ worker.pc = "dequeued"
    /\ worker' = [worker EXCEPT !.pc = "fetching", !.todo = SourcesOf[worker.sync]]
    /\ UNCHANGED <<status, rows, queue, caller, stranded, faults>>

(* run_*: re-assert FETCHING and commit. *)
BeginRun ==
    /\ worker.pc = "dequeued"
    /\ status' = [status EXCEPT ![worker.sync] = "fetching"]
    /\ worker' = [worker EXCEPT !.pc = "fetching", !.todo = SourcesOf[worker.sync]]
    /\ UNCHANGED <<rows, queue, caller, stranded, faults>>

(* The remote answers for one source, possibly with nothing. *)
Fetch(src) ==
    /\ worker.pc = "fetching"
    /\ src \in worker.todo
    /\ \E data \in Fetched :
          /\ data = "empty" => worker.sync \notin RejectsEmpty
          /\ worker' = [worker EXCEPT !.pc = "fetched", !.src = src, !.data = data]
    /\ UNCHANGED <<status, rows, queue, caller, stranded, faults>>

(* run_discovery_sync records a source's failure and goes on. *)
FetchFails(src) ==
    /\ worker.pc = "fetching"
    /\ worker.sync \in PerSource
    /\ src \in worker.todo
    /\ worker' = [worker EXCEPT !.todo = @ \ {src}, !.errs = @ \cup {src}]
    /\ UNCHANGED <<status, rows, queue, caller, stranded, faults>>

(* History: the job of s has ended, whatever its end was. *)
Overtake(s) ==
    [c \in Callers |->
        IF caller[c].pc = "enqueued" /\ caller[c].sync = s
        THEN [caller[c] EXCEPT !.overtaken = TRUE] ELSE caller[c]]

(* The job ends and publishes a status. *)
Publish(s, st) ==
    /\ status' = [status EXCEPT ![s] = st]
    /\ worker' = NoJob
    /\ caller' = Overtake(s)
    /\ stranded' = stranded \ {s}
    /\ UNCHANGED queue

(* All-or-nothing syncs: rows and CURRENT in the same commit. *)
CommitAll ==
    /\ worker.pc = "fetched"
    /\ worker.sync \notin PerSource
    /\ rows' = [src \in AllSources |->
                   IF src \in SourcesOf[worker.sync] THEN worker.data ELSE rows[src]]
    /\ UNCHANGED faults
    /\ Publish(worker.sync, "current")

(* Broken variant: the loop does not move on to the next source. *)
CommitSourceAgain ==
    /\ worker.pc = "fetched"
    /\ worker.sync \in PerSource
    /\ rows' = [rows EXCEPT ![worker.src] = worker.data]
    /\ worker' = [worker EXCEPT !.todo = @ \ {worker.src}]
    /\ UNCHANGED <<status, queue, caller, stranded, faults>>

(* Popular decks: a commit per source. *)
CommitSource ==
    /\ worker.pc = "fetched"
    /\ worker.sync \in PerSource
    /\ rows' = [rows EXCEPT ![worker.src] = worker.data]
    /\ worker' = [worker EXCEPT !.pc = "fetching", !.src = "none", !.data = "none",
                                !.todo = @ \ {worker.src}]
    /\ UNCHANGED <<status, queue, caller, stranded, faults>>

(* Broken variant: one failed source is enough for FAILED. *)
EndPerSourceStrict ==
    /\ worker.pc = "fetching"
    /\ worker.sync \in PerSource
    /\ worker.todo = {}
    /\ UNCHANGED <<rows, faults>>
    /\ Publish(worker.sync, IF worker.errs # {} THEN "failed" ELSE "current")

(* Popular decks, after the last source: FAILED only if every source failed. *)
EndPerSource ==
    /\ worker.pc = "fetching"
    /\ worker.sync \in PerSource
    /\ worker.todo = {}
    /\ UNCHANGED <<rows, faults>>
    /\ IF worker.errs = SourcesOf[worker.sync]
       THEN Publish(worker.sync, "failed")
       ELSE Publish(worker.sync, "current")

(* Broken variant: the catch-all rolls back and writes no status. *)
RunFailsUnrecorded ==
    /\ worker.pc \in Inside
    /\ worker.sync \notin PerSource
    /\ Fault
    /\ worker' = NoJob
    /\ caller' = Overtake(worker.sync)
    /\ UNCHANGED <<status, rows, queue, stranded>>

(* The catch-all of the all-or-nothing syncs: roll back, publish FAILED.   *)
(* A job timeout is an exception like any other.                           *)
RunFails ==
    /\ worker.pc \in Inside
    /\ worker.sync \notin PerSource
    /\ Fault
    /\ UNCHANGED rows
    /\ Publish(worker.sync, "failed")

(* The job is gone and nothing is written about it. *)
LoseJob(s) ==
    /\ worker' = NoJob
    /\ stranded' = stranded \cup {s}
    /\ UNCHANGED <<status, rows, queue>>

(* An error leaves the job with nothing published: run_discovery_sync has  *)
(* no catch-all, and with the database gone the first commit, or the       *)
(* catch-all's own, fails in every sync.                                   *)
RunEscapes ==
    /\ worker.pc # "idle"
    /\ Fault
    /\ LoseJob(worker.sync)
    /\ caller' = Overtake(worker.sync)

(* The worker process is killed: the job is lost, the transaction rolls    *)
(* back, the periodic thread dies with the process.                        *)
Kill ==
    /\ worker.pc # "idle"
    /\ Fault
    /\ LoseJob(worker.sync)
    /\ caller' = [c \in Callers |->
                     IF c \in Periodic THEN Idle ELSE Overtake(worker.sync)[c]]

-----------------------------------------------------------------------------
(* The remote publishes something new after the rows were committed. *)
RemoteMoves(src) ==
    /\ rows[src] = "fresh"
    /\ rows' = [rows EXCEPT ![src] = "stale"]
    /\ UNCHANGED <<status, queue, caller, worker, stranded, faults>>

Trigger(c) == (\E s \in Syncs : Check(c, s)) \/ Enqueue(c) \/ MarkFetching(c)

WorkerStep ==
    \/ \E q \in QueueSet : Dequeue(q)
    \/ BeginRun
    \/ \E src \in AllSources : Fetch(src) \/ FetchFails(src)
    \/ CommitAll \/ CommitSource \/ EndPerSource \/ RunFails \/ RunEscapes

Next ==
    \/ \E c \in Callers : Trigger(c) \/ CallerDies(c)
    \/ WorkerStep
    \/ Kill
    \/ \E src \in AllSources : RemoteMoves(src)

Spec == Init /\ [][Next]_vars

(* The worker keeps working and is restarted when it dies; the periodic    *)
(* thread keeps ticking and tries each of its syncs.  API callers promise  *)
(* nothing.                                                                *)
Fairness ==
    /\ WF_vars(WorkerStep)
    /\ \A c \in Periodic :
          /\ WF_vars(Trigger(c))
          /\ \A s \in PeriodicSyncs : SF_vars(Check(c, s))

FairSpec == Spec /\ Fairness

-----------------------------------------------------------------------------
(* Type invariant.  Committed rows are never half-replaced: the deletion   *)
(* and the insertion are one transaction.                                  *)
TypeOK ==
    /\ status \in [Syncs -> Status]
    /\ rows \in [AllSources -> Rows]
    /\ queue \in [QueueSet -> Seq(Syncs)]
    /\ \A q \in QueueSet : \A i \in 1..Len(queue[q]) : QueueOf[queue[q][i]] = q
    /\ caller \in [Callers -> Caller]
    /\ \A c \in Callers : caller[c].pc # "idle" => caller[c].sync \in Syncs
    /\ worker \in Worker
    /\ worker.pc = "idle" => worker = NoJob
    /\ worker.pc # "idle" =>
          /\ worker.sync \in Syncs
          /\ worker.todo \subseteq SourcesOf[worker.sync]
          /\ worker.errs \subseteq SourcesOf[worker.sync]
    /\ worker.pc = "fetched" =>
          worker.src \in worker.todo /\ worker.data \in Fetched
    /\ stranded \subseteq Syncs
    /\ faults \in 0..MaxFaults

(* While a job is inside its run its sync is published as FETCHING, also   *)
(* when a duplicate job of the same sync has just ended: every trigger     *)
(* that reads the row meanwhile is refused.                                *)
RunningIsFetching == \A s \in Syncs : Running(s) => status[s] = "fetching"

(* A sync is left FETCHING without a job only by a lost job, or by a       *)
(* trigger whose FETCHING came after the end of a run of that sync.        *)
FetchingIsOwned ==
    \A s \in Syncs : status[s] = "fetching" => InFlight(s) \/ s \in stranded

(* A trigger that has enqueued its job, no run of the sync having ended    *)
(* since, still has it in flight when it writes FETCHING.                  *)
CallerIsOwned ==
    \A c \in Callers :
        caller[c].pc = "enqueued" /\ ~caller[c].overtaken => InFlight(caller[c].sync)

(* The protocol keeps the promise of SyncContract: rows change only as a   *)
(* finished fetch replaces them under FETCHING, CURRENT and FAILED are     *)
(* published only when earned.                                             *)
Replaced ==
    [s \in Syncs |->
        IF Running(s) /\ s \in PerSource
        THEN SourcesOf[s] \ (worker.todo \cup worker.errs) ELSE {}]

Contract == INSTANCE SyncContract WITH replaced <- Replaced
ImplementsContract == Contract!Spec

(* A mirror that the periodic thread looks after and that has gone stale   *)
(* is refreshed, unless its sync is stranded.  For the queue polled first: *)
(* jobs there can starve the queues behind it.                             *)
Ticked == {s \in PeriodicSyncs : QueueOf[s] = QueueNames[1]}

StaleIsRefreshed ==
    \A s \in Ticked : \A src \in SourcesOf[s] :
        rows[src] = "stale" ~> (rows[src] # "stale" \/ s \in stranded)
=============================================================================
