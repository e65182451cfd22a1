---------------------------- MODULE ListRefresh ----------------------------
(***************************************************************************)
(* One card list, its imports, and the refresh of a list that came from a  *)
(* URL.  The user uploads text or a URL, sees a preview, and confirms or   *)
(* aborts it; a confirm appends the preview's rows to the list.  A refresh *)
(* (by request, or by the worker's staleness sweep for lists older than a  *)
(* week) fetches the URL again and replaces the items by what it finds.    *)
(*                                                                         *)
(* Every request reads in one step and commits in a later one, nothing     *)
(* locks a row, and the worker's refresh is a transaction in which the     *)
(* deletion sees the items of that moment and the commit comes later.      *)
(***************************************************************************)
EXTENDS Naturals, Sequences, FiniteSets, SequencesExt

CONSTANTS
    Contents,    \* what the remote can hold: same content, same hash
    Uploads,     \* what the user can upload (hashed otherwise, never equal)
    Callers,     \* concurrent API requests
    Worker,      \* the one RQ worker
    MaxImports,  \* bound: imports of the list
    MaxQueue,    \* bound: jobs on the "refresh" queue when a request adds one
    MaxFaults    \* bound: failed fetches, errors, crashes and kills

ASSUME ActorsOK == Worker \notin Callers /\ IsFiniteSet(Callers)
ASSUME ContentsOK == Contents # {} /\ Contents \cap Uploads = {}
ASSUME BoundsOK == MaxImports \in Nat /\ MaxQueue \in Nat /\ MaxFaults \in Nat

VARIABLES
    list,      \* the CardList row
    items,     \* items[i]: how often the rows of import i are in the list
    imports,   \* the ListImport records, oldest first
    remote,    \* what the source URL answers with
    queue,     \* the "refresh" queue
    actor,     \* actor[a]: where a request or the worker stands
    last,      \* history: the import confirmed last, 0 if none
    stranded,  \* history: FETCHING may have no refresh behind it
    faults     \* failures so far

vars == <<list, items, imports, remote, queue, actor, last, stranded, faults>>

Failed == {"FAILED", "AUTH_REQUIRED"}

(* status is "none" until the first import from a URL is confirmed (then   *)
(* source_url is set); old: refreshed last more than STALE_AFTER ago.      *)
List == [exists : BOOLEAN, old : BOOLEAN,
         status : {"none", "FETCHING", "CURRENT"} \cup Failed]

(* confirmed stands for partially_confirmed too: both count as prior       *)
(* imports, and a refresh skips bad rows anyway.  dup: duplicate_of_import.*)
Import == [content : Contents \cup Uploads, dup : BOOLEAN,
           status : {"previewed", "confirmed", "aborted"}]

Slots == 1..MaxImports
NoItems == [i \in Slots |-> 0]

(* A request: has read an import to confirm or abort it, or stands inside  *)
(* trigger_refresh.  The worker: inside trigger_refresh (the sweep job),   *)
(* inside run_refresh, or elsewhere: it runs the jobs of the "default"     *)
(* queue until it finds that empty.  seen: the items its DELETE matched.   *)
Places ==
    {"idle", "elsewhere", "confirming", "aborting", "checked", "enqueued",
     "dequeued", "fetching", "previewed", "unchanged", "deleted"}
Refreshing == {"dequeued", "fetching", "previewed", "unchanged", "deleted"}
Actors == Callers \cup {Worker}
Actor == [pc : Places, import : 0..MaxImports, overtaken : BOOLEAN,
          seen : [Slots -> Nat]]
Idle == [pc |-> "idle", import |-> 0, overtaken |-> FALSE, seen |-> NoItems]

FromUrl(i) == imports[i].content \in Contents

Init ==
    /\ list = [exists |-> TRUE, old |-> FALSE, status |-> "none"]
    /\ items = NoItems
    /\ imports = <<>>
    /\ remote \in Contents
    /\ queue = <<>>
    /\ actor = [a \in Actors |-> Idle]
    /\ last = 0
    /\ stranded = FALSE
    /\ faults = 0

Fault ==
    /\ faults < MaxFaults
    /\ faults' = faults + 1

Goto(a, pc) == actor' = [actor EXCEPT ![a].pc = pc]
Leave(a) == actor' = [actor EXCEPT ![a] = Idle]
SetStatus(st) == list' = [list EXCEPT !.status = st]

-----------------------------------------------------------------------------
(* Imports: preview, confirm, abort *)

(* find_prior_confirmed_import: any confirmed import of this list with the *)
(* same hash, however many came after it.                                  *)
Prior(content) ==
    \E i \in 1..Len(imports) :
        imports[i].content = content /\ imports[i].status = "confirmed"

(* _persist_preview: the record and its rows, one commit. *)
Persist(content) ==
    /\ list.exists
    /\ Len(imports) < MaxImports
    /\ imports' = Append(imports, [content |-> content, dup |-> Prior(content),
                                   status |-> "previewed"])

(* create_preview and create_preview_from_url in an API request. *)
Preview(content) ==
    /\ content \in Uploads \cup {remote}
    /\ Persist(content)
    /\ UNCHANGED <<list, items, remote, queue, actor, last, stranded, faults>>

(* Broken variant: an import that is settled may be confirmed again. *)
ReadAnyImport(c, i) ==
    /\ list.exists
    /\ actor[c].pc = "idle"
    /\ \E pc \in {"confirming", "aborting"} :
          actor' = [actor EXCEPT ![c] = [Idle EXCEPT !.pc = pc, !.import = i]]
    /\ UNCHANGED <<list, items, imports, remote, queue, last, stranded, faults>>

(* Both confirm_import and abort_import refuse what is not previewed. *)
ReadImport(c, i) ==
    /\ list.exists
    /\ actor[c].pc = "idle"
    /\ imports[i].status = "previewed"
    /\ \E pc \in {"confirming", "aborting"} :
          actor' = [actor EXCEPT ![c] = [Idle EXCEPT !.pc = pc, !.import = i]]
    /\ UNCHANGED <<list, items, imports, remote, queue, last, stranded, faults>>

(* Broken variant: rows inserted for a list that is gone. *)
InsertAnyway(i, gone) ==
    /\ items' = [j \in Slots |->
                    (items[j] - gone[j]) + (IF j = i THEN 1 ELSE 0)]
    /\ imports' = [imports EXCEPT ![i].status = "confirmed"]
    /\ list' = IF FromUrl(i) /\ list.exists
               THEN [list EXCEPT !.status = "CURRENT", !.old = FALSE] ELSE list
    /\ last' = i

(* confirm_import's commit: i's rows go in, after the deletion of gone. *)
Insert(i, gone) ==
    /\ list.exists
    /\ items' = [j \in Slots |->
                    (items[j] - gone[j]) + (IF j = i THEN 1 ELSE 0)]
    /\ imports' = [imports EXCEPT ![i].status = "confirmed"]
    /\ list' = IF FromUrl(i)
               THEN [list EXCEPT !.status = "CURRENT", !.old = FALSE] ELSE list
    /\ last' = i

ConfirmCommit(c) ==
    /\ actor[c].pc = "confirming"
    /\ Insert(actor[c].import, NoItems)
    /\ Leave(c)
    /\ UNCHANGED <<remote, queue, stranded, faults>>

AbortCommit(c) ==
    /\ list.exists
    /\ actor[c].pc = "aborting"
    /\ imports' = [imports EXCEPT ![actor[c].import].status = "aborted"]
    /\ Leave(c)
    /\ UNCHANGED <<list, items, remote, queue, last, stranded, faults>>

-----------------------------------------------------------------------------
(* trigger_refresh, by a request or by the sweep *)

TriggerCheck(c) ==
    /\ list.exists
    /\ actor[c].pc = "idle"
    /\ list.status \notin {"none", "FETCHING"}
    /\ Goto(c, "checked")
    /\ UNCHANGED <<list, items, imports, remote, queue, last, stranded, faults>>

TriggerEnqueue(a) ==
    /\ actor[a].pc = "checked"
    /\ a \in Callers => Len(queue) < MaxQueue
    /\ queue' = Append(queue, "refresh")
    /\ Goto(a, "enqueued")
    /\ UNCHANGED <<list, items, imports, remote, last, stranded, faults>>

TriggerMark(a) ==
    /\ actor[a].pc = "enqueued"
    /\ list' = IF list.exists THEN [list EXCEPT !.status = "FETCHING"] ELSE list
    /\ stranded' = (stranded \/ actor[a].overtaken)
    /\ Leave(a)
    /\ UNCHANGED <<items, imports, remote, queue, last, faults>>

(* A request dies where it stands, or its commit fails. *)
CallerDies(c) ==
    /\ actor[c].pc # "idle"
    /\ Fault
    /\ Leave(c)
    /\ UNCHANGED <<list, items, imports, remote, queue, last, stranded>>

(* The row goes, and with it (ON DELETE CASCADE) its items and imports. *)
DeleteList ==
    /\ list.exists
    /\ list' = [list EXCEPT !.exists = FALSE, !.status = "none", !.old = FALSE]
    /\ items' = NoItems
    /\ last' = 0
    /\ UNCHANGED <<imports, remote, queue, actor, stranded, faults>>

-----------------------------------------------------------------------------
(* The worker *)

(* is_stale: a failed list is never swept. *)
IsStale == list.status = "CURRENT" /\ list.old

(* Broken variant: the comparison of the ages the wrong way round. *)
SweepTakesFresh == list.exists /\ list.status = "CURRENT" /\ ~list.old

(* enqueue_stale_refreshes: the lists it goes on to trigger. *)
SweepTakesIt == list.exists /\ IsStale

(* The sweep thread wakes up every six hours: by then its last job is done.*)
SweepTick ==
    /\ Len(queue) < MaxQueue /\ ~Contains(queue, "sweep")
    /\ queue' = Append(queue, "sweep")
    /\ UNCHANGED <<list, items, imports, remote, actor, last, stranded, faults>>

(* QUEUE_NAMES: "default" is polled before "refresh", and syncs keep it    *)
(* busy for as long as they come.                                          *)
ServeDefault ==
    /\ actor[Worker].pc = "idle"
    /\ Goto(Worker, "elsewhere")
    /\ UNCHANGED <<list, items, imports, remote, queue, last, stranded, faults>>

DefaultIsEmpty ==
    /\ actor[Worker].pc = "elsewhere"
    /\ Goto(Worker, "idle")
    /\ UNCHANGED <<list, items, imports, remote, queue, last, stranded, faults>>

(* check_stale_lists calls trigger_refresh for a stale list and ends;      *)
(* refresh_list_job skips a list that no longer exists.                    *)
Dequeue ==
    /\ actor[Worker].pc = "idle"
    /\ queue # <<>>
    /\ queue' = Tail(queue)
    /\ \/ Head(queue) = "sweep" /\ SweepTakesIt /\ Goto(Worker, "checked")
       \/ Head(queue) = "sweep" /\ ~SweepTakesIt /\ UNCHANGED actor
       \/ Head(queue) = "refresh" /\ list.exists /\ Goto(Worker, "dequeued")
       \/ Head(queue) = "refresh" /\ ~list.exists /\ UNCHANGED actor
    /\ UNCHANGED <<list, items, imports, remote, last, stranded, faults>>

BeginRefresh ==
    /\ list.exists
    /\ actor[Worker].pc = "dequeued"
    /\ SetStatus("FETCHING")
    /\ Goto(Worker, "fetching")
    /\ UNCHANGED <<items, imports, remote, queue, last, stranded, faults>>

(* History: a refresh has ended, so no trigger can count on its job. *)
Overtaken(a) ==
    IF a = Worker THEN Idle
    ELSE [actor[a] EXCEPT !.overtaken = (actor[a].pc = "enqueued")]

EndRefresh ==
    /\ actor' = [a \in Actors |-> Overtaken(a)]
    /\ stranded' = FALSE
    /\ UNCHANGED <<remote, queue>>

(* The fetch fails: nothing is persisted but the status. *)
FetchFails ==
    /\ list.exists
    /\ actor[Worker].pc = "fetching"
    /\ Fault
    /\ \E st \in Failed : SetStatus(st)
    /\ EndRefresh
    /\ UNCHANGED <<items, imports, last>>

PreviewRemote ==
    /\ actor[Worker].pc = "fetching"
    /\ Persist(remote)
    /\ actor' = [actor EXCEPT ![Worker].pc = "previewed",
                              ![Worker].import = Len(imports) + 1]
    /\ UNCHANGED <<list, items, remote, queue, last, stranded, faults>>

(* Nothing to replace: the preview is aborted in a commit of its own ...   *)
AbortPreview ==
    /\ list.exists
    /\ actor[Worker].pc = "previewed"
    /\ imports[actor[Worker].import].dup
    /\ imports' = [imports EXCEPT ![actor[Worker].import].status = "aborted"]
    /\ Goto(Worker, "unchanged")
    /\ UNCHANGED <<list, items, remote, queue, last, stranded, faults>>

(* ... and the refresh counts as done. *)
PublishUnchanged ==
    /\ list.exists
    /\ actor[Worker].pc = "unchanged"
    /\ list' = [list EXCEPT !.status = "CURRENT", !.old = FALSE]
    /\ EndRefresh
    /\ UNCHANGED <<items, imports, last, faults>>

(* Broken variant: the deletion is committed before the new rows are in. *)
DeleteItemsCommitted ==
    /\ list.exists
    /\ actor[Worker].pc = "previewed"
    /\ ~imports[actor[Worker].import].dup
    /\ items' = NoItems
    /\ Goto(Worker, "deleted")
    /\ UNCHANGED <<list, imports, remote, queue, last, stranded, faults>>

(* The deletion matches the items of this moment; it is not committed yet. *)
DeleteItems ==
    /\ list.exists
    /\ actor[Worker].pc = "previewed"
    /\ ~imports[actor[Worker].import].dup
    /\ actor' = [actor EXCEPT ![Worker].pc = "deleted", ![Worker].seen = items]
    /\ UNCHANGED <<list, items, imports, remote, queue, last, stranded, faults>>

CommitRefresh ==
    /\ actor[Worker].pc = "deleted"
    /\ Insert(actor[Worker].import, actor[Worker].seen)
    /\ EndRefresh
    /\ UNCHANGED faults

(* Broken variant: no catch-all, an unexpected error leaves FETCHING. *)
RefreshCrashes ==
    /\ list.exists
    /\ actor[Worker].pc \in Refreshing \ {"dequeued"}
    /\ Fault
    /\ EndRefresh
    /\ UNCHANGED <<list, items, imports, last>>

(* The catch-all: roll back, publish FAILED. *)
RefreshFails ==
    /\ list.exists
    /\ actor[Worker].pc \in Refreshing \ {"dequeued"}
    /\ Fault
    /\ SetStatus("FAILED")
    /\ EndRefresh
    /\ UNCHANGED <<items, imports, last>>

(* The list went away under the worker or a request: every commit on it    *)
(* fails.                                                                  *)
ListGone(a) ==
    /\ ~list.exists
    /\ actor[a].pc \in Refreshing \cup {"confirming", "aborting"}
    /\ Leave(a)
    /\ UNCHANGED <<list, items, imports, remote, queue, last, stranded, faults>>

(* The worker is killed; its job is lost and its transaction rolls back. *)
Kill ==
    /\ actor[Worker].pc \notin {"idle", "elsewhere"}
    /\ Fault
    /\ actor' = [a \in Actors |-> Overtaken(a)]
    /\ stranded' = TRUE
    /\ UNCHANGED <<list, items, imports, remote, queue, last>>

-----------------------------------------------------------------------------
RemoteChanges ==
    /\ remote' \in Contents \ {remote}
    /\ UNCHANGED <<list, items, imports, queue, actor, last, stranded, faults>>

(* A week goes by. *)
Age ==
    /\ list.exists /\ list.status # "none"
    /\ ~list.old
    /\ list' = [list EXCEPT !.old = TRUE]
    /\ UNCHANGED <<items, imports, remote, queue, actor, last, stranded, faults>>

Request(c) ==
    \/ \E i \in 1..Len(imports) : ReadImport(c, i)
    \/ ConfirmCommit(c) \/ AbortCommit(c) \/ TriggerCheck(c) \/ CallerDies(c)

RefreshStep ==
    \/ Dequeue \/ BeginRefresh \/ PreviewRemote \/ AbortPreview \/ PublishUnchanged
    \/ DeleteItems \/ CommitRefresh
    \/ TriggerEnqueue(Worker) \/ TriggerMark(Worker) \/ ListGone(Worker)

Next ==
    \/ \E content \in Contents \cup Uploads : Preview(content)
    \/ \E c \in Callers :
          Request(c) \/ TriggerEnqueue(c) \/ TriggerMark(c) \/ ListGone(c)
    \/ DeleteList
    \/ SweepTick
    \/ RefreshStep
    \/ ServeDefault \/ DefaultIsEmpty
    \/ FetchFails \/ RefreshFails \/ Kill
    \/ RemoteChanges
    \/ Age

Spec == Init /\ [][Next]_vars

(* The worker goes on with the job it has, the sweep thread keeps waking   *)
(* up, and the "refresh" queue has its turn when "default" is found empty  *)
(* again and again.  That it is found empty is not promised.               *)
FairSpec == Spec /\ WF_vars(RefreshStep) /\ SF_vars(Dequeue) /\ WF_vars(SweepTick)

-----------------------------------------------------------------------------
(* Type invariant. *)
TypeOK ==
    /\ list \in List
    /\ items \in [Slots -> Nat]
    /\ Len(imports) <= MaxImports /\ \A i \in 1..Len(imports) : imports[i] \in Import
    /\ remote \in Contents
    /\ Len(queue) <= MaxQueue + 1 /\ \A i \in 1..Len(queue) : queue[i] \in {"refresh", "sweep"}
    /\ actor \in [Actors -> Actor]
    /\ \A a \in Actors : actor[a].import <= Len(imports)
    /\ last \in 0..Len(imports)
    /\ stranded \in BOOLEAN
    /\ faults \in 0..MaxFaults

(* A list reads FETCHING only while a refresh is queued or running, or     *)
(* when a killed worker or a late trigger left it so.                      *)
FetchingIsOwned ==
    list.status = "FETCHING" =>
        \/ Contains(queue, "refresh")
        \/ actor[Worker].pc \in Refreshing
        \/ stranded

(* What was confirmed last, by the user or by a refresh, is in the list:   *)
(* a refresh that overlaps a confirm never deletes the newer rows.         *)
LastConfirmedIsShown == last # 0 => items[last] > 0

(* Whoever settles an import has read it as previewed before, and requests *)
(* and the worker, whose previews are there for the user too, do so side   *)
(* by side.  Its rows enter at most once for each of them, however many    *)
(* confirms, refreshes and failures follow.                                *)
ImportEntersOnce == \A i \in Slots : items[i] <= Cardinality(Actors)

(* In a refresh nothing the worker does touches the items but the commit   *)
(* that publishes the list as CURRENT with what was fetched: wherever it   *)
(* fails, is killed or finds nothing to replace, the items are all there.  *)
RefreshIsWhole ==
    [][(actor[Worker].pc \in Refreshing /\ actor'[Worker] # actor[Worker]) =>
          \/ UNCHANGED items
          \/ /\ actor'[Worker].pc = "idle"
             /\ list'.status = "CURRENT" /\ items'[actor[Worker].import] > 0]_vars

(* A list from a URL that has grown stale is refreshed by the sweep,       *)
(* unless its refresh fails, it was stranded, or it is deleted, or the     *)
(* queue the worker polls first keeps it from this one for ever.           *)
StaleIsSwept ==
    \/ <>[](actor[Worker].pc = "elsewhere")
    \/ (IsStale /\ Len(imports) < MaxImports) ~>
          (~list.old \/ list.status \in Failed \/ stranded \/ ~list.exists
           \/ Len(imports) = MaxImports)
=============================================================================
