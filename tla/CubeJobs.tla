------------------------------ MODULE CubeJobs ------------------------------
(***************************************************************************)
(* The two resumable jobs of the popular cubes.  The full scrape walks     *)
(* CubeCobra's catalogue page by page into the cache and keeps a page      *)
(* cursor; the bulk import walks the cached cubes in the order of their    *)
(* ids, imports those within its filters and keeps an id cursor and        *)
(* counters.  Both publish RUNNING on a row of their own that refuses a    *)
(* second trigger, run in the one worker after the request that enqueued   *)
(* them, may fail, and are lost when the worker is killed.  In between the *)
(* discovery sync replaces the cache, which gives every cube a new id.     *)
(*                                                                         *)
(* How one cube is imported is the subject of CubeImport: here an import   *)
(* ends or raises, and the three counters (imported, skipped, failed) are  *)
(* one.  One request triggers at a time; two at once are the subject of    *)
(* SyncJob.                                                                *)
(***************************************************************************)
EXTENDS Naturals, Sequences, FiniteSets, SequencesExt

CONSTANTS
    N,          \* cubes 1..N of CubeCobra, in the order it lists them
    Pages,      \* its search result: a sequence of sets of cubes
    Catalogues, \* what it may report of every cube, now or later
    Filters,    \* what a user may ask for
    DefaultFilter, \* what its row is seeded with
    MaxId,      \* bound: rows ever inserted into popular_cubes
    MaxQueue,   \* bound: jobs waiting
    MaxFaults   \* bound: failures and kills

Cubes == 1..N
Jobs == {"scrape", "import"}

ASSUME NOK == N \in Nat
ASSUME PagesOK == Pages \in Seq(SUBSET Cubes) /\ UNION {Pages[i] : i \in 1..Len(Pages)} = Cubes
(* The columns the candidate query reads; likes stands for the three counts *)
(* of popularity, followed for an owner with enough followers.             *)
Facts == [cards : Nat, described : BOOLEAN, followed : BOOLEAN, likes : Nat]
ASSUME CataloguesOK == Catalogues \subseteq [Cubes -> Facts] /\ Catalogues # {}
(* cards: the card counts within the bounds *)
ASSUME FiltersOK ==
    Filters \subseteq [cards : SUBSET Nat, described : BOOLEAN, top : Nat, cap : Nat]
ASSUME DefaultFilterOK == DefaultFilter \in Filters
ASSUME BoundsOK == MaxId \in Nat /\ N <= MaxId /\ MaxQueue \in Nat /\ MaxFaults \in Nat

VARIABLES
    row,       \* row[k]: the id of cube k in popular_cubes, 0 when not cached
    fact,      \* the other columns of the row of cube k, when it is cached
    lastId,    \* the sequence of ids
    status,    \* status[j] of cube_full_scrape_state and cube_full_import_state
    pageKey,   \* last_key: pages behind the cursor, 0 for none
    tally,     \* last_cube_id, the sum of the counters and the filters of the import
    queue,     \* RQ
    worker,    \* the job that runs
    api,       \* the trigger request under way
    faults,
    visited,   \* history: ids the import has counted
    unscoped,  \* history: ids a cursor passed under other filters than the present,
               \* or under other data
    dropped,   \* history: cubes the discovery sync left out, not found again since
    orphaned   \* history: jobs that were killed, or ended before their trigger
               \* had published RUNNING

vars == <<row, fact, lastId, status, pageKey, tally, queue, worker, api, faults,
          visited, unscoped, dropped, orphaned>>
history == <<visited, unscoped, dropped, orphaned>>

Cached == {k \in Cubes : row[k] # 0}
Ids == 1..MaxId
Statuses == {"INACTIVE", "RUNNING", "COMPLETED", "FAILED"}
NoJob == [job |-> "none", page |-> 0, todo |-> {}, filter |-> DefaultFilter, busy |-> FALSE]
NoRequest == [job |-> "none", filter |-> DefaultFilter]

Init ==
    /\ row = [k \in Cubes |-> 0] /\ lastId = 0
    /\ fact = CHOOSE report \in Catalogues : TRUE   \* of no row yet
    /\ status = [j \in Jobs |-> "INACTIVE"]
    /\ pageKey = 0
    /\ tally = [cursor |-> 0, counted |-> 0, filter |-> DefaultFilter]
    /\ queue = <<>> /\ worker = NoJob /\ api = NoRequest /\ faults = 0
    /\ visited = {} /\ unscoped = {} /\ dropped = {} /\ orphaned = {}

InFlight(j) == worker.job = j \/ Contains(queue, j)

(* Rows for the cubes of S that have none, in the order they are listed. *)
Inserted(S, from) ==
    [k \in Cubes |-> IF k \in S /\ from[k] = 0
                     THEN lastId + Cardinality({m \in S : m <= k /\ from[m] = 0})
                     ELSE from[k]]

(* The columns when the rows of S are written from a report. *)
Refreshed(S, report) == [k \in Cubes |-> IF k \in S THEN report[k] ELSE fact[k]]

-----------------------------------------------------------------------------
(* The candidates of the import *)

MoreLiked(k) == {m \in Cached : fact[m].likes > fact[k].likes}

(* rank(): ties share a rank *)
Rank(k) == 1 + Cardinality(MoreLiked(k))

Qualifies(k, f) ==
    \/ fact[k].described
    \/ ~f.described /\ (fact[k].followed \/ Rank(k) <= f.top)

Candidates(f) == {k \in Cached : fact[k].cards \in f.cards /\ Qualifies(k, f)}

(* Broken variant: the resumed walk starts at the cursor, not after it. *)
WalkFromCursor(f, after) ==
    {row[k] : k \in Candidates(f)} \cap after..MaxId

(* id > last_cube_id; the walk takes them by their order. *)
Walk(f, after) ==
    {row[k] : k \in Candidates(f)} \cap (after + 1)..MaxId

CapReached == tally.filter.cap # 0 /\ tally.counted >= tally.filter.cap

-----------------------------------------------------------------------------
(* Triggers: check and enqueue, then publish RUNNING and the filters *)

Enqueue(j, f) ==
    /\ api.job = "none" /\ Len(queue) < MaxQueue
    /\ status[j] # "RUNNING"
    /\ queue' = Append(queue, j)
    /\ api' = [job |-> j, filter |-> f]
    /\ UNCHANGED <<row, fact, lastId, status, pageKey, tally, worker, faults, history>>

Publish ==
    /\ api.job # "none"
    /\ status' = [status EXCEPT ![api.job] = "RUNNING"]
    /\ IF api.job = "import" /\ api.filter # tally.filter
       THEN /\ tally' = [tally EXCEPT !.filter = api.filter]
            /\ unscoped' = unscoped \cup 1..tally.cursor
       ELSE UNCHANGED <<tally, unscoped>>
    /\ orphaned' = IF InFlight(api.job) THEN orphaned \ {api.job}
                   ELSE orphaned \cup {api.job}
    /\ api' = NoRequest
    /\ UNCHANGED <<row, fact, lastId, pageKey, queue, worker, faults, visited, dropped>>

(* The request's process dies, or the database refuses its commit. *)
RequestDies ==
    /\ api.job # "none" /\ faults < MaxFaults
    /\ faults' = faults + 1
    /\ api' = NoRequest
    /\ UNCHANGED <<row, fact, lastId, status, pageKey, tally, queue, worker, history>>

-----------------------------------------------------------------------------
(* The worker *)

Start(j, w) ==
    /\ worker.job = "none" /\ queue # <<>> /\ Head(queue) = j
    /\ queue' = Tail(queue)
    /\ worker' = [w EXCEPT !.job = j]
    /\ status' = [status EXCEPT ![j] = "RUNNING"]
    /\ UNCHANGED <<row, fact, lastId, pageKey, tally, api, faults, history>>

End(j, s) ==
    /\ status' = [status EXCEPT ![j] = s]
    /\ worker' = NoJob

StartScrape == Start("scrape", [NoJob EXCEPT !.page = pageKey + 1])

(* CubeCobra's lastKey after a page: none after the last, where a walk     *)
(* ends and from where the next one begins again.                          *)
KeyAfter(page) == IF page < Len(Pages) THEN page ELSE 0

(* Cached cubes whose data a step changes, or that it ranks before one     *)
(* that was more liked.                                                    *)
Reappraised ==
    {k \in Cached : fact'[k] # fact[k] \/ \E m \in MoreLiked(k) : fact'[m].likes <= fact[k].likes}

(* The upsert of a page: cubes that are cached keep their id and take the  *)
(* columns CubeCobra reports now, the others get a row.                    *)
Upsert(page) ==
    /\ row' = Inserted(page, row)
    /\ \E report \in Catalogues : fact' = Refreshed(page, report)
    /\ lastId' = lastId + Cardinality(page \ Cached)
    /\ unscoped' = unscoped \cup ({row[k] : k \in Reappraised} \cap 1..tally.cursor)
    /\ dropped' = dropped \ page

(* Broken variant: the cursor is stored before the page is. *)
CursorFirst ==
    /\ worker.job = "scrape" /\ worker.page <= Len(Pages)
    /\ IF pageKey = KeyAfter(worker.page)
       THEN Upsert(Pages[worker.page]) /\ worker' = [worker EXCEPT !.page = @ + 1]
       ELSE UNCHANGED <<row, fact, lastId, worker, unscoped, dropped>>
    /\ pageKey' = KeyAfter(worker.page)
    /\ UNCHANGED <<status, tally, queue, api, faults, visited, orphaned>>

(* iter_all_cubes yields a page; its rows are upserted and the cursor is   *)
(* stored in the same commit.                                              *)
ScrapePage ==
    /\ worker.job = "scrape" /\ worker.page <= Len(Pages)
    /\ Upsert(Pages[worker.page])
    /\ pageKey' = KeyAfter(worker.page)
    /\ worker' = [worker EXCEPT !.page = @ + 1]
    /\ UNCHANGED <<status, tally, queue, api, faults, visited, orphaned>>

EndScrape ==
    /\ worker.job = "scrape" /\ worker.page > Len(Pages)
    /\ pageKey' = 0
    /\ End("scrape", "COMPLETED")
    /\ UNCHANGED <<row, fact, lastId, tally, queue, api, faults, history>>

StartImport ==
    Start("import", [NoJob EXCEPT !.todo = Walk(tally.filter, tally.cursor),
                                  !.filter = tally.filter])

(* import_popular_cube, with commits of its own.  The walk finds every     *)
(* row: rows only go away in the sync, which runs in this worker too.      *)
ImportCube ==
    /\ worker.job = "import" /\ ~worker.busy
    /\ worker.todo # {} /\ ~CapReached
    /\ worker' = [worker EXCEPT !.busy = TRUE]
    /\ UNCHANGED <<row, fact, lastId, status, pageKey, tally, queue, api, faults, history>>

(* The counters and the cursor, in one commit. *)
CountCube ==
    /\ worker.busy
    /\ tally' = [tally EXCEPT !.counted = @ + 1, !.cursor = Min(worker.todo)]
    /\ visited' = visited \cup {tally'.cursor}
    /\ unscoped' = IF worker.filter = tally.filter THEN unscoped
                   ELSE unscoped \cup 1..tally'.cursor
    /\ worker' = [worker EXCEPT !.todo = @ \ {tally'.cursor}, !.busy = FALSE]
    /\ UNCHANGED <<row, fact, lastId, status, pageKey, queue, api, faults, dropped, orphaned>>

(* Broken variant: the cap stops the imports, but not the job. *)
EndAtLastCube ==
    /\ worker.job = "import" /\ ~worker.busy
    /\ worker.todo = {}
    /\ End("import", "COMPLETED")
    /\ UNCHANGED <<row, fact, lastId, pageKey, tally, queue, api, faults, history>>

EndImport ==
    /\ worker.job = "import" /\ ~worker.busy
    /\ worker.todo = {} \/ CapReached
    /\ End("import", "COMPLETED")
    /\ UNCHANGED <<row, fact, lastId, pageKey, tally, queue, api, faults, history>>

(* Broken variant: an exception leaves the row as it was. *)
FailQuietly ==
    /\ worker.job # "none" /\ faults < MaxFaults
    /\ faults' = faults + 1
    /\ worker' = NoJob
    /\ UNCHANGED <<row, fact, lastId, status, pageKey, tally, queue, api, history>>

(* A page cannot be fetched or stored, or an import raises: roll back and  *)
(* publish FAILED.  The cursor stays for the next trigger.                 *)
JobFails ==
    /\ worker.job # "none" /\ faults < MaxFaults
    /\ faults' = faults + 1
    /\ End(worker.job, "FAILED")
    /\ UNCHANGED <<row, fact, lastId, pageKey, tally, queue, api, history>>

(* The worker is killed, and with it the job. *)
Kill ==
    /\ worker.job # "none" /\ faults < MaxFaults
    /\ faults' = faults + 1
    /\ orphaned' = orphaned \cup {worker.job}
    /\ worker' = NoJob
    /\ UNCHANGED <<row, fact, lastId, status, pageKey, tally, queue, api, visited,
                   unscoped, dropped>>

(* Broken variant: the sync runs beside the jobs. *)
SyncBeside ==
    /\ lastId + N <= MaxId
    /\ \E found \in SUBSET Cubes, report \in Catalogues :
          /\ row' = Inserted(found, [k \in Cubes |-> 0])
          /\ fact' = report
          /\ lastId' = lastId + Cardinality(found)
          /\ dropped' = (dropped \cup Cached) \ found
    /\ UNCHANGED <<status, pageKey, tally, queue, worker, api, faults, visited, unscoped,
                   orphaned>>

(* The discovery sync, in the same worker: every cube found gets a new row, *)
(* the others go.                                                          *)
Sync ==
    /\ worker.job = "none"
    /\ lastId + N <= MaxId   \* bound: leaves the scrape ids for the other cubes
    /\ \E found \in SUBSET Cubes, report \in Catalogues :
          /\ row' = Inserted(found, [k \in Cubes |-> 0])
          /\ fact' = report
          /\ lastId' = lastId + Cardinality(found)
          /\ dropped' = (dropped \cup Cached) \ found
    /\ UNCHANGED <<status, pageKey, tally, queue, worker, api, faults, visited, unscoped,
                   orphaned>>

-----------------------------------------------------------------------------
Trigger ==
    \/ \E f \in Filters : Enqueue("import", f)
    \/ Enqueue("scrape", DefaultFilter)
    \/ Publish

WorkerStep ==
    \/ StartScrape \/ ScrapePage \/ EndScrape
    \/ StartImport \/ ImportCube \/ CountCube \/ EndImport

Next ==
    \/ Trigger \/ RequestDies
    \/ WorkerStep \/ JobFails \/ Kill
    \/ Sync

Spec == Init /\ [][Next]_vars

(* The worker works, and is restarted when it was killed. *)
FairSpec == Spec /\ WF_vars(WorkerStep)

-----------------------------------------------------------------------------
(* Properties *)

(* Every variable has its type, ids are unique and never run out, and the *)
(* import finds the rows of its walk.                                      *)
TypeOK ==
    /\ row \in [Cubes -> 0..lastId] /\ fact \in [Cubes -> Facts] /\ lastId \in 0..MaxId
    /\ \A k, m \in Cached : row[k] = row[m] => k = m
    /\ status \in [Jobs -> Statuses]
    /\ pageKey \in Nat /\ (pageKey < Len(Pages) \/ pageKey = 0)
    /\ tally \in [cursor : 0..lastId, counted : Nat, filter : Filters]
    /\ queue \in Seq(Jobs) /\ Len(queue) <= MaxQueue
    /\ worker \in [job : Jobs \cup {"none"}, page : 0..(Len(Pages) + 1),
                   todo : SUBSET Ids, filter : Filters, busy : BOOLEAN]
    /\ worker.job = "import" => worker.todo \subseteq {row[k] : k \in Cached}
    /\ api \in [job : Jobs \cup {"none"}, filter : Filters]
    /\ faults \in 0..MaxFaults
    /\ visited \subseteq Ids /\ unscoped \subseteq Ids /\ dropped \subseteq Cubes
    /\ orphaned \subseteq Jobs

(* Across failures, kills and new triggers the import counts each cube it  *)
(* passes exactly once, and its cursor never passes a candidate it has not *)
(* counted, unless it passed it under other filters or other data: a       *)
(* scrape rewrites the columns of cached cubes under their old ids, which  *)
(* makes candidates of cubes behind the cursor that nothing comes back to. *)
(* Only a cube whose own columns changed, or that overtook one, is lost    *)
(* so; new rows and a replaced cache never cost a candidate.               *)
EachCandidateOnce ==
    /\ tally.counted = Cardinality(visited)
    /\ \A k \in Candidates(tally.filter) :
          row[k] <= tally.cursor => row[k] \in visited \cup unscoped

(* What the scrape has found is not lost to a failure or a restart: the    *)
(* pages behind its cursor, and all of them once it is COMPLETED, are      *)
(* cached, but for the cubes a discovery sync has removed.                 *)
PagesBehindCursorAreCached ==
    \A i \in 1..Len(Pages) :
        i <= pageKey \/ status["scrape"] = "COMPLETED" => Pages[i] \subseteq Cached \cup dropped

(* A job reads RUNNING without a job in the queue or the worker only when  *)
(* it was killed, or had ended before its trigger wrote RUNNING.           *)
RunningIsOwned ==
    \A j \in Jobs : status[j] = "RUNNING" => InFlight(j) \/ j \in orphaned

(* A job that is RUNNING completes or fails, unless it was orphaned.       *)
RunsEnd == \A j \in Jobs : status[j] = "RUNNING" ~> status[j] # "RUNNING" \/ j \in orphaned

(* run_full_cube_import: a worker restart resumes exactly where it left    *)
(* off, so an import that has begun ends.  Violated: the restart does not  *)
(* run the job, and the RUNNING row refuses every trigger that would.      *)
ResumesAfterRestart == worker.job = "import" ~> status["import"] # "RUNNING"
=============================================================================
