-------------------------- MODULE DashboardCache --------------------------
(***************************************************************************)
(* The dashboard summary, kept warm in the API process.  The dashboard     *)
(* page and the Prometheus scrape call get_dashboard_summary_cached from   *)
(* threads of their own: a stale summary is served at once while one       *)
(* background thread computes the next, and only the very first request    *)
(* computes it itself while the others wait on an event.                   *)
(*                                                                         *)
(* A lock guards the module's variables, but it is not held while the      *)
(* summary is computed, nor when the event is set.                         *)
(***************************************************************************)
EXTENDS Naturals, FiniteSets

CONSTANTS
    Callers,     \* request threads
    Background,  \* refresh threads, one of which is started at a time
    Scraper,     \* the request thread of the Prometheus scrape
    MaxData,     \* bound: changes of the database
    None

Threads == Callers \cup Background

ASSUME ThreadsOK == Callers \cap Background = {} /\ Scraper \in Callers
ASSUME DataOK == MaxData \in Nat /\ None \notin 0..MaxData

VARIABLES
    data,        \* what a computation finds in the database: a version
    cached,      \* _cached: the version it shows
    old,         \* _cached_at lies CACHE_TTL_SECONDS back
    refreshing,  \* _refreshing
    event,       \* _first_computed_event is set
    pc,          \* where each thread stands
    summary,     \* what a thread has computed and not yet stored
    failed       \* history: a computation has failed

vars == <<data, cached, old, refreshing, event, pc, summary, failed>>

Versions == 0..MaxData

(* start: has set _refreshing; compute, computed: inside _refresh, before  *)
(* and after the queries; stored, raised: _refresh has let go of the lock  *)
(* and will set the event.                                                 *)
Places == {"idle", "start", "wait", "answer", "compute", "computed", "stored", "raised"}
Busy == {t \in Threads : pc[t] \in {"start", "compute", "computed"}}
Waking == {t \in Threads : pc[t] \in {"stored", "raised"}}

Init ==
    /\ data = 0
    /\ cached = None
    /\ old = FALSE
    /\ refreshing = FALSE
    /\ event = FALSE
    /\ pc = [t \in Threads |-> "idle"]
    /\ summary = [t \in Threads |-> None]
    /\ failed = FALSE

Goto(t, place) == pc' = [pc EXCEPT ![t] = place]

-----------------------------------------------------------------------------
(* get_dashboard_summary_cached *)

IsStale == cached = None \/ old

(* Broken variant: whoever finds the cache stale starts a refresh. *)
MayStartAnyway == IsStale

(* start_refresh_now *)
MayStart == IsStale /\ ~refreshing

Enter(c) ==
    /\ pc[c] = "idle"
    /\ \/ MayStart /\ Goto(c, "start") /\ refreshing' = TRUE
       \/ ~MayStart /\ cached = None /\ Goto(c, "wait") /\ UNCHANGED refreshing
       \/ ~MayStart /\ cached # None /\ Goto(c, "answer") /\ UNCHANGED refreshing
    /\ UNCHANGED <<data, cached, old, event, summary, failed>>

(* The first computation blocks its caller, later ones get a thread. *)
Start(c) ==
    /\ pc[c] = "start"
    /\ \/ cached = None /\ Goto(c, "compute")
       \/ /\ cached # None
          /\ \E b \in Background :
                /\ pc[b] = "idle"
                /\ pc' = [pc EXCEPT ![b] = "compute", ![c] = "answer"]
    /\ UNCHANGED <<data, cached, old, refreshing, event, summary, failed>>

Woken(c) ==
    /\ pc[c] = "wait"
    /\ event
    /\ Goto(c, "answer")
    /\ UNCHANGED <<data, cached, old, refreshing, event, summary, failed>>

(* The summary is returned, or an error if there is none. *)
Answer(c) ==
    /\ pc[c] = "answer"
    /\ Goto(c, "idle")
    /\ UNCHANGED <<data, cached, old, refreshing, event, summary, failed>>

-----------------------------------------------------------------------------
(* _refresh *)

Compute(t) ==
    /\ pc[t] = "compute"
    /\ summary' = [summary EXCEPT ![t] = data]
    /\ Goto(t, "computed")
    /\ UNCHANGED <<data, cached, old, refreshing, event, failed>>

(* Broken variant: the waiters are woken before the result is stored. *)
StoreWoken(t) ==
    /\ pc[t] = "computed"
    /\ ~event
    /\ event' = TRUE
    /\ UNCHANGED <<data, cached, old, refreshing, pc, summary, failed>>

StoreOnly(t) ==
    /\ pc[t] = "computed"
    /\ cached' = summary[t]
    /\ old' = FALSE
    /\ refreshing' = FALSE
    /\ summary' = [summary EXCEPT ![t] = None]
    /\ Goto(t, "stored")
    /\ UNCHANGED <<data, event, failed>>

StoreLate(t) == StoreWoken(t) \/ (event /\ StoreOnly(t))

Store(t) ==
    /\ pc[t] = "computed"
    /\ cached' = summary[t]
    /\ old' = FALSE
    /\ refreshing' = FALSE
    /\ summary' = [summary EXCEPT ![t] = None]
    /\ Goto(t, "stored")
    /\ UNCHANGED <<data, event, failed>>

(* Broken variant: the failure does not reset _refreshing. *)
RaiseRefreshing(t) ==
    /\ pc[t] = "compute"
    /\ failed' = TRUE
    /\ Goto(t, "raised")
    /\ UNCHANGED <<data, cached, old, refreshing, event, summary>>

(* Broken variant: the failure does not set the event. *)
RaiseSilently(t) ==
    /\ pc[t] = "compute"
    /\ refreshing' = FALSE
    /\ failed' = TRUE
    /\ Goto(t, "idle")
    /\ UNCHANGED <<data, cached, old, event, summary>>

(* Broken variant: the exception is logged, and _refresh goes on.          *)
RaiseThrough(t) ==
    /\ pc[t] = "compute"
    /\ failed' = TRUE
    /\ Goto(t, "computed")
    /\ UNCHANGED <<data, cached, old, refreshing, event, summary>>

(* The queries raise: the cache stays what it was. *)
Raise(t) ==
    /\ pc[t] = "compute"
    /\ refreshing' = FALSE
    /\ failed' = TRUE
    /\ Goto(t, "raised")
    /\ UNCHANGED <<data, cached, old, event, summary>>

(* A request that computed goes on to answer, or passes on the exception.  *)
SetEvent(t) ==
    /\ pc[t] \in {"stored", "raised"}
    /\ event' = TRUE
    /\ Goto(t, IF t \in Callers /\ pc[t] = "stored" THEN "answer" ELSE "idle")
    /\ UNCHANGED <<data, cached, old, refreshing, summary, failed>>

-----------------------------------------------------------------------------
DataChanges ==
    /\ data < MaxData
    /\ data' = data + 1
    /\ UNCHANGED <<cached, old, refreshing, event, pc, summary, failed>>

Expire ==
    /\ cached # None
    /\ old' = TRUE
    /\ UNCHANGED <<data, cached, refreshing, event, pc, summary, failed>>

Serve(c) == Start(c) \/ Woken(c) \/ Answer(c)
Refresh(t) == Compute(t) \/ Store(t) \/ Raise(t) \/ SetEvent(t)

Next ==
    \/ \E c \in Callers : Enter(c) \/ Serve(c)
    \/ \E t \in Threads : Refresh(t)
    \/ DataChanges
    \/ Expire

Spec == Init /\ [][Next]_vars

(* Threads run; a computation ends, with a result or an exception; and     *)
(* Prometheus comes back.                                                  *)
FairSpec ==
    /\ Spec
    /\ WF_vars(Enter(Scraper))
    /\ \A c \in Callers : WF_vars(Serve(c))
    /\ \A t \in Threads : WF_vars(Refresh(t))

-----------------------------------------------------------------------------
(* Type invariant. *)
TypeOK ==
    /\ data \in Versions
    /\ cached \in Versions \cup {None}
    /\ old \in BOOLEAN
    /\ refreshing \in BOOLEAN
    /\ event \in BOOLEAN
    /\ pc \in [Threads -> Places]
    /\ summary \in [Threads -> Versions \cup {None}]
    /\ \A t \in Threads : pc[t] = "computed" => summary[t] \in Versions
    /\ failed \in BOOLEAN

(* The expensive queries never run twice at a time, and _refreshing is     *)
(* neither left behind by a refresh that is over nor reset under one.      *)
OneRefresh ==
    /\ \A t, u \in Busy : t = u
    /\ refreshing <=> Busy # {}

(* The race get_dashboard_summary_cached's comment is about: whoever waits *)
(* for the first computation has a thread that will still set the event.   *)
NoLostWakeup ==
    (\E c \in Callers : pc[c] = "wait") => event \/ Busy # {} \/ Waking # {}

(* The waiters are woken to a summary: none is told that it was never      *)
(* computed successfully unless a computation did fail.                    *)
WokenToResult == event /\ cached = None => failed

(* A slow refresh never overwrites the result of a later one, and a failed *)
(* one never empties the cache.                                            *)
NeverOlder ==
    [][cached # None => cached' # None /\ cached <= cached']_vars

(* Every request is answered, failures of the computation included. *)
AllAnswered == \A c \in Callers : pc[c] # "idle" ~> pc[c] = "idle"

(* A stale summary is replaced as long as somebody asks, unless computing  *)
(* it fails - and then the next request tries again.                       *)
StaleIsReplaced == old ~> ~old \/ \E t \in Threads : pc[t] = "raised"
=============================================================================
