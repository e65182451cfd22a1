---------------------------- MODULE SyncContract ----------------------------
(***************************************************************************)
(* What a data sync promises the rest of CardForge: the published status   *)
(* of each sync (the row the System Status page shows) and the rows of its *)
(* local mirror that every reader sees.  No queue, no worker, no callers:  *)
(* SyncJob is the protocol that is meant to keep this promise.             *)
(*                                                                         *)
(* "No fake success" (docstring of run_bulk_sync): rows are replaced only  *)
(* by a finished fetch, while the sync is published as FETCHING; CURRENT   *)
(* is published only when something was replaced; FAILED leaves the rows   *)
(* of the last good sync alone.                                            *)
(***************************************************************************)
EXTENDS Naturals, FiniteSets

CONSTANTS
    Syncs,        \* the syncs: Scryfall cards, MTGJSON prices, popular decks, ...
    PerSource,    \* those that commit one source at a time (popular decks)
    SourcesOf,    \* the sources each sync fetches, one for all but PerSource
    RejectsEmpty  \* those that treat an empty answer as a failure

VARIABLES
    status,       \* status[s]: the sync's published status
    rows,         \* rows[src]: what the committed mirror holds of a source
    replaced      \* replaced[s]: sources replaced since the sync last started

Status == {"not_started", "fetching", "current", "failed"}

(* "none" before any sync; "empty" after a source answered with nothing;  *)
(* "stale" when the remote has changed since the rows were committed.       *)
Fetched == {"fresh", "empty"}
Rows == Fetched \cup {"stale", "none"}

AllSources == UNION {SourcesOf[s] : s \in Syncs}

contractVars == <<status, rows, replaced>>

Init ==
    /\ status = [s \in Syncs |-> "not_started"]
    /\ rows = [src \in AllSources |-> "none"]
    /\ replaced = [s \in Syncs |-> {}]

(* The sync is published as running; a running one may be started over.   *)
Start(s) ==
    /\ status' = [status EXCEPT ![s] = "fetching"]
    /\ replaced' = [replaced EXCEPT ![s] = {}]
    /\ UNCHANGED rows

(* One source of a PerSource sync is replaced, the sync still running.     *)
ReplaceSource(s, src, data) ==
    /\ s \in PerSource /\ src \in SourcesOf[s]
    /\ status[s] = "fetching"
    /\ rows' = [rows EXCEPT ![src] = data]
    /\ replaced' = [replaced EXCEPT ![s] = @ \cup {src}]
    /\ UNCHANGED status

(* An all-or-nothing sync replaces its rows and publishes CURRENT at once. *)
ReplaceAll(s, data) ==
    /\ s \notin PerSource
    /\ status[s] = "fetching"
    /\ data = "empty" => s \notin RejectsEmpty
    /\ rows' = [src \in AllSources |->
                   IF src \in SourcesOf[s] THEN data ELSE rows[src]]
    /\ status' = [status EXCEPT ![s] = "current"]
    /\ replaced' = [replaced EXCEPT ![s] = {}]

(* A PerSource sync publishes CURRENT when at least one source was replaced. *)
PublishCurrent(s) ==
    /\ s \in PerSource
    /\ status[s] = "fetching"
    /\ replaced[s] # {}
    /\ status' = [status EXCEPT ![s] = "current"]
    /\ replaced' = [replaced EXCEPT ![s] = {}]
    /\ UNCHANGED rows

(* FAILED: nothing was replaced since the sync started. *)
PublishFailed(s) ==
    /\ status[s] = "fetching"
    /\ replaced[s] = {}
    /\ status' = [status EXCEPT ![s] = "failed"]
    /\ UNCHANGED <<rows, replaced>>

(* The run ends without publishing anything: it was killed, or an error    *)
(* went past every handler.                                                *)
Abandon(s) ==
    /\ status[s] = "fetching"
    /\ replaced' = [replaced EXCEPT ![s] = {}]
    /\ UNCHANGED <<status, rows>>

(* The remote publishes something new. *)
RemoteMoves(src) ==
    /\ rows[src] = "fresh"
    /\ rows' = [rows EXCEPT ![src] = "stale"]
    /\ UNCHANGED <<status, replaced>>

Next ==
    \E s \in Syncs :
        \/ Start(s) \/ PublishCurrent(s) \/ PublishFailed(s) \/ Abandon(s)
        \/ \E data \in Fetched : ReplaceAll(s, data)
        \/ \E src \in SourcesOf[s], data \in Fetched : ReplaceSource(s, src, data)
        \/ \E src \in SourcesOf[s] : RemoteMoves(src)

Spec == Init /\ [][Next]_contractVars
=============================================================================
