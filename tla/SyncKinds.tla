----------------------------- MODULE SyncKinds -----------------------------
(***************************************************************************)
(* What tells CardForge's six data syncs apart.  All six run the protocol  *)
(* of SyncJob; they differ in the queue they are enqueued on, the sources  *)
(* they fetch, whether every source is committed on its own, whether an    *)
(* answer with nothing in it is a failure, and who triggers them besides   *)
(* an API request.                                                         *)
(***************************************************************************)

Kind == [queue : STRING, sources : SUBSET STRING, perSource : BOOLEAN,
         rejectsEmpty : BOOLEAN, periodic : BOOLEAN, auto : BOOLEAN]

(* One source on the default queue, replaced as a whole, by request only. *)
Plain(source) ==
    [queue |-> "default", sources |-> {source}, perSource |-> FALSE,
     rejectsEmpty |-> FALSE, periodic |-> FALSE, auto |-> FALSE]

(* The card mirror: triggered by API startup and by the periodic thread.   *)
Scryfall == [Plain("all_cards") EXCEPT !.periodic = TRUE, !.auto = TRUE]

(* Prices are fetched on a queue of their own, polled last. *)
Mtgjson == [Plain("prices_today") EXCEPT !.queue = "pricing", !.periodic = TRUE]

(* Popular decks: a commit per source, no catch-all around the run. *)
Decks == [Plain("moxfield") EXCEPT !.sources = {"moxfield", "archidekt"},
                                   !.perSource = TRUE]

Edhrec == [Plain("commander_pages") EXCEPT !.rejectsEmpty = TRUE]

Precon == [Plain("deck_files") EXCEPT !.rejectsEmpty = TRUE]

(* An empty list of popular cubes is a result like any other. *)
Cubes == Plain("top_cubes")

KindOf ==
    [scryfall |-> Scryfall, mtgjson |-> Mtgjson, decks |-> Decks,
     edhrec |-> Edhrec, precon |-> Precon, cubes |-> Cubes]

(* The order in which the one worker polls its queues. *)
WorkerQueues == <<"default", "refresh", "pricing">>
=============================================================================
