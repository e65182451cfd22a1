------------------------- MODULE ListRefresh_proofs -------------------------
(***************************************************************************)
(* Proofs about ListRefresh, for any contents, callers and bounds.         *)
(*                                                                         *)
(* What a request or the worker has read is used later: HoldsImport says   *)
(* that the import it holds is there, SeenIsThere that the items a         *)
(* deletion matched still are when it is committed, CallerIsOwned that a   *)
(* trigger about to write FETCHING has a refresh behind it unless one has  *)
(* ended in between.  Room counts the actors that have taken up an import  *)
(* together with the times its rows are in the list.                       *)
(***************************************************************************)
EXTENDS ListRefresh, SequenceTheorems, FiniteSetTheorems, TLAPS

QueueJobs == {"refresh", "sweep"}
Queued == Contains(queue, "refresh")
Running == actor[Worker].pc \in Refreshing

Sequenced == imports \in Seq(Import) /\ queue \in Seq(QueueJobs)

QueueRoom == actor[Worker].pc = "checked" => Len(queue) <= MaxQueue

HoldsImport ==
    /\ \A a \in Actors : actor[a].pc \in {"confirming", "aborting"} => actor[a].import # 0
    /\ actor[Worker].pc \in {"previewed", "unchanged", "deleted"} =>
          /\ actor[Worker].import \in 1..Len(imports)
          /\ FromUrl(actor[Worker].import)

GoneIsBare == ~list.exists => list.status = "none"

SeenIsThere ==
    actor[Worker].pc = "deleted" /\ list.exists =>
        \A j \in Slots : actor[Worker].seen[j] <= items[j]

CallerIsOwned ==
    \A a \in Actors :
        actor[a].pc = "enqueued" /\ ~actor[a].overtaken /\ list.exists
            => Queued \/ Running

IInv ==
    /\ TypeOK /\ Sequenced /\ QueueRoom /\ HoldsImport /\ GoneIsBare
    /\ SeenIsThere /\ CallerIsOwned
    /\ FetchingIsOwned /\ LastConfirmedIsShown

-----------------------------------------------------------------------------
(* A job is on the queue that another is added to or taken from.           *)
LEMMA AppendHas ==
    ASSUME NEW q \in Seq(QueueJobs), NEW j \in QueueJobs
    PROVE  /\ Append(q, j) \in Seq(QueueJobs)
           /\ Len(Append(q, j)) = Len(q) + 1
           /\ Contains(q, "refresh") => Contains(Append(q, j), "refresh")
           /\ Contains(Append(q, "refresh"), "refresh")
<1>1. \A e \in QueueJobs : /\ Append(q, e) \in Seq(QueueJobs)
                           /\ Len(Append(q, e)) = Len(q) + 1 /\ Len(q) \in Nat
                           /\ \A i \in 1..Len(q) : Append(q, e)[i] = q[i]
                           /\ Append(q, e)[Len(q) + 1] = e
  BY AppendProperties, LenProperties
<1>2. "refresh" \in QueueJobs
  BY DEF QueueJobs
<1> QED BY <1>1, <1>2 DEF Contains

LEMMA TailHas ==
    ASSUME NEW q \in Seq(QueueJobs), q # <<>>
    PROVE  /\ Head(q) \in QueueJobs /\ Tail(q) \in Seq(QueueJobs)
           /\ Len(Tail(q)) = Len(q) - 1 /\ Len(q) \in Nat
           /\ Contains(q, "refresh") /\ Head(q) # "refresh" => Contains(Tail(q), "refresh")
<1>1. /\ Head(q) \in QueueJobs /\ Tail(q) \in Seq(QueueJobs)
      /\ Len(Tail(q)) = Len(q) - 1 /\ Len(q) \in Nat /\ Len(q) # 0
      /\ \A i \in 1..Len(Tail(q)) : Tail(q)[i] = q[i + 1]
      /\ Head(q) = q[1]
  BY HeadTailProperties, LenProperties, EmptySeq
<1>2. ASSUME Contains(q, "refresh"), Head(q) # "refresh"
      PROVE  Contains(Tail(q), "refresh")
  <2>1. PICK i \in 1..Len(q) : q[i] = "refresh"
    BY <1>2 DEF Contains
  <2>2. i - 1 \in 1..Len(Tail(q)) /\ Tail(q)[i - 1] = q[i]
    BY <1>1, <1>2, <2>1
  <2> QED BY <2>1, <2>2 DEF Contains
<1> QED BY <1>1, <1>2

LEMMA IdleTyped ==
    /\ Idle \in Actor /\ Idle.pc = "idle" /\ Idle.import = 0
    /\ NoItems \in [Slots -> Nat]
<1>1. 0 \in 0..MaxImports /\ NoItems \in [Slots -> Nat]
  BY BoundsOK DEF NoItems
<1> QED BY <1>1 DEF Idle, Actor, Places

(* What the imports look like to those who hold one of them.               *)
ImportsKept ==
    /\ imports' \in Seq(Import)
    /\ Len(imports') \in Len(imports)..MaxImports
    /\ \A i \in 1..Len(imports) : imports'[i].content = imports[i].content

LEMMA LenIsNat ==
    ASSUME Sequenced
    PROVE  /\ Len(imports) \in Nat /\ Len(queue) \in Nat
           /\ \A i \in 1..Len(imports) : imports[i] \in Import
BY LenProperties, ElementOfSeq DEF Sequenced

(* Persisting a preview, and settling one. *)
LEMMA PersistKeeps ==
    ASSUME IInv, NEW content \in Contents \cup Uploads, Persist(content)
    PROVE  /\ ImportsKept /\ list.exists
           /\ Len(imports') = Len(imports) + 1
           /\ imports'[Len(imports) + 1].content = content
<1>1. [content |-> content, dup |-> Prior(content), status |-> "previewed"] \in Import
  BY DEF Import, Prior
<1>2. Len(imports) \in Nat /\ imports \in Seq(Import)
  BY LenIsNat DEF IInv, Sequenced
<1> QED BY <1>1, <1>2, AppendProperties, BoundsOK DEF Persist, ImportsKept

LEMMA SettleKeeps ==
    ASSUME IInv, NEW i \in 1..Len(imports), NEW st \in {"confirmed", "aborted"},
           imports' = [imports EXCEPT ![i].status = st]
    PROVE  ImportsKept /\ Len(imports') = Len(imports)
<1>1. imports \in Seq(Import) /\ imports[i] \in Import /\ Len(imports) \in Nat
      /\ Len(imports) <= MaxImports
  BY LenIsNat DEF IInv, Sequenced, TypeOK
<1> DEFINE e == [imports[i] EXCEPT !.status = st]
<1>2. e \in Import /\ e.content = imports[i].content
  BY <1>1 DEF Import
<1>3. imports' = [imports EXCEPT ![i] = e]
  OBVIOUS
<1> HIDE DEF e
<1> QED BY <1>1, <1>2, <1>3, ExceptSeq, BoundsOK DEF ImportsKept

LEMMA TypesHold ==
    ASSUME IInv,
           list' \in List, items' \in [Slots -> Nat], remote' \in Contents,
           queue' \in Seq(QueueJobs), Len(queue') <= MaxQueue + 1,
           actor' \in [Actors -> Actor],
           \A a \in Actors : actor'[a].import \in {0, actor[a].import}
                              \/ actor'[a].import \in 1..Len(imports'),
           ImportsKept \/ UNCHANGED imports,
           last' \in {0, last} \/ last' \in 1..Len(imports'),
           stranded' \in BOOLEAN, faults' \in 0..MaxFaults
    PROVE  TypeOK' /\ Sequenced'
<1>1. /\ imports' \in Seq(Import) /\ Len(imports') \in Nat /\ Len(imports') <= MaxImports
      /\ Len(imports) <= Len(imports') /\ Len(imports) \in Nat
  <2>1. Len(imports) \in Nat /\ imports \in Seq(Import) /\ Len(imports) <= MaxImports
    BY LenIsNat DEF IInv, Sequenced, TypeOK
  <2> QED BY <2>1, BoundsOK DEF ImportsKept
<1>2. \A i \in 1..Len(imports') : imports'[i] \in Import
  BY <1>1, ElementOfSeq
<1>3. \A i \in 1..Len(queue') : queue'[i] \in {"refresh", "sweep"}
  BY ElementOfSeq DEF QueueJobs
<1>4. \A a \in Actors : actor'[a].import <= Len(imports')
  <2>1. \A a \in Actors : actor[a].import \in Nat /\ actor[a].import <= Len(imports)
    BY BoundsOK DEF IInv, TypeOK, Actor
  <2> QED BY <1>1, <2>1
<1>5. last' \in 0..Len(imports')
  BY <1>1 DEF IInv, TypeOK
<1> QED BY <1>1, <1>2, <1>3, <1>4, <1>5 DEF TypeOK, Sequenced

(* Only actor a moves, and not to where it needs a job on the queue.       *)
LEMMA OneActorMoves ==
    ASSUME IInv, NEW a \in Actors, NEW f \in Actor,
           actor' = [actor EXCEPT ![a] = f],
           UNCHANGED <<list, items, imports, remote, queue, last, stranded>>,
           faults' \in 0..MaxFaults,
           f.import \in {0, actor[a].import} \/ f.import \in 1..Len(imports),
           f.pc # "enqueued",
           f.pc \in {"confirming", "aborting"} => f.import # 0,
           a = Worker /\ list.exists => (Running => f.pc \in Refreshing),
           a = Worker => /\ f.pc \notin {"checked", "previewed", "unchanged"}
                         /\ f.pc = "deleted" =>
                               /\ f.import \in 1..Len(imports) /\ FromUrl(f.import)
                               /\ f.seen = items
    PROVE  IInv'
<1>1. actor'[a] = f /\ \A b \in Actors \ {a} : actor'[b] = actor[b]
  BY DEF IInv, TypeOK
<1>2. Worker \in Actors
  BY DEF Actors
<1>3. TypeOK' /\ Sequenced'
  <2>1. list' \in List /\ items' \in [Slots -> Nat] /\ remote' \in Contents
        /\ queue' \in Seq(QueueJobs) /\ Len(queue') <= MaxQueue + 1
        /\ last' \in {0, last} /\ stranded' \in BOOLEAN
    BY DEF IInv, TypeOK, Sequenced
  <2>2. actor' \in [Actors -> Actor]
    BY DEF IInv, TypeOK
  <2>3. \A b \in Actors : actor'[b].import \in {0, actor[b].import}
                          \/ actor'[b].import \in 1..Len(imports')
    BY <1>1
  <2> QED BY <2>1, <2>2, <2>3, TypesHold
<1>4. Queued' = Queued
  BY DEF Queued
<1>5. Running /\ list.exists => Running'
  BY <1>1, <1>2 DEF Running
<1>6. QueueRoom' /\ GoneIsBare' /\ LastConfirmedIsShown'
  BY <1>1, <1>2 DEF IInv, QueueRoom, GoneIsBare, LastConfirmedIsShown
<1>7. HoldsImport'
  BY <1>1, <1>2 DEF IInv, HoldsImport, FromUrl
<1>8. SeenIsThere'
  <2>1. CASE a = Worker
    BY <1>1, <2>1 DEF IInv, TypeOK, SeenIsThere
  <2>2. CASE a # Worker
    BY <1>1, <1>2, <2>2 DEF IInv, SeenIsThere
  <2> QED BY <2>1, <2>2
<1>9. CallerIsOwned'
  BY <1>1, <1>4, <1>5 DEF IInv, CallerIsOwned
<1>10. FetchingIsOwned'
  <2>1. list.status = "FETCHING" => list.exists
    BY DEF IInv, GoneIsBare, TypeOK, List
  <2> QED BY <1>4, <1>5, <2>1 DEF IInv, FetchingIsOwned, Queued, Running
<1> QED BY <1>3, <1>6, <1>7, <1>8, <1>9, <1>10 DEF IInv

(* A request leaves or reads, the worker's deletion matches what is there, *)
(* the list is gone, or the worker turns to its other queue and back.      *)
LEMMA MovesInv ==
    ASSUME IInv,
           \/ \E c \in Callers : \/ \E i \in 1..Len(imports) : ReadImport(c, i)
                                 \/ TriggerCheck(c) \/ CallerDies(c)
           \/ \E a \in Actors : ListGone(a)
           \/ DeleteItems \/ ServeDefault \/ DefaultIsEmpty
    PROVE  IInv'
<1>1. faults \in 0..MaxFaults /\ \A a \in Actors : actor[a] \in Actor
  BY DEF IInv, TypeOK
<1>2. Callers \subseteq Actors /\ Worker \in Actors /\ Worker \notin Callers
  BY ActorsOK DEF Actors
<1>3. ASSUME NEW c \in Callers, NEW i \in 1..Len(imports), ReadImport(c, i)
      PROVE  IInv'
  <2> PICK pc \in {"confirming", "aborting"} :
         actor' = [actor EXCEPT ![c] = [Idle EXCEPT !.pc = pc, !.import = i]]
    BY <1>3 DEF ReadImport
  <2> DEFINE f == [Idle EXCEPT !.pc = pc, !.import = i]
  <2>1. i \in 0..MaxImports /\ i # 0
    BY LenIsNat, BoundsOK DEF IInv, TypeOK
  <2>2. f \in Actor /\ f.pc = pc /\ f.import = i
    BY <2>1, IdleTyped DEF Actor, Places
  <2>3. UNCHANGED <<list, items, imports, remote, queue, last, stranded, faults>>
    BY <1>3 DEF ReadImport
  <2> HIDE DEF f
  <2>4. actor' = [actor EXCEPT ![c] = f]
    BY DEF f
  <2> QED BY <1>1, <1>2, <2>1, <2>2, <2>3, <2>4, OneActorMoves
<1>4. ASSUME NEW c \in Callers, TriggerCheck(c)
      PROVE  IInv'
  <2> DEFINE f == [actor[c] EXCEPT !.pc = "checked"]
  <2>1. f \in Actor /\ f.pc = "checked" /\ f.import = actor[c].import
    BY <1>1, <1>2 DEF Actor, Places
  <2>2. actor' = [actor EXCEPT ![c] = f]
        /\ UNCHANGED <<list, items, imports, remote, queue, last, stranded, faults>>
    BY <1>4 DEF TriggerCheck, Goto
  <2> HIDE DEF f
  <2> QED BY <1>1, <1>2, <2>1, <2>2, OneActorMoves
<1>5. ASSUME NEW c \in Callers, CallerDies(c)
      PROVE  IInv'
  <2>1. /\ actor' = [actor EXCEPT ![c] = Idle]
        /\ UNCHANGED <<list, items, imports, remote, queue, last, stranded>>
        /\ faults' \in 0..MaxFaults
    BY <1>1, <1>5, BoundsOK DEF CallerDies, Leave, Fault
  <2> QED BY <1>2, <2>1, IdleTyped, OneActorMoves
<1>6. ASSUME NEW a \in Actors, ListGone(a)
      PROVE  IInv'
  <2>1. /\ actor' = [actor EXCEPT ![a] = Idle] /\ ~list.exists
        /\ UNCHANGED <<list, items, imports, remote, queue, last, stranded, faults>>
    BY <1>6 DEF ListGone, Leave
  <2> QED BY <1>1, <2>1, IdleTyped, OneActorMoves
<1>7. CASE DeleteItems
  <2> DEFINE f == [actor[Worker] EXCEPT !.pc = "deleted", !.seen = items]
  <2>1. f \in Actor /\ f.pc = "deleted" /\ f.import = actor[Worker].import /\ f.seen = items
    BY <1>1, <1>2 DEF Actor, Places, IInv, TypeOK
  <2>2. /\ actor' = [actor EXCEPT ![Worker] = f] /\ actor[Worker].pc = "previewed"
        /\ UNCHANGED <<list, items, imports, remote, queue, last, stranded, faults>>
    BY <1>7 DEF DeleteItems
  <2>3. actor[Worker].import \in 1..Len(imports) /\ FromUrl(actor[Worker].import)
    BY <2>2 DEF IInv, HoldsImport
  <2>4. "deleted" \in Refreshing
    BY DEF Refreshing
  <2> HIDE DEF f
  <2> QED BY <1>1, <1>2, <2>1, <2>2, <2>3, <2>4, OneActorMoves
<1>8. CASE ServeDefault \/ DefaultIsEmpty
  <2>1. PICK pc \in {"elsewhere", "idle"} :
           /\ actor' = [actor EXCEPT ![Worker] = [actor[Worker] EXCEPT !.pc = pc]]
           /\ actor[Worker].pc \in {"idle", "elsewhere"}
           /\ UNCHANGED <<list, items, imports, remote, queue, last, stranded, faults>>
    BY <1>8 DEF ServeDefault, DefaultIsEmpty, Goto
  <2> DEFINE f == [actor[Worker] EXCEPT !.pc = pc]
  <2>2. f \in Actor /\ f.pc = pc /\ f.import = actor[Worker].import
    BY <1>1, <1>2 DEF Actor, Places
  <2>3. ~Running
    BY <2>1 DEF Running, Refreshing
  <2>4. actor' = [actor EXCEPT ![Worker] = f]
    BY <2>1
  <2> HIDE DEF f
  <2> QED BY <1>1, <1>2, <2>1, <2>2, <2>3, <2>4, OneActorMoves
<1> QED BY <1>3, <1>4, <1>5, <1>6, <1>7, <1>8

-----------------------------------------------------------------------------
(* A confirm's commit: the rows it adds are there afterwards, and a list   *)
(* it publishes is CURRENT.                                                *)
LEMMA InsertDoes ==
    ASSUME IInv, NEW i \in 1..Len(imports), NEW gone \in [Slots -> Nat],
           list.exists => \A j \in Slots : gone[j] <= items[j],
           Insert(i, gone)
    PROVE  /\ list.exists /\ list' \in List /\ list'.exists
           /\ list'.status \in {list.status, "CURRENT"}
           /\ FromUrl(i) => list'.status = "CURRENT"
           /\ items' \in [Slots -> Nat] /\ i \in Slots /\ items'[i] > 0
           /\ gone = NoItems => \A j \in Slots : items'[j] >= items[j]
           /\ last' = i
           /\ ImportsKept /\ Len(imports') = Len(imports)
<1>1. /\ list.exists /\ last' = i
      /\ items' = [j \in Slots |-> (items[j] - gone[j]) + (IF j = i THEN 1 ELSE 0)]
      /\ imports' = [imports EXCEPT ![i].status = "confirmed"]
      /\ list' = IF FromUrl(i) THEN [list EXCEPT !.status = "CURRENT", !.old = FALSE]
                              ELSE list
  BY DEF Insert
<1>2. i \in Slots
  BY LenIsNat, BoundsOK DEF IInv, TypeOK, Slots
<1>3. list' \in List /\ list'.exists /\ list'.status \in {list.status, "CURRENT"}
      /\ (FromUrl(i) => list'.status = "CURRENT")
  BY <1>1 DEF IInv, TypeOK, List
<1>4. ASSUME NEW j \in Slots
      PROVE  /\ items'[j] = (items[j] - gone[j]) + (IF j = i THEN 1 ELSE 0)
             /\ items'[j] \in Nat /\ (j = i => items'[j] > 0)
             /\ gone = NoItems => items'[j] >= items[j]
  <2>1. items[j] \in Nat /\ gone[j] \in Nat /\ gone[j] <= items[j]
        /\ (gone = NoItems => gone[j] = 0)
    BY <1>1 DEF IInv, TypeOK, NoItems
  <2>2. items'[j] = (items[j] - gone[j]) + (IF j = i THEN 1 ELSE 0)
    BY <1>1
  <2> QED BY <2>1, <2>2
<1>5. items' \in [Slots -> Nat]
  BY <1>1, <1>4
<1>6. ImportsKept /\ Len(imports') = Len(imports)
  BY <1>1, SettleKeeps
<1> QED BY <1>1, <1>2, <1>3, <1>4, <1>5, <1>6

LEMMA ConfirmCommitInv ==
    ASSUME IInv, NEW c \in Callers, ConfirmCommit(c)
    PROVE  IInv'
<1>1. c \in Actors /\ Worker \in Actors /\ c # Worker
  BY ActorsOK DEF Actors
<1>2. PICK i \in 1..Len(imports) : i = actor[c].import
  BY <1>1, LenIsNat DEF ConfirmCommit, IInv, HoldsImport, TypeOK, Actor
<1>3. NoItems \in [Slots -> Nat] /\ \A j \in Slots : NoItems[j] <= items[j]
  BY IdleTyped DEF NoItems, IInv, TypeOK
<1>4. Insert(i, NoItems) /\ actor' = [actor EXCEPT ![c] = Idle]
      /\ UNCHANGED <<remote, queue, stranded, faults>>
  BY <1>2 DEF ConfirmCommit, Leave
<1>5. /\ list.exists /\ list' \in List /\ list'.exists
      /\ list'.status \in {list.status, "CURRENT"}
      /\ items' \in [Slots -> Nat] /\ items'[i] > 0
      /\ \A j \in Slots : items'[j] >= items[j]
      /\ last' = i /\ ImportsKept /\ Len(imports') = Len(imports)
  BY <1>3, <1>4, InsertDoes
<1>6. actor'[c] = Idle /\ \A b \in Actors \ {c} : actor'[b] = actor[b]
  BY <1>1, <1>4 DEF IInv, TypeOK
<1>7. TypeOK' /\ Sequenced'
  <2>1. actor' \in [Actors -> Actor]
    BY <1>4, IdleTyped DEF IInv, TypeOK
  <2>2. \A b \in Actors : actor'[b].import \in {0, actor[b].import}
    BY <1>6, IdleTyped
  <2>3. remote' \in Contents /\ queue' \in Seq(QueueJobs) /\ Len(queue') <= MaxQueue + 1
        /\ stranded' \in BOOLEAN /\ faults' \in 0..MaxFaults
    BY <1>4 DEF IInv, TypeOK, Sequenced
  <2> QED BY <1>5, <2>1, <2>2, <2>3, TypesHold
<1>8. Queued' = Queued /\ Running' = Running
  BY <1>1, <1>4, <1>6 DEF Queued, Running
<1>9. QueueRoom' /\ GoneIsBare'
  BY <1>1, <1>4, <1>5, <1>6 DEF IInv, QueueRoom, GoneIsBare
<1>10. HoldsImport'
  <2>1. \A b \in Actors : actor'[b].pc \in {"confirming", "aborting"}
                           => actor'[b].import # 0
    BY <1>6, IdleTyped DEF IInv, HoldsImport
  <2>2. actor'[Worker] = actor[Worker]
    BY <1>1, <1>6
  <2> QED BY <1>5, <2>1, <2>2 DEF IInv, HoldsImport, FromUrl, ImportsKept
<1>11. SeenIsThere'
  <2>1. actor'[Worker] = actor[Worker]
    BY <1>1, <1>6
  <2>2. ASSUME actor[Worker].pc = "deleted", NEW j \in Slots
        PROVE  actor[Worker].seen[j] <= items'[j]
    <3>1. actor[Worker].seen[j] <= items[j] /\ items[j] <= items'[j]
      BY <1>5, <2>2 DEF IInv, SeenIsThere
    <3>2. actor[Worker].seen[j] \in Nat /\ items[j] \in Nat /\ items'[j] \in Nat
      BY <1>1, <1>5 DEF IInv, TypeOK, Actor
    <3> QED BY <3>1, <3>2
  <2> QED BY <2>1, <2>2 DEF SeenIsThere
<1>12. CallerIsOwned'
  BY <1>5, <1>6, <1>8, IdleTyped DEF IInv, CallerIsOwned
<1>13. FetchingIsOwned'
  BY <1>4, <1>5, <1>8 DEF IInv, FetchingIsOwned, Queued, Running
<1>14. LastConfirmedIsShown'
  BY <1>5 DEF LastConfirmedIsShown
<1> QED BY <1>7, <1>9, <1>10, <1>11, <1>12, <1>13, <1>14 DEF IInv

-----------------------------------------------------------------------------
(* The end of a refresh: every trigger in between is overtaken, and the    *)
(* status it leaves behind is not FETCHING, or stranded says so.           *)
Ending ==
    /\ actor' = [a \in Actors |-> Overtaken(a)]
    /\ list' \in List /\ (list'.exists <=> list.exists)
    /\ list'.status = "FETCHING" => stranded'
    /\ ~list.exists => list'.status = "none"
    /\ ImportsKept \/ UNCHANGED imports
    /\ items' \in [Slots -> Nat]
    /\ \/ UNCHANGED <<items, last>>
       \/ last' \in 1..Len(imports') /\ items'[last'] > 0
    /\ stranded' \in BOOLEAN /\ faults' \in 0..MaxFaults
    /\ UNCHANGED <<remote, queue>>

LEMMA EndingInv ==
    ASSUME IInv, Ending
    PROVE  IInv'
<1>1. Worker \in Actors
  BY DEF Actors
<1>2. actor'[Worker] = Idle
  BY <1>1 DEF Ending, Overtaken
<1>3. ASSUME NEW a \in Actors
      PROVE  /\ actor'[a] \in Actor
             /\ actor'[a].import \in {0, actor[a].import}
             /\ actor'[a].pc = "enqueued" => actor'[a].overtaken
             /\ \/ actor'[a] = Idle
                \/ actor'[a].pc = actor[a].pc /\ actor'[a].import = actor[a].import
  <2>1. actor[a] \in Actor
    BY DEF IInv, TypeOK
  <2>2. CASE a = Worker
    BY <1>2, <2>2, IdleTyped
  <2>3. CASE a # Worker
    <3>1. actor'[a] = [actor[a] EXCEPT !.overtaken = (actor[a].pc = "enqueued")]
      BY <2>3 DEF Ending, Overtaken
    <3>2. /\ actor'[a].pc = actor[a].pc /\ actor'[a].import = actor[a].import
          /\ actor'[a].overtaken = (actor[a].pc = "enqueued")
      BY <2>1, <3>1 DEF Actor
    <3>3. (actor[a].pc = "enqueued") \in BOOLEAN
      OBVIOUS
    <3>4. actor'[a] \in Actor
      BY <2>1, <3>1, <3>3 DEF Actor
    <3> QED BY <3>2, <3>4
  <2> QED BY <2>2, <2>3
<1>4. TypeOK' /\ Sequenced'
  <2>1. actor' \in [Actors -> Actor]
    BY <1>3 DEF Ending
  <2>2. remote' \in Contents /\ queue' \in Seq(QueueJobs) /\ Len(queue') <= MaxQueue + 1
    BY DEF Ending, IInv, TypeOK, Sequenced
  <2> QED BY <1>3, <2>1, <2>2, TypesHold DEF Ending
<1>5. QueueRoom' /\ SeenIsThere'
  BY <1>2, IdleTyped DEF QueueRoom, SeenIsThere
<1>6. HoldsImport'
  <2>1. \A a \in Actors : actor'[a].pc \in {"confirming", "aborting"}
                           => actor'[a].import # 0
    BY <1>3, IdleTyped DEF IInv, HoldsImport
  <2> QED BY <1>2, <2>1, IdleTyped DEF HoldsImport
<1>7. GoneIsBare' /\ FetchingIsOwned'
  BY DEF Ending, GoneIsBare, FetchingIsOwned
<1>8. CallerIsOwned'
  BY <1>3 DEF CallerIsOwned
<1>9. LastConfirmedIsShown'
  BY DEF Ending, IInv, LastConfirmedIsShown
<1> QED BY <1>4, <1>5, <1>6, <1>7, <1>8, <1>9 DEF IInv

LEMMA EndingsInv ==
    ASSUME IInv, FetchFails \/ PublishUnchanged \/ CommitRefresh \/ RefreshFails \/ Kill
    PROVE  IInv'
<1>1. /\ Worker \in Actors /\ list \in List /\ items \in [Slots -> Nat]
      /\ stranded \in BOOLEAN /\ faults \in 0..MaxFaults
  BY DEF Actors, IInv, TypeOK
<1>2. CASE FetchFails \/ RefreshFails
  <2>1. PICK st \in Failed : list' = [list EXCEPT !.status = st]
    BY <1>2 DEF FetchFails, RefreshFails, SetStatus, Failed
  <2>2. list' \in List /\ list'.exists = list.exists /\ list'.status = st
    BY <1>1, <2>1 DEF List
  <2>3. /\ list.exists /\ faults' \in 0..MaxFaults
        /\ actor' = [a \in Actors |-> Overtaken(a)]
        /\ stranded' = FALSE
        /\ UNCHANGED <<items, imports, last, remote, queue>>
    BY <1>1, <1>2, BoundsOK DEF FetchFails, RefreshFails, EndRefresh, Fault
  <2>4. Ending
    BY <1>1, <2>2, <2>3 DEF Ending, Failed
  <2> QED BY <2>4, EndingInv
<1>3. CASE PublishUnchanged
  <2>1. list' = [list EXCEPT !.status = "CURRENT", !.old = FALSE] /\ list.exists
    BY <1>3 DEF PublishUnchanged
  <2>2. list' \in List /\ list'.exists = list.exists /\ list'.status = "CURRENT"
    BY <1>1, <2>1 DEF List
  <2>3. Ending
    BY <1>1, <1>3, <2>1, <2>2 DEF PublishUnchanged, EndRefresh, Ending
  <2> QED BY <2>3, EndingInv
<1>4. CASE CommitRefresh
  <2>1. actor[Worker] \in Actor /\ actor[Worker].pc = "deleted"
    BY <1>1, <1>4 DEF CommitRefresh, IInv, TypeOK
  <2>2. PICK i \in 1..Len(imports), gone \in [Slots -> Nat] :
           i = actor[Worker].import /\ gone = actor[Worker].seen
    BY <2>1 DEF IInv, HoldsImport, Actor
  <2>3. FromUrl(i) /\ Insert(i, gone)
        /\ (list.exists => \A j \in Slots : gone[j] <= items[j])
    BY <1>4, <2>1, <2>2 DEF CommitRefresh, IInv, HoldsImport, SeenIsThere
  <2>4. /\ list.exists /\ list' \in List /\ list'.exists
        /\ list'.status = "CURRENT"
        /\ items' \in [Slots -> Nat] /\ items'[i] > 0 /\ last' = i
        /\ ImportsKept /\ Len(imports') = Len(imports)
    BY <2>3, InsertDoes
  <2>5. Ending
    BY <1>1, <1>4, <2>4 DEF CommitRefresh, EndRefresh, Ending
  <2> QED BY <2>5, EndingInv
<1>5. CASE Kill
  <2>1. ~list.exists => list.status = "none"
    BY DEF IInv, GoneIsBare
  <2>2. faults' \in 0..MaxFaults
    BY <1>1, <1>5, BoundsOK DEF Kill, Fault
  <2>3. Ending
    BY <1>1, <1>5, <2>1, <2>2 DEF Kill, Ending
  <2> QED BY <2>3, EndingInv
<1> QED BY <1>2, <1>3, <1>4, <1>5

-----------------------------------------------------------------------------
(* Steps that write the imports and may move one actor on.                 *)
LEMMA ImportStepsInv ==
    ASSUME IInv, NEW a \in Actors, NEW f \in Actor,
           actor' = [actor EXCEPT ![a] = f],
           ImportsKept, list.exists,
           UNCHANGED <<list, items, remote, queue, last, stranded, faults>>,
           f.import \in {0, actor[a].import} \/ f.import \in 1..Len(imports'),
           f.pc \in {"confirming", "aborting"} => f.import # 0,
           f.pc = "enqueued" => f = actor[a],
           a = Worker => \/ f = actor[a]
                         \/ /\ f.pc \in {"previewed", "unchanged"}
                            /\ f.import \in 1..Len(imports')
                            /\ imports'[f.import].content \in Contents
    PROVE  IInv'
<1>1. actor'[a] = f /\ \A b \in Actors \ {a} : actor'[b] = actor[b]
  BY DEF IInv, TypeOK
<1>2. Worker \in Actors
  BY DEF Actors
<1>3. TypeOK' /\ Sequenced'
  <2>1. list' \in List /\ items' \in [Slots -> Nat] /\ remote' \in Contents
        /\ queue' \in Seq(QueueJobs) /\ Len(queue') <= MaxQueue + 1
        /\ last' \in {0, last} /\ stranded' \in BOOLEAN /\ faults' \in 0..MaxFaults
    BY DEF IInv, TypeOK, Sequenced
  <2>2. actor' \in [Actors -> Actor]
    BY DEF IInv, TypeOK
  <2>3. \A b \in Actors : actor'[b].import \in {0, actor[b].import}
                          \/ actor'[b].import \in 1..Len(imports')
    BY <1>1
  <2> QED BY <2>1, <2>2, <2>3, TypesHold
<1>4. Queued' = Queued
  BY DEF Queued
<1>5. Running => Running'
  BY <1>1, <1>2 DEF Running, Refreshing
<1>6. QueueRoom' /\ GoneIsBare' /\ LastConfirmedIsShown'
  BY <1>1, <1>2 DEF IInv, QueueRoom, GoneIsBare, LastConfirmedIsShown
<1>7. HoldsImport'
  <2>1. \A b \in Actors : actor'[b].pc \in {"confirming", "aborting"}
                           => actor'[b].import # 0
    BY <1>1 DEF IInv, HoldsImport
  <2>2. ASSUME actor'[Worker] = actor[Worker],
               actor[Worker].pc \in {"previewed", "unchanged", "deleted"}
        PROVE  /\ actor[Worker].import \in 1..Len(imports')
               /\ imports'[actor[Worker].import].content \in Contents
    <3>1. actor[Worker].import \in 1..Len(imports) /\ FromUrl(actor[Worker].import)
      BY <2>2 DEF IInv, HoldsImport
    <3>2. Len(imports') \in Nat /\ Len(imports) \in Nat /\ Len(imports) <= Len(imports')
      BY LenIsNat DEF ImportsKept, IInv
    <3> QED BY <3>1, <3>2 DEF ImportsKept, FromUrl
  <2> QED BY <1>1, <1>2, <2>1, <2>2 DEF HoldsImport, FromUrl
<1>8. SeenIsThere'
  BY <1>1, <1>2 DEF IInv, SeenIsThere
<1>9. CallerIsOwned'
  BY <1>1, <1>4, <1>5 DEF IInv, CallerIsOwned
<1>10. FetchingIsOwned'
  BY <1>4, <1>5 DEF IInv, FetchingIsOwned, Queued, Running
<1> QED BY <1>3, <1>6, <1>7, <1>8, <1>9, <1>10 DEF IInv

LEMMA ImportActionsInv ==
    ASSUME IInv,
           \/ \E content \in Contents \cup Uploads : Preview(content)
           \/ \E c \in Callers : AbortCommit(c)
           \/ PreviewRemote \/ AbortPreview
    PROVE  IInv'
<1>1. /\ Worker \in Actors /\ Callers \subseteq Actors /\ Worker \notin Callers
      /\ actor \in [Actors -> Actor] /\ remote \in Contents
  BY ActorsOK DEF Actors, IInv, TypeOK
<1>2. ASSUME NEW content \in Contents \cup Uploads, Preview(content)
      PROVE  IInv'
  <2>1. /\ ImportsKept /\ list.exists
        /\ UNCHANGED <<list, items, remote, queue, actor, last, stranded, faults>>
    BY <1>2, PersistKeeps DEF Preview
  <2>2. PICK f \in Actor : f = actor[Worker]
    BY <1>1
  <2>3. actor' = [actor EXCEPT ![Worker] = f]
    BY <1>1, <2>1, <2>2
  <2>4. f.pc \notin {"confirming", "aborting"} \/ f.import # 0
    BY <1>1, <2>2 DEF IInv, HoldsImport
  <2> QED BY <1>1, <2>1, <2>2, <2>3, <2>4, ImportStepsInv
<1>3. ASSUME NEW c \in Callers, AbortCommit(c)
      PROVE  IInv'
  <2>1. PICK i \in 1..Len(imports) : i = actor[c].import
    BY <1>1, <1>3, LenIsNat DEF AbortCommit, IInv, HoldsImport, TypeOK, Actor
  <2>2. /\ imports' = [imports EXCEPT ![i].status = "aborted"] /\ list.exists
        /\ actor' = [actor EXCEPT ![c] = Idle]
        /\ UNCHANGED <<list, items, remote, queue, last, stranded, faults>>
    BY <1>3, <2>1 DEF AbortCommit, Leave
  <2>3. ImportsKept
    BY <2>2, SettleKeeps
  <2> QED BY <1>1, <2>2, <2>3, IdleTyped, ImportStepsInv
<1>4. CASE PreviewRemote
  <2>1. Persist(remote) /\ actor[Worker].pc = "fetching"
        /\ UNCHANGED <<list, items, remote, queue, last, stranded, faults>>
    BY <1>4 DEF PreviewRemote
  <2>2. /\ ImportsKept /\ list.exists
        /\ Len(imports') = Len(imports) + 1
        /\ imports'[Len(imports) + 1].content = remote
    BY <1>1, <2>1, PersistKeeps
  <2>3. Len(imports) \in Nat /\ Len(imports) + 1 \in 1..Len(imports')
        /\ Len(imports) + 1 \in 0..MaxImports
    BY <2>1, <2>2, LenIsNat, BoundsOK DEF Persist, IInv
  <2> DEFINE f == [actor[Worker] EXCEPT !.pc = "previewed", !.import = Len(imports) + 1]
  <2>4. f \in Actor /\ f.pc = "previewed" /\ f.import = Len(imports) + 1
    BY <1>1, <2>3 DEF Actor, Places
  <2>5. actor' = [actor EXCEPT ![Worker] = f]
    BY <1>4 DEF PreviewRemote
  <2> HIDE DEF f
  <2> QED BY <1>1, <2>1, <2>2, <2>3, <2>4, <2>5, ImportStepsInv
<1>5. CASE AbortPreview
  <2>1. PICK i \in 1..Len(imports) : i = actor[Worker].import /\ FromUrl(i)
    BY <1>5 DEF AbortPreview, IInv, HoldsImport
  <2>2. /\ imports' = [imports EXCEPT ![i].status = "aborted"] /\ list.exists
        /\ UNCHANGED <<list, items, remote, queue, last, stranded, faults>>
    BY <1>5, <2>1 DEF AbortPreview
  <2>3. ImportsKept /\ Len(imports') = Len(imports)
    BY <2>2, SettleKeeps
  <2> DEFINE f == [actor[Worker] EXCEPT !.pc = "unchanged"]
  <2>4. f \in Actor /\ f.pc = "unchanged" /\ f.import = i
    BY <1>1, <2>1 DEF Actor, Places
  <2>5. actor' = [actor EXCEPT ![Worker] = f]
    BY <1>5 DEF AbortPreview, Goto
  <2>6. i \in 1..Len(imports') /\ imports'[i].content \in Contents
    BY <2>1, <2>3 DEF ImportsKept, FromUrl
  <2> HIDE DEF f
  <2> QED BY <1>1, <2>2, <2>3, <2>4, <2>5, <2>6, ImportStepsInv
<1> QED BY <1>2, <1>3, <1>4, <1>5

-----------------------------------------------------------------------------
(* The trigger: the job first, the status later.                           *)
LEMMA TriggerEnqueueInv ==
    ASSUME IInv, NEW a \in Actors, TriggerEnqueue(a)
    PROVE  IInv'
<1>1. /\ Worker \in Actors /\ actor[a] \in Actor /\ actor \in [Actors -> Actor]
      /\ a \in Callers \/ a = Worker
  BY DEF Actors, IInv, TypeOK
<1> DEFINE f == [actor[a] EXCEPT !.pc = "enqueued"]
<1>2. f \in Actor /\ f.pc = "enqueued" /\ f.import = actor[a].import
  BY <1>1 DEF Actor, Places
<1>3. /\ actor' = [actor EXCEPT ![a] = f] /\ actor[a].pc = "checked"
      /\ queue' = Append(queue, "refresh") /\ queue \in Seq(QueueJobs)
      /\ UNCHANGED <<list, items, imports, remote, last, stranded, faults>>
  BY DEF TriggerEnqueue, Goto, IInv, Sequenced
<1> HIDE DEF f
<1>4. queue' \in Seq(QueueJobs) /\ Len(queue') = Len(queue) + 1 /\ Queued'
  BY <1>3, AppendHas DEF QueueJobs, Queued
<1>5. Len(queue) <= MaxQueue /\ Len(queue) \in Nat
  <2>1. Len(queue) \in Nat
    BY LenIsNat DEF IInv
  <2>2. a \in Callers => Len(queue) < MaxQueue
    BY DEF TriggerEnqueue
  <2> QED BY <1>1, <1>3, <2>1, <2>2, BoundsOK DEF IInv, QueueRoom
<1>6. actor'[a] = f /\ \A b \in Actors \ {a} : actor'[b] = actor[b]
  BY <1>1, <1>3
<1>7. TypeOK' /\ Sequenced'
  <2>1. list' \in List /\ items' \in [Slots -> Nat] /\ remote' \in Contents
        /\ last' \in {0, last} /\ stranded' \in BOOLEAN /\ faults' \in 0..MaxFaults
    BY <1>3 DEF IInv, TypeOK
  <2>2. actor' \in [Actors -> Actor]
    BY <1>1, <1>2, <1>3
  <2>3. Len(queue') <= MaxQueue + 1
    BY <1>4, <1>5, BoundsOK
  <2>4. \A b \in Actors : actor'[b].import \in {0, actor[b].import}
    BY <1>2, <1>6
  <2> QED BY <1>3, <1>4, <2>1, <2>2, <2>3, <2>4, TypesHold
<1>8. QueueRoom' /\ GoneIsBare' /\ LastConfirmedIsShown'
  <2>1. actor'[Worker].pc = "checked" => Len(queue') <= MaxQueue
    <3>1. CASE a = Worker
      BY <1>2, <1>6, <3>1
    <3>2. CASE a # Worker
      <4>1. Len(queue) < MaxQueue
        BY <1>1, <3>2 DEF TriggerEnqueue
      <4> QED BY <1>4, <1>5, <4>1, BoundsOK
    <3> QED BY <3>1, <3>2
  <2> QED BY <1>3, <2>1 DEF IInv, QueueRoom, GoneIsBare, LastConfirmedIsShown
<1>9. HoldsImport' /\ SeenIsThere'
  BY <1>1, <1>2, <1>3, <1>6 DEF IInv, HoldsImport, FromUrl, SeenIsThere
<1>10. CallerIsOwned' /\ FetchingIsOwned'
  BY <1>4 DEF CallerIsOwned, FetchingIsOwned, Queued
<1> QED BY <1>7, <1>8, <1>9, <1>10 DEF IInv

LEMMA TriggerMarkInv ==
    ASSUME IInv, NEW a \in Actors, TriggerMark(a)
    PROVE  IInv'
<1>1. /\ Worker \in Actors /\ actor[a] \in Actor /\ actor \in [Actors -> Actor]
      /\ list \in List /\ actor[a].pc = "enqueued"
  BY DEF Actors, IInv, TypeOK, TriggerMark
<1>2. /\ list' = IF list.exists THEN [list EXCEPT !.status = "FETCHING"] ELSE list
      /\ stranded' = (stranded \/ actor[a].overtaken)
      /\ actor' = [actor EXCEPT ![a] = Idle]
      /\ UNCHANGED <<items, imports, remote, queue, last, faults>>
  BY DEF TriggerMark, Leave
<1>3. actor'[a] = Idle /\ \A b \in Actors \ {a} : actor'[b] = actor[b]
  BY <1>1, <1>2
<1>4. /\ list' \in List /\ list'.exists = list.exists
      /\ IF list.exists THEN list'.status = "FETCHING" ELSE list' = list
  BY <1>1, <1>2 DEF List
<1>5. stranded' \in BOOLEAN
  <2>1. stranded \in BOOLEAN /\ actor[a].overtaken \in BOOLEAN
    BY <1>1 DEF IInv, TypeOK, Actor
  <2> QED BY <1>2, <2>1
<1>6. TypeOK' /\ Sequenced'
  <2>1. items' \in [Slots -> Nat] /\ remote' \in Contents
        /\ queue' \in Seq(QueueJobs) /\ Len(queue') <= MaxQueue + 1
        /\ last' \in {0, last} /\ faults' \in 0..MaxFaults
    BY <1>2 DEF IInv, TypeOK, Sequenced
  <2>2. actor' \in [Actors -> Actor]
    BY <1>1, <1>2, IdleTyped
  <2>3. \A b \in Actors : actor'[b].import \in {0, actor[b].import}
    BY <1>3, IdleTyped
  <2> QED BY <1>2, <1>4, <1>5, <2>1, <2>2, <2>3, TypesHold
<1>7. Queued' = Queued /\ (Running => Running')
  <2>1. a = Worker => ~Running
    BY <1>1 DEF Running, Refreshing
  <2> QED BY <1>1, <1>2, <1>3, <2>1 DEF Queued, Running
<1>8. QueueRoom' /\ GoneIsBare' /\ LastConfirmedIsShown'
  BY <1>1, <1>2, <1>3, <1>4, IdleTyped
     DEF IInv, QueueRoom, GoneIsBare, LastConfirmedIsShown
<1>9. HoldsImport' /\ SeenIsThere'
  BY <1>1, <1>2, <1>3, <1>4, IdleTyped DEF IInv, HoldsImport, FromUrl, SeenIsThere
<1>10. CallerIsOwned'
  BY <1>3, <1>4, <1>7, IdleTyped DEF IInv, CallerIsOwned
<1>11. FetchingIsOwned'
  <2>1. CASE list.exists
    <3>1. CASE actor[a].overtaken
      BY <1>2, <3>1 DEF FetchingIsOwned
    <3>2. CASE ~actor[a].overtaken
      BY <1>1, <1>7, <2>1, <3>2 DEF IInv, CallerIsOwned, FetchingIsOwned, Queued, Running
    <3> QED BY <3>1, <3>2
  <2>2. CASE ~list.exists
    BY <1>4, <2>2 DEF IInv, GoneIsBare, FetchingIsOwned
  <2> QED BY <2>1, <2>2
<1> QED BY <1>6, <1>8, <1>9, <1>10, <1>11 DEF IInv

-----------------------------------------------------------------------------
(* Steps that leave the actors where they are.                             *)
LEMMA NobodyMovesInv ==
    ASSUME IInv, UNCHANGED <<actor, imports, stranded, faults>>,
           list' \in List, list'.exists => list.exists,
           list'.status \in {list.status, "none"}, ~list'.exists => list'.status = "none",
           items' \in [Slots -> Nat], remote' \in Contents,
           \/ UNCHANGED <<items, last>>
           \/ last' = 0 /\ ~list'.exists,
           queue' \in Seq(QueueJobs), Queued => Queued',
           Len(queue') <= MaxQueue \/ queue' = queue
    PROVE  IInv'
<1>1. Worker \in Actors
  BY DEF Actors
<1>2. TypeOK' /\ Sequenced'
  <2>1. actor' \in [Actors -> Actor] /\ stranded' \in BOOLEAN /\ faults' \in 0..MaxFaults
    BY DEF IInv, TypeOK
  <2>2. Len(queue') <= MaxQueue + 1
    <3>1. Len(queue') \in Nat /\ Len(queue) <= MaxQueue + 1
      BY LenProperties DEF IInv, TypeOK
    <3> QED BY <3>1, BoundsOK
  <2> QED BY <2>1, <2>2, TypesHold
<1>3. Running' = Running
  BY DEF Running
<1>4. QueueRoom' /\ HoldsImport' /\ GoneIsBare'
  BY DEF IInv, QueueRoom, HoldsImport, FromUrl, GoneIsBare
<1>5. SeenIsThere' /\ LastConfirmedIsShown'
  BY DEF IInv, SeenIsThere, LastConfirmedIsShown
<1>6. CallerIsOwned' /\ FetchingIsOwned'
  BY <1>3 DEF IInv, CallerIsOwned, FetchingIsOwned, Queued, Running
<1> QED BY <1>2, <1>4, <1>5, <1>6 DEF IInv

LEMMA SurroundingsInv ==
    ASSUME IInv, DeleteList \/ SweepTick \/ RemoteChanges \/ Age
    PROVE  IInv'
<1>1. /\ list \in List /\ items \in [Slots -> Nat] /\ remote \in Contents
      /\ queue \in Seq(QueueJobs) /\ (~list.exists => list.status = "none")
  BY DEF IInv, TypeOK, Sequenced, GoneIsBare
<1>2. CASE DeleteList
  <2>1. /\ list' = [list EXCEPT !.exists = FALSE, !.status = "none", !.old = FALSE]
        /\ list.exists /\ items' = NoItems /\ last' = 0
        /\ UNCHANGED <<imports, remote, queue, actor, stranded, faults>>
    BY <1>2 DEF DeleteList
  <2>2. list' \in List /\ ~list'.exists /\ list'.status = "none"
    BY <1>1, <2>1 DEF List
  <2> QED BY <1>1, <2>1, <2>2, IdleTyped, NobodyMovesInv DEF Queued
<1>3. CASE SweepTick
  <2>1. /\ queue' = Append(queue, "sweep") /\ Len(queue) < MaxQueue
        /\ UNCHANGED <<list, items, imports, remote, actor, last, stranded, faults>>
    BY <1>3 DEF SweepTick
  <2>2. queue' \in Seq(QueueJobs) /\ Len(queue') = Len(queue) + 1 /\ (Queued => Queued')
    BY <1>1, <2>1, AppendHas DEF QueueJobs, Queued
  <2>3. Len(queue') <= MaxQueue
    BY <2>1, <2>2, LenIsNat, BoundsOK DEF IInv
  <2> QED BY <1>1, <2>1, <2>2, <2>3, NobodyMovesInv
<1>4. CASE RemoteChanges
  <2>1. remote' \in Contents
        /\ UNCHANGED <<list, items, imports, queue, actor, last, stranded, faults>>
    BY <1>4 DEF RemoteChanges
  <2> QED BY <1>1, <2>1, NobodyMovesInv DEF Queued
<1>5. CASE Age
  <2>1. /\ list' = [list EXCEPT !.old = TRUE] /\ list.exists
        /\ UNCHANGED <<items, imports, remote, queue, actor, last, stranded, faults>>
    BY <1>5 DEF Age
  <2>2. list' \in List /\ list'.exists /\ list'.status = list.status
    BY <1>1, <2>1 DEF List
  <2> QED BY <1>1, <2>1, <2>2, NobodyMovesInv DEF Queued
<1> QED BY <1>2, <1>3, <1>4, <1>5

(* The worker takes a job, or begins the refresh it has taken.             *)
LEMMA WorkerMovesInv ==
    ASSUME IInv, NEW f \in Actor,
           actor' = [actor EXCEPT ![Worker] = f],
           f.import = actor[Worker].import,
           \/ f.pc \in {"idle", "dequeued", "fetching"}
           \/ f.pc = "checked" /\ list.status = "CURRENT" /\ Len(queue') <= MaxQueue,
           list' \in List, list'.exists = list.exists,
           \/ list'.status = list.status
           \/ list'.status = "FETCHING" /\ list.exists /\ f.pc = "fetching",
           list.exists /\ (Queued \/ Running) => Queued' \/ f.pc \in Refreshing,
           queue' \in Seq(QueueJobs), Len(queue') <= MaxQueue + 1,
           UNCHANGED <<items, imports, remote, last, stranded, faults>>
    PROVE  IInv'
<1>1. Worker \in Actors /\ actor'[Worker] = f
      /\ \A b \in Actors \ {Worker} : actor'[b] = actor[b]
  BY DEF Actors, IInv, TypeOK
<1>2. TypeOK' /\ Sequenced'
  <2>1. /\ actor' \in [Actors -> Actor] /\ items' \in [Slots -> Nat]
        /\ remote' \in Contents /\ last' \in {0, last}
        /\ stranded' \in BOOLEAN /\ faults' \in 0..MaxFaults
    BY DEF IInv, TypeOK
  <2>2. \A b \in Actors : actor'[b].import \in {0, actor[b].import}
    BY <1>1
  <2> QED BY <2>1, <2>2, TypesHold
<1>3. list.exists /\ (Queued \/ Running) => Queued' \/ Running'
  BY <1>1 DEF Running
<1>4. QueueRoom' /\ GoneIsBare' /\ LastConfirmedIsShown'
  BY <1>1 DEF IInv, QueueRoom, GoneIsBare, LastConfirmedIsShown
<1>5. HoldsImport'
  BY <1>1 DEF IInv, HoldsImport, FromUrl
<1>6. SeenIsThere'
  BY <1>1 DEF SeenIsThere
<1>7. CallerIsOwned'
  BY <1>1, <1>3 DEF IInv, CallerIsOwned
<1>8. FetchingIsOwned'
  <2>1. CASE list'.status = "FETCHING" /\ f.pc = "fetching"
    BY <1>1, <2>1 DEF FetchingIsOwned, Refreshing
  <2>2. CASE list'.status = list.status
    <3>1. list.status = "FETCHING" => list.exists
      BY DEF IInv, GoneIsBare, TypeOK, List
    <3> QED BY <1>3, <2>2, <3>1 DEF IInv, FetchingIsOwned, Queued, Running
  <2> QED BY <2>1, <2>2
<1> QED BY <1>2, <1>4, <1>5, <1>6, <1>7, <1>8 DEF IInv

LEMMA TakesInv ==
    ASSUME IInv, Dequeue \/ BeginRefresh
    PROVE  IInv'
<1>1. /\ Worker \in Actors /\ actor \in [Actors -> Actor] /\ list \in List
      /\ queue \in Seq(QueueJobs) /\ Len(queue) <= MaxQueue + 1 /\ Len(queue) \in Nat
  BY LenIsNat DEF Actors, IInv, TypeOK, Sequenced
<1>2. \A pc \in Places : LET f == [actor[Worker] EXCEPT !.pc = pc]
                         IN  /\ f \in Actor /\ f.pc = pc
                             /\ f.import = actor[Worker].import
  BY <1>1 DEF Actor
<1>3. CASE Dequeue
  <2>1. /\ actor[Worker].pc = "idle" /\ queue # <<>> /\ queue' = Tail(queue)
        /\ UNCHANGED <<list, items, imports, remote, last, stranded, faults>>
    BY <1>3 DEF Dequeue
  <2>2. /\ queue' \in Seq(QueueJobs) /\ Len(queue') = Len(queue) - 1
        /\ Head(queue) # "refresh" /\ Queued => Queued'
    BY <1>1, <2>1, TailHas DEF Queued
  <2>3. Len(queue') <= MaxQueue
    BY <1>1, <2>2, BoundsOK
  <2>4. Len(queue') <= MaxQueue + 1
    BY <1>1, <2>2, <2>3, BoundsOK
  <2>5. ~Running /\ "dequeued" \in Refreshing
    BY <2>1 DEF Running, Refreshing
  <2>6. PICK pc \in {"idle", "checked", "dequeued"} :
           /\ actor' = [actor EXCEPT ![Worker] = [actor[Worker] EXCEPT !.pc = pc]]
           /\ pc = "checked" => list.status = "CURRENT"
           /\ list.exists /\ Queued => Queued' \/ pc = "dequeued"
    <3>1. actor = [actor EXCEPT ![Worker] = [actor[Worker] EXCEPT !.pc = "idle"]]
      BY <1>1, <2>1 DEF Actor
    <3>2. CASE Head(queue) = "sweep" /\ SweepTakesIt /\ Goto(Worker, "checked")
      BY <2>2, <3>2 DEF Goto, SweepTakesIt, IsStale
    <3>3. CASE Head(queue) = "sweep" /\ UNCHANGED actor
      BY <2>2, <3>1, <3>3
    <3>4. CASE list.exists /\ Goto(Worker, "dequeued")
      BY <3>4 DEF Goto
    <3>5. CASE ~list.exists /\ UNCHANGED actor
      BY <3>1, <3>5
    <3> QED BY <1>3, <3>2, <3>3, <3>4, <3>5 DEF Dequeue
  <2> DEFINE f == [actor[Worker] EXCEPT !.pc = pc]
  <2>7. f \in Actor /\ f.pc = pc /\ f.import = actor[Worker].import
    BY <1>2 DEF Places
  <2>8. actor' = [actor EXCEPT ![Worker] = f]
    BY <2>6
  <2> HIDE DEF f
  <2>9. list.exists /\ (Queued \/ Running) => Queued' \/ f.pc \in Refreshing
    BY <2>5, <2>6, <2>7
  <2>10. /\ list' \in List /\ list' = list
         /\ \/ f.pc \in {"idle", "dequeued", "fetching"}
            \/ f.pc = "checked" /\ list.status = "CURRENT" /\ Len(queue') <= MaxQueue
    BY <1>1, <2>1, <2>3, <2>6, <2>7
  <2> QED BY <2>1, <2>2, <2>3, <2>4, <2>7, <2>8, <2>9, <2>10, WorkerMovesInv
<1>4. CASE BeginRefresh
  <2>1. /\ list' = [list EXCEPT !.status = "FETCHING"] /\ list.exists
        /\ UNCHANGED <<items, imports, remote, queue, last, stranded, faults>>
    BY <1>4 DEF BeginRefresh, SetStatus
  <2>2. list' \in List /\ list'.exists = list.exists /\ list'.status = "FETCHING"
    BY <1>1, <2>1 DEF List
  <2> DEFINE f == [actor[Worker] EXCEPT !.pc = "fetching"]
  <2>3. f \in Actor /\ f.pc = "fetching" /\ f.import = actor[Worker].import
    BY <1>2 DEF Places
  <2>4. actor' = [actor EXCEPT ![Worker] = f]
    BY <1>4 DEF BeginRefresh, Goto
  <2>5. "fetching" \in Refreshing
    BY DEF Refreshing
  <2> HIDE DEF f
  <2> QED BY <1>1, <2>1, <2>2, <2>3, <2>4, <2>5, WorkerMovesInv
<1> QED BY <1>3, <1>4

-----------------------------------------------------------------------------
LEMMA InitInv == Init => IInv
<1> SUFFICES ASSUME Init PROVE IInv
  OBVIOUS
<1>1. /\ list = [exists |-> TRUE, old |-> FALSE, status |-> "none"]
      /\ items = NoItems /\ imports = <<>> /\ remote \in Contents /\ queue = <<>>
      /\ actor = [a \in Actors |-> Idle] /\ last = 0 /\ stranded = FALSE /\ faults = 0
      /\ Worker \in Actors
  BY DEF Init, Actors
<1>2. Len(imports) = 0 /\ Len(queue) = 0 /\ Sequenced
  BY <1>1 DEF Sequenced
<1>3. \A a \in Actors : actor[a] = Idle
  BY <1>1
<1>4. TypeOK
  <2>1. list \in List
    BY <1>1 DEF List
  <2>2. actor \in [Actors -> Actor]
    BY <1>1, IdleTyped
  <2>3. items \in [Slots -> Nat]
    BY <1>1, IdleTyped
  <2>4. /\ Len(imports) <= MaxImports /\ \A i \in 1..Len(imports) : imports[i] \in Import
        /\ Len(queue) <= MaxQueue + 1
        /\ \A i \in 1..Len(queue) : queue[i] \in {"refresh", "sweep"}
        /\ last \in 0..Len(imports) /\ faults \in 0..MaxFaults
    BY <1>1, <1>2, BoundsOK
  <2>5. \A a \in Actors : actor[a].import <= Len(imports)
    BY <1>2, <1>3, IdleTyped
  <2> QED BY <1>1, <2>1, <2>2, <2>3, <2>4, <2>5 DEF TypeOK
<1>5. list.exists /\ list.status = "none"
  BY <1>1
<1>6. QueueRoom /\ HoldsImport /\ SeenIsThere /\ CallerIsOwned
  BY <1>1, <1>3, IdleTyped DEF QueueRoom, HoldsImport, SeenIsThere, CallerIsOwned
<1>7. GoneIsBare /\ FetchingIsOwned /\ LastConfirmedIsShown
  BY <1>1, <1>5 DEF GoneIsBare, FetchingIsOwned, LastConfirmedIsShown
<1> QED BY <1>2, <1>4, <1>6, <1>7 DEF IInv

LEMMA NextInv == IInv /\ [Next]_vars => IInv'
<1> SUFFICES ASSUME IInv, [Next]_vars PROVE IInv'
  OBVIOUS
<1>1. Callers \subseteq Actors /\ Worker \in Actors
  BY DEF Actors
<1>2. CASE UNCHANGED vars
  <2>1. UNCHANGED <<list, items, imports, remote, queue, actor, last, stranded, faults>>
    BY <1>2 DEF vars
  <2>2. list \in List /\ items \in [Slots -> Nat] /\ remote \in Contents
        /\ queue \in Seq(QueueJobs) /\ (~list.exists => list.status = "none")
    BY DEF IInv, TypeOK, Sequenced, GoneIsBare
  <2> QED BY <2>1, <2>2, NobodyMovesInv DEF Queued
<1>3. CASE \E content \in Contents \cup Uploads : Preview(content)
  BY <1>3, ImportActionsInv
<1>4. ASSUME NEW c \in Callers,
             Request(c) \/ TriggerEnqueue(c) \/ TriggerMark(c) \/ ListGone(c)
      PROVE  IInv'
  BY <1>1, <1>4, MovesInv, ConfirmCommitInv, ImportActionsInv, TriggerEnqueueInv,
     TriggerMarkInv DEF Request
<1>5. CASE DeleteList \/ SweepTick \/ RemoteChanges \/ Age
  BY <1>5, SurroundingsInv
<1>6. CASE RefreshStep
  BY <1>1, <1>6, TakesInv, ImportActionsInv, EndingsInv, MovesInv, TriggerEnqueueInv,
     TriggerMarkInv DEF RefreshStep
<1>7. CASE ServeDefault \/ DefaultIsEmpty \/ FetchFails \/ RefreshFails \/ Kill
  BY <1>7, MovesInv, EndingsInv
<1> QED BY <1>2, <1>3, <1>4, <1>5, <1>6, <1>7 DEF Next

LEMMA Invariant == Spec => []IInv
BY InitInv, NextInv, PTL DEF Spec

-----------------------------------------------------------------------------
(* Every state of the list, its imports, the queue and the actors is one   *)
(* the code knows: no request holds an import that is not there.           *)
THEOREM TypeCorrect == Spec => []TypeOK
<1>1. IInv => TypeOK
  BY DEF IInv
<1> QED BY <1>1, Invariant, PTL

(* A list whose status is FETCHING has a refresh queued or running, unless *)
(* the worker was killed or a trigger wrote the status after the refresh   *)
(* it had enqueued was over.                                               *)
THEOREM FetchingOwned == Spec => []FetchingIsOwned
<1>1. IInv => FetchingIsOwned
  BY DEF IInv
<1> QED BY <1>1, Invariant, PTL

(* Whatever confirms and refreshes overlap, the rows of the import that    *)
(* was confirmed last are in the list.                                     *)
THEOREM LastConfirmedShown == Spec => []LastConfirmedIsShown
<1>1. IInv => LastConfirmedIsShown
  BY DEF IInv
<1> QED BY <1>1, Invariant, PTL

-----------------------------------------------------------------------------
(* Every row that has entered, and every actor that will enter it still,   *)
(* stands for another actor; and while an import is a preview, or not yet  *)
(* made, none has entered.                                                 *)
Entering(i) ==
    {a \in Actors : /\ actor[a].pc \in {"confirming", "previewed", "deleted"}
                    /\ actor[a].import = i}

Unsettled(i) == i \notin 1..Len(imports) \/ imports[i].status = "previewed"

Room(i) ==
    /\ items[i] + Cardinality(Entering(i)) <= Cardinality(Actors)
    /\ Unsettled(i) => items[i] = 0

HaveRoom == \A i \in Slots : Room(i)

LEMMA ActorsCount ==
    /\ IsFiniteSet(Actors) /\ Cardinality(Actors) \in Nat
    /\ \A S \in SUBSET Actors :
          /\ IsFiniteSet(S) /\ Cardinality(S) \in Nat
          /\ Cardinality(S) <= Cardinality(Actors)
          /\ \A T \in SUBSET S : Cardinality(T) <= Cardinality(S)
          /\ \A a \in S : Cardinality(S \ {a}) = Cardinality(S) - 1
<1>1. IsFiniteSet(Actors)
  BY ActorsOK, FS_AddElement DEF Actors
<1>2. \A S \in SUBSET Actors : IsFiniteSet(S) /\ Cardinality(S) \in Nat
                                /\ Cardinality(S) <= Cardinality(Actors)
  BY <1>1, FS_Subset, FS_CardinalityType
<1> QED BY <1>1, <1>2, FS_Subset, FS_CardinalityType, FS_RemoveElement

(* Nobody comes to enter it and no row of it does, nobody can have entered *)
(* it yet, or one of those who were about to has.                          *)
LEMMA RoomKept ==
    ASSUME IInv, NEW i \in Slots, Room(i), items' \in [Slots -> Nat],
           \/ /\ Entering(i)' \subseteq Entering(i) /\ items'[i] <= items[i]
              /\ Unsettled(i)' => Unsettled(i)
           \/ items'[i] = 0
           \/ /\ \E a \in Entering(i) : Entering(i)' \subseteq Entering(i) \ {a}
              /\ items'[i] <= items[i] + 1 /\ ~Unsettled(i)'
    PROVE  Room(i)'
<1>1. items[i] \in Nat /\ items'[i] \in Nat
  BY DEF IInv, TypeOK
<1>2. Entering(i) \in SUBSET Actors /\ Entering(i)' \in SUBSET Actors
  BY DEF Entering, Actors
<1>3. /\ Cardinality(Actors) \in Nat
      /\ Cardinality(Entering(i)) \in Nat /\ Cardinality(Entering(i)') \in Nat
      /\ Cardinality(Entering(i)') <= Cardinality(Actors)
  BY <1>2, ActorsCount
<1>4. items[i] + Cardinality(Entering(i)) <= Cardinality(Actors)
      /\ (Unsettled(i) => items[i] = 0)
  BY DEF Room
<1>5. CASE /\ Entering(i)' \subseteq Entering(i) /\ items'[i] <= items[i]
           /\ Unsettled(i)' => Unsettled(i)
  <2>1. Cardinality(Entering(i)') <= Cardinality(Entering(i))
    BY <1>2, <1>5, ActorsCount
  <2> HIDE DEF Room
  <2>2. items'[i] + Cardinality(Entering(i)') <= Cardinality(Actors)
    BY <1>1, <1>3, <1>4, <1>5, <2>1
  <2>3. Unsettled(i)' => items'[i] = 0
    BY <1>1, <1>4, <1>5
  <2> QED BY <2>2, <2>3, <1>2 DEF Room, Actors
<1>6. CASE items'[i] = 0
  <2>1. items'[i] + Cardinality(Entering(i)') <= Cardinality(Actors)
    BY <1>3, <1>6
  <2> QED BY <1>6, <2>1 DEF Room, Actors
<1>7. ASSUME NEW a \in Entering(i), Entering(i)' \subseteq Entering(i) \ {a},
             items'[i] <= items[i] + 1, ~Unsettled(i)'
      PROVE  Room(i)'
  <2>1. Cardinality(Entering(i) \ {a}) = Cardinality(Entering(i)) - 1
        /\ Entering(i) \ {a} \in SUBSET Actors
    BY <1>2, ActorsCount
  <2>2. Cardinality(Entering(i)') <= Cardinality(Entering(i)) - 1
    BY <1>7, <2>1, ActorsCount
  <2>3. items'[i] + Cardinality(Entering(i)') <= Cardinality(Actors)
    BY <1>1, <1>3, <1>4, <1>7, <2>2
  <2> QED BY <1>7, <2>3 DEF Room, Actors
<1> QED BY <1>5, <1>6, <1>7

(* Nobody comes to enter i. *)
LEMMA NobodyEnters ==
    ASSUME NEW i \in Slots,
           \A a \in Actors :
              actor'[a].pc \in {"confirming", "previewed", "deleted"} /\ actor'[a].import = i
                 => actor[a].pc \in {"confirming", "previewed", "deleted"} /\ actor[a].import = i
    PROVE  Entering(i)' \subseteq Entering(i)
BY DEF Entering, Actors

LEMMA SettledStays ==
    ASSUME IInv, [Next]_vars, NEW i \in Slots, Unsettled(i)'
    PROVE  Unsettled(i)
<1>1. Len(imports) \in Nat /\ imports \in Seq(Import)
  BY LenIsNat DEF IInv, Sequenced
<1>2. ASSUME NEW content \in Contents \cup Uploads, Persist(content)
      PROVE  Unsettled(i)
  <2> DEFINE e == [content |-> content, dup |-> Prior(content), status |-> "previewed"]
  <2>1. e \in Import
    BY DEF Import, Prior
  <2>2. imports' = Append(imports, e)
    BY <1>2 DEF Persist
  <2> HIDE DEF e
  <2>3. Len(imports') = Len(imports) + 1 /\ \A j \in 1..Len(imports) : imports'[j] = imports[j]
    BY <1>1, <2>1, <2>2, AppendProperties
  <2> QED BY <1>1, <2>3 DEF Unsettled
<1>3. ASSUME NEW k \in 1..Len(imports), NEW st \in {"confirmed", "aborted"},
             imports' = [imports EXCEPT ![k].status = st]
      PROVE  Unsettled(i)
  <2>1. Len(imports') = Len(imports)
    BY <1>3, SettleKeeps
  <2>2. imports[k] \in Import
    BY LenIsNat DEF IInv
  <2>3. /\ imports'[k] = [imports[k] EXCEPT !.status = st]
        /\ \A j \in 1..Len(imports) \ {k} : imports'[j] = imports[j]
    BY <1>1, <1>3
  <2>4. imports'[k].status = st
    BY <2>2, <2>3 DEF Import
  <2> QED BY <1>1, <2>1, <2>3, <2>4 DEF Unsettled
<1>4. CASE UNCHANGED imports
  BY <1>4 DEF Unsettled
<1>5. /\ \A c \in Callers : actor[c].pc \in {"confirming", "aborting"}
                               => actor[c].import \in 1..Len(imports)
      /\ actor[Worker].pc \in {"previewed", "unchanged", "deleted"}
            => actor[Worker].import \in 1..Len(imports)
      /\ remote \in Contents
  BY <1>1, BoundsOK DEF IInv, HoldsImport, TypeOK, Actor, Actors
<1>6. CASE \E content \in Contents \cup Uploads : Preview(content)
  BY <1>2, <1>6 DEF Preview
<1>7. CASE PreviewRemote
  BY <1>2, <1>5, <1>7 DEF PreviewRemote
<1>8. CASE AbortPreview \/ CommitRefresh
  <2>1. actor[Worker].import \in 1..Len(imports)
    BY <1>5, <1>8 DEF AbortPreview, CommitRefresh
  <2>2. PICK st \in {"confirmed", "aborted"} :
           imports' = [imports EXCEPT ![actor[Worker].import].status = st]
    BY <1>8 DEF AbortPreview, CommitRefresh, Insert
  <2> QED BY <1>3, <2>1, <2>2
<1>9. ASSUME NEW c \in Callers, AbortCommit(c) \/ ConfirmCommit(c)
      PROVE  Unsettled(i)
  <2>1. actor[c].import \in 1..Len(imports)
    BY <1>5, <1>9 DEF AbortCommit, ConfirmCommit
  <2>2. PICK st \in {"confirmed", "aborted"} :
           imports' = [imports EXCEPT ![actor[c].import].status = st]
    BY <1>9 DEF AbortCommit, ConfirmCommit, Insert
  <2> QED BY <1>3, <2>1, <2>2
<1>10. ASSUME Next, ~(\E content \in Contents \cup Uploads : Preview(content)),
              ~PreviewRemote, ~AbortPreview, ~CommitRefresh,
              ~(\E c \in Callers : AbortCommit(c) \/ ConfirmCommit(c))
       PROVE  UNCHANGED imports
  BY <1>10 DEF Next, Request, RefreshStep, ReadImport, TriggerCheck, TriggerEnqueue,
     TriggerMark, CallerDies, DeleteList, SweepTick, Dequeue, BeginRefresh, FetchFails,
     PublishUnchanged, DeleteItems, RefreshFails, EndRefresh, ListGone, Kill, RemoteChanges,
     Age, ServeDefault, DefaultIsEmpty
<1> QED BY <1>4, <1>6, <1>7, <1>8, <1>9, <1>10 DEF vars

(* An import is taken up to be confirmed: it is a preview until then. *)
LEMMA TakenUpRoom ==
    ASSUME IInv, IInv', HaveRoom, [Next]_vars,
           PreviewRemote \/ \E c \in Callers, k \in 1..Len(imports) : ReadImport(c, k)
    PROVE  HaveRoom'
<1>1. Worker \in Actors /\ Callers \subseteq Actors /\ actor \in [Actors -> Actor]
      /\ items' \in [Slots -> Nat] /\ items \in [Slots -> Nat] /\ UNCHANGED items
  BY DEF Actors, IInv, TypeOK, PreviewRemote, ReadImport
<1>2. PICK a \in Actors, k \in Nat, f \in Actor :
         /\ actor' = [actor EXCEPT ![a] = f] /\ f.import = k
         /\ Unsettled(k)
  <2>1. CASE PreviewRemote
    <3>1. actor' = [actor EXCEPT ![Worker] = [actor[Worker] EXCEPT !.pc = "previewed",
                                                !.import = Len(imports) + 1]]
      BY <2>1 DEF PreviewRemote
    <3>2. Len(imports) \in Nat /\ Len(imports) + 1 \in 0..MaxImports
      BY <2>1, LenIsNat, BoundsOK DEF PreviewRemote, Persist, IInv
    <3>3. PICK n \in Nat : n = Len(imports) + 1
      BY <3>2
    <3> DEFINE f == [actor[Worker] EXCEPT !.pc = "previewed", !.import = n]
    <3>4. f \in Actor /\ f.import = n
      BY <1>1, <3>2, <3>3 DEF Actor, Places
    <3>5. Unsettled(n)
      BY <3>2, <3>3 DEF Unsettled
    <3>6. actor' = [actor EXCEPT ![Worker] = f]
      BY <3>1, <3>3
    <3> HIDE DEF f
    <3> QED BY <1>1, <3>4, <3>5, <3>6
  <2>2. ASSUME NEW c \in Callers, NEW k \in 1..Len(imports), ReadImport(c, k)
        PROVE  \E a \in Actors, n \in Nat, f \in Actor :
                  actor' = [actor EXCEPT ![a] = f] /\ f.import = n /\ Unsettled(n)
    <3>1. PICK pc \in {"confirming", "aborting"} :
             actor' = [actor EXCEPT ![c] = [Idle EXCEPT !.pc = pc, !.import = k]]
      BY <2>2 DEF ReadImport
    <3>2. k \in 0..MaxImports /\ k \in Nat
      BY LenIsNat, BoundsOK DEF IInv, TypeOK
    <3> DEFINE f == [Idle EXCEPT !.pc = pc, !.import = k]
    <3>3. f \in Actor /\ f.import = k
      BY <3>2, IdleTyped DEF Actor, Places
    <3>4. Unsettled(k)
      BY <2>2 DEF ReadImport, Unsettled
    <3> HIDE DEF f
    <3>5. actor' = [actor EXCEPT ![c] = f]
      BY <3>1 DEF f
    <3> QED BY <1>1, <3>2, <3>3, <3>4, <3>5
  <2> QED BY <2>1, <2>2
<1>3. ASSUME NEW i \in Slots
      PROVE  Room(i)'
  <2>1. Room(i) /\ items' \in [Slots -> Nat] /\ items'[i] <= items[i]
        /\ (Unsettled(i)' => Unsettled(i))
    BY <1>1, SettledStays DEF HaveRoom
  <2>2. CASE i = k
    <3>1. items'[i] = 0
      BY <1>1, <1>2, <2>1, <2>2 DEF Room
    <3> QED BY <1>1, <2>1, <3>1, RoomKept
  <2>3. CASE i # k
    <3>1. \A b \in Actors : actor'[b] = actor[b] \/ actor'[b].import = k
      BY <1>1, <1>2
    <3>2. Entering(i)' \subseteq Entering(i)
      BY <2>3, <3>1, NobodyEnters
    <3> QED BY <2>1, <3>2, RoomKept
  <2> QED BY <2>2, <2>3
<1> QED BY <1>3 DEF HaveRoom

(* An actor enters the rows it had taken up. *)
LEMMA EnteredRoom ==
    ASSUME IInv, IInv', HaveRoom, [Next]_vars,
           CommitRefresh \/ \E c \in Callers : ConfirmCommit(c)
    PROVE  HaveRoom'
<1>1. Worker \in Actors /\ Callers \subseteq Actors /\ actor \in [Actors -> Actor]
      /\ items' \in [Slots -> Nat] /\ items \in [Slots -> Nat] /\ Worker \notin Callers
  BY ActorsOK DEF Actors, IInv, TypeOK
<1>2. PICK a \in Actors, k \in 1..Len(imports), gone \in [Slots -> Nat] :
         /\ a \in Entering(k) /\ actor'[a] = Idle
         /\ \A b \in Actors \ {a} : actor'[b].pc = actor[b].pc
                                     /\ actor'[b].import = actor[b].import
         /\ Insert(k, gone) /\ \A j \in Slots : gone[j] <= items[j]
  <2>1. CASE CommitRefresh
    <3>1. actor[Worker] \in Actor /\ actor[Worker].pc = "deleted"
          /\ actor[Worker].import \in 1..Len(imports) /\ actor[Worker].seen \in [Slots -> Nat]
      BY <1>1, <2>1 DEF CommitRefresh, IInv, HoldsImport, Actor
    <3>2. Insert(actor[Worker].import, actor[Worker].seen)
          /\ \A j \in Slots : actor[Worker].seen[j] <= items[j]
      BY <2>1, <3>1 DEF CommitRefresh, Insert, IInv, SeenIsThere
    <3>3. actor' = [b \in Actors |-> Overtaken(b)]
      BY <2>1 DEF CommitRefresh, EndRefresh
    <3>4. ASSUME NEW b \in Actors \ {Worker}
          PROVE  actor'[b].pc = actor[b].pc /\ actor'[b].import = actor[b].import
      <4>1. actor'[b] = [actor[b] EXCEPT !.overtaken = (actor[b].pc = "enqueued")]
            /\ actor[b] \in Actor
        BY <1>1, <3>3 DEF Overtaken
      <4> QED BY <4>1 DEF Actor
    <3>5. Worker \in Entering(actor[Worker].import) /\ actor'[Worker] = Idle
      BY <1>1, <3>1, <3>3 DEF Entering, Overtaken
    <3> QED BY <1>1, <3>1, <3>2, <3>4, <3>5
  <2>2. ASSUME NEW c \in Callers, ConfirmCommit(c)
        PROVE  \E b \in Actors, k \in 1..Len(imports), gone \in [Slots -> Nat] :
                 /\ b \in Entering(k) /\ actor'[b] = Idle
                 /\ \A d \in Actors \ {b} : actor'[d].pc = actor[d].pc
                                             /\ actor'[d].import = actor[d].import
                 /\ Insert(k, gone) /\ \A j \in Slots : gone[j] <= items[j]
    <3>1. actor[c].pc = "confirming" /\ actor[c].import \in 1..Len(imports)
      BY <1>1, <2>2, LenIsNat DEF ConfirmCommit, IInv, HoldsImport, TypeOK, Actor
    <3>2. Insert(actor[c].import, NoItems) /\ actor' = [actor EXCEPT ![c] = Idle]
      BY <2>2 DEF ConfirmCommit, Leave
    <3>3. NoItems \in [Slots -> Nat] /\ \A j \in Slots : NoItems[j] <= items[j]
      BY <1>1, IdleTyped DEF NoItems
    <3>4. c \in Entering(actor[c].import)
      BY <1>1, <3>1 DEF Entering
    <3> QED BY <1>1, <3>1, <3>2, <3>3, <3>4
  <2> QED BY <2>1, <2>2
<1>3. \A j \in Slots : items'[j] = (items[j] - gone[j]) + (IF j = k THEN 1 ELSE 0)
  BY <1>2 DEF Insert
<1>4. ASSUME NEW i \in Slots
      PROVE  Room(i)'
  <2>1. /\ Room(i) /\ items' \in [Slots -> Nat]
        /\ (Unsettled(i)' => Unsettled(i))
        /\ items[i] \in Nat /\ gone[i] \in Nat
    BY <1>1, SettledStays DEF HaveRoom
  <2>2. \A b \in Actors : actor'[b] = Idle
                           \/ (actor'[b].pc = actor[b].pc /\ actor'[b].import = actor[b].import)
    BY <1>2
  <2>3. Entering(i)' \subseteq Entering(i)
    BY <2>2, IdleTyped, NobodyEnters
  <2>4. CASE i # k
    <3>1. items'[i] <= items[i]
      BY <1>3, <2>1, <2>4
    <3> QED BY <2>1, <2>3, <3>1, RoomKept
  <2>5. CASE i = k
    <3>1. items'[i] <= items[i] + 1
      BY <1>3, <2>1, <2>5
    <3>2. a \in Entering(i) /\ Entering(i)' \subseteq Entering(i) \ {a}
      BY <1>2, <2>3, <2>5, IdleTyped DEF Entering
    <3>3. ~Unsettled(i)'
      <4>1. imports' = [imports EXCEPT ![k].status = "confirmed"]
        BY <1>2 DEF Insert
      <4>2. imports \in Seq(Import) /\ imports[k] \in Import /\ Len(imports') = Len(imports)
        BY <4>1, SettleKeeps, LenIsNat DEF IInv, Sequenced
      <4>3. imports'[k].status = "confirmed"
        BY <4>1, <4>2 DEF Import
      <4> QED BY <2>5, <4>2, <4>3 DEF Unsettled
    <3> QED BY <2>1, <3>1, <3>2, <3>3, RoomKept
  <2> QED BY <2>4, <2>5
<1> QED BY <1>4 DEF HaveRoom

LEMMA RoomNext ==
    ASSUME IInv, IInv', HaveRoom, [Next]_vars
    PROVE  HaveRoom'
<1>1. Worker \in Actors /\ Callers \subseteq Actors /\ actor \in [Actors -> Actor]
      /\ items' \in [Slots -> Nat] /\ items \in [Slots -> Nat]
  BY DEF Actors, IInv, TypeOK
<1>2. CASE PreviewRemote \/ \E c \in Callers, k \in 1..Len(imports) : ReadImport(c, k)
  BY <1>2, TakenUpRoom
<1>3. CASE CommitRefresh \/ \E c \in Callers : ConfirmCommit(c)
  BY <1>3, EnteredRoom
<1>4. CASE DeleteList
  <2>1. \A i \in Slots : items'[i] = 0
    BY <1>4 DEF DeleteList, NoItems
  <2> QED BY <1>1, <2>1, RoomKept DEF HaveRoom
<1> DEFINE Still(b) == actor'[b].pc \in {"confirming", "previewed", "deleted"} =>
                          /\ actor[b].pc \in {"confirming", "previewed", "deleted"}
                          /\ actor'[b].import = actor[b].import
<1>5. ASSUME UNCHANGED items, \A b \in Actors : Still(b)
      PROVE  HaveRoom'
  <2>1. ASSUME NEW i \in Slots
        PROVE  Room(i)'
    <3>1. Entering(i)' \subseteq Entering(i)
      BY <1>5, NobodyEnters
    <3>2. Room(i) /\ items'[i] <= items[i] /\ (Unsettled(i)' => Unsettled(i))
      BY <1>1, <1>5, SettledStays DEF HaveRoom
    <3> QED BY <1>1, <3>1, <3>2, RoomKept
  <2> QED BY <2>1 DEF HaveRoom
<1>6. ASSUME UNCHANGED <<items, actor>>
      PROVE  HaveRoom'
  BY <1>5, <1>6
<1>7. ASSUME UNCHANGED items, NEW a \in Actors, NEW pc \in Places, Goto(a, pc),
             pc \notin {"confirming", "previewed"}, pc = "deleted" => actor[a].pc = "previewed"
      PROVE  HaveRoom'
  <2>1. actor'[a] = [actor[a] EXCEPT !.pc = pc] /\ actor[a] \in Actor
        /\ \A b \in Actors \ {a} : actor'[b] = actor[b]
    BY <1>1, <1>7 DEF Goto
  <2>2. actor'[a].pc = pc /\ actor'[a].import = actor[a].import
    BY <2>1 DEF Actor
  <2> QED BY <1>5, <1>7, <2>1, <2>2
<1>8. ASSUME UNCHANGED items, NEW a \in Actors, Leave(a)
      PROVE  HaveRoom'
  <2>1. \A b \in Actors : actor'[b] = Idle \/ actor'[b] = actor[b]
    BY <1>1, <1>8 DEF Leave
  <2> QED BY <1>5, <1>8, <2>1, IdleTyped
<1>9. ASSUME UNCHANGED items, actor' = [b \in Actors |-> Overtaken(b)]
      PROVE  HaveRoom'
  <2>1. ASSUME NEW b \in Actors
        PROVE  Still(b)
    <3>1. CASE b = Worker
      BY <1>9, <3>1, IdleTyped DEF Overtaken
    <3>2. CASE b # Worker
      <4>1. actor'[b] = [actor[b] EXCEPT !.overtaken = (actor[b].pc = "enqueued")]
            /\ actor[b] \in Actor
        BY <1>1, <1>9, <3>2 DEF Overtaken
      <4> QED BY <4>1 DEF Actor
    <3> QED BY <3>1, <3>2
  <2> QED BY <1>5, <1>9, <2>1
<1>10. CASE DeleteItems
  <2>1. actor'[Worker] = [actor[Worker] EXCEPT !.pc = "deleted", !.seen = items]
        /\ actor[Worker] \in Actor /\ actor[Worker].pc = "previewed" /\ UNCHANGED items
        /\ \A b \in Actors \ {Worker} : actor'[b] = actor[b]
    BY <1>1, <1>10 DEF DeleteItems
  <2>2. actor'[Worker].import = actor[Worker].import
    BY <2>1 DEF Actor
  <2> QED BY <1>5, <2>1, <2>2
<1>11. CASE FetchFails \/ PublishUnchanged \/ RefreshFails \/ Kill
  BY <1>9, <1>11 DEF FetchFails, PublishUnchanged, RefreshFails, Kill, EndRefresh
<1>12. CASE \E content \in Contents \cup Uploads : Preview(content)
  BY <1>6, <1>12 DEF Preview
<1>13. CASE SweepTick \/ RemoteChanges \/ Age
  BY <1>6, <1>13 DEF SweepTick, RemoteChanges, Age
<1>14. CASE ServeDefault \/ DefaultIsEmpty \/ BeginRefresh \/ AbortPreview
  BY <1>1, <1>7, <1>14 DEF ServeDefault, DefaultIsEmpty, BeginRefresh, AbortPreview, Places
<1>15. CASE Dequeue
  BY <1>1, <1>6, <1>7, <1>15 DEF Dequeue, Places
<1>16. ASSUME NEW a \in Actors, TriggerEnqueue(a) \/ TriggerMark(a) \/ ListGone(a)
       PROVE  HaveRoom'
  BY <1>7, <1>8, <1>16 DEF TriggerEnqueue, TriggerMark, ListGone, Places
<1>17. ASSUME NEW c \in Callers, AbortCommit(c) \/ TriggerCheck(c) \/ CallerDies(c)
       PROVE  HaveRoom'
  BY <1>1, <1>7, <1>8, <1>17 DEF AbortCommit, TriggerCheck, CallerDies, Places
<1>18. CASE UNCHANGED vars
  BY <1>6, <1>18 DEF vars
<1>19. ASSUME NEW c \in Callers,
              Request(c) \/ TriggerEnqueue(c) \/ TriggerMark(c) \/ ListGone(c)
       PROVE  HaveRoom'
  BY <1>1, <1>2, <1>3, <1>16, <1>17, <1>19 DEF Request
<1>20. CASE RefreshStep
  BY <1>1, <1>2, <1>3, <1>10, <1>11, <1>14, <1>15, <1>16, <1>20 DEF RefreshStep
<1> QED BY <1>4, <1>11, <1>12, <1>13, <1>14, <1>18, <1>19, <1>20 DEF Next

(* Whatever confirms, refreshes and failures come, the rows of an import   *)
(* enter at most once for each actor there is.                             *)
THEOREM ImportsEnterOnce == Spec => []ImportEntersOnce
<1>1. Init => HaveRoom
  <2> SUFFICES ASSUME Init, NEW i \in Slots PROVE Room(i)
    BY DEF HaveRoom
  <2>1. items[i] = 0
    BY DEF Init, NoItems
  <2>2. Entering(i) \in SUBSET Actors
    BY DEF Entering
  <2>3. Cardinality(Entering(i)) \in Nat
        /\ Cardinality(Entering(i)) <= Cardinality(Actors)
    BY <2>2, ActorsCount
  <2> QED BY <2>1, <2>3 DEF Room
<1>2. IInv /\ IInv' /\ HaveRoom /\ [Next]_vars => HaveRoom'
  BY RoomNext
<1>3. IInv /\ HaveRoom => ImportEntersOnce
  <2> SUFFICES ASSUME IInv, HaveRoom, NEW i \in Slots PROVE items[i] <= Cardinality(Actors)
    BY DEF ImportEntersOnce
  <2>1. Entering(i) \in SUBSET Actors
    BY DEF Entering
  <2>2. Cardinality(Entering(i)) \in Nat /\ Cardinality(Actors) \in Nat /\ items[i] \in Nat
    BY <2>1, ActorsCount DEF IInv, TypeOK
  <2>3. items[i] + Cardinality(Entering(i)) <= Cardinality(Actors)
    BY DEF HaveRoom, Room
  <2> QED BY <2>2, <2>3
<1> QED BY <1>1, <1>2, <1>3, Invariant, PTL DEF Spec

-----------------------------------------------------------------------------
(* A step of the worker in a refresh leaves the items as they were, or     *)
(* ends it with CURRENT and the rows it fetched.                           *)
LEMMA StepsWhole ==
    ASSUME IInv, [Next]_vars, actor[Worker].pc \in Refreshing, actor'[Worker] # actor[Worker]
    PROVE  \/ UNCHANGED items
           \/ /\ actor'[Worker].pc = "idle"
              /\ list'.status = "CURRENT" /\ items'[actor[Worker].import] > 0
<1>1. Worker \in Actors /\ Worker \notin Callers /\ actor \in [Actors -> Actor]
  BY ActorsOK DEF Actors, IInv, TypeOK
<1>2. CASE CommitRefresh
  <2>1. actor[Worker] \in Actor /\ actor[Worker].pc = "deleted"
    BY <1>1, <1>2 DEF CommitRefresh
  <2>2. PICK i \in 1..Len(imports), gone \in [Slots -> Nat] :
           i = actor[Worker].import /\ gone = actor[Worker].seen
    BY <2>1 DEF IInv, HoldsImport, Actor
  <2>3. FromUrl(i) /\ Insert(i, gone)
        /\ (list.exists => \A j \in Slots : gone[j] <= items[j])
    BY <1>2, <2>1, <2>2 DEF CommitRefresh, IInv, HoldsImport, SeenIsThere
  <2>4. list'.status = "CURRENT" /\ items'[i] > 0
    BY <2>3, InsertDoes
  <2>5. actor'[Worker].pc = "idle"
    BY <1>1, <1>2, IdleTyped DEF CommitRefresh, EndRefresh, Overtaken
  <2> QED BY <2>2, <2>4, <2>5
<1>3. CASE \E c \in Callers : ConfirmCommit(c)
  <2>1. actor'[Worker] = actor[Worker]
    BY <1>1, <1>3 DEF ConfirmCommit, Leave
  <2> QED BY <2>1
<1>4. CASE DeleteList
  BY <1>4 DEF DeleteList
<1>5. ASSUME Next, ~CommitRefresh, ~(\E c \in Callers : ConfirmCommit(c)), ~DeleteList
      PROVE  UNCHANGED items
  BY <1>5 DEF Next, Request, RefreshStep, Preview, ReadImport, AbortCommit, TriggerCheck,
     TriggerEnqueue, TriggerMark, CallerDies, SweepTick, Dequeue, BeginRefresh,
     FetchFails, PreviewRemote, AbortPreview, PublishUnchanged, DeleteItems,
     RefreshFails, ListGone, Kill, RemoteChanges, Age, ServeDefault, DefaultIsEmpty
<1> QED BY <1>2, <1>3, <1>4, <1>5 DEF vars

(* No step of a refresh but its last touches the items, and that one       *)
(* publishes what was fetched: a failure, however late, costs the list     *)
(* none of them.                                                           *)
THEOREM RefreshWhole == Spec => RefreshIsWhole
<1>1. IInv /\ [Next]_vars =>
         [(actor[Worker].pc \in Refreshing /\ actor'[Worker] # actor[Worker]) =>
             \/ UNCHANGED items
             \/ /\ actor'[Worker].pc = "idle"
                /\ list'.status = "CURRENT" /\ items'[actor[Worker].import] > 0]_vars
  BY StepsWhole
<1> QED BY <1>1, Invariant, PTL DEF Spec, RefreshIsWhole

=============================================================================
