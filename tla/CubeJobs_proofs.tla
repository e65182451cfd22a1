-------------------------- MODULE CubeJobs_proofs --------------------------
(***************************************************************************)
(* Proofs about CubeJobs, for any catalogue, filters and bounds.           *)
(*                                                                         *)
(* The invariant has four parts.  RowsHold: ids are taken in order and     *)
(* suffice.  ScrapeHolds: what a scrape has walked so far is cached.       *)
(* ImportHolds: what is left of an import's walk is the query's result     *)
(* from the cursor on, as it would be asked now.  JobsHold: RUNNING has an *)
(* owner.                                                                  *)
(***************************************************************************)
EXTENDS CubeJobs, FiniteSetTheorems, SequenceTheorems, NaturalsInduction,
        WellFoundedInduction, TLAPS

RowsTyped ==
    /\ row \in [Cubes -> 0..lastId] /\ lastId \in Nat
    /\ fact \in [Cubes -> Facts]
    /\ \A k, m \in Cached : row[k] = row[m] => k = m
    /\ dropped \subseteq Cubes

(* An id is left for every cube without one. *)
IdsSuffice == lastId + Cardinality(Cubes \ Cached) <= MaxId

RowsHold == RowsTyped /\ IdsSuffice

WorkerTyped ==
    /\ worker \in [job : Jobs \cup {"none"}, page : 0..(Len(Pages) + 1),
                   todo : SUBSET Ids, filter : Filters, busy : BOOLEAN]
    /\ worker.busy => worker.job = "import" /\ worker.todo # {}

Walked(n) == \A i \in 1..Len(Pages) : i <= n => Pages[i] \subseteq Cached \cup dropped

ScrapeHolds ==
    /\ pageKey \in Nat /\ (pageKey < Len(Pages) \/ pageKey = 0)
    /\ Walked(pageKey)
    /\ status["scrape"] = "COMPLETED" => Walked(Len(Pages))
    /\ worker.job = "scrape" => worker.page > 0 /\ Walked(worker.page - 1)

WalkIsCurrent ==
    worker.job = "import" => worker.todo = Walk(worker.filter, tally.cursor)

ImportTyped ==
    /\ tally \in [cursor : 0..lastId, counted : Nat, filter : Filters]
    /\ visited \subseteq 1..tally.cursor /\ unscoped \subseteq Ids

ImportHolds == ImportTyped /\ WalkIsCurrent /\ EachCandidateOnce

JobsTyped ==
    /\ status \in [Jobs -> Statuses]
    /\ queue \in Seq(Jobs) /\ Len(queue) <= MaxQueue
    /\ api \in [job : Jobs \cup {"none"}, filter : Filters]
    /\ faults \in 0..MaxFaults
    /\ orphaned \subseteq Jobs

IInv ==
    /\ RowsHold /\ WorkerTyped /\ ScrapeHolds /\ ImportHolds
    /\ JobsTyped /\ RunningIsOwned

-----------------------------------------------------------------------------
(* Finite sets of cubes and ids. *)
LEMMA CubesFinite ==
    ASSUME NEW S \in SUBSET Cubes
    PROVE  IsFiniteSet(S) /\ Cardinality(S) \in Nat
           /\ IsFiniteSet(Cubes) /\ Cardinality(Cubes) = N
<1>1. IsFiniteSet(1..N) /\ Cardinality(1..N) = N
  <2>1. N \in Int /\ 1 \in Int /\ N \in Nat
    BY NOK
  <2> QED BY <2>1, FS_Interval
<1>2. IsFiniteSet(S)
  BY <1>1, FS_Subset DEF Cubes
<1> QED BY <1>1, <1>2, FS_CardinalityType DEF Cubes

(* More cubes that are cached never lower a rank. *)
LEMMA SmallerCounts ==
    ASSUME NEW S \in SUBSET Cubes, NEW T \in SUBSET S
    PROVE  /\ Cardinality(T) \in Nat /\ Cardinality(S) \in Nat
           /\ Cardinality(T) <= Cardinality(S)
           /\ Cardinality(T) = Cardinality(S) => T = S
BY CubesFinite, FS_Subset

(* Some ids have a least one. *)
LEMMA MinIsFirst ==
    ASSUME NEW S \in SUBSET Nat, S # {}
    PROVE  Min(S) \in S /\ \A y \in S : Min(S) <= y
<1> DEFINE R == OpToRel(<, Nat)
<1>1. \E m \in S : \A y \in S : ~(<<y, m>> \in R)
  <2>1. IsWellFoundedOn(R, Nat)
    BY NatLessThanWellFounded
  <2> HIDE DEF R
  <2> QED BY <2>1, WFMin
<1>2. PICK m \in S : \A y \in S : ~(<<y, m>> \in R)
  BY <1>1
<1>3. \A y \in S : m <= y
  <2> SUFFICES ASSUME NEW y \in S PROVE m <= y
    OBVIOUS
  <2>1. ~(y < m)
    BY <1>2 DEF OpToRel
  <2> QED BY <2>1
<1> QED BY <1>3 DEF Min

(* A job added to the queue is on it; one that is not taken stays on it.   *)
LEMMA AppendHas ==
    ASSUME NEW q \in Seq(Jobs), NEW j \in Jobs
    PROVE  /\ Append(q, j) \in Seq(Jobs) /\ Len(Append(q, j)) = Len(q) + 1
           /\ Len(q) \in Nat
           /\ \A i \in Jobs : Contains(q, i) => Contains(Append(q, j), i)
           /\ Contains(Append(q, j), j)
<1>1. /\ Append(q, j) \in Seq(Jobs)
      /\ Len(Append(q, j)) = Len(q) + 1 /\ Len(q) \in Nat
      /\ \A i \in 1..Len(q) : Append(q, j)[i] = q[i]
      /\ Append(q, j)[Len(q) + 1] = j
  BY AppendProperties, LenProperties
<1> QED BY <1>1 DEF Contains

LEMMA TailHas ==
    ASSUME NEW q \in Seq(Jobs), q # <<>>
    PROVE  /\ Head(q) \in Jobs /\ Tail(q) \in Seq(Jobs)
           /\ Len(Tail(q)) = Len(q) - 1 /\ Len(q) \in Nat
           /\ \A e \in Jobs : Contains(q, e) /\ Head(q) # e => Contains(Tail(q), e)
<1>1. /\ Head(q) \in Jobs /\ Tail(q) \in Seq(Jobs)
      /\ Len(Tail(q)) = Len(q) - 1 /\ Len(q) \in Nat /\ Len(q) # 0
      /\ \A i \in 1..Len(Tail(q)) : Tail(q)[i] = q[i + 1]
      /\ Head(q) = q[1]
  BY HeadTailProperties, LenProperties, EmptySeq
<1>2. ASSUME NEW e \in Jobs, Contains(q, e), Head(q) # e
      PROVE  Contains(Tail(q), e)
  <2>1. PICK i \in 1..Len(q) : q[i] = e
    BY <1>2 DEF Contains
  <2>2. i - 1 \in 1..Len(Tail(q)) /\ Tail(q)[i - 1] = q[i]
    BY <1>1, <1>2, <2>1
  <2> QED BY <2>1, <2>2 DEF Contains
<1> QED BY <1>1, <1>2

-----------------------------------------------------------------------------
(* Rows inserted take the next ids, one each; those there keep theirs.     *)
LEMMA InsertedRows ==
    ASSUME NEW S \in SUBSET Cubes, NEW from \in [Cubes -> 0..lastId], lastId \in Nat,
           \A k, m \in Cubes : from[k] # 0 /\ from[k] = from[m] => k = m,
           NEW r, r = Inserted(S, from),
           NEW n, n = Cardinality({m \in S : from[m] = 0})
    PROVE  /\ n \in Nat /\ r \in [Cubes -> 0..(lastId + n)]
           /\ \A k, m \in Cubes : r[k] # 0 /\ r[k] = r[m] => k = m
           /\ \A k \in Cubes : /\ from[k] # 0 => r[k] = from[k]
                               /\ from[k] = 0 => (r[k] # 0 <=> k \in S)
                               /\ from[k] = 0 /\ k \in S => r[k] > lastId
<1> DEFINE New == {m \in S : from[m] = 0}
           Upto(k) == {m \in S : m <= k /\ from[m] = 0}
<1>1. New \in SUBSET Cubes /\ n \in Nat
  BY CubesFinite
<1>2. ASSUME NEW k \in New
      PROVE  /\ Cardinality(Upto(k)) \in 1..n
             /\ r[k] = lastId + Cardinality(Upto(k))
  <2>1. Upto(k) \in SUBSET New /\ k \in Upto(k)
    BY NOK DEF Cubes
  <2>2. Cardinality(Upto(k)) \in Nat /\ Cardinality(Upto(k)) <= n
    BY <1>1, <2>1, SmallerCounts
  <2>3. Cardinality(Upto(k)) # 0
    BY <1>1, <2>1, CubesFinite, FS_EmptySet
  <2>4. r[k] = lastId + Cardinality(Upto(k))
    BY DEF Inserted
  <2> HIDE DEF Upto
  <2> QED BY <1>1, <2>2, <2>3, <2>4
<1>3. \A k \in Cubes : k \notin New => r[k] = from[k]
  BY DEF Inserted
<1>4. ASSUME NEW k \in New, NEW m \in New, k < m
      PROVE  Cardinality(Upto(k)) < Cardinality(Upto(m))
  <2>1. Upto(k) \in SUBSET Upto(m) /\ Upto(m) \in SUBSET Cubes
        /\ m \in Upto(m) /\ m \notin Upto(k)
    <3>1. k \in Nat /\ m \in Nat /\ m <= m /\ ~(m <= k)
      BY <1>4, NOK DEF Cubes
    <3>2. \A x \in S : x <= k => x <= m
      BY <1>4, <3>1, NOK DEF Cubes
    <3> QED BY <3>1, <3>2
  <2>2. Upto(k) # Upto(m)
    BY <2>1
  <2>3. /\ Cardinality(Upto(k)) \in Nat /\ Cardinality(Upto(m)) \in Nat
        /\ Cardinality(Upto(k)) <= Cardinality(Upto(m))
        /\ Cardinality(Upto(k)) # Cardinality(Upto(m))
    BY <2>1, <2>2, SmallerCounts
  <2> HIDE DEF Upto
  <2> QED BY <2>3
<1>5. \A k \in Cubes : k \in New <=> k \in S /\ from[k] = 0
  OBVIOUS
<1> HIDE DEF New, Upto
<1>6. \A k \in Cubes : r[k] \in 0..(lastId + n) /\ (k \in New => r[k] > lastId)
  BY <1>1, <1>2, <1>3
<1>7. r \in [Cubes -> 0..(lastId + n)]
  <2>1. r = [k \in Cubes |-> r[k]]
    BY DEF Inserted
  <2> QED BY <1>6, <2>1
<1>8. ASSUME NEW k \in Cubes, NEW m \in Cubes, r[k] # 0, r[k] = r[m]
      PROVE  k = m
  <2>1. CASE k \in New /\ m \in New
    <3>1. ~(k < m) /\ ~(m < k)
      BY <1>2, <1>4, <1>8, <2>1
    <3> QED BY <3>1, NOK DEF Cubes
  <2>2. CASE k \notin New /\ m \notin New
    BY <1>3, <1>8, <2>2
  <2>3. CASE (k \in New) # (m \in New)
    BY <1>3, <1>6, <1>8, <2>3
  <2> QED BY <2>1, <2>2, <2>3
<1> QED BY <1>1, <1>3, <1>5, <1>6, <1>7, <1>8

(* What a step that inserts rows does to those who rely on them.           *)
Grows ==
    /\ RowsHold'
    /\ lastId' >= lastId /\ lastId' \in Nat
    /\ \A k \in Cached' : row'[k] > lastId \/ (row'[k] = row[k] /\ Cached \subseteq Cached')
    /\ Cached \cup dropped \subseteq Cached' \cup dropped'

LEMMA ScrapeGrows ==
    ASSUME IInv, ScrapePage
    PROVE  Grows /\ Pages[worker.page] \subseteq Cached'
           /\ worker.page \in 1..Len(Pages)
<1>1. /\ row \in [Cubes -> 0..lastId] /\ lastId \in Nat
      /\ \A k, m \in Cubes : row[k] # 0 /\ row[k] = row[m] => k = m
      /\ dropped \subseteq Cubes
  BY DEF IInv, RowsHold, RowsTyped, Cached
<1>2. worker.page \in 1..Len(Pages)
  <2>1. worker.page \in 0..(Len(Pages) + 1) /\ worker.page > 0 /\ worker.page <= Len(Pages)
    BY DEF ScrapePage, IInv, WorkerTyped, ScrapeHolds
  <2>2. Len(Pages) \in Nat
    BY PagesOK, LenProperties
  <2> QED BY <2>1, <2>2
<1>3. PICK S \in SUBSET Cubes : S = Pages[worker.page]
  BY <1>2, PagesOK, ElementOfSeq
<1> DEFINE n == Cardinality({m \in S : row[m] = 0})
<1>4. {m \in S : row[m] = 0} = S \ Cached
  BY DEF Cached
<1>5. row' = Inserted(S, row) /\ lastId' = lastId + n /\ dropped' = dropped \ S
  BY <1>3, <1>4 DEF ScrapePage, Upsert
<1>6. /\ n \in Nat /\ row' \in [Cubes -> 0..(lastId + n)]
      /\ \A k, m \in Cubes : row'[k] # 0 /\ row'[k] = row'[m] => k = m
      /\ \A k \in Cubes : /\ row[k] # 0 => row'[k] = row[k]
                          /\ row[k] = 0 => (row'[k] # 0 <=> k \in S)
                          /\ row[k] = 0 /\ k \in S => row'[k] > lastId
  <2>1. \A r : r = Inserted(S, row) =>
           /\ n \in Nat /\ r \in [Cubes -> 0..(lastId + n)]
           /\ \A k, m \in Cubes : r[k] # 0 /\ r[k] = r[m] => k = m
           /\ \A k \in Cubes : /\ row[k] # 0 => r[k] = row[k]
                               /\ row[k] = 0 => (r[k] # 0 <=> k \in S)
                               /\ row[k] = 0 /\ k \in S => r[k] > lastId
    BY <1>1, InsertedRows
  <2> HIDE DEF n
  <2> QED BY <1>5, <2>1
<1>7. Cached' = Cached \cup S
  BY <1>6 DEF Cached
<1>8. n + Cardinality(Cubes \ Cached') = Cardinality(Cubes \ Cached)
  <2>1. (Cubes \ Cached) = (S \ Cached) \cup (Cubes \ Cached')
        /\ (S \ Cached) \cap (Cubes \ Cached') = {}
    BY <1>7
  <2>2. IsFiniteSet(S \ Cached) /\ IsFiniteSet(Cubes \ Cached')
        /\ Cardinality(S \ Cached) \in Nat /\ Cardinality(Cubes \ Cached') \in Nat
    <3>1. (S \ Cached) \in SUBSET Cubes /\ (Cubes \ Cached') \in SUBSET Cubes
      OBVIOUS
    <3> QED BY <3>1, CubesFinite
  <2>3. Cardinality((S \ Cached) \cup (Cubes \ Cached'))
           = Cardinality(S \ Cached) + Cardinality(Cubes \ Cached') - Cardinality({})
    BY <2>1, <2>2, FS_Union
  <2>4. Cardinality({}) = 0
    BY FS_EmptySet
  <2>5. n = Cardinality(S \ Cached)
    BY <1>4
  <2>6. Cardinality(Cubes \ Cached) = Cardinality((S \ Cached) \cup (Cubes \ Cached'))
    BY <2>1
  <2> HIDE DEF n
  <2> QED BY <2>2, <2>3, <2>4, <2>5, <2>6
<1> HIDE DEF n
<1>9. IdsSuffice'
  <2>1. lastId + Cardinality(Cubes \ Cached) <= MaxId
    BY DEF IInv, RowsHold, IdsSuffice
  <2>2. (Cubes \ Cached') \in SUBSET Cubes
    OBVIOUS
  <2>3. Cardinality(Cubes \ Cached') \in Nat
    BY <2>2, CubesFinite
  <2> QED BY <1>1, <1>5, <1>6, <1>8, <2>1, <2>3, BoundsOK DEF IdsSuffice, Cubes
<1>10. RowsTyped'
  <2>1. fact' \in [Cubes -> Facts]
    <3>1. \A report \in Catalogues : Refreshed(S, report) \in [Cubes -> Facts]
      BY CataloguesOK DEF Refreshed, IInv, RowsHold, RowsTyped
    <3> QED BY <1>3, <3>1 DEF ScrapePage, Upsert
  <2> QED BY <1>1, <1>5, <1>6, <2>1 DEF RowsTyped, Cached
<1>11. \A k \in Cached' : row'[k] > lastId \/ (row'[k] = row[k] /\ Cached \subseteq Cached')
  BY <1>6, <1>7 DEF Cached
<1> QED BY <1>1, <1>2, <1>3, <1>5, <1>6, <1>7, <1>9, <1>10, <1>11 DEF Grows, RowsHold

LEMMA SyncGrows ==
    ASSUME IInv, Sync
    PROVE  Grows /\ \A k \in Cached' : row'[k] > lastId
<1>1. lastId \in Nat /\ dropped \subseteq Cubes /\ Cached \subseteq Cubes
  BY DEF IInv, RowsHold, RowsTyped, Cached
<1>2. PICK S \in SUBSET Cubes :
         /\ row' = Inserted(S, [k \in Cubes |-> 0])
         /\ lastId' = lastId + Cardinality(S)
         /\ dropped' = (dropped \cup Cached) \ S
         /\ fact' \in [Cubes -> Facts]
  BY CataloguesOK DEF Sync
<1> PICK none : none = [k \in Cubes |-> 0]
  OBVIOUS
<1>3. none \in [Cubes -> 0..lastId] /\ \A k \in Cubes : none[k] = 0
  BY <1>1
<1>4. {m \in S : none[m] = 0} = S
  BY <1>3
<1>5. row' = Inserted(S, none)
  BY <1>2
<1>6. /\ Cardinality(S) \in Nat /\ row' \in [Cubes -> 0..(lastId + Cardinality(S))]
      /\ \A k, m \in Cubes : row'[k] # 0 /\ row'[k] = row'[m] => k = m
      /\ \A k \in Cubes : (row'[k] # 0 <=> k \in S) /\ (k \in S => row'[k] > lastId)
  <2>1. \A r : r = Inserted(S, none) =>
           /\ Cardinality(S) \in Nat /\ r \in [Cubes -> 0..(lastId + Cardinality(S))]
           /\ \A k, m \in Cubes : r[k] # 0 /\ r[k] = r[m] => k = m
           /\ \A k \in Cubes : /\ none[k] = 0 => (r[k] # 0 <=> k \in S)
                               /\ none[k] = 0 /\ k \in S => r[k] > lastId
    <3>1. Cardinality(S) = Cardinality({m \in S : none[m] = 0})
      BY <1>4
    <3>2. \A k, m \in Cubes : none[k] # 0 /\ none[k] = none[m] => k = m
      BY <1>3
    <3>3. ASSUME NEW r, r = Inserted(S, none), NEW n, n = Cardinality({m \in S : none[m] = 0})
          PROVE  /\ n \in Nat /\ r \in [Cubes -> 0..(lastId + n)]
                 /\ \A k, m \in Cubes : r[k] # 0 /\ r[k] = r[m] => k = m
                 /\ \A k \in Cubes : /\ none[k] # 0 => r[k] = none[k]
                                     /\ none[k] = 0 => (r[k] # 0 <=> k \in S)
                                     /\ none[k] = 0 /\ k \in S => r[k] > lastId
      <4>1. lastId \in Nat
        BY <1>1
      <4> QED BY <1>3, <4>1, <3>2, <3>3, InsertedRows
    <3> QED BY <3>1, <3>3
  <2> QED BY <1>3, <1>5, <2>1
<1>7. Cached' = S
  BY <1>6 DEF Cached
<1>8. IdsSuffice'
  <2>1. Cardinality(S) + Cardinality(Cubes \ S) = N /\ Cardinality(Cubes \ S) \in Nat
    <3>1. (Cubes \ S) \in SUBSET Cubes /\ S \cup (Cubes \ S) = Cubes /\ S \cap (Cubes \ S) = {}
      OBVIOUS
    <3>2. IsFiniteSet(S) /\ IsFiniteSet(Cubes \ S) /\ Cardinality(Cubes) = N
          /\ Cardinality(S) \in Nat /\ Cardinality(Cubes \ S) \in Nat
      BY <3>1, CubesFinite
    <3>3. Cardinality(S \cup (Cubes \ S)) = Cardinality(S) + Cardinality(Cubes \ S)
                                              - Cardinality({})
      BY <3>1, <3>2, FS_Union
    <3> QED BY <3>1, <3>2, <3>3, FS_EmptySet, NOK
  <2>2. lastId + N <= MaxId
    BY DEF Sync
  <2> QED BY <1>1, <1>2, <1>6, <1>7, <2>1, <2>2, NOK, BoundsOK DEF IdsSuffice, Cubes
<1>9. RowsTyped'
  BY <1>1, <1>2, <1>6 DEF RowsTyped, Cached
<1> QED BY <1>1, <1>2, <1>6, <1>7, <1>8, <1>9 DEF Grows, RowsHold

-----------------------------------------------------------------------------
(* The queue and the rows of the two jobs.                                 *)
LEMMA JobsKept ==
    ASSUME IInv, JobsTyped',
           \A j \in Jobs : status'[j] = "RUNNING" =>
               \/ status[j] = "RUNNING"
               \/ worker'.job = j \/ Contains(queue', j) \/ j \in orphaned',
           \A j \in Jobs : status'[j] = "RUNNING" /\ worker.job = j =>
               worker'.job = j \/ Contains(queue', j) \/ j \in orphaned',
           \A j \in Jobs : status'[j] = "RUNNING" /\ Contains(queue, j) =>
               worker'.job = j \/ Contains(queue', j) \/ j \in orphaned',
           \A j \in Jobs : status'[j] = "RUNNING" /\ j \in orphaned =>
               worker'.job = j \/ Contains(queue', j) \/ j \in orphaned'
    PROVE  RunningIsOwned'
BY DEF IInv, RunningIsOwned, InFlight

LEMMA JobsNext ==
    ASSUME IInv, Next
    PROVE  JobsTyped' /\ RunningIsOwned'
<1>1. /\ status \in [Jobs -> Statuses] /\ queue \in Seq(Jobs) /\ Len(queue) <= MaxQueue
      /\ api \in [job : Jobs \cup {"none"}, filter : Filters]
      /\ faults \in 0..MaxFaults /\ orphaned \subseteq Jobs
      /\ "scrape" \in Jobs /\ "import" \in Jobs /\ "none" \notin Jobs
      /\ {"RUNNING", "COMPLETED", "FAILED"} \subseteq Statuses
      /\ worker.job \in Jobs \cup {"none"}
  BY DEF IInv, JobsTyped, WorkerTyped, Jobs, Statuses
<1>2. NoRequest \in [job : Jobs \cup {"none"}, filter : Filters] /\ NoJob.job = "none"
  BY DefaultFilterOK DEF NoRequest, NoJob
<1>3. ASSUME NEW j \in Jobs, NEW f \in Filters, Enqueue(j, f)
      PROVE  JobsTyped' /\ RunningIsOwned'
  <2>1. /\ queue' = Append(queue, j) /\ api' = [job |-> j, filter |-> f]
        /\ Len(queue) < MaxQueue /\ UNCHANGED <<status, worker, faults, orphaned>>
    BY <1>3 DEF Enqueue, history
  <2>2. JobsTyped'
    BY <1>1, <2>1, AppendHas, BoundsOK DEF JobsTyped
  <2> QED BY <1>1, <2>1, <2>2, AppendHas, JobsKept
<1>4. CASE Publish
  <2>1. /\ api.job \in Jobs /\ api' = NoRequest
        /\ status' = [status EXCEPT ![api.job] = "RUNNING"]
        /\ orphaned' = IF InFlight(api.job) THEN orphaned \ {api.job}
                       ELSE orphaned \cup {api.job}
        /\ UNCHANGED <<queue, worker, faults>>
    BY <1>1, <1>4 DEF Publish
  <2>2. JobsTyped'
    BY <1>1, <1>2, <2>1 DEF JobsTyped
  <2>3. \A j \in Jobs : j # api.job => status'[j] = status[j] /\ (j \in orphaned <=> j \in orphaned')
    BY <1>1, <2>1
  <2>4. InFlight(api.job) \/ api.job \in orphaned'
    BY <2>1
  <2>5. \A j \in Jobs : InFlight(j)' = InFlight(j)
    BY <2>1 DEF InFlight
  <2>6. RunningIsOwned'
    BY <2>1, <2>3, <2>4, <2>5 DEF IInv, RunningIsOwned
  <2> QED BY <2>2, <2>6
<1>5. CASE RequestDies
  <2>1. /\ api' = NoRequest /\ faults' = faults + 1 /\ faults < MaxFaults
        /\ UNCHANGED <<status, queue, worker, orphaned>>
    BY <1>5 DEF RequestDies, history
  <2>2. JobsTyped'
    BY <1>1, <1>2, <2>1, BoundsOK DEF JobsTyped
  <2> QED BY <2>1, <2>2, JobsKept
<1>6. ASSUME NEW j \in Jobs, NEW w, Start(j, w),
             worker'.job = j
      PROVE  JobsTyped' /\ RunningIsOwned'
  <2>1. /\ worker.job = "none" /\ queue # <<>> /\ Head(queue) = j /\ queue' = Tail(queue)
        /\ status' = [status EXCEPT ![j] = "RUNNING"]
        /\ UNCHANGED <<api, faults, orphaned>>
    BY <1>6 DEF Start, history
  <2>2. JobsTyped'
    BY <1>1, <2>1, TailHas, BoundsOK DEF JobsTyped
  <2>3. \A i \in Jobs : Contains(queue, i) => Contains(queue', i) \/ i = j
    BY <1>1, <2>1, TailHas
  <2>4. \A i \in Jobs : i # j => status'[i] = status[i]
    BY <1>1, <2>1
  <2> QED BY <1>1, <1>6, <2>1, <2>2, <2>3, <2>4, JobsKept
<1>7. CASE StartScrape
  <2>1. worker'.job = "scrape" /\ Start("scrape", [NoJob EXCEPT !.page = pageKey + 1])
    BY <1>7 DEF StartScrape, Start, NoJob
  <2> QED BY <1>1, <1>6, <2>1
<1>8. CASE StartImport
  <2>1. /\ worker'.job = "import"
        /\ Start("import", [NoJob EXCEPT !.todo = Walk(tally.filter, tally.cursor),
                                         !.filter = tally.filter])
    BY <1>8 DEF StartImport, Start, NoJob
  <2> QED BY <1>1, <1>6, <2>1
<1>9. ASSUME NEW j \in Jobs, NEW s \in {"COMPLETED", "FAILED"}, End(j, s), worker.job = j,
             faults' \in 0..MaxFaults, UNCHANGED <<queue, api, orphaned>>
      PROVE  JobsTyped' /\ RunningIsOwned'
  <2>1. status' = [status EXCEPT ![j] = s] /\ worker' = NoJob
    BY <1>9 DEF End
  <2>2. JobsTyped'
    BY <1>1, <1>9, <2>1 DEF JobsTyped, Statuses
  <2>3. status'[j] # "RUNNING" /\ \A i \in Jobs : i # j => status'[i] = status[i]
    BY <1>1, <2>1
  <2> QED BY <1>9, <2>1, <2>2, <2>3, JobsKept
<1>10. CASE EndScrape
  <2>1. End("scrape", "COMPLETED") /\ worker.job = "scrape"
        /\ UNCHANGED <<queue, api, faults, orphaned>>
    BY <1>10 DEF EndScrape, history
  <2> QED BY <1>1, <1>9, <2>1
<1>11. CASE EndImport
  <2>1. End("import", "COMPLETED") /\ worker.job = "import"
        /\ UNCHANGED <<queue, api, faults, orphaned>>
    BY <1>11 DEF EndImport, history
  <2> QED BY <1>1, <1>9, <2>1
<1>12. CASE JobFails
  <2>1. /\ End(worker.job, "FAILED") /\ worker.job \in Jobs
        /\ faults' = faults + 1 /\ faults < MaxFaults
        /\ UNCHANGED <<queue, api, orphaned>>
    BY <1>1, <1>12 DEF JobFails, history
  <2> QED BY <1>1, <1>9, <2>1, BoundsOK
<1>13. CASE Kill
  <2>1. /\ orphaned' = orphaned \cup {worker.job} /\ worker.job \in Jobs
        /\ faults' = faults + 1 /\ faults < MaxFaults
        /\ UNCHANGED <<status, queue, api>>
    BY <1>1, <1>13 DEF Kill
  <2>2. JobsTyped'
    BY <1>1, <2>1, BoundsOK DEF JobsTyped
  <2> QED BY <2>1, <2>2, JobsKept
<1>14. ASSUME UNCHANGED <<status, queue, api, faults, orphaned>>, worker'.job = worker.job
       PROVE  JobsTyped' /\ RunningIsOwned'
  <2>1. JobsTyped'
    BY <1>1, <1>14 DEF JobsTyped
  <2> QED BY <1>14, <2>1, JobsKept
<1>15. CASE ScrapePage \/ ImportCube \/ CountCube \/ Sync
  <2>1. worker'.job = worker.job
    BY <1>15 DEF ScrapePage, ImportCube, CountCube, Sync, IInv, WorkerTyped
  <2>2. UNCHANGED <<status, queue, api, faults, orphaned>>
    BY <1>15 DEF ScrapePage, ImportCube, CountCube, Sync, history
  <2> QED BY <1>14, <2>1, <2>2
<1> QED
  BY <1>1, <1>3, <1>4, <1>5, <1>7, <1>8, <1>10, <1>11, <1>12, <1>13, <1>15, DefaultFilterOK
     DEF Next, Trigger, WorkerStep

-----------------------------------------------------------------------------
(* The rows, and what the worker holds of its job.                         *)
LEMMA RowsNext ==
    ASSUME IInv, Next
    PROVE  RowsHold'
<1>1. CASE ScrapePage
  BY <1>1, ScrapeGrows DEF Grows
<1>2. CASE Sync
  BY <1>2, SyncGrows DEF Grows
<1>3. ASSUME ~ScrapePage, ~Sync
      PROVE  UNCHANGED <<row, fact, lastId, dropped>>
  BY <1>3 DEF Next, Trigger, WorkerStep, Enqueue, Publish, RequestDies, StartScrape,
     StartImport, Start, EndScrape, ImportCube, CountCube, EndImport, JobFails, Kill, history
<1>4. CASE UNCHANGED <<row, fact, lastId, dropped>>
  BY <1>4 DEF IInv, RowsHold, RowsTyped, IdsSuffice, Cached
<1> QED BY <1>1, <1>2, <1>3, <1>4

LEMMA WorkerNext ==
    ASSUME IInv, Next
    PROVE  WorkerTyped'
<1>1. /\ worker \in [job : Jobs \cup {"none"}, page : 0..(Len(Pages) + 1),
                     todo : SUBSET Ids, filter : Filters, busy : BOOLEAN]
      /\ worker.busy => worker.job = "import" /\ worker.todo # {}
      /\ "scrape" \in Jobs /\ "import" \in Jobs /\ Len(Pages) \in Nat
      /\ pageKey \in Nat /\ (pageKey < Len(Pages) \/ pageKey = 0)
      /\ tally.filter \in Filters
  BY PagesOK, LenProperties
     DEF IInv, WorkerTyped, ScrapeHolds, ImportHolds, ImportTyped, Jobs
<1>2. /\ NoJob.job = "none" /\ NoJob.page = 0 /\ NoJob.todo = {} /\ ~NoJob.busy
      /\ NoJob \in [job : Jobs \cup {"none"}, page : 0..(Len(Pages) + 1),
                    todo : SUBSET Ids, filter : Filters, busy : BOOLEAN]
  BY <1>1, DefaultFilterOK DEF NoJob
<1>3. CASE StartScrape
  <2>1. worker' = [[NoJob EXCEPT !.page = pageKey + 1] EXCEPT !.job = "scrape"]
    BY <1>3 DEF StartScrape, Start
  <2>2. pageKey + 1 \in 0..(Len(Pages) + 1)
    BY <1>1
  <2> QED BY <1>1, <1>2, <2>1, <2>2 DEF WorkerTyped
<1>4. CASE StartImport
  <2>1. worker' = [[NoJob EXCEPT !.todo = Walk(tally.filter, tally.cursor),
                                 !.filter = tally.filter] EXCEPT !.job = "import"]
    BY <1>4 DEF StartImport, Start
  <2>2. Walk(tally.filter, tally.cursor) \in SUBSET Ids
    <3>1. tally.cursor \in Nat
      BY DEF IInv, ImportHolds, ImportTyped, RowsHold, RowsTyped
    <3> QED BY <3>1, BoundsOK DEF Walk, Ids
  <2> QED BY <1>1, <1>2, <2>1, <2>2 DEF WorkerTyped
<1>5. CASE ScrapePage
  <2>1. worker' = [worker EXCEPT !.page = @ + 1] /\ worker.page <= Len(Pages)
        /\ worker.job = "scrape"
    BY <1>5 DEF ScrapePage
  <2> QED BY <1>1, <2>1 DEF WorkerTyped
<1>6. CASE ImportCube
  <2>1. worker' = [worker EXCEPT !.busy = TRUE] /\ worker.job = "import" /\ worker.todo # {}
    BY <1>6 DEF ImportCube
  <2> QED BY <1>1, <2>1 DEF WorkerTyped
<1>7. CASE CountCube
  <2>1. worker' = [worker EXCEPT !.todo = @ \ {tally'.cursor}, !.busy = FALSE]
    BY <1>7 DEF CountCube
  <2>2. worker.todo \ {tally'.cursor} \in SUBSET Ids
    BY <1>1
  <2> QED BY <1>1, <2>1, <2>2 DEF WorkerTyped
<1>8. CASE EndScrape \/ EndImport \/ JobFails \/ Kill
  <2>1. worker' = NoJob
    BY <1>8 DEF EndScrape, EndImport, JobFails, Kill, End
  <2> QED BY <1>2, <2>1 DEF WorkerTyped
<1>9. CASE UNCHANGED worker
  BY <1>1, <1>9 DEF WorkerTyped
<1>10. ASSUME Next, ~StartScrape, ~StartImport, ~ScrapePage, ~ImportCube, ~CountCube,
              ~EndScrape, ~EndImport, ~JobFails, ~Kill
       PROVE  UNCHANGED worker
  BY <1>10 DEF Next, Trigger, WorkerStep, Enqueue, Publish, RequestDies, Sync
<1> QED BY <1>3, <1>4, <1>5, <1>6, <1>7, <1>8, <1>9, <1>10

-----------------------------------------------------------------------------
(* Pages that were walked stay so: what goes from the cache is recorded.   *)
LEMMA WalkedStays ==
    ASSUME NEW n, Walked(n), Cached \cup dropped \subseteq Cached' \cup dropped'
    PROVE  Walked(n)'
BY DEF Walked

LEMMA CacheOnlyDrops ==
    ASSUME IInv, Next
    PROVE  Cached \cup dropped \subseteq Cached' \cup dropped'
<1>1. CASE ScrapePage \/ Sync
  BY <1>1, ScrapeGrows, SyncGrows DEF Grows
<1>2. ASSUME ~ScrapePage, ~Sync
      PROVE  UNCHANGED <<row, dropped>>
  BY <1>2 DEF Next, Trigger, WorkerStep, Enqueue, Publish, RequestDies, StartScrape,
     StartImport, Start, EndScrape, ImportCube, CountCube, EndImport, JobFails, Kill, history
<1> QED BY <1>1, <1>2 DEF Cached

LEMMA ScrapePageHolds ==
    ASSUME IInv, ScrapePage
    PROVE  ScrapeHolds'
<1>1. /\ worker.page \in 1..Len(Pages) /\ Pages[worker.page] \subseteq Cached'
      /\ Cached \cup dropped \subseteq Cached' \cup dropped'
      /\ Len(Pages) \in Nat
  BY ScrapeGrows, PagesOK, LenProperties DEF Grows
<1>2. PICK p \in 1..Len(Pages) : p = worker.page
  BY <1>1
<1>3. /\ worker.job = "scrape" /\ worker'.page = p + 1 /\ status' = status
      /\ pageKey' = IF p < Len(Pages) THEN p ELSE 0
  BY <1>2 DEF ScrapePage, KeyAfter, IInv, WorkerTyped
<1>4. Walked(p)'
  <2>1. Walked(p - 1)
    BY <1>2, <1>3 DEF IInv, ScrapeHolds
  <2>2. Walked(p - 1)'
    BY <1>1, <2>1, WalkedStays
  <2>3. \A i \in 1..Len(Pages) : i <= p => i <= p - 1 \/ i = p
    BY <1>1
  <2> QED BY <1>1, <1>2, <2>2, <2>3 DEF Walked
<1>5. Walked(pageKey)'
  BY <1>1, <1>3, <1>4 DEF Walked
<1>6. status'["scrape"] = "COMPLETED" => Walked(Len(Pages))'
  BY <1>1, <1>3, WalkedStays DEF IInv, ScrapeHolds
<1>7. worker'.page > 0 /\ Walked(worker.page - 1)'
  <2>1. (p + 1) - 1 = p /\ p + 1 > 0
    BY <1>1
  <2>2. worker'.page - 1 = p
    BY <1>3, <2>1
  <2> QED BY <1>3, <1>4, <2>1, <2>2 DEF Walked
<1> QED BY <1>1, <1>3, <1>5, <1>6, <1>7 DEF ScrapeHolds

LEMMA ScrapeNext ==
    ASSUME IInv, Next
    PROVE  ScrapeHolds'
<1>1. /\ pageKey \in Nat /\ (pageKey < Len(Pages) \/ pageKey = 0) /\ Walked(pageKey)
      /\ status["scrape"] = "COMPLETED" => Walked(Len(Pages))
      /\ worker.job = "scrape" => worker.page > 0 /\ Walked(worker.page - 1)
      /\ status \in [Jobs -> Statuses] /\ "scrape" \in Jobs /\ "import" \in Jobs
      /\ Len(Pages) \in Nat /\ worker.page \in Nat /\ worker.page <= Len(Pages) + 1
  BY PagesOK, LenProperties DEF IInv, ScrapeHolds, JobsTyped, WorkerTyped, Jobs
<1>2. \A n : Walked(n) => Walked(n)'
  BY CacheOnlyDrops, WalkedStays
<1>3. NoJob.job = "none" /\ api.job \in Jobs \cup {"none"}
  BY DEF NoJob, IInv, JobsTyped
<1>4. CASE ScrapePage
  BY <1>4, ScrapePageHolds
<1>5. CASE EndScrape
  <2>1. /\ worker.job = "scrape" /\ worker.page > Len(Pages)
        /\ pageKey' = 0 /\ worker' = NoJob
    BY <1>5 DEF EndScrape, End
  <2>2. Walked(Len(Pages))
    <3>1. worker.page - 1 = Len(Pages)
      BY <1>1, <2>1
    <3> QED BY <1>1, <2>1, <3>1
  <2>3. Walked(Len(Pages))'
    BY <1>2, <2>2
  <2>4. Walked(pageKey)'
    BY <1>1, <2>1 DEF Walked
  <2> QED BY <1>3, <2>1, <2>3, <2>4 DEF ScrapeHolds
<1>6. ASSUME UNCHANGED pageKey,
             status'["scrape"] = "COMPLETED" => status["scrape"] = "COMPLETED",
             worker'.job = "scrape" =>
                 \/ worker.job = "scrape" /\ worker'.page = worker.page
                 \/ worker'.page = pageKey + 1
      PROVE  ScrapeHolds'
  <2>1. Walked(pageKey)'
    <3>1. PICK n : n = pageKey
      OBVIOUS
    <3>2. Walked(n)'
      BY <1>1, <1>2, <3>1
    <3> QED BY <1>6, <3>1, <3>2 DEF Walked
  <2>2. status'["scrape"] = "COMPLETED" => Walked(Len(Pages))'
    BY <1>1, <1>2, <1>6
  <2>3. ASSUME worker'.job = "scrape"
        PROVE  worker'.page > 0 /\ Walked(worker.page - 1)'
    <3>1. PICK n : n = worker'.page - 1
      OBVIOUS
    <3>2. worker'.page > 0 /\ Walked(n)
      <4>1. CASE worker.job = "scrape" /\ worker'.page = worker.page
        BY <1>1, <3>1, <4>1
      <4>2. CASE worker'.page = pageKey + 1
        <5>1. pageKey + 1 > 0 /\ (pageKey + 1) - 1 = pageKey
          BY <1>1
        <5>2. n = pageKey
          BY <3>1, <4>2, <5>1
        <5> QED BY <1>1, <4>2, <5>1, <5>2
      <4> QED BY <1>6, <2>3, <4>1, <4>2
    <3>3. Walked(n)'
      BY <1>2, <3>2
    <3> QED BY <3>1, <3>2, <3>3 DEF Walked
  <2> QED BY <1>1, <1>6, <2>1, <2>2, <2>3 DEF ScrapeHolds
<1>7. CASE StartScrape
  <2>1. /\ worker' = [[NoJob EXCEPT !.page = pageKey + 1] EXCEPT !.job = "scrape"]
        /\ status' = [status EXCEPT !["scrape"] = "RUNNING"] /\ UNCHANGED pageKey
    BY <1>7 DEF StartScrape, Start
  <2>2. worker'.page = pageKey + 1
    BY <2>1 DEF NoJob
  <2> QED BY <1>1, <1>6, <2>1, <2>2
<1>8. CASE StartImport
  <2>1. /\ worker'.job = "import" /\ UNCHANGED pageKey
        /\ status' = [status EXCEPT !["import"] = "RUNNING"]
    BY <1>8 DEF StartImport, Start, NoJob
  <2> QED BY <1>1, <1>6, <2>1
<1>9. CASE EndImport \/ JobFails \/ Kill
  <2>1. worker' = NoJob /\ UNCHANGED pageKey
    BY <1>9 DEF EndImport, JobFails, Kill, End
  <2>2. status'["scrape"] = "COMPLETED" => status["scrape"] = "COMPLETED"
    BY <1>1, <1>9 DEF EndImport, JobFails, Kill, End, Jobs
  <2> QED BY <1>3, <1>6, <2>1, <2>2
<1>10. CASE ImportCube \/ CountCube
  <2>1. worker'.job = worker.job /\ worker'.page = worker.page /\ UNCHANGED <<pageKey, status>>
    BY <1>10 DEF ImportCube, CountCube, IInv, WorkerTyped
  <2> QED BY <1>6, <2>1
<1>11. CASE Trigger \/ RequestDies \/ Sync
  <2>1. UNCHANGED <<pageKey, worker>>
    BY <1>11 DEF Trigger, Enqueue, Publish, RequestDies, Sync
  <2>2. status'["scrape"] = "COMPLETED" => status["scrape"] = "COMPLETED"
    BY <1>1, <1>3, <1>11 DEF Trigger, Enqueue, Publish, RequestDies, Sync
  <2> QED BY <1>6, <2>1, <2>2
<1> QED BY <1>4, <1>5, <1>7, <1>8, <1>9, <1>10, <1>11 DEF Next, WorkerStep

-----------------------------------------------------------------------------
(* A cube with a row no newer than the cursor is a candidate now only if   *)
(* it was one before, or was reappraised: rows that came since rank it no  *)
(* better.                                                                 *)
LEMMA CandidatesShrink ==
    ASSUME IInv, Grows, NEW f \in Filters, NEW k \in Candidates(f)', row'[k] <= tally.cursor
    PROVE  /\ k \in Cached /\ row'[k] = row[k]
           /\ k \in Candidates(f) \/ k \in Reappraised
<1>1. /\ tally.cursor \in 0..lastId /\ lastId \in Nat
      /\ row \in [Cubes -> 0..lastId] /\ row' \in [Cubes -> 0..lastId']
      /\ fact \in [Cubes -> Facts] /\ fact' \in [Cubes -> Facts]
      /\ Cached \subseteq Cubes /\ Cached' \subseteq Cubes
  BY DEF IInv, ImportHolds, ImportTyped, RowsHold, RowsTyped, Cached, Grows
<1>2. /\ k \in Cached' /\ k \in Cubes /\ row'[k] # 0
      /\ fact'[k].cards \in f.cards /\ Qualifies(k, f)'
  BY <1>1 DEF Candidates, Cached
<1>3. row'[k] = row[k] /\ Cached \subseteq Cached'
  <2>1. ~(row'[k] > lastId)
    <3>1. row'[k] \in 0..lastId' /\ lastId' \in Nat
      BY <1>1, <1>2 DEF Grows
    <3> QED BY <1>1, <3>1
  <2> QED BY <1>2, <2>1 DEF Grows
<1>4. k \in Cached
  BY <1>2, <1>3 DEF Cached
<1>5. ASSUME k \notin Reappraised
      PROVE  k \in Candidates(f)
  <2>1. fact'[k] = fact[k] /\ \A m \in MoreLiked(k) : ~(fact'[m].likes <= fact[k].likes)
    BY <1>4, <1>5 DEF Reappraised
  <2>2. MoreLiked(k) \in SUBSET MoreLiked(k)' /\ MoreLiked(k)' \in SUBSET Cubes
    <3>1. \A m \in Cubes : fact[m].likes \in Nat /\ fact'[m].likes \in Nat
      BY <1>1 DEF Facts
    <3> QED BY <1>1, <1>2, <1>3, <2>1, <3>1 DEF MoreLiked
  <2>3. Rank(k) \in Nat /\ Rank(k)' \in Nat /\ Rank(k) <= Rank(k)'
    <3>1. /\ Cardinality(MoreLiked(k)) \in Nat /\ Cardinality(MoreLiked(k)') \in Nat
          /\ Cardinality(MoreLiked(k)) <= Cardinality(MoreLiked(k)')
      BY <2>2, SmallerCounts
    <3>2. Rank(k)' = 1 + Cardinality(MoreLiked(k)')
      BY DEF Rank
    <3> QED BY <3>1, <3>2 DEF Rank
  <2>4. f.top \in Nat
    BY FiltersOK
  <2>5. Qualifies(k, f)
    BY <1>2, <2>1, <2>3, <2>4 DEF Qualifies
  <2> QED BY <1>2, <1>4, <2>1, <2>5 DEF Candidates
<1> QED BY <1>3, <1>4, <1>5

LEMMA SameRowsSameWalk ==
    ASSUME UNCHANGED <<row, fact>>
    PROVE  \A f : /\ Candidates(f)' = Candidates(f)
                  /\ \A after : Walk(f, after)' = Walk(f, after)
<1>1. Cached' = Cached
  BY DEF Cached
<1>2. \A k : MoreLiked(k)' = MoreLiked(k)
  BY <1>1 DEF MoreLiked
<1>3. \A k : Rank(k)' = Rank(k)
  BY <1>2 DEF Rank
<1>4. \A f, k : Qualifies(k, f)' = Qualifies(k, f)
  BY <1>3 DEF Qualifies
<1>5. \A f : Candidates(f)' = Candidates(f)
  BY <1>1, <1>4 DEF Candidates
<1> QED BY <1>5 DEF Walk

(* The walk goes on: without the id that was first, it is the walk from    *)
(* that id on.                                                             *)
LEMMA WalkGoesOn ==
    ASSUME NEW f, NEW c \in Nat, Walk(f, c) # {}, NEW m, m = Min(Walk(f, c))
    PROVE  /\ m \in Walk(f, c) /\ m > c /\ m \in Nat /\ m <= MaxId
           /\ Walk(f, m) = Walk(f, c) \ {m}
           /\ \A k \in Candidates(f) : row[k] \in Nat /\ row[k] > c /\ row[k] <= m
                                          /\ row[k] <= MaxId => row[k] = m
<1> DEFINE R == {row[k] : k \in Candidates(f)}
<1>1. \A n : Walk(f, n) = R \cap (n + 1)..MaxId
  BY DEF Walk
<1>2. \A k \in Candidates(f) : row[k] \in R
  OBVIOUS
<1> HIDE DEF R
<1>3. Walk(f, c) \in SUBSET Nat
  BY <1>1, BoundsOK
<1>4. m \in Walk(f, c) /\ \A y \in Walk(f, c) : m <= y
  BY <1>3, MinIsFirst
<1>5. m \in Nat /\ m > c /\ m <= MaxId
  BY <1>1, <1>4, BoundsOK
<1>6. \A x : x \in Walk(f, m) <=> x \in Walk(f, c) /\ x # m
  <2>1. \A x : x \in Walk(f, m) <=> x \in R /\ x \in (m + 1)..MaxId
    BY <1>1
  <2>2. \A x : x \in Walk(f, c) <=> x \in R /\ x \in (c + 1)..MaxId
    BY <1>1
  <2>3. \A x : x \in (m + 1)..MaxId => x \in (c + 1)..MaxId /\ x # m
    BY <1>5, BoundsOK
  <2>4. \A x \in Walk(f, c) : x # m => x \in (m + 1)..MaxId
    BY <1>3, <1>4, <1>5, <2>2, BoundsOK
  <2> QED BY <2>1, <2>2, <2>3, <2>4
<1>7. \A k \in Candidates(f) : row[k] \in Nat /\ row[k] > c /\ row[k] <= m
                                 /\ row[k] <= MaxId => row[k] = m
  <2> SUFFICES ASSUME NEW k \in Candidates(f), row[k] \in Nat, row[k] > c, row[k] <= m,
                      row[k] <= MaxId
               PROVE  row[k] = m
    OBVIOUS
  <2>1. row[k] \in Walk(f, c)
    BY <1>1, <1>2, BoundsOK
  <2> QED BY <1>4, <1>5, <2>1
<1> QED BY <1>4, <1>5, <1>6, <1>7

-----------------------------------------------------------------------------
(* Steps that leave cursor and counters of the import alone; what they     *)
(* reappraise behind the cursor is recorded.                               *)
LEMMA ImportKept ==
    ASSUME IInv, UNCHANGED <<tally, visited>>,
           unscoped \subseteq unscoped', unscoped' \subseteq Ids,
           \/ /\ Grows
              /\ \A k \in Reappraised : row'[k] = row[k] /\ row[k] <= tally.cursor
                                           => row[k] \in unscoped'
           \/ UNCHANGED <<row, fact>>,
           lastId' \in Nat, lastId' >= lastId,
           worker'.job = "import" =>
               /\ UNCHANGED <<row, fact>>
               /\ \/ worker.job = "import" /\ UNCHANGED <<worker.todo, worker.filter>>
                  \/ worker'.todo = Walk(worker'.filter, tally.cursor)
    PROVE  ImportHolds'
<1>1. ImportTyped'
  <2>1. tally \in [cursor : 0..lastId, counted : Nat, filter : Filters] /\ lastId \in Nat
    BY DEF IInv, ImportHolds, ImportTyped, RowsHold, RowsTyped
  <2>2. tally \in [cursor : 0..lastId', counted : Nat, filter : Filters]
    BY <2>1
  <2> QED BY <2>2 DEF IInv, ImportHolds, ImportTyped
<1>2. WalkIsCurrent'
  <2> SUFFICES ASSUME worker'.job = "import"
               PROVE  worker'.todo = Walk(worker.filter, tally.cursor)'
    BY DEF WalkIsCurrent
  <2>1. PICK f, c : f = worker'.filter /\ c = tally.cursor
    OBVIOUS
  <2>2. Walk(f, c)' = Walk(f, c)
    BY SameRowsSameWalk
  <2>3. worker'.todo = Walk(f, c)
    BY <2>1 DEF IInv, ImportHolds, WalkIsCurrent
  <2>4. Walk(worker.filter, tally.cursor)' = Walk(f, c)'
    BY <2>1 DEF Walk
  <2> QED BY <2>2, <2>3, <2>4
<1>3. EachCandidateOnce'
  <2>1. PICK f \in Filters : f = tally.filter
    BY DEF IInv, ImportHolds, ImportTyped
  <2>2. \A k \in Candidates(f) : row[k] <= tally.cursor => row[k] \in visited \cup unscoped
    BY <2>1 DEF IInv, ImportHolds, EachCandidateOnce
  <2>3. \A k \in Candidates(f)' : row'[k] <= tally.cursor => row'[k] \in visited \cup unscoped'
    <3>1. CASE /\ Grows
               /\ \A k \in Reappraised : row'[k] = row[k] /\ row[k] <= tally.cursor
                                            => row[k] \in unscoped'
      BY <2>2, <3>1, CandidatesShrink
    <3>2. CASE UNCHANGED <<row, fact>>
      BY <2>2, <3>2, SameRowsSameWalk
    <3> QED BY <3>1, <3>2
  <2>4. Candidates(tally.filter)' = Candidates(f)'
    BY <2>1 DEF Candidates
  <2>5. tally'.counted = Cardinality(visited')
    BY DEF IInv, ImportHolds, EachCandidateOnce
  <2> QED BY <2>3, <2>4, <2>5 DEF EachCandidateOnce
<1> QED BY <1>1, <1>2, <1>3 DEF ImportHolds

(* A cube is counted: it is the first of the walk, never counted before,   *)
(* and no candidate lies between the old cursor and the new one.           *)
LEMMA CountCubeHolds ==
    ASSUME IInv, CountCube
    PROVE  ImportHolds'
<1>1. /\ tally \in [cursor : 0..lastId, counted : Nat, filter : Filters]
      /\ lastId \in Nat /\ lastId <= MaxId
      /\ visited \subseteq 1..tally.cursor /\ unscoped \subseteq Ids
      /\ row \in [Cubes -> 0..lastId]
      /\ worker.job = "import" /\ worker.todo # {}
      /\ worker.todo = Walk(worker.filter, tally.cursor)
      /\ tally.counted = Cardinality(visited)
  <2>1. lastId + Cardinality(Cubes \ Cached) <= MaxId /\ Cardinality(Cubes \ Cached) \in Nat
    <3>1. (Cubes \ Cached) \in SUBSET Cubes
      OBVIOUS
    <3> QED BY <3>1, CubesFinite DEF IInv, RowsHold, IdsSuffice
  <2>2. lastId \in Nat /\ lastId <= MaxId
    BY <2>1, BoundsOK DEF IInv, RowsHold, RowsTyped
  <2>3. worker.job = "import" /\ worker.todo # {}
    BY DEF CountCube, IInv, WorkerTyped
  <2> QED BY <2>2, <2>3
          DEF IInv, ImportHolds, ImportTyped, WalkIsCurrent, EachCandidateOnce,
              RowsHold, RowsTyped
<1>2. PICK f, g \in Filters, c \in Nat :
         f = worker.filter /\ g = tally.filter /\ c = tally.cursor
  BY <1>1 DEF IInv, WorkerTyped
<1> PICK m : m = Min(Walk(f, c))
  OBVIOUS
<1>3. /\ m \in Walk(f, c) /\ m > c /\ m \in Nat /\ m <= MaxId
      /\ Walk(f, m) = Walk(f, c) \ {m}
      /\ \A k \in Candidates(f) : row[k] \in Nat /\ row[k] > c /\ row[k] <= m
                                     /\ row[k] <= MaxId => row[k] = m
  BY <1>1, <1>2, WalkGoesOn
<1>4. /\ tally'.cursor = m /\ tally'.counted = tally.counted + 1 /\ tally'.filter = g
      /\ tally' = [tally EXCEPT !.counted = @ + 1, !.cursor = m]
      /\ visited' = visited \cup {m}
      /\ unscoped' = IF f = g THEN unscoped ELSE unscoped \cup 1..m
      /\ worker'.job = "import" /\ worker'.filter = f /\ worker'.todo = Walk(f, c) \ {m}
      /\ UNCHANGED <<row, fact, lastId>>
  <2>1. /\ tally' = [tally EXCEPT !.counted = @ + 1, !.cursor = m]
        /\ visited' = visited \cup {tally'.cursor}
        /\ unscoped' = IF worker.filter = tally.filter THEN unscoped
                       ELSE unscoped \cup 1..tally'.cursor
        /\ worker' = [worker EXCEPT !.todo = @ \ {tally'.cursor}, !.busy = FALSE]
        /\ UNCHANGED <<row, fact, lastId>>
    BY <1>1, <1>2 DEF CountCube
  <2>2. tally'.cursor = m /\ tally'.counted = tally.counted + 1 /\ tally'.filter = g
    BY <1>1, <1>2, <2>1
  <2>3. worker'.job = "import" /\ worker'.filter = f
        /\ worker'.todo = Walk(f, c) \ {tally'.cursor}
    BY <1>1, <1>2, <2>1 DEF IInv, WorkerTyped
  <2> QED BY <1>2, <2>1, <2>2, <2>3
<1>5. m <= lastId
  <2>1. PICK k \in Candidates(f) : m = row[k]
    BY <1>3 DEF Walk
  <2>2. k \in Cubes
    BY DEF Candidates, Cached
  <2> QED BY <1>1, <2>1, <2>2
<1>6. ImportTyped'
  <2>1. tally' \in [cursor : 0..lastId, counted : Nat, filter : Filters]
    <3>1. m \in 0..lastId /\ tally.counted + 1 \in Nat
      BY <1>1, <1>3, <1>5
    <3> QED BY <1>1, <1>4, <3>1
  <2>2. visited' \subseteq 1..m
    <3>1. 1..c \subseteq 1..m /\ m \in 1..m
      BY <1>2, <1>3
    <3> QED BY <1>1, <1>2, <1>4, <3>1
  <2>3. unscoped' \subseteq Ids
    <3>1. 1..m \subseteq Ids
      BY <1>3, BoundsOK DEF Ids
    <3> QED BY <1>1, <1>4, <3>1
  <2> QED BY <1>4, <2>1, <2>2, <2>3 DEF ImportTyped
<1>7. WalkIsCurrent'
  <2>1. Walk(f, m)' = Walk(f, m)
    BY <1>4, SameRowsSameWalk
  <2>2. Walk(worker.filter, tally.cursor)' = Walk(f, m)'
    BY <1>4 DEF Walk
  <2> QED BY <1>3, <1>4, <2>1, <2>2 DEF WalkIsCurrent
<1>8. EachCandidateOnce'
  <2>1. tally'.counted = Cardinality(visited')
    <3>1. IsFiniteSet(visited)
      <4>1. c \in Int /\ 1 \in Int
        BY <1>2
      <4>2. IsFiniteSet(1..c)
        BY <4>1, FS_Interval
      <4>3. visited \in SUBSET (1..c)
        BY <1>1, <1>2
      <4> QED BY <4>2, <4>3, FS_Subset
    <3>2. m \notin visited
      BY <1>1, <1>2, <1>3
    <3>3. Cardinality(visited \cup {m}) = Cardinality(visited) + 1
      BY <3>1, <3>2, FS_AddElement
    <3> QED BY <1>1, <1>4, <3>3
  <2>2. ASSUME NEW k \in Candidates(g), row[k] <= m
        PROVE  row[k] \in visited' \cup unscoped'
    <3>1. row[k] \in Nat /\ row[k] # 0 /\ row[k] <= MaxId
      <4>1. k \in Cubes /\ row[k] # 0
        BY DEF Candidates, Cached
      <4>2. row[k] \in 0..lastId
        BY <1>1, <4>1
      <4> QED BY <1>1, <4>1, <4>2, BoundsOK
    <3>2. CASE f # g
      <4>1. row[k] \in 1..m
        BY <1>3, <2>2, <3>1
      <4> QED BY <1>4, <3>2, <4>1
    <3>3. CASE f = g /\ row[k] <= c
      <4>1. row[k] \in visited \cup unscoped
        BY <1>2, <3>3 DEF IInv, ImportHolds, EachCandidateOnce
      <4> QED BY <1>4, <3>3, <4>1
    <3>4. CASE f = g /\ ~(row[k] <= c)
      <4>1. row[k] = m
        BY <1>2, <1>3, <2>2, <3>1, <3>4
      <4> QED BY <1>4, <4>1
    <3> QED BY <3>2, <3>3, <3>4
  <2>3. Candidates(tally.filter)' = Candidates(g)
    <3>1. Candidates(tally.filter)' = Candidates(g)'
      BY <1>4 DEF Candidates
    <3> QED BY <1>4, <3>1, SameRowsSameWalk
  <2> QED BY <1>4, <2>1, <2>2, <2>3 DEF EachCandidateOnce
<1> QED BY <1>6, <1>7, <1>8 DEF ImportHolds

(* A trigger publishes new filters: what the cursor has passed was passed  *)
(* under other ones.                                                       *)
LEMMA PublishFilterHolds ==
    ASSUME IInv, Publish
    PROVE  ImportHolds'
<1>1. /\ tally \in [cursor : 0..lastId, counted : Nat, filter : Filters]
      /\ lastId \in Nat /\ api.filter \in Filters
      /\ row \in [Cubes -> 0..lastId]
      /\ UNCHANGED <<row, fact, lastId, worker, visited>>
  BY DEF IInv, ImportHolds, ImportTyped, RowsHold, RowsTyped, JobsTyped, Publish
<1>2. CASE UNCHANGED <<tally, unscoped>>
  <2>1. /\ unscoped \subseteq unscoped' /\ unscoped' \subseteq Ids
        /\ lastId' \in Nat /\ lastId' >= lastId
    BY <1>1, <1>2 DEF IInv, ImportHolds, ImportTyped, RowsHold, RowsTyped
  <2>2. worker'.job = "import" => worker.job = "import" /\ UNCHANGED <<worker.todo, worker.filter>>
    BY <1>1
  <2>3. UNCHANGED <<row, fact>> /\ UNCHANGED <<tally, visited>>
    BY <1>1, <1>2
  <2> QED BY <2>1, <2>2, <2>3, ImportKept
<1>3. CASE /\ tally' = [tally EXCEPT !.filter = api.filter]
           /\ unscoped' = unscoped \cup 1..tally.cursor
  <2>1. /\ tally' \in [cursor : 0..lastId, counted : Nat, filter : Filters]
        /\ tally'.cursor = tally.cursor /\ tally'.counted = tally.counted
    BY <1>1, <1>3
  <2>2. lastId <= MaxId
    <3>1. (Cubes \ Cached) \in SUBSET Cubes
      OBVIOUS
    <3>2. Cardinality(Cubes \ Cached) \in Nat
      BY <3>1, CubesFinite
    <3> QED BY <1>1, <3>2, BoundsOK DEF IInv, RowsHold, IdsSuffice
  <2>3. ImportTyped'
    <3>1. 1..tally.cursor \subseteq Ids
      BY <1>1, <2>2, BoundsOK DEF Ids
    <3> QED BY <1>1, <1>3, <2>1, <3>1 DEF IInv, ImportHolds, ImportTyped
  <2>4. WalkIsCurrent'
    <3>1. PICK f, c : f = worker.filter /\ c = tally.cursor
      OBVIOUS
    <3>2. Walk(f, c)' = Walk(f, c)
      BY <1>1, SameRowsSameWalk
    <3>3. Walk(worker.filter, tally.cursor)' = Walk(f, c)'
      BY <1>1, <2>1, <3>1 DEF Walk
    <3> QED BY <1>1, <3>1, <3>2, <3>3 DEF IInv, ImportHolds, WalkIsCurrent
  <2>5. EachCandidateOnce'
    <3>1. tally'.counted = Cardinality(visited')
      BY <1>1, <2>1 DEF IInv, ImportHolds, EachCandidateOnce
    <3>2. PICK g : g = tally'.filter
      OBVIOUS
    <3>3. Candidates(tally.filter)' = Candidates(g)'
      BY <3>2 DEF Candidates
    <3>4. Candidates(g)' = Candidates(g)
      BY <1>1, SameRowsSameWalk
    <3>5. ASSUME NEW k \in Candidates(g), row[k] <= tally.cursor
          PROVE  row[k] \in unscoped'
      <4>1. k \in Cubes /\ row[k] # 0
        BY DEF Candidates, Cached
      <4>2. row[k] \in 0..lastId
        BY <1>1, <4>1
      <4>3. row[k] \in 1..tally.cursor
        BY <1>1, <3>5, <4>1, <4>2
      <4> QED BY <1>3, <4>3
    <3> QED BY <1>1, <2>1, <3>1, <3>3, <3>4, <3>5 DEF EachCandidateOnce
  <2> QED BY <2>3, <2>4, <2>5 DEF ImportHolds
<1> QED BY <1>2, <1>3 DEF Publish

(* The cubes of a page that a scrape makes candidates behind the cursor    *)
(* are recorded.                                                           *)
LEMMA ScrapeKeepsImport ==
    ASSUME IInv, ScrapePage
    PROVE  ImportHolds'
<1>1. Grows
  BY ScrapeGrows
<1>2. /\ worker'.job = "scrape" /\ UNCHANGED <<tally, visited>>
      /\ unscoped' = unscoped \cup ({row[k] : k \in Reappraised} \cap 1..tally.cursor)
  BY DEF ScrapePage, Upsert, IInv, WorkerTyped
<1>3. /\ tally.cursor \in 0..lastId /\ lastId \in Nat /\ lastId <= MaxId
      /\ row \in [Cubes -> 0..lastId] /\ unscoped \subseteq Ids
  <2>1. (Cubes \ Cached) \in SUBSET Cubes
    OBVIOUS
  <2>2. Cardinality(Cubes \ Cached) \in Nat
    BY <2>1, CubesFinite
  <2> QED BY <2>2, BoundsOK
          DEF IInv, ImportHolds, ImportTyped, RowsHold, RowsTyped, IdsSuffice
<1>4. unscoped' \subseteq Ids
  <2>1. 1..tally.cursor \subseteq Ids
    BY <1>3, BoundsOK DEF Ids
  <2> QED BY <1>2, <1>3, <2>1
<1>5. ASSUME NEW k \in Reappraised, row[k] <= tally.cursor
      PROVE  row[k] \in unscoped'
  <2>1. row[k] \in 0..lastId /\ row[k] # 0
    BY <1>3 DEF Reappraised, Cached
  <2>2. row[k] \in 1..tally.cursor
    BY <1>3, <1>5, <2>1
  <2> QED BY <1>2, <2>2
<1> QED BY <1>1, <1>2, <1>4, <1>5, ImportKept DEF Grows

LEMMA ImportNext ==
    ASSUME IInv, Next
    PROVE  ImportHolds'
<1>1. lastId \in Nat /\ lastId >= lastId /\ NoJob.job = "none" /\ unscoped \subseteq Ids
  BY DEF IInv, RowsHold, RowsTyped, NoJob, ImportHolds, ImportTyped
<1>2. CASE CountCube
  BY <1>2, CountCubeHolds
<1>3. CASE Publish
  BY <1>3, PublishFilterHolds
<1>4. CASE ScrapePage
  BY <1>4, ScrapeKeepsImport
<1>5. CASE Sync
  <2>1. worker'.job = "none" /\ UNCHANGED <<tally, visited, unscoped>>
    BY <1>5 DEF Sync
  <2>2. Grows /\ \A k \in Cached' : row'[k] > lastId
    BY <1>5, SyncGrows
  <2>3. \A k \in Reappraised : ~(row'[k] = row[k] /\ row[k] <= tally.cursor)
    <3>1. tally.cursor \in 0..lastId /\ row \in [Cubes -> 0..lastId]
          /\ Cached' = {k \in Cubes : row'[k] # 0} /\ unscoped \subseteq Ids
      BY DEF IInv, ImportHolds, ImportTyped, RowsHold, RowsTyped, Cached
    <3>2. ASSUME NEW k \in Reappraised, row'[k] = row[k]
          PROVE  FALSE
      <4>1. k \in Cubes /\ row[k] # 0 /\ row[k] \in 0..lastId
        BY <3>1 DEF Reappraised, Cached
      <4> QED BY <1>1, <2>2, <3>1, <3>2, <4>1
    <3> QED BY <3>2
  <2>4. unscoped \subseteq Ids
    BY DEF IInv, ImportHolds, ImportTyped
  <2> QED BY <2>1, <2>2, <2>3, <2>4, ImportKept DEF Grows
<1>6. CASE StartImport
  <2>1. /\ worker'.filter = tally.filter /\ worker'.todo = Walk(tally.filter, tally.cursor)
        /\ UNCHANGED <<row, fact, lastId, tally, visited, unscoped>>
    BY <1>6 DEF StartImport, Start, NoJob, history
  <2> QED BY <1>1, <2>1, ImportKept
<1>7. CASE StartScrape \/ EndScrape \/ EndImport \/ JobFails \/ Kill
  <2>1. worker'.job # "import"
    BY <1>1, <1>7 DEF StartScrape, Start, EndScrape, EndImport, JobFails, Kill, End, NoJob
  <2>2. UNCHANGED <<row, fact, lastId, tally, visited, unscoped>>
    BY <1>7 DEF StartScrape, Start, EndScrape, EndImport, JobFails, Kill, history
  <2> QED BY <1>1, <2>1, <2>2, ImportKept
<1>8. ASSUME ImportCube \/ RequestDies \/ \E j \in Jobs, f \in Filters : Enqueue(j, f)
      PROVE  ImportHolds'
  <2>1. UNCHANGED <<row, fact, lastId, tally, visited, unscoped>>
    BY <1>8 DEF ImportCube, RequestDies, Enqueue, history
  <2>2. UNCHANGED <<worker.job, worker.todo, worker.filter>>
    BY <1>8 DEF ImportCube, RequestDies, Enqueue, IInv, WorkerTyped
  <2> QED BY <1>1, <2>1, <2>2, ImportKept
<1>9. "scrape" \in Jobs /\ "import" \in Jobs
  BY DEF Jobs
<1> QED BY <1>2, <1>3, <1>4, <1>5, <1>6, <1>7, <1>8, <1>9, DefaultFilterOK
        DEF Next, Trigger, WorkerStep

-----------------------------------------------------------------------------
LEMMA InitInv == Init => IInv
<1> SUFFICES ASSUME Init PROVE IInv
  OBVIOUS
<1>1. /\ row = [k \in Cubes |-> 0] /\ lastId = 0 /\ fact \in [Cubes -> Facts]
      /\ status = [j \in Jobs |-> "INACTIVE"] /\ pageKey = 0
      /\ tally = [cursor |-> 0, counted |-> 0, filter |-> DefaultFilter]
      /\ queue = <<>> /\ worker = NoJob /\ api = NoRequest /\ faults = 0
      /\ visited = {} /\ unscoped = {} /\ dropped = {} /\ orphaned = {}
  BY CataloguesOK DEF Init
<1>2. Cached = {} /\ Len(Pages) \in Nat /\ {} \in SUBSET Cubes
  BY <1>1, PagesOK, LenProperties DEF Cached
<1>3. RowsHold
  <2>1. Cardinality(Cubes) = N
    BY <1>2, CubesFinite
  <2>2. IdsSuffice
    BY <1>1, <1>2, <2>1, NOK, BoundsOK DEF IdsSuffice
  <2> QED BY <1>1, <1>2, <2>2 DEF RowsHold, RowsTyped
<1>4. WorkerTyped /\ worker.job = "none"
  BY <1>1, <1>2, DefaultFilterOK DEF WorkerTyped, NoJob
<1>5. ScrapeHolds
  BY <1>1, <1>2, <1>4 DEF ScrapeHolds, Walked, Jobs
<1>6. ImportHolds
  <2>1. Cardinality({}) = 0
    BY FS_EmptySet
  <2>2. \A f : Candidates(f) = {}
    BY <1>2 DEF Candidates
  <2> QED BY <1>1, <1>4, <2>1, <2>2, DefaultFilterOK
          DEF ImportHolds, ImportTyped, WalkIsCurrent, EachCandidateOnce
<1>7. JobsTyped
  <2>1. queue \in Seq(Jobs) /\ Len(queue) = 0
    BY <1>1
  <2> QED BY <1>1, <2>1, BoundsOK, DefaultFilterOK DEF JobsTyped, NoRequest, Statuses
<1>8. RunningIsOwned
  BY <1>1 DEF RunningIsOwned
<1> QED BY <1>3, <1>4, <1>5, <1>6, <1>7, <1>8 DEF IInv

LEMMA NextInv == IInv /\ [Next]_vars => IInv'
<1> SUFFICES ASSUME IInv, [Next]_vars PROVE IInv'
  OBVIOUS
<1>1. CASE Next
  BY <1>1, RowsNext, WorkerNext, ScrapeNext, ImportNext, JobsNext DEF IInv
<1>2. CASE UNCHANGED vars
  <2>1. UNCHANGED <<row, fact, lastId, status, pageKey, tally, queue, worker, api, faults,
                    visited, unscoped, dropped, orphaned>>
    BY <1>2 DEF vars
  <2>2. Cached' = Cached /\ \A n : Walked(n)' = Walked(n)
    BY <2>1 DEF Cached, Walked
  <2>3. RowsHold' /\ WorkerTyped' /\ JobsTyped' /\ RunningIsOwned'
    BY <2>1, <2>2 DEF IInv, RowsHold, RowsTyped, IdsSuffice, WorkerTyped, JobsTyped,
       RunningIsOwned, InFlight
  <2>4. ScrapeHolds'
    BY <2>1, <2>2 DEF IInv, ScrapeHolds, Walked
  <2>5. ImportHolds'
    <3>1. lastId \in Nat /\ lastId >= lastId /\ unscoped \subseteq Ids
      BY DEF IInv, RowsHold, RowsTyped, ImportHolds, ImportTyped
    <3> QED BY <2>1, <3>1, ImportKept
  <2> QED BY <2>3, <2>4, <2>5 DEF IInv
<1> QED BY <1>1, <1>2

LEMMA Invariant == Spec => []IInv
BY InitInv, NextInv, PTL DEF Spec

-----------------------------------------------------------------------------
(* Ids are unique and suffice, and the import of a cube finds its row: no  *)
(* discovery sync has replaced it since the walk was read.                 *)
THEOREM TypeCorrect == Spec => []TypeOK
<1>1. IInv => TypeOK
  <2> SUFFICES ASSUME IInv PROVE TypeOK
    OBVIOUS
  <2>1. lastId \in 0..MaxId
    <3>1. (Cubes \ Cached) \in SUBSET Cubes
      OBVIOUS
    <3>2. Cardinality(Cubes \ Cached) \in Nat
      BY <3>1, CubesFinite
    <3> QED BY <3>2, BoundsOK DEF IInv, RowsHold, RowsTyped, IdsSuffice
  <2>2. worker.job = "import" => worker.todo \subseteq {row[k] : k \in Cached}
    BY DEF IInv, ImportHolds, WalkIsCurrent, Walk, Candidates
  <2>3. visited \subseteq Ids
    <3>1. 1..tally.cursor \subseteq Ids
      BY <2>1, BoundsOK DEF IInv, ImportHolds, ImportTyped, Ids
    <3> QED BY <3>1 DEF IInv, ImportHolds, ImportTyped
  <2> QED BY <2>1, <2>2, <2>3
          DEF IInv, TypeOK, RowsHold, RowsTyped, WorkerTyped, ScrapeHolds, ImportHolds,
              ImportTyped, JobsTyped
<1> QED BY <1>1, Invariant, PTL

(* The bulk import counts each cube it passes once and passes no candidate *)
(* uncounted, whatever fails, is killed or triggered anew in between: only *)
(* new filters, changed data of a cube or of one it overtook can make a    *)
(* candidate behind the cursor.                                            *)
THEOREM CandidatesOnce == Spec => []EachCandidateOnce
<1>1. IInv => EachCandidateOnce
  BY DEF IInv, ImportHolds
<1> QED BY <1>1, Invariant, PTL

(* A resumed scrape may skip the pages behind its cursor: they are cached, *)
(* but for what a discovery sync has removed.                              *)
THEOREM PagesCached == Spec => []PagesBehindCursorAreCached
<1>1. IInv => PagesBehindCursorAreCached
  BY DEF IInv, ScrapeHolds, Walked, PagesBehindCursorAreCached
<1> QED BY <1>1, Invariant, PTL

(* A job that reads RUNNING is queued or runs, unless it was orphaned.     *)
THEOREM RunningOwned == Spec => []RunningIsOwned
<1>1. IInv => RunningIsOwned
  BY DEF IInv
<1> QED BY <1>1, Invariant, PTL

=============================================================================
