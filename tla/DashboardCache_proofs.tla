----------------------- MODULE DashboardCache_proofs -----------------------
(***************************************************************************)
(* Proofs about DashboardCache, for any number of threads.                 *)
(*                                                                         *)
(* The invariant that carries everything is OneRefresh: because _refreshing*)
(* is set and reset under the lock, a thread that holds a summary is the   *)
(* only one, so the summary it stores is no older than the one it replaces *)
(* (Ordered).  Outcomes says what a thread that is about to set the event  *)
(* has already done under the lock.                                        *)
(***************************************************************************)
EXTENDS DashboardCache, TLAPS

(* A summary in hand is as recent as the cached one, both come from the    *)
(* database.                                                               *)
Ordered ==
    /\ cached # None => cached <= data
    /\ \A t \in Threads :
          pc[t] = "computed" =>
              /\ summary[t] <= data
              /\ cached # None => cached <= summary[t]

(* The lock comes before the event: a result is stored, or a failure       *)
(* recorded, by the time the waiters are woken.                            *)
Outcomes ==
    \A t \in Threads : /\ pc[t] = "stored" => cached # None
                       /\ pc[t] = "raised" => failed

IInv ==
    /\ TypeOK /\ OneRefresh /\ NoLostWakeup /\ WokenToResult
    /\ Ordered /\ Outcomes

(* The versions are naturals, and None is none of them. *)
LEMMA VersionsAreNat == Versions \subseteq Nat /\ None \notin Versions
BY DataOK DEF Versions

(* The state the module starts in. *)
LEMMA InitInv == Init => IInv
<1> SUFFICES ASSUME Init PROVE IInv
  OBVIOUS
<1>1. TypeOK
  <2>1. 0 \in Versions
    BY DataOK DEF Versions
  <2>2. pc \in [Threads -> Places]
    BY DEF Init, Places
  <2>3. \A t \in Threads : pc[t] # "computed"
    BY DEF Init
  <2> QED
    BY <2>1, <2>2, <2>3 DEF Init, TypeOK
<1>2. Busy = {} /\ Waking = {}
  BY DEF Init, Busy, Waking
<1>3. OneRefresh /\ NoLostWakeup
  BY <1>2 DEF Init, OneRefresh, NoLostWakeup, Threads
<1>4. WokenToResult /\ Ordered /\ Outcomes
  BY DEF Init, WokenToResult, Ordered, Outcomes
<1> QED
  BY <1>1, <1>3, <1>4 DEF IInv

(* Which threads are busy, told by their places. *)
LEMMA BusyPlaces ==
    /\ \A t \in Threads : t \in Busy <=> pc[t] \in {"start", "compute", "computed"}
    /\ \A t \in Threads : t \in Busy' <=> pc'[t] \in {"start", "compute", "computed"}
    /\ Busy \subseteq Threads /\ Busy' \subseteq Threads
BY DEF Busy

(* Every step preserves the invariant: one lemma per part. *)
LEMMA TypeStep ==
    ASSUME TypeOK, [Next]_vars
    PROVE  TypeOK'
<1> USE VersionsAreNat
<1>1. ASSUME NEW c \in Callers, Enter(c) PROVE TypeOK'
  BY <1>1 DEF TypeOK, Enter, Goto, Places, Threads
<1>2. ASSUME NEW c \in Callers, Start(c) PROVE TypeOK'
  <2>1. pc' \in [Threads -> Places]
    BY <1>2 DEF TypeOK, Start, Goto, Places, Threads
  <2>2. \A t \in Threads : pc'[t] = "computed" => pc[t] = "computed"
    BY <1>2 DEF TypeOK, Start, Goto, Threads
  <2> QED
    BY <1>2, <2>1, <2>2 DEF TypeOK, Start
<1>3. ASSUME NEW c \in Callers, Woken(c) \/ Answer(c) PROVE TypeOK'
  BY <1>3 DEF TypeOK, Woken, Answer, Goto, Places, Threads
<1>4. ASSUME NEW t \in Threads, Compute(t) PROVE TypeOK'
  BY <1>4 DEF TypeOK, Compute, Goto, Places
<1>5. ASSUME NEW t \in Threads, Store(t) PROVE TypeOK'
  BY <1>5 DEF TypeOK, Store, Goto, Places
<1>6. ASSUME NEW t \in Threads, Raise(t) PROVE TypeOK'
  BY <1>6 DEF TypeOK, Raise, Goto, Places
<1>7. ASSUME NEW t \in Threads, SetEvent(t) PROVE TypeOK'
  BY <1>7 DEF TypeOK, SetEvent, Goto, Places
<1>8. CASE DataChanges
  BY <1>8, DataOK DEF TypeOK, DataChanges, Versions
<1>9. CASE Expire
  BY <1>9 DEF TypeOK, Expire
<1>10. CASE UNCHANGED vars
  BY <1>10 DEF TypeOK, vars
<1> QED
  BY <1>1, <1>2, <1>3, <1>4, <1>5, <1>6, <1>7, <1>8, <1>9, <1>10
     DEF Next, Serve, Refresh

(* Only a thread that finds nobody busy becomes busy; it hands over to at  *)
(* most one other.                                                         *)
LEMMA OneRefreshStep ==
    ASSUME TypeOK, OneRefresh, [Next]_vars
    PROVE  OneRefresh'
<1> USE BusyPlaces DEF OneRefresh
<1>1. ASSUME NEW c \in Callers, Enter(c) PROVE OneRefresh'
  <2>1. CASE MayStart
    <3>1. Busy = {}
      BY <2>1 DEF MayStart
    <3>2. Busy' = {c} /\ refreshing' = TRUE
      BY <1>1, <2>1, <3>1 DEF TypeOK, Enter, Goto, Threads
    <3> QED
      BY <3>2
  <2>2. CASE ~MayStart
    BY <1>1, <2>2 DEF TypeOK, Enter, Goto, Threads
  <2> QED
    BY <2>1, <2>2
<1>2. ASSUME NEW c \in Callers, Start(c) PROVE OneRefresh'
  <2>1. Busy = {c} /\ refreshing' = refreshing
    BY <1>2 DEF Start, Threads
  <2>2. \E t \in Threads : Busy' = {t}
    BY <1>2, <2>1, ThreadsOK DEF TypeOK, Start, Goto, Threads
  <2> QED
    BY <2>1, <2>2
<1>3. ASSUME NEW c \in Callers, Woken(c) \/ Answer(c) PROVE OneRefresh'
  BY <1>3 DEF TypeOK, Woken, Answer, Goto, Threads
<1>4. ASSUME NEW t \in Threads, Compute(t) PROVE OneRefresh'
  BY <1>4 DEF TypeOK, Compute, Goto
<1>5. ASSUME NEW t \in Threads, Store(t) PROVE OneRefresh'
  <2>1. Busy = {t}
    BY <1>5 DEF Store
  <2> QED
    BY <1>5, <2>1 DEF TypeOK, Store, Goto
<1>6. ASSUME NEW t \in Threads, Raise(t) PROVE OneRefresh'
  <2>1. Busy = {t}
    BY <1>6 DEF Raise
  <2> QED
    BY <1>6, <2>1 DEF TypeOK, Raise, Goto
<1>7. ASSUME NEW t \in Threads, SetEvent(t) PROVE OneRefresh'
  BY <1>7 DEF TypeOK, SetEvent, Goto
<1>8. CASE DataChanges \/ Expire \/ UNCHANGED vars
  BY <1>8 DEF DataChanges, Expire, vars
<1> QED
  BY <1>1, <1>2, <1>3, <1>4, <1>5, <1>6, <1>7, <1>8 DEF Next, Serve, Refresh

(* Whoever starts to wait does so because somebody is busy, and who is no  *)
(* longer busy sets the event next.                                        *)
LEMMA WakeupStep ==
    ASSUME TypeOK, OneRefresh, OneRefresh', NoLostWakeup, [Next]_vars
    PROVE  NoLostWakeup'
<1> USE BusyPlaces DEF NoLostWakeup
<1>1. ASSUME NEW c \in Callers, Enter(c) PROVE NoLostWakeup'
  <2>1. CASE MayStart
    BY <1>1, <2>1 DEF OneRefresh, Enter
  <2>2. CASE ~MayStart /\ cached = None
    BY <1>1, <2>2 DEF OneRefresh, Enter, MayStart, IsStale
  <2>3. CASE ~MayStart /\ cached # None
    <3>1. \A d \in Callers : pc'[d] = "wait" => pc[d] = "wait"
      BY <1>1, <2>3 DEF TypeOK, Enter, Goto, Threads
    <3>2. Busy \subseteq Busy' /\ Waking \subseteq Waking' /\ event' = event
      BY <1>1, <2>3 DEF TypeOK, Enter, Goto, Threads, Waking
    <3> QED
      BY <3>1, <3>2
  <2> QED
    BY <2>1, <2>2, <2>3
<1>2. ASSUME NEW c \in Callers, Start(c) PROVE NoLostWakeup'
  <2>1. Busy # {} /\ refreshing' = refreshing
    BY <1>2 DEF Start, Threads
  <2> QED
    BY <2>1 DEF OneRefresh
<1>3. ASSUME NEW c \in Callers, Woken(c) \/ Answer(c) PROVE NoLostWakeup'
  <2>1. \A d \in Callers : pc'[d] = "wait" => pc[d] = "wait"
    BY <1>3 DEF TypeOK, Woken, Answer, Goto, Threads
  <2>2. Busy \subseteq Busy' /\ Waking \subseteq Waking' /\ event' = event
    BY <1>3 DEF TypeOK, Woken, Answer, Goto, Threads, Waking
  <2> QED
    BY <2>1, <2>2
<1>4. ASSUME NEW t \in Threads, Compute(t) PROVE NoLostWakeup'
  BY <1>4 DEF TypeOK, Compute, Goto
<1>5. ASSUME NEW t \in Threads, Store(t) \/ Raise(t) PROVE NoLostWakeup'
  <2>1. t \in Waking'
    BY <1>5 DEF TypeOK, Store, Raise, Goto, Waking
  <2> QED
    BY <2>1
<1>6. ASSUME NEW t \in Threads, SetEvent(t) PROVE NoLostWakeup'
  BY <1>6 DEF SetEvent
<1>7. CASE DataChanges \/ Expire \/ UNCHANGED vars
  BY <1>7 DEF DataChanges, Expire, vars, Waking
<1> QED
  BY <1>1, <1>2, <1>3, <1>4, <1>5, <1>6, <1>7 DEF Next, Serve, Refresh

(* What was stored stays stored, a failure stays recorded, and the event   *)
(* is set only after one of the two.                                       *)
LEMMA OutcomesStep ==
    ASSUME TypeOK, Outcomes, WokenToResult, [Next]_vars
    PROVE  Outcomes' /\ WokenToResult'
<1> USE VersionsAreNat DEF Outcomes, WokenToResult
<1>1. ASSUME NEW t \in Threads, Store(t) PROVE Outcomes' /\ WokenToResult'
  <2>1. cached' # None
    BY <1>1 DEF TypeOK, Store
  <2>2. \A u \in Threads : pc'[u] = "raised" => pc[u] = "raised"
    BY <1>1 DEF TypeOK, Store, Goto
  <2> QED
    BY <1>1, <2>1, <2>2 DEF Store
<1>2. ASSUME NEW t \in Threads, Raise(t) PROVE Outcomes' /\ WokenToResult'
  BY <1>2 DEF TypeOK, Raise, Goto
<1>3. ASSUME NEW t \in Threads, SetEvent(t) PROVE Outcomes' /\ WokenToResult'
  BY <1>3 DEF TypeOK, SetEvent, Goto
<1>4. ASSUME NEW c \in Callers, Enter(c) \/ Serve(c)
      PROVE  Outcomes' /\ WokenToResult'
  <2>1. \A u \in Threads : pc'[u] \in {"stored", "raised"} => pc'[u] = pc[u]
    BY <1>4 DEF TypeOK, Enter, Serve, Start, Woken, Answer, Goto, Threads
  <2>2. UNCHANGED <<cached, event, failed>>
    BY <1>4 DEF Enter, Serve, Start, Woken, Answer
  <2> QED
    BY <2>1, <2>2
<1>5. ASSUME NEW t \in Threads, Compute(t) PROVE Outcomes' /\ WokenToResult'
  BY <1>5 DEF TypeOK, Compute, Goto
<1>6. CASE DataChanges \/ Expire \/ UNCHANGED vars
  BY <1>6 DEF DataChanges, Expire, vars
<1> QED
  BY <1>1, <1>2, <1>3, <1>4, <1>5, <1>6 DEF Next, Refresh

(* A computation reads the database after the cached summary was stored,   *)
(* and no other thread stores one before it is done.                       *)
LEMMA OrderedStep ==
    ASSUME TypeOK, OneRefresh, Ordered, [Next]_vars
    PROVE  Ordered'
<1> USE VersionsAreNat DEF Ordered
<1>1. ASSUME NEW t \in Threads, Compute(t) PROVE Ordered'
  <2>1. summary'[t] = data /\ \A u \in Threads \ {t} : summary'[u] = summary[u]
    BY <1>1 DEF TypeOK, Compute
  <2>2. \A u \in Threads \ {t} : pc'[u] = pc[u]
    BY <1>1 DEF TypeOK, Compute, Goto
  <2>3. UNCHANGED <<cached, data>>
    BY <1>1 DEF Compute
  <2> QED
    BY <2>1, <2>2, <2>3 DEF TypeOK
<1>2. ASSUME NEW t \in Threads, Store(t) PROVE Ordered'
  <2>1. \A u \in Threads : pc'[u] # "computed"
    BY <1>2 DEF TypeOK, OneRefresh, Busy, Store, Goto
  <2>2. cached' = summary[t] /\ data' = data /\ summary[t] <= data
    BY <1>2 DEF Store
  <2> QED
    BY <2>1, <2>2
<1>3. ASSUME NEW t \in Threads, Raise(t) \/ SetEvent(t) PROVE Ordered'
  BY <1>3 DEF TypeOK, Raise, SetEvent, Goto
<1>4. ASSUME NEW c \in Callers, Enter(c) \/ Serve(c) PROVE Ordered'
  <2>1. \A u \in Threads : pc'[u] = "computed" => pc[u] = "computed"
    BY <1>4 DEF TypeOK, Enter, Serve, Start, Woken, Answer, Goto, Threads
  <2>2. UNCHANGED <<cached, data, summary>>
    BY <1>4 DEF Enter, Serve, Start, Woken, Answer
  <2> QED
    BY <2>1, <2>2
<1>5. CASE DataChanges
  <2>1. \A v \in Versions : v <= data => v <= data'
    BY <1>5 DEF DataChanges, TypeOK
  <2> QED
    BY <1>5, <2>1 DEF DataChanges, TypeOK
<1>6. CASE Expire \/ UNCHANGED vars
  BY <1>6 DEF Expire, vars
<1> QED
  BY <1>1, <1>2, <1>3, <1>4, <1>5, <1>6 DEF Next, Refresh

-----------------------------------------------------------------------------
(* The invariant is inductive, hence holds in every reachable state. *)
THEOREM Invariant == Spec => []IInv
<1>1. IInv /\ [Next]_vars => IInv'
  BY TypeStep, OneRefreshStep, WakeupStep, OutcomesStep, OrderedStep DEF IInv
<1> QED
  BY InitInv, <1>1, PTL DEF Spec

(* Every state of the cache is well typed, and a thread past the queries   *)
(* has their result.                                                       *)
THEOREM TypeCorrect == Spec => []TypeOK
BY Invariant, PTL DEF IInv

(* At most one thread runs the expensive queries, and _refreshing tells    *)
(* whether one does.                                                       *)
THEOREM OneRefreshCorrect == Spec => []OneRefresh
BY Invariant, PTL DEF IInv

(* A request that waits for the first computation is never forgotten.      *)
THEOREM WakeupCorrect == Spec => []NoLostWakeup
BY Invariant, PTL DEF IInv

(* A request that was woken finds a summary unless a computation failed.   *)
THEOREM WokenCorrect == Spec => []WokenToResult
BY Invariant, PTL DEF IInv

(* The cached summary is only ever replaced by one at least as recent.     *)
THEOREM NeverOlderCorrect == Spec => NeverOlder
<1> DEFINE Kept == cached # None => cached' # None /\ cached <= cached'
<1>1. IInv /\ [Next]_vars => [Kept]_vars
  <2> SUFFICES ASSUME IInv, [Next]_vars PROVE Kept \/ UNCHANGED vars
    OBVIOUS
  <2>1. ASSUME NEW t \in Threads, Store(t) PROVE Kept
    BY <2>1, VersionsAreNat DEF IInv, TypeOK, Ordered, Store
  <2>2. CASE UNCHANGED cached
    BY <2>2, VersionsAreNat DEF IInv, TypeOK
  <2>3. CASE Next
    <3>1. CASE \E c \in Callers : Enter(c) \/ Serve(c)
      BY <2>2, <3>1 DEF Enter, Serve, Start, Woken, Answer
    <3>2. CASE \E t \in Threads : Compute(t) \/ Raise(t) \/ SetEvent(t)
      BY <2>2, <3>2 DEF Compute, Raise, SetEvent
    <3>3. CASE DataChanges \/ Expire
      BY <2>2, <3>3 DEF DataChanges, Expire
    <3> QED
      BY <2>1, <2>3, <3>1, <3>2, <3>3 DEF Next, Refresh
  <2> QED
    BY <2>3
<1> QED
  BY Invariant, <1>1, PTL DEF Spec, NeverOlder
=============================================================================
