------------------------------- MODULE MCSync -------------------------------
(***************************************************************************)
(* Instances of SyncJob for TLC: a choice of the six syncs of SyncKinds,   *)
(* with the queues, sources and failure rules the code gives them.         *)
(***************************************************************************)
EXTENDS SyncJob, SyncKinds, TLC

CONSTANTS api1, api2, tick, boot        \* callers

MCPerSource == {s \in Syncs : KindOf[s].perSource}
MCRejectsEmpty == {s \in Syncs : KindOf[s].rejectsEmpty}
MCPeriodicSyncs == {s \in Syncs : KindOf[s].periodic}
MCAutoSyncs == {s \in Syncs : KindOf[s].auto}
MCSourcesOf == [s \in Syncs |-> KindOf[s].sources]
MCQueueOf == [s \in Syncs |-> KindOf[s].queue]

Symmetry == Permutations({api1, api2})
=============================================================================
