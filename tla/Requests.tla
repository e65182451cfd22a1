------------------------------ MODULE Requests ------------------------------
(***************************************************************************)
(* API requests as transactions.  Every request has a database session of  *)
(* its own; what it has read stays as it was when it was read, what it     *)
(* writes appears with its one commit, and between its statements other    *)
(* requests commit (READ COMMITTED, no autoflush, no row locks taken by    *)
(* the reads).  An update of a row that is gone, or a unique key that is   *)
(* taken, fails the request, and nothing of it is written.                 *)
(***************************************************************************)
EXTENDS FiniteSets, Integers

CONSTANTS
    Requests,  \* handlers that can run at the same time
    None

ASSUME RequestsAssumption == IsFiniteSet(Requests) /\ None \notin Nat /\ None \notin BOOLEAN

VARIABLE request  \* what each has read and is about to write

Idle == [op |-> "idle"]

Begin(r, what) == request[r] = Idle /\ request' = [request EXCEPT ![r] = what]

Runs(r, op, phase) == request[r] # Idle /\ request[r].op = op /\ request[r].phase = phase

Proceed(r, what) == request' = [request EXCEPT ![r] = what]

End(r) == request' = [request EXCEPT ![r] = Idle]

=============================================================================
