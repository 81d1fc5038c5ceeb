---------------------------- MODULE MCWorkerCycle ----------------------------
(* Instances of WorkerCycle for TLC. *)
EXTENDS WorkerCycle

CONSTANTS p1, p2, s1, s2, e1, e2

(* One process has no transport for the second subscription. *)
Transports == [p \in Processes |-> IF p = p1 THEN Subscriptions ELSE {s1}]

(* The second event is of a type only one of the subscriptions asks for.   *)
Types == [e \in Events |-> IF e = e1 THEN Subscriptions ELSE {s2}]
=============================================================================
