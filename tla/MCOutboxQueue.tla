---------------------------- MODULE MCOutboxQueue ----------------------------
(* Instances of OutboxQueue for TLC. *)
EXTENDS OutboxQueue

(* Every process runs under an id of its own ... *)
OwnIds == [p \in Processes |-> p]

(* ... or every process runs under the same one. *)
SharedId == [p \in Processes |-> CHOOSE w \in WorkerIds : TRUE]
=============================================================================
