------------------------ MODULE MCClaimReconciliation ------------------------
(* Instances of ClaimReconciliation for TLC. *)
EXTENDS ClaimReconciliation

(* Every process runs under an id of its own, or all under the same one. *)
OwnIds == [p \in Processes |-> p]

SharedId == [p \in Processes |-> CHOOSE w \in WorkerIds : TRUE]

(* All workers reconcile all batches ... *)
Everything == {[crew |-> Processes, plan |-> Batches]}

(* ... or all of them meet over one batch, or one reconciles all of them.  *)
OneOrTheOther ==
    {[crew |-> Processes, plan |-> {b}] : b \in Batches}
        \union {[crew |-> {p}, plan |-> Batches] : p \in Processes}
=============================================================================
