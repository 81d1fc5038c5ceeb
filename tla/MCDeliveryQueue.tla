--------------------------- MODULE MCDeliveryQueue ---------------------------
(* Instances of DeliveryQueue for TLC. *)
EXTENDS DeliveryQueue

(* Every process runs under the same id: the attempt numbers alone keep    *)
(* their reports apart.                                                    *)
SharedId == [p \in Processes |-> CHOOSE w \in WorkerIds : TRUE]

OwnIds == [p \in Processes |-> p]

(* The delivery goes to a revocable subscription and carries the event. A  *)
(* second subscription stands by: whatever happens to the first one's      *)
(* delivery, it is not to be touched.                                      *)
FirstSubscription == [d \in Deliveries |-> CHOOSE s \in Revocable : TRUE]

OneEvent == [d \in Deliveries |-> CHOOSE e \in Events : TRUE]
=============================================================================
