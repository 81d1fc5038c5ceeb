---------------------------- MODULE BoundedRetry ----------------------------
(***************************************************************************)
(* What the two queues of ClaimRail, outbox_jobs and deliveries, promise   *)
(* alike: every item is worked on in a bounded number of tries, it is done *)
(* only after its effect took place, and it is given up only when its      *)
(* tries are spent or the other side refused it for good.  Leases, worker  *)
(* ids, attempt numbers and late reports are the queues' own business.     *)
(***************************************************************************)
EXTENDS Naturals

CONSTANTS
    Items,
    Refusable,      \* items the other side may refuse for good
    Replayable      \* items their owner may bring back from the dead

VARIABLES
    state,          \* where each item is
    left,           \* the tries it has left
    tried,          \* the items that were started at least once
    performed       \* the items whose effect took place

vars == <<state, left, tried, performed>>

Init ==
    /\ state \in [Items -> {"absent", "waiting"}]
    /\ left \in [Items -> Nat]
    /\ tried = {}
    /\ performed = {}

Move(i, to) == state' = [state EXCEPT ![i] = to]

(* Items arrive, several in one transaction. *)
Add(arriving) ==
    /\ \A i \in arriving : state[i] = "absent"
    /\ state' = [i \in Items |-> IF i \in arriving THEN "waiting" ELSE state[i]]
    /\ UNCHANGED <<left, tried, performed>>

(* A try begins: of an item that waits, or of one whose try was abandoned. *)
Start(i) ==
    /\ state[i] \in {"waiting", "working"}
    /\ left[i] > 0
    /\ Move(i, "working")
    /\ left' = [left EXCEPT ![i] = @ - 1]
    /\ tried' = tried \union {i}
    /\ UNCHANGED performed

(* The effect takes place, maybe late and maybe again: whoever was once    *)
(* given the item may still be at it.                                      *)
Perform(i) ==
    /\ i \in tried
    /\ performed' = performed \union {i}
    /\ UNCHANGED <<state, left, tried>>

Finish(i) ==
    /\ state[i] = "working" /\ i \in performed
    /\ Move(i, "done")
    /\ UNCHANGED <<left, tried, performed>>

Retry(i) ==
    /\ state[i] = "working" /\ left[i] > 0
    /\ Move(i, "waiting")
    /\ UNCHANGED <<left, tried, performed>>

GiveUp(i) ==
    /\ state[i] = "working"
    /\ left[i] = 0 \/ i \in Refusable
    /\ Move(i, "dead")
    /\ UNCHANGED <<left, tried, performed>>

(* The owner asks for further tries; how many are left is not promised.    *)
Requeue(i) ==
    /\ i \in Replayable
    /\ state[i] = "dead"
    /\ Move(i, "waiting")
    /\ left'[i] \in Nat
    /\ left' = [left EXCEPT ![i] = left'[i]]
    /\ UNCHANGED <<tried, performed>>

Next ==
    \/ \E arriving \in SUBSET Items : Add(arriving)
    \/ \E i \in Items :
          Start(i) \/ Perform(i) \/ Finish(i) \/ Retry(i) \/ GiveUp(i) \/ Requeue(i)

Spec == Init /\ [][Next]_vars
=============================================================================
