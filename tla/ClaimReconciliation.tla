------------------------- MODULE ClaimReconciliation -------------------------
(***************************************************************************)
(* One claim plan of ClaimRail from the moment its batches are broadcast:  *)
(* ClaimRepository (recordSubmission, leasePendingTransaction,             *)
(* deferReconciliation, completeReconciliation), the worker's              *)
(* claim-receipt lane, and the reads of reconcileClaimReceipt against a    *)
(* chain that moves meanwhile.                                             *)
(*                                                                         *)
(* The transaction of completeReconciliation runs at READ COMMITTED: its   *)
(* statements are separate actions, its uncommitted update is visible to   *)
(* itself alone, and the row it updated stays locked until it ends.        *)
(***************************************************************************)
EXTENDS Naturals, FiniteSets

CONSTANTS
    Batches,            \* batches a plan can have
    Legacy,             \* batches recorded without a nonce
    Processes, WorkerIds, WorkerId,
    Deployments,        \* which workers run, and the batches of the plan
    NoBatch, NoOwner    \* null

ASSUME ClaimAssumption ==
    /\ Legacy \subseteq Batches
    /\ IsFiniteSet(Processes)
    /\ Deployments \subseteq [crew : SUBSET Processes, plan : SUBSET Batches]
    /\ WorkerId \in [Processes -> WorkerIds]
    /\ NoOwner \notin WorkerIds /\ NoBatch \notin Batches

VARIABLES
    \* the transaction of each batch on the chain; whether the plan expired;
    \* whether calls have stopped failing and processes dying; the member
    \* of Deployments that this is
    chain, expired, calm, deployment,
    \* claim_transactions, by batch
    status, leaseOwner, leaseExpired, due,
    \* claims.status
    claim,
    \* terminal canonical events (claim.confirmed, ...) and their outbox jobs
    events,
    \* the claim-receipt lane of each process: the batch it leased, what the
    \* chain told it, and the claim status it aggregated
    stage, held, outcome, aggregate

envVars == <<chain, expired, calm, deployment>>
rowVars == <<status, leaseOwner, leaseExpired, due>>
laneVars == <<stage, held, outcome, aggregate>>
vars == <<envVars, rowVars, claim, events, laneVars>>

-----------------------------------------------------------------------------
(* A dropped transaction is unknown to the node, but its nonce is free: it *)
(* may be gossiped again.  A replaced one never comes back.                *)
ChainState == {"none", "pool", "dropped", "replaced", "good", "bad", "reverted"}

Mined == {"good", "bad", "reverted"}

(* getTransaction finds it. *)
Known == Mined \union {"pool"}

(* The mined transaction count of the owner is above its nonce. *)
NonceUsed == Mined \union {"replaced"}

Terminal == {"confirmed", "failed", "superseded"}

TransactionStatus == {"none", "pending"} \union Terminal

ClaimStatus == {"ready", "submitted"} \union Terminal

Stage == {"idle", "receipt", "lookup", "nonce", "settle", "totals", "commit", "defer"}

Init ==
    /\ chain = [b \in Batches |-> "none"]
    /\ expired = FALSE
    /\ calm = FALSE
    /\ deployment \in Deployments
    /\ status = [b \in Batches |-> "none"]
    /\ leaseOwner = [b \in Batches |-> NoOwner]
    /\ leaseExpired = [b \in Batches |-> FALSE]
    /\ due = [b \in Batches |-> TRUE]
    /\ claim = "ready"
    /\ events = {}
    /\ stage = [p \in Processes |-> "idle"]
    /\ held = [p \in Processes |-> NoBatch]
    /\ outcome = [p \in Processes |-> "pending"]
    /\ aggregate = [p \in Processes |-> "ready"]

-----------------------------------------------------------------------------
(* The chain and the owner's wallet.  The same plan may also be submitted  *)
(* after it expired; only its recording is refused then.                   *)
Broadcast(b) ==
    /\ b \in deployment.plan
    /\ chain[b] = "none"
    /\ chain' = [chain EXCEPT ![b] = "pool"]
    /\ UNCHANGED <<expired, calm, deployment, rowVars, claim, events, laneVars>>

ChainMoves(b) ==
    /\ \/ chain[b] \in {"pool", "dropped"}
          /\ \E c \in Mined \union {"replaced"} : chain' = [chain EXCEPT ![b] = c]
       \/ chain[b] = "pool" /\ chain' = [chain EXCEPT ![b] = "dropped"]
       \/ chain[b] = "dropped" /\ chain' = [chain EXCEPT ![b] = "pool"]
    /\ UNCHANGED <<expired, calm, deployment, rowVars, claim, events, laneVars>>

PlanExpires ==
    /\ ~expired
    /\ expired' = TRUE
    /\ UNCHANGED <<chain, calm, deployment, rowVars, claim, events, laneVars>>

Calm ==
    /\ ~calm
    /\ calm' = TRUE
    /\ UNCHANGED <<chain, expired, deployment, rowVars, claim, events, laneVars>>

-----------------------------------------------------------------------------
(* Mutant: an existing batch is accepted and recorded again. *)
RecordSubmissionAgain(b) ==
    /\ chain[b] \in Known
    /\ ~expired
    /\ status' = [status EXCEPT ![b] = IF @ = "none" THEN "pending" ELSE @]
    /\ claim' = "submitted"
    /\ UNCHANGED <<envVars, leaseOwner, leaseExpired, due, events, laneVars>>

(* recordSubmission inserts the batch once, whatever is repeated, and sets *)
(* the claim to submitted.  Its update of the claim keeps that row locked  *)
(* until it commits, so it is one step for everyone else.                  *)
RecordSubmission(b) ==
    /\ chain[b] \in Known
    /\ ~expired
    /\ status[b] = "none"
    /\ status' = [status EXCEPT ![b] = "pending"]
    /\ claim' = "submitted"
    /\ UNCHANGED <<envVars, leaseOwner, leaseExpired, due, events, laneVars>>

-----------------------------------------------------------------------------
(* The row of b is locked by an open transaction of completeReconciliation.*)
Locked(b) == \E q \in Processes : stage[q] \in {"totals", "commit"} /\ held[q] = b

(* Mutant: an expired lease is not taken over. *)
LeasableUnlessLeased(b) == status[b] = "pending" /\ due[b] /\ leaseOwner[b] = NoOwner /\ ~Locked(b)

(* The where clause of leasePendingTransaction, with skip locked. *)
Leasable(b) ==
    /\ status[b] = "pending"
    /\ due[b]
    /\ leaseOwner[b] = NoOwner \/ leaseExpired[b]
    /\ ~Locked(b)

(* The where clause of deferReconciliation and completeReconciliation. *)
Owned(p, b) ==
    /\ status[b] = "pending"
    /\ leaseOwner[b] = WorkerId[p]

ClearLease(b) ==
    /\ leaseOwner' = [leaseOwner EXCEPT ![b] = NoOwner]
    /\ leaseExpired' = [leaseExpired EXCEPT ![b] = FALSE]

GoIdle(p) ==
    /\ stage' = [stage EXCEPT ![p] = "idle"]
    /\ held' = [held EXCEPT ![p] = NoBatch]
    /\ outcome' = [outcome EXCEPT ![p] = "pending"]
    /\ aggregate' = [aggregate EXCEPT ![p] = "ready"]

Goto(p, next) ==
    /\ stage' = [stage EXCEPT ![p] = next]
    /\ UNCHANGED <<held, outcome, aggregate>>

Settle(p, verdict) ==
    /\ stage' = [stage EXCEPT ![p] = "settle"]
    /\ outcome' = [outcome EXCEPT ![p] = verdict]
    /\ UNCHANGED <<held, aggregate>>

LeaseNext(p, b) ==
    /\ p \in deployment.crew
    /\ stage[p] = "idle"
    /\ Leasable(b)
    /\ leaseOwner' = [leaseOwner EXCEPT ![b] = WorkerId[p]]
    /\ leaseExpired' = [leaseExpired EXCEPT ![b] = FALSE]
    /\ stage' = [stage EXCEPT ![p] = "receipt"]
    /\ held' = [held EXCEPT ![p] = b]
    /\ UNCHANGED <<envVars, status, due, claim, events, outcome, aggregate>>

(* The receipt decides at once when there is one: the reads that compare   *)
(* its events, balances and backing with the plan are made at its block.   *)
ReadReceipt(p) ==
    /\ stage[p] = "receipt"
    /\ \/ chain[held[p]] = "good" /\ Settle(p, "confirmed")
       \/ chain[held[p]] \in {"bad", "reverted"} /\ Settle(p, "failed")
       \/ chain[held[p]] \notin Mined /\ held[p] \in Legacy /\ Goto(p, "defer")
       \/ chain[held[p]] \notin Mined /\ held[p] \notin Legacy /\ Goto(p, "lookup")
    /\ UNCHANGED <<envVars, rowVars, claim, events>>

(* getMissingTransactionStatus asks for the transaction ...                *)
LookUp(p) ==
    /\ stage[p] = "lookup"
    /\ Goto(p, IF chain[held[p]] \in Known THEN "defer" ELSE "nonce")
    /\ UNCHANGED <<envVars, rowVars, claim, events>>

(* Mutants: a missing transaction counts as replaced without asking, or a  *)
(* pending result is recorded as if it were a verdict.                     *)
CountNonceSkipped(p) ==
    /\ stage[p] = "nonce"
    /\ Settle(p, "superseded")
    /\ UNCHANGED <<envVars, rowVars, claim, events>>

CountNonceAlwaysSettles(p) ==
    /\ stage[p] = "nonce"
    /\ Settle(p, IF chain[held[p]] \in NonceUsed THEN "superseded" ELSE "pending")
    /\ UNCHANGED <<envVars, rowVars, claim, events>>

(* ... and then for the owner's mined transaction count.                   *)
CountNonce(p) ==
    /\ stage[p] = "nonce"
    /\ IF chain[held[p]] \in NonceUsed THEN Settle(p, "superseded") ELSE Goto(p, "defer")
    /\ UNCHANGED <<envVars, rowVars, claim, events>>

-----------------------------------------------------------------------------
(* Mutant: neither the status nor the owner of the row is compared. *)
SettleRowBlind(p) ==
    /\ stage[p] = "settle"
    /\ ~Locked(held[p])
    /\ Goto(p, "totals")
    /\ UNCHANGED <<envVars, rowVars, claim, events>>

(* The first statement of completeReconciliation settles the row, which    *)
(* nobody else sees yet.  A row that is no longer the worker's makes it    *)
(* return false, and the lane throws into its catch block.                 *)
SettleRow(p) ==
    /\ stage[p] = "settle"
    /\ ~Locked(held[p])
    /\ Goto(p, IF Owned(p, held[p]) THEN "totals" ELSE "defer")
    /\ UNCHANGED <<envVars, rowVars, claim, events>>

(* What a transaction of p sees: committed rows and its own update. *)
View(p) == [status EXCEPT ![held[p]] = outcome[p]]

AggregateOf(rows) ==
    LET statuses == {rows[b] : b \in Batches} \ {"none"}
    IN  IF "failed" \in statuses THEN "failed"
        ELSE IF "superseded" \in statuses THEN "superseded"
        ELSE IF "pending" \in statuses THEN "submitted"
        ELSE "confirmed"

(* Mutant: the event is inserted outside the transaction. *)
ReadTotalsAnnouncing(p) ==
    /\ stage[p] = "totals"
    /\ stage' = [stage EXCEPT ![p] = "commit"]
    /\ aggregate' = [aggregate EXCEPT ![p] = AggregateOf(View(p))]
    /\ events' = events \union {<<held[p], outcome[p]>>}
    /\ UNCHANGED <<envVars, rowVars, claim, held, outcome>>

(* Mutant: the rows are counted without the update of the transaction.     *)
ReadTotalsBefore(p) ==
    /\ stage[p] = "totals"
    /\ stage' = [stage EXCEPT ![p] = "commit"]
    /\ aggregate' = [aggregate EXCEPT ![p] = AggregateOf(status)]
    /\ UNCHANGED <<envVars, rowVars, claim, events, held, outcome>>

(* The second statement counts the rows of the claim by status.            *)
ReadTotals(p) ==
    /\ stage[p] = "totals"
    /\ stage' = [stage EXCEPT ![p] = "commit"]
    /\ aggregate' = [aggregate EXCEPT ![p] = AggregateOf(View(p))]
    /\ UNCHANGED <<envVars, rowVars, claim, events, held, outcome>>

(* The last ones write the claim, whose row stays locked from here to the  *)
(* commit, and the terminal event with its outbox job.                     *)
Commit(p) ==
    /\ stage[p] = "commit"
    /\ status' = View(p)
    /\ ClearLease(held[p])
    /\ claim' = aggregate[p]
    /\ events' = events \union {<<held[p], outcome[p]>>}
    /\ GoIdle(p) \/ Goto(p, "defer")
    /\ UNCHANGED <<envVars, due>>

(* The node or the database fails a call inside the try block, and the     *)
(* catch block defers; an open transaction rolls back.                     *)
CallFails(p) ==
    /\ stage[p] \notin {"idle", "defer"}
    /\ Goto(p, "defer")
    /\ UNCHANGED <<envVars, rowVars, claim, events>>

(* deferReconciliation, for a pending result and in the catch block.       *)
Defer(p) ==
    /\ stage[p] = "defer"
    /\ ~Locked(held[p])
    /\ IF Owned(p, held[p])
       THEN ClearLease(held[p]) /\ due' = [due EXCEPT ![held[p]] = FALSE]
       ELSE UNCHANGED <<leaseOwner, leaseExpired, due>>
    /\ GoIdle(p)
    /\ UNCHANGED <<envVars, status, claim, events>>

(* The process dies, or the database fails a call outside the try block.   *)
Crash(p) ==
    /\ stage[p] # "idle"
    /\ GoIdle(p)
    /\ UNCHANGED <<envVars, rowVars, claim, events>>

LeaseExpires(b) ==
    /\ leaseOwner[b] # NoOwner /\ ~leaseExpired[b]
    /\ leaseExpired' = [leaseExpired EXCEPT ![b] = TRUE]
    /\ UNCHANGED <<envVars, status, leaseOwner, due, claim, events, laneVars>>

DelayElapses(b) ==
    /\ ~due[b]
    /\ due' = [due EXCEPT ![b] = TRUE]
    /\ UNCHANGED <<envVars, status, leaseOwner, leaseExpired, claim, events, laneVars>>

-----------------------------------------------------------------------------
Work(p) ==
    \/ \E b \in Batches : LeaseNext(p, b)
    \/ ReadReceipt(p) \/ LookUp(p) \/ CountNonce(p)
    \/ SettleRow(p) \/ ReadTotals(p) \/ Commit(p) \/ Defer(p)

Fault(p) == ~calm /\ (CallFails(p) \/ Crash(p))

Time(b) == LeaseExpires(b) \/ DelayElapses(b)

Next ==
    \/ \E p \in Processes : Work(p) \/ Fault(p)
    \/ \E b \in Batches : Broadcast(b) \/ ChainMoves(b) \/ RecordSubmission(b) \/ Time(b)
    \/ PlanExpires \/ Calm

Spec == Init /\ [][Next]_vars

(* The runtime polls for ever, every call it awaits returns, clocks move,  *)
(* and the row whose next attempt is oldest is leased first, so that each  *)
(* one gets its turn.                                                      *)
Fairness ==
    /\ \A p \in Processes : WF_vars(Work(p))
    /\ \A b \in Batches : WF_vars(Time(b))
    /\ \A b \in Batches : SF_vars(\E p \in Processes : LeaseNext(p, b))

FairSpec == Spec /\ Fairness

-----------------------------------------------------------------------------
TypeOK ==
    /\ chain \in [Batches -> ChainState]
    /\ expired \in BOOLEAN /\ calm \in BOOLEAN
    /\ deployment \in Deployments
    /\ status \in [Batches -> TransactionStatus]
    /\ leaseOwner \in [Batches -> WorkerIds \union {NoOwner}]
    /\ leaseExpired \in [Batches -> BOOLEAN]
    /\ due \in [Batches -> BOOLEAN]
    /\ claim \in ClaimStatus
    /\ events \in SUBSET (Batches \X Terminal)
    /\ stage \in [Processes -> Stage]
    /\ held \in [Processes -> Batches \union {NoBatch}]
    /\ outcome \in [Processes -> {"pending"} \union Terminal]
    /\ aggregate \in [Processes -> ClaimStatus]
    /\ \A p \in Processes : stage[p] # "idle" => held[p] \in Batches

(* A batch is announced exactly once, with the verdict its row carries:    *)
(* reconciling it twice, or losing the acknowledgement of the commit, adds *)
(* no second or contradicting claim event.                                 *)
OneTerminalEvent ==
    \A b \in Batches :
        {e \in events : e[1] = b} = IF status[b] \in Terminal THEN {<<b, status[b]>>} ELSE {}

(* The verdict is what the chain says for good: a batch is confirmed only  *)
(* when its own transaction was mined with matching evidence, failed only  *)
(* when it was mined without, and superseded only when its nonce was used. *)
VerdictMatchesChain ==
    \A b \in Batches :
        /\ status[b] = "confirmed" => chain[b] = "good"
        /\ status[b] = "failed" => chain[b] \in {"bad", "reverted"}
        /\ status[b] = "superseded" => chain[b] \in NonceUsed

(* A settled batch is never reopened nor given another verdict.            *)
VerdictIsFinal ==
    [][\A b \in Batches : status[b] \in Terminal => status'[b] = status[b]]_vars

(* No transaction of completeReconciliation is open. *)
Quiet == \A p \in Processes : stage[p] \notin {"totals", "commit"}

(* "Atomic aggregate completion": between transactions, and once no batch  *)
(* is pending, the status of the claim is the aggregate of its batches.    *)
ClaimIsAggregate ==
    Quiet /\ (\A b \in Batches : status[b] # "pending") /\ (\E b \in Batches : status[b] # "none")
        => claim = AggregateOf(status)

OneWorker == Cardinality(deployment.crew) = 1

(* "Atomic aggregate completion", where a single worker runs: the last     *)
(* batch settled leaves the claim with the aggregate of all of them, also  *)
(* when a commit was taken for a failure and the batch was deferred.       *)
OneWorkerAggregates == OneWorker => ClaimIsAggregate

(* "The owner mined a different transaction with this nonce": the reason   *)
(* recorded with every superseded batch.                                   *)
SupersededWasReplaced ==
    \A b \in Batches : status[b] = "superseded" => chain[b] = "replaced"

(* The nonce of b is used, and the worker has what it takes to see it: a   *)
(* replaced legacy batch has no nonce and stays pending on purpose.        *)
Decided(b) == chain[b] \in Mined \/ (chain[b] = "replaced" /\ b \notin Legacy)

(* When calls stop failing and the worker stops dying, every recorded      *)
(* batch the chain has decided is eventually settled, whatever leases the  *)
(* failures left behind.                                                   *)
RecordedIsSettled ==
    <>calm /\ OneWorker => \A b \in Batches : status[b] = "pending" /\ Decided(b) ~> status[b] \in Terminal

-----------------------------------------------------------------------------
(* A transaction the node has forgotten may still be mined. *)
Fate(c) ==
    IF c = "none" THEN "unsent"
    ELSE IF c \in {"pool", "dropped"} THEN "sent"
    ELSE IF c = "good" THEN "redeemed"
    ELSE IF c = "replaced" THEN "replaced" ELSE "rejected"

Ledger == INSTANCE ClaimLedger WITH
    fate <- [b \in Batches |-> Fate(chain[b])],
    entry <- status, announced <- events

(* The repository and its workers are a ledger: whatever they read one by  *)
(* one, repeat, defer or lose, a batch goes from pending to its verdict    *)
(* and to its event in one step, which the chain bears out, and what a     *)
(* claim says rests on rows as they are or were before.                    *)
ImplementsClaimLedger == Ledger!Spec
=============================================================================
