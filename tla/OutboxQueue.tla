----------------------------- MODULE OutboxQueue -----------------------------
(***************************************************************************)
(* The transactional outbox of ClaimRail and the half of the worker's      *)
(* delivery-dispatch lane that drains it: OutboxJobRepository (leaseNext,  *)
(* complete, fail) as the lane calls it around materializeEvent.           *)
(*                                                                         *)
(* Every statement that reaches PostgreSQL is one action, so the steps of  *)
(* several worker processes interleave between the statements of one       *)
(* lane.  Clocks are abstract: a lease has expired, or a backoff has       *)
(* elapsed, when an action of the environment says so.                     *)
(***************************************************************************)
EXTENDS Naturals

CONSTANTS
    Jobs,           \* rows of outbox_jobs
    Processes,      \* running worker processes
    WorkerIds,      \* values of CLAIMRAIL_WORKER_ID
    WorkerId,       \* the id each process runs under
    MaxAttempts,    \* outbox_jobs.max_attempts
    NoJob, NoOwner  \* null

ASSUME OutboxAssumption ==
    /\ MaxAttempts \in Nat \ {0}
    /\ WorkerId \in [Processes -> WorkerIds]
    /\ NoOwner \notin WorkerIds
    /\ NoJob \notin Jobs

(* Each process has an id of its own.  config.ts takes the id from the     *)
(* environment and falls back on claimrail-<pid>, which containers that    *)
(* share no pid namespace do not keep distinct.                            *)
DistinctWorkerIds == \A p, q \in Processes : WorkerId[p] = WorkerId[q] => p = q

VARIABLES
    \* the columns of outbox_jobs
    status, attempts, leaseOwner, leaseExpired, available,
    \* the lane of each process: where it is, the job it leased, and the
    \* verdict it read in fail()
    stage, held, verdict,
    \* jobs whose event materializeEvent has committed at least once
    routed

rowVars == <<status, attempts, leaseOwner, leaseExpired, available>>
laneVars == <<stage, held, verdict>>
vars == <<rowVars, laneVars, routed>>

-----------------------------------------------------------------------------
JobStatus == {"pending", "leased", "completed", "dead"}

Stage == {"idle", "materialize", "complete", "fail", "failWrite"}

Init ==
    /\ status = [j \in Jobs |-> "pending"]
    /\ attempts = [j \in Jobs |-> 0]
    /\ leaseOwner = [j \in Jobs |-> NoOwner]
    /\ leaseExpired = [j \in Jobs |-> FALSE]
    /\ available = [j \in Jobs |-> TRUE]
    /\ stage = [p \in Processes |-> "idle"]
    /\ held = [p \in Processes |-> NoJob]
    /\ verdict = [p \in Processes |-> FALSE]
    /\ routed = {}

-----------------------------------------------------------------------------
(* Mutants: the budget is not compared, or an expired lease is not taken   *)
(* over.                                                                   *)
LeasableUnbounded(j) ==
    /\ available[j]
    /\ \/ status[j] = "pending"
       \/ status[j] = "leased" /\ leaseExpired[j]

LeasableUnlessLeased(j) ==
    /\ available[j]
    /\ attempts[j] < MaxAttempts
    /\ status[j] = "pending"

(* The where clause of leaseNext. *)
Leasable(j) ==
    /\ available[j]
    /\ attempts[j] < MaxAttempts
    /\ \/ status[j] = "pending"
       \/ status[j] = "leased" /\ leaseExpired[j]

(* Mutants: only the id of the row, or all but its owner, is compared. *)
OwnedById(p, j) == j = held[p]

OwnedByAnyone(p, j) == status[j] = "leased"

(* The where clause of complete and of both statements of fail: the id of  *)
(* the worker is compared, the number of the attempt is not.               *)
Owned(p, j) ==
    /\ status[j] = "leased"
    /\ leaseOwner[j] = WorkerId[p]

(* The lease columns are cleared whenever the row leaves "leased". *)
ClearLease(j) ==
    /\ leaseOwner' = [leaseOwner EXCEPT ![j] = NoOwner]
    /\ leaseExpired' = [leaseExpired EXCEPT ![j] = FALSE]

Goto(p, next) ==
    /\ stage' = [stage EXCEPT ![p] = next]
    /\ UNCHANGED <<held, verdict>>

(* The lane returns or throws: the process forgets the job it held. *)
GoIdle(p) ==
    /\ stage' = [stage EXCEPT ![p] = "idle"]
    /\ held' = [held EXCEPT ![p] = NoJob]
    /\ verdict' = [verdict EXCEPT ![p] = FALSE]

-----------------------------------------------------------------------------
LeaseNext(p, j) ==
    /\ stage[p] = "idle"
    /\ Leasable(j)
    /\ status' = [status EXCEPT ![j] = "leased"]
    /\ attempts' = [attempts EXCEPT ![j] = @ + 1]
    /\ leaseOwner' = [leaseOwner EXCEPT ![j] = WorkerId[p]]
    /\ leaseExpired' = [leaseExpired EXCEPT ![j] = FALSE]
    /\ stage' = [stage EXCEPT ![p] = "materialize"]
    /\ held' = [held EXCEPT ![p] = j]
    /\ UNCHANGED <<available, verdict, routed>>

(* Mutant: an error of materializeEvent is swallowed. *)
MaterializeSwallowing(p) ==
    /\ stage[p] = "materialize"
    /\ routed' = routed \/ routed' = routed \union {held[p]}
    /\ Goto(p, "complete")
    /\ UNCHANGED rowVars

(* materializeEvent either commits or throws, and its commit may be        *)
(* reported to the worker as an error.                                     *)
Materialize(p) ==
    /\ stage[p] = "materialize"
    /\ \/ /\ routed' = routed \union {held[p]}
          /\ Goto(p, "complete") \/ Goto(p, "fail")
       \/ /\ Goto(p, "fail")
          /\ UNCHANGED routed
    /\ UNCHANGED rowVars

(* complete() returns true only for a row it still owns.  A false result   *)
(* and an error both throw into the catch block that calls fail().         *)
Complete(p) ==
    /\ stage[p] = "complete"
    /\ \/ /\ Owned(p, held[p])
          /\ status' = [status EXCEPT ![held[p]] = "completed"]
          /\ ClearLease(held[p])
          /\ GoIdle(p) \/ Goto(p, "fail")
       \/ /\ Goto(p, "fail")
          /\ UNCHANGED <<status, leaseOwner, leaseExpired>>
    /\ UNCHANGED <<attempts, available, routed>>

(* Mutant: > instead of >=. *)
FailReadLate(p) ==
    /\ stage[p] = "fail"
    /\ IF Owned(p, held[p])
       THEN /\ stage' = [stage EXCEPT ![p] = "failWrite"]
            /\ verdict' = [verdict EXCEPT ![p] = attempts[held[p]] > MaxAttempts]
            /\ UNCHANGED held
       ELSE GoIdle(p)
    /\ UNCHANGED <<rowVars, routed>>

(* fail() first reads attempts and max_attempts of the row ...             *)
FailRead(p) ==
    /\ stage[p] = "fail"
    /\ IF Owned(p, held[p])
       THEN /\ stage' = [stage EXCEPT ![p] = "failWrite"]
            /\ verdict' = [verdict EXCEPT ![p] = attempts[held[p]] >= MaxAttempts]
            /\ UNCHANGED held
       ELSE GoIdle(p)
    /\ UNCHANGED <<rowVars, routed>>

(* ... and then writes what it decided, outside any transaction.           *)
FailWrite(p) ==
    /\ stage[p] = "failWrite"
    /\ IF Owned(p, held[p])
       THEN /\ status' = [status EXCEPT ![held[p]] =
                             IF verdict[p] THEN "dead" ELSE "pending"]
            /\ available' = [available EXCEPT ![held[p]] = verdict[p]]
            /\ ClearLease(held[p])
       ELSE UNCHANGED <<status, available, leaseOwner, leaseExpired>>
    /\ GoIdle(p)
    /\ UNCHANGED <<attempts, routed>>

(* The process dies, or the database fails a call outside the try block:   *)
(* either way the lane forgets its job and the row keeps its lease.        *)
Crash(p) ==
    /\ stage[p] # "idle"
    /\ GoIdle(p)
    /\ UNCHANGED <<rowVars, routed>>

LeaseExpires(j) ==
    /\ status[j] = "leased" /\ ~leaseExpired[j]
    /\ leaseExpired' = [leaseExpired EXCEPT ![j] = TRUE]
    /\ UNCHANGED <<status, attempts, leaseOwner, available, laneVars, routed>>

BackoffElapses(j) ==
    /\ ~available[j]
    /\ available' = [available EXCEPT ![j] = TRUE]
    /\ UNCHANGED <<status, attempts, leaseOwner, leaseExpired, laneVars, routed>>

-----------------------------------------------------------------------------
Work(p) ==
    \/ \E j \in Jobs : LeaseNext(p, j)
    \/ Materialize(p) \/ Complete(p) \/ FailRead(p) \/ FailWrite(p)

Time(j) == LeaseExpires(j) \/ BackoffElapses(j)

Next ==
    \/ \E p \in Processes : Work(p) \/ Crash(p)
    \/ \E j \in Jobs : Time(j)

Spec == Init /\ [][Next]_vars

(* runUntilStopped polls for ever and every call it awaits returns; clocks *)
(* move.                                                                   *)
Fairness ==
    /\ \A p \in Processes : WF_vars(Work(p))
    /\ \A j \in Jobs : WF_vars(Time(j))

FairSpec == Spec /\ Fairness

-----------------------------------------------------------------------------
TypeOK ==
    /\ status \in [Jobs -> JobStatus]
    /\ attempts \in [Jobs -> 0 .. MaxAttempts]
    /\ leaseOwner \in [Jobs -> WorkerIds \union {NoOwner}]
    /\ leaseExpired \in [Jobs -> BOOLEAN]
    /\ available \in [Jobs -> BOOLEAN]
    /\ stage \in [Processes -> Stage]
    /\ held \in [Processes -> Jobs \union {NoJob}]
    /\ verdict \in [Processes -> BOOLEAN]
    /\ routed \in SUBSET Jobs
    /\ \A p \in Processes : stage[p] # "idle" => held[p] \in Jobs

(* A job is only ever marked completed after its event was fanned out to   *)
(* the subscribers, whichever process wrote the row.                       *)
CompletedWasRouted == \A j \in Jobs : status[j] = "completed" => j \in routed

(* The retry budget: a job waiting for a retry can still be leased, and a  *)
(* dead one has spent every attempt, although fail() decides on a read it  *)
(* made one statement earlier.                                             *)
RetryBudgetRespected ==
    \A j \in Jobs :
        /\ status[j] = "pending" => attempts[j] < MaxAttempts
        /\ status[j] = "dead" => attempts[j] = MaxAttempts

(* No late complete() or fail() of a process that lost its lease changes a *)
(* job that is already completed or dead.                                  *)
SettledIsFinal ==
    [][\A j \in Jobs : status[j] \in {"completed", "dead"}
                          => status'[j] = status[j]]_vars

(* While a lease is live, only a process that runs under the id it carries *)
(* and holds the job moves the row.                                        *)
LiveLeaseIsExclusive ==
    [][\A j \in Jobs :
          status[j] = "leased" /\ ~leaseExpired[j]
              => \/ status'[j] = "leased" /\ attempts'[j] = attempts[j]
                 \/ \E p \in Processes :
                       /\ held[p] = j /\ stage'[p] # stage[p]
                       /\ WorkerId[p] = leaseOwner[j]]_vars

(* A row whose last attempt was abandoned: no process works on it, and the *)
(* spent budget keeps it from being leased again.                          *)
Stranded(j) ==
    /\ status[j] = "leased" /\ leaseExpired[j]
    /\ attempts[j] = MaxAttempts
    /\ \A p \in Processes : held[p] # j

(* Whatever crashes, retries come to an end: a job is eventually completed *)
(* or dead, unless its very last attempt was abandoned.                    *)
RetriesEnd ==
    \A j \in Jobs : <>[](status[j] \in {"completed", "dead"} \/ Stranded(j))

(* "If a process dies, another worker can reclaim it after expiry": an     *)
(* expired lease that no live process is working on can be leased again.   *)
ExpiredLeaseIsReclaimable ==
    \A j \in Jobs :
        /\ status[j] = "leased" /\ leaseExpired[j]
        /\ \A p \in Processes : held[p] # j
        => Leasable(j)
-----------------------------------------------------------------------------
(* A row of that status as an item of BoundedRetry. *)
Phase(s) ==
    IF s = "pending" THEN "waiting"
    ELSE IF s = "leased" THEN "working"
    ELSE IF s = "completed" THEN "done" ELSE "dead"

Queue == INSTANCE BoundedRetry WITH
    Items <- Jobs, Refusable <- {}, Replayable <- {},
    state <- [j \in Jobs |-> Phase(status[j])],
    left <- [j \in Jobs |-> MaxAttempts - attempts[j]],
    tried <- {j \in Jobs : attempts[j] > 0},
    performed <- routed

(* The outbox is a queue of bounded retries: whatever the workers, their   *)
(* leases and their late reports do to a row, it is done only after its    *)
(* event was routed, it waits again only with attempts left, and it is     *)
(* dead only without.                                                      *)
ImplementsBoundedRetry == Queue!Spec
=============================================================================
