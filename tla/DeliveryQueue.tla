---------------------------- MODULE DeliveryQueue ----------------------------
(***************************************************************************)
(* The delivery rows of ClaimRail and everything that moves them:          *)
(* DeliveryRepository (materializeEvent, leaseNext, complete, fail,        *)
(* replayDead), the half of the worker's delivery-dispatch lane that sends *)
(* and reports, and the subscriptions that come and go meanwhile.          *)
(*                                                                         *)
(* A statement, or a transaction whose statements lock what they read, is  *)
(* one action.  Clocks are abstract, as in OutboxQueue.  An endpoint       *)
(* answers that it accepted the message, refuses it, says it is gone for   *)
(* good, or accepts it and lets the answer get lost.                       *)
(***************************************************************************)
EXTENDS Integers

CONSTANTS
    Subscriptions,          \* rows of subscriptions
    Events,                 \* rows of canonical_events
    Deliveries,             \* the (subscription, event) pairs that match
    SubscriptionOf, EventOf,
    Revocable,              \* browser and telegram subscriptions
    Processes, WorkerIds, WorkerId,
    Sessions,               \* replay requests of owners, as they overlap
    MaxAttempts,            \* default of deliveries.max_attempts
    ReplayAttempts,         \* additionalAttempts of replayDead
    AttemptLimit,           \* bound: replays beyond it are not explored
    NoDelivery, NoOwner     \* null

ASSUME DeliveryAssumption ==
    /\ SubscriptionOf \in [Deliveries -> Subscriptions]
    /\ EventOf \in [Deliveries -> Events]
    /\ WorkerId \in [Processes -> WorkerIds]
    /\ MaxAttempts \in Nat \ {0} /\ ReplayAttempts \in Nat \ {0}
    /\ AttemptLimit \in Nat /\ MaxAttempts <= AttemptLimit
    /\ NoOwner \notin WorkerIds /\ NoDelivery \notin Deliveries

VARIABLES
    \* the columns of deliveries
    status, attemptCount, maxAttempts, leaseOwner, leaseExpired, due,
    \* the rows of delivery_attempts, by delivery and attempt number
    attemptRow,
    \* subscriptions.active (with verified_at and secret_ciphertext set)
    active,
    \* what endpoints did: attempts they accepted, attempts they answered
    \* with "gone"
    accepted, gone,
    \* the dispatch lane of each process
    stage, held, heldAttempt, terminal, verdict,
    \* the routes materializeEvent has selected and not yet inserted
    selected,
    \* the replay transaction of each session: its delivery, and the
    \* max_attempts it computed
    replaying, replayMax

rowVars == <<status, attemptCount, maxAttempts, leaseOwner, leaseExpired, due, attemptRow>>
laneVars == <<stage, held, heldAttempt, terminal, verdict>>
endpointVars == <<accepted, gone>>
replayVars == <<replaying, replayMax>>
vars == <<rowVars, active, endpointVars, laneVars, selected, replayVars>>

-----------------------------------------------------------------------------
Attempts == 1 .. AttemptLimit

DeliveryStatus == {"absent", "pending", "delivering", "delivered", "failed", "dead"}

AttemptStatus == {"none", "delivering", "delivered", "failed"}

Stage == {"idle", "dispatch", "complete", "fail", "failWrite"}

Init ==
    /\ status = [d \in Deliveries |-> "absent"]
    /\ attemptCount = [d \in Deliveries |-> 0]
    /\ maxAttempts = [d \in Deliveries |-> MaxAttempts]
    /\ leaseOwner = [d \in Deliveries |-> NoOwner]
    /\ leaseExpired = [d \in Deliveries |-> FALSE]
    /\ due = [d \in Deliveries |-> TRUE]
    /\ attemptRow = [d \in Deliveries |-> [n \in Attempts |-> "none"]]
    /\ active = [s \in Subscriptions |-> FALSE]
    /\ accepted = [d \in Deliveries |-> {}]
    /\ gone = [d \in Deliveries |-> {}]
    /\ stage = [p \in Processes |-> "idle"]
    /\ held = [p \in Processes |-> NoDelivery]
    /\ heldAttempt = [p \in Processes |-> 0]
    /\ terminal = [p \in Processes |-> FALSE]
    /\ verdict = [p \in Processes |-> FALSE]
    /\ selected = {}
    /\ replaying = [u \in Sessions |-> NoDelivery]
    /\ replayMax = [u \in Sessions |-> 0]

-----------------------------------------------------------------------------
(* materializeEvent selects the active subscriptions an event matches ...  *)
SelectRoutes(e) ==
    /\ selected' = selected \union
                      {d \in Deliveries : EventOf[d] = e /\ active[SubscriptionOf[d]]}
    /\ UNCHANGED <<rowVars, active, endpointVars, laneVars, replayVars>>

(* Mutant: on conflict do update, which starts an existing row again. *)
InsertRoutesOverwriting(e) ==
    LET routes == {d \in selected : EventOf[d] = e}
    IN  /\ routes # {}
        /\ status' = [d \in Deliveries |-> IF d \in routes THEN "pending" ELSE status[d]]
        /\ selected' = selected \ routes
        /\ UNCHANGED <<attemptCount, maxAttempts, leaseOwner, leaseExpired, due, attemptRow,
                       active, endpointVars, laneVars, replayVars>>

(* ... and inserts one row per route, leaving the rows already there.  The *)
(* transaction may also roll back, and be repeated by the outbox.          *)
InsertRoutes(e) ==
    LET routes == {d \in selected : EventOf[d] = e}
    IN  /\ routes # {}
        /\ status' = [d \in Deliveries |->
                         IF d \in routes /\ status[d] = "absent" THEN "pending" ELSE status[d]]
        /\ selected' = selected \ routes
        /\ UNCHANGED <<attemptCount, maxAttempts, leaseOwner, leaseExpired, due, attemptRow,
                       active, endpointVars, laneVars, replayVars>>

RollBackRoutes(e) ==
    /\ selected' = {d \in selected : EventOf[d] # e}
    /\ UNCHANGED <<rowVars, active, endpointVars, laneVars, replayVars>>

-----------------------------------------------------------------------------
(* Mutant: the budget is not compared. *)
LeasableUnbounded(d) ==
    /\ active[SubscriptionOf[d]]
    /\ due[d]
    /\ \/ status[d] \in {"pending", "failed"}
       \/ status[d] = "delivering" /\ leaseExpired[d]

(* Mutant: an expired lease is not taken over. *)
LeasableUnlessLeased(d) ==
    /\ active[SubscriptionOf[d]]
    /\ attemptCount[d] < maxAttempts[d]
    /\ due[d]
    /\ status[d] \in {"pending", "failed"}

(* The where clause of leaseNext.  A row of a subscription that is no      *)
(* longer active stays where it is.                                        *)
Leasable(d) ==
    /\ active[SubscriptionOf[d]]
    /\ attemptCount[d] < maxAttempts[d]
    /\ due[d]
    /\ \/ status[d] \in {"pending", "failed"}
       \/ status[d] = "delivering" /\ leaseExpired[d]

(* Mutants: a lease that is taken over keeps its attempt number, or no     *)
(* lease counts as an attempt.                                             *)
NextAttemptReused(d) == IF status[d] = "delivering" THEN attemptCount[d] ELSE attemptCount[d] + 1

NextAttemptUncounted(d) == attemptCount[d]

(* attempt_count + 1: every lease is an attempt, also one that takes over  *)
(* an expired lease.                                                       *)
NextAttempt(d) == attemptCount[d] + 1

(* The where clause of fail()'s read: the id of the worker alone.          *)
Owned(p, d) ==
    /\ status[d] = "delivering"
    /\ leaseOwner[d] = WorkerId[p]

(* Mutant: the number of the attempt is not compared. *)
OwnedByWorker(p, d) == Owned(p, d)

(* The where clause of complete() and of fail()'s update: the id of the    *)
(* worker and the number of the attempt it was given.                      *)
OwnedAttempt(p, d) ==
    /\ Owned(p, d)
    /\ attemptCount[d] = heldAttempt[p]

ClearLease(d) ==
    /\ leaseOwner' = [leaseOwner EXCEPT ![d] = NoOwner]
    /\ leaseExpired' = [leaseExpired EXCEPT ![d] = FALSE]

GoIdle(p) ==
    /\ stage' = [stage EXCEPT ![p] = "idle"]
    /\ held' = [held EXCEPT ![p] = NoDelivery]
    /\ heldAttempt' = [heldAttempt EXCEPT ![p] = 0]
    /\ terminal' = [terminal EXCEPT ![p] = FALSE]
    /\ verdict' = [verdict EXCEPT ![p] = FALSE]

(* The lane moves on, or its catch block takes over: isTerminal says       *)
(* whether the error names an endpoint that is gone for good.              *)
Goto(p, next, isTerminal) ==
    /\ stage' = [stage EXCEPT ![p] = next]
    /\ terminal' = [terminal EXCEPT ![p] = isTerminal]
    /\ UNCHANGED <<held, heldAttempt, verdict>>

-----------------------------------------------------------------------------
LeaseNext(p, d) ==
    /\ stage[p] = "idle"
    /\ Leasable(d)
    /\ status' = [status EXCEPT ![d] = "delivering"]
    /\ attemptCount' = [attemptCount EXCEPT ![d] = NextAttempt(d)]
    /\ leaseOwner' = [leaseOwner EXCEPT ![d] = WorkerId[p]]
    /\ leaseExpired' = [leaseExpired EXCEPT ![d] = FALSE]
    /\ attemptRow' = [attemptRow EXCEPT ![d][NextAttempt(d)] =
                         IF @ = "none" THEN "delivering" ELSE @]
    /\ stage' = [stage EXCEPT ![p] = "dispatch"]
    /\ held' = [held EXCEPT ![p] = d]
    /\ heldAttempt' = [heldAttempt EXCEPT ![p] = NextAttempt(d)]
    /\ UNCHANGED <<maxAttempts, due, active, endpointVars, terminal, verdict, selected, replayVars>>

(* The endpoint takes the message: the answer arrives, or the transport    *)
(* times out or fails after the endpoint has acted.                        *)
Accepted(p) ==
    /\ accepted' = [accepted EXCEPT ![held[p]] = @ \union {heldAttempt[p]}]
    /\ Goto(p, "complete", FALSE) \/ Goto(p, "fail", FALSE)
    /\ UNCHANGED gone

(* BrowserPushExpired and TelegramDestinationRevoked.                      *)
Revoked(p) ==
    /\ SubscriptionOf[held[p]] \in Revocable
    /\ gone' = [gone EXCEPT ![held[p]] = @ \union {heldAttempt[p]}]
    /\ Goto(p, "fail", TRUE)
    /\ UNCHANGED accepted

Refused(p) ==
    /\ Goto(p, "fail", FALSE)
    /\ UNCHANGED endpointVars

Dispatch(p) ==
    /\ stage[p] = "dispatch"
    /\ Accepted(p) \/ Revoked(p) \/ Refused(p)
    /\ UNCHANGED <<rowVars, active, selected, replayVars>>

(* complete() returns false for a row or an attempt that is no longer the  *)
(* worker's.  That and an error both throw into the catch block; the       *)
(* commit may have happened when the error arrives.                        *)
Complete(p) ==
    /\ stage[p] = "complete"
    /\ \/ /\ OwnedAttempt(p, held[p])
          /\ status' = [status EXCEPT ![held[p]] = "delivered"]
          /\ due' = [due EXCEPT ![held[p]] = TRUE]
          /\ ClearLease(held[p])
          /\ attemptRow' = [attemptRow EXCEPT ![held[p]][heldAttempt[p]] = "delivered"]
          /\ GoIdle(p) \/ Goto(p, "fail", FALSE)
       \/ /\ Goto(p, "fail", FALSE)
          /\ UNCHANGED <<status, due, leaseOwner, leaseExpired, attemptRow>>
    /\ UNCHANGED <<attemptCount, maxAttempts, active, endpointVars, selected, replayVars>>

(* Mutant: the last attempt is not made. *)
FailReadEarly(p) ==
    /\ stage[p] = "fail"
    /\ IF Owned(p, held[p])
       THEN /\ stage' = [stage EXCEPT ![p] = "failWrite"]
            /\ verdict' = [verdict EXCEPT ![p] =
                              terminal[p] \/ attemptCount[held[p]] + 1 >= maxAttempts[held[p]]]
            /\ UNCHANGED <<held, heldAttempt, terminal>>
       ELSE GoIdle(p)
    /\ UNCHANGED <<rowVars, active, endpointVars, selected, replayVars>>

(* fail() reads the counters of the row it holds a lease on ...            *)
FailRead(p) ==
    /\ stage[p] = "fail"
    /\ IF Owned(p, held[p])
       THEN /\ stage' = [stage EXCEPT ![p] = "failWrite"]
            /\ verdict' = [verdict EXCEPT ![p] =
                              terminal[p] \/ attemptCount[held[p]] >= maxAttempts[held[p]]]
            /\ UNCHANGED <<held, heldAttempt, terminal>>
       ELSE GoIdle(p)
    /\ UNCHANGED <<rowVars, active, endpointVars, selected, replayVars>>

(* Mutant: every subscription is switched off, the where clause is lost. *)
FailWriteEverywhere(p) ==
    /\ stage[p] = "failWrite"
    /\ IF OwnedAttempt(p, held[p])
       THEN /\ status' = [status EXCEPT ![held[p]] = IF verdict[p] THEN "dead" ELSE "failed"]
            /\ due' = [due EXCEPT ![held[p]] = verdict[p]]
            /\ ClearLease(held[p])
            /\ attemptRow' = [attemptRow EXCEPT ![held[p]][heldAttempt[p]] = "failed"]
            /\ active' = [s \in Subscriptions |-> active[s] /\ ~terminal[p]]
       ELSE UNCHANGED <<status, due, leaseOwner, leaseExpired, attemptRow, active>>
    /\ GoIdle(p)
    /\ UNCHANGED <<attemptCount, maxAttempts, endpointVars, selected, replayVars>>

(* ... and in a later transaction writes what it decided, closes the       *)
(* attempt, and switches the subscription off when the endpoint is gone.   *)
FailWrite(p) ==
    /\ stage[p] = "failWrite"
    /\ IF OwnedAttempt(p, held[p])
       THEN /\ status' = [status EXCEPT ![held[p]] = IF verdict[p] THEN "dead" ELSE "failed"]
            /\ due' = [due EXCEPT ![held[p]] = verdict[p]]
            /\ ClearLease(held[p])
            /\ attemptRow' = [attemptRow EXCEPT ![held[p]][heldAttempt[p]] = "failed"]
            /\ active' = [active EXCEPT ![SubscriptionOf[held[p]]] = @ /\ ~terminal[p]]
       ELSE UNCHANGED <<status, due, leaseOwner, leaseExpired, attemptRow, active>>
    /\ GoIdle(p)
    /\ UNCHANGED <<attemptCount, maxAttempts, endpointVars, selected, replayVars>>

(* The process dies, or the database fails a call outside the try block.   *)
Crash(p) ==
    /\ stage[p] # "idle"
    /\ GoIdle(p)
    /\ UNCHANGED <<rowVars, active, endpointVars, selected, replayVars>>

-----------------------------------------------------------------------------
MaxOf(a, b) == IF a >= b THEN a ELSE b

(* replayDead reads a dead row, without a lock ...                         *)
ReplayRead(u, d) ==
    /\ replaying[u] = NoDelivery
    /\ status[d] = "dead"
    /\ LET newMax == MaxOf(maxAttempts[d], attemptCount[d]) + ReplayAttempts
       IN  /\ newMax <= AttemptLimit
           /\ replaying' = [replaying EXCEPT ![u] = d]
           /\ replayMax' = [replayMax EXCEPT ![u] = newMax]
    /\ UNCHANGED <<rowVars, active, endpointVars, laneVars, selected>>

(* Mutant: the update does not check that the row is still dead. *)
ReplayWriteBlind(u) ==
    /\ replaying[u] # NoDelivery
    /\ status' = [status EXCEPT ![replaying[u]] = "failed"]
    /\ maxAttempts' = [maxAttempts EXCEPT ![replaying[u]] = replayMax[u]]
    /\ due' = [due EXCEPT ![replaying[u]] = TRUE]
    /\ replaying' = [replaying EXCEPT ![u] = NoDelivery]
    /\ replayMax' = [replayMax EXCEPT ![u] = 0]
    /\ UNCHANGED <<attemptCount, leaseOwner, leaseExpired, attemptRow,
                   active, endpointVars, laneVars, selected>>

(* Mutant: the attempts start again at zero. *)
ReplayWriteFromZero(u) ==
    /\ replaying[u] # NoDelivery
    /\ status[replaying[u]] = "dead"
    /\ status' = [status EXCEPT ![replaying[u]] = "failed"]
    /\ attemptCount' = [attemptCount EXCEPT ![replaying[u]] = 0]
    /\ due' = [due EXCEPT ![replaying[u]] = TRUE]
    /\ replaying' = [replaying EXCEPT ![u] = NoDelivery]
    /\ replayMax' = [replayMax EXCEPT ![u] = 0]
    /\ UNCHANGED <<maxAttempts, leaseOwner, leaseExpired, attemptRow,
                   active, endpointVars, laneVars, selected>>

(* ... and requeues it if it is still dead; or the request is abandoned.   *)
ReplayWrite(u) ==
    /\ replaying[u] # NoDelivery
    /\ \/ /\ status[replaying[u]] = "dead"
          /\ status' = [status EXCEPT ![replaying[u]] = "failed"]
          /\ maxAttempts' = [maxAttempts EXCEPT ![replaying[u]] = replayMax[u]]
          /\ due' = [due EXCEPT ![replaying[u]] = TRUE]
       \/ UNCHANGED <<status, maxAttempts, due>>
    /\ replaying' = [replaying EXCEPT ![u] = NoDelivery]
    /\ replayMax' = [replayMax EXCEPT ![u] = 0]
    /\ UNCHANGED <<attemptCount, leaseOwner, leaseExpired, attemptRow,
                   active, endpointVars, laneVars, selected>>

(* The owner verifies a subscription, or links another telegram chat.      *)
Verify(s) ==
    /\ active' = [active EXCEPT ![s] = TRUE]
    /\ UNCHANGED <<rowVars, endpointVars, laneVars, selected, replayVars>>

Unlink(s) ==
    /\ active' = [active EXCEPT ![s] = FALSE]
    /\ UNCHANGED <<rowVars, endpointVars, laneVars, selected, replayVars>>

LeaseExpires(d) ==
    /\ status[d] = "delivering" /\ ~leaseExpired[d]
    /\ leaseExpired' = [leaseExpired EXCEPT ![d] = TRUE]
    /\ UNCHANGED <<status, attemptCount, maxAttempts, leaseOwner, due, attemptRow,
                   active, endpointVars, laneVars, selected, replayVars>>

BackoffElapses(d) ==
    /\ ~due[d]
    /\ due' = [due EXCEPT ![d] = TRUE]
    /\ UNCHANGED <<status, attemptCount, maxAttempts, leaseOwner, leaseExpired, attemptRow,
                   active, endpointVars, laneVars, selected, replayVars>>

-----------------------------------------------------------------------------
Work(p) ==
    \/ \E d \in Deliveries : LeaseNext(p, d)
    \/ Dispatch(p) \/ Complete(p) \/ FailRead(p) \/ FailWrite(p)

Route(e) == SelectRoutes(e) \/ InsertRoutes(e) \/ RollBackRoutes(e)

Replay(u) == ReplayWrite(u) \/ \E d \in Deliveries : ReplayRead(u, d)

Owner(s) == Verify(s) \/ Unlink(s)

Time(d) == LeaseExpires(d) \/ BackoffElapses(d)

Next ==
    \/ \E p \in Processes : Work(p) \/ Crash(p)
    \/ \E e \in Events : Route(e)
    \/ \E u \in Sessions : Replay(u)
    \/ \E s \in Subscriptions : Owner(s)
    \/ \E d \in Deliveries : Time(d)

Spec == Init /\ [][Next]_vars

(* runUntilStopped polls for ever and every call it awaits returns (the    *)
(* transports abort after their timeout); clocks move.  Owners, outbox     *)
(* and crashes owe nothing.                                                *)
Fairness ==
    /\ \A p \in Processes : WF_vars(Work(p))
    /\ \A d \in Deliveries : WF_vars(Time(d))

FairSpec == Spec /\ Fairness

-----------------------------------------------------------------------------
TypeOK ==
    /\ status \in [Deliveries -> DeliveryStatus]
    /\ attemptCount \in [Deliveries -> 0 .. AttemptLimit]
    /\ maxAttempts \in [Deliveries -> Attempts]
    /\ leaseOwner \in [Deliveries -> WorkerIds \union {NoOwner}]
    /\ leaseExpired \in [Deliveries -> BOOLEAN]
    /\ due \in [Deliveries -> BOOLEAN]
    /\ attemptRow \in [Deliveries -> [Attempts -> AttemptStatus]]
    /\ active \in [Subscriptions -> BOOLEAN]
    /\ accepted \in [Deliveries -> SUBSET Attempts]
    /\ gone \in [Deliveries -> SUBSET Attempts]
    /\ stage \in [Processes -> Stage]
    /\ held \in [Processes -> Deliveries \union {NoDelivery}]
    /\ heldAttempt \in [Processes -> 0 .. AttemptLimit]
    /\ terminal \in [Processes -> BOOLEAN]
    /\ verdict \in [Processes -> BOOLEAN]
    /\ selected \in SUBSET Deliveries
    /\ replaying \in [Sessions -> Deliveries \union {NoDelivery}]
    /\ replayMax \in [Sessions -> 0 .. AttemptLimit]
    /\ \A p \in Processes : stage[p] # "idle" =>
          held[p] \in Deliveries /\ heldAttempt[p] \in 1 .. attemptCount[held[p]]
    /\ \A u \in Sessions : replaying[u] # NoDelivery => replayMax[u] \in Attempts

(* A delivery is reported delivered only when the endpoint accepted the    *)
(* very attempt the row counts, never on the strength of an older one.     *)
DeliveredWasAccepted ==
    \A d \in Deliveries : status[d] = "delivered" => attemptCount[d] \in accepted[d]

(* No two processes ever send under the same attempt number, so an         *)
(* endpoint can tell one attempt's copies from the next attempt's.         *)
OneSenderPerAttempt ==
    \A p, q \in Processes :
        /\ p # q
        /\ stage[p] # "idle" /\ stage[q] # "idle" /\ held[p] = held[q]
        => heldAttempt[p] # heldAttempt[q]

(* The attempt row that tells the same story as its delivery. *)
RowFor(d) ==
    CASE status[d] = "delivering" -> "delivering"
      [] status[d] = "delivered"  -> "delivered"
      [] OTHER                    -> "failed"

(* The console's attempt log agrees with the delivery: the current attempt *)
(* has the row its status calls for, earlier attempts failed or were       *)
(* abandoned, and later attempts have no row.                              *)
AttemptLogAgrees ==
    \A d \in Deliveries, n \in Attempts :
        /\ n = attemptCount[d] => attemptRow[d][n] = RowFor(d)
        /\ n < attemptCount[d] => attemptRow[d][n] \in {"delivering", "failed"}
        /\ n > attemptCount[d] => attemptRow[d][n] = "none"

(* A delivery is given up only when its attempts are spent or the endpoint *)
(* itself answered the current attempt that it is gone, although fail()    *)
(* decides on a read that compares no attempt number.                      *)
DeadIsJustified ==
    \A d \in Deliveries :
        status[d] = "dead" => \/ attemptCount[d] >= maxAttempts[d]
                              \/ attemptCount[d] \in gone[d]

(* Neither a late report, nor a replay, nor routing the event once more    *)
(* ever touches a delivered row, so nobody is notified again.              *)
DeliveredIsFinal ==
    [][\A d \in Deliveries : status[d] = "delivered"
          => status'[d] = "delivered" /\ attemptCount'[d] = attemptCount[d]]_vars

(* A report switches a subscription off only when its endpoint answered    *)
(* the current attempt of one of its own deliveries that it is gone: never *)
(* a late report of an older attempt, never another subscription.          *)
RevocationIsCurrent ==
    [][\A s \in Subscriptions :
          active[s] /\ ~active'[s] /\ stage' # stage
             => \E d \in Deliveries :
                   /\ SubscriptionOf[d] = s
                   /\ status[d] = "delivering" /\ status'[d] = "dead"
                   /\ attemptCount[d] \in gone[d]]_vars

(* The last attempt was abandoned: nothing leases the row again. *)
Stranded(d) ==
    /\ status[d] = "delivering" /\ leaseExpired[d]
    /\ attemptCount[d] >= maxAttempts[d]
    /\ \A p \in Processes : held[p] # d

(* A replay that raced another one left the row without attempts. *)
Exhausted(d) == status[d] = "failed" /\ attemptCount[d] >= maxAttempts[d]

(* Attempts come to an end: no delivery of a subscription that stays       *)
(* active waits for ever, unless its last attempt was abandoned.           *)
AttemptsEnd ==
    \A d \in Deliveries :
        []<>( \/ status[d] \in {"absent", "delivered", "dead"}
              \/ ~active[SubscriptionOf[d]]
              \/ Stranded(d) \/ Exhausted(d) )

(* "The worker receives eight additional bounded attempts": a dead         *)
(* delivery that a replay has just requeued can be leased.                 *)
ReplayGrantsAttempts ==
    [][\A d \in Deliveries : status[d] = "dead" /\ status'[d] = "failed"
          => Leasable(d)']_vars
-----------------------------------------------------------------------------
(* A row of that status as an item of BoundedRetry. *)
Phase(s) ==
    IF s = "absent" THEN "absent"
    ELSE IF s \in {"pending", "failed"} THEN "waiting"
    ELSE IF s = "delivering" THEN "working"
    ELSE IF s = "delivered" THEN "done" ELSE "dead"

AttemptsLeft(count, max) == IF count >= max THEN 0 ELSE max - count

Queue == INSTANCE BoundedRetry WITH
    Items <- Deliveries,
    Refusable <- {d \in Deliveries : SubscriptionOf[d] \in Revocable},
    Replayable <- Deliveries,
    state <- [d \in Deliveries |-> Phase(status[d])],
    left <- [d \in Deliveries |-> AttemptsLeft(attemptCount[d], maxAttempts[d])],
    tried <- {d \in Deliveries : attemptCount[d] > 0},
    performed <- {d \in Deliveries : accepted[d] # {}}

(* The deliveries are a queue of bounded retries, whichever ids the        *)
(* workers share: a row is delivered only after the endpoint accepted it,  *)
(* waits again only with attempts left, is given up only without or on the *)
(* word of a revocable endpoint, and only a replay brings it back.         *)
ImplementsBoundedRetry == Queue!Spec
=============================================================================
