----------------------------- MODULE WorkerCycle -----------------------------
(***************************************************************************)
(* From the commit of a canonical event to its subscribers: the outbox and *)
(* the deliveries composed in the dispatch lane, which serves a delivery   *)
(* first and an outbox job only when none is due, one row per cycle of     *)
(* WorkerRuntime, whose next cycle waits for all of its lanes.             *)
(*                                                                         *)
(* A repository call is one step here; what happens between the statements *)
(* of fail(), and replays, are the business of OutboxQueue and             *)
(* DeliveryQueue.  Worker ids are distinct.                                *)
(***************************************************************************)
EXTENDS Naturals, FiniteSets

CONSTANTS
    Processes,          \* worker processes
    Events, Subscriptions,
    EventTypes,         \* the subscriptions that ask for the type of an event
    EnabledKinds,       \* the subscriptions a process has a transport for
    Revocable,          \* browser and telegram subscriptions
    MaxAttempts,        \* of a job, and of a delivery
    MaxTrouble          \* bound: faults and changes by owners

Deliveries == {d \in Subscriptions \X Events : d[1] \in EventTypes[d[2]]}

ASSUME CycleAssumption ==
    /\ EventTypes \in [Events -> SUBSET Subscriptions]
    /\ EnabledKinds \in [Processes -> SUBSET Subscriptions]
    /\ Revocable \subseteq Subscriptions
    /\ MaxAttempts \in Nat \ {0} /\ MaxTrouble \in Nat

VARIABLES
    job, delivery,      \* the rows of both queues
    active,             \* subscriptions.active
    lane,               \* the dispatch lane of each process
    trouble,            \* the faults and changes so far
    steady,             \* history: pairs active ever since the event's commit
    accepted,           \* history: the times an endpoint took an event, to 2
    excused             \* history: deliveries that lost a lease or an answer

queueVars == <<job, delivery>>
historyVars == <<steady, accepted, excused>>
vars == <<queueVars, active, lane, trouble, historyVars>>

-----------------------------------------------------------------------------
(* "ready" and "backoff" are rows that wait, before and after              *)
(* available_at or next_attempt_at; "leased" and "expired" are held rows,  *)
(* before and after lease_expires_at.                                      *)
Status == {"absent", "ready", "backoff", "leased", "expired", "done", "dead"}

NoRow == [status |-> "absent", attempts |-> 0, owner |-> {}]

Stage == {"joined", "ended", "lease", "dispatch", "complete", "fail", "failTerminal",
          "materialize", "completeJob", "failJob"}

Joined == [at |-> "joined", item |-> {}, attempt |-> 0]

(* Every fault counts against the bound. *)
Fault == trouble < MaxTrouble /\ trouble' = trouble + 1

NoFault == UNCHANGED trouble

(* Mutants: the budget is not looked at; an expired lease is not taken     *)
(* over.                                                                   *)
ReadyUnbounded(row) == row.status \in {"ready", "expired"}

ReadyUnlessExpired(row) == row.status = "ready" /\ row.attempts < MaxAttempts

(* A row the lane may take: a lease also takes an expired one over.        *)
Ready(row) == row.status \in {"ready", "expired"} /\ row.attempts < MaxAttempts

Due(p, d) == d[1] \in EnabledKinds[p] /\ active[d[1]] /\ Ready(delivery[d])

(* The outbox has its turn when no delivery can be leased. *)
OutboxTurn(p) == \A d \in Deliveries : ~Due(p, d)

Taken(row, p) ==
    [status |-> "leased", attempts |-> row.attempts + 1, owner |-> {p}]

(* A report settles the row, or has it wait, and gives the lease back.     *)
Released(row, status) == [status |-> status, attempts |-> row.attempts, owner |-> {}]

Done(row) == Released(row, "done")

Holds(p, row) == row.status \in {"leased", "expired"} /\ row.owner = {p}

Goto(p, stage) == lane' = [lane EXCEPT ![p].at = stage]

Ended == [Joined EXCEPT !.at = "ended"]

(* runJob catches what a lane throws: thrown or returned, it has ended.    *)
End(p) == lane' = [lane EXCEPT ![p] = Ended]

-----------------------------------------------------------------------------
(* A component commits a canonical event together with its outbox row.     *)
CommitEvent(e) ==
    /\ job[e].status = "absent"
    /\ job' = [job EXCEPT ![e].status = "ready"]
    /\ steady' = steady \union {d \in Deliveries : d[2] = e /\ active[d[1]]}
    /\ UNCHANGED <<delivery, active, lane, trouble, accepted, excused>>

SwitchOff(s) ==
    /\ active' = [active EXCEPT ![s] = FALSE]
    /\ steady' = {d \in steady : d[1] # s}

(* The owner's subscriptions come and go. *)
Owner(s) ==
    /\ Fault
    /\ \/ active[s] /\ SwitchOff(s)
       \/ ~active[s] /\ active' = [active EXCEPT ![s] = TRUE] /\ UNCHANGED steady
    /\ UNCHANGED <<queueVars, lane, accepted, excused>>

-----------------------------------------------------------------------------
(* runCycle starts every lane once all of them have joined. *)
StartCycle(p) ==
    /\ lane[p].at = "joined"
    /\ Goto(p, "lease")
    /\ UNCHANGED <<queueVars, active, trouble, historyVars>>

(* The other lanes return or throw, and the cycle is over.  They touch no  *)
(* row of this module, so that they may as well be the last to join.       *)
OthersJoin(p) ==
    /\ lane[p].at = "ended"
    /\ Goto(p, "joined")
    /\ UNCHANGED <<queueVars, active, trouble, historyVars>>

LeaseDelivery(p, d) ==
    /\ lane[p].at = "lease"
    /\ Due(p, d)
    /\ delivery' = [delivery EXCEPT ![d] = Taken(@, p)]
    /\ lane' = [lane EXCEPT ![p] =
                  [at |-> "dispatch", item |-> {d}, attempt |-> delivery'[d].attempts]]
    /\ UNCHANGED <<job, active, trouble, historyVars>>

LeaseJob(p, e) ==
    /\ lane[p].at = "lease"
    /\ EnabledKinds[p] # {} /\ OutboxTurn(p)
    /\ Ready(job[e])
    /\ job' = [job EXCEPT ![e] = Taken(@, p)]
    /\ lane' = [lane EXCEPT ![p] = [at |-> "materialize", item |-> {e}, attempt |-> 0]]
    /\ UNCHANGED <<delivery, active, trouble, historyVars>>

(* Without a transport, or with nothing to lease, the lane is idle; a      *)
(* lease that throws ends it as well.                                      *)
LeaseNothing(p) ==
    /\ lane[p].at = "lease"
    /\ \/ Fault
       \/ EnabledKinds[p] = {} /\ NoFault
       \/ OutboxTurn(p) /\ (\A e \in Events : ~Ready(job[e])) /\ NoFault
    /\ End(p)
    /\ UNCHANGED <<queueVars, active, historyVars>>

-----------------------------------------------------------------------------
Accept(d) == accepted' = [accepted EXCEPT ![d] = IF @ = 0 THEN 1 ELSE 2]

Excuse(d) == excused' = excused \union {d}

(* The endpoint takes the event and says so; takes it and the answer is    *)
(* lost; does not take it; or is gone for good.                            *)
Dispatch(p) ==
    /\ lane[p].at = "dispatch"
    /\ \E d \in lane[p].item :
          \/ Goto(p, "complete") /\ Accept(d) /\ UNCHANGED excused /\ NoFault
          \/ Goto(p, "fail") /\ Accept(d) /\ Excuse(d) /\ Fault
          \/ Goto(p, "fail") /\ UNCHANGED <<accepted, excused>> /\ Fault
          \/ /\ d[1] \in Revocable
             /\ Goto(p, "failTerminal") /\ UNCHANGED <<accepted, excused>> /\ Fault
    /\ UNCHANGED <<queueVars, active, steady>>

OwnsAttempt(p, d) == Holds(p, delivery[d]) /\ delivery[d].attempts = lane[p].attempt

(* complete(): delivered, if the attempt is still this worker's; otherwise,*)
(* or when the call fails, or its answer is lost, the lane goes on to fail.*)
Complete(p) ==
    /\ lane[p].at = "complete"
    /\ \E d \in lane[p].item :
          \/ /\ OwnsAttempt(p, d)
             /\ delivery' = [delivery EXCEPT ![d] = Done(@)]
             /\ (End(p) /\ NoFault) \/ (Goto(p, "fail") /\ Fault)
             /\ UNCHANGED excused
          \/ /\ ~OwnsAttempt(p, d)
             /\ Goto(p, "fail") /\ UNCHANGED <<delivery, excused>> /\ NoFault
          \/ Goto(p, "fail") /\ Excuse(d) /\ UNCHANGED delivery /\ Fault
    /\ UNCHANGED <<job, active, steady, accepted>>

Failed(row, terminal) ==
    Released(row, IF terminal \/ row.attempts >= MaxAttempts THEN "dead" ELSE "backoff")

(* fail() of a delivery; a terminal answer switches its subscription off.  *)
Fail(p) ==
    /\ lane[p].at \in {"fail", "failTerminal"}
    /\ \E d \in lane[p].item :
          \/ /\ OwnsAttempt(p, d)
             /\ delivery' = [delivery EXCEPT ![d] = Failed(@, lane[p].at = "failTerminal")]
             /\ IF lane[p].at = "failTerminal" THEN SwitchOff(d[1])
                ELSE UNCHANGED <<active, steady>>
             /\ NoFault
          \/ /\ Fault \/ (~OwnsAttempt(p, d) /\ NoFault)
             /\ UNCHANGED <<delivery, active, steady>>
    /\ End(p)
    /\ UNCHANGED <<job, accepted, excused>>

-----------------------------------------------------------------------------
Routes(e) == {d \in Deliveries : d[2] = e /\ active[d[1]]}

Pending == [NoRow EXCEPT !.status = "ready"]

(* Mutant: the insert replaces a row that is there. *)
InsertRoutesOverwriting(e) ==
    delivery' = [d \in Deliveries |-> IF d \in Routes(e) THEN Pending ELSE delivery[d]]

(* The insert of materializeEvent, on conflict do nothing. *)
InsertRoutes(e) ==
    delivery' = [d \in Deliveries |->
        IF d \in Routes(e) /\ delivery[d] = NoRow THEN Pending ELSE delivery[d]]

(* Mutant: an event that could not be routed is completed all the same.    *)
MaterializeSwallowing(p) ==
    /\ lane[p].at = "materialize"
    /\ \E e \in lane[p].item :
          \/ InsertRoutes(e) /\ Goto(p, "completeJob") /\ NoFault
          \/ UNCHANGED delivery /\ Goto(p, "completeJob") /\ Fault
    /\ UNCHANGED <<job, active, historyVars>>

(* materializeEvent commits; commits and the answer is lost; or fails.     *)
Materialize(p) ==
    /\ lane[p].at = "materialize"
    /\ \E e \in lane[p].item :
          \/ InsertRoutes(e) /\ Goto(p, "completeJob") /\ NoFault
          \/ InsertRoutes(e) /\ Goto(p, "failJob") /\ Fault
          \/ UNCHANGED delivery /\ Goto(p, "failJob") /\ Fault
    /\ UNCHANGED <<job, active, historyVars>>

CompleteJob(p) ==
    /\ lane[p].at = "completeJob"
    /\ \E e \in lane[p].item :
          \/ /\ Holds(p, job[e])
             /\ job' = [job EXCEPT ![e] = Done(@)]
             /\ (End(p) /\ NoFault) \/ (Goto(p, "failJob") /\ Fault)
          \/ /\ Fault \/ (~Holds(p, job[e]) /\ NoFault)
             /\ Goto(p, "failJob") /\ UNCHANGED job
    /\ UNCHANGED <<delivery, active, historyVars>>

FailJob(p) ==
    /\ lane[p].at = "failJob"
    /\ \E e \in lane[p].item :
          \/ Holds(p, job[e]) /\ job' = [job EXCEPT ![e] = Failed(@, FALSE)] /\ NoFault
          \/ Fault /\ UNCHANGED job
          \/ ~Holds(p, job[e]) /\ UNCHANGED job /\ NoFault
    /\ End(p)
    /\ UNCHANGED <<delivery, active, historyVars>>

-----------------------------------------------------------------------------
(* A process dies with its lanes and is started again. *)
Crash(p) ==
    /\ Fault
    /\ lane[p] # Joined
    /\ lane' = [lane EXCEPT ![p] = Joined]
    /\ excused' = excused \union (lane[p].item \intersect Deliveries)
    /\ UNCHANGED <<queueVars, active, steady, accepted>>

(* A lease runs out: sooner or later when its process gave the row up, and *)
(* as a fault when it still works on it.                                   *)
RunsOut(item, row) ==
    /\ row.status = "leased"
    /\ IF \E p \in Processes : item \in lane[p].item /\ row.owner = {p} THEN Fault ELSE NoFault

DeliveryLeaseExpires(d) ==
    /\ RunsOut(d, delivery[d])
    /\ delivery' = [delivery EXCEPT ![d].status = "expired"]
    /\ Excuse(d)
    /\ UNCHANGED <<job, active, lane, steady, accepted>>

JobLeaseExpires(e) ==
    /\ RunsOut(e, job[e])
    /\ job' = [job EXCEPT ![e].status = "expired"]
    /\ UNCHANGED <<delivery, active, lane, historyVars>>

DeliveryBackoffElapses(d) ==
    /\ delivery[d].status = "backoff"
    /\ delivery' = [delivery EXCEPT ![d].status = "ready"]
    /\ UNCHANGED <<job, active, lane, trouble, historyVars>>

JobBackoffElapses(e) ==
    /\ job[e].status = "backoff"
    /\ job' = [job EXCEPT ![e].status = "ready"]
    /\ UNCHANGED <<delivery, active, lane, trouble, historyVars>>

-----------------------------------------------------------------------------
Init ==
    /\ job = [e \in Events |-> NoRow]
    /\ delivery = [d \in Deliveries |-> NoRow]
    /\ active = [s \in Subscriptions |-> TRUE]
    /\ lane = [p \in Processes |-> Joined]
    /\ trouble = 0
    /\ steady = {} /\ excused = {}
    /\ accepted = [d \in Deliveries |-> 0]

Lane(p) ==
    \/ \E d \in Deliveries : LeaseDelivery(p, d)
    \/ \E e \in Events : LeaseJob(p, e)
    \/ LeaseNothing(p)
    \/ Dispatch(p) \/ Complete(p) \/ Fail(p)
    \/ Materialize(p) \/ CompleteJob(p) \/ FailJob(p)

Time ==
    \/ \E d \in Deliveries : DeliveryLeaseExpires(d) \/ DeliveryBackoffElapses(d)
    \/ \E e \in Events : JobLeaseExpires(e) \/ JobBackoffElapses(e)

Next ==
    \/ \E p \in Processes : StartCycle(p) \/ OthersJoin(p) \/ Lane(p) \/ Crash(p)
    \/ Time
    \/ \E e \in Events : CommitEvent(e)
    \/ \E s \in Subscriptions : Owner(s)

Fairness ==
    /\ \A p \in Processes :
          WF_vars(StartCycle(p)) /\ WF_vars(OthersJoin(p)) /\ WF_vars(Lane(p))
    /\ WF_vars(Time)

Spec == Init /\ [][Next]_vars /\ Fairness

-----------------------------------------------------------------------------
Rows == [status : Status, attempts : 0 .. MaxAttempts,
         owner : {{}} \union {{p} : p \in Processes}]

Lanes == [at : Stage,
          item : {{}} \union {{d} : d \in Deliveries} \union {{e} : e \in Events},
          attempt : 0 .. MaxAttempts]

(* The types; no row is leased more often than its budget allows.          *)
TypeOK ==
    /\ job \in [Events -> Rows]
    /\ delivery \in [Deliveries -> Rows]
    /\ active \in [Subscriptions -> BOOLEAN]
    /\ lane \in [Processes -> Lanes]
    /\ trouble \in 0 .. MaxTrouble
    /\ steady \subseteq Deliveries /\ excused \subseteq Deliveries
    /\ accepted \in [Deliveries -> 0 .. 2]

(* No subscriber is forgotten: once the outbox is done with an event, each *)
(* subscription for its type that was active from the commit on has a      *)
(* delivery of it, whatever failed in between.                             *)
RoutedReachesSteady ==
    \A d \in steady : job[d[2]].status = "done" => delivery[d].status # "absent"

(* An endpoint takes an event twice only when a lease of that very         *)
(* delivery ran out, its process died or one of its own answers was lost:  *)
(* what goes wrong with the outbox job, or with the delivery to another    *)
(* subscriber, never sends it again.                                       *)
NoNeedlessDuplicate ==
    \A d \in Deliveries : accepted[d] = 2 => d \in excused

(* A row whose attempts were used up by faults. *)
Spent(row) == row.status = "dead" \/ row.attempts = MaxAttempts

(* Every event reaches each subscription that was active from its commit   *)
(* on and has a transport, or attempts are used up by faults, however many *)
(* deliveries are served before the outbox is looked at.                   *)
EventReachesSubscriber ==
    \A d \in Deliveries :
        []<>( /\ d \in steady
              /\ \E p \in Processes : d[1] \in EnabledKinds[p]
              /\ ~Spent(job[d[2]])
              => delivery[d].status = "done" \/ Spent(delivery[d]) )
=============================================================================
