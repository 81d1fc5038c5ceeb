-------------------------- MODULE WorkerCycle_proofs --------------------------
(***************************************************************************)
(* Proofs about WorkerCycle for any number of processes, subscriptions,    *)
(* events, attempts and faults.                                            *)
(***************************************************************************)
EXTENDS WorkerCycle, TLAPS

USE CycleAssumption

-----------------------------------------------------------------------------
(* Type correctness.                                                       *)

DeliveryStages == {"dispatch", "complete", "fail", "failTerminal"}

JobStages == {"materialize", "completeJob", "failJob"}

(* A lane is well typed and holds what its stage works on.                 *)
LaneTypes ==
    /\ lane \in [Processes -> Lanes]
    /\ \A p \in Processes :
          /\ lane[p].at \in DeliveryStages => lane[p].item \subseteq Deliveries
          /\ lane[p].at \in JobStages => lane[p].item \subseteq Events

CycleTyped == TypeOK /\ LaneTypes

LEMMA PairTypes ==
  ASSUME NEW d \in Deliveries
  PROVE  d[1] \in Subscriptions /\ d[2] \in Events
  BY SMT DEF Deliveries

(* A lane holds one thing at a time. *)
LEMMA LaneItem ==
  ASSUME LaneTypes, NEW p \in Processes, NEW item \in lane[p].item
  PROVE  lane[p].item = {item}
<1>1. lane[p].item \in {{}} \union {{d} : d \in Deliveries} \union {{e} : e \in Events}
  BY Zenon DEF LaneTypes, Lanes
<1> QED
  BY <1>1, Zenon

LEMMA GotoKeepsLaneTypes ==
  ASSUME LaneTypes, NEW p \in Processes, NEW next \in Stage, Goto(p, next),
         \/ next \notin DeliveryStages \union JobStages
         \/ next \in DeliveryStages /\ lane[p].at \in DeliveryStages
         \/ next \in JobStages /\ lane[p].at \in JobStages
  PROVE  LaneTypes'
<1>1. lane' \in [Processes -> Lanes]
  BY SMT DEF LaneTypes, Lanes, Goto
<1>2. \A q \in Processes : lane'[q].item = lane[q].item
  BY SMT DEF LaneTypes, Lanes, Goto
<1>3. \A q \in Processes : lane'[q].at = IF q = p THEN next ELSE lane[q].at
  BY SMT DEF LaneTypes, Lanes, Goto
<1>4. DeliveryStages \intersect JobStages = {}
  BY DEF DeliveryStages, JobStages
<1> QED
  BY <1>1, <1>2, <1>3, <1>4, SMT DEF LaneTypes

LEMMA RestKeepsLaneTypes ==
  ASSUME LaneTypes, NEW p \in Processes, NEW rest \in {Joined, Ended},
         lane' = [lane EXCEPT ![p] = rest]
  PROVE  LaneTypes'
<1>1. rest \in Lanes /\ rest.at \notin DeliveryStages \union JobStages
  BY SMT DEF Joined, Ended, Lanes, Stage, DeliveryStages, JobStages
<1> QED
  BY <1>1, SMT DEF LaneTypes

LEMMA EndKeepsLaneTypes ==
  ASSUME LaneTypes, NEW p \in Processes, End(p)
  PROVE  LaneTypes'
  BY RestKeepsLaneTypes DEF End

(* What the updates of the code make of a row. *)
LEMMA RowUpdates ==
  ASSUME NEW row \in Rows
  PROVE  /\ \A p \in Processes : Ready(row) => Taken(row, p) \in Rows
         /\ \A t \in BOOLEAN : Failed(row, t) \in Rows
         /\ Done(row) \in Rows
         /\ \A s \in Status : [row EXCEPT !.status = s] \in Rows
<1>1. row.status \in Status /\ row.attempts \in 0 .. MaxAttempts
  BY DEF Rows
<1>2. ASSUME NEW p \in Processes, Ready(row) PROVE Taken(row, p) \in Rows
  BY <1>2, SMT DEF Ready, Taken, Rows, Status
<1>3. ASSUME NEW s \in Status
      PROVE  [row EXCEPT !.status = s] \in Rows /\ Released(row, s) \in Rows
  BY <1>1, SMT DEF Rows, Released
<1>4. ASSUME NEW t \in BOOLEAN PROVE Failed(row, t) \in Rows
  BY <1>3, Zenon DEF Failed, Status
<1> QED
  BY <1>2, <1>3, <1>4 DEF Done, Status

LEMMA SwitchTypes ==
  ASSUME active \in [Subscriptions -> BOOLEAN], steady \subseteq Deliveries, NEW s,
         \/ SwitchOff(s)
         \/ active' = [active EXCEPT ![s] = TRUE] /\ UNCHANGED steady
         \/ UNCHANGED <<active, steady>>
  PROVE  active' \in [Subscriptions -> BOOLEAN] /\ steady' \subseteq Deliveries
<1>1. steady' \subseteq Deliveries
  BY SMT DEF SwitchOff
<1>2. ASSUME NEW b \in BOOLEAN PROVE [active EXCEPT ![s] = b] \in [Subscriptions -> BOOLEAN]
  BY Zenon
<1> QED
  BY <1>1, <1>2, Zenon DEF SwitchOff

LEMMA FaultTypes ==
  ASSUME trouble \in 0 .. MaxTrouble, Fault \/ NoFault
  PROVE  trouble' \in 0 .. MaxTrouble
  BY SMT DEF Fault, NoFault

(* Every step keeps the tables, the lanes and the histories well typed.    *)
LEMMA CycleTypeStep == CycleTyped /\ [Next]_vars => CycleTyped'
<1> SUFFICES ASSUME CycleTyped, [Next]_vars PROVE CycleTyped'
  OBVIOUS
<1> USE DEF CycleTyped
<1>1. ASSUME NEW p \in Processes, StartCycle(p) \/ OthersJoin(p) PROVE CycleTyped'
  <2>1. LaneTypes'
    BY <1>1, GotoKeepsLaneTypes, Zenon DEF StartCycle, OthersJoin, Stage, DeliveryStages, JobStages
  <2>2. UNCHANGED <<queueVars, active, trouble, historyVars>>
    BY <1>1, Zenon DEF StartCycle, OthersJoin
  <2> QED
    BY <2>1, <2>2, Zenon DEF TypeOK, LaneTypes, queueVars, historyVars, Rows
<1>2. ASSUME NEW p \in Processes, NEW d \in Deliveries, LeaseDelivery(p, d) PROVE CycleTyped'
  <2>1. delivery[d] \in Rows /\ Taken(delivery[d], p) \in Rows
    BY <1>2, RowUpdates DEF TypeOK, LeaseDelivery, Due
  <2>2. delivery' = [delivery EXCEPT ![d] = Taken(delivery[d], p)]
    BY <1>2 DEF LeaseDelivery
  <2>3. delivery' \in [Deliveries -> Rows] /\ delivery'[d] \in Rows
    BY <2>1, <2>2, SMT DEF TypeOK
  <2> DEFINE new == [at |-> "dispatch", item |-> {d}, attempt |-> delivery'[d].attempts]
  <2>4. new \in Lanes
    BY <2>3, SMT DEF Lanes, Rows, Stage
  <2>5. lane' = [lane EXCEPT ![p] = new]
    BY <1>2 DEF LeaseDelivery
  <2>6. new.at \notin JobStages /\ new.item \subseteq Deliveries
    BY DEF JobStages
  <2>7. LaneTypes'
    BY <2>4, <2>5, <2>6, SMT DEF LaneTypes
  <2> QED
    BY <1>2, <2>3, <2>7, Zenon DEF LeaseDelivery, TypeOK, LaneTypes, historyVars, Rows
<1>3. ASSUME NEW p \in Processes, NEW e \in Events, LeaseJob(p, e) PROVE CycleTyped'
  <2>1. job[e] \in Rows /\ Taken(job[e], p) \in Rows
    BY <1>3, RowUpdates DEF TypeOK, LeaseJob
  <2>2. job' \in [Events -> Rows]
    BY <1>3, <2>1, SMT DEF TypeOK, LeaseJob
  <2> DEFINE new == [at |-> "materialize", item |-> {e}, attempt |-> 0]
  <2>4. new \in Lanes
    BY SMT DEF Lanes, Stage
  <2>5. lane' = [lane EXCEPT ![p] = new]
    BY <1>3 DEF LeaseJob
  <2>6. new.at \notin DeliveryStages /\ new.item \subseteq Events
    BY DEF DeliveryStages
  <2>7. LaneTypes'
    BY <2>4, <2>5, <2>6, SMT DEF LaneTypes
  <2> QED
    BY <1>3, <2>2, <2>7, Zenon DEF LeaseJob, TypeOK, LaneTypes, historyVars, Rows
<1>4. ASSUME NEW p \in Processes, LeaseNothing(p) PROVE CycleTyped'
  <2>1. LaneTypes'
    BY <1>4, EndKeepsLaneTypes DEF LeaseNothing
  <2>2. trouble' \in 0 .. MaxTrouble
    BY <1>4, FaultTypes DEF LeaseNothing, TypeOK
  <2> QED
    BY <1>4, <2>1, <2>2, Zenon DEF LeaseNothing, TypeOK, LaneTypes, queueVars, historyVars, Rows
<1>5. ASSUME NEW p \in Processes, Dispatch(p) PROVE CycleTyped'
  <2>1. PICK d \in lane[p].item :
          /\ Goto(p, "complete") \/ Goto(p, "fail") \/ Goto(p, "failTerminal")
          /\ Accept(d) \/ UNCHANGED accepted
          /\ Excuse(d) \/ UNCHANGED excused
          /\ Fault \/ NoFault
    BY <1>5, Zenon DEF Dispatch
  <2>2. lane[p].at \in DeliveryStages /\ d \in Deliveries
    BY <1>5, <2>1, SMT DEF Dispatch, LaneTypes, DeliveryStages
  <2>3. LaneTypes'
    BY <2>1, <2>2, GotoKeepsLaneTypes, Zenon DEF Stage, DeliveryStages
  <2>4. accepted' \in [Deliveries -> 0 .. 2]
    BY <2>1, <2>2, SMT DEF Accept, TypeOK
  <2>5. excused' \subseteq Deliveries
    BY <2>1, <2>2, SMT DEF Excuse, TypeOK
  <2>6. trouble' \in 0 .. MaxTrouble
    BY <2>1, FaultTypes DEF TypeOK
  <2> QED
    BY <1>5, <2>3, <2>4, <2>5, <2>6, Zenon DEF Dispatch, TypeOK, LaneTypes, queueVars, Rows
<1>6. ASSUME NEW p \in Processes, Complete(p) PROVE CycleTyped'
  <2>1. PICK d \in lane[p].item :
          /\ \/ delivery' = [delivery EXCEPT ![d] = Done(@)]
             \/ UNCHANGED delivery
          /\ End(p) \/ Goto(p, "fail")
          /\ Excuse(d) \/ UNCHANGED excused
          /\ Fault \/ NoFault
    BY <1>6, Zenon DEF Complete
  <2>2. lane[p].at \in DeliveryStages /\ d \in Deliveries
    BY <1>6, <2>1, SMT DEF Complete, LaneTypes, DeliveryStages
  <2>3. LaneTypes'
    BY <2>1, <2>2, GotoKeepsLaneTypes, EndKeepsLaneTypes, Zenon DEF Stage, DeliveryStages
  <2>4. delivery' \in [Deliveries -> Rows]
    <3>1. Done(delivery[d]) \in Rows
      BY <2>2, RowUpdates DEF TypeOK
    <3> QED
      BY <2>1, <3>1, SMT DEF TypeOK
  <2>5. excused' \subseteq Deliveries
    BY <2>1, <2>2, SMT DEF Excuse, TypeOK
  <2>6. trouble' \in 0 .. MaxTrouble
    BY <2>1, FaultTypes DEF TypeOK
  <2> QED
    BY <1>6, <2>3, <2>4, <2>5, <2>6, Zenon DEF Complete, TypeOK, LaneTypes, Rows
<1>7. ASSUME NEW p \in Processes, Fail(p) PROVE CycleTyped'
  <2>1. PICK d \in lane[p].item :
          /\ \/ delivery' = [delivery EXCEPT ![d] = Failed(@, lane[p].at = "failTerminal")]
             \/ UNCHANGED delivery
          /\ SwitchOff(d[1]) \/ UNCHANGED <<active, steady>>
          /\ Fault \/ NoFault
    BY <1>7, Zenon DEF Fail
  <2>2. d \in Deliveries
    BY <1>7, <2>1, SMT DEF Fail, LaneTypes, DeliveryStages
  <2>3. LaneTypes'
    BY <1>7, EndKeepsLaneTypes DEF Fail
  <2>4. delivery' \in [Deliveries -> Rows]
    <3>1. Failed(delivery[d], lane[p].at = "failTerminal") \in Rows
      BY <2>2, RowUpdates DEF TypeOK
    <3> QED
      BY <2>1, <3>1, SMT DEF TypeOK
  <2>5. active' \in [Subscriptions -> BOOLEAN] /\ steady' \subseteq Deliveries
    BY <2>1, SwitchTypes DEF TypeOK
  <2>6. trouble' \in 0 .. MaxTrouble
    BY <2>1, FaultTypes DEF TypeOK
  <2> QED
    BY <1>7, <2>3, <2>4, <2>5, <2>6, Zenon DEF Fail, TypeOK, LaneTypes, Rows
<1>8. ASSUME NEW p \in Processes, Materialize(p) PROVE CycleTyped'
  <2>1. PICK e \in lane[p].item :
          /\ InsertRoutes(e) \/ UNCHANGED delivery
          /\ Goto(p, "completeJob") \/ Goto(p, "failJob")
          /\ Fault \/ NoFault
    BY <1>8, Zenon DEF Materialize
  <2>2. LaneTypes'
    BY <1>8, <2>1, GotoKeepsLaneTypes, Zenon DEF Materialize, Stage, JobStages
  <2>3. Pending \in Rows
    BY SMT DEF Pending, NoRow, Rows, Status
  <2>4. delivery' \in [Deliveries -> Rows]
    BY <2>1, <2>3, SMT DEF InsertRoutes, TypeOK
  <2>5. trouble' \in 0 .. MaxTrouble
    BY <2>1, FaultTypes DEF TypeOK
  <2> QED
    BY <1>8, <2>2, <2>4, <2>5, Zenon DEF Materialize, TypeOK, LaneTypes, historyVars, Rows
<1>9. ASSUME NEW p \in Processes, CompleteJob(p) PROVE CycleTyped'
  <2>1. PICK e \in lane[p].item :
          /\ \/ job' = [job EXCEPT ![e] = Done(@)]
             \/ UNCHANGED job
          /\ End(p) \/ Goto(p, "failJob")
          /\ Fault \/ NoFault
    BY <1>9, Zenon DEF CompleteJob
  <2>2. lane[p].at \in JobStages /\ e \in Events
    BY <1>9, <2>1, SMT DEF CompleteJob, LaneTypes, JobStages
  <2>3. LaneTypes'
    BY <2>1, <2>2, GotoKeepsLaneTypes, EndKeepsLaneTypes, Zenon DEF Stage, JobStages
  <2>4. job' \in [Events -> Rows]
    <3>1. Done(job[e]) \in Rows
      BY <2>2, RowUpdates DEF TypeOK
    <3> QED
      BY <2>1, <3>1, SMT DEF TypeOK
  <2>5. trouble' \in 0 .. MaxTrouble
    BY <2>1, FaultTypes DEF TypeOK
  <2> QED
    BY <1>9, <2>3, <2>4, <2>5, Zenon DEF CompleteJob, TypeOK, LaneTypes, historyVars, Rows
<1>10. ASSUME NEW p \in Processes, FailJob(p) PROVE CycleTyped'
  <2>1. PICK e \in lane[p].item :
          /\ job' = [job EXCEPT ![e] = Failed(@, FALSE)] \/ UNCHANGED job
          /\ Fault \/ NoFault
    BY <1>10, Zenon DEF FailJob
  <2>2. e \in Events
    BY <1>10, <2>1, SMT DEF FailJob, LaneTypes, JobStages
  <2>3. LaneTypes'
    BY <1>10, EndKeepsLaneTypes DEF FailJob
  <2>4. job' \in [Events -> Rows]
    <3> DEFINE failed == Failed(job[e], FALSE)
    <3>1. failed \in Rows
      BY <2>2, RowUpdates DEF TypeOK
    <3>2. job' = [job EXCEPT ![e] = failed] \/ UNCHANGED job
      BY <2>1
    <3> HIDE DEF failed
    <3> QED
      BY <3>1, <3>2, SMT DEF TypeOK
  <2>5. trouble' \in 0 .. MaxTrouble
    BY <2>1, FaultTypes DEF TypeOK
  <2> QED
    BY <1>10, <2>3, <2>4, <2>5, Zenon DEF FailJob, TypeOK, LaneTypes, historyVars, Rows
<1>11. ASSUME NEW p \in Processes, Crash(p) PROVE CycleTyped'
  <2>1. LaneTypes'
    BY <1>11, RestKeepsLaneTypes DEF Crash
  <2>2. trouble' \in 0 .. MaxTrouble
    BY <1>11, FaultTypes DEF Crash, TypeOK
  <2>3. excused' \subseteq Deliveries
    BY <1>11, SMT DEF Crash, TypeOK
  <2> QED
    BY <1>11, <2>1, <2>2, <2>3, Zenon DEF Crash, TypeOK, LaneTypes, queueVars, Rows
<1>12. ASSUME NEW d \in Deliveries, DeliveryLeaseExpires(d) \/ DeliveryBackoffElapses(d)
       PROVE  CycleTyped'
  <2>1. /\ UNCHANGED <<job, active, lane, steady, accepted>>
        /\ Excuse(d) \/ UNCHANGED excused
        /\ Fault \/ NoFault
        /\ \/ delivery' = [delivery EXCEPT ![d].status = "expired"]
           \/ delivery' = [delivery EXCEPT ![d].status = "ready"]
    BY <1>12, Zenon DEF DeliveryLeaseExpires, DeliveryBackoffElapses, RunsOut, NoFault, historyVars
  <2>2. delivery' \in [Deliveries -> Rows]
    <3>1. \A t \in Status : [delivery[d] EXCEPT !.status = t] \in Rows
      BY RowUpdates DEF TypeOK
    <3> QED
      BY <2>1, <3>1, SMT DEF TypeOK, Status
  <2>3. excused' \subseteq Deliveries
    BY <2>1, SMT DEF Excuse, TypeOK
  <2>4. trouble' \in 0 .. MaxTrouble
    BY <2>1, FaultTypes DEF TypeOK
  <2> QED
    BY <2>1, <2>2, <2>3, <2>4, Zenon DEF TypeOK, LaneTypes, Rows
<1>13. ASSUME NEW e \in Events, JobLeaseExpires(e) \/ JobBackoffElapses(e) PROVE CycleTyped'
  <2>1. /\ UNCHANGED <<delivery, active, lane, historyVars>>
        /\ Fault \/ NoFault
        /\ \/ job' = [job EXCEPT ![e].status = "expired"]
           \/ job' = [job EXCEPT ![e].status = "ready"]
    BY <1>13, Zenon DEF JobLeaseExpires, JobBackoffElapses, RunsOut, NoFault
  <2>2. job' \in [Events -> Rows]
    <3>1. \A t \in Status : [job[e] EXCEPT !.status = t] \in Rows
      BY RowUpdates DEF TypeOK
    <3> QED
      BY <2>1, <3>1, SMT DEF TypeOK, Status
  <2>4. trouble' \in 0 .. MaxTrouble
    BY <2>1, FaultTypes DEF TypeOK
  <2> QED
    BY <2>1, <2>2, <2>4, Zenon DEF TypeOK, LaneTypes, historyVars, Rows
<1>14. ASSUME NEW e \in Events, CommitEvent(e) PROVE CycleTyped'
  <2>1. job' \in [Events -> Rows]
    <3>1. [job[e] EXCEPT !.status = "ready"] \in Rows
      BY RowUpdates DEF TypeOK, Status
    <3> QED
      BY <1>14, <3>1, SMT DEF CommitEvent, TypeOK
  <2>2. steady' \subseteq Deliveries
    BY <1>14, SMT DEF CommitEvent, TypeOK
  <2> QED
    BY <1>14, <2>1, <2>2, Zenon DEF CommitEvent, TypeOK, LaneTypes, Rows
<1>15. ASSUME NEW s \in Subscriptions, Owner(s) PROVE CycleTyped'
  <2>1. active' \in [Subscriptions -> BOOLEAN] /\ steady' \subseteq Deliveries
    BY <1>15, SwitchTypes DEF Owner, TypeOK
  <2>2. trouble' \in 0 .. MaxTrouble
    BY <1>15, FaultTypes DEF Owner, TypeOK
  <2> QED
    BY <1>15, <2>1, <2>2, Zenon DEF Owner, TypeOK, LaneTypes, queueVars, Rows
<1>16. CASE UNCHANGED vars
  BY <1>16, Zenon DEF vars, queueVars, historyVars, TypeOK, LaneTypes, Rows
<1> QED
  BY <1>1, <1>2, <1>3, <1>4, <1>5, <1>6, <1>7, <1>8, <1>9, <1>10, <1>11, <1>12, <1>13,
     <1>14, <1>15, <1>16, Zenon DEF Next, Lane, Time

LEMMA CycleTypeInit == Init => CycleTyped
<1> SUFFICES ASSUME Init PROVE CycleTyped
  OBVIOUS
<1>1. NoRow \in Rows /\ Joined \in Lanes
  BY SMT DEF NoRow, Rows, Status, Joined, Lanes, Stage
<1>2. Joined.at \notin DeliveryStages \union JobStages
  BY SMT DEF Joined, DeliveryStages, JobStages
<1> QED
  BY <1>1, <1>2, SMT DEF Init, CycleTyped, TypeOK, LaneTypes

LEMMA CycleTypedAlways == Spec => []CycleTyped
  BY CycleTypeInit, CycleTypeStep, PTL DEF Spec

(* Every reachable state of the composition is well typed, and no row of   *)
(* either queue is leased more often than its budget allows.               *)
THEOREM CycleTypeCorrect == Spec => []TypeOK
<1>1. CycleTyped => TypeOK
  BY DEF CycleTyped
<1> QED
  BY <1>1, CycleTypedAlways, PTL

-----------------------------------------------------------------------------
(* Nobody is forgotten.                                                    *)

(* A lane that is about to complete the job of an event has put a delivery *)
(* of it into the table for everybody who was there all the time.          *)
CompletesRouted ==
    \A p \in Processes : lane[p].at = "completeJob" =>
        \A e \in lane[p].item : \A d \in steady :
            d[2] = e => delivery[d].status # "absent"

(* The commit of an event comes before any lane works on its job.          *)
WorksOnCommitted ==
    \A p \in Processes : lane[p].at \in JobStages =>
        \A e \in lane[p].item : job[e].status # "absent"

SteadyIsActive == \A d \in steady : active[d[1]]

AbsentIsBlank == \A d \in Deliveries : delivery[d].status = "absent" => delivery[d] = NoRow

RoutedInv ==
    /\ RoutedReachesSteady /\ CompletesRouted
    /\ WorksOnCommitted /\ SteadyIsActive /\ AbsentIsBlank

(* The rows that are there stay there. *)
DeliveriesStay ==
    \A d \in Deliveries : delivery'[d] = delivery[d] \/ delivery'[d].status # "absent"

JobsStay ==
    \A e \in Events : \/ job'[e] = job[e]
                      \/ job[e].status # "absent" /\ job'[e].status \notin {"absent", "done"}

(* A lane that moves, or rests, without taking a job up or routing one. *)
LanesStay ==
    \A p \in Processes :
        \/ lane'[p] = lane[p]
        \/ lane'[p].at \notin JobStages
        \/ /\ lane[p].at \in JobStages /\ lane'[p].at # "completeJob"
           /\ lane'[p].item = lane[p].item

(* Most steps change none of what RoutedInv is about. *)
LEMMA QuietStep ==
  ASSUME CycleTyped, RoutedInv, DeliveriesStay, JobsStay, LanesStay,
         steady' \subseteq steady, SteadyIsActive'
  PROVE  RoutedInv'
<1>1. AbsentIsBlank'
  BY SMT DEF RoutedInv, AbsentIsBlank, DeliveriesStay
<1>2. \A d \in steady' : d \in Deliveries /\ d[2] \in Events
  BY PairTypes DEF CycleTyped, TypeOK
<1>3. RoutedReachesSteady'
  BY <1>2, SMT DEF RoutedInv, RoutedReachesSteady, DeliveriesStay, JobsStay
<1>4. WorksOnCommitted'
  BY SMT DEF RoutedInv, WorksOnCommitted, JobsStay, LanesStay, CycleTyped, LaneTypes, JobStages
<1>5. CompletesRouted'
  BY <1>2, SMT DEF RoutedInv, CompletesRouted, DeliveriesStay, LanesStay, JobStages
<1> QED
  BY <1>1, <1>3, <1>4, <1>5 DEF RoutedInv

LEMMA MovesStay ==
  ASSUME LaneTypes, NEW p \in Processes,
         \/ Goto(p, "joined") \/ Goto(p, "lease")
         \/ Goto(p, "complete") \/ Goto(p, "fail") \/ Goto(p, "failTerminal")
         \/ lane[p].at \in JobStages /\ Goto(p, "failJob")
         \/ End(p) \/ lane' = [lane EXCEPT ![p] = Joined]
  PROVE  LanesStay
<1>1. CASE End(p) \/ lane' = [lane EXCEPT ![p] = Joined]
  BY <1>1, SMT DEF LaneTypes, LanesStay, End, Ended, Joined, JobStages
<1>2. CASE ~(End(p) \/ lane' = [lane EXCEPT ![p] = Joined])
  BY <1>2, SMT DEF LaneTypes, Lanes, LanesStay, Goto, JobStages
<1> QED
  BY <1>1, <1>2

LEMMA RoutedStep == CycleTyped /\ RoutedInv /\ [Next]_vars => RoutedInv'
<1> SUFFICES ASSUME CycleTyped, RoutedInv, [Next]_vars PROVE RoutedInv'
  OBVIOUS
<1>0. /\ LaneTypes
      /\ job \in [Events -> Rows] /\ delivery \in [Deliveries -> Rows]
      /\ active \in [Subscriptions -> BOOLEAN]
      /\ steady \subseteq Deliveries
  BY DEF CycleTyped, TypeOK
<1>a. \A d \in steady : d \in Deliveries /\ d[1] \in Subscriptions /\ d[2] \in Events
  BY <1>0, PairTypes
<1>b. delivery' = delivery => DeliveriesStay
  BY Zenon DEF DeliveriesStay
<1>c. job' = job => JobsStay
  BY Zenon DEF JobsStay
<1>d. active' = active /\ steady' = steady => steady' \subseteq steady /\ SteadyIsActive'
  BY Zenon DEF RoutedInv, SteadyIsActive
<1>e. lane' = lane => LanesStay
  BY Zenon DEF LanesStay
<1>f. ASSUME NEW s, SwitchOff(s) PROVE steady' \subseteq steady /\ SteadyIsActive'
  BY <1>f, <1>0, <1>a, SMT DEF SwitchOff, RoutedInv, SteadyIsActive
<1>1. ASSUME NEW p \in Processes, StartCycle(p) \/ OthersJoin(p) PROVE RoutedInv'
  BY <1>0, <1>1, <1>b, <1>c, <1>d, MovesStay, QuietStep
     DEF StartCycle, OthersJoin, queueVars, historyVars
<1>2. ASSUME NEW p \in Processes, NEW d \in Deliveries, LeaseDelivery(p, d) PROVE RoutedInv'
  <2>1. DeliveriesStay
    BY <1>0, <1>2, SMT DEF LeaseDelivery, DeliveriesStay, Taken
  <2>2. LanesStay
    BY <1>0, <1>2, SMT DEF LeaseDelivery, LanesStay, LaneTypes, JobStages
  <2> QED
    BY <1>2, <1>c, <1>d, <2>1, <2>2, QuietStep DEF LeaseDelivery, historyVars
<1>3. ASSUME NEW p \in Processes, NEW e \in Events, LeaseJob(p, e) PROVE RoutedInv'
  <2>1. job[e].status # "absent" /\ job' = [job EXCEPT ![e] = Taken(job[e], p)]
    BY <1>3, SMT DEF LeaseJob, Ready
  <2>2. JobsStay
    BY <1>0, <2>1, SMT DEF JobsStay, Taken
  <2>3. DeliveriesStay /\ steady' = steady /\ SteadyIsActive' /\ AbsentIsBlank'
    BY <1>3, <1>b, <1>d, Zenon DEF LeaseJob, historyVars, RoutedInv, AbsentIsBlank
  <2>4. RoutedReachesSteady'
    BY <1>3, <1>a, <2>2, SMT DEF LeaseJob, historyVars, JobsStay, RoutedInv, RoutedReachesSteady
  <2>5. lane' = [lane EXCEPT ![p] = [at |-> "materialize", item |-> {e}, attempt |-> 0]]
    BY <1>3 DEF LeaseJob
  <2>6. CompletesRouted'
    BY <1>0, <1>3, <2>5, SMT DEF LeaseJob, historyVars, RoutedInv, CompletesRouted, LaneTypes
  <2>7. WorksOnCommitted'
    BY <1>0, <2>1, <2>2, <2>5, SMT
       DEF RoutedInv, WorksOnCommitted, LaneTypes, JobsStay
  <2> QED
    BY <2>3, <2>4, <2>6, <2>7 DEF RoutedInv
<1>4. ASSUME NEW p \in Processes, LeaseNothing(p) PROVE RoutedInv'
  BY <1>0, <1>4, <1>b, <1>c, <1>d, MovesStay, QuietStep
     DEF LeaseNothing, queueVars, historyVars
<1>5. ASSUME NEW p \in Processes, Dispatch(p) PROVE RoutedInv'
  <2>1. Goto(p, "complete") \/ Goto(p, "fail") \/ Goto(p, "failTerminal")
    BY <1>5, Zenon DEF Dispatch
  <2> QED
    BY <1>0, <1>5, <2>1, <1>b, <1>c, <1>d, MovesStay, QuietStep DEF Dispatch, queueVars
<1>6. ASSUME NEW p \in Processes, Complete(p) PROVE RoutedInv'
  <2>1. PICK d \in lane[p].item : \/ delivery' = [delivery EXCEPT ![d] = Done(@)]
                                 \/ UNCHANGED delivery
    BY <1>6, Zenon DEF Complete
  <2>2. End(p) \/ Goto(p, "fail")
    BY <1>6, Zenon DEF Complete
  <2>3. DeliveriesStay
    BY <1>0, <2>1, SMT DEF DeliveriesStay, Done, Released
  <2> QED
    BY <1>0, <1>6, <2>2, <2>3, <1>c, <1>d, MovesStay, QuietStep DEF Complete
<1>7. ASSUME NEW p \in Processes, Fail(p) PROVE RoutedInv'
  <2>1. PICK d \in lane[p].item :
          /\ \/ delivery' = [delivery EXCEPT ![d] = Failed(@, lane[p].at = "failTerminal")]
             \/ UNCHANGED delivery
          /\ SwitchOff(d[1]) \/ UNCHANGED <<active, steady>>
    BY <1>7, Zenon DEF Fail
  <2>2. DeliveriesStay
    <3>1. Failed(delivery[d], lane[p].at = "failTerminal").status # "absent"
      BY Zenon DEF Failed, Released
    <3> QED
      BY <1>0, <2>1, <3>1, SMT DEF DeliveriesStay
  <2>3. steady' \subseteq steady /\ SteadyIsActive'
    BY <2>1, <1>d, <1>f
  <2> QED
    BY <1>0, <1>7, <2>2, <2>3, <1>c, MovesStay, QuietStep DEF Fail
<1>8. ASSUME NEW p \in Processes, Materialize(p) PROVE RoutedInv'
  <2>1. PICK e \in lane[p].item :
          \/ InsertRoutes(e) /\ Goto(p, "completeJob")
          \/ Goto(p, "failJob") /\ (InsertRoutes(e) \/ UNCHANGED delivery)
    BY <1>8, Zenon DEF Materialize
  <2>2. lane[p].at \in JobStages /\ UNCHANGED <<job, active, historyVars>>
    BY <1>8 DEF Materialize, JobStages
  <2>3. DeliveriesStay
    BY <1>0, <2>1, SMT DEF InsertRoutes, Pending, NoRow, DeliveriesStay
  <2>4. CASE Goto(p, "failJob")
    BY <1>0, <2>2, <2>3, <2>4, <1>c, <1>d, MovesStay, QuietStep DEF historyVars
  <2>5. CASE InsertRoutes(e) /\ Goto(p, "completeJob")
    <3>1. \A d \in steady : d[2] = e => delivery'[d].status # "absent"
      BY <1>a, <2>5, SMT
         DEF InsertRoutes, Routes, Pending, NoRow, RoutedInv, SteadyIsActive, AbsentIsBlank
    <3>2. /\ \A q \in Processes : lane'[q].item = lane[q].item
          /\ \A q \in Processes : lane'[q].at = IF q = p THEN "completeJob" ELSE lane[q].at
      BY <1>0, <2>5, SMT DEF Goto, LaneTypes, Lanes
    <3>3. /\ AbsentIsBlank'
      BY <2>3, SMT DEF RoutedInv, AbsentIsBlank, DeliveriesStay
    <3>4. RoutedReachesSteady'
      BY <1>a, <2>2, <2>3, SMT DEF historyVars, RoutedInv, RoutedReachesSteady, DeliveriesStay
    <3>5. WorksOnCommitted'
      BY <2>2, <3>2, SMT DEF RoutedInv, WorksOnCommitted, JobStages
    <3>6. lane'[p].item = {e}
      BY <1>0, <2>1, <3>2, LaneItem
    <3>7. CompletesRouted'
      BY <1>a, <2>2, <2>3, <3>1, <3>2, <3>6, SMT
         DEF historyVars, RoutedInv, CompletesRouted, DeliveriesStay
    <3> QED
      BY <1>d, <2>2, <3>3, <3>4, <3>5, <3>7 DEF RoutedInv, historyVars
  <2> QED
    BY <2>1, <2>4, <2>5
<1>9. ASSUME NEW p \in Processes, CompleteJob(p) PROVE RoutedInv'
  <2>1. PICK e \in lane[p].item :
          /\ job' = [job EXCEPT ![e] = Done(@)] \/ UNCHANGED job
          /\ End(p) \/ Goto(p, "failJob")
    BY <1>9, Zenon DEF CompleteJob
  <2>2. /\ UNCHANGED <<delivery, active, steady>>
        /\ lane[p].at = "completeJob" /\ lane[p].at \in JobStages
        /\ e \in Events
    BY <1>0, <1>9, <2>1, SMT DEF CompleteJob, historyVars, LaneTypes, JobStages
  <2>3. LanesStay
    BY <1>0, <2>1, <2>2, MovesStay
  <2>4. /\ \A f \in Events : f # e => job'[f] = job[f]
        /\ \A f \in Events : job[f].status # "absent" => job'[f].status # "absent"
    BY <1>0, <2>1, SMT DEF Done, Released
  <2>5. \A d \in steady : d[2] = e => delivery[d].status # "absent"
    BY <2>1, <2>2, Zenon DEF RoutedInv, CompletesRouted
  <2>6. RoutedReachesSteady'
    BY <1>a, <2>2, <2>4, <2>5, SMT DEF RoutedInv, RoutedReachesSteady
  <2>7. CompletesRouted'
    BY <2>2, <2>3, SMT DEF RoutedInv, CompletesRouted, LanesStay, JobStages
  <2>8. WorksOnCommitted'
    BY <1>0, <2>3, <2>4, SMT DEF RoutedInv, WorksOnCommitted, LanesStay, LaneTypes
  <2>9. SteadyIsActive' /\ AbsentIsBlank'
    BY <2>2, Zenon DEF RoutedInv, SteadyIsActive, AbsentIsBlank
  <2> QED
    BY <2>6, <2>7, <2>8, <2>9 DEF RoutedInv
<1>10. ASSUME NEW p \in Processes, FailJob(p) PROVE RoutedInv'
  <2>1. PICK e \in lane[p].item : job' = [job EXCEPT ![e] = Failed(@, FALSE)] \/ UNCHANGED job
    BY <1>10, Zenon DEF FailJob
  <2>2. e \in Events /\ job[e].status # "absent"
    BY <1>0, <1>10, <2>1, SMT DEF FailJob, LaneTypes, RoutedInv, WorksOnCommitted, JobStages
  <2>3. JobsStay
    <3> DEFINE failed == Failed(job[e], FALSE)
    <3>1. failed.status \notin {"absent", "done"}
      BY Zenon DEF Failed, Released
    <3>2. job' = [job EXCEPT ![e] = failed] \/ UNCHANGED job
      BY <2>1
    <3> HIDE DEF failed
    <3> QED
      BY <1>0, <2>2, <3>1, <3>2, SMT DEF JobsStay
  <2> QED
    BY <1>0, <1>10, <2>3, <1>b, <1>d, MovesStay, QuietStep DEF FailJob, historyVars
<1>11. ASSUME NEW p \in Processes, Crash(p) PROVE RoutedInv'
  BY <1>0, <1>11, <1>b, <1>c, <1>d, MovesStay, QuietStep DEF Crash, queueVars
<1>12. ASSUME NEW d \in Deliveries, DeliveryLeaseExpires(d) \/ DeliveryBackoffElapses(d)
       PROVE  RoutedInv'
  <2>1. /\ UNCHANGED <<job, active, lane, steady>>
        /\ \/ delivery' = [delivery EXCEPT ![d].status = "expired"]
           \/ delivery' = [delivery EXCEPT ![d].status = "ready"]
    BY <1>12, Zenon DEF DeliveryLeaseExpires, DeliveryBackoffElapses, historyVars
  <2>2. DeliveriesStay
    BY <1>0, <2>1, SMT DEF DeliveriesStay, Rows
  <2> QED
    BY <2>1, <2>2, <1>c, <1>d, <1>e, QuietStep
<1>13. ASSUME NEW e \in Events, JobLeaseExpires(e) \/ JobBackoffElapses(e) PROVE RoutedInv'
  <2>1. /\ UNCHANGED <<delivery, active, lane, steady>>
        /\ job[e].status \in {"leased", "backoff"}
        /\ \/ job' = [job EXCEPT ![e].status = "expired"]
           \/ job' = [job EXCEPT ![e].status = "ready"]
    BY <1>13, Zenon DEF JobLeaseExpires, JobBackoffElapses, RunsOut, historyVars
  <2>2. JobsStay
    BY <1>0, <2>1, SMT DEF JobsStay, Rows
  <2> QED
    BY <2>1, <2>2, <1>b, <1>d, <1>e, QuietStep
<1>14. ASSUME NEW e \in Events, CommitEvent(e) PROVE RoutedInv'
  <2>1. /\ job[e].status = "absent" /\ job' = [job EXCEPT ![e].status = "ready"]
        /\ steady' = steady \union {d \in Deliveries : d[2] = e /\ active[d[1]]}
        /\ UNCHANGED <<delivery, active, lane>>
    BY <1>14, Zenon DEF CommitEvent
  <2>2. /\ job'[e].status = "ready"
        /\ \A f \in Events : f # e => job'[f] = job[f]
    BY <1>0, <2>1, SMT DEF Rows
  <2>3. SteadyIsActive' /\ AbsentIsBlank'
    BY <2>1, SMT DEF RoutedInv, SteadyIsActive, AbsentIsBlank
  <2>4. \A d \in steady' : d[2] \in Events /\ (d \in steady \/ d[2] = e)
    BY <2>1, <1>a, SMT
  <2>5. RoutedReachesSteady'
    BY <2>1, <2>2, <2>4, SMT DEF RoutedInv, RoutedReachesSteady
  <2>6. \A p \in Processes : lane[p].at \in JobStages => e \notin lane[p].item
    BY <2>1, SMT DEF RoutedInv, WorksOnCommitted
  <2>7. CompletesRouted'
    BY <2>1, <2>4, <2>6, SMT DEF RoutedInv, CompletesRouted, JobStages
  <2>8. WorksOnCommitted'
    BY <1>0, <2>1, <2>2, <2>6, SMT DEF RoutedInv, WorksOnCommitted, LaneTypes
  <2> QED
    BY <2>3, <2>5, <2>7, <2>8 DEF RoutedInv
<1>15. ASSUME NEW s \in Subscriptions, Owner(s) PROVE RoutedInv'
  <2>1. steady' \subseteq steady /\ SteadyIsActive'
    <3>1. CASE SwitchOff(s)
      BY <3>1, <1>f
    <3>2. CASE ~active[s] /\ active' = [active EXCEPT ![s] = TRUE] /\ UNCHANGED steady
      BY <3>2, <1>0, <1>a, SMT DEF RoutedInv, SteadyIsActive
    <3> QED
      BY <1>15, <3>1, <3>2, Zenon DEF Owner
  <2> QED
    BY <1>15, <2>1, <1>b, <1>c, <1>e, QuietStep DEF Owner, queueVars
<1>16. CASE UNCHANGED vars
  BY <1>16, <1>b, <1>c, <1>d, <1>e, QuietStep DEF vars, queueVars, historyVars
<1> QED
  BY <1>1, <1>2, <1>3, <1>4, <1>5, <1>6, <1>7, <1>8, <1>9, <1>10, <1>11, <1>12, <1>13,
     <1>14, <1>15, <1>16, Zenon DEF Next, Lane, Time

LEMMA RoutedInit == Init => RoutedInv
  BY SMT DEF Init, RoutedInv, RoutedReachesSteady, CompletesRouted, WorksOnCommitted,
             SteadyIsActive, AbsentIsBlank, NoRow, Joined, JobStages

(* Once the outbox is done with an event, everybody who subscribed to its  *)
(* type all the time has a delivery of it.                                 *)
THEOREM CycleRoutedReachesSteady == Spec => []RoutedReachesSteady
<1>1. RoutedInv => RoutedReachesSteady
  BY DEF RoutedInv
<1> QED
  BY <1>1, CycleTypedAlways, RoutedInit, RoutedStep, PTL DEF Spec

-----------------------------------------------------------------------------
(* No needless duplicate.                                                  *)

Serves(p, d, stages) == lane[p].at \in stages /\ d \in lane[p].item

Live(p, d) == OwnsAttempt(p, d) /\ delivery[d].status = "leased"

(* What is true of a delivery none of whose leases ran out and none of     *)
(* whose lanes died or lost an answer: whoever works on it owns the        *)
(* attempt, and nobody is left to send it again once it was taken.         *)
Clean(d) ==
    /\ delivery[d].status # "expired"
    /\ accepted[d] # 2
    /\ \A p \in Processes :
          /\ Serves(p, d, {"dispatch", "complete", "failTerminal"}) => Live(p, d)
          /\ Serves(p, d, {"dispatch", "failTerminal"}) => accepted[d] = 0
          /\ Serves(p, d, {"fail"}) =>
                (Live(p, d) /\ accepted[d] = 0) \/ delivery[d].status = "done"
    /\ accepted[d] # 0 =>
          delivery[d].status = "done" \/ \E p \in Processes : Serves(p, d, {"complete"})

DuplicateInv == \A d \in Deliveries : d \notin excused => Clean(d)

(* A step that is not about d. *)
Apart(d) ==
    /\ delivery'[d] = delivery[d] /\ accepted'[d] = accepted[d]
    /\ \A p \in Processes :
          \/ lane'[p] = lane[p]
          \/ ~Serves(p, d, {"complete"}) /\ ~Serves(p, d, DeliveryStages)'

LEMMA ApartStep ==
  ASSUME NEW d, Clean(d), Apart(d)
  PROVE  Clean(d)'
  BY SMT DEF Clean, Apart, Serves, Live, OwnsAttempt, Holds, DeliveryStages

(* Only one lane works on a clean delivery. *)
LEMMA OneServes ==
  ASSUME NEW d, Clean(d), NEW p \in Processes, NEW q \in Processes,
         Serves(p, d, {"dispatch", "complete", "failTerminal"}),
         Serves(q, d, {"dispatch", "complete", "failTerminal"})
  PROVE  p = q
<1>1. Live(p, d) /\ Live(q, d)
  BY Zenon DEF Clean
<1> QED
  BY <1>1, SMT DEF Live, OwnsAttempt, Holds

(* A row that waits was not taken, and no lane works on it. *)
LEMMA WaitingIsUntouched ==
  ASSUME NEW d, Clean(d), delivery[d].status \notin {"leased", "done"}
  PROVE  /\ accepted[d] = 0
         /\ \A p \in Processes : ~Serves(p, d, DeliveryStages)
  BY SMT DEF Clean, Serves, Live, DeliveryStages

LEMMA MovesApart ==
  ASSUME LaneTypes, NEW p \in Processes, NEW next \in Stage, Goto(p, next)
  PROVE  /\ \A q \in Processes : q # p => lane'[q] = lane[q]
         /\ lane'[p].item = lane[p].item /\ lane'[p].attempt = lane[p].attempt
         /\ lane'[p].at = next
  BY SMT DEF LaneTypes, Lanes, Goto

LEMMA EndApart ==
  ASSUME LaneTypes, NEW p \in Processes, End(p) \/ lane' = [lane EXCEPT ![p] = Joined]
  PROVE  /\ \A q \in Processes : q # p => lane'[q] = lane[q]
         /\ lane'[p].item = {} /\ lane'[p].at \notin DeliveryStages
  BY SMT DEF LaneTypes, Lanes, End, Ended, Joined, DeliveryStages

LEMMA DuplicateStep == CycleTyped /\ DuplicateInv /\ [Next]_vars => DuplicateInv'
<1> SUFFICES ASSUME CycleTyped, DuplicateInv, [Next]_vars,
                    NEW d \in Deliveries, d \notin excused'
             PROVE  Clean(d)'
  BY DEF DuplicateInv
<1>0. /\ LaneTypes
      /\ delivery \in [Deliveries -> Rows] /\ accepted \in [Deliveries -> 0 .. 2]
  BY DEF CycleTyped, TypeOK
<1>a. ASSUME d \notin excused PROVE Clean(d)
  BY <1>a DEF DuplicateInv
<1>1. ASSUME NEW p \in Processes, StartCycle(p) \/ OthersJoin(p) PROVE Clean(d)'
  <2>1. /\ Goto(p, "lease") \/ Goto(p, "joined")
        /\ lane[p].at \in {"joined", "ended"}
        /\ UNCHANGED <<delivery, accepted, excused>>
    BY <1>1, Zenon DEF StartCycle, OthersJoin, queueVars, historyVars
  <2>2. Apart(d)
    BY <1>0, <2>1, MovesApart, SMT DEF Apart, Serves, DeliveryStages, Stage
  <2> QED
    BY <1>a, <2>1, <2>2, ApartStep
<1>2. ASSUME NEW p \in Processes, NEW c \in Deliveries, LeaseDelivery(p, c) PROVE Clean(d)'
  <2>1. /\ lane[p].at = "lease" /\ delivery[c].status \in {"ready", "expired"}
        /\ delivery' = [delivery EXCEPT ![c] = Taken(delivery[c], p)]
        /\ lane' = [lane EXCEPT ![p] =
                      [at |-> "dispatch", item |-> {c}, attempt |-> delivery'[c].attempts]]
        /\ UNCHANGED <<accepted, excused>>
    BY <1>2, Zenon DEF LeaseDelivery, Due, Ready, historyVars
  <2>2. Clean(d)
    BY <1>a, <2>1
  <2>3. /\ \A q \in Processes : q # p => lane'[q] = lane[q]
        /\ lane'[p].item = {c} /\ lane'[p].at = "dispatch"
        /\ lane'[p].attempt = delivery'[c].attempts
    BY <1>0, <2>1, SMT DEF LaneTypes
  <2>4. CASE c # d
    <3>1. delivery'[d] = delivery[d]
      BY <1>0, <2>1, <2>4, SMT
    <3>2. Apart(d)
      BY <2>1, <2>3, <2>4, <3>1, SMT DEF Apart, Serves
    <3> QED
      BY <2>2, <3>2, ApartStep
  <2>5. CASE c = d
    <3>1. delivery'[d].status = "leased" /\ delivery'[d].owner = {p}
      BY <1>0, <2>1, <2>5, SMT DEF Taken
    <3>2. accepted[d] = 0 /\ \A q \in Processes : ~Serves(q, d, DeliveryStages)
      BY <2>1, <2>2, <2>5, WaitingIsUntouched, SMT
    <3>3. Live(p, d)' /\ Serves(p, d, {"dispatch"})'
      BY <2>3, <2>5, <3>1, SMT DEF Live, OwnsAttempt, Holds, Serves
    <3>4. \A q \in Processes : q # p => ~Serves(q, d, DeliveryStages)'
      BY <2>3, <3>2, SMT DEF Serves
    <3> QED
      BY <2>1, <3>1, <3>2, <3>3, <3>4, SMT DEF Clean, Serves, DeliveryStages
  <2> QED
    BY <2>4, <2>5
<1>3. ASSUME NEW p \in Processes, NEW e \in Events, LeaseJob(p, e) PROVE Clean(d)'
  <2>1. /\ lane[p].at = "lease" /\ UNCHANGED <<delivery, accepted, excused>>
        /\ lane' = [lane EXCEPT ![p] = [at |-> "materialize", item |-> {e}, attempt |-> 0]]
    BY <1>3, Zenon DEF LeaseJob, historyVars
  <2>2. Apart(d)
    BY <1>0, <2>1, SMT DEF Apart, Serves, DeliveryStages, LaneTypes
  <2> QED
    BY <1>a, <2>1, <2>2, ApartStep
<1>4. ASSUME NEW p \in Processes, LeaseNothing(p) PROVE Clean(d)'
  <2>1. lane[p].at = "lease" /\ End(p) /\ UNCHANGED <<delivery, accepted, excused>>
    BY <1>4, Zenon DEF LeaseNothing, queueVars, historyVars
  <2>2. Apart(d)
    BY <1>0, <2>1, EndApart, SMT DEF Apart, Serves
  <2> QED
    BY <1>a, <2>1, <2>2, ApartStep
<1>5. ASSUME NEW p \in Processes, Dispatch(p) PROVE Clean(d)'
  <2>1. PICK c \in lane[p].item :
          \/ Goto(p, "complete") /\ Accept(c) /\ UNCHANGED excused
          \/ Goto(p, "fail") /\ Accept(c) /\ Excuse(c)
          \/ Goto(p, "fail") /\ UNCHANGED <<accepted, excused>>
          \/ Goto(p, "failTerminal") /\ UNCHANGED <<accepted, excused>>
    BY <1>5, Zenon DEF Dispatch
  <2>2. lane[p].at = "dispatch" /\ lane[p].item = {c} /\ delivery' = delivery
    BY <1>0, <1>5, <2>1, LaneItem, Zenon DEF Dispatch, queueVars
  <2>3. Clean(d)
    BY <1>a, <2>1, Zenon DEF Excuse
  <2>4. /\ \A q \in Processes : q # p => lane'[q] = lane[q]
        /\ lane'[p].item = {c} /\ lane'[p].attempt = lane[p].attempt
        /\ \/ Goto(p, "complete") /\ lane'[p].at = "complete"
           \/ Goto(p, "fail") /\ lane'[p].at = "fail"
           \/ Goto(p, "failTerminal") /\ lane'[p].at = "failTerminal"
    BY <1>0, <2>1, <2>2, MovesApart, SMT DEF Stage
  <2>5. CASE c # d
    <3>1. accepted'[d] = accepted[d]
      BY <1>0, <2>1, <2>5, SMT DEF Accept
    <3>2. Apart(d)
      BY <2>2, <2>4, <2>5, <3>1, SMT DEF Apart, Serves
    <3> QED
      BY <2>3, <3>2, ApartStep
  <2>6. CASE c = d
    <3>1. Serves(p, d, {"dispatch", "complete", "failTerminal"})
          /\ Serves(p, d, {"dispatch", "failTerminal"})
      BY <2>2, <2>6, SMT DEF Serves
    <3>2. Live(p, d) /\ accepted[d] = 0
      BY <2>3, <3>1, Zenon DEF Clean
    <3>3. Live(p, d)'
      BY <2>2, <2>4, <3>2, SMT DEF Live, OwnsAttempt, Holds
    <3>4. \A q \in Processes :
            q # p => ~Serves(q, d, {"dispatch", "complete", "failTerminal"})'
      <4>1. \A q \in Processes :
              q # p => ~Serves(q, d, {"dispatch", "complete", "failTerminal"})
        BY <2>3, <3>1, OneServes, Zenon
      <4> QED
        BY <2>4, <4>1, Zenon DEF Serves
    <3>5. \A q \in Processes : q # p /\ Serves(q, d, {"fail"})' => FALSE
      <4> SUFFICES ASSUME NEW q \in Processes, q # p, Serves(q, d, {"fail"}) PROVE FALSE
        BY <2>4, Zenon DEF Serves
      <4>1. Live(q, d)
        BY <2>3, <3>2, SMT DEF Clean, Live
      <4> QED
        BY <3>2, <4>1, SMT DEF Live, OwnsAttempt, Holds
    <3>6. CASE lane'[p].at = "complete"
      <4>1. accepted'[d] = 0 \/ accepted'[d] = 1
        BY <1>0, <2>1, <2>6, <3>2, SMT DEF Accept
      <4>2. Serves(p, d, {"complete"})'
        BY <2>4, <2>6, <3>6 DEF Serves
      <4>3. delivery'[d].status = "leased"
        BY <3>3 DEF Live
      <4> QED
        BY <3>3, <3>4, <3>5, <3>6, <4>1, <4>2, <4>3, SMT DEF Clean, Serves
    <3>7. CASE lane'[p].at # "complete"
      <4>1. ~Goto(p, "complete")
        BY <1>0, <3>7, MovesApart, SMT DEF Stage
      <4>2. accepted'[d] = 0
        BY <2>1, <2>6, <3>2, <4>1, Zenon DEF Excuse
      <4>3. delivery'[d].status = "leased"
        BY <3>3 DEF Live
      <4> QED
        BY <3>3, <3>4, <3>5, <3>7, <4>2, <4>3, SMT DEF Clean, Serves
    <3> QED
      BY <3>6, <3>7
  <2> QED
    BY <2>5, <2>6
<1>6. ASSUME NEW p \in Processes, Complete(p) PROVE Clean(d)'
  <2>1. PICK c \in lane[p].item :
          \/ /\ OwnsAttempt(p, c) /\ delivery' = [delivery EXCEPT ![c] = Done(@)]
             /\ UNCHANGED excused
             /\ End(p) \/ Goto(p, "fail")
          \/ ~OwnsAttempt(p, c) /\ UNCHANGED <<delivery, excused>> /\ Goto(p, "fail")
          \/ Goto(p, "fail") /\ Excuse(c) /\ UNCHANGED delivery
    BY <1>6, Zenon DEF Complete
  <2>2. lane[p].at = "complete" /\ lane[p].item = {c} /\ accepted' = accepted
    BY <1>0, <1>6, <2>1, LaneItem, Zenon DEF Complete
  <2>3. Clean(d)
    BY <1>a, <2>1, Zenon DEF Excuse
  <2>4. /\ \A q \in Processes : q # p => lane'[q] = lane[q]
        /\ \/ lane'[p].item = {}
           \/ lane'[p].item = {c} /\ lane'[p].at = "fail"
    BY <1>0, <2>1, <2>2, MovesApart, EndApart, SMT DEF Stage
  <2>5. CASE c # d
    <3>1. delivery'[d] = delivery[d]
      BY <1>0, <2>1, <2>5, SMT
    <3>2. Apart(d)
      BY <2>2, <2>4, <2>5, <3>1, SMT DEF Apart, Serves
    <3> QED
      BY <2>3, <3>2, ApartStep
  <2>6. CASE c = d
    <3>1. Serves(p, d, {"dispatch", "complete", "failTerminal"})
      BY <2>2, <2>6, SMT DEF Serves
    <3>2. Live(p, d)
      BY <2>3, <3>1, Zenon DEF Clean
    <3>3. delivery'[d].status = "done"
      <4>1. delivery' = [delivery EXCEPT ![d] = Done(@)]
        BY <2>1, <2>6, <3>2, Zenon DEF Live, Excuse
      <4> QED
        BY <1>0, <4>1, SMT DEF Done, Released
    <3>4. \A q \in Processes : ~Serves(q, d, {"dispatch", "complete", "failTerminal"})'
      <4>1. \A q \in Processes :
              q # p => ~Serves(q, d, {"dispatch", "complete", "failTerminal"})
        BY <2>3, <3>1, OneServes, Zenon
      <4> QED
        BY <2>4, <4>1, SMT DEF Serves
    <3> QED
      BY <2>2, <2>3, <3>3, <3>4, SMT DEF Clean, Serves
  <2> QED
    BY <2>5, <2>6
<1>7. ASSUME NEW p \in Processes, Fail(p) PROVE Clean(d)'
  <2>1. PICK c \in lane[p].item :
          \/ /\ OwnsAttempt(p, c)
             /\ delivery' = [delivery EXCEPT ![c] = Failed(@, lane[p].at = "failTerminal")]
          \/ UNCHANGED delivery
    BY <1>7, Zenon DEF Fail
  <2>2. /\ lane[p].at \in {"fail", "failTerminal"} /\ lane[p].item = {c}
        /\ End(p) /\ UNCHANGED <<accepted, excused>>
    BY <1>0, <1>7, <2>1, LaneItem, Zenon DEF Fail
  <2>3. Clean(d)
    BY <1>a, <2>2
  <2>4. /\ \A q \in Processes : q # p => lane'[q] = lane[q]
        /\ lane'[p].item = {} /\ lane'[p].at \notin DeliveryStages
    BY <1>0, <2>2, EndApart
  <2>5. CASE delivery'[d] = delivery[d]
    <3>1. Apart(d)
      BY <2>2, <2>4, <2>5, SMT DEF Apart, Serves
    <3> QED
      BY <2>3, <3>1, ApartStep
  <2>6. CASE delivery'[d] # delivery[d]
    <3>1. /\ c = d /\ OwnsAttempt(p, d)
          /\ delivery'[d] = Failed(delivery[d], lane[p].at = "failTerminal")
      BY <1>0, <2>1, <2>6, Zenon
    <3>2. delivery'[d].status = "dead" \/ delivery'[d].status = "backoff"
      <4> DEFINE failed == Failed(delivery[d], lane[p].at = "failTerminal")
      <4>1. \/ failed = Released(delivery[d], "dead")
            \/ failed = Released(delivery[d], "backoff")
        BY Zenon DEF Failed
      <4>2. \A t : Released(delivery[d], t).status = t
        BY DEF Released
      <4> HIDE DEF failed
      <4>3. delivery'[d] = failed
        BY <3>1 DEF failed
      <4> QED
        BY <4>1, <4>2, <4>3, Zenon
    <3>3. delivery[d].status # "done" /\ delivery[d].owner = {p}
      BY <3>1, SMT DEF OwnsAttempt, Holds
    <3>4. accepted[d] = 0
      BY <2>2, <2>3, <3>1, <3>3, SMT DEF Clean, Serves
    <3>5. \A q \in Processes : q # p => ~Serves(q, d, DeliveryStages)
      BY <2>3, <3>3, SMT DEF Clean, Serves, Live, OwnsAttempt, Holds, DeliveryStages
    <3> QED
      BY <2>2, <2>4, <3>2, <3>4, <3>5, SMT DEF Clean, Serves, DeliveryStages
  <2> QED
    BY <2>5, <2>6
<1>8. ASSUME NEW p \in Processes, Materialize(p) PROVE Clean(d)'
  <2>1. /\ Goto(p, "completeJob") \/ Goto(p, "failJob")
        /\ lane[p].at = "materialize"
        /\ UNCHANGED <<accepted, excused>>
        /\ (\E e \in lane[p].item : InsertRoutes(e)) \/ UNCHANGED delivery
    BY <1>8, Zenon DEF Materialize, historyVars
  <2>2. Clean(d)
    BY <1>a, <2>1
  <2>3. delivery'[d] = delivery[d] \/ (delivery[d] = NoRow /\ delivery'[d] = Pending)
    BY <2>1, Zenon DEF InsertRoutes
  <2>4. /\ \A q \in Processes : q # p => lane'[q] = lane[q]
        /\ lane'[p].at \notin DeliveryStages
    BY <1>0, <2>1, MovesApart, SMT DEF Stage, DeliveryStages
  <2>5. CASE delivery'[d] = delivery[d]
    <3>1. Apart(d)
      BY <2>1, <2>4, <2>5, SMT DEF Apart, Serves
    <3> QED
      BY <2>2, <3>1, ApartStep
  <2>6. CASE delivery[d] = NoRow /\ delivery'[d] = Pending
    <3>1. delivery[d].status = "absent" /\ delivery'[d].status = "ready"
      BY <2>6, SMT DEF NoRow, Pending
    <3>2. accepted[d] = 0 /\ \A q \in Processes : ~Serves(q, d, DeliveryStages)
      BY <2>2, <3>1, WaitingIsUntouched, SMT
    <3> QED
      BY <2>1, <2>4, <3>1, <3>2, SMT DEF Clean, Serves, DeliveryStages
  <2> QED
    BY <2>3, <2>5, <2>6
<1>9. ASSUME NEW p \in Processes, CompleteJob(p) \/ FailJob(p) PROVE Clean(d)'
  <2>1. /\ Goto(p, "failJob") \/ End(p)
        /\ lane[p].at \in JobStages
        /\ UNCHANGED <<delivery, accepted, excused>>
    BY <1>9, Zenon DEF CompleteJob, FailJob, historyVars, JobStages
  <2>2. /\ \A q \in Processes : q # p => lane'[q] = lane[q]
        /\ lane'[p].at \notin DeliveryStages /\ lane[p].at # "complete"
    BY <1>0, <2>1, MovesApart, EndApart, SMT DEF Stage, DeliveryStages, JobStages
  <2>3. Apart(d)
    BY <2>1, <2>2, SMT DEF Apart, Serves
  <2> QED
    BY <1>a, <2>1, <2>3, ApartStep
<1>10. ASSUME NEW p \in Processes, Crash(p) PROVE Clean(d)'
  <2>1. /\ lane' = [lane EXCEPT ![p] = Joined]
        /\ excused' = excused \union (lane[p].item \intersect Deliveries)
        /\ UNCHANGED <<delivery, accepted>>
    BY <1>10, Zenon DEF Crash, queueVars
  <2>2. d \notin excused /\ d \notin lane[p].item
    BY <2>1, SMT
  <2>3. (\A q \in Processes : q # p => lane'[q] = lane[q]) /\ lane'[p].item = {}
    BY <1>0, <2>1, EndApart
  <2>4. Apart(d)
    BY <2>1, <2>2, <2>3, SMT DEF Apart, Serves
  <2> QED
    BY <1>a, <2>2, <2>4, ApartStep
<1>11. ASSUME NEW c \in Deliveries, DeliveryLeaseExpires(c) PROVE Clean(d)'
  <2>1. /\ delivery' = [delivery EXCEPT ![c].status = "expired"] /\ Excuse(c)
        /\ UNCHANGED <<lane, accepted>>
    BY <1>11, Zenon DEF DeliveryLeaseExpires
  <2>2. d \notin excused /\ d # c
    BY <2>1, SMT DEF Excuse
  <2>3. Apart(d)
    BY <1>0, <2>1, <2>2, SMT DEF Apart
  <2> QED
    BY <1>a, <2>2, <2>3, ApartStep
<1>12. ASSUME NEW c \in Deliveries, DeliveryBackoffElapses(c) PROVE Clean(d)'
  <2>1. /\ delivery[c].status = "backoff"
        /\ delivery' = [delivery EXCEPT ![c].status = "ready"]
        /\ UNCHANGED <<lane, accepted, excused>>
    BY <1>12, Zenon DEF DeliveryBackoffElapses, historyVars
  <2>2. Clean(d)
    BY <1>a, <2>1
  <2>3. CASE c # d
    <3>1. Apart(d)
      BY <1>0, <2>1, <2>3, SMT DEF Apart
    <3> QED
      BY <2>2, <3>1, ApartStep
  <2>4. CASE c = d
    <3>1. accepted[d] = 0 /\ \A q \in Processes : ~Serves(q, d, DeliveryStages)
      BY <2>1, <2>2, <2>4, WaitingIsUntouched, SMT
    <3>2. delivery'[d].status = "ready"
      BY <1>0, <2>1, <2>4, SMT DEF Rows
    <3> QED
      BY <2>1, <3>1, <3>2, SMT DEF Clean, Serves, DeliveryStages
  <2> QED
    BY <2>3, <2>4
<1>13. CASE UNCHANGED <<delivery, lane, accepted, excused>>
  <2>1. Apart(d)
    BY <1>13, Zenon DEF Apart
  <2> QED
    BY <1>a, <1>13, <2>1, ApartStep
<1>14. ASSUME NEW e \in Events, JobLeaseExpires(e) \/ JobBackoffElapses(e) \/ CommitEvent(e)
       PROVE  Clean(d)'
  BY <1>13, <1>14, Zenon DEF JobLeaseExpires, JobBackoffElapses, CommitEvent, historyVars
<1>15. ASSUME NEW s \in Subscriptions, Owner(s) PROVE Clean(d)'
  BY <1>13, <1>15, Zenon DEF Owner, queueVars
<1>16. CASE UNCHANGED vars
  BY <1>13, <1>16, Zenon DEF vars, queueVars, historyVars
<1> QED
  BY <1>1, <1>2, <1>3, <1>4, <1>5, <1>6, <1>7, <1>8, <1>9, <1>10, <1>11, <1>12,
     <1>14, <1>15, <1>16, Zenon DEF Next, Lane, Time

LEMMA DuplicateInit == Init => DuplicateInv
  BY SMT DEF Init, DuplicateInv, Clean, Serves, NoRow, Joined

(* For any number of processes and faults: an endpoint takes an event a    *)
(* second time only when that very delivery lost a lease, its process or   *)
(* an answer.                                                              *)
THEOREM CycleNoNeedlessDuplicate == Spec => []NoNeedlessDuplicate
<1>1. DuplicateInv => NoNeedlessDuplicate
  BY Zenon DEF DuplicateInv, Clean, NoNeedlessDuplicate
<1> QED
  BY <1>1, CycleTypedAlways, DuplicateInit, DuplicateStep, PTL DEF Spec
=============================================================================
