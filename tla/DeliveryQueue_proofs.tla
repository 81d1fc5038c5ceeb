------------------------- MODULE DeliveryQueue_proofs -------------------------
(***************************************************************************)
(* Proofs about DeliveryQueue for any number of deliveries, processes,     *)
(* replay requests and attempts, and for any assignment of worker ids:     *)
(* the number of the attempt is what keeps late reports apart.             *)
(***************************************************************************)
EXTENDS DeliveryQueue, TLAPS

USE DeliveryAssumption

-----------------------------------------------------------------------------
(* Type correctness, in parts that the actions touch one at a time.        *)

RowTypes ==
    /\ status \in [Deliveries -> DeliveryStatus]
    /\ attemptCount \in [Deliveries -> 0 .. AttemptLimit]
    /\ maxAttempts \in [Deliveries -> Attempts]
    /\ leaseOwner \in [Deliveries -> WorkerIds \union {NoOwner}]
    /\ leaseExpired \in [Deliveries -> BOOLEAN]
    /\ due \in [Deliveries -> BOOLEAN]
    /\ attemptRow \in [Deliveries -> [Attempts -> AttemptStatus]]

LaneTypes ==
    /\ stage \in [Processes -> Stage]
    /\ held \in [Processes -> Deliveries \union {NoDelivery}]
    /\ heldAttempt \in [Processes -> 0 .. AttemptLimit]
    /\ terminal \in [Processes -> BOOLEAN]
    /\ verdict \in [Processes -> BOOLEAN]

HeldExists ==
    \A p \in Processes : stage[p] # "idle" =>
        held[p] \in Deliveries /\ heldAttempt[p] \in 1 .. attemptCount[held[p]]

EndpointTypes ==
    /\ accepted \in [Deliveries -> SUBSET Attempts]
    /\ gone \in [Deliveries -> SUBSET Attempts]

ReplayTypes ==
    /\ replaying \in [Sessions -> Deliveries \union {NoDelivery}]
    /\ replayMax \in [Sessions -> 0 .. AttemptLimit]
    /\ \A u \in Sessions : replaying[u] # NoDelivery => replayMax[u] \in Attempts

RouteTypes ==
    /\ active \in [Subscriptions -> BOOLEAN]
    /\ selected \in SUBSET Deliveries

LEMMA TypeOKParts ==
  TypeOK <=> /\ RowTypes /\ LaneTypes /\ HeldExists
             /\ EndpointTypes /\ ReplayTypes /\ RouteTypes
BY Zenon DEF TypeOK, RowTypes, LaneTypes, HeldExists, EndpointTypes, ReplayTypes, RouteTypes

LEMMA GoIdleKeepsLane ==
  ASSUME LaneTypes, HeldExists, NEW p \in Processes, GoIdle(p), UNCHANGED attemptCount
  PROVE  LaneTypes' /\ HeldExists'
<1>1. LaneTypes'
  BY SMT DEF LaneTypes, GoIdle, Stage
<1>2. HeldExists'
  BY SMT DEF LaneTypes, HeldExists, GoIdle
<1> QED
  BY <1>1, <1>2

LEMMA GotoKeepsLane ==
  ASSUME LaneTypes, HeldExists, NEW p \in Processes, NEW next \in Stage,
         NEW t \in BOOLEAN, stage[p] # "idle", Goto(p, next, t), UNCHANGED attemptCount
  PROVE  LaneTypes' /\ HeldExists'
<1>1. LaneTypes'
  BY SMT DEF LaneTypes, Goto, Stage
<1>2. HeldExists'
  BY SMT DEF LaneTypes, HeldExists, Goto
<1> QED
  BY <1>1, <1>2

LEMMA ClearLeaseType ==
  ASSUME RowTypes, NEW d \in Deliveries, ClearLease(d)
  PROVE  /\ leaseOwner' \in [Deliveries -> WorkerIds \union {NoOwner}]
         /\ leaseExpired' \in [Deliveries -> BOOLEAN]
<1>1. leaseOwner' \in [Deliveries -> WorkerIds \union {NoOwner}]
  BY SMT DEF ClearLease, RowTypes
<1>2. leaseExpired' \in [Deliveries -> BOOLEAN]
  BY SMT DEF ClearLease, RowTypes
<1> QED
  BY <1>1, <1>2

LEMMA AttemptRowType ==
  ASSUME RowTypes, NEW d \in Deliveries, NEW n \in Attempts, NEW x \in AttemptStatus,
         attemptRow' = [attemptRow EXCEPT ![d][n] = x]
  PROVE  attemptRow' \in [Deliveries -> [Attempts -> AttemptStatus]]
BY SMT DEF RowTypes

(* Leasing spends one more attempt and hands its number to the process.    *)
LEMMA LeaseNextTypes ==
  ASSUME TypeOK, NEW p \in Processes, NEW d \in Deliveries, LeaseNext(p, d)
  PROVE  RowTypes' /\ LaneTypes' /\ HeldExists'
<1>0. RowTypes /\ LaneTypes /\ HeldExists
  BY TypeOKParts
<1>1. attemptCount[d] \in 0 .. AttemptLimit - 1 /\ NextAttempt(d) \in Attempts
  BY <1>0, SMT DEF LeaseNext, Leasable, NextAttempt, RowTypes, Attempts
<1>2. attemptRow' \in [Deliveries -> [Attempts -> AttemptStatus]]
  BY <1>0, <1>1, SMT DEF LeaseNext, RowTypes, AttemptStatus
<1>3. attemptCount' \in [Deliveries -> 0 .. AttemptLimit]
  BY <1>0, <1>1, SMT DEF LeaseNext, RowTypes, NextAttempt
<1>4. RowTypes'
  BY <1>0, <1>2, <1>3, SMT DEF LeaseNext, RowTypes, DeliveryStatus
<1>5. LaneTypes'
  BY <1>0, <1>1, SMT DEF LeaseNext, LaneTypes, Stage, Attempts
<1>6. HeldExists'
  BY <1>0, <1>1, SMT DEF LeaseNext, LaneTypes, RowTypes, HeldExists, NextAttempt
<1> QED
  BY <1>4, <1>5, <1>6

LEMMA DeliveryTypeStep == TypeOK /\ [Next]_vars => TypeOK'
<1> SUFFICES ASSUME TypeOK, [Next]_vars PROVE TypeOK'
  OBVIOUS
<1>0. RowTypes /\ LaneTypes /\ HeldExists /\ EndpointTypes /\ ReplayTypes /\ RouteTypes
  BY TypeOKParts
<1> SUFFICES /\ RowTypes' /\ LaneTypes' /\ HeldExists'
             /\ EndpointTypes' /\ ReplayTypes' /\ RouteTypes'
  BY Zenon DEF TypeOK, RowTypes, LaneTypes, HeldExists, EndpointTypes, ReplayTypes, RouteTypes
<1> DEFINE Goal == /\ RowTypes' /\ LaneTypes' /\ HeldExists'
                   /\ EndpointTypes' /\ ReplayTypes' /\ RouteTypes'
<1>1. ASSUME NEW p \in Processes, NEW d \in Deliveries, LeaseNext(p, d) PROVE Goal
  <2>1. UNCHANGED <<active, endpointVars, selected, replayVars>>
    BY <1>1, Zenon DEF LeaseNext
  <2>2. EndpointTypes' /\ ReplayTypes' /\ RouteTypes'
    BY <1>0, <2>1, Zenon DEF EndpointTypes, ReplayTypes, RouteTypes, endpointVars, replayVars
  <2> QED
    BY <1>1, <2>2, LeaseNextTypes
<1>2. ASSUME NEW p \in Processes, Dispatch(p) PROVE Goal
  <2>1. /\ stage[p] = "dispatch" /\ held[p] \in Deliveries
        /\ UNCHANGED <<rowVars, active, selected, replayVars>>
    BY <1>0, <1>2, SMT DEF Dispatch, HeldExists
  <2>2. heldAttempt[p] \in Attempts
    BY <1>0, <2>1, SMT DEF HeldExists, RowTypes, Attempts
  <2>3. \E next \in Stage, t \in BOOLEAN : Goto(p, next, t)
    BY <1>2, Zenon DEF Dispatch, Accepted, Revoked, Refused, Stage
  <2>4. LaneTypes' /\ HeldExists'
    BY <1>0, <2>1, <2>3, GotoKeepsLane DEF rowVars
  <2>5. EndpointTypes'
    <3>1. CASE Accepted(p)
      BY <1>0, <2>1, <2>2, <3>1, SMT DEF Accepted, EndpointTypes
    <3>2. CASE Revoked(p)
      BY <1>0, <2>1, <2>2, <3>2, SMT DEF Revoked, EndpointTypes
    <3>3. CASE Refused(p)
      BY <1>0, <3>3, Zenon DEF Refused, EndpointTypes, endpointVars
    <3> QED
      BY <1>2, <3>1, <3>2, <3>3 DEF Dispatch
  <2>6. RowTypes' /\ ReplayTypes' /\ RouteTypes'
    BY <1>0, <2>1, Zenon DEF RowTypes, ReplayTypes, RouteTypes, rowVars, replayVars
  <2> QED
    BY <2>4, <2>5, <2>6
<1>3. ASSUME NEW p \in Processes, Complete(p) PROVE Goal
  <2>1. /\ stage[p] = "complete" /\ held[p] \in Deliveries
        /\ UNCHANGED <<attemptCount, maxAttempts, active, endpointVars, selected, replayVars>>
    BY <1>0, <1>3, SMT DEF Complete, HeldExists
  <2>2. heldAttempt[p] \in Attempts
    BY <1>0, <2>1, SMT DEF HeldExists, RowTypes, Attempts
  <2>3. GoIdle(p) \/ Goto(p, "fail", FALSE)
    BY <1>3, Zenon DEF Complete
  <2>4. LaneTypes' /\ HeldExists'
    BY <1>0, <2>1, <2>3, GotoKeepsLane, GoIdleKeepsLane DEF Stage
  <2>5. RowTypes'
    <3>1. CASE /\ status' = [status EXCEPT ![held[p]] = "delivered"]
               /\ due' = [due EXCEPT ![held[p]] = TRUE]
               /\ ClearLease(held[p])
               /\ attemptRow' = [attemptRow EXCEPT ![held[p]][heldAttempt[p]] = "delivered"]
      <4>1. attemptRow' \in [Deliveries -> [Attempts -> AttemptStatus]]
        BY <1>0, <2>1, <2>2, <3>1, AttemptRowType DEF AttemptStatus
      <4>2. /\ status' \in [Deliveries -> DeliveryStatus]
            /\ due' \in [Deliveries -> BOOLEAN]
        BY <1>0, <2>1, <3>1, SMT DEF RowTypes, DeliveryStatus
      <4> QED
        BY <1>0, <2>1, <3>1, <4>1, <4>2, ClearLeaseType, Zenon DEF RowTypes
    <3>2. CASE UNCHANGED <<status, due, leaseOwner, leaseExpired, attemptRow>>
      BY <1>0, <2>1, <3>2, Zenon DEF RowTypes
    <3> QED
      BY <1>3, <3>1, <3>2, Zenon DEF Complete
  <2>6. EndpointTypes' /\ ReplayTypes' /\ RouteTypes'
    BY <1>0, <2>1, Zenon DEF EndpointTypes, ReplayTypes, RouteTypes, endpointVars, replayVars
  <2> QED
    BY <2>4, <2>5, <2>6
<1>4. ASSUME NEW p \in Processes, FailRead(p) PROVE Goal
  <2>1. UNCHANGED <<rowVars, active, endpointVars, selected, replayVars>>
    BY <1>4, Zenon DEF FailRead
  <2>2. RowTypes' /\ EndpointTypes' /\ ReplayTypes' /\ RouteTypes'
    BY <1>0, <2>1, Zenon DEF RowTypes, EndpointTypes, ReplayTypes, RouteTypes,
                             rowVars, endpointVars, replayVars
  <2>3. LaneTypes' /\ HeldExists'
    <3>1. CASE Owned(p, held[p])
      <4> DEFINE b == terminal[p] \/ attemptCount[held[p]] >= maxAttempts[held[p]]
      <4>1. /\ stage[p] = "fail" /\ stage' = [stage EXCEPT ![p] = "failWrite"]
            /\ verdict' = [verdict EXCEPT ![p] = b]
            /\ UNCHANGED <<held, heldAttempt, terminal>>
        BY <1>4, <3>1, Zenon DEF FailRead
      <4>2. b \in BOOLEAN
        OBVIOUS
      <4> HIDE DEF b
      <4>3. verdict' \in [Processes -> BOOLEAN]
        BY <1>0, <4>1, <4>2, SMT DEF LaneTypes
      <4>4. LaneTypes'
        BY <1>0, <4>1, <4>3, SMT DEF LaneTypes, Stage
      <4>5. HeldExists'
        BY <1>0, <2>1, <4>1, SMT DEF LaneTypes, HeldExists, rowVars
      <4> QED
        BY <4>4, <4>5
    <3>2. CASE ~Owned(p, held[p])
      BY <1>0, <1>4, <2>1, <3>2, GoIdleKeepsLane DEF FailRead, rowVars
    <3> QED
      BY <3>1, <3>2
  <2> QED
    BY <2>2, <2>3
<1>5. ASSUME NEW p \in Processes, FailWrite(p) PROVE Goal
  <2>1. /\ stage[p] = "failWrite" /\ held[p] \in Deliveries /\ GoIdle(p)
        /\ UNCHANGED <<attemptCount, maxAttempts, endpointVars, selected, replayVars>>
    BY <1>0, <1>5, SMT DEF FailWrite, HeldExists
  <2>2. heldAttempt[p] \in Attempts
    BY <1>0, <2>1, SMT DEF HeldExists, RowTypes, Attempts
  <2>3. LaneTypes' /\ HeldExists' /\ EndpointTypes' /\ ReplayTypes'
    BY <1>0, <2>1, GoIdleKeepsLane DEF EndpointTypes, ReplayTypes, endpointVars, replayVars
  <2>4. RowTypes' /\ RouteTypes'
    <3>1. CASE OwnedAttempt(p, held[p])
      <4>1. /\ status' = [status EXCEPT ![held[p]] = IF verdict[p] THEN "dead" ELSE "failed"]
            /\ due' = [due EXCEPT ![held[p]] = verdict[p]]
            /\ ClearLease(held[p])
            /\ attemptRow' = [attemptRow EXCEPT ![held[p]][heldAttempt[p]] = "failed"]
            /\ active' = [active EXCEPT ![SubscriptionOf[held[p]]] = @ /\ ~terminal[p]]
        BY <1>5, <3>1, Zenon DEF FailWrite
      <4>2. attemptRow' \in [Deliveries -> [Attempts -> AttemptStatus]]
        BY <1>0, <2>1, <2>2, <4>1, AttemptRowType DEF AttemptStatus
      <4>3. status' \in [Deliveries -> DeliveryStatus]
        BY <1>0, <2>1, <4>1, SMT DEF RowTypes, DeliveryStatus
      <4>4. due' \in [Deliveries -> BOOLEAN]
        BY <1>0, <2>1, <4>1, SMT DEF RowTypes, LaneTypes
      <4>5. active' \in [Subscriptions -> BOOLEAN]
        BY <1>0, <2>1, <4>1, SMT DEF RouteTypes, LaneTypes
      <4> QED
        BY <1>0, <2>1, <4>1, <4>2, <4>3, <4>4, <4>5, ClearLeaseType, Zenon
           DEF RowTypes, RouteTypes
    <3>2. CASE ~OwnedAttempt(p, held[p])
      <4>1. UNCHANGED <<status, due, leaseOwner, leaseExpired, attemptRow, active>>
        BY <1>5, <3>2, Zenon DEF FailWrite
      <4> QED
        BY <1>0, <2>1, <4>1, Zenon DEF RowTypes, RouteTypes
    <3> QED
      BY <3>1, <3>2
  <2> QED
    BY <2>3, <2>4
<1>6. ASSUME NEW p \in Processes, Crash(p) PROVE Goal
  <2>1. GoIdle(p) /\ UNCHANGED <<rowVars, active, endpointVars, selected, replayVars>>
    BY <1>6 DEF Crash
  <2>2. LaneTypes' /\ HeldExists'
    BY <1>0, <2>1, GoIdleKeepsLane DEF rowVars
  <2> QED
    BY <1>0, <2>1, <2>2, Zenon DEF RowTypes, EndpointTypes, ReplayTypes, RouteTypes,
                                   rowVars, endpointVars, replayVars
<1>7. ASSUME NEW e \in Events, Route(e) PROVE Goal
  <2>1. /\ UNCHANGED <<attemptCount, maxAttempts, leaseOwner, leaseExpired, due, attemptRow,
                       active, endpointVars, laneVars, replayVars>>
    BY <1>7, Zenon DEF Route, SelectRoutes, InsertRoutes, RollBackRoutes, rowVars
  <2>2. selected' \in SUBSET Deliveries
    BY <1>0, <1>7, SMT DEF Route, SelectRoutes, InsertRoutes, RollBackRoutes, RouteTypes
  <2>3. status' \in [Deliveries -> DeliveryStatus]
    BY <1>0, <1>7, SMT DEF Route, SelectRoutes, InsertRoutes, RollBackRoutes,
                           RowTypes, rowVars, DeliveryStatus
  <2> QED
    BY <1>0, <2>1, <2>2, <2>3, Zenon DEF RowTypes, LaneTypes, HeldExists, EndpointTypes,
          ReplayTypes, RouteTypes, laneVars, endpointVars, replayVars
<1>8. ASSUME NEW u \in Sessions, NEW d \in Deliveries, ReplayRead(u, d) PROVE Goal
  <2>1. UNCHANGED <<rowVars, active, endpointVars, laneVars, selected>>
    BY <1>8, Zenon DEF ReplayRead
  <2>2. ReplayTypes'
    <3> DEFINE newMax == MaxOf(maxAttempts[d], attemptCount[d]) + ReplayAttempts
    <3>1. /\ newMax <= AttemptLimit
          /\ replaying' = [replaying EXCEPT ![u] = d]
          /\ replayMax' = [replayMax EXCEPT ![u] = newMax]
      BY <1>8, Zenon DEF ReplayRead
    <3>2. newMax \in Attempts
      BY <1>0, <3>1, SMT DEF RowTypes, Attempts, MaxOf
    <3> HIDE DEF newMax
    <3> QED
      BY <1>0, <3>1, <3>2, SMT DEF ReplayTypes, Attempts
  <2> QED
    BY <1>0, <2>1, <2>2, Zenon DEF RowTypes, LaneTypes, HeldExists, EndpointTypes, RouteTypes,
                                   rowVars, laneVars, endpointVars
<1>9. ASSUME NEW u \in Sessions, ReplayWrite(u) PROVE Goal
  <2>1. /\ replaying[u] \in Deliveries /\ replayMax[u] \in Attempts
        /\ UNCHANGED <<attemptCount, leaseOwner, leaseExpired, attemptRow,
                       active, endpointVars, laneVars, selected>>
    BY <1>0, <1>9, SMT DEF ReplayWrite, ReplayTypes
  <2>2. ReplayTypes'
    BY <1>0, <1>9, SMT DEF ReplayWrite, ReplayTypes
  <2>3. /\ status' \in [Deliveries -> DeliveryStatus]
        /\ maxAttempts' \in [Deliveries -> Attempts]
        /\ due' \in [Deliveries -> BOOLEAN]
    <3>1. CASE /\ status' = [status EXCEPT ![replaying[u]] = "failed"]
               /\ maxAttempts' = [maxAttempts EXCEPT ![replaying[u]] = replayMax[u]]
               /\ due' = [due EXCEPT ![replaying[u]] = TRUE]
      <4>1. status' \in [Deliveries -> DeliveryStatus]
        BY <1>0, <2>1, <3>1, SMT DEF RowTypes, DeliveryStatus
      <4>2. maxAttempts' \in [Deliveries -> Attempts]
        BY <1>0, <2>1, <3>1, SMT DEF RowTypes
      <4>3. due' \in [Deliveries -> BOOLEAN]
        BY <1>0, <2>1, <3>1, SMT DEF RowTypes
      <4> QED
        BY <4>1, <4>2, <4>3
    <3>2. CASE UNCHANGED <<status, maxAttempts, due>>
      BY <1>0, <3>2, Zenon DEF RowTypes
    <3> QED
      BY <1>9, <3>1, <3>2, Zenon DEF ReplayWrite
  <2> QED
    BY <1>0, <2>1, <2>2, <2>3, Zenon DEF RowTypes, LaneTypes, HeldExists, EndpointTypes,
                                         RouteTypes, laneVars, endpointVars
<1>10. ASSUME NEW s \in Subscriptions, Owner(s) PROVE Goal
  <2>1. UNCHANGED <<rowVars, endpointVars, laneVars, selected, replayVars>>
    BY <1>10, Zenon DEF Owner, Verify, Unlink
  <2>2. active' \in [Subscriptions -> BOOLEAN]
    <3>1. \E b \in BOOLEAN : active' = [active EXCEPT ![s] = b]
      BY <1>10, Zenon DEF Owner, Verify, Unlink
    <3> QED
      BY <1>0, <3>1, SMT DEF RouteTypes
  <2> QED
    BY <1>0, <2>1, <2>2, Zenon DEF RowTypes, LaneTypes, HeldExists, EndpointTypes,
          ReplayTypes, RouteTypes, rowVars, laneVars, endpointVars, replayVars
<1>11. ASSUME NEW d \in Deliveries, Time(d) PROVE Goal
  <2>1. UNCHANGED <<status, attemptCount, maxAttempts, leaseOwner, attemptRow,
                    active, endpointVars, laneVars, selected, replayVars>>
    BY <1>11, Zenon DEF Time, LeaseExpires, BackoffElapses
  <2>2. leaseExpired' \in [Deliveries -> BOOLEAN] /\ due' \in [Deliveries -> BOOLEAN]
    <3>1. CASE LeaseExpires(d)
      BY <1>0, <3>1, SMT DEF LeaseExpires, RowTypes
    <3>2. CASE BackoffElapses(d)
      BY <1>0, <3>2, SMT DEF BackoffElapses, RowTypes
    <3> QED
      BY <1>11, <3>1, <3>2 DEF Time
  <2> QED
    BY <1>0, <2>1, <2>2, Zenon DEF RowTypes, LaneTypes, HeldExists, EndpointTypes,
          ReplayTypes, RouteTypes, laneVars, endpointVars, replayVars
<1>12. CASE UNCHANGED vars
  BY <1>0, <1>12, Zenon DEF vars, RowTypes, LaneTypes, HeldExists, EndpointTypes,
          ReplayTypes, RouteTypes, rowVars, laneVars, endpointVars, replayVars
<1> QED
  BY <1>1, <1>2, <1>3, <1>4, <1>5, <1>6, <1>7, <1>8, <1>9, <1>10, <1>11, <1>12
     DEF Next, Work, Replay

LEMMA DeliveryTypeInit == Init => TypeOK
  BY SMT DEF Init, TypeOK, Stage, DeliveryStatus, AttemptStatus, Attempts

(* Every reachable state is well typed: no delivery is attempted more      *)
(* often than its budget and the replays allow, and a process in its lane  *)
(* holds an attempt that has been counted.                                 *)
THEOREM DeliveryTypeCorrect == Spec => []TypeOK
<1> QED
  BY DeliveryTypeInit, DeliveryTypeStep, PTL DEF Spec

-----------------------------------------------------------------------------
(* How one step moves one delivery.  Every invariant below is an argument  *)
(* over these six cases.                                                   *)

(* A process leases the row for one more attempt. *)
RowLeased(d) ==
    /\ status[d] \in {"pending", "failed", "delivering"} /\ status'[d] = "delivering"
    /\ attemptCount'[d] = attemptCount[d] + 1
    /\ attemptRow'[d] = [attemptRow[d] EXCEPT ![attemptCount[d] + 1] =
                            IF @ = "none" THEN "delivering" ELSE @]

(* The holder of the current attempt reports that it was accepted ...      *)
RowDelivered(d) ==
    \E p \in Processes :
        /\ stage[p] = "complete" /\ held[p] = d /\ OwnedAttempt(p, d)
        /\ status'[d] = "delivered" /\ attemptCount'[d] = attemptCount[d]
        /\ attemptRow'[d] = [attemptRow[d] EXCEPT ![attemptCount[d]] = "delivered"]

(* ... or that it failed. *)
RowFailed(d) ==
    \E p \in Processes :
        /\ stage[p] = "failWrite" /\ held[p] = d /\ OwnedAttempt(p, d)
        /\ status'[d] = IF verdict[p] THEN "dead" ELSE "failed"
        /\ attemptCount'[d] = attemptCount[d]
        /\ attemptRow'[d] = [attemptRow[d] EXCEPT ![attemptCount[d]] = "failed"]
        /\ maxAttempts'[d] = maxAttempts[d]

RowReplayed(d) ==
    /\ status[d] = "dead" /\ status'[d] = "failed"
    /\ attemptCount'[d] = attemptCount[d] /\ attemptRow'[d] = attemptRow[d]

RowRouted(d) ==
    /\ status[d] = "absent" /\ status'[d] = "pending"
    /\ attemptCount'[d] = attemptCount[d] /\ attemptRow'[d] = attemptRow[d]

RowStays(d) ==
    /\ status'[d] = status[d] /\ attemptRow'[d] = attemptRow[d]
    /\ attemptCount'[d] = attemptCount[d] /\ maxAttempts'[d] = maxAttempts[d]

RowMoves(d) ==
    RowLeased(d) \/ RowDelivered(d) \/ RowFailed(d) \/ RowReplayed(d) \/ RowRouted(d) \/ RowStays(d)

LEMMA DeliveryRowMoves ==
  ASSUME TypeOK, [Next]_vars, NEW d \in Deliveries
  PROVE  RowMoves(d)
<1>0. RowTypes /\ LaneTypes /\ HeldExists /\ ReplayTypes
  BY TypeOKParts
<1>1. ASSUME NEW p \in Processes, NEW c \in Deliveries, LeaseNext(p, c) PROVE RowMoves(d)
  <2>1. CASE c = d
    <3>1. status[d] \in {"pending", "failed", "delivering"} /\ status'[d] = "delivering"
      BY <1>0, <1>1, <2>1, SMT DEF LeaseNext, Leasable, RowTypes
    <3>2. attemptCount'[d] = attemptCount[d] + 1
      BY <1>0, <1>1, <2>1, SMT DEF LeaseNext, NextAttempt, RowTypes
    <3>3. attemptRow'[d] = [attemptRow[d] EXCEPT ![attemptCount[d] + 1] =
                               IF @ = "none" THEN "delivering" ELSE @]
      BY <1>0, <1>1, <2>1, SMT DEF LeaseNext, NextAttempt, RowTypes
    <3> QED
      BY <3>1, <3>2, <3>3 DEF RowMoves, RowLeased
  <2>2. CASE c # d
    <3>1. status'[d] = status[d] /\ attemptCount'[d] = attemptCount[d]
      BY <1>0, <1>1, <2>2, SMT DEF LeaseNext, RowTypes
    <3>2. attemptRow'[d] = attemptRow[d] /\ maxAttempts'[d] = maxAttempts[d]
      BY <1>0, <1>1, <2>2, SMT DEF LeaseNext, RowTypes
    <3> QED
      BY <3>1, <3>2 DEF RowMoves, RowStays
  <2> QED
    BY <2>1, <2>2
<1>2. ASSUME NEW p \in Processes, Complete(p) PROVE RowMoves(d)
  <2>1. /\ stage[p] = "complete" /\ held[p] \in Deliveries
        /\ UNCHANGED <<attemptCount, maxAttempts>>
    BY <1>0, <1>2, SMT DEF Complete, HeldExists
  <2>2. CASE /\ OwnedAttempt(p, held[p])
             /\ status' = [status EXCEPT ![held[p]] = "delivered"]
             /\ attemptRow' = [attemptRow EXCEPT ![held[p]][heldAttempt[p]] = "delivered"]
    <3>1. CASE held[p] = d
      <4>1. status'[d] = "delivered" /\ attemptCount[d] = heldAttempt[p]
        BY <1>0, <2>2, <3>1, SMT DEF RowTypes, OwnedAttempt
      <4>2. attemptRow'[d] = [attemptRow[d] EXCEPT ![attemptCount[d]] = "delivered"]
        BY <1>0, <2>2, <3>1, <4>1, SMT DEF RowTypes
      <4> QED
        BY <2>1, <2>2, <3>1, <4>1, <4>2 DEF RowMoves, RowDelivered
    <3>2. CASE held[p] # d
      BY <1>0, <2>1, <2>2, <3>2, SMT DEF RowTypes, RowMoves, RowStays
    <3> QED
      BY <3>1, <3>2
  <2>3. CASE UNCHANGED <<status, attemptRow>>
    BY <2>1, <2>3 DEF RowMoves, RowStays
  <2> QED
    BY <1>2, <2>2, <2>3, Zenon DEF Complete
<1>3. ASSUME NEW p \in Processes, FailWrite(p) PROVE RowMoves(d)
  <2>1. /\ stage[p] = "failWrite" /\ held[p] \in Deliveries
        /\ UNCHANGED <<attemptCount, maxAttempts>>
    BY <1>0, <1>3, SMT DEF FailWrite, HeldExists
  <2>2. CASE OwnedAttempt(p, held[p])
    <3>0. /\ status' = [status EXCEPT ![held[p]] = IF verdict[p] THEN "dead" ELSE "failed"]
          /\ attemptRow' = [attemptRow EXCEPT ![held[p]][heldAttempt[p]] = "failed"]
      BY <1>3, <2>2, Zenon DEF FailWrite
    <3>1. CASE held[p] = d
      <4>1. /\ status'[d] = IF verdict[p] THEN "dead" ELSE "failed"
            /\ attemptCount[d] = heldAttempt[p]
        BY <1>0, <2>2, <3>0, <3>1, SMT DEF RowTypes, OwnedAttempt
      <4>2. attemptRow'[d] = [attemptRow[d] EXCEPT ![attemptCount[d]] = "failed"]
        BY <1>0, <3>0, <3>1, <4>1, SMT DEF RowTypes
      <4> QED
        BY <2>1, <2>2, <3>1, <4>1, <4>2 DEF RowMoves, RowFailed
    <3>2. CASE held[p] # d
      BY <1>0, <2>1, <3>0, <3>2, SMT DEF RowTypes, RowMoves, RowStays
    <3> QED
      BY <3>1, <3>2
  <2>3. CASE ~OwnedAttempt(p, held[p])
    <3>1. UNCHANGED <<status, attemptRow>>
      BY <1>3, <2>3, Zenon DEF FailWrite
    <3> QED
      BY <2>1, <3>1 DEF RowMoves, RowStays
  <2> QED
    BY <2>2, <2>3
<1>4. ASSUME NEW e \in Events, Route(e) PROVE RowMoves(d)
  <2>1. UNCHANGED <<attemptCount, maxAttempts, attemptRow>>
    BY <1>4, Zenon DEF Route, SelectRoutes, InsertRoutes, RollBackRoutes, rowVars
  <2>2. status'[d] = status[d] \/ (status[d] = "absent" /\ status'[d] = "pending")
    BY <1>4, SMT DEF Route, SelectRoutes, InsertRoutes, RollBackRoutes, rowVars
  <2> QED
    BY <2>1, <2>2 DEF RowMoves, RowRouted, RowStays
<1>5. ASSUME NEW u \in Sessions, ReplayWrite(u) PROVE RowMoves(d)
  <2>1. replaying[u] \in Deliveries /\ UNCHANGED <<attemptCount, attemptRow>>
    BY <1>0, <1>5, SMT DEF ReplayWrite, ReplayTypes
  <2>2. CASE /\ status[replaying[u]] = "dead"
             /\ status' = [status EXCEPT ![replaying[u]] = "failed"]
             /\ maxAttempts' = [maxAttempts EXCEPT ![replaying[u]] = replayMax[u]]
    BY <1>0, <2>1, <2>2, SMT DEF RowTypes, RowMoves, RowReplayed, RowStays
  <2>3. CASE UNCHANGED <<status, maxAttempts>>
    BY <2>1, <2>3 DEF RowMoves, RowStays
  <2> QED
    BY <1>5, <2>2, <2>3, Zenon DEF ReplayWrite
<1>6. ASSUME UNCHANGED <<status, attemptCount, maxAttempts, attemptRow>> PROVE RowMoves(d)
  BY <1>6 DEF RowMoves, RowStays
<1>7. ASSUME NEW p \in Processes, Dispatch(p) \/ FailRead(p) \/ Crash(p) PROVE RowMoves(d)
  BY <1>6, <1>7, Zenon DEF Dispatch, FailRead, Crash, rowVars
<1>8. ASSUME NEW u \in Sessions, NEW c \in Deliveries, ReplayRead(u, c) PROVE RowMoves(d)
  BY <1>6, <1>8, Zenon DEF ReplayRead, rowVars
<1>9. ASSUME NEW s \in Subscriptions, Owner(s) PROVE RowMoves(d)
  BY <1>6, <1>9, Zenon DEF Owner, Verify, Unlink, rowVars
<1>10. ASSUME NEW c \in Deliveries, Time(c) PROVE RowMoves(d)
  BY <1>6, <1>10, Zenon DEF Time, LeaseExpires, BackoffElapses
<1>11. CASE UNCHANGED vars
  BY <1>6, <1>11 DEF vars, rowVars
<1> QED
  BY <1>1, <1>2, <1>3, <1>4, <1>5, <1>7, <1>8, <1>9, <1>10, <1>11
     DEF Next, Work, Replay

(* How one step moves the lane of one process. *)
LaneKeeps(q) ==
    stage[q] # "idle" /\ held'[q] = held[q] /\ heldAttempt'[q] = heldAttempt[q]

LaneStarts(q) ==
    /\ stage'[q] = "dispatch" /\ held'[q] \in Deliveries
    /\ heldAttempt'[q] = attemptCount[held'[q]] + 1
    /\ \A r \in Processes : r # q => /\ stage'[r] = stage[r] /\ held'[r] = held[r]
                                     /\ heldAttempt'[r] = heldAttempt[r]

LaneAnswered(q) ==
    /\ LaneKeeps(q) /\ stage[q] = "dispatch"
    /\ \/ stage'[q] = "complete" /\ heldAttempt[q] \in accepted'[held[q]]
       \/ stage'[q] = "fail" /\ (terminal'[q] => heldAttempt[q] \in gone'[held[q]])

LaneGivesUp(q) ==
    LaneKeeps(q) /\ stage[q] = "complete" /\ stage'[q] = "fail" /\ ~terminal'[q]

LaneDecides(q) ==
    /\ LaneKeeps(q) /\ stage[q] = "fail" /\ stage'[q] = "failWrite"
    /\ Owned(q, held[q]) /\ UNCHANGED rowVars /\ terminal'[q] = terminal[q]
    /\ verdict'[q] <=> (terminal[q] \/ attemptCount[held[q]] >= maxAttempts[held[q]])

LaneStays(q) ==
    /\ LaneKeeps(q) /\ stage'[q] = stage[q]
    /\ terminal'[q] = terminal[q] /\ verdict'[q] = verdict[q]

LaneMoves(q) ==
    \/ stage'[q] = "idle"
    \/ LaneStarts(q) \/ LaneAnswered(q) \/ LaneGivesUp(q) \/ LaneDecides(q) \/ LaneStays(q)

LEMMA GoIdleMoves ==
  ASSUME LaneTypes, NEW p \in Processes, GoIdle(p), NEW q \in Processes
  PROVE  LaneMoves(q)
<1>1. CASE q = p
  BY <1>1, SMT DEF GoIdle, LaneTypes, LaneMoves
<1>2. CASE q # p
  <2>1. stage'[q] = stage[q] /\ held'[q] = held[q] /\ heldAttempt'[q] = heldAttempt[q]
    BY <1>2, SMT DEF GoIdle, LaneTypes
  <2>2. terminal'[q] = terminal[q] /\ verdict'[q] = verdict[q]
    BY <1>2, Zenon DEF GoIdle, LaneTypes
  <2> QED
    BY <2>1, <2>2 DEF LaneMoves, LaneStays, LaneKeeps
<1> QED
  BY <1>1, <1>2

LEMMA GotoMoves ==
  ASSUME LaneTypes, NEW p \in Processes, NEW next \in Stage, NEW t \in BOOLEAN,
         Goto(p, next, t), stage[p] # "idle"
  PROVE  /\ LaneKeeps(p) /\ stage'[p] = next /\ terminal'[p] = t
         /\ \A q \in Processes : q # p => LaneMoves(q)
<1>1. LaneKeeps(p) /\ stage'[p] = next
  BY SMT DEF Goto, LaneTypes, LaneKeeps
<1>2. terminal'[p] = t
  BY Zenon DEF Goto, LaneTypes
<1>3. ASSUME NEW q \in Processes, q # p PROVE LaneMoves(q)
  <2>1. stage'[q] = stage[q] /\ held'[q] = held[q] /\ heldAttempt'[q] = heldAttempt[q]
    BY <1>3, SMT DEF Goto, LaneTypes
  <2>2. terminal'[q] = terminal[q] /\ verdict'[q] = verdict[q]
    BY <1>3, Zenon DEF Goto, LaneTypes
  <2> QED
    BY <2>1, <2>2 DEF LaneMoves, LaneStays, LaneKeeps
<1> QED
  BY <1>1, <1>2, <1>3

LEMMA DeliveryLaneMoves ==
  ASSUME TypeOK, [Next]_vars, NEW q \in Processes
  PROVE  LaneMoves(q)
<1>0. RowTypes /\ LaneTypes /\ HeldExists /\ EndpointTypes
  BY TypeOKParts
<1>1. ASSUME NEW p \in Processes, NEW d \in Deliveries, LeaseNext(p, d) PROVE LaneMoves(q)
  <2>1. \A r \in Processes : r # p => /\ stage'[r] = stage[r] /\ held'[r] = held[r]
                                      /\ heldAttempt'[r] = heldAttempt[r]
    BY <1>0, <1>1, SMT DEF LeaseNext, LaneTypes
  <2>2. CASE q = p
    <3>1. /\ stage'[q] = "dispatch" /\ held'[q] \in Deliveries
          /\ heldAttempt'[q] = attemptCount[held'[q]] + 1
      BY <1>0, <1>1, <2>2, SMT DEF LeaseNext, LaneTypes, NextAttempt
    <3> QED
      BY <2>1, <2>2, <3>1 DEF LaneMoves, LaneStarts
  <2>3. CASE q # p
    <3>1. terminal'[q] = terminal[q] /\ verdict'[q] = verdict[q]
      BY <1>1, Zenon DEF LeaseNext
    <3> QED
      BY <2>1, <2>3, <3>1 DEF LaneMoves, LaneStays, LaneKeeps
  <2> QED
    BY <2>2, <2>3
<1>2. ASSUME NEW p \in Processes, Dispatch(p) PROVE LaneMoves(q)
  <2>1. stage[p] = "dispatch" /\ stage[p] # "idle" /\ held[p] \in Deliveries
    BY <1>0, <1>2, SMT DEF Dispatch, HeldExists
  <2>2. CASE /\ accepted' = [accepted EXCEPT ![held[p]] = @ \union {heldAttempt[p]}]
             /\ Goto(p, "complete", FALSE)
    <3>1. LaneKeeps(p) /\ stage'[p] = "complete" /\ (q # p => LaneMoves(q))
      BY <1>0, <2>1, <2>2, GotoMoves DEF Stage
    <3>2. heldAttempt[p] \in accepted'[held[p]]
      BY <1>0, <2>1, <2>2, SMT DEF EndpointTypes
    <3> QED
      BY <2>1, <3>1, <3>2 DEF LaneMoves, LaneAnswered
  <2>3. CASE Goto(p, "fail", FALSE)
    BY <1>0, <2>1, <2>3, GotoMoves DEF Stage, LaneMoves, LaneAnswered
  <2>4. CASE /\ gone' = [gone EXCEPT ![held[p]] = @ \union {heldAttempt[p]}]
             /\ Goto(p, "fail", TRUE)
    <3>1. LaneKeeps(p) /\ stage'[p] = "fail" /\ (q # p => LaneMoves(q))
      BY <1>0, <2>1, <2>4, GotoMoves DEF Stage
    <3>2. heldAttempt[p] \in gone'[held[p]]
      BY <1>0, <2>1, <2>4, SMT DEF EndpointTypes
    <3> QED
      BY <2>1, <3>1, <3>2 DEF LaneMoves, LaneAnswered
  <2> QED
    BY <1>2, <2>2, <2>3, <2>4, Zenon DEF Dispatch, Accepted, Revoked, Refused
<1>3. ASSUME NEW p \in Processes, Complete(p) PROVE LaneMoves(q)
  <2>1. stage[p] = "complete" /\ stage[p] # "idle"
    BY <1>3, SMT DEF Complete
  <2>2. GoIdle(p) \/ Goto(p, "fail", FALSE)
    BY <1>3, Zenon DEF Complete
  <2> QED
    BY <1>0, <2>1, <2>2, GoIdleMoves, GotoMoves DEF Stage, LaneMoves, LaneGivesUp
<1>4. ASSUME NEW p \in Processes, FailRead(p) PROVE LaneMoves(q)
  <2>1. CASE Owned(p, held[p])
    <3> DEFINE b == terminal[p] \/ attemptCount[held[p]] >= maxAttempts[held[p]]
    <3>1. /\ stage[p] = "fail" /\ stage' = [stage EXCEPT ![p] = "failWrite"]
          /\ verdict' = [verdict EXCEPT ![p] = b]
          /\ UNCHANGED <<rowVars, held, heldAttempt, terminal>>
      BY <1>4, <2>1, Zenon DEF FailRead
    <3>2. CASE q = p
      <4>1. LaneKeeps(q) /\ stage[q] = "fail" /\ stage'[q] = "failWrite"
        BY <1>0, <3>1, <3>2, SMT DEF LaneTypes, LaneKeeps
      <4>2. verdict'[q] = b
        <5> HIDE DEF b
        <5> QED
          BY <1>0, <3>1, <3>2, Zenon DEF LaneTypes
      <4>3. LaneDecides(q)
        BY <2>1, <3>1, <3>2, <4>1, <4>2, Zenon DEF LaneDecides
      <4> QED
        BY <4>3 DEF LaneMoves
    <3>3. CASE q # p
      <4>1. stage'[q] = stage[q]
        BY <1>0, <3>1, <3>3, SMT DEF LaneTypes
      <4>2. verdict'[q] = verdict[q]
        <5> HIDE DEF b
        <5> QED
          BY <1>0, <3>1, <3>3, Zenon DEF LaneTypes
      <4> QED
        BY <3>1, <4>1, <4>2, Zenon DEF LaneMoves, LaneStays, LaneKeeps
    <3> QED
      BY <3>2, <3>3
  <2>2. CASE ~Owned(p, held[p])
    BY <1>0, <1>4, <2>2, GoIdleMoves DEF FailRead
  <2> QED
    BY <2>1, <2>2
<1>5. ASSUME NEW p \in Processes, FailWrite(p) \/ Crash(p) PROVE LaneMoves(q)
  <2>1. GoIdle(p)
    BY <1>5, Zenon DEF FailWrite, Crash
  <2> QED
    BY <1>0, <2>1, GoIdleMoves
<1>6. ASSUME UNCHANGED laneVars PROVE LaneMoves(q)
  BY <1>6, Zenon DEF laneVars, LaneMoves, LaneStays, LaneKeeps
<1>7. ASSUME NEW e \in Events, Route(e) PROVE LaneMoves(q)
  BY <1>6, <1>7, Zenon DEF Route, SelectRoutes, InsertRoutes, RollBackRoutes
<1>8. ASSUME NEW u \in Sessions, Replay(u) PROVE LaneMoves(q)
  BY <1>6, <1>8, Zenon DEF Replay, ReplayRead, ReplayWrite
<1>9. ASSUME NEW s \in Subscriptions, Owner(s) PROVE LaneMoves(q)
  BY <1>6, <1>9, Zenon DEF Owner, Verify, Unlink
<1>10. ASSUME NEW c \in Deliveries, Time(c) PROVE LaneMoves(q)
  BY <1>6, <1>10, Zenon DEF Time, LeaseExpires, BackoffElapses
<1>11. CASE UNCHANGED vars
  BY <1>6, <1>11 DEF vars
<1> QED
  BY <1>1, <1>2, <1>3, <1>4, <1>5, <1>7, <1>8, <1>9, <1>10, <1>11 DEF Next, Work

(* Endpoints forget nothing. *)
LEMMA EndpointGrows ==
  ASSUME TypeOK, [Next]_vars, NEW d \in Deliveries
  PROVE  accepted[d] \subseteq accepted'[d] /\ gone[d] \subseteq gone'[d]
<1>0. EndpointTypes
  BY TypeOKParts
<1>1. ASSUME NEW p \in Processes, Dispatch(p)
      PROVE  accepted[d] \subseteq accepted'[d] /\ gone[d] \subseteq gone'[d]
  <2>1. CASE Accepted(p)
    BY <1>0, <2>1, SMT DEF Accepted, EndpointTypes
  <2>2. CASE Revoked(p)
    BY <1>0, <2>2, SMT DEF Revoked, EndpointTypes
  <2>3. CASE Refused(p)
    BY <2>3 DEF Refused, endpointVars
  <2> QED
    BY <1>1, <2>1, <2>2, <2>3 DEF Dispatch
<1>2. CASE UNCHANGED endpointVars
  BY <1>2 DEF endpointVars
<1> QED
  BY <1>1, <1>2, Zenon DEF Next, vars, Work, LeaseNext, Complete, FailRead, FailWrite, Crash,
        Route, SelectRoutes, InsertRoutes, RollBackRoutes, Replay, ReplayRead, ReplayWrite,
        Owner, Verify, Unlink, Time, LeaseExpires, BackoffElapses

-----------------------------------------------------------------------------
(* A delivered row is never touched again: no late report, replay or       *)
(* repeated routing of the event reopens it.                               *)
THEOREM DeliveryDeliveredIsFinal == Spec => DeliveredIsFinal
<1>1. ASSUME TypeOK, [Next]_vars, NEW d \in Deliveries, status[d] = "delivered"
      PROVE  status'[d] = "delivered" /\ attemptCount'[d] = attemptCount[d]
  <2>1. ~RowLeased(d) /\ ~RowReplayed(d) /\ ~RowRouted(d)
    BY <1>1 DEF RowLeased, RowReplayed, RowRouted
  <2>2. ~RowDelivered(d) /\ ~RowFailed(d)
    BY <1>1 DEF RowDelivered, RowFailed, OwnedAttempt, Owned
  <2>3. RowStays(d)
    BY <1>1, <2>1, <2>2, DeliveryRowMoves DEF RowMoves
  <2> QED
    BY <1>1, <2>3 DEF RowStays
<1>2. TypeOK /\ [Next]_vars
        => [\A d \in Deliveries : status[d] = "delivered"
               => status'[d] = "delivered" /\ attemptCount'[d] = attemptCount[d]]_vars
  BY <1>1
<1> QED
  BY <1>2, DeliveryTypeCorrect, PTL DEF Spec, DeliveredIsFinal

-----------------------------------------------------------------------------
LEMMA SenderStep == TypeOK /\ OneSenderPerAttempt /\ [Next]_vars => OneSenderPerAttempt'
<1> SUFFICES ASSUME TypeOK, OneSenderPerAttempt, [Next]_vars,
                    NEW p \in Processes, NEW q \in Processes, p # q,
                    stage'[p] # "idle", stage'[q] # "idle", held'[p] = held'[q]
             PROVE  heldAttempt'[p] # heldAttempt'[q]
  BY DEF OneSenderPerAttempt
<1>0. RowTypes /\ HeldExists
  BY TypeOKParts
<1>1. ASSUME NEW r \in Processes, NEW s \in Processes, LaneStarts(r), r # s,
             stage'[s] # "idle", held'[r] = held'[s]
      PROVE  heldAttempt'[r] # heldAttempt'[s]
  <2>1. stage[s] # "idle" /\ held[s] = held'[r] /\ heldAttempt'[s] = heldAttempt[s]
    BY <1>1 DEF LaneStarts
  <2>2. heldAttempt[s] \in 1 .. attemptCount[held'[r]]
    BY <1>0, <2>1 DEF HeldExists
  <2>3. attemptCount[held'[r]] \in Nat
    BY <1>0, <1>1, SMT DEF RowTypes, LaneStarts
  <2> QED
    BY <1>1, <2>1, <2>2, <2>3, SMT DEF LaneStarts
<1>2. CASE LaneKeeps(p) /\ LaneKeeps(q)
  BY <1>2 DEF LaneKeeps, OneSenderPerAttempt
<1>3. \A r \in Processes : stage'[r] # "idle" => LaneStarts(r) \/ LaneKeeps(r)
  BY DeliveryLaneMoves DEF LaneMoves, LaneAnswered, LaneGivesUp, LaneDecides, LaneStays
<1> QED
  BY <1>1, <1>2, <1>3

(* Attempt numbers fence senders: no two processes ever send one delivery  *)
(* under the same number, however their leases expire and even when they   *)
(* run under one worker id.                                                *)
THEOREM DeliveryOneSender == Spec => []OneSenderPerAttempt
<1>1. Init => OneSenderPerAttempt
  BY SMT DEF Init, OneSenderPerAttempt
<1> QED
  BY <1>1, DeliveryTypeCorrect, SenderStep, PTL DEF Spec

-----------------------------------------------------------------------------
(* A process about to call complete() holds an attempt the endpoint took.  *)
CompleteKnowsAccepted ==
    \A p \in Processes : stage[p] = "complete" => heldAttempt[p] \in accepted[held[p]]

AcceptedInv == TypeOK /\ DeliveredWasAccepted /\ CompleteKnowsAccepted

LEMMA AcceptedStep == AcceptedInv /\ [Next]_vars => AcceptedInv'
<1> SUFFICES ASSUME AcceptedInv, [Next]_vars PROVE AcceptedInv'
  OBVIOUS
<1>0. TypeOK /\ TypeOK' /\ HeldExists /\ DeliveredWasAccepted /\ CompleteKnowsAccepted
  BY DeliveryTypeStep, TypeOKParts DEF AcceptedInv
<1>1. ASSUME NEW d \in Deliveries, status'[d] = "delivered"
      PROVE  attemptCount'[d] \in accepted'[d]
  <2>1. accepted[d] \subseteq accepted'[d]
    BY <1>0, EndpointGrows
  <2>2. RowDelivered(d) \/ RowStays(d)
    <3>1. ~RowLeased(d) /\ ~RowReplayed(d) /\ ~RowRouted(d)
      BY <1>1 DEF RowLeased, RowReplayed, RowRouted
    <3>2. ~RowFailed(d)
      BY <1>1 DEF RowFailed
    <3> QED
      BY <1>0, <3>1, <3>2, DeliveryRowMoves DEF RowMoves
  <2>3. CASE RowDelivered(d)
    BY <1>0, <2>1, <2>3 DEF RowDelivered, OwnedAttempt, CompleteKnowsAccepted
  <2>4. CASE RowStays(d)
    BY <1>0, <1>1, <2>1, <2>4 DEF RowStays, DeliveredWasAccepted
  <2> QED
    BY <2>2, <2>3, <2>4
<1>2. ASSUME NEW q \in Processes, stage'[q] = "complete"
      PROVE  heldAttempt'[q] \in accepted'[held'[q]]
  <2>1. LaneAnswered(q) \/ LaneStays(q)
    BY <1>0, <1>2, DeliveryLaneMoves, SMT DEF LaneMoves, LaneStarts, LaneGivesUp, LaneDecides
  <2>2. CASE LaneAnswered(q)
    BY <1>2, <2>2, SMT DEF LaneAnswered, LaneKeeps
  <2>3. CASE LaneStays(q)
    <3>1. held[q] \in Deliveries /\ held'[q] = held[q] /\ heldAttempt'[q] = heldAttempt[q]
      BY <1>0, <2>3 DEF LaneStays, LaneKeeps, HeldExists
    <3>2. heldAttempt[q] \in accepted[held[q]]
      BY <1>0, <1>2, <2>3 DEF LaneStays, CompleteKnowsAccepted
    <3> QED
      BY <1>0, <3>1, <3>2, EndpointGrows
  <2> QED
    BY <2>1, <2>2, <2>3
<1> QED
  BY <1>0, <1>1, <1>2 DEF AcceptedInv, DeliveredWasAccepted, CompleteKnowsAccepted

(* A delivery is reported delivered only on the strength of the attempt it *)
(* counts: the endpoint accepted that very attempt.                        *)
THEOREM DeliveryDeliveredWasAccepted == Spec => []DeliveredWasAccepted
<1>1. Init => AcceptedInv
  BY SMT DEF Init, AcceptedInv, TypeOK, Stage, DeliveryStatus, AttemptStatus, Attempts,
             DeliveredWasAccepted, CompleteKnowsAccepted
<1>2. AcceptedInv => DeliveredWasAccepted
  BY DEF AcceptedInv
<1> QED
  BY <1>1, <1>2, AcceptedStep, PTL DEF Spec

-----------------------------------------------------------------------------
(* The part of AttemptLogAgrees that speaks of one delivery. *)
LogOf(d) ==
    \A n \in Attempts :
        /\ n = attemptCount[d] => attemptRow[d][n] = RowFor(d)
        /\ n < attemptCount[d] => attemptRow[d][n] \in {"delivering", "failed"}
        /\ n > attemptCount[d] => attemptRow[d][n] = "none"

LEMMA LogStep ==
  ASSUME TypeOK, TypeOK', [Next]_vars, NEW d \in Deliveries, LogOf(d)
  PROVE  LogOf(d)'
<1>0. /\ attemptRow[d] \in [Attempts -> AttemptStatus] /\ attemptCount[d] \in 0 .. AttemptLimit
      /\ attemptCount'[d] \in 0 .. AttemptLimit /\ Attempts = 1 .. AttemptLimit
      /\ status[d] \in DeliveryStatus
  BY TypeOKParts, SMT DEF TypeOK, RowTypes, Attempts
<1> SUFFICES ASSUME NEW n \in Attempts
             PROVE  /\ n = attemptCount'[d] => attemptRow'[d][n] = RowFor(d)'
                    /\ n < attemptCount'[d] => attemptRow'[d][n] \in {"delivering", "failed"}
                    /\ n > attemptCount'[d] => attemptRow'[d][n] = "none"
  BY DEF LogOf
<1>1. /\ n = attemptCount[d] => attemptRow[d][n] = RowFor(d)
      /\ n < attemptCount[d] => attemptRow[d][n] \in {"delivering", "failed"}
      /\ n > attemptCount[d] => attemptRow[d][n] = "none"
  BY DEF LogOf
<1>2. CASE RowLeased(d)
  <2>1. status'[d] = "delivering" /\ RowFor(d)' = "delivering"
    BY <1>2 DEF RowLeased, RowFor
  <2>2. RowFor(d) \in {"delivering", "failed"}
    BY <1>2, SMT DEF RowLeased, RowFor
  <2>3. attemptCount'[d] = attemptCount[d] + 1
    BY <1>2 DEF RowLeased
  <2>4. attemptRow'[d][n] = IF n = attemptCount[d] + 1 /\ attemptRow[d][n] = "none"
                            THEN "delivering" ELSE attemptRow[d][n]
    BY <1>0, <1>2, SMT DEF RowLeased
  <2> QED
    BY <1>0, <1>1, <2>1, <2>2, <2>3, <2>4, SMT
<1>3. ASSUME NEW x \in {"delivered", "failed"},
             attemptCount'[d] = attemptCount[d], RowFor(d)' = x,
             attemptRow'[d] = [attemptRow[d] EXCEPT ![attemptCount[d]] = x]
      PROVE  /\ n = attemptCount'[d] => attemptRow'[d][n] = RowFor(d)'
             /\ n < attemptCount'[d] => attemptRow'[d][n] \in {"delivering", "failed"}
             /\ n > attemptCount'[d] => attemptRow'[d][n] = "none"
  <2>1. attemptRow'[d][n] = IF n = attemptCount[d] THEN x ELSE attemptRow[d][n]
    BY <1>0, <1>3, SMT
  <2> QED
    BY <1>0, <1>1, <1>3, <2>1, SMT
<1>4. CASE RowDelivered(d)
  <2>1. RowFor(d)' = "delivered"
    BY <1>4, SMT DEF RowDelivered, RowFor
  <2> QED
    BY <1>3, <1>4, <2>1 DEF RowDelivered
<1>5. CASE RowFailed(d)
  <2>1. status'[d] \in {"dead", "failed"}
    BY <1>5 DEF RowFailed
  <2>2. RowFor(d)' = "failed"
    BY <2>1, SMT DEF RowFor
  <2> QED
    BY <1>3, <1>5, <2>2 DEF RowFailed
<1>6. ASSUME attemptCount'[d] = attemptCount[d], attemptRow'[d] = attemptRow[d],
             RowFor(d)' = RowFor(d)
      PROVE  /\ n = attemptCount'[d] => attemptRow'[d][n] = RowFor(d)'
             /\ n < attemptCount'[d] => attemptRow'[d][n] \in {"delivering", "failed"}
             /\ n > attemptCount'[d] => attemptRow'[d][n] = "none"
  BY <1>1, <1>6
<1>7. CASE RowReplayed(d)
  <2>1. RowFor(d)' = RowFor(d)
    BY <1>7, SMT DEF RowReplayed, RowFor
  <2> QED
    BY <1>6, <1>7, <2>1 DEF RowReplayed
<1>8. CASE RowRouted(d)
  <2>1. RowFor(d)' = RowFor(d)
    BY <1>8, SMT DEF RowRouted, RowFor
  <2> QED
    BY <1>6, <1>8, <2>1 DEF RowRouted
<1>9. CASE RowStays(d)
  <2>1. RowFor(d)' = RowFor(d)
    BY <1>9 DEF RowStays, RowFor
  <2> QED
    BY <1>6, <1>9, <2>1 DEF RowStays
<1> QED
  BY <1>2, <1>4, <1>5, <1>7, <1>8, <1>9, DeliveryRowMoves DEF RowMoves

(* The attempt log the console shows tells the same story as the delivery: *)
(* one row per attempt made, none beyond, and the current one in the       *)
(* delivery's own state.                                                   *)
THEOREM DeliveryAttemptLogAgrees == Spec => []AttemptLogAgrees
<1>0. AttemptLogAgrees <=> \A d \in Deliveries : LogOf(d)
  BY DEF AttemptLogAgrees, LogOf
<1>1. Init => AttemptLogAgrees
  BY SMT DEF Init, AttemptLogAgrees, Attempts
<1>2. TypeOK /\ TypeOK' /\ AttemptLogAgrees /\ [Next]_vars => AttemptLogAgrees'
  <2> SUFFICES ASSUME TypeOK, TypeOK', AttemptLogAgrees, [Next]_vars PROVE AttemptLogAgrees'
    OBVIOUS
  <2>1. \A d \in Deliveries : LogOf(d)'
    BY <1>0, LogStep
  <2> QED
    BY <2>1 DEF AttemptLogAgrees, LogOf
<1> QED
  BY <1>1, <1>2, DeliveryTypeCorrect, PTL DEF Spec

-----------------------------------------------------------------------------
(* A process that reports a terminal error got it for the attempt it holds *)
(* ...                                                                     *)
TerminalWasAnswered ==
    \A p \in Processes :
        stage[p] \in {"fail", "failWrite"} /\ terminal[p] => heldAttempt[p] \in gone[held[p]]

(* ... and as long as it holds the current attempt, the verdict it read is *)
(* still right: a replay, which raises max_attempts, needs a dead row.     *)
HoldsCurrent(p) == status[held[p]] = "delivering" /\ attemptCount[held[p]] = heldAttempt[p]

VerdictStands ==
    \A p \in Processes :
        stage[p] = "failWrite" /\ HoldsCurrent(p)
            => (verdict[p] <=> terminal[p] \/ attemptCount[held[p]] >= maxAttempts[held[p]])

DeadInv == TypeOK /\ DeadIsJustified /\ TerminalWasAnswered /\ VerdictStands

LEMMA TerminalStep ==
  ASSUME TypeOK, TerminalWasAnswered, [Next]_vars
  PROVE  TerminalWasAnswered'
<1> SUFFICES ASSUME NEW q \in Processes, stage'[q] \in {"fail", "failWrite"}, terminal'[q]
             PROVE  heldAttempt'[q] \in gone'[held'[q]]
  BY DEF TerminalWasAnswered
<1>1. stage'[q] # "idle" /\ ~LaneStarts(q) /\ ~LaneGivesUp(q)
  BY DEF LaneStarts, LaneGivesUp
<1>2. CASE LaneAnswered(q)
  BY <1>2 DEF LaneAnswered, LaneKeeps
<1>3. CASE LaneDecides(q) \/ LaneStays(q)
  <2>1. stage[q] \in {"fail", "failWrite"} /\ terminal[q] /\ LaneKeeps(q)
    BY <1>3 DEF LaneDecides, LaneStays
  <2>2. held[q] \in Deliveries
    BY <2>1 DEF LaneKeeps, TypeOK
  <2>3. heldAttempt[q] \in gone[held[q]]
    BY <2>1 DEF TerminalWasAnswered
  <2> QED
    BY <2>1, <2>2, <2>3, EndpointGrows DEF LaneKeeps
<1> QED
  BY <1>1, <1>2, <1>3, DeliveryLaneMoves DEF LaneMoves

LEMMA VerdictStep ==
  ASSUME TypeOK, TypeOK', VerdictStands, [Next]_vars
  PROVE  VerdictStands'
<1> SUFFICES ASSUME NEW q \in Processes, stage'[q] = "failWrite", HoldsCurrent(q)'
             PROVE  verdict'[q] <=> \/ terminal'[q]
                                    \/ attemptCount'[held'[q]] >= maxAttempts'[held'[q]]
  BY DEF VerdictStands
<1> DEFINE d == held[q]
<1>1. LaneDecides(q) \/ LaneStays(q)
  BY DeliveryLaneMoves DEF LaneMoves, LaneStarts, LaneAnswered, LaneGivesUp
<1>2. d \in Deliveries /\ held'[q] = d /\ heldAttempt'[q] = heldAttempt[q]
      /\ heldAttempt[q] <= attemptCount[d] /\ terminal'[q] = terminal[q]
  BY <1>1, SMT DEF TypeOK, LaneDecides, LaneStays, LaneKeeps
<1>3. CASE LaneDecides(q)
  <2>1. attemptCount'[d] = attemptCount[d] /\ maxAttempts'[d] = maxAttempts[d]
    BY <1>3 DEF LaneDecides, rowVars
  <2> QED
    BY <1>2, <1>3, <2>1, Zenon DEF LaneDecides
<1>4. CASE LaneStays(q)
  <2>1. status'[d] = "delivering" /\ attemptCount'[d] = heldAttempt[q]
    BY <1>2 DEF HoldsCurrent
  <2>2. attemptCount[d] \in Nat /\ heldAttempt[q] \in Nat
    BY <1>2, SMT DEF TypeOK
  <2>3. ~RowLeased(d)
    BY <1>2, <2>1, <2>2, SMT DEF RowLeased
  <2>4. ~RowDelivered(d) /\ ~RowFailed(d) /\ ~RowReplayed(d) /\ ~RowRouted(d)
    BY <2>1 DEF RowDelivered, RowFailed, RowReplayed, RowRouted
  <2>5. RowStays(d)
    BY <1>2, <2>3, <2>4, DeliveryRowMoves DEF RowMoves
  <2>6. HoldsCurrent(q)
    BY <1>2, <2>1, <2>5 DEF RowStays, HoldsCurrent
  <2> QED
    BY <1>2, <1>4, <2>5, <2>6 DEF LaneStays, RowStays, VerdictStands
<1> QED
  BY <1>1, <1>3, <1>4

LEMMA DeadStep ==
  ASSUME TypeOK, DeadIsJustified, TerminalWasAnswered, VerdictStands, [Next]_vars,
         NEW d \in Deliveries, status'[d] = "dead"
  PROVE  attemptCount'[d] >= maxAttempts'[d] \/ attemptCount'[d] \in gone'[d]
<1>0. gone[d] \subseteq gone'[d]
  BY EndpointGrows
<1>1. ~RowLeased(d) /\ ~RowDelivered(d) /\ ~RowReplayed(d) /\ ~RowRouted(d)
  BY DEF RowLeased, RowDelivered, RowReplayed, RowRouted
<1>2. CASE RowFailed(d)
  <2>1. PICK p \in Processes :
          /\ stage[p] = "failWrite" /\ held[p] = d /\ OwnedAttempt(p, d)
          /\ status'[d] = IF verdict[p] THEN "dead" ELSE "failed"
          /\ attemptCount'[d] = attemptCount[d] /\ maxAttempts'[d] = maxAttempts[d]
    BY <1>2 DEF RowFailed
  <2>2. verdict[p]
    BY <2>1
  <2>3. HoldsCurrent(p) /\ attemptCount[d] = heldAttempt[p]
    BY <2>1 DEF OwnedAttempt, Owned, HoldsCurrent
  <2>4. terminal[p] \/ attemptCount[d] >= maxAttempts[d]
    BY <2>1, <2>2, <2>3 DEF VerdictStands
  <2>5. terminal[p] => attemptCount[d] \in gone[d]
    BY <2>1, <2>3 DEF TerminalWasAnswered
  <2> QED
    BY <1>0, <2>1, <2>4, <2>5
<1>3. CASE RowStays(d)
  BY <1>0, <1>3 DEF RowStays, DeadIsJustified
<1> QED
  BY <1>1, <1>2, <1>3, DeliveryRowMoves DEF RowMoves

LEMMA DeadInvariant == Spec => []DeadInv
<1>1. Init => DeadInv
  <2>1. Init => TypeOK
    BY DeliveryTypeInit
  <2> QED
    BY <2>1, SMT DEF Init, DeadInv, DeadIsJustified, TerminalWasAnswered, VerdictStands
<1>2. TypeOK' /\ DeadInv /\ [Next]_vars => DeadInv'
  <2> SUFFICES ASSUME TypeOK', DeadInv, [Next]_vars PROVE DeadInv'
    OBVIOUS
  <2>1. TypeOK /\ DeadIsJustified /\ TerminalWasAnswered /\ VerdictStands
    BY DEF DeadInv
  <2>2. TerminalWasAnswered' /\ VerdictStands'
    BY <2>1, TerminalStep, VerdictStep
  <2>3. DeadIsJustified'
    BY <2>1, DeadStep DEF DeadIsJustified
  <2> QED
    BY <2>2, <2>3 DEF DeadInv
<1> QED
  BY <1>1, <1>2, DeliveryTypeCorrect, PTL DEF Spec

(* No delivery is given up early: a dead row has spent its attempts, or    *)
(* its endpoint answered the current attempt that it is gone.              *)
THEOREM DeliveryDeadIsJustified == Spec => []DeadIsJustified
<1>1. DeadInv => DeadIsJustified
  BY DEF DeadInv
<1> QED
  BY <1>1, DeadInvariant, PTL

-----------------------------------------------------------------------------
(* Only the report of a terminal error switches a subscription off while   *)
(* a lane moves.                                                           *)
LEMMA SwitchedOffByReport ==
  ASSUME TypeOK, [Next]_vars, NEW s \in Subscriptions,
         active[s], ~active'[s], stage' # stage
  PROVE  \E p \in Processes :
            /\ stage[p] = "failWrite" /\ FailWrite(p) /\ OwnedAttempt(p, held[p])
            /\ SubscriptionOf[held[p]] = s /\ terminal[p]
<1>0. active \in [Subscriptions -> BOOLEAN]
  BY DEF TypeOK
<1>1. active' # active
  OBVIOUS
<1>2. ~(\E u \in Sessions : Replay(u)) /\ ~(\E e \in Events : Route(e))
      /\ ~(\E c \in Deliveries : Time(c))
  BY <1>1 DEF Replay, ReplayWrite, ReplayRead, Route, SelectRoutes, InsertRoutes,
              RollBackRoutes, Time, LeaseExpires, BackoffElapses
<1>3. ~(\E t \in Subscriptions : Owner(t))
  BY DEF Owner, Verify, Unlink, laneVars
<1>4. PICK p \in Processes : Work(p) \/ Crash(p)
  BY <1>1, <1>2, <1>3 DEF Next, vars
<1>5. FailWrite(p)
  BY <1>1, <1>4 DEF Work, LeaseNext, Dispatch, Complete, FailRead, Crash
<1>6. stage[p] = "failWrite" /\ OwnedAttempt(p, held[p])
  BY <1>1, <1>5 DEF FailWrite
<1>7. active' = [active EXCEPT ![SubscriptionOf[held[p]]] = @ /\ ~terminal[p]]
  BY <1>5, <1>6 DEF FailWrite
<1>8. SubscriptionOf[held[p]] = s
  BY <1>0, <1>7, Zenon
<1>9. terminal[p]
  BY <1>0, <1>7, <1>8, Zenon
<1> QED
  BY <1>5, <1>6, <1>8, <1>9

(* A report switches a subscription off only when the endpoint of one of   *)
(* its own deliveries answered that delivery's current attempt that it is  *)
(* gone, and the same transaction ends that delivery.                      *)
THEOREM DeliveryRevocationIsCurrent == Spec => RevocationIsCurrent
<1>1. DeadInv /\ [Next]_vars => [\A s \in Subscriptions :
          active[s] /\ ~active'[s] /\ stage' # stage
             => \E d \in Deliveries :
                   /\ SubscriptionOf[d] = s
                   /\ status[d] = "delivering" /\ status'[d] = "dead"
                   /\ attemptCount[d] \in gone[d]]_vars
  <2> SUFFICES ASSUME DeadInv, [Next]_vars, NEW s \in Subscriptions,
                      active[s], ~active'[s], stage' # stage
               PROVE  \E d \in Deliveries :
                         /\ SubscriptionOf[d] = s
                         /\ status[d] = "delivering" /\ status'[d] = "dead"
                         /\ attemptCount[d] \in gone[d]
    OBVIOUS
  <2>0. TypeOK /\ TerminalWasAnswered /\ VerdictStands
    BY DEF DeadInv
  <2>1. PICK p \in Processes :
            /\ stage[p] = "failWrite" /\ FailWrite(p) /\ OwnedAttempt(p, held[p])
            /\ SubscriptionOf[held[p]] = s /\ terminal[p]
    BY <2>0, SwitchedOffByReport
  <2>2. held[p] \in Deliveries
    BY <2>0, <2>1 DEF TypeOK
  <2>3. HoldsCurrent(p) /\ attemptCount[held[p]] = heldAttempt[p]
    BY <2>1 DEF OwnedAttempt, Owned, HoldsCurrent
  <2>4. attemptCount[held[p]] \in gone[held[p]]
    BY <2>0, <2>1, <2>3 DEF TerminalWasAnswered
  <2>5. verdict[p]
    BY <2>0, <2>1, <2>3 DEF VerdictStands
  <2>6. status'[held[p]] = "dead"
    BY <2>0, <2>1, <2>2, <2>5, SMT DEF FailWrite, TypeOK
  <2> QED
    BY <2>1, <2>2, <2>3, <2>4, <2>6 DEF HoldsCurrent
<1> QED
  BY <1>1, DeadInvariant, PTL DEF Spec, RevocationIsCurrent

-----------------------------------------------------------------------------
(* The deliveries are a queue of bounded retries.                          *)

(* Only endpoints of revocable subscriptions answer that they are gone.    *)
GoneIsRevocable ==
    \A d \in Deliveries : gone[d] # {} => SubscriptionOf[d] \in Revocable

LEMMA GoneStep ==
  ASSUME TypeOK, GoneIsRevocable, [Next]_vars
  PROVE  GoneIsRevocable'
<1>0. EndpointTypes
  BY TypeOKParts
<1>1. ASSUME NEW p \in Processes, Dispatch(p) PROVE GoneIsRevocable'
  <2>1. CASE Revoked(p)
    BY <1>0, <2>1, SMT DEF Revoked, EndpointTypes, GoneIsRevocable
  <2>2. CASE UNCHANGED gone
    BY <2>2 DEF GoneIsRevocable
  <2> QED
    BY <1>1, <2>1, <2>2 DEF Dispatch, Accepted, Refused, endpointVars
<1>2. CASE UNCHANGED endpointVars
  BY <1>2 DEF endpointVars, GoneIsRevocable
<1> QED
  BY <1>1, <1>2, Zenon DEF Next, vars, Work, LeaseNext, Complete, FailRead, FailWrite, Crash,
        Route, SelectRoutes, InsertRoutes, RollBackRoutes, Replay, ReplayRead, ReplayWrite,
        Owner, Verify, Unlink, Time, LeaseExpires, BackoffElapses

(* One row changes its status and nothing else.                            *)
LEMMA OneRowMoves ==
  ASSUME RowTypes, NEW d \in Deliveries, NEW s, status' = [status EXCEPT ![d] = s]
  PROVE  Queue!Move(d, Phase(s))
<1>1. \A c \in Deliveries : status'[c] = IF c = d THEN s ELSE status[c]
  BY SMT DEF RowTypes
<1>2. \A c \in Deliveries : Phase(status'[c]) = IF c = d THEN Phase(s) ELSE Phase(status[c])
  BY <1>1, SMT DEF Phase
<1> QED
  BY <1>2, Zenon DEF Queue!Move

LEMMA PhaseValues ==
  /\ Phase("absent") = "absent" /\ Phase("pending") = "waiting" /\ Phase("failed") = "waiting"
  /\ Phase("delivering") = "working" /\ Phase("delivered") = "done" /\ Phase("dead") = "dead"
BY SMT DEF Phase

QueueInv == TypeOK /\ CompleteKnowsAccepted /\ DeadInv /\ GoneIsRevocable

(* A lease is a try. *)
LEMMA LeaseIsStart ==
  ASSUME QueueInv, NEW p \in Processes, NEW d \in Deliveries, LeaseNext(p, d)
  PROVE  Queue!Start(d)
<1>0. RowTypes
  BY TypeOKParts DEF QueueInv
<1>1. /\ status[d] \in {"pending", "failed", "delivering"} /\ attemptCount[d] < maxAttempts[d]
      /\ status' = [status EXCEPT ![d] = "delivering"]
      /\ attemptCount' = [attemptCount EXCEPT ![d] = attemptCount[d] + 1]
      /\ UNCHANGED <<maxAttempts, accepted>>
  BY DEF LeaseNext, Leasable, NextAttempt, endpointVars
<1>2. Phase(status[d]) \in {"waiting", "working"} /\ Queue!Move(d, "working")
  <2>1. Phase(status[d]) \in {"waiting", "working"}
    BY <1>1, SMT DEF Phase
  <2>2. Queue!Move(d, Phase("delivering"))
    BY <1>0, <1>1, OneRowMoves
  <2> QED
    BY <2>1, <2>2, PhaseValues
<1>3. attemptCount[d] \in Nat /\ maxAttempts[d] \in Nat
  BY <1>0, SMT DEF RowTypes, Attempts
<1>4. \A c \in Deliveries : attemptCount'[c] = IF c = d THEN attemptCount[d] + 1 ELSE attemptCount[c]
  BY <1>0, <1>1, SMT DEF RowTypes
<1>5. AttemptsLeft(attemptCount[d], maxAttempts[d]) > 0
  BY <1>1, <1>3, SMT DEF AttemptsLeft
<1>6. AttemptsLeft(attemptCount[d] + 1, maxAttempts[d])
         = AttemptsLeft(attemptCount[d], maxAttempts[d]) - 1
  BY <1>1, <1>3, SMT DEF AttemptsLeft
<1>7. \A c \in Deliveries : AttemptsLeft(attemptCount'[c], maxAttempts'[c])
         = IF c = d THEN AttemptsLeft(attemptCount[d], maxAttempts[d]) - 1
                    ELSE AttemptsLeft(attemptCount[c], maxAttempts[c])
  BY <1>1, <1>4, <1>6
<1>8. {c \in Deliveries : attemptCount'[c] > 0} = {c \in Deliveries : attemptCount[c] > 0} \union {d}
  BY <1>3, <1>4, SMT
<1> QED
  BY <1>1, <1>2, <1>5, <1>7, <1>8, Zenon DEF Queue!Start

(* Routing adds the rows that are not there yet. *)
LEMMA InsertIsAdd ==
  ASSUME QueueInv, NEW e \in Events, InsertRoutes(e)
  PROVE  \E arriving \in SUBSET Deliveries : Queue!Add(arriving)
<1> DEFINE arriving == {d \in Deliveries : d \in selected /\ EventOf[d] = e /\ status[d] = "absent"}
<1>1. status' = [d \in Deliveries |-> IF d \in arriving THEN "pending" ELSE status[d]]
  BY DEF InsertRoutes
<1>2. UNCHANGED <<attemptCount, maxAttempts, accepted>>
  BY DEF InsertRoutes, endpointVars
<1>3. \A d \in arriving : Phase(status[d]) = "absent"
  BY PhaseValues
<1>4. \A d \in Deliveries : Phase(status'[d]) = IF d \in arriving THEN "waiting" ELSE Phase(status[d])
  <2> HIDE DEF arriving
  <2>1. \A d \in Deliveries : status'[d] = IF d \in arriving THEN "pending" ELSE status[d]
    BY <1>1
  <2> QED
    BY <2>1, PhaseValues
<1>5. arriving \in SUBSET Deliveries
  OBVIOUS
<1>6. Queue!Add(arriving)
  <2> HIDE DEF arriving
  <2> QED
    BY <1>2, <1>3, <1>4, <1>5, Zenon DEF Queue!Add
<1> QED
  BY <1>5, <1>6, Zenon

(* A replay brings a dead row back. *)
LEMMA ReplayIsRequeue ==
  ASSUME QueueInv, NEW u \in Sessions, ReplayWrite(u), status' # status
  PROVE  Queue!Requeue(replaying[u])
<1>0. RowTypes /\ ReplayTypes
  BY TypeOKParts DEF QueueInv
<1> DEFINE d == replaying[u]
<1>1. /\ d \in Deliveries /\ status[d] = "dead"
      /\ status' = [status EXCEPT ![d] = "failed"]
      /\ maxAttempts' = [maxAttempts EXCEPT ![d] = replayMax[u]]
      /\ replayMax[u] \in Attempts
      /\ UNCHANGED <<attemptCount, accepted>>
  BY <1>0 DEF ReplayWrite, ReplayTypes, endpointVars
<1>2. Phase(status[d]) = "dead" /\ Queue!Move(d, "waiting")
  BY <1>0, <1>1, OneRowMoves, PhaseValues
<1>3. attemptCount[d] \in Nat /\ replayMax[u] \in Nat
  BY <1>0, <1>1, SMT DEF RowTypes, Attempts
<1>4. AttemptsLeft(attemptCount[d], replayMax[u]) \in Nat
  BY <1>3, SMT DEF AttemptsLeft
<1>5. \A c \in Deliveries : maxAttempts'[c] = IF c = d THEN replayMax[u] ELSE maxAttempts[c]
  BY <1>0, <1>1, SMT DEF RowTypes
<1>6. \A c \in Deliveries : AttemptsLeft(attemptCount'[c], maxAttempts'[c])
         = IF c = d THEN AttemptsLeft(attemptCount'[d], maxAttempts'[d])
                    ELSE AttemptsLeft(attemptCount[c], maxAttempts[c])
  BY <1>1, <1>5
<1>7. AttemptsLeft(attemptCount'[d], maxAttempts'[d]) \in Nat
  BY <1>1, <1>4, <1>5
<1>8. AttemptsLeft(attemptCount'[d], maxAttempts'[d])
         = [c \in Deliveries |-> AttemptsLeft(attemptCount'[c], maxAttempts'[c])][d]
  BY <1>1
<1> HIDE DEF d
<1>9. Queue!Requeue(d)
  BY <1>1, <1>2, <1>6, <1>7, <1>8, Zenon DEF Queue!Requeue
<1> QED
  BY <1>9 DEF d

LEMMA DeliverySimulationStep ==
  ASSUME QueueInv, [Next]_vars
  PROVE  [Queue!Next]_(Queue!vars)
<1>0. /\ RowTypes /\ HeldExists /\ EndpointTypes
      /\ CompleteKnowsAccepted /\ TerminalWasAnswered /\ VerdictStands /\ GoneIsRevocable
  BY TypeOKParts DEF QueueInv, DeadInv
<1>1. ASSUME UNCHANGED <<status, attemptCount, maxAttempts, accepted>>
      PROVE  UNCHANGED Queue!vars
  BY <1>1, Zenon DEF Queue!vars
<1>2. ASSUME NEW p \in Processes, stage[p] # "idle"
      PROVE  held[p] \in Deliveries /\ attemptCount[held[p]] > 0
  BY <1>0, <1>2, SMT DEF HeldExists, RowTypes
(* A row that leaves "delivering" on a report of the attempt it counts.    *)
<1>3. ASSUME NEW d \in Deliveries, NEW s, status[d] = "delivering",
             status' = [status EXCEPT ![d] = s],
             attemptCount' = attemptCount, maxAttempts' = maxAttempts
      PROVE  /\ Phase(status[d]) = "working"
             /\ Queue!Move(d, Phase(s))
             /\ [c \in Deliveries |-> AttemptsLeft(attemptCount'[c], maxAttempts'[c])]
                   = [c \in Deliveries |-> AttemptsLeft(attemptCount[c], maxAttempts[c])]
             /\ {c \in Deliveries : attemptCount'[c] > 0} = {c \in Deliveries : attemptCount[c] > 0}
  <2>1. Phase(status[d]) = "working"
    BY <1>3, PhaseValues
  <2> QED
    BY <1>0, <1>3, <2>1, OneRowMoves
<1>4. ASSUME NEW p \in Processes, Dispatch(p)
      PROVE  Queue!Perform(held[p]) \/ UNCHANGED Queue!vars
  <2>1. /\ stage[p] # "idle" /\ UNCHANGED <<status, attemptCount, maxAttempts>>
        /\ Accepted(p) \/ UNCHANGED accepted
    BY <1>4, Zenon DEF Dispatch, rowVars, Revoked, Refused, endpointVars
  <2>2. held[p] \in Deliveries /\ attemptCount[held[p]] > 0
    BY <1>2, <2>1
  <2>3. CASE Accepted(p)
    <3>1. \A c \in Deliveries : accepted'[c] = IF c = held[p] THEN accepted[c] \union {heldAttempt[p]}
                                                             ELSE accepted[c]
      BY <1>0, <2>2, <2>3, SMT DEF Accepted, EndpointTypes
    <3>2. {c \in Deliveries : accepted'[c] # {}} = {c \in Deliveries : accepted[c] # {}} \union {held[p]}
      BY <2>2, <3>1
    <3> QED
      BY <2>1, <2>2, <3>2, Zenon DEF Queue!Perform
  <2>4. CASE UNCHANGED accepted
    BY <1>1, <2>1, <2>4
  <2> QED
    BY <2>1, <2>3, <2>4
<1>5. ASSUME NEW p \in Processes, Complete(p)
      PROVE  Queue!Finish(held[p]) \/ UNCHANGED Queue!vars
  <2>1. stage[p] = "complete" /\ stage[p] # "idle" /\ UNCHANGED <<attemptCount, maxAttempts, accepted>>
    BY <1>5, SMT DEF Complete, endpointVars
  <2>2. held[p] \in Deliveries /\ accepted[held[p]] # {}
    BY <1>0, <1>2, <2>1 DEF CompleteKnowsAccepted
  <2>3. CASE status[held[p]] = "delivering" /\ status' = [status EXCEPT ![held[p]] = "delivered"]
    <3>1. /\ Phase(status[held[p]]) = "working" /\ Queue!Move(held[p], Phase("delivered"))
          /\ [c \in Deliveries |-> AttemptsLeft(attemptCount'[c], maxAttempts'[c])]
                = [c \in Deliveries |-> AttemptsLeft(attemptCount[c], maxAttempts[c])]
          /\ {c \in Deliveries : attemptCount'[c] > 0} = {c \in Deliveries : attemptCount[c] > 0}
      BY <1>3, <2>1, <2>2, <2>3
    <3>2. held[p] \in {c \in Deliveries : accepted[c] # {}}
      BY <2>2
    <3> QED
      BY <2>1, <3>1, <3>2, PhaseValues, Zenon DEF Queue!Finish
  <2>4. CASE UNCHANGED status
    BY <1>1, <2>1, <2>4
  <2> QED
    BY <1>5, <2>3, <2>4, Zenon DEF Complete, OwnedAttempt, Owned
<1>6. ASSUME NEW p \in Processes, FailWrite(p)
      PROVE  Queue!Retry(held[p]) \/ Queue!GiveUp(held[p]) \/ UNCHANGED Queue!vars
  <2>1. stage[p] = "failWrite" /\ stage[p] # "idle" /\ UNCHANGED <<attemptCount, maxAttempts, accepted>>
    BY <1>6, SMT DEF FailWrite, endpointVars
  <2>2. held[p] \in Deliveries
    BY <1>2, <2>1
  <2>3. CASE OwnedAttempt(p, held[p])
    <3>1. /\ status[held[p]] = "delivering" /\ HoldsCurrent(p)
          /\ status' = [status EXCEPT ![held[p]] = IF verdict[p] THEN "dead" ELSE "failed"]
      BY <1>6, <2>3, Zenon DEF FailWrite, OwnedAttempt, Owned, HoldsCurrent
    <3>2. verdict[p] <=> terminal[p] \/ attemptCount[held[p]] >= maxAttempts[held[p]]
      BY <1>0, <2>1, <3>1 DEF VerdictStands
    <3>3. attemptCount[held[p]] \in Nat /\ maxAttempts[held[p]] \in Nat
      BY <1>0, <2>2, SMT DEF RowTypes, Attempts
    <3>4. CASE verdict[p]
      <4>1. status' = [status EXCEPT ![held[p]] = "dead"]
        BY <3>1, <3>4
      <4>2. \/ AttemptsLeft(attemptCount[held[p]], maxAttempts[held[p]]) = 0
            \/ held[p] \in {c \in Deliveries : SubscriptionOf[c] \in Revocable}
        <5>1. CASE terminal[p]
          <6>1. gone[held[p]] # {}
            BY <1>0, <2>1, <5>1 DEF TerminalWasAnswered
          <6> QED
            BY <1>0, <2>2, <6>1 DEF GoneIsRevocable
        <5>2. CASE attemptCount[held[p]] >= maxAttempts[held[p]]
          BY <5>2 DEF AttemptsLeft
        <5> QED
          BY <3>2, <3>4, <5>1, <5>2
      <4>3. /\ Phase(status[held[p]]) = "working" /\ Queue!Move(held[p], Phase("dead"))
            /\ [c \in Deliveries |-> AttemptsLeft(attemptCount'[c], maxAttempts'[c])]
                  = [c \in Deliveries |-> AttemptsLeft(attemptCount[c], maxAttempts[c])]
            /\ {c \in Deliveries : attemptCount'[c] > 0} = {c \in Deliveries : attemptCount[c] > 0}
        BY <1>3, <2>1, <2>2, <3>1, <4>1
      <4> QED
        BY <2>1, <2>2, <4>2, <4>3, PhaseValues, Zenon DEF Queue!GiveUp
    <3>5. CASE ~verdict[p]
      <4>1. status' = [status EXCEPT ![held[p]] = "failed"]
        BY <3>1, <3>5
      <4>2. AttemptsLeft(attemptCount[held[p]], maxAttempts[held[p]]) > 0
        BY <3>2, <3>3, <3>5, SMT DEF AttemptsLeft
      <4>3. /\ Phase(status[held[p]]) = "working" /\ Queue!Move(held[p], Phase("failed"))
            /\ [c \in Deliveries |-> AttemptsLeft(attemptCount'[c], maxAttempts'[c])]
                  = [c \in Deliveries |-> AttemptsLeft(attemptCount[c], maxAttempts[c])]
            /\ {c \in Deliveries : attemptCount'[c] > 0} = {c \in Deliveries : attemptCount[c] > 0}
        BY <1>3, <2>1, <2>2, <3>1, <4>1
      <4> QED
        BY <2>1, <2>2, <4>2, <4>3, PhaseValues, Zenon DEF Queue!Retry
    <3> QED
      BY <3>4, <3>5
  <2>4. CASE ~OwnedAttempt(p, held[p])
    BY <1>1, <1>6, <2>1, <2>4, Zenon DEF FailWrite
  <2> QED
    BY <2>3, <2>4
<1>7. ASSUME NEW p \in Processes, FailRead(p) \/ Crash(p) PROVE UNCHANGED Queue!vars
  BY <1>1, <1>7, Zenon DEF FailRead, Crash, rowVars, endpointVars
<1>8. ASSUME NEW e \in Events, Route(e)
      PROVE  (\E arriving \in SUBSET Deliveries : Queue!Add(arriving)) \/ UNCHANGED Queue!vars
  <2>1. CASE SelectRoutes(e) \/ RollBackRoutes(e)
    BY <1>1, <2>1, Zenon DEF SelectRoutes, RollBackRoutes, rowVars, endpointVars
  <2> QED
    BY <1>8, <2>1, InsertIsAdd DEF Route
<1>9. ASSUME NEW u \in Sessions, Replay(u)
      PROVE  \/ Queue!Requeue(replaying[u]) /\ replaying[u] \in Deliveries
             \/ UNCHANGED Queue!vars
  <2>1. CASE \E d \in Deliveries : ReplayRead(u, d)
    BY <1>1, <2>1, Zenon DEF ReplayRead, rowVars, endpointVars
  <2>2. CASE ReplayWrite(u) /\ status' # status
    <3>1. replaying[u] \in Deliveries
      BY <2>2 DEF ReplayWrite, QueueInv, TypeOK
    <3> QED
      BY <2>2, <3>1, ReplayIsRequeue
  <2>3. CASE ReplayWrite(u) /\ status' = status
    <3>1. UNCHANGED <<status, attemptCount, maxAttempts, accepted>>
      <4>1. \A d \in Deliveries : status[d] = "dead" => [status EXCEPT ![d] = "failed"] # status
        BY <1>0, SMT DEF RowTypes
      <4>2. replaying[u] \in Deliveries
        BY <2>3 DEF ReplayWrite, QueueInv, TypeOK
      <4> QED
        BY <2>3, <4>1, <4>2, Zenon DEF ReplayWrite, endpointVars
    <3> QED
      BY <1>1, <3>1
  <2> QED
    BY <1>9, <2>1, <2>2, <2>3, Zenon DEF Replay
<1>10. ASSUME NEW s \in Subscriptions, Owner(s) PROVE UNCHANGED Queue!vars
  BY <1>1, <1>10, Zenon DEF Owner, Verify, Unlink, rowVars, endpointVars
<1>11. ASSUME NEW d \in Deliveries, Time(d) PROVE UNCHANGED Queue!vars
  BY <1>1, <1>11, Zenon DEF Time, LeaseExpires, BackoffElapses, endpointVars
<1>12. CASE UNCHANGED vars
  BY <1>1, <1>12, Zenon DEF vars, rowVars, endpointVars
<1>13. ASSUME NEW p \in Processes, Work(p) PROVE [Queue!Next]_(Queue!vars)
  <2>1. ASSUME NEW d \in Deliveries, LeaseNext(p, d) PROVE [Queue!Next]_(Queue!vars)
    <3>1. Queue!Start(d)
      BY <2>1, LeaseIsStart
    <3> QED
      BY <3>1, Zenon DEF Queue!Next
  <2>2. ASSUME stage[p] # "idle", Dispatch(p) \/ Complete(p) \/ FailRead(p) \/ FailWrite(p)
        PROVE  [Queue!Next]_(Queue!vars)
    <3>1. held[p] \in Deliveries
      BY <1>2, <2>2
    <3>2. Dispatch(p) => [Queue!Next]_(Queue!vars)
      <4>1. Dispatch(p) => Queue!Perform(held[p]) \/ UNCHANGED Queue!vars
        BY <1>4
      <4>2. Queue!Perform(held[p]) => Queue!Next
        BY <3>1, Zenon DEF Queue!Next, Queue!Perform
      <4> QED
        BY <4>1, <4>2
    <3>3. Complete(p) => [Queue!Next]_(Queue!vars)
      BY <1>5, <3>1, Zenon DEF Queue!Next
    <3>4. FailWrite(p) => [Queue!Next]_(Queue!vars)
      BY <1>6, <3>1, Zenon DEF Queue!Next
    <3> QED
      BY <1>7, <2>2, <3>2, <3>3, <3>4
  <2> QED
    BY <1>13, <2>1, <2>2 DEF Work, Dispatch, Complete, FailRead, FailWrite
<1>14. ASSUME NEW e \in Events, Route(e) PROVE [Queue!Next]_(Queue!vars)
  BY <1>8, <1>14, Zenon DEF Queue!Next
<1>15. ASSUME NEW u \in Sessions, Replay(u) PROVE [Queue!Next]_(Queue!vars)
  BY <1>9, <1>15, Zenon DEF Queue!Next
<1> QED
  BY <1>7, <1>10, <1>11, <1>12, <1>13, <1>14, <1>15, Zenon DEF Next

(* Whichever ids the workers share, and whatever late reports, replays and *)
(* repeated routings there are, the deliveries behave as a queue of        *)
(* bounded retries: delivered only after the endpoint accepted, waiting    *)
(* again after a report only with attempts left, given up only without or  *)
(* on the word of a revocable endpoint, brought back only by a replay.     *)
THEOREM DeliveryImplementsBoundedRetry == Spec => ImplementsBoundedRetry
<1>1. Init => CompleteKnowsAccepted /\ GoneIsRevocable
  BY SMT DEF Init, CompleteKnowsAccepted, GoneIsRevocable
<1>2. Init => DeliveredWasAccepted
  BY SMT DEF Init, DeliveredWasAccepted
<1>3. AcceptedInv /\ [Next]_vars => AcceptedInv'
  BY AcceptedStep
<1>4. AcceptedInv => TypeOK /\ DeliveredWasAccepted /\ CompleteKnowsAccepted
  BY DEF AcceptedInv
<1>5. TypeOK /\ DeliveredWasAccepted /\ CompleteKnowsAccepted => AcceptedInv
  BY DEF AcceptedInv
<1>6. Init => TypeOK
  BY DeliveryTypeInit
<1>7. TypeOK /\ GoneIsRevocable /\ [Next]_vars => GoneIsRevocable'
  BY GoneStep
<1>8. TypeOK /\ CompleteKnowsAccepted /\ DeadInv /\ GoneIsRevocable => QueueInv
  BY DEF QueueInv
<1>9. QueueInv /\ [Next]_vars => [Queue!Next]_(Queue!vars)
  BY DeliverySimulationStep
<1>10. Init => Queue!Init
  <2> SUFFICES ASSUME Init PROVE Queue!Init
    OBVIOUS
  <2>1. \A d \in Deliveries : Phase(status[d]) = "absent"
    BY PhaseValues DEF Init
  <2>2. \A d \in Deliveries : AttemptsLeft(attemptCount[d], maxAttempts[d]) \in Nat
    BY SMT DEF Init, AttemptsLeft
  <2>3. {d \in Deliveries : attemptCount[d] > 0} = {} /\ {d \in Deliveries : accepted[d] # {}} = {}
    BY SMT DEF Init
  <2> QED
    BY <2>1, <2>2, <2>3 DEF Queue!Init
<1> QED
  BY <1>1, <1>2, <1>3, <1>4, <1>5, <1>6, <1>7, <1>8, <1>9, <1>10, DeadInvariant, PTL
     DEF Spec, ImplementsBoundedRetry, Queue!Spec
=============================================================================
