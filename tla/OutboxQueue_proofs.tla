-------------------------- MODULE OutboxQueue_proofs --------------------------
(***************************************************************************)
(* Proofs about OutboxQueue for any number of jobs, processes and attempts.*)
(***************************************************************************)
EXTENDS OutboxQueue, TLAPS

USE OutboxAssumption

-----------------------------------------------------------------------------
(* Type correctness.                                                       *)

(* What TypeOK says of the lanes. *)
LaneTypes ==
    /\ stage \in [Processes -> Stage]
    /\ held \in [Processes -> Jobs \union {NoJob}]
    /\ verdict \in [Processes -> BOOLEAN]
    /\ \A p \in Processes : stage[p] # "idle" => held[p] \in Jobs

LEMMA GoIdleKeepsLaneTypes ==
  ASSUME LaneTypes, NEW p \in Processes, GoIdle(p)
  PROVE  LaneTypes'
  BY SMT DEF LaneTypes, GoIdle, Stage

LEMMA GotoKeepsLaneTypes ==
  ASSUME LaneTypes, NEW p \in Processes, NEW next \in Stage, stage[p] # "idle", Goto(p, next)
  PROVE  LaneTypes'
  BY SMT DEF LaneTypes, Goto, Stage

LEMMA ClearLeaseType ==
  ASSUME TypeOK, NEW j \in Jobs, ClearLease(j)
  PROVE  /\ leaseOwner' \in [Jobs -> WorkerIds \union {NoOwner}]
         /\ leaseExpired' \in [Jobs -> BOOLEAN]
<1>1. leaseOwner' \in [Jobs -> WorkerIds \union {NoOwner}]
  BY SMT DEF ClearLease, TypeOK
<1>2. leaseExpired' \in [Jobs -> BOOLEAN]
  BY SMT DEF ClearLease, TypeOK
<1> QED
  BY <1>1, <1>2

(* Every step keeps the rows, the lanes and the set of routed jobs well    *)
(* typed.                                                                  *)
LEMMA OutboxTypeStep == TypeOK /\ [Next]_vars => TypeOK'
<1> SUFFICES ASSUME TypeOK, [Next]_vars PROVE TypeOK'
  OBVIOUS
<1>0. LaneTypes
  BY DEF TypeOK, LaneTypes
<1>1. ASSUME NEW p \in Processes, NEW j \in Jobs, LeaseNext(p, j) PROVE TypeOK'
  BY <1>1, SMT DEF LeaseNext, Leasable, TypeOK, Stage, JobStatus
<1>2. ASSUME NEW p \in Processes, Materialize(p) PROVE TypeOK'
  <2>1. held[p] \in Jobs /\ stage[p] # "idle"
    BY <1>2, SMT DEF Materialize, TypeOK
  <2>2. Goto(p, "complete") \/ Goto(p, "fail")
    BY <1>2, Zenon DEF Materialize
  <2>3. LaneTypes'
    BY <1>0, <2>1, <2>2, GotoKeepsLaneTypes DEF Stage
  <2>4. routed' \in SUBSET Jobs
    BY <1>2, <2>1, SMT DEF Materialize, TypeOK
  <2>5. UNCHANGED rowVars
    BY <1>2 DEF Materialize
  <2> QED
    BY <2>3, <2>4, <2>5, Zenon DEF TypeOK, LaneTypes, rowVars
<1>3. ASSUME NEW p \in Processes, Complete(p) PROVE TypeOK'
  <2>1. held[p] \in Jobs /\ stage[p] # "idle"
    BY <1>3, SMT DEF Complete, TypeOK
  <2>2. Goto(p, "fail") \/ GoIdle(p)
    BY <1>3, Zenon DEF Complete
  <2>3. LaneTypes'
    BY <1>0, <2>1, <2>2, GotoKeepsLaneTypes, GoIdleKeepsLaneTypes DEF Stage
  <2>4. status' \in [Jobs -> JobStatus]
    BY <1>3, <2>1, SMT DEF Complete, TypeOK, JobStatus
  <2>5. /\ leaseOwner' \in [Jobs -> WorkerIds \union {NoOwner}]
        /\ leaseExpired' \in [Jobs -> BOOLEAN]
    <3>1. CASE ClearLease(held[p])
      BY <3>1, <2>1, ClearLeaseType
    <3>2. CASE UNCHANGED <<leaseOwner, leaseExpired>>
      BY <3>2 DEF TypeOK
    <3> QED
      BY <1>3, <3>1, <3>2, Zenon DEF Complete
  <2>6. UNCHANGED <<attempts, available, routed>>
    BY <1>3, Zenon DEF Complete
  <2> QED
    BY <2>3, <2>4, <2>5, <2>6, Zenon DEF TypeOK, LaneTypes
<1>4. ASSUME NEW p \in Processes, FailRead(p) PROVE TypeOK'
  <2>1. held[p] \in Jobs /\ UNCHANGED <<rowVars, routed>>
    BY <1>4, SMT DEF FailRead, TypeOK
  <2>2. LaneTypes'
    <3>1. CASE Owned(p, held[p])
      <4>1. verdict' = [verdict EXCEPT ![p] = attempts[held[p]] >= MaxAttempts]
        BY <1>4, <3>1, Zenon DEF FailRead
      <4>2. verdict' \in [Processes -> BOOLEAN]
        BY <4>1, <1>0, SMT DEF LaneTypes
      <4>3. stage' = [stage EXCEPT ![p] = "failWrite"] /\ held' = held
        BY <1>4, <3>1, Zenon DEF FailRead
      <4> QED
        BY <1>0, <2>1, <4>2, <4>3, SMT DEF LaneTypes, Stage
    <3>2. CASE ~Owned(p, held[p])
      BY <1>0, <1>4, <3>2, GoIdleKeepsLaneTypes DEF FailRead
    <3> QED
      BY <3>1, <3>2
  <2> QED
    BY <2>1, <2>2, Zenon DEF TypeOK, LaneTypes, rowVars
<1>5. ASSUME NEW p \in Processes, FailWrite(p) PROVE TypeOK'
  <2>1. held[p] \in Jobs /\ GoIdle(p) /\ UNCHANGED <<attempts, routed>>
    BY <1>5, SMT DEF FailWrite, TypeOK
  <2>2. LaneTypes'
    BY <1>0, <2>1, GoIdleKeepsLaneTypes
  <2>3. CASE Owned(p, held[p])
    <3>1. status' \in [Jobs -> JobStatus]
      BY <1>5, <2>1, <2>3, SMT DEF FailWrite, TypeOK, JobStatus
    <3>2. available' \in [Jobs -> BOOLEAN]
      BY <1>5, <2>1, <2>3, SMT DEF FailWrite, TypeOK
    <3>3. ClearLease(held[p])
      BY <1>5, <2>3, Zenon DEF FailWrite
    <3>4. leaseOwner' \in [Jobs -> WorkerIds \union {NoOwner}]
             /\ leaseExpired' \in [Jobs -> BOOLEAN]
      BY <3>3, <2>1, ClearLeaseType
    <3> QED
      BY <2>1, <2>2, <3>1, <3>2, <3>4, Zenon DEF TypeOK, LaneTypes
  <2>4. CASE ~Owned(p, held[p])
    <3>1. UNCHANGED <<status, available, leaseOwner, leaseExpired>>
      BY <1>5, <2>4, Zenon DEF FailWrite
    <3> QED
      BY <2>1, <2>2, <3>1, Zenon DEF TypeOK, LaneTypes
  <2> QED
    BY <2>3, <2>4
<1>6. ASSUME NEW p \in Processes, Crash(p) PROVE TypeOK'
  <2>1. LaneTypes' /\ UNCHANGED <<rowVars, routed>>
    BY <1>0, <1>6, GoIdleKeepsLaneTypes DEF Crash
  <2> QED
    BY <2>1, Zenon DEF TypeOK, LaneTypes, rowVars
<1>7. ASSUME NEW j \in Jobs, Time(j) PROVE TypeOK'
  <2>1. CASE LeaseExpires(j)
    BY <2>1, SMT DEF LeaseExpires, TypeOK, laneVars
  <2>2. CASE BackoffElapses(j)
    BY <2>2, SMT DEF BackoffElapses, TypeOK, laneVars
  <2> QED
    BY <1>7, <2>1, <2>2 DEF Time
<1>8. CASE UNCHANGED vars
  BY <1>8, SMT DEF vars, rowVars, laneVars, TypeOK
<1> QED
  BY <1>1, <1>2, <1>3, <1>4, <1>5, <1>6, <1>7, <1>8 DEF Next, Work

(* Every reachable state is well typed: attempts never pass max_attempts,  *)
(* and a process that is inside its lane holds a job.                      *)
THEOREM OutboxTypeCorrect == Spec => []TypeOK
<1>1. Init => TypeOK
  BY SMT DEF Init, TypeOK, Stage, JobStatus
<1> QED
  BY <1>1, OutboxTypeStep, PTL DEF Spec

-----------------------------------------------------------------------------
(* Completed jobs were routed.                                             *)

(* A process about to call complete() has materialized the event of the    *)
(* job it holds.                                                           *)
CompleteKnowsRouted == \A p \in Processes : stage[p] = "complete" => held[p] \in routed

RoutedInv == TypeOK /\ CompletedWasRouted /\ CompleteKnowsRouted

LEMMA RoutedStep == RoutedInv /\ [Next]_vars => RoutedInv'
<1> SUFFICES ASSUME RoutedInv, [Next]_vars PROVE RoutedInv'
  OBVIOUS
<1>0. TypeOK'
  BY OutboxTypeStep DEF RoutedInv
<1> SUFFICES CompletedWasRouted' /\ CompleteKnowsRouted'
  BY <1>0 DEF RoutedInv
<1> USE DEF RoutedInv
<1>1. ASSUME NEW p \in Processes, NEW j \in Jobs, LeaseNext(p, j)
      PROVE  CompletedWasRouted' /\ CompleteKnowsRouted'
  BY <1>1, SMT DEF LeaseNext, TypeOK, CompletedWasRouted, CompleteKnowsRouted
<1>2. ASSUME NEW p \in Processes, Materialize(p)
      PROVE  CompletedWasRouted' /\ CompleteKnowsRouted'
  <2>1. routed \subseteq routed' /\ UNCHANGED status
    BY <1>2, SMT DEF Materialize, rowVars
  <2>2. CASE Goto(p, "complete") /\ routed' = routed \union {held[p]}
    BY <2>1, <2>2, SMT DEF Goto, TypeOK, CompletedWasRouted, CompleteKnowsRouted
  <2>3. CASE Goto(p, "fail")
    BY <2>1, <2>3, SMT DEF Goto, TypeOK, CompletedWasRouted, CompleteKnowsRouted
  <2> QED
    BY <1>2, <2>2, <2>3, Zenon DEF Materialize
<1>3. ASSUME NEW p \in Processes, Complete(p)
      PROVE  CompletedWasRouted' /\ CompleteKnowsRouted'
  <2>1. held[p] \in routed /\ UNCHANGED routed
    BY <1>3, SMT DEF Complete, CompleteKnowsRouted
  <2>2. CompletedWasRouted'
    <3>1. CASE status' = [status EXCEPT ![held[p]] = "completed"]
      BY <2>1, <3>1, SMT DEF TypeOK, CompletedWasRouted
    <3>2. CASE UNCHANGED status
      BY <2>1, <3>2, SMT DEF CompletedWasRouted
    <3> QED
      BY <1>3, <3>1, <3>2, Zenon DEF Complete
  <2>3. CompleteKnowsRouted'
    <3>1. Goto(p, "fail") \/ GoIdle(p)
      BY <1>3, Zenon DEF Complete
    <3> QED
      BY <2>1, <3>1, SMT DEF Goto, GoIdle, TypeOK, CompleteKnowsRouted
  <2> QED
    BY <2>2, <2>3
<1>4. ASSUME NEW p \in Processes, FailRead(p)
      PROVE  CompletedWasRouted' /\ CompleteKnowsRouted'
  <2>1. UNCHANGED <<status, routed>>
    BY <1>4, Zenon DEF FailRead, rowVars
  <2>2. \A q \in Processes : stage'[q] = "complete" => stage[q] = "complete" /\ held'[q] = held[q]
    <3>1. CASE Owned(p, held[p])
      BY <1>4, <3>1, SMT DEF FailRead, TypeOK
    <3>2. CASE ~Owned(p, held[p])
      BY <1>4, <3>2, SMT DEF FailRead, GoIdle, TypeOK
    <3> QED
      BY <3>1, <3>2
  <2> QED
    BY <2>1, <2>2, Zenon DEF CompletedWasRouted, CompleteKnowsRouted
<1>5. ASSUME NEW p \in Processes, FailWrite(p)
      PROVE  CompletedWasRouted' /\ CompleteKnowsRouted'
  <2>1. GoIdle(p) /\ UNCHANGED routed /\ held[p] \in Jobs
    BY <1>5, SMT DEF FailWrite, TypeOK
  <2>2. \A j \in Jobs : status'[j] = "completed" => status[j] = "completed"
    BY <1>5, <2>1, SMT DEF FailWrite, TypeOK
  <2> QED
    BY <2>1, <2>2, SMT DEF GoIdle, TypeOK, CompletedWasRouted, CompleteKnowsRouted
<1>6. ASSUME NEW p \in Processes, Crash(p)
      PROVE  CompletedWasRouted' /\ CompleteKnowsRouted'
  BY <1>6, SMT DEF Crash, GoIdle, rowVars, TypeOK, CompletedWasRouted, CompleteKnowsRouted
<1>7. ASSUME NEW j \in Jobs, Time(j)
      PROVE  CompletedWasRouted' /\ CompleteKnowsRouted'
  BY <1>7, SMT DEF Time, LeaseExpires, BackoffElapses, laneVars,
                   CompletedWasRouted, CompleteKnowsRouted
<1>8. CASE UNCHANGED vars
  BY <1>8, SMT DEF vars, rowVars, laneVars, CompletedWasRouted, CompleteKnowsRouted
<1> QED
  BY <1>1, <1>2, <1>3, <1>4, <1>5, <1>6, <1>7, <1>8 DEF Next, Work

(* No job is marked completed before its event was materialized for the    *)
(* subscribers, whatever ids the workers run under and whenever they die.  *)
THEOREM OutboxCompletedWasRouted == Spec => []CompletedWasRouted
<1>1. Init => RoutedInv
  BY SMT DEF Init, RoutedInv, TypeOK, Stage, JobStatus, CompletedWasRouted, CompleteKnowsRouted
<1>2. RoutedInv => CompletedWasRouted
  BY DEF RoutedInv
<1> QED
  BY <1>1, <1>2, RoutedStep, PTL DEF Spec

-----------------------------------------------------------------------------
(* The retry budget.                                                       *)

(* The verdict a process read in fail() still describes the row for as     *)
(* long as the process owns it: a new lease, which spends an attempt,      *)
(* writes another owner.  That needs distinct worker ids.                  *)
VerdictCurrent ==
    \A p \in Processes :
        stage[p] = "failWrite" /\ Owned(p, held[p])
            => (verdict[p] <=> attempts[held[p]] >= MaxAttempts)

BudgetInv == TypeOK /\ RetryBudgetRespected /\ VerdictCurrent

(* Steps that spend no attempt and give no row a new owner keep the        *)
(* verdicts current when they start no fail() of their own.                *)
LEMMA VerdictStaysCurrent ==
  ASSUME TypeOK, TypeOK', VerdictCurrent, UNCHANGED attempts,
         \A j \in Jobs : status'[j] = "leased" =>
             status[j] = "leased" /\ leaseOwner'[j] = leaseOwner[j],
         \A q \in Processes : stage'[q] = "failWrite" =>
             /\ stage[q] = "failWrite" /\ held'[q] = held[q]
             /\ verdict'[q] = verdict[q]
  PROVE  VerdictCurrent'
<1> SUFFICES ASSUME NEW q \in Processes, stage'[q] = "failWrite", Owned(q, held[q])'
             PROVE  verdict'[q] <=> attempts'[held'[q]] >= MaxAttempts
  BY DEF VerdictCurrent
<1>1. held[q] \in Jobs /\ held'[q] = held[q] /\ stage[q] = "failWrite"
  BY SMT DEF TypeOK
<1>2. Owned(q, held[q])
  BY <1>1, SMT DEF Owned
<1>3. verdict[q] <=> attempts[held[q]] >= MaxAttempts
  BY <1>1, <1>2 DEF VerdictCurrent
<1> QED
  BY <1>1, <1>3

(* Leaving the lane starts no fail(). *)
LEMMA GoIdleStartsNoFail ==
  ASSUME TypeOK, NEW p \in Processes, GoIdle(p),
         NEW q \in Processes, stage'[q] = "failWrite"
  PROVE  stage[q] = "failWrite" /\ held'[q] = held[q] /\ verdict'[q] = verdict[q]
<1>1. q # p
  BY SMT DEF GoIdle, TypeOK
<1>2. stage[q] = "failWrite" /\ held'[q] = held[q]
  BY <1>1, SMT DEF GoIdle, TypeOK
<1>3. verdict' = [verdict EXCEPT ![p] = FALSE] /\ verdict \in [Processes -> BOOLEAN]
  BY DEF GoIdle, TypeOK
<1>4. verdict'[q] = verdict[q]
  BY <1>1, <1>3, Zenon
<1> QED
  BY <1>2, <1>4

LEMMA BudgetStep == DistinctWorkerIds /\ BudgetInv /\ [Next]_vars => BudgetInv'
<1> SUFFICES ASSUME DistinctWorkerIds, BudgetInv, [Next]_vars PROVE BudgetInv'
  OBVIOUS
<1>0. TypeOK /\ TypeOK' /\ RetryBudgetRespected /\ VerdictCurrent
  BY OutboxTypeStep DEF BudgetInv
<1> SUFFICES RetryBudgetRespected' /\ VerdictCurrent'
  BY <1>0 DEF BudgetInv
<1>1. ASSUME NEW p \in Processes, NEW j \in Jobs, LeaseNext(p, j)
      PROVE  RetryBudgetRespected' /\ VerdictCurrent'
  <2>1. RetryBudgetRespected'
    BY <1>0, <1>1, SMT DEF LeaseNext, TypeOK, RetryBudgetRespected
  <2>2. ASSUME NEW q \in Processes, stage'[q] = "failWrite", Owned(q, held[q])'
        PROVE  verdict'[q] <=> attempts'[held'[q]] >= MaxAttempts
    <3>1. q # p /\ stage[q] = "failWrite" /\ held'[q] = held[q] /\ verdict'[q] = verdict[q]
      BY <1>0, <1>1, <2>2, SMT DEF LeaseNext, TypeOK
    <3>2. held[q] # j
      BY <1>0, <1>1, <2>2, <3>1, SMT DEF LeaseNext, TypeOK, Owned, DistinctWorkerIds
    <3>3. Owned(q, held[q]) /\ attempts'[held[q]] = attempts[held[q]]
      BY <1>0, <1>1, <2>2, <3>1, <3>2, SMT DEF LeaseNext, TypeOK, Owned
    <3> QED
      BY <1>0, <3>1, <3>3 DEF VerdictCurrent
  <2> QED
    BY <2>1, <2>2 DEF VerdictCurrent
<1>2. ASSUME NEW p \in Processes, Materialize(p)
      PROVE  RetryBudgetRespected' /\ VerdictCurrent'
  <2>1. UNCHANGED <<status, attempts, leaseOwner>>
    BY <1>2, Zenon DEF Materialize, rowVars
  <2>2. Goto(p, "complete") \/ Goto(p, "fail")
    BY <1>2, Zenon DEF Materialize
  <2>3. \A q \in Processes : stage'[q] = "failWrite" =>
           stage[q] = "failWrite" /\ held'[q] = held[q] /\ verdict'[q] = verdict[q]
    BY <1>0, <2>2, SMT DEF Goto, TypeOK
  <2> QED
    BY <1>0, <2>1, <2>3, VerdictStaysCurrent DEF RetryBudgetRespected
<1>3. ASSUME NEW p \in Processes, Complete(p)
      PROVE  RetryBudgetRespected' /\ VerdictCurrent'
  <2>1. held[p] \in Jobs /\ UNCHANGED attempts
    BY <1>0, <1>3, SMT DEF Complete, TypeOK
  <2>2. Goto(p, "fail") \/ GoIdle(p)
    BY <1>3, Zenon DEF Complete
  <2>3. \A q \in Processes : stage'[q] = "failWrite" =>
           stage[q] = "failWrite" /\ held'[q] = held[q] /\ verdict'[q] = verdict[q]
    BY <1>0, <2>2, SMT DEF Goto, GoIdle, TypeOK
  <2>4. CASE status' = [status EXCEPT ![held[p]] = "completed"] /\ ClearLease(held[p])
    <3>1. \A j \in Jobs : status'[j] = "leased" =>
             status[j] = "leased" /\ leaseOwner'[j] = leaseOwner[j]
      BY <1>0, <2>1, <2>4, SMT DEF ClearLease, TypeOK
    <3>2. RetryBudgetRespected'
      BY <1>0, <2>1, <2>4, SMT DEF TypeOK, RetryBudgetRespected
    <3> QED
      BY <1>0, <2>1, <2>3, <3>1, <3>2, VerdictStaysCurrent
  <2>5. CASE UNCHANGED <<status, leaseOwner>>
    BY <1>0, <2>1, <2>3, <2>5, VerdictStaysCurrent DEF RetryBudgetRespected
  <2> QED
    BY <1>3, <2>4, <2>5, Zenon DEF Complete
<1>4. ASSUME NEW p \in Processes, FailRead(p)
      PROVE  RetryBudgetRespected' /\ VerdictCurrent'
  <2>1. held[p] \in Jobs /\ UNCHANGED <<status, attempts, leaseOwner>>
    BY <1>0, <1>4, SMT DEF FailRead, TypeOK, rowVars
  <2>2. RetryBudgetRespected'
    BY <1>0, <2>1 DEF RetryBudgetRespected
  <2>3. CASE Owned(p, held[p])
    <3>1. verdict' = [verdict EXCEPT ![p] = attempts[held[p]] >= MaxAttempts]
      BY <1>4, <2>3, Zenon DEF FailRead
    <3>2. stage' = [stage EXCEPT ![p] = "failWrite"] /\ held' = held
      BY <1>4, <2>3, Zenon DEF FailRead
    <3>3. ASSUME NEW q \in Processes, stage'[q] = "failWrite", Owned(q, held[q])'
          PROVE  verdict'[q] <=> attempts'[held'[q]] >= MaxAttempts
      <4>1. CASE q = p
        <5>1. verdict'[p] <=> attempts[held[p]] >= MaxAttempts
          <6> DEFINE b == attempts[held[p]] >= MaxAttempts
          <6>1. verdict' = [verdict EXCEPT ![p] = b] /\ verdict \in [Processes -> BOOLEAN]
            BY <1>0, <3>1 DEF TypeOK
          <6> HIDE DEF b
          <6>2. verdict'[p] = b
            BY <6>1, Zenon
          <6> QED
            BY <6>2 DEF b
        <5> QED
          BY <2>1, <3>2, <4>1, <5>1
      <4>2. CASE q # p
        <5>1. stage[q] = "failWrite" /\ Owned(q, held[q]) /\ verdict'[q] = verdict[q]
          BY <1>0, <2>1, <3>1, <3>2, <3>3, <4>2, SMT DEF Owned, TypeOK
        <5> QED
          BY <1>0, <2>1, <3>2, <5>1 DEF VerdictCurrent
      <4> QED
        BY <4>1, <4>2
    <3> QED
      BY <2>2, <3>3 DEF VerdictCurrent
  <2>4. CASE ~Owned(p, held[p])
    <3>1. GoIdle(p)
      BY <1>4, <2>4, Zenon DEF FailRead
    <3>2. \A q \in Processes : stage'[q] = "failWrite" =>
             stage[q] = "failWrite" /\ held'[q] = held[q] /\ verdict'[q] = verdict[q]
      BY <1>0, <3>1, GoIdleStartsNoFail
    <3> QED
      BY <1>0, <2>1, <2>2, <3>2, VerdictStaysCurrent
  <2> QED
    BY <2>3, <2>4
<1>5. ASSUME NEW p \in Processes, FailWrite(p)
      PROVE  RetryBudgetRespected' /\ VerdictCurrent'
  <2>1. held[p] \in Jobs /\ GoIdle(p) /\ UNCHANGED attempts /\ stage[p] = "failWrite"
    BY <1>0, <1>5, SMT DEF FailWrite, TypeOK
  <2>2. \A q \in Processes : stage'[q] = "failWrite" =>
           stage[q] = "failWrite" /\ held'[q] = held[q] /\ verdict'[q] = verdict[q]
    BY <1>0, <2>1, GoIdleStartsNoFail
  <2>3. CASE Owned(p, held[p])
    <3>1. /\ status' = [status EXCEPT ![held[p]] = IF verdict[p] THEN "dead" ELSE "pending"]
          /\ ClearLease(held[p])
      BY <1>5, <2>3, Zenon DEF FailWrite
    <3>2. verdict[p] <=> attempts[held[p]] >= MaxAttempts
      BY <1>0, <2>1, <2>3 DEF VerdictCurrent
    <3>3. RetryBudgetRespected'
      <4>1. CASE verdict[p]
        BY <1>0, <2>1, <3>1, <3>2, <4>1, SMT DEF TypeOK, RetryBudgetRespected
      <4>2. CASE ~verdict[p]
        BY <1>0, <2>1, <3>1, <3>2, <4>2, SMT DEF TypeOK, RetryBudgetRespected
      <4> QED
        BY <4>1, <4>2
    <3>4. \A j \in Jobs : status'[j] = "leased" =>
             status[j] = "leased" /\ leaseOwner'[j] = leaseOwner[j]
      BY <1>0, <2>1, <3>1, SMT DEF ClearLease, TypeOK
    <3> QED
      BY <1>0, <2>1, <2>2, <3>3, <3>4, VerdictStaysCurrent
  <2>4. CASE ~Owned(p, held[p])
    <3>1. UNCHANGED <<status, leaseOwner>>
      BY <1>5, <2>4, Zenon DEF FailWrite
    <3> QED
      BY <1>0, <2>1, <2>2, <3>1, VerdictStaysCurrent DEF RetryBudgetRespected
  <2> QED
    BY <2>3, <2>4
<1>6. ASSUME NEW p \in Processes, Crash(p)
      PROVE  RetryBudgetRespected' /\ VerdictCurrent'
  <2>1. GoIdle(p) /\ UNCHANGED <<status, attempts, leaseOwner>>
    BY <1>6 DEF Crash, rowVars
  <2>2. \A q \in Processes : stage'[q] = "failWrite" =>
           stage[q] = "failWrite" /\ held'[q] = held[q] /\ verdict'[q] = verdict[q]
    BY <1>0, <2>1, GoIdleStartsNoFail
  <2> QED
    BY <1>0, <2>1, <2>2, VerdictStaysCurrent DEF RetryBudgetRespected
<1>7. ASSUME NEW j \in Jobs, Time(j)
      PROVE  RetryBudgetRespected' /\ VerdictCurrent'
  <2>1. UNCHANGED <<status, attempts, leaseOwner, laneVars>>
    BY <1>7, Zenon DEF Time, LeaseExpires, BackoffElapses
  <2> QED
    BY <1>0, <2>1, VerdictStaysCurrent DEF RetryBudgetRespected, laneVars
<1>8. CASE UNCHANGED vars
  BY <1>0, <1>8, VerdictStaysCurrent DEF vars, rowVars, laneVars, RetryBudgetRespected
<1> QED
  BY <1>1, <1>2, <1>3, <1>4, <1>5, <1>6, <1>7, <1>8 DEF Next, Work

(* With distinct worker ids the two unguarded statements of fail() decide  *)
(* correctly: a pending job has attempts left, a dead one has none.        *)
THEOREM OutboxRetryBudget ==
  ASSUME DistinctWorkerIds PROVE Spec => []RetryBudgetRespected
<1>1. Init => BudgetInv
  BY SMT DEF Init, BudgetInv, TypeOK, Stage, JobStatus, RetryBudgetRespected, VerdictCurrent
<1>2. BudgetInv /\ [Next]_vars => BudgetInv'
  BY BudgetStep
<1>3. BudgetInv => RetryBudgetRespected
  BY DEF BudgetInv
<1> QED
  BY <1>1, <1>2, <1>3, PTL DEF Spec

-----------------------------------------------------------------------------
(* Settled jobs stay settled.                                              *)

LEMMA SettledStep ==
  ASSUME TypeOK, [Next]_vars, NEW j \in Jobs, status[j] \in {"completed", "dead"}
  PROVE  status'[j] = status[j]
<1>1. ASSUME NEW p \in Processes, NEW i \in Jobs, LeaseNext(p, i) PROVE status'[j] = status[j]
  BY <1>1, SMT DEF LeaseNext, Leasable, TypeOK
<1>2. ASSUME NEW p \in Processes, Complete(p) PROVE status'[j] = status[j]
  BY <1>2, SMT DEF Complete, Owned, TypeOK
<1>3. ASSUME NEW p \in Processes, FailWrite(p) PROVE status'[j] = status[j]
  BY <1>3, SMT DEF FailWrite, Owned, TypeOK
<1>4. ASSUME NEW p \in Processes, Materialize(p) \/ FailRead(p) \/ Crash(p)
      PROVE  status'[j] = status[j]
  BY <1>4, Zenon DEF Materialize, FailRead, Crash, rowVars
<1>5. ASSUME NEW i \in Jobs, Time(i) PROVE status'[j] = status[j]
  BY <1>5, Zenon DEF Time, LeaseExpires, BackoffElapses
<1>6. CASE UNCHANGED vars
  BY <1>6 DEF vars, rowVars
<1> QED
  BY <1>1, <1>2, <1>3, <1>4, <1>5, <1>6 DEF Next, Work

(* No late statement of any process reopens a completed or dead job.       *)
THEOREM OutboxSettledIsFinal == Spec => SettledIsFinal
<1>1. TypeOK /\ [Next]_vars
        => [\A j \in Jobs : status[j] \in {"completed", "dead"} => status'[j] = status[j]]_vars
  BY SettledStep
<1> QED
  BY <1>1, OutboxTypeCorrect, PTL DEF Spec, SettledIsFinal

-----------------------------------------------------------------------------
(* Nobody but its holder moves a row whose lease is live.                  *)

(* What a step may do to a row.                                            *)
KeptOrMovedByHolder(j) ==
    \/ status'[j] = "leased" /\ attempts'[j] = attempts[j]
    \/ \E p \in Processes :
          held[p] = j /\ stage'[p] # stage[p] /\ WorkerId[p] = leaseOwner[j]

(* The two statements that end a lease compare its owner, and the process  *)
(* that sends one leaves its stage in the same step.                       *)
LEMMA LiveLeaseStep ==
  ASSUME TypeOK, [Next]_vars, NEW j \in Jobs, status[j] = "leased", ~leaseExpired[j]
  PROVE  KeptOrMovedByHolder(j)
<1>1. ASSUME UNCHANGED <<status, attempts>> PROVE KeptOrMovedByHolder(j)
  BY <1>1, Zenon DEF KeptOrMovedByHolder
<1>2. ASSUME NEW p \in Processes, NEW i \in Jobs, LeaseNext(p, i) PROVE KeptOrMovedByHolder(j)
  <2>1. i # j
    BY <1>2, Zenon DEF LeaseNext, Leasable
  <2>2. status'[j] = status[j] /\ attempts'[j] = attempts[j]
    BY <1>2, <2>1, SMT DEF LeaseNext, TypeOK
  <2> QED
    BY <2>2 DEF KeptOrMovedByHolder
<1>3. ASSUME NEW p \in Processes, stage[p] # "idle", Owned(p, held[p]), stage'[p] # stage[p],
             NEW s, status' = [status EXCEPT ![held[p]] = s], UNCHANGED attempts
      PROVE  KeptOrMovedByHolder(j)
  <2>1. CASE held[p] = j
    BY <1>3, <2>1, Zenon DEF Owned, KeptOrMovedByHolder
  <2>2. CASE held[p] # j
    <3>1. status'[j] = status[j] /\ attempts'[j] = attempts[j]
      BY <1>3, <2>2, SMT DEF TypeOK
    <3> QED
      BY <3>1 DEF KeptOrMovedByHolder
  <2> QED
    BY <2>1, <2>2
<1>4. ASSUME NEW p \in Processes, Complete(p) PROVE KeptOrMovedByHolder(j)
  <2>1. stage[p] = "complete" /\ (stage'[p] = "idle" \/ stage'[p] = "fail") /\ UNCHANGED attempts
    BY <1>4, SMT DEF Complete, GoIdle, Goto, TypeOK
  <2>2. \/ Owned(p, held[p]) /\ status' = [status EXCEPT ![held[p]] = "completed"]
        \/ UNCHANGED status
    BY <1>4, Zenon DEF Complete
  <2> QED
    BY <1>1, <1>3, <2>1, <2>2
<1>5. ASSUME NEW p \in Processes, FailWrite(p) PROVE KeptOrMovedByHolder(j)
  <2>1. stage[p] = "failWrite" /\ stage'[p] = "idle" /\ UNCHANGED attempts
    BY <1>5, SMT DEF FailWrite, GoIdle, TypeOK
  <2>2. \/ /\ Owned(p, held[p])
           /\ status' = [status EXCEPT ![held[p]] = IF verdict[p] THEN "dead" ELSE "pending"]
        \/ UNCHANGED status
    BY <1>5, Zenon DEF FailWrite
  <2> QED
    BY <1>1, <1>3, <2>1, <2>2
<1>6. ASSUME NEW p \in Processes, Materialize(p) \/ FailRead(p) \/ Crash(p)
      PROVE  UNCHANGED <<status, attempts>>
  BY <1>6, Zenon DEF Materialize, FailRead, Crash, rowVars
<1>7. ASSUME NEW i \in Jobs, Time(i) PROVE UNCHANGED <<status, attempts>>
  BY <1>7, Zenon DEF Time, LeaseExpires, BackoffElapses
<1>8. CASE UNCHANGED vars
  BY <1>1, <1>8, Zenon DEF vars, rowVars
<1> QED
  BY <1>1, <1>2, <1>4, <1>5, <1>6, <1>7, <1>8 DEF Next, Work

(* Late reports and takeovers of other workers do not touch a job while    *)
(* its lease is live, for any assignment of worker ids: only a process     *)
(* that holds the job under the id of the lease moves it.                  *)
THEOREM OutboxLiveLeaseIsExclusive == Spec => LiveLeaseIsExclusive
<1>1. TypeOK /\ [Next]_vars
        => [\A j \in Jobs :
               status[j] = "leased" /\ ~leaseExpired[j]
                  => \/ status'[j] = "leased" /\ attempts'[j] = attempts[j]
                     \/ \E p \in Processes :
                           /\ held[p] = j /\ stage'[p] # stage[p]
                           /\ WorkerId[p] = leaseOwner[j]]_vars
  BY LiveLeaseStep, Zenon DEF KeptOrMovedByHolder
<1> QED
  BY <1>1, OutboxTypeCorrect, PTL DEF Spec, LiveLeaseIsExclusive

-----------------------------------------------------------------------------
(* The outbox is a queue of bounded retries.                               *)

LEMMA OneRowMoves ==
  ASSUME TypeOK, NEW j \in Jobs, NEW s, status' = [status EXCEPT ![j] = s]
  PROVE  /\ status'[j] = s
         /\ Queue!Move(j, Phase(s))
<1>1. \A i \in Jobs : status'[i] = IF i = j THEN s ELSE status[i]
  BY SMT DEF TypeOK
<1>2. \A i \in Jobs : Phase(status'[i]) = IF i = j THEN Phase(s) ELSE Phase(status[i])
  BY <1>1, SMT DEF Phase
<1> QED
  BY <1>1, <1>2, Zenon DEF Queue!Move

LEMMA OneAttemptLess ==
  ASSUME TypeOK, NEW j \in Jobs, attempts' = [attempts EXCEPT ![j] = @ + 1]
  PROVE  [i \in Jobs |-> MaxAttempts - attempts[i]]'
            = [[i \in Jobs |-> MaxAttempts - attempts[i]] EXCEPT ![j] = @ - 1]
<1>1. \A i \in Jobs : attempts'[i] = IF i = j THEN attempts[i] + 1 ELSE attempts[i]
  BY DEF TypeOK
<1>2. MaxAttempts - (attempts[j] + 1) = (MaxAttempts - attempts[j]) - 1
  BY SMT DEF TypeOK
<1>3. \A i \in Jobs : MaxAttempts - attempts'[i]
                        = IF i = j THEN (MaxAttempts - attempts[j]) - 1 ELSE MaxAttempts - attempts[i]
  BY <1>1, <1>2
<1> QED
  BY <1>3, Zenon

(* Whoever holds a job was given it by a lease that counted.               *)
HeldWasTried == \A p \in Processes : stage[p] # "idle" => attempts[held[p]] > 0

QueueInv == RoutedInv /\ BudgetInv /\ HeldWasTried

LEMMA HeldStep == TypeOK /\ HeldWasTried /\ [Next]_vars => HeldWasTried'
<1> SUFFICES ASSUME TypeOK, HeldWasTried, [Next]_vars PROVE HeldWasTried'
  OBVIOUS
<1>1. ASSUME NEW p \in Processes, NEW j \in Jobs, LeaseNext(p, j) PROVE HeldWasTried'
  BY <1>1, SMT DEF LeaseNext, TypeOK, HeldWasTried
<1>2. ASSUME UNCHANGED attempts,
             \A q \in Processes : stage'[q] # "idle" => stage[q] # "idle" /\ held'[q] = held[q]
      PROVE  HeldWasTried'
  BY <1>2, Zenon DEF HeldWasTried
<1>3. ASSUME NEW p \in Processes, GoIdle(p), UNCHANGED attempts PROVE HeldWasTried'
  <2>1. \A q \in Processes : stage'[q] # "idle" => stage[q] # "idle" /\ held'[q] = held[q]
    BY <1>3, SMT DEF GoIdle, TypeOK
  <2> QED
    BY <1>2, <1>3, <2>1
<1>4. ASSUME NEW p \in Processes, stage[p] # "idle", NEW next,
             stage' = [stage EXCEPT ![p] = next], UNCHANGED <<held, attempts>>
      PROVE  HeldWasTried'
  <2>1. \A q \in Processes : stage'[q] # "idle" => stage[q] # "idle" /\ held'[q] = held[q]
    BY <1>4, SMT DEF TypeOK
  <2> QED
    BY <1>2, <1>4, <2>1
<1>5. ASSUME NEW p \in Processes, Materialize(p) PROVE HeldWasTried'
  <2>1. stage[p] # "idle" /\ UNCHANGED attempts /\ (Goto(p, "complete") \/ Goto(p, "fail"))
    BY <1>5, Zenon DEF Materialize, rowVars
  <2> QED
    BY <1>4, <2>1 DEF Goto
<1>6. ASSUME NEW p \in Processes, Complete(p) PROVE HeldWasTried'
  <2>1. stage[p] # "idle" /\ UNCHANGED attempts /\ (GoIdle(p) \/ Goto(p, "fail"))
    BY <1>6, Zenon DEF Complete
  <2> QED
    BY <1>3, <1>4, <2>1 DEF Goto
<1>7. ASSUME NEW p \in Processes, FailRead(p) PROVE HeldWasTried'
  <2>1. /\ stage[p] # "idle" /\ UNCHANGED attempts
        /\ \/ stage' = [stage EXCEPT ![p] = "failWrite"] /\ UNCHANGED held
           \/ GoIdle(p)
    BY <1>7, Zenon DEF FailRead, rowVars
  <2> QED
    BY <1>3, <1>4, <2>1
<1>8. ASSUME NEW p \in Processes, FailWrite(p) \/ Crash(p) PROVE HeldWasTried'
  <2>1. GoIdle(p) /\ UNCHANGED attempts
    BY <1>8, Zenon DEF FailWrite, Crash, rowVars
  <2> QED
    BY <1>3, <2>1
<1>9. CASE UNCHANGED vars \/ \E j \in Jobs : Time(j)
  <2>1. UNCHANGED <<attempts, stage, held>>
    BY <1>9, Zenon DEF vars, rowVars, laneVars, Time, LeaseExpires, BackoffElapses
  <2> QED
    BY <2>1 DEF HeldWasTried
<1> QED
  BY <1>1, <1>5, <1>6, <1>7, <1>8, <1>9 DEF Next, Work

LEMMA OutboxSimulationStep ==
  ASSUME QueueInv, [Next]_vars
  PROVE  [Queue!Next]_(Queue!vars)
<1>0. /\ TypeOK /\ CompletedWasRouted /\ CompleteKnowsRouted
      /\ RetryBudgetRespected /\ VerdictCurrent /\ HeldWasTried
  BY DEF QueueInv, RoutedInv, BudgetInv
<1>1. ASSUME NEW p \in Processes, NEW j \in Jobs, LeaseNext(p, j) PROVE Queue!Start(j)
  <2>1. /\ status[j] \in {"pending", "leased"}
        /\ status' = [status EXCEPT ![j] = "leased"]
        /\ attempts' = [attempts EXCEPT ![j] = @ + 1]
        /\ attempts[j] < MaxAttempts
        /\ routed' = routed
    BY <1>1 DEF LeaseNext, Leasable
  <2>2. Phase(status[j]) \in {"waiting", "working"} /\ Phase("leased") = "working"
    BY <2>1, SMT DEF Phase
  <2>3. Queue!Move(j, "working")
    BY <1>0, <2>1, <2>2, OneRowMoves
  <2>4. [i \in Jobs |-> MaxAttempts - attempts[i]]'
          = [[i \in Jobs |-> MaxAttempts - attempts[i]] EXCEPT ![j] = @ - 1]
    BY <1>0, <2>1, OneAttemptLess
  <2>5. {i \in Jobs : attempts[i] > 0}' = {i \in Jobs : attempts[i] > 0} \union {j}
    BY <1>0, <2>1, SMT DEF TypeOK
  <2>6. MaxAttempts - attempts[j] > 0
    BY <1>0, <2>1, SMT DEF TypeOK
  <2> QED
    BY <2>1, <2>2, <2>3, <2>4, <2>5, <2>6, Zenon DEF Queue!Start
<1>2. ASSUME UNCHANGED <<status, attempts, routed>> PROVE UNCHANGED Queue!vars
  BY <1>2, Zenon DEF Queue!vars, Phase
<1>3. ASSUME NEW p \in Processes, Materialize(p)
      PROVE  Queue!Perform(held[p]) \/ UNCHANGED Queue!vars
  <2>1. /\ held[p] \in Jobs /\ attempts[held[p]] > 0
        /\ routed' = routed \union {held[p]} \/ routed' = routed
        /\ UNCHANGED <<status, attempts>>
    BY <1>0, <1>3, SMT DEF Materialize, TypeOK, HeldWasTried, rowVars
  <2>2. CASE routed' = routed \union {held[p]}
    BY <2>1, <2>2, Zenon DEF Queue!Perform, Phase
  <2>3. CASE routed' = routed
    BY <1>2, <2>1, <2>3
  <2> QED
    BY <2>1, <2>2, <2>3
(* A row that leaves "leased" in a report of the process that owns it.     *)
<1>4. ASSUME NEW j \in Jobs, NEW s, status[j] = "leased",
             status' = [status EXCEPT ![j] = s], attempts' = attempts
      PROVE  /\ Phase(status[j]) = "working"
             /\ Queue!Move(j, Phase(s))
             /\ [i \in Jobs |-> MaxAttempts - attempts'[i]] = [i \in Jobs |-> MaxAttempts - attempts[i]]
             /\ {i \in Jobs : attempts'[i] > 0} = {i \in Jobs : attempts[i] > 0}
  <2>1. Phase(status[j]) = "working"
    BY <1>4 DEF Phase
  <2> QED
    BY <1>0, <1>4, <2>1, OneRowMoves
<1>5. ASSUME NEW p \in Processes, Complete(p)
      PROVE  Queue!Finish(held[p]) \/ UNCHANGED Queue!vars
  <2>1. held[p] \in Jobs /\ held[p] \in routed /\ UNCHANGED <<attempts, routed>>
    BY <1>0, <1>5, SMT DEF Complete, TypeOK, CompleteKnowsRouted
  <2>2. CASE status[held[p]] = "leased" /\ status' = [status EXCEPT ![held[p]] = "completed"]
    <3>1. Phase("completed") = "done"
      BY DEF Phase
    <3> QED
      BY <1>4, <2>1, <2>2, <3>1 DEF Queue!Finish
  <2>3. CASE UNCHANGED status
    BY <1>2, <2>1, <2>3
  <2> QED
    BY <1>5, <2>2, <2>3 DEF Complete, Owned
<1>6. ASSUME NEW p \in Processes, FailWrite(p)
      PROVE  Queue!Retry(held[p]) \/ Queue!GiveUp(held[p]) \/ UNCHANGED Queue!vars
  <2>1. held[p] \in Jobs /\ UNCHANGED <<attempts, routed>>
    BY <1>0, <1>6, SMT DEF FailWrite, TypeOK
  <2>2. CASE Owned(p, held[p])
    <3>1. status[held[p]] = "leased"
      BY <2>2 DEF Owned
    <3>2. verdict[p] <=> attempts[held[p]] >= MaxAttempts
      BY <1>0, <1>6, <2>2 DEF FailWrite, VerdictCurrent
    <3>3. Phase("dead") = "dead" /\ Phase("pending") = "waiting"
      BY DEF Phase
    <3>4. CASE verdict[p]
      <4>1. status' = [status EXCEPT ![held[p]] = "dead"]
        BY <1>6, <2>2, <3>4, Zenon DEF FailWrite
      <4>2. MaxAttempts - attempts[held[p]] = 0
        BY <1>0, <2>1, <3>2, <3>4, SMT DEF TypeOK
      <4> QED
        BY <1>4, <2>1, <3>1, <3>3, <4>1, <4>2 DEF Queue!GiveUp
    <3>5. CASE ~verdict[p]
      <4>1. status' = [status EXCEPT ![held[p]] = "pending"]
        BY <1>6, <2>2, <3>5, Zenon DEF FailWrite
      <4>2. MaxAttempts - attempts[held[p]] > 0
        BY <1>0, <2>1, <3>2, <3>5, SMT DEF TypeOK
      <4> QED
        BY <1>4, <2>1, <3>1, <3>3, <4>1, <4>2 DEF Queue!Retry
    <3> QED
      BY <3>4, <3>5
  <2>3. CASE ~Owned(p, held[p])
    BY <1>2, <1>6, <2>1, <2>3 DEF FailWrite
  <2> QED
    BY <2>2, <2>3
<1>7. ASSUME NEW p \in Processes, FailRead(p) \/ Crash(p) PROVE UNCHANGED Queue!vars
  BY <1>2, <1>7, Zenon DEF FailRead, Crash, rowVars
<1>8. ASSUME NEW j \in Jobs, Time(j) PROVE UNCHANGED Queue!vars
  BY <1>2, <1>8, Zenon DEF Time, LeaseExpires, BackoffElapses
<1>9. CASE UNCHANGED vars
  BY <1>2, <1>9, Zenon DEF vars, rowVars
<1>10. \A p \in Processes : stage[p] # "idle" => held[p] \in Jobs
  BY <1>0 DEF TypeOK
<1>11. ASSUME NEW p \in Processes, Work(p) PROVE [Queue!Next]_(Queue!vars)
  <2>1. ASSUME NEW j \in Jobs, LeaseNext(p, j) PROVE [Queue!Next]_(Queue!vars)
    BY <1>1, <2>1, Zenon DEF Queue!Next
  <2>2. ASSUME stage[p] # "idle", Materialize(p) \/ Complete(p) \/ FailRead(p) \/ FailWrite(p)
        PROVE  [Queue!Next]_(Queue!vars)
    BY <1>3, <1>5, <1>6, <1>7, <1>10, <2>2, Zenon DEF Queue!Next
  <2> QED
    BY <1>11, <2>1, <2>2 DEF Work, Materialize, Complete, FailRead, FailWrite
<1> QED
  BY <1>7, <1>8, <1>9, <1>11 DEF Next

(* With worker ids of their own, whatever leases, crashes, expiries and    *)
(* late reports do, the outbox behaves as a queue of bounded retries: a    *)
(* job is done only after its event was routed, waits only with attempts   *)
(* left and is dead only without.                                          *)
THEOREM OutboxImplementsBoundedRetry ==
  ASSUME DistinctWorkerIds PROVE Spec => ImplementsBoundedRetry
<1>1. Init => QueueInv
  BY SMT DEF Init, QueueInv, RoutedInv, BudgetInv, TypeOK, Stage, JobStatus, CompletedWasRouted,
             CompleteKnowsRouted, RetryBudgetRespected, VerdictCurrent, HeldWasTried
<1>2. QueueInv /\ [Next]_vars => QueueInv'
  BY RoutedStep, BudgetStep, HeldStep DEF QueueInv, RoutedInv
<1>3. Init => Queue!Init
  BY SMT DEF Init, Queue!Init, Phase
<1>4. QueueInv /\ [Next]_vars => [Queue!Next]_(Queue!vars)
  BY OutboxSimulationStep
<1> QED
  BY <1>1, <1>2, <1>3, <1>4, PTL DEF Spec, ImplementsBoundedRetry, Queue!Spec
=============================================================================
