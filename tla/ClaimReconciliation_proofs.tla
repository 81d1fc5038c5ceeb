---------------------- MODULE ClaimReconciliation_proofs ----------------------
(***************************************************************************)
(* Proofs about ClaimReconciliation for any plan, any number of processes  *)
(* and any assignment of worker ids.                                       *)
(***************************************************************************)
EXTENDS ClaimReconciliation, FiniteSetTheorems, TLAPS

USE ClaimAssumption

-----------------------------------------------------------------------------
(* Type correctness.                                                       *)

(* The stages of a worker that has been told a verdict, and those in which *)
(* its transaction is open.                                                *)
Settling == {"settle", "totals", "commit"}

Open == {"totals", "commit"}

RowTypes ==
    /\ status \in [Batches -> TransactionStatus]
    /\ leaseOwner \in [Batches -> WorkerIds \union {NoOwner}]
    /\ leaseExpired \in [Batches -> BOOLEAN]
    /\ due \in [Batches -> BOOLEAN]

LaneTypes ==
    /\ stage \in [Processes -> Stage]
    /\ held \in [Processes -> Batches \union {NoBatch}]
    /\ outcome \in [Processes -> {"pending"} \union Terminal]
    /\ aggregate \in [Processes -> ClaimStatus]
    /\ \A p \in Processes : stage[p] # "idle" => held[p] \in Batches
    /\ \A p \in Processes : stage[p] \in Settling => outcome[p] \in Terminal

EnvTypes ==
    /\ chain \in [Batches -> ChainState]
    /\ expired \in BOOLEAN /\ calm \in BOOLEAN
    /\ deployment \in Deployments

ClaimTyped ==
    /\ EnvTypes /\ RowTypes /\ LaneTypes
    /\ claim \in ClaimStatus
    /\ events \in SUBSET (Batches \X Terminal)

LEMMA GoIdleTypes ==
  ASSUME LaneTypes, NEW p \in Processes, GoIdle(p)
  PROVE  LaneTypes'
<1>1. /\ "idle" \in Stage /\ "idle" \notin Settling
      /\ "ready" \in ClaimStatus
  BY DEF Stage, Settling, ClaimStatus
<1> QED
  BY <1>1, SMT DEF LaneTypes, GoIdle

LEMMA GotoTypes ==
  ASSUME LaneTypes, NEW p \in Processes, NEW next \in Stage, stage[p] # "idle",
         next \in Settling => stage[p] \in Settling, Goto(p, next)
  PROVE  LaneTypes'
  BY SMT DEF LaneTypes, Goto

LEMMA SettleTypes ==
  ASSUME LaneTypes, NEW p \in Processes, stage[p] # "idle",
         NEW verdict \in Terminal, Settle(p, verdict)
  PROVE  LaneTypes'
<1>1. "settle" \in Stage
  BY DEF Stage
<1> QED
  BY <1>1, SMT DEF LaneTypes, Settle

LEMMA ClearLeaseTypes ==
  ASSUME RowTypes, NEW b \in Batches, ClearLease(b)
  PROVE  /\ leaseOwner' \in [Batches -> WorkerIds \union {NoOwner}]
         /\ leaseExpired' \in [Batches -> BOOLEAN]
<1>1. leaseOwner' \in [Batches -> WorkerIds \union {NoOwner}]
  BY SMT DEF ClearLease, RowTypes
<1>2. leaseExpired' \in [Batches -> BOOLEAN]
  BY SMT DEF ClearLease, RowTypes
<1> QED
  BY <1>1, <1>2

LEMMA AggregateType ==
  ASSUME NEW rows
  PROVE  AggregateOf(rows) \in ClaimStatus
  BY Zenon DEF AggregateOf, ClaimStatus, Terminal

LEMMA UnchangedTypes ==
  /\ EnvTypes /\ UNCHANGED envVars => EnvTypes'
  /\ RowTypes /\ UNCHANGED rowVars => RowTypes'
  /\ LaneTypes /\ UNCHANGED laneVars => LaneTypes'
  BY Zenon DEF EnvTypes, RowTypes, LaneTypes, envVars, rowVars, laneVars

(* Every step keeps the environment, the rows and the lanes well typed.    *)
LEMMA ClaimTypeStep == ClaimTyped /\ [Next]_vars => ClaimTyped'
<1> SUFFICES ASSUME ClaimTyped, [Next]_vars PROVE ClaimTyped'
  OBVIOUS
<1>0. /\ EnvTypes /\ RowTypes /\ LaneTypes
      /\ claim \in ClaimStatus /\ events \in SUBSET (Batches \X Terminal)
  BY DEF ClaimTyped
<1>1. ASSUME NEW p \in Processes, NEW b \in Batches, LeaseNext(p, b) PROVE ClaimTyped'
  <2>1. LaneTypes'
    BY <1>0, <1>1, SMT DEF LeaseNext, LaneTypes, Stage, Settling
  <2>2. leaseOwner' \in [Batches -> WorkerIds \union {NoOwner}]
    BY <1>0, <1>1, SMT DEF LeaseNext, RowTypes
  <2>3. leaseExpired' \in [Batches -> BOOLEAN]
    BY <1>0, <1>1, SMT DEF LeaseNext, RowTypes
  <2> QED
    BY <1>0, <1>1, <2>1, <2>2, <2>3, UnchangedTypes DEF LeaseNext, RowTypes, ClaimTyped
<1>2. ASSUME NEW p \in Processes, ReadReceipt(p) PROVE ClaimTyped'
  <2>1. /\ stage[p] = "receipt" /\ UNCHANGED <<envVars, rowVars, claim, events>>
        /\ \/ Settle(p, "confirmed") \/ Settle(p, "failed")
           \/ Goto(p, "defer") \/ Goto(p, "lookup")
    BY <1>2, Zenon DEF ReadReceipt
  <2>2. LaneTypes'
    BY <1>0, <2>1, GotoTypes, SettleTypes, Zenon DEF Stage, Terminal, Settling
  <2> QED
    BY <1>0, <2>1, <2>2, UnchangedTypes DEF ClaimTyped
<1>3. ASSUME NEW p \in Processes, LookUp(p) PROVE ClaimTyped'
  <2>1. /\ stage[p] = "lookup" /\ UNCHANGED <<envVars, rowVars, claim, events>>
        /\ Goto(p, "defer") \/ Goto(p, "nonce")
    BY <1>3, Zenon DEF LookUp
  <2>2. LaneTypes'
    BY <1>0, <2>1, GotoTypes, Zenon DEF Stage, Settling
  <2> QED
    BY <1>0, <2>1, <2>2, UnchangedTypes DEF ClaimTyped
<1>4. ASSUME NEW p \in Processes, CountNonce(p) PROVE ClaimTyped'
  <2>1. /\ stage[p] = "nonce" /\ UNCHANGED <<envVars, rowVars, claim, events>>
        /\ Settle(p, "superseded") \/ Goto(p, "defer")
    BY <1>4, Zenon DEF CountNonce
  <2>2. LaneTypes'
    BY <1>0, <2>1, GotoTypes, SettleTypes, Zenon DEF Stage, Terminal, Settling
  <2> QED
    BY <1>0, <2>1, <2>2, UnchangedTypes DEF ClaimTyped
<1>5. ASSUME NEW p \in Processes, SettleRow(p) PROVE ClaimTyped'
  <2>1. /\ stage[p] = "settle" /\ UNCHANGED <<envVars, rowVars, claim, events>>
        /\ Goto(p, "totals") \/ Goto(p, "defer")
    BY <1>5, Zenon DEF SettleRow
  <2>2. LaneTypes'
    BY <1>0, <2>1, GotoTypes, Zenon DEF Stage, Settling
  <2> QED
    BY <1>0, <2>1, <2>2, UnchangedTypes DEF ClaimTyped
<1>6. ASSUME NEW p \in Processes, ReadTotals(p) PROVE ClaimTyped'
  <2>1. LaneTypes'
    <3>1. AggregateOf(View(p)) \in ClaimStatus
      BY AggregateType
    <3> DEFINE read == AggregateOf(View(p))
    <3>2. aggregate' = [aggregate EXCEPT ![p] = read] /\ read \in ClaimStatus
      BY <1>6, <3>1 DEF ReadTotals
    <3> HIDE DEF read
    <3>3. /\ stage[p] = "totals" /\ stage' = [stage EXCEPT ![p] = "commit"]
          /\ held' = held /\ outcome' = outcome
      BY <1>6 DEF ReadTotals
    <3> QED
      BY <1>0, <3>2, <3>3, SMT DEF LaneTypes, Stage, Settling
  <2> QED
    BY <1>0, <1>6, <2>1, UnchangedTypes DEF ReadTotals, ClaimTyped
<1>7. ASSUME NEW p \in Processes, Commit(p) PROVE ClaimTyped'
  <2>1. /\ stage[p] = "commit" /\ held[p] \in Batches /\ outcome[p] \in Terminal
        /\ aggregate[p] \in ClaimStatus
    BY <1>0, <1>7, SMT DEF Commit, LaneTypes, Settling
  <2>2. LaneTypes'
    BY <1>0, <1>7, <2>1, GotoTypes, GoIdleTypes, Zenon DEF Commit, Stage, Settling
  <2>3. RowTypes'
    <3>1. status' \in [Batches -> TransactionStatus]
      BY <1>0, <1>7, <2>1, SMT DEF Commit, View, RowTypes, TransactionStatus
    <3> QED
      BY <1>0, <1>7, <2>1, <3>1, ClearLeaseTypes, Zenon DEF Commit, RowTypes
  <2>4. claim' \in ClaimStatus /\ events' \in SUBSET (Batches \X Terminal)
    BY <1>0, <1>7, <2>1, SMT DEF Commit
  <2> QED
    BY <1>0, <1>7, <2>2, <2>3, <2>4, UnchangedTypes DEF Commit, ClaimTyped
<1>8. ASSUME NEW p \in Processes, CallFails(p) PROVE ClaimTyped'
  <2>1. LaneTypes'
    BY <1>0, <1>8, GotoTypes, Zenon DEF CallFails, Stage, Settling
  <2> QED
    BY <1>0, <1>8, <2>1, UnchangedTypes DEF CallFails, ClaimTyped
<1>9. ASSUME NEW p \in Processes, Defer(p) PROVE ClaimTyped'
  <2>1. held[p] \in Batches
    BY <1>0, <1>9, SMT DEF Defer, LaneTypes
  <2>2. LaneTypes'
    BY <1>0, <1>9, GoIdleTypes DEF Defer
  <2>3. RowTypes'
    <3>1. CASE Owned(p, held[p])
      <4>1. ClearLease(held[p]) /\ due' = [due EXCEPT ![held[p]] = FALSE] /\ status' = status
        BY <1>9, <3>1, Zenon DEF Defer
      <4>2. due' \in [Batches -> BOOLEAN]
        BY <1>0, <2>1, <4>1, SMT DEF RowTypes
      <4> QED
        BY <1>0, <2>1, <4>1, <4>2, ClearLeaseTypes DEF RowTypes
    <3>2. CASE ~Owned(p, held[p])
      BY <1>0, <1>9, <3>2, Zenon DEF Defer, RowTypes
    <3> QED
      BY <3>1, <3>2
  <2> QED
    BY <1>0, <1>9, <2>2, <2>3, UnchangedTypes DEF Defer, ClaimTyped
<1>10. ASSUME NEW p \in Processes, Crash(p) PROVE ClaimTyped'
  BY <1>0, <1>10, GoIdleTypes, UnchangedTypes DEF Crash, ClaimTyped
<1>11. ASSUME NEW b \in Batches, Broadcast(b) \/ ChainMoves(b) PROVE ClaimTyped'
  <2>1. chain' \in [Batches -> ChainState]
    BY <1>0, <1>11, SMT DEF Broadcast, ChainMoves, EnvTypes, ChainState, Mined
  <2> QED
    BY <1>0, <1>11, <2>1, UnchangedTypes, Zenon DEF Broadcast, ChainMoves, EnvTypes, ClaimTyped
<1>12. ASSUME NEW b \in Batches, RecordSubmission(b) PROVE ClaimTyped'
  <2>1. status' \in [Batches -> TransactionStatus] /\ claim' \in ClaimStatus
    BY <1>0, <1>12, SMT DEF RecordSubmission, RowTypes, TransactionStatus, ClaimStatus
  <2> QED
    BY <1>0, <1>12, <2>1, UnchangedTypes, Zenon DEF RecordSubmission, RowTypes, ClaimTyped
<1>13. ASSUME NEW b \in Batches, Time(b) PROVE ClaimTyped'
  <2>1. leaseExpired' \in [Batches -> BOOLEAN] /\ due' \in [Batches -> BOOLEAN]
    <3>1. CASE LeaseExpires(b)
      BY <1>0, <3>1, SMT DEF LeaseExpires, RowTypes
    <3>2. CASE DelayElapses(b)
      BY <1>0, <3>2, SMT DEF DelayElapses, RowTypes
    <3> QED
      BY <1>13, <3>1, <3>2 DEF Time
  <2> QED
    BY <1>0, <1>13, <2>1, UnchangedTypes, Zenon
       DEF Time, LeaseExpires, DelayElapses, RowTypes, ClaimTyped
<1>14. CASE PlanExpires \/ Calm
  BY <1>0, <1>14, UnchangedTypes, Zenon DEF PlanExpires, Calm, EnvTypes, ClaimTyped
<1>15. CASE UNCHANGED vars
  BY <1>0, <1>15, UnchangedTypes, Zenon DEF vars, ClaimTyped
<1> QED
  BY <1>1, <1>2, <1>3, <1>4, <1>5, <1>6, <1>7, <1>8, <1>9, <1>10, <1>11, <1>12,
     <1>13, <1>14, <1>15, Zenon DEF Next, Work, Fault

LEMMA ClaimTypeInit == Init => ClaimTyped
<1> SUFFICES ASSUME Init PROVE ClaimTyped
  OBVIOUS
<1>1. EnvTypes
  BY Zenon DEF Init, EnvTypes, ChainState
<1>2. RowTypes
  BY Zenon DEF Init, RowTypes, TransactionStatus
<1>3. LaneTypes
  BY SMT DEF Init, LaneTypes, Stage, ClaimStatus, Settling
<1>4. claim \in ClaimStatus /\ events \in SUBSET (Batches \X Terminal)
  BY SMT DEF Init, ClaimStatus
<1> QED
  BY <1>1, <1>2, <1>3, <1>4 DEF ClaimTyped

LEMMA ClaimTypedAlways == Spec => []ClaimTyped
  BY ClaimTypeInit, ClaimTypeStep, PTL DEF Spec

(* Every reachable state is well typed; a process inside its lane holds a  *)
(* batch, and only final verdicts are announced.                           *)
THEOREM ClaimTypeCorrect == Spec => []TypeOK
<1>1. ClaimTyped => TypeOK
  BY Zenon DEF ClaimTyped, EnvTypes, RowTypes, LaneTypes, TypeOK
<1> QED
  BY <1>1, ClaimTypedAlways, PTL

-----------------------------------------------------------------------------
(* Verdicts and their events.                                              *)

(* What the chain shows bears the verdict out. *)
BornOut(verdict, shown) ==
    /\ verdict = "confirmed" => shown = "good"
    /\ verdict = "failed" => shown \in {"bad", "reverted"}
    /\ verdict = "superseded" => shown \in NonceUsed

(* A worker that has a verdict has it from the chain. *)
ToldVerdictHolds ==
    \A p \in Processes : stage[p] \in Settling => BornOut(outcome[p], chain[held[p]])

(* A row under an open transaction waits for the commit of that one.       *)
OpenIsPending == \A p \in Processes : stage[p] \in Open => status[held[p]] = "pending"

OneOpenPerRow ==
    \A p, q \in Processes :
        stage[p] \in Open /\ stage[q] \in Open /\ held[p] = held[q] => p = q

VerdictInv ==
    /\ VerdictMatchesChain /\ OneTerminalEvent
    /\ ToldVerdictHolds /\ OpenIsPending /\ OneOpenPerRow

(* The nonce of a transaction that is mined or replaced stays used. *)
ChainKeeps == \A b \in Batches : chain'[b] = chain[b] \/ chain[b] \notin NonceUsed

(* No worker is told a verdict, and none opens a transaction. *)
LanesKeep ==
    \A p \in Processes :
        \/ stage'[p] \notin Settling
        \/ /\ stage[p] \in Settling /\ (stage'[p] \in Open => stage[p] \in Open)
           /\ held'[p] = held[p] /\ outcome'[p] = outcome[p]

LEMMA BornOutStays ==
  ASSUME ChainKeeps, NEW b \in Batches, NEW verdict, BornOut(verdict, chain[b])
  PROVE  BornOut(verdict, chain'[b])
  BY SMT DEF BornOut, ChainKeeps, NonceUsed, Mined

LEMMA MatchesIsBornOut ==
  VerdictMatchesChain <=> \A b \in Batches : BornOut(status[b], chain[b])
  BY Zenon DEF VerdictMatchesChain, BornOut

LEMMA QuietStep ==
  ASSUME ClaimTyped, VerdictInv, ChainKeeps, LanesKeep, status' = status, events' = events
  PROVE  VerdictInv'
<1>1. VerdictMatchesChain'
  BY BornOutStays, MatchesIsBornOut, Zenon DEF VerdictInv, VerdictMatchesChain, BornOut
<1>2. OneTerminalEvent'
  BY Zenon DEF VerdictInv, OneTerminalEvent
<1>3. ToldVerdictHolds'
  <2> SUFFICES ASSUME NEW p \in Processes, stage'[p] \in Settling
               PROVE  BornOut(outcome'[p], chain'[held'[p]])
    BY DEF ToldVerdictHolds
  <2>1. /\ held'[p] = held[p] /\ outcome'[p] = outcome[p] /\ stage[p] \in Settling
        /\ held[p] \in Batches
    BY SMT DEF LanesKeep, ClaimTyped, LaneTypes, Settling
  <2> QED
    BY <2>1, BornOutStays, Zenon DEF VerdictInv, ToldVerdictHolds
<1>4. OpenIsPending' /\ OneOpenPerRow'
  BY SMT DEF VerdictInv, OpenIsPending, OneOpenPerRow, LanesKeep, Open, Settling
<1> QED
  BY <1>1, <1>2, <1>3, <1>4 DEF VerdictInv

LEMMA MovesKeep ==
  ASSUME LaneTypes, NEW p \in Processes,
         \/ GoIdle(p) \/ Goto(p, "defer") \/ Goto(p, "lookup") \/ Goto(p, "nonce")
         \/ UNCHANGED laneVars
  PROVE  LanesKeep
  BY SMT DEF LaneTypes, GoIdle, Goto, LanesKeep, Settling, Open, laneVars

LEMMA LanesStill ==
  ASSUME UNCHANGED laneVars
  PROVE  LanesKeep
  BY Zenon DEF LanesKeep, laneVars

(* A worker is told what the chain shows at that moment. *)
LEMMA ToldStep ==
  ASSUME ClaimTyped, VerdictInv, NEW p \in Processes, stage[p] # "idle",
         NEW verdict \in Terminal, Settle(p, verdict), BornOut(verdict, chain[held[p]]),
         UNCHANGED <<chain, status, events>>
  PROVE  VerdictInv'
<1>1. /\ stage' = [stage EXCEPT ![p] = "settle"] /\ outcome' = [outcome EXCEPT ![p] = verdict]
      /\ held' = held /\ LaneTypes
  BY DEF Settle, ClaimTyped
<1>2. ToldVerdictHolds'
  BY <1>1, SMT DEF LaneTypes, VerdictInv, ToldVerdictHolds
<1>3. OpenIsPending' /\ OneOpenPerRow'
  BY <1>1, SMT DEF LaneTypes, VerdictInv, OpenIsPending, OneOpenPerRow, Open
<1>4. VerdictMatchesChain' /\ OneTerminalEvent'
  BY Zenon DEF VerdictInv, VerdictMatchesChain, OneTerminalEvent
<1> QED
  BY <1>2, <1>3, <1>4 DEF VerdictInv

LEMMA CommitStep ==
  ASSUME ClaimTyped, VerdictInv, NEW p \in Processes, Commit(p)
  PROVE  VerdictInv'
<1> DEFINE c == held[p]
<1>1. /\ stage[p] = "commit" /\ stage[p] \in Open /\ stage[p] \in Settling
      /\ c \in Batches /\ outcome[p] \in Terminal
      /\ LaneTypes /\ status \in [Batches -> TransactionStatus]
      /\ events \in SUBSET (Batches \X Terminal)
  BY SMT DEF Commit, ClaimTyped, LaneTypes, RowTypes, Settling, Open
<1>2. /\ status' = [status EXCEPT ![c] = outcome[p]]
      /\ events' = events \union {<<c, outcome[p]>>}
      /\ GoIdle(p) \/ (Goto(p, "defer") /\ chain' = chain)
  BY DEF Commit, View, envVars
<1>3. status[c] = "pending"
  BY <1>1, Zenon DEF VerdictInv, OpenIsPending
<1>4. BornOut(outcome[p], chain[c])
  BY <1>1, Zenon DEF VerdictInv, ToldVerdictHolds
<1>5. chain' = chain
  BY DEF Commit, envVars
<1>6. status'[c] = outcome[p] /\ \A b \in Batches : b # c => status'[b] = status[b]
  BY <1>1, <1>2, SMT
<1> HIDE DEF c
<1>7. VerdictMatchesChain'
  BY <1>4, <1>5, <1>6, SMT DEF VerdictInv, VerdictMatchesChain, BornOut
<1>8. OneTerminalEvent'
  <2> SUFFICES ASSUME NEW b \in Batches
               PROVE  {e \in events' : e[1] = b}
                         = IF status'[b] \in Terminal THEN {<<b, status'[b]>>} ELSE {}
    BY DEF OneTerminalEvent
  <2>1. {e \in events : e[1] = b} = IF status[b] \in Terminal THEN {<<b, status[b]>>} ELSE {}
    BY Zenon DEF VerdictInv, OneTerminalEvent
  <2>2. CASE b = c
    <3>1. {e \in events : e[1] = c} = {}
      BY <1>3, <2>1, <2>2, Zenon DEF Terminal
    <3>2. {e \in events' : e[1] = c} = {<<c, outcome[p]>>}
      BY <1>2, <3>1, SMT
    <3> QED
      BY <1>1, <1>6, <2>2, <3>2, Zenon
  <2>3. CASE b # c
    <3>1. {e \in events' : e[1] = b} = {e \in events : e[1] = b}
      BY <1>2, <2>3, SMT
    <3> QED
      BY <1>6, <2>1, <2>3, <3>1, Zenon
  <2> QED
    BY <2>2, <2>3
<1>9. stage'[p] \notin Settling /\ \A q \in Processes : q # p =>
         stage'[q] = stage[q] /\ held'[q] = held[q] /\ outcome'[q] = outcome[q]
  BY <1>1, <1>2, SMT DEF GoIdle, Goto, LaneTypes, Settling
<1>10. ToldVerdictHolds'
  BY <1>5, <1>9, Zenon DEF VerdictInv, ToldVerdictHolds
<1>11. OneOpenPerRow'
  BY <1>9, SMT DEF VerdictInv, OneOpenPerRow, Open, Settling
<1>12. OpenIsPending'
  <2> SUFFICES ASSUME NEW q \in Processes, stage'[q] \in Open PROVE status'[held'[q]] = "pending"
    BY DEF OpenIsPending
  <2>1. q # p /\ stage[q] \in Open /\ held'[q] = held[q] /\ held[q] \in Batches
    BY <1>1, <1>9, SMT DEF Open, Settling, LaneTypes
  <2>2. held[q] # c
    BY <1>1, <2>1, Zenon DEF VerdictInv, OneOpenPerRow, c
  <2> QED
    BY <1>6, <2>1, <2>2, Zenon DEF VerdictInv, OpenIsPending
<1> QED
  BY <1>7, <1>8, <1>10, <1>11, <1>12 DEF VerdictInv

(* Every step keeps the verdicts, what workers were told of them, and the  *)
(* rows under open transactions.                                           *)
LEMMA VerdictStep == ClaimTyped /\ VerdictInv /\ [Next]_vars => VerdictInv'
<1> SUFFICES ASSUME ClaimTyped, VerdictInv, [Next]_vars PROVE VerdictInv'
  OBVIOUS
<1>0. LaneTypes /\ chain \in [Batches -> ChainState] /\ status \in [Batches -> TransactionStatus]
  BY DEF ClaimTyped, EnvTypes, RowTypes
<1>a. chain' = chain => ChainKeeps
  BY Zenon DEF ChainKeeps
<1>1. ASSUME NEW p \in Processes, NEW b \in Batches, LeaseNext(p, b) PROVE VerdictInv'
  <2>1. LanesKeep
    BY <1>0, <1>1, SMT DEF LeaseNext, LanesKeep, LaneTypes, Settling
  <2> QED
    BY <1>1, <1>a, <2>1, QuietStep DEF LeaseNext, envVars
<1>2. ASSUME NEW p \in Processes, ReadReceipt(p) PROVE VerdictInv'
  <2>1. stage[p] = "receipt" /\ stage[p] # "idle" /\ UNCHANGED <<envVars, rowVars, claim, events>>
    BY <1>2, Zenon DEF ReadReceipt
  <2>2. CASE chain[held[p]] = "good" /\ Settle(p, "confirmed")
    <3>1. BornOut("confirmed", chain[held[p]])
      BY <2>2, SMT DEF BornOut
    <3> QED
      BY <2>1, <2>2, <3>1, ToldStep DEF Terminal, envVars, rowVars
  <2>3. CASE chain[held[p]] \in {"bad", "reverted"} /\ Settle(p, "failed")
    <3>1. BornOut("failed", chain[held[p]])
      BY <2>3, SMT DEF BornOut
    <3> QED
      BY <2>1, <2>3, <3>1, ToldStep DEF Terminal, envVars, rowVars
  <2>4. CASE Goto(p, "defer") \/ Goto(p, "lookup")
    BY <1>0, <1>a, <2>1, <2>4, MovesKeep, QuietStep DEF envVars, rowVars
  <2> QED
    BY <1>2, <2>2, <2>3, <2>4, Zenon DEF ReadReceipt
<1>3. ASSUME NEW p \in Processes, LookUp(p) PROVE VerdictInv'
  <2>1. Goto(p, "defer") \/ Goto(p, "nonce")
    BY <1>3, Zenon DEF LookUp
  <2> QED
    BY <1>0, <1>3, <1>a, <2>1, MovesKeep, QuietStep DEF LookUp, envVars, rowVars
<1>4. ASSUME NEW p \in Processes, CountNonce(p) PROVE VerdictInv'
  <2>1. CASE chain[held[p]] \in NonceUsed
    <3>1. BornOut("superseded", chain[held[p]])
      BY <2>1, Zenon DEF BornOut
    <3>2. stage[p] # "idle" /\ Settle(p, "superseded")
      BY <1>4, <2>1, Zenon DEF CountNonce
    <3> QED
      BY <1>4, <3>1, <3>2, ToldStep DEF CountNonce, Terminal, envVars, rowVars
  <2>2. CASE chain[held[p]] \notin NonceUsed
    <3>1. Goto(p, "defer")
      BY <1>4, <2>2, Zenon DEF CountNonce
    <3> QED
      BY <1>0, <1>4, <1>a, <3>1, MovesKeep, QuietStep DEF CountNonce, envVars, rowVars
  <2> QED
    BY <2>1, <2>2
<1>5. ASSUME NEW p \in Processes, SettleRow(p) PROVE VerdictInv'
  <2>1. /\ stage[p] = "settle" /\ ~Locked(held[p]) /\ UNCHANGED <<envVars, rowVars, claim, events>>
        /\ \/ Owned(p, held[p]) /\ Goto(p, "totals")
           \/ Goto(p, "defer")
    BY <1>5, Zenon DEF SettleRow
  <2>2. CASE Goto(p, "defer")
    BY <1>0, <1>a, <2>1, <2>2, MovesKeep, QuietStep DEF envVars, rowVars
  <2>3. CASE Owned(p, held[p]) /\ Goto(p, "totals")
    <3>1. /\ stage' = [stage EXCEPT ![p] = "totals"] /\ held' = held /\ outcome' = outcome
          /\ chain' = chain /\ status' = status /\ events' = events
      BY <2>1, <2>3 DEF Goto, envVars, rowVars
    <3>2. ToldVerdictHolds'
      BY <1>0, <2>1, <3>1, SMT DEF VerdictInv, ToldVerdictHolds, LaneTypes, Settling
    <3>3. OpenIsPending'
      BY <1>0, <2>3, <3>1, SMT DEF VerdictInv, OpenIsPending, LaneTypes, Owned, Open
    <3>4. \A q \in Processes : stage[q] \in Open => held[q] # held[p]
      BY <2>1, Zenon DEF Locked, Open
    <3>5. OneOpenPerRow'
      BY <1>0, <3>1, <3>4, SMT DEF VerdictInv, OneOpenPerRow, LaneTypes
    <3> QED
      BY <3>1, <3>2, <3>3, <3>5, Zenon DEF VerdictInv, VerdictMatchesChain, OneTerminalEvent
  <2> QED
    BY <2>1, <2>2, <2>3
<1>6. ASSUME NEW p \in Processes, ReadTotals(p) PROVE VerdictInv'
  <2>1. /\ stage[p] = "totals" /\ stage' = [stage EXCEPT ![p] = "commit"]
        /\ held' = held /\ outcome' = outcome
        /\ chain' = chain /\ status' = status /\ events' = events
    BY <1>6 DEF ReadTotals, envVars, rowVars
  <2>2. LanesKeep
    BY <1>0, <2>1, SMT DEF LanesKeep, LaneTypes, Settling, Open
  <2> QED
    BY <1>a, <2>1, <2>2, QuietStep
<1>7. ASSUME NEW p \in Processes, Commit(p) PROVE VerdictInv'
  BY <1>7, CommitStep
<1>8. ASSUME NEW p \in Processes, CallFails(p) \/ Crash(p) PROVE VerdictInv'
  BY <1>0, <1>8, <1>a, MovesKeep, QuietStep DEF CallFails, Crash, envVars, rowVars
<1>9. ASSUME NEW p \in Processes, Defer(p) PROVE VerdictInv'
  BY <1>0, <1>9, <1>a, MovesKeep, QuietStep DEF Defer, envVars
<1>10. ASSUME NEW b \in Batches, Broadcast(b) \/ ChainMoves(b) PROVE VerdictInv'
  <2>1. ChainKeeps
    BY <1>0, <1>10, SMT DEF Broadcast, ChainMoves, ChainKeeps, NonceUsed, Mined
  <2> QED
    BY <1>10, <2>1, LanesStill, QuietStep, Zenon DEF Broadcast, ChainMoves, rowVars
<1>11. ASSUME NEW b \in Batches, RecordSubmission(b) PROVE VerdictInv'
  <2>1. /\ status[b] = "none" /\ status' = [status EXCEPT ![b] = "pending"]
        /\ UNCHANGED <<chain, events, stage, held, outcome>>
    BY <1>11 DEF RecordSubmission, envVars, laneVars
  <2>2. status'[b] = "pending" /\ \A c \in Batches : c # b => status'[c] = status[c]
    BY <1>0, <2>1, SMT
  <2>3. VerdictMatchesChain'
    BY <2>1, <2>2, SMT DEF VerdictInv, VerdictMatchesChain
  <2>4. OneTerminalEvent'
    <3>1. \A c \in Batches : status'[c] \in Terminal <=> status[c] \in Terminal
      BY <2>1, <2>2, SMT DEF Terminal
    <3>2. \A c \in Batches : status[c] \in Terminal => status'[c] = status[c]
      BY <2>1, <2>2, SMT DEF Terminal
    <3> QED
      BY <2>1, <3>1, <3>2, Zenon DEF VerdictInv, OneTerminalEvent
  <2>5. ToldVerdictHolds' /\ OneOpenPerRow'
    BY <2>1, Zenon DEF VerdictInv, ToldVerdictHolds, OneOpenPerRow
  <2>6. OpenIsPending'
    BY <1>0, <2>1, <2>2, SMT DEF VerdictInv, OpenIsPending, LaneTypes, Open
  <2> QED
    BY <2>3, <2>4, <2>5, <2>6 DEF VerdictInv
<1>12. ASSUME NEW b \in Batches, Time(b) PROVE VerdictInv'
  <2>1. UNCHANGED <<chain, status, events, laneVars>>
    BY <1>12, Zenon DEF Time, LeaseExpires, DelayElapses, envVars
  <2> QED
    BY <1>a, <2>1, LanesStill, QuietStep
<1>13. CASE PlanExpires \/ Calm \/ UNCHANGED vars
  <2>1. UNCHANGED <<chain, status, events, laneVars>>
    BY <1>13, Zenon DEF PlanExpires, Calm, vars, envVars, rowVars
  <2> QED
    BY <1>a, <2>1, LanesStill, QuietStep
<1> QED
  BY <1>1, <1>2, <1>3, <1>4, <1>5, <1>6, <1>7, <1>8, <1>9, <1>10, <1>11, <1>12,
     <1>13, Zenon DEF Next, Work, Fault

LEMMA VerdictInit == Init => VerdictInv
  BY SMT DEF Init, VerdictInv, VerdictMatchesChain, OneTerminalEvent, ToldVerdictHolds,
             OpenIsPending, OneOpenPerRow, Settling, Open, Terminal

LEMMA VerdictAlways == Spec => []VerdictInv
  BY ClaimTypedAlways, VerdictInit, VerdictStep, PTL DEF Spec

(* A batch is announced exactly once, with the verdict its row carries,    *)
(* for any number of workers, also when they share an id.                  *)
THEOREM ClaimOneTerminalEvent == Spec => []OneTerminalEvent
<1>1. VerdictInv => OneTerminalEvent
  BY DEF VerdictInv
<1> QED
  BY <1>1, VerdictAlways, PTL

(* Every recorded verdict is what the chain says for good, although the    *)
(* receipt, the transaction, the nonce and the row are read one by one.    *)
THEOREM ClaimVerdictMatchesChain == Spec => []VerdictMatchesChain
<1>1. VerdictInv => VerdictMatchesChain
  BY DEF VerdictInv
<1> QED
  BY <1>1, VerdictAlways, PTL

LEMMA FinalStep ==
  ClaimTyped /\ VerdictInv /\ [Next]_vars
    => [\A b \in Batches : status[b] \in Terminal => status'[b] = status[b]]_vars
<1> SUFFICES ASSUME ClaimTyped, VerdictInv, Next
             PROVE  \A b \in Batches : status[b] \in Terminal => status'[b] = status[b]
  BY Zenon
<1>0. status \in [Batches -> TransactionStatus]
  BY DEF ClaimTyped, RowTypes
<1>1. ASSUME NEW b \in Batches, RecordSubmission(b)
      PROVE  \A c \in Batches : status[c] \in Terminal => status'[c] = status[c]
  BY <1>0, <1>1, SMT DEF RecordSubmission, Terminal
<1>2. ASSUME NEW p \in Processes, Commit(p)
      PROVE  \A c \in Batches : status[c] \in Terminal => status'[c] = status[c]
  <2>1. status[held[p]] = "pending" /\ status' = [status EXCEPT ![held[p]] = outcome[p]]
    BY <1>2, SMT DEF Commit, View, VerdictInv, OpenIsPending, Open
  <2> QED
    BY <1>0, <2>1, SMT DEF Terminal
<1>3. CASE status' = status
  BY <1>3, Zenon
<1>4. \/ \E b \in Batches : RecordSubmission(b)
      \/ \E p \in Processes : Commit(p)
      \/ status' = status
  BY Zenon DEF Next, Work, Fault, Time, LeaseNext, ReadReceipt, LookUp, CountNonce, SettleRow,
               ReadTotals, Defer, CallFails, Crash, Broadcast, ChainMoves, LeaseExpires,
               DelayElapses, PlanExpires, Calm, rowVars
<1> QED
  BY <1>1, <1>2, <1>3, <1>4, Zenon

(* A settled batch keeps its verdict: every write of a status finds the    *)
(* row absent or pending.                                                  *)
THEOREM ClaimVerdictIsFinal == Spec => VerdictIsFinal
<1> QED
  BY FinalStep, ClaimTypedAlways, VerdictAlways, PTL DEF Spec, VerdictIsFinal

-----------------------------------------------------------------------------
(* The aggregate of the claim, where a single worker runs.                 *)

OnlyOne == \A p, q \in deployment.crew : p = q

CrewWorks == \A p \in Processes : stage[p] # "idle" => p \in deployment.crew

(* The totals a worker is about to write count its own verdict and every   *)
(* row, or a batch was recorded since, which is then pending.              *)
TotalsFresh ==
    \A p \in Processes : stage[p] = "commit" =>
        \/ aggregate[p] = AggregateOf(View(p))
        \/ \E b \in Batches : b # held[p] /\ status[b] = "pending"

(* ClaimIsAggregate, whether or not a transaction is open.                 *)
SettledIsAggregate ==
    (\A b \in Batches : status[b] # "pending") /\ (\E b \in Batches : status[b] # "none")
        => claim = AggregateOf(status)

AggregateInv == CrewWorks /\ (OnlyOne => TotalsFresh /\ SettledIsAggregate)

(* Nobody comes to the commit; who is there stays or leaves.               *)
NoneAtCommit ==
    \A p \in Processes :
        /\ stage'[p] # "idle" => p \in deployment.crew
        /\ stage'[p] = "commit" =>
              /\ stage[p] = "commit" /\ held'[p] = held[p]
              /\ outcome'[p] = outcome[p] /\ aggregate'[p] = aggregate[p]

LEMMA AggregateQuiet ==
  ASSUME AggregateInv, NoneAtCommit, status' = status, claim' = claim, deployment' = deployment
  PROVE  AggregateInv'
<1>1. CrewWorks'
  BY Zenon DEF NoneAtCommit, CrewWorks
<1>2. OnlyOne' <=> OnlyOne
  BY Zenon DEF OnlyOne
<1>3. SettledIsAggregate => SettledIsAggregate'
  BY Zenon DEF SettledIsAggregate, AggregateOf
<1>4. TotalsFresh => TotalsFresh'
  <2> SUFFICES ASSUME TotalsFresh, NEW p \in Processes, stage'[p] = "commit"
               PROVE  \/ aggregate'[p] = AggregateOf(View(p))'
                      \/ \E b \in Batches : b # held'[p] /\ status'[b] = "pending"
    BY Zenon DEF TotalsFresh
  <2>1. /\ stage[p] = "commit" /\ held'[p] = held[p]
        /\ outcome'[p] = outcome[p] /\ aggregate'[p] = aggregate[p]
    BY Zenon DEF NoneAtCommit
  <2>2. AggregateOf(View(p))' = AggregateOf(View(p))
    BY <2>1, Zenon DEF AggregateOf, View
  <2> QED
    BY <2>1, <2>2, Zenon DEF TotalsFresh
<1> QED
  BY <1>1, <1>2, <1>3, <1>4 DEF AggregateInv

LEMMA LaneNotToCommit ==
  ASSUME LaneTypes, CrewWorks, NEW p \in Processes, stage[p] # "idle",
         \/ GoIdle(p) \/ UNCHANGED laneVars
         \/ \E next \in Stage \ {"commit"} : Goto(p, next)
         \/ \E verdict : Settle(p, verdict)
  PROVE  NoneAtCommit
  BY SMT DEF LaneTypes, GoIdle, Goto, Settle, NoneAtCommit, CrewWorks, laneVars

LEMMA AggregateStep == ClaimTyped /\ VerdictInv /\ AggregateInv /\ [Next]_vars => AggregateInv'
<1> SUFFICES ASSUME ClaimTyped, VerdictInv, AggregateInv, [Next]_vars PROVE AggregateInv'
  OBVIOUS
<1>0. /\ LaneTypes /\ CrewWorks
      /\ status \in [Batches -> TransactionStatus]
  BY DEF ClaimTyped, EnvTypes, RowTypes, AggregateInv
<1>1. ASSUME NEW p \in Processes, NEW b \in Batches, LeaseNext(p, b) PROVE AggregateInv'
  <2>1. NoneAtCommit
    BY <1>0, <1>1, SMT DEF LeaseNext, NoneAtCommit, CrewWorks, LaneTypes
  <2> QED
    BY <1>1, <2>1, AggregateQuiet DEF LeaseNext, envVars
<1>2. ASSUME NEW p \in Processes,
             ReadReceipt(p) \/ LookUp(p) \/ CountNonce(p) \/ SettleRow(p) \/ CallFails(p)
             \/ Defer(p) \/ Crash(p)
      PROVE  AggregateInv'
  <2>1. stage[p] # "idle" /\ status' = status /\ claim' = claim /\ deployment' = deployment
    BY <1>2, Zenon DEF ReadReceipt, LookUp, CountNonce, SettleRow, CallFails, Defer, Crash,
                       envVars, rowVars
  <2>2. \/ GoIdle(p)
        \/ Goto(p, "defer") \/ Goto(p, "lookup") \/ Goto(p, "nonce") \/ Goto(p, "totals")
        \/ \E verdict : Settle(p, verdict)
    BY <1>2, Zenon DEF ReadReceipt, LookUp, CountNonce, SettleRow, CallFails, Defer, Crash
  <2>3. {"defer", "lookup", "nonce", "totals"} \subseteq Stage \ {"commit"}
    BY SMT DEF Stage
  <2>4. NoneAtCommit
    BY <1>0, <2>1, <2>2, <2>3, LaneNotToCommit, Zenon
  <2> QED
    BY <2>1, <2>4, AggregateQuiet
<1>3. ASSUME NEW p \in Processes, ReadTotals(p) PROVE AggregateInv'
  <2>1. /\ stage[p] = "totals" /\ stage' = [stage EXCEPT ![p] = "commit"]
        /\ aggregate' = [aggregate EXCEPT ![p] = AggregateOf(View(p))]
        /\ held' = held /\ outcome' = outcome
        /\ status' = status /\ claim' = claim /\ deployment' = deployment
    BY <1>3 DEF ReadTotals, envVars, rowVars
  <2>2. CrewWorks' /\ (OnlyOne' <=> OnlyOne)
    BY <1>0, <2>1, SMT DEF CrewWorks, LaneTypes, OnlyOne
  <2>3. SettledIsAggregate => SettledIsAggregate'
    BY <2>1, Zenon DEF SettledIsAggregate, AggregateOf
  <2>4. \A q \in Processes : AggregateOf(View(q))' = AggregateOf(View(q))
    BY <2>1, Zenon DEF AggregateOf, View
  <2>5. /\ aggregate'[p] = AggregateOf(View(p))
        /\ \A q \in Processes : q # p => stage'[q] = stage[q] /\ aggregate'[q] = aggregate[q]
    BY <1>0, <2>1, Zenon DEF LaneTypes
  <2>6. TotalsFresh => TotalsFresh'
    BY <2>1, <2>4, <2>5, Zenon DEF TotalsFresh
  <2> QED
    BY <2>2, <2>3, <2>6 DEF AggregateInv
<1>4. ASSUME NEW p \in Processes, Commit(p) PROVE AggregateInv'
  <2>1. /\ stage[p] = "commit" /\ status' = View(p) /\ claim' = aggregate[p]
        /\ deployment' = deployment /\ p \in deployment.crew
    BY <1>0, <1>4, SMT DEF Commit, envVars, CrewWorks
  <2>2. stage'[p] # "commit" /\ \A q \in Processes : stage'[q] # "idle" => stage[q] # "idle"
    BY <1>0, <1>4, SMT DEF Commit, GoIdle, Goto, LaneTypes
  <2>3. CrewWorks'
    BY <1>0, <2>1, <2>2, Zenon DEF CrewWorks
  <2>4. ASSUME OnlyOne PROVE TotalsFresh' /\ SettledIsAggregate'
    <3>1. TotalsFresh'
      BY <2>1, <2>2, <2>3, <2>4, Zenon DEF TotalsFresh, CrewWorks, OnlyOne
    <3>2. ASSUME \A b \in Batches : status'[b] # "pending" PROVE claim' = AggregateOf(status)'
      <4>1. held[p] \in Batches /\ \A b \in Batches : b # held[p] => status'[b] = status[b]
        BY <1>0, <2>1, SMT DEF LaneTypes, View
      <4>2. aggregate[p] = AggregateOf(View(p))
        BY <2>1, <2>4, <3>2, <4>1, Zenon DEF AggregateInv, TotalsFresh
      <4> QED
        BY <2>1, <4>2, Zenon DEF AggregateOf
    <3> QED
      BY <3>1, <3>2, Zenon DEF SettledIsAggregate
  <2> QED
    BY <2>1, <2>3, <2>4, Zenon DEF AggregateInv, OnlyOne
<1>5. ASSUME NEW b \in Batches, RecordSubmission(b) PROVE AggregateInv'
  <2>1. /\ status[b] = "none" /\ status' = [status EXCEPT ![b] = "pending"]
        /\ UNCHANGED <<deployment, laneVars>>
    BY <1>5 DEF RecordSubmission, envVars
  <2>2. status'[b] = "pending"
    BY <1>0, <2>1, SMT
  <2>3. \A p \in Processes : stage[p] = "commit" => held[p] # b
    BY <2>1, SMT DEF VerdictInv, OpenIsPending, Open
  <2>4. TotalsFresh' /\ SettledIsAggregate'
    BY <2>1, <2>2, <2>3, Zenon DEF TotalsFresh, SettledIsAggregate, laneVars
  <2>5. CrewWorks'
    BY <1>0, <2>1, Zenon DEF CrewWorks, laneVars
  <2> QED
    BY <2>4, <2>5 DEF AggregateInv
<1>6. CASE \/ \E b \in Batches : Broadcast(b) \/ ChainMoves(b) \/ Time(b)
           \/ PlanExpires \/ Calm \/ UNCHANGED vars
  <2>1. UNCHANGED <<deployment, status, claim, laneVars>>
    BY <1>6, Zenon DEF Broadcast, ChainMoves, Time, LeaseExpires, DelayElapses, PlanExpires, Calm,
                       vars, envVars, rowVars
  <2>2. NoneAtCommit
    BY <1>0, <2>1, Zenon DEF NoneAtCommit, CrewWorks, laneVars
  <2> QED
    BY <2>1, <2>2, AggregateQuiet
<1> QED
  BY <1>1, <1>2, <1>3, <1>4, <1>5, <1>6, Zenon DEF Next, Work, Fault

LEMMA AggregateInit == Init => AggregateInv
  BY SMT DEF Init, AggregateInv, CrewWorks, TotalsFresh, SettledIsAggregate

LEMMA AggregateAlways == Spec => []AggregateInv
  BY ClaimTypedAlways, VerdictAlways, AggregateInit, AggregateStep, PTL DEF Spec

LEMMA OneWorkerIsOnlyOne ==
  ASSUME ClaimTyped, OneWorker
  PROVE  OnlyOne
<1>1. deployment.crew \subseteq Processes /\ IsFiniteSet(Processes)
  BY ClaimAssumption, SMT DEF ClaimTyped, EnvTypes
<1>2. IsFiniteSet(deployment.crew)
  BY <1>1, FS_Subset
<1>3. PICK x : deployment.crew = {x}
  BY <1>2, FS_Singleton, Zenon DEF OneWorker
<1> QED
  BY <1>3, SMT DEF OnlyOne

(* Where a single worker runs, the last batch settled leaves the claim     *)
(* with the aggregate of all of them: the counts it writes are stale only  *)
(* when a batch was recorded since, and that one is still to be settled.   *)
THEOREM ClaimOneWorkerAggregates == Spec => []OneWorkerAggregates
<1>1. ClaimTyped /\ AggregateInv => OneWorkerAggregates
  BY OneWorkerIsOnlyOne, Zenon
     DEF AggregateInv, SettledIsAggregate, OneWorkerAggregates, ClaimIsAggregate
<1> QED
  BY <1>1, ClaimTypedAlways, AggregateAlways, PTL

-----------------------------------------------------------------------------
(* The claim is a ledger.                                                  *)

(* The rows a worker has counted are rows as they are, or were.            *)
Seen(p, rows) ==
    /\ rows \in [Batches -> TransactionStatus]
    /\ rows[held[p]] = outcome[p]
    /\ \A b \in Batches : b # held[p] => Ledger!Was(rows[b], status[b])

CountsWereSeen ==
    \A p \in Processes : stage[p] = "commit" =>
        \E rows : Seen(p, rows) /\ aggregate[p] = AggregateOf(rows)

LedgerInv == ClaimTyped /\ VerdictInv /\ CountsWereSeen

(* How a row goes on: it is entered, or it gets its verdict.               *)
RowsGoOn == \A b \in Batches : Ledger!Was(status[b], status'[b])

LEMMA SeenStays ==
  ASSUME LedgerInv, RowsGoOn, NEW p \in Processes,
         stage[p] = "commit", held'[p] = held[p], outcome'[p] = outcome[p],
         aggregate'[p] = aggregate[p]
  PROVE  \E rows : Seen(p, rows)' /\ aggregate'[p] = AggregateOf(rows)
<1>1. PICK rows : Seen(p, rows) /\ aggregate[p] = AggregateOf(rows)
  BY DEF LedgerInv, CountsWereSeen
<1>2. \A b \in Batches : b # held[p] => Ledger!Was(rows[b], status'[b])
  BY <1>1, SMT DEF Seen, RowsGoOn, Ledger!Was
<1>3. Seen(p, rows)'
  BY <1>1, <1>2, Zenon DEF Seen
<1> QED
  BY <1>1, <1>3, Zenon

LEMMA RowsStep == LedgerInv /\ [Next]_vars => RowsGoOn
<1> SUFFICES ASSUME LedgerInv, [Next]_vars PROVE RowsGoOn
  OBVIOUS
<1>0. status \in [Batches -> TransactionStatus] /\ LaneTypes /\ VerdictInv
  BY DEF LedgerInv, ClaimTyped, RowTypes
<1>1. ASSUME NEW b \in Batches, RecordSubmission(b) PROVE RowsGoOn
  BY <1>0, <1>1, SMT DEF RecordSubmission, RowsGoOn, Ledger!Was
<1>2. ASSUME NEW p \in Processes, Commit(p) PROVE RowsGoOn
  <2>1. /\ status[held[p]] = "pending" /\ status' = [status EXCEPT ![held[p]] = outcome[p]]
        /\ outcome[p] \in Terminal
    BY <1>0, <1>2, SMT DEF Commit, View, VerdictInv, OpenIsPending, Open, LaneTypes, Settling
  <2> QED
    BY <1>0, <2>1, SMT DEF RowsGoOn, Ledger!Was, Terminal
<1>3. CASE status' = status
  BY <1>3, Zenon DEF RowsGoOn, Ledger!Was
<1>4. \/ \E b \in Batches : RecordSubmission(b)
      \/ \E p \in Processes : Commit(p)
      \/ status' = status
  BY Zenon DEF Next, Work, Fault, Time, LeaseNext, ReadReceipt, LookUp, CountNonce, SettleRow,
               ReadTotals, Defer, CallFails, Crash, Broadcast, ChainMoves, LeaseExpires,
               DelayElapses, PlanExpires, Calm, rowVars, vars
<1> QED
  BY <1>1, <1>2, <1>3, <1>4

(* A worker comes to the commit by counting the rows. *)
LEMMA ToCommit ==
  ASSUME LedgerInv, [Next]_vars, NEW p \in Processes, stage'[p] = "commit"
  PROVE  \/ ReadTotals(p)
         \/ /\ stage[p] = "commit" /\ held'[p] = held[p]
            /\ outcome'[p] = outcome[p] /\ aggregate'[p] = aggregate[p]
<1> DEFINE Stays == /\ stage[p] = "commit" /\ held'[p] = held[p]
                    /\ outcome'[p] = outcome[p] /\ aggregate'[p] = aggregate[p]
<1>0. LaneTypes
  BY DEF LedgerInv, ClaimTyped
<1>1. ASSUME NEW q \in Processes, NEW b \in Batches, LeaseNext(q, b) PROVE Stays
  BY <1>0, <1>1, SMT DEF LeaseNext, LaneTypes
<1>2. ASSUME NEW q \in Processes, GoIdle(q) PROVE Stays
  BY <1>0, <1>2, SMT DEF GoIdle, LaneTypes
<1>3. ASSUME NEW q \in Processes, NEW next, next # "commit", Goto(q, next) PROVE Stays
  BY <1>0, <1>3, SMT DEF Goto, LaneTypes
<1>4. ASSUME NEW q \in Processes, NEW verdict, Settle(q, verdict) PROVE Stays
  BY <1>0, <1>4, SMT DEF Settle, LaneTypes
<1>5. ASSUME NEW q \in Processes, ReadTotals(q) PROVE q = p \/ Stays
  BY <1>0, <1>5, SMT DEF ReadTotals, LaneTypes
<1>6. ASSUME UNCHANGED laneVars PROVE Stays
  BY <1>6, Zenon DEF laneVars
<1>7. ASSUME NEW q \in Processes, Work(q) \/ Fault(q) PROVE ReadTotals(p) \/ Stays
  <2>1. \/ \E b \in Batches : LeaseNext(q, b)
        \/ GoIdle(q)
        \/ Goto(q, "defer") \/ Goto(q, "lookup") \/ Goto(q, "nonce") \/ Goto(q, "totals")
        \/ \E verdict : Settle(q, verdict)
        \/ ReadTotals(q)
    BY <1>7, Zenon DEF Work, Fault, ReadReceipt, LookUp, CountNonce, SettleRow, Commit, Defer,
                       CallFails, Crash
  <2> HIDE DEF Stays
  <2>2. "defer" # "commit" /\ "lookup" # "commit" /\ "nonce" # "commit" /\ "totals" # "commit"
    OBVIOUS
  <2> QED
    BY <1>1, <1>2, <1>3, <1>4, <1>5, <2>1, <2>2, Zenon
<1>8. ASSUME \/ \E b \in Batches : Broadcast(b) \/ ChainMoves(b) \/ RecordSubmission(b) \/ Time(b)
             \/ PlanExpires \/ Calm \/ UNCHANGED vars
      PROVE  Stays
  <2>1. UNCHANGED laneVars
    BY <1>8, Zenon DEF Broadcast, ChainMoves, RecordSubmission, Time, LeaseExpires, DelayElapses,
                       PlanExpires, Calm, vars
  <2> QED
    BY <1>6, <2>1
<1> QED
  BY <1>7, <1>8, Zenon DEF Next

LEMMA LedgerStep == LedgerInv /\ [Next]_vars => LedgerInv'
<1> SUFFICES ASSUME LedgerInv, [Next]_vars PROVE LedgerInv'
  OBVIOUS
<1>1. ClaimTyped' /\ VerdictInv' /\ RowsGoOn
  BY ClaimTypeStep, VerdictStep, RowsStep DEF LedgerInv
<1>2. ASSUME NEW p \in Processes, stage'[p] = "commit"
      PROVE  \E rows : Seen(p, rows)' /\ aggregate'[p] = AggregateOf(rows)
  <2>1. CASE ReadTotals(p)
    <3>1. /\ stage[p] = "totals" /\ held' = held /\ outcome' = outcome /\ status' = status
          /\ aggregate' = [aggregate EXCEPT ![p] = AggregateOf(View(p))]
      BY <2>1 DEF ReadTotals, rowVars
    <3>2. /\ status \in [Batches -> TransactionStatus] /\ held[p] \in Batches
          /\ outcome[p] \in TransactionStatus /\ aggregate \in [Processes -> ClaimStatus]
      BY <3>1, SMT DEF LedgerInv, ClaimTyped, RowTypes, LaneTypes, TransactionStatus
    <3>3. aggregate'[p] = AggregateOf(View(p))
      BY <3>1, <3>2, Zenon
    <3>4. /\ View(p) \in [Batches -> TransactionStatus]
          /\ View(p)[held[p]] = outcome[p]
          /\ \A b \in Batches : b # held[p] => View(p)[b] = status[b]
      BY <3>2, SMT DEF View
    <3> DEFINE rows == View(p)
    <3>5. \A b \in Batches : b # held[p] => Ledger!Was(rows[b], status[b])
      BY <3>4, Zenon DEF Ledger!Was
    <3> HIDE DEF rows
    <3>6. /\ rows \in [Batches -> TransactionStatus] /\ rows[held'[p]] = outcome'[p]
          /\ \A b \in Batches : b # held'[p] => Ledger!Was(rows[b], status'[b])
          /\ aggregate'[p] = AggregateOf(rows)
      BY <3>1, <3>3, <3>4, <3>5, Zenon DEF rows
    <3>7. PICK r : r = rows     \* r is rigid, rows is not
      OBVIOUS
    <3>8. Seen(p, r)' /\ aggregate'[p] = AggregateOf(r)
      BY <3>6, <3>7, Zenon DEF Seen
    <3> QED
      BY <3>8
  <2>2. CASE ~ReadTotals(p)
    BY <1>1, <1>2, <2>2, ToCommit, SeenStays, Zenon
  <2> QED
    BY <2>1, <2>2
<1>3. CountsWereSeen'
  BY <1>2, Zenon DEF CountsWereSeen
<1> QED
  BY <1>1, <1>3 DEF LedgerInv

LEMMA LedgerAlways == Spec => []LedgerInv
<1>1. Init => CountsWereSeen
  BY SMT DEF Init, CountsWereSeen
<1>2. Init => LedgerInv
  BY <1>1, ClaimTypeInit, VerdictInit DEF LedgerInv
<1> QED
  BY <1>2, LedgerStep, PTL DEF Spec

(* What the repository writes to a claim is what its rows say. *)
LEMMA AggregateSays ==
  ASSUME NEW rows \in [Batches -> TransactionStatus]
  PROVE  Ledger!SaysOf(AggregateOf(rows), rows)
<1> DEFINE statuses == {rows[b] : b \in Batches} \ {"none"}
<1>1. \A s : s # "none" => (s \in statuses <=> \E b \in Batches : rows[b] = s)
  OBVIOUS
<1> HIDE DEF statuses
<1>2. AggregateOf(rows) = IF "failed" \in statuses THEN "failed"
                          ELSE IF "superseded" \in statuses THEN "superseded"
                          ELSE IF "pending" \in statuses THEN "submitted"
                          ELSE "confirmed"
  BY Zenon DEF AggregateOf, statuses
<1> QED
  BY <1>1, <1>2, SMT DEF Ledger!SaysOf

LEMMA FateOf ==
  ASSUME NEW verdict \in Terminal, NEW shown \in ChainState, BornOut(verdict, shown)
  PROVE  Ledger!BearsOut(Fate(shown), verdict)
  BY SMT DEF Ledger!BearsOut, Ledger!Decided, BornOut, Fate, Terminal, ChainState, NonceUsed, Mined

LEMMA LedgerSimulation == LedgerInv /\ [Next]_vars => [Ledger!Next]_(Ledger!vars)
<1> SUFFICES ASSUME LedgerInv, [Next]_vars PROVE [Ledger!Next]_(Ledger!vars)
  OBVIOUS
<1>0. /\ chain \in [Batches -> ChainState] /\ status \in [Batches -> TransactionStatus]
      /\ LaneTypes /\ VerdictInv /\ RowsGoOn
  BY RowsStep DEF LedgerInv, ClaimTyped, EnvTypes, RowTypes
<1>1. ASSUME NEW b \in Batches, Broadcast(b) PROVE Ledger!Send(b)
  <2>1. /\ chain[b] = "none" /\ chain' = [chain EXCEPT ![b] = "pool"]
        /\ UNCHANGED <<status, claim, events>>
    BY <1>1 DEF Broadcast, rowVars
  <2>2. /\ Fate(chain[b]) = "unsent"
        /\ \A c \in Batches : Fate(chain'[c]) = IF c = b THEN "sent" ELSE Fate(chain[c])
    BY <1>0, <2>1, SMT DEF Fate
  <2> QED
    BY <2>1, <2>2, Zenon DEF Ledger!Send
<1>2. ASSUME NEW b \in Batches, ChainMoves(b) PROVE Ledger!Decide(b) \/ UNCHANGED Ledger!vars
  <2>1. /\ UNCHANGED <<status, claim, events>>
        /\ \/ chain[b] \in {"pool", "dropped"}
                /\ \E c \in Mined \union {"replaced"} : chain' = [chain EXCEPT ![b] = c]
           \/ chain[b] \in {"pool", "dropped"}
                /\ \E c \in {"pool", "dropped"} : chain' = [chain EXCEPT ![b] = c]
    BY <1>2, SMT DEF ChainMoves, rowVars
  <2>2. CASE \E c \in {"pool", "dropped"} : chain[b] \in {"pool", "dropped"}
                                              /\ chain' = [chain EXCEPT ![b] = c]
    <3>1. \A c \in Batches : Fate(chain'[c]) = Fate(chain[c])
      BY <1>0, <2>2, SMT DEF Fate
    <3> QED
      BY <2>1, <3>1, Zenon DEF Ledger!vars
  <2>3. ASSUME NEW c \in Mined \union {"replaced"}, chain[b] \in {"pool", "dropped"},
               chain' = [chain EXCEPT ![b] = c]
        PROVE  Ledger!Decide(b)
    <3>1. Fate(chain[b]) = "sent" /\ Fate(c) \in Ledger!Decided
      BY <2>3, SMT DEF Fate, Mined, Ledger!Decided
    <3>2. \A d \in Batches : Fate(chain'[d]) = IF d = b THEN Fate(c) ELSE Fate(chain[d])
      BY <1>0, <2>3, SMT
    <3> QED
      BY <2>1, <3>1, <3>2, Zenon DEF Ledger!Decide
  <2> QED
    BY <2>1, <2>2, <2>3, Zenon
<1>3. ASSUME NEW b \in Batches, RecordSubmission(b) PROVE Ledger!Record(b)
  <2>1. /\ chain[b] \in Known /\ status[b] = "none" /\ chain' = chain
        /\ status' = [status EXCEPT ![b] = "pending"]
        /\ claim' = "submitted" /\ events' = events
    BY <1>3 DEF RecordSubmission, envVars
  <2>2. Fate(chain[b]) \notin {"unsent", "replaced"}
    BY <2>1, SMT DEF Fate, Known, Mined
  <2> QED
    BY <2>1, <2>2, Zenon DEF Ledger!Record
<1>4. ASSUME NEW p \in Processes, Commit(p) PROVE Ledger!Settle(held[p], outcome[p])
  <2> DEFINE b == held[p]
             verdict == outcome[p]
  <2>1. /\ stage[p] = "commit" /\ b \in Batches /\ verdict \in Terminal
        /\ status' = [status EXCEPT ![b] = verdict] /\ claim' = aggregate[p]
        /\ events' = events \union {<<b, verdict>>} /\ chain' = chain
    BY <1>0, <1>4, SMT DEF Commit, View, envVars, LaneTypes, Settling
  <2>2. status[b] = "pending" /\ BornOut(verdict, chain[b])
    BY <2>1, SMT DEF LedgerInv, VerdictInv, OpenIsPending, ToldVerdictHolds, Open, Settling
  <2>3. PICK rows : Seen(p, rows) /\ aggregate[p] = AggregateOf(rows)
    BY <2>1 DEF LedgerInv, CountsWereSeen
  <2>4. Ledger!BearsOut(Fate(chain[b]), verdict)
    BY <1>0, <2>1, <2>2, FateOf
  <2>5. rows \in [Batches -> Ledger!Entries]
    BY <2>3, SMT DEF Seen, TransactionStatus, Terminal, Ledger!Entries
  <2>6. \A c \in Batches : Ledger!Was(rows[c], status'[c])
    <3>1. status'[b] = verdict /\ rows[b] = verdict
      BY <1>0, <2>1, <2>3, SMT DEF Seen
    <3>2. \A c \in Batches : c # b => status'[c] = status[c] /\ Ledger!Was(rows[c], status[c])
      BY <1>0, <2>1, <2>3, SMT DEF Seen
    <3> QED
      BY <3>1, <3>2, Zenon DEF Ledger!Was
  <2>7. Ledger!SaysOf(claim', rows)
    BY <2>1, <2>3, AggregateSays DEF Seen
  <2>8. rows[b] = verdict
    BY <2>3 DEF Seen
  <2> QED
    BY <2>1, <2>2, <2>4, <2>5, <2>6, <2>7, <2>8, Zenon DEF Ledger!Settle
<1>5. ASSUME UNCHANGED <<chain, status, claim, events>> PROVE UNCHANGED Ledger!vars
  BY <1>5, Zenon DEF Ledger!vars
<1>6. \/ \E b \in Batches : Broadcast(b) \/ ChainMoves(b) \/ RecordSubmission(b)
      \/ \E p \in Processes : Commit(p)
      \/ UNCHANGED <<chain, status, claim, events>>
  BY Zenon DEF Next, Work, Fault, Time, LeaseNext, ReadReceipt, LookUp, CountNonce, SettleRow,
               ReadTotals, Defer, CallFails, Crash, LeaseExpires, DelayElapses, PlanExpires, Calm,
               envVars, rowVars, vars
<1>7. \A p \in Processes : stage[p] = "commit" => held[p] \in Batches /\ outcome[p] \in Terminal
  BY <1>0, SMT DEF LaneTypes, Settling
<1>8. ASSUME NEW p \in Processes, Commit(p) PROVE Ledger!Next
  <2>1. held[p] \in Batches /\ outcome[p] \in {"confirmed", "failed", "superseded"}
    BY <1>7, <1>8 DEF Commit, Terminal
  <2>2. Ledger!Settle(held[p], outcome[p])
    BY <1>4, <1>8
  <2> QED
    BY <2>1, <2>2, Zenon DEF Ledger!Next
<1> QED
  BY <1>1, <1>2, <1>3, <1>5, <1>6, <1>8, Zenon DEF Ledger!Next

(* However many workers read, repeat, defer and lose what they do, the     *)
(* repository is a ledger: one verdict for a batch, borne out by the chain *)
(* and announced as it is written, and a claim that says what its rows     *)
(* say, or said when they were counted.                                    *)
THEOREM ClaimImplementsClaimLedger == Spec => ImplementsClaimLedger
<1>1. Init => Ledger!Init
  BY SMT DEF Init, Ledger!Init, Fate
<1> QED
  BY <1>1, LedgerAlways, LedgerSimulation, PTL DEF Spec, ImplementsClaimLedger, Ledger!Spec
=============================================================================
