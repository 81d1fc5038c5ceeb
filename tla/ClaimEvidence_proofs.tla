------------------------ MODULE ClaimEvidence_proofs ------------------------
(***************************************************************************)
(* Proofs about ClaimEvidence for any number of markets, rows, blocks and  *)
(* moves, any batch size and any chains to start from.                     *)
(***************************************************************************)
EXTENDS ClaimEvidence, SumTheorems

USE EvidenceAssumption

-----------------------------------------------------------------------------
(* Redemptions.                                                            *)

CallRecords == [position : Positions, amount : Nat]

(* The calls of a transaction: at most one for a position. *)
CallSet(calls) ==
    /\ IsFiniteSet(calls) /\ calls \subseteq CallRecords
    /\ \A c, d \in calls : c.position = d.position => c = d

LEMMA PositionType ==
  ASSUME NEW pos \in Positions
  PROVE  pos[1] \in Markets /\ pos[2] \in {0, 1}
<1>1. PICK r \in Rows : pos = RowOf[r]
  BY DEF Positions
<1>2. RowOf[r] \in Markets \X {0, 1}
  OBVIOUS
<1> QED
  BY <1>1, <1>2

LEMMA HalfType == ASSUME NEW n \in Nat PROVE n \div 2 \in Nat
  OBVIOUS

LEMMA PayType ==
  ASSUME result \in [Markets -> Results], NEW pos \in Positions, Finalized(pos[1]),
         NEW amount \in Nat
  PROVE  CalculatePayout(pos, amount) \in Nat
<1>1. result[pos[1]] \in {"first", "second", "void"}
  BY PositionType DEF Finalized, Results
<1>2. pos[2] + 1 \in {1, 2}
  BY PositionType
<1>3. Numerators[result[pos[1]]][pos[2] + 1] \in {0, 1, 2}
  <2>1. /\ Numerators["first"] = <<2, 0>>
        /\ Numerators["second"] = <<0, 2>>
        /\ Numerators["void"] = <<1, 1>>
    BY DEF Numerators, Results
  <2> QED
    BY <1>1, <1>2, <2>1
<1>4. amount * Numerators[result[pos[1]]][pos[2] + 1] \in Nat
  BY <1>3
<1> QED
  BY <1>4, HalfType DEF CalculatePayout, Denominator

LEMMA ContractPaysPlanned ==
  ASSUME NEW c
  PROVE  ContractPays(c) = CalculatePayout(c.position, c.amount)
  BY DEF ContractPays, CalculatePayout

(* Sums of the model in terms of SumTheorems. *)
LEMMA SumOver ==
  ASSUME NEW v
  PROVE  SumFunction(v) = SumFunctionOnSet(v, DOMAIN v)
  BY DEF SumFunction

LEMMA PaidFromType ==
  ASSUME result \in [Markets -> Results], NEW calls, CallSet(calls), NEW m, Finalized(m)
  PROVE  PaidFrom(m, calls) \in Nat
<1> DEFINE X == {c \in calls : c.position[1] = m}
           v == [c \in X |-> ContractPays(c)]
<1>1. IsFiniteSet(X)
  BY FS_Subset DEF CallSet
<1>2. \A c \in X : v[c] \in Nat
  <2>1. ASSUME NEW c \in X PROVE ContractPays(c) \in Nat
    <3>1. c.position \in Positions /\ c.amount \in Nat /\ Finalized(c.position[1])
      BY DEF CallSet, CallRecords
    <3> QED
      BY <3>1, PayType, ContractPaysPlanned
  <2> QED
    BY <2>1
<1>3. SumFunctionOnSet(v, X) \in Nat
  <2> HIDE DEF X, v
  <2> QED
    BY <1>1, <1>2, SumType
<1> QED
  BY <1>3, SumOver DEF PaidFrom

(* A position is burned by its call, and by no other.                      *)
LEMMA BurnedOfCall ==
  ASSUME NEW calls, CallSet(calls), NEW c \in calls
  PROVE  Burned(calls, c.position) = c.amount
<1> DEFINE X == {d \in calls : d.position = c.position}
           v == [d \in X |-> d.amount]
<1>1. X = {c}
  BY DEF CallSet
<1>2. v[c] = c.amount /\ c.amount \in Nat
  BY <1>1 DEF CallSet, CallRecords
<1>3. SumFunctionOnSet(v, {c}) = v[c]
  <2> HIDE DEF v
  <2> QED
    BY <1>2, SumSingleton
<1> QED
  BY <1>1, <1>2, <1>3, SumOver DEF Burned

LEMMA BurnedOfOther ==
  ASSUME NEW calls, NEW pos, \A c \in calls : c.position # pos
  PROVE  Burned(calls, pos) = 0
<1> DEFINE X == {d \in calls : d.position = pos}
           v == [d \in X |-> d.amount]
<1>1. X = {} /\ DOMAIN v = X
  OBVIOUS
<1> HIDE DEF X, v
<1>2. SumFunction(v) = 0
  BY <1>1, SumEmpty, SumOver
<1> QED
  BY <1>2 DEF Burned, X, v

(* What redeemMany does to the balances and the backings.                  *)
LEMMA ExecutedState ==
  ASSUME result \in [Markets -> Results], NEW calls, CallSet(calls),
         NEW state \in ChainStates, Executable(state, calls)
  PROVE  LET new == Executed(state, calls)
         IN  /\ new \in ChainStates
             /\ \A m \in Markets :
                   /\ new.backing[m] <= state.backing[m]
                   /\ Finalized(m) => new.backing[m] = state.backing[m] - PaidFrom(m, calls)
             /\ \A pos \in Positions : new.balance[pos] <= state.balance[pos]
             /\ \A c \in calls : new.balance[c.position] = state.balance[c.position] - c.amount
<1> DEFINE new == Executed(state, calls)
<1>0. state.balance \in [Positions -> Nat] /\ state.backing \in [Markets -> Nat]
  BY DEF ChainStates
<1>1. ASSUME NEW m \in Markets
      PROVE  /\ new.backing[m] \in Nat
             /\ new.backing[m] <= state.backing[m]
             /\ Finalized(m) => new.backing[m] = state.backing[m] - PaidFrom(m, calls)
  <2>1. new.backing[m] = state.backing[m] - IF Finalized(m) THEN PaidFrom(m, calls) ELSE 0
    BY DEF Executed
  <2>2. Finalized(m) => PaidFrom(m, calls) \in Nat /\ PaidFrom(m, calls) <= state.backing[m]
    BY PaidFromType DEF Executable
  <2>3. state.backing[m] \in Nat
    BY <1>0
  <2> HIDE DEF new
  <2>4. CASE Finalized(m)
    <3>1. new.backing[m] = state.backing[m] - PaidFrom(m, calls)
      BY <2>1, <2>4, Zenon
    <3> QED
      BY <2>2, <2>3, <2>4, <3>1
  <2>5. CASE ~Finalized(m)
    <3>1. new.backing[m] = state.backing[m] - 0
      BY <2>1, <2>5, Zenon
    <3> QED
      BY <2>3, <2>5, <3>1
  <2> QED
    BY <2>4, <2>5
<1>2. ASSUME NEW pos \in Positions
      PROVE  /\ new.balance[pos] \in Nat
             /\ new.balance[pos] <= state.balance[pos]
             /\ \A c \in calls : c.position = pos => new.balance[pos] = state.balance[pos] - c.amount
  <2>1. new.balance[pos] = state.balance[pos] - Burned(calls, pos)
    BY DEF Executed
  <2>2. CASE \E c \in calls : c.position = pos
    <3>1. PICK c \in calls : c.position = pos
      BY <2>2
    <3>2. /\ Burned(calls, pos) = c.amount /\ c.amount \in Nat
          /\ state.balance[pos] >= c.amount
      BY <3>1, BurnedOfCall DEF Executable, CallSet, CallRecords
    <3>3. \A d \in calls : d.position = pos => d = c
      BY <3>1 DEF CallSet
    <3> QED
      BY <1>0, <2>1, <3>2, <3>3
  <2>3. CASE \A c \in calls : c.position # pos
    <3>1. Burned(calls, pos) = 0
      BY <2>3, BurnedOfOther
    <3> QED
      BY <1>0, <2>1, <2>3, <3>1
  <2> QED
    BY <2>2, <2>3
<1>3. new \in ChainStates
  <2>1. /\ new = [balance |-> new.balance, backing |-> new.backing]
        /\ new.balance = [pos \in Positions |-> new.balance[pos]]
        /\ new.backing = [m \in Markets |-> new.backing[m]]
    BY DEF Executed
  <2> HIDE DEF new
  <2>2. new.balance \in [Positions -> Nat] /\ new.backing \in [Markets -> Nat]
    BY <1>1, <1>2, <2>1
  <2> QED
    BY <2>1, <2>2 DEF ChainStates
<1>4. \A c \in calls : c.position \in Positions
  BY DEF CallSet, CallRecords
<1> QED
  BY <1>1, <1>2, <1>3, <1>4

-----------------------------------------------------------------------------
(* The chain: a market only pays out, and a balance the owner leaves alone *)
(* only falls, by the amount of each redemption at least.                  *)

(* The state after a block, the one being built included. *)
At(k) == IF k <= Len(blocks) THEN blocks[k] ELSE building

Built == 1 .. Len(blocks) + 1

Receipts == [calls : SUBSET CallRecords, batch : Nat, ok : BOOLEAN, block : Nat]

ChainTyped ==
    /\ result \in [Markets -> Results]
    /\ blocks \in Seq(ChainStates) /\ Len(blocks) \in 1 .. MaxBlocks
    /\ building \in ChainStates
    /\ traded \in [Positions -> 0 .. Len(blocks) + 1]
    /\ moves \in 0 .. MaxMoves
    /\ receipts \subseteq Receipts
    /\ \A t \in receipts : t.block \in 2 .. Len(blocks) + 1 /\ CallSet(t.calls)

Falls ==
    \A i, j \in Built :
        i <= j =>
           /\ \A m \in Markets : At(j).backing[m] <= At(i).backing[m]
           /\ \A pos \in Positions :
                 traded[pos] <= i => At(j).balance[pos] <= At(i).balance[pos]

(* What a successful redemption leaves behind. *)
Paid(t) ==
    \A i, j \in Built :
        i < t.block /\ t.block <= j =>
           /\ \A m \in Markets :
                 Finalized(m) => At(j).backing[m] <= At(i).backing[m] - PaidFrom(m, t.calls)
           /\ \A c \in t.calls :
                 traded[c.position] <= i
                    => At(j).balance[c.position] <= At(i).balance[c.position] - c.amount

ChainInv == ChainTyped /\ Falls /\ \A t \in receipts : t.ok => Paid(t)

LEMMA AtType ==
  ASSUME ChainTyped, NEW k \in Built
  PROVE  /\ At(k) \in ChainStates
         /\ \A m \in Markets : At(k).backing[m] \in Nat
         /\ \A pos \in Positions : At(k).balance[pos] \in Nat
<1>1. At(k) \in ChainStates
  BY DEF At, Built, ChainTyped
<1> QED
  BY <1>1 DEF ChainStates

LEMMA PaysTheSame ==
  ASSUME UNCHANGED result
  PROVE  /\ \A m : Finalized(m)' <=> Finalized(m)
         /\ \A m, calls : PaidFrom(m, calls)' = PaidFrom(m, calls)
         /\ \A pos, amount : CalculatePayout(pos, amount)' = CalculatePayout(pos, amount)
  BY Zenon DEF Finalized, PaidFrom, ContractPays, CalculatePayout

(* A step inside a block. *)
Inside ==
    /\ UNCHANGED <<result, blocks>>
    /\ building' \in ChainStates
    /\ \A m \in Markets : building'.backing[m] <= building.backing[m]
    /\ traded' \in [Positions -> 0 .. Len(blocks) + 1]
    /\ \A pos \in Positions :
          \/ traded'[pos] = traded[pos] /\ building'.balance[pos] <= building.balance[pos]
          \/ traded'[pos] = Len(blocks) + 1

LEMMA InsideAt ==
  ASSUME ChainTyped, Inside
  PROVE  /\ Built' = Built
         /\ \A k \in Built : At(k)' = IF k <= Len(blocks) THEN At(k) ELSE building'
         /\ At(Len(blocks) + 1) = building
  BY DEF Inside, At, Built, ChainTyped

LEMMA InsideFalls ==
  ASSUME ChainTyped, Falls, Inside
  PROVE  Falls'
<1> SUFFICES ASSUME NEW i \in Built, NEW j \in Built, i <= j
             PROVE  /\ \A m \in Markets : At(j)'.backing[m] <= At(i)'.backing[m]
                    /\ \A pos \in Positions :
                          traded'[pos] <= i => At(j)'.balance[pos] <= At(i)'.balance[pos]
  BY InsideAt, Zenon DEF Falls
<1>0. Len(blocks) \in Nat /\ i \in Nat /\ j \in Nat
  BY DEF ChainTyped, Built
<1>1. CASE j <= Len(blocks)
  <2>1. At(i)' = At(i) /\ At(j)' = At(j)
    BY <1>0, <1>1, InsideAt
  <2>2. ASSUME NEW pos \in Positions, traded'[pos] <= i PROVE traded[pos] <= i
    BY <1>0, <1>1, <2>2 DEF Inside
  <2> QED
    BY <2>1, <2>2 DEF Falls
<1>2. CASE ~(j <= Len(blocks))
  <2>1. j = Len(blocks) + 1 /\ At(j)' = building' /\ At(j) = building
    BY <1>0, <1>2, InsideAt DEF Built
  <2>2. CASE i <= Len(blocks)
    <3>1. At(i)' = At(i)
      BY <2>2, InsideAt
    <3>2. ASSUME NEW m \in Markets PROVE building'.backing[m] <= At(i).backing[m]
      <4>1. /\ building'.backing[m] \in Nat /\ building.backing[m] \in Nat /\ At(i).backing[m] \in Nat
        BY AtType DEF Inside, ChainTyped, ChainStates
      <4>2. building.backing[m] <= At(i).backing[m]
        BY <2>1 DEF Falls
      <4>3. building'.backing[m] <= building.backing[m]
        BY DEF Inside
      <4> QED
        BY <4>1, <4>2, <4>3
    <3>3. ASSUME NEW pos \in Positions, traded'[pos] <= i
          PROVE  building'.balance[pos] <= At(i).balance[pos]
      <4>1. /\ building'.balance[pos] \in Nat /\ building.balance[pos] \in Nat /\ At(i).balance[pos] \in Nat
        BY AtType DEF Inside, ChainTyped, ChainStates
      <4>2. traded'[pos] = traded[pos] /\ building'.balance[pos] <= building.balance[pos]
        BY <1>0, <2>2, <3>3 DEF Inside
      <4>3. building.balance[pos] <= At(i).balance[pos]
        BY <2>1, <3>3, <4>2 DEF Falls
      <4> QED
        BY <4>1, <4>2, <4>3
    <3> QED
      BY <2>1, <3>1, <3>2, <3>3
  <2>3. CASE ~(i <= Len(blocks))
    <3>1. i = j
      BY <1>0, <2>1, <2>3 DEF Built
    <3>2. \A m \in Markets : building'.backing[m] \in Nat
      BY DEF Inside, ChainStates
    <3>3. \A pos \in Positions : building'.balance[pos] \in Nat
      BY DEF Inside, ChainStates
    <3> QED
      BY <2>1, <3>1, <3>2, <3>3
  <2> QED
    BY <2>2, <2>3
<1> QED
  BY <1>1, <1>2

(* A redemption of an earlier step stays paid. *)
LEMMA InsidePaid ==
  ASSUME ChainTyped, Inside, NEW t \in receipts, Paid(t)
  PROVE  Paid(t)'
<1>0. UNCHANGED result
  BY DEF Inside
<1> SUFFICES ASSUME NEW i \in Built, NEW j \in Built, i < t.block, t.block <= j
             PROVE  /\ \A m \in Markets :
                          Finalized(m) => At(j)'.backing[m] <= At(i)'.backing[m] - PaidFrom(m, t.calls)
                    /\ \A c \in t.calls :
                          traded'[c.position] <= i
                             => At(j)'.balance[c.position] <= At(i)'.balance[c.position] - c.amount
  BY <1>0, InsideAt, PaysTheSame, Zenon DEF Paid
<1>1. /\ Len(blocks) \in Nat /\ i \in Nat /\ j \in Nat /\ t.block \in Nat
      /\ t.block <= Len(blocks) + 1 /\ CallSet(t.calls)
  BY DEF ChainTyped, Built
<1>2. At(i)' = At(i)
  BY <1>1, InsideAt
<1>3. ASSUME NEW m \in Markets, Finalized(m)
      PROVE  At(j)'.backing[m] <= At(i).backing[m] - PaidFrom(m, t.calls)
  <2>1. At(j).backing[m] <= At(i).backing[m] - PaidFrom(m, t.calls)
    BY <1>3 DEF Paid
  <2>2. At(j)'.backing[m] <= At(j).backing[m] /\ At(j)'.backing[m] \in Nat
    <3>1. CASE j <= Len(blocks)
      <4>1. At(j)' = At(j)
        BY <3>1, InsideAt
      <4>2. At(j).backing[m] \in Nat
        BY AtType
      <4> QED
        BY <4>1, <4>2
    <3>2. CASE ~(j <= Len(blocks))
      <4>1. j = Len(blocks) + 1
        BY <1>1, <3>2 DEF Built
      <4> QED
        BY <3>2, <4>1, InsideAt DEF Inside, ChainStates
    <3> QED
      BY <3>1, <3>2
  <2>3. At(j).backing[m] \in Nat /\ At(i).backing[m] \in Nat /\ PaidFrom(m, t.calls) \in Nat
    <3>1. result \in [Markets -> Results]
      BY DEF ChainTyped
    <3> QED
      BY <1>1, <1>3, <3>1, AtType, PaidFromType
  <2> QED
    BY <2>1, <2>2, <2>3
<1>4. ASSUME NEW c \in t.calls, traded'[c.position] <= i
      PROVE  At(j)'.balance[c.position] <= At(i).balance[c.position] - c.amount
  <2> DEFINE pos == c.position
  <2>0. pos \in Positions /\ c.amount \in Nat
    BY <1>1 DEF CallSet, CallRecords
  <2> HIDE DEF pos
  <2>1. traded'[pos] = traded[pos] /\ building'.balance[pos] <= building.balance[pos]
    BY <1>1, <1>4, <2>0 DEF Inside, pos
  <2>2. At(j).balance[pos] <= At(i).balance[pos] - c.amount
    BY <1>4, <2>1 DEF Paid, pos
  <2>3. At(j)'.balance[pos] <= At(j).balance[pos] /\ At(j)'.balance[pos] \in Nat
    <3>1. CASE j <= Len(blocks)
      BY <2>0, <3>1, InsideAt, AtType
    <3>2. CASE ~(j <= Len(blocks))
      <4>1. j = Len(blocks) + 1
        BY <1>1, <3>2 DEF Built
      <4> QED
        BY <2>0, <2>1, <3>2, <4>1, InsideAt DEF Inside, ChainStates
    <3> QED
      BY <3>1, <3>2
  <2>4. At(j).balance[pos] \in Nat /\ At(i).balance[pos] \in Nat
    BY <2>0, AtType
  <2> QED
    BY <2>0, <2>2, <2>3, <2>4 DEF pos
<1> QED
  BY <1>2, <1>3, <1>4

(* A block is closed: the next one begins with the state it left.          *)
LEMMA CloseBlockStep == ChainInv /\ CloseBlock => ChainInv'
<1> SUFFICES ASSUME ChainInv, CloseBlock PROVE ChainInv'
  OBVIOUS
<1>0. ChainTyped /\ Falls /\ \A t \in receipts : t.ok => Paid(t)
  BY DEF ChainInv
<1>1. /\ blocks' = Append(blocks, building) /\ Len(blocks) < MaxBlocks
      /\ UNCHANGED <<result, building, traded, moves, receipts>>
  BY Zenon DEF CloseBlock
<1>2. /\ blocks' \in Seq(ChainStates) /\ Len(blocks') = Len(blocks) + 1
      /\ Len(blocks) \in Nat
      /\ \A k \in 1 .. Len(blocks) : blocks'[k] = blocks[k]
      /\ blocks'[Len(blocks) + 1] = building
  BY <1>0, <1>1 DEF ChainTyped
<1> DEFINE N == Len(blocks) + 1
           Then(k) == IF k <= N THEN k ELSE N
<1>3. ASSUME NEW k \in Built' PROVE At(k)' = At(Then(k)) /\ Then(k) \in Built /\ Then(k) <= k
  BY <1>1, <1>2 DEF At, Built
<1>4. \A i, j \in Built' : i <= j => Then(i) <= Then(j)
  BY <1>2 DEF Built
<1>5. ChainTyped'
  BY <1>0, <1>1, <1>2 DEF ChainTyped
<1> HIDE DEF Then
<1>6. Falls'
  <2> SUFFICES ASSUME NEW i \in Built', NEW j \in Built', i <= j
               PROVE  /\ \A m \in Markets : At(j)'.backing[m] <= At(i)'.backing[m]
                      /\ \A pos \in Positions :
                            traded[pos] <= i => At(j)'.balance[pos] <= At(i)'.balance[pos]
    BY <1>1, Zenon DEF Falls
  <2>1. /\ At(i)' = At(Then(i)) /\ At(j)' = At(Then(j))
        /\ Then(i) \in Built /\ Then(j) \in Built /\ Then(i) <= Then(j)
    BY <1>3, <1>4
  <2>2. ASSUME NEW pos \in Positions, traded[pos] <= i PROVE traded[pos] <= Then(i)
    BY <1>0, <1>2, <2>2 DEF ChainTyped, Then, Built
  <2> QED
    BY <1>0, <2>1, <2>2 DEF Falls
<1>7. ASSUME NEW t \in receipts', t.ok PROVE Paid(t)'
  <2>0. t \in receipts /\ Paid(t) /\ t.block \in 2 .. N /\ CallSet(t.calls)
    BY <1>0, <1>1, <1>7 DEF ChainTyped
  <2> SUFFICES ASSUME NEW i \in Built', NEW j \in Built', i < t.block, t.block <= j
               PROVE  /\ \A m \in Markets :
                            Finalized(m) => At(j)'.backing[m] <= At(i)'.backing[m] - PaidFrom(m, t.calls)
                      /\ \A c \in t.calls :
                            traded[c.position] <= i
                               => At(j)'.balance[c.position] <= At(i)'.balance[c.position] - c.amount
    BY <1>1, PaysTheSame, Zenon DEF Paid
  <2>1. /\ At(i)' = At(Then(i)) /\ At(j)' = At(Then(j))
        /\ Then(i) \in Built /\ Then(j) \in Built
    BY <1>3
  <2>2. Then(i) = i /\ Then(i) < t.block /\ t.block <= Then(j)
    BY <1>2, <2>0 DEF Then, Built
  <2> QED
    BY <2>0, <2>1, <2>2 DEF Paid
<1> QED
  BY <1>1, <1>5, <1>6, <1>7 DEF ChainInv

(* Transactions: what is mined is recorded and, if it succeeds, paid.      *)
LEMMA MineStep ==
  ASSUME ChainInv, NEW calls, CallSet(calls), NEW batch \in Nat, MineCalls(calls, batch),
         UNCHANGED <<result, blocks, traded>>, moves' \in 0 .. MaxMoves
  PROVE  ChainInv'
<1>0. ChainTyped /\ Falls /\ \A t \in receipts : t.ok => Paid(t)
  BY DEF ChainInv
<1> DEFINE ok == Executable(building, calls)
           new == [calls |-> calls, batch |-> batch, ok |-> ok, block |-> Len(blocks) + 1]
<1>1. /\ receipts' = receipts \union {new}
      /\ building' = IF ok THEN Executed(building, calls) ELSE building
  BY Zenon DEF MineCalls
<1>2. ok \in BOOLEAN
  BY Zenon DEF Executable
<1>3. result \in [Markets -> Results] /\ building \in ChainStates /\ Len(blocks) \in Nat \ {0}
  BY <1>0 DEF ChainTyped
<1>4. Inside
  <2>1. CASE ok
    <3>1. building' = Executed(building, calls)
      BY <1>1, <2>1
    <3> QED
      BY <1>0, <1>3, <2>1, <3>1, ExecutedState DEF Inside, ChainTyped
  <2>2. CASE ~ok
    <3>1. building' = building
      BY <1>1, <2>2, Zenon
    <3> QED
      BY <1>0, <1>3, <3>1 DEF Inside, ChainTyped, ChainStates
  <2> QED
    BY <2>1, <2>2
<1>5. Falls'
  BY <1>0, <1>4, InsideFalls
<1>6. \A t \in receipts : t.ok => Paid(t)'
  BY <1>0, <1>4, InsidePaid
<1> HIDE DEF ok
<1>7. /\ new.calls = calls /\ new.ok = ok /\ new.block = Len(blocks) + 1
      /\ new \in Receipts
  <2>1. calls \in SUBSET CallRecords /\ Len(blocks) + 1 \in Nat
    BY <1>3 DEF CallSet
  <2> QED
    BY <1>2, <2>1, Zenon DEF Receipts
<1>8. ASSUME ok, NEW t, t.calls = calls, t.block = Len(blocks) + 1 PROVE Paid(t)'
  <2> SUFFICES ASSUME NEW i \in Built, NEW j \in Built, i < t.block, t.block <= j
               PROVE  /\ \A m \in Markets :
                            Finalized(m) => At(j)'.backing[m] <= At(i)'.backing[m] - PaidFrom(m, calls)
                      /\ \A c \in calls :
                            traded[c.position] <= i
                               => At(j)'.balance[c.position] <= At(i)'.balance[c.position] - c.amount
    <3>1. UNCHANGED result /\ Built' = Built
      BY <1>0, <1>4, InsideAt
    <3>2. /\ \A m : Finalized(m)' <=> Finalized(m)
          /\ \A m : PaidFrom(m, calls)' = PaidFrom(m, calls)
      BY <3>1, PaysTheSame
    <3> QED
      BY <1>8, <3>1, <3>2, Zenon DEF Paid
  <2>1. /\ i <= Len(blocks) /\ j = Len(blocks) + 1 /\ i <= j
    BY <1>3, <1>8 DEF Built
  <2>2. At(i)' = At(i) /\ At(j)' = building' /\ At(j) = building
    BY <1>0, <1>3, <1>4, <2>1, InsideAt
  <2>3. building' = Executed(building, calls)
    BY <1>1, <1>8
  <2>4. Executable(building, calls)
    BY <1>8 DEF ok
  <2>5. /\ \A m \in Markets :
              Finalized(m) => building'.backing[m] = building.backing[m] - PaidFrom(m, calls)
        /\ \A c \in calls :
              building'.balance[c.position] = building.balance[c.position] - c.amount
    BY <1>3, <2>3, <2>4, ExecutedState
  <2>6. ASSUME NEW m \in Markets, Finalized(m)
        PROVE  building'.backing[m] <= At(i).backing[m] - PaidFrom(m, calls)
    <3>1. building.backing[m] <= At(i).backing[m]
      BY <1>0, <2>1, <2>2 DEF Falls
    <3>2. /\ building.backing[m] \in Nat /\ At(i).backing[m] \in Nat
          /\ PaidFrom(m, calls) \in Nat
      BY <1>0, <1>3, <2>6, AtType, PaidFromType DEF ChainStates
    <3> QED
      BY <2>5, <2>6, <3>1, <3>2
  <2>7. ASSUME NEW c \in calls, traded[c.position] <= i
        PROVE  building'.balance[c.position] <= At(i).balance[c.position] - c.amount
    <3>0. c.position \in Positions /\ c.amount \in Nat
      BY DEF CallSet, CallRecords
    <3>1. building.balance[c.position] <= At(i).balance[c.position]
      BY <1>0, <2>1, <2>2, <2>7, <3>0 DEF Falls
    <3>2. building.balance[c.position] \in Nat /\ At(i).balance[c.position] \in Nat
      BY <1>0, <1>3, <3>0, AtType DEF ChainStates
    <3> QED
      BY <2>5, <3>0, <3>1, <3>2
  <2> QED
    BY <2>2, <2>6, <2>7
<1>9. ChainTyped'
  <2> HIDE DEF new
  <2>1. \A t \in receipts' : t \in Receipts /\ t.block \in 2 .. Len(blocks) + 1 /\ CallSet(t.calls)
    BY <1>0, <1>1, <1>3, <1>7 DEF ChainTyped
  <2>2. building' \in ChainStates
    BY <1>4 DEF Inside
  <2> QED
    BY <1>0, <2>1, <2>2 DEF ChainTyped, CallSet
<1>10. ASSUME NEW t \in receipts', t.ok PROVE Paid(t)'
  <2>1. CASE t = new
    BY <1>7, <1>8, <1>10, <2>1
  <2>2. CASE t # new
    BY <1>1, <1>6, <1>10, <2>2
  <2> QED
    BY <2>1, <2>2
<1> QED
  BY <1>5, <1>9, <1>10 DEF ChainInv

-----------------------------------------------------------------------------
(* Batches: entries have different positions, so their order is total, and *)
(* the slices of MaxEntries consecutive places are neither empty nor too   *)
(* long.                                                                   *)

EntryRecords ==
    [position : Positions, amount : Nat, verifiedBalance : Nat, backing : Nat, payout : Nat]

EntrySet(entries) ==
    /\ IsFiniteSet(entries) /\ entries \subseteq EntryRecords
    /\ \A e, f \in entries : e.position = f.position => e = f

LEMMA BeforeIsOrder ==
  ASSUME NEW entries, EntrySet(entries)
  PROVE  /\ \A e \in entries : ~Before(e, e)
         /\ \A e, f \in entries : e # f => Before(e, f) \/ Before(f, e)
         /\ \A e, f, g \in entries : Before(e, f) /\ Before(f, g) => Before(e, g)
<1>1. \A e \in entries : /\ e.position[1] \in Nat /\ e.position[2] \in {0, 1}
                          /\ e.position = <<e.position[1], e.position[2]>>
  <2>1. ASSUME NEW e \in entries
        PROVE  /\ e.position[1] \in Nat /\ e.position[2] \in {0, 1}
               /\ e.position = <<e.position[1], e.position[2]>>
    <3>1. e.position \in Positions
      BY DEF EntrySet, EntryRecords
    <3>2. PICK r \in Rows : e.position = RowOf[r]
      BY <3>1 DEF Positions
    <3>3. PICK p \in Markets \X {0, 1} : p = RowOf[r]
      OBVIOUS
    <3>4. p = <<p[1], p[2]>>
      OBVIOUS
    <3>5. p[1] \in Markets
      OBVIOUS
    <3>6. p[2] \in {0, 1}
      OBVIOUS
    <3> QED
      BY <3>2, <3>3, <3>4, <3>5, <3>6
  <2> QED
    BY <2>1
<1>2. \A e, f \in entries : e # f => e.position[1] # f.position[1] \/ e.position[2] # f.position[2]
  BY <1>1 DEF EntrySet
<1> QED
  BY <1>1, <1>2 DEF Before

LEMMA RankFacts ==
  ASSUME NEW entries, EntrySet(entries)
  PROVE  /\ Cardinality(entries) \in Nat
         /\ \A e \in entries : Rank(e, entries) \in 0 .. Cardinality(entries) - 1
         /\ \A e, f \in entries : Rank(e, entries) = Rank(f, entries) => e = f
<1> DEFINE Below(e) == {f \in entries : Before(f, e)}
<1>0. IsFiniteSet(entries) /\ Cardinality(entries) \in Nat
  BY FS_CardinalityType DEF EntrySet
<1>1. \A e \in entries : IsFiniteSet(Below(e)) /\ Cardinality(Below(e)) \in Nat
  BY <1>0, FS_Subset, FS_CardinalityType
<1>2. ASSUME NEW e \in entries PROVE Cardinality(Below(e)) < Cardinality(entries)
  <2>1. Below(e) \in SUBSET entries /\ e \notin Below(e)
    BY BeforeIsOrder
  <2>2. Below(e) # entries
    BY <2>1
  <2> HIDE DEF Below
  <2>3. Cardinality(Below(e)) <= Cardinality(entries) /\ Cardinality(Below(e)) # Cardinality(entries)
    BY <1>0, <2>1, <2>2, FS_Subset
  <2> QED
    BY <1>0, <1>1, <2>3
<1>3. ASSUME NEW e \in entries, NEW f \in entries, Before(e, f)
      PROVE  Cardinality(Below(e)) < Cardinality(Below(f))
  <2>1. Below(e) \in SUBSET Below(f)
    BY <1>3, BeforeIsOrder
  <2>2. e \in Below(f) /\ e \notin Below(e)
    BY <1>3, BeforeIsOrder
  <2> HIDE DEF Below
  <2>3. Cardinality(Below(e)) <= Cardinality(Below(f)) /\ Cardinality(Below(e)) # Cardinality(Below(f))
    BY <1>1, <2>1, <2>2, FS_Subset
  <2> QED
    BY <1>1, <2>3
<1>4. \A e \in entries : Rank(e, entries) = Cardinality(Below(e))
  BY DEF Rank
<1> HIDE DEF Below
<1>5. \A e \in entries : Rank(e, entries) \in 0 .. Cardinality(entries) - 1
  BY <1>0, <1>1, <1>2, <1>4
<1>6. ASSUME NEW e \in entries, NEW f \in entries, Rank(e, entries) = Rank(f, entries), e # f
      PROVE  FALSE
  <2>1. Before(e, f) \/ Before(f, e)
    BY <1>6, BeforeIsOrder
  <2> QED
    BY <1>1, <1>3, <1>4, <1>6, <2>1
<1> QED
  BY <1>0, <1>5, <1>6

(* Every place is taken. *)
LEMMA RankIsOnto ==
  ASSUME NEW entries, EntrySet(entries), NEW k \in 0 .. Cardinality(entries) - 1
  PROVE  \E e \in entries : Rank(e, entries) = k
<1> DEFINE T == 0 .. Cardinality(entries) - 1
           rank == [e \in entries |-> Rank(e, entries)]
<1>1. rank \in Injection(entries, T)
  BY RankFacts DEF Injection, IsInjective
<1>2. IsFiniteSet(T) /\ Cardinality(T) = Cardinality(entries)
  BY RankFacts, FS_Interval
<1>3. rank \in Surjection(entries, T)
  <2> HIDE DEF T, rank
  <2> QED
    BY <1>1, <1>2, FS_Injection
<1> QED
  BY <1>3 DEF Surjection

LEMMA BatchCountBound ==
  ASSUME NEW n \in Nat, NEW k \in 1 .. (n + MaxEntries - 1) \div MaxEntries
  PROVE  (k - 1) * MaxEntries \in 0 .. n - 1
<1> DEFINE q == (n + MaxEntries - 1) \div MaxEntries
<1>1. q \in Int /\ q * MaxEntries <= n + MaxEntries - 1
  OBVIOUS
<1>2. k \in Nat \ {0} /\ k <= q
  BY <1>1
<1> HIDE DEF q
<1>3. k * MaxEntries <= q * MaxEntries
  BY <1>1, <1>2
<1>4. (k - 1) * MaxEntries = k * MaxEntries - MaxEntries
  BY <1>2
<1>5. (k - 1) * MaxEntries \in Nat
  BY <1>2
<1> QED
  BY <1>1, <1>2, <1>3, <1>4, <1>5

LEMMA BatchesSound ==
  ASSUME NEW entries, EntrySet(entries)
  PROVE  /\ CreateBatches(entries) \in Seq(SUBSET entries)
         /\ \A k \in DOMAIN CreateBatches(entries) :
               /\ IsFiniteSet(CreateBatches(entries)[k])
               /\ Cardinality(CreateBatches(entries)[k]) \in 1 .. MaxEntries
<1> DEFINE n == Cardinality(entries)
           Batch(k) == {e \in entries :
                           Rank(e, entries) \in (k - 1) * MaxEntries .. k * MaxEntries - 1}
<1>0. n \in Nat
  BY RankFacts
<1>1. BatchCount(entries) \in Nat
  BY <1>0 DEF BatchCount
<1>2. CreateBatches(entries) = [k \in 1 .. BatchCount(entries) |-> Batch(k)]
  BY DEF CreateBatches
<1>3. ASSUME NEW k \in 1 .. BatchCount(entries)
      PROVE  IsFiniteSet(Batch(k)) /\ Cardinality(Batch(k)) \in 1 .. MaxEntries
  <2> DEFINE low == (k - 1) * MaxEntries
             T == low .. k * MaxEntries - 1
             rank == [e \in Batch(k) |-> Rank(e, entries)]
  <2>1. low \in 0 .. n - 1
    <3> HIDE DEF n
    <3> QED
      BY <1>0, BatchCountBound DEF BatchCount, n
  <2>2. k * MaxEntries = low + MaxEntries /\ k * MaxEntries \in Nat
    BY <1>1
  <2>3. rank \in Injection(Batch(k), T)
    BY RankFacts DEF Injection, IsInjective
  <2>4. IsFiniteSet(T) /\ Cardinality(T) = MaxEntries
    <3> HIDE DEF low
    <3> QED
      BY <2>1, <2>2, FS_Interval
  <2>5. IsFiniteSet(Batch(k)) /\ Cardinality(Batch(k)) <= MaxEntries
    <3> HIDE DEF T, rank, Batch
    <3> QED
      BY <2>3, <2>4, FS_Injection
  <2>6. Batch(k) # {}
    <3>1. PICK e \in entries : Rank(e, entries) = low
      <4> HIDE DEF low
      <4> QED
        BY <2>1, RankIsOnto
    <3> HIDE DEF low
    <3>2. low \in low .. k * MaxEntries - 1
      BY <2>1, <2>2
    <3>3. low = (k - 1) * MaxEntries
      BY DEF low
    <3>4. e \in Batch(k)
      BY <3>1, <3>2, <3>3, Zenon
    <3> QED
      BY <3>4
  <2> HIDE DEF Batch
  <2> QED
    BY <2>5, <2>6, FS_EmptySet, FS_CardinalityType
<1>4. \A k \in 1 .. BatchCount(entries) : Batch(k) \in SUBSET entries
  OBVIOUS
<1> HIDE DEF Batch
<1>5. CreateBatches(entries) \in Seq(SUBSET entries)
  BY <1>1, <1>2, <1>4
<1> QED
  BY <1>2, <1>3, <1>5

-----------------------------------------------------------------------------
(* The plan: what its entries say is what was read of the chain.           *)

ScanInv ==
    /\ stage \in Stage
    /\ indexed \in [Rows -> Nat]
    /\ settlementRead \in [Markets -> 0 .. Len(blocks)]
    /\ balanceRead \in [Rows -> 0 .. Len(blocks)]
    /\ \A r \in Rows :
          balanceRead[r] > 0 => settlementRead[RowOf[r][1]] \in 1 .. balanceRead[r]

(* The whole balance of a position goes into its entry. *)
ReadEntry(e) ==
    /\ e \in EntryRecords
    /\ Finalized(e.position[1])
    /\ e.amount = e.verifiedBalance
    /\ e.payout = CalculatePayout(e.position, e.amount) /\ e.payout > 0
    /\ settlementRead[e.position[1]] \in 1 .. Len(blocks)
    /\ e.backing = SettlementBacking(e.position[1])
    /\ \E r \in Listed :
          /\ RowOf[r] = e.position
          /\ balanceRead[r] \in settlementRead[e.position[1]] .. Len(blocks)
          /\ VerifiedBalance(r) = e.verifiedBalance

LEMMA RowPosition ==
  ASSUME NEW r \in Rows
  PROVE  RowOf[r] \in Positions /\ RowOf[r][1] \in Markets
<1>1. RowOf[r] \in Positions
  BY DEF Positions
<1> QED
  BY <1>1, PositionType

LEMMA ReadTypes ==
  ASSUME ChainTyped, ScanInv
  PROVE  /\ \A r \in Rows : balanceRead[r] > 0 => VerifiedBalance(r) \in Nat
         /\ \A m \in Markets : settlementRead[m] > 0 => SettlementBacking(m) \in Nat
<1>1. Len(blocks) \in Nat /\ \A k \in 1 .. Len(blocks) : blocks[k] \in ChainStates
  BY DEF ChainTyped
<1>2. ASSUME NEW r \in Rows, balanceRead[r] > 0 PROVE VerifiedBalance(r) \in Nat
  <2>1. balanceRead[r] \in 1 .. Len(blocks)
    BY <1>1, <1>2 DEF ScanInv
  <2>2. blocks[balanceRead[r]] \in ChainStates
    BY <1>1, <2>1
  <2> QED
    BY <2>2, RowPosition DEF VerifiedBalance, ChainStates
<1>3. ASSUME NEW m \in Markets, settlementRead[m] > 0 PROVE SettlementBacking(m) \in Nat
  <2>1. settlementRead[m] \in 1 .. Len(blocks)
    BY <1>1, <1>3 DEF ScanInv
  <2>2. blocks[settlementRead[m]] \in ChainStates
    BY <1>1, <2>1
  <2> QED
    BY <2>2 DEF SettlementBacking, ChainStates
<1> QED
  BY <1>2, <1>3

(* An entry passes only if all the rows of its position agree about one    *)
(* balance and do not add up to more: it takes that balance.               *)
LEMMA SoundGroup ==
  ASSUME ChainTyped, ScanInv, \A r \in Listed : balanceRead[r] > 0,
         NEW venue, NEW pos, NEW r \in Group(venue, pos), Sound(Group(venue, pos))
  PROVE  /\ Max(Balances(Group(venue, pos))) = VerifiedBalance(r)
         /\ Amount(Group(venue, pos)) = VerifiedBalance(r)
<1> DEFINE group == Group(venue, pos)
           v == [q \in group |-> VerifiedBalance(q)]
<1>1. group \subseteq Listed /\ group \subseteq Rows
  BY DEF Group, Eligible, Assessments, Listed
<1>2. \A q \in group : VerifiedBalance(q) \in Nat
  BY <1>1, ReadTypes
<1>3. IsFiniteSet(group)
  BY <1>1, FS_Subset
<1>4. Amount(group) = SumFunctionOnSet(v, group)
  BY SumOver DEF Amount
<1> HIDE DEF group
<1>5. VerifiedBalance(r) <= Amount(group) /\ Amount(group) \in Nat
  <2>1. \A q \in group : v[q] \in Nat
    BY <1>2
  <2>2. r \in group /\ v[r] = VerifiedBalance(r)
    BY DEF group
  <2> HIDE DEF v
  <2> QED
    BY <1>3, <1>4, <2>1, <2>2, SumAtLeastElement, SumType
<1>6. Balances(group) = {VerifiedBalance(r)}
  <2>1. VerifiedBalance(r) \in Balances(group)
    BY DEF Balances, group
  <2>2. IsFiniteSet(Balances(group))
    <3>1. v \in Surjection(group, Balances(group))
      BY DEF Balances, Surjection
    <3> HIDE DEF v
    <3> QED
      BY <1>3, <3>1, FS_Surjection
  <2>3. Cardinality(Balances(group)) = 1
    BY DEF Sound, group
  <2>4. PICK x : Balances(group) = {x}
    BY <2>2, <2>3, FS_Singleton, Zenon
  <2> QED
    BY <2>1, <2>4
<1>7. Max(Balances(group)) = VerifiedBalance(r)
  <2>1. VerifiedBalance(r) \in Nat
    BY <1>2 DEF group
  <2> QED
    BY <1>6, <2>1 DEF Max
<1>8. Amount(group) <= VerifiedBalance(r)
  BY <1>7 DEF Sound, group
<1>9. Amount(group) = VerifiedBalance(r)
  <2>1. VerifiedBalance(r) \in Nat
    BY <1>2 DEF group
  <2> QED
    BY <1>5, <1>8, <2>1
<1> QED
  BY <1>7, <1>9 DEF group

LEMMA EntriesSound ==
  ASSUME ChainTyped, ScanInv, \A r \in Listed : balanceRead[r] > 0, NEW venue
  PROVE  EntrySet(Entries(venue)) /\ \A e \in Entries(venue) : ReadEntry(e)
<1>1. ASSUME NEW e \in Entries(venue)
      PROVE  e = CreateEntry(venue, e.position) /\ ReadEntry(e)
  <2>1. PICK r \in Eligible(venue) : e = CreateEntry(venue, RowOf[r])
    BY DEF Entries, Created
  <2> DEFINE pos == RowOf[r]
  <2>2. e.position = pos
    BY <2>1 DEF CreateEntry
  <2>3. r \in Listed /\ r \in Rows /\ Finalized(pos[1]) /\ r \in Group(venue, pos)
    BY DEF Eligible, Assessments, Listed, Group
  <2>4. pos \in Positions /\ pos[1] \in Markets
    BY <2>3, RowPosition
  <2>5. Sound(Group(venue, pos)) /\ e.payout > 0
    BY <2>2 DEF Entries
  <2> HIDE DEF pos
  <2>6. /\ Max(Balances(Group(venue, pos))) = VerifiedBalance(r)
        /\ Amount(Group(venue, pos)) = VerifiedBalance(r)
    BY <2>3, <2>5, SoundGroup
  <2>7. e = [position |-> pos, amount |-> VerifiedBalance(r),
             verifiedBalance |-> VerifiedBalance(r),
             backing |-> SettlementBacking(pos[1]),
             payout |-> CalculatePayout(pos, VerifiedBalance(r))]
    BY <2>1, <2>6, Zenon DEF CreateEntry, pos
  <2>8. /\ Len(blocks) \in Nat /\ balanceRead[r] \in 1 .. Len(blocks)
        /\ settlementRead[pos[1]] \in 1 .. balanceRead[r]
    BY <2>3 DEF ChainTyped, ScanInv, pos
  <2>9. VerifiedBalance(r) \in Nat /\ SettlementBacking(pos[1]) \in Nat
    <3>1. balanceRead[r] > 0 /\ settlementRead[pos[1]] > 0
      BY <2>8
    <3> QED
      BY <2>3, <2>4, <3>1, ReadTypes
  <2>10. CalculatePayout(pos, VerifiedBalance(r)) \in Nat
    BY <2>3, <2>4, <2>9, PayType DEF ChainTyped
  <2>11. e \in EntryRecords
    BY <2>4, <2>7, <2>9, <2>10 DEF EntryRecords
  <2>12. /\ balanceRead[r] \in settlementRead[pos[1]] .. Len(blocks)
         /\ settlementRead[pos[1]] \in 1 .. Len(blocks)
    BY <2>8
  <2>13. ReadEntry(e)
    <3>1. /\ e.amount = VerifiedBalance(r) /\ e.verifiedBalance = VerifiedBalance(r)
          /\ e.backing = SettlementBacking(pos[1])
          /\ e.payout = CalculatePayout(pos, VerifiedBalance(r))
      BY <2>7
    <3>2. RowOf[r] = pos
      BY DEF pos
    <3> QED
      BY <2>2, <2>3, <2>5, <2>11, <2>12, <3>1, <3>2, Zenon DEF ReadEntry
  <2> QED
    BY <2>1, <2>2, <2>13 DEF pos
<1>2. IsFiniteSet(Entries(venue))
  <2> DEFINE f == [r \in Eligible(venue) |-> CreateEntry(venue, RowOf[r])]
  <2>1. IsFiniteSet(Eligible(venue))
    <3>1. Eligible(venue) \in SUBSET Rows
      BY DEF Eligible, Assessments, Listed
    <3> QED
      BY <3>1, FS_Subset
  <2>2. f \in Surjection(Eligible(venue), Created(venue))
    BY DEF Surjection, Created
  <2>3. IsFiniteSet(Created(venue))
    <3> HIDE DEF f
    <3> QED
      BY <2>1, <2>2, FS_Surjection
  <2>4. Entries(venue) \in SUBSET Created(venue)
    BY DEF Entries
  <2> QED
    BY <2>3, <2>4, FS_Subset
<1>3. Entries(venue) \subseteq EntryRecords
  BY <1>1 DEF ReadEntry
<1>4. ASSUME NEW e \in Entries(venue), NEW f \in Entries(venue), e.position = f.position
      PROVE  e = f
  BY <1>1, <1>4, Zenon
<1> QED
  BY <1>1, <1>2, <1>3, <1>4 DEF EntrySet

VerdictRecords ==
    [status : {"none"}] \union [status : {"confirmed", "failed"}, receipt : Receipts]

BatchInv(b) ==
    /\ EntrySet(plan[b]) /\ Cardinality(plan[b]) \in 1 .. MaxEntries
    /\ \A e \in plan[b] : ReadEntry(e)

(* A verdict rests on a receipt of the batch, and says what it shows. *)
VerdictInv(b) ==
    verdict[b].status # "none" =>
        /\ verdict[b].receipt \in ReceiptsOf(b)
        /\ verdict[b].status = "confirmed" <=> Confirms(b, verdict[b].receipt)

PlanInv ==
    /\ plan \in Seq(SUBSET EntryRecords)
    /\ stage \in {"discover", "read"} => plan = <<>>
    /\ stage = "simulate" => simulated < Len(plan)
    /\ stage = "ready" => simulated = Len(plan)
    /\ simulated \in 0 .. Len(plan) /\ sent \in 0 .. Len(plan)
    /\ verdict \in [DOMAIN plan -> VerdictRecords]
    /\ \A b \in DOMAIN plan : BatchInv(b) /\ VerdictInv(b)

EvidenceInv == ChainInv /\ ScanInv /\ PlanInv

(* What is read of closed blocks stays true.                               *)
Grown ==
    /\ UNCHANGED result
    /\ blocks' \in Seq(ChainStates) /\ Len(blocks) <= Len(blocks')
    /\ \A k \in 1 .. Len(blocks) : blocks'[k] = blocks[k]
    /\ receipts \subseteq receipts'

LEMMA ReadEntryKept ==
  ASSUME ChainTyped, ScanInv, Grown, UNCHANGED scanVars, NEW e, ReadEntry(e)
  PROVE  ReadEntry(e)'
<1>1. UNCHANGED <<result, indexed, settlementRead, balanceRead>>
  BY DEF Grown, scanVars
<1>2. Finalized(e.position[1])' /\ (e.payout = CalculatePayout(e.position, e.amount))'
  BY <1>1, PaysTheSame DEF ReadEntry
<1>3. Listed' = Listed
  BY <1>1 DEF Listed
<1>4. /\ Len(blocks) \in Nat /\ Len(blocks') \in Nat
      /\ settlementRead[e.position[1]] \in 1 .. Len(blocks)
      /\ settlementRead[e.position[1]] \in 1 .. Len(blocks')
      /\ blocks'[settlementRead[e.position[1]]] = blocks[settlementRead[e.position[1]]]
  BY DEF ChainTyped, Grown, ReadEntry
<1>5. (e.backing = SettlementBacking(e.position[1]))'
  BY <1>1, <1>4, Zenon DEF SettlementBacking, ReadEntry
<1>6. PICK r \in Listed : /\ RowOf[r] = e.position
                          /\ balanceRead[r] \in settlementRead[e.position[1]] .. Len(blocks)
                          /\ VerifiedBalance(r) = e.verifiedBalance
  BY DEF ReadEntry
<1>7. /\ balanceRead[r] \in 1 .. Len(blocks)
      /\ balanceRead[r] \in settlementRead[e.position[1]] .. Len(blocks')
  BY <1>4, <1>6 DEF Grown
<1>8. VerifiedBalance(r)' = VerifiedBalance(r)
  BY <1>1, <1>7 DEF VerifiedBalance, Grown
<1>9. (\E q \in Listed : /\ RowOf[q] = e.position
                          /\ balanceRead[q] \in settlementRead[e.position[1]] .. Len(blocks)
                          /\ VerifiedBalance(q) = e.verifiedBalance)'
  BY <1>1, <1>3, <1>6, <1>7, <1>8, Zenon
<1>10. settlementRead'[e.position[1]] \in 1 .. Len(blocks')
  BY <1>1, <1>4
<1> QED
  BY <1>2, <1>5, <1>9, <1>10, Zenon DEF ReadEntry

LEMMA ConfirmsKept ==
  ASSUME ChainTyped, Grown, UNCHANGED plan, NEW b, NEW t, t.block \in 1 .. Len(blocks)
  PROVE  Confirms(b, t)' <=> Confirms(b, t)
<1>1. UNCHANGED result /\ blocks'[t.block] = blocks[t.block]
  BY DEF Grown
<1>2. \A c : ContractPays(c)' = ContractPays(c)
  BY <1>1, Zenon DEF ContractPays
<1>3. \A e : RedeemedAsPlanned(t, e)' <=> RedeemedAsPlanned(t, e)
  BY <1>2, Zenon DEF RedeemedAsPlanned
<1>4. \A e : BalanceFell(t, e)' <=> BalanceFell(t, e)
  BY <1>1, Zenon DEF BalanceFell
<1>5. \A e, batch : BackingFell(t, e, batch)' <=> BackingFell(t, e, batch)
  BY <1>1, Zenon DEF BackingFell
<1> QED
  BY <1>3, <1>4, <1>5, Zenon DEF Confirms

LEMMA BatchKept ==
  ASSUME EvidenceInv, Grown, UNCHANGED <<scanVars, plan>>
  PROVE  \A b \in DOMAIN plan : BatchInv(b)'
<1>1. ASSUME NEW b \in DOMAIN plan PROVE BatchInv(b)'
  <2>1. BatchInv(b) /\ ChainTyped /\ ScanInv
    BY DEF EvidenceInv, ChainInv, PlanInv
  <2>2. \A e \in plan[b] : ReadEntry(e)'
    BY <2>1, ReadEntryKept DEF BatchInv
  <2> QED
    BY <2>1, <2>2, Zenon DEF BatchInv, EntrySet
<1> QED
  BY <1>1

LEMMA VerdictKept ==
  ASSUME EvidenceInv, Grown, UNCHANGED plan, NEW b \in DOMAIN plan, verdict'[b] = verdict[b]
  PROVE  VerdictInv(b)'
<1> SUFFICES ASSUME verdict[b].status # "none"
             PROVE  /\ (verdict[b].receipt \in ReceiptsOf(b))'
                    /\ verdict[b].status = "confirmed" <=> Confirms(b, verdict[b].receipt)'
  BY Zenon DEF VerdictInv
<1> DEFINE t == verdict[b].receipt
<1>1. VerdictInv(b) /\ ChainTyped
  BY DEF EvidenceInv, PlanInv, ChainInv
<1>2. t \in ReceiptsOf(b) /\ (verdict[b].status = "confirmed" <=> Confirms(b, t))
  BY <1>1 DEF VerdictInv
<1>3. PICK u : u = t
  OBVIOUS
<1>4. u \in receipts /\ u.calls = Calls(plan[b]) /\ u.block <= Len(blocks)
  BY <1>2, <1>3 DEF ReceiptsOf
<1>5. u.block \in 1 .. Len(blocks) /\ Len(blocks) \in Nat /\ Len(blocks') \in Nat
  BY <1>1, <1>4 DEF ChainTyped, Grown
<1>6. Confirms(b, u)' <=> Confirms(b, u)
  BY <1>1, <1>5, ConfirmsKept
<1>7. u \in ReceiptsOf(b)'
  <2>1. u \in receipts' /\ u.block <= Len(blocks')
    BY <1>4, <1>5 DEF Grown
  <2> QED
    BY <1>4, <2>1, Zenon DEF ReceiptsOf, Calls
<1>8. verdict'[b].receipt = u
  BY <1>3
<1> QED
  BY <1>2, <1>3, <1>6, <1>7, <1>8, Zenon

-----------------------------------------------------------------------------
(* One lemma per operation.                                                *)

LEMMA ChainStays == ChainInv /\ UNCHANGED chainVars => ChainInv' /\ Grown
<1> SUFFICES ASSUME ChainInv, UNCHANGED chainVars PROVE ChainInv' /\ Grown
  OBVIOUS
<1>1. UNCHANGED <<result, blocks, building, receipts, traded, moves>>
  BY DEF chainVars
<1>2. Built' = Built /\ (\A k : At(k)' = At(k)) /\ \A c : CallSet(c)' <=> CallSet(c)
  BY <1>1, Zenon DEF At, Built, CallSet
<1>3. ChainTyped'
  BY <1>1, <1>2, Zenon DEF ChainInv, ChainTyped
<1>4. Falls'
  BY <1>1, <1>2, Zenon DEF ChainInv, Falls
<1>5. \A t : Paid(t)' <=> Paid(t)
  <2>1. /\ \A m : Finalized(m)' <=> Finalized(m)
        /\ \A m, calls : PaidFrom(m, calls)' = PaidFrom(m, calls)
    BY <1>1, PaysTheSame
  <2> QED
    BY <1>1, <1>2, <2>1, Zenon DEF Paid
<1>6. Grown
  BY <1>1 DEF Grown, ChainInv, ChainTyped
<1> QED
  BY <1>1, <1>3, <1>4, <1>5, <1>6, Zenon DEF ChainInv

LEMMA PlanStays ==
  ASSUME EvidenceInv, Grown, UNCHANGED <<stage, scanVars, claimVars>>
  PROVE  ScanInv' /\ PlanInv'
<1>1. UNCHANGED <<stage, indexed, settlementRead, balanceRead, plan, simulated, sent, verdict>>
  BY DEF scanVars, claimVars
<1>2. ScanInv'
  <2>1. Len(blocks) \in Nat /\ Len(blocks') \in Nat /\ Len(blocks) <= Len(blocks') /\ ScanInv
    BY DEF EvidenceInv, ChainInv, ChainTyped, Grown
  <2>2. 0 .. Len(blocks) \subseteq 0 .. Len(blocks')
    BY <2>1
  <2>3. /\ settlementRead \in [Markets -> 0 .. Len(blocks')]
        /\ balanceRead \in [Rows -> 0 .. Len(blocks')]
    BY <2>1, <2>2 DEF ScanInv
  <2> QED
    BY <1>1, <2>1, <2>3, Zenon DEF ScanInv
<1>3. \A b \in DOMAIN plan : BatchInv(b)' /\ VerdictInv(b)'
  BY <1>1, BatchKept, VerdictKept
<1>4. PlanInv
  BY DEF EvidenceInv
<1>5. PlanInv'
  BY <1>1, <1>3, <1>4, Zenon DEF PlanInv
<1> QED
  BY <1>2, <1>5

(* What is mined leaves the closed blocks alone. *)
LEMMA MineGrows ==
  ASSUME ChainTyped, NEW calls, NEW batch, MineCalls(calls, batch), UNCHANGED <<result, blocks>>
  PROVE  Grown
<1>1. receipts \subseteq receipts'
  BY DEF MineCalls
<1> QED
  BY <1>1 DEF Grown, ChainTyped

LEMMA CloseBlockSafe == EvidenceInv /\ CloseBlock => EvidenceInv'
<1> SUFFICES ASSUME EvidenceInv, CloseBlock PROVE EvidenceInv'
  OBVIOUS
<1>1. ChainInv'
  BY CloseBlockStep DEF EvidenceInv
<1>2. Grown
  BY DEF CloseBlock, Grown, EvidenceInv, ChainInv, ChainTyped
<1>3. UNCHANGED <<stage, scanVars, claimVars>>
  BY Zenon DEF CloseBlock
<1> QED
  BY <1>1, <1>2, <1>3, PlanStays DEF EvidenceInv

LEMMA OwnerTradesSafe ==
  ASSUME EvidenceInv, NEW pos \in Positions, NEW amount \in Amounts, OwnerTrades(pos, amount)
  PROVE  EvidenceInv'
<1>1. ChainTyped /\ Falls /\ \A t \in receipts : t.ok => Paid(t)
  BY DEF EvidenceInv, ChainInv
<1>2. /\ building' = [building EXCEPT !.balance[pos] = amount]
      /\ traded' = [traded EXCEPT ![pos] = Len(blocks) + 1]
      /\ moves' = moves + 1 /\ moves < MaxMoves
      /\ UNCHANGED <<result, blocks, receipts, stage, scanVars, claimVars>>
  BY Zenon DEF OwnerTrades, Move
<1>3. /\ building.balance \in [Positions -> Nat] /\ building.backing \in [Markets -> Nat]
      /\ Len(blocks) \in Nat /\ amount \in Nat
      /\ traded \in [Positions -> 0 .. Len(blocks) + 1]
  BY <1>1 DEF ChainTyped, ChainStates
<1>4. /\ building'.balance = [building.balance EXCEPT ![pos] = amount]
      /\ building'.backing = building.backing
      /\ building' \in ChainStates
  <2>1. /\ building'.balance = [building.balance EXCEPT ![pos] = amount]
        /\ building'.backing = building.backing
        /\ building' = [balance |-> building'.balance, backing |-> building'.backing]
    BY <1>1, <1>2 DEF ChainTyped, ChainStates
  <2>2. building'.balance \in [Positions -> Nat] /\ building'.backing \in [Markets -> Nat]
    BY <1>3, <2>1
  <2> QED
    BY <2>1, <2>2 DEF ChainStates
<1>5. Inside
  <2>1. traded' \in [Positions -> 0 .. Len(blocks) + 1]
    BY <1>2, <1>3
  <2>2. \A q \in Positions :
           \/ traded'[q] = traded[q] /\ building'.balance[q] <= building.balance[q]
           \/ traded'[q] = Len(blocks) + 1
    BY <1>2, <1>3, <1>4
  <2>3. \A m \in Markets : building'.backing[m] <= building.backing[m]
    BY <1>3, <1>4
  <2> QED
    BY <1>2, <1>4, <2>1, <2>2, <2>3 DEF Inside
<1>6. ChainTyped'
  BY <1>1, <1>2, <1>5 DEF ChainTyped, Inside
<1>7. ChainInv'
  BY <1>1, <1>2, <1>5, <1>6, InsideFalls, InsidePaid DEF ChainInv
<1>8. Grown
  BY <1>1, <1>2 DEF Grown, ChainTyped
<1> QED
  BY <1>2, <1>7, <1>8, PlanStays DEF EvidenceInv

LEMMA OthersRedeemSafe ==
  ASSUME EvidenceInv, NEW m \in Markets, OthersRedeem(m)
  PROVE  EvidenceInv'
<1>1. ChainTyped /\ Falls /\ \A t \in receipts : t.ok => Paid(t)
  BY DEF EvidenceInv, ChainInv
<1>2. /\ building' = [building EXCEPT !.backing[m] = @ - 1]
      /\ building.backing[m] > 0
      /\ moves' = moves + 1 /\ moves < MaxMoves
      /\ UNCHANGED <<result, blocks, receipts, traded, stage, scanVars, claimVars>>
  BY Zenon DEF OthersRedeem, Move
<1>3. /\ building.balance \in [Positions -> Nat] /\ building.backing \in [Markets -> Nat]
      /\ Len(blocks) \in Nat
      /\ traded \in [Positions -> 0 .. Len(blocks) + 1]
  BY <1>1 DEF ChainTyped, ChainStates
<1>4. /\ building'.backing = [building.backing EXCEPT ![m] = @ - 1]
      /\ building'.balance = building.balance
      /\ building' \in ChainStates
  <2>1. /\ building'.backing = [building.backing EXCEPT ![m] = @ - 1]
        /\ building'.balance = building.balance
        /\ building' = [balance |-> building'.balance, backing |-> building'.backing]
    BY <1>1, <1>2 DEF ChainTyped, ChainStates
  <2>2. building'.balance \in [Positions -> Nat] /\ building'.backing \in [Markets -> Nat]
    BY <1>2, <1>3, <2>1
  <2> QED
    BY <2>1, <2>2 DEF ChainStates
<1>5. Inside
  <2>1. \A q \in Positions : building'.balance[q] <= building.balance[q]
    BY <1>3, <1>4
  <2>2. \A n \in Markets : building'.backing[n] <= building.backing[n]
    BY <1>3, <1>4
  <2> QED
    BY <1>2, <1>3, <1>4, <2>1, <2>2 DEF Inside
<1>6. ChainTyped'
  BY <1>1, <1>2, <1>5 DEF ChainTyped, Inside
<1>7. ChainInv'
  BY <1>1, <1>2, <1>5, <1>6, InsideFalls, InsidePaid DEF ChainInv
<1>8. Grown
  BY <1>1, <1>2 DEF Grown, ChainTyped
<1> QED
  BY <1>2, <1>7, <1>8, PlanStays DEF EvidenceInv

LEMMA RedeemElsewhereSafe ==
  ASSUME EvidenceInv, NEW pos \in Positions, RedeemElsewhere(pos)
  PROVE  EvidenceInv'
<1> DEFINE call == [position |-> pos, amount |-> building.balance[pos]]
<1>1. ChainInv /\ ChainTyped
  BY DEF EvidenceInv, ChainInv
<1>2. /\ MineCalls({call}, 0)
      /\ moves' = moves + 1 /\ moves < MaxMoves
      /\ UNCHANGED <<result, blocks, traded, stage, scanVars, claimVars>>
  BY Zenon DEF RedeemElsewhere, Move
<1>3. call \in CallRecords
  BY <1>1 DEF ChainTyped, ChainStates, CallRecords
<1> HIDE DEF call
<1>4. CallSet({call})
  BY <1>3, FS_Singleton DEF CallSet
<1>5. moves' \in 0 .. MaxMoves
  BY <1>1, <1>2 DEF ChainTyped
<1>6. ChainInv'
  BY <1>1, <1>2, <1>4, <1>5, MineStep
<1>7. Grown
  BY <1>1, <1>2, MineGrows
<1> QED
  BY <1>2, <1>6, <1>7, PlanStays DEF EvidenceInv

(* As long as the scan lasts there is no plan. *)
LEMMA NoPlanYet ==
  ASSUME PlanInv, stage \in {"discover", "read"}, stage' \in {"discover", "read"}, UNCHANGED claimVars
  PROVE  PlanInv'
<1>1. plan = <<>> /\ UNCHANGED <<plan, simulated, sent, verdict>>
  BY DEF PlanInv, claimVars
<1>2. DOMAIN plan = {}
  BY <1>1
<1>3. stage' # "simulate" /\ stage' # "ready"
  OBVIOUS
<1> QED
  BY <1>1, <1>2, <1>3, Zenon DEF PlanInv

LEMMA DiscoverSafe ==
  ASSUME EvidenceInv, NEW listed \in SUBSET Rows, NEW k \in DOMAIN blocks, Discover(listed, k)
  PROVE  EvidenceInv'
<1>1. ChainInv /\ ChainTyped /\ ScanInv /\ PlanInv
  BY DEF EvidenceInv, ChainInv
<1>2. /\ stage = "discover" /\ stage' = "read"
      /\ indexed' = [r \in Rows |-> IF r \in listed THEN blocks[k].balance[RowOf[r]] ELSE 0]
      /\ UNCHANGED <<chainVars, settlementRead, balanceRead, claimVars>>
  BY Zenon DEF Discover
<1>3. indexed' \in [Rows -> Nat]
  <2>1. blocks[k].balance \in [Positions -> Nat]
    <3>1. blocks[k] \in ChainStates
      BY <1>1 DEF ChainTyped
    <3> QED
      BY <3>1 DEF ChainStates
  <2>2. \A r \in Rows : (IF r \in listed THEN blocks[k].balance[RowOf[r]] ELSE 0) \in Nat
    BY <2>1, RowPosition
  <2> QED
    BY <1>2, <2>2
<1>4. ScanInv'
  <2>1. UNCHANGED blocks /\ stage' \in Stage
    BY <1>2 DEF chainVars, Stage
  <2> QED
    BY <1>1, <1>2, <1>3, <2>1, Zenon DEF ScanInv
<1> QED
  BY <1>1, <1>2, <1>4, ChainStays, NoPlanYet DEF EvidenceInv

LEMMA ReadSettlementSafe ==
  ASSUME EvidenceInv, NEW m \in Markets, ReadSettlement(m)
  PROVE  EvidenceInv'
<1>1. ChainInv /\ ChainTyped /\ ScanInv /\ PlanInv
  BY DEF EvidenceInv, ChainInv
<1>2. /\ stage = "read" /\ settlementRead[m] = 0
      /\ settlementRead' = [settlementRead EXCEPT ![m] = Len(blocks)]
      /\ UNCHANGED <<chainVars, stage, indexed, balanceRead, claimVars>>
  BY Zenon DEF ReadSettlement
<1>3. UNCHANGED blocks /\ Len(blocks) \in Nat
  BY <1>1, <1>2 DEF chainVars, ChainTyped
<1>4. ScanInv'
  <2>1. settlementRead' \in [Markets -> 0 .. Len(blocks)]
    BY <1>1, <1>2, <1>3 DEF ScanInv
  <2>2. ASSUME NEW r \in Rows, balanceRead[r] > 0
        PROVE  settlementRead'[RowOf[r][1]] \in 1 .. balanceRead[r]
    <3>1. settlementRead[RowOf[r][1]] \in 1 .. balanceRead[r]
      BY <1>1, <2>2 DEF ScanInv
    <3>2. RowOf[r][1] # m
      BY <1>2, <3>1
    <3>3. settlementRead'[RowOf[r][1]] = settlementRead[RowOf[r][1]]
      BY <1>1, <1>2, <3>2, RowPosition DEF ScanInv
    <3> QED
      BY <3>1, <3>3
  <2> QED
    BY <1>1, <1>2, <1>3, <2>1, <2>2, Zenon DEF ScanInv
<1> QED
  BY <1>1, <1>2, <1>4, ChainStays, NoPlanYet DEF EvidenceInv

LEMMA ReadBalanceSafe ==
  ASSUME EvidenceInv, NEW r \in Rows, ReadBalance(r)
  PROVE  EvidenceInv'
<1>1. ChainInv /\ ChainTyped /\ ScanInv /\ PlanInv
  BY DEF EvidenceInv, ChainInv
<1>2. /\ stage = "read" /\ r \in Listed
      /\ \A m \in ListedMarkets : settlementRead[m] > 0
      /\ balanceRead' = [balanceRead EXCEPT ![r] = Len(blocks)]
      /\ UNCHANGED <<chainVars, stage, indexed, settlementRead, claimVars>>
  BY Zenon DEF ReadBalance
<1>3. UNCHANGED blocks /\ Len(blocks) \in Nat
  BY <1>1, <1>2 DEF chainVars, ChainTyped
<1>4. ScanInv'
  <2>1. balanceRead' \in [Rows -> 0 .. Len(blocks)]
    BY <1>1, <1>2, <1>3 DEF ScanInv
  <2>2. ASSUME NEW q \in Rows, balanceRead'[q] > 0
        PROVE  settlementRead[RowOf[q][1]] \in 1 .. balanceRead'[q]
    <3>1. CASE q = r
      <4>1. balanceRead'[q] = Len(blocks)
        BY <1>1, <1>2, <3>1 DEF ScanInv
      <4>2. RowOf[q][1] \in Markets /\ RowOf[q][1] \in ListedMarkets
        BY <1>2, <3>1, RowPosition DEF ListedMarkets
      <4>3. settlementRead[RowOf[q][1]] > 0
        BY <1>2, <4>2
      <4>4. settlementRead[RowOf[q][1]] \in 0 .. Len(blocks)
        BY <1>1, <4>2 DEF ScanInv
      <4> QED
        BY <1>3, <4>1, <4>3, <4>4
    <3>2. CASE q # r
      <4>1. balanceRead'[q] = balanceRead[q]
        BY <1>1, <1>2, <3>2 DEF ScanInv
      <4> QED
        BY <1>1, <2>2, <4>1 DEF ScanInv
    <3> QED
      BY <3>1, <3>2
  <2> QED
    BY <1>1, <1>2, <1>3, <2>1, <2>2, Zenon DEF ScanInv
<1> QED
  BY <1>1, <1>2, <1>4, ChainStays, NoPlanYet DEF EvidenceInv

LEMMA ScanStays ==
  ASSUME ScanInv, UNCHANGED <<chainVars, scanVars>>, stage' \in Stage
  PROVE  ScanInv'
  BY Zenon DEF ScanInv, chainVars, scanVars

(* The preparation ends. *)
LEMMA RefuseSafe ==
  ASSUME EvidenceInv, Refuse
  PROVE  EvidenceInv'
<1>1. ChainInv /\ ChainTyped /\ ScanInv /\ PlanInv
  BY DEF EvidenceInv, ChainInv
<1>2. stage' = "refused" /\ UNCHANGED <<chainVars, scanVars, claimVars>>
  BY Zenon DEF Refuse
<1>3. ChainInv' /\ Grown
  BY <1>1, <1>2, ChainStays
<1>4. ScanInv'
  BY <1>1, <1>2, ScanStays DEF Stage
<1>5. UNCHANGED <<plan, simulated, sent, verdict>>
  BY <1>2 DEF claimVars
<1>6. \A b \in DOMAIN plan : BatchInv(b)' /\ VerdictInv(b)'
  BY <1>2, <1>3, <1>5, BatchKept, VerdictKept
<1>7. stage' \notin {"discover", "read"} /\ stage' # "simulate" /\ stage' # "ready"
  BY <1>2
<1>8. PlanInv'
  BY <1>1, <1>5, <1>6, <1>7, Zenon DEF PlanInv
<1> QED
  BY <1>3, <1>4, <1>8 DEF EvidenceInv

LEMMA PrepareSafe == EvidenceInv /\ Prepare => EvidenceInv'
<1> SUFFICES ASSUME EvidenceInv, Prepare PROVE EvidenceInv'
  OBVIOUS
<1>1. ChainInv /\ ChainTyped /\ ScanInv /\ PlanInv
  BY DEF EvidenceInv, ChainInv
<1>2. CASE Refuse
  BY <1>2, RefuseSafe
<1>3. CASE ~Refuse
  <2>1. stage = "read" /\ \A r \in Listed : balanceRead[r] > 0
    BY DEF Prepare
  <2>2. PICK first \in ClaimCandidates :
           LET batches == CreateBatches(Backed(Entries(Venue[RowOf[first][1]])))
           IN  /\ batches # <<>>
               /\ plan' = batches
               /\ verdict' = [b \in DOMAIN batches |-> [status |-> "none"]]
               /\ stage' = "simulate"
               /\ UNCHANGED <<chainVars, scanVars, simulated, sent>>
    BY <1>3, Zenon DEF Prepare
  <2> DEFINE venue == Venue[RowOf[first][1]]
             entries == Backed(Entries(venue))
             batches == CreateBatches(entries)
  <2>3. EntrySet(Entries(venue)) /\ \A e \in Entries(venue) : ReadEntry(e)
    BY <1>1, <2>1, EntriesSound
  <2>4. entries \in SUBSET Entries(venue)
    BY DEF Backed
  <2>5. EntrySet(entries) /\ entries \in SUBSET EntryRecords /\ \A e \in entries : ReadEntry(e)
    <3>1. IsFiniteSet(entries)
      BY <2>3, <2>4, FS_Subset DEF EntrySet
    <3> HIDE DEF entries
    <3> QED
      BY <2>3, <2>4, <3>1 DEF EntrySet
  <2> HIDE DEF entries
  <2>6. /\ batches \in Seq(SUBSET entries)
        /\ \A k \in DOMAIN batches :
              IsFiniteSet(batches[k]) /\ Cardinality(batches[k]) \in 1 .. MaxEntries
    BY <2>5, BatchesSound
  <2>7. /\ batches # <<>> /\ plan' = batches
        /\ verdict' = [b \in DOMAIN batches |-> [status |-> "none"]]
        /\ stage' = "simulate"
        /\ UNCHANGED <<chainVars, scanVars, simulated, sent>>
    BY <2>2, Zenon DEF entries
  <2> HIDE DEF batches
  <2>8. /\ Len(batches) \in Nat \ {0} /\ DOMAIN batches = 1 .. Len(batches)
        /\ \A k \in DOMAIN batches : batches[k] \in SUBSET entries
        /\ plan' \in Seq(SUBSET EntryRecords)
    BY <2>5, <2>6, <2>7
  <2>9. ChainInv' /\ Grown
    BY <1>1, <2>7, ChainStays
  <2>10. ScanInv'
    BY <1>1, <2>7, ScanStays DEF Stage
  <2>11. simulated' = 0 /\ sent' = 0
    <3>1. simulated = 0 /\ sent = 0
      BY <1>1, <2>1 DEF PlanInv
    <3> QED
      BY <2>7, <3>1
  <2>12. ASSUME NEW b \in DOMAIN batches PROVE BatchInv(b)' /\ VerdictInv(b)'
    <3>1. \A e \in batches[b] : ReadEntry(e)'
      <4>1. UNCHANGED scanVars
        BY <2>7
      <4>2. ASSUME NEW e \in batches[b] PROVE ReadEntry(e)
        BY <2>5, <2>8
      <4> QED
        BY <1>1, <2>9, <4>1, <4>2, ReadEntryKept
    <3>2. EntrySet(batches[b])
      <4>1. IsFiniteSet(batches[b]) /\ batches[b] \in SUBSET entries
        BY <2>6, <2>8
      <4> QED
        BY <2>5, <4>1 DEF EntrySet
    <3>3. Cardinality(batches[b]) \in 1 .. MaxEntries
      BY <2>6
    <3>4. verdict'[b].status = "none"
      BY <2>7
    <3>5. PICK batch : batch = batches[b]
      OBVIOUS
    <3>6. plan'[b] = batch
      BY <2>7, <3>5
    <3> QED
      BY <3>1, <3>2, <3>3, <3>4, <3>5, <3>6, Zenon DEF BatchInv, VerdictInv, EntrySet
  <2>13. verdict' \in [DOMAIN batches -> VerdictRecords]
    BY <2>7 DEF VerdictRecords
  <2>14. PlanInv'
    <3>1. stage' \notin {"discover", "read"} /\ stage' # "ready"
      BY <2>7
    <3>2. /\ simulated' < Len(plan') /\ simulated' \in 0 .. Len(plan') /\ sent' \in 0 .. Len(plan')
      BY <2>7, <2>8, <2>11
    <3> QED
      BY <2>7, <2>8, <2>12, <2>13, <3>1, <3>2, Zenon DEF PlanInv
  <2> QED
    BY <2>9, <2>10, <2>14 DEF EvidenceInv
<1> QED
  BY <1>2, <1>3

LEMMA SimulateSafe == EvidenceInv /\ Simulate => EvidenceInv'
<1> SUFFICES ASSUME EvidenceInv, Simulate PROVE EvidenceInv'
  OBVIOUS
<1>1. ChainInv /\ ChainTyped /\ ScanInv /\ PlanInv
  BY DEF EvidenceInv, ChainInv
<1>2. CASE Refuse
  BY <1>2, RefuseSafe
<1>3. CASE ~Refuse
  <2>1. /\ stage = "simulate" /\ simulated' = simulated + 1
        /\ stage' = IF simulated' = Len(plan) THEN "ready" ELSE "simulate"
        /\ UNCHANGED <<chainVars, scanVars, plan, sent, verdict>>
    BY <1>3, Zenon DEF Simulate
  <2>2. ChainInv' /\ Grown
    BY <1>1, <2>1, ChainStays
  <2>3. ScanInv'
    <3>1. stage' \in Stage
      BY <2>1 DEF Stage
    <3> QED
      BY <1>1, <2>1, <3>1, ScanStays
  <2>4. \A b \in DOMAIN plan : BatchInv(b)' /\ VerdictInv(b)'
    BY <2>1, <2>2, BatchKept, VerdictKept
  <2>5. /\ simulated < Len(plan) /\ simulated \in 0 .. Len(plan) /\ Len(plan) \in Nat
    BY <1>1, <2>1 DEF PlanInv
  <2>6. /\ simulated' \in 0 .. Len(plan)
        /\ stage' = "simulate" => simulated' < Len(plan)
        /\ stage' = "ready" => simulated' = Len(plan)
        /\ stage' \notin {"discover", "read"}
    BY <2>1, <2>5
  <2>7. PlanInv'
    BY <1>1, <2>1, <2>4, <2>6, Zenon DEF PlanInv
  <2> QED
    BY <2>2, <2>3, <2>7 DEF EvidenceInv
<1> QED
  BY <1>2, <1>3

(* The calls of a batch are of different positions, as its entries are. *)
LEMMA CallsOfBatch ==
  ASSUME NEW batch, EntrySet(batch)
  PROVE  CallSet(Calls(batch))
<1> DEFINE f == [e \in batch |-> [position |-> e.position, amount |-> e.amount]]
<1>1. f \in Surjection(batch, Calls(batch))
  BY DEF Surjection, Calls
<1>2. IsFiniteSet(Calls(batch))
  <2> HIDE DEF f
  <2> QED
    BY <1>1, FS_Surjection DEF EntrySet
<1>3. ASSUME NEW c \in Calls(batch) PROVE c \in CallRecords
  <2>1. PICK e \in batch : c = [position |-> e.position, amount |-> e.amount]
    BY DEF Calls
  <2>2. e.position \in Positions /\ e.amount \in Nat
    BY DEF EntrySet, EntryRecords
  <2> QED
    BY <2>1, <2>2 DEF CallRecords
<1>4. ASSUME NEW c \in Calls(batch), NEW d \in Calls(batch), c.position = d.position PROVE c = d
  <2>1. PICK e \in batch : c = [position |-> e.position, amount |-> e.amount]
    BY DEF Calls
  <2>2. PICK f1 \in batch : d = [position |-> f1.position, amount |-> f1.amount]
    BY DEF Calls
  <2>3. e = f1
    BY <1>4, <2>1, <2>2 DEF EntrySet
  <2> QED
    BY <2>1, <2>2, <2>3
<1> QED
  BY <1>2, <1>3, <1>4 DEF CallSet

LEMMA SendBatchSafe == EvidenceInv /\ SendBatch => EvidenceInv'
<1> SUFFICES ASSUME EvidenceInv, SendBatch PROVE EvidenceInv'
  OBVIOUS
<1>1. ChainInv /\ ChainTyped /\ ScanInv /\ PlanInv
  BY DEF EvidenceInv, ChainInv
<1>2. /\ sent < Len(plan) /\ sent' = sent + 1
      /\ MineCalls(Calls(plan[sent + 1]), sent + 1)
      /\ UNCHANGED <<result, blocks, traded, moves, stage, scanVars, plan, simulated, verdict>>
  BY Zenon DEF SendBatch
<1>3. /\ Len(plan) \in Nat /\ sent \in Nat /\ sent + 1 \in DOMAIN plan /\ sent + 1 \in Nat
      /\ sent' \in 0 .. Len(plan)
  BY <1>1, <1>2 DEF PlanInv
<1>4. CallSet(Calls(plan[sent + 1]))
  BY <1>1, <1>3, CallsOfBatch DEF PlanInv, BatchInv
<1>5. moves' \in 0 .. MaxMoves
  BY <1>1, <1>2 DEF ChainTyped
<1>6. PICK calls : calls = Calls(plan[sent + 1])
  OBVIOUS
<1>7. PICK batch \in Nat : batch = sent + 1
  BY <1>3
<1>8. MineCalls(calls, batch) /\ CallSet(calls)
  BY <1>2, <1>4, <1>6, <1>7
<1>9. ChainInv' /\ Grown
  BY <1>1, <1>2, <1>5, <1>8, MineStep, MineGrows
<1>10. UNCHANGED blocks /\ ScanInv'
  BY <1>1, <1>2, Zenon DEF ScanInv, scanVars
<1>11. \A b \in DOMAIN plan : BatchInv(b)' /\ VerdictInv(b)'
  BY <1>2, <1>9, BatchKept, VerdictKept
<1>12. PlanInv'
  BY <1>1, <1>2, <1>3, <1>11, Zenon DEF PlanInv
<1> QED
  BY <1>9, <1>10, <1>12 DEF EvidenceInv

LEMMA ReconcileSafe ==
  ASSUME EvidenceInv, NEW b \in DOMAIN plan, NEW t \in ReceiptsOf(b), Reconcile(b, t)
  PROVE  EvidenceInv'
<1>1. ChainInv /\ ChainTyped /\ ScanInv /\ PlanInv
  BY DEF EvidenceInv, ChainInv
<1> DEFINE word == IF Confirms(b, t) THEN "confirmed" ELSE "failed"
           new == [status |-> word, receipt |-> t]
<1>2. /\ verdict' = [verdict EXCEPT ![b] = new]
      /\ UNCHANGED <<chainVars, stage, scanVars, plan, simulated, sent>>
  BY Zenon DEF Reconcile
<1>3. ChainInv' /\ Grown
  BY <1>1, <1>2, ChainStays
<1>4. ScanInv'
  BY <1>1, <1>2, Zenon DEF ScanInv, scanVars, chainVars
<1>5. t \in Receipts /\ t.block \in 1 .. Len(blocks)
  BY <1>1 DEF ReceiptsOf, ChainTyped
<1>6. word \in {"confirmed", "failed"} /\ (word = "confirmed" <=> Confirms(b, t)) /\ word # "none"
  OBVIOUS
<1> HIDE DEF word
<1>7. new \in VerdictRecords /\ new.status = word /\ new.receipt = t
  BY <1>5, <1>6 DEF VerdictRecords
<1> HIDE DEF new
<1>8. /\ verdict' \in [DOMAIN plan -> VerdictRecords]
      /\ \A c \in DOMAIN plan : verdict'[c] = IF c = b THEN new ELSE verdict[c]
  <2>1. verdict \in [DOMAIN plan -> VerdictRecords]
    BY <1>1 DEF PlanInv
  <2> QED
    BY <1>2, <1>7, <2>1, Zenon
<1>9. ASSUME NEW c \in DOMAIN plan PROVE VerdictInv(c)'
  <2>1. CASE c = b
    <3>1. verdict'[b].status = word /\ verdict'[b].receipt = t
      BY <1>7, <1>8
    <3>2. t \in ReceiptsOf(b)'
      <4>1. UNCHANGED <<receipts, blocks, plan>>
        BY <1>2 DEF chainVars
      <4> QED
        BY <4>1, Zenon DEF ReceiptsOf, Calls
    <3>3. Confirms(b, t)' <=> Confirms(b, t)
      BY <1>1, <1>2, <1>3, <1>5, ConfirmsKept
    <3> QED
      BY <1>6, <2>1, <3>1, <3>2, <3>3, Zenon DEF VerdictInv
  <2>2. CASE c # b
    <3>1. verdict'[c] = verdict[c]
      BY <1>8, <2>2
    <3> QED
      BY <1>2, <1>3, <3>1, VerdictKept
  <2> QED
    BY <2>1, <2>2
<1>10. \A c \in DOMAIN plan : BatchInv(c)'
  BY <1>2, <1>3, BatchKept
<1>11. PlanInv'
  BY <1>1, <1>2, <1>8, <1>9, <1>10, Zenon DEF PlanInv
<1> QED
  BY <1>3, <1>4, <1>11 DEF EvidenceInv

-----------------------------------------------------------------------------
(* The invariant holds.                                                    *)

LEMMA EvidenceStart == Init => EvidenceInv
<1> SUFFICES ASSUME Init PROVE EvidenceInv
  OBVIOUS
<1>1. PICK start \in Starts :
         /\ result = start.result
         /\ building = [balance |-> start.balance, backing |-> start.backing]
  BY DEF Init
<1>2. /\ start.result \in [Markets -> Results]
      /\ start.balance \in [Positions -> Nat] /\ start.backing \in [Markets -> Nat]
  <2>1. start \in [result : [Markets -> {"open", "first", "second", "void"}],
                    balance : [Positions -> Nat], backing : [Markets -> Nat]]
    OBVIOUS
  <2> QED
    BY <2>1 DEF Results
<1>3. building \in ChainStates
  BY <1>1, <1>2 DEF ChainStates
<1>4. /\ blocks = <<building>> /\ receipts = {} /\ moves = 0
      /\ traded = [pos \in Positions |-> 0] /\ stage = "discover"
      /\ indexed = [r \in Rows |-> 0] /\ settlementRead = [m \in Markets |-> 0]
      /\ balanceRead = [r \in Rows |-> 0]
      /\ plan = <<>> /\ simulated = 0 /\ sent = 0 /\ verdict = <<>>
  BY DEF Init
<1>5. Len(blocks) = 1 /\ blocks[1] = building /\ blocks \in Seq(ChainStates)
  BY <1>3, <1>4
<1>6. ChainTyped
  BY <1>1, <1>2, <1>3, <1>4, <1>5 DEF ChainTyped
<1>7. Falls
  <2>1. \A k \in Built : At(k) = building
    BY <1>5 DEF At, Built
  <2>2. /\ \A m \in Markets : building.backing[m] \in Nat
        /\ \A pos \in Positions : building.balance[pos] \in Nat
    BY <1>3 DEF ChainStates
  <2> QED
    BY <2>1, <2>2 DEF Falls
<1>8. ScanInv
  BY <1>4, <1>5 DEF ScanInv, Stage
<1>9. PlanInv
  <2>1. DOMAIN plan = {} /\ Len(plan) = 0 /\ plan \in Seq(SUBSET EntryRecords)
    BY <1>4
  <2>2. verdict \in [DOMAIN plan -> VerdictRecords]
    BY <1>4, <2>1
  <2> QED
    BY <1>4, <2>1, <2>2 DEF PlanInv
<1> QED
  BY <1>4, <1>6, <1>7, <1>8, <1>9 DEF EvidenceInv, ChainInv

LEMMA EvidenceStep == EvidenceInv /\ [Next]_vars => EvidenceInv'
<1> SUFFICES ASSUME EvidenceInv, [Next]_vars PROVE EvidenceInv'
  OBVIOUS
<1>1. CASE Others
  BY <1>1, OwnerTradesSafe, OthersRedeemSafe, RedeemElsewhereSafe, Zenon DEF Others
<1>2. CASE Scan
  BY <1>2, DiscoverSafe, ReadSettlementSafe, ReadBalanceSafe, Zenon DEF Scan
<1>3. CASE CloseBlock \/ Prepare \/ Simulate \/ SendBatch
  BY <1>3, CloseBlockSafe, PrepareSafe, SimulateSafe, SendBatchSafe
<1>4. CASE \E b \in DOMAIN plan : \E t \in ReceiptsOf(b) : Reconcile(b, t)
  BY <1>4, ReconcileSafe, Zenon
<1>5. CASE UNCHANGED vars
  <2>1. UNCHANGED <<chainVars, stage, scanVars, claimVars>>
    BY <1>5 DEF vars
  <2>2. ChainInv' /\ Grown
    BY <2>1, ChainStays DEF EvidenceInv
  <2> QED
    BY <2>1, <2>2, PlanStays DEF EvidenceInv
<1> QED
  BY <1>1, <1>2, <1>3, <1>4, <1>5, Zenon DEF Next

LEMMA EvidenceAlways == Spec => []EvidenceInv
  BY EvidenceStart, EvidenceStep, PTL DEF Spec

(* The evidence is well typed: no batch is empty or longer than the policy *)
(* allows, whatever was read, grouped and left out.                        *)
THEOREM EvidenceTypeCorrect == Spec => []TypeOK
<1>1. EvidenceInv => TypeOK
  <2> SUFFICES ASSUME EvidenceInv PROVE TypeOK
    OBVIOUS
  <2>1. ChainTyped /\ ScanInv /\ PlanInv
    BY DEF EvidenceInv, ChainInv
  <2>2. Len(blocks) \in 1 .. MaxBlocks /\ MaxBlocks \in Nat
    BY <2>1 DEF ChainTyped
  <2>3. \A t \in receipts : t.ok \in BOOLEAN /\ t.block \in 1 .. MaxBlocks + 1
    <3>1. ASSUME NEW t \in receipts PROVE t.ok \in BOOLEAN
      BY <2>1, Zenon DEF ChainTyped, Receipts
    <3>2. ASSUME NEW t \in receipts PROVE t.block \in 1 .. MaxBlocks + 1
      BY <2>1, <2>2 DEF ChainTyped
    <3> QED
      BY <3>1, <3>2
  <2>4. traded \in [Positions -> 0 .. MaxBlocks + 1]
    <3>1. 0 .. Len(blocks) + 1 \subseteq 0 .. MaxBlocks + 1
      BY <2>2
    <3> QED
      BY <2>1, <3>1 DEF ChainTyped
  <2>5. \A b \in DOMAIN plan :
           /\ Cardinality(plan[b]) \in 1 .. MaxEntries
           /\ verdict[b].status \in {"none", "confirmed", "failed"}
    <3>1. ASSUME NEW b \in DOMAIN plan PROVE verdict[b].status \in {"none", "confirmed", "failed"}
      <4>1. verdict[b] \in VerdictRecords
        BY <2>1 DEF PlanInv
      <4> QED
        BY <4>1 DEF VerdictRecords
    <3> QED
      BY <2>1, <3>1 DEF PlanInv, BatchInv
  <2>6. DOMAIN verdict = DOMAIN plan
    BY <2>1 DEF PlanInv
  <2>7. /\ result \in [Markets -> Results] /\ blocks \in Seq(ChainStates)
        /\ building \in ChainStates /\ moves \in 0 .. MaxMoves
    BY <2>1 DEF ChainTyped
  <2>8. /\ stage \in Stage /\ indexed \in [Rows -> Nat]
        /\ settlementRead \in [Markets -> 0 .. Len(blocks)]
        /\ balanceRead \in [Rows -> 0 .. Len(blocks)]
    BY <2>1 DEF ScanInv
  <2>9. /\ simulated \in 0 .. Len(plan) /\ sent \in 0 .. Len(plan)
        /\ stage = "ready" => simulated = Len(plan)
    BY <2>1 DEF PlanInv
  <2> QED
    BY <2>2, <2>3, <2>4, <2>5, <2>6, <2>7, <2>8, <2>9, Zenon DEF TypeOK
<1> QED
  BY <1>1, EvidenceAlways, PTL

(* What a batch expects of a market, entry by entry. *)
LEMMA PaidToEntries ==
  ASSUME NEW batch, EntrySet(batch), NEW e \in batch
  PROVE  PaidTo(e.position[1], batch) \in Nat /\ e.payout <= PaidTo(e.position[1], batch)
<1> DEFINE m == e.position[1]
           X == {f \in batch : f.position[1] = m}
           v == [f \in X |-> f.payout]
<1>1. IsFiniteSet(X)
  BY FS_Subset DEF EntrySet
<1>2. \A f \in X : v[f] \in Nat
  BY DEF EntrySet, EntryRecords
<1>3. e \in X /\ v[e] = e.payout
  OBVIOUS
<1>4. PaidTo(m, batch) = SumFunctionOnSet(v, X)
  BY SumOver DEF PaidTo
<1> HIDE DEF X, v
<1>5. SumFunctionOnSet(v, X) \in Nat /\ v[e] <= SumFunctionOnSet(v, X)
  BY <1>1, <1>2, <1>3, SumType, SumAtLeastElement
<1> QED
  BY <1>3, <1>4, <1>5

(* A batch of any plan is confirmed only by a redemption that came after   *)
(* its settlements were read: the backing of a market never rises, so an   *)
(* older one did not bring it below what was read.                         *)
THEOREM EvidenceConfirmedIsFresh == Spec => []ConfirmedIsFresh
<1>1. EvidenceInv => ConfirmedIsFresh
  <2> SUFFICES ASSUME EvidenceInv, NEW b \in DOMAIN plan, verdict[b].status = "confirmed",
                      NEW e \in plan[b]
               PROVE  verdict[b].receipt.block > settlementRead[e.position[1]]
    BY DEF ConfirmedIsFresh
  <2>1. ChainTyped /\ Falls /\ PlanInv
    BY DEF EvidenceInv, ChainInv
  <2>2. BatchInv(b) /\ VerdictInv(b)
    BY <2>1 DEF PlanInv
  <2>3. PICK t : t = verdict[b].receipt
    OBVIOUS
  <2>4. t \in ReceiptsOf(b) /\ Confirms(b, t)
    BY <2>2, <2>3 DEF VerdictInv
  <2>5. ReadEntry(e) /\ EntrySet(plan[b])
    BY <2>2 DEF BatchInv
  <2> DEFINE m == e.position[1]
             read == settlementRead[m]
  <2>6. /\ Len(blocks) \in Nat /\ t.block \in 1 .. Len(blocks)
        /\ read \in 1 .. Len(blocks)
    BY <2>1, <2>4, <2>5 DEF ChainTyped, ReceiptsOf, ReadEntry
  <2>7. blocks[t.block].backing[m] <= blocks[read].backing[m] - PaidTo(m, plan[b])
    BY <2>4, <2>5 DEF Confirms, BackingFell, ReadEntry, SettlementBacking
  <2>8. PaidTo(m, plan[b]) \in Nat /\ PaidTo(m, plan[b]) > 0
    <3>1. PaidTo(m, plan[b]) \in Nat /\ e.payout <= PaidTo(m, plan[b])
      BY <2>5, PaidToEntries
    <3>2. e.payout \in Nat /\ e.payout > 0
      BY <2>5 DEF ReadEntry, EntryRecords
    <3> QED
      BY <3>1, <3>2
  <2>9. m \in Markets
    BY <2>5, PositionType DEF ReadEntry, EntryRecords
  <2> HIDE DEF m, read
  <2>10. /\ t.block \in Built /\ read \in Built
         /\ At(t.block) = blocks[t.block] /\ At(read) = blocks[read]
    BY <2>6 DEF Built, At
  <2>11. blocks[t.block].backing[m] \in Nat /\ blocks[read].backing[m] \in Nat
    BY <2>1, <2>9, <2>10, AtType
  <2>12. ASSUME t.block <= read PROVE FALSE
    <3>1. blocks[read].backing[m] <= blocks[t.block].backing[m]
      BY <2>1, <2>9, <2>10, <2>12 DEF Falls
    <3> QED
      BY <2>7, <2>8, <2>11, <3>1
  <2>13. t.block > read
    BY <2>6, <2>12
  <2> QED
    BY <2>3, <2>13 DEF read, m
<1> QED
  BY <1>1, EvidenceAlways, PTL

(* What a batch expects of a market is what its transaction pays.          *)
LEMMA PaidAsPlanned ==
  ASSUME ChainTyped, NEW batch, EntrySet(batch), \A e \in batch : ReadEntry(e), NEW m
  PROVE  PaidTo(m, batch) = PaidFrom(m, Calls(batch))
<1> DEFINE call(e) == [position |-> e.position, amount |-> e.amount]
           X == {e \in batch : e.position[1] = m}
           Y == {c \in Calls(batch) : c.position[1] = m}
           v == [e \in X |-> e.payout]
           w == [c \in Y |-> ContractPays(c)]
           b == [e \in X |-> call(e)]
<1>1. IsFiniteSet(X)
  BY FS_Subset DEF EntrySet
<1>2. Y = {b[e] : e \in X} /\ b \in [X -> Y]
  <2>1. ASSUME NEW e \in X PROVE call(e) \in Y
    BY DEF Calls
  <2>2. ASSUME NEW c \in Y PROVE \E e \in X : c = call(e)
    <3>1. PICK e \in batch : c = call(e)
      BY DEF Calls
    <3>2. e \in X
      BY <3>1
    <3> QED
      BY <3>1, <3>2
  <2>3. \A e \in X : b[e] = call(e)
    OBVIOUS
  <2>4. b = [e \in X |-> b[e]]
    OBVIOUS
  <2> HIDE DEF call, X, Y, b
  <2>5. b \in [X -> Y]
    BY <2>1, <2>3, <2>4
  <2> QED
    BY <2>1, <2>2, <2>3, <2>5
<1>3. ASSUME NEW e \in X PROVE v[e] \in Nat /\ w[b[e]] = v[e]
  <2>1. e.payout = CalculatePayout(e.position, e.amount) /\ e.payout \in Nat
    BY DEF ReadEntry, EntryRecords
  <2>2. ContractPays(call(e)) = CalculatePayout(e.position, e.amount)
    BY ContractPaysPlanned
  <2>3. call(e) \in Y /\ b[e] = call(e)
    BY DEF Calls
  <2> HIDE DEF call, Y
  <2> QED
    BY <2>1, <2>2, <2>3
<1>4. \A e, f \in X : b[e] = b[f] => e = f
  BY DEF EntrySet
<1>5. PaidTo(m, batch) = SumFunctionOnSet(v, X)
  BY SumOver DEF PaidTo
<1>6. PaidFrom(m, Calls(batch)) = SumFunctionOnSet(w, Y)
  BY SumOver DEF PaidFrom
<1> HIDE DEF X, Y, v, w, b
<1>7. SumFunctionOnSet(w, Y) = SumFunctionOnSet(v, X)
  <2>1. \A e \in X : v[e] \in Nat /\ w[b[e]] = v[e]
    BY <1>3
  <2>2. b \in Bijection(X, Y)
    BY <1>2, <1>4 DEF Bijection, Injection, Surjection, IsInjective
  <2> QED
    BY <1>1, <2>1, <2>2, SumBijection
<1> QED
  BY <1>5, <1>6, <1>7

(* As long as the owner leaves the tokens of a batch alone, a transaction  *)
(* that redeemed the batch after it was read is not recorded as failed:    *)
(* the balances it left are those the plan expects, and what others redeem *)
(* meanwhile only lowers the backings further.                             *)
THEOREM EvidenceRedeemedIsConfirmed == Spec => []RedeemedIsConfirmed
<1>1. EvidenceInv => RedeemedIsConfirmed
  <2> SUFFICES ASSUME EvidenceInv, NEW b \in DOMAIN plan,
                      verdict[b].status = "failed", verdict[b].receipt.ok,
                      \A e \in plan[b], r \in Listed :
                         RowOf[r] = e.position =>
                            /\ verdict[b].receipt.block > balanceRead[r]
                            /\ traded[e.position] <= balanceRead[r]
               PROVE  FALSE
    BY Zenon DEF RedeemedIsConfirmed
  <2>1. ChainTyped /\ Falls /\ PlanInv
    BY DEF EvidenceInv, ChainInv
  <2>2. BatchInv(b) /\ VerdictInv(b)
    BY <2>1 DEF PlanInv
  <2>3. PICK t : t = verdict[b].receipt
    OBVIOUS
  <2>4. t \in ReceiptsOf(b) /\ ~Confirms(b, t) /\ t.ok
    BY <2>2, <2>3 DEF VerdictInv
  <2>5. /\ t \in receipts /\ t.calls = Calls(plan[b]) /\ Paid(t)
        /\ Len(blocks) \in Nat /\ t.block \in 2 .. Len(blocks)
    BY <2>1, <2>4 DEF ReceiptsOf, EvidenceInv, ChainInv, ChainTyped
  <2>6. EntrySet(plan[b]) /\ \A e \in plan[b] : ReadEntry(e)
    BY <2>2 DEF BatchInv
  <2>7. ASSUME NEW e \in plan[b]
        PROVE  RedeemedAsPlanned(t, e) /\ BalanceFell(t, e) /\ BackingFell(t, e, plan[b])
    <3> DEFINE pos == e.position
               m == e.position[1]
               c == [position |-> e.position, amount |-> e.amount]
    <3>1. PICK r \in Listed : /\ RowOf[r] = pos
                              /\ balanceRead[r] \in settlementRead[m] .. Len(blocks)
                              /\ VerifiedBalance(r) = e.verifiedBalance
      BY <2>6 DEF ReadEntry
    <3>2. /\ e \in EntryRecords /\ Finalized(m) /\ e.amount = e.verifiedBalance
          /\ e.payout = CalculatePayout(pos, e.amount)
          /\ settlementRead[m] \in 1 .. Len(blocks)
          /\ e.backing = SettlementBacking(m)
      BY <2>6 DEF ReadEntry
    <3>3. pos \in Positions /\ m \in Markets /\ e.amount \in Nat
      BY <3>2, PositionType DEF EntryRecords
    <3>4. c \in t.calls /\ c.position = pos /\ c.amount = e.amount
      BY <2>5 DEF Calls
    <3>5. balanceRead[r] < t.block /\ traded[pos] <= balanceRead[r]
      BY <2>3, <3>1
    <3> DEFINE seen == balanceRead[r]
               read == settlementRead[m]
    <3>6. /\ seen \in 1 .. Len(blocks) /\ read \in 1 .. Len(blocks)
          /\ seen < t.block /\ read < t.block
      BY <2>5, <3>1, <3>2, <3>5
    <3>7. e.verifiedBalance = blocks[seen].balance[pos] /\ e.backing = blocks[read].backing[m]
      BY <3>1, <3>2 DEF VerifiedBalance, SettlementBacking
    <3>8. traded[pos] <= seen
      BY <3>5
    <3> HIDE DEF seen, read, pos, m, c
    <3>9. /\ t.block \in Built /\ seen \in Built /\ read \in Built
          /\ At(t.block) = blocks[t.block]
          /\ At(seen) = blocks[seen] /\ At(read) = blocks[read]
      BY <2>5, <3>6 DEF Built, At
    <3>10. RedeemedAsPlanned(t, e)
      <4>1. ContractPays(c) = e.payout
        BY <3>2, <3>4, ContractPaysPlanned DEF pos
      <4> QED
        BY <3>4, <4>1, Zenon DEF RedeemedAsPlanned, pos
    <3>11. BalanceFell(t, e)
      <4>1. blocks[t.block].balance[pos] <= blocks[seen].balance[pos] - e.amount
        <5>1. t.block <= t.block /\ traded[c.position] <= seen
          BY <2>5, <3>4, <3>8
        <5>2. At(t.block).balance[c.position] <= At(seen).balance[c.position] - c.amount
          BY <2>5, <3>4, <3>6, <3>9, <5>1 DEF Paid
        <5> QED
          BY <3>4, <3>9, <5>2
      <4>2. blocks[t.block].balance[pos] \in Nat
        BY <2>1, <3>3, <3>9, AtType
      <4>3. blocks[seen].balance[pos] = e.amount
        BY <3>2, <3>7
      <4>4. blocks[t.block].balance[pos] = e.verifiedBalance - e.amount
        BY <3>2, <3>3, <4>1, <4>2, <4>3
      <4> QED
        BY <4>4 DEF BalanceFell, pos
    <3>12. BackingFell(t, e, plan[b])
      <4>1. t.block <= t.block
        BY <2>5
      <4>2. At(t.block).backing[m] <= At(read).backing[m] - PaidFrom(m, t.calls)
        BY <2>5, <3>2, <3>3, <3>6, <3>9, <4>1 DEF Paid
      <4>3. PaidTo(m, plan[b]) = PaidFrom(m, t.calls)
        BY <2>1, <2>5, <2>6, PaidAsPlanned
      <4>4. blocks[t.block].backing[m] <= e.backing - PaidTo(m, plan[b])
        BY <3>7, <3>9, <4>2, <4>3
      <4> QED
        BY <4>4 DEF BackingFell, m
    <3> QED
      BY <3>10, <3>11, <3>12
  <2> QED
    BY <2>4, <2>7 DEF Confirms
<1> QED
  BY <1>1, EvidenceAlways, PTL

-----------------------------------------------------------------------------
(* A plan whose evidence still holds takes everything.                     *)

(* What is paid for entries, or for calls, is paid for their parts.        *)
LEMMA PaidToSplit ==
  ASSUME NEW E, IsFiniteSet(E), E \subseteq EntryRecords, NEW T, NEW U,
         E = T \union U, T \cap U = {}, NEW m
  PROVE  /\ PaidTo(m, E) = PaidTo(m, T) + PaidTo(m, U)
         /\ PaidTo(m, T) \in Nat /\ PaidTo(m, U) \in Nat
<1> DEFINE In(X) == {e \in X : e.position[1] = m}
           v == [e \in In(E) |-> e.payout]
<1>1. /\ IsFiniteSet(In(E)) /\ In(E) = In(T) \union In(U) /\ In(T) \cap In(U) = {}
  BY FS_Subset
<1>2. /\ DOMAIN v = In(E) /\ \A e \in In(E) : v[e] \in Nat
      /\ [e \in In(T) |-> v[e]] = [e \in In(T) |-> e.payout]
      /\ [e \in In(U) |-> v[e]] = [e \in In(U) |-> e.payout]
  BY DEF EntryRecords
<1>3. /\ PaidTo(m, E) = SumFunction(v)
      /\ PaidTo(m, T) = SumFunction([e \in In(T) |-> e.payout])
      /\ PaidTo(m, U) = SumFunction([e \in In(U) |-> e.payout])
  BY DEF PaidTo
<1> HIDE DEF In, v
<1>4. /\ SumFunction(v) = SumFunction([e \in In(T) |-> v[e]]) + SumFunction([e \in In(U) |-> v[e]])
      /\ SumFunction([e \in In(T) |-> v[e]]) \in Nat
      /\ SumFunction([e \in In(U) |-> v[e]]) \in Nat
  <2>1. /\ DOMAIN v = In(T) \union In(U) /\ IsFiniteSet(DOMAIN v)
        /\ \A e \in DOMAIN v : v[e] \in Nat
    BY <1>1, <1>2
  <2> QED
    BY <1>1, <2>1, SumFunctionSplit
<1> QED
  BY <1>2, <1>3, <1>4

LEMMA PaidFromPart ==
  ASSUME result \in [Markets -> Results], NEW calls, CallSet(calls), NEW part \in SUBSET calls,
         NEW m, Finalized(m)
  PROVE  PaidFrom(m, part) <= PaidFrom(m, calls)
<1> DEFINE In(X) == {c \in X : c.position[1] = m}
           rest == calls \ part
           v == [c \in In(calls) |-> ContractPays(c)]
<1>1. /\ IsFiniteSet(In(calls)) /\ In(calls) = In(part) \union In(rest)
      /\ In(part) \cap In(rest) = {}
  BY FS_Subset DEF CallSet
<1>2. ASSUME NEW c \in In(calls) PROVE ContractPays(c) \in Nat
  <2>1. c.position \in Positions /\ c.amount \in Nat /\ Finalized(c.position[1])
    BY DEF CallSet, CallRecords
  <2> QED
    BY <2>1, PayType, ContractPaysPlanned
<1>3. /\ DOMAIN v = In(calls) /\ \A c \in In(calls) : v[c] \in Nat
      /\ [c \in In(part) |-> v[c]] = [c \in In(part) |-> ContractPays(c)]
  BY <1>2
<1>4. /\ PaidFrom(m, calls) = SumFunction(v)
      /\ PaidFrom(m, part) = SumFunction([c \in In(part) |-> ContractPays(c)])
  BY DEF PaidFrom
<1> HIDE DEF In, v
<1>5. /\ SumFunction(v) = SumFunction([c \in In(part) |-> v[c]]) + SumFunction([c \in In(rest) |-> v[c]])
      /\ SumFunction([c \in In(part) |-> v[c]]) \in Nat
      /\ SumFunction([c \in In(rest) |-> v[c]]) \in Nat
  <2>1. /\ DOMAIN v = In(part) \union In(rest) /\ IsFiniteSet(DOMAIN v)
        /\ \A c \in DOMAIN v : v[c] \in Nat
    BY <1>1, <1>3
  <2> QED
    BY <1>1, <2>1, SumFunctionSplit
<1> QED
  BY <1>3, <1>4, <1>5

(* The entries of a plan whose evidence holds in this state: each takes    *)
(* the whole balance, and a market can pay all of its entries.             *)
Covered(E, state) ==
    /\ EntrySet(E) /\ \A e \in E : ReadEntry(e) /\ state.balance[e.position] = e.amount
    /\ \A m \in Markets : PaidTo(m, E) <= state.backing[m]

LEMMA BurnedOfEntries ==
  ASSUME NEW E, EntrySet(E), NEW F \in SUBSET E
  PROVE  /\ \A e \in F : Burned(Calls(F), e.position) = e.amount
         /\ \A pos : (\A e \in F : e.position # pos) => Burned(Calls(F), pos) = 0
<1>1. EntrySet(F)
  BY FS_Subset DEF EntrySet
<1>2. CallSet(Calls(F))
  BY <1>1, CallsOfBatch
<1>3. ASSUME NEW e \in F PROVE Burned(Calls(F), e.position) = e.amount
  <2> DEFINE c == [position |-> e.position, amount |-> e.amount]
  <2>1. c \in Calls(F) /\ c.position = e.position /\ c.amount = e.amount
    BY DEF Calls
  <2> HIDE DEF c
  <2>2. Burned(Calls(F), c.position) = c.amount
    BY <1>2, <2>1, BurnedOfCall
  <2> QED
    BY <2>1, <2>2
<1>4. ASSUME NEW pos, \A e \in F : e.position # pos PROVE Burned(Calls(F), pos) = 0
  <2>1. \A c \in Calls(F) : c.position # pos
    BY <1>4 DEF Calls
  <2> QED
    BY <2>1, BurnedOfOther
<1> QED
  BY <1>3, <1>4

(* What a part of the entries leaves behind. *)
LEMMA AfterPart ==
  ASSUME ChainTyped, NEW state \in ChainStates, NEW E, Covered(E, state), NEW F \in SUBSET E
  PROVE  LET new == Executed(state, Calls(F))
         IN  /\ \A e \in F : new.balance[e.position] = 0
             /\ \A pos \in Positions : (\A e \in F : e.position # pos)
                                          => new.balance[pos] = state.balance[pos]
             /\ \A m \in Markets : new.backing[m] = state.backing[m] - PaidTo(m, F)
             /\ \A m \in Markets : PaidTo(m, F) \in Nat
<1> DEFINE new == Executed(state, Calls(F))
<1>0. /\ EntrySet(E) /\ EntrySet(F) /\ \A e \in F : ReadEntry(e)
      /\ state.balance \in [Positions -> Nat] /\ state.backing \in [Markets -> Nat]
  BY FS_Subset DEF Covered, EntrySet, ChainStates
<1>1. ASSUME NEW pos \in Positions
      PROVE  new.balance[pos] = state.balance[pos] - Burned(Calls(F), pos)
  BY DEF Executed
<1>2. ASSUME NEW m \in Markets
      PROVE  new.backing[m] = state.backing[m] - IF Finalized(m) THEN PaidFrom(m, Calls(F)) ELSE 0
  BY DEF Executed
<1>3. ASSUME NEW m \in Markets
      PROVE  /\ PaidTo(m, F) \in Nat
             /\ (IF Finalized(m) THEN PaidFrom(m, Calls(F)) ELSE 0) = PaidTo(m, F)
  <2>1. PaidTo(m, F) = PaidFrom(m, Calls(F))
    BY <1>0, PaidAsPlanned
  <2>2. PaidTo(m, F) \in Nat
    <3>1. F = F \union {} /\ F \cap {} = {}
      OBVIOUS
    <3> QED
      BY <1>0, <3>1, PaidToSplit DEF EntrySet
  <2>3. CASE Finalized(m)
    BY <2>1, <2>2, <2>3
  <2>4. CASE ~Finalized(m)
    <3>1. {e \in F : e.position[1] = m} = {}
      BY <1>0, <2>4 DEF ReadEntry
    <3> DEFINE v == [e \in {e \in F : e.position[1] = m} |-> e.payout]
    <3>2. PaidTo(m, F) = SumFunction(v) /\ DOMAIN v = {}
      BY <3>1 DEF PaidTo
    <3> HIDE DEF v
    <3>3. PaidTo(m, F) = 0
      BY <3>2, SumOver, SumEmpty
    <3> QED
      BY <2>4, <3>3
  <2> QED
    BY <2>3, <2>4
<1> HIDE DEF new
<1>4. ASSUME NEW e \in F PROVE new.balance[e.position] = 0
  <2>1. e.position \in Positions /\ e.amount \in Nat /\ state.balance[e.position] = e.amount
    BY <1>0 DEF Covered, EntrySet, EntryRecords
  <2>2. Burned(Calls(F), e.position) = e.amount
    BY <1>0, BurnedOfEntries
  <2> QED
    BY <1>1, <2>1, <2>2
<1>5. ASSUME NEW pos \in Positions, \A e \in F : e.position # pos
      PROVE  new.balance[pos] = state.balance[pos]
  <2>1. Burned(Calls(F), pos) = 0
    BY <1>0, <1>5, BurnedOfEntries
  <2> QED
    BY <1>0, <1>1, <2>1
<1> QED
  BY <1>2, <1>3, <1>4, <1>5 DEF new

(* Two parts one after the other are both together. *)
LEMMA ExecutesNext ==
  ASSUME ChainTyped, NEW state \in ChainStates, NEW E, Covered(E, state),
         NEW done \in SUBSET E, NEW next \in SUBSET E, done \cap next = {}
  PROVE  LET new == Executed(state, Calls(done))
         IN  /\ Executable(new, Calls(next))
             /\ Executed(new, Calls(next)) = Executed(state, Calls(done \union next))
<1> DEFINE new == Executed(state, Calls(done))
           both == done \union next
<1>0. /\ EntrySet(E) /\ EntrySet(next) /\ EntrySet(both) /\ both \in SUBSET E
      /\ \A e \in E : ReadEntry(e) /\ state.balance[e.position] = e.amount
      /\ \A e \in E : e.position \in Positions /\ e.amount \in Nat
      /\ state.balance \in [Positions -> Nat] /\ state.backing \in [Markets -> Nat]
  BY FS_Subset DEF Covered, EntrySet, EntryRecords, ChainStates
<1>1. /\ \A e \in done : new.balance[e.position] = 0
      /\ \A pos \in Positions : (\A e \in done : e.position # pos)
                                   => new.balance[pos] = state.balance[pos]
      /\ \A m \in Markets : new.backing[m] = state.backing[m] - PaidTo(m, done)
  BY AfterPart
<1>2. \A m \in Markets : /\ PaidTo(m, both) = PaidTo(m, done) + PaidTo(m, next)
                         /\ PaidTo(m, done) \in Nat /\ PaidTo(m, next) \in Nat
  BY <1>0, PaidToSplit DEF EntrySet
<1>3. \A m \in Markets : PaidTo(m, both) <= state.backing[m]
  <2>1. ASSUME NEW m \in Markets PROVE PaidTo(m, both) <= state.backing[m]
    <3>1. E = both \union (E \ both) /\ both \cap (E \ both) = {}
      OBVIOUS
    <3> HIDE DEF both
    <3>2. /\ PaidTo(m, E) = PaidTo(m, both) + PaidTo(m, E \ both)
          /\ PaidTo(m, both) \in Nat /\ PaidTo(m, E \ both) \in Nat
      BY <1>0, <3>1, PaidToSplit DEF EntrySet
    <3>3. PaidTo(m, E) <= state.backing[m] /\ state.backing[m] \in Nat
      BY <1>0 DEF Covered
    <3> QED
      BY <3>2, <3>3
  <2> QED
    BY <2>1
<1>4. \A e \in next : \A f \in done : f.position # e.position
  BY <1>0 DEF EntrySet
<1>5. \A m : PaidFrom(m, Calls(next)) = PaidTo(m, next)
  <2>1. \A e \in next : ReadEntry(e)
    BY <1>0
  <2> QED
    BY <1>0, <2>1, PaidAsPlanned
<1>6. Executable(new, Calls(next))
  <2>1. ASSUME NEW c \in Calls(next)
        PROVE  Finalized(c.position[1]) /\ new.balance[c.position] >= c.amount
    <3>1. PICK e \in next : c = [position |-> e.position, amount |-> e.amount]
      BY DEF Calls
    <3>2. Finalized(e.position[1]) /\ e.position \in Positions /\ e.amount \in Nat
      BY <1>0 DEF ReadEntry
    <3>3. new.balance[e.position] = e.amount
      BY <1>0, <1>1, <1>4, <3>2
    <3> HIDE DEF new
    <3> QED
      BY <3>1, <3>2, <3>3
  <2>2. ASSUME NEW m \in Markets PROVE PaidFrom(m, Calls(next)) <= new.backing[m]
    <3>1. state.backing[m] \in Nat
      BY <1>0
    <3> HIDE DEF new, both
    <3> QED
      BY <1>1, <1>2, <1>3, <1>5, <3>1
  <2> QED
    BY <2>1, <2>2, Zenon DEF Executable
<1>7. Executed(new, Calls(next)) = Executed(state, Calls(both))
  <2>1. ASSUME NEW pos \in Positions
        PROVE  new.balance[pos] - Burned(Calls(next), pos) = state.balance[pos] - Burned(Calls(both), pos)
    <3>1. CASE \E e \in done : e.position = pos
      <4>1. PICK e \in done : e.position = pos
        BY <3>1
      <4>2. Burned(Calls(both), e.position) = e.amount
        BY <1>0, BurnedOfEntries
      <4>3. Burned(Calls(next), pos) = 0
        BY <1>0, <1>4, <4>1, BurnedOfEntries
      <4>4. state.balance[pos] = e.amount /\ e.amount \in Nat /\ new.balance[pos] = 0
        BY <1>0, <1>1, <4>1
      <4> HIDE DEF new, both
      <4> QED
        BY <4>1, <4>2, <4>3, <4>4
    <3>2. CASE ~ \E e \in done : e.position = pos
      <4>1. new.balance[pos] = state.balance[pos]
        BY <1>1, <3>2
      <4>2. CASE \E e \in next : e.position = pos
        <5>1. PICK e \in next : e.position = pos
          BY <4>2
        <5>2. Burned(Calls(both), e.position) = e.amount /\ Burned(Calls(next), e.position) = e.amount
          BY <1>0, BurnedOfEntries
        <5> HIDE DEF new, both
        <5> QED
          BY <4>1, <5>1, <5>2
      <4>3. CASE ~ \E e \in next : e.position = pos
        <5>1. Burned(Calls(both), pos) = 0 /\ Burned(Calls(next), pos) = 0
          BY <1>0, <3>2, <4>3, BurnedOfEntries
        <5> HIDE DEF new, both
        <5> QED
          BY <4>1, <5>1
      <4> QED
        BY <4>2, <4>3
    <3> QED
      BY <3>1, <3>2
  <2>2. \A e \in both : ReadEntry(e)
    BY <1>0
  <2>3. \A m : PaidFrom(m, Calls(both)) = PaidTo(m, both)
    <3> HIDE DEF both
    <3> QED
      BY <1>0, <2>2, PaidAsPlanned
  <2> DEFINE paid(m, calls) == IF Finalized(m) THEN PaidFrom(m, calls) ELSE 0
  <2>4. ASSUME NEW m \in Markets
        PROVE  new.backing[m] - paid(m, Calls(next)) = state.backing[m] - paid(m, Calls(both))
    <3>1. state.backing[m] \in Nat
      BY <1>0
    <3>2. new.backing[m] = state.backing[m] - PaidTo(m, done)
      BY <1>1
    <3>3. CASE Finalized(m)
      <4>1. paid(m, Calls(next)) = PaidTo(m, next) /\ paid(m, Calls(both)) = PaidTo(m, both)
        BY <1>5, <2>3, <3>3
      <4> HIDE DEF new, both, paid
      <4> QED
        BY <1>2, <3>1, <3>2, <4>1
    <3>4. CASE ~Finalized(m)
      <4>1. paid(m, Calls(next)) = 0 /\ paid(m, Calls(both)) = 0
        BY <3>4
      <4>2. new.backing[m] = state.backing[m]
        <5>1. new.backing[m] = state.backing[m] - paid(m, Calls(done))
          BY DEF Executed
        <5>2. paid(m, Calls(done)) = 0
          BY <3>4
        <5> HIDE DEF new, both, paid
        <5> QED
          BY <3>1, <5>1, <5>2
      <4> HIDE DEF new, both, paid
      <4> QED
        BY <3>1, <4>1, <4>2
    <3> QED
      BY <3>3, <3>4
  <2> HIDE DEF new, both
  <2>5. [pos \in Positions |-> new.balance[pos] - Burned(Calls(next), pos)]
           = [pos \in Positions |-> state.balance[pos] - Burned(Calls(both), pos)]
    BY <2>1
  <2>6. [m \in Markets |-> new.backing[m] - paid(m, Calls(next))]
           = [m \in Markets |-> state.backing[m] - paid(m, Calls(both))]
    <3> HIDE DEF paid
    <3> QED
      BY <2>4
  <2> QED
    BY <2>5, <2>6, Zenon DEF Executed
<1> QED
  BY <1>6, <1>7

LEMMA NothingExecuted ==
  ASSUME result \in [Markets -> Results], NEW state \in ChainStates
  PROVE  Executed(state, {}) = state
<1>1. state.balance \in [Positions -> Nat] /\ state.backing \in [Markets -> Nat]
  BY DEF ChainStates
<1>2. state = [balance |-> state.balance, backing |-> state.backing]
  BY DEF ChainStates
<1> DEFINE paid(m) == IF Finalized(m) THEN PaidFrom(m, {}) ELSE 0
<1>3. ASSUME NEW pos \in Positions PROVE state.balance[pos] - Burned({}, pos) = state.balance[pos]
  <2>1. Burned({}, pos) = 0
    BY BurnedOfOther
  <2> QED
    BY <1>1, <2>1
<1>4. ASSUME NEW m \in Markets PROVE state.backing[m] - paid(m) = state.backing[m]
  <2>1. paid(m) = 0
    <3> DEFINE v == [c \in {c \in {} : c.position[1] = m} |-> ContractPays(c)]
    <3>1. PaidFrom(m, {}) = SumFunction(v) /\ DOMAIN v = {}
      BY DEF PaidFrom
    <3> HIDE DEF v
    <3>2. PaidFrom(m, {}) = 0
      BY <3>1, SumOver, SumEmpty
    <3> QED
      BY <3>2
  <2> HIDE DEF paid
  <2> QED
    BY <1>1, <2>1
<1>5. [pos \in Positions |-> state.balance[pos] - Burned({}, pos)] = state.balance
  BY <1>1, <1>3
<1>6. [m \in Markets |-> state.backing[m] - paid(m)] = state.backing
  <2> HIDE DEF paid
  <2> QED
    BY <1>1, <1>4
<1> QED
  BY <1>2, <1>5, <1>6, Zenon DEF Executed

(* The slices are apart and together take every place. *)
LEMMA SliceOf ==
  ASSUME NEW n \in Nat, NEW j \in 0 .. n - 1
  PROVE  \E k \in 1 .. (n + MaxEntries - 1) \div MaxEntries :
            j \in (k - 1) * MaxEntries .. k * MaxEntries - 1
<1> DEFINE q == (n + MaxEntries - 1) \div MaxEntries
           i == j \div MaxEntries
<1>1. q \in Int /\ n + MaxEntries - 1 < q * MaxEntries + MaxEntries
  OBVIOUS
<1>2. i \in Nat /\ i * MaxEntries <= j /\ j < i * MaxEntries + MaxEntries
  OBVIOUS
<1> HIDE DEF q, i
<1>3. i < q
  <2> SUFFICES ASSUME q <= i PROVE FALSE
    BY <1>1, <1>2
  <2>1. q * MaxEntries <= i * MaxEntries
    BY <1>1, <1>2
  <2> QED
    BY <1>1, <1>2, <2>1
<1>4. i + 1 \in 1 .. q /\ (i + 1) - 1 = i /\ (i + 1) * MaxEntries = i * MaxEntries + MaxEntries
  BY <1>1, <1>2, <1>3
<1>5. j \in ((i + 1) - 1) * MaxEntries .. (i + 1) * MaxEntries - 1
  BY <1>2, <1>4
<1> QED
  BY <1>4, <1>5 DEF q

LEMMA SlicesApart ==
  ASSUME NEW i \in Nat, NEW k \in Nat, i < k,
         NEW j \in (i - 1) * MaxEntries .. i * MaxEntries - 1
  PROVE  j \notin (k - 1) * MaxEntries .. k * MaxEntries - 1
<1>1. i * MaxEntries <= (k - 1) * MaxEntries
  BY i <= k - 1
<1> QED
  BY <1>1

LEMMA BatchesPartition ==
  ASSUME NEW entries, EntrySet(entries)
  PROVE  LET batches == CreateBatches(entries)
         IN  /\ \A e \in entries : \E k \in DOMAIN batches : e \in batches[k]
             /\ \A i, k \in DOMAIN batches : i < k => batches[i] \cap batches[k] = {}
<1> DEFINE Batch(k) == {e \in entries :
                           Rank(e, entries) \in (k - 1) * MaxEntries .. k * MaxEntries - 1}
           count == BatchCount(entries)
<1>0. CreateBatches(entries) = [k \in 1 .. count |-> Batch(k)]
  BY DEF CreateBatches
<1>1. ASSUME NEW e \in entries PROVE \E k \in 1 .. count : e \in Batch(k)
  <2> DEFINE n == Cardinality(entries)
             j == Rank(e, entries)
  <2>1. n \in Nat /\ j \in 0 .. n - 1 /\ count = (n + MaxEntries - 1) \div MaxEntries
    BY RankFacts DEF BatchCount
  <2> HIDE DEF n, j, count
  <2>2. PICK k \in 1 .. count : j \in (k - 1) * MaxEntries .. k * MaxEntries - 1
    BY <2>1, SliceOf
  <2>3. e \in Batch(k)
    BY <2>2, Zenon DEF j
  <2> HIDE DEF Batch
  <2> QED
    BY <2>3
<1>2. ASSUME NEW i \in 1 .. count, NEW k \in 1 .. count, i < k PROVE Batch(i) \cap Batch(k) = {}
  <2> SUFFICES ASSUME NEW e \in Batch(i), e \in Batch(k) PROVE FALSE
    BY Zenon
  <2>1. i \in Nat /\ k \in Nat
    <3>1. count \in Nat
      BY RankFacts DEF BatchCount
    <3> HIDE DEF count
    <3> QED
      BY <3>1
  <2>2. PICK j : j = Rank(e, entries)
    OBVIOUS
  <2>3. /\ j \in (i - 1) * MaxEntries .. i * MaxEntries - 1
        /\ j \in (k - 1) * MaxEntries .. k * MaxEntries - 1
    BY <2>2, Zenon
  <2> QED
    BY <1>2, <2>1, <2>3, SlicesApart
<1> HIDE DEF Batch, count
<1> QED
  BY <1>0, <1>1, <1>2

(* The entries of the first k batches. *)
Taken(k) == UNION {plan[b] : b \in 1 .. k}

LEMMA TakenNext ==
  ASSUME NEW E, EntrySet(E), plan = CreateBatches(E), plan \in Seq(SUBSET E)
  PROVE  /\ Taken(0) = {} /\ Taken(Len(plan)) = E
         /\ \A k \in 1 .. Len(plan) : /\ Taken(k) = Taken(k - 1) \union plan[k]
                                      /\ Taken(k - 1) \cap plan[k] = {}
                                      /\ Taken(k - 1) \in SUBSET E /\ plan[k] \in SUBSET E
<1>0. Len(plan) \in Nat /\ DOMAIN plan = 1 .. Len(plan) /\ \A k \in 1 .. Len(plan) : plan[k] \in SUBSET E
  OBVIOUS
<1>1. /\ \A e \in E : \E k \in DOMAIN plan : e \in plan[k]
      /\ \A i, k \in DOMAIN plan : i < k => plan[i] \cap plan[k] = {}
  BY BatchesPartition
<1>2. Taken(0) = {}
  <2>1. 1 .. 0 = {}
    OBVIOUS
  <2> QED
    BY <2>1 DEF Taken
<1>3. Taken(Len(plan)) = E
  <2>1. Taken(Len(plan)) \subseteq E
    BY <1>0 DEF Taken
  <2>2. E \subseteq Taken(Len(plan))
    BY <1>0, <1>1 DEF Taken
  <2> QED
    BY <2>1, <2>2
<1>4. ASSUME NEW k \in 1 .. Len(plan)
      PROVE  /\ Taken(k) = Taken(k - 1) \union plan[k]
             /\ Taken(k - 1) \cap plan[k] = {}
             /\ Taken(k - 1) \in SUBSET E
  <2>1. 1 .. k = (1 .. (k - 1)) \union {k} /\ 1 .. (k - 1) \subseteq 1 .. Len(plan)
    BY <1>0
  <2>2. Taken(k) = Taken(k - 1) \union plan[k]
    BY <2>1 DEF Taken
  <2>3. \A i \in 1 .. (k - 1) : i \in DOMAIN plan /\ k \in DOMAIN plan /\ i < k
    BY <1>0
  <2>4. \A i \in 1 .. (k - 1) : plan[i] \cap plan[k] = {}
    BY <1>1, <2>3
  <2>5. Taken(k - 1) \cap plan[k] = {}
    BY <2>4 DEF Taken
  <2>6. Taken(k - 1) \in SUBSET E
    BY <1>0, <2>1 DEF Taken
  <2> QED
    BY <2>2, <2>5, <2>6
<1> QED
  BY <1>0, <1>2, <1>3, <1>4

(* The batches of covered entries are executed one after the other, and    *)
(* leave behind what the entries do together.  AfterBatches is what solves *)
(* its recursion; that there is a solution is shown by giving it.          *)
LEMMA PlanExecutes ==
  ASSUME ChainTyped, NEW E, Covered(E, Tip), plan = CreateBatches(E)
  PROVE  AfterPlan = [ok |-> TRUE, state |-> Executed(Tip, Calls(E))]
<1> DEFINE start == [ok |-> TRUE, state |-> Tip]
           Do(done, batch) ==
              IF done.ok /\ Executable(done.state, Calls(batch))
              THEN [ok |-> TRUE, state |-> Executed(done.state, Calls(batch))]
              ELSE [ok |-> FALSE, state |-> done.state]
           Steps(f) == [k \in 0 .. Len(plan) |-> IF k = 0 THEN start ELSE Do(f[k - 1], plan[k])]
           Done(k) == [ok |-> TRUE, state |-> Executed(Tip, Calls(Taken(k)))]
           run == [k \in 0 .. Len(plan) |-> Done(k)]
<1>0. /\ EntrySet(E) /\ plan \in Seq(SUBSET E) /\ Len(plan) \in Nat
      /\ Tip \in ChainStates /\ result \in [Markets -> Results]
  <2>1. EntrySet(E)
    BY DEF Covered
  <2>2. plan \in Seq(SUBSET E)
    BY <2>1, BatchesSound
  <2>3. Tip \in ChainStates
    BY DEF Tip, ChainTyped
  <2> QED
    BY <2>1, <2>2, <2>3 DEF ChainTyped
<1>1. /\ Taken(0) = {} /\ Taken(Len(plan)) = E
      /\ \A k \in 1 .. Len(plan) : /\ Taken(k) = Taken(k - 1) \union plan[k]
                                   /\ Taken(k - 1) \cap plan[k] = {}
                                   /\ Taken(k - 1) \in SUBSET E /\ plan[k] \in SUBSET E
  BY <1>0, TakenNext
<1>2. Done(0) = start
  <2>1. Calls(Taken(0)) = {}
    BY <1>1 DEF Calls
  <2> QED
    BY <1>0, <2>1, NothingExecuted
<1>3. ASSUME NEW k \in 1 .. Len(plan) PROVE Do(Done(k - 1), plan[k]) = Done(k)
  <2> DEFINE state == Executed(Tip, Calls(Taken(k - 1)))
  <2>1. /\ Taken(k - 1) \in SUBSET E /\ plan[k] \in SUBSET E
        /\ Taken(k - 1) \cap plan[k] = {} /\ Taken(k - 1) \union plan[k] = Taken(k)
    BY <1>1
  <2>2. /\ Executable(state, Calls(plan[k]))
        /\ Executed(state, Calls(plan[k])) = Executed(Tip, Calls(Taken(k - 1) \union plan[k]))
    <3>1. PICK done \in SUBSET E : done = Taken(k - 1)
      BY <2>1
    <3>2. PICK next \in SUBSET E : next = plan[k]
      BY <2>1
    <3>3. done \cap next = {}
      BY <2>1, <3>1, <3>2
    <3>4. /\ Executable(Executed(Tip, Calls(done)), Calls(next))
          /\ Executed(Executed(Tip, Calls(done)), Calls(next)) = Executed(Tip, Calls(done \union next))
      BY <1>0, <3>3, ExecutesNext
    <3> QED
      BY <3>1, <3>2, <3>4
  <2>3. Done(k - 1).ok /\ Done(k - 1).state = state
    OBVIOUS
  <2> HIDE DEF state
  <2> QED
    BY <2>1, <2>2, <2>3, Zenon
<1>4. AfterBatches = CHOOSE f : f = Steps(f)
  BY Zenon DEF AfterBatches
<1> HIDE DEF Do, Done, start
<1>5. run = Steps(run)
  <2>1. ASSUME NEW k \in 0 .. Len(plan), k # 0 PROVE run[k] = Do(run[k - 1], plan[k])
    <3>1. k \in 1 .. Len(plan) /\ k - 1 \in 0 .. Len(plan)
      BY <1>0, <2>1
    <3> QED
      BY <1>3, <3>1
  <2>2. run[0] = start
    BY <1>0, <1>2
  <2>3. \A k \in 0 .. Len(plan) : run[k] = IF k = 0 THEN start ELSE Do(run[k - 1], plan[k])
    BY <2>1, <2>2
  <2>4. run = [k \in 0 .. Len(plan) |-> run[k]]
    OBVIOUS
  <2> HIDE DEF run
  <2> QED
    BY <2>3, <2>4
<1>6. AfterBatches = Steps(AfterBatches)
  <2> HIDE DEF run, Steps
  <2> QED
    BY <1>4, <1>5, Zenon
<1>7. /\ AfterBatches[0] = start
      /\ \A k \in 1 .. Len(plan) : AfterBatches[k] = Do(AfterBatches[k - 1], plan[k])
  <2>1. PICK f : f = AfterBatches
    OBVIOUS
  <2>2. f = Steps(f)
    BY <1>6, <2>1, Zenon
  <2>3. ASSUME NEW k \in 0 .. Len(plan)
        PROVE  f[k] = IF k = 0 THEN start ELSE Do(f[k - 1], plan[k])
    <3>1. Steps(f)[k] = IF k = 0 THEN start ELSE Do(f[k - 1], plan[k])
      OBVIOUS
    <3> QED
      BY <2>2, <3>1, Zenon
  <2>4. f[0] = start
    <3>1. 0 \in 0 .. Len(plan)
      BY <1>0
    <3> QED
      BY <2>3, <3>1
  <2>5. ASSUME NEW k \in 1 .. Len(plan) PROVE f[k] = Do(f[k - 1], plan[k])
    <3>1. k \in 0 .. Len(plan) /\ k # 0
      BY <1>0
    <3> QED
      BY <2>3, <3>1
  <2> QED
    BY <2>1, <2>4, <2>5
<1> DEFINE B == {k \in 0 .. Len(plan) : AfterBatches[k] # Done(k)}
<1>8. B = {}
  <2> SUFFICES ASSUME B # {} PROVE FALSE
    OBVIOUS
  <2>1. PICK k \in B : \A i \in B : k <= i
    <3>1. B \subseteq Nat
      BY <1>0
    <3> HIDE DEF B
    <3> QED
      BY <3>1, LeastNumber
  <2>2. k \in 0 .. Len(plan) /\ AfterBatches[k] # Done(k)
    OBVIOUS
  <2>3. k \in 1 .. Len(plan)
    BY <1>0, <1>2, <1>7, <2>2
  <2>4. k - 1 \in 0 .. Len(plan) /\ ~(k <= k - 1)
    BY <1>0, <2>3
  <2>5. AfterBatches[k - 1] = Done(k - 1)
    BY <2>1, <2>4
  <2> QED
    BY <1>3, <1>7, <2>2, <2>3, <2>5
<1>9. AfterBatches[Len(plan)] = Done(Len(plan))
  <2>1. Len(plan) \in 0 .. Len(plan)
    BY <1>0
  <2> QED
    BY <1>8, <2>1
<1> QED
  BY <1>1, <1>9 DEF AfterPlan, Done

(* Until it has been simulated, a plan is what the preparation makes of    *)
(* the reads.                                                              *)
PlanMade ==
    stage = "simulate" =>
        /\ \A r \in Listed : balanceRead[r] > 0
        /\ \E venue : plan = CreateBatches(Backed(Entries(venue)))

LEMMA EntriesKept ==
  ASSUME ChainTyped, ScanInv, Grown, UNCHANGED scanVars,
         \A r \in Listed : balanceRead[r] > 0, NEW venue
  PROVE  Listed' = Listed /\ Entries(venue)' = Entries(venue)
<1>1. UNCHANGED <<result, indexed, settlementRead, balanceRead>>
  BY DEF Grown, scanVars
<1>2. Listed' = Listed
  BY <1>1 DEF Listed
<1>3. ASSUME NEW r \in Listed
      PROVE  /\ VerifiedBalance(r)' = VerifiedBalance(r)
             /\ SettlementBacking(RowOf[r][1])' = SettlementBacking(RowOf[r][1])
  <2>1. r \in Rows /\ balanceRead[r] > 0
    BY DEF Listed
  <2>2. /\ Len(blocks) \in Nat /\ balanceRead[r] \in 1 .. Len(blocks)
        /\ settlementRead[RowOf[r][1]] \in 1 .. Len(blocks)
    BY <2>1 DEF ChainTyped, ScanInv
  <2>3. /\ blocks'[balanceRead[r]] = blocks[balanceRead[r]]
        /\ blocks'[settlementRead[RowOf[r][1]]] = blocks[settlementRead[RowOf[r][1]]]
    BY <2>2 DEF Grown
  <2> QED
    BY <1>1, <2>3, Zenon DEF VerifiedBalance, SettlementBacking
<1>4. Assessments' = Assessments /\ Assessments \subseteq Listed
  BY <1>1, <1>2, <1>3 DEF Assessments
<1>5. Eligible(venue)' = Eligible(venue) /\ Eligible(venue) \subseteq Listed
  BY <1>1, <1>4 DEF Eligible, Finalized
<1>6. \A pos : /\ Group(venue, pos)' = Group(venue, pos)
               /\ \A r \in Group(venue, pos) : r \in Listed
  BY <1>5 DEF Group
<1>7. ASSUME NEW pos
      PROVE  /\ Balances(Group(venue, pos))' = Balances(Group(venue, pos))
             /\ Amount(Group(venue, pos))' = Amount(Group(venue, pos))
  <2>1. PICK group : group = Group(venue, pos)
    OBVIOUS
  <2>2. /\ group = Group(venue, pos)'
        /\ \A r \in group : VerifiedBalance(r)' = VerifiedBalance(r)
    BY <1>3, <1>6, <2>1
  <2>3. Balances(group)' = Balances(group)
    BY <2>2 DEF Balances
  <2>4. Amount(group)' = Amount(group)
    <3>1. [r \in group |-> VerifiedBalance(r)'] = [r \in group |-> VerifiedBalance(r)]
      BY <2>2
    <3> QED
      BY <3>1, Zenon DEF Amount
  <2>5. /\ Balances(Group(venue, pos))' = Balances(group)'
        /\ Amount(Group(venue, pos))' = Amount(group)'
    BY <2>2, Zenon DEF Balances, Amount
  <2> QED
    BY <2>1, <2>3, <2>4, <2>5, Zenon
<1>8. \A pos : Sound(Group(venue, pos))' <=> Sound(Group(venue, pos))
  BY <1>7, Zenon DEF Sound
<1>9. ASSUME NEW r \in Eligible(venue)
      PROVE  CreateEntry(venue, RowOf[r])' = CreateEntry(venue, RowOf[r])
  <2>1. PICK pos : pos = RowOf[r]
    OBVIOUS
  <2>2. SettlementBacking(pos[1])' = SettlementBacking(pos[1])
    BY <1>3, <1>5, <2>1
  <2>3. CalculatePayout(pos, Amount(Group(venue, pos)))' = CalculatePayout(pos, Amount(Group(venue, pos)))
    BY <1>1, <1>7, Zenon DEF CalculatePayout
  <2>4. CreateEntry(venue, pos)' = CreateEntry(venue, pos)
    BY <1>7, <2>2, <2>3, Zenon DEF CreateEntry
  <2> QED
    BY <2>1, <2>4
<1>10. Created(venue)' = Created(venue)
  <2>1. Created(venue) = {CreateEntry(venue, RowOf[r]) : r \in Eligible(venue)}
    BY DEF Created
  <2>2. Created(venue)' = {CreateEntry(venue, RowOf[r])' : r \in Eligible(venue)'}
    BY DEF Created
  <2> QED
    BY <1>5, <1>9, <2>1, <2>2
<1>11. Entries(venue)' = Entries(venue)
  BY <1>8, <1>10 DEF Entries
<1> QED
  BY <1>2, <1>11

LEMMA MadeStays ==
  ASSUME ChainTyped, ScanInv, PlanMade, Grown, UNCHANGED <<scanVars, plan>>,
         stage' = "simulate" => stage = "simulate"
  PROVE  PlanMade'
<1> SUFFICES ASSUME stage' = "simulate"
             PROVE  (/\ \A r \in Listed : balanceRead[r] > 0
                     /\ \E venue : plan = CreateBatches(Backed(Entries(venue))))'
  BY DEF PlanMade
<1>1. \A r \in Listed : balanceRead[r] > 0
  BY DEF PlanMade
<1>2. PICK venue : plan = CreateBatches(Backed(Entries(venue)))
  BY DEF PlanMade
<1>3. Listed' = Listed /\ Entries(venue)' = Entries(venue)
  BY <1>1, EntriesKept
<1>4. UNCHANGED <<plan, balanceRead>>
  BY DEF scanVars
<1>5. PICK E : E = Entries(venue)
  OBVIOUS
<1>6. E = Entries(venue)'
  BY <1>3, <1>5
<1>7. plan' = CreateBatches(Backed(E))
  BY <1>2, <1>4, <1>5
<1>8. CreateBatches(Backed(E)) = CreateBatches(Backed(Entries(venue)))'
  BY <1>6, Zenon DEF CreateBatches, Backed, BatchCount, PaidTo, Rank, Before
<1> QED
  BY <1>1, <1>3, <1>4, <1>7, <1>8, Zenon

LEMMA MadeStep == EvidenceInv /\ PlanMade /\ [Next]_vars => PlanMade'
<1> SUFFICES ASSUME EvidenceInv, PlanMade, [Next]_vars PROVE PlanMade'
  OBVIOUS
<1>0. ChainInv /\ ChainTyped /\ ScanInv
  BY DEF EvidenceInv, ChainInv
<1>1. CASE stage' # "simulate"
  BY <1>1, Zenon DEF PlanMade
<1>2. CASE CloseBlock \/ Others
  <2>1. UNCHANGED <<stage, scanVars, claimVars>>
    BY <1>2, Zenon DEF CloseBlock, Others, OwnerTrades, OthersRedeem, RedeemElsewhere
  <2>2. ASSUME CloseBlock PROVE Grown
    BY <1>0, <2>2 DEF CloseBlock, Grown, ChainTyped
  <2>3. ASSUME NEW pos \in Positions, NEW amount \in Amounts, OwnerTrades(pos, amount) PROVE Grown
    BY <1>0, <2>3 DEF OwnerTrades, Grown, ChainTyped
  <2>4. ASSUME NEW m \in Markets, OthersRedeem(m) PROVE Grown
    BY <1>0, <2>4 DEF OthersRedeem, Grown, ChainTyped
  <2>5. ASSUME NEW pos \in Positions, RedeemElsewhere(pos) PROVE Grown
    <3>1. UNCHANGED <<result, blocks>> /\ \E calls : MineCalls(calls, 0)
      BY <2>5, Zenon DEF RedeemElsewhere
    <3>2. PICK calls : MineCalls(calls, 0)
      BY <3>1
    <3> QED
      BY <1>0, <3>1, <3>2, MineGrows
  <2>6. Grown
    BY <1>2, <2>2, <2>3, <2>4, <2>5, Zenon DEF Others
  <2> QED
    BY <1>0, <2>1, <2>6, MadeStays DEF claimVars
<1>3. CASE Scan
  <2>1. stage' = "read"
    BY <1>3, Zenon DEF Scan, Discover, ReadSettlement, ReadBalance
  <2> QED
    BY <2>1, Zenon DEF PlanMade
<1>4. CASE Prepare
  <2>1. CASE Refuse
    BY <2>1, Zenon DEF Refuse, PlanMade
  <2>2. CASE ~Refuse
    <3>1. \A r \in Listed : balanceRead[r] > 0
      BY <1>4 DEF Prepare
    <3>2. PICK first \in ClaimCandidates :
             /\ plan' = CreateBatches(Backed(Entries(Venue[RowOf[first][1]])))
             /\ UNCHANGED <<chainVars, scanVars>>
      BY <1>4, <2>2, Zenon DEF Prepare
    <3>3. PICK venue : venue = Venue[RowOf[first][1]]
      OBVIOUS
    <3>4. Grown
      BY <1>0, <3>2, ChainStays
    <3>5. Listed' = Listed /\ Entries(venue)' = Entries(venue)
      BY <1>0, <3>1, <3>2, <3>4, EntriesKept
    <3>6. PICK E : E = Entries(venue)
      OBVIOUS
    <3>7. plan' = CreateBatches(Backed(E)) /\ E = Entries(venue)'
      BY <3>2, <3>3, <3>5, <3>6
    <3>8. CreateBatches(Backed(E)) = CreateBatches(Backed(Entries(venue)))'
      BY <3>7, Zenon DEF CreateBatches, Backed, BatchCount, PaidTo, Rank, Before
    <3>9. UNCHANGED balanceRead
      BY <3>2 DEF scanVars
    <3> QED
      BY <3>1, <3>5, <3>7, <3>8, <3>9, Zenon DEF PlanMade
  <2> QED
    BY <2>1, <2>2
<1>5. CASE Simulate
  <2>1. CASE Refuse
    BY <2>1, Zenon DEF Refuse, PlanMade
  <2>2. CASE ~Refuse
    <3>1. stage = "simulate" /\ UNCHANGED <<chainVars, scanVars, plan>>
      BY <1>5, <2>2, Zenon DEF Simulate
    <3>2. Grown
      BY <1>0, <3>1, ChainStays
    <3> QED
      BY <1>0, <3>1, <3>2, MadeStays
  <2> QED
    BY <2>1, <2>2
<1>6. CASE SendBatch \/ \E b \in DOMAIN plan : \E t \in ReceiptsOf(b) : Reconcile(b, t)
  <2>1. stage' = "ready"
    BY <1>6, Zenon DEF SendBatch, Reconcile
  <2> QED
    BY <2>1, Zenon DEF PlanMade
<1>7. CASE UNCHANGED vars
  <2>1. UNCHANGED <<chainVars, stage, scanVars, claimVars>>
    BY <1>7 DEF vars
  <2>2. Grown
    BY <1>0, <2>1, ChainStays
  <2> QED
    BY <1>0, <2>1, <2>2, MadeStays DEF claimVars
<1> QED
  BY <1>2, <1>3, <1>4, <1>5, <1>6, <1>7, Zenon DEF Next

LEMMA MadeAlways == Spec => []PlanMade
<1>1. Init => PlanMade
  BY DEF Init, PlanMade
<1> QED
  BY <1>1, MadeStep, EvidenceAlways, PTL DEF Spec

LEMMA PaysNothing ==
  ASSUME result \in [Markets -> Results], NEW pos \in Positions, Finalized(pos[1])
  PROVE  ContractPays([position |-> pos, amount |-> 0]) = 0
<1> DEFINE share == Numerators[result[pos[1]]][pos[2] + 1]
<1>1. share \in {0, 1, 2}
  <2>1. result[pos[1]] \in {"first", "second", "void"}
    BY PositionType DEF Finalized, Results
  <2>2. pos[2] + 1 \in {1, 2}
    BY PositionType
  <2>3. /\ Numerators["first"] = <<2, 0>>
        /\ Numerators["second"] = <<0, 2>>
        /\ Numerators["void"] = <<1, 1>>
    BY DEF Numerators, Results
  <2> QED
    BY <2>1, <2>2, <2>3
<1>2. CalculatePayout(pos, 0) = (0 * share) \div Denominator
  BY DEF CalculatePayout
<1> HIDE DEF share
<1>3. (0 * share) \div Denominator = 0
  BY <1>1 DEF Denominator
<1> QED
  BY <1>2, <1>3, ContractPaysPlanned

(* Where the chain still shows what was read, the entries of a venue take  *)
(* what the chain shows.                                                   *)
LEMMA EntriesAsRead ==
  ASSUME ChainTyped, ScanInv, StillAsRead, \A r \in Listed : balanceRead[r] > 0,
         NEW venue, NEW e \in Entries(venue)
  PROVE  /\ ReadEntry(e) /\ Tip.balance[e.position] = e.amount
         /\ e.backing = Tip.backing[e.position[1]] /\ e.position[1] \in Markets
         /\ Venue[e.position[1]] = venue
         /\ [position |-> e.position, amount |-> e.amount]
               \in {[position |-> RowOf[r], amount |-> Tip.balance[RowOf[r]]] : r \in Listed}
<1>1. ReadEntry(e)
  BY EntriesSound
<1>2. PICK r \in Listed : RowOf[r] = e.position /\ VerifiedBalance(r) = e.verifiedBalance
  BY <1>1 DEF ReadEntry
<1>3. Tip.balance[e.position] = e.amount
  BY <1>1, <1>2 DEF StillAsRead, ReadEntry
<1>4. e.position[1] \in ListedMarkets /\ e.position[1] \in Markets
  <2>1. r \in Rows
    BY DEF Listed
  <2> QED
    BY <1>2, <2>1, RowPosition DEF ListedMarkets
<1>5. e.backing = Tip.backing[e.position[1]]
  BY <1>1, <1>4, Zenon DEF StillAsRead, ReadEntry
<1>6. Venue[e.position[1]] = venue
  <2>1. PICK q \in Eligible(venue) : e = CreateEntry(venue, RowOf[q])
    BY DEF Entries, Created
  <2>2. e.position = RowOf[q]
    BY <2>1 DEF CreateEntry
  <2> QED
    BY <2>2 DEF Eligible
<1> QED
  BY <1>1, <1>2, <1>3, <1>4, <1>5, <1>6

LEMMA BackedIsCovered ==
  ASSUME ChainTyped, ScanInv, StillAsRead, \A r \in Listed : balanceRead[r] > 0, NEW venue
  PROVE  Covered(Backed(Entries(venue)), Tip)
<1> DEFINE A == Entries(venue)
           E == Backed(A)
<1>1. EntrySet(A) /\ E \in SUBSET A
  BY EntriesSound DEF Backed
<1>2. \A e \in A : /\ ReadEntry(e) /\ Tip.balance[e.position] = e.amount
                   /\ e.backing = Tip.backing[e.position[1]]
  BY EntriesAsRead
<1>3. Tip \in ChainStates
  BY DEF Tip, ChainTyped
<1>4. \A e \in E : PaidTo(e.position[1], A) <= e.backing
  BY DEF Backed
<1> HIDE DEF A, E
<1>5. EntrySet(E)
  BY <1>1, FS_Subset DEF EntrySet
<1>6. ASSUME NEW m \in Markets PROVE PaidTo(m, E) <= Tip.backing[m]
  <2>1. Tip.backing[m] \in Nat
    BY <1>3 DEF ChainStates
  <2>2. /\ PaidTo(m, A) = PaidTo(m, E) + PaidTo(m, A \ E)
        /\ PaidTo(m, E) \in Nat /\ PaidTo(m, A \ E) \in Nat
    <3>1. A = E \union (A \ E) /\ E \cap (A \ E) = {} /\ IsFiniteSet(A) /\ A \subseteq EntryRecords
      BY <1>1 DEF EntrySet
    <3> QED
      BY <3>1, PaidToSplit
  <2>3. CASE \E e \in E : e.position[1] = m
    <3>1. PICK e \in E : e.position[1] = m
      BY <2>3
    <3>2. PaidTo(m, A) <= e.backing /\ e.backing = Tip.backing[m]
      BY <1>1, <1>2, <1>4, <3>1
    <3> QED
      BY <2>1, <2>2, <3>2
  <2>4. CASE ~ \E e \in E : e.position[1] = m
    <3> DEFINE v == [e \in {e \in E : e.position[1] = m} |-> e.payout]
    <3>1. PaidTo(m, E) = SumFunction(v) /\ DOMAIN v = {}
      BY <2>4 DEF PaidTo
    <3> HIDE DEF v
    <3>2. PaidTo(m, E) = 0
      BY <3>1, SumOver, SumEmpty
    <3> QED
      BY <2>1, <3>2
  <2> QED
    BY <2>3, <2>4
<1>7. \A e \in E : ReadEntry(e) /\ Tip.balance[e.position] = e.amount
  BY <1>1, <1>2
<1>8. Covered(E, Tip)
  BY <1>5, <1>6, <1>7 DEF Covered
<1> QED
  BY <1>8 DEF A, E

(* A position that is listed once and pays has an entry.                   *)
LEMMA PayingIsEntry ==
  ASSUME ChainTyped, ScanInv, StillAsRead, \A r \in Listed : balanceRead[r] > 0,
         NEW venue, NEW pos \in {RowOf[r] : r \in Listed},
         Venue[pos[1]] = venue, Finalized(pos[1]),
         Cardinality({r \in Listed : RowOf[r] = pos}) = 1,
         ContractPays([position |-> pos, amount |-> Tip.balance[pos]]) > 0
  PROVE  \E e \in Entries(venue) : e.position = pos
<1> DEFINE rows == {r \in Listed : RowOf[r] = pos}
           group == Group(venue, pos)
           e == CreateEntry(venue, pos)
<1>1. PICK r \in rows : rows = {r}
  <2>1. IsFiniteSet(rows)
    <3>1. rows \in SUBSET Rows
      BY DEF Listed
    <3> HIDE DEF rows
    <3> QED
      BY <3>1, FS_Subset
  <2>2. Cardinality(rows) = 1
    OBVIOUS
  <2> HIDE DEF rows
  <2>3. PICK x : rows = {x}
    BY <2>1, <2>2, FS_Singleton, Zenon
  <2> QED
    BY <2>3
<1>2. r \in Listed /\ r \in Rows /\ RowOf[r] = pos
  BY DEF Listed
<1>3. /\ VerifiedBalance(r) = Tip.balance[pos] /\ VerifiedBalance(r) = indexed[r]
      /\ VerifiedBalance(r) \in Nat
  BY <1>2, ReadTypes DEF StillAsRead
<1>4. r \in Eligible(venue)
  BY <1>2, <1>3 DEF Eligible, Assessments
<1>5. group = {r}
  <2>1. group \subseteq rows
    BY DEF Group, Eligible, Assessments
  <2>2. r \in group
    BY <1>2, <1>4 DEF Group
  <2> QED
    BY <1>1, <2>1, <2>2, Zenon
<1> HIDE DEF group, rows
<1>6. Amount(group) = VerifiedBalance(r)
  <2> DEFINE v == [q \in group |-> VerifiedBalance(q)]
  <2>1. v[r] = VerifiedBalance(r) /\ DOMAIN v = {r}
    BY <1>5
  <2>2. Amount(group) = SumFunctionOnSet(v, DOMAIN v)
    BY SumOver DEF Amount
  <2> HIDE DEF v
  <2> QED
    BY <1>3, <2>1, <2>2, SumSingleton
<1>7. Balances(group) = {VerifiedBalance(r)}
  BY <1>5 DEF Balances
<1>8. Max(Balances(group)) = VerifiedBalance(r) /\ Cardinality(Balances(group)) = 1
  <2>1. Max({VerifiedBalance(r)}) = VerifiedBalance(r)
    BY <1>3 DEF Max
  <2>2. Cardinality({VerifiedBalance(r)}) = 1
    BY FS_Singleton
  <2> QED
    BY <1>7, <2>1, <2>2
<1>9. Sound(group)
  BY <1>3, <1>6, <1>8 DEF Sound
<1>10. e.position = pos /\ e.payout = CalculatePayout(pos, Amount(group))
  BY DEF CreateEntry, group
<1>11. e.payout > 0
  <2>1. CalculatePayout(pos, Amount(group)) = ContractPays([position |-> pos, amount |-> Tip.balance[pos]])
    BY <1>3, <1>6, ContractPaysPlanned
  <2> QED
    BY <1>10, <2>1
<1>12. e \in Created(venue)
  BY <1>2, <1>4 DEF Created
<1> HIDE DEF e
<1> QED
  BY <1>9, <1>10, <1>11, <1>12 DEF Entries, group

(* What is listed is at least what the entries take. *)
LEMMA ListedPaysEntries ==
  ASSUME ChainTyped, ScanInv, StillAsRead, \A r \in Listed : balanceRead[r] > 0,
         NEW venue, NEW m \in Markets, Finalized(m)
  PROVE  LET listed == {[position |-> RowOf[r], amount |-> Tip.balance[RowOf[r]]] : r \in Listed}
         IN  PaidFrom(m, listed) \in Nat /\ PaidTo(m, Entries(venue)) <= PaidFrom(m, listed)
<1> DEFINE call(r) == [position |-> RowOf[r], amount |-> Tip.balance[RowOf[r]]]
           listed == {call(r) : r \in Listed}
           A == Entries(venue)
<1>1. CallSet(listed)
  <2>1. IsFiniteSet(listed)
    <3> DEFINE f == [r \in Listed |-> call(r)]
    <3>1. f \in Surjection(Listed, listed)
      BY DEF Surjection
    <3>2. Listed \in SUBSET Rows
      BY DEF Listed
    <3>3. IsFiniteSet(Listed)
      BY <3>2, FS_Subset
    <3> HIDE DEF f, listed
    <3> QED
      BY <3>1, <3>3, FS_Surjection
  <2>2. ASSUME NEW r \in Listed PROVE call(r) \in CallRecords
    <3>1. Tip \in ChainStates /\ RowOf[r] \in Positions
      BY RowPosition DEF Tip, ChainTyped, Listed
    <3>2. Tip.balance[RowOf[r]] \in Nat
      BY <3>1 DEF ChainStates
    <3> QED
      BY <3>1, <3>2 DEF CallRecords
  <2>3. \A r, q \in Listed : call(r).position = call(q).position => call(r) = call(q)
    OBVIOUS
  <2> HIDE DEF call
  <2> QED
    BY <2>1, <2>2, <2>3 DEF CallSet
<1>2. EntrySet(A) /\ \A e \in A : ReadEntry(e)
  BY EntriesSound
<1>3. Calls(A) \in SUBSET listed
  <2>1. ASSUME NEW e \in A PROVE [position |-> e.position, amount |-> e.amount] \in listed
    BY EntriesAsRead
  <2> QED
    BY <2>1, Zenon DEF Calls
<1> HIDE DEF A, listed
<1>4. PaidFrom(m, Calls(A)) <= PaidFrom(m, listed) /\ PaidFrom(m, listed) \in Nat
  BY <1>1, <1>3, PaidFromPart, PaidFromType DEF ChainTyped
<1>5. PaidTo(m, A) = PaidFrom(m, Calls(A))
  BY <1>2, PaidAsPlanned
<1> QED
  BY <1>4, <1>5 DEF A, listed

(* A plan whose evidence still holds takes everything: its batches can be  *)
(* executed one after the other, whatever their number and size, they pay  *)
(* what the planner promised, and a position that pays is left out only    *)
(* where the market cannot pay all that the owner has there.               *)
THEOREM EvidencePlanTakesAll == Spec => []PlanTakesAll
<1>1. EvidenceInv /\ PlanMade => PlanTakesAll
  <2> SUFFICES ASSUME EvidenceInv, PlanMade, stage = "simulate", StillAsRead
               PROVE  /\ AfterPlan.ok
                      /\ \A m \in Markets :
                            Tip.backing[m] - AfterPlan.state.backing[m] = PaidTo(m, PlannedEntries)
                      /\ \A venue \in {Venue[e.position[1]] : e \in PlannedEntries} :
                            \A pos \in StillPays(AfterPlan.state, venue) :
                               PaidFrom(pos[1], {[position |-> RowOf[r], amount |-> Tip.balance[RowOf[r]]] :
                                                   r \in Listed}) > Tip.backing[pos[1]]
    BY Zenon DEF PlanTakesAll
  <2>1. ChainTyped /\ ScanInv /\ \A r \in Listed : balanceRead[r] > 0
    BY DEF EvidenceInv, ChainInv, PlanMade
  <2>2. PICK venue : plan = CreateBatches(Backed(Entries(venue)))
    BY DEF PlanMade
  <2> DEFINE A == Entries(venue)
             E == Backed(A)
             after == Executed(Tip, Calls(E))
             listed == {[position |-> RowOf[r], amount |-> Tip.balance[RowOf[r]]] : r \in Listed}
  <2>3. Covered(E, Tip) /\ EntrySet(E)
    BY <2>1, BackedIsCovered DEF Covered
  <2>4. /\ Tip \in ChainStates
        /\ Tip.backing \in [Markets -> Nat]
        /\ result \in [Markets -> Results]
    <3>1. Len(blocks) \in 1 .. Len(blocks) /\ blocks \in Seq(ChainStates)
      BY <2>1 DEF ChainTyped
    <3>2. Tip \in ChainStates
      BY <3>1 DEF Tip
    <3>3. Tip.backing \in [Markets -> Nat]
      BY <3>2 DEF ChainStates
    <3>4. result \in [Markets -> Results]
      BY <2>1 DEF ChainTyped
    <3> QED
      BY <3>2, <3>3, <3>4
  <2>5. \A e \in A : /\ ReadEntry(e) /\ e.backing = Tip.backing[e.position[1]]
                     /\ Venue[e.position[1]] = venue
    BY <2>1, EntriesAsRead
  <2>6. E \in SUBSET A /\ \A e \in A : PaidTo(e.position[1], A) <= e.backing => e \in E
    BY DEF Backed
  <2> HIDE DEF A, E
  <2>7. AfterPlan = [ok |-> TRUE, state |-> after]
    BY <2>1, <2>2, <2>3, PlanExecutes DEF A, E
  <2>8. PlannedEntries = E
    <3>1. plan = CreateBatches(E)
      BY <2>2 DEF A, E
    <3>2. plan \in Seq(SUBSET E)
      BY <2>3, <3>1, BatchesSound
    <3>3. Taken(Len(plan)) = E
      BY <2>3, <3>1, <3>2, TakenNext
    <3>4. Range(plan) = {plan[b] : b \in 1 .. Len(plan)}
      BY <3>2 DEF Range
    <3> QED
      BY <3>3, <3>4 DEF PlannedEntries, Taken
  <2>9. /\ \A e \in E : after.balance[e.position] = 0
        /\ \A pos \in Positions : (\A e \in E : e.position # pos)
                                     => after.balance[pos] = Tip.balance[pos]
        /\ \A m \in Markets : after.backing[m] = Tip.backing[m] - PaidTo(m, E)
        /\ \A m \in Markets : PaidTo(m, E) \in Nat
    BY <2>1, <2>3, <2>4, AfterPart
  <2> HIDE DEF after
  <2>10. ASSUME NEW m \in Markets
         PROVE  Tip.backing[m] - AfterPlan.state.backing[m] = PaidTo(m, PlannedEntries)
    <3>1. AfterPlan.state.backing[m] = after.backing[m]
      BY <2>7
    <3>2. after.backing[m] = Tip.backing[m] - PaidTo(m, E) /\ PaidTo(m, E) \in Nat
      BY <2>9
    <3>3. Tip.backing[m] \in Nat
      BY <2>4
    <3>4. Tip.backing[m] - AfterPlan.state.backing[m] = PaidTo(m, E)
      BY <3>1, <3>2, <3>3
    <3> QED
      BY <3>4, <2>8
  <2>11. ASSUME NEW shop \in {Venue[e.position[1]] : e \in PlannedEntries},
                NEW pos \in StillPays(AfterPlan.state, shop)
         PROVE  PaidFrom(pos[1], listed) > Tip.backing[pos[1]]
    <3>1. shop = venue
      BY <2>5, <2>6, <2>8
    <3>2. /\ pos \in {RowOf[r] : r \in Listed} /\ Venue[pos[1]] = venue /\ Finalized(pos[1])
          /\ Cardinality({r \in Listed : RowOf[r] = pos}) = 1
          /\ ContractPays([position |-> pos, amount |-> after.balance[pos]]) > 0
      BY <2>7, <3>1 DEF StillPays
    <3>3. pos \in Positions /\ pos[1] \in Markets
      BY <3>2, RowPosition DEF Listed
    <3>4. \A e \in E : e.position # pos
      <4> SUFFICES ASSUME NEW e \in E, e.position = pos PROVE FALSE
        OBVIOUS
      <4>1. after.balance[pos] = 0
        BY <2>9
      <4>2. ContractPays([position |-> pos, amount |-> 0]) = 0
        BY <2>4, <3>2, <3>3, PaysNothing
      <4> QED
        BY <3>2, <4>1, <4>2
    <3>5. after.balance[pos] = Tip.balance[pos]
      BY <2>9, <3>3, <3>4
    <3>6. PICK e \in A : e.position = pos
      <4>1. ContractPays([position |-> pos, amount |-> Tip.balance[pos]]) > 0
        BY <3>2, <3>5
      <4> QED
        BY <2>1, <3>2, <4>1, PayingIsEntry DEF A
    <3>7. ~ (PaidTo(pos[1], A) <= Tip.backing[pos[1]])
      BY <2>5, <2>6, <3>4, <3>6
    <3>8. PaidFrom(pos[1], listed) \in Nat /\ PaidTo(pos[1], A) <= PaidFrom(pos[1], listed)
      BY <2>1, <3>2, <3>3, ListedPaysEntries DEF A
    <3>9. PaidTo(pos[1], A) \in Nat
      <4>1. EntrySet(A)
        BY <2>1, EntriesSound DEF A
      <4> QED
        BY <3>6, <4>1, PaidToEntries
    <3>10. Tip.backing[pos[1]] \in Nat
      BY <2>4, <3>3
    <3> HIDE DEF listed
    <3> QED
      BY <3>7, <3>8, <3>9, <3>10
  <2> QED
    BY <2>7, <2>10, <2>11
<1> QED
  BY <1>1, EvidenceAlways, MadeAlways, PTL
=============================================================================
