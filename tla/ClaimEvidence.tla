---------------------------- MODULE ClaimEvidence ----------------------------
(***************************************************************************)
(* How a claim is planned from what was read of a chain that moves on, and *)
(* how its receipts are verified: ClaimRailReadService.readWallet as a     *)
(* claim needs it, prepareClaimPlan, the simulations of                    *)
(* ClaimRailClaimService.prepare, and reconcileClaimReceipt, which         *)
(* compares the chain at the block of a receipt with the evidence of the   *)
(* plan.  Meanwhile the owner trades, other holders redeem, and the same   *)
(* redeemMany is sent from elsewhere.                                      *)
(*                                                                         *)
(* Reads see closed blocks.  Addresses, pools, nonces and fees do not      *)
(* change once a market is finalized and are left out; a market has one    *)
(* settlement bundle per scan, so its positions never disagree about it.   *)
(***************************************************************************)
EXTENDS Integers, Sequences, FiniteSets, FiniteSetsExt, Functions

CONSTANTS
    Markets,        \* numbers, in the order of their ids
    Venue,          \* the venue (and operator) of each market
    Rows, RowOf,    \* outcome balance rows of the indexer, and their positions
    Amounts,        \* balances of the owner, backings of the markets
    Starts,         \* chains to start from, with the result of each market
    MaxEntries,     \* batchPolicy.maxEntries
    MaxBlocks,      \* bound: blocks explored
    MaxMoves        \* bound: trades, foreign redemptions and repeated sends

Positions == {RowOf[r] : r \in Rows}

ASSUME EvidenceAssumption ==
    /\ Markets \subseteq Nat /\ IsFiniteSet(Markets)
    /\ RowOf \in [Rows -> Markets \X {0, 1}] /\ IsFiniteSet(Rows)
    /\ Amounts \subseteq Nat
    /\ Starts \subseteq [result : [Markets -> {"open", "first", "second", "void"}],
                         balance : [Positions -> Nat], backing : [Markets -> Nat]]
    /\ MaxEntries \in Nat \ {0} /\ MaxBlocks \in Nat \ {0} /\ MaxMoves \in Nat

VARIABLES
    \* the chain: the result of each market, the state after each block,
    \* the state inside the block being built, the receipts so far, the
    \* block of the owner's last trade of each position, moves made
    result, blocks, building, receipts, traded, moves,
    \* the preparation: its stage, the balances the indexer listed, the
    \* block at which each settlement and each balance was read
    stage, indexed, settlementRead, balanceRead,
    \* the plan, the batches simulated and sent, the verdict on each batch
    \* and the receipt it rests on
    plan, simulated, sent, verdict

chainVars == <<result, blocks, building, receipts, traded, moves>>
scanVars == <<indexed, settlementRead, balanceRead>>
claimVars == <<plan, simulated, sent, verdict>>
vars == <<chainVars, stage, scanVars, claimVars>>

-----------------------------------------------------------------------------
Results == {"open", "first", "second", "void"}

Stage == {"discover", "read", "simulate", "ready", "refused"}

Denominator == 2

Numerators ==
    [r \in Results \ {"open"} |->
        CASE r = "first"  -> <<2, 0>>
          [] r = "second" -> <<0, 2>>
          [] r = "void"   -> <<1, 1>>]

Finalized(m) == result[m] # "open"

(* calculatePayout: the vector is fee-scaled, the division truncates.      *)
CalculatePayout(pos, amount) ==
    (amount * Numerators[result[pos[1]]][pos[2] + 1]) \div Denominator

-----------------------------------------------------------------------------
(* The contracts: redeemMany burns every amount and pays from the backing  *)
(* of the markets, or reverts as a whole.                                  *)
ContractPays(call) ==
    (call.amount * Numerators[result[call.position[1]]][call.position[2] + 1]) \div Denominator

PaidFrom(m, calls) ==
    SumFunction([c \in {c \in calls : c.position[1] = m} |-> ContractPays(c)])

Executable(state, calls) ==
    /\ \A c \in calls : Finalized(c.position[1]) /\ state.balance[c.position] >= c.amount
    /\ \A m \in Markets : Finalized(m) => PaidFrom(m, calls) <= state.backing[m]

Burned(calls, pos) == SumFunction([c \in {c \in calls : c.position = pos} |-> c.amount])

Executed(state, calls) ==
    [balance |-> [pos \in Positions |-> state.balance[pos] - Burned(calls, pos)],
     backing |-> [m \in Markets |->
        state.backing[m] - IF Finalized(m) THEN PaidFrom(m, calls) ELSE 0]]

Tip == blocks[Len(blocks)]

(* A transaction with these calls is mined in the block being built; it is *)
(* the claim's own for a batch, or not (0).                                *)
MineCalls(calls, batch) ==
    LET ok == Executable(building, calls)
    IN  /\ receipts' = receipts \union
              {[calls |-> calls, batch |-> batch, ok |-> ok, block |-> Len(blocks) + 1]}
        /\ building' = IF ok THEN Executed(building, calls) ELSE building

(* Bound: nothing more is asked of the chain once the preparation was      *)
(* refused or every batch has its verdict.                                 *)
Underway ==
    /\ stage # "refused"
    /\ plan = <<>> \/ \E b \in DOMAIN plan : verdict[b].status = "none"

CloseBlock ==
    /\ Underway /\ Len(blocks) < MaxBlocks
    /\ blocks' = Append(blocks, building)
    /\ UNCHANGED <<result, building, receipts, traded, moves, stage, scanVars, claimVars>>

Move == Underway /\ moves < MaxMoves /\ moves' = moves + 1

(* The owner buys or sells outcome tokens. *)
OwnerTrades(pos, amount) ==
    /\ Move
    /\ amount # building.balance[pos]
    /\ building' = [building EXCEPT !.balance[pos] = amount]
    /\ traded' = [traded EXCEPT ![pos] = Len(blocks) + 1]
    /\ UNCHANGED <<result, blocks, receipts, stage, scanVars, claimVars>>

(* Another holder redeems: the backing of a finalized market only falls.   *)
OthersRedeem(m) ==
    /\ Move
    /\ Finalized(m) /\ building.backing[m] > 0
    /\ building' = [building EXCEPT !.backing[m] = @ - 1]
    /\ UNCHANGED <<result, blocks, receipts, traded, stage, scanVars, claimVars>>

(* The owner redeems a position from elsewhere, with the same calldata as  *)
(* a batch may have, before or after the plan is made.                     *)
RedeemElsewhere(pos) ==
    /\ Move
    /\ building.balance[pos] > 0
    /\ MineCalls({[position |-> pos, amount |-> building.balance[pos]]}, 0)
    /\ UNCHANGED <<result, blocks, traded, stage, scanVars, claimVars>>

-----------------------------------------------------------------------------
(* The indexer lists a row for every balance it knows, maybe some blocks   *)
(* behind, leaving out empty ones, and maybe more than one for a position. *)
Discover(listed, k) ==
    /\ stage = "discover"
    /\ \A r \in Rows : \E l \in listed : RowOf[l] = RowOf[r]
    /\ indexed' = [r \in Rows |-> IF r \in listed THEN blocks[k].balance[RowOf[r]] ELSE 0]
    /\ stage' = "read"
    /\ UNCHANGED <<chainVars, settlementRead, balanceRead, claimVars>>

Listed == {r \in Rows : indexed[r] > 0}

ListedMarkets == {RowOf[r][1] : r \in Listed}

ReadSettlement(m) ==
    /\ stage = "read"
    /\ m \in ListedMarkets /\ settlementRead[m] = 0
    /\ settlementRead' = [settlementRead EXCEPT ![m] = Len(blocks)]
    /\ UNCHANGED <<chainVars, stage, indexed, balanceRead, claimVars>>

(* The balances are read once the markets are reconciled. *)
ReadBalance(r) ==
    /\ stage = "read"
    /\ \A m \in ListedMarkets : settlementRead[m] > 0
    /\ r \in Listed /\ balanceRead[r] = 0
    /\ balanceRead' = [balanceRead EXCEPT ![r] = Len(blocks)]
    /\ UNCHANGED <<chainVars, stage, indexed, settlementRead, claimVars>>

VerifiedBalance(r) == blocks[balanceRead[r]].balance[RowOf[r]]

SettlementBacking(m) == blocks[settlementRead[m]].backing[m]

(* Rows whose balance the chain confirms: the others are conflicts.        *)
Assessments == {r \in Listed : VerifiedBalance(r) = indexed[r]}

ClaimCandidates ==
    {r \in Assessments : /\ Finalized(RowOf[r][1])
                         /\ CalculatePayout(RowOf[r], VerifiedBalance(r)) > 0}

(* Rows of the venue of the plan whose market is finalized, and those of   *)
(* one position.                                                           *)
Eligible(venue) ==
    {r \in Assessments : Finalized(RowOf[r][1]) /\ Venue[RowOf[r][1]] = venue}

Group(venue, pos) == {r \in Eligible(venue) : RowOf[r] = pos}

Balances(group) == {VerifiedBalance(r) : r \in group}

(* createEntry: duplicates of a position are added up. *)
Amount(group) == SumFunction([r \in group |-> VerifiedBalance(r)])

CreateEntry(venue, pos) ==
    LET group == Group(venue, pos)
    IN  [position |-> pos, amount |-> Amount(group),
         verifiedBalance |-> Max(Balances(group)),
         backing |-> SettlementBacking(pos[1]),
         payout |-> CalculatePayout(pos, Amount(group))]

(* The exclusions of one position: its rows disagree about the balance, or *)
(* add up to more than it.                                                 *)
Sound(group) == Cardinality(Balances(group)) = 1 /\ Amount(group) <= Max(Balances(group))

Created(venue) == {CreateEntry(venue, pos) : pos \in {RowOf[r] : r \in Eligible(venue)}}

(* Mutant: duplicates are not compared with the balance they share. *)
EntriesUncapped(venue) == {e \in Created(venue) : e.payout > 0}

(* What belongs to the venue, is not excluded and pays something. *)
Entries(venue) ==
    {e \in Created(venue) : Sound(Group(venue, e.position)) /\ e.payout > 0}

(* What the entries of a market are to be paid. *)
PaidTo(m, entries) == SumFunction([e \in {e \in entries : e.position[1] = m} |-> e.payout])

(* Mutant: each position is compared with the backing on its own.          *)
BackedOneByOne(entries) == {e \in entries : e.payout <= e.backing}

(* reconcileSettlementBacking: a market whose entries together exceed the  *)
(* backing is left out as a whole.                                         *)
Backed(entries) ==
    {e \in entries : PaidTo(e.position[1], entries) <= e.backing}

Before(e, f) ==
    \/ e.position[1] < f.position[1]
    \/ e.position[1] = f.position[1] /\ e.position[2] < f.position[2]

(* The place of an entry in the order of their identities, from 0. *)
Rank(e, entries) == Cardinality({f \in entries : Before(f, e)})

BatchCount(entries) == (Cardinality(entries) + MaxEntries - 1) \div MaxEntries

(* Mutant: the slice ends one entry late. *)
CreateBatchesOneOver(entries) ==
    [k \in 1 .. BatchCount(entries) |->
        {e \in entries : Rank(e, entries) \in (k - 1) * MaxEntries .. k * MaxEntries}]

(* createBatches: the entries in the order of their identities, at most    *)
(* MaxEntries to a batch.                                                  *)
CreateBatches(entries) ==
    [k \in 1 .. BatchCount(entries) |->
        {e \in entries : Rank(e, entries) \in (k - 1) * MaxEntries .. k * MaxEntries - 1}]

Calls(batch) == {[position |-> e.position, amount |-> e.amount] : e \in batch}

Refuse ==
    /\ stage' = "refused"
    /\ UNCHANGED <<chainVars, scanVars, claimVars>>

(* prepare: the first candidate gives the plan its venue.  Without a       *)
(* candidate, or without an entry, the preparation throws.                 *)
Prepare ==
    /\ stage = "read"
    /\ \A r \in Listed : balanceRead[r] > 0
    /\ IF ClaimCandidates = {} THEN Refuse
       ELSE \E first \in ClaimCandidates :
              LET batches == CreateBatches(Backed(Entries(Venue[RowOf[first][1]])))
              IN  IF batches = <<>> THEN Refuse
                  ELSE /\ plan' = batches
                       /\ verdict' = [b \in DOMAIN batches |-> [status |-> "none"]]
                       /\ stage' = "simulate"
                       /\ UNCHANGED <<chainVars, scanVars, simulated, sent>>

(* Every batch is simulated by itself at the latest block; one that        *)
(* reverts there fails the preparation.                                    *)
Simulate ==
    /\ stage = "simulate"
    /\ IF ~Executable(Tip, Calls(plan[simulated + 1])) THEN Refuse
       ELSE /\ simulated' = simulated + 1
            /\ stage' = IF simulated' = Len(plan) THEN "ready" ELSE "simulate"
            /\ UNCHANGED <<chainVars, scanVars, plan, sent, verdict>>

-----------------------------------------------------------------------------
(* The closed receipts of transactions with the calldata of a batch.       *)
ReceiptsOf(b) ==
    {t \in receipts : t.calls = Calls(plan[b]) /\ t.block <= Len(blocks)}

(* The browser sends the batches in order and waits for the receipt of     *)
(* each, whatever it says, before the next.                                *)
SendBatch ==
    /\ stage = "ready" /\ sent < Len(plan)
    /\ sent > 0 => \E t \in ReceiptsOf(sent) : t.batch = sent
    /\ MineCalls(Calls(plan[sent + 1]), sent + 1)
    /\ sent' = sent + 1
    /\ UNCHANGED <<result, blocks, traded, moves, stage, scanVars, plan, simulated, verdict>>

(* What the log of a successful transaction says of an entry.              *)
RedeemedAsPlanned(t, entry) ==
    \E c \in t.calls :
        /\ c.position = entry.position /\ c.amount = entry.amount
        /\ ContractPays(c) = entry.payout

BalanceFell(t, entry) ==
    blocks[t.block].balance[entry.position] = entry.verifiedBalance - entry.amount

(* Mutants: the backing is not compared, or must have fallen exactly.      *)
BackingUnchecked(t, entry, batch) == TRUE

BackingFellExactly(t, entry, batch) ==
    blocks[t.block].backing[entry.position[1]] = entry.backing - PaidTo(entry.position[1], batch)

BackingFell(t, entry, batch) ==
    blocks[t.block].backing[entry.position[1]] <= entry.backing - PaidTo(entry.position[1], batch)

(* reconcileClaimReceipt on a receipt: recordSubmission accepted its hash, *)
(* so the transaction carries the calldata of the batch.                   *)
Confirms(b, t) ==
    /\ t.ok
    /\ \A e \in plan[b] :
          RedeemedAsPlanned(t, e) /\ BalanceFell(t, e) /\ BackingFell(t, e, plan[b])

Reconcile(b, t) ==
    /\ stage = "ready" /\ b <= Len(plan) /\ verdict[b].status = "none"
    /\ t \in ReceiptsOf(b)
    /\ verdict' = [verdict EXCEPT ![b] =
                      [status |-> IF Confirms(b, t) THEN "confirmed" ELSE "failed",
                       receipt |-> t]]
    /\ UNCHANGED <<chainVars, stage, scanVars, plan, simulated, sent>>

-----------------------------------------------------------------------------
Init ==
    /\ \E start \in Starts :
          /\ result = start.result
          /\ building = [balance |-> start.balance, backing |-> start.backing]
    /\ blocks = <<building>>
    /\ receipts = {}
    /\ traded = [pos \in Positions |-> 0]
    /\ moves = 0
    /\ stage = "discover"
    /\ indexed = [r \in Rows |-> 0]
    /\ settlementRead = [m \in Markets |-> 0]
    /\ balanceRead = [r \in Rows |-> 0]
    /\ plan = <<>> /\ simulated = 0 /\ sent = 0 /\ verdict = <<>>

Scan ==
    \/ \E listed \in SUBSET Rows, k \in DOMAIN blocks : Discover(listed, k)
    \/ \E m \in Markets : ReadSettlement(m)
    \/ \E r \in Rows : ReadBalance(r)

Others ==
    \/ \E pos \in Positions, amount \in Amounts : OwnerTrades(pos, amount)
    \/ \E m \in Markets : OthersRedeem(m)
    \/ \E pos \in Positions : RedeemElsewhere(pos)

Next ==
    \/ CloseBlock \/ Others
    \/ Scan \/ Prepare \/ Simulate
    \/ SendBatch
    \/ \E b \in DOMAIN plan : \E t \in ReceiptsOf(b) : Reconcile(b, t)

Spec == Init /\ [][Next]_vars

-----------------------------------------------------------------------------
ChainStates == [balance : [Positions -> Nat], backing : [Markets -> Nat]]

TypeOK ==
    /\ result \in [Markets -> Results]
    /\ blocks \in Seq(ChainStates) /\ Len(blocks) \in 1 .. MaxBlocks
    /\ building \in ChainStates
    /\ \A t \in receipts : t.ok \in BOOLEAN /\ t.block \in 1 .. MaxBlocks + 1
    /\ traded \in [Positions -> 0 .. MaxBlocks + 1]
    /\ moves \in 0 .. MaxMoves
    /\ stage \in Stage
    /\ indexed \in [Rows -> Nat]
    /\ settlementRead \in [Markets -> 0 .. Len(blocks)]
    /\ balanceRead \in [Rows -> 0 .. Len(blocks)]
    /\ simulated \in 0 .. Len(plan) /\ sent \in 0 .. Len(plan)
    /\ DOMAIN verdict = DOMAIN plan
    /\ \A b \in DOMAIN plan :
          /\ Cardinality(plan[b]) \in 1 .. MaxEntries
          /\ verdict[b].status \in {"none", "confirmed", "failed"}
    /\ stage = "ready" => simulated = Len(plan)

PlannedEntries == UNION Range(plan)

(* The chain shows what the scan read of it. *)
StillAsRead ==
    /\ \A m \in ListedMarkets : Tip.backing[m] = SettlementBacking(m)
    /\ \A r \in Listed : Tip.balance[RowOf[r]] = VerifiedBalance(r) /\ indexed[r] = VerifiedBalance(r)

(* The chain after the first k batches are executed one after the other,   *)
(* as far as they can be.                                                  *)
AfterBatches[k \in 0 .. Len(plan)] ==
    IF k = 0 THEN [ok |-> TRUE, state |-> Tip]
    ELSE LET done == AfterBatches[k - 1]
         IN  IF done.ok /\ Executable(done.state, Calls(plan[k]))
             THEN [ok |-> TRUE, state |-> Executed(done.state, Calls(plan[k]))]
             ELSE [ok |-> FALSE, state |-> done.state]

AfterPlan == AfterBatches[Len(plan)]

(* A position of that venue, listed once, that still pays. *)
StillPays(state, venue) ==
    {pos \in {RowOf[r] : r \in Listed} :
        /\ Venue[pos[1]] = venue /\ Finalized(pos[1])
        /\ Cardinality({r \in Listed : RowOf[r] = pos}) = 1
        /\ ContractPays([position |-> pos, amount |-> state.balance[pos]]) > 0}

(* A plan whose evidence still holds takes everything: its batches, each   *)
(* simulated alone, can be executed one after the other, they pay what the *)
(* plan says, and no position that pays is left behind, unless its market  *)
(* cannot pay all of the owner's positions.                                *)
PlanTakesAll ==
    stage = "simulate" /\ StillAsRead =>
        /\ AfterPlan.ok
        /\ \A m \in Markets :
              Tip.backing[m] - AfterPlan.state.backing[m]
                 = PaidTo(m, PlannedEntries)
        /\ \A venue \in {Venue[e.position[1]] : e \in PlannedEntries} :
              \A pos \in StillPays(AfterPlan.state, venue) :
                 PaidFrom(pos[1], {[position |-> RowOf[r], amount |-> Tip.balance[RowOf[r]]] :
                                      r \in Listed}) > Tip.backing[pos[1]]

(* A batch is confirmed only by a transaction that redeemed it after its   *)
(* settlements were read: an older one with the same calldata, of another  *)
(* plan or sent by hand, never counts, although nothing in the transaction *)
(* names the plan.                                                         *)
ConfirmedIsFresh ==
    \A b \in DOMAIN plan :
        verdict[b].status = "confirmed" =>
            \A e \in plan[b] : verdict[b].receipt.block > settlementRead[e.position[1]]

(* As long as the owner leaves the tokens of a batch alone from the block  *)
(* its balances were read at, a transaction that redeemed the batch after  *)
(* that is not recorded as failed, whatever other holders redeem in the    *)
(* same blocks.                                                            *)
RedeemedIsConfirmed ==
    \A b \in DOMAIN plan :
        /\ verdict[b].status = "failed" /\ verdict[b].receipt.ok
        /\ \A e \in plan[b], r \in Listed :
              RowOf[r] = e.position =>
                 /\ verdict[b].receipt.block > balanceRead[r]
                 /\ traded[e.position] <= balanceRead[r]
        => FALSE
=============================================================================
