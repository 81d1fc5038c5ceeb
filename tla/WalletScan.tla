------------------------------ MODULE WalletScan ------------------------------
(***************************************************************************)
(* The wallet-scan lane: how a claimable position becomes a canonical      *)
(* event.  A scan reads the indexer and the chain in separate calls        *)
(* (readWallet, readMarketBundle, buildPosition), compares what it was     *)
(* told (reconcileDreamDexMarket), and writes every claim candidate in a   *)
(* transaction of its own (persistWalletTransition).                       *)
(*                                                                         *)
(* The chain is the sequence of its blocks and the indexer has processed a *)
(* prefix of them, so a remote read is the number of the block whose state *)
(* it returned.  One market and one wallet: markets are read independently *)
(* of each other, and the worker watches one wallet.                       *)
(***************************************************************************)
EXTENDS Integers, Sequences

CONSTANTS
    Processes,
    Outcomes,           \* outcome indexes the wallet trades in
    Balances,           \* the balances a wallet can have of an outcome
    MaxBlock,           \* bound on the length of the chain
    StartFinalized      \* whether the settlement is final from the start

ASSUME ScanAssumption ==
    /\ Outcomes \subseteq {0, 1}
    /\ Balances \subseteq Nat /\ 0 \in Balances
    /\ MaxBlock \in Nat \ {0}
    /\ StartFinalized \in BOOLEAN

VARIABLES
    chain,              \* the blocks: what the contracts say after each
    indexer,            \* the last block the indexer has processed
    calm,               \* calls have stopped failing and processes dying
    \* the wallet-scan lane of each process: the outcomes discovery found,
    \* the block each call returned, the candidates left to persist
    stage, found, seen, seenBalance, left,
    \* positions and markets (0 is no row), and the canonical events, each
    \* with its outbox job
    row, marketRow, events

chainVars == <<chain, indexer, calm>>
laneVars == <<stage, found, seen, seenBalance, left>>
tableVars == <<row, marketRow, events>>
vars == <<chainVars, laneVars, tableVars>>

-----------------------------------------------------------------------------
Blocks == 1 .. MaxBlock

(* Listed, trading, locked and settling are one: not terminal.             *)
Result == {"open", "up", "down", "void"}

BlockState == [result : Result, finalized : BOOLEAN, balance : [Outcomes -> Balances]]

Tip == Len(chain)

(* The calls of readWallet and readMarketBundle before the balances: the   *)
(* OutcomeBalance rows, the indexed market, the module's state, the head,  *)
(* and the settlement with its payout vector.                              *)
Calls == {"rows", "indexed", "module", "head", "settlement"}

Stage == {"idle", "market", "settlement", "balances", "persist"}

(* The payout vector over a denominator of two: a void market returns half *)
(* to either side.                                                         *)
PayoutDenominator == 2

PayoutNumerator(result, o) ==
    CASE result = "up"   -> IF o = 0 THEN 2 ELSE 0
      [] result = "down" -> IF o = 1 THEN 2 ELSE 0
      [] result = "void" -> 1
      [] OTHER           -> 0

(* calculatePayout: integer division loses the remainder. *)
ExpectedPayout(amount, result, o) ==
    (amount * PayoutNumerator(result, o)) \div PayoutDenominator

Nothing == [c \in Calls |-> 0]

NoRow == [block |-> 0, balance |-> 0]

Init ==
    /\ \E block \in BlockState :
          /\ block.finalized = StartFinalized
          /\ block.finalized => block.result # "open"
          /\ chain = <<block>>
    /\ indexer = 1
    /\ calm = FALSE
    /\ stage = [w \in Processes |-> "idle"]
    /\ found = [w \in Processes |-> {}]
    /\ seen = [w \in Processes |-> Nothing]
    /\ seenBalance = [w \in Processes |-> [o \in Outcomes |-> 0]]
    /\ left = [w \in Processes |-> {}]
    /\ row = [o \in Outcomes |-> NoRow]
    /\ marketRow = 0
    /\ events = {}

-----------------------------------------------------------------------------
(* The chain goes on: the oracle decides the market, anyone finalizes its  *)
(* settlement, which fixes the result, and the wallet trades or redeems.   *)
Mine(block) ==
    /\ Tip < MaxBlock
    /\ chain' = Append(chain, block)
    /\ UNCHANGED <<indexer, calm, laneVars, tableVars>>

Resolve ==
    /\ chain[Tip].result = "open"
    /\ \E r \in Result \ {"open"} : Mine([chain[Tip] EXCEPT !.result = r])

Finalize ==
    /\ chain[Tip].result # "open" /\ ~chain[Tip].finalized
    /\ Mine([chain[Tip] EXCEPT !.finalized = TRUE])

Move(o) ==
    \E b \in Balances \ {chain[Tip].balance[o]} :
        Mine([chain[Tip] EXCEPT !.balance[o] = b])

Index ==
    /\ indexer < Tip
    /\ indexer' = indexer + 1
    /\ UNCHANGED <<chain, calm, laneVars, tableVars>>

Calm ==
    /\ ~calm
    /\ calm' = TRUE
    /\ UNCHANGED <<chain, indexer, laneVars, tableVars>>

-----------------------------------------------------------------------------
GoIdle(w) ==
    /\ stage' = [stage EXCEPT ![w] = "idle"]
    /\ found' = [found EXCEPT ![w] = {}]
    /\ seen' = [seen EXCEPT ![w] = Nothing]
    /\ seenBalance' = [seenBalance EXCEPT ![w] = [o \in Outcomes |-> 0]]
    /\ left' = [left EXCEPT ![w] = {}]

(* discoverOutcomeBalances returns rows with a positive balance: all of    *)
(* them, or some when it stops early.  Without a row no market is read and *)
(* the scan ends.                                                          *)
DiscoverRows(w, rows) ==
    /\ stage[w] = "idle"
    /\ rows # {}
    /\ found' = [found EXCEPT ![w] = rows]
    /\ seen' = [seen EXCEPT ![w]["rows"] = indexer]
    /\ stage' = [stage EXCEPT ![w] = "market"]
    /\ UNCHANGED <<chainVars, seenBalance, left, tableVars>>

Listed == {o \in Outcomes : chain[indexer].balance[o] > 0}

Discover(w) == DiscoverRows(w, Listed)

DiscoverPart(w) == \E rows \in SUBSET Listed : rows # Listed /\ DiscoverRows(w, rows)

(* Mutant: the head is taken for the block that is being built. *)
SourceOneAhead(c) == IF c = "indexed" THEN indexer ELSE Tip + 1

(* The block a call answers from. *)
Source(c) == IF c = "indexed" THEN indexer ELSE Tip

(* The calls that readMarketBundle makes at once, answered in any order.   *)
ReadMarket(w) ==
    /\ stage[w] = "market"
    /\ \E c \in {"indexed", "module", "head"} :
          /\ seen[w][c] = 0
          /\ seen' = [seen EXCEPT ![w][c] = Source(c)]
          /\ stage' = IF \A d \in {"indexed", "module", "head"} \ {c} : seen[w][d] # 0
                      THEN [stage EXCEPT ![w] = "settlement"] ELSE stage
    /\ UNCHANGED <<chainVars, found, seenBalance, left, tableVars>>

ReadSettlement(w) ==
    /\ stage[w] = "settlement"
    /\ seen' = [seen EXCEPT ![w]["settlement"] = Tip]
    /\ stage' = [stage EXCEPT ![w] = "balances"]
    /\ UNCHANGED <<chainVars, found, seenBalance, left, tableVars>>

-----------------------------------------------------------------------------
Seen(w, c) == chain[seen[w][c]]

(* reconcileMarketLifecycle: what is finalized has a result. *)
LifecycleAgrees(w) == Seen(w, "settlement").finalized => Seen(w, "module").result # "open"

(* No conflict is attached to the market: the indexer's status is that of  *)
(* the settlement or, before it is finalized, of the module, and the       *)
(* finalization event lies in the blocks up to the head that was read.     *)
MarketAgrees(w) ==
    /\ Seen(w, "indexed").finalized = Seen(w, "settlement").finalized
    /\ ~Seen(w, "indexed").finalized =>
           Seen(w, "indexed").result = Seen(w, "module").result
    /\ LifecycleAgrees(w)
    /\ Seen(w, "settlement").finalized => Seen(w, "head").finalized

(* Mutant: void_refundable is forgotten. *)
RedeemableClaimable(w, o) ==
    /\ Seen(w, "module").result \in {"up", "down"}
    /\ PayoutNumerator(Seen(w, "settlement").result, o) > 0
    /\ Seen(w, "settlement").finalized

(* The derived state of the position is claimable or void_refundable. *)
Redeemable(w, o) ==
    /\ Seen(w, "module").result # "open"
    /\ PayoutNumerator(Seen(w, "settlement").result, o) > 0
    /\ Seen(w, "settlement").finalized

(* Mutant: the indexed balance is taken for the verified one. *)
VerifiedBalanceIndexed(w, o) == Seen(w, "rows").balance[o]

VerifiedBalance(w, o) == chain[seenBalance[w][o]].balance[o]

(* buildPosition: a candidate is free of conflicts, also between the row   *)
(* and the balance read from the token, and pays something.                *)
Candidate(w, o) ==
    /\ MarketAgrees(w) /\ Redeemable(w, o)
    /\ VerifiedBalance(w, o) = Seen(w, "rows").balance[o]
    /\ ExpectedPayout(VerifiedBalance(w, o), Seen(w, "settlement").result, o) > 0

ReadBalance(w) ==
    /\ stage[w] = "balances"
    /\ \E o \in found[w] :
          /\ seenBalance[w][o] = 0
          /\ seenBalance' = [seenBalance EXCEPT ![w][o] = Tip]
    /\ UNCHANGED <<chainVars, stage, found, seen, left, tableVars>>

(* All positions are built; the ones that are no candidates are skipped.   *)
Select(w) ==
    LET candidates == {o \in found[w] : Candidate(w, o)}
    IN  /\ stage[w] = "balances"
        /\ \A o \in found[w] : seenBalance[w][o] # 0
        /\ IF candidates = {}
           THEN GoIdle(w)
           ELSE /\ stage' = [stage EXCEPT ![w] = "persist"]
                /\ left' = [left EXCEPT ![w] = candidates]
                /\ UNCHANGED <<found, seen, seenBalance>>
        /\ UNCHANGED <<chainVars, tableVars>>

-----------------------------------------------------------------------------
(* Mutant: the block of the observation is part of the state version. *)
EventIdByBlock(w, o) ==
    [outcome |-> o, result |-> Seen(w, "settlement").result,
     balance |-> VerifiedBalance(w, o), block |-> seen[w]["head"]]

(* What the id of the event is a hash of: the outcome and, through state,  *)
(* payout, lifecycle and numerators, the result and the balance.  The      *)
(* finalization transaction is the same in every conflict-free reading.    *)
EventId(w, o) ==
    [outcome |-> o, result |-> Seen(w, "settlement").result,
     balance |-> VerifiedBalance(w, o)]

(* What the row of the position is to say; the block is the market's. *)
Written(w, o) == [block |-> seen[w]["head"], balance |-> VerifiedBalance(w, o)]

(* The rows of the market and the position are replaced whatever they      *)
(* said; an event or an outbox job that exists is left alone.              *)
Persist(w) ==
    /\ stage[w] = "persist"
    /\ \E o \in left[w] :
          /\ row' = [row EXCEPT ![o] = Written(w, o)]
          /\ marketRow' = Written(w, o).block
          /\ events' = events \union {EventId(w, o)}
          /\ IF left[w] = {o}
             THEN GoIdle(w)
             ELSE /\ left' = [left EXCEPT ![w] = @ \ {o}]
                  /\ UNCHANGED <<stage, found, seen, seenBalance>>
    /\ UNCHANGED chainVars

(* A call fails and the scan is given up, or the process dies.  What was   *)
(* persisted stays.                                                        *)
Abandon(w) ==
    /\ stage[w] # "idle"
    /\ GoIdle(w)
    /\ UNCHANGED <<chainVars, tableVars>>

(* One position cannot be verified: it is left out.                        *)
Unverified(w) ==
    /\ stage[w] = "balances"
    /\ \E o \in found[w] :
          /\ found[w] # {o}
          /\ found' = [found EXCEPT ![w] = @ \ {o}]
    /\ UNCHANGED <<chainVars, stage, seen, seenBalance, left, tableVars>>

-----------------------------------------------------------------------------
Work(w) ==
    \/ Discover(w) \/ ReadMarket(w) \/ ReadSettlement(w)
    \/ ReadBalance(w) \/ Select(w) \/ Persist(w)

Fault(w) == ~calm /\ (DiscoverPart(w) \/ Unverified(w) \/ Abandon(w))

ChainMoves == Resolve \/ Finalize \/ \E o \in Outcomes : Move(o)

Next ==
    \/ \E w \in Processes : Work(w) \/ Fault(w)
    \/ ChainMoves \/ Index \/ Calm

Spec == Init /\ [][Next]_vars

(* The lane is polled for ever, its calls return, the indexer catches up.  *)
Fairness == WF_vars(Index) /\ \A w \in Processes : WF_vars(Work(w))

FairSpec == Spec /\ Fairness

-----------------------------------------------------------------------------
RowType == [block : 0 .. MaxBlock, balance : Balances]

EventType == [outcome : Outcomes, result : Result, balance : Balances]

TypeOK ==
    /\ Tip \in Blocks /\ \A n \in 1 .. Tip : chain[n] \in BlockState
    /\ indexer \in 1 .. Tip /\ calm \in BOOLEAN
    /\ stage \in [Processes -> Stage]
    /\ found \in [Processes -> SUBSET Outcomes]
    /\ seen \in [Processes -> [Calls -> 0 .. Tip]]
    /\ seenBalance \in [Processes -> [Outcomes -> 0 .. Tip]]
    /\ left \in [Processes -> SUBSET Outcomes]
    /\ row \in [Outcomes -> RowType]
    /\ marketRow \in 0 .. Tip
    /\ events \subseteq EventType

(* The wallet can redeem outcome o in block n. *)
ClaimableIn(n, o) ==
    /\ chain[n].finalized
    /\ ExpectedPayout(chain[n].balance[o], chain[n].result, o) > 0

(* Although no two calls of a scan see the same block, a position is       *)
(* announced as claimable only if there was a block in which the wallet    *)
(* could redeem exactly the announced balance for exactly that result.     *)
AnnouncedWasClaimable ==
    \A e \in events : \E n \in 1 .. Tip :
        /\ ClaimableIn(n, e.outcome)
        /\ e.balance = chain[n].balance[e.outcome]
        /\ e.result = chain[n].result

(* "A newer scan can be retained as evidence without sending the same      *)
(* claimable notification again": however often and by however many        *)
(* processes a position is scanned, one balance of it has one event.       *)
OneNoticePerState ==
    \A e, f \in events : e.outcome = f.outcome /\ e.balance = f.balance => e = f

(* Once calls stop failing, a position that stays claimable is announced,  *)
(* whatever earlier scans saw or left half done.                           *)
ClaimableIsAnnounced ==
    <>calm => \A o \in Outcomes, b \in Balances :
        <>[](ClaimableIn(Tip, o) /\ chain[Tip].balance[o] = b)
            => <>(\E e \in events : e.outcome = o /\ e.balance = b)

(* "The current market and position rows are the latest master record": a  *)
(* scan never replaces what a scan of a later block wrote.  Two processes  *)
(* that watch the same wallet refute it.                                   *)
RowsNeverGoBack ==
    [][/\ marketRow' >= marketRow
       /\ \A o \in Outcomes : row'[o].block >= row[o].block]_vars
=============================================================================
