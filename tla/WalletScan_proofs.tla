--------------------------- MODULE WalletScan_proofs ---------------------------
(***************************************************************************)
(* Proofs about WalletScan, for any numbers of processes, blocks and       *)
(* balances.                                                               *)
(***************************************************************************)
EXTENDS WalletScan, TLAPS

-----------------------------------------------------------------------------
(* The chain: what is finalized stays, with its result.                    *)

ChainType == chain \in Seq(BlockState) /\ Tip \in Nat \ {0} /\ Tip <= MaxBlock

FinalStays ==
    \A m, n \in 1 .. Tip : m <= n /\ chain[m].finalized =>
        chain[n].finalized /\ chain[n].result = chain[m].result /\ chain[m].result # "open"

ChainInv == ChainType /\ FinalStays

(* A block that keeps what the last one settled. *)
Follows(block) ==
    /\ block \in BlockState
    /\ chain[Tip].finalized => block.finalized /\ block.result = chain[Tip].result
    /\ block.finalized => block.result # "open"

LEMMA TipBlock ==
  ASSUME ChainInv
  PROVE  /\ Tip \in 1 .. Tip /\ chain[Tip] \in BlockState
         /\ chain[Tip].finalized => chain[Tip].result # "open"
  BY SMT DEF ChainInv, ChainType, FinalStays, Tip

LEMMA MineStep ==
  ASSUME ChainInv, NEW block, Follows(block), Mine(block)
  PROVE  /\ ChainInv' /\ Tip' = Tip + 1
         /\ \A n \in 1 .. Tip : n \in 1 .. Tip' /\ chain'[n] = chain[n]
<1>1. chain \in Seq(BlockState) /\ Len(chain) \in Nat \ {0} /\ MaxBlock \in Nat /\ Len(chain) < MaxBlock
  BY ScanAssumption, SMT DEF ChainInv, ChainType, Tip, Mine
<1>2. chain' = Append(chain, block) /\ block \in BlockState
  BY DEF Mine, Follows
<1>3. chain' \in Seq(BlockState) /\ Len(chain') = Len(chain) + 1
  BY <1>1, <1>2, SMT
<1>4. chain'[Len(chain) + 1] = block /\ \A n \in 1 .. Len(chain) : chain'[n] = chain[n]
  BY <1>1, <1>2, SMT
<1>5. ChainType'
  BY <1>1, <1>3, SMT DEF ChainType, Tip
<1>6. FinalStays'
  <2> SUFFICES ASSUME NEW m \in 1 .. Len(chain'), NEW n \in 1 .. Len(chain'), m <= n,
                      chain'[m].finalized
               PROVE  /\ chain'[n].finalized /\ chain'[n].result = chain'[m].result
                      /\ chain'[m].result # "open"
    BY DEF FinalStays, Tip
  <2>1. CASE n \in 1 .. Len(chain)
    <3>1. m \in 1 .. Len(chain)
      BY <1>1, <1>3, <2>1, SMT
    <3> QED
      BY <1>4, <2>1, <3>1, Zenon DEF ChainInv, FinalStays, Tip
  <2>2. CASE n = Len(chain) + 1 /\ m \in 1 .. Len(chain)
    <3>1. Len(chain) \in 1 .. Len(chain) /\ m <= Len(chain)
      BY <1>1, <2>2, SMT
    <3>2. /\ chain[Len(chain)].finalized /\ chain[Len(chain)].result = chain[m].result
          /\ chain[m].result # "open"
      BY <1>4, <2>2, <3>1, Zenon DEF ChainInv, FinalStays, Tip
    <3> QED
      BY <1>4, <2>2, <3>2, Zenon DEF Follows, Tip
  <2>3. CASE n = Len(chain) + 1 /\ m = Len(chain) + 1
    BY <1>4, <2>3, Zenon DEF Follows
  <2> QED
    BY <1>1, <1>3, <2>1, <2>2, <2>3, SMT
<1> QED
  BY <1>1, <1>3, <1>4, <1>5, <1>6, SMT DEF ChainInv, Tip

LEMMA MovesMine ==
  ASSUME ChainInv, ChainMoves
  PROVE  \E block : Follows(block) /\ Mine(block)
<1> DEFINE tip == chain[Tip]
<1>1. tip \in BlockState /\ (tip.finalized => tip.result # "open")
  BY TipBlock
<1>2. CASE Resolve
  <2>1. PICK r \in Result \ {"open"} : Mine([tip EXCEPT !.result = r])
    BY <1>2, Zenon DEF Resolve
  <2>2. tip.result = "open"
    BY <1>2 DEF Resolve
  <2> HIDE DEF tip
  <2>3. Follows([tip EXCEPT !.result = r])
    BY <1>1, <2>1, <2>2, SMT DEF Follows, BlockState, tip
  <2> QED
    BY <2>1, <2>3
<1>3. CASE Finalize
  <2>1. Mine([tip EXCEPT !.finalized = TRUE]) /\ tip.result # "open" /\ ~tip.finalized
    BY <1>3 DEF Finalize
  <2> DEFINE yes == TRUE
  <2>2. yes \in BOOLEAN /\ yes = TRUE
    OBVIOUS
  <2> DEFINE block == [tip EXCEPT !.finalized = yes]
             B == BOOLEAN
  <2> HIDE DEF yes, tip, B
  <2>a. tip \in [result : Result, finalized : B, balance : [Outcomes -> Balances]] /\ yes \in B
    BY <1>1, <2>2, Zenon DEF BlockState, B
  <2>b. /\ block \in [result : Result, finalized : B, balance : [Outcomes -> Balances]]
        /\ block.finalized = yes /\ block.result = tip.result
    BY <2>a, SMT
  <2> HIDE DEF block
  <2>c. block \in BlockState
    BY <2>b, Zenon DEF BlockState, B
  <2>3. Follows(block)
    BY <2>1, <2>2, <2>b, <2>c, Zenon DEF Follows, tip
  <2> USE DEF block
  <2> QED
    BY <2>1, <2>2, <2>3
<1>4. CASE \E o \in Outcomes : Move(o)
  <2>1. PICK o \in Outcomes, b \in Balances : Mine([tip EXCEPT !.balance[o] = b])
    BY <1>4, Zenon DEF Move
  <2>2. Follows([tip EXCEPT !.balance[o] = b])
    BY <1>1, <2>1, SMT DEF Follows, BlockState
  <2> QED
    BY <2>1, <2>2
<1> QED
  BY <1>2, <1>3, <1>4 DEF ChainMoves

-----------------------------------------------------------------------------
(* Types.                                                                  *)

StageType == stage \in [Processes -> Stage]
FoundType == found \in [Processes -> SUBSET Outcomes] /\ left \in [Processes -> SUBSET Outcomes]
SeenType == seen \in [Processes -> [Calls -> 0 .. Tip]]
BalanceType == seenBalance \in [Processes -> [Outcomes -> 0 .. Tip]]
IndexType == indexer \in 1 .. Tip /\ calm \in BOOLEAN
TableType == row \in [Outcomes -> RowType] /\ marketRow \in 0 .. Tip /\ events \subseteq EventType

LaneType == StageType /\ FoundType /\ SeenType /\ BalanceType

ScanTyped == ChainInv /\ IndexType /\ LaneType /\ TableType

LEMMA TipIsNat == ChainInv => Tip \in Nat \ {0} /\ Tip <= MaxBlock /\ Tip \in 0 .. Tip /\ 0 \in 0 .. Tip
  BY SMT DEF ChainInv, ChainType

LEMMA GoIdleTypes ==
  ASSUME ScanTyped, NEW w \in Processes, GoIdle(w)
  PROVE  /\ stage' \in [Processes -> Stage]
         /\ found' \in [Processes -> SUBSET Outcomes] /\ left' \in [Processes -> SUBSET Outcomes]
         /\ seen' \in [Processes -> [Calls -> 0 .. Tip]]
         /\ seenBalance' \in [Processes -> [Outcomes -> 0 .. Tip]]
<1>0. Tip \in Nat /\ 0 \in 0 .. Tip
  BY TipIsNat DEF ScanTyped
<1>1. stage' \in [Processes -> Stage]
  BY Zenon DEF GoIdle, ScanTyped, LaneType, StageType, Stage
<1>2. found' \in [Processes -> SUBSET Outcomes] /\ left' \in [Processes -> SUBSET Outcomes]
  BY Zenon DEF GoIdle, ScanTyped, LaneType, FoundType
<1>3. Nothing \in [Calls -> 0 .. Tip]
  BY <1>0, Zenon DEF Nothing
<1>4. seen' \in [Processes -> [Calls -> 0 .. Tip]]
  BY <1>3, Zenon DEF GoIdle, ScanTyped, LaneType, SeenType
<1>5. [o \in Outcomes |-> 0] \in [Outcomes -> 0 .. Tip]
  BY <1>0, Zenon
<1>6. seenBalance' \in [Processes -> [Outcomes -> 0 .. Tip]]
  BY <1>5, Zenon DEF GoIdle, ScanTyped, LaneType, BalanceType
<1> QED
  BY <1>1, <1>2, <1>4, <1>6

(* One call of a scan has answered.                                        *)
LEMMA SeenStep ==
  ASSUME ScanTyped, NEW w \in Processes, NEW c \in Calls, NEW n \in 0 .. Tip,
         seen' = [seen EXCEPT ![w][c] = n]
  PROVE  /\ seen' \in [Processes -> [Calls -> 0 .. Tip]]
         /\ seen'[w][c] = n
         /\ \A v \in Processes : v # w => seen'[v] = seen[v]
<1> DEFINE T == 0 .. Tip
<1>1. seen \in [Processes -> [Calls -> T]]
  BY DEF ScanTyped, LaneType, SeenType
<1> HIDE DEF T
<1>2. n \in T
  BY DEF T
<1>3. seen' = [seen EXCEPT ![w] = [seen[w] EXCEPT ![c] = n]]
  BY Zenon
<1>4. [seen[w] EXCEPT ![c] = n] \in [Calls -> T] /\ [seen[w] EXCEPT ![c] = n][c] = n
  BY <1>1, <1>2, Zenon
<1>5. seen' \in [Processes -> [Calls -> T]]
  BY <1>1, <1>3, <1>4, Zenon
<1>6. seen'[w][c] = n /\ \A v \in Processes : v # w => seen'[v] = seen[v]
  BY <1>1, <1>3, <1>4, Zenon
<1> QED
  BY <1>5, <1>6 DEF T

LEMMA BalanceStep ==
  ASSUME ScanTyped, NEW w \in Processes, NEW o \in Outcomes,
         seenBalance' = [seenBalance EXCEPT ![w][o] = Tip]
  PROVE  /\ seenBalance' \in [Processes -> [Outcomes -> 0 .. Tip]]
         /\ seenBalance'[w][o] = Tip
         /\ \A q \in Outcomes : q # o => seenBalance'[w][q] = seenBalance[w][q]
         /\ \A v \in Processes : v # w => seenBalance'[v] = seenBalance[v]
<1> DEFINE T == 0 .. Tip
<1>1. seenBalance \in [Processes -> [Outcomes -> T]]
  BY DEF ScanTyped, LaneType, BalanceType
<1>2. Tip \in T
  BY TipIsNat DEF ScanTyped
<1> HIDE DEF T
<1>3. seenBalance' = [seenBalance EXCEPT ![w] = [seenBalance[w] EXCEPT ![o] = Tip]]
  BY Zenon
<1>4. /\ [seenBalance[w] EXCEPT ![o] = Tip] \in [Outcomes -> T]
      /\ [seenBalance[w] EXCEPT ![o] = Tip][o] = Tip
      /\ \A q \in Outcomes : q # o => [seenBalance[w] EXCEPT ![o] = Tip][q] = seenBalance[w][q]
  BY <1>1, <1>2, Zenon
<1>5. seenBalance' \in [Processes -> [Outcomes -> T]]
  BY <1>1, <1>3, <1>4, Zenon
<1>6. /\ seenBalance'[w] = [seenBalance[w] EXCEPT ![o] = Tip]
      /\ \A v \in Processes : v # w => seenBalance'[v] = seenBalance[v]
  BY <1>1, <1>3, Zenon
<1> QED
  BY <1>4, <1>5, <1>6, Zenon DEF T

-----------------------------------------------------------------------------
(* What a scan knows of the position it is about to announce.              *)

(* Balances are read after the settlement.                                 *)
ReadInOrder(w) ==
    /\ stage[w] \in {"idle", "market", "settlement"} =>
          \A o \in Outcomes : seenBalance[w][o] = 0
    /\ stage[w] \in {"balances", "persist"} =>
          /\ seen[w]["settlement"] # 0
          /\ \A o \in Outcomes :
                seenBalance[w][o] # 0 => seen[w]["settlement"] <= seenBalance[w][o]

(* The block in which the balance was read is the one that bears it out.   *)
BornOutBy(w, o) ==
    /\ seenBalance[w][o] \in 1 .. Tip /\ seen[w]["settlement"] \in 1 .. Tip
    /\ ClaimableIn(seenBalance[w][o], o)
    /\ chain[seenBalance[w][o]].result = Seen(w, "settlement").result

LeftIsBornOut(w) == stage[w] = "persist" => \A o \in left[w] : BornOutBy(w, o)

LaneInv == \A w \in Processes : ReadInOrder(w) /\ LeftIsBornOut(w)

ScanInv == ScanTyped /\ LaneInv /\ AnnouncedWasClaimable

(* The other processes, and what was announced, stay as they are.          *)
LEMMA OneLaneMoves ==
  ASSUME ScanInv, NEW w \in Processes, chain' = chain,
         \A v \in Processes : v # w =>
             /\ stage'[v] = stage[v] /\ seen'[v] = seen[v]
             /\ seenBalance'[v] = seenBalance[v] /\ left'[v] = left[v],
         ReadInOrder(w)', LeftIsBornOut(w)'
  PROVE  LaneInv'
<1> SUFFICES ASSUME NEW v \in Processes, v # w PROVE ReadInOrder(v)' /\ LeftIsBornOut(v)'
  BY DEF LaneInv
<1>1. ReadInOrder(v) /\ LeftIsBornOut(v)
  BY DEF ScanInv, LaneInv
<1>2. ReadInOrder(v)'
  BY <1>1, Zenon DEF ReadInOrder
<1>3. LeftIsBornOut(v)'
  BY <1>1, Zenon DEF LeftIsBornOut, BornOutBy, ClaimableIn, Seen, Tip
<1> QED
  BY <1>2, <1>3

LEMMA AnnouncedStill ==
  ASSUME ScanInv, chain' = chain, events' = events
  PROVE  AnnouncedWasClaimable'
  BY Zenon DEF ScanInv, AnnouncedWasClaimable, ClaimableIn, Tip

LEMMA GoIdleLane ==
  ASSUME ScanInv, NEW w \in Processes, chain' = chain, GoIdle(w)
  PROVE  LaneInv'
<1>1. LaneType
  BY DEF ScanInv, ScanTyped
<1>2. stage'[w] = "idle" /\ \A v \in Processes : v # w => stage'[v] = stage[v] /\ left'[v] = left[v]
  BY <1>1, Zenon DEF GoIdle, LaneType, StageType, FoundType
<1>3. /\ \A o \in Outcomes : seenBalance'[w][o] = 0
      /\ \A v \in Processes : v # w => seenBalance'[v] = seenBalance[v] /\ seen'[v] = seen[v]
  BY <1>1, Zenon DEF GoIdle, LaneType, BalanceType, SeenType
<1>4. ReadInOrder(w)' /\ LeftIsBornOut(w)'
  BY <1>2, <1>3, SMT DEF ReadInOrder, LeftIsBornOut
<1> QED
  BY <1>2, <1>3, <1>4, OneLaneMoves

LEMMA CandidateIsBornOut ==
  ASSUME ScanInv, NEW w \in Processes, stage[w] = "balances", NEW o \in found[w],
         seenBalance[w][o] # 0, Candidate(w, o)
  PROVE  BornOutBy(w, o)
<1> DEFINE n == seenBalance[w][o]
           m == seen[w]["settlement"]
<1>1. o \in Outcomes /\ n \in 0 .. Tip /\ m \in 0 .. Tip /\ Tip \in Nat
  BY TipIsNat, SMT DEF ScanInv, ScanTyped, LaneType, FoundType, SeenType, BalanceType, Calls
<1>2. m # 0 /\ m <= n
  BY <1>1, SMT DEF ScanInv, LaneInv, ReadInOrder
<1>3. n \in 1 .. Tip /\ m \in 1 .. Tip
  BY <1>1, <1>2, SMT
<1>4. chain[m].finalized
  BY Zenon DEF Candidate, Redeemable, Seen
<1>5. chain[n].finalized /\ chain[n].result = chain[m].result
  BY <1>2, <1>3, <1>4, Zenon DEF ScanInv, ScanTyped, ChainInv, FinalStays
<1>6. ExpectedPayout(chain[n].balance[o], chain[n].result, o) > 0
  BY <1>5, Zenon DEF Candidate, VerifiedBalance, Seen
<1> QED
  BY <1>3, <1>5, <1>6, Zenon DEF BornOutBy, ClaimableIn, Seen

LEMMA AnnouncesBornOut ==
  ASSUME ScanInv, NEW w \in Processes, NEW o \in Outcomes, BornOutBy(w, o),
         chain' = chain, events' = events \union {EventId(w, o)}
  PROVE  AnnouncedWasClaimable' /\ EventId(w, o) \in EventType
<1> DEFINE n == seenBalance[w][o]
           e == EventId(w, o)
<1>1. /\ e.outcome = o /\ e.result = chain[n].result /\ e.balance = chain[n].balance[o]
      /\ ClaimableIn(n, o) /\ n \in 1 .. Tip
  BY SMT DEF EventId, VerifiedBalance, BornOutBy
<1>2. chain[n] \in BlockState
  BY <1>1, SMT DEF ScanInv, ScanTyped, ChainInv, ChainType, Tip
<1>3. e \in EventType
  <2>1. chain[n].balance[o] \in Balances /\ chain[n].result \in Result
    BY <1>2, SMT DEF BlockState
  <2>2. e = [outcome |-> o, result |-> chain[n].result, balance |-> chain[n].balance[o]]
    BY Zenon DEF EventId, VerifiedBalance, BornOutBy
  <2> QED
    BY <2>1, <2>2, SMT DEF EventType
<1>4. AnnouncedWasClaimable'
  <2> SUFFICES ASSUME NEW f \in events'
               PROVE  \E k \in 1 .. Tip : /\ ClaimableIn(k, f.outcome)
                                          /\ f.balance = chain[k].balance[f.outcome]
                                          /\ f.result = chain[k].result
    BY Zenon DEF AnnouncedWasClaimable, ClaimableIn, Tip
  <2>1. CASE f \in events
    BY <2>1, Zenon DEF ScanInv, AnnouncedWasClaimable
  <2>2. CASE f = e
    BY <1>1, <2>2, Zenon
  <2> QED
    BY <2>1, <2>2
<1> QED
  BY <1>3, <1>4

LEMMA ScanChainStep ==
  ASSUME ScanInv, NEW block, Follows(block), Mine(block)
  PROVE  ScanInv'
<1>1. /\ ChainInv' /\ Tip' = Tip + 1 /\ Tip \in Nat
      /\ \A n \in 1 .. Tip : n \in 1 .. Tip' /\ chain'[n] = chain[n]
  BY MineStep, TipIsNat DEF ScanInv, ScanTyped
<1>2. UNCHANGED <<indexer, calm, laneVars, tableVars>>
  BY DEF Mine
<1>3. IndexType'
  BY <1>1, <1>2, SMT DEF ScanInv, ScanTyped, IndexType
<1>4. 0 .. Tip \subseteq 0 .. Tip'
  BY <1>1, SMT
<1> DEFINE T == 0 .. Tip
           U == 0 .. Tip'
<1>5. T \subseteq U
  BY <1>4
<1>6. LaneType'
  <2>1. seen \in [Processes -> [Calls -> T]] /\ seenBalance \in [Processes -> [Outcomes -> T]]
    BY DEF ScanInv, ScanTyped, LaneType, SeenType, BalanceType
  <2> HIDE DEF T, U
  <2>2. seen \in [Processes -> [Calls -> U]] /\ seenBalance \in [Processes -> [Outcomes -> U]]
    BY <1>5, <2>1, SMT
  <2>3. SeenType' /\ BalanceType'
    BY <1>2, <2>2 DEF SeenType, BalanceType, U, laneVars
  <2>4. StageType' /\ FoundType'
    BY <1>2 DEF StageType, FoundType, laneVars, ScanInv, ScanTyped, LaneType
  <2> QED
    BY <2>3, <2>4 DEF LaneType
<1>7. TableType'
  BY <1>1, <1>2, SMT DEF TableType, ScanInv, ScanTyped, tableVars
<1>8. LaneInv'
  <2> SUFFICES ASSUME NEW w \in Processes PROVE ReadInOrder(w)' /\ LeftIsBornOut(w)'
    BY DEF LaneInv
  <2>1. ReadInOrder(w) /\ LeftIsBornOut(w)
    BY DEF ScanInv, LaneInv
  <2>2. ReadInOrder(w)'
    BY <1>2, <2>1, Zenon DEF ReadInOrder, laneVars
  <2>3. LeftIsBornOut(w)'
    BY <1>1, <1>2, <2>1, Zenon DEF LeftIsBornOut, BornOutBy, ClaimableIn, Seen, laneVars
  <2> QED
    BY <2>2, <2>3
<1>9. AnnouncedWasClaimable'
  <2> SUFFICES ASSUME NEW e \in events'
               PROVE  \E n \in 1 .. Tip' : /\ ClaimableIn(n, e.outcome)'
                                           /\ e.balance = chain'[n].balance[e.outcome]
                                           /\ e.result = chain'[n].result
    BY Zenon DEF AnnouncedWasClaimable, ClaimableIn
  <2>1. PICK n \in 1 .. Tip : /\ ClaimableIn(n, e.outcome)
                             /\ e.balance = chain[n].balance[e.outcome]
                             /\ e.result = chain[n].result
    BY <1>2, Zenon DEF ScanInv, AnnouncedWasClaimable, tableVars
  <2>2. n \in 1 .. Tip' /\ chain'[n] = chain[n]
    BY <1>1
  <2>3. ClaimableIn(n, e.outcome)'
    BY <2>1, <2>2, Zenon DEF ClaimableIn
  <2> QED
    BY <2>1, <2>2, <2>3, Zenon
<1> QED
  BY <1>1, <1>3, <1>6, <1>7, <1>8, <1>9 DEF ScanInv, ScanTyped

(* A step of one lane that mines nothing and announces nothing.            *)
LEMMA LaneStep ==
  ASSUME ScanInv, UNCHANGED <<chainVars, tableVars>>,
         stage' \in [Processes -> Stage],
         found' \in [Processes -> SUBSET Outcomes], left' \in [Processes -> SUBSET Outcomes],
         seen' \in [Processes -> [Calls -> 0 .. Tip]],
         seenBalance' \in [Processes -> [Outcomes -> 0 .. Tip]],
         LaneInv'
  PROVE  ScanInv'
<1>1. chain' = chain /\ Tip' = Tip
  BY DEF chainVars, Tip
<1>2. ChainInv'
  BY <1>1, Zenon DEF ScanInv, ScanTyped, ChainInv, ChainType, FinalStays
<1>3. LaneType'
  BY <1>1, Zenon DEF LaneType, StageType, FoundType, SeenType, BalanceType
<1>4. IndexType' /\ TableType'
  BY <1>1, Zenon DEF ScanInv, ScanTyped, IndexType, TableType, chainVars, tableVars
<1>5. AnnouncedWasClaimable'
  BY <1>1, AnnouncedStill DEF tableVars
<1> QED
  BY <1>2, <1>3, <1>4, <1>5 DEF ScanInv, ScanTyped

-----------------------------------------------------------------------------
(* Every step keeps the invariant.                                         *)

LEMMA DiscoverStep ==
  ASSUME ScanInv, NEW w \in Processes, NEW rows \in SUBSET Outcomes, DiscoverRows(w, rows)
  PROVE  ScanInv'
<1>1. /\ stage[w] = "idle" /\ stage' = [stage EXCEPT ![w] = "market"]
      /\ found' = [found EXCEPT ![w] = rows]
      /\ seen' = [seen EXCEPT ![w]["rows"] = indexer]
      /\ UNCHANGED <<chainVars, seenBalance, left, tableVars>>
  BY DEF DiscoverRows
<1>2. ScanTyped /\ LaneType /\ indexer \in 0 .. Tip /\ "rows" \in Calls
  BY TipIsNat, SMT DEF ScanInv, ScanTyped, IndexType, Calls
<1>3. /\ seen' \in [Processes -> [Calls -> 0 .. Tip]]
      /\ \A v \in Processes : v # w => seen'[v] = seen[v]
  BY <1>1, <1>2, SeenStep
<1>4. /\ stage' \in [Processes -> Stage] /\ stage'[w] = "market"
      /\ \A v \in Processes : v # w => stage'[v] = stage[v]
  BY <1>1, <1>2, Zenon DEF LaneType, StageType, Stage
<1>5. found' \in [Processes -> SUBSET Outcomes]
  BY <1>1, <1>2, Zenon DEF LaneType, FoundType
<1>6. ReadInOrder(w)' /\ LeftIsBornOut(w)'
  BY <1>1, <1>4, SMT DEF ScanInv, LaneInv, ReadInOrder, LeftIsBornOut
<1>7. LaneInv'
  BY <1>1, <1>3, <1>4, <1>6, OneLaneMoves, Zenon DEF chainVars
<1> QED
  BY <1>1, <1>2, <1>3, <1>4, <1>5, <1>7, LaneStep DEF LaneType, FoundType, BalanceType

LEMMA ReadMarketStep ==
  ASSUME ScanInv, NEW w \in Processes, ReadMarket(w)
  PROVE  ScanInv'
<1>1. PICK c \in {"indexed", "module", "head"} :
        /\ seen' = [seen EXCEPT ![w][c] = Source(c)]
        /\ stage' = [stage EXCEPT ![w] = "settlement"] \/ stage' = stage
  BY Zenon DEF ReadMarket
<1>2. stage[w] = "market" /\ UNCHANGED <<chainVars, found, seenBalance, left, tableVars>>
  BY DEF ReadMarket
<1>3. /\ ScanTyped /\ LaneType /\ Source(c) \in 0 .. Tip /\ c \in Calls
  BY TipIsNat, SMT DEF ScanInv, ScanTyped, IndexType, Calls, Source
<1>4. /\ seen' \in [Processes -> [Calls -> 0 .. Tip]]
      /\ \A v \in Processes : v # w => seen'[v] = seen[v]
  BY <1>1, <1>3, SeenStep
<1>5. /\ stage' \in [Processes -> Stage] /\ stage'[w] \in {"market", "settlement"}
      /\ \A v \in Processes : v # w => stage'[v] = stage[v]
  BY <1>1, <1>2, <1>3, SMT DEF LaneType, StageType, Stage
<1>6. ReadInOrder(w)' /\ LeftIsBornOut(w)'
  BY <1>2, <1>5, SMT DEF ScanInv, LaneInv, ReadInOrder, LeftIsBornOut
<1>7. LaneInv'
  BY <1>2, <1>4, <1>5, <1>6, OneLaneMoves, Zenon DEF chainVars
<1> QED
  BY <1>2, <1>3, <1>4, <1>5, <1>7, LaneStep DEF LaneType, FoundType, BalanceType

LEMMA ReadSettlementStep ==
  ASSUME ScanInv, NEW w \in Processes, ReadSettlement(w)
  PROVE  ScanInv'
<1>1. /\ stage[w] = "settlement" /\ stage' = [stage EXCEPT ![w] = "balances"]
      /\ seen' = [seen EXCEPT ![w]["settlement"] = Tip]
      /\ UNCHANGED <<chainVars, found, seenBalance, left, tableVars>>
  BY DEF ReadSettlement
<1>2. ScanTyped /\ LaneType /\ Tip \in 0 .. Tip /\ Tip # 0 /\ "settlement" \in Calls
  BY TipIsNat, SMT DEF ScanInv, ScanTyped, Calls
<1>3. /\ seen' \in [Processes -> [Calls -> 0 .. Tip]] /\ seen'[w]["settlement"] = Tip
      /\ \A v \in Processes : v # w => seen'[v] = seen[v]
  BY <1>1, <1>2, SeenStep
<1>4. /\ stage' \in [Processes -> Stage] /\ stage'[w] = "balances"
      /\ \A v \in Processes : v # w => stage'[v] = stage[v]
  BY <1>1, <1>2, Zenon DEF LaneType, StageType, Stage
<1>5. \A o \in Outcomes : seenBalance'[w][o] = 0
  BY <1>1, SMT DEF ScanInv, LaneInv, ReadInOrder
<1>6. ReadInOrder(w)' /\ LeftIsBornOut(w)'
  BY <1>2, <1>3, <1>4, <1>5, SMT DEF ReadInOrder, LeftIsBornOut
<1>7. LaneInv'
  BY <1>1, <1>3, <1>4, <1>6, OneLaneMoves, Zenon DEF chainVars
<1> QED
  BY <1>1, <1>2, <1>3, <1>4, <1>7, LaneStep DEF LaneType, FoundType, BalanceType

LEMMA ReadBalanceStep ==
  ASSUME ScanInv, NEW w \in Processes, ReadBalance(w)
  PROVE  ScanInv'
<1>1. PICK o \in found[w] : seenBalance' = [seenBalance EXCEPT ![w][o] = Tip]
  BY Zenon DEF ReadBalance
<1>2. stage[w] = "balances" /\ UNCHANGED <<chainVars, stage, found, seen, left, tableVars>>
  BY DEF ReadBalance
<1>3. ScanTyped /\ LaneType /\ o \in Outcomes
  BY SMT DEF ScanInv, ScanTyped, LaneType, FoundType
<1>4. /\ seenBalance' \in [Processes -> [Outcomes -> 0 .. Tip]]
      /\ seenBalance'[w][o] = Tip
      /\ \A q \in Outcomes : q # o => seenBalance'[w][q] = seenBalance[w][q]
      /\ \A v \in Processes : v # w => seenBalance'[v] = seenBalance[v]
  BY <1>1, <1>3, BalanceStep
<1>5. seen[w]["settlement"] \in 0 .. Tip
  BY <1>3, SMT DEF LaneType, SeenType, Calls
<1>6. ReadInOrder(w)' /\ LeftIsBornOut(w)'
  BY <1>2, <1>4, <1>5, SMT DEF ScanInv, LaneInv, ReadInOrder, LeftIsBornOut
<1>7. LaneInv'
  BY <1>2, <1>4, <1>6, OneLaneMoves, Zenon DEF chainVars
<1> QED
  BY <1>2, <1>3, <1>4, <1>7, LaneStep DEF LaneType, StageType, FoundType, SeenType

LEMMA SelectStep ==
  ASSUME ScanInv, NEW w \in Processes, Select(w)
  PROVE  ScanInv'
<1> DEFINE candidates == {o \in found[w] : Candidate(w, o)}
<1>1. /\ stage[w] = "balances" /\ UNCHANGED <<chainVars, tableVars>>
      /\ \A o \in found[w] : seenBalance[w][o] # 0
  BY DEF Select
<1>2. ScanTyped /\ LaneType
  BY DEF ScanInv, ScanTyped
<1>3. CASE GoIdle(w)
  BY <1>1, <1>2, <1>3, GoIdleTypes, GoIdleLane, LaneStep DEF chainVars
<1>4. CASE /\ stage' = [stage EXCEPT ![w] = "persist"]
           /\ left' = [left EXCEPT ![w] = candidates]
           /\ UNCHANGED <<found, seen, seenBalance>>
  <2>1. \A o \in candidates : BornOutBy(w, o)
    BY <1>1, CandidateIsBornOut
  <2>2. candidates \subseteq Outcomes
    BY <1>2, SMT DEF LaneType, FoundType
  <2> HIDE DEF candidates
  <2>3. /\ stage' \in [Processes -> Stage] /\ stage'[w] = "persist"
        /\ \A v \in Processes : v # w => stage'[v] = stage[v]
    BY <1>2, <1>4, Zenon DEF LaneType, StageType, Stage
  <2>4. /\ left' \in [Processes -> SUBSET Outcomes] /\ left'[w] = candidates
        /\ \A v \in Processes : v # w => left'[v] = left[v]
    BY <1>2, <1>4, <2>2, Zenon DEF LaneType, FoundType
  <2>5. ReadInOrder(w)'
    BY <1>1, <1>4, <2>3, SMT DEF ScanInv, LaneInv, ReadInOrder
  <2>6. LeftIsBornOut(w)'
    BY <1>1, <1>4, <2>1, <2>4, Zenon DEF LeftIsBornOut, BornOutBy, ClaimableIn, Seen, Tip, chainVars
  <2>7. LaneInv'
    BY <1>1, <1>4, <2>3, <2>4, <2>5, <2>6, OneLaneMoves, Zenon DEF chainVars
  <2> QED
    BY <1>1, <1>2, <1>4, <2>3, <2>4, <2>7, LaneStep
       DEF LaneType, FoundType, SeenType, BalanceType
<1> QED
  BY <1>3, <1>4, Zenon DEF Select

LEMMA PersistStep ==
  ASSUME ScanInv, NEW w \in Processes, Persist(w)
  PROVE  ScanInv'
<1>1. PICK o \in left[w] :
        /\ row' = [row EXCEPT ![o] = Written(w, o)]
        /\ marketRow' = Written(w, o).block
        /\ events' = events \union {EventId(w, o)}
        /\ \/ GoIdle(w)
           \/ /\ left' = [left EXCEPT ![w] = @ \ {o}]
              /\ UNCHANGED <<stage, found, seen, seenBalance>>
  BY Zenon DEF Persist
<1>2. stage[w] = "persist" /\ UNCHANGED chainVars
  BY DEF Persist
<1>3. ScanTyped /\ LaneType /\ o \in Outcomes /\ BornOutBy(w, o)
  BY <1>2, SMT DEF ScanInv, ScanTyped, LaneType, FoundType, LaneInv, LeftIsBornOut
<1>4. AnnouncedWasClaimable' /\ EventId(w, o) \in EventType
  BY <1>1, <1>2, <1>3, AnnouncesBornOut DEF chainVars
<1>5. chain' = chain /\ Tip' = Tip
  BY <1>2, Zenon DEF chainVars, Tip
<1>6. ChainInv' /\ IndexType'
  <2>1. ChainInv'
    BY <1>3, <1>5, Zenon DEF ScanTyped, ChainInv, ChainType, FinalStays
  <2>2. IndexType'
    BY <1>2, <1>3, <1>5, Zenon DEF ScanTyped, IndexType, chainVars
  <2> QED
    BY <2>1, <2>2
<1>7. TableType'
  <2>1. seen[w]["head"] \in 0 .. Tip
    BY <1>3, SMT DEF LaneType, SeenType, Calls
  <2>2. 0 .. Tip \subseteq 0 .. MaxBlock
    BY <1>3, TipIsNat, ScanAssumption, SMT DEF ScanTyped
  <2>3. VerifiedBalance(w, o) \in Balances
    <3>1. chain[seenBalance[w][o]] \in BlockState
      BY <1>3, SMT DEF BornOutBy, ScanTyped, ChainInv, ChainType, Tip
    <3> QED
      BY <1>3, <3>1, SMT DEF BlockState, VerifiedBalance
  <2>4. Written(w, o) \in RowType /\ Written(w, o).block = seen[w]["head"]
    BY <2>1, <2>2, <2>3, SMT DEF Written, RowType
  <2>5. row' \in [Outcomes -> RowType]
    BY <1>1, <1>3, <2>4, Zenon DEF ScanTyped, TableType
  <2>6. marketRow' \in 0 .. Tip'
    BY <1>1, <1>5, <2>1, <2>4, Zenon
  <2>7. events' \subseteq EventType
    BY <1>1, <1>3, <1>4, SMT DEF ScanTyped, TableType
  <2> QED
    BY <2>5, <2>6, <2>7 DEF TableType
<1>8. LaneType' /\ LaneInv'
  <2>1. CASE GoIdle(w)
    <3>1. LaneInv'
      BY <1>5, <2>1, GoIdleLane
    <3>2. LaneType'
      BY <1>3, <1>5, <2>1, GoIdleTypes DEF LaneType, StageType, FoundType, SeenType, BalanceType
    <3> QED
      BY <3>1, <3>2
  <2>2. CASE /\ left' = [left EXCEPT ![w] = @ \ {o}]
             /\ UNCHANGED <<stage, found, seen, seenBalance>>
    <3>1. left[w] \ {o} \in SUBSET Outcomes
      BY <1>3, SMT DEF LaneType, FoundType
    <3>2. /\ left' \in [Processes -> SUBSET Outcomes] /\ left'[w] = left[w] \ {o}
          /\ \A v \in Processes : v # w => left'[v] = left[v]
      BY <1>3, <2>2, <3>1, Zenon DEF LaneType, FoundType
    <3>3. LaneType'
      BY <1>3, <1>5, <2>2, <3>2, Zenon DEF LaneType, StageType, FoundType, SeenType, BalanceType
    <3>4. ReadInOrder(w)'
      BY <2>2, Zenon DEF ScanInv, LaneInv, ReadInOrder
    <3>5. \A q \in left'[w] : BornOutBy(w, q)
      BY <1>2, <3>2, SMT DEF ScanInv, LaneInv, LeftIsBornOut
    <3>6. LeftIsBornOut(w)'
      BY <1>5, <2>2, <3>5, Zenon DEF LeftIsBornOut, BornOutBy, ClaimableIn, Seen
    <3>7. LaneInv'
      BY <1>5, <2>2, <3>2, <3>4, <3>6, OneLaneMoves, Zenon
    <3> QED
      BY <3>3, <3>7
  <2> QED
    BY <1>1, <2>1, <2>2
<1> QED
  BY <1>4, <1>6, <1>7, <1>8 DEF ScanInv, ScanTyped

LEMMA UnverifiedStep ==
  ASSUME ScanInv, NEW w \in Processes, Unverified(w)
  PROVE  ScanInv'
<1>1. PICK o \in found[w] : found' = [found EXCEPT ![w] = @ \ {o}]
  BY Zenon DEF Unverified
<1>2. UNCHANGED <<chainVars, stage, seen, seenBalance, left, tableVars>>
  BY DEF Unverified
<1>3. LaneType
  BY DEF ScanInv, ScanTyped
<1>4. found' \in [Processes -> SUBSET Outcomes]
  BY <1>1, <1>3, SMT DEF LaneType, FoundType
<1>5. ReadInOrder(w)' /\ LeftIsBornOut(w)'
  BY <1>2, Zenon DEF ScanInv, LaneInv, ReadInOrder, LeftIsBornOut, BornOutBy, ClaimableIn, Seen,
                     Tip, chainVars
<1>6. LaneInv'
  BY <1>2, <1>5, OneLaneMoves, Zenon DEF chainVars
<1> QED
  BY <1>2, <1>3, <1>4, <1>6, LaneStep DEF LaneType, StageType, FoundType, SeenType, BalanceType

LEMMA ScanStep == ScanInv /\ [Next]_vars => ScanInv'
<1> SUFFICES ASSUME ScanInv, [Next]_vars PROVE ScanInv'
  OBVIOUS
<1>0. ScanTyped /\ LaneType
  BY DEF ScanInv, ScanTyped
<1>1. ASSUME NEW w \in Processes, Discover(w) \/ DiscoverPart(w) PROVE ScanInv'
  <2>1. \A rows \in SUBSET Listed : rows \in SUBSET Outcomes
    BY Zenon DEF Listed
  <2>2. Listed \in SUBSET Listed
    BY Zenon
  <2>3. PICK rows \in SUBSET Listed : DiscoverRows(w, rows)
    BY <1>1, <2>2, Zenon DEF Discover, DiscoverPart
  <2> QED
    BY <2>1, <2>3, DiscoverStep
<1>2. ASSUME NEW w \in Processes, Abandon(w) PROVE ScanInv'
  <2>1. GoIdle(w) /\ UNCHANGED <<chainVars, tableVars>>
    BY <1>2 DEF Abandon
  <2> QED
    BY <1>0, <2>1, GoIdleTypes, GoIdleLane, LaneStep DEF chainVars
<1>3. ASSUME NEW w \in Processes,
             \/ ReadMarket(w) \/ ReadSettlement(w) \/ ReadBalance(w) \/ Select(w)
             \/ Persist(w) \/ Unverified(w)
      PROVE  ScanInv'
  BY <1>3, ReadMarketStep, ReadSettlementStep, ReadBalanceStep, SelectStep, PersistStep,
     UnverifiedStep
<1>4. CASE ChainMoves
  <2>1. PICK block : Follows(block) /\ Mine(block)
    BY <1>0, <1>4, MovesMine DEF ScanTyped
  <2> QED
    BY <2>1, ScanChainStep
<1>5. CASE Index \/ Calm \/ UNCHANGED vars
  <2>1. /\ UNCHANGED <<chain, laneVars, tableVars>>
        /\ indexer' \in 1 .. Tip /\ calm' \in BOOLEAN
    <3>1. CASE Index
      <4>1. indexer' = indexer + 1 /\ indexer < Tip /\ indexer \in 1 .. Tip /\ Tip \in Nat
        BY <1>0, <3>1, TipIsNat, Zenon DEF Index, ScanTyped, IndexType
      <4>2. indexer' \in 1 .. Tip
        BY <4>1, SMT
      <4> QED
        BY <1>0, <3>1, <4>2, Zenon DEF Index, ScanTyped, IndexType
    <3>2. CASE Calm
      BY <1>0, <3>2, Zenon DEF Calm, ScanTyped, IndexType
    <3>3. CASE UNCHANGED vars
      BY <1>0, <3>3, Zenon DEF vars, chainVars, ScanTyped, IndexType
    <3> QED
      BY <1>5, <3>1, <3>2, <3>3
  <2>2. Tip' = Tip
    BY <2>1, Zenon DEF Tip
  <2>3. ChainInv' /\ IndexType'
    BY <1>0, <2>1, <2>2, Zenon DEF ScanTyped, ChainInv, ChainType, FinalStays, IndexType
  <2>4. LaneType' /\ TableType'
    BY <1>0, <2>1, <2>2, Zenon DEF ScanTyped, LaneType, StageType, FoundType, SeenType, BalanceType,
                                   TableType, laneVars, tableVars
  <2>5. LaneInv'
    BY <2>1, <2>2, Zenon DEF ScanInv, LaneInv, ReadInOrder, LeftIsBornOut, BornOutBy, ClaimableIn,
                             Seen, laneVars
  <2>6. AnnouncedWasClaimable'
    BY <2>1, AnnouncedStill DEF tableVars
  <2> QED
    BY <2>3, <2>4, <2>5, <2>6 DEF ScanInv, ScanTyped
<1> QED
  BY <1>1, <1>2, <1>3, <1>4, <1>5, Zenon DEF Next, Work, Fault

LEMMA ScanInit == Init => ScanInv
<1> SUFFICES ASSUME Init PROVE ScanInv
  OBVIOUS
<1>1. PICK block \in BlockState : (block.finalized => block.result # "open") /\ chain = <<block>>
  BY Zenon DEF Init
<1>2. /\ chain \in Seq(BlockState) /\ Tip = 1 /\ chain[1] = block
      /\ \A n \in 1 .. Tip : n = 1
  BY <1>1, SMT DEF Tip
<1>3. ChainInv
  BY <1>1, <1>2, ScanAssumption, SMT DEF ChainInv, ChainType, FinalStays
<1>4. IndexType
  <2>1. 1 \in 1 .. Tip
    BY <1>2, SMT
  <2> QED
    BY <2>1, Zenon DEF Init, IndexType
<1>5. 0 \in 0 .. Tip /\ 0 \in 0 .. MaxBlock
  BY <1>2, ScanAssumption, SMT
<1>6. LaneType
  <2>1. StageType /\ FoundType
    BY Zenon DEF Init, StageType, FoundType, Stage
  <2>2. SeenType /\ BalanceType
    BY <1>5, Zenon DEF Init, SeenType, BalanceType, Nothing
  <2> QED
    BY <2>1, <2>2 DEF LaneType
<1>7. TableType
  <2>1. NoRow \in RowType
    BY <1>5, ScanAssumption, SMT DEF NoRow, RowType
  <2> QED
    BY <1>5, <2>1, SMT DEF Init, TableType
<1>8. LaneInv
  <2> SUFFICES ASSUME NEW w \in Processes PROVE ReadInOrder(w) /\ LeftIsBornOut(w)
    BY DEF LaneInv
  <2>1. stage[w] = "idle" /\ \A o \in Outcomes : seenBalance[w][o] = 0
    BY Zenon DEF Init
  <2> QED
    BY <2>1, SMT DEF ReadInOrder, LeftIsBornOut
<1>9. AnnouncedWasClaimable
  BY SMT DEF Init, AnnouncedWasClaimable
<1> QED
  BY <1>3, <1>4, <1>6, <1>7, <1>8, <1>9 DEF ScanInv, ScanTyped

LEMMA ScanAlways == Spec => []ScanInv
  BY ScanInit, ScanStep, PTL DEF Spec

-----------------------------------------------------------------------------
(* Every reachable state is well typed: no call is answered from a block   *)
(* that does not exist, and no row names one.                              *)
THEOREM ScanTypeCorrect == Spec => []TypeOK
<1>1. ScanInv => TypeOK
  <2> SUFFICES ASSUME ScanInv PROVE TypeOK
    OBVIOUS
  <2>1. Tip \in Blocks /\ \A n \in 1 .. Tip : chain[n] \in BlockState
    BY ScanAssumption, SMT DEF ScanInv, ScanTyped, ChainInv, ChainType, Blocks, Tip
  <2> QED
    BY <2>1, Zenon DEF ScanInv, ScanTyped, IndexType, LaneType, StageType, FoundType, SeenType,
                       BalanceType, TableType, TypeOK
<1> QED
  BY <1>1, ScanAlways, PTL

(* What is announced as claimable was claimable in the block the balance   *)
(* was read from: the settlement is read before it, and what a settlement  *)
(* says once it is final it says in every later block.                     *)
THEOREM ScanAnnouncedWasClaimable == Spec => []AnnouncedWasClaimable
<1>1. ScanInv => AnnouncedWasClaimable
  BY DEF ScanInv
<1> QED
  BY <1>1, ScanAlways, PTL

(* One balance of a position has one event, for any number of processes:   *)
(* two events would need two results of one settlement.                    *)
THEOREM ScanOneNoticePerState == Spec => []OneNoticePerState
<1>1. ScanInv => OneNoticePerState
  <2> SUFFICES ASSUME ScanInv, NEW e \in events, NEW f \in events,
                      e.outcome = f.outcome, e.balance = f.balance
               PROVE  e = f
    BY DEF OneNoticePerState
  <2>1. PICK m \in 1 .. Tip : ClaimableIn(m, e.outcome) /\ e.result = chain[m].result
    BY Zenon DEF ScanInv, AnnouncedWasClaimable
  <2>2. PICK n \in 1 .. Tip : ClaimableIn(n, f.outcome) /\ f.result = chain[n].result
    BY Zenon DEF ScanInv, AnnouncedWasClaimable
  <2>3. m <= n \/ n <= m
    BY TipIsNat, SMT DEF ScanInv, ScanTyped
  <2>4. e.result = f.result
    BY <2>1, <2>2, <2>3, Zenon DEF ClaimableIn, ScanInv, ScanTyped, ChainInv, FinalStays
  <2>5. e \in EventType /\ f \in EventType
    BY SMT DEF ScanInv, ScanTyped, TableType
  <2> QED
    BY <2>4, <2>5, SMT DEF EventType
<1> QED
  BY <1>1, ScanAlways, PTL
===============================================================================
