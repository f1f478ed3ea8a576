---------------------------- MODULE ParsingProofs ----------------------------
(***************************************************************************)
(* Proofs about Parsing, for any nodes, any chain and any start block.     *)
(***************************************************************************)
EXTENDS Parsing, ReporterProofs

-----------------------------------------------------------------------------
\* The variables have their types when Parser begins (worker.go:293-298).
LEMMA InitType == Init => TypeOK
<1> SUFFICES ASSUME Init PROVE TypeOK
  OBVIOUS
<1>1. Len(Genesis) \in Nat /\ Start \in Nat
  BY GenesisAssumption, StartAssumption, LenProperties
<1> QED
  <2>1. height \in [Nodes -> Nat] /\ \A n \in Nodes : height[n] <= Len(chain)
    BY <1>1 DEF Init
  <2>2. chain \in Seq(Nat) /\ 0 \in 0 .. Len(chain)
    BY <1>1, GenesisAssumption DEF Init
  <2>3. <<>> \in Seq([DeltaTime : Nat, TxCount : Nat])
    BY EmptySeq
  <2> QED
    BY <1>1, <2>1, <2>2, <2>3 DEF Init, TypeOK

\* UpdateTPS keeps lists of infos lists of infos.
LEMMA UpdateTPSType ==
  ASSUME NEW I, NEW list \in Seq(I), NEW pool \in Seq(I), NEW info \in I
  PROVE  TPSAfter(list, pool, info) \in Seq(I) /\ TPSPoolAfter(pool, info) \in Seq(I)
<1>1. list \o pool \in Seq(I)
  BY ConcatProperties
<1>2. Append(list \o pool, info) \in Seq(I)
  BY <1>1, AppendProperties
<1>3. Append(pool, info) \in Seq(I) /\ <<>> \in Seq(I)
  BY AppendProperties, EmptySeq
<1> QED
  BY <1>2, <1>3 DEF TPSAfter, TPSPoolAfter

\* Every step of parser and environment keeps the types.
LEMMA NextType == TypeOK /\ [Next]_vars => TypeOK'
<1> SUFFICES ASSUME TypeOK, [Next]_vars PROVE TypeOK'
  OBVIOUS
<1>n. Len(chain) \in Nat
  BY LenProperties DEF TypeOK
<1>1. ASSUME NEW k \in BlockSizes, Persist(k) PROVE TypeOK'
  <2>1. chain' \in Seq(Nat) /\ Len(chain') = Len(chain) + 1
    BY <1>1, BlockSizesAssumption, AppendProperties DEF Persist, TypeOK
  <2> QED
    BY <1>1, <2>1, <1>n DEF Persist, TypeOK, sharedVars, parserVars, tallyVars, controlVars
<1>2. ASSUME NEW n \in Nodes, Sync(n) PROVE TypeOK'
  BY <1>2, <1>n DEF Sync, TypeOK, sharedVars, parserVars, tallyVars, controlVars
<1>3. CASE Acknowledge \/ CloseSentOut \/ Cancel
  <2>1. countTxs' \in Nat /\ sentOut' \in BOOLEAN /\ done' \in BOOLEAN
    <3>1. CASE Acknowledge
      BY <3>1 DEF Acknowledge, TypeOK
    <3>2. CASE CloseSentOut
      BY <3>2 DEF CloseSentOut, TypeOK
    <3>3. CASE Cancel
      BY <3>3 DEF Cancel, TypeOK
    <3> QED
      BY <1>3, <3>1, <3>2, <3>3
  <2>2. UNCHANGED <<networkVars, parserVars>>
    BY <1>3 DEF Acknowledge, CloseSentOut, Cancel
  <2> QED
    BY <2>1, <2>2 DEF TypeOK, networkVars, parserVars, tallyVars, controlVars
<1>4. CASE ExpireParser
  BY <1>4 DEF ExpireParser, TypeOK, networkVars, sharedVars, tallyVars
<1>5. CASE Tick \/ LeaveLoop \/ Check \/ SeeSentOut \/ NotFinishedYet
  BY <1>5 DEF Tick, LeaveLoop, Check, SeeSentOut, NotFinishedYet, TypeOK,
              networkVars, sharedVars, tallyVars
<1>6. ASSUME NEW n \in Nodes, GetBlockCount(n) PROVE TypeOK'
  <2>1. lastBlock' \in 0 .. Len(chain)
    BY <1>6, <1>n DEF GetBlockCount, TypeOK
  <2> QED
    BY <1>6, <2>1 DEF GetBlockCount, TypeOK, networkVars, sharedVars, tallyVars
<1>7. CASE GetBlockCountFails
  BY <1>7, <1>n DEF GetBlockCountFails, Return, TypeOK, networkVars, tallyVars
<1>8. ASSUME NEW i \in lastBlockIndx .. lastBlock - 1, NEW n \in Nodes, GetBlock(n, i)
      PROVE  TypeOK'
  <2>1. i \in 0 .. Len(chain) - 1
    BY <1>n DEF TypeOK
  <2>0. chain[i + 1] \in Nat
    BY <2>1, <1>n, ElementOfSeq DEF TypeOK
  <2>2. TimeMod \in Nat \ {0}
    BY TimeModAssumption, BoundsAssumption
  <2>3. DeltaTime(i) \in Nat
    BY <2>1, <2>2 DEF DeltaTime, TypeOK
  <2> DEFINE info == tpsInfo(DeltaTime(i), chain[i + 1])
  <2>4. info \in [DeltaTime : Nat, TxCount : Nat]
    BY <2>0, <2>3 DEF tpsInfo
  <2>5. /\ TPS' = TPS \/ TPS' = TPSAfter(TPS, TPSPool, info)
        /\ TPSPool' = TPSPool \/ TPSPool' = TPSPoolAfter(TPSPool, info)
    BY <1>8 DEF GetBlock
  <2> HIDE DEF info
  <2> DEFINE infos == [DeltaTime : Nat, TxCount : Nat]
  <2>t. TPS \in Seq(infos) /\ TPSPool \in Seq(infos) /\ info \in infos
    BY <2>4 DEF TypeOK
  <2> HIDE DEF infos
  <2>6. TPS' \in Seq(infos)
    BY <2>t, <2>5, UpdateTPSType
  <2>7. TPSPool' \in Seq(infos)
    BY <2>t, <2>5, UpdateTPSType
  <2>8. /\ parsedBlocks' \subseteq 0 .. Len(chain) - 1
        /\ parsedCount' \in Nat /\ hasStarted' \in BOOLEAN /\ lastBlockTime' \in Nat
    <3>1. /\ parsedBlocks' = parsedBlocks \cup {i}
          /\ hasStarted' = (hasStarted \/ chain[i + 1] > 0)
          /\ lastBlockTime' = i
          /\ parsedCount' = parsedCount + chain[i + 1]
      BY <1>8 DEF GetBlock
    <3>2. parsedBlocks \subseteq 0 .. Len(chain) - 1 /\ parsedCount \in Nat
      BY DEF TypeOK
    <3>3. parsedBlocks' \subseteq 0 .. Len(chain) - 1
      BY <2>1, <3>1, <3>2
    <3>4. parsedCount' \in Nat /\ lastBlockTime' \in Nat
      BY <2>0, <2>1, <3>1, <3>2
    <3>5. hasStarted' \in BOOLEAN
      BY <3>1
    <3> QED
      BY <3>3, <3>4, <3>5
  <2>9. UNCHANGED <<networkVars, sharedVars, controlVars>>
    BY <1>8 DEF GetBlock
  <2> QED
    BY <2>6, <2>7, <2>8, <2>9 DEF infos, TypeOK, networkVars, sharedVars, controlVars
<1>9. ASSUME NEW i \in lastBlockIndx .. lastBlock - 1, GetBlockFails(i) PROVE TypeOK'
  <2>1. i \in Nat
    BY DEF TypeOK
  <2> QED
    BY <1>9, <2>1 DEF GetBlockFails, Return, TypeOK, networkVars, sharedVars, tallyVars
<1>10. CASE ParseDone
  BY <1>10, <1>n DEF ParseDone, Return, TypeOK, networkVars, sharedVars, tallyVars
<1>11. CASE UNCHANGED vars
  BY <1>11 DEF vars, TypeOK, networkVars, sharedVars, tallyVars, controlVars
<1> QED
  BY <1>1, <1>2, <1>3, <1>4, <1>5, <1>6, <1>7, <1>8, <1>9, <1>10, <1>11
  DEF Next, ParserStep, Environment

\* The variables of the parsing half keep their types.
THEOREM TypeCorrect == Spec => []TypeOK
  BY InitType, NextType, PTL DEF Spec

-----------------------------------------------------------------------------
(* No block is skipped.  NoBlockSkipped is inductive: parse returns a block *)
(* only when the blocks before it, from where it started, are parsed.       *)

\* There is no block between the start block and itself.
LEMMA InitNoSkip == Init => NoBlockSkipped
  BY StartAssumption, GenesisAssumption, LenProperties DEF Init, NoBlockSkipped

\* What parse returns has only parsed blocks before it (worker.go:351-358, 391).
LEMMA NextNoSkip == TypeOK /\ NoBlockSkipped /\ [Next]_vars => NoBlockSkipped'
<1> SUFFICES ASSUME TypeOK, NoBlockSkipped, [Next]_vars PROVE NoBlockSkipped'
  OBVIOUS
<1> USE StartAssumption, GenesisAssumption, LenProperties
<1>1. ASSUME UNCHANGED <<lastBlockIndx, parsedBlocks>> PROVE NoBlockSkipped'
  BY <1>1 DEF NoBlockSkipped
<1>2. CASE GetBlockCountFails
  BY <1>2 DEF GetBlockCountFails, Return, NoBlockSkipped, tallyVars
<1>3. ASSUME NEW n \in Nodes, NEW i, GetBlock(n, i) PROVE NoBlockSkipped'
  BY <1>3 DEF GetBlock, NoBlockSkipped, controlVars
<1>4. ASSUME NEW i \in lastBlockIndx .. lastBlock - 1, GetBlockFails(i)
      PROVE  NoBlockSkipped'
  <2>1. \A j \in Start .. i - 1 : j \in parsedBlocks
    BY <1>4 DEF GetBlockFails, AtBlock, NoBlockSkipped, TypeOK
  <2> QED
    BY <1>4, <2>1 DEF GetBlockFails, Return, NoBlockSkipped, tallyVars
<1>5. CASE ParseDone
  <2>1. \A j \in Start .. lastBlock - 1 : j \in parsedBlocks
    BY <1>5 DEF ParseDone, NoBlockSkipped, TypeOK
  <2> QED
    BY <1>5, <2>1 DEF ParseDone, Return, NoBlockSkipped, tallyVars
<1>6. CASE UNCHANGED vars
  BY <1>1, <1>6 DEF vars, tallyVars, controlVars
<1>7. CASE \/ Tick \/ LeaveLoop \/ Check \/ SeeSentOut \/ NotFinishedYet
           \/ \E n \in Nodes : GetBlockCount(n)
  BY <1>1, <1>7 DEF Tick, LeaveLoop, Check, SeeSentOut, NotFinishedYet,
                    GetBlockCount, tallyVars
<1>8. CASE Environment \/ ExpireParser
  BY <1>1, <1>8 DEF Environment, Persist, Sync, Acknowledge, CloseSentOut, Cancel,
                    ExpireParser, parserVars, tallyVars, controlVars
<1> QED
  BY <1>2, <1>3, <1>4, <1>5, <1>6, <1>7, <1>8 DEF Next, ParserStep

\* Whatever fails or lags, no block from the start block on is passed over
\* (worker.go:351-358, 391).
THEOREM NothingSkipped == Spec => []NoBlockSkipped
  BY InitNoSkip, NextNoSkip, TypeCorrect, PTL DEF Spec

-----------------------------------------------------------------------------
(* The parser implements BlockTally: fetching a block counts it, adding a  *)
(* block grows the chain, and every other step leaves the tally alone.     *)

\* The parser begins with an empty tally.
LEMMA TallyInit == Init => Tally!Init
  BY DEF Init, Tally!Init

\* A fetched block is a counted one, a new block lets the chain grow, and
\* every other step leaves the tally alone (worker.go:359-386).
LEMMA TallyStep ==
  TypeOK /\ NoBlockSkipped /\ [Next]_vars => [Tally!Next]_(Tally!vars)
<1> SUFFICES ASSUME TypeOK, NoBlockSkipped, [Next]_vars
             PROVE  Tally!Next \/ UNCHANGED Tally!vars
  OBVIOUS
<1> USE DEF Tally!vars
<1>1. ASSUME NEW k \in BlockSizes, Persist(k) PROVE Tally!Grow
  BY <1>1 DEF Persist, Tally!Grow, parserVars, tallyVars
<1>2. ASSUME NEW i \in lastBlockIndx .. lastBlock - 1, NEW n \in Nodes, GetBlock(n, i)
      PROVE  i \in 0 .. Len(chain) - 1 /\ Tally!CountBlock(i)
  <2>1. i \notin parsedBlocks
    BY <1>2 DEF GetBlock, AtBlock
  <2>2. \A j \in Start .. i - 1 : j \in parsedBlocks
    BY <1>2, StartAssumption, GenesisAssumption, LenProperties
    DEF GetBlock, AtBlock, NoBlockSkipped, TypeOK
  <2>3. i \in 0 .. Len(chain) - 1
    BY LenProperties DEF TypeOK
  <2> QED
    BY <1>2, <2>1, <2>2, <2>3 DEF GetBlock, Tally!CountBlock, networkVars
<1>3. CASE \/ Tick \/ LeaveLoop \/ Check \/ SeeSentOut \/ NotFinishedYet
           \/ \E n \in Nodes : GetBlockCount(n)
  BY <1>3 DEF Tick, LeaveLoop, Check, SeeSentOut, NotFinishedYet, GetBlockCount,
              networkVars, tallyVars
<1>4. CASE \/ GetBlockCountFails \/ ParseDone
           \/ \E i \in lastBlockIndx .. lastBlock - 1 : GetBlockFails(i)
  BY <1>4 DEF GetBlockCountFails, GetBlockFails, ParseDone, networkVars, tallyVars
<1>5. CASE \/ \E n \in Nodes : Sync(n)
           \/ Acknowledge \/ CloseSentOut \/ Cancel \/ ExpireParser
  BY <1>5 DEF Sync, Acknowledge, CloseSentOut, Cancel, ExpireParser, networkVars,
              parserVars, tallyVars
<1>6. CASE UNCHANGED vars
  BY <1>6 DEF vars, networkVars, tallyVars
<1> QED
  BY <1>1, <1>2, <1>3, <1>4, <1>5, <1>6 DEF Next, ParserStep, Environment, Tally!Next

\* The parser counts each block at most once, in order and without a gap from
\* the start block on, and its total is what those blocks hold.
THEOREM ParsingImplementsTally == Spec => TallySpec
  BY TallyInit, TallyStep, TypeCorrect, NothingSkipped, PTL
  DEF Spec, TallySpec, Tally!Spec

-----------------------------------------------------------------------------
(* The report.  Only idle blocks wait in the pool, so flushing it adds      *)
(* nothing to the transactions.  The time is the one from the block before *)
(* the first busy one to the last busy one, and the pool holds the time     *)
(* from there to the block parsed last.                                     *)

PoolIsIdle == \A k \in 1 .. Len(TPSPool) : TPSPool[k].TxCount = 0

TallyInv == PoolIsIdle /\ ReportMatchesTally

BusyBlocks == {i \in parsedBlocks : chain[i + 1] > 0}
BlockBefore(i) == IF i > Start THEN i - 1 ELSE Start

InOrder ==
    /\ lastBlockTime >= Start
    /\ \/ parsedBlocks = {} /\ lastBlockTime = Start
       \/ parsedBlocks = Start .. lastBlockTime

TimeCovered ==
    /\ ~hasStarted => BusyBlocks = {} /\ TPS = <<>> /\ TPSPool = <<>>
    /\ hasStarted => \E i, k \in BusyBlocks :
           /\ \A j \in BusyBlocks : i <= j /\ j <= k
           /\ OverallBlocksTime(TPS) = k - BlockBefore(i)
           /\ OverallBlocksTime(TPSPool) = lastBlockTime - k

WindowInv == CountsOnlyTestBlocks => InOrder /\ TimeCovered

\* What fetching a block does (worker.go:359-386): before the first busy block
\* nothing is reported, a busy block flushes the pool, an idle one waits in it.
LEMMA GetBlockEffect ==
  ASSUME TypeOK, NEW i \in lastBlockIndx .. lastBlock - 1, NEW n \in Nodes,
         GetBlock(n, i)
  PROVE  LET info == tpsInfo(DeltaTime(i), chain[i + 1])
         IN  /\ i \in 0 .. Len(chain) - 1 /\ chain[i + 1] \in Nat
             /\ info \in Infos /\ info.DeltaTime = DeltaTime(i)
             /\ info.TxCount = chain[i + 1]
             /\ AtBlock(i) /\ UNCHANGED networkVars
             /\ parsedBlocks' = parsedBlocks \cup {i} /\ lastBlockTime' = i
             /\ parsedCount' = parsedCount + chain[i + 1]
             /\ \/ /\ chain[i + 1] = 0 /\ ~hasStarted /\ ~hasStarted'
                   /\ TPS' = TPS /\ TPSPool' = TPSPool
                \/ /\ chain[i + 1] = 0 /\ hasStarted /\ hasStarted'
                   /\ TPS' = TPS /\ TPSPool' = Append(TPSPool, info)
                \/ /\ chain[i + 1] > 0 /\ hasStarted'
                   /\ TPS' = Append(TPS \o TPSPool, info) /\ TPSPool' = <<>>
<1> DEFINE info == tpsInfo(DeltaTime(i), chain[i + 1])
<1>1. i \in 0 .. Len(chain) - 1 /\ Len(chain) \in Nat
  BY LenProperties DEF TypeOK
<1>2. chain[i + 1] \in Nat
  BY <1>1, ElementOfSeq DEF TypeOK
<1>3. TimeMod \in Nat \ {0}
  BY TimeModAssumption, BoundsAssumption
<1>4. DeltaTime(i) \in Nat
  BY <1>1, <1>3 DEF DeltaTime, TypeOK
<1>5. info \in Infos /\ info.DeltaTime = DeltaTime(i) /\ info.TxCount = chain[i + 1]
  BY <1>2, <1>4 DEF tpsInfo, Infos
<1>6. /\ parsedBlocks' = parsedBlocks \cup {i} /\ lastBlockTime' = i
      /\ parsedCount' = parsedCount + chain[i + 1]
      /\ AtBlock(i) /\ UNCHANGED networkVars
      /\ hasStarted' = (hasStarted \/ chain[i + 1] > 0)
      /\ ~hasStarted' => TPS' = TPS /\ TPSPool' = TPSPool
      /\ hasStarted' => /\ TPS' = TPSAfter(TPS, TPSPool, info)
                        /\ TPSPool' = TPSPoolAfter(TPSPool, info)
  BY DEF GetBlock
<1> HIDE DEF info
<1>7. CASE chain[i + 1] = 0
  <2>1. hasStarted' = hasStarted
    BY <1>6, <1>7 DEF TypeOK
  <2>2. TPSAfter(TPS, TPSPool, info) = TPS
        /\ TPSPoolAfter(TPSPool, info) = Append(TPSPool, info)
    BY <1>5, <1>7 DEF TPSAfter, TPSPoolAfter
  <2> QED
    BY <1>1, <1>5, <1>6, <1>7, <2>1, <2>2 DEF info
<1>8. CASE chain[i + 1] > 0
  <2>1. hasStarted'
    BY <1>6, <1>8
  <2>2. TPSAfter(TPS, TPSPool, info) = Append(TPS \o TPSPool, info)
        /\ TPSPoolAfter(TPSPool, info) = <<>>
    BY <1>5, <1>8 DEF TPSAfter, TPSPoolAfter
  <2> QED
    BY <1>1, <1>2, <1>5, <1>6, <1>8, <2>1, <2>2 DEF info
<1> QED
  BY <1>2, <1>7, <1>8

\* No other step touches the tally (worker.go:293-345).
LEMMA TallyUntouched ==
  ASSUME [Next]_vars
  PROVE  \/ UNCHANGED tallyVars
         \/ \E i \in lastBlockIndx .. lastBlock - 1 : \E n \in Nodes : GetBlock(n, i)
<1>1. CASE ParserStep
  BY <1>1 DEF ParserStep, Tick, LeaveLoop, Check, SeeSentOut, NotFinishedYet,
              GetBlockCount, GetBlockCountFails, GetBlockFails, ParseDone
<1>2. CASE ExpireParser \/ Environment
  BY <1>2 DEF ExpireParser, Environment, Persist, Sync, Acknowledge, CloseSentOut,
              Cancel, parserVars
<1>3. CASE UNCHANGED vars
  BY <1>3 DEF vars
<1> QED
  BY <1>1, <1>2, <1>3 DEF Next

\* The infos of the report's lists.
LEMMA ReportLists == TypeOK => TPS \in Seq(Infos) /\ TPSPool \in Seq(Infos)
  BY DEF TypeOK, Infos

\* The report is empty at the start.
LEMMA InitReport == Init => TallyInv
<1>1. Len(<<>>) = 0
  BY EmptySeq
<1> QED
  BY <1>1, EmptyReport DEF Init, TallyInv, PoolIsIdle, ReportMatchesTally

\* A block's transactions reach the report when they are counted.
LEMMA NextReport == TypeOK /\ TallyInv /\ [Next]_vars => TallyInv'
<1> SUFFICES ASSUME TypeOK, TallyInv, [Next]_vars PROVE TallyInv'
  OBVIOUS
<1>1. ASSUME NEW i \in lastBlockIndx .. lastBlock - 1, NEW n \in Nodes, GetBlock(n, i)
      PROVE  TallyInv'
  <2> DEFINE info == tpsInfo(DeltaTime(i), chain[i + 1])
  <2>1. /\ TPS \in Seq(Infos) /\ TPSPool \in Seq(Infos)
        /\ parsedCount \in Nat /\ Len(TPSPool) \in Nat
    BY ReportLists, LenProperties DEF TypeOK
  <2>2. /\ info \in Infos /\ info.TxCount = chain[i + 1] /\ chain[i + 1] \in Nat
        /\ parsedCount' = parsedCount + chain[i + 1]
        /\ \/ chain[i + 1] = 0 /\ TPS' = TPS /\ TPSPool' = TPSPool
           \/ chain[i + 1] = 0 /\ TPS' = TPS /\ TPSPool' = Append(TPSPool, info)
           \/ TPS' = Append(TPS \o TPSPool, info) /\ TPSPool' = <<>>
    BY <1>1, GetBlockEffect
  <2>3. ReportedTxs(TPSPool) = 0
    BY <2>1, IdleTotal DEF TallyInv, PoolIsIdle
  <2> HIDE DEF info
  <2>4. /\ Len(Append(TPSPool, info)) = Len(TPSPool) + 1
        /\ Append(TPSPool, info)[Len(TPSPool) + 1] = info
        /\ \A k \in 1 .. Len(TPSPool) : Append(TPSPool, info)[k] = TPSPool[k]
    BY <2>1, <2>2, AppendProperties
  <2>5. ReportedTxs(TPS) = parsedCount
    BY DEF TallyInv, ReportMatchesTally
  <2>6. ReportedTxs(Append(TPS \o TPSPool, info)) = parsedCount + 0 + info.TxCount
    BY <2>1, <2>2, <2>3, <2>5, TotalsOfFlush
  <2>7. PoolIsIdle'
    <3>1. CASE TPSPool' = Append(TPSPool, info) /\ info.TxCount = 0
      BY <2>1, <2>4, <3>1 DEF TallyInv, PoolIsIdle
    <3>2. CASE TPSPool' = TPSPool
      BY <3>2 DEF TallyInv, PoolIsIdle
    <3>3. CASE TPSPool' = <<>>
      <4>1. Len(TPSPool') = 0
        BY <3>3, EmptySeq
      <4> QED
        BY <4>1 DEF PoolIsIdle
    <3> QED
      BY <2>2, <3>1, <3>2, <3>3
  <2>8. ReportedTxs(TPS') = parsedCount'
    <3>1. CASE TPS' = TPS /\ chain[i + 1] = 0
      BY <2>1, <2>2, <2>5, <3>1
    <3>2. CASE TPS' = Append(TPS \o TPSPool, info)
      BY <2>1, <2>2, <2>6, <3>2
    <3> QED
      BY <2>2, <3>1, <3>2
  <2> QED
    BY <2>7, <2>8 DEF TallyInv, ReportMatchesTally
<1>2. ASSUME UNCHANGED tallyVars PROVE TallyInv'
  BY <1>2 DEF tallyVars, TallyInv, PoolIsIdle, ReportMatchesTally
<1> QED
  BY <1>1, <1>2, TallyUntouched

\* The transactions the report prints are those the parser has counted
\* (report.go:136-139, worker.go:383-386), however many idle blocks it holds back.
THEOREM ReportTallies == Spec => []ReportMatchesTally
<1>1. Spec => []TallyInv
  BY InitReport, NextReport, TypeCorrect, PTL DEF Spec
<1>2. TallyInv => ReportMatchesTally
  BY DEF TallyInv
<1> QED
  BY <1>1, <1>2, PTL

\* Before the first block there is no time to cover.
LEMMA InitWindow == Init => WindowInv
<1> SUFFICES ASSUME Init PROVE WindowInv
  OBVIOUS
<1>1. parsedBlocks = {} /\ lastBlockTime = Start /\ ~hasStarted
      /\ TPS = <<>> /\ TPSPool = <<>>
  BY DEF Init
<1>2. Start \in Int
  BY StartAssumption
<1>3. InOrder
  BY <1>1, <1>2 DEF InOrder
<1>4. BusyBlocks = {}
  BY <1>1 DEF BusyBlocks
<1>5. TimeCovered
  BY <1>1, <1>4 DEF TimeCovered
<1> QED
  BY <1>3, <1>5 DEF WindowInv

\* Only blocks from the start block on having been parsed, the next one is the
\* start block or the one after the block parsed last.
LEMMA NextInOrder ==
  ASSUME TypeOK, NoBlockSkipped, InOrder,
         NEW i \in lastBlockIndx .. lastBlock - 1, AtBlock(i), i >= Start,
         parsedBlocks' = parsedBlocks \cup {i}, lastBlockTime' = i
  PROVE  /\ InOrder'
         /\ i \in Nat
         /\ \/ parsedBlocks = {} /\ i = Start /\ DeltaTime(i) = 0
            \/ parsedBlocks # {} /\ i = lastBlockTime + 1 /\ DeltaTime(i) = 1
<1>1. Start \in Nat /\ i \in Nat /\ lastBlockTime \in Nat /\ lastBlockIndx \in Nat
  BY StartAssumption DEF TypeOK
<1>2. TimeMod \in Nat /\ TimeMod > 1
  <2>1. Len(Genesis) \in Nat /\ Len(Genesis) >= 1
    BY StartAssumption, GenesisAssumption, LenProperties
  <2> QED
    BY <2>1, TimeModAssumption
<1>3. \A j \in Start .. i - 1 : j \in parsedBlocks
  BY <1>1 DEF AtBlock, NoBlockSkipped
<1>4. i \notin parsedBlocks
  BY DEF AtBlock
<1>5. CASE parsedBlocks = {}
  <2>1. i = Start /\ lastBlockTime = Start
    BY <1>1, <1>3, <1>5 DEF InOrder
  <2>2. (i - lastBlockTime) % TimeMod = 0
    <3>1. i - lastBlockTime = 0
      BY <1>1, <2>1
    <3>2. 0 % TimeMod = 0
      BY <1>2
    <3> QED
      BY <3>1, <3>2
  <2>3. parsedBlocks' = i .. i
    BY <1>1, <1>5
  <2> QED
    BY <1>1, <1>5, <2>1, <2>2, <2>3 DEF InOrder, DeltaTime
<1>6. CASE parsedBlocks # {}
  <2>1. parsedBlocks = Start .. lastBlockTime
    BY <1>6 DEF InOrder
  <2>2. i = lastBlockTime + 1
    BY <1>1, <1>3, <1>4, <2>1 DEF InOrder
  <2>3. (i - lastBlockTime) % TimeMod = 1
    <3>1. i - lastBlockTime = 1
      BY <1>1, <2>2
    <3>2. 1 % TimeMod = 1
      BY <1>2
    <3> QED
      BY <3>1, <3>2
  <2>4. parsedBlocks' = Start .. i
    BY <1>1, <2>1, <2>2
  <2> QED
    BY <1>1, <1>6, <2>2, <2>3, <2>4 DEF InOrder, DeltaTime
<1> QED
  BY <1>5, <1>6

\* The report's time after the block i.
LEMMA NextCovered ==
  ASSUME TypeOK, NoBlockSkipped, InOrder, TimeCovered,
         NEW i \in lastBlockIndx .. lastBlock - 1, NEW n \in Nodes, GetBlock(n, i),
         i >= Start
  PROVE  InOrder' /\ TimeCovered'
<1> DEFINE info == tpsInfo(DeltaTime(i), chain[i + 1])
           report == OverallBlocksTime(TPS)
           waiting == OverallBlocksTime(TPSPool)
<1>1. /\ chain[i + 1] \in Nat /\ info \in Infos /\ info.DeltaTime = DeltaTime(i)
      /\ AtBlock(i) /\ chain' = chain
      /\ parsedBlocks' = parsedBlocks \cup {i} /\ lastBlockTime' = i
      /\ \/ /\ chain[i + 1] = 0 /\ ~hasStarted /\ ~hasStarted'
            /\ TPS' = TPS /\ TPSPool' = TPSPool
         \/ /\ chain[i + 1] = 0 /\ hasStarted /\ hasStarted'
            /\ TPS' = TPS /\ TPSPool' = Append(TPSPool, info)
         \/ /\ chain[i + 1] > 0 /\ hasStarted'
            /\ TPS' = Append(TPS \o TPSPool, info) /\ TPSPool' = <<>>
  BY GetBlockEffect DEF networkVars
<1>2. /\ InOrder' /\ i \in Nat
      /\ \/ parsedBlocks = {} /\ i = Start /\ DeltaTime(i) = 0
         \/ parsedBlocks # {} /\ i = lastBlockTime + 1 /\ DeltaTime(i) = 1
  BY <1>1, NextInOrder
<1> HIDE DEF info
<1>3. /\ TPS \in Seq(Infos) /\ TPSPool \in Seq(Infos)
      /\ report \in Int /\ waiting \in Int
      /\ OverallBlocksTime(Append(TPSPool, info)) = waiting + DeltaTime(i)
      /\ OverallBlocksTime(Append(TPS \o TPSPool, info)) = report + waiting + DeltaTime(i)
      /\ OverallBlocksTime(<<>>) = 0
  BY <1>1, ReportLists, TotalsOfAppend, TotalsOfFlush, EmptyReport
<1>4. lastBlockTime \in Nat /\ Start \in Nat /\ lastBlockTime >= Start
      /\ parsedBlocks \subseteq Start .. lastBlockTime
  BY StartAssumption DEF InOrder, TypeOK
<1> HIDE DEF report, waiting
<1>5. CASE chain[i + 1] = 0
  <2>1. BusyBlocks' = BusyBlocks
    BY <1>1, <1>5 DEF BusyBlocks
  <2>2. CASE ~hasStarted
    BY <1>1, <1>2, <1>5, <2>1, <2>2 DEF TimeCovered
  <2>3. CASE hasStarted
    <3>1. PICK a, b \in BusyBlocks :
              /\ \A j \in BusyBlocks : a <= j /\ j <= b
              /\ report = b - BlockBefore(a) /\ waiting = lastBlockTime - b
      BY <2>3 DEF TimeCovered, report, waiting
    <3>2. TPS' = TPS /\ TPSPool' = Append(TPSPool, info) /\ hasStarted'
      BY <1>1, <1>5, <2>3
    <3>3. parsedBlocks # {} /\ b \in Nat
      BY <3>1, <1>4 DEF BusyBlocks
    <3>4. OverallBlocksTime(TPS') = b - BlockBefore(a)
      BY <3>1, <3>2 DEF report
    <3>5. OverallBlocksTime(TPSPool') = i - b
      <4>1. OverallBlocksTime(TPSPool') = waiting + DeltaTime(i)
        BY <1>3, <3>2
      <4>2. DeltaTime(i) = 1 /\ i = lastBlockTime + 1
        BY <1>2, <3>3
      <4> QED
        BY <1>4, <3>1, <3>3, <4>1, <4>2
    <3> QED
      BY <1>1, <1>2, <2>1, <3>1, <3>2, <3>4, <3>5 DEF TimeCovered
  <2> QED
    BY <2>2, <2>3
<1>6. CASE chain[i + 1] > 0
  <2>1. BusyBlocks' = BusyBlocks \cup {i}
    BY <1>1, <1>6 DEF BusyBlocks
  <2>2. /\ hasStarted' /\ TPSPool' = <<>>
        /\ OverallBlocksTime(TPS') = report + waiting + DeltaTime(i)
        /\ OverallBlocksTime(TPSPool') = i - i
    <3>1. /\ hasStarted' /\ TPSPool' = <<>>
          /\ TPS' = Append(TPS \o TPSPool, info)
      BY <1>1, <1>6
    <3>2. i - i = 0
      BY <1>2
    <3> QED
      BY <1>3, <3>1, <3>2
  <2>3. \A j \in BusyBlocks : j <= i
    BY <1>2, <1>4 DEF BusyBlocks
  <2>4. CASE ~hasStarted
    <3>1. BusyBlocks = {} /\ report + waiting = 0
      BY <1>3, <2>4 DEF TimeCovered, report, waiting
    <3>2. report + waiting + DeltaTime(i) = i - BlockBefore(i)
      BY <1>2, <1>3, <1>4, <3>1 DEF BlockBefore
    <3>3. /\ i \in BusyBlocks' /\ \A j \in BusyBlocks' : i <= j /\ j <= i
          /\ OverallBlocksTime(TPS') = i - BlockBefore(i)
      BY <1>2, <2>1, <2>2, <3>1, <3>2
    <3> QED
      BY <1>1, <1>2, <2>2, <3>3 DEF TimeCovered
  <2>5. CASE hasStarted
    <3>1. PICK a, b \in BusyBlocks :
              /\ \A j \in BusyBlocks : a <= j /\ j <= b
              /\ report = b - BlockBefore(a) /\ waiting = lastBlockTime - b
      BY <2>5 DEF TimeCovered, report, waiting
    <3>2. parsedBlocks # {} /\ a \in Nat /\ b \in Nat /\ BlockBefore(a) \in Int
      BY <3>1, <1>4 DEF BusyBlocks, BlockBefore
    <3>3. report + waiting + DeltaTime(i) = i - BlockBefore(a)
      <4>1. DeltaTime(i) = 1 /\ i = lastBlockTime + 1
        BY <1>2, <3>2
      <4> QED
        BY <1>4, <3>1, <3>2, <4>1
    <3>4. /\ a \in BusyBlocks' /\ i \in BusyBlocks'
          /\ \A j \in BusyBlocks' : a <= j /\ j <= i
      BY <1>2, <2>1, <2>3, <3>1
    <3> QED
      BY <1>1, <1>2, <2>2, <3>3, <3>4 DEF TimeCovered
  <2> QED
    BY <2>4, <2>5
<1> QED
  BY <1>1, <1>2, <1>5, <1>6

\* A longer chain has the same blocks where it had some.
LEMMA SameBlocks ==
  ASSUME TypeOK, [Next]_vars
  PROVE  \A i \in 0 .. Len(chain) - 1 : chain'[i + 1] = chain[i + 1]
<1>1. ASSUME NEW k \in BlockSizes, Persist(k)
      PROVE  \A i \in 0 .. Len(chain) - 1 : chain'[i + 1] = chain[i + 1]
  <2>1. chain \in Seq(Nat) /\ k \in Nat /\ Len(chain) \in Nat
    BY BlockSizesAssumption, LenProperties DEF TypeOK
  <2>2. \A i \in 1 .. Len(chain) : Append(chain, k)[i] = chain[i]
    BY <2>1, AppendProperties
  <2> QED
    BY <1>1, <2>1, <2>2 DEF Persist
<1>2. ASSUME UNCHANGED chain
      PROVE  \A i \in 0 .. Len(chain) - 1 : chain'[i + 1] = chain[i + 1]
  BY <1>2
<1>3. CASE ParserStep \/ ExpireParser \/ UNCHANGED vars
  BY <1>2, <1>3 DEF ParserStep, Tick, LeaveLoop, Check, SeeSentOut, NotFinishedYet,
              GetBlockCount, GetBlockCountFails, GetBlock, GetBlockFails, ParseDone,
              ExpireParser, vars, networkVars
<1>4. CASE Environment
  BY <1>1, <1>2, <1>4 DEF Environment, Sync, Acknowledge, CloseSentOut, Cancel, networkVars
<1> QED
  BY <1>3, <1>4 DEF Next

\* Each step keeps the time covered what it should be.
LEMMA NextWindow ==
  TypeOK /\ NoBlockSkipped /\ WindowInv /\ [Next]_vars => WindowInv'
<1> SUFFICES ASSUME TypeOK, NoBlockSkipped, WindowInv, [Next]_vars,
                    CountsOnlyTestBlocks'
             PROVE  InOrder' /\ TimeCovered'
  BY DEF WindowInv
<1>1. ASSUME NEW i \in lastBlockIndx .. lastBlock - 1, NEW n \in Nodes, GetBlock(n, i)
      PROVE  InOrder' /\ TimeCovered'
  <2>1. parsedBlocks' = parsedBlocks \cup {i}
    BY <1>1 DEF GetBlock
  <2>2. CountsOnlyTestBlocks /\ i >= Start
    BY <2>1 DEF CountsOnlyTestBlocks
  <2> QED
    BY <1>1, <2>2, NextCovered DEF WindowInv
<1>2. ASSUME UNCHANGED tallyVars PROVE InOrder' /\ TimeCovered'
  <2>1. InOrder /\ TimeCovered
    BY <1>2 DEF tallyVars, CountsOnlyTestBlocks, WindowInv
  <2>2. BusyBlocks' = BusyBlocks
    BY <1>2, SameBlocks DEF BusyBlocks, tallyVars, TypeOK
  <2> QED
    BY <1>2, <2>1, <2>2 DEF tallyVars, InOrder, TimeCovered, BlockBefore
<1> QED
  BY <1>1, <1>2, TallyUntouched

\* As long as no block before the start block was counted, the time the report
\* divides by runs from the block before the first one with transactions to the
\* last one with transactions (report.go:273-287, worker.go:378-382).
THEOREM ReportCoversWindow == Spec => []ReportWindow
<1>1. Spec => []WindowInv
  BY InitWindow, NextWindow, TypeCorrect, NothingSkipped, PTL DEF Spec
<1>2. TypeOK /\ WindowInv => ReportWindow
  <2> SUFFICES ASSUME TypeOK, InOrder, TimeCovered
               PROVE  /\ BusyBlocks = {} => OverallBlocksTime(TPS) = 0
                      /\ \A i, k \in BusyBlocks :
                            (\A j \in BusyBlocks : i <= j /\ j <= k)
                                => OverallBlocksTime(TPS) = k - BlockBefore(i)
    BY DEF WindowInv, ReportWindow, BusyBlocks, BlockBefore
  <2>1. BusyBlocks = {} => OverallBlocksTime(TPS) = 0
    BY EmptyReport DEF TimeCovered
  <2>2. BusyBlocks \subseteq Nat
    <3>1. Len(chain) \in Nat /\ parsedBlocks \subseteq 0 .. Len(chain) - 1
      BY LenProperties DEF TypeOK
    <3>2. parsedBlocks \subseteq Nat
      BY <3>1
    <3> QED
      BY <3>2 DEF BusyBlocks
  <2>3. ASSUME NEW i \in BusyBlocks, NEW k \in BusyBlocks,
               \A j \in BusyBlocks : i <= j /\ j <= k
        PROVE  OverallBlocksTime(TPS) = k - BlockBefore(i)
    <3>1. hasStarted
      BY <2>3 DEF TimeCovered
    <3>2. PICK a, b \in BusyBlocks :
              /\ \A j \in BusyBlocks : a <= j /\ j <= b
              /\ OverallBlocksTime(TPS) = b - BlockBefore(a)
      BY <3>1 DEF TimeCovered
    <3>3. a = i /\ b = k
      BY <2>2, <2>3, <3>2
    <3> QED
      BY <3>2, <3>3
  <2> QED
    BY <2>1, <2>3
<1> QED
  BY <1>1, <1>2, TypeCorrect, PTL

-----------------------------------------------------------------------------
(* What the counted blocks hold: the blocks of the chain with those that    *)
(* are not counted read as empty.                                           *)

Counted == [k \in 1 .. Len(chain) |-> IF k - 1 \in parsedBlocks THEN chain[k] ELSE 0]

\* The blocks the network adds while the parser runs.
NewBlocks == SubSeq(chain, Len(Genesis) + 1, Len(chain))

ChainGrows ==
    /\ Len(chain) >= Len(Genesis)
    /\ \A k \in 1 .. Len(Genesis) : chain[k] = Genesis[k]

CountedInv == parsedCount = SumOf(Counted) /\ ChainGrows

\* Counted is a list of numbers as long as the chain.
LEMMA CountedIsSeq == TypeOK => Counted \in Seq(Int) /\ Len(Counted) = Len(chain)
<1> SUFFICES ASSUME TypeOK PROVE Counted \in Seq(Int) /\ Len(Counted) = Len(chain)
  OBVIOUS
<1>1. chain \in Seq(Nat) /\ Len(chain) \in Nat
  BY LenProperties DEF TypeOK
<1>2. \A k \in 1 .. Len(chain) : chain[k] \in Nat
  BY <1>1, ElementOfSeq
<1>3. Counted \in [1 .. Len(chain) -> Int]
  BY <1>2 DEF Counted
<1> QED
  BY <1>1, <1>3, FcnIsSeq

\* So it is after a step.
LEMMA CountedStaysSeq ==
  TypeOK' => Counted' \in Seq(Int) /\ Len(Counted') = Len(chain')
<1>1. (TypeOK => Counted \in Seq(Int) /\ Len(Counted) = Len(chain))'
  BY CountedIsSeq, PTL
<1> QED
  BY <1>1

\* Before the first block the sum is empty.
LEMMA InitCounted == Init => CountedInv
<1> SUFFICES ASSUME Init PROVE CountedInv
  OBVIOUS
<1>1. Counted \in Seq(Int) /\ Len(Counted) = Len(chain)
  BY InitType, CountedIsSeq
<1>2. chain = Genesis /\ parsedBlocks = {} /\ parsedCount = 0 /\ Len(Genesis) \in Nat
  BY GenesisAssumption, LenProperties DEF Init
<1>3. \A k \in 1 .. Len(Counted) : Counted[k] = 0
  BY <1>1, <1>2 DEF Counted
<1>4. SumOf(Counted) = 0
  BY <1>1, <1>3, SumOfZeros
<1> QED
  BY <1>2, <1>4 DEF CountedInv, ChainGrows

\* A fetched block adds its transactions, a new block of the chain adds nothing.
LEMMA NextCounted == TypeOK /\ CountedInv /\ [Next]_vars => CountedInv'
<1> SUFFICES ASSUME TypeOK, CountedInv, [Next]_vars PROVE CountedInv'
  OBVIOUS
<1>1. /\ chain \in Seq(Nat) /\ Len(chain) \in Nat /\ Len(Genesis) \in Nat
      /\ Counted \in Seq(Int) /\ Len(Counted) = Len(chain)
      /\ parsedBlocks \subseteq 0 .. Len(chain) - 1
  BY GenesisAssumption, LenProperties, CountedIsSeq DEF TypeOK
<1>2. ASSUME NEW k \in BlockSizes, Persist(k) PROVE CountedInv'
  <2>1. k \in Nat
    BY BlockSizesAssumption
  <2>2. /\ chain' = Append(chain, k) /\ parsedBlocks' = parsedBlocks
        /\ parsedCount' = parsedCount
    BY <1>2 DEF Persist, parserVars, tallyVars
  <2>3. /\ Len(chain') = Len(chain) + 1
        /\ \A j \in 1 .. Len(chain) : chain'[j] = chain[j]
    BY <1>1, <2>1, <2>2, AppendProperties
  <2>4. Counted' = Append(Counted, 0)
    <3> DEFINE longer == Append(Counted, 0)
    <3>1. /\ longer \in Seq(Int) /\ Len(longer) = Len(chain) + 1
          /\ longer[Len(chain) + 1] = 0
          /\ \A j \in 1 .. Len(chain) : longer[j] = Counted[j]
      BY <1>1, AppendProperties
    <3>2. TypeOK'
      BY NextType
    <3>3. Counted' \in Seq(Int) /\ Len(Counted') = Len(chain) + 1
      BY <2>3, <3>2, CountedStaysSeq
    <3>4. ASSUME NEW j \in 1 .. Len(chain) + 1 PROVE Counted'[j] = longer[j]
      <4>1. Counted'[j] = IF j - 1 \in parsedBlocks THEN chain'[j] ELSE 0
        BY <2>2, <2>3 DEF Counted
      <4>2. CASE j \in 1 .. Len(chain)
        BY <2>3, <3>1, <4>1, <4>2 DEF Counted
      <4>3. CASE j = Len(chain) + 1
        <5>1. j - 1 \notin parsedBlocks
          BY <1>1, <4>3
        <5> QED
          BY <3>1, <4>1, <4>3, <5>1
      <4> QED
        BY <1>1, <4>2, <4>3
    <3> HIDE DEF longer
    <3>5. Counted' = longer
      BY <3>1, <3>3, <3>4, SeqEqual
    <3> QED
      BY <3>5 DEF longer
  <2>5. SumOf(Counted') = SumOf(Counted) + 0 /\ SumOf(Counted) \in Int
    BY <1>1, <2>4, SumOfAppend, SumOfInt
  <2>6. ChainGrows'
    BY <1>1, <2>3 DEF CountedInv, ChainGrows
  <2> QED
    BY <2>2, <2>5, <2>6 DEF CountedInv
<1>3. ASSUME NEW i \in lastBlockIndx .. lastBlock - 1, NEW n \in Nodes, GetBlock(n, i)
      PROVE  CountedInv'
  <2>1. /\ i \in 0 .. Len(chain) - 1 /\ chain[i + 1] \in Nat /\ chain' = chain
        /\ parsedBlocks' = parsedBlocks \cup {i} /\ i \notin parsedBlocks
        /\ parsedCount' = parsedCount + chain[i + 1]
    BY <1>3, GetBlockEffect DEF AtBlock, networkVars
  <2>2. i + 1 \in 1 .. Len(Counted) /\ i + 1 \in 1 .. Len(chain) /\ (i + 1) - 1 = i
    BY <1>1, <2>1
  <2>3. Counted[i + 1] = 0
    BY <2>1, <2>2 DEF Counted
  <2>4. Counted' = [Counted EXCEPT ![i + 1] = chain[i + 1]]
    <3>1. ASSUME NEW j \in 1 .. Len(chain)
          PROVE  (j - 1 \in parsedBlocks') <=> (j - 1 \in parsedBlocks \/ j = i + 1)
      BY <2>1
    <3> QED
      BY <2>1, <3>1 DEF Counted
  <2>5. SumOf(Counted') = SumOf(Counted) - 0 + chain[i + 1] /\ SumOf(Counted) \in Int
    <3>1. chain[i + 1] \in Int /\ Counted \in Seq(Int)
      BY <1>1, <2>1
    <3> QED
      BY <2>2, <2>3, <2>4, <3>1, SumOfExcept, SumOfInt
  <2> QED
    BY <2>1, <2>5 DEF CountedInv, ChainGrows
<1>4. CASE UNCHANGED <<chain, parsedBlocks, parsedCount>>
  BY <1>4 DEF CountedInv, ChainGrows, Counted
<1>5. CASE ParserStep
  BY <1>3, <1>4, <1>5 DEF ParserStep, Tick, LeaveLoop, Check, SeeSentOut,
       NotFinishedYet, GetBlockCount, GetBlockCountFails, GetBlockFails, ParseDone,
       networkVars, tallyVars
<1>6. CASE ExpireParser \/ Environment
  BY <1>2, <1>4, <1>6 DEF ExpireParser, Environment, Sync, Acknowledge, CloseSentOut,
       Cancel, networkVars, parserVars, tallyVars
<1>7. CASE UNCHANGED vars
  BY <1>4, <1>7 DEF vars, networkVars, tallyVars
<1> QED
  BY <1>5, <1>6, <1>7 DEF Next

\* The sum and the chain are as they should be throughout.
LEMMA CountedInvariant == Spec => []CountedInv
  BY InitCounted, NextCounted, TypeCorrect, PTL DEF Spec

\* One more block adds its transactions to those of the new blocks.
LEMMA OneMoreBlock ==
  ASSUME TypeOK, ChainGrows, NEW k \in Nat
  PROVE  /\ SumOf(NewBlocks) \in Int
         /\ SumOf(SubSeq(Append(chain, k), Len(Genesis) + 1, Len(chain) + 1))
               = SumOf(NewBlocks) + k
<1> DEFINE G == Len(Genesis)
           L == Len(chain)
           longer == Append(chain, k)
           new == SubSeq(longer, G + 1, L + 1)
<1>1. /\ chain \in Seq(Nat) /\ L \in Nat /\ G \in Nat /\ G <= L
      /\ \A j \in 1 .. L : chain[j] \in Nat
  <2>1. chain \in Seq(Nat) /\ Genesis \in Seq(Nat)
    BY GenesisAssumption DEF TypeOK
  <2> QED
    BY <2>1, LenProperties, ElementOfSeq DEF ChainGrows
<1>2. /\ longer \in Seq(Nat) /\ Len(longer) = L + 1 /\ longer[L + 1] = k
      /\ \A j \in 1 .. L : longer[j] = chain[j]
  BY <1>1, AppendProperties
<1> HIDE DEF longer, L, G
<1>3. /\ NewBlocks \in Seq(Nat) /\ Len(NewBlocks) = L - G
      /\ \A j \in 1 .. L - G : NewBlocks[j] = chain[G + j]
  <2>1. (G + 1) - 1 = G /\ L - (G + 1) + 1 = L - G
    BY <1>1
  <2>2. \A j \in G + 1 .. L : chain[j] \in Nat
    BY <1>1
  <2>3. NewBlocks = SubSeq(chain, G + 1, L)
    BY DEF NewBlocks, G, L
  <2>4. /\ SubSeq(chain, G + 1, L) \in Seq(Nat)
        /\ Len(SubSeq(chain, G + 1, L)) = L - G
        /\ \A j \in 1 .. L - G : SubSeq(chain, G + 1, L)[j] = chain[G + j]
    BY <1>1, <2>1, <2>2, SubSeqProperties
  <2> QED
    BY <2>3, <2>4
<1>4. /\ new \in Seq(Nat) /\ Len(new) = L - G + 1
      /\ \A j \in 1 .. L - G + 1 : new[j] = longer[G + j]
  <2>1. (G + 1) - 1 = G /\ (L + 1) - (G + 1) + 1 = L - G + 1
    BY <1>1
  <2>2. ASSUME NEW j \in G + 1 .. L + 1 PROVE longer[j] \in Nat
    <3>1. j \in 1 .. Len(longer)
      BY <1>1, <1>2
    <3> QED
      BY <1>2, <3>1, ElementOfSeq
  <2> QED
    BY <1>1, <1>2, <2>1, <2>2, SubSeqProperties
<1> DEFINE app == Append(NewBlocks, k)
<1>5. /\ app \in Seq(Nat) /\ Len(app) = L - G + 1 /\ app[L - G + 1] = k
      /\ \A j \in 1 .. L - G : app[j] = NewBlocks[j]
  BY <1>3, AppendProperties
<1> HIDE DEF app, new
<1>6. new = app
  <2>1. ASSUME NEW j \in 1 .. Len(new) PROVE new[j] = app[j]
    <3>1. new[j] = longer[G + j] /\ j \in 1 .. L - G + 1
      BY <1>4
    <3>2. CASE j \in 1 .. L - G
      <4>1. G + j \in 1 .. L
        BY <1>1, <3>2
      <4> QED
        BY <1>2, <1>3, <1>5, <3>1, <3>2, <4>1
    <3>3. CASE j = L - G + 1
      <4>1. G + j = L + 1
        BY <1>1, <3>3
      <4> QED
        BY <1>2, <1>5, <3>1, <3>3, <4>1
    <3> QED
      BY <1>1, <3>1, <3>2, <3>3
  <2> QED
    BY <1>4, <1>5, <2>1, SeqEqual
<1>7. NewBlocks \in Seq(Int) /\ k \in Int
  <2> HIDE DEF NewBlocks
  <2> QED
    BY <1>3
<1>8. SumOf(NewBlocks) \in Int /\ SumOf(app) = SumOf(NewBlocks) + k
  BY <1>7, SumOfInt, SumOfAppend DEF app
<1> QED
  BY <1>6, <1>8 DEF new, longer, G, L

\* When the chain was empty from the start block on, what is counted as part of
\* the test is in blocks added since (worker.go:351-386).
TestedWithin ==
    CountsOnlyTestBlocks => parsedCount <= SumOf(NewBlocks)

\* If the chain was empty from the start block on, and no older block is counted,
\* the parser's counter never runs ahead of the transactions of the blocks made
\* since (worker.go:351-386).
THEOREM TestIsInNewBlocks ==
  ASSUME \A k \in Start + 1 .. Len(Genesis) : Genesis[k] = 0
  PROVE  Spec => []TestedWithin
<1>1. TypeOK /\ CountedInv => TestedWithin
  <2> SUFFICES ASSUME TypeOK, CountedInv, CountsOnlyTestBlocks
               PROVE  SumOf(Counted) <= SumOf(NewBlocks)
    BY DEF TestedWithin, CountedInv
  <2> DEFINE G == Len(Genesis)
             L == Len(chain)
             zeros == [k \in 1 .. G |-> 0]
             all == zeros \o NewBlocks
  <2>1. /\ chain \in Seq(Nat) /\ L \in Nat /\ G \in Nat /\ G <= L /\ Start \in Nat
        /\ \A k \in 1 .. L : chain[k] \in Nat
        /\ \A k \in 1 .. G : chain[k] = Genesis[k]
        /\ Counted \in Seq(Int) /\ Len(Counted) = L
    <3>1. chain \in Seq(Nat) /\ Genesis \in Seq(Nat) /\ ChainGrows
      BY GenesisAssumption DEF TypeOK, CountedInv
    <3>2. L \in Nat /\ G \in Nat /\ \A k \in 1 .. L : chain[k] \in Nat
      BY <3>1, LenProperties, ElementOfSeq
    <3> QED
      BY <3>1, <3>2, StartAssumption, CountedIsSeq DEF ChainGrows
  <2>2. zeros \in Seq(Int) /\ Len(zeros) = G /\ \A k \in 1 .. Len(zeros) : zeros[k] = 0
    <3>1. zeros \in [1 .. G -> Int]
      OBVIOUS
    <3>2. zeros \in Seq(Int) /\ Len(zeros) = G
      BY <2>1, <3>1, FcnIsSeq
    <3> QED
      BY <3>2
  <2> HIDE DEF zeros, G, L
  <2>3. /\ NewBlocks \in Seq(Int) /\ Len(NewBlocks) = L - G
        /\ \A k \in 1 .. L - G : NewBlocks[k] = chain[G + k]
    <3>1. /\ SubSeq(chain, G + 1, L) \in Seq(Nat)
          /\ Len(SubSeq(chain, G + 1, L)) = L - G
          /\ \A k \in 1 .. L - G : SubSeq(chain, G + 1, L)[k] = chain[G + k]
      <4>1. (G + 1) - 1 = G /\ L - (G + 1) + 1 = L - G
        BY <2>1
      <4>2. \A k \in G + 1 .. L : chain[k] \in Nat
        BY <2>1
      <4> QED
        BY <2>1, <4>1, <4>2, SubSeqProperties DEF L
    <3>2. NewBlocks = SubSeq(chain, G + 1, L)
      BY DEF NewBlocks, G, L
    <3>3. \A s \in Seq(Nat) : s \in Seq(Int)
      OBVIOUS
    <3> QED
      BY <3>1, <3>2, <3>3
  <2>4. /\ all \in Seq(Int) /\ Len(all) = L
        /\ \A k \in 1 .. G : all[k] = 0
        /\ \A k \in G + 1 .. L : all[k] = chain[k]
    <3>1. all \in Seq(Int) /\ Len(all) = G + (L - G)
          /\ \A k \in 1 .. G + (L - G) :
                 all[k] = IF k <= G THEN zeros[k] ELSE NewBlocks[k - G]
      <4>1. /\ all \in Seq(Int) /\ Len(all) = Len(zeros) + Len(NewBlocks)
            /\ \A k \in 1 .. Len(zeros) + Len(NewBlocks) :
                   all[k] = IF k <= Len(zeros) THEN zeros[k]
                            ELSE NewBlocks[k - Len(zeros)]
        BY <2>2, <2>3, ConcatProperties
      <4>2. Len(zeros) = G /\ Len(NewBlocks) = L - G
        BY <2>2, <2>3
      <4> HIDE DEF all
      <4> QED
        BY <4>1, <4>2
    <3> HIDE DEF all
    <3>2. G + (L - G) = L
      BY <2>1
    <3>3. \A k \in 1 .. G : all[k] = 0
      BY <2>1, <2>2, <3>1, <3>2
    <3>4. ASSUME NEW k \in G + 1 .. L PROVE all[k] = chain[k]
      <4>1. k \in 1 .. L /\ ~(k <= G) /\ k - G \in 1 .. L - G /\ G + (k - G) = k
        BY <2>1
      <4> QED
        BY <2>3, <3>1, <3>2, <4>1
    <3> QED
      BY <3>1, <3>2, <3>3, <3>4
  <2>5. SumOf(all) = 0 + SumOf(NewBlocks) /\ SumOf(NewBlocks) \in Int
    BY <2>2, <2>3, SumOfConcat, SumOfZeros, SumOfInt
  <2> HIDE DEF all
  <2>6. ASSUME NEW k \in 1 .. L PROVE Counted[k] <= all[k]
    <3>1. Counted[k] = IF k - 1 \in parsedBlocks THEN chain[k] ELSE 0
      BY DEF Counted, L
    <3>2. CASE k > G
      BY <2>1, <2>4, <3>1, <3>2
    <3>3. CASE k <= G
      <4>1. CASE k >= Start + 1
        <5>1. k \in Start + 1 .. G /\ k \in 1 .. G
          BY <2>1, <3>3, <4>1
        <5>2. chain[k] = 0
          BY <2>1, <5>1 DEF G
        <5> QED
          BY <2>4, <3>1, <5>1, <5>2
      <4>2. CASE k <= Start
        <5>1. k - 1 \notin parsedBlocks
          BY <2>1, <4>2 DEF CountsOnlyTestBlocks
        <5> QED
          BY <2>1, <2>4, <3>1, <3>3, <5>1
      <4> QED
        BY <2>1, <4>1, <4>2
    <3> QED
      BY <2>1, <3>2, <3>3
  <2>7. SumOf(Counted) <= SumOf(all)
    BY <2>1, <2>4, <2>6, SumOfMonotone
  <2> QED
    BY <2>5, <2>7
<1> QED
  BY <1>1, CountedInvariant, TypeCorrect, PTL

-----------------------------------------------------------------------------
(* How the parser ends.  Once the sender has ended, its total stands still, *)
(* and Parser gets past its two looks at it only on a signal, a timeout or  *)
(* a count that has reached the total.                                      *)

EndingInv == (parsed => ppc = "done") /\ (ppc = "done" => final)

Settled ==
    /\ sentOut
    /\ final \/ ppc = "sentq" => done \/ parserExpired \/ parsedCount >= countTxs

\* Only the last parse closes parsed, and a closed channel stays closed.
LEMMA NextEnding ==
  /\ Init => EndingInv
  /\ EndingInv /\ [Next]_vars =>
         EndingInv' /\ (parsed => parsed') /\ (sentOut => sentOut')
<1>1. Init => EndingInv
  BY DEF Init, EndingInv
<1>2. ASSUME EndingInv, [Next]_vars
      PROVE  EndingInv' /\ (parsed => parsed') /\ (sentOut => sentOut')
  <2>1. CASE Environment \/ ExpireParser \/ UNCHANGED vars
    BY <1>2, <2>1 DEF Environment, Persist, Sync, Acknowledge, CloseSentOut, Cancel,
                      ExpireParser, vars, sharedVars, parserVars, controlVars, EndingInv
  <2>2. CASE Tick \/ LeaveLoop \/ Check \/ SeeSentOut \/ NotFinishedYet
    BY <1>2, <2>2 DEF Tick, LeaveLoop, Check, SeeSentOut, NotFinishedYet, sharedVars,
                      EndingInv
  <2>3. ASSUME NEW n \in Nodes, GetBlockCount(n)
        PROVE  EndingInv' /\ (parsed => parsed') /\ (sentOut => sentOut')
    BY <1>2, <2>3 DEF GetBlockCount, sharedVars, EndingInv
  <2>4. ASSUME NEW i \in lastBlockIndx .. lastBlock - 1,
               GetBlockFails(i) \/ \E n \in Nodes : GetBlock(n, i)
        PROVE  EndingInv' /\ (parsed => parsed') /\ (sentOut => sentOut')
    BY <1>2, <2>4 DEF GetBlockFails, GetBlock, Return, sharedVars, controlVars, EndingInv
  <2>5. CASE GetBlockCountFails \/ ParseDone
    BY <1>2, <2>5 DEF GetBlockCountFails, ParseDone, Return, sharedVars, EndingInv
  <2> QED
    BY <1>2, <2>1, <2>2, <2>3, <2>4, <2>5 DEF Next, ParserStep
<1> QED
  BY <1>1, <1>2

\* It holds throughout (worker.go:291-336).
LEMMA EndingInvariant == Spec => []EndingInv
  BY NextEnding, PTL DEF Spec

\* Of a block, no less is counted afterwards than before.
LEMMA CountGrows ==
  ASSUME TypeOK, NEW i \in lastBlockIndx .. lastBlock - 1, NEW n \in Nodes, GetBlock(n, i)
  PROVE  parsedCount' >= parsedCount
<1>1. parsedCount' = parsedCount + chain[i + 1] /\ parsedCount \in Nat
  BY DEF GetBlock, TypeOK
<1>2. i \in 0 .. Len(chain) - 1 /\ chain \in Seq(Nat)
  BY LenProperties DEF TypeOK
<1>3. chain[i + 1] \in Nat
  BY <1>2, LenProperties, ElementOfSeq
<1> QED
  BY <1>1, <1>3

\* No step takes the parser past an unfinished count once the sender has ended.
LEMMA NextSettled == TypeOK /\ Settled /\ [Next]_vars => Settled'
<1> SUFFICES ASSUME TypeOK, Settled, [Next]_vars PROVE Settled'
  OBVIOUS
<1>1. CASE Environment \/ UNCHANGED vars
  <2>1. /\ UNCHANGED <<countTxs, sentOut, ppc, final, parserExpired, parsedCount>>
        /\ done' = done \/ done'
    BY <1>1 DEF Environment, Persist, Sync, Acknowledge, CloseSentOut, Cancel, vars,
                sharedVars, parserVars, tallyVars, controlVars, Settled
  <2> QED
    BY <2>1 DEF Settled
<1>2. CASE ExpireParser
  BY <1>2 DEF ExpireParser, sharedVars, tallyVars, Settled
<1>3. CASE Tick \/ LeaveLoop \/ Check \/ SeeSentOut \/ NotFinishedYet
  <2> USE DEF sharedVars, tallyVars, Settled
  <2>1. CASE Tick \/ NotFinishedYet
    BY <1>3, <2>1 DEF Tick, NotFinishedYet
  <2>2. CASE LeaveLoop
    BY <2>2 DEF LeaveLoop
  <2>3. CASE Check
    <3>1. UNCHANGED <<countTxs, sentOut, done, final, parserExpired, parsedCount>>
          /\ ppc' = (IF parsedCount >= countTxs THEN "sentq" ELSE "select")
      BY <2>3 DEF Check
    <3> QED
      BY <3>1
  <2>4. CASE SeeSentOut
    BY <2>4 DEF SeeSentOut
  <2> QED
    BY <1>3, <2>1, <2>2, <2>3, <2>4
<1>4. ASSUME NEW n \in Nodes, GetBlockCount(n) PROVE Settled'
  BY <1>4 DEF GetBlockCount, sharedVars, tallyVars, Settled
<1>5. CASE GetBlockCountFails
  BY <1>5 DEF GetBlockCountFails, Settled
<1>6. ASSUME NEW i \in lastBlockIndx .. lastBlock - 1, NEW n \in Nodes, GetBlock(n, i)
      PROVE  Settled'
  <2>1. UNCHANGED <<countTxs, sentOut, done, ppc, final, parserExpired>> /\ ppc = "fetch"
    BY <1>6 DEF GetBlock, sharedVars, controlVars
  <2>2. parsedCount' >= parsedCount
    BY <1>6, CountGrows
  <2>3. countTxs \in Nat /\ parsedCount \in Nat /\ parsedCount' \in Nat
    BY NextType DEF TypeOK
  <2> QED
    BY <2>1, <2>2, <2>3 DEF Settled
<1>7. ASSUME NEW i \in lastBlockIndx .. lastBlock - 1, GetBlockFails(i) PROVE Settled'
  BY <1>7 DEF GetBlockFails, Return, sharedVars, tallyVars, Settled
<1>8. CASE ParseDone
  BY <1>8 DEF ParseDone, Return, sharedVars, tallyVars, Settled
<1> QED
  BY <1>1, <1>2, <1>3, <1>4, <1>5, <1>6, <1>7, <1>8 DEF Next, ParserStep

\* Once settled, always settled (worker.go:316-325).
LEMMA SettledStays == Spec => [](Settled => []Settled)
  BY NextSettled, TypeCorrect, PTL DEF Spec
=============================================================================
