----------------------------- MODULE BenchProofs -----------------------------
(***************************************************************************)
(* Proofs about Bench, for any number of workers and nodes, any dump and   *)
(* any chain.  Every step of the whole process is a step of its sending    *)
(* half and a step of its parsing half, so what is proved of each half     *)
(* alone (SendingProofs, ParsingProofs) holds of it inside the process.    *)
(***************************************************************************)
EXTENDS Bench, FiniteSetTheorems, SequenceTheorems, TLAPS

SP == INSTANCE SendingProofs
PP == INSTANCE ParsingProofs WITH MaxTxs <- DumpSize

\* The constants of the process are as each half assumes.
LEMMA SendingConstants ==
  SP!WorkersAssumption /\ SP!DumpSizeAssumption /\ SP!QueueCapAssumption
  BY SendingAssumption
  DEF SP!WorkersAssumption, SP!DumpSizeAssumption, SP!QueueCapAssumption,
      SP!IsFiniteSet, IsFiniteSet

\* The constants of the process are as each half assumes.
LEMMA ParsingConstants ==
  /\ PP!GenesisAssumption /\ PP!StartAssumption /\ PP!BlockSizesAssumption
  /\ PP!BoundsAssumption /\ PP!TimeModAssumption
  BY SendingAssumption, ParsingAssumption
  DEF PP!GenesisAssumption, PP!StartAssumption, PP!BlockSizesAssumption,
      PP!BoundsAssumption, PP!TimeModAssumption

-----------------------------------------------------------------------------
(* The sending half. *)

\* The process starts as its sending half does.
LEMMA InitSending == Init => SP!Init
  BY DEF Init, S!Init, SP!Init, S!Txs, SP!Txs, S!NewReporter, SP!NewReporter

\* What a worker does in the process is what it does in Sending.
LEMMA WorkerActions ==
  ASSUME NEW w \in Workers
  PROVE  /\ Worker(w) => SP!WorkerStep(w)
         /\ Expire(w) => SP!Expire(w)
         /\ Spawn(w) => SP!Spawn(w)
<1> USE DEF S!Goto, SP!Goto, S!senderVars, SP!senderVars, SP!WorkerStep
<1>1. Leave(w) => SP!WorkerStep(w)
  BY DEF Leave, S!Stop, SP!Stop, S!Drained, SP!Drained
<1>2. Reply(w) => SP!WorkerStep(w)
  BY DEF Reply, S!Accepted, S!OutOfMemory, S!Refused, S!LostReply,
         SP!Reply, SP!Accepted, SP!OutOfMemory, SP!Refused, SP!LostReply
<1>3. Work(w) => SP!WorkerStep(w)
  <2>1. S!Proceed(w) \/ S!SeeTx(w) \/ S!Get(w) => SP!WorkerStep(w)
    BY DEF S!Proceed, S!SeeTx, S!Get, SP!Proceed, SP!SeeTx, SP!Get
  <2>2. S!Count(w) \/ S!CountErr(w) \/ S!Reenqueue(w) => SP!WorkerStep(w)
    BY DEF S!Count, S!CountErr, S!Reenqueue, SP!Count, SP!CountErr, SP!Reenqueue
  <2>3. S!ReportRPS(w) => SP!WorkerStep(w)
    BY DEF S!ReportRPS, SP!ReportRPS, S!UpdateRPS, SP!UpdateRPS
  <2> QED
    BY <2>1, <2>2, <2>3 DEF Work
<1>4. Expire(w) => SP!Expire(w)
  BY DEF Expire, S!Expire, SP!Expire
<1>5. Spawn(w) => SP!Spawn(w)
  BY DEF Spawn, S!Spawn, SP!Spawn
<1> QED
  BY <1>1, <1>2, <1>3, <1>4, <1>5 DEF Worker

\* The Sender's totals, and the cancellation of the context by a signal or by
\* the parser (grace.go, worker.go:352-355).
LEMMA OtherActions ==
  /\ SenderFinish => SP!SenderFinish
  /\ Interrupt => SP!Cancel
  /\ Parse => SP!Cancel \/ UNCHANGED SP!vars
<1>1. SenderFinish => SP!SenderFinish
  BY DEF SenderFinish, S!SenderFinish, SP!SenderFinish, S!workerVars, SP!workerVars,
         S!FinalReport, SP!FinalReport, S!UpdateRPS, SP!UpdateRPS, S!UpdateErr,
         SP!UpdateErr, S!UpdateCnt, SP!UpdateCnt
<1>2. Interrupt => SP!Cancel
  BY DEF Interrupt, S!Cancel, SP!Cancel, S!workerVars, SP!workerVars
<1>3. Parse /\ P!GetBlockCountFails => SP!Cancel \/ UNCHANGED SP!vars
  <2>1. Parse /\ P!GetBlockCountFails =>
           /\ UNCHANGED <<sendingVars, countTxs, sentOut>> /\ done'
    BY DEF Parse, P!GetBlockCountFails
  <2> QED
    BY <2>1 DEF sendingVars, SP!Cancel, SP!vars, SP!workerVars
<1>4. Parse /\ ~P!GetBlockCountFails => UNCHANGED SP!vars
  <2>1. Parse /\ ~P!GetBlockCountFails => UNCHANGED <<sendingVars, sharedVars>>
    BY DEF Parse, P!ParserStep, P!Tick, P!LeaveLoop, P!Check, P!SeeSentOut,
           P!NotFinishedYet, P!GetBlockCount, P!GetBlock, P!GetBlockFails,
           P!ParseDone, P!sharedVars, sharedVars
  <2> QED
    BY <2>1 DEF sendingVars, sharedVars, SP!vars
<1> QED
  BY <1>1, <1>2, <1>3, <1>4

\* Every step of the process is a step of its sending half, or leaves it alone.
LEMMA NextSending == [Next]_vars => [SP!Next]_SP!vars
<1> SUFFICES ASSUME [Next]_vars PROVE SP!Next \/ UNCHANGED SP!vars
  OBVIOUS
<1>1. CASE \E w \in Workers : Worker(w) \/ Expire(w) \/ Spawn(w)
  BY <1>1, WorkerActions DEF SP!Next
<1>2. CASE SenderFinish \/ Interrupt \/ Parse
  BY <1>2, OtherActions DEF SP!Next
<1>3. CASE ExpireParser \/ Persist \/ Sync
  BY <1>3 DEF ExpireParser, Persist, Sync, P!ExpireParser, P!Persist, P!Sync,
              P!sharedVars, sendingVars, SP!vars
<1>4. CASE Main
  BY <1>4 DEF Main, WaitAtOnce, WaitBlocks, WaitReturns, WaitPanics, SentOutSeen,
              ParsedSeen, MainGoto, sendingVars, sharedVars, SP!vars
<1>5. CASE UNCHANGED vars
  BY <1>5 DEF vars, sendingVars, sharedVars, SP!vars
<1> QED
  BY <1>1, <1>2, <1>3, <1>4, <1>5 DEF Next

\* The sending half of the process behaves as Sending says, whatever the parser,
\* main and the nodes do (main.go:176-179).
THEOREM SendingHalf == Spec => SP!Spec
  BY InitSending, NextSending, PTL DEF Spec, SP!Spec

\* What is proved of the sending half alone, inside the process.
HalfSent == SP!TypeInv /\ SP!Conservation /\ SP!EndInv /\ SP!CountersBracketTaken

\* It holds throughout the benchmark (worker.go:238-287).
LEMMA SendingFacts == Spec => []HalfSent
<1>1. SP!WorkersAssumption /\ SP!DumpSizeAssumption /\ SP!QueueCapAssumption
  BY SendingConstants
<1>2. SP!Spec => []SP!TypeInv
  BY <1>1, SP!TypeInvariant
<1>3. SP!Spec => []SP!Conservation
  BY <1>1, SP!Conserved
<1>4. SP!Spec => []SP!EndInv
  BY <1>1, SP!EndInvariant
<1>5. SP!Spec => []SP!CountersBracketTaken
  BY <1>1, SP!CountersBracket
<1> QED
  BY <1>2, <1>3, <1>4, <1>5, SendingHalf, PTL DEF HalfSent

-----------------------------------------------------------------------------
(* The parsing half.  Its environment may acknowledge a transaction as long *)
(* as the dump has one and may close sentOut once: Conservation and the     *)
(* Sender's pc say that the sending half does no more.                      *)

\* The process starts as its parsing half does.
LEMMA InitParsing == Init => PP!Init
  BY DEF Init, P!Init, PP!Init

\* A worker that counts an acknowledged transaction still holds it.
LEMMA CountIsAcknowledge ==
  ASSUME HalfSent, NEW w \in Workers, Work(w), S!Count(w)
  PROVE  PP!Acknowledge
<1>1. wpc[w] = "acked" /\ countTxs' = countTxs + 1
      /\ UNCHANGED <<parsingVars, sentOut, done>>
  BY DEF Work, S!Count, S!Goto, S!senderVars
<1>2. ~sentOut
  BY <1>1 DEF HalfSent, SP!EndInv, SP!SenderIsLast
<1>3. w \in SP!Holders
  BY <1>1 DEF SP!Holders, SP!Holding
<1>4. SP!WorkersAssumption /\ SP!DumpSizeAssumption /\ SP!QueueCapAssumption
  BY SendingConstants
<1>5. SP!IsFiniteSet(SP!Holders) /\ SP!Cardinality(SP!Holders) \in Nat
  BY <1>4, SP!HoldersFinite
<1>6. SP!Cardinality(SP!Holders) # 0
  <2>1. \A H : SP!IsFiniteSet(H) => (SP!Cardinality(H) = 0 <=> H = {})
    BY <1>4, SP!FS_EmptySet DEF SP!WorkersAssumption, SP!DumpSizeAssumption,
                               SP!QueueCapAssumption
  <2> QED
    BY <1>3, <1>5, <2>1
<1>7. countTxs < DumpSize
  <2>1. /\ Len(queue) \in Nat /\ countTxs \in Nat /\ countErr \in Nat
        /\ DumpSize \in Nat
        /\ Len(queue) + SP!Cardinality(SP!Holders) + countTxs + countErr = DumpSize
    BY SendingAssumption, LenProperties
    DEF HalfSent, SP!TypeInv, SP!TypeOK, SP!Conservation
  <2> QED
    BY <1>5, <1>6, <2>1
<1> QED
  BY <1>1, <1>2, <1>7 DEF parsingVars, PP!Acknowledge, PP!networkVars, PP!parserVars,
                          PP!tallyVars, PP!controlVars

\* No other step of a worker is seen by the parser.
LEMMA WorkersToParser ==
  ASSUME HalfSent, NEW w \in Workers, Worker(w) \/ Expire(w) \/ Spawn(w)
  PROVE  PP!Acknowledge \/ UNCHANGED PP!vars
<1> USE DEF S!senderVars, parsingVars, PP!vars, PP!networkVars, PP!sharedVars,
            PP!tallyVars, PP!controlVars
<1>1. CASE Leave(w)
  BY <1>1 DEF Leave, S!Stop, S!Drained
<1>2. CASE Reply(w)
  BY <1>2 DEF Reply, S!Accepted, S!OutOfMemory, S!Refused, S!LostReply
<1>3. CASE Work(w)
  <2>1. CASE S!Count(w)
    BY <1>3, <2>1, CountIsAcknowledge
  <2>2. CASE ~S!Count(w)
    BY <1>3, <2>2 DEF Work, S!Proceed, S!SeeTx, S!Get, S!ReportRPS, S!Reenqueue,
                      S!CountErr
  <2> QED
    BY <2>1, <2>2
<1>4. CASE Expire(w) \/ Spawn(w)
  BY <1>4 DEF Expire, Spawn, S!Expire, S!Spawn
<1> QED
  BY <1>1, <1>2, <1>3, <1>4 DEF Worker

\* The parser's own steps and the network's are those of Parsing.
LEMMA ParserActions ==
  /\ Parse => PP!ParserStep
  /\ ExpireParser => PP!ExpireParser
  /\ Persist \/ Sync => PP!Environment
<1> USE DEF P!networkVars, PP!networkVars, P!sharedVars, PP!sharedVars,
            P!tallyVars, PP!tallyVars, P!controlVars, PP!controlVars
<1>1. Parse => PP!ParserStep
  <2>1. P!Tick \/ P!LeaveLoop \/ P!Check \/ P!SeeSentOut \/ P!NotFinishedYet
          => PP!ParserStep
    BY DEF P!Tick, P!LeaveLoop, P!Check, P!SeeSentOut, P!NotFinishedYet,
           PP!Tick, PP!LeaveLoop, PP!Check, PP!SeeSentOut, PP!NotFinishedYet,
           PP!ParserStep
  <2>2. (\E n \in Nodes : P!GetBlockCount(n)) \/ P!GetBlockCountFails
          => PP!ParserStep
    BY DEF P!GetBlockCount, P!GetBlockCountFails, P!Return,
           PP!GetBlockCount, PP!GetBlockCountFails, PP!Return, PP!ParserStep
  <2>3. ASSUME NEW i \in lastBlockIndx .. lastBlock - 1, NEW n \in Nodes
        PROVE  P!GetBlock(n, i) => PP!GetBlock(n, i)
    BY DEF P!GetBlock, P!AtBlock, P!DeltaTime, P!tpsInfo, P!TPSAfter, P!TPSPoolAfter,
           PP!GetBlock, PP!AtBlock, PP!DeltaTime, PP!tpsInfo, PP!TPSAfter,
           PP!TPSPoolAfter
  <2>4. ASSUME NEW i \in lastBlockIndx .. lastBlock - 1
        PROVE  P!GetBlockFails(i) => PP!GetBlockFails(i)
    BY DEF P!GetBlockFails, P!AtBlock, P!Return,
           PP!GetBlockFails, PP!AtBlock, PP!Return
  <2>5. P!ParseDone => PP!ParseDone
    BY DEF P!ParseDone, P!Return, PP!ParseDone, PP!Return
  <2> QED
    BY <2>1, <2>2, <2>3, <2>4, <2>5 DEF Parse, P!ParserStep, PP!ParserStep
<1>2. ExpireParser => PP!ExpireParser
  BY DEF ExpireParser, P!ExpireParser, PP!ExpireParser
<1>3. Persist \/ Sync => PP!Environment
  BY DEF Persist, Sync, P!Persist, P!Sync, P!parserVars, PP!Persist, PP!Sync,
         PP!parserVars, PP!Environment
<1> QED
  BY <1>1, <1>2, <1>3

\* Every step of the process is a step of its parsing half, or leaves it alone.
LEMMA NextParsing == HalfSent /\ [Next]_vars => [PP!Next]_PP!vars
<1> SUFFICES ASSUME HalfSent, [Next]_vars PROVE PP!Next \/ UNCHANGED PP!vars
  OBVIOUS
<1> USE DEF PP!vars, PP!networkVars, PP!sharedVars, PP!tallyVars, PP!controlVars
<1>1. CASE \E w \in Workers : Worker(w) \/ Expire(w) \/ Spawn(w)
  BY <1>1, WorkersToParser DEF PP!Next, PP!Environment
<1>2. CASE SenderFinish
  <2>1. /\ spc = "wait" /\ sentOut' = TRUE /\ done' = done /\ countTxs' = countTxs
        /\ UNCHANGED parsingVars
    BY <1>2 DEF SenderFinish, S!SenderFinish, S!workerVars
  <2>2. ~sentOut
    BY <2>1 DEF HalfSent, SP!EndInv, SP!SenderIsLast
  <2>3. PP!CloseSentOut
    BY <2>1, <2>2 DEF PP!CloseSentOut, parsingVars, PP!parserVars
  <2> QED
    BY <2>3 DEF PP!Next, PP!Environment
<1>3. CASE Interrupt
  <2>1. PP!Cancel
    BY <1>3 DEF Interrupt, S!Cancel, S!workerVars, PP!Cancel, parsingVars, PP!parserVars
  <2> QED
    BY <2>1 DEF PP!Next, PP!Environment
<1>4. CASE Parse \/ ExpireParser \/ Persist \/ Sync
  BY <1>4, ParserActions DEF PP!Next
<1>5. CASE Main
  BY <1>5 DEF Main, WaitAtOnce, WaitBlocks, WaitReturns, WaitPanics, SentOutSeen,
              ParsedSeen, MainGoto, parsingVars, sharedVars
<1>6. CASE UNCHANGED vars
  BY <1>6 DEF vars, parsingVars, sharedVars
<1> QED
  BY <1>1, <1>2, <1>3, <1>4, <1>5, <1>6 DEF Next

\* The parsing half of the process behaves as Parsing says: no step of a worker,
\* of the Sender or of main is more than Parsing lets its environment do.
THEOREM ParsingHalf == Spec => PP!Spec
  BY InitParsing, NextParsing, SendingFacts, PTL DEF Spec, PP!Spec

\* What is proved of the parsing half alone, inside the process.
HalfParsed == PP!TypeOK /\ PP!ReportMatchesTally /\ PP!CountedInv /\ PP!EndingInv

\* It holds throughout the benchmark (worker.go:291-395).
LEMMA ParsingFacts == Spec => []HalfParsed
<1>1. /\ PP!GenesisAssumption /\ PP!StartAssumption /\ PP!BlockSizesAssumption
      /\ PP!BoundsAssumption /\ PP!TimeModAssumption
  BY ParsingConstants
<1>2. PP!Spec => []PP!TypeOK
  BY <1>1, PP!TypeCorrect
<1>3. PP!Spec => []PP!ReportMatchesTally
  BY <1>1, PP!ReportTallies
<1>4. PP!Spec => []PP!CountedInv
  BY <1>1, PP!CountedInvariant
<1>5. PP!Spec => []PP!EndingInv
  BY <1>1, PP!EndingInvariant
<1> QED
  BY <1>2, <1>3, <1>4, <1>5, ParsingHalf, PTL DEF HalfParsed

\* The report's sums are the same seen from either half.
LEMMA SameSums ==
  /\ \A s : P!SumOf(s) = PP!SumOf(s)
  /\ P!ReportedTxs(TPS) = PP!ReportedTxs(TPS)
<1>1. ASSUME NEW s PROVE P!SumOf(s) = PP!SumOf(s)
  BY DEF P!SumOf, PP!SumOf, P!PartialSums, PP!PartialSums
<1> QED
  BY <1>1 DEF P!ReportedTxs, PP!ReportedTxs

-----------------------------------------------------------------------------
(* main.  It is past <-d.sentOut only when sentOut is closed, and has       *)
(* returned only when parsed is closed, too.                                *)

MainInv ==
    /\ mpc \in {"wait", "blocked", "released", "sent", "parsed", "exit", "panic"}
    /\ mpc \in {"parsed", "exit"} => sentOut
    /\ mpc = "exit" => parsed

\* The invariant holds when main is about to wait, and every step keeps it.
LEMMA NextMain ==
  /\ Init => MainInv
  /\ HalfSent /\ HalfParsed /\ MainInv /\ [Next]_vars => MainInv'
<1>1. Init => MainInv
  BY DEF Init, MainInv
<1>2. ASSUME HalfSent, HalfParsed, MainInv, [Next]_vars PROVE MainInv'
  <2>1. (sentOut => sentOut') /\ (parsed => parsed')
    <3>1. /\ PP!GenesisAssumption /\ PP!StartAssumption /\ PP!BlockSizesAssumption
          /\ PP!BoundsAssumption /\ PP!TimeModAssumption
      BY ParsingConstants
    <3> QED
      BY <1>2, <3>1, NextParsing, PP!NextEnding DEF HalfParsed
  <2>2. CASE Main
    BY <1>2, <2>1, <2>2 DEF Main, WaitAtOnce, WaitBlocks, WaitReturns, WaitPanics,
                            SentOutSeen, ParsedSeen, MainGoto, MainInv
  <2>3. CASE ~Main
    <3>1. mpc' = mpc \/ (mpc = "blocked" /\ mpc' = "released")
      <4>1. CASE \E w \in Workers : Worker(w) \/ Expire(w) \/ Spawn(w)
        BY <4>1 DEF Worker, Reply, Leave, GroupDone, Work, Expire, Spawn
      <4>2. CASE SenderFinish \/ Parse \/ ExpireParser \/ Interrupt \/ Persist \/ Sync
        BY <4>2 DEF SenderFinish, Parse, ExpireParser, Interrupt, Persist, Sync
      <4>3. CASE UNCHANGED vars
        BY <4>3 DEF vars
      <4> QED
        BY <1>2, <2>3, <4>1, <4>2, <4>3 DEF Next
    <3> QED
      BY <1>2, <2>1, <3>1 DEF MainInv
  <2> QED
    BY <2>2, <2>3
<1> QED
  BY <1>1, <1>2

\* main's part of the invariant holds throughout the benchmark.
LEMMA MainFacts == Spec => []MainInv
  BY NextMain, SendingFacts, ParsingFacts, PTL DEF Spec

\* The variables of both halves and of main keep their types.
THEOREM TypeCorrect == Spec => []TypeOK
<1>1. SP!TypeOK => S!TypeOK
  BY DEF SP!TypeOK, S!TypeOK, SP!Txs, S!Txs, SP!WorkerPC, S!WorkerPC
<1>2. PP!TypeOK => P!TypeOK
  BY DEF PP!TypeOK, P!TypeOK
<1>3. HalfSent /\ HalfParsed /\ MainInv => TypeOK
  BY <1>1, <1>2 DEF HalfSent, SP!TypeInv, HalfParsed, MainInv, TypeOK
<1> QED
  BY <1>3, SendingFacts, ParsingFacts, MainFacts, PTL

\* The report main writes when it returns holds the final totals and accounts
\* for every transaction of the dump (worker.go:274-287, 402-408).
THEOREM WrittenReport == Spec => []WrittenReportIsFinal
<1>1. HalfSent /\ HalfParsed /\ MainInv => WrittenReportIsFinal
  <2> SUFFICES ASSUME HalfSent, HalfParsed, MainInv, mpc = "exit"
               PROVE  /\ rep.TxCount = countTxs /\ rep.ErrCount = countErr
                      /\ rep.TxCount + rep.ErrCount + Len(queue) = DumpSize
                      /\ parsedCount = P!ReportedTxs(TPS)
    BY DEF WrittenReportIsFinal
  <2>1. sentOut
    BY DEF MainInv
  <2>2. rep.TxCount = countTxs /\ rep.ErrCount = countErr
    BY <2>1 DEF HalfSent, SP!EndInv, SP!ReportSettled
  <2>3. SP!Holders = {}
    BY <2>1 DEF HalfSent, SP!EndInv, SP!SenderIsLast, SP!Holders, SP!Holding
  <2>4. SP!Cardinality(SP!Holders) = 0
    <3>1. SP!WorkersAssumption /\ SP!DumpSizeAssumption /\ SP!QueueCapAssumption
      BY SendingConstants
    <3>2. SP!Cardinality({}) = 0
      BY <3>1, SP!FS_EmptySet DEF SP!WorkersAssumption, SP!DumpSizeAssumption,
                                  SP!QueueCapAssumption
    <3> QED
      BY <2>3, <3>2
  <2>5. rep.TxCount + rep.ErrCount + Len(queue) = DumpSize
    <3>1. /\ Len(queue) \in Nat /\ countTxs \in Nat /\ countErr \in Nat
          /\ Len(queue) + SP!Cardinality(SP!Holders) + countTxs + countErr = DumpSize
      BY LenProperties DEF HalfSent, SP!TypeInv, SP!TypeOK, SP!Conservation
    <3> QED
      BY <2>2, <2>4, <3>1
  <2>6. parsedCount = P!ReportedTxs(TPS)
    BY SameSums DEF HalfParsed, PP!ReportMatchesTally
  <2> QED
    BY <2>2, <2>5, <2>6
<1> QED
  BY <1>1, SendingFacts, ParsingFacts, MainFacts, PTL

\* When the sender ends at any moment but between the parser's two looks, a report
\* written without an interrupt or a timeout has all it sent (worker.go:316-325).
THEOREM SettledReport == Spec => SettledReportComplete
<1>1. sentOut /\ ~final /\ ppc # "sentq" => PP!Settled
  BY DEF PP!Settled
<1>2. PP!Spec => [](PP!Settled => []PP!Settled)
  <2>1. /\ PP!GenesisAssumption /\ PP!StartAssumption /\ PP!BlockSizesAssumption
        /\ PP!BoundsAssumption /\ PP!TimeModAssumption
    BY ParsingConstants
  <2> QED
    BY <2>1, PP!SettledStays
<1>3. HalfSent /\ HalfParsed /\ MainInv /\ PP!Settled => ReportComplete
  <2> SUFFICES ASSUME HalfSent, HalfParsed, MainInv, PP!Settled,
                      mpc = "exit", ~done, ~parserExpired
               PROVE  P!ReportedTxs(TPS) >= rep.TxCount
    BY DEF ReportComplete
  <2>1. sentOut /\ final
    BY DEF MainInv, HalfParsed, PP!EndingInv
  <2>2. parsedCount >= countTxs
    BY <2>1 DEF PP!Settled
  <2>3. rep.TxCount = countTxs
    BY <2>1 DEF HalfSent, SP!EndInv, SP!ReportSettled
  <2>4. P!ReportedTxs(TPS) = parsedCount
    BY SameSums DEF HalfParsed, PP!ReportMatchesTally
  <2> QED
    BY <2>2, <2>3, <2>4
<1> QED
  BY <1>1, <1>2, <1>3, ParsingHalf, SendingFacts, ParsingFacts, MainFacts, PTL
  DEF SettledReportComplete

-----------------------------------------------------------------------------
(* The nodes.  A block is made of transactions of the memory pool, so what   *)
(* the new blocks hold has been accepted; a node forgets nothing it has      *)
(* accepted.                                                                 *)

PoolInv == Included <= Cardinality(taken)

\* What the nodes have accepted is a finite set.
LEMMA TakenFinite ==
  ASSUME SP!TypeOK
  PROVE  IsFiniteSet(taken) /\ Cardinality(taken) \in Nat
<1>1. IsFiniteSet(1 .. DumpSize)
  BY SendingAssumption, FS_Interval
<1>2. taken \in SUBSET (1 .. DumpSize)
  BY DEF SP!TypeOK, SP!Txs
<1>3. IsFiniteSet(taken)
  BY <1>1, <1>2, FS_Subset
<1> QED
  BY <1>3, FS_CardinalityType

\* No step makes it smaller.
LEMMA TakenGrows ==
  ASSUME HalfSent, [Next]_vars
  PROVE  Cardinality(taken) <= Cardinality(taken') /\ Cardinality(taken') \in Int
<1>1. IsFiniteSet(taken) /\ Cardinality(taken) \in Nat
  BY TakenFinite DEF HalfSent, SP!TypeInv
<1>2. taken' = taken \/ \E tx : taken' = taken \cup {tx}
  <2> USE DEF SP!senderVars, SP!workerVars
  <2>1. ASSUME NEW w \in Workers, SP!WorkerStep(w)
        PROVE  taken' = taken \/ \E tx : taken' = taken \cup {tx}
    BY <2>1 DEF SP!WorkerStep, SP!Reply, SP!Stop, SP!Proceed, SP!Drained, SP!SeeTx,
                SP!Get, SP!Accepted, SP!OutOfMemory, SP!Refused, SP!LostReply,
                SP!Count, SP!ReportRPS, SP!Reenqueue, SP!CountErr
  <2>2. ASSUME NEW w \in Workers, SP!Spawn(w) \/ SP!Expire(w) PROVE taken' = taken
    BY <2>2 DEF SP!Spawn, SP!Expire
  <2>3. CASE SP!SenderFinish \/ SP!Cancel \/ UNCHANGED SP!vars
    BY <2>3 DEF SP!SenderFinish, SP!Cancel, SP!vars
  <2> QED
    BY <2>1, <2>2, <2>3, NextSending DEF SP!Next
<1>3. CASE taken' = taken
  BY <1>1, <1>3
<1>4. ASSUME NEW tx, taken' = taken \cup {tx}
      PROVE  Cardinality(taken) <= Cardinality(taken') /\ Cardinality(taken') \in Int
  <2>1. Cardinality(taken \cup {tx}) =
          IF tx \in taken THEN Cardinality(taken) ELSE Cardinality(taken) + 1
    BY <1>1, FS_AddElement
  <2> QED
    BY <1>1, <1>4, <2>1
<1> QED
  BY <1>2, <1>3, <1>4

\* The new blocks of the process are those of its parsing half.
LEMMA IncludedIsNew == Included = PP!SumOf(PP!NewBlocks)
  BY SameSums DEF Included, PP!NewBlocks

\* The invariant holds at the start, and every step keeps it.
LEMMA NextPool ==
  /\ Init /\ HalfSent => PoolInv
  /\ HalfSent /\ HalfParsed /\ PoolInv /\ [Next]_vars => PoolInv'
<1>0. /\ PP!GenesisAssumption /\ PP!StartAssumption /\ PP!BlockSizesAssumption
      /\ PP!BoundsAssumption /\ PP!TimeModAssumption
  BY ParsingConstants
<1>1. ASSUME Init, HalfSent PROVE PoolInv
  <2>1. chain = Genesis /\ taken = {} /\ Len(Genesis) \in Nat
    BY <1>1, ParsingAssumption, LenProperties DEF Init, S!Init, P!Init
  <2>2. SubSeq(chain, Len(Genesis) + 1, Len(chain)) = <<>>
    BY <2>1, SubSeqEmpty
  <2>3. PP!SumOf(<<>>) = 0
    BY <1>0, PP!SumOfEmpty
  <2>4. Included = 0
    BY <2>2, <2>3, SameSums DEF Included
  <2> QED
    BY <2>1, <2>4, FS_EmptySet DEF PoolInv
<1>2. ASSUME HalfSent, HalfParsed, PoolInv, [Next]_vars PROVE PoolInv'
  <2>1. Cardinality(taken) <= Cardinality(taken') /\ Cardinality(taken') \in Int
        /\ Cardinality(taken) \in Nat
    BY <1>2, TakenGrows, TakenFinite DEF HalfSent, SP!TypeInv
  <2>2. PP!TypeOK /\ PP!ChainGrows
    BY <1>2 DEF HalfParsed, PP!CountedInv
  <2>3. Included \in Int
    <3>1. PP!SumOf(PP!NewBlocks) \in Int
      BY <1>0, <2>2, PP!OneMoreBlock
    <3> QED
      BY <3>1, IncludedIsNew
  <2>4. ASSUME NEW k \in BlockSizes, k <= PoolSize, P!Persist(k), Persist PROVE PoolInv'
    <3>1. k \in Nat /\ chain' = Append(chain, k) /\ taken' = taken
      BY <2>4, ParsingAssumption DEF P!Persist, Persist, sendingVars
    <3>2. Len(chain') = Len(chain) + 1
      BY <2>2, <3>1, AppendProperties DEF PP!TypeOK
    <3>3. Included' = Included + k
      <4>1. PP!SumOf(SubSeq(Append(chain, k), Len(Genesis) + 1, Len(chain) + 1))
               = PP!SumOf(PP!NewBlocks) + k
        BY <1>0, <2>2, <3>1, PP!OneMoreBlock
      <4> QED
        BY <3>1, <3>2, <4>1, IncludedIsNew, SameSums DEF Included
    <3> QED
      BY <2>1, <2>3, <2>4, <3>1, <3>3 DEF PoolSize, PoolInv
  <2>5. ASSUME chain' = chain PROVE PoolInv'
    <3>1. Included' = Included
      BY <2>5 DEF Included
    <3> QED
      BY <1>2, <2>1, <2>3, <3>1 DEF PoolInv
  <2>6. CASE Persist
    BY <2>4, <2>6 DEF Persist
  <2>7. CASE ~Persist
    <3>1. chain' = chain
      <4>1. CASE \E w \in Workers : Worker(w) \/ Expire(w) \/ Spawn(w)
        BY <4>1 DEF Worker, Reply, Leave, Work, Expire, Spawn, parsingVars
      <4>2. CASE SenderFinish \/ ExpireParser \/ Interrupt \/ Sync
        BY <4>2 DEF SenderFinish, ExpireParser, Interrupt, Sync, parsingVars,
                    P!ExpireParser, P!Sync, P!networkVars
      <4>3. CASE Parse
        BY <4>3 DEF Parse, P!ParserStep, P!Tick, P!LeaveLoop, P!Check, P!SeeSentOut,
                    P!NotFinishedYet, P!GetBlockCount, P!GetBlockCountFails,
                    P!GetBlock, P!GetBlockFails, P!ParseDone, P!networkVars
      <4>4. CASE Main
        BY <4>4 DEF Main, WaitAtOnce, WaitBlocks, WaitReturns, WaitPanics, SentOutSeen,
                    ParsedSeen, MainGoto, parsingVars
      <4>5. CASE UNCHANGED vars
        BY <4>5 DEF vars, parsingVars
      <4> QED
        BY <1>2, <2>7, <4>1, <4>2, <4>3, <4>4, <4>5 DEF Next
    <3> QED
      BY <2>5, <3>1
  <2> QED
    BY <2>6, <2>7
<1> QED
  BY <1>1, <1>2

\* When the chain was empty from the start block on, the report never claims more
\* transactions than the nodes have accepted, however the two halves interleave
\* (worker.go:351-386, report.go:136-139).
THEOREM NeverOvercounts ==
  ASSUME \A k \in Start + 1 .. Len(Genesis) : Genesis[k] = 0
  PROVE  Spec => []NoOvercount
<1>1. /\ PP!GenesisAssumption /\ PP!StartAssumption /\ PP!BlockSizesAssumption
      /\ PP!BoundsAssumption /\ PP!TimeModAssumption
  BY ParsingConstants
<1>2. PP!Spec => []PP!TestedWithin
  BY <1>1, PP!TestIsInNewBlocks
<1>3. Spec => []PoolInv
  BY NextPool, SendingFacts, ParsingFacts, PTL DEF Spec
<1>4. HalfSent /\ HalfParsed /\ PoolInv /\ PP!TestedWithin => NoOvercount
  <2> SUFFICES ASSUME HalfSent, HalfParsed, PoolInv, PP!TestedWithin, OnlyTestBlocks
               PROVE  P!ReportedTxs(TPS) <= Cardinality(taken)
    BY DEF NoOvercount
  <2>1. P!ReportedTxs(TPS) = parsedCount /\ parsedCount \in Nat
    BY SameSums DEF HalfParsed, PP!ReportMatchesTally, PP!TypeOK
  <2>2. parsedCount <= Included
    BY IncludedIsNew
    DEF PP!TestedWithin, OnlyTestBlocks, P!CountsOnlyTestBlocks, PP!CountsOnlyTestBlocks
  <2>3. Included \in Int
    <3>1. PP!TypeOK /\ PP!ChainGrows
      BY DEF HalfParsed, PP!CountedInv
    <3>2. PP!SumOf(PP!NewBlocks) \in Int
      BY <1>1, <3>1, PP!OneMoreBlock
    <3> QED
      BY <3>2, IncludedIsNew
  <2>4. Cardinality(taken) \in Nat
    BY TakenFinite DEF HalfSent, SP!TypeInv
  <2> QED
    BY <2>1, <2>2, <2>3, <2>4 DEF PoolInv
<1> QED
  BY <1>2, <1>3, <1>4, ParsingHalf, SendingFacts, ParsingFacts, PTL
=============================================================================
