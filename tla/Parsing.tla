------------------------------- MODULE Parsing -------------------------------
(***************************************************************************)
(* The parsing half of the benchmark (cmd/internal/worker.go): the Parser  *)
(* goroutine, which polls the RPC nodes for new blocks, feeds each block   *)
(* to the report once and decides when the benchmark is over.              *)
(*                                                                         *)
(* The parser's pc:                                                        *)
(*   select  the select of the loop     fetch   parse's for loop           *)
(*   count   parse: GetBlockCount       check   parsedCount >= countTxs ?  *)
(*   sentq   the select on sentOut      done    parsed is closed           *)
(* A block is the number of its transactions and its timestamp is its      *)
(* index: timestamps grow along the chain, and the time a report covers is *)
(* then read as the blocks it covers.                                      *)
(*                                                                         *)
(* Each RPC call goes to the next node of the round robin, which requests  *)
(* of other goroutines advance too: any node may answer, and a node that   *)
(* lags does not know the newest blocks.                                   *)
(***************************************************************************)
EXTENDS Integers, Sequences, Reporter

CONSTANTS
  Nodes,        \* the RPC nodes (the -a flag)
  Genesis,      \* the chain when the parser starts, as transaction counts
  Start,        \* blk.Index of the block main hands to the Parser
  BlockSizes,   \* the sizes of the blocks the network may add
  MaxHeight,    \* bound on the number of blocks of the chain
  MaxTxs,       \* bound on the number of transactions acknowledged
  TimeMod       \* timestamps are uint64: 2^64

ASSUME GenesisAssumption == Genesis \in Seq(Nat)
ASSUME StartAssumption == Start \in 0 .. Len(Genesis) - 1
ASSUME BlockSizesAssumption == BlockSizes \subseteq Nat
ASSUME BoundsAssumption == MaxHeight \in Nat /\ MaxTxs \in Nat
ASSUME TimeModAssumption == TimeMod \in Nat /\ TimeMod > MaxHeight
                              /\ TimeMod > Len(Genesis)

VARIABLES
  \* the network
  chain,          \* its blocks; block i is chain[i + 1]
  height,         \* how many of them each RPC node has
  \* shared with the sending half
  countTxs,       \* acknowledged transactions
  sentOut,        \* the sender is finished
  done,           \* the benchmark's context is cancelled
  \* the parser
  ppc,
  final,          \* it has left the loop and runs the last parse
  parserExpired,  \* its timeLimit + 5 minutes timer has fired
  lastBlockIndx,  \* where the running or next parse starts
  lastBlock,      \* the block count the running parse goes up to
  parsedBlocks, parsedCount, hasStarted, lastBlockTime,
  parsed,         \* the channel of that name is closed
  \* its side of the report
  TPS, TPSPool

networkVars == <<chain, height>>
sharedVars == <<countTxs, sentOut, done>>
tallyVars == <<parsedBlocks, parsedCount, hasStarted, lastBlockTime, TPS, TPSPool>>
controlVars == <<ppc, final, parserExpired, lastBlockIndx, lastBlock, parsed>>
parserVars == <<tallyVars, controlVars>>
vars == <<networkVars, sharedVars, tallyVars, controlVars>>

\* The node that answered with the start block has it; the others may lag.
Init ==
    /\ chain = Genesis
    /\ height \in [Nodes -> 0 .. Len(Genesis)]
    /\ \E n \in Nodes : height[n] > Start
    /\ countTxs = 0
    /\ sentOut = FALSE
    /\ done = FALSE
    /\ ppc = "select"
    /\ final = FALSE
    /\ parserExpired = FALSE
    /\ lastBlockIndx = Start
    /\ lastBlock = 0
    /\ parsedBlocks = {}
    /\ parsedCount = 0
    /\ hasStarted = FALSE
    /\ lastBlockTime = Start
    /\ parsed = FALSE
    /\ TPS = <<>>
    /\ TPSPool = <<>>

-----------------------------------------------------------------------------
(* The network, the sending half and the user. *)

Persist(k) ==
    /\ Len(chain) < MaxHeight
    /\ chain' = Append(chain, k)
    /\ UNCHANGED <<height, sharedVars, parserVars>>

\* A node catches up by one block.
Sync(n) ==
    /\ height[n] < Len(chain)
    /\ height' = [height EXCEPT ![n] = @ + 1]
    /\ UNCHANGED <<chain, sharedVars, parserVars>>

Acknowledge ==
    /\ ~sentOut
    /\ countTxs < MaxTxs
    /\ countTxs' = countTxs + 1
    /\ UNCHANGED <<networkVars, sentOut, done, parserVars>>

CloseSentOut ==
    /\ ~sentOut
    /\ sentOut' = TRUE
    /\ UNCHANGED <<networkVars, countTxs, done, parserVars>>

Cancel ==
    /\ ~done
    /\ done' = TRUE
    /\ UNCHANGED <<networkVars, countTxs, sentOut, parserVars>>

ExpireParser ==
    /\ ~parserExpired /\ ~final
    /\ parserExpired' = TRUE
    /\ UNCHANGED <<networkVars, sharedVars, tallyVars>>
    /\ UNCHANGED <<ppc, final, lastBlockIndx, lastBlock, parsed>>

-----------------------------------------------------------------------------
(* The loop of Parser. *)

\* Faults, used in place of the definitions below to see that the properties
\* notice them.

\* The timeout's case is missing.
LeaveLoopOnDone ==
    /\ ppc = "select"
    /\ done
    /\ ppc' = "count"
    /\ final' = TRUE
    /\ UNCHANGED <<networkVars, sharedVars, tallyVars>>
    /\ UNCHANGED <<parserExpired, lastBlockIndx, lastBlock, parsed>>

\* The sender's end is enough: its total is not looked at.
CheckSenderOnly ==
    /\ ppc = "check"
    /\ ppc' = "sentq"
    /\ UNCHANGED <<networkVars, sharedVars, tallyVars>>
    /\ UNCHANGED <<final, parserExpired, lastBlockIndx, lastBlock, parsed>>

\* The count is taken for the index of the last block.
GetBlockCountAsIndex(n) ==
    /\ ppc = "count"
    /\ lastBlock' = height[n] + 1
    /\ ppc' = "fetch"
    /\ UNCHANGED <<networkVars, sharedVars, tallyVars>>
    /\ UNCHANGED <<final, parserExpired, lastBlockIndx, parsed>>

\* parsedBlocks is not looked at.
AtBlockAgain(i) == \A j \in lastBlockIndx .. i - 1 : j \in parsedBlocks

\* A block that could not be fetched is given up: return instead of return i.
GetBlockFailsGoesOn(i) ==
    /\ ppc = "fetch"
    /\ lastBlockIndx' = IF final THEN lastBlockIndx ELSE lastBlock
    /\ ppc' = IF final THEN "done" ELSE "check"
    /\ parsed' = final
    /\ UNCHANGED <<networkVars, sharedVars, tallyVars>>
    /\ UNCHANGED <<final, parserExpired, lastBlock>>

\* case <-ticker.C
Tick ==
    /\ ppc = "select"
    /\ ppc' = "count"
    /\ UNCHANGED <<networkVars, sharedVars, tallyVars>>
    /\ UNCHANGED <<final, parserExpired, lastBlockIndx, lastBlock, parsed>>

\* case <-done, case <-timeout.C: run parse before end
LeaveLoop ==
    /\ ppc = "select"
    /\ done \/ parserExpired
    /\ ppc' = "count"
    /\ final' = TRUE
    /\ UNCHANGED <<networkVars, sharedVars, tallyVars>>
    /\ UNCHANGED <<parserExpired, lastBlockIndx, lastBlock, parsed>>

\* int32(d.parsedCount) >= d.countTxs.Load()
Check ==
    /\ ppc = "check"
    /\ ppc' = IF parsedCount >= countTxs THEN "sentq" ELSE "select"
    /\ UNCHANGED <<networkVars, sharedVars, tallyVars>>
    /\ UNCHANGED <<final, parserExpired, lastBlockIndx, lastBlock, parsed>>

\* case <-d.sentOut: break loop, and run parse before end
SeeSentOut ==
    /\ ppc = "sentq"
    /\ sentOut
    /\ ppc' = "count"
    /\ final' = TRUE
    /\ UNCHANGED <<networkVars, sharedVars, tallyVars>>
    /\ UNCHANGED <<parserExpired, lastBlockIndx, lastBlock, parsed>>

\* default: not finished yet
NotFinishedYet ==
    /\ ppc = "sentq"
    /\ ~sentOut
    /\ ppc' = "select"
    /\ UNCHANGED <<networkVars, sharedVars, tallyVars>>
    /\ UNCHANGED <<final, parserExpired, lastBlockIndx, lastBlock, parsed>>

-----------------------------------------------------------------------------
(* parse.  Its result is where the next parse starts; the last parse's     *)
(* result is dropped and Parser closes parsed.                             *)

Return(result) ==
    /\ lastBlockIndx' = IF final THEN lastBlockIndx ELSE result
    /\ ppc' = IF final THEN "done" ELSE "check"
    /\ parsed' = final

GetBlockCount(n) ==
    /\ ppc = "count"
    /\ lastBlock' = height[n]
    /\ ppc' = "fetch"
    /\ UNCHANGED <<networkVars, sharedVars, tallyVars>>
    /\ UNCHANGED <<final, parserExpired, lastBlockIndx, parsed>>

\* d.stop() cancels the benchmark and the named result is still zero.
GetBlockCountFails ==
    /\ ppc = "count"
    /\ done' = TRUE
    /\ lastBlock' = 0
    /\ Return(0)
    /\ UNCHANGED <<networkVars, countTxs, sentOut, tallyVars>>
    /\ UNCHANGED <<final, parserExpired>>

\* The loop variable is i at the next call of GetBlock: the loop has skipped
\* the blocks before it, which are parsed.
AtBlock(i) ==
    /\ i \notin parsedBlocks
    /\ \A j \in lastBlockIndx .. i - 1 : j \in parsedBlocks

\* dt := blk.Timestamp - *lastTime, unsigned
DeltaTime(i) == (i - lastBlockTime) % TimeMod

\* The block goes into the report, unless the test has not reached the chain.
GetBlock(n, i) ==
    /\ ppc = "fetch"
    /\ AtBlock(i)
    /\ height[n] > i
    /\ LET cnt == chain[i + 1]
           info == tpsInfo(DeltaTime(i), cnt)
       IN  /\ parsedBlocks' = parsedBlocks \cup {i}
           /\ hasStarted' = (hasStarted \/ cnt > 0)
           /\ lastBlockTime' = i
           /\ parsedCount' = parsedCount + cnt
           /\ IF hasStarted'
              THEN /\ TPS' = TPSAfter(TPS, TPSPool, info)
                   /\ TPSPool' = TPSPoolAfter(TPSPool, info)
              ELSE UNCHANGED <<TPS, TPSPool>>
    /\ UNCHANGED <<networkVars, sharedVars, controlVars>>

\* The call fails, or the node asked does not have the block: parse again
\* from this block some time later.
GetBlockFails(i) ==
    /\ ppc = "fetch"
    /\ AtBlock(i)
    /\ Return(i)
    /\ UNCHANGED <<networkVars, sharedVars, tallyVars>>
    /\ UNCHANGED <<final, parserExpired, lastBlock>>

\* The loop has run out of blocks.
ParseDone ==
    /\ ppc = "fetch"
    /\ \A i \in lastBlockIndx .. lastBlock - 1 : i \in parsedBlocks
    /\ Return(lastBlock)
    /\ UNCHANGED <<networkVars, sharedVars, tallyVars>>
    /\ UNCHANGED <<final, parserExpired, lastBlock>>

-----------------------------------------------------------------------------
ParserStep ==
    \/ Tick \/ LeaveLoop \/ Check \/ SeeSentOut \/ NotFinishedYet
    \/ \E n \in Nodes : GetBlockCount(n)
    \/ GetBlockCountFails
    \/ \E i \in lastBlockIndx .. lastBlock - 1 :
         (\E n \in Nodes : GetBlock(n, i)) \/ GetBlockFails(i)
    \/ ParseDone

Environment ==
    \/ \E k \in BlockSizes : Persist(k)
    \/ \E n \in Nodes : Sync(n)
    \/ Acknowledge \/ CloseSentOut \/ Cancel

Next == ParserStep \/ ExpireParser \/ Environment

Spec == Init /\ [][Next]_vars

\* The parser goroutine runs and its timer fires.  A select whose done and
\* ticker cases are ready again and again picks each of them in the end.
Fairness == WF_vars(ParserStep) /\ SF_vars(LeaveLoop) /\ WF_vars(ExpireParser)

FairSpec == Spec /\ Fairness

-----------------------------------------------------------------------------
(* Properties. *)

TypeOK ==
    /\ chain \in Seq(Nat)
    /\ height \in [Nodes -> Nat] /\ \A n \in Nodes : height[n] <= Len(chain)
    /\ countTxs \in Nat
    /\ sentOut \in BOOLEAN /\ done \in BOOLEAN
    /\ ppc \in {"select", "count", "fetch", "check", "sentq", "done"}
    /\ final \in BOOLEAN /\ parserExpired \in BOOLEAN /\ parsed \in BOOLEAN
    /\ lastBlockIndx \in Nat
    /\ lastBlock \in 0 .. Len(chain)
    /\ parsedBlocks \subseteq 0 .. Len(chain) - 1
    /\ parsedCount \in Nat
    /\ hasStarted \in BOOLEAN
    /\ lastBlockTime \in Nat
    /\ TPS \in Seq([DeltaTime : Nat, TxCount : Nat])
    /\ TPSPool \in Seq([DeltaTime : Nat, TxCount : Nat])

\* Where the next parse starts never runs ahead of what has been parsed: a
\* block whose fetch failed, or that a lagging node did not report, is not
\* skipped (worker.go:351-358, 391).
NoBlockSkipped ==
    \A j \in Start .. lastBlockIndx - 1 : j \in parsedBlocks

\* The code counts what BlockTally allows it to count.
Tally == INSTANCE BlockTally WITH counted <- parsedBlocks, total <- parsedCount
TallySpec == Tally!Spec

\* The report's transactions are the ones the parser counted, so the number
\* it prints (report.go:136-139) is the number Parser compares with countTxs.
ReportMatchesTally == ReportedTxs(TPS) = parsedCount

\* "Started test from block = %v" (main.go:174): only blocks from the start
\* block on are part of the test.
CountsOnlyTestBlocks == \A i \in parsedBlocks : i >= Start

\* As long as no block before the start block was counted, the time of the
\* report runs from the block before the first one with transactions to the
\* last one with transactions: idle blocks inside the test are in, those
\* before and after it are out (report.go:273-287, worker.go:378-382).
ReportWindow ==
    LET Busy == {i \in parsedBlocks : chain[i + 1] > 0}
        Before(i) == IF i > Start THEN i - 1 ELSE Start
    IN  CountsOnlyTestBlocks =>
            /\ Busy = {} => OverallBlocksTime(TPS) = 0
            /\ \A i, k \in Busy : (\A j \in Busy : i <= j /\ j <= k)
                   => OverallBlocksTime(TPS) = k - Before(i)

\* The parser stops, whatever the sender and the nodes do.
ParserStops == <>parsed
=============================================================================
