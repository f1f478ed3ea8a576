-------------------------------- MODULE Bench --------------------------------
(***************************************************************************)
(* The benchmark process from the moment main starts its two goroutines    *)
(* (cmd/bench/main.go:176-179): the sending half (Sending), the parsing    *)
(* half (Parsing), the network they both talk to, and main itself, which   *)
(* waits for both (doer.Wait) and whose deferred function then writes the  *)
(* report.  When main returns or panics the process is gone, with every    *)
(* goroutine still in it.  A panic in Wait runs main's deferred function,  *)
(* too, on its way out: the report that it writes is not looked at here.   *)
(*                                                                         *)
(* main's pc:                                                              *)
(*   wait      about to call waiter.Wait()                                 *)
(*   blocked   inside it; the wait group's counter was not zero            *)
(*   released  the counter reached zero, main has not run since            *)
(*   sent      <-d.sentOut      parsed    <-d.parsed                       *)
(*   exit      returned         panic     "WaitGroup is reused ..."        *)
(***************************************************************************)
EXTENDS Integers, Sequences, FiniteSets

CONSTANTS
  Workers, DumpSize, QueueCap,                                \* as in Sending
  Nodes, Genesis, Start, BlockSizes, MaxHeight, TimeMod,      \* as in Parsing
  PoolCap,        \* capacity of the nodes' memory pool
  LostReplies     \* whether an accepted transaction's answer may get lost

\* What Sending and Parsing assume of their constants.
ASSUME SendingAssumption ==
    /\ IsFiniteSet(Workers) /\ Workers # {}
    /\ DumpSize \in Nat \ {0}
    /\ QueueCap \in Nat /\ QueueCap >= DumpSize
ASSUME ParsingAssumption ==
    /\ Genesis \in Seq(Nat) /\ Start \in 0 .. Len(Genesis) - 1
    /\ BlockSizes \subseteq Nat /\ MaxHeight \in Nat
    /\ TimeMod \in Nat /\ TimeMod > MaxHeight /\ TimeMod > Len(Genesis)
ASSUME PoolCapAssumption == PoolCap \in Nat \ {0}
ASSUME LostRepliesAssumption == LostReplies \in BOOLEAN

VARIABLES
  queue, wpc, held, expired, count, countErr, taken, rep, spc,
  chain, height,
  countTxs, sentOut, done,
  ppc, final, parserExpired, lastBlockIndx, lastBlock, parsedBlocks,
  parsedCount, hasStarted, lastBlockTime, parsed, TPS, TPSPool,
  mpc             \* where main is

S == INSTANCE Sending
P == INSTANCE Parsing WITH MaxTxs <- DumpSize

\* The variables of each half alone, and those both halves share.
sendingVars == <<queue, wpc, held, expired, count, countErr, taken, rep, spc>>
parsingVars == <<chain, height, ppc, final, parserExpired, lastBlockIndx,
                 lastBlock, parsedBlocks, parsedCount, hasStarted,
                 lastBlockTime, parsed, TPS, TPSPool>>
sharedVars == <<countTxs, sentOut, done>>

vars == <<sendingVars, parsingVars, sharedVars, mpc>>

\* The process, and with it every goroutine, lives until main ends.
Running == mpc \notin {"exit", "panic"}

Init ==
    /\ S!Init
    /\ P!Init
    /\ mpc = "wait"

-----------------------------------------------------------------------------
(* The nodes: a memory pool and the blocks made of it. *)

Included == P!SumOf(SubSeq(chain, Len(Genesis) + 1, Len(chain)))

PoolSize == Cardinality(taken) - Included

\* A new block takes transactions out of the pool.
Persist ==
    /\ Running
    /\ \E k \in BlockSizes : k <= PoolSize /\ P!Persist(k)
    /\ UNCHANGED <<sendingVars, mpc>>

Sync ==
    /\ Running
    /\ \E n \in Nodes : P!Sync(n)
    /\ UNCHANGED <<sendingVars, mpc>>

\* The answers the nodes give to a sendrawtransaction.
Reply(w) ==
    /\ Running
    /\ \/ PoolSize < PoolCap /\ S!Accepted(w)
       \/ PoolSize >= PoolCap /\ S!OutOfMemory(w)
       \/ S!Refused(w)
       \/ LostReplies /\ PoolSize < PoolCap /\ S!LostReply(w)
    /\ UNCHANGED <<parsingVars, mpc>>

-----------------------------------------------------------------------------
(* The goroutines. *)

\* The counter of d.waiter.
Live == {w \in Workers : wpc[w] \notin {"idle", "stopped"}}

\* sync.WaitGroup counts w down; at zero it releases main if main is waiting.
GroupDone(w) == mpc' = IF mpc = "blocked" /\ Live = {w} THEN "released" ELSE mpc

\* A worker returns.
Leave(w) ==
    /\ Running
    /\ S!Stop(w) \/ S!Drained(w)
    /\ GroupDone(w)
    /\ UNCHANGED parsingVars

Work(w) ==
    /\ Running
    /\ S!Proceed(w) \/ S!SeeTx(w) \/ S!Get(w) \/ S!Count(w) \/ S!ReportRPS(w)
       \/ S!Reenqueue(w) \/ S!CountErr(w)
    /\ UNCHANGED <<parsingVars, mpc>>

Expire(w) == Running /\ S!Expire(w) /\ UNCHANGED <<parsingVars, mpc>>

Spawn(w) == Running /\ S!Spawn(w) /\ UNCHANGED <<parsingVars, mpc>>

SenderFinish ==
    /\ Running
    /\ S!SenderFinish
    /\ UNCHANGED <<parsingVars, mpc>>

\* The parser may cancel the context the workers look at.
Parse ==
    /\ Running
    /\ P!ParserStep
    /\ UNCHANGED <<sendingVars, mpc>>

ExpireParser == Running /\ P!ExpireParser /\ UNCHANGED <<sendingVars, mpc>>

\* A signal (grace.go) cancels the context.
Interrupt == Running /\ S!Cancel /\ UNCHANGED <<parsingVars, mpc>>

-----------------------------------------------------------------------------
(* main, in doer.Wait. *)

MainGoto(from, to) ==
    mpc = from /\ mpc' = to /\ UNCHANGED <<sendingVars, parsingVars, sharedVars>>

\* d.waiter.Wait(): returns at once if the counter is zero
WaitAtOnce == Live = {} /\ MainGoto("wait", "sent")
WaitBlocks == Live # {} /\ MainGoto("wait", "blocked")

\* sync.WaitGroup panics if it counts again before its waiter has returned.
WaitReturns == Live = {} /\ MainGoto("released", "sent")
WaitPanics == Live # {} /\ MainGoto("released", "panic")

\* A fault: the wait group alone is taken for the end of the sender.
SentOutAssumed == MainGoto("sent", "parsed")

\* <-d.sentOut
SentOutSeen == sentOut /\ MainGoto("sent", "parsed")

\* <-d.parsed; main returns and its deferred function writes the report
ParsedSeen == parsed /\ MainGoto("parsed", "exit")

Main ==
    \/ WaitAtOnce \/ WaitBlocks \/ WaitReturns \/ WaitPanics
    \/ SentOutSeen \/ ParsedSeen

-----------------------------------------------------------------------------
Worker(w) == Reply(w) \/ Leave(w) \/ Work(w)

Next ==
    \/ \E w \in Workers : Worker(w) \/ Expire(w) \/ Spawn(w)
    \/ SenderFinish
    \/ Parse \/ ExpireParser
    \/ Main
    \/ Interrupt \/ Persist \/ Sync

Spec == Init /\ [][Next]_vars

\* As in Sending and Parsing: goroutines run, calls return, timers fire.  No
\* block need ever come and nobody need interrupt.
Fairness ==
    /\ \A w \in Workers : /\ WF_vars(Worker(w))
                          /\ WF_vars(Expire(w))
                          /\ WF_vars(Spawn(w))
    /\ WF_vars(SenderFinish)
    /\ WF_vars(Parse)
    /\ SF_vars(Running /\ P!LeaveLoop /\ UNCHANGED <<sendingVars, mpc>>)
    /\ WF_vars(ExpireParser)
    /\ WF_vars(Main)

FairSpec == Spec /\ Fairness

-----------------------------------------------------------------------------
(* Properties. *)

TypeOK ==
    /\ S!TypeOK
    /\ P!TypeOK
    /\ mpc \in {"wait", "blocked", "released", "sent", "parsed", "exit", "panic"}

\* Blocks that were there before the test, counted after a failed or lagging
\* answer (Parsing), are left out of the properties below.
OnlyTestBlocks == P!CountsOnlyTestBlocks

\* The report main writes when it returns is final and accounts for the whole
\* dump: every transaction is in its TxCount, in its ErrCount or still in the
\* queue, none in the hands of a worker that could still change the numbers.
\* main gets there although its own waiter.Wait() may return before the first
\* worker is spawned (worker.go:275-287, 402-408).
WrittenReportIsFinal ==
    mpc = "exit" =>
        /\ rep.TxCount = countTxs /\ rep.ErrCount = countErr
        /\ rep.TxCount + rep.ErrCount + Len(queue) = DumpSize
        /\ parsedCount = P!ReportedTxs(TPS)

\* The report never claims more transactions than the nodes have accepted.
NoOvercount == OnlyTestBlocks => P!ReportedTxs(TPS) <= Cardinality(taken)

\* The benchmark ends and writes its report, unless a worker is starved in
\* Get for ever; neither a failing node nor transactions that never make it
\* into a block keep it running.
EndsUnlessStarved ==
    \/ <>(~Running)
    \/ <>[](\E w \in Workers : S!Starved(w))

\* "txCount := 0 // != r.TxCount in case of early benchmark interrupt"
\* (report.go:136): without an interrupt everything sent is in the report.
ReportComplete ==
    mpc = "exit" /\ ~done /\ ~parserExpired
        => P!ReportedTxs(TPS) >= rep.TxCount

\* The report falls short of the sender's total (ReportComplete) in one way
\* only: the sender goes on between the two looks Parser takes, at countTxs
\* and at sentOut (worker.go:318-323).  A sender that ends at any other moment
\* has all it sent in every report written without an interrupt or a timeout.
SettledReportComplete == [](sentOut /\ ~final /\ ppc # "sentq" => []ReportComplete)

\* "Wait waits when all workers stop." (worker.go:274): it does not panic.
WaitDoesNotPanic == mpc # "panic"
=============================================================================
