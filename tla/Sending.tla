------------------------------- MODULE Sending -------------------------------
(***************************************************************************)
(* The sending half of the benchmark (cmd/internal/worker.go): the dump's  *)
(* transaction queue, the request workers that drain it through the RPC    *)
(* client, and the Sender goroutine that spawns them, waits for them and   *)
(* reports their totals.                                                   *)
(*                                                                         *)
(* A worker's pc names the place in doer.worker it is about to run:        *)
(*   idle    not spawned yet           select  the select, its sleeps done *)
(*   len     the Len() test            get     the blocking Get()          *)
(*   send    waiting for SendTX        acked   SendTX returned nil         *)
(*   rps     rpsReporter               full    SendTX returned OOM: Put()  *)
(*   failed  SendTX returned an error  stopped returned                    *)
(* The two sleeps (pacing, mempoolOOMDelay) change no state and are part   *)
(* of the time a worker stays at "select".                                 *)
(***************************************************************************)
EXTENDS Integers, Sequences, FiniteSets, Reporter

CONSTANTS
  Workers,      \* the request workers (the -w flag)
  DumpSize,     \* transactions in the dump, numbered 1 .. DumpSize
  QueueCap      \* capacity of the ring buffer ReadDump allocated for them

ASSUME WorkersAssumption == IsFiniteSet(Workers) /\ Workers # {}
ASSUME DumpSizeAssumption == DumpSize \in Nat \ {0}
\* NewRingBuffer(count) rounds count up to a power of two.
ASSUME QueueCapAssumption == QueueCap \in Nat /\ QueueCap >= DumpSize

VARIABLES
  queue,        \* dump.TransactionsQueue, head first
  wpc,          \* where each worker is
  held,         \* the transaction a worker holds, 0 when none
  expired,      \* the worker's own timeLimit timer has fired
  count,        \* the worker's local result of countTxs.Add
  countTxs,     \* transactions a node acknowledged
  countErr,     \* transactions given up after an error
  taken,        \* the transactions some node has really accepted
  rep,          \* the sender's fields of the report
  spc,          \* Sender: "spawn", "wait" or "done"
  sentOut,      \* the channel of that name is closed
  done          \* the benchmark's context is cancelled

workerVars == <<queue, wpc, held, expired, count, countTxs, countErr, taken>>
senderVars == <<rep, spc, sentOut, done>>
vars == <<queue, wpc, held, expired, count, countTxs, countErr, taken,
          rep, spc, sentOut, done>>

Txs == 1 .. DumpSize
WorkerPC == {"idle", "select", "len", "get", "send", "acked", "rps", "full",
             "failed", "stopped"}

\* The dump is read in its order and nothing has been sent.
Init ==
    /\ queue = [i \in Txs |-> i]
    /\ wpc = [w \in Workers |-> "idle"]
    /\ held = [w \in Workers |-> 0]
    /\ expired = [w \in Workers |-> FALSE]
    /\ count = [w \in Workers |-> 0]
    /\ countTxs = 0
    /\ countErr = 0
    /\ taken = {}
    /\ rep = NewReporter
    /\ spc = "spawn"
    /\ sentOut = FALSE
    /\ done = FALSE

-----------------------------------------------------------------------------
(* A worker. *)

Goto(w, from, to) == wpc[w] = from /\ wpc' = [wpc EXCEPT ![w] = to]

\* Faults, used in place of the definitions below to see that the properties
\* notice them.

\* time.After(d.timeLimit) inside the select: every round arms a new timer.
ExpireRearmed(w) == wpc[w] \notin {"idle", "stopped"} /\ UNCHANGED vars

\* Put after the worker's variable was cleared.
ReenqueueCleared(w) ==
    /\ Goto(w, "full", "select")
    /\ queue' = Append(queue, 0)
    /\ held' = [held EXCEPT ![w] = 0]
    /\ UNCHANGED <<expired, count, countTxs, countErr, taken>>
    /\ UNCHANGED senderVars

\* The refused transaction is put back and counted as an error too.
ReenqueueCounted(w) ==
    /\ Goto(w, "full", "select")
    /\ queue' = Append(queue, held[w])
    /\ held' = [held EXCEPT ![w] = 0]
    /\ countErr' = countErr + 1
    /\ UNCHANGED <<expired, count, countTxs, taken>>
    /\ UNCHANGED senderVars

\* The worker puts the transaction back and returns.
ReenqueueReturns(w) ==
    /\ Goto(w, "full", "stopped")
    /\ queue' = Append(queue, held[w])
    /\ held' = [held EXCEPT ![w] = 0]
    /\ UNCHANGED <<expired, count, countTxs, countErr, taken>>
    /\ UNCHANGED senderVars

\* The head of the queue is read and stays there.
GetPeeks(w) ==
    /\ Goto(w, "get", "send")
    /\ queue # <<>>
    /\ held' = [held EXCEPT ![w] = Head(queue)]
    /\ UNCHANGED <<queue, expired, count, countTxs, countErr, taken>>
    /\ UNCHANGED senderVars

\* Every error of SendTX leads to a retry.
LostReplyRetried(w) ==
    /\ Goto(w, "send", "full")
    /\ taken' = taken \cup {held[w]}
    /\ UNCHANGED <<queue, held, expired, count, countTxs, countErr>>
    /\ UNCHANGED senderVars

\* The empty hash of a failed call is not looked at.
RefusedAcked(w) ==
    /\ Goto(w, "send", "acked")
    /\ UNCHANGED <<queue, held, expired, count, countTxs, countErr, taken>>
    /\ UNCHANGED senderVars

\* The last rate a worker reported is taken for the final one.
FinalReportKeepsRate == UpdateErr(UpdateCnt(rep, countTxs), countErr)

\* timer := time.NewTimer(d.timeLimit) runs from the worker's start.
Expire(w) ==
    /\ wpc[w] \notin {"idle", "stopped"}
    /\ ~expired[w]
    /\ expired' = [expired EXCEPT ![w] = TRUE]
    /\ UNCHANGED <<queue, wpc, held, count, countTxs, countErr, taken>>
    /\ UNCHANGED senderVars

\* case <-done, case <-timer.C
Stop(w) ==
    /\ Goto(w, "select", "stopped")
    /\ done \/ expired[w]
    /\ UNCHANGED <<queue, held, expired, count, countTxs, countErr, taken>>
    /\ UNCHANGED senderVars

\* default: neither is ready
Proceed(w) ==
    /\ Goto(w, "select", "len")
    /\ ~done /\ ~expired[w]
    /\ UNCHANGED <<queue, held, expired, count, countTxs, countErr, taken>>
    /\ UNCHANGED senderVars

\* Len() == 0: return
Drained(w) ==
    /\ Goto(w, "len", "stopped")
    /\ queue = <<>>
    /\ UNCHANGED <<queue, held, expired, count, countTxs, countErr, taken>>
    /\ UNCHANGED senderVars

\* Len() # 0: go on to Get, with nothing that keeps the queue non-empty
SeeTx(w) ==
    /\ Goto(w, "len", "get")
    /\ queue # <<>>
    /\ UNCHANGED <<queue, held, expired, count, countTxs, countErr, taken>>
    /\ UNCHANGED senderVars

\* Get blocks while the queue is empty; only a Put releases it, since
\* nothing disposes the ring buffer.
Get(w) ==
    /\ Goto(w, "get", "send")
    /\ queue # <<>>
    /\ held' = [held EXCEPT ![w] = Head(queue)]
    /\ queue' = Tail(queue)
    /\ UNCHANGED <<expired, count, countTxs, countErr, taken>>
    /\ UNCHANGED senderVars

\* The node accepts the transaction and SendTX returns nil.
Accepted(w) ==
    /\ Goto(w, "send", "acked")
    /\ taken' = taken \cup {held[w]}
    /\ UNCHANGED <<queue, held, expired, count, countTxs, countErr>>
    /\ UNCHANGED senderVars

\* The node's memory pool is full: SendTX returns ErrMempoolOOM.
OutOfMemory(w) ==
    /\ Goto(w, "send", "full")
    /\ UNCHANGED <<queue, held, expired, count, countTxs, countErr, taken>>
    /\ UNCHANGED senderVars

\* Any other error, with the transaction not accepted ...
Refused(w) ==
    /\ Goto(w, "send", "failed")
    /\ UNCHANGED <<queue, held, expired, count, countTxs, countErr, taken>>
    /\ UNCHANGED senderVars

\* ... or accepted, the answer being lost, late or without a hash.
LostReply(w) ==
    /\ Goto(w, "send", "failed")
    /\ taken' = taken \cup {held[w]}
    /\ UNCHANGED <<queue, held, expired, count, countTxs, countErr>>
    /\ UNCHANGED senderVars

\* count := d.countTxs.Add(1)
Count(w) ==
    /\ Goto(w, "acked", "rps")
    /\ countTxs' = countTxs + 1
    /\ count' = [count EXCEPT ![w] = countTxs + 1]
    /\ held' = [held EXCEPT ![w] = 0]
    /\ UNCHANGED <<queue, expired, countErr, taken>>
    /\ UNCHANGED senderVars

\* d.rpsReporter(count / since), a step later than the count it reports
ReportRPS(w) ==
    /\ Goto(w, "rps", "select")
    /\ rep' = UpdateRPS(rep, count[w])
    /\ UNCHANGED <<queue, held, expired, count, countTxs, countErr, taken>>
    /\ UNCHANGED <<spc, sentOut, done>>

\* Put the refused transaction back; Put blocks while the ring is full.
Reenqueue(w) ==
    /\ Goto(w, "full", "select")
    /\ Len(queue) < QueueCap
    /\ queue' = Append(queue, held[w])
    /\ held' = [held EXCEPT ![w] = 0]
    /\ UNCHANGED <<expired, count, countTxs, countErr, taken>>
    /\ UNCHANGED senderVars

\* d.countErr.Add(1); the transaction is dropped
CountErr(w) ==
    /\ Goto(w, "failed", "select")
    /\ countErr' = countErr + 1
    /\ held' = [held EXCEPT ![w] = 0]
    /\ UNCHANGED <<queue, expired, count, countTxs, taken>>
    /\ UNCHANGED senderVars

-----------------------------------------------------------------------------
(* The Sender and its environment. *)

\* d.waiter.Go(worker): the loop spawns the workers one by one
Spawn(w) ==
    /\ spc = "spawn"
    /\ Goto(w, "idle", "select")
    /\ spc' = IF \A v \in Workers \ {w} : wpc[v] # "idle" THEN "wait" ELSE spc
    /\ UNCHANGED <<queue, held, expired, count, countTxs, countErr, taken>>
    /\ UNCHANGED <<rep, sentOut, done>>

\* d.waiter.Wait() returns once every worker has; then the three reports and
\* the deferred close(d.sentOut).  No worker is left to interleave with them.
FinalReport == UpdateRPS(UpdateErr(UpdateCnt(rep, countTxs), countErr), countTxs)

SenderFinish ==
    /\ spc = "wait"
    /\ \A w \in Workers : wpc[w] = "stopped"
    /\ rep' = FinalReport
    /\ spc' = "done"
    /\ sentOut' = TRUE
    /\ UNCHANGED workerVars
    /\ UNCHANGED done

\* The context is cancelled: a signal, or the parser's d.stop().
Cancel ==
    /\ ~done
    /\ done' = TRUE
    /\ UNCHANGED workerVars
    /\ UNCHANGED <<rep, spc, sentOut>>

-----------------------------------------------------------------------------
Reply(w) == Accepted(w) \/ OutOfMemory(w) \/ Refused(w) \/ LostReply(w)

WorkerStep(w) ==
    \/ Stop(w) \/ Proceed(w) \/ Drained(w) \/ SeeTx(w) \/ Get(w)
    \/ Reply(w) \/ Count(w) \/ ReportRPS(w) \/ Reenqueue(w) \/ CountErr(w)

Next ==
    \/ \E w \in Workers : Spawn(w) \/ Expire(w) \/ WorkerStep(w)
    \/ SenderFinish
    \/ Cancel

Spec == Init /\ [][Next]_vars

\* A started goroutine that can run is scheduled, an RPC call returns (the
\* client's read and write timeouts bound it) and an armed timer fires.
\* Nobody has to cancel.
Fairness ==
    /\ \A w \in Workers : WF_vars(WorkerStep(w)) /\ WF_vars(Expire(w))
                           /\ WF_vars(Spawn(w))
    /\ WF_vars(SenderFinish)

FairSpec == Spec /\ Fairness
-----------------------------------------------------------------------------
(* Properties. *)

TypeOK ==
    /\ queue \in Seq(Txs)
    /\ wpc \in [Workers -> WorkerPC]
    /\ held \in [Workers -> 0 .. DumpSize]
    /\ expired \in [Workers -> BOOLEAN]
    /\ count \in [Workers -> Nat]
    /\ countTxs \in Nat
    /\ countErr \in Nat
    /\ taken \subseteq Txs
    /\ rep \in [AverageRPS : Nat, TxCount : Nat, ErrCount : Nat]
    /\ spc \in {"spawn", "wait", "done"}
    /\ sentOut \in BOOLEAN
    /\ done \in BOOLEAN

Holding == {"send", "acked", "full", "failed"}
Holders == {w \in Workers : wpc[w] \in Holding}
InQueue == {queue[i] : i \in DOMAIN queue}

\* Every transaction of the dump is in exactly one place: still queued, in the
\* hands of a worker, counted as sent or counted as an error (worker.go:238-260).
Conservation ==
    Len(queue) + Cardinality(Holders) + countTxs + countErr = DumpSize

\* The worker that re-enqueues a refused transaction never blocks in Put
\* (worker.go:245): the ring was made for the whole dump and the place of the
\* transaction it holds stays free, whatever the other workers do meanwhile.
PutNeverBlocks == \A w \in Workers : wpc[w] = "full" => Len(queue) < QueueCap

\* A transaction a node has accepted is never sent to a node again: a retry
\* happens only after a refusal (worker.go:243-255).
AcceptedOnce ==
    \A tx \in taken :
        /\ tx \notin InQueue
        /\ \A w \in Workers : wpc[w] \in {"send", "full"} => held[w] # tx

\* The counters bracket what the nodes really hold: at least the acknowledged
\* transactions, at most those and the ones whose answer was an error.
CountersBracketTaken ==
    LET Known == {w \in Workers : wpc[w] \in {"acked", "failed"}}
        Acked == {w \in Workers : wpc[w] = "acked"}
    IN  /\ countTxs + Cardinality(Acked) <= Cardinality(taken)
        /\ Cardinality(taken) <= countTxs + countErr + Cardinality(Known)

\* Once sentOut is closed the report holds the final totals, although the
\* workers report rates out of the order of their counts (worker.go:260-262)
\* and a zero never overwrites anything (report.go:228-262).
ReportSettled ==
    sentOut => rep = [AverageRPS |-> countTxs, TxCount |-> countTxs,
                      ErrCount |-> countErr]

\* When neither the time limit nor a cancellation cut the benchmark short, no
\* transaction is left behind: a worker that puts one back is still there to
\* send it again after all others saw an empty queue and left.
NothingLeftBehind ==
    sentOut /\ ~done /\ (\A w \in Workers : ~expired[w])
        => queue = <<>> /\ countTxs + countErr = DumpSize

\* A worker blocked in Get while the queue is empty.
Starved(w) == wpc[w] = "get" /\ queue = <<>>

\* The Sender gets to its totals, unless a worker is blocked for good in a Get
\* it entered while the queue had something: the time limit frees every other
\* worker, a node that always refuses keeps none of them (worker.go:228-257).
FinishesOrStarves ==
    \/ <>sentOut
    \/ <>[](\E w \in Workers : Starved(w))

\* "When the time limit is reached, application stops send requests and wait
\* for parsing transactions" (README.md:223-224): every worker returns.
AllWorkersStop == <>(\A w \in Workers : wpc[w] = "stopped")
=============================================================================
