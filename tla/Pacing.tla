-------------------------------- MODULE Pacing --------------------------------
(***************************************************************************)
(* When and whom the workers ask (cmd/internal/worker.go:219-272 with      *)
(* cmd/internal/client.go and cmd/bench/main.go:48-66): the worker loop of *)
(* Sending once more, with a clock in place of the queue's contents, over  *)
(* the round robin of RpcClient that the parser's calls advance as well.   *)
(*                                                                         *)
(* After its n-th acknowledged transaction a worker sleeps until n + 1     *)
(* thresholds from the common start have passed; a failed transaction is   *)
(* followed by the next at once and a refused one by a delay of its own.   *)
(* Time is in the ticks of Second and Millisecond.  A call is answered, or *)
(* times out, within Latency, and a worker that has looked at the time     *)
(* limit makes its call at once if there is a transaction to send; a step  *)
(* after a call or a sleep may be late.  All workers begin at the start.   *)
(***************************************************************************)
EXTENDS RpcClient, FiniteSets, FiniteSetsExt

CONSTANTS
  Workers,       \* the request workers
  rpcAddress,    \* the addresses of the command line
  DumpSize,      \* transactions in the dump
  Rates,         \* the rate limits tried, 0 for the mode without one
  Second, Millisecond,
  msPerBlock,    \* the nodes' time per block in milliseconds
  timeLimit,     \* --timeLimit
  Latency,       \* longest time a call takes
  MaxTime,       \* bound on the clock
  MaxCalls       \* bound on the calls of the parser: none after so many in all

ASSUME WorkersAssumption == IsFiniteSet(Workers) /\ Workers # {}
\* Not all of them are empty: main has already asked one for its version.
ASSUME AddressAssumption ==
    rpcAddress \in Seq(Nodes) /\ Range(rpcAddress) # {NoAddress} /\ rpcAddress # <<>>
ASSUME RatesAssumption == Rates \subseteq Nat
ASSUME TimesAssumption ==
    {DumpSize, Second, Millisecond, msPerBlock, timeLimit, Latency, MaxTime,
     MaxCalls} \subseteq Nat

VARIABLES
  now,             \* time since start
  rate,
  done,            \* the context is cancelled
  wpc,             \* "select", "get", "sent", "sleep", "returned"
  until,           \* deadline of the call, or end of the sleep, of each worker
  localTxCounter,  \* transactions acknowledged to each worker
  left,            \* length of the queue
  countErr,
  refusals,        \* answers "out of memory" so far
  asked,           \* calls made to each address of addr
  seed,            \* what inc was at the start
  crashed          \* a call has panicked

workerVars == <<wpc, until, localTxCounter, left, countErr, refusals>>
vars == <<addr, inc, now, rate, done, wpc, until, localTxCounter, left, countErr,
          refusals, asked, seed, crashed>>

-----------------------------------------------------------------------------
N == Cardinality(Workers)

\* Integer divisions, in nanoseconds in the code.
threshold == IF rate = 0 THEN 0 ELSE (Second \div rate) * N

mempoolOOMDelay ==
    (msPerBlock * Millisecond) \div (IF msPerBlock > 1000 THEN 50 ELSE 10)

Total(f) == MapThenSumSet(LAMBDA x : f[x], DOMAIN f)

Init ==
    /\ addr \in Shuffles(rpcAddress)
    /\ inc \in Seeds /\ seed = inc
    /\ now = 0
    /\ rate \in Rates
    /\ done = FALSE
    /\ wpc = [w \in Workers |-> "select"]
    /\ until = [w \in Workers |-> 0]
    /\ localTxCounter = [w \in Workers |-> 0]
    /\ left = DumpSize
    /\ countErr = 0 /\ refusals = 0
    /\ asked = [k \in DOMAIN addr |-> 0]
    /\ crashed = FALSE

\* No call lasts longer than Latency, and Get waits only for an empty queue.
Tick ==
    /\ ~crashed
    /\ now < MaxTime
    /\ \A w \in Workers : wpc[w] = "sent" => now < until[w]
    /\ \A w \in Workers : wpc[w] = "get" => left = 0
    /\ now' = now + 1
    /\ UNCHANGED <<clientVars, rate, done, workerVars, asked, seed, crashed>>

Cancel ==
    /\ ~crashed
    /\ ~done /\ done' = TRUE
    /\ UNCHANGED <<clientVars, now, rate, workerVars, asked, seed, crashed>>

-----------------------------------------------------------------------------
(* A call of either goroutine. *)

Ask ==
    \/ /\ \E n \in Nodes : doRPCCall(n)
       /\ asked' = [asked EXCEPT ![idx + 1] = @ + 1]
       /\ UNCHANGED crashed
    \/ /\ doRPCCallPanics
       /\ crashed' = TRUE
       /\ UNCHANGED asked

ParserCall ==
    /\ ~crashed
    /\ Total(asked) < MaxCalls
    /\ Ask
    /\ UNCHANGED <<now, rate, done, workerVars, seed>>

-----------------------------------------------------------------------------
(* The workers. *)

\* A panic of a goroutine ends the process.
At(w, pc) == ~crashed /\ wpc[w] = pc

Goto(w, to) == wpc' = [wpc EXCEPT ![w] = to]

\* What the steps of a worker between two calls leave alone.
Aside == UNCHANGED <<clientVars, now, rate, done, asked, seed, crashed>>

\* The context is cancelled, the timer has fired, or the queue is empty.
Return(w) ==
    /\ At(w, "select")
    /\ done \/ now >= timeLimit \/ left = 0
    /\ Goto(w, "returned")
    /\ UNCHANGED <<until, localTxCounter, left, countErr, refusals>> /\ Aside

SeeTx(w) ==
    /\ At(w, "select")
    /\ ~done /\ now < timeLimit /\ left > 0
    /\ Goto(w, "get")
    /\ UNCHANGED <<until, localTxCounter, left, countErr, refusals>> /\ Aside

\* Get, which waits for a transaction if it must, and SendTX.
SendTX(w) ==
    /\ At(w, "get")
    /\ left > 0 /\ left' = left - 1
    /\ Ask
    /\ Goto(w, "sent")
    /\ until' = [until EXCEPT ![w] = now + Latency]
    /\ UNCHANGED <<now, rate, done, localTxCounter, countErr, refusals, seed>>

\* Faults: the sleep is reckoned from the answer; it is one threshold short.
AckedFromNow(w) ==
    /\ At(w, "sent")
    /\ localTxCounter' = [localTxCounter EXCEPT ![w] = @ + 1]
    /\ until' = [until EXCEPT ![w] = now + threshold * (localTxCounter[w] + 2)]
    /\ Goto(w, IF threshold > 0 THEN "sleep" ELSE "select")
    /\ UNCHANGED <<left, countErr, refusals>> /\ Aside

AckedShort(w) ==
    /\ At(w, "sent")
    /\ localTxCounter' = [localTxCounter EXCEPT ![w] = @ + 1]
    /\ until' = [until EXCEPT ![w] = threshold * (localTxCounter[w] + 1)]
    /\ Goto(w, IF threshold > 0 THEN "sleep" ELSE "select")
    /\ UNCHANGED <<left, countErr, refusals>> /\ Aside

\* An acknowledgement; a worker that is behind its schedule does not sleep.
Acked(w) ==
    /\ At(w, "sent")
    /\ localTxCounter' = [localTxCounter EXCEPT ![w] = @ + 1]
    /\ until' = [until EXCEPT ![w] = threshold * (localTxCounter[w] + 2)]
    /\ Goto(w, IF threshold > 0 /\ until'[w] > now THEN "sleep" ELSE "select")
    /\ UNCHANGED <<left, countErr, refusals>> /\ Aside

\* Faults: a refused transaction is tried again at once; it is an error too.
OutOfMemoryAtOnce(w) ==
    /\ At(w, "sent")
    /\ left' = left + 1
    /\ refusals' = refusals + 1
    /\ Goto(w, "select")
    /\ UNCHANGED <<until, localTxCounter, countErr>> /\ Aside

OutOfMemoryCounted(w) ==
    /\ At(w, "sent")
    /\ left' = left + 1
    /\ refusals' = refusals + 1
    /\ countErr' = countErr + 1
    /\ until' = [until EXCEPT ![w] = now + mempoolOOMDelay]
    /\ Goto(w, "sleep")
    /\ UNCHANGED localTxCounter /\ Aside

\* The node is out of memory: the transaction is put back.
OutOfMemory(w) ==
    /\ At(w, "sent")
    /\ left' = left + 1
    /\ refusals' = refusals + 1
    /\ until' = [until EXCEPT ![w] = now + mempoolOOMDelay]
    /\ Goto(w, "sleep")
    /\ UNCHANGED <<localTxCounter, countErr>> /\ Aside

\* Any other failure, a timeout among them, counts and delays nothing.
Fails(w) ==
    /\ At(w, "sent")
    /\ countErr' = countErr + 1
    /\ Goto(w, "select")
    /\ UNCHANGED <<until, localTxCounter, left, refusals>> /\ Aside

Wake(w) ==
    /\ At(w, "sleep") /\ now >= until[w]
    /\ Goto(w, "select")
    /\ UNCHANGED <<until, localTxCounter, left, countErr, refusals>> /\ Aside

worker(w) ==
    \/ Return(w) \/ SeeTx(w) \/ SendTX(w)
    \/ Acked(w) \/ OutOfMemory(w) \/ Fails(w) \/ Wake(w)

Next == Tick \/ Cancel \/ ParserCall \/ \E w \in Workers : worker(w)

Spec == Init /\ [][Next]_vars

-----------------------------------------------------------------------------
(* Properties. *)

TypeOK ==
    /\ ClientTypeOK
    /\ now \in 0 .. MaxTime /\ rate \in Rates
    /\ done \in BOOLEAN /\ crashed \in BOOLEAN
    /\ wpc \in [Workers -> {"select", "get", "sent", "sleep", "returned"}]
    /\ until \in [Workers -> Nat]
    /\ localTxCounter \in [Workers -> 0 .. DumpSize]
    /\ left \in 0 .. DumpSize
    /\ countErr \in 0 .. DumpSize /\ refusals \in Nat
    /\ asked \in [DOMAIN addr -> Nat]
    /\ seed \in Seeds

\* "rate limit": apart from the first transaction of every worker, no more have
\* been acknowledged at any time than the rate allows since the start, whatever
\* delays and bursts there were.  Only acknowledged ones are paced: a node that
\* fails every transaction is asked as fast as it answers (worker.go:253-266).
RateKept ==
    rate # 0 /\ Total(localTxCounter) > N
        => Total(localTxCounter) * (Second \div rate) <= now

\* A node without memory is not asked faster than once per delay and worker
\* (worker.go:250).
RefusalsSpaced ==
    refusals * mempoolOOMDelay <= N * (now + mempoolOOMDelay)

Longer(a, b) == IF a >= b THEN a ELSE b

\* After the time limit one more call of each worker may follow, a worker in Get
\* being given a transaction that another was refused, and then one sleep.
LastSleep == timeLimit + N * Latency + Longer(threshold, mempoolOOMDelay)

\* No worker sleeps on for more than a threshold or a delay after the time limit
\* and those calls, but for one: after its first acknowledgement a worker is
\* always sent to sleep until the second threshold, and with many workers and a
\* low rate that alone may lie far beyond the limit (worker.go:264-269).
LeavesInTime ==
    \A w \in Workers : wpc[w] = "sleep" =>
        \/ until[w] <= LastSleep
        \/ localTxCounter[w] = 1 /\ until[w] = 2 * threshold

\* The counter has gone beyond the largest int32.
Wrapped == seed + Total(asked) + (IF crashed THEN 1 ELSE 0) > MaxInt32

\* Until then every address is asked as often as any other, give or take one,
\* whichever goroutines ask (client.go:167).
AddressesBalanced ==
    ~Wrapped => \A j, k \in DOMAIN asked : asked[j] <= asked[k] + 1

\* And a call panics only after that, and only with several addresses.
PanicsOnlyAfterWrap == crashed => Wrapped /\ Len(addr) > 1
=============================================================================
