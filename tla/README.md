# neo-bench in TLA+

neo-bench measures a network of Neo nodes: it generates a dump of signed
transactions, prepares the chain of a private network, sends the dump through
the nodes' RPC, watches the blocks and writes a report. The Go program is under
`src/cmd`. This directory models its concurrent core, checks it with TLC and
proves part of it with TLAPS. `PROJECT.json` lists the runs, the lines every
definition stands for, the hazards, the findings and the theorems.

## 1. Inventory

| Component | State | Operations | Interacts with | Hard part | Correct when |
|---|---|---|---|---|---|
| Sender and request workers (`worker.go` 219-272, 395-426) | `TransactionsQueue`, `countTxs`, `countErr`, a `timer` per worker, `sentOut` | one loop per worker: select, Len, Get, SendTX, Put or count | RPC client, report, parser (`countTxs`, `sentOut`) | any number of workers over one blocking queue, retries, lost answers | no transaction lost or doubled, final totals reported, everybody ends |
| Parser (`worker.go` 290-392) | `parsedBlocks`, `parsedCount`, `hasStarted`, last block and time, `parsed` | poll, fetch block by block, decide about the end | RPC client, report, Sender | nodes that lag or fail, looks at shared counters in two steps | each block of the test once, the report's time is the test's |
| Wait / main (`worker.go` 275-287, `bench/main.go` 176-179) | a wait group, two channels | wait for workers, Sender, Parser; write the report | all goroutines | the wait group is waited for while it is filled | the report written is final |
| Report (`report.go`) | rate, counts, `TPS`, `TPSPool`, `Stats` | `Update*`, `WriteTo` | called by all | values arrive out of order | what is written is what happened |
| RPC client (`client.go`) | shuffled addresses, round robin counter, two HTTP clients | `NewRPCClient`, `SendTX`, `GetBlock`, `GetBlockCount`, `GetLastBlock`, `GetVersion` | nodes | int32 counter that wraps, different nodes per call | every address in turn, no panic before the wrap |
| main before the test (`bench/main.go` 26-174) | the report file, the settings' values | one step after the other, with `log.Fatalf`, return and panic as ways out | all | deferred functions run for two of the three | what a report file holds is explained |
| Preparation (`prepare.go`, `bench/main.go` 149-174) | phase, attempts | send and await each phase; wait for a start block | first node, all nodes | effects awaited through polling, cancellation, lagging nodes | start only on a prepared chain |
| Generator (`gen.go`) | channels of capacity one, collected dump | dispatch, sign, collect | dump file | pipeline of goroutines, interrupt from one of them | the dump is in order, complete, without doubles |
| Dump file (`writer.go`, `reader.go`, `options.go`) | the file | write, read | generator, main | a file cut anywhere | a cut dump is refused |
| Docker statistics (`docker.go`) | list of containers, one decoded answer | poll, callback | report, Docker daemon, context | containers that stop, an error that is no cancellation, the end of the context | averages of real samples |
| Settings (`settings.go`) | flags, environment, defaults | `InitSettings`, viper's look-ups | main | what is checked is not always what is used | no value main cannot use |
| Node configuration generator, scripts, plots | files | - | - | sequential | not modelled |

## 2. Modules

| Module | Models | Kind |
|---|---|---|
| `Reporter` | `report.go`: the values of a report as operators | pure operators |
| `Sending` | Sender, workers, queue | state machine |
| `BlockTally` | what the parser promises | abstract specification |
| `Parsing` | Parser and parse over lagging, failing nodes | state machine, implements `BlockTally` |
| `Bench` | `Sending`, `Parsing`, the nodes' memory pool, `doer.Wait`, main | composition |
| `Generator` | `Generate`, `genTxWorker`, `WriteDump`, `ReadDump` | state machine |
| `RpcClient` | the addresses and the round robin of the RPC client | state machine without a `Next`: others extend it |
| `Startup` | `Prepare`, `fillChain`, `awaitTx`, the choice of the start block, over `RpcClient` | state machine |
| `Settings` | `InitSettings` and what viper answers | pure operators |
| `DockerStats` | `NewStats`, `Update`, `Run`, `UpdateRes` | actions, taken by `Main` |
| `Main` | main up to the start block: `Settings`, `Startup`, `DockerStats` | composition |
| `Pacing` | the worker loop against a clock, over `RpcClient` | state machine |
| `MCParsing`, `MCBench`, `MCGenerator`, `MCMain`, `MCStartup`, `MCPacing` | instances for TLC | - |
| `SendingProofs`, `ParsingProofs`, `BenchProofs`, `GeneratorProofs`, `StartupProofs`, `MainProofs`, `PacingProofs` | theorems about the module of the same name | proofs |
| `ReporterProofs` | lemmas about the sums of `Reporter`, and about quotients and remainders | proofs |

Each module's variables carry the names of the code's variables; the comment of
an action names the statement it stands for, and `PROJECT.json` gives the lines.
Operators introduced as "a fault" are variants of an action that a plausible
mistake would produce. No specification uses them; each of them, put in the
place of the action, makes one of the properties fail.

**Sending.** A worker's steps are cut where another goroutine can come
between: after the select, between `Len()` and `Get()`, around `SendTX`, between
`countTxs.Add` and the report of the rate, before `Put`. `SendTX` has four
outcomes: accepted, refused for memory, refused for another reason, and accepted
without an answer that says so. The sleeps only delay a worker and are not
states. A rate is represented by the count it was computed from.

**Parsing.** Nodes hold a prefix of one chain each. Every call is answered by
any of them, since the round robin is advanced by all goroutines. A block is its
number of transactions, its timestamp is its index, so that a report's time is
read as the blocks it covers. The sending half appears as an environment that
raises `countTxs` and closes `sentOut`. `parse` is cut at every RPC call; the
last parse, after the loop, is the same actions with `final` set.

**Bench.** Instantiates both with shared `countTxs`, `sentOut`, `done`. In place
of the free environment, blocks are made of the transactions the nodes have
accepted and a full pool answers out of memory. `mpc` is main in `Wait`. The
wait group is Go's, not this program's, and modelled by its counter (`Live`,
`GroupDone`): a waiter is released when the counter reaches zero, and panics if it
runs after the counter has been raised again. Nothing moves once main has
returned or panicked. The report that main's deferred function writes on a panic
in `Wait` is not looked at.

**Generator.** Channels of capacity one are sequences of at most one element.
The file is what a reader would decode of it after the process has ended: all of
it after a return, any prefix after an interrupt or a kill, because only the
deferred function flushes. Go's `|`, of which a nonce is made, is the constant
`BitOr`, of which no more is assumed than that `n | 0` is `n`; `MCGenerator` gives
it its value.

**RpcClient.** `inc` is an int32 of width `MaxInt32`, advanced and used by each
call at once, as `atomic.Add` is; `Remainder` is Go's `%`. A shuffle gives any
order of the addresses that are not empty, the seed is any `Int32()`, which is not negative. A call at an index
below zero, or with no address, panics.

**Startup.** A phase is a list of transactions and a list of checks, a check
being the set of transactions whose effect it sees. Setup calls go to the first
address; `GetLastBlock` makes its two calls in the round robin, in two steps, so
that the node that names the block need not be the one that gives it, and either
may lag. The attempts of the phases are one constant (`Attempts`), and the chain
is the fresh one of a private network. An invocation that a node could not carry
out is an answer without a value, not an error: the check of the candidates takes
it for not yet, the check of the votes panics (`VotesPanic`). On a healthy node
`getCandidates` does not fail; the model lets it fail at any time.

**Settings.** A run's settings are two functions, of the flags and of the
environment, from names to values. `InitSettings` looks at `Flag`, the process at
`Used`; the two differ where only the environment sets a name.

**DockerStats.** A sample is not a number but the list of what was added up:
for every container of the list, whose memory the decoded structure then held.
The structure is the round's, and an answer for a stopped container leaves its
memory fields as they are. The context is a parameter of `Run`.

**Main.** `mpc` is the statement main is at, `out` what the report file holds. A
`log.Fatalf` ends the process with every goroutine; a return and a panic run the
deferred function, which writes the report or is cut itself. `TakeStats` is the
statistics goroutine, which runs beside the preparation. A signal is caught once
the settings have been read. `Bench` goes on where `Main` has `stage =
"started"`.

**Pacing.** The clock waits for a call that is due and for a `Get` that
can go on; any other step may be late. All workers begin at the start. The
queue is its length. The parser is an environment that makes calls, as many as
`MaxCalls` allows; `asked` counts the calls to each address.

## 3. Runs

Every passing property has a fault that breaks it (`mutants` in `PROJECT.json`).

| Run | Instance | Shows |
|---|---|---|
| `sending` | 3 workers, 2 transactions, ring of 2 | every transaction in one place (`Conservation`); `Put` never blocks in a ring that is just large enough; a retry is never of an accepted transaction; the counters bracket what the nodes hold; the final totals survive late rate reports; a complete run leaves nothing queued; the Sender ends or a worker starves |
| `sending_hang` | 2 workers, 1 transaction | finding 1: a worker outlives the time limit |
| `parsing` | 2 nodes, chain of up to 4 blocks with 0 or 1 transactions | refinement of `BlockTally`, no block skipped, report equals tally, report's time equals the test's, the parser stops |
| `parsing_stale` | 2 nodes, a block before the start block | finding 2: blocks before the test are counted |
| `bench` | 2 workers, 2 transactions, pool of 1, 1 node, lost answers | the report written is final and claims no more than the nodes took |
| `bench_live` | 2 workers, 1 transaction | the process ends unless a worker starves; finding 3 has one cause only, a sender that goes on between the parser's looks at `countTxs` and at `sentOut` (`SettledReportComplete`) |
| `bench_complete` | 1 worker, 1 transaction | finding 3: an uninterrupted report without an acknowledged transaction |
| `bench_panic` | 2 workers, 1 transaction | finding 4: `WaitGroup` reuse |
| `generator` | 3 workers, 2 requests, 7 transactions | order, distinctness, termination, refusal of cut files |
| `startup` | nine command lines and environments, 1 validator, 1 sender, up to 2 nodes, 2 containers | main panics for four reasons only (a rate of zero from the environment, no address, the counter's wrap, an answer without a stack to the check of the votes); a report without a measurement has one of four causes (the last two of these, no worker, a dump without transactions); samples add up, or are zero; start only when prepared, funds before votes, start block after the setup; main and the statistics come to an end |
| `startup_lag` | 3 nodes, with and without votes | finding 5: the start block may be an old one |
| `requests` | 2 workers, 2 nodes, 5 transactions, rates none, 250, 500 and 1000 | the rate limit is kept over bursts, failures and refusals; a refusing node is spared; nobody outsleeps the time limit by more than one sleep and the calls that follow it, but for the sleep after a worker's first acknowledgement, which lasts until twice the threshold; addresses asked evenly until the counter wraps, and a panic only after that |

**Bounds.** Three workers are enough for one to hold a refused transaction while
two others race for the rest or leave; two transactions let one be retried while
another is sent. Four blocks hold idle blocks before, between and after blocks
with transactions, and two nodes are what a lag needs. A pool of one transaction
makes both the accepting and the refusing node appear; blocks of `Bench` then
hold one transaction, and the one block that fits makes room for a refused one. In `generator` 3 workers,
2 requests and 7 transactions make the turns of workers and requests differ and
the last round incomplete; the nonce's range is 16 with 4 per worker, so that the
workers' ranges would run out as 2^32 and 2^24 do. `MaxHeight`, `SpareBlocks`,
`MaxTxs`, `Polls` and `Attempts` bound the chain, the acknowledgements and the
loops; the last two are the code's own 40 polls and 6 or 30 attempts made small.
`SpareBlocks` is what the chain may have beyond one block per phase. `TimeMod`
stands for 2^64, `MaxInt32` for 2^31 - 1: 5 or 6 is small enough for the counter
to wrap within a run from every seed near it, and large enough for it not to
from the others. `MaxSamples` is one: a second sample starts from the same state
as the first, but for the containers that have stopped since. In `requests` the
threshold is 2, 4 and 8 ticks with two workers, the delay after a refusal and a call
one tick, the time limit 5 and `MaxTime` 8 ticks, so that sleeps reach beyond the
limit; with the longest threshold the first sleep ends at 16, when any other would
have to end at 15. The theorems of section 4 hold without these bounds.

**Deadlock** is not checked: every system here ends, and finding 1 is a state in
which goroutines wait for ever.

**Fairness.** A goroutine that can run is run (weak fairness per worker, Sender,
Parser, main): Go's scheduler is preemptive. An RPC call returns, because
fasthttp has read and write timeouts; `-t 0` disables them and is outside the
models. In `Main` the two goroutines are main and the statistics loop; the
daemon's answers come or fail. A timer fires. `select` with several ready cases picks among them at
random, so a parser that meets `done` or its timeout again and again takes it:
strong fairness of `LeaveLoop`. No block need ever be made, nobody need
interrupt and no transaction need be accepted.

**Findings.** Five runs show a disagreement of code and text.
1. `sending_hang`: `Len()` then blocking `Get()`; the loser of the race for the
   last transaction stays in `Get` beyond the time limit, the Sender and main
   with it. Only a node's refusal of the transaction, which puts it back, would
   release it.
2. `parsing_stale`: a failed `getblockcount` makes the next parse start at 0,
   a lagging node at its smaller count; blocks before the start block are then
   counted, and the first of them has a wrapped `dt`.
3. `bench_complete`: `countTxs` is compared before `sentOut` is looked at.
   `SettledReportComplete` shows that nothing else leads there.
4. `bench_panic`: `Wait` runs while `Sender` still adds workers.
5. `startup_lag`: after the polls only the very same index is refused. With
   three addresses the second `GetLastBlock` asks another node for the number of
   blocks than the first; if it lags, the start block is older than the one seen
   first, and setup transactions may come after it. With one or two addresses
   both ask the same node.

## 4. Proofs

TLAPS proves every safety property of the passing runs of section 3, for every
value of the constants, and three refinements. The assumptions are the `ASSUME`s
of the modules, which TLC evaluates on every run; where a theorem needs more, its
statement says so. Each argument is an invariant: it holds initially, every action
keeps it, and the property follows. The invariants are stated where the proofs
are, and TLC has found them true on the instances of section 3 first.

**`SendingProofs`**: any finite set of workers, any dump, any ring that holds it.

- `Conserved`: `Conservation` is inductive relative to the type invariant. Each
  action moves one transaction between queue, a holder and a counter; the lemma
  `HoldersMove` is the counting step.
- `PutIsFree`: from `Conserved`, since a worker at `Put` is a holder itself.
- `CountersBracket`: the workers between `SendTX` and a counter, by what they have
  still to do, are the difference between the counters and what the nodes took;
  `AtPCMoves` counts them.
- `NeverSentTwice`: the strengthening says that queue places and holders carry
  pairwise different transactions and which of them may be in `taken`.
- `ReportIsSettled` and `NoneLeftBehind`: the invariant adds what the Sender's
  and the workers' ends imply: after `sentOut` all workers are stopped, the
  report holds the totals, and a worker that stopped while nothing was expired or
  cancelled saw an empty queue, so that the last one to hold a transaction left
  none.

**`ParsingProofs`**: any chain, set of nodes and start block.

- `NothingSkipped`: `NoBlockSkipped` with the type invariant is inductive.
- `ParsingImplementsTally`: the refinement mapping takes `parsedBlocks` for
  `counted` and `parsedCount` for `total`; `GetBlock` is `CountBlock`, which
  needs `NoBlockSkipped`, `Persist` is `Grow`, every other action stutters.
- `ReportTallies`: `PoolIsIdle` says that what the reporter holds back has no
  transactions, so a flush adds none (`TotalsOfFlush`).
- `ReportCoversWindow`: while only blocks of the test are counted, `InOrder` says
  that the count has arrived at the block of `lastBlockTime`, and `TimeCovered` up to which block the
  report and the pool together cover the time.
- `TestIsInNewBlocks`: if the chain was empty from the start block on, what is
  counted is at most what new blocks hold. The hypothesis is about the initial
  chain; without it the report rightly counts what is already there.

**`ReporterProofs`**: sums over sequences are defined by a recursive function, and
no induction over data is to be had. The lemmas come from the least length at
which a sum would go wrong (`LeastNat`), which is induction over a set of numbers.
The same is done for sums over finite sets in `PacingProofs` (`SubsetInduction`).

**`BenchProofs`**: the composition.

- `SendingHalf` and `ParsingHalf`: `Bench` implements `Sending` and `Parsing`, so
  that all of the above holds of the composed process. For the second an
  acknowledgement has to be a step of `Parsing`'s environment, which may raise
  `countTxs` to the dump's size and no further: that is the first half's
  `Conservation`. The hypotheses are those of the parts, with `DumpSize` in place
  of `MaxTxs`.
- `WrittenReport`: main is past `sentOut` only when it is closed, and by then
  every worker has stopped.
- `SettledReport`: from the sender's end on, if the parser was not between its two
  looks then, it passes them with every acknowledged transaction counted or is
  told to end (`Settled`, in `ParsingProofs`): `countTxs` no longer grows, and the
  last parse only adds to the count (`CountGrows`). `EndingInv` says that the
  parser's end comes after its last parse.
- `NeverOvercounts`: a block is filled from what nodes accepted and the pool holds
  (`PoolInv`), so `TestIsInNewBlocks` bounds the report. It has that theorem's
  hypothesis, which holds of a fresh chain whose start block is newer than the
  setup (`SetupIsNotCounted`).

**`GeneratorProofs`**: any number of workers, requests and transactions.

- `DumpIsDetermined`: `InTurn` says, for each worker, that the turns dealt to it are
  those it has handed on, the one in its hands and the one in its channel, and that
  each of these is the request of its number; so the collector, who goes round in
  the same order, finds the next one. `TurnsCount` counts turns by a quotient.
- `DumpHasNoDoubles`: with as few workers and transactions as the comment supposes,
  nonce and number of a transaction determine each other (`NonceOfTurn`).
- `CutDumpsAreRefused`: what is in the file is a prefix of the dump, and a reader
  that finds as many transactions as were asked for has the whole of it.

**`StartupProofs`**: any number of validators and senders, any addresses.

- `ChainIsPrepared`, `FundsComeFirst`: no transaction is sent twice, a transaction
  in a block stays there, and the finished phases and the checks that have held are
  on the first node (`SetupInv`).
- `SetupIsNotCounted`: with one or two addresses every second call asks the same
  node, also over the counter's wrap (`EverySecondCall`), so the number of blocks
  and the block come from the prepared node. For three, finding 5 is the
  counterexample.

**`MainProofs`**: any command line, environment and list of containers.

- `MainIsPrepared`, `MainIsFunded`, `MainCountsNoSetup`: the invariants of
  `StartupProofs` are kept by main's own steps and by the statistics.
- `PanicsAreExplained`, `HollowReportsAreExplained`: `PlaceInv` says what main has
  checked by the place it is at, and `Voting` that votes are awaited only under
  `--vote`.
- `SamplesAreSums`: `StatsInv` says whose reading each summand of a round is.

**`PacingProofs`**: any set of workers, rate, times and addresses.

- `TypeCorrect`: its bounds rest on `NoneIsLost`, the conservation of transactions.
- `RateIsKept`: `Paced` says of each worker alone that it is past the time of its
  next transaction or asleep until then; summed up over the workers this is the
  limit for all.
- `RefusalsAreSpaced`: a refusal adds a delay to the time taken (`DelaysTaken`), a
  potential summed over the workers that a waking cannot lower.
- `SleepsEndInTime`: `CallsEnd` bounds the last call by the workers that still wait
  in `Get`, each of which can be given one more transaction. The first
  acknowledgement of a worker is an arm of its own: with many workers and a low
  rate its sleep, until twice the threshold, may lie far beyond the limit.
- `CallsAreSpread`: `RoundRobin` gives the number of calls at an address as the
  difference of two quotients.
- `PanicsNeedTheWrap`: the counter is below zero only after it.

**Only model-checked.** Liveness is outside this prover: `FinishesOrStarves`,
`ParserStops`, `EndsUnlessStarved`, `Terminates`, `GetsSomewhere`, `StatsEnd`. The
five findings are counterexamples of instances and need no proof.

## 5. Not modelled

- Calls that never return (`-t 0`), and the Docker client's connections.
- The report that `main`'s deferred function writes when `Wait` panics (finding 4).
- The node configuration generator (`cmd/config`): one goroutine that expands
  templates with a library and writes a file for each document; an interrupted
  run leaves some of the files old, which the next `make` writes again.
- Signing, script building, the text of the report, scripts, Docker images and
  plots.
- The real time between the steps of `Sending` and `Parsing`: only `Pacing` has
  a clock. The statistics of `DockerStats` after the start block: they go on as
  before, and nothing in `Bench` reads them but the deferred `WriteTo`, under the
  reporter's mutex.
- A private network that is used a second time: its chain already holds the
  effects of the setup, and the checks of the phases then hold at once.

## 6. Plan

All safety properties have a theorem. What could still be proved:

1. the steps that lead to the liveness properties, as invariants: that in a state
   in which no goroutine can move, the process has ended or a worker starves;
2. that finding 2 is the only way to a wrong time or an overcount: a failed or
   lagging `getblockcount` precedes each;
3. that `Main` implements `Startup` up to main's own steps, so that its theorems
   carry over by refinement instead of by their invariants.
