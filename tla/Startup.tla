------------------------------- MODULE Startup -------------------------------
(***************************************************************************)
(* What bench does before the measurement (cmd/internal/prepare.go and     *)
(* cmd/bench/main.go:149-174): it sends the transactions that set the      *)
(* chain up, phase by phase, waits for each phase to take effect, and then *)
(* waits for a new block to start from.                                    *)
(*                                                                         *)
(* The setup phases talk to the first RPC address only; the blocks are     *)
(* asked for in the round robin over all of them (RpcClient), where a node *)
(* may lag behind the one asked before.  The network is fresh: nothing of  *)
(* the setup is on the chain yet.  Any failing call of a phase, and any    *)
(* failing call for a block, ends the process (log.Fatalf).                *)
(***************************************************************************)
EXTENDS RpcClient

CONSTANTS
  Validators,   \* number of validators, whose keys are registered
  Senders,      \* number of transaction senders of the dump
  rpcAddress,   \* the addresses of the command line
  Attempts,     \* failed checks awaitTx tolerates: duration / retryInterval
  Polls,        \* attempts to see a new block
  SpareBlocks   \* bound on the blocks: one per phase and these

ASSUME CountsAssumption == Validators \in Nat \ {0} /\ Senders \in Nat \ {0}
ASSUME AddressAssumption == rpcAddress \in Seq(Nodes)
ASSUME LimitsAssumption == Attempts \in Nat /\ Polls \in Nat \ {0} /\ SpareBlocks \in Nat

(***************************************************************************)
(* The phases: the transactions each sends, in order, and the checks it    *)
(* then awaits, in order, a check being the set of transactions it needs.  *)
(***************************************************************************)
Tx(kind, who) == [kind |-> kind, who |-> who]

registerTxs == [i \in 1 .. Validators |-> Tx("register", i)]
moveTxs == [i \in 1 .. 2 * Senders |->
              Tx(IF i % 2 = 1 THEN "neo" ELSE "gas", (i + 1) \div 2)]
voteTxs == [i \in 1 .. Senders |-> Tx("vote", i)]
deployTxs == <<Tx("deploy", 1)>>

AllOf(txs) == {txs[i] : i \in DOMAIN txs}
EachOf(txs) == [i \in DOMAIN txs |-> {txs[i]}]

registerCandidates == [txs |-> registerTxs, checks |-> <<AllOf(registerTxs)>>]
moveFunds == [txs |-> moveTxs, checks |-> EachOf(moveTxs)]
voteForCandidates == [txs |-> voteTxs, checks |-> <<AllOf(voteTxs)>>]
deployContract == [txs |-> deployTxs, checks |-> <<AllOf(deployTxs)>>]

VARIABLES
  vote,             \* the --vote flag
  \* the network
  last,             \* index of its last block
  block,            \* the block of each setup transaction, 0 while it has none
  pool,             \* setup transactions accepted and not in a block yet
  height,           \* index of the last block of each node
  \* the process
  stage,            \* "send", "await", "fetch", "poll", "started", "dead", "panicked"
  phase,            \* running phase
  next,             \* transaction to send or check to make next
  attempts,         \* failed checks still tolerated
  polls,            \* polls for a new block still allowed
  num,              \* last index a node has named and none has been asked for
  startBlockIndex, blk,
  done              \* the context is cancelled

vars == <<addr, inc, vote, last, block, pool, height, stage, phase, next, attempts,
          polls, num, startBlockIndex, blk, done>>
networkVars == <<last, block, pool, height>>
prepareVars == <<phase, next, attempts>>
startVars == <<polls, num, startBlockIndex, blk>>

\* A fault: the votes are cast before the funds are moved.
votesFirst ==
    IF vote THEN <<registerCandidates, voteForCandidates, moveFunds, deployContract>>
            ELSE <<moveFunds, deployContract>>

fillChain ==
    IF vote THEN <<registerCandidates, moveFunds, voteForCandidates, deployContract>>
            ELSE <<moveFunds, deployContract>>

SetupTxs == UNION {AllOf(fillChain[p].txs) : p \in DOMAIN fillChain}

NoIndex == -1

SetupInit ==
    /\ last = 0
    /\ block = [tx \in SetupTxs |-> 0]
    /\ pool = {}
    /\ height = [n \in Nodes |-> 0]
    /\ stage = "send" /\ phase = 1 /\ next = 1
    /\ attempts = 0
    /\ polls = Polls
    /\ num = NoIndex
    /\ startBlockIndex = 0 /\ blk = 0
    /\ done = FALSE

Init ==
    /\ vote \in BOOLEAN
    /\ SetupInit
    /\ addr \in Shuffles(rpcAddress)
    /\ inc \in Seeds

-----------------------------------------------------------------------------
(* The network and the user. *)

\* A block takes any of the waiting transactions.
NewBlock(txs) ==
    /\ last < Len(fillChain) + SpareBlocks
    /\ last' = last + 1
    /\ block' = [tx \in SetupTxs |-> IF tx \in txs THEN last + 1 ELSE block[tx]]
    /\ pool' = pool \ txs
    /\ UNCHANGED <<clientVars, vote, height, stage, prepareVars, startVars, done>>

\* A node that may be asked gets its next block.
Sync(n) ==
    /\ height[n] < last
    /\ height' = [height EXCEPT ![n] = @ + 1]
    /\ UNCHANGED <<clientVars, vote, last, block, pool, stage, prepareVars, startVars, done>>

Cancel ==
    /\ ~done
    /\ done' = TRUE
    /\ UNCHANGED <<clientVars, vote, networkVars, stage, prepareVars, startVars>>

On(n, tx) == block[tx] # 0 /\ block[tx] <= height[n]

-----------------------------------------------------------------------------
(* Prepare. *)

\* The node of d.cli.addr[0].
First == addr[1]

Die ==
    /\ stage' = "dead"
    /\ UNCHANGED <<clientVars, vote, networkVars, prepareVars, startVars, done>>

\* sendTx looks at the context once, before its first transaction; candidates
\* and votes are sent one by one, with a sendTx each.
LooksAtContext ==
    next = 1 \/ fillChain[phase].txs[next].kind \in {"register", "vote"}

\* The node answers with an error to a transaction whose sender cannot pay.
Needs(tx) == IF tx.kind \in {"vote", "deploy"}
             THEN {t \in SetupTxs : t.who = tx.who /\ t.kind = "gas"}
             ELSE {}

SendNext ==
    /\ stage = "send"
    /\ LooksAtContext => ~done
    /\ LET tx == fillChain[phase].txs[next] IN
         /\ \A t \in Needs(tx) : On(First, t)
         /\ pool' = pool \cup {tx}
    /\ IF next < Len(fillChain[phase].txs)
       THEN /\ next' = next + 1
            /\ UNCHANGED <<stage, attempts>>
       ELSE /\ next' = 1
            /\ stage' = "await"
            /\ attempts' = Attempts
    /\ UNCHANGED <<clientVars, vote, last, block, height, phase, startVars, done>>

\* The context is cancelled, or SendRawTransaction or a call before it fails.
SendFails == stage = "send" /\ Die

\* Faults, to see that the properties notice them: a check's answer is not
\* looked at; the attempts are not limited; only the context ends the waiting.
CheckAssumed ==
    /\ stage = "await" /\ ~done
    /\ IF next < Len(fillChain[phase].checks)
       THEN next' = next + 1 /\ UNCHANGED <<stage, phase>>
       ELSE /\ next' = 1
            /\ IF phase < Len(fillChain)
               THEN phase' = phase + 1 /\ stage' = "send"
               ELSE stage' = "fetch" /\ UNCHANGED phase
    /\ UNCHANGED <<clientVars, vote, networkVars, attempts, startVars, done>>

CheckFailsAnyway ==
    /\ stage = "await" /\ ~done
    /\ attempts' = attempts - 1
    /\ UNCHANGED <<clientVars, vote, networkVars, stage, phase, next, startVars, done>>

AwaitUntilDone == stage = "await" /\ done /\ Die

\* awaitTx: a check holds, and after the last one the next phase begins.
CheckHolds ==
    /\ stage = "await" /\ ~done
    /\ \A tx \in fillChain[phase].checks[next] : On(First, tx)
    /\ IF next < Len(fillChain[phase].checks)
       THEN next' = next + 1 /\ UNCHANGED <<stage, phase>>
       ELSE /\ next' = 1
            /\ IF phase < Len(fillChain)
               THEN phase' = phase + 1 /\ stage' = "send"
               ELSE stage' = "fetch" /\ UNCHANGED phase
    /\ UNCHANGED <<clientVars, vote, networkVars, attempts, startVars, done>>

\* A check does not hold yet, or its call fails; the attempts are shared by
\* all the checks of the phase.
CheckFails ==
    /\ stage = "await" /\ ~done
    /\ attempts > 0
    /\ attempts' = attempts - 1
    /\ UNCHANGED <<clientVars, vote, networkVars, stage, phase, next, startVars, done>>

\* The check of the votes takes the first item of the answer's stack unseen (the
\* one of the candidates looks at its length): the answer of an invocation that
\* has failed, which is no error of the call, panics.
VotesPanic ==
    /\ stage = "await" /\ ~done
    /\ fillChain[phase] = voteForCandidates
    /\ stage' = "panicked"
    /\ UNCHANGED <<clientVars, vote, networkVars, prepareVars, startVars, done>>

AwaitGivesUp ==
    /\ stage = "await"
    /\ done \/ attempts = 0
    /\ Die

-----------------------------------------------------------------------------
(* main: the start block. *)

\* main is about to make one of the two calls of GetLastBlock.
Asks == stage = "fetch" \/ (stage = "poll" /\ polls > 0)

\* GetLastBlock asks one node for the number of blocks, of which the last has
\* the index num, and the next node for that block, which it must have.  The
\* context is ignored.
GetBlockCount ==
    /\ Asks /\ num = NoIndex
    /\ \E n \in Nodes : doRPCCall(n) /\ num' = height[n]
    /\ UNCHANGED <<vote, networkVars, prepareVars, stage, polls, startBlockIndex, blk, done>>

GetBlock ==
    /\ num # NoIndex
    /\ \E n \in Nodes : doRPCCall(n) /\ height[n] >= num
    /\ blk' = num
    /\ num' = NoIndex
    /\ UNCHANGED <<vote, networkVars, prepareVars, done>>

FetchLast ==
    /\ stage = "fetch"
    /\ GetBlock
    /\ startBlockIndex' = num
    /\ stage' = "poll"
    /\ UNCHANGED polls

\* A fault: any block is new enough.
PollTakesAny ==
    /\ stage = "poll"
    /\ GetBlock
    /\ stage' = "started"
    /\ UNCHANGED <<polls, startBlockIndex>>

Poll ==
    /\ stage = "poll"
    /\ GetBlock
    /\ IF num > startBlockIndex
       THEN stage' = "started" /\ UNCHANGED polls
       ELSE polls' = polls - 1 /\ UNCHANGED stage
    /\ UNCHANGED startBlockIndex

\* A call fails, or panics for want of an address to ask.
CallFails == Asks /\ Die

CallPanicked ==
    /\ Asks
    /\ doRPCCallPanics
    /\ stage' = "panicked"
    /\ UNCHANGED <<vote, networkVars, prepareVars, startVars, done>>

\* The polls are used up: the code gives up only on the very same index.
PollsEnd ==
    /\ stage = "poll" /\ polls = 0
    /\ stage' = IF blk = startBlockIndex THEN "dead" ELSE "started"
    /\ UNCHANGED <<clientVars, vote, networkVars, prepareVars, startVars, done>>

-----------------------------------------------------------------------------
Prepare ==
    \/ SendNext \/ SendFails
    \/ CheckHolds \/ CheckFails \/ VotesPanic \/ AwaitGivesUp

Start ==
    \/ GetBlockCount \/ FetchLast \/ Poll
    \/ CallFails \/ CallPanicked \/ PollsEnd

Next ==
    \/ Prepare \/ Start
    \/ \E txs \in SUBSET pool : NewBlock(txs)
    \/ \E n \in Range(addr) : Sync(n)
    \/ Cancel

Spec == Init /\ [][Next]_vars

-----------------------------------------------------------------------------
(* Properties. *)

TypeOK ==
    /\ ClientTypeOK
    /\ vote \in BOOLEAN
    /\ last \in Nat
    /\ block \in [SetupTxs -> 0 .. last]
    /\ pool \subseteq SetupTxs
    /\ height \in [Nodes -> 0 .. last]
    /\ stage \in {"send", "await", "fetch", "poll", "started", "dead", "panicked"}
    /\ phase \in DOMAIN fillChain /\ next \in Nat
    /\ attempts \in 0 .. Attempts /\ polls \in 0 .. Polls
    /\ num \in {NoIndex} \cup 0 .. last
    /\ startBlockIndex \in 0 .. last /\ blk \in 0 .. last
    /\ done \in BOOLEAN

\* The benchmark starts only on a chain whose setup is complete: every setup
\* transaction is in a block, although the phases check balances, candidates
\* and votes rather than transactions (prepare.go:206-262).
StartsPrepared ==
    stage \in {"fetch", "poll", "started"} => \A tx \in SetupTxs : On(First, tx)

\* A node is never asked to take a vote or the contract of an account whose
\* GAS has not arrived: the funds are awaited first (prepare.go:228-255).
NeverUnfunded ==
    stage = "send" => \A t \in Needs(fillChain[phase].txs[next]) : On(First, t)

\* The node that named the index of the last block fetched.
CountedBy(n) == n = addr[((inc - 1) % Len(addr)) + 1]

\* No setup transaction is in the start block or a later one, so none is
\* counted in the benchmark, as long as the round robin of one or two addresses
\* asks the node that was prepared for the number of blocks: the block is newer
\* than the one seen when the setup was complete (main.go:152-170).
StartBlockHasNoSetup ==
    stage = "started" /\ Len(addr) <= 2 /\ CountedBy(First)
        => blk > startBlockIndex /\ \A tx \in SetupTxs : block[tx] < blk

\* "Timeout waiting for a new empty block" (main.go:171) is what ends the
\* process if no newer block came: a benchmark that starts has a newer block.
StartBlockIsNew == stage = "started" => blk > startBlockIndex
=============================================================================
