---------------------------- MODULE StartupProofs ----------------------------
(***************************************************************************)
(* Proofs about Startup, for any number of validators and senders, any     *)
(* addresses, and nodes that lag as far as they like.                      *)
(***************************************************************************)
EXTENDS Startup, SequenceTheorems, FiniteSetTheorems, TLAPS

\* A function on an initial part of the numbers is a sequence.
LEMMA FcnIsSeq ==
  ASSUME NEW S, NEW n \in Nat, NEW s \in [1 .. n -> S]
  PROVE  s \in Seq(S) /\ Len(s) = n
<1>1. s \in Seq(S)
  BY SeqDef
<1> QED
  BY <1>1, LenProperties

-----------------------------------------------------------------------------
(* The phases.  Nothing below needs to know more of them than this: each    *)
(* has transactions and checks, the checks together need all of its        *)
(* transactions, no transaction is sent twice, and what a transaction needs *)
(* is sent in an earlier phase.                                             *)

Steps(s) == Len(s) \in Nat \ {0} /\ DOMAIN s = 1 .. Len(s)

PhaseOK(ph) ==
    /\ Steps(ph.txs) /\ Steps(ph.checks)
    /\ AllOf(ph.txs) = UNION {ph.checks[c] : c \in DOMAIN ph.checks}
    /\ \A k, l \in DOMAIN ph.txs : ph.txs[k] = ph.txs[l] => k = l

\* A phase that awaits all its transactions at once (prepare.go:206-226).
LEMMA OneCheck ==
  ASSUME NEW S, NEW n \in Nat \ {0}, NEW txs \in [1 .. n -> S],
         \A k, l \in 1 .. n : txs[k] = txs[l] => k = l
  PROVE  PhaseOK([txs |-> txs, checks |-> <<AllOf(txs)>>])
<1>1. Steps(txs) /\ DOMAIN txs = 1 .. n
  BY FcnIsSeq DEF Steps
<1> DEFINE checks == <<AllOf(txs)>>
<1>2. Len(checks) = 1 /\ DOMAIN checks = 1 .. 1 /\ checks[1] = AllOf(txs)
  OBVIOUS
<1>3. Steps(checks)
  BY <1>2 DEF Steps
<1>4. AllOf(txs) = UNION {checks[c] : c \in DOMAIN checks}
  BY <1>2
<1> HIDE DEF checks
<1> QED
  BY <1>1, <1>3, <1>4 DEF PhaseOK, checks

\* A phase that awaits its transactions one after the other (prepare.go:228-240).
LEMMA EachCheck ==
  ASSUME NEW S, NEW n \in Nat \ {0}, NEW txs \in [1 .. n -> S],
         \A k, l \in 1 .. n : txs[k] = txs[l] => k = l
  PROVE  PhaseOK([txs |-> txs, checks |-> EachOf(txs)])
<1>1. Steps(txs) /\ DOMAIN txs = 1 .. n
  BY FcnIsSeq DEF Steps
<1> DEFINE checks == EachOf(txs)
<1>2. checks \in [1 .. n -> SUBSET S]
  BY <1>1 DEF EachOf
<1>3. Steps(checks)
  BY <1>2, FcnIsSeq DEF Steps
<1>4. AllOf(txs) = UNION {checks[c] : c \in DOMAIN checks}
  BY <1>1 DEF AllOf, EachOf
<1> HIDE DEF checks
<1> QED
  BY <1>1, <1>3, <1>4 DEF PhaseOK, checks

\* Every transfer moves one asset to one account.
LEMMA MovesDiffer ==
  /\ moveTxs \in [1 .. 2 * Senders -> [kind : {"neo", "gas"}, who : Nat]]
  /\ \A k, l \in 1 .. 2 * Senders : moveTxs[k] = moveTxs[l] => k = l
<1>1. Senders \in Nat
  BY CountsAssumption
<1>2. \A k \in 1 .. 2 * Senders :
         /\ moveTxs[k] = [kind |-> IF k % 2 = 1 THEN "neo" ELSE "gas",
                          who |-> (k + 1) \div 2]
         /\ (k + 1) \div 2 \in Nat
  BY <1>1 DEF moveTxs, Tx
<1>3. moveTxs \in [1 .. 2 * Senders -> [kind : {"neo", "gas"}, who : Nat]]
  BY <1>1, <1>2 DEF moveTxs, Tx
<1>4. ASSUME NEW k \in 1 .. 2 * Senders, NEW l \in 1 .. 2 * Senders,
             moveTxs[k] = moveTxs[l]
      PROVE  k = l
  <2>1. (k % 2 = 1 <=> l % 2 = 1) /\ (k + 1) \div 2 = (l + 1) \div 2
    <3>1. ASSUME NEW j \in 1 .. 2 * Senders
          PROVE  /\ moveTxs[j].kind = IF j % 2 = 1 THEN "neo" ELSE "gas"
                 /\ moveTxs[j].who = (j + 1) \div 2
      <4> DEFINE kind == IF j % 2 = 1 THEN "neo" ELSE "gas"
                 who == (j + 1) \div 2
      <4>1. moveTxs[j] = [kind |-> kind, who |-> who]
        BY DEF moveTxs, Tx
      <4> HIDE DEF kind, who
      <4>2. moveTxs[j].kind = kind /\ moveTxs[j].who = who
        BY <4>1
      <4> QED
        BY <4>2 DEF kind, who
    <3>2. (k % 2 = 1 <=> l % 2 = 1)
      BY <1>4, <3>1, Zenon
    <3>3. (k + 1) \div 2 = (l + 1) \div 2
      BY <1>4, <3>1
    <3> QED
      BY <3>2, <3>3
  <2> QED
    BY <1>1, <2>1
<1> QED
  BY <1>3, <1>4

\* The four phases are sound, and each has transactions of its own kinds.
LEMMA Phases ==
  /\ PhaseOK(registerCandidates)
  /\ PhaseOK(moveFunds)
  /\ PhaseOK(voteForCandidates)
  /\ PhaseOK(deployContract)
  /\ \A tx \in AllOf(registerTxs) : tx.kind = "register"
  /\ \A tx \in AllOf(moveTxs) : tx.kind \in {"neo", "gas"}
  /\ \A tx \in AllOf(voteTxs) : tx.kind = "vote"
  /\ \A tx \in AllOf(deployTxs) : tx.kind = "deploy"
<1>0. Validators \in Nat \ {0} /\ Senders \in Nat \ {0} /\ 2 * Senders \in Nat \ {0}
  BY CountsAssumption
<1> DEFINE Kind(k) == [kind : {k}, who : Nat]
<1>1. PhaseOK(registerCandidates) /\ \A tx \in AllOf(registerTxs) : tx.kind = "register"
  <2>1. registerTxs \in [1 .. Validators -> Kind("register")]
    BY DEF registerTxs, Tx
  <2>2. \A k, l \in 1 .. Validators : registerTxs[k] = registerTxs[l] => k = l
    BY DEF registerTxs, Tx
  <2>3. PhaseOK(registerCandidates)
    BY <1>0, <2>1, <2>2, OneCheck DEF registerCandidates
  <2> QED
    BY <2>1, <2>3 DEF AllOf
<1>2. PhaseOK(voteForCandidates) /\ \A tx \in AllOf(voteTxs) : tx.kind = "vote"
  <2>1. voteTxs \in [1 .. Senders -> Kind("vote")]
    BY DEF voteTxs, Tx
  <2>2. \A k, l \in 1 .. Senders : voteTxs[k] = voteTxs[l] => k = l
    BY DEF voteTxs, Tx
  <2>3. PhaseOK(voteForCandidates)
    BY <1>0, <2>1, <2>2, OneCheck DEF voteForCandidates
  <2> QED
    BY <2>1, <2>3 DEF AllOf
<1>3. PhaseOK(deployContract) /\ \A tx \in AllOf(deployTxs) : tx.kind = "deploy"
  <2>1. deployTxs \in [1 .. 1 -> Kind("deploy")]
    BY DEF deployTxs, Tx
  <2>2. \A k, l \in 1 .. 1 : deployTxs[k] = deployTxs[l] => k = l
    OBVIOUS
  <2>3. PhaseOK(deployContract)
    <3>1. 1 \in Nat \ {0}
      OBVIOUS
    <3> HIDE DEF Kind
    <3> QED
      BY <2>1, <2>2, <3>1, OneCheck DEF deployContract
  <2> QED
    BY <2>1, <2>3 DEF AllOf
<1>4. PhaseOK(moveFunds)
  BY <1>0, MovesDiffer, EachCheck DEF moveFunds
<1>5. \A tx \in AllOf(moveTxs) : tx.kind \in {"neo", "gas"}
  BY MovesDiffer DEF AllOf
<1> QED
  BY <1>1, <1>2, <1>3, <1>4, <1>5

\* The phases of a run, with or without votes.
LEMMA ChainOfPhases ==
  ASSUME vote \in BOOLEAN
  PROVE  /\ Steps(fillChain)
         /\ \A p \in DOMAIN fillChain : PhaseOK(fillChain[p])
         /\ \A p, q \in DOMAIN fillChain :
               AllOf(fillChain[p].txs) \cap AllOf(fillChain[q].txs) # {} => p = q
         /\ \A p \in DOMAIN fillChain : \A tx \in AllOf(fillChain[p].txs) :
               \A t \in Needs(tx) : \E q \in DOMAIN fillChain :
                  q < p /\ t \in AllOf(fillChain[q].txs)
<1> DEFINE reg == registerCandidates
           move == moveFunds
           vot == voteForCandidates
           dep == deployContract
           chain == fillChain
<1>1. /\ reg.txs = registerTxs /\ move.txs = moveTxs
      /\ vot.txs = voteTxs /\ dep.txs = deployTxs
  BY DEF registerCandidates, moveFunds, voteForCandidates, deployContract
<1>2. /\ PhaseOK(reg) /\ PhaseOK(move) /\ PhaseOK(vot) /\ PhaseOK(dep)
      /\ \A tx \in AllOf(reg.txs) : tx.kind = "register"
      /\ \A tx \in AllOf(move.txs) : tx.kind \in {"neo", "gas"}
      /\ \A tx \in AllOf(vot.txs) : tx.kind = "vote"
      /\ \A tx \in AllOf(dep.txs) : tx.kind = "deploy"
  BY <1>1, Phases
<1>3. \A tx : \A t \in Needs(tx) : tx.kind \in {"vote", "deploy"} /\ t.kind = "gas"
                                   /\ t \in SetupTxs
  BY DEF Needs
<1> HIDE DEF reg, move, vot, dep
<1>4. CASE vote
  <2>1. chain = <<reg, move, vot, dep>>
    BY <1>4 DEF fillChain, reg, move, vot, dep
  <2>2. DOMAIN chain = 1 .. 4 /\ Len(chain) = 4 /\ chain[1] = reg /\ chain[2] = move
        /\ chain[3] = vot /\ chain[4] = dep
    BY <2>1
  <2>3. \A t \in SetupTxs : t.kind = "gas" => t \in AllOf(chain[2].txs)
    <3>1. SetupTxs = UNION {AllOf(chain[p].txs) : p \in 1 .. 4}
      BY <2>2 DEF SetupTxs
    <3> HIDE DEF chain
    <3>2. \A p \in 1 .. 4 : p = 1 \/ p = 2 \/ p = 3 \/ p = 4
      OBVIOUS
    <3> QED
      BY <1>2, <2>2, <3>1, <3>2
  <2> HIDE DEF chain
  <2>4. \A p \in 1 .. 4 : p = 1 \/ p = 2 \/ p = 3 \/ p = 4
    OBVIOUS
  <2>5. Steps(chain) /\ \A p \in DOMAIN chain : PhaseOK(chain[p])
    BY <1>2, <2>2, <2>4 DEF Steps
  <2>6. \A p, q \in DOMAIN chain :
           AllOf(chain[p].txs) \cap AllOf(chain[q].txs) # {} => p = q
    BY <1>2, <2>2, <2>4
  <2>7. ASSUME NEW p \in DOMAIN chain, NEW tx \in AllOf(chain[p].txs), NEW s \in Needs(tx)
        PROVE  \E q \in DOMAIN chain : q < p /\ s \in AllOf(chain[q].txs)
    <3>1. tx.kind \in {"vote", "deploy"} /\ s \in AllOf(chain[2].txs)
      BY <1>3, <2>3
    <3>2. p > 2
      BY <1>2, <2>2, <2>4, <3>1
    <3> QED
      BY <2>2, <3>1, <3>2
  <2> QED
    BY <2>5, <2>6, <2>7 DEF chain
<1>5. CASE ~vote
  <2>1. chain = <<move, dep>>
    BY <1>5 DEF fillChain, move, dep
  <2>2. DOMAIN chain = 1 .. 2 /\ Len(chain) = 2 /\ chain[1] = move /\ chain[2] = dep
    BY <2>1
  <2>3. \A t \in SetupTxs : t.kind = "gas" => t \in AllOf(chain[1].txs)
    <3>1. SetupTxs = UNION {AllOf(chain[p].txs) : p \in 1 .. 2}
      BY <2>2 DEF SetupTxs
    <3> HIDE DEF chain
    <3>2. \A p \in 1 .. 2 : p = 1 \/ p = 2
      OBVIOUS
    <3> QED
      BY <1>2, <2>2, <3>1, <3>2
  <2> HIDE DEF chain
  <2>4. \A p \in 1 .. 2 : p = 1 \/ p = 2
    OBVIOUS
  <2>5. Steps(chain) /\ \A p \in DOMAIN chain : PhaseOK(chain[p])
    BY <1>2, <2>2, <2>4 DEF Steps
  <2>6. \A p, q \in DOMAIN chain :
           AllOf(chain[p].txs) \cap AllOf(chain[q].txs) # {} => p = q
    BY <1>2, <2>2, <2>4
  <2>7. ASSUME NEW p \in DOMAIN chain, NEW tx \in AllOf(chain[p].txs), NEW s \in Needs(tx)
        PROVE  \E q \in DOMAIN chain : q < p /\ s \in AllOf(chain[q].txs)
    <3>1. tx.kind \in {"vote", "deploy"} /\ s \in AllOf(chain[1].txs)
      BY <1>3, <2>3
    <3>2. p > 1
      BY <1>2, <2>2, <2>4, <3>1
    <3> QED
      BY <2>2, <3>1, <3>2
  <2> QED
    BY <2>5, <2>6, <2>7 DEF chain
<1> QED
  BY <1>4, <1>5

\* The votes are a phase of a run with votes only.
LEMMA VotesAreVoted ==
  ASSUME vote \in BOOLEAN, phase \in DOMAIN fillChain, fillChain[phase] = voteForCandidates
  PROVE  vote
<1> SUFFICES ASSUME ~vote PROVE FALSE
  OBVIOUS
<1>1. PICK tx \in AllOf(voteTxs) : TRUE
  <2>1. 1 \in DOMAIN voteTxs
    BY CountsAssumption DEF voteTxs
  <2> QED
    BY <2>1 DEF AllOf
<1>2. tx.kind = "vote"
  BY Phases
<1>3. fillChain[phase] = moveFunds \/ fillChain[phase] = deployContract
  BY DEF fillChain
<1>4. CASE fillChain[phase] = moveFunds
  <2>1. moveTxs = voteTxs
    BY <1>4 DEF moveFunds, voteForCandidates
  <2> QED
    BY <1>2, <2>1, Phases
<1>5. CASE fillChain[phase] = deployContract
  <2>1. deployTxs = voteTxs
    BY <1>5 DEF deployContract, voteForCandidates
  <2> QED
    BY <1>2, <2>1, Phases
<1> QED
  BY <1>3, <1>4, <1>5

\* The phases stay what they are: the setting does not change.
LEMMA SamePhases ==
  ASSUME vote' = vote
  PROVE  fillChain' = fillChain /\ SetupTxs' = SetupTxs
  BY DEF fillChain, SetupTxs, registerCandidates, moveFunds, voteForCandidates,
         deployContract, registerTxs, moveTxs, voteTxs, deployTxs, AllOf, EachOf, Tx

-----------------------------------------------------------------------------
(* Types.  What is sent or awaited next is one of the running phase, and a  *)
(* node is asked for a block only by a poll that is left.                   *)

InPhase ==
    /\ stage = "send" => next \in DOMAIN fillChain[phase].txs
    /\ stage = "await" => next \in DOMAIN fillChain[phase].checks
    /\ stage = "poll" /\ num # NoIndex => polls > 0

TypeInv == TypeOK /\ InPhase

(***************************************************************************)
(* The setup.  What is still to be sent is neither waiting nor in a block;  *)
(* what waits is in no block yet, so that a block, once it has a            *)
(* transaction, keeps it.  The finished phases, and the checks that have    *)
(* held, are on the first node.                                             *)
(***************************************************************************)
ToSend(p, k) == p > phase \/ (p = phase /\ stage = "send" /\ k >= next)

NothingSentTwice ==
    \A p \in DOMAIN fillChain : \A k \in DOMAIN fillChain[p].txs :
        ToSend(p, k) =>
            /\ fillChain[p].txs[k] \notin pool
            /\ block[fillChain[p].txs[k]] = 0

WaitingIsNew == \A tx \in pool : block[tx] = 0

PhasesDone ==
    \A p \in DOMAIN fillChain : p < phase =>
        \A tx \in AllOf(fillChain[p].txs) : On(First, tx)

ChecksHeld ==
    stage = "await" =>
        \A c \in DOMAIN fillChain[phase].checks : c < next =>
            \A tx \in fillChain[phase].checks[c] : On(First, tx)

SetupInv ==
    NothingSentTwice /\ WaitingIsNew /\ PhasesDone /\ ChecksHeld /\ StartsPrepared

\* The setup before its first transaction, whether the context is cancelled or not.
SetupStart ==
    /\ last = 0
    /\ block = [tx \in SetupTxs |-> 0]
    /\ pool = {}
    /\ height = [n \in Nodes |-> 0]
    /\ stage = "send" /\ phase = 1 /\ next = 1
    /\ attempts = 0
    /\ polls = Polls
    /\ num = NoIndex
    /\ startBlockIndex = 0 /\ blk = 0
    /\ done \in BOOLEAN

-----------------------------------------------------------------------------
\* The variables have their types before the first transaction.
LEMMA StartType == SetupStart /\ vote \in BOOLEAN /\ ClientTypeOK => TypeInv /\ SetupInv
<1> SUFFICES ASSUME SetupStart, vote \in BOOLEAN, ClientTypeOK
             PROVE  TypeInv /\ SetupInv
  OBVIOUS
<1>1. /\ Steps(fillChain) /\ 1 \in DOMAIN fillChain /\ Steps(fillChain[1].txs)
      /\ DOMAIN fillChain \subseteq Nat
  BY ChainOfPhases DEF Steps, PhaseOK
<1>2. 1 \in DOMAIN fillChain[1].txs
  BY <1>1 DEF Steps
<1>3. TypeInv
  <2>1. Attempts \in Nat /\ Polls \in Nat
    BY LimitsAssumption
  <2> QED
    BY <1>1, <1>2, <2>1 DEF SetupStart, TypeInv, TypeOK, InPhase, NoIndex
<1>4. \A p \in DOMAIN fillChain : \A k \in DOMAIN fillChain[p].txs :
         fillChain[p].txs[k] \in SetupTxs
  BY DEF SetupTxs, AllOf
<1>5. SetupInv
  <2>1. NothingSentTwice
    BY <1>4 DEF SetupStart, NothingSentTwice
  <2>2. WaitingIsNew
    BY DEF SetupStart, WaitingIsNew
  <2>3. PhasesDone
    <3>1. \A p \in DOMAIN fillChain : ~(p < 1)
      BY <1>1 DEF Steps
    <3> QED
      BY <3>1 DEF SetupStart, PhasesDone
  <2>4. ChecksHeld /\ StartsPrepared
    BY DEF SetupStart, ChecksHeld, StartsPrepared
  <2> QED
    BY <2>1, <2>2, <2>3, <2>4 DEF SetupInv
<1> QED
  BY <1>3, <1>5

\* The client's addresses are those that are not empty (client.go:50-66).
LEMMA ShuffleType ==
  ASSUME NEW S, NEW s \in Seq(S), NEW t \in Shuffles(s)
  PROVE  t \in Seq(S \ {NoAddress}) /\ (t = <<>> => \A i \in DOMAIN s : s[i] = NoAddress)
<1> DEFINE used == {i \in DOMAIN s : s[i] # NoAddress}
           n == Cardinality(used)
<1>1. DOMAIN s = 1 .. Len(s) /\ Len(s) \in Nat /\ \A i \in DOMAIN s : s[i] \in S
  BY LenProperties, ElementOfSeq
<1>2. IsFiniteSet(used)
  <2>1. IsFiniteSet(1 .. Len(s)) /\ used \in SUBSET (1 .. Len(s))
    BY <1>1, FS_Interval
  <2> HIDE DEF used
  <2> QED
    BY <2>1, FS_Subset
<1>3. PICK p \in Bijection(1 .. n, used) : t = [i \in DOMAIN p |-> s[p[i]]]
  BY DEF Shuffles
<1>4. \A i \in used : s[i] \in S \ {NoAddress}
  BY <1>1
<1>5. (n = 0 => used = {}) /\ n \in Nat
  <2> HIDE DEF used
  <2> QED
    BY <1>2, FS_CardinalityType, FS_EmptySet
<1> HIDE DEF used, n
<1>6. p \in [1 .. n -> used]
  BY DEF Bijection, Injection
<1>7. t \in [1 .. n -> S \ {NoAddress}]
  BY <1>3, <1>4, <1>6
<1>8. t \in Seq(S \ {NoAddress}) /\ Len(t) = n
  BY <1>5, <1>7, FcnIsSeq
<1>9. ASSUME t = <<>> PROVE \A i \in DOMAIN s : s[i] = NoAddress
  <2>1. Len(t) = 0
    BY <1>9
  <2> QED
    BY <1>5, <1>8, <2>1 DEF used
<1> QED
  BY <1>8, <1>9

\* Initially everything is typed and nothing is set up.
LEMMA InitInv == Init => TypeInv /\ SetupInv
<1> SUFFICES ASSUME Init PROVE TypeInv /\ SetupInv
  OBVIOUS
<1>1. addr \in Seq(Nodes)
  <2>1. addr \in Seq(Nodes \ {NoAddress})
    BY AddressAssumption, ShuffleType DEF Init
  <2> QED
    BY <2>1, SeqDef
<1>2. inc \in -(MaxInt32 + 1) .. MaxInt32
  BY MaxInt32Assumption DEF Init, Seeds
<1>3. SetupStart /\ vote \in BOOLEAN
  BY DEF Init, SetupInit, SetupStart
<1> QED
  BY <1>1, <1>2, <1>3, StartType DEF ClientTypeOK

\* A call advances the counter, which wraps, and leaves the addresses alone.
LEMMA CallType ==
  ASSUME ClientTypeOK, doRPCCallPanics \/ \E n \in Nodes : doRPCCall(n)
  PROVE  ClientTypeOK' /\ addr' = addr
  BY MaxInt32Assumption DEF ClientTypeOK, doRPCCall, doRPCCallPanics, AddOne

\* What a step of the preparation changes keeps its type.
LEMMA PrepareType == TypeInv /\ Prepare => TypeInv'
<1> SUFFICES ASSUME TypeInv, Prepare PROVE TypeInv'
  OBVIOUS
<1>1. vote' = vote
  BY DEF Prepare, SendNext, SendFails, CheckHolds, CheckFails, VotesPanic, AwaitGivesUp, Die
<1>2. fillChain' = fillChain /\ SetupTxs' = SetupTxs
  BY <1>1, SamePhases
<1>3. /\ Steps(fillChain) /\ phase \in DOMAIN fillChain
      /\ \A p \in DOMAIN fillChain : Steps(fillChain[p].txs) /\ Steps(fillChain[p].checks)
  BY ChainOfPhases DEF TypeInv, TypeOK, PhaseOK
<1> USE DEF TypeInv, TypeOK, InPhase, ClientTypeOK
<1>4. CASE SendNext
  <2>1. next \in DOMAIN fillChain[phase].txs /\ stage = "send"
    BY <1>4 DEF SendNext
  <2>2. fillChain[phase].txs[next] \in SetupTxs
    BY <1>3, <2>1 DEF SetupTxs, AllOf
  <2>3. pool' \subseteq SetupTxs /\ UNCHANGED <<clientVars, vote, last, block, height,
                                                phase, startVars, done>>
    BY <1>4, <2>2 DEF SendNext
  <2>4. CASE next < Len(fillChain[phase].txs)
    <3>1. next' = next + 1 /\ stage' = stage /\ attempts' = attempts
      BY <1>4, <2>4 DEF SendNext
    <3>2. next' \in DOMAIN fillChain[phase].txs /\ next' \in Nat
      BY <1>3, <2>1, <2>4, <3>1 DEF Steps
    <3> QED
      BY <1>2, <2>1, <2>3, <3>1, <3>2 DEF clientVars, startVars
  <2>5. CASE ~(next < Len(fillChain[phase].txs))
    <3>1. next' = 1 /\ stage' = "await" /\ attempts' = Attempts
      BY <1>4, <2>5 DEF SendNext
    <3>2. 1 \in DOMAIN fillChain[phase].checks
      BY <1>3 DEF Steps
    <3>3. Attempts \in 0 .. Attempts
      BY LimitsAssumption
    <3> QED
      BY <1>2, <2>3, <3>1, <3>2, <3>3 DEF clientVars, startVars
  <2> QED
    BY <2>4, <2>5
<1>5. CASE CheckHolds
  <2>1. next \in DOMAIN fillChain[phase].checks /\ stage = "await"
    BY <1>5 DEF CheckHolds
  <2>2. UNCHANGED <<clientVars, vote, networkVars, attempts, startVars, done>>
    BY <1>5 DEF CheckHolds
  <2>3. CASE next < Len(fillChain[phase].checks)
    <3>1. next' = next + 1 /\ stage' = stage /\ phase' = phase
      BY <1>5, <2>3 DEF CheckHolds
    <3>2. next' \in DOMAIN fillChain[phase].checks /\ next' \in Nat
      BY <1>3, <2>1, <2>3, <3>1 DEF Steps
    <3> QED
      BY <1>2, <2>1, <2>2, <3>1, <3>2 DEF clientVars, networkVars, startVars
  <2>4. CASE ~(next < Len(fillChain[phase].checks)) /\ phase < Len(fillChain)
    <3>1. next' = 1 /\ stage' = "send" /\ phase' = phase + 1
      BY <1>5, <2>4 DEF CheckHolds
    <3>2. phase' \in DOMAIN fillChain
      BY <1>3, <2>4, <3>1 DEF Steps
    <3>3. 1 \in DOMAIN fillChain[phase'].txs
      BY <1>3, <3>2 DEF Steps
    <3> QED
      BY <1>2, <2>2, <3>1, <3>2, <3>3 DEF clientVars, networkVars, startVars
  <2>5. CASE ~(next < Len(fillChain[phase].checks)) /\ ~(phase < Len(fillChain))
    <3>1. next' = 1 /\ stage' = "fetch" /\ phase' = phase
      BY <1>5, <2>5 DEF CheckHolds
    <3> QED
      BY <1>2, <2>2, <3>1 DEF clientVars, networkVars, startVars
  <2> QED
    BY <2>3, <2>4, <2>5
<1>6. CASE CheckFails
  <2>1. attempts' \in 0 .. Attempts
    BY <1>6, LimitsAssumption DEF CheckFails
  <2> QED
    BY <1>2, <1>6, <2>1 DEF CheckFails, clientVars, networkVars, startVars
<1>7. CASE SendFails \/ VotesPanic \/ AwaitGivesUp
  BY <1>2, <1>7 DEF SendFails, VotesPanic, AwaitGivesUp, Die, clientVars, networkVars,
                    prepareVars, startVars
<1> QED
  BY <1>4, <1>5, <1>6, <1>7 DEF Prepare

\* What a step of the search for the start block changes keeps its type.
LEMMA StartStepType == TypeInv /\ Start => TypeInv'
<1> SUFFICES ASSUME TypeInv, Start PROVE TypeInv'
  OBVIOUS
<1>1. UNCHANGED <<vote, networkVars, prepareVars, done>>
  BY DEF Start, GetBlockCount, FetchLast, Poll, GetBlock, CallFails, CallPanicked,
         PollsEnd, Die
<1>2. fillChain' = fillChain /\ SetupTxs' = SetupTxs
  BY <1>1, SamePhases
<1>3. ClientTypeOK'
  <2>1. CASE UNCHANGED clientVars
    BY <2>1 DEF TypeInv, TypeOK, ClientTypeOK, clientVars
  <2>2. CASE doRPCCallPanics \/ \E n \in Nodes : doRPCCall(n)
    BY <2>2, CallType DEF TypeInv, TypeOK
  <2> QED
    BY <2>1, <2>2 DEF Start, GetBlockCount, FetchLast, Poll, GetBlock, CallFails,
                      CallPanicked, PollsEnd, Die
<1>4. /\ polls' \in 0 .. Polls
      /\ num' \in {NoIndex} \cup 0 .. last
      /\ startBlockIndex' \in 0 .. last /\ blk' \in 0 .. last
      /\ stage' \in {"fetch", "poll", "started", "dead", "panicked"}
      /\ stage' = "poll" /\ num' # NoIndex => polls' > 0
  <2> USE DEF TypeInv, TypeOK, InPhase
  <2>1. CASE GetBlockCount
    BY <2>1 DEF GetBlockCount, Asks
  <2>2. CASE FetchLast
    BY <2>2 DEF FetchLast, GetBlock
  <2>3. CASE Poll
    <3>1. num \in 0 .. last /\ polls > 0 /\ stage = "poll"
      BY <2>3 DEF Poll, GetBlock
    <3> QED
      BY <2>3, <3>1, LimitsAssumption DEF Poll, GetBlock
  <2>4. CASE CallFails \/ CallPanicked \/ PollsEnd
    BY <2>4 DEF CallFails, CallPanicked, PollsEnd, Die, startVars
  <2> QED
    BY <2>1, <2>2, <2>3, <2>4 DEF Start
<1>5. TypeOK'
  BY <1>1, <1>2, <1>3, <1>4 DEF TypeInv, TypeOK, networkVars, prepareVars
<1> QED
  BY <1>4, <1>5 DEF TypeInv, InPhase

\* The network grows, and the user may cancel.
LEMMA NetworkType ==
  ASSUME TypeInv, \/ \E txs \in SUBSET pool : NewBlock(txs)
                  \/ \E n \in Range(addr) : Sync(n)
                  \/ Cancel
  PROVE  TypeInv'
<1>1. UNCHANGED <<clientVars, vote, stage, prepareVars, startVars>>
  BY DEF NewBlock, Sync, Cancel
<1>2. fillChain' = fillChain /\ SetupTxs' = SetupTxs
  BY <1>1, SamePhases
<1>3. /\ last' \in Nat /\ last <= last'
      /\ block' \in [SetupTxs -> 0 .. last']
      /\ pool' \subseteq SetupTxs
      /\ height' \in [Nodes -> 0 .. last']
      /\ done' \in BOOLEAN
  <2> USE DEF TypeInv, TypeOK
  <2>1. ASSUME NEW txs \in SUBSET pool, NewBlock(txs)
        PROVE  /\ last' = last + 1
               /\ block' \in [SetupTxs -> 0 .. last + 1]
               /\ pool' \subseteq SetupTxs
               /\ height' = height /\ done' = done
    BY <2>1 DEF NewBlock
  <2>2. ASSUME NEW n \in Range(addr), Sync(n)
        PROVE  /\ last' = last /\ block' = block /\ pool' = pool /\ done' = done
               /\ height' \in [Nodes -> 0 .. last]
    <3>1. n \in Nodes
      BY ElementOfSeq, LenProperties DEF Range, ClientTypeOK
    <3> QED
      BY <2>2, <3>1 DEF Sync
  <2>3. CASE Cancel
    BY <2>3 DEF Cancel, networkVars
  <2>4. 0 .. last \subseteq 0 .. last + 1
    OBVIOUS
  <2>5. height \in [Nodes -> 0 .. last + 1]
    BY <2>4
  <2> QED
    BY <2>1, <2>2, <2>3, <2>5
<1>4. TypeOK'
  BY <1>1, <1>2, <1>3 DEF TypeInv, TypeOK, ClientTypeOK, clientVars, prepareVars, startVars
<1> QED
  BY <1>1, <1>2, <1>4 DEF TypeInv, InPhase, prepareVars, startVars

\* Every step keeps the types.
LEMMA NextType == TypeInv /\ [Next]_vars => TypeInv'
<1>1. TypeInv /\ UNCHANGED vars => TypeInv'
  <2> SUFFICES ASSUME TypeInv, UNCHANGED vars PROVE TypeInv'
    OBVIOUS
  <2>1. fillChain' = fillChain /\ SetupTxs' = SetupTxs
    BY SamePhases DEF vars
  <2> QED
    BY <2>1 DEF vars, TypeInv, TypeOK, ClientTypeOK, InPhase
<1> QED
  BY <1>1, PrepareType, StartStepType, NetworkType DEF Next

\* The variables of the setup keep their types (prepare.go:20-262, main.go:149-174).
THEOREM TypeCorrect == Spec => []TypeOK
<1>1. Spec => []TypeInv
  BY InitInv, NextType, PTL DEF Spec
<1>2. TypeInv => TypeOK
  BY DEF TypeInv
<1> QED
  BY <1>1, <1>2, PTL

-----------------------------------------------------------------------------
\* The addresses stay in the order the client has put them in, and so does the
\* first of them, which the setup talks to.
LEMMA SameFirst ==
  ASSUME Next
  PROVE  addr' = addr /\ vote' = vote /\ First' = First
<1>1. addr' = addr /\ vote' = vote
  BY DEF Next, Prepare, SendNext, SendFails, CheckHolds, CheckFails, VotesPanic,
         AwaitGivesUp, Start, GetBlockCount, FetchLast, Poll, GetBlock, CallFails, CallPanicked,
         PollsEnd, Die, NewBlock, Sync, Cancel, doRPCCall, doRPCCallPanics, clientVars
<1> QED
  BY <1>1 DEF First

\* The network has what it has: only a new block and a node that catches up
\* change it.
LEMMA NetworkChanges ==
  ASSUME Next
  PROVE  \/ UNCHANGED <<last, block, height>>
         \/ \E txs \in SUBSET pool : NewBlock(txs)
         \/ \E n \in Range(addr) : Sync(n)
  BY DEF Next, Prepare, SendNext, SendFails, CheckHolds, CheckFails, VotesPanic,
         AwaitGivesUp, Start, GetBlockCount, FetchLast, Poll, GetBlock, CallFails, CallPanicked,
         PollsEnd, Die, Cancel, networkVars

\* A block keeps a transaction and a node keeps a block.
LEMMA OnStays ==
  ASSUME TypeInv, WaitingIsNew, Next, NEW tx \in SetupTxs, On(First, tx)
  PROVE  On(First, tx)'
<1>1. addr' = addr /\ First' = First
  BY SameFirst
<1>2. block[tx] # 0 /\ block[tx] <= height[First] /\ tx \notin pool /\ block[tx] \in Nat
  BY DEF On, WaitingIsNew, TypeInv, TypeOK
<1>3. CASE UNCHANGED <<block, height>>
  BY <1>1, <1>2, <1>3 DEF On
<1>4. ASSUME NEW txs \in SUBSET pool, NewBlock(txs) PROVE On(First, tx)'
  <2>1. height' = height /\ block'[tx] = block[tx]
    BY <1>2, <1>4 DEF NewBlock
  <2> QED
    BY <1>1, <1>2, <2>1 DEF On
<1>5. ASSUME NEW n \in Range(addr), Sync(n) PROVE On(First, tx)'
  <2>1. n \in Nodes /\ First \in Nodes
    <3>1. addr \in Seq(Nodes) /\ DOMAIN addr = 1 .. Len(addr) /\ Len(addr) \in Nat
      BY LenProperties DEF TypeInv, TypeOK, ClientTypeOK
    <3>2. PICK i \in 1 .. Len(addr) : n = addr[i]
      BY <3>1 DEF Range
    <3> QED
      BY <3>1, <3>2, ElementOfSeq DEF First
  <2>2. height \in [Nodes -> Nat] /\ height' = [height EXCEPT ![n] = @ + 1]
        /\ block' = block
    BY <1>5 DEF Sync, TypeInv, TypeOK
  <2>3. height[First] <= height'[First] /\ height[First] \in Nat /\ height'[First] \in Nat
    BY <2>1, <2>2
  <2> QED
    BY <1>1, <1>2, <2>2, <2>3 DEF On
<1> QED
  BY <1>3, <1>4, <1>5, NetworkChanges

\* Only the preparation sends and moves on.
LEMMA StepKinds ==
  ASSUME Next
  PROVE  \/ SendNext \/ CheckHolds
         \/ /\ UNCHANGED <<phase, next>> /\ pool' \subseteq pool
            /\ \/ stage' = stage
               \/ stage' \in {"dead", "panicked"}
               \/ stage \in {"fetch", "poll"} /\ stage' \in {"poll", "started"}
<1>1. CASE Prepare
  BY <1>1 DEF Prepare, SendFails, CheckFails, VotesPanic, AwaitGivesUp, Die, prepareVars,
              networkVars
<1>2. CASE Start
  BY <1>2 DEF Start, GetBlockCount, FetchLast, Poll, GetBlock, CallFails, CallPanicked,
              PollsEnd, Die, prepareVars, networkVars
<1>3. ASSUME NEW txs \in SUBSET pool, NewBlock(txs)
      PROVE  UNCHANGED <<phase, next, stage>> /\ pool' \subseteq pool
  BY <1>3 DEF NewBlock, prepareVars
<1>4. CASE Cancel \/ \E n \in Range(addr) : Sync(n)
  BY <1>4 DEF Cancel, Sync, prepareVars, networkVars
<1> QED
  BY <1>1, <1>2, <1>3, <1>4 DEF Next

\* Every step of the setup, of the network and of the user keeps the invariant.
LEMMA NextSetup == TypeInv /\ SetupInv /\ [Next]_vars => SetupInv'
<1>1. TypeInv /\ SetupInv /\ UNCHANGED vars => SetupInv'
  <2> SUFFICES ASSUME TypeInv, SetupInv, UNCHANGED vars PROVE SetupInv'
    OBVIOUS
  <2>1. fillChain' = fillChain /\ SetupTxs' = SetupTxs /\ First' = First
    BY SamePhases DEF vars, First
  <2> QED
    BY <2>1 DEF vars, SetupInv, NothingSentTwice, WaitingIsNew, PhasesDone, ChecksHeld,
                StartsPrepared, ToSend, On
<1>2. ASSUME TypeInv, SetupInv, Next PROVE SetupInv'
  <2> USE <1>2
  <2>1. /\ fillChain' = fillChain /\ SetupTxs' = SetupTxs
        /\ \A tx \in SetupTxs : On(First, tx) => On(First, tx)'
    BY SameFirst, SamePhases, OnStays DEF SetupInv
  <2>2. /\ Steps(fillChain) /\ phase \in DOMAIN fillChain /\ DOMAIN fillChain \subseteq Nat
        /\ \A p \in DOMAIN fillChain : PhaseOK(fillChain[p])
        /\ \A p \in DOMAIN fillChain : AllOf(fillChain[p].txs) \subseteq SetupTxs
        /\ \A p, q \in DOMAIN fillChain :
              AllOf(fillChain[p].txs) \cap AllOf(fillChain[q].txs) # {} => p = q
    <3>1. Steps(fillChain) /\ phase \in DOMAIN fillChain
      BY ChainOfPhases DEF TypeInv, TypeOK
    <3>2. DOMAIN fillChain \subseteq Nat
      BY <3>1 DEF Steps
    <3> QED
      BY <3>1, <3>2, ChainOfPhases DEF TypeInv, TypeOK, SetupTxs
  <2>3. \A tx \in SetupTxs : tx \notin pool /\ block[tx] = 0 => block'[tx] = 0
    <3>1. CASE block' = block
      BY <3>1
    <3>2. ASSUME NEW txs \in SUBSET pool, NewBlock(txs)
          PROVE  \A tx \in SetupTxs : tx \notin pool /\ block[tx] = 0 => block'[tx] = 0
      BY <3>2 DEF NewBlock
    <3>3. CASE \E n \in Range(addr) : Sync(n)
      BY <3>3 DEF Sync
    <3> QED
      BY <3>1, <3>2, <3>3, NetworkChanges
  <2>4. \A p \in DOMAIN fillChain : \A k \in DOMAIN fillChain[p].txs :
           fillChain[p].txs[k] \in AllOf(fillChain[p].txs) /\ fillChain[p].txs[k] \in SetupTxs
    BY <2>2 DEF AllOf
  <2>5. ASSUME SendNext PROVE SetupInv'
    <3> DEFINE tx == fillChain[phase].txs[next]
    <3>1. /\ stage = "send" /\ next \in DOMAIN fillChain[phase].txs
          /\ UNCHANGED <<block, height, phase>> /\ pool' = pool \cup {tx}
          /\ \/ stage' = "send" /\ next' = next + 1
             \/ stage' = "await" /\ next' = 1
      BY <2>5 DEF SendNext, TypeInv, InPhase
    <3>2. tx \in SetupTxs /\ tx \notin pool /\ block[tx] = 0
      <4>1. ToSend(phase, next)
        BY <3>1 DEF ToSend, TypeInv, TypeOK
      <4> QED
        BY <2>2, <2>4, <3>1, <4>1 DEF SetupInv, NothingSentTwice
    <3>3. ASSUME NEW p \in DOMAIN fillChain, NEW k \in DOMAIN fillChain[p].txs, ToSend(p, k)'
          PROVE  ToSend(p, k) /\ fillChain[p].txs[k] # tx
      <4>1. p \in Nat /\ phase \in Nat /\ k \in Nat /\ next \in Nat
        BY <2>2, <3>1 DEF PhaseOK, Steps, TypeInv, TypeOK
      <4>2. CASE p > phase
        BY <2>2, <2>4, <3>1, <4>1, <4>2 DEF ToSend
      <4>3. CASE p = phase /\ k >= next + 1
        <5>1. k # next
          BY <4>1, <4>3
        <5> QED
          BY <2>2, <3>1, <4>1, <4>3, <5>1 DEF ToSend, PhaseOK
      <4> QED
        BY <3>1, <3>3, <4>2, <4>3 DEF ToSend
    <3>4. NothingSentTwice'
      BY <2>1, <3>1, <3>3 DEF NothingSentTwice, SetupInv
    <3>5. WaitingIsNew'
      BY <3>1, <3>2 DEF WaitingIsNew, SetupInv
    <3>6. PhasesDone'
      BY <2>1, <2>2, <3>1 DEF PhasesDone, SetupInv
    <3>7. ChecksHeld'
      <4>1. \A c \in DOMAIN fillChain[phase].checks : ~(c < 1)
        BY <2>2 DEF PhaseOK, Steps
      <4> QED
        BY <2>1, <3>1, <4>1 DEF ChecksHeld
    <3>8. StartsPrepared'
      BY <3>1 DEF StartsPrepared
    <3> QED
      BY <3>4, <3>5, <3>6, <3>7, <3>8 DEF SetupInv
  <2>6. ASSUME CheckHolds PROVE SetupInv'
    <3> DEFINE ph == fillChain[phase]
    <3>1. /\ stage = "await" /\ next \in DOMAIN ph.checks
          /\ UNCHANGED <<block, height, pool>>
          /\ \A tx \in ph.checks[next] : On(First, tx)
      BY <2>6 DEF CheckHolds, TypeInv, InPhase, networkVars
    <3>2. /\ phase \in Nat /\ next \in Nat /\ Len(ph.checks) \in Nat /\ Len(fillChain) \in Nat
          /\ DOMAIN ph.checks = 1 .. Len(ph.checks) /\ DOMAIN fillChain = 1 .. Len(fillChain)
          /\ AllOf(ph.txs) = UNION {ph.checks[c] : c \in DOMAIN ph.checks}
          /\ AllOf(ph.txs) \subseteq SetupTxs
      BY <2>2, <3>1 DEF PhaseOK, Steps, TypeInv, TypeOK
    <3>3. \A c \in DOMAIN ph.checks : c <= next => \A tx \in ph.checks[c] : On(First, tx)
      <4>1. \A c \in DOMAIN ph.checks : c <= next => c < next \/ c = next
        BY <3>2
      <4> QED
        BY <3>1, <4>1 DEF ChecksHeld, SetupInv
    <3>4. WaitingIsNew'
      BY <3>1 DEF WaitingIsNew, SetupInv
    <3>5. CASE next < Len(ph.checks)
      <4>1. next' = next + 1 /\ stage' = "await" /\ phase' = phase
        BY <2>6, <3>1, <3>5 DEF CheckHolds
      <4>2. ChecksHeld'
        <5>1. \A c \in DOMAIN ph.checks : c < next + 1 => c <= next
          BY <3>2
        <5>2. \A c \in DOMAIN ph.checks : ph.checks[c] \subseteq SetupTxs
          BY <3>2
        <5> QED
          BY <2>1, <3>3, <4>1, <5>1, <5>2 DEF ChecksHeld
      <4>3. NothingSentTwice'
        BY <2>1, <3>1, <4>1 DEF NothingSentTwice, ToSend, SetupInv
      <4>4. PhasesDone'
        BY <2>1, <2>2, <4>1 DEF PhasesDone, SetupInv
      <4>5. StartsPrepared'
        BY <4>1 DEF StartsPrepared
      <4> QED
        BY <3>4, <4>2, <4>3, <4>4, <4>5 DEF SetupInv
    <3>6. CASE ~(next < Len(ph.checks))
      <4>1. \A tx \in AllOf(ph.txs) : On(First, tx)
        <5>1. \A c \in DOMAIN ph.checks : c <= next
          BY <3>2, <3>6
        <5> QED
          BY <3>2, <3>3, <5>1
      <4>2. \A p \in DOMAIN fillChain : p <= phase =>
               \A tx \in AllOf(fillChain[p].txs) : On(First, tx)
        <5>1. \A p \in DOMAIN fillChain : p <= phase => p < phase \/ p = phase
          BY <2>2, <3>2
        <5> QED
          BY <4>1, <5>1 DEF PhasesDone, SetupInv
      <4>3. CASE phase < Len(fillChain)
        <5>1. next' = 1 /\ phase' = phase + 1 /\ stage' = "send"
          BY <2>6, <3>1, <3>6, <4>3 DEF CheckHolds
        <5>2. \A p \in DOMAIN fillChain : /\ p >= phase + 1 => p > phase
                                          /\ p < phase + 1 => p <= phase
          BY <2>2, <3>2
        <5>3. PhasesDone'
          BY <2>1, <2>2, <4>2, <5>1, <5>2 DEF PhasesDone
        <5>4. NothingSentTwice'
          <6>1. \A p \in DOMAIN fillChain : \A k : ToSend(p, k)' => ToSend(p, k)
            BY <2>2, <3>2, <5>1 DEF ToSend
          <6> QED
            BY <2>1, <3>1, <6>1 DEF NothingSentTwice, SetupInv
        <5>5. ChecksHeld' /\ StartsPrepared'
          BY <5>1 DEF ChecksHeld, StartsPrepared
        <5> QED
          BY <3>4, <5>3, <5>4, <5>5 DEF SetupInv
      <4>4. CASE ~(phase < Len(fillChain))
        <5>1. next' = 1 /\ phase' = phase /\ stage' = "fetch"
          BY <2>6, <3>1, <3>6, <4>4 DEF CheckHolds
        <5>2. \A p \in DOMAIN fillChain : p <= phase
          BY <2>2, <3>2, <4>4
        <5>3. StartsPrepared'
          BY <2>1, <4>2, <5>1, <5>2 DEF StartsPrepared, SetupTxs
        <5>4. PhasesDone'
          BY <2>1, <2>2, <5>1 DEF PhasesDone, SetupInv
        <5>5. NothingSentTwice'
          BY <2>1, <3>1, <5>1 DEF NothingSentTwice, ToSend, SetupInv
        <5>6. ChecksHeld'
          BY <5>1 DEF ChecksHeld
        <5> QED
          BY <3>4, <5>3, <5>4, <5>5, <5>6 DEF SetupInv
      <4> QED
        BY <4>3, <4>4
    <3> QED
      BY <3>5, <3>6
  <2>7. ASSUME /\ UNCHANGED <<phase, next>> /\ pool' \subseteq pool
               /\ \/ stage' = stage
                  \/ stage' \in {"dead", "panicked"}
                  \/ stage \in {"fetch", "poll"} /\ stage' \in {"poll", "started"}
        PROVE  SetupInv'
    <3>1. NothingSentTwice'
      <4>1. \A p, k : ToSend(p, k)' => ToSend(p, k)
        BY <2>7 DEF ToSend
      <4> QED
        BY <2>1, <2>3, <2>4, <2>7, <4>1 DEF NothingSentTwice, SetupInv
    <3>2. WaitingIsNew'
      <4>1. CASE block' = block
        BY <2>7, <4>1 DEF WaitingIsNew, SetupInv
      <4>2. ASSUME NEW txs \in SUBSET pool, NewBlock(txs) PROVE WaitingIsNew'
        <5>1. pool' = pool \ txs /\ pool \subseteq SetupTxs
              /\ block' = [tx \in SetupTxs |-> IF tx \in txs THEN last + 1 ELSE block[tx]]
          BY <4>2 DEF NewBlock, TypeInv, TypeOK
        <5> QED
          BY <5>1 DEF WaitingIsNew, SetupInv
      <4>3. CASE \E n \in Range(addr) : Sync(n)
        BY <2>7, <4>3 DEF Sync, WaitingIsNew, SetupInv
      <4> QED
        BY <4>1, <4>2, <4>3, NetworkChanges
    <3>3. PhasesDone'
      BY <2>1, <2>2, <2>7 DEF PhasesDone, SetupInv
    <3>4. ChecksHeld'
      <4>1. \A c \in DOMAIN fillChain[phase].checks : fillChain[phase].checks[c] \subseteq SetupTxs
        BY <2>2 DEF PhaseOK
      <4> QED
        BY <2>1, <2>7, <4>1 DEF ChecksHeld, SetupInv
    <3>5. StartsPrepared'
      BY <2>1, <2>7 DEF StartsPrepared, SetupInv
    <3> QED
      BY <3>1, <3>2, <3>3, <3>4, <3>5 DEF SetupInv
  <2> QED
    BY <2>5, <2>6, <2>7, StepKinds
<1> QED
  BY <1>1, <1>2

\* The types and the setup hold throughout.
LEMMA SetupFacts == Spec => [](TypeInv /\ SetupInv)
  BY InitInv, NextType, NextSetup, PTL DEF Spec

\* No measurement starts on a chain that is set up in part: the checks of the
\* phases together imply every transaction (prepare.go:206-262, main.go:149-159).
THEOREM ChainIsPrepared == Spec => []StartsPrepared
<1>1. TypeInv /\ SetupInv => StartsPrepared
  BY DEF SetupInv
<1> QED
  BY <1>1, SetupFacts, PTL

\* What the transaction about to be sent needs is in a finished phase.
LEMMA FundedInPhase == TypeInv /\ SetupInv => NeverUnfunded
<1> SUFFICES ASSUME TypeInv, SetupInv, stage = "send",
                    NEW t \in Needs(fillChain[phase].txs[next])
             PROVE  On(First, t)
  BY DEF NeverUnfunded
<1>1. /\ phase \in DOMAIN fillChain /\ next \in DOMAIN fillChain[phase].txs
      /\ vote \in BOOLEAN
  BY DEF TypeInv, TypeOK, InPhase
<1>2. fillChain[phase].txs[next] \in AllOf(fillChain[phase].txs)
  BY <1>1 DEF AllOf
<1>3. PICK q \in DOMAIN fillChain : q < phase /\ t \in AllOf(fillChain[q].txs)
  BY <1>1, <1>2, ChainOfPhases
<1> QED
  BY <1>3 DEF SetupInv, PhasesDone

\* A vote and the contract are sent when the GAS that pays for them has arrived,
\* however the blocks and the checks are timed (prepare.go:228-262).
THEOREM FundsComeFirst == Spec => []NeverUnfunded
  BY FundedInPhase, SetupFacts, PTL

-----------------------------------------------------------------------------
(***************************************************************************)
(* The start block.  GetLastBlock makes two calls, so with one or two       *)
(* addresses the same place in the order names the index every time.  If    *)
(* the first node has that place, its index never falls behind the one the  *)
(* polls are compared with, and the setup is in no later block than that.   *)
(***************************************************************************)

\* The value of the counter with which the index was, or was last, asked for.
Turn == IF num = NoIndex THEN inc - 1 ELSE inc
FirstCounts == First = addr[(Turn % Len(addr)) + 1]

SetupBy(index) == \A tx \in SetupTxs : block[tx] <= index

Fetching == num # NoIndex => num <= height[First] /\ SetupBy(num)

Polling ==
    /\ startBlockIndex <= height[First] /\ SetupBy(startBlockIndex)
    /\ IF num = NoIndex THEN blk = startBlockIndex
                        ELSE startBlockIndex <= num /\ num <= height[First]

StartInv ==
    /\ num # NoIndex => stage \in {"fetch", "poll", "dead", "panicked"}
    /\ num # NoIndex \/ stage \in {"poll", "started"} => addr # <<>>
    /\ Len(addr) \in 1 .. 2 /\ FirstCounts =>
          /\ stage = "fetch" => Fetching
          /\ stage = "poll" => Polling
          /\ stage = "started" => blk > startBlockIndex /\ SetupBy(startBlockIndex)

\* With one or two addresses, a call and the next but one name the same place,
\* also when the counter wraps between them (client.go:167).
LEMMA EverySecondCall ==
  ASSUME NEW i \in -(MaxInt32 + 1) .. MaxInt32, NEW n \in 1 .. 2
  PROVE  /\ (AddOne(i) - 1) % n = i % n
         /\ AddOne(i) % n = (i - 1) % n
         /\ Remainder(AddOne(i), n) >= 0 => Remainder(AddOne(i), n) = AddOne(i) % n
<1>1. MaxInt32 \in Nat /\ i \in Int /\ (n = 1 \/ n = 2)
  BY MaxInt32Assumption
<1>2. CASE n = 1
  BY <1>1, <1>2 DEF AddOne, Remainder
<1>3. CASE n = 2
  BY <1>1, <1>3 DEF AddOne, Remainder
<1> QED
  BY <1>1, <1>2, <1>3

\* A step that makes no call of the client keeps the start block.
LEMMA NoCallStart ==
  ASSUME TypeInv, SetupInv, StartInv, Next, UNCHANGED <<inc, num, startBlockIndex, blk>>,
         \/ stage' = stage
         \/ stage' \in {"dead", "panicked"}
         \/ stage' \in {"send", "await", "fetch"} /\ stage \in {"send", "await"}
  PROVE  StartInv'
<1>1. addr' = addr /\ First' = First /\ SetupTxs' = SetupTxs
  BY SameFirst, SamePhases
<1>2. (FirstCounts' <=> FirstCounts) /\ NoIndex' = NoIndex
  BY <1>1 DEF FirstCounts, Turn, NoIndex
<1>3. Len(addr) \in 1 .. 2 => height[First] \in Nat /\ height'[First] \in Nat
                              /\ height[First] <= height'[First]
  <2>1. addr \in Seq(Nodes) /\ height \in [Nodes -> Nat]
    BY DEF TypeInv, TypeOK, ClientTypeOK
  <2>2. Len(addr) \in 1 .. 2 => First \in Nodes
    BY <2>1, ElementOfSeq DEF First
  <2>3. height' = height \/ \E n \in Nodes : height' = [height EXCEPT ![n] = @ + 1]
    <3>1. Range(addr) \subseteq Nodes
      BY <2>1, ElementOfSeq, LenProperties DEF Range
    <3> QED
      BY <3>1, NetworkChanges DEF NewBlock, Sync
  <2> QED
    BY <2>1, <2>2, <2>3
<1>4. ASSUME stage \in {"fetch", "poll", "started"}
      PROVE  \A index : SetupBy(index) => SetupBy(index)'
  <2>1. \A tx \in SetupTxs : tx \notin pool
    BY <1>4 DEF SetupInv, StartsPrepared, WaitingIsNew, On
  <2>2. \A tx \in SetupTxs : block'[tx] = block[tx]
    BY <2>1, NetworkChanges DEF NewBlock, Sync
  <2> QED
    BY <1>1, <2>2 DEF SetupBy
<1>5. num \in Int /\ startBlockIndex \in Int
  BY DEF TypeInv, TypeOK, NoIndex
<1>6. ASSUME Len(addr) \in 1 .. 2 /\ FirstCounts
      PROVE  /\ stage' = "fetch" => Fetching'
             /\ stage' = "poll" => Polling'
             /\ stage' = "started" => (blk > startBlockIndex /\ SetupBy(startBlockIndex))'
  <2>1. CASE stage' = stage
    <3>1. stage = "fetch" => Fetching'
      BY <1>1, <1>2, <1>3, <1>4, <1>5, <1>6 DEF StartInv, Fetching
    <3>2. stage = "poll" => Polling'
      BY <1>1, <1>2, <1>3, <1>4, <1>5, <1>6 DEF StartInv, Polling
    <3>3. stage = "started" => (blk > startBlockIndex /\ SetupBy(startBlockIndex))'
      BY <1>4, <1>6 DEF StartInv
    <3> QED
      BY <2>1, <3>1, <3>2, <3>3
  <2>2. CASE stage' \in {"send", "await", "fetch"} /\ stage \in {"send", "await"}
    BY <1>2, <2>2 DEF StartInv, Fetching
  <2> QED
    BY <2>1, <2>2
<1> QED
  BY <1>1, <1>2, <1>6 DEF StartInv

\* A step that makes a call keeps the start block: the calls that ask for the
\* index and those that ask for the block alternate.
LEMMA CallStart ==
  ASSUME TypeInv, SetupInv, StartInv, GetBlockCount \/ FetchLast \/ Poll
  PROVE  StartInv'
<1>1. addr' = addr /\ First' = First /\ SetupTxs' = SetupTxs /\ vote' = vote
  <2>1. addr' = addr /\ vote' = vote
    BY DEF GetBlockCount, FetchLast, Poll, GetBlock, doRPCCall
  <2> QED
    BY <2>1, SamePhases DEF First
<1>2. UNCHANGED <<last, block, pool, height>> /\ stage \in {"fetch", "poll"}
  BY DEF GetBlockCount, Asks, FetchLast, Poll, GetBlock, networkVars
<1>3. addr # <<>> /\ idx >= 0 /\ inc' = AddOne(inc) /\ addr \in Seq(Nodes)
      /\ inc \in -(MaxInt32 + 1) .. MaxInt32
  <2>1. addr # <<>> /\ ~(idx < 0) /\ inc' = AddOne(inc)
    BY DEF GetBlockCount, FetchLast, Poll, GetBlock, doRPCCall, CallPanics
  <2>2. addr \in Seq(Nodes) /\ inc \in -(MaxInt32 + 1) .. MaxInt32
    BY DEF TypeInv, TypeOK, ClientTypeOK
  <2>3. AddOne(inc) \in Int /\ Len(addr) \in Nat \ {0}
    BY <2>1, <2>2, EmptySeq, LenProperties, MaxInt32Assumption DEF AddOne
  <2>4. idx \in Int
    <3>1. \A i \in Int, n \in Nat \ {0} : Remainder(i, n) \in Int
      BY DEF Remainder
    <3> QED
      BY <2>3, <3>1 DEF idx
  <2> QED
    BY <2>1, <2>2, <2>4
<1>4. ASSUME Len(addr) \in 1 .. 2
      PROVE  /\ (inc' - 1) % Len(addr) = inc % Len(addr)
             /\ inc' % Len(addr) = (inc - 1) % Len(addr)
             /\ idx = inc' % Len(addr)
  BY <1>3, <1>4, EverySecondCall DEF idx
<1>5. /\ num \in Int /\ startBlockIndex \in Int /\ last \in Nat /\ NoIndex' = NoIndex
      /\ NoIndex = -1 /\ height \in [Nodes -> 0 .. last]
      /\ num # NoIndex => num \in Nat
  BY DEF TypeInv, TypeOK, NoIndex
<1>6. \A index : SetupBy(index)' <=> SetupBy(index)
  BY <1>1, <1>2 DEF SetupBy
<1>7. CASE GetBlockCount
  <2>1. PICK n \in Nodes : doRPCCall(n) /\ num' = height[n]
    BY <1>7 DEF GetBlockCount
  <2>2. num = NoIndex /\ num' # NoIndex /\ UNCHANGED <<stage, startBlockIndex, blk>>
        /\ n = addr[idx + 1]
    BY <1>5, <1>7, <2>1 DEF GetBlockCount, doRPCCall
  <2>3. ASSUME Len(addr) \in 1 .. 2, FirstCounts'
        PROVE  FirstCounts /\ num' = height[First]
    BY <1>1, <1>4, <1>5, <2>1, <2>2, <2>3 DEF FirstCounts, Turn
  <2>4. ASSUME Len(addr) \in 1 .. 2, FirstCounts', stage = "fetch"
        PROVE  Fetching'
    <3>1. SetupBy(num') /\ num' \in Int
      BY <1>5, <2>1, <2>3, <2>4 DEF SetupInv, StartsPrepared, On, SetupBy
    <3> QED
      BY <1>1, <1>2, <1>6, <2>3, <2>4, <3>1 DEF Fetching
  <2>5. ASSUME Len(addr) \in 1 .. 2, FirstCounts', stage = "poll"
        PROVE  Polling'
    <3>1. num' \in Int
      BY <1>5, <2>1
    <3> QED
      BY <1>1, <1>2, <1>5, <1>6, <2>2, <2>3, <2>5, <3>1 DEF StartInv, Polling
  <2> QED
    BY <1>1, <1>2, <1>3, <2>2, <2>4, <2>5 DEF StartInv
<1>8. ASSUME FetchLast \/ Poll
      PROVE  /\ num # NoIndex /\ num' = NoIndex /\ blk' = num
             /\ Len(addr) \in 1 .. 2 /\ FirstCounts' => FirstCounts
  <2>1. num # NoIndex /\ num' = NoIndex /\ blk' = num
    BY <1>8 DEF FetchLast, Poll, GetBlock
  <2> QED
    BY <1>1, <1>4, <1>5, <2>1 DEF FirstCounts, Turn
<1>9. CASE FetchLast
  <2>1. stage = "fetch" /\ stage' = "poll" /\ startBlockIndex' = num
    BY <1>9 DEF FetchLast
  <2>2. ASSUME Len(addr) \in 1 .. 2, FirstCounts' PROVE Polling'
    BY <1>1, <1>2, <1>5, <1>6, <1>8, <1>9, <2>1, <2>2 DEF StartInv, Fetching, Polling
  <2> QED
    BY <1>1, <1>3, <1>5, <1>8, <1>9, <2>1, <2>2 DEF StartInv
<1>10. CASE Poll
  <2>1. /\ stage = "poll" /\ startBlockIndex' = startBlockIndex
        /\ IF num > startBlockIndex THEN stage' = "started" ELSE stage' = "poll"
    BY <1>10 DEF Poll
  <2>2. ASSUME Len(addr) \in 1 .. 2, FirstCounts'
        PROVE  /\ stage' = "poll" => Polling'
               /\ stage' = "started" => (blk > startBlockIndex /\ SetupBy(startBlockIndex))'
    BY <1>1, <1>2, <1>5, <1>6, <1>8, <1>10, <2>1, <2>2 DEF StartInv, Polling
  <2> QED
    BY <1>1, <1>3, <1>5, <1>8, <1>10, <2>1, <2>2 DEF StartInv
<1> QED
  BY <1>7, <1>9, <1>10

\* Every step keeps the start block.
LEMMA NextStart == TypeInv /\ SetupInv /\ StartInv /\ [Next]_vars => StartInv'
<1>1. ASSUME TypeInv, SetupInv, StartInv, UNCHANGED vars PROVE StartInv'
  <2>1. SetupTxs' = SetupTxs
    BY <1>1, SamePhases DEF vars
  <2> QED
    BY <1>1, <2>1 DEF vars, StartInv, Fetching, Polling, SetupBy, FirstCounts, Turn, First
<1>2. ASSUME TypeInv, SetupInv, StartInv, Next PROVE StartInv'
  <2>1. CASE GetBlockCount \/ FetchLast \/ Poll
    BY <1>2, <2>1, CallStart
  <2>2. CASE CallPanicked
    <3>1. stage' = "panicked" /\ UNCHANGED <<addr, num>>
      BY <2>2 DEF CallPanicked, doRPCCallPanics, startVars
    <3> QED
      BY <1>2, <2>2, <3>1 DEF StartInv, CallPanicked, Asks, NoIndex
  <2>3. CASE PollsEnd
    <3>1. stage = "poll" /\ polls = 0 /\ UNCHANGED <<addr, inc, num, startBlockIndex, blk>>
          /\ stage' = IF blk = startBlockIndex THEN "dead" ELSE "started"
      BY <2>3 DEF PollsEnd, clientVars, startVars
    <3>2. num = NoIndex
      BY <1>2, <3>1 DEF TypeInv, InPhase
    <3>3. FirstCounts' <=> FirstCounts
      BY <3>1 DEF FirstCounts, Turn, First
    <3> QED
      BY <1>2, <3>1, <3>2, <3>3 DEF StartInv, Polling, NoIndex
  <2>4. CASE CallFails
    BY <1>2, <2>4, NoCallStart DEF CallFails, Die, clientVars, startVars
  <2>5. CASE Prepare
    <3>1. /\ UNCHANGED <<inc, num, startBlockIndex, blk>>
          /\ \/ stage' = stage
             \/ stage' \in {"dead", "panicked"}
             \/ stage' \in {"send", "await", "fetch"} /\ stage \in {"send", "await"}
      BY <2>5 DEF Prepare, SendNext, SendFails, CheckHolds, CheckFails, VotesPanic,
                  AwaitGivesUp, Die, clientVars, startVars
    <3> QED
      BY <1>2, <3>1, NoCallStart
  <2>6. CASE \/ \E txs \in SUBSET pool : NewBlock(txs)
             \/ \E n \in Range(addr) : Sync(n)
             \/ Cancel
    <3>1. UNCHANGED <<inc, num, startBlockIndex, blk, stage>>
      BY <2>6 DEF NewBlock, Sync, Cancel, clientVars, startVars
    <3> QED
      BY <1>2, <3>1, NoCallStart
  <2> QED
    BY <1>2, <2>1, <2>2, <2>3, <2>4, <2>5, <2>6 DEF Next, Start
<1> QED
  BY <1>1, <1>2

\* Before the first transaction no block has been asked for.
LEMMA StartOfStart == SetupStart => StartInv
  BY DEF SetupStart, StartInv, NoIndex

\* The place of the node that named the index of the start block.
LEMMA StartedNew == TypeInv /\ StartInv => StartBlockHasNoSetup
<1> SUFFICES ASSUME TypeInv, StartInv, stage = "started", Len(addr) <= 2, CountedBy(First)
             PROVE  blk > startBlockIndex /\ \A tx \in SetupTxs : block[tx] < blk
  BY DEF StartBlockHasNoSetup
<1>1. num = NoIndex /\ addr # <<>> /\ addr \in Seq(Nodes)
  BY DEF StartInv, TypeInv, TypeOK, ClientTypeOK
<1>2. Len(addr) \in 1 .. 2
  <2>1. Len(addr) \in Nat \ {0}
    BY <1>1, EmptySeq
  <2>2. \A n \in Nat \ {0} : n <= 2 => n \in 1 .. 2
    OBVIOUS
  <2> QED
    BY <2>1, <2>2
<1>3. FirstCounts
  BY <1>1 DEF CountedBy, FirstCounts, Turn
<1>4. blk > startBlockIndex /\ SetupBy(startBlockIndex)
  BY <1>2, <1>3 DEF StartInv
<1>5. blk \in Nat /\ startBlockIndex \in Nat /\ \A tx \in SetupTxs : block[tx] \in Nat
  BY DEF TypeInv, TypeOK
<1> QED
  BY <1>4, <1>5 DEF SetupBy

\* With one or two addresses, for any of the counter's values, its wrap included:
\* if the prepared node names the indices, the start block is newer than all of
\* the setup, so no setup transaction is counted (main.go:152-170).
THEOREM SetupIsNotCounted == Spec => []StartBlockHasNoSetup
<1>1. Init => StartInv
  BY StartOfStart DEF Init, SetupInit, SetupStart
<1>2. Spec => []StartInv
  BY <1>1, SetupFacts, NextStart, PTL DEF Spec
<1> QED
  BY <1>2, StartedNew, SetupFacts, PTL
=============================================================================
