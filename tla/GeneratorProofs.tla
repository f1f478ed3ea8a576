--------------------------- MODULE GeneratorProofs ---------------------------
(***************************************************************************)
(* Proofs about Generator: for any number of workers, of requests and of   *)
(* transactions, and whenever the process is ended.                        *)
(***************************************************************************)
EXTENDS Generator, SequenceTheorems, TLAPS

\* Quotients and remainders.
Numbers == INSTANCE ReporterProofs

-----------------------------------------------------------------------------
(* The invariants. *)

Blobs == [req : 0 .. Requests - 1, nonce : 0 .. NonceMod - 1]

\* TypeOK of functions, without what follows from InTurn.
BaseType ==
    /\ dpc \in {"deal", "send", "close", "finished"} /\ dealt \in 0 .. TxCount
    /\ dpc = "send" => dealt < TxCount
    /\ txCh \in [Gens -> {<<>>} \cup {<<r>> : r \in 0 .. Requests - 1}]
    /\ result \in [Gens -> {<<>>} \cup {<<b>> : b \in Blobs}]
    /\ blob \in [Gens -> Blobs \cup {None}]
    /\ gpc \in [Gens -> {"recv", "out", "exit"}]
    /\ signed \in [Gens -> Nat] /\ closed \in [Gens -> BOOLEAN]
    /\ cpc \in {"collect", "wait", "done"}
    /\ dump \in Seq(Blobs) /\ Len(dump) <= TxCount
    /\ file \in [header : BOOLEAN, txs : Seq(Blobs), left : BOOLEAN]
    /\ cancelled \in BOOLEAN

\* How many of the first k turns are those of worker n.
Turns(k, n) == (k + (genWorkerCount - 1) - n) \div genWorkerCount

\* The i-th request of worker n, and the transaction it makes of it.
Request(n, i) == (i * genWorkerCount + n) % Requests
Made(n, i) == [req |-> Request(n, i), nonce |-> Nonce(n, i)]

\* The contents of a channel of capacity one.
Full(ch) == IF ch = <<>> THEN 0 ELSE 1
Busy(pc) == IF pc = "out" THEN 1 ELSE 0

\* Of the requests dealt to worker n, i are handed on, one may be in its hands
\* and one in its channel; of those handed on the last may not be collected yet.
TurnOf(n, turns, collected, in, pc, i, b, out) ==
    /\ Turns(turns, n) = i + Busy(pc) + Full(in)
    /\ Turns(collected, n) = i - Full(out)
    /\ in # <<>> => in = <<Request(n, i + Busy(pc))>>
    /\ pc = "out" => b = Made(n, i)
    /\ out # <<>> => out = <<Made(n, i - 1)>>

InTurn ==
    \A n \in Gens :
        TurnOf(n, dealt, Len(dump), txCh[n], gpc[n], signed[n], blob[n], result[n])

\* Once nobody writes to it, the file has a prefix of the dump.
FileIsPrefix ==
    file.left => \E k \in 0 .. Len(dump) : file.txs = SubSeq(dump, 1, k)

-----------------------------------------------------------------------------
(* Turns. *)

\* How the turns of a worker are counted.
LEMMA TurnsCount ==
  ASSUME NEW n \in Gens, NEW k \in Nat
  PROVE  /\ Turns(k, n) \in Nat /\ Turns(k, n) <= k
         /\ Turns(0, n) = 0
         /\ Turns(k + 1, n) = Turns(k, n) + IF k % genWorkerCount = n THEN 1 ELSE 0
         /\ k % genWorkerCount = n => Turns(k, n) = k \div genWorkerCount
<1> DEFINE w == genWorkerCount
           a == k + (w - 1) - n
<1>1. w \in Nat \ {0} /\ n \in 0 .. w - 1 /\ n \in Nat
  BY WorkerCountAssumption DEF Gens
<1>2. /\ Turns(k, n) = a \div w /\ Turns(k + 1, n) = (k + 1 + (w - 1) - n) \div w
      /\ Turns(0, n) = (0 + (w - 1) - n) \div w
  BY DEF Turns
<1> HIDE DEF w
<1>3. a \in Nat /\ a <= k + (w - 1) /\ k + 1 + (w - 1) - n = a + 1 /\ a + 1 = (k - n) + w
  BY <1>1
<1>4. Turns(0, n) = 0
  <2> DEFINE r == 0 + (w - 1) - n
  <2>1. r = w * 0 + r /\ r \in 0 .. w - 1 /\ r \in Int /\ 0 \in Int
    BY <1>1
  <2> HIDE DEF r
  <2>2. r \div w = 0
    BY <1>1, <2>1, Numbers!DivisionIsUnique
  <2> QED
    BY <1>2, <2>2 DEF r
<1> HIDE DEF a
<1> DEFINE q == a \div w
<1>5. q \in Int /\ a = w * q + (a % w) /\ a % w \in 0 .. w - 1
  BY <1>1, <1>3, Numbers!Division
<1>6. q \in Nat /\ q <= k
  <2> HIDE DEF q
  <2>1. q <= -1 => w * q <= -w
    BY <1>1, <1>5
  <2>2. q >= k + 1 => w * q >= w * k + w
    BY <1>1, <1>5
  <2>3. w * k >= k /\ w * q \in Int /\ w * k \in Int
    BY <1>1, <1>5
  <2> QED
    BY <1>1, <1>3, <1>5, <2>1, <2>2, <2>3
<1>7. (a + 1) \div w = q + IF k % w = n THEN 1 ELSE 0
  <2>0. a \in Int /\ k \in Int
    BY <1>3
  <2>1. (a + 1) \div w = q + IF (a + 1) % w = 0 THEN 1 ELSE 0
    BY <1>1, <2>0, Numbers!DivisionStep, Zenon
  <2>2. (k - n) % w = 0 <=> k % w = n
    <3>1. \A j \in 0 .. w - 1 : (k - j) % w = 0 <=> k % w = j
      BY <1>1, <2>0, Numbers!SameRemainder, Zenon
    <3> QED
      BY <1>1, <3>1
  <2>3. ((k - n) + w) % w = (k - n) % w
    <3> DEFINE d == (k - n) \div w
               r == (k - n) % w
    <3>1. k - n = w * d + r /\ r \in 0 .. w - 1 /\ d \in Int
      <4>1. k - n \in Int
        BY <1>1
      <4> QED
        BY <1>1, <4>1, Numbers!Division
    <3> HIDE DEF d, r
    <3>2. w * (d + 1) = w * d + w
      BY <1>1, <3>1
    <3>3. (k - n) + w = w * (d + 1) + r /\ d + 1 \in Int /\ (k - n) + w \in Int
      BY <1>1, <3>1, <3>2
    <3>4. ((k - n) + w) % w = r
      BY <1>1, <3>1, <3>3, Numbers!DivisionIsUnique
    <3> QED
      BY <3>4 DEF r
  <2> QED
    BY <1>3, <2>1, <2>2, <2>3
<1>8. ASSUME k % w = n PROVE q = k \div w
  <2> DEFINE d == k \div w
  <2>1. k = w * d + n /\ d \in Int
    BY <1>1, <1>8, Numbers!Division
  <2> HIDE DEF d
  <2>2. a = w * d + (w - 1) /\ w - 1 \in 0 .. w - 1 /\ a \in Int
    BY <1>1, <1>3, <2>1 DEF a
  <2>3. a \div w = d
    BY <1>1, <2>1, <2>2, Numbers!DivisionIsUnique
  <2> QED
    BY <2>3 DEF d
<1>9. Turns(k, n) = q /\ Turns(k + 1, n) = (a + 1) \div w
  BY <1>2, <1>3
<1> QED
  BY <1>4, <1>6, <1>7, <1>8, <1>9 DEF w

\* The turn of a number.
LEMMA TurnOfNumber ==
  ASSUME NEW k \in Nat
  PROVE  k % genWorkerCount \in Gens /\ k \div genWorkerCount \in Nat
         /\ k = (k \div genWorkerCount) * genWorkerCount + (k % genWorkerCount)
<1> DEFINE w == genWorkerCount
           q == k \div w
<1>1. w \in Nat \ {0}
  BY WorkerCountAssumption
<1> HIDE DEF w
<1>2. k = w * q + (k % w) /\ k % w \in 0 .. w - 1 /\ q \in Int
  BY <1>1, Numbers!Division
<1> HIDE DEF q
<1>3. q \in Nat
  <2>1. q <= -1 => w * q <= -w
    BY <1>1, <1>2
  <2> QED
    BY <1>1, <1>2, <2>1
<1>4. w * q = q * w
  BY <1>1, <1>2
<1> QED
  BY <1>2, <1>3, <1>4 DEF w, q, Gens

\* What a worker makes of its turns is a transaction.
LEMMA MadeType ==
  ASSUME NEW n \in Gens, NEW i \in Nat
  PROVE  /\ Request(n, i) \in 0 .. Requests - 1
         /\ i <= TxCount => Made(n, i) \in Blobs
<1>1. Request(n, i) \in 0 .. Requests - 1
  <2>1. i * genWorkerCount + n \in Int
    BY WorkerCountAssumption DEF Gens
  <2> QED
    BY <2>1, RequestsAssumption, Numbers!Division DEF Request
<1>2. ASSUME i <= TxCount PROVE Nonce(n, i) \in 0 .. NonceMod - 1
  <2> DEFINE d == i \div NonceSpan
             r == i % NonceSpan
  <2>1. i = NonceSpan * d + r /\ r \in 0 .. NonceSpan - 1 /\ d \in Int
    BY NonceAssumption, Numbers!Division
  <2>2. Nonce(n, i) = ((BitOr(n, d) * NonceSpan) + r) % NonceMod
    BY DEF Nonce
  <2> HIDE DEF d, r
  <2>3. d >= 1 => NonceSpan * d >= d
    BY <2>1, NonceAssumption
  <2>4. d <= -1 => NonceSpan * d <= -NonceSpan
    BY <2>1, NonceAssumption
  <2>5. d \in 0 .. TxCount
    <3>1. NonceSpan * d \in Int
      BY <2>1, NonceAssumption
    <3> QED
      BY <1>2, <2>1, <2>3, <2>4, <3>1, NonceAssumption, TxCountAssumption
  <2>6. BitOr(n, d) \in Nat
    BY <2>5, BitOrAssumption DEF Gens
  <2>7. BitOr(n, d) * NonceSpan \in Nat
    BY <2>6, NonceAssumption
  <2>8. (BitOr(n, d) * NonceSpan) + r \in Int
    BY <2>1, <2>7, NonceAssumption
  <2> QED
    BY <2>2, <2>8, NonceAssumption, Numbers!Division
<1> QED
  BY <1>1, <1>2 DEF Made, Blobs

-----------------------------------------------------------------------------
(* The steps. *)

\* What leads to the next transaction of the dump, and what it is.
LEMMA Collected ==
  ASSUME BaseType, InTurn, Collect
  PROVE  LET m == Len(dump) % genWorkerCount
             b == Made(m, Len(dump) \div genWorkerCount)
         IN  /\ m \in Gens /\ result[m] = <<b>> /\ b \in Blobs
             /\ Len(dump) \in Nat /\ Len(dump) < TxCount
             /\ result' = [result EXCEPT ![m] = <<>>]
             /\ dump' = Append(dump, b) /\ dump' \in Seq(Blobs) /\ Len(dump') = Len(dump) + 1
             /\ \A k \in 1 .. Len(dump) : dump'[k] = dump[k]
             /\ dump'[Len(dump) + 1] = b
<1> DEFINE l == Len(dump)
           m == l % genWorkerCount
           b == Made(m, l \div genWorkerCount)
<1>1. dump \in Seq(Blobs) /\ l \in Nat /\ l < TxCount
  BY LenProperties DEF BaseType, Collect
<1>2. m \in Gens /\ Turns(l, m) = l \div genWorkerCount
  BY <1>1, TurnOfNumber, TurnsCount
<1>3. result[m] # <<>> /\ dump' = Append(dump, Head(result[m])) /\ result' = [result EXCEPT ![m] = <<>>]
  BY DEF Collect
<1> HIDE DEF l, m
<1>4. /\ Turns(l, m) = signed[m] - Full(result[m])
      /\ result[m] = <<Made(m, signed[m] - 1)>>
  BY <1>2, <1>3 DEF InTurn, TurnOf, l
<1>5. result[m] = <<b>>
  <2>1. signed[m] \in Nat
    BY <1>2 DEF BaseType
  <2>2. signed[m] - 1 = l \div genWorkerCount
    BY <1>2, <1>3, <1>4, <2>1 DEF Full
  <2> QED
    BY <1>4, <2>2
<1>6. b \in Blobs
  <2> HIDE DEF b
  <2>1. result[m] \in {<<>>} \cup {<<c>> : c \in Blobs}
    BY <1>2 DEF BaseType
  <2> QED
    BY <1>3, <1>5, <2>1
<1> HIDE DEF b
<1>7. dump' = Append(dump, b)
  BY <1>3, <1>5
<1>8. /\ dump' \in Seq(Blobs) /\ Len(dump') = l + 1 /\ dump'[l + 1] = b
      /\ \A k \in 1 .. l : dump'[k] = dump[k]
  BY <1>1, <1>6, <1>7, AppendProperties DEF l
<1> QED
  BY <1>1, <1>2, <1>3, <1>5, <1>6, <1>7, <1>8 DEF l, m, b

\* What a worker signs.
LEMMA Signed ==
  ASSUME BaseType, InTurn, NEW n \in Gens, Sign(n)
  PROVE  /\ blob' = [blob EXCEPT ![n] = Made(n, signed[n])]
         /\ Made(n, signed[n]) \in Blobs
<1>1. gpc[n] = "recv" /\ txCh[n] # <<>> /\ signed[n] \in Nat /\ dealt \in 0 .. TxCount
  BY DEF Sign, BaseType
<1>2. /\ Turns(dealt, n) = signed[n] + Busy(gpc[n]) + Full(txCh[n])
      /\ txCh[n] = <<Request(n, signed[n] + Busy(gpc[n]))>>
  BY <1>1 DEF InTurn, TurnOf
<1>3. Busy(gpc[n]) = 0 /\ Full(txCh[n]) = 1
  BY <1>1 DEF Busy, Full
<1>4. txCh[n] = <<Request(n, signed[n])>>
  <2>1. signed[n] + 0 = signed[n]
    BY <1>1
  <2> QED
    BY <1>2, <1>3, <2>1
<1>5. Head(txCh[n]) = Request(n, signed[n])
  BY <1>4
<1>6. signed[n] <= TxCount
  <2>1. Turns(dealt, n) <= dealt /\ Turns(dealt, n) \in Nat
    <3>1. dealt \in Nat
      BY <1>1, TxCountAssumption
    <3> QED
      BY <3>1, TurnsCount
  <2> QED
    BY <1>1, <1>2, <1>3, <2>1, TxCountAssumption
<1> QED
  BY <1>1, <1>5, <1>6, MadeType DEF Sign, Made

\* Every step keeps the types.
LEMMA NextBaseType == BaseType /\ InTurn /\ [Next]_vars => BaseType'
<1> SUFFICES ASSUME BaseType, InTurn, [Next]_vars PROVE BaseType'
  OBVIOUS
<1> USE DEF BaseType
<1>1. /\ TxCount \in Nat /\ genWorkerCount \in Nat \ {0} /\ dealt \in Nat
      /\ dump \in Seq(Blobs) /\ Len(dump) \in Nat
  BY TxCountAssumption, WorkerCountAssumption, LenProperties
<1>2. CASE CheckContext
  BY <1>2 DEF CheckContext, workerVars, collectorVars
<1>3. CASE Deal
  <2> DEFINE m == dealt % genWorkerCount
  <2>1. m \in Gens /\ dealt % Requests \in 0 .. Requests - 1
    <3>1. dealt \in Int
      BY <1>1
    <3> QED
      BY <1>1, <3>1, TurnOfNumber, RequestsAssumption, Numbers!Division
  <2>2. dealt' = dealt + 1 /\ dealt < TxCount /\ dpc' = "deal" /\ txCh' = [txCh EXCEPT ![m] = <<dealt % Requests>>]
    BY <1>3 DEF Deal
  <2> HIDE DEF m
  <2>3. txCh' \in [Gens -> {<<>>} \cup {<<r>> : r \in 0 .. Requests - 1}]
    BY <2>1, <2>2
  <2>4. dealt' \in 0 .. TxCount
    BY <1>1, <2>2
  <2> QED
    BY <1>3, <2>2, <2>3, <2>4 DEF Deal, workerVars, collectorVars
<1>4. CASE DealtAll
  BY <1>4 DEF DealtAll, workerVars, collectorVars
<1>5. ASSUME NEW n \in Gens, Close(n) PROVE BaseType'
  BY <1>5 DEF Close, workerVars, collectorVars
<1>6. CASE CloseFinish
  BY <1>6 DEF CloseFinish, workerVars, collectorVars
<1>7. CASE Abort \/ Kill
  <2>1. PICK h \in BOOLEAN, k \in 0 .. Len(dump) : Cut(h, k)
    BY <1>7 DEF Abort, Kill
  <2>2. SubSeq(dump, 1, k) \in Seq(Blobs)
    <3>1. \A i \in 1 .. k : dump[i] \in Blobs
      BY <1>1, ElementOfSeq
    <3>2. k \in Int /\ 1 \in Int
      BY <1>1
    <3> QED
      BY <3>1, <3>2, SubSeqProperties
  <2>3. /\ file' = [header |-> h, txs |-> SubSeq(dump, 1, k), left |-> TRUE]
        /\ UNCHANGED <<dispatcherVars, txCh, workerVars, result, collectorVars, cancelled>>
    BY <2>1 DEF Cut
  <2>4. file' \in [header : BOOLEAN, txs : Seq(Blobs), left : BOOLEAN]
    BY <2>2, <2>3
  <2> QED
    BY <2>3, <2>4 DEF dispatcherVars, workerVars, collectorVars
<1>8. ASSUME NEW n \in Gens, Worker(n) PROVE BaseType'
  <2>1. CASE Sign(n)
    <3>1. blob' \in [Gens -> Blobs \cup {None}]
      BY <2>1, Signed
    <3> QED
      BY <2>1, <3>1 DEF Sign, dispatcherVars, collectorVars
  <2>2. CASE HandOn(n)
    <3>1. blob[n] \in Blobs
      <4>1. blob[n] = Made(n, signed[n]) /\ signed[n] \in Nat
        BY <2>2 DEF HandOn, InTurn, TurnOf
      <4>2. Turns(dealt, n) = signed[n] + 1 + Full(txCh[n])
        BY <2>2 DEF HandOn, InTurn, TurnOf, Busy
      <4>3. Turns(dealt, n) <= dealt /\ Turns(dealt, n) \in Nat /\ Full(txCh[n]) \in Nat
        BY <1>1, TurnsCount DEF Full
      <4>4. signed[n] <= TxCount
        BY <1>1, <4>1, <4>2, <4>3
      <4> QED
        BY <4>1, <4>4, MadeType
    <3>2. result' \in [Gens -> {<<>>} \cup {<<b>> : b \in Blobs}]
      BY <2>2, <3>1 DEF HandOn
    <3> QED
      BY <2>2, <3>2 DEF HandOn, dispatcherVars, collectorVars
  <2>3. CASE Exit(n)
    BY <2>3 DEF Exit, dispatcherVars, collectorVars
  <2> QED
    BY <1>8, <2>1, <2>2, <2>3 DEF Worker
<1>9. CASE Collect
  <2>1. dump' \in Seq(Blobs) /\ Len(dump') <= TxCount
    <3>1. dump' \in Seq(Blobs) /\ Len(dump') = Len(dump) + 1 /\ Len(dump) < TxCount
      <4> HIDE DEF BaseType
      <4> QED
        BY <1>9, Collected
    <3> QED
      BY <1>1, <3>1
  <2>2. result' \in [Gens -> {<<>>} \cup {<<b>> : b \in Blobs}]
    BY <1>9, Collected
  <2> QED
    BY <1>9, <2>1, <2>2 DEF Collect, dispatcherVars, workerVars
<1>10. CASE Finish
  BY <1>10 DEF Finish, dispatcherVars, workerVars
<1>11. CASE Return
  BY <1>11 DEF Return, dispatcherVars, workerVars
<1>12. CASE Cancel
  BY <1>12 DEF Cancel, dispatcherVars, workerVars, collectorVars
<1>13. CASE UNCHANGED vars
  BY <1>13 DEF vars
<1> QED
  BY <1>2, <1>3, <1>4, <1>5, <1>6, <1>7, <1>8, <1>9, <1>10, <1>11, <1>12, <1>13
     DEF Next, Dispatcher, Collector

\* Every step keeps the turns: who is dealt a request, signs one, hands it on or
\* is asked for it does so in turn.
LEMMA NextInTurn == BaseType /\ InTurn /\ [Next]_vars => InTurn'
<1> SUFFICES ASSUME BaseType, InTurn, [Next]_vars PROVE InTurn'
  OBVIOUS
<1>1. /\ genWorkerCount \in Nat \ {0} /\ dealt \in Nat /\ Len(dump) \in Nat
      /\ \A n \in Gens : signed[n] \in Nat
  BY WorkerCountAssumption, TxCountAssumption, LenProperties DEF BaseType
<1>2. \A n \in Gens :
        TurnOf(n, dealt, Len(dump), txCh[n], gpc[n], signed[n], blob[n], result[n])
  BY DEF InTurn
<1>3. ASSUME UNCHANGED <<dealt, txCh, workerVars, result, dump>> PROVE InTurn'
  BY <1>2, <1>3 DEF InTurn, workerVars
<1>4. CASE Deal
  <2> DEFINE m == dealt % genWorkerCount
  <2>1. /\ dealt' = dealt + 1 /\ txCh[m] = <<>> /\ txCh' = [txCh EXCEPT ![m] = <<dealt % Requests>>]
        /\ UNCHANGED <<workerVars, result, dump>>
    BY <1>4 DEF Deal, collectorVars
  <2>2. m \in Gens
    BY <1>1, TurnOfNumber
  <2>3. \A n \in Gens \ {m} :
          Turns(dealt', n) = Turns(dealt, n) /\ txCh'[n] = txCh[n]
    <3> SUFFICES ASSUME NEW n \in Gens \ {m}
                 PROVE  Turns(dealt', n) = Turns(dealt, n) /\ txCh'[n] = txCh[n]
      OBVIOUS
    <3>1. Turns(dealt + 1, n) = Turns(dealt, n) + 0 /\ Turns(dealt, n) \in Nat
      BY <1>1, TurnsCount
    <3>2. txCh'[n] = txCh[n]
      BY <2>1 DEF BaseType
    <3> QED
      BY <2>1, <3>1, <3>2
  <2>4. /\ Turns(dealt', m) = Turns(dealt, m) + 1
        /\ Turns(dealt, m) = dealt \div genWorkerCount /\ Turns(dealt, m) \in Nat
    BY <1>1, <2>1, <2>2, TurnsCount
  <2>5. txCh'[m] = <<Request(m, Turns(dealt, m))>>
    <3>1. txCh'[m] = <<dealt % Requests>>
      BY <2>1, <2>2 DEF BaseType
    <3>2. dealt = (dealt \div genWorkerCount) * genWorkerCount + m
      BY <1>1, TurnOfNumber
    <3> HIDE DEF m
    <3> QED
      BY <2>4, <3>1, <3>2 DEF Request
  <2> HIDE DEF m
  <2>6. Turns(dealt, m) = signed[m] + Busy(gpc[m])
    <3>1. Turns(dealt, m) = signed[m] + Busy(gpc[m]) + 0
      BY <1>2, <2>1, <2>2 DEF TurnOf, Full
    <3>2. signed[m] \in Nat /\ Busy(gpc[m]) \in Nat
      BY <1>1, <2>2 DEF Busy
    <3> QED
      BY <3>1, <3>2
  <2>7. TurnOf(m, dealt', Len(dump), txCh'[m], gpc[m], signed[m], blob[m], result[m])
    <3>1. Full(txCh'[m]) = 1
      BY <2>5 DEF Full
    <3> QED
      BY <1>2, <2>2, <2>4, <2>5, <2>6, <3>1 DEF TurnOf
  <2>8. \A n \in Gens \ {m} :
          TurnOf(n, dealt', Len(dump), txCh'[n], gpc[n], signed[n], blob[n], result[n])
    BY <1>2, <2>3 DEF TurnOf
  <2>9. \A n \in Gens :
          TurnOf(n, dealt', Len(dump), txCh'[n], gpc[n], signed[n], blob[n], result[n])
    BY <2>7, <2>8
  <2> QED
    BY <2>1, <2>9 DEF InTurn, workerVars
<1>5. ASSUME NEW n \in Gens, Worker(n) PROVE InTurn'
  <2>1. UNCHANGED <<dealt, dump>>
    BY <1>5 DEF Worker, Sign, HandOn, Exit, dispatcherVars, collectorVars
  <2>2. \A j \in Gens \ {n} : /\ txCh'[j] = txCh[j] /\ gpc'[j] = gpc[j] /\ signed'[j] = signed[j]
                             /\ blob'[j] = blob[j] /\ result'[j] = result[j]
    BY <1>5 DEF Worker, Sign, HandOn, Exit, BaseType
  <2>3. SUFFICES TurnOf(n, dealt, Len(dump), txCh'[n], gpc'[n], signed'[n], blob'[n], result'[n])
    BY <1>2, <2>1, <2>2 DEF InTurn
  <2>4. signed[n] \in Nat
    BY <1>1
  <2>5. CASE Sign(n)
    <3>1. /\ gpc[n] = "recv" /\ gpc'[n] = "out" /\ txCh[n] # <<>> /\ txCh'[n] = <<>>
          /\ signed'[n] = signed[n] /\ result'[n] = result[n]
      BY <2>5 DEF Sign, BaseType
    <3>2. blob'[n] = Made(n, signed[n])
      BY <2>5, Signed DEF BaseType
    <3>3. /\ Busy(gpc[n]) = 0 /\ Full(txCh[n]) = 1
          /\ Busy(gpc'[n]) = 1 /\ Full(txCh'[n]) = 0
      BY <3>1 DEF Busy, Full
    <3>4. signed[n] + 0 + 1 = signed[n] + 1 + 0
      BY <2>4
    <3> QED
      BY <1>2, <3>1, <3>2, <3>3, <3>4 DEF TurnOf
  <2>6. CASE HandOn(n)
    <3>1. /\ gpc[n] = "out" /\ gpc'[n] = "recv" /\ result[n] = <<>> /\ result'[n] = <<blob[n]>>
          /\ signed'[n] = signed[n] + 1 /\ txCh'[n] = txCh[n]
      BY <2>6 DEF HandOn, BaseType
    <3>2. /\ Busy(gpc[n]) = 1 /\ Full(result[n]) = 0
          /\ Busy(gpc'[n]) = 0 /\ Full(result'[n]) = 1
      BY <3>1 DEF Busy, Full
    <3>3. /\ Turns(dealt, n) = signed[n] + 1 + Full(txCh[n])
          /\ Turns(Len(dump), n) = signed[n] - 0
          /\ txCh[n] # <<>> => txCh[n] = <<Request(n, signed[n] + 1)>>
          /\ blob[n] = Made(n, signed[n])
      BY <1>2, <3>1, <3>2 DEF TurnOf
    <3>4. Full(txCh[n]) \in Nat
      BY DEF Full
    <3>5. /\ signed[n] + 1 + Full(txCh[n]) = (signed[n] + 1) + 0 + Full(txCh[n])
          /\ signed[n] - 0 = (signed[n] + 1) - 1
          /\ signed[n] + 1 = (signed[n] + 1) + 0 /\ signed[n] = (signed[n] + 1) - 1
      BY <2>4, <3>4
    <3> QED
      BY <3>1, <3>2, <3>3, <3>5 DEF TurnOf
  <2>7. CASE Exit(n)
    <3>1. /\ gpc[n] = "recv" /\ gpc'[n] = "exit"
          /\ UNCHANGED <<signed, txCh, blob, result>>
      BY <2>7 DEF Exit, BaseType
    <3>2. Busy(gpc[n]) = 0 /\ Busy(gpc'[n]) = 0
      BY <3>1 DEF Busy
    <3> QED
      BY <1>2, <3>1, <3>2 DEF TurnOf
  <2> QED
    BY <1>5, <2>5, <2>6, <2>7 DEF Worker
<1>6. CASE Collect
  <2> DEFINE m == Len(dump) % genWorkerCount
             b == Made(m, Len(dump) \div genWorkerCount)
  <2>1. /\ m \in Gens /\ result[m] = <<b>> /\ result' = [result EXCEPT ![m] = <<>>]
        /\ Len(dump') = Len(dump) + 1
    BY <1>6, Collected
  <2>2. UNCHANGED <<dealt, txCh, workerVars>>
    BY <1>6 DEF Collect, dispatcherVars
  <2>3. \A n \in Gens \ {m} :
          Turns(Len(dump'), n) = Turns(Len(dump), n) /\ result'[n] = result[n]
    <3> SUFFICES ASSUME NEW n \in Gens \ {m}
                 PROVE  Turns(Len(dump'), n) = Turns(Len(dump), n) /\ result'[n] = result[n]
      OBVIOUS
    <3>1. Turns(Len(dump) + 1, n) = Turns(Len(dump), n) + 0 /\ Turns(Len(dump), n) \in Nat
      BY <1>1, TurnsCount
    <3>2. result'[n] = result[n]
      BY <2>1 DEF BaseType
    <3> QED
      BY <2>1, <3>1, <3>2
  <2>4. Turns(Len(dump'), m) = Turns(Len(dump), m) + 1 /\ Turns(Len(dump), m) \in Nat
    BY <1>1, <2>1, TurnsCount
  <2> HIDE DEF m, b
  <2>5. TurnOf(m, dealt, Len(dump'), txCh[m], gpc[m], signed[m], blob[m], result'[m])
    <3>1. result'[m] = <<>> /\ Full(result'[m]) = 0 /\ Full(result[m]) = 1
      BY <2>1 DEF BaseType, Full
    <3>2. Turns(Len(dump), m) = signed[m] - 1 /\ signed[m] \in Nat
      BY <1>1, <1>2, <2>1, <3>1 DEF TurnOf
    <3>3. Turns(Len(dump'), m) = signed[m] - 0
      BY <2>4, <3>2
    <3> QED
      BY <1>2, <2>1, <3>1, <3>3 DEF TurnOf
  <2>6. \A n \in Gens \ {m} :
          TurnOf(n, dealt, Len(dump'), txCh[n], gpc[n], signed[n], blob[n], result'[n])
    BY <1>2, <2>3 DEF TurnOf
  <2>7. \A n \in Gens :
          TurnOf(n, dealt, Len(dump'), txCh[n], gpc[n], signed[n], blob[n], result'[n])
    BY <2>5, <2>6
  <2> QED
    BY <2>2, <2>7 DEF InTurn, workerVars
<1>7. CASE CheckContext \/ DealtAll \/ (\E n \in Gens : Close(n)) \/ CloseFinish
  BY <1>3, <1>7 DEF CheckContext, DealtAll, Close, CloseFinish, collectorVars
<1>8. CASE Abort \/ Kill
  BY <1>3, <1>8 DEF Abort, Kill, Cut, dispatcherVars, collectorVars
<1>9. CASE Finish \/ Return \/ Cancel \/ UNCHANGED vars
  BY <1>3, <1>9 DEF Finish, Return, Cancel, vars, dispatcherVars, workerVars, collectorVars
<1> QED
  BY <1>4, <1>5, <1>6, <1>7, <1>8, <1>9 DEF Next, Dispatcher, Collector

\* A transaction that is collected is the next one.
LEMMA NextInOrder == BaseType /\ InTurn /\ DumpInOrder /\ [Next]_vars => DumpInOrder'
<1> SUFFICES ASSUME BaseType, InTurn, DumpInOrder, [Next]_vars PROVE DumpInOrder'
  OBVIOUS
<1>1. CASE dump' = dump
  BY <1>1 DEF DumpInOrder
<1>2. CASE Collect
  <2> DEFINE l == Len(dump)
             b == Made(l % genWorkerCount, l \div genWorkerCount)
  <2>1. /\ l \in Nat /\ Len(dump') = l + 1 /\ dump'[l + 1] = b
        /\ \A k \in 1 .. l : dump'[k] = dump[k]
    BY <1>2, Collected
  <2>2. b = [req |-> l % Requests,
             nonce |-> Nonce(l % genWorkerCount, l \div genWorkerCount)]
    <3>1. l = (l \div genWorkerCount) * genWorkerCount + (l % genWorkerCount)
      BY <2>1, TurnOfNumber
    <3> QED
      BY <3>1 DEF Made, Request
  <2> HIDE DEF l, b
  <2>3. ASSUME NEW k \in 0 .. l
        PROVE  dump'[k + 1] = [req |-> k % Requests,
                               nonce |-> Nonce(k % genWorkerCount, k \div genWorkerCount)]
    <3>1. CASE k = l
      BY <2>1, <2>2, <3>1
    <3>2. CASE k # l
      <4>1. k \in 0 .. l - 1 /\ k + 1 \in 1 .. l
        BY <2>1, <3>2
      <4> QED
        BY <2>1, <4>1 DEF DumpInOrder, l
    <3> QED
      BY <3>1, <3>2
  <2>4. Len(dump') - 1 = l
    BY <2>1
  <2> QED
    BY <2>3, <2>4 DEF DumpInOrder
<1>3. dump' = dump \/ Collect
  BY DEF Next, Dispatcher, Worker, Collector, CheckContext, Deal, DealtAll, Close, CloseFinish,
         Abort, Kill, Cut, Sign, HandOn, Exit, Finish, Return, Cancel, vars, collectorVars
<1> QED
  BY <1>1, <1>2, <1>3

\* The first k elements of a list, for k its length.
LEMMA WholeSeq ==
  ASSUME NEW S, NEW s \in Seq(S)
  PROVE  s = SubSeq(s, 1, Len(s))
<1>1. Len(s) \in Nat /\ \A i \in 1 .. Len(s) : s[i] \in S
  BY LenProperties, ElementOfSeq
<1> DEFINE l == Len(s)
           t == SubSeq(s, 1, l)
<1>2. l \in Int /\ 1 \in Int /\ l - 1 + 1 = l
  BY <1>1
<1>3. t \in Seq(S) /\ Len(t) = l /\ \A i \in 1 .. l : t[i] = s[i]
  BY <1>1, <1>2, SubSeqProperties
<1> HIDE DEF t, l
<1> QED
  BY <1>3, SeqEqual DEF t, l

\* A process that has ended leaves the file as it is.
LEMMA NextFileIsPrefix == BaseType /\ FileIsPrefix /\ [Next]_vars => FileIsPrefix'
<1> SUFFICES ASSUME BaseType, FileIsPrefix, [Next]_vars PROVE FileIsPrefix'
  OBVIOUS
<1>1. dump \in Seq(Blobs) /\ Len(dump) \in Nat
  BY LenProperties DEF BaseType
<1>2. CASE Abort \/ Kill
  <2>1. PICK h \in BOOLEAN, k \in 0 .. Len(dump) : Cut(h, k)
    BY <1>2 DEF Abort, Kill
  <2>2. file'.txs = SubSeq(dump, 1, k) /\ dump' = dump
    BY <2>1 DEF Cut, collectorVars
  <2> QED
    BY <2>2 DEF FileIsPrefix
<1>3. CASE Return
  <2>1. file'.txs = dump /\ dump' = dump
    BY <1>3 DEF Return
  <2>2. dump = SubSeq(dump, 1, Len(dump)) /\ Len(dump) \in 0 .. Len(dump)
    BY <1>1, WholeSeq
  <2> QED
    BY <2>1, <2>2 DEF FileIsPrefix
<1>4. ASSUME file' = file, dump' = dump PROVE FileIsPrefix'
  BY <1>4 DEF FileIsPrefix
<1>5. ASSUME file' = file, ~file.left PROVE FileIsPrefix'
  BY <1>5 DEF FileIsPrefix
<1>6. CASE Collect
  BY <1>5, <1>6 DEF Collect, Running
<1>7. CASE UNCHANGED vars
  BY <1>4, <1>7 DEF vars
<1>8. CASE ~(Abort \/ Kill \/ Return \/ Collect \/ UNCHANGED vars)
  <2>1. file' = file /\ dump' = dump
    BY <1>8 DEF Next, Dispatcher, Worker, Collector, CheckContext, Deal, DealtAll, Close,
                CloseFinish, Sign, HandOn, Exit, Finish, Cancel, collectorVars
  <2> QED
    BY <1>4, <2>1
<1> QED
  BY <1>2, <1>3, <1>6, <1>7, <1>8

-----------------------------------------------------------------------------
(* The theorems. *)

\* Initially no turn has been taken.
LEMMA InitInvariants == Init => BaseType /\ InTurn /\ DumpInOrder /\ FileIsPrefix
<1> SUFFICES ASSUME Init PROVE BaseType /\ InTurn /\ DumpInOrder /\ FileIsPrefix
  OBVIOUS
<1>1. dump = <<>> /\ dump \in Seq(Blobs) /\ Len(dump) = 0 /\ TxCount \in Nat
  BY TxCountAssumption DEF Init
<1>2. file \in [header : BOOLEAN, txs : Seq(Blobs), left : BOOLEAN] /\ ~file.left
  BY DEF Init, NoFile
<1>3. BaseType
  <2>1. /\ txCh \in [Gens -> {<<>>} \cup {<<r>> : r \in 0 .. Requests - 1}]
        /\ result \in [Gens -> {<<>>} \cup {<<b>> : b \in Blobs}]
        /\ blob \in [Gens -> Blobs \cup {None}]
        /\ gpc \in [Gens -> {"recv", "out", "exit"}]
        /\ signed \in [Gens -> Nat] /\ closed \in [Gens -> BOOLEAN]
    BY DEF Init
  <2>2. dealt \in 0 .. TxCount /\ dealt < TxCount /\ dpc \in {"deal", "send", "close", "finished"}
    BY <1>1, TxCountAssumption DEF Init
  <2>3. cpc \in {"collect", "wait", "done"} /\ cancelled \in BOOLEAN
    BY DEF Init
  <2>4. dump \in Seq(Blobs) /\ Len(dump) <= TxCount
    BY <1>1
  <2> QED
    BY <1>2, <2>1, <2>2, <2>3, <2>4, Zenon DEF BaseType
<1>4. InTurn
  <2> SUFFICES ASSUME NEW n \in Gens
               PROVE  TurnOf(n, dealt, Len(dump), txCh[n], gpc[n], signed[n], blob[n], result[n])
    BY DEF InTurn
  <2>1. dealt = 0 /\ txCh[n] = <<>> /\ gpc[n] = "recv" /\ signed[n] = 0 /\ result[n] = <<>>
    BY DEF Init
  <2>2. Turns(0, n) = 0
    <3>1. 0 \in Nat
      OBVIOUS
    <3> QED
      BY <3>1, TurnsCount
  <2>3. Busy(gpc[n]) = 0 /\ Full(txCh[n]) = 0 /\ Full(result[n]) = 0
    BY <2>1 DEF Busy, Full
  <2>4. Turns(dealt, n) = signed[n] + Busy(gpc[n]) + Full(txCh[n])
    BY <2>1, <2>2, <2>3
  <2>5. Turns(Len(dump), n) = signed[n] - Full(result[n])
    BY <1>1, <2>1, <2>2, <2>3
  <2> QED
    BY <2>1, <2>4, <2>5 DEF TurnOf
<1> QED
  BY <1>1, <1>2, <1>3, <1>4 DEF DumpInOrder, FileIsPrefix

\* The invariants hold throughout.
LEMMA Invariants == Spec => [](BaseType /\ InTurn /\ DumpInOrder /\ FileIsPrefix)
<1> DEFINE I == BaseType /\ InTurn /\ DumpInOrder /\ FileIsPrefix
<1>1. Init => I
  BY InitInvariants
<1>2. I /\ [Next]_vars => I'
  BY NextBaseType, NextInTurn, NextInOrder, NextFileIsPrefix
<1> QED
  BY <1>1, <1>2, PTL DEF Spec

\* Type correctness: nobody signs more transactions than were asked for
\* (gen.go:153-160, 196-217).
THEOREM TypeCorrect == Spec => []TypeOK
<1>1. BaseType /\ InTurn => TypeOK
  <2> SUFFICES ASSUME BaseType, InTurn PROVE TypeOK
    OBVIOUS
  <2>1. \A n \in Gens : signed[n] \in 0 .. TxCount
    <3> SUFFICES ASSUME NEW n \in Gens PROVE signed[n] \in 0 .. TxCount
      OBVIOUS
    <3>1. signed[n] \in Nat /\ dealt \in Nat /\ dealt <= TxCount
      BY TxCountAssumption DEF BaseType
    <3>2. Turns(dealt, n) = signed[n] + Busy(gpc[n]) + Full(txCh[n])
      BY DEF InTurn, TurnOf
    <3>3. Turns(dealt, n) \in Nat /\ Turns(dealt, n) <= dealt
      BY <3>1, TurnsCount
    <3>4. Busy(gpc[n]) \in Nat /\ Full(txCh[n]) \in Nat
      BY DEF Busy, Full
    <3> QED
      BY <3>1, <3>2, <3>3, <3>4, TxCountAssumption
  <2>2. file.txs \in Seq(Blobs)
    BY DEF BaseType
  <2> QED
    BY <2>1, <2>2 DEF BaseType, TypeOK, Blobs
<1> QED
  BY <1>1, Invariants, PTL

\* The dump of given options is the same, however the workers interleave
\* (gen.go:153-179).
THEOREM DumpIsDetermined == Spec => []DumpInOrder
  BY Invariants, PTL

\* The nonce of the a-th transaction, as long as the workers and the transactions
\* are as few as the comment supposes (gen.go:192).
LEMMA NonceOfTurn ==
  ASSUME Enough, NEW a \in Nat, a < TxCount
  PROVE  LET n == a % genWorkerCount
             i == a \div genWorkerCount
         IN  Nonce(n, i) = NonceSpan * n + i /\ n \in Nat /\ i \in 0 .. NonceSpan - 1
<1> DEFINE w == genWorkerCount
           n == a % w
           i == a \div w
<1>1. w \in Nat \ {0} /\ NonceSpan \in Nat \ {0} /\ NonceMod \in Nat \ {0} /\ TxCount \in Nat
  BY WorkerCountAssumption, NonceAssumption, TxCountAssumption
<1>2. w * NonceSpan <= NonceMod /\ a < w * NonceSpan
  <2>1. w * NonceSpan \in Nat
    BY <1>1
  <2>2. w * NonceSpan <= NonceMod /\ TxCount <= w * NonceSpan
    BY DEF Enough
  <2> HIDE DEF w
  <2> QED
    BY <1>1, <2>1, <2>2
<1>3. n \in Gens /\ n \in 0 .. w - 1 /\ i \in Nat /\ a = i * w + n
  BY TurnOfNumber DEF Gens
<1>4. Nonce(n, i) = ((BitOr(n, i \div NonceSpan) * NonceSpan) + (i % NonceSpan)) % NonceMod
  BY DEF Nonce
<1>5. BitOr(n, 0) = n
  <2>1. n \in 0 .. genWorkerCount - 1 /\ 0 \in 0 .. TxCount
    BY <1>1, <1>3
  <2> QED
    BY <2>1, BitOrAssumption
<1> HIDE DEF w, n, i
<1>6. i < NonceSpan
  <2>1. i >= NonceSpan => i * w >= NonceSpan * w
    BY <1>1, <1>3
  <2>2. NonceSpan * w = w * NonceSpan /\ i * w \in Nat /\ w * NonceSpan \in Nat
    BY <1>1, <1>3
  <2> QED
    BY <1>1, <1>2, <1>3, <2>1, <2>2
<1>7. i \div NonceSpan = 0 /\ i % NonceSpan = i
  <2>1. i = NonceSpan * 0 + i /\ i \in 0 .. NonceSpan - 1 /\ i \in Int /\ 0 \in Int
    BY <1>1, <1>3, <1>6
  <2> QED
    BY <1>1, <2>1, Numbers!DivisionIsUnique
<1> DEFINE c == (n * NonceSpan) + i
<1>8. c \in 0 .. NonceMod - 1 /\ c = NonceSpan * n + i
  <2>1. (n + 1) * NonceSpan = n * NonceSpan + NonceSpan /\ n * NonceSpan \in Nat
    BY <1>1, <1>3
  <2>2. (n + 1) * NonceSpan <= w * NonceSpan /\ w * NonceSpan \in Nat
    BY <1>1, <1>3
  <2>3. NonceSpan * n = n * NonceSpan
    BY <1>1, <1>3
  <2> QED
    BY <1>1, <1>2, <1>3, <1>6, <2>1, <2>2, <2>3
<1>9. Nonce(n, i) = c % NonceMod
  BY <1>4, <1>5, <1>7
<1> HIDE DEF c
<1>10. c % NonceMod = c
  <2>1. c = NonceMod * 0 + c /\ c \in Int /\ 0 \in Int
    BY <1>1, <1>8
  <2> QED
    BY <1>1, <1>8, <2>1, Numbers!DivisionIsUnique
<1>11. Nonce(n, i) = NonceSpan * n + i /\ n \in Nat /\ i \in 0 .. NonceSpan - 1
  BY <1>1, <1>3, <1>6, <1>8, <1>9, <1>10
<1> QED
  BY <1>11 DEF n, i, w

\* No two transactions of a dump are equal: the workers' ranges of nonces do not
\* meet, and no worker leaves its own (gen.go:191-198).
THEOREM DumpHasNoDoubles == Spec => []TxsDistinct
<1>1. BaseType /\ DumpInOrder => TxsDistinct
  <2> SUFFICES ASSUME BaseType, DumpInOrder, Enough,
                      NEW j \in DOMAIN dump, NEW k \in DOMAIN dump, dump[j] = dump[k]
               PROVE  j = k
    BY DEF TxsDistinct
  <2>1. dump \in Seq(Blobs) /\ Len(dump) <= TxCount /\ Len(dump) \in Nat /\ TxCount \in Nat
    BY LenProperties, TxCountAssumption DEF BaseType
  <2>2. DOMAIN dump = 1 .. Len(dump)
    BY <2>1, LenProperties
  <2> DEFINE N(a) == Nonce(a % genWorkerCount, a \div genWorkerCount)
  <2>3. ASSUME NEW l \in DOMAIN dump
        PROVE  l - 1 \in Nat /\ l - 1 < TxCount /\ dump[l].nonce = N(l - 1)
    <3>1. l - 1 \in 0 .. Len(dump) - 1 /\ (l - 1) + 1 = l
      BY <2>1, <2>2
    <3>2. dump[(l - 1) + 1] = [req |-> (l - 1) % Requests, nonce |-> N(l - 1)]
      BY <3>1 DEF DumpInOrder
    <3> HIDE DEF N
    <3> QED
      BY <2>1, <2>2, <3>1, <3>2
  <2>4. \A a, b \in Nat : a < TxCount /\ b < TxCount /\ N(a) = N(b) => a = b
    <3> SUFFICES ASSUME NEW a \in Nat, NEW b \in Nat, a < TxCount, b < TxCount, N(a) = N(b)
                 PROVE  a = b
      OBVIOUS
    <3> DEFINE na == a % genWorkerCount
               ia == a \div genWorkerCount
               nb == b % genWorkerCount
               ib == b \div genWorkerCount
               c == N(a)
    <3>1. c = NonceSpan * na + ia /\ na \in Nat /\ ia \in 0 .. NonceSpan - 1
      BY NonceOfTurn
    <3>2. c = NonceSpan * nb + ib /\ nb \in Nat /\ ib \in 0 .. NonceSpan - 1
      <4>1. N(b) = NonceSpan * nb + ib /\ nb \in Nat /\ ib \in 0 .. NonceSpan - 1
        BY NonceOfTurn
      <4> HIDE DEF N
      <4> QED
        BY <4>1
    <3>3. a = ia * genWorkerCount + na /\ b = ib * genWorkerCount + nb
      BY TurnOfNumber
    <3> HIDE DEF na, ia, nb, ib, c
    <3>4. NonceSpan \in Nat \ {0} /\ na \in Int /\ ia \in Int /\ nb \in Int /\ ib \in Int
      BY <3>1, <3>2, NonceAssumption
    <3>5. c \in Int
      BY <3>1, <3>4
    <3>6. c \div NonceSpan = na /\ c % NonceSpan = ia
      BY <3>1, <3>4, <3>5, Numbers!DivisionIsUnique
    <3>7. c \div NonceSpan = nb /\ c % NonceSpan = ib
      BY <3>2, <3>4, <3>5, Numbers!DivisionIsUnique
    <3> QED
      BY <3>3, <3>6, <3>7
  <2> HIDE DEF N
  <2>5. j - 1 = k - 1
    BY <2>3, <2>4
  <2> QED
    BY <2>1, <2>2, <2>5
<1> QED
  BY <1>1, Invariants, PTL

\* The benchmark accepts no dump but a complete one, whenever the generator ended
\* (writer.go:20-43, reader.go:41-61, worker.go:190).
THEOREM CutDumpsAreRefused == Spec => []OnlyWholeDumps
<1>1. BaseType /\ FileIsPrefix => OnlyWholeDumps
  <2> SUFFICES ASSUME BaseType, FileIsPrefix, file.left, Benchmarked(file)
               PROVE  Len(dump) = TxCount /\ ReadDump(file).txs = dump
    BY DEF OnlyWholeDumps
  <2>1. /\ dump \in Seq(Blobs) /\ Len(dump) \in Nat /\ Len(dump) <= TxCount
        /\ TxCount \in Nat /\ \A i \in 1 .. Len(dump) : dump[i] \in Blobs
    BY LenProperties, ElementOfSeq, TxCountAssumption DEF BaseType
  <2>2. PICK k \in 0 .. Len(dump) : file.txs = SubSeq(dump, 1, k)
    BY DEF FileIsPrefix
  <2>3. Len(file.txs) = k
    <3>1. k \in Int /\ 1 \in Int /\ \A i \in 1 .. k : dump[i] \in Blobs
      BY <2>1
    <3>2. Len(SubSeq(dump, 1, k)) = IF 1 <= k THEN k - 1 + 1 ELSE 0
      BY <3>1, SubSeqProperties
    <3> QED
      BY <2>1, <2>2, <3>1, <3>2
  <2>4. /\ file.header /\ ~(Len(file.txs) < TxCount)
        /\ ReadDump(file).txs = SubSeq(file.txs, 1, TxCount)
    BY Zenon DEF Benchmarked, ReadDump
  <2>5. k = Len(dump) /\ Len(dump) = TxCount
    BY <2>1, <2>3, <2>4
  <2>6. SubSeq(dump, 1, TxCount) = dump
    BY <2>1, <2>5, WholeSeq
  <2>7. file.txs = dump
    BY <2>2, <2>5, <2>6
  <2> QED
    BY <2>4, <2>5, <2>6, <2>7
<1> QED
  BY <1>1, Invariants, PTL
=============================================================================
