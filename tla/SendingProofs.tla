---------------------------- MODULE SendingProofs ----------------------------
(***************************************************************************)
(* Proofs about Sending, for any number of workers, any dump and any ring  *)
(* at least as large as the dump.                                          *)
(***************************************************************************)
EXTENDS Sending, FiniteSetTheorems, SequenceTheorems, TLAPS

-----------------------------------------------------------------------------
(* Type correctness.  A worker that holds a transaction holds one of the   *)
(* dump, so what Reenqueue puts back is one too.                           *)

HeldIsTx == \A w \in Workers : wpc[w] \in Holding => held[w] \in Txs

TypeInv == TypeOK /\ HeldIsTx

\* The dump is a sequence of its transactions (reader.go:50-61).
LEMMA DumpIsSeq == [i \in Txs |-> i] \in Seq(Txs) /\ Len([i \in Txs |-> i]) = DumpSize
<1> DEFINE dump == [i \in Txs |-> i]
<1>1. dump \in [1 .. DumpSize -> Txs]
  BY DEF Txs
<1>2. dump \in Seq(Txs)
  BY <1>1, DumpSizeAssumption, SeqDef
<1>3. DOMAIN dump = 1 .. DumpSize
  BY DEF Txs
<1>4. Len(dump) = DumpSize
  BY <1>2, <1>3, DumpSizeAssumption, LenProperties
<1> QED
  BY <1>2, <1>4

\* The strengthened type invariant holds before the first worker starts.
LEMMA InitType == Init => TypeInv
<1> SUFFICES ASSUME Init PROVE TypeInv
  OBVIOUS
<1>1. queue \in Seq(Txs)
  BY DumpIsSeq DEF Init
<1>2. HeldIsTx
  BY DEF Init, HeldIsTx, Holding
<1>3. rep \in [AverageRPS : Nat, TxCount : Nat, ErrCount : Nat]
  BY DEF Init, NewReporter
<1>4. held \in [Workers -> 0 .. DumpSize]
  BY DumpSizeAssumption DEF Init
<1> QED
  BY <1>1, <1>2, <1>3, <1>4 DEF Init, TypeInv, TypeOK, WorkerPC

\* Every step of workers and Sender keeps it.
LEMMA NextType == TypeInv /\ [Next]_vars => TypeInv'
<1> SUFFICES ASSUME TypeInv, [Next]_vars PROVE TypeInv'
  OBVIOUS
<1> USE DumpSizeAssumption DEF TypeInv, TypeOK, HeldIsTx, Txs, WorkerPC, Holding
<1>1. ASSUME NEW w \in Workers, Spawn(w) PROVE TypeInv'
  BY <1>1 DEF Spawn, Goto
<1>2. ASSUME NEW w \in Workers, Expire(w) PROVE TypeInv'
  BY <1>2 DEF Expire, senderVars
<1>3. ASSUME NEW w \in Workers, Stop(w) \/ Proceed(w) \/ Drained(w) \/ SeeTx(w)
      PROVE  TypeInv'
  BY <1>3 DEF Stop, Proceed, Drained, SeeTx, Goto, senderVars
<1>4. ASSUME NEW w \in Workers, Get(w) PROVE TypeInv'
  BY <1>4 DEF Get, Goto, senderVars
<1>5. ASSUME NEW w \in Workers, Reply(w) PROVE TypeInv'
  BY <1>5 DEF Reply, Accepted, OutOfMemory, Refused, LostReply, Goto, senderVars
<1>6. ASSUME NEW w \in Workers, Count(w) PROVE TypeInv'
  BY <1>6 DEF Count, Goto, senderVars
<1>7. ASSUME NEW w \in Workers, ReportRPS(w) PROVE TypeInv'
  BY <1>7 DEF ReportRPS, UpdateRPS, Goto
<1>8. ASSUME NEW w \in Workers, Reenqueue(w) PROVE TypeInv'
  BY <1>8 DEF Reenqueue, Goto, senderVars
<1>9. ASSUME NEW w \in Workers, CountErr(w) PROVE TypeInv'
  BY <1>9 DEF CountErr, Goto, senderVars
<1>10. CASE SenderFinish
  BY <1>10 DEF SenderFinish, FinalReport, UpdateRPS, UpdateErr, UpdateCnt, workerVars
<1>11. CASE Cancel
  BY <1>11 DEF Cancel, workerVars
<1>12. CASE UNCHANGED vars
  BY <1>12 DEF vars
<1> QED
  BY <1>1, <1>2, <1>3, <1>4, <1>5, <1>6, <1>7, <1>8, <1>9, <1>10, <1>11, <1>12
  DEF Next, WorkerStep

\* A worker that has left Get holds a transaction of the dump (worker.go:238).
LEMMA TypeInvariant == Spec => []TypeInv
  BY InitType, NextType, PTL DEF Spec

\* The variables of the sending half keep their types.
THEOREM TypeCorrect == Spec => []TypeOK
  BY TypeInvariant, PTL DEF TypeInv
-----------------------------------------------------------------------------
(* Conservation, and what it gives to a worker about to put back.          *)

\* The holders are some of the workers, hence finitely many.
LEMMA HoldersFinite == IsFiniteSet(Holders) /\ Cardinality(Holders) \in Nat
<1>1. Holders \subseteq Workers
  BY DEF Holders
<1> QED
  BY <1>1, WorkersAssumption, FS_Subset, FS_CardinalityType

\* A worker that takes a transaction joins the holders, one that gives it
\* away leaves them, and any other move leaves them alone.
LEMMA HoldersMove ==
  ASSUME TypeOK, NEW w \in Workers, NEW a, NEW b, Goto(w, a, b)
  PROVE  /\ a \notin Holding /\ b \in Holding
              => Cardinality(Holders') = Cardinality(Holders) + 1
         /\ a \in Holding /\ b \notin Holding
              => Cardinality(Holders') = Cardinality(Holders) - 1
         /\ (a \in Holding <=> b \in Holding)
              => Cardinality(Holders') = Cardinality(Holders)
<1>1. ASSUME a \notin Holding, b \in Holding
      PROVE  Cardinality(Holders') = Cardinality(Holders) + 1
  <2>1. Holders' = Holders \cup {w} /\ w \notin Holders
    BY <1>1 DEF TypeOK, Goto, Holders
  <2> QED
    BY <2>1, HoldersFinite, FS_AddElement
<1>2. ASSUME a \in Holding, b \notin Holding
      PROVE  Cardinality(Holders') = Cardinality(Holders) - 1
  <2>1. Holders' = Holders \ {w} /\ w \in Holders
    BY <1>2 DEF TypeOK, Goto, Holders
  <2> QED
    BY <2>1, HoldersFinite, FS_RemoveElement
<1>3. ASSUME a \in Holding <=> b \in Holding
      PROVE  Cardinality(Holders') = Cardinality(Holders)
  <2>1. Holders' = Holders
    BY <1>3 DEF TypeOK, Goto, Holders
  <2> QED
    BY <2>1
<1> QED
  BY <1>1, <1>2, <1>3

\* All of the dump is queued at the start.
LEMMA InitConservation == Init => Conservation
<1> SUFFICES ASSUME Init PROVE Conservation
  OBVIOUS
<1>1. Holders = {}
  BY DEF Init, Holders, Holding
<1>2. Cardinality(Holders) = 0
  BY <1>1, FS_EmptySet
<1>3. Len(queue) = DumpSize
  BY DumpIsSeq DEF Init
<1> QED
  BY <1>2, <1>3, DumpSizeAssumption DEF Init, Conservation

\* Each step moves a transaction at most once, from one place to another
\* (worker.go:238-260).
LEMMA NextConservation == TypeInv /\ Conservation /\ [Next]_vars => Conservation'
<1> SUFFICES ASSUME TypeInv, Conservation, [Next]_vars PROVE Conservation'
  OBVIOUS
<1> USE HoldersFinite DEF Conservation, Holding
<1>t. /\ TypeOK
      /\ queue \in Seq(Txs)
      /\ Len(queue) \in Nat /\ countTxs \in Nat /\ countErr \in Nat
  BY LenProperties DEF TypeInv, TypeOK
<1>1. ASSUME NEW w \in Workers, Spawn(w) PROVE Conservation'
  <2>1. Cardinality(Holders') = Cardinality(Holders)
    BY <1>1, <1>t, HoldersMove DEF Spawn
  <2> QED
    BY <1>1, <2>1 DEF Spawn
<1>2. ASSUME NEW w \in Workers, Expire(w) PROVE Conservation'
  BY <1>2 DEF Expire, senderVars, Holders
<1>3. ASSUME NEW w \in Workers, Stop(w) \/ Proceed(w) \/ Drained(w) \/ SeeTx(w)
      PROVE  Conservation'
  <2>1. Goto(w, "select", "stopped") \/ Goto(w, "select", "len")
        \/ Goto(w, "len", "stopped") \/ Goto(w, "len", "get")
    BY <1>3 DEF Stop, Proceed, Drained, SeeTx
  <2>2. Cardinality(Holders') = Cardinality(Holders)
    BY <2>1, <1>t, HoldersMove
  <2> QED
    BY <1>3, <2>2 DEF Stop, Proceed, Drained, SeeTx, senderVars
<1>4. ASSUME NEW w \in Workers, Get(w) PROVE Conservation'
  <2>1. Goto(w, "get", "send") /\ queue # <<>> /\ queue' = Tail(queue)
    BY <1>4 DEF Get
  <2>2. Len(queue') = Len(queue) - 1
    BY <2>1, <1>t, HeadTailProperties
  <2>3. Cardinality(Holders') = Cardinality(Holders) + 1
    BY <2>1, <1>t, HoldersMove
  <2>4. UNCHANGED <<countTxs, countErr>>
    BY <1>4 DEF Get
  <2> QED
    BY <2>2, <2>3, <2>4, <1>t
<1>5. ASSUME NEW w \in Workers, Reply(w) PROVE Conservation'
  <2>1. Goto(w, "send", "acked") \/ Goto(w, "send", "full") \/ Goto(w, "send", "failed")
    BY <1>5 DEF Reply, Accepted, OutOfMemory, Refused, LostReply
  <2>2. Cardinality(Holders') = Cardinality(Holders)
    BY <2>1, <1>t, HoldersMove
  <2>3. UNCHANGED <<queue, countTxs, countErr>>
    BY <1>5 DEF Reply, Accepted, OutOfMemory, Refused, LostReply
  <2> QED
    BY <2>2, <2>3
<1>6. ASSUME NEW w \in Workers, Count(w) PROVE Conservation'
  <2>1. Goto(w, "acked", "rps")
    BY <1>6 DEF Count
  <2>2. Cardinality(Holders') = Cardinality(Holders) - 1
    BY <2>1, <1>t, HoldersMove
  <2>3. countTxs' = countTxs + 1 /\ queue' = queue /\ countErr' = countErr
    BY <1>6 DEF Count
  <2>4. Cardinality(Holders) \in Nat
    BY HoldersFinite, FS_CardinalityType
  <2> QED
    BY <2>2, <2>3, <2>4, <1>t
<1>7. ASSUME NEW w \in Workers, ReportRPS(w) PROVE Conservation'
  <2>1. Goto(w, "rps", "select")
    BY <1>7 DEF ReportRPS
  <2>2. Cardinality(Holders') = Cardinality(Holders)
    BY <2>1, <1>t, HoldersMove
  <2>3. UNCHANGED <<queue, countTxs, countErr>>
    BY <1>7 DEF ReportRPS
  <2> QED
    BY <2>2, <2>3
<1>8. ASSUME NEW w \in Workers, Reenqueue(w) PROVE Conservation'
  <2>1. Goto(w, "full", "select") /\ queue' = Append(queue, held[w])
    BY <1>8 DEF Reenqueue
  <2>2. held[w] \in Txs
    BY <2>1 DEF TypeInv, HeldIsTx, Goto
  <2>3. Len(queue') = Len(queue) + 1
    BY <2>1, <2>2, <1>t, AppendProperties
  <2>4. Cardinality(Holders') = Cardinality(Holders) - 1
    BY <2>1, <1>t, HoldersMove
  <2>5. UNCHANGED <<countTxs, countErr>>
    BY <1>8 DEF Reenqueue
  <2> QED
    BY <2>3, <2>4, <2>5, <1>t
<1>9. ASSUME NEW w \in Workers, CountErr(w) PROVE Conservation'
  <2>1. Goto(w, "failed", "select")
    BY <1>9 DEF CountErr
  <2>2. Cardinality(Holders') = Cardinality(Holders) - 1
    BY <2>1, <1>t, HoldersMove
  <2>3. countErr' = countErr + 1 /\ queue' = queue /\ countTxs' = countTxs
    BY <1>9 DEF CountErr
  <2>4. Cardinality(Holders) \in Nat
    BY HoldersFinite, FS_CardinalityType
  <2> QED
    BY <2>2, <2>3, <2>4, <1>t
<1>10. CASE SenderFinish
  BY <1>10 DEF SenderFinish, workerVars, Holders
<1>11. CASE Cancel
  BY <1>11 DEF Cancel, workerVars, Holders
<1>12. CASE UNCHANGED vars
  BY <1>12 DEF vars, Holders
<1> QED
  BY <1>1, <1>2, <1>3, <1>4, <1>5, <1>6, <1>7, <1>8, <1>9, <1>10, <1>11, <1>12
  DEF Next, WorkerStep

\* Every transaction of the dump stays in exactly one place (worker.go:238-260).
THEOREM Conserved == Spec => []Conservation
  BY InitConservation, NextConservation, TypeInvariant, PTL DEF Spec

\* The place of the transaction a worker holds is never taken, so Put does not
\* block (worker.go:245), however many workers there are.
THEOREM PutIsFree == Spec => []PutNeverBlocks
<1>1. TypeInv /\ Conservation => PutNeverBlocks
  <2> SUFFICES ASSUME TypeInv, Conservation, NEW w \in Workers, wpc[w] = "full"
               PROVE  Len(queue) < QueueCap
    BY DEF PutNeverBlocks
  <2>1. w \in Holders
    BY DEF Holders, Holding
  <2>2. Cardinality(Holders) # 0
    BY <2>1, HoldersFinite, FS_EmptySet
  <2>3. Len(queue) \in Nat /\ countTxs \in Nat /\ countErr \in Nat
    BY LenProperties DEF TypeInv, TypeOK
  <2> QED
    BY <2>2, <2>3, HoldersFinite, QueueCapAssumption, DumpSizeAssumption
    DEF Conservation
<1> QED
  BY <1>1, TypeInvariant, Conserved, PTL
-----------------------------------------------------------------------------
(* The end of the sending half.  A worker only reports a count it has seen, *)
(* nothing but the Sender writes the totals, and it writes them when every  *)
(* worker is stopped.  The last worker to stop, if it is stopped neither by *)
(* its timer nor by a cancellation, has seen the queue empty, and only a    *)
(* worker that has not stopped could have put something back since.         *)

SenderIsLast ==
    /\ sentOut <=> spc = "done"
    /\ sentOut => \A w \in Workers : wpc[w] = "stopped"

CountsAreSeen ==
    /\ \A w \in Workers : count[w] <= countTxs
    /\ rep.AverageRPS <= countTxs
    /\ ~sentOut => rep.TxCount = 0 /\ rep.ErrCount = 0

LastOneOut ==
    (\A w \in Workers : wpc[w] = "stopped")
        => queue = <<>> \/ done \/ \E w \in Workers : expired[w]

EndInv == SenderIsLast /\ CountsAreSeen /\ LastOneOut /\ ReportSettled

\* Nothing has ended at the start.
LEMMA InitEnd == Init => EndInv
<1> SUFFICES ASSUME Init PROVE EndInv
  OBVIOUS
<1>1. PICK w \in Workers : TRUE
  BY WorkersAssumption
<1>2. wpc[w] # "stopped"
  BY DEF Init
<1> QED
  BY <1>2 DEF Init, EndInv, SenderIsLast, CountsAreSeen, LastOneOut,
              ReportSettled, NewReporter

\* A total that is not written because it is zero is zero already.
LEMMA FieldUpdates ==
  ASSUME NEW a \in Nat, NEW c \in Nat, NEW e \in Nat, a <= c
  PROVE  UpdateRPS(UpdateErr(UpdateCnt(
             [AverageRPS |-> a, TxCount |-> 0, ErrCount |-> 0], c), e), c)
           = [AverageRPS |-> c, TxCount |-> c, ErrCount |-> e]
<1>1. UpdateCnt([AverageRPS |-> a, TxCount |-> 0, ErrCount |-> 0], c)
        = [AverageRPS |-> a, TxCount |-> c, ErrCount |-> 0]
  BY DEF UpdateCnt
<1>2. UpdateErr([AverageRPS |-> a, TxCount |-> c, ErrCount |-> 0], e)
        = [AverageRPS |-> a, TxCount |-> c, ErrCount |-> e]
  BY DEF UpdateErr
<1>3. UpdateRPS([AverageRPS |-> a, TxCount |-> c, ErrCount |-> e], c)
        = [AverageRPS |-> c, TxCount |-> c, ErrCount |-> e]
  BY DEF UpdateRPS
<1> QED
  BY <1>1, <1>2, <1>3

\* A step of a worker w: the Sender is not done, and w was not stopped.
LEMMA WorkerEnd ==
  ASSUME TypeInv, EndInv, NEW w \in Workers, WorkerStep(w)
  PROVE  EndInv'
<1> USE DEF TypeInv, TypeOK
<1>1. wpc[w] # "stopped" /\ ~sentOut /\ spc # "done"
  BY DEF EndInv, SenderIsLast, WorkerStep, Stop, Proceed, Drained, SeeTx, Get,
         Reply, Accepted, OutOfMemory, Refused, LostReply, Count, ReportRPS,
         Reenqueue, CountErr, Goto
<1>2. UNCHANGED <<spc, sentOut, done, expired>>
  BY DEF WorkerStep, Stop, Proceed, Drained, SeeTx, Get, Reply, Accepted,
         OutOfMemory, Refused, LostReply, Count, ReportRPS, Reenqueue,
         CountErr, senderVars
<1>3. SenderIsLast' /\ ReportSettled'
  BY <1>1, <1>2 DEF EndInv, SenderIsLast, ReportSettled
<1>4. CASE Count(w)
  <2>1. CountsAreSeen'
    BY <1>4, <1>1, <1>2 DEF EndInv, CountsAreSeen, Count, senderVars
  <2>2. LastOneOut'
    BY <1>4 DEF LastOneOut, Count, Goto
  <2> QED
    BY <1>3, <2>1, <2>2 DEF EndInv
<1>5. CASE ReportRPS(w)
  <2>1. CountsAreSeen'
    BY <1>5, <1>1, <1>2 DEF EndInv, CountsAreSeen, ReportRPS, UpdateRPS
  <2>2. LastOneOut'
    BY <1>5 DEF LastOneOut, ReportRPS, Goto
  <2> QED
    BY <1>3, <2>1, <2>2 DEF EndInv
<1>6. CASE Stop(w)
  <2>1. CountsAreSeen'
    BY <1>6 DEF EndInv, CountsAreSeen, Stop, senderVars
  <2>2. LastOneOut'
    BY <1>6, <1>2 DEF LastOneOut, Stop
  <2> QED
    BY <1>3, <2>1, <2>2 DEF EndInv
<1>7. CASE Drained(w)
  <2>1. CountsAreSeen'
    BY <1>7 DEF EndInv, CountsAreSeen, Drained, senderVars
  <2>2. LastOneOut'
    BY <1>7 DEF LastOneOut, Drained
  <2> QED
    BY <1>3, <2>1, <2>2 DEF EndInv
<1>8. CASE Proceed(w) \/ SeeTx(w) \/ Get(w) \/ Reply(w) \/ Reenqueue(w) \/ CountErr(w)
  <2>1. CountsAreSeen'
    BY <1>8 DEF EndInv, CountsAreSeen, Proceed, SeeTx, Get, Reply, Accepted,
                OutOfMemory, Refused, LostReply, Reenqueue, CountErr, senderVars
  <2>2. wpc'[w] # "stopped"
    BY <1>8 DEF Proceed, SeeTx, Get, Reply, Accepted, OutOfMemory, Refused,
                LostReply, Reenqueue, CountErr, Goto
  <2>3. LastOneOut'
    BY <2>2 DEF LastOneOut
  <2> QED
    BY <1>3, <2>1, <2>3 DEF EndInv
<1> QED
  BY <1>4, <1>5, <1>6, <1>7, <1>8 DEF WorkerStep

\* The Sender reports after its workers have stopped, and nothing moves then
\* (worker.go:408-419).
LEMMA NextEnd == TypeInv /\ EndInv /\ [Next]_vars => EndInv'
<1> SUFFICES ASSUME TypeInv, EndInv, [Next]_vars PROVE EndInv'
  OBVIOUS
<1> USE DEF TypeInv, TypeOK, EndInv
<1>1. ASSUME NEW w \in Workers, Spawn(w) PROVE EndInv'
  <2>1. wpc'[w] # "stopped" /\ ~sentOut /\ ~sentOut' /\ spc' # "done"
    BY <1>1 DEF Spawn, Goto, SenderIsLast
  <2>2. CountsAreSeen'
    BY <1>1 DEF Spawn, CountsAreSeen
  <2> QED
    BY <2>1, <2>2 DEF SenderIsLast, LastOneOut, ReportSettled
<1>2. ASSUME NEW w \in Workers, Expire(w) PROVE EndInv'
  <2>1. LastOneOut'
    BY <1>2 DEF LastOneOut, Expire, senderVars
  <2> QED
    BY <1>2, <2>1
    DEF SenderIsLast, CountsAreSeen, ReportSettled, Expire, senderVars
<1>3. ASSUME NEW w \in Workers, WorkerStep(w) PROVE EndInv'
  BY <1>3, WorkerEnd
<1>4. CASE SenderFinish
  <2>1. rep' = [AverageRPS |-> countTxs, TxCount |-> countTxs, ErrCount |-> countErr]
    <3>1. /\ countTxs \in Nat /\ countErr \in Nat /\ rep.AverageRPS \in Nat
          /\ rep.AverageRPS <= countTxs
      BY DEF CountsAreSeen
    <3>2. PICK a \in Nat : a <= countTxs
                    /\ rep = [AverageRPS |-> a, TxCount |-> 0, ErrCount |-> 0]
      BY <1>4, <3>1 DEF SenderFinish, SenderIsLast, CountsAreSeen
    <3>3. FinalReport =
            [AverageRPS |-> countTxs, TxCount |-> countTxs, ErrCount |-> countErr]
      BY <3>1, <3>2, FieldUpdates DEF FinalReport
    <3> QED
      BY <1>4, <3>3 DEF SenderFinish
  <2>2. CountsAreSeen' /\ ReportSettled'
    BY <1>4, <2>1 DEF SenderFinish, workerVars, CountsAreSeen, ReportSettled
  <2>3. SenderIsLast' /\ LastOneOut'
    BY <1>4 DEF SenderFinish, workerVars, SenderIsLast, LastOneOut
  <2> QED
    BY <2>2, <2>3
<1>5. CASE Cancel
  BY <1>5 DEF Cancel, workerVars, SenderIsLast, CountsAreSeen, LastOneOut, ReportSettled
<1>6. CASE UNCHANGED vars
  BY <1>6 DEF vars, SenderIsLast, CountsAreSeen, LastOneOut, ReportSettled
<1> QED
  BY <1>1, <1>2, <1>3, <1>4, <1>5, <1>6 DEF Next

\* What the ends of workers and Sender imply, at all times.
LEMMA EndInvariant == Spec => []EndInv
  BY InitEnd, NextEnd, TypeInvariant, PTL DEF Spec

\* Once sentOut is closed the report holds the final totals (worker.go:410-419),
\* for any number of workers that report out of order before.
THEOREM ReportIsSettled == Spec => []ReportSettled
  BY EndInvariant, PTL DEF EndInv

\* A benchmark that nothing cuts short leaves no transaction behind.
THEOREM NoneLeftBehind == Spec => []NothingLeftBehind
<1>1. TypeInv /\ Conservation /\ EndInv => NothingLeftBehind
  <2> SUFFICES ASSUME TypeInv, Conservation, EndInv, sentOut, ~done,
                      \A w \in Workers : ~expired[w]
               PROVE  queue = <<>> /\ countTxs + countErr = DumpSize
    BY DEF NothingLeftBehind
  <2>1. \A w \in Workers : wpc[w] = "stopped"
    BY DEF EndInv, SenderIsLast
  <2>2. queue = <<>>
    BY <2>1 DEF EndInv, LastOneOut
  <2>3. Holders = {}
    BY <2>1 DEF Holders, Holding
  <2>4. Len(queue) = 0 /\ Cardinality(Holders) = 0
    BY <2>2, <2>3, FS_EmptySet, EmptySeq
  <2> QED
    BY <2>2, <2>4 DEF Conservation, TypeInv, TypeOK
<1> QED
  BY <1>1, TypeInvariant, Conserved, EndInvariant, PTL
-----------------------------------------------------------------------------
(* A transaction is in one place: queued once, or held by one worker.  Only *)
(* a transaction in the hands of its worker is ever accepted, and what a    *)
(* worker puts back has been refused.                                       *)

QueuedOnce == \A i, j \in DOMAIN queue : queue[i] = queue[j] => i = j

HeldApart ==
    \A w \in Workers : wpc[w] \in Holding =>
        /\ \A i \in DOMAIN queue : queue[i] # held[w]
        /\ \A v \in Workers : wpc[v] \in Holding /\ held[v] = held[w] => v = w

NotYetTaken ==
    /\ \A i \in DOMAIN queue : queue[i] \notin taken
    /\ \A w \in Workers : wpc[w] \in {"send", "full"} => held[w] \notin taken

PlaceInv == QueuedOnce /\ HeldApart /\ NotYetTaken

\* The dump holds each transaction once.
LEMMA InitPlaces == Init => PlaceInv
  BY DEF Init, PlaceInv, QueuedOnce, HeldApart, NotYetTaken, Holding

\* Each step keeps the places' transactions different from each other and
\* from the accepted ones, unless a worker is just about to count it.
LEMMA NextPlaces == TypeInv /\ PlaceInv /\ [Next]_vars => PlaceInv'
<1> SUFFICES ASSUME TypeInv, PlaceInv, [Next]_vars PROVE PlaceInv'
  OBVIOUS
<1> USE DEF PlaceInv, Holding
<1>q. /\ queue \in Seq(Txs) /\ Len(queue) \in Nat /\ DOMAIN queue = 1 .. Len(queue)
      /\ wpc \in [Workers -> WorkerPC] /\ held \in [Workers -> 0 .. DumpSize]
  BY LenProperties DEF TypeInv, TypeOK
<1>1. ASSUME NEW w \in Workers, Get(w) PROVE PlaceInv'
  <2>1. /\ wpc' = [wpc EXCEPT ![w] = "send"] /\ wpc[w] = "get"
        /\ held' = [held EXCEPT ![w] = Head(queue)]
        /\ queue' = Tail(queue) /\ taken' = taken /\ queue # <<>>
    BY <1>1 DEF Get, Goto
  <2>2. /\ queue' \in Seq(Txs) /\ Len(queue') = Len(queue) - 1
        /\ DOMAIN queue' = 1 .. Len(queue) - 1
        /\ \A i \in DOMAIN queue' : queue'[i] = queue[i + 1]
    BY <1>q, <2>1, HeadTailProperties, LenProperties
  <2>3. 1 \in DOMAIN queue /\ Head(queue) = queue[1]
    BY <1>q, <2>1, EmptySeq
  <2>4. \A i \in DOMAIN queue' : i + 1 \in DOMAIN queue /\ i + 1 # 1
    BY <1>q, <2>2
  <2>5. QueuedOnce'
    BY <1>q, <2>2, <2>4 DEF QueuedOnce
  <2>6. HeldApart'
    BY <1>q, <2>1, <2>2, <2>3, <2>4 DEF HeldApart, QueuedOnce
  <2>7. NotYetTaken'
    BY <1>q, <2>1, <2>2, <2>3, <2>4 DEF NotYetTaken
  <2> QED
    BY <2>5, <2>6, <2>7
<1>2. ASSUME NEW w \in Workers, Reenqueue(w) PROVE PlaceInv'
  <2>1. /\ wpc' = [wpc EXCEPT ![w] = "select"] /\ wpc[w] = "full"
        /\ held' = [held EXCEPT ![w] = 0]
        /\ queue' = Append(queue, held[w]) /\ taken' = taken
    BY <1>2 DEF Reenqueue, Goto
  <2>2. held[w] \in Txs
    BY <2>1 DEF TypeInv, HeldIsTx
  <2>3. /\ queue' \in Seq(Txs) /\ Len(queue') = Len(queue) + 1
        /\ \A i \in DOMAIN queue : queue'[i] = queue[i]
        /\ queue'[Len(queue) + 1] = held[w]
    BY <1>q, <2>1, <2>2, AppendProperties
  <2>4. DOMAIN queue' = DOMAIN queue \cup {Len(queue) + 1}
    BY <1>q, <2>3, LenProperties
  <2>5. /\ \A i \in DOMAIN queue : queue[i] # held[w]
        /\ \A v \in Workers : wpc[v] \in Holding /\ v # w => held[v] # held[w]
        /\ held[w] \notin taken
    BY <2>1 DEF HeldApart, NotYetTaken
  <2>6. QueuedOnce'
    BY <2>3, <2>4, <2>5 DEF QueuedOnce
  <2>7. HeldApart'
    BY <1>q, <2>1, <2>3, <2>4, <2>5 DEF HeldApart
  <2>8. NotYetTaken'
    BY <1>q, <2>1, <2>3, <2>4, <2>5 DEF NotYetTaken
  <2> QED
    BY <2>6, <2>7, <2>8
<1>3. ASSUME NEW w \in Workers, Accepted(w) \/ LostReply(w) PROVE PlaceInv'
  <2>1. /\ wpc[w] = "send"
        /\ wpc' = [wpc EXCEPT ![w] = "acked"] \/ wpc' = [wpc EXCEPT ![w] = "failed"]
        /\ taken' = taken \cup {held[w]} /\ queue' = queue /\ held' = held
    BY <1>3 DEF Accepted, LostReply, Goto
  <2>2. QueuedOnce'
    BY <2>1 DEF QueuedOnce
  <2>3. HeldApart'
    BY <1>q, <2>1 DEF HeldApart
  <2>4. NotYetTaken'
    BY <1>q, <2>1 DEF HeldApart, NotYetTaken
  <2> QED
    BY <2>2, <2>3, <2>4
<1>4. ASSUME NEW w \in Workers, OutOfMemory(w) \/ Refused(w) PROVE PlaceInv'
  <2>1. /\ wpc[w] = "send"
        /\ wpc' = [wpc EXCEPT ![w] = "full"] \/ wpc' = [wpc EXCEPT ![w] = "failed"]
        /\ taken' = taken /\ queue' = queue /\ held' = held
    BY <1>4 DEF OutOfMemory, Refused, Goto
  <2> QED
    BY <1>q, <2>1 DEF QueuedOnce, HeldApart, NotYetTaken
<1>5. ASSUME NEW w \in Workers, Count(w) \/ CountErr(w) PROVE PlaceInv'
  <2>1. /\ wpc' = [wpc EXCEPT ![w] = "rps"] \/ wpc' = [wpc EXCEPT ![w] = "select"]
        /\ held' = [held EXCEPT ![w] = 0]
        /\ taken' = taken /\ queue' = queue
    BY <1>5 DEF Count, CountErr, Goto
  <2> QED
    BY <1>q, <2>1 DEF QueuedOnce, HeldApart, NotYetTaken
<1>6. ASSUME NEW w \in Workers,
             Spawn(w) \/ Stop(w) \/ Proceed(w) \/ Drained(w) \/ SeeTx(w) \/ ReportRPS(w)
      PROVE  PlaceInv'
  <2>1. PICK pc \in {"select", "stopped", "len", "get"} :
               wpc' = [wpc EXCEPT ![w] = pc]
    BY <1>6 DEF Spawn, Stop, Proceed, Drained, SeeTx, ReportRPS, Goto
  <2>2. taken' = taken /\ queue' = queue /\ held' = held
    BY <1>6 DEF Spawn, Stop, Proceed, Drained, SeeTx, ReportRPS
  <2> QED
    BY <1>q, <2>1, <2>2 DEF QueuedOnce, HeldApart, NotYetTaken
<1>7. ASSUME UNCHANGED <<queue, wpc, held, taken>> PROVE PlaceInv'
  BY <1>7 DEF QueuedOnce, HeldApart, NotYetTaken
<1>8. ASSUME NEW w \in Workers, Expire(w) PROVE PlaceInv'
  BY <1>7, <1>8 DEF Expire
<1>9. CASE SenderFinish \/ Cancel \/ UNCHANGED vars
  BY <1>7, <1>9 DEF SenderFinish, Cancel, vars, workerVars
<1> QED
  BY <1>1, <1>2, <1>3, <1>4, <1>5, <1>6, <1>8, <1>9 DEF Next, WorkerStep, Reply

\* The places stay apart in every run.
LEMMA PlaceInvariant == Spec => []PlaceInv
  BY InitPlaces, NextPlaces, TypeInvariant, PTL DEF Spec

\* No transaction that a node has accepted is sent to a node again, however
\* often others are refused and re-enqueued (worker.go:243-255).
THEOREM NeverSentTwice == Spec => []AcceptedOnce
<1>1. PlaceInv => AcceptedOnce
  BY DEF PlaceInv, NotYetTaken, AcceptedOnce, InQueue
<1> QED
  BY <1>1, PlaceInvariant, PTL
-----------------------------------------------------------------------------
(* The counters and the nodes.  A transaction is counted after it was       *)
(* accepted, by the worker that holds it, which is then at "acked"; what a  *)
(* worker sends has not been accepted before, so accepting it adds one.     *)

AtPC(S) == {w \in Workers : wpc[w] \in S}

\* The workers at some of the places are finitely many.
LEMMA AtPCFinite ==
  ASSUME NEW S
  PROVE  IsFiniteSet(AtPC(S)) /\ Cardinality(AtPC(S)) \in Nat
<1>1. AtPC(S) \subseteq Workers
  BY DEF AtPC
<1> QED
  BY <1>1, WorkersAssumption, FS_Subset, FS_CardinalityType

\* One that moves into these places, out of them, or neither.
LEMMA AtPCMoves ==
  ASSUME TypeOK, NEW w \in Workers, NEW a, NEW b, Goto(w, a, b), NEW S
  PROVE  /\ a \notin S /\ b \in S
              => Cardinality(AtPC(S)') = Cardinality(AtPC(S)) + 1
         /\ a \in S /\ b \notin S
              => Cardinality(AtPC(S)') = Cardinality(AtPC(S)) - 1
         /\ (a \in S <=> b \in S)
              => Cardinality(AtPC(S)') = Cardinality(AtPC(S))
<1> DEFINE old == {v \in Workers : wpc[v] \in S}
           new == {v \in Workers : wpc'[v] \in S}
<1>0. AtPC(S) = old /\ AtPC(S)' = new
  BY DEF AtPC
<1>f. IsFiniteSet(old)
  BY AtPCFinite, <1>0
<1>1. ASSUME a \notin S, b \in S
      PROVE  Cardinality(new) = Cardinality(old) + 1
  <2>1. new = old \cup {w} /\ w \notin old
    BY <1>1 DEF TypeOK, Goto
  <2> QED
    BY <2>1, <1>f, FS_AddElement
<1>2. ASSUME a \in S, b \notin S
      PROVE  Cardinality(new) = Cardinality(old) - 1
  <2>1. new = old \ {w} /\ w \in old
    BY <1>2 DEF TypeOK, Goto
  <2> QED
    BY <2>1, <1>f, FS_RemoveElement
<1>3. ASSUME a \in S <=> b \in S
      PROVE  Cardinality(new) = Cardinality(old)
  <2>1. new = old
    BY <1>3 DEF TypeOK, Goto
  <2> QED
    BY <2>1
<1> QED
  BY <1>0, <1>1, <1>2, <1>3

\* The accepted transactions are some of the dump, hence finitely many.
LEMMA TakenFinite == TypeOK => IsFiniteSet(taken) /\ Cardinality(taken) \in Nat
<1>1. IsFiniteSet(Txs)
  BY DumpSizeAssumption, FS_Interval DEF Txs
<1> QED
  BY <1>1, FS_Subset, FS_CardinalityType DEF TypeOK

\* The bracket in the terms of the lemmas above.
LEMMA Bracket ==
  CountersBracketTaken <=>
    /\ countTxs + Cardinality(AtPC({"acked"})) <= Cardinality(taken)
    /\ Cardinality(taken) <= countTxs + countErr + Cardinality(AtPC({"acked", "failed"}))
<1>1. AtPC({"acked"}) = {w \in Workers : wpc[w] = "acked"}
  BY DEF AtPC
<1>2. AtPC({"acked", "failed"}) = {w \in Workers : wpc[w] \in {"acked", "failed"}}
  BY DEF AtPC
<1> QED
  BY <1>1, <1>2 DEF CountersBracketTaken

\* Nothing is accepted or counted at the start.
LEMMA InitBracket == Init => CountersBracketTaken
<1> SUFFICES ASSUME Init PROVE CountersBracketTaken
  OBVIOUS
<1>1. AtPC({"acked"}) = {} /\ AtPC({"acked", "failed"}) = {}
  BY DEF Init, AtPC
<1> QED
  BY <1>1, Bracket, FS_EmptySet DEF Init

\* Each step moves at most one transaction across the two bounds.
LEMMA NextBracket ==
  TypeInv /\ PlaceInv /\ CountersBracketTaken /\ [Next]_vars => CountersBracketTaken'
<1> SUFFICES ASSUME TypeInv, PlaceInv, CountersBracketTaken, [Next]_vars
             PROVE  CountersBracketTaken'
  OBVIOUS
<1> DEFINE acked == Cardinality(AtPC({"acked"}))
           known == Cardinality(AtPC({"acked", "failed"}))
           accepted == Cardinality(taken)
<1>t. /\ TypeOK /\ countTxs \in Nat /\ countErr \in Nat
      /\ acked \in Nat /\ known \in Nat /\ accepted \in Nat
  BY AtPCFinite, TakenFinite DEF TypeInv, TypeOK
<1>b. countTxs + acked <= accepted /\ accepted <= countTxs + countErr + known
  BY Bracket
<1>c. countTxs' + acked' <= accepted' /\ accepted' <= countTxs' + countErr' + known'
      => CountersBracketTaken'
  <2>1. /\ AtPC({"acked"})' = {w \in Workers : wpc'[w] = "acked"}
        /\ AtPC({"acked", "failed"})' = {w \in Workers : wpc'[w] \in {"acked", "failed"}}
    BY DEF AtPC
  <2> QED
    BY <2>1 DEF CountersBracketTaken
<1>m. ASSUME NEW w \in Workers, NEW a, NEW b, Goto(w, a, b)
      PROVE  /\ a # "acked" /\ b = "acked" => acked' = acked + 1
             /\ a = "acked" /\ b # "acked" => acked' = acked - 1
             /\ (a = "acked" <=> b = "acked") => acked' = acked
             /\ a \notin {"acked", "failed"} /\ b \in {"acked", "failed"} => known' = known + 1
             /\ a \in {"acked", "failed"} /\ b \notin {"acked", "failed"} => known' = known - 1
             /\ (a \in {"acked", "failed"} <=> b \in {"acked", "failed"}) => known' = known
  BY <1>m, <1>t, AtPCMoves
<1> HIDE DEF acked, known, accepted
<1>1. ASSUME NEW w \in Workers, Accepted(w) \/ LostReply(w)
      PROVE  CountersBracketTaken'
  <2>1. held[w] \notin taken
    BY <1>1 DEF Accepted, LostReply, Goto, PlaceInv, NotYetTaken
  <2>2. accepted' = accepted + 1
    <3>1. taken' = taken \cup {held[w]}
      BY <1>1 DEF Accepted, LostReply
    <3> QED
      BY <2>1, <3>1, <1>t, TakenFinite, FS_AddElement DEF accepted
  <2>3. /\ countTxs' = countTxs /\ countErr' = countErr /\ known' = known + 1
        /\ acked' = acked + 1 \/ acked' = acked
    <3>1. countTxs' = countTxs /\ countErr' = countErr
      BY <1>1 DEF Accepted, LostReply
    <3>2. CASE Accepted(w)
      BY <3>1, <3>2, <1>m DEF Accepted
    <3>3. CASE LostReply(w)
      BY <3>1, <3>3, <1>m DEF LostReply
    <3> QED
      BY <1>1, <3>2, <3>3
  <2> QED
    BY <2>2, <2>3, <1>t, <1>b, <1>c
<1>2. ASSUME NEW w \in Workers, Refused(w) PROVE CountersBracketTaken'
  <2>1. /\ UNCHANGED <<countTxs, countErr, accepted>>
        /\ acked' = acked /\ known' = known + 1
    BY <1>2, <1>m DEF Refused, accepted
  <2> QED
    BY <2>1, <1>t, <1>b, <1>c
<1>3. ASSUME NEW w \in Workers, Count(w) PROVE CountersBracketTaken'
  <2>1. /\ countTxs' = countTxs + 1 /\ UNCHANGED <<countErr, accepted>>
        /\ acked' = acked - 1 /\ known' = known - 1
    BY <1>3, <1>m DEF Count, accepted
  <2> QED
    BY <2>1, <1>t, <1>b, <1>c
<1>4. ASSUME NEW w \in Workers, CountErr(w) PROVE CountersBracketTaken'
  <2>1. /\ countErr' = countErr + 1 /\ UNCHANGED <<countTxs, accepted>>
        /\ acked' = acked /\ known' = known - 1
    BY <1>4, <1>m DEF CountErr, accepted
  <2> QED
    BY <2>1, <1>t, <1>b, <1>c
<1>5. ASSUME UNCHANGED <<countTxs, countErr, taken>>, UNCHANGED <<acked, known>>
      PROVE  CountersBracketTaken'
  BY <1>5, <1>b, <1>c DEF accepted
<1>6. ASSUME NEW w \in Workers,
             \/ Spawn(w) \/ Stop(w) \/ Proceed(w) \/ Drained(w) \/ SeeTx(w) \/ Get(w)
             \/ OutOfMemory(w) \/ ReportRPS(w) \/ Reenqueue(w)
      PROVE  CountersBracketTaken'
  <2>1. UNCHANGED <<countTxs, countErr, taken>>
    BY <1>6 DEF Spawn, Stop, Proceed, Drained, SeeTx, Get, OutOfMemory, ReportRPS,
                Reenqueue
  <2>2. PICK a \in {"idle", "select", "len", "get", "send", "rps", "full"},
             b \in {"select", "stopped", "len", "get", "send", "full"} : Goto(w, a, b)
    BY <1>6 DEF Spawn, Stop, Proceed, Drained, SeeTx, Get, OutOfMemory, ReportRPS,
                Reenqueue
  <2>3. UNCHANGED <<acked, known>>
    BY <2>2, <1>m
  <2> QED
    BY <2>1, <2>3, <1>5
<1>7. ASSUME UNCHANGED <<wpc, countTxs, countErr, taken>> PROVE CountersBracketTaken'
  BY <1>7, <1>5 DEF acked, known, AtPC
<1>8. ASSUME NEW w \in Workers, Expire(w) PROVE CountersBracketTaken'
  BY <1>7, <1>8 DEF Expire
<1>9. CASE SenderFinish \/ Cancel \/ UNCHANGED vars
  BY <1>7, <1>9 DEF SenderFinish, Cancel, vars, workerVars
<1> QED
  BY <1>1, <1>2, <1>3, <1>4, <1>6, <1>8, <1>9 DEF Next, WorkerStep, Reply

\* The report's counters never say more than the nodes have accepted, and the
\* nodes never hold more than the counters and the answers still to be counted
\* say (worker.go:243-260).
THEOREM CountersBracket == Spec => []CountersBracketTaken
  BY InitBracket, NextBracket, TypeInvariant, PlaceInvariant, PTL DEF Spec
=============================================================================
