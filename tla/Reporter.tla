------------------------------ MODULE Reporter ------------------------------
(***************************************************************************)
(* The report of a benchmark (cmd/internal/report.go), as operators on its *)
(* values.  Every Update* method holds the reporter's mutex for its whole  *)
(* body, so each is one indivisible function of the old value.             *)
(*                                                                         *)
(* A rate is represented by the count it was computed from: the divisor is *)
(* an elapsed time, which is positive, so a rate is zero exactly when its  *)
(* count is, and two rates of one moment compare as their counts do.       *)
(***************************************************************************)
EXTENDS Integers, Sequences

\* The fields the sender's side writes; a new reporter has them at zero.
NewReporter == [AverageRPS |-> 0, TxCount |-> 0, ErrCount |-> 0]

UpdateRPS(r, v) == IF v <= 0 THEN r ELSE [r EXCEPT !.AverageRPS = v]

UpdateCnt(r, v) == IF v <= 0 THEN r ELSE [r EXCEPT !.TxCount = v]

UpdateErr(r, v) == IF v <= 0 THEN r ELSE [r EXCEPT !.ErrCount = v]

(***************************************************************************)
(* The parser's side: TPS is the list the report prints, TPSPool holds     *)
(* the idle blocks that are not known yet to lie inside the test.          *)
(***************************************************************************)
tpsInfo(deltaTime, txCount) == [DeltaTime |-> deltaTime, TxCount |-> txCount]

\* Faults, to see that the properties notice them: the block that flushes the
\* pool is not added itself; the pool is dropped instead of flushed.
TPSAfterFlushOnly(TPS, TPSPool, info) ==
    IF info.TxCount > 0 THEN TPS \o TPSPool ELSE TPS

TPSAfterDropsPool(TPS, TPSPool, info) ==
    IF info.TxCount > 0 THEN Append(TPS, info) ELSE TPS

\* UpdateTPS: a block with transactions takes the waiting idle blocks with it.
TPSAfter(TPS, TPSPool, info) ==
    IF info.TxCount > 0 THEN Append(TPS \o TPSPool, info) ELSE TPS

TPSPoolAfter(TPSPool, info) ==
    IF info.TxCount > 0 THEN <<>> ELSE Append(TPSPool, info)

\* What a loop over a list of numbers adds up, element by element, and in all.
PartialSums(s) ==
    LET sums[k \in 0 .. Len(s)] == IF k = 0 THEN 0 ELSE sums[k - 1] + s[k]
    IN  sums

SumOf(s) == PartialSums(s)[Len(s)]

\* What WriteTo prints as the number of transactions and uses as the time.
ReportedTxs(TPS) == SumOf([k \in DOMAIN TPS |-> TPS[k].TxCount])

OverallBlocksTime(TPS) == SumOf([k \in DOMAIN TPS |-> TPS[k].DeltaTime])
=============================================================================
