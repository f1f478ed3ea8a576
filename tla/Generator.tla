------------------------------ MODULE Generator ------------------------------
(***************************************************************************)
(* cmd/gen: the transactions of a dump are signed by a pool of workers     *)
(* (cmd/internal/gen.go), written to a file in the order they are collected *)
(* (writer.go) and read back by the benchmark (reader.go).                 *)
(*                                                                         *)
(* A dispatcher goroutine deals the requests to the workers in turn, each  *)
(* worker has an input and an output channel of capacity one, and Generate *)
(* itself collects the results in the same turn.  A transaction is its     *)
(* request (sender and receiver) and its nonce; nothing else tells two     *)
(* transactions of a dump apart.                                           *)
(***************************************************************************)
EXTENDS Integers, Sequences

CONSTANTS
  genWorkerCount,  \* the workers are 0 .. genWorkerCount - 1
  TxCount,         \* transactions to generate (-cnt)
  Requests,        \* len(txR): max of the senders and the receivers
  NonceSpan,       \* nonces of one worker: 2^24
  NonceMod,        \* a nonce is a uint32: 2^32
  BitOr(_, _)      \* Go's | of two natural numbers

ASSUME WorkerCountAssumption == genWorkerCount \in Nat \ {0}
ASSUME TxCountAssumption == TxCount \in Nat \ {0}
ASSUME RequestsAssumption == Requests \in Nat \ {0}
ASSUME NonceAssumption == NonceSpan \in Nat \ {0} /\ NonceMod \in Nat \ {0}
                            /\ NonceMod % NonceSpan = 0
ASSUME BitOrAssumption ==
    \A n \in 0 .. genWorkerCount - 1, m \in 0 .. TxCount :
        BitOr(n, m) \in Nat /\ BitOr(n, 0) = n

\* "255 possible workers and 16M transactions should be enough" (gen.go:192)
Enough == genWorkerCount * NonceSpan <= NonceMod
            /\ TxCount <= genWorkerCount * NonceSpan

Gens == 0 .. genWorkerCount - 1

VARIABLES
  dpc,          \* the dispatcher: "deal", "send", "close", "finished"
  dealt,        \* requests dealt so far
  txCh,         \* input channel of each worker
  closed,       \* whether it is closed
  gpc,          \* each worker: "recv", "out", "exit"
  signed,       \* transactions each worker has signed: its i
  blob,         \* the transaction it is about to hand on
  result,       \* output channel of each worker
  cpc,          \* the collector: "collect", "finish", "wait", "done"
  dump,         \* the collected transactions: TransactionsQueue and, in the
                \* same order, what was given to the file's writer
  cancelled,    \* a signal has cancelled the context
  file          \* what of the dump is in the file once nobody writes to it

vars == <<dpc, dealt, txCh, closed, gpc, signed, blob, result, cpc, dump,
          cancelled, file>>
dispatcherVars == <<dpc, dealt, closed>>
workerVars == <<gpc, signed, blob>>
collectorVars == <<cpc, dump>>

None == [req |-> -1, nonce |-> -1]
NoFile == [header |-> FALSE, txs |-> <<>>, left |-> FALSE]

Init ==
    /\ dpc = "deal" /\ dealt = 0
    /\ txCh = [n \in Gens |-> <<>>] /\ closed = [n \in Gens |-> FALSE]
    /\ gpc = [n \in Gens |-> "recv"]
    /\ signed = [n \in Gens |-> 0]
    /\ blob = [n \in Gens |-> None]
    /\ result = [n \in Gens |-> <<>>]
    /\ cpc = "collect" /\ dump = <<>>
    /\ cancelled = FALSE
    /\ file = NoFile

\* The process ends when Generate has returned or somebody calls log.Fatal.
Running == ~file.left

-----------------------------------------------------------------------------
(* The dispatcher. *)

\* ctx.Err() == nil: the next request is sent whatever happens until then
CheckContext ==
    /\ Running /\ dpc = "deal" /\ dealt < TxCount /\ ~cancelled
    /\ dpc' = "send"
    /\ UNCHANGED <<dealt, txCh, closed, workerVars, result, collectorVars,
                   cancelled, file>>

\* Faults, to see that the properties notice them: the request is not taken
\* modulo their number; finishCh is closed before the input channels.
DealUnwrapped ==
    /\ Running /\ dpc = "send"
    /\ LET n == dealt % genWorkerCount IN
         /\ txCh[n] = <<>>
         /\ txCh' = [txCh EXCEPT ![n] = <<dealt>>]
    /\ dealt' = dealt + 1
    /\ dpc' = "deal"
    /\ UNCHANGED <<closed, workerVars, result, collectorVars, cancelled, file>>

CloseFinishFirst ==
    /\ Running /\ dpc = "close"
    /\ dpc' = "finished"
    /\ UNCHANGED <<dealt, txCh, closed, workerVars, result, collectorVars,
                   cancelled, file>>

\* txCh[i%len(txCh)] <- txR[i%len(txR)]
Deal ==
    /\ Running /\ dpc = "send"
    /\ LET n == dealt % genWorkerCount IN
         /\ txCh[n] = <<>>
         /\ txCh' = [txCh EXCEPT ![n] = <<dealt % Requests>>]
    /\ dealt' = dealt + 1
    /\ dpc' = "deal"
    /\ UNCHANGED <<closed, workerVars, result, collectorVars, cancelled, file>>

DealtAll ==
    /\ Running /\ dpc = "deal" /\ dealt = TxCount
    /\ dpc' = "close"
    /\ UNCHANGED <<dealt, txCh, closed, workerVars, result, collectorVars,
                   cancelled, file>>

\* The channels are closed in turn, then finishCh.
Close(n) ==
    /\ Running /\ dpc = "close"
    /\ ~closed[n] /\ \A m \in 0 .. n - 1 : closed[m]
    /\ closed' = [closed EXCEPT ![n] = TRUE]
    /\ UNCHANGED <<dpc, dealt, txCh, workerVars, result, collectorVars,
                   cancelled, file>>

CloseFinish ==
    /\ Running /\ dpc = "close" /\ \A n \in Gens : closed[n]
    /\ dpc' = "finished"
    /\ UNCHANGED <<dealt, txCh, closed, workerVars, result, collectorVars,
                   cancelled, file>>

-----------------------------------------------------------------------------
(* A worker, genTxWorker. *)

\* A fault: the workers share one range of nonces.
NonceOfOneRange(n, i) == i % NonceMod

\* uint32(baseNonce | i), where baseNonce is n shifted past the low bits
Nonce(n, i) ==
    ((BitOr(n, i \div NonceSpan) * NonceSpan) + (i % NonceSpan)) % NonceMod

Sign(n) ==
    /\ Running /\ gpc[n] = "recv" /\ txCh[n] # <<>>
    /\ blob' = [blob EXCEPT ![n] = [req |-> Head(txCh[n]),
                                    nonce |-> Nonce(n, signed[n])]]
    /\ txCh' = [txCh EXCEPT ![n] = <<>>]
    /\ gpc' = [gpc EXCEPT ![n] = "out"]
    /\ UNCHANGED <<dispatcherVars, signed, result, collectorVars, cancelled, file>>

\* out <- txBlob{...}; i++
HandOn(n) ==
    /\ Running /\ gpc[n] = "out" /\ result[n] = <<>>
    /\ result' = [result EXCEPT ![n] = <<blob[n]>>]
    /\ signed' = [signed EXCEPT ![n] = @ + 1]
    /\ blob' = [blob EXCEPT ![n] = None]
    /\ gpc' = [gpc EXCEPT ![n] = "recv"]
    /\ UNCHANGED <<dispatcherVars, txCh, collectorVars, cancelled, file>>

\* The channel is closed and drained: the range loop ends.
Exit(n) ==
    /\ Running /\ gpc[n] = "recv" /\ txCh[n] = <<>> /\ closed[n]
    /\ gpc' = [gpc EXCEPT ![n] = "exit"]
    /\ UNCHANGED <<dispatcherVars, txCh, signed, blob, result, collectorVars,
                   cancelled, file>>

-----------------------------------------------------------------------------
(* The collector, Generate itself, and the file. *)

\* A fault: the results are collected as they come.
CollectAsTheyCome ==
    /\ Running /\ cpc = "collect" /\ Len(dump) < TxCount
    /\ \E n \in Gens :
         /\ result[n] # <<>>
         /\ dump' = Append(dump, Head(result[n]))
         /\ result' = [result EXCEPT ![n] = <<>>]
    /\ UNCHANGED <<dispatcherVars, txCh, workerVars, cpc, cancelled, file>>

\* r := <-result[i%len(result)], Put(r.blob), callback(r.hash, r.blob)
Collect ==
    /\ Running /\ cpc = "collect" /\ Len(dump) < TxCount
    /\ LET n == Len(dump) % genWorkerCount IN
         /\ result[n] # <<>>
         /\ dump' = Append(dump, Head(result[n]))
         /\ result' = [result EXCEPT ![n] = <<>>]
    /\ UNCHANGED <<dispatcherVars, txCh, workerVars, cpc, cancelled, file>>

\* <-finishCh
Finish ==
    /\ Running /\ cpc = "collect" /\ Len(dump) = TxCount /\ dpc = "finished"
    /\ cpc' = "wait"
    /\ UNCHANGED <<dispatcherVars, txCh, workerVars, result, dump, cancelled, file>>

\* wg.Wait(); Generate returns and WriteDump flushes and closes the file.
Return ==
    /\ Running /\ cpc = "wait" /\ \A n \in Gens : gpc[n] = "exit"
    /\ cpc' = "done"
    /\ file' = [header |-> TRUE, txs |-> dump, left |-> TRUE]
    /\ UNCHANGED <<dispatcherVars, txCh, workerVars, result, dump, cancelled>>

\* The process ends without flushing: any prefix of what was written may have
\* reached the file, the header being the first of it.
Cut(h, k) ==
    /\ (k > 0 => h)
    /\ file' = [header |-> h, txs |-> SubSeq(dump, 1, k), left |-> TRUE]
    /\ UNCHANGED <<dispatcherVars, txCh, workerVars, result, collectorVars, cancelled>>

\* The dispatcher sees the cancellation before its next transaction: log.Fatal.
Abort ==
    /\ Running /\ dpc = "deal" /\ dealt < TxCount /\ cancelled
    /\ \E h \in BOOLEAN, k \in 0 .. Len(dump) : Cut(h, k)

\* The process is killed.
Kill ==
    /\ Running
    /\ \E h \in BOOLEAN, k \in 0 .. Len(dump) : Cut(h, k)

Cancel ==
    /\ Running /\ ~cancelled
    /\ cancelled' = TRUE
    /\ UNCHANGED <<dispatcherVars, txCh, workerVars, result, collectorVars, file>>

-----------------------------------------------------------------------------
Dispatcher ==
    \/ CheckContext \/ Deal \/ DealtAll \/ (\E n \in Gens : Close(n)) \/ CloseFinish
    \/ Abort
Worker(n) == Sign(n) \/ HandOn(n) \/ Exit(n)
Collector == Collect \/ Finish \/ Return

Next ==
    \/ Dispatcher
    \/ \E n \in Gens : Worker(n)
    \/ Collector
    \/ Cancel \/ Kill

Spec == Init /\ [][Next]_vars

\* Every goroutine that can run does; nobody has to cancel or kill.
FairSpec ==
    /\ Spec
    /\ WF_vars(Dispatcher) /\ WF_vars(Collector)
    /\ \A n \in Gens : WF_vars(Worker(n))

-----------------------------------------------------------------------------
(* Reading a dump back (reader.go). *)

\* A fault: a read error ends the dump instead of the process.
ReadDumpShort(f) ==
    [ok |-> TRUE, txs |-> IF f.header THEN f.txs ELSE <<>>]

\* The result of ReadDump: it ends the process on a short file.  A header that
\* cannot be decoded leaves TxCount at zero, and then nothing is read.
ReadDump(f) ==
    IF ~f.header THEN [ok |-> TRUE, txs |-> <<>>]
    ELSE IF Len(f.txs) < TxCount THEN [ok |-> FALSE, txs |-> <<>>]
    ELSE [ok |-> TRUE, txs |-> SubSeq(f.txs, 1, TxCount)]

\* NewWorkers refuses a dump without transactions.
Benchmarked(f) == ReadDump(f).ok /\ ReadDump(f).txs # <<>>

-----------------------------------------------------------------------------
(* Properties. *)

TypeOK ==
    LET Blobs == [req : 0 .. Requests - 1, nonce : 0 .. NonceMod - 1]
    IN  /\ dpc \in {"deal", "send", "close", "finished"} /\ dealt \in 0 .. TxCount
        /\ \A n \in Gens :
             /\ txCh[n] \in {<<>>} \cup {<<r>> : r \in 0 .. Requests - 1}
             /\ result[n] \in {<<>>} \cup {<<b>> : b \in Blobs}
             /\ blob[n] \in Blobs \cup {None}
             /\ gpc[n] \in {"recv", "out", "exit"}
             /\ signed[n] \in 0 .. TxCount /\ closed[n] \in BOOLEAN
        /\ cpc \in {"collect", "wait", "done"}
        /\ dump \in Seq(Blobs) /\ file.txs \in Seq(Blobs)
        /\ cancelled \in BOOLEAN

\* The k-th transaction of the dump is the k-th request, signed with the next
\* nonce of the worker whose turn it was: however the workers interleave, the
\* dump of given options is the same (gen.go:153-167).
DumpInOrder ==
    \A k \in 0 .. Len(dump) - 1 :
        dump[k + 1] = [req |-> k % Requests,
                       nonce |-> Nonce(k % genWorkerCount, k \div genWorkerCount)]

\* No transaction of the dump equals another, as long as the workers and the
\* transactions are as few as the comment supposes (gen.go:192).
TxsDistinct ==
    Enough => \A j, k \in DOMAIN dump : dump[j] = dump[k] => j = k

\* A dump that the benchmark accepts is the complete one, also when the
\* generator was interrupted or killed at any point (reader.go:41-61,
\* worker.go:190).
OnlyWholeDumps ==
    file.left /\ Benchmarked(file)
        => /\ Len(dump) = TxCount
           /\ ReadDump(file).txs = dump

\* Nobody waits for ever: with channels of capacity one the dispatcher, the
\* workers and the collector still get through, or the process is ended.
Terminates == <>(file.left)
=============================================================================
