------------------------------ MODULE RpcClient ------------------------------
(***************************************************************************)
(* The RPC client (cmd/internal/client.go): the addresses in a random      *)
(* order and an int32 counter, advanced atomically by every call of every  *)
(* goroutine, whose remainder names the address that is asked.             *)
(*                                                                         *)
(* The counter starts anywhere in 0 .. MaxInt32 and wraps to a negative    *)
(* number.  Go's remainder takes the sign of its dividend, so it may then  *)
(* be negative and no index of addr; and with no address at all there is   *)
(* no remainder.  Both panic.                                              *)
(***************************************************************************)
EXTENDS Integers, Sequences, FiniteSets, Functions

CONSTANTS
  Nodes,     \* the RPC nodes, named by their addresses
  MaxInt32   \* the largest int32

ASSUME MaxInt32Assumption == MaxInt32 \in Nat

VARIABLES
  addr,      \* c.addr: the addresses as the client has shuffled them
  inc        \* c.inc

clientVars == <<addr, inc>>

ClientTypeOK ==
    /\ addr \in Seq(Nodes)
    /\ inc \in -(MaxInt32 + 1) .. MaxInt32

-----------------------------------------------------------------------------
\* An empty line of the list of addresses.
NoAddress == ""

\* pcg.Shuffle: the orders the addresses may get, of which the empty ones are
\* left out.
Shuffles(s) ==
    LET used == {i \in DOMAIN s : s[i] # NoAddress}
        orders == Bijection(1 .. Cardinality(used), used)
    IN {[i \in DOMAIN p |-> s[p[i]]] : p \in orders}

\* pcg.Int32(): no negative number.  A fault: any int32.
AnyInt32 == -(MaxInt32 + 1) .. MaxInt32
Seeds == 0 .. MaxInt32

\* The client of a list of addresses.
NewRPCClient(rpcAddress) ==
    /\ addr' \in Shuffles(rpcAddress)
    /\ inc' \in Seeds

-----------------------------------------------------------------------------
\* A fault: the counter is advanced twice for a call.
AddTwo(i) == IF i >= MaxInt32 - 1 THEN i - 2 * MaxInt32 ELSE i + 2

\* c.inc.Add(1)
AddOne(i) == IF i = MaxInt32 THEN -(MaxInt32 + 1) ELSE i + 1

\* a % n in Go: it truncates, the remainder has the sign of a.
Remainder(a, n) == IF a >= 0 THEN a % n ELSE -((-a) % n)

\* idx of the next call, an index of addr that counts from zero.
idx == Remainder(AddOne(inc), Len(addr))

CallPanics == addr # <<>> => idx < 0

\* The call is answered, or not, by node n.
doRPCCall(n) ==
    /\ ~CallPanics
    /\ n = addr[idx + 1]
    /\ inc' = AddOne(inc)
    /\ UNCHANGED addr

\* The division by zero, or the index out of range.
doRPCCallPanics ==
    /\ CallPanics
    /\ inc' = AddOne(inc)
    /\ UNCHANGED addr
=============================================================================
