------------------------------ MODULE BlockTally ------------------------------
(***************************************************************************)
(* What the parser promises, whatever fails or lags while it works: each   *)
(* block is counted at most once, the blocks from the start block on are   *)
(* counted in order and without a gap, and the total is the number of      *)
(* transactions in the counted blocks.  Blocks before the start block are  *)
(* not excluded: the code can count them (see Parsing).                    *)
(***************************************************************************)
EXTENDS Integers, Sequences

CONSTANTS
  Genesis,      \* the chain when the parser starts, as transaction counts
  Start,        \* index of the block the benchmark starts from
  BlockSizes    \* the sizes of the blocks the network may add

VARIABLES
  chain,        \* the blocks of the network; block i is chain[i + 1]
  counted,      \* indices of the blocks counted so far
  total         \* transactions counted so far

vars == <<chain, counted, total>>

Init ==
    /\ chain = Genesis
    /\ counted = {}
    /\ total = 0

Grow ==
    /\ \E k \in BlockSizes : chain' = Append(chain, k)
    /\ UNCHANGED <<counted, total>>

CountBlock(i) ==
    /\ i \notin counted
    /\ \A j \in Start .. i - 1 : j \in counted
    /\ counted' = counted \cup {i}
    /\ total' = total + chain[i + 1]
    /\ UNCHANGED chain

Next == Grow \/ \E i \in 0 .. Len(chain) - 1 : CountBlock(i)

Spec == Init /\ [][Next]_vars
=============================================================================
