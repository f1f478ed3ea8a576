-------------------------------- MODULE MCMain --------------------------------
(* An instance of Main for TLC. *)
EXTENDS Main, TLC

OneAddress == <<"n1">>
TwoContainers == <<"c1", "c2">>

\* The command lines and environments: a usual one; two addresses; only an
\* empty address; a rate of zero in either place; no workers in the mode that
\* does not look at them; a dump with no transactions, a cut one, none.
None == [x \in {} |-> 0]
Line(flags) == [flags |-> flags @@ [in |-> "dump"], env |-> None]

Usual == Line([rpcAddress |-> <<"n1">>])
TwoNodes == Line([rpcAddress |-> <<"n1", "n2">>, vote |-> TRUE,
                  disable_stats |-> TRUE])
EmptyAddress == Line([rpcAddress |-> <<"">>])
ZeroRate == Line([rateLimit |-> 0])
ZeroRateInEnv == [Usual EXCEPT !.env = [rateLimit |-> 0]]
NoWorkers == [Usual EXCEPT !.flags = [workers |-> 0] @@ @]
EmptyDump == [Usual EXCEPT !.flags = [in |-> "none"] @@ @]
CutDump == [Usual EXCEPT !.flags = [in |-> "cut"] @@ @]
NoDump == [Usual EXCEPT !.flags = [rpcAddress |-> <<"n1">>]]

AllSettings ==
    {Usual, TwoNodes, EmptyAddress, ZeroRate, ZeroRateInEnv,
     NoWorkers, EmptyDump, CutDump, NoDump}

DumpTxs == [dump |-> 2, none |-> 0, cut |-> -1]
=============================================================================
