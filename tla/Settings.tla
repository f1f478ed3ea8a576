------------------------------- MODULE Settings -------------------------------
(***************************************************************************)
(* The settings of bench (cmd/internal/settings.go).  A setting comes from *)
(* the command line, from the environment (BENCH_...) or from its default, *)
(* in this order (viper).  InitSettings looks at the values of the flags,  *)
(* which know nothing of the environment, and main then uses viper's.      *)
(*                                                                         *)
(* The settings of a run are a record: "flags" and "env" map the names     *)
(* that are set there to their values.                                     *)
(***************************************************************************)
EXTENDS Integers, Sequences

CONSTANT Files   \* files that exist and can be opened

Defaults ==
    [help |-> FALSE, desc |-> "unknown benchmark", out |-> "report.log",
     mode |-> "rate", workers |-> 30, timeLimit |-> 30, rateLimit |-> 1000,
     concurrent |-> 4, rpcAddress |-> <<"127.0.0.1:20331">>,
     request_timeout |-> 30, in |-> "", vote |-> FALSE,
     disable_stats |-> FALSE]

\* The value of a flag after flags.Parse, and the value viper gives.
Flag(s, name) ==
    IF name \in DOMAIN s.flags THEN s.flags[name] ELSE Defaults[name]

Used(s, name) ==
    IF name \notin DOMAIN s.flags /\ name \in DOMAIN s.env
    THEN s.env[name] ELSE Flag(s, name)

\* v.Set("rpcAddress", ...) overrides the environment.
RpcAddress(s) == Flag(s, "rpcAddress")

validateImport(s) == Flag(s, "in") \in Files \cup {""}

\* A fault: the rate may be zero.
ModeValidUpToZero(s) ==
    \/ Flag(s, "mode") = "wrk" /\ Flag(s, "workers") > 0
    \/ Flag(s, "mode") = "rate" /\ Flag(s, "rateLimit") >= 0

\* The workers are looked at in one mode only, the rate in the other.
ModeValid(s) ==
    \/ Flag(s, "mode") = "wrk" /\ Flag(s, "workers") > 0
    \/ Flag(s, "mode") = "rate" /\ Flag(s, "rateLimit") > 0

\* The settings with which the process goes on.
InitSettings(s) ==
    /\ validateImport(s)
    /\ ~Flag(s, "help")
    /\ Flag(s, "request_timeout") >= 0
    /\ Flag(s, "out") # ""
    /\ Flag(s, "desc") # ""
    /\ RpcAddress(s) # <<>>
    /\ Flag(s, "concurrent") > 0
    /\ Flag(s, "timeLimit") > 0
    /\ ModeValid(s)
=============================================================================
