--------------------------------- MODULE Main ---------------------------------
(***************************************************************************)
(* main (cmd/bench/main.go:26-174) from its settings to the start of the   *)
(* measurement: it makes the RPC client, asks a node for its version,      *)
(* creates the report file, starts the container statistics, reads the     *)
(* dump, makes the workers, and then prepares the chain and waits for a    *)
(* start block (Startup) while the statistics are already taken            *)
(* (DockerStats).  Bench goes on from there.                               *)
(*                                                                         *)
(* log.Fatalf and os.Exit end the process at once; a return and a panic    *)
(* run the deferred functions, one of which writes the report.             *)
(***************************************************************************)
EXTENDS Startup, Settings, DockerStats

CONSTANTS
  SettingsUsed,   \* the settings bench may be run with
  Txs             \* number of transactions a whole dump file holds; -1: it is cut

ASSUME TxsAssumption == Txs \in [Files -> Nat \cup {-1}]
ASSUME SettingsAssumption ==
    \A s \in SettingsUsed :
        /\ RpcAddress(s) \in Seq(Nodes \cup {NoAddress})
        /\ Used(s, "vote") \in BOOLEAN
        /\ Flag(s, "rateLimit") \in Int /\ Used(s, "rateLimit") \in Int

VARIABLES
  settings,
  mpc,            \* where main is
  out             \* the report file: "old", "empty", "written" or "cut"

mainVars == <<settings, mpc, out>>

MainInit ==
    /\ settings \in SettingsUsed
    /\ vote = Used(settings, "vote")
    /\ SetupInit
    /\ addr = <<>> /\ inc = 0
    /\ StatsInit
    /\ mpc = "settings"
    /\ out = "old"

\* Nothing but main moves in a step of its own before the preparation.
MainGoes(to) ==
    /\ mpc' = to
    /\ UNCHANGED <<vote, networkVars, prepareVars, startVars, stage, done, settings>>

Exit == MainGoes("exited") /\ UNCHANGED <<clientVars, statsVars, out>>

\* The deferred function; it exits itself if it cannot write all of the report.
WriteReport(to) ==
    \/ out' = "written" /\ MainGoes(to)
    \/ out' = "cut" /\ MainGoes("exited")

-----------------------------------------------------------------------------
ReadSettings ==
    /\ mpc = "settings"
    /\ IF InitSettings(settings)
       THEN MainGoes("client") /\ UNCHANGED <<clientVars, statsVars, out>>
       ELSE Exit

\* threshold divides by the rate; nothing is deferred yet that matters.
ComputeThreshold ==
    /\ mpc = "client"
    /\ Used(settings, "mode") = "rate" /\ Used(settings, "rateLimit") = 0
    /\ MainGoes("panicked")
    /\ UNCHANGED <<clientVars, statsVars, out>>

MakeClient ==
    /\ mpc = "client"
    /\ Used(settings, "mode") = "rate" => Used(settings, "rateLimit") # 0
    /\ NewRPCClient(RpcAddress(settings))
    /\ MainGoes("version")
    /\ UNCHANGED <<statsVars, out>>

GetVersion ==
    /\ mpc = "version"
    /\ \/ \E n \in Nodes : doRPCCall(n) /\ MainGoes("create")
       \/ doRPCCallPanics /\ MainGoes("panicked")
    /\ UNCHANGED <<statsVars, out>>

GetVersionFails == mpc = "version" /\ ~CallPanics /\ Exit

\* os.Create truncates the report of an earlier run.
CreateReport ==
    /\ mpc = "create"
    /\ out' = "empty"
    /\ MainGoes("stats")
    /\ UNCHANGED <<clientVars, statsVars>>

CreateFails == mpc = "create" /\ Exit

\* NewStats lists the containers, of which there must be one, and asks for all
\* of them once; then Run is started.
StartStats ==
    /\ mpc = "stats"
    /\ IF Used(settings, "disable_stats")
       THEN UNCHANGED statsPc
       ELSE ~done /\ cnr # <<>> /\ statsPc' = "wait"
    /\ MainGoes("dump")
    /\ UNCHANGED <<clientVars, running, nextCnr, stats, sum, Stats, out>>

NewStatsFails == mpc = "stats" /\ ~Used(settings, "disable_stats") /\ Exit

\* A fault: main returns on a dump it cannot read, as it does on workers.
ReadDumpReturns ==
    /\ mpc = "dump"
    /\ IF Used(settings, "in") \in Files /\ Txs[Used(settings, "in")] # -1
       THEN MainGoes("workers") /\ UNCHANGED out
       ELSE WriteReport("returned")
    /\ UNCHANGED <<clientVars, statsVars>>

ReadDump ==
    /\ mpc = "dump"
    /\ IF Used(settings, "in") \in Files /\ Txs[Used(settings, "in")] # -1
       THEN MainGoes("workers") /\ UNCHANGED <<clientVars, statsVars, out>>
       ELSE Exit

\* main returns on workers it cannot make.
NewWorkersFails ==
    /\ mpc = "workers"
    /\ Used(settings, "workers") < 1 \/ Txs[Used(settings, "in")] < 1
    /\ WriteReport("returned")
    /\ UNCHANGED <<clientVars, statsVars>>

NewWorkers ==
    /\ mpc = "workers"
    /\ Used(settings, "workers") >= 1 /\ Txs[Used(settings, "in")] >= 1
    /\ MainGoes("prepare")
    /\ UNCHANGED <<clientVars, statsVars, out>>

Launch ==
    \/ ReadSettings \/ ComputeThreshold \/ MakeClient
    \/ GetVersion \/ GetVersionFails \/ CreateReport \/ CreateFails
    \/ StartStats \/ NewStatsFails \/ ReadDump \/ NewWorkersFails \/ NewWorkers

-----------------------------------------------------------------------------
\* The process has not ended.
Alive == mpc \notin {"exited", "returned", "panicked"} /\ stage # "dead"

PrepareAndStart ==
    /\ mpc = "prepare"
    /\ Prepare \/ Start
    /\ UNCHANGED <<statsVars, mainVars>>

\* A panic of main runs the deferred functions.
Unwind ==
    /\ mpc = "prepare" /\ stage = "panicked"
    /\ WriteReport("panicked")
    /\ UNCHANGED <<clientVars, statsVars>>

\* The network, from the preparation on.
Network ==
    /\ mpc = "prepare" /\ stage \notin {"started", "panicked"} /\ Alive
    /\ \/ \E txs \in SUBSET pool : NewBlock(txs)
       \/ \E n \in Range(addr) : Sync(n)
    /\ UNCHANGED <<statsVars, mainVars>>

\* Signals are caught once the settings have been read.
Interrupt ==
    /\ Alive /\ mpc # "settings"
    /\ Cancel
    /\ UNCHANGED <<statsVars, mainVars>>

Containers ==
    /\ Alive /\ statsPc \notin {"off", "ended"}
    /\ \E c \in running : StopContainer(c)
    /\ UNCHANGED <<vars, mainVars>>

TakeStats == Alive /\ Run(done) /\ UNCHANGED <<vars, mainVars>>

MainNext ==
    \/ Launch \/ PrepareAndStart \/ Unwind
    \/ TakeStats
    \/ Network \/ Interrupt \/ Containers

MainSpec == MainInit /\ [][MainNext]_<<vars, statsVars, mainVars>>

\* Both goroutines run, and every call they make returns.
MainFairSpec ==
    /\ MainSpec
    /\ WF_<<vars, statsVars, mainVars>>(Launch \/ PrepareAndStart \/ Unwind)
    /\ WF_<<vars, statsVars, mainVars>>(TakeStats)

-----------------------------------------------------------------------------
(* Properties. *)

MainTypeOK ==
    /\ TypeOK
    /\ StatsTypeOK
    /\ mpc \in {"settings", "client", "version", "create", "stats", "dump",
                "workers", "prepare", "exited", "returned", "panicked"}
    /\ out \in {"old", "empty", "written", "cut"}

\* The preparation has panicked over an answer without the candidates.
VotesPanicked == stage = "panicked" /\ fillChain[phase] = voteForCandidates

\* Before the measurement main panics for one of four reasons only: a rate of
\* zero that came from the environment, past the check of the flags
\* (settings.go:143), no address but empty ones (client.go:50-57), a round
\* robin over several addresses whose counter has wrapped (client.go:167), or,
\* under --vote, a getCandidates that a node could not carry out (prepare.go:298).
PanicsExplained ==
    mpc = "panicked" =>
        \/ /\ Used(settings, "rateLimit") = 0
           /\ "rateLimit" \in DOMAIN settings.env \ DOMAIN settings.flags
        \/ Range(RpcAddress(settings)) = {NoAddress}
        \/ Len(addr) > 1 /\ inc < 0
        \/ VotesPanicked /\ Used(settings, "vote")

\* A report is written without a measurement only if the workers could not be
\* made, or main panicked in a call for a block or over the votes; otherwise a
\* process that ends early leaves an old report or an empty file, never one that
\* looks like a result (main.go:85-94).
HollowReportExplained ==
    out \in {"written", "cut"} =>
        \/ stage = "panicked" /\ inc < 0
        \/ VotesPanicked
        \/ Used(settings, "workers") < 1
        \/ Used(settings, "in") \in {f \in Files : Txs[f] = 0}

\* A sample is zero or the sum over all containers of the list, one reading
\* for each; a reading is another container's, one earlier in the list, only
\* where the container itself has stopped (docker.go:127-156).
SamplesAddUp ==
    \A k \in DOMAIN Stats :
        Stats[k] # <<>> =>
            /\ Len(Stats[k]) = Len(cnr)
            /\ \A c \in DOMAIN cnr :
                   Stats[k][c] # c => c \notin running /\ Stats[k][c] < c

\* Once the context is cancelled the statistics come to their end, or the
\* process does.
StatsEnd == done ~> (statsPc \in {"off", "ended"} \/ ~Alive)

\* Preparation or not, main gets to a measurement or to an end.
GetsSomewhere == <>(stage = "started" \/ ~Alive)
=============================================================================
