------------------------------ MODULE MainProofs ------------------------------
(***************************************************************************)
(* Proofs about Main: what StartupProofs shows of the preparation holds of  *)
(* it as main starts it, beside the container statistics; the statistics    *)
(* themselves; and what a panic and a hollow report come from.              *)
(***************************************************************************)
EXTENDS Main, StartupProofs

-----------------------------------------------------------------------------
(***************************************************************************)
(* The container statistics.  What a round has added up, and every sample,  *)
(* names for a container itself or, if it has stopped, an earlier one.      *)
(***************************************************************************)
Reading == {NoContainer} \cup DOMAIN cnr

Own(s, up) == \A c \in DOMAIN s : s[c] # c => c \notin up /\ s[c] < c

Whole(s, up) == s # <<>> => Len(s) = Len(cnr) /\ Own(s, up)

Wholes(ss, up) == \A k \in DOMAIN ss : Whole(ss[k], up)

StatsInv ==
    /\ StatsTypeOK
    /\ statsPc \in {"off", "wait", "ended"} =>
          nextCnr = 1 /\ stats = NoContainer /\ sum = <<>>
    /\ statsPc \in {"wait", "update", "report"} => cnr # <<>>
    /\ statsPc \in {"update", "report"} => Len(Stats) < MaxSamples
    /\ statsPc = "update" => Len(sum) = nextCnr - 1 /\ stats < nextCnr /\ Own(sum, running)
    /\ statsPc = "report" => nextCnr = 1 /\ stats = NoContainer /\ Whole(sum, running)
    /\ Wholes(Stats, running)

\* The list of the containers is a sequence.
LEMMA ContainerList ==
  /\ Len(cnr) \in Nat /\ DOMAIN cnr = 1 .. Len(cnr)
  /\ cnr # <<>> => 1 \in DOMAIN cnr
  /\ \A c \in Reading : c \in Nat
<1>1. Len(cnr) \in Nat /\ DOMAIN cnr = 1 .. Len(cnr)
  BY ContainersAssumption, LenProperties
<1>2. cnr # <<>> => Len(cnr) \in Nat \ {0}
  BY ContainersAssumption, EmptySeq
<1> QED
  BY <1>1, <1>2 DEF Reading, NoContainer

\* No sample yet.
LEMMA StatsOfStart == StatsInit => StatsInv
<1> SUFFICES ASSUME StatsInit PROVE StatsInv
  OBVIOUS
<1>1. MaxSamples \in Nat
  BY MaxSamplesAssumption
<1>2. <<>> \in Seq(Reading) /\ <<>> \in Seq(Seq(Reading)) /\ Len(<<>>) = 0
      /\ DOMAIN <<>> = {}
  BY EmptySeq
<1> QED
  BY <1>1, <1>2 DEF StatsInit, StatsInv, StatsTypeOK, Reading, Wholes

\* One more reading: the container's own, or what the structure still holds.
LEMMA OneMoreReading ==
  ASSUME StatsInv, statsPc = "update"
  PROVE  LET read == Append(sum, Decoded(nextCnr)) IN
         /\ nextCnr \in DOMAIN cnr
         /\ Decoded(nextCnr) \in Reading /\ Decoded(nextCnr) <= nextCnr
         /\ read \in Seq(Reading) /\ Len(read) = nextCnr /\ Own(read, running)
<1> DEFINE c == Decoded(nextCnr)
           read == Append(sum, c)
<1>1. /\ nextCnr \in DOMAIN cnr /\ nextCnr \in Nat /\ stats \in Reading /\ sum \in Seq(Reading)
      /\ Len(sum) = nextCnr - 1 /\ stats < nextCnr /\ stats \in Nat /\ Own(sum, running)
  BY ContainerList DEF StatsInv, StatsTypeOK, Reading
<1>2. c \in Reading /\ c \in Nat /\ c <= nextCnr
      /\ (c # nextCnr => nextCnr \notin running /\ c < nextCnr)
  BY <1>1 DEF Decoded, Reading
<1> HIDE DEF c
<1>3. /\ read \in Seq(Reading) /\ Len(read) = nextCnr
      /\ \A i \in 1 .. Len(sum) : read[i] = sum[i]
      /\ read[Len(sum) + 1] = c
  BY <1>1, <1>2, AppendProperties
<1>4. DOMAIN read = 1 .. nextCnr /\ DOMAIN sum = 1 .. nextCnr - 1
  BY <1>1, <1>3, LenProperties
<1> HIDE DEF read
<1>5. Own(read, running)
  <2>1. ASSUME NEW i \in 1 .. nextCnr, read[i] # i
        PROVE  i \notin running /\ read[i] < i
    <3>1. CASE i \in 1 .. nextCnr - 1
      BY <1>1, <1>3, <1>4, <2>1, <3>1 DEF Own
    <3>2. CASE i = nextCnr
      BY <1>1, <1>2, <1>3, <2>1, <3>2
    <3> QED
      BY <1>1, <3>1, <3>2
  <2> QED
    BY <1>4, <2>1 DEF Own
<1> QED
  BY <1>1, <1>2, <1>3, <1>5 DEF read, c

\* Every step of the statistics keeps what they are.
LEMMA NextStats ==
  ASSUME StatsInv, NEW ends \in BOOLEAN,
         Run(ends) \/ \E c \in running : StopContainer(c)
  PROVE  StatsInv'
<1>1. /\ running \in SUBSET DOMAIN cnr /\ sum \in Seq(Reading)
      /\ Stats \in Seq(Seq(Reading)) /\ Len(Stats) <= MaxSamples
      /\ nextCnr \in {1} \cup DOMAIN cnr /\ stats \in Reading
      /\ Wholes(Stats, running)
      /\ <<>> \in Seq(Reading) /\ NoContainer \in Reading
  BY EmptySeq DEF StatsInv, StatsTypeOK, Reading
<1>2. CASE Fire
  <2>1. /\ statsPc = "wait" /\ statsPc' = "update" /\ Len(Stats) < MaxSamples
        /\ UNCHANGED <<running, nextCnr, stats, sum, Stats>>
        /\ nextCnr = 1 /\ stats = NoContainer /\ sum = <<>> /\ cnr # <<>>
    BY <1>2 DEF Fire, StatsInv
  <2>2. Own(sum', running')
    BY <2>1 DEF Own
  <2>3. Len(sum) = nextCnr - 1 /\ stats < nextCnr
    BY <2>1 DEF NoContainer
  <2>4. Wholes(Stats', running')
    BY <1>1, <2>1 DEF Wholes, Whole, Own
  <2> QED
    BY <1>1, <2>1, <2>2, <2>3, <2>4 DEF StatsInv, StatsTypeOK, Reading
<1>3. CASE UpdateRes
  <2>1. /\ statsPc = "report" /\ statsPc' = "wait" /\ Stats' = Append(Stats, sum) /\ sum' = <<>>
        /\ UNCHANGED <<running, nextCnr, stats>> /\ Whole(sum, running)
        /\ nextCnr = 1 /\ stats = NoContainer /\ cnr # <<>>
    BY <1>3 DEF UpdateRes, StatsInv
  <2>2. /\ Stats' \in Seq(Seq(Reading)) /\ Len(Stats') = Len(Stats) + 1
        /\ \A i \in 1 .. Len(Stats) : Stats'[i] = Stats[i]
        /\ Stats'[Len(Stats) + 1] = sum
    BY <1>1, <2>1, AppendProperties
  <2>3. Len(Stats) \in Nat /\ Len(Stats) < MaxSamples /\ MaxSamples \in Nat
    BY <1>1, <1>3, LenProperties, MaxSamplesAssumption DEF UpdateRes, StatsInv
  <2>4. DOMAIN Stats' = 1 .. Len(Stats) + 1 /\ DOMAIN Stats = 1 .. Len(Stats)
    BY <1>1, <2>2, LenProperties
  <2>5. Wholes(Stats', running')
    <3>1. \A k \in DOMAIN Stats' : k = Len(Stats) + 1 \/ k \in DOMAIN Stats
      BY <2>3, <2>4
    <3> QED
      BY <1>1, <2>1, <2>2, <2>4, <3>1 DEF Wholes
  <2> QED
    BY <1>1, <2>1, <2>2, <2>3, <2>5 DEF StatsInv, StatsTypeOK, Reading
<1>4. ASSUME ReadContainer \/ ReadLastContainer
      PROVE  /\ statsPc = "update" /\ UNCHANGED <<running, Stats>>
             /\ sum' \in Seq(Reading) /\ Len(sum') = nextCnr /\ Own(sum', running')
             /\ nextCnr \in 1 .. Len(cnr)
             /\ Decoded(nextCnr) \in Reading /\ Decoded(nextCnr) <= nextCnr
             /\ Wholes(Stats', running')
             /\ cnr # <<>> /\ Len(Stats) < MaxSamples
  <2>1. /\ statsPc = "update" /\ UNCHANGED <<running, Stats>>
        /\ sum' = Append(sum, Decoded(nextCnr))
    BY <1>4 DEF ReadContainer, ReadLastContainer
  <2> QED
    BY <1>1, <2>1, OneMoreReading, ContainerList DEF StatsInv
<1>5. CASE ReadContainer
  <2>1. /\ nextCnr < Len(cnr) /\ nextCnr' = nextCnr + 1 /\ statsPc' = "update"
        /\ stats' = Decoded(nextCnr)
    BY <1>4, <1>5 DEF ReadContainer
  <2>2. /\ nextCnr' \in DOMAIN cnr /\ Len(sum') = nextCnr' - 1 /\ stats' < nextCnr'
    <3>1. Decoded(nextCnr) \in Nat /\ Len(cnr) \in Nat /\ DOMAIN cnr = 1 .. Len(cnr)
      BY <1>4, <1>5, ContainerList
    <3> QED
      BY <1>4, <1>5, <2>1, <3>1
  <2> QED
    BY <1>1, <1>4, <1>5, <2>1, <2>2 DEF StatsInv, StatsTypeOK, Reading
<1>6. CASE ReadLastContainer
  <2>1. /\ nextCnr = Len(cnr) /\ nextCnr' = 1 /\ statsPc' = "report"
        /\ stats' = NoContainer
    BY <1>4, <1>6 DEF ReadLastContainer
  <2>2. Whole(sum', running')
    BY <1>4, <1>6, <2>1 DEF Whole
  <2> QED
    BY <1>1, <1>4, <1>6, <2>1, <2>2 DEF StatsInv, StatsTypeOK, Reading
<1>7. CASE ReadFails \/ Leave
  <2>1. /\ sum' = <<>> /\ nextCnr' = 1 /\ stats' = NoContainer /\ UNCHANGED <<running, Stats>>
        /\ \/ statsPc = "update" /\ statsPc' = "report"
           \/ statsPc \in {"wait", "update"} /\ statsPc' = "ended"
    BY <1>7 DEF ReadFails, Leave
  <2>2. Whole(sum', running') /\ Wholes(Stats', running')
    BY <1>1, <2>1 DEF Wholes, Whole, Own
  <2> QED
    BY <1>1, <2>1, <2>2 DEF StatsInv, StatsTypeOK, Reading
<1>8. CASE \E c \in running : StopContainer(c)
  <2>1. running' \subseteq running /\ UNCHANGED <<statsPc, nextCnr, stats, sum, Stats>>
    BY <1>8 DEF StopContainer
  <2>2. /\ Own(sum, running) => Own(sum, running')
        /\ Whole(sum, running) => Whole(sum, running')
        /\ Wholes(Stats, running')
    BY <1>1, <2>1 DEF Own, Whole, Wholes
  <2> QED
    BY <1>1, <2>1, <2>2 DEF StatsInv, StatsTypeOK, Reading
<1> QED
  BY <1>2, <1>3, <1>5, <1>6, <1>7, <1>8 DEF Run, Read

-----------------------------------------------------------------------------
(***************************************************************************)
(* The setup, as main runs it.  Before the preparation it is what Startup   *)
(* starts from, whatever the client's addresses are by then; from there on  *)
(* every step is one of Startup or changes nothing of it.                   *)
(***************************************************************************)
Launching == mpc \in {"settings", "client", "version", "create", "stats", "dump", "workers"}

setupVars == <<vote, networkVars, prepareVars, startVars, stage, done>>

Prepared ==
    /\ settings \in SettingsUsed
    /\ TypeInv /\ SetupInv /\ StartInv
    /\ Launching => SetupStart

\* The beginnings of the setup, after a change of the client or of the context.
LEMMA AtStart ==
  ASSUME SetupStart, vote \in BOOLEAN, ClientTypeOK
  PROVE  TypeInv /\ SetupInv /\ StartInv
  BY StartType, StartOfStart

\* The same of the next state.
LEMMA AtStartNext ==
  (SetupStart /\ vote \in BOOLEAN /\ ClientTypeOK => TypeInv /\ SetupInv /\ StartInv)'
<1>1. SetupStart /\ vote \in BOOLEAN /\ ClientTypeOK => TypeInv /\ SetupInv /\ StartInv
  BY AtStart
<1> QED
  BY <1>1, PTL

\* The process begins with nothing set up and no client.
LEMMA MainStarts == MainInit => Prepared
<1> SUFFICES ASSUME MainInit PROVE Prepared
  OBVIOUS
<1>1. vote \in BOOLEAN /\ settings \in SettingsUsed
  BY SettingsAssumption DEF MainInit
<1>2. ClientTypeOK
  <2>1. addr \in Seq(Nodes) /\ inc = 0
    BY EmptySeq DEF MainInit
  <2> QED
    BY <2>1, MaxInt32Assumption DEF ClientTypeOK
<1>3. SetupStart
  BY DEF MainInit, SetupInit, SetupStart
<1> QED
  BY <1>1, <1>2, <1>3, AtStart DEF Prepared

\* Up to the preparation main changes nothing but the client, which stays one.
LEMMA LaunchSteps ==
  ASSUME Prepared, Launch
  PROVE  /\ Launching /\ settings' = settings /\ UNCHANGED setupVars /\ ClientTypeOK'
<1>1. ClientTypeOK /\ settings \in SettingsUsed
  BY DEF Prepared, TypeInv, TypeOK
<1> USE DEF MainGoes, Exit, WriteReport
<1>2. CASE MakeClient
  <2>1. addr' \in Shuffles(RpcAddress(settings)) /\ inc' \in 0 .. MaxInt32
    BY <1>2 DEF MakeClient, NewRPCClient, Seeds
  <2>2. addr' \in Seq(Nodes)
    <3>1. addr' \in Seq((Nodes \cup {NoAddress}) \ {NoAddress})
      BY <1>1, <2>1, SettingsAssumption, ShuffleType
    <3> QED
      BY <3>1, SeqDef
  <2> QED
    BY <1>2, <2>1, <2>2, MaxInt32Assumption DEF MakeClient, Launching, setupVars, ClientTypeOK
<1>3. CASE GetVersion
  <2>1. doRPCCallPanics \/ \E n \in Nodes : doRPCCall(n)
    BY <1>3 DEF GetVersion
  <2> QED
    BY <1>1, <1>3, <2>1, CallType DEF GetVersion, Launching, setupVars
<1>4. ASSUME Launch, ~MakeClient, ~GetVersion
      PROVE  Launching /\ UNCHANGED <<settings, clientVars, setupVars>>
  BY <1>4 DEF Launch, ReadSettings, ComputeThreshold, GetVersionFails, CreateReport,
              CreateFails, StartStats, NewStatsFails, ReadDump, NewWorkersFails, NewWorkers,
              Launching, setupVars
<1> QED
  BY <1>1, <1>2, <1>3, <1>4 DEF ClientTypeOK, clientVars

\* A step that is none of main's before the preparation is one of the setup, or
\* leaves the setup alone.
LEMMA OtherSteps ==
  ASSUME [MainNext]_<<vars, statsVars, mainVars>>, ~Launch
  PROVE  /\ settings' = settings /\ [Next]_vars
         /\ Launching' => Launching
         /\ Launching => \/ UNCHANGED <<setupVars, clientVars>>
                         \/ Cancel
<1>1. CASE PrepareAndStart
  BY <1>1 DEF PrepareAndStart, Next, mainVars, Launching
<1>2. CASE Unwind
  BY <1>2 DEF Unwind, WriteReport, MainGoes, Launching, vars, clientVars, networkVars,
              prepareVars, startVars
<1>3. CASE Network
  BY <1>3 DEF Network, Next, mainVars, Launching
<1>4. CASE Interrupt
  BY <1>4 DEF Interrupt, Next, mainVars, Launching
<1>5. CASE TakeStats \/ Containers \/ UNCHANGED <<vars, statsVars, mainVars>>
  BY <1>5 DEF TakeStats, Containers, mainVars, Launching, vars, setupVars, clientVars,
              networkVars, prepareVars, startVars
<1> QED
  BY <1>1, <1>2, <1>3, <1>4, <1>5 DEF MainNext

\* Every step of the process keeps the setup as Startup has it.
LEMMA NextPrepared == Prepared /\ [MainNext]_<<vars, statsVars, mainVars>> => Prepared'
<1> SUFFICES ASSUME Prepared, [MainNext]_<<vars, statsVars, mainVars>> PROVE Prepared'
  OBVIOUS
<1>1. vote \in BOOLEAN /\ ClientTypeOK
  BY DEF Prepared, TypeInv, TypeOK
<1>2. UNCHANGED setupVars /\ SetupStart => SetupStart' /\ vote' = vote
  <2>1. vote' = vote => SetupTxs' = SetupTxs
    BY SamePhases
  <2> QED
    BY <2>1 DEF setupVars, SetupStart, networkVars, prepareVars, startVars, NoIndex
<1>3. CASE Launch
  BY <1>1, <1>2, <1>3, LaunchSteps, AtStartNext DEF Prepared
<1>4. CASE ~Launch
  <2>1. Cancel /\ SetupStart => SetupStart'
    <3>1. vote' = vote => SetupTxs' = SetupTxs
      BY SamePhases
    <3> QED
      BY <3>1 DEF Cancel, SetupStart, networkVars, prepareVars, startVars, NoIndex
  <2>2. Launching' => SetupStart'
    BY <1>2, <1>4, <2>1, OtherSteps DEF Prepared
  <2> QED
    BY <1>4, <2>2, OtherSteps, NextType, NextSetup, NextStart DEF Prepared
<1> QED
  BY <1>3, <1>4

\* The setup and the statistics hold throughout.
LEMMA PreparedFacts == MainSpec => []Prepared
  BY MainStarts, NextPrepared, PTL DEF MainSpec

\* A process that fetches blocks to start from has a complete setup on the
\* prepared node (main.go:149-159).
THEOREM MainIsPrepared == MainSpec => []StartsPrepared
<1>1. Prepared => StartsPrepared
  BY DEF Prepared, SetupInv
<1> QED
  BY <1>1, PreparedFacts, PTL

\* No vote and no contract is sent before the GAS it costs has arrived
\* (prepare.go:228-262).
THEOREM MainIsFunded == MainSpec => []NeverUnfunded
<1>1. Prepared => NeverUnfunded
  BY FundedInPhase DEF Prepared
<1> QED
  BY <1>1, PreparedFacts, PTL

\* The start block is newer than the setup (main.go:152-170).
THEOREM MainCountsNoSetup == MainSpec => []StartBlockHasNoSetup
<1>1. Prepared => StartBlockHasNoSetup
  BY StartedNew DEF Prepared
<1> QED
  BY <1>1, PreparedFacts, PTL

-----------------------------------------------------------------------------
(***************************************************************************)
(* Where main is, and what has got it there.                                *)
(***************************************************************************)
Places == {"settings", "client", "version", "create", "stats", "dump",
           "workers", "prepare", "exited", "returned", "panicked"}

Accepted ==
    mpc \in {"client", "version", "create", "stats", "dump", "workers", "prepare"}
        => InitSettings(settings)

NoClient == addr = <<>> => Range(RpcAddress(settings)) = {NoAddress}

Connected ==
    /\ mpc \in {"version", "create", "stats", "dump", "workers", "prepare"} => NoClient
    /\ mpc \in {"create", "stats", "dump", "workers", "prepare"} => addr # <<>>
    /\ stage = "panicked" /\ addr # <<>> => (Len(addr) > 1 /\ inc < 0) \/ VotesPanicked

Loaded ==
    mpc \in {"workers", "prepare"} =>
        Used(settings, "in") \in Files /\ Txs[Used(settings, "in")] # -1

Voting == vote = Used(settings, "vote") /\ (VotesPanicked => vote)

Ended == out \in {"written", "cut"} => mpc \in {"exited", "returned", "panicked"}

NotStarted ==
    mpc \in {"settings", "client", "version", "create", "stats"} => statsPc = "off"

PlaceInv ==
    /\ mpc \in Places /\ out \in {"old", "empty", "written", "cut"}
    /\ Accepted /\ Connected /\ Loaded /\ Voting /\ Ended /\ NotStarted
    /\ PanicsExplained /\ HollowReportExplained

\* A call of a client that has addresses panics when the counter has wrapped and
\* there are several of them (client.go:167).
LEMMA WrappedPanic ==
  ASSUME ClientTypeOK, doRPCCallPanics, addr # <<>>
  PROVE  Len(addr) > 1 /\ inc' < 0 /\ addr' = addr
<1>1. idx < 0 /\ inc' = AddOne(inc) /\ addr' = addr
  BY DEF doRPCCallPanics, CallPanics
<1>2. Len(addr) \in Nat \ {0} /\ AddOne(inc) \in Int
  BY EmptySeq, MaxInt32Assumption DEF ClientTypeOK, AddOne
<1>3. \A n \in Nat \ {0}, i \in Int : Remainder(i, n) < 0 => n > 1 /\ i < 0
  <2>1. ASSUME NEW n \in Nat \ {0}, NEW i \in Int, Remainder(i, n) < 0
        PROVE  i < 0
    BY <2>1 DEF Remainder
  <2>2. ASSUME NEW i \in Int, i < 0 PROVE ~(Remainder(i, 1) < 0)
    BY <2>2 DEF Remainder
  <2>3. ASSUME NEW n \in Nat \ {0}, NEW i \in Int, Remainder(i, n) < 0
        PROVE  n > 1
    <3>1. n # 1
      BY <2>1, <2>2, <2>3
    <3> QED
      BY <3>1
  <2> QED
    BY <2>1, <2>3
<1> QED
  BY <1>1, <1>2, <1>3 DEF idx

\* The rate the flags were checked for is not zero (settings.go:142-146).
LEMMA RateChecked ==
  ASSUME NEW s \in SettingsUsed, InitSettings(s),
         Used(s, "mode") = "rate", Used(s, "rateLimit") = 0
  PROVE  "rateLimit" \in DOMAIN s.env \ DOMAIN s.flags
<1>1. ModeValid(s)
  BY Zenon DEF InitSettings
<1>2. Flag(s, "mode") # "wrk"
  <2>1. CASE "mode" \in DOMAIN s.flags
    BY <2>1 DEF Used
  <2>2. CASE "mode" \notin DOMAIN s.flags
    BY <2>2 DEF Flag, Defaults
  <2> QED
    BY <2>1, <2>2
<1>3. Flag(s, "rateLimit") > 0 /\ Flag(s, "rateLimit") \in Int
  BY <1>1, <1>2, SettingsAssumption DEF ModeValid
<1>4. Used(s, "rateLimit") # Flag(s, "rateLimit")
  BY <1>3
<1> QED
  BY <1>4, Zenon DEF Used

\* No place has been reached before the settings are read.
LEMMA PlaceOfStart == MainInit => PlaceInv
  BY DEF MainInit, SetupInit, StatsInit, PlaceInv, Places, Accepted, Connected, NoClient, Loaded,
         Voting, VotesPanicked, Ended, NotStarted, PanicsExplained, HollowReportExplained

\* What main does before the preparation keeps its place explained.
LEMMA LaunchPlace ==
  ASSUME Prepared, PlaceInv, Launch
  PROVE  PlaceInv'
<1>1. /\ settings' = settings /\ UNCHANGED setupVars /\ vote' = vote
      /\ ClientTypeOK /\ settings \in SettingsUsed
      /\ stage = "send" /\ stage' = "send" /\ ~VotesPanicked /\ ~VotesPanicked'
  <2>1. Launching /\ settings' = settings /\ UNCHANGED setupVars
    BY LaunchSteps
  <2> QED
    BY <2>1 DEF setupVars, Prepared, SetupStart, TypeInv, TypeOK, VotesPanicked
<1> USE DEF PlaceInv, Places, Accepted, Connected, NoClient, Loaded, Voting, Ended,
            NotStarted, PanicsExplained, HollowReportExplained
<1>2. CASE ReadSettings
  BY <1>1, <1>2 DEF ReadSettings, MainGoes, Exit, clientVars, statsVars
<1>3. CASE ComputeThreshold
  <2>1. mpc = "client" /\ mpc' = "panicked" /\ UNCHANGED <<addr, inc, statsPc, out>>
    BY <1>3 DEF ComputeThreshold, MainGoes, clientVars, statsVars
  <2>2. /\ Used(settings, "rateLimit") = 0
        /\ "rateLimit" \in DOMAIN settings.env \ DOMAIN settings.flags
    BY <1>1, <1>3, <2>1, RateChecked DEF ComputeThreshold
  <2> QED
    BY <1>1, <2>1, <2>2
<1>4. CASE MakeClient
  <2>1. /\ mpc = "client" /\ mpc' = "version" /\ UNCHANGED <<statsPc, out>>
        /\ addr' \in Shuffles(RpcAddress(settings))
    BY <1>4 DEF MakeClient, MainGoes, NewRPCClient, statsVars
  <2>2. ASSUME addr' = <<>> PROVE Range(RpcAddress(settings)) = {NoAddress}
    <3>1. RpcAddress(settings) \in Seq(Nodes \cup {NoAddress}) /\ RpcAddress(settings) # <<>>
      BY <1>1, <2>1, SettingsAssumption, Zenon DEF InitSettings
    <3>2. \A i \in DOMAIN RpcAddress(settings) : RpcAddress(settings)[i] = NoAddress
      BY <2>1, <2>2, <3>1, ShuffleType
    <3>3. 1 \in DOMAIN RpcAddress(settings)
      <4>1. Len(RpcAddress(settings)) \in Nat \ {0}
        BY <3>1, EmptySeq
      <4> QED
        BY <3>1, <4>1, LenProperties
    <3> QED
      BY <3>2, <3>3 DEF Range
  <2> QED
    BY <1>1, <2>1, <2>2
<1>5. CASE GetVersion
  <2>1. mpc = "version" /\ UNCHANGED <<statsPc, out>>
    BY <1>5 DEF GetVersion, MainGoes, statsVars
  <2>2. ASSUME NEW n \in Nodes, doRPCCall(n), mpc' = "create" PROVE PlaceInv'
    <3>1. addr # <<>> /\ addr' = addr
      BY <2>2 DEF doRPCCall, CallPanics
    <3> QED
      BY <1>1, <2>1, <2>2, <3>1
  <2>3. ASSUME doRPCCallPanics, mpc' = "panicked" PROVE PlaceInv'
    <3>1. addr' = addr
      BY <2>3 DEF doRPCCallPanics
    <3> QED
      BY <1>1, <2>1, <2>3, <3>1, WrappedPanic
  <2> QED
    BY <1>5, <2>2, <2>3 DEF GetVersion, MainGoes
<1>6. CASE GetVersionFails \/ CreateReport \/ CreateFails
  BY <1>1, <1>6 DEF GetVersionFails, CreateReport, CreateFails, Exit, MainGoes, clientVars,
                    statsVars
<1>7. CASE StartStats \/ NewStatsFails
  BY <1>1, <1>7 DEF StartStats, NewStatsFails, Exit, MainGoes, clientVars, statsVars
<1>8. CASE ReadDump
  BY <1>1, <1>8 DEF ReadDump, Exit, MainGoes, clientVars, statsVars
<1>9. CASE NewWorkersFails
  <2>1. /\ mpc = "workers" /\ UNCHANGED <<addr, inc, statsPc>>
        /\ mpc' \in {"returned", "exited"} /\ out' \in {"written", "cut"}
        /\ Used(settings, "workers") < 1 \/ Txs[Used(settings, "in")] < 1
    BY <1>9 DEF NewWorkersFails, WriteReport, MainGoes, clientVars, statsVars
  <2>2. Txs[Used(settings, "in")] < 1 => Txs[Used(settings, "in")] = 0
    <3>1. Used(settings, "in") \in Files /\ Txs[Used(settings, "in")] # -1
      BY <2>1
    <3>2. \A f \in Files : Txs[f] < 1 => Txs[f] = -1 \/ Txs[f] = 0
      BY TxsAssumption
    <3> QED
      BY <3>1, <3>2
  <2> QED
    BY <1>1, <2>1, <2>2
<1>10. CASE NewWorkers
  BY <1>1, <1>10 DEF NewWorkers, MainGoes, clientVars, statsVars
<1> QED
  BY <1>2, <1>3, <1>4, <1>5, <1>6, <1>7, <1>8, <1>9, <1>10 DEF Launch

\* The preparation panics in a call for a block, when the counter has wrapped, or
\* over the votes.
LEMMA PreparePanics ==
  ASSUME ClientTypeOK, PlaceInv, PrepareAndStart
  PROVE  /\ addr' = addr /\ addr # <<>> /\ mpc = "prepare" /\ vote' = vote
         /\ stage' = "panicked" => (Len(addr) > 1 /\ inc' < 0) \/ VotesPanicked'
<1>1. mpc = "prepare" /\ addr # <<>> /\ (Prepare \/ Start)
  BY DEF PrepareAndStart, PlaceInv, Connected
<1>2. addr' = addr /\ vote' = vote
  BY <1>1, SameFirst DEF Next
<1>3. CASE CallPanicked
  BY <1>1, <1>2, <1>3, WrappedPanic DEF CallPanicked
<1>4. CASE VotesPanic
  <2>1. /\ stage' = "panicked" /\ phase' = phase /\ fillChain[phase] = voteForCandidates
    BY <1>4 DEF VotesPanic, prepareVars
  <2>2. fillChain' = fillChain
    BY <1>2, SamePhases
  <2>3. voteForCandidates' = voteForCandidates
    BY DEF voteForCandidates, voteTxs, AllOf, Tx
  <2>4. VotesPanicked'
    BY <2>1, <2>2, <2>3 DEF VotesPanicked
  <2> QED
    BY <1>1, <1>2, <2>4
<1>5. ASSUME ~CallPanicked, ~VotesPanic, stage' = "panicked" PROVE FALSE
  BY <1>1, <1>5 DEF Prepare, SendNext, SendFails, CheckHolds, CheckFails, AwaitGivesUp, Die,
         Start, GetBlockCount, Asks, FetchLast, Poll, CallFails, PollsEnd
<1> QED
  BY <1>1, <1>2, <1>3, <1>4, <1>5

\* The steps of the process, grouped by what they change of main's place.
LEMMA PlaceSteps ==
  ASSUME MainNext
  PROVE  \/ Launch
         \/ PrepareAndStart /\ UNCHANGED <<statsPc, mpc, out, settings>>
         \/ Unwind
         \/ /\ UNCHANGED <<addr, inc, vote, stage, phase, mpc, out, settings>>
            /\ statsPc = "off" => statsPc' = "off"
<1>1. CASE TakeStats
  BY <1>1 DEF TakeStats, Run, Fire, UpdateRes, Read, ReadContainer, ReadLastContainer,
              ReadFails, Leave, vars, mainVars
<1>2. CASE Network \/ Interrupt
  BY <1>2 DEF Network, NewBlock, Sync, Interrupt, Cancel, clientVars, prepareVars, mainVars,
              statsVars
<1>3. CASE Containers
  BY <1>3 DEF Containers, StopContainer, vars, mainVars
<1>4. CASE PrepareAndStart
  BY <1>4 DEF PrepareAndStart, mainVars, statsVars
<1> QED
  BY <1>1, <1>2, <1>3, <1>4 DEF MainNext

\* A panic over the votes stays one.
LEMMA StaysVotes ==
  ASSUME UNCHANGED <<vote, stage, phase>>
  PROVE  VotesPanicked' <=> VotesPanicked
<1>1. fillChain' = fillChain
  BY SamePhases
<1>2. voteForCandidates' = voteForCandidates
  BY DEF voteForCandidates, voteTxs, AllOf, Tx
<1> QED
  BY <1>1, <1>2 DEF VotesPanicked

\* Votes panic only a run with votes.
LEMMA VotedNext == (TypeInv /\ VotesPanicked => vote)'
<1>1. TypeInv /\ VotesPanicked => vote
  BY VotesAreVoted DEF TypeInv, TypeOK, VotesPanicked
<1> QED
  BY <1>1, PTL

\* Every step keeps main's place explained.
LEMMA NextPlace ==
  Prepared /\ PlaceInv /\ [MainNext]_<<vars, statsVars, mainVars>> => PlaceInv'
<1> SUFFICES ASSUME Prepared, PlaceInv, [MainNext]_<<vars, statsVars, mainVars>>
             PROVE  PlaceInv'
  OBVIOUS
<1>1. CASE Launch
  BY <1>1, LaunchPlace
<1> USE DEF PlaceInv, Places, Accepted, Connected, NoClient, Loaded, Voting, Ended,
            NotStarted, PanicsExplained, HollowReportExplained
<1>2. CASE PrepareAndStart /\ UNCHANGED <<statsPc, mpc, out, settings>>
  <2>1. ClientTypeOK
    BY DEF Prepared, TypeInv, TypeOK
  <2>2. /\ addr' = addr /\ addr # <<>> /\ mpc = "prepare" /\ vote' = vote
        /\ stage' = "panicked" => (Len(addr) > 1 /\ inc' < 0) \/ VotesPanicked'
    BY <1>2, <2>1, PreparePanics
  <2>3. VotesPanicked' => vote'
    <3>1. TypeInv'
      BY <1>2, NextType DEF Prepared, PrepareAndStart, Next
    <3> QED
      BY <3>1, VotedNext
  <2> QED
    BY <1>2, <2>2, <2>3
<1>3. CASE Unwind
  <2>1. UNCHANGED <<addr, inc, vote, stage, phase, statsPc, settings>>
        /\ mpc = "prepare" /\ stage = "panicked"
        /\ mpc' \in {"exited", "panicked"} /\ out' \in {"written", "cut"}
    BY <1>3 DEF Unwind, WriteReport, MainGoes, clientVars, prepareVars, statsVars
  <2> QED
    BY <2>1, StaysVotes
<1>4. CASE /\ UNCHANGED <<addr, inc, vote, stage, phase, mpc, out, settings>>
           /\ statsPc = "off" => statsPc' = "off"
  BY <1>4, StaysVotes
<1>5. CASE UNCHANGED <<vars, statsVars, mainVars>>
  BY <1>5, StaysVotes DEF vars, statsVars, mainVars
<1> QED
  BY <1>1, <1>2, <1>3, <1>4, <1>5, PlaceSteps

\* The statistics change by steps of their own, by being started, or not at all.
LEMMA StatsSteps ==
  ASSUME MainNext
  PROVE  \/ Run(done)
         \/ \E c \in running : StopContainer(c)
         \/ mpc = "stats" /\ cnr # <<>> /\ statsPc' = "wait"
            /\ UNCHANGED <<running, nextCnr, stats, sum, Stats>>
         \/ UNCHANGED statsVars
<1>1. CASE Launch
  BY <1>1 DEF Launch, ReadSettings, ComputeThreshold, MakeClient, GetVersion, GetVersionFails,
              CreateReport, CreateFails, StartStats, NewStatsFails, ReadDump, NewWorkersFails,
              NewWorkers, Exit, statsVars
<1> QED
  BY <1>1 DEF MainNext, PrepareAndStart, Unwind, TakeStats, Network, Interrupt, Containers

\* Every step of the process keeps the samples what they are.
LEMMA NextMainStats ==
  Prepared /\ PlaceInv /\ StatsInv /\ [MainNext]_<<vars, statsVars, mainVars>> => StatsInv'
<1> SUFFICES ASSUME Prepared, PlaceInv, StatsInv, [MainNext]_<<vars, statsVars, mainVars>>
             PROVE  StatsInv'
  OBVIOUS
<1>1. done \in BOOLEAN
  BY DEF Prepared, TypeInv, TypeOK
<1>2. CASE Run(done) \/ \E c \in running : StopContainer(c)
  BY <1>1, <1>2, NextStats
<1>3. CASE /\ mpc = "stats" /\ cnr # <<>> /\ statsPc' = "wait"
           /\ UNCHANGED <<running, nextCnr, stats, sum, Stats>>
  <2>1. statsPc = "off"
    BY <1>3 DEF PlaceInv, NotStarted
  <2> QED
    BY <1>3, <2>1 DEF StatsInv, StatsTypeOK
<1>4. CASE UNCHANGED statsVars
  BY <1>4 DEF statsVars, StatsInv, StatsTypeOK
<1> QED
  BY <1>2, <1>3, <1>4, StatsSteps

\* The preparation, main's place and the statistics hold throughout.
LEMMA MainFacts == MainSpec => [](Prepared /\ PlaceInv /\ StatsInv)
<1>1. MainInit => StatsInv
  BY StatsOfStart DEF MainInit
<1> QED
  BY <1>1, MainStarts, PlaceOfStart, NextPrepared, NextPlace, NextMainStats, PTL DEF MainSpec

\* The variables of main, of the setup and of the statistics keep their types.
THEOREM MainTypeCorrect == MainSpec => []MainTypeOK
<1>1. Prepared /\ PlaceInv /\ StatsInv => MainTypeOK
  BY DEF Prepared, TypeInv, PlaceInv, Places, StatsInv, MainTypeOK
<1> QED
  BY <1>1, MainFacts, PTL

\* Whatever the settings are, main panics before the measurement for one of four
\* reasons only (settings.go:142-146, client.go:50-57, 167, prepare.go:298).
THEOREM PanicsAreExplained == MainSpec => []PanicsExplained
<1>1. PlaceInv => PanicsExplained
  BY DEF PlaceInv
<1> QED
  BY <1>1, MainFacts, PTL

\* A report without a measurement comes from workers that could not be made or
\* from a panic in a call for a block or over the votes (main.go:85-94, 128-141).
THEOREM HollowReportsAreExplained == MainSpec => []HollowReportExplained
<1>1. PlaceInv => HollowReportExplained
  BY DEF PlaceInv
<1> QED
  BY <1>1, MainFacts, PTL

\* A sample adds up one reading for every container of the list, and a reading
\* is another's only where the container has stopped (docker.go:127-156).
THEOREM SamplesAreSums == MainSpec => []SamplesAddUp
<1>1. StatsInv => SamplesAddUp
  <2> SUFFICES ASSUME StatsInv, NEW k \in DOMAIN Stats, Stats[k] # <<>>
               PROVE  /\ Len(Stats[k]) = Len(cnr)
                      /\ \A c \in DOMAIN cnr :
                            Stats[k][c] # c => c \notin running /\ Stats[k][c] < c
    BY DEF SamplesAddUp
  <2>1. Len(Stats[k]) = Len(cnr) /\ Own(Stats[k], running)
    BY DEF StatsInv, Wholes, Whole
  <2>2. Stats[k] \in Seq(Reading)
    <3>1. Stats \in Seq(Seq(Reading))
      BY DEF StatsInv, StatsTypeOK, Reading
    <3> QED
      BY <3>1, LenProperties, ElementOfSeq
  <2>3. DOMAIN Stats[k] = DOMAIN cnr
    BY <2>1, <2>2, ContainerList, LenProperties
  <2> QED
    BY <2>1, <2>3 DEF Own
<1> QED
  BY <1>1, MainFacts, PTL
=============================================================================
