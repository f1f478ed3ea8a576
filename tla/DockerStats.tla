-------------------------------- MODULE DockerStats --------------------------------
(***************************************************************************)
(* The statistics of the node containers (cmd/internal/docker.go): a       *)
(* goroutine asks the Docker daemon for the resources every container of a *)
(* list uses, adds them up and hands the sums to the report                *)
(* (reporter.UpdateRes), once per period until the context is cancelled.   *)
(*                                                                         *)
(* The sum of a round is represented by what was added to it: for every    *)
(* container of the list, the one whose memory the decoded structure held. *)
(* One structure serves a whole round.  The daemon's answer for a stopped  *)
(* container has no memory fields at all, so decoding it leaves those of   *)
(* the container before it.                                                *)
(***************************************************************************)
EXTENDS Integers, Sequences

CONSTANTS
  cnr,         \* s.cnr: the containers, in the daemon's order
  MaxSamples   \* bound on the samples reported

ASSUME ContainersAssumption == cnr \in Seq({cnr[c] : c \in DOMAIN cnr})
ASSUME MaxSamplesAssumption == MaxSamples \in Nat

VARIABLES
  running,     \* the containers that run
  statsPc,         \* "off", "wait", "update", "report", "ended"
  nextCnr,     \* next container of the round
  stats,       \* the container whose memory fields the structure holds
  sum,         \* what the round has added up
  Stats        \* r.Stats of the report

statsVars == <<running, statsPc, nextCnr, stats, sum, Stats>>

NoContainer == 0

StatsInit ==
    /\ running = DOMAIN cnr
    /\ statsPc = "off" /\ nextCnr = 1
    /\ stats = NoContainer
    /\ sum = <<>>
    /\ Stats = <<>>

\* A container stops; the ones of a private network are not started again.
StopContainer(c) ==
    /\ c \in running
    /\ running' = running \ {c}
    /\ UNCHANGED <<statsPc, nextCnr, stats, sum, Stats>>

-----------------------------------------------------------------------------
\* A fault: a round that fails keeps what it has added.
FailedKeeps ==
    /\ statsPc = "update"
    /\ statsPc' = "report"
    /\ nextCnr' = 1 /\ stats' = NoContainer
    /\ UNCHANGED <<running, sum, Stats>>

\* What a decoded answer leaves in the structure.
Decoded(c) == IF c \in running THEN c ELSE stats

\* The timer fires and Update is called.
Fire ==
    /\ statsPc = "wait" /\ Len(Stats) < MaxSamples
    /\ statsPc' = "update"
    /\ UNCHANGED <<running, nextCnr, stats, sum, Stats>>

\* ContainerStats and Decode for the next container of the list.
ReadContainer ==
    /\ statsPc = "update" /\ nextCnr < Len(cnr)
    /\ nextCnr' = nextCnr + 1
    /\ stats' = Decoded(nextCnr)
    /\ sum' = Append(sum, Decoded(nextCnr))
    /\ UNCHANGED <<running, statsPc, Stats>>

\* The last container; Update returns.
ReadLastContainer ==
    /\ statsPc = "update" /\ nextCnr = Len(cnr)
    /\ statsPc' = "report"
    /\ sum' = Append(sum, Decoded(nextCnr))
    /\ nextCnr' = 1 /\ stats' = NoContainer
    /\ UNCHANGED <<running, Stats>>

\* Either of the two calls fails, not for a cancelled context: Update returns
\* zeros.
ReadFails ==
    /\ statsPc = "update"
    /\ statsPc' = "report"
    /\ sum' = <<>> /\ nextCnr' = 1 /\ stats' = NoContainer
    /\ UNCHANGED <<running, Stats>>

\* The callback, whether Update failed or not, and the timer for the next round.
UpdateRes ==
    /\ statsPc = "report"
    /\ Stats' = Append(Stats, sum)
    /\ statsPc' = "wait"
    /\ sum' = <<>>
    /\ UNCHANGED <<running, nextCnr, stats>>

\* The loop ends: select finds the context cancelled, or Update returns
\* context.Canceled.
Leave ==
    /\ statsPc \in {"wait", "update"}
    /\ statsPc' = "ended"
    /\ sum' = <<>> /\ nextCnr' = 1 /\ stats' = NoContainer
    /\ UNCHANGED <<running, Stats>>

Read == ReadContainer \/ ReadLastContainer \/ ReadFails

\* A fault: the loop is given another context.
RunOn(done) == Fire \/ Read \/ UpdateRes

\* One step of Run; a call on a cancelled context does not get an answer.
Run(done) ==
    \/ Fire \/ UpdateRes
    \/ ~done /\ Read
    \/ done /\ Leave

-----------------------------------------------------------------------------
StatsTypeOK ==
    /\ running \subseteq DOMAIN cnr
    /\ statsPc \in {"off", "wait", "update", "report", "ended"}
    /\ nextCnr \in {1} \cup DOMAIN cnr
    /\ stats \in {NoContainer} \cup DOMAIN cnr
    /\ sum \in Seq({NoContainer} \cup DOMAIN cnr)
    /\ Stats \in Seq(Seq({NoContainer} \cup DOMAIN cnr))
    /\ Len(Stats) <= MaxSamples
=============================================================================
