----------------------------- MODULE Curtailment -----------------------------
(***************************************************************************)
(* Detecting curtailment events in a series of samples:                    *)
(* domain/curtailment/engine.ts.                                           *)
(*                                                                         *)
(* The loop of detectCurtailmentEvents takes the samples in the order of   *)
(* their times; here each action is one turn of it.  Powers are left out:  *)
(* a sample is curtailed by the minimum or more, or it is not, and when it *)
(* is, it shows signs of some causes.  (Clipping is never one of them: it  *)
(* has to explain all but 1 kW of what is missing, and then less than the  *)
(* minimum is.)                                                            *)
(***************************************************************************)
EXTENDS Naturals, SequencesExt

CONSTANTS Signs,                \* bound: signs a sample may show
          Gaps,                 \* bound: times between a sample and the next
          PersistenceSamples,   \* config.persistenceSamples
          MergeGap,             \* config.mergeGapMs
          MaxSamples            \* bound: samples in the series

\* classifyCurtailmentCause asks in this order; nothing shown is "unknown".
Causes == <<"equipment_fault", "maintenance", "inverter_derating", "grid_instruction",
            "network_congestion", "negative_price", "economic_dispatch", "export_limit",
            "ppc_limit", "weather", "unknown">>
CauseNames == {Causes[i] : i \in 1..Len(Causes)}

ASSUME CurtailmentAssumption ==
    /\ Signs \subseteq CauseNames \ {"unknown"}
    /\ Gaps \subseteq Nat \ {0}
    /\ PersistenceSamples \in Nat \ {0}
    /\ MergeGap \in Nat
    /\ MaxSamples \in Nat

VARIABLES
    samples,        \* history: the samples so far
    pending,        \* the run of curtailed samples under way; empty if there is none
    open            \* runs that have ended and were long enough

curtailmentVars == <<samples, pending, open>>

\* A sample, and an interval, as far as what is reported depends on them.
Sample == [time : Nat, curtailed : BOOLEAN, cause : CauseNames]
Interval == [start : Nat, end : Nat, cause : CauseNames, points : Seq(Nat)]
NoRun == [start |-> 0, end |-> 0, cause |-> "unknown", points |-> <<>>]

ClassifyCause(signs) ==
    IF signs = {} THEN "unknown"
    ELSE Causes[Min({i \in 1..Len(Causes) : Causes[i] \in signs})]

\* Weather is a sign of the evidence alone, and nobody can recover it.
Recoverable(cause) ==
    cause \notin {"equipment_fault", "maintenance", "inverter_derating", "weather"}

CurtailmentInit ==
    /\ samples = <<>>
    /\ pending = NoRun
    /\ open = <<>>

\* What is reported of the run under way when it ends.
Flushed == IF Len(pending.points) >= PersistenceSamples THEN Append(open, pending) ELSE open

\* The inverter is unavailable, there is no usable evidence, or too little is
\* missing: the run ends.
NotCurtailed(time) ==
    /\ samples' = Append(samples, [time |-> time, curtailed |-> FALSE, cause |-> "unknown"])
    /\ open' = Flushed
    /\ pending' = NoRun

\* A run begins, or goes on: a known cause replaces the run's, and with it
\* whether its energy is recoverable.
ExtendRun(run, time, cause) ==
    IF run = NoRun THEN [start |-> time, end |-> time, cause |-> cause, points |-> <<time>>]
    ELSE [run EXCEPT !.end = time, !.points = Append(@, time),
                     !.cause = IF cause = "unknown" THEN @ ELSE cause]

Curtailed(time, signs) ==
    LET cause == ClassifyCause(signs) IN
    /\ samples' = Append(samples, [time |-> time, curtailed |-> TRUE, cause |-> cause])
    /\ pending' = ExtendRun(pending, time, cause)
    /\ UNCHANGED open

\* The next sample, some time after the last one: a gap does not end a run.
CurtailmentNext ==
    /\ Len(samples) < MaxSamples
    /\ \E gap \in Gaps :
         LET time == (IF samples = <<>> THEN 0 ELSE Last(samples).time) + gap IN
         \/ NotCurtailed(time)
         \/ \E signs \in SUBSET Signs : Curtailed(time, signs)

CurtailmentSpec == CurtailmentInit /\ [][CurtailmentNext]_curtailmentVars

\* Mutant: whatever is near is merged.
Mergeable(previous, interval) == interval.start - previous.end <= MergeGap

MergesWith(previous, interval) ==
    previous.cause = interval.cause /\ interval.start - previous.end <= MergeGap

MergeInto(merged, interval) ==
    IF merged # <<>> /\ MergesWith(Last(merged), interval)
    THEN [merged EXCEPT ![Len(merged)].end = interval.end,
                        ![Len(merged)].points = @ \o interval.points]
    ELSE Append(merged, interval)

\* The list of the second loop after its first n turns, ...
Merged[n \in 0..Len(Flushed)] == IF n = 0 THEN <<>> ELSE MergeInto(Merged[n - 1], Flushed[n])

\* ... and what detectCurtailmentEvents returns for the samples so far.
Detected == Merged[Len(Flushed)]

-----------------------------------------------------------------------------
CurtailmentTypeOK ==
    /\ samples \in Seq(Sample)
    /\ pending \in Interval
    /\ open \in Seq(Interval)

\* The definition the detection is compared with: the longest runs of curtailed
\* samples, those that persist.
Run(i, j) ==
    /\ j - i + 1 >= PersistenceSamples
    /\ \A k \in i..j : samples[k].curtailed
    /\ i > 1 => ~samples[i - 1].curtailed
    /\ j < Len(samples) => ~samples[j + 1].curtailed

Runs == {r \in (1..Len(samples)) \X (1..Len(samples)) : r[1] <= r[2] /\ Run(r[1], r[2])}

\* The cause of a run: that of the last of its samples whose cause is known.
RunCause(r) ==
    LET known == {k \in r[1]..r[2] : samples[k].cause # "unknown"} IN
    IF known = {} THEN "unknown" ELSE samples[Max(known)].cause

Within(r, interval) ==
    interval.start <= samples[r[1]].time /\ samples[r[2]].time <= interval.end

\* The events are the persistent runs, each in exactly one event and with its
\* cause; an event holds the points of its runs and no others, begins and ends
\* with one, and two neighbours of one cause are further apart than the merge gap
\* (engine.ts:259-279).
EventsAreTheRuns ==
    LET events == Detected IN
    /\ \A r \in Runs : \E e \in 1..Len(events) :
         /\ Within(r, events[e]) /\ events[e].cause = RunCause(r)
         /\ \A f \in 1..Len(events) : Within(r, events[f]) => f = e
    /\ \A e \in 1..Len(events) :
         LET own == {r \in Runs : Within(r, events[e])} IN
         /\ own # {}
         /\ events[e].start = Min({samples[r[1]].time : r \in own})
         /\ events[e].end = Max({samples[r[2]].time : r \in own})
         /\ ToSet(events[e].points) =
              UNION {{samples[k].time : k \in r[1]..r[2]} : r \in own}
         /\ e > 1 => LET before == events[e - 1] IN
              /\ before.end < events[e].start
              /\ before.cause = events[e].cause => events[e].start - before.end > MergeGap

\* "recoverable energy excludes equipment faults" (docs/ARCHITECTURE.md:26): no
\* event whose energy is recoverable has a point where the inverter is at fault.
\* The code lets the last known cause of a run decide for all of it
\* (engine.ts:252-254).
RecoverableExcludesFaults ==
    \A e \in 1..Len(Detected) : Recoverable(Detected[e].cause) =>
        \A k \in 1..Len(samples) :
            samples[k].time \in ToSet(Detected[e].points) => samples[k].cause # "equipment_fault"
=============================================================================
