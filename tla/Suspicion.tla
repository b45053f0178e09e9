------------------------------ MODULE Suspicion -----------------------------
(***************************************************************************)
(* When a silent node is declared failed: evaluate_suspicion over the      *)
(* intervals between a node's heartbeats, in whole seconds.                *)
(*                                                                         *)
(* Phi reaches its threshold when the silence exceeds the expected         *)
(* interval by as many standard deviations as the threshold is a quantile  *)
(* of the normal distribution; that number is the constant Deviations.     *)
(* Mean and deviation are fractions; all terms are multiplied by the       *)
(* number of intervals, and compared by their squares.                     *)
(***************************************************************************)
EXTENDS Integers, Sequences, FiniteSets, Functions, FiniteSetsExt, SequencesExt

CONSTANTS
  WindowSamples,     \* phi_accrual_window_samples
  MinIntervals,      \* phi_accrual_min_intervals
  MinStd,            \* phi_accrual_min_std_seconds
  FloorSeconds,      \* heartbeat_floor_seconds
  BootstrapSilence,  \* phi_accrual_bootstrap_silence_seconds
  AcceptablePause,   \* phi_accrual_acceptable_pause_seconds
  Deviations,        \* the quantile of phi_accrual_threshold
  MaxSilence,        \* bound on the seconds between two heartbeats
  MaxIntervals       \* bound on the heartbeats of a node

ASSUME SuspicionAssumption ==
  /\ {WindowSamples, MinIntervals, MinStd} \subseteq Nat \ {0}
  /\ {FloorSeconds, BootstrapSilence, AcceptablePause, Deviations, MaxSilence, MaxIntervals} \subseteq Nat
  /\ MinIntervals <= WindowSamples

VARIABLES
  intervals,  \* between the heartbeats of the node, oldest first
  silence     \* seconds since the last one

heartVars == <<intervals, silence>>

SuspicionTypeOK ==
  intervals \in BoundedSeq(0 .. MaxSilence, MaxIntervals) /\ silence \in 0 .. MaxSilence

SuspicionInit == intervals = <<>> /\ silence = 0

SecondPasses == silence < MaxSilence /\ silence' = silence + 1 /\ UNCHANGED intervals

Heartbeat ==
  /\ Len(intervals) < MaxIntervals
  /\ intervals' = Append(intervals, silence) /\ silence' = 0

SuspicionNext == SecondPasses \/ Heartbeat

-----------------------------------------------------------------------------
WholeHistory(all) == all                                                 \* mutant

(* The query reads the newest samples only. *)
RecentIntervals(all) ==
  IF Len(all) > WindowSamples THEN SubSeq(all, Len(all) - WindowSamples + 1, Len(all)) ELSE all

(* What the intervals up to each add up to. *)
Sums(window) ==
  LET sum[i \in 0 .. Len(window)] == IF i = 0 THEN 0 ELSE sum[i - 1] + window[i]
  IN sum

Total(window) == Sums(window)[Len(window)]

Squares(window) == Total([i \in DOMAIN window |-> window[i] * window[i]])

(* The square of the deviation, never less than that of MinStd, times the  *)
(* square of the number of intervals.                                      *)
Spread(window) ==
  Max({Len(window) * Squares(window) - Total(window) * Total(window),
       (Len(window) * MinStd) * (Len(window) * MinStd)})

NoPause(window) == Total(window)                                         \* mutant
Expected(window) == Total(window) + Len(window) * AcceptablePause

PhiReached(window, elapsed) ==
  LET late == Len(window) * elapsed - Expected(window)
  IN late >= 0 /\ late * late >= Deviations * Deviations * Spread(window)

(* The floor comes last: it can delay a declaration, never hasten one.     *)
EvaluateSuspicion(all, elapsed) ==
  LET window == RecentIntervals(all) IN
  /\ elapsed >= FloorSeconds
  /\ IF Len(window) < MinIntervals
       THEN elapsed >= BootstrapSilence
       ELSE PhiReached(window, elapsed)

Failed == EvaluateSuspicion(intervals, silence)

-----------------------------------------------------------------------------
Latest == {intervals[i] : i \in {k \in DOMAIN intervals : k + WindowSamples > Len(intervals)}}
Longest == Max(Latest)
Shortest == Min(Latest)

(* A node is declared failed only after a silence of the floor and, once   *)
(* its rhythm is known, only when it is later than its quickest heartbeat  *)
(* of late by the acceptable pause: a stall of that length costs nothing.  *)
PauseIsForgiven ==
  Failed =>
    /\ silence >= FloorSeconds
    /\ Len(intervals) >= MinIntervals => silence >= Shortest + AcceptablePause + Deviations * MinStd

(* However it beat before, a node that goes quiet is declared failed, at   *)
(* the latest after the longest interval it showed lately, the pause, and  *)
(* as many of the largest deviations those intervals can have.             *)
SilenceIsDetected ==
  /\ silence >= FloorSeconds
  /\ IF Len(intervals) < MinIntervals THEN silence >= BootstrapSilence
     ELSE 2 * (silence - Longest - AcceptablePause)
            >= Deviations * Max({2 * MinStd, Longest - Shortest})
  => Failed
=============================================================================
