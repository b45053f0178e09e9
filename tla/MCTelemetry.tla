---------------------------- MODULE MCTelemetry ----------------------------
(***************************************************************************)
(* An instance for TLC of the two ends of a lease's stream: the trainer's  *)
(* output on its way into it, and what is kept and shown of the lines that *)
(* arrive.  A frame carries no state of one end to the other but its line, *)
(* so that a behaviour is one of one of them.                              *)
(***************************************************************************)
EXTENDS Output, Transcript

VARIABLE part  \* the end a behaviour is about

vars == <<part, outputVars, transcriptVars>>

Init == part \in {"output", "transcript"} /\ OutputInit /\ TranscriptInit

Next ==
  /\ UNCHANGED part
  /\ \/ part = "output" /\ OutputNext /\ UNCHANGED transcriptVars
     \/ part = "transcript" /\ TranscriptNext /\ UNCHANGED outputVars

Threads(A) == part = "output" /\ A /\ UNCHANGED <<part, transcriptVars>>

(* Threads and the task go on; nothing makes a trainer write or exit.      *)
Executing == OpenStream \/ ForwardLine \/ Settle \/ StopContainer

Fairness ==
  /\ WF_vars(Threads(Executing)) /\ WF_vars(Threads(TailLogs)) /\ WF_vars(Threads(WaitForExit))
  /\ \A s \in Streams : WF_vars(Threads(Pump(s) \/ PumpEnds(s)))

Spec == Init /\ [][Next]_vars /\ Fairness

MaxOf == [s \in Streams |-> IF s = "stdout" THEN 2 ELSE 1]
=============================================================================
