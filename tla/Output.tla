------------------------------- MODULE Output -------------------------------
(***************************************************************************)
(* From a trainer's standard streams to the result of its execution.       *)
(*                                                                         *)
(* Two threads read stdout and stderr, a third merges their lines into the *)
(* queue the execution's task forwards from, a fourth waits for the exit   *)
(* code.  The trainer is a container or, without Docker, a child process   *)
(* with a guard that kills it when it takes too much memory.               *)
(***************************************************************************)
EXTENDS Naturals, Sequences, FiniteSets, SequencesExt

CONSTANTS
  MaxPrinted  \* bound on the lines of each stream

Streams == {"stdout", "stderr"}

ASSUME OutputAssumption == MaxPrinted \in [Streams -> Nat]

VARIABLES
  process,  \* the trainer
  printed,  \* lines printed to a stream; those on stdout may be its results
  kinds,    \* what the lines on stdout are
  read,     \* lines its pump has read
  pump,     \* the thread that reads it
  merged,   \* the pumps' lines, and a mark for each that has ended
  queue,    \* lines for the task, and a mark at the end
  exited,   \* the exit code, for the task
  task,     \* the execution's task
  link,     \* its stream to the orchestrator
  sent,     \* lines forwarded
  results   \* what it has parsed: a metric, the final line

trainerVars == <<process, printed, kinds>>
threadVars == <<read, pump, merged, queue, exited>>
taskVars == <<task, link, sent, results>>
outputVars == <<trainerVars, threadVars, taskVars>>

StreamDone == <<"done", 0>>
LogDone == <<"end", 0>>
Line == UNION {{s} \X (1 .. MaxPrinted[s]) : s \in Streams}
Kinds == {"plain", "metric", "final"}

OutputTypeOK ==
  /\ process \in {"running", "ok", "failed"} /\ \A s \in Streams : printed[s] \in 0 .. MaxPrinted[s]
  /\ kinds \in BoundedSeq(Kinds, MaxPrinted["stdout"]) /\ \A s \in Streams : read[s] \in 0 .. printed[s]
  /\ pump \in [Streams -> {"reading", "ended", "broken"}]
  /\ ToSet(merged) \subseteq Line \cup {StreamDone} /\ ToSet(queue) \subseteq Line \cup {LogDone}
  /\ exited \in {"none", "ok", "failed"}
  /\ task \in {"connecting", "pumping", "waiting", "stopping", "settled", "unreachable", "cancelled"}
  /\ link \in {"none", "open", "lost", "closed"} /\ sent \subseteq Line /\ results \subseteq {"metric", "final"}

OutputInit ==
  /\ process = "running" /\ printed = [s \in Streams |-> 0] /\ kinds = <<>>
  /\ read = [s \in Streams |-> 0] /\ pump = [s \in Streams |-> "reading"]
  /\ merged = <<>> /\ queue = <<>> /\ exited = "none"
  /\ task = "connecting" /\ link = "none" /\ sent = {} /\ results = {}

-----------------------------------------------------------------------------
(* The final line is the last the trainer writes, if it writes one. *)
WritesLine(s) ==
  /\ process = "running" /\ printed[s] < MaxPrinted[s]
  /\ printed' = [printed EXCEPT ![s] = @ + 1]
  /\ IF s = "stdout"
       THEN /\ "final" \notin ToSet(kinds)
            /\ \E kind \in Kinds : kinds' = Append(kinds, kind)
       ELSE UNCHANGED kinds
  /\ UNCHANGED <<process, threadVars, taskVars>>

(* It exits, or is killed by the memory guard or by a stop. *)
Exit ==
  /\ process = "running" /\ process' \in {"ok", "failed"}
  /\ UNCHANGED <<printed, kinds, threadVars, taskVars>>

Pump(s) ==
  /\ pump[s] = "reading" /\ read[s] < printed[s]
  /\ read' = [read EXCEPT ![s] = @ + 1]
  /\ merged' = Append(merged, <<s, read[s] + 1>>)
  /\ UNCHANGED <<trainerVars, pump, queue, exited, taskVars>>

PumpEnds(s) ==
  /\ pump[s] = "reading" /\ read[s] = printed[s] /\ process # "running"
  /\ pump' = [pump EXCEPT ![s] = "ended"]
  /\ merged' = Append(merged, StreamDone)
  /\ UNCHANGED <<trainerVars, read, queue, exited, taskVars>>

MarkLost(queued) == queued                                               \* mutant
MarkDone(queued) == Append(queued, StreamDone)

(* A pump that fails leaves its mark too. *)
PumpBreaks(s) ==
  /\ pump[s] = "reading"
  /\ pump' = [pump EXCEPT ![s] = "broken"]
  /\ merged' = MarkDone(merged)
  /\ UNCHANGED <<trainerVars, read, queue, exited, taskVars>>

(* The merge ends with the last mark: every pump has ended, and nothing    *)
(* stands behind it.                                                       *)
AllDone == "reading" \notin {pump[s] : s \in Streams} /\ Tail(merged) = <<>>

TailLogs ==
  /\ merged # <<>> /\ LogDone \notin ToSet(queue)
  /\ merged' = Tail(merged)
  /\ queue' = IF Head(merged) # StreamDone THEN Append(queue, Head(merged))
              ELSE IF AllDone THEN Append(queue, LogDone) ELSE queue
  /\ UNCHANGED <<trainerVars, read, pump, exited, taskVars>>

(* A wait that fails answers 1. *)
WaitForExit ==
  /\ exited = "none"
  /\ \/ process # "running" /\ exited' = process
     \/ exited' = "failed"
  /\ UNCHANGED <<trainerVars, read, pump, merged, queue, taskVars>>

-----------------------------------------------------------------------------
(* The stream is opened once, after the launch. *)
OpenStream ==
  /\ task = "connecting"
  /\ \/ task' = "pumping" /\ link' = "open"
     \/ task' = "unreachable" /\ UNCHANGED link
  /\ UNCHANGED <<trainerVars, threadVars, sent, results>>

ConnectionIsLost ==
  /\ link = "open" /\ link' = "lost"
  /\ UNCHANGED <<trainerVars, threadVars, task, sent, results>>

Closes == link' = IF link = "open" THEN "closed" ELSE link

(* A line is sent, if there is a connection left, and parsed in any case. *)
Parsed(line) ==
  IF line[1] = "stdout" /\ kinds[line[2]] # "plain"
    THEN results \cup {kinds[line[2]]} ELSE results

ForwardLine ==
  /\ task = "pumping" /\ queue # <<>> /\ queue' = Tail(queue)
  /\ IF Head(queue) = LogDone
       THEN task' = "waiting" /\ Closes /\ UNCHANGED <<sent, results>>
       ELSE /\ sent' = IF link = "open" THEN sent \cup {Head(queue)} ELSE sent
            /\ results' = Parsed(Head(queue))
            /\ UNCHANGED <<task, link>>
  /\ UNCHANGED <<trainerVars, read, pump, merged, exited>>

Settle ==
  /\ task = "waiting" /\ exited # "none"
  /\ task' = "settled"
  /\ UNCHANGED <<trainerVars, threadVars, link, sent, results>>

(* The lease is lost: the trainer is asked to stop, once. *)
Cancelled ==
  /\ task \in {"connecting", "pumping", "waiting"} /\ task' = "stopping" /\ Closes
  /\ UNCHANGED <<trainerVars, threadVars, sent, results>>

StopContainer ==
  /\ task = "stopping" /\ task' = "cancelled"
  /\ IF process = "running" THEN process' \in {"running", "failed"} ELSE UNCHANGED process
  /\ UNCHANGED <<printed, kinds, threadVars, link, sent, results>>

(* The summary's figures: the final line, the last metric, or none. *)
Summary ==
  IF "final" \in results THEN "final" ELSE IF "metric" \in results THEN "metric" ELSE "none"

OutputNext ==
  \/ Exit \/ TailLogs \/ WaitForExit \/ OpenStream \/ ConnectionIsLost
  \/ ForwardLine \/ Settle \/ Cancelled \/ StopContainer
  \/ \E s \in Streams : WritesLine(s) \/ Pump(s) \/ PumpEnds(s) \/ PumpBreaks(s)

-----------------------------------------------------------------------------
(* What a settled execution reports has the final figures if they were    *)
(* printed and stdout was read to its end, and every line of a pump that   *)
(* read to the end was forwarded, unless the stream was lost.              *)
SettledTellsAll ==
  task = "settled" =>
    /\ pump["stdout"] = "ended" /\ "final" \in ToSet(kinds) => Summary = "final"
    /\ \A s \in Streams : pump[s] = "ended" /\ link = "closed" => {s} \X (1 .. printed[s]) \subseteq sent

(* Once the trainer has exited its execution ends, even if the stream or a *)
(* thread that reads its output broke, and what it reports is complete.    *)
ExecutionSettles ==
  /\ process # "running" ~> task \in {"settled", "unreachable", "cancelled"}
  /\ []SettledTellsAll
=============================================================================
