------------------------------- MODULE Agent --------------------------------
(***************************************************************************)
(* One peer's agent, the trainers it starts and its link to the            *)
(* orchestrator.                                                           *)
(*                                                                         *)
(* The agent's lease loop is one coroutine: it awaits one request at a     *)
(* time and remembers the lease it executes in a local variable.  The      *)
(* trainer runs beside it: a task of the same event loop launches the      *)
(* container in a thread, streams its output and waits for its exit code.  *)
(* A request can be lost, its answer can be lost, and a request the agent  *)
(* has given up on can still reach the orchestrator later.  The            *)
(* orchestrator's side is this node's column of the lease table of         *)
(* Leases, seen from outside: a lease is offered, granted, settled by its  *)
(* agent, or ended by somebody else.                                       *)
(***************************************************************************)
EXTENDS Integers

CONSTANTS
  MaxLease,       \* bound: leases offered to the node, in the order 1 .. MaxLease
  MaxRestarts,    \* bound: times the agent process dies or is stopped
  Faults,         \* which of PossibleFaults the environment may produce
  NoLease, NoRequest

PossibleFaults == {"network",  \* a request or its answer is lost or late
                   "error",    \* the orchestrator or a proxy answers 401 or 5xx
                   "launch",   \* Docker cannot start the trainer, or says so
                   "stream",   \* the log stream cannot be opened
                   "wait",     \* Docker cannot be asked for the exit code
                   "stop"}     \* Docker cannot stop a trainer

Leases == 1 .. MaxLease
Request == [kind : {"claim", "renew", "complete", "fail"}, lease : Leases \cup {NoLease}]

ASSUME AgentAssumption ==
  /\ MaxLease \in Nat /\ MaxRestarts \in Nat
  /\ Faults \subseteq PossibleFaults
  /\ NoLease \notin Leases /\ NoRequest \notin Request

VARIABLES
  serverState,    \* leases.state of this node's leases
  executing,      \* the lease loop's executing_lease
  awaiting,       \* the request the lease loop awaits
  answer,         \* its answer, once the orchestrator has given one
  late,           \* requests the agent gave up on that are still under way
  task,           \* lease -> how far run_lease_execution has got
  draining,       \* _draining: leases whose cancelled task has not ended
  trainer,        \* lease -> what its container is really doing
  restarts

serverVars == <<serverState, late>>
loopVars   == <<executing, awaiting, answer>>
taskVars   == <<task, draining, trainer>>
vars == <<serverVars, loopVars, taskVars, restarts>>

Underway == {"launching", "connecting", "streaming"}
Cancelled == {"unwinding", "stopping"}
TypeOK ==
  /\ serverState \in [Leases -> {"ABSENT", "PENDING", "ACTIVE", "COMPLETED", "FAILED", "ENDED"}]
  /\ executing \in Leases \cup {NoLease}
  /\ awaiting \in Request \cup {NoRequest}
  /\ answer \in {"none", "done", "empty", "refused", "error"}
  /\ late \subseteq Request
  /\ task \in [Leases -> Underway \cup Cancelled \cup {"none", "exited", "crashed", "blind", "gone"}]
  /\ draining \subseteq Leases
  /\ trainer \in [Leases -> {"none", "starting", "running", "succeeded", "failed", "stopped"}]
  /\ restarts \in 0 .. MaxRestarts

Init ==
  /\ serverState = [l \in Leases |-> "ABSENT"]
  /\ executing = NoLease /\ awaiting = NoRequest /\ answer = "none"
  /\ late = {}
  /\ task = [l \in Leases |-> "none"]
  /\ draining = {}
  /\ trainer = [l \in Leases |-> "none"]
  /\ restarts = 0

-----------------------------------------------------------------------------
(* The orchestrator. *)

(* A new offer: the node holds no other live lease. *)
Offer(l) ==
  /\ serverState[l] = "ABSENT"
  /\ \A m \in Leases : /\ m < l => serverState[m] # "ABSENT"
                       /\ serverState[m] \notin {"PENDING", "ACTIVE"}
  /\ serverState' = [serverState EXCEPT ![l] = "PENDING"]
  /\ UNCHANGED <<late, loopVars, taskVars, restarts>>

(* The sweep, the detector, a sibling's failure or a cancellation. *)
EndLease(l) ==
  /\ serverState[l] \in {"PENDING", "ACTIVE"}
  /\ serverState' = [serverState EXCEPT ![l] = "ENDED"]
  /\ UNCHANGED <<late, loopVars, taskVars, restarts>>

Settled == [complete |-> "COMPLETED", fail |-> "FAILED", renew |-> "ACTIVE"]

(* What the orchestrator makes of a request, and how it answers.  A claim  *)
(* is granted the offered lease; the other calls need an ACTIVE lease.     *)
Handle(req, reply, granted) ==
  IF req.kind = "claim"
  THEN \/ /\ granted \in Leases /\ serverState[granted] = "PENDING"
          /\ reply = "done"
          /\ serverState' = [serverState EXCEPT ![granted] = "ACTIVE"]
       \/ /\ \A l \in Leases : serverState[l] # "PENDING"
          /\ reply = "empty" /\ granted = req.lease
          /\ UNCHANGED serverState
  ELSE /\ granted = req.lease
       /\ IF serverState[req.lease] = "ACTIVE"
          THEN /\ reply = "done"
               /\ serverState' = [serverState EXCEPT ![req.lease] = Settled[req.kind]]
          ELSE /\ reply = "refused"
               /\ UNCHANGED serverState

AnswerRequest ==
  /\ awaiting # NoRequest /\ answer = "none"
  /\ \E reply \in {"done", "empty", "refused"}, granted \in Leases \cup {NoLease} :
       /\ Handle(awaiting, reply, granted)
       /\ answer' = reply
       /\ awaiting' = [awaiting EXCEPT !.lease = granted]
  /\ UNCHANGED <<late, executing, taskVars, restarts>>

(* An answer that says nothing about the lease: an expired token, a        *)
(* deadlock victim's 500, a gateway error.                                 *)
ErrorAnswer ==
  /\ "error" \in Faults
  /\ awaiting # NoRequest /\ answer = "none"
  /\ answer' = "error"
  /\ UNCHANGED <<serverVars, executing, awaiting, taskVars, restarts>>

HandleLate ==
  /\ \E req \in late :
       /\ \E reply \in {"done", "empty", "refused"}, granted \in Leases \cup {NoLease} :
            Handle(req, reply, granted)
       /\ late' = late \ {req}
  /\ UNCHANGED <<loopVars, taskVars, restarts>>

-----------------------------------------------------------------------------
(* The lease loop: _service_lease, one request per cycle. *)
Send(kind, l) ==
  /\ awaiting' = [kind |-> kind, lease |-> l]
  /\ answer' = "none"

ClaimWhenever == executing = NoLease                          \* mutant
MayClaim == executing = NoLease /\ draining = {}

ClaimLease ==
  /\ awaiting = NoRequest
  /\ MayClaim
  /\ Send("claim", NoLease)
  /\ UNCHANGED <<serverVars, executing, taskVars, restarts>>

(* Granted: the trainer is launched in the background. *)
LaunchGranted ==
  /\ awaiting # NoRequest /\ awaiting.kind = "claim" /\ answer = "done"
  /\ executing' = awaiting.lease
  /\ task' = [task EXCEPT ![awaiting.lease] = "launching"]
  /\ trainer' = [trainer EXCEPT ![awaiting.lease] = "starting"]
  /\ awaiting' = NoRequest /\ answer' = "none"
  /\ UNCHANGED <<serverVars, draining, restarts>>

(* Granted, but there is no Docker or no job spec: reported at once. *)
RefuseGranted ==
  /\ "launch" \in Faults
  /\ awaiting # NoRequest /\ awaiting.kind = "claim" /\ answer = "done"
  /\ Send("fail", awaiting.lease)
  /\ UNCHANGED <<serverVars, executing, taskVars, restarts>>

TaskDone(l) == task[l] \in {"exited", "crashed", "blind"}

(* While the trainer runs the loop only renews, by timer and once when the *)
(* trainer has started.                                                    *)
RenewLease ==
  /\ awaiting = NoRequest
  /\ executing # NoLease /\ ~ TaskDone(executing)
  /\ Send("renew", executing)
  /\ UNCHANGED <<serverVars, executing, taskVars, restarts>>

OutcomeIfReturned(l) == IF task[l] = "exited" THEN "complete" ELSE "fail" \* mutant
Outcome(l) == IF task[l] = "exited" /\ trainer[l] = "succeeded" THEN "complete" ELSE "fail"

ReportResult ==
  /\ awaiting = NoRequest
  /\ executing # NoLease /\ TaskDone(executing)
  /\ Send(Outcome(executing), executing)
  /\ UNCHANGED <<serverVars, executing, taskVars, restarts>>

(* A renewal answered with anything but success means the lease is lost:   *)
(* the task is cancelled and drains in the background, unless it has just  *)
(* ended by itself.                                                        *)
Abandon(l) ==
  /\ executing' = NoLease
  /\ IF TaskDone(l)
     THEN UNCHANGED taskVars
     ELSE /\ task' = [task EXCEPT ![l] = IF @ = "launching" THEN "unwinding" ELSE "stopping"]
          /\ draining' = draining \cup {l}
          /\ UNCHANGED trainer

MustAbandonUnlessRenewed(reply) == awaiting.kind = "renew" /\ reply # "done" \* mutant
MustAbandon(reply) == awaiting.kind = "renew" /\ reply \in {"refused", "error"}

(* A report is sent once, whatever comes of it; "none" is a network error. *)
AfterRequest(reply) ==
  CASE awaiting.kind \in {"complete", "fail"} -> executing' = NoLease /\ UNCHANGED taskVars
    [] MustAbandon(reply) -> Abandon(executing)
    [] OTHER -> UNCHANGED <<executing, taskVars>>

RequestAnswered ==
  /\ awaiting # NoRequest /\ answer # "none"
  /\ awaiting.kind = "claim" => answer # "done"
  /\ AfterRequest(answer)
  /\ awaiting' = NoRequest /\ answer' = "none"
  /\ UNCHANGED <<serverVars, restarts>>

(* The request, or only its answer, is lost, or it is still under way.     *)
RequestFails ==
  /\ "network" \in Faults
  /\ awaiting # NoRequest
  /\ AfterRequest("none")
  /\ late' \in IF answer = "none" THEN {late, late \cup {awaiting}} ELSE {late}
  /\ awaiting' = NoRequest /\ answer' = "none"
  /\ UNCHANGED <<serverState, restarts>>

-----------------------------------------------------------------------------
(* run_lease_execution and the container it starts. *)
TrainerLaunched(l) ==
  /\ task[l] = "launching"
  /\ task' = [task EXCEPT ![l] = "connecting"]
  /\ trainer' = [trainer EXCEPT ![l] = "running"]
  /\ UNCHANGED <<serverVars, loopVars, draining, restarts>>

LaunchFails(l) ==
  /\ "launch" \in Faults
  /\ task[l] = "launching"
  /\ task' = [task EXCEPT ![l] = "crashed"]
  /\ trainer' = [trainer EXCEPT ![l] = "none"]
  /\ UNCHANGED <<serverVars, loopVars, draining, restarts>>

(* Docker starts it and its answer is lost: the task takes that for a      *)
(* failure and knows of no container.                                      *)
LaunchUnanswered(l) ==
  /\ "launch" \in Faults
  /\ task[l] = "launching"
  /\ task' = [task EXCEPT ![l] = "blind"]
  /\ trainer' = [trainer EXCEPT ![l] = "running"]
  /\ UNCHANGED <<serverVars, loopVars, draining, restarts>>

(* The launch runs in a thread, which no cancellation reaches. *)
LaunchOutlivesTask(l) ==
  /\ trainer[l] = "starting" /\ task[l] # "launching"
  /\ trainer' = [trainer EXCEPT ![l] = "running"]
  /\ UNCHANGED <<serverVars, loopVars, task, draining, restarts>>

StreamOpens(l) ==
  /\ task[l] = "connecting"
  /\ task' = [task EXCEPT ![l] = "streaming"]
  /\ UNCHANGED <<serverVars, loopVars, draining, trainer, restarts>>

(* Any exception but a cancellation leaves the container alone: the task   *)
(* ends without having seen how, or whether, its trainer ended.            *)
StreamFails(l) ==
  /\ "stream" \in Faults
  /\ task[l] = "connecting"
  /\ task' = [task EXCEPT ![l] = "blind"]
  /\ UNCHANGED <<serverVars, loopVars, draining, trainer, restarts>>

(* A wait that raises stands for exit code 1, and the output may have      *)
(* broken off as well: the task ends as if its trainer had failed.         *)
WaitFails(l) ==
  /\ "wait" \in Faults
  /\ task[l] = "streaming"
  /\ task' = [task EXCEPT ![l] = "blind"]
  /\ UNCHANGED <<serverVars, loopVars, draining, trainer, restarts>>

TrainerExits(l) ==
  /\ trainer[l] = "running"
  /\ \E how \in {"succeeded", "failed"} : trainer' = [trainer EXCEPT ![l] = how]
  /\ UNCHANGED <<serverVars, loopVars, task, draining, restarts>>

ReturnsAtLogEnd(l) == trainer[l] \in {"running", "succeeded", "failed"} \* mutant
HasExited(l) == trainer[l] \in {"succeeded", "failed"}

ExecutionReturns(l) ==
  /\ task[l] = "streaming" /\ HasExited(l)
  /\ task' = [task EXCEPT ![l] = "exited"]
  /\ UNCHANGED <<serverVars, loopVars, draining, trainer, restarts>>

(* The end of a cancelled task: the container is stopped if the task knows *)
(* it, and stopping it is best effort.                                     *)
StopsTrainer(l, after) ==
  IF trainer[l] = "running" /\ task[l] = "stopping"
  THEN after = "stopped" \/ ("stop" \in Faults /\ after = "running")
  ELSE after = trainer[l]

StillDraining(l) == draining                                  \* mutant
Discard(l) == draining \ {l}

CancelledTaskEnds(l) ==
  /\ task[l] \in Cancelled
  /\ \E after \in {"none", "starting", "running", "succeeded", "failed", "stopped"} :
       /\ StopsTrainer(l, after)
       /\ trainer' = [trainer EXCEPT ![l] = after]
  /\ task' = [task EXCEPT ![l] = "gone"]
  /\ draining' = Discard(l)
  /\ UNCHANGED <<serverVars, loopVars, restarts>>

-----------------------------------------------------------------------------
(* The process ends: killed, with every container left as it is, or        *)
(* stopped (Ctrl+C, a self-update), with its tasks cancelled.  It starts   *)
(* again knowing its identity and nothing of its leases.                   *)
Restart(stops) ==
  /\ restarts < MaxRestarts
  /\ restarts' = restarts + 1
  /\ executing' = NoLease /\ draining' = {}
  /\ awaiting' = NoRequest /\ answer' = "none"
  /\ late' \in IF awaiting = NoRequest \/ answer # "none" THEN {late} ELSE {late, late \cup {awaiting}}
  /\ task' = [l \in Leases |-> IF task[l] \in {"none", "blind"} THEN task[l] ELSE "gone"]
  /\ trainer' = [l \in Leases |->
       IF stops /\ trainer[l] = "running" /\ task[l] \in {"connecting", "streaming", "stopping"}
       THEN "stopped" ELSE trainer[l]]
  /\ UNCHANGED serverState

Next ==
  \/ \E l \in Leases : Offer(l) \/ EndLease(l)
  \/ AnswerRequest \/ ErrorAnswer \/ HandleLate
  \/ ClaimLease \/ LaunchGranted \/ RefuseGranted
  \/ RenewLease \/ ReportResult \/ RequestAnswered \/ RequestFails
  \/ \E l \in Leases : \/ TrainerLaunched(l) \/ LaunchFails(l) \/ LaunchUnanswered(l)
                       \/ LaunchOutlivesTask(l)
                       \/ StreamOpens(l) \/ StreamFails(l) \/ WaitFails(l)
                       \/ TrainerExits(l) \/ ExecutionReturns(l) \/ CancelledTaskEnds(l)
  \/ \E stops \in BOOLEAN : Restart(stops)

Spec == Init /\ [][Next]_vars

-----------------------------------------------------------------------------
(* A lease is recorded COMPLETED only if its trainer really exited with 0, *)
(* although reports arrive late, after the agent gave up on them, and from *)
(* a process that has since restarted (main.py, "Never pretends success"). *)
HonestCompletion ==
  \A l \in Leases : serverState[l] = "COMPLETED" => trainer[l] = "succeeded"

(* The agent runs one execution at a time: every live task is the one of   *)
(* the lease it executes or the one it is draining, never both.            *)
OneExecution ==
  /\ \A l \in Leases : task[l] \in Underway => executing = l
  /\ \A l \in Leases : task[l] \in Cancelled => draining = {l} /\ executing = NoLease

(* A lease the agent has reported on has no trainer any more, so that its  *)
(* node is really free when it gets the next job, through restarts and     *)
(* reports that arrive late.  Reported FAILED and left running is only a   *)
(* trainer whose task went blind: Docker's answer to the launch was lost,  *)
(* the log stream could not be opened, or the wait for its exit raised.    *)
SettledIsOver ==
  \A l \in Leases :
    /\ serverState[l] = "COMPLETED" => trainer[l] \notin {"starting", "running"}
    /\ serverState[l] = "FAILED" => \/ trainer[l] \notin {"starting", "running"}
                                    \/ task[l] = "blind"

(* An execution is cancelled only when its lease is really lost ("409 =    *)
(* fenced/expired: we lost this lease"), however its link behaves, unless  *)
(* an error that says nothing of the lease (401, 5xx) is taken for that.   *)
AbandonsOnlyLost ==
  [][\A l \in Leases : task[l] \in Underway /\ task'[l] \in Cancelled =>
                       serverState[l] # "ACTIVE" \/ answer = "error"]_vars

(* No two trainers run on the node ("Taking new work now would start a     *)
(* second trainer on a GPU the first still holds").                        *)
OneTrainer ==
  \A l, m \in Leases : trainer[l] = "running" /\ trainer[m] = "running" => l = m

-----------------------------------------------------------------------------
(* The inductive invariant behind these, in parts. *)
Pending == late \cup ({awaiting} \ {NoRequest})

(* What the lease loop awaits fits what it is doing. *)
LoopConsistent ==
  /\ executing # NoLease =>
       draining = {} /\ task[executing] \in Underway \cup {"exited", "crashed", "blind"}
  /\ \A l \in draining : task[l] \in Cancelled
  /\ awaiting # NoRequest =>
       /\ awaiting.kind = "claim" => executing = NoLease /\ draining = {}
       /\ awaiting.kind = "renew" => executing = awaiting.lease /\ executing # NoLease
       /\ awaiting.kind \in {"complete", "fail"} =>
            /\ executing \in {NoLease, awaiting.lease} /\ awaiting.lease # NoLease
            /\ task[awaiting.lease] \notin Underway \cup Cancelled
  /\ \A req \in late : req.kind # "claim" => req.lease # NoLease

(* Nothing has been started for a lease the orchestrator has not granted,  *)
(* nor for one whose grant the agent has yet to read.                      *)
UngrantedIsIdle ==
  /\ \A l \in Leases : serverState[l] \in {"ABSENT", "PENDING"} =>
                        task[l] = "none" /\ trainer[l] = "none"
  /\ awaiting # NoRequest /\ awaiting.kind = "claim" /\ answer = "done" =>
       /\ awaiting.lease \in Leases /\ trainer[awaiting.lease] = "none"
       /\ serverState[awaiting.lease] \notin {"ABSENT", "PENDING"}

LaunchingIsStarting == \A l \in Leases : task[l] = "launching" => trainer[l] = "starting"

ReportsAreTrue ==
  \A req \in Pending : req.kind = "complete" => trainer[req.lease] = "succeeded"

IInv ==
  /\ TypeOK /\ OneExecution /\ HonestCompletion
  /\ LoopConsistent /\ UngrantedIsIdle /\ LaunchingIsStarting /\ ReportsAreTrue

(* A report finds its trainer gone, unless nobody watched it. *)
ReportsAreLast ==
  /\ \A l \in Leases : /\ task[l] = "exited" => trainer[l] \notin {"starting", "running"}
                       /\ task[l] = "crashed" => trainer[l] = "none"
  /\ \A req \in Pending : req.kind \in {"complete", "fail"} =>
       /\ trainer[req.lease] \notin {"starting", "running"} \/ task[req.lease] = "blind"
       /\ serverState[req.lease] \notin {"ABSENT", "PENDING"}
  /\ awaiting # NoRequest /\ awaiting.kind = "claim" /\ answer = "done" =>
       /\ serverState[awaiting.lease] \notin {"COMPLETED", "FAILED"}
       /\ \A req \in late : req.kind \in {"complete", "fail"} => req.lease # awaiting.lease

(* A refused renewal is of a lease that is over. *)
RefusedIsLost ==
  awaiting # NoRequest /\ awaiting.kind = "renew" /\ answer = "refused" =>
    serverState[awaiting.lease] \notin {"ABSENT", "PENDING", "ACTIVE"}

-----------------------------------------------------------------------------
(* The event loop runs every coroutine that can go on; Docker's calls and  *)
(* the stream's handshake return.                                          *)
AgentRuns ==
  /\ WF_vars(ClaimLease) /\ WF_vars(LaunchGranted \/ RefuseGranted)
  /\ WF_vars(RenewLease) /\ WF_vars(ReportResult)
  /\ WF_vars(RequestAnswered \/ RequestFails)
  /\ \A l \in Leases : /\ WF_vars(TrainerLaunched(l) \/ LaunchFails(l) \/ LaunchUnanswered(l))
                       /\ WF_vars(StreamOpens(l) \/ StreamFails(l))
                       /\ WF_vars(ExecutionReturns(l))
                       /\ WF_vars(CancelledTaskEnds(l))

(* A request that is repeated for ever is answered at last, and the answer *)
(* gets through.                                                           *)
LinkRecovers == SF_vars(AnswerRequest) /\ SF_vars(RequestAnswered)

FairSpec == Spec /\ AgentRuns /\ LinkRecovers

(* An offer is taken up (or withdrawn): an agent that still executes a     *)
(* lost lease finds out, stops its trainer and polls again, whether or not *)
(* any trainer ever exits by itself.                                       *)
OffersAreTakenUp ==
  \A l \in Leases : (serverState[l] = "PENDING") ~> (serverState[l] # "PENDING")
=============================================================================
