---------------------------- MODULE AgentProofs -----------------------------
(***************************************************************************)
(* What holds of an agent for any number of leases and restarts and under  *)
(* every fault.  IInv is inductive as it stands, and RefusedIsLost and     *)
(* ReportsAreLast are inductive relative to it.                            *)
(***************************************************************************)
EXTENDS Agent, TLAPS

(* A fresh agent has nothing under way. *)
LEMMA InitIInv == Init => IInv
  BY AgentAssumption DEF IInv, Init, TypeOK, OneExecution, HonestCompletion,
         LoopConsistent, UngrantedIsIdle, LaunchingIsStarting, ReportsAreTrue, Pending,
         Underway, Cancelled

(* Every step of the agent, the link or the orchestrator keeps IInv. *)
LEMMA NextIInv ==
  ASSUME IInv, [Next]_vars
  PROVE  IInv'
<1> USE AgentAssumption
<1>1. ASSUME NEW l \in Leases, Offer(l) PROVE IInv'
  <2>1. TypeOK'
    BY <1>1 DEF IInv, TypeOK, loopVars, taskVars, Offer
  <2>2. HonestCompletion'
    BY <1>1 DEF IInv, HonestCompletion, taskVars, Offer
  <2>3. UngrantedIsIdle'
    BY <1>1 DEF IInv, UngrantedIsIdle, loopVars, taskVars, Offer
  <2>4. OneExecution' /\ LoopConsistent' /\ LaunchingIsStarting' /\ ReportsAreTrue'
    BY <1>1 DEF IInv, OneExecution, LoopConsistent, LaunchingIsStarting, ReportsAreTrue,
           Pending, loopVars, taskVars, Offer
  <2> QED BY <2>1, <2>2, <2>3, <2>4 DEF IInv
<1>2. ASSUME NEW l \in Leases, EndLease(l) PROVE IInv'
  <2>1. TypeOK'
    BY <1>2 DEF IInv, TypeOK, loopVars, taskVars, EndLease
  <2>2. HonestCompletion'
    BY <1>2 DEF IInv, HonestCompletion, taskVars, EndLease
  <2>3. UngrantedIsIdle'
    BY <1>2 DEF IInv, UngrantedIsIdle, loopVars, taskVars, EndLease
  <2>4. OneExecution' /\ LoopConsistent' /\ LaunchingIsStarting' /\ ReportsAreTrue'
    BY <1>2 DEF IInv, OneExecution, LoopConsistent, LaunchingIsStarting, ReportsAreTrue,
           Pending, loopVars, taskVars, EndLease
  <2> QED BY <2>1, <2>2, <2>3, <2>4 DEF IInv
<1>3. CASE AnswerRequest
  <2>1. TypeOK'
    BY <1>3 DEF IInv, TypeOK, Request, taskVars, AnswerRequest, Handle, Settled
  <2>2. HonestCompletion'
    BY <1>3 DEF IInv, TypeOK, HonestCompletion, ReportsAreTrue, Pending, Request,
           taskVars, AnswerRequest, Handle, Settled
  <2>3. LoopConsistent'
    BY <1>3 DEF IInv, LoopConsistent, taskVars, AnswerRequest, Handle
  <2>4. UngrantedIsIdle'
    BY <1>3 DEF IInv, TypeOK, UngrantedIsIdle, Request, taskVars, AnswerRequest, Handle,
           Settled
  <2>5. ReportsAreTrue'
    BY <1>3 DEF IInv, TypeOK, ReportsAreTrue, Pending, Request, taskVars, AnswerRequest,
           Handle
  <2>6. OneExecution' /\ LaunchingIsStarting'
    BY <1>3 DEF IInv, OneExecution, LaunchingIsStarting, taskVars, AnswerRequest
  <2> QED BY <2>1, <2>2, <2>3, <2>4, <2>5, <2>6 DEF IInv
<1>4. CASE ErrorAnswer
  <2>1. TypeOK'
    BY <1>4 DEF IInv, TypeOK, serverVars, taskVars, ErrorAnswer
  <2>2. UngrantedIsIdle'
    BY <1>4 DEF IInv, UngrantedIsIdle, serverVars, taskVars, ErrorAnswer
  <2>3. OneExecution' /\ HonestCompletion' /\ LoopConsistent' /\ LaunchingIsStarting' /\
           ReportsAreTrue'
    BY <1>4 DEF IInv, OneExecution, HonestCompletion, LoopConsistent,
           LaunchingIsStarting, ReportsAreTrue, Pending, serverVars, taskVars,
           ErrorAnswer
  <2> QED BY <2>1, <2>2, <2>3 DEF IInv
<1>5. CASE HandleLate
  <2>1. TypeOK'
    BY <1>5 DEF IInv, TypeOK, Request, loopVars, taskVars, HandleLate, Handle, Settled
  <2>2. HonestCompletion'
    BY <1>5 DEF IInv, TypeOK, HonestCompletion, ReportsAreTrue, Pending, Request,
           taskVars, HandleLate, Handle, Settled
  <2>3. LoopConsistent'
    BY <1>5 DEF IInv, LoopConsistent, loopVars, taskVars, HandleLate
  <2>4. UngrantedIsIdle'
    BY <1>5 DEF IInv, TypeOK, UngrantedIsIdle, Request, loopVars, taskVars, HandleLate,
           Handle, Settled
  <2>5. ReportsAreTrue'
    BY <1>5 DEF IInv, ReportsAreTrue, Pending, loopVars, taskVars, HandleLate
  <2>6. OneExecution' /\ LaunchingIsStarting'
    BY <1>5 DEF IInv, OneExecution, LaunchingIsStarting, loopVars, taskVars, HandleLate
  <2> QED BY <2>1, <2>2, <2>3, <2>4, <2>5, <2>6 DEF IInv
<1>6. CASE ClaimLease
  <2>1. TypeOK'
    BY <1>6 DEF IInv, TypeOK, Request, serverVars, taskVars, ClaimLease, Send
  <2>2. LoopConsistent'
    BY <1>6 DEF IInv, LoopConsistent, serverVars, taskVars, ClaimLease, Send, MayClaim
  <2>3. UngrantedIsIdle'
    BY <1>6 DEF IInv, UngrantedIsIdle, serverVars, taskVars, ClaimLease, Send
  <2>4. ReportsAreTrue'
    BY <1>6 DEF IInv, ReportsAreTrue, Pending, serverVars, taskVars, ClaimLease, Send
  <2>5. OneExecution' /\ HonestCompletion' /\ LaunchingIsStarting'
    BY <1>6 DEF IInv, OneExecution, HonestCompletion, LaunchingIsStarting, serverVars,
           taskVars, ClaimLease
  <2> QED BY <2>1, <2>2, <2>3, <2>4, <2>5 DEF IInv
<1>7. CASE LaunchGranted
  <2>1. TypeOK'
    BY <1>7 DEF IInv, TypeOK, Request, Underway, serverVars, LaunchGranted
  <2>2. OneExecution'
    BY <1>7 DEF IInv, OneExecution, LoopConsistent, Cancelled, LaunchGranted
  <2>3. HonestCompletion'
    BY <1>7 DEF IInv, HonestCompletion, UngrantedIsIdle, serverVars, LaunchGranted
  <2>4. LoopConsistent'
    BY <1>7 DEF IInv, TypeOK, LoopConsistent, Request, Underway, serverVars, LaunchGranted
  <2>5. UngrantedIsIdle'
    BY <1>7 DEF IInv, UngrantedIsIdle, serverVars, LaunchGranted
  <2>6. LaunchingIsStarting'
    BY <1>7 DEF IInv, TypeOK, LaunchingIsStarting, LaunchGranted
  <2>7. ReportsAreTrue'
    BY <1>7 DEF IInv, UngrantedIsIdle, ReportsAreTrue, Pending, serverVars, LaunchGranted
  <2> QED BY <2>1, <2>2, <2>3, <2>4, <2>5, <2>6, <2>7 DEF IInv
<1>8. CASE RefuseGranted
  <2>1. TypeOK'
    BY <1>8 DEF IInv, TypeOK, Request, serverVars, taskVars, RefuseGranted, Send
  <2>2. LoopConsistent'
    BY <1>8 DEF IInv, OneExecution, LoopConsistent, UngrantedIsIdle, serverVars,
           taskVars, RefuseGranted, Send
  <2>3. UngrantedIsIdle'
    BY <1>8 DEF IInv, UngrantedIsIdle, serverVars, taskVars, RefuseGranted, Send
  <2>4. ReportsAreTrue'
    BY <1>8 DEF IInv, ReportsAreTrue, Pending, serverVars, taskVars, RefuseGranted, Send
  <2>5. OneExecution' /\ HonestCompletion' /\ LaunchingIsStarting'
    BY <1>8 DEF IInv, OneExecution, HonestCompletion, LaunchingIsStarting, serverVars,
           taskVars, RefuseGranted
  <2> QED BY <2>1, <2>2, <2>3, <2>4, <2>5 DEF IInv
<1>9. CASE RenewLease
  <2>1. TypeOK'
    BY <1>9 DEF IInv, TypeOK, Request, serverVars, taskVars, RenewLease, Send
  <2>2. LoopConsistent'
    BY <1>9 DEF IInv, LoopConsistent, serverVars, taskVars, RenewLease, Send
  <2>3. UngrantedIsIdle'
    BY <1>9 DEF IInv, UngrantedIsIdle, serverVars, taskVars, RenewLease, Send
  <2>4. ReportsAreTrue'
    BY <1>9 DEF IInv, ReportsAreTrue, Pending, serverVars, taskVars, RenewLease, Send
  <2>5. OneExecution' /\ HonestCompletion' /\ LaunchingIsStarting'
    BY <1>9 DEF IInv, OneExecution, HonestCompletion, LaunchingIsStarting, serverVars,
           taskVars, RenewLease
  <2> QED BY <2>1, <2>2, <2>3, <2>4, <2>5 DEF IInv
<1>10. CASE ReportResult
  <2>1. TypeOK'
    BY <1>10 DEF IInv, TypeOK, Request, serverVars, taskVars, ReportResult, Send, Outcome
  <2>2. LoopConsistent'
    BY <1>10 DEF IInv, LoopConsistent, Underway, Cancelled, serverVars, taskVars,
           ReportResult, Send, TaskDone, Outcome
  <2>3. UngrantedIsIdle'
    BY <1>10 DEF IInv, UngrantedIsIdle, serverVars, taskVars, ReportResult, Send
  <2>4. ReportsAreTrue'
    BY <1>10 DEF IInv, ReportsAreTrue, Pending, serverVars, taskVars, ReportResult,
           Send, Outcome
  <2>5. OneExecution' /\ HonestCompletion' /\ LaunchingIsStarting'
    BY <1>10 DEF IInv, OneExecution, HonestCompletion, LaunchingIsStarting, serverVars,
           taskVars, ReportResult
  <2> QED BY <2>1, <2>2, <2>3, <2>4, <2>5 DEF IInv
<1>11. CASE RequestAnswered
  <2>1. TypeOK'
    BY <1>11 DEF IInv, TypeOK, LoopConsistent, Cancelled, serverVars, taskVars,
           RequestAnswered, AfterRequest, MustAbandon, Abandon
  <2>2. OneExecution'
    BY <1>11 DEF IInv, TypeOK, OneExecution, LoopConsistent, Underway, taskVars,
           RequestAnswered, AfterRequest, MustAbandon, Abandon, TaskDone
  <2>3. LoopConsistent'
    BY <1>11 DEF IInv, TypeOK, LoopConsistent, Cancelled, serverVars, taskVars,
           RequestAnswered, AfterRequest, MustAbandon, Abandon
  <2>4. UngrantedIsIdle'
    BY <1>11 DEF IInv, TypeOK, LoopConsistent, UngrantedIsIdle, Underway, serverVars,
           taskVars, RequestAnswered, AfterRequest, Abandon
  <2>5. LaunchingIsStarting'
    BY <1>11 DEF IInv, TypeOK, LaunchingIsStarting, taskVars, RequestAnswered,
           AfterRequest, Abandon
  <2>6. ReportsAreTrue'
    BY <1>11 DEF IInv, ReportsAreTrue, Pending, serverVars, taskVars, RequestAnswered,
           AfterRequest, Abandon
  <2>7. HonestCompletion'
    BY <1>11 DEF IInv, HonestCompletion, serverVars, taskVars, RequestAnswered,
           AfterRequest, Abandon
  <2> QED BY <2>1, <2>2, <2>3, <2>4, <2>5, <2>6, <2>7 DEF IInv
<1>12. CASE RequestFails
  <2>1. TypeOK'
    BY <1>12 DEF IInv, TypeOK, taskVars, RequestFails, AfterRequest, MustAbandon
  <2>2. OneExecution'
    BY <1>12 DEF IInv, OneExecution, LoopConsistent, taskVars, RequestFails,
           AfterRequest, MustAbandon
  <2>3. LoopConsistent'
    BY <1>12 DEF IInv, TypeOK, LoopConsistent, Request, taskVars, RequestFails,
           AfterRequest, MustAbandon
  <2>4. UngrantedIsIdle'
    BY <1>12 DEF IInv, UngrantedIsIdle, taskVars, RequestFails, AfterRequest, MustAbandon
  <2>5. LaunchingIsStarting'
    BY <1>12 DEF IInv, LaunchingIsStarting, taskVars, RequestFails, AfterRequest,
           MustAbandon
  <2>6. ReportsAreTrue'
    BY <1>12 DEF IInv, ReportsAreTrue, Pending, taskVars, RequestFails, AfterRequest,
           Abandon
  <2>7. HonestCompletion'
    BY <1>12 DEF IInv, HonestCompletion, taskVars, RequestFails, AfterRequest, Abandon
  <2> QED BY <2>1, <2>2, <2>3, <2>4, <2>5, <2>6, <2>7 DEF IInv
<1>13. ASSUME NEW l \in Leases, TrainerLaunched(l) PROVE IInv'
  <2>1. TypeOK'
    BY <1>13 DEF IInv, TypeOK, Underway, serverVars, loopVars, TrainerLaunched
  <2>2. OneExecution'
    BY <1>13 DEF IInv, OneExecution, Underway, Cancelled, loopVars, TrainerLaunched
  <2>3. HonestCompletion'
    BY <1>13 DEF IInv, HonestCompletion, LaunchingIsStarting, serverVars, TrainerLaunched
  <2>4. LoopConsistent'
    BY <1>13 DEF IInv, LoopConsistent, Underway, Cancelled, serverVars, loopVars,
           TrainerLaunched
  <2>5. UngrantedIsIdle'
    BY <1>13 DEF IInv, UngrantedIsIdle, LaunchingIsStarting, serverVars, loopVars,
           TrainerLaunched
  <2>6. LaunchingIsStarting'
    BY <1>13 DEF IInv, TypeOK, LaunchingIsStarting, TrainerLaunched
  <2>7. ReportsAreTrue'
    BY <1>13 DEF IInv, LaunchingIsStarting, ReportsAreTrue, Pending, serverVars,
           loopVars, TrainerLaunched
  <2> QED BY <2>1, <2>2, <2>3, <2>4, <2>5, <2>6, <2>7 DEF IInv
<1>14. ASSUME NEW l \in Leases, LaunchFails(l) PROVE IInv'
  <2>1. TypeOK'
    BY <1>14 DEF IInv, TypeOK, serverVars, loopVars, LaunchFails
  <2>2. OneExecution'
    BY <1>14 DEF IInv, OneExecution, Underway, Cancelled, loopVars, LaunchFails
  <2>3. HonestCompletion'
    BY <1>14 DEF IInv, HonestCompletion, LaunchingIsStarting, serverVars, LaunchFails
  <2>4. LoopConsistent'
    BY <1>14 DEF IInv, LoopConsistent, Underway, Cancelled, serverVars, loopVars,
           LaunchFails
  <2>5. UngrantedIsIdle'
    BY <1>14 DEF IInv, UngrantedIsIdle, serverVars, loopVars, LaunchFails
  <2>6. LaunchingIsStarting'
    BY <1>14 DEF IInv, TypeOK, LaunchingIsStarting, LaunchFails
  <2>7. ReportsAreTrue'
    BY <1>14 DEF IInv, LaunchingIsStarting, ReportsAreTrue, Pending, serverVars,
           loopVars, LaunchFails
  <2> QED BY <2>1, <2>2, <2>3, <2>4, <2>5, <2>6, <2>7 DEF IInv
<1>15. ASSUME NEW l \in Leases, LaunchUnanswered(l) PROVE IInv'
  <2>1. TypeOK'
    BY <1>15 DEF IInv, TypeOK, serverVars, loopVars, LaunchUnanswered
  <2>2. OneExecution'
    BY <1>15 DEF IInv, OneExecution, Underway, Cancelled, loopVars, LaunchUnanswered
  <2>3. HonestCompletion'
    BY <1>15 DEF IInv, HonestCompletion, LaunchingIsStarting, serverVars, LaunchUnanswered
  <2>4. LoopConsistent'
    BY <1>15 DEF IInv, LoopConsistent, Underway, Cancelled, serverVars, loopVars,
           LaunchUnanswered
  <2>5. UngrantedIsIdle'
    BY <1>15 DEF IInv, UngrantedIsIdle, LaunchingIsStarting, serverVars, loopVars, LaunchUnanswered
  <2>6. LaunchingIsStarting'
    BY <1>15 DEF IInv, TypeOK, LaunchingIsStarting, LaunchUnanswered
  <2>7. ReportsAreTrue'
    BY <1>15 DEF IInv, LaunchingIsStarting, ReportsAreTrue, Pending, serverVars,
           loopVars, LaunchUnanswered
  <2> QED BY <2>1, <2>2, <2>3, <2>4, <2>5, <2>6, <2>7 DEF IInv
<1>16. ASSUME NEW l \in Leases, LaunchOutlivesTask(l) PROVE IInv'
  <2>1. TypeOK'
    BY <1>16 DEF IInv, TypeOK, serverVars, loopVars, LaunchOutlivesTask
  <2>2. HonestCompletion'
    BY <1>16 DEF IInv, HonestCompletion, serverVars, LaunchOutlivesTask
  <2>3. UngrantedIsIdle'
    BY <1>16 DEF IInv, UngrantedIsIdle, serverVars, loopVars, LaunchOutlivesTask
  <2>4. LaunchingIsStarting'
    BY <1>16 DEF IInv, LaunchingIsStarting, LaunchOutlivesTask
  <2>5. ReportsAreTrue'
    BY <1>16 DEF IInv, ReportsAreTrue, Pending, serverVars, loopVars, LaunchOutlivesTask
  <2>6. OneExecution' /\ LoopConsistent'
    BY <1>16 DEF IInv, OneExecution, LoopConsistent, serverVars, loopVars,
           LaunchOutlivesTask
  <2> QED BY <2>1, <2>2, <2>3, <2>4, <2>5, <2>6 DEF IInv
<1>17. ASSUME NEW l \in Leases, StreamOpens(l) PROVE IInv'
  <2>1. TypeOK'
    BY <1>17 DEF IInv, TypeOK, Underway, serverVars, loopVars, StreamOpens
  <2>2. OneExecution'
    BY <1>17 DEF IInv, OneExecution, Underway, Cancelled, loopVars, StreamOpens
  <2>3. LoopConsistent'
    BY <1>17 DEF IInv, LoopConsistent, Underway, Cancelled, serverVars, loopVars,
           StreamOpens
  <2>4. UngrantedIsIdle'
    BY <1>17 DEF IInv, UngrantedIsIdle, serverVars, loopVars, StreamOpens
  <2>5. LaunchingIsStarting'
    BY <1>17 DEF IInv, LaunchingIsStarting, StreamOpens
  <2>6. HonestCompletion' /\ ReportsAreTrue'
    BY <1>17 DEF IInv, HonestCompletion, ReportsAreTrue, Pending, serverVars, loopVars,
           StreamOpens
  <2> QED BY <2>1, <2>2, <2>3, <2>4, <2>5, <2>6 DEF IInv
<1>18. ASSUME NEW l \in Leases, StreamFails(l) PROVE IInv'
  <2>1. TypeOK'
    BY <1>18 DEF IInv, TypeOK, serverVars, loopVars, StreamFails
  <2>2. OneExecution'
    BY <1>18 DEF IInv, OneExecution, Underway, Cancelled, loopVars, StreamFails
  <2>3. LoopConsistent'
    BY <1>18 DEF IInv, LoopConsistent, Underway, Cancelled, serverVars, loopVars,
           StreamFails
  <2>4. UngrantedIsIdle'
    BY <1>18 DEF IInv, UngrantedIsIdle, serverVars, loopVars, StreamFails
  <2>5. LaunchingIsStarting'
    BY <1>18 DEF IInv, LaunchingIsStarting, StreamFails
  <2>6. HonestCompletion' /\ ReportsAreTrue'
    BY <1>18 DEF IInv, HonestCompletion, ReportsAreTrue, Pending, serverVars, loopVars,
           StreamFails
  <2> QED BY <2>1, <2>2, <2>3, <2>4, <2>5, <2>6 DEF IInv
<1>19. ASSUME NEW l \in Leases, WaitFails(l) PROVE IInv'
  <2>1. TypeOK'
    BY <1>19 DEF IInv, TypeOK, serverVars, loopVars, WaitFails
  <2>2. OneExecution'
    BY <1>19 DEF IInv, OneExecution, Underway, Cancelled, loopVars, WaitFails
  <2>3. LoopConsistent'
    BY <1>19 DEF IInv, LoopConsistent, Underway, Cancelled, serverVars, loopVars,
           WaitFails
  <2>4. UngrantedIsIdle'
    BY <1>19 DEF IInv, UngrantedIsIdle, serverVars, loopVars, WaitFails
  <2>5. LaunchingIsStarting'
    BY <1>19 DEF IInv, LaunchingIsStarting, WaitFails
  <2>6. HonestCompletion' /\ ReportsAreTrue'
    BY <1>19 DEF IInv, HonestCompletion, ReportsAreTrue, Pending, serverVars, loopVars,
           WaitFails
  <2> QED BY <2>1, <2>2, <2>3, <2>4, <2>5, <2>6 DEF IInv
<1>20. ASSUME NEW l \in Leases, TrainerExits(l) PROVE IInv'
  <2>1. TypeOK'
    BY <1>20 DEF IInv, TypeOK, serverVars, loopVars, TrainerExits
  <2>2. HonestCompletion'
    BY <1>20 DEF IInv, HonestCompletion, serverVars, TrainerExits
  <2>3. UngrantedIsIdle'
    BY <1>20 DEF IInv, UngrantedIsIdle, serverVars, loopVars, TrainerExits
  <2>4. LaunchingIsStarting'
    BY <1>20 DEF IInv, LaunchingIsStarting, TrainerExits
  <2>5. ReportsAreTrue'
    BY <1>20 DEF IInv, ReportsAreTrue, Pending, serverVars, loopVars, TrainerExits
  <2>6. OneExecution' /\ LoopConsistent'
    BY <1>20 DEF IInv, OneExecution, LoopConsistent, serverVars, loopVars, TrainerExits
  <2> QED BY <2>1, <2>2, <2>3, <2>4, <2>5, <2>6 DEF IInv
<1>21. ASSUME NEW l \in Leases, ExecutionReturns(l) PROVE IInv'
  <2>1. TypeOK'
    BY <1>21 DEF IInv, TypeOK, serverVars, loopVars, ExecutionReturns
  <2>2. OneExecution'
    BY <1>21 DEF IInv, OneExecution, Underway, Cancelled, loopVars, ExecutionReturns
  <2>3. LoopConsistent'
    BY <1>21 DEF IInv, LoopConsistent, Underway, Cancelled, serverVars, loopVars,
           ExecutionReturns
  <2>4. UngrantedIsIdle'
    BY <1>21 DEF IInv, UngrantedIsIdle, serverVars, loopVars, ExecutionReturns
  <2>5. LaunchingIsStarting'
    BY <1>21 DEF IInv, LaunchingIsStarting, ExecutionReturns
  <2>6. HonestCompletion' /\ ReportsAreTrue'
    BY <1>21 DEF IInv, HonestCompletion, ReportsAreTrue, Pending, serverVars, loopVars,
           ExecutionReturns
  <2> QED BY <2>1, <2>2, <2>3, <2>4, <2>5, <2>6 DEF IInv
<1>22. ASSUME NEW l \in Leases, CancelledTaskEnds(l) PROVE IInv'
  <2>1. TypeOK'
    BY <1>22 DEF IInv, TypeOK, serverVars, loopVars, CancelledTaskEnds, Discard
  <2>2. OneExecution'
    BY <1>22 DEF IInv, TypeOK, OneExecution, Underway, Cancelled, CancelledTaskEnds
  <2>3. HonestCompletion'
    BY <1>22 DEF IInv, HonestCompletion, serverVars, CancelledTaskEnds, StopsTrainer
  <2>4. LoopConsistent'
    BY <1>22 DEF IInv, LoopConsistent, Underway, Cancelled, serverVars, loopVars,
           CancelledTaskEnds, Discard
  <2>5. UngrantedIsIdle'
    BY <1>22 DEF IInv, UngrantedIsIdle, Cancelled, serverVars, loopVars,
           CancelledTaskEnds, StopsTrainer
  <2>6. LaunchingIsStarting'
    BY <1>22 DEF IInv, LaunchingIsStarting, CancelledTaskEnds, StopsTrainer
  <2>7. ReportsAreTrue'
    BY <1>22 DEF IInv, ReportsAreTrue, Pending, serverVars, loopVars, CancelledTaskEnds,
           StopsTrainer
  <2> QED BY <2>1, <2>2, <2>3, <2>4, <2>5, <2>6, <2>7 DEF IInv
<1>23. ASSUME NEW stops \in BOOLEAN, Restart(stops) PROVE IInv'
  <2>1. TypeOK'
    BY <1>23 DEF IInv, TypeOK, Restart
  <2>2. OneExecution'
    BY <1>23 DEF IInv, OneExecution, Underway, Cancelled, Restart
  <2>3. HonestCompletion'
    BY <1>23 DEF IInv, HonestCompletion, Restart
  <2>4. LoopConsistent'
    BY <1>23 DEF IInv, TypeOK, LoopConsistent, Request, Restart
  <2>5. UngrantedIsIdle'
    BY <1>23 DEF IInv, UngrantedIsIdle, Restart
  <2>6. LaunchingIsStarting'
    BY <1>23 DEF IInv, LaunchingIsStarting, Restart
  <2>7. ReportsAreTrue'
    BY <1>23 DEF IInv, TypeOK, LoopConsistent, ReportsAreTrue, Pending, Request, Restart
  <2> QED BY <2>1, <2>2, <2>3, <2>4, <2>5, <2>6, <2>7 DEF IInv
<1>24. CASE UNCHANGED vars
  BY <1>24 DEF IInv, TypeOK, OneExecution, HonestCompletion, LoopConsistent,
         UngrantedIsIdle, LaunchingIsStarting, ReportsAreTrue, Pending, serverVars,
         loopVars, taskVars, vars
<1> QED
  BY <1>1, <1>2, <1>3, <1>4, <1>5, <1>6, <1>7, <1>8, <1>9, <1>10, <1>11, <1>12,
       <1>13, <1>14, <1>15, <1>16, <1>17, <1>18, <1>19, <1>20, <1>21, <1>22, <1>23,
       <1>24 DEF Next

(* IInv holds in every reachable state (_service_lease and                 *)
(* run_lease_execution, over a link that loses and delays).                *)
THEOREM Invariance == Spec => []IInv
<1>1. Init => IInv
  BY InitIInv
<1>2. IInv /\ [Next]_vars => IInv'
  BY NextIInv
<1> QED
  BY <1>1, <1>2, PTL DEF Spec

(* The state of the agent, its trainers and its requests is well typed. *)
THEOREM TypeCorrect == Spec => []TypeOK
<1>1. IInv => TypeOK
  BY DEF IInv
<1> QED
  BY <1>1, Invariance, PTL

(* No lease is recorded COMPLETED whose trainer did not exit with 0, even  *)
(* by a report that arrives late or from a process that died since.        *)
THEOREM CompletionsAreHonest == Spec => []HonestCompletion
<1>1. IInv => HonestCompletion
  BY DEF IInv
<1> QED
  BY <1>1, Invariance, PTL

(* The agent never has two executions under way, a draining one included. *)
THEOREM OneExecutionAtATime == Spec => []OneExecution
<1>1. IInv => OneExecution
  BY DEF IInv
<1> QED
  BY <1>1, Invariance, PTL

-----------------------------------------------------------------------------
(* A refused renewal is of a lease that is over, and stays so. *)
LEMMA NextRefusedIsLost ==
  ASSUME IInv, RefusedIsLost, [Next]_vars
  PROVE  RefusedIsLost'
<1> USE AgentAssumption
<1>1. ASSUME NEW l \in Leases, Offer(l) PROVE RefusedIsLost'
  BY <1>1 DEF loopVars, RefusedIsLost, Offer
<1>2. ASSUME NEW l \in Leases, EndLease(l) PROVE RefusedIsLost'
  BY <1>2 DEF loopVars, RefusedIsLost, EndLease
<1>3. CASE AnswerRequest
  BY <1>3 DEF IInv, LoopConsistent, UngrantedIsIdle, Underway, RefusedIsLost,
         AnswerRequest, Handle
<1>4. CASE ErrorAnswer
  BY <1>4 DEF RefusedIsLost, ErrorAnswer
<1>5. CASE HandleLate
  BY <1>5 DEF IInv, TypeOK, LoopConsistent, loopVars, RefusedIsLost, HandleLate, Handle
<1>6. CASE ClaimLease
  BY <1>6 DEF RefusedIsLost, ClaimLease, Send
<1>7. CASE LaunchGranted
  BY <1>7 DEF RefusedIsLost, LaunchGranted
<1>8. CASE RefuseGranted
  BY <1>8 DEF RefusedIsLost, RefuseGranted, Send
<1>9. CASE RenewLease
  BY <1>9 DEF RefusedIsLost, RenewLease, Send
<1>10. CASE ReportResult
  BY <1>10 DEF RefusedIsLost, ReportResult, Send
<1>11. CASE RequestAnswered
  BY <1>11 DEF RefusedIsLost, RequestAnswered
<1>12. CASE RequestFails
  BY <1>12 DEF RefusedIsLost, RequestFails
<1>13. ASSUME NEW l \in Leases, TrainerLaunched(l) PROVE RefusedIsLost'
  BY <1>13 DEF serverVars, loopVars, RefusedIsLost, TrainerLaunched
<1>14. ASSUME NEW l \in Leases, LaunchFails(l) PROVE RefusedIsLost'
  BY <1>14 DEF serverVars, loopVars, RefusedIsLost, LaunchFails
<1>15. ASSUME NEW l \in Leases, LaunchUnanswered(l) PROVE RefusedIsLost'
  BY <1>15 DEF serverVars, loopVars, RefusedIsLost, LaunchUnanswered
<1>16. ASSUME NEW l \in Leases, LaunchOutlivesTask(l) PROVE RefusedIsLost'
  BY <1>16 DEF serverVars, loopVars, RefusedIsLost, LaunchOutlivesTask
<1>17. ASSUME NEW l \in Leases, StreamOpens(l) PROVE RefusedIsLost'
  BY <1>17 DEF serverVars, loopVars, RefusedIsLost, StreamOpens
<1>18. ASSUME NEW l \in Leases, StreamFails(l) PROVE RefusedIsLost'
  BY <1>18 DEF serverVars, loopVars, RefusedIsLost, StreamFails
<1>19. ASSUME NEW l \in Leases, WaitFails(l) PROVE RefusedIsLost'
  BY <1>19 DEF serverVars, loopVars, RefusedIsLost, WaitFails
<1>20. ASSUME NEW l \in Leases, TrainerExits(l) PROVE RefusedIsLost'
  BY <1>20 DEF serverVars, loopVars, RefusedIsLost, TrainerExits
<1>21. ASSUME NEW l \in Leases, ExecutionReturns(l) PROVE RefusedIsLost'
  BY <1>21 DEF serverVars, loopVars, RefusedIsLost, ExecutionReturns
<1>22. ASSUME NEW l \in Leases, CancelledTaskEnds(l) PROVE RefusedIsLost'
  BY <1>22 DEF serverVars, loopVars, RefusedIsLost, CancelledTaskEnds
<1>23. ASSUME NEW stops \in BOOLEAN, Restart(stops) PROVE RefusedIsLost'
  BY <1>23 DEF RefusedIsLost, Restart
<1>24. CASE UNCHANGED vars
  BY <1>24 DEF serverVars, loopVars, vars, RefusedIsLost
<1> QED
  BY <1>1, <1>2, <1>3, <1>4, <1>5, <1>6, <1>7, <1>8, <1>9, <1>10, <1>11, <1>12,
       <1>13, <1>14, <1>15, <1>16, <1>17, <1>18, <1>19, <1>20, <1>21, <1>22, <1>23,
       <1>24 DEF Next

(* An execution is cancelled only when its lease is lost, or an error      *)
(* answer is taken for that (main.py, the 409 branch).                     *)
THEOREM AbandonedIsLost == Spec => AbandonsOnlyLost
<1> DEFINE A == \A l \in Leases : task[l] \in Underway /\ task'[l] \in Cancelled =>
                                  serverState[l] # "ACTIVE" \/ answer = "error"
<1>1. Init => RefusedIsLost
  BY DEF Init, RefusedIsLost
<1>2. IInv /\ RefusedIsLost /\ [Next]_vars => RefusedIsLost'
  BY NextRefusedIsLost
<1>3. IInv /\ RefusedIsLost /\ [Next]_vars => [A]_vars
  <2> SUFFICES ASSUME IInv, RefusedIsLost, Next, NEW l \in Leases,
                      task[l] \in Underway, task'[l] \in Cancelled
               PROVE  serverState[l] # "ACTIVE" \/ answer = "error"
    OBVIOUS
  <2>1. CASE RequestAnswered
    BY <2>1 DEF RequestAnswered, AfterRequest, MustAbandon, Abandon, TaskDone, IInv, TypeOK,
                OneExecution, LoopConsistent, RefusedIsLost, Underway, Cancelled, taskVars
  <2>2. CASE RequestFails
    BY <2>2 DEF RequestFails, AfterRequest, MustAbandon, Abandon, taskVars, Underway, Cancelled
  <2>3. ASSUME NEW m \in Leases,
               \/ Offer(m) \/ EndLease(m) \/ TrainerLaunched(m) \/ LaunchFails(m)
               \/ LaunchUnanswered(m) \/ LaunchOutlivesTask(m)
               \/ StreamOpens(m) \/ StreamFails(m) \/ WaitFails(m)
               \/ TrainerExits(m) \/ ExecutionReturns(m) \/ CancelledTaskEnds(m)
        PROVE  FALSE
    BY <2>3 DEF Offer, EndLease, TrainerLaunched, LaunchFails, LaunchUnanswered,
                LaunchOutlivesTask, StreamOpens, StreamFails, WaitFails, TrainerExits, ExecutionReturns, CancelledTaskEnds, IInv, TypeOK,
                taskVars, Underway, Cancelled
  <2>4. CASE \/ AnswerRequest \/ ErrorAnswer \/ HandleLate
             \/ ClaimLease \/ RefuseGranted \/ RenewLease \/ ReportResult
    BY <2>4 DEF AnswerRequest, ErrorAnswer, HandleLate, ClaimLease, RefuseGranted, RenewLease,
                ReportResult, taskVars, Underway, Cancelled
  <2>5. CASE LaunchGranted \/ (\E stops \in BOOLEAN : Restart(stops))
    BY <2>5 DEF LaunchGranted, Restart, IInv, TypeOK, Underway, Cancelled
  <2> QED
    BY <2>1, <2>2, <2>3, <2>4, <2>5 DEF Next
<1>4. Spec => []RefusedIsLost
  BY <1>1, <1>2, Invariance, PTL DEF Spec
<1>5. Spec => [][A]_vars
  BY <1>3, <1>4, Invariance, PTL DEF Spec
<1> QED
  BY <1>5 DEF AbandonsOnlyLost

-----------------------------------------------------------------------------
(* A task that is over leaves no container it has watched, and neither     *)
(* does a report on its way.                                               *)
LEMMA NextReportsAreLast ==
  ASSUME IInv, ReportsAreLast, [Next]_vars
  PROVE  ReportsAreLast'
<1> USE AgentAssumption
<1>1. ASSUME NEW l \in Leases, Offer(l) PROVE ReportsAreLast'
  BY <1>1 DEF Pending, loopVars, taskVars, ReportsAreLast, Offer
<1>2. ASSUME NEW l \in Leases, EndLease(l) PROVE ReportsAreLast'
  BY <1>2 DEF Pending, loopVars, taskVars, ReportsAreLast, EndLease
<1>3. CASE AnswerRequest
  BY <1>3 DEF IInv, TypeOK, LoopConsistent, Pending, Request, taskVars, ReportsAreLast,
         AnswerRequest, Handle, Settled
<1>4. CASE ErrorAnswer
  BY <1>4 DEF Pending, serverVars, taskVars, ReportsAreLast, ErrorAnswer
<1>5. CASE HandleLate
  BY <1>5 DEF IInv, TypeOK, LoopConsistent, UngrantedIsIdle, Pending, Request, loopVars,
         taskVars, ReportsAreLast, HandleLate, Handle, Settled
<1>6. CASE ClaimLease
  BY <1>6 DEF Pending, serverVars, taskVars, ReportsAreLast, ClaimLease, Send
<1>7. CASE LaunchGranted
  BY <1>7 DEF IInv, TypeOK, Pending, serverVars, ReportsAreLast, LaunchGranted
<1>8. CASE RefuseGranted
  BY <1>8 DEF IInv, UngrantedIsIdle, Pending, serverVars, taskVars, ReportsAreLast,
         RefuseGranted, Send
<1>9. CASE RenewLease
  BY <1>9 DEF Pending, serverVars, taskVars, ReportsAreLast, RenewLease, Send
<1>10. CASE ReportResult
  BY <1>10 DEF IInv, TypeOK, UngrantedIsIdle, Pending, serverVars, taskVars,
         ReportsAreLast, ReportResult, Send, TaskDone
<1>11. CASE RequestAnswered
  <2>1. /\ trainer' = trainer /\ serverState' = serverState /\ late' = late
        /\ awaiting' = NoRequest
    BY <1>11 DEF serverVars, taskVars, RequestAnswered, AfterRequest, Abandon
  <2>2. \A l \in Leases : task'[l] # task[l] =>
          ~ TaskDone(l) /\ task'[l] \in {"unwinding", "stopping"}
    <3>1. UNCHANGED taskVars \/ (Abandon(executing) /\ ~ TaskDone(executing))
      BY <1>11 DEF RequestAnswered, AfterRequest, Abandon
    <3>2. CASE UNCHANGED taskVars
      BY <3>2 DEF taskVars
    <3>3. CASE Abandon(executing) /\ ~ TaskDone(executing)
      BY <3>3 DEF IInv, TypeOK, Abandon
    <3> QED BY <3>1, <3>2, <3>3
  <2>3. \A req \in late : req.lease \in Leases \cup {NoLease}
    BY DEF IInv, TypeOK, Request
  <2> QED
    BY <2>1, <2>2, <2>3 DEF IInv, LoopConsistent, Pending, ReportsAreLast, TaskDone
<1>12. CASE RequestFails
  BY <1>12 DEF Pending, taskVars, ReportsAreLast, RequestFails, AfterRequest, MustAbandon
<1>13. ASSUME NEW l \in Leases, TrainerLaunched(l) PROVE ReportsAreLast'
  BY <1>13 DEF IInv, LaunchingIsStarting, Pending, serverVars, loopVars, ReportsAreLast,
         TrainerLaunched
<1>14. ASSUME NEW l \in Leases, LaunchFails(l) PROVE ReportsAreLast'
  BY <1>14 DEF IInv, TypeOK, Pending, serverVars, loopVars, ReportsAreLast, LaunchFails
<1>15. ASSUME NEW l \in Leases, LaunchUnanswered(l) PROVE ReportsAreLast'
  BY <1>15 DEF IInv, TypeOK, Pending, serverVars, loopVars, ReportsAreLast, LaunchUnanswered
<1>16. ASSUME NEW l \in Leases, LaunchOutlivesTask(l) PROVE ReportsAreLast'
  BY <1>16 DEF Pending, serverVars, loopVars, ReportsAreLast, LaunchOutlivesTask
<1>17. ASSUME NEW l \in Leases, StreamOpens(l) PROVE ReportsAreLast'
  BY <1>17 DEF Pending, serverVars, loopVars, ReportsAreLast, StreamOpens
<1>18. ASSUME NEW l \in Leases, StreamFails(l) PROVE ReportsAreLast'
  BY <1>18 DEF IInv, TypeOK, Pending, serverVars, loopVars, ReportsAreLast, StreamFails
<1>19. ASSUME NEW l \in Leases, WaitFails(l) PROVE ReportsAreLast'
  BY <1>19 DEF IInv, TypeOK, Pending, serverVars, loopVars, ReportsAreLast, WaitFails
<1>20. ASSUME NEW l \in Leases, TrainerExits(l) PROVE ReportsAreLast'
  BY <1>20 DEF Pending, serverVars, loopVars, ReportsAreLast, TrainerExits
<1>21. ASSUME NEW l \in Leases, ExecutionReturns(l) PROVE ReportsAreLast'
  BY <1>21 DEF Pending, serverVars, loopVars, ReportsAreLast, ExecutionReturns, HasExited
<1>22. ASSUME NEW l \in Leases, CancelledTaskEnds(l) PROVE ReportsAreLast'
  BY <1>22 DEF Pending, Cancelled, serverVars, loopVars, ReportsAreLast,
         CancelledTaskEnds, StopsTrainer
<1>23. ASSUME NEW stops \in BOOLEAN, Restart(stops) PROVE ReportsAreLast'
  BY <1>23 DEF IInv, TypeOK, LoopConsistent, Pending, Request, ReportsAreLast, Restart
<1>24. CASE UNCHANGED vars
  BY <1>24 DEF Pending, serverVars, loopVars, taskVars, vars, ReportsAreLast
<1> QED
  BY <1>1, <1>2, <1>3, <1>4, <1>5, <1>6, <1>7, <1>8, <1>9, <1>10, <1>11, <1>12,
       <1>13, <1>14, <1>15, <1>16, <1>17, <1>18, <1>19, <1>20, <1>21, <1>22, <1>23,
       <1>24 DEF Next

(* A trainer starts for an offered lease only, and is stopped or has ended *)
(* before its lease is reported or dropped.                                *)
LEMMA NextSettledIsOver ==
  ASSUME IInv, ReportsAreLast, SettledIsOver, [Next]_vars
  PROVE  SettledIsOver'
<1> USE AgentAssumption
<1>1. ASSUME NEW l \in Leases, Offer(l) PROVE SettledIsOver'
  BY <1>1 DEF taskVars, SettledIsOver, Offer
<1>2. ASSUME NEW l \in Leases, EndLease(l) PROVE SettledIsOver'
  BY <1>2 DEF taskVars, SettledIsOver, EndLease
<1>3. CASE AnswerRequest
  BY <1>3 DEF IInv, TypeOK, ReportsAreTrue, Pending, Request, taskVars, ReportsAreLast,
         SettledIsOver,
         AnswerRequest, Handle, Settled
<1>4. CASE HandleLate
  BY <1>4 DEF IInv, TypeOK, ReportsAreTrue, Pending, Request, taskVars, ReportsAreLast,
         SettledIsOver,
         HandleLate, Handle, Settled
<1>5. CASE LaunchGranted
  BY <1>5 DEF serverVars, ReportsAreLast, SettledIsOver, LaunchGranted
<1>6. ASSUME NEW l \in Leases, TrainerLaunched(l) PROVE SettledIsOver'
  BY <1>6 DEF IInv, LaunchingIsStarting, serverVars, SettledIsOver, TrainerLaunched
<1>7. ASSUME NEW l \in Leases, LaunchFails(l) \/ LaunchUnanswered(l) PROVE SettledIsOver'
  BY <1>7 DEF IInv, TypeOK, LaunchingIsStarting, serverVars, SettledIsOver, LaunchFails,
         LaunchUnanswered
<1>8. ASSUME NEW l \in Leases, LaunchOutlivesTask(l) PROVE SettledIsOver'
  BY <1>8 DEF serverVars, SettledIsOver, LaunchOutlivesTask
<1>9. ASSUME NEW l \in Leases, TrainerExits(l) PROVE SettledIsOver'
  BY <1>9 DEF serverVars, SettledIsOver, TrainerExits
<1>10. ASSUME NEW l \in Leases, CancelledTaskEnds(l) PROVE SettledIsOver'
  BY <1>10 DEF Cancelled, serverVars, SettledIsOver, CancelledTaskEnds, StopsTrainer
<1>11. ASSUME NEW stops \in BOOLEAN, Restart(stops) PROVE SettledIsOver'
  BY <1>11 DEF SettledIsOver, Restart
<1>12. CASE UNCHANGED <<serverState, trainer, task>>
  BY <1>12 DEF SettledIsOver
<1>13. ASSUME NEW l \in Leases, \/ StreamOpens(l) \/ StreamFails(l)
                               \/ WaitFails(l) \/ ExecutionReturns(l)
      PROVE SettledIsOver'
  BY <1>13 DEF IInv, TypeOK, SettledIsOver, StreamOpens, StreamFails, WaitFails, ExecutionReturns,
         serverVars, loopVars
<1>14. CASE ErrorAnswer \/ ClaimLease \/ RefuseGranted \/ RenewLease \/ ReportResult
  BY <1>14, <1>12 DEF ErrorAnswer, ClaimLease, RefuseGranted, RenewLease, ReportResult,
       serverVars, taskVars
<1>15. CASE RequestAnswered \/ RequestFails
  BY <1>15 DEF IInv, TypeOK, SettledIsOver, RequestAnswered, RequestFails, AfterRequest,
       MustAbandon, Abandon, TaskDone, serverVars, taskVars
<1> QED
  BY <1>1, <1>2, <1>3, <1>4, <1>5, <1>6, <1>7, <1>8, <1>9, <1>10, <1>11, <1>12, <1>13,
       <1>14, <1>15 DEF Next, vars, serverVars, taskVars

(* A lease its agent has settled has no trainer left, unless its task went *)
(* blind: the node is free when it gets its next job.                      *)
THEOREM SettledLeavesNoTrainer == Spec => []SettledIsOver
<1>1. Init => ReportsAreLast /\ SettledIsOver
  BY DEF Init, ReportsAreLast, SettledIsOver, Pending
<1>2. IInv /\ ReportsAreLast /\ [Next]_vars => ReportsAreLast'
  BY NextReportsAreLast
<1>3. IInv /\ ReportsAreLast /\ SettledIsOver /\ [Next]_vars => SettledIsOver'
  BY NextSettledIsOver
<1> QED
  BY <1>1, <1>2, <1>3, Invariance, PTL DEF Spec
=============================================================================
