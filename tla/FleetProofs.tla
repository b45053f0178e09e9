---------------------------- MODULE FleetProofs -----------------------------
(***************************************************************************)
(* What holds of enrollment and removal for any fleet.  TypeOK,            *)
(* TokenAdmitsOne and RowsAreHeld are inductive together: a token can      *)
(* admit a second machine only if its row is written by two requests, or   *)
(* by one that did not find it unused.                                     *)
(***************************************************************************)
EXTENDS Fleet, TLAPS

FleetInv == TypeOK /\ TokenAdmitsOne /\ RowsAreHeld

(* A fleet without machines satisfies all three. *)
LEMMA InitFleetInv == Init => FleetInv
  BY FleetAssumption DEF Init, FleetInv, TypeOK, TokenAdmitsOne, RowsAreHeld

(* Every step keeps the types. *)
LEMMA NextTypeOK == ASSUME FleetInv, [Next]_vars PROVE TypeOK'
<1> USE FleetAssumption DEF FleetInv, TypeOK, tokenVars, enrollVars, nodeVars, flightVars,
                            workVars
<1>1. ASSUME NEW t \in Tokens,
             \/ CreateEnrollmentToken(t) \/ TokenExpires(t)
             \/ RevokeEnrollmentToken(t) \/ RevocationEnds(t)
      PROVE  TypeOK'
  BY <1>1 DEF CreateEnrollmentToken, TokenExpires, RevokeEnrollmentToken, RevocationEnds
<1>2. ASSUME NEW n \in Nodes,
             \/ \E t \in Tokens : RegisterArrives(n, t)
             \/ ClaimEnrollmentToken(n) \/ RegisterNode(n) \/ RegistrationFails(n)
      PROVE  TypeOK'
  BY <1>2 DEF RegisterArrives, ClaimEnrollmentToken, RegisterNode, RegistrationFails
<1>3. ASSUME NEW n \in Nodes, HeartbeatArrives(n) PROVE TypeOK'
  BY <1>3 DEF HeartbeatArrives
<1>4. ASSUME NEW n \in Nodes, RecordHeartbeat(n) PROVE TypeOK'
  BY <1>4 DEF RecordHeartbeat, StatusAfter
<1>5. ASSUME NEW n \in Nodes, FallsSilent(n) \/ DeclareNodeFailed(n) \/ DecommissionNode(n)
      PROVE  TypeOK'
  BY <1>5 DEF FallsSilent, DeclareNodeFailed, DecommissionNode
<1>6. ASSUME NEW n \in Nodes, CallArrives(n) \/ CallTakesEffect(n) \/ LeaseEnds(n)
      PROVE  TypeOK'
  BY <1>6 DEF CallArrives, CallTakesEffect, LeaseEnds
<1>7. CASE SchedulerPassBegin \/ SchedulerPassCommit
  BY <1>7 DEF SchedulerPassBegin, SchedulerPassCommit
<1>8. CASE UNCHANGED vars
  BY <1>8 DEF vars
<1> QED
  BY <1>1, <1>2, <1>3, <1>4, <1>5, <1>6, <1>7, <1>8 DEF Next

(* Only a request that holds the row of an unused token makes it used, and *)
(* it makes one machine of it.                                             *)
LEMMA NextTokenAdmitsOne == ASSUME FleetInv, [Next]_vars PROVE TokenAdmitsOne'
<1> USE FleetAssumption DEF FleetInv, TypeOK, TokenAdmitsOne, tokenVars
<1>1. ASSUME NEW t \in Tokens, CreateEnrollmentToken(t) \/ RevocationEnds(t)
      PROVE  TokenAdmitsOne'
  BY <1>1 DEF CreateEnrollmentToken, RevocationEnds, RowsAreHeld
<1>2. ASSUME NEW n \in Nodes, RegisterNode(n) PROVE TokenAdmitsOne'
  <2> DEFINE t == presented[n]
  <2>1. t \in Tokens /\ tokenState[t] = "unused" /\ enrolledWith[n] = NoToken
    BY <1>2 DEF RegisterNode, RowsAreHeld
  <2>2. \A m \in Nodes : enrolledWith[m] # t
    BY <2>1
  <2>3. /\ \A m \in Nodes : enrolledWith'[m] = IF m = n THEN t ELSE enrolledWith[m]
        /\ \A u \in Tokens : tokenState'[u] = IF u = t THEN "used" ELSE tokenState[u]
    BY <1>2 DEF RegisterNode
  <2> HIDE DEF t
  <2> QED
    BY <2>1, <2>2, <2>3
<1>3. CASE UNCHANGED <<tokenState, enrolledWith>>
  BY <1>3
<1> QED
  BY <1>1, <1>2, <1>3 DEF Next, vars, enrollVars, HeartbeatArrives, RecordHeartbeat, FallsSilent,
     DeclareNodeFailed, DecommissionNode, CallArrives, CallTakesEffect, LeaseEnds,
     SchedulerPassBegin, SchedulerPassCommit, TokenExpires, RevokeEnrollmentToken,
     RegisterArrives, ClaimEnrollmentToken, RegistrationFails

(* The row of a token has one writer: an enrollment or a revocation starts *)
(* only on a row nobody holds.                                             *)
LEMMA NextRowsAreHeld == ASSUME FleetInv, [Next]_vars PROVE RowsAreHeld'
<1> USE FleetAssumption DEF FleetInv, TypeOK, RowsAreHeld, Holds, tokenVars
<1>1. ASSUME NEW t \in Tokens, CreateEnrollmentToken(t) PROVE RowsAreHeld'
  BY <1>1 DEF CreateEnrollmentToken
<1>2. ASSUME NEW t \in Tokens, RevokeEnrollmentToken(t) \/ RevocationEnds(t)
      PROVE  RowsAreHeld'
  BY <1>2 DEF RevokeEnrollmentToken, RevocationEnds, RowFree
<1>3. ASSUME NEW t \in Tokens, NEW n \in Nodes, RegisterArrives(n, t) PROVE RowsAreHeld'
  BY <1>3 DEF RegisterArrives
<1>4. ASSUME NEW n \in Nodes, ClaimEnrollmentToken(n) PROVE RowsAreHeld'
  BY <1>4 DEF ClaimEnrollmentToken, Claimable, RowFree
<1>5. ASSUME NEW n \in Nodes, RegisterNode(n) PROVE RowsAreHeld'
  BY <1>5 DEF RegisterNode
<1>6. ASSUME NEW n \in Nodes, RegistrationFails(n) PROVE RowsAreHeld'
  BY <1>6 DEF RegistrationFails
<1>7. CASE UNCHANGED <<tokenState, revoking, registering, presented, enrolledWith>>
  BY <1>7
<1> QED
  BY <1>1, <1>2, <1>3, <1>4, <1>5, <1>6, <1>7 DEF Next, vars, enrollVars, HeartbeatArrives,
     RecordHeartbeat, FallsSilent, DeclareNodeFailed, DecommissionNode, CallArrives,
     CallTakesEffect, LeaseEnds, SchedulerPassBegin, SchedulerPassCommit, TokenExpires

(* The three hold in every reachable state. *)
THEOREM FleetInvariance == Spec => []FleetInv
<1>1. FleetInv /\ [Next]_vars => FleetInv'
  BY NextTypeOK, NextTokenAdmitsOne, NextRowsAreHeld DEF FleetInv
<1> QED
  BY InitFleetInv, <1>1, PTL DEF Spec

(* The tables and the requests in flight are well typed. *)
THEOREM FleetTypeCorrect == Spec => []TypeOK
<1>1. FleetInv => TypeOK
  BY DEF FleetInv
<1> QED
  BY <1>1, FleetInvariance, PTL

(* An enrollment token admits one machine at most, and is used only if it  *)
(* has admitted one: enrollments, revocations and expiry race for its row, *)
(* and may fail with it locked (claim_enrollment_token, register_node).    *)
THEOREM TokensAdmitOne == Spec => []TokenAdmitsOne
<1>1. FleetInv => TokenAdmitsOne
  BY DEF FleetInv
<1> QED
  BY <1>1, FleetInvariance, PTL

-----------------------------------------------------------------------------
(* What a removed machine can still do, the safety behind RemovedGoesQuiet: *)
(* require_node_auth turns its new requests away, so what it had in flight  *)
(* is all there is.                                                         *)

Quiet(n) ==
  /\ n \in decommissioned /\ heartbeat[n] = "none" /\ status[n] = "OFFLINE"
  /\ lease[n] = "none" /\ n \notin snapshot

(* Its requests in flight only run out, and none but a heartbeat that had   *)
(* loaded OFFLINE makes it ONLINE again.                                    *)
WindsDown(n) ==
  /\ n \in decommissioned'
  /\ heartbeat'[n] \in {heartbeat[n], "none"} /\ (n \in call' => n \in call)
  /\ status'[n] # status[n] /\ status'[n] = "ONLINE" =>
       heartbeat[n] = "OFFLINE" /\ heartbeat'[n] = "none"
  /\ n \in snapshot' /\ n \notin snapshot => status[n] = "ONLINE"
  /\ lease[n] = "none" /\ lease'[n] # "none" => n \in snapshot

LEMMA StepWindsDown ==
  ASSUME FleetInv, [Next]_vars, NEW n \in decommissioned
  PROVE  WindsDown(n)
<1> USE DEF FleetInv, TypeOK, WindsDown, enrollVars, nodeVars, flightVars, workVars
<1>1. CASE UNCHANGED <<nodeVars, flightVars, workVars>>
  BY <1>1
<1>2. ASSUME NEW m \in Nodes, HeartbeatArrives(m) \/ CallArrives(m) PROVE WindsDown(n)
  BY <1>2 DEF HeartbeatArrives, CallArrives, Authenticated
<1>3. ASSUME NEW m \in Nodes, RecordHeartbeat(m) PROVE WindsDown(n)
  BY <1>3 DEF RecordHeartbeat, StatusAfter
<1>4. ASSUME NEW m \in Nodes, FallsSilent(m) \/ DeclareNodeFailed(m) \/ DecommissionNode(m)
      PROVE  WindsDown(n)
  BY <1>4 DEF FallsSilent, DeclareNodeFailed, DecommissionNode
<1>5. ASSUME NEW m \in Nodes, CallTakesEffect(m) \/ LeaseEnds(m) PROVE WindsDown(n)
  BY <1>5 DEF CallTakesEffect, LeaseEnds
<1>6. CASE SchedulerPassBegin \/ SchedulerPassCommit
  BY <1>6 DEF SchedulerPassBegin, SchedulerPassCommit
<1> QED
  BY <1>1, <1>2, <1>3, <1>4, <1>5, <1>6 DEF Next, vars, CreateEnrollmentToken, TokenExpires,
     RevokeEnrollmentToken, RevocationEnds, RegisterArrives, ClaimEnrollmentToken,
     RegisterNode, RegistrationFails

(* A removed machine only winds down: it comes back ONLINE once at most, by *)
(* a heartbeat that overtook its removal, and work reaches it only from a   *)
(* pass that had seen it ONLINE (decommission_node, record_heartbeat,       *)
(* schedule_pending_jobs).                                                  *)
THEOREM RemovedMachinesWindDown == Spec => [][\A n \in decommissioned : WindsDown(n)]_vars
<1>1. FleetInv /\ [Next]_vars => [\A n \in decommissioned : WindsDown(n)]_vars
  BY StepWindsDown
<1> QED BY <1>1, FleetInvariance, PTL DEF Spec

(* Once a removed machine has nothing in flight, is OFFLINE and idle, and   *)
(* no pass has it among its free nodes, that is how it stays.               *)
THEOREM QuietForGood == Spec => \A n \in Nodes : [](Quiet(n) => []Quiet(n))
<1> SUFFICES ASSUME NEW n \in Nodes PROVE Spec => [](Quiet(n) => []Quiet(n))
  OBVIOUS
<1>1. FleetInv /\ [Next]_vars /\ Quiet(n) => Quiet(n)'
  <2> SUFFICES ASSUME FleetInv, [Next]_vars, Quiet(n) PROVE Quiet(n)'
    OBVIOUS
  <2>1. WindsDown(n)
    BY StepWindsDown DEF Quiet
  <2>2. heartbeat'[n] = "none" /\ n \in decommissioned'
    BY <2>1 DEF WindsDown, Quiet
  <2>3. FleetInv'
    BY NextTypeOK, NextTokenAdmitsOne, NextRowsAreHeld DEF FleetInv
  <2>4. status'[n] \in {"ONLINE", "OFFLINE"}
    BY <2>3 DEF FleetInv, TypeOK
  <2> QED BY <2>1, <2>2, <2>4 DEF WindsDown, Quiet
<1> QED BY <1>1, FleetInvariance, PTL DEF Spec
=============================================================================
