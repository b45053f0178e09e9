------------------------------- MODULE Fleet --------------------------------
(***************************************************************************)
(* A machine's life in the fleet: it enrolls with a single-use token,      *)
(* heartbeats, is declared dead and comes back, and is removed.            *)
(*                                                                         *)
(* Each request of a node is authenticated when it arrives and takes       *)
(* effect when its transaction writes, and a removal or a declaration of   *)
(* failure can commit in between.  So can it between the scheduler's       *)
(* reading of the nodes and the commit of its leases.  An enrollment or a  *)
(* revocation locks its token's row with its first write, until it commits *)
(* or rolls back.  What the leases themselves do is Leases' subject; here  *)
(* a node holds one or it does not.                                        *)
(***************************************************************************)
EXTENDS FiniteSets

CONSTANTS
  Nodes,      \* rows of nodes, one for each request that may create one
  Tokens,     \* enrollment tokens
  NoToken     \* the token of a node that has not enrolled

ASSUME FleetAssumption == NoToken \notin Tokens

VARIABLES
  tokenState,     \* enrollment_tokens: used_at, revoked_at
  expired,        \* tokens whose expires_at has passed
  revoking,       \* tokens whose row a revocation has written and not committed
  registering,    \* how far the request that is to create the node is
  presented,      \* the token it carries
  enrolledWith,   \* the token that enrolled the node
  status,         \* nodes.status
  decommissioned, \* nodes.decommissioned_at is set
  silent,         \* last_heartbeat_at is older than the detector's floor
  heartbeat,      \* the status a heartbeat loaded that has yet to commit
  call,           \* nodes with an authenticated claim or report in flight
  lease,          \* the live lease of the node
  snapshot        \* the free nodes the scheduler pass has read

nodeVars == <<status, decommissioned, silent>>
tokenVars == <<tokenState, expired, revoking>>
enrollVars == <<tokenVars, registering, presented, enrolledWith>>
flightVars == <<heartbeat, call>>
workVars == <<lease, snapshot>>
vars == <<enrollVars, nodeVars, flightVars, workVars>>

TypeOK ==
  /\ tokenState \in [Tokens -> {"absent", "unused", "used", "revoked"}]
  /\ expired \subseteq Tokens /\ revoking \subseteq Tokens
  /\ registering \in [Nodes -> {"none", "timely", "late", "claimed"}]
  /\ presented \in [Nodes -> Tokens \cup {NoToken}]
  /\ enrolledWith \in [Nodes -> Tokens \cup {NoToken}]
  /\ status \in [Nodes -> {"ONLINE", "OFFLINE"}]
  /\ decommissioned \subseteq Nodes /\ silent \subseteq Nodes
  /\ heartbeat \in [Nodes -> {"none", "ONLINE", "OFFLINE"}]
  /\ call \subseteq Nodes
  /\ lease \in [Nodes -> {"none", "PENDING", "ACTIVE"}]
  /\ snapshot \subseteq Nodes

Init ==
  /\ tokenState = [t \in Tokens |-> "absent"] /\ expired = {} /\ revoking = {}
  /\ registering = [n \in Nodes |-> "none"]
  /\ presented = [n \in Nodes |-> NoToken]
  /\ enrolledWith = [n \in Nodes |-> NoToken]
  /\ status = [n \in Nodes |-> "OFFLINE"]
  /\ decommissioned = {} /\ silent = Nodes
  /\ heartbeat = [n \in Nodes |-> "none"] /\ call = {}
  /\ lease = [n \in Nodes |-> "none"] /\ snapshot = {}

-----------------------------------------------------------------------------
(* Enrollment tokens. *)
CreateEnrollmentToken(t) ==
  /\ tokenState[t] = "absent"
  /\ tokenState' = [tokenState EXCEPT ![t] = "unused"]
  /\ UNCHANGED <<expired, revoking, registering, presented, enrolledWith,
                 nodeVars, flightVars, workVars>>

TokenExpires(t) ==
  /\ tokenState[t] # "absent" /\ t \notin expired
  /\ expired' = expired \cup {t}
  /\ UNCHANGED <<tokenState, revoking, registering, presented, enrolledWith,
                 nodeVars, flightVars, workVars>>

(* The UPDATE and the check it carries are one step on the row: it waits   *)
(* for a transaction that has written the row and sees what that committed.*)
Holds(n, t) == registering[n] = "claimed" /\ presented[n] = t
NotRevoking(t) == t \notin revoking                           \* mutant
RowFree(t) == t \notin revoking /\ \A n \in Nodes : ~ Holds(n, t)

RevokeEnrollmentToken(t) ==
  /\ RowFree(t) /\ tokenState[t] = "unused"
  /\ revoking' = revoking \cup {t}
  /\ UNCHANGED <<tokenState, expired, registering, presented, enrolledWith,
                 nodeVars, flightVars, workVars>>

(* The revocation commits, or its transaction fails. *)
RevocationEnds(t) ==
  /\ t \in revoking
  /\ revoking' = revoking \ {t}
  /\ tokenState' \in {tokenState, [tokenState EXCEPT ![t] = "revoked"]}
  /\ UNCHANGED <<expired, registering, presented, enrolledWith,
                 nodeVars, flightVars, workVars>>

(* now() is the start of the transaction, so the wait for the row may      *)
(* outlast the token's time.                                               *)
RegisterArrives(n, t) ==
  /\ enrolledWith[n] = NoToken /\ registering[n] = "none"
  /\ tokenState[t] # "absent"
  /\ registering' = [registering EXCEPT ![n] = IF t \in expired THEN "late" ELSE "timely"]
  /\ presented' = [presented EXCEPT ![n] = t]
  /\ UNCHANGED <<tokenVars, enrolledWith, nodeVars, flightVars, workVars>>

Claimable(n) == tokenState[presented[n]] = "unused" /\ registering[n] = "timely"

ClaimEnrollmentToken(n) ==
  /\ registering[n] \in {"timely", "late"} /\ RowFree(presented[n])
  /\ registering' = [registering EXCEPT ![n] = IF Claimable(n) THEN "claimed" ELSE "none"]
  /\ UNCHANGED <<tokenVars, presented, enrolledWith, nodeVars, flightVars, workVars>>

RegisterNode(n) ==
  /\ registering[n] = "claimed"
  /\ tokenState' = [tokenState EXCEPT ![presented[n]] = "used"]
  /\ enrolledWith' = [enrolledWith EXCEPT ![n] = presented[n]]
  /\ registering' = [registering EXCEPT ![n] = "none"]
  /\ UNCHANGED <<expired, revoking, presented, nodeVars, flightVars, workVars>>

(* The transaction fails before it commits; the token is as it was. *)
RegistrationFails(n) ==
  /\ registering[n] # "none"
  /\ registering' = [registering EXCEPT ![n] = "none"]
  /\ UNCHANGED <<tokenVars, presented, enrolledWith, nodeVars, flightVars, workVars>>

-----------------------------------------------------------------------------
(* require_node_auth, when a request of the node arrives. *)
KnownNode(n) == enrolledWith[n] # NoToken                     \* mutant
Authenticated(n) == enrolledWith[n] # NoToken /\ n \notin decommissioned

HeartbeatArrives(n) ==
  /\ Authenticated(n) /\ heartbeat[n] = "none"
  /\ heartbeat' = [heartbeat EXCEPT ![n] = status[n]]
  /\ UNCHANGED <<enrollVars, nodeVars, call, workVars>>

(* record_heartbeat sets the status ONLINE, but the ORM writes only what   *)
(* differs from the row it loaded: a status loaded as ONLINE stays as the  *)
(* row has it by now.                                                      *)
StatusAfterUnchanged(n) == status[n]                          \* mutant
StatusAfter(n) == IF heartbeat[n] = "ONLINE" THEN status[n] ELSE "ONLINE"

RecordHeartbeat(n) ==
  /\ heartbeat[n] # "none"
  /\ status' = [status EXCEPT ![n] = StatusAfter(n)]
  /\ silent' = silent \ {n}
  /\ heartbeat' = [heartbeat EXCEPT ![n] = "none"]
  /\ UNCHANGED <<enrollVars, decommissioned, call, workVars>>

FallsSilent(n) ==
  /\ n \notin silent
  /\ silent' = silent \cup {n}
  /\ UNCHANGED <<enrollVars, status, decommissioned, flightVars, workVars>>

(* The detector looks at ONLINE nodes only and tears their leases down. *)
DeclareNodeFailed(n) ==
  /\ status[n] = "ONLINE" /\ n \in silent
  /\ status' = [status EXCEPT ![n] = "OFFLINE"]
  /\ lease' = [lease EXCEPT ![n] = "none"]
  /\ UNCHANGED <<enrollVars, decommissioned, silent, flightVars, snapshot>>

DecommissionNode(n) ==
  /\ enrolledWith[n] # NoToken /\ n \notin decommissioned
  /\ lease[n] = "none"
  /\ decommissioned' = decommissioned \cup {n}
  /\ status' = [status EXCEPT ![n] = "OFFLINE"]
  /\ UNCHANGED <<enrollVars, silent, flightVars, workVars>>

-----------------------------------------------------------------------------
(* The scheduler asks for an ONLINE node without a live lease; it does not *)
(* ask whether the node has been removed.                                  *)
SchedulerPassBegin ==
  /\ snapshot = {}
  /\ snapshot' = {n \in Nodes : status[n] = "ONLINE" /\ lease[n] = "none"}
  /\ snapshot' # {}
  /\ UNCHANGED <<enrollVars, nodeVars, flightVars, lease>>

SchedulerPassCommit ==
  /\ snapshot # {}
  /\ \E placed \in SUBSET snapshot :
       lease' = [n \in Nodes |-> IF n \in placed THEN "PENDING" ELSE lease[n]]
  /\ snapshot' = {}
  /\ UNCHANGED <<enrollVars, nodeVars, flightVars>>

CallArrives(n) ==
  /\ Authenticated(n) /\ n \notin call
  /\ call' = call \cup {n}
  /\ UNCHANGED <<enrollVars, nodeVars, heartbeat, workVars>>

(* A claim takes up the offer, a renewal changes nothing here, a report    *)
(* ends the lease.                                                         *)
CallTakesEffect(n) ==
  /\ n \in call
  /\ call' = call \ {n}
  /\ \/ lease[n] = "PENDING" /\ lease' = [lease EXCEPT ![n] = "ACTIVE"]
     \/ lease[n] = "ACTIVE" /\ lease' = [lease EXCEPT ![n] = "none"]
     \/ UNCHANGED lease
  /\ UNCHANGED <<enrollVars, nodeVars, heartbeat, snapshot>>

(* The TTL, a sibling's failure or a cancellation. *)
LeaseEnds(n) ==
  /\ lease[n] # "none"
  /\ lease' = [lease EXCEPT ![n] = "none"]
  /\ UNCHANGED <<enrollVars, nodeVars, flightVars, snapshot>>

Next ==
  \/ \E t \in Tokens : \/ CreateEnrollmentToken(t) \/ TokenExpires(t)
                       \/ RevokeEnrollmentToken(t) \/ RevocationEnds(t)
                       \/ \E n \in Nodes : RegisterArrives(n, t)
  \/ \E n \in Nodes : ClaimEnrollmentToken(n) \/ RegisterNode(n) \/ RegistrationFails(n)
  \/ \E n \in Nodes : \/ HeartbeatArrives(n) \/ RecordHeartbeat(n) \/ FallsSilent(n)
                      \/ DeclareNodeFailed(n) \/ DecommissionNode(n)
                      \/ CallArrives(n) \/ CallTakesEffect(n) \/ LeaseEnds(n)
  \/ SchedulerPassBegin \/ SchedulerPassCommit

Spec == Init /\ [][Next]_vars

-----------------------------------------------------------------------------
(* A token is used if it has enrolled a machine, one and no other, and a   *)
(* token that is not used has enrolled none, a revoked one least of all:   *)
(* enrollments of several machines, expiry and a revocation race for one   *)
(* row, and any of them may fail after it has won (enrollment.py).         *)
TokenAdmitsOne ==
  /\ \A n, m \in Nodes : enrolledWith[n] = enrolledWith[m] /\ enrolledWith[n] # NoToken => n = m
  /\ \A t \in Tokens : tokenState[t] = "used" <=> \E n \in Nodes : enrolledWith[n] = t

(* Why: who has written the row of a token is alone, and finds it unused.  *)
RowsAreHeld ==
  /\ \A n \in Nodes : registering[n] # "none" => enrolledWith[n] = NoToken
  /\ \A n \in Nodes : registering[n] # "none" => presented[n] \in Tokens
  /\ \A n \in Nodes : registering[n] = "claimed" =>
       /\ tokenState[presented[n]] = "unused" /\ presented[n] \notin revoking
       /\ \A m \in Nodes : Holds(m, presented[n]) => m = n
  /\ \A t \in revoking : tokenState[t] = "unused"

-----------------------------------------------------------------------------
(* A request that has arrived is served; the loops keep running; a machine *)
(* that no longer heartbeats falls silent, and a lease nobody renews ends. *)
Fairness ==
  WF_vars(SchedulerPassCommit) /\ \A n \in Nodes :
    /\ WF_vars(RecordHeartbeat(n)) /\ WF_vars(CallTakesEffect(n))
    /\ WF_vars(FallsSilent(n) /\ heartbeat[n] = "none" /\ n \in decommissioned)
    /\ WF_vars(DeclareNodeFailed(n))
    /\ WF_vars(LeaseEnds(n) /\ n \in decommissioned)

FairSpec == Spec /\ Fairness

(* Whatever a removal overtook, the machine is OFFLINE and idle for good   *)
(* in the end.                                                             *)
RemovedGoesQuiet ==
  \A n \in Nodes :
    n \in decommissioned ~> [](status[n] = "OFFLINE" /\ lease[n] = "none")

(* A machine that heartbeats is ONLINE again and again, also when the      *)
(* detector declared it dead while a heartbeat was being recorded.         *)
HeartbeatsKeepOnline ==
  \A n \in Nodes : (<>[](n \notin decommissioned) /\ []<><<RecordHeartbeat(n)>>_vars)
                   => []<>(status[n] = "ONLINE")
=============================================================================
