---------------------------- MODULE LeasesProofs ----------------------------
(***************************************************************************)
(* Proofs about Leases, for any sets of jobs and nodes and any bounds.     *)
(***************************************************************************)
EXTENDS Leases, FiniteSetTheorems, TLAPS

-----------------------------------------------------------------------------
(* Lease ids are triples of a job, an epoch and a rank. *)

LEMMA LeaseIdParts ==
  /\ \A l \in LeaseId : l[1] \in Jobs /\ l[2] \in 1 .. MaxEpoch /\ l[3] \in Ranks
  /\ \A l, m \in LeaseId : l[1] = m[1] /\ l[2] = m[2] /\ l[3] = m[3] => l = m
BY DEF LeaseId

LEMMA LeaseIdOfRank ==
  ASSUME NEW j \in Jobs, NEW e \in 1 .. MaxEpoch, NEW r \in 0 .. WorldSize[j] - 1
  PROVE  \E l \in LeaseId : l = <<j, e, r>> /\ l[1] = j /\ l[2] = e /\ l[3] = r
<1>1. r \in Ranks
  BY ConstantsAssumption DEF Ranks
<1>2. <<j, e, r>> \in LeaseId
  BY <1>1 DEF LeaseId
<1> QED BY <1>2

(* There are finitely many lease ids, so a tear-down blames a number. *)
LEMMA LeaseIdFinite == IsFiniteSet(LeaseId)
<1> DEFINE P == (Jobs \X (1 .. MaxEpoch)) \X Ranks
           f == [p \in P |-> <<p[1][1], p[1][2], p[2]>>]
<1>1. IsFiniteSet(P)
  <2>1. IsFiniteSet(1 .. MaxEpoch) /\ IsFiniteSet(Ranks)
    BY FS_Interval, ConstantsAssumption DEF Ranks
  <2>2. IsFiniteSet(Jobs \X (1 .. MaxEpoch))
    BY <2>1, FS_Product, ConstantsAssumption
  <2> QED BY <2>1, <2>2, FS_Product
<1>2. f \in Surjection(P, LeaseId)
  <2>1. \A p \in P : f[p] \in LeaseId
    BY DEF LeaseId
  <2>2. \A l \in LeaseId : \E p \in P : f[p] = l
    <3> TAKE l \in LeaseId
    <3>1. PICK j \in Jobs, e \in 1 .. MaxEpoch, r \in Ranks : l = <<j, e, r>>
      BY DEF LeaseId
    <3>2. <<<<j, e>>, r>> \in P /\ f[<<<<j, e>>, r>>] = l
      BY <3>1
    <3> QED BY <3>2
  <2> QED BY <2>1, <2>2 DEF Surjection
<1> QED BY <1>1, <1>2, FS_Surjection

-----------------------------------------------------------------------------
(* When the pass commits, it has read the busy nodes. *)
PassIsReady == SnapshotStillFree /\ pass.step = "ready"

(* A plan is a legal placement: its jobs wait and have an epoch left to     *)
(* mint, each cohort has distinct free nodes, and no two cohorts share one. *)
LEMMA PlanIsPlacement ==
  ASSUME TypeOK, PassIsReady, NEW plan \in Plans, LegalPlan(plan), NEW j \in DOMAIN plan
  PROVE  /\ j \in Jobs /\ j \in pass.jobs
         /\ jobState[j] \in Placeable
         /\ Mint(j) \in 1 .. MaxEpoch /\ Mint(j) = jobEpoch[j] + 1
         /\ plan[j] \in [0 .. WorldSize[j] - 1 -> Nodes]
         /\ \A r \in 0 .. WorldSize[j] - 1 : plan[j][r] \in pass.free /\ plan[j][r] \notin Busy
         /\ \A r, q \in 0 .. WorldSize[j] - 1 : plan[j][r] = plan[j][q] => r = q
<1>1. j \in pass.jobs /\ plan[j] \in Cohorts(j, pass.free \ Taken(plan, j))
  BY DEF Plans, LegalPlan
<1>2. j \in Jobs /\ jobState[j] \in Placeable /\ jobEpoch[j] < MaxEpoch /\ jobEpoch[j] \in Nat
  BY <1>1 DEF TypeOK, PassIsReady, SnapshotStillFree
<1>3. Mint(j) \in 1 .. MaxEpoch /\ Mint(j) = jobEpoch[j] + 1
  BY <1>2, ConstantsAssumption DEF Mint
<1>4. plan[j] \in [0 .. WorldSize[j] - 1 -> pass.free]
  BY <1>1 DEF Cohorts
<1>5. \A r, q \in 0 .. WorldSize[j] - 1 : plan[j][r] = plan[j][q] => r = q
  BY <1>1 DEF Cohorts
<1>6. pass.free \subseteq Nodes /\ pass.free \cap Busy = {}
  BY DEF TypeOK, PassIsReady, SnapshotStillFree
<1> QED BY <1>1, <1>2, <1>3, <1>4, <1>5, <1>6

LEMMA PlanIsExclusive ==
  ASSUME TypeOK, PassIsReady, NEW plan \in Plans, LegalPlan(plan),
         NEW i \in DOMAIN plan, NEW j \in DOMAIN plan,
         NEW r \in 0 .. WorldSize[i] - 1, NEW q \in 0 .. WorldSize[j] - 1,
         plan[i][r] = plan[j][q]
  PROVE  i = j
<1>1. i \in Nat /\ j \in Nat
  BY PlanIsPlacement, ConstantsAssumption
<1>2. DOMAIN plan[i] = 0 .. WorldSize[i] - 1 /\ DOMAIN plan[j] = 0 .. WorldSize[j] - 1
  BY PlanIsPlacement
<1>3. /\ plan[i] \in [0 .. WorldSize[i] - 1 -> pass.free \ Taken(plan, i)]
      /\ plan[j] \in [0 .. WorldSize[j] - 1 -> pass.free \ Taken(plan, j)]
  <2>1. /\ plan[i] \in Cohorts(i, pass.free \ Taken(plan, i))
        /\ plan[j] \in Cohorts(j, pass.free \ Taken(plan, j))
    BY PlanIsPlacement DEF LegalPlan
  <2> QED BY <2>1 DEF Cohorts
<1>4. ASSUME i < j PROVE FALSE
  <2>1. plan[i][r] \in Members(plan[i])
    BY <1>2 DEF Members
  <2>2. Members(plan[i]) \in {Members(plan[k]) : k \in {k \in DOMAIN plan : k < j}}
    BY <1>4
  <2>3. plan[i][r] \in Taken(plan, j)
    BY <2>1, <2>2 DEF Taken
  <2> QED BY <2>3, <1>3
<1>5. ASSUME j < i PROVE FALSE
  <2>1. plan[j][q] \in Members(plan[j])
    BY <1>2 DEF Members
  <2>2. Members(plan[j]) \in {Members(plan[k]) : k \in {k \in DOMAIN plan : k < i}}
    BY <1>5
  <2>3. plan[j][q] \in Taken(plan, i)
    BY <2>1, <2>2 DEF Taken
  <2> QED BY <2>3, <1>3
<1> QED BY <1>1, <1>4, <1>5

(* The leases a commit inserts, seen from the lease. *)
LEMMA PlacedLease ==
  ASSUME TypeOK, PassIsReady, NEW plan \in Plans, LegalPlan(plan),
         NEW l \in Placed(plan)
  PROVE  /\ l \in LeaseId /\ l[1] \in DOMAIN plan /\ l[1] \in Jobs
         /\ l[2] = jobEpoch[l[1]] + 1
         /\ l[3] \in 0 .. WorldSize[l[1]] - 1
         /\ plan[l[1]][l[3]] \in pass.free /\ plan[l[1]][l[3]] \in Nodes
         /\ plan[l[1]][l[3]] \notin Busy
<1>1. l \in LeaseId /\ l[1] \in DOMAIN plan /\ l[2] = Mint(l[1]) /\ l[3] < WorldSize[l[1]]
  BY DEF Placed
<1>2. l[1] \in Jobs /\ l[3] \in 0 .. MaxWorldSize - 1
  BY <1>1, LeaseIdParts DEF Ranks
<1>3. WorldSize[l[1]] \in 1 .. MaxWorldSize /\ MaxWorldSize \in Nat
  BY <1>2, ConstantsAssumption
<1>4. l[3] \in 0 .. WorldSize[l[1]] - 1
  BY <1>1, <1>2, <1>3
<1>5. /\ Mint(l[1]) = jobEpoch[l[1]] + 1
      /\ plan[l[1]] \in [0 .. WorldSize[l[1]] - 1 -> Nodes]
      /\ \A r \in 0 .. WorldSize[l[1]] - 1 : plan[l[1]][r] \in pass.free /\ plan[l[1]][r] \notin Busy
  BY <1>1, PlanIsPlacement
<1> QED BY <1>1, <1>2, <1>4, <1>5

-----------------------------------------------------------------------------
(* A tear-down's count of blamed leases is a number. *)
LEMMA BlameIsANumber ==
  ASSUME NEW expired \in SUBSET LeaseId, NEW lapsed, NEW n
  PROVE  Cardinality({l \in Blamed(expired, lapsed) : leaseNode[l] = n}) \in Nat
<1>1. {l \in Blamed(expired, lapsed) : leaseNode[l] = n} \in SUBSET LeaseId
  BY DEF Blamed
<1> QED BY <1>1, LeaseIdFinite, FS_Subset, FS_CardinalityType

LEMMA ReassignType ==
  ASSUME TypeOK, LiveIsARank, NEW expired \in SUBSET LeaseId, NEW lapsed \in SUBSET LeaseId,
         \A l \in expired \cup lapsed : Live(l),
         ReassignJobAttempts(expired, lapsed)
  PROVE  /\ leaseState' \in [LeaseId -> LeaseState]
         /\ overdue' \subseteq LeaseId
         /\ failures' \in [Nodes -> Nat]
         /\ backoff' \subseteq Nodes
         /\ jobState' \in [Jobs -> JobState]
         /\ rendezvous' \in [Jobs -> Nodes \cup {NoNode}]
<1>1. leaseState' \in [LeaseId -> LeaseState]
  BY DEF ReassignJobAttempts, TypeOK, LeaseState
<1>2. overdue' \subseteq LeaseId
  BY DEF ReassignJobAttempts, TypeOK
<1>3. failures' \in [Nodes -> Nat]
  <2> DEFINE blame(n) == Cardinality({l \in Blamed(expired, lapsed) : leaseNode[l] = n})
  <2>1. \A n : blame(n) \in Nat
    BY BlameIsANumber
  <2>2. failures' = [n \in Nodes |-> failures[n] + blame(n)]
    BY DEF ReassignJobAttempts
  <2> HIDE DEF blame
  <2> QED BY <2>1, <2>2 DEF TypeOK
<1>4. backoff' \subseteq Nodes
  BY DEF ReassignJobAttempts, TypeOK, LiveIsARank
<1>5. jobState' \in [Jobs -> JobState] /\ rendezvous' \in [Jobs -> Nodes \cup {NoNode}]
  BY DEF ReassignJobAttempts, TypeOK, JobState
<1> QED BY <1>1, <1>2, <1>3, <1>4, <1>5

-----------------------------------------------------------------------------
LEMMA InitTyped == Init => TypeOK
<1> SUFFICES ASSUME Init PROVE TypeOK OBVIOUS
<1> QED BY ConstantsAssumption DEF Init, TypeOK, JobState, LeaseState, NoPass

LEMMA StepTyped == TypeOK /\ IInv /\ [Next]_vars => TypeOK'
<1> SUFFICES ASSUME TypeOK, IInv, [Next]_vars PROVE TypeOK'
  OBVIOUS
<1> USE DEF jobVars, leaseVars, nodeVars, cancelVars
<1>1. ASSUME NEW j \in Jobs, CreateJob(j) PROVE TypeOK'
  BY <1>1 DEF CreateJob, TypeOK, JobState
<1>2. ASSUME NEW stale \in SUBSET Nodes, NEW skipped \in SUBSET Jobs,
             SchedulerPassBegin(stale, skipped)
      PROVE  TypeOK'
  BY <1>2 DEF SchedulerPassBegin, TypeOK, Healthy, Waiting
<1>3. ASSUME SchedulerPassCommit PROVE TypeOK'
  <2>1. PICK plan \in Plans :
          /\ LegalPlan(plan)
          /\ jobState' = [j \in Jobs |-> IF j \in DOMAIN plan THEN "SCHEDULED" ELSE jobState[j]]
          /\ jobEpoch' = [j \in Jobs |-> IF j \in DOMAIN plan THEN Mint(j) ELSE jobEpoch[j]]
          /\ rendezvous' = [j \in Jobs |-> IF j \in DOMAIN plan THEN RendezvousHost(plan[j]) ELSE rendezvous[j]]
          /\ leaseState' = [l \in LeaseId |-> IF l \in Placed(plan) THEN "PENDING" ELSE leaseState[l]]
          /\ leaseNode' = [l \in LeaseId |-> IF l \in Placed(plan) THEN plan[l[1]][l[3]] ELSE leaseNode[l]]
    BY <1>3 DEF SchedulerPassCommit
  <2>2. PassIsReady
    BY <1>3 DEF IInv, PassIsReady, SchedulerPassCommit
  <2>3. jobState' \in [Jobs -> JobState] /\ leaseState' \in [LeaseId -> LeaseState]
    BY <2>1 DEF TypeOK, JobState, LeaseState
  <2>4. jobEpoch' \in [Jobs -> 0 .. MaxEpoch]
    <3>1. \A j \in DOMAIN plan : Mint(j) \in 1 .. MaxEpoch
      BY <2>1, <2>2, PlanIsPlacement
    <3>2. \A j \in DOMAIN plan : Mint(j) \in 0 .. MaxEpoch
      BY <3>1
    <3>3. \A j \in Jobs : jobEpoch[j] \in 0 .. MaxEpoch
      BY DEF TypeOK
    <3> QED BY <2>1, <3>2, <3>3
  <2>5. leaseNode' \in [LeaseId -> Nodes \cup {NoNode}]
    BY <2>1, <2>2, PlacedLease DEF TypeOK
  <2>6. rendezvous' \in [Jobs -> Nodes \cup {NoNode}]
    <3>1. \A j \in DOMAIN plan : RendezvousHost(plan[j]) \in Nodes
      <4> TAKE j \in DOMAIN plan
      <4>1. j \in Jobs /\ plan[j] \in [0 .. WorldSize[j] - 1 -> Nodes]
        BY <2>1, <2>2, PlanIsPlacement
      <4>2. 0 \in 0 .. WorldSize[j] - 1
        BY <4>1, ConstantsAssumption
      <4> QED BY <4>1, <4>2 DEF RendezvousHost
    <3> QED BY <2>1, <3>1 DEF TypeOK
  <2>7. /\ pass' = NoPass
        /\ UNCHANGED <<attempts, overdue, nodeVars, cancelVars>>
    BY <1>3 DEF SchedulerPassCommit
  <2> QED BY <2>3, <2>4, <2>5, <2>6, <2>7 DEF TypeOK, NoPass
<1>4. ASSUME SchedulerPassAbort \/ ReadBusyNodes PROVE TypeOK'
  BY <1>4 DEF SchedulerPassAbort, ReadBusyNodes, TypeOK, NoPass
<1>5. ASSUME NEW n \in Nodes, ClaimJobForNode(n) PROVE TypeOK'
  BY <1>5, LeaseIdParts DEF ClaimJobForNode, TypeOK, HeldBy, LeaseState, JobState
<1>6. ASSUME NEW n \in Nodes, RecordHeartbeat(n) PROVE TypeOK'
  BY <1>6 DEF RecordHeartbeat, TypeOK
<1>7. ASSUME NEW n \in Nodes, DeclareNodeFailed(n) PROVE TypeOK'
  <2> DEFINE lost == {l \in HeldBy(n) : Current(l)}
  <2>1. /\ lost \in SUBSET LeaseId /\ \A l \in lost \cup {} : Live(l)
        /\ ReassignJobAttempts(lost, {})
    BY <1>7 DEF DeclareNodeFailed, HeldBy
  <2>2. /\ nodeStatus' = [nodeStatus EXCEPT ![n] = "OFFLINE"]
        /\ UNCHANGED <<jobEpoch, attempts, leaseNode, successes, pass, cancelVars>>
    BY <1>7 DEF DeclareNodeFailed
  <2> HIDE DEF lost
  <2>3. /\ leaseState' \in [LeaseId -> LeaseState] /\ overdue' \subseteq LeaseId
        /\ failures' \in [Nodes -> Nat] /\ backoff' \subseteq Nodes
        /\ jobState' \in [Jobs -> JobState] /\ rendezvous' \in [Jobs -> Nodes \cup {NoNode}]
    BY <2>1, ReassignType DEF IInv
  <2> QED BY <2>2, <2>3 DEF TypeOK
<1>8. ASSUME NEW n \in Nodes, BackoffPasses(n) PROVE TypeOK'
  BY <1>8 DEF BackoffPasses, TypeOK
<1>9. ASSUME NEW l \in LeaseId, RenewLease(l) PROVE TypeOK'
  BY <1>9, LeaseIdParts DEF RenewLease, TypeOK, JobState
<1>10. ASSUME NEW l \in LeaseId, CompleteLease(l) PROVE TypeOK'
  <2>1. leaseNode[l] \in Nodes
    BY <1>10 DEF CompleteLease, Fenced, IInv, LiveIsARank, Live, LiveStates
  <2> QED BY <1>10, <2>1, LeaseIdParts DEF CompleteLease, TypeOK, JobState, LeaseState
<1>11. ASSUME NEW l \in LeaseId, FailLease(l) PROVE TypeOK'
  <2>1. leaseNode[l] \in Nodes /\ l[1] \in Jobs
    BY <1>11, LeaseIdParts DEF FailLease, Fenced, IInv, LiveIsARank, Live, LiveStates
  <2>2. leaseState' \in [LeaseId -> LeaseState] /\ overdue' \subseteq LeaseId
    BY <1>11 DEF FailLease, TypeOK, LeaseState
  <2>3. failures' \in [Nodes -> Nat] /\ attempts' \in [Jobs -> Nat]
    BY <1>11, <2>1 DEF FailLease, TypeOK
  <2>4. /\ jobState' \in [Jobs -> JobState] /\ rendezvous' \in [Jobs -> Nodes \cup {NoNode}]
        /\ backoff' \subseteq Nodes
    BY <1>11, <2>1 DEF FailLease, TypeOK, JobState
  <2>5. UNCHANGED <<jobEpoch, leaseNode, nodeStatus, successes, pass, cancelVars>>
    BY <1>11 DEF FailLease
  <2> QED BY <2>2, <2>3, <2>4, <2>5 DEF TypeOK
<1>12. ASSUME NEW l \in LeaseId, TtlPasses(l) PROVE TypeOK'
  BY <1>12 DEF TtlPasses, TypeOK
<1>13. ASSUME NEW skipped \in SUBSET Lapsed, SweepExpiredLeases(skipped) PROVE TypeOK'
  <2> DEFINE due == Lapsed \ skipped
             expired == {l \in due : leaseState[l] = "ACTIVE"}
             lapsed == {l \in due : leaseState[l] = "PENDING"}
  <2>1. /\ expired \in SUBSET LeaseId /\ lapsed \in SUBSET LeaseId
        /\ \A l \in expired \cup lapsed : Live(l)
        /\ ReassignJobAttempts(expired, lapsed)
    BY <1>13 DEF SweepExpiredLeases, Lapsed, TypeOK
  <2>2. UNCHANGED <<jobEpoch, attempts, leaseNode, nodeStatus, successes, pass, cancelVars>>
    BY <1>13 DEF SweepExpiredLeases
  <2> HIDE DEF due, expired, lapsed
  <2>3. /\ leaseState' \in [LeaseId -> LeaseState] /\ overdue' \subseteq LeaseId
        /\ failures' \in [Nodes -> Nat] /\ backoff' \subseteq Nodes
        /\ jobState' \in [Jobs -> JobState] /\ rendezvous' \in [Jobs -> Nodes \cup {NoNode}]
    BY <2>1, ReassignType DEF IInv
  <2> QED BY <2>2, <2>3 DEF TypeOK
<1>14. ASSUME NEW j \in Jobs, CancelLoad(j) PROVE TypeOK'
  BY <1>14 DEF CancelLoad, TypeOK
<1>15. ASSUME NEW j \in Jobs, CancelRead(j) PROVE TypeOK'
  BY <1>15 DEF CancelRead, TypeOK, LiveOf
<1>16. ASSUME NEW j \in Jobs, CancelCommit(j) PROVE TypeOK'
  BY <1>16 DEF CancelCommit, TypeOK, JobState, LeaseState
<1>17. CASE UNCHANGED vars
  BY <1>17 DEF TypeOK, vars
<1> QED BY <1>1, <1>2, <1>3, <1>4, <1>5, <1>6, <1>7, <1>8, <1>9, <1>10, <1>11, <1>12, <1>13,
           <1>14, <1>15, <1>16, <1>17 DEF Next

-----------------------------------------------------------------------------
(* Every step but a commit only takes nodes away from attempts. *)
Shrinks ==
  /\ UNCHANGED <<leaseNode, jobEpoch>>
  /\ \A l \in LeaseId : Live(l)' => Live(l)

LEMMA ShrinkKeeps ==
  ASSUME IInv, Shrinks
  PROVE  /\ LiveIsCurrent' /\ OneSlotPerNode' /\ LiveIsARank'
         /\ Busy' \subseteq Busy
         /\ \A j \in Jobs : LiveOf(j)' \subseteq LiveOf(j)
<1>1. LiveIsCurrent'
  BY DEF Shrinks, IInv, LiveIsCurrent, Current
<1>2. OneSlotPerNode'
  BY DEF Shrinks, IInv, OneSlotPerNode
<1>3. LiveIsARank'
  BY DEF Shrinks, IInv, LiveIsARank
<1>4. Busy' \subseteq Busy
  BY DEF Shrinks, Busy, HeldBy
<1>5. \A j \in Jobs : LiveOf(j)' \subseteq LiveOf(j)
  BY DEF Shrinks, LiveOf
<1> QED BY <1>1, <1>2, <1>3, <1>4, <1>5

LEMMA ReadsStayOwn == IInv /\ UNCHANGED cancelSeen => CancelReadsOwnRows'
BY DEF IInv, CancelReadsOwnRows

(* Such a step keeps the invariant when it breaks no cohort of a job that  *)
(* stays under way, and empties the cohort of a job it sends back to wait. *)
LEMMA ShrinkPreserves ==
  ASSUME TypeOK, IInv, Shrinks,
         CancelReadsOwnRows',
         pass' = pass \/ pass' = NoPass,
         NEW J \in SUBSET Jobs,
         \A j \in Jobs \ J : jobState'[j] = jobState[j],
         \A l \in LeaseId : l[1] \notin J => leaseState'[l] = leaseState[l],
         \A j \in J :
           /\ jobState'[j] \in Reassignable =>
                /\ jobState[j] \in Reassignable
                /\ jobState'[j] = "SCHEDULED" => jobState[j] = "SCHEDULED"
                /\ \A l \in LeaseId : l[1] = j /\ Current(l) /\ Live(l) =>
                     /\ Live(l)'
                     /\ jobState'[j] = "SCHEDULED" => leaseState'[l] = leaseState[l]
           /\ jobState'[j] \in Placeable \cup {"ABSENT", "FAILED"} =>
                \A l \in LeaseId : l[1] = j => ~Live(l)'
           /\ j \in pass.jobs => pass' = NoPass \/ jobState'[j] = jobState[j]
  PROVE  IInv'
<1>1. WaitingHoldsNothing'
  <2> SUFFICES ASSUME NEW j \in Jobs, jobState'[j] \in Placeable \cup {"ABSENT", "FAILED"},
                      NEW l \in LeaseId, l[1] = j, Live(l)'
               PROVE  FALSE
    BY DEF WaitingHoldsNothing, LiveOf
  <2>1. CASE j \in J
    BY <2>1
  <2>2. CASE j \notin J
    <3>1. jobState[j] \in Placeable \cup {"ABSENT", "FAILED"} /\ Live(l)
      BY <2>2 DEF Shrinks
    <3> QED BY <3>1 DEF IInv, WaitingHoldsNothing, LiveOf
  <2> QED BY <2>1, <2>2
<1>2. AttemptMinted'
  BY DEF IInv, AttemptMinted, Shrinks
<1>3. CohortIsLive'
  <2> SUFFICES ASSUME NEW j \in Jobs, jobState'[j] \in Reassignable,
                      NEW r \in 0 .. WorldSize[j] - 1
               PROVE  /\ Live(<<j, jobEpoch[j], r>>)'
                      /\ jobState'[j] = "SCHEDULED" => leaseState'[<<j, jobEpoch[j], r>>] = "PENDING"
    BY DEF CohortIsLive, Live, Shrinks
  <2>1. jobState[j] \in Reassignable
    OBVIOUS
  <2>2. jobEpoch[j] \in 1 .. MaxEpoch
    BY <2>1 DEF TypeOK, IInv, AttemptMinted
  <2>3. PICK l \in LeaseId : l = <<j, jobEpoch[j], r>> /\ l[1] = j /\ l[2] = jobEpoch[j]
    BY <2>2, LeaseIdOfRank
  <2>4. Live(l) /\ (jobState[j] = "SCHEDULED" => leaseState[l] = "PENDING")
    BY <2>1, <2>3 DEF IInv, CohortIsLive
  <2>5. Current(l)
    BY <2>3 DEF Current
  <2>6. Live(l)' /\ (jobState'[j] = "SCHEDULED" => leaseState'[l] = "PENDING")
    <3>1. CASE j \in J
      BY <2>3, <2>4, <2>5, <3>1
    <3>2. CASE j \notin J
      <4>1. leaseState'[l] = leaseState[l] /\ jobState'[j] = jobState[j]
        BY <2>3, <3>2
      <4> QED BY <2>4, <4>1 DEF Live
    <3> QED BY <3>1, <3>2
  <2> QED BY <2>3, <2>6 DEF Live, Shrinks
<1>4. SnapshotStillFree'
  BY ShrinkKeeps DEF IInv, SnapshotStillFree, Shrinks, NoPass, TypeOK
<1> QED BY <1>1, <1>2, <1>3, <1>4, ShrinkKeeps DEF IInv

-----------------------------------------------------------------------------
(* Most steps move one job, or none. *)
LEMMA ShrinkOneJob ==
  ASSUME TypeOK, IInv, Shrinks, CancelReadsOwnRows', UNCHANGED pass,
         NEW j \in Jobs,
         \A i \in Jobs \ {j} : jobState'[i] = jobState[i],
         \A l \in LeaseId : l[1] # j => leaseState'[l] = leaseState[l],
         jobState'[j] \in Reassignable =>
           /\ jobState[j] \in Reassignable
           /\ jobState'[j] = "SCHEDULED" => jobState[j] = "SCHEDULED"
           /\ \A l \in LeaseId : l[1] = j /\ Current(l) /\ Live(l) =>
                /\ Live(l)'
                /\ jobState'[j] = "SCHEDULED" => leaseState'[l] = leaseState[l],
         jobState'[j] \in Placeable \cup {"ABSENT", "FAILED"} =>
           \A l \in LeaseId : l[1] = j => ~Live(l)',
         j \in pass.jobs => jobState'[j] = jobState[j]
  PROVE  IInv'
<1> DEFINE J == {j}
<1>1. J \in SUBSET Jobs
  OBVIOUS
<1>2. \A i \in Jobs \ J : jobState'[i] = jobState[i]
  OBVIOUS
<1>3. \A l \in LeaseId : l[1] \notin J => leaseState'[l] = leaseState[l]
  OBVIOUS
<1>4. \A i \in J :
        /\ jobState'[i] \in Reassignable =>
             /\ jobState[i] \in Reassignable
             /\ jobState'[i] = "SCHEDULED" => jobState[i] = "SCHEDULED"
             /\ \A l \in LeaseId : l[1] = i /\ Current(l) /\ Live(l) =>
                  /\ Live(l)'
                  /\ jobState'[i] = "SCHEDULED" => leaseState'[l] = leaseState[l]
        /\ jobState'[i] \in Placeable \cup {"ABSENT", "FAILED"} =>
             \A l \in LeaseId : l[1] = i => ~Live(l)'
        /\ i \in pass.jobs => pass' = NoPass \/ jobState'[i] = jobState[i]
  OBVIOUS
<1>5. pass' = pass \/ pass' = NoPass
  OBVIOUS
<1> HIDE DEF J
<1> QED BY <1>1, <1>2, <1>3, <1>4, <1>5, ShrinkPreserves

LEMMA ShrinkNoJob ==
  ASSUME TypeOK, IInv, UNCHANGED <<jobState, jobEpoch, leaseState, leaseNode, cancelSeen>>,
         pass' = pass \/ pass' = NoPass
  PROVE  IInv'
<1>1. Shrinks
  BY DEF Shrinks, Live
<1>2. SnapshotStillFree'
  BY <1>1, ShrinkKeeps DEF IInv, SnapshotStillFree, Shrinks, NoPass
<1>3. WaitingHoldsNothing' /\ CohortIsLive' /\ AttemptMinted' /\ CancelReadsOwnRows'
  BY DEF IInv, WaitingHoldsNothing, CohortIsLive, AttemptMinted, CancelReadsOwnRows, LiveOf, Live
<1> QED BY <1>1, <1>2, <1>3, ShrinkKeeps DEF IInv

(* A live lease is its rank of the job's current attempt.                  *)
LEMMA LiveInCohort ==
  ASSUME TypeOK, IInv, NEW l \in LeaseId, Live(l)
  PROVE  l = <<l[1], jobEpoch[l[1]], l[3]>> /\ l[3] \in 0 .. WorldSize[l[1]] - 1 /\ l[1] \in Jobs
<1>1. l = <<l[1], l[2], l[3]>>
  BY DEF LeaseId
<1>2. l[2] = jobEpoch[l[1]] /\ l[3] < WorldSize[l[1]]
  BY DEF IInv, LiveIsCurrent, LiveIsARank, Current
<1>3. l[1] \in Jobs /\ l[3] \in 0 .. MaxWorldSize - 1
  BY LeaseIdParts DEF Ranks
<1>4. WorldSize[l[1]] \in 1 .. MaxWorldSize /\ MaxWorldSize \in Nat
  BY <1>3, ConstantsAssumption
<1>5. l[3] \in 0 .. WorldSize[l[1]] - 1
  BY <1>2, <1>3, <1>4
<1> QED BY <1>1, <1>2, <1>3, <1>5

(* So while a job is only scheduled none of its leases has been claimed.   *)
LEMMA ScheduledIsUnclaimed ==
  ASSUME TypeOK, IInv, NEW l \in LeaseId, leaseState[l] = "ACTIVE"
  PROVE  jobState[l[1]] # "SCHEDULED"
<1>1. Live(l)
  BY DEF Live, LiveStates
<1>2. l = <<l[1], jobEpoch[l[1]], l[3]>> /\ l[3] \in 0 .. WorldSize[l[1]] - 1 /\ l[1] \in Jobs
  BY <1>1, LiveInCohort
<1>3. jobState[l[1]] = "SCHEDULED" => leaseState[<<l[1], jobEpoch[l[1]], l[3]>>] = "PENDING"
  BY <1>2 DEF IInv, CohortIsLive, Reassignable
<1> QED BY <1>2, <1>3

(* A tear-down is such a step: the jobs it hits lose every live lease.     *)
LEMMA ReassignPreserves ==
  ASSUME TypeOK, IInv, UNCHANGED <<leaseNode, jobEpoch, cancelSeen, pass>>,
         NEW expired \in SUBSET LeaseId, NEW lapsed \in SUBSET LeaseId,
         \A l \in expired \cup lapsed : Live(l),
         ReassignJobAttempts(expired, lapsed)
  PROVE  IInv'
<1> DEFINE hit == {l[1] : l \in expired \cup lapsed}
<1>1. \A l \in expired \cup lapsed : Current(l) /\ l \in LeaseId
  BY DEF IInv, LiveIsCurrent
<1>2. hit = {l[1] : l \in {m \in expired \cup lapsed : Current(m)}} /\ hit \in SUBSET Jobs
  BY <1>1, LeaseIdParts
<1>3. /\ leaseState' = [l \in LeaseId |->
            CASE l \in expired -> "EXPIRED"
              [] l \in lapsed \ expired -> "UNCLAIMED"
              [] l \in Siblings(hit, expired \cup lapsed) -> "RELEASED"
              [] OTHER -> leaseState[l]]
      /\ jobState' = [j \in Jobs |->
            IF j \in {i \in hit : jobState[i] \in Reassignable} THEN "REASSIGNED" ELSE jobState[j]]
  BY <1>2 DEF ReassignJobAttempts
<1>4. \A l \in LeaseId : l[1] \in hit => ~Live(l)'
  <2> SUFFICES ASSUME NEW l \in LeaseId, l[1] \in hit PROVE leaseState'[l] \notin LiveStates
    BY DEF Live
  <2>1. CASE l \in expired \cup lapsed
    BY <1>3, <2>1 DEF LiveStates
  <2>2. CASE l \notin expired \cup lapsed /\ Live(l)
    <3>1. l \in Siblings(hit, expired \cup lapsed)
      BY <2>2 DEF Siblings, IInv, LiveIsCurrent
    <3> QED BY <1>3, <2>2, <3>1 DEF LiveStates
  <2>3. CASE l \notin expired \cup lapsed /\ ~Live(l)
    BY <1>3, <2>3 DEF Siblings, Live, LiveStates
  <2> QED BY <2>1, <2>2, <2>3
<1>5. \A l \in LeaseId : l[1] \notin hit => leaseState'[l] = leaseState[l]
  BY <1>3 DEF Siblings
<1>6. Shrinks
  BY <1>4, <1>5 DEF Shrinks, Live
<1>7. \A j \in Jobs \ hit : jobState'[j] = jobState[j]
  BY <1>3
<1>8. \A j \in hit :
        /\ jobState'[j] \notin Reassignable
        /\ j \in pass.jobs => jobState'[j] = jobState[j]
  <2> TAKE j \in hit
  <2>1. CASE jobState[j] \in Reassignable
    BY <1>2, <1>3, <2>1 DEF Reassignable, IInv, SnapshotStillFree, Placeable
  <2>2. CASE jobState[j] \notin Reassignable
    BY <1>2, <1>3, <2>2
  <2> QED BY <2>1, <2>2
<1> HIDE DEF hit
<1> QED BY <1>2, <1>4, <1>5, <1>6, <1>7, <1>8, ReadsStayOwn, ShrinkPreserves

LEMMA CommitPreserves ==
  ASSUME TypeOK, IInv, SchedulerPassCommit
  PROVE  IInv'
<1>1. PICK plan \in Plans :
        /\ LegalPlan(plan)
        /\ jobState' = [j \in Jobs |-> IF j \in DOMAIN plan THEN "SCHEDULED" ELSE jobState[j]]
        /\ jobEpoch' = [j \in Jobs |-> IF j \in DOMAIN plan THEN Mint(j) ELSE jobEpoch[j]]
        /\ leaseState' = [l \in LeaseId |-> IF l \in Placed(plan) THEN "PENDING" ELSE leaseState[l]]
        /\ leaseNode' = [l \in LeaseId |-> IF l \in Placed(plan) THEN plan[l[1]][l[3]] ELSE leaseNode[l]]
  BY DEF SchedulerPassCommit
<1>2. pass' = NoPass /\ UNCHANGED cancelSeen
  BY DEF SchedulerPassCommit, cancelVars
<1> USE DEF IInv
<1>3. PassIsReady
  BY DEF PassIsReady, SchedulerPassCommit
(* A planned job had no live lease; afterwards its live ones are the placed. *)
<1>4. \A l \in LeaseId : l[1] \in DOMAIN plan => ~Live(l)
  BY <1>1, <1>3, PlanIsPlacement DEF WaitingHoldsNothing, LiveOf
<1>5. \A l \in LeaseId : Live(l)' => l \in Placed(plan) \/ (Live(l) /\ l[1] \notin DOMAIN plan)
  BY <1>1, <1>4 DEF Live
<1>6. \A l \in LeaseId : l \notin Placed(plan) =>
        leaseState'[l] = leaseState[l] /\ leaseNode'[l] = leaseNode[l]
  BY <1>1
<1>7. LiveIsCurrent'
  <2> SUFFICES ASSUME NEW l \in LeaseId, Live(l)' PROVE l[2] = jobEpoch'[l[1]]
    BY DEF LiveIsCurrent, Current
  <2>1. l[1] \in Jobs
    BY LeaseIdParts
  <2>2. CASE l \in Placed(plan)
    BY <1>1, <2>1, <2>2 DEF Placed
  <2>3. CASE Live(l) /\ l[1] \notin DOMAIN plan
    BY <1>1, <2>1, <2>3 DEF LiveIsCurrent, Current
  <2> QED BY <1>5, <2>2, <2>3
<1>8. WaitingHoldsNothing'
  <2> SUFFICES ASSUME NEW j \in Jobs, jobState'[j] \in Placeable \cup {"ABSENT", "FAILED"},
                      NEW l \in LeaseId, l[1] = j, Live(l)'
               PROVE  FALSE
    BY DEF WaitingHoldsNothing, LiveOf
  <2>1. j \notin DOMAIN plan /\ jobState'[j] = jobState[j]
    BY <1>1 DEF Placeable
  <2>2. Live(l)
    BY <1>5, <2>1 DEF Placed
  <2> QED BY <2>1, <2>2 DEF WaitingHoldsNothing, LiveOf
<1>9. AttemptMinted'
  <2> SUFFICES ASSUME NEW j \in Jobs, jobState'[j] \in Reassignable PROVE jobEpoch'[j] >= 1
    BY DEF AttemptMinted
  <2>1. CASE j \in DOMAIN plan
    BY <1>1, <1>3, <2>1, PlanIsPlacement
  <2>2. CASE j \notin DOMAIN plan
    BY <1>1, <2>2 DEF AttemptMinted
  <2> QED BY <2>1, <2>2
<1>10. CohortIsLive'
  <2> SUFFICES ASSUME NEW j \in Jobs, jobState'[j] \in Reassignable,
                      NEW r \in 0 .. WorldSize[j] - 1
               PROVE  LET l == <<j, jobEpoch'[j], r>>
                      IN  leaseState'[l] \in LiveStates /\ (jobState'[j] = "SCHEDULED" => leaseState'[l] = "PENDING")
    BY DEF CohortIsLive, Live
  <2>1. CASE j \in DOMAIN plan
    <3>1. Mint(j) \in 1 .. MaxEpoch /\ jobEpoch'[j] = Mint(j)
      BY <1>1, <1>3, <2>1, PlanIsPlacement
    <3>2. PICK l \in LeaseId : l = <<j, Mint(j), r>> /\ l[1] = j /\ l[2] = Mint(j) /\ l[3] = r
      BY <3>1, LeaseIdOfRank
    <3>3. r < WorldSize[j]
      BY ConstantsAssumption
    <3>4. l \in Placed(plan)
      BY <2>1, <3>2, <3>3 DEF Placed
    <3> QED BY <1>1, <3>1, <3>2, <3>4 DEF LiveStates
  <2>2. CASE j \notin DOMAIN plan
    <3>1. jobState'[j] = jobState[j] /\ jobEpoch'[j] = jobEpoch[j]
      BY <1>1, <2>2
    <3>2. jobEpoch[j] \in 1 .. MaxEpoch
      BY <3>1 DEF TypeOK, AttemptMinted
    <3>3. PICK l \in LeaseId : l = <<j, jobEpoch[j], r>> /\ l[1] = j
      BY <3>2, LeaseIdOfRank
    <3>4. leaseState'[l] = leaseState[l]
      BY <1>1, <2>2, <3>3 DEF Placed
    <3> QED BY <3>1, <3>3, <3>4 DEF CohortIsLive, Live
  <2> QED BY <2>1, <2>2
<1>11. OneSlotPerNode'
  <2> SUFFICES ASSUME NEW l \in LeaseId, NEW m \in LeaseId, Live(l)', Live(m)',
                      leaseNode'[l] = leaseNode'[m]
               PROVE  l = m
    BY DEF OneSlotPerNode
  <2>1. ASSUME NEW a \in Placed(plan), NEW b \in LeaseId, b \notin Placed(plan), Live(b)',
               leaseNode'[a] = leaseNode'[b]
        PROVE  FALSE
    <3>1. Live(b) /\ leaseNode'[b] = leaseNode[b]
      BY <1>5, <1>6, <2>1
    <3>2. leaseNode[b] \in Nodes
      BY <3>1 DEF LiveIsARank
    <3>3. leaseNode[b] \in Busy
      BY <3>1, <3>2 DEF Busy, HeldBy
    <3>4. a \in LeaseId /\ leaseNode'[a] = plan[a[1]][a[3]] /\ plan[a[1]][a[3]] \notin Busy
      BY <1>1, <1>3, PlacedLease
    <3> QED BY <2>1, <3>1, <3>3, <3>4
  <2>2. CASE l \in Placed(plan) /\ m \in Placed(plan)
    <3>1. /\ l[1] \in DOMAIN plan /\ l[3] \in 0 .. WorldSize[l[1]] - 1 /\ l[2] = jobEpoch[l[1]] + 1
          /\ m[1] \in DOMAIN plan /\ m[3] \in 0 .. WorldSize[m[1]] - 1 /\ m[2] = jobEpoch[m[1]] + 1
      BY <1>1, <1>3, <2>2, PlacedLease
    <3>2. plan[l[1]][l[3]] = plan[m[1]][m[3]]
      BY <1>1, <2>2
    <3>3. l[1] = m[1]
      BY <1>1, <1>3, <3>1, <3>2, PlanIsExclusive
    <3>4. l[3] = m[3]
      BY <1>1, <1>3, <3>1, <3>2, <3>3, PlanIsPlacement
    <3> QED BY <3>1, <3>3, <3>4, LeaseIdParts
  <2>3. CASE l \notin Placed(plan) /\ m \notin Placed(plan)
    BY <1>5, <1>6, <2>3 DEF OneSlotPerNode
  <2> QED BY <2>1, <2>2, <2>3
<1>12. LiveIsARank'
  <2> SUFFICES ASSUME NEW l \in LeaseId, Live(l)'
               PROVE  leaseNode'[l] \in Nodes /\ l[3] < WorldSize[l[1]]
    BY DEF LiveIsARank
  <2>1. CASE l \in Placed(plan)
    BY <1>1, <1>3, <2>1, PlacedLease DEF Placed
  <2>2. CASE l \notin Placed(plan)
    BY <1>5, <1>6, <2>2 DEF LiveIsARank
  <2> QED BY <2>1, <2>2
<1>13. SnapshotStillFree'
  BY <1>2 DEF SnapshotStillFree, NoPass
<1>14. CancelReadsOwnRows'
  BY <1>2 DEF CancelReadsOwnRows
<1> QED BY <1>7, <1>8, <1>9, <1>10, <1>11, <1>12, <1>13, <1>14

-----------------------------------------------------------------------------
LEMMA InitInvariant == Init => IInv
BY ConstantsAssumption, LeaseIdParts
   DEF Init, IInv, LiveIsCurrent, WaitingHoldsNothing, CohortIsLive, OneSlotPerNode, LiveIsARank,
       AttemptMinted, SnapshotStillFree, CancelReadsOwnRows, Live, LiveOf, LiveStates, Reassignable,
       NoPass, Busy, HeldBy

LEMMA StepPreserves == TypeOK /\ IInv /\ [Next]_vars => IInv'
<1> SUFFICES ASSUME TypeOK, IInv, [Next]_vars PROVE IInv'
  OBVIOUS
<1> USE DEF jobVars, leaseVars, nodeVars, cancelVars
<1>1. ASSUME NEW j \in Jobs, CreateJob(j) PROVE IInv'
  <2>1. Shrinks /\ UNCHANGED <<leaseState, cancelSeen, pass>>
    BY <1>1 DEF CreateJob, Shrinks, Live
  <2>2. /\ \A i \in Jobs \ {j} : jobState'[i] = jobState[i]
        /\ jobState[j] = "ABSENT" /\ jobState'[j] = "QUEUED"
    BY <1>1 DEF CreateJob, TypeOK
  <2>3. \A l \in LeaseId : l[1] = j => ~Live(l)'
    BY <2>1, <2>2 DEF IInv, WaitingHoldsNothing, LiveOf, Shrinks
  <2>4. j \notin pass.jobs
    BY <2>2 DEF IInv, SnapshotStillFree, Placeable
  <2> QED BY <2>1, <2>2, <2>3, <2>4, ReadsStayOwn, ShrinkOneJob DEF Reassignable
<1>2. ASSUME NEW stale \in SUBSET Nodes, NEW skipped \in SUBSET Jobs,
             SchedulerPassBegin(stale, skipped) \/ ReadBusyNodes
      PROVE  IInv'
  <2>1. UNCHANGED <<jobVars, leaseVars, cancelSeen>>
    BY <1>2 DEF SchedulerPassBegin, ReadBusyNodes
  <2>2. SnapshotStillFree'
    <3>1. Busy' = Busy
      BY <2>1 DEF Busy, HeldBy, Live
    <3>2. CASE SchedulerPassBegin(stale, skipped)
      BY <2>1, <3>2 DEF SchedulerPassBegin, SnapshotStillFree, Waiting
    <3>3. CASE ReadBusyNodes
      BY <2>1, <3>1, <3>3 DEF ReadBusyNodes, IInv, SnapshotStillFree
    <3> QED BY <1>2, <3>2, <3>3
  <2>3. /\ LiveIsCurrent' /\ WaitingHoldsNothing' /\ CohortIsLive' /\ OneSlotPerNode'
        /\ LiveIsARank' /\ AttemptMinted' /\ CancelReadsOwnRows'
    BY <2>1 DEF IInv, LiveIsCurrent, WaitingHoldsNothing, CohortIsLive, OneSlotPerNode, LiveIsARank,
                AttemptMinted, CancelReadsOwnRows, Live, LiveOf, Current
  <2> QED BY <2>2, <2>3 DEF IInv
<1>3. ASSUME SchedulerPassCommit PROVE IInv'
  BY <1>3, CommitPreserves
<1>4. ASSUME UNCHANGED <<jobState, jobEpoch, leaseState, leaseNode, cancelSeen>>,
             pass' = pass \/ pass' = NoPass
      PROVE  IInv'
  BY <1>4, ShrinkNoJob
<1>5. ASSUME SchedulerPassAbort PROVE IInv'
  BY <1>4, <1>5 DEF SchedulerPassAbort
<1>6. ASSUME NEW n \in Nodes, ClaimJobForNode(n) PROVE IInv'
  <2>1. PICK l \in HeldBy(n) :
          /\ leaseState[l] = "PENDING"
          /\ leaseState' = [leaseState EXCEPT ![l] = "ACTIVE"]
          /\ jobState' = [jobState EXCEPT ![l[1]] = IF @ = "SCHEDULED" THEN "LEASED" ELSE @]
          /\ UNCHANGED <<jobEpoch, leaseNode, pass, cancelSeen>>
    BY <1>6 DEF ClaimJobForNode
  <2>2. l \in LeaseId /\ l[1] \in Jobs /\ Live(l)
    BY LeaseIdParts DEF HeldBy
  <2>3. /\ leaseState'[l] = "ACTIVE"
        /\ \A m \in LeaseId : m # l => leaseState'[m] = leaseState[m]
        /\ jobState'[l[1]] = IF jobState[l[1]] = "SCHEDULED" THEN "LEASED" ELSE jobState[l[1]]
        /\ \A j \in Jobs \ {l[1]} : jobState'[j] = jobState[j]
    BY <2>1, <2>2 DEF TypeOK
  <2>4. \A m \in LeaseId : Live(m)' <=> Live(m)
    BY <2>2, <2>3 DEF Live, LiveStates
  <2>5. Shrinks
    BY <2>1, <2>4 DEF Shrinks
  <2>6. jobState[l[1]] \notin Placeable \cup {"ABSENT", "FAILED"}
    BY <2>2 DEF IInv, WaitingHoldsNothing, LiveOf
  <2>7. jobState'[l[1]] \notin Placeable \cup {"ABSENT", "FAILED", "SCHEDULED"}
    BY <2>3, <2>6 DEF Placeable
  <2>8. l[1] \notin pass.jobs
    BY <2>6 DEF IInv, SnapshotStillFree
  <2>9. jobState'[l[1]] \in Reassignable => jobState[l[1]] \in Reassignable
    BY <2>3 DEF Reassignable
  <2>10. \A m \in LeaseId : m[1] \notin {l[1]} => leaseState'[m] = leaseState[m]
    BY <2>3
  <2>11. pass' = pass /\ UNCHANGED cancelSeen
    BY <2>1
  <2> QED BY <2>2, <2>3, <2>4, <2>5, <2>7, <2>8, <2>9, <2>10, <2>11, ReadsStayOwn, ShrinkOneJob
<1>7. ASSUME NEW n \in Nodes, RecordHeartbeat(n) PROVE IInv'
  BY <1>4, <1>7 DEF RecordHeartbeat
<1>8. ASSUME NEW n \in Nodes, DeclareNodeFailed(n) PROVE IInv'
  <2> DEFINE lost == {l \in HeldBy(n) : Current(l)}
  <2>1. /\ lost \in SUBSET LeaseId /\ \A l \in lost \cup {} : Live(l)
        /\ ReassignJobAttempts(lost, {})
        /\ UNCHANGED <<leaseNode, jobEpoch, cancelSeen, pass>>
    BY <1>8 DEF DeclareNodeFailed, HeldBy
  <2> HIDE DEF lost
  <2> QED BY <2>1, ReassignPreserves
<1>9. ASSUME NEW n \in Nodes, BackoffPasses(n) PROVE IInv'
  BY <1>4, <1>9 DEF BackoffPasses
<1>10. ASSUME NEW l \in LeaseId, RenewLease(l) PROVE IInv'
  <2>1. /\ UNCHANGED <<leaseState, jobEpoch, leaseNode, cancelSeen, pass>>
        /\ l[1] \in Jobs /\ Live(l)
    BY <1>10, LeaseIdParts DEF RenewLease, Fenced, Live, LiveStates
  <2>2. /\ jobState'[l[1]] = IF jobState[l[1]] = "LEASED" THEN "RUNNING" ELSE jobState[l[1]]
        /\ \A j \in Jobs \ {l[1]} : jobState'[j] = jobState[j]
    BY <1>10, <2>1 DEF RenewLease, TypeOK
  <2>3. Shrinks /\ \A m \in LeaseId : Live(m)' <=> Live(m)
    BY <2>1 DEF Shrinks, Live
  <2>4. jobState[l[1]] \notin Placeable \cup {"ABSENT", "FAILED"}
    BY <2>1 DEF IInv, WaitingHoldsNothing, LiveOf
  <2>5. /\ jobState'[l[1]] \notin Placeable \cup {"ABSENT", "FAILED"}
        /\ jobState'[l[1]] = "SCHEDULED" => jobState[l[1]] = "SCHEDULED"
        /\ jobState'[l[1]] \in Reassignable => jobState[l[1]] \in Reassignable
    BY <2>2, <2>4 DEF Placeable, Reassignable, Working
  <2>6. l[1] \notin pass.jobs
    BY <2>4 DEF IInv, SnapshotStillFree
  <2> QED BY <2>1, <2>2, <2>3, <2>5, <2>6, ReadsStayOwn, ShrinkOneJob
<1>11. ASSUME NEW l \in LeaseId, CompleteLease(l) PROVE IInv'
  <2>1. /\ UNCHANGED <<jobEpoch, leaseNode, cancelSeen, pass>>
        /\ l[1] \in Jobs /\ Live(l) /\ Current(l) /\ leaseState[l] = "ACTIVE"
    BY <1>11, LeaseIdParts DEF CompleteLease, Fenced, Live, LiveStates
  <2>2. /\ jobState'[l[1]] = IF jobState[l[1]] \in Working THEN "COMPLETED" ELSE jobState[l[1]]
        /\ \A j \in Jobs \ {l[1]} : jobState'[j] = jobState[j]
        /\ leaseState'[l] = "COMPLETED"
        /\ \A m \in LeaseId : m # l => leaseState'[m] = leaseState[m]
    BY <1>11, <2>1 DEF CompleteLease, TypeOK
  <2>3. Shrinks
    BY <2>1, <2>2 DEF Shrinks, Live, LiveStates
  <2>4. jobState[l[1]] \notin Placeable \cup {"ABSENT", "FAILED", "SCHEDULED"}
    <3>1. jobState[l[1]] \notin Placeable \cup {"ABSENT", "FAILED"}
      BY <2>1 DEF IInv, WaitingHoldsNothing, LiveOf
    <3>2. jobState[l[1]] # "SCHEDULED"
      BY <2>1, ScheduledIsUnclaimed
    <3> QED BY <3>1, <3>2
  <2>5. jobState'[l[1]] \notin Placeable \cup {"ABSENT", "FAILED"} \cup Reassignable
    BY <2>2, <2>4 DEF Placeable, Reassignable, Working
  <2>6. l[1] \notin pass.jobs
    BY <2>4 DEF IInv, SnapshotStillFree
  <2> QED BY <2>1, <2>2, <2>3, <2>5, <2>6, ReadsStayOwn, ShrinkOneJob
<1>12. ASSUME NEW l \in LeaseId, FailLease(l) PROVE IInv'
  <2> DEFINE j == l[1]
             ends == jobState[j] \in Working
  <2>1. /\ UNCHANGED <<jobEpoch, leaseNode, cancelSeen, pass>>
        /\ j \in Jobs /\ Live(l) /\ Current(l)
    BY <1>12, LeaseIdParts DEF FailLease, Fenced, Live, LiveStates
  <2>2. leaseState' = [m \in LeaseId |->
          CASE m = l -> "FAILED"
            [] ends /\ m \in Siblings({j}, {l}) -> "RELEASED"
            [] OTHER -> leaseState[m]]
    BY <1>12 DEF FailLease
  <2>3. \A i \in Jobs \ {j} : jobState'[i] = jobState[i]
    BY <1>12 DEF FailLease, TypeOK
  <2>4. \A m \in LeaseId : m[1] # j => leaseState'[m] = leaseState[m]
    BY <2>2 DEF Siblings
  <2>5. Shrinks
    BY <2>1, <2>2 DEF Shrinks, Live, LiveStates
  <2>6. jobState[j] \notin Placeable \cup {"ABSENT", "FAILED"}
    BY <2>1 DEF IInv, WaitingHoldsNothing, LiveOf
  <2>7. j \notin pass.jobs
    BY <2>6 DEF IInv, SnapshotStillFree
  <2>8. CASE ends
    <3>1. jobState'[j] \in {"REASSIGNED", "FAILED"}
      BY <1>12, <2>1, <2>8 DEF FailLease, TypeOK
    <3>2. \A m \in LeaseId : m[1] = j => ~Live(m)'
      <4> SUFFICES ASSUME NEW m \in LeaseId, m[1] = j PROVE leaseState'[m] \notin LiveStates
        BY DEF Live
      <4>1. CASE m = l
        BY <2>2, <4>1 DEF LiveStates
      <4>2. CASE m # l /\ Live(m)
        <5>1. m \in Siblings({j}, {l})
          BY <4>2 DEF Siblings, IInv, LiveIsCurrent
        <5> QED BY <2>2, <2>8, <4>2, <5>1 DEF LiveStates
      <4>3. CASE m # l /\ ~Live(m)
        BY <2>2, <4>3 DEF Siblings, Live, LiveStates
      <4> QED BY <4>1, <4>2, <4>3
    <3> HIDE DEF ends
    <3> QED BY <2>1, <2>3, <2>4, <2>5, <2>7, <3>1, <3>2, ReadsStayOwn, ShrinkOneJob DEF Reassignable
  <2>9. CASE ~ends
    <3>1. jobState' = jobState
      BY <1>12, <2>9 DEF FailLease
    <3>2. jobState[j] # "SCHEDULED"
      BY <1>12, ScheduledIsUnclaimed DEF FailLease, Fenced
    <3>3. jobState'[j] \notin Placeable \cup {"ABSENT", "FAILED"} \cup Reassignable
      BY <2>6, <2>9, <3>1, <3>2 DEF Reassignable, Working
    <3> HIDE DEF ends
    <3> QED BY <2>1, <2>3, <2>4, <2>5, <2>7, <3>3, ReadsStayOwn, ShrinkOneJob
  <2> QED BY <2>8, <2>9
<1>13. ASSUME NEW l \in LeaseId, TtlPasses(l) PROVE IInv'
  BY <1>4, <1>13 DEF TtlPasses
<1>14. ASSUME NEW skipped \in SUBSET Lapsed, SweepExpiredLeases(skipped) PROVE IInv'
  <2> DEFINE due == Lapsed \ skipped
             expired == {l \in due : leaseState[l] = "ACTIVE"}
             lapsed == {l \in due : leaseState[l] = "PENDING"}
  <2>1. /\ expired \in SUBSET LeaseId /\ lapsed \in SUBSET LeaseId
        /\ \A l \in expired \cup lapsed : Live(l)
        /\ ReassignJobAttempts(expired, lapsed)
        /\ UNCHANGED <<leaseNode, jobEpoch, cancelSeen, pass>>
    BY <1>14 DEF SweepExpiredLeases, Lapsed, TypeOK
  <2> HIDE DEF due, expired, lapsed
  <2> QED BY <2>1, ReassignPreserves
<1>15. ASSUME NEW j \in Jobs, CancelLoad(j) PROVE IInv'
  BY <1>4, <1>15 DEF CancelLoad
<1>16. ASSUME NEW j \in Jobs, CancelRead(j) PROVE IInv'
  <2>1. UNCHANGED <<jobVars, leaseVars, pass>>
    BY <1>16 DEF CancelRead
  <2>2. CancelReadsOwnRows'
    BY <1>16 DEF CancelRead, IInv, CancelReadsOwnRows, LiveOf, TypeOK
  <2>3. /\ LiveIsCurrent' /\ WaitingHoldsNothing' /\ CohortIsLive' /\ OneSlotPerNode'
        /\ LiveIsARank' /\ AttemptMinted' /\ SnapshotStillFree'
    BY <2>1 DEF IInv, LiveIsCurrent, WaitingHoldsNothing, CohortIsLive, OneSlotPerNode, LiveIsARank,
                AttemptMinted, SnapshotStillFree, Busy, HeldBy, Live, LiveOf, Current
  <2> QED BY <2>2, <2>3 DEF IInv
<1>17. ASSUME NEW j \in Jobs, CancelCommit(j) PROVE IInv'
  <2>1. UNCHANGED <<jobEpoch, leaseNode, pass>> /\ j \notin pass.jobs
    BY <1>17 DEF CancelCommit
  <2>2. /\ jobState'[j] = "CANCELLED"
        /\ \A i \in Jobs \ {j} : jobState'[i] = jobState[i]
    BY <1>17 DEF CancelCommit, TypeOK
  <2>3. /\ \A l \in LeaseId : leaseState'[l] = leaseState[l] \/ leaseState'[l] = "RELEASED"
        /\ \A l \in LeaseId : l[1] # j => leaseState'[l] = leaseState[l]
    BY <1>17 DEF CancelCommit, IInv, CancelReadsOwnRows
  <2>4. Shrinks
    BY <2>1, <2>3 DEF Shrinks, Live, LiveStates
  <2>5. CancelReadsOwnRows'
    BY <1>17 DEF CancelCommit, IInv, CancelReadsOwnRows, TypeOK
  <2> QED BY <2>1, <2>2, <2>3, <2>4, <2>5, ShrinkOneJob DEF Reassignable, Placeable
<1>18. CASE UNCHANGED vars
  BY <1>4, <1>18 DEF vars
<1> QED BY <1>1, <1>2, <1>3, <1>5, <1>6, <1>7, <1>8, <1>9, <1>10, <1>11, <1>12, <1>13, <1>14,
           <1>15, <1>16, <1>17, <1>18 DEF Next

-----------------------------------------------------------------------------
(* Every reachable state is well typed and satisfies the inductive         *)
(* invariant, for any fleet, any jobs and any bounds.                      *)
THEOREM Invariance == Spec => [](TypeOK /\ IInv)
<1>1. Init => TypeOK /\ IInv
  BY InitTyped, InitInvariant
<1>2. (TypeOK /\ IInv) /\ [Next]_vars => (TypeOK /\ IInv)'
  BY StepTyped, StepPreserves
<1> QED BY <1>1, <1>2, PTL DEF Spec

(* The types the database columns promise hold in every reachable state.   *)
THEOREM TypeCorrect == Spec => []TypeOK
BY Invariance, PTL

(* leases.py, the epoch fence and the tear-downs: whatever happens, the     *)
(* leases that can still act belong to their job's current attempt.         *)
THEOREM NoZombieLease == Spec => []LiveIsCurrent
<1>1. IInv => LiveIsCurrent
  BY DEF IInv
<1> QED BY <1>1, Invariance, PTL

(* A job waiting for placement, or given up, holds no node.                 *)
THEOREM WaitingJobsAreFree == Spec => []WaitingHoldsNothing
<1>1. IInv => WaitingHoldsNothing
  BY DEF IInv
<1> QED BY <1>1, Invariance, PTL

(* One job per node, although the scheduler decides on a snapshot.          *)
THEOREM OneJobPerNode == Spec => []OneSlotPerNode
<1>1. IInv => OneSlotPerNode
  BY DEF IInv
<1> QED BY <1>1, Invariance, PTL

-----------------------------------------------------------------------------
(* The refinement of FencedAttempts.                                        *)
Holders(j) == {leaseNode[l] : l \in LiveOf(j)}

(* One slot per node makes the holders of different jobs disjoint.          *)
LEMMA HoldersExclusive == OneSlotPerNode => Attempts!Exclusive
<1> SUFFICES ASSUME OneSlotPerNode, NEW i \in Jobs, NEW j \in Jobs, i # j,
                    NEW n \in Holders(i), n \in Holders(j)
             PROVE  FALSE
  BY DEF Attempts!Exclusive, Holders
<1>1. PICK l \in LiveOf(i) : leaseNode[l] = n
  BY DEF Holders
<1>2. PICK m \in LiveOf(j) : leaseNode[m] = n
  BY DEF Holders
<1> QED BY <1>1, <1>2 DEF OneSlotPerNode, LiveOf

LEMMA ExclusiveNext == IInv' => Attempts!Exclusive'
<1>1. IInv => Attempts!Exclusive
  BY HoldersExclusive DEF IInv
<1> QED BY <1>1, PTL

LEMMA ShrinkLeaves ==
  ASSUME IInv, Shrinks, NEW j \in Jobs
  PROVE  Attempts!Leave(j)
<1>1. LiveOf(j)' \subseteq LiveOf(j) /\ leaseNode' = leaseNode /\ jobEpoch' = jobEpoch
  BY ShrinkKeeps DEF Shrinks
<1> QED BY <1>1 DEF Attempts!Leave

LEMMA CommitGrants ==
  ASSUME TypeOK, IInv, IInv', SchedulerPassCommit, NEW j \in Jobs
  PROVE  Attempts!Leave(j) \/ Attempts!Grant(j)
<1>1. PICK plan \in Plans :
        /\ LegalPlan(plan)
        /\ jobEpoch' = [i \in Jobs |-> IF i \in DOMAIN plan THEN Mint(i) ELSE jobEpoch[i]]
        /\ leaseState' = [l \in LeaseId |-> IF l \in Placed(plan) THEN "PENDING" ELSE leaseState[l]]
        /\ leaseNode' = [l \in LeaseId |-> IF l \in Placed(plan) THEN plan[l[1]][l[3]] ELSE leaseNode[l]]
  BY DEF SchedulerPassCommit
<1>2. PassIsReady
  BY DEF IInv, PassIsReady, SchedulerPassCommit
<1>3. CASE j \in DOMAIN plan
  <2>1. Mint(j) = jobEpoch[j] + 1 /\ jobState[j] \in Placeable
    BY <1>1, <1>2, <1>3, PlanIsPlacement
  <2>2. LiveOf(j) = {}
    BY <2>1 DEF IInv, WaitingHoldsNothing
  <2>3. \A l \in LiveOf(j)' : leaseNode'[l] \in Nodes
    BY DEF IInv, LiveIsARank, LiveOf
  <2> QED BY <1>1, <1>3, <2>1, <2>2, <2>3 DEF Attempts!Grant
<1>4. CASE j \notin DOMAIN plan
  <2>1. \A l \in LeaseId : l[1] = j => leaseState'[l] = leaseState[l] /\ leaseNode'[l] = leaseNode[l]
    BY <1>1, <1>4 DEF Placed
  <2>2. LiveOf(j)' = LiveOf(j)
    BY <2>1 DEF LiveOf, Live
  <2>3. {leaseNode'[l] : l \in LiveOf(j)'} = {leaseNode[l] : l \in LiveOf(j)}
    BY <2>1, <2>2 DEF LiveOf
  <2>4. jobEpoch'[j] = jobEpoch[j]
    BY <1>1, <1>4
  <2> QED BY <2>3, <2>4 DEF Attempts!Leave
<1> QED BY <1>3, <1>4

(* Everything but a commit shrinks. *)
LEMMA OthersShrink ==
  ASSUME TypeOK, IInv, [Next]_vars
  PROVE  SchedulerPassCommit \/ Shrinks
<1> USE DEF jobVars, leaseVars, nodeVars, cancelVars, Shrinks
<1> SUFFICES ASSUME ~SchedulerPassCommit PROVE Shrinks
  OBVIOUS
<1>1. ASSUME UNCHANGED <<leaseState, leaseNode, jobEpoch>> PROVE Shrinks
  BY <1>1 DEF Live
<1>2. ASSUME NEW j \in Jobs, CreateJob(j) \/ CancelLoad(j) \/ CancelRead(j) PROVE Shrinks
  BY <1>1, <1>2 DEF CreateJob, CancelLoad, CancelRead
<1>3. ASSUME NEW j \in Jobs, CancelCommit(j) PROVE Shrinks
  BY <1>3 DEF CancelCommit, Live, LiveStates
<1>4. ASSUME NEW stale \in SUBSET Nodes, NEW skipped \in SUBSET Jobs,
             SchedulerPassBegin(stale, skipped)
      PROVE  Shrinks
  BY <1>1, <1>4 DEF SchedulerPassBegin
<1>5. ASSUME SchedulerPassAbort \/ ReadBusyNodes PROVE Shrinks
  BY <1>1, <1>5 DEF SchedulerPassAbort, ReadBusyNodes
<1>6. ASSUME NEW n \in Nodes, ClaimJobForNode(n) PROVE Shrinks
  BY <1>6 DEF ClaimJobForNode, HeldBy, Live, LiveStates, TypeOK
<1>7. ASSUME NEW n \in Nodes, RecordHeartbeat(n) \/ BackoffPasses(n) PROVE Shrinks
  BY <1>1, <1>7 DEF RecordHeartbeat, BackoffPasses
<1>8. ASSUME NEW expired, NEW lapsed, ReassignJobAttempts(expired, lapsed),
             \A l \in expired \cup lapsed : Live(l), UNCHANGED <<leaseNode, jobEpoch>>
      PROVE  Shrinks
  BY <1>8 DEF ReassignJobAttempts, Siblings, Live, LiveStates
<1>9. ASSUME NEW n \in Nodes, DeclareNodeFailed(n) PROVE Shrinks
  BY <1>8, <1>9 DEF DeclareNodeFailed, HeldBy
<1>10. ASSUME NEW skipped \in SUBSET Lapsed, SweepExpiredLeases(skipped) PROVE Shrinks
  BY <1>8, <1>10 DEF SweepExpiredLeases, Lapsed
<1>11. ASSUME NEW l \in LeaseId, RenewLease(l) \/ TtlPasses(l) PROVE Shrinks
  BY <1>1, <1>11 DEF RenewLease, TtlPasses
<1>12. ASSUME NEW l \in LeaseId, CompleteLease(l) PROVE Shrinks
  BY <1>12 DEF CompleteLease, Live, LiveStates, TypeOK
<1>13. ASSUME NEW l \in LeaseId, FailLease(l) PROVE Shrinks
  BY <1>13 DEF FailLease, Live, LiveStates
<1>14. CASE UNCHANGED vars
  BY <1>1, <1>14 DEF vars
<1> QED BY <1>2, <1>3, <1>4, <1>5, <1>6, <1>7, <1>9, <1>10, <1>11, <1>12, <1>13, <1>14 DEF Next

(* The lease machinery implements fenced, exclusive attempts: the tokens of *)
(* a job only grow, a grant finds nobody holding the job, and no node ever  *)
(* holds two jobs.                                                          *)
THEOREM LeasesImplementFencedAttempts == Spec => ImplementsFencedAttempts
<1>1. Init => Attempts!Init
  BY DEF Init, Attempts!Init, LiveOf, Live, LiveStates
<1>2. TypeOK /\ IInv /\ IInv' /\ [Next]_vars => Attempts!Next
  <2> SUFFICES ASSUME TypeOK, IInv, IInv', [Next]_vars PROVE Attempts!Next
    OBVIOUS
  <2>1. \A j \in Jobs : Attempts!Leave(j) \/ Attempts!Grant(j)
    BY OthersShrink, ShrinkLeaves, CommitGrants
  <2> QED BY <2>1, ExclusiveNext DEF Attempts!Next
<1> QED BY <1>1, <1>2, Invariance, PTL DEF Spec, ImplementsFencedAttempts, Attempts!Spec

-----------------------------------------------------------------------------
(* What a step that is no commit does to a job: it leaves it, moves it on,  *)
(* tears its attempt down, or counts a failure of it.                       *)

JobGoesOn(j) ==
  /\ rendezvous'[j] = rendezvous[j] /\ attempts'[j] = attempts[j]
  /\ \/ jobState'[j] = jobState[j]
     \/ jobState[j] = "ABSENT" /\ jobState'[j] = "QUEUED"
     \/ jobState[j] \in Reassignable /\ jobState'[j] \in Working \cup {"COMPLETED"}
     \/ cancelStep[j] = "read" /\ jobState'[j] = "CANCELLED"

JobTornDown(j) ==
  /\ jobState[j] \in Reassignable /\ jobState'[j] = "REASSIGNED"
  /\ rendezvous'[j] = NoNode /\ attempts'[j] = attempts[j]

JobFailsOnce(j) ==
  /\ jobState[j] \in Working /\ rendezvous'[j] = NoNode /\ attempts'[j] = attempts[j] + 1
  /\ jobState'[j] = IF MayRetry(j) THEN "REASSIGNED" ELSE "FAILED"

JobMoves(j) == JobGoesOn(j) \/ JobTornDown(j) \/ JobFailsOnce(j)

LEMMA StepMovesJobs ==
  ASSUME TypeOK, [Next]_vars, ~SchedulerPassCommit
  PROVE  /\ UNCHANGED <<jobEpoch, leaseNode>>
         /\ \A j \in Jobs : JobMoves(j)
<1> USE DEF jobVars, leaseVars, nodeVars, cancelVars, JobMoves
<1> DEFINE Goal == /\ UNCHANGED <<jobEpoch, leaseNode>>
                   /\ \A j \in Jobs : JobMoves(j)
<1> SUFFICES Goal
  OBVIOUS
<1>1. ASSUME UNCHANGED <<jobVars, leaseNode>> PROVE Goal
  BY <1>1 DEF JobGoesOn
<1>2. ASSUME NEW i \in Jobs, CreateJob(i) \/ CancelLoad(i) \/ CancelRead(i) \/ CancelCommit(i)
      PROVE  Goal
  <2>1. CASE CreateJob(i)
    BY <2>1 DEF CreateJob, JobGoesOn, TypeOK
  <2>2. CASE CancelLoad(i) \/ CancelRead(i)
    BY <1>1, <2>2 DEF CancelLoad, CancelRead
  <2>3. CASE CancelCommit(i)
    BY <2>3 DEF CancelCommit, JobGoesOn, TypeOK
  <2> QED BY <1>2, <2>1, <2>2, <2>3
<1>3. ASSUME NEW stale \in SUBSET Nodes, NEW skipped \in SUBSET Jobs,
             SchedulerPassBegin(stale, skipped)
      PROVE  Goal
  BY <1>1, <1>3 DEF SchedulerPassBegin
<1>4. ASSUME SchedulerPassAbort \/ ReadBusyNodes PROVE Goal
  BY <1>1, <1>4 DEF SchedulerPassAbort, ReadBusyNodes
<1>5. ASSUME NEW n \in Nodes, ClaimJobForNode(n) PROVE Goal
  <2>1. PICK l \in HeldBy(n) :
          /\ jobState' = [jobState EXCEPT ![l[1]] = IF @ = "SCHEDULED" THEN "LEASED" ELSE @]
          /\ UNCHANGED <<jobEpoch, attempts, rendezvous, leaseNode>>
    BY <1>5 DEF ClaimJobForNode
  <2>2. l[1] \in Jobs
    BY LeaseIdParts DEF HeldBy
  <2> QED BY <2>1, <2>2 DEF JobGoesOn, TypeOK, Reassignable, Working
<1>6. ASSUME NEW n \in Nodes, RecordHeartbeat(n) \/ BackoffPasses(n) PROVE Goal
  BY <1>1, <1>6 DEF RecordHeartbeat, BackoffPasses
<1>7. ASSUME NEW expired, NEW lapsed, ReassignJobAttempts(expired, lapsed),
             UNCHANGED <<jobEpoch, attempts, leaseNode>>
      PROVE  Goal
  <2> DEFINE moved == {j \in {l[1] : l \in {m \in expired \cup lapsed : Current(m)}} :
                         jobState[j] \in Reassignable}
  <2>1. /\ jobState' = [j \in Jobs |-> IF j \in moved THEN "REASSIGNED" ELSE jobState[j]]
        /\ rendezvous' = [j \in Jobs |-> IF j \in moved THEN NoNode ELSE rendezvous[j]]
    BY <1>7 DEF ReassignJobAttempts
  <2>2. \A j \in moved : jobState[j] \in Reassignable
    OBVIOUS
  <2> HIDE DEF moved
  <2>3. ASSUME NEW j \in Jobs PROVE JobMoves(j)
    <3>1. CASE j \in moved
      BY <1>7, <2>1, <2>2, <3>1 DEF JobTornDown
    <3>2. CASE j \notin moved
      BY <1>7, <2>1, <3>2 DEF JobGoesOn
    <3> QED BY <3>1, <3>2
  <2> QED BY <1>7, <2>3
<1>8. ASSUME NEW n \in Nodes, DeclareNodeFailed(n) PROVE Goal
  BY <1>7, <1>8 DEF DeclareNodeFailed
<1>9. ASSUME NEW skipped \in SUBSET Lapsed, SweepExpiredLeases(skipped) PROVE Goal
  BY <1>7, <1>9 DEF SweepExpiredLeases
<1>10. ASSUME NEW l \in LeaseId, TtlPasses(l) PROVE Goal
  BY <1>1, <1>10 DEF TtlPasses
<1>11. ASSUME NEW l \in LeaseId, RenewLease(l) \/ CompleteLease(l) PROVE Goal
  <2>1. l[1] \in Jobs
    BY LeaseIdParts
  <2>2. CASE RenewLease(l)
    BY <2>1, <2>2 DEF RenewLease, JobGoesOn, TypeOK, Reassignable, Working
  <2>3. CASE CompleteLease(l)
    BY <2>1, <2>3 DEF CompleteLease, JobGoesOn, TypeOK, Reassignable, Working
  <2> QED BY <1>11, <2>2, <2>3
<1>12. ASSUME NEW l \in LeaseId, FailLease(l) PROVE Goal
  <2>1. l[1] \in Jobs /\ UNCHANGED <<jobEpoch, leaseNode>>
    BY <1>12, LeaseIdParts DEF FailLease
  <2>2. CASE jobState[l[1]] \in Working
    <3>1. /\ attempts' = [attempts EXCEPT ![l[1]] = @ + 1]
          /\ jobState' = [jobState EXCEPT ![l[1]] = IF MayRetry(l[1]) THEN "REASSIGNED" ELSE "FAILED"]
          /\ rendezvous' = [rendezvous EXCEPT ![l[1]] = NoNode]
      BY <1>12, <2>2 DEF FailLease
    <3>2. JobFailsOnce(l[1])
      BY <2>1, <2>2, <3>1 DEF JobFailsOnce, TypeOK
    <3>3. \A j \in Jobs \ {l[1]} : JobGoesOn(j)
      BY <2>1, <3>1 DEF JobGoesOn, TypeOK
    <3> QED BY <2>1, <3>2, <3>3
  <2>3. CASE jobState[l[1]] \notin Working
    <3>1. UNCHANGED <<attempts, jobState, rendezvous>>
      BY <1>12, <2>3 DEF FailLease
    <3> QED BY <2>1, <3>1 DEF JobGoesOn
  <2> QED BY <2>2, <2>3
<1>13. CASE UNCHANGED vars
  BY <1>1, <1>13 DEF vars
<1> QED BY <1>2, <1>3, <1>4, <1>5, <1>6, <1>8, <1>9, <1>10, <1>11, <1>12, <1>13 DEF Next

(* A job nobody submitted has no host either. *)
RendezvousInv ==
  RendezvousIsRankZero /\ \A j \in Jobs : jobState[j] = "ABSENT" => rendezvous[j] = NoNode

LEMMA CommitNamesHost ==
  ASSUME TypeOK, IInv, RendezvousInv, SchedulerPassCommit
  PROVE  RendezvousInv'
<1>1. PICK plan \in Plans :
        /\ LegalPlan(plan)
        /\ jobState' = [j \in Jobs |-> IF j \in DOMAIN plan THEN "SCHEDULED" ELSE jobState[j]]
        /\ jobEpoch' = [j \in Jobs |-> IF j \in DOMAIN plan THEN Mint(j) ELSE jobEpoch[j]]
        /\ rendezvous' = [j \in Jobs |-> IF j \in DOMAIN plan THEN RendezvousHost(plan[j]) ELSE rendezvous[j]]
        /\ leaseNode' = [l \in LeaseId |-> IF l \in Placed(plan) THEN plan[l[1]][l[3]] ELSE leaseNode[l]]
  BY DEF SchedulerPassCommit
<1>2. PassIsReady
  BY DEF IInv, PassIsReady, SchedulerPassCommit
<1>3. ASSUME NEW j \in Jobs, jobState'[j] \in Reassignable
      PROVE  rendezvous'[j] = leaseNode'[<<j, jobEpoch'[j], 0>>]
  <2>0. 0 \in 0 .. WorldSize[j] - 1 /\ WorldSize[j] > 0
    BY ConstantsAssumption
  <2>1. CASE j \in DOMAIN plan
    <3>1. Mint(j) \in 1 .. MaxEpoch /\ jobEpoch'[j] = Mint(j)
      BY <1>1, <1>2, <2>1, PlanIsPlacement
    <3>2. PICK l \in LeaseId : l = <<j, Mint(j), 0>> /\ l[1] = j /\ l[2] = Mint(j) /\ l[3] = 0
      BY <2>0, <3>1, LeaseIdOfRank
    <3>3. l \in Placed(plan)
      BY <2>0, <2>1, <3>2 DEF Placed
    <3> QED BY <1>1, <2>1, <3>1, <3>2, <3>3 DEF RendezvousHost
  <2>2. CASE j \notin DOMAIN plan
    <3>1. jobState'[j] = jobState[j] /\ jobEpoch'[j] = jobEpoch[j] /\ rendezvous'[j] = rendezvous[j]
      BY <1>1, <2>2
    <3>2. jobEpoch[j] \in 1 .. MaxEpoch
      BY <1>3, <3>1 DEF TypeOK, IInv, AttemptMinted
    <3>3. PICK l \in LeaseId : l = <<j, jobEpoch[j], 0>> /\ l[1] = j
      BY <2>0, <3>2, LeaseIdOfRank
    <3>4. leaseNode'[l] = leaseNode[l]
      BY <1>1, <2>2, <3>3 DEF Placed
    <3> QED BY <1>3, <3>1, <3>3, <3>4 DEF RendezvousInv, RendezvousIsRankZero
  <2> QED BY <2>1, <2>2
<1>4. ASSUME NEW j \in Jobs, jobState'[j] \in Placeable \cup {"FAILED", "ABSENT"}
      PROVE  rendezvous'[j] = NoNode
  <2>1. j \notin DOMAIN plan
    BY <1>1, <1>4 DEF Placeable
  <2> QED BY <1>1, <1>4, <2>1 DEF RendezvousInv, RendezvousIsRankZero
<1> QED BY <1>3, <1>4 DEF RendezvousInv, RendezvousIsRankZero

LEMMA OthersKeepHost ==
  ASSUME TypeOK, RendezvousInv, [Next]_vars, ~SchedulerPassCommit
  PROVE  RendezvousInv'
<1>1. UNCHANGED <<jobEpoch, leaseNode>>
  BY StepMovesJobs
<1>2. ASSUME NEW j \in Jobs
      PROVE  /\ jobState'[j] \in Reassignable => rendezvous'[j] = leaseNode'[<<j, jobEpoch'[j], 0>>]
             /\ jobState'[j] \in Placeable \cup {"FAILED", "ABSENT"} => rendezvous'[j] = NoNode
  <2>1. JobMoves(j)
    BY StepMovesJobs
  <2>2. CASE JobGoesOn(j)
    BY <1>1, <2>2 DEF JobGoesOn, RendezvousInv, RendezvousIsRankZero, Reassignable, Placeable, Working
  <2>3. CASE JobTornDown(j)
    BY <2>3 DEF JobTornDown, Reassignable
  <2>4. CASE JobFailsOnce(j)
    BY <2>4 DEF JobFailsOnce, Reassignable
  <2> QED BY <2>1, <2>2, <2>3, <2>4 DEF JobMoves
<1> QED BY <1>2 DEF RendezvousInv, RendezvousIsRankZero

(* A job being attempted names the node of its rank 0 as the rendezvous     *)
(* host, and a job between attempts names none (place_job_cohort and every  *)
(* path that ends an attempt).                                              *)
THEOREM HostIsRankZero == Spec => []RendezvousIsRankZero
<1>1. Init => RendezvousInv
  BY DEF Init, RendezvousInv, RendezvousIsRankZero, Reassignable
<1>2. TypeOK /\ IInv /\ RendezvousInv /\ [Next]_vars => RendezvousInv'
  BY CommitNamesHost, OthersKeepHost
<1>3. RendezvousInv => RendezvousIsRankZero
  BY DEF RendezvousInv
<1> QED BY <1>1, <1>2, <1>3, Invariance, PTL DEF Spec

(* An attempt under way has its whole cohort, and dials its own rank 0      *)
(* (place_job_cohort and the tear-down paths).                              *)
THEOREM CohortsStayWhole == Spec => []IntactCohort
<1>1. IInv => CohortIsLive
  BY DEF IInv
<1>2. CohortIsLive /\ RendezvousIsRankZero => IntactCohort
  BY DEF IntactCohort
<1> QED BY <1>1, <1>2, Invariance, HostIsRankZero, PTL

-----------------------------------------------------------------------------
(* An attempt under way has not been counted yet. *)
BudgetInv ==
  RetryBudget /\ \A j \in Jobs : jobState[j] \in Reassignable => attempts[j] < jobEpoch[j]

LEMMA CommitKeepsBudget ==
  ASSUME TypeOK, IInv, BudgetInv, SchedulerPassCommit
  PROVE  BudgetInv'
<1>1. PICK plan \in Plans :
        /\ LegalPlan(plan)
        /\ jobState' = [j \in Jobs |-> IF j \in DOMAIN plan THEN "SCHEDULED" ELSE jobState[j]]
        /\ jobEpoch' = [j \in Jobs |-> IF j \in DOMAIN plan THEN Mint(j) ELSE jobEpoch[j]]
        /\ UNCHANGED attempts
  BY DEF SchedulerPassCommit
<1>2. PassIsReady
  BY DEF IInv, PassIsReady, SchedulerPassCommit
<1>3. ASSUME NEW j \in Jobs
      PROVE  /\ attempts'[j] <= jobEpoch'[j]
             /\ jobState'[j] = "FAILED" => attempts'[j] = MaxRetries + 1
             /\ jobState'[j] \notin {"FAILED", "CANCELLED"} => attempts'[j] <= MaxRetries
             /\ jobState'[j] \in Reassignable => attempts'[j] < jobEpoch'[j]
  <2>1. CASE j \in DOMAIN plan
    <3>1. jobState[j] \in Placeable /\ jobEpoch'[j] = jobEpoch[j] + 1 /\ jobState'[j] = "SCHEDULED"
      BY <1>1, <1>2, <2>1, PlanIsPlacement
    <3>2. attempts[j] <= jobEpoch[j] /\ attempts[j] <= MaxRetries
      BY <3>1 DEF BudgetInv, RetryBudget, Placeable
    <3>3. attempts[j] \in Nat /\ jobEpoch[j] \in Nat
      BY DEF TypeOK
    <3> QED BY <1>1, <3>1, <3>2, <3>3
  <2>2. CASE j \notin DOMAIN plan
    BY <1>1, <2>2 DEF BudgetInv, RetryBudget
  <2> QED BY <2>1, <2>2
<1> QED BY <1>3 DEF BudgetInv, RetryBudget

LEMMA OthersKeepBudget ==
  ASSUME TypeOK, BudgetInv, [Next]_vars, ~SchedulerPassCommit
  PROVE  BudgetInv'
<1>1. UNCHANGED jobEpoch
  BY StepMovesJobs
<1>2. ASSUME NEW j \in Jobs
      PROVE  /\ attempts'[j] <= jobEpoch'[j]
             /\ jobState'[j] = "FAILED" => attempts'[j] = MaxRetries + 1
             /\ jobState'[j] \notin {"FAILED", "CANCELLED"} => attempts'[j] <= MaxRetries
             /\ jobState'[j] \in Reassignable => attempts'[j] < jobEpoch'[j]
  <2>1. JobMoves(j)
    BY StepMovesJobs
  <2>2. /\ attempts[j] \in Nat /\ jobEpoch[j] \in Nat /\ MaxRetries \in Nat
        /\ attempts[j] <= jobEpoch[j]
        /\ jobState[j] = "FAILED" => attempts[j] = MaxRetries + 1
        /\ jobState[j] \notin {"FAILED", "CANCELLED"} => attempts[j] <= MaxRetries
        /\ jobState[j] \in Reassignable => attempts[j] < jobEpoch[j]
    BY ConstantsAssumption DEF TypeOK, BudgetInv, RetryBudget
  <2>3. CASE JobGoesOn(j)
    BY <1>1, <2>2, <2>3 DEF JobGoesOn, Reassignable, Working
  <2>4. CASE JobTornDown(j)
    BY <1>1, <2>2, <2>4 DEF JobTornDown, Reassignable
  <2>5. CASE JobFailsOnce(j)
    BY <1>1, <2>2, <2>5 DEF JobFailsOnce, MayRetry, Reassignable, Working
  <2> QED BY <2>1, <2>3, <2>4, <2>5 DEF JobMoves
<1> QED BY <1>2 DEF BudgetInv, RetryBudget

(* Failures are counted once for an attempt, and the job is given up with   *)
(* the one that exceeds the retries (fail_lease): whatever races, no        *)
(* attempt is counted twice and none that may be retried ends the job.      *)
THEOREM RetriesAreBudgeted == Spec => []RetryBudget
<1>1. Init => BudgetInv
  BY ConstantsAssumption DEF Init, BudgetInv, RetryBudget, Reassignable
<1>2. TypeOK /\ IInv /\ BudgetInv /\ [Next]_vars => BudgetInv'
  BY CommitKeepsBudget, OthersKeepBudget
<1>3. BudgetInv => RetryBudget
  BY DEF BudgetInv
<1> QED BY <1>1, <1>2, <1>3, Invariance, PTL DEF Spec
-----------------------------------------------------------------------------
(* The books.  A step settles some live leases F as failed, each for a      *)
(* reason, and charges exactly those to their nodes; it settles some live   *)
(* leases C as completed, and credits exactly those.                        *)
Faulty == {"FAILED", "EXPIRED"}

OfNode(L, n) == {l \in L : leaseNode[l] = n}

Charges(F) ==
  /\ \A l \in F :
       /\ Live(l) /\ leaseState'[l] \in Faulty
       /\ \/ leaseState[l] = "ACTIVE"
          \/ nodeStatus[leaseNode[l]] = "ONLINE" /\ nodeStatus'[leaseNode[l]] = "OFFLINE"
  /\ \A l \in LeaseId \ F : leaseState'[l] \in Faulty => leaseState'[l] = leaseState[l]
  /\ failures' = [n \in Nodes |-> failures[n] + Cardinality(OfNode(F, n))]

Credits(C) ==
  /\ \A l \in C : Live(l) /\ leaseState'[l] = "COMPLETED"
  /\ \A l \in LeaseId \ C : leaseState'[l] = "COMPLETED" => leaseState'[l] = leaseState[l]
  /\ successes' = [n \in Nodes |-> successes[n] + Cardinality(OfNode(C, n))]

LEMMA OfNobody ==
  ASSUME NEW count \in [Nodes -> Nat]
  PROVE  count = [n \in Nodes |-> count[n] + Cardinality(OfNode({}, n))]
<1>1. \A n \in Nodes : OfNode({}, n) = {}
  BY DEF OfNode
<1>2. Cardinality({}) = 0
  BY FS_EmptySet
<1> QED BY <1>1, <1>2

LEMMA OfOneLease ==
  ASSUME NEW count \in [Nodes -> Nat], NEW l \in LeaseId, leaseNode[l] \in Nodes
  PROVE  [count EXCEPT ![leaseNode[l]] = @ + 1] =
           [n \in Nodes |-> count[n] + Cardinality(OfNode({l}, n))]
<1>1. \A n \in Nodes : OfNode({l}, n) = IF leaseNode[l] = n THEN {l} ELSE {}
  BY DEF OfNode
<1>2. Cardinality({}) = 0 /\ Cardinality({l}) = 1
  BY FS_EmptySet, FS_Singleton
<1>3. \A n \in Nodes : Cardinality(OfNode({l}, n)) = IF leaseNode[l] = n THEN 1 ELSE 0
  BY <1>1, <1>2
<1> DEFINE held(n) == Cardinality(OfNode({l}, n))
           node == leaseNode[l]
<1>4. \A n \in Nodes : held(n) = IF node = n THEN 1 ELSE 0
  BY <1>3
<1>5. node \in Nodes
  OBVIOUS
<1>6. [count EXCEPT ![node] = @ + 1] = [n \in Nodes |-> count[n] + held(n)]
  <2>1. \A n \in Nodes : count[n] \in Nat
    OBVIOUS
  <2> HIDE DEF held, node
  <2>2. \A n \in Nodes :
          count[n] + held(n) = IF n = node THEN count[node] + 1 ELSE count[n]
    BY <1>4, <2>1
  <2>3. [count EXCEPT ![node] = @ + 1] =
          [n \in Nodes |-> IF n = node THEN count[node] + 1 ELSE count[n]]
    BY <1>5
  <2> QED BY <2>2, <2>3
<1> QED BY <1>6

LEMMA ReassignCharges ==
  ASSUME TypeOK, IInv, NEW expired \in SUBSET LeaseId, NEW lapsed \in SUBSET LeaseId,
         \A l \in expired \cup lapsed : Live(l),
         \A l \in expired :
           \/ leaseState[l] = "ACTIVE"
           \/ nodeStatus[leaseNode[l]] = "ONLINE" /\ nodeStatus'[leaseNode[l]] = "OFFLINE",
         ReassignJobAttempts(expired, lapsed)
  PROVE  Charges(expired)
<1>1. Blamed(expired, lapsed) = expired
  BY DEF IInv, LiveIsCurrent, Blamed
<1>2. failures' = [n \in Nodes |-> failures[n] + Cardinality(OfNode(expired, n))]
  BY <1>1 DEF ReassignJobAttempts, OfNode
<1> DEFINE rest == Siblings({l[1] : l \in {m \in expired \cup lapsed : Current(m)}}, expired \cup lapsed)
<1>3. leaseState' = [l \in LeaseId |->
         CASE l \in expired -> "EXPIRED"
           [] l \in lapsed \ expired -> "UNCLAIMED"
           [] l \in rest -> "RELEASED"
           [] OTHER -> leaseState[l]]
  BY DEF ReassignJobAttempts
<1>4. rest \cap expired = {}
  BY DEF Siblings
<1> HIDE DEF rest
<1>5. ASSUME NEW l \in LeaseId, l \in expired PROVE leaseState'[l] = "EXPIRED"
  BY <1>4, <1>3, <1>5
<1>6. ASSUME NEW l \in LeaseId, l \notin expired
      PROVE  \/ leaseState'[l] = "UNCLAIMED"
             \/ leaseState'[l] = "RELEASED"
             \/ leaseState'[l] = leaseState[l]
  BY <1>3, <1>6
<1> QED BY <1>2, <1>5, <1>6 DEF Charges, Faulty

LEMMA StepCharges ==
  ASSUME TypeOK, IInv, [Next]_vars
  PROVE  \E F \in SUBSET LeaseId : Charges(F)
<1> USE DEF jobVars, leaseVars, nodeVars, cancelVars
<1> DEFINE Goal == \E F \in SUBSET LeaseId : Charges(F)
<1> SUFFICES Goal
  OBVIOUS
<1>1. ASSUME UNCHANGED failures,
             \A l \in LeaseId : leaseState'[l] \in Faulty => leaseState'[l] = leaseState[l]
      PROVE  Goal
  <2>1. Charges({})
    BY <1>1, OfNobody DEF Charges, TypeOK
  <2> QED BY <2>1
<1>2. ASSUME NEW j \in Jobs, CreateJob(j) \/ CancelLoad(j) \/ CancelRead(j) \/ CancelCommit(j)
      PROVE  Goal
  BY <1>1, <1>2 DEF CreateJob, CancelLoad, CancelRead, CancelCommit, Faulty
<1>3. ASSUME NEW stale \in SUBSET Nodes, NEW skipped \in SUBSET Jobs,
             SchedulerPassBegin(stale, skipped)
      PROVE  Goal
  BY <1>1, <1>3 DEF SchedulerPassBegin
<1>4. ASSUME SchedulerPassAbort \/ ReadBusyNodes PROVE Goal
  BY <1>1, <1>4 DEF SchedulerPassAbort, ReadBusyNodes
<1>5. ASSUME SchedulerPassCommit PROVE Goal
  <2>1. PICK plan \in Plans :
          leaseState' = [l \in LeaseId |-> IF l \in Placed(plan) THEN "PENDING" ELSE leaseState[l]]
    BY <1>5 DEF SchedulerPassCommit
  <2> QED BY <1>1, <1>5, <2>1 DEF SchedulerPassCommit, Faulty
<1>6. ASSUME NEW n \in Nodes, ClaimJobForNode(n) PROVE Goal
  <2>1. PICK l \in HeldBy(n) : leaseState' = [leaseState EXCEPT ![l] = "ACTIVE"] /\ UNCHANGED failures
    BY <1>6 DEF ClaimJobForNode
  <2> QED BY <1>1, <2>1 DEF Faulty, TypeOK
<1>7. ASSUME NEW n \in Nodes, RecordHeartbeat(n) \/ BackoffPasses(n) PROVE Goal
  BY <1>1, <1>7 DEF RecordHeartbeat, BackoffPasses
<1>8. ASSUME NEW n \in Nodes, DeclareNodeFailed(n) PROVE Goal
  <2> DEFINE dead == {l \in HeldBy(n) : Current(l)}
  <2>1. \A l \in dead : l \in LeaseId /\ Live(l) /\ leaseNode[l] = n
    BY DEF HeldBy
  <2>2. nodeStatus[n] = "ONLINE" /\ nodeStatus'[n] = "OFFLINE" /\ ReassignJobAttempts(dead, {})
    BY <1>8 DEF DeclareNodeFailed, TypeOK
  <2> HIDE DEF dead
  <2>3. Charges(dead)
    BY <2>1, <2>2, ReassignCharges
  <2> QED BY <2>1, <2>3
<1>9. ASSUME NEW skipped \in SUBSET Lapsed, SweepExpiredLeases(skipped) PROVE Goal
  <2> DEFINE expired == {l \in Lapsed \ skipped : leaseState[l] = "ACTIVE"}
             lapsed == {l \in Lapsed \ skipped : leaseState[l] = "PENDING"}
  <2>1. expired \in SUBSET LeaseId /\ lapsed \in SUBSET LeaseId
    BY DEF Lapsed, TypeOK
  <2>2. \A l \in expired \cup lapsed : Live(l)
    BY DEF Live, LiveStates
  <2>3. ReassignJobAttempts(expired, lapsed)
    BY <1>9 DEF SweepExpiredLeases
  <2>4. \A l \in expired : leaseState[l] = "ACTIVE"
    OBVIOUS
  <2> HIDE DEF expired, lapsed
  <2>5. Charges(expired)
    BY <2>1, <2>2, <2>3, <2>4, ReassignCharges
  <2> QED BY <2>1, <2>5
<1>10. ASSUME NEW l \in LeaseId, RenewLease(l) \/ TtlPasses(l) PROVE Goal
  BY <1>1, <1>10 DEF RenewLease, TtlPasses
<1>11. ASSUME NEW l \in LeaseId, CompleteLease(l) PROVE Goal
  BY <1>1, <1>11 DEF CompleteLease, Faulty, TypeOK
<1>12. ASSUME NEW l \in LeaseId, FailLease(l) PROVE Goal
  <2>1. leaseState[l] = "ACTIVE" /\ Live(l) /\ leaseNode[l] \in Nodes
    BY <1>12 DEF FailLease, Fenced, Live, LiveStates, IInv, LiveIsARank
  <2> DEFINE rest == Siblings({l[1]}, {l})
  <2>2. /\ failures' = [failures EXCEPT ![leaseNode[l]] = @ + 1]
        /\ leaseState' = [k \in LeaseId |->
             CASE k = l -> "FAILED"
               [] jobState[l[1]] \in Working /\ k \in rest -> "RELEASED"
               [] OTHER -> leaseState[k]]
        /\ l \notin rest
    BY <1>12 DEF FailLease, Siblings
  <2> HIDE DEF rest
  <2>3. /\ leaseState'[l] = "FAILED"
        /\ \A m \in LeaseId : m # l => leaseState'[m] = "RELEASED" \/ leaseState'[m] = leaseState[m]
    BY <2>2
  <2>4. failures' = [n \in Nodes |-> failures[n] + Cardinality(OfNode({l}, n))]
    BY <2>1, <2>2, OfOneLease DEF TypeOK
  <2>5. Charges({l})
    BY <2>1, <2>2, <2>3, <2>4 DEF Charges, Faulty
  <2> QED BY <2>5
<1>13. CASE UNCHANGED vars
  BY <1>1, <1>13 DEF vars
<1> QED BY <1>2, <1>3, <1>4, <1>5, <1>6, <1>7, <1>8, <1>9, <1>10, <1>11, <1>12, <1>13 DEF Next

(* No node is charged twice in one step, and none for what it did not       *)
(* claim while it is alive (fail_lease, reassign_job_attempt and their      *)
(* callers): a node holds one live lease at most.                           *)
THEOREM BlameIsAlwaysEarned == Spec => BlameIsEarned
<1>1. TypeOK /\ IInv /\ [Next]_vars =>
        [\A n \in Nodes : failures'[n] # failures[n] =>
           /\ failures'[n] = failures[n] + 1
           /\ \/ \E l \in HeldBy(n) : leaseState[l] = "ACTIVE" /\ leaseState'[l] \in {"FAILED", "EXPIRED"}
              \/ nodeStatus[n] = "ONLINE" /\ nodeStatus'[n] = "OFFLINE"]_vars
  <2> SUFFICES ASSUME TypeOK, IInv, [Next]_vars, NEW n \in Nodes, failures'[n] # failures[n]
               PROVE  /\ failures'[n] = failures[n] + 1
                      /\ \/ \E l \in HeldBy(n) : leaseState[l] = "ACTIVE" /\ leaseState'[l] \in {"FAILED", "EXPIRED"}
                         \/ nodeStatus[n] = "ONLINE" /\ nodeStatus'[n] = "OFFLINE"
    OBVIOUS
  <2>1. PICK F \in SUBSET LeaseId : Charges(F)
    BY StepCharges
  <2>2. failures'[n] = failures[n] + Cardinality(OfNode(F, n)) /\ failures[n] \in Nat
    BY <2>1 DEF Charges, TypeOK
  <2>3. OfNode(F, n) # {}
    <3>1. Cardinality({}) = 0
      BY FS_EmptySet
    <3>2. ASSUME OfNode(F, n) = {} PROVE FALSE
      <4>1. Cardinality(OfNode(F, n)) = 0
        BY <3>1, <3>2
      <4> QED BY <2>2, <4>1
    <3> QED BY <3>2
  <2>4. PICK l \in F : leaseNode[l] = n
    BY <2>3 DEF OfNode
  <2>5. OfNode(F, n) = {l}
    BY <2>1, <2>4 DEF OfNode, Charges, IInv, OneSlotPerNode
  <2>6. Cardinality({l}) = 1
    BY FS_Singleton
  <2>7. l \in HeldBy(n)
    BY <2>1, <2>4 DEF Charges, HeldBy
  <2> QED BY <2>1, <2>2, <2>4, <2>5, <2>6, <2>7 DEF Charges, Faulty
<1> QED BY <1>1, Invariance, PTL DEF Spec, BlameIsEarned

-----------------------------------------------------------------------------
(* Without cancellations no step gives a settled lease another outcome, or  *)
(* a live lease a place in an epoch not minted: a row appears as PENDING.   *)
NothingCancelled == \A j \in Jobs : cancelStep[j] = "idle"

UnmintedIsAbsent == \A l \in LeaseId : l[2] > jobEpoch[l[1]] => leaseState[l] = "ABSENT"

LeaseRests(l) == ~Live(l) => leaseState'[l] = leaseState[l]

LEMMA StepRests ==
  ASSUME TypeOK, IInv, NothingCancelled, [Next]_vars, ~SchedulerPassCommit
  PROVE  \A l \in LeaseId : LeaseRests(l)
<1> USE DEF jobVars, leaseVars, nodeVars, cancelVars
<1> DEFINE Goal == \A l \in LeaseId : LeaseRests(l)
<1> SUFFICES Goal
  OBVIOUS
<1>1. ASSUME UNCHANGED leaseState PROVE Goal
  BY <1>1 DEF LeaseRests
<1>2. ASSUME NEW j \in Jobs, CreateJob(j) \/ CancelLoad(j) \/ CancelRead(j) \/ CancelCommit(j)
      PROVE  Goal
  BY <1>1, <1>2 DEF CreateJob, CancelLoad, CancelRead, CancelCommit, NothingCancelled
<1>3. ASSUME NEW stale \in SUBSET Nodes, NEW skipped \in SUBSET Jobs,
             SchedulerPassBegin(stale, skipped)
      PROVE  Goal
  BY <1>1, <1>3 DEF SchedulerPassBegin
<1>4. ASSUME SchedulerPassAbort \/ ReadBusyNodes PROVE Goal
  BY <1>1, <1>4 DEF SchedulerPassAbort, ReadBusyNodes
<1>5. ASSUME NEW n \in Nodes, ClaimJobForNode(n) PROVE Goal
  <2>1. PICK l \in HeldBy(n) : leaseState' = [leaseState EXCEPT ![l] = "ACTIVE"]
    BY <1>5 DEF ClaimJobForNode
  <2>2. Live(l)
    BY DEF HeldBy
  <2> QED BY <2>1, <2>2 DEF LeaseRests, TypeOK
<1>6. ASSUME NEW n \in Nodes, RecordHeartbeat(n) \/ BackoffPasses(n) PROVE Goal
  BY <1>1, <1>6 DEF RecordHeartbeat, BackoffPasses
<1>7. ASSUME NEW expired, NEW lapsed, ReassignJobAttempts(expired, lapsed),
             \A l \in expired \cup lapsed : Live(l)
      PROVE  Goal
  <2> DEFINE rest == Siblings({l[1] : l \in {m \in expired \cup lapsed : Current(m)}}, expired \cup lapsed)
  <2>1. leaseState' = [l \in LeaseId |->
           CASE l \in expired -> "EXPIRED"
             [] l \in lapsed \ expired -> "UNCLAIMED"
             [] l \in rest -> "RELEASED"
             [] OTHER -> leaseState[l]]
    BY <1>7 DEF ReassignJobAttempts
  <2>2. \A l \in rest : Live(l)
    BY DEF Siblings
  <2> HIDE DEF rest
  <2> QED BY <1>7, <2>1, <2>2 DEF LeaseRests
<1>8. ASSUME NEW n \in Nodes, DeclareNodeFailed(n) PROVE Goal
  <2>1. \A l \in {l \in HeldBy(n) : Current(l)} \cup {} : Live(l)
    BY DEF HeldBy
  <2> QED BY <1>7, <1>8, <2>1 DEF DeclareNodeFailed
<1>9. ASSUME NEW skipped \in SUBSET Lapsed, SweepExpiredLeases(skipped) PROVE Goal
  <2>1. \A l \in {l \in Lapsed \ skipped : leaseState[l] = "ACTIVE"}
             \cup {l \in Lapsed \ skipped : leaseState[l] = "PENDING"} : Live(l)
    BY DEF Live, LiveStates
  <2> QED BY <1>7, <1>9, <2>1 DEF SweepExpiredLeases
<1>10. ASSUME NEW l \in LeaseId, RenewLease(l) \/ TtlPasses(l) PROVE Goal
  BY <1>1, <1>10 DEF RenewLease, TtlPasses
<1>11. ASSUME NEW l \in LeaseId, CompleteLease(l) PROVE Goal
  BY <1>11 DEF CompleteLease, Fenced, Live, LiveStates, LeaseRests, TypeOK
<1>12. ASSUME NEW l \in LeaseId, FailLease(l) PROVE Goal
  <2> DEFINE rest == Siblings({l[1]}, {l})
  <2>1. leaseState' = [m \in LeaseId |->
             CASE m = l -> "FAILED"
               [] jobState[l[1]] \in Working /\ m \in rest -> "RELEASED"
               [] OTHER -> leaseState[m]]
    BY <1>12 DEF FailLease
  <2>2. Live(l) /\ \A m \in rest : Live(m)
    BY <1>12 DEF FailLease, Fenced, Live, LiveStates, Siblings
  <2> HIDE DEF rest
  <2> QED BY <2>1, <2>2 DEF LeaseRests
<1>13. CASE UNCHANGED vars
  BY <1>1, <1>13 DEF vars
<1> QED BY <1>2, <1>3, <1>4, <1>5, <1>6, <1>8, <1>9, <1>10, <1>11, <1>12, <1>13 DEF Next

LEMMA CommitOpensRows ==
  ASSUME TypeOK, IInv, UnmintedIsAbsent, SchedulerPassCommit
  PROVE  /\ UNCHANGED <<successes, failures, cancelStep>>
         /\ \A l \in LeaseId :
              \/ leaseState'[l] = leaseState[l] /\ leaseNode'[l] = leaseNode[l]
              \/ leaseState[l] = "ABSENT" /\ leaseState'[l] = "PENDING"
         /\ UnmintedIsAbsent'
<1>1. PICK plan \in Plans :
        /\ LegalPlan(plan)
        /\ jobEpoch' = [j \in Jobs |-> IF j \in DOMAIN plan THEN Mint(j) ELSE jobEpoch[j]]
        /\ leaseState' = [l \in LeaseId |-> IF l \in Placed(plan) THEN "PENDING" ELSE leaseState[l]]
        /\ leaseNode' = [l \in LeaseId |-> IF l \in Placed(plan) THEN plan[l[1]][l[3]] ELSE leaseNode[l]]
  BY DEF SchedulerPassCommit
<1>2. UNCHANGED <<successes, failures, cancelStep>>
  BY DEF SchedulerPassCommit, nodeVars, cancelVars
<1>3. ASSUME NEW l \in LeaseId, l \in Placed(plan)
      PROVE  /\ leaseState[l] = "ABSENT" /\ leaseState'[l] = "PENDING"
             /\ l[2] = jobEpoch'[l[1]]
  <2>1. l[1] \in Jobs /\ l[1] \in DOMAIN plan /\ l[2] = jobEpoch[l[1]] + 1 /\ jobEpoch[l[1]] \in Nat
    <3>1. PassIsReady
      BY DEF IInv, PassIsReady, SchedulerPassCommit
    <3> QED BY <1>1, <1>3, <3>1, PlacedLease DEF TypeOK
  <2> QED BY <1>1, <1>3, <2>1 DEF UnmintedIsAbsent, Mint
<1>4. ASSUME NEW l \in LeaseId, l \notin Placed(plan)
      PROVE  /\ leaseState'[l] = leaseState[l] /\ leaseNode'[l] = leaseNode[l]
             /\ l[2] > jobEpoch'[l[1]] => l[2] > jobEpoch[l[1]]
  <2>1. l[1] \in Jobs /\ jobEpoch[l[1]] \in Nat /\ l[2] \in Nat
    BY LeaseIdParts DEF TypeOK
  <2> QED BY <1>1, <1>4, <2>1 DEF Mint
<1>5. ASSUME NEW l \in LeaseId, l[2] > jobEpoch'[l[1]] PROVE leaseState'[l] = "ABSENT"
  <2>1. l[2] \in Nat
    BY LeaseIdParts
  <2> QED BY <1>3, <1>4, <1>5, <2>1 DEF UnmintedIsAbsent
<1> QED BY <1>2, <1>3, <1>4, <1>5 DEF UnmintedIsAbsent

LEMMA StepCredits ==
  ASSUME TypeOK, IInv, [Next]_vars
  PROVE  \E C \in SUBSET LeaseId : Credits(C)
<1> USE DEF jobVars, leaseVars, nodeVars, cancelVars
<1> DEFINE Goal == \E C \in SUBSET LeaseId : Credits(C)
<1> SUFFICES Goal
  OBVIOUS
<1>1. ASSUME UNCHANGED successes,
             \A l \in LeaseId : leaseState'[l] = "COMPLETED" => leaseState'[l] = leaseState[l]
      PROVE  Goal
  <2>1. Credits({})
    BY <1>1, OfNobody DEF Credits, TypeOK
  <2> QED BY <2>1
<1>2. ASSUME NEW j \in Jobs, CreateJob(j) \/ CancelLoad(j) \/ CancelRead(j) \/ CancelCommit(j)
      PROVE  Goal
  BY <1>1, <1>2 DEF CreateJob, CancelLoad, CancelRead, CancelCommit
<1>3. ASSUME NEW stale \in SUBSET Nodes, NEW skipped \in SUBSET Jobs,
             SchedulerPassBegin(stale, skipped)
      PROVE  Goal
  BY <1>1, <1>3 DEF SchedulerPassBegin
<1>4. ASSUME SchedulerPassAbort \/ ReadBusyNodes PROVE Goal
  BY <1>1, <1>4 DEF SchedulerPassAbort, ReadBusyNodes
<1>5. ASSUME SchedulerPassCommit PROVE Goal
  <2>1. PICK plan \in Plans :
          leaseState' = [l \in LeaseId |-> IF l \in Placed(plan) THEN "PENDING" ELSE leaseState[l]]
    BY <1>5 DEF SchedulerPassCommit
  <2> QED BY <1>1, <1>5, <2>1 DEF SchedulerPassCommit
<1>6. ASSUME NEW n \in Nodes, ClaimJobForNode(n) PROVE Goal
  <2>1. PICK l \in HeldBy(n) : leaseState' = [leaseState EXCEPT ![l] = "ACTIVE"] /\ UNCHANGED successes
    BY <1>6 DEF ClaimJobForNode
  <2> QED BY <1>1, <2>1 DEF TypeOK
<1>7. ASSUME NEW n \in Nodes, RecordHeartbeat(n) \/ BackoffPasses(n) PROVE Goal
  BY <1>1, <1>7 DEF RecordHeartbeat, BackoffPasses
<1>8. ASSUME NEW expired, NEW lapsed, ReassignJobAttempts(expired, lapsed), UNCHANGED successes
      PROVE  Goal
  <2> DEFINE rest == Siblings({l[1] : l \in {m \in expired \cup lapsed : Current(m)}}, expired \cup lapsed)
  <2>1. leaseState' = [l \in LeaseId |->
           CASE l \in expired -> "EXPIRED"
             [] l \in lapsed \ expired -> "UNCLAIMED"
             [] l \in rest -> "RELEASED"
             [] OTHER -> leaseState[l]]
    BY <1>8 DEF ReassignJobAttempts
  <2> HIDE DEF rest
  <2> QED BY <1>1, <1>8, <2>1
<1>9. ASSUME NEW n \in Nodes, DeclareNodeFailed(n) PROVE Goal
  BY <1>8, <1>9 DEF DeclareNodeFailed
<1>10. ASSUME NEW skipped \in SUBSET Lapsed, SweepExpiredLeases(skipped) PROVE Goal
  BY <1>8, <1>10 DEF SweepExpiredLeases
<1>11. ASSUME NEW l \in LeaseId, RenewLease(l) \/ TtlPasses(l) PROVE Goal
  BY <1>1, <1>11 DEF RenewLease, TtlPasses
<1>12. ASSUME NEW l \in LeaseId, FailLease(l) PROVE Goal
  <2> DEFINE rest == Siblings({l[1]}, {l})
  <2>1. /\ leaseState' = [m \in LeaseId |->
             CASE m = l -> "FAILED"
               [] jobState[l[1]] \in Working /\ m \in rest -> "RELEASED"
               [] OTHER -> leaseState[m]]
        /\ UNCHANGED successes
    BY <1>12 DEF FailLease
  <2> HIDE DEF rest
  <2> QED BY <1>1, <2>1
<1>13. ASSUME NEW l \in LeaseId, CompleteLease(l) PROVE Goal
  <2>1. Live(l) /\ leaseNode[l] \in Nodes
    BY <1>13 DEF CompleteLease, Fenced, Live, LiveStates, IInv, LiveIsARank
  <2>2. /\ successes' = [successes EXCEPT ![leaseNode[l]] = @ + 1]
        /\ leaseState' = [leaseState EXCEPT ![l] = "COMPLETED"]
    BY <1>13 DEF CompleteLease
  <2>3. successes' = [n \in Nodes |-> successes[n] + Cardinality(OfNode({l}, n))]
    BY <2>1, <2>2, OfOneLease DEF TypeOK
  <2>4. leaseState'[l] = "COMPLETED" /\ \A m \in LeaseId : m # l => leaseState'[m] = leaseState[m]
    BY <2>2 DEF TypeOK
  <2>5. Credits({l})
    BY <2>1, <2>3, <2>4 DEF Credits
  <2> QED BY <2>5
<1>14. CASE UNCHANGED vars
  BY <1>1, <1>14 DEF vars
<1> QED BY <1>2, <1>3, <1>4, <1>5, <1>6, <1>7, <1>9, <1>10, <1>11, <1>12, <1>13, <1>14 DEF Next

(* The leases of a node with one of some outcomes, before and after a step  *)
(* that gives one of them to the leases L.                                  *)
WithOutcome(n, outcomes) == {l \in LeaseId : leaseNode[l] = n /\ leaseState[l] \in outcomes}

LEMMA OutcomesAdd ==
  ASSUME NEW n, NEW outcomes, NEW L \in SUBSET LeaseId,
         \A l \in L : leaseState[l] \notin outcomes,
         \A l \in LeaseId : leaseNode'[l] = n /\ leaseState'[l] \in outcomes <=>
                              leaseNode[l] = n /\ (leaseState[l] \in outcomes \/ l \in L)
  PROVE  Cardinality(WithOutcome(n, outcomes)') =
           Cardinality(WithOutcome(n, outcomes)) + Cardinality(OfNode(L, n))
<1> DEFINE old == WithOutcome(n, outcomes)
           more == OfNode(L, n)
<1>1. WithOutcome(n, outcomes)' = old \cup more
  BY DEF WithOutcome, OfNode
<1>2. old \cap more = {} /\ old \in SUBSET LeaseId /\ more \in SUBSET LeaseId
  BY DEF WithOutcome, OfNode
<1> HIDE DEF old, more
<1>3. IsFiniteSet(old) /\ IsFiniteSet(more)
  BY <1>2, LeaseIdFinite, FS_Subset
<1>4. Cardinality(old \cup more) = Cardinality(old) + Cardinality(more) - Cardinality(old \cap more)
  BY <1>3, FS_Union
<1>5. Cardinality(old \cap more) = 0
  BY <1>2, FS_EmptySet
<1>6. Cardinality(old) \in Nat /\ Cardinality(more) \in Nat
  BY <1>3, FS_CardinalityType
<1>7. Cardinality(WithOutcome(n, outcomes)') = Cardinality(old \cup more)
  BY <1>1
<1> QED BY <1>4, <1>5, <1>6, <1>7 DEF old, more

LedgerInv == ReliabilityLedger /\ NothingCancelled /\ UnmintedIsAbsent

LEMMA LedgerIsOutcomes ==
  ReliabilityLedger <=>
    \A n \in Nodes : /\ successes[n] = Cardinality(WithOutcome(n, {"COMPLETED"}))
                     /\ failures[n] = Cardinality(WithOutcome(n, {"FAILED", "EXPIRED"}))
BY DEF ReliabilityLedger, WithOutcome

LEMMA InitLedger == Init => LedgerInv
<1> SUFFICES ASSUME Init PROVE LedgerInv
  OBVIOUS
<1>1. \A n : WithOutcome(n, {"COMPLETED"}) = {} /\ WithOutcome(n, {"FAILED", "EXPIRED"}) = {}
  BY DEF Init, WithOutcome
<1>2. Cardinality({}) = 0
  BY FS_EmptySet
<1>3. ReliabilityLedger
  BY <1>1, <1>2, LedgerIsOutcomes DEF Init
<1> QED BY <1>3 DEF Init, LedgerInv, NothingCancelled, UnmintedIsAbsent

LEMMA NothingGetsCancelled ==
  ASSUME Cancellable = {}, TypeOK, NothingCancelled, [Next]_vars
  PROVE  NothingCancelled'
<1> USE DEF jobVars, leaseVars, nodeVars, cancelVars, NothingCancelled
<1>1. ASSUME NEW j \in Jobs, CreateJob(j) \/ CancelLoad(j) \/ CancelRead(j) \/ CancelCommit(j)
      PROVE  NothingCancelled'
  BY <1>1 DEF CreateJob, CancelLoad, CancelRead, CancelCommit
<1>2. ASSUME NEW n \in Nodes,
             ClaimJobForNode(n) \/ RecordHeartbeat(n) \/ DeclareNodeFailed(n) \/ BackoffPasses(n)
      PROVE  UNCHANGED cancelStep
  BY <1>2 DEF ClaimJobForNode, RecordHeartbeat, DeclareNodeFailed, BackoffPasses
<1>3. ASSUME NEW l \in LeaseId, RenewLease(l) \/ CompleteLease(l) \/ FailLease(l) \/ TtlPasses(l)
      PROVE  UNCHANGED cancelStep
  BY <1>3 DEF RenewLease, CompleteLease, FailLease, TtlPasses
<1>4. ASSUME NEW stale, NEW skipped, SchedulerPassBegin(stale, skipped) PROVE UNCHANGED cancelStep
  BY <1>4 DEF SchedulerPassBegin
<1>5. ASSUME NEW skipped, SweepExpiredLeases(skipped) PROVE UNCHANGED cancelStep
  BY <1>5 DEF SweepExpiredLeases
<1>6. ASSUME ReadBusyNodes \/ SchedulerPassCommit \/ SchedulerPassAbort \/ UNCHANGED vars
      PROVE  UNCHANGED cancelStep
  BY <1>6 DEF ReadBusyNodes, SchedulerPassCommit, SchedulerPassAbort, vars
<1> QED BY <1>1, <1>2, <1>3, <1>4, <1>5, <1>6 DEF Next

(* A step that only settles live leases, and opens rows nobody minted, adds *)
(* to a node's outcomes exactly what it charges and credits.                *)
LEMMA StepKeepsLedger ==
  ASSUME Cancellable = {}, TypeOK, IInv, LedgerInv, [Next]_vars
  PROVE  LedgerInv'
<1>1. NothingCancelled'
  BY NothingGetsCancelled DEF LedgerInv
<1>2. \A l \in LeaseId :
        \/ Live(l) /\ leaseNode'[l] = leaseNode[l]
        \/ leaseState'[l] = leaseState[l] /\ leaseNode'[l] = leaseNode[l]
        \/ leaseState[l] = "ABSENT" /\ leaseState'[l] = "PENDING"
  <2>1. CASE SchedulerPassCommit
    BY <2>1, CommitOpensRows DEF LedgerInv
  <2>2. CASE ~SchedulerPassCommit
    BY <2>2, StepRests, StepMovesJobs DEF LedgerInv, LeaseRests
  <2> QED BY <2>1, <2>2
<1>3. UnmintedIsAbsent'
  <2>1. CASE SchedulerPassCommit
    BY <2>1, CommitOpensRows DEF LedgerInv
  <2>2. CASE ~SchedulerPassCommit
    <3>1. UNCHANGED jobEpoch /\ \A l \in LeaseId : LeaseRests(l)
      BY <2>2, StepRests, StepMovesJobs DEF LedgerInv
    <3> QED BY <3>1 DEF LedgerInv, UnmintedIsAbsent, LeaseRests, Live, LiveStates
  <2> QED BY <2>1, <2>2
<1>4. PICK F \in SUBSET LeaseId : Charges(F)
  BY StepCharges
<1>5. PICK C \in SUBSET LeaseId : Credits(C)
  BY StepCredits
<1>6. ASSUME NEW n \in Nodes
      PROVE  /\ successes'[n] = Cardinality(WithOutcome(n, {"COMPLETED"})')
             /\ failures'[n] = Cardinality(WithOutcome(n, {"FAILED", "EXPIRED"})')
  <2>1. \A l \in F : leaseState[l] \notin {"FAILED", "EXPIRED"}
    BY <1>4 DEF Charges, Live, LiveStates
  <2>2. \A l \in LeaseId : leaseNode'[l] = n /\ leaseState'[l] \in {"FAILED", "EXPIRED"} <=>
                             leaseNode[l] = n /\ (leaseState[l] \in {"FAILED", "EXPIRED"} \/ l \in F)
    BY <1>2, <1>4 DEF Charges, Faulty, Live, LiveStates
  <2>3. \A l \in C : leaseState[l] \notin {"COMPLETED"}
    BY <1>5 DEF Credits, Live, LiveStates
  <2>4. \A l \in LeaseId : leaseNode'[l] = n /\ leaseState'[l] \in {"COMPLETED"} <=>
                             leaseNode[l] = n /\ (leaseState[l] \in {"COMPLETED"} \/ l \in C)
    BY <1>2, <1>5 DEF Credits, Live, LiveStates
  <2>5. /\ successes[n] = Cardinality(WithOutcome(n, {"COMPLETED"}))
        /\ failures[n] = Cardinality(WithOutcome(n, {"FAILED", "EXPIRED"}))
    BY LedgerIsOutcomes DEF LedgerInv
  <2>6. /\ successes'[n] = successes[n] + Cardinality(OfNode(C, n))
        /\ failures'[n] = failures[n] + Cardinality(OfNode(F, n))
    BY <1>4, <1>5 DEF Charges, Credits
  <2>7. Cardinality(WithOutcome(n, {"FAILED", "EXPIRED"})') =
          Cardinality(WithOutcome(n, {"FAILED", "EXPIRED"})) + Cardinality(OfNode(F, n))
    BY <2>1, <2>2, OutcomesAdd
  <2>8. Cardinality(WithOutcome(n, {"COMPLETED"})') =
          Cardinality(WithOutcome(n, {"COMPLETED"})) + Cardinality(OfNode(C, n))
    BY <2>3, <2>4, OutcomesAdd
  <2> QED BY <2>5, <2>6, <2>7, <2>8
<1>7. ReliabilityLedger'
  BY <1>6 DEF ReliabilityLedger, WithOutcome
<1> QED BY <1>1, <1>3, <1>7 DEF LedgerInv

LEMMA LedgerInvariance ==
  ASSUME Cancellable = {}
  PROVE  Spec => []LedgerInv
<1>1. (TypeOK /\ IInv) /\ LedgerInv /\ [Next]_vars => LedgerInv'
  BY StepKeepsLedger
<1> QED BY <1>1, InitLedger, Invariance, PTL DEF Spec

(* Without cancellations a node's counters are the numbers of its leases    *)
(* that completed and that it failed: nothing is counted twice, and nothing *)
(* that counted is overwritten (reassign_job_attempt, complete_lease,       *)
(* fail_lease and the reliability term of scheduling.py).                   *)
THEOREM LedgerIsTrue ==
  ASSUME Cancellable = {}
  PROVE  Spec => []ReliabilityLedger
<1>1. LedgerInv => ReliabilityLedger
  BY DEF LedgerInv
<1> QED BY <1>1, LedgerInvariance, PTL

(* Without cancellations a settled lease keeps its outcome (models/lease.py,*)
(* "the terminal states record what actually happened").                    *)
THEOREM OutcomesAreFinal ==
  ASSUME Cancellable = {}
  PROVE  Spec => SettledLeasesStayPut
<1>1. (TypeOK /\ IInv) /\ LedgerInv /\ [Next]_vars =>
        [\A l \in LeaseId : leaseState[l] \notin LiveStates \cup {"ABSENT"}
           => leaseState'[l] = leaseState[l]]_vars
  <2> SUFFICES ASSUME TypeOK, IInv, LedgerInv, [Next]_vars, NEW l \in LeaseId,
                      leaseState[l] \notin LiveStates \cup {"ABSENT"}
               PROVE  leaseState'[l] = leaseState[l]
    OBVIOUS
  <2>1. CASE SchedulerPassCommit
    BY <2>1, CommitOpensRows DEF LedgerInv
  <2>2. CASE ~SchedulerPassCommit
    BY <2>2, StepRests DEF LedgerInv, LeaseRests, Live
  <2> QED BY <2>1, <2>2
<1> QED BY <1>1, Invariance, LedgerInvariance, PTL DEF Spec, SettledLeasesStayPut

-----------------------------------------------------------------------------
(* A step moves a job out of a terminal state only if it is the commit of a *)
(* cancel that had read its leases before: nothing else overwrites an end.  *)
LEMMA StepKeepsEnds ==
  ASSUME TypeOK, IInv, [Next]_vars, NEW j \in Jobs, jobState[j] \in Terminal
  PROVE  \/ jobState'[j] = jobState[j]
         \/ cancelStep[j] = "read" /\ jobState'[j] = "CANCELLED"
<1>1. jobState[j] \notin Reassignable /\ jobState[j] \notin Placeable /\ jobState[j] # "ABSENT"
  BY DEF Terminal, Reassignable, Working, Placeable
<1>2. CASE SchedulerPassCommit
  <2>1. PICK plan \in Plans :
          /\ LegalPlan(plan)
          /\ jobState' = [i \in Jobs |-> IF i \in DOMAIN plan THEN "SCHEDULED" ELSE jobState[i]]
    BY <1>2 DEF SchedulerPassCommit
  <2>2. j \notin DOMAIN plan
    <3>1. PassIsReady
      BY <1>2 DEF IInv, PassIsReady, SchedulerPassCommit
    <3> QED BY <1>1, <2>1, <3>1, PlanIsPlacement
  <2> QED BY <2>1, <2>2
<1>3. CASE ~SchedulerPassCommit
  <2>1. JobMoves(j)
    BY <1>3, StepMovesJobs
  <2>2. ~JobTornDown(j) /\ ~JobFailsOnce(j)
    BY <1>1 DEF JobTornDown, JobFailsOnce, Reassignable, Working
  <2>3. JobGoesOn(j)
    BY <2>1, <2>2 DEF JobMoves
  <2> QED BY <1>1, <2>3 DEF JobGoesOn
<1> QED BY <1>2, <1>3

(* Whatever is cancelled when, an ended job changes its state only to       *)
(* CANCELLED and only under a cancel_job that read its rows earlier: the    *)
(* scheduler, the agents' calls and the sweeps never touch one.             *)
THEOREM OnlyCancelOverwrites ==
  Spec => [][\A j \in Jobs : jobState[j] \in Terminal =>
                 \/ jobState'[j] = jobState[j]
                 \/ cancelStep[j] = "read" /\ jobState'[j] = "CANCELLED"]_vars
<1>1. (TypeOK /\ IInv) /\ [Next]_vars =>
        [\A j \in Jobs : jobState[j] \in Terminal =>
             \/ jobState'[j] = jobState[j]
             \/ cancelStep[j] = "read" /\ jobState'[j] = "CANCELLED"]_vars
  BY StepKeepsEnds
<1> QED BY <1>1, Invariance, PTL DEF Spec

(* Without cancellations "a job here never transitions again"               *)
(* (models/job.py, TERMINAL_STATES), so a run that breaks it has cancelled. *)
THEOREM EndedJobsStayEnded ==
  ASSUME Cancellable = {}
  PROVE  Spec => TerminalJobsStayPut
<1>1. (TypeOK /\ IInv) /\ LedgerInv /\ [Next]_vars =>
        [\A j \in Jobs : jobState[j] \in Terminal => jobState'[j] = jobState[j]]_vars
  BY StepKeepsEnds DEF LedgerInv, NothingCancelled
<1> QED BY <1>1, Invariance, LedgerInvariance, PTL DEF Spec, TerminalJobsStayPut

=============================================================================
