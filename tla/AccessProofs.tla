---------------------------- MODULE AccessProofs ----------------------------
(***************************************************************************)
(* What holds of who is let in, for any accounts, edits, sessions, keys,   *)
(* machines and durations and any number of requests at the same time:     *)
(* how the last administrator can be lost, whose Google account an account *)
(* is bound to, how long a session lasts and how many attempts pass, that  *)
(* Google's keys are found, and that a machine's identity is its own.      *)
(***************************************************************************)
EXTENDS MCAccounts, FiniteSetTheorems, TLAPS

(* Of accounts, the invariant is about what a request read before others   *)
(* wrote.                                                                  *)
AccountsSpec == AccountsInit /\ [][AccountsNext]_accountVars

RowFields == {"role", "enabled", "password", "email", "sub"}

(* Only as much of the types as the proofs need. *)
Shapes ==
  /\ DOMAIN account \subseteq Names /\ \A n \in DOMAIN account : DOMAIN account[n] = RowFields
  /\ DOMAIN request = Requests /\ DOMAIN bound = Names
  /\ \A e \in Emails : holder[e] \in Subjects
  /\ DOMAIN holder = Emails
  /\ \A r \in Requests :
       /\ request[r].step \in InEdit => DOMAIN request[r] = {"step", "name", "read", "change", "others"}
       /\ request[r].step \in {"verified", "stranger"} => DOMAIN request[r] = {"step", "email", "sub", "again"}
       /\ request[r].step \in {"verified", "stranger", "newcomer"} => request[r].sub \in Subjects
       /\ request[r].step \in {"newcomer", "matched"} => request[r].name \in Names

(* An edit that takes an administrator away has counted somebody else. *)
CountedOthers ==
  \A r \in Requests :
    request[r].step = "counted" =>
      /\ request[r].name \notin request[r].others
      /\ IsUsable(request[r].read) /\ ~IsUsable(Edited(request[r].read, request[r].change))
           => request[r].others # {}

(* Who is about to be bound was found by the address that Google vouched for. *)
IntroducedByAddress ==
  \A r \in Requests :
    request[r].step = "matched" /\ request[r].read.sub = Nothing =>
      request[r].read.email = request[r].email

AccountsInv == Shapes /\ CountedOthers /\ IntroducedByAddress /\ BindingFollowsAddress

-----------------------------------------------------------------------------
(* The founders' accounts are bound to nobody, and no request is served.   *)
LEMMA InitAccountsInv == AccountsInit => AccountsInv
  BY AccountsAssumption
  DEF AccountsInit, AccountsInv, Shapes, RowFields, CountedOthers, IntroducedByAddress,
      BindingFollowsAddress, Idle, InEdit

(* Every step keeps the shapes. *)
LEMMA NextShapes == ASSUME AccountsInv, [AccountsNext]_accountVars PROVE Shapes'
<1> USE AccountsAssumption DEF AccountsInv, Shapes, RowFields, Idle, Goes, Ends, InEdit
<1>1. CASE CreateUserEndpoint
  BY <1>1 DEF CreateUserEndpoint, CreateUser, NewRow
<1>2. CASE Register
  BY <1>2 DEF Register, CreateUser, NewRow
<1>3. CASE AddressChangesHands
  BY <1>3 DEF AddressChangesHands
<1>4. ASSUME NEW r \in Requests, UpdateUserEndpoint(r) PROVE Shapes'
  BY <1>4 DEF UpdateUserEndpoint
<1>5. ASSUME NEW r \in Requests, UpdateUser(r) PROVE Shapes'
  BY <1>5 DEF UpdateUser
<1>6. ASSUME NEW r \in Requests, CommitEdit(r) PROVE Shapes'
  BY <1>6 DEF CommitEdit, Written
<1>7. ASSUME NEW r \in Requests, GoogleLogin(r) PROVE Shapes'
  BY <1>7 DEF GoogleLogin
<1>8. ASSUME NEW r \in Requests, GetUserByGoogleSub(r) PROVE Shapes'
  BY <1>8 DEF GetUserByGoogleSub
<1>9. ASSUME NEW r \in Requests, GetUserByEmail(r) PROVE Shapes'
  BY <1>9 DEF GetUserByEmail, UsernameFromEmail, ToSet
<1>10. ASSUME NEW r \in Requests, CreateGoogleAccount(r) PROVE Shapes'
  BY <1>10 DEF CreateGoogleAccount, CreateUser, NewRow
<1>11. ASSUME NEW r \in Requests, SignIn(r) PROVE Shapes'
  BY <1>11 DEF SignIn
<1>12. CASE UNCHANGED accountVars
  BY <1>12 DEF accountVars
<1> QED
  BY <1>1, <1>2, <1>3, <1>4, <1>5, <1>6, <1>7, <1>8, <1>9, <1>10, <1>11, <1>12 DEF AccountsNext

(* An edit is counted after it was read, and what it counted is kept.      *)
LEMMA NextCountedOthers == ASSUME AccountsInv, [AccountsNext]_accountVars PROVE CountedOthers'
<1> USE DEF AccountsInv, Shapes, CountedOthers, Idle, Goes, Ends, InEdit
<1>1. CASE UNCHANGED request
  BY <1>1
<1>2. ASSUME NEW r \in Requests, UpdateUserEndpoint(r) PROVE CountedOthers'
  BY <1>2 DEF UpdateUserEndpoint
<1>3. ASSUME NEW r \in Requests, UpdateUser(r) PROVE CountedOthers'
  BY <1>3 DEF UpdateUser, CountEnabledAdmins
<1>4. ASSUME NEW r \in Requests, CommitEdit(r) PROVE CountedOthers'
  BY <1>4 DEF CommitEdit
<1>5. ASSUME NEW r \in Requests, GoogleLogin(r) \/ GetUserByGoogleSub(r) PROVE CountedOthers'
  BY <1>5 DEF GoogleLogin, GetUserByGoogleSub
<1>6. ASSUME NEW r \in Requests, GetUserByEmail(r) PROVE CountedOthers'
  BY <1>6 DEF GetUserByEmail
<1>7. ASSUME NEW r \in Requests, CreateGoogleAccount(r) PROVE CountedOthers'
  <2> DEFINE again == [step |-> "verified", email |-> request[r].email, sub |-> request[r].sub, again |-> TRUE]
  <2>1. CASE Ends(r)
    BY <2>1
  <2>2. CASE Goes(r, again)
    BY <2>2
  <2> QED BY <1>7, <2>1, <2>2 DEF CreateGoogleAccount
<1>8. ASSUME NEW r \in Requests, SignIn(r) PROVE CountedOthers'
  <2>1. request' = [request EXCEPT ![r] = Idle]
    BY <1>8 DEF SignIn
  <2> QED BY <2>1
<1> QED
  BY <1>1, <1>2, <1>3, <1>4, <1>5, <1>6, <1>7, <1>8
  DEF AccountsNext, accountVars, CreateUserEndpoint, Register, AddressChangesHands

(* An account that has a subject is found by it, and is not bound again;   *)
(* the others are found by the address.                                    *)
LEMMA NextIntroducedByAddress ==
  ASSUME AccountsInv, [AccountsNext]_accountVars PROVE IntroducedByAddress'
<1> USE AccountsAssumption DEF AccountsInv, Shapes, IntroducedByAddress, Idle, Goes, Ends
<1>1. CASE UNCHANGED request
  BY <1>1
<1>2. ASSUME NEW r \in Requests, UpdateUserEndpoint(r) PROVE IntroducedByAddress'
  BY <1>2 DEF UpdateUserEndpoint
<1>3. ASSUME NEW r \in Requests, UpdateUser(r) \/ CommitEdit(r) PROVE IntroducedByAddress'
  BY <1>3 DEF UpdateUser, CommitEdit
<1>4. ASSUME NEW r \in Requests, GoogleLogin(r) PROVE IntroducedByAddress'
  BY <1>4 DEF GoogleLogin
<1>5. ASSUME NEW r \in Requests, GetUserByGoogleSub(r) PROVE IntroducedByAddress'
  BY <1>5 DEF GetUserByGoogleSub
<1>6. ASSUME NEW r \in Requests, GetUserByEmail(r) PROVE IntroducedByAddress'
  BY <1>6 DEF GetUserByEmail
<1>7. ASSUME NEW r \in Requests, CreateGoogleAccount(r) PROVE IntroducedByAddress'
  <2> DEFINE again == [step |-> "verified", email |-> request[r].email, sub |-> request[r].sub, again |-> TRUE]
  <2>1. CASE Ends(r)
    BY <2>1
  <2>2. CASE Goes(r, again)
    BY <2>2
  <2> QED BY <1>7, <2>1, <2>2 DEF CreateGoogleAccount
<1>8. ASSUME NEW r \in Requests, SignIn(r) PROVE IntroducedByAddress'
  <2>1. request' = [request EXCEPT ![r] = Idle]
    BY <1>8 DEF SignIn
  <2> QED BY <2>1
<1> QED
  BY <1>1, <1>2, <1>3, <1>4, <1>5, <1>6, <1>7, <1>8
  DEF AccountsNext, accountVars, CreateUserEndpoint, Register, AddressChangesHands

-----------------------------------------------------------------------------
(* An edit that read the binding as it still is keeps it, or takes it away *)
(* with the address; a sign-in that did binds the address it was found by. *)
LEMMA NextBindingFollowsAddress ==
  ASSUME AccountsInv, [AccountsNext]_accountVars PROVE BindingFollowsAddress'
<1> USE AccountsAssumption DEF AccountsInv, BindingFollowsAddress
<1>1. CASE UNCHANGED <<account, bound, overtaken>>
  BY <1>1
<1>2. CASE CreateUserEndpoint \/ Register
  <2>1. PICK n, row : n \in Names /\ CreateUser(n, row) /\ row.sub = Nothing
    <3>1. \A role, password, email : NewRow(role, password, email, Nothing).sub = Nothing
      BY DEF NewRow
    <3> QED BY <1>2, <3>1, Zenon DEF CreateUserEndpoint, Register
  <2>2. UNCHANGED <<bound, overtaken>>
    BY <1>2 DEF CreateUserEndpoint, Register
  <2> QED BY <2>1, <2>2 DEF CreateUser
<1>3. ASSUME NEW r \in Requests, CommitEdit(r) PROVE BindingFollowsAddress'
  <2> DEFINE q == request[r]
             to == Edited(q.read, q.change)
  <2>1. UNCHANGED bound
    BY <1>3 DEF CommitEdit
  <2>2. CASE UNCHANGED account
    <3>1. overtaken \subseteq overtaken'
      BY <1>3 DEF CommitEdit
    <3> QED BY <2>1, <2>2, <3>1
  <2>3. CASE /\ account' = [account EXCEPT ![q.name] = Written(@, q.read, to)]
             /\ overtaken' = overtaken \cup {n \in {q.name} : ~SameBinding(account[n], q.read)}
    <3>1. to.email = q.read.email \/ to.sub = Nothing
      BY DEF Edited
    <3>2. to.email = q.read.email => to.sub = q.read.sub
      BY DEF Edited
    <3>3. SUFFICES ASSUME NEW n \in DOMAIN account, n = q.name, n \notin overtaken', account'[n].sub # Nothing
                   PROVE  account'[n].email = bound[n]
      BY <2>1, <2>3
    <3>4. SameBinding(account[n], q.read)
      BY <2>3, <3>3
    <3>5. /\ account'[n].sub = IF to.sub # q.read.sub THEN to.sub ELSE account[n].sub
          /\ account'[n].email = IF to.email # q.read.email THEN to.email ELSE account[n].email
      BY <2>3, <3>3 DEF Written, Shapes, RowFields
    <3> HIDE DEF to
    <3> QED BY <2>3, <3>1, <3>2, <3>3, <3>4, <3>5 DEF SameBinding
  <2> QED BY <1>3, <2>2, <2>3 DEF CommitEdit
<1>4. ASSUME NEW r \in Requests, CreateGoogleAccount(r) PROVE BindingFollowsAddress'
  BY <1>4 DEF CreateGoogleAccount, CreateUser, NewRow, Shapes
<1>5. ASSUME NEW r \in Requests, SignIn(r) PROVE BindingFollowsAddress'
  BY <1>5 DEF SignIn, SameBinding, Shapes, RowFields, IntroducedByAddress
<1> QED
  BY <1>1, <1>2, <1>3, <1>4, <1>5
  DEF AccountsNext, accountVars, AddressChangesHands, UpdateUserEndpoint, UpdateUser, GoogleLogin,
      GetUserByGoogleSub, GetUserByEmail

(* The invariant is inductive. *)
LEMMA AccountsInvHolds == AccountsSpec => []AccountsInv
<1>1. AccountsInv /\ [AccountsNext]_accountVars => AccountsInv'
  BY NextShapes, NextCountedOthers, NextIntroducedByAddress, NextBindingFollowsAddress DEF AccountsInv
<1> QED BY <1>1, InitAccountsInv, PTL DEF AccountsSpec

(* Whatever edits and sign-ins overlap, an account that is bound to a      *)
(* Google account has the address that account vouched for, unless its     *)
(* binding was written by a request that had read another one.             *)
THEOREM BindingsFollowAddresses == AccountsSpec => []BindingFollowsAddress
<1>1. AccountsInv => BindingFollowsAddress
  BY DEF AccountsInv
<1> QED BY <1>1, AccountsInvHolds, PTL

-----------------------------------------------------------------------------
(* What AdminsRemain says of a step. *)
AdminsLostByOverlap ==
  Admins(account) # {} /\ Admins(account') = {} =>
    \E r \in Requests :
      /\ request[r] # Idle /\ request'[r] = Idle
      /\ \/ request[r].step = "shell"
         \/ ~IsUsable(request[r].read)
         \/ request[r].others # {} /\ request[r].others \cap Admins(account) = {}

(* Only an edit writes a role or disables an account, and what it counted  *)
(* was somebody else.                                                      *)
LEMMA StepKeepsAdmins ==
  ASSUME AccountsInv, [AccountsNext]_accountVars PROVE AdminsLostByOverlap
<1>1. CASE UNCHANGED account
  BY <1>1 DEF AdminsLostByOverlap
<1>2. CASE CreateUserEndpoint \/ Register
  BY <1>2 DEF CreateUserEndpoint, Register, CreateUser, Admins, AdminsLostByOverlap
<1>3. ASSUME NEW r \in Requests, CreateGoogleAccount(r) PROVE AdminsLostByOverlap
  BY <1>3 DEF CreateGoogleAccount, CreateUser, Admins, AdminsLostByOverlap
<1>4. ASSUME NEW r \in Requests, SignIn(r) PROVE AdminsLostByOverlap
  BY <1>4 DEF SignIn, AccountsInv, Shapes, RowFields, Admins, AdminsLostByOverlap
<1>5. ASSUME NEW r \in Requests, CommitEdit(r) PROVE AdminsLostByOverlap
  <2> SUFFICES ASSUME Admins(account) # {}, Admins(account') = {},
                      IsUsable(request[r].read), request[r].step = "counted"
               PROVE  request[r].others # {} /\ request[r].others \cap Admins(account) = {}
    BY <1>5 DEF AdminsLostByOverlap, CommitEdit, Ends, Goes, Idle, AccountsInv, Shapes
  <2>1. \A n \in DOMAIN account : n # request[r].name => n \notin Admins(account)
    BY <1>5 DEF CommitEdit, Admins
  <2>2. request[r].name \in Admins(account)
    BY <2>1 DEF Admins
  <2>3. ~IsUsable(Edited(request[r].read, request[r].change))
    <3> DEFINE q == request[r]
               to == Edited(q.read, q.change)
    <3>1. account' = [account EXCEPT ![q.name] = Written(@, q.read, to)]
      BY <1>5 DEF CommitEdit
    <3>2. /\ account'[q.name].role = IF to.role # q.read.role THEN to.role ELSE account[q.name].role
          /\ account'[q.name].enabled =
               IF to.enabled # q.read.enabled THEN to.enabled ELSE account[q.name].enabled
      BY <2>2, <3>1 DEF Written, Admins, AccountsInv, Shapes, RowFields
    <3>3. q.name \in DOMAIN account'
      BY <2>2, <3>1 DEF Admins
    <3> HIDE DEF to
    <3> SUFFICES ASSUME IsUsable(to) PROVE FALSE
      BY DEF to
    <3> QED BY <2>2, <3>2, <3>3 DEF IsUsable, Admins
  <2> QED BY <2>1, <2>2, <2>3 DEF AccountsInv, CountedOthers, Admins
<1> QED
  BY <1>1, <1>2, <1>3, <1>4, <1>5
  DEF AccountsNext, accountVars, AddressChangesHands, UpdateUserEndpoint, UpdateUser, GoogleLogin,
      GetUserByGoogleSub, GetUserByEmail

(* The last administrator who can sign in is only lost to a shell, to an   *)
(* edit of an account that became one after it was read, or to edits that  *)
(* overlapped and counted each other.                                      *)
THEOREM AdminsAreOnlyLostByOverlap == AccountsSpec => AdminsRemain
<1>1. AccountsInv /\ [AccountsNext]_accountVars => [AdminsLostByOverlap]_accountVars
  BY StepKeepsAdmins
<1> QED BY <1>1, AccountsInvHolds, PTL DEF AccountsSpec, AdminsRemain, AdminsLostByOverlap

-----------------------------------------------------------------------------
(* A machine's identity, as long as the agent renews its token early       *)
(* enough for two timeouts of its HTTP client.                             *)
IdentitySpec == IdentityInit /\ [][IdentityNext]_identityVars

AgentFields == {"step", "running", "id", "nonce", "offered", "exp", "token", "since", "late", "failed", "refused"}
Waiting == {"signed", "enrolled", "beating"}

ChallengeTypes ==
  /\ DOMAIN challenge = Nonces /\ DOMAIN granted = Nonces /\ DOMAIN reply = Nonces
  /\ \A c \in Nonces : /\ DOMAIN challenge[c] = {"node", "expires", "used"}
                       /\ DOMAIN reply[c] = {"status", "exp"} /\ reply[c].exp \in Nat
                       /\ reply[c].status \in {"none", "200", "401", "500"}
  /\ sent \subseteq Nonces /\ consuming \subseteq Nonces

AgentTypes ==
  /\ clock \in Nat /\ members \subseteq born /\ born \subseteq Nodes
  /\ DOMAIN agent = AgentFields
  /\ agent.exp \in Nat /\ agent.token \in Nat /\ agent.since \in Nat
  /\ agent.step = "signed" => agent.nonce \in Nonces
  /\ agent.step \in {"off", "asking", "signed", "enrolling", "enrolled", "resting", "beating"}

(* A nonce that has minted a token is used, and one being consumed has not. *)
UsedBeforeMinted ==
  \A c \in Nonces :
    /\ c \in consuming => challenge[c].used /\ granted[c] = <<>>
    /\ ~challenge[c].used => granted[c] = <<>>
    /\ c \in sent \cup consuming => challenge[c].node # None
    /\ challenge[c] = Unissued => c \notin sent /\ c \notin consuming /\ reply[c] = NoReply

(* The agent enrols again only if what it had saved is no longer good, or  *)
(* was refused for a nonce that ran out.                                   *)
SavedIsUsed ==
  /\ agent.id \in born \cup {None} /\ (saved \in Nodes => saved \in born)
  /\ agent.step \in {"asking", "signed", "resting", "beating"} => agent.id = saved
  /\ agent.step = "enrolling" => saved \notin members \/ agent.late
  /\ agent.step = "enrolled" => saved \notin members \/ agent.late \/ saved = agent.id
  /\ agent.running => agent.step \in {"asking", "signed", "resting", "beating"}

(* Since when the agent waits, and what that leaves of its token.          *)
TokensLast ==
  /\ agent.step \in Waiting => agent.since <= clock /\ clock <= agent.since + Timeout
  /\ agent.step = "enrolled" => agent.token = agent.since + NodeTtl
  /\ agent.step = "signed" /\ reply[agent.nonce].status = "200" =>
       reply[agent.nonce].exp >= agent.since + NodeTtl
  /\ agent.running => agent.exp <= agent.token + Timeout
  /\ agent.step \in {"beating", "resting"} => agent.running
  /\ agent.step = "beating" /\ ~agent.failed => agent.since + Timeout < agent.token

ChallengeInv == ChallengeTypes /\ UsedBeforeMinted /\ NonceMintsOnce

AgentInv ==
  AgentTypes /\ SavedIsUsed /\ TokensLast /\ OnePlaceInTheFleet /\ RunsAsSaved /\ RefusedForCause

IdentityInv == ChallengeInv /\ AgentInv

(* What is chosen is of the set. *)
LEMMA NextOfIsMember == \A set : NextOf(set) \subseteq set
  BY DEF NextOf

(* What becomes of the agent after a refresh that failed. *)
LEMMA AfterRefreshFailedGoes ==
  ASSUME DOMAIN agent = AgentFields, NEW status
  PROVE  LET a == AfterRefreshFailed(status) IN
         \/ /\ agent.running /\ DOMAIN a = AgentFields
            /\ a.step = "beating" /\ a.since = clock /\ a.failed /\ a.running
            /\ a.id = agent.id /\ a.exp = agent.exp /\ a.token = agent.token
         \/ /\ Rejected(status) /\ DOMAIN a = AgentFields
            /\ a.step = "enrolling" /\ ~a.running /\ a.id = None
            /\ a.exp = 0 /\ a.token = 0 /\ a.since = 0
            /\ status = "401" /\ agent.id \in members => a.late
         \/ a = Off
<1>1. CASE agent.running
  <2> DEFINE a == [agent EXCEPT !.step = "beating", !.nonce = None, !.since = clock, !.failed = TRUE]
  <2>1. DOMAIN a = AgentFields /\ a.step = "beating" /\ a.since = clock /\ a.failed = TRUE
    BY DEF AgentFields
  <2>2. a.running = agent.running /\ a.id = agent.id /\ a.exp = agent.exp /\ a.token = agent.token
    BY DEF AgentFields
  <2>3. AfterRefreshFailed(status) = a
    BY <1>1 DEF AfterRefreshFailed
  <2> HIDE DEF a
  <2> QED BY <1>1, <2>1, <2>2, <2>3
<1>2. CASE ~agent.running /\ Rejected(status) /\ agent.offered # None
  <2> DEFINE late == status = "401" /\ agent.id \in members
             a == [Off EXCEPT !.step = "enrolling", !.offered = agent.offered, !.late = late]
  <2>1. /\ DOMAIN a = AgentFields /\ a.step = "enrolling" /\ a.running = FALSE /\ a.id = None
        /\ a.exp = 0 /\ a.token = 0 /\ a.since = 0
    BY DEF AgentFields, Off
  <2>2. a.late = late
    BY DEF Off
  <2>3. AfterRefreshFailed(status) = a
    BY <1>2 DEF AfterRefreshFailed
  <2> HIDE DEF a
  <2> QED BY <1>2, <2>1, <2>2, <2>3
<1>3. CASE ~agent.running /\ ~(Rejected(status) /\ agent.offered # None)
  BY <1>3 DEF AfterRefreshFailed
<1> QED BY <1>1, <1>2, <1>3

(* What an agent starts as. *)
LEMMA LoadStateGoes ==
  ASSUME NEW offered
  PROVE  LET a == LoadState(offered) IN
         \/ /\ DOMAIN a = AgentFields /\ a.exp = 0 /\ a.token = 0 /\ a.since = 0 /\ ~a.running
            /\ \/ a.step = "asking" /\ saved \in Nodes /\ a.id = saved
               \/ a.step = "enrolling" /\ saved \notin Nodes /\ a.id = None
         \/ a = Off
<1>1. CASE saved \in Nodes
  <2> DEFINE a == [Off EXCEPT !.step = "asking", !.id = saved, !.offered = offered]
  <2>1. /\ DOMAIN a = AgentFields /\ a.exp = 0 /\ a.token = 0 /\ a.since = 0 /\ a.running = FALSE
        /\ a.step = "asking" /\ a.id = saved
    BY DEF AgentFields, Off
  <2>2. LoadState(offered) = a
    BY <1>1 DEF LoadState
  <2> HIDE DEF a
  <2> QED BY <1>1, <2>1, <2>2
<1>2. CASE saved \notin Nodes /\ saved = None /\ offered # None
  <2> DEFINE a == [Off EXCEPT !.step = "enrolling", !.offered = offered]
  <2>1. /\ DOMAIN a = AgentFields /\ a.exp = 0 /\ a.token = 0 /\ a.since = 0 /\ a.running = FALSE
        /\ a.step = "enrolling" /\ a.id = None
    BY DEF AgentFields, Off
  <2>2. LoadState(offered) = a
    BY <1>2 DEF LoadState
  <2> HIDE DEF a
  <2> QED BY <1>2, <2>1, <2>2
<1>3. CASE saved \notin Nodes /\ ~(saved = None /\ offered # None)
  BY <1>3 DEF LoadState
<1> QED BY <1>1, <1>2, <1>3

(* No machine, no nonce, no agent. *)
LEMMA InitIdentityInv == IdentityInit => IdentityInv
  BY IdentityAssumption
  DEF IdentityInit, IdentityInv, ChallengeInv, AgentInv, ChallengeTypes, AgentTypes, UsedBeforeMinted,
      SavedIsUsed, TokensLast, NonceMintsOnce, OnePlaceInTheFleet, RunsAsSaved, RefusedForCause,
      Unissued, NoReply, Off, AgentFields, Waiting

(* A refresh that failed leaves the agent as it should be, if a node that  *)
(* is still in the fleet is refused by nothing but a 401.                  *)
LEMMA FailedRefresh ==
  ASSUME AgentInv, agent.step \in {"asking", "signed"}, NEW status,
         Rejected(status) => agent.id \notin members \/ status = "401",
         agent' = AfterRefreshFailed(status), UNCHANGED <<clock, fleetVars, diskVars>>
  PROVE  AgentInv'
<1> USE IdentityAssumption
    DEF AgentInv, AgentTypes, SavedIsUsed, TokensLast, OnePlaceInTheFleet, RunsAsSaved, RefusedForCause,
        Waiting, fleetVars, diskVars
<1>1. CASE /\ agent.running /\ DOMAIN agent' = AgentFields
           /\ agent'.step = "beating" /\ agent'.since = clock /\ agent'.failed /\ agent'.running
           /\ agent'.id = agent.id /\ agent'.exp = agent.exp /\ agent'.token = agent.token
  BY <1>1
<1>2. CASE /\ Rejected(status) /\ DOMAIN agent' = AgentFields
           /\ agent'.step = "enrolling" /\ ~agent'.running /\ agent'.id = None
           /\ agent'.exp = 0 /\ agent'.token = 0 /\ agent'.since = 0
           /\ status = "401" /\ agent.id \in members => agent'.late
  BY <1>2
<1>3. CASE agent' = Off
  BY <1>3 DEF Off, AgentFields
<1> QED BY <1>1, <1>2, <1>3, AfterRefreshFailedGoes

-----------------------------------------------------------------------------
(* Steps of the orchestrator and of people keep what holds of the agent.   *)
LEMMA OrchestratorStep ==
  ASSUME IdentityInv,
         \/ CreateEnrollmentToken \/ RevokeEnrollmentToken
         \/ \E c \in Nonces : ConsumeChallenge(c) \/ RefuseChallenge(c) \/ RefreshToken(c)
         \/ \E n \in Nodes : DecommissionNode(n)
  PROVE  IdentityInv'
<1> USE IdentityAssumption
    DEF IdentityInv, ChallengeInv, AgentInv, ChallengeTypes, AgentTypes, UsedBeforeMinted, SavedIsUsed,
        TokensLast, NonceMintsOnce, OnePlaceInTheFleet, RunsAsSaved, RefusedForCause, Unissued, NoReply,
        Waiting, challengeVars, diskVars, fleetVars
<1>1. CASE CreateEnrollmentToken \/ RevokeEnrollmentToken
  <2>1. CASE CreateEnrollmentToken
    BY <2>1 DEF CreateEnrollmentToken
  <2>2. CASE RevokeEnrollmentToken
    BY <2>2 DEF RevokeEnrollmentToken
  <2> QED BY <1>1, <2>1, <2>2
<1>2. ASSUME NEW n \in Nodes, DecommissionNode(n) PROVE IdentityInv'
  BY <1>2 DEF DecommissionNode
<1>3. ASSUME NEW c \in Nonces, ConsumeChallenge(c) PROVE IdentityInv'
  BY <1>3, SMTT(30) DEF ConsumeChallenge, Consumable
<1>4. ASSUME NEW c \in Nonces, RefuseChallenge(c) PROVE IdentityInv'
  BY <1>4 DEF RefuseChallenge
<1>5. ASSUME NEW c \in Nonces, RefreshToken(c) PROVE IdentityInv'
  <2>1. /\ UNCHANGED <<clock, fleetVars, sent, diskVars, agent, starts>>
        /\ c \in consuming /\ consuming' = consuming \ {c}
    BY <1>5 DEF RefreshToken
  <2>2. CASE /\ granted' = [granted EXCEPT ![c] = Append(@, challenge[c].node)]
             /\ reply' = [reply EXCEPT ![c] = CreateNodeJwt(c)] /\ UNCHANGED challenge
    <3>1. granted'[c] = <<challenge[c].node>>
      <4>1. granted[c] = <<>>
        BY <2>1
      <4>2. \A n : Append(<<>>, n) = <<n>>
        OBVIOUS
      <4> QED BY <2>2, <4>1, <4>2
    <3>2. ChallengeTypes' /\ UsedBeforeMinted'
      BY <2>1, <2>2, SMTT(30) DEF CreateNodeJwt
    <3>3. NonceMintsOnce'
      <4>1. \A n : Len(<<n>>) = 1
        OBVIOUS
      <4> QED BY <2>1, <2>2, <3>1, <4>1
    <3>4. AgentInv'
      BY <2>1, <2>2, SMTT(30) DEF CreateNodeJwt
    <3> QED BY <3>2, <3>3, <3>4
  <2>3. CASE reply' = [reply EXCEPT ![c].status = "401"] /\ UNCHANGED <<challenge, granted>>
    <3>1. /\ DOMAIN reply' = Nonces /\ DOMAIN reply'[c] = DOMAIN reply[c]
          /\ reply'[c].status = "401" /\ reply'[c].exp = reply[c].exp
          /\ \A d \in Nonces \ {c} : reply'[d] = reply[d]
      BY <2>1, <2>3
    <3>2. challenge[c] # Unissued
      BY <2>1
    <3>3. ChallengeInv'
      BY <2>1, <2>3, <3>1, <3>2
    <3>4. AgentInv'
      BY <2>1, <2>3, <3>1
    <3> QED BY <3>3, <3>4
  <2>4. CASE /\ challenge' = [challenge EXCEPT ![c].used = FALSE]
             /\ reply' = [reply EXCEPT ![c].status = "500"] /\ UNCHANGED granted
    <3>1. /\ DOMAIN challenge' = Nonces /\ DOMAIN challenge'[c] = DOMAIN challenge[c]
          /\ challenge'[c].node = challenge[c].node /\ challenge'[c].used = FALSE
          /\ \A d \in Nonces \ {c} : challenge'[d] = challenge[d]
      BY <2>1, <2>4
    <3>2. ChallengeTypes' /\ UsedBeforeMinted'
      BY <2>1, <2>4, <3>1, SMTT(30)
    <3>3. NonceMintsOnce'
      BY <2>1, <2>4, <3>1
    <3>4. AgentInv'
      BY <2>1, <2>4, SMTT(30)
    <3> QED BY <3>2, <3>3, <3>4
  <2> QED BY <1>5, <2>2, <2>3, <2>4 DEF RefreshToken
<1> QED BY <1>1, <1>2, <1>3, <1>4, <1>5

(* The clock does not pass a timeout while the agent waits. *)
LEMMA ClockStep == ASSUME IdentityInv, ClockTicks PROVE IdentityInv'
<1>1. /\ clock \in Nat /\ agent.since \in Nat /\ Timeout \in Nat /\ clock' = clock + 1
      /\ agent.step \in Waiting => clock - agent.since < Timeout
  BY IdentityAssumption DEF ClockTicks, IdentityInv, AgentInv, AgentTypes, Waiting
<1>2. UNCHANGED <<fleetVars, challengeVars, diskVars, agent, starts>>
  BY DEF ClockTicks
<1>3. /\ clock' \in Nat
      /\ agent.step \in Waiting => agent.since <= clock' /\ clock' <= agent.since + Timeout
  BY <1>1 DEF IdentityInv, AgentInv, TokensLast
<1>4. ChallengeInv'
  BY <1>2
  DEF IdentityInv, ChallengeInv, ChallengeTypes, UsedBeforeMinted, NonceMintsOnce, challengeVars
<1>5. TokensLast'
  BY <1>2, <1>3 DEF IdentityInv, AgentInv, TokensLast, challengeVars
<1>6. AgentTypes'
  BY <1>2, <1>3 DEF IdentityInv, AgentInv, AgentTypes, fleetVars
<1>7. SavedIsUsed' /\ OnePlaceInTheFleet' /\ RunsAsSaved' /\ RefusedForCause'
  BY <1>2
  DEF IdentityInv, AgentInv, SavedIsUsed, OnePlaceInTheFleet, RunsAsSaved, RefusedForCause, diskVars,
      fleetVars
<1> QED BY <1>4, <1>5, <1>6, <1>7 DEF IdentityInv, AgentInv

-----------------------------------------------------------------------------
(* Steps of the agent that ask the orchestrator for nothing keep what      *)
(* holds of challenges.                                                    *)
LEMMA ChallengesStay == ASSUME ChallengeInv, UNCHANGED challengeVars PROVE ChallengeInv'
  BY DEF ChallengeInv, ChallengeTypes, UsedBeforeMinted, NonceMintsOnce, challengeVars

(* At a start and at a restart. *)
LEMMA StartStep == ASSUME AgentInv, Start \/ RestartForUpdate PROVE AgentInv'
<1>1. PICK offered : agent' = LoadState(offered)
  BY DEF Start, RestartForUpdate
<1>2. UNCHANGED <<clock, fleetVars, diskVars>>
  BY DEF Start, RestartForUpdate
<1> USE IdentityAssumption
    DEF AgentInv, AgentTypes, SavedIsUsed, TokensLast, OnePlaceInTheFleet, RunsAsSaved, RefusedForCause,
        Waiting, fleetVars, diskVars
<1>3. agent.step # "enrolled"
  BY DEF Start, RestartForUpdate, Off
<1>4. CASE agent' = Off
  BY <1>2, <1>3, <1>4 DEF Off, AgentFields
<1>5. CASE /\ DOMAIN agent' = AgentFields /\ agent'.exp = 0 /\ agent'.token = 0 /\ agent'.since = 0
           /\ ~agent'.running
           /\ \/ agent'.step = "asking" /\ saved \in Nodes /\ agent'.id = saved
              \/ agent'.step = "enrolling" /\ saved \notin Nodes /\ agent'.id = None
  BY <1>2, <1>3, <1>5
<1> QED BY <1>1, <1>4, <1>5, LoadStateGoes

(* A challenge that is asked for is new. *)
LEMMA AskStep == ASSUME IdentityInv, AskChallenge PROVE IdentityInv'
<1>1. /\ UNCHANGED <<clock, fleetVars, consuming, granted, reply, diskVars, starts>>
      /\ agent.step = "asking"
  BY DEF AskChallenge
<1>2. CASE /\ agent' = AfterRefreshFailed(IF agent.id \in members THEN "500" ELSE "404")
           /\ UNCHANGED <<challenge, sent>>
  <2>1. AgentInv'
    BY <1>1, <1>2, FailedRefresh DEF IdentityInv, Rejected
  <2> QED BY <1>1, <1>2, <2>1, ChallengesStay DEF IdentityInv, challengeVars
<1>3. ASSUME NEW c \in Nonces, challenge[c] = Unissued, IssueChallenge(agent.id, c), sent' \subseteq sent \cup {c}
      PROVE  ChallengeInv'
  <2>1. /\ challenge' = [challenge EXCEPT ![c] = challenge'[c]]
        /\ DOMAIN challenge'[c] = {"node", "expires", "used"}
        /\ challenge'[c].node \in Nodes /\ challenge'[c].used = FALSE
    BY <1>3 DEF IssueChallenge, IdentityInv, ChallengeInv, ChallengeTypes, AgentInv, AgentTypes
  <2>2. ~challenge[c].used /\ challenge'[c].node # None
    BY <1>3, <2>1, IdentityAssumption DEF Unissued
  <2>3. \A d \in Nonces \ {c} : challenge'[d] = challenge[d]
    BY <2>1 DEF IdentityInv, ChallengeInv, ChallengeTypes
  <2>4. granted[c] = <<>> /\ c \notin consuming
    BY <1>3, <2>2 DEF IdentityInv, ChallengeInv, UsedBeforeMinted
  <2>5. ChallengeTypes'
    BY <1>1, <1>3, <2>1, <2>3 DEF IdentityInv, ChallengeInv, ChallengeTypes
  <2>6. UsedBeforeMinted'
    <3>1. challenge'[c] # Unissued
      BY <2>2 DEF Unissued
    <3> QED BY <1>1, <1>3, <2>2, <2>3, <2>4, <3>1 DEF IdentityInv, ChallengeInv, UsedBeforeMinted
  <2>7. NonceMintsOnce'
    BY <1>1, <2>3, <2>4 DEF IdentityInv, ChallengeInv, NonceMintsOnce
  <2> QED BY <2>5, <2>6, <2>7 DEF ChallengeInv
<1>4. ASSUME NEW c \in Nonces, challenge[c] = Unissued, IssueChallenge(agent.id, c),
             agent' = [agent EXCEPT !.step = "signed", !.nonce = c, !.since = clock], sent' = sent \cup {c}
      PROVE  IdentityInv'
  <2>1. /\ DOMAIN agent' = AgentFields /\ agent'.step = "signed" /\ agent'.nonce = c
        /\ agent'.since = clock
    BY <1>4 DEF IdentityInv, AgentInv, AgentTypes, AgentFields
  <2>2. /\ agent'.id = agent.id /\ agent'.exp = agent.exp /\ agent'.token = agent.token
        /\ agent'.running = agent.running /\ agent'.failed = agent.failed
        /\ agent'.refused = agent.refused
    BY <1>4 DEF IdentityInv, AgentInv, AgentTypes, AgentFields
  <2>3. reply'[c].status # "200"
    BY <1>1, <1>4 DEF IdentityInv, ChallengeInv, UsedBeforeMinted, NoReply
  <2>4. AgentInv'
    BY <1>1, <2>1, <2>2, <2>3, IdentityAssumption
    DEF IdentityInv, AgentInv, AgentTypes, SavedIsUsed, TokensLast, OnePlaceInTheFleet, RunsAsSaved,
        RefusedForCause, Waiting, fleetVars, diskVars
  <2> QED BY <1>3, <1>4, <2>4 DEF IdentityInv
<1>5. ASSUME NEW c \in Nonces, challenge[c] = Unissued, IssueChallenge(agent.id, c),
             agent' = AfterRefreshFailed("lost"), UNCHANGED sent
      PROVE  IdentityInv'
  <2>1. AgentInv'
    BY <1>1, <1>5, FailedRefresh DEF IdentityInv, Rejected
  <2> QED BY <1>3, <1>5, <2>1 DEF IdentityInv
<1> QED BY <1>2, <1>4, <1>5, NextOfIsMember DEF AskChallenge

(* The answer to a refresh, or its loss. *)
LEMMA RefreshStep == ASSUME IdentityInv, RefreshAnswered \/ RefreshLost PROVE IdentityInv'
<1> DEFINE answer == reply[agent.nonce]
<1>1. UNCHANGED <<clock, fleetVars, challengeVars, diskVars, starts>> /\ agent.step = "signed"
  BY DEF RefreshAnswered, RefreshLost
<1>2. CASE RefreshLost
  BY <1>1, <1>2, FailedRefresh, ChallengesStay DEF RefreshLost, Rejected, IdentityInv
<1>3. CASE answer.status # "200" /\ agent' = AfterRefreshFailed(answer.status)
  <2>1. answer.status # "404"
    BY <1>1 DEF IdentityInv, ChallengeInv, ChallengeTypes, AgentInv, AgentTypes
  <2>2. Rejected(answer.status) => answer.status = "401"
    BY <2>1 DEF Rejected
  <2>3. AgentInv'
    <3> HIDE DEF answer
    <3> QED BY <1>1, <1>3, <2>2, FailedRefresh DEF IdentityInv
  <2> QED BY <1>1, <2>3, ChallengesStay DEF IdentityInv
<1>4. CASE /\ answer.status = "200"
           /\ agent' = [agent EXCEPT !.step = "beating", !.running = TRUE, !.nonce = None, !.since = clock,
                                     !.exp = clock + NodeTtl, !.token = answer.exp, !.failed = FALSE]
  <2>1. /\ DOMAIN agent' = AgentFields /\ agent'.step = "beating" /\ agent'.running = TRUE
        /\ agent'.since = clock /\ agent'.exp = clock + NodeTtl /\ agent'.token = answer.exp
        /\ agent'.id = agent.id
    BY <1>4 DEF IdentityInv, AgentInv, AgentTypes, AgentFields
  <2>2. AgentInv'
    BY <1>1, <1>4, <2>1, IdentityAssumption
    DEF IdentityInv, ChallengeInv, ChallengeTypes, AgentInv, AgentTypes, SavedIsUsed, TokensLast,
        OnePlaceInTheFleet, RunsAsSaved, RefusedForCause, Waiting, fleetVars, diskVars, challengeVars
  <2> QED BY <1>1, <2>2, ChallengesStay DEF IdentityInv
<1> QED BY <1>2, <1>3, <1>4 DEF RefreshAnswered

(* An enrollment makes a node that nobody was. *)
LEMMA EnrollStep == ASSUME IdentityInv, Enroll PROVE IdentityInv'
<1> USE IdentityAssumption
    DEF IdentityInv, AgentInv, AgentTypes, SavedIsUsed, TokensLast, OnePlaceInTheFleet, RunsAsSaved,
        RefusedForCause, Waiting, fleetVars, diskVars
<1>1. UNCHANGED <<clock, challengeVars, saved, starts>> /\ agent.step = "enrolling"
  BY DEF Enroll
<1>2. CASE agent' = Off /\ UNCHANGED <<fleetVars, accidents>>
  <2>1. AgentInv'
    BY <1>1, <1>2 DEF Off, AgentFields
  <2> QED BY <1>1, <2>1, ChallengesStay
<1>3. ASSUME NEW n \in Nodes \ born, RegisterNode(n, agent.offered),
             agent' = Off, accidents' = accidents \cup {n}
      PROVE  IdentityInv'
  <2>1. AgentInv'
    BY <1>1, <1>3 DEF Off, AgentFields, RegisterNode
  <2> QED BY <1>1, <2>1, ChallengesStay
<1>4. ASSUME NEW n \in Nodes \ born, RegisterNode(n, agent.offered), UNCHANGED accidents,
             agent' = [agent EXCEPT !.step = "enrolled", !.id = n, !.since = clock,
                                    !.token = clock + NodeTtl]
      PROVE  IdentityInv'
  <2>1. /\ DOMAIN agent' = AgentFields /\ agent'.step = "enrolled" /\ agent'.id = n
        /\ agent'.since = clock /\ agent'.token = clock + NodeTtl
    BY <1>4 DEF AgentFields
  <2>2. /\ agent'.running = agent.running /\ agent'.exp = agent.exp /\ agent'.late = agent.late
    BY <1>4 DEF AgentFields
  <2>3. born' = born \cup {n} /\ members' = members \cup {n}
    BY <1>4 DEF RegisterNode
  <2>4. AgentInv'
    BY <1>1, <1>4, <2>1, <2>2, <2>3
  <2> QED BY <1>1, <2>4, ChallengesStay
<1> QED BY <1>2, <1>3, <1>4, NextOfIsMember DEF Enroll

(* What is saved replaces an identity that is no longer good. *)
LEMMA SaveStep == ASSUME IdentityInv, SaveState PROVE IdentityInv'
<1> USE IdentityAssumption
    DEF IdentityInv, AgentInv, AgentTypes, SavedIsUsed, TokensLast, OnePlaceInTheFleet, RunsAsSaved,
        RefusedForCause, Waiting, fleetVars
<1>1. /\ UNCHANGED <<clock, fleetVars, challengeVars, starts>> /\ agent.step = "enrolled"
      /\ saved' = agent.id /\ accidents' = accidents \cup {n \in {saved} : agent.late}
      /\ agent' = [agent EXCEPT !.step = "beating", !.running = TRUE, !.since = clock,
                                !.exp = clock + NodeTtl]
  BY DEF SaveState, Enrolled
<1>2. /\ DOMAIN agent' = AgentFields /\ agent'.step = "beating" /\ agent'.running = TRUE
      /\ agent'.since = clock /\ agent'.exp = clock + NodeTtl
  BY <1>1 DEF AgentFields
<1>3. agent'.id = agent.id /\ agent'.token = agent.token
  BY <1>1 DEF AgentFields
<1>4. AgentInv'
  BY <1>1, <1>2, <1>3
<1> QED BY <1>1, <1>4, ChallengesStay

(* A crash is an accident for what was about to be saved. *)
LEMMA CrashStep == ASSUME IdentityInv, Crash PROVE IdentityInv'
<1>1. UNCHANGED <<clock, fleetVars, challengeVars, starts>> /\ agent' = Off
  BY DEF Crash
<1>2. AgentInv'
  BY <1>1, IdentityAssumption
  DEF Crash, IdentityInv, AgentInv, AgentTypes, SavedIsUsed, TokensLast, OnePlaceInTheFleet,
      RunsAsSaved, RefusedForCause, Waiting, fleetVars, Off, AgentFields
<1> QED BY <1>1, <1>2, ChallengesStay DEF IdentityInv

(* A running agent beats, and renews its token with two timeouts to spare. *)
LEMMA BeatStep == ASSUME IdentityInv, HeartbeatForever \/ SendHeartbeat PROVE IdentityInv'
<1> USE IdentityAssumption
    DEF IdentityInv, AgentInv, AgentTypes, SavedIsUsed, TokensLast, OnePlaceInTheFleet, RunsAsSaved,
        RefusedForCause, Waiting, fleetVars, diskVars
<1>1. UNCHANGED <<clock, fleetVars, challengeVars, diskVars, starts>>
  BY DEF HeartbeatForever, SendHeartbeat
<1>2. ASSUME HeartbeatForever PROVE AgentInv'
  <2>1. /\ DOMAIN agent' = AgentFields /\ agent'.since = clock
        /\ agent'.step = IF clock > agent.exp - Margin THEN "asking" ELSE "beating"
    BY <1>2 DEF HeartbeatForever, AgentFields
  <2>2. /\ agent'.running = agent.running /\ agent'.exp = agent.exp /\ agent'.id = agent.id
        /\ agent'.token = agent.token /\ agent'.failed = agent.failed
    BY <1>2 DEF HeartbeatForever, AgentFields
  <2>3. agent.step = "resting"
    BY <1>2 DEF HeartbeatForever
  <2> QED BY <1>1, <2>1, <2>2, <2>3
<1>3. ASSUME SendHeartbeat PROVE AgentInv'
  <2>1. /\ DOMAIN agent' = AgentFields /\ agent'.since = 0 /\ agent'.step = "resting"
        /\ agent'.refused = ~RequireNodeAuth
    BY <1>3 DEF SendHeartbeat, AgentFields
  <2>2. /\ agent'.running = agent.running /\ agent'.exp = agent.exp /\ agent'.id = agent.id
        /\ agent'.token = agent.token /\ agent'.failed = agent.failed
    BY <1>3 DEF SendHeartbeat, AgentFields
  <2>3. agent.step = "beating"
    BY <1>3 DEF SendHeartbeat
  <2>4. ~agent.failed /\ agent.id \in members => RequireNodeAuth
    <3>1. clock \in Nat /\ agent.since \in Nat /\ agent.token \in Nat /\ Timeout \in Nat
      OBVIOUS
    <3>2. clock <= agent.since + Timeout
      BY <2>3
    <3>3. ASSUME ~agent.failed PROVE clock < agent.token
      BY <2>3, <3>1, <3>2, <3>3
    <3> QED BY <3>3 DEF RequireNodeAuth
  <2>5. agent'.refused => agent'.id \notin members' \/ agent'.failed
    BY <1>1, <2>1, <2>2, <2>4
  <2> HIDE DEF RefusedForCause
  <2>6. RefusedForCause'
    BY <2>5 DEF RefusedForCause
  <2> QED BY <1>1, <2>1, <2>2, <2>3, <2>6
<1> QED BY <1>1, <1>2, <1>3, ChallengesStay

-----------------------------------------------------------------------------
(* A nonce mints one token at most, a machine has one place in the fleet   *)
(* but for accidents, runs as the node it has saved, and is refused only   *)
(* for cause: for any durations with two timeouts to spare.                *)
THEOREM IdentitiesHold == IdentitySpec => []IdentityHolds
<1>1. IdentityInv /\ [IdentityNext]_identityVars => IdentityInv'
  <2> SUFFICES ASSUME IdentityInv, [IdentityNext]_identityVars PROVE IdentityInv'
    OBVIOUS
  <2>1. CASE Start \/ RestartForUpdate
    <3>1. UNCHANGED challengeVars
      BY <2>1 DEF Start, RestartForUpdate
    <3> QED BY <2>1, <3>1, StartStep, ChallengesStay DEF IdentityInv
  <2>2. CASE UNCHANGED identityVars
    <3>1. UNCHANGED <<clock, fleetVars, challengeVars, diskVars, agent, starts>>
      BY <2>2 DEF identityVars
    <3>2. AgentInv'
      BY <3>1
      DEF IdentityInv, AgentInv, AgentTypes, SavedIsUsed, TokensLast, OnePlaceInTheFleet, RunsAsSaved,
          RefusedForCause, Waiting, fleetVars, diskVars, challengeVars
    <3> QED BY <3>1, <3>2, ChallengesStay DEF IdentityInv
  <2> QED
    BY <2>1, <2>2, ClockStep, OrchestratorStep, AskStep, RefreshStep, EnrollStep, SaveStep, CrashStep,
       BeatStep
    DEF IdentityNext
<1>2. IdentityInv => IdentityHolds
  BY DEF IdentityInv, ChallengeInv, AgentInv, IdentityHolds
<1> QED BY <1>1, <1>2, InitIdentityInv, PTL DEF IdentitySpec

-----------------------------------------------------------------------------
(* Sessions, attempts and keys.                                            *)
Between(s, a, b) == {i \in DOMAIN s : s[i] \in a .. b - 1}

SessionsInv ==
  \A token \in tokens : /\ token.start \in Nat /\ token.since \in Nat /\ token.exp \in Int
                        /\ token.start = token.since /\ token.exp - token.since <= MaxSession + Ttl

(* The attempts let through in the current window are counted; those of    *)
(* the time before that still weighs are of one window.                    *)
WindowTypes ==
  /\ window \in [started : Nat, count : Nat] /\ let \in Seq(Nat)
  /\ window.started <= now
  /\ \A i \in DOMAIN let : let[i] <= now /\ let[i] < window.started + Window

OneWindowEach ==
  /\ Cardinality(Between(let, window.started, window.started + Window)) <= window.count
  /\ Cardinality(Between(let, window.started, window.started + Window)) <= Attempts
  /\ \A t \in Nat : t + Window > window.started => Cardinality(Between(let, t, window.started)) <= Attempts

TwoWindowsPass == \A t \in Nat : Cardinality(Between(let, t, t + Window)) <= 2 * Attempts

(* Google publishes its newest key and the one before it, and a key that   *)
(* was left out of an answer is older than both.                           *)
KeysInv ==
  /\ \E n \in Nat : published = {n, IF n = 0 THEN 0 ELSE n - 1}
  /\ DOMAIN verifier = Verifiers /\ refused = {}
  /\ \A v \in Verifiers :
       /\ verifier[v] # NoVerifier =>
            verifier[v].kid \in Nat /\ \E k \in published : verifier[v].kid <= k
       /\ verifier[v].step = "last" =>
            verifier[v].kid \in verifier[v].keys \/ \A k \in published : verifier[v].kid < k

CredentialsInv == now \in Nat /\ SessionsInv /\ WindowTypes /\ OneWindowEach /\ TwoWindowsPass /\ KeysInv

LEMMA BetweenIsFinite ==
  ASSUME NEW s \in Seq(Nat), NEW a \in Int, NEW b \in Int
  PROVE  IsFiniteSet(Between(s, a, b)) /\ Cardinality(Between(s, a, b)) \in Nat
<1>1. IsFiniteSet(DOMAIN s) BY FS_Interval
<1> QED BY <1>1, FS_Subset, FS_CardinalityType DEF Between

(* What passed in a stretch of time passed before or after a point of it. *)
LEMMA BetweenSplits ==
  ASSUME NEW s \in Seq(Nat), NEW a \in Int, NEW b \in Int, NEW c \in Int
  PROVE  Cardinality(Between(s, a, c)) <= Cardinality(Between(s, a, b)) + Cardinality(Between(s, b, c))
<1> DEFINE U == Between(s, a, b) \cup Between(s, b, c)
<1>1. Between(s, a, c) \subseteq U
  BY DEF Between
<1>2. IsFiniteSet(U) /\ Cardinality(U) <= Cardinality(Between(s, a, b)) + Cardinality(Between(s, b, c))
  <2>1. IsFiniteSet(Between(s, a, b) \cap Between(s, b, c))
    BY BetweenIsFinite, FS_Intersection
  <2>2. Cardinality(Between(s, a, b) \cap Between(s, b, c)) \in Nat
    BY <2>1, FS_CardinalityType
  <2>3. IsFiniteSet(Between(s, a, b)) /\ IsFiniteSet(Between(s, b, c))
    BY BetweenIsFinite
  <2>4. /\ IsFiniteSet(U)
        /\ Cardinality(U) = Cardinality(Between(s, a, b)) + Cardinality(Between(s, b, c))
                             - Cardinality(Between(s, a, b) \cap Between(s, b, c))
    BY <2>3, FS_Union
  <2>5. Cardinality(Between(s, a, b)) \in Nat /\ Cardinality(Between(s, b, c)) \in Nat
    BY BetweenIsFinite
  <2> QED BY <2>2, <2>4, <2>5
<1>3. Cardinality(Between(s, a, c)) <= Cardinality(U)
  BY <1>1, <1>2, FS_Subset
<1> QED BY <1>2, <1>3, BetweenIsFinite, FS_CardinalityType

LEMMA BetweenShrinks ==
  ASSUME NEW s \in Seq(Nat), NEW a \in Int, NEW b \in Int, NEW c \in Int, NEW d \in Int,
         \A i \in DOMAIN s : s[i] \in a .. b - 1 => s[i] \in c .. d - 1
  PROVE  Cardinality(Between(s, a, b)) <= Cardinality(Between(s, c, d))
<1>1. Between(s, a, b) \subseteq Between(s, c, d)
  BY DEF Between
<1> QED BY <1>1, BetweenIsFinite, FS_Subset

LEMMA BetweenAppend ==
  ASSUME NEW s \in Seq(Nat), NEW x \in Nat, NEW a \in Int, NEW b \in Int
  PROVE  Cardinality(Between(Append(s, x), a, b)) =
           Cardinality(Between(s, a, b)) + (IF x \in a .. b - 1 THEN 1 ELSE 0)
<1>1. Len(s) + 1 \notin Between(s, a, b)
  BY DEF Between
<1>2. CASE x \in a .. b - 1
  <2>1. Between(Append(s, x), a, b) = Between(s, a, b) \cup {Len(s) + 1}
    BY <1>2 DEF Between
  <2> QED BY <1>1, <1>2, <2>1, BetweenIsFinite, FS_AddElement
<1>3. CASE x \notin a .. b - 1
  <2>1. Between(Append(s, x), a, b) = Between(s, a, b)
    BY <1>3 DEF Between
  <2> QED BY <1>3, <2>1, BetweenIsFinite
<1> QED BY <1>2, <1>3

LEMMA InitCredentialsInv == CredentialsInit => CredentialsInv
<1> SUFFICES ASSUME CredentialsInit PROVE CredentialsInv
  OBVIOUS
<1>1. \A a, b \in Int : Between(let, a, b) = {}
  BY DEF CredentialsInit, Between
<1>2. \A a, b \in Int : Cardinality(Between(let, a, b)) = 0
  BY <1>1, FS_EmptySet
<1>3. OneWindowEach /\ TwoWindowsPass
  BY <1>2, CredentialsAssumption DEF CredentialsInit, OneWindowEach, TwoWindowsPass
<1>4. WindowTypes /\ SessionsInv
  BY CredentialsAssumption DEF CredentialsInit, WindowTypes, SessionsInv
<1>5. KeysInv
  <2>1. published = {0, IF 0 = 0 THEN 0 ELSE 0 - 1}
    BY DEF CredentialsInit
  <2> QED BY <2>1 DEF CredentialsInit, KeysInv, NoVerifier
<1> QED BY <1>3, <1>4, <1>5 DEF CredentialsInv, CredentialsInit

(* An attempt opens a window, when those let through are all of the last   *)
(* one, or is one more of the current window.                              *)
LEMMA CheckStep ==
  ASSUME now \in Nat, WindowTypes, OneWindowEach, TwoWindowsPass, Check, UNCHANGED now
  PROVE  WindowTypes' /\ OneWindowEach' /\ TwoWindowsPass'
<1> DEFINE W == window.started
           V == window'.started
           A(a, b) == Cardinality(Between(let, a, b))
           B(a, b) == Cardinality(Between(let', a, b))
<1> USE CredentialsAssumption
<1>1. /\ W \in Nat /\ window.count \in Nat /\ let \in Seq(Nat) /\ W <= now
      /\ Window \in Nat \ {0} /\ Attempts \in Nat \ {0}
      /\ \A i \in DOMAIN let : let[i] \in Nat /\ let[i] <= now /\ let[i] < W + Window
  BY DEF WindowTypes
<1>2. /\ \A a, b \in Int : A(a, b) \in Nat
      /\ A(W, W + Window) <= window.count /\ A(W, W + Window) <= Attempts
      /\ \A t \in Nat : t + Window > W => A(t, W) <= Attempts
      /\ \A t \in Nat : A(t, t + Window) <= 2 * Attempts
  BY <1>1, BetweenIsFinite DEF OneWindowEach, TwoWindowsPass
<1>6. W \in Int /\ W + Window \in Int /\ \A t \in Nat : t \in Int /\ t + Window \in Int
  BY <1>1
<1>7. A(W, W + Window) \in Nat
  BY <1>2, <1>6
<1>3. CASE ~EnforceRateLimit /\ ~Elapsed
  <2>1. let' = let /\ V = W /\ window'.count = window.count + 1
        /\ window' \in [started : Nat, count : Nat]
    BY <1>1, <1>3, SMTT(30) DEF Check, Counted, WindowTypes
  <2>2. WindowTypes'
    BY <1>1, <2>1 DEF WindowTypes
  <2>3. TwoWindowsPass'
    BY <2>1 DEF TwoWindowsPass
  <2>4. A(W, W + Window) <= window'.count
    <3> DEFINE x == A(W, W + Window)
    <3>1. x \in Nat /\ x <= window.count
      BY <1>2, <1>7
    <3> HIDE DEF x
    <3>2. x <= window'.count
      BY <1>1, <2>1, <3>1
    <3> QED BY <3>2 DEF x
  <2> QED BY <1>2, <2>1, <2>2, <2>3, <2>4 DEF OneWindowEach
<1>4. CASE EnforceRateLimit
  <2>1. let' = Append(let, now) /\ let' \in Seq(Nat)
    BY <1>1, <1>4 DEF Check
  <2>2. \A a, b \in Int : B(a, b) = A(a, b) + (IF now \in a .. b - 1 THEN 1 ELSE 0)
    BY <1>1, <2>1, BetweenAppend
  <2>10. \A a, b \in Int : B(a, b) \in Nat
    BY <2>1, BetweenIsFinite
  <2>11. \A a, b, c \in Int : B(a, c) <= B(a, b) + B(b, c)
    BY <2>1, BetweenSplits
  <2>3. /\ V \in Nat /\ V <= now /\ now < V + Window /\ window'.count \in Nat
        /\ window' \in [started : Nat, count : Nat]
        /\ \/ ~Elapsed /\ V = W /\ window'.count = window.count + 1 /\ window'.count <= Attempts
           \/ Elapsed /\ V = now /\ W + Window <= now /\ window'.count = 1
    <3>1. CASE Elapsed
      BY <1>1, <1>4, <3>1, SMTT(30) DEF Check, Counted, EnforceRateLimit, Elapsed
    <3>2. CASE ~Elapsed
      <4>1. window' = [window EXCEPT !.count = @ + 1]
        BY <3>2 DEF Check, Counted
      <4>2. V = W /\ window'.count = window.count + 1 /\ window' \in [started : Nat, count : Nat]
        BY <4>1 DEF WindowTypes
      <4> QED BY <1>1, <1>4, <3>2, <4>1, <4>2 DEF Counted, EnforceRateLimit, Elapsed
    <3> QED BY <3>1, <3>2
  <2>4. \A i \in DOMAIN let' : let'[i] \in Nat /\ let'[i] <= now /\ let'[i] < V + Window
    BY <1>1, <2>1, <2>3, SMTT(30)
  <2>5. WindowTypes'
    BY <2>1, <2>3, <2>4 DEF WindowTypes
  <2>6. B(V, V + Window) <= window'.count /\ B(V, V + Window) <= Attempts
    <3>1. CASE Elapsed
      <4>1. Between(let, V, V + Window) = {}
        BY <1>1, <2>3, <3>1, SMTT(30) DEF Between
      <4>2. A(V, V + Window) = 0
        BY <4>1, FS_EmptySet
      <4>3. now \in V .. (V + Window) - 1 /\ V + Window \in Int
        BY <1>1, <2>3
      <4>4. B(V, V + Window) = 1
        BY <2>2, <2>3, <4>2, <4>3
      <4> QED BY <1>1, <2>3, <3>1, <4>4
    <3>2. CASE ~Elapsed
      <4> DEFINE x == A(W, W + Window)
                 y == B(W, W + Window)
      <4>1. now \in W .. (W + Window) - 1 /\ W + Window \in Int /\ V = W
        BY <1>1, <2>3, <3>2
      <4>2. x \in Nat /\ x <= window.count
        BY <1>2, <1>7
      <4>4. y = x + 1
        BY <1>6, <2>2, <4>1
      <4> HIDE DEF x, y
      <4>3. y <= window'.count /\ y <= Attempts
        BY <1>1, <2>3, <3>2, <4>2, <4>4
      <4> QED BY <4>1, <4>3 DEF y
    <3> QED BY <3>1, <3>2
  <2>7. ASSUME NEW t \in Nat, t + Window > V PROVE B(t, V) <= Attempts
    <3>1. A(t, V) <= Attempts
      <4>1. CASE Elapsed
        <5> DEFINE x == A(t, V)
                   y == A(W, W + Window)
        <5>1. \A i \in DOMAIN let : let[i] \in t .. V - 1 => let[i] \in W .. (W + Window) - 1
          <6>1. t >= W
            BY <1>1, <2>3, <2>7, <4>1
          <6> TAKE i \in DOMAIN let
          <6>2. let[i] \in Nat /\ let[i] < W + Window
            BY <1>1
          <6> DEFINE l == let[i]
          <6>3. W \in Int /\ W + Window \in Int /\ l \in Int /\ t >= W /\ l < W + Window
            BY <1>6, <6>1, <6>2
          <6> HIDE DEF l
          <6>4. l \in t .. V - 1 => l \in W .. (W + Window) - 1
            BY <2>3, <6>3
          <6> QED BY <6>4 DEF l
        <5>2. V \in Int /\ W \in Int /\ W + Window \in Int /\ t \in Int
          BY <1>6, <2>3
        <5>3. x <= y
          BY <1>1, <5>1, <5>2, BetweenShrinks
        <5>4. x \in Nat /\ y \in Nat /\ y <= Attempts
          BY <1>2, <5>2
        <5> HIDE DEF x, y
        <5>5. x <= Attempts
          BY <1>1, <5>3, <5>4
        <5> QED BY <5>5 DEF x
      <4>2. CASE ~Elapsed
        BY <1>2, <2>3, <2>7, <4>2
      <4> QED BY <4>1, <4>2
    <3>2. now \notin t .. V - 1 /\ V \in Int /\ t \in Int
      BY <1>1, <1>6, <2>3
    <3>3. B(t, V) = A(t, V)
      <4> DEFINE x == A(t, V)
      <4>1. x \in Nat /\ B(t, V) = x + 0
        BY <1>2, <2>2, <3>2
      <4> HIDE DEF x
      <4>2. x + 0 = x
        BY <4>1
      <4> QED BY <4>1, <4>2 DEF x
    <3> QED BY <3>1, <3>3
  <2>8. OneWindowEach'
    BY <2>6, <2>7 DEF OneWindowEach
  <2>9. ASSUME NEW t \in Nat PROVE B(t, t + Window) <= 2 * Attempts
    <3> DEFINE x == A(t, t + Window)
               y == B(t, t + Window)
    <3>1. t \in Int /\ t + Window \in Int /\ V \in Int /\ V + Window \in Int
      BY <1>1, <1>6, <2>3
    <3>2. CASE now \notin t .. (t + Window) - 1
      <4>1. x \in Nat /\ x <= 2 * Attempts
        BY <1>2, <3>1
      <4>3. y = x + 0
        BY <2>2, <3>1, <3>2
      <4> HIDE DEF x, y
      <4>2. y <= 2 * Attempts
        BY <1>1, <4>1, <4>3
      <4> QED BY <4>2 DEF y
    <3>3. CASE now \in t .. (t + Window) - 1
      <4> DEFINE early == B(t, V)
                 since == B(V, t + Window)
                 all == B(V, V + Window)
      <4>1. t + Window > V
        BY <1>1, <2>3, <3>3
      <4>2. early <= Attempts
        BY <2>7, <4>1
      <4>3. y <= early + since
        BY <2>11, <3>1
      <4>4. \A i \in DOMAIN let' : let'[i] \in V .. (t + Window) - 1 => let'[i] \in V .. (V + Window) - 1
        BY <1>1, <2>3, <2>4
      <4>5. since <= all
        BY <2>1, <3>1, <4>4, BetweenShrinks
      <4>6. y \in Nat /\ early \in Nat /\ since \in Nat /\ all \in Nat
        BY <2>10, <3>1
      <4>7. all <= Attempts
        BY <2>6
      <4> HIDE DEF y, early, since, all
      <4>8. y <= 2 * Attempts
        BY <1>1, <4>2, <4>3, <4>5, <4>6, <4>7
      <4> QED BY <4>8 DEF y
    <3> QED BY <3>2, <3>3
  <2> QED BY <2>5, <2>8, <2>9 DEF TwoWindowsPass
<1>5. CASE Elapsed /\ ~EnforceRateLimit
  BY <1>1, <1>5 DEF EnforceRateLimit, Counted
<1> QED BY <1>3, <1>4, <1>5

LEMMA KeyStep ==
  ASSUME KeysInv,
         RotateKeys \/ \E v \in Verifiers :
           VerifyGoogleIdToken(v) \/ GoogleAnswers(v) \/ GoogleUnavailable(v) \/ StoreKeys(v)
  PROVE  KeysInv'
<1>1. PICK n \in Nat : published = {n, IF n = 0 THEN 0 ELSE n - 1}
  BY DEF KeysInv
<1>2. CASE RotateKeys
  <2>1. Max(published) = n
    BY <1>1 DEF Max
  <2>2. published' = {n + 1, n} /\ UNCHANGED <<verifier, refused>>
    BY <1>2, <2>1 DEF RotateKeys
  <2>3. published' = {n + 1, IF n + 1 = 0 THEN 0 ELSE (n + 1) - 1}
    BY <2>2
  <2>4. ASSUME NEW v \in Verifiers
        PROVE  /\ verifier[v] # NoVerifier =>
                    verifier[v].kid \in Nat /\ \E k \in published' : verifier[v].kid <= k
               /\ verifier[v].step = "last" =>
                    verifier[v].kid \in verifier[v].keys \/ \A k \in published' : verifier[v].kid < k
    <3>1. verifier[v].step = "last" => verifier[v] # NoVerifier
      BY DEF NoVerifier
    <3>2. verifier[v] # NoVerifier => verifier[v].kid \in Nat /\ verifier[v].kid <= n
      BY <1>1 DEF KeysInv
    <3> QED BY <1>1, <2>2, <3>1, <3>2 DEF KeysInv
  <2> QED BY <2>2, <2>3, <2>4 DEF KeysInv
<1>3. ASSUME NEW v \in Verifiers,
             VerifyGoogleIdToken(v) \/ GoogleAnswers(v) \/ GoogleUnavailable(v) \/ StoreKeys(v)
      PROVE  KeysInv'
  <2> DEFINE q == verifier'[v]
  <2>1. published' = published /\ DOMAIN verifier' = Verifiers
        /\ \A u \in Verifiers : u # v => verifier'[u] = verifier[u]
    BY <1>3 DEF KeysInv, VerifyGoogleIdToken, GoogleAnswers, GoogleUnavailable, StoreKeys
  <2>2. refused' = {}
    BY <1>1, <1>3
    DEF KeysInv, VerifyGoogleIdToken, GoogleAnswers, GoogleUnavailable, StoreKeys
  <2>3. q # NoVerifier => q.kid \in Nat /\ \E k \in published : q.kid <= k
    BY <1>1, <1>3
    DEF KeysInv, VerifyGoogleIdToken, GoogleAnswers, GoogleUnavailable, StoreKeys, NoVerifier
  <2>4. q.step = "last" => q.kid \in q.keys \/ \A k \in published : q.kid < k
    <3>1. q.step = "last" => GoogleAnswers(v)
      BY <1>3 DEF KeysInv, VerifyGoogleIdToken, GoogleUnavailable, StoreKeys, NoVerifier
    <3>2. GoogleAnswers(v) => q.keys = published /\ q # NoVerifier
      BY DEF KeysInv, GoogleAnswers, NoVerifier
    <3> HIDE DEF q
    <3> QED BY <1>1, <2>3, <3>1, <3>2
  <2> QED BY <2>1, <2>2, <2>3, <2>4, <1>1 DEF KeysInv
<1> QED BY <1>2, <1>3

LEMMA CredentialsStep ==
  ASSUME CredentialsInv, SessionNext \/ KeyNext \/ UNCHANGED credentialVars PROVE CredentialsInv'
<1> USE CredentialsAssumption
<1>1. CASE TimePasses
  <2>1. now' = now + 1 /\ UNCHANGED <<sessionVars, keyVars>>
    BY <1>1 DEF TimePasses
  <2>2. WindowTypes'
    <3>1. now' \in Nat /\ window.started <= now' /\ \A i \in DOMAIN let : let[i] <= now'
      BY <2>1 DEF CredentialsInv, WindowTypes
    <3> QED BY <2>1, <3>1 DEF CredentialsInv, WindowTypes, sessionVars
  <2> QED BY <2>1, <2>2
    DEF CredentialsInv, sessionVars, keyVars, SessionsInv, OneWindowEach, TwoWindowsPass, KeysInv
<1>2. CASE UNCHANGED credentialVars
  BY <1>2
  DEF CredentialsInv, credentialVars, sessionVars, keyVars, SessionsInv, WindowTypes, OneWindowEach,
      TwoWindowsPass, KeysInv
<1>3. CASE Login
  <2>1. WindowTypes' /\ OneWindowEach' /\ TwoWindowsPass'
    BY <1>3, CheckStep DEF Login, CredentialsInv
  <2>2. SessionsInv'
    BY <1>3 DEF Login, CredentialsInv, SessionsInv, CreateUserJwt
  <2> QED BY <1>3, <2>1, <2>2 DEF Login, keyVars, CredentialsInv, KeysInv
<1>4. CASE Refresh
  <2>1. SessionsInv'
    BY <1>4 DEF Refresh, CredentialsInv, SessionsInv, CreateUserJwt, SessionStart, RequireUser, Valid
  <2> QED BY <1>4, <2>1
    DEF Refresh, keyVars, CredentialsInv, KeysInv, WindowTypes, OneWindowEach, TwoWindowsPass
<1>5. CASE SetDisabled
  BY <1>5
  DEF SetDisabled, keyVars, CredentialsInv, KeysInv, WindowTypes, OneWindowEach, TwoWindowsPass, SessionsInv
<1>6. ASSUME RotateKeys \/ \E v \in Verifiers :
               VerifyGoogleIdToken(v) \/ GoogleAnswers(v) \/ GoogleUnavailable(v) \/ StoreKeys(v)
      PROVE  CredentialsInv'
  <2>1. UNCHANGED <<now, sessionVars>>
    BY <1>6 DEF RotateKeys, VerifyGoogleIdToken, GoogleAnswers, GoogleUnavailable, StoreKeys
  <2>2. KeysInv'
    BY <1>6, KeyStep DEF CredentialsInv
  <2> QED BY <2>1, <2>2
    DEF sessionVars, CredentialsInv, WindowTypes, OneWindowEach, TwoWindowsPass, SessionsInv
<1> QED BY <1>1, <1>2, <1>3, <1>4, <1>5, <1>6 DEF SessionNext, KeyNext

LEMMA CredentialsInvHolds == CredentialsInv => CredentialsHold
<1> SUFFICES ASSUME CredentialsInv PROVE CredentialsHold
  OBVIOUS
<1>1. SessionsEnd /\ KeysAreFound
  BY DEF CredentialsInv, SessionsInv, KeysInv, SessionsEnd, KeysAreFound
<1>2. Throttled
  BY CredentialsAssumption DEF CredentialsInv, TwoWindowsPass, Throttled, Between
<1> QED BY <1>1, <1>2 DEF CredentialsHold

-----------------------------------------------------------------------------
(* A sign-in ends with the longest session however often it is renewed, no *)
(* more than two windows' attempts pass in the length of one, no key that  *)
(* Google publishes is taken for an unknown one however answers overtake   *)
(* each other, and a sign-in by Google leads to the account it was         *)
(* introduced to.                                                          *)
THEOREM CredentialsStayCurrent == Spec => []CredentialsAreCurrent
<1>1. Init => CredentialsInv /\ AccountsInv
  BY InitCredentialsInv, InitAccountsInv DEF Init
<1>2. CredentialsInv /\ AccountsInv /\ [Next]_vars => CredentialsInv' /\ AccountsInv'
  <2> SUFFICES ASSUME CredentialsInv, AccountsInv, [Next]_vars PROVE CredentialsInv' /\ AccountsInv'
    OBVIOUS
  <2>1. SessionNext \/ KeyNext \/ UNCHANGED credentialVars
    BY DEF Next, vars
  <2>2. [AccountsNext]_accountVars
    BY DEF Next, vars
  <2>3. AccountsInv'
    BY <2>2, NextShapes, NextCountedOthers, NextIntroducedByAddress, NextBindingFollowsAddress
    DEF AccountsInv
  <2> QED BY <2>1, <2>3, CredentialsStep
<1>3. CredentialsInv /\ AccountsInv => CredentialsAreCurrent
  BY CredentialsInvHolds DEF CredentialsAreCurrent, AccountsInv
<1> QED BY <1>1, <1>2, <1>3, PTL DEF Spec
=============================================================================
