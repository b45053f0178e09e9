------------------------------ MODULE Identity ------------------------------
(***************************************************************************)
(* Who a machine is to the orchestrator.  The agent enrolls once, keeps    *)
(* the identity it got in a file, and from then on proves it by signing a  *)
(* nonce, at every start and whenever its access token is about to end.    *)
(* Either side may fail between two steps, and an answer may be lost or    *)
(* come after the agent has given up.                                      *)
(***************************************************************************)
EXTENDS Integers, Sequences, FiniteSets

CONSTANTS
  Nodes,        \* identities, as they are handed out
  Invitations,  \* enrollment tokens
  Nonces,       \* challenges that are issued
  NonceTtl,     \* auth_nonce_ttl_seconds
  NodeTtl,      \* jwt_access_token_ttl_seconds
  Margin,       \* _REFRESH_MARGIN_SECONDS
  Timeout,      \* of the agent's HTTP client
  MaxStarts,    \* bound on the agent's starts
  MaxClock,     \* bound on the clock
  None

ASSUME IdentityAssumption ==
  /\ {NonceTtl, NodeTtl, Margin, Timeout} \subseteq Nat \ {0} 
  /\ Margin > 2 * Timeout /\ NodeTtl > 2 * Timeout
  /\ MaxStarts \in Nat /\ MaxClock \in Nat
  /\ {None, "torn"} \cap Nodes = {}

VARIABLES
  clock,
  members,    \* nodes that have enrolled and have not been removed
  born,       \* nodes that have enrolled
  invitation, \* enrollment tokens
  challenge,  \* nonces: for whom, until when, used
  sent,       \* nonces that were sent back, signed
  consuming,  \* the transactions that have consumed a nonce
  granted,    \* node tokens minted, by nonce
  reply,      \* and the answer on its way: its status, the end of its token
  saved,      \* state.json
  agent,      \* the agent's process
  accidents,  \* identities the machine lost though they were good
  starts

challengeVars == <<challenge, sent, consuming, granted, reply>>
fleetVars == <<members, born, invitation>>
diskVars == <<saved, accidents>>
identityVars == <<clock, fleetVars, challengeVars, diskVars, agent, starts>>

Unissued == [node |-> None, expires |-> 0, used |-> FALSE]
NoReply == [status |-> "none", exp |-> 0]
Off == [step |-> "off", running |-> FALSE, id |-> None, nonce |-> None, offered |-> None,
        exp |-> 0, token |-> 0, since |-> 0, late |-> FALSE, failed |-> FALSE, refused |-> FALSE]

(* Which of the ones not used yet comes next makes no difference.          *)
NextOf(set) == IF set = {} THEN {} ELSE {CHOOSE x \in set : TRUE}

IdentityTypeOK ==
  /\ clock \in 0 .. MaxClock /\ starts \in 0 .. MaxStarts
  /\ members \subseteq born /\ born \subseteq Nodes
  /\ invitation \in [Invitations -> {"absent", "active", "used", "withdrawn"}]
  /\ \A c \in Nonces : challenge[c].node \in Nodes \cup {None}
  /\ sent \subseteq Nonces /\ consuming \subseteq sent
  /\ granted \in [Nonces -> Seq(Nodes)]
  /\ \A c \in Nonces : reply[c].status \in {"none", "200", "401", "500"}
  /\ saved \in Nodes \cup {None, "torn"} /\ accidents \subseteq Nodes
  /\ agent.step \in {"off", "asking", "signed", "enrolling", "enrolled", "resting", "beating"}

IdentityInit ==
  /\ clock = 0 /\ starts = 0 /\ members = {} /\ born = {}
  /\ invitation = [i \in Invitations |-> "absent"]
  /\ challenge = [c \in Nonces |-> Unissued] /\ sent = {} /\ consuming = {}
  /\ granted = [c \in Nonces |-> <<>>] /\ reply = [c \in Nonces |-> NoReply]
  /\ saved = None /\ accidents = {} /\ agent = Off

-----------------------------------------------------------------------------
(* The orchestrator.  A nonce has not been issued before.                  *)
IssueChallenge(n, c) ==
  /\ n \in members
  /\ challenge' = [challenge EXCEPT ![c] = [node |-> n, expires |-> clock + NonceTtl, used |-> FALSE]]

Consumable(c) == ~challenge[c].used /\ challenge[c].expires > clock

(* The row is updated under its lock, which is held until the answer is    *)
(* committed: a second request with the nonce waits, and finds it used.    *)
ConsumeChallenge(c) ==
  /\ c \in sent \ consuming /\ Consumable(c)
  /\ challenge' = [challenge EXCEPT ![c].used = TRUE] /\ consuming' = consuming \cup {c}
  /\ UNCHANGED <<clock, fleetVars, sent, granted, reply, diskVars, agent, starts>>

RefuseChallenge(c) ==
  /\ c \in sent \ consuming /\ ~Consumable(c) /\ reply[c] = NoReply
  /\ reply' = [reply EXCEPT ![c].status = "401"]
  /\ UNCHANGED <<clock, fleetVars, challenge, sent, consuming, granted, diskVars, agent, starts>>

CreateNodeJwt(c) == [status |-> "200", exp |-> clock + NodeTtl]

(* A nonce stays used, unless its transaction fails.                       *)
RefreshToken(c) ==
  LET n == challenge[c].node IN
  /\ c \in consuming /\ consuming' = consuming \ {c}
  /\ \/ /\ n \in members
        /\ granted' = [granted EXCEPT ![c] = Append(@, n)]
        /\ reply' = [reply EXCEPT ![c] = CreateNodeJwt(c)] /\ UNCHANGED challenge
     \/ /\ n \notin members
        /\ reply' = [reply EXCEPT ![c].status = "401"] /\ UNCHANGED <<challenge, granted>>
     \/ /\ challenge' = [challenge EXCEPT ![c].used = FALSE]
        /\ reply' = [reply EXCEPT ![c].status = "500"] /\ UNCHANGED granted
  /\ UNCHANGED <<clock, fleetVars, sent, diskVars, agent, starts>>

(* A person mints an enrollment token, and may withdraw it; or it expires. *)
CreateEnrollmentToken ==
  /\ \E i \in NextOf({j \in Invitations : invitation[j] = "absent"}) :
       invitation' = [invitation EXCEPT ![i] = "active"]
  /\ UNCHANGED <<clock, members, born, challengeVars, diskVars, agent, starts>>

RevokeEnrollmentToken ==
  /\ \E i \in Invitations :
       invitation[i] = "active" /\ invitation' = [invitation EXCEPT ![i] = "withdrawn"]
  /\ UNCHANGED <<clock, members, born, challengeVars, diskVars, agent, starts>>

(* The token is claimed and the node made in one transaction.              *)
RegisterNode(n, token) ==
  /\ invitation[token] = "active" /\ invitation' = [invitation EXCEPT ![token] = "used"]
  /\ born' = born \cup {n} /\ members' = members \cup {n}

DecommissionNode(n) ==
  /\ n \in members /\ members' = members \ {n}
  /\ UNCHANGED <<clock, born, invitation, challengeVars, diskVars, agent, starts>>

RequireNodeAuth == clock < agent.token /\ agent.id \in members

(* No request of the agent is waited for longer than its timeout.          *)
ClockTicks ==
  /\ clock < MaxClock /\ clock' = clock + 1
  /\ agent.step \in {"signed", "enrolled", "beating"} => clock - agent.since < Timeout
  /\ UNCHANGED <<fleetVars, challengeVars, diskVars, agent, starts>>

-----------------------------------------------------------------------------
(* The agent.  It is started with an enrollment token or without, and      *)
(* cannot read a file that was left half written.                          *)
LoadState(offered) ==
  IF saved \in Nodes THEN [Off EXCEPT !.step = "asking", !.id = saved, !.offered = offered]
  ELSE IF saved = None /\ offered # None THEN [Off EXCEPT !.step = "enrolling", !.offered = offered]
  ELSE Off

Start ==
  /\ agent = Off /\ starts < MaxStarts /\ starts' = starts + 1
  /\ \E offered \in {i \in Invitations : invitation[i] # "absent"} \cup {None} : agent' = LoadState(offered)
  /\ UNCHANGED <<clock, fleetVars, challengeVars, diskVars>>

(* Only an answer that says so is a rejection.                             *)
AnyAnswer(status) == status \in {"404", "401", "500"}                    \* mutant
Rejected(status) == status \in {"404", "401"}

(* At its start the agent gives up, or enrolls anew with a token it was    *)
(* given; later it carries on with the access token it has.                *)
AfterRefreshFailed(status) ==
  IF agent.running
    THEN [agent EXCEPT !.step = "beating", !.nonce = None, !.since = clock, !.failed = TRUE]
  ELSE IF Rejected(status) /\ agent.offered # None
    THEN [Off EXCEPT !.step = "enrolling", !.offered = agent.offered,
                     !.late = status = "401" /\ agent.id \in members]
  ELSE Off

AskChallenge ==
  /\ agent.step = "asking"
  /\ \/ \E c \in NextOf({d \in Nonces : challenge[d] = Unissued}) :
          /\ IssueChallenge(agent.id, c)
          /\ \/ /\ agent' = [agent EXCEPT !.step = "signed", !.nonce = c, !.since = clock]
                /\ sent' = sent \cup {c}
             \/ agent' = AfterRefreshFailed("lost") /\ UNCHANGED sent
     \/ /\ agent' = AfterRefreshFailed(IF agent.id \in members THEN "500" ELSE "404")
        /\ UNCHANGED <<challenge, sent>>
  /\ UNCHANGED <<clock, fleetVars, consuming, granted, reply, diskVars, starts>>

(* The agent counts the token's life from the answer's arrival.            *)
RefreshAnswered ==
  LET answer == reply[agent.nonce] IN
  /\ agent.step = "signed" /\ answer # NoReply
  /\ agent' = IF answer.status = "200"
       THEN [agent EXCEPT !.step = "beating", !.running = TRUE, !.nonce = None, !.since = clock,
                          !.exp = clock + NodeTtl, !.token = answer.exp, !.failed = FALSE]
       ELSE AfterRefreshFailed(answer.status)
  /\ UNCHANGED <<clock, fleetVars, challengeVars, diskVars, starts>>

RefreshLost ==
  /\ agent.step = "signed" /\ agent' = AfterRefreshFailed("lost")
  /\ UNCHANGED <<clock, fleetVars, challengeVars, diskVars, starts>>

(* The token is spent with the registration, heard of or not.              *)
Enroll ==
  /\ agent.step = "enrolling"
  /\ \/ \E n \in NextOf(Nodes \ born) :
          /\ RegisterNode(n, agent.offered)
          /\ \/ /\ agent' = [agent EXCEPT !.step = "enrolled", !.id = n, !.since = clock,
                                          !.token = clock + NodeTtl]
                /\ UNCHANGED accidents
             \/ agent' = Off /\ accidents' = accidents \cup {n}
     \/ agent' = Off /\ UNCHANGED <<fleetVars, accidents>>
  /\ UNCHANGED <<clock, challengeVars, saved, starts>>

Enrolled == [agent EXCEPT !.step = "beating", !.running = TRUE, !.since = clock, !.exp = clock + NodeTtl]

SaveState ==
  /\ agent.step = "enrolled" /\ saved' = agent.id
  /\ accidents' = accidents \cup {n \in {saved} : agent.late}
  /\ agent' = Enrolled
  /\ UNCHANGED <<clock, fleetVars, challengeVars, starts>>

(* What is being saved is lost, and perhaps what had been.                 *)
Crash ==
  /\ agent # Off /\ agent' = Off
  /\ \/ /\ accidents' = accidents \cup {n \in {agent.id} : agent.step = "enrolled"}
        /\ UNCHANGED saved
     \/ /\ agent.step = "enrolled" /\ saved' = "torn"
        /\ accidents' = accidents \cup {agent.id} \cup {n \in Nodes : n = saved}
  /\ UNCHANGED <<clock, fleetVars, challengeVars, starts>>

(* The installer starts it again, with the token it was first given.       *)
RestartForUpdate ==
  /\ agent.running /\ starts < MaxStarts /\ starts' = starts + 1
  /\ agent' = LoadState(agent.offered)
  /\ UNCHANGED <<clock, fleetVars, challengeVars, diskVars>>

HeartbeatForever ==
  /\ agent.step = "resting"
  /\ agent' = [agent EXCEPT !.since = clock,
                            !.step = IF clock > agent.exp - Margin THEN "asking" ELSE "beating"]
  /\ UNCHANGED <<clock, fleetVars, challengeVars, diskVars, starts>>

SendHeartbeat ==
  /\ agent.step = "beating"
  /\ agent' = [agent EXCEPT !.step = "resting", !.since = 0, !.refused = ~RequireNodeAuth]
  /\ UNCHANGED <<clock, fleetVars, challengeVars, diskVars, starts>>

IdentityNext ==
  \/ ClockTicks \/ Start \/ AskChallenge \/ RefreshAnswered \/ RefreshLost \/ Enroll
  \/ CreateEnrollmentToken \/ RevokeEnrollmentToken
  \/ SaveState \/ Crash \/ RestartForUpdate \/ HeartbeatForever \/ SendHeartbeat
  \/ \E c \in Nonces : ConsumeChallenge(c) \/ RefuseChallenge(c) \/ RefreshToken(c)
  \/ \E n \in Nodes : DecommissionNode(n)

-----------------------------------------------------------------------------
(* A nonce mints one token at most, for the node it was issued to, and     *)
(* only once the transaction that consumed it has committed.               *)
NonceMintsOnce ==
  \A c \in Nonces :
    /\ Len(granted[c]) <= 1 /\ (granted[c] # <<>> => granted[c] = <<challenge[c].node>>)
    /\ granted[c] # <<>> => challenge[c].used

(* A machine has no more than one place in the fleet, the one it has the   *)
(* key of, but for registrations it never heard of or could not keep, and  *)
(* identities that were refused because the nonce had run out.             *)
OnePlaceInTheFleet ==
  members \subseteq {saved} \cup accidents \cup {n \in {agent.id} : agent.step = "enrolled"}

(* The identity a running agent uses is the one it will start with again.  *)
RunsAsSaved == agent.running => agent.id = saved

(* A heartbeat is refused only of a machine that was removed, or that      *)
(* tried to renew its access token in time and failed.                     *)
RefusedForCause ==
  agent.refused /\ agent.step = "resting" => agent.id \notin members \/ agent.failed

IdentityHolds == NonceMintsOnce /\ OnePlaceInTheFleet /\ RunsAsSaved /\ RefusedForCause
=============================================================================
