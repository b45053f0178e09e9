----------------------------- MODULE MCAccounts -----------------------------
(***************************************************************************)
(* Instances for TLC of accounts and of credentials.  What a credential    *)
(* needs of an account is only whether it is enabled, so a behaviour is    *)
(* one of accounts, of user sessions, of Google's keys or of a machine's   *)
(* identity.                                                               *)
(***************************************************************************)
EXTENDS Accounts, Credentials, Identity

VARIABLE part  \* what a behaviour is about

vars == <<part, accountVars, credentialVars, identityVars>>

Init ==
  /\ part \in {"account", "session", "key", "machine"}
  /\ AccountsInit /\ CredentialsInit /\ IdentityInit
  /\ part # "account" => \A e, f \in Emails : holder[e] = holder[f]

Next ==
  /\ UNCHANGED part
  /\ \/ part = "account" /\ AccountsNext /\ UNCHANGED <<credentialVars, identityVars>>
     \/ part = "session" /\ SessionNext /\ UNCHANGED <<accountVars, identityVars>>
     \/ part = "key" /\ KeyNext /\ UNCHANGED <<accountVars, identityVars>>
     \/ part = "machine" /\ IdentityNext /\ UNCHANGED <<accountVars, credentialVars>>

Spec == Init /\ [][Next]_vars

-----------------------------------------------------------------------------
CONSTANTS root, ops, m1, m2

MailboxOf == <<m1, m2>>
AddressOf == [n \in {root, ops} |-> IF n = root THEN Nothing ELSE CHOOSE e \in Emails : TRUE]

NoChange == [role |-> Nothing, enabled |-> Nothing, password |-> FALSE, email |-> "keep"]

ChangesOf ==
  {[NoChange EXCEPT !.role = "OPERATOR"], [NoChange EXCEPT !.enabled = FALSE],
   [NoChange EXCEPT !.role = "ADMIN", !.enabled = TRUE], [NoChange EXCEPT !.email = Nothing]}
  \cup {[NoChange EXCEPT !.role = "OPERATOR", !.email = e] : e \in Emails}

-----------------------------------------------------------------------------
(* What lets somebody in is limited in time, in number and to its bearer,  *)
(* and a sign-in by Google leads to the account it was introduced to.      *)
CredentialsAreCurrent == CredentialsHold /\ BindingFollowsAddress
=============================================================================
