------------------------------ MODULE Accounts ------------------------------
(***************************************************************************)
(* User accounts: administrators edit them, newcomers register, and Google *)
(* vouches for the holder of an address, whom the first sign-in binds to   *)
(* an account.  Every request reads, decides and writes without a lock on  *)
(* what it read, and writes the columns it changed; only the unique        *)
(* indexes on username, address and subject stand between two of them.     *)
(*                                                                         *)
(* A username is never changed, so it stands for its account.              *)
(***************************************************************************)
EXTENDS Naturals, Sequences, FiniteSets, SequencesExt

CONSTANTS
  Names,              \* usernames
  Founders,           \* accounts of the first administrators
  Address,            \* and the addresses they start with
  Mailbox,            \* usernames made from an address, as they are tried
  Emails,
  Subjects,           \* Google accounts
  Changes,            \* edits that are asked for
  AllowRegistration,
  Requests,           \* requests being served at the same time
  MaxCalls,           \* bound on the requests
  Nothing             \* no address, no subject, no change

ASSUME AccountsAssumption ==
  /\ Founders \subseteq Names /\ ToSet(Mailbox) \subseteq Names
  /\ Nothing \notin Emails \cup Subjects
  /\ AllowRegistration \in BOOLEAN /\ MaxCalls \in Nat

VARIABLES
  account,    \* rows by username
  holder,     \* the Google account that has an address
  request,    \* what a request has read and is about to write
  bound,      \* the address by which an account was bound
  overtaken,  \* accounts whose binding was not as it was read when it was written
  calls

accountVars == <<account, holder, request, bound, overtaken, calls>>

Roles == {"ADMIN", "OPERATOR"}
Row == [role : Roles, enabled : BOOLEAN, password : BOOLEAN,
        email : Emails \cup {Nothing}, sub : Subjects \cup {Nothing}]
Change == [role : Roles \cup {Nothing}, enabled : BOOLEAN \cup {Nothing}, password : BOOLEAN,
           email : Emails \cup {Nothing, "keep"}]

Idle == [step |-> "idle"]
InEdit == {"loaded", "counted", "shell"}
InSignIn == {"verified", "stranger", "newcomer", "matched"}

AccountsTypeOK ==
  /\ DOMAIN account \subseteq Names /\ \A n \in DOMAIN account : account[n] \in Row
  /\ holder \in [Emails -> Subjects] /\ bound \in [Names -> Emails \cup {Nothing}]
  /\ overtaken \subseteq Names /\ calls \in 0 .. MaxCalls
  /\ Changes \subseteq Change
  /\ \A r \in Requests : request[r].step \in {"idle"} \cup InEdit \cup InSignIn

Admins(rows) == {n \in DOMAIN rows : rows[n].role = "ADMIN" /\ rows[n].enabled}

AccountsInit ==
  /\ account = [n \in Founders |->
       [role |-> "ADMIN", enabled |-> TRUE, password |-> TRUE,
        email |-> Address[n], sub |-> Nothing]]
  /\ holder \in [Emails -> Subjects]
  /\ request = [r \in Requests |-> Idle]
  /\ bound = [n \in Names |-> Nothing] /\ overtaken = {} /\ calls = 0

Call == calls < MaxCalls /\ calls' = calls + 1
Goes(r, to) == request' = [request EXCEPT ![r] = to]
Ends(r) == Goes(r, Idle)

(* An address or a subject is on one account at most. *)
Unique(rows) ==
  \A n, o \in DOMAIN rows : n # o =>
    /\ rows[n].email = rows[o].email => rows[n].email = Nothing
    /\ rows[n].sub = rows[o].sub => rows[n].sub = Nothing

-----------------------------------------------------------------------------
(* An account with neither a password nor an address is refused. *)
CreateUser(n, row) ==
  /\ n \notin DOMAIN account /\ (row.password \/ row.email # Nothing)
  /\ account' = [m \in DOMAIN account \cup {n} |-> IF m = n THEN row ELSE account[m]]
  /\ Unique(account')

NewRow(role, password, email, sub) ==
  [role |-> role, enabled |-> TRUE, password |-> password, email |-> email, sub |-> sub]

(* By an administrator or from a shell; newcomers register as operators.   *)
CreateUserEndpoint ==
  /\ Call
  /\ \E n \in Names, role \in Roles, password \in BOOLEAN, email \in Emails \cup {Nothing} :
       CreateUser(n, NewRow(role, password, email, Nothing))
  /\ UNCHANGED <<holder, request, bound, overtaken>>

Register ==
  /\ Call /\ AllowRegistration
  /\ \E n \in Names : CreateUser(n, NewRow("OPERATOR", TRUE, Nothing, Nothing))
  /\ UNCHANGED <<holder, request, bound, overtaken>>

-----------------------------------------------------------------------------
(* An administrator's edit loads the row first.  The script that is run    *)
(* from a shell asks for no administrator.                                 *)
UpdateUserEndpoint(r) ==
  /\ request[r] = Idle /\ Call
  /\ \E n \in DOMAIN account, change \in Changes, step \in {"loaded", "shell"} :
       /\ step = "loaded" => Admins(account) # {}
       /\ step = "shell" => change.enabled = Nothing /\ change.role # Nothing /\ change.email # Nothing
       /\ Goes(r, [step |-> step, name |-> n, read |-> account[n], change |-> change, others |-> {}])
  /\ UNCHANGED <<account, holder, bound, overtaken>>

(* Moving the address takes the binding away.                              *)
Edited(row, change) ==
  LET email == IF change.email = "keep" THEN row.email ELSE change.email IN
  [role |-> IF change.role = Nothing THEN row.role ELSE change.role,
   enabled |-> IF change.enabled = Nothing THEN row.enabled ELSE change.enabled,
   password |-> row.password \/ change.password,
   email |-> email,
   sub |-> IF email = row.email THEN row.sub ELSE Nothing]

IsUsable(row) == row.role = "ADMIN" /\ row.enabled

WithItself(name) == Admins(account)                                      \* mutant
CountEnabledAdmins(name) == Admins(account) \ {name}

(* The last administrator stays one; an account keeps a way to sign in.    *)
UpdateUser(r) ==
  LET q == request[r]
      to == Edited(q.read, q.change)
      others == CountEnabledAdmins(q.name)
  IN /\ q.step = "loaded"
     /\ IF \/ IsUsable(q.read) /\ ~IsUsable(to) /\ others = {}
           \/ ~to.password /\ to.email = Nothing
          THEN Ends(r)
          ELSE Goes(r, [step |-> "counted", name |-> q.name, read |-> q.read, change |-> q.change,
                        others |-> others])
     /\ UNCHANGED <<account, holder, bound, overtaken, calls>>

SameBinding(row, read) == row.email = read.email /\ row.sub = read.sub

(* Of a row, what is written are the columns that were changed.            *)
Written(current, read, to) ==
  [f \in DOMAIN current |-> IF to[f] # read[f] THEN to[f] ELSE current[f]]

CommitEdit(r) ==
  LET q == request[r]
      rows == [account EXCEPT ![q.name] = Written(@, q.read, Edited(q.read, q.change))]
  IN /\ q.step \in {"counted", "shell"} /\ Ends(r)
     /\ IF Unique(rows)
          THEN /\ account' = rows
               /\ overtaken' = overtaken \cup {n \in {q.name} : ~SameBinding(account[n], q.read)}
          ELSE UNCHANGED <<account, overtaken>>
     /\ UNCHANGED <<holder, bound, calls>>

-----------------------------------------------------------------------------
(* An address may be given to somebody else. *)
AddressChangesHands ==
  /\ \E e \in Emails, s \in Subjects : s # holder[e] /\ holder' = [holder EXCEPT ![e] = s]
  /\ Call /\ UNCHANGED <<account, request, bound, overtaken>>

GoogleLogin(r) ==
  /\ request[r] = Idle /\ Call
  /\ \E e \in Emails : Goes(r, [step |-> "verified", email |-> e, sub |-> holder[e], again |-> FALSE])
  /\ UNCHANGED <<account, holder, bound, overtaken>>

(* By its subject, an account is found again; by the address, introduced.  *)
GetUserByGoogleSub(r) ==
  LET q == request[r]
      mine == {n \in DOMAIN account : account[n].sub = q.sub}
  IN /\ q.step = "verified"
     /\ \/ mine = {} /\ Goes(r, [q EXCEPT !.step = "stranger"])
        \/ \E n \in mine :
             IF account[n].enabled
               THEN Goes(r, [step |-> "matched", email |-> q.email, sub |-> q.sub,
                             name |-> n, read |-> account[n]])
               ELSE Ends(r)
     /\ UNCHANGED <<account, holder, bound, overtaken, calls>>

(* A newcomer gets the first username that nobody has.                     *)
UsernameFromEmail ==
  {Mailbox[i] : i \in {j \in DOMAIN Mailbox :
     /\ Mailbox[j] \notin DOMAIN account
     /\ \A k \in 1 .. j - 1 : Mailbox[k] \in DOMAIN account}}

GetUserByEmail(r) ==
  LET q == request[r]
      mine == {n \in DOMAIN account : account[n].email = q.email}
  IN /\ q.step = "stranger"
     /\ \/ /\ mine = {} /\ AllowRegistration /\ ~q.again
           /\ \E name \in UsernameFromEmail :
                Goes(r, [step |-> "newcomer", email |-> q.email, sub |-> q.sub, name |-> name])
        \/ mine = {} /\ (~AllowRegistration \/ q.again) /\ Ends(r)
        \/ \E n \in mine :
             IF account[n].sub = Nothing /\ account[n].enabled
               THEN Goes(r, [step |-> "matched", email |-> q.email, sub |-> q.sub,
                             name |-> n, read |-> account[n]])
               ELSE Ends(r)
     /\ UNCHANGED <<account, holder, bound, overtaken, calls>>

(* Taken by then: the address, and so by the same person, or the username, *)
(* perhaps by somebody else.  The account is looked for once more.         *)
CreateGoogleAccount(r) ==
  LET q == request[r]
      row == NewRow("OPERATOR", FALSE, q.email, q.sub)
      taken == q.name \in DOMAIN account \/ \E n \in DOMAIN account : account[n].email = q.email
  IN /\ q.step = "newcomer"
     /\ \/ ~taken /\ CreateUser(q.name, row) /\ Ends(r) /\ bound' = [bound EXCEPT ![q.name] = q.email]
        \/ ~taken /\ (\E n \in DOMAIN account : account[n].sub = q.sub) /\ Ends(r)
           /\ UNCHANGED <<account, bound>>
        \/ taken /\ UNCHANGED <<account, bound>>
           /\ Goes(r, [step |-> "verified", email |-> q.email, sub |-> q.sub, again |-> TRUE])
     /\ UNCHANGED <<holder, overtaken, calls>>

(* The subject, if it is new to the account, is written with the login.    *)
SignIn(r) ==
  LET q == request[r]
      rows == [account EXCEPT ![q.name].sub = q.sub]
  IN /\ q.step = "matched" /\ Ends(r)
     /\ IF q.read.sub = Nothing /\ Unique(rows)
          THEN /\ account' = rows /\ bound' = [bound EXCEPT ![q.name] = q.email]
               /\ overtaken' = overtaken \cup {n \in {q.name} : ~SameBinding(account[n], q.read)}
          ELSE UNCHANGED <<account, bound, overtaken>>
     /\ UNCHANGED <<holder, calls>>

AccountsNext ==
  \/ CreateUserEndpoint \/ Register \/ AddressChangesHands
  \/ \E r \in Requests :
       \/ UpdateUserEndpoint(r) \/ UpdateUser(r) \/ CommitEdit(r)
       \/ GoogleLogin(r) \/ GetUserByGoogleSub(r) \/ GetUserByEmail(r)
       \/ CreateGoogleAccount(r) \/ SignIn(r)

-----------------------------------------------------------------------------
(* The last administrator who can sign in is not edited away, except from  *)
(* a shell, by an edit that read the account before it was one, or when    *)
(* all those whom the edit counted were edited away since.                 *)
AdminsRemain ==
  [][Admins(account) # {} /\ Admins(account') = {} =>
       \E r \in Requests :
         /\ request[r] # Idle /\ request'[r] = Idle
         /\ \/ request[r].step = "shell"
            \/ ~IsUsable(request[r].read)
            \/ request[r].others # {} /\ request[r].others \cap Admins(account) = {}]_accountVars

(* A bound account has the address its binding came with, unless the edit  *)
(* that moved the address and the sign-in that bound it overlapped.        *)
BindingFollowsAddress ==
  \A n \in DOMAIN account : account[n].sub # Nothing =>
    account[n].email = bound[n] \/ n \in overtaken
=============================================================================
