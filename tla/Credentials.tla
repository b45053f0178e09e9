---------------------------- MODULE Credentials ----------------------------
(***************************************************************************)
(* What a person is let in by: user tokens that are renewed from one       *)
(* another, the keys Google signs with, and the window in which sign-ins   *)
(* are counted.  Signatures themselves are taken as given; a token is what *)
(* it claims.                                                              *)
(***************************************************************************)
EXTENDS Integers, Sequences, FiniteSets, SequencesExt

CONSTANTS
  Ttl,            \* user_access_token_ttl_seconds
  MaxSession,     \* user_session_max_seconds
  Attempts,       \* login_rate_limit_attempts
  Window,         \* login_rate_limit_window_seconds
  CacheSeconds,   \* google_jwks_cache_seconds
  Verifiers,      \* Google sign-ins being verified at the same time
  MaxKey,         \* bound on Google's changes of keys
  MaxNow          \* bound on the clock

ASSUME CredentialsAssumption ==
  /\ {Ttl, MaxSession, Attempts, Window, CacheSeconds} \subseteq Nat \ {0}
  /\ MaxKey \in Nat /\ MaxNow \in Nat

VARIABLES
  now,
  active,     \* the person's account is enabled
  tokens,     \* user tokens: the start they tell, the sign-in they stem from, their end
  window,     \* when the current window opened, and the attempts in it
  let,        \* when attempts were let through
  published,  \* keys Google signs with: the newest, and the one before it
  cache,      \* keys held, and since when
  verifier,   \* verifications, with the key they look for
  refused     \* keys that were called unknown while Google published them

sessionVars == <<active, tokens, window, let>>
keyVars == <<published, cache, verifier, refused>>
credentialVars == <<now, sessionVars, keyVars>>

NoVerifier == [step |-> "idle"]
Keys == 0 .. MaxKey

CredentialsTypeOK ==
  /\ now \in 0 .. MaxNow /\ active \in BOOLEAN
  /\ tokens \subseteq [start : 0 .. MaxNow, since : 0 .. MaxNow, exp : 0 .. MaxNow + Ttl]
  /\ window \in [started : 0 .. MaxNow, count : Nat] /\ let \in Seq(0 .. MaxNow)
  /\ published \subseteq Keys /\ cache.keys \subseteq Keys /\ refused \subseteq Keys

CredentialsInit ==
  /\ now = 0 /\ active = TRUE /\ tokens = {} /\ window = [started |-> 0, count |-> 0] /\ let = <<>>
  /\ published = {0} /\ cache = [keys |-> {}, fetchedAt |-> 0]
  /\ verifier = [v \in Verifiers |-> NoVerifier] /\ refused = {}

TimePasses == now < MaxNow /\ now' = now + 1 /\ UNCHANGED <<sessionVars, keyVars>>

-----------------------------------------------------------------------------
(* A window opens with the first attempt after the last one has elapsed.   *)
Elapsed == now - window.started >= Window
Counted == IF Elapsed THEN [started |-> now, count |-> 1] ELSE [window EXCEPT !.count = @ + 1]

EnforceRateLimit == Counted.count <= Attempts

Check ==
  /\ window.count <= Attempts \/ Elapsed
  /\ window' = Counted
  /\ let' = IF EnforceRateLimit THEN Append(let, now) ELSE let

(* A disabled account is told nothing else than a wrong password is.       *)
AuthenticateUser == active

CreateUserJwt(start, since) == [start |-> start, since |-> since, exp |-> now + Ttl]

(* A password is checked, or Google's word; who is refused has been        *)
(* counted all the same.                                                   *)
Login ==
  /\ Check
  /\ \/ /\ EnforceRateLimit /\ AuthenticateUser
        /\ tokens' = tokens \cup {CreateUserJwt(now, now)}
     \/ UNCHANGED tokens
  /\ UNCHANGED <<now, active, keyVars>>

SetDisabled == active' = ~active /\ UNCHANGED <<now, tokens, window, let, keyVars>>

Valid(token) == now < token.exp

FromNow(token) == now                                                    \* mutant
SessionStart(token) == token.start

(* The account is read again at every request, and so at a renewal.        *)
RequireUser(token) == Valid(token) /\ active

Refresh ==
  /\ \E token \in tokens :
       /\ RequireUser(token) /\ now - token.start <= MaxSession
       /\ tokens' = tokens \cup {CreateUserJwt(SessionStart(token), token.since)}
  /\ UNCHANGED <<now, active, window, let, keyVars>>

-----------------------------------------------------------------------------
(* Google signs with a new key, and publishes the last one beside it.      *)
RotateKeys ==
  /\ \E k \in Keys : k = Max(published) + 1 /\ published' = {k, k - 1}
  /\ UNCHANGED <<now, sessionVars, cache, verifier, refused>>

IsStale == cache.keys = {} \/ now - cache.fetchedAt >= CacheSeconds

(* With a stale cache, or one that lacks the key, the keys are fetched.    *)
VerifyGoogleIdToken(v) ==
  /\ verifier[v] = NoVerifier
  /\ \E k \in published :
       verifier' = [verifier EXCEPT ![v] =
         IF IsStale THEN [step |-> "stale", kid |-> k]
         ELSE IF k \in cache.keys THEN NoVerifier ELSE [step |-> "unknown", kid |-> k]]
  /\ UNCHANGED <<now, sessionVars, published, cache, refused>>

GoogleAnswers(v) ==
  /\ verifier[v].step \in {"stale", "unknown"}
  /\ verifier' = [verifier EXCEPT ![v] =
       [step |-> IF @.step = "stale" THEN "answered" ELSE "last", kid |-> @.kid, keys |-> published]]
  /\ UNCHANGED <<now, sessionVars, published, cache, refused>>

GoogleUnavailable(v) ==
  /\ verifier[v].step \in {"stale", "unknown"} /\ verifier' = [verifier EXCEPT ![v] = NoVerifier]
  /\ UNCHANGED <<now, sessionVars, published, cache, refused>>

(* The answer replaces the keys, even those of a later answer, and the key *)
(* is looked up at once; only after the second fetch is it unknown.        *)
StoreKeys(v) ==
  LET q == verifier[v] IN
  /\ q.step \in {"answered", "last"}
  /\ cache' = [keys |-> q.keys, fetchedAt |-> now]
  /\ verifier' = [verifier EXCEPT ![v] =
       IF q.step = "answered" /\ q.kid \notin q.keys THEN [step |-> "unknown", kid |-> q.kid] ELSE NoVerifier]
  /\ refused' = refused \cup {k \in {q.kid} : q.step = "last" /\ k \notin q.keys /\ k \in published}
  /\ UNCHANGED <<now, sessionVars, published>>

SessionNext == Login \/ SetDisabled \/ Refresh \/ TimePasses
KeyNext ==
  \/ RotateKeys \/ TimePasses
  \/ \E v \in Verifiers :
       VerifyGoogleIdToken(v) \/ GoogleAnswers(v) \/ GoogleUnavailable(v) \/ StoreKeys(v)

-----------------------------------------------------------------------------
(* However often it is renewed, a sign-in ends a token's life after the    *)
(* longest session at the latest.                                          *)
SessionsEnd == \A token \in tokens : token.exp - token.since <= MaxSession + Ttl

(* Across the edge of a window no more than two windows' attempts pass.    *)
Throttled ==
  \A t \in 0 .. MaxNow :
    Cardinality({i \in DOMAIN let : let[i] \in t .. t + Window - 1}) <= 2 * Attempts

(* A key that Google publishes is never taken for an unknown one, whatever *)
(* the answers that overtake each other leave in the cache.                *)
KeysAreFound == refused = {}

(* What lets somebody in is limited in time, in number and to its bearer.  *)
CredentialsHold == SessionsEnd /\ Throttled /\ KeysAreFound
=============================================================================
