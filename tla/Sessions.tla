------------------------------- MODULE Sessions -------------------------------
(***************************************************************************)
(* The administrator's sessions (services/admin-session.ts, routes/auth.ts,*)
(* middleware/auth.ts): a token is verified by its signature and expiry    *)
(* first and by the revoked_sessions table in a second step, logout writes *)
(* its row and purges rows that have expired.  A token is the credentials  *)
(* that signed it and its expiry; requests interleave between the steps.   *)
(* External: the LOGIN_RATE_LIMITER, which answers either way.             *)
(***************************************************************************)
EXTENDS Integers, FiniteSets

CONSTANTS
  Callers,         \* requests in flight, each used again
  Jtis,            \* ids of tokens
  SessionSeconds,  \* MAX_SESSION_SECONDS
  PurgeLimit,      \* rows a logout purges, 100
  SessionHorizon,  \* bound on the clock
  MaxCredentials   \* bound on changes of the administrator's password

ASSUME SessionAssumption ==
  /\ SessionSeconds \in Nat \ {0} /\ PurgeLimit \in Nat \ {0}
  /\ SessionHorizon \in Nat /\ MaxCredentials \in Nat \ {0}

VARIABLES
  second,       \* wall clock
  credentials,  \* ADMIN_USER and ADMIN_PASS, by version
  issued,       \* the tokens handed out
  revoked,      \* revoked_sessions: expires_at by jti, 0 for no row
  call,         \* the local state of each request
  loggedOut     \* history: tokens whose revocation was committed

sessionVars == <<second, credentials, issued, revoked, call, loggedOut>>

Seconds == 0..SessionHorizon
NoToken == [creds |-> 0, exp |-> 0]
NoCall  == [pc |-> "idle", does |-> "request", jti |-> "none"]

SessionTypeOK ==
  /\ second \in Seconds /\ credentials \in 1..MaxCredentials
  /\ issued \in [Jtis -> [creds: 0..MaxCredentials, exp: Nat]]
  /\ revoked \in [Jtis -> Nat]
  /\ \A c \in Callers : call[c].pc \in {"idle", "lookup", "revoking", "admitted", "refused"}
  /\ loggedOut \subseteq Jtis

SessionInit ==
  /\ second = 0 /\ credentials = 1
  /\ issued = [j \in Jtis |-> NoToken]
  /\ revoked = [j \in Jtis |-> 0]
  /\ call = [c \in Callers |-> NoCall]
  /\ loggedOut = {}

\* POST /auth/login with the right credentials, and not rate-limited: anything
\* else leaves no trace.
Login ==
  /\ \E j \in Jtis :
       /\ issued[j] = NoToken
       /\ issued' = [issued EXCEPT ![j] =
            [creds |-> credentials, exp |-> second + SessionSeconds]]
  /\ UNCHANGED <<second, credentials, revoked, call, loggedOut>>

\* jwtVerify: the key is derived from the present credentials.
SignedAndLive(j) == issued[j].creds = credentials /\ second < issued[j].exp

\* verifyAdminToken for the middleware and /auth/refresh ("request"), or for
\* revokeAdminToken ("logout"): the signature, ...
PresentToken(c, j, does) ==
  /\ call[c].pc = "idle"
  /\ issued[j] # NoToken
  /\ call' = [call EXCEPT ![c] =
       [pc |-> IF SignedAndLive(j) THEN "lookup" ELSE "refused", does |-> does, jti |-> j]]
  /\ UNCHANGED <<second, credentials, issued, revoked, loggedOut>>

\* ... then the row.
LookUpRevocation(c) ==
  /\ call[c].pc = "lookup"
  /\ call' = [call EXCEPT ![c].pc =
       IF revoked[call[c].jti] # 0 THEN "refused"
       ELSE IF call[c].does = "logout" THEN "revoking" ELSE "admitted"]
  /\ UNCHANGED <<second, credentials, issued, revoked, loggedOut>>

\* Mutant: the row is dated when it is written.
RevokedAt(j) == second + 1

\* expires_at of the row.
RowExpiry(j) == issued[j].exp

\* One batch: INSERT OR IGNORE, then the purge.
Revoke(c) ==
  /\ call[c].pc = "revoking"
  /\ LET j == call[c].jti
         rows == [revoked EXCEPT ![j] = IF @ = 0 THEN RowExpiry(j) ELSE @]
         over == {k \in Jtis : rows[k] # 0 /\ rows[k] <= second}
         purged == {k \in over : Cardinality({x \in over : rows[x] < rows[k]}) < PurgeLimit}
     IN  /\ revoked' = [k \in Jtis |-> IF k \in purged THEN 0 ELSE rows[k]]
         /\ loggedOut' = loggedOut \union {j}
  /\ call' = [call EXCEPT ![c] = NoCall]
  /\ UNCHANGED <<second, credentials, issued>>

\* An answer; or D1 fails and the answer is 503.
Answer(c) ==
  /\ call[c].pc # "idle"
  /\ call' = [call EXCEPT ![c] = NoCall]
  /\ UNCHANGED <<second, credentials, issued, revoked, loggedOut>>

SecondPasses ==
  /\ second < SessionHorizon
  /\ second' = second + 1
  /\ UNCHANGED <<credentials, issued, revoked, call, loggedOut>>

\* A deployment with other secrets.
ChangeCredentials ==
  /\ credentials < MaxCredentials
  /\ credentials' = credentials + 1
  /\ UNCHANGED <<second, issued, revoked, call, loggedOut>>

SessionNext ==
  \/ Login \/ SecondPasses \/ ChangeCredentials
  \/ \E c \in Callers :
       \/ \E j \in Jtis, does \in {"request", "logout"} : PresentToken(c, j, does)
       \/ LookUpRevocation(c) \/ Revoke(c) \/ Answer(c)

SessionSpec == SessionInit /\ [][SessionNext]_sessionVars

-----------------------------------------------------------------------------
(* Properties.                                                             *)

\* After a logout its token lets no request in, although logouts of other
\* sessions purge the table.  The one exception is a request whose signature
\* was checked in the last second of the token and whose lookup came after a
\* purge at its expiry (admin-session.ts 24-47).
LoggedOutStaysOut ==
  [][\A c \in Callers :
       call[c].pc = "lookup" /\ call'[c].pc \in {"admitted", "revoking"}
         => call[c].jti \notin loggedOut \/ second >= issued[call[c].jti].exp]_sessionVars

=============================================================================
