------------------------------ MODULE Sessions ------------------------------
(***************************************************************************)
(* Refresh tokens of one account (auth-controller.ts, jwt-service.ts).  A  *)
(* token carries the users.token_version its issuer read; login, refresh   *)
(* and logout each read the row, await, and only then issue a token or     *)
(* write the counter, so that requests of the same account interleave      *)
(* between the two.  Accounts are independent.                             *)
(***************************************************************************)
EXTENDS Integers, Sequences

CONSTANTS
    Requests,       \* requests of the account served at the same time
    MaxTokens,      \* bound: refresh tokens issued in a behaviour
    MaxVersion      \* bound: the largest token_version

ASSUME SessionsAssumption == MaxTokens \in Nat /\ MaxVersion \in Nat

VARIABLES
    version,        \* users.token_version
    tokens,         \* the tv of every refresh token issued, in order
    kind, held,     \* by request: what it does and the token it presents
    seen,           \* by request: the token_version it read
    issued,         \* history, by request: tokens issued when it read the row
    dead,           \* history: tokens issued before a logout that has returned
    barred,         \* history, by request: its token was dead when it began
    lost            \* history: a logout overwrote an increment it had not read

db           == <<version, tokens>>
history      == <<issued, dead, barred, lost>>
sessionsVars == <<db, kind, held, seen, history>>

NoToken == 0
Issued  == 1..Len(tokens)

SessionsInit ==
    /\ version = 0
    /\ tokens = <<>>
    /\ kind = [r \in Requests |-> "none"]
    /\ held = [r \in Requests |-> NoToken]
    /\ seen = [r \in Requests |-> 0]
    /\ issued = [r \in Requests |-> {}]
    /\ dead = {}
    /\ barred = [r \in Requests |-> FALSE]
    /\ lost = FALSE

-----------------------------------------------------------------------------
\* The SELECT of users every handler starts with; the signature of the token,
\* checked before it, holds for each token the program issued.
ReadUser(r, k, t) ==
    /\ kind[r] = "none"
    /\ kind' = [kind EXCEPT ![r] = k]
    /\ held' = [held EXCEPT ![r] = t]
    /\ seen' = [seen EXCEPT ![r] = version]
    /\ issued' = [issued EXCEPT ![r] = Issued]
    /\ barred' = [barred EXCEPT ![r] = t \in dead]
    /\ UNCHANGED <<db, dead, lost>>

StartLogin(r)      == ReadUser(r, "login", NoToken)
StartRefresh(r, t) == ReadUser(r, "refresh", t)
StartRevoke(r, t)  == ReadUser(r, "revoke", t)

\* The handler answered: its locals are gone.
Forget(r) ==
    /\ kind' = [kind EXCEPT ![r] = "none"]
    /\ held' = [held EXCEPT ![r] = NoToken]
    /\ seen' = [seen EXCEPT ![r] = 0]
    /\ issued' = [issued EXCEPT ![r] = {}]
    /\ barred' = [barred EXCEPT ![r] = FALSE]

\* issueTokenPair signs the version that was read, which may be old by now.
IssueTokenPair(r) ==
    /\ Len(tokens) < MaxTokens
    /\ tokens' = Append(tokens, seen[r])
    /\ Forget(r)
    /\ UNCHANGED <<version, dead, lost>>

\* login: the password matched; bcrypt.compare ran after the row was read.
Login(r) == kind[r] = "login" /\ IssueTokenPair(r)

\* refresh: tv against the token_version that was read.
RefreshUnchecked(r) == kind[r] = "refresh" /\ IssueTokenPair(r)     \* mutant
Refresh(r) ==
    /\ kind[r] = "refresh"
    /\ tokens[held[r]] = seen[r]
    /\ IssueTokenPair(r)

\* A refused refresh or login, and a handler that threw or lost its process.
Refuse(r) ==
    /\ kind[r] # "none"
    /\ Forget(r)
    /\ UNCHANGED <<db, dead, lost>>

SameVersion(v) == v                                                 \* mutant
NextVersion(v) == v + 1

\* revoke: the value read plus one, written whatever the row holds by now.
Revoke(r) ==
    /\ kind[r] = "revoke"
    /\ version' = NextVersion(seen[r])
    /\ dead' = dead \cup issued[r]
    /\ lost' = (lost \/ version # seen[r])
    /\ Forget(r)
    /\ UNCHANGED tokens

SessionsNext ==
    \E r \in Requests :
        \/ StartLogin(r)
        \/ \E t \in Issued : StartRefresh(r, t)
        \/ version < MaxVersion /\ \E t \in Issued : StartRevoke(r, t)
        \/ Login(r) \/ Refresh(r) \/ Refuse(r) \/ Revoke(r)

SessionsSpec == SessionsInit /\ [][SessionsNext]_sessionsVars

-----------------------------------------------------------------------------
(* Properties.                                                              *)

\* The row, the tokens and the locals of every request have their types.
SessionsTypeOK ==
    /\ version \in Nat
    /\ tokens \in Seq(Nat)
    /\ kind \in [Requests -> {"none", "login", "refresh", "revoke"}]
    /\ held \in [Requests -> Nat]
    /\ \A r \in Requests : kind[r] \in {"refresh", "revoke"} => held[r] \in Issued
    /\ seen \in [Requests -> Nat]
    /\ issued \in [Requests -> SUBSET Issued]
    /\ dead \subseteq Issued
    /\ barred \in [Requests -> BOOLEAN]
    /\ lost \in BOOLEAN

\* Until a logout overwrites an increment it had not read, the version never
\* falls behind a token, a request or a revoked token.
InOrder ==
    ~lost =>
        /\ \A t \in Issued : tokens[t] <= version
        /\ \A r \in Requests : seen[r] <= version
        /\ \A t \in dead : tokens[t] < version
        /\ \A r \in Requests : \A t \in issued[r] : tokens[t] <= seen[r]
        /\ \A r \in Requests :
              kind[r] = "refresh" /\ barred[r] => tokens[held[r]] < seen[r]

\* The inductive invariant of the counter and its readers.
SessionsInv == SessionsTypeOK /\ InOrder

\* Logouts that do not overlap revoke for good: no token that existed before
\* one of them is ever accepted again.
RevokedUnlessLost ==
    ~lost => \A t \in dead : tokens[t] # version

\* A refresh that begins after the logout has returned, with a token from
\* before it, never yields a new pair, unless logouts overlapped.
NoRefreshAfterLogout ==
    [][\A r \in Requests : Refresh(r) /\ barred[r] => lost]_sessionsVars

\* Logout revokes every refresh token issued before it, overlapping or not.
RevokedStayRevoked ==
    \A t \in dead : tokens[t] # version
=============================================================================
