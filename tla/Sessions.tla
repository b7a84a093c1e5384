------------------------------ MODULE Sessions ------------------------------
(***************************************************************************)
(* Sessions, and their end by logging out or by being frozen               *)
(* (internal/auth: issueTokens, RefreshToken, Logout; pkg/middleware:      *)
(* AuthRequired; internal/admin: risk.go).  Tokens are signed and kept by  *)
(* nobody; Redis remembers the ones that are spent or logged out, under    *)
(* keys that live as long as the token would, and the users who are        *)
(* frozen.                                                                 *)
(*                                                                         *)
(* A refresh checks and then spends its token.  A freeze commits, then     *)
(* writes to Redis, which may fail, and only then resolves the alert; the  *)
(* operator may try again, and two may work on one alert.                  *)
(***************************************************************************)
EXTENDS Integers, Sequences

CONSTANTS
    Users,
    Browsers,       \* refreshes under way
    Operators,      \* freezes under way
    Alerts,         \* risk alerts
    TargetOf,       \* the user each alert is about
    AccessTTL, RefreshTTL, FrozenTTL,
    MaxPairs,       \* bound: token pairs
    MaxFreezes,     \* bound: attempts to freeze
    MaxMoment       \* bound: time

ASSUME SessionsAssumption ==
    /\ TargetOf \in [Alerts -> Users]
    /\ "by hand" \notin Alerts
    /\ AccessTTL \in Nat \ {0}
    /\ RefreshTTL \in Nat \ {0}
    /\ FrozenTTL \in Nat \ {0}

VARIABLES
    account,        \* users.status
    pairs,          \* token pairs: [user, login, issued, spent, out, late]; spent and out are
                    \* the expiries of "session:refresh:" and "session:", 0 without the key;
                    \* late: the token before it was spent after it had expired
    refreshing,     \* RefreshToken between its checks and SETNX
    frozenUntil,    \* "auth:frozen:" of each user: its expiry
    alerts,         \* risk_alerts: [status, audits]
    freezing,       \* FreezeAlert and FreezeUser after their commit
    userAudits,     \* freeze_user in audit_logs
    ended,          \* logins whose live token was logged out
    freezes,
    moment

sessionVars == <<account, pairs, refreshing, frozenUntil, alerts, freezing, userAudits, ended,
                 freezes, moment>>

NotRefreshing == [at |-> "idle"]
NotFreezing == [at |-> "idle"]
ByHand == "by hand"

RefreshExpiry(t) == pairs[t].issued + RefreshTTL
AccessExpiry(t) == pairs[t].issued + AccessTTL

\* A refresh token that would be accepted, were its user not frozen.
LiveToken(t) == RefreshExpiry(t) > moment /\ pairs[t].spent <= moment

-----------------------------------------------------------------------------
(* Tokens *)

\* issueTokens; a login is known by its first pair.
Issued(u, login, late) == Append(pairs, [user |-> u, login |-> login, issued |-> moment,
                                         spent |-> 0, out |-> 0, late |-> late])

Login(u) ==
    /\ account[u] = "active"
    /\ Len(pairs) < MaxPairs
    /\ pairs' = Issued(u, Len(pairs) + 1, FALSE)
    /\ UNCHANGED <<account, refreshing, frozenUntil, alerts, freezing, userAudits, ended, freezes,
                   moment>>

\* RefreshToken: the signature, the user, the time that is left.
BeginRefresh(b, t) ==
    /\ refreshing[b].at = "idle"
    /\ t \in DOMAIN pairs
    /\ RefreshExpiry(t) > moment
    /\ account[pairs[t].user] = "active"
    /\ refreshing' = [refreshing EXCEPT ![b] = [at |-> "spend", token |-> t,
                                                ttl |-> RefreshExpiry(t) - moment]]
    /\ UNCHANGED <<account, pairs, frozenUntil, alerts, freezing, userAudits, ended, freezes,
                   moment>>

\* SETNX, for the time that was left.  The key that says the token is spent expires with
\* the token: who has checked it in time may spend it again afterwards.
Spendable(t) == pairs[t].spent <= moment

SpendToken(b) ==
    /\ refreshing[b].at = "spend"
    /\ LET t == refreshing[b].token IN
         IF Spendable(t)
         THEN /\ Len(pairs) < MaxPairs
              /\ pairs' = [Issued(pairs[t].user, pairs[t].login,
                                  RefreshExpiry(t) <= moment)
                             EXCEPT ![t].spent = moment + refreshing[b].ttl]
         ELSE UNCHANGED pairs
    /\ refreshing' = [refreshing EXCEPT ![b] = NotRefreshing]
    /\ UNCHANGED <<account, frozenUntil, alerts, freezing, userAudits, ended, freezes, moment>>

\* Logout: what is left of each token, if anything.
LoggedOut_AccessTTL(t) ==
    [pairs EXCEPT ![t].out = IF AccessExpiry(t) > moment THEN AccessExpiry(t) ELSE @,
                  ![t].spent = IF AccessExpiry(t) > moment THEN AccessExpiry(t) ELSE @]
LoggedOut(t) ==
    [pairs EXCEPT ![t].out = IF AccessExpiry(t) > moment THEN AccessExpiry(t) ELSE @,
                  ![t].spent = IF RefreshExpiry(t) > moment THEN RefreshExpiry(t) ELSE @]

Logout(t) ==
    /\ t \in DOMAIN pairs
    /\ pairs' = LoggedOut(t)
    /\ ended' = IF LiveToken(t) THEN ended \cup {pairs[t].login} ELSE ended
    /\ UNCHANGED <<account, refreshing, frozenUntil, alerts, freezing, userAudits, freezes, moment>>

-----------------------------------------------------------------------------
(* Freezing *)

Pending(a) == alerts[a].status = "pending"

\* What the transaction writes of the alert: once, also when somebody tries again.
Processed(a) ==
    IF Pending(a) THEN [alerts EXCEPT ![a] = [status |-> "processing", audits |-> @.audits + 1]]
    ELSE alerts

\* FreezeAlert, up to its commit.
FreezeAlert(o, a) ==
    /\ freezing[o].at = "idle"
    /\ freezes < MaxFreezes
    /\ alerts[a].status \in {"pending", "processing"}
    /\ account' = [account EXCEPT ![TargetOf[a]] = "frozen"]
    /\ alerts' = Processed(a)
    /\ freezing' = [freezing EXCEPT ![o] = [at |-> "revoke", user |-> TargetOf[a], alert |-> a]]
    /\ freezes' = freezes + 1
    /\ UNCHANGED <<pairs, refreshing, frozenUntil, userAudits, ended, moment>>

\* FreezeUser, up to its commit.
FreezeUser(o, u) ==
    /\ freezing[o].at = "idle"
    /\ freezes < MaxFreezes
    /\ account' = [account EXCEPT ![u] = "frozen"]
    /\ userAudits' = IF account[u] = "frozen" THEN userAudits
                     ELSE [userAudits EXCEPT ![u] = @ + 1]
    /\ freezing' = [freezing EXCEPT ![o] = [at |-> "revoke", user |-> u, alert |-> ByHand]]
    /\ freezes' = freezes + 1
    /\ UNCHANGED <<pairs, refreshing, frozenUntil, alerts, ended, moment>>

\* RevokeUserSessions, or its failure: then the alert stays as it is.
AfterRevoke(o, ok) ==
    IF ok /\ freezing[o].alert # ByHand THEN [freezing[o] EXCEPT !.at = "resolve"] ELSE NotFreezing

RevokeUserSessions(o, ok) ==
    /\ freezing[o].at = "revoke"
    /\ frozenUntil' = IF ok THEN [frozenUntil EXCEPT ![freezing[o].user] = moment + FrozenTTL]
                      ELSE frozenUntil
    /\ freezing' = [freezing EXCEPT ![o] = AfterRevoke(o, ok)]
    /\ UNCHANGED <<account, pairs, refreshing, alerts, userAudits, ended, freezes, moment>>

ResolveAlert(o) ==
    /\ freezing[o].at = "resolve"
    /\ LET a == freezing[o].alert IN
         alerts' = IF alerts[a].status = "processing" THEN [alerts EXCEPT ![a].status = "resolved"]
                   ELSE alerts
    /\ freezing' = [freezing EXCEPT ![o] = NotFreezing]
    /\ UNCHANGED <<account, pairs, refreshing, frozenUntil, userAudits, ended, freezes, moment>>

\* Dismissable: not once somebody has begun to freeze.
Dismissable(a) == Pending(a)

DismissAlert(a) ==
    /\ Dismissable(a)
    /\ alerts' = [alerts EXCEPT ![a].status = "dismissed"]
    /\ UNCHANGED <<account, pairs, refreshing, frozenUntil, freezing, userAudits, ended, freezes,
                   moment>>

MomentPasses ==
    /\ moment < MaxMoment
    /\ moment' = moment + 1
    /\ UNCHANGED <<account, pairs, refreshing, frozenUntil, alerts, freezing, userAudits, ended,
                   freezes>>

-----------------------------------------------------------------------------

\* AuthRequired lets a request with the access token of t pass.
Admitted(t) ==
    /\ AccessExpiry(t) > moment
    /\ pairs[t].out <= moment
    /\ frozenUntil[pairs[t].user] <= moment
    /\ account[pairs[t].user] = "active"

SessionsInit ==
    /\ account = [u \in Users |-> "active"]
    /\ pairs = <<>>
    /\ refreshing = [b \in Browsers |-> NotRefreshing]
    /\ frozenUntil = [u \in Users |-> 0]
    /\ alerts = [a \in Alerts |-> [status |-> "pending", audits |-> 0]]
    /\ freezing = [o \in Operators |-> NotFreezing]
    /\ userAudits = [u \in Users |-> 0]
    /\ ended = {}
    /\ freezes = 0
    /\ moment = 0

TokenStep ==
    \/ \E u \in Users : Login(u)
    \/ \E b \in Browsers : SpendToken(b) \/ (\E t \in DOMAIN pairs : BeginRefresh(b, t))
    \/ \E t \in DOMAIN pairs : Logout(t)
    \/ MomentPasses

FreezeStep ==
    \/ \E o \in Operators : \/ \E a \in Alerts : FreezeAlert(o, a)
                            \/ \E u \in Users : FreezeUser(o, u)
                            \/ \E ok \in BOOLEAN : RevokeUserSessions(o, ok)
                            \/ ResolveAlert(o)
    \/ \E a \in Alerts : DismissAlert(a)

SessionsNext == TokenStep \/ FreezeStep

SessionsSpec == SessionsInit /\ [][SessionsNext]_sessionVars

-----------------------------------------------------------------------------
(* What must hold *)

SpentLate(login) == \E t \in DOMAIN pairs : pairs[t].login = login /\ pairs[t].late

\* A login has one refresh token that is good, however often its browser retries or two
\* tabs refresh at once (SETNX in RefreshToken).  A session forks only by a refresh that
\* checked its token in time and then took so long that the token, and the key that says
\* it is spent, expired meanwhile.
SessionsDoNotFork ==
    \A s, t \in DOMAIN pairs :
        (/\ pairs[s].login = pairs[t].login
         /\ LiveToken(s) /\ LiveToken(t)) => s = t \/ SpentLate(pairs[t].login)

\* Who logs out with a good token has ended the session for good: neither a refresh under
\* way nor the expiry of a key brings it back, but for that same late refresh.
EndedSessionsStayEnded ==
    \A t \in DOMAIN pairs : LiveToken(t) => pairs[t].login \notin ended \/ SpentLate(pairs[t].login)

\* What is said to be resolved is done: the user is frozen, the sessions were revoked, and
\* no token of the user opens anything (FreezeAlert: Redis is outside MySQL's transaction).
ResolvedIsRevoked ==
    \A a \in Alerts : alerts[a].status = "resolved" =>
        /\ account[TargetOf[a]] = "frozen"
        /\ frozenUntil[TargetOf[a]] > 0
        /\ \A t \in DOMAIN pairs : pairs[t].user = TargetOf[a] => ~Admitted(t)

\* Every alert that was acted on is in the audit log once, whoever tried again and whatever
\* froze the user before, and a frozen user is there at least once.
FreezesAreAudited ==
    /\ \A a \in Alerts :
         alerts[a].audits = (IF alerts[a].status \in {"processing", "resolved"} THEN 1 ELSE 0)
    /\ \A u \in Users : account[u] = "frozen" =>
         userAudits[u] = 1 \/ (\E a \in Alerts : TargetOf[a] = u /\ alerts[a].audits = 1)

\* An alert is dismissed for nothing: nobody has acted on it, or will.
DismissedIsLeft ==
    \A a \in Alerts : alerts[a].status = "dismissed" =>
        /\ alerts[a].audits = 0
        /\ \A o \in Operators : freezing[o].at # "idle" => freezing[o].alert # a

\* Together, what makes sessions safe: a refresh token is spent once, a session that was ended
\* or frozen stays so, whatever order tokens, freezes and reviews come in, and every freeze
\* left its trace.
SessionsAreSafe ==
    /\ SessionsDoNotFork /\ EndedSessionsStayEnded /\ ResolvedIsRevoked
    /\ FreezesAreAudited /\ DismissedIsLeft

=============================================================================
