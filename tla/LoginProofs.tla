------------------------------ MODULE LoginProofs ------------------------------
(***************************************************************************)
(* Three ways to be somebody, proved safe: the scan of a WeChat code logs  *)
(* in the browser that showed it, a session does not fork or come back,    *)
(* and a code by text message admits once and is not guessed.  They share  *)
(* no state and are proved one after the other, for any number of users,   *)
(* browsers, operators, requests and limits, and any time to live.         *)
(*                                                                         *)
(* None of the properties is inductive.  What the proofs add: a state or a *)
(* ticket is dead once used; a key in Redis that says a token is spent     *)
(* outlives the token; the counter of a window, and the count of the one   *)
(* before it, bound every window that is laid across the two.              *)
(***************************************************************************)
EXTENDS WeChat, Sessions, SmsCodes, FiniteSetTheorems, TLAPS

-----------------------------------------------------------------------------
(* WeChat *)

Scan == [browser : Visitors, until : Nat, exchanges : Seq(Visitors)]
BindTicket == [identity : Identities, until : Nat, uses : Nat]
Exchange == {[at |-> "idle"], [at |-> "ask"]} \cup [at : {"find"}, identity : Identities]

WeChatTypeOK ==
    /\ scans \in Seq(Scan)
    /\ bindTickets \in Seq(BindTicket)
    /\ exchange \in [Visitors -> Exchange]
    /\ minute \in Nat

\* A state that was exchanged is dead, and was exchanged by its own browser.
UsedStatesAreDead ==
    \A s \in DOMAIN scans :
        scans[s].exchanges = <<>> \/ (scans[s].until = 0 /\ scans[s].exchanges = <<scans[s].browser>>)

\* A ticket that was used is dead.
UsedTicketsAreDead ==
    \A t \in DOMAIN bindTickets :
        bindTickets[t].uses = 0 \/ (bindTickets[t].until = 0 /\ bindTickets[t].uses = 1)

WeChatInv == WeChatTypeOK /\ UsedStatesAreDead /\ UsedTicketsAreDead

\* What the updates of a state and of a ticket make of a record.
LEMMA UsedScan ==
    ASSUME NEW r \in Scan, NEW e \in Seq(Visitors)
    PROVE  LET used == [r EXCEPT !.until = 0, !.exchanges = e] IN
           used \in Scan /\ used.browser = r.browser /\ used.until = 0 /\ used.exchanges = e
  BY DEF Scan

LEMMA UsedTicket ==
    ASSUME NEW r \in BindTicket, NEW n \in Nat
    PROVE  LET used == [r EXCEPT !.uses = n, !.until = 0] IN
           used \in BindTicket /\ used.until = 0 /\ used.uses = n
  BY DEF BindTicket

LEMMA WeChatBegins == WeChatInit => WeChatInv
  BY DEF WeChatInit, WeChatInv, WeChatTypeOK, UsedStatesAreDead, UsedTicketsAreDead, Exchange,
         NoExchange

LEMMA WeChatStartKeeps ==
    ASSUME WeChatInv, NEW v \in Visitors, WeChatStart(v)
    PROVE  WeChatInv'
<1> DEFINE new == [browser |-> v, until |-> minute + WeChatTTL, exchanges |-> <<>>]
<1>1. new \in Scan /\ new.exchanges = <<>>
  BY WeChatAssumption DEF WeChatInv, WeChatTypeOK, Scan
<1> HIDE DEF new
<1>2. scans' = Append(scans, new) /\ UNCHANGED <<exchange, bindTickets, minute>>
  BY DEF WeChatStart, new
<1>3. WeChatTypeOK'
  BY <1>1, <1>2 DEF WeChatInv, WeChatTypeOK
<1>4. \A s \in DOMAIN scans' : scans'[s] = new \/ (s \in DOMAIN scans /\ scans'[s] = scans[s])
  BY <1>1, <1>2 DEF WeChatInv, WeChatTypeOK
<1>5. UsedStatesAreDead'
  BY <1>1, <1>4 DEF WeChatInv, UsedStatesAreDead
<1> QED BY <1>2, <1>3, <1>5 DEF WeChatInv, UsedTicketsAreDead

LEMMA ConsumeStateKeeps ==
    ASSUME WeChatInv, NEW v \in Visitors, NEW s \in DOMAIN scans, ConsumeState(v, s)
    PROVE  WeChatInv'
<1>0. UNCHANGED <<bindTickets, minute>> /\ exchange' \in [Visitors -> Exchange]
  BY DEF WeChatInv, WeChatTypeOK, ConsumeState, Exchange
<1>1. CASE scans[s].browser # v
  BY <1>0, <1>1 DEF ConsumeState, Consumed, WeChatInv, WeChatTypeOK, UsedStatesAreDead,
                    UsedTicketsAreDead
<1>2. CASE scans[s].browser = v
  <2> DEFINE used == [scans[s] EXCEPT !.until = 0, !.exchanges = Append(@, v)]
  <2>1. scans[s] \in Scan /\ scans[s].until > minute
    BY DEF WeChatInv, WeChatTypeOK, ConsumeState
  <2>2. scans[s].exchanges = <<>>
    <3>1. minute \in Nat
      BY DEF WeChatInv, WeChatTypeOK
    <3>2. scans[s].until # 0
      BY <2>1, <3>1
    <3> QED BY <3>2 DEF WeChatInv, UsedStatesAreDead
  <2>3. used \in Scan /\ used.until = 0 /\ used.exchanges = <<used.browser>>
    <3>1. Append(scans[s].exchanges, v) = <<v>> /\ <<v>> \in Seq(Visitors)
      BY <2>2
    <3> QED BY <1>2, <2>1, <3>1, UsedScan, ZenonT(40)
  <2>4. scans' = [scans EXCEPT ![s] = used]
    BY <1>2 DEF ConsumeState, Consumed
  <2> HIDE DEF used
  <2>5. scans' \in Seq(Scan) /\ DOMAIN scans' = DOMAIN scans
        /\ \A i \in DOMAIN scans : scans'[i] = IF i = s THEN used ELSE scans[i]
    BY <2>3, <2>4 DEF WeChatInv, WeChatTypeOK
  <2>6. UsedStatesAreDead'
    BY <2>3, <2>5 DEF WeChatInv, UsedStatesAreDead
  <2> QED BY <1>0, <2>5, <2>6 DEF WeChatInv, WeChatTypeOK, UsedTicketsAreDead
<1> QED BY <1>1, <1>2

LEMMA AskWeChatKeeps ==
    ASSUME WeChatInv, NEW v \in Visitors, AskWeChat(v)
    PROVE  WeChatInv'
<1>1. exchange' \in [Visitors -> Exchange]
  BY DEF WeChatInv, WeChatTypeOK, AskWeChat, Exchange, NoExchange
<1> QED BY <1>1 DEF WeChatInv, WeChatTypeOK, AskWeChat, UsedStatesAreDead, UsedTicketsAreDead

LEMMA FindByWeChatKeeps ==
    ASSUME WeChatInv, NEW v \in Visitors, NEW ok \in BOOLEAN, FindByWeChat(v, ok)
    PROVE  WeChatInv'
<1>1. exchange' \in [Visitors -> Exchange] /\ UNCHANGED <<scans, minute>>
  BY DEF WeChatInv, WeChatTypeOK, FindByWeChat, Exchange, NoExchange
<1>2. CASE UNCHANGED bindTickets
  BY <1>1, <1>2 DEF WeChatInv, WeChatTypeOK, UsedStatesAreDead, UsedTicketsAreDead
<1>3. CASE ~UNCHANGED bindTickets
  <2> DEFINE new == [identity |-> exchange[v].identity, until |-> minute + WeChatTTL, uses |-> 0]
  <2>1. exchange[v].identity \in Identities
    BY DEF WeChatInv, WeChatTypeOK, FindByWeChat, Exchange
  <2>2. new \in BindTicket /\ new.uses = 0
    BY <2>1, WeChatAssumption DEF WeChatInv, WeChatTypeOK, BindTicket
  <2>3. bindTickets' = Append(bindTickets, new)
    BY <1>3 DEF FindByWeChat
  <2> HIDE DEF new
  <2>4. /\ bindTickets' \in Seq(BindTicket)
        /\ \A t \in DOMAIN bindTickets' :
              bindTickets'[t] = new \/ (t \in DOMAIN bindTickets /\ bindTickets'[t] = bindTickets[t])
    BY <2>2, <2>3 DEF WeChatInv, WeChatTypeOK
  <2>5. UsedTicketsAreDead'
    BY <2>2, <2>4 DEF WeChatInv, UsedTicketsAreDead
  <2> QED BY <1>1, <2>4, <2>5 DEF WeChatInv, WeChatTypeOK, UsedStatesAreDead
<1> QED BY <1>2, <1>3

LEMMA TakeTicketKeeps ==
    ASSUME WeChatInv, NEW u \in Accounts, NEW t \in DOMAIN bindTickets, TakeTicket(u, t)
    PROVE  WeChatInv'
<1> DEFINE taken == [bindTickets[t] EXCEPT !.uses = @ + 1, !.until = 0]
<1>1. bindTickets[t] \in BindTicket /\ bindTickets[t].until > minute
      /\ UNCHANGED <<scans, exchange, minute>>
  BY DEF WeChatInv, WeChatTypeOK, TakeTicket
<1>2. bindTickets[t].uses = 0
  <2>1. minute \in Nat
    BY DEF WeChatInv, WeChatTypeOK
  <2>2. bindTickets[t].until # 0
    BY <1>1, <2>1
  <2> QED BY <2>2 DEF WeChatInv, UsedTicketsAreDead
<1>3. taken \in BindTicket /\ taken.until = 0 /\ taken.uses = 1
  <2>1. bindTickets[t].uses + 1 = 1
    BY <1>2
  <2>2. taken = [bindTickets[t] EXCEPT !.uses = 1, !.until = 0]
    BY <2>1, Zenon
  <2> HIDE DEF taken
  <2> QED BY <1>1, <2>2, UsedTicket
<1>4. bindTickets' = [bindTickets EXCEPT ![t] = taken]
  BY DEF TakeTicket, TakenTicket
<1> HIDE DEF taken
<1>5. /\ bindTickets' \in Seq(BindTicket) /\ DOMAIN bindTickets' = DOMAIN bindTickets
      /\ \A i \in DOMAIN bindTickets : bindTickets'[i] = IF i = t THEN taken ELSE bindTickets[i]
  BY <1>3, <1>4 DEF WeChatInv, WeChatTypeOK
<1>6. UsedTicketsAreDead'
  BY <1>3, <1>5 DEF WeChatInv, UsedTicketsAreDead
<1> QED BY <1>1, <1>5, <1>6 DEF WeChatInv, WeChatTypeOK, UsedStatesAreDead

LEMMA WeChatStepKeeps == WeChatInv /\ [WeChatNext]_weChatVars => WeChatInv'
<1> SUFFICES ASSUME WeChatInv, [WeChatNext]_weChatVars PROVE WeChatInv'
  OBVIOUS
<1> USE DEF WeChatInv, WeChatTypeOK, UsedStatesAreDead, UsedTicketsAreDead
<1>1. ASSUME NEW u \in Accounts, BindWeChat(u) PROVE WeChatInv'
  BY <1>1 DEF BindWeChat
<1>2. ASSUME NEW u \in Accounts, FreezeAccount(u) PROVE WeChatInv'
  BY <1>2 DEF FreezeAccount
<1>3. CASE MinutePasses
  BY <1>3 DEF MinutePasses
<1>4. CASE UNCHANGED weChatVars
  BY <1>4 DEF weChatVars
<1> QED BY <1>1, <1>2, <1>3, <1>4, WeChatStartKeeps, ConsumeStateKeeps, AskWeChatKeeps,
           FindByWeChatKeeps, TakeTicketKeeps DEF WeChatNext

\* In every reachable state a WeChat state was exchanged once at most and by the browser it was
\* made for, and a binding ticket was used once at most.
THEOREM ScansStayTheirOwn == WeChatSpec => []ScansAreTheirOwn
<1>1. WeChatInv => ScansAreTheirOwn
  <2>1. UsedStatesAreDead => StatesServeTheirBrowser
    BY DEF UsedStatesAreDead, StatesServeTheirBrowser
  <2>2. ASSUME UsedTicketsAreDead, NEW t \in DOMAIN bindTickets PROVE bindTickets[t].uses <= 1
    <3>1. bindTickets[t].uses = 0 \/ bindTickets[t].uses = 1
      BY <2>2 DEF UsedTicketsAreDead
    <3> QED BY <3>1
  <2> QED BY <2>1, <2>2 DEF WeChatInv, ScansAreTheirOwn, TicketsAreUsedOnce
<1> QED BY <1>1, WeChatBegins, WeChatStepKeeps, PTL DEF WeChatSpec

-----------------------------------------------------------------------------
(* Sessions *)

Pair == [user : Users, login : Nat, issued : Nat, spent : Nat, out : Nat, late : BOOLEAN]
Refresh == {NotRefreshing} \cup [at : {"spend"}, token : Nat, ttl : Nat]
Alert == [status : {"pending", "processing", "resolved", "dismissed"}, audits : Nat]
Freeze == {NotFreezing} \cup [at : {"revoke", "resolve"}, user : Users,
                              alert : Alerts \cup {ByHand}]

SessionsTypeOK ==
    /\ account \in [Users -> {"active", "frozen"}]
    /\ pairs \in Seq(Pair)
    /\ refreshing \in [Browsers -> Refresh]
    /\ frozenUntil \in [Users -> Nat]
    /\ alerts \in [Alerts -> Alert]
    /\ freezing \in [Operators -> Freeze]
    /\ userAudits \in [Users -> Nat]
    /\ freezes \in Nat
    /\ moment \in Nat

\* The key that says a token is spent outlives the token, whoever wrote it.
SpentOutlives ==
    \A t \in DOMAIN pairs :
        /\ pairs[t].login \in 1..t
        /\ pairs[t].spent = 0 \/ pairs[t].spent >= RefreshExpiry(t)

RefreshesInTime ==
    \A b \in Browsers : refreshing[b].at = "spend" =>
        /\ refreshing[b].token \in DOMAIN pairs
        /\ refreshing[b].ttl > 0
        /\ moment + refreshing[b].ttl >= RefreshExpiry(refreshing[b].token)

\* A login has one token that was never spent, ...
OneUnspent ==
    \A s, t \in DOMAIN pairs :
        (pairs[s].login = pairs[t].login /\ pairs[s].spent = 0 /\ pairs[t].spent = 0)
            => s = t \/ SpentLate(pairs[t].login)

\* ... and none once it was ended.
EndedAreSpent ==
    /\ ended \subseteq 1..Len(pairs)
    /\ \A t \in DOMAIN pairs :
         pairs[t].login \in ended => pairs[t].spent # 0 \/ SpentLate(pairs[t].login)

TokensInv == SpentOutlives /\ RefreshesInTime /\ OneUnspent /\ EndedAreSpent

\* Who is at work on an alert has frozen its user, and goes on to resolve it only after
\* the sessions were revoked.
FreezesUnderWay ==
    \A o \in Operators : freezing[o].at # "idle" =>
        LET f == freezing[o] IN
        /\ account[f.user] = "frozen"
        /\ f.alert \in Alerts => /\ f.user = TargetOf[f.alert]
                                 /\ alerts[f.alert].status \in {"processing", "resolved"}
        /\ f.at = "resolve" => f.alert \in Alerts /\ frozenUntil[f.user] > 0

AlertsFollow ==
    \A a \in Alerts :
        /\ alerts[a].audits = (IF alerts[a].status \in {"processing", "resolved"} THEN 1 ELSE 0)
        /\ alerts[a].status \in {"processing", "resolved"} => account[TargetOf[a]] = "frozen"
        /\ alerts[a].status = "resolved" => frozenUntil[TargetOf[a]] > 0

UsersFollow ==
    \A u \in Users :
        IF account[u] = "active" THEN userAudits[u] = 0
        ELSE userAudits[u] = 1 \/ (\E a \in Alerts : TargetOf[a] = u /\ alerts[a].audits = 1)

FreezesInv == FreezesUnderWay /\ AlertsFollow /\ UsersFollow

SessionsInv == SessionsTypeOK /\ TokensInv /\ FreezesInv

LEMMA SessionsBegin == SessionsInit => SessionsInv
<1> SUFFICES ASSUME SessionsInit PROVE SessionsInv
  OBVIOUS
<1>1. SessionsTypeOK
  BY DEF SessionsInit, SessionsTypeOK, Pair, Refresh, Alert, Freeze
<1>2. TokensInv
  BY DEF SessionsInit, TokensInv, SpentOutlives, RefreshesInTime, OneUnspent, EndedAreSpent,
         NotRefreshing
<1>3. FreezesUnderWay
  BY DEF SessionsInit, FreezesUnderWay, NotFreezing
<1>4. AlertsFollow /\ UsersFollow
  BY SessionsAssumption DEF SessionsInit, AlertsFollow, UsersFollow
<1> QED BY <1>1, <1>2, <1>3, <1>4 DEF SessionsInv, FreezesInv

-----------------------------------------------------------------------------
(* Tokens *)

\* A pair is its fields, and what an update of two of them makes of it.
LEMMA PairFields ==
    ASSUME NEW r \in Pair
    PROVE  /\ r.user \in Users /\ r.login \in Nat /\ r.issued \in Nat /\ r.spent \in Nat
           /\ r.out \in Nat /\ r.late \in BOOLEAN
  BY DEF Pair

LEMMA PairSpent ==
    ASSUME NEW r \in Pair, NEW s \in Nat
    PROVE  LET q == [r EXCEPT !.spent = s] IN
           /\ q \in Pair /\ q.spent = s
           /\ q.user = r.user /\ q.login = r.login /\ q.issued = r.issued /\ q.late = r.late
  BY DEF Pair

LEMMA PairOut ==
    ASSUME NEW r \in Pair, NEW s \in Nat
    PROVE  LET q == [r EXCEPT !.out = s] IN
           /\ q \in Pair /\ q.spent = r.spent
           /\ q.user = r.user /\ q.login = r.login /\ q.issued = r.issued /\ q.late = r.late
  BY DEF Pair

LEMMA PairNumbers ==
    ASSUME SessionsTypeOK, NEW t \in DOMAIN pairs
    PROVE  /\ pairs[t] \in Pair /\ t \in Nat /\ moment \in Nat /\ RefreshTTL \in Nat \ {0}
           /\ pairs[t].issued \in Nat /\ pairs[t].spent \in Nat
           /\ RefreshExpiry(t) = pairs[t].issued + RefreshTTL
           /\ RefreshExpiry(t) \in Nat \ {0}
<1>1. pairs[t] \in Pair /\ t \in Nat /\ moment \in Nat
  BY DEF SessionsTypeOK
<1>2. pairs[t].issued \in Nat /\ pairs[t].spent \in Nat
  BY <1>1, PairFields
<1>3. RefreshTTL \in Nat \ {0}
  BY SessionsAssumption
<1> QED BY <1>1, <1>2, <1>3 DEF RefreshExpiry

\* A step of tokens, seen pair by pair: what was is kept but for one key, and what is new
\* was never spent.
Keeps(t, s) ==
    /\ pairs' \in Seq(Pair)
    /\ Len(pairs') \in {Len(pairs), Len(pairs) + 1}
    /\ \A x \in DOMAIN pairs :
         /\ pairs'[x].user = pairs[x].user /\ pairs'[x].login = pairs[x].login
         /\ pairs'[x].issued = pairs[x].issued /\ pairs'[x].late = pairs[x].late
         /\ pairs'[x].spent = (IF x = t THEN s ELSE pairs[x].spent)

LEMMA LateStaysLate ==
    ASSUME SessionsTypeOK, NEW t, NEW s, Keeps(t, s), NEW login, SpentLate(login)
    PROVE  SpentLate(login)'
<1>1. PICK x \in DOMAIN pairs : pairs[x].login = login /\ pairs[x].late
  BY DEF SpentLate
<1>2. x \in DOMAIN pairs' /\ pairs'[x].login = login /\ pairs'[x].late
  BY <1>1 DEF Keeps, SessionsTypeOK
<1> QED BY <1>2 DEF SpentLate

\* Refreshes under way stay in time, whatever is written of the pairs.
LEMMA RefreshesStayInTime ==
    ASSUME SessionsTypeOK, RefreshesInTime, NEW t, NEW s, Keeps(t, s),
           UNCHANGED moment,
           \A b \in Browsers : refreshing'[b] = refreshing[b] \/ refreshing'[b] = NotRefreshing
    PROVE  RefreshesInTime'
<1> SUFFICES ASSUME NEW b \in Browsers, refreshing'[b].at = "spend"
             PROVE  /\ refreshing'[b].token \in DOMAIN pairs'
                    /\ refreshing'[b].ttl > 0
                    /\ moment' + refreshing'[b].ttl
                         >= pairs'[refreshing'[b].token].issued + RefreshTTL
  BY DEF RefreshesInTime, RefreshExpiry
<1>1. refreshing'[b] = refreshing[b]
  BY DEF NotRefreshing
<1>2. PICK x \in DOMAIN pairs : x = refreshing[b].token
  BY <1>1 DEF RefreshesInTime
<1>3. x \in DOMAIN pairs' /\ pairs'[x].issued = pairs[x].issued
  BY DEF Keeps, SessionsTypeOK
<1>4. refreshing[b].ttl > 0 /\ moment + refreshing[b].ttl >= pairs[x].issued + RefreshTTL
  BY <1>1, <1>2 DEF RefreshesInTime, RefreshExpiry
<1> QED BY <1>1, <1>2, <1>3, <1>4

LEMMA LoginKeeps ==
    ASSUME SessionsInv, NEW u \in Users, Login(u)
    PROVE  SessionsTypeOK' /\ TokensInv'
<1> DEFINE n == Len(pairs) + 1
           new == [user |-> u, login |-> n, issued |-> moment, spent |-> 0, out |-> 0,
                   late |-> FALSE]
<1>1. n \in Nat /\ n = Len(pairs) + 1
  BY DEF SessionsInv, SessionsTypeOK
<1>2. new \in Pair /\ new.login = n /\ new.spent = 0
  BY <1>1 DEF Pair, SessionsInv, SessionsTypeOK
<1>3. pairs' = Append(pairs, new) /\ UNCHANGED <<refreshing, ended, moment>>
  BY DEF Login, Issued
<1>4. UNCHANGED <<account, frozenUntil, alerts, freezing, userAudits, freezes>>
  BY DEF Login
<1> HIDE DEF new, n
<1>5. Keeps(0, 0)
  BY <1>2, <1>3 DEF Keeps, SessionsInv, SessionsTypeOK
<1>6. SessionsTypeOK'
  BY <1>3, <1>4, <1>5 DEF Keeps, SessionsInv, SessionsTypeOK
<1>7. /\ DOMAIN pairs' = 1..n /\ DOMAIN pairs = 1..(n - 1)
      /\ pairs'[n] = new
      /\ \A x \in DOMAIN pairs : pairs'[x] = pairs[x]
  BY <1>1, <1>2, <1>3 DEF SessionsInv, SessionsTypeOK
<1>8. \A x \in DOMAIN pairs : pairs[x].login \in 1..(n - 1)
  <2> SUFFICES ASSUME NEW x \in 1..(n - 1) PROVE pairs[x].login \in 1..(n - 1)
    BY <1>7
  <2>1. pairs[x].login \in 1..x
    BY <1>7 DEF SessionsInv, TokensInv, SpentOutlives
  <2> QED BY <1>1, <2>1
<1>9. SpentOutlives'
  BY <1>1, <1>2, <1>7 DEF SessionsInv, TokensInv, SpentOutlives, RefreshExpiry
<1>10. RefreshesInTime'
  BY <1>3, <1>5, RefreshesStayInTime DEF SessionsInv, TokensInv
<1>11. OneUnspent'
  <2> SUFFICES ASSUME NEW x \in 1..n, NEW y \in 1..n, NEW login,
                      pairs'[x].login = login, pairs'[y].login = login,
                      pairs'[x].spent = 0, pairs'[y].spent = 0, x # y
               PROVE  SpentLate(login)'
    BY <1>7 DEF OneUnspent, SpentLate
  <2>1. x \in DOMAIN pairs /\ y \in DOMAIN pairs
    BY <1>1, <1>2, <1>7, <1>8
  <2>2. SpentLate(login)
    BY <2>1, <1>7 DEF SessionsInv, TokensInv, OneUnspent
  <2> QED BY <2>2, <1>5, LateStaysLate DEF SessionsInv
<1>12. EndedAreSpent'
  BY <1>1, <1>2, <1>3, <1>7, <1>8 DEF SessionsInv, TokensInv, EndedAreSpent, SpentLate, SessionsTypeOK
<1> QED BY <1>6, <1>9, <1>10, <1>11, <1>12 DEF TokensInv

LEMMA BeginRefreshKeeps ==
    ASSUME SessionsInv, NEW b \in Browsers, NEW t \in DOMAIN pairs, BeginRefresh(b, t)
    PROVE  SessionsTypeOK' /\ TokensInv'
<1> DEFINE left == RefreshExpiry(t) - moment
<1>1. /\ t \in Nat /\ moment \in Nat /\ RefreshExpiry(t) \in Nat
      /\ RefreshExpiry(t) = pairs[t].issued + RefreshTTL
  BY PairNumbers DEF SessionsInv
<1>2. left \in Nat /\ left > 0 /\ moment + left = pairs[t].issued + RefreshTTL
  BY <1>1 DEF BeginRefresh
<1>3. refreshing' = [refreshing EXCEPT ![b] = [at |-> "spend", token |-> t, ttl |-> left]]
  BY DEF BeginRefresh
<1>4. UNCHANGED <<account, pairs, frozenUntil, alerts, freezing, userAudits, ended, freezes,
                  moment>>
  BY DEF BeginRefresh
<1> HIDE DEF left
<1>5. [at |-> "spend", token |-> t, ttl |-> left] \in Refresh
  BY <1>1, <1>2 DEF Refresh
<1>6. SessionsTypeOK'
  BY <1>3, <1>4, <1>5 DEF SessionsInv, SessionsTypeOK
<1>7. RefreshesInTime'
  <2> SUFFICES ASSUME NEW c \in Browsers, refreshing'[c].at = "spend"
               PROVE  /\ refreshing'[c].token \in DOMAIN pairs
                      /\ refreshing'[c].ttl > 0
                      /\ moment + refreshing'[c].ttl
                           >= pairs[refreshing'[c].token].issued + RefreshTTL
    BY <1>4 DEF RefreshesInTime, RefreshExpiry
  <2>1. CASE c = b
    <3>1. refreshing'[c].token = t /\ refreshing'[c].ttl = left
      BY <1>3, <2>1 DEF SessionsInv, SessionsTypeOK
    <3>2. moment + left >= pairs[t].issued + RefreshTTL
      BY <1>1, <1>2
    <3> QED BY <1>2, <3>1, <3>2
  <2>2. CASE c # b
    BY <1>3, <2>2 DEF SessionsInv, SessionsTypeOK, TokensInv, RefreshesInTime, RefreshExpiry
  <2> QED BY <2>1, <2>2
<1>8. SpentOutlives' /\ OneUnspent' /\ EndedAreSpent'
  BY <1>4 DEF SessionsInv, TokensInv, SpentOutlives, OneUnspent, EndedAreSpent, SpentLate,
              RefreshExpiry
<1> QED BY <1>6, <1>7, <1>8 DEF TokensInv

LEMMA MomentPassesKeeps ==
    ASSUME SessionsInv, MomentPasses
    PROVE  SessionsTypeOK' /\ TokensInv'
<1>1. /\ moment' = moment + 1
      /\ UNCHANGED <<account, pairs, refreshing, frozenUntil, alerts, freezing, userAudits, ended,
                     freezes>>
  BY DEF MomentPasses
<1>2. SessionsTypeOK'
  BY <1>1 DEF SessionsInv, SessionsTypeOK
<1>3. RefreshesInTime'
  <2> SUFFICES ASSUME NEW b \in Browsers, refreshing[b].at = "spend"
               PROVE  /\ refreshing[b].token \in DOMAIN pairs
                      /\ refreshing[b].ttl > 0
                      /\ moment' + refreshing[b].ttl
                           >= pairs[refreshing[b].token].issued + RefreshTTL
    BY <1>1 DEF RefreshesInTime, RefreshExpiry
  <2>1. PICK x \in DOMAIN pairs : x = refreshing[b].token
    BY DEF SessionsInv, TokensInv, RefreshesInTime
  <2>2. PICK left : left = refreshing[b].ttl
    OBVIOUS
  <2>3. left \in Nat
    <3>1. refreshing[b] \in Refresh
      BY DEF SessionsInv, SessionsTypeOK
    <3> QED BY <2>2, <3>1 DEF Refresh, NotRefreshing
  <2>4. RefreshExpiry(x) \in Nat /\ RefreshExpiry(x) = pairs[x].issued + RefreshTTL /\ moment \in Nat
    BY PairNumbers DEF SessionsInv
  <2>5. left > 0 /\ moment + left >= pairs[x].issued + RefreshTTL
    BY <2>1, <2>2 DEF SessionsInv, TokensInv, RefreshesInTime, RefreshExpiry
  <2>6. moment' + left >= pairs[x].issued + RefreshTTL
    BY <1>1, <2>3, <2>4, <2>5
  <2> QED BY <2>1, <2>2, <2>5, <2>6
<1>4. SpentOutlives' /\ OneUnspent' /\ EndedAreSpent'
  BY <1>1 DEF SessionsInv, TokensInv, SpentOutlives, OneUnspent, EndedAreSpent, SpentLate,
              RefreshExpiry
<1> QED BY <1>2, <1>3, <1>4 DEF TokensInv

\* What a refresh makes of the pairs: the token it spent, and one more.
Refreshed(t, s, late) ==
    [Issued(pairs[t].user, pairs[t].login, late) EXCEPT ![t].spent = s]

LEMMA SpentAndIssued ==
    ASSUME SessionsInv, NEW t \in DOMAIN pairs, NEW s \in Nat, NEW late \in BOOLEAN,
           pairs' = Refreshed(t, s, late)
    PROVE  LET n == Len(pairs) + 1 IN
           /\ Keeps(t, s)
           /\ DOMAIN pairs' = 1..n /\ Len(pairs') = n
           /\ pairs'[n].login = pairs[t].login /\ pairs'[n].spent = 0 /\ pairs'[n].late = late
<1> DEFINE n == Len(pairs) + 1
           new == [user |-> pairs[t].user, login |-> pairs[t].login, issued |-> moment,
                   spent |-> 0, out |-> 0, late |-> late]
           more == Append(pairs, new)
           old == pairs[t]
           kept == [old EXCEPT !.spent = s]
<1>1. pairs \in Seq(Pair) /\ old \in Pair /\ moment \in Nat /\ old = pairs[t]
  BY DEF SessionsInv, SessionsTypeOK
<1>2. new \in Pair /\ new.login = old.login /\ new.spent = 0 /\ new.late = late
  BY <1>1, PairFields DEF Pair
<1>3. /\ kept \in Pair /\ kept.spent = s
      /\ kept.user = old.user /\ kept.login = old.login /\ kept.issued = old.issued
      /\ kept.late = old.late
  BY <1>1, PairSpent
<1>4. pairs' = [more EXCEPT ![t] = [more[t] EXCEPT !.spent = s]]
  BY DEF Refreshed, Issued
<1>n. n = Len(pairs) + 1 /\ n \in Nat /\ DOMAIN pairs = 1..(n - 1) /\ t \in 1..(n - 1)
  BY <1>1
<1> HIDE DEF new, old
<1>5. /\ more \in Seq(Pair) /\ Len(more) = n /\ more[n] = new
      /\ \A x \in DOMAIN pairs : x \in DOMAIN more /\ x # n /\ more[x] = pairs[x]
  BY <1>1, <1>2
<1>6. pairs' = [more EXCEPT ![t] = kept]
  BY <1>1, <1>4, <1>5
<1> HIDE DEF kept, more, n
<1>7. /\ pairs' \in Seq(Pair) /\ Len(pairs') = n /\ pairs'[n] = new /\ pairs'[t] = kept
      /\ \A x \in DOMAIN pairs : x # t => pairs'[x] = pairs[x]
  <2>1. DOMAIN more = 1..n
    BY <1>5
  <2>3. pairs' \in Seq(Pair) /\ Len(pairs') = n
    <3>1. more \in Seq(Pair) /\ Len(more) = n /\ t \in 1..Len(more) /\ kept \in Pair
      BY <1>n, <1>3, <1>5
    <3> QED BY <3>1, <1>6
  <2>4. t \in DOMAIN more /\ n \in DOMAIN more /\ t # n
    BY <1>n, <2>1
  <2> QED BY <1>5, <1>6, <2>3, <2>4
<1>8. Keeps(t, s)
  <2>1. ASSUME NEW x \in DOMAIN pairs
        PROVE  /\ pairs'[x].user = pairs[x].user /\ pairs'[x].login = pairs[x].login
               /\ pairs'[x].issued = pairs[x].issued /\ pairs'[x].late = pairs[x].late
               /\ pairs'[x].spent = IF x = t THEN s ELSE pairs[x].spent
    <3>1. CASE x = t
      <4>1. pairs'[x] = kept /\ pairs[x] = old
        BY <1>1, <1>7, <3>1
      <4> QED BY <1>3, <3>1, <4>1
    <3>2. CASE x # t
      BY <1>7, <3>2
    <3> QED BY <3>1, <3>2
  <2> QED BY <1>n, <1>7, <2>1 DEF Keeps
<1>9. DOMAIN pairs' = 1..n
  BY <1>7
<1> QED BY <1>1, <1>2, <1>7, <1>8, <1>9 DEF n

LEMMA SpendTokenKeeps ==
    ASSUME SessionsInv, NEW b \in Browsers, SpendToken(b)
    PROVE  SessionsTypeOK' /\ TokensInv'
<1>1. /\ refreshing[b].at = "spend"
      /\ refreshing' = [refreshing EXCEPT ![b] = NotRefreshing]
      /\ UNCHANGED <<account, frozenUntil, alerts, freezing, userAudits, ended, freezes, moment>>
  BY DEF SpendToken
<1>2. \A c \in Browsers : refreshing'[c] = refreshing[c] \/ refreshing'[c] = NotRefreshing
  BY <1>1 DEF SessionsInv, SessionsTypeOK
<1>3. refreshing' \in [Browsers -> Refresh]
  BY <1>1 DEF SessionsInv, SessionsTypeOK, Refresh
<1>4. PICK t \in DOMAIN pairs : t = refreshing[b].token
  BY <1>1 DEF SessionsInv, TokensInv, RefreshesInTime
<1>5. PICK left : left = refreshing[b].ttl
  OBVIOUS
<1>6. left \in Nat /\ left > 0
  <2>1. refreshing[b] \in Refresh
    BY DEF SessionsInv, SessionsTypeOK
  <2>2. left \in Nat
    BY <1>1, <1>5, <2>1 DEF Refresh, NotRefreshing
  <2> QED BY <1>1, <1>5, <2>2 DEF SessionsInv, TokensInv, RefreshesInTime
<1>7. moment + left >= pairs[t].issued + RefreshTTL
  BY <1>1, <1>4, <1>5 DEF SessionsInv, TokensInv, RefreshesInTime, RefreshExpiry
<1>8. CASE ~Spendable(t)
  <2>1. UNCHANGED pairs
    BY <1>4, <1>8 DEF SpendToken
  <2>2. Keeps(0, 0)
    BY <2>1 DEF Keeps, SessionsInv, SessionsTypeOK
  <2>3. RefreshesInTime'
    BY <1>1, <1>2, <2>2, RefreshesStayInTime DEF SessionsInv, TokensInv
  <2>4. SpentOutlives' /\ OneUnspent' /\ EndedAreSpent'
    BY <1>1, <2>1 DEF SessionsInv, TokensInv, SpentOutlives, OneUnspent, EndedAreSpent,
                      SpentLate, RefreshExpiry
  <2>5. SessionsTypeOK'
    BY <1>1, <1>3, <2>1 DEF SessionsInv, SessionsTypeOK
  <2> QED BY <2>3, <2>4, <2>5 DEF TokensInv
<1>9. CASE Spendable(t)
  <2> DEFINE n == Len(pairs) + 1
             s == moment + left
             late == RefreshExpiry(t) <= moment
  <2>1. pairs' = Refreshed(t, s, late)
    BY <1>4, <1>5, <1>9 DEF SpendToken, Refreshed
  <2>2. pairs[t] \in Pair /\ moment \in Nat /\ s \in Nat /\ s > 0 /\ late \in BOOLEAN
    BY <1>6 DEF SessionsInv, SessionsTypeOK
  <2>3. s >= pairs[t].issued + RefreshTTL
    BY <1>7
  <2>4. pairs[t].spent # 0 => late
    <3>1. pairs[t].spent <= moment
      BY <1>9 DEF Spendable
    <3>2. pairs[t].spent = 0 \/ pairs[t].spent >= RefreshExpiry(t)
      BY DEF SessionsInv, TokensInv, SpentOutlives
    <3>3. RefreshExpiry(t) \in Nat /\ pairs[t].spent \in Nat
      BY PairNumbers DEF SessionsInv
    <3> QED BY <2>2, <3>1, <3>2, <3>3
  <2>n. n \in Nat /\ n = Len(pairs) + 1 /\ DOMAIN pairs = 1..(n - 1)
    BY DEF SessionsInv, SessionsTypeOK
  <2> HIDE DEF s, late
  <2>5. /\ Keeps(t, s)
        /\ DOMAIN pairs' = 1..n /\ Len(pairs') = n
        /\ pairs'[n].login = pairs[t].login /\ pairs'[n].spent = 0 /\ pairs'[n].late = late
    BY <2>1, <2>2, SpentAndIssued
  <2> HIDE DEF n
  <2>6. RefreshesInTime'
    BY <1>1, <1>2, <2>5, RefreshesStayInTime DEF SessionsInv, TokensInv
  <2>7. SessionsTypeOK'
    BY <1>1, <1>3, <2>5 DEF Keeps, SessionsInv, SessionsTypeOK
  <2>8. SpentOutlives'
    <3> SUFFICES ASSUME NEW x \in 1..n
                 PROVE  /\ pairs'[x].login \in 1..x
                        /\ \/ pairs'[x].spent = 0
                           \/ pairs'[x].spent >= pairs'[x].issued + RefreshTTL
      BY <2>5 DEF SpentOutlives, RefreshExpiry
    <3>1. CASE x = n
      <4>1. pairs[t].login \in 1..t /\ t \in 1..(n - 1)
        BY <2>n DEF SessionsInv, TokensInv, SpentOutlives
      <4> QED BY <2>n, <2>5, <3>1, <4>1
    <3>2. CASE x # n
      <4>1. x \in DOMAIN pairs
        BY <2>n, <3>2
      <4>2. /\ pairs'[x].login = pairs[x].login /\ pairs'[x].issued = pairs[x].issued
            /\ pairs'[x].spent = IF x = t THEN s ELSE pairs[x].spent
        BY <4>1, <2>5 DEF Keeps
      <4> QED BY <4>1, <4>2, <2>3 DEF SessionsInv, TokensInv, SpentOutlives, RefreshExpiry
    <3> QED BY <3>1, <3>2
  <2>9. OneUnspent'
    <3> SUFFICES ASSUME NEW x \in 1..n, NEW y \in 1..n, NEW login,
                        pairs'[x].login = login, pairs'[y].login = login,
                        pairs'[x].spent = 0, pairs'[y].spent = 0, x # y
                 PROVE  SpentLate(login)'
      BY <2>5 DEF OneUnspent, SpentLate
    <3>1. \A z \in DOMAIN pairs : pairs'[z].spent = 0 => z # t /\ pairs[z].spent = 0
      BY <2>2, <2>5 DEF Keeps
    <3>2. CASE x # n /\ y # n
      <4>1. x \in DOMAIN pairs /\ y \in DOMAIN pairs
        BY <2>n, <3>2
      <4>2. pairs[x].login = login /\ pairs[y].login = login
        BY <2>5, <4>1 DEF Keeps
      <4>3. SpentLate(login)
        BY <3>1, <4>1, <4>2 DEF SessionsInv, TokensInv, OneUnspent
      <4> QED BY <4>3, <2>5, LateStaysLate DEF SessionsInv
    <3>3. ASSUME NEW z \in DOMAIN pairs, pairs'[z].login = login, pairs'[z].spent = 0,
                 pairs[t].login = login
          PROVE  SpentLate(login)'
      <4>1. z # t /\ pairs[z].spent = 0 /\ pairs[z].login = login
        BY <3>1, <3>3, <2>5 DEF Keeps
      <4>2. CASE pairs[t].spent = 0
        <5>1. SpentLate(login)
          BY <3>3, <4>1, <4>2 DEF SessionsInv, TokensInv, OneUnspent
        <5> QED BY <5>1, <2>5, LateStaysLate DEF SessionsInv
      <4>3. CASE pairs[t].spent # 0
        <5>1. n \in 1..n
          BY <2>n
        <5> QED BY <2>4, <2>5, <3>3, <4>3, <5>1 DEF SpentLate
      <4> QED BY <4>2, <4>3
    <3>4. CASE x = n
      BY <2>n, <2>5, <3>3, <3>4
    <3>5. CASE y = n
      BY <2>n, <2>5, <3>3, <3>5
    <3> QED BY <3>2, <3>4, <3>5
  <2>10. EndedAreSpent'
    <3>1. ended' \subseteq 1..Len(pairs')
      <4>0. ended \subseteq 1..Len(pairs) /\ Len(pairs) = n - 1
        BY <2>n DEF SessionsInv, TokensInv, EndedAreSpent, SessionsTypeOK
      <4>1. ended \subseteq 1..(n - 1) /\ Len(pairs') = n
        BY <2>5, <4>0
      <4> QED BY <1>1, <2>n, <4>1
    <3> SUFFICES ASSUME NEW x \in 1..n, NEW login, pairs'[x].login = login, login \in ended,
                        pairs'[x].spent = 0
                 PROVE  SpentLate(login)'
      BY <1>1, <2>5, <3>1 DEF EndedAreSpent, SpentLate
    <3>2. CASE x # n
      <4>1. x \in DOMAIN pairs
        BY <2>n, <3>2
      <4>2. pairs[x].login = login /\ pairs[x].spent = 0
        BY <2>2, <2>5, <4>1 DEF Keeps
      <4>3. SpentLate(login)
        BY <4>1, <4>2 DEF SessionsInv, TokensInv, EndedAreSpent
      <4> QED BY <4>3, <2>5, LateStaysLate DEF SessionsInv
    <3>3. CASE x = n
      <4>1. pairs[t].login = login
        BY <2>5, <3>3
      <4>2. CASE pairs[t].spent = 0
        <5>1. SpentLate(login)
          BY <4>1, <4>2 DEF SessionsInv, TokensInv, EndedAreSpent
        <5> QED BY <5>1, <2>5, LateStaysLate DEF SessionsInv
      <4>3. CASE pairs[t].spent # 0
        BY <2>4, <2>5, <3>3, <4>1, <4>3 DEF SpentLate
      <4> QED BY <4>2, <4>3
    <3> QED BY <3>2, <3>3
  <2> QED BY <2>6, <2>7, <2>8, <2>9, <2>10 DEF TokensInv
<1> QED BY <1>8, <1>9

\* What logging out makes of the pairs.
LEMMA LoggedOutIsSpent ==
    ASSUME SessionsInv, NEW t \in DOMAIN pairs, pairs' = LoggedOut(t)
    PROVE  LET s == IF RefreshExpiry(t) > moment THEN RefreshExpiry(t) ELSE pairs[t].spent IN
           Keeps(t, s) /\ DOMAIN pairs' = DOMAIN pairs /\ Len(pairs') = Len(pairs)
<1> DEFINE old == pairs[t]
           s == IF RefreshExpiry(t) > moment THEN RefreshExpiry(t) ELSE pairs[t].spent
           o == IF AccessExpiry(t) > moment THEN AccessExpiry(t) ELSE old.out
           one == [old EXCEPT !.out = o]
           two == [one EXCEPT !.spent = s]
           first == [pairs EXCEPT ![t] = one]
<1>1. pairs \in Seq(Pair) /\ old \in Pair /\ old = pairs[t] /\ t \in 1..Len(pairs)
  BY DEF SessionsInv, SessionsTypeOK
<1>2. s \in Nat /\ o \in Nat
  <2>1. RefreshExpiry(t) \in Nat /\ pairs[t].spent \in Nat /\ pairs[t].issued \in Nat /\ moment \in Nat
    BY PairNumbers DEF SessionsInv
  <2>2. AccessExpiry(t) \in Nat
    <3>1. AccessTTL \in Nat
      BY SessionsAssumption
    <3> QED BY <2>1, <3>1 DEF AccessExpiry
  <2>3. old.out \in Nat
    BY <1>1, PairFields
  <2> QED BY <2>1, <2>2, <2>3
<1>3. pairs' = [first EXCEPT ![t] =
                  [first[t] EXCEPT !.spent = IF RefreshExpiry(t) > moment THEN RefreshExpiry(t)
                                             ELSE first[t].spent]]
  BY DEF LoggedOut
<1> HIDE DEF old, o
<1>4. /\ one \in Pair /\ one.spent = old.spent
      /\ one.user = old.user /\ one.login = old.login /\ one.issued = old.issued
      /\ one.late = old.late
  BY <1>1, <1>2, PairOut
<1> HIDE DEF one
<1>5. /\ first \in Seq(Pair) /\ Len(first) = Len(pairs) /\ first[t] = one
      /\ \A x \in DOMAIN pairs : x # t => first[x] = pairs[x]
  BY <1>1, <1>4
<1> HIDE DEF first
<1>6. pairs' = [first EXCEPT ![t] = two]
  BY <1>1, <1>3, <1>4, <1>5
<1> HIDE DEF s
<1>7. /\ two \in Pair /\ two.spent = s
      /\ two.user = old.user /\ two.login = old.login /\ two.issued = old.issued
      /\ two.late = old.late
  <2>1. /\ two \in Pair /\ two.spent = s
        /\ two.user = one.user /\ two.login = one.login /\ two.issued = one.issued
        /\ two.late = one.late
    BY <1>2, <1>4, PairSpent
  <2> QED BY <1>4, <2>1
<1> HIDE DEF two
<1>8. /\ pairs' \in Seq(Pair) /\ Len(pairs') = Len(pairs) /\ pairs'[t] = two
      /\ \A x \in DOMAIN pairs : x # t => pairs'[x] = pairs[x]
  BY <1>1, <1>5, <1>6, <1>7
<1>9. ASSUME NEW x \in DOMAIN pairs
      PROVE  /\ pairs'[x].user = pairs[x].user /\ pairs'[x].login = pairs[x].login
             /\ pairs'[x].issued = pairs[x].issued /\ pairs'[x].late = pairs[x].late
             /\ pairs'[x].spent = IF x = t THEN s ELSE pairs[x].spent
  <2>1. CASE x = t
    <3>1. pairs'[x] = two /\ pairs[x] = old
      BY <1>1, <1>8, <2>1
    <3> QED BY <1>7, <2>1, <3>1
  <2>2. CASE x # t
    BY <1>8, <2>2
  <2> QED BY <2>1, <2>2
<1>10. Keeps(t, s)
  BY <1>8, <1>9 DEF Keeps
<1>11. DOMAIN pairs' = DOMAIN pairs /\ Len(pairs') = Len(pairs)
  BY <1>1, <1>8
<1> QED BY <1>10, <1>11 DEF s

LEMMA LogoutKeeps ==
    ASSUME SessionsInv, NEW t \in DOMAIN pairs, Logout(t)
    PROVE  SessionsTypeOK' /\ TokensInv'
<1> DEFINE s == IF RefreshExpiry(t) > moment THEN RefreshExpiry(t) ELSE pairs[t].spent
<1>1. /\ pairs' = LoggedOut(t)
      /\ ended' = IF LiveToken(t) THEN ended \cup {pairs[t].login} ELSE ended
      /\ UNCHANGED <<account, refreshing, frozenUntil, alerts, freezing, userAudits, freezes, moment>>
  BY DEF Logout
<1>2. Keeps(t, s) /\ DOMAIN pairs' = DOMAIN pairs /\ Len(pairs') = Len(pairs)
  BY <1>1, LoggedOutIsSpent
<1>3. /\ t \in Nat /\ moment \in Nat /\ pairs[t].spent \in Nat
      /\ RefreshExpiry(t) = pairs[t].issued + RefreshTTL /\ RefreshExpiry(t) \in Nat \ {0}
  BY PairNumbers DEF SessionsInv
<1>4. pairs[t].spent = 0 \/ pairs[t].spent >= pairs[t].issued + RefreshTTL
  BY <1>3 DEF SessionsInv, TokensInv, SpentOutlives
<1>5. s = 0 \/ s >= pairs[t].issued + RefreshTTL
  BY <1>3, <1>4
<1>6. s = 0 => pairs[t].spent = 0
  BY <1>3
<1>7. LiveToken(t) => pairs[t].spent = 0 /\ s # 0
  BY <1>3, <1>4 DEF LiveToken
<1> HIDE DEF s
<1>8. SessionsTypeOK'
  BY <1>1, <1>2 DEF Keeps, SessionsInv, SessionsTypeOK
<1>9. RefreshesInTime'
  BY <1>1, <1>2, RefreshesStayInTime DEF SessionsInv, TokensInv
<1>10. SpentOutlives'
  <2> SUFFICES ASSUME NEW x \in DOMAIN pairs
               PROVE  /\ pairs'[x].login \in 1..x
                      /\ \/ pairs'[x].spent = 0
                         \/ pairs'[x].spent >= pairs'[x].issued + RefreshTTL
    BY <1>2 DEF SpentOutlives, RefreshExpiry
  <2>1. /\ pairs'[x].login = pairs[x].login /\ pairs'[x].issued = pairs[x].issued
        /\ pairs'[x].spent = IF x = t THEN s ELSE pairs[x].spent
    BY <1>2 DEF Keeps
  <2> QED BY <1>5, <2>1 DEF SessionsInv, TokensInv, SpentOutlives, RefreshExpiry
<1>11. \A z \in DOMAIN pairs : pairs'[z].spent = 0 => pairs[z].spent = 0 /\ (z = t => s = 0)
  BY <1>2, <1>6 DEF Keeps
<1>12. OneUnspent'
  <2> SUFFICES ASSUME NEW x \in DOMAIN pairs, NEW y \in DOMAIN pairs, NEW login,
                      pairs'[x].login = login, pairs'[y].login = login,
                      pairs'[x].spent = 0, pairs'[y].spent = 0, x # y
               PROVE  SpentLate(login)'
    BY <1>2 DEF OneUnspent, SpentLate
  <2>1. pairs[x].login = login /\ pairs[y].login = login
    BY <1>2 DEF Keeps
  <2>2. SpentLate(login)
    BY <1>11, <2>1 DEF SessionsInv, TokensInv, OneUnspent
  <2> QED BY <2>2, <1>2, LateStaysLate DEF SessionsInv
<1>13. EndedAreSpent'
  <2>1. ended' \subseteq 1..Len(pairs')
    <3>1. pairs[t].login \in 1..t /\ t \in 1..Len(pairs) /\ ended \subseteq 1..Len(pairs)
      BY DEF SessionsInv, TokensInv, SpentOutlives, EndedAreSpent, SessionsTypeOK
    <3>2. Len(pairs) \in Nat
      BY DEF SessionsInv, SessionsTypeOK
    <3>3. pairs[t].login \in 1..Len(pairs)
      BY <3>1, <3>2
    <3> QED BY <1>1, <1>2, <3>1, <3>3
  <2> SUFFICES ASSUME NEW x \in DOMAIN pairs, NEW login, pairs'[x].login = login,
                      login \in ended', pairs'[x].spent = 0
               PROVE  SpentLate(login)'
    BY <1>2, <2>1 DEF EndedAreSpent, SpentLate
  <2>2. pairs[x].login = login /\ pairs[x].spent = 0 /\ (x = t => s = 0)
    BY <1>2, <1>11 DEF Keeps
  <2>3. SpentLate(login)
    <3>1. CASE login \in ended
      BY <2>2, <3>1 DEF SessionsInv, TokensInv, EndedAreSpent
    <3>2. CASE login \notin ended
      <4>1. LiveToken(t) /\ login = pairs[t].login
        BY <1>1, <3>2
      <4>2. pairs[t].spent = 0 /\ x # t
        BY <1>7, <2>2, <4>1
      <4> QED BY <2>2, <4>1, <4>2 DEF SessionsInv, TokensInv, OneUnspent
    <3> QED BY <3>1, <3>2
  <2> QED BY <2>3, <1>2, LateStaysLate DEF SessionsInv
<1> QED BY <1>8, <1>9, <1>10, <1>12, <1>13 DEF TokensInv

\* Freezing leaves the tokens alone, and tokens leave it alone.
LEMMA TokensRest ==
    ASSUME TokensInv, UNCHANGED <<pairs, refreshing, ended, moment>>
    PROVE  TokensInv'
  BY DEF TokensInv, SpentOutlives, RefreshesInTime, OneUnspent, EndedAreSpent, SpentLate,
         RefreshExpiry

LEMMA FreezesRest ==
    ASSUME FreezesInv, UNCHANGED <<account, frozenUntil, alerts, freezing, userAudits>>
    PROVE  FreezesInv'
  BY DEF FreezesInv, FreezesUnderWay, AlertsFollow, UsersFollow

-----------------------------------------------------------------------------
(* Freezing *)

LEMMA AlertStatus ==
    ASSUME NEW r \in Alert, NEW st \in {"resolved", "dismissed"}
    PROVE  LET q == [r EXCEPT !.status = st] IN
           q \in Alert /\ q.status = st /\ q.audits = r.audits
  BY DEF Alert

LEMMA FreezeFields ==
    ASSUME NEW f \in Freeze, f.at # "idle"
    PROVE  /\ f.at \in {"revoke", "resolve"} /\ f.user \in Users
           /\ f.alert \in Alerts \cup {ByHand}
           /\ LET g == [f EXCEPT !.at = "resolve"] IN
              g \in Freeze /\ g.at = "resolve" /\ g.user = f.user /\ g.alert = f.alert
  BY DEF Freeze, NotFreezing

\* The alert that was acted on is in the audit log once.
LEMMA ProcessedOnce ==
    ASSUME SessionsInv, NEW a \in Alerts, alerts[a].status \in {"pending", "processing"}
    PROVE  /\ Processed(a) \in [Alerts -> Alert]
           /\ Processed(a)[a].status = "processing" /\ Processed(a)[a].audits = 1
           /\ \A c \in Alerts : c # a => Processed(a)[c] = alerts[c]
<1>1. /\ alerts \in [Alerts -> Alert]
      /\ alerts[a].audits = (IF alerts[a].status \in {"processing", "resolved"} THEN 1 ELSE 0)
  BY DEF SessionsInv, SessionsTypeOK, FreezesInv, AlertsFollow
<1> DEFINE new == [status |-> "processing", audits |-> alerts[a].audits + 1]
<1>2. CASE alerts[a].status = "pending"
  <2>1. Processed(a) = [alerts EXCEPT ![a] = new]
    BY <1>2 DEF Processed, Pending
  <2>2. new \in Alert /\ new.status = "processing" /\ new.audits = 1
    BY <1>1, <1>2 DEF Alert
  <2> HIDE DEF new
  <2> QED BY <1>1, <2>1, <2>2
<1>3. CASE alerts[a].status = "processing"
  BY <1>1, <1>3 DEF Processed, Pending
<1> QED BY <1>2, <1>3

LEMMA FreezeAlertKeeps ==
    ASSUME SessionsInv, NEW o \in Operators, NEW a \in Alerts, FreezeAlert(o, a)
    PROVE  SessionsTypeOK' /\ FreezesInv'
<1> DEFINE mine == [at |-> "revoke", user |-> TargetOf[a], alert |-> a]
           new == Processed(a)
<1>1. /\ alerts[a].status \in {"pending", "processing"}
      /\ account' = [account EXCEPT ![TargetOf[a]] = "frozen"]
      /\ alerts' = new
      /\ freezing' = [freezing EXCEPT ![o] = mine]
      /\ freezes' = freezes + 1
      /\ UNCHANGED <<pairs, refreshing, frozenUntil, userAudits, ended, moment>>
  BY DEF FreezeAlert
<1>2. TargetOf[a] \in Users
  BY SessionsAssumption
<1>3. mine \in Freeze /\ mine.at = "revoke" /\ mine.user = TargetOf[a] /\ mine.alert = a
  BY <1>2 DEF Freeze
<1>4. /\ new \in [Alerts -> Alert]
      /\ new[a].status = "processing" /\ new[a].audits = 1
      /\ \A c \in Alerts : c # a => new[c] = alerts[c]
  BY <1>1, ProcessedOnce
<1> HIDE DEF mine, new
<1>5. SessionsTypeOK'
  BY <1>1, <1>2, <1>3, <1>4 DEF SessionsInv, SessionsTypeOK
<1>6. /\ account'[TargetOf[a]] = "frozen"
      /\ \A u \in Users : account[u] = "frozen" => account'[u] = "frozen"
      /\ \A u \in Users : u # TargetOf[a] => account'[u] = account[u]
  BY <1>1, <1>2 DEF SessionsInv, SessionsTypeOK
<1>7. \A c \in Alerts : alerts[c].status \in {"processing", "resolved"}
                          => alerts'[c].status \in {"processing", "resolved"}
  BY <1>1, <1>4
<1>8. FreezesUnderWay'
  <2> SUFFICES ASSUME NEW p \in Operators, NEW f, f = freezing'[p], f.at # "idle"
               PROVE  /\ account'[f.user] = "frozen"
                      /\ f.alert \in Alerts => /\ f.user = TargetOf[f.alert]
                                               /\ alerts'[f.alert].status \in {"processing", "resolved"}
                      /\ f.at = "resolve" => f.alert \in Alerts /\ frozenUntil[f.user] > 0
    BY <1>1 DEF FreezesUnderWay
  <2>1. CASE p = o
    <3>1. f = mine
      BY <1>1, <2>1 DEF SessionsInv, SessionsTypeOK
    <3> QED BY <1>1, <1>3, <1>4, <1>6, <3>1
  <2>2. CASE p # o
    <3>1. f = freezing[p] /\ f \in Freeze
      BY <1>1, <2>2 DEF SessionsInv, SessionsTypeOK
    <3>2. f.user \in Users
      BY <3>1, FreezeFields
    <3>3. /\ account[f.user] = "frozen"
          /\ f.alert \in Alerts => /\ f.user = TargetOf[f.alert]
                                   /\ alerts[f.alert].status \in {"processing", "resolved"}
          /\ f.at = "resolve" => f.alert \in Alerts /\ frozenUntil[f.user] > 0
      BY <3>1 DEF SessionsInv, FreezesInv, FreezesUnderWay
    <3> QED BY <1>6, <1>7, <3>2, <3>3
  <2> QED BY <2>1, <2>2
<1>9. AlertsFollow'
  <2> SUFFICES ASSUME NEW c \in Alerts
               PROVE  /\ alerts'[c].audits =
                           (IF alerts'[c].status \in {"processing", "resolved"} THEN 1 ELSE 0)
                      /\ alerts'[c].status \in {"processing", "resolved"}
                           => account'[TargetOf[c]] = "frozen"
                      /\ alerts'[c].status = "resolved" => frozenUntil[TargetOf[c]] > 0
    BY <1>1 DEF AlertsFollow
  <2>1. TargetOf[c] \in Users
    BY SessionsAssumption
  <2>2. CASE c = a
    BY <1>1, <1>4, <1>6, <2>2
  <2>3. CASE c # a
    <3>1. alerts'[c] = alerts[c]
      BY <1>1, <1>4, <2>3
    <3> QED BY <1>6, <2>1, <3>1 DEF SessionsInv, FreezesInv, AlertsFollow
  <2> QED BY <2>2, <2>3
<1>10. UsersFollow'
  <2> SUFFICES ASSUME NEW u \in Users
               PROVE  IF account'[u] = "active" THEN userAudits[u] = 0
                      ELSE \/ userAudits[u] = 1
                           \/ \E c \in Alerts : TargetOf[c] = u /\ alerts'[c].audits = 1
    BY <1>1 DEF UsersFollow
  <2>1. CASE u = TargetOf[a]
    BY <1>1, <1>4, <1>6, <2>1
  <2>2. CASE u # TargetOf[a]
    <3>1. \A c \in Alerts : TargetOf[c] = u => alerts'[c] = alerts[c]
      BY <1>1, <1>4, <2>2
    <3>2. account'[u] = account[u]
      BY <1>6, <2>2
    <3> QED BY <3>1, <3>2 DEF SessionsInv, FreezesInv, UsersFollow
  <2> QED BY <2>1, <2>2
<1> QED BY <1>5, <1>8, <1>9, <1>10 DEF FreezesInv

LEMMA FreezeUserKeeps ==
    ASSUME SessionsInv, NEW o \in Operators, NEW u \in Users, FreezeUser(o, u)
    PROVE  SessionsTypeOK' /\ FreezesInv'
<1> DEFINE mine == [at |-> "revoke", user |-> u, alert |-> ByHand]
<1>1. /\ account' = [account EXCEPT ![u] = "frozen"]
      /\ userAudits' = IF account[u] = "frozen" THEN userAudits
                       ELSE [userAudits EXCEPT ![u] = userAudits[u] + 1]
      /\ freezing' = [freezing EXCEPT ![o] = mine]
      /\ freezes' = freezes + 1
      /\ UNCHANGED <<pairs, refreshing, frozenUntil, alerts, ended, moment>>
  BY DEF FreezeUser
<1>2. mine \in Freeze /\ mine.at = "revoke" /\ mine.user = u /\ mine.alert \notin Alerts
  BY SessionsAssumption DEF Freeze, ByHand
<1> HIDE DEF mine
<1>3. SessionsTypeOK'
  <2>1. userAudits' \in [Users -> Nat]
    BY <1>1 DEF SessionsInv, SessionsTypeOK
  <2> QED BY <1>1, <1>2, <2>1 DEF SessionsInv, SessionsTypeOK
<1>4. /\ account'[u] = "frozen"
      /\ \A v \in Users : account[v] = "frozen" => account'[v] = "frozen"
      /\ \A v \in Users : v # u => account'[v] = account[v] /\ userAudits'[v] = userAudits[v]
  BY <1>1 DEF SessionsInv, SessionsTypeOK
<1>5. FreezesUnderWay'
  <2> SUFFICES ASSUME NEW p \in Operators, NEW f, f = freezing'[p], f.at # "idle"
               PROVE  /\ account'[f.user] = "frozen"
                      /\ f.alert \in Alerts => /\ f.user = TargetOf[f.alert]
                                               /\ alerts[f.alert].status \in {"processing", "resolved"}
                      /\ f.at = "resolve" => f.alert \in Alerts /\ frozenUntil[f.user] > 0
    BY <1>1 DEF FreezesUnderWay
  <2>1. CASE p = o
    <3>1. f = mine
      BY <1>1, <2>1 DEF SessionsInv, SessionsTypeOK
    <3> QED BY <1>2, <1>4, <3>1
  <2>2. CASE p # o
    <3>1. f = freezing[p] /\ f \in Freeze
      BY <1>1, <2>2 DEF SessionsInv, SessionsTypeOK
    <3>2. f.user \in Users
      BY <3>1, FreezeFields
    <3> QED BY <1>4, <3>1, <3>2 DEF SessionsInv, FreezesInv, FreezesUnderWay
  <2> QED BY <2>1, <2>2
<1>6. AlertsFollow'
  <2>1. \A c \in Alerts : TargetOf[c] \in Users
    BY SessionsAssumption
  <2> QED BY <1>1, <1>4, <2>1 DEF SessionsInv, FreezesInv, AlertsFollow
<1>7. UsersFollow'
  <2> SUFFICES ASSUME NEW v \in Users
               PROVE  IF account'[v] = "active" THEN userAudits'[v] = 0
                      ELSE \/ userAudits'[v] = 1
                           \/ \E c \in Alerts : TargetOf[c] = v /\ alerts[c].audits = 1
    BY <1>1 DEF UsersFollow
  <2>1. CASE v # u
    BY <1>4, <2>1 DEF SessionsInv, FreezesInv, UsersFollow
  <2>2. CASE v = u /\ account[u] = "frozen"
    BY <1>1, <1>4, <2>2 DEF SessionsInv, FreezesInv, UsersFollow
  <2>3. CASE v = u /\ account[u] # "frozen"
    <3>1. account[u] = "active"
      BY <2>3 DEF SessionsInv, SessionsTypeOK
    <3>2. userAudits[u] = 0
      BY <3>1 DEF SessionsInv, FreezesInv, UsersFollow
    <3>3. userAudits'[u] = 1
      BY <1>1, <2>3, <3>2 DEF SessionsInv, SessionsTypeOK
    <3> QED BY <1>4, <2>3, <3>3
  <2> QED BY <2>1, <2>2, <2>3
<1> QED BY <1>3, <1>5, <1>6, <1>7 DEF FreezesInv

LEMMA RevokeKeeps ==
    ASSUME SessionsInv, NEW o \in Operators, NEW ok \in BOOLEAN, RevokeUserSessions(o, ok)
    PROVE  SessionsTypeOK' /\ FreezesInv'
<1>1. /\ freezing[o].at = "revoke"
      /\ frozenUntil' = IF ok THEN [frozenUntil EXCEPT ![freezing[o].user] = moment + FrozenTTL]
                        ELSE frozenUntil
      /\ freezing' = [freezing EXCEPT ![o] = AfterRevoke(o, ok)]
      /\ UNCHANGED <<account, pairs, refreshing, alerts, userAudits, ended, freezes, moment>>
  BY DEF RevokeUserSessions
<1>2. PICK f \in Freeze : f = freezing[o]
  BY DEF SessionsInv, SessionsTypeOK
<1>3. f.at = "revoke" /\ f.user \in Users /\ f.alert \in Alerts \cup {ByHand}
  BY <1>1, <1>2, FreezeFields
<1>4. PICK g : g = AfterRevoke(o, ok)
  OBVIOUS
<1>5. /\ g \in Freeze
      /\ g.at # "idle" => /\ ok /\ g.at = "resolve" /\ g.user = f.user /\ g.alert = f.alert
                          /\ f.alert \in Alerts
  <2>1. CASE ok /\ f.alert # ByHand
    <3>1. g = [f EXCEPT !.at = "resolve"]
      BY <1>2, <1>4, <2>1 DEF AfterRevoke
    <3> QED BY <1>3, <2>1, <3>1, FreezeFields
  <2>2. CASE ~(ok /\ f.alert # ByHand)
    <3>1. g = NotFreezing
      BY <1>2, <1>4, <2>2 DEF AfterRevoke
    <3> QED BY <3>1 DEF NotFreezing, Freeze
  <2> QED BY <2>1, <2>2
<1>6. PICK until \in Nat : until = moment + FrozenTTL /\ until > 0
  <2>1. moment \in Nat /\ FrozenTTL \in Nat \ {0}
    BY SessionsAssumption DEF SessionsInv, SessionsTypeOK
  <2>2. moment + FrozenTTL \in Nat /\ moment + FrozenTTL > 0
    BY <2>1
  <2> QED BY <2>2
<1>7. /\ frozenUntil' \in [Users -> Nat]
      /\ ok => frozenUntil'[f.user] > 0
      /\ \A u \in Users : frozenUntil[u] > 0 => frozenUntil'[u] > 0
  <2>1. frozenUntil \in [Users -> Nat]
    BY DEF SessionsInv, SessionsTypeOK
  <2>2. frozenUntil' = IF ok THEN [frozenUntil EXCEPT ![f.user] = until] ELSE frozenUntil
    BY <1>1, <1>2, <1>6
  <2> QED BY <1>3, <1>6, <2>1, <2>2
<1>8. freezing' = [freezing EXCEPT ![o] = g]
  BY <1>1, <1>4
<1>9. SessionsTypeOK'
  BY <1>1, <1>5, <1>7, <1>8 DEF SessionsInv, SessionsTypeOK
<1>10. FreezesUnderWay'
  <2> SUFFICES ASSUME NEW p \in Operators, NEW h, h = freezing'[p], h.at # "idle"
               PROVE  /\ account[h.user] = "frozen"
                      /\ h.alert \in Alerts => /\ h.user = TargetOf[h.alert]
                                               /\ alerts[h.alert].status \in {"processing", "resolved"}
                      /\ h.at = "resolve" => h.alert \in Alerts /\ frozenUntil'[h.user] > 0
    BY <1>1 DEF FreezesUnderWay
  <2>0. /\ account[f.user] = "frozen"
        /\ f.alert \in Alerts => /\ f.user = TargetOf[f.alert]
                                 /\ alerts[f.alert].status \in {"processing", "resolved"}
    BY <1>2, <1>3 DEF SessionsInv, FreezesInv, FreezesUnderWay
  <2>1. CASE p = o
    <3>1. h = g
      BY <1>8, <2>1 DEF SessionsInv, SessionsTypeOK
    <3> QED BY <1>5, <1>7, <2>0, <3>1
  <2>2. CASE p # o
    <3>1. h = freezing[p] /\ h \in Freeze
      BY <1>8, <2>2 DEF SessionsInv, SessionsTypeOK
    <3>2. h.user \in Users
      BY <3>1, FreezeFields
    <3> QED BY <1>7, <3>1, <3>2 DEF SessionsInv, FreezesInv, FreezesUnderWay
  <2> QED BY <2>1, <2>2
<1>11. AlertsFollow'
  <2>1. \A c \in Alerts : TargetOf[c] \in Users
    BY SessionsAssumption
  <2> QED BY <1>1, <1>7, <2>1 DEF SessionsInv, FreezesInv, AlertsFollow
<1>12. UsersFollow'
  BY <1>1 DEF SessionsInv, FreezesInv, UsersFollow
<1> QED BY <1>9, <1>10, <1>11, <1>12 DEF FreezesInv

\* An alert changes its status, and its user was dealt with.
LEMMA AlertMoves ==
    ASSUME SessionsInv, NEW a \in Alerts, NEW st \in {"resolved", "dismissed"},
           alerts' = [alerts EXCEPT ![a].status = st],
           st = "resolved" => /\ alerts[a].status = "processing"
                              /\ frozenUntil[TargetOf[a]] > 0,
           st = "dismissed" => alerts[a].status = "pending",
           \A o \in Operators : freezing'[o] = freezing[o] \/ freezing'[o] = NotFreezing,
           UNCHANGED <<account, frozenUntil, userAudits>>
    PROVE  alerts' \in [Alerts -> Alert] /\ FreezesInv'
<1> DEFINE new == [alerts[a] EXCEPT !.status = st]
<1>1. alerts \in [Alerts -> Alert] /\ alerts[a] \in Alert
  BY DEF SessionsInv, SessionsTypeOK
<1>2. new \in Alert /\ new.status = st /\ new.audits = alerts[a].audits
  BY <1>1, AlertStatus
<1>3. alerts' = [alerts EXCEPT ![a] = new]
  OBVIOUS
<1> HIDE DEF new
<1>4. alerts' \in [Alerts -> Alert] /\ alerts'[a] = new /\ \A c \in Alerts : c # a => alerts'[c] = alerts[c]
  BY <1>1, <1>2, <1>3
<1>5. \A c \in Alerts : /\ alerts'[c].audits = alerts[c].audits
                        /\ alerts[c].status \in {"processing", "resolved"}
                             => alerts'[c].status \in {"processing", "resolved"}
  BY <1>2, <1>4
<1>6. FreezesUnderWay'
  <2> SUFFICES ASSUME NEW o \in Operators, freezing'[o].at # "idle", NEW f, f = freezing[o],
                      freezing'[o] = f
               PROVE  /\ account[f.user] = "frozen"
                      /\ f.alert \in Alerts => /\ f.user = TargetOf[f.alert]
                                               /\ alerts'[f.alert].status \in {"processing", "resolved"}
                      /\ f.at = "resolve" => f.alert \in Alerts /\ frozenUntil[f.user] > 0
    BY DEF FreezesUnderWay, NotFreezing
  <2> QED BY <1>5 DEF SessionsInv, FreezesInv, FreezesUnderWay
<1>7. AlertsFollow'
  <2> SUFFICES ASSUME NEW c \in Alerts
               PROVE  /\ alerts'[c].audits =
                           (IF alerts'[c].status \in {"processing", "resolved"} THEN 1 ELSE 0)
                      /\ alerts'[c].status \in {"processing", "resolved"}
                           => account[TargetOf[c]] = "frozen"
                      /\ alerts'[c].status = "resolved" => frozenUntil[TargetOf[c]] > 0
    BY DEF AlertsFollow
  <2>1. CASE c = a
    BY <1>2, <1>4, <2>1 DEF SessionsInv, FreezesInv, AlertsFollow
  <2>2. CASE c # a
    BY <1>4, <2>2 DEF SessionsInv, FreezesInv, AlertsFollow
  <2> QED BY <2>1, <2>2
<1>8. UsersFollow'
  BY <1>5 DEF SessionsInv, FreezesInv, UsersFollow
<1> QED BY <1>4, <1>6, <1>7, <1>8 DEF FreezesInv

LEMMA ResolveKeeps ==
    ASSUME SessionsInv, NEW o \in Operators, ResolveAlert(o)
    PROVE  SessionsTypeOK' /\ FreezesInv'
<1>1. /\ freezing[o].at = "resolve"
      /\ freezing' = [freezing EXCEPT ![o] = NotFreezing]
      /\ UNCHANGED <<account, pairs, refreshing, frozenUntil, userAudits, ended, freezes, moment>>
  BY DEF ResolveAlert
<1>2. /\ freezing' \in [Operators -> Freeze]
      /\ \A p \in Operators : freezing'[p] = freezing[p] \/ freezing'[p] = NotFreezing
  BY <1>1 DEF SessionsInv, SessionsTypeOK, Freeze
<1>3. PICK a \in Alerts : /\ a = freezing[o].alert
                          /\ frozenUntil[TargetOf[a]] > 0
  BY <1>1 DEF SessionsInv, FreezesInv, FreezesUnderWay
<1>4. CASE alerts[a].status = "processing"
  <2>1. alerts' = [alerts EXCEPT ![a].status = "resolved"]
    BY <1>3, <1>4 DEF ResolveAlert
  <2>2. alerts' \in [Alerts -> Alert] /\ FreezesInv'
    BY <1>1, <1>2, <1>3, <1>4, <2>1, AlertMoves
  <2> QED BY <1>1, <1>2, <2>2 DEF SessionsInv, SessionsTypeOK
<1>5. CASE alerts[a].status # "processing"
  <2>1. alerts' = alerts
    BY <1>3, <1>5 DEF ResolveAlert
  <2>2. FreezesUnderWay'
    <3> SUFFICES ASSUME NEW p \in Operators, freezing'[p].at # "idle", freezing'[p] = freezing[p]
                 PROVE  LET f == freezing[p] IN
                        /\ account[f.user] = "frozen"
                        /\ f.alert \in Alerts => /\ f.user = TargetOf[f.alert]
                                                 /\ alerts[f.alert].status \in {"processing", "resolved"}
                        /\ f.at = "resolve" => f.alert \in Alerts /\ frozenUntil[f.user] > 0
      BY <1>1, <1>2, <2>1 DEF FreezesUnderWay, NotFreezing
    <3> QED BY DEF SessionsInv, FreezesInv, FreezesUnderWay
  <2>3. AlertsFollow' /\ UsersFollow'
    BY <1>1, <2>1 DEF SessionsInv, FreezesInv, AlertsFollow, UsersFollow
  <2> QED BY <1>1, <1>2, <2>1, <2>2, <2>3 DEF SessionsInv, SessionsTypeOK, FreezesInv
<1> QED BY <1>4, <1>5

LEMMA DismissKeeps ==
    ASSUME SessionsInv, NEW a \in Alerts, DismissAlert(a)
    PROVE  SessionsTypeOK' /\ FreezesInv'
<1>1. /\ alerts[a].status = "pending"
      /\ alerts' = [alerts EXCEPT ![a].status = "dismissed"]
      /\ UNCHANGED <<account, pairs, refreshing, frozenUntil, freezing, userAudits, ended, freezes,
                     moment>>
  BY DEF DismissAlert, Dismissable, Pending
<1>2. alerts' \in [Alerts -> Alert] /\ FreezesInv'
  BY <1>1, AlertMoves
<1> QED BY <1>1, <1>2 DEF SessionsInv, SessionsTypeOK

-----------------------------------------------------------------------------
(* Every step *)

LEMMA SessionsStep == SessionsInv /\ [SessionsNext]_sessionVars => SessionsInv'
<1> SUFFICES ASSUME SessionsInv, [SessionsNext]_sessionVars
             PROVE  SessionsTypeOK' /\ TokensInv' /\ FreezesInv'
  BY DEF SessionsInv
<1> DEFINE Tokens == SessionsTypeOK' /\ TokensInv'
           Freezes == SessionsTypeOK' /\ FreezesInv'
<1>1. ASSUME TokenStep PROVE Tokens
  BY <1>1, LoginKeeps, SpendTokenKeeps, BeginRefreshKeeps, LogoutKeeps, MomentPassesKeeps
     DEF TokenStep
<1>2. ASSUME FreezeStep PROVE Freezes
  BY <1>2, FreezeAlertKeeps, FreezeUserKeeps, RevokeKeeps, ResolveKeeps, DismissKeeps
     DEF FreezeStep
<1>3. TokenStep => UNCHANGED <<account, frozenUntil, alerts, freezing, userAudits>>
  BY DEF TokenStep, Login, SpendToken, BeginRefresh, Logout, MomentPasses
<1>4. FreezeStep => UNCHANGED <<pairs, refreshing, ended, moment>>
  BY DEF FreezeStep, FreezeAlert, FreezeUser, RevokeUserSessions, ResolveAlert, DismissAlert
<1>5. CASE TokenStep
  BY <1>1, <1>3, <1>5, FreezesRest DEF SessionsInv
<1>6. CASE FreezeStep
  BY <1>2, <1>4, <1>6, TokensRest DEF SessionsInv
<1>7. CASE UNCHANGED sessionVars
  <2>1. SessionsTypeOK'
    BY <1>7 DEF sessionVars, SessionsInv, SessionsTypeOK
  <2> QED BY <1>7, <2>1, TokensRest, FreezesRest DEF sessionVars, SessionsInv
<1> QED BY <1>5, <1>6, <1>7 DEF SessionsNext

\* A good token was never spent.
LEMMA LiveIsUnspent ==
    ASSUME SessionsInv, NEW t \in DOMAIN pairs, LiveToken(t)
    PROVE  pairs[t].spent = 0
<1>1. pairs[t].spent \in Nat /\ RefreshExpiry(t) \in Nat /\ moment \in Nat
  BY PairNumbers DEF SessionsInv
<1> QED BY <1>1 DEF LiveToken, SessionsInv, TokensInv, SpentOutlives

LEMMA SessionsInvIsSafe == SessionsInv => SessionsAreSafe
<1> SUFFICES ASSUME SessionsInv PROVE SessionsAreSafe
  OBVIOUS
<1>1. SessionsDoNotFork
  BY LiveIsUnspent DEF SessionsDoNotFork, SessionsInv, TokensInv, OneUnspent
<1>2. EndedSessionsStayEnded
  BY LiveIsUnspent DEF EndedSessionsStayEnded, SessionsInv, TokensInv, EndedAreSpent
<1>3. ResolvedIsRevoked
  BY DEF ResolvedIsRevoked, SessionsInv, FreezesInv, AlertsFollow, Admitted
<1>4. FreezesAreAudited
  BY DEF FreezesAreAudited, SessionsInv, FreezesInv, AlertsFollow, UsersFollow
<1>5. DismissedIsLeft
  BY DEF DismissedIsLeft, SessionsInv, FreezesInv, AlertsFollow, FreezesUnderWay
<1> QED BY <1>1, <1>2, <1>3, <1>4, <1>5 DEF SessionsAreSafe

\* Sessions are safe, for any number of users, browsers, operators and alerts: a login has
\* one good token and none once it was ended, and a freeze that is called done is done.
THEOREM SessionsStaySafe == SessionsSpec => []SessionsAreSafe
<1>1. SessionsInit => SessionsInv
  BY SessionsBegin
<1>2. SessionsInv /\ [SessionsNext]_sessionVars => SessionsInv'
  BY SessionsStep
<1>3. SessionsInv => SessionsAreSafe
  BY SessionsInvIsSafe
<1> QED BY <1>1, <1>2, <1>3, PTL DEF SessionsSpec

-----------------------------------------------------------------------------
(* Codes by text message *)

Code == [purpose : Purposes, at : Nat, saved : Nat \cup {NotSaved}, wrong : Nat, admitted : Nat]
Key == [n : Nat, until : Nat]
Window == [length : Nat \ {0}, max : Nat \ {0}]
Sending == {NotSending} \cup [at : {"send", "save"}, code : Nat]

SmsTypes ==
    /\ codes \in Seq(Code)
    /\ sending \in [Senders -> Sending]
    /\ coolUntil \in [Purposes -> Nat]
    /\ counters \in [Windows -> Key]
    /\ stored \in [Purposes -> [code : Nat, until : Nat]]
    /\ attempts \in [Purposes -> Key]
    /\ registered \in BOOLEAN
    /\ time \in 0..MaxTime

-----------------------------------------------------------------------------
(* The windows of the limits *)

\* The codes that were reserved at x or later, and from x until before y.
Since(cs, x) == {c \in DOMAIN cs : cs[c].at >= x}
Between(cs, x, y) == {c \in DOMAIN cs : cs[c].at >= x /\ cs[c].at < y}

\* The counter of a window counts the codes since it began.  As many as the limit at most
\* were reserved in the time of its length before, and so, wherever a window of that length
\* is laid, twice as many at most.
Counted(cs, k, w, now) ==
    /\ k.n <= w.max
    /\ k.until <= now + w.length
    /\ \A c \in DOMAIN cs : cs[c].at < k.until /\ cs[c].at <= now
    /\ Cardinality(Since(cs, k.until - w.length)) <= k.n
    /\ Cardinality(Between(cs, k.until - w.length - w.length, k.until - w.length)) <= w.max
    /\ \A x \in Int : Cardinality(Between(cs, x, x + w.length)) <= 2 * w.max

LEMMA CodeFields ==
    ASSUME NEW cs \in Seq(Code), NEW c \in DOMAIN cs
    PROVE  /\ cs[c] \in Code /\ cs[c].purpose \in Purposes /\ cs[c].at \in Nat
           /\ cs[c].saved \in Nat \cup {NotSaved} /\ cs[c].wrong \in Nat
           /\ cs[c].admitted \in Nat
<1>1. cs[c] \in Code
  OBVIOUS
<1> QED BY <1>1 DEF Code

LEMMA FiniteCodes ==
    ASSUME NEW cs \in Seq(Code), NEW S \in SUBSET DOMAIN cs
    PROVE  IsFiniteSet(S) /\ Cardinality(S) \in Nat
<1>1. DOMAIN cs = 1..Len(cs) /\ Len(cs) \in Nat
  OBVIOUS
<1>2. IsFiniteSet(1..Len(cs))
  BY <1>1, FS_Interval
<1> QED BY <1>1, <1>2, FS_Subset, FS_CardinalityType

\* What changes of codes neither how many there are nor when they were reserved, and the
\* passing of time, leave the counts.
LEMMA CountedStays ==
    ASSUME NEW cs \in Seq(Code), NEW ds \in Seq(Code), DOMAIN ds = DOMAIN cs,
           \A c \in DOMAIN cs : ds[c].at = cs[c].at,
           NEW k \in Key, NEW w \in Window, NEW now \in Nat, NEW later \in Nat, later >= now,
           Counted(cs, k, w, now)
    PROVE  Counted(ds, k, w, later)
<1>1. \A x \in Int : Since(ds, x) = Since(cs, x)
  BY DEF Since
<1>2. \A x, y \in Int : Between(ds, x, y) = Between(cs, x, y)
  BY DEF Between
<1>3. k.until \in Int /\ w.length \in Int /\ k.until - w.length \in Int
      /\ k.until - w.length - w.length \in Int
  BY DEF Key, Window
<1>4. \A x \in Int : x + w.length \in Int
  BY <1>3
<1>5. \A c \in DOMAIN ds : ds[c].at < k.until /\ ds[c].at <= later
  <2> TAKE c \in DOMAIN ds
  <2>1. ds[c].at = cs[c].at /\ cs[c].at < k.until /\ cs[c].at <= now /\ ds[c] \in Code
    BY DEF Counted
  <2>2. ds[c].at \in Nat
    BY <2>1 DEF Code
  <2> QED BY <2>1, <2>2
<1>6. k.until <= later + w.length
  <2>1. k.until <= now + w.length
    BY DEF Counted
  <2> QED BY <1>3, <2>1
<1> QED BY <1>1, <1>2, <1>3, <1>4, <1>5, <1>6 DEF Counted

\* One more code, reserved now: the counter allows it, or begins anew.
LEMMA CountedGrows ==
    ASSUME NEW cs \in Seq(Code), NEW new \in Code, NEW now \in Nat, new.at = now,
           NEW k \in Key, NEW m \in Key, NEW w \in Window, Counted(cs, k, w, now),
           \/ k.until > now /\ k.n < w.max /\ m.n = k.n + 1 /\ m.until = k.until
           \/ k.until <= now /\ m.n = 1 /\ m.until = now + w.length
    PROVE  Counted(Append(cs, new), m, w, now)
<1> DEFINE ds == Append(cs, new)
           n == Len(cs) + 1
<1>1. /\ ds \in Seq(Code) /\ DOMAIN ds = 1..n /\ DOMAIN cs = 1..(n - 1) /\ n \in Nat \ {0}
      /\ ds[n] = new /\ \A c \in DOMAIN cs : ds[c] = cs[c]
  OBVIOUS
<1>2. /\ k.until \in Nat /\ k.n \in Nat /\ m.until \in Nat /\ m.n \in Nat
      /\ w.length \in Nat \ {0} /\ w.max \in Nat \ {0}
  BY DEF Key, Window
<1>b. PICK begin \in Int : begin = m.until - w.length
  <2>1. m.until - w.length \in Int
    BY <1>2
  <2> QED BY <2>1
<1>o. PICK old \in Int : old = k.until - w.length
  <2>1. k.until - w.length \in Int
    BY <1>2
  <2> QED BY <2>1
<1>3. \A c \in DOMAIN cs : cs[c].at \in Nat
  BY CodeFields
<1>d. \A c \in DOMAIN ds : ds[c].at \in Nat
  BY <1>1, CodeFields
<1> HIDE DEF ds, n
<1>4. \A S \in SUBSET DOMAIN ds : IsFiniteSet(S) /\ Cardinality(S) \in Nat
  BY <1>1, FiniteCodes
<1>5. /\ k.n <= w.max /\ k.until <= now + w.length
      /\ \A c \in DOMAIN cs : cs[c].at < k.until /\ cs[c].at <= now
      /\ Cardinality(Since(cs, old)) <= k.n
      /\ Cardinality(Between(cs, old - w.length, old)) <= w.max
      /\ \A x \in Int : Cardinality(Between(cs, x, x + w.length)) <= 2 * w.max
  BY <1>o DEF Counted
<1>6. begin <= now /\ m.n <= w.max /\ m.until <= now + w.length /\ now < m.until
  <2>1. CASE k.until > now /\ k.n < w.max /\ m.n = k.n + 1 /\ m.until = k.until
    <3>1. k.until <= now + w.length
      BY <1>5
    <3> QED BY <1>2, <1>b, <2>1, <3>1
  <2>2. CASE k.until <= now /\ m.n = 1 /\ m.until = now + w.length
    BY <1>2, <1>b, <2>2
  <2> QED BY <2>1, <2>2
<1>7. \A x \in Int : Since(cs, x) \in SUBSET DOMAIN ds
  BY <1>1 DEF Since
<1>8. \A x, y \in Int : /\ Between(cs, x, y) \in SUBSET DOMAIN ds
                        /\ Between(ds, x, y) \in SUBSET DOMAIN ds
  BY <1>1 DEF Between
<1>9. Since(ds, begin) = Since(cs, begin) \cup {n}
  <2>1. ds[n].at >= begin
    BY <1>1, <1>6
  <2>2. DOMAIN ds = DOMAIN cs \cup {n}
    BY <1>1
  <2> QED BY <1>1, <2>1, <2>2 DEF Since
<1>10. Cardinality(Since(cs, begin)) <= m.n - 1
  <2>1. CASE k.until > now
    <3>1. m.n = k.n + 1 /\ m.until = k.until
      BY <1>2, <2>1
    <3>2. begin = old /\ m.n - 1 = k.n
      BY <1>2, <1>b, <1>o, <3>1
    <3> QED BY <1>5, <3>2
  <2>2. CASE k.until <= now
    <3>1. begin = now /\ m.n = 1
      BY <1>2, <1>b, <2>2
    <3>2. Since(cs, begin) = {}
      <4>1. \A c \in DOMAIN cs : ~(cs[c].at >= now)
        <5> TAKE c \in DOMAIN cs
        <5>1. cs[c].at \in Nat /\ cs[c].at < k.until
          BY <1>3, <1>5
        <5> QED BY <1>2, <2>2, <5>1
      <4> QED BY <3>1, <4>1 DEF Since
    <3> QED BY <3>1, <3>2, FS_EmptySet
  <2> QED BY <1>2, <2>1, <2>2
<1>11. Cardinality(Since(ds, begin)) <= m.n
  <2>1. n \notin Since(cs, begin) /\ IsFiniteSet(Since(cs, begin))
        /\ Cardinality(Since(cs, begin)) \in Nat
    BY <1>1, <1>4, <1>6, <1>7 DEF Since
  <2>2. Cardinality(Since(ds, begin)) = Cardinality(Since(cs, begin)) + 1
    BY <1>9, <2>1, FS_AddElement
  <2> QED BY <1>2, <1>10, <2>1, <2>2
<1>12. Between(ds, begin - w.length, begin) = Between(cs, begin - w.length, begin)
  <2>1. ~(ds[n].at < begin)
    BY <1>1, <1>6
  <2> QED BY <1>1, <2>1 DEF Between
<1>13. Cardinality(Between(ds, begin - w.length, begin)) <= w.max
  <2>1. CASE k.until > now
    <3>1. begin = old
      BY <1>2, <1>b, <1>o, <2>1
    <3> QED BY <1>5, <1>12, <3>1
  <2>2. CASE k.until <= now
    <3>1. begin = now /\ old <= begin - w.length
      BY <1>2, <1>b, <1>o, <2>2
    <3>2. Between(cs, begin - w.length, begin) \subseteq Since(cs, old)
      <4>1. \A c \in DOMAIN cs : cs[c].at >= begin - w.length => cs[c].at >= old
        BY <1>2, <1>3, <3>1
      <4> QED BY <4>1 DEF Between, Since
    <3>3. /\ Cardinality(Between(cs, begin - w.length, begin)) <= Cardinality(Since(cs, old))
          /\ Cardinality(Between(cs, begin - w.length, begin)) \in Nat
          /\ Cardinality(Since(cs, old)) \in Nat
      <4>1. begin - w.length \in Int
        BY <1>2, <1>6
      <4> QED BY <3>2, <4>1, <1>4, <1>6, <1>7, <1>8, FS_Subset
    <3>4. Cardinality(Since(cs, old)) <= k.n /\ k.n <= w.max
      BY <1>5
    <3>5. Cardinality(Between(cs, begin - w.length, begin)) <= w.max
      BY <1>2, <3>3, <3>4
    <3> QED BY <1>12, <3>5
  <2> QED BY <1>2, <2>1, <2>2
<1>14. ASSUME NEW x \in Int
       PROVE  Cardinality(Between(ds, x, x + w.length)) <= 2 * w.max
  <2> DEFINE B == Between(ds, x, x + w.length)
  <2>x. x + w.length \in Int /\ begin - w.length \in Int
    BY <1>2, <1>6
  <2>1. CASE n \notin B
    <3>1. B = Between(cs, x, x + w.length)
      BY <1>1, <2>1 DEF Between
    <3> QED BY <1>5, <3>1
  <2>2. CASE n \in B
    <3>1. now < x + w.length
      BY <1>1, <2>2 DEF Between
    <3>2. x >= begin - w.length
      BY <1>2, <1>6, <3>1
    <3>4. B \subseteq Between(ds, begin - w.length, begin) \cup Since(ds, begin)
      <4>1. \A c \in DOMAIN ds : ds[c].at >= x => ds[c].at >= begin - w.length
        BY <1>d, <2>x, <3>2
      <4>2. \A c \in DOMAIN ds : ds[c].at < begin \/ ds[c].at >= begin
        BY <1>d
      <4> QED BY <4>1, <4>2 DEF Between, Since
    <3> DEFINE P == Between(ds, begin - w.length, begin)
               Q == Since(ds, begin)
    <3>5. /\ B \in SUBSET DOMAIN ds /\ P \in SUBSET DOMAIN ds /\ Q \in SUBSET DOMAIN ds
          /\ P \cup Q \in SUBSET DOMAIN ds
      BY DEF Between, Since
    <3>6. Cardinality(P) <= w.max /\ Cardinality(Q) <= m.n /\ B \subseteq P \cup Q
      BY <1>11, <1>13, <3>4
    <3> HIDE DEF B, P, Q
    <3>7. Cardinality(P \cup Q) = Cardinality(P) + Cardinality(Q) - Cardinality(P \cap Q)
      BY <1>4, <3>5, FS_Union
    <3>8. /\ Cardinality(P \cap Q) \in Nat /\ Cardinality(P) \in Nat /\ Cardinality(Q) \in Nat
          /\ Cardinality(P \cup Q) \in Nat /\ Cardinality(B) \in Nat
      <4>1. P \cap Q \in SUBSET DOMAIN ds
        BY <3>5
      <4> QED BY <1>4, <3>5, <4>1
    <3>9. Cardinality(B) <= Cardinality(P \cup Q)
      BY <1>4, <3>5, <3>6, FS_Subset
    <3>10. Cardinality(B) <= 2 * w.max
      BY <1>2, <1>6, <3>6, <3>7, <3>8, <3>9, SMTT(30)
    <3> QED BY <3>10 DEF B
  <2> QED BY <2>1, <2>2
<1>15. \A c \in DOMAIN ds : ds[c].at < m.until /\ ds[c].at <= now
  <2> TAKE c \in DOMAIN ds
  <2>1. CASE c = n
    BY <1>1, <1>6, <2>1
  <2>2. CASE c # n
    <3>1. c \in DOMAIN cs /\ ds[c] = cs[c]
      BY <1>1, <2>2
    <3>2. cs[c].at <= now /\ cs[c].at \in Nat
      BY <1>3, <1>5, <3>1
    <3> QED BY <1>2, <1>6, <3>1, <3>2
  <2> QED BY <2>1, <2>2
<1> QED BY <1>6, <1>b, <1>11, <1>13, <1>14, <1>15 DEF Counted, ds
-----------------------------------------------------------------------------
(* The inductive invariant *)

CodesAreCounted == \A w \in Windows : Counted(codes, counters[w], w, time)

\* Two codes of one purpose are a cooldown apart, ...
CodesAreApart ==
    /\ \A c, d \in DOMAIN codes : (c < d /\ codes[c].purpose = codes[d].purpose) =>
         codes[d].at >= codes[c].at + Cooldown
    /\ \A c \in DOMAIN codes : coolUntil[codes[c].purpose] >= codes[c].at + Cooldown

\* ... a code that is on its way was not answered, and is on its way once, ...
CodesAreSaved ==
    \A c \in DOMAIN codes :
        /\ codes[c].at <= time
        /\ codes[c].admitted <= 1
        /\ IF codes[c].saved = NotSaved THEN codes[c].wrong = 0 /\ codes[c].admitted = 0
           ELSE codes[c].saved >= codes[c].at /\ codes[c].saved <= time

CodesUnderWay ==
    /\ \A s \in Senders : sending[s].at # "idle" =>
         sending[s].code \in DOMAIN codes /\ codes[sending[s].code].saved = NotSaved
    /\ \A s, r \in Senders :
         (sending[s].at # "idle" /\ sending[r].at # "idle" /\ sending[s].code = sending[r].code)
           => s = r

\* ... and a code that is kept did not admit yet.
StoredFits ==
    \A p \in Purposes :
        IF stored[p].code = 0 THEN stored[p].until = 0
        ELSE LET c == stored[p].code IN
             /\ c \in DOMAIN codes
             /\ codes[c].purpose = p
             /\ codes[c].saved # NotSaved
             /\ codes[c].admitted = 0
             /\ stored[p].until = codes[c].saved + CodeTTL

\* The attempts that began with an earlier code expire before this one does: they count all
\* the misses of this code so far, and those that come after them begin anew, once.
Missed(wrong, k, until) ==
    IF k.until <= time THEN wrong <= VerifyAttempts - 1
    ELSE IF k.until < until THEN wrong <= k.n
    ELSE wrong <= VerifyAttempts - 1 + k.n

GuessesFit ==
    \A p \in Purposes :
        /\ attempts[p].n <= VerifyAttempts - 1
        /\ KeyLives(stored[p]) => Missed(codes[stored[p].code].wrong, attempts[p], stored[p].until)

SmsInv ==
    /\ SmsTypes /\ CodesAreCounted /\ CodesAreApart /\ CodesAreSaved /\ CodesUnderWay
    /\ StoredFits /\ GuessesFit /\ StoredIsLatest

LEMMA SmsBegins == SmsInit => SmsInv
<1> SUFFICES ASSUME SmsInit PROVE SmsInv
  OBVIOUS
<1>1. /\ codes = <<>> /\ time = 0 /\ sending = [s \in Senders |-> NotSending]
      /\ coolUntil = [p \in Purposes |-> 0] /\ counters = [w \in Windows |-> NoKey]
      /\ stored = [p \in Purposes |-> NoCode] /\ attempts = [p \in Purposes |-> NoKey]
      /\ registered \in BOOLEAN
  BY DEF SmsInit
<1>2. MaxTime \in Nat /\ VerifyAttempts \in Nat \ {0}
  BY SmsAssumption
<1>3. SmsTypes
  BY <1>1, <1>2 DEF SmsTypes, Sending, Key, NoKey, NoCode
<1>4. CodesAreCounted
  <2> SUFFICES ASSUME NEW w \in Windows PROVE Counted(<<>>, NoKey, w, 0)
    BY <1>1 DEF CodesAreCounted
  <2>1. w.length \in Nat /\ w.max \in Nat
    BY SmsAssumption DEF Window
  <2>2. \A x, y : Cardinality(Since(<<>>, x)) = 0 /\ Cardinality(Between(<<>>, x, y)) = 0
    BY FS_EmptySet DEF Since, Between
  <2>3. 0 <= w.max /\ 0 <= 2 * w.max /\ 0 <= 0 + w.length
    BY <2>1
  <2>4. NoKey.n = 0 /\ NoKey.until = 0
    BY DEF NoKey
  <2>5. \A c \in DOMAIN <<>> : <<>>[c].at < NoKey.until /\ <<>>[c].at <= 0
    OBVIOUS
  <2> QED BY <2>2, <2>3, <2>4, <2>5 DEF Counted
<1>5. CodesAreApart /\ CodesAreSaved
  BY <1>1 DEF CodesAreApart, CodesAreSaved
<1>6. CodesUnderWay
  BY <1>1 DEF CodesUnderWay, NotSending
<1>7. StoredFits /\ StoredIsLatest
  BY <1>1 DEF StoredFits, StoredIsLatest, NoCode, KeyLives
<1>8. GuessesFit
  BY <1>1, <1>2 DEF GuessesFit, NoKey, NoCode, KeyLives
<1> QED BY <1>3, <1>4, <1>5, <1>6, <1>7, <1>8 DEF SmsInv

-----------------------------------------------------------------------------
(* Asking for a code *)

LEMMA WindowFields ==
    ASSUME NEW w \in Windows
    PROVE  w \in Window /\ w.length \in Nat \ {0} /\ w.max \in Nat \ {0}
  BY SmsAssumption DEF Window

LEMMA KeyFields ==
    ASSUME NEW k \in Key
    PROVE  k.n \in Nat /\ k.until \in Nat
  BY DEF Key

\* The counter after a message that it allowed.
LEMMA ReservedCounter ==
    ASSUME SmsTypes, NEW p \in Purposes, Reserve(p), NEW w \in Windows
    PROVE  LET k == counters[w]  m == counters'[w] IN
           /\ k \in Key /\ m \in Key
           /\ \/ k.until > time /\ k.n < w.max /\ m.n = k.n + 1 /\ m.until = k.until
              \/ k.until <= time /\ m.n = 1 /\ m.until = time + w.length
<1> DEFINE k == counters[w]
           m == counters'[w]
           more == [k EXCEPT !.n = k.n + 1]
           first == [n |-> 1, until |-> time + w.length]
<1>1. k \in Key /\ time \in Nat /\ k.n \in Nat /\ k.until \in Nat
  BY KeyFields DEF SmsTypes
<1>2. w.length \in Nat
  BY WindowFields
<1>3. more \in Key /\ more.n = k.n + 1 /\ more.until = k.until
  BY <1>1 DEF Key
<1>4. first \in Key /\ first.n = 1 /\ first.until = time + w.length
  BY <1>1, <1>2 DEF Key
<1>5. m = IF k.until > time THEN more ELSE first
  BY DEF Reserve, KeyLives
<1>6. k.until > time => k.n < w.max
  BY DEF Reserve, Allowed, Count, KeyLives
<1> HIDE DEF k, m, more, first
<1>7. k \in Key /\ m \in Key
  BY <1>1, <1>3, <1>4, <1>5
<1>8. \/ k.until > time /\ k.n < w.max /\ m.n = k.n + 1 /\ m.until = k.until
      \/ k.until <= time /\ m.n = 1 /\ m.until = time + w.length
  BY <1>1, <1>3, <1>4, <1>5, <1>6
<1> QED BY <1>7, <1>8 DEF k, m

\* Apart from codes that are added, keys of stored codes and attempts are as they were.
LEMMA StoredStays ==
    ASSUME SmsTypes, StoredFits, GuessesFit, StoredIsLatest, NEW n \in Nat, n = Len(codes),
           codes' \in Seq(Code), Len(codes') \in {n, n + 1}, \A c \in 1..n : codes'[c] = codes[c],
           Len(codes') = n + 1 => codes'[n + 1].saved = NotSaved,
           UNCHANGED <<stored, attempts, time>>
    PROVE  StoredFits' /\ GuessesFit' /\ StoredIsLatest'
<1>1. /\ DOMAIN codes = 1..n /\ \A c \in DOMAIN codes : c \in DOMAIN codes' /\ codes'[c] = codes[c]
      /\ codes \in Seq(Code)
  BY DEF SmsTypes
<1>2. StoredFits'
  <2> SUFFICES ASSUME NEW p \in Purposes, NEW c, c = stored[p].code
               PROVE  IF c = 0 THEN stored[p].until = 0
                      ELSE /\ c \in DOMAIN codes' /\ codes'[c].purpose = p
                           /\ codes'[c].saved # NotSaved /\ codes'[c].admitted = 0
                           /\ stored[p].until = codes'[c].saved + CodeTTL
    BY DEF StoredFits
  <2> QED BY <1>1 DEF StoredFits
<1>3. \A p \in Purposes : KeyLives(stored[p]) => stored[p].code \in DOMAIN codes
  <2> TAKE p \in Purposes
  <2>1. time \in Nat
    BY DEF SmsTypes
  <2> QED BY <2>1 DEF KeyLives, StoredFits
<1>4. GuessesFit'
  <2> SUFFICES ASSUME NEW p \in Purposes, KeyLives(stored[p]), NEW c, c = stored[p].code
               PROVE  Missed(codes'[c].wrong, attempts[p], stored[p].until)
    BY DEF GuessesFit, KeyLives, Missed
  <2> QED BY <1>1, <1>3 DEF GuessesFit
<1>5. StoredIsLatest'
  <2> SUFFICES ASSUME NEW p \in Purposes, KeyLives(stored[p]), NEW c, c = stored[p].code
               PROVE  \/ codes'[c].saved - codes'[c].at >= Cooldown
                      \/ \A d \in (c + 1)..Len(codes') :
                           codes'[d].purpose = p => codes'[d].saved = NotSaved
    BY DEF StoredIsLatest, KeyLives
  <2>1. c \in 1..n /\ codes'[c] = codes[c]
    BY <1>1, <1>3
  <2>2. CASE codes[c].saved - codes[c].at >= Cooldown
    BY <2>1, <2>2
  <2>3. CASE \A d \in (c + 1)..Len(codes) : codes[d].purpose = p => codes[d].saved = NotSaved
    <3> SUFFICES ASSUME NEW d \in (c + 1)..Len(codes'), codes'[d].purpose = p
                 PROVE  codes'[d].saved = NotSaved
      OBVIOUS
    <3>1. CASE d \in 1..n
      BY <2>1, <2>3, <3>1
    <3>2. CASE d \notin 1..n
      <4>1. d = n + 1 /\ Len(codes') = n + 1
        BY <2>1, <3>2
      <4> QED BY <4>1
    <3> QED BY <3>1, <3>2
  <2> QED BY <2>2, <2>3 DEF StoredIsLatest
<1> QED BY <1>2, <1>4, <1>5

LEMMA AskForCodeKeeps ==
    ASSUME SmsInv, NEW s \in Senders, NEW p \in Purposes, AskForCode(s, p)
    PROVE  SmsInv'
<1> DEFINE n == Len(codes)
           new == [purpose |-> p, at |-> time, saved |-> NotSaved, wrong |-> 0, admitted |-> 0]
           mine == [at |-> "send", code |-> n + 1]
<1>1. /\ SmsTypes /\ codes \in Seq(Code) /\ n \in Nat /\ time \in Nat /\ n = Len(codes)
      /\ DOMAIN codes = 1..n
  BY DEF SmsInv, SmsTypes
<1>2. /\ new \in Code /\ new.purpose = p /\ new.at = time /\ new.saved = NotSaved /\ new.wrong = 0
      /\ new.admitted = 0
  BY <1>1 DEF Code
<1>3. mine \in Sending /\ mine.at = "send" /\ mine.code = n + 1
  BY <1>1 DEF Sending
<1>4. /\ Reserve(p)
      /\ coolUntil[p] <= time
      /\ codes' = Append(codes, new)
      /\ sending' = sending \/ sending' = [sending EXCEPT ![s] = mine]
      /\ UNCHANGED <<stored, attempts, registered, time>>
  BY DEF AskForCode, Reserve, Allowed
<1>5. coolUntil' = [coolUntil EXCEPT ![p] = time + Cooldown]
  BY DEF AskForCode, Reserve
<1> HIDE DEF new, mine, n
<1>6. /\ codes' \in Seq(Code) /\ Len(codes') = n + 1 /\ DOMAIN codes' = 1..(n + 1)
      /\ codes'[n + 1] = new /\ \A c \in 1..n : codes'[c] = codes[c]
  BY <1>1, <1>2, <1>4
<1>7. \A w \in Windows :
        LET k == counters[w]  m == counters'[w] IN
        /\ k \in Key /\ m \in Key
        /\ \/ k.until > time /\ k.n < w.max /\ m.n = k.n + 1 /\ m.until = k.until
           \/ k.until <= time /\ m.n = 1 /\ m.until = time + w.length
  BY <1>1, <1>4, ReservedCounter
<1>8. counters' \in [Windows -> Key]
  <2>1. \A w \in Windows : counters'[w] \in Key
    BY <1>7
  <2>2. counters' = [w \in Windows |-> counters'[w]]
    BY <1>4 DEF Reserve
  <2> QED BY <2>1, <2>2
<1>9. Cooldown \in Nat
  BY SmsAssumption
<1>10. SmsTypes'
  <2>1. time + Cooldown \in Nat
    BY <1>1, <1>9
  <2>2. coolUntil' \in [Purposes -> Nat]
    BY <1>1, <1>5, <2>1 DEF SmsTypes
  <2>3. sending' \in [Senders -> Sending]
    BY <1>1, <1>3, <1>4 DEF SmsTypes
  <2> QED BY <1>1, <1>4, <1>6, <1>8, <2>2, <2>3 DEF SmsTypes
<1>11. CodesAreCounted'
  <2> SUFFICES ASSUME NEW w \in Windows PROVE Counted(codes', counters'[w], w, time)
    BY <1>4 DEF CodesAreCounted
  <2>1. PICK k \in Key : k = counters[w]
    BY <1>7
  <2>2. PICK m \in Key : m = counters'[w]
    BY <1>7
  <2>3. \/ k.until > time /\ k.n < w.max /\ m.n = k.n + 1 /\ m.until = k.until
        \/ k.until <= time /\ m.n = 1 /\ m.until = time + w.length
    BY <1>7, <2>1, <2>2
  <2>4. Counted(codes, k, w, time)
    BY <2>1 DEF SmsInv, CodesAreCounted
  <2>5. Counted(Append(codes, new), m, w, time)
    BY <1>1, <1>2, <2>3, <2>4, CountedGrows, WindowFields
  <2> QED BY <1>4, <2>2, <2>5
<1>12. CodesAreApart'
  <2>1. \A q \in Purposes : coolUntil'[q] >= coolUntil[q] /\ coolUntil[q] \in Nat
    <3> TAKE q \in Purposes
    <3>1. coolUntil[q] \in Nat /\ coolUntil'[q] = IF q = p THEN time + Cooldown ELSE coolUntil[q]
      BY <1>1, <1>5 DEF SmsTypes
    <3> QED BY <1>1, <1>4, <1>9, <3>1
  <2>2. ASSUME NEW c \in 1..(n + 1), NEW d \in 1..(n + 1), c < d,
               codes'[c].purpose = codes'[d].purpose
        PROVE  codes'[d].at >= codes'[c].at + Cooldown
    <3>1. c \in 1..n /\ codes'[c] = codes[c] /\ codes[c].at \in Nat
      BY <1>1, <1>6, <2>2, CodeFields
    <3>2. CASE d \in 1..n
      BY <1>1, <1>6, <2>2, <3>1, <3>2 DEF SmsInv, CodesAreApart
    <3>3. CASE d \notin 1..n
      <4>1. d = n + 1 /\ codes'[d] = new
        BY <1>1, <1>6, <3>3
      <4>2. coolUntil[p] >= codes[c].at + Cooldown
        BY <1>1, <1>2, <2>2, <3>1, <4>1 DEF SmsInv, CodesAreApart
      <4> QED BY <1>1, <1>2, <1>4, <1>9, <2>1, <3>1, <4>1, <4>2
    <3> QED BY <3>2, <3>3
  <2>3. ASSUME NEW c \in 1..(n + 1)
        PROVE  coolUntil'[codes'[c].purpose] >= codes'[c].at + Cooldown
    <3>1. CASE c \in 1..n
      <4>1. PICK q \in Purposes : q = codes[c].purpose
        BY <1>1, <3>1, CodeFields
      <4>2. coolUntil[q] >= codes[c].at + Cooldown /\ codes'[c] = codes[c] /\ codes[c].at \in Nat
        BY <1>1, <1>6, <3>1, <4>1, CodeFields DEF SmsInv, CodesAreApart
      <4>3. coolUntil'[q] >= coolUntil[q] /\ coolUntil[q] \in Nat /\ coolUntil'[q] \in Nat
        BY <2>1, <1>10 DEF SmsTypes
      <4>4. coolUntil'[q] >= codes[c].at + Cooldown
        BY <1>9, <4>2, <4>3
      <4> QED BY <4>1, <4>2, <4>4
    <3>2. CASE c \notin 1..n
      <4>1. c = n + 1 /\ codes'[c] = new
        BY <1>1, <1>6, <3>2
      <4>2. coolUntil'[p] = time + Cooldown
        BY <1>1, <1>5 DEF SmsTypes
      <4> QED BY <1>1, <1>2, <1>9, <4>1, <4>2
    <3> QED BY <3>1, <3>2
  <2> QED BY <1>6, <2>2, <2>3 DEF CodesAreApart
<1>13. CodesAreSaved'
  <2> SUFFICES ASSUME NEW c \in 1..(n + 1)
               PROVE  /\ codes'[c].at <= time
                      /\ codes'[c].admitted <= 1
                      /\ IF codes'[c].saved = NotSaved
                         THEN codes'[c].wrong = 0 /\ codes'[c].admitted = 0
                         ELSE codes'[c].saved >= codes'[c].at /\ codes'[c].saved <= time
    BY <1>4, <1>6 DEF CodesAreSaved
  <2>1. CASE c \in 1..n
    BY <1>1, <1>6, <2>1 DEF SmsInv, CodesAreSaved
  <2>2. CASE c \notin 1..n
    <3>1. codes'[c] = new
      BY <1>1, <1>6, <2>2
    <3> QED BY <1>1, <1>2, <3>1
  <2> QED BY <2>1, <2>2
<1>14. CodesUnderWay'
  <2>1. ASSUME NEW r \in Senders, sending'[r].at # "idle"
        PROVE  \/ /\ sending'[r] = sending[r] /\ sending[r].code \in 1..n
                  /\ codes[sending[r].code].saved = NotSaved
               \/ r = s /\ sending'[r] = mine
    <3>1. sending'[r] = sending[r] \/ (r = s /\ sending'[r] = mine)
      BY <1>1, <1>4 DEF SmsTypes
    <3> QED BY <1>1, <2>1, <3>1 DEF SmsInv, CodesUnderWay
  <2>2. ASSUME NEW r \in Senders, sending'[r].at # "idle"
        PROVE  /\ sending'[r].code \in DOMAIN codes'
               /\ codes'[sending'[r].code].saved = NotSaved
    BY <1>1, <1>2, <1>3, <1>6, <2>1, <2>2
  <2>3. ASSUME NEW r \in Senders, NEW q \in Senders, sending'[r].at # "idle",
               sending'[q].at # "idle", sending'[r].code = sending'[q].code
        PROVE  r = q
    <3>1. ~(n + 1 \in 1..n)
      BY <1>1
    <3> QED BY <1>3, <2>1, <2>3, <3>1 DEF SmsInv, CodesUnderWay
  <2> QED BY <2>2, <2>3 DEF CodesUnderWay
<1>15. StoredFits' /\ GuessesFit' /\ StoredIsLatest'
  <2>1. SmsTypes /\ StoredFits /\ GuessesFit /\ StoredIsLatest
    BY DEF SmsInv
  <2>2. codes'[n + 1].saved = NotSaved
    BY <1>2, <1>6
  <2> QED BY <1>1, <1>4, <1>6, <2>1, <2>2, StoredStays
<1> QED BY <1>10, <1>11, <1>12, <1>13, <1>14, <1>15 DEF SmsInv

-----------------------------------------------------------------------------
(* Answers, and codes that are sent and saved *)

\* What changes of the codes only whether they were saved, missed or admitted leaves the
\* limits and the cooldown.
LEMMA LimitsStay ==
    ASSUME SmsInv, codes' \in Seq(Code), DOMAIN codes' = DOMAIN codes,
           \A c \in DOMAIN codes : /\ codes'[c].at = codes[c].at
                                   /\ codes'[c].purpose = codes[c].purpose,
           time' \in Nat, time' >= time, UNCHANGED <<coolUntil, counters>>
    PROVE  CodesAreCounted' /\ CodesAreApart'
<1>1. codes \in Seq(Code) /\ time \in Nat
  BY DEF SmsInv, SmsTypes
<1>2. CodesAreCounted'
  <2> SUFFICES ASSUME NEW w \in Windows PROVE Counted(codes', counters[w], w, time')
    BY DEF CodesAreCounted
  <2>1. counters[w] \in Key /\ Counted(codes, counters[w], w, time)
    BY DEF SmsInv, SmsTypes, CodesAreCounted
  <2> QED BY <1>1, <2>1, CountedStays, WindowFields
<1>3. CodesAreApart'
  BY DEF SmsInv, CodesAreApart
<1> QED BY <1>2, <1>3

LEMMA SendCodeKeeps ==
    ASSUME SmsInv, NEW s \in Senders, NEW ok \in BOOLEAN, SendCode(s, ok)
    PROVE  SmsInv'
<1> DEFINE saving == [sending[s] EXCEPT !.at = "save"]
<1>1. /\ sending[s].at = "send"
      /\ sending' = [sending EXCEPT ![s] = IF ok THEN saving ELSE NotSending]
      /\ UNCHANGED <<codes, coolUntil, counters, stored, attempts, registered, time>>
  BY DEF SendCode
<1>2. /\ saving \in Sending /\ saving.at = "save" /\ saving.code = sending[s].code
      /\ NotSending \in Sending /\ NotSending.at = "idle"
  <2>1. sending[s] \in Sending
    BY DEF SmsInv, SmsTypes
  <2> QED BY <1>1, <2>1 DEF Sending, NotSending
<1> HIDE DEF saving
<1>3. SmsTypes'
  BY <1>1, <1>2 DEF SmsInv, SmsTypes
<1>4. CodesUnderWay'
  <2>1. ASSUME NEW r \in Senders, sending'[r].at # "idle"
        PROVE  sending[r].at # "idle" /\ sending'[r].code = sending[r].code
    BY <1>1, <1>2, <2>1 DEF SmsInv, SmsTypes
  <2> QED BY <1>1, <2>1 DEF SmsInv, CodesUnderWay
<1>5. CodesAreCounted' /\ CodesAreApart' /\ CodesAreSaved'
  BY <1>1 DEF SmsInv, CodesAreCounted, CodesAreApart, CodesAreSaved
<1>6. StoredFits' /\ GuessesFit' /\ StoredIsLatest'
  BY <1>1 DEF SmsInv, StoredFits, GuessesFit, StoredIsLatest, KeyLives, Missed
<1> QED BY <1>3, <1>4, <1>5, <1>6 DEF SmsInv

\* What the code with id c becomes, and the rest does not.
LEMMA CodeIsRewritten ==
    ASSUME SmsTypes, NEW c \in DOMAIN codes, NEW new \in Code, codes' = [codes EXCEPT ![c] = new]
    PROVE  /\ codes' \in Seq(Code) /\ Len(codes') = Len(codes) /\ DOMAIN codes' = DOMAIN codes
           /\ codes'[c] = new /\ \A d \in DOMAIN codes : d # c => codes'[d] = codes[d]
  BY DEF SmsTypes

LEMMA CodeUpdates ==
    ASSUME NEW r \in Code, NEW m \in Nat
    PROVE  /\ LET q == [r EXCEPT !.saved = m] IN
              /\ q \in Code /\ q.saved = m /\ q.wrong = r.wrong /\ q.admitted = r.admitted
              /\ q.at = r.at /\ q.purpose = r.purpose
           /\ LET q == [r EXCEPT !.wrong = m] IN
              /\ q \in Code /\ q.saved = r.saved /\ q.wrong = m /\ q.admitted = r.admitted
              /\ q.at = r.at /\ q.purpose = r.purpose
           /\ LET q == [r EXCEPT !.admitted = m] IN
              /\ q \in Code /\ q.saved = r.saved /\ q.wrong = r.wrong /\ q.admitted = m
              /\ q.at = r.at /\ q.purpose = r.purpose
<1>1. LET q == [r EXCEPT !.saved = m] IN
      /\ q \in Code /\ q.saved = m /\ q.wrong = r.wrong /\ q.admitted = r.admitted
      /\ q.at = r.at /\ q.purpose = r.purpose
  BY DEF Code
<1>2. LET q == [r EXCEPT !.wrong = m] IN
      /\ q \in Code /\ q.saved = r.saved /\ q.wrong = m /\ q.admitted = r.admitted
      /\ q.at = r.at /\ q.purpose = r.purpose
  BY DEF Code
<1>3. LET q == [r EXCEPT !.admitted = m] IN
      /\ q \in Code /\ q.saved = r.saved /\ q.wrong = r.wrong /\ q.admitted = m
      /\ q.at = r.at /\ q.purpose = r.purpose
  BY DEF Code
<1> QED BY <1>1, <1>2, <1>3

LEMMA SaveCodeKeeps ==
    ASSUME SmsInv, NEW s \in Senders, NEW ok \in BOOLEAN, SaveCode(s, ok)
    PROVE  SmsInv'
<1>1. /\ sending[s].at = "save"
      /\ sending' = [sending EXCEPT ![s] = NotSending]
      /\ UNCHANGED <<coolUntil, counters, attempts, registered, time>>
  BY DEF SaveCode
<1>2. PICK c \in DOMAIN codes : c = sending[s].code /\ codes[c].saved = NotSaved
  BY <1>1 DEF SmsInv, CodesUnderWay
<1>3. sending' \in [Senders -> Sending]
  BY <1>1 DEF SmsInv, SmsTypes, Sending
<1>4. \A r \in Senders : sending'[r].at # "idle" =>
        /\ sending'[r] = sending[r] /\ sending[r].code # c /\ sending[r].code \in DOMAIN codes
        /\ codes[sending[r].code].saved = NotSaved
  <2> SUFFICES ASSUME NEW r \in Senders, sending'[r].at # "idle"
               PROVE  /\ sending'[r] = sending[r] /\ sending[r].code # c
                      /\ sending[r].code \in DOMAIN codes
                      /\ codes[sending[r].code].saved = NotSaved
    OBVIOUS
  <2>1. r # s /\ sending'[r] = sending[r]
    BY <1>1 DEF SmsInv, SmsTypes, NotSending
  <2> QED BY <1>1, <1>2, <2>1 DEF SmsInv, CodesUnderWay
<1>5. /\ codes \in Seq(Code) /\ codes[c] \in Code /\ time \in Nat /\ codes[c].at \in Nat
      /\ codes[c].purpose \in Purposes /\ c \in 1..Len(codes)
  BY CodeFields DEF SmsInv, SmsTypes
<1>6. CASE ~ok
  <2>1. UNCHANGED <<codes, stored>>
    BY <1>6 DEF SaveCode
  <2>2. SmsTypes'
    BY <1>1, <1>3, <2>1 DEF SmsInv, SmsTypes
  <2>3. CodesUnderWay'
    BY <1>4, <2>1 DEF SmsInv, CodesUnderWay
  <2>4. CodesAreCounted' /\ CodesAreApart' /\ CodesAreSaved'
    BY <1>1, <2>1 DEF SmsInv, CodesAreCounted, CodesAreApart, CodesAreSaved
  <2>5. StoredFits' /\ GuessesFit' /\ StoredIsLatest'
    BY <1>1, <2>1 DEF SmsInv, StoredFits, GuessesFit, StoredIsLatest, KeyLives, Missed
  <2> QED BY <2>2, <2>3, <2>4, <2>5 DEF SmsInv
<1>7. CASE ok
  <2>p. PICK p \in Purposes : p = codes[c].purpose
    BY <1>5
  <2>u. PICK until \in Nat : until = time + CodeTTL
    BY <1>5, SmsAssumption
  <2>c. c # 0 /\ c \in Nat
    BY <1>5
  <2> DEFINE new == [codes[c] EXCEPT !.saved = time]
             key == [code |-> c, until |-> until]
  <2>1. codes' = [codes EXCEPT ![c] = new] /\ stored' = [stored EXCEPT ![p] = key]
    BY <1>2, <1>7, <2>p, <2>u DEF SaveCode
  <2>2. /\ new \in Code /\ new.saved = time /\ new.wrong = codes[c].wrong
        /\ new.admitted = codes[c].admitted /\ new.at = codes[c].at
        /\ new.purpose = codes[c].purpose
    BY <1>5, CodeUpdates, ZenonT(40)
  <2>3. key \in [code : Nat, until : Nat] /\ key.code = c /\ key.until = until
    BY <2>c
  <2> HIDE DEF new, key
  <2>4. /\ codes' \in Seq(Code) /\ Len(codes') = Len(codes) /\ DOMAIN codes' = DOMAIN codes
        /\ codes'[c] = new /\ \A d \in DOMAIN codes : d # c => codes'[d] = codes[d]
    BY <2>1, <2>2, CodeIsRewritten DEF SmsInv
  <2>5. /\ stored'[p] = key
        /\ \A q \in Purposes : q # p => stored'[q] = stored[q]
    BY <2>1 DEF SmsInv, SmsTypes
  <2>6. SmsTypes'
    BY <1>1, <1>3, <2>1, <2>3, <2>4 DEF SmsInv, SmsTypes
  <2>7. CodesAreCounted' /\ CodesAreApart'
    <3>1. \A d \in DOMAIN codes : /\ codes'[d].at = codes[d].at
                                  /\ codes'[d].purpose = codes[d].purpose
      BY <2>2, <2>4
    <3> QED BY <1>1, <1>5, <2>4, <3>1, LimitsStay
  <2>n. codes[c].wrong = 0 /\ codes[c].admitted = 0
    BY <1>2 DEF SmsInv, CodesAreSaved
  <2>t. codes[c].at <= time /\ time # NotSaved
    BY <1>5 DEF NotSaved, SmsInv, CodesAreSaved
  <2>8. CodesAreSaved'
    <3> SUFFICES ASSUME NEW d \in DOMAIN codes
                 PROVE  /\ codes'[d].at <= time
                        /\ codes'[d].admitted <= 1
                        /\ IF codes'[d].saved = NotSaved
                           THEN codes'[d].wrong = 0 /\ codes'[d].admitted = 0
                           ELSE codes'[d].saved >= codes'[d].at /\ codes'[d].saved <= time
      BY <1>1, <2>4 DEF CodesAreSaved
    <3>1. CASE d = c
      BY <1>5, <2>2, <2>4, <2>n, <2>t, <3>1
    <3>2. CASE d # c
      BY <2>4, <3>2 DEF SmsInv, CodesAreSaved
    <3> QED BY <3>1, <3>2
  <2>9. CodesUnderWay'
    <3>1. \A r \in Senders : sending'[r].at # "idle" =>
            /\ sending'[r].code \in DOMAIN codes'
            /\ codes'[sending'[r].code].saved = NotSaved
      BY <1>4, <2>4
    <3>2. \A r, q \in Senders :
            (/\ sending'[r].at # "idle" /\ sending'[q].at # "idle"
             /\ sending'[r].code = sending'[q].code) => r = q
      BY <1>4 DEF SmsInv, CodesUnderWay
    <3> QED BY <3>1, <3>2 DEF CodesUnderWay
  <2>10. \A q \in Purposes : q # p /\ stored[q].code # 0 =>
           /\ stored[q].code \in DOMAIN codes
           /\ codes'[stored[q].code] = codes[stored[q].code]
    BY <2>p, <2>4 DEF SmsInv, StoredFits
  <2>11. StoredFits'
    <3> SUFFICES ASSUME NEW q \in Purposes, NEW k, k = stored'[q]
                 PROVE  IF k.code = 0 THEN k.until = 0
                        ELSE /\ k.code \in DOMAIN codes /\ codes'[k.code].purpose = q
                             /\ codes'[k.code].saved # NotSaved
                             /\ codes'[k.code].admitted = 0
                             /\ k.until = codes'[k.code].saved + CodeTTL
      BY <2>4 DEF StoredFits
    <3>1. CASE q = p
      BY <2>p, <2>u, <2>2, <2>3, <2>4, <2>5, <2>n, <2>t, <3>1
    <3>2. CASE q # p
      BY <2>5, <2>10, <3>2 DEF SmsInv, StoredFits
    <3> QED BY <3>1, <3>2
  <2>12. \A q \in Purposes : q # p /\ stored[q].until > time => stored[q].code # 0
    BY <1>5 DEF SmsInv, StoredFits
  <2>13. GuessesFit'
    <3> SUFFICES ASSUME NEW q \in Purposes, NEW k, k = stored'[q]
                 PROVE  /\ attempts[q].n <= VerifyAttempts - 1
                        /\ k.until > time => Missed(codes'[k.code].wrong, attempts[q], k.until)
      BY <1>1 DEF GuessesFit, KeyLives, Missed
    <3>1. attempts[q].n <= VerifyAttempts - 1 /\ attempts[q] \in Key
      BY DEF SmsInv, GuessesFit, SmsTypes
    <3>2. CASE q = p
      <4>1. codes'[k.code].wrong = 0
        BY <2>2, <2>3, <2>4, <2>5, <2>n, <3>2
      <4>2. attempts[q].n \in Nat /\ VerifyAttempts \in Nat \ {0}
        BY <3>1, KeyFields, SmsAssumption
      <4> QED BY <3>1, <4>1, <4>2 DEF Missed
    <3>3. CASE q # p
      BY <2>5, <2>10, <2>12, <3>1, <3>3 DEF SmsInv, GuessesFit, KeyLives
    <3> QED BY <3>2, <3>3
  <2>14. StoredIsLatest'
    <3> SUFFICES ASSUME NEW q \in Purposes, NEW k, k = stored'[q], k.until > time
                 PROVE  \/ codes'[k.code].saved - codes'[k.code].at >= Cooldown
                        \/ \A d \in (k.code + 1)..Len(codes) :
                             codes'[d].purpose = q => codes'[d].saved = NotSaved
      BY <1>1, <2>4 DEF StoredIsLatest, KeyLives
    <3>1. CASE q = p
      <4>1. k.code = c /\ codes'[c].saved = time /\ codes'[c].at = codes[c].at
        BY <2>2, <2>3, <2>4, <2>5, <3>1
      <4>2. ASSUME NEW d \in (c + 1)..Len(codes), codes'[d].purpose = p,
                   codes'[d].saved # NotSaved
            PROVE  time - codes[c].at >= Cooldown
        <5>1. d \in DOMAIN codes /\ d # c /\ c < d /\ codes'[d] = codes[d] /\ codes[d].at \in Nat
          BY <1>5, <2>4, CodeFields
        <5>2. codes[d].at >= codes[c].at + Cooldown
          BY <2>p, <4>2, <5>1 DEF SmsInv, CodesAreApart
        <5>3. codes[d].at <= time
          BY <5>1 DEF SmsInv, CodesAreSaved
        <5>4. Cooldown \in Nat
          BY SmsAssumption
        <5> QED BY <1>5, <5>1, <5>2, <5>3, <5>4
      <4> QED BY <3>1, <4>1, <4>2
    <3>2. CASE q # p
      <4>1. /\ k = stored[q] /\ k.code \in DOMAIN codes /\ codes'[k.code] = codes[k.code]
        BY <2>5, <2>10, <2>12, <3>2
      <4>2. \A d \in (k.code + 1)..Len(codes) : codes'[d].purpose = q => codes'[d] = codes[d]
        <5> TAKE d \in (k.code + 1)..Len(codes)
        <5>1. d \in DOMAIN codes
          BY <1>5, <4>1
        <5> QED BY <2>p, <2>2, <2>4, <3>2, <5>1
      <4> QED BY <4>1, <4>2 DEF SmsInv, StoredIsLatest, KeyLives
    <3> QED BY <3>1, <3>2
  <2> QED BY <2>6, <2>7, <2>8, <2>9, <2>11, <2>13, <2>14 DEF SmsInv
<1> QED BY <1>6, <1>7

\* The code that is kept while its key lives.
LEMMA KeptCode ==
    ASSUME SmsInv, NEW p \in Purposes, KeyLives(stored[p])
    PROVE  LET c == stored[p].code IN
           /\ c # 0 /\ c \in DOMAIN codes /\ codes[c].purpose = p /\ codes[c].saved # NotSaved
           /\ codes[c].admitted = 0
<1>1. time \in Nat /\ stored[p].until > time
  BY DEF KeyLives, SmsInv, SmsTypes
<1> QED BY <1>1 DEF SmsInv, StoredFits

\* An answer rewrites the code it was given to, and either the keys are gone, or the
\* attempts count it.
LEMMA AnswerKeeps ==
    ASSUME SmsInv, NEW p \in Purposes, KeyLives(stored[p]), NEW c, c = stored[p].code,
           NEW new \in Code, codes' = [codes EXCEPT ![c] = new],
           new.at = codes[c].at, new.purpose = p, new.saved = codes[c].saved, new.admitted <= 1,
           stored' \in [Purposes -> [code : Nat, until : Nat]],
           attempts' \in [Purposes -> Key], registered' \in BOOLEAN,
           \A q \in Purposes : q # p => stored'[q] = stored[q] /\ attempts'[q] = attempts[q],
           \/ stored'[p] = NoCode /\ attempts'[p] = NoKey
           \/ /\ stored'[p] = stored[p] /\ new.admitted = 0
              /\ attempts'[p].n <= VerifyAttempts - 1
              /\ Missed(new.wrong, attempts'[p], stored[p].until),
           UNCHANGED <<sending, coolUntil, counters, time>>
    PROVE  SmsInv'
<1>1. /\ c # 0 /\ c \in DOMAIN codes /\ codes[c].purpose = p /\ codes[c].saved # NotSaved
      /\ codes[c].admitted = 0
  BY KeptCode
<1>2. codes \in Seq(Code) /\ time \in Nat /\ DOMAIN codes = 1..Len(codes)
  BY DEF SmsInv, SmsTypes
<1>3. /\ codes' \in Seq(Code) /\ Len(codes') = Len(codes) /\ DOMAIN codes' = DOMAIN codes
      /\ codes'[c] = new /\ \A d \in DOMAIN codes : d # c => codes'[d] = codes[d]
  BY <1>1, CodeIsRewritten DEF SmsInv
<1>4. SmsTypes'
  BY <1>3 DEF SmsInv, SmsTypes
<1>5. \A d \in DOMAIN codes : /\ codes'[d].at = codes[d].at
                              /\ codes'[d].purpose = codes[d].purpose
                              /\ codes'[d].saved = codes[d].saved
  BY <1>1, <1>3
<1>6. CodesAreCounted' /\ CodesAreApart'
  BY <1>2, <1>3, <1>5, LimitsStay
<1>7. CodesAreSaved'
  <2> SUFFICES ASSUME NEW d \in DOMAIN codes
               PROVE  /\ codes'[d].at <= time
                      /\ codes'[d].admitted <= 1
                      /\ IF codes'[d].saved = NotSaved
                         THEN codes'[d].wrong = 0 /\ codes'[d].admitted = 0
                         ELSE codes'[d].saved >= codes'[d].at /\ codes'[d].saved <= time
    BY <1>3 DEF CodesAreSaved
  <2>1. CASE d = c
    BY <1>1, <1>3, <2>1 DEF SmsInv, CodesAreSaved
  <2>2. CASE d # c
    BY <1>3, <2>2 DEF SmsInv, CodesAreSaved
  <2> QED BY <2>1, <2>2
<1>8. CodesUnderWay'
  BY <1>3, <1>5 DEF SmsInv, CodesUnderWay
<1>9. NoCode.code = 0 /\ NoCode.until = 0 /\ NoKey.n = 0
  BY DEF NoCode, NoKey
<1>10. \A q \in Purposes : q # p /\ stored[q].code # 0 =>
         /\ stored[q].code \in DOMAIN codes
         /\ codes'[stored[q].code] = codes[stored[q].code]
  BY <1>1, <1>3 DEF SmsInv, StoredFits
<1>11. StoredFits'
  <2> SUFFICES ASSUME NEW q \in Purposes, NEW k, k = stored'[q]
               PROVE  IF k.code = 0 THEN k.until = 0
                      ELSE /\ k.code \in DOMAIN codes /\ codes'[k.code].purpose = q
                           /\ codes'[k.code].saved # NotSaved
                           /\ codes'[k.code].admitted = 0
                           /\ k.until = codes'[k.code].saved + CodeTTL
    BY <1>3 DEF StoredFits
  <2>1. CASE q = p /\ k = NoCode
    BY <1>9, <2>1
  <2>2. CASE q = p /\ k = stored[p] /\ new.admitted = 0
    BY <1>1, <1>3, <2>2 DEF SmsInv, StoredFits
  <2>3. CASE q # p
    BY <1>10, <2>3 DEF SmsInv, StoredFits
  <2> QED BY <2>1, <2>2, <2>3
<1>12. VerifyAttempts - 1 >= 0
  <2>1. VerifyAttempts \in Nat \ {0}
    BY SmsAssumption
  <2> QED BY <2>1
<1>13. GuessesFit'
  <2> SUFFICES ASSUME NEW q \in Purposes, NEW k, k = stored'[q]
               PROVE  /\ attempts'[q].n <= VerifyAttempts - 1
                      /\ k.until > time => Missed(codes'[k.code].wrong, attempts'[q], k.until)
    BY DEF GuessesFit, KeyLives, Missed
  <2>1. CASE q = p /\ k = NoCode /\ attempts'[p] = NoKey
    BY <1>2, <1>9, <1>12, <2>1
  <2>2. CASE q = p /\ k = stored[p] /\ attempts'[p].n <= VerifyAttempts - 1
             /\ Missed(new.wrong, attempts'[p], stored[p].until)
    BY <1>3, <2>2
  <2>3. CASE q # p
    <3>1. k = stored[q] /\ attempts'[q] = attempts[q]
      BY <2>3
    <3>2. k.until > time => k.code # 0
      BY <1>2, <3>1 DEF SmsInv, StoredFits
    <3> QED BY <1>10, <2>3, <3>1, <3>2 DEF SmsInv, GuessesFit, KeyLives
  <2> QED BY <2>1, <2>2, <2>3
<1>14. StoredIsLatest'
  <2> SUFFICES ASSUME NEW q \in Purposes, NEW k, k = stored'[q], k.until > time
               PROVE  \/ codes'[k.code].saved - codes'[k.code].at >= Cooldown
                      \/ \A d \in (k.code + 1)..Len(codes) :
                           codes'[d].purpose = q => codes'[d].saved = NotSaved
    BY <1>3 DEF StoredIsLatest, KeyLives
  <2>1. k = stored[q]
    BY <1>2, <1>9
  <2>2. KeyLives(stored[q])
    BY <2>1 DEF KeyLives
  <2>3. k.code \in DOMAIN codes
    BY <2>1, <2>2, KeptCode
  <2>4. \A d \in (k.code + 1)..Len(codes) : d \in DOMAIN codes
    BY <1>2, <2>3
  <2> QED BY <1>5, <2>1, <2>2, <2>3, <2>4 DEF SmsInv, StoredIsLatest
<1> QED BY <1>4, <1>6, <1>7, <1>8, <1>11, <1>13, <1>14 DEF SmsInv

LEMMA AnswerRightKeeps ==
    ASSUME SmsInv, NEW p \in Purposes, AnswerRight(p)
    PROVE  SmsInv'
<1>1. /\ KeyLives(stored[p])
      /\ stored' = [stored EXCEPT ![p] = NoCode] /\ attempts' = [attempts EXCEPT ![p] = NoKey]
      /\ UNCHANGED <<sending, coolUntil, counters, time>>
      /\ registered' = (registered \/ p = "register")
  BY DEF AnswerRight, KeysAfterRight
<1>2. PICK c \in DOMAIN codes : c = stored[p].code /\ codes[c].purpose = p /\ codes[c].admitted = 0
  BY <1>1, KeptCode
<1>3. PICK m \in {0, 1} : codes' = [codes EXCEPT ![c] = [codes[c] EXCEPT !.admitted = m]]
  <2> DEFINE m == IF registered = (p = "login") THEN 1 ELSE 0
  <2>1. m \in {0, 1} /\ codes[c].admitted + m = m
    BY <1>2
  <2>2. codes' = [codes EXCEPT ![c] = [codes[c] EXCEPT !.admitted = codes[c].admitted + m]]
    BY <1>2 DEF AnswerRight
  <2> QED BY <2>1, <2>2
<1> DEFINE new == [codes[c] EXCEPT !.admitted = m]
<1>4. codes[c] \in Code /\ m \in Nat
  BY CodeFields DEF SmsInv, SmsTypes
<1>5. /\ new \in Code /\ new.saved = codes[c].saved /\ new.admitted = m
      /\ new.at = codes[c].at /\ new.purpose = codes[c].purpose
  BY <1>4, CodeUpdates
<1>6. /\ stored' \in [Purposes -> [code : Nat, until : Nat]] /\ stored'[p] = NoCode
      /\ attempts' \in [Purposes -> Key] /\ attempts'[p] = NoKey
      /\ \A q \in Purposes : q # p => stored'[q] = stored[q] /\ attempts'[q] = attempts[q]
  <2>1. NoCode \in [code : Nat, until : Nat] /\ NoKey \in Key
    BY DEF NoCode, NoKey, Key
  <2> QED BY <1>1, <2>1 DEF SmsInv, SmsTypes
<1>7. registered' \in BOOLEAN
  BY <1>1 DEF SmsInv, SmsTypes
<1>8. codes' = [codes EXCEPT ![c] = new] /\ new.admitted <= 1
  BY <1>3, <1>5
<1> HIDE DEF new
<1>9. KeyLives(stored[p]) /\ c = stored[p].code /\ UNCHANGED <<sending, coolUntil, counters, time>>
  BY <1>1, <1>2
<1>10. new \in Code /\ new.at = codes[c].at /\ new.purpose = p /\ new.saved = codes[c].saved
  BY <1>2, <1>5
<1> QED BY <1>6, <1>7, <1>8, <1>9, <1>10, AnswerKeeps

LEMMA AnswerWrongKeeps ==
    ASSUME SmsInv, NEW p \in Purposes, AnswerWrong(p)
    PROVE  SmsInv'
<1>1. /\ KeyLives(stored[p]) /\ KeysAfterWrong(p)
      /\ UNCHANGED <<sending, coolUntil, counters, registered, time>>
  BY DEF AnswerWrong
<1>2. PICK c \in DOMAIN codes : c = stored[p].code /\ codes[c].purpose = p /\ codes[c].admitted = 0
  BY <1>1, KeptCode
<1>3. /\ codes[c] \in Code /\ codes[c].wrong \in Nat /\ time \in 0..MaxTime /\ registered \in BOOLEAN
      /\ time \in Nat
  BY CodeFields DEF SmsInv, SmsTypes
<1>4. PICK m \in Nat : m = codes[c].wrong + 1
  BY <1>3
<1> DEFINE new == [codes[c] EXCEPT !.wrong = m]
<1>5. codes' = [codes EXCEPT ![c] = new]
  BY <1>2, <1>4 DEF AnswerWrong
<1>6. /\ new \in Code /\ new.saved = codes[c].saved /\ new.wrong = m
      /\ new.admitted = codes[c].admitted /\ new.at = codes[c].at
      /\ new.purpose = codes[c].purpose
  BY <1>3, <1>4, CodeUpdates, ZenonT(40)
<1> HIDE DEF new
<1>7. NoCode \in [code : Nat, until : Nat] /\ NoKey \in Key
  BY DEF NoCode, NoKey, Key
<1>8. PICK k \in Key : k = attempts[p]
  BY DEF SmsInv, SmsTypes
<1>9. PICK u \in Nat : u = stored[p].until /\ u > time
  BY <1>1 DEF SmsInv, SmsTypes, KeyLives
<1>10. k.n \in Nat /\ k.until \in Nat /\ VerifyAttempts \in Nat \ {0}
  BY KeyFields, SmsAssumption
<1>11. CASE AttemptsAfter(p) >= VerifyAttempts
  <2>1. stored' = [stored EXCEPT ![p] = NoCode] /\ attempts' = [attempts EXCEPT ![p] = NoKey]
    BY <1>1, <1>11 DEF KeysAfterWrong
  <2>2. /\ stored' \in [Purposes -> [code : Nat, until : Nat]] /\ stored'[p] = NoCode
        /\ attempts' \in [Purposes -> Key] /\ attempts'[p] = NoKey
        /\ \A q \in Purposes : q # p => stored'[q] = stored[q] /\ attempts'[q] = attempts[q]
    BY <1>7, <2>1 DEF SmsInv, SmsTypes
  <2>3. new.admitted <= 1 /\ new.purpose = p /\ registered' \in BOOLEAN
    BY <1>1, <1>2, <1>3, <1>6
  <2>4. KeyLives(stored[p]) /\ c = stored[p].code /\ UNCHANGED <<sending, coolUntil, counters, time>>
    BY <1>1, <1>2
  <2>5. new \in Code /\ new.at = codes[c].at /\ new.saved = codes[c].saved
    BY <1>6
  <2> QED BY <1>5, <2>2, <2>3, <2>4, <2>5, AnswerKeeps
<1>12. CASE ~(AttemptsAfter(p) >= VerifyAttempts)
  <2>1. PICK until \in AttemptExpiries(p) :
          attempts' = [attempts EXCEPT ![p] = [n |-> AttemptsAfter(p), until |-> until]]
    BY <1>1, <1>12 DEF KeysAfterWrong
  <2>2. stored' = stored
    BY <1>1, <1>12 DEF KeysAfterWrong
  <2>3. PICK i \in Nat : /\ i = AttemptsAfter(p) /\ i <= VerifyAttempts - 1
                         /\ i = (IF k.until > time THEN k.n + 1 ELSE 1)
    BY <1>8, <1>10, <1>12 DEF AttemptsAfter, KeyLives
  <2>4. u <= Never /\ Never \in Nat
    <3>1. u = codes[c].saved + CodeTTL /\ codes[c].saved <= time /\ codes[c].saved \in Nat
      <4>1. u = codes[c].saved + CodeTTL /\ codes[c].saved # NotSaved
        BY <1>1, <1>2, <1>9, KeptCode DEF SmsInv, StoredFits
      <4> QED BY <1>3, <4>1, CodeFields DEF SmsInv, SmsTypes, CodesAreSaved
    <3>2. CodeTTL \in Nat /\ MaxTime \in Nat
      BY SmsAssumption
    <3> QED BY <1>3, <3>1, <3>2 DEF Never
  <2>5. until \in Nat /\ (IF k.until > time THEN until = k.until ELSE until >= u)
    BY <1>8, <1>9, <1>10, <2>1, <2>4 DEF AttemptExpiries, KeyLives
  <2> DEFINE l == [n |-> i, until |-> until]
  <2>6. l \in Key /\ l.n = i /\ l.until = until
    BY <2>3, <2>5 DEF Key
  <2>7. attempts' = [attempts EXCEPT ![p] = l]
    BY <2>1, <2>3
  <2> HIDE DEF l
  <2>8. /\ attempts' \in [Purposes -> Key] /\ attempts'[p] = l
        /\ \A q \in Purposes : q # p => attempts'[q] = attempts[q]
        /\ stored \in [Purposes -> [code : Nat, until : Nat]]
    BY <2>6, <2>7 DEF SmsInv, SmsTypes
  <2>9. Missed(codes[c].wrong, k, u)
    BY <1>1, <1>2, <1>8, <1>9 DEF SmsInv, GuessesFit
  <2>10. Missed(m, l, u)
    BY <1>3, <1>4, <1>9, <1>10, <2>3, <2>5, <2>6, <2>9 DEF Missed
  <2>11. /\ attempts'[p].n <= VerifyAttempts - 1
         /\ Missed(new.wrong, attempts'[p], stored[p].until)
    BY <1>6, <1>9, <2>3, <2>6, <2>8, <2>10
  <2>12. /\ new.admitted = 0 /\ new.admitted <= 1 /\ new.purpose = p /\ stored'[p] = stored[p]
         /\ new \in Code /\ new.at = codes[c].at /\ new.saved = codes[c].saved
    BY <1>2, <1>6, <2>2
  <2>13. stored' \in [Purposes -> [code : Nat, until : Nat]] /\ registered' \in BOOLEAN
    BY <1>1, <1>3, <2>2, <2>8
  <2>14. \A q \in Purposes : q # p => stored'[q] = stored[q] /\ attempts'[q] = attempts[q]
    BY <2>2, <2>8
  <2>15. \/ stored'[p] = NoCode /\ attempts'[p] = NoKey
         \/ /\ stored'[p] = stored[p] /\ new.admitted = 0
            /\ attempts'[p].n <= VerifyAttempts - 1
            /\ Missed(new.wrong, attempts'[p], stored[p].until)
    BY <2>11, <2>12
  <2>16. attempts' \in [Purposes -> Key]
    BY <2>8
  <2>17. KeyLives(stored[p]) /\ c = stored[p].code /\ UNCHANGED <<sending, coolUntil, counters, time>>
    BY <1>1, <1>2
  <2> QED BY <1>5, <2>12, <2>13, <2>14, <2>15, <2>16, <2>17, AnswerKeeps
<1> QED BY <1>11, <1>12

-----------------------------------------------------------------------------
(* Every step *)

LEMMA TimeGoesOnKeeps ==
    ASSUME SmsInv, TimeGoesOn
    PROVE  SmsInv'
<1>1. /\ time < MaxTime /\ time' = time + 1
      /\ UNCHANGED <<codes, sending, coolUntil, counters, stored, attempts, registered>>
  BY DEF TimeGoesOn
<1>2. time \in Nat /\ MaxTime \in Nat /\ time' \in 0..MaxTime /\ time' \in Nat /\ time' >= time
  BY <1>1, SmsAssumption DEF SmsInv, SmsTypes
<1>3. SmsTypes'
  BY <1>1, <1>2 DEF SmsInv, SmsTypes
<1>4. CodesAreCounted' /\ CodesAreApart'
  BY <1>1, <1>2, <1>3, LimitsStay DEF SmsTypes
<1>5. CodesAreSaved'
  <2> SUFFICES ASSUME NEW c \in DOMAIN codes
               PROVE  /\ codes[c].at <= time'
                      /\ codes[c].admitted <= 1
                      /\ IF codes[c].saved = NotSaved THEN codes[c].wrong = 0 /\ codes[c].admitted = 0
                         ELSE codes[c].saved >= codes[c].at /\ codes[c].saved <= time'
    BY <1>1 DEF CodesAreSaved
  <2>1. codes[c].at \in Nat /\ codes[c].saved \in Int
    BY CodeFields DEF SmsInv, SmsTypes, NotSaved
  <2> QED BY <1>1, <1>2, <2>1 DEF SmsInv, CodesAreSaved
<1>6. CodesUnderWay' /\ StoredFits'
  BY <1>1 DEF SmsInv, CodesUnderWay, StoredFits
<1>7. \A p \in Purposes : stored[p].until > time' => stored[p].until > time
  <2> TAKE p \in Purposes
  <2>1. stored[p].until \in Nat
    BY DEF SmsInv, SmsTypes
  <2> QED BY <1>1, <1>2, <2>1
<1>8. GuessesFit'
  <2> SUFFICES ASSUME NEW p \in Purposes, stored[p].until > time', NEW k, k = attempts[p],
                      NEW m, m = codes[stored[p].code].wrong, NEW u, u = stored[p].until
               PROVE  IF k.until <= time' THEN m <= VerifyAttempts - 1
                      ELSE IF k.until < u THEN m <= k.n
                      ELSE m <= VerifyAttempts - 1 + k.n
    BY <1>1 DEF SmsInv, GuessesFit, KeyLives, Missed
  <2>1. k \in Key /\ u \in Nat
    BY DEF SmsInv, SmsTypes
  <2>2. k.n \in Nat /\ k.until \in Nat /\ k.n <= VerifyAttempts - 1 /\ VerifyAttempts \in Nat
    BY <2>1, KeyFields, SmsAssumption DEF SmsInv, GuessesFit
  <2>3. KeyLives(stored[p])
    BY <1>7 DEF KeyLives
  <2>4. m \in Nat
    BY <2>3, KeptCode, CodeFields DEF SmsInv, SmsTypes
  <2>5. IF k.until <= time THEN m <= VerifyAttempts - 1
        ELSE IF k.until < u THEN m <= k.n
        ELSE m <= VerifyAttempts - 1 + k.n
    BY <2>3 DEF SmsInv, GuessesFit, Missed
  <2> QED BY <1>1, <1>2, <2>1, <2>2, <2>4, <2>5
<1>9. StoredIsLatest'
  BY <1>1, <1>7 DEF SmsInv, StoredIsLatest, KeyLives
<1> QED BY <1>3, <1>4, <1>5, <1>6, <1>8, <1>9 DEF SmsInv

LEMMA SmsStays == SmsInv /\ [SmsNext]_smsVars => SmsInv'
<1> SUFFICES ASSUME SmsInv, [SmsNext]_smsVars PROVE SmsInv'
  OBVIOUS
<1>1. CASE SmsNext
  BY <1>1, AskForCodeKeeps, SendCodeKeeps, SaveCodeKeeps, AnswerRightKeeps, AnswerWrongKeeps,
     TimeGoesOnKeeps DEF SmsNext, SmsStep
<1>2. CASE UNCHANGED smsVars
  <2>1. SmsTypes' /\ CodesAreCounted' /\ CodesAreApart' /\ CodesAreSaved' /\ CodesUnderWay'
    BY <1>2 DEF smsVars, SmsInv, SmsTypes, CodesAreCounted, CodesAreApart, CodesAreSaved,
                CodesUnderWay
  <2>2. StoredFits' /\ GuessesFit' /\ StoredIsLatest'
    BY <1>2 DEF smsVars, SmsInv, StoredFits, GuessesFit, StoredIsLatest, KeyLives, Missed
  <2> QED BY <2>1, <2>2 DEF SmsInv
<1> QED BY <1>1, <1>2

LEMMA SmsInvIsSafe == SmsInv => CodesAreSafe
<1> SUFFICES ASSUME SmsInv PROVE CodesAreSafe
  OBVIOUS
<1>1. codes \in Seq(Code) /\ time \in Nat /\ VerifyAttempts \in Nat \ {0}
  BY SmsAssumption DEF SmsInv, SmsTypes
<1>2. SmsTypeOK
  <2>1. \A c \in DOMAIN codes : codes[c].purpose \in Purposes /\ codes[c].at \in 0..time
    <3> TAKE c \in DOMAIN codes
    <3>1. codes[c].purpose \in Purposes /\ codes[c].at \in Nat
      BY <1>1, CodeFields
    <3>2. codes[c].at <= time
      BY DEF SmsInv, CodesAreSaved
    <3> QED BY <1>1, <3>1, <3>2
  <2>2. \A p \in Purposes : stored[p].code \in {0} \cup DOMAIN codes
    BY DEF SmsInv, StoredFits
  <2>3. \A w \in Windows : counters[w].n \in 0..w.max
    <3> TAKE w \in Windows
    <3>1. counters[w] \in Key /\ counters[w].n <= w.max
      BY DEF SmsInv, SmsTypes, CodesAreCounted, Counted
    <3>2. counters[w].n \in Nat /\ w.max \in Nat
      BY <3>1, KeyFields, WindowFields
    <3> QED BY <3>1, <3>2
  <2>4. \A p \in Purposes : attempts[p].n \in 0..(VerifyAttempts - 1)
    <3> TAKE p \in Purposes
    <3>1. attempts[p] \in Key /\ attempts[p].n <= VerifyAttempts - 1
      BY DEF SmsInv, SmsTypes, GuessesFit
    <3>2. attempts[p].n \in Nat
      BY <3>1, KeyFields
    <3> QED BY <1>1, <3>1, <3>2
  <2> QED BY <2>1, <2>2, <2>3, <2>4 DEF SmsTypeOK
<1>3. SendsAreLimited
  <2> SUFFICES ASSUME NEW w \in Windows, NEW t \in 0..time
               PROVE  Cardinality({c \in DOMAIN codes : codes[c].at \in (t - w.length + 1)..t})
                        <= 2 * w.max
    BY DEF SendsAreLimited
  <2>1. t \in Nat /\ w.length \in Nat
    BY <1>1, WindowFields
  <2>2. PICK x \in Int : x = t - w.length + 1 /\ x + w.length = t + 1
    <3>1. t - w.length + 1 \in Int /\ (t - w.length + 1) + w.length = t + 1
      BY <2>1
    <3> QED BY <3>1
  <2>3. \A c \in DOMAIN codes : codes[c].at \in x..t <=> codes[c].at >= x /\ codes[c].at < t + 1
    <3> TAKE c \in DOMAIN codes
    <3>1. codes[c].at \in Nat
      BY <1>1, CodeFields
    <3> QED BY <2>1, <2>2, <3>1
  <2>4. {c \in DOMAIN codes : codes[c].at \in x..t} = Between(codes, x, x + w.length)
    BY <2>2, <2>3 DEF Between
  <2> QED BY <2>2, <2>4 DEF SmsInv, CodesAreCounted, Counted
<1>4. CodesAdmitOnce
  BY DEF CodesAdmitOnce, SmsInv, CodesAreSaved
<1>5. CodesSurviveFewGuesses
  <2> SUFFICES ASSUME NEW p \in Purposes, KeyLives(stored[p]), NEW m,
                      m = codes[stored[p].code].wrong, NEW k, k = attempts[p]
               PROVE  m <= 2 * (VerifyAttempts - 1)
    BY DEF CodesSurviveFewGuesses
  <2>1. m \in Nat
    BY <1>1, KeptCode, CodeFields
  <2>2. k \in Key /\ k.n <= VerifyAttempts - 1 /\ Missed(m, k, stored[p].until)
    BY DEF SmsInv, SmsTypes, GuessesFit
  <2>3. k.n \in Nat
    BY <2>2, KeyFields
  <2>4. m <= VerifyAttempts - 1 \/ m <= k.n \/ m <= VerifyAttempts - 1 + k.n
    BY <2>2 DEF Missed
  <2> QED BY <1>1, <2>1, <2>2, <2>3, <2>4
<1>6. StoredIsLatest
  BY DEF SmsInv
<1> QED BY <1>2, <1>3, <1>4, <1>5, <1>6 DEF CodesAreSafe

\* Codes are safe, for any number of requests under way, limits and lengths of life: they
\* are sent no faster than the limits say, admit once, and are missed a few times at most;
\* the one that is accepted is the newest that was saved.
THEOREM CodesStaySafe == SmsSpec => []CodesAreSafe
<1>1. SmsInit => SmsInv
  BY SmsBegins
<1>2. SmsInv /\ [SmsNext]_smsVars => SmsInv'
  BY SmsStays
<1>3. SmsInv => CodesAreSafe
  BY SmsInvIsSafe
<1> QED BY <1>1, <1>2, <1>3, PTL DEF SmsSpec

=============================================================================
