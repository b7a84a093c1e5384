------------------------------- MODULE WeChat -------------------------------
(***************************************************************************)
(* Logging in by a scan (internal/auth/wechat.go).  The browser that       *)
(* starts leaves a verifier under a state; the exchange consumes the state *)
(* if the verifier is its own, asks WeChat who scanned, and then logs the  *)
(* bound account in, or hands out a ticket with which an account that is   *)
(* logged in may bind itself to the identity.                              *)
(***************************************************************************)
EXTENDS Integers, Sequences, FiniteSets

CONSTANTS
    Visitors,       \* browsers; each has its verifier
    Identities,     \* who scans
    Accounts,       \* users of the platform
    WeChatTTL,      \* wechatTTL
    MaxScans,       \* bound: states and tickets
    MaxMinute       \* bound: time

ASSUME WeChatAssumption == WeChatTTL \in Nat \ {0}

VARIABLES
    scans,          \* states: [browser, until, exchanges], exchanges: who had it consumed
    exchange,       \* WeChatExchange of each browser
    bindTickets,    \* binding tickets: [identity, until, uses]
    binding,        \* WeChatBind of each account
    bound,          \* user_wechat_identities
    frozen,         \* accounts that are not active
    minute

weChatVars == <<scans, exchange, bindTickets, binding, bound, frozen, minute>>

NoExchange == [at |-> "idle"]
NoBinding == [at |-> "idle"]

BoundTo(i) == {u \in Accounts : [identity |-> i, account |-> u] \in bound}

-----------------------------------------------------------------------------

WeChatStart(v) ==
    /\ Len(scans) < MaxScans
    /\ scans' = Append(scans, [browser |-> v, until |-> minute + WeChatTTL, exchanges |-> <<>>])
    /\ UNCHANGED <<exchange, bindTickets, binding, bound, frozen, minute>>

\* consumeWeChatState: compare and delete in one script.
Consumed(s, v) ==
    IF scans[s].browser = v THEN [scans EXCEPT ![s].until = 0, ![s].exchanges = Append(@, v)]
    ELSE scans

\* The state travels through the address bar: any browser may come with it.
ConsumeState(v, s) ==
    /\ exchange[v].at = "idle"
    /\ scans[s].until > minute
    /\ scans' = Consumed(s, v)
    /\ exchange' = IF scans' = scans THEN exchange ELSE [exchange EXCEPT ![v] = [at |-> "ask"]]
    /\ UNCHANGED <<bindTickets, binding, bound, frozen, minute>>

\* exchangeWeChatCode: WeChat says who scanned, or nothing of use.
AskWeChat(v) ==
    /\ exchange[v].at = "ask"
    /\ \E answer \in {NoExchange} \cup {[at |-> "find", identity |-> i] : i \in Identities} :
         exchange' = [exchange EXCEPT ![v] = answer]
    /\ UNCHANGED <<scans, bindTickets, binding, bound, frozen, minute>>

\* FindByWeChat: an account that is bound is logged in if it is active, and it has a
\* session then (Sessions); otherwise there is a ticket, if Redis takes it.
FindByWeChat(v, ok) ==
    /\ exchange[v].at = "find"
    /\ LET i == exchange[v].identity IN
         IF BoundTo(i) = {} /\ ok
         THEN /\ Len(bindTickets) < MaxScans
              /\ bindTickets' = Append(bindTickets, [identity |-> i, until |-> minute + WeChatTTL,
                                             uses |-> 0])
         ELSE UNCHANGED bindTickets
    /\ exchange' = [exchange EXCEPT ![v] = NoExchange]
    /\ UNCHANGED <<scans, binding, bound, frozen, minute>>

\* GetDel.
TakenTicket_NotDeleted(t) == [bindTickets EXCEPT ![t].uses = @ + 1]
TakenTicket(t) == [bindTickets EXCEPT ![t].uses = @ + 1, ![t].until = 0]

\* WeChatBind: the account is active; the ticket is gone whatever follows.
TakeTicket(u, t) ==
    /\ binding[u].at = "idle"
    /\ u \notin frozen
    /\ bindTickets[t].until > minute
    /\ bindTickets' = TakenTicket(t)
    /\ binding' = [binding EXCEPT ![u] = [at |-> "insert", ticket |-> t]]
    /\ UNCHANGED <<scans, exchange, bound, frozen, minute>>

\* BindWeChat: an identity has one account, an account has one identity.
BindWeChat(u) ==
    /\ binding[u].at = "insert"
    /\ LET i == bindTickets[binding[u].ticket].identity IN
         bound' = IF BoundTo(i) # {} \/ (\E b \in bound : b.account = u) THEN bound
                  ELSE bound \cup {[identity |-> i, account |-> u]}
    /\ binding' = [binding EXCEPT ![u] = NoBinding]
    /\ UNCHANGED <<scans, exchange, bindTickets, frozen, minute>>

FreezeAccount(u) ==
    /\ u \notin frozen
    /\ frozen' = frozen \cup {u}
    /\ UNCHANGED <<scans, exchange, bindTickets, binding, bound, minute>>

MinutePasses ==
    /\ minute < MaxMinute
    /\ minute' = minute + 1
    /\ UNCHANGED <<scans, exchange, bindTickets, binding, bound, frozen>>

-----------------------------------------------------------------------------

WeChatInit ==
    /\ scans = <<>>
    /\ exchange = [v \in Visitors |-> NoExchange]
    /\ bindTickets = <<>>
    /\ binding = [u \in Accounts |-> NoBinding]
    /\ bound = {}
    /\ frozen = {}
    /\ minute = 0

WeChatNext ==
    \/ \E v \in Visitors : \/ WeChatStart(v)
                           \/ \E s \in DOMAIN scans : ConsumeState(v, s)
                           \/ AskWeChat(v)
                           \/ \E ok \in BOOLEAN : FindByWeChat(v, ok)
    \/ \E u \in Accounts : \/ \E t \in DOMAIN bindTickets : TakeTicket(u, t)
                           \/ BindWeChat(u)
                           \/ FreezeAccount(u)
    \/ MinutePasses

WeChatSpec == WeChatInit /\ [][WeChatNext]_weChatVars

-----------------------------------------------------------------------------
(* What must hold *)

\* A state is exchanged once, and by the browser that started with it: another that was
\* given the address neither gets the login nor spoils it (consumeWeChatState).
StatesServeTheirBrowser ==
    \A s \in DOMAIN scans : scans[s].exchanges \in {<<>>, <<scans[s].browser>>}

\* A scan binds one account at most, also when the first one that tries with its ticket is
\* refused because it is bound already (WeChatBind).
TicketsAreUsedOnce == \A t \in DOMAIN bindTickets : bindTickets[t].uses <= 1

\* Together: a scan logs in the browser that showed it, and what it yields is used once.
ScansAreTheirOwn == StatesServeTheirBrowser /\ TicketsAreUsedOnce

=============================================================================
