----------------------------- MODULE Onboarding -----------------------------
(***************************************************************************)
(* How a supplier gets the merchant number splits are paid to              *)
(* (internal/payment: StartOnboard, GetOnboardStatus, applyNetIn,          *)
(* BindMerchant).  An application is made at the gateway under a request   *)
(* number; what becomes of it is told by notices and answers to queries,   *)
(* which come late, twice and out of order.  An operator may enter the     *)
(* number of a supplier who applied on paper.                              *)
(***************************************************************************)
EXTENDS Integers, Sequences

CONSTANTS
    Applicants,         \* suppliers; a merchant number is named by whose it is
    Starters,           \* StartOnboard calls under way
    MaxSecond,          \* bound: time, in seconds
    MaxBindings         \* bound: numbers an operator enters

NoNumber == "none"

ASSUME OnboardingAssumption ==
    /\ MaxSecond \in Nat /\ MaxBindings \in Nat
    /\ NoNumber \notin Applicants

VARIABLES
    merchants,          \* yeepay_merchants, one row for each supplier
    linking,            \* StartOnboard at work
    applications,       \* the applications at the gateway: status, by request number
    news,               \* what the gateway has said of them, in notices and answers
    entered,            \* the numbers an operator has entered, and for whom
    second

onboardVars == <<merchants, linking, applications, news, entered, second>>

Manual == -1            \* in place of the time, in a request number that an operator's entry made
NoRow == [status |-> "none"]
IdleStart == [at |-> "idle"]

NewRow(request) ==
    [request |-> request, link |-> request, status |-> "INIT", number |-> NoNumber,
     byOperator |-> FALSE]

HasRow(u) == merchants[u].status # "none"
Completed(u) == merchants[u].status = "COMPLETED"

\* uk_merchant: at most one supplier's row has number n.
Holders(n) == {u \in Applicants : HasRow(u) /\ merchants[u].number = n}

-----------------------------------------------------------------------------
(* StartOnboard: the row is read, the gateway asked for a link, the row written *)

\* The request number is that of the row, or is made of the time in seconds.
RequestOf(u) == IF HasRow(u) THEN merchants[u].request ELSE <<u, second>>

BeginStart(c, u) ==
    /\ linking[c].at = "idle"
    /\ ~Completed(u)
    /\ linking' = [linking EXCEPT ![c] = [at |-> "link", user |-> u, request |-> RequestOf(u)]]
    /\ UNCHANGED <<merchants, applications, news, entered, second>>

\* NetInURL: the same request gets the same link.
NetInURL(c) ==
    /\ linking[c].at = "link"
    /\ applications' = [applications EXCEPT ![linking[c].request] =
                          IF @ = "none" THEN "REVIEWING" ELSE @]
    /\ linking' = [linking EXCEPT ![c].at = "save"]
    /\ UNCHANGED <<merchants, news, entered, second>>

NetInFails(c) ==
    /\ linking[c].at = "link"
    /\ linking' = [linking EXCEPT ![c] = IdleStart]
    /\ UNCHANGED <<merchants, applications, news, entered, second>>

\* INSERT ... ON DUPLICATE KEY UPDATE netin_url.
Linked(u, request) ==
    IF HasRow(u) THEN [merchants EXCEPT ![u].link = request]
    ELSE [merchants EXCEPT ![u] = NewRow(request)]

SaveLink(c) ==
    /\ linking[c].at = "save"
    /\ merchants' = Linked(linking[c].user, linking[c].request)
    /\ linking' = [linking EXCEPT ![c] = IdleStart]
    /\ UNCHANGED <<applications, news, entered, second>>

-----------------------------------------------------------------------------
(* The gateway, and what it says *)

GatewayDecides(request, status) ==
    /\ applications[request] \in {"REVIEWING", "REJECTED"}
    /\ applications[request] # status
    /\ applications' = [applications EXCEPT ![request] = status]
    /\ news' = news \cup {[request |-> request, status |-> status]}
    /\ UNCHANGED <<merchants, linking, entered, second>>

\* applyNetIn writes a row by its request number, and none that is completed.
Awaited_Late(u, n) == HasRow(u) /\ merchants[u].request = n.request
Awaited(u, n) == HasRow(u) /\ merchants[u].request = n.request /\ ~Completed(u)

\* The number comes with the completion; a number that another row has is refused.
ApplyNetIn(u, n) ==
    LET number == IF n.status = "COMPLETED" THEN n.request[1] ELSE merchants[u].number IN
    /\ n \in news
    /\ Awaited(u, n)
    /\ number = NoNumber \/ Holders(number) \subseteq {u}
    /\ merchants' = [merchants EXCEPT ![u].status = n.status, ![u].number = number]
    /\ UNCHANGED <<linking, applications, news, entered, second>>

-----------------------------------------------------------------------------
(* BindMerchant *)

\* INSERT ... ON DUPLICATE KEY UPDATE: a supplier without a row gets one, unless the number
\* is in another row, which is then the one that is updated; a supplier who has a row cannot
\* be given the number of another one.
BoundRow(u, n) ==
    IF HasRow(u) THEN u ELSE IF Holders(n) # {} THEN CHOOSE h \in Holders(n) : TRUE ELSE u

BindMerchant(u, n) ==
    LET row == BoundRow(u, n)
        request == IF HasRow(row) THEN merchants[row].request ELSE <<u, Manual>>
        link == IF HasRow(row) THEN merchants[row].link ELSE NoNumber IN
    /\ Len(entered) < MaxBindings
    /\ Holders(n) \subseteq {row}
    /\ merchants' = [merchants EXCEPT ![row] =
                       [request |-> request, link |-> link, status |-> "COMPLETED",
                        number |-> n, byOperator |-> TRUE]]
    /\ entered' = Append(entered, [user |-> u, number |-> n])
    /\ UNCHANGED <<linking, applications, news, second>>

SecondPasses ==
    /\ second < MaxSecond
    /\ second' = second + 1
    /\ UNCHANGED <<merchants, linking, applications, news, entered>>

-----------------------------------------------------------------------------

NetInRequests == Applicants \X (0..MaxSecond)

OnboardInit ==
    /\ merchants = [u \in Applicants |-> NoRow]
    /\ linking = [c \in Starters |-> IdleStart]
    /\ applications = [request \in NetInRequests |-> "none"]
    /\ news = {}
    /\ entered = <<>>
    /\ second = 0

OnboardNext ==
    \/ \E c \in Starters : \/ \E u \in Applicants : BeginStart(c, u)
                           \/ NetInURL(c) \/ NetInFails(c) \/ SaveLink(c)
    \/ \E request \in NetInRequests, status \in {"REJECTED", "COMPLETED"} :
          GatewayDecides(request, status)
    \/ \E u \in Applicants, n \in news : ApplyNetIn(u, n)
    \/ \E u, n \in Applicants : BindMerchant(u, n)
    \/ SecondPasses

OnboardSpec == OnboardInit /\ [][OnboardNext]_onboardVars

-----------------------------------------------------------------------------
(* What must hold *)

\* A number that splits are paid to is the supplier's own or was entered by an operator, and
\* only an operator ever changes it: no late, repeated or overtaken notice does (applyNetIn).
NumbersAreKept ==
    [][\A u \in Applicants : Completed(u) =>
          /\ Completed(u)'
          /\ merchants'[u].number = merchants[u].number \/ entered' # entered]_onboardVars

\* Nobody is paid on the number of somebody else, unless an operator entered it, and no two
\* suppliers on one number.
NumbersAreOwn ==
    /\ \A u \in Applicants :
          Completed(u) /\ ~merchants[u].byOperator => merchants[u].number = u
    /\ \A u, v \in Applicants :
          Completed(u) /\ Completed(v) /\ u # v => merchants[u].number # merchants[v].number

\* The link a supplier is shown leads to the application his row waits to hear of
\* (StartOnboard).
\* It is not so when a supplier asks twice at once before he has a row.
LinksLeadHome ==
    \A u \in Applicants :
        HasRow(u) /\ merchants[u].link # NoNumber => merchants[u].link = merchants[u].request

\* An operator who has been told that he bound a number has bound it to that supplier
\* (BindMerchant).  It is not so when the number is in the row of another supplier and this one
\* has none: the row of the other is written again.
BoundIsBound ==
    \A i \in DOMAIN entered : HasRow(entered[i].user)

\* Together: a supplier is paid on his own number, and it is kept.
NumbersAreReliable == []NumbersAreOwn /\ NumbersAreKept

=============================================================================
