------------------------------ MODULE OfficeProofs ------------------------------
(***************************************************************************)
(* Of merchant numbers: that a supplier is paid on his own number and      *)
(* keeps it, for any number of suppliers, calls and notices.  It rests on  *)
(* two facts about request numbers: each names the supplier who asked, in  *)
(* the row and in a call under way, and no two rows have one merchant      *)
(* number.  Of leads: that the limit of submissions holds for every window *)
(* and a commission is booked once.  Of tickets and invoices: that they    *)
(* are true, however requests interleave.  Of the equipment market: that   *)
(* what is on sale was reviewed, and every inquiry has its lead.  Of       *)
(* suppliers: that who is swept out sells nothing, whatever is under       *)
(* review.  Of registrations of collateral: that a reader who turns the    *)
(* pages misses none.                                                      *)
(***************************************************************************)
EXTENDS Onboarding, Suppliers, Equipment, Tickets, Invoices, Collateral, SequenceTheorems,
        CountingProofs

-----------------------------------------------------------------------------
(* Merchant numbers *)

Request == Applicants \X Int
Row == [request : Request, link : Request \cup {NoNumber},
        status : {"INIT", "REJECTED", "COMPLETED"}, number : Applicants \cup {NoNumber},
        byOperator : BOOLEAN]
Start == [at : {"link", "save"}, user : Applicants, request : Request]

OnboardTypeOK ==
    /\ merchants \in [Applicants -> {NoRow} \cup Row]
    /\ linking \in [Starters -> {IdleStart} \cup Start]
    /\ news \subseteq [request : NetInRequests, status : {"REJECTED", "COMPLETED"}]
    /\ entered \in Seq([user : Applicants, number : Applicants])
    /\ second \in 0..MaxSecond

\* A request number names who asked.
RequestsNameTheirUser ==
    /\ \A u \in Applicants : HasRow(u) => merchants[u].request[1] = u
    /\ \A c \in Starters : linking[c].at # "idle" => linking[c].request[1] = linking[c].user

\* uk_merchant, and what is completed has a number: one's own, but for an operator's entry.
NumbersDiffer ==
    \A u, v \in Applicants :
        HasRow(u) /\ HasRow(v) /\ u # v /\ merchants[u].number = merchants[v].number
           => merchants[u].number = NoNumber
CompletedHaveNumbers ==
    \A u \in Applicants : Completed(u) =>
        /\ merchants[u].number \in Applicants
        /\ merchants[u].byOperator \/ merchants[u].number = u

OnboardInv ==
    OnboardTypeOK /\ RequestsNameTheirUser /\ NumbersDiffer /\ CompletedHaveNumbers

\* A row is one of the rows of the table, or none.
LEMMA Rows ==
    ASSUME OnboardTypeOK, NEW u \in Applicants
    PROVE  /\ HasRow(u) => merchants[u] \in Row
           /\ ~HasRow(u) => merchants[u] = NoRow
           /\ Completed(u) => HasRow(u)
  BY DEF OnboardTypeOK, HasRow, Completed, NoRow, Row

LEMMA OnboardBegins == OnboardInit => OnboardInv
<1> SUFFICES ASSUME OnboardInit PROVE OnboardInv
  OBVIOUS
<1>1. OnboardTypeOK
  BY OnboardingAssumption DEF OnboardInit, OnboardTypeOK
<1>2. \A u \in Applicants : ~HasRow(u) /\ ~Completed(u)
  BY DEF OnboardInit, HasRow, Completed, NoRow
<1>3. RequestsNameTheirUser
  BY <1>2 DEF OnboardInit, RequestsNameTheirUser, IdleStart
<1> QED BY <1>1, <1>2, <1>3 DEF OnboardInv, NumbersDiffer, CompletedHaveNumbers

\* The request number a call of StartOnboard uses.
LEMMA RequestOfUser ==
    ASSUME OnboardInv, NEW u \in Applicants
    PROVE  RequestOf(u) \in Request /\ RequestOf(u)[1] = u
<1>1. CASE HasRow(u)
  BY <1>1, Rows DEF RequestOf, OnboardInv, RequestsNameTheirUser, Row
<1>2. CASE ~HasRow(u)
  BY <1>2, OnboardingAssumption DEF RequestOf, OnboardInv, OnboardTypeOK, Request
<1> QED BY <1>1, <1>2

LEMMA BeginStartKeeps ==
    ASSUME OnboardInv, NEW c \in Starters, NEW u \in Applicants, BeginStart(c, u)
    PROVE  OnboardInv'
<1> DEFINE start == [at |-> "link", user |-> u, request |-> RequestOf(u)]
<1>1. start \in Start /\ start.request[1] = start.user
  BY RequestOfUser DEF Start
<1>2. linking' = [linking EXCEPT ![c] = start] /\ UNCHANGED <<merchants, news, entered, second>>
  BY DEF BeginStart
<1> HIDE DEF start
<1> QED BY <1>1, <1>2 DEF OnboardInv, OnboardTypeOK, RequestsNameTheirUser, NumbersDiffer,
           CompletedHaveNumbers, HasRow, Completed

LEMMA NetInURLKeeps ==
    ASSUME OnboardInv, NEW c \in Starters, NetInURL(c) \/ NetInFails(c)
    PROVE  OnboardInv'
<1>1. UNCHANGED <<merchants, news, entered, second>>
  BY DEF NetInURL, NetInFails
<1>2. linking[c] \in Start /\ linking[c].request[1] = linking[c].user
  BY DEF OnboardInv, OnboardTypeOK, RequestsNameTheirUser, NetInURL, NetInFails, IdleStart
<1>3. PICK start : /\ linking' = [linking EXCEPT ![c] = start]
                   /\ start = IdleStart \/ (start \in Start /\ start.request[1] = start.user)
  BY <1>2 DEF NetInURL, NetInFails, Start, OnboardInv, OnboardTypeOK
<1> QED BY <1>1, <1>3 DEF OnboardInv, OnboardTypeOK, RequestsNameTheirUser, NumbersDiffer,
           CompletedHaveNumbers, HasRow, Completed, IdleStart

\* What a write of one row must be for the rows to stay as they should.
LEMMA WritingARow ==
    ASSUME OnboardInv, NEW u \in Applicants, NEW r \in Row,
           merchants' = [merchants EXCEPT ![u] = r],
           UNCHANGED <<news, second>>,
           entered' \in Seq([user : Applicants, number : Applicants]),
           linking' \in [Starters -> {IdleStart} \cup Start],
           \A c \in Starters : linking'[c] = linking[c] \/ linking'[c] = IdleStart,
           r.request[1] = u,
           r.number = NoNumber \/ Holders(r.number) \subseteq {u},
           r.status = "COMPLETED" =>
              r.number \in Applicants /\ (r.byOperator \/ r.number = u)
    PROVE  OnboardInv'
<1>1. OnboardTypeOK'
  BY DEF OnboardInv, OnboardTypeOK
<1>2. \A v \in Applicants : merchants'[v] = IF v = u THEN r ELSE merchants[v]
  BY DEF OnboardInv, OnboardTypeOK
<1>3. r.status # "none"
  BY DEF Row
<1>4. RequestsNameTheirUser'
  BY <1>2 DEF OnboardInv, RequestsNameTheirUser, HasRow, IdleStart
<1>5. CompletedHaveNumbers'
  BY <1>2 DEF OnboardInv, CompletedHaveNumbers, Completed
<1>6. NumbersDiffer'
  <2> SUFFICES ASSUME NEW v \in Applicants, NEW w \in Applicants, HasRow(v)', HasRow(w)', v # w,
                      merchants'[v].number = merchants'[w].number
               PROVE  merchants'[v].number = NoNumber
    BY DEF NumbersDiffer
  <2>1. CASE v # u /\ w # u
    BY <2>1, <1>2 DEF OnboardInv, NumbersDiffer, HasRow
  <2>2. CASE v = u
    BY <2>2, <1>2 DEF Holders, HasRow
  <2>3. CASE w = u
    BY <2>3, <1>2 DEF Holders, HasRow
  <2> QED BY <2>1, <2>2, <2>3
<1> QED BY <1>1, <1>4, <1>5, <1>6 DEF OnboardInv

LEMMA SaveLinkKeeps ==
    ASSUME OnboardInv, NEW c \in Starters, SaveLink(c)
    PROVE  OnboardInv'
<1> DEFINE u == linking[c].user
           q == linking[c].request
<1>1. u \in Applicants /\ q \in Request /\ q[1] = u
  BY DEF OnboardInv, OnboardTypeOK, RequestsNameTheirUser, SaveLink, Start, IdleStart
<1>2. /\ linking' \in [Starters -> {IdleStart} \cup Start]
      /\ \A d \in Starters : linking'[d] = linking[d] \/ linking'[d] = IdleStart
      /\ UNCHANGED <<news, entered, second>>
      /\ entered' \in Seq([user : Applicants, number : Applicants])
      /\ merchants' = Linked(u, q)
  BY DEF OnboardInv, OnboardTypeOK, SaveLink
<1> HIDE DEF u, q
<1>3. CASE HasRow(u)
  <2> DEFINE r == [merchants[u] EXCEPT !.link = q]
  <2>1. merchants[u] \in Row
    BY <1>1, <1>3, Rows DEF OnboardInv
  <2>2. /\ r \in Row /\ r.request = merchants[u].request /\ r.number = merchants[u].number
        /\ r.status = merchants[u].status /\ r.byOperator = merchants[u].byOperator
    BY <1>1, <2>1 DEF Row
  <2>3. merchants' = [merchants EXCEPT ![u] = r]
    BY <1>2, <1>3 DEF Linked
  <2> HIDE DEF r
  <2>4. r.request[1] = u
    BY <1>1, <1>3, <2>2 DEF OnboardInv, RequestsNameTheirUser
  <2>5. r.number = NoNumber \/ Holders(r.number) \subseteq {u}
    BY <1>1, <1>3, <2>2 DEF OnboardInv, NumbersDiffer, Holders
  <2>6. r.status = "COMPLETED" => r.number \in Applicants /\ (r.byOperator \/ r.number = u)
    BY <1>1, <2>2 DEF OnboardInv, CompletedHaveNumbers, Completed
  <2> QED BY <1>1, <1>2, <2>2, <2>3, <2>4, <2>5, <2>6, WritingARow
<1>4. CASE ~HasRow(u)
  <2>1. /\ NewRow(q) \in Row /\ NewRow(q).request[1] = u /\ NewRow(q).number = NoNumber
        /\ NewRow(q).status # "COMPLETED"
    BY <1>1 DEF NewRow, Row
  <2>2. merchants' = [merchants EXCEPT ![u] = NewRow(q)]
    BY <1>2, <1>4 DEF Linked
  <2> QED BY <1>1, <1>2, <2>1, <2>2, WritingARow
<1> QED BY <1>3, <1>4

LEMMA GatewayDecidesKeeps ==
    ASSUME OnboardInv, NEW asked \in NetInRequests, NEW status \in {"REJECTED", "COMPLETED"},
           GatewayDecides(asked, status)
    PROVE  OnboardInv'
<1>1. news' \subseteq [request : NetInRequests, status : {"REJECTED", "COMPLETED"}]
  BY DEF OnboardInv, OnboardTypeOK, GatewayDecides
<1> QED BY <1>1 DEF OnboardInv, OnboardTypeOK, GatewayDecides, RequestsNameTheirUser,
           NumbersDiffer, CompletedHaveNumbers, HasRow, Completed

LEMMA ApplyNetInKeeps ==
    ASSUME OnboardInv, NEW u \in Applicants, NEW n \in news, ApplyNetIn(u, n)
    PROVE  OnboardInv'
<1> DEFINE number == IF n.status = "COMPLETED" THEN n.request[1] ELSE merchants[u].number
           r == [merchants[u] EXCEPT !.status = n.status, !.number = number]
<1>1. /\ merchants[u] \in Row /\ merchants[u].request[1] = u /\ merchants[u].request = n.request
      /\ n.status \in {"REJECTED", "COMPLETED"}
  BY Rows DEF OnboardInv, OnboardTypeOK, RequestsNameTheirUser, ApplyNetIn, Awaited
<1>2. number \in Applicants \cup {NoNumber} /\ (n.status = "COMPLETED" => number = u)
  BY <1>1 DEF Row
<1>3. number = NoNumber \/ Holders(number) \subseteq {u}
  BY DEF ApplyNetIn
<1>4. merchants' = [merchants EXCEPT ![u] = r]
  BY DEF ApplyNetIn, OnboardInv, OnboardTypeOK
<1> HIDE DEF number
<1>5. /\ r \in Row /\ r.request = merchants[u].request /\ r.number = number
      /\ r.status = n.status
  BY <1>1, <1>2 DEF Row
<1> HIDE DEF r
<1>6. /\ UNCHANGED <<linking, news, entered, second>>
      /\ linking' \in [Starters -> {IdleStart} \cup Start]
      /\ entered' \in Seq([user : Applicants, number : Applicants])
  BY DEF ApplyNetIn, OnboardInv, OnboardTypeOK
<1> QED BY <1>1, <1>2, <1>3, <1>4, <1>5, <1>6, WritingARow

\* An operator's entry goes to the row of the supplier, or to one that has the number already.
LEMMA BoundRowIs ==
    ASSUME OnboardInv, NEW u \in Applicants, NEW n \in Applicants
    PROVE  /\ BoundRow(u, n) \in Applicants
           /\ BoundRow(u, n) # u => HasRow(BoundRow(u, n))
<1>1. Holders(n) \subseteq Applicants /\ \A h \in Holders(n) : HasRow(h)
  BY DEF Holders
<1>2. CASE HasRow(u) \/ Holders(n) = {}
  BY <1>2 DEF BoundRow
<1>3. CASE ~HasRow(u) /\ Holders(n) # {}
  <2>1. BoundRow(u, n) \in Holders(n)
    BY <1>3 DEF BoundRow
  <2> QED BY <1>1, <2>1
<1> QED BY <1>2, <1>3

LEMMA BindMerchantKeeps ==
    ASSUME OnboardInv, NEW u \in Applicants, NEW n \in Applicants, BindMerchant(u, n)
    PROVE  OnboardInv'
<1> DEFINE row == BoundRow(u, n)
           asked == IF HasRow(row) THEN merchants[row].request ELSE <<u, Manual>>
           link == IF HasRow(row) THEN merchants[row].link ELSE NoNumber
           r == [request |-> asked, link |-> link, status |-> "COMPLETED", number |-> n,
                 byOperator |-> TRUE]
<1>1. row \in Applicants /\ (row # u => HasRow(row))
  BY BoundRowIs
<1>2. Holders(n) \subseteq {row} /\ merchants' = [merchants EXCEPT ![row] = r]
  BY DEF BindMerchant
<1> HIDE DEF row
<1>3. asked \in Request /\ asked[1] = row /\ link \in Request \cup {NoNumber}
  <2>1. CASE HasRow(row)
    BY <1>1, <2>1, Rows DEF OnboardInv, RequestsNameTheirUser, Row
  <2>2. CASE ~HasRow(row)
    BY <1>1, <2>2 DEF Request, Manual
  <2> QED BY <2>1, <2>2
<1> HIDE DEF asked, link
<1>4. r \in Row /\ r.request = asked /\ r.number = n /\ r.byOperator
  BY <1>3 DEF Row
<1> HIDE DEF r
<1>5. /\ UNCHANGED <<linking, news, second>>
      /\ linking' \in [Starters -> {IdleStart} \cup Start]
      /\ entered' \in Seq([user : Applicants, number : Applicants])
  BY DEF BindMerchant, OnboardInv, OnboardTypeOK
<1> QED BY <1>1, <1>2, <1>3, <1>4, <1>5, WritingARow

LEMMA OnboardStepKeeps == OnboardInv /\ [OnboardNext]_onboardVars => OnboardInv'
<1> SUFFICES ASSUME OnboardInv, [OnboardNext]_onboardVars PROVE OnboardInv'
  OBVIOUS
<1> USE DEF OnboardInv, OnboardTypeOK, RequestsNameTheirUser, NumbersDiffer,
            CompletedHaveNumbers, HasRow, Completed
<1>1. CASE SecondPasses
  BY <1>1, OnboardingAssumption DEF SecondPasses
<1>2. CASE UNCHANGED onboardVars
  BY <1>2 DEF onboardVars
<1> QED BY <1>1, <1>2, BeginStartKeeps, NetInURLKeeps, SaveLinkKeeps, GatewayDecidesKeeps,
           ApplyNetInKeeps, BindMerchantKeeps DEF OnboardNext

\* What one step may do to a number that is in force.
LEMMA NumbersStay ==
    ASSUME OnboardInv, [OnboardNext]_onboardVars, NEW u \in Applicants, Completed(u)
    PROVE  /\ Completed(u)'
           /\ merchants'[u].number = merchants[u].number \/ entered' # entered
<1>0. merchants \in [Applicants -> {NoRow} \cup Row] /\ HasRow(u)
  BY Rows DEF OnboardInv, OnboardTypeOK
<1>1. CASE UNCHANGED merchants
  BY <1>1 DEF Completed
<1>2. ASSUME NEW c \in Starters, SaveLink(c)
      PROVE  Completed(u)' /\ merchants'[u].number = merchants[u].number
  <2>1. CASE linking[c].user # u
    BY <1>0, <1>2, <2>1 DEF SaveLink, Linked, Completed
  <2>2. CASE linking[c].user = u
    <3>1. merchants[u] \in Row
      BY <1>0, Rows DEF OnboardInv
    <3>2. merchants'[u] = [merchants[u] EXCEPT !.link = linking[c].request]
      BY <1>0, <1>2, <2>2 DEF SaveLink, Linked
    <3> QED BY <3>1, <3>2 DEF Completed, Row
  <2> QED BY <2>1, <2>2
<1>3. ASSUME NEW v \in Applicants, NEW n \in news, ApplyNetIn(v, n)
      PROVE  Completed(u)' /\ merchants'[u].number = merchants[u].number
  BY <1>0, <1>3 DEF ApplyNetIn, Awaited, Completed
<1>4. ASSUME NEW v \in Applicants, NEW n \in Applicants, BindMerchant(v, n)
      PROVE  Completed(u)' /\ entered' # entered
  <2>1. Completed(u)'
    BY <1>0, <1>4, BoundRowIs DEF BindMerchant, Completed
  <2>2. Len(entered') # Len(entered)
    BY <1>4 DEF BindMerchant, OnboardInv, OnboardTypeOK
  <2> QED BY <2>1, <2>2
<1>5. UNCHANGED merchants \/ (\E c \in Starters : SaveLink(c))
         \/ (\E v \in Applicants, n \in news : ApplyNetIn(v, n))
         \/ (\E v, n \in Applicants : BindMerchant(v, n))
  BY DEF OnboardNext, onboardVars, BeginStart, NetInURL, NetInFails, GatewayDecides, SecondPasses
<1> QED BY <1>1, <1>2, <1>3, <1>4, <1>5

\* Every supplier whose application is completed has a number of his own or one an operator
\* entered, no two have the same, and only an operator ever changes it, whatever the gateway
\* says, how late and how often.
THEOREM NumbersStayReliable == OnboardSpec => NumbersAreReliable
<1>1. OnboardInv => NumbersAreOwn
  <2>1. \A u \in Applicants : Completed(u) => HasRow(u)
    BY DEF Completed, HasRow
  <2> QED BY <2>1, OnboardingAssumption DEF OnboardInv, NumbersAreOwn, NumbersDiffer,
             CompletedHaveNumbers
<1>2. OnboardInv /\ [OnboardNext]_onboardVars =>
        [\A u \in Applicants : Completed(u) =>
           /\ Completed(u)'
           /\ merchants'[u].number = merchants[u].number \/ entered' # entered]_onboardVars
  BY NumbersStay
<1> QED BY <1>1, <1>2, OnboardBegins, OnboardStepKeeps, PTL
        DEF OnboardSpec, NumbersAreReliable, NumbersAreKept

-----------------------------------------------------------------------------
(* Leads and their commissions *)

Commission == [lead : Nat, round : Nat, by : LeadVendors]

LeadTypes ==
    /\ leads \in Seq(Lead) /\ commissions \in Seq(Commission)
    /\ rateHits \in [LeadUsers -> Seq(Nat)] /\ clock \in Nat /\ restarts \in Nat

\* Nothing has happened later than now, and each hit came after those before it.
LeadTimes ==
    /\ \A l \in DOMAIN leads : leads[l].at <= clock
    /\ \A u \in LeadUsers : \A i, j \in DOMAIN rateHits[u] :
          rateHits[u][i] <= clock /\ (i <= j => rateHits[u][i] <= rateHits[u][j])

FormLead(u, l) == leads[l].by = u /\ leads[l].source = "form"
LeftSince(u, s) == {l \in DOMAIN leads : FormLead(u, l) /\ leads[l].at >= s}
LeftWithin(u, t) == {l \in DOMAIN leads : FormLead(u, l) /\ leads[l].at \in (t - RateWindow + 1)..t}
HitsSince(u, s) == {i \in DOMAIN rateHits[u] : rateHits[u][i] >= s}

\* No more hits than the limit are younger than the window; a lead of the form has cost one in
\* this life of the server, or was left in an earlier one.
HitsAreLimited ==
    \A u \in LeadUsers, s \in Int : s > clock - RateWindow =>
        /\ Cardinality(HitsSince(u, s)) <= RateMax
        /\ Cardinality(LeftSince(u, s)) <= RateMax * restarts + Cardinality(HitsSince(u, s))

\* Who follows a lead is the one it was given to last.
InTurn(l) ==
    leads[l].status \in {"assigned", "quoted"} =>
        LET given == leads[l].given IN given # <<>> /\ given[Len(given)] = leads[l].assignee

\* What is booked of a round is of the vendor of that round; the last round of a lead that can
\* be closed has booked nothing.
Earned(c) ==
    LET deal == commissions[c]
        l == deal.lead
    IN  /\ l \in DOMAIN leads
        /\ deal.round \in DOMAIN leads[l].given /\ leads[l].given[deal.round] = deal.by
        /\ leads[l].status \in {"assigned", "quoted"} => deal.round # Len(leads[l].given)

Once(c, d) ==
    c # d => <<commissions[c].lead, commissions[c].round>>
                # <<commissions[d].lead, commissions[d].round>>

RoundsAreBooked ==
    /\ \A l \in DOMAIN leads : InTurn(l)
    /\ \A c \in DOMAIN commissions : Earned(c)
    /\ \A c, d \in DOMAIN commissions : Once(c, d)

LeadsInv ==
    LeadTypes /\ LeadTimes /\ HitsAreLimited /\ LeadsAreLimited /\ RoundsAreBooked

\* The hits and the leads of a set of positions can be counted.
LEMMA LeadsAreFinite ==
    ASSUME LeadTypes, NEW u \in LeadUsers, NEW s \in Int
    PROVE  /\ IsFiniteSet(LeftSince(u, s)) /\ Cardinality(LeftSince(u, s)) \in Nat
           /\ IsFiniteSet(LeftWithin(u, s)) /\ Cardinality(LeftWithin(u, s)) \in Nat
           /\ IsFiniteSet(HitsSince(u, s)) /\ Cardinality(HitsSince(u, s)) \in Nat
<1>1. /\ DOMAIN leads = 1..Len(leads) /\ Len(leads) \in Nat
      /\ DOMAIN rateHits[u] = 1..Len(rateHits[u]) /\ Len(rateHits[u]) \in Nat
  BY DEF LeadTypes
<1>2. /\ LeftSince(u, s) \in SUBSET (1..Len(leads)) /\ LeftWithin(u, s) \in SUBSET (1..Len(leads))
      /\ HitsSince(u, s) \in SUBSET (1..Len(rateHits[u]))
  BY <1>1 DEF LeftSince, LeftWithin, HitsSince
<1>3. IsFiniteSet(1..Len(leads)) /\ IsFiniteSet(1..Len(rateHits[u]))
  <2>1. ASSUME NEW n \in Nat PROVE IsFiniteSet(1..n)
    <3>1. n \in Int /\ 1 \in Int
      OBVIOUS
    <3> QED BY <3>1, FS_Interval
  <2> QED BY <1>1, <2>1
<1>4. IsFiniteSet(LeftSince(u, s)) /\ IsFiniteSet(LeftWithin(u, s)) /\ IsFiniteSet(HitsSince(u, s))
  BY <1>2, <1>3, FS_Subset
<1> QED BY <1>4, FS_CardinalityType

\* What is before the rest and can be counted is a beginning.
LEMMA Beginning ==
    ASSUME NEW n \in Nat, NEW S \in SUBSET (1..n),
           \A i \in S, j \in 1..n : j <= i => j \in S
    PROVE  Cardinality(S) \in 0..n /\ S = 1..Cardinality(S)
<1> DEFINE T == (1..(n + 1)) \ S
<1>1. T \in SUBSET Nat /\ T # {}
  <2>1. n + 1 \in T
    OBVIOUS
  <2> QED BY <2>1
<1>2. PICK m \in T : \A x \in T : m <= x
  BY <1>1, LeastNumber
<1>3. m \in 1..(n + 1) /\ m \notin S
  OBVIOUS
<1>4. ASSUME NEW i \in 1..(m - 1) PROVE i \in S
  <2>1. i \in 1..(n + 1) /\ ~(m <= i)
    BY <1>3
  <2> QED BY <1>2, <2>1
<1>5. ASSUME NEW i \in S PROVE i \in 1..(m - 1)
  <2>1. i \in 1..n
    OBVIOUS
  <2>2. SUFFICES ASSUME m <= i PROVE FALSE
    BY <1>3, <2>1
  <2>3. m \in 1..n
    BY <1>3, <2>1, <2>2
  <2> QED BY <1>3, <2>2, <2>3
<1>6. S = 1..(m - 1)
  BY <1>4, <1>5
<1>7. Cardinality(1..(m - 1)) = m - 1
  <2>1. m - 1 \in Int /\ m >= 1
    BY <1>3
  <2>2. Cardinality(1..(m - 1)) = IF 1 > m - 1 THEN 0 ELSE (m - 1) - 1 + 1
    BY <2>1, FS_Interval
  <2> QED BY <2>1, <2>2
<1> QED BY <1>3, <1>6, <1>7

\* What is kept of the hits is a part of the row, and has all that are younger than the window.
LEMMA KeptAreYoung ==
    ASSUME LeadTypes, LeadTimes, NEW u \in LeadUsers
    PROVE  /\ Kept(u) \in Seq(Nat)
           /\ \E k \in Nat : /\ \A i \in DOMAIN Kept(u) :
                                  i + k \in DOMAIN rateHits[u] /\ Kept(u)[i] = rateHits[u][i + k]
                             /\ \A i \in DOMAIN rateHits[u] :
                                  rateHits[u][i] > clock - RateWindow =>
                                     i - k \in DOMAIN Kept(u)
<1> DEFINE h == rateHits[u]
           n == Len(h)
           old == {i \in DOMAIN h : h[i] <= clock - RateWindow}
           k == Cardinality(old)
<1>1. h \in Seq(Nat) /\ n \in Nat /\ DOMAIN h = 1..n /\ clock \in Nat /\ RateWindow \in Nat \ {0}
  BY LeadsAssumption DEF LeadTypes
<1>2. \A i \in 1..n : h[i] \in Nat
  BY <1>1
<1>3. \A i, j \in 1..n : i <= j => h[i] <= h[j]
  BY <1>1 DEF LeadTimes
<1>4. Kept(u) = SubSeq(h, k + 1, n)
  BY DEF Kept
<1>5. \A i \in 1..n : i \in old <=> h[i] <= clock - RateWindow
  BY <1>1
<1>6. old \in SUBSET (1..n)
  BY <1>1
<1> HIDE DEF h, n, old, k
<1>7. ASSUME NEW i \in old, NEW j \in 1..n, j <= i PROVE j \in old
  <2>1. i \in 1..n /\ h[i] <= clock - RateWindow /\ h[j] <= h[i] /\ h[i] \in Nat /\ h[j] \in Nat
    BY <1>2, <1>3, <1>5, <1>6, <1>7
  <2>2. h[j] <= clock - RateWindow
    BY <1>1, <2>1
  <2> QED BY <1>5, <2>2
<1>8. k \in 0..n /\ old = 1..k
  BY <1>1, <1>6, <1>7, Beginning DEF k
<1>9. /\ SubSeq(h, k + 1, n) \in Seq(Nat)
      /\ Len(SubSeq(h, k + 1, n)) = IF k + 1 <= n THEN n - (k + 1) + 1 ELSE 0
      /\ \A i \in 1..(n - (k + 1) + 1) : SubSeq(h, k + 1, n)[i] = h[k + 1 + i - 1]
  <2>1. k + 1 \in Int /\ n \in Int /\ \A i \in (k + 1)..n : h[i] \in Nat
    BY <1>1, <1>2, <1>8
  <2> QED BY <2>1, SubSeqProperties
<1>10. /\ Kept(u) \in Seq(Nat) /\ DOMAIN Kept(u) = 1..(n - k)
       /\ \A i \in 1..(n - k) : Kept(u)[i] = h[i + k]
  <2>1. Len(Kept(u)) = n - k
    BY <1>1, <1>4, <1>8, <1>9
  <2>2. DOMAIN Kept(u) = 1..(n - k)
    BY <1>4, <1>9, <2>1
  <2>3. ASSUME NEW i \in 1..(n - k) PROVE Kept(u)[i] = h[i + k]
    <3>1. k + 1 + i - 1 = i + k /\ i \in 1..(n - (k + 1) + 1)
      BY <1>1, <1>8
    <3> QED BY <1>4, <1>9, <3>1
  <2> QED BY <1>4, <1>9, <2>2, <2>3
<1>11. \A i \in 1..(n - k) : i + k \in 1..n
  BY <1>1, <1>8
<1>12. ASSUME NEW i \in 1..n, h[i] > clock - RateWindow PROVE i - k \in 1..(n - k)
  <2>1. i \notin 1..k
    BY <1>1, <1>2, <1>5, <1>8, <1>12
  <2> QED BY <1>1, <1>8, <2>1
<1>13. k \in Nat
  BY <1>8
<1> QED BY <1>1, <1>10, <1>11, <1>12, <1>13 DEF h

\* A hit more: the limit holds, in order, and every window has one more.
LEMMA HitCounts ==
    ASSUME LeadTypes, LeadTimes, HitsAreLimited, NEW u \in LeadUsers, AllowLeadRate(u),
           NEW hits, hits = Append(Kept(u), clock)
    PROVE  /\ hits \in Seq(Nat)
           /\ \A i, j \in DOMAIN hits : hits[i] <= clock /\ (i <= j => hits[i] <= hits[j])
           /\ \A s \in Int :
                LET young == {i \in DOMAIN hits : hits[i] >= s} IN
                /\ IsFiniteSet(young) /\ Cardinality(young) \in Nat
                /\ Cardinality(young) <= RateMax
                /\ s > clock - RateWindow /\ s <= clock =>
                      Cardinality(young) >= Cardinality(HitsSince(u, s)) + 1
<1> DEFINE h == rateHits[u]
           m == Len(Kept(u))
<1>1. /\ h \in Seq(Nat) /\ clock \in Nat /\ RateWindow \in Nat \ {0} /\ RateMax \in Nat
      /\ \A i \in DOMAIN h : h[i] \in Nat /\ h[i] <= clock
      /\ \A i, j \in DOMAIN h : i <= j => h[i] <= h[j]
  BY LeadsAssumption DEF LeadTypes, LeadTimes
<1>2. PICK k \in Nat :
        /\ \A i \in DOMAIN Kept(u) : i + k \in DOMAIN h /\ Kept(u)[i] = h[i + k]
        /\ \A i \in DOMAIN h : h[i] > clock - RateWindow => i - k \in DOMAIN Kept(u)
  BY KeptAreYoung
<1>3. Kept(u) \in Seq(Nat) /\ m \in Nat /\ DOMAIN Kept(u) = 1..m
  BY KeptAreYoung
<1>4. m < RateMax
  BY DEF AllowLeadRate
<1>5. DOMAIN h \in SUBSET Nat
  BY <1>1
<1> HIDE DEF h, m
<1>6. /\ hits \in Seq(Nat) /\ DOMAIN hits = 1..(m + 1) /\ hits[m + 1] = clock
      /\ \A i \in 1..m : hits[i] = Kept(u)[i]
  <2>1. /\ Append(Kept(u), clock) \in Seq(Nat) /\ Len(Append(Kept(u), clock)) = m + 1
        /\ \A i \in 1..m : Append(Kept(u), clock)[i] = Kept(u)[i]
        /\ Append(Kept(u), clock)[m + 1] = clock
    BY <1>1, <1>3, AppendProperties DEF m
  <2>2. ASSUME NEW row \in Seq(Nat), Len(row) = m + 1 PROVE DOMAIN row = 1..(m + 1)
    BY <2>2
  <2>3. DOMAIN Append(Kept(u), clock) = 1..(m + 1)
    BY <2>1, <2>2, Zenon
  <2> QED BY <2>1, <2>3, Zenon
<1>7. \A i \in 1..m : i + k \in DOMAIN h /\ hits[i] = h[i + k]
  BY <1>2, <1>3, <1>6
<1>8. ASSUME NEW i \in 1..(m + 1), NEW j \in 1..(m + 1)
      PROVE  hits[i] \in Nat /\ hits[i] <= clock /\ (i <= j => hits[i] <= hits[j])
  <2>1. CASE i = m + 1
    <3>1. i <= j => j = m + 1
      BY <1>3, <2>1
    <3> QED BY <1>1, <1>6, <2>1, <3>1
  <2>2. CASE i # m + 1
    <3>1. i \in 1..m /\ i + k \in DOMAIN h /\ hits[i] = h[i + k]
      BY <1>3, <1>7, <2>2
    <3>2. hits[i] \in Nat /\ hits[i] <= clock
      BY <1>1, <3>1
    <3>3. CASE j = m + 1
      BY <1>6, <3>2, <3>3
    <3>4. CASE j # m + 1
      <4>1. j \in 1..m /\ j + k \in DOMAIN h /\ hits[j] = h[j + k]
        BY <1>3, <1>7, <3>4
      <4>2. i <= j => i + k <= j + k
        BY <1>2, <3>1, <4>1
      <4> QED BY <1>1, <3>1, <3>2, <4>1, <4>2
    <3> QED BY <3>3, <3>4
  <2> QED BY <2>1, <2>2
<1>9. ASSUME NEW s \in Int
      PROVE  LET young == {i \in DOMAIN hits : hits[i] >= s} IN
             /\ IsFiniteSet(young) /\ Cardinality(young) \in Nat
             /\ Cardinality(young) <= RateMax
             /\ s > clock - RateWindow /\ s <= clock =>
                   Cardinality(young) >= Cardinality(HitsSince(u, s)) + 1
  <2> DEFINE young == {i \in DOMAIN hits : hits[i] >= s}
             S == HitsSince(u, s)
  <2>1. young \in SUBSET (1..(m + 1))
    BY <1>6
  <2>2. IsFiniteSet(1..(m + 1)) /\ Cardinality(1..(m + 1)) = m + 1
    <3>1. m + 1 \in Int /\ ~(1 > m + 1)
      BY <1>3
    <3>2. /\ IsFiniteSet(1..(m + 1))
          /\ Cardinality(1..(m + 1)) = IF 1 > m + 1 THEN 0 ELSE (m + 1) - 1 + 1
      BY <3>1, FS_Interval
    <3> QED BY <1>3, <3>1, <3>2
  <2>3. \A i \in 1..(m + 1) : i \in young <=> hits[i] >= s
    BY <1>6
  <2>4. \A i \in DOMAIN h : i \in S <=> h[i] >= s
    BY DEF HitsSince, h
  <2>5. S \in SUBSET (DOMAIN h)
    BY DEF HitsSince, h
  <2> HIDE DEF young, S
  <2>6. IsFiniteSet(young) /\ Cardinality(young) <= m + 1
    BY <2>1, <2>2, FS_Subset
  <2>7. Cardinality(young) \in Nat
    BY <2>6, FS_CardinalityType
  <2>8. Cardinality(young) <= RateMax
    BY <1>1, <1>3, <1>4, <2>6, <2>7
  <2>9. ASSUME s > clock - RateWindow, s <= clock
        PROVE  Cardinality(young) >= Cardinality(S) + 1
    <3> DEFINE T == young \ {m + 1}
               f == [i \in S |-> i - k]
    <3>1. m + 1 \in young
      <4>1. m + 1 \in 1..(m + 1)
        BY <1>3
      <4> QED BY <1>6, <2>3, <2>9, <4>1
    <3>2. IsFiniteSet(T) /\ Cardinality(T) = Cardinality(young) - 1
      BY <2>6, <3>1, FS_RemoveElement
    <3>3. ASSUME NEW i \in S PROVE i - k \in T /\ i \in Nat
      <4>1. i \in DOMAIN h /\ h[i] >= s /\ h[i] \in Nat /\ i \in Nat
        BY <1>1, <1>5, <2>4, <2>5
      <4>2. h[i] > clock - RateWindow
        BY <1>1, <2>9, <4>1
      <4>3. i - k \in 1..m
        BY <1>2, <1>3, <4>1, <4>2
      <4>4. hits[i - k] = h[(i - k) + k]
        BY <1>7, <4>3
      <4>5. (i - k) + k = i
        BY <1>2, <4>1
      <4>6. i - k \in young
        <5>1. i - k \in 1..(m + 1)
          BY <1>3, <4>3
        <5> QED BY <2>3, <4>1, <4>4, <4>5, <5>1
      <4>7. i - k # m + 1
        BY <1>3, <4>3
      <4> QED BY <4>1, <4>6, <4>7
    <3> HIDE DEF T
    <3>4. f \in Injection(S, T)
      <4>1. f \in [S -> T]
        BY <3>3
      <4>2. ASSUME NEW a \in S, NEW b \in S, f[a] = f[b] PROVE a = b
        <5>1. a \in Nat /\ b \in Nat /\ a - k = b - k
          BY <3>3, <4>2
        <5> QED BY <1>2, <5>1
      <4>3. IsInjective(f)
        BY <4>2 DEF IsInjective
      <4> QED BY <4>1, <4>3 DEF Injection
    <3> HIDE DEF f
    <3>5. Cardinality(S) <= Cardinality(T) /\ IsFiniteSet(S)
      BY <3>2, <3>4, FS_Injection
    <3>6. Cardinality(S) \in Nat
      BY <3>5, FS_CardinalityType
    <3> QED BY <2>7, <3>2, <3>5, <3>6
  <2> QED BY <2>6, <2>7, <2>8, <2>9 DEF young, S
<1> QED BY <1>6, <1>8, <1>9

\* Who leaves no lead of the form within a window has as many there as before.
LEMMA SameWithin ==
    ASSUME LeadTypes, LeadTypes', NEW u \in LeadUsers, NEW S \in SUBSET Int,
           \A l \in DOMAIN leads' : FormLead(u, l)' /\ leads'[l].at \in S =>
              l \in DOMAIN leads /\ FormLead(u, l) /\ leads[l].at = leads'[l].at
    PROVE  Cardinality({l \in DOMAIN leads' : FormLead(u, l)' /\ leads'[l].at \in S})
             <= Cardinality({l \in DOMAIN leads : FormLead(u, l) /\ leads[l].at \in S})
<1> DEFINE old == {l \in DOMAIN leads : FormLead(u, l) /\ leads[l].at \in S}
           new == {l \in DOMAIN leads' : FormLead(u, l)' /\ leads'[l].at \in S}
<1>1. new \in SUBSET old
  OBVIOUS
<1>2. old \in SUBSET (1..Len(leads)) /\ Len(leads) \in Nat
  BY DEF LeadTypes
<1> HIDE DEF old, new
<1>3. IsFiniteSet(1..Len(leads))
  BY <1>2, FS_Interval
<1>4. IsFiniteSet(old)
  BY <1>2, <1>3, FS_Subset
<1>5. Cardinality(new) <= Cardinality(old)
  BY <1>1, <1>4, FS_Subset
<1> QED BY <1>5 DEF old, new

\* The window that ends now holds no more leads than the limit allows in each life.
LEMMA WindowNow ==
    ASSUME LeadTypes, LeadTimes, HitsAreLimited, NEW u \in LeadUsers
    PROVE  Cardinality(LeftWithin(u, clock)) <= RateMax * (1 + restarts)
<1>1. clock \in Nat /\ restarts \in Nat /\ RateMax \in Nat /\ RateWindow \in Nat \ {0}
  BY LeadsAssumption DEF LeadTypes
<1> DEFINE s == clock - RateWindow + 1
<1>2. s \in Int /\ s > clock - RateWindow
  BY <1>1
<1> HIDE DEF s
<1>3. /\ Cardinality(HitsSince(u, s)) <= RateMax
      /\ Cardinality(LeftSince(u, s)) <= RateMax * restarts + Cardinality(HitsSince(u, s))
  BY <1>2 DEF HitsAreLimited
<1>4. LeftWithin(u, clock) \in SUBSET LeftSince(u, s)
  <2>1. ASSUME NEW l \in DOMAIN leads, leads[l].at \in (clock - RateWindow + 1)..clock
        PROVE  leads[l].at >= s
    BY <2>1 DEF s
  <2> QED BY <2>1 DEF LeftWithin, LeftSince
<1>5. /\ IsFiniteSet(LeftSince(u, s)) /\ Cardinality(LeftSince(u, s)) \in Nat
      /\ Cardinality(HitsSince(u, s)) \in Nat /\ Cardinality(LeftWithin(u, clock)) \in Nat
  BY <1>1, <1>2, LeadsAreFinite
<1>6. Cardinality(LeftWithin(u, clock)) <= Cardinality(LeftSince(u, s))
  BY <1>4, <1>5, FS_Subset
<1>7. RateMax * restarts + RateMax = RateMax * (1 + restarts) /\ RateMax * restarts \in Nat
  BY <1>1
<1> QED BY <1>1, <1>3, <1>5, <1>6, <1>7

\* The window now is what the hits allow; it is enough to look at those before.
LeadsWereLimited ==
    \A u \in LeadUsers, t \in 0..clock :
        t # clock => Cardinality(LeftWithin(u, t)) <= RateMax * (1 + restarts)

LEMMA WindowsBefore ==
    LeadTypes /\ LeadTimes /\ HitsAreLimited /\ LeadsWereLimited => LeadsAreLimited
<1> SUFFICES ASSUME LeadTypes, LeadTimes, HitsAreLimited, LeadsWereLimited PROVE LeadsAreLimited
  OBVIOUS
<1>1. ASSUME NEW u \in LeadUsers, NEW t \in 0..clock
      PROVE  Cardinality(LeftWithin(u, t)) <= RateMax * (1 + restarts)
  <2>1. CASE t = clock
    BY <2>1, WindowNow
  <2>2. CASE t # clock
    BY <2>2 DEF LeadsWereLimited
  <2> QED BY <2>1, <2>2
<1>2. ASSUME NEW u \in LeadUsers, NEW t \in 0..clock
      PROVE  LeftWithin(u, t) =
               {l \in DOMAIN leads : /\ leads[l].by = u /\ leads[l].source = "form"
                                     /\ leads[l].at \in (t - RateWindow + 1)..t}
  BY DEF LeftWithin, FormLead
<1> QED BY <1>1, <1>2 DEF LeadsAreLimited

\* And back: what LeadsAreLimited says of a window.
LEMMA WindowsAre ==
    ASSUME LeadsAreLimited, NEW u \in LeadUsers, NEW t \in 0..clock
    PROVE  Cardinality(LeftWithin(u, t)) <= RateMax * (1 + restarts)
<1>1. LeftWithin(u, t) =
        {l \in DOMAIN leads : /\ leads[l].by = u /\ leads[l].source = "form"
                              /\ leads[l].at \in (t - RateWindow + 1)..t}
  BY DEF LeftWithin, FormLead
<1> QED BY <1>1 DEF LeadsAreLimited

LEMMA LeadsBeginWell == LeadsInit => LeadsInv
<1> SUFFICES ASSUME LeadsInit PROVE LeadsInv
  OBVIOUS
<1>1. leads = <<>> /\ commissions = <<>> /\ rateHits = [u \in LeadUsers |-> <<>>]
      /\ clock = 0 /\ restarts = 0
  BY DEF LeadsInit
<1>2. LeadTypes
  <2>1. leads \in Seq(Lead) /\ commissions \in Seq(Commission) /\ <<>> \in Seq(Nat)
    BY <1>1
  <2> QED BY <1>1, <2>1 DEF LeadTypes
<1>3. LeadTimes
  BY <1>1 DEF LeadTimes
<1>4. ASSUME NEW u \in LeadUsers, NEW s \in Int
      PROVE  HitsSince(u, s) = {} /\ LeftSince(u, s) = {}
  BY <1>1 DEF HitsSince, LeftSince
<1>5. HitsAreLimited
  <2>1. RateMax \in Nat /\ RateMax * restarts = 0
    BY <1>1, LeadsAssumption
  <2>2. ASSUME NEW u \in LeadUsers, NEW s \in Int
        PROVE  Cardinality(HitsSince(u, s)) = 0 /\ Cardinality(LeftSince(u, s)) = 0
    BY <1>4, FS_EmptySet
  <2> QED BY <2>1, <2>2 DEF HitsAreLimited
<1>6. LeadsAreLimited
  <2>1. \A t \in 0..clock : t = clock
    BY <1>1
  <2> QED BY <1>2, <1>3, <1>5, <2>1, WindowsBefore DEF LeadsWereLimited
<1>7. RoundsAreBooked
  BY <1>1 DEF RoundsAreBooked
<1> QED BY <1>2, <1>3, <1>5, <1>6, <1>7 DEF LeadsInv

\* A lead more, as it is.
LEMMA LeadInserted ==
    ASSUME LeadTypes, NEW u \in LeadUsers, NEW source \in {"form", "product_inquiry"},
           InsertLead(u, source)
    PROVE  /\ leads' \in Seq(Lead) /\ Len(leads) + 1 \notin DOMAIN leads
           /\ DOMAIN leads' = DOMAIN leads \cup {Len(leads) + 1}
           /\ \A l \in DOMAIN leads : leads'[l] = leads[l]
           /\ leads'[Len(leads) + 1] = NewLead(u, source)
<1>1. leads \in Seq(Lead) /\ Len(leads) \in Nat /\ DOMAIN leads = 1..Len(leads) /\ clock \in Nat
  BY DEF LeadTypes
<1>2. leads' = Append(leads, NewLead(u, source))
  BY DEF InsertLead
<1>3. NewLead(u, source) \in Lead
  BY <1>1 DEF NewLead, Lead
<1> DEFINE new == NewLead(u, source)
<1> HIDE DEF new
<1>4. /\ Append(leads, new) \in Seq(Lead) /\ Len(Append(leads, new)) = Len(leads) + 1
      /\ \A i \in 1..Len(leads) : Append(leads, new)[i] = leads[i]
      /\ Append(leads, new)[Len(leads) + 1] = new
  BY <1>1, <1>3, AppendProperties DEF new
<1>5. ASSUME NEW row \in Seq(Lead), Len(row) = Len(leads) + 1
      PROVE  DOMAIN row = 1..(Len(leads) + 1)
  BY <1>5
<1>6. DOMAIN Append(leads, new) = 1..(Len(leads) + 1)
  BY <1>4, <1>5, Zenon
<1>7. 1..(Len(leads) + 1) = DOMAIN leads \cup {Len(leads) + 1} /\ Len(leads) + 1 \notin DOMAIN leads
  BY <1>1
<1>8. leads' = Append(leads, new)
  BY <1>2 DEF new
<1>9. DOMAIN leads' = DOMAIN leads \cup {Len(leads) + 1}
  BY <1>6, <1>7, <1>8, Zenon
<1>10. \A l \in DOMAIN leads : leads'[l] = leads[l]
  BY <1>1, <1>4, <1>8, Zenon
<1> QED BY <1>4, <1>7, <1>8, <1>9, <1>10, Zenon DEF new

\* A lead more has booked nothing.
LEMMA RoundsOfMore ==
    ASSUME LeadTypes, RoundsAreBooked, NEW u \in LeadUsers,
           NEW source \in {"form", "product_inquiry"}, InsertLead(u, source),
           commissions' = commissions
    PROVE  RoundsAreBooked'
<1> DEFINE n == Len(leads) + 1
<1>1. /\ n \notin DOMAIN leads /\ DOMAIN leads' = DOMAIN leads \cup {n}
      /\ \A l \in DOMAIN leads : leads'[l] = leads[l]
      /\ leads'[n].status = "new"
  <2>1. /\ n \notin DOMAIN leads /\ DOMAIN leads' = DOMAIN leads \cup {n}
        /\ \A l \in DOMAIN leads : leads'[l] = leads[l]
        /\ leads'[n] = NewLead(u, source)
    BY LeadInserted, Zenon
  <2> QED BY <2>1 DEF NewLead
<1> HIDE DEF n
<1>2. ASSUME NEW l \in DOMAIN leads' PROVE InTurn(l)'
  BY <1>1 DEF InTurn, RoundsAreBooked
<1>3. ASSUME NEW c \in DOMAIN commissions' PROVE Earned(c)'
  BY <1>1 DEF Earned, RoundsAreBooked
<1>4. ASSUME NEW c \in DOMAIN commissions', NEW d \in DOMAIN commissions' PROVE Once(c, d)'
  BY DEF Once, RoundsAreBooked
<1> QED BY <1>2, <1>3, <1>4 DEF RoundsAreBooked

\* Who inquires about a product leaves no lead of the form.
LEMMA InquiriesKeep ==
    ASSUME LeadsInv, NEW u \in LeadUsers, InquireProduct(u)
    PROVE  LeadsInv'
<1> USE DEF LeadsInv
<1> DEFINE n == Len(leads) + 1
<1>0. InsertLead(u, "product_inquiry") /\ commissions' = commissions
  BY DEF InquireProduct
<1>1. /\ leads' \in Seq(Lead) /\ n \notin DOMAIN leads /\ DOMAIN leads' = DOMAIN leads \cup {n}
      /\ \A l \in DOMAIN leads : leads'[l] = leads[l]
      /\ leads'[n].source = "product_inquiry" /\ leads'[n].at = clock
  <2>1. /\ leads' \in Seq(Lead) /\ n \notin DOMAIN leads /\ DOMAIN leads' = DOMAIN leads \cup {n}
        /\ \A l \in DOMAIN leads : leads'[l] = leads[l]
        /\ leads'[n] = NewLead(u, "product_inquiry")
    BY <1>0, LeadInserted, Zenon
  <2> QED BY <2>1 DEF NewLead
<1>2. UNCHANGED <<commissions, rateHits, clock, restarts>>
  BY DEF InquireProduct
<1> HIDE DEF n
<1>3. LeadTypes'
  BY <1>1, <1>2 DEF LeadTypes
<1>4. LeadTimes'
  <2>1. \A l \in DOMAIN leads' : leads'[l].at <= clock'
    BY <1>1, <1>2 DEF LeadTimes, LeadTypes
  <2> QED BY <1>2, <2>1 DEF LeadTimes
<1>5. ASSUME NEW v \in LeadUsers, NEW l
      PROVE  l \in DOMAIN leads' /\ FormLead(v, l)' <=> l \in DOMAIN leads /\ FormLead(v, l)
  BY <1>1 DEF FormLead
<1>6. ASSUME NEW v \in LeadUsers, NEW s \in Int
      PROVE  LeftSince(v, s)' = LeftSince(v, s) /\ HitsSince(v, s)' = HitsSince(v, s)
  <2>1. LeftSince(v, s)' = LeftSince(v, s)
    BY <1>1, <1>5 DEF LeftSince
  <2>2. HitsSince(v, s)' = HitsSince(v, s)
    BY <1>2 DEF HitsSince
  <2> QED BY <2>1, <2>2
<1>7. HitsAreLimited'
  <2>1. ASSUME NEW v \in LeadUsers, NEW s \in Int, s > clock - RateWindow
        PROVE  /\ Cardinality(HitsSince(v, s)') <= RateMax
               /\ Cardinality(LeftSince(v, s)') <= RateMax * restarts + Cardinality(HitsSince(v, s)')
    BY <1>6, <2>1 DEF HitsAreLimited
  <2> QED BY <1>2, <2>1 DEF HitsAreLimited
<1>8. LeadsAreLimited'
  <2>1. ASSUME NEW v \in LeadUsers, NEW t \in 0..clock'
        PROVE  Cardinality(LeftWithin(v, t)') <= RateMax * (1 + restarts')
    <3>1. LeftWithin(v, t)' = LeftWithin(v, t)
      BY <1>1, <1>5 DEF LeftWithin
    <3> QED BY <1>2, <2>1, <3>1, WindowsAre
  <2>2. LeadsWereLimited'
    BY <2>1 DEF LeadsWereLimited
  <2> QED BY <1>3, <1>4, <1>7, <2>2, WindowsBefore, PTL
<1>9. RoundsAreBooked'
  BY <1>0, <1>2, RoundsOfMore, Zenon
<1> QED BY <1>3, <1>4, <1>7, <1>8, <1>9

\* A submission costs a hit in every window that has not ended.
HitMore(u, v, s) == IF v = u /\ s <= clock THEN 1 ELSE 0

LEMMA HitTaken ==
    ASSUME LeadsInv, NEW u \in LeadUsers, AllowLeadRate(u),
           rateHits' = [rateHits EXCEPT ![u] = Append(Kept(u), clock)]
    PROVE  /\ rateHits' \in [LeadUsers -> Seq(Nat)]
           /\ \A v \in LeadUsers : \A i, j \in DOMAIN rateHits'[v] :
                 rateHits'[v][i] <= clock /\ (i <= j => rateHits'[v][i] <= rateHits'[v][j])
           /\ \A v \in LeadUsers, s \in Int : s > clock - RateWindow =>
                 /\ Cardinality(HitsSince(v, s)') <= RateMax
                 /\ Cardinality(HitsSince(v, s)') \in Nat
                 /\ Cardinality(HitsSince(v, s)')
                       >= Cardinality(HitsSince(v, s)) + HitMore(u, v, s)
<1> USE DEF LeadsInv
<1> DEFINE hits == Append(Kept(u), clock)
           young(s) == {i \in DOMAIN hits : hits[i] >= s}
<1>1. /\ hits \in Seq(Nat)
      /\ \A i, j \in DOMAIN hits : hits[i] <= clock /\ (i <= j => hits[i] <= hits[j])
      /\ \A s \in Int :
            /\ Cardinality(young(s)) \in Nat /\ Cardinality(young(s)) <= RateMax
            /\ s > clock - RateWindow /\ s <= clock =>
                  Cardinality(young(s)) >= Cardinality(HitsSince(u, s)) + 1
  <2>1. \E row : row = hits
    OBVIOUS
  <2>2. PICK row : row = hits
    BY <2>1
  <2>3. /\ row \in Seq(Nat)
        /\ \A i, j \in DOMAIN row : row[i] <= clock /\ (i <= j => row[i] <= row[j])
        /\ \A s \in Int :
              LET y == {i \in DOMAIN row : row[i] >= s} IN
              /\ IsFiniteSet(y) /\ Cardinality(y) \in Nat
              /\ Cardinality(y) <= RateMax
              /\ s > clock - RateWindow /\ s <= clock =>
                    Cardinality(y) >= Cardinality(HitsSince(u, s)) + 1
    BY <2>2, HitCounts
  <2> QED BY <2>2, <2>3, Zenon
<1>2. rateHits \in [LeadUsers -> Seq(Nat)] /\ clock \in Nat
  BY DEF LeadTypes
<1>3. \A s \in Int : HitsSince(u, s)' = IF rateHits'[u] = hits THEN young(s) ELSE HitsSince(u, s)'
  BY DEF HitsSince
<1> HIDE DEF hits
<1>4. /\ rateHits' \in [LeadUsers -> Seq(Nat)] /\ rateHits'[u] = hits
      /\ \A v \in LeadUsers : v # u => rateHits'[v] = rateHits[v]
  BY <1>1, <1>2 DEF hits
<1>5. ASSUME NEW v \in LeadUsers, NEW i \in DOMAIN rateHits'[v], NEW j \in DOMAIN rateHits'[v]
      PROVE  rateHits'[v][i] <= clock /\ (i <= j => rateHits'[v][i] <= rateHits'[v][j])
  <2>1. CASE v = u
    BY <1>1, <1>4, <2>1
  <2>2. CASE v # u
    BY <1>4, <2>2 DEF LeadTimes
  <2> QED BY <2>1, <2>2
<1>6. ASSUME NEW v \in LeadUsers, NEW s \in Int, s > clock - RateWindow
      PROVE  /\ Cardinality(HitsSince(v, s)') <= RateMax
             /\ Cardinality(HitsSince(v, s)') \in Nat
             /\ Cardinality(HitsSince(v, s)') >= Cardinality(HitsSince(v, s)) + HitMore(u, v, s)
  <2>1. CASE v = u
    <3>1. HitsSince(v, s)' = young(s)
      BY <1>3, <1>4, <2>1
    <3>2. CASE s <= clock
      BY <1>1, <1>6, <2>1, <3>1, <3>2 DEF HitMore
    <3>3. CASE ~(s <= clock)
      <4>1. HitsSince(u, s) = {}
        <5>1. ASSUME NEW i \in DOMAIN rateHits[u], rateHits[u][i] >= s PROVE FALSE
          <6>1. rateHits[u][i] <= clock /\ rateHits[u][i] \in Nat
            BY <1>2 DEF LeadTimes
          <6> QED BY <1>2, <3>3, <5>1, <6>1
        <5> QED BY <5>1 DEF HitsSince
      <4>2. Cardinality(HitsSince(u, s)) = 0
        BY <4>1, FS_EmptySet
      <4>3. Cardinality(young(s)) \in Nat /\ Cardinality(young(s)) <= RateMax
        BY <1>1
      <4>4. HitMore(u, v, s) = 0
        BY <3>3 DEF HitMore
      <4> QED BY <2>1, <3>1, <4>2, <4>3, <4>4
    <3> QED BY <3>2, <3>3
  <2>2. CASE v # u
    <3>1. HitsSince(v, s)' = HitsSince(v, s)
      BY <1>4, <2>2 DEF HitsSince
    <3>2. Cardinality(HitsSince(v, s)) \in Nat
      BY LeadsAreFinite
    <3>3. HitMore(u, v, s) = 0
      BY <2>2 DEF HitMore
    <3>4. Cardinality(HitsSince(v, s)) <= RateMax
      BY <1>6 DEF HitsAreLimited
    <3> QED BY <3>1, <3>2, <3>3, <3>4
  <2> QED BY <2>1, <2>2
<1> QED BY <1>4, <1>5, <1>6, Zenon

\* A submission leaves at most one lead in the windows in which it costs a hit.
LEMMA FormsCount ==
    ASSUME LeadsInv, NEW u \in LeadUsers, NEW valid \in BOOLEAN, LeaveLead(u, valid),
           NEW v \in LeadUsers, NEW s \in Int
    PROVE  Cardinality(LeftSince(v, s)') <= Cardinality(LeftSince(v, s)) + HitMore(u, v, s)
<1> USE DEF LeadsInv
<1> DEFINE n == Len(leads) + 1
<1>1. IsFiniteSet(LeftSince(v, s)) /\ Cardinality(LeftSince(v, s)) \in Nat
  BY LeadsAreFinite
<1>2. HitMore(u, v, s) \in {0, 1}
  BY DEF HitMore
<1>3. CASE valid
  <2>1. InsertLead(u, "form")
    BY <1>3 DEF LeaveLead
  <2>2. /\ n \notin DOMAIN leads /\ DOMAIN leads' = DOMAIN leads \cup {n}
        /\ \A l \in DOMAIN leads : leads'[l] = leads[l]
        /\ leads'[n] = NewLead(u, "form")
    BY <2>1, LeadInserted, Zenon
  <2>3. leads'[n].by = u /\ leads'[n].at = clock
    BY <2>2 DEF NewLead
  <2> HIDE DEF n
  <2>4. \A l \in DOMAIN leads : l \in LeftSince(v, s)' <=> l \in LeftSince(v, s)
    BY <2>2 DEF LeftSince, FormLead
  <2>5. n \notin LeftSince(v, s)
    BY <2>2 DEF LeftSince
  <2>6. LeftSince(v, s)' \in SUBSET (DOMAIN leads \cup {n}) /\ LeftSince(v, s) \in SUBSET DOMAIN leads
    BY <2>2 DEF LeftSince
  <2>7. CASE v = u /\ s <= clock
    <3>1. LeftSince(v, s)' \in SUBSET (LeftSince(v, s) \cup {n})
      BY <2>4, <2>6
    <3>2. /\ IsFiniteSet(LeftSince(v, s) \cup {n})
          /\ Cardinality(LeftSince(v, s) \cup {n}) = Cardinality(LeftSince(v, s)) + 1
      BY <1>1, <2>5, FS_AddElement
    <3>3. Cardinality(LeftSince(v, s)') <= Cardinality(LeftSince(v, s) \cup {n})
      BY <3>1, <3>2, FS_Subset
    <3> QED BY <2>7, <3>2, <3>3 DEF HitMore
  <2>8. CASE ~(v = u /\ s <= clock)
    <3>1. n \notin LeftSince(v, s)'
      <4>1. SUFFICES ASSUME n \in LeftSince(v, s)' PROVE FALSE
        OBVIOUS
      <4>2. leads'[n].by = v /\ leads'[n].at >= s
        BY <4>1 DEF LeftSince, FormLead
      <4>3. clock \in Nat
        BY DEF LeadTypes
      <4> QED BY <2>3, <2>8, <4>2, <4>3
    <3>2. LeftSince(v, s)' = LeftSince(v, s)
      BY <2>4, <2>6, <3>1
    <3> QED BY <1>1, <1>2, <3>2
  <2> QED BY <2>7, <2>8
<1>4. CASE ~valid
  <2>1. leads' = leads
    BY <1>4 DEF LeaveLead
  <2>2. LeftSince(v, s)' = LeftSince(v, s)
    BY <2>1 DEF LeftSince, FormLead
  <2> QED BY <1>1, <1>2, <2>2
<1> QED BY <1>3, <1>4

LEMMA SubmissionsKeep ==
    ASSUME LeadsInv, NEW u \in LeadUsers, NEW valid \in BOOLEAN, LeaveLead(u, valid)
    PROVE  LeadsInv'
<1> USE DEF LeadsInv
<1> DEFINE n == Len(leads) + 1
<1>1. /\ UNCHANGED <<commissions, clock, restarts>> /\ AllowLeadRate(u)
      /\ rateHits' = [rateHits EXCEPT ![u] = Append(Kept(u), clock)]
      /\ valid => InsertLead(u, "form")
      /\ ~valid => leads' = leads
  BY DEF LeaveLead
<1>2. /\ rateHits' \in [LeadUsers -> Seq(Nat)]
      /\ \A v \in LeadUsers : \A i, j \in DOMAIN rateHits'[v] :
            rateHits'[v][i] <= clock /\ (i <= j => rateHits'[v][i] <= rateHits'[v][j])
      /\ \A v \in LeadUsers, s \in Int : s > clock - RateWindow =>
            /\ Cardinality(HitsSince(v, s)') <= RateMax
            /\ Cardinality(HitsSince(v, s)') \in Nat
            /\ Cardinality(HitsSince(v, s)') >= Cardinality(HitsSince(v, s)) + HitMore(u, v, s)
  BY <1>1, HitTaken, Zenon
<1>3. valid => /\ leads' \in Seq(Lead)
               /\ n \notin DOMAIN leads /\ DOMAIN leads' = DOMAIN leads \cup {n}
               /\ \A l \in DOMAIN leads : leads'[l] = leads[l]
               /\ leads'[n] = NewLead(u, "form")
  BY <1>1, LeadInserted, Zenon
<1>4. leads'[n] = NewLead(u, "form") => leads'[n].at = clock
  BY DEF NewLead
<1> HIDE DEF n
<1>5. /\ leads' \in Seq(Lead) /\ n \notin DOMAIN leads
      /\ DOMAIN leads' \in SUBSET (DOMAIN leads \cup {n})
      /\ \A l \in DOMAIN leads : leads'[l] = leads[l]
      /\ n \in DOMAIN leads' => leads'[n].at = clock
  <2>1. CASE valid
    BY <1>3, <1>4, <2>1
  <2>2. CASE ~valid
    <3>1. n \notin DOMAIN leads
      BY DEF n, LeadTypes
    <3> QED BY <1>1, <2>2, <3>1 DEF LeadTypes
  <2> QED BY <2>1, <2>2
<1>6. LeadTypes'
  BY <1>1, <1>2, <1>5 DEF LeadTypes
<1>7. LeadTimes'
  <2>1. \A l \in DOMAIN leads' : leads'[l].at <= clock'
    BY <1>1, <1>5 DEF LeadTimes, LeadTypes
  <2> QED BY <1>1, <1>2, <2>1 DEF LeadTimes
<1>8. HitsAreLimited'
  <2>1. ASSUME NEW v \in LeadUsers, NEW s \in Int, s > clock - RateWindow
        PROVE  /\ Cardinality(HitsSince(v, s)') <= RateMax
               /\ Cardinality(LeftSince(v, s)') <= RateMax * restarts + Cardinality(HitsSince(v, s)')
    <3>1. /\ Cardinality(HitsSince(v, s)') <= RateMax
          /\ Cardinality(HitsSince(v, s)') \in Nat
          /\ Cardinality(HitsSince(v, s)') >= Cardinality(HitsSince(v, s)) + HitMore(u, v, s)
      BY <1>2, <2>1
    <3>2. Cardinality(LeftSince(v, s)') <= Cardinality(LeftSince(v, s)) + HitMore(u, v, s)
      BY FormsCount
    <3>3. Cardinality(LeftSince(v, s)) <= RateMax * restarts + Cardinality(HitsSince(v, s))
      BY <2>1 DEF HitsAreLimited
    <3>4. /\ Cardinality(LeftSince(v, s)) \in Nat /\ Cardinality(HitsSince(v, s)) \in Nat
          /\ HitMore(u, v, s) \in {0, 1}
      BY LeadsAreFinite DEF HitMore
    <3>5. Cardinality(LeftSince(v, s)') \in Nat
      <4>1. LeftSince(v, s)' \in SUBSET (1..Len(leads')) /\ Len(leads') \in Nat
        BY <1>5 DEF LeftSince
      <4>2. IsFiniteSet(1..Len(leads'))
        BY <4>1, FS_Interval
      <4> QED BY <4>1, <4>2, FS_Subset, FS_CardinalityType
    <3>6. RateMax * restarts \in Nat
      BY LeadsAssumption DEF LeadTypes
    <3> QED BY <3>1, <3>2, <3>3, <3>4, <3>5, <3>6
  <2> QED BY <1>1, <2>1 DEF HitsAreLimited
<1>9. LeadsAreLimited'
  <2>1. ASSUME NEW v \in LeadUsers, NEW t \in 0..clock', t # clock'
        PROVE  Cardinality(LeftWithin(v, t)') <= RateMax * (1 + restarts')
    <3>1. clock \in Nat /\ t \in 0..clock /\ t < clock
      BY <1>1, <2>1 DEF LeadTypes
    <3>2. ~(clock \in (t - RateWindow + 1)..t)
      BY <3>1
    <3>3. DOMAIN leads \in SUBSET DOMAIN leads'
      BY <1>1, <1>3
    <3>4. LeftWithin(v, t)' = LeftWithin(v, t)
      BY <1>5, <3>2, <3>3 DEF LeftWithin, FormLead
    <3> QED BY <1>1, <3>1, <3>4, WindowsAre
  <2>2. LeadsWereLimited'
    BY <2>1 DEF LeadsWereLimited
  <2> QED BY <1>6, <1>7, <1>8, <2>2, WindowsBefore, PTL
<1>10. RoundsAreBooked'
  <2>1. CASE valid
    BY <1>1, <2>1, RoundsOfMore, Zenon
  <2>2. CASE ~valid
    BY <1>1, <2>2 DEF RoundsAreBooked, InTurn, Earned, Once
  <2> QED BY <2>1, <2>2
<1> QED BY <1>6, <1>7, <1>8, <1>9, <1>10

\* One lead changed, not in who left it, how and when.
SameLead(l, r) == r \in Lead /\ r.by = leads[l].by /\ r.source = leads[l].source /\ r.at = leads[l].at

LEMMA LeadChanged ==
    ASSUME LeadsInv, NEW l \in DOMAIN leads, NEW r, SameLead(l, r),
           leads' = [leads EXCEPT ![l] = r], UNCHANGED <<rateHits, clock, restarts>>
    PROVE  /\ leads' \in Seq(Lead) /\ DOMAIN leads' = DOMAIN leads /\ leads'[l] = r
           /\ \A k \in DOMAIN leads : k # l => leads'[k] = leads[k]
           /\ commissions' \in Seq(Commission) =>
                 LeadTypes' /\ LeadTimes' /\ HitsAreLimited' /\ LeadsAreLimited'
<1> USE DEF LeadsInv
<1>1. /\ DOMAIN leads' = DOMAIN leads /\ leads'[l] = r
      /\ \A k \in DOMAIN leads : k # l => leads'[k] = leads[k]
  BY DEF LeadTypes
<1>2. leads' \in Seq(Lead)
  <2>1. leads \in Seq(Lead) /\ r \in Lead
    BY DEF LeadTypes, SameLead
  <2> QED BY <2>1
<1>3. ASSUME NEW k \in DOMAIN leads
      PROVE  /\ leads'[k].at = leads[k].at /\ leads'[k].by = leads[k].by
             /\ leads'[k].source = leads[k].source
  <2>1. CASE k = l
    BY <1>1, <2>1 DEF SameLead
  <2>2. CASE k # l
    BY <1>1, <2>2
  <2> QED BY <2>1, <2>2
<1>4. ASSUME commissions' \in Seq(Commission)
      PROVE  LeadTypes' /\ LeadTimes' /\ HitsAreLimited' /\ LeadsAreLimited'
  <2>1. LeadTypes'
    BY <1>2, <1>4 DEF LeadTypes
  <2>2. LeadTimes'
    BY <1>1, <1>3 DEF LeadTimes
  <2>3. ASSUME NEW v \in LeadUsers, NEW s \in Int
        PROVE  LeftSince(v, s)' = LeftSince(v, s) /\ HitsSince(v, s)' = HitsSince(v, s)
    <3>1. LeftSince(v, s)' = LeftSince(v, s)
      BY <1>1, <1>3 DEF LeftSince, FormLead
    <3>2. HitsSince(v, s)' = HitsSince(v, s)
      BY DEF HitsSince
    <3> QED BY <3>1, <3>2
  <2>4. HitsAreLimited'
    BY <2>3 DEF HitsAreLimited
  <2>5. LeadsWereLimited'
    <3>1. ASSUME NEW v \in LeadUsers, NEW t \in 0..clock'
          PROVE  Cardinality(LeftWithin(v, t)') <= RateMax * (1 + restarts')
      <4>1. LeftWithin(v, t)' = LeftWithin(v, t)
        BY <1>1, <1>3 DEF LeftWithin, FormLead
      <4> QED BY <3>1, <4>1, WindowsAre
    <3> QED BY <3>1 DEF LeadsWereLimited
  <2>6. LeadsAreLimited'
    BY <2>1, <2>2, <2>4, <2>5, WindowsBefore, PTL
  <2> QED BY <2>1, <2>2, <2>4, <2>6
<1> QED BY <1>1, <1>2, <1>4

\* Another round, or the same with another status.
LEMMA AssignsKeep ==
    ASSUME LeadsInv, NEW l \in DOMAIN leads, NEW v \in LeadVendors, AssignLead(l, v)
    PROVE  LeadsInv'
<1> USE DEF LeadsInv
<1>1. leads[l] \in Lead /\ leads[l].given \in Seq(LeadVendors)
  <2>1. leads[l] \in Lead
    BY DEF LeadTypes
  <2> QED BY <2>1 DEF Lead
<1>2. PICK row \in Seq(LeadVendors) :
        /\ row = Append(leads[l].given, v)
        /\ Len(row) = Len(leads[l].given) + 1 /\ row[Len(row)] = v
        /\ \A i \in 1..Len(leads[l].given) : row[i] = leads[l].given[i]
  <2> DEFINE given == leads[l].given
             row == Append(given, v)
  <2>1. given \in Seq(LeadVendors)
    BY <1>1
  <2> HIDE DEF given
  <2>2. /\ row \in Seq(LeadVendors) /\ Len(row) = Len(given) + 1 /\ row[Len(given) + 1] = v
        /\ \A i \in 1..Len(given) : row[i] = given[i]
    BY <2>1, AppendProperties
  <2>3. row[Len(row)] = v
    BY <2>2
  <2> QED BY <2>2, <2>3 DEF given
<1>3. Len(leads[l].given) \in Nat /\ DOMAIN leads[l].given = 1..Len(leads[l].given)
      /\ DOMAIN row = 1..Len(row)
  BY <1>1, <1>2
<1>4. PICK x :
        /\ leads' = [leads EXCEPT ![l] = x] /\ SameLead(l, x)
        /\ x.assignee = v /\ x.given = row
  <2> DEFINE y == [leads[l] EXCEPT !.status = "assigned", !.assignee = v, !.given = row]
  <2>1. leads' = [leads EXCEPT ![l] = y]
    BY <1>1, <1>2 DEF AssignLead, Lead
  <2>2. SameLead(l, y) /\ y.assignee = v /\ y.given = row
    BY <1>1 DEF SameLead, Lead
  <2> HIDE DEF y
  <2> QED BY <2>1, <2>2, Zenon
<1>5. UNCHANGED <<commissions, rateHits, clock, restarts>>
  BY DEF AssignLead
<1>6. commissions' \in Seq(Commission)
  BY <1>5 DEF LeadTypes
<1>7. /\ DOMAIN leads' = DOMAIN leads /\ leads'[l] = x
      /\ \A j \in DOMAIN leads : j # l => leads'[j] = leads[j]
      /\ LeadTypes' /\ LeadTimes' /\ HitsAreLimited' /\ LeadsAreLimited'
  BY <1>4, <1>5, <1>6, LeadChanged
<1>8. ASSUME NEW j \in DOMAIN leads' PROVE InTurn(j)'
  <2>1. CASE j = l
    <3>1. row # <<>>
      BY <1>2, <1>3
    <3> QED BY <1>2, <1>4, <1>7, <2>1, <3>1 DEF InTurn
  <2>2. CASE j # l
    BY <1>7, <2>2 DEF InTurn, RoundsAreBooked
  <2> QED BY <2>1, <2>2
<1>9. ASSUME NEW c \in DOMAIN commissions' PROVE Earned(c)'
  <2>1. Earned(c) /\ commissions'[c] = commissions[c]
    BY <1>5 DEF RoundsAreBooked
  <2>2. CASE commissions[c].lead = l
    <3>1. /\ commissions[c].round \in 1..Len(leads[l].given)
          /\ leads[l].given[commissions[c].round] = commissions[c].by
      BY <1>3, <2>1, <2>2 DEF Earned
    <3>2. /\ commissions[c].round \in DOMAIN row /\ row[commissions[c].round] = commissions[c].by
          /\ commissions[c].round # Len(row)
      BY <1>2, <1>3, <3>1
    <3> QED BY <1>4, <1>7, <2>1, <2>2, <3>2 DEF Earned
  <2>3. CASE commissions[c].lead # l
    BY <1>7, <2>1, <2>3 DEF Earned
  <2> QED BY <2>2, <2>3
<1>10. ASSUME NEW c \in DOMAIN commissions', NEW d \in DOMAIN commissions' PROVE Once(c, d)'
  BY <1>5 DEF Once, RoundsAreBooked
<1>11. RoundsAreBooked'
  BY <1>8, <1>9, <1>10 DEF RoundsAreBooked
<1> QED BY <1>7, <1>11

LEMMA QuotesKeep ==
    ASSUME LeadsInv, NEW l \in DOMAIN leads, NEW v \in LeadVendors, QuoteLead(l, v)
    PROVE  LeadsInv'
<1> USE DEF LeadsInv
<1>1. leads[l] \in Lead
  BY DEF LeadTypes
<1>2. leads[l].status = "assigned" /\ UNCHANGED <<commissions, rateHits, clock, restarts>>
  BY DEF QuoteLead
<1>3. PICK x :
        /\ leads' = [leads EXCEPT ![l] = x] /\ SameLead(l, x)
        /\ x.assignee = leads[l].assignee /\ x.given = leads[l].given
  <2> DEFINE y == [leads[l] EXCEPT !.status = "quoted"]
  <2>1. leads' = [leads EXCEPT ![l] = y]
    BY DEF QuoteLead
  <2>2. SameLead(l, y) /\ y.assignee = leads[l].assignee /\ y.given = leads[l].given
    BY <1>1 DEF SameLead, Lead
  <2> HIDE DEF y
  <2> QED BY <2>1, <2>2, Zenon
<1>4. commissions' \in Seq(Commission)
  BY <1>2 DEF LeadTypes
<1>5. /\ DOMAIN leads' = DOMAIN leads /\ leads'[l] = x
      /\ \A j \in DOMAIN leads : j # l => leads'[j] = leads[j]
      /\ LeadTypes' /\ LeadTimes' /\ HitsAreLimited' /\ LeadsAreLimited'
  BY <1>2, <1>3, <1>4, LeadChanged
<1>6. ASSUME NEW j \in DOMAIN leads' PROVE InTurn(j)'
  <2>1. CASE j = l
    BY <1>2, <1>3, <1>5, <2>1 DEF InTurn, RoundsAreBooked
  <2>2. CASE j # l
    BY <1>5, <2>2 DEF InTurn, RoundsAreBooked
  <2> QED BY <2>1, <2>2
<1>7. ASSUME NEW c \in DOMAIN commissions' PROVE Earned(c)'
  <2>1. Earned(c) /\ commissions'[c] = commissions[c]
    BY <1>2 DEF RoundsAreBooked
  <2>2. CASE commissions[c].lead = l
    BY <1>2, <1>3, <1>5, <2>1, <2>2 DEF Earned
  <2>3. CASE commissions[c].lead # l
    BY <1>5, <2>1, <2>3 DEF Earned
  <2> QED BY <2>2, <2>3
<1>8. ASSUME NEW c \in DOMAIN commissions', NEW d \in DOMAIN commissions' PROVE Once(c, d)'
  BY <1>2 DEF Once, RoundsAreBooked
<1>9. RoundsAreBooked'
  BY <1>6, <1>7, <1>8 DEF RoundsAreBooked
<1> QED BY <1>5, <1>9

\* Who closes a deal books it for the round, and the lead cannot be closed again in it.
LEMMA ClosingsKeep ==
    ASSUME LeadsInv, NEW l \in DOMAIN leads, NEW v \in LeadVendors, NEW valid \in BOOLEAN,
           CloseDeal(l, v, valid)
    PROVE  LeadsInv'
<1> USE DEF LeadsInv
<1> DEFINE x == [leads[l] EXCEPT !.status = "closed"]
           last == Len(leads[l].given)
           e == [lead |-> l, round |-> last, by |-> v]
           n == Len(commissions) + 1
<1>1. leads[l] \in Lead /\ leads[l].given \in Seq(LeadVendors)
  <2>1. leads[l] \in Lead
    BY DEF LeadTypes
  <2> QED BY <2>1 DEF Lead
<1>2. /\ leads' = [leads EXCEPT ![l] = x] /\ leads[l].status \in {"assigned", "quoted"}
      /\ leads[l].assignee = v
  BY DEF CloseDeal, Closable
<1>3. SameLead(l, x) /\ x.status = "closed" /\ x.given = leads[l].given
  BY <1>1 DEF SameLead, Lead
<1>4. commissions' = Append(commissions, e) /\ UNCHANGED <<rateHits, clock, restarts>>
  BY DEF CloseDeal
<1>5. /\ last \in Nat /\ last \in DOMAIN leads[l].given /\ leads[l].given[last] = v
  <2>1. InTurn(l)
    BY DEF RoundsAreBooked
  <2>2. leads[l].given # <<>> /\ leads[l].given[last] = v
    BY <1>2, <2>1 DEF InTurn
  <2> QED BY <1>1, <2>2
<1>a. e \in Commission /\ e.lead = l /\ e.round = last /\ e.by = v
  <2>1. l \in Nat
    BY DEF LeadTypes
  <2> QED BY <1>5, <2>1 DEF Commission
<1> HIDE DEF x, e, last
<1>6. /\ Append(commissions, e) \in Seq(Commission) /\ Len(Append(commissions, e)) = n
      /\ \A c \in 1..Len(commissions) : Append(commissions, e)[c] = commissions[c]
      /\ Append(commissions, e)[n] = e
      /\ Len(commissions) \in Nat /\ DOMAIN commissions = 1..Len(commissions)
  <2>1. commissions \in Seq(Commission)
    BY DEF LeadTypes
  <2> QED BY <1>a, <2>1, AppendProperties
<1>7. ASSUME NEW row \in Seq(Commission), Len(row) = n PROVE DOMAIN row = 1..n
  BY <1>7
<1>8. DOMAIN Append(commissions, e) = 1..n
  BY <1>6, <1>7, Zenon
<1>9. n \notin DOMAIN commissions /\ 1..n = DOMAIN commissions \cup {n}
  BY <1>6
<1> HIDE DEF n
<1>10. /\ commissions' \in Seq(Commission)
       /\ n \notin DOMAIN commissions /\ DOMAIN commissions' = DOMAIN commissions \cup {n}
       /\ commissions'[n] = e /\ \A c \in DOMAIN commissions : commissions'[c] = commissions[c]
  BY <1>4, <1>6, <1>8, <1>9, Zenon
<1>11. /\ DOMAIN leads' = DOMAIN leads /\ leads'[l] = x
       /\ \A j \in DOMAIN leads : j # l => leads'[j] = leads[j]
       /\ LeadTypes' /\ LeadTimes' /\ HitsAreLimited' /\ LeadsAreLimited'
  BY <1>2, <1>3, <1>4, <1>10, LeadChanged
<1>12. ASSUME NEW j \in DOMAIN leads' PROVE InTurn(j)'
  <2>1. CASE j = l
    BY <1>3, <1>11, <2>1 DEF InTurn
  <2>2. CASE j # l
    BY <1>11, <2>2 DEF InTurn, RoundsAreBooked
  <2> QED BY <2>1, <2>2
<1>13. ASSUME NEW c \in DOMAIN commissions' PROVE Earned(c)'
  <2>1. CASE c = n
    BY <1>3, <1>5, <1>a, <1>10, <1>11, <2>1 DEF Earned
  <2>2. CASE c # n
    <3>1. Earned(c) /\ commissions'[c] = commissions[c]
      BY <1>10, <2>2 DEF RoundsAreBooked
    <3>2. CASE commissions[c].lead = l
      BY <1>3, <1>11, <3>1, <3>2 DEF Earned
    <3>3. CASE commissions[c].lead # l
      BY <1>11, <3>1, <3>3 DEF Earned
    <3> QED BY <3>2, <3>3
  <2> QED BY <2>1, <2>2
<1>14. ASSUME NEW c \in DOMAIN commissions PROVE <<commissions[c].lead, commissions[c].round>> # <<l, last>>
  <2>1. Earned(c)
    BY DEF RoundsAreBooked
  <2> QED BY <1>2, <2>1 DEF Earned, last
<1>15. ASSUME NEW c \in DOMAIN commissions', NEW d \in DOMAIN commissions' PROVE Once(c, d)'
  <2>1. CASE c # n /\ d # n
    BY <1>10, <2>1 DEF Once, RoundsAreBooked
  <2>2. CASE c = n \/ d = n
    BY <1>a, <1>10, <1>14, <2>2 DEF Once
  <2> QED BY <2>1, <2>2
<1>16. RoundsAreBooked'
  BY <1>12, <1>13, <1>15 DEF RoundsAreBooked
<1> QED BY <1>11, <1>16

\* A window that starts later has no more hits and leads.
LEMMA LaterIsLess ==
    ASSUME LeadTypes, NEW u \in LeadUsers, NEW s \in Int, NEW t \in Int, s <= t
    PROVE  /\ Cardinality(HitsSince(u, t)) <= Cardinality(HitsSince(u, s))
           /\ Cardinality(LeftSince(u, t)) <= Cardinality(LeftSince(u, s))
<1>1. HitsSince(u, t) \in SUBSET HitsSince(u, s)
  <2>1. \A i \in DOMAIN rateHits[u] : rateHits[u][i] \in Nat
    BY DEF LeadTypes
  <2> QED BY <2>1 DEF HitsSince
<1>2. LeftSince(u, t) \in SUBSET LeftSince(u, s)
  <2>1. \A l \in DOMAIN leads : leads[l].at \in Nat
    <3>1. \A l \in DOMAIN leads : leads[l] \in Lead
      BY DEF LeadTypes
    <3> QED BY <3>1 DEF Lead
  <2> QED BY <2>1 DEF LeftSince
<1> QED BY <1>1, <1>2, LeadsAreFinite, FS_Subset

LEMMA TicksKeep ==
    ASSUME LeadsInv, ClockTicks
    PROVE  LeadsInv'
<1> USE DEF LeadsInv
<1>1. UNCHANGED <<leads, commissions, rateHits, restarts>> /\ clock' = clock + 1 /\ clock \in Nat
  BY DEF ClockTicks, LeadTypes
<1>2. LeadTypes'
  BY <1>1 DEF LeadTypes
<1>3. LeadTimes'
  <2>1. \A l \in DOMAIN leads : leads[l].at <= clock + 1
    <3>1. \A l \in DOMAIN leads : leads[l] \in Lead
      BY DEF LeadTypes
    <3>2. \A l \in DOMAIN leads : leads[l].at \in Nat
      BY <3>1 DEF Lead
    <3> QED BY <1>1, <3>2 DEF LeadTimes
  <2>2. ASSUME NEW u \in LeadUsers, NEW i \in DOMAIN rateHits[u] PROVE rateHits[u][i] <= clock + 1
    <3>1. rateHits[u][i] \in Nat /\ rateHits[u][i] <= clock
      BY DEF LeadTypes, LeadTimes
    <3> QED BY <1>1, <3>1
  <2> QED BY <1>1, <2>1, <2>2 DEF LeadTimes
<1>4. HitsAreLimited'
  <2>1. ASSUME NEW v \in LeadUsers, NEW s \in Int, s > clock' - RateWindow
        PROVE  /\ Cardinality(HitsSince(v, s)') <= RateMax
               /\ Cardinality(LeftSince(v, s)') <= RateMax * restarts' + Cardinality(HitsSince(v, s)')
    <3>1. s > clock - RateWindow
      BY <1>1, <2>1, LeadsAssumption
    <3>2. HitsSince(v, s)' = HitsSince(v, s) /\ LeftSince(v, s)' = LeftSince(v, s)
      BY <1>1 DEF HitsSince, LeftSince, FormLead
    <3> QED BY <1>1, <3>1, <3>2 DEF HitsAreLimited
  <2> QED BY <2>1 DEF HitsAreLimited
<1>5. LeadsWereLimited'
  <2>1. ASSUME NEW v \in LeadUsers, NEW t \in 0..clock', t # clock'
        PROVE  Cardinality(LeftWithin(v, t)') <= RateMax * (1 + restarts')
    <3>1. LeftWithin(v, t)' = LeftWithin(v, t)
      BY <1>1 DEF LeftWithin, FormLead
    <3>2. t \in 0..clock
      BY <1>1, <2>1
    <3> QED BY <1>1, <3>1, <3>2, WindowsAre
  <2> QED BY <2>1 DEF LeadsWereLimited
<1>6. LeadsAreLimited'
  BY <1>2, <1>3, <1>4, <1>5, WindowsBefore, PTL
<1>7. RoundsAreBooked'
  BY <1>1 DEF RoundsAreBooked, InTurn, Earned, Once
<1> QED BY <1>2, <1>3, <1>4, <1>6, <1>7

LEMMA RestartsKeep ==
    ASSUME LeadsInv, ServerRestarts
    PROVE  LeadsInv'
<1> USE DEF LeadsInv
<1>1. /\ UNCHANGED <<leads, commissions, clock>> /\ restarts' = restarts + 1
      /\ rateHits' = [u \in LeadUsers |-> <<>>]
  BY DEF ServerRestarts
<1>2. clock \in Nat /\ restarts \in Nat /\ RateMax \in Nat /\ RateWindow \in Nat \ {0}
  BY LeadsAssumption DEF LeadTypes
<1>3. LeadTypes'
  <2>1. rateHits' \in [LeadUsers -> Seq(Nat)]
    BY <1>1
  <2> QED BY <1>1, <1>2, <2>1 DEF LeadTypes
<1>4. LeadTimes'
  BY <1>1 DEF LeadTimes
<1>5. HitsAreLimited'
  <2>1. ASSUME NEW v \in LeadUsers, NEW s \in Int, s > clock - RateWindow
        PROVE  /\ Cardinality(HitsSince(v, s)') <= RateMax
               /\ Cardinality(LeftSince(v, s)') <= RateMax * restarts' + Cardinality(HitsSince(v, s)')
    <3>1. HitsSince(v, s)' = {}
      BY <1>1 DEF HitsSince
    <3>2. Cardinality(HitsSince(v, s)') = 0
      BY <3>1, FS_EmptySet
    <3>3. LeftSince(v, s)' = LeftSince(v, s)
      BY <1>1 DEF LeftSince, FormLead
    <3>4. /\ Cardinality(HitsSince(v, s)) <= RateMax
          /\ Cardinality(LeftSince(v, s)) <= RateMax * restarts + Cardinality(HitsSince(v, s))
          /\ Cardinality(HitsSince(v, s)) \in Nat /\ Cardinality(LeftSince(v, s)) \in Nat
      BY <2>1, LeadsAreFinite DEF HitsAreLimited
    <3>5. RateMax * restarts' = RateMax * restarts + RateMax /\ RateMax * restarts \in Nat
      BY <1>1, <1>2
    <3> QED BY <1>2, <3>2, <3>3, <3>4, <3>5
  <2> QED BY <1>1, <2>1 DEF HitsAreLimited
<1>6. LeadsWereLimited'
  <2>1. ASSUME NEW v \in LeadUsers, NEW t \in 0..clock'
        PROVE  Cardinality(LeftWithin(v, t)') <= RateMax * (1 + restarts')
    <3>1. LeftWithin(v, t)' = LeftWithin(v, t)
      BY <1>1 DEF LeftWithin, FormLead
    <3>2. Cardinality(LeftWithin(v, t)) <= RateMax * (1 + restarts)
      BY <1>1, <2>1, WindowsAre
    <3>3. Cardinality(LeftWithin(v, t)) \in Nat
      BY <1>1, <1>2, <2>1, LeadsAreFinite
    <3>4. RateMax * (1 + restarts) <= RateMax * (1 + restarts') /\ RateMax * (1 + restarts) \in Nat
          /\ RateMax * (1 + restarts') \in Nat
      <4>1. RateMax * (1 + restarts') = RateMax * (1 + restarts) + RateMax
        BY <1>1, <1>2
      <4> QED BY <1>2, <4>1
    <3> QED BY <3>1, <3>2, <3>3, <3>4
  <2> QED BY <2>1 DEF LeadsWereLimited
<1>7. LeadsAreLimited'
  BY <1>3, <1>4, <1>5, <1>6, WindowsBefore, PTL
<1>8. RoundsAreBooked'
  BY <1>1 DEF RoundsAreBooked, InTurn, Earned, Once
<1> QED BY <1>3, <1>4, <1>5, <1>7, <1>8

LEMMA LeadStepsKeep == LeadsInv /\ [LeadsNext]_leadVars => LeadsInv'
<1> SUFFICES ASSUME LeadsInv, [LeadsNext]_leadVars PROVE LeadsInv'
  OBVIOUS
<1>1. ASSUME NEW u \in LeadUsers, NEW valid \in BOOLEAN, LeaveLead(u, valid) PROVE LeadsInv'
  BY <1>1, SubmissionsKeep
<1>2. ASSUME NEW u \in LeadUsers, InquireProduct(u) PROVE LeadsInv'
  BY <1>2, InquiriesKeep
<1>3. CASE ClockTicks
  BY <1>3, TicksKeep
<1>4. CASE ServerRestarts
  BY <1>4, RestartsKeep
<1>5. ASSUME NEW l \in DOMAIN leads, NEW v \in LeadVendors, AssignLead(l, v) \/ QuoteLead(l, v)
      PROVE  LeadsInv'
  BY <1>5, AssignsKeep, QuotesKeep
<1>6. ASSUME NEW l \in DOMAIN leads, NEW v \in LeadVendors, NEW valid \in BOOLEAN,
             CloseDeal(l, v, valid)
      PROVE  LeadsInv'
  BY <1>6, ClosingsKeep
<1>7. CASE UNCHANGED leadVars
  <2>1. UNCHANGED <<leads, commissions, rateHits, clock, restarts>>
    BY <1>7 DEF leadVars
  <2>2. LeadTypes' /\ LeadTimes' /\ LeadsAreLimited'
    BY <2>1, ZenonT(40) DEF LeadsInv, LeadTypes, LeadTimes, LeadsAreLimited
  <2>3. HitsAreLimited'
    BY <2>1 DEF LeadsInv, HitsAreLimited, HitsSince, LeftSince, FormLead
  <2>4. RoundsAreBooked'
    BY <2>1 DEF LeadsInv, RoundsAreBooked, InTurn, Earned, Once
  <2> QED BY <2>2, <2>3, <2>4 DEF LeadsInv
<1> QED BY <1>1, <1>2, <1>3, <1>4, <1>5, <1>6, <1>7 DEF LeadsNext, SubmissionStep, DealStep

\* However users submit, by whichever of the two forms and whether their leads are valid, and
\* whoever assigns, quotes and closes in what order: within any window a user leaves no more
\* leads than the limit for each life of the server, and a commission is booked once for a round
\* of assignment at most, by the vendor to whom the lead was given in that round.
THEOREM LeadsStayFair == LeadsSpec => []LeadsAreFair
<1>1. LeadsInv => LeadsAreFair
  <2> SUFFICES ASSUME LeadsInv PROVE LeadsAreFair
    OBVIOUS
  <2>1. ASSUME NEW c \in DOMAIN commissions, NEW d \in DOMAIN commissions
        PROVE  Earned(c) /\ Once(c, d)
    BY DEF LeadsInv, RoundsAreBooked
  <2>2. CommissionsAreEarned
    BY <2>1 DEF CommissionsAreEarned, Earned, Once
  <2> QED BY <2>2 DEF LeadsInv, LeadsAreFair
<1> QED BY <1>1, LeadsBeginWell, LeadStepsKeep, PTL DEF LeadsSpec

-----------------------------------------------------------------------------
(* Numbers *)

\* Some number has the largest text.
LEMMA LargestText ==
    ASSUME NEW S, IsFiniteSet(S), S # {}, \A a \in S : a \in Nat
    PROVE  MaxText(S) \in S /\ \A b \in S : ~TextLess(MaxText(S), b)
<1>0. PICK Q : Q = {p \in S \X S : TextLess(p[2], p[1])}
  OBVIOUS
<1>1. Radix \in Nat \ {0} /\ Limit \in Nat
  BY NumberingAssumption
<1>2. ASSUME NEW a \in S PROVE Prefix(a) \in Nat
  BY <1>1 DEF Prefix
<1>3. \A a, b \in S : <<a, b>> \in Q <=> TextLess(b, a)
  BY <1>0
<1>4. InARow(Q, S)
  <2>1. ASSUME NEW a \in S, NEW b \in S, NEW c \in S, TextLess(b, a), TextLess(c, b)
        PROVE  TextLess(c, a)
    <3>1. a \in Nat /\ b \in Nat /\ c \in Nat
      OBVIOUS
    <3>2. Prefix(a) \in Nat /\ Prefix(b) \in Nat /\ Prefix(c) \in Nat
      BY <1>2
    <3> QED BY <2>1, <3>1, <3>2 DEF TextLess
  <2>2. ASSUME NEW a \in S PROVE ~TextLess(a, a)
    <3>1. a \in Nat /\ Prefix(a) \in Nat
      BY <1>2
    <3> QED BY <3>1 DEF TextLess
  <2>3. ASSUME NEW a \in S, NEW b \in S, a # b PROVE TextLess(b, a) \/ TextLess(a, b)
    <3>1. a \in Nat /\ b \in Nat /\ Prefix(a) \in Nat /\ Prefix(b) \in Nat
      BY <1>2
    <3> QED BY <2>3, <3>1 DEF TextLess
  <2> QED BY <1>3, <2>1, <2>2, <2>3, Zenon DEF InARow
<1>5. PICK m \in S : \A b \in S \ {m} : <<m, b>> \in Q
  BY <1>4, FirstOf, Zenon
<1>6. \A b \in S : ~TextLess(m, b)
  <2>1. ASSUME NEW b \in S, TextLess(m, b) PROVE FALSE
    <3>0. m \in Nat /\ b \in Nat /\ Prefix(m) \in Nat /\ Prefix(b) \in Nat
      BY <1>2
    <3>1. CASE b = m
      BY <2>1, <3>0, <3>1 DEF TextLess
    <3>2. CASE b # m
      <4>1. TextLess(b, m)
        BY <1>3, <1>5, <3>2
      <4> QED BY <2>1, <3>0, <4>1 DEF TextLess
    <3> QED BY <3>1, <3>2
  <2> QED BY <2>1
<1> QED BY <1>6, Zenon DEF MaxText

\* A number that is taken is taken because the largest text is one before the first number
\* that has a digit too many.
LEMMA NumberIsTaken ==
    ASSUME NEW S \in SUBSET Nat, IsFiniteSet(S)
    PROVE  NextNumber(S) \in Nat /\ (NextNumber(S) \in S => Limit \in S)
<1> DEFINE M == MaxText(S)
<1>1. Radix \in Nat \ {0} /\ Limit \in Nat
  BY NumberingAssumption
<1>2. CASE S = {}
  BY <1>2 DEF NextNumber
<1>3. SUFFICES ASSUME S # {} PROVE M + 1 \in Nat /\ (M + 1 \in S => Limit \in S)
  BY <1>2 DEF NextNumber
<1>8. M \in S /\ \A b \in S : ~TextLess(M, b)
  BY <1>3, LargestText
<1> HIDE DEF M
<1>4. M \in Nat
  BY <1>8
<1>5. SUFFICES ASSUME M + 1 \in S PROVE Limit \in S
  BY <1>4
<1>9. M \in Nat /\ M + 1 \in S
  BY <1>4, <1>5
<1>10. ~(Prefix(M) < Prefix(M + 1)) /\ ~(Prefix(M) = Prefix(M + 1) /\ M < M + 1)
  BY <1>8, <1>9 DEF TextLess
<1>11. CASE M + 1 = Limit
  BY <1>9, <1>11
<1>12. CASE M + 1 < Limit
  <2>1. Prefix(M) = M /\ Prefix(M + 1) = M + 1
    BY <1>1, <1>9, <1>12 DEF Prefix
  <2> QED BY <1>9, <1>10, <2>1
<1>13. CASE M >= Limit
  <2>1. Prefix(M) = M \div Radix /\ Prefix(M + 1) = (M + 1) \div Radix
    BY <1>1, <1>9, <1>13 DEF Prefix
  <2>2. M \div Radix <= (M + 1) \div Radix
    <3> DEFINE p == M \div Radix
               q == (M + 1) \div Radix
    <3>0. M \in Int /\ M + 1 \in Int
      BY <1>9
    <3>4. p \in Int /\ M % Radix \in 0..(Radix - 1) /\ M = Radix * p + (M % Radix)
      BY <1>1, <3>0, DivMod, Zenon
    <3>5. /\ q \in Int /\ (M + 1) % Radix \in 0..(Radix - 1)
          /\ M + 1 = Radix * q + ((M + 1) % Radix)
      BY <1>1, <3>0, DivMod, Zenon
    <3>1. /\ p \in Int /\ M % Radix \in 0..(Radix - 1) /\ M = Radix * p + (M % Radix)
          /\ q \in Int /\ (M + 1) % Radix \in 0..(Radix - 1)
          /\ M + 1 = Radix * q + ((M + 1) % Radix)
      BY <3>4, <3>5
    <3> HIDE DEF p, q
    <3>2. SUFFICES ASSUME q <= p - 1 PROVE FALSE
      BY <3>1 DEF p, q
    <3>3. Radix * q <= Radix * (p - 1) /\ Radix * (p - 1) = Radix * p - Radix
      BY <1>1, <3>1, <3>2
    <3> QED BY <1>1, <1>9, <3>1, <3>3
  <2>3. M \div Radix \in Int /\ (M + 1) \div Radix \in Int
    BY <1>1, <1>9
  <2> QED BY <1>9, <1>10, <2>1, <2>2, <2>3
<1> QED BY <1>1, <1>9, <1>11, <1>12, <1>13

-----------------------------------------------------------------------------
(* Tickets *)

\* What a status that was read once may have become.
Reached(seen, late) ==
    \/ late = seen
    \/ seen = "pending" /\ late \in {"processing", "resolved", "closed"}
    \/ seen = "processing" /\ late \in {"resolved", "closed"}
    \/ seen = "resolved" /\ late = "closed"

\* A request under way knows its ticket, was in order when it read it, and the ticket has only
\* gone on since; a notice is about a move that was made.
CallFits(r) ==
    LET c == call[r] IN
    /\ c.at \in {"idle", "read", "notice"}
    /\ c.at = "read" =>
          /\ c.ticket \in DOMAIN tickets /\ c.wish \in Wishes /\ c.seen \in TicketStatus
          /\ Permitted(c.wish, c.seen) /\ Reached(c.seen, tickets[c.ticket].status)
    /\ c.at = "notice" =>
          /\ c.ticket \in DOMAIN tickets /\ c.wish.to \in TicketStatus \ {"pending"}
          /\ Reached(c.wish.to, tickets[c.ticket].status)

TicketsInv ==
    /\ tickets \in Seq(Ticket) /\ messages \in Seq(Message)
    /\ day \in Nat
    /\ call = [r \in Callers |-> call[r]] /\ \A r \in Callers : CallFits(r)
    /\ \A n \in told : /\ n[1] \in DOMAIN tickets /\ n[2] \in TicketStatus \ {"pending"}
                       /\ Reached(n[2], tickets[n[1]].status)
    /\ TicketsGetNumbers

\* What a step may do with the tickets: more of them, or one status that goes on.
Advances ==
    /\ DOMAIN tickets \in SUBSET DOMAIN tickets'
    /\ \A t \in DOMAIN tickets :
          /\ tickets'[t].day = tickets[t].day /\ tickets'[t].no = tickets[t].no
          /\ \/ tickets'[t].status = tickets[t].status
             \/ CanTransition(tickets[t].status, tickets'[t].status)

\* What was reached stays so.
LEMMA ReachesOn ==
    ASSUME tickets \in Seq(Ticket), Advances, NEW t \in DOMAIN tickets, NEW s,
           Reached(s, tickets[t].status)
    PROVE  t \in DOMAIN tickets' /\ Reached(s, tickets'[t].status)
<1>1. t \in DOMAIN tickets'
  BY DEF Advances
<1>2. \/ tickets'[t].status = tickets[t].status
      \/ CanTransition(tickets[t].status, tickets'[t].status)
  BY DEF Advances
<1> DEFINE old == tickets[t].status
           late == tickets'[t].status
<1>3. old \in {s, "processing", "resolved", "closed"}
  BY DEF Reached
<1> QED BY <1>1, <1>2 DEF Reached, CanTransition

\* Numbers of a day stay.
LEMMA NumbersStayTaken ==
    ASSUME Advances, NEW d, Limit \in NumbersOf(d)
    PROVE  Limit \in NumbersOf(d)'
<1>1. PICK t \in DOMAIN tickets : tickets[t].day = d /\ tickets[t].no = Limit
  BY DEF NumbersOf
<1>2. t \in DOMAIN tickets' /\ tickets'[t].day = d /\ tickets'[t].no = Limit
  BY <1>1 DEF Advances
<1> QED BY <1>2 DEF NumbersOf


\* The numbers of a day can be counted.
LEMMA NumbersAreFinite ==
    ASSUME tickets \in Seq(Ticket), NEW d
    PROVE  NumbersOf(d) \in SUBSET Nat /\ IsFiniteSet(NumbersOf(d))
<1> DEFINE T == {u \in DOMAIN tickets : tickets[u].day = d}
<1>1. T \in SUBSET (1..Len(tickets)) /\ Len(tickets) \in Nat
  OBVIOUS
<1>2. IsFiniteSet(1..Len(tickets))
  BY <1>1, FS_Interval
<1>3. IsFiniteSet(T)
  BY <1>1, <1>2, FS_Subset
<1>4. ASSUME NEW t \in T PROVE tickets[t].no \in Nat
  <2>1. tickets[t] \in Ticket
    OBVIOUS
  <2> QED BY <2>1 DEF Ticket
<1>5. NumbersOf(d) = {tickets[t].no : t \in T}
  BY DEF NumbersOf
<1> HIDE DEF T
<1> DEFINE f == [t \in T |-> tickets[t].no]
<1>6. f \in Surjection(T, {tickets[t].no : t \in T})
  BY DEF Surjection
<1>7. IsFiniteSet({tickets[t].no : t \in T})
  <2> HIDE DEF f
  <2> QED BY <1>3, <1>6, FS_Surjection
<1> HIDE DEF f
<1> QED BY <1>4, <1>5, <1>7

\* What of the invariant is left to show of a step with which the tickets advance.
LEMMA AdvanceKeeps ==
    ASSUME TicketsInv, Advances, tickets' \in Seq(Ticket), messages' \in Seq(Message),
           day' \in Nat, call' = [r \in Callers |-> call'[r]],
           \A r \in Callers : call'[r] = call[r] \/ CallFits(r)',
           \A n \in told' : \/ n \in told
                            \/ /\ n[1] \in DOMAIN tickets /\ n[2] \in TicketStatus \ {"pending"}
                               /\ Reached(n[2], tickets[n[1]].status),
           \A d \in refused' : d \in refused \/ Limit \in NumbersOf(d)
    PROVE  TicketsInv'
<1>1. tickets \in Seq(Ticket)
  BY DEF TicketsInv
<1>2. ASSUME NEW r \in Callers PROVE CallFits(r)'
  <2>1. CASE CallFits(r)'
    BY <2>1
  <2>2. CASE call'[r] = call[r]
    <3>1. CallFits(r)
      BY DEF TicketsInv
    <3>2. ASSUME call[r].at = "read"
          PROVE  call[r].ticket \in DOMAIN tickets'
                   /\ Reached(call[r].seen, tickets'[call[r].ticket].status)
      BY <1>1, <3>1, <3>2, ReachesOn DEF CallFits
    <3>3. ASSUME call[r].at = "notice"
          PROVE  call[r].ticket \in DOMAIN tickets'
                   /\ Reached(call[r].wish.to, tickets'[call[r].ticket].status)
      BY <1>1, <3>1, <3>3, ReachesOn DEF CallFits
    <3> QED BY <2>2, <3>1, <3>2, <3>3 DEF CallFits
  <2> QED BY <2>1, <2>2
<1>3. ASSUME NEW n \in told'
      PROVE  /\ n[1] \in DOMAIN tickets' /\ n[2] \in TicketStatus \ {"pending"}
             /\ Reached(n[2], tickets'[n[1]].status)
  <2>1. /\ n[1] \in DOMAIN tickets /\ n[2] \in TicketStatus \ {"pending"}
        /\ Reached(n[2], tickets[n[1]].status)
    BY DEF TicketsInv
  <2> QED BY <1>1, <2>1, ReachesOn
<1>4. TicketsGetNumbers'
  <2>1. ASSUME NEW d \in refused' PROVE Limit \in NumbersOf(d)'
    <3>1. Limit \in NumbersOf(d)
      BY DEF TicketsInv, TicketsGetNumbers
    <3> QED BY <3>1, NumbersStayTaken
  <2> QED BY <2>1 DEF TicketsGetNumbers
<1> QED BY <1>2, <1>3, <1>4 DEF TicketsInv

LEMMA TicketsBegin == TicketsInit => TicketsInv
<1> SUFFICES ASSUME TicketsInit PROVE TicketsInv
  OBVIOUS
<1>1. /\ tickets = <<>> /\ messages = <<>> /\ call = [r \in Callers |-> NoCall]
      /\ told = {} /\ refused = {} /\ day = 1
  BY DEF TicketsInit
<1>2. tickets \in Seq(Ticket) /\ messages \in Seq(Message)
  BY <1>1
<1>3. call = [r \in Callers |-> call[r]] /\ \A r \in Callers : CallFits(r)
  BY <1>1 DEF CallFits, NoCall
<1> QED BY <1>1, <1>2, <1>3 DEF TicketsInv, TicketsGetNumbers

\* A ticket more.
LEMMA CreatesAdvance ==
    ASSUME TicketsInv, CreateTicket
    PROVE  /\ TicketsInv' /\ Advances
           /\ \A i \in DOMAIN messages' \ DOMAIN messages : messages'[i].sender = "buyer"
<1> DEFINE no == NextNumber(NumbersOf(day))
           new == [status |-> "pending", day |-> day, no |-> no]
           first == [ticket |-> Len(tickets) + 1, sender |-> "buyer"]
<1>1. tickets \in Seq(Ticket) /\ messages \in Seq(Message) /\ day \in Nat
  BY DEF TicketsInv
<1>2. no \in Nat /\ (no \in NumbersOf(day) => Limit \in NumbersOf(day))
  BY <1>1, NumbersAreFinite, NumberIsTaken
<1>3. UNCHANGED <<call, told, day>>
  BY DEF CreateTicket
<1>4. call' = [r \in Callers |-> call'[r]]
  BY <1>3 DEF TicketsInv
<1>5. CASE no \in NumbersOf(day)
  <2>1. UNCHANGED <<tickets, messages>> /\ refused' = refused \cup {day}
    BY <1>5 DEF CreateTicket
  <2>2. Advances
    BY <2>1 DEF Advances
  <2> QED BY <1>1, <1>2, <1>3, <1>4, <1>5, <2>1, <2>2, AdvanceKeeps
<1>6. CASE no \notin NumbersOf(day)
  <2>1. /\ tickets' = Append(tickets, new) /\ messages' = Append(messages, first)
        /\ refused' = refused
    BY <1>6 DEF CreateTicket
  <2>2. new \in Ticket /\ first \in Message
    BY <1>1, <1>2 DEF Ticket, TicketStatus, Message
  <2> HIDE DEF new, no
  <2>3. /\ tickets' \in Seq(Ticket) /\ DOMAIN tickets \in SUBSET DOMAIN tickets'
        /\ \A t \in DOMAIN tickets : tickets'[t] = tickets[t]
    BY <1>1, <2>1, <2>2
  <2>4. first.sender = "buyer"
    OBVIOUS
  <2> HIDE DEF first
  <2>5. /\ messages' \in Seq(Message)
        /\ \A i \in DOMAIN messages' \ DOMAIN messages : messages'[i] = first
    BY <1>1, <2>1, <2>2
  <2>6. Advances
    BY <2>3 DEF Advances
  <2>7. TicketsInv'
    BY <1>1, <1>3, <1>4, <2>1, <2>3, <2>5, <2>6, AdvanceKeeps
  <2> QED BY <2>4, <2>5, <2>6, <2>7
<1> QED BY <1>5, <1>6

\* A request that reads, writes its message or its notice leaves the tickets as they are.
LEMMA ReadsKeep ==
    ASSUME TicketsInv, NEW r \in Callers,
           \/ \E t \in 1..MaxTickets, want \in Wishes : ReadTicket(r, t, want)
           \/ AppendMessage(r)
           \/ \E written \in BOOLEAN : NotifyBuyer(r, written)
    PROVE  TicketsInv' /\ tickets' = tickets
<1>1. /\ tickets \in Seq(Ticket) /\ messages \in Seq(Message) /\ day \in Nat
      /\ call = [q \in Callers |-> call[q]] /\ CallFits(r)
  BY DEF TicketsInv
<1>2. tickets' = tickets /\ refused' = refused /\ day' = day
  BY DEF ReadTicket, AppendMessage, NotifyBuyer
<1>3. Advances
  BY <1>2 DEF Advances
<1>4. ASSUME NEW c, call' = [call EXCEPT ![r] = c]
      PROVE  /\ call' = [q \in Callers |-> call'[q]] /\ call'[r] = c
             /\ \A q \in Callers \ {r} : call'[q] = call[q]
  BY <1>1, <1>4
<1>5. ASSUME NEW t \in 1..MaxTickets, NEW want \in Wishes, ReadTicket(r, t, want)
      PROVE  TicketsInv'
  <2> DEFINE c == [at |-> "read", ticket |-> t, wish |-> want, seen |-> tickets[t].status]
  <2>1. /\ call' = [call EXCEPT ![r] = c] /\ t \in DOMAIN tickets
        /\ Permitted(want, tickets[t].status) /\ UNCHANGED <<messages, told>>
    BY <1>5 DEF ReadTicket
  <2>2. tickets[t].status \in TicketStatus
    <3>1. tickets[t] \in Ticket
      BY <1>1, <2>1
    <3> QED BY <3>1 DEF Ticket
  <2>3. /\ c.at = "read" /\ c.ticket = t /\ c.wish = want /\ c.seen = tickets[t].status
    OBVIOUS
  <2> HIDE DEF c
  <2>4. /\ call' = [q \in Callers |-> call'[q]] /\ call'[r] = c
        /\ \A q \in Callers \ {r} : call'[q] = call[q]
    BY <1>4, <2>1
  <2>5. CallFits(r)'
    BY <1>2, <2>1, <2>2, <2>3, <2>4 DEF CallFits, Reached
  <2>6. \A q \in Callers : call'[q] = call[q] \/ CallFits(q)'
    BY <2>4, <2>5
  <2> QED BY <1>1, <1>2, <1>3, <2>1, <2>4, <2>6, AdvanceKeeps
<1>6. ASSUME call' = [call EXCEPT ![r] = NoCall]
      PROVE  call' = [q \in Callers |-> call'[q]]
               /\ \A q \in Callers : call'[q] = call[q] \/ CallFits(q)'
  <2>1. /\ call' = [q \in Callers |-> call'[q]] /\ call'[r] = NoCall
        /\ \A q \in Callers \ {r} : call'[q] = call[q]
    BY <1>4, <1>6
  <2>2. CallFits(r)'
    BY <2>1 DEF CallFits, NoCall
  <2> QED BY <2>1, <2>2
<1>7. CASE AppendMessage(r)
  <2> DEFINE m == [ticket |-> call[r].ticket, sender |-> call[r].wish.by]
  <2>1. /\ messages' = Append(messages, m) /\ call' = [call EXCEPT ![r] = NoCall]
        /\ told' = told /\ call[r].at = "read"
    BY <1>7 DEF AppendMessage
  <2>2. call[r].ticket \in Nat /\ call[r].wish \in Wishes
    BY <1>1, <2>1 DEF CallFits
  <2>3. m \in Message
    <3>1. call[r].wish.by \in {"buyer", "operator"}
      BY <2>2 DEF Wishes
    <3> QED BY <2>2, <3>1 DEF Message
  <2> HIDE DEF m
  <2>4. messages' \in Seq(Message)
    BY <1>1, <2>1, <2>3
  <2> QED BY <1>1, <1>2, <1>3, <1>6, <2>1, <2>4, AdvanceKeeps
<1>8. ASSUME NEW written \in BOOLEAN, NotifyBuyer(r, written)
      PROVE  TicketsInv'
  <2>1. /\ call[r].at = "notice" /\ call' = [call EXCEPT ![r] = NoCall] /\ messages' = messages
        /\ told' \in SUBSET (told \cup {<<call[r].ticket, call[r].wish.to>>})
    BY <1>8 DEF NotifyBuyer
  <2>2. /\ call[r].ticket \in DOMAIN tickets /\ call[r].wish.to \in TicketStatus \ {"pending"}
        /\ Reached(call[r].wish.to, tickets[call[r].ticket].status)
    BY <1>1, <2>1 DEF CallFits
  <2>3. ASSUME NEW n \in told', n \notin told
        PROVE  /\ n[1] \in DOMAIN tickets /\ n[2] \in TicketStatus \ {"pending"}
               /\ Reached(n[2], tickets[n[1]].status)
    <3>1. n = <<call[r].ticket, call[r].wish.to>>
      BY <2>1, <2>3
    <3>2. n[1] = call[r].ticket /\ n[2] = call[r].wish.to
      BY <3>1
    <3> QED BY <2>2, <3>2
  <2> QED BY <1>1, <1>2, <1>3, <1>6, <2>1, <2>3, AdvanceKeeps
<1> QED BY <1>2, <1>5, <1>7, <1>8

\* The compare-and-swap moves a ticket only as its request may.
LEMMA MovesAdvance ==
    ASSUME TicketsInv, NEW r \in Callers, MoveTicket(r)
    PROVE  TicketsInv' /\ Advances /\ messages' = messages
<1> DEFINE c == call[r]
           t == c.ticket
           ok == Swapped(t, c.seen)
<1>1. /\ tickets \in Seq(Ticket) /\ messages \in Seq(Message) /\ day \in Nat
      /\ call = [q \in Callers |-> call[q]] /\ CallFits(r)
  BY DEF TicketsInv
<1>2. /\ c.at = "read" /\ c.wish.to # "message" /\ UNCHANGED <<messages, told, refused, day>>
      /\ tickets' = IF ok THEN [tickets EXCEPT ![t].status = c.wish.to] ELSE tickets
      /\ call' = [call EXCEPT ![r] = IF Announced(c.wish, ok)
                                     THEN [at |-> "notice", ticket |-> t, wish |-> c.wish]
                                     ELSE NoCall]
  BY DEF MoveTicket
<1>3. t \in DOMAIN tickets /\ c.wish \in Wishes /\ c.seen \in TicketStatus /\ Permitted(c.wish, c.seen)
  BY <1>1, <1>2 DEF CallFits
<1>4. c.wish.to \in {"processing", "resolved", "closed"} /\ CanTransition(c.seen, c.wish.to)
  <2>1. c.wish.to \in {"processing", "resolved", "closed"}
    BY <1>2, <1>3 DEF Wishes, TicketStatus
  <2>2. CanTransition(c.seen, c.wish.to)
    <3>1. CASE c.wish = [by |-> "buyer", to |-> "closed"]
      <4>1. c.seen \in {"pending", "processing", "resolved"} /\ c.wish.to = "closed"
        BY <1>3, <3>1 DEF Permitted, CanAppendMessage, TicketStatus
      <4> QED BY <4>1 DEF CanTransition
    <3>2. CASE c.wish # [by |-> "buyer", to |-> "closed"]
      <4>1. \A s : [by |-> s, to |-> "message"].to = "message"
        OBVIOUS
      <4> QED BY <1>2, <1>3, <3>2, <4>1 DEF Permitted
    <3> QED BY <3>1, <3>2
  <2> QED BY <2>1, <2>2
<1>5. tickets[t] \in Ticket
  BY <1>1, <1>3
<1> DEFINE s == c.wish.to
<1>6. ok => tickets[t].status = c.seen
  BY DEF Swapped
<1> HIDE DEF s, ok, t
<1>7. /\ tickets' \in Seq(Ticket) /\ DOMAIN tickets' = DOMAIN tickets
      /\ \A u \in DOMAIN tickets : u # t => tickets'[u] = tickets[u]
      /\ tickets'[t].day = tickets[t].day /\ tickets'[t].no = tickets[t].no
      /\ ok => tickets'[t].status = s
      /\ ~ok => tickets' = tickets
  <2>1. CASE ok
    <3> DEFINE x == [tickets[t] EXCEPT !.status = s]
    <3>1. tickets' = [tickets EXCEPT ![t] = x]
      BY <1>2, <2>1 DEF s, t
    <3>2. x \in Ticket /\ x.day = tickets[t].day /\ x.no = tickets[t].no /\ x.status = s
      <4>1. s \in TicketStatus
        BY <1>4 DEF s, TicketStatus
      <4> QED BY <1>5, <4>1 DEF Ticket
    <3> HIDE DEF x
    <3> QED BY <1>1, <1>3, <2>1, <3>1, <3>2
  <2>2. CASE ~ok
    BY <1>1, <1>2, <2>2 DEF ok
  <2> QED BY <2>1, <2>2
<1>8. Advances
  <2>1. ASSUME NEW u \in DOMAIN tickets
        PROVE  /\ tickets'[u].day = tickets[u].day /\ tickets'[u].no = tickets[u].no
               /\ \/ tickets'[u].status = tickets[u].status
                  \/ CanTransition(tickets[u].status, tickets'[u].status)
    <3>1. CASE u = t /\ ok
      BY <1>4, <1>6, <1>7, <3>1 DEF s
    <3>2. CASE ~(u = t /\ ok)
      BY <1>7, <3>2
    <3> QED BY <3>1, <3>2
  <2> QED BY <1>7, <2>1 DEF Advances
<1>9. CallFits(r)' /\ call' = [q \in Callers |-> call'[q]]
        /\ \A q \in Callers \ {r} : call'[q] = call[q]
  <2>1. CASE Announced(c.wish, ok)
    <3> DEFINE n == [at |-> "notice", ticket |-> t, wish |-> c.wish]
    <3>1. call' = [call EXCEPT ![r] = n] /\ ok
      BY <1>2, <2>1 DEF Announced, ok, t
    <3>2. n.at = "notice" /\ n.ticket = t /\ n.wish.to = s
      BY DEF s
    <3> HIDE DEF n
    <3>3. call' = [q \in Callers |-> call'[q]] /\ call'[r] = n
            /\ \A q \in Callers \ {r} : call'[q] = call[q]
      BY <1>1, <3>1
    <3>4. t \in DOMAIN tickets' /\ s \in TicketStatus \ {"pending"} /\ Reached(s, tickets'[t].status)
      BY <1>3, <1>4, <1>7, <3>1 DEF s, t, TicketStatus, Reached
    <3> QED BY <3>2, <3>3, <3>4 DEF CallFits
  <2>2. CASE ~Announced(c.wish, ok)
    <3>1. call' = [call EXCEPT ![r] = NoCall]
      BY <1>2, <2>2 DEF ok, t
    <3>2. call' = [q \in Callers |-> call'[q]] /\ call'[r] = NoCall
            /\ \A q \in Callers \ {r} : call'[q] = call[q]
      BY <1>1, <3>1
    <3> QED BY <3>2 DEF CallFits, NoCall
  <2> QED BY <2>1, <2>2
<1>10. /\ \A q \in Callers : call'[q] = call[q] \/ CallFits(q)'
       /\ \A n \in told' : n \in told /\ \A d \in refused' : d \in refused
  BY <1>2, <1>9
<1>11. TicketsInv'
  BY <1>1, <1>2, <1>7, <1>8, <1>9, <1>10, AdvanceKeeps
<1> QED BY <1>2, <1>8, <1>11

LEMMA TicketStepsKeep ==
    TicketsInv /\ [TicketsNext]_ticketVars => TicketsInv' /\ Advances
<1> SUFFICES ASSUME TicketsInv, [TicketsNext]_ticketVars PROVE TicketsInv' /\ Advances
  OBVIOUS
<1>1. tickets' = tickets => Advances
  BY DEF Advances
<1>2. CASE CreateTicket
  BY <1>2, CreatesAdvance
<1>3. ASSUME NEW r \in Callers,
             \/ \E t \in 1..MaxTickets, want \in Wishes : ReadTicket(r, t, want)
             \/ AppendMessage(r)
             \/ \E written \in BOOLEAN : NotifyBuyer(r, written)
      PROVE  TicketsInv' /\ Advances
  BY <1>1, <1>3, ReadsKeep
<1>4. ASSUME NEW r \in Callers, MoveTicket(r) PROVE TicketsInv' /\ Advances
  BY <1>4, MovesAdvance
<1>5. CASE NewDay \/ UNCHANGED ticketVars
  <2>1. UNCHANGED <<tickets, messages, call, told, refused>> /\ day' \in Nat
    BY <1>5 DEF NewDay, ticketVars, TicketsInv
  <2>2. Advances
    BY <1>1, <2>1
  <2>3. /\ tickets' \in Seq(Ticket) /\ messages' \in Seq(Message)
        /\ call' = [r \in Callers |-> call'[r]] /\ \A r \in Callers : call'[r] = call[r]
    BY <2>1 DEF TicketsInv
  <2> QED BY <2>1, <2>2, <2>3, AdvanceKeeps
<1> QED BY <1>2, <1>3, <1>4, <1>5 DEF TicketsNext

\* The operator answers what was accepted.
LEMMA AnswersAreToAccepted ==
    ASSUME TicketsInv, [TicketsNext]_ticketVars, NEW i \in DOMAIN messages' \ DOMAIN messages,
           messages'[i].sender = "operator"
    PROVE  tickets[messages'[i].ticket].status # "pending"
<1>1. CASE CreateTicket
  BY <1>1, CreatesAdvance
<1>2. ASSUME NEW r \in Callers, AppendMessage(r)
      PROVE  tickets[messages'[i].ticket].status # "pending"
  <2> DEFINE c == call[r]
             m == [ticket |-> c.ticket, sender |-> c.wish.by]
  <2>1. messages' = Append(messages, m) /\ c.at = "read" /\ c.wish.to = "message"
    BY <1>2 DEF AppendMessage
  <2>2. Permitted(c.wish, c.seen) /\ Reached(c.seen, tickets[c.ticket].status)
    BY <2>1 DEF TicketsInv, CallFits
  <2>3. m.ticket = c.ticket /\ m.sender = c.wish.by
    OBVIOUS
  <2> HIDE DEF m
  <2>4. messages'[i] = m
    BY <2>1 DEF TicketsInv
  <2>5. c.wish.by = "operator"
    BY <2>3, <2>4
  <2>6. c.seen = "processing"
    <3>1. \A s : [by |-> "buyer", to |-> s].by = "buyer"
      OBVIOUS
    <3> QED BY <2>1, <2>2, <2>5, <3>1 DEF Permitted
  <2> QED BY <2>2, <2>3, <2>4, <2>6 DEF Reached
<1>3. CASE messages' = messages
  BY <1>3
<1>4. \/ CreateTicket \/ messages' = messages
      \/ \E r \in Callers : AppendMessage(r)
  BY DEF TicketsNext, ReadTicket, MoveTicket, NotifyBuyer, NewDay, ticketVars
<1> QED BY <1>1, <1>2, <1>3, <1>4

\* However requests interleave: tickets only move forward, the operator answers what was
\* accepted, a notice tells of a move that was made, and a ticket is refused for its number only
\* on a day that has used up its digits.
THEOREM TicketsStayTrue == TicketsSpec => TicketsAreTrue
<1>1. TicketsInv => NoticesAreTrue /\ TicketsGetNumbers
  BY DEF TicketsInv, NoticesAreTrue, Reached
<1>2. TicketsInv /\ [TicketsNext]_ticketVars =>
        [\A t \in DOMAIN tickets :
           tickets'[t].status # tickets[t].status =>
              CanTransition(tickets[t].status, tickets'[t].status)]_ticketVars
  BY TicketStepsKeep DEF Advances
<1>3. TicketsInv /\ [TicketsNext]_ticketVars =>
        [\A i \in DOMAIN messages' \ DOMAIN messages :
           messages'[i].sender = "operator" =>
              tickets[messages'[i].ticket].status # "pending"]_ticketVars
  BY AnswersAreToAccepted
<1>4. TicketsInv /\ [TicketsNext]_ticketVars => TicketsInv'
  BY TicketStepsKeep
<1> QED BY <1>1, <1>2, <1>3, <1>4, TicketsBegin, PTL
        DEF TicketsSpec, TicketsAreTrue, TicketsMoveForward, AnsweredWasAccepted


-----------------------------------------------------------------------------
(* Invoices *)

InvoiceRow == [buyer : Payers \cup {NoApplication.buyer}, year : Nat, no : Nat,
               amount : {SumInvoiceAmount(S) : S \in SUBSET Bills},
               status : {"pending", "issued", "rejected"}]
ApplicationRow == [at : {"idle", "locking", "writing", "conflict"},
                   buyer : Payers \cup {NoApplication.buyer}, bills : SUBSET Bills,
                   taken : SUBSET Bills, since : Nat]

InvoiceTypes ==
    /\ invoices \in Seq(InvoiceRow) /\ apply \in [Applications -> ApplicationRow]
    /\ links \in SUBSET (Nat \X Bills) /\ \A l \in links : l[1] \in DOMAIN invoices
    /\ bill \in [Bills -> BillStatus] /\ year \in Nat \ {0}

\* No order of S is on a live invoice that was there when the application began.
FreeBefore(S, since) == \A l \in links : l[1] <= since /\ Live(l[1]) => l[2] \notin S

\* The digits of some year are used up.
YearsAreFull == \E y \in 1..year : Limit \in Numbers(y)

ApplyFits(r) ==
    LET a == apply[r] IN
    /\ a.at = "locking" =>
          a.since <= Len(invoices) /\ FreeBefore(Bills \ a.taken, a.since)
    /\ a.at = "writing" =>
          /\ a.since <= Len(invoices) /\ FreeBefore(a.bills, a.since)
          /\ \A b \in a.bills : CanInvoiceOrder(bill[b])
    /\ a.at = "conflict" => Len(invoices) > a.since \/ YearsAreFull

InvoicesInv ==
    InvoiceTypes /\ InvoicedOnce /\ InvoicesAddUp /\ \A r \in Applications : ApplyFits(r)

\* The numbers of a year can be counted.
LEMMA YearsAreFinite ==
    ASSUME InvoiceTypes, NEW y
    PROVE  Numbers(y) \in SUBSET Nat /\ IsFiniteSet(Numbers(y))
<1> DEFINE T == {j \in DOMAIN invoices : invoices[j].year = y}
<1>0. invoices \in Seq(InvoiceRow)
  BY DEF InvoiceTypes
<1>1. T \in SUBSET (1..Len(invoices)) /\ Len(invoices) \in Nat
  BY <1>0
<1>2. IsFiniteSet(1..Len(invoices))
  BY <1>1, FS_Interval
<1>3. IsFiniteSet(T)
  BY <1>1, <1>2, FS_Subset
<1>4. ASSUME NEW i \in T PROVE invoices[i].no \in Nat
  <2>1. invoices[i] \in InvoiceRow
    BY <1>0
  <2> QED BY <2>1 DEF InvoiceRow
<1>5. Numbers(y) = {invoices[i].no : i \in T}
  BY DEF Numbers
<1> HIDE DEF T
<1> DEFINE f == [i \in T |-> invoices[i].no]
<1>6. f \in Surjection(T, {invoices[i].no : i \in T})
  BY DEF Surjection
<1> HIDE DEF f
<1>7. IsFiniteSet({invoices[i].no : i \in T})
  BY <1>3, <1>6, FS_Surjection
<1> QED BY <1>4, <1>5, <1>7

\* What a step may do to the invoices that are there: a live one may cease to be so, its links and
\* numbers stay.
Settles ==
    /\ DOMAIN invoices \in SUBSET DOMAIN invoices'
    /\ Len(invoices') \in Nat /\ Len(invoices) <= Len(invoices')
    /\ \A i \in DOMAIN invoices :
          /\ invoices'[i].year = invoices[i].year /\ invoices'[i].no = invoices[i].no
          /\ Live(i)' => Live(i)
    /\ \A l \in links' : l \in links \/ l[1] = Len(invoices) + 1
    /\ year' \in Nat /\ year <= year'

LEMMA FreeStays ==
    ASSUME InvoiceTypes, Settles, NEW S, NEW since \in Nat, since <= Len(invoices),
           FreeBefore(S, since)
    PROVE  FreeBefore(S, since)' /\ since <= Len(invoices')
<1>1. Len(invoices) \in Nat /\ Len(invoices') \in Nat /\ Len(invoices) <= Len(invoices')
  BY DEF InvoiceTypes, Settles
<1>2. since <= Len(invoices')
  BY <1>1
<1>3. ASSUME NEW l \in links', l[1] <= since, Live(l[1])' PROVE l[2] \notin S
  <2>1. l \in links \/ l[1] = Len(invoices) + 1
    BY DEF Settles
  <2>2. l \in links
    BY <1>1, <1>3, <2>1
  <2>3. l[1] \in DOMAIN invoices
    BY <2>2 DEF InvoiceTypes
  <2>4. Live(l[1])
    BY <1>3, <2>3 DEF Settles
  <2> QED BY <1>3, <2>2, <2>4 DEF FreeBefore
<1> QED BY <1>2, <1>3 DEF FreeBefore

LEMMA FullStays ==
    ASSUME InvoiceTypes, Settles, YearsAreFull
    PROVE  YearsAreFull'
<1>1. PICK y \in 1..year : Limit \in Numbers(y)
  BY DEF YearsAreFull
<1>2. PICK i \in DOMAIN invoices : invoices[i].year = y /\ invoices[i].no = Limit
  BY <1>1 DEF Numbers
<1>3. i \in DOMAIN invoices' /\ invoices'[i].year = y /\ invoices'[i].no = Limit
  BY <1>2 DEF Settles
<1>4. Limit \in Numbers(y)'
  BY <1>3 DEF Numbers
<1>5. y \in 1..year'
  BY DEF Settles, InvoiceTypes
<1> QED BY <1>4, <1>5 DEF YearsAreFull

\* A request that waits stays in order as long as its orders stay invoiceable.
LEMMA WaitersFit ==
    ASSUME InvoicesInv, Settles, NEW r \in Applications, apply'[r] = apply[r],
           apply[r].at = "writing" =>
              \A b \in apply[r].bills : CanInvoiceOrder(bill[b]) => CanInvoiceOrder(bill'[b])
    PROVE  ApplyFits(r)'
<1> USE DEF InvoicesInv
<1>p. PICK a : a = apply[r]
  OBVIOUS
<1>0. InvoiceTypes /\ ApplyFits(r) /\ a \in ApplicationRow /\ apply[r] = a /\ apply'[r] = a
  BY <1>p DEF InvoiceTypes
<1>1. a.since \in Nat
  BY <1>0 DEF ApplicationRow
<1>2. ASSUME a.at = "locking"
      PROVE  a.since <= Len(invoices') /\ FreeBefore(Bills \ a.taken, a.since)'
  <2>1. a.since <= Len(invoices) /\ FreeBefore(Bills \ a.taken, a.since)
    BY <1>0, <1>2 DEF ApplyFits
  <2> QED BY <1>0, <1>1, <2>1, FreeStays
<1>3. ASSUME a.at = "writing"
      PROVE  /\ a.since <= Len(invoices') /\ FreeBefore(a.bills, a.since)'
             /\ \A b \in a.bills : CanInvoiceOrder(bill'[b])
  BY <1>0, <1>1, <1>3, FreeStays DEF ApplyFits
<1>4. ASSUME a.at = "conflict" PROVE Len(invoices') > a.since \/ YearsAreFull'
  <2>1. Len(invoices) > a.since \/ YearsAreFull
    BY <1>0, <1>4 DEF ApplyFits
  <2>2. /\ Len(invoices) \in Nat /\ Len(invoices') \in Nat /\ Len(invoices) <= Len(invoices')
    BY <1>0 DEF InvoiceTypes, Settles
  <2>3. YearsAreFull => YearsAreFull'
    BY <1>0, FullStays
  <2> QED BY <1>1, <2>1, <2>2, <2>3
<1> QED BY <1>0, <1>2, <1>3, <1>4 DEF ApplyFits


LEMMA InvoicesBegin == InvoicesInit => InvoicesInv
<1> SUFFICES ASSUME InvoicesInit PROVE InvoicesInv
  OBVIOUS
<1>1. /\ bill = [b \in Bills |-> "pending_payment"] /\ invoices = <<>> /\ links = {}
      /\ apply = [r \in Applications |-> NoApplication] /\ year = 1
  BY DEF InvoicesInit
<1>2. NoApplication \in ApplicationRow /\ NoApplication.at = "idle"
  BY DEF NoApplication, ApplicationRow
<1>3. invoices \in Seq(InvoiceRow) /\ DOMAIN invoices = {}
  BY <1>1
<1>4. InvoiceTypes
  BY <1>1, <1>2, <1>3 DEF InvoiceTypes, BillStatus
<1>5. InvoicedOnce /\ InvoicesAddUp
  BY <1>3 DEF InvoicedOnce, InvoicesAddUp
<1>6. \A r \in Applications : ApplyFits(r)
  BY <1>1, <1>2 DEF ApplyFits
<1> QED BY <1>4, <1>5, <1>6 DEF InvoicesInv

\* A step that changes one request and no invoice.
LEMMA OneRequest ==
    ASSUME InvoicesInv, NEW r \in Applications, NEW a, a \in ApplicationRow,
           apply' = [apply EXCEPT ![r] = a], UNCHANGED <<bill, titled, invoices, links, year>>,
           ApplyFits(r)'
    PROVE  InvoicesInv'
<1> USE DEF InvoicesInv
<1>1. InvoiceTypes'
  BY DEF InvoiceTypes
<1>2. InvoicedOnce' /\ InvoicesAddUp'
  BY DEF InvoicedOnce, InvoicesAddUp, Live
<1>3. Settles
  BY DEF Settles, Live, InvoiceTypes
<1>4. ASSUME NEW q \in Applications PROVE ApplyFits(q)'
  <2>1. CASE q = r
    BY <2>1
  <2>2. CASE q # r
    <3>1. apply'[q] = apply[q]
      BY <2>2 DEF InvoiceTypes
    <3> QED BY <1>3, <3>1, WaitersFit
  <2> QED BY <2>1, <2>2
<1> QED BY <1>1, <1>2, <1>4

LEMMA BeginsKeep ==
    ASSUME InvoicesInv, NEW r \in Applications, NEW b \in Payers, NEW S \in SUBSET Bills,
           BeginApply(r, b, S)
    PROVE  InvoicesInv'
<1> USE DEF InvoicesInv
<1>1. PICK a : a = [at |-> "locking", buyer |-> b, bills |-> S, taken |-> Taken,
                    since |-> Len(invoices)]
  OBVIOUS
<1>2. apply' = [apply EXCEPT ![r] = a] /\ UNCHANGED <<bill, titled, invoices, links, year>>
  BY <1>1 DEF BeginApply
<1>3. Taken \in SUBSET Bills
  BY DEF Taken, InvoiceTypes
<1>4. /\ a \in ApplicationRow /\ a.at = "locking" /\ a.taken = Taken /\ a.since = Len(invoices)
  <2>1. Len(invoices) \in Nat
    BY DEF InvoiceTypes
  <2> QED BY <1>1, <1>3, <2>1 DEF ApplicationRow
<1>5. apply'[r] = a
  BY <1>2 DEF InvoiceTypes
<1>6. FreeBefore(Bills \ a.taken, a.since)'
  <2>1. \A l \in links : Live(l[1]) => l[2] \in a.taken
    BY <1>4 DEF Taken
  <2>2. \A l \in links' : Live(l[1])' => l[2] \in a.taken
    BY <1>2, <2>1 DEF Live
  <2> QED BY <2>2 DEF FreeBefore
<1>7. ApplyFits(r)'
  <2>1. a.since <= Len(invoices')
    BY <1>2, <1>4 DEF InvoiceTypes
  <2> QED BY <1>4, <1>5, <1>6, <2>1 DEF ApplyFits
<1> QED BY <1>2, <1>4, <1>7, OneRequest

\* The check under the lock.
LEMMA LocksKeep ==
    ASSUME InvoicesInv, NEW r \in Applications, LockBillableOrders(r)
    PROVE  InvoicesInv'
<1> USE DEF InvoicesInv
<1>1. PICK a : a = apply[r]
  OBVIOUS
<1>2. a \in ApplicationRow /\ a.at = "locking" /\ UNCHANGED <<bill, titled, invoices, links, year>>
  BY <1>1 DEF InvoiceTypes, LockBillableOrders
<1>3. a.since <= Len(invoices) /\ FreeBefore(Bills \ a.taken, a.since)
  BY <1>1, <1>2 DEF ApplyFits
<1>4. CASE /\ \A b \in a.bills : /\ PayerOf[b] = a.buyer /\ CanInvoiceOrder(bill[b])
                                 /\ b \notin a.taken
  <2>1. PICK w : w = [a EXCEPT !.at = "writing", !.taken = {}]
    OBVIOUS
  <2>2. apply' = [apply EXCEPT ![r] = w]
    BY <1>1, <1>4, <2>1 DEF LockBillableOrders
  <2>3. /\ w \in ApplicationRow /\ w.at = "writing" /\ w.bills = a.bills /\ w.since = a.since
    BY <1>2, <2>1 DEF ApplicationRow
  <2>4. apply'[r] = w
    BY <2>2 DEF InvoiceTypes
  <2>5. FreeBefore(w.bills, w.since)'
    <3>1. a.bills \in SUBSET (Bills \ a.taken)
      BY <1>2, <1>4 DEF ApplicationRow
    <3>2. \A l \in links : l[1] <= a.since /\ Live(l[1]) => l[2] \notin a.bills
      BY <1>3, <3>1 DEF FreeBefore
    <3> QED BY <1>2, <2>3, <3>2 DEF FreeBefore, Live
  <2>6. ApplyFits(r)'
    BY <1>2, <1>3, <1>4, <2>3, <2>4, <2>5 DEF ApplyFits
  <2> QED BY <1>2, <2>2, <2>3, <2>6, OneRequest
<1>5. CASE ~(\A b \in a.bills : /\ PayerOf[b] = a.buyer /\ CanInvoiceOrder(bill[b])
                                /\ b \notin a.taken)
  <2>1. apply' = [apply EXCEPT ![r] = NoApplication]
    BY <1>1, <1>5 DEF LockBillableOrders
  <2>2. NoApplication \in ApplicationRow /\ NoApplication.at = "idle"
    BY DEF NoApplication, ApplicationRow
  <2>3. ApplyFits(r)'
    BY <2>1, <2>2 DEF InvoiceTypes, ApplyFits
  <2> QED BY <1>2, <2>1, <2>2, <2>3, OneRequest
<1> QED BY <1>4, <1>5

\* An invoice that is written is for orders that are on no other that stands.
LEMMA InvoiceWritten ==
    ASSUME InvoicesInv, NEW r \in Applications, NEW a \in ApplicationRow, a = apply[r],
           WriteInvoice(r), Unique(year, NextNumber(Numbers(year)), a.bills)
    PROVE  /\ InvoicesInv'
           /\ \A l \in links' \ links : CanInvoiceOrder(bill[l[2]])
<1> USE DEF InvoicesInv
<1> DEFINE no == NextNumber(Numbers(year))
           new == [buyer |-> a.buyer, year |-> year, no |-> no,
                   amount |-> SumInvoiceAmount(a.bills), status |-> "pending"]
<1>0. PICK n : n = Len(invoices) + 1
  OBVIOUS
<1>1. /\ a.at = "writing" /\ invoices' = Append(invoices, new)
      /\ links' = Released(a.bills) \cup {<<Len(invoices) + 1, b>> : b \in a.bills}
      /\ apply' = [apply EXCEPT ![r] = NoApplication] /\ UNCHANGED <<bill, titled, year>>
  BY DEF WriteInvoice
<1>2. /\ Len(invoices) \in Nat /\ n \in Nat /\ invoices \in Seq(InvoiceRow)
      /\ year \in Nat /\ a.bills \in SUBSET Bills
      /\ n \notin DOMAIN invoices /\ Len(invoices) < n
  BY <1>0 DEF InvoiceTypes, ApplicationRow
<1>3. new \in InvoiceRow /\ new.status = "pending" /\ new.amount = SumInvoiceAmount(a.bills)
  <2>1. no \in Nat
    BY YearsAreFinite, NumberIsTaken
  <2> HIDE DEF no
  <2> QED BY <1>2, <2>1 DEF InvoiceRow, ApplicationRow
<1>4. /\ links' = Released(a.bills) \cup {<<n, b>> : b \in a.bills}
      /\ Released(a.bills) \in SUBSET links
      /\ \A l \in Released(a.bills) : l[2] \notin a.bills
      /\ \A l \in links : l \in Released(a.bills) \/ invoices[l[1]].status = "rejected"
  BY <1>0, <1>1 DEF Released, Unique
<1> HIDE DEF no, new
<1>5. /\ invoices' \in Seq(InvoiceRow) /\ DOMAIN invoices' = DOMAIN invoices \cup {n}
      /\ Len(invoices') = n /\ invoices'[n] = new
      /\ \A i \in DOMAIN invoices : invoices'[i] = invoices[i]
  <2>1. /\ Append(invoices, new) \in Seq(InvoiceRow) /\ Len(Append(invoices, new)) = n
        /\ \A i \in 1..Len(invoices) : Append(invoices, new)[i] = invoices[i]
        /\ Append(invoices, new)[n] = new
    BY <1>0, <1>2, <1>3, AppendProperties
  <2>2. ASSUME NEW row \in Seq(InvoiceRow), Len(row) = n
        PROVE  DOMAIN row = 1..n
    BY <2>2
  <2>3. DOMAIN invoices = 1..Len(invoices) /\ 1..n = 1..Len(invoices) \cup {n}
    BY <1>0, <1>2
  <2> QED BY <1>1, <2>1, <2>2, <2>3, Zenon
<1>6. ASSUME NEW i \in DOMAIN invoices PROVE Live(i)' = Live(i)
  BY <1>5 DEF Live
<1>7. Live(n)'
  BY <1>3, <1>5 DEF Live
<1>8. Settles
  <2>1. \A l \in links' : l \in links \/ l[1] = n
    BY <1>4
  <2> QED BY <1>0, <1>1, <1>2, <1>5, <1>6, <2>1 DEF Settles
<1>9. InvoiceTypes'
  <2>1. links' \in SUBSET (Nat \X Bills) /\ \A l \in links' : l[1] \in DOMAIN invoices'
    BY <1>2, <1>4, <1>5 DEF InvoiceTypes
  <2>2. NoApplication \in ApplicationRow
    BY DEF NoApplication, ApplicationRow
  <2> QED BY <1>1, <1>5, <2>1, <2>2 DEF InvoiceTypes
<1>10. \A l \in links : l[1] \in DOMAIN invoices
  BY DEF InvoiceTypes
<1>11. ASSUME NEW i \in DOMAIN invoices, NEW b \in Bills, Live(i)
       PROVE  <<i, b>> \in links' <=> <<i, b>> \in links
  <2>1. invoices[i].status # "rejected" /\ i # n
    BY <1>2, <1>11 DEF Live
  <2>2. <<i, b>> \in links => <<i, b>> \in Released(a.bills)
    <3>1. <<i, b>>[1] = i
      OBVIOUS
    <3> QED BY <1>4, <2>1, <3>1
  <2>3. <<i, b>> \in {<<n, c>> : c \in a.bills} => i = n
    OBVIOUS
  <2> QED BY <1>4, <2>1, <2>2, <2>3
<1>12. ASSUME NEW b \in Bills PROVE <<n, b>> \in links' <=> b \in a.bills
  <2>1. <<n, b>> \notin Released(a.bills)
    <3>1. <<n, b>>[1] = n
      OBVIOUS
    <3> QED BY <1>2, <1>4, <1>10, <3>1
  <2> QED BY <1>4, <2>1
<1>13. InvoicesAddUp'
  <2>1. ASSUME NEW i \in DOMAIN invoices', Live(i)'
        PROVE  invoices'[i].amount = SumInvoiceAmount({b \in Bills : <<i, b>> \in links'})
    <3>1. CASE i = n
      <4>1. {b \in Bills : <<i, b>> \in links'} = a.bills
        BY <1>2, <1>12, <3>1
      <4> QED BY <1>3, <1>5, <3>1, <4>1
    <3>2. CASE i # n
      <4>1. i \in DOMAIN invoices /\ Live(i)
        BY <1>5, <1>6, <2>1, <3>2
      <4>2. {b \in Bills : <<i, b>> \in links'} = {b \in Bills : <<i, b>> \in links}
        BY <1>11, <4>1
      <4>3. invoices[i].amount = SumInvoiceAmount({b \in Bills : <<i, b>> \in links})
        BY <4>1 DEF InvoicesAddUp
      <4> QED BY <1>5, <4>1, <4>2, <4>3
    <3> QED BY <3>1, <3>2
  <2> QED BY <2>1 DEF InvoicesAddUp
<1>14. InvoicedOnce'
  <2>1. ASSUME NEW i \in DOMAIN invoices', NEW j \in DOMAIN invoices', NEW b \in Bills,
               Live(i)', Live(j)', <<i, b>> \in links', <<j, b>> \in links', i # n, j = n
        PROVE  FALSE
    <3>1. i \in DOMAIN invoices /\ Live(i)
      BY <1>5, <1>6, <2>1
    <3>2. b \in a.bills
      BY <1>12, <2>1
    <3>3. <<i, b>> \in links /\ invoices[i].status # "rejected"
      BY <1>11, <2>1, <3>1 DEF Live
    <3>4. <<i, b>>[1] = i /\ <<i, b>>[2] = b
      OBVIOUS
    <3>5. <<i, b>> \in Released(a.bills)
      BY <1>4, <3>3, <3>4
    <3> QED BY <1>4, <3>2, <3>4, <3>5
  <2>2. ASSUME NEW i \in DOMAIN invoices', NEW j \in DOMAIN invoices', NEW b \in Bills,
               Live(i)', Live(j)', <<i, b>> \in links', <<j, b>> \in links', i # n, j # n
        PROVE  i = j
    <3>1. i \in DOMAIN invoices /\ Live(i) /\ j \in DOMAIN invoices /\ Live(j)
      BY <1>5, <1>6, <2>2
    <3>2. <<i, b>> \in links /\ <<j, b>> \in links
      BY <1>11, <2>2, <3>1
    <3> QED BY <3>1, <3>2 DEF InvoicedOnce
  <2> QED BY <2>1, <2>2 DEF InvoicedOnce
<1>15. ASSUME NEW q \in Applications PROVE ApplyFits(q)'
  <2>1. CASE q = r
    <3>1. apply'[r] = NoApplication /\ NoApplication.at = "idle"
      BY <1>1 DEF InvoiceTypes, NoApplication
    <3> QED BY <2>1, <3>1 DEF ApplyFits
  <2>2. CASE q # r
    <3>1. apply'[q] = apply[q] /\ bill' = bill
      BY <1>1, <2>2 DEF InvoiceTypes
    <3> QED BY <1>8, <3>1, WaitersFit
  <2> QED BY <2>1, <2>2
<1>16. ASSUME NEW l \in links' \ links PROVE CanInvoiceOrder(bill[l[2]])
  <2>1. PICK b \in a.bills : l = <<n, b>>
    BY <1>4
  <2>2. l[2] = b
    BY <2>1
  <2>3. CanInvoiceOrder(bill[b])
    BY <1>1 DEF ApplyFits
  <2> QED BY <2>2, <2>3
<1> QED BY <1>9, <1>13, <1>14, <1>15, <1>16

\* An application that fails has been overtaken, or the digits are used up.
LEMMA ConflictKeeps ==
    ASSUME InvoicesInv, NEW r \in Applications, NEW a \in ApplicationRow, a = apply[r],
           WriteInvoice(r), ~Unique(year, NextNumber(Numbers(year)), a.bills)
    PROVE  InvoicesInv' /\ links' = links
<1> USE DEF InvoicesInv
<1>1. /\ a.at = "writing" /\ UNCHANGED <<bill, titled, invoices, links, year>>
      /\ apply' = [apply EXCEPT ![r] = [NoApplication EXCEPT !.at = "conflict", !.since = a.since]]
  BY DEF WriteInvoice
<1>2. PICK w : w = [NoApplication EXCEPT !.at = "conflict", !.since = a.since]
  OBVIOUS
<1>3. /\ w \in ApplicationRow /\ w.at = "conflict" /\ w.since = a.since /\ a.since \in Nat
      /\ apply' = [apply EXCEPT ![r] = w]
  BY <1>1, <1>2 DEF NoApplication, ApplicationRow
<1>4. apply'[r] = w
  BY <1>3 DEF InvoiceTypes
<1>5. a.since <= Len(invoices) /\ FreeBefore(a.bills, a.since)
  BY <1>1 DEF ApplyFits
<1>6. Len(invoices) > a.since \/ YearsAreFull
  <2>1. CASE NextNumber(Numbers(year)) \in Numbers(year)
    <3>1. Limit \in Numbers(year)
      BY <2>1, YearsAreFinite, NumberIsTaken
    <3>2. year \in 1..year
      BY DEF InvoiceTypes
    <3> QED BY <3>1, <3>2 DEF YearsAreFull
  <2>2. ASSUME NEW l \in Released(a.bills), l[2] \in a.bills
        PROVE  Len(invoices) > a.since
    <3>1. l \in links /\ l[1] \in DOMAIN invoices /\ invoices[l[1]].status # "rejected"
      BY <2>2 DEF Released, InvoiceTypes
    <3>2. invoices[l[1]] \in InvoiceRow
      BY <3>1 DEF InvoiceTypes
    <3>3. Live(l[1])
      BY <3>1, <3>2 DEF Live, InvoiceRow
    <3>4. ~(l[1] <= a.since)
      BY <1>5, <2>2, <3>1, <3>3 DEF FreeBefore
    <3>5. l[1] \in 1..Len(invoices) /\ Len(invoices) \in Nat
      BY <3>1 DEF InvoiceTypes
    <3> QED BY <1>3, <3>4, <3>5
  <2> QED BY <2>1, <2>2 DEF Unique
<1>7. ApplyFits(r)'
  BY <1>1, <1>3, <1>4, <1>6 DEF ApplyFits, YearsAreFull, Numbers
<1> QED BY <1>1, <1>3, <1>7, OneRequest

\* An invoice that is issued or rejected, an order that moves, a year that begins.
LEMMA OthersSettle ==
    ASSUME InvoicesInv,
           \/ \E b \in Payers : SaveTitle(b)
           \/ \E i \in DOMAIN invoices : CloseInvoice(i, "issued") \/ CloseInvoice(i, "rejected")
           \/ \E b \in Bills, status \in BillStatus : BillMoves(b, status)
           \/ NewYear
           \/ UNCHANGED invoiceVars
    PROVE  InvoicesInv' /\ links' = links
<1> USE DEF InvoicesInv
<1>1. links' = links /\ apply' = apply
  BY DEF SaveTitle, CloseInvoice, BillMoves, NewYear, invoiceVars
<1>2. year' \in Nat \ {0} /\ year <= year'
  BY DEF SaveTitle, CloseInvoice, BillMoves, NewYear, invoiceVars, InvoiceTypes
<1>3. \/ invoices' = invoices
      \/ \E i \in DOMAIN invoices, s \in {"issued", "rejected"} :
            invoices[i].status = "pending" /\ invoices' = [invoices EXCEPT ![i].status = s]
  BY DEF SaveTitle, CloseInvoice, BillMoves, NewYear, invoiceVars
<1>4. /\ bill' \in [Bills -> BillStatus]
      /\ \A b \in Bills : ~Locked(b) \/ bill'[b] = bill[b]
  BY DEF SaveTitle, CloseInvoice, BillMoves, NewYear, invoiceVars, InvoiceTypes
<1>5. /\ invoices' \in Seq(InvoiceRow) /\ DOMAIN invoices' = DOMAIN invoices
      /\ Len(invoices') = Len(invoices)
      /\ \A i \in DOMAIN invoices :
            /\ invoices'[i].year = invoices[i].year /\ invoices'[i].no = invoices[i].no
            /\ invoices'[i].amount = invoices[i].amount
            /\ Live(i)' => Live(i)
  <2>1. CASE invoices' = invoices
    BY <2>1 DEF Live, InvoiceTypes
  <2>2. ASSUME NEW i \in DOMAIN invoices, NEW s \in {"issued", "rejected"},
               invoices[i].status = "pending", invoices' = [invoices EXCEPT ![i].status = s]
        PROVE  /\ invoices' \in Seq(InvoiceRow) /\ DOMAIN invoices' = DOMAIN invoices
               /\ Len(invoices') = Len(invoices)
               /\ \A j \in DOMAIN invoices :
                     /\ invoices'[j].year = invoices[j].year /\ invoices'[j].no = invoices[j].no
                     /\ invoices'[j].amount = invoices[j].amount
                     /\ Live(j)' => Live(j)
    <3>1. invoices \in Seq(InvoiceRow) /\ invoices[i] \in InvoiceRow
      BY DEF InvoiceTypes
    <3> DEFINE x == [invoices[i] EXCEPT !.status = s]
    <3>2. invoices' = [invoices EXCEPT ![i] = x]
      BY <2>2
    <3>3. x \in InvoiceRow /\ x.year = invoices[i].year /\ x.no = invoices[i].no
            /\ x.amount = invoices[i].amount
      BY <3>1 DEF InvoiceRow
    <3> HIDE DEF x
    <3>4. /\ invoices' \in Seq(InvoiceRow) /\ Len(invoices') = Len(invoices)
          /\ DOMAIN invoices' = DOMAIN invoices /\ invoices'[i] = x
          /\ \A j \in DOMAIN invoices : j # i => invoices'[j] = invoices[j]
      BY <3>1, <3>2, <3>3
    <3>5. Live(i)
      BY <2>2 DEF Live
    <3> QED BY <3>3, <3>4, <3>5 DEF Live
  <2> QED BY <1>3, <2>1, <2>2
<1>6. Settles
  BY <1>1, <1>2, <1>5 DEF Settles, InvoiceTypes
<1>7. InvoiceTypes'
  BY <1>1, <1>2, <1>4, <1>5 DEF InvoiceTypes
<1>8. InvoicedOnce'
  BY <1>1, <1>5 DEF InvoicedOnce
<1>9. InvoicesAddUp'
  <2>2. ASSUME NEW i \in DOMAIN invoices', Live(i)'
        PROVE  invoices'[i].amount = SumInvoiceAmount({b \in Bills : <<i, b>> \in links'})
    <3>1. i \in DOMAIN invoices /\ Live(i) /\ invoices'[i].amount = invoices[i].amount
      BY <1>5, <2>2
    <3>2. {b \in Bills : <<i, b>> \in links'} = {b \in Bills : <<i, b>> \in links}
      BY <1>1
    <3> QED BY <3>1, <3>2 DEF InvoicesAddUp
  <2> QED BY <2>2 DEF InvoicesAddUp
<1>10. ASSUME NEW r \in Applications PROVE ApplyFits(r)'
  <2>1. ASSUME apply[r].at = "writing", NEW b \in apply[r].bills PROVE bill'[b] = bill[b]
    <3>1. Locked(b)
      BY <2>1 DEF Locked
    <3>2. b \in Bills
      BY <2>1 DEF InvoiceTypes, ApplicationRow
    <3> QED BY <1>4, <3>1, <3>2
  <2> QED BY <1>1, <1>6, <2>1, WaitersFit
<1> QED BY <1>1, <1>7, <1>8, <1>9, <1>10

LEMMA InvoiceStepsKeep ==
    ASSUME InvoicesInv, [InvoicesNext]_invoiceVars
    PROVE  InvoicesInv' /\ \A l \in links' \ links : CanInvoiceOrder(bill[l[2]])
<1>1. ASSUME NEW r \in Applications, NEW b \in Payers, NEW S \in SUBSET Bills, BeginApply(r, b, S)
      PROVE  InvoicesInv' /\ links' = links
  BY <1>1, BeginsKeep DEF BeginApply
<1>2. ASSUME NEW r \in Applications, LockBillableOrders(r) PROVE InvoicesInv' /\ links' = links
  BY <1>2, LocksKeep DEF LockBillableOrders
<1>3. ASSUME NEW r \in Applications, WriteInvoice(r)
      PROVE  InvoicesInv' /\ \A l \in links' \ links : CanInvoiceOrder(bill[l[2]])
  <2>1. apply[r] \in ApplicationRow
    BY DEF InvoicesInv, InvoiceTypes
  <2>2. PICK a \in ApplicationRow : a = apply[r]
    BY <2>1
  <2>3. CASE Unique(year, NextNumber(Numbers(year)), a.bills)
    BY <1>3, <2>2, <2>3, InvoiceWritten
  <2>4. CASE ~Unique(year, NextNumber(Numbers(year)), a.bills)
    <3>1. InvoicesInv' /\ links' = links
      BY <1>3, <2>2, <2>4, ConflictKeeps
    <3> QED BY <3>1
  <2> QED BY <2>3, <2>4
<1>4. ASSUME NEW r \in Applications, Answered(r) PROVE InvoicesInv' /\ links' = links
  <2>1. /\ apply' = [apply EXCEPT ![r] = NoApplication]
        /\ UNCHANGED <<bill, titled, invoices, links, year>>
    BY <1>4 DEF Answered
  <2>2. NoApplication \in ApplicationRow /\ NoApplication.at = "idle"
    BY DEF NoApplication, ApplicationRow
  <2>3. ApplyFits(r)'
    BY <2>1, <2>2 DEF InvoicesInv, InvoiceTypes, ApplyFits
  <2> QED BY <2>1, <2>2, <2>3, OneRequest
<1>5. CASE \/ \E b \in Payers : SaveTitle(b)
           \/ \E i \in DOMAIN invoices : CloseInvoice(i, "issued") \/ CloseInvoice(i, "rejected")
           \/ \E b \in Bills, status \in BillStatus : BillMoves(b, status)
           \/ NewYear
           \/ UNCHANGED invoiceVars
  <2>1. InvoicesInv' /\ links' = links
    BY <1>5, OthersSettle
  <2> QED BY <2>1
<1> QED BY <1>1, <1>2, <1>3, <1>4, <1>5 DEF InvoicesNext, InvoiceRequest

\* However applications overlap each other, refunds, rejections and the end of the year: an order
\* is on one invoice that stands, the invoice adds up, what was invoiced had been paid for, and
\* who is refused was overtaken or finds the digits used up.
THEOREM InvoicesStayTrue == InvoicesSpec => InvoicesAreTrue
<1>1. InvoicesInv => InvoicedOnce /\ InvoicesAddUp /\ ConflictsAreReal
  BY DEF InvoicesInv, ApplyFits, ConflictsAreReal, YearsAreFull
<1>2. InvoicesInv /\ [InvoicesNext]_invoiceVars => InvoicesInv'
  BY InvoiceStepsKeep
<1>3. InvoicesInv /\ [InvoicesNext]_invoiceVars =>
        [\A l \in links' \ links : CanInvoiceOrder(bill[l[2]])]_invoiceVars
  BY InvoiceStepsKeep
<1> QED BY <1>1, <1>2, <1>3, InvoicesBegin, PTL
        DEF InvoicesSpec, InvoicesAreTrue, InvoicedWasPaid


-----------------------------------------------------------------------------
(* Equipment *)

ListingRow == [status : {"pending", "active", "draft", "offline"}, form : Forms, reason : BOOLEAN]
ReviewRow == [at : {"read"}, listing : Nat, verdict : {"active", "draft"}, raced : BOOLEAN]
InquiryRow == [listing : Nat, by : LeadUsers, quantity : Int, seen : Int]
AskingRow == [at : {"insert", "mirror"}, listing : Nat, by : LeadUsers, quantity : Int, seen : Int]

\* A review under way has read a listing that waits for it, or is marked as raced.
ReviewFits(r) ==
    \/ review[r] = NoReview
    \/ /\ review[r] \in ReviewRow /\ review[r].listing \in DOMAIN listings
       /\ review[r].raced = TRUE \/ listings[review[r].listing].status = "pending"

ListingsInv ==
    /\ listings \in Seq(ListingRow) /\ \A e \in DOMAIN listings : ValidForm(listings[e].form)
    /\ DraftsSayWhy
    /\ review = [r \in Reviewers |-> review[r]] /\ \A r \in Reviewers : ReviewFits(r)

\* What an inquiry needs to become a lead: one that is recorded and not mirrored yet is still
\* to be counted.
MarketLeads(u) == {l \in DOMAIN leads : leads[l].by = u /\ leads[l].source = "equipment_market"}
Recordings(u) == {i \in DOMAIN inquiries : inquiries[i].by = u}
Mirrors(u) == {i \in Inquirers : asking[i].at = "mirror" /\ asking[i].by = u}

LeadsAreCovered(u) ==
    IsFiniteSet(Mirrors(u)) /\ Cardinality(MarketLeads(u)) + Cardinality(Mirrors(u))
                                 <= Cardinality(Recordings(u))

AskingFits(i) ==
    \/ asking[i] = NoAsking
    \/ asking[i] \in AskingRow /\ asking[i].quantity \in 1..asking[i].seen

InquiriesInv ==
    /\ inquiries \in Seq(InquiryRow) /\ leads \in Seq(Lead) /\ clock \in Nat
    /\ InquiriesWereOnOffer
    /\ asking = [i \in Inquirers |-> asking[i]] /\ \A i \in Inquirers : AskingFits(i)
    /\ \A u \in LeadUsers : LeadsAreCovered(u)

EquipmentInv == ListingsInv /\ InquiriesInv

\* A listing that is written, by its vendor or by a review of it: other reviews of it are raced.
LEMMA ListingWritten ==
    ASSUME ListingsInv, NEW e \in DOMAIN listings, NEW row \in ListingRow, ValidForm(row.form),
           listings' = [listings EXCEPT ![e] = row],
           row.status = "draft" => row.reason, row.status \in {"active", "pending"} => ~row.reason,
           review' = [r \in Reviewers |-> review'[r]],
           \A r \in Reviewers : review'[r] = NoReview \/ review'[r] = Touched(e)[r]
    PROVE  ListingsInv'
<1>1. /\ listings \in Seq(ListingRow) /\ \A d \in DOMAIN listings : ValidForm(listings[d].form)
      /\ DraftsSayWhy
  BY DEF ListingsInv
<1>2. /\ listings' \in Seq(ListingRow) /\ DOMAIN listings' = DOMAIN listings
      /\ listings'[e] = row /\ \A d \in DOMAIN listings : d # e => listings'[d] = listings[d]
  BY <1>1
<1>3. \A d \in DOMAIN listings' : ValidForm(listings'[d].form)
  <2>1. ASSUME NEW d \in DOMAIN listings PROVE ValidForm(listings'[d].form)
    <3>1. CASE d = e
      BY <1>2, <3>1
    <3>2. CASE d # e
      BY <1>1, <1>2, <3>2
    <3> QED BY <3>1, <3>2
  <2> QED BY <1>2, <2>1
<1>4. DraftsSayWhy'
  <2>1. ASSUME NEW d \in DOMAIN listings
        PROVE  /\ listings'[d].status = "draft" => listings'[d].reason
               /\ listings'[d].status \in {"active", "pending"} => ~listings'[d].reason
    <3>1. CASE d = e
      BY <1>2, <3>1, Zenon
    <3>2. CASE d # e
      <4>1. /\ listings[d].status = "draft" => listings[d].reason
            /\ listings[d].status \in {"active", "pending"} => ~listings[d].reason
        BY <1>1, Zenon DEF DraftsSayWhy
      <4> QED BY <1>2, <3>2, <4>1, Zenon
    <3> QED BY <3>1, <3>2
  <2> QED BY <1>2, <2>1, Zenon DEF DraftsSayWhy
<1>5. ASSUME NEW r \in Reviewers PROVE ReviewFits(r)'
  <2>1. CASE review'[r] = NoReview
    BY <2>1 DEF ReviewFits
  <2>2. CASE review'[r] = Touched(e)[r]
    <3>1. ReviewFits(r)
      BY DEF ListingsInv
    <3>2. CASE review[r] = NoReview
      BY <2>2, <3>2 DEF Touched, NoReview, ReviewFits
    <3>3. CASE review[r] # NoReview
      <4>1. /\ review[r] \in ReviewRow /\ review[r].listing \in DOMAIN listings
            /\ review[r].raced = TRUE \/ listings[review[r].listing].status = "pending"
        BY <3>1, <3>3 DEF ReviewFits
      <4>2. CASE review[r].listing = e
        <5>1. review'[r] = [review[r] EXCEPT !.raced = TRUE]
          BY <2>2, <4>1, <4>2 DEF Touched, ReviewRow
        <5>2. review'[r] \in ReviewRow /\ review'[r].raced = TRUE /\ review'[r].listing = e
          BY <4>1, <4>2, <5>1 DEF ReviewRow
        <5> QED BY <1>2, <5>2 DEF ReviewFits
      <4>3. CASE review[r].listing # e
        <5>1. review'[r] = review[r]
          BY <2>2, <4>3 DEF Touched
        <5> QED BY <1>2, <4>1, <4>3, <5>1 DEF ReviewFits
      <4> QED BY <4>2, <4>3
    <3> QED BY <3>2, <3>3
  <2> QED BY <2>1, <2>2
<1> QED BY <1>2, <1>3, <1>4, <1>5 DEF ListingsInv

LEMMA VendorsKeep ==
    ASSUME ListingsInv, VendorStep
    PROVE  ListingsInv' /\ UNCHANGED <<inquiries, asking, leadVars>>
<1>1. ASSUME NEW f \in Forms, PublishEquipment(f)
      PROVE  ListingsInv' /\ UNCHANGED <<inquiries, asking, leadVars>>
  <2> DEFINE row == [status |-> "pending", form |-> f, reason |-> FALSE]
             n == Len(listings) + 1
  <2>1. /\ ValidForm(f) /\ listings' = Append(listings, row) /\ review' = review
        /\ UNCHANGED <<inquiries, asking, leadVars>>
    BY <1>1 DEF PublishEquipment
  <2>2. row \in ListingRow
    BY DEF ListingRow
  <2>3. row.form = f /\ row.status = "pending" /\ row.reason = FALSE
    OBVIOUS
  <2>4. listings \in Seq(ListingRow)
    BY DEF ListingsInv
  <2> HIDE DEF row
  <2>5. /\ listings' \in Seq(ListingRow) /\ \A e \in DOMAIN listings : listings'[e] = listings[e]
        /\ DOMAIN listings \in SUBSET DOMAIN listings'
        /\ \A e \in DOMAIN listings' : e \in DOMAIN listings \/ listings'[e] = row
    BY <2>1, <2>2, <2>4
  <2>6. \A e \in DOMAIN listings' : ValidForm(listings'[e].form)
    <3>1. \A e \in DOMAIN listings : ValidForm(listings[e].form)
      BY DEF ListingsInv
    <3> QED BY <2>1, <2>3, <2>5, <3>1
  <2>7. DraftsSayWhy'
    <3>1. ASSUME NEW e \in DOMAIN listings'
          PROVE  /\ listings'[e].status = "draft" => listings'[e].reason
                 /\ listings'[e].status \in {"active", "pending"} => ~listings'[e].reason
      <4>1. CASE e \in DOMAIN listings
        <5>1. /\ listings[e].status = "draft" => listings[e].reason
              /\ listings[e].status \in {"active", "pending"} => ~listings[e].reason
          BY <4>1, Zenon DEF ListingsInv, DraftsSayWhy
        <5> QED BY <2>5, <4>1, <5>1, Zenon
      <4>2. CASE listings'[e] = row
        BY <2>3, <4>2
      <4> QED BY <2>5, <4>1, <4>2
    <3> QED BY <3>1, Zenon DEF DraftsSayWhy
  <2>8. ASSUME NEW r \in Reviewers PROVE ReviewFits(r)'
    <3>1. ReviewFits(r)
      BY DEF ListingsInv
    <3> QED BY <2>1, <2>5, <3>1 DEF ReviewFits
  <2>9. review' = [r \in Reviewers |-> review'[r]]
    BY <2>1 DEF ListingsInv
  <2> QED BY <2>1, <2>5, <2>6, <2>7, <2>8, <2>9 DEF ListingsInv
<1>2. ASSUME NEW e \in DOMAIN listings, NEW f \in Forms, ResubmitProduct(e, f)
      PROVE  ListingsInv' /\ UNCHANGED <<inquiries, asking, leadVars>>
  <2> DEFINE row == [status |-> "pending", form |-> f, reason |-> FALSE]
  <2>1. /\ ValidForm(f) /\ listings' = [listings EXCEPT ![e] = row] /\ review' = Touched(e)
        /\ UNCHANGED <<inquiries, asking, leadVars>>
    BY <1>2 DEF ResubmitProduct
  <2>2. row \in ListingRow
    BY DEF ListingRow
  <2>3. row.form = f /\ row.status = "pending" /\ row.reason = FALSE
    OBVIOUS
  <2> HIDE DEF row
  <2>4. review' = [r \in Reviewers |-> review'[r]]
    BY <2>1 DEF Touched
  <2> QED BY <2>1, <2>2, <2>3, <2>4, ListingWritten
<1>3. ASSUME NEW e \in DOMAIN listings, OfflineProduct(e)
      PROVE  ListingsInv' /\ UNCHANGED <<inquiries, asking, leadVars>>
  <2> DEFINE row == [listings[e] EXCEPT !.status = "offline"]
  <2>1. /\ listings' = [listings EXCEPT ![e] = row] /\ review' = Touched(e)
        /\ UNCHANGED <<inquiries, asking, leadVars>>
    BY <1>3 DEF OfflineProduct
  <2>2. listings[e] \in ListingRow /\ ValidForm(listings[e].form)
    BY DEF ListingsInv
  <2>3. row \in ListingRow /\ row.form = listings[e].form /\ row.status = "offline"
    BY <2>2 DEF ListingRow
  <2> HIDE DEF row
  <2>4. review' = [r \in Reviewers |-> review'[r]]
    BY <2>1 DEF Touched
  <2> QED BY <2>1, <2>2, <2>3, <2>4, ListingWritten
<1> QED BY <1>1, <1>2, <1>3 DEF VendorStep

LEMMA ReviewsKeep ==
    ASSUME ListingsInv, ReviewStep
    PROVE  ListingsInv' /\ UNCHANGED <<inquiries, asking, leadVars>>
<1>1. ASSUME NEW r \in Reviewers, NEW e \in DOMAIN listings, NEW verdict \in {"active", "draft"},
             ReadForReview(r, e, verdict)
      PROVE  ListingsInv' /\ UNCHANGED <<inquiries, asking, leadVars>>
  <2> DEFINE v == [at |-> "read", listing |-> e, verdict |-> verdict, raced |-> FALSE]
  <2>1. /\ review' = [review EXCEPT ![r] = v] /\ listings' = listings
        /\ listings[e].status = "pending" /\ UNCHANGED <<inquiries, asking, leadVars>>
    BY <1>1 DEF ReadForReview, Reviewable
  <2>2. e \in Nat /\ review = [q \in Reviewers |-> review[q]]
    BY DEF ListingsInv
  <2>3. v \in ReviewRow /\ v.listing = e
    BY <2>2 DEF ReviewRow
  <2> HIDE DEF v
  <2>4. /\ review' = [q \in Reviewers |-> review'[q]] /\ review'[r] = v
        /\ \A q \in Reviewers \ {r} : review'[q] = review[q]
    BY <2>1, <2>2
  <2>5. ASSUME NEW q \in Reviewers PROVE ReviewFits(q)'
    <3>1. CASE q = r
      BY <2>1, <2>3, <2>4, <3>1 DEF ReviewFits
    <3>2. CASE q # r
      <4>1. ReviewFits(q)
        BY DEF ListingsInv
      <4> QED BY <2>1, <2>4, <3>2, <4>1 DEF ReviewFits
    <3> QED BY <3>1, <3>2
  <2>6. /\ listings' \in Seq(ListingRow) /\ \A d \in DOMAIN listings' : ValidForm(listings'[d].form)
        /\ DraftsSayWhy'
    BY <2>1, Zenon DEF ListingsInv, DraftsSayWhy
  <2> QED BY <2>1, <2>4, <2>5, <2>6 DEF ListingsInv
<1>2. ASSUME NEW r \in Reviewers, ReviewProduct(r)
      PROVE  ListingsInv' /\ UNCHANGED <<inquiries, asking, leadVars>>
  <2>1. review[r].at = "read" /\ UNCHANGED <<inquiries, asking, leadVars>>
    BY <1>2 DEF ReviewProduct
  <2>2. review[r] \in ReviewRow /\ review[r].listing \in DOMAIN listings
    BY <2>1 DEF ListingsInv, ReviewFits, NoReview
  <2>3. PICK e \in DOMAIN listings : e = review[r].listing
    BY <2>2
  <2>4. PICK row : row = Verdict(e, review[r].verdict)
    OBVIOUS
  <2>5. listings' = [listings EXCEPT ![e] = row] /\ review' = [Touched(e) EXCEPT ![r] = NoReview]
    BY <1>2, <2>3, <2>4 DEF ReviewProduct
  <2>6. listings[e] \in ListingRow /\ ValidForm(listings[e].form)
    BY DEF ListingsInv
  <2>7. review[r].verdict \in {"active", "draft"}
    BY <2>2 DEF ReviewRow
  <2>8. /\ row \in ListingRow /\ row.form = listings[e].form /\ row.status = review[r].verdict
        /\ row.reason = (review[r].verdict = "draft")
    <3>1. PICK why \in BOOLEAN : why = (review[r].verdict = "draft")
      OBVIOUS
    <3>2. row = [listings[e] EXCEPT !.status = review[r].verdict, !.reason = why]
      BY <2>4, <3>1, Zenon DEF Verdict
    <3>3. row \in ListingRow /\ row.form = listings[e].form /\ row.status = review[r].verdict
            /\ row.reason = why
      BY <2>6, <2>7, <3>2 DEF ListingRow
    <3> QED BY <3>1, <3>3
  <2>9. /\ row.status = "draft" => row.reason
        /\ row.status \in {"active", "pending"} => ~row.reason
    <3>1. CASE review[r].verdict = "draft"
      BY <2>8, <3>1
    <3>2. CASE review[r].verdict = "active"
      BY <2>8, <3>2
    <3> QED BY <2>7, <3>1, <3>2
  <2>10. /\ review' = [q \in Reviewers |-> review'[q]]
         /\ \A q \in Reviewers : review'[q] = NoReview \/ review'[q] = Touched(e)[q]
    BY <2>5 DEF Touched
  <2>11. ValidForm(row.form)
    BY <2>6, <2>8
  <2>12. ListingsInv'
    BY <2>5, <2>8, <2>9, <2>10, <2>11, ListingWritten
  <2> QED BY <2>1, <2>12
<1> QED BY <1>1, <1>2 DEF ReviewStep

\* The sets that are counted can be.
LEMMA MarketIsFinite ==
    ASSUME leads \in Seq(Lead), inquiries \in Seq(InquiryRow), NEW u
    PROVE  /\ IsFiniteSet(MarketLeads(u)) /\ Cardinality(MarketLeads(u)) \in Nat
           /\ IsFiniteSet(Recordings(u)) /\ Cardinality(Recordings(u)) \in Nat
<1>1. /\ DOMAIN leads = 1..Len(leads) /\ Len(leads) \in Nat
      /\ DOMAIN inquiries = 1..Len(inquiries) /\ Len(inquiries) \in Nat
  OBVIOUS
<1>2. /\ MarketLeads(u) \in SUBSET (1..Len(leads))
      /\ Recordings(u) \in SUBSET (1..Len(inquiries))
  BY <1>1 DEF MarketLeads, Recordings
<1>3. IsFiniteSet(1..Len(leads)) /\ IsFiniteSet(1..Len(inquiries))
  BY <1>1, FS_Interval
<1>4. IsFiniteSet(MarketLeads(u)) /\ IsFiniteSet(Recordings(u))
  BY <1>2, <1>3, FS_Subset
<1> QED BY <1>4, FS_CardinalityType

\* One inquiry moves on: who mirrors, but for it, is who did.
LEMMA AskingMoves ==
    ASSUME InquiriesInv, NEW i \in Inquirers, NEW a, asking' = [asking EXCEPT ![i] = a],
           a = NoAsking \/ (a \in AskingRow /\ a.quantity \in 1..a.seen)
    PROVE  /\ asking' = [j \in Inquirers |-> asking'[j]] /\ asking'[i] = a
           /\ \A j \in Inquirers : AskingFits(j)'
           /\ \A u : \A j \in Inquirers \ {i} : j \in Mirrors(u)' <=> j \in Mirrors(u)
           /\ \A u : Mirrors(u)' \in SUBSET Inquirers /\ Mirrors(u) \in SUBSET Inquirers
<1>1. /\ asking' = [j \in Inquirers |-> asking'[j]] /\ asking'[i] = a
      /\ \A j \in Inquirers \ {i} : asking'[j] = asking[j]
  BY DEF InquiriesInv
<1>2. ASSUME NEW j \in Inquirers PROVE AskingFits(j)'
  <2>1. CASE j = i
    BY <1>1, <2>1 DEF AskingFits
  <2>2. CASE j # i
    <3>1. AskingFits(j)
      BY DEF InquiriesInv
    <3> QED BY <1>1, <2>2, <3>1 DEF AskingFits
  <2> QED BY <2>1, <2>2
<1>3. \A u : \A j \in Inquirers \ {i} : j \in Mirrors(u)' <=> j \in Mirrors(u)
  BY <1>1 DEF Mirrors
<1>4. \A u : Mirrors(u)' \in SUBSET Inquirers /\ Mirrors(u) \in SUBSET Inquirers
  BY DEF Mirrors
<1> QED BY <1>1, <1>2, <1>3, <1>4

LEMMA BeginInquiryKeeps ==
    ASSUME EquipmentInv, NEW i \in Inquirers, NEW e \in DOMAIN listings, NEW u \in LeadUsers,
           NEW q \in 0..MaxQuantity, BeginInquiry(i, e, u, q)
    PROVE  InquiriesInv'
<1> DEFINE a == [at |-> "insert", listing |-> e, by |-> u, quantity |-> q,
                 seen |-> listings[e].form.quantity]
<1>0. InquiriesInv /\ ListingsInv
  BY DEF EquipmentInv
<1>1. /\ asking' = [asking EXCEPT ![i] = a] /\ asking[i].at = "idle"
      /\ ValidInquiryQuantity(q, listings[e].form.quantity) /\ UNCHANGED <<inquiries, leads, clock>>
  BY DEF BeginInquiry, leadVars
<1>2. listings[e].form.quantity \in 1..MaxQuantity /\ e \in Nat
  BY <1>0 DEF ListingsInv, ValidForm
<1>3. q \in Int /\ listings[e].form.quantity \in Int /\ q \in 1..listings[e].form.quantity
  BY <1>1, <1>2 DEF ValidInquiryQuantity
<1>4. a \in AskingRow
  BY <1>2, <1>3 DEF AskingRow
<1>5. a.quantity \in 1..a.seen /\ a.at = "insert"
  BY <1>3
<1> HIDE DEF a
<1>6. /\ asking' = [j \in Inquirers |-> asking'[j]] /\ asking'[i] = a
      /\ \A j \in Inquirers : AskingFits(j)'
      /\ \A v : \A j \in Inquirers \ {i} : j \in Mirrors(v)' <=> j \in Mirrors(v)
      /\ \A v : Mirrors(v)' \in SUBSET Inquirers /\ Mirrors(v) \in SUBSET Inquirers
  BY <1>0, <1>1, <1>4, <1>5, AskingMoves
<1>7. ASSUME NEW v \in LeadUsers PROVE LeadsAreCovered(v)'
  <2>1. i \notin Mirrors(v)' /\ i \notin Mirrors(v)
    BY <1>1, <1>5, <1>6 DEF Mirrors
  <2>2. Mirrors(v)' = Mirrors(v)
    BY <1>6, <2>1
  <2>3. MarketLeads(v)' = MarketLeads(v) /\ Recordings(v)' = Recordings(v)
    BY <1>1 DEF MarketLeads, Recordings
  <2>4. LeadsAreCovered(v)
    BY <1>0 DEF InquiriesInv
  <2> QED BY <2>2, <2>3, <2>4 DEF LeadsAreCovered
<1>8. InquiriesWereOnOffer'
  BY <1>0, <1>1 DEF InquiriesInv, InquiriesWereOnOffer
<1> QED BY <1>0, <1>1, <1>6, <1>7, <1>8 DEF InquiriesInv

\* An inquiry that is recorded is one more to be mirrored, and one more that covers.
LEMMA InsertInquiryKeeps ==
    ASSUME InquiriesInv, NEW i \in Inquirers, NEW ok \in BOOLEAN, InsertInquiry(i, ok)
    PROVE  InquiriesInv'
<1>1. PICK a : a = asking[i]
  OBVIOUS
<1>2. a.at = "insert" /\ UNCHANGED <<leads, clock>>
  BY <1>1 DEF InsertInquiry, leadVars
<1>3. a \in AskingRow /\ a.quantity \in 1..a.seen
  BY <1>1, <1>2 DEF InquiriesInv, AskingFits, NoAsking
<1>4. /\ inquiries \in Seq(InquiryRow) /\ leads \in Seq(Lead) /\ clock \in Nat
      /\ InquiriesWereOnOffer /\ \A v \in LeadUsers : LeadsAreCovered(v)
  BY DEF InquiriesInv
<1>5. \A v : MarketLeads(v)' = MarketLeads(v)
  BY <1>2 DEF MarketLeads
<1>6. CASE ok
  <2> DEFINE row == [listing |-> a.listing, by |-> a.by, quantity |-> a.quantity, seen |-> a.seen]
  <2>0. PICK n : n = Len(inquiries) + 1
    OBVIOUS
  <2>1. PICK b : b = [a EXCEPT !.at = "mirror"]
    OBVIOUS
  <2>2. inquiries' = Append(inquiries, row) /\ asking' = [asking EXCEPT ![i] = b]
    BY <1>1, <1>6, <2>1 DEF InsertInquiry, AfterInsert
  <2>3. /\ b \in AskingRow /\ b.quantity \in 1..b.seen /\ b.at = "mirror" /\ b.by = a.by
    BY <1>3, <2>1 DEF AskingRow
  <2>4. row \in InquiryRow /\ row.by = a.by /\ row.quantity \in 1..row.seen
    BY <1>3 DEF AskingRow, InquiryRow
  <2>5. a.by \in LeadUsers
    BY <1>3 DEF AskingRow
  <2> HIDE DEF row
  <2>6. /\ inquiries' \in Seq(InquiryRow) /\ inquiries'[n] = row /\ n \notin DOMAIN inquiries
        /\ DOMAIN inquiries' = DOMAIN inquiries \cup {n}
        /\ \A j \in DOMAIN inquiries : inquiries'[j] = inquiries[j]
    <3>1. /\ Append(inquiries, row) \in Seq(InquiryRow) /\ Len(Append(inquiries, row)) = n
          /\ \A j \in 1..Len(inquiries) : Append(inquiries, row)[j] = inquiries[j]
          /\ Append(inquiries, row)[n] = row
      BY <1>4, <2>0, <2>4, AppendProperties
    <3>2. ASSUME NEW more \in Seq(InquiryRow), Len(more) = n PROVE DOMAIN more = 1..n
      BY <3>2
    <3>3. /\ DOMAIN inquiries = 1..Len(inquiries) /\ 1..n = 1..Len(inquiries) \cup {n}
          /\ n \notin DOMAIN inquiries
      BY <1>4, <2>0
    <3> QED BY <2>2, <3>1, <3>2, <3>3, Zenon
  <2>7. /\ asking' = [j \in Inquirers |-> asking'[j]] /\ asking'[i] = b
        /\ \A j \in Inquirers : AskingFits(j)'
        /\ \A v : \A j \in Inquirers \ {i} : j \in Mirrors(v)' <=> j \in Mirrors(v)
        /\ \A v : Mirrors(v)' \in SUBSET Inquirers /\ Mirrors(v) \in SUBSET Inquirers
    BY <2>2, <2>3, AskingMoves
  <2>8. InquiriesWereOnOffer'
    BY <1>4, <2>4, <2>6 DEF InquiriesWereOnOffer
  <2>9. ASSUME NEW v \in LeadUsers PROVE LeadsAreCovered(v)'
    <3>1. /\ IsFiniteSet(Mirrors(v)) /\ Cardinality(Mirrors(v)) \in Nat
          /\ Cardinality(MarketLeads(v)) + Cardinality(Mirrors(v)) <= Cardinality(Recordings(v))
          /\ IsFiniteSet(Recordings(v)) /\ Cardinality(Recordings(v)) \in Nat
          /\ Cardinality(MarketLeads(v)) \in Nat
      BY <1>4, MarketIsFinite, FS_CardinalityType DEF LeadsAreCovered
    <3>2. /\ \A j \in DOMAIN inquiries : j \in Recordings(v)' <=> j \in Recordings(v)
          /\ Recordings(v)' \in SUBSET (DOMAIN inquiries \cup {n})
          /\ Recordings(v) \in SUBSET DOMAIN inquiries
          /\ n \in Recordings(v)' <=> a.by = v
      BY <2>4, <2>6 DEF Recordings
    <3>3. i \notin Mirrors(v) /\ (i \in Mirrors(v)' <=> a.by = v)
      BY <1>1, <1>2, <2>3, <2>7 DEF Mirrors
    <3>4. CASE a.by = v
      <4>1. Recordings(v)' = Recordings(v) \cup {n} /\ n \notin Recordings(v)
        BY <2>6, <3>2, <3>4
      <4>2. Mirrors(v)' = Mirrors(v) \cup {i}
        BY <2>7, <3>3, <3>4
      <4>3. Cardinality(Recordings(v)') = Cardinality(Recordings(v)) + 1
        BY <3>1, <4>1, FS_AddElement
      <4>4. IsFiniteSet(Mirrors(v)') /\ Cardinality(Mirrors(v)') = Cardinality(Mirrors(v)) + 1
        BY <3>1, <3>3, <4>2, FS_AddElement
      <4> QED BY <1>5, <3>1, <4>3, <4>4 DEF LeadsAreCovered
    <3>5. CASE a.by # v
      <4>1. Recordings(v)' = Recordings(v)
        BY <3>2, <3>5
      <4>2. Mirrors(v)' = Mirrors(v)
        BY <2>7, <3>3, <3>5
      <4> QED BY <1>5, <3>1, <4>1, <4>2 DEF LeadsAreCovered
    <3> QED BY <3>4, <3>5
  <2> QED BY <1>2, <1>4, <2>6, <2>7, <2>8, <2>9 DEF InquiriesInv
<1>7. CASE ~ok
  <2>1. inquiries' = inquiries /\ asking' = [asking EXCEPT ![i] = NoAsking]
    BY <1>7 DEF InsertInquiry, AfterInsert
  <2>2. /\ asking' = [j \in Inquirers |-> asking'[j]] /\ asking'[i] = NoAsking
        /\ \A j \in Inquirers : AskingFits(j)'
        /\ \A v : \A j \in Inquirers \ {i} : j \in Mirrors(v)' <=> j \in Mirrors(v)
        /\ \A v : Mirrors(v)' \in SUBSET Inquirers /\ Mirrors(v) \in SUBSET Inquirers
    BY <2>1, AskingMoves
  <2>3. ASSUME NEW v \in LeadUsers PROVE LeadsAreCovered(v)'
    <3>1. i \notin Mirrors(v) /\ i \notin Mirrors(v)'
      BY <1>1, <1>2, <2>2 DEF Mirrors, NoAsking
    <3>2. Mirrors(v)' = Mirrors(v)
      BY <2>2, <3>1
    <3>3. Recordings(v)' = Recordings(v)
      BY <2>1 DEF Recordings
    <3>4. LeadsAreCovered(v)
      BY <1>4
    <3> QED BY <1>5, <3>2, <3>3, <3>4 DEF LeadsAreCovered
  <2>4. InquiriesWereOnOffer'
    BY <1>4, <2>1 DEF InquiriesWereOnOffer
  <2> QED BY <1>2, <1>4, <2>1, <2>2, <2>3, <2>4 DEF InquiriesInv
<1> QED BY <1>6, <1>7

\* The lead takes the place of the inquiry that was to be mirrored; without it there is one less.
LEMMA MirrorLeadKeeps ==
    ASSUME InquiriesInv, NEW i \in Inquirers, NEW ok \in BOOLEAN, MirrorLead(i, ok)
    PROVE  InquiriesInv'
<1>1. PICK a : a = asking[i]
  OBVIOUS
<1>2. /\ a.at = "mirror" /\ asking' = [asking EXCEPT ![i] = NoAsking]
      /\ UNCHANGED <<inquiries, clock>>
      /\ IF ok THEN InsertLead(a.by, "equipment_market") ELSE leads' = leads
  BY <1>1 DEF MirrorLead
<1>3. a \in AskingRow /\ a.by \in LeadUsers
  BY <1>1, <1>2 DEF InquiriesInv, AskingFits, NoAsking, AskingRow
<1>4. /\ inquiries \in Seq(InquiryRow) /\ leads \in Seq(Lead) /\ clock \in Nat
      /\ InquiriesWereOnOffer /\ \A v \in LeadUsers : LeadsAreCovered(v)
  BY DEF InquiriesInv
<1>5. \A v : Recordings(v)' = Recordings(v)
  BY <1>2 DEF Recordings
<1>6. /\ asking' = [j \in Inquirers |-> asking'[j]] /\ asking'[i] = NoAsking
      /\ \A j \in Inquirers : AskingFits(j)'
      /\ \A v : \A j \in Inquirers \ {i} : j \in Mirrors(v)' <=> j \in Mirrors(v)
      /\ \A v : Mirrors(v)' \in SUBSET Inquirers /\ Mirrors(v) \in SUBSET Inquirers
  BY <1>2, AskingMoves
<1>7. PICK n : n = Len(leads) + 1
  OBVIOUS
<1>8. /\ leads' \in Seq(Lead)
      /\ \A v : MarketLeads(v)' = MarketLeads(v)
                 \/ (v = a.by /\ n \notin MarketLeads(v) /\ MarketLeads(v)' = MarketLeads(v) \cup {n})
  <2>1. CASE ~ok
    <3>1. leads' = leads
      BY <1>2, <2>1
    <3> QED BY <1>4, <3>1 DEF MarketLeads
  <2>2. CASE ok
    <3>1. PICK new : new = NewLead(a.by, "equipment_market")
      OBVIOUS
    <3>2. leads' = Append(leads, new)
      BY <1>2, <2>2, <3>1 DEF InsertLead
    <3>3. new \in Lead /\ new.by = a.by /\ new.source = "equipment_market"
      BY <1>3, <1>4, <3>1 DEF NewLead, Lead
    <3>4. /\ leads' \in Seq(Lead) /\ leads'[n] = new /\ n \notin DOMAIN leads
          /\ DOMAIN leads' = DOMAIN leads \cup {n}
          /\ \A l \in DOMAIN leads : leads'[l] = leads[l]
      <4>1. /\ Append(leads, new) \in Seq(Lead) /\ Len(Append(leads, new)) = n
            /\ \A j \in 1..Len(leads) : Append(leads, new)[j] = leads[j]
            /\ Append(leads, new)[n] = new
        BY <1>4, <1>7, <3>3, AppendProperties
      <4>2. ASSUME NEW more \in Seq(Lead), Len(more) = n PROVE DOMAIN more = 1..n
        BY <4>2
      <4>3. /\ DOMAIN leads = 1..Len(leads) /\ 1..n = 1..Len(leads) \cup {n} /\ n \notin DOMAIN leads
        BY <1>4, <1>7
      <4> QED BY <3>2, <4>1, <4>2, <4>3, Zenon
    <3>5. ASSUME NEW v
          PROVE  MarketLeads(v)' = MarketLeads(v)
                   \/ (v = a.by /\ n \notin MarketLeads(v)
                         /\ MarketLeads(v)' = MarketLeads(v) \cup {n})
      <4>1. /\ \A l \in DOMAIN leads : l \in MarketLeads(v)' <=> l \in MarketLeads(v)
            /\ n \in MarketLeads(v)' <=> v = a.by
            /\ MarketLeads(v)' \in SUBSET (DOMAIN leads \cup {n})
            /\ MarketLeads(v) \in SUBSET DOMAIN leads
        BY <3>3, <3>4 DEF MarketLeads
      <4>2. n \notin MarketLeads(v)
        BY <3>4, <4>1
      <4>3. CASE v = a.by
        <5>1. MarketLeads(v)' = MarketLeads(v) \cup {n}
          BY <4>1, <4>3
        <5> QED BY <4>2, <4>3, <5>1
      <4>4. CASE v # a.by
        BY <4>1, <4>4
      <4> QED BY <4>3, <4>4
    <3> QED BY <3>4, <3>5
  <2> QED BY <2>1, <2>2
<1>9. ASSUME NEW v \in LeadUsers PROVE LeadsAreCovered(v)'
  <2>1. /\ IsFiniteSet(Mirrors(v)) /\ Cardinality(Mirrors(v)) \in Nat
        /\ Cardinality(MarketLeads(v)) + Cardinality(Mirrors(v)) <= Cardinality(Recordings(v))
        /\ Cardinality(Recordings(v)) \in Nat
        /\ IsFiniteSet(MarketLeads(v)) /\ Cardinality(MarketLeads(v)) \in Nat
    BY <1>4, MarketIsFinite, FS_CardinalityType DEF LeadsAreCovered
  <2>2. i \notin Mirrors(v)' /\ (i \in Mirrors(v) <=> a.by = v)
    BY <1>1, <1>2, <1>6 DEF Mirrors, NoAsking
  <2>3. Mirrors(v)' = Mirrors(v) \ {i}
    BY <1>6, <2>2
  <2>4. CASE a.by = v
    <3>1. IsFiniteSet(Mirrors(v)') /\ Cardinality(Mirrors(v)') = Cardinality(Mirrors(v)) - 1
      BY <2>1, <2>2, <2>3, <2>4, FS_RemoveElement
    <3>2. Cardinality(MarketLeads(v)') <= Cardinality(MarketLeads(v)) + 1
            /\ Cardinality(MarketLeads(v)') \in Nat
      <4>1. CASE MarketLeads(v)' = MarketLeads(v)
        BY <2>1, <4>1
      <4>2. CASE n \notin MarketLeads(v) /\ MarketLeads(v)' = MarketLeads(v) \cup {n}
        <5>1. Cardinality(MarketLeads(v) \cup {n}) = Cardinality(MarketLeads(v)) + 1
          BY <2>1, <4>2, FS_AddElement
        <5> QED BY <2>1, <4>2, <5>1
      <4> QED BY <1>8, <4>1, <4>2
    <3> QED BY <1>5, <2>1, <3>1, <3>2 DEF LeadsAreCovered
  <2>5. CASE a.by # v
    <3>1. Mirrors(v)' = Mirrors(v) /\ MarketLeads(v)' = MarketLeads(v)
      BY <1>8, <2>2, <2>3, <2>5
    <3> QED BY <1>5, <2>1, <3>1 DEF LeadsAreCovered
  <2> QED BY <2>4, <2>5
<1>10. InquiriesWereOnOffer'
  BY <1>2, <1>4 DEF InquiriesWereOnOffer
<1> QED BY <1>2, <1>4, <1>6, <1>8, <1>9, <1>10 DEF InquiriesInv

LEMMA EquipmentBegins == EquipmentInit => EquipmentInv
<1> SUFFICES ASSUME EquipmentInit PROVE EquipmentInv
  OBVIOUS
<1>1. /\ listings = <<>> /\ inquiries = <<>> /\ leads = <<>> /\ clock = 0
      /\ review = [r \in Reviewers |-> NoReview] /\ asking = [i \in Inquirers |-> NoAsking]
  BY DEF EquipmentInit, LeadsInit
<1>2. /\ DOMAIN listings = {} /\ DOMAIN inquiries = {} /\ DOMAIN leads = {}
      /\ listings \in Seq(ListingRow) /\ inquiries \in Seq(InquiryRow) /\ leads \in Seq(Lead)
  BY <1>1
<1>3. ListingsInv
  BY <1>1, <1>2 DEF ListingsInv, DraftsSayWhy, ReviewFits
<1>4. \A i \in Inquirers : asking[i] = NoAsking /\ asking[i].at = "idle"
  BY <1>1 DEF NoAsking
<1>5. ASSUME NEW u \in LeadUsers PROVE LeadsAreCovered(u)
  <2>1. MarketLeads(u) = {} /\ Recordings(u) = {}
    BY <1>2 DEF MarketLeads, Recordings
  <2>2. Mirrors(u) = {}
    BY <1>4 DEF Mirrors
  <2> QED BY <2>1, <2>2, FS_EmptySet DEF LeadsAreCovered
<1>6. InquiriesInv
  BY <1>1, <1>2, <1>4, <1>5 DEF InquiriesInv, InquiriesWereOnOffer, AskingFits
<1> QED BY <1>3, <1>6 DEF EquipmentInv

\* The halves do not touch each other.
LEMMA HalvesStay ==
    ASSUME EquipmentInv
    PROVE  /\ UNCHANGED <<listings, review>> => ListingsInv'
           /\ UNCHANGED <<inquiries, asking, leads, clock>> => InquiriesInv'
<1>1. ASSUME UNCHANGED <<listings, review>> PROVE ListingsInv'
  <2>1. \A r \in Reviewers : ReviewFits(r)' = ReviewFits(r)
    BY <1>1 DEF ReviewFits
  <2>2. DraftsSayWhy' = DraftsSayWhy
    BY <1>1 DEF DraftsSayWhy
  <2>3. \A r \in Reviewers : ReviewFits(r)'
    BY <2>1 DEF EquipmentInv, ListingsInv
  <2> QED BY <1>1, <2>2, <2>3 DEF EquipmentInv, ListingsInv
<1>2. ASSUME UNCHANGED <<inquiries, asking, leads, clock>> PROVE InquiriesInv'
  <2>1. \A i \in Inquirers : AskingFits(i)'
    BY <1>2 DEF EquipmentInv, InquiriesInv, AskingFits
  <2>2. \A u \in LeadUsers : LeadsAreCovered(u)'
    <3>1. ASSUME NEW u \in LeadUsers PROVE LeadsAreCovered(u)'
      <4>1. LeadsAreCovered(u)
        BY DEF EquipmentInv, InquiriesInv
      <4>2. /\ MarketLeads(u)' = MarketLeads(u) /\ Recordings(u)' = Recordings(u)
            /\ Mirrors(u)' = Mirrors(u)
        BY <1>2 DEF MarketLeads, Recordings, Mirrors
      <4> QED BY <4>1, <4>2 DEF LeadsAreCovered
    <3> QED BY <3>1
  <2>3. InquiriesWereOnOffer'
    BY <1>2 DEF EquipmentInv, InquiriesInv, InquiriesWereOnOffer
  <2>4. asking' = [i \in Inquirers |-> asking'[i]]
    BY <1>2 DEF EquipmentInv, InquiriesInv
  <2> QED BY <1>2, <2>1, <2>2, <2>3, <2>4 DEF EquipmentInv, InquiriesInv
<1> QED BY <1>1, <1>2

LEMMA EquipmentStepsKeep == EquipmentInv /\ [EquipmentNext]_marketVars => EquipmentInv'
<1> SUFFICES ASSUME EquipmentInv, [EquipmentNext]_marketVars PROVE EquipmentInv'
  OBVIOUS
<1>1. ListingsInv /\ InquiriesInv
  BY DEF EquipmentInv
<1>2. CASE VendorStep \/ ReviewStep
  <2>1. ListingsInv' /\ UNCHANGED <<inquiries, asking, leadVars>>
    BY <1>1, <1>2, VendorsKeep, ReviewsKeep
  <2>2. UNCHANGED <<inquiries, asking, leads, clock>>
    BY <2>1 DEF leadVars
  <2>3. InquiriesInv'
    BY <2>2, HalvesStay
  <2> QED BY <2>1, <2>3 DEF EquipmentInv
<1>3. CASE InquiryStep
  <2>1. UNCHANGED <<listings, review>>
    BY <1>3 DEF InquiryStep, BeginInquiry, InsertInquiry, MirrorLead
  <2>2. InquiriesInv'
    BY <1>1, <1>3, BeginInquiryKeeps, InsertInquiryKeeps, MirrorLeadKeeps DEF InquiryStep
  <2>3. ListingsInv'
    BY <2>1, HalvesStay
  <2> QED BY <2>2, <2>3 DEF EquipmentInv
<1>4. CASE UNCHANGED marketVars
  <2>1. UNCHANGED <<listings, review>> /\ UNCHANGED <<inquiries, asking, leads, clock>>
    BY <1>4 DEF marketVars, equipmentVars, leadVars
  <2> QED BY <2>1, HalvesStay DEF EquipmentInv
<1> QED BY <1>2, <1>3, <1>4 DEF EquipmentNext

\* Only a review puts a listing on sale, one it has read waiting or that was raced since.
FromReview(e) ==
    \E r \in Reviewers :
        /\ review[r].at = "read" /\ review[r].listing = e
        /\ review[r].verdict = "active"
        /\ listings[e].status = "pending" \/ review[r].raced

LEMMA SalesFollowReviews ==
    ASSUME EquipmentInv, [EquipmentNext]_marketVars, NEW e \in DOMAIN listings,
           listings'[e].status = "active", listings[e].status # "active"
    PROVE  FromReview(e)
<1>0. listings \in Seq(ListingRow)
  BY DEF EquipmentInv, ListingsInv
<1>1. ASSUME NEW f \in Forms, PublishEquipment(f) PROVE FALSE
  <2>1. PICK row : row = [status |-> "pending", form |-> f, reason |-> FALSE]
    OBVIOUS
  <2>2. listings' = Append(listings, row)
    BY <1>1, <2>1 DEF PublishEquipment
  <2>3. listings'[e] = listings[e]
    BY <1>0, <2>2
  <2> QED BY <2>3
<1>2. ASSUME NEW d \in DOMAIN listings, NEW row, row.status \in {"pending", "offline"},
             listings' = [listings EXCEPT ![d] = row]
      PROVE  FALSE
  <2>1. listings'[e] = listings[e] \/ listings'[e] = row
    BY <1>0, <1>2
  <2> QED BY <1>2, <2>1
<1>3. ASSUME NEW d \in DOMAIN listings, NEW f \in Forms, ResubmitProduct(d, f) PROVE FALSE
  <2>1. PICK row : row = [status |-> "pending", form |-> f, reason |-> FALSE]
    OBVIOUS
  <2>2. listings' = [listings EXCEPT ![d] = row] /\ row.status = "pending"
    BY <1>3, <2>1 DEF ResubmitProduct
  <2> QED BY <1>2, <2>2
<1>4. ASSUME NEW d \in DOMAIN listings, OfflineProduct(d) PROVE FALSE
  <2>1. PICK row : row = [listings[d] EXCEPT !.status = "offline"]
    OBVIOUS
  <2>2. listings[d] \in ListingRow
    BY <1>0
  <2>3. listings' = [listings EXCEPT ![d] = row] /\ row.status = "offline"
    BY <1>4, <2>1, <2>2 DEF OfflineProduct, ListingRow
  <2> QED BY <1>2, <2>3
<1>5. ASSUME NEW r \in Reviewers, ReviewProduct(r)
      PROVE  FromReview(e)
  <2>1. review[r].at = "read"
    BY <1>5 DEF ReviewProduct
  <2>2. /\ review[r].listing \in DOMAIN listings
        /\ review[r].raced = TRUE \/ listings[review[r].listing].status = "pending"
    BY <2>1 DEF EquipmentInv, ListingsInv, ReviewFits, NoReview
  <2>3. review[r].listing = e
    <3>1. SUFFICES ASSUME review[r].listing # e PROVE FALSE
      OBVIOUS
    <3>2. PICK d : d = review[r].listing
      OBVIOUS
    <3>3. PICK row : row = Verdict(d, review[r].verdict)
      OBVIOUS
    <3>4. listings' = [listings EXCEPT ![d] = row]
      BY <1>5, <3>2, <3>3 DEF ReviewProduct
    <3>5. listings'[e] = listings[e]
      BY <1>0, <3>1, <3>2, <3>4
    <3> QED BY <3>5
  <2>4. review[r].verdict = "active"
    <3>1. PICK row : row = Verdict(e, review[r].verdict)
      OBVIOUS
    <3>2. listings' = [listings EXCEPT ![e] = row]
      BY <1>5, <2>3, <3>1 DEF ReviewProduct
    <3>3. listings'[e] = row
      BY <1>0, <3>2
    <3>4. listings[e] \in ListingRow
      BY <1>0
    <3>5. row.status = review[r].verdict
      BY <3>1, <3>4 DEF Verdict, ListingRow
    <3> QED BY <3>3, <3>5
  <2> QED BY <2>1, <2>2, <2>3, <2>4 DEF FromReview
<1>6. CASE listings' = listings
  BY <1>6
<1>7. \/ VendorStep
      \/ \E r \in Reviewers : ReviewProduct(r)
      \/ listings' = listings
  BY DEF EquipmentNext, ReviewStep, ReadForReview, InquiryStep, BeginInquiry, InsertInquiry,
         MirrorLead, marketVars, equipmentVars
<1>8. CASE \E r \in Reviewers : ReviewProduct(r)
  BY <1>5, <1>8
<1>9. CASE VendorStep
  BY <1>1, <1>3, <1>4, <1>9 DEF VendorStep
<1> QED BY <1>6, <1>7, <1>8, <1>9

\* For any number of vendors, reviews and inquiries that race each other: what goes on sale comes
\* from a review, though one that was overtaken between its two statements puts on sale what the
\* listing has become; a draft says why it is one; there are no more leads of the market than
\* inquiries; and nobody has asked for more than was on offer.
THEOREM EquipmentStaysReviewed == EquipmentSpec => EquipmentIsReviewed
<1>1. ASSUME EquipmentInv
      PROVE  EquipmentTypeOK /\ DraftsSayWhy /\ LeadsStandForInquiries /\ InquiriesWereOnOffer
  <2>1. ListingsInv /\ InquiriesInv
    BY <1>1 DEF EquipmentInv
  <2>2. EquipmentTypeOK
    <3>1. ASSUME NEW e \in DOMAIN listings
          PROVE  /\ listings[e].status \in {"pending", "active", "draft", "offline"}
                 /\ listings[e].form \in Forms
                 /\ listings[e].form.used => listings[e].form.year \in MinManufactureYear..CurrentYear
      <4>1. listings[e] \in ListingRow /\ ValidForm(listings[e].form)
        BY <2>1 DEF ListingsInv
      <4>2. listings[e].form.used => listings[e].form.year \in MinManufactureYear..CurrentYear
        BY <4>1, Zenon DEF ValidForm, ValidYear
      <4>3. listings[e].status \in {"pending", "active", "draft", "offline"}
              /\ listings[e].form \in Forms
        BY <4>1 DEF ListingRow
      <4> QED BY <4>2, <4>3, Zenon
    <3> QED BY <3>1, Zenon DEF EquipmentTypeOK
  <2>3. LeadsStandForInquiries
    <3>1. ASSUME NEW u \in LeadUsers
          PROVE  Cardinality(MarketLeads(u)) <= Cardinality(Recordings(u))
      <4>1. LeadsAreCovered(u)
        BY <2>1 DEF InquiriesInv
      <4>2. /\ Cardinality(MarketLeads(u)) \in Nat /\ Cardinality(Recordings(u)) \in Nat
        BY <2>1, MarketIsFinite DEF InquiriesInv
      <4>3. Cardinality(Mirrors(u)) \in Nat
        BY <4>1, FS_CardinalityType DEF LeadsAreCovered
      <4> QED BY <4>1, <4>2, <4>3 DEF LeadsAreCovered
    <3> QED BY <3>1 DEF LeadsStandForInquiries, MarketLeads, Recordings
  <2> QED BY <2>1, <2>2, <2>3 DEF ListingsInv, InquiriesInv
<1>2. EquipmentInv /\ [EquipmentNext]_marketVars =>
        [\A e \in DOMAIN listings :
           (listings'[e].status = "active" /\ listings[e].status # "active") =>
               FromReview(e)]_marketVars
  BY SalesFollowReviews
<1> QED BY <1>1, <1>2, EquipmentBegins, EquipmentStepsKeep, PTL
        DEF EquipmentSpec, EquipmentIsReviewed, OnSaleAfterReview, FromReview

-----------------------------------------------------------------------------
(* Suppliers *)

SweepActions == {"qualification_expired", "qualification_expiring"}
QualRow == [user : Members, type : CertTypes \cup {"supplier_onboarding"},
            expires : {NoExpiry} \cup 0..MaxDay,
            status : {"pending", "verified", "rejected", "expired"}, told : Nat,
            seen : SUBSET SweepActions]
GoodsStatus == {"none", "draft", "pending", "active", "sold_out", "frozen", "offline"}
IdentityDesk == [at : {"identity"}, user : Members, kind : Kinds, no : Nat, read : {0}]
ApplyDesk == [at : {"apply"}, user : Members]
ProductDesk == [at : {"check", "approve"}, product : Goods]
Writing == [at : {"write"}, qual : Nat, action : SweepActions, current : BOOLEAN]

SupplierTypes ==
    /\ quals \in Seq(QualRow) /\ today \in Nat /\ submissions \in Nat
    /\ identity \in [Members -> [Kinds -> Nat]] /\ suppliers \in SUBSET Members
    /\ goods \in [Goods -> GoodsStatus]
    /\ desk \in [Desks -> {IdleDesk} \cup IdentityDesk \cup ApplyDesk \cup ProductDesk]
    /\ sweep \in [left : SUBSET Nat, doing : {[at |-> "next"]} \cup Writing]

\* An application never expires, what has expired is over its date, and each notice has its
\* entry in the audit log.
QualFits(q) ==
    /\ quals[q].type = "supplier_onboarding" => quals[q].expires = NoExpiry
    /\ quals[q].status = "expired" => Expired(q)
    /\ quals[q].told <= Cardinality(quals[q].seen)

Approved(q) == quals[q].status \in {"verified", "expired"}

\* A later certificate of the type that was approved.
Replaced(q) ==
    \E n \in (q + 1)..Len(quals) :
        quals[n].user = quals[q].user /\ quals[n].type = quals[q].type /\ Approved(n)

\* What the sweep is about to write was right when it read, and has only been overtaken by
\* newer certificates.
SweepFits ==
    /\ sweep.left \in SUBSET DOMAIN quals
    /\ sweep.doing.at = "write" =>
          LET q == sweep.doing.qual IN
          /\ q \in DOMAIN quals /\ quals[q].status = "verified" /\ quals[q].expires # NoExpiry
          /\ sweep.doing.action \notin quals[q].seen
          /\ sweep.doing.action = "qualification_expired" => Expired(q)
          /\ sweep.doing.current = TRUE \/ Replaced(q)

CertInv == SupplierTypes /\ SweepFits /\ \A q \in DOMAIN quals : QualFits(q)

\* The sweep writes that q has expired.
Expires(q) == sweep.doing.at = "write" /\ sweep.doing.qual = q
                /\ sweep.doing.action = "qualification_expired"

\* What a step may do with qualifications: more of them, or a verdict, or an expiry.
CertsGoOn ==
    /\ Len(quals) \in Nat /\ Len(quals') \in Nat /\ Len(quals) <= Len(quals')
    /\ DOMAIN quals = 1..Len(quals) /\ DOMAIN quals' = 1..Len(quals')
    /\ \A q \in DOMAIN quals :
          /\ quals'[q].user = quals[q].user /\ quals'[q].type = quals[q].type
          /\ quals'[q].expires = quals[q].expires
          /\ \/ quals'[q].status = quals[q].status
             \/ quals[q].status = "pending" /\ quals'[q].status \in {"verified", "rejected"}
             \/ quals[q].status = "verified" /\ quals'[q].status = "expired" /\ Expires(q)
    /\ \A q \in DOMAIN quals' \ DOMAIN quals : quals'[q].status = "pending"
    /\ today' \in Nat /\ today <= today'

\* A certificate that is over its date stays so, and one that was replaced.
LEMMA OverStays ==
    ASSUME CertInv, CertsGoOn, NEW q \in DOMAIN quals
    PROVE  /\ Expired(q) => Expired(q)'
           /\ Replaced(q) => Replaced(q)'
<1>1. quals[q] \in QualRow /\ today \in Nat
  BY DEF CertInv, SupplierTypes
<1>2. quals'[q].expires = quals[q].expires /\ today' \in Nat /\ today <= today'
  BY DEF CertsGoOn
<1>3. Expired(q) => Expired(q)'
  <2>1. SUFFICES ASSUME Expired(q) PROVE Expired(q)'
    OBVIOUS
  <2>2. quals[q].expires \in Int /\ quals[q].expires < today /\ quals[q].expires # NoExpiry
    BY <1>1, <2>1 DEF Expired, QualRow
  <2> QED BY <1>1, <1>2, <2>2 DEF Expired
<1>4. ASSUME Replaced(q) PROVE Replaced(q)'
  <2>1. PICK n \in (q + 1)..Len(quals) :
               quals[n].user = quals[q].user /\ quals[n].type = quals[q].type /\ Approved(n)
    BY <1>4 DEF Replaced
  <2>2. n \in DOMAIN quals /\ n \in (q + 1)..Len(quals')
    BY <2>1 DEF CertsGoOn
  <2>3. /\ quals'[n].user = quals'[q].user /\ quals'[n].type = quals'[q].type
        /\ quals'[n].status \in {"verified", "expired"}
    BY <2>1, <2>2 DEF CertsGoOn, Approved
  <2> QED BY <2>2, <2>3 DEF Replaced, Approved
<1> QED BY <1>3, <1>4

\* What is left to show of a step with which they go on.
LEMMA CertsKeep ==
    ASSUME CertInv, CertsGoOn, SupplierTypes',
           \A q \in DOMAIN quals' :
              \/ /\ q \in DOMAIN quals /\ quals'[q].status = quals[q].status
                 /\ quals'[q].told = quals[q].told /\ quals'[q].seen = quals[q].seen
              \/ QualFits(q)',
           \/ SweepFits'
           \/ /\ sweep' = sweep
              /\ sweep.doing.at = "write" =>
                    quals'[sweep.doing.qual].status = quals[sweep.doing.qual].status
                      /\ quals'[sweep.doing.qual].seen = quals[sweep.doing.qual].seen
    PROVE  CertInv'
<1>1. ASSUME NEW q \in DOMAIN quals' PROVE QualFits(q)'
  <2>1. CASE QualFits(q)'
    BY <2>1
  <2>2. CASE /\ q \in DOMAIN quals /\ quals'[q].status = quals[q].status
             /\ quals'[q].told = quals[q].told /\ quals'[q].seen = quals[q].seen
    <3>1. QualFits(q)
      BY <2>2 DEF CertInv
    <3>2. quals'[q].type = quals[q].type /\ quals'[q].expires = quals[q].expires
      BY <2>2 DEF CertsGoOn
    <3>3. Expired(q) => Expired(q)'
      BY <2>2, OverStays
    <3>4. quals'[q].type = "supplier_onboarding" => quals'[q].expires = NoExpiry
      BY <3>1, <3>2 DEF QualFits
    <3>5. quals'[q].status = "expired" => Expired(q)'
      BY <2>2, <3>1, <3>3 DEF QualFits
    <3>6. quals[q].told <= Cardinality(quals[q].seen)
      BY <3>1 DEF QualFits
    <3>7. quals'[q].told <= Cardinality(quals'[q].seen)
      BY <2>2, <3>6, Zenon
    <3> QED BY <3>4, <3>5, <3>7 DEF QualFits
  <2> QED BY <2>1, <2>2
<1>2. SweepFits'
  <2>1. CASE SweepFits'
    BY <2>1
  <2>2. CASE /\ sweep' = sweep
             /\ sweep.doing.at = "write" =>
                   quals'[sweep.doing.qual].status = quals[sweep.doing.qual].status
                     /\ quals'[sweep.doing.qual].seen = quals[sweep.doing.qual].seen
    <3>1. SweepFits
      BY DEF CertInv
    <3>2. sweep.left \in SUBSET DOMAIN quals'
      BY <3>1 DEF SweepFits, CertsGoOn
    <3>3. PICK q : q = sweep.doing.qual
      OBVIOUS
    <3>4. ASSUME sweep.doing.at = "write"
          PROVE  /\ q \in DOMAIN quals' /\ quals'[q].status = "verified"
                 /\ quals'[q].expires # NoExpiry /\ sweep.doing.action \notin quals'[q].seen
                 /\ sweep.doing.action = "qualification_expired" => Expired(q)'
                 /\ sweep.doing.current = TRUE \/ Replaced(q)'
      <4>1. /\ q \in DOMAIN quals /\ quals[q].status = "verified" /\ quals[q].expires # NoExpiry
            /\ sweep.doing.action \notin quals[q].seen
            /\ sweep.doing.action = "qualification_expired" => Expired(q)
            /\ sweep.doing.current = TRUE \/ Replaced(q)
        BY <3>1, <3>3, <3>4 DEF SweepFits
      <4>2. (Expired(q) => Expired(q)') /\ (Replaced(q) => Replaced(q)')
        BY <4>1, OverStays
      <4>3. q \in DOMAIN quals' /\ quals'[q].expires = quals[q].expires
        BY <4>1 DEF CertsGoOn
      <4>4. quals'[q].status = quals[q].status /\ quals'[q].seen = quals[q].seen
        BY <2>2, <3>3, <3>4
      <4> QED BY <4>1, <4>2, <4>3, <4>4
    <3> QED BY <2>2, <3>2, <3>3, <3>4 DEF SweepFits
  <2> QED BY <2>1, <2>2
<1> QED BY <1>1, <1>2 DEF CertInv

\* An application or a certificate more.
LEMMA QualSubmitted ==
    ASSUME CertInv, NEW u \in Members, NEW type, NEW expires,
           \/ type = "supplier_onboarding" /\ expires = NoExpiry
           \/ type \in CertTypes /\ expires \in {NoExpiry} \cup 0..MaxDay,
           quals' = Append(quals, NewQual(u, type, expires)), UNCHANGED <<sweep, today>>,
           quals' \in Seq(QualRow) => SupplierTypes'
    PROVE  CertInv' /\ CertsGoOn
<1>1. PICK row : row = NewQual(u, type, expires)
  OBVIOUS
<1>2. PICK n : n = Len(quals) + 1
  OBVIOUS
<1>3. quals \in Seq(QualRow) /\ today \in Nat
  BY DEF CertInv, SupplierTypes
<1>4. /\ row \in QualRow /\ row.status = "pending" /\ row.told = 0 /\ row.seen = {}
      /\ row.type = type /\ row.expires = expires
  BY <1>1 DEF NewQual, QualRow
<1>5. /\ quals' \in Seq(QualRow) /\ Len(quals') = n /\ quals'[n] = row
      /\ \A q \in 1..Len(quals) : quals'[q] = quals[q]
  BY <1>1, <1>2, <1>3, <1>4, AppendProperties
<1>6. Len(quals) \in Nat /\ DOMAIN quals = 1..Len(quals) /\ DOMAIN quals' = 1..Len(quals')
  BY <1>3, <1>5
<1>7. CertsGoOn
  <2>1. \A q \in DOMAIN quals' \ DOMAIN quals : q = n
    BY <1>2, <1>5, <1>6
  <2> QED BY <1>2, <1>3, <1>4, <1>5, <1>6, <2>1 DEF CertsGoOn
<1>8. ASSUME NEW q \in DOMAIN quals', q \notin DOMAIN quals PROVE QualFits(q)'
  <2>1. q = n
    BY <1>2, <1>5, <1>6, <1>8
  <2>2. type # "supplier_onboarding" \/ expires = NoExpiry
    BY SuppliersAssumption
  <2>3. Cardinality(row.seen) = 0
    BY <1>4, FS_EmptySet
  <2>4. row.told <= Cardinality(row.seen)
    BY <1>4, <2>3
  <2>5. quals'[q] = row
    BY <1>5, <2>1
  <2>6. quals'[q].told <= Cardinality(quals'[q].seen)
    BY <2>4, <2>5, Zenon
  <2>7. quals'[q].type = "supplier_onboarding" => quals'[q].expires = NoExpiry
    BY <1>4, <2>2, <2>5
  <2>8. quals'[q].status # "expired"
    BY <1>4, <2>5
  <2> QED BY <2>6, <2>7, <2>8 DEF QualFits
<1>9. sweep.doing.at = "write" => sweep.doing.qual \in DOMAIN quals
  BY DEF CertInv, SweepFits
<1>10. \A q \in DOMAIN quals : quals'[q] = quals[q]
  BY <1>5, <1>6
<1> QED BY <1>5, <1>7, <1>8, <1>9, <1>10, CertsKeep

\* Nothing happens to a certificate.
LEMMA CertsStand ==
    ASSUME CertInv, SupplierTypes', UNCHANGED <<quals, today>>, SweepFits' \/ sweep' = sweep
    PROVE  CertInv' /\ CertsGoOn
<1>1. quals \in Seq(QualRow) /\ today \in Nat
  BY DEF CertInv, SupplierTypes
<1>2. Len(quals) \in Nat /\ DOMAIN quals = 1..Len(quals)
  BY <1>1
<1>3. CertsGoOn
  BY <1>1, <1>2 DEF CertsGoOn
<1> QED BY <1>3, CertsKeep

\* What a desk that is not idle is doing.
LEMMA DeskFits ==
    ASSUME SupplierTypes, NEW d \in Desks
    PROVE  /\ desk[d].at = "identity" => desk[d] \in IdentityDesk
           /\ desk[d].at = "apply" => desk[d] \in ApplyDesk
           /\ desk[d].at \in {"check", "approve"} => desk[d] \in ProductDesk
           /\ desk[d] \in {IdleDesk} \cup IdentityDesk \cup ApplyDesk \cup ProductDesk
<1>1. desk[d] \in {IdleDesk} \cup IdentityDesk \cup ApplyDesk \cup ProductDesk
  BY DEF SupplierTypes
<1>2. desk[d] = IdleDesk => desk[d].at = "idle"
  BY DEF IdleDesk
<1>3. desk[d] \in IdentityDesk => desk[d].at = "identity"
  BY DEF IdentityDesk
<1>4. desk[d] \in ApplyDesk => desk[d].at = "apply"
  BY DEF ApplyDesk
<1>5. desk[d] \in ProductDesk => desk[d].at \in {"check", "approve"}
  BY DEF ProductDesk
<1> QED BY <1>1, <1>2, <1>3, <1>4, <1>5

LEMMA IdentityKeepsCerts ==
    ASSUME CertInv, IdentityStep
    PROVE  CertInv' /\ CertsGoOn
<1>1. SupplierTypes
  BY DEF CertInv
<1>2. PICK d \in Desks : WriteIdentity(d) \/ (\E u \in Members, kind \in Kinds : BeginIdentity(d, u, kind))
  BY DEF IdentityStep
<1>3. CASE WriteIdentity(d)
  <2>1. desk[d] \in IdentityDesk
    BY <1>1, <1>3, DeskFits DEF WriteIdentity
  <2>2. desk[d].user \in Members /\ desk[d].kind \in Kinds /\ desk[d].no \in Nat
    BY <2>1 DEF IdentityDesk
  <2>3. identity' \in [Members -> [Kinds -> Nat]]
    BY <1>1, <1>3, <2>2 DEF WriteIdentity, SupplierTypes
  <2>4. SupplierTypes' /\ UNCHANGED <<quals, sweep, today>>
    BY <1>1, <1>3, <2>3 DEF WriteIdentity, SupplierTypes
  <2> QED BY <2>4, CertsStand
<1>4. CASE \E u \in Members, kind \in Kinds : BeginIdentity(d, u, kind)
  <2>1. PICK u \in Members, kind \in Kinds : BeginIdentity(d, u, kind)
    BY <1>4
  <2>2. PICK x : x = [at |-> "identity", user |-> u, kind |-> kind,
                      no |-> submissions + 1, read |-> identity[u][kind]]
    OBVIOUS
  <2>3. x \in IdentityDesk
    BY <1>1, <2>1, <2>2 DEF IdentityDesk, SupplierTypes, BeginIdentity, Submittable
  <2>4. desk' = [desk EXCEPT ![d] = x]
    BY <2>1, <2>2 DEF BeginIdentity
  <2>5. SupplierTypes' /\ UNCHANGED <<quals, sweep, today>>
    BY <1>1, <2>1, <2>3, <2>4 DEF BeginIdentity, SupplierTypes
  <2> QED BY <2>5, CertsStand
<1> QED BY <1>2, <1>3, <1>4

LEMMA ProductsKeepCerts ==
    ASSUME CertInv, ProductStep
    PROVE  CertInv' /\ CertsGoOn
<1>1. SupplierTypes
  BY DEF CertInv
<1>2. UNCHANGED <<identity, submissions, quals, suppliers, sweep, today>>
  BY DEF ProductStep, Publish, RejectProduct, TakeOffSale, StockMoves, BeginApproval,
         CheckApproval, WriteApproval
<1>3. goods' \in [Goods -> GoodsStatus]
  <2>1. goods \in [Goods -> GoodsStatus]
    BY <1>1 DEF SupplierTypes
  <2>2. ASSUME NEW d \in Desks, WriteApproval(d) PROVE goods' \in [Goods -> GoodsStatus]
    <3>1. desk[d] \in ProductDesk
      BY <1>1, <2>2, DeskFits DEF WriteApproval
    <3> QED BY <2>1, <2>2, <3>1 DEF WriteApproval, ProductDesk, GoodsStatus
  <2> QED BY <2>1, <2>2 DEF ProductStep, Publish, RejectProduct, TakeOffSale, StockMoves,
                            BeginApproval, CheckApproval, GoodsStatus
<1>4. desk' \in [Desks -> {IdleDesk} \cup IdentityDesk \cup ApplyDesk \cup ProductDesk]
  <2>1. desk \in [Desks -> {IdleDesk} \cup IdentityDesk \cup ApplyDesk \cup ProductDesk]
    BY <1>1 DEF SupplierTypes
  <2>2. ASSUME NEW d \in Desks, CheckApproval(d)
        PROVE  desk' \in [Desks -> {IdleDesk} \cup IdentityDesk \cup ApplyDesk \cup ProductDesk]
    <3>1. desk[d] \in ProductDesk
      BY <1>1, <2>2, DeskFits DEF CheckApproval
    <3>2. [desk[d] EXCEPT !.at = "approve"] \in ProductDesk
      BY <3>1 DEF ProductDesk
    <3> QED BY <2>1, <2>2, <3>2 DEF CheckApproval
  <2>3. ASSUME NEW d \in Desks, NEW p \in Goods, BeginApproval(d, p)
        PROVE  desk' \in [Desks -> {IdleDesk} \cup IdentityDesk \cup ApplyDesk \cup ProductDesk]
    <3>1. [at |-> "check", product |-> p] \in ProductDesk
      BY DEF ProductDesk
    <3> QED BY <2>1, <2>3, <3>1 DEF BeginApproval
  <2>4. ASSUME NEW d \in Desks, WriteApproval(d)
        PROVE  desk' \in [Desks -> {IdleDesk} \cup IdentityDesk \cup ApplyDesk \cup ProductDesk]
    BY <2>1, <2>4 DEF WriteApproval
  <2> QED BY <2>1, <2>2, <2>3, <2>4 DEF ProductStep, Publish, RejectProduct, TakeOffSale, StockMoves
<1>5. SupplierTypes'
  BY <1>1, <1>2, <1>3, <1>4 DEF SupplierTypes
<1> QED BY <1>2, <1>5, CertsStand

\* A row is written anew.
LEMMA QualWritten ==
    ASSUME CertInv, NEW q \in DOMAIN quals, NEW row \in QualRow,
           quals' = [quals EXCEPT ![q] = row], UNCHANGED today,
           row.user = quals[q].user, row.type = quals[q].type, row.expires = quals[q].expires,
           \/ row.status = quals[q].status
           \/ quals[q].status = "pending" /\ row.status \in {"verified", "rejected"}
           \/ quals[q].status = "verified" /\ row.status = "expired" /\ Expires(q)
    PROVE  /\ CertsGoOn
           /\ quals' \in Seq(QualRow) /\ quals'[q] = row
           /\ \A n \in DOMAIN quals : n # q => quals'[n] = quals[n]
           /\ DOMAIN quals' = DOMAIN quals
<1>1. quals \in Seq(QualRow) /\ today \in Nat
  BY DEF CertInv, SupplierTypes
<1>2. /\ quals' \in Seq(QualRow) /\ Len(quals') = Len(quals) /\ quals'[q] = row
      /\ \A n \in DOMAIN quals : n # q => quals'[n] = quals[n]
      /\ DOMAIN quals' = DOMAIN quals
  BY <1>1
<1>3. Len(quals) \in Nat /\ DOMAIN quals = 1..Len(quals)
  BY <1>1
<1>4. \A n \in DOMAIN quals :
          /\ quals'[n].user = quals[n].user /\ quals'[n].type = quals[n].type
          /\ quals'[n].expires = quals[n].expires
          /\ \/ quals'[n].status = quals[n].status
             \/ quals[n].status = "pending" /\ quals'[n].status \in {"verified", "rejected"}
             \/ quals[n].status = "verified" /\ quals'[n].status = "expired" /\ Expires(n)
  <2>1. TAKE n \in DOMAIN quals
  <2>2. CASE n = q
    BY <1>2, <2>2
  <2>3. CASE n # q
    BY <1>2, <2>3
  <2> QED BY <2>2, <2>3
<1>5. CertsGoOn
  BY <1>1, <1>2, <1>3, <1>4 DEF CertsGoOn
<1> QED BY <1>2, <1>5

LEMMA OnboardingKeepsCerts ==
    ASSUME CertInv, OnboardingStep
    PROVE  CertInv' /\ CertsGoOn
<1>1. SupplierTypes
  BY DEF CertInv
<1>2. ASSUME NEW d \in Desks, NEW u \in Members, BeginApplication(d, u)
      PROVE  CertInv' /\ CertsGoOn
  <2>1. [at |-> "apply", user |-> u] \in ApplyDesk
    BY DEF ApplyDesk
  <2>2. SupplierTypes' /\ UNCHANGED <<quals, sweep, today>>
    BY <1>1, <1>2, <2>1 DEF BeginApplication, SupplierTypes
  <2> QED BY <2>2, CertsStand
<1>3. ASSUME NEW d \in Desks, InsertApplication(d)
      PROVE  CertInv' /\ CertsGoOn
  <2>1. desk[d] \in ApplyDesk
    BY <1>1, <1>3, DeskFits DEF InsertApplication
  <2>2. desk[d].user \in Members
    BY <2>1 DEF ApplyDesk
  <2>3. /\ quals' = Append(quals, NewQual(desk[d].user, "supplier_onboarding", NoExpiry))
        /\ UNCHANGED <<sweep, today>>
    BY <1>3 DEF InsertApplication
  <2>4. quals' \in Seq(QualRow) => SupplierTypes'
    BY <1>1, <1>3 DEF InsertApplication, SupplierTypes
  <2> QED BY <2>2, <2>3, <2>4, QualSubmitted
<1>4. ASSUME NEW q \in DOMAIN quals, NEW verdict \in {"verified", "rejected"},
             ReviewQualification(q, verdict)
      PROVE  CertInv' /\ CertsGoOn
  <2>1. PICK row : row = [quals[q] EXCEPT !.status = verdict]
    OBVIOUS
  <2>2. quals[q] \in QualRow
    BY <1>1 DEF SupplierTypes
  <2>3. /\ row \in QualRow /\ row.user = quals[q].user /\ row.type = quals[q].type
        /\ row.expires = quals[q].expires /\ row.status = verdict
        /\ row.told = quals[q].told /\ row.seen = quals[q].seen
    BY <2>1, <2>2 DEF QualRow
  <2>4. /\ quals' = [quals EXCEPT ![q] = row] /\ quals[q].status = "pending"
        /\ UNCHANGED <<sweep, today>>
    BY <1>4, <2>1 DEF ReviewQualification
  <2>5. /\ CertsGoOn /\ quals' \in Seq(QualRow) /\ quals'[q] = row
        /\ \A n \in DOMAIN quals : n # q => quals'[n] = quals[n]
        /\ DOMAIN quals' = DOMAIN quals
    BY <2>3, <2>4, QualWritten
  <2>6. SupplierTypes'
    <3>1. quals[q].user \in Members /\ submissions + 1 \in Nat
      BY <1>1, <2>2 DEF QualRow, SupplierTypes
    <3>2. suppliers' \in SUBSET Members /\ submissions' \in Nat
      BY <1>1, <1>4, <3>1 DEF ReviewQualification, SupplierTypes
    <3>3. identity' \in [Members -> [Kinds -> Nat]]
      <4>1. identity \in [Members -> [Kinds -> Nat]] /\ "enterprise" \in Kinds
        BY <1>1 DEF SupplierTypes, Kinds
      <4>2. \/ UNCHANGED identity
            \/ identity' = [identity EXCEPT ![quals[q].user]["enterprise"] = submissions + 1]
        BY <1>4 DEF ReviewQualification
      <4>3. [identity[quals[q].user] EXCEPT !["enterprise"] = submissions + 1] \in [Kinds -> Nat]
        BY <3>1, <4>1
      <4> QED BY <3>1, <4>1, <4>2, <4>3
    <3> QED BY <1>1, <1>4, <2>5, <3>2, <3>3 DEF ReviewQualification, SupplierTypes
  <2>7. ASSUME NEW n \in DOMAIN quals'
        PROVE  \/ /\ n \in DOMAIN quals /\ quals'[n].status = quals[n].status
                  /\ quals'[n].told = quals[n].told /\ quals'[n].seen = quals[n].seen
               \/ QualFits(n)'
    <3>1. CASE n # q
      BY <2>5, <3>1
    <3>2. CASE n = q
      <4>1. QualFits(q)
        BY DEF CertInv
      <4>2. quals'[q].type = "supplier_onboarding" => quals'[q].expires = NoExpiry
        BY <2>3, <2>5, <4>1 DEF QualFits
      <4>3. quals'[q].status # "expired"
        BY <2>3, <2>5
      <4>4. quals[q].told <= Cardinality(quals[q].seen)
        BY <4>1 DEF QualFits
      <4>5. quals'[q].told <= Cardinality(quals'[q].seen)
        BY <2>3, <2>5, <4>4, Zenon
      <4>6. QualFits(q)'
        BY <4>2, <4>3, <4>5 DEF QualFits
      <4> QED BY <3>2, <4>6
    <3> QED BY <3>1, <3>2
  <2>8. sweep.doing.at = "write" =>
            quals'[sweep.doing.qual].status = quals[sweep.doing.qual].status
              /\ quals'[sweep.doing.qual].seen = quals[sweep.doing.qual].seen
    <3>1. sweep.doing.at = "write" =>
             sweep.doing.qual \in DOMAIN quals /\ quals[sweep.doing.qual].status = "verified"
      BY DEF CertInv, SweepFits
    <3> QED BY <2>4, <2>5, <3>1
  <2> QED BY <2>4, <2>5, <2>6, <2>7, <2>8, CertsKeep
<1> QED BY <1>2, <1>3, <1>4 DEF OnboardingStep

LEMMA SubmissionKeepsCerts ==
    ASSUME CertInv, CertificateStep
    PROVE  CertInv' /\ CertsGoOn
<1>1. SupplierTypes
  BY DEF CertInv
<1>2. PICK u \in Members, type \in CertTypes, expires \in {NoExpiry} \cup 0..MaxDay :
           SubmitQualification(u, type, expires)
  BY DEF CertificateStep
<1>3. /\ quals' = Append(quals, NewQual(u, type, expires)) /\ UNCHANGED <<sweep, today>>
      /\ quals' \in Seq(QualRow) => SupplierTypes'
  BY <1>1, <1>2 DEF SubmitQualification, SupplierTypes
<1> QED BY <1>3, QualSubmitted

\* A certificate that is not the current one any more was replaced.
LEMMA NotCurrent ==
    ASSUME NEW q
    PROVE  ~Current(q) => Replaced(q)
BY DEF Current, Replaced, Approved

LEMMA ActionsAreFew == IsFiniteSet(SweepActions)
<1>1. IsFiniteSet({"qualification_expired"})
  BY FS_Singleton
<1>2. SweepActions = {"qualification_expired"} \cup {"qualification_expiring"}
  BY DEF SweepActions
<1> QED BY <1>1, <1>2, FS_AddElement

\* What the sweep makes of a row.
LEMMA NotedFits ==
    ASSUME NEW qual \in QualRow, NEW action \in SweepActions, NEW current \in BOOLEAN,
           NEW row, row = Noted(qual, action, current)
    PROVE  /\ row \in QualRow
           /\ row.user = qual.user /\ row.type = qual.type /\ row.expires = qual.expires
           /\ row.status = (IF action = "qualification_expired" THEN "expired" ELSE qual.status)
           /\ row.told \in {qual.told, qual.told + 1}
           /\ row.seen = qual.seen \cup {action}
<1>1. PICK told1 : told1 = IF current THEN qual.told + 1 ELSE qual.told
  OBVIOUS
<1>2. told1 \in {qual.told, qual.told + 1}
  BY <1>1, Zenon
<1>3. PICK status1 : status1 = IF action = "qualification_expired" THEN "expired" ELSE qual.status
  OBVIOUS
<1>4. PICK seen1 : seen1 = qual.seen \cup {action}
  OBVIOUS
<1>5. /\ told1 \in Nat /\ seen1 \in SUBSET SweepActions
      /\ status1 \in {"pending", "verified", "rejected", "expired"}
  BY <1>2, <1>3, <1>4 DEF QualRow
<1>6. row = [qual EXCEPT !.status = status1, !.told = told1, !.seen = seen1]
  BY <1>1, <1>3, <1>4, Zenon DEF Noted
<1>7. /\ row \in QualRow
      /\ row.user = qual.user /\ row.type = qual.type /\ row.expires = qual.expires
      /\ row.status = status1 /\ row.told = told1 /\ row.seen = seen1
  BY <1>5, <1>6 DEF QualRow
<1> QED BY <1>2, <1>3, <1>4, <1>7

LEMMA SweepKeepsCerts ==
    ASSUME CertInv, SweepStep
    PROVE  CertInv' /\ CertsGoOn
<1>1. SupplierTypes /\ SweepFits
  BY DEF CertInv
<1>2. quals \in Seq(QualRow) /\ DOMAIN quals \in SUBSET Nat
  <2>1. quals \in Seq(QualRow)
    BY <1>1 DEF SupplierTypes
  <2> QED BY <2>1
<1>3. ASSUME BeginSweep PROVE CertInv' /\ CertsGoOn
  <2>1. PICK due : due = {q \in DOMAIN quals : Due(q)}
    OBVIOUS
  <2>2. sweep' = [left |-> due, doing |-> [at |-> "next"]] /\ due \in SUBSET DOMAIN quals
    BY <1>3, <2>1 DEF BeginSweep, IdleSweep
  <2>3. SupplierTypes' /\ UNCHANGED <<quals, today>>
    BY <1>1, <1>2, <1>3, <2>2 DEF BeginSweep, SupplierTypes
  <2>4. SweepFits'
    BY <2>2, <2>3 DEF SweepFits
  <2> QED BY <2>3, <2>4, CertsStand
<1>4. ASSUME ReadForSweep PROVE CertInv' /\ CertsGoOn
  <2>1. PICK q \in sweep.left :
           sweep' = [left |-> sweep.left \ {q},
                     doing |-> IF Due(q) /\ (Current(q) \/ Expired(q)) /\ ~Recorded(q)
                               THEN [at |-> "write", qual |-> q, action |-> Action(q),
                                     current |-> Current(q)]
                               ELSE [at |-> "next"]]
    BY <1>4 DEF ReadForSweep
  <2>2. UNCHANGED <<identity, submissions, quals, suppliers, goods, desk, today>>
    BY <1>4 DEF ReadForSweep
  <2>3. q \in DOMAIN quals /\ q \in Nat /\ sweep.left \in SUBSET DOMAIN quals
    BY <1>1, <1>2, <2>1 DEF SweepFits
  <2>4. CASE Due(q) /\ (Current(q) \/ Expired(q)) /\ ~Recorded(q)
    <3>1. PICK c : c = Current(q)
      OBVIOUS
    <3>2. c \in BOOLEAN
      BY <3>1 DEF Current
    <3>3. PICK a : a = Action(q)
      OBVIOUS
    <3>4. a \in SweepActions
      BY <3>3 DEF Action, SweepActions
    <3>5. sweep' = [left |-> sweep.left \ {q},
                    doing |-> [at |-> "write", qual |-> q, action |-> a, current |-> c]]
      BY <2>1, <2>4, <3>1, <3>3
    <3>6. [at |-> "write", qual |-> q, action |-> a, current |-> c] \in Writing
      BY <2>3, <3>2, <3>4 DEF Writing
    <3>7. SupplierTypes'
      BY <1>1, <1>2, <2>2, <2>3, <3>5, <3>6 DEF SupplierTypes
    <3>8. quals[q].status = "verified" /\ quals[q].expires # NoExpiry /\ a \notin quals[q].seen
      BY <2>4, <3>3 DEF Due, Recorded
    <3>9. a = "qualification_expired" => Expired(q)
      BY <3>3 DEF Action
    <3>10. c = TRUE \/ Replaced(q)
      BY <3>1, <3>2, NotCurrent
    <3>11. SweepFits'
      <4>1. Expired(q)' = Expired(q) /\ Replaced(q)' = Replaced(q)
        BY <2>2 DEF Expired, Replaced, Approved
      <4> QED BY <2>2, <2>3, <3>5, <3>8, <3>9, <3>10, <4>1 DEF SweepFits
    <3> QED BY <2>2, <3>7, <3>11, CertsStand
  <2>5. CASE ~(Due(q) /\ (Current(q) \/ Expired(q)) /\ ~Recorded(q))
    <3>1. sweep' = [left |-> sweep.left \ {q}, doing |-> [at |-> "next"]]
      BY <2>1, <2>5
    <3>2. SupplierTypes'
      BY <1>1, <1>2, <2>2, <2>3, <3>1 DEF SupplierTypes
    <3>3. SweepFits'
      BY <2>2, <2>3, <3>1 DEF SweepFits
    <3> QED BY <2>2, <3>2, <3>3, CertsStand
  <2> QED BY <2>4, <2>5
<1>5. ASSUME WriteSweep PROVE CertInv' /\ CertsGoOn
  <2>1. PICK s : s = sweep.doing
    OBVIOUS
  <2>2. s.at = "write" /\ s \in {[at |-> "next"]} \cup Writing
    BY <1>1, <1>5, <2>1 DEF WriteSweep, SupplierTypes
  <2>3. s \in Writing
    BY <2>2
  <2>4. PICK q : q = s.qual
    OBVIOUS
  <2>5. /\ q \in DOMAIN quals /\ quals[q].status = "verified" /\ s.action \notin quals[q].seen
        /\ s.action = "qualification_expired" => Expired(q)
    BY <1>1, <2>1, <2>2, <2>4 DEF SweepFits
  <2>6. s.action \in SweepActions /\ s.current \in BOOLEAN
    BY <2>3 DEF Writing
  <2>7. PICK row : row = Noted(quals[q], s.action, s.current)
    OBVIOUS
  <2>8. quals' = [quals EXCEPT ![q] = row]
    BY <1>5, <2>1, <2>4, <2>7 DEF WriteSweep
  <2>9. /\ UNCHANGED <<identity, submissions, suppliers, desk, today>>
        /\ sweep' = [sweep EXCEPT !.doing = [at |-> "next"]]
    BY <1>5 DEF WriteSweep
  <2>10. quals[q] \in QualRow
    BY <1>2, <2>5
  <2>11. /\ quals[q].user \in Members /\ quals[q].told \in Nat
         /\ quals[q].seen \in SUBSET SweepActions
         /\ quals[q].type = "supplier_onboarding" => quals[q].expires = NoExpiry
         /\ quals[q].told <= Cardinality(quals[q].seen)
    <3>1. QualFits(q)
      BY <2>5 DEF CertInv
    <3> QED BY <2>10, <3>1 DEF QualRow, QualFits
  <2>12. /\ row.user = quals[q].user /\ row.type = quals[q].type
         /\ row.expires = quals[q].expires
         /\ row.status = (IF s.action = "qualification_expired" THEN "expired" ELSE quals[q].status)
         /\ row.told \in {quals[q].told, quals[q].told + 1}
         /\ row.seen = quals[q].seen \cup {s.action}
         /\ row \in QualRow
    BY <2>6, <2>7, <2>10, NotedFits
  <2>13. /\ CertsGoOn /\ quals' \in Seq(QualRow) /\ quals'[q] = row
         /\ \A n \in DOMAIN quals : n # q => quals'[n] = quals[n]
         /\ DOMAIN quals' = DOMAIN quals
    <3>1. \/ row.status = quals[q].status
          \/ quals[q].status = "verified" /\ row.status = "expired" /\ Expires(q)
      BY <2>1, <2>2, <2>4, <2>5, <2>12 DEF Expires
    <3>2. UNCHANGED today
      BY <2>9
    <3> QED BY <2>5, <2>8, <2>12, <3>1, <3>2, QualWritten
  <2>14. Cardinality(row.seen) = Cardinality(quals[q].seen) + 1
    <3>1. IsFiniteSet(SweepActions)
      BY ActionsAreFew
    <3>2. IsFiniteSet(quals[q].seen)
      BY <2>11, <3>1, FS_Subset
    <3> QED BY <2>5, <2>12, <3>2, FS_AddElement, ZenonT(40)
  <2>15. QualFits(q)'
    <3>1. Cardinality(quals[q].seen) \in Nat
      <4>1. IsFiniteSet(SweepActions)
        BY ActionsAreFew
      <4> QED BY <2>11, <4>1, FS_Subset, FS_CardinalityType
    <3>2. row.told <= Cardinality(row.seen)
      BY <2>6, <2>11, <2>12, <2>14, <3>1
    <3>3. quals'[q].told <= Cardinality(quals'[q].seen)
      BY <2>13, <3>2, Zenon
    <3>4. quals'[q].type = "supplier_onboarding" => quals'[q].expires = NoExpiry
      BY <2>11, <2>12, <2>13
    <3>5. quals'[q].status = "expired" => Expired(q)'
      <4>1. Expired(q)' = Expired(q)
        BY <2>9, <2>12, <2>13 DEF Expired
      <4> QED BY <2>5, <2>12, <2>13, <4>1
    <3> QED BY <3>3, <3>4, <3>5 DEF QualFits
  <2>16. ASSUME NEW n \in DOMAIN quals'
         PROVE  \/ /\ n \in DOMAIN quals /\ quals'[n].status = quals[n].status
                   /\ quals'[n].told = quals[n].told /\ quals'[n].seen = quals[n].seen
                \/ QualFits(n)'
    <3>1. CASE n # q
      BY <2>13, <3>1
    <3>2. CASE n = q
      BY <2>15, <3>2
    <3> QED BY <3>1, <3>2
  <2>17. SupplierTypes'
    <3>1. goods' \in [Goods -> GoodsStatus]
      BY <1>1, <1>5 DEF WriteSweep, Frozen, SupplierTypes, GoodsStatus
    <3>2. sweep' \in [left : SUBSET Nat, doing : {[at |-> "next"]} \cup Writing]
      BY <1>1, <2>9 DEF SupplierTypes
    <3> QED BY <1>1, <2>9, <2>13, <3>1, <3>2 DEF SupplierTypes
  <2>18. SweepFits'
    <3>1. sweep'.left = sweep.left /\ sweep'.doing.at = "next"
      BY <1>1, <2>9 DEF SupplierTypes
    <3> QED BY <1>1, <2>13, <3>1 DEF SweepFits
  <2> QED BY <2>13, <2>16, <2>17, <2>18, CertsKeep
<1> QED BY <1>3, <1>4, <1>5 DEF SweepStep

LEMMA DaysKeepCerts ==
    ASSUME CertInv, DayPasses
    PROVE  CertInv' /\ CertsGoOn
<1>1. SupplierTypes'
  BY DEF CertInv, SupplierTypes, DayPasses
<1>2. quals \in Seq(QualRow) /\ today \in Nat /\ today' = today + 1 /\ UNCHANGED <<quals, sweep>>
  BY DEF CertInv, SupplierTypes, DayPasses
<1>3. Len(quals) \in Nat /\ DOMAIN quals = 1..Len(quals)
  BY <1>2
<1>4. CertsGoOn
  BY <1>2, <1>3 DEF CertsGoOn
<1> QED BY <1>1, <1>2, <1>4, CertsKeep

LEMMA CertsBegin == SuppliersInit => CertInv
<1>1. SUFFICES ASSUME SuppliersInit PROVE CertInv
  OBVIOUS
<1>2. quals = <<>> /\ DOMAIN quals = {} /\ quals \in Seq(QualRow)
  BY <1>1 DEF SuppliersInit
<1>3. SupplierTypes
  BY <1>1, <1>2 DEF SuppliersInit, SupplierTypes, IdleSweep, GoodsStatus
<1>4. SweepFits
  BY <1>1 DEF SuppliersInit, SweepFits, IdleSweep
<1> QED BY <1>2, <1>3, <1>4 DEF CertInv

LEMMA CertsStayFit ==
    ASSUME CertInv, [SuppliersNext]_supplierVars
    PROVE  CertInv' /\ CertsGoOn
<1>1. CASE SuppliersNext
  BY <1>1, IdentityKeepsCerts, OnboardingKeepsCerts, SubmissionKeepsCerts, ProductsKeepCerts,
     SweepKeepsCerts, DaysKeepCerts DEF SuppliersNext
<1>2. CASE UNCHANGED supplierVars
  <2>1. SupplierTypes' /\ UNCHANGED <<quals, today, sweep>>
    BY <1>2 DEF supplierVars, CertInv, SupplierTypes
  <2> QED BY <2>1, CertsStand
<1> QED BY <1>1, <1>2

\* An open or granted application is the only one of its user, none is under way besides one
\* that is being made, and every supplier has a granted one.
OneInv ==
    /\ \A d, e \in Desks :
          (desk[d].at = "apply" /\ desk[e].at = "apply" /\ desk[d].user = desk[e].user) => d = e
    /\ \A d \in Desks, u \in Members :
          (desk[d].at = "apply" /\ desk[d].user = u) => Onboardings(u) = {}
    /\ \A u \in Members : \A p, q \in Onboardings(u) : p = q
    /\ \A u \in suppliers : \E q \in Onboardings(u) : quals[q].status = "verified"

\* An application is never expired: it stays granted, or goes.
LEMMA OnboardingsGoOn ==
    ASSUME CertInv, CertsGoOn, NEW u \in Members
    PROVE  /\ (\A q \in DOMAIN quals' \ DOMAIN quals :
                 ~(quals'[q].user = u /\ quals'[q].type = "supplier_onboarding"))
                 => Onboardings(u)' \subseteq Onboardings(u)
           /\ \A q \in Onboardings(u) :
                 quals[q].status = "verified" =>
                    q \in Onboardings(u)' /\ quals'[q].status = "verified"
<1>1. ASSUME NEW q \in Onboardings(u)', q \in DOMAIN quals PROVE q \in Onboardings(u)
  <2>1. /\ quals'[q].user = u /\ quals'[q].type = "supplier_onboarding"
        /\ quals'[q].status \in {"pending", "verified"}
    BY <1>1 DEF Onboardings
  <2>2. /\ quals[q].user = u /\ quals[q].type = "supplier_onboarding"
        /\ quals[q].status \in {"pending", "verified"}
    BY <1>1, <2>1 DEF CertsGoOn
  <2> QED BY <1>1, <2>2 DEF Onboardings
<1>2. \A q \in Onboardings(u)' : q \in DOMAIN quals' /\ quals'[q].user = u
                                   /\ quals'[q].type = "supplier_onboarding"
  BY DEF Onboardings
<1>3. ASSUME NEW q \in Onboardings(u), quals[q].status = "verified"
      PROVE  q \in Onboardings(u)' /\ quals'[q].status = "verified"
  <2>1. q \in DOMAIN quals /\ quals[q].user = u /\ quals[q].type = "supplier_onboarding"
    BY DEF Onboardings
  <2>2. ~Expired(q)
    BY <2>1 DEF CertInv, QualFits, Expired
  <2>3. ~Expires(q)
    BY <2>2 DEF CertInv, SweepFits, Expires
  <2>4. quals'[q].status = "verified" /\ quals'[q].user = u /\ quals'[q].type = "supplier_onboarding"
    BY <1>3, <2>1, <2>3 DEF CertsGoOn
  <2>5. q \in DOMAIN quals'
    BY <2>1 DEF CertsGoOn
  <2> QED BY <2>4, <2>5 DEF Onboardings
<1> QED BY <1>1, <1>2, <1>3

\* A step without a new application.
LEMMA OneStays ==
    ASSUME CertInv, CertsGoOn, OneInv, suppliers' = suppliers,
           \A q \in DOMAIN quals' \ DOMAIN quals : quals'[q].type # "supplier_onboarding",
           \A d \in Desks : desk'[d].at = "apply" => desk'[d] = desk[d]
    PROVE  OneInv'
<1>1. \A u \in Members : Onboardings(u)' \subseteq Onboardings(u)
  BY OnboardingsGoOn
<1>2. suppliers \in SUBSET Members
  BY DEF CertInv, SupplierTypes
<1>3. \A d, e \in Desks : (desk'[d].at = "apply" /\ desk'[e].at = "apply"
                             /\ desk'[d].user = desk'[e].user) => d = e
  BY DEF OneInv
<1>4. ASSUME NEW d \in Desks, NEW u \in Members, desk'[d].at = "apply", desk'[d].user = u
      PROVE  Onboardings(u)' = {}
  <2>1. desk[d].at = "apply" /\ desk[d].user = u
    BY <1>4
  <2>2. Onboardings(u) = {}
    BY <2>1 DEF OneInv
  <2> QED BY <1>1, <2>2
<1>5. \A u \in Members : \A p, q \in Onboardings(u)' : p = q
  BY <1>1 DEF OneInv
<1>6. ASSUME NEW u \in suppliers' PROVE \E q \in Onboardings(u)' : quals'[q].status = "verified"
  <2>1. u \in Members /\ u \in suppliers
    BY <1>2, <1>6
  <2>2. PICK q \in Onboardings(u) : quals[q].status = "verified"
    BY <2>1 DEF OneInv
  <2> QED BY <2>1, <2>2, OnboardingsGoOn
<1> QED BY <1>3, <1>4, <1>5, <1>6 DEF OneInv

LEMMA OneBegins == SuppliersInit => OneInv
BY DEF SuppliersInit, OneInv, Onboardings, IdleDesk

LEMMA OnboardingKeepsOne ==
    ASSUME CertInv, OneInv, OnboardingStep
    PROVE  OneInv'
<1>1. CertInv' /\ CertsGoOn
  BY OnboardingKeepsCerts
<1>2. ASSUME NEW d \in Desks, NEW u \in Members, BeginApplication(d, u) PROVE OneInv'
  <2>1. /\ desk[d].at = "idle" /\ UserFree(u) /\ Onboardings(u) = {}
        /\ UNCHANGED <<quals, suppliers>>
        /\ desk' = [desk EXCEPT ![d] = [at |-> "apply", user |-> u]]
    BY <1>2 DEF BeginApplication
  <2>2. desk \in [Desks -> {IdleDesk} \cup IdentityDesk \cup ApplyDesk \cup ProductDesk]
    BY DEF CertInv, SupplierTypes
  <2>3. /\ desk'[d] = [at |-> "apply", user |-> u]
        /\ \A e \in Desks : e # d => desk'[e] = desk[e]
    BY <2>1, <2>2
  <2>4. \A e \in Desks : desk[e].at = "apply" => desk[e].user # u
    BY <2>1 DEF UserFree
  <2>5. \A e, f \in Desks : (desk'[e].at = "apply" /\ desk'[f].at = "apply"
                               /\ desk'[e].user = desk'[f].user) => e = f
    BY <2>3, <2>4 DEF OneInv
  <2>6. \A w \in Members : Onboardings(w)' = Onboardings(w)
    BY <2>1 DEF Onboardings
  <2>7. \A e \in Desks, w \in Members :
           (desk'[e].at = "apply" /\ desk'[e].user = w) => Onboardings(w) = {}
    BY <2>1, <2>3 DEF OneInv
  <2>8. suppliers \in SUBSET Members
    BY DEF CertInv, SupplierTypes
  <2>9. /\ \A w \in Members : \A p, q \in Onboardings(w)' : p = q
        /\ \A w \in suppliers' : \E q \in Onboardings(w)' : quals'[q].status = "verified"
    BY <2>1, <2>6, <2>8 DEF OneInv
  <2>10. \A e \in Desks, w \in Members :
           (desk'[e].at = "apply" /\ desk'[e].user = w) => Onboardings(w)' = {}
    BY <2>6, <2>7
  <2> QED BY <2>5, <2>9, <2>10 DEF OneInv
<1>3. ASSUME NEW d \in Desks, InsertApplication(d) PROVE OneInv'
  <2>1. /\ desk[d].at = "apply" /\ UNCHANGED suppliers /\ desk' = [desk EXCEPT ![d] = IdleDesk]
        /\ quals' = Append(quals, NewQual(desk[d].user, "supplier_onboarding", NoExpiry))
    BY <1>3 DEF InsertApplication
  <2>2. /\ desk \in [Desks -> {IdleDesk} \cup IdentityDesk \cup ApplyDesk \cup ProductDesk]
        /\ suppliers \in SUBSET Members /\ quals \in Seq(QualRow)
    BY DEF CertInv, SupplierTypes
  <2>3. PICK u : u = desk[d].user
    OBVIOUS
  <2>4. u \in Members
    BY <2>1, <2>3, DeskFits DEF CertInv, ApplyDesk
  <2>5. PICK n : n = Len(quals) + 1
    OBVIOUS
  <2>6. NewQual(u, "supplier_onboarding", NoExpiry) \in QualRow
    BY <2>4 DEF NewQual, QualRow
  <2>7. DOMAIN quals' \ DOMAIN quals \subseteq {n} /\ quals'[n].user = u
    BY <2>1, <2>2, <2>3, <2>5, <2>6, AppendProperties DEF NewQual
  <2>8. \A w \in Members : w # u => Onboardings(w)' \subseteq Onboardings(w)
    <3>1. ASSUME NEW w \in Members, w # u PROVE Onboardings(w)' \subseteq Onboardings(w)
      BY <1>1, <2>7, <3>1, OnboardingsGoOn
    <3> QED BY <3>1
  <2>9. Onboardings(u) = {}
    BY <2>1, <2>3, <2>4 DEF OneInv
  <2>10. Onboardings(u)' \subseteq {n}
    <3>1. ASSUME NEW q \in Onboardings(u)' PROVE q = n
      <4>1. /\ q \in DOMAIN quals' /\ quals'[q].user = u /\ quals'[q].type = "supplier_onboarding"
            /\ quals'[q].status \in {"pending", "verified"}
        BY DEF Onboardings
      <4>2. CASE q \in DOMAIN quals
        <5>1. quals'[q] = quals[q]
          BY <2>1, <2>2, <2>3, <2>6, <4>2, AppendProperties
        <5>2. q \in Onboardings(u)
          BY <4>1, <4>2, <5>1 DEF Onboardings
        <5> QED BY <2>9, <5>2
      <4>3. CASE q \notin DOMAIN quals
        BY <2>7, <4>1, <4>3
      <4> QED BY <4>2, <4>3
    <3> QED BY <3>1
  <2>11. \A e \in Desks : desk'[e].at = "apply" => e # d /\ desk'[e] = desk[e]
    BY <2>1, <2>2 DEF IdleDesk
  <2>12. \A e \in Desks : desk'[e].at = "apply" => desk[e].user # u
    BY <2>1, <2>3, <2>11 DEF OneInv
  <2>13. \A e, f \in Desks : (desk'[e].at = "apply" /\ desk'[f].at = "apply"
                                /\ desk'[e].user = desk'[f].user) => e = f
    BY <2>11 DEF OneInv
  <2>14. ASSUME NEW e \in Desks, NEW w \in Members, desk'[e].at = "apply", desk'[e].user = w
         PROVE  Onboardings(w)' = {}
    <3>1. desk[e].at = "apply" /\ desk[e].user = w /\ w # u
      BY <2>11, <2>12, <2>14
    <3>2. Onboardings(w) = {}
      BY <3>1 DEF OneInv
    <3> QED BY <2>8, <3>1, <3>2
  <2>15. ASSUME NEW w \in Members PROVE \A p, q \in Onboardings(w)' : p = q
    <3>1. CASE w = u
      BY <2>10, <3>1
    <3>2. CASE w # u
      BY <2>8, <3>2 DEF OneInv
    <3> QED BY <3>1, <3>2
  <2>16. ASSUME NEW w \in suppliers' PROVE \E q \in Onboardings(w)' : quals'[q].status = "verified"
    <3>1. w \in suppliers /\ w \in Members
      BY <2>1, <2>2
    <3>2. PICK q \in Onboardings(w) : quals[q].status = "verified"
      BY <3>1 DEF OneInv
    <3> QED BY <1>1, <3>1, <3>2, OnboardingsGoOn
  <2> QED BY <2>13, <2>14, <2>15, <2>16 DEF OneInv
<1>4. ASSUME NEW q \in DOMAIN quals, NEW verdict \in {"verified", "rejected"},
             ReviewQualification(q, verdict)
      PROVE  OneInv'
  <2>1. quals \in Seq(QualRow) /\ suppliers \in SUBSET Members /\ quals[q] \in QualRow
    BY DEF CertInv, SupplierTypes
  <2>2. UNCHANGED desk /\ quals' = [quals EXCEPT ![q].status = verdict] /\ quals[q].status = "pending"
    BY <1>4 DEF ReviewQualification
  <2>3. DOMAIN quals' = DOMAIN quals
    BY <2>2
  <2>4. \A w \in Members : Onboardings(w)' \subseteq Onboardings(w)
    BY <1>1, <2>3, OnboardingsGoOn
  <2>5. /\ \A w \in Members : \A p, n \in Onboardings(w)' : p = n
        /\ \A e, f \in Desks : (desk'[e].at = "apply" /\ desk'[f].at = "apply"
                                  /\ desk'[e].user = desk'[f].user) => e = f
    BY <2>2, <2>4 DEF OneInv
  <2>6. ASSUME NEW e \in Desks, NEW w \in Members, desk'[e].at = "apply", desk'[e].user = w
        PROVE  Onboardings(w)' = {}
    <3>1. Onboardings(w) = {}
      BY <2>2, <2>6 DEF OneInv
    <3> QED BY <2>4, <3>1
  <2>7. ASSUME NEW w \in suppliers' PROVE \E n \in Onboardings(w)' : quals'[n].status = "verified"
    <3>1. CASE w \in suppliers
      <4>1. w \in Members
        BY <2>1, <3>1
      <4>2. PICK n \in Onboardings(w) : quals[n].status = "verified"
        BY <3>1 DEF OneInv
      <4> QED BY <1>1, <4>1, <4>2, OnboardingsGoOn
    <3>2. CASE w \notin suppliers
      <4>1. w = quals[q].user /\ verdict = "verified" /\ quals[q].type = "supplier_onboarding"
        BY <1>4, <2>7, <3>2 DEF ReviewQualification
      <4>2. /\ quals'[q].status = "verified" /\ quals'[q].user = w
            /\ quals'[q].type = "supplier_onboarding"
        BY <1>1, <2>1, <2>2, <4>1 DEF QualRow
      <4>3. q \in Onboardings(w)'
        BY <2>3, <4>2 DEF Onboardings
      <4> QED BY <4>2, <4>3
    <3> QED BY <3>1, <3>2
  <2> QED BY <2>5, <2>6, <2>7 DEF OneInv
<1> QED BY <1>2, <1>3, <1>4 DEF OnboardingStep

LEMMA OneIsKept ==
    ASSUME CertInv, OneInv, [SuppliersNext]_supplierVars
    PROVE  OneInv'
<1>1. CertInv' /\ CertsGoOn
  BY CertsStayFit
<1>2. CASE OnboardingStep
  BY <1>2, OnboardingKeepsOne
<1>3. CASE CertificateStep
  <2>1. PICK u \in Members, type \in CertTypes, expires \in {NoExpiry} \cup 0..MaxDay :
             SubmitQualification(u, type, expires)
    BY <1>3 DEF CertificateStep
  <2>2. quals' = Append(quals, NewQual(u, type, expires)) /\ UNCHANGED <<suppliers, desk>>
    BY <2>1 DEF SubmitQualification
  <2>3. quals \in Seq(QualRow) /\ NewQual(u, type, expires) \in QualRow
    BY DEF CertInv, SupplierTypes, NewQual, QualRow
  <2>4. \A q \in DOMAIN quals' \ DOMAIN quals : quals'[q].type = type
    BY <2>2, <2>3, AppendProperties DEF NewQual
  <2>5. type # "supplier_onboarding"
    BY SuppliersAssumption
  <2> QED BY <1>1, <2>2, <2>4, <2>5, OneStays
<1>4. CASE IdentityStep \/ ProductStep \/ SweepStep \/ DayPasses \/ UNCHANGED supplierVars
  <2>1. quals \in Seq(QualRow)
    BY DEF CertInv, SupplierTypes
  <2>2. desk \in [Desks -> {IdleDesk} \cup IdentityDesk \cup ApplyDesk \cup ProductDesk]
    BY DEF CertInv, SupplierTypes
  <2>3. DOMAIN quals' = DOMAIN quals /\ suppliers' = suppliers
    BY <1>4, <2>1 DEF IdentityStep, WriteIdentity, BeginIdentity, ProductStep, Publish,
          RejectProduct, TakeOffSale, StockMoves, BeginApproval, CheckApproval, WriteApproval,
          SweepStep, BeginSweep, ReadForSweep, WriteSweep, DayPasses, supplierVars
  <2>4. ASSUME NEW d \in Desks, desk'[d].at = "apply" PROVE desk'[d] = desk[d]
    <3>1. CASE IdentityStep
      BY <2>2, <2>4, <3>1 DEF IdentityStep, WriteIdentity, BeginIdentity, IdleDesk
    <3>2. CASE ProductStep
      <4>1. ASSUME NEW e \in Desks, CheckApproval(e) PROVE desk'[d] = desk[d]
        <5>1. desk[e] \in ProductDesk
          BY <4>1, DeskFits DEF CheckApproval, CertInv
        <5>2. [desk[e] EXCEPT !.at = "approve"].at = "approve"
          BY <5>1 DEF ProductDesk
        <5> QED BY <2>2, <2>4, <4>1, <5>2 DEF CheckApproval, IdleDesk
      <4>2. ASSUME NEW e \in Desks, NEW p \in Goods, BeginApproval(e, p) PROVE desk'[d] = desk[d]
        BY <2>2, <2>4, <4>2 DEF BeginApproval
      <4>3. ASSUME NEW e \in Desks, WriteApproval(e) PROVE desk'[d] = desk[d]
        BY <2>2, <2>4, <4>3 DEF WriteApproval, IdleDesk
      <4> QED BY <3>2, <4>1, <4>2, <4>3 DEF ProductStep, Publish, RejectProduct, TakeOffSale,
                                            StockMoves
    <3>3. CASE SweepStep \/ DayPasses \/ UNCHANGED supplierVars
      BY <3>3 DEF SweepStep, BeginSweep, ReadForSweep, WriteSweep, DayPasses, supplierVars
    <3> QED BY <1>4, <3>1, <3>2, <3>3
  <2> QED BY <1>1, <2>3, <2>4, OneStays
<1> QED BY <1>2, <1>3, <1>4 DEF SuppliersNext

\* The last certificate of a kind that u was granted has expired, and the sweep has said so.
SweptOut(u) ==
    \E q \in DOMAIN quals :
        LastApproved(q) /\ quals[q].status = "expired" /\ quals[q].user = u

\* Who is swept out has nothing on sale, and nothing that a review is about to put there.
SweptInv ==
    /\ \A u \in Members : SweptOut(u) => ~OnSale(u)
    /\ \A d \in Desks, p \in Goods :
          (desk[d].at = "approve" /\ desk[d].product = p) => ~SweptOut(OwnerOf[p])

\* The last one approved was the last one before, too.
LEMMA LastBefore ==
    ASSUME CertInv, CertsGoOn, NEW q \in DOMAIN quals', LastApproved(q)',
           quals'[q].status = "expired"
    PROVE  /\ q \in DOMAIN quals /\ quals'[q].user = quals[q].user
           /\ LastApproved(q)
           /\ quals[q].status = "expired" \/ quals[q].status = "verified"
<1>1. q \in DOMAIN quals
  BY DEF CertsGoOn
<1>2. /\ quals'[q].user = quals[q].user /\ quals'[q].type = quals[q].type
      /\ quals[q].status \in {"verified", "expired"}
  BY <1>1 DEF CertsGoOn
<1>3. ASSUME NEW n \in (q + 1)..Len(quals), quals[n].user = quals[q].user,
             quals[n].type = quals[q].type, quals[n].status \in {"verified", "expired"}
      PROVE  FALSE
  <2>1. q \in Nat \ {0} /\ Len(quals) \in Nat /\ Len(quals') \in Nat /\ Len(quals) <= Len(quals')
        /\ DOMAIN quals = 1..Len(quals)
    BY <1>1 DEF CertsGoOn
  <2>2. n \in DOMAIN quals /\ n \in (q + 1)..Len(quals')
    BY <2>1
  <2>3. /\ quals'[n].user = quals'[q].user /\ quals'[n].type = quals'[q].type
        /\ quals'[n].status \in {"verified", "expired"}
    BY <1>2, <1>3, <2>2 DEF CertsGoOn
  <2> QED BY <2>2, <2>3 DEF LastApproved
<1> QED BY <1>1, <1>2, <1>3 DEF LastApproved

\* Whoever passes the look at the certificates is not swept out.
LEMMA UnexpiredIsNotSwept ==
    ASSUME CertInv, NEW u \in Members, Unexpired(u)
    PROVE  ~SweptOut(u)
<1>1. SUFFICES ASSUME NEW q \in DOMAIN quals, LastApproved(q), quals[q].status = "expired",
                      quals[q].user = u
               PROVE  FALSE
  BY DEF SweptOut
<1>2. Expired(q)
  BY <1>1 DEF CertInv, QualFits
<1>3. Current(q)
  BY <1>1 DEF Current, LastApproved
<1> QED BY <1>1, <1>2, <1>3 DEF Unexpired

\* A step that expires nothing, and puts nothing on sale that somebody swept out has.
LEMMA SweptStays ==
    ASSUME CertInv, CertsGoOn, SweptInv,
           \A q \in DOMAIN quals : quals'[q].status = "expired" => quals[q].status = "expired",
           \A u \in Members : OnSale(u)' => OnSale(u) \/ ~SweptOut(u),
           \A d \in Desks, p \in Goods :
              (desk'[d].at = "approve" /\ desk'[d].product = p) => ~SweptOut(OwnerOf[p])
    PROVE  SweptInv'
<1>1. ASSUME NEW u, SweptOut(u)' PROVE SweptOut(u)
  <2>1. PICK q \in DOMAIN quals' :
                LastApproved(q)' /\ quals'[q].status = "expired" /\ quals'[q].user = u
    BY <1>1 DEF SweptOut
  <2>2. q \in DOMAIN quals /\ quals'[q].user = quals[q].user /\ LastApproved(q)
    BY <2>1, LastBefore
  <2>3. quals[q].status = "expired"
    BY <2>1, <2>2
  <2> QED BY <2>1, <2>2, <2>3 DEF SweptOut
<1>2. ASSUME NEW u \in Members, SweptOut(u)' PROVE ~OnSale(u)'
  BY <1>1, <1>2 DEF SweptInv
<1>3. ASSUME NEW d \in Desks, NEW p \in Goods, desk'[d].at = "approve", desk'[d].product = p
      PROVE  ~SweptOut(OwnerOf[p])'
  <2>1. ~SweptOut(OwnerOf[p])
    BY <1>3
  <2>2. PICK u : u = OwnerOf[p]
    OBVIOUS
  <2>3. ~SweptOut(u)'
    BY <1>1, <2>1, <2>2
  <2> QED BY <2>2, <2>3 DEF SweptOut
<1> QED BY <1>2, <1>3 DEF SweptInv

LEMMA SweptBegins == SuppliersInit => SweptInv
BY DEF SuppliersInit, SweptInv, SweptOut, IdleDesk

LEMMA WriteKeepsSwept ==
    ASSUME CertInv, SweptInv, WriteSweep
    PROVE  SweptInv'
<1>1. CertInv' /\ CertsGoOn
  BY SweepKeepsCerts DEF SweepStep
<1>2. /\ SupplierTypes /\ SweepFits /\ quals \in Seq(QualRow)
      /\ goods \in [Goods -> GoodsStatus]
  BY DEF CertInv, SupplierTypes
<1>3. PICK q : q = sweep.doing.qual
  OBVIOUS
<1>4. /\ sweep.doing.at = "write" /\ q \in DOMAIN quals /\ UNCHANGED desk
      /\ quals' = [quals EXCEPT ![q] = Noted(quals[q], sweep.doing.action, sweep.doing.current)]
  BY <1>2, <1>3 DEF WriteSweep, SweepFits
<1>5. \A n \in DOMAIN quals : n # q => quals'[n] = quals[n]
  BY <1>4
<1>6. sweep.doing \in Writing
  BY <1>2, <1>4 DEF SupplierTypes
<1>7. /\ sweep.doing.action \in SweepActions /\ sweep.doing.current \in BOOLEAN
      /\ quals[q] \in QualRow /\ quals[q].user \in Members
  <2>1. quals[q] \in QualRow
    BY <1>2, <1>4
  <2>2. quals[q].user \in Members
    BY <2>1 DEF QualRow
  <2>3. sweep.doing.action \in SweepActions /\ sweep.doing.current \in BOOLEAN
    BY <1>6 DEF Writing
  <2> QED BY <2>1, <2>2, <2>3
<1>8. /\ quals'[q].status = (IF sweep.doing.action = "qualification_expired" THEN "expired"
                             ELSE quals[q].status)
      /\ quals'[q].user = quals[q].user
  BY <1>4, <1>7, NotedFits
<1>9. \A u \in Members : OnSale(u)' => OnSale(u)
  BY <1>2 DEF OnSale, WriteSweep, Frozen, GoodsStatus
<1>10. CASE \/ sweep.doing.action # "qualification_expired" \/ ~LastApproved(q)'
  <2>1. ASSUME NEW u, SweptOut(u)' PROVE SweptOut(u)
    <3>1. PICK n \in DOMAIN quals' :
                  LastApproved(n)' /\ quals'[n].status = "expired" /\ quals'[n].user = u
      BY <2>1 DEF SweptOut
    <3>2. n \in DOMAIN quals /\ quals'[n].user = quals[n].user /\ LastApproved(n)
      BY <1>1, <3>1, LastBefore
    <3>3. quals[n].status = "expired"
      BY <1>5, <1>8, <1>10, <3>1, <3>2
    <3> QED BY <3>1, <3>2, <3>3 DEF SweptOut
  <2>2. \A u \in Members : SweptOut(u)' => ~OnSale(u)'
    BY <1>9, <2>1 DEF SweptInv
  <2>3. ASSUME NEW d \in Desks, NEW p \in Goods, desk'[d].at = "approve", desk'[d].product = p
        PROVE  ~SweptOut(OwnerOf[p])'
    <3>1. PICK u : u = OwnerOf[p]
      OBVIOUS
    <3>2. ~SweptOut(u)
      BY <1>4, <2>3, <3>1 DEF SweptInv
    <3>3. ~SweptOut(u)'
      BY <2>1, <3>2
    <3> QED BY <3>1, <3>3 DEF SweptOut
  <2> QED BY <2>2, <2>3 DEF SweptInv
<1>11. CASE sweep.doing.action = "qualification_expired" /\ LastApproved(q)'
  <2>1. ~Replaced(q)'
    <3>1. \A n \in ((q + 1)..Len(quals))' :
              (quals'[n].user = quals'[q].user /\ quals'[n].type = quals'[q].type)
                  => quals'[n].status \notin {"verified", "expired"}
      BY <1>11 DEF LastApproved
    <3> QED BY <3>1 DEF Replaced, Approved
  <2>2. ~Replaced(q)
    BY <1>1, <1>4, <2>1, OverStays
  <2>3. sweep.doing.current = TRUE
    BY <1>2, <1>3, <1>4, <2>2 DEF SweepFits
  <2>4. PICK u \in Members : u = quals[q].user
    BY <1>7
  <2>5. /\ \A p \in Goods : OwnerOf[p] = u => Unlocked(p)
        /\ goods' = Frozen(u)
    BY <1>3, <1>11, <2>3, <2>4 DEF WriteSweep
  <2>6. ~OnSale(u)'
    BY <2>5 DEF OnSale, Frozen
  <2>7. ASSUME NEW w, w # u, SweptOut(w)' PROVE SweptOut(w)
    <3>1. PICK n \in DOMAIN quals' :
                  LastApproved(n)' /\ quals'[n].status = "expired" /\ quals'[n].user = w
      BY <2>7 DEF SweptOut
    <3>2. n \in DOMAIN quals /\ quals'[n].user = quals[n].user /\ LastApproved(n)
      BY <1>1, <3>1, LastBefore
    <3>3. n # q
      BY <1>8, <2>4, <2>7, <3>1
    <3>4. quals[n].status = "expired"
      BY <1>5, <3>1, <3>2, <3>3
    <3> QED BY <3>1, <3>2, <3>4 DEF SweptOut
  <2>8. ASSUME NEW w \in Members, SweptOut(w)' PROVE ~OnSale(w)'
    <3>1. CASE w = u
      BY <2>6, <3>1
    <3>2. CASE w # u
      BY <1>9, <2>7, <2>8, <3>2 DEF SweptInv
    <3> QED BY <3>1, <3>2
  <2>9. ASSUME NEW d \in Desks, NEW p \in Goods, desk'[d].at = "approve", desk'[d].product = p
        PROVE  ~SweptOut(OwnerOf[p])'
    <3>1. PICK w : w = OwnerOf[p]
      OBVIOUS
    <3>2. w # u
      BY <1>4, <2>5, <2>9, <3>1 DEF Unlocked
    <3>3. ~SweptOut(w)
      BY <1>4, <2>9, <3>1 DEF SweptInv
    <3>4. ~SweptOut(w)'
      BY <2>7, <3>2, <3>3
    <3> QED BY <3>1, <3>4 DEF SweptOut
  <2> QED BY <2>8, <2>9 DEF SweptInv
<1> QED BY <1>10, <1>11

LEMMA ProductsKeepSwept ==
    ASSUME CertInv, SweptInv, ProductStep
    PROVE  SweptInv'
<1>1. CertInv' /\ CertsGoOn /\ UNCHANGED quals
  BY ProductsKeepCerts DEF ProductStep, Publish, RejectProduct, TakeOffSale, StockMoves,
     BeginApproval, CheckApproval, WriteApproval
<1>2. /\ goods \in [Goods -> GoodsStatus] /\ OwnerOf \in [Goods -> Members]
      /\ desk \in [Desks -> {IdleDesk} \cup IdentityDesk \cup ApplyDesk \cup ProductDesk]
  BY SuppliersAssumption DEF CertInv, SupplierTypes
<1>3. CASE \E p \in Goods : Publish(p) \/ RejectProduct(p) \/ TakeOffSale(p) \/ StockMoves(p)
  <2>1. PICK p \in Goods : Publish(p) \/ RejectProduct(p) \/ TakeOffSale(p) \/ StockMoves(p)
    BY <1>3
  <2>2. UNCHANGED desk
    BY <2>1 DEF Publish, RejectProduct, TakeOffSale, StockMoves
  <2>3. \A n \in Goods : goods'[n] \in {"active", "sold_out"} => goods[n] \in {"active", "sold_out"}
    BY <1>2, <2>1 DEF Publish, RejectProduct, TakeOffSale, StockMoves
  <2>4. \A u \in Members : OnSale(u)' => OnSale(u)
    BY <2>3 DEF OnSale
  <2> QED BY <1>1, <2>2, <2>4, SweptStays DEF SweptInv
<1>4. ASSUME NEW d \in Desks, NEW p \in Goods, BeginApproval(d, p) PROVE SweptInv'
  <2>1. UNCHANGED goods /\ desk' = [desk EXCEPT ![d] = [at |-> "check", product |-> p]]
    BY <1>4 DEF BeginApproval
  <2>2. \A e \in Desks : desk'[e].at = "approve" => desk'[e] = desk[e]
    BY <1>2, <2>1
  <2>3. \A u \in Members : OnSale(u)' => OnSale(u)
    BY <2>1 DEF OnSale
  <2> QED BY <1>1, <2>2, <2>3, SweptStays DEF SweptInv
<1>5. ASSUME NEW d \in Desks, CheckApproval(d) PROVE SweptInv'
  <2>1. /\ UNCHANGED goods /\ desk[d].at = "check"
        /\ desk' = [desk EXCEPT ![d] = IF Approvable(@.product) THEN [@ EXCEPT !.at = "approve"]
                                       ELSE IdleDesk]
    BY <1>5 DEF CheckApproval
  <2>2. desk[d] \in ProductDesk
    BY <2>1, DeskFits DEF CertInv
  <2>3. desk[d].product \in Goods /\ OwnerOf[desk[d].product] \in Members
    BY <1>2, <2>2 DEF ProductDesk
  <2>4. /\ \A e \in Desks : e # d => desk'[e] = desk[e]
        /\ Approvable(desk[d].product) => desk'[d] = [desk[d] EXCEPT !.at = "approve"]
        /\ ~Approvable(desk[d].product) => desk'[d] = IdleDesk
    BY <1>2, <2>1
  <2>5. ASSUME NEW e \in Desks, NEW p \in Goods, desk'[e].at = "approve", desk'[e].product = p
        PROVE  ~SweptOut(OwnerOf[p])
    <3>1. CASE e # d
      BY <2>4, <2>5, <3>1 DEF SweptInv
    <3>2. CASE e = d
      <4>1. Approvable(desk[d].product)
        BY <2>4, <2>5, <3>2 DEF IdleDesk
      <4>2. desk'[d].product = desk[d].product
        BY <2>2, <2>4, <4>1 DEF ProductDesk
      <4>3. Unexpired(OwnerOf[p])
        BY <2>5, <3>2, <4>1, <4>2 DEF Approvable
      <4>4. PICK u \in Members : u = OwnerOf[p]
        BY <2>3, <2>5, <3>2, <4>2
      <4> QED BY <4>3, <4>4, UnexpiredIsNotSwept
    <3> QED BY <3>1, <3>2
  <2>6. \A u \in Members : OnSale(u)' => OnSale(u)
    BY <2>1 DEF OnSale
  <2> QED BY <1>1, <2>5, <2>6, SweptStays
<1>6. ASSUME NEW d \in Desks, WriteApproval(d) PROVE SweptInv'
  <2>1. /\ desk[d].at = "approve" /\ desk' = [desk EXCEPT ![d] = IdleDesk]
        /\ goods' = [goods EXCEPT ![desk[d].product] = "active"]
    BY <1>6 DEF WriteApproval
  <2>2. PICK g \in Goods : g = desk[d].product
    BY <2>1, DeskFits DEF CertInv, ProductDesk
  <2>3. ~SweptOut(OwnerOf[g])
    BY <2>1, <2>2 DEF SweptInv
  <2>4. \A n \in Goods : n # g => goods'[n] = goods[n]
    BY <1>2, <2>1, <2>2
  <2>5. ASSUME NEW u \in Members, OnSale(u)' PROVE OnSale(u) \/ ~SweptOut(u)
    <3>1. PICK n \in Goods : OwnerOf[n] = u /\ goods'[n] \in {"active", "sold_out"}
      BY <2>5 DEF OnSale
    <3>2. CASE n = g
      BY <2>3, <3>1, <3>2
    <3>3. CASE n # g
      BY <2>4, <3>1, <3>3 DEF OnSale
    <3> QED BY <3>2, <3>3
  <2>6. \A e \in Desks : desk'[e].at = "approve" => desk'[e] = desk[e]
    BY <1>2, <2>1 DEF IdleDesk
  <2> QED BY <1>1, <2>5, <2>6, SweptStays DEF SweptInv
<1> QED BY <1>3, <1>4, <1>5, <1>6 DEF ProductStep

LEMMA SweptIsKept ==
    ASSUME CertInv, SweptInv, [SuppliersNext]_supplierVars
    PROVE  SweptInv'
<1>1. CertInv' /\ CertsGoOn
  BY CertsStayFit
<1>2. CASE ProductStep
  BY <1>2, ProductsKeepSwept
<1>3. CASE WriteSweep
  BY <1>3, WriteKeepsSwept
<1>4. CASE IdentityStep \/ OnboardingStep \/ CertificateStep \/ BeginSweep \/ ReadForSweep
             \/ DayPasses \/ UNCHANGED supplierVars
  <2>1. UNCHANGED goods
    BY <1>4 DEF IdentityStep, WriteIdentity, BeginIdentity, OnboardingStep, InsertApplication,
       BeginApplication, ReviewQualification, CertificateStep, SubmitQualification,
       BeginSweep, ReadForSweep, DayPasses, supplierVars
  <2>2. \A u \in Members : OnSale(u)' => OnSale(u)
    BY <2>1 DEF OnSale
  <2>3. desk \in [Desks -> {IdleDesk} \cup IdentityDesk \cup ApplyDesk \cup ProductDesk]
    BY DEF CertInv, SupplierTypes
  <2>4. ASSUME NEW d \in Desks, desk'[d].at = "approve" PROVE desk'[d] = desk[d]
    <3>1. ASSUME NEW e \in Desks, NEW x, desk' = [desk EXCEPT ![e] = x], x.at # "approve"
          PROVE  desk'[d] = desk[d]
      BY <2>3, <2>4, <3>1
    <3>2. IdleDesk.at # "approve"
      BY DEF IdleDesk
    <3>3. CASE IdentityStep
      <4>1. PICK e \in Desks : \/ WriteIdentity(e)
                               \/ \E u \in Members, kind \in Kinds : BeginIdentity(e, u, kind)
        BY <3>3 DEF IdentityStep
      <4>2. \E x : desk' = [desk EXCEPT ![e] = x] /\ x.at # "approve"
        BY <3>2, <4>1 DEF WriteIdentity, BeginIdentity
      <4> QED BY <3>1, <4>2
    <3>4. CASE OnboardingStep
      <4>1. ASSUME NEW e \in Desks, InsertApplication(e) PROVE desk'[d] = desk[d]
        BY <3>1, <3>2, <4>1 DEF InsertApplication
      <4>2. ASSUME NEW e \in Desks, NEW u \in Members, BeginApplication(e, u)
            PROVE  desk'[d] = desk[d]
        <5>1. PICK x : x = [at |-> "apply", user |-> u]
          OBVIOUS
        <5>2. desk' = [desk EXCEPT ![e] = x] /\ x.at # "approve"
          BY <4>2, <5>1 DEF BeginApplication
        <5> QED BY <3>1, <5>2
      <4>3. ASSUME NEW q \in DOMAIN quals, NEW verdict \in {"verified", "rejected"},
                   ReviewQualification(q, verdict)
            PROVE  desk'[d] = desk[d]
        BY <4>3 DEF ReviewQualification
      <4> QED BY <3>4, <4>1, <4>2, <4>3 DEF OnboardingStep
    <3>5. CASE CertificateStep \/ BeginSweep \/ ReadForSweep \/ DayPasses \/ UNCHANGED supplierVars
      BY <3>5 DEF CertificateStep, SubmitQualification, BeginSweep, ReadForSweep, DayPasses,
         supplierVars
    <3> QED BY <1>4, <3>3, <3>4, <3>5
  <2>5. quals \in Seq(QualRow)
    BY DEF CertInv, SupplierTypes
  <2>6. ASSUME NEW q \in DOMAIN quals, quals'[q].status = "expired" PROVE quals[q].status = "expired"
    <3>1. CASE OnboardingStep
      <4>1. ASSUME NEW n \in DOMAIN quals, NEW verdict \in {"verified", "rejected"},
                   ReviewQualification(n, verdict)
            PROVE  quals[q].status = "expired"
        <5>1. quals' = [quals EXCEPT ![n].status = verdict] /\ quals[n] \in QualRow
          BY <2>5, <4>1 DEF ReviewQualification
        <5>2. n = q => quals'[q].status = verdict
          BY <2>5, <5>1 DEF QualRow
        <5> QED BY <2>5, <2>6, <5>1, <5>2
      <4>2. ASSUME NEW d \in Desks, InsertApplication(d) PROVE quals[q].status = "expired"
        <5>1. desk[d].user \in Members
          BY <4>2, DeskFits DEF CertInv, ApplyDesk, InsertApplication
        <5>2. PICK row \in QualRow : quals' = Append(quals, row)
          BY <4>2, <5>1 DEF InsertApplication, NewQual, QualRow
        <5> QED BY <2>5, <2>6, <5>2, AppendProperties
      <4>3. ASSUME NEW d \in Desks, NEW u \in Members, BeginApplication(d, u)
            PROVE  quals[q].status = "expired"
        BY <2>6, <4>3 DEF BeginApplication
      <4> QED BY <3>1, <4>1, <4>2, <4>3 DEF OnboardingStep
    <3>2. CASE CertificateStep
      <4>1. PICK u \in Members, type \in CertTypes, expires \in {NoExpiry} \cup 0..MaxDay :
                 SubmitQualification(u, type, expires)
        BY <3>2 DEF CertificateStep
      <4>2. PICK row \in QualRow : quals' = Append(quals, row)
        BY <4>1 DEF SubmitQualification, NewQual, QualRow
      <4> QED BY <2>5, <2>6, <4>2, AppendProperties
    <3>3. CASE IdentityStep \/ BeginSweep \/ ReadForSweep \/ DayPasses \/ UNCHANGED supplierVars
      BY <2>6, <3>3 DEF IdentityStep, WriteIdentity, BeginIdentity, BeginSweep, ReadForSweep,
         DayPasses, supplierVars
    <3> QED BY <1>4, <3>1, <3>2, <3>3
  <2>7. \A d \in Desks, p \in Goods :
           (desk'[d].at = "approve" /\ desk'[d].product = p) => ~SweptOut(OwnerOf[p])
    BY <2>4 DEF SweptInv
  <2> QED BY <1>1, <2>2, <2>6, <2>7, SweptStays
<1> QED BY <1>2, <1>3, <1>4 DEF SuppliersNext, SweepStep

\* An identity is written by a submission that found none, or with the first verified
\* application of its company.
LEMMA IdentityStepsKeep ==
    ASSUME CertInv, OneInv, [SuppliersNext]_supplierVars,
           NEW u \in Members, NEW kind \in Kinds,
           identity[u][kind] # 0, identity'[u][kind] # identity[u][kind]
    PROVE  \/ \E d \in Desks : desk[d].at = "identity" /\ desk[d].user = u
                               /\ desk[d].no = identity'[u][kind] /\ desk[d].read = 0
           \/ kind = "enterprise" /\ u \in suppliers' \ suppliers
<1>1. identity \in [Members -> [Kinds -> Nat]]
  BY DEF CertInv, SupplierTypes
<1>2. ASSUME NEW d \in Desks, WriteIdentity(d)
      PROVE  desk[d].at = "identity" /\ desk[d].user = u
               /\ desk[d].no = identity'[u][kind] /\ desk[d].read = 0
  <2>1. /\ desk[d].at = "identity"
        /\ identity' = [identity EXCEPT ![desk[d].user][desk[d].kind] = desk[d].no]
    BY <1>2 DEF WriteIdentity
  <2>2. desk[d].user \in Members /\ desk[d].kind \in Kinds /\ desk[d].read = 0
    BY <2>1, DeskFits DEF CertInv, IdentityDesk
  <2> QED BY <1>1, <2>1, <2>2
<1>3. ASSUME NEW q \in DOMAIN quals, NEW verdict \in {"verified", "rejected"},
             ReviewQualification(q, verdict)
      PROVE  kind = "enterprise" /\ u \in suppliers' \ suppliers
  <2>1. /\ verdict = "verified" /\ quals[q].type = "supplier_onboarding"
        /\ suppliers' = suppliers \cup {quals[q].user} /\ quals[q].status = "pending"
        /\ identity' = [identity EXCEPT ![quals[q].user]["enterprise"] = submissions + 1]
    BY <1>3 DEF ReviewQualification
  <2>2. u = quals[q].user /\ kind = "enterprise"
    BY <1>1, <2>1
  <2>3. q \in Onboardings(u)
    BY <2>1, <2>2 DEF Onboardings
  <2>4. u \notin suppliers
    BY <2>1, <2>3 DEF OneInv
  <2> QED BY <2>1, <2>2, <2>4
<1>4. \/ \E d \in Desks : WriteIdentity(d)
      \/ \E q \in DOMAIN quals, verdict \in {"verified", "rejected"} : ReviewQualification(q, verdict)
  BY DEF SuppliersNext, IdentityStep, BeginIdentity, OnboardingStep, InsertApplication,
     BeginApplication, CertificateStep, SubmitQualification, ProductStep, Publish, RejectProduct,
     TakeOffSale, StockMoves, BeginApproval, CheckApproval, WriteApproval, SweepStep, BeginSweep,
     ReadForSweep, WriteSweep, DayPasses, supplierVars
<1> QED BY <1>2, <1>3, <1>4

\* Whoever is swept out sells nothing, until a newer certificate is approved; each notice of
\* an expiry is given once; a user has one application open or granted, and a supplier exactly
\* one; and an identity that was verified is kept: for any number of users, products and
\* certificates, with any interleaving of the requests, the reviews and the sweep (repository.go,
\* qualification_expiry.go).
THEOREM SuppliersStayVetted == SuppliersSpec => SuppliersAreVetted
<1> DEFINE Inv == CertInv /\ OneInv /\ SweptInv
<1>1. Inv => SweptSellNothing /\ ToldOnce /\ OneOnboarding
  <2>1. SUFFICES ASSUME Inv PROVE SweptSellNothing /\ ToldOnce /\ OneOnboarding
    OBVIOUS
  <2>2. SweptSellNothing
    <3>1. ASSUME NEW q \in DOMAIN quals, LastApproved(q), quals[q].status = "expired"
          PROVE  ~OnSale(quals[q].user)
      <4>1. quals[q] \in QualRow
        BY <2>1 DEF CertInv, SupplierTypes
      <4>2. quals[q].user \in Members
        BY <4>1 DEF QualRow
      <4> QED BY <2>1, <3>1, <4>2 DEF SweptInv, SweptOut
    <3> QED BY <3>1 DEF SweptSellNothing
  <2>3. ToldOnce
    BY <2>1 DEF CertInv, QualFits, ToldOnce
  <2>4. OneOnboarding
    <3>1. ASSUME NEW u \in Members
          PROVE  /\ Cardinality(Onboardings(u)) <= 1
                 /\ u \in suppliers => Cardinality(Onboardings(u)) = 1
      <4>1. \A p, q \in Onboardings(u) : p = q
        BY <2>1 DEF OneInv
      <4>2. CASE Onboardings(u) = {}
        <5>1. u \notin suppliers
          BY <2>1, <4>2 DEF OneInv
        <5>2. Cardinality(Onboardings(u)) = 0
          BY <4>2, FS_EmptySet
        <5> QED BY <5>1, <5>2
      <4>3. CASE Onboardings(u) # {}
        <5>1. PICK q : q \in Onboardings(u)
          BY <4>3
        <5>2. Onboardings(u) = {q}
          BY <4>1, <5>1
        <5>3. Cardinality(Onboardings(u)) = 1
          BY <5>2, FS_Singleton
        <5> QED BY <5>3
      <4> QED BY <4>2, <4>3
    <3> QED BY <3>1 DEF OneOnboarding
  <2> QED BY <2>2, <2>3, <2>4
<1>2. SuppliersInit => Inv
  BY CertsBegin, OneBegins, SweptBegins
<1>3. Inv /\ [SuppliersNext]_supplierVars => Inv'
  BY CertsStayFit, OneIsKept, SweptIsKept
<1>4. Inv /\ [SuppliersNext]_supplierVars =>
        [\A u \in Members, kind \in Kinds :
           (identity[u][kind] # 0 /\ identity'[u][kind] # identity[u][kind]) =>
             \/ \E d \in Desks : desk[d].at = "identity" /\ desk[d].user = u
                                 /\ desk[d].no = identity'[u][kind] /\ desk[d].read = 0
             \/ kind = "enterprise" /\ u \in suppliers' \ suppliers]_supplierVars
  BY IdentityStepsKeep
<1> HIDE DEF Inv
<1> QED BY <1>1, <1>2, <1>3, <1>4, PTL DEF SuppliersSpec, SuppliersAreVetted, IdentityIsKept

-----------------------------------------------------------------------------
(* Registrations of collateral *)

ValidForms == {f \in RegForms : ValidReg(f)}
RegRow == [status : {"valid", "cancelled"}, form : ValidForms]
RegUpdate == [at : {"read"}, reg : Nat, form : ValidForms, cancelled : BOOLEAN]

CollateralTypes ==
    /\ regs \in Seq(RegRow)
    /\ updating \in [Clerks -> {NoUpdate} \cup RegUpdate]
    /\ now \in Nat

\* Whose update is late is known.
UpdatesFit ==
    \A k \in Clerks : updating[k].at = "read" =>
        /\ updating[k].reg \in DOMAIN regs
        /\ regs[updating[k].reg].status = "cancelled" => updating[k].cancelled = TRUE

ReaderType ==
    \/ reader = NoReader
    \/ /\ reader = [at |-> reader.at, lessee |-> reader.lessee, next |-> reader.next,
                    seen |-> reader.seen, shuffled |-> reader.shuffled, from |-> reader.from]
       /\ reader.at \in {"page", "done"} /\ reader.next \in Nat \ {0}

\* What a reader has not seen yet is on a page that is still to be turned to.
Awaits(rd) ==
    rd.at # "idle" =>
        \/ rd.shuffled = TRUE
        \/ \A r \in rd.from :
              /\ r \in RowsOf(rd.lessee)
              /\ \/ r \in rd.seen
                 \/ rd.at = "page" /\ RowPlace(rd.lessee, r) > Offset(rd.next)

RowsAreAhead == Awaits(reader)

CollateralInv == CollateralTypes /\ UpdatesFit /\ ReaderType /\ RowsAreAhead

LEMMA PagesHaveRows == PageSize \in Nat \ {0}
BY CollateralAssumption DEF PageSize

\* The pages follow each other.
LEMMA OffsetsFollow ==
    ASSUME NEW n \in Nat \ {0}
    PROVE  Offset(n) \in Nat /\ Offset(n + 1) = Offset(n) + PageSize
<1>1. PICK p \in Nat \ {0} : p = PageSize
  BY PagesHaveRows
<1>2. (n - 1) * p \in Nat /\ ((n + 1) - 1) * p = (n - 1) * p + p
  OBVIOUS
<1> QED BY <1>1, <1>2 DEF Offset

LEMMA FormsHaveDates ==
    ASSUME NEW f \in ValidForms
    PROVE  f.start \in Int /\ f.end \in Int
BY CollateralAssumption DEF ValidForms, ValidReg

\* The rows of a lessee stand in a row, and are a finite number.
RowsInOrder(lessee) ==
    {pair \in RowsOf(lessee) \X RowsOf(lessee) : RowBefore(pair[1], pair[2])}

LEMMA RowsStandInOrder ==
    ASSUME CollateralTypes, NEW lessee
    PROVE  /\ IsFiniteSet(RowsOf(lessee)) /\ InARow(RowsInOrder(lessee), RowsOf(lessee))
           /\ \A r \in RowsOf(lessee) :
                 RowPlace(lessee, r) = Places(RowsInOrder(lessee), RowsOf(lessee))[r]
<1> DEFINE S == RowsOf(lessee)
           R == RowsInOrder(lessee)
<1>1. regs \in Seq(RegRow) /\ Len(regs) \in Nat /\ DOMAIN regs = 1..Len(regs)
  BY DEF CollateralTypes
<1>2. IsFiniteSet(S)
  <2>1. IsFiniteSet(1..Len(regs))
    BY <1>1, FS_Interval
  <2>2. S \in SUBSET (1..Len(regs))
    BY <1>1 DEF RowsOf
  <2> QED BY <2>1, <2>2, FS_Subset
<1>3. ASSUME NEW r \in S PROVE r \in Nat /\ regs[r].form.start \in Int
  <2>1. r \in 1..Len(regs) /\ regs[r] \in RegRow
    BY <1>1 DEF RowsOf
  <2>2. regs[r].form \in ValidForms
    BY <2>1 DEF RegRow
  <2> QED BY <2>1, <2>2, FormsHaveDates
<1>4. \A a, b \in S : <<a, b>> \in R <=> RowBefore(a, b)
  <2>1. TAKE a \in S, b \in S
  <2>2. PICK pair : pair = <<a, b>>
    OBVIOUS
  <2>3. pair \in S \X S /\ pair[1] = a /\ pair[2] = b
    BY <2>2
  <2>4. pair \in R <=> RowBefore(pair[1], pair[2])
    BY <2>3 DEF RowsInOrder
  <2>5. RowBefore(pair[1], pair[2]) <=> RowBefore(a, b)
    BY <2>3
  <2>6. pair \in R <=> <<a, b>> \in R
    BY <2>2
  <2> QED BY <2>4, <2>5, <2>6
<1> HIDE DEF S, R
<1>5. InARow(R, S)
  <2>1. ASSUME NEW a \in S, NEW b \in S, NEW c \in S, RowBefore(a, b), RowBefore(b, c)
        PROVE  RowBefore(a, c)
    BY <1>3, <2>1 DEF RowBefore
  <2>2. \A a \in S : ~RowBefore(a, a)
    BY <1>3 DEF RowBefore
  <2>3. \A a, b \in S : a # b => RowBefore(a, b) \/ RowBefore(b, a)
    BY <1>3 DEF RowBefore
  <2> QED BY <1>4, <2>1, <2>2, <2>3 DEF InARow
<1>6. ASSUME NEW r \in S PROVE RowPlace(lessee, r) = Places(R, S)[r]
  <2>1. {a \in S : RowBefore(a, r)} = Before(R, S, r)
    BY <1>4 DEF Before
  <2> QED BY <2>1 DEF RowPlace, Places, S
<1> QED BY <1>2, <1>5, <1>6 DEF S, R

\* A row that is still ahead is on the next page, or on one after it; there is a next page.
LEMMA PagesGoOn ==
    ASSUME CollateralTypes, NEW lessee, NEW n \in Nat \ {0}, NEW r \in RowsOf(lessee),
           RowPlace(lessee, r) > Offset(n)
    PROVE  /\ PageOf(lessee, n) # {}
           /\ r \in PageOf(lessee, n) \/ RowPlace(lessee, r) > Offset(n + 1)
<1>1. PICK s \in Nat \ {0} : s = PageSize
  BY PagesHaveRows
<1>2. PICK k \in Nat : k = Offset(n)
  BY OffsetsFollow
<1>3. Offset(n + 1) = k + s
  BY <1>1, <1>2, OffsetsFollow
<1>4. PICK count : count = Cardinality(RowsOf(lessee))
  OBVIOUS
<1>5. /\ count \in Nat
      /\ \A a \in RowsOf(lessee) : RowPlace(lessee, a) \in 1..count
      /\ \A i \in 1..count : \E a \in RowsOf(lessee) : RowPlace(lessee, a) = i
  <2> DEFINE S == RowsOf(lessee)
             R == RowsInOrder(lessee)
             P(a) == RowPlace(lessee, a)
  <2>1. /\ IsFiniteSet(S) /\ InARow(R, S)
        /\ \A a \in S : P(a) = Places(R, S)[a]
    BY RowsStandInOrder
  <2>2. count = Cardinality(S)
    BY <1>4
  <2> HIDE DEF S, R, P
  <2>3. /\ count \in Nat
        /\ \A a \in S : Places(R, S)[a] \in 1..count
        /\ \A i \in 1..count : \E a \in S : Places(R, S)[a] = i
    BY <2>1, <2>2, PlacesAreTaken
  <2>4. /\ \A a \in S : P(a) \in 1..count
        /\ \A i \in 1..count : \E a \in S : P(a) = i
    BY <2>1, <2>3
  <2> QED BY <2>3, <2>4 DEF S, P
<1>6. PICK place \in 1..count : place = RowPlace(lessee, r)
  BY <1>5
<1>7. place > k /\ k + 1 \in 1..count
  BY <1>2, <1>5, <1>6
<1>8. PICK a \in RowsOf(lessee) : RowPlace(lessee, a) = k + 1
  BY <1>5, <1>7
<1>9. PageOf(lessee, n) = {x \in RowsOf(lessee) : RowPlace(lessee, x) \in (k + 1)..(k + s)}
  BY <1>1, <1>2 DEF PageOf
<1>10. a \in PageOf(lessee, n)
  BY <1>8, <1>9
<1>11. CASE place <= k + s
  BY <1>5, <1>6, <1>7, <1>9, <1>10, <1>11
<1>12. CASE place > k + s
  BY <1>3, <1>6, <1>10, <1>12
<1> QED BY <1>5, <1>11, <1>12

LEMMA RowsHavePlaces ==
    ASSUME CollateralTypes, NEW lessee, NEW r \in RowsOf(lessee)
    PROVE  RowPlace(lessee, r) \in Nat \ {0}
<1> DEFINE A == {a \in RowsOf(lessee) : RowBefore(a, r)}
<1>1. IsFiniteSet(RowsOf(lessee))
  BY RowsStandInOrder
<1>2. A \in SUBSET RowsOf(lessee)
  OBVIOUS
<1>3. IsFiniteSet(A)
  BY <1>1, <1>2, FS_Subset
<1> HIDE DEF A
<1>4. Cardinality(A) \in Nat
  BY <1>3, FS_CardinalityType
<1>5. RowPlace(lessee, r) = 1 + Cardinality(A)
  BY DEF RowPlace, A
<1> QED BY <1>4, <1>5

\* A row moves to a later place only, as long as no row is written over.
FormsStay ==
    \A a \in DOMAIN regs : a \in DOMAIN regs' /\ regs'[a].form = regs[a].form

LEMMA PlacesOnlyGrow ==
    ASSUME CollateralTypes, CollateralTypes', FormsStay, NEW lessee, NEW r \in RowsOf(lessee)
    PROVE  /\ r \in RowsOf(lessee)'
           /\ RowPlace(lessee, r)' \in Nat /\ RowPlace(lessee, r)' >= RowPlace(lessee, r)
<1> DEFINE A == {a \in RowsOf(lessee) : RowBefore(a, r)}
<1>1. r \in DOMAIN regs /\ r \in RowsOf(lessee)'
  BY DEF RowsOf, FormsStay
<1>2. IsFiniteSet(RowsOf(lessee)')
  <2>1. regs' \in Seq(RegRow) /\ Len(regs') \in Nat /\ DOMAIN regs' = 1..Len(regs')
    BY DEF CollateralTypes
  <2>2. IsFiniteSet(1..Len(regs'))
    BY <2>1, FS_Interval
  <2>3. RowsOf(lessee)' \in SUBSET (1..Len(regs'))
    BY <2>1 DEF RowsOf
  <2> QED BY <2>2, <2>3, FS_Subset
<1>3. PICK B : B = {a \in RowsOf(lessee)' : RowBefore(a, r)'}
  OBVIOUS
<1>4. B \in SUBSET (RowsOf(lessee)')
  BY <1>3
<1>5. IsFiniteSet(B)
  BY <1>2, <1>4, FS_Subset
<1>6. A \in SUBSET B
  BY <1>1, <1>3 DEF RowsOf, RowBefore, FormsStay
<1> HIDE DEF A
<1>7. IsFiniteSet(A) /\ Cardinality(A) <= Cardinality(B)
  BY <1>5, <1>6, FS_Subset
<1>8. Cardinality(A) \in Nat /\ Cardinality(B) \in Nat
  BY <1>5, <1>7, FS_CardinalityType
<1>9. RowPlace(lessee, r) = 1 + Cardinality(A)
  BY DEF RowPlace, A
<1>10. RowPlace(lessee, r)' = 1 + Cardinality(B)
  BY <1>3 DEF RowPlace
<1> QED BY <1>1, <1>7, <1>8, <1>9, <1>10

\* A step that writes over no row leaves ahead of a reader what was ahead.
LEMMA ReadersKeepTheirPlace ==
    ASSUME CollateralInv, CollateralTypes', FormsStay, reader' = reader
    PROVE  ReaderType' /\ RowsAreAhead'
<1>1. ReaderType'
  BY DEF CollateralInv, ReaderType
<1>2. PICK rd : rd = reader
  OBVIOUS
<1>3. Awaits(rd)
  BY <1>2 DEF CollateralInv, RowsAreAhead
<1>4. Awaits(rd)'
  <2>1. CASE rd.at = "idle" \/ rd.shuffled = TRUE
    BY <2>1 DEF Awaits
  <2>2. CASE rd.at # "idle" /\ rd.shuffled # TRUE
    <3>1. Offset(rd.next) \in Nat
      BY <1>2, <2>2, OffsetsFollow DEF CollateralInv, ReaderType, NoReader
    <3>2. Offset(rd.next)' = Offset(rd.next)
      BY DEF Offset, PageSize
    <3>3. ASSUME NEW r \in rd.from
          PROVE  /\ r \in RowsOf(rd.lessee)'
                 /\ \/ r \in rd.seen
                    \/ rd.at = "page" /\ RowPlace(rd.lessee, r)' > Offset(rd.next)
      <4>1. /\ r \in RowsOf(rd.lessee)
            /\ \/ r \in rd.seen
               \/ rd.at = "page" /\ RowPlace(rd.lessee, r) > Offset(rd.next)
        BY <1>3, <2>2 DEF Awaits
      <4>2. /\ r \in RowsOf(rd.lessee)'
            /\ RowPlace(rd.lessee, r)' \in Nat
            /\ RowPlace(rd.lessee, r)' >= RowPlace(rd.lessee, r)
        BY <4>1, PlacesOnlyGrow DEF CollateralInv
      <4>3. RowPlace(rd.lessee, r) \in Nat
        BY <4>1, RowsHavePlaces DEF CollateralInv
      <4> QED BY <3>1, <4>1, <4>2, <4>3
    <3> QED BY <3>2, <3>3 DEF Awaits
  <2> QED BY <2>1, <2>2
<1>5. RowsAreAhead'
  <2>1. rd = reader'
    BY <1>2
  <2> QED BY <1>4, <2>1 DEF RowsAreAhead, Awaits, RowsOf, RowPlace, RowBefore, Offset, PageSize
<1> QED BY <1>1, <1>5

LEMMA RegInitHolds == CollateralInit => CollateralInv
<1> SUFFICES ASSUME CollateralInit PROVE CollateralInv
  OBVIOUS
<1>1. regs \in Seq(RegRow) /\ reader = NoReader /\ now = 0
      /\ updating = [k \in Clerks |-> NoUpdate]
  BY DEF CollateralInit
<1>2. CollateralTypes
  BY <1>1 DEF CollateralTypes
<1>3. UpdatesFit /\ ReaderType /\ RowsAreAhead
  BY <1>1 DEF UpdatesFit, NoUpdate, ReaderType, RowsAreAhead, Awaits, NoReader
<1> QED BY <1>2, <1>3 DEF CollateralInv

LEMMA CreateRegKeeps ==
    ASSUME CollateralInv, NEW f \in RegForms, CreateReg(f)
    PROVE  CollateralInv'
<1>1. regs \in Seq(RegRow) /\ updating \in [Clerks -> {NoUpdate} \cup RegUpdate]
  BY DEF CollateralInv, CollateralTypes
<1>2. [status |-> "valid", form |-> f] \in RegRow
  BY DEF CreateReg, RegRow, ValidForms
<1>3. CollateralTypes'
  BY <1>1, <1>2 DEF CreateReg, CollateralInv, CollateralTypes
<1>4. \A a \in DOMAIN regs : a \in DOMAIN regs' /\ regs'[a] = regs[a]
  BY <1>1 DEF CreateReg
<1>5. FormsStay
  BY <1>4 DEF FormsStay
<1>6. UpdatesFit'
  BY <1>1, <1>4 DEF CreateReg, CollateralInv, UpdatesFit
<1>7. reader' = reader
  BY DEF CreateReg
<1> QED BY <1>3, <1>5, <1>6, <1>7, ReadersKeepTheirPlace DEF CollateralInv

LEMMA ReadForUpdateKeeps ==
    ASSUME CollateralInv, NEW k \in Clerks, NEW r \in DOMAIN regs, NEW f \in RegForms,
           ReadForUpdate(k, r, f)
    PROVE  CollateralInv'
<1>1. regs \in Seq(RegRow) /\ updating \in [Clerks -> {NoUpdate} \cup RegUpdate]
  BY DEF CollateralInv, CollateralTypes
<1>2. PICK u : u = [at |-> "read", reg |-> r, form |-> f, cancelled |-> FALSE]
  OBVIOUS
<1>3. r \in Nat /\ f \in ValidForms
  BY <1>1 DEF ReadForUpdate, ValidForms
<1>4. u \in RegUpdate /\ u.reg = r
  BY <1>2, <1>3 DEF RegUpdate
<1>5. updating' = [updating EXCEPT ![k] = u] /\ regs' = regs /\ reader' = reader /\ now' = now
  BY <1>2 DEF ReadForUpdate
<1>6. CollateralTypes'
  BY <1>1, <1>4, <1>5 DEF CollateralInv, CollateralTypes
<1>7. UpdatesFit'
  BY <1>1, <1>4, <1>5 DEF CollateralInv, UpdatesFit, ReadForUpdate, Updatable
<1>8. FormsStay
  BY <1>5 DEF FormsStay
<1> QED BY <1>5, <1>6, <1>7, <1>8, ReadersKeepTheirPlace DEF CollateralInv

LEMMA UpdateRegKeeps ==
    ASSUME CollateralInv, NEW k \in Clerks, UpdateReg(k)
    PROVE  CollateralInv'
<1>1. regs \in Seq(RegRow) /\ updating \in [Clerks -> {NoUpdate} \cup RegUpdate] /\ now \in Nat
  BY DEF CollateralInv, CollateralTypes
<1>2. PICK u \in RegUpdate : u = updating[k]
  BY <1>1 DEF UpdateReg, NoUpdate
<1>3. u.reg \in DOMAIN regs /\ u.form \in ValidForms
  BY <1>2 DEF CollateralInv, UpdatesFit, RegUpdate
<1>4. /\ updating' = [updating EXCEPT ![k] = NoUpdate] /\ now' = now
      /\ \/ regs' = [regs EXCEPT ![u.reg].form = u.form] /\ reader' = Shuffled
         \/ regs' = regs /\ reader' = reader
  BY <1>2 DEF UpdateReg
<1>5. regs' \in Seq(RegRow) /\ DOMAIN regs' = DOMAIN regs
      /\ \A a \in DOMAIN regs : regs'[a].status = regs[a].status
  <2>1. CASE regs' = regs
    BY <1>1, <2>1
  <2>2. CASE regs' = [regs EXCEPT ![u.reg].form = u.form]
    <3>1. regs[u.reg] \in RegRow
      BY <1>1, <1>3
    <3>2. PICK row : row = [regs[u.reg] EXCEPT !.form = u.form]
      OBVIOUS
    <3>3. row \in RegRow /\ row.status = regs[u.reg].status
      BY <1>3, <3>1, <3>2 DEF RegRow
    <3>4. regs' = [regs EXCEPT ![u.reg] = row]
      BY <2>2, <3>2
    <3> QED BY <1>1, <1>3, <3>3, <3>4
  <2> QED BY <1>4, <2>1, <2>2
<1>6. updating' \in [Clerks -> {NoUpdate} \cup RegUpdate]
  BY <1>1, <1>4
<1>7. CollateralTypes'
  BY <1>1, <1>4, <1>5, <1>6 DEF CollateralTypes
<1>8. UpdatesFit'
  BY <1>1, <1>4, <1>5 DEF CollateralInv, UpdatesFit, NoUpdate
<1>9. CASE regs' = regs /\ reader' = reader
  BY <1>7, <1>8, <1>9, ReadersKeepTheirPlace DEF CollateralInv, FormsStay
<1>10. CASE reader' = Shuffled /\ reader.at = "idle"
  <2>1. reader = NoReader /\ reader' = NoReader
    BY <1>10 DEF CollateralInv, ReaderType, Shuffled
  <2>2. ReaderType' /\ RowsAreAhead'
    BY <2>1 DEF ReaderType, RowsAreAhead, Awaits, NoReader
  <2> QED BY <1>7, <1>8, <2>2 DEF CollateralInv
<1>11. CASE reader' = Shuffled /\ reader.at # "idle"
  <2>1. /\ reader = [at |-> reader.at, lessee |-> reader.lessee, next |-> reader.next,
                     seen |-> reader.seen, shuffled |-> reader.shuffled, from |-> reader.from]
        /\ reader.at \in {"page", "done"} /\ reader.next \in Nat \ {0}
    BY <1>11 DEF CollateralInv, ReaderType, NoReader
  <2>2. reader' = [at |-> reader.at, lessee |-> reader.lessee, next |-> reader.next,
                   seen |-> reader.seen, shuffled |-> TRUE, from |-> reader.from]
    BY <1>11, <2>1 DEF Shuffled
  <2>3. ReaderType' /\ RowsAreAhead'
    BY <2>1, <2>2 DEF ReaderType, RowsAreAhead, Awaits
  <2> QED BY <1>7, <1>8, <2>3 DEF CollateralInv
<1> QED BY <1>4, <1>9, <1>10, <1>11

LEMMA CancelRegKeeps ==
    ASSUME CollateralInv, NEW r \in DOMAIN regs, CancelReg(r)
    PROVE  CollateralInv'
<1>1. regs \in Seq(RegRow) /\ updating \in [Clerks -> {NoUpdate} \cup RegUpdate] /\ now \in Nat
  BY DEF CollateralInv, CollateralTypes
<1>2. PICK row : row = [regs[r] EXCEPT !.status = "cancelled"]
  OBVIOUS
<1>3. row \in RegRow /\ row.form = regs[r].form
  <2>1. regs[r] \in RegRow
    BY <1>1
  <2> QED BY <1>2, <2>1 DEF RegRow
<1>4. regs' = [regs EXCEPT ![r] = row] /\ reader' = reader /\ now' = now
  BY <1>2 DEF CancelReg
<1>5. regs' \in Seq(RegRow) /\ DOMAIN regs' = DOMAIN regs
      /\ \A a \in DOMAIN regs : a # r => regs'[a] = regs[a]
  BY <1>1, <1>3, <1>4
<1>6. ASSUME NEW k \in Clerks
      PROVE  /\ updating'[k] \in {NoUpdate} \cup RegUpdate
             /\ updating'[k].at = "read" =>
                  /\ updating[k].at = "read" /\ updating'[k].reg = updating[k].reg
                  /\ updating[k].reg = r => updating'[k].cancelled = TRUE
                  /\ updating[k].cancelled = TRUE => updating'[k].cancelled = TRUE
  <2>1. CASE updating[k].at = "read" /\ updating[k].reg = r
    <3>1. PICK u \in RegUpdate : u = updating[k]
      BY <1>1, <2>1 DEF NoUpdate
    <3>2. updating'[k] = [u EXCEPT !.cancelled = TRUE]
      BY <2>1, <3>1 DEF CancelReg
    <3>3. updating'[k] \in RegUpdate /\ updating'[k].reg = u.reg /\ updating'[k].cancelled = TRUE
      BY <3>2 DEF RegUpdate
    <3> QED BY <2>1, <3>1, <3>3
  <2>2. CASE ~(updating[k].at = "read" /\ updating[k].reg = r)
    <3>1. updating'[k] = updating[k]
      BY <2>2 DEF CancelReg
    <3> QED BY <1>1, <2>2, <3>1
  <2> QED BY <2>1, <2>2
<1>7. updating' \in [Clerks -> {NoUpdate} \cup RegUpdate]
  <2>1. updating' = [k \in Clerks |-> updating'[k]]
    BY DEF CancelReg
  <2> QED BY <1>6, <2>1
<1>8. CollateralTypes'
  BY <1>1, <1>4, <1>5, <1>7 DEF CollateralTypes
<1>9. UpdatesFit'
  <2>1. ASSUME NEW k \in Clerks, updating'[k].at = "read"
        PROVE  /\ updating'[k].reg \in DOMAIN regs'
               /\ regs'[updating'[k].reg].status = "cancelled" => updating'[k].cancelled = TRUE
    <3>1. /\ updating[k].at = "read" /\ updating'[k].reg = updating[k].reg
          /\ updating[k].reg = r => updating'[k].cancelled = TRUE
          /\ updating[k].cancelled = TRUE => updating'[k].cancelled = TRUE
      BY <1>6, <2>1
    <3>2. /\ updating[k].reg \in DOMAIN regs
          /\ regs[updating[k].reg].status = "cancelled" => updating[k].cancelled = TRUE
      BY <3>1 DEF CollateralInv, UpdatesFit
    <3> QED BY <1>5, <3>1, <3>2
  <2> QED BY <2>1 DEF UpdatesFit
<1>10. FormsStay
  BY <1>1, <1>3, <1>4, <1>5 DEF FormsStay
<1> QED BY <1>4, <1>8, <1>9, <1>10, ReadersKeepTheirPlace DEF CollateralInv

LEMMA BeginReadingKeeps ==
    ASSUME CollateralInv, NEW lessee, BeginReading(lessee)
    PROVE  CollateralInv'
<1>1. /\ reader' = [at |-> "page", lessee |-> lessee, next |-> 1, seen |-> {}, shuffled |-> FALSE,
                    from |-> RowsOf(lessee)]
      /\ regs' = regs /\ updating' = updating /\ now' = now
  BY DEF BeginReading
<1>2. CollateralTypes' /\ UpdatesFit'
  BY <1>1 DEF CollateralInv, CollateralTypes, UpdatesFit
<1>3. ReaderType'
  BY <1>1 DEF ReaderType
<1>4. Offset(1) = 0
  <2>1. PICK p \in Nat : p = PageSize
    BY PagesHaveRows
  <2> QED BY <2>1 DEF Offset
<1>5. \A r \in RowsOf(lessee) : RowPlace(lessee, r) > Offset(1)
  BY <1>4, RowsHavePlaces DEF CollateralInv
<1>6. PICK rd : rd = reader'
  OBVIOUS
<1>7. Awaits(rd)
  BY <1>1, <1>5, <1>6 DEF Awaits
<1>8. RowsAreAhead'
  BY <1>1, <1>6, <1>7 DEF RowsAreAhead, Awaits, RowsOf, RowPlace, RowBefore, Offset, PageSize
<1> QED BY <1>2, <1>3, <1>8 DEF CollateralInv

LEMMA ReadPageKeeps ==
    ASSUME CollateralInv, ReadPage
    PROVE  CollateralInv'
<1>1. regs' = regs /\ updating' = updating /\ now' = now /\ reader.at = "page"
  BY DEF ReadPage
<1>2. CollateralTypes' /\ UpdatesFit'
  BY <1>1 DEF CollateralInv, CollateralTypes, UpdatesFit
<1>3. /\ reader = [at |-> reader.at, lessee |-> reader.lessee, next |-> reader.next,
                   seen |-> reader.seen, shuffled |-> reader.shuffled, from |-> reader.from]
      /\ reader.next \in Nat \ {0}
  BY <1>1 DEF CollateralInv, ReaderType, NoReader
<1>4. PICK rows : rows = PageOf(reader.lessee, reader.next)
  OBVIOUS
<1>5. PICK rd : rd = reader'
  OBVIOUS
<1>6. \/ /\ rows = {}
         /\ rd = [at |-> "done", lessee |-> reader.lessee, next |-> reader.next,
                  seen |-> reader.seen, shuffled |-> reader.shuffled, from |-> reader.from]
      \/ /\ rows # {}
         /\ rd = [at |-> "page", lessee |-> reader.lessee, next |-> reader.next + 1,
                  seen |-> reader.seen \cup rows, shuffled |-> reader.shuffled,
                  from |-> reader.from]
  BY <1>1, <1>3, <1>4, <1>5 DEF ReadPage
<1>7. ReaderType'
  BY <1>3, <1>5, <1>6 DEF ReaderType
<1>8. Awaits(rd)
  <2>1. CASE reader.shuffled = TRUE
    BY <1>6, <2>1 DEF Awaits
  <2>2. CASE reader.shuffled # TRUE
    <3>1. ASSUME NEW r \in reader.from
          PROVE  /\ r \in RowsOf(reader.lessee)
                 /\ \/ r \in reader.seen
                    \/ /\ rows # {}
                       /\ r \in rows \/ RowPlace(reader.lessee, r) > Offset(reader.next + 1)
      <4>1. /\ r \in RowsOf(reader.lessee)
            /\ r \in reader.seen \/ RowPlace(reader.lessee, r) > Offset(reader.next)
        BY <1>1, <2>2 DEF CollateralInv, RowsAreAhead, Awaits
      <4> QED BY <1>3, <1>4, <4>1, PagesGoOn DEF CollateralInv
    <3> QED BY <1>6, <3>1 DEF Awaits
  <2> QED BY <2>1, <2>2
<1>9. RowsAreAhead'
  BY <1>1, <1>5, <1>8 DEF RowsAreAhead, Awaits, RowsOf, RowPlace, RowBefore, Offset, PageSize
<1> QED BY <1>2, <1>7, <1>9 DEF CollateralInv

LEMMA CollateralStepKeeps == CollateralInv /\ [CollateralNext]_collateralVars => CollateralInv'
<1> SUFFICES ASSUME CollateralInv, [CollateralNext]_collateralVars PROVE CollateralInv'
  OBVIOUS
<1>1. CASE ClerkStep
  BY <1>1, CreateRegKeeps, ReadForUpdateKeeps, UpdateRegKeeps, CancelRegKeeps DEF ClerkStep
<1>2. CASE \E f \in RegForms : BeginReading(f.lessee)
  BY <1>2, BeginReadingKeeps
<1>3. CASE ReadPage
  BY <1>3, ReadPageKeeps
<1>4. CASE StopReading
  <2>1. reader' = NoReader /\ regs' = regs /\ updating' = updating /\ now' = now
    BY <1>4 DEF StopReading
  <2>2. ReaderType' /\ RowsAreAhead'
    BY <2>1 DEF ReaderType, RowsAreAhead, Awaits, NoReader
  <2> QED BY <2>1, <2>2 DEF CollateralInv, CollateralTypes, UpdatesFit
<1>5. CASE TimePasses \/ UNCHANGED collateralVars
  <2>1. reader' = reader /\ regs' = regs /\ updating' = updating /\ now' \in Nat
    BY <1>5 DEF TimePasses, collateralVars, CollateralInv, CollateralTypes
  <2>2. CollateralTypes' /\ UpdatesFit' /\ FormsStay
    BY <2>1 DEF CollateralInv, CollateralTypes, UpdatesFit, FormsStay
  <2> QED BY <2>1, <2>2, ReadersKeepTheirPlace DEF CollateralInv
<1> QED BY <1>1, <1>2, <1>3, <1>4, <1>5 DEF CollateralNext, ReaderStep

LEMMA ReadersHaveSeenAll == CollateralInv => ReadersMissNothing
BY DEF CollateralInv, RowsAreAhead, Awaits, ReadersMissNothing

LEMMA LastDayCounts == CollateralInv => InForceThroughLastDay
<1> SUFFICES ASSUME CollateralInv, NEW r \in DOMAIN regs, regs[r].status = "valid"
             PROVE  EffectiveStatus(r) = "valid" <=> now < MidnightOf(regs[r].form.end + 1)
  BY DEF InForceThroughLastDay
<1>1. regs[r] \in RegRow
  BY DEF CollateralInv, CollateralTypes
<1>2. regs[r].form \in ValidForms
  BY <1>1 DEF RegRow
<1>3. PICK end \in Int : end = regs[r].form.end
  BY <1>2, FormsHaveDates
<1>4. PICK t \in Nat : t = now
  BY DEF CollateralInv, CollateralTypes
<1>5. end < t \div 2 <=> ~(t < 2 * (end + 1))
  OBVIOUS
<1>6. EffectiveStatus(r) = "valid" <=> ~(end < t \div 2)
  BY <1>3, <1>4 DEF EffectiveStatus, IsExpiredOn, DayOf
<1> QED BY <1>3, <1>4, <1>5, <1>6 DEF MidnightOf

LEMMA CancelledRowsAreKept ==
    CollateralInv /\ [CollateralNext]_collateralVars =>
        [\A r \in DOMAIN regs : regs[r].status = "cancelled" =>
             /\ regs'[r].status = "cancelled"
             /\ regs'[r].form # regs[r].form =>
                  \E k \in Clerks : updating[k].at = "read" /\ updating[k].reg = r
                                    /\ updating[k].cancelled]_collateralVars
<1> SUFFICES ASSUME CollateralInv, CollateralNext, NEW r \in DOMAIN regs,
                    regs[r].status = "cancelled"
             PROVE  /\ regs'[r].status = "cancelled"
                    /\ regs'[r].form # regs[r].form =>
                         \E k \in Clerks : updating[k].at = "read" /\ updating[k].reg = r
                                           /\ updating[k].cancelled
  OBVIOUS
<1>1. regs \in Seq(RegRow) /\ r \in Nat
  BY DEF CollateralInv, CollateralTypes
<1>2. ASSUME NEW f \in RegForms, CreateReg(f) PROVE regs'[r] = regs[r]
  BY <1>1, <1>2 DEF CreateReg
<1>3. ASSUME NEW a \in DOMAIN regs, CancelReg(a) PROVE regs'[r] = regs[r]
  BY <1>1, <1>3 DEF CancelReg
<1>4. ASSUME NEW k \in Clerks, UpdateReg(k), regs'[r] # regs[r]
      PROVE  /\ regs'[r].status = "cancelled"
             /\ updating[k].at = "read" /\ updating[k].reg = r /\ updating[k].cancelled
  <2>1. PICK u : u = updating[k]
    OBVIOUS
  <2>2. u.at = "read" /\ regs' = [regs EXCEPT ![u.reg].form = u.form]
    BY <1>4, <2>1 DEF UpdateReg
  <2>3. u.reg = r
    BY <1>1, <1>4, <2>2
  <2>4. u.cancelled = TRUE
    BY <2>1, <2>2, <2>3 DEF CollateralInv, UpdatesFit
  <2>5. regs'[r].status = "cancelled"
    <3>1. regs[r] \in RegRow
      BY <1>1
    <3> QED BY <1>1, <2>2, <2>3, <3>1 DEF RegRow
  <2> QED BY <2>1, <2>2, <2>3, <2>4, <2>5
<1>5. ASSUME regs' = regs PROVE regs'[r] = regs[r]
  BY <1>5
<1>6. regs' = regs \/ (\E f \in RegForms : CreateReg(f)) \/ (\E k \in Clerks : UpdateReg(k))
      \/ \E a \in DOMAIN regs : CancelReg(a)
  BY DEF CollateralNext, ClerkStep, ReaderStep, ReadForUpdate, BeginReading, ReadPage,
         StopReading, TimePasses
<1>7. CASE regs'[r] = regs[r]
  BY <1>7
<1> QED BY <1>2, <1>3, <1>4, <1>5, <1>6, <1>7

\* Whatever clerks do while somebody turns the pages, however many rows a page has, the reader
\* misses no registration that was there when they began unless one was written over; a
\* registration is in force through its last day; and one that was cancelled keeps what it
\* said, except for an update that had already read it.
THEOREM RegistrationsStayReliable == CollateralSpec => RegistrationsAreReliable
<1>1. CollateralSpec => []CollateralInv
  BY RegInitHolds, CollateralStepKeeps, PTL DEF CollateralSpec
<1>2. CollateralSpec => [](ReadersMissNothing /\ InForceThroughLastDay)
  BY <1>1, ReadersHaveSeenAll, LastDayCounts, PTL
<1>3. CollateralSpec => CancelledIsKept
  BY <1>1, CancelledRowsAreKept, PTL DEF CollateralSpec, CancelledIsKept
<1> QED BY <1>2, <1>3 DEF RegistrationsAreReliable

=============================================================================
