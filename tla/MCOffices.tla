------------------------------ MODULE MCOffices -------------------------------
(***************************************************************************)
(* Model checking of the parts of the server that share no state with the  *)
(* orders: invoices, tickets, leads, the equipment market, collateral, SMS *)
(* codes, sessions, WeChat, suppliers, their merchant numbers, checkout,   *)
(* the guided search, and the advice on nodes.  They share none with each  *)
(* other either, so a behaviour is that of one of them, the office; some   *)
(* have two offices, so that each part of the component can be taken far   *)
(* without the product of both.                                            *)
(***************************************************************************)
EXTENDS Checkout, Invoices, Tickets, Equipment, Collateral, SmsCodes, Sessions, WeChat,
        Suppliers, Onboarding, Advice, Matching, SummaryStream

CONSTANTS
    r1, r2, b1, b2,         \* invoices: applications and orders
    u1, u2,                 \* people
    a1, a2,                 \* alerts
    g1                      \* a product

VARIABLE office

Offices == {"invoices", "tickets", "submissions", "deals", "equipment", "clerks", "readers",
            "codes", "windows", "tokens", "freezes", "wechat", "onboarding", "certificates",
            "ordering", "renewing", "merchants", "advice", "search", "stream"}

paperVars == <<invoiceVars, ticketVars, collateralVars>>
peopleVars == <<smsVars, sessionVars, weChatVars>>
supplyVars == <<supplierVars, onboardVars>>
tradeVars == <<marketVars, checkoutVars>>
readVars == <<adviceVars, matchingVars, streamVars>>
officeVars == <<paperVars, peopleVars, supplyVars, tradeVars, readVars, office>>

MCPayerOf == [b \in {b1, b2} |-> u1]
MCPrice == [b \in {b1, b2} |-> IF b = b1 THEN 1 ELSE 2]

Offer(used, y, quantity, price, negotiable) ==
    [used |-> used, year |-> y, quantity |-> quantity, price |-> price, negotiable |-> negotiable]
MCForms == {Offer(TRUE, 1, 2, 5, FALSE), Offer(FALSE, -1, 1, 0, TRUE),
            Offer(TRUE, -1, 1, 5, FALSE), Offer(TRUE, 3, 1, 5, FALSE),
            Offer(FALSE, -1, 0, 5, FALSE), Offer(FALSE, -1, 1, 5, TRUE),
            Offer(FALSE, -1, 1, 0, FALSE)}
Missing == -1

Registration(no, start, end) ==
    [no |-> no, lessee |-> "a", start |-> start, end |-> end, noted |-> TRUE]
MCRegForms == {Registration(1, 1, 2), Registration(2, 0, 1), Registration(3, 0, 2),
               [Registration(1, 0, 2) EXCEPT !.noted = FALSE], Registration(2, 0, -1)}

MCWindows == {[length |-> 5, max |-> 2]}
MCTargetOf == [a \in {a1, a2} |-> u1]
MCOwnerOf == [p \in {g1} |-> u1]

MCPeriods == [m \in PricingModes |-> IF m = "perpetual" THEN 1 ELSE 2]
MCCycle == [m \in PricingModes |-> IF m = "hourly" THEN 1 ELSE IF m = "perpetual" THEN 0 ELSE 2]
Offering(type, mode, price, negotiable, stock, cards, machines, least) ==
    [type |-> type, mode |-> mode, price |-> price, negotiable |-> negotiable, stock |-> stock,
     cards |-> cards, machines |-> machines, minOrder |-> least, minPeriods |-> least,
     described |-> TRUE]
ByTheHour == Offering("", "", 3, FALSE, 2, 4, 0, 0)
MCOfferings ==
    {Offering("", "", 11, FALSE, 24, 4, 0, 0), Offering("", "daily", 7, FALSE, 5, 4, 0, 1),
     Offering("outright", "", 11, FALSE, 0, 4, 2, 0), Offering("center", "", 0, FALSE, 2, 4, 2, 0),
     Offering("center", "", 0, TRUE, 0, 4, 2, 0), Offering("colocation", "", 5, FALSE, 0, 0, 0, 0),
     Offering("center", "daily", 2, FALSE, 2, 3, 2, 0),
     Offering("", "monthly", 2, FALSE, 2, 3, 2, 0),
     Offering("", "hourly", 5, FALSE, 3, 1, 0, 2)}

MCNodes == [status : {"online", "degraded", "offline"}, free : {0, 1, 2, 4}, use : {0, 255},
            beats : {0, 3}]
MCFleets == {<<>>} \cup {<<m, n>> : m \in MCNodes, n \in MCNodes}
Sold(type, cards, machines) == [type |-> type, cards |-> cards, machines |-> machines]
MCAdvisedOrders ==
    [product : {Sold("card_rental", 8, 0), Sold("center", 4, 2), Sold("center", 3, 2)},
     quantity : {1, 2}, by : {"owner"}]
        \cup [product : {Sold("center", 4, 2)}, quantity : {1}, by : {"other"}]

Good(type, model, mode, price, stock, cards, machines, least, region) ==
    [type |-> type, mode |-> mode, price |-> price, negotiable |-> price = 0, stock |-> stock,
     cards |-> cards, machines |-> machines, minOrder |-> least, minPeriods |-> least,
     model |-> model, region |-> region]
MCGoods ==
    {Good("card_rental", "m1", "hourly", 2, 4, 4, 0, 1, "near"),
     Good("card_rental", "m1", "hourly", 1, 1, 4, 0, 1, "near"),
     Good("card_rental", "m2", "daily", 1, 4, 4, 0, 2, "far"),
     Good("outright", "m1", "perpetual", 4, 1, 4, 2, 1, "far"),
     Good("center", "m1", "daily", 0, 1, 4, 2, 1, "near"),
     Good("center", "m1", "daily", 3, 2, 3, 2, 1, "near"),
     Good("center", "m1", "daily", 3, 2, 4, 2, 1, "near"),
     Good("colocation", "m1", "monthly", 0, 1, 0, 0, 1, "near")}
MCMarkets ==
    {<<g, h>> : g \in MCGoods, h \in MCGoods}
        \cup {<<f, g, h>> : f \in MCGoods, g, h \in {i \in MCGoods : i.price > 2}}
MCRequirements ==
    [relevant : {TRUE}, models : {{}, {"m1"}}, cards : {0, 3}, mode : {"", "hourly", "daily"},
     periods : {0, 2}, budget : {0, 6, 12}, region : {"", "near"}]
        \cup [relevant : {FALSE}, models : {{}}, cards : {1}, mode : {""}, periods : {0},
              budget : {0, 12}, region : {""}]

MCTexts == {<<>>, <<"a">>, <<" ", "a", "pair", " ">>, <<"a", "half", "a">>,
            <<"escape", "a", " ", "a", "a">>}
Field(name, value) == [name |-> name, value |-> value]
MCAnswers ==
    UNION {{<<Field("relevant", r), Field("summary", t), Field("other", 0)>>,
            <<Field("other", 0), Field("relevant", r), Field("summary", t)>>,
            <<Field("summary", t), Field("other", 0), Field("relevant", r)>>,
            <<Field("summary", t)>>} : r \in BOOLEAN, t \in MCTexts}

-----------------------------------------------------------------------------
(* Where the offices begin *)

\* Two tickets have been closed, yesterday or today, each with its first message.
TicketsBegin ==
    /\ \E yesterday \in IF office = "tickets" THEN {0, 1} ELSE {1} :
         tickets = [n \in 1..2 |-> [status |-> "closed", day |-> yesterday, no |-> n]]
    /\ messages = [n \in 1..2 |-> [ticket |-> n, sender |-> "buyer"]]
    /\ call = [r \in Callers |-> NoCall]
    /\ told = {}
    /\ refused = {}
    /\ day = 1

\* A lead to deal with.
LeadsBegin ==
    /\ clock = 0
    /\ leads = IF office = "deals" THEN <<NewLead(u1, "form")>> ELSE <<>>
    /\ commissions = <<>>
    /\ rateHits = [u \in LeadUsers |-> <<>>]
    /\ restarts = 0

EquipmentBegins ==
    /\ listings = <<>>
    /\ inquiries = <<>>
    /\ review = [r \in Reviewers |-> NoReview]
    /\ asking = [i \in Inquirers |-> NoAsking]
    /\ edits = 0

\* A member who is a supplier, with the enterprise he applied with.
SuppliersBegin ==
    /\ identity = [u \in Members |-> [kind \in Kinds |->
                     IF office = "certificates" /\ kind = "enterprise" THEN 1 ELSE 0]]
    /\ suppliers = IF office = "certificates" THEN Members ELSE {}
    /\ quals = IF office = "certificates"
               THEN <<[NewQual(u1, "supplier_onboarding", NoExpiry) EXCEPT !.status = "verified"]>>
               ELSE <<>>
    /\ submissions = 0
    /\ today = 0
    /\ goods = [p \in Goods |-> "none"]
    /\ desk = [d \in Desks |-> IdleDesk]
    /\ sweep = IdleSweep
    /\ sweeps = 0

CheckoutBegins ==
    /\ IF office = "renewing" THEN LeaseRuns(ByTheHour, 1) ELSE NothingListed
    /\ policy = [enabled |-> TRUE, rate |-> 3]
    /\ NothingOrdered

\* What is not looked into is any of what there might be.
AnyFleet == {CHOOSE f \in Fleets : TRUE}
AnyOrder == {CHOOSE o \in AdvisedOrders : TRUE}
AnyMarket == {CHOOSE m \in Markets : TRUE}
AnyRequirement == {CHOOSE w \in Requirements : TRUE}
AnyAnswer == {CHOOSE a \in Answers : TRUE}

AdviceBegins ==
    /\ fleet \in IF office = "advice" THEN Fleets ELSE AnyFleet
    /\ request \in IF office = "advice" THEN AdvisedOrders ELSE AnyOrder
    /\ advice = [asked |-> FALSE, node |-> NoAdvice]

SearchBegins ==
    /\ market \in IF office = "search" THEN Markets ELSE AnyMarket
    /\ wish \in IF office = "search" THEN Requirements ELSE AnyRequirement
    /\ found = [searched |-> FALSE, matches |-> <<>>]

StreamBegins ==
    /\ answer \in IF office = "stream" THEN Answers ELSE AnyAnswer
    /\ received = 0
    /\ stream = "open"
    /\ shown = <<>>
    /\ settled = FALSE
    /\ result = NoResult

OfficesInit ==
    /\ office \in Offices
    /\ InvoicesInit
    /\ TicketsBegin
    /\ LeadsBegin
    /\ EquipmentBegins
    /\ CollateralInit
    /\ SmsInit /\ (office \notin {"codes", "windows"} => ~registered)
    /\ SessionsInit
    /\ WeChatInit
    /\ SuppliersBegin
    /\ CheckoutBegins
    /\ OnboardInit
    /\ StreamBegins
    /\ AdviceBegins
    /\ SearchBegins

-----------------------------------------------------------------------------
(* The offices at work *)

MarketNext ==
    \/ office = "submissions" /\ SubmissionStep /\ UNCHANGED equipmentVars
    \/ office = "deals" /\ DealStep /\ UNCHANGED equipmentVars
    \/ office = "equipment" /\ EquipmentNext

CollateralWork ==
    \/ office = "clerks" /\ (ClerkStep \/ TimePasses)
    \/ office = "readers" /\ (ClerkStep \/ ReaderStep)

SmsWork ==
    \/ office = "codes" /\ Len(codes) <= 3 /\ time <= 4 /\ SmsStep(Senders, Purposes)
    \/ office = "windows" /\ SmsStep({1}, {"login"})

SessionsWork == (office = "tokens" /\ TokenStep) \/ (office = "freezes" /\ FreezeStep)

SuppliersWork ==
    \/ office = "onboarding" /\ (IdentityStep \/ OnboardingStep)
    \/ office = "certificates"
       /\ (OnboardingStep \/ CertificateStep \/ ProductStep \/ SweepStep \/ DayPasses)

CheckoutWork ==
    \/ office = "ordering" /\ OrderingStep(MCOfferings)
    \/ office = "renewing" /\ RenewingStep({ByTheHour, Offering("", "daily", 4, FALSE, 1, 4, 0, 1)})

PaperStep ==
    \/ office = "invoices" /\ InvoicesNext /\ UNCHANGED <<ticketVars, collateralVars>>
    \/ office = "tickets" /\ TicketsNext /\ UNCHANGED <<invoiceVars, collateralVars>>
    \/ CollateralWork /\ UNCHANGED <<invoiceVars, ticketVars>>

PeopleStep ==
    \/ SmsWork /\ UNCHANGED <<sessionVars, weChatVars>>
    \/ SessionsWork /\ UNCHANGED <<smsVars, weChatVars>>
    \/ office = "wechat" /\ WeChatNext /\ UNCHANGED <<smsVars, sessionVars>>

SupplyStep ==
    \/ SuppliersWork /\ UNCHANGED onboardVars
    \/ office = "merchants" /\ OnboardNext /\ UNCHANGED supplierVars

TradeStep ==
    \/ MarketNext /\ UNCHANGED checkoutVars
    \/ CheckoutWork /\ UNCHANGED marketVars

ReadStep ==
    \/ office = "advice" /\ Advise /\ UNCHANGED <<matchingVars, streamVars>>
    \/ office = "search" /\ Search /\ UNCHANGED <<adviceVars, streamVars>>
    \/ office = "stream" /\ StreamNext /\ UNCHANGED <<adviceVars, matchingVars>>

OfficesNext ==
    /\ office' = office
    /\ \/ PaperStep /\ UNCHANGED <<peopleVars, supplyVars, tradeVars, readVars>>
       \/ PeopleStep /\ UNCHANGED <<paperVars, supplyVars, tradeVars, readVars>>
       \/ SupplyStep /\ UNCHANGED <<paperVars, peopleVars, tradeVars, readVars>>
       \/ TradeStep /\ UNCHANGED <<paperVars, peopleVars, supplyVars, readVars>>
       \/ ReadStep /\ UNCHANGED <<paperVars, peopleVars, supplyVars, tradeVars>>

OfficesSpec == OfficesInit /\ [][OfficesNext]_officeVars

=============================================================================
