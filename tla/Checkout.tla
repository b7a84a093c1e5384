-------------------------------- MODULE Checkout -------------------------------
(***************************************************************************)
(* Listing a product, ordering it, and renewing a lease of it on the terms *)
(* of a quote (internal/compute: CreateProduct, ResubmitProduct,           *)
(* PlaceOrder, GetRenewalQuote, RenewOrder; internal/trading: LockConfig;  *)
(* internal/admin: UpdateConfig).                                          *)
(*                                                                         *)
(* PlaceOrder reads the product outside of its transaction; the policy is  *)
(* locked inside, until the commit.  A buyer who renews sends back what he *)
(* was quoted with an id of his request, and may send it again when no     *)
(* answer comes.                                                           *)
(***************************************************************************)
EXTENDS Pricing, Sequences, FiniteSets, SequencesExt

CONSTANTS
    Offerings,          \* what suppliers send, with fields left empty
    Checkouts,          \* PlaceOrder calls under way
    Quantities,         \* what buyers ask for
    Durations,
    Rates,              \* fee rates an operator may set
    Cycle,              \* the length of a period of each pricing mode
    LeaseQuantity,      \* the quantity of the lease that is renewed
    RequestIds,
    MaxPlaced,          \* bound: orders
    MaxListed,          \* bound: listings
    MaxQuotes,          \* bound: quotes
    MaxPolicies,        \* bound: changes of the policy
    MaxHours            \* bound: time

\* 0, "" and FALSE stand for a field left empty.
OfferingForm ==
    [type : STRING, mode : STRING, price : Int, negotiable : BOOLEAN, stock : Int, cards : Int,
     machines : Int, minOrder : Int, minPeriods : Int, described : BOOLEAN]

ASSUME CheckoutAssumption ==
    /\ \A f \in Offerings : f \in OfferingForm
    /\ Rates \subseteq 0..Base
    /\ Durations \subseteq Int
    /\ Cycle \in [PricingModes -> Nat]
    /\ LeaseQuantity \in Nat \ {0}

VARIABLES
    listing,        \* the product: a normalised form with a status
    policy,         \* system_config: trading_enabled and fee_rate
    checkout,       \* PlaceOrder at work
    turnedAway,     \* amounts that were refused
    placed,         \* orders of the product, and renewals of the lease
    lease,          \* the order that is renewed: its end and status, and its units
    quotes,         \* what buyers were quoted
    answers,        \* what RenewOrder answered: requests and places in placed
    listed,
    policies,
    hour

checkoutVars == <<listing, policy, checkout, turnedAway, placed, lease, quotes, answers,
                  listed, policies, hour>>

NoTime == -1
IdleCheckout == [at |-> "idle"]
Unlisted == [status |-> "none"]
PolicyLocked_ByNobody == FALSE
PolicyLocked == \E c \in Checkouts : checkout[c].at = "priced"

-----------------------------------------------------------------------------
(* The product and the policy *)

\* CreateProduct and ResubmitProduct.
ListProduct(f) ==
    /\ listed < MaxListed
    /\ listing.status \in {"none", "draft", "offline"}
    /\ ValidListing(WithDefaults(f))
    /\ listing' = [form |-> WithDefaults(f), status |-> "pending"]
    /\ listed' = listed + 1
    /\ UNCHANGED <<policy, checkout, turnedAway, placed, lease, quotes, answers, policies, hour>>

\* ReviewProduct and OfflineProduct.
MoveListing ==
    /\ \/ listing.status = "pending" /\ \E s \in {"active", "draft"} :
            listing' = [listing EXCEPT !.status = s]
       \/ listing.status # "none" /\ listing' = [listing EXCEPT !.status = "offline"]
    /\ UNCHANGED <<policy, checkout, turnedAway, placed, lease, quotes, answers, listed,
                   policies, hour>>

\* UpdateConfig waits for the transactions that hold the policy.
UpdateConfig ==
    /\ policies < MaxPolicies
    /\ ~PolicyLocked
    /\ \/ \E enabled \in BOOLEAN : policy' = [policy EXCEPT !.enabled = enabled]
       \/ \E rate \in Rates : policy' = [policy EXCEPT !.rate = rate]
    /\ policy' # policy
    /\ policies' = policies + 1
    /\ UNCHANGED <<listing, checkout, turnedAway, placed, lease, quotes, answers, listed, hour>>

-----------------------------------------------------------------------------
(* PlaceOrder *)

ReadProduct(c, n, periods) ==
    /\ checkout[c].at = "idle"
    /\ listing.status = "active"
    /\ Orderable(listing.form, n, periods)
    /\ OnShelf(listing.form, n)
    /\ checkout' = [checkout EXCEPT ![c] =
         [at |-> "read", price |-> listing.form.price, n |-> n,
          periods |-> OrderedPeriods(listing.form, periods)]]
    /\ UNCHANGED <<listing, policy, turnedAway, placed, lease, quotes, answers, listed,
                   policies, hour>>

\* LockConfig, and the price of what was read.
PriceOrder(c) ==
    LET o == checkout[c] IN
    /\ o.at = "read"
    /\ LET priceable == Priceable(o.price, o.n, o.periods) IN
       /\ checkout' = [checkout EXCEPT ![c] =
            IF policy.enabled /\ priceable
            THEN [at |-> "priced", price |-> o.price, n |-> o.n, periods |-> o.periods,
                  total |-> Total(o.price, o.n, o.periods),
                  fee |-> Fee(Total(o.price, o.n, o.periods), policy.rate), rate |-> policy.rate]
            ELSE IdleCheckout]
       /\ turnedAway' = IF policy.enabled /\ ~priceable
                        THEN turnedAway \cup {ExactTotal(o.price, o.n, o.periods)} ELSE turnedAway
    /\ UNCHANGED <<listing, policy, placed, lease, quotes, answers, listed, policies, hour>>

ShelfAfter(n) ==
    LET left == listing.form.stock - n IN
    [form |-> [listing.form EXCEPT !.stock = left],
     status |-> IF left <= 0 THEN "sold_out" ELSE listing.status]

CommitOrder(c) ==
    LET o == checkout[c] IN
    /\ o.at = "priced"
    /\ Len(placed) < MaxPlaced
    /\ checkout' = [checkout EXCEPT ![c] = IdleCheckout]
    /\ IF listing.status = "active" /\ listing.form.stock >= o.n
       THEN /\ listing' = ShelfAfter(o.n)
            /\ placed' = Append(placed, [kind |-> "order", price |-> o.price, n |-> o.n,
                                         periods |-> o.periods, total |-> o.total, fee |-> o.fee,
                                         rate |-> o.rate])
       ELSE UNCHANGED <<listing, placed>>
    /\ UNCHANGED <<policy, turnedAway, lease, quotes, answers, listed, policies, hour>>

-----------------------------------------------------------------------------
(* Renewals *)

OpenRenewal(i) == placed[i].kind = "renewal" /\ placed[i].status = "pending"
OpenRenewals == {i \in DOMAIN placed : OpenRenewal(i)}

\* renewalQuoteTx: what a renewal would cost and do now.
Quotable(periods) ==
    /\ OpenRenewals = {}
    /\ lease.status \in {"active", "completed"}
    /\ lease.status = "completed" => lease.units = 0
    /\ policy.enabled
    /\ listing.status \in {"active", "sold_out"}
    /\ listing.form.mode # "perpetual"
    /\ Orderable(listing.form, LeaseQuantity, periods)
    /\ Priceable(listing.form.price, LeaseQuantity, periods)
    /\ IF lease.end > hour THEN lease.status = "active" /\ lease.units = LeaseQuantity
       ELSE lease.units = 0 => listing.form.stock >= LeaseQuantity

Quote(periods) ==
    LET total == Total(listing.form.price, LeaseQuantity, periods) IN
    [mode |-> listing.form.mode, periods |-> periods, total |-> total,
     fee |-> Fee(total, policy.rate), end |-> lease.end,
     until |-> IF lease.end > hour THEN lease.end + Cycle[listing.form.mode] * periods
               ELSE NoTime]

GetRenewalQuote(periods) ==
    /\ Cardinality(quotes) < MaxQuotes
    /\ Quotable(periods)
    /\ quotes' = quotes \cup {Quote(periods)}
    /\ UNCHANGED <<listing, policy, checkout, turnedAway, placed, lease, answers, listed,
                   policies, hour>>

Previous(id) == {i \in DOMAIN placed : placed[i].kind = "renewal" /\ placed[i].id = id}

\* What a retry must agree with.
Matches(o, q) == o.quote = q

\* RenewOrder, the answer to a request that has been seen before.
RenewAgain(id, q) ==
    /\ \E i \in Previous(id) :
         /\ Matches(placed[i], q)
         /\ answers' = answers \cup {[id |-> id, quote |-> q, order |-> i]}
    /\ UNCHANGED <<listing, policy, checkout, turnedAway, placed, lease, quotes, listed,
                   policies, hour>>

\* RenewOrder, the first time: the quote is made again and must be the same.
SameQuote(q) == Quotable(q.periods) /\ Quote(q.periods) = q

RenewFirst(id, q) ==
    LET taken == IF lease.end <= hour /\ lease.units = 0 THEN LeaseQuantity ELSE 0 IN
    /\ Previous(id) = {}
    /\ Len(placed) < MaxPlaced
    /\ SameQuote(q)
    /\ taken > 0 => listing.status = "active" /\ listing.form.stock >= taken
    /\ listing' = IF taken > 0 THEN ShelfAfter(taken) ELSE listing
    /\ placed' = Append(placed, [kind |-> "renewal", id |-> id, quote |-> q, total |-> q.total,
                                 fee |-> q.fee, price |-> listing.form.price,
                                 n |-> LeaseQuantity, periods |-> q.periods, rate |-> policy.rate,
                                 taken |-> taken, status |-> "pending"])
    /\ answers' = answers \cup {[id |-> id, quote |-> q, order |-> Len(placed) + 1]}
    /\ UNCHANGED <<policy, checkout, turnedAway, lease, quotes, listed, policies, hour>>

Cancelled(o) == [o EXCEPT !.status = "cancelled"]
BackOnShelf(n) ==
    IF n = 0 THEN listing
    ELSE [form |-> [listing.form EXCEPT !.stock = @ + n],
          status |-> IF listing.status = "sold_out" THEN "active" ELSE listing.status]

\* What a renewal comes to; Orders has the whole of it.  The money for an extension
\* moves the end, and for a restart sends the lease back to be delivered.
RenewalPaid(i) ==
    /\ OpenRenewal(i)
    /\ placed' = [placed EXCEPT ![i].status = "completed"]
    /\ lease' = IF placed[i].quote.until # NoTime
                THEN [lease EXCEPT !.end = placed[i].quote.until]
                ELSE [end |-> NoTime, status |-> "paid", units |-> LeaseQuantity]
    /\ UNCHANGED <<listing, policy, checkout, turnedAway, quotes, answers, listed, policies, hour>>

RenewalCancelled(i) ==
    /\ OpenRenewal(i)
    /\ placed' = [placed EXCEPT ![i] = Cancelled(@)]
    /\ listing' = BackOnShelf(placed[i].taken)
    /\ UNCHANGED <<policy, checkout, turnedAway, lease, quotes, answers, listed, policies, hour>>

\* ConfirmDelivery of a lease that was restarted for so many periods.
LeaseStarts(periods) ==
    /\ lease.status = "paid"
    /\ lease' = [lease EXCEPT !.status = "active", !.end = hour + periods]
    /\ UNCHANGED <<listing, policy, checkout, turnedAway, placed, quotes, answers, listed,
                   policies, hour>>

\* CompleteExpiredLeases: the units go back to the shelf, and those of a renewal
\* nobody has paid.
LeaseOver ==
    /\ lease.status = "active" /\ lease.end <= hour
    /\ lease' = [lease EXCEPT !.status = "completed", !.units = 0]
    /\ listing' = BackOnShelf(lease.units + MapThenSumSet(LAMBDA i : placed[i].taken, OpenRenewals))
    /\ placed' = [i \in DOMAIN placed |->
                    IF i \in OpenRenewals THEN Cancelled(placed[i]) ELSE placed[i]]
    /\ UNCHANGED <<policy, checkout, turnedAway, quotes, answers, listed, policies, hour>>

HourPasses ==
    /\ hour < MaxHours
    /\ hour' = hour + 1
    /\ UNCHANGED <<listing, policy, checkout, turnedAway, placed, lease, quotes, answers,
                   listed, policies>>

-----------------------------------------------------------------------------
NothingListed ==
    /\ listing = Unlisted
    /\ lease = [end |-> NoTime, status |-> "none", units |-> 0]

\* A lease that runs, of a product on sale.
LeaseRuns(f, end) ==
    /\ ValidListing(WithDefaults(f))
    /\ listing = [form |-> WithDefaults(f), status |-> "active"]
    /\ lease = [end |-> end, status |-> "active", units |-> LeaseQuantity]

NothingOrdered ==
    /\ checkout = [c \in Checkouts |-> IdleCheckout]
    /\ turnedAway = {}
    /\ placed = <<>>
    /\ quotes = {}
    /\ answers = {}
    /\ listed = 0
    /\ policies = 0
    /\ hour = 0

CheckoutInit ==
    /\ NothingListed \/ \E f \in Offerings, end \in Nat : LeaseRuns(f, end)
    /\ policy \in [enabled : BOOLEAN, rate : Rates]
    /\ NothingOrdered

ShopStep(forms) == (\E f \in forms : ListProduct(f)) \/ MoveListing \/ UpdateConfig

OrderingStep(forms) ==
    \/ ShopStep(forms)
    \/ \E c \in Checkouts :
         \/ \E n \in Quantities, d \in Durations : ReadProduct(c, n, d)
         \/ PriceOrder(c)
         \/ CommitOrder(c)

RenewingStep(forms) ==
    \/ ShopStep(forms)
    \/ \E d \in Durations : GetRenewalQuote(d)
    \/ \E id \in RequestIds, q \in quotes : RenewFirst(id, q) \/ RenewAgain(id, q)
    \/ \E i \in DOMAIN placed : RenewalPaid(i) \/ RenewalCancelled(i)
    \/ \E d \in Durations : LeaseStarts(d)
    \/ LeaseOver
    \/ HourPasses

CheckoutNext == OrderingStep(Offerings) \/ RenewingStep(Offerings)

CheckoutSpec == CheckoutInit /\ [][CheckoutNext]_checkoutVars

-----------------------------------------------------------------------------
(* Properties *)

\* Arithmetic in int64 is exact: what an order costs is its price times its quantity
\* times its periods and the platform's part is that at the rate, rounded down; an
\* amount is refused only for being too large, however it wraps.
AmountsAreExact ==
    /\ \A i \in DOMAIN placed : LET o == placed[i] IN
         /\ o.total = ExactTotal(o.price, o.n, o.periods) /\ o.total \in 1..MaxTotal
         /\ o.fee = ExactFee(o.total, o.rate) /\ o.fee \in 0..o.total
    /\ \A t \in turnedAway : t > MaxTotal

\* What passes the checks of a listing passes those of an order: the least that it offers
\* is a quantity and a duration that are taken (ValidateProductReq, validateOrderParams),
\* unless it is by negotiation, or asks for more than there is or may be.  What the least
\* order costs is not looked at: it may exceed MaxOrderTotalFen, and no order is priced then.
ListingsCanBeBought ==
    listing.status \in {"pending", "active"} => LET p == listing.form IN
        \/ p.negotiable
        \/ p.minOrder > p.stock \/ p.minOrder > MaxOrderQuantity
        \/ p.minPeriods > MaxPeriods[p.mode]
        \/ Orderable(p, p.minOrder, p.minPeriods) /\ OnShelf(p, p.minOrder)

\* Whoever closes the trade or changes the fee is not overtaken: an order that
\* commits afterwards is made under the policy that holds when it commits.
PolicyIsNotOvertaken ==
    [][placed' # placed /\ Len(placed') > Len(placed) =>
         policy.enabled /\ Last(placed').rate = policy.rate]_checkoutVars

\* The order a buyer gets for an answer is on the terms he was quoted and agreed to,
\* the amount, the fee, and what becomes of his lease, and they were the terms of the
\* product and the policy when it was placed; sent again, for whatever reason and
\* however much later, his request gets the same order.
AnsweredAsAgreed ==
    \A a \in answers : LET q == a.quote  o == placed[a.order] IN
        /\ o.total = q.total /\ o.fee = q.fee /\ o.periods = q.periods /\ o.quote = q
        /\ q.total = ExactTotal(o.price, o.n, o.periods) /\ q.fee = ExactFee(q.total, o.rate)
        /\ \A b \in answers : a.id = b.id => a.order = b.order

\* Together, what a buyer is charged: the exact amount, for what can be bought, as he agreed,
\* and under the policy in force.
ChargesAreRight ==
    [](AmountsAreExact /\ ListingsCanBeBought /\ AnsweredAsAgreed) /\ PolicyIsNotOvertaken

=============================================================================
