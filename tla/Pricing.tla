-------------------------------- MODULE Pricing --------------------------------
(***************************************************************************)
(* What a listing must say and what an order of it costs                   *)
(* (internal/compute: NormalizeProductReq, ValidateProductReq,             *)
(* validateOrderParams, CalcOrderAmount).  Money is an int64: products     *)
(* wrap, and the code finds the overflow by dividing back.                 *)
(***************************************************************************)
EXTENDS Integers

CONSTANTS
    WordSize,           \* 2^63: an int64 is in -WordSize..WordSize-1
    Base,               \* the basis points of the whole (10000)
    MaxTotal,           \* MaxOrderTotalFen
    MaxOrderQuantity,
    MaxPeriods          \* maxDurationByPricingMode

ListingTypes == {"card_rental", "outright", "center", "colocation"}
PricingModes == {"hourly", "daily", "weekly", "monthly", "perpetual"}

ASSUME PricingAssumption ==
    /\ Base \in Nat \ {0}
    /\ WordSize \in Nat /\ MaxTotal \in 1..(WordSize - 1)
    /\ MaxOrderQuantity \in Nat \ {0}
    /\ MaxPeriods \in [PricingModes -> Nat \ {0}]

AllowedModes(type) ==
    CASE type = "card_rental" -> {"hourly", "daily", "weekly"}
      [] type = "outright" -> {"perpetual"}
      [] type = "center" -> PricingModes \ {"hourly"}
      [] type = "colocation" -> PricingModes

AtLeastOne(n) == IF n <= 0 THEN 1 ELSE n

\* NormalizeProductReq: defaults of fields left empty.
ListedType(f) == IF f.type = "" THEN "card_rental" ELSE f.type
ListedMode(f) ==
    IF ListedType(f) = "outright" THEN "perpetual"
    ELSE IF f.mode # "" THEN f.mode
    ELSE IF ListedType(f) = "card_rental" THEN "hourly" ELSE "monthly"
ListedStock(f) ==
    IF f.stock > 0 THEN f.stock
    ELSE IF ListedType(f) = "outright" THEN f.machines
    ELSE IF ListedType(f) \in {"center", "colocation"} THEN 1 ELSE f.stock

WithDefaults(f) ==
    [type |-> ListedType(f), mode |-> ListedMode(f), stock |-> ListedStock(f),
     price |-> IF ListedType(f) = "colocation" THEN 0 ELSE f.price,
     negotiable |-> f.negotiable \/ ListedType(f) = "colocation",
     cards |-> f.cards, machines |-> f.machines, described |-> f.described,
     minOrder |-> AtLeastOne(f.minOrder), minPeriods |-> AtLeastOne(f.minPeriods)]

\* A product that is sold by the machine has as many cards in each.
EvenCards(f) == f.cards > 0 /\ f.machines > 0 /\ f.cards % f.machines = 0

\* ValidateProductReq; "described" stands for the texts and sizes the type asks for.
ValidListing(f) ==
    /\ f.type \in ListingTypes
    /\ f.price \in 0..MaxTotal
    /\ f.stock \in 0..MaxOrderQuantity
    /\ f.mode \in AllowedModes(f.type)
    /\ f.described
    /\ f.type = "card_rental" => f.cards > 0 /\ f.stock > 0 /\ f.price > 0 /\ ~f.negotiable
    /\ f.type \in {"outright", "center"} => EvenCards(f)
    /\ f.type = "outright" => f.price > 0 /\ ~f.negotiable
    /\ f.type = "center" => f.negotiable \/ f.price > 0
    /\ f.type = "colocation" => f.negotiable /\ f.price = 0

\* validateOrderParams, with the stock (an order) and without (a renewal).
Orderable(p, n, periods) ==
    /\ ~p.negotiable /\ p.type # "colocation" /\ p.price > 0
    /\ n \in AtLeastOne(p.minOrder)..MaxOrderQuantity
    /\ p.mode = "perpetual" \/ periods \in AtLeastOne(p.minPeriods)..MaxPeriods[p.mode]
OnShelf(p, n) == p.stock > 0 => n <= p.stock
OrderedPeriods(p, periods) == IF p.mode = "perpetual" THEN 1 ELSE periods

\* 0 where a unit of the product has no number of cards.
CardsPerUnit(p) ==
    IF p.type = "card_rental" THEN 1
    ELSE IF p.type \in {"outright", "center"} /\ EvenCards(p) THEN p.cards \div p.machines
    ELSE 0

-----------------------------------------------------------------------------
Wrapped(n) == ((n + WordSize) % (2 * WordSize)) - WordSize

\* Division in Go rounds towards zero.
GoDiv(a, b) == IF a >= 0 THEN a \div b ELSE -((-a) \div b)

Fee(total, rate) == (total \div Base) * rate + ((total % Base) * rate) \div Base

Step(price, n) == Wrapped(price * n)
Total(price, n, periods) == Wrapped(Step(price, n) * periods)

\* CalcOrderAmount: does it return an amount?
Priceable(price, n, periods) ==
    /\ price > 0 /\ n > 0 /\ periods > 0
    /\ GoDiv(Step(price, n), price) = n
    /\ GoDiv(Total(price, n, periods), Step(price, n)) = periods
    /\ Total(price, n, periods) \in 1..MaxTotal

\* For reference: the price and the fee in unbounded arithmetic.
ExactTotal(price, n, periods) == price * n * periods
ExactFee(total, rate) == (total * rate) \div Base

=============================================================================
