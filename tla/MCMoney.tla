------------------------------ MODULE MCMoney ------------------------------
(***************************************************************************)
(* Payments from the empty market.  A behaviour is about one of two things *)
(* and world says which: the first order with its money, restarts and      *)
(* repeated requests; or a lease in use and the order that renews it.      *)
(***************************************************************************)
EXTENDS MCPayments

VARIABLE world

moneyVars == <<allVars, world>>

Begin == PayInit /\ world \in {"first", "opening"}

\* One order, for which everything may happen until the lease is over; the listing
\* changes by itself only before.
FirstOrder ==
    /\ world = "first"
    /\ PaymentStep \/ OrdersGoOn \/ (ord[1].status = "none" /\ Elsewhere /\ UNCHANGED payVars)
    /\ now' < MaxTime
    /\ \A o \in Orders \ {1} : ord'[o].status = "none"
    /\ UNCHANGED world

\* The shortest way to a lease in use whose money is ready to be split.
Opening ==
    /\ world = "opening"
    /\ \/ /\ \/ CreateProduct(p1, 1, 1)
             \/ ReviewProduct(p1, "active")
             \/ PlaceOrder(1, p1, 1, 1)
             \/ DeliverWithAccess(1, 1)
             \/ ConfirmDelivery(1, 1)
          /\ UNCHANGED payVars
       \/ Pay(1)
       \/ GatewayTakesMoney(1)
       \/ AcceptPayment(1)
       \/ ord[1].status = "active" /\ (GatewayClears(1) \/ MarkCleared(1) \/ BoardMerchant(s1))
    /\ world' = IF pay'[1].cleared /\ boarded' # {} THEN "renewing" ELSE world

\* One split and one refund of an order at most, which the gateway ends at once.
OneRequestEach ==
    \A o \in Orders :
        /\ settle[o].req <= 1 /\ ~NeedsAHand(o)
        /\ pay[o].req = 0 \/ (pay[o].req = 1 /\ pay[o].refund # "pending")
        /\ ~AnyOf(gw[o].divides, {"processing"}) /\ ~AnyOf(gw[o].refunds, {"processing"})

\* From there on, with orders that renew it and no restart.
Renewing ==
    /\ world = "renewing"
    /\ PaymentStep \/ OrdersGoOn
    /\ crashes' = 0
    /\ \A o \in Orders \ {1} : ord'[o].status # "none" => IsRenewal(o)'
    /\ OneRequestEach'
    /\ UNCHANGED world

MoneySpec == Begin /\ [][FirstOrder \/ Opening \/ Renewing]_moneyVars

=============================================================================
