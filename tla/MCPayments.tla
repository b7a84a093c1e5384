----------------------------- MODULE MCPayments -----------------------------
(***************************************************************************)
(* Instances of Payments.  The product is on sale and nobody touches its   *)
(* listing: the orders and their money are what these runs are about.      *)
(***************************************************************************)
EXTENDS Payments

CONSTANTS p1, s1

MCProducts == {p1}
MCSuppliers == {s1}
MCSupplierOf == [p \in MCProducts |-> s1]

\* One unit on the shelf, and a cycle of one tick.
OnSaleInit ==
    /\ prod = [p \in Products |-> [status |-> "active", stock |-> 1, unit |-> 1]]
    /\ ord = [o \in Orders |-> NoOrder]
    /\ ren = [o \in Orders |-> NoRenewal]
    /\ dlv = [o \in Orders |-> NoDelivery]
    /\ now = 0
    /\ job = "revoke"
    /\ todo = {}
    /\ crashes = 0
    /\ capacity = [p \in Products |-> 1]
    /\ MoneyInit

\* The first order is in use and paid, and its money is still with the gateway.
InUseInit ==
    /\ prod = [p \in Products |-> [status |-> "sold_out", stock |-> 0, unit |-> 1]]
    /\ ord = [o \in Orders |->
                IF o = 1
                THEN [status |-> "active", product |-> p1, qty |-> 1, reserved |-> 1, dur |-> 1,
                      unit |-> 1, payExp |-> PayWindow, start |-> 0, end |-> 1]
                ELSE NoOrder]
    /\ ren = [o \in Orders |-> NoRenewal]
    /\ dlv = [o \in Orders |-> IF o = 1 THEN [access |-> "delivered", exp |-> 1, confirmed |-> TRUE]
                                        ELSE NoDelivery]
    /\ now = 0
    /\ job = "revoke"
    /\ todo = {}
    /\ crashes = 0
    /\ capacity = [p \in Products |-> 1]
    /\ pay = [o \in Orders |-> IF o = 1 THEN [NoPayment EXCEPT !.status = "paid"] ELSE NoPayment]
    /\ settle = [o \in Orders |-> IF o = 1 THEN [NoSettlement EXCEPT !.status = "pending"]
                                           ELSE NoSettlement]
    /\ gw = [o \in Orders |-> IF o = 1 THEN [NoBooks EXCEPT !.paid = TRUE] ELSE NoBooks]
    /\ wire = {}
    /\ hooks = {}
    /\ boarded = {}

OrdersGoOn ==
    /\ (\E o \in Orders : TradeStep(o)) \/ JobStep \/ Tick
    /\ UNCHANGED payVars

OnSaleSpec == OnSaleInit /\ [][PaymentStep \/ OrdersGoOn]_allVars

InUseSpec == InUseInit /\ [][PaymentStep \/ OrdersGoOn]_allVars

OnSaleFairSpec == OnSaleSpec /\ PayFairness

=============================================================================
