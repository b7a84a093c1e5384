------------------------------ MODULE MCOrders ------------------------------
(***************************************************************************)
(* Instances of Orders.                                                    *)
(*                                                                         *)
(* A product is listed, sold out, taken down, frozen and listed again      *)
(* while the first orders are placed and carried out.  Renewals go deeper: *)
(* once more than OrdersWhileListed orders exist, nobody touches the       *)
(* listing.  Restarts of the server are in MCLive, where they matter.      *)
(***************************************************************************)
EXTENDS OrdersLedger

CONSTANTS
    p1, s1,
    Shelf,              \* units on sale where a run starts with a listed product
    OrdersWhileListed   \* bound: orders placed while the supplier still acts

MCProducts == {p1}
MCSuppliers == {s1}
MCSupplierOf == [p \in MCProducts |-> s1]

Listed(u) == [status |-> "active", stock |-> Shelf, unit |-> u]

LeaseInit ==
    /\ \E u \in Units : prod = [p \in Products |-> Listed(u)]
    /\ ord = [o \in Orders |-> NoOrder]
    /\ ren = [o \in Orders |-> NoRenewal]
    /\ dlv = [o \in Orders |-> NoDelivery]
    /\ now = 0
    /\ job = "revoke"
    /\ todo = {}
    /\ crashes = 0
    /\ capacity = [p \in Products |-> Shelf]

LeaseNext ==
    \/ \E o \in Orders : OrderStep(o)
    \/ JobStep
    \/ Tick

LeaseSpec == LeaseInit /\ [][LeaseNext]_vars

SupplierActs ==
    /\ OrdersWhileListed < MaxOrders => ord[OrdersWhileListed + 1].status = "none"
    /\ (\E p \in Products : SupplierStep(p)) \/ (\E s \in Suppliers : FreezeListings(s))

MarketSpec == (Init \/ LeaseInit) /\ [][LeaseNext \/ SupplierActs]_vars

=============================================================================
