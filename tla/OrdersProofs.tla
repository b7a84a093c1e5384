---------------------------- MODULE OrdersProofs ----------------------------
(***************************************************************************)
(* Theorems about Orders, for every value of its constants: the variables  *)
(* keep their types, no unit of stock is lost or made up, the families of  *)
(* leases and renewals stay flat, and every step is an entry of the stock  *)
(* ledger: of a step that conserves the stock it is left to show that it   *)
(* touches one product, and that it takes only what is on sale.            *)
(***************************************************************************)
EXTENDS OrdersLedger, FiniteSetTheorems, TLAPS

-----------------------------------------------------------------------------
(* Types *)

LEMMA NoOrderType == NoOrder \in Order
<1>1. (CHOOSE p \in Products : TRUE) \in Products
  BY OrdersAssumption
<1> QED BY <1>1 DEF NoOrder, Order, OrderStatus, Times, None, Perpetual

LEMMA NoRenewalType == NoRenewal \in Renewal
BY DEF NoRenewal, Renewal, Times, None

LEMMA NoDeliveryType == NoDelivery \in Delivery
BY DEF NoDelivery, Delivery, AccessStatus, Times, None

\* Units are pairs from a finite set, so they can be counted.
LEMMA UnitsAreFinite ==
    ASSUME NEW orders, NEW S \in SUBSET Orders
    PROVE  /\ IsFiniteSet(UnitsOf(orders, S))
           /\ Cardinality(UnitsOf(orders, S)) \in Nat
<1>1. IsFiniteSet(Orders) /\ IsFiniteSet(1..MaxOrderQuantity)
  BY FS_Interval, OrdersAssumption DEF Orders
<1>2. IsFiniteSet(S)
  BY <1>1, FS_Subset
<1>3. IsFiniteSet(S \X (1..MaxOrderQuantity))
  BY <1>1, <1>2, FS_Product
<1>4. UnitsOf(orders, S) \in SUBSET (S \X (1..MaxOrderQuantity))
  BY DEF UnitsOf
<1>5. IsFiniteSet(UnitsOf(orders, S))
  BY <1>3, <1>4, FS_Subset
<1> QED BY <1>5, FS_CardinalityType

\* What the stock operators make of a product is a product.
LEMMA ShelfType ==
    ASSUME NEW r \in Product, NEW n \in Nat
    PROVE  /\ Returned(r, n) \in Product
           /\ Counted(r, n) \in Product
           /\ r.stock >= n => Taken(r, n) \in Product
<1>1. r.status \in ProductStatus /\ r.stock \in Nat
  BY DEF Product
<1>2. Returned(r, n) \in Product
  <2> DEFINE s == IF n > 0 /\ r.status = "sold_out" THEN "active" ELSE r.status
  <2>1. s \in ProductStatus
    BY <1>1 DEF ProductStatus
  <2>2. r.stock + n \in Nat
    BY <1>1
  <2>3. Returned(r, n) = [r EXCEPT !.stock = r.stock + n, !.status = s]
    BY DEF Returned
  <2> HIDE DEF s
  <2> QED BY <2>1, <2>2, <2>3 DEF Product
<1>3. Counted(r, n) \in Product
  <2> DEFINE s == IF n = 0 /\ r.status = "active" THEN "sold_out"
                  ELSE IF n > 0 /\ r.status = "sold_out" THEN "active"
                  ELSE r.status
  <2>1. s \in ProductStatus
    BY <1>1 DEF ProductStatus
  <2>2. Counted(r, n) = [r EXCEPT !.stock = n, !.status = s]
    BY DEF Counted
  <2> HIDE DEF s
  <2> QED BY <2>1, <2>2 DEF Product
<1>4. ASSUME r.stock >= n PROVE Taken(r, n) \in Product
  <2> DEFINE s == IF r.stock - n <= 0 THEN "sold_out" ELSE r.status
  <2>1. s \in ProductStatus
    BY <1>1 DEF ProductStatus
  <2>2. r.stock - n \in Nat
    BY <1>1, <1>4
  <2>3. Taken(r, n) = [r EXCEPT !.stock = r.stock - n, !.status = s]
    BY DEF Taken
  <2> HIDE DEF s
  <2> QED BY <2>1, <2>2, <2>3 DEF Product
<1> QED BY <1>2, <1>3, <1>4

\* The shelf after units came back is a shelf.
LEMMA StockReturnedType ==
    ASSUME TypeOK, NEW p \in Products, NEW S \in SUBSET Orders
    PROVE  StockReturned(p, S) \in [Products -> Product]
<1>1. Cardinality(HeldUnits(S)) \in Nat
  BY UnitsAreFinite DEF HeldUnits
<1>2. Returned(prod[p], Cardinality(HeldUnits(S))) \in Product
  BY <1>1, ShelfType DEF TypeOK
<1> QED BY <1>2 DEF TypeOK, StockReturned

LEMMA EmptiedType ==
    ASSUME TypeOK, NEW o \in Orders, NEW status \in OrderStatus
    PROVE  Emptied(o, status) \in Order
BY DEF TypeOK, Emptied, Order

LEMMA WithCancelledType ==
    ASSUME TypeOK, NEW S
    PROVE  WithCancelled(S) \in [Orders -> Order]
<1>1. \A o \in Orders : Emptied(o, "cancelled") \in Order
  BY EmptiedType DEF OrderStatus
<1> QED BY <1>1 DEF TypeOK, WithCancelled

LEMMA AccessRevokedType ==
    ASSUME TypeOK, NEW o \in Orders
    PROVE  AccessRevoked(o) \in [Orders -> Delivery]
BY DEF TypeOK, AccessRevoked, Delivery, AccessStatus

LEMMA CloseOrderType ==
    ASSUME TypeOK, NEW o \in Orders, NEW status \in OrderStatus, CloseOrder(o, status)
    PROVE  /\ prod' \in [Products -> Product]
           /\ ord' \in [Orders -> Order]
           /\ ren' \in [Orders -> Renewal]
           /\ dlv' \in [Orders -> Delivery]
<1> DEFINE open == IF IsRenewal(o) THEN {} ELSE OpenRenewals(o)
<1>1. open \cup {o} \in SUBSET Orders /\ ord[o].product \in Products
  BY DEF OpenRenewals, Children, TypeOK, Order
<1>2. prod' = StockReturned(ord[o].product, open \cup {o})
  BY DEF CloseOrder
<1>3. ord' = [WithCancelled(open) EXCEPT ![o] = Emptied(o, status)]
  BY DEF CloseOrder
<1>4. dlv' = AccessRevoked(o) /\ ren' = ren
  BY DEF CloseOrder
<1>5. prod' \in [Products -> Product]
  BY <1>1, <1>2, StockReturnedType
<1>6. ord' \in [Orders -> Order]
  BY <1>3, WithCancelledType, EmptiedType
<1> QED BY <1>4, <1>5, <1>6, AccessRevokedType DEF TypeOK

\* The end of a lease is a time, and none for an outright sale.
LEMMA LeaseEndType ==
    ASSUME NEW t \in Nat, NEW unit \in Nat, NEW dur \in Nat
    PROVE  LeaseEndAt(t, unit, dur) \in Times
<1>1. unit * dur \in Nat
  OBVIOUS
<1> QED BY <1>1 DEF LeaseEndAt, Times

\* A listing step leaves the products well-typed.
LEMMA SupplierStepType ==
    ASSUME TypeOK, NEW p \in Products, SupplierStep(p)
    PROVE  TypeOK'
<1>1. \A n \in Nat : Recounted(p, n) \in [Products -> Nat]
  <2>1. OrdersOf(p) \in SUBSET Orders
    BY DEF OrdersOf
  <2>2. Cardinality(HeldUnits(OrdersOf(p))) \in Nat
    BY <2>1, UnitsAreFinite DEF HeldUnits
  <2> QED BY <2>2 DEF Recounted, TypeOK
<1>2. ASSUME NEW n \in 1..MaxOrderQuantity, NEW u \in Units,
             CreateProduct(p, n, u) \/ ResubmitProduct(p, n, u)
      PROVE  TypeOK'
  <2>1. n \in Nat /\ u \in Nat
    BY OrdersAssumption
  <2>2. [status |-> "pending", stock |-> n, unit |-> u] \in Product
    BY <2>1 DEF Product, ProductStatus
  <2>3. prod' \in [Products -> Product]
    BY <1>2, <2>2 DEF CreateProduct, ResubmitProduct, TypeOK
  <2>4. capacity' \in [Products -> Nat]
    BY <1>1, <1>2, <2>1 DEF CreateProduct, ResubmitProduct
  <2> QED BY <1>2, <2>3, <2>4 DEF CreateProduct, ResubmitProduct, TypeOK, jobVars
<1>3. ASSUME NEW verdict \in {"active", "draft"}, ReviewProduct(p, verdict)
      PROVE  TypeOK'
  <2>1. [prod[p] EXCEPT !.status = verdict] \in Product
    BY DEF TypeOK, Product, ProductStatus
  <2> QED BY <1>3, <2>1 DEF ReviewProduct, TypeOK, jobVars
<1>4. CASE OfflineProduct(p) \/ SupplierOfflineProduct(p)
  <2>1. [prod[p] EXCEPT !.status = "offline"] \in Product
    BY DEF TypeOK, Product, ProductStatus
  <2> QED BY <1>4, <2>1 DEF OfflineProduct, SupplierOfflineProduct, TypeOK, jobVars
<1>5. ASSUME NEW n \in 0..MaxOrderQuantity, SyncResource(p, n)
      PROVE  TypeOK'
  <2>1. n \in Nat
    BY OrdersAssumption
  <2>2. Counted(prod[p], n) \in Product
    BY <2>1, ShelfType DEF TypeOK
  <2>3. capacity' \in [Products -> Nat]
    BY <1>1, <1>5, <2>1 DEF SyncResource
  <2> QED BY <1>5, <2>2, <2>3 DEF SyncResource, TypeOK, jobVars
<1> QED BY <1>2, <1>3, <1>4, <1>5 DEF SupplierStep

LEMMA FreezeListingsType ==
    ASSUME TypeOK, NEW s \in Suppliers, FreezeListings(s)
    PROVE  TypeOK'
<1>1. \A p \in Products : [prod[p] EXCEPT !.status = "frozen"] \in Product
  BY DEF TypeOK, Product, ProductStatus
<1> QED BY <1>1 DEF FreezeListings, TypeOK, jobVars

\* Payment moves an order on and, for a renewal, its lease.
LEMMA PaymentType ==
    ASSUME TypeOK, NEW o \in Orders, PaymentArrives(o)
    PROVE  TypeOK'
<1> DEFINE par == ren[o].parent
<1>1. CASE ConfirmPayment(o)
  <2>1. [ord[o] EXCEPT !.status = "paid"] \in Order
    BY DEF TypeOK, Order, OrderStatus
  <2> QED BY <1>1, <2>1 DEF ConfirmPayment, PaymentArrives, TypeOK, jobVars
<1>2. CASE ApplyExtension(o)
  <2>1. par \in Orders /\ ren[o].until \in Times /\ ren[o].oldEnd \in Times
    BY <1>2 DEF ApplyExtension, IsRenewal, TypeOK, Renewal
  <2>2. [ord[o] EXCEPT !.status = "completed", !.reserved = 0,
                       !.start = ren[o].oldEnd, !.end = ren[o].until] \in Order
    BY <2>1, ZenonT(40) DEF TypeOK, Order, OrderStatus
  <2>3. [ord[par] EXCEPT !.end = ren[o].until] \in Order
    BY <2>1 DEF TypeOK, Order
  <2>4. ord' \in [Orders -> Order]
    BY <1>2, <2>1, <2>2, <2>3 DEF ApplyExtension, TypeOK
  <2>5. dlv' \in [Orders -> Delivery]
    BY <1>2, <2>1 DEF ApplyExtension, AccessUntil, TypeOK, Delivery
  <2>6. ren' \in [Orders -> Renewal]
    BY <1>2, ZenonT(40) DEF ApplyExtension, TypeOK, Renewal
  <2> QED BY <1>2, <2>4, <2>5, <2>6 DEF ApplyExtension, PaymentArrives, TypeOK, jobVars
<1>3. CASE ApplyRestart(o)
  <2>1. /\ par \in Orders
        /\ ord[par] \in Order
        /\ ord[par].start \in Times
        /\ ord[o].qty \in Nat
    BY <1>3 DEF ApplyRestart, IsRenewal, TypeOK, Renewal, Order
  <2>2. [ord[o] EXCEPT !.status = "completed", !.reserved = 0,
                       !.start = None, !.end = None] \in Order
    BY ZenonT(40) DEF TypeOK, Order, OrderStatus, Times
  <2>3. [ord[par] EXCEPT !.status = "paid", !.reserved = ord[o].qty,
                         !.start = None, !.end = None] \in Order
    <3> HIDE DEF par
    <3> QED BY <2>1 DEF Order, OrderStatus, Times
  <2>4. ord' \in [Orders -> Order]
    BY <1>3, <2>1, <2>2, <2>3 DEF ApplyRestart, TypeOK
  <2>5. dlv' \in [Orders -> Delivery]
    BY <1>3, <2>1 DEF ApplyRestart, TypeOK, Delivery, AccessStatus
  <2>6. ren' \in [Orders -> Renewal]
    <3>1. ren[o] \in Renewal /\ ord[par].start \in Times
      BY <2>1 DEF TypeOK, Order
    <3> HIDE DEF par
    <3>2. [ren[o] EXCEPT !.applied = TRUE, !.prevStart = ord[par].start] \in Renewal
      BY <3>1 DEF Renewal
    <3> USE DEF par
    <3> QED BY <1>3, <3>2 DEF ApplyRestart, TypeOK
  <2> QED BY <1>3, <2>4, <2>5, <2>6 DEF ApplyRestart, PaymentArrives, TypeOK, jobVars
<1> QED BY <1>1, <1>2, <1>3 DEF PaymentArrives

\* Delivering and signing set the credential and the lease.
LEMMA DeliveryType ==
    ASSUME TypeOK, NEW o \in Orders, NEW lease \in Orders,
           DeliverWithAccess(o, lease) \/ ConfirmDelivery(o, lease)
    PROVE  TypeOK'
<1> DEFINE end == LeaseEndAt(now, LeaseUnit(lease, o), ord[lease].dur)
<1>1. end \in Times
  <2>1. LeaseUnit(lease, o) \in Nat /\ ord[lease].dur \in Nat /\ now \in Nat
    BY DEF LeaseUnit, TypeOK, Order, Product
  <2> QED BY <2>1, LeaseEndType
<1> HIDE DEF end
<1>2. CASE DeliverWithAccess(o, lease)
  <2>1. [access |-> "generated", confirmed |-> FALSE, exp |-> end] \in Delivery
    BY <1>1 DEF Delivery, AccessStatus
  <2>2. dlv' \in [Orders -> Delivery]
    BY <1>2, <2>1 DEF DeliverWithAccess, TypeOK, end
  <2>3. [ord[o] EXCEPT !.status = "provisioning"] \in Order
    BY DEF TypeOK, Order, OrderStatus
  <2> QED BY <1>2, <2>2, <2>3 DEF DeliverWithAccess, TypeOK, jobVars
<1>3. CASE ConfirmDelivery(o, lease)
  <2>1. [access |-> "delivered", exp |-> end, confirmed |-> TRUE] \in Delivery
    BY <1>1 DEF Delivery, AccessStatus
  <2>2. dlv' \in [Orders -> Delivery]
    BY <1>3, <2>1 DEF ConfirmDelivery, TypeOK, end
  <2>3. /\ [ord[o] EXCEPT !.status = "active", !.start = now, !.end = end] \in Order
        /\ [ord[lease] EXCEPT !.start = now, !.end = end] \in Order
    <3>1. ord[o] \in Order /\ ord[lease] \in Order /\ now \in Times /\ "active" \in OrderStatus
      BY DEF TypeOK, OrderStatus, Times
    <3> QED BY <1>1, <3>1 DEF Order
  <2>4. ord' \in [Orders -> Order]
    BY <1>3, <2>3 DEF ConfirmDelivery, TypeOK, end
  <2>5. ren' \in [Orders -> Renewal]
    <3>1. [ren[lease] EXCEPT !.confirmed = TRUE] \in Renewal
      BY ZenonT(40) DEF TypeOK, Renewal
    <3> QED BY <1>3, <3>1 DEF ConfirmDelivery, TypeOK
  <2> QED BY <1>3, <2>2, <2>4, <2>5 DEF ConfirmDelivery, TypeOK, jobVars
<1> QED BY <1>2, <1>3

LEMMA RenewType ==
    ASSUME TypeOK, NEW o \in Orders, NEW par \in Orders, NEW d \in Durations,
           RenewByExtension(o, par, d) \/ RenewByRestart(o, par, d)
    PROVE  TypeOK'
<1>1. /\ d \in Nat /\ now \in Nat /\ PayWindow \in Nat
      /\ ord[par].end \in Nat /\ ord[par].qty \in Nat
      /\ ord[par].product \in Products
      /\ prod[ord[par].product].unit \in Nat
  BY OrdersAssumption
  DEF RenewByExtension, RenewByRestart, Renewable, TypeOK, Order, Product, Times
<1>2. \A reserved \in Nat, payExp \in Times :
          NewRenewalOrder(par, reserved, d, payExp) \in Order
  BY <1>1 DEF NewRenewalOrder, Order, OrderStatus, Times
<1>3. RenewedUntil(par, d) \in Times
  BY <1>1, LeaseEndType DEF RenewedUntil
<1>4. CASE RenewByExtension(o, par, d)
  <2>1. Lower(now + PayWindow, ord[par].end) \in Times
    BY <1>1 DEF Lower, Times
  <2>2. ord' \in [Orders -> Order]
    BY <1>2, <1>4, <2>1 DEF RenewByExtension, TypeOK
  <2>3. [NoRenewal EXCEPT !.parent = par, !.mode = "extend", !.oldEnd = ord[par].end,
                          !.until = RenewedUntil(par, d)] \in Renewal
    BY <1>1, <1>3 DEF NoRenewal, Renewal, Times
  <2>4. ren' \in [Orders -> Renewal]
    BY <1>4, <2>3 DEF RenewByExtension, TypeOK
  <2> QED BY <1>4, <2>2, <2>4 DEF RenewByExtension, TypeOK, jobVars
<1>5. CASE RenewByRestart(o, par, d)
  <2> DEFINE p == ord[par].product
             taken == IF ord[par].reserved = 0 THEN ord[par].qty ELSE 0
  <2>1. taken \in Nat /\ now + PayWindow \in Times
    BY <1>1 DEF Times
  <2>2. ord' \in [Orders -> Order]
    BY <1>2, <1>5, <2>1 DEF RenewByRestart, TypeOK
  <2>3. [NoRenewal EXCEPT !.parent = par, !.mode = "restart",
                          !.oldEnd = ord[par].end] \in Renewal
    BY <1>1 DEF NoRenewal, Renewal, Times
  <2>4. ren' \in [Orders -> Renewal]
    BY <1>5, <2>3 DEF RenewByRestart, TypeOK
  <2>5. prod' \in [Products -> Product]
    <3>1. CASE taken > 0
      <4>1. prod[p].stock >= taken /\ prod' = [prod EXCEPT ![p] = Taken(prod[p], taken)]
        BY <1>5, <3>1 DEF RenewByRestart, CanTake
      <4>2. Taken(prod[p], taken) \in Product
        BY <1>1, <2>1, <4>1, ShelfType DEF TypeOK
      <4> QED BY <4>1, <4>2 DEF TypeOK
    <3>2. CASE ~(taken > 0)
      BY <1>5, <3>2 DEF RenewByRestart, TypeOK
    <3> QED BY <3>1, <3>2
  <2> QED BY <1>5, <2>2, <2>4, <2>5 DEF RenewByRestart, TypeOK, jobVars
<1> QED BY <1>4, <1>5

LEMMA PlaceOrderType ==
    ASSUME TypeOK, NEW o \in Orders, NEW p \in Products, NEW q \in 1..MaxOrderQuantity,
           NEW d \in Durations, PlaceOrder(o, p, q, d)
    PROVE  TypeOK'
<1>1. q \in Nat /\ d \in Nat /\ now + PayWindow \in Times /\ prod[p].unit \in Nat
  BY OrdersAssumption DEF TypeOK, Times, Product
<1>2. Taken(prod[p], q) \in Product
  BY <1>1, ShelfType DEF PlaceOrder, CanTake, TypeOK
<1>3. [status |-> "pending_payment", product |-> p, qty |-> q, reserved |-> q,
       dur |-> d, unit |-> prod[p].unit, payExp |-> now + PayWindow,
       start |-> None, end |-> None] \in Order
  BY <1>1 DEF Order, OrderStatus, Times
<1> QED BY <1>2, <1>3 DEF PlaceOrder, TypeOK, jobVars

\* The operator's freeze and the buyer's request for a refund change a status
\* and cancel unpaid renewals.
LEMMA StatusType ==
    ASSUME TypeOK, NEW o \in Orders, FreezeOrder(o) \/ RequestRefund(o)
    PROVE  TypeOK'
<1> DEFINE next == IF FreezeOrder(o) THEN "frozen" ELSE "refunding"
<1>1. \A S : \A status \in OrderStatus :
          [WithCancelled(S) EXCEPT ![o].status = status] \in [Orders -> Order]
  <2> TAKE S
  <2> TAKE status \in OrderStatus
  <2>1. WithCancelled(S) \in [Orders -> Order]
    BY WithCancelledType
  <2>2. [WithCancelled(S)[o] EXCEPT !.status = status] \in Order
    BY <2>1 DEF Order
  <2> QED BY <2>1, <2>2
<1>2. \A x : OpenRenewals(x) \in SUBSET Orders
  BY DEF OpenRenewals, Children
<1>3. ord[o].product \in Products
  BY DEF TypeOK, Order
<1>4. CASE FreezeOrder(o)
  <2> DEFINE open == IF IsRenewal(o) THEN {} ELSE OpenRenewals(o)
  <2>1. prod' = StockReturned(ord[o].product, open) /\ open \in SUBSET Orders
    BY <1>2, <1>4 DEF FreezeOrder
  <2>2. prod' \in [Products -> Product]
    BY <1>3, <2>1, StockReturnedType
  <2>3. ord' \in [Orders -> Order]
    BY <1>1, <1>4 DEF FreezeOrder, OrderStatus
  <2>4. dlv' \in [Orders -> Delivery]
    BY <1>4, AccessRevokedType DEF FreezeOrder
  <2> QED BY <1>4, <2>2, <2>3, <2>4 DEF FreezeOrder, TypeOK, jobVars
<1>5. CASE RequestRefund(o)
  <2> DEFINE open == OpenRenewals(IF IsRenewal(o) THEN ren[o].parent ELSE o)
  <2>1. prod' = StockReturned(ord[o].product, open) /\ open \in SUBSET Orders
    BY <1>2, <1>5 DEF RequestRefund
  <2>2. prod' \in [Products -> Product]
    BY <1>3, <2>1, StockReturnedType
  <2>3. ord' \in [Orders -> Order]
    BY <1>1, <1>5 DEF RequestRefund, OrderStatus
  <2> QED BY <1>5, <2>2, <2>3 DEF RequestRefund, TypeOK, jobVars
<1> QED BY <1>4, <1>5

LEMMA RefundType ==
    ASSUME TypeOK, NEW o \in Orders, CompleteRefund(o)
    PROVE  TypeOK'
<1> DEFINE par == ren[o].parent
<1>1. CASE CloseOrder(o, "refunded")
  BY <1>1, CloseOrderType DEF CompleteRefund, TypeOK, OrderStatus, jobVars
<1>2. ASSUME IsRenewal(o)
      PROVE  /\ par \in Orders
             /\ ren[o].oldEnd \in Times
             /\ ren[o].prevStart \in Times
             /\ OpenRenewals(par) \cup {o, par} \in SUBSET Orders
             /\ ord[o].product \in Products
             /\ WithCancelled(OpenRenewals(par)) \in [Orders -> Order]
             /\ Emptied(o, "refunded") \in Order
             /\ Emptied(par, "completed") \in Order
  <2>1. par \in Orders
    BY <1>2 DEF IsRenewal, TypeOK, Renewal
  <2>2. Emptied(o, "refunded") \in Order /\ Emptied(par, "completed") \in Order
    BY <2>1, EmptiedType DEF OrderStatus
  <2>3. WithCancelled(OpenRenewals(par)) \in [Orders -> Order]
    BY WithCancelledType
  <2> QED BY <2>1, <2>2, <2>3 DEF OpenRenewals, Children, TypeOK, Renewal, Order
<1>3. CASE IsRenewal(o) /\ RefundExtension(o)
  <2>1. prod' \in [Products -> Product]
    BY <1>2, <1>3, StockReturnedType DEF RefundExtension
  <2>2. [WithCancelled(OpenRenewals(par)) EXCEPT ![par].end = ren[o].oldEnd]
           \in [Orders -> Order]
    BY <1>2, <1>3 DEF Order
  <2>3. ord' \in [Orders -> Order]
    <3>1. ord' = [[WithCancelled(OpenRenewals(par)) EXCEPT ![par].end = ren[o].oldEnd]
                    EXCEPT ![o] = Emptied(o, "refunded")]
      BY <1>3 DEF RefundExtension
    <3> QED BY <1>2, <1>3, <2>2, <3>1
  <2>4. dlv' \in [Orders -> Delivery]
    BY <1>2, <1>3 DEF RefundExtension, AccessUntil, TypeOK, Delivery
  <2> QED BY <1>3, <2>1, <2>3, <2>4 DEF RefundExtension, CompleteRefund, TypeOK, jobVars
<1>4. CASE IsRenewal(o) /\ RefundRestart(o)
  <2>1. prod' \in [Products -> Product]
    BY <1>2, <1>4, StockReturnedType DEF RefundRestart
  <2>2. [Emptied(par, "completed") EXCEPT !.start = ren[o].prevStart,
                                          !.end = ren[o].oldEnd] \in Order
    BY <1>2, <1>4 DEF Order
  <2>3. ord' \in [Orders -> Order]
    BY <1>2, <1>4, <2>2 DEF RefundRestart
  <2>4. dlv' \in [Orders -> Delivery]
    BY <1>2, <1>4, AccessRevokedType DEF RefundRestart
  <2> QED BY <1>4, <2>1, <2>3, <2>4 DEF RefundRestart, CompleteRefund, TypeOK, jobVars
<1> QED BY <1>1, <1>3, <1>4 DEF CompleteRefund

LEMMA OrderStepType ==
    ASSUME TypeOK, NEW o \in Orders, OrderStep(o)
    PROVE  TypeOK'
<1>1. ASSUME NEW p \in Products, NEW q \in 1..MaxOrderQuantity, NEW d \in Durations,
             PlaceOrder(o, p, q, d)
      PROVE  TypeOK'
  BY <1>1, PlaceOrderType
<1>2. CASE PaymentArrives(o)
  BY <1>2, PaymentType
<1>3. ASSUME NEW lease \in Orders,
             DeliverWithAccess(o, lease) \/ ConfirmDelivery(o, lease)
      PROVE  TypeOK'
  BY <1>3, DeliveryType
<1>4. ASSUME NEW par \in Orders, NEW d \in Durations,
             RenewByExtension(o, par, d) \/ RenewByRestart(o, par, d)
      PROVE  TypeOK'
  BY <1>4, RenewType
<1>5. CASE CancelBuyerOrder(o) \/ AdminCancelOrder(o)
  <2>1. CloseOrder(o, "cancelled") /\ UNCHANGED <<now, jobVars, capacity>>
    BY <1>5 DEF CancelBuyerOrder, AdminCancelOrder
  <2> QED BY <2>1, CloseOrderType DEF TypeOK, OrderStatus, jobVars
<1>6. CASE FreezeOrder(o) \/ RequestRefund(o)
  BY <1>6, StatusType
<1>7. CASE CompleteRefund(o)
  BY <1>7, RefundType
<1> QED BY <1>1, <1>2, <1>3, <1>4, <1>5, <1>6, <1>7, OrderStep(o) DEF OrderStep, TradeStep

LEMMA JobStepType ==
    ASSUME TypeOK, JobStep
    PROVE  TypeOK'
<1>1. CASE RevokeExpiredAccess
  <2>1. \A o \in Orders : [dlv[o] EXCEPT !.access = "revoked"] \in Delivery
    BY DEF TypeOK, Delivery, AccessStatus
  <2> QED BY <1>1, <2>1 DEF RevokeExpiredAccess, TypeOK, JobSteps
<1>2. CASE ListExpiredUnpaid
  BY <1>2 DEF ListExpiredUnpaid, ExpiredUnpaid, TypeOK, JobSteps
<1>3. CASE ListExpiredLeases
  BY <1>3 DEF ListExpiredLeases, ExpiredLeases, TypeOK, JobSteps
<1>4. ASSUME NEW o \in todo, CloseExpiredUnpaid(o) \/ CompleteExpiredLease(o)
      PROVE  TypeOK'
  <2>1. o \in Orders /\ "cancelled" \in OrderStatus /\ "completed" \in OrderStatus
    BY DEF TypeOK, OrderStatus
  <2>2. \/ CloseOrder(o, "cancelled") \/ CloseOrder(o, "completed")
        \/ UNCHANGED <<prod, ord, ren, dlv>>
    BY <1>4 DEF CloseExpiredUnpaid, CompleteExpiredLease
  <2>3. /\ prod' \in [Products -> Product]
        /\ ord' \in [Orders -> Order]
        /\ ren' \in [Orders -> Renewal]
        /\ dlv' \in [Orders -> Delivery]
    BY <2>1, <2>2, CloseOrderType DEF TypeOK
  <2>4. todo' \subseteq Orders /\ UNCHANGED <<now, job, crashes, capacity>>
    BY <1>4 DEF CloseExpiredUnpaid, CompleteExpiredLease, TypeOK
  <2> QED BY <2>3, <2>4 DEF TypeOK
<1>5. CASE FinishRound
  BY <1>5 DEF FinishRound, TypeOK, JobSteps
<1> QED BY <1>1, <1>2, <1>3, <1>4, <1>5, JobStep DEF JobStep

LEMMA TypeInit == Init => TypeOK
<1> SUFFICES ASSUME Init PROVE TypeOK
  OBVIOUS
<1>1. prod \in [Products -> Product]
  BY DEF Init, Product, ProductStatus, Perpetual
<1>2. ord \in [Orders -> Order] /\ ren \in [Orders -> Renewal] /\ dlv \in [Orders -> Delivery]
  BY NoOrderType, NoRenewalType, NoDeliveryType DEF Init
<1> QED BY <1>1, <1>2 DEF Init, TypeOK, JobSteps

LEMMA TypeStep == TypeOK /\ [Next]_vars => TypeOK'
<1> SUFFICES ASSUME TypeOK, [Next]_vars PROVE TypeOK'
  OBVIOUS
<1>1. ASSUME NEW p \in Products, SupplierStep(p) PROVE TypeOK'
  BY <1>1, SupplierStepType
<1>2. ASSUME NEW s \in Suppliers, FreezeListings(s) PROVE TypeOK'
  BY <1>2, FreezeListingsType
<1>3. ASSUME NEW o \in Orders, OrderStep(o) PROVE TypeOK'
  BY <1>3, OrderStepType
<1>4. CASE JobStep
  BY <1>4, JobStepType
<1>5. CASE Crash
  BY <1>5 DEF Crash, TypeOK, JobSteps
<1>6. CASE Tick
  BY <1>6 DEF Tick, TypeOK, jobVars
<1>7. CASE UNCHANGED vars
  BY <1>7 DEF vars, TypeOK
<1> QED BY <1>1, <1>2, <1>3, <1>4, <1>5, <1>6, <1>7 DEF Next

\* Every reachable state is well-typed: in particular the stock of a product
\* never goes below zero, whoever takes units from the shelf.
THEOREM TypeCorrect == Spec => []TypeOK
BY TypeInit, TypeStep, PTL DEF Spec

-----------------------------------------------------------------------------
(* Counting units *)

\* Disjoint sets of orders hold the sum of what each holds.
LEMMA UnitsAdd ==
    ASSUME NEW orders, NEW S \in SUBSET Orders, NEW T \in SUBSET Orders, S \cap T = {}
    PROVE  Cardinality(UnitsOf(orders, S \cup T))
             = Cardinality(UnitsOf(orders, S)) + Cardinality(UnitsOf(orders, T))
<1> DEFINE A == UnitsOf(orders, S)
           B == UnitsOf(orders, T)
<1>1. UnitsOf(orders, S \cup T) = A \cup B
  BY DEF UnitsOf
<1>2. A \cap B = {}
  BY DEF UnitsOf
<1>3. /\ IsFiniteSet(A) /\ Cardinality(A) \in Nat
      /\ IsFiniteSet(B) /\ Cardinality(B) \in Nat
  BY UnitsAreFinite
<1> HIDE DEF A, B
<1>4. Cardinality(A \cup B) = Cardinality(A) + Cardinality(B) - Cardinality(A \cap B)
  BY <1>3, FS_Union
<1>5. Cardinality(A \cap B) = 0
  BY <1>2, FS_EmptySet
<1>6. Cardinality(A \cup B) = Cardinality(A) + Cardinality(B)
  BY <1>3, <1>4, <1>5
<1> QED BY <1>1, <1>6 DEF A, B

\* An order holds as many units as it has reserved.
LEMMA UnitsOfOne ==
    ASSUME NEW orders, NEW o \in Orders, orders[o].reserved \in 0..MaxOrderQuantity
    PROVE  Cardinality(UnitsOf(orders, {o})) = orders[o].reserved
<1> DEFINE n == orders[o].reserved
<1>1. n \in Nat /\ n <= MaxOrderQuantity
  BY OrdersAssumption
<1>2. UnitsOf(orders, {o}) = {o} \X (1..n)
  BY <1>1, OrdersAssumption DEF UnitsOf
<1> HIDE DEF n
<1>3. IsFiniteSet({o}) /\ Cardinality({o}) = 1
  BY FS_Singleton
<1>4. IsFiniteSet(1..n) /\ Cardinality(1..n) = n
  BY <1>1, FS_Interval
<1>5. Cardinality({o} \X (1..n)) = Cardinality({o}) * Cardinality(1..n)
  BY <1>3, <1>4, FS_Product
<1>6. Cardinality({o} \X (1..n)) = n
  BY <1>1, <1>3, <1>4, <1>5
<1> QED BY <1>2, <1>6 DEF n

\* What a set of orders holds depends on nothing but its reservations.
LEMMA UnitsSame ==
    ASSUME NEW before, NEW after, NEW S,
           \A o \in S : after[o].reserved = before[o].reserved
    PROVE  UnitsOf(after, S) = UnitsOf(before, S)
BY DEF UnitsOf

LEMMA UnitsNone ==
    ASSUME NEW orders, NEW S, \A o \in S : orders[o].reserved = 0
    PROVE  UnitsOf(orders, S) = {}
BY OrdersAssumption DEF UnitsOf

-----------------------------------------------------------------------------
(* Stock: how each kind of step keeps it *)

\* No order takes or gives back anything.
LEMMA StockKept ==
    ASSUME TypeOK, StockConserved, capacity' = capacity,
           \A p \in Products : prod'[p].stock = prod[p].stock,
           \A o \in Orders : /\ ord'[o].reserved = ord[o].reserved
                             /\ ord'[o].product = ord[o].product
                             /\ ord'[o].status = "none" <=> ord[o].status = "none"
    PROVE  StockConserved'
<1> SUFFICES ASSUME NEW p \in Products
             PROVE  prod'[p].stock + Cardinality(HeldUnits(OrdersOf(p))') = capacity'[p]
  BY DEF StockConserved
<1>1. OrdersOf(p)' = OrdersOf(p)
  BY DEF OrdersOf
<1>2. UnitsOf(ord', OrdersOf(p)) = UnitsOf(ord, OrdersOf(p))
  BY UnitsSame DEF OrdersOf
<1> QED BY <1>1, <1>2 DEF StockConserved, HeldUnits

\* The stock of p is counted; orders stay as they are.
LEMMA StockRecounted ==
    ASSUME TypeOK, StockConserved, NEW p \in Products, NEW n \in Nat, ord' = ord,
           capacity' = Recounted(p, n), prod'[p].stock = n,
           \A q \in Products \ {p} : prod'[q].stock = prod[q].stock
    PROVE  StockConserved'
<1> SUFFICES ASSUME NEW q \in Products
             PROVE  prod'[q].stock + Cardinality(HeldUnits(OrdersOf(q))') = capacity'[q]
  BY DEF StockConserved
<1>1. HeldUnits(OrdersOf(q))' = HeldUnits(OrdersOf(q))
  BY DEF HeldUnits, OrdersOf
<1> QED BY <1>1 DEF StockConserved, Recounted, TypeOK

\* The orders in S, all of product p, give back all they hold.
LEMMA StockGivenBack ==
    ASSUME TypeOK, StockConserved, capacity' = capacity,
           NEW p \in Products, NEW S \in SUBSET OrdersOf(p),
           prod' = StockReturned(p, S),
           \A o \in Orders : /\ ord'[o].product = ord[o].product
                             /\ ord'[o].status = "none" <=> ord[o].status = "none",
           \A o \in S : ord'[o].reserved = 0,
           \A o \in Orders \ S : ord'[o].reserved = ord[o].reserved
    PROVE  StockConserved'
<1> SUFFICES ASSUME NEW q \in Products
             PROVE  prod'[q].stock + Cardinality(HeldUnits(OrdersOf(q))') = capacity'[q]
  BY DEF StockConserved
<1>1. OrdersOf(q)' = OrdersOf(q) /\ OrdersOf(q) \in SUBSET Orders
  BY DEF OrdersOf
<1>2. CASE q # p
  <2>1. \A o \in OrdersOf(q) : ord'[o].reserved = ord[o].reserved
    BY <1>2 DEF OrdersOf
  <2>2. UnitsOf(ord', OrdersOf(q)) = UnitsOf(ord, OrdersOf(q))
    BY <2>1, UnitsSame
  <2>3. prod'[q] = prod[q]
    BY <1>2 DEF StockReturned, TypeOK
  <2> QED BY <1>1, <2>2, <2>3 DEF StockConserved, HeldUnits
<1>3. CASE q = p
  <2> DEFINE rest == OrdersOf(p) \ S
  <2>1. /\ S \in SUBSET Orders /\ rest \in SUBSET Orders
        /\ S \cap rest = {} /\ OrdersOf(p) = S \cup rest
    BY DEF OrdersOf
  <2>2. UnitsOf(ord', S) = {}
    BY UnitsNone
  <2>3. UnitsOf(ord', rest) = UnitsOf(ord, rest)
    BY <2>1, UnitsSame
  <2> HIDE DEF rest
  <2>4. Cardinality(UnitsOf(ord, OrdersOf(p)))
          = Cardinality(UnitsOf(ord, S)) + Cardinality(UnitsOf(ord, rest))
    BY <2>1, UnitsAdd
  <2>5. Cardinality(UnitsOf(ord', OrdersOf(p)))
          = Cardinality(UnitsOf(ord', S)) + Cardinality(UnitsOf(ord', rest))
    BY <2>1, UnitsAdd
  <2>6. /\ Cardinality(UnitsOf(ord, S)) \in Nat
        /\ Cardinality(UnitsOf(ord, rest)) \in Nat
    BY <2>1, UnitsAreFinite
  <2>7. prod'[p].stock = prod[p].stock + Cardinality(UnitsOf(ord, S))
    BY DEF StockReturned, Returned, HeldUnits, TypeOK, Product
  <2>8. prod[p].stock \in Nat
    BY DEF TypeOK, Product
  <2>9. prod[p].stock + Cardinality(UnitsOf(ord, OrdersOf(p))) = capacity[p]
    BY DEF StockConserved, HeldUnits
  <2>10. Cardinality(UnitsOf(ord', OrdersOf(p))) = Cardinality(UnitsOf(ord, rest))
    BY <2>2, <2>3, <2>5, <2>6, FS_EmptySet
  <2>11. prod'[p].stock + Cardinality(UnitsOf(ord', OrdersOf(p))) = capacity[p]
    BY <2>4, <2>6, <2>7, <2>8, <2>9, <2>10
  <2> QED BY <1>1, <1>3, <2>11 DEF HeldUnits
<1> QED BY <1>2, <1>3

\* A new order o of product p takes n units off the shelf.
LEMMA StockTaken ==
    ASSUME TypeOK, StockConserved, capacity' = capacity,
           NEW p \in Products, NEW o \in Orders, NEW n \in 0..MaxOrderQuantity,
           ord[o].status = "none",
           prod'[p].stock = prod[p].stock - n,
           \A q \in Products \ {p} : prod'[q].stock = prod[q].stock,
           ord'[o].status # "none", ord'[o].product = p, ord'[o].reserved = n,
           \A x \in Orders \ {o} : ord'[x] = ord[x]
    PROVE  StockConserved'
<1> SUFFICES ASSUME NEW q \in Products
             PROVE  prod'[q].stock + Cardinality(HeldUnits(OrdersOf(q))') = capacity'[q]
  BY DEF StockConserved
<1>1. o \notin OrdersOf(q) /\ OrdersOf(q) \in SUBSET Orders
  BY DEF OrdersOf
<1>2. UnitsOf(ord', OrdersOf(q)) = UnitsOf(ord, OrdersOf(q))
  BY <1>1, UnitsSame
<1>3. prod[q].stock + Cardinality(UnitsOf(ord, OrdersOf(q))) = capacity[q]
  BY DEF StockConserved, HeldUnits
<1>4. CASE q # p
  <2>1. OrdersOf(q)' = OrdersOf(q)
    BY <1>4 DEF OrdersOf
  <2> QED BY <1>2, <1>3, <1>4, <2>1 DEF HeldUnits
<1>5. CASE q = p
  <2>1. OrdersOf(q)' = OrdersOf(q) \cup {o}
    BY <1>5 DEF OrdersOf
  <2>2. Cardinality(UnitsOf(ord', OrdersOf(q) \cup {o}))
          = Cardinality(UnitsOf(ord', OrdersOf(q))) + Cardinality(UnitsOf(ord', {o}))
    BY <1>1, UnitsAdd
  <2>3. Cardinality(UnitsOf(ord', {o})) = n
    BY UnitsOfOne
  <2>4. Cardinality(UnitsOf(ord, OrdersOf(q))) \in Nat /\ n \in Nat /\ prod[q].stock \in Nat
    BY <1>1, UnitsAreFinite, OrdersAssumption DEF TypeOK, Product
  <2>5. prod'[q].stock = prod[q].stock - n
    BY <1>5
  <2> QED BY <1>2, <1>3, <2>1, <2>2, <2>3, <2>4, <2>5 DEF HeldUnits
<1> QED BY <1>4, <1>5

-----------------------------------------------------------------------------
(* The inductive invariant of stock.  Conservation alone is not inductive:  *)
(* giving a renewal back on its lease needs both to be of one product, and  *)
(* counting units needs reservations that fit the index of a unit.          *)

StockInv == TypeOK /\ FamiliesAreFlat /\ StockConserved

\* A step that founds no order and moves no renewal keeps families flat.
LEMMA FamiliesKept ==
    ASSUME TypeOK, FamiliesAreFlat,
           \A o \in Orders : /\ ord'[o].product = ord[o].product
                             /\ ord'[o].qty = ord[o].qty
                             /\ ord'[o].status = "none" <=> ord[o].status = "none"
                             /\ ord'[o].reserved \in {0, ord[o].reserved, ord[o].qty}
                             /\ ord'[o].status = "none" => ord'[o].reserved = ord[o].reserved
                             /\ ren'[o].parent = ren[o].parent
    PROVE  FamiliesAreFlat'
<1> SUFFICES ASSUME NEW o \in Orders
             PROVE  /\ ord'[o].qty <= MaxOrderQuantity
                    /\ ord'[o].reserved <= MaxOrderQuantity
                    /\ ord'[o].status = "none" => ord'[o].reserved = 0 /\ ~IsRenewal(o)'
                    /\ IsRenewal(o)' => /\ ren'[o].parent # o
                                        /\ ~IsRenewal(ren[o].parent)'
                                        /\ ord'[ren[o].parent].status # "none"
                                        /\ ord'[ren[o].parent].product = ord'[o].product
  BY DEF FamiliesAreFlat
<1>1. ord'[o].qty <= MaxOrderQuantity /\ ord'[o].reserved <= MaxOrderQuantity
  BY OrdersAssumption DEF FamiliesAreFlat
<1>2. ord'[o].status = "none" => ord'[o].reserved = 0 /\ ~IsRenewal(o)'
  BY DEF FamiliesAreFlat, IsRenewal
<1>3. ASSUME IsRenewal(o)'
      PROVE  /\ ren'[o].parent # o
             /\ ~IsRenewal(ren[o].parent)'
             /\ ord'[ren[o].parent].status # "none"
             /\ ord'[ren[o].parent].product = ord'[o].product
  <2>1. ren[o].parent \in Orders /\ IsRenewal(o)
    BY <1>3 DEF IsRenewal, TypeOK, Renewal
  <2> QED BY <2>1 DEF FamiliesAreFlat, IsRenewal
<1> QED BY <1>1, <1>2, <1>3

\* A family shares its product.
LEMMA OpenRenewalsShareProduct ==
    ASSUME TypeOK, FamiliesAreFlat, NEW o \in Orders
    PROVE  OpenRenewals(o) \in SUBSET OrdersOf(ord[o].product) /\ o \notin OpenRenewals(o)
<1> SUFFICES ASSUME NEW c \in OpenRenewals(o)
             PROVE  c \in OrdersOf(ord[o].product) /\ c # o
  OBVIOUS
<1>1. c \in Orders /\ ren[c].parent = o /\ ord[c].status = "pending_payment"
  BY DEF OpenRenewals, Children
<1>2. IsRenewal(c)
  BY <1>1 DEF IsRenewal, Orders
<1> QED BY <1>1, <1>2 DEF FamiliesAreFlat, OrdersOf

\* What WithCancelled leaves alone, and what it empties.
LEMMA WithCancelledFacts ==
    ASSUME TypeOK, NEW S, NEW o \in Orders
    PROVE  /\ WithCancelled(S)[o] \in Order
           /\ WithCancelled(S)[o].product = ord[o].product
           /\ WithCancelled(S)[o].qty = ord[o].qty
           /\ o \in S => /\ WithCancelled(S)[o].status = "cancelled"
                         /\ WithCancelled(S)[o].reserved = 0
           /\ o \notin S => WithCancelled(S)[o] = ord[o]
<1>1. ord[o] \in Order
  BY DEF TypeOK
<1> QED BY <1>1, WithCancelledType, ZenonT(40) DEF WithCancelled, Emptied, Order

LEMMA EmptiedFacts ==
    ASSUME TypeOK, NEW o \in Orders, NEW status
    PROVE  /\ Emptied(o, status).product = ord[o].product
           /\ Emptied(o, status).qty = ord[o].qty
           /\ Emptied(o, status).status = status
           /\ Emptied(o, status).reserved = 0
BY DEF Emptied, TypeOK, Order

LEMMA CloseOrderKeepsStock ==
    ASSUME StockInv, NEW o \in Orders, NEW status \in OrderStatus \ {"none"},
           ord[o].status # "none", CloseOrder(o, status), capacity' = capacity
    PROVE  FamiliesAreFlat' /\ StockConserved'
<1> DEFINE open == IF IsRenewal(o) THEN {} ELSE OpenRenewals(o)
           p == ord[o].product
<1>1. /\ prod' = StockReturned(p, open \cup {o})
      /\ ord' = [WithCancelled(open) EXCEPT ![o] = Emptied(o, status)]
      /\ ren' = ren
  BY DEF CloseOrder
<1>2. p \in Products /\ open \cup {o} \in SUBSET OrdersOf(p)
  BY OpenRenewalsShareProduct DEF StockInv, TypeOK, Order, OrdersOf
<1> HIDE DEF open, p
<1>3. ord' \in [Orders -> Order] /\ WithCancelled(open) \in [Orders -> Order]
  BY <1>1, WithCancelledType, EmptiedType DEF StockInv
<1>4. ord'[o] = Emptied(o, status)
  BY <1>1, <1>3
<1>5. \A x \in Orders \ {o} : ord'[x] = WithCancelled(open)[x]
  BY <1>1, <1>3
<1>6. \A x \in Orders :
         /\ ord'[x].product = ord[x].product
         /\ ord'[x].qty = ord[x].qty
         /\ x \in open \cup {o} => ord'[x].reserved = 0 /\ ord'[x].status # "none"
         /\ x \notin open \cup {o} => ord'[x] = ord[x]
  BY <1>4, <1>5, EmptiedFacts, WithCancelledFacts DEF StockInv
<1>7. \A x \in open \cup {o} : ord[x].status # "none"
  BY <1>2 DEF OrdersOf
<1>8. StockConserved'
  BY <1>1, <1>2, <1>6, <1>7, StockGivenBack DEF StockInv, OrdersOf
<1>9. FamiliesAreFlat'
  BY <1>1, <1>6, <1>7, FamiliesKept DEF StockInv
<1> QED BY <1>8, <1>9

\* Freezing an order and asking for a refund: the units of unpaid renewals go
\* back, those of the order stay with it.
LEMMA StatusKeepsStock ==
    ASSUME StockInv, NEW o \in Orders, FreezeOrder(o) \/ RequestRefund(o)
    PROVE  FamiliesAreFlat' /\ StockConserved'
<1> DEFINE p == ord[o].product
<1>1. PICK open \in SUBSET OrdersOf(p), status \in {"frozen", "refunding"} :
         /\ o \notin open
         /\ ord[o].status # "none"
         /\ prod' = StockReturned(p, open)
         /\ ord' = [WithCancelled(open) EXCEPT ![o].status = status]
         /\ ren' = ren /\ capacity' = capacity
  <2>1. CASE FreezeOrder(o)
    <3> DEFINE open == IF IsRenewal(o) THEN {} ELSE OpenRenewals(o)
    <3>1. open \in SUBSET OrdersOf(p) /\ o \notin open
      BY OpenRenewalsShareProduct DEF StockInv
    <3> QED BY <2>1, <3>1 DEF FreezeOrder
  <2>2. CASE RequestRefund(o)
    <3> DEFINE par == IF IsRenewal(o) THEN ren[o].parent ELSE o
               open == OpenRenewals(par)
    <3>1. par \in Orders /\ ord[par].product = p
      BY DEF StockInv, FamiliesAreFlat, IsRenewal, TypeOK, Renewal
    <3>2. open \in SUBSET OrdersOf(p)
      BY <3>1, OpenRenewalsShareProduct DEF StockInv
    <3>3. o \notin open
      BY <2>2 DEF RequestRefund, OpenRenewals
    <3>4. ord[o].status # "none"
      BY <2>2 DEF RequestRefund
    <3>5. /\ prod' = StockReturned(p, open)
          /\ ord' = [WithCancelled(open) EXCEPT ![o].status = "refunding"]
          /\ ren' = ren /\ capacity' = capacity
      BY <2>2 DEF RequestRefund
    <3> QED BY <3>2, <3>3, <3>4, <3>5
  <2> QED BY <2>1, <2>2
<1>2. p \in Products
  BY DEF StockInv, TypeOK, Order
<1> HIDE DEF p
<1>3. WithCancelled(open) \in [Orders -> Order]
  BY WithCancelledType DEF StockInv
<1>4. ord'[o] = [ord[o] EXCEPT !.status = status]
  BY <1>1, <1>3, WithCancelledFacts DEF StockInv
<1>5. \A x \in Orders \ {o} : ord'[x] = WithCancelled(open)[x]
  BY <1>1, <1>3
<1>6. \A x \in Orders :
         /\ ord'[x].product = ord[x].product
         /\ ord'[x].qty = ord[x].qty
         /\ ord'[x].status = "none" <=> ord[x].status = "none"
         /\ x \in open => ord'[x].reserved = 0
         /\ x \notin open => ord'[x].reserved = ord[x].reserved
  <2>1. ord[o] \in Order
    BY DEF StockInv, TypeOK
  <2>2. /\ ord'[o].product = ord[o].product /\ ord'[o].qty = ord[o].qty
        /\ ord'[o].status # "none" /\ ord'[o].reserved = ord[o].reserved
    BY <1>1, <1>4, <2>1 DEF Order
  <2>3. \A x \in open : ord[x].status # "none"
    BY DEF OrdersOf
  <2> QED BY <1>1, <1>5, <2>2, <2>3, WithCancelledFacts DEF StockInv
<1>7. StockConserved'
  <2>1. TypeOK /\ StockConserved /\ capacity' = capacity /\ prod' = StockReturned(p, open)
    BY <1>1 DEF StockInv
  <2>2. \A x \in Orders \ open : ord'[x].reserved = ord[x].reserved
    BY <1>6
  <2>3. \A x \in open : ord'[x].reserved = 0
    BY <1>6 DEF OrdersOf
  <2>4. \A x \in Orders : /\ ord'[x].product = ord[x].product
                          /\ ord'[x].status = "none" <=> ord[x].status = "none"
    BY <1>6
  <2>5. open \in SUBSET OrdersOf(p)
    BY <1>1
  <2> HIDE <1>1, <1>6
  <2> QED BY <1>2, <2>1, <2>2, <2>3, <2>4, <2>5, StockGivenBack
<1>8. FamiliesAreFlat'
  <2>1. \A x \in open : ord[x].status # "none"
    BY DEF OrdersOf
  <2> QED BY <1>1, <1>6, <2>1, FamiliesKept DEF StockInv
<1> QED BY <1>7, <1>8

LEMMA RefundKeepsStock ==
    ASSUME StockInv, NEW c \in Orders, IsRenewal(c), capacity' = capacity,
           RefundExtension(c) \/ RefundRestart(c)
    PROVE  FamiliesAreFlat' /\ StockConserved'
<1> DEFINE par == ren[c].parent
           p == ord[c].product
           open == OpenRenewals(par)
<1>1. /\ par \in Orders /\ par # c /\ p \in Products
      /\ ord[par].product = p
      /\ ord[par].status # "none" /\ ord[c].status # "none"
  BY DEF StockInv, FamiliesAreFlat, IsRenewal, TypeOK, Renewal, Order
<1>2. open \in SUBSET OrdersOf(p) /\ par \notin open
  BY <1>1, OpenRenewalsShareProduct DEF StockInv
<1>3. open \cup {c, par} \in SUBSET OrdersOf(p)
  BY <1>1, <1>2 DEF OrdersOf
<1>4. WithCancelled(open) \in [Orders -> Order]
  BY WithCancelledType DEF StockInv
<1>5. ren' = ren
  BY DEF RefundExtension, RefundRestart
<1>6. PICK S \in SUBSET OrdersOf(p) :
         /\ prod' = StockReturned(p, S)
         /\ \A x \in Orders :
              /\ ord'[x].product = ord[x].product
              /\ ord'[x].qty = ord[x].qty
              /\ ord'[x].status = "none" <=> ord[x].status = "none"
              /\ x \in S => ord'[x].reserved = 0
              /\ x \notin S => ord'[x].reserved = ord[x].reserved
  <2>1. \A x \in open : ord[x].status # "none"
    BY <1>2 DEF OrdersOf
  <2> HIDE DEF par, p, open
  <2>2. CASE RefundExtension(c)
    <3>1. /\ prod' = StockReturned(p, open \cup {c})
          /\ ord' = [[WithCancelled(open) EXCEPT ![par].end = ren[c].oldEnd]
                       EXCEPT ![c] = Emptied(c, "refunded")]
      BY <2>2 DEF RefundExtension, par, p, open
    <3>2. ord'[c] = Emptied(c, "refunded")
      BY <1>4, <3>1
    <3>3. ord'[par] = [WithCancelled(open)[par] EXCEPT !.end = ren[c].oldEnd]
      BY <1>1, <1>4, <3>1
    <3>4. \A x \in Orders \ {c, par} : ord'[x] = WithCancelled(open)[x]
      BY <1>1, <1>4, <3>1
    <3>5. /\ ord'[par].product = ord[par].product /\ ord'[par].qty = ord[par].qty
          /\ ord'[par].status = ord[par].status /\ ord'[par].reserved = ord[par].reserved
      BY <1>1, <1>2, <3>3, WithCancelledFacts DEF StockInv, Order
    <3>6. /\ ord'[c].product = ord[c].product /\ ord'[c].qty = ord[c].qty
          /\ ord'[c].status = "refunded" /\ ord'[c].reserved = 0
      BY <3>2, EmptiedFacts DEF StockInv
    <3>7. open \cup {c} \in SUBSET OrdersOf(p)
      BY <1>3
    <3>8. \A x \in Orders :
            /\ ord'[x].product = ord[x].product
            /\ ord'[x].qty = ord[x].qty
            /\ ord'[x].status = "none" <=> ord[x].status = "none"
            /\ x \in open \cup {c} => ord'[x].reserved = 0
            /\ x \notin open \cup {c} => ord'[x].reserved = ord[x].reserved
      BY <1>1, <1>2, <2>1, <3>4, <3>5, <3>6, WithCancelledFacts DEF StockInv
    <3> QED BY <3>1, <3>7, <3>8
  <2>3. CASE RefundRestart(c)
    <3> DEFINE row == [Emptied(par, "completed") EXCEPT !.start = ren[c].prevStart,
                                                        !.end = ren[c].oldEnd]
    <3>1. /\ prod' = StockReturned(p, open \cup {c, par})
          /\ ord' = [[WithCancelled(open) EXCEPT ![par] = row]
                       EXCEPT ![c] = Emptied(c, "refunded")]
      BY <2>3 DEF RefundRestart, par, p, open
    <3>2. ord'[c] = Emptied(c, "refunded")
      BY <1>4, <3>1
    <3>3. ord'[par] = row
      BY <1>1, <1>4, <3>1
    <3>4. \A x \in Orders \ {c, par} : ord'[x] = WithCancelled(open)[x]
      BY <1>1, <1>4, <3>1
    <3>5. /\ ord'[par].product = ord[par].product /\ ord'[par].qty = ord[par].qty
          /\ ord'[par].status = "completed" /\ ord'[par].reserved = 0
      <4>1. Emptied(par, "completed") \in Order
        BY <1>1, EmptiedType DEF StockInv, OrderStatus
      <4> QED BY <1>1, <3>3, <4>1, EmptiedFacts DEF StockInv, Order
    <3>6. /\ ord'[c].product = ord[c].product /\ ord'[c].qty = ord[c].qty
          /\ ord'[c].status = "refunded" /\ ord'[c].reserved = 0
      BY <3>2, EmptiedFacts DEF StockInv
    <3>7. \A x \in Orders :
            /\ ord'[x].product = ord[x].product
            /\ ord'[x].qty = ord[x].qty
            /\ ord'[x].status = "none" <=> ord[x].status = "none"
            /\ x \in open \cup {c, par} => ord'[x].reserved = 0
            /\ x \notin open \cup {c, par} => ord'[x].reserved = ord[x].reserved
      BY <1>1, <1>2, <2>1, <3>4, <3>5, <3>6, WithCancelledFacts DEF StockInv
    <3> QED BY <1>3, <3>1, <3>7
  <2> QED BY <2>2, <2>3
<1> HIDE DEF par, p, open
<1>7. StockConserved'
  <2>1. TypeOK /\ StockConserved /\ prod' = StockReturned(p, S)
    BY <1>6 DEF StockInv
  <2>2. \A x \in Orders \ S : ord'[x].reserved = ord[x].reserved
    BY <1>6
  <2>3. \A x \in S : ord'[x].reserved = 0
    BY <1>6 DEF OrdersOf
  <2>4. \A x \in Orders : /\ ord'[x].product = ord[x].product
                          /\ ord'[x].status = "none" <=> ord[x].status = "none"
    BY <1>6
  <2>5. S \in SUBSET OrdersOf(p) /\ p \in Products
    BY <1>1
  <2> HIDE <1>6
  <2> QED BY <2>1, <2>2, <2>3, <2>4, <2>5, StockGivenBack
<1>8. FamiliesAreFlat'
  <2>1. \A x \in S : ord[x].status # "none"
    BY DEF OrdersOf
  <2> QED BY <1>5, <1>6, <2>1, FamiliesKept DEF StockInv
<1> QED BY <1>7, <1>8

\* A paid restart hands the units its renewal holds to the lease.
LEMMA PaymentKeepsStock ==
    ASSUME StockInv, TypeOK', NEW c \in Orders, PaymentArrives(c)
    PROVE  FamiliesAreFlat' /\ StockConserved'
<1> USE DEF StockInv
<1>1. CASE ConfirmPayment(c)
  <2>1. \A x \in Orders :
          /\ ord'[x].product = ord[x].product
          /\ ord'[x].qty = ord[x].qty
          /\ ord'[x].status = "none" <=> ord[x].status = "none"
          /\ ord'[x].reserved = ord[x].reserved
    BY <1>1 DEF ConfirmPayment, TypeOK, Order
  <2>2. prod' = prod /\ ren' = ren /\ capacity' = capacity
    BY <1>1 DEF ConfirmPayment, PaymentArrives
  <2> QED BY <2>1, <2>2, StockKept, FamiliesKept
<1> DEFINE par == ren[c].parent
<1>2. ASSUME IsRenewal(c)
      PROVE  /\ par \in Orders /\ par # c
             /\ ord[par].product = ord[c].product /\ ord[par].status # "none"
             /\ ord[c] \in Order /\ ord[par] \in Order
  BY <1>2 DEF FamiliesAreFlat, IsRenewal, TypeOK, Renewal
<1>3. CASE ApplyExtension(c)
  <2>1. /\ IsRenewal(c) /\ ord[c].status = "pending_payment"
        /\ ord[c].reserved = 0
        /\ prod' = prod /\ capacity' = capacity
    BY <1>3 DEF ApplyExtension, ValidRenewalPayment, PaymentArrives
  <2>2. \A x \in Orders : ren'[x].parent = ren[x].parent
    BY <1>3 DEF ApplyExtension, TypeOK, Renewal
  <2>3. /\ ord'[c] = [ord[c] EXCEPT !.status = "completed", !.reserved = 0,
                                    !.start = ren[c].oldEnd, !.end = ren[c].until]
        /\ ord'[par] = [ord[par] EXCEPT !.end = ren[c].until]
        /\ \A x \in Orders \ {c, par} : ord'[x] = ord[x]
    BY <1>2, <1>3, <2>1 DEF ApplyExtension, TypeOK
  <2> HIDE DEF par
  <2>c. /\ ord'[c].product = ord[c].product /\ ord'[c].qty = ord[c].qty
        /\ ord'[c].status = "completed" /\ ord'[c].reserved = ord[c].reserved
    BY <1>2, <2>1, <2>3 DEF Order
  <2>p. /\ ord'[par].product = ord[par].product /\ ord'[par].qty = ord[par].qty
        /\ ord'[par].status = ord[par].status /\ ord'[par].reserved = ord[par].reserved
    BY <1>2, <2>1, <2>3 DEF Order
  <2>4. \A x \in Orders :
          /\ ord'[x].product = ord[x].product
          /\ ord'[x].qty = ord[x].qty
          /\ ord'[x].status = "none" <=> ord[x].status = "none"
          /\ ord'[x].reserved = ord[x].reserved
    BY <2>1, <2>3, <2>c, <2>p, ZenonT(40)
  <2> QED BY <2>1, <2>2, <2>4, StockKept, FamiliesKept
<1>4. CASE ApplyRestart(c)
  <2>1. /\ IsRenewal(c) /\ ord[c].status = "pending_payment"
        /\ ren[c].mode = "restart"
        /\ ord[par].qty = ord[c].qty
        /\ ord[par].reserved + ord[c].reserved = ord[c].qty
        /\ prod' = prod /\ capacity' = capacity
    BY <1>4 DEF ApplyRestart, ValidRenewalPayment, PaymentArrives
  <2>2. \A x \in Orders : ren'[x].parent = ren[x].parent
    BY <1>4 DEF ApplyRestart, TypeOK, Renewal
  <2>3. /\ ord'[c] = [ord[c] EXCEPT !.status = "completed", !.reserved = 0,
                                    !.start = None, !.end = None]
        /\ ord'[par] = [ord[par] EXCEPT !.status = "paid", !.reserved = ord[c].qty,
                                        !.start = None, !.end = None]
        /\ \A x \in Orders \ {c, par} : ord'[x] = ord[x]
    BY <1>2, <1>4, <2>1 DEF ApplyRestart, TypeOK
  <2> HIDE DEF par
  <2>c. /\ ord'[c].product = ord[c].product /\ ord'[c].qty = ord[c].qty
        /\ ord'[c].status = "completed" /\ ord'[c].reserved = 0
    BY <1>2, <2>1, <2>3 DEF Order
  <2>p. /\ ord'[par].product = ord[par].product /\ ord'[par].qty = ord[par].qty
        /\ ord'[par].status = "paid" /\ ord'[par].reserved = ord[par].qty
    BY <1>2, <2>1, <2>3 DEF Order
  <2>4. \A x \in Orders :
          /\ ord'[x].product = ord[x].product
          /\ ord'[x].qty = ord[x].qty
          /\ ord'[x].status = "none" <=> ord[x].status = "none"
          /\ x \notin {c, par} => ord'[x].reserved = ord[x].reserved
    <3>1. ord[c].status # "none" /\ ord[par].status # "none"
      BY <1>2, <2>1
    <3>2. \A x \in Orders \ {c, par} : ord'[x] = ord[x]
      BY <2>3
    <3> HIDE <2>1, <2>3
    <3> QED BY <2>c, <2>p, <3>1, <3>2
  <2>5. ord'[c].reserved = 0 /\ ord'[par].reserved = ord[par].qty
    BY <2>c, <2>p
  <2>6. FamiliesAreFlat'
    BY <1>2, <2>1, <2>2, <2>4, <2>5, FamiliesKept
  <2>7. StockConserved'
    <3> SUFFICES ASSUME NEW p \in Products
                 PROVE  Cardinality(HeldUnits(OrdersOf(p))') = Cardinality(HeldUnits(OrdersOf(p)))
      BY <2>1 DEF StockConserved
    <3>1. OrdersOf(p)' = OrdersOf(p) /\ OrdersOf(p) \in SUBSET Orders
      BY <2>4 DEF OrdersOf
    <3>2. CASE p # ord[c].product
      <4>1. \A x \in OrdersOf(p) : ord'[x].reserved = ord[x].reserved
        BY <1>2, <2>1, <2>4, <3>2 DEF OrdersOf
      <4>2. UnitsOf(ord', OrdersOf(p)) = UnitsOf(ord, OrdersOf(p))
        BY <4>1, UnitsSame
      <4> QED BY <3>1, <4>2 DEF HeldUnits
    <3>3. CASE p = ord[c].product
      <4> DEFINE rest == OrdersOf(p) \ {c, par}
      <4>1. /\ {c} \in SUBSET Orders /\ {par} \in SUBSET Orders
            /\ {c, par} \in SUBSET Orders /\ rest \in SUBSET Orders
            /\ {c, par} = {c} \cup {par} /\ {c} \cap {par} = {}
            /\ OrdersOf(p) = {c, par} \cup rest /\ {c, par} \cap rest = {}
        BY <1>2, <2>1, <3>1, <3>3 DEF OrdersOf
      <4>2. UnitsOf(ord', rest) = UnitsOf(ord, rest)
        BY <2>4, <4>1, UnitsSame
      <4> HIDE DEF rest
      <4>3. \A orders : Cardinality(UnitsOf(orders, OrdersOf(p)))
                = Cardinality(UnitsOf(orders, {c})) + Cardinality(UnitsOf(orders, {par}))
                    + Cardinality(UnitsOf(orders, rest))
        <5> TAKE orders
        <5>1. Cardinality(UnitsOf(orders, {c} \cup {par}))
                = Cardinality(UnitsOf(orders, {c})) + Cardinality(UnitsOf(orders, {par}))
          BY <4>1, UnitsAdd
        <5>2. Cardinality(UnitsOf(orders, {c, par} \cup rest))
                = Cardinality(UnitsOf(orders, {c, par})) + Cardinality(UnitsOf(orders, rest))
          BY <4>1, UnitsAdd
        <5> QED BY <4>1, <5>1, <5>2
      <4>4. /\ ord[c].reserved \in 0..MaxOrderQuantity
            /\ ord[par].reserved \in 0..MaxOrderQuantity
            /\ ord'[c].reserved \in 0..MaxOrderQuantity
            /\ ord'[par].reserved \in 0..MaxOrderQuantity
        BY <1>2, <2>1, <2>6, OrdersAssumption DEF FamiliesAreFlat, TypeOK, Order
      <4>5. /\ Cardinality(UnitsOf(ord, {c})) = ord[c].reserved
            /\ Cardinality(UnitsOf(ord, {par})) = ord[par].reserved
            /\ Cardinality(UnitsOf(ord', {c})) = ord'[c].reserved
            /\ Cardinality(UnitsOf(ord', {par})) = ord'[par].reserved
        BY <1>2, <2>1, <4>4, UnitsOfOne
      <4>6. Cardinality(UnitsOf(ord, rest)) \in Nat
        BY <4>1, UnitsAreFinite
      <4>7. Cardinality(UnitsOf(ord', OrdersOf(p))) = Cardinality(UnitsOf(ord, OrdersOf(p)))
        BY <2>1, <2>5, <4>2, <4>3, <4>4, <4>5, <4>6
      <4> QED BY <3>1, <4>7 DEF HeldUnits
    <3> QED BY <3>2, <3>3
  <2> QED BY <2>6, <2>7
<1> QED BY <1>1, <1>3, <1>4 DEF PaymentArrives

\* Delivering and signing for a delivery move no units.
LEMMA DeliveryKeepsStock ==
    ASSUME StockInv, NEW o \in Orders, NEW lease \in Orders,
           DeliverWithAccess(o, lease) \/ ConfirmDelivery(o, lease)
    PROVE  FamiliesAreFlat' /\ StockConserved'
<1> USE DEF StockInv
<1>1. prod' = prod /\ capacity' = capacity
  BY DEF DeliverWithAccess, ConfirmDelivery
<1>2. \A x \in Orders : ren'[x].parent = ren[x].parent
  BY DEF DeliverWithAccess, ConfirmDelivery, TypeOK, Renewal
<1>3. \A x \in Orders :
         /\ ord'[x].product = ord[x].product
         /\ ord'[x].qty = ord[x].qty
         /\ ord'[x].status = "none" <=> ord[x].status = "none"
         /\ ord'[x].reserved = ord[x].reserved
  <2>1. CASE DeliverWithAccess(o, lease)
    BY <2>1 DEF DeliverWithAccess, TypeOK, Order
  <2>2. CASE ConfirmDelivery(o, lease)
    <3> SUFFICES ASSUME NEW x \in Orders
                 PROVE  /\ ord'[x].product = ord[x].product
                        /\ ord'[x].qty = ord[x].qty
                        /\ ord'[x].status = "none" <=> ord[x].status = "none"
                        /\ ord'[x].reserved = ord[x].reserved
      OBVIOUS
    <3>1. ord[x] \in Order
      BY DEF TypeOK
    <3>2. CASE x = o
      BY <2>2, <3>1, <3>2 DEF ConfirmDelivery, Order
    <3>3. CASE x # o
      BY <2>2, <3>1, <3>3 DEF ConfirmDelivery, Order
    <3> QED BY <3>2, <3>3
  <2> QED BY <2>1, <2>2
<1> QED BY <1>1, <1>2, <1>3, StockKept, FamiliesKept

\* A new order that is well-formed, and whose lease is when it is a renewal.
LEMMA FamiliesGrow ==
    ASSUME TypeOK, FamiliesAreFlat, NEW o \in Orders, ord[o].status = "none",
           \A x \in Orders \ {o} : ord'[x] = ord[x] /\ ren'[x].parent = ren[x].parent,
           ord'[o].status # "none",
           ord'[o].qty <= MaxOrderQuantity, ord'[o].reserved <= MaxOrderQuantity,
           \/ ren'[o].parent = 0
           \/ /\ ren'[o].parent \in Orders \ {o}
              /\ ren[ren'[o].parent].parent = 0
              /\ ord[ren'[o].parent].status # "none"
              /\ ord[ren'[o].parent].product = ord'[o].product
    PROVE  FamiliesAreFlat'
<1> DEFINE Sound(x) == /\ ord'[x].qty <= MaxOrderQuantity
                       /\ ord'[x].reserved <= MaxOrderQuantity
                       /\ ord'[x].status = "none" => ord'[x].reserved = 0 /\ ren'[x].parent = 0
                       /\ ren'[x].parent # 0 => /\ ren'[x].parent # x
                                               /\ ren'[ren'[x].parent].parent = 0
                                               /\ ord'[ren'[x].parent].status # "none"
                                               /\ ord'[ren'[x].parent].product = ord'[x].product
<1>1. Sound(o)
  OBVIOUS
<1>2. ASSUME NEW x \in Orders \ {o} PROVE Sound(x)
  <2>1. ord'[x] = ord[x] /\ ren'[x].parent = ren[x].parent
    OBVIOUS
  <2>2. ASSUME ren[x].parent # 0
        PROVE  /\ ren[x].parent \in Orders \ {o} /\ ren[x].parent # x
               /\ ren[ren[x].parent].parent = 0
               /\ ord[ren[x].parent].status # "none"
               /\ ord[ren[x].parent].product = ord[x].product
    BY <2>2 DEF FamiliesAreFlat, IsRenewal, TypeOK, Renewal
  <2>3. /\ ord[x].qty <= MaxOrderQuantity /\ ord[x].reserved <= MaxOrderQuantity
        /\ ord[x].status = "none" => ord[x].reserved = 0 /\ ren[x].parent = 0
    BY DEF FamiliesAreFlat, IsRenewal
  <2>4. ASSUME ren[x].parent # 0
        PROVE  /\ ren'[ren[x].parent].parent = 0
               /\ ord'[ren[x].parent] = ord[ren[x].parent]
    BY <2>2, <2>4
  <2> QED BY <2>1, <2>2, <2>3, <2>4
<1>3. \A x \in Orders : Sound(x)
  BY <1>1, <1>2
<1> QED BY <1>3 DEF FamiliesAreFlat, IsRenewal

LEMMA PlaceOrderKeepsStock ==
    ASSUME StockInv, NEW o \in Orders, NEW p \in Products, NEW q \in 1..MaxOrderQuantity,
           NEW d \in Durations, PlaceOrder(o, p, q, d)
    PROVE  FamiliesAreFlat' /\ StockConserved'
<1> USE DEF StockInv
<1>1. /\ ord[o].status = "none" /\ ren' = ren /\ capacity' = capacity
      /\ prod' = [prod EXCEPT ![p] = Taken(prod[p], q)]
  BY DEF PlaceOrder, IsNextOrder
<1>2. /\ ord'[o].status = "pending_payment" /\ ord'[o].product = p
      /\ ord'[o].qty = q /\ ord'[o].reserved = q
      /\ \A x \in Orders \ {o} : ord'[x] = ord[x]
  BY DEF PlaceOrder, TypeOK
<1>3. /\ prod'[p].stock = prod[p].stock - q
      /\ \A r \in Products \ {p} : prod'[r].stock = prod[r].stock
  BY <1>1 DEF Taken, TypeOK, Product
<1>4. q \in 0..MaxOrderQuantity /\ q <= MaxOrderQuantity
  BY OrdersAssumption
<1>5. ren'[o].parent = 0 /\ \A x \in Orders \ {o} : ren'[x].parent = ren[x].parent
  BY <1>1 DEF FamiliesAreFlat, IsRenewal
<1>6. StockConserved'
  BY <1>1, <1>2, <1>3, <1>4, StockTaken
<1>7. FamiliesAreFlat'
  BY <1>1, <1>2, <1>4, <1>5, FamiliesGrow
<1> QED BY <1>6, <1>7

LEMMA RenewKeepsStock ==
    ASSUME StockInv, NEW o \in Orders, NEW par \in Orders, NEW d \in Durations,
           RenewByExtension(o, par, d) \/ RenewByRestart(o, par, d)
    PROVE  FamiliesAreFlat' /\ StockConserved'
<1> USE DEF StockInv
<1> DEFINE p == ord[par].product
<1>1. /\ ord[o].status = "none" /\ capacity' = capacity
      /\ ~IsRenewal(par) /\ ord[par].status \in {"active", "completed"}
  BY DEF RenewByExtension, RenewByRestart, Renewable, IsNextOrder
<1>2. par # o /\ p \in Products /\ ord[par].status # "none"
  BY <1>1 DEF TypeOK, Order
<1> DEFINE Renewed(n, payExp, row) ==
             /\ n \in {0, ord[par].qty}
             /\ ord' = [ord EXCEPT ![o] = NewRenewalOrder(par, n, d, payExp)]
             /\ prod' = IF n > 0 THEN [prod EXCEPT ![p] = Taken(prod[p], n)] ELSE prod
             /\ ren' = [ren EXCEPT ![o] = row]
             /\ row.parent = par
<1>3. \E n, payExp, row : Renewed(n, payExp, row)
  <2>1. CASE RenewByExtension(o, par, d)
    <3> DEFINE row == [NoRenewal EXCEPT !.parent = par, !.mode = "extend",
                                        !.oldEnd = ord[par].end, !.until = RenewedUntil(par, d)]
               payExp == Lower(now + PayWindow, ord[par].end)
    <3>1. row.parent = par
      BY DEF NoRenewal
    <3>2. /\ ord' = [ord EXCEPT ![o] = NewRenewalOrder(par, 0, d, payExp)]
          /\ prod' = prod
          /\ ren' = [ren EXCEPT ![o] = row]
      BY <2>1 DEF RenewByExtension
    <3> HIDE DEF row, payExp
    <3>3. Renewed(0, payExp, row)
      BY <3>1, <3>2
    <3> HIDE DEF Renewed
    <3> QED BY <3>3, Zenon
  <2>2. CASE RenewByRestart(o, par, d)
    <3> DEFINE row == [NoRenewal EXCEPT !.parent = par, !.mode = "restart",
                                        !.oldEnd = ord[par].end]
               payExp == now + PayWindow
               n == IF ord[par].reserved = 0 THEN ord[par].qty ELSE 0
    <3>1. row.parent = par
      BY DEF NoRenewal
    <3>2. /\ ord' = [ord EXCEPT ![o] = NewRenewalOrder(par, n, d, payExp)]
          /\ prod' = IF n > 0 THEN [prod EXCEPT ![p] = Taken(prod[p], n)] ELSE prod
          /\ ren' = [ren EXCEPT ![o] = row]
      BY <2>2 DEF RenewByRestart
    <3>3. n \in {0, ord[par].qty}
      OBVIOUS
    <3> HIDE DEF row, payExp, n
    <3>4. Renewed(n, payExp, row)
      BY <3>1, <3>2, <3>3
    <3> HIDE DEF Renewed
    <3> QED BY <3>4, Zenon
  <2> HIDE DEF Renewed
  <2> QED BY <2>1, <2>2
<1>3a. PICK n, payExp, row : Renewed(n, payExp, row)
  BY <1>3
<1> HIDE DEF p
<1>4. n \in 0..MaxOrderQuantity /\ n <= MaxOrderQuantity /\ ord[par].qty <= MaxOrderQuantity
  BY <1>3a, OrdersAssumption DEF FamiliesAreFlat, TypeOK, Order
<1>5. /\ ord'[o].status = "pending_payment" /\ ord'[o].product = p
      /\ ord'[o].qty = ord[par].qty /\ ord'[o].reserved = n
      /\ \A x \in Orders \ {o} : ord'[x] = ord[x]
  BY <1>3a DEF NewRenewalOrder, TypeOK, p
<1>6. /\ prod'[p].stock = prod[p].stock - n
      /\ \A r \in Products \ {p} : prod'[r].stock = prod[r].stock
  <2>1. prod[p] \in Product /\ prod \in [Products -> Product] /\ n \in Nat
    BY <1>2, <1>4, OrdersAssumption DEF TypeOK
  <2>2. CASE n > 0
    BY <1>2, <1>3a, <2>1, <2>2 DEF Taken, Product
  <2>3. CASE n = 0
    BY <1>3a, <2>1, <2>3 DEF Product
  <2> QED BY <2>1, <2>2, <2>3
<1>7. /\ ren'[o].parent = par
      /\ \A x \in Orders \ {o} : ren'[x].parent = ren[x].parent
  BY <1>3a DEF TypeOK
<1>8. ren[par].parent = 0 /\ ord[par].product = p
  BY <1>1 DEF IsRenewal, p
<1>9. StockConserved'
  BY <1>1, <1>2, <1>4, <1>5, <1>6, StockTaken
<1>10. FamiliesAreFlat'
  BY <1>1, <1>2, <1>4, <1>5, <1>7, <1>8, FamiliesGrow
<1> QED BY <1>9, <1>10

LEMMA SupplierStepKeepsStock ==
    ASSUME StockInv, NEW p \in Products, SupplierStep(p)
    PROVE  FamiliesAreFlat' /\ StockConserved'
<1> USE DEF StockInv
<1>1. ord' = ord /\ ren' = ren
  BY DEF SupplierStep, CreateProduct, ResubmitProduct, ReviewProduct, OfflineProduct,
         SupplierOfflineProduct, SyncResource
<1>2. FamiliesAreFlat'
  BY <1>1 DEF FamiliesAreFlat, IsRenewal
<1>3. ASSUME NEW n \in 0..MaxOrderQuantity, NEW u,
             CreateProduct(p, n, u) \/ ResubmitProduct(p, n, u) \/ SyncResource(p, n)
      PROVE  StockConserved'
  <2>1. /\ capacity' = Recounted(p, n) /\ n \in Nat
        /\ prod'[p].stock = n
        /\ \A q \in Products \ {p} : prod'[q].stock = prod[q].stock
    <3>1. n \in Nat
      BY OrdersAssumption
    <3>2. CASE CreateProduct(p, n, u) \/ ResubmitProduct(p, n, u)
      BY <3>1, <3>2 DEF CreateProduct, ResubmitProduct, TypeOK
    <3>3. CASE SyncResource(p, n)
      BY <3>1, <3>3 DEF SyncResource, Counted, TypeOK, Product
    <3> QED BY <1>3, <3>1, <3>2, <3>3
  <2> QED BY <1>1, <2>1, StockRecounted
<1>4. ASSUME NEW verdict, \/ ReviewProduct(p, verdict)
                          \/ OfflineProduct(p)
                          \/ SupplierOfflineProduct(p)
      PROVE  StockConserved'
  <2>1. capacity' = capacity /\ \A q \in Products : prod'[q].stock = prod[q].stock
    BY <1>4 DEF ReviewProduct, OfflineProduct, SupplierOfflineProduct, TypeOK, Product
  <2> QED BY <1>1, <2>1, StockKept
<1>5. StockConserved'
  <2>1. \A n \in 1..MaxOrderQuantity : n \in 0..MaxOrderQuantity
    BY OrdersAssumption
  <2> QED BY <1>3, <1>4, <2>1 DEF SupplierStep
<1> QED BY <1>2, <1>5

LEMMA OrderStepKeepsStock ==
    ASSUME StockInv, TypeOK', NEW o \in Orders, OrderStep(o)
    PROVE  FamiliesAreFlat' /\ StockConserved'
<1>1. ASSUME NEW p \in Products, NEW q \in 1..MaxOrderQuantity, NEW d \in Durations,
             PlaceOrder(o, p, q, d)
      PROVE  FamiliesAreFlat' /\ StockConserved'
  BY <1>1, PlaceOrderKeepsStock
<1>2. CASE PaymentArrives(o)
  BY <1>2, PaymentKeepsStock
<1>3. ASSUME NEW lease \in Orders, DeliverWithAccess(o, lease) \/ ConfirmDelivery(o, lease)
      PROVE  FamiliesAreFlat' /\ StockConserved'
  BY <1>3, DeliveryKeepsStock
<1>4. ASSUME NEW par \in Orders, NEW d \in Durations,
             RenewByExtension(o, par, d) \/ RenewByRestart(o, par, d)
      PROVE  FamiliesAreFlat' /\ StockConserved'
  BY <1>4, RenewKeepsStock
<1>5. CASE CancelBuyerOrder(o) \/ AdminCancelOrder(o)
  <2>1. /\ CloseOrder(o, "cancelled") /\ capacity' = capacity
        /\ ord[o].status # "none"
    BY <1>5 DEF CancelBuyerOrder, AdminCancelOrder
  <2> QED BY <2>1, CloseOrderKeepsStock DEF OrderStatus
<1>6. CASE FreezeOrder(o) \/ RequestRefund(o)
  BY <1>6, StatusKeepsStock
<1>7. CASE CompleteRefund(o)
  <2>1. capacity' = capacity /\ ord[o].status # "none"
    BY <1>7 DEF CompleteRefund
  <2>2. CASE ~IsRenewal(o) /\ CloseOrder(o, "refunded")
    BY <2>1, <2>2, CloseOrderKeepsStock DEF OrderStatus
  <2>3. CASE IsRenewal(o) /\ (RefundExtension(o) \/ RefundRestart(o))
    BY <2>1, <2>3, RefundKeepsStock
  <2> QED BY <1>7, <2>2, <2>3 DEF CompleteRefund
<1> QED BY <1>1, <1>2, <1>3, <1>4, <1>5, <1>6, <1>7 DEF OrderStep, TradeStep

LEMMA JobStepKeepsStock ==
    ASSUME StockInv, JobStep
    PROVE  FamiliesAreFlat' /\ StockConserved'
<1>1. CASE UNCHANGED <<prod, ord, ren, capacity>>
  BY <1>1 DEF StockInv, FamiliesAreFlat, StockConserved, IsRenewal, HeldUnits, OrdersOf
<1>2. ASSUME NEW o \in todo, CloseExpiredUnpaid(o) \/ CompleteExpiredLease(o)
      PROVE  FamiliesAreFlat' /\ StockConserved'
  <2>1. o \in Orders
    BY DEF StockInv, TypeOK
  <2>2. \/ UNCHANGED <<prod, ord, ren, capacity>>
        \/ /\ \E status \in {"cancelled", "completed"} : CloseOrder(o, status)
           /\ ord[o].status # "none" /\ capacity' = capacity
    BY <1>2 DEF CloseExpiredUnpaid, CompleteExpiredLease, LeaseIsOver
  <2> QED BY <1>1, <2>1, <2>2, CloseOrderKeepsStock DEF OrderStatus
<1>3. \/ UNCHANGED <<prod, ord, ren, capacity>>
      \/ \E o \in todo : CloseExpiredUnpaid(o) \/ CompleteExpiredLease(o)
  BY DEF JobStep, RevokeExpiredAccess, ListExpiredUnpaid, ListExpiredLeases, FinishRound
<1> QED BY <1>1, <1>2, <1>3

LEMMA StockInit == Init => StockInv
<1> SUFFICES ASSUME Init PROVE StockInv
  OBVIOUS
<1>1. TypeOK
  BY TypeInit
<1>2. \A o \in Orders : /\ ord[o].status = "none" /\ ord[o].reserved = 0 /\ ord[o].qty = 0
                        /\ ren[o].parent = 0
  BY DEF Init, NoOrder, NoRenewal
<1>3. FamiliesAreFlat
  BY <1>2, OrdersAssumption DEF FamiliesAreFlat, IsRenewal
<1>4. StockConserved
  <2> SUFFICES ASSUME NEW p \in Products
               PROVE  prod[p].stock + Cardinality(HeldUnits(OrdersOf(p))) = capacity[p]
    BY DEF StockConserved
  <2>1. HeldUnits(OrdersOf(p)) = {}
    BY <1>2 DEF HeldUnits, OrdersOf, UnitsOf
  <2>2. prod[p].stock = 0 /\ capacity[p] = 0
    BY DEF Init
  <2> QED BY <2>1, <2>2, FS_EmptySet
<1> QED BY <1>1, <1>3, <1>4 DEF StockInv

LEMMA StockStep == StockInv /\ [Next]_vars => StockInv'
<1> SUFFICES ASSUME StockInv, [Next]_vars PROVE StockInv'
  OBVIOUS
<1>1. TypeOK'
  BY TypeStep DEF StockInv
<1>2. FamiliesAreFlat' /\ StockConserved'
  <2>1. ASSUME NEW p \in Products, SupplierStep(p)
        PROVE  FamiliesAreFlat' /\ StockConserved'
    BY <2>1, SupplierStepKeepsStock
  <2>2. ASSUME NEW s \in Suppliers, FreezeListings(s)
        PROVE  FamiliesAreFlat' /\ StockConserved'
    <3>1. ord' = ord /\ ren' = ren /\ capacity' = capacity
      BY <2>2 DEF FreezeListings
    <3>2. \A p \in Products : prod'[p].stock = prod[p].stock
      BY <2>2 DEF FreezeListings, StockInv, TypeOK, Product
    <3>3. FamiliesAreFlat'
      BY <3>1 DEF StockInv, FamiliesAreFlat, IsRenewal
    <3> QED BY <3>1, <3>2, <3>3, StockKept DEF StockInv
  <2>3. ASSUME NEW o \in Orders, OrderStep(o)
        PROVE  FamiliesAreFlat' /\ StockConserved'
    BY <1>1, <2>3, OrderStepKeepsStock
  <2>4. CASE JobStep
    BY <2>4, JobStepKeepsStock
  <2>5. CASE Crash \/ Tick \/ UNCHANGED vars
    <3>1. UNCHANGED <<prod, ord, ren, capacity>>
      BY <2>5 DEF Crash, Tick, vars
    <3> QED BY <3>1 DEF StockInv, FamiliesAreFlat, StockConserved, IsRenewal, HeldUnits, OrdersOf
  <2> QED BY <2>1, <2>2, <2>3, <2>4, <2>5 DEF Next
<1> QED BY <1>1, <1>2 DEF StockInv

\* Units are neither lost nor made, however many orders, renewals, refunds and
\* rounds of the jobs there are: the shelf and the orders always add up to the
\* last count of the stock.
THEOREM StockIsConserved == Spec => []StockConserved
<1>1. StockInv => StockConserved
  BY DEF StockInv
<1> QED BY <1>1, StockInit, StockStep, PTL DEF Spec

\* A renewal always belongs to a first lease of its own product, so the family
\* that an operation locks and settles is the whole family.
THEOREM FamiliesStayFlat == Spec => []FamiliesAreFlat
<1>1. StockInv => FamiliesAreFlat
  BY DEF StockInv
<1> QED BY <1>1, StockInit, StockStep, PTL DEF Spec

-----------------------------------------------------------------------------
(* The stock ledger *)

\* What a step of the orders may do to the shelves: more units on the shelf of p, or
\* fewer if p is on sale, and no other shelf.
ShelfMoves(p) ==
    /\ \A q \in Products \ {p} : prod'[q].stock = prod[q].stock
    /\ prod'[p].stock < prod[p].stock => prod[p].status = "active"

\* Stated of any rows, so that it can be used before and after a step.
LEMMA OutIsANumber ==
    ASSUME NEW products, NEW orders, products \in [Products -> Product]
    PROVE  /\ \A p \in Products : products[p].stock \in Nat
           /\ \A S \in SUBSET Orders : Cardinality(UnitsOf(orders, S)) \in Nat
BY UnitsAreFinite DEF Product

LEMMA LedgerCounts ==
    TypeOK => OutOnOrders \in [Products -> Nat] /\ OnShelves \in [Products -> Nat]
<1> SUFFICES ASSUME TypeOK
             PROVE  OutOnOrders \in [Products -> Nat] /\ OnShelves \in [Products -> Nat]
  OBVIOUS
<1>1. \A p \in Products : OrdersOf(p) \in SUBSET Orders
  BY DEF OrdersOf
<1> QED BY <1>1, OutIsANumber DEF OutOnOrders, OnShelves, HeldUnits, TypeOK

LEMMA LedgerCountsNext ==
    TypeOK' => OutOnOrders' \in [Products -> Nat] /\ OnShelves' \in [Products -> Nat]
<1> SUFFICES ASSUME TypeOK'
             PROVE  OutOnOrders' \in [Products -> Nat] /\ OnShelves' \in [Products -> Nat]
  OBVIOUS
<1>1. \A p \in Products : OrdersOf(p)' \in SUBSET Orders
  BY DEF OrdersOf
<1> QED BY <1>1, OutIsANumber DEF OutOnOrders, OnShelves, HeldUnits, TypeOK

\* A step that keeps the total and moves one shelf, moves units between the shelf and
\* the orders of that product.
LEMMA MovesAreEntries ==
    ASSUME StockInv, StockInv', capacity' = capacity, NEW p \in Products, ShelfMoves(p)
    PROVE  [Ledger!LedgerNext]_(Ledger!ledgerVars)
<1> DEFINE s == OnShelves  t == OnShelves'  h == OutOnOrders  k == OutOnOrders'
<1>1. /\ s \in [Products -> Nat] /\ h \in [Products -> Nat]
      /\ t \in [Products -> Nat] /\ k \in [Products -> Nat]
  BY LedgerCounts, LedgerCountsNext DEF StockInv
<1>2. \A q \in Products : s[q] + h[q] = t[q] + k[q]
  BY DEF StockInv, StockConserved, OnShelves, OutOnOrders
<1>3. /\ \A q \in Products \ {p} : t[q] = s[q]
      /\ t[p] < s[p] => OnSale[p]
  BY DEF ShelfMoves, OnShelves, OnSale
<1> HIDE DEF s, t, h, k
<1>4. \A q \in Products \ {p} : k[q] = h[q]
  BY <1>1, <1>2, <1>3
<1>5. CASE t[p] < s[p]
  <2> DEFINE n == s[p] - t[p]
  <2>1. n \in 1..s[p] /\ t[p] = s[p] - n /\ k[p] = h[p] + n
    BY <1>1, <1>2, <1>5
  <2> HIDE DEF n
  <2>2. t = [s EXCEPT ![p] = s[p] - n] /\ k = [h EXCEPT ![p] = h[p] + n]
    BY <1>1, <1>3, <1>4, <2>1
  <2>3. Ledger!Take(p)
    BY <1>3, <1>5, <2>1, <2>2 DEF Ledger!Take, s, t, h, k
  <2> QED BY <2>3 DEF Ledger!LedgerNext
<1>6. CASE t[p] > s[p]
  <2> DEFINE n == t[p] - s[p]
  <2>1. n \in 1..h[p] /\ t[p] = s[p] + n /\ k[p] = h[p] - n
    BY <1>1, <1>2, <1>6
  <2> HIDE DEF n
  <2>2. t = [s EXCEPT ![p] = s[p] + n] /\ k = [h EXCEPT ![p] = h[p] - n]
    BY <1>1, <1>3, <1>4, <2>1
  <2>3. Ledger!GiveBack(p)
    BY <2>1, <2>2 DEF Ledger!GiveBack, s, t, h, k
  <2> QED BY <2>3 DEF Ledger!LedgerNext
<1>7. CASE t[p] = s[p]
  <2>1. k[p] = h[p]
    BY <1>1, <1>2, <1>7
  <2>2. t = s /\ k = h
    BY <1>1, <1>3, <1>4, <1>7, <2>1
  <2> QED BY <2>2 DEF Ledger!ledgerVars, s, t, h, k
<1> QED BY <1>1, <1>5, <1>6, <1>7

LEMMA CountsAreEntries ==
    ASSUME TypeOK, TypeOK', NEW p \in Products, NEW n \in 0..MaxOrderQuantity, ord' = ord,
           capacity' = Recounted(p, n), prod'[p].stock = n,
           \A q \in Products \ {p} : prod'[q].stock = prod[q].stock
    PROVE  Ledger!LedgerNext
<1>1. OnShelves' = [OnShelves EXCEPT ![p] = n]
  BY DEF OnShelves
<1>2. OutOnOrders' = OutOnOrders
  BY DEF OutOnOrders, HeldUnits, UnitsOf, OrdersOf
<1>3. capacity' = [capacity EXCEPT ![p] = n + OutOnOrders[p]]
  BY DEF Recounted, OutOnOrders
<1>4. Ledger!Count(p)
  BY <1>1, <1>2, <1>3 DEF Ledger!Count
<1> QED BY <1>4 DEF Ledger!LedgerNext

-----------------------------------------------------------------------------
(* Which shelf a step moves *)

LEMMA ReturnsMoveAShelf ==
    ASSUME TypeOK, NEW p \in Products, NEW S \in SUBSET Orders, prod' = StockReturned(p, S)
    PROVE  ShelfMoves(p)
<1>1. Cardinality(HeldUnits(S)) \in Nat
  BY UnitsAreFinite DEF HeldUnits
<1>2. prod'[p].stock = prod[p].stock + Cardinality(HeldUnits(S))
  BY DEF StockReturned, Returned, TypeOK, Product
<1>3. \A q \in Products \ {p} : prod'[q] = prod[q]
  BY DEF StockReturned, TypeOK
<1>4. prod[p].stock \in Nat
  BY DEF TypeOK, Product
<1> QED BY <1>1, <1>2, <1>3, <1>4 DEF ShelfMoves

LEMMA TakingMovesAShelf ==
    ASSUME TypeOK, NEW p \in Products, NEW n, prod[p].status = "active",
           prod' = [prod EXCEPT ![p] = Taken(prod[p], n)]
    PROVE  ShelfMoves(p)
BY DEF ShelfMoves, TypeOK

\* The steps that leave every shelf as it is.
LEMMA NoShelfMoves ==
    ASSUME TypeOK, NEW p \in Products, prod' = prod
    PROVE  ShelfMoves(p)
BY DEF ShelfMoves, TypeOK, Product

LEMMA OrderStepMovesAShelf ==
    ASSUME TypeOK, NEW o \in Orders, OrderStep(o)
    PROVE  capacity' = capacity /\ \E p \in Products : ShelfMoves(p)
<1>0. \A x \in Orders : ord[x].product \in Products
  BY DEF TypeOK, Order
<1>1. ASSUME NEW p \in Products, NEW q \in 1..MaxOrderQuantity, NEW d \in Durations,
             PlaceOrder(o, p, q, d)
      PROVE  capacity' = capacity /\ ShelfMoves(p)
  BY <1>1, TakingMovesAShelf DEF PlaceOrder, CanTake
<1>2. CASE PaymentArrives(o)
  BY <1>0, <1>2, NoShelfMoves
     DEF PaymentArrives, ConfirmPayment, ApplyExtension, ApplyRestart
<1>3. ASSUME NEW lease \in Orders, DeliverWithAccess(o, lease) \/ ConfirmDelivery(o, lease)
      PROVE  capacity' = capacity /\ \E p \in Products : ShelfMoves(p)
  BY <1>0, <1>3, NoShelfMoves DEF DeliverWithAccess, ConfirmDelivery
<1>4. ASSUME NEW par \in Orders, NEW d \in Durations,
             RenewByExtension(o, par, d) \/ RenewByRestart(o, par, d)
      PROVE  capacity' = capacity /\ \E p \in Products : ShelfMoves(p)
  <2> DEFINE p == ord[par].product
             n == IF ord[par].reserved = 0 THEN ord[par].qty ELSE 0
  <2>1. p \in Products /\ capacity' = capacity
    BY <1>0, <1>4 DEF RenewByExtension, RenewByRestart
  <2>2. \/ prod' = prod
        \/ prod[p].status = "active" /\ prod' = [prod EXCEPT ![p] = Taken(prod[p], n)]
    BY <1>4 DEF RenewByExtension, RenewByRestart, CanTake
  <2> HIDE DEF p, n
  <2> QED BY <2>1, <2>2, NoShelfMoves, TakingMovesAShelf
<1>5. CASE CancelBuyerOrder(o) \/ AdminCancelOrder(o) \/ FreezeOrder(o) \/ RequestRefund(o)
           \/ CompleteRefund(o)
  <2>1. capacity' = capacity
    BY <1>5 DEF CancelBuyerOrder, AdminCancelOrder, FreezeOrder, RequestRefund, CompleteRefund
  <2>2. \E S \in SUBSET Orders : prod' = StockReturned(ord[o].product, S)
    <3>1. /\ \A x : OpenRenewals(x) \subseteq Orders
          /\ ren[o].parent # 0 => ren[o].parent \in Orders
      BY DEF OpenRenewals, Children, TypeOK, Renewal
    <3>2. ASSUME NEW status, CloseOrder(o, status)
          PROVE  \E S \in SUBSET Orders : prod' = StockReturned(ord[o].product, S)
      BY <3>1, <3>2 DEF CloseOrder
    <3>3. CASE CancelBuyerOrder(o) \/ AdminCancelOrder(o)
      BY <3>2, <3>3 DEF CancelBuyerOrder, AdminCancelOrder
    <3>4. CASE FreezeOrder(o) \/ RequestRefund(o)
      BY <3>1, <3>4 DEF FreezeOrder, RequestRefund
    <3>5. CASE CompleteRefund(o)
      <4>1. CASE CloseOrder(o, "refunded")
        BY <4>1, <3>2
      <4>2. CASE IsRenewal(o) /\ RefundExtension(o)
        BY <3>1, <4>2 DEF RefundExtension, IsRenewal
      <4>3. CASE IsRenewal(o) /\ RefundRestart(o)
        BY <3>1, <4>3 DEF RefundRestart, IsRenewal
      <4> QED BY <3>5, <4>1, <4>2, <4>3 DEF CompleteRefund
    <3> QED BY <1>5, <3>3, <3>4, <3>5
  <2> QED BY <1>0, <2>1, <2>2, ReturnsMoveAShelf
<1> QED BY <1>1, <1>2, <1>3, <1>4, <1>5 DEF OrderStep, TradeStep

LEMMA JobStepMovesAShelf ==
    ASSUME TypeOK, JobStep
    PROVE  capacity' = capacity /\ (prod' = prod \/ \E p \in Products : ShelfMoves(p))
<1>1. ASSUME NEW o \in todo, CloseExpiredUnpaid(o) \/ CompleteExpiredLease(o)
      PROVE  capacity' = capacity /\ (prod' = prod \/ \E p \in Products : ShelfMoves(p))
  <2>1. o \in Orders /\ ord[o].product \in Products
    BY DEF TypeOK, Order
  <2>2. capacity' = capacity
    BY <1>1 DEF CloseExpiredUnpaid, CompleteExpiredLease
  <2>3. prod' = prod \/ \E status : CloseOrder(o, status)
    BY <1>1 DEF CloseExpiredUnpaid, CompleteExpiredLease
  <2>4. ASSUME NEW status, CloseOrder(o, status)
        PROVE  ShelfMoves(ord[o].product)
    <3>1. OpenRenewals(o) \subseteq Orders
      BY DEF OpenRenewals, Children
    <3>2. \E S \in SUBSET Orders : prod' = StockReturned(ord[o].product, S)
      BY <2>1, <2>4, <3>1 DEF CloseOrder
    <3> QED BY <2>1, <3>2, ReturnsMoveAShelf
  <2> QED BY <2>1, <2>2, <2>3, <2>4
<1>2. CASE RevokeExpiredAccess \/ ListExpiredUnpaid \/ ListExpiredLeases \/ FinishRound
  BY <1>2 DEF RevokeExpiredAccess, ListExpiredUnpaid, ListExpiredLeases, FinishRound
<1> QED BY <1>1, <1>2 DEF JobStep

LEMMA SupplierStepIsAnEntry ==
    ASSUME TypeOK, TypeOK', NEW p \in Products, SupplierStep(p)
    PROVE  Ledger!LedgerNext \/ (capacity' = capacity /\ ShelfMoves(p))
<1>0. \A n \in 1..MaxOrderQuantity : n \in 0..MaxOrderQuantity
  BY OrdersAssumption
<1>1. ASSUME NEW n \in 0..MaxOrderQuantity, NEW u,
             CreateProduct(p, n, u) \/ ResubmitProduct(p, n, u) \/ SyncResource(p, n)
      PROVE  Ledger!LedgerNext
  <2>1. ord' = ord /\ capacity' = Recounted(p, n) /\ prod'[p].stock = n
    <3>1. CASE CreateProduct(p, n, u) \/ ResubmitProduct(p, n, u)
      BY <3>1 DEF CreateProduct, ResubmitProduct, TypeOK
    <3>2. CASE SyncResource(p, n)
      BY <3>2 DEF SyncResource, Counted, TypeOK, Product
    <3> QED BY <1>1, <3>1, <3>2
  <2>2. \A q \in Products \ {p} : prod'[q].stock = prod[q].stock
    BY <1>1 DEF CreateProduct, ResubmitProduct, SyncResource, TypeOK
  <2> QED BY <2>1, <2>2, CountsAreEntries
<1>2. ASSUME NEW verdict, \/ ReviewProduct(p, verdict)
                          \/ OfflineProduct(p)
                          \/ SupplierOfflineProduct(p)
      PROVE  capacity' = capacity /\ ShelfMoves(p)
  <2>1. capacity' = capacity
    BY <1>2 DEF ReviewProduct, OfflineProduct, SupplierOfflineProduct
  <2>2. \A q \in Products : prod'[q].stock = prod[q].stock /\ prod[q].stock \in Nat
    BY <1>2 DEF ReviewProduct, OfflineProduct, SupplierOfflineProduct, TypeOK, Product
  <2> QED BY <2>1, <2>2 DEF ShelfMoves
<1> QED BY <1>0, <1>1, <1>2 DEF SupplierStep

-----------------------------------------------------------------------------

LEMMA LedgerStarts == Init => Ledger!LedgerInit
<1> SUFFICES ASSUME Init PROVE Ledger!LedgerInit
  OBVIOUS
<1>1. \A p \in Products : HeldUnits(OrdersOf(p)) = {}
  BY DEF Init, HeldUnits, UnitsOf, OrdersOf, NoOrder
<1>2. OutOnOrders = [p \in Products |-> 0]
  BY <1>1, FS_EmptySet DEF OutOnOrders
<1>3. OnShelves = [p \in Products |-> 0] /\ capacity = [p \in Products |-> 0]
  BY DEF Init, OnShelves
<1> QED BY <1>2, <1>3, OrdersAssumption DEF Ledger!LedgerInit

LEMMA LedgerSteps ==
    StockInv /\ StockInv' /\ [Next]_vars => [Ledger!LedgerNext]_(Ledger!ledgerVars)
<1> SUFFICES ASSUME StockInv, StockInv', [Next]_vars
             PROVE  [Ledger!LedgerNext]_(Ledger!ledgerVars)
  OBVIOUS
<1>0. TypeOK /\ TypeOK'
  BY DEF StockInv
<1>1. ASSUME NEW p \in Products, SupplierStep(p)
      PROVE  [Ledger!LedgerNext]_(Ledger!ledgerVars)
  BY <1>0, <1>1, SupplierStepIsAnEntry, MovesAreEntries
<1>2. ASSUME NEW o \in Orders, OrderStep(o)
      PROVE  [Ledger!LedgerNext]_(Ledger!ledgerVars)
  BY <1>0, <1>2, OrderStepMovesAShelf, MovesAreEntries
<1>3. ASSUME capacity' = capacity, \A p \in Products : prod'[p].stock = prod[p].stock
      PROVE  [Ledger!LedgerNext]_(Ledger!ledgerVars)
  <2>1. \A p \in Products : prod[p].stock \in Nat
    BY <1>0 DEF TypeOK, Product
  <2>2. \A p \in Products : ShelfMoves(p)
    BY <1>3, <2>1 DEF ShelfMoves
  <2> QED BY <1>3, <2>2, MovesAreEntries, OrdersAssumption
<1>4. ASSUME NEW s \in Suppliers, FreezeListings(s)
      PROVE  [Ledger!LedgerNext]_(Ledger!ledgerVars)
  <2>1. capacity' = capacity /\ ord' = ord
    BY <1>4 DEF FreezeListings
  <2>2. \A p \in Products : prod'[p].stock = prod[p].stock
    BY <1>0, <1>4 DEF FreezeListings, TypeOK, Product
  <2> QED BY <1>3, <2>1, <2>2
<1>5. CASE JobStep
  BY <1>0, <1>3, <1>5, JobStepMovesAShelf, MovesAreEntries
<1>6. CASE Crash \/ Tick \/ UNCHANGED vars
  <2>1. prod' = prod /\ ord' = ord /\ capacity' = capacity
    BY <1>6 DEF Crash, Tick, vars
  <2> QED BY <1>3, <2>1
<1> QED BY <1>1, <1>2, <1>4, <1>5, <1>6 DEF Next

\* The order domain implements the stock ledger, for any number of products, orders
\* and units: every operation and every job, in any order, is an entry of the ledger.
THEOREM OrdersKeepTheLedger == Spec => StockIsALedger
<1>1. Init => Ledger!LedgerInit
  BY LedgerStarts
<1>2. StockInv /\ StockInv' /\ [Next]_vars => [Ledger!LedgerNext]_(Ledger!ledgerVars)
  BY LedgerSteps
<1> QED BY <1>1, <1>2, StockInit, StockStep, PTL DEF Spec, StockIsALedger, Ledger!LedgerSpec

=============================================================================
