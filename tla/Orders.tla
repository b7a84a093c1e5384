------------------------------- MODULE Orders -------------------------------
(***************************************************************************)
(* The order domain of the compute marketplace (internal/compute): the     *)
(* stock of products, the life of an order from checkout to the end of its *)
(* lease, renewals, the buyer's access credential, refunds, and the        *)
(* periodic jobs that close what nobody closed.                            *)
(*                                                                         *)
(* Every operation of the code is one database transaction that locks the  *)
(* lease order and then its renewal (LockOrderFamilyTx), so every          *)
(* operation is one action.  The periodic jobs are not one transaction:    *)
(* they list order numbers first and then handle them one by one, and the  *)
(* model keeps the list.                                                   *)
(*                                                                         *)
(* Times are ticks of one clock.  A billing cycle lasts a whole number of  *)
(* ticks; Perpetual, the cycle of a product sold outright, is 0.           *)
(***************************************************************************)
EXTENDS Integers, FiniteSets, FiniteSetsExt

CONSTANTS
    Products,           \* products that may be listed
    Suppliers,          \* owners of products
    SupplierOf,         \* the supplier of each product
    MaxOrders,          \* bound: orders that are ever created
    MaxOrderQuantity,   \* largest quantity of an order and largest count of a stock-take
    Durations,          \* numbers of billing cycles a buyer may ask for
    Units,              \* lengths of the billing cycles of the pricing modes
    PayWindow,          \* ticks a buyer has to pay
    MaxTime,            \* bound: the last tick
    MaxCrashes          \* bound: restarts of the server

Perpetual == 0          \* the billing cycle of an outright sale
None == -1              \* a NULL time column

ASSUME OrdersAssumption ==
    /\ Products # {}
    /\ SupplierOf \in [Products -> Suppliers]
    /\ MaxOrders \in Nat \ {0}
    /\ MaxOrderQuantity \in Nat \ {0}
    /\ Durations \subseteq Nat \ {0}
    /\ Units \subseteq Nat
    /\ PayWindow \in Nat \ {0}
    /\ MaxTime \in Nat
    /\ MaxCrashes \in Nat

Orders == 1..MaxOrders  \* auto-increment ids: a later order has a larger id
Times == Nat \cup {None}

ProductStatus == {"none", "draft", "pending", "active", "sold_out", "offline", "frozen"}
OrderStatus == {"none", "pending_payment", "paid", "provisioning", "active",
                "completed", "refunding", "refunded", "cancelled", "frozen"}
AccessStatus == {"none", "generated", "delivered", "revoked"}
JobSteps == {"revoke", "listUnpaid", "close", "listLeases", "complete"}

VARIABLES
    prod,       \* products: status, stock, unit (the length of the billing cycle)
    ord,        \* orders
    ren,        \* order_renewals; parent = 0 marks an order that is not a renewal
    dlv,        \* order_deliveries: the access credential
    now,        \* the clock
    job,        \* the step the job loop is at
    todo,       \* the order numbers the job loop has listed and not yet handled
    crashes,    \* restarts so far
    capacity    \* history: units a product had when its stock was last set

vars == <<prod, ord, ren, dlv, now, job, todo, crashes, capacity>>
jobVars == <<job, todo, crashes>>

Product == [status : ProductStatus, stock : Nat, unit : Nat]
Order == [status : OrderStatus, product : Products, qty : Nat, reserved : Nat, dur : Nat,
          unit : Nat, payExp : Times, start : Times, end : Times]
Renewal == [parent : Orders \cup {0}, mode : {"extend", "restart"}, oldEnd : Times,
            until : Times, applied : BOOLEAN, prevStart : Times, confirmed : BOOLEAN]
Delivery == [access : AccessStatus, exp : Times, confirmed : BOOLEAN]

NoOrder == [status |-> "none", product |-> CHOOSE p \in Products : TRUE, qty |-> 0,
            reserved |-> 0, dur |-> 0, unit |-> Perpetual, payExp |-> None,
            start |-> None, end |-> None]
NoRenewal == [parent |-> 0, mode |-> "extend", oldEnd |-> None, until |-> None,
              applied |-> FALSE, prevStart |-> None, confirmed |-> FALSE]
NoDelivery == [access |-> "none", exp |-> None, confirmed |-> FALSE]

-----------------------------------------------------------------------------
(* Products and their stock *)

\* The units the orders in S hold, as pairs of an order and the index of a unit.
UnitsOf(orders, S) ==
    {u \in S \X (1..MaxOrderQuantity) : u[2] <= orders[u[1]].reserved}

HeldUnits(S) == UnitsOf(ord, S)

OrdersOf(p) == {o \in Orders : ord[o].status # "none" /\ ord[o].product = p}

\* DecrProductStock: the row it updates must be on sale and have n units.
CanTake_OnlyOnSale(p, n) == prod[p].status \in {"active", "sold_out"}
CanTake(p, n) == prod[p].status = "active" /\ prod[p].stock >= n

\* DecrProductStock: take n units off the shelf and mark an empty shelf.
Taken(r, n) ==
    [r EXCEPT !.stock = r.stock - n,
              !.status = IF r.stock - n <= 0 THEN "sold_out" ELSE r.status]

\* IncrProductStock: put n units back; only sold_out goes back on sale.
Returned(r, n) ==
    [r EXCEPT !.stock = r.stock + n,
              !.status = IF n > 0 /\ r.status = "sold_out" THEN "active" ELSE r.status]

\* SetProductStockTx: a stock-take sets the number of units on the shelf.
Counted(r, n) ==
    [r EXCEPT !.stock = n,
              !.status = IF n = 0 /\ r.status = "active" THEN "sold_out"
                         ELSE IF n > 0 /\ r.status = "sold_out" THEN "active"
                         ELSE r.status]

\* History: setting the stock to n makes n plus the units out on orders the new total.
Recounted(p, n) == [capacity EXCEPT ![p] = n + Cardinality(HeldUnits(OrdersOf(p)))]

CreateProduct(p, n, u) ==
    /\ prod[p].status = "none"
    /\ prod' = [prod EXCEPT ![p] = [status |-> "pending", stock |-> n, unit |-> u]]
    /\ capacity' = Recounted(p, n)
    /\ UNCHANGED <<ord, ren, dlv, now, jobVars>>

\* ApproveProduct and RejectProduct.
ReviewProduct(p, verdict) ==
    /\ prod[p].status = "pending"
    /\ prod' = [prod EXCEPT ![p].status = verdict]
    /\ UNCHANGED <<ord, ren, dlv, now, jobVars, capacity>>

ResubmitProduct(p, n, u) ==
    /\ prod[p].status \in {"draft", "offline"}
    /\ prod' = [prod EXCEPT ![p] = [status |-> "pending", stock |-> n, unit |-> u]]
    /\ capacity' = Recounted(p, n)
    /\ UNCHANGED <<ord, ren, dlv, now, jobVars>>

\* The operator may take a product off sale whatever its status.
OfflineProduct(p) ==
    /\ prod[p].status # "none"
    /\ prod' = [prod EXCEPT ![p].status = "offline"]
    /\ UNCHANGED <<ord, ren, dlv, now, jobVars, capacity>>

SupplierOfflineProduct(p) ==
    /\ prod[p].status \in {"active", "pending"}
    /\ prod' = [prod EXCEPT ![p].status = "offline"]
    /\ UNCHANGED <<ord, ren, dlv, now, jobVars, capacity>>

SyncResource(p, n) ==
    /\ prod[p].status # "none"
    /\ prod' = [prod EXCEPT ![p] = Counted(prod[p], n)]
    /\ capacity' = Recounted(p, n)
    /\ UNCHANGED <<ord, ren, dlv, now, jobVars>>

\* The qualification sweep freezes what an expired supplier has on sale.
FreezeListings(s) ==
    /\ prod' = [p \in Products |->
                  IF SupplierOf[p] = s /\ prod[p].status \in {"active", "sold_out"}
                  THEN [prod[p] EXCEPT !.status = "frozen"]
                  ELSE prod[p]]
    /\ UNCHANGED <<ord, ren, dlv, now, jobVars, capacity>>

-----------------------------------------------------------------------------
(* Orders: what an operation reads *)

IsRenewal(o) == ren[o].parent # 0
Children(o) == {c \in Orders : ren[c].parent = o}

\* The rows cancelPendingRenewalsTx closes.
OpenRenewals_None(o) == {}
OpenRenewals(o) == {c \in Children(o) : ord[c].status = "pending_payment"}

IsNextOrder(o) ==
    /\ ord[o].status = "none"
    /\ \A x \in Orders : x < o => ord[x].status # "none"

After(t, limit) == limit # None /\ t > limit      \* limit < NOW() in SQL
LeaseEndAt(t, unit, dur) == IF unit = Perpetual THEN None ELSE t + unit * dur
Lower(s, t) == IF s < t THEN s ELSE t

\* requireRenewableAccess.
UsableAccess(o) == dlv[o].access = "delivered" /\ dlv[o].exp > now

\* The restarts currentLeaseOrder chooses from.
Restarts(o) == {c \in Children(o) : /\ ren[c].mode = "restart"
                                    /\ ren[c].applied
                                    /\ ord[c].status \in {"completed", "refunding"}}

\* currentLeaseOrder: l is the order whose duration o is delivered for.
IsLeaseOrder(l, o) ==
    \/ Restarts(o) = {} /\ l = o
    \/ l \in Restarts(o) /\ \A c \in Restarts(o) : c <= l

\* The pricing mode of a restart was copied into its renewal row; a first lease
\* reads the pricing mode the product has at the moment.
LeaseUnit(l, o) == IF l = o THEN prod[ord[o].product].unit ELSE ord[l].unit

\* unusedRenewal.
UnusedRenewal(c) ==
    LET par == ren[c].parent IN
    /\ ren[c].applied
    /\ \/ /\ ren[c].mode = "extend"
          /\ ord[par].status = "active"
          /\ ord[par].end = ren[c].until
          /\ ren[c].oldEnd > now
       \/ /\ ren[c].mode = "restart"
          /\ ~ren[c].confirmed
          /\ ord[par].status \in {"paid", "provisioning"}

\* ValidateRenewalPaymentTx.
ValidRenewalPayment(c) ==
    LET par == ren[c].parent IN
    /\ ~ren[c].applied
    /\ ord[par].qty = ord[c].qty
    /\ ord[par].end # None
    /\ ord[par].end = ren[c].oldEnd
    /\ \/ /\ ren[c].mode = "extend"
          /\ ord[par].status = "active"
          /\ ord[par].end > now
          /\ ord[par].reserved = ord[par].qty
          /\ ord[c].reserved = 0
          /\ UsableAccess(par)
       \/ /\ ren[c].mode = "restart"
          /\ ord[par].status \in {"active", "completed"}
          /\ ord[par].end <= now
          /\ ord[par].reserved + ord[c].reserved = ord[c].qty

-----------------------------------------------------------------------------
(* Orders: what an operation writes *)

\* returnReservedStockTx and the status that goes with it.
Emptied_KeepsReserved(o, status) == [ord[o] EXCEPT !.status = status]
Emptied(o, status) == [ord[o] EXCEPT !.status = status, !.reserved = 0]

\* cancelPendingRenewalsTx on the orders in S.
WithCancelled(S) == [o \in Orders |-> IF o \in S THEN Emptied(o, "cancelled") ELSE ord[o]]

\* The stock of product p after the orders in S gave their units back.
StockReturned(p, S) == [prod EXCEPT ![p] = Returned(prod[p], Cardinality(HeldUnits(S)))]

\* The credentials RevokeAccessByOrderTx and RevokeExpiredAccess revoke.
Revocable == {"generated", "delivered"}

AccessRevoked(o) ==
    IF dlv[o].access \in Revocable
    THEN [dlv EXCEPT ![o].access = "revoked"]
    ELSE dlv

\* The credential follows the lease of o to its new end.
AccessUntil_Forgotten(o, t) == dlv
AccessUntil(o, t) == [dlv EXCEPT ![o].exp = t]

\* The body of releaseStockTxDeadline, and of AdminUpdateOrderStatus for
\* "cancelled", for an order that is not an applied renewal: the order ends in
\* the given status, its units and those of its unpaid renewals go back to the
\* shelf, and its credential stops working.
CloseOrder(o, status) ==
    LET open == IF IsRenewal(o) THEN {} ELSE OpenRenewals(o) IN
    /\ prod' = StockReturned(ord[o].product, open \cup {o})
    /\ ord' = [WithCancelled(open) EXCEPT ![o] = Emptied(o, status)]
    /\ dlv' = AccessRevoked(o)
    /\ UNCHANGED ren

-----------------------------------------------------------------------------
(* Orders: the operations *)

PlaceOrder(o, p, q, d) ==
    /\ IsNextOrder(o)
    /\ CanTake(p, q)
    /\ prod[p].unit = Perpetual => d = 1
    /\ prod' = [prod EXCEPT ![p] = Taken(prod[p], q)]
    /\ ord' = [ord EXCEPT ![o] =
                 [status |-> "pending_payment", product |-> p, qty |-> q, reserved |-> q,
                  dur |-> d, unit |-> prod[p].unit, payExp |-> now + PayWindow,
                  start |-> None, end |-> None]]
    /\ UNCHANGED <<ren, dlv, now, jobVars, capacity>>

\* The part of confirmPayment that moves a first lease; ApplyExtension and
\* ApplyRestart are the same call for a renewal (ApplyRenewalPaymentTx).  The
\* payment deadline is not looked at again: money that arrives while the order
\* is still waiting for it is accepted.
ConfirmPayment(o) ==
    /\ ord[o].status = "pending_payment"
    /\ ~IsRenewal(o)
    /\ ord' = [ord EXCEPT ![o].status = "paid"]
    /\ UNCHANGED <<prod, ren, dlv>>

ApplyExtension(c) ==
    LET par == ren[c].parent IN
    /\ ord[c].status = "pending_payment"
    /\ IsRenewal(c)
    /\ ren[c].mode = "extend"
    /\ ValidRenewalPayment(c)
    /\ ord' = [ord EXCEPT ![par].end = ren[c].until,
                          ![c] = [ord[c] EXCEPT !.status = "completed", !.reserved = 0,
                                                !.start = ren[c].oldEnd, !.end = ren[c].until]]
    /\ dlv' = AccessUntil(par, ren[c].until)
    /\ ren' = [ren EXCEPT ![c].applied = TRUE]
    /\ UNCHANGED prod

ApplyRestart(c) ==
    LET par == ren[c].parent IN
    /\ ord[c].status = "pending_payment"
    /\ IsRenewal(c)
    /\ ren[c].mode = "restart"
    /\ ValidRenewalPayment(c)
    /\ ord' = [ord EXCEPT ![par] = [ord[par] EXCEPT !.status = "paid", !.reserved = ord[c].qty,
                                                    !.start = None, !.end = None],
                          ![c] = [ord[c] EXCEPT !.status = "completed", !.reserved = 0,
                                                !.start = None, !.end = None]]
    /\ dlv' = [dlv EXCEPT ![par].access = "revoked"]
    /\ ren' = [ren EXCEPT ![c].applied = TRUE, ![c].prevStart = ord[par].start]
    /\ UNCHANGED prod

PaymentArrives(o) ==
    /\ ConfirmPayment(o) \/ ApplyExtension(o) \/ ApplyRestart(o)
    /\ UNCHANGED <<now, jobVars, capacity>>

\* DeliverWithAccess; delivering again replaces the credential.
DeliverWithAccess(o, lease) ==
    /\ ~IsRenewal(o)
    /\ ord[o].status \in {"paid", "provisioning"}
    /\ IsLeaseOrder(lease, o)
    /\ dlv' = [dlv EXCEPT ![o] =
                 [access |-> "generated", confirmed |-> FALSE,
                  exp |-> LeaseEndAt(now, LeaseUnit(lease, o), ord[lease].dur)]]
    /\ ord' = [ord EXCEPT ![o].status = "provisioning"]
    /\ UNCHANGED <<prod, ren, now, jobVars, capacity>>

\* The lease runs from the moment the buyer signs for the delivery.
ConfirmDelivery(o, lease) ==
    LET end == LeaseEndAt(now, LeaseUnit(lease, o), ord[lease].dur) IN
    /\ ~IsRenewal(o)
    /\ ord[o].status = "provisioning"
    /\ dlv[o].access = "generated"
    /\ ~dlv[o].confirmed
    /\ IsLeaseOrder(lease, o)
    /\ dlv' = [dlv EXCEPT ![o] = [access |-> "delivered", exp |-> end, confirmed |-> TRUE]]
    /\ ord' = [x \in Orders |->
                 IF x = o THEN [ord[o] EXCEPT !.status = "active", !.start = now, !.end = end]
                 ELSE IF x = lease THEN [ord[lease] EXCEPT !.start = now, !.end = end]
                 ELSE ord[x]]
    /\ ren' = IF lease = o THEN ren ELSE [ren EXCEPT ![lease].confirmed = TRUE]
    /\ UNCHANGED <<prod, now, jobVars, capacity>>

\* The statuses of a renewal that keep another one from being quoted.
Blocking == {"pending_payment", "refunding", "frozen"}

\* renewalQuoteTx, up to the choice of the mode.
Renewable_OfRenewals(par) ==
    /\ ord[par].end # None
    /\ \/ ord[par].status = "active"
       \/ ord[par].status = "completed" /\ ord[par].reserved = 0
    /\ \A c \in Children(par) : ord[c].status \notin Blocking
    /\ prod[ord[par].product].status \in {"active", "sold_out"}
    /\ prod[ord[par].product].unit # Perpetual
Renewable(par) ==
    /\ ~IsRenewal(par)
    /\ ord[par].end # None
    /\ \/ ord[par].status = "active"
       \/ ord[par].status = "completed" /\ ord[par].reserved = 0
    /\ \A c \in Children(par) : ord[c].status \notin Blocking
    /\ prod[ord[par].product].status \in {"active", "sold_out"}
    /\ prod[ord[par].product].unit # Perpetual

NewRenewalOrder(par, reserved, d, payExp) ==
    [status |-> "pending_payment", product |-> ord[par].product, qty |-> ord[par].qty,
     reserved |-> reserved, dur |-> d, unit |-> prod[ord[par].product].unit,
     payExp |-> payExp, start |-> None, end |-> None]

\* An extension starts where the lease ends.
RenewedUntil_FromNow(par, d) == LeaseEndAt(now, prod[ord[par].product].unit, d)
RenewedUntil(par, d) == LeaseEndAt(ord[par].end, prod[ord[par].product].unit, d)

\* RenewOrder while the lease runs: pay before it ends, and the end moves.
RenewByExtension(o, par, d) ==
    /\ IsNextOrder(o)
    /\ Renewable(par)
    /\ ord[par].end > now
    /\ ord[par].status = "active"
    /\ ord[par].reserved = ord[par].qty
    /\ UsableAccess(par)
    /\ ord' = [ord EXCEPT ![o] =
                 NewRenewalOrder(par, 0, d, Lower(now + PayWindow, ord[par].end))]
    /\ ren' = [ren EXCEPT ![o] =
                 [NoRenewal EXCEPT !.parent = par, !.mode = "extend", !.oldEnd = ord[par].end,
                               !.until = RenewedUntil(par, d)]]
    /\ UNCHANGED <<prod, dlv, now, jobVars, capacity>>

\* RenewOrder after the lease: the units the old lease still holds are kept, and
\* units it has given back are taken from the shelf again, which must be open.
RenewByRestart(o, par, d) ==
    LET p == ord[par].product
        taken == IF ord[par].reserved = 0 THEN ord[par].qty ELSE 0 IN
    /\ IsNextOrder(o)
    /\ Renewable(par)
    /\ ord[par].end <= now
    /\ ord[par].reserved \in {0, ord[par].qty}
    /\ taken > 0 => CanTake(p, taken)
    /\ prod' = IF taken > 0 THEN [prod EXCEPT ![p] = Taken(prod[p], taken)] ELSE prod
    /\ ord' = [ord EXCEPT ![o] = NewRenewalOrder(par, taken, d, now + PayWindow)]
    /\ ren' = [ren EXCEPT ![o] = [NoRenewal EXCEPT !.parent = par, !.mode = "restart",
                                                  !.oldEnd = ord[par].end]]
    /\ UNCHANGED <<dlv, now, jobVars, capacity>>

CancelBuyerOrder(o) ==
    /\ ord[o].status = "pending_payment"
    /\ CloseOrder(o, "cancelled")
    /\ UNCHANGED <<now, jobVars, capacity>>

\* AdminUpdateOrderStatus with "cancelled".
AdminCancelOrder(o) ==
    /\ ord[o].status \in {"pending_payment", "paid", "provisioning", "active", "frozen"}
    /\ CloseOrder(o, "cancelled")
    /\ UNCHANGED <<now, jobVars, capacity>>

\* FreezeOrderTx, for AdminUpdateOrderStatus and for the risk console.
FreezeOrder(o) ==
    LET open == IF IsRenewal(o) THEN {} ELSE OpenRenewals(o) IN
    /\ ord[o].status \in {"pending_payment", "paid", "provisioning", "active"}
    /\ prod' = StockReturned(ord[o].product, open)
    /\ ord' = [WithCancelled(open) EXCEPT ![o].status = "frozen"]
    /\ dlv' = AccessRevoked(o)
    /\ UNCHANGED <<ren, now, jobVars, capacity>>

\* A lease is given back as a whole: through its last restart when it has one.
RequestRefund(o) ==
    LET open == OpenRenewals(IF IsRenewal(o) THEN ren[o].parent ELSE o) IN
    /\ \/ /\ IsRenewal(o)
          /\ ord[o].status = "completed"
          /\ UnusedRenewal(o)
       \/ /\ ~IsRenewal(o)
          /\ IsLeaseOrder(o, o)
          /\ ord[o].status \in {"active", "paid", "provisioning"}
    /\ prod' = StockReturned(ord[o].product, open)
    /\ ord' = [WithCancelled(open) EXCEPT ![o].status = "refunding"]
    /\ UNCHANGED <<ren, dlv, now, jobVars, capacity>>

\* refundRenewalTx: undo an unused renewal on its lease, and close the renewal.
RefundExtension(c) ==
    LET par == ren[c].parent IN
    /\ ren[c].mode = "extend"
    /\ UnusedRenewal(c)
    /\ prod' = StockReturned(ord[c].product, OpenRenewals(par) \cup {c})
    /\ ord' = [WithCancelled(OpenRenewals(par)) EXCEPT
                 ![par].end = ren[c].oldEnd, ![c] = Emptied(c, "refunded")]
    /\ dlv' = AccessUntil(par, ren[c].oldEnd)
    /\ UNCHANGED ren

RefundRestart(c) ==
    LET par == ren[c].parent IN
    /\ ren[c].mode = "restart"
    /\ UnusedRenewal(c)
    /\ prod' = StockReturned(ord[c].product, OpenRenewals(par) \cup {c, par})
    /\ ord' = [WithCancelled(OpenRenewals(par)) EXCEPT
                 ![par] = [Emptied(par, "completed") EXCEPT !.start = ren[c].prevStart,
                                                            !.end = ren[c].oldEnd],
                 ![c] = Emptied(c, "refunded")]
    /\ dlv' = AccessRevoked(par)
    /\ UNCHANGED ren

\* CompleteRefund, called once the money is back with the buyer.
CompleteRefund(o) ==
    /\ ord[o].status = "refunding"
    /\ \/ ~IsRenewal(o) /\ CloseOrder(o, "refunded")
       \/ IsRenewal(o) /\ (RefundExtension(o) \/ RefundRestart(o))
    /\ UNCHANGED <<now, jobVars, capacity>>

-----------------------------------------------------------------------------
(* The job loop of cmd/server: every five minutes, and once at start *)

RevokeExpiredAccess ==
    /\ job = "revoke"
    /\ dlv' = [o \in Orders |->
                 IF dlv[o].access \in Revocable /\ After(now, dlv[o].exp)
                 THEN [dlv[o] EXCEPT !.access = "revoked"]
                 ELSE dlv[o]]
    /\ job' = "listUnpaid"
    /\ UNCHANGED <<prod, ord, ren, now, todo, crashes, capacity>>

\* ListExpiredUnpaidOrderNos and ListExpiredLeaseOrderNos.
ExpiredUnpaid_NotYet == {o \in Orders : ord[o].status = "pending_payment" /\ ord[o].payExp >= now}
ExpiredUnpaid == {o \in Orders : ord[o].status = "pending_payment" /\ After(now, ord[o].payExp)}
ExpiredLeases == {o \in Orders : ord[o].status = "active" /\ After(now, ord[o].end)}

ListExpiredUnpaid ==
    /\ job = "listUnpaid"
    /\ todo' = ExpiredUnpaid
    /\ job' = "close"
    /\ UNCHANGED <<prod, ord, ren, dlv, now, crashes, capacity>>

\* One turn of CloseExpiredUnpaidOrders: an order that was paid or cancelled
\* since it was listed is left alone.
CloseExpiredUnpaid(o) ==
    /\ job = "close"
    /\ o \in todo
    /\ todo' = todo \ {o}
    /\ IF ord[o].status = "pending_payment"
       THEN CloseOrder(o, "cancelled")
       ELSE UNCHANGED <<prod, ord, ren, dlv>>
    /\ UNCHANGED <<now, job, crashes, capacity>>

ListExpiredLeases ==
    /\ job = "close"
    /\ todo = {}
    /\ todo' = ExpiredLeases
    /\ job' = "complete"
    /\ UNCHANGED <<prod, ord, ren, dlv, now, crashes, capacity>>

\* One turn of CompleteExpiredLeases: the end of the lease is read again under
\* the lock, for it may be a new lease by now.
LeaseIsOver_AsListed(o) == ord[o].status = "active"
LeaseIsOver(o) == ord[o].end # None /\ ord[o].end <= now /\ ord[o].status = "active"

CompleteExpiredLease(o) ==
    /\ job = "complete"
    /\ o \in todo
    /\ todo' = todo \ {o}
    /\ IF LeaseIsOver(o)
       THEN CloseOrder(o, "completed")
       ELSE UNCHANGED <<prod, ord, ren, dlv>>
    /\ UNCHANGED <<now, job, crashes, capacity>>

FinishRound ==
    /\ job = "complete"
    /\ todo = {}
    /\ job' = "revoke"
    /\ UNCHANGED <<prod, ord, ren, dlv, now, todo, crashes, capacity>>

\* The server restarts: the list is lost, and the loop starts with its first job.
Crash ==
    /\ crashes < MaxCrashes
    /\ crashes' = crashes + 1
    /\ job' = "revoke"
    /\ todo' = {}
    /\ UNCHANGED <<prod, ord, ren, dlv, now, capacity>>

JobStep ==
    \/ RevokeExpiredAccess
    \/ ListExpiredUnpaid
    \/ \E o \in todo : CloseExpiredUnpaid(o)
    \/ ListExpiredLeases
    \/ \E o \in todo : CompleteExpiredLease(o)
    \/ FinishRound

-----------------------------------------------------------------------------

Tick ==
    /\ now < MaxTime
    /\ now' = now + 1
    /\ UNCHANGED <<prod, ord, ren, dlv, jobVars, capacity>>

SupplierStep(p) ==
    \/ \E n \in 1..MaxOrderQuantity, u \in Units :
          CreateProduct(p, n, u) \/ ResubmitProduct(p, n, u)
    \/ \E verdict \in {"active", "draft"} : ReviewProduct(p, verdict)
    \/ OfflineProduct(p)
    \/ SupplierOfflineProduct(p)
    \/ \E n \in 0..MaxOrderQuantity : SyncResource(p, n)

\* What happens to an order without the payment service.
TradeStep(o) ==
    \/ \E p \in Products, q \in 1..MaxOrderQuantity, d \in Durations : PlaceOrder(o, p, q, d)
    \/ \E lease \in Orders : DeliverWithAccess(o, lease) \/ ConfirmDelivery(o, lease)
    \/ \E par \in Orders, d \in Durations : RenewByExtension(o, par, d) \/ RenewByRestart(o, par, d)
    \/ CancelBuyerOrder(o)
    \/ AdminCancelOrder(o)
    \/ FreezeOrder(o)
    \/ RequestRefund(o)

OrderStep(o) == TradeStep(o) \/ PaymentArrives(o) \/ CompleteRefund(o)

Init ==
    /\ prod = [p \in Products |-> [status |-> "none", stock |-> 0, unit |-> Perpetual]]
    /\ ord = [o \in Orders |-> NoOrder]
    /\ ren = [o \in Orders |-> NoRenewal]
    /\ dlv = [o \in Orders |-> NoDelivery]
    /\ now = 0
    /\ job = "revoke"
    /\ todo = {}
    /\ crashes = 0
    /\ capacity = [p \in Products |-> 0]

Next ==
    \/ \E p \in Products : SupplierStep(p)
    \/ \E s \in Suppliers : FreezeListings(s)
    \/ \E o \in Orders : OrderStep(o)
    \/ JobStep
    \/ Crash
    \/ Tick

Spec == Init /\ [][Next]_vars

\* The loop is a goroutine of the server: it keeps taking its steps.
FairSpec == Spec /\ WF_vars(JobStep)

-----------------------------------------------------------------------------
(* What must hold *)

\* Every variable has its type.
TypeOK ==
    /\ prod \in [Products -> Product]
    /\ ord \in [Orders -> Order]
    /\ ren \in [Orders -> Renewal]
    /\ dlv \in [Orders -> Delivery]
    /\ now \in Nat
    /\ job \in JobSteps
    /\ todo \subseteq Orders
    /\ crashes \in Nat
    /\ capacity \in [Products -> Nat]

\* No unit is lost and none appears: what is on the shelf and what orders hold
\* add up to what there was when the stock was last counted, whichever of the
\* close job, the refund, the operator and the buyer ends an order
\* (releaseStockTxDeadline, returnReservedStockTx, DecrProductStock).
StockConserved ==
    \A p \in Products :
        prod[p].stock + Cardinality(HeldUnits(OrdersOf(p))) = capacity[p]

\* A renewal belongs to a first lease of the same product, never to another
\* renewal, and what is reserved fits an order: operations that lock and settle
\* "the lease and its renewals" reach the whole family (LockOrderFamilyTx).
FamiliesAreFlat ==
    \A o \in Orders :
        /\ ord[o].qty <= MaxOrderQuantity
        /\ ord[o].reserved <= MaxOrderQuantity
        /\ ord[o].status = "none" => ord[o].reserved = 0 /\ ~IsRenewal(o)
        /\ IsRenewal(o) => LET par == ren[o].parent IN
                             /\ par # o
                             /\ ~IsRenewal(par)
                             /\ ord[par].status # "none"
                             /\ ord[par].product = ord[o].product

\* A lease and its renewals together hold the quantity of the lease while it is
\* alive, and never more: a restart does not take the units twice, and a lease
\* that has ended keeps none (RenewOrder, ApplyRenewalPaymentTx, refundRenewalTx).
FamilyHoldsQuantity ==
    \A o \in Orders : ord[o].status # "none" /\ ~IsRenewal(o) =>
        LET held == Cardinality(HeldUnits({o} \cup Children(o))) IN
        /\ held \in {0, ord[o].qty}
        /\ ord[o].status \in {"pending_payment", "paid", "provisioning", "active",
                              "frozen", "refunding"} => ord[o].reserved = ord[o].qty
        /\ ord[o].status \in {"refunded", "cancelled"} => held = 0

\* A credential works only while its order is being delivered, in use, or in a
\* refund that is not through: freezing, closing, ending or refunding an order
\* revokes it in the same transaction (C-06).
AccessOnlyWhileServed ==
    \A o \in Orders :
        /\ dlv[o].access = "generated" => ord[o].status \in {"provisioning", "refunding"}
        /\ dlv[o].access = "delivered" => ord[o].status \in {"active", "refunding"}

\* While the buyer uses a lease, its credential expires exactly when it ends:
\* paying for an extension and taking one back move both.
AccessEndsWithLease ==
    \A o \in Orders : ord[o].status = "active" => dlv[o].exp = ord[o].end

\* Together: what a credential opens follows what the order and its lease are.
AccessFollowsLease == AccessOnlyWhileServed /\ AccessEndsWithLease

\* A lease has one renewal in the air at most (renewalQuoteTx, RequestRefund).
OneOpenRenewal ==
    \A o \in Orders :
        Cardinality({c \in Children(o) : ord[c].status \in {"pending_payment", "refunding"}}) <= 1

\* A renewal the buyer may still pay for takes effect when it is paid: whatever
\* would spoil it (freezing, closing, refunding or ending its lease, taking back
\* an earlier extension) has cancelled it (cancelPendingRenewalsTx).
PayableRenewalApplies ==
    \A c \in Orders :
        IsRenewal(c) /\ ord[c].status = "pending_payment" /\ now < ord[c].payExp
            => ValidRenewalPayment(c)

\* Together: a bill for a renewal that can be paid is the only one of its lease, and good.
OpenRenewalsAreGood == OneOpenRenewal /\ PayableRenewalApplies

\* The extensions that count towards the lease o has now.
Extensions(o) ==
    {c \in Children(o) : /\ ren[c].mode = "extend"
                         /\ ren[c].applied
                         /\ ord[c].status \in {"completed", "refunding"}
                         /\ ren[c].oldEnd > ord[o].start}

PaidTime(o) == ord[o].unit * ord[o].dur

\* A lease lasts for what was paid for: the duration of the order it was last
\* started by, in the pricing mode that order was priced in, and that of every
\* extension that was paid and not taken back (ConfirmDelivery,
\* ApplyRenewalPaymentTx, refundRenewalTx).
LeaseIsPaidFor ==
    \A o, lease \in Orders :
        ord[o].status = "active" /\ IsLeaseOrder(lease, o) =>
            IF ord[lease].unit = Perpetual
            THEN ord[o].end = None
            ELSE ord[o].end = ord[o].start + PaidTime(lease)
                                + MapThenSumSet(PaidTime, Extensions(o))

\* A lease ends early for nobody: the job that completes leases works from a
\* list that may be out of date, and a lease that was restarted since it was
\* listed is not completed (releaseStockTxDeadline, expiredLeaseOnly).
NoLeaseEndsEarly ==
    [][\A o \in Orders :
          ord[o].status = "active" /\ ord'[o].status = "completed"
              => ord[o].end # None /\ ord[o].end <= now]_vars

\* A refund takes back only time that was not used: the extension it undoes has
\* not begun, and the restart it undoes was never signed for (unusedRenewal).
RefundTakesUnusedTime ==
    [][\A c \in Orders :
          IsRenewal(c) /\ ord[c].status # "refunded" /\ ord'[c].status = "refunded" =>
              IF ren[c].mode = "extend"
              THEN ord'[ren[c].parent].end = ren[c].oldEnd /\ now < ren[c].oldEnd
              ELSE ~ren[c].confirmed /\ ord'[ren[c].parent].status = "completed"]_vars

\* Together: time that was paid for is not cut, and time that was used is not paid back.
PaidTimeIsKept == NoLeaseEndsEarly /\ RefundTakesUnusedTime

\* The close job gets to every unpaid order: its units do not stay locked.
UnpaidOrdersClose ==
    \A o \in Orders :
        (ord[o].status = "pending_payment" /\ After(now, ord[o].payExp))
            ~> ord[o].status # "pending_payment"

\* The lease job gets to every lease that is over.
LeasesComplete ==
    \A o \in Orders :
        (ord[o].status = "active" /\ After(now, ord[o].end)) ~> ord[o].status # "active"

\* A credential that has expired stops working.
ExpiredAccessIsRevoked ==
    \A o \in Orders :
        (dlv[o].access \in {"generated", "delivered"} /\ After(now, dlv[o].exp))
            ~> dlv[o].access \notin {"generated", "delivered"} \/ ~After(now, dlv[o].exp)

\* Together: the job loop catches up with all that time has ended.
JobsCatchUp == UnpaidOrdersClose /\ LeasesComplete /\ ExpiredAccessIsRevoked

=============================================================================
