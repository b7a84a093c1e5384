-------------------------- MODULE OrdersLeaseProofs --------------------------
(***************************************************************************)
(* Theorems about the leases and credentials of Orders, for every value of *)
(* its constants: what a credential opens follows what its order and its   *)
(* lease are, time that was paid for is neither cut nor paid back after it *)
(* was used, a lease and its renewals hold its units once, a bill for a    *)
(* renewal that can be paid takes effect when it is paid, and a lease      *)
(* lasts for what was paid, where no pricing mode changes under it.  And   *)
(* the job loop comes closer, with every turn, to what time has ended.     *)
(***************************************************************************)
EXTENDS OrdersProofs, CountingProofs

-----------------------------------------------------------------------------
(* Credentials *)

\* What the credential of one order may be.
AccessFits(o) ==
    /\ dlv[o].access = "generated" => ord[o].status \in {"provisioning", "refunding"}
    /\ dlv[o].access = "delivered" => ord[o].status \in {"active", "refunding"}
    /\ ord[o].status = "active" => dlv[o].exp = ord[o].end
    /\ IsRenewal(o) \/ ord[o].status = "none" => dlv[o].access \notin Revocable

\* The last part is what makes it inductive: a renewal has no credential of its own, so
\* that its status may move on without one being looked at.
AccessInv == \A o \in Orders : AccessFits(o)

\* An order that waits for money has nothing to revoke.
LEMMA WaitingHasNone ==
    ASSUME AccessInv, NEW o \in Orders, ord[o].status = "pending_payment"
    PROVE  dlv[o].access \notin Revocable
BY DEF AccessInv, AccessFits, Revocable

\* Orders on which nothing changed fit as before.
LEMMA SameFits ==
    ASSUME AccessInv, NEW x \in Orders,
           ord'[x].status = ord[x].status, ord'[x].end = ord[x].end,
           dlv'[x] = dlv[x], ren'[x].parent = ren[x].parent
    PROVE  AccessFits(x)'
BY DEF AccessInv, AccessFits, IsRenewal

\* An order whose credential opens nothing fits whatever it is, in use excepted.
LEMMA ClosedFits ==
    ASSUME NEW x \in Orders, dlv'[x].access \notin Revocable, ord'[x].status # "active"
    PROVE  AccessFits(x)'
BY DEF AccessFits, Revocable

\* Cancelling the unpaid renewals in S leaves the orders fitting.
LEMMA CancelledFits ==
    ASSUME AccessInv, TypeOK, NEW S, \A c \in S : c \in Orders => ord[c].status = "pending_payment",
           NEW x \in Orders, ord'[x] = WithCancelled(S)[x], dlv'[x] = dlv[x],
           ren'[x].parent = ren[x].parent
    PROVE  AccessFits(x)'
<1>1. CASE x \in S
  <2>1. ord'[x].status = "cancelled"
    BY <1>1 DEF WithCancelled, Emptied, TypeOK, Order
  <2> QED BY <1>1, <2>1, WaitingHasNone, ClosedFits
<1>2. CASE x \notin S
  BY <1>2, SameFits DEF WithCancelled
<1> QED BY <1>1, <1>2

LEMMA OpenOnesWait ==
    ASSUME NEW o
    PROVE  \A c \in OpenRenewals(o) : ord[c].status = "pending_payment"
BY DEF OpenRenewals

\* What revoking leaves is revoked.
LEMMA RevokedIsShut ==
    ASSUME TypeOK, NEW o \in Orders
    PROVE  /\ AccessRevoked(o)[o].access \notin Revocable
           /\ \A x \in Orders \ {o} : AccessRevoked(o)[x] = dlv[x]
BY DEF AccessRevoked, Revocable, TypeOK, Delivery

LEMMA CloseOrderFits ==
    ASSUME AccessInv, TypeOK, NEW o \in Orders,
           NEW status \in {"cancelled", "completed", "refunded"}, CloseOrder(o, status)
    PROVE  AccessInv'
<1> DEFINE open == IF IsRenewal(o) THEN {} ELSE OpenRenewals(o)
<1>1. SUFFICES ASSUME NEW x \in Orders PROVE AccessFits(x)'
  BY DEF AccessInv
<1>2. /\ ord' = [WithCancelled(open) EXCEPT ![o] = Emptied(o, status)]
      /\ dlv' = AccessRevoked(o)
      /\ ren' = ren
  BY DEF CloseOrder
<1>3. \A c \in open : c \in Orders => ord[c].status = "pending_payment"
  BY OpenOnesWait
<1> HIDE DEF open
<1>4. CASE x = o
  <2>1. ord'[o].status = status
    BY <1>2 DEF WithCancelled, Emptied, TypeOK, Order
  <2> QED BY <1>2, <1>4, <2>1, RevokedIsShut, ClosedFits
<1>5. CASE x # o
  <2>1. ord'[x] = WithCancelled(open)[x] /\ dlv'[x] = dlv[x]
    BY <1>2, <1>5, RevokedIsShut DEF WithCancelled
  <2> QED BY <1>2, <1>3, <2>1, CancelledFits
<1> QED BY <1>4, <1>5

LEMMA FreezeFits ==
    ASSUME AccessInv, TypeOK, NEW o \in Orders, FreezeOrder(o)
    PROVE  AccessInv'
<1> DEFINE open == IF IsRenewal(o) THEN {} ELSE OpenRenewals(o)
<1>1. SUFFICES ASSUME NEW x \in Orders PROVE AccessFits(x)'
  BY DEF AccessInv
<1>2. /\ ord' = [WithCancelled(open) EXCEPT ![o].status = "frozen"]
      /\ dlv' = AccessRevoked(o)
      /\ ren' = ren
  BY DEF FreezeOrder
<1>3. \A c \in open : c \in Orders => ord[c].status = "pending_payment"
  BY OpenOnesWait
<1> HIDE DEF open
<1>4. CASE x = o
  <2>1. ord'[o].status = "frozen"
    BY <1>2, WithCancelledType DEF Order
  <2> QED BY <1>2, <1>4, <2>1, RevokedIsShut, ClosedFits
<1>5. CASE x # o
  <2>1. ord'[x] = WithCancelled(open)[x] /\ dlv'[x] = dlv[x]
    BY <1>2, <1>5, RevokedIsShut DEF WithCancelled
  <2> QED BY <1>2, <1>3, <2>1, CancelledFits
<1> QED BY <1>4, <1>5

\* A refund that is asked for keeps the credential until the money is back.
LEMMA RequestRefundFits ==
    ASSUME AccessInv, TypeOK, NEW o \in Orders, RequestRefund(o)
    PROVE  AccessInv'
<1> DEFINE open == OpenRenewals(IF IsRenewal(o) THEN ren[o].parent ELSE o)
<1>1. SUFFICES ASSUME NEW x \in Orders PROVE AccessFits(x)'
  BY DEF AccessInv
<1>2. /\ ord' = [WithCancelled(open) EXCEPT ![o].status = "refunding"]
      /\ dlv' = dlv /\ ren' = ren
      /\ ord[o].status # "none"
  BY DEF RequestRefund
<1>3. \A c \in open : c \in Orders => ord[c].status = "pending_payment"
  BY OpenOnesWait
<1> HIDE DEF open
<1>4. CASE x = o
  <2>1. ord'[o].status = "refunding"
    BY <1>2, WithCancelledType DEF Order
  <2> QED BY <1>2, <1>4, <2>1 DEF AccessInv, AccessFits, IsRenewal
<1>5. CASE x # o
  <2>1. ord'[x] = WithCancelled(open)[x]
    BY <1>2, <1>5 DEF WithCancelled
  <2> QED BY <1>2, <1>3, <2>1, CancelledFits
<1> QED BY <1>4, <1>5

\* Taking an extension back moves the end of the lease and of its credential; taking a
\* restart back revokes the credential.
LEMMA RefundFits ==
    ASSUME AccessInv, TypeOK, FamiliesAreFlat, NEW c \in Orders, IsRenewal(c),
           RefundExtension(c) \/ RefundRestart(c)
    PROVE  AccessInv'
<1> DEFINE par == ren[c].parent
           open == OpenRenewals(par)
<1>1. SUFFICES ASSUME NEW x \in Orders PROVE AccessFits(x)'
  BY DEF AccessInv
<1>2. par \in Orders /\ par # c /\ ren' = ren
  BY DEF FamiliesAreFlat, IsRenewal, TypeOK, Renewal, RefundExtension, RefundRestart
<1>3. \A y \in open : y \in Orders => ord[y].status = "pending_payment"
  BY OpenOnesWait
<1>4. dlv[c].access \notin Revocable
  BY DEF AccessInv, AccessFits
<1>5. CASE RefundExtension(c)
  <2>1. /\ ord' = [WithCancelled(open) EXCEPT ![par].end = ren[c].oldEnd,
                                              ![c] = Emptied(c, "refunded")]
        /\ dlv' = [dlv EXCEPT ![par].exp = ren[c].oldEnd]
    BY <1>5 DEF RefundExtension, AccessUntil
  <2> HIDE DEF par, open
  <2>2. CASE x = c
    <3>1. ord'[c].status = "refunded" /\ dlv'[c] = dlv[c]
      BY <1>2, <2>1 DEF WithCancelled, Emptied, TypeOK, Order
    <3> QED BY <1>4, <2>2, <3>1, ClosedFits
  <2>3. CASE x = par
    <3>1. /\ ord'[par].status = WithCancelled(open)[par].status
          /\ ord'[par].end = ren[c].oldEnd
          /\ dlv'[par].access = dlv[par].access
          /\ dlv'[par].exp = ren[c].oldEnd
      BY <1>2, <2>1, WithCancelledType DEF TypeOK, Order, Delivery
    <3>2. \/ WithCancelled(open)[par].status = ord[par].status
          \/ /\ WithCancelled(open)[par].status = "cancelled"
             /\ ord[par].status = "pending_payment"
      BY <1>2, <1>3 DEF WithCancelled, Emptied, TypeOK, Order
    <3> QED BY <1>2, <2>3, <3>1, <3>2 DEF AccessInv, AccessFits, IsRenewal, Revocable
  <2>4. CASE x \notin {c, par}
    <3>1. ord'[x] = WithCancelled(open)[x] /\ dlv'[x] = dlv[x]
      BY <2>1, <2>4 DEF WithCancelled
    <3> QED BY <1>2, <1>3, <3>1, CancelledFits
  <2> QED BY <2>2, <2>3, <2>4
<1>6. CASE RefundRestart(c)
  <2>1. /\ ord' = [WithCancelled(open) EXCEPT
                     ![par] = [Emptied(par, "completed") EXCEPT !.start = ren[c].prevStart,
                                                                !.end = ren[c].oldEnd],
                     ![c] = Emptied(c, "refunded")]
        /\ dlv' = AccessRevoked(par)
    BY <1>6 DEF RefundRestart
  <2> HIDE DEF par, open
  <2>2. CASE x = c
    <3>1. ord'[c].status = "refunded" /\ dlv'[c] = dlv[c]
      BY <1>2, <2>1, RevokedIsShut DEF WithCancelled, Emptied, TypeOK, Order
    <3> QED BY <1>4, <2>2, <3>1, ClosedFits
  <2>3. CASE x = par
    <3>1. ord'[par].status = "completed"
      BY <1>2, <2>1 DEF WithCancelled, Emptied, TypeOK, Order
    <3> QED BY <1>2, <2>1, <2>3, <3>1, RevokedIsShut, ClosedFits
  <2>4. CASE x \notin {c, par}
    <3>1. ord'[x] = WithCancelled(open)[x] /\ dlv'[x] = dlv[x]
      BY <1>2, <2>1, <2>4, RevokedIsShut DEF WithCancelled
    <3> QED BY <1>2, <1>3, <3>1, CancelledFits
  <2> QED BY <2>2, <2>3, <2>4
<1> QED BY <1>5, <1>6

\* Paying for an extension moves the end of the lease and of its credential; paying for a
\* restart revokes what is left of the old credential.
LEMMA PaymentFits ==
    ASSUME AccessInv, TypeOK, FamiliesAreFlat, NEW o \in Orders, PaymentArrives(o)
    PROVE  AccessInv'
<1> DEFINE par == ren[o].parent
<1>1. SUFFICES ASSUME NEW x \in Orders PROVE AccessFits(x)'
  BY DEF AccessInv
<1>2. ord[o].status = "pending_payment" /\ dlv[o].access \notin Revocable
  BY WaitingHasNone DEF PaymentArrives, ConfirmPayment, ApplyExtension, ApplyRestart
<1>3. CASE ConfirmPayment(o)
  <2>1. CASE x = o
    <3>1. ord'[o].status = "paid" /\ dlv'[o] = dlv[o]
      BY <1>3 DEF ConfirmPayment, TypeOK, Order
    <3> QED BY <1>2, <2>1, <3>1, ClosedFits
  <2>2. CASE x # o
    <3>1. ord'[x] = ord[x] /\ dlv'[x] = dlv[x] /\ ren' = ren
      BY <1>3, <2>2 DEF ConfirmPayment, TypeOK
    <3> QED BY <3>1, SameFits
  <2> QED BY <2>1, <2>2
<1>4. CASE ApplyExtension(o)
  <2>1. par \in Orders /\ par # o
    BY <1>4 DEF ApplyExtension, FamiliesAreFlat, IsRenewal, TypeOK, Renewal
  <2>2. /\ ord' = [ord EXCEPT ![par].end = ren[o].until,
                              ![o] = [ord[o] EXCEPT !.status = "completed", !.reserved = 0,
                                                    !.start = ren[o].oldEnd,
                                                    !.end = ren[o].until]]
        /\ dlv' = [dlv EXCEPT ![par].exp = ren[o].until]
        /\ ren' = [ren EXCEPT ![o].applied = TRUE]
    BY <1>4 DEF ApplyExtension, AccessUntil
  <2> HIDE DEF par
  <2>3. \A y \in Orders : ren'[y].parent = ren[y].parent
    BY <2>2 DEF TypeOK, Renewal
  <2>4. CASE x = o
    <3>1. ord'[o].status = "completed" /\ dlv'[o] = dlv[o]
      BY <2>1, <2>2 DEF TypeOK, Order
    <3> QED BY <1>2, <2>4, <3>1, ClosedFits
  <2>5. CASE x = par
    <3>1. /\ ord'[par].status = ord[par].status
          /\ ord'[par].end = ren[o].until
          /\ dlv'[par].access = dlv[par].access
          /\ dlv'[par].exp = ren[o].until
      BY <2>1, <2>2 DEF TypeOK, Order, Delivery
    <3> QED BY <2>1, <2>3, <2>5, <3>1 DEF AccessInv, AccessFits, IsRenewal
  <2>6. CASE x \notin {o, par}
    <3>1. ord'[x] = ord[x] /\ dlv'[x] = dlv[x]
      BY <2>2, <2>6 DEF TypeOK
    <3> QED BY <2>3, <3>1, SameFits
  <2> QED BY <2>4, <2>5, <2>6, SMTT(30)
<1>5. CASE ApplyRestart(o)
  <2>1. par \in Orders /\ par # o
    BY <1>5 DEF ApplyRestart, FamiliesAreFlat, IsRenewal, TypeOK, Renewal
  <2>2. /\ ord' = [ord EXCEPT ![par] = [ord[par] EXCEPT !.status = "paid",
                                                        !.reserved = ord[o].qty,
                                                        !.start = None, !.end = None],
                              ![o] = [ord[o] EXCEPT !.status = "completed", !.reserved = 0,
                                                    !.start = None, !.end = None]]
        /\ dlv' = [dlv EXCEPT ![par].access = "revoked"]
        /\ ren' = [ren EXCEPT ![o].applied = TRUE, ![o].prevStart = ord[par].start]
    BY <1>5 DEF ApplyRestart
  <2> HIDE DEF par
  <2>3. \A y \in Orders : ren'[y].parent = ren[y].parent
    BY <2>2 DEF TypeOK, Renewal
  <2>4. CASE x = o
    <3>1. ord'[o].status = "completed" /\ dlv'[o] = dlv[o]
      BY <2>1, <2>2 DEF TypeOK, Order
    <3> QED BY <1>2, <2>4, <3>1, ClosedFits
  <2>5. CASE x = par
    <3>1. ord'[par].status = "paid" /\ dlv'[par].access = "revoked"
      BY <2>1, <2>2 DEF TypeOK, Order, Delivery
    <3> QED BY <2>5, <3>1, ClosedFits DEF Revocable
  <2>6. CASE x \notin {o, par}
    <3>1. ord'[x] = ord[x] /\ dlv'[x] = dlv[x]
      BY <2>2, <2>6 DEF TypeOK
    <3> QED BY <2>3, <3>1, SameFits
  <2> QED BY <2>4, <2>5, <2>6, Zenon
<1> QED BY <1>3, <1>4, <1>5 DEF PaymentArrives

\* The lease order of a restart is no order in use.
LEMMA LeaseOrderRests ==
    ASSUME NEW o \in Orders, NEW lease \in Orders, IsLeaseOrder(lease, o), lease # o
    PROVE  ord[lease].status \in {"completed", "refunding"} /\ ren[lease].parent = o
BY DEF IsLeaseOrder, Restarts, Children

\* Delivering makes a credential for an order that is being provisioned, signing for it one
\* that ends with the lease.
LEMMA DeliveryFits ==
    ASSUME AccessInv, TypeOK, NEW o \in Orders, NEW lease \in Orders,
           DeliverWithAccess(o, lease) \/ ConfirmDelivery(o, lease)
    PROVE  AccessInv'
<1> DEFINE end == LeaseEndAt(now, LeaseUnit(lease, o), ord[lease].dur)
<1>1. SUFFICES ASSUME NEW x \in Orders PROVE AccessFits(x)'
  BY DEF AccessInv
<1>2. ~IsRenewal(o) /\ ord[o].status # "none"
  BY DEF DeliverWithAccess, ConfirmDelivery
<1>3. CASE DeliverWithAccess(o, lease)
  <2>1. /\ dlv' = [dlv EXCEPT ![o] = [access |-> "generated", confirmed |-> FALSE, exp |-> end]]
        /\ ord' = [ord EXCEPT ![o].status = "provisioning"]
        /\ ren' = ren
    BY <1>3 DEF DeliverWithAccess
  <2> HIDE DEF end
  <2>2. CASE x = o
    <3>1. ord'[o].status = "provisioning" /\ dlv'[o].access = "generated"
      BY <2>1 DEF TypeOK, Order
    <3> QED BY <1>2, <2>1, <2>2, <3>1 DEF AccessFits, IsRenewal
  <2>3. CASE x # o
    BY <2>1, <2>3, SameFits DEF TypeOK
  <2> QED BY <2>2, <2>3
<1>4. CASE ConfirmDelivery(o, lease)
  <2>1. /\ dlv' = [dlv EXCEPT ![o] = [access |-> "delivered", exp |-> end, confirmed |-> TRUE]]
        /\ ord' = [y \in Orders |->
                     IF y = o THEN [ord[o] EXCEPT !.status = "active", !.start = now, !.end = end]
                     ELSE IF y = lease THEN [ord[lease] EXCEPT !.start = now, !.end = end]
                     ELSE ord[y]]
        /\ ren' = IF lease = o THEN ren ELSE [ren EXCEPT ![lease].confirmed = TRUE]
    BY <1>4 DEF ConfirmDelivery
  <2>2. lease # o => ord[lease].status \in {"completed", "refunding"}
    BY <1>4, LeaseOrderRests DEF ConfirmDelivery
  <2> HIDE DEF end
  <2>3. \A y \in Orders : ren'[y].parent = ren[y].parent
    BY <2>1 DEF TypeOK, Renewal
  <2>4. CASE x = o
    <3>1. ord'[o].status = "active" /\ ord'[o].end = end
      BY <2>1 DEF TypeOK, Order
    <3>2. dlv'[o].access = "delivered" /\ dlv'[o].exp = end
      BY <2>1 DEF TypeOK
    <3> QED BY <1>2, <2>3, <2>4, <3>1, <3>2 DEF AccessFits, IsRenewal
  <2>5. CASE x = lease /\ x # o
    <3>1. ord'[x].status = ord[x].status /\ dlv'[x] = dlv[x]
      BY <2>1, <2>5 DEF TypeOK, Order
    <3> QED BY <2>2, <2>3, <2>5, <3>1 DEF AccessInv, AccessFits, IsRenewal
  <2>6. CASE x \notin {o, lease}
    BY <2>1, <2>3, <2>6, SameFits DEF TypeOK
  <2> QED BY <2>4, <2>5, <2>6
<1> QED BY <1>3, <1>4

\* A new order, or renewal, has no credential.
LEMMA NewOrderFits ==
    ASSUME AccessInv, TypeOK, NEW o \in Orders, ord[o].status = "none",
           ord'[o].status = "pending_payment", dlv' = dlv,
           \A x \in Orders \ {o} : ord'[x] = ord[x] /\ ren'[x] = ren[x]
    PROVE  AccessInv'
<1>1. AccessFits(o)'
  BY ClosedFits DEF AccessInv, AccessFits
<1>2. \A x \in Orders \ {o} : AccessFits(x)'
  BY SameFits
<1> QED BY <1>1, <1>2 DEF AccessInv

LEMMA OrderStepFits ==
    ASSUME AccessInv, TypeOK, FamiliesAreFlat, NEW o \in Orders, OrderStep(o)
    PROVE  AccessInv'
<1>1. ASSUME NEW p \in Products, NEW q \in 1..MaxOrderQuantity, NEW d \in Durations,
             PlaceOrder(o, p, q, d)
      PROVE  AccessInv'
  BY <1>1, NewOrderFits DEF PlaceOrder, IsNextOrder, TypeOK
<1>2. CASE PaymentArrives(o)
  BY <1>2, PaymentFits
<1>3. ASSUME NEW lease \in Orders, DeliverWithAccess(o, lease) \/ ConfirmDelivery(o, lease)
      PROVE  AccessInv'
  BY <1>3, DeliveryFits
<1>4. ASSUME NEW par \in Orders, NEW d \in Durations,
             RenewByExtension(o, par, d) \/ RenewByRestart(o, par, d)
      PROVE  AccessInv'
  <2>1. /\ ord[o].status = "none" /\ ord'[o].status = "pending_payment" /\ dlv' = dlv
        /\ \A x \in Orders \ {o} : ord'[x] = ord[x] /\ ren'[x] = ren[x]
    BY <1>4 DEF RenewByExtension, RenewByRestart, IsNextOrder, NewRenewalOrder, TypeOK
  <2> QED BY <2>1, NewOrderFits
<1>5. CASE CancelBuyerOrder(o) \/ AdminCancelOrder(o)
  BY <1>5, CloseOrderFits DEF CancelBuyerOrder, AdminCancelOrder
<1>6. CASE FreezeOrder(o)
  BY <1>6, FreezeFits
<1>7. CASE RequestRefund(o)
  BY <1>7, RequestRefundFits
<1>8. CASE CompleteRefund(o)
  BY <1>8, CloseOrderFits, RefundFits DEF CompleteRefund
<1> QED BY <1>1, <1>2, <1>3, <1>4, <1>5, <1>6, <1>7, <1>8 DEF OrderStep, TradeStep

LEMMA JobStepFits ==
    ASSUME AccessInv, TypeOK, JobStep
    PROVE  AccessInv'
<1>1. CASE RevokeExpiredAccess
  <2>1. SUFFICES ASSUME NEW x \in Orders PROVE AccessFits(x)'
    BY DEF AccessInv
  <2>2. ord' = ord /\ ren' = ren /\ dlv'[x].exp = dlv[x].exp
    BY <1>1 DEF RevokeExpiredAccess, TypeOK, Delivery
  <2>3. dlv'[x].access = dlv[x].access \/ dlv'[x].access = "revoked"
    BY <1>1 DEF RevokeExpiredAccess, TypeOK, Delivery
  <2> QED BY <2>2, <2>3 DEF AccessInv, AccessFits, IsRenewal, Revocable
<1>2. ASSUME NEW o \in todo, CloseExpiredUnpaid(o) \/ CompleteExpiredLease(o)
      PROVE  AccessInv'
  <2>1. o \in Orders
    BY DEF TypeOK
  <2>2. \/ UNCHANGED <<ord, ren, dlv>>
        \/ \E status \in {"cancelled", "completed"} : CloseOrder(o, status)
    BY <1>2 DEF CloseExpiredUnpaid, CompleteExpiredLease
  <2>3. CASE UNCHANGED <<ord, ren, dlv>>
    BY <2>3 DEF AccessInv, AccessFits, IsRenewal
  <2> QED BY <2>1, <2>2, <2>3, CloseOrderFits
<1>3. CASE UNCHANGED <<ord, ren, dlv>>
  BY <1>3 DEF AccessInv, AccessFits, IsRenewal
<1>4. \/ UNCHANGED <<ord, ren, dlv>>
      \/ RevokeExpiredAccess
      \/ \E o \in todo : CloseExpiredUnpaid(o) \/ CompleteExpiredLease(o)
  BY DEF JobStep, ListExpiredUnpaid, ListExpiredLeases, FinishRound
<1> QED BY <1>1, <1>2, <1>3, <1>4

LEMMA AccessStep == StockInv /\ AccessInv /\ [Next]_vars => AccessInv'
<1> SUFFICES ASSUME StockInv, AccessInv, [Next]_vars PROVE AccessInv'
  OBVIOUS
<1>0. TypeOK /\ FamiliesAreFlat
  BY DEF StockInv
<1>1. CASE UNCHANGED <<ord, ren, dlv>>
  BY <1>1 DEF AccessInv, AccessFits, IsRenewal
<1>2. ASSUME NEW p \in Products, SupplierStep(p) PROVE AccessInv'
  <2>1. UNCHANGED <<ord, ren, dlv>>
    BY <1>2 DEF SupplierStep, CreateProduct, ResubmitProduct, ReviewProduct, OfflineProduct,
       SupplierOfflineProduct, SyncResource
  <2> QED BY <1>1, <2>1
<1>3. ASSUME NEW s \in Suppliers, FreezeListings(s) PROVE AccessInv'
  BY <1>1, <1>3 DEF FreezeListings
<1>4. ASSUME NEW o \in Orders, OrderStep(o) PROVE AccessInv'
  BY <1>0, <1>4, OrderStepFits
<1>5. CASE JobStep
  BY <1>0, <1>5, JobStepFits
<1>6. CASE Crash \/ Tick \/ UNCHANGED vars
  BY <1>1, <1>6 DEF Crash, Tick, vars
<1> QED BY <1>2, <1>3, <1>4, <1>5, <1>6 DEF Next

\* A credential opens something only while its order is being delivered, in use, or in a
\* refund that is not through, and in use it ends with the lease: for any number of orders,
\* renewals, restarts, freezes and refunds, and any timing of the jobs (RevokeAccessByOrderTx
\* and all who call it).
THEOREM AccessFollows == Spec => []AccessFollowsLease
<1>1. Init => AccessInv
  BY DEF Init, AccessInv, AccessFits, NoOrder, NoDelivery, Revocable
<1>2. AccessInv => AccessFollowsLease
  BY DEF AccessInv, AccessFits, AccessFollowsLease, AccessOnlyWhileServed, AccessEndsWithLease
<1> QED BY <1>1, <1>2, AccessStep, StockInit, StockStep, PTL DEF Spec

-----------------------------------------------------------------------------
(* Paid time *)

\* What one step may not do to the lease of o, and to the renewal c.
EndedInTime(o) ==
    ord[o].status = "active" /\ ord'[o].status = "completed"
        => ord[o].end # None /\ ord[o].end <= now

RefundedUnused(c) ==
    IsRenewal(c) /\ ord[c].status # "refunded" /\ ord'[c].status = "refunded" =>
        IF ren[c].mode = "extend"
        THEN ord'[ren[c].parent].end = ren[c].oldEnd /\ now < ren[c].oldEnd
        ELSE ~ren[c].confirmed /\ ord'[ren[c].parent].status = "completed"

StepKeepsTime == \A o \in Orders : EndedInTime(o) /\ RefundedUnused(o)

\* An order that keeps its status, or gets one that is neither, loses no time.
LEMMA NothingLost ==
    ASSUME NEW x \in Orders,
           \/ ord'[x].status = ord[x].status
           \/ ord'[x].status \notin {"completed", "refunded"}
    PROVE  EndedInTime(x) /\ RefundedUnused(x)
BY DEF EndedInTime, RefundedUnused

\* Cancelling unpaid renewals takes no time from anyone.
LEMMA NothingLostByCancelling ==
    ASSUME TypeOK, NEW S, NEW x \in Orders, ord'[x] = WithCancelled(S)[x]
    PROVE  EndedInTime(x) /\ RefundedUnused(x)
<1>1. WithCancelled(S)[x].status \in {ord[x].status, "cancelled"}
  BY DEF WithCancelled, Emptied, TypeOK, Order
<1> QED BY <1>1, NothingLost

LEMMA CloseOrderKeepsTime ==
    ASSUME TypeOK, NEW o \in Orders, NEW status, CloseOrder(o, status),
           \/ status = "cancelled"
           \/ status = "refunded" /\ ~IsRenewal(o)
           \/ status = "completed" /\ LeaseIsOver(o)
    PROVE  StepKeepsTime
<1> DEFINE open == IF IsRenewal(o) THEN {} ELSE OpenRenewals(o)
<1>1. ord' = [WithCancelled(open) EXCEPT ![o] = Emptied(o, status)]
  BY DEF CloseOrder
<1> HIDE DEF open
<1>2. ord'[o].status = status
  BY <1>1 DEF WithCancelled, Emptied, TypeOK, Order
<1>3. EndedInTime(o) /\ RefundedUnused(o)
  BY <1>2 DEF EndedInTime, RefundedUnused, LeaseIsOver
<1>4. \A x \in Orders \ {o} : ord'[x] = WithCancelled(open)[x]
  BY <1>1 DEF WithCancelled
<1> QED BY <1>3, <1>4, NothingLostByCancelling DEF StepKeepsTime

\* Freezing, and asking for a refund.
LEMMA StatusKeepsTime ==
    ASSUME TypeOK, NEW o \in Orders, FreezeOrder(o) \/ RequestRefund(o)
    PROVE  StepKeepsTime
<1>1. PICK S, status : /\ status \in {"frozen", "refunding"}
                       /\ ord' = [WithCancelled(S) EXCEPT ![o].status = status]
  <2>1. CASE FreezeOrder(o)
    <3> DEFINE open == IF IsRenewal(o) THEN {} ELSE OpenRenewals(o)
    <3>1. ord' = [WithCancelled(open) EXCEPT ![o].status = "frozen"]
      BY <2>1 DEF FreezeOrder
    <3> HIDE DEF open
    <3> QED BY <3>1
  <2>2. CASE RequestRefund(o)
    <3> DEFINE open == OpenRenewals(IF IsRenewal(o) THEN ren[o].parent ELSE o)
    <3>1. ord' = [WithCancelled(open) EXCEPT ![o].status = "refunding"]
      BY <2>2 DEF RequestRefund
    <3> HIDE DEF open
    <3> QED BY <3>1
  <2> QED BY <2>1, <2>2
<1>2. ord'[o].status \notin {"completed", "refunded"}
  BY <1>1, WithCancelledType DEF Order
<1>3. EndedInTime(o) /\ RefundedUnused(o)
  BY <1>2 DEF EndedInTime, RefundedUnused
<1>4. \A x \in Orders \ {o} : ord'[x] = WithCancelled(S)[x]
  BY <1>1 DEF WithCancelled
<1> QED BY <1>3, <1>4, NothingLostByCancelling DEF StepKeepsTime

\* A refund of a renewal takes back a time that has not begun.
LEMMA RefundKeepsTime ==
    ASSUME TypeOK, FamiliesAreFlat, NEW c \in Orders, IsRenewal(c),
           RefundExtension(c) \/ RefundRestart(c)
    PROVE  StepKeepsTime
<1> DEFINE par == ren[c].parent
           open == OpenRenewals(par)
<1>1. par \in Orders /\ par # c /\ ren[c].applied /\ now \in Nat
  BY DEF FamiliesAreFlat, IsRenewal, TypeOK, Renewal, RefundExtension, RefundRestart, UnusedRenewal
<1>2. \A x \in Orders \ {c, par} : ord'[x] = WithCancelled(open)[x]
  BY <1>1 DEF RefundExtension, RefundRestart, WithCancelled
<1>3. CASE RefundExtension(c)
  <2>1. ord' = [WithCancelled(open) EXCEPT ![par].end = ren[c].oldEnd,
                                           ![c] = Emptied(c, "refunded")]
    BY <1>3 DEF RefundExtension
  <2>2. ren[c].mode = "extend" /\ ren[c].oldEnd > now /\ ren[c].oldEnd \in Times
    BY <1>3 DEF RefundExtension, UnusedRenewal, TypeOK, Renewal
  <2> HIDE DEF par, open
  <2>3. ord'[par].end = ren[c].oldEnd /\ ord'[par].status = WithCancelled(open)[par].status
    BY <1>1, <2>1, WithCancelledType DEF Order
  <2>4. ord'[c].status = "refunded"
    BY <1>1, <2>1 DEF WithCancelled, Emptied, TypeOK, Order
  <2>5. EndedInTime(c)
    BY <2>4 DEF EndedInTime
  <2>6. RefundedUnused(c)
    <3>1. now < ren[c].oldEnd
      BY <1>1, <2>2 DEF Times, None
    <3> QED BY <2>2, <2>3, <3>1 DEF RefundedUnused, par
  <2>7. EndedInTime(par) /\ RefundedUnused(par)
    <3>1. WithCancelled(open)[par].status \in {ord[par].status, "cancelled"}
      BY <1>1 DEF WithCancelled, Emptied, TypeOK, Order
    <3> QED BY <1>1, <2>3, <3>1, NothingLost
  <2> QED BY <1>2, <2>5, <2>6, <2>7, NothingLostByCancelling DEF StepKeepsTime
<1>4. CASE RefundRestart(c)
  <2>1. ord' = [WithCancelled(open) EXCEPT
                  ![par] = [Emptied(par, "completed") EXCEPT !.start = ren[c].prevStart,
                                                             !.end = ren[c].oldEnd],
                  ![c] = Emptied(c, "refunded")]
    BY <1>4 DEF RefundRestart
  <2>2. /\ ren[c].mode = "restart" /\ ~ren[c].confirmed
        /\ ord[par].status \in {"paid", "provisioning"}
    BY <1>4 DEF RefundRestart, UnusedRenewal
  <2> HIDE DEF par, open
  <2>3. ord'[par].status = "completed"
    BY <1>1, <2>1 DEF WithCancelled, Emptied, TypeOK, Order
  <2>4. ord'[c].status = "refunded"
    BY <1>1, <2>1 DEF WithCancelled, Emptied, TypeOK, Order
  <2>5. EndedInTime(c)
    BY <2>4 DEF EndedInTime
  <2>6. RefundedUnused(c)
    BY <2>2, <2>3 DEF RefundedUnused, par
  <2>7. EndedInTime(par) /\ RefundedUnused(par)
    BY <2>2, <2>3 DEF EndedInTime, RefundedUnused
  <2> QED BY <1>2, <2>5, <2>6, <2>7, NothingLostByCancelling DEF StepKeepsTime
<1> QED BY <1>3, <1>4

LEMMA PaymentKeepsTime ==
    ASSUME TypeOK, FamiliesAreFlat, NEW o \in Orders, PaymentArrives(o)
    PROVE  StepKeepsTime
<1> DEFINE par == ren[o].parent
<1>1. ord[o].status = "pending_payment" /\ ord'[o].status \in {"paid", "completed"}
  <2>1. CASE ConfirmPayment(o)
    BY <2>1 DEF ConfirmPayment, TypeOK, Order
  <2>2. CASE ApplyExtension(o) \/ ApplyRestart(o)
    <3>1. ord[o].status = "pending_payment"
      BY <2>2 DEF ApplyExtension, ApplyRestart
    <3>2. CASE ApplyExtension(o)
      BY <3>2 DEF ApplyExtension, TypeOK, Order
    <3>3. CASE ApplyRestart(o)
      BY <3>3 DEF ApplyRestart, TypeOK, Order
    <3> QED BY <2>2, <3>1, <3>2, <3>3
  <2> QED BY <2>1, <2>2 DEF PaymentArrives
<1>2. EndedInTime(o) /\ RefundedUnused(o)
  BY <1>1 DEF EndedInTime, RefundedUnused
<1>3. ASSUME NEW x \in Orders \ {o}
      PROVE  ord'[x].status \in {ord[x].status, "paid"}
  <2>1. CASE ConfirmPayment(o)
    BY <2>1 DEF ConfirmPayment, TypeOK
  <2>2. CASE ApplyExtension(o)
    BY <2>2 DEF ApplyExtension, TypeOK, Order
  <2>3. CASE ApplyRestart(o)
    BY <2>3, ZenonT(40) DEF ApplyRestart, TypeOK, Order
  <2> QED BY <2>1, <2>2, <2>3 DEF PaymentArrives
<1> QED BY <1>2, <1>3, NothingLost DEF StepKeepsTime

LEMMA OrderStepKeepsTime ==
    ASSUME TypeOK, FamiliesAreFlat, NEW o \in Orders, OrderStep(o)
    PROVE  StepKeepsTime
<1>1. ASSUME \A x \in Orders : ord'[x].status \in {ord[x].status, "pending_payment",
                                                   "provisioning", "active"}
      PROVE  StepKeepsTime
  BY <1>1, NothingLost DEF StepKeepsTime
<1>2. ASSUME NEW p \in Products, NEW q \in 1..MaxOrderQuantity, NEW d \in Durations,
             PlaceOrder(o, p, q, d)
      PROVE  StepKeepsTime
  BY <1>1, <1>2 DEF PlaceOrder, TypeOK
<1>3. CASE PaymentArrives(o)
  BY <1>3, PaymentKeepsTime
<1>4. ASSUME NEW lease \in Orders, DeliverWithAccess(o, lease) \/ ConfirmDelivery(o, lease)
      PROVE  StepKeepsTime
  <2>1. CASE DeliverWithAccess(o, lease)
    BY <1>1, <2>1 DEF DeliverWithAccess, TypeOK, Order
  <2>2. CASE ConfirmDelivery(o, lease)
    <3>1. \A x \in Orders : ord'[x].status \in {ord[x].status, "active"}
      BY <2>2 DEF ConfirmDelivery, TypeOK, Order
    <3> QED BY <1>1, <3>1
  <2> QED BY <1>4, <2>1, <2>2
<1>5. ASSUME NEW par \in Orders, NEW d \in Durations,
             RenewByExtension(o, par, d) \/ RenewByRestart(o, par, d)
      PROVE  StepKeepsTime
  BY <1>1, <1>5 DEF RenewByExtension, RenewByRestart, NewRenewalOrder, TypeOK
<1>6. CASE CancelBuyerOrder(o) \/ AdminCancelOrder(o)
  BY <1>6, CloseOrderKeepsTime DEF CancelBuyerOrder, AdminCancelOrder
<1>7. CASE FreezeOrder(o) \/ RequestRefund(o)
  BY <1>7, StatusKeepsTime
<1>8. CASE CompleteRefund(o)
  BY <1>8, CloseOrderKeepsTime, RefundKeepsTime DEF CompleteRefund
<1> QED BY <1>2, <1>3, <1>4, <1>5, <1>6, <1>7, <1>8 DEF OrderStep, TradeStep

LEMMA TimeStep == StockInv /\ [Next]_vars => StepKeepsTime
<1> SUFFICES ASSUME StockInv, [Next]_vars PROVE StepKeepsTime
  OBVIOUS
<1>0. TypeOK /\ FamiliesAreFlat
  BY DEF StockInv
<1>1. ASSUME ord' = ord PROVE StepKeepsTime
  BY <1>1, NothingLost DEF StepKeepsTime
<1>2. ASSUME NEW p \in Products, SupplierStep(p) PROVE StepKeepsTime
  <2>1. ord' = ord
    BY <1>2 DEF SupplierStep, CreateProduct, ResubmitProduct, ReviewProduct, OfflineProduct,
       SupplierOfflineProduct, SyncResource
  <2> QED BY <1>1, <2>1
<1>3. ASSUME NEW s \in Suppliers, FreezeListings(s) PROVE StepKeepsTime
  BY <1>1, <1>3 DEF FreezeListings
<1>4. ASSUME NEW o \in Orders, OrderStep(o) PROVE StepKeepsTime
  BY <1>0, <1>4, OrderStepKeepsTime
<1>5. ASSUME NEW o \in todo, CloseExpiredUnpaid(o) \/ CompleteExpiredLease(o)
      PROVE  StepKeepsTime
  <2>1. o \in Orders
    BY <1>0 DEF TypeOK
  <2>2. \/ ord' = ord
        \/ CloseOrder(o, "cancelled")
        \/ CloseOrder(o, "completed") /\ LeaseIsOver(o)
    BY <1>5 DEF CloseExpiredUnpaid, CompleteExpiredLease
  <2> QED BY <1>0, <1>1, <2>1, <2>2, CloseOrderKeepsTime
<1>6. CASE JobStep
  <2>1. ord' = ord \/ \E o \in todo : CloseExpiredUnpaid(o) \/ CompleteExpiredLease(o)
    BY <1>6 DEF JobStep, RevokeExpiredAccess, ListExpiredUnpaid, ListExpiredLeases, FinishRound
  <2> QED BY <1>1, <1>5, <2>1
<1>7. CASE Crash \/ Tick \/ UNCHANGED vars
  BY <1>1, <1>7 DEF Crash, Tick, vars
<1> QED BY <1>2, <1>3, <1>4, <1>6, <1>7 DEF Next

\* No step completes a lease before its end, although the job works from an old list, and
\* none refunds a renewal whose time has begun or whose delivery was signed for: for any
\* number of orders and renewals (releaseStockTxDeadline, unusedRenewal, refundRenewalTx).
THEOREM TimeIsKept == Spec => PaidTimeIsKept
<1>1. StepKeepsTime =>
        /\ \A o \in Orders :
              ord[o].status = "active" /\ ord'[o].status = "completed"
                  => ord[o].end # None /\ ord[o].end <= now
        /\ \A c \in Orders :
              IsRenewal(c) /\ ord[c].status # "refunded" /\ ord'[c].status = "refunded" =>
                  IF ren[c].mode = "extend"
                  THEN ord'[ren[c].parent].end = ren[c].oldEnd /\ now < ren[c].oldEnd
                  ELSE ~ren[c].confirmed /\ ord'[ren[c].parent].status = "completed"
  BY DEF StepKeepsTime, EndedInTime, RefundedUnused
<1> QED BY <1>1, TimeStep, StockInit, StockStep, PTL
        DEF Spec, PaidTimeIsKept, NoLeaseEndsEarly, RefundTakesUnusedTime

-----------------------------------------------------------------------------
(* What a lease and its renewals hold *)

Live == {"pending_payment", "paid", "provisioning", "active", "frozen", "refunding"}
Ended == {"completed", "refunded", "cancelled"}
Waiting == {"pending_payment", "frozen"}

\* A first lease holds its quantity as long as it lives, and nothing afterwards.
LeaseHolds(o) ==
    ord[o].status # "none" /\ ~IsRenewal(o) =>
        /\ ord[o].qty >= 1
        /\ ord[o].status \in Live => ord[o].reserved = ord[o].qty
        /\ ord[o].status \in Ended => ord[o].reserved = 0

\* A renewal holds units only as long as it waits to be paid, and only in place of its lease,
\* which has ended.
RenewalHolds(c) ==
    IsRenewal(c) =>
        /\ ord[c].status \in Waiting \cup {"refunding"} \cup Ended
        /\ ord[c].qty = ord[ren[c].parent].qty
        /\ ord[c].reserved # 0 => /\ ord[c].reserved = ord[c].qty
                                  /\ ord[c].status \in Waiting
                                  /\ ord[ren[c].parent].status = "completed"

\* Of the renewals of a lease, one waits at most.
OneWaits ==
    \A c, d \in {x \in Orders : IsRenewal(x) /\ ord[x].status \in Waiting} :
        ren[c].parent = ren[d].parent => c = d

HoldInv == OneWaits /\ \A o \in Orders : LeaseHolds(o) /\ RenewalHolds(o)

\* What a step does to one order, a new one excepted.
Moves(x) ==
    /\ ren'[x].parent = ren[x].parent
    /\ ord'[x].qty = ord[x].qty
    /\ \/ ord'[x].status = ord[x].status /\ ord'[x].reserved = ord[x].reserved
       \/ /\ ord[x].status # "none"
          /\ ord'[x].status \in Ended
          /\ ord'[x].reserved = 0
       \/ /\ ~IsRenewal(x)
          /\ ord[x].status \in Live /\ ord'[x].status \in Live
          /\ ord'[x].reserved = ord[x].reserved
       \/ /\ ~IsRenewal(x)
          /\ ord[x].status # "none" /\ ord'[x].status = "paid"
          /\ ord'[x].reserved = ord[x].qty
       \/ /\ IsRenewal(x)
          /\ ord[x].status \in Waiting /\ ord'[x].status = "frozen"
          /\ ord'[x].reserved = ord[x].reserved
       \/ /\ IsRenewal(x)
          /\ ord[x].status = "completed" /\ ord'[x].status = "refunding"
          /\ ord'[x].reserved = ord[x].reserved

\* A renewal that goes on holding units still has a lease that has ended.
HoldersStayAlone ==
    \A c \in Orders :
        IsRenewal(c) /\ ord'[c].reserved # 0 /\ ord[ren[c].parent].status = "completed"
            => ord'[ren[c].parent].status = "completed"

\* Such steps keep what families hold.
LEMMA MovesHold ==
    ASSUME HoldInv, FamiliesAreFlat, TypeOK, \A x \in Orders : Moves(x), HoldersStayAlone
    PROVE  HoldInv'
<1>1. \A x \in Orders : IsRenewal(x)' = IsRenewal(x) /\ ren'[x].parent = ren[x].parent
  BY DEF Moves, IsRenewal
<1>2. ASSUME NEW x \in Orders PROVE LeaseHolds(x)'
  <2> SUFFICES ASSUME ~IsRenewal(x), ord'[x].status # "none"
               PROVE  /\ ord'[x].qty >= 1
                      /\ ord'[x].status \in Live => ord'[x].reserved = ord'[x].qty
                      /\ ord'[x].status \in Ended => ord'[x].reserved = 0
    BY <1>1 DEF LeaseHolds
  <2> QED BY DEF Moves, HoldInv, LeaseHolds, Live, Ended
<1>3. ASSUME NEW c \in Orders PROVE RenewalHolds(c)'
  <2> DEFINE par == ren[c].parent
  <2> SUFFICES ASSUME IsRenewal(c)
               PROVE  /\ ord'[c].status \in Waiting \cup {"refunding"} \cup Ended
                      /\ ord'[c].qty = ord'[par].qty
                      /\ ord'[c].reserved # 0 => /\ ord'[c].reserved = ord'[c].qty
                                                 /\ ord'[c].status \in Waiting
                                                 /\ ord'[par].status = "completed"
    BY <1>1 DEF RenewalHolds
  <2>1. par \in Orders
    BY DEF IsRenewal, TypeOK, Renewal
  <2>2. RenewalHolds(c) /\ Moves(c) /\ Moves(par)
    BY <2>1 DEF HoldInv
  <2>3. ord'[c].status \in Waiting \cup {"refunding"} \cup Ended
    BY <2>2 DEF Moves, RenewalHolds, Waiting, Ended
  <2>4. ord'[c].qty = ord'[par].qty
    BY <2>2 DEF Moves, RenewalHolds
  <2>5. ASSUME ord'[c].reserved # 0
        PROVE  /\ ord'[c].reserved = ord'[c].qty
               /\ ord'[c].status \in Waiting
               /\ ord'[par].status = "completed"
    <3>1. ord[c].reserved # 0 /\ ord'[c].reserved = ord[c].reserved
      BY <2>2, <2>5 DEF Moves
    <3>2. ord[c].status \in Waiting /\ ord[par].status = "completed"
      BY <2>2, <3>1 DEF RenewalHolds
    <3>3. ord'[c].status \in Waiting
      BY <2>2, <2>5, <3>2 DEF Moves, Waiting, Live, Ended
    <3>4. ord'[par].status = "completed"
      BY <2>5, <3>2 DEF HoldersStayAlone
    <3> QED BY <2>2, <3>1, <3>3, <3>4 DEF Moves, RenewalHolds
  <2> QED BY <2>3, <2>4, <2>5
<1>4. OneWaits'
  <2>1. ASSUME NEW x \in Orders, IsRenewal(x), ord'[x].status \in Waiting
        PROVE  ord[x].status \in Waiting
    BY <2>1 DEF Moves, Waiting, Ended
  <2> QED BY <1>1, <2>1 DEF HoldInv, OneWaits
<1> QED BY <1>2, <1>3, <1>4 DEF HoldInv

\* Cancelling unpaid renewals is such a step.
LEMMA CancellingMoves ==
    ASSUME TypeOK, NEW S, \A c \in S : c \in Orders => ord[c].status = "pending_payment",
           NEW x \in Orders, ord'[x] = WithCancelled(S)[x], ren'[x].parent = ren[x].parent
    PROVE  /\ Moves(x)
           /\ ord[x].status = "completed" => ord'[x].status = "completed"
<1>1. CASE x \in S
  BY <1>1 DEF WithCancelled, Emptied, TypeOK, Order, Moves, Ended
<1>2. CASE x \notin S
  BY <1>2 DEF WithCancelled, Moves
<1> QED BY <1>1, <1>2

\* If no lease that has ended begins again, nothing else is to be looked at.
LEMMA EndedStay ==
    ASSUME TypeOK, \A x \in Orders : ord[x].status = "completed" /\ ~IsRenewal(x)
                                         => ord'[x].status = "completed",
           FamiliesAreFlat
    PROVE  HoldersStayAlone
<1>1. \A c \in Orders : IsRenewal(c) => ren[c].parent \in Orders /\ ~IsRenewal(ren[c].parent)
  BY DEF FamiliesAreFlat, IsRenewal, TypeOK, Renewal
<1> QED BY <1>1 DEF HoldersStayAlone

LEMMA CloseOrderHolds ==
    ASSUME HoldInv, FamiliesAreFlat, TypeOK, NEW o \in Orders, NEW status \in Ended,
           CloseOrder(o, status), ord[o].status # "none",
           IsRenewal(o) \/ ord[o].status # "completed"
    PROVE  HoldInv'
<1> DEFINE open == IF IsRenewal(o) THEN {} ELSE OpenRenewals(o)
<1>1. ord' = [WithCancelled(open) EXCEPT ![o] = Emptied(o, status)] /\ ren' = ren
  BY DEF CloseOrder
<1>2. \A c \in open : c \in Orders => ord[c].status = "pending_payment"
  BY OpenOnesWait
<1> HIDE DEF open
<1>3. Moves(o)
  BY <1>1 DEF WithCancelled, Emptied, TypeOK, Order, Moves
<1>4. \A x \in Orders \ {o} : /\ Moves(x)
                              /\ ord[x].status = "completed" => ord'[x].status = "completed"
  <2>1. \A x \in Orders \ {o} : ord'[x] = WithCancelled(open)[x]
    BY <1>1 DEF WithCancelled
  <2> QED BY <1>1, <1>2, <2>1, CancellingMoves
<1>5. HoldersStayAlone
  BY <1>4, EndedStay
<1> QED BY <1>3, <1>4, <1>5, MovesHold

LEMMA StatusHolds ==
    ASSUME HoldInv, FamiliesAreFlat, TypeOK, NEW o \in Orders, FreezeOrder(o) \/ RequestRefund(o)
    PROVE  HoldInv'
<1>1. PICK S, status : /\ \A c \in S : c \in Orders => ord[c].status = "pending_payment"
                       /\ ord' = [WithCancelled(S) EXCEPT ![o].status = status]
                       /\ ren' = ren
                       /\ \/ FreezeOrder(o) /\ status = "frozen"
                          \/ RequestRefund(o) /\ status = "refunding"
                       /\ o \notin S
  <2>1. CASE FreezeOrder(o)
    <3> DEFINE open == IF IsRenewal(o) THEN {} ELSE OpenRenewals(o)
    <3>1. ord' = [WithCancelled(open) EXCEPT ![o].status = "frozen"] /\ ren' = ren
      BY <2>1 DEF FreezeOrder
    <3>2. o \notin open
      BY DEF OpenRenewals, Children, IsRenewal, Orders
    <3>3. \A c \in open : c \in Orders => ord[c].status = "pending_payment"
      BY OpenOnesWait
    <3> HIDE DEF open
    <3> QED BY <2>1, <3>1, <3>2, <3>3
  <2>2. CASE RequestRefund(o)
    <3> DEFINE open == OpenRenewals(IF IsRenewal(o) THEN ren[o].parent ELSE o)
    <3>1. ord' = [WithCancelled(open) EXCEPT ![o].status = "refunding"] /\ ren' = ren
      BY <2>2 DEF RequestRefund
    <3>2. o \notin open
      BY <2>2 DEF OpenRenewals, Children, IsRenewal, Orders, RequestRefund
    <3>3. \A c \in open : c \in Orders => ord[c].status = "pending_payment"
      BY OpenOnesWait
    <3> HIDE DEF open
    <3> QED BY <2>2, <3>1, <3>2, <3>3
  <2> QED BY <2>1, <2>2
<1>2. /\ ord'[o].status = status
      /\ ord'[o].qty = ord[o].qty
      /\ ord'[o].reserved = ord[o].reserved
  BY <1>1 DEF WithCancelled, TypeOK, Order
<1>3. /\ Moves(o)
      /\ ord[o].status = "completed" => IsRenewal(o)
  <2>1. CASE FreezeOrder(o) /\ status = "frozen"
    <3>1. ord[o].status \in {"pending_payment", "paid", "provisioning", "active"}
      BY <2>1 DEF FreezeOrder
    <3>2. IsRenewal(o) => ord[o].status \in Waiting
      BY <3>1 DEF HoldInv, RenewalHolds, Waiting, Ended
    <3> QED BY <1>1, <1>2, <2>1, <3>1, <3>2 DEF Moves, Live
  <2>2. CASE RequestRefund(o) /\ status = "refunding"
    BY <1>1, <1>2, <2>2 DEF RequestRefund, Moves, Live
  <2> QED BY <1>1, <2>1, <2>2
<1>4. \A x \in Orders \ {o} : /\ Moves(x)
                              /\ ord[x].status = "completed" => ord'[x].status = "completed"
  <2>1. \A x \in Orders \ {o} : ord'[x] = WithCancelled(S)[x] /\ ren'[x].parent = ren[x].parent
    BY <1>1 DEF WithCancelled
  <2> QED BY <1>1, <2>1, CancellingMoves
<1>5. HoldersStayAlone
  BY <1>3, <1>4, EndedStay
<1> QED BY <1>3, <1>4, <1>5, MovesHold

LEMMA RefundHolds ==
    ASSUME HoldInv, FamiliesAreFlat, TypeOK, NEW c \in Orders, IsRenewal(c),
           ord[c].status = "refunding", RefundExtension(c) \/ RefundRestart(c)
    PROVE  HoldInv'
<1> DEFINE par == ren[c].parent
           open == OpenRenewals(par)
<1>1. par \in Orders /\ par # c /\ ren' = ren /\ ~IsRenewal(par) /\ ord[par].status # "none"
  BY DEF FamiliesAreFlat, IsRenewal, TypeOK, Renewal, RefundExtension, RefundRestart
<1>2. par \notin open
  BY <1>1 DEF OpenRenewals, Children, IsRenewal, Orders
<1>3. \A y \in open : y \in Orders => ord[y].status = "pending_payment"
  BY OpenOnesWait
<1>4. ord'[c] = Emptied(c, "refunded")
  BY <1>1, WithCancelledType DEF RefundExtension, RefundRestart, WithCancelled
<1>5. Moves(c)
  BY <1>1, <1>4 DEF Emptied, TypeOK, Order, Moves, Ended
<1>6. Moves(par) /\ (ord[par].status = "completed" => ord'[par].status = "completed")
  <2>1. CASE RefundExtension(c)
    <3>1. ord'[par] = [ord[par] EXCEPT !.end = ren[c].oldEnd]
      BY <1>1, <1>2, <2>1 DEF RefundExtension, WithCancelled
    <3> QED BY <1>1, <3>1 DEF Moves, TypeOK, Order
  <2>2. CASE RefundRestart(c)
    <3>1. ord'[par] = [Emptied(par, "completed") EXCEPT !.start = ren[c].prevStart,
                                                        !.end = ren[c].oldEnd]
      BY <1>1, <2>2 DEF RefundRestart, WithCancelled
    <3> QED BY <1>1, <3>1 DEF Emptied, Moves, TypeOK, Order, Ended
  <2> QED BY <2>1, <2>2
<1>7. \A x \in Orders \ {c, par} : /\ Moves(x)
                                   /\ ord[x].status = "completed" => ord'[x].status = "completed"
  <2>1. \A x \in Orders \ {c, par} : ord'[x] = WithCancelled(open)[x]
    BY <1>1 DEF RefundExtension, RefundRestart, WithCancelled
  <2> HIDE DEF par, open
  <2> QED BY <1>1, <1>3, <2>1, CancellingMoves
<1>8. HoldersStayAlone
  BY <1>6, <1>7, EndedStay
<1> QED BY <1>5, <1>6, <1>7, <1>8, MovesHold

\* Payment of a restart hands the units of the renewal to the lease, and no other renewal
\* holds any.
LEMMA PaymentHolds ==
    ASSUME HoldInv, FamiliesAreFlat, TypeOK, NEW o \in Orders, PaymentArrives(o)
    PROVE  HoldInv'
<1> DEFINE par == ren[o].parent
<1>1. CASE ConfirmPayment(o)
  <2>1. /\ ord[o].status = "pending_payment" /\ ~IsRenewal(o) /\ ren' = ren
        /\ ord' = [ord EXCEPT ![o].status = "paid"]
    BY <1>1 DEF ConfirmPayment
  <2>2. Moves(o)
    BY <2>1 DEF Moves, Live, TypeOK, Order
  <2>3. \A x \in Orders \ {o} : Moves(x) /\ ord'[x].status = ord[x].status
    BY <2>1 DEF Moves, TypeOK
  <2>4. HoldersStayAlone
    BY <2>1, <2>3, EndedStay
  <2> QED BY <2>2, <2>3, <2>4, MovesHold
<1>2. CASE ApplyExtension(o)
  <2>1. /\ IsRenewal(o) /\ ord[o].status = "pending_payment"
        /\ ord' = [ord EXCEPT ![par].end = ren[o].until,
                              ![o] = [ord[o] EXCEPT !.status = "completed", !.reserved = 0,
                                                    !.start = ren[o].oldEnd,
                                                    !.end = ren[o].until]]
        /\ ren' = [ren EXCEPT ![o].applied = TRUE]
    BY <1>2 DEF ApplyExtension
  <2>2. par \in Orders /\ par # o
    BY <2>1 DEF FamiliesAreFlat, IsRenewal, TypeOK, Renewal
  <2>3. \A y \in Orders : ren'[y].parent = ren[y].parent
    BY <2>1 DEF TypeOK, Renewal
  <2> HIDE DEF par
  <2>4. /\ ord'[o].status = "completed" /\ ord'[o].reserved = 0 /\ ord'[o].qty = ord[o].qty
        /\ \A x \in Orders \ {o} : /\ ord'[x].status = ord[x].status
                                   /\ ord'[x].reserved = ord[x].reserved
                                   /\ ord'[x].qty = ord[x].qty
    BY <2>1, <2>2 DEF TypeOK, Order
  <2>5. \A x \in Orders : Moves(x)
    BY <2>1, <2>3, <2>4 DEF Moves, Ended
  <2>6. HoldersStayAlone
    BY <2>1, <2>4, EndedStay
  <2> QED BY <2>5, <2>6, MovesHold
<1>3. CASE ApplyRestart(o)
  <2>1. /\ IsRenewal(o) /\ ord[o].status = "pending_payment"
        /\ ord' = [ord EXCEPT ![par] = [ord[par] EXCEPT !.status = "paid",
                                                        !.reserved = ord[o].qty,
                                                        !.start = None, !.end = None],
                              ![o] = [ord[o] EXCEPT !.status = "completed", !.reserved = 0,
                                                    !.start = None, !.end = None]]
        /\ ren' = [ren EXCEPT ![o].applied = TRUE, ![o].prevStart = ord[par].start]
    BY <1>3 DEF ApplyRestart
  <2>2. par \in Orders /\ par # o /\ ~IsRenewal(par) /\ ord[par].status # "none"
    BY <2>1 DEF FamiliesAreFlat, IsRenewal, TypeOK, Renewal
  <2>3. \A y \in Orders : ren'[y].parent = ren[y].parent
    BY <2>1 DEF TypeOK, Renewal
  <2>4. ord[o].qty = ord[par].qty
    BY <2>1 DEF HoldInv, RenewalHolds
  <2>5. \A d \in Orders \ {o} : IsRenewal(d) /\ ren[d].parent = par => ord[d].reserved = 0
    BY <2>1 DEF HoldInv, OneWaits, RenewalHolds, Waiting
  <2> HIDE DEF par
  <2>6. /\ ord'[o].status = "completed" /\ ord'[o].reserved = 0 /\ ord'[o].qty = ord[o].qty
        /\ ord'[par].status = "paid" /\ ord'[par].reserved = ord[o].qty
        /\ ord'[par].qty = ord[par].qty
        /\ \A x \in Orders \ {o, par} : ord'[x] = ord[x]
    BY <2>1, <2>2 DEF TypeOK, Order
  <2>7. \A x \in Orders : Moves(x)
    BY <2>1, <2>2, <2>3, <2>4, <2>6, ZenonT(40) DEF Moves, Ended
  <2>8. HoldersStayAlone
    <3>1. SUFFICES ASSUME NEW d \in Orders, IsRenewal(d), ord'[d].reserved # 0,
                          ord[ren[d].parent].status = "completed"
                   PROVE  ord'[ren[d].parent].status = "completed"
      BY DEF HoldersStayAlone
    <3>2. d # o /\ d # par
      BY <2>2, <2>6, <3>1
    <3>3. ren[d].parent # par
      BY <2>5, <2>6, <3>1, <3>2
    <3>4. ren[d].parent \in Orders /\ ren[d].parent # o
      BY <2>1, <3>1 DEF FamiliesAreFlat, IsRenewal, TypeOK, Renewal
    <3> QED BY <2>6, <3>1, <3>3, <3>4
  <2> QED BY <2>7, <2>8, MovesHold
<1> QED BY <1>1, <1>2, <1>3 DEF PaymentArrives

LEMMA DeliveryHolds ==
    ASSUME HoldInv, FamiliesAreFlat, TypeOK, NEW o \in Orders, NEW lease \in Orders,
           DeliverWithAccess(o, lease) \/ ConfirmDelivery(o, lease)
    PROVE  HoldInv'
<1>1. \A y \in Orders : ren'[y].parent = ren[y].parent
  BY DEF DeliverWithAccess, ConfirmDelivery, TypeOK, Renewal
<1>2. /\ ~IsRenewal(o) /\ ord[o].status \in {"paid", "provisioning"}
      /\ ord'[o].status \in {"provisioning", "active"}
      /\ ord'[o].qty = ord[o].qty /\ ord'[o].reserved = ord[o].reserved
  <2>1. CASE DeliverWithAccess(o, lease)
    BY <2>1 DEF DeliverWithAccess, TypeOK, Order
  <2>2. CASE ConfirmDelivery(o, lease)
    <3> DEFINE end == LeaseEndAt(now, LeaseUnit(lease, o), ord[lease].dur)
    <3>1. /\ ~IsRenewal(o) /\ ord[o].status = "provisioning"
          /\ ord'[o] = [ord[o] EXCEPT !.status = "active", !.start = now, !.end = end]
      BY <2>2 DEF ConfirmDelivery
    <3> HIDE DEF end
    <3> QED BY <3>1 DEF TypeOK, Order
  <2> QED BY <2>1, <2>2
<1>3. \A x \in Orders \ {o} : /\ ord'[x].status = ord[x].status
                              /\ ord'[x].qty = ord[x].qty
                              /\ ord'[x].reserved = ord[x].reserved
  <2>1. CASE DeliverWithAccess(o, lease)
    BY <2>1 DEF DeliverWithAccess, TypeOK
  <2>2. CASE ConfirmDelivery(o, lease)
    BY <2>2 DEF ConfirmDelivery, TypeOK, Order
  <2> QED BY <2>1, <2>2
<1>4. \A x \in Orders : Moves(x)
  BY <1>1, <1>2, <1>3 DEF Moves, Live
<1>5. HoldersStayAlone
  BY <1>2, <1>3, EndedStay
<1> QED BY <1>4, <1>5, MovesHold

\* A new first lease holds what it ordered.
LEMMA PlaceOrderHolds ==
    ASSUME HoldInv, FamiliesAreFlat, TypeOK, NEW o \in Orders, NEW p \in Products,
           NEW q \in 1..MaxOrderQuantity, NEW d \in Durations, PlaceOrder(o, p, q, d)
    PROVE  HoldInv'
<1>1. /\ ren' = ren /\ ord[o].status = "none"
      /\ ord'[o].status = "pending_payment" /\ ord'[o].qty = q /\ ord'[o].reserved = q
      /\ \A x \in Orders \ {o} : ord'[x] = ord[x]
  BY DEF PlaceOrder, IsNextOrder, TypeOK
<1>2. ~IsRenewal(o) /\ q >= 1
  BY <1>1, OrdersAssumption DEF FamiliesAreFlat
<1>3. \A x \in Orders : LeaseHolds(x)'
  BY <1>1, <1>2 DEF HoldInv, LeaseHolds, IsRenewal, Live, Ended
<1>4. \A x \in Orders : RenewalHolds(x)'
  <2>1. \A x \in Orders : IsRenewal(x) => x # o /\ ren[x].parent # o /\ ren[x].parent \in Orders
    BY <1>1, <1>2 DEF FamiliesAreFlat, IsRenewal, TypeOK, Renewal
  <2> QED BY <1>1, <2>1 DEF HoldInv, RenewalHolds, IsRenewal
<1>5. OneWaits'
  BY <1>1, <1>2 DEF HoldInv, OneWaits, IsRenewal
<1> QED BY <1>3, <1>4, <1>5 DEF HoldInv

\* A new renewal takes units only when its lease has given them back.
LEMMA RenewHolds ==
    ASSUME HoldInv, FamiliesAreFlat, TypeOK, NEW o \in Orders, NEW par \in Orders,
           NEW d \in Durations, RenewByExtension(o, par, d) \/ RenewByRestart(o, par, d)
    PROVE  HoldInv'
<1>1. /\ ord[o].status = "none" /\ ~IsRenewal(par)
      /\ ord[par].status \in {"active", "completed"}
      /\ \A c \in Children(par) : ord[c].status \notin Waiting
  BY DEF RenewByExtension, RenewByRestart, Renewable, IsNextOrder, Blocking, Waiting
<1>2. par # o
  BY <1>1
<1>3. /\ ord'[o].status = "pending_payment" /\ ord'[o].qty = ord[par].qty
      /\ ren'[o].parent = par
      /\ \A x \in Orders \ {o} : ord'[x] = ord[x] /\ ren'[x] = ren[x]
  <2>1. CASE RenewByExtension(o, par, d)
    BY <2>1 DEF RenewByExtension, NewRenewalOrder, NoRenewal, TypeOK
  <2>2. CASE RenewByRestart(o, par, d)
    BY <2>2 DEF RenewByRestart, NewRenewalOrder, NoRenewal, TypeOK
  <2> QED BY <2>1, <2>2
<1>4. ord'[o].reserved # 0 => ord'[o].reserved = ord[par].qty /\ ord[par].status = "completed"
  <2>1. CASE RenewByExtension(o, par, d)
    BY <2>1 DEF RenewByExtension, NewRenewalOrder, TypeOK
  <2>2. CASE RenewByRestart(o, par, d)
    <3>1. ord'[o].reserved = IF ord[par].reserved = 0 THEN ord[par].qty ELSE 0
      BY <2>2 DEF RenewByRestart, NewRenewalOrder, TypeOK
    <3>2. ord[par].status = "active" => ord[par].reserved = ord[par].qty /\ ord[par].qty >= 1
      BY <1>1 DEF HoldInv, LeaseHolds, Live
    <3> QED BY <1>1, <3>1, <3>2
  <2> QED BY <2>1, <2>2
<1>5. ren'[o].parent # 0 /\ IsRenewal(o)'
  BY <1>3 DEF IsRenewal, Orders
<1>6. \A x \in Orders : LeaseHolds(x)'
  BY <1>3, <1>5 DEF HoldInv, LeaseHolds, IsRenewal
<1>7. \A x \in Orders : RenewalHolds(x)'
  <2>1. RenewalHolds(o)'
    BY <1>2, <1>3, <1>4 DEF RenewalHolds, Waiting
  <2>2. ASSUME NEW x \in Orders \ {o} PROVE RenewalHolds(x)'
    <3>1. IsRenewal(x) => ren[x].parent \in Orders /\ ren[x].parent # o
      BY <1>1 DEF FamiliesAreFlat, IsRenewal, TypeOK, Renewal
    <3> QED BY <1>3, <3>1 DEF HoldInv, RenewalHolds, IsRenewal
  <2> QED BY <2>1, <2>2
<1>8. OneWaits'
  <2>1. \A x \in Orders \ {o} :
            IsRenewal(x) /\ ren[x].parent = par => ord[x].status \notin Waiting
    BY <1>1 DEF Children
  <2> QED BY <1>3, <2>1 DEF HoldInv, OneWaits, IsRenewal
<1> QED BY <1>6, <1>7, <1>8 DEF HoldInv

LEMMA OrderStepHolds ==
    ASSUME HoldInv, FamiliesAreFlat, TypeOK, NEW o \in Orders, OrderStep(o)
    PROVE  HoldInv'
<1>1. ASSUME NEW p \in Products, NEW q \in 1..MaxOrderQuantity, NEW d \in Durations,
             PlaceOrder(o, p, q, d)
      PROVE  HoldInv'
  BY <1>1, PlaceOrderHolds
<1>2. CASE PaymentArrives(o)
  BY <1>2, PaymentHolds
<1>3. ASSUME NEW lease \in Orders, DeliverWithAccess(o, lease) \/ ConfirmDelivery(o, lease)
      PROVE  HoldInv'
  BY <1>3, DeliveryHolds
<1>4. ASSUME NEW par \in Orders, NEW d \in Durations,
             RenewByExtension(o, par, d) \/ RenewByRestart(o, par, d)
      PROVE  HoldInv'
  BY <1>4, RenewHolds
<1>5. CASE CancelBuyerOrder(o) \/ AdminCancelOrder(o)
  BY <1>5, CloseOrderHolds DEF CancelBuyerOrder, AdminCancelOrder, Ended
<1>6. CASE FreezeOrder(o) \/ RequestRefund(o)
  BY <1>6, StatusHolds
<1>7. CASE CompleteRefund(o)
  BY <1>7, CloseOrderHolds, RefundHolds DEF CompleteRefund, Ended
<1> QED BY <1>1, <1>2, <1>3, <1>4, <1>5, <1>6, <1>7 DEF OrderStep, TradeStep

LEMMA HoldStep == StockInv /\ HoldInv /\ [Next]_vars => HoldInv'
<1> SUFFICES ASSUME StockInv, HoldInv, [Next]_vars PROVE HoldInv'
  OBVIOUS
<1>0. TypeOK /\ FamiliesAreFlat
  BY DEF StockInv
<1>1. ASSUME ord' = ord, ren' = ren PROVE HoldInv'
  BY <1>1 DEF HoldInv, OneWaits, LeaseHolds, RenewalHolds, IsRenewal
<1>2. ASSUME NEW p \in Products, SupplierStep(p) PROVE HoldInv'
  <2>1. ord' = ord /\ ren' = ren
    BY <1>2 DEF SupplierStep, CreateProduct, ResubmitProduct, ReviewProduct, OfflineProduct,
       SupplierOfflineProduct, SyncResource
  <2> QED BY <1>1, <2>1
<1>3. ASSUME NEW s \in Suppliers, FreezeListings(s) PROVE HoldInv'
  BY <1>1, <1>3 DEF FreezeListings
<1>4. ASSUME NEW o \in Orders, OrderStep(o) PROVE HoldInv'
  BY <1>0, <1>4, OrderStepHolds
<1>5. ASSUME NEW o \in todo, CloseExpiredUnpaid(o) \/ CompleteExpiredLease(o)
      PROVE  HoldInv'
  <2>1. o \in Orders
    BY <1>0 DEF TypeOK
  <2>2. \/ ord' = ord /\ ren' = ren
        \/ /\ \E status \in Ended : CloseOrder(o, status)
           /\ ord[o].status \in {"pending_payment", "active"}
    BY <1>5 DEF CloseExpiredUnpaid, CompleteExpiredLease, LeaseIsOver, Ended
  <2> QED BY <1>0, <1>1, <2>1, <2>2, CloseOrderHolds
<1>6. CASE JobStep
  <2>1. \/ ord' = ord /\ ren' = ren
        \/ \E o \in todo : CloseExpiredUnpaid(o) \/ CompleteExpiredLease(o)
    BY <1>6 DEF JobStep, RevokeExpiredAccess, ListExpiredUnpaid, ListExpiredLeases, FinishRound
  <2> QED BY <1>1, <1>5, <2>1
<1>7. CASE Crash \/ Tick \/ UNCHANGED vars
  BY <1>1, <1>7 DEF Crash, Tick, vars
<1> QED BY <1>2, <1>3, <1>4, <1>6, <1>7 DEF Next

\* What the orders hold one by one is what a family holds.
LEMMA HoldingsAdd ==
    ASSUME StockInv, HoldInv
    PROVE  FamilyHoldsQuantity
<1> SUFFICES ASSUME NEW o \in Orders, ord[o].status # "none", ~IsRenewal(o)
             PROVE  LET held == Cardinality(HeldUnits({o} \cup Children(o))) IN
                    /\ held \in {0, ord[o].qty}
                    /\ ord[o].status \in {"pending_payment", "paid", "provisioning", "active",
                                          "frozen", "refunding"} => ord[o].reserved = ord[o].qty
                    /\ ord[o].status \in {"refunded", "cancelled"} => held = 0
  BY DEF FamilyHoldsQuantity
<1> DEFINE held == Cardinality(HeldUnits({o} \cup Children(o)))
           family == {o} \cup Children(o)
<1>1. /\ TypeOK /\ FamiliesAreFlat /\ LeaseHolds(o)
      /\ \A c \in Children(o) : c \in Orders /\ IsRenewal(c) /\ ren[c].parent = o
      /\ \A c \in Children(o) : RenewalHolds(c) /\ c # o
  BY DEF StockInv, HoldInv, Children, IsRenewal, Orders
<1>2. \A x \in Orders : ord[x].reserved \in 0..MaxOrderQuantity
  BY <1>1, OrdersAssumption DEF FamiliesAreFlat, TypeOK, Order
<1>3. ASSUME NEW x \in family, \A y \in family \ {x} : ord[y].reserved = 0
      PROVE  held = ord[x].reserved
  <2>1. x \in Orders
    BY <1>1
  <2>2. HeldUnits(family) = HeldUnits({x})
    BY <1>3, <2>1, OrdersAssumption DEF HeldUnits, UnitsOf
  <2>3. Cardinality(HeldUnits({x})) = ord[x].reserved
    BY <1>2, <2>1, UnitsOfOne DEF HeldUnits
  <2> QED BY <2>2, <2>3
<1>4. CASE \A c \in Children(o) : ord[c].reserved = 0
  <2>1. held = ord[o].reserved
    BY <1>3, <1>4
  <2>2. ord[o].status \in Live \cup Ended
    BY <1>1 DEF TypeOK, Order, OrderStatus, Live, Ended
  <2> QED BY <1>1, <2>1, <2>2 DEF LeaseHolds, Live, Ended
<1>5. ASSUME NEW c \in Children(o), ord[c].reserved # 0
      PROVE  /\ held = ord[o].qty
             /\ ord[o].status = "completed"
  <2>1. /\ ord[c].reserved = ord[o].qty /\ ord[c].status \in Waiting
        /\ ord[o].status = "completed"
    BY <1>1, <1>5 DEF RenewalHolds
  <2>2. ord[o].reserved = 0
    BY <1>1, <2>1 DEF LeaseHolds, Ended
  <2>3. ASSUME NEW y \in Children(o) \ {c} PROVE ord[y].reserved = 0
    BY <1>1, <1>5, <2>1, <2>3 DEF RenewalHolds, HoldInv, OneWaits
  <2> QED BY <1>3, <2>1, <2>2, <2>3
<1> QED BY <1>4, <1>5

\* A lease and its renewals together hold the quantity of the lease while it lives, never
\* more, and nothing once it was closed or refunded: a restart takes no unit twice, for any
\* number of leases, renewals and units (RenewOrder, ApplyRenewalPaymentTx, refundRenewalTx).
THEOREM FamiliesHoldOnce == Spec => []FamilyHoldsQuantity
<1>1. Init => HoldInv
  <2> SUFFICES ASSUME Init PROVE HoldInv
    OBVIOUS
  <2>1. \A o \in Orders : ord[o].status = "none" /\ ren[o].parent = 0
    BY DEF Init, NoOrder, NoRenewal
  <2> QED BY <2>1 DEF HoldInv, OneWaits, LeaseHolds, RenewalHolds, IsRenewal
<1> QED BY <1>1, HoldingsAdd, HoldStep, StockInit, StockStep, PTL DEF Spec

-----------------------------------------------------------------------------
(* Bills for renewals *)

\* Ids are given out one after the other.
NoGaps ==
    \A x, y \in Orders : x < y /\ ord[x].status = "none" => ord[y].status = "none"

\* The credential of a lease in use opens something, unless it has expired.
InUseOpens(o) ==
    ord[o].status = "active" => dlv[o].access = "delivered" \/ After(now, dlv[o].exp)

Counts(c) == ord[c].status \in {"completed", "refunding"}

\* A row of order_renewals tells whether it was applied, and an extension lasts some time.
RowIsGood(c) ==
    /\ ren[c].applied <=> ord[c].status \in {"completed", "refunding", "refunded"}
    /\ ren[c].oldEnd # None
    /\ ren[c].mode = "extend" => ren[c].oldEnd < ren[c].until

\* A bill that can be paid is for the lease as it is, and is its last renewal.
BillIsGood(c, p) ==
    ord[c].status = "pending_payment" =>
        /\ ord[p].end = ren[c].oldEnd
        /\ \A d \in Children(p) : d <= c /\ ord[d].status # "refunding"
        /\ ren[c].mode = "extend" =>
              ord[p].status = "active" /\ ord[c].payExp <= ren[c].oldEnd
        /\ ren[c].mode = "restart" =>
              /\ ren[c].oldEnd <= now
              /\ ord[p].status \in {"active", "completed"}
              /\ ord[p].status = "completed" => ord[c].reserved = ord[c].qty

\* Extensions that count end with the lease at the latest, or are over.
ExtensionIsGood(c, p) ==
    ren[c].mode = "extend" /\ Counts(c) =>
        /\ ord[p].status = "active" => ren[c].until <= now \/ ren[c].until <= ord[p].end
        /\ ord[p].status \in {"pending_payment", "paid", "provisioning", "completed"}
               => ren[c].until <= now

\* A restart that waits to be signed for is the last one of a lease that is not in use.
RestartIsGood(c, p) ==
    ren[c].mode = "restart" /\ Counts(c) /\ ~ren[c].confirmed =>
        /\ ord[p].status \notin {"pending_payment", "active", "completed"}
        /\ ord[p].status \in {"paid", "provisioning"} =>
              \A d \in Children(p) : ren[d].mode = "restart" /\ Counts(d) => d <= c

\* While a renewal waits for its refund its lease does not begin again, and what could be
\* refunded instead is over.
RefundIsGood(c, p) ==
    ord[c].status = "refunding" =>
        /\ ren[c].mode = "extend" =>
              /\ ord[p].status \notin {"pending_payment", "paid", "provisioning"}
              /\ ord[p].status = "active" => ord[p].end = ren[c].until
        /\ ren[c].mode = "restart" =>
              /\ ord[p].status \in {"pending_payment", "paid", "provisioning"}
                     => ~ren[c].confirmed
              /\ ord[p].status = "active" =>
                    \A e \in Children(p) :
                        ren[e].mode = "extend" /\ Counts(e) => ren[e].until <= now

\* Extensions that count and are not over follow each other; one refund waits at most.
PairIsGood(c, d) ==
    /\ ren[c].mode = "extend" /\ ren[d].mode = "extend" /\ Counts(c) /\ Counts(d) =>
          \/ ren[c].until <= now
          \/ ren[d].until <= now
          \/ ren[c].until <= ren[d].oldEnd
          \/ ren[d].until <= ren[c].oldEnd
    /\ ord[c].status # "refunding" \/ ord[d].status # "refunding"

RenewalIsGood(c, p) ==
    /\ RowIsGood(c)
    /\ BillIsGood(c, p)
    /\ ExtensionIsGood(c, p)
    /\ RestartIsGood(c, p)
    /\ RefundIsGood(c, p)

FamilyIsGood(p) ==
    /\ \A c \in Children(p) : RenewalIsGood(c, p)
    /\ \A c, d \in Children(p) : c # d => PairIsGood(c, d)

OpenInv == NoGaps /\ \A o \in Orders : InUseOpens(o) /\ FamilyIsGood(o)

\* What most operations do to a lease and to a renewal at most: none makes a lease begin,
\* moves its end, or pays for a renewal.
QuietLease(p) ==
    /\ ord'[p].end = ord[p].end
    /\ \/ ord'[p].status = ord[p].status
       \/ ord'[p].status \in {"frozen", "cancelled", "refunding", "refunded"}
       \/ ord[p].status = "pending_payment" /\ ord'[p].status = "paid"
       \/ ord[p].status \in {"paid", "provisioning"} /\ ord'[p].status = "provisioning"
       \/ ord[p].status = "active" /\ ord'[p].status = "completed" /\ ord[p].end <= now

QuietRenewal(c) ==
    \/ /\ ord'[c].status = ord[c].status
       /\ ord'[c].payExp = ord[c].payExp
       /\ ord'[c].reserved = ord[c].reserved
       /\ ord'[c].qty = ord[c].qty
    \/ ord[c].status \in Waiting /\ ord'[c].status \in {"frozen", "cancelled"}

Quiet(p) ==
    /\ now' >= now
    /\ Children(p)' = Children(p)
    /\ \A c \in Children(p) :
          /\ QuietLease(p)
          /\ ren'[c] = ren[c]
          /\ QuietRenewal(c)
          /\ ord'[c].status = "pending_payment" => ord'[p].status = ord[p].status

LEMMA QuietKeeps ==
    ASSUME TypeOK, TypeOK', NEW p \in Orders, FamilyIsGood(p), Quiet(p)
    PROVE  FamilyIsGood(p)'
<1>0. now \in Int /\ now' \in Int /\ now' >= now
  BY DEF TypeOK, Quiet
<1>1. ASSUME NEW c \in Children(p)
      PROVE  /\ c \in Orders /\ RenewalIsGood(c, p) /\ QuietRenewal(c) /\ QuietLease(p)
             /\ ren'[c] = ren[c]
             /\ ren[c].oldEnd \in Int /\ ren[c].until \in Int
             /\ Counts(c)' = Counts(c)
             /\ ord'[c].status = "refunding" <=> ord[c].status = "refunding"
  BY <1>1 DEF FamilyIsGood, Quiet, Children, TypeOK, Renewal, Times, None, QuietRenewal,
     Waiting, Counts
<1>2. ASSUME NEW c \in Children(p) PROVE RenewalIsGood(c, p)'
  <2>1. RowIsGood(c)'
    BY <1>1 DEF RenewalIsGood, RowIsGood, QuietRenewal, Waiting
  <2>2. BillIsGood(c, p)'
    <3>1. SUFFICES ASSUME ord'[c].status = "pending_payment"
                   PROVE  BillIsGood(c, p)'
      BY DEF BillIsGood
    <3>2. /\ ord[c].status = "pending_payment" /\ ord'[p].status = ord[p].status
          /\ ord'[c].payExp = ord[c].payExp /\ ord'[c].reserved = ord[c].reserved
          /\ ord'[c].qty = ord[c].qty /\ ord'[p].end = ord[p].end
      BY <1>1, <3>1 DEF Quiet, QuietRenewal, QuietLease
    <3>3. \A d \in Children(p)' : d \in Children(p) /\ d <= c /\ ord'[d].status # "refunding"
      BY <1>1, <3>2 DEF Quiet, RenewalIsGood, BillIsGood
    <3>4. ren[c].oldEnd <= now => ren[c].oldEnd <= now'
      BY <1>0, <1>1
    <3> QED BY <1>1, <3>2, <3>3, <3>4 DEF RenewalIsGood, BillIsGood
  <2>3. ren[c].until <= now => ren[c].until <= now'
    BY <1>0, <1>1
  <2>4. ExtensionIsGood(c, p)'
    <3>1. ord[p].end \in Int
      BY DEF TypeOK, Order, Times, None
    <3>2. SUFFICES ASSUME ren[c].mode = "extend", Counts(c)
                   PROVE  ExtensionIsGood(c, p)'
      BY <1>1 DEF ExtensionIsGood
    <3>3. ren[c].until <= ord[p].end /\ ord[p].end <= now => ren[c].until <= now
      BY <1>0, <1>1, <3>1
    <3> QED BY <1>1, <2>3, <3>2, <3>3 DEF RenewalIsGood, ExtensionIsGood, Quiet, QuietLease
  <2>5. RestartIsGood(c, p)'
    <3>1. \A d \in Children(p)' : /\ d \in Children(p) /\ ren'[d] = ren[d]
                                  /\ Counts(d)' = Counts(d)
      BY <1>1 DEF Quiet
    <3> QED BY <1>1, <3>1 DEF RenewalIsGood, RestartIsGood, Quiet, QuietLease
  <2>6. RefundIsGood(c, p)'
    <3>1. \A d \in Children(p)' : /\ d \in Children(p) /\ ren'[d] = ren[d]
                                  /\ Counts(d)' = Counts(d)
                                  /\ ren[d].until <= now => ren[d].until <= now'
      BY <1>0, <1>1 DEF Quiet
    <3> QED BY <1>1, <3>1 DEF RenewalIsGood, RefundIsGood, Quiet, QuietLease
  <2> QED BY <2>1, <2>2, <2>4, <2>5, <2>6 DEF RenewalIsGood
<1>3. ASSUME NEW c \in Children(p), NEW d \in Children(p), c # d PROVE PairIsGood(c, d)'
  <2>1. PairIsGood(c, d)
    BY <1>3 DEF FamilyIsGood
  <2>2. /\ ren[c].until <= now => ren[c].until <= now'
        /\ ren[d].until <= now => ren[d].until <= now'
    BY <1>0, <1>1
  <2> QED BY <1>1, <2>1, <2>2 DEF PairIsGood
<1> QED BY <1>2, <1>3 DEF FamilyIsGood, Quiet

\* A renewal is of a lease that exists and is no renewal itself.
LEMMA ParentsAreLeases ==
    ASSUME TypeOK, FamiliesAreFlat, NEW p \in Orders, NEW c \in Children(p)
    PROVE  c \in Orders /\ c # p /\ IsRenewal(c) /\ ren[c].parent = p /\ ~IsRenewal(p)
           /\ ord[p].status # "none" /\ ord[c].status # "none"
BY DEF Children, IsRenewal, FamiliesAreFlat, Orders

LEMMA GapsStay ==
    ASSUME NoGaps, \A x \in Orders : ord'[x].status = "none" => ord[x].status = "none",
           \A x \in Orders : ord[x].status = "none" => ord'[x].status = "none"
    PROVE  NoGaps'
BY DEF NoGaps, Orders

\* A step that ends, freezes or gives back o and closes the unpaid renewals of a lease.
Ending(o, status) ==
    /\ ren' = ren /\ now' = now
    /\ ord'[o].status = status /\ ord'[o].end = ord[o].end
    /\ \A x \in Orders \ {o} :
          ord'[x] = WithCancelled(IF IsRenewal(o) THEN {} ELSE OpenRenewals(o))[x]
    /\ ord[o].status # "none"
    /\ IF IsRenewal(o)
       THEN ord[o].status \in Waiting /\ status \in {"frozen", "cancelled"}
       ELSE \/ status \in {"frozen", "cancelled", "refunding", "refunded"}
            \/ status = "completed" /\ ord[o].status = "active" /\ ord[o].end <= now
    /\ \A x \in Orders \ {o} : dlv'[x] = dlv[x]

LEMMA EndingKeeps ==
    ASSUME OpenInv, TypeOK, TypeOK', FamiliesAreFlat, NEW o \in Orders, NEW status,
           Ending(o, status)
    PROVE  OpenInv'
<1> DEFINE open == IF IsRenewal(o) THEN {} ELSE OpenRenewals(o)
<1>1. /\ ren' = ren /\ now' = now /\ o \notin open
      /\ \A x \in Orders \ {o} : ord'[x] = WithCancelled(open)[x] /\ dlv'[x] = dlv[x]
      /\ ord'[o].status = status /\ ord'[o].end = ord[o].end
      /\ ord[o].status # "none"
  BY DEF Ending, OpenRenewals, Children, IsRenewal, Orders
<1>2. \A x \in open : x \in Orders /\ IsRenewal(x) /\ ord[x].status = "pending_payment"
  BY DEF OpenRenewals, Children, IsRenewal, Orders
<1>3. ASSUME NEW x \in Orders \ {o}
      PROVE  \/ x \notin open /\ ord'[x] = ord[x]
             \/ /\ x \in open /\ ord[x].status = "pending_payment"
                /\ ord'[x].status = "cancelled" /\ ord'[x].end = ord[x].end
  <2> HIDE DEF open
  <2>1. CASE x \in open
    <3>1. ord'[x] = [ord[x] EXCEPT !.status = "cancelled", !.reserved = 0]
      BY <1>1, <2>1 DEF WithCancelled, Emptied
    <3> QED BY <1>2, <2>1, <3>1 DEF TypeOK, Order
  <2>2. CASE x \notin open
    BY <1>1, <2>2 DEF WithCancelled
  <2> QED BY <2>1, <2>2
<1>4. IF IsRenewal(o)
      THEN ord[o].status \in Waiting /\ status \in {"frozen", "cancelled"}
      ELSE \/ status \in {"frozen", "cancelled", "refunding", "refunded"}
           \/ status = "completed" /\ ord[o].status = "active" /\ ord[o].end <= now
  BY DEF Ending
<1>5. \A x \in Orders : ~IsRenewal(o) /\ x \in Children(o) /\ ord[x].status = "pending_payment"
                          => x \in open
  BY DEF OpenRenewals
<1> HIDE DEF open
<1>6. ASSUME NEW p \in Orders PROVE Quiet(p)
  <2>1. QuietLease(p)
    <3>1. CASE p = o
      BY <1>1, <1>4, <3>1 DEF QuietLease
    <3>2. CASE p # o
      BY <1>3, <3>2 DEF QuietLease
    <3> QED BY <3>1, <3>2
  <2>2. Children(p)' = Children(p)
    BY <1>1 DEF Children
  <2>3. ASSUME NEW c \in Children(p)
        PROVE  /\ QuietRenewal(c)
               /\ ord'[c].status = "pending_payment" => ord'[p].status = ord[p].status
    <3>1. c \in Orders /\ c # p /\ IsRenewal(c) /\ ~IsRenewal(p) /\ p \notin open
      BY <1>2, ParentsAreLeases
    <3>2. CASE c = o
      BY <1>1, <1>3, <1>4, <3>1, <3>2 DEF QuietRenewal, Waiting
    <3>3. CASE c # o
      BY <1>1, <1>3, <1>4, <1>5, <3>1, <3>3 DEF QuietRenewal, Waiting
    <3> QED BY <3>2, <3>3
  <2> QED BY <1>1, <2>1, <2>2, <2>3 DEF Quiet, TypeOK
<1>7. ASSUME NEW x \in Orders PROVE InUseOpens(x)'
  BY <1>1, <1>3, <1>4 DEF OpenInv, InUseOpens
<1>8. NoGaps'
  <2>1. status # "none"
    BY <1>4
  <2> QED BY <1>1, <1>3, <2>1, GapsStay DEF OpenInv
<1> QED BY <1>6, <1>7, <1>8, QuietKeeps DEF OpenInv

\* A step that leaves the orders alone, and does not spoil a credential in use.
LEMMA StillKeeps ==
    ASSUME OpenInv, TypeOK, TypeOK', ord' = ord, ren' = ren, now' >= now,
           \A o \in Orders : InUseOpens(o)'
    PROVE  OpenInv'
<1>1. \A p \in Orders : Quiet(p)
  BY DEF Quiet, QuietLease, QuietRenewal, Children
<1>2. NoGaps'
  BY DEF OpenInv, NoGaps
<1> QED BY <1>1, <1>2, QuietKeeps DEF OpenInv

LEMMA CloseOrderKeepsBills ==
    ASSUME OpenInv, HoldInv, TypeOK, TypeOK', FamiliesAreFlat, NEW o \in Orders,
           NEW status \in {"cancelled", "refunded", "completed"}, CloseOrder(o, status),
           now' = now, ord[o].status # "none",
           IsRenewal(o) => status = "cancelled" /\ ord[o].status \notin {"completed", "refunding"}
                              /\ ord[o].status \notin Ended,
           status = "completed" => ord[o].status = "active" /\ ord[o].end <= now
    PROVE  OpenInv'
<1> DEFINE open == IF IsRenewal(o) THEN {} ELSE OpenRenewals(o)
<1>1. ord' = [WithCancelled(open) EXCEPT ![o] = Emptied(o, status)] /\ ren' = ren
  BY DEF CloseOrder
<1>2. \A x \in Orders \ {o} : ord'[x] = WithCancelled(open)[x]
  BY <1>1 DEF WithCancelled
<1>3. ord'[o].status = status /\ ord'[o].end = ord[o].end
  <2> HIDE DEF open
  <2>1. ord'[o] = Emptied(o, status)
    BY <1>1 DEF WithCancelled
  <2> QED BY <2>1 DEF Emptied, TypeOK, Order
<1>4. \A x \in Orders \ {o} : dlv'[x] = dlv[x]
  BY RevokedIsShut DEF CloseOrder
<1>5. IsRenewal(o) => ord[o].status \in Waiting
  BY DEF HoldInv, RenewalHolds, Ended
<1>6. Ending(o, status)
  BY <1>1, <1>2, <1>3, <1>4, <1>5 DEF Ending
<1> QED BY <1>6, EndingKeeps

LEMMA FreezeKeepsBills ==
    ASSUME OpenInv, HoldInv, TypeOK, TypeOK', FamiliesAreFlat, NEW o \in Orders, FreezeOrder(o)
    PROVE  OpenInv'
<1> DEFINE open == IF IsRenewal(o) THEN {} ELSE OpenRenewals(o)
<1>1. /\ ord' = [WithCancelled(open) EXCEPT ![o].status = "frozen"] /\ ren' = ren /\ now' = now
      /\ dlv' = AccessRevoked(o)
      /\ ord[o].status \in {"pending_payment", "paid", "provisioning", "active"}
  BY DEF FreezeOrder
<1>2. o \notin open
  BY DEF OpenRenewals, Children, IsRenewal, Orders
<1>3. \A x \in Orders \ {o} : ord'[x] = WithCancelled(open)[x]
  BY <1>1 DEF WithCancelled
<1>4. ord'[o].status = "frozen" /\ ord'[o].end = ord[o].end
  <2> HIDE DEF open
  <2> QED BY <1>1, <1>2 DEF WithCancelled, TypeOK, Order
<1>5. \A x \in Orders \ {o} : dlv'[x] = dlv[x]
  BY <1>1, RevokedIsShut
<1>6. IsRenewal(o) => ord[o].status \in Waiting
  BY <1>1 DEF HoldInv, RenewalHolds, Ended, Waiting
<1>7. Ending(o, "frozen")
  BY <1>1, <1>3, <1>4, <1>5, <1>6 DEF Ending
<1> QED BY <1>7, EndingKeeps

\* A lease that is given back as a whole.
LEMMA GiveBackKeepsBills ==
    ASSUME OpenInv, TypeOK, TypeOK', FamiliesAreFlat, NEW o \in Orders, RequestRefund(o),
           ~IsRenewal(o)
    PROVE  OpenInv'
<1> DEFINE open == OpenRenewals(o)
<1>1. /\ ord' = [WithCancelled(open) EXCEPT ![o].status = "refunding"] /\ ren' = ren
      /\ now' = now /\ dlv' = dlv /\ ord[o].status # "none"
  BY DEF RequestRefund
<1>2. o \notin open
  BY DEF OpenRenewals, Children, IsRenewal, Orders
<1>3. \A x \in Orders \ {o} : ord'[x] = WithCancelled(open)[x]
  BY <1>1 DEF WithCancelled
<1>4. ord'[o].status = "refunding" /\ ord'[o].end = ord[o].end
  <2> HIDE DEF open
  <2> QED BY <1>1, <1>2 DEF WithCancelled, TypeOK, Order
<1>5. Ending(o, "refunding")
  BY <1>1, <1>3, <1>4 DEF Ending
<1> QED BY <1>5, EndingKeeps

\* A family that a step on another one leaves alone.
OneFamily(q) ==
    /\ now' = now
    /\ ~IsRenewal(q) /\ ord[q].status # "none"
    /\ \A x \in Orders :
          \/ ren'[x].parent = ren[x].parent
          \/ ren[x].parent = 0 /\ ren'[x].parent = q /\ ord[x].status = "none"
    /\ \A x \in Orders \ {q} :
          \/ ren[x].parent = q
          \/ ren'[x].parent = q
          \/ ord'[x] = ord[x] /\ ren'[x] = ren[x] /\ dlv'[x] = dlv[x]

LEMMA OneFamilyKeeps ==
    ASSUME OpenInv, TypeOK, TypeOK', FamiliesAreFlat, NEW q \in Orders, OneFamily(q),
           NoGaps', \A o \in Orders : o = q \/ ord'[o].status # "active" \/ ord'[o] = ord[o],
           \A o \in Orders \ {q} : dlv'[o] = dlv[o], InUseOpens(q)', FamilyIsGood(q)'
    PROVE  OpenInv'
<1>1. now' = now /\ now' >= now
  BY DEF OneFamily, TypeOK
<1>2. ASSUME NEW p \in Orders \ {q} PROVE Quiet(p)
  <2>1. Children(p)' = Children(p)
    BY DEF OneFamily, Children, Orders
  <2>2. ASSUME NEW c \in Children(p)
        PROVE  ord'[p] = ord[p] /\ ord'[c] = ord[c] /\ ren'[c] = ren[c]
    <3>1. /\ c \in Orders /\ ren[c].parent = p /\ ren[p].parent = 0
          /\ ord[p].status # "none" /\ ord[c].status # "none"
      BY ParentsAreLeases DEF IsRenewal
    <3>2. ren'[c].parent # q /\ ren'[p].parent # q /\ c # q
      BY <3>1 DEF OneFamily, Orders, IsRenewal
    <3> QED BY <3>1, <3>2 DEF OneFamily, Orders
  <2> QED BY <1>1, <2>1, <2>2 DEF Quiet, QuietLease, QuietRenewal
<1>3. ASSUME NEW o \in Orders \ {q} PROVE InUseOpens(o)'
  BY <1>1 DEF OpenInv, InUseOpens
<1> QED BY <1>2, <1>3, QuietKeeps DEF OpenInv

\* Payment of a first lease, and its delivery until it is signed for.
LEMMA BeginningKeepsBills ==
    ASSUME OpenInv, TypeOK, TypeOK', FamiliesAreFlat, NEW o \in Orders,
           \/ ConfirmPayment(o) /\ now' = now
           \/ \E lease \in Orders : DeliverWithAccess(o, lease)
    PROVE  OpenInv'
<1>1. /\ ~IsRenewal(o) /\ ren' = ren /\ now' = now
      /\ \/ ord[o].status = "pending_payment" /\ ord'[o].status = "paid"
         \/ ord[o].status \in {"paid", "provisioning"} /\ ord'[o].status = "provisioning"
      /\ ord'[o].end = ord[o].end
      /\ \A x \in Orders \ {o} : ord'[x] = ord[x] /\ dlv'[x] = dlv[x]
  BY DEF ConfirmPayment, DeliverWithAccess, TypeOK, Order
<1>2. ASSUME NEW p \in Orders PROVE Quiet(p)
  <2>1. QuietLease(p)
    BY <1>1 DEF QuietLease
  <2>2. \A c \in Children(p) : c \in Orders /\ c # o
    BY <1>1, ParentsAreLeases
  <2>3. \A c \in Children(p) :
           ord[c].status = "pending_payment" => ord[p].status \in {"active", "completed"}
    BY DEF OpenInv, FamilyIsGood, RenewalIsGood, BillIsGood, TypeOK, Renewal, Children
  <2> QED BY <1>1, <2>1, <2>2, <2>3 DEF Quiet, QuietRenewal, Children, TypeOK
<1>3. \A x \in Orders : InUseOpens(x)'
  BY <1>1 DEF OpenInv, InUseOpens
<1>4. NoGaps'
  BY <1>1, GapsStay DEF OpenInv
<1> QED BY <1>2, <1>3, <1>4, QuietKeeps DEF OpenInv

\* The next order leaves no gap.
LEMMA NextLeavesNoGap ==
    ASSUME NoGaps, NEW o \in Orders, IsNextOrder(o), ord'[o].status # "none",
           \A x \in Orders \ {o} : ord'[x] = ord[x]
    PROVE  NoGaps'
BY DEF NoGaps, IsNextOrder, Orders

LEMMA PlaceOrderKeepsBills ==
    ASSUME OpenInv, TypeOK, TypeOK', FamiliesAreFlat, NEW o \in Orders, NEW p \in Products,
           NEW n \in 1..MaxOrderQuantity, NEW d \in Durations, PlaceOrder(o, p, n, d)
    PROVE  OpenInv'
<1>1. /\ ren' = ren /\ now' = now /\ dlv' = dlv /\ ord[o].status = "none"
      /\ ord'[o].status = "pending_payment"
      /\ \A x \in Orders \ {o} : ord'[x] = ord[x]
      /\ IsNextOrder(o)
  BY DEF PlaceOrder, IsNextOrder, TypeOK
<1>2. ASSUME NEW f \in Orders PROVE Quiet(f)
  <2>1. \A c \in Children(f) : c \in Orders /\ c # o /\ f # o
    BY <1>1, ParentsAreLeases
  <2> QED BY <1>1, <2>1 DEF Quiet, QuietLease, QuietRenewal, Children, TypeOK
<1>3. \A x \in Orders : InUseOpens(x)'
  BY <1>1 DEF OpenInv, InUseOpens
<1>4. NoGaps'
  BY <1>1, NextLeavesNoGap DEF OpenInv
<1> QED BY <1>2, <1>3, <1>4, QuietKeeps DEF OpenInv

\* An extension that is quoted lasts some time.
LEMMA QuoteLasts ==
    ASSUME TypeOK, NEW par \in Orders, NEW d \in Durations, Renewable(par)
    PROVE  /\ ord[par].end \in Nat
           /\ RenewedUntil(par, d) \in Nat
           /\ ord[par].end < RenewedUntil(par, d)
<1> DEFINE unit == prod[ord[par].product].unit
<1>1. ord[par].end \in Nat /\ unit \in Nat /\ unit # Perpetual
  BY DEF Renewable, TypeOK, Order, Product, Times
<1>2. unit \in Nat \ {0} /\ d \in Nat \ {0}
  BY <1>1, OrdersAssumption DEF Perpetual
<1>3. RenewedUntil(par, d) = ord[par].end + unit * d
  BY <1>1 DEF RenewedUntil, LeaseEndAt
<1> HIDE DEF unit
<1>4. unit * d \in Nat /\ unit * d > 0
  BY <1>2
<1> QED BY <1>1, <1>3, <1>4

\* A renewal is quoted for a lease whose other renewals wait for nothing.
LEMMA RenewKeepsBills ==
    ASSUME OpenInv, TypeOK, TypeOK', FamiliesAreFlat, NEW o \in Orders, NEW par \in Orders,
           NEW d \in Durations, RenewByExtension(o, par, d) \/ RenewByRestart(o, par, d)
    PROVE  OpenInv'
<1>1. /\ IsNextOrder(o) /\ Renewable(par) /\ ord[o].status = "none"
      /\ ~IsRenewal(par) /\ ord[par].status \in {"active", "completed"}
      /\ now' = now /\ dlv' = dlv /\ par # o /\ ren[o].parent = 0
  BY DEF RenewByExtension, RenewByRestart, Renewable, IsNextOrder, FamiliesAreFlat, IsRenewal
<1>2. /\ ord'[o].status = "pending_payment" /\ ord'[o].qty = ord[par].qty
      /\ ren'[o].parent = par /\ ren'[o].oldEnd = ord[par].end /\ ~ren'[o].applied
      /\ \A x \in Orders \ {o} : ord'[x] = ord[x] /\ ren'[x] = ren[x]
      /\ \/ /\ ren'[o].mode = "extend" /\ ren'[o].until = RenewedUntil(par, d)
            /\ ord'[o].payExp = Lower(now + PayWindow, ord[par].end)
            /\ ord[par].status = "active"
         \/ /\ ren'[o].mode = "restart" /\ ord[par].end <= now
            /\ ord'[o].reserved = IF ord[par].reserved = 0 THEN ord[par].qty ELSE 0
  <2>1. CASE RenewByExtension(o, par, d)
    <3> DEFINE t == RenewedUntil(par, d)
    <3>1. /\ ord' = [ord EXCEPT ![o] =
                       NewRenewalOrder(par, 0, d, Lower(now + PayWindow, ord[par].end))]
          /\ ren' = [ren EXCEPT ![o] =
                       [NoRenewal EXCEPT !.parent = par, !.mode = "extend",
                                         !.oldEnd = ord[par].end, !.until = t]]
          /\ ord[par].status = "active"
      BY <2>1 DEF RenewByExtension
    <3> HIDE DEF t
    <3>2. ren'[o].until = t
      BY <3>1 DEF NoRenewal, TypeOK
    <3> QED BY <3>1, <3>2 DEF NewRenewalOrder, NoRenewal, TypeOK, t
  <2>2. CASE RenewByRestart(o, par, d)
    BY <2>2 DEF RenewByRestart, NewRenewalOrder, NoRenewal, TypeOK
  <2> QED BY <2>1, <2>2
<1>3. /\ Children(par)' = Children(par) \cup {o} /\ o \notin Children(par)
      /\ \A c \in Children(par) :
            /\ c \in Orders /\ c # o /\ c # par /\ c < o
            /\ ord[c].status \notin Blocking /\ ord[c].status # "none"
            /\ RenewalIsGood(c, par)
  <2>1. Children(par)' = Children(par) \cup {o} /\ o \notin Children(par)
    BY <1>1, <1>2 DEF Children, Orders
  <2>2. ASSUME NEW c \in Children(par)
        PROVE  /\ c \in Orders /\ c # o /\ c # par /\ c < o
               /\ ord[c].status \notin Blocking /\ ord[c].status # "none"
    <3>1. c \in Orders /\ c # o /\ c # par /\ ord[c].status # "none"
      BY <1>1, ParentsAreLeases
    <3>2. ~(o < c)
      BY <1>1, <3>1 DEF OpenInv, NoGaps
    <3>3. c < o
      BY <3>1, <3>2, OrdersAssumption DEF Orders
    <3> QED BY <1>1, <3>1, <3>3 DEF Renewable
  <2> QED BY <2>1, <2>2 DEF OpenInv, FamilyIsGood
<1>4. OneFamily(par)
  BY <1>1, <1>2 DEF OneFamily
<1>5. /\ ord[par].end \in Nat /\ RenewedUntil(par, d) \in Nat
      /\ ord[par].end < RenewedUntil(par, d)
  BY <1>1, QuoteLasts
<1>6. RenewalIsGood(o, par)'
  <2>1. RowIsGood(o)'
    BY <1>2, <1>5 DEF RowIsGood, None
  <2>2. BillIsGood(o, par)'
    <3>1. \A x \in Children(par)' : x <= o /\ ord'[x].status # "refunding"
      BY <1>2, <1>3 DEF Blocking, Orders
    <3>2. now + PayWindow \in Int /\ Lower(now + PayWindow, ord[par].end) <= ord[par].end
      BY <1>5, OrdersAssumption DEF TypeOK, Lower
    <3>3. ord[par].status = "completed" => ord[par].reserved = 0
      BY <1>1 DEF Renewable
    <3> QED BY <1>1, <1>2, <3>1, <3>2, <3>3 DEF BillIsGood
  <2>3. ~Counts(o)' /\ ord'[o].status # "refunding"
    BY <1>2 DEF Counts
  <2> QED BY <2>1, <2>2, <2>3
          DEF RenewalIsGood, ExtensionIsGood, RestartIsGood, RefundIsGood
<1>7. ASSUME NEW c \in Children(par) PROVE RenewalIsGood(c, par)'
  <2>1. /\ ord'[c] = ord[c] /\ ren'[c] = ren[c] /\ ord'[par] = ord[par] /\ now' = now
        /\ ord[c].status \notin Blocking /\ RenewalIsGood(c, par)
        /\ ord[par].status \in {"active", "completed"}
    BY <1>1, <1>2, <1>3
  <2>2. RowIsGood(c)' /\ ExtensionIsGood(c, par)'
    BY <2>1 DEF RenewalIsGood, RowIsGood, ExtensionIsGood, Counts
  <2>3. BillIsGood(c, par)' /\ RefundIsGood(c, par)'
    BY <2>1 DEF BillIsGood, RefundIsGood, Blocking
  <2>4. RestartIsGood(c, par)'
    BY <2>1 DEF RenewalIsGood, RestartIsGood, Counts
  <2> QED BY <2>2, <2>3, <2>4 DEF RenewalIsGood
<1>8. ASSUME NEW c \in Children(par)', NEW e \in Children(par)', c # e PROVE PairIsGood(c, e)'
  <2>1. CASE c = o \/ e = o
    BY <1>2, <1>3, <2>1 DEF PairIsGood, Counts, Blocking
  <2>2. CASE c # o /\ e # o
    <3>1. PairIsGood(c, e) /\ c \in Children(par) /\ e \in Children(par)
      BY <1>3, <1>8, <2>2 DEF OpenInv, FamilyIsGood
    <3> QED BY <1>1, <1>2, <1>3, <2>2, <3>1 DEF PairIsGood, Counts
  <2> QED BY <2>1, <2>2
<1>9. FamilyIsGood(par)'
  BY <1>3, <1>6, <1>7, <1>8 DEF FamilyIsGood
<1>10. InUseOpens(par)'
  BY <1>1, <1>2 DEF OpenInv, InUseOpens
<1>11. NoGaps'
  BY <1>1, <1>2, NextLeavesNoGap DEF OpenInv
<1> QED BY <1>1, <1>2, <1>4, <1>9, <1>10, <1>11, OneFamilyKeeps

\* A renewal that is given back is the only one that waits for a refund.
LEMMA TakeBackKeepsBills ==
    ASSUME OpenInv, TypeOK, TypeOK', FamiliesAreFlat, NEW c \in Orders, RequestRefund(c),
           IsRenewal(c), NEW p \in Orders, p = ren[c].parent
    PROVE  OpenInv'
<1> DEFINE open == OpenRenewals(p)
<1>1. /\ p \in Orders /\ p # c /\ ~IsRenewal(p) /\ ord[p].status # "none"
      /\ ren' = ren /\ now' = now /\ dlv' = dlv
      /\ ord[c].status = "completed" /\ UnusedRenewal(c)
      /\ ord' = [WithCancelled(open) EXCEPT ![c].status = "refunding"]
      /\ c \in Children(p)
  BY DEF RequestRefund, FamiliesAreFlat, IsRenewal, TypeOK, Renewal, Children
<1>2. /\ \A x \in open : x \in Children(p) /\ ord[x].status = "pending_payment"
      /\ \A x \in Children(p) : ord[x].status = "pending_payment" => x \in open
      /\ c \notin open /\ p \notin open
  BY <1>1 DEF OpenRenewals, Children, IsRenewal
<1>3. /\ ren[c].mode = "extend" =>
            ord[p].status = "active" /\ ord[p].end = ren[c].until /\ ren[c].oldEnd > now
      /\ ren[c].mode = "restart" =>
            ~ren[c].confirmed /\ ord[p].status \in {"paid", "provisioning"}
      /\ ren[c].mode \in {"extend", "restart"}
  BY <1>1 DEF UnusedRenewal, TypeOK, Renewal
<1>4. /\ ord'[c].status = "refunding" /\ ord'[c].end = ord[c].end
      /\ \A x \in Orders \ {c} : ord'[x] = WithCancelled(open)[x]
  <2> HIDE DEF open
  <2>1. ord'[c].status = "refunding" /\ ord'[c].end = ord[c].end
    BY <1>1, <1>2 DEF WithCancelled, TypeOK, Order
  <2> QED BY <1>1, <2>1 DEF WithCancelled
<1> HIDE DEF open
<1>5. /\ \A x \in open : x \in Orders /\ ord'[x].status = "cancelled"
      /\ \A x \in Orders \ {c} : x \notin open => ord'[x] = ord[x]
      /\ ord'[p] = ord[p]
  <2>1. \A x \in open : x \in Orders /\ x # c
    BY <1>2 DEF Children
  <2>2. \A x \in open : ord'[x].status = "cancelled"
    BY <1>4, <2>1 DEF WithCancelled, Emptied, TypeOK, Order
  <2> QED BY <1>1, <1>2, <1>4, <2>1, <2>2 DEF WithCancelled
<1>6. Children(p)' = Children(p) /\ (\A x \in Children(p) : x \in Orders)
  BY <1>1 DEF Children
<1>7. ASSUME NEW x \in Children(p)
      PROVE  /\ RenewalIsGood(x, p) /\ Counts(x)' = Counts(x)
             /\ ord'[x].status # "pending_payment"
             /\ ord'[x].status = "refunding" => x = c \/ ord[x].status = "refunding"
             /\ ord'[x].status \in {"completed", "refunding", "refunded"}
                    <=> ord[x].status \in {"completed", "refunding", "refunded"}
  BY <1>1, <1>2, <1>4, <1>5, <1>6 DEF OpenInv, FamilyIsGood, Counts
<1>8. ASSUME NEW x \in Children(p) PROVE RenewalIsGood(x, p)'
  <2>1. RowIsGood(x)' /\ BillIsGood(x, p)' /\ ExtensionIsGood(x, p)'
    BY <1>1, <1>5, <1>7 DEF RenewalIsGood, RowIsGood, BillIsGood, ExtensionIsGood
  <2>2. RestartIsGood(x, p)'
    BY <1>1, <1>5, <1>6, <1>7 DEF RenewalIsGood, RestartIsGood
  <2>3. RefundIsGood(x, p)'
    <3>1. CASE x = c
      BY <1>1, <1>3, <1>5, <3>1 DEF RefundIsGood
    <3>2. CASE x # c
      <4>1. ord'[x].status = "refunding" => RefundIsGood(x, p) /\ ord[x].status = "refunding"
        BY <1>7, <3>2 DEF RenewalIsGood
      <4> QED BY <1>1, <1>5, <1>6, <1>7, <4>1 DEF RefundIsGood
    <3> QED BY <3>1, <3>2
  <2> QED BY <2>1, <2>2, <2>3 DEF RenewalIsGood
<1>9. ASSUME NEW x \in Children(p), ord[x].status = "refunding" PROVE FALSE
  <2>0. /\ x # c /\ Counts(x) /\ Counts(c) /\ x \in Orders
        /\ RenewalIsGood(x, p) /\ RenewalIsGood(c, p) /\ PairIsGood(x, c)
        /\ ren[x].mode \in {"extend", "restart"}
        /\ now \in Int /\ ord[p].end \in Int
        /\ ren[x].until \in Int /\ ren[c].until \in Int
        /\ ren[x].oldEnd \in Int /\ ren[c].oldEnd \in Int
    BY <1>1, <1>6, <1>7, <1>9 DEF Counts, OpenInv, FamilyIsGood, TypeOK, Renewal, Order, Times, None
  <2>1. CASE ren[c].mode = "extend" /\ ren[x].mode = "extend"
    <3>1. ord[p].end = ren[x].until /\ ord[p].end = ren[c].until /\ now < ren[c].oldEnd
      BY <1>3, <1>9, <2>0, <2>1 DEF RenewalIsGood, RefundIsGood
    <3>2. ren[c].oldEnd < ren[c].until /\ ren[x].oldEnd < ren[x].until
      BY <2>0, <2>1 DEF RenewalIsGood, RowIsGood
    <3> QED BY <2>0, <2>1, <3>1, <3>2 DEF PairIsGood
  <2>2. CASE ren[c].mode = "extend" /\ ren[x].mode = "restart"
    <3>1. ren[c].until <= now /\ now < ren[c].oldEnd /\ ren[c].oldEnd < ren[c].until
      BY <1>1, <1>3, <1>9, <2>0, <2>2 DEF RenewalIsGood, RefundIsGood, RowIsGood
    <3> QED BY <2>0, <3>1
  <2>3. CASE ren[c].mode = "restart" /\ ren[x].mode = "extend"
    BY <1>3, <1>9, <2>0, <2>3 DEF RenewalIsGood, RefundIsGood
  <2>4. CASE ren[c].mode = "restart" /\ ren[x].mode = "restart"
    <3>1. ~ren[c].confirmed /\ ~ren[x].confirmed /\ ord[p].status \in {"paid", "provisioning"}
      BY <1>3, <1>9, <2>0, <2>4 DEF RenewalIsGood, RefundIsGood
    <3>2. c <= x /\ x <= c
      BY <1>1, <1>9, <2>0, <2>4, <3>1 DEF RenewalIsGood, RestartIsGood
    <3> QED BY <2>0, <3>2 DEF Orders
  <2> QED BY <1>3, <2>0, <2>1, <2>2, <2>3, <2>4
<1>10. ASSUME NEW x \in Children(p), NEW y \in Children(p), x # y PROVE PairIsGood(x, y)'
  <2>1. PairIsGood(x, y)
    BY <1>10 DEF OpenInv, FamilyIsGood
  <2> QED BY <1>1, <1>7, <1>9, <1>10, <2>1 DEF PairIsGood
<1>11. FamilyIsGood(p)'
  BY <1>6, <1>8, <1>10 DEF FamilyIsGood
<1>12. OneFamily(p)
  <2>1. \A x \in Orders \ {p} : ren[x].parent = p \/ ord'[x] = ord[x]
    BY <1>1, <1>2, <1>5 DEF Children
  <2> QED BY <1>1, <2>1 DEF OneFamily
<1>13. NoGaps'
  <2>1. \A x \in Orders : ord'[x].status = "none" <=> ord[x].status = "none"
    BY <1>1, <1>2, <1>4, <1>5
  <2> QED BY <2>1, GapsStay DEF OpenInv
<1>14. InUseOpens(p)'
  BY <1>1, <1>5 DEF OpenInv, InUseOpens
<1>15. \A x \in Orders : x = p \/ ord'[x].status # "active" \/ ord'[x] = ord[x]
  BY <1>4, <1>5
<1> QED BY <1>1, <1>11, <1>12, <1>13, <1>14, <1>15, OneFamilyKeeps

\* While a refund of c waits, it is the only one; once it is through, no bill is left.
LEMMA RefundExtensionKeepsBills ==
    ASSUME OpenInv, AccessInv, TypeOK, TypeOK', FamiliesAreFlat, NEW c \in Orders, IsRenewal(c),
           ord[c].status = "refunding", RefundExtension(c), now' = now,
           NEW p \in Orders, p = ren[c].parent
    PROVE  OpenInv'
<1> DEFINE open == OpenRenewals(p)
<1>1. /\ p # c /\ ~IsRenewal(p) /\ ord[p].status # "none" /\ ren' = ren
      /\ ren[c].mode = "extend" /\ c \in Children(p)
      /\ ord[p].status = "active" /\ ord[p].end = ren[c].until /\ ren[c].oldEnd > now
      /\ ord' = [WithCancelled(open) EXCEPT ![p].end = ren[c].oldEnd,
                                            ![c] = Emptied(c, "refunded")]
      /\ dlv' = [dlv EXCEPT ![p].exp = ren[c].oldEnd]
  BY DEF RefundExtension, UnusedRenewal, AccessUntil, FamiliesAreFlat, Children
<1>2. /\ \A x \in open : x \in Children(p) /\ ord[x].status = "pending_payment"
      /\ \A x \in Children(p) : ord[x].status = "pending_payment" => x \in open
      /\ c \notin open /\ p \notin open
  BY <1>1 DEF OpenRenewals, Children, IsRenewal
<1> HIDE DEF open
<1>3. /\ ord'[c].status = "refunded"
      /\ ord'[p].status = "active" /\ ord'[p].end = ren[c].oldEnd
      /\ \A x \in Orders \ {c, p} : ord'[x] = WithCancelled(open)[x]
      /\ dlv'[p].access = dlv[p].access /\ dlv'[p].exp = ren[c].oldEnd
      /\ \A x \in Orders \ {p} : dlv'[x] = dlv[x]
  <2>1. /\ ord'[c] = Emptied(c, "refunded") /\ ord'[p] = [ord[p] EXCEPT !.end = ren[c].oldEnd]
        /\ \A x \in Orders \ {c, p} : ord'[x] = WithCancelled(open)[x]
    BY <1>1, <1>2 DEF WithCancelled
  <2>2. /\ dlv'[p].access = dlv[p].access /\ dlv'[p].exp = ren[c].oldEnd
        /\ \A x \in Orders \ {p} : dlv'[x] = dlv[x]
    BY <1>1 DEF TypeOK, Delivery
  <2>3. ord'[c].status = "refunded"
    BY <2>1 DEF Emptied, TypeOK, Order
  <2>4. ord'[p].status = "active" /\ ord'[p].end = ren[c].oldEnd
    BY <1>1, <2>1, SMTT(30) DEF TypeOK, Order
  <2> QED BY <2>1, <2>2, <2>3, <2>4
<1>4. /\ \A x \in open : x \in Orders /\ ord'[x].status = "cancelled"
      /\ \A x \in Orders \ {c, p} : x \notin open => ord'[x] = ord[x]
  <2>1. \A x \in open : x \in Orders \ {c, p}
    BY <1>2 DEF Children
  <2>2. ASSUME NEW x \in open PROVE ord'[x].status = "cancelled"
    <3>1. x \in Orders /\ ord'[x] = Emptied(x, "cancelled")
      BY <1>3, <2>1 DEF WithCancelled
    <3> QED BY <3>1 DEF Emptied, TypeOK, Order
  <2> QED BY <1>3, <2>1, <2>2 DEF WithCancelled
<1>5. /\ Children(p)' = Children(p)
      /\ \A x \in Children(p) : x \in Orders \ {p}
  BY <1>1 DEF Children, IsRenewal, Orders
<1>6. ASSUME NEW x \in Children(p)
      PROVE  /\ RenewalIsGood(x, p)
             /\ Counts(x)' => Counts(x) /\ x # c /\ PairIsGood(x, c)
             /\ x # c => ord[x].status # "refunding"
             /\ ord'[x].status \notin {"pending_payment", "refunding"}
             /\ ord'[x].status \in {"completed", "refunding", "refunded"}
                    <=> ord[x].status \in {"completed", "refunding", "refunded"}
  <2>1. RenewalIsGood(x, p) /\ RenewalIsGood(c, p) /\ (x # c => PairIsGood(x, c))
    BY <1>1 DEF OpenInv, FamilyIsGood
  <2>2. x # c => ord[x].status # "refunding"
    BY <2>1 DEF PairIsGood
  <2>3. \/ x = c /\ ord'[x].status = "refunded"
        \/ x # c /\ ord[x].status = "pending_payment" /\ ord'[x].status = "cancelled"
        \/ x # c /\ ord[x].status # "pending_payment" /\ ord'[x].status = ord[x].status
    BY <1>2, <1>3, <1>4, <1>5
  <2> QED BY <2>1, <2>2, <2>3 DEF Counts
<1>7. \A x \in Children(p) : ren[x].until \in Int /\ ren[x].oldEnd \in Int
  BY <1>5 DEF TypeOK, Renewal, Times, None
<1>8. ASSUME NEW x \in Children(p) PROVE RenewalIsGood(x, p)'
  <2>1. RowIsGood(x)' /\ BillIsGood(x, p)' /\ RefundIsGood(x, p)'
    BY <1>1, <1>6 DEF RenewalIsGood, RowIsGood, BillIsGood, RefundIsGood
  <2>2. RestartIsGood(x, p)'
    BY <1>1, <1>6 DEF RenewalIsGood, RestartIsGood
  <2>3. ExtensionIsGood(x, p)'
    <3>1. SUFFICES ASSUME ren[x].mode = "extend", Counts(x)'
                   PROVE  ren[x].until <= now \/ ren[x].until <= ren[c].oldEnd
      BY <1>1, <1>3 DEF ExtensionIsGood
    <3>2. Counts(x) /\ Counts(c) /\ PairIsGood(x, c) /\ RenewalIsGood(x, p) /\ RenewalIsGood(c, p)
      BY <1>1, <1>6, <3>1 DEF Counts
    <3>3. /\ ren[x].oldEnd < ren[x].until /\ ren[c].oldEnd < ren[c].until
          /\ ren[x].until <= now \/ ren[x].until <= ren[c].until
      BY <1>1, <3>1, <3>2 DEF RenewalIsGood, RowIsGood, ExtensionIsGood
    <3>4. \/ ren[x].until <= now \/ ren[c].until <= now
          \/ ren[x].until <= ren[c].oldEnd \/ ren[c].until <= ren[x].oldEnd
      BY <1>1, <3>1, <3>2 DEF PairIsGood
    <3> QED BY <1>1, <1>7, <3>3, <3>4 DEF TypeOK
  <2> QED BY <2>1, <2>2, <2>3 DEF RenewalIsGood
<1>9. ASSUME NEW x \in Children(p), NEW y \in Children(p), x # y PROVE PairIsGood(x, y)'
  <2>1. PairIsGood(x, y)
    BY <1>9 DEF OpenInv, FamilyIsGood
  <2> QED BY <1>1, <1>6, <2>1 DEF PairIsGood
<1>10. FamilyIsGood(p)'
  BY <1>5, <1>8, <1>9 DEF FamilyIsGood
<1>11. OneFamily(p)
  <2>1. \A x \in Orders \ {p} : ren[x].parent = p \/ ord'[x] = ord[x]
    BY <1>1, <1>2, <1>4 DEF Children
  <2> QED BY <1>1, <1>3, <2>1 DEF OneFamily
<1>12. NoGaps'
  <2>1. \A x \in Orders : ord'[x].status = "none" <=> ord[x].status = "none"
    <3>1. ASSUME NEW x \in Orders PROVE ord'[x].status = "none" <=> ord[x].status = "none"
      <4>1. CASE x \in open
        BY <1>2, <1>4, <4>1
      <4>2. CASE x \in {c, p}
        BY <1>1, <1>3, <4>2
      <4>3. CASE x \notin open /\ x \notin {c, p}
        BY <1>4, <4>3
      <4> QED BY <4>1, <4>2, <4>3
    <3> QED BY <3>1
  <2> QED BY <2>1, GapsStay DEF OpenInv
<1>13. InUseOpens(p)'
  <2>1. dlv[p].exp = ren[c].until /\ ren[c].oldEnd < ren[c].until
    BY <1>1, <1>6 DEF AccessInv, AccessFits, RenewalIsGood, RowIsGood
  <2>2. dlv[p].access = "delivered"
    BY <1>1, <1>7, <2>1 DEF OpenInv, InUseOpens, After, TypeOK
  <2> QED BY <1>3, <2>2 DEF InUseOpens
<1>14. \A x \in Orders : x = p \/ ord'[x].status # "active" \/ ord'[x] = ord[x]
  BY <1>3, <1>4
<1> QED BY <1>3, <1>10, <1>11, <1>12, <1>13, <1>14, OneFamilyKeeps

LEMMA RefundRestartKeepsBills ==
    ASSUME OpenInv, TypeOK, TypeOK', FamiliesAreFlat, NEW c \in Orders, IsRenewal(c),
           ord[c].status = "refunding", RefundRestart(c), now' = now,
           NEW p \in Orders, p = ren[c].parent
    PROVE  OpenInv'
<1> DEFINE open == OpenRenewals(p)
<1>1. /\ p # c /\ ~IsRenewal(p) /\ ord[p].status # "none" /\ ren' = ren
      /\ ren[c].mode = "restart" /\ ~ren[c].confirmed /\ c \in Children(p)
      /\ ord[p].status \in {"paid", "provisioning"}
      /\ ord' = [WithCancelled(open) EXCEPT
                   ![p] = [Emptied(p, "completed") EXCEPT !.start = ren[c].prevStart,
                                                          !.end = ren[c].oldEnd],
                   ![c] = Emptied(c, "refunded")]
      /\ dlv' = AccessRevoked(p)
  BY DEF RefundRestart, UnusedRenewal, FamiliesAreFlat, Children
<1>2. /\ \A x \in open : x \in Children(p) /\ ord[x].status = "pending_payment"
      /\ \A x \in Children(p) : ord[x].status = "pending_payment" => x \in open
      /\ c \notin open /\ p \notin open
  BY <1>1 DEF OpenRenewals, Children, IsRenewal
<1> HIDE DEF open
<1>3. /\ ord'[c].status = "refunded" /\ ord'[p].status = "completed"
      /\ \A x \in Orders \ {c, p} : ord'[x] = WithCancelled(open)[x]
      /\ \A x \in Orders \ {p} : dlv'[x] = dlv[x]
  <2>1. /\ ord'[c] = Emptied(c, "refunded")
        /\ ord'[p] = [Emptied(p, "completed") EXCEPT !.start = ren[c].prevStart,
                                                     !.end = ren[c].oldEnd]
        /\ \A x \in Orders \ {c, p} : ord'[x] = WithCancelled(open)[x]
    BY <1>1, <1>2 DEF WithCancelled
  <2>2. ord'[c].status = "refunded" /\ ord'[p].status = "completed"
    BY <2>1 DEF Emptied, TypeOK, Order
  <2> QED BY <1>1, <2>1, <2>2, RevokedIsShut
<1>4. /\ \A x \in open : x \in Orders /\ ord'[x].status = "cancelled"
      /\ \A x \in Orders \ {c, p} : x \notin open => ord'[x] = ord[x]
  <2>1. \A x \in open : x \in Orders \ {c, p}
    BY <1>2 DEF Children
  <2>2. ASSUME NEW x \in open PROVE ord'[x].status = "cancelled"
    <3>1. x \in Orders /\ ord'[x] = Emptied(x, "cancelled")
      BY <1>3, <2>1 DEF WithCancelled
    <3> QED BY <3>1 DEF Emptied, TypeOK, Order
  <2> QED BY <1>3, <2>1, <2>2 DEF WithCancelled
<1>5. /\ Children(p)' = Children(p)
      /\ \A x \in Children(p) : x \in Orders \ {p}
  BY <1>1 DEF Children, IsRenewal, Orders
<1>6. ASSUME NEW x \in Children(p)
      PROVE  /\ RenewalIsGood(x, p)
             /\ Counts(x)' => Counts(x) /\ x # c
             /\ ord'[x].status \notin {"pending_payment", "refunding"}
             /\ ord'[x].status \in {"completed", "refunding", "refunded"}
                    <=> ord[x].status \in {"completed", "refunding", "refunded"}
  <2>1. RenewalIsGood(x, p) /\ RenewalIsGood(c, p) /\ (x # c => PairIsGood(x, c))
    BY <1>1 DEF OpenInv, FamilyIsGood
  <2>2. x # c => ord[x].status # "refunding"
    BY <2>1 DEF PairIsGood
  <2>3. \/ x = c /\ ord'[x].status = "refunded"
        \/ x # c /\ ord[x].status = "pending_payment" /\ ord'[x].status = "cancelled"
        \/ x # c /\ ord[x].status # "pending_payment" /\ ord'[x].status = ord[x].status
    BY <1>2, <1>3, <1>4, <1>5
  <2> QED BY <2>1, <2>2, <2>3 DEF Counts
<1>7. ASSUME NEW x \in Children(p) PROVE RenewalIsGood(x, p)'
  <2>1. RowIsGood(x)' /\ BillIsGood(x, p)' /\ RefundIsGood(x, p)'
    BY <1>1, <1>6 DEF RenewalIsGood, RowIsGood, BillIsGood, RefundIsGood
  <2>2. ExtensionIsGood(x, p)'
    BY <1>1, <1>3, <1>6 DEF RenewalIsGood, ExtensionIsGood
  <2>3. RestartIsGood(x, p)'
    <3>1. SUFFICES ASSUME ren[x].mode = "restart", Counts(x), ~ren[x].confirmed, x # c
                   PROVE  FALSE
      BY <1>1, <1>6 DEF RestartIsGood
    <3>2. Counts(c)
      BY DEF Counts
    <3>3. c <= x /\ x <= c
      BY <1>1, <1>6, <3>1, <3>2 DEF RenewalIsGood, RestartIsGood
    <3> QED BY <1>5, <3>1, <3>3 DEF Orders
  <2> QED BY <2>1, <2>2, <2>3 DEF RenewalIsGood
<1>8. ASSUME NEW x \in Children(p), NEW y \in Children(p), x # y PROVE PairIsGood(x, y)'
  <2>1. PairIsGood(x, y)
    BY <1>8 DEF OpenInv, FamilyIsGood
  <2> QED BY <1>1, <1>6, <2>1 DEF PairIsGood
<1>9. FamilyIsGood(p)'
  BY <1>5, <1>7, <1>8 DEF FamilyIsGood
<1>10. OneFamily(p)
  <2>1. \A x \in Orders \ {p} : ren[x].parent = p \/ ord'[x] = ord[x]
    BY <1>1, <1>2, <1>4 DEF Children
  <2> QED BY <1>1, <1>3, <2>1 DEF OneFamily
<1>11. NoGaps'
  <2>1. \A x \in Orders : ord'[x].status = "none" <=> ord[x].status = "none"
    <3>1. ASSUME NEW x \in Orders PROVE ord'[x].status = "none" <=> ord[x].status = "none"
      <4>1. CASE x \in open
        BY <1>2, <1>4, <4>1
      <4>2. CASE x \in {c, p}
        BY <1>1, <1>3, <4>2
      <4>3. CASE x \notin open /\ x \notin {c, p}
        BY <1>4, <4>3
      <4> QED BY <4>1, <4>2, <4>3
    <3> QED BY <3>1
  <2> QED BY <2>1, GapsStay DEF OpenInv
<1>12. InUseOpens(p)'
  BY <1>3 DEF InUseOpens
<1>13. \A x \in Orders : x = p \/ ord'[x].status # "active" \/ ord'[x] = ord[x]
  BY <1>3, <1>4
<1> QED BY <1>3, <1>9, <1>10, <1>11, <1>12, <1>13, OneFamilyKeeps

\* What is known of the other renewals of a lease with a bill that can be paid.
LEMMA BillIsAlone ==
    ASSUME OpenInv, HoldInv, TypeOK, FamiliesAreFlat, NEW c \in Orders, IsRenewal(c),
           ord[c].status = "pending_payment", NEW p \in Orders, p = ren[c].parent
    PROVE  /\ p # c /\ ~IsRenewal(p) /\ ord[p].status # "none" /\ c \in Children(p)
           /\ \A x \in Children(p) :
                 /\ x \in Orders \ {p} /\ RenewalIsGood(x, p)
                 /\ ord[x].status # "refunding" /\ x <= c
                 /\ x # c => ord[x].status # "pending_payment" /\ PairIsGood(x, c)
<1>1. /\ p # c /\ ~IsRenewal(p) /\ ord[p].status # "none" /\ c \in Children(p)
      /\ \A x \in Children(p) : x \in Orders \ {p} /\ IsRenewal(x) /\ ren[x].parent = p
  BY DEF FamiliesAreFlat, Children, IsRenewal, Orders
<1>2. /\ \A x \in Children(p) : RenewalIsGood(x, p)
      /\ \A x \in Children(p) : x # c => PairIsGood(x, c)
  BY <1>1 DEF OpenInv, FamilyIsGood
<1>3. \A x \in Children(p) : ord[x].status # "refunding" /\ x <= c
  BY <1>1, <1>2 DEF RenewalIsGood, BillIsGood
<1>4. \A x \in Children(p) : x # c => ord[x].status # "pending_payment"
  BY <1>1 DEF HoldInv, OneWaits, Waiting
<1> QED BY <1>1, <1>2, <1>3, <1>4

\* The extension that is paid follows all those that count.
LEMMA ApplyExtensionKeepsBills ==
    ASSUME OpenInv, HoldInv, TypeOK, TypeOK', FamiliesAreFlat, NEW c \in Orders,
           ApplyExtension(c), now' = now, NEW p \in Orders, p = ren[c].parent
    PROVE  OpenInv'
<1>1. /\ IsRenewal(c) /\ ord[c].status = "pending_payment" /\ ren[c].mode = "extend"
      /\ ord[p].status = "active" /\ ord[p].end = ren[c].oldEnd /\ UsableAccess(p)
      /\ ord' = [ord EXCEPT ![p].end = ren[c].until,
                            ![c] = [ord[c] EXCEPT !.status = "completed", !.reserved = 0,
                                                  !.start = ren[c].oldEnd,
                                                  !.end = ren[c].until]]
      /\ dlv' = [dlv EXCEPT ![p].exp = ren[c].until]
      /\ ren' = [ren EXCEPT ![c].applied = TRUE]
  BY DEF ApplyExtension, ValidRenewalPayment, AccessUntil
<1>2. /\ p # c /\ ~IsRenewal(p) /\ c \in Children(p)
      /\ \A x \in Children(p) :
            /\ x \in Orders \ {p} /\ RenewalIsGood(x, p)
            /\ ord[x].status # "refunding" /\ x <= c
            /\ x # c => ord[x].status # "pending_payment" /\ PairIsGood(x, c)
  BY <1>1, BillIsAlone
<1>3. /\ ord'[p].status = "active" /\ ord'[p].end = ren[c].until
      /\ ord'[c].status = "completed"
      /\ \A x \in Orders \ {c, p} : ord'[x] = ord[x]
  <2>1. /\ ord'[p] = [ord[p] EXCEPT !.end = ren[c].until]
        /\ ord'[c] = [ord[c] EXCEPT !.status = "completed", !.reserved = 0,
                                    !.start = ren[c].oldEnd, !.end = ren[c].until]
        /\ \A x \in Orders \ {c, p} : ord'[x] = ord[x]
    BY <1>1, <1>2 DEF TypeOK
  <2>2. ord[p] \in Order /\ ord[c] \in Order /\ ord[p].status = "active"
    BY <1>1, <1>2 DEF TypeOK
  <2>3. ord'[p].status = "active" /\ ord'[p].end = ren[c].until
    BY <2>1, <2>2 DEF Order
  <2>4. ord'[c].status = "completed"
    BY <2>1, <2>2 DEF Order
  <2> QED BY <2>1, <2>3, <2>4
<1>4. /\ ren'[c].parent = p /\ ren'[c].mode = "extend" /\ ren'[c].applied
      /\ ren'[c].oldEnd = ren[c].oldEnd /\ ren'[c].until = ren[c].until
      /\ \A x \in Orders \ {c} : ren'[x] = ren[x]
  BY <1>1 DEF TypeOK, Renewal
<1>5. Children(p)' = Children(p)
  BY <1>4 DEF Children
<1>6. ASSUME NEW x \in Children(p)
      PROVE  /\ Counts(x)' => x = c \/ Counts(x)
             /\ ord'[x].status \notin {"pending_payment", "refunding"}
             /\ ren[x].until \in Int /\ ren[x].oldEnd \in Int
  BY <1>2, <1>3 DEF Counts, TypeOK, Renewal, Times, None
<1>7. ASSUME NEW x \in Children(p) \ {c}, ren[x].mode = "extend", Counts(x)
      PROVE  ren[x].until <= now \/ ren[x].until <= ren[c].oldEnd
  BY <1>1, <1>2, <1>7 DEF RenewalIsGood, ExtensionIsGood
<1>8. ren[c].oldEnd < ren[c].until
  BY <1>1, <1>2 DEF RenewalIsGood, RowIsGood
<1>9. RenewalIsGood(c, p)'
  <2>1. RowIsGood(c)'
    BY <1>2, <1>3, <1>4, <1>8 DEF RenewalIsGood, RowIsGood
  <2>2. ExtensionIsGood(c, p)'
    BY <1>2, <1>3, <1>4, <1>6 DEF ExtensionIsGood
  <2> QED BY <1>3, <1>4, <2>1, <2>2
          DEF RenewalIsGood, BillIsGood, RestartIsGood, RefundIsGood
<1>10. ASSUME NEW x \in Children(p) \ {c} PROVE RenewalIsGood(x, p)'
  <2>0. ord'[x] = ord[x] /\ ren'[x] = ren[x] /\ RenewalIsGood(x, p)
    BY <1>2, <1>3, <1>4
  <2>1. RowIsGood(x)' /\ BillIsGood(x, p)' /\ RefundIsGood(x, p)'
    BY <1>6, <2>0 DEF RenewalIsGood, RowIsGood, BillIsGood, RefundIsGood
  <2>2. ExtensionIsGood(x, p)'
    <3>1. SUFFICES ASSUME ren[x].mode = "extend", Counts(x)
                   PROVE  ren[x].until <= now \/ ren[x].until <= ren[c].until
      BY <1>3, <2>0 DEF ExtensionIsGood, Counts
    <3> QED BY <1>2, <1>6, <1>7, <1>8, <3>1
  <2>3. RestartIsGood(x, p)'
    BY <1>1, <2>0 DEF RenewalIsGood, RestartIsGood, Counts
  <2> QED BY <2>1, <2>2, <2>3 DEF RenewalIsGood
<1>11. ASSUME NEW x \in Children(p), NEW y \in Children(p), x # y PROVE PairIsGood(x, y)'
  <2>1. CASE x # c /\ y # c
    <3>1. PairIsGood(x, y)
      BY <1>11 DEF OpenInv, FamilyIsGood
    <3> QED BY <1>2, <1>3, <1>4, <2>1, <3>1 DEF PairIsGood, Counts
  <2>2. CASE x = c \/ y = c
    <3>1. PICK z \in {x, y} : z # c
      BY <1>11
    <3>2. ren[z].mode = "extend" /\ Counts(z)
             => ren[z].until <= now \/ ren[z].until <= ren[c].oldEnd
      BY <1>7, <3>1
    <3>3. ren'[z] = ren[z] /\ (Counts(z)' <=> Counts(z))
      BY <1>2, <1>3, <1>4, <3>1 DEF Counts
    <3> QED BY <1>4, <1>6, <1>11, <2>2, <3>1, <3>2, <3>3 DEF PairIsGood
  <2> QED BY <2>1, <2>2
<1>12. FamilyIsGood(p)'
  BY <1>5, <1>9, <1>10, <1>11 DEF FamilyIsGood
<1>13. OneFamily(p)
  <2>1. \A x \in Orders : ren'[x].parent = ren[x].parent
    BY <1>1, <1>4 DEF OneFamily
  <2>2. \A x \in Orders \ {p} :
            \/ ren[x].parent = p
            \/ ord'[x] = ord[x] /\ ren'[x] = ren[x] /\ dlv'[x] = dlv[x]
    <3>1. \A x \in Orders \ {p} : dlv'[x] = dlv[x]
      BY <1>1 DEF TypeOK
    <3> QED BY <1>3, <1>4, <3>1
  <2> QED BY <1>1, <1>2, <2>1, <2>2 DEF OneFamily
<1>14. NoGaps'
  <2>1. ASSUME NEW x \in Orders PROVE ord'[x].status = "none" <=> ord[x].status = "none"
    BY <1>1, <1>3
  <2> QED BY <2>1, GapsStay DEF OpenInv
<1>15. InUseOpens(p)'
  <2>1. dlv'[p].access = "delivered"
    BY <1>1 DEF UsableAccess, TypeOK, Delivery
  <2> QED BY <2>1 DEF InUseOpens
<1>16. /\ \A x \in Orders : x = p \/ ord'[x].status # "active" \/ ord'[x] = ord[x]
       /\ \A x \in Orders \ {p} : dlv'[x] = dlv[x]
  BY <1>1, <1>3, SMTT(30) DEF TypeOK
<1> QED BY <1>12, <1>13, <1>14, <1>15, <1>16, OneFamilyKeeps

\* The restart that is paid is the last renewal of a lease that is over.
LEMMA ApplyRestartKeepsBills ==
    ASSUME OpenInv, HoldInv, TypeOK, TypeOK', FamiliesAreFlat, NEW c \in Orders,
           ApplyRestart(c), now' = now, NEW p \in Orders, p = ren[c].parent
    PROVE  OpenInv'
<1>1. /\ IsRenewal(c) /\ ord[c].status = "pending_payment" /\ ren[c].mode = "restart"
      /\ ord[p].status \in {"active", "completed"} /\ ord[p].end <= now
      /\ ord' = [ord EXCEPT ![p] = [ord[p] EXCEPT !.status = "paid", !.reserved = ord[c].qty,
                                                  !.start = None, !.end = None],
                            ![c] = [ord[c] EXCEPT !.status = "completed", !.reserved = 0,
                                                  !.start = None, !.end = None]]
      /\ dlv' = [dlv EXCEPT ![p].access = "revoked"]
      /\ ren' = [ren EXCEPT ![c].applied = TRUE, ![c].prevStart = ord[p].start]
  BY DEF ApplyRestart, ValidRenewalPayment
<1>2. /\ p # c /\ ~IsRenewal(p) /\ c \in Children(p)
      /\ \A x \in Children(p) :
            /\ x \in Orders \ {p} /\ RenewalIsGood(x, p)
            /\ ord[x].status # "refunding" /\ x <= c
            /\ x # c => ord[x].status # "pending_payment" /\ PairIsGood(x, c)
  BY <1>1, BillIsAlone
<1>3. /\ ord'[p].status = "paid" /\ ord'[c].status = "completed"
      /\ \A x \in Orders \ {c, p} : ord'[x] = ord[x]
  <2>1. /\ ord'[p] = [ord[p] EXCEPT !.status = "paid", !.reserved = ord[c].qty,
                                    !.start = None, !.end = None]
        /\ ord'[c] = [ord[c] EXCEPT !.status = "completed", !.reserved = 0,
                                    !.start = None, !.end = None]
        /\ \A x \in Orders \ {c, p} : ord'[x] = ord[x]
    BY <1>1, <1>2 DEF TypeOK
  <2> QED BY <2>1 DEF TypeOK, Order
<1>4. /\ ren'[c].parent = p /\ ren'[c].mode = "restart" /\ ren'[c].applied
      /\ ren'[c].oldEnd = ren[c].oldEnd /\ ren'[c].until = ren[c].until
      /\ \A x \in Orders \ {c} : ren'[x] = ren[x]
  <2> DEFINE started == ord[p].start
  <2>1. ren' = [ren EXCEPT ![c].applied = TRUE, ![c].prevStart = started]
    BY <1>1
  <2> HIDE DEF started
  <2> QED BY <1>1, <2>1 DEF TypeOK, Renewal
<1>5. Children(p)' = Children(p)
  BY <1>4 DEF Children
<1>6. ASSUME NEW x \in Children(p)
      PROVE  /\ Counts(x)' => x = c \/ Counts(x)
             /\ ord'[x].status \notin {"pending_payment", "refunding"}
             /\ ren[x].until \in Int /\ ord[p].end \in Int /\ now \in Int
  BY <1>2, <1>3 DEF Counts, TypeOK, Renewal, Order, Times, None
<1>7. RenewalIsGood(c, p)'
  <2>1. RowIsGood(c)'
    BY <1>1, <1>2, <1>3, <1>4, ZenonT(40) DEF RenewalIsGood, RowIsGood
  <2>2. RestartIsGood(c, p)'
    BY <1>2, <1>3, <1>5 DEF RestartIsGood
  <2> QED BY <1>3, <1>4, <2>1, <2>2
          DEF RenewalIsGood, BillIsGood, ExtensionIsGood, RefundIsGood
<1>8. ASSUME NEW x \in Children(p) \ {c} PROVE RenewalIsGood(x, p)'
  <2>0. ord'[x] = ord[x] /\ ren'[x] = ren[x] /\ RenewalIsGood(x, p)
    BY <1>2, <1>3, <1>4
  <2>1. RowIsGood(x)' /\ BillIsGood(x, p)' /\ RefundIsGood(x, p)'
    BY <1>6, <2>0 DEF RenewalIsGood, RowIsGood, BillIsGood, RefundIsGood
  <2>2. ExtensionIsGood(x, p)'
    <3>1. SUFFICES ASSUME ren[x].mode = "extend", Counts(x)
                   PROVE  ren[x].until <= now
      BY <2>0 DEF ExtensionIsGood, Counts
    <3>2. ren[x].until <= now \/ ren[x].until <= ord[p].end
      BY <1>1, <2>0, <3>1 DEF RenewalIsGood, ExtensionIsGood
    <3> QED BY <1>1, <1>6, <3>2
  <2>3. RestartIsGood(x, p)'
    BY <1>1, <2>0 DEF RenewalIsGood, RestartIsGood, Counts
  <2> QED BY <2>1, <2>2, <2>3 DEF RenewalIsGood
<1>9. ASSUME NEW x \in Children(p), NEW y \in Children(p), x # y PROVE PairIsGood(x, y)'
  <2>1. CASE x # c /\ y # c
    <3>1. PairIsGood(x, y)
      BY <1>9 DEF OpenInv, FamilyIsGood
    <3> QED BY <1>2, <1>3, <1>4, <2>1, <3>1 DEF PairIsGood, Counts
  <2>2. CASE x = c \/ y = c
    BY <1>4, <1>6, <2>2 DEF PairIsGood
  <2> QED BY <2>1, <2>2
<1>10. FamilyIsGood(p)'
  BY <1>5, <1>7, <1>8, <1>9 DEF FamilyIsGood
<1>11. OneFamily(p)
  <2>1. \A x \in Orders : ren'[x].parent = ren[x].parent
    BY <1>1, <1>4
  <2>2. \A x \in Orders \ {p} :
            \/ ren[x].parent = p
            \/ ord'[x] = ord[x] /\ ren'[x] = ren[x] /\ dlv'[x] = dlv[x]
    <3>1. \A x \in Orders \ {p} : dlv'[x] = dlv[x]
      BY <1>1 DEF TypeOK
    <3> QED BY <1>3, <1>4, <3>1
  <2>3. ord[p].status # "none"
    BY <1>1
  <2> QED BY <1>2, <2>1, <2>2, <2>3 DEF OneFamily
<1>12. NoGaps'
  <2>1. ASSUME NEW x \in Orders PROVE ord'[x].status = "none" <=> ord[x].status = "none"
    BY <1>1, <1>3
  <2> QED BY <2>1, GapsStay DEF OpenInv
<1>13. InUseOpens(p)'
  BY <1>3 DEF InUseOpens
<1>14. /\ \A x \in Orders : x = p \/ ord'[x].status # "active" \/ ord'[x] = ord[x]
       /\ \A x \in Orders \ {p} : dlv'[x] = dlv[x]
  BY <1>1, <1>3 DEF TypeOK
<1> QED BY <1>10, <1>11, <1>12, <1>13, <1>14, OneFamilyKeeps

\* What is signed for is the last restart, and nothing else of the lease goes on.
LEMMA ConfirmDeliveryKeepsBills ==
    ASSUME OpenInv, TypeOK, TypeOK', FamiliesAreFlat, NEW o \in Orders, NEW lease \in Orders,
           ConfirmDelivery(o, lease)
    PROVE  OpenInv'
<1> DEFINE end == LeaseEndAt(now, LeaseUnit(lease, o), ord[lease].dur)
<1>1. /\ ~IsRenewal(o) /\ ord[o].status = "provisioning" /\ IsLeaseOrder(lease, o)
      /\ now' = now
      /\ dlv' = [dlv EXCEPT ![o] = [access |-> "delivered", exp |-> end, confirmed |-> TRUE]]
      /\ ord' = [x \in Orders |->
                   IF x = o THEN [ord[o] EXCEPT !.status = "active", !.start = now, !.end = end]
                   ELSE IF x = lease THEN [ord[lease] EXCEPT !.start = now, !.end = end]
                   ELSE ord[x]]
      /\ ren' = IF lease = o THEN ren ELSE [ren EXCEPT ![lease].confirmed = TRUE]
  BY DEF ConfirmDelivery
<1>2. lease # o => ord[lease].status \in {"completed", "refunding"} /\ ren[lease].parent = o
  BY <1>1, LeaseOrderRests
<1> HIDE DEF end
<1>3. /\ ord'[o].status = "active" /\ dlv'[o].access = "delivered"
      /\ \A x \in Orders \ {o} : ord'[x].status = ord[x].status /\ dlv'[x] = dlv[x]
      /\ \A x \in Orders \ {o, lease} : ord'[x] = ord[x]
  BY <1>1 DEF TypeOK, Order
<1>4. /\ \A x \in Orders : /\ ren'[x].parent = ren[x].parent
                           /\ ren'[x].mode = ren[x].mode
                           /\ ren'[x].oldEnd = ren[x].oldEnd
                           /\ ren'[x].until = ren[x].until
                           /\ ren'[x].applied = ren[x].applied
                           /\ x # lease => ren'[x] = ren[x]
      /\ lease # o => ren'[lease].confirmed
      /\ ren'[o] = ren[o]
  BY <1>1 DEF TypeOK, Renewal
<1>5. /\ Children(o)' = Children(o)
      /\ \A x \in Children(o) : x \in Orders \ {o}
  BY <1>1, <1>4 DEF Children, IsRenewal, Orders
<1>6. ASSUME NEW x \in Children(o)
      PROVE  /\ RenewalIsGood(x, o) /\ Counts(x)' = Counts(x)
             /\ ord'[x].status = ord[x].status /\ ord[x].status # "pending_payment"
             /\ ren[x].mode = "extend" /\ Counts(x) => ren[x].until <= now
  <2>1. RenewalIsGood(x, o) /\ ren[x].mode \in {"extend", "restart"}
    BY <1>5 DEF OpenInv, FamilyIsGood, TypeOK, Renewal
  <2> QED BY <1>1, <1>3, <1>5, <2>1 DEF RenewalIsGood, BillIsGood, ExtensionIsGood, Counts
<1>7. ASSUME NEW x \in Children(o), ren[x].mode = "restart", Counts(x), ~ren[x].confirmed
      PROVE  x = lease
  <2>1. \A d \in Children(o) : ren[d].mode = "restart" /\ Counts(d) => d <= x
    BY <1>1, <1>6, <1>7 DEF RenewalIsGood, RestartIsGood
  <2>2. x \in Restarts(o)
    BY <1>6, <1>7 DEF Restarts, RenewalIsGood, RowIsGood, Counts
  <2>3. lease \in Restarts(o) /\ x <= lease
    BY <1>1, <2>2 DEF IsLeaseOrder
  <2>4. lease <= x
    BY <2>1, <2>3 DEF Restarts, Counts
  <2> QED BY <1>5, <2>3, <2>4 DEF Orders
<1>8. ASSUME NEW x \in Children(o) PROVE RenewalIsGood(x, o)'
  <2>0. /\ x \in Orders \ {o} /\ RenewalIsGood(x, o) /\ Counts(x)' = Counts(x)
        /\ ord'[x].status = ord[x].status /\ ord[x].status # "pending_payment"
        /\ ren'[x].mode = ren[x].mode /\ ren'[x].applied = ren[x].applied
        /\ ren'[x].oldEnd = ren[x].oldEnd /\ ren'[x].until = ren[x].until
    BY <1>4, <1>5, <1>6
  <2>1. /\ RowIsGood(x)'
        /\ BillIsGood(x, o)'
        /\ ExtensionIsGood(x, o)'
    <3>1. RowIsGood(x)'
      BY <2>0 DEF RenewalIsGood, RowIsGood
    <3>2. BillIsGood(x, o)'
      BY <2>0 DEF BillIsGood
    <3>3. ExtensionIsGood(x, o)'
      BY <1>1, <1>3, <1>6, <2>0, ZenonT(40) DEF ExtensionIsGood
    <3> QED BY <3>1, <3>2, <3>3
  <2>2. RestartIsGood(x, o)'
    <3>1. SUFFICES ASSUME ren'[x].mode = "restart", Counts(x)', ~ren'[x].confirmed
                   PROVE  FALSE
      BY DEF RestartIsGood
    <3>2. x # lease
      BY <1>4, <1>5, <3>1
    <3> QED BY <1>4, <1>5, <1>6, <1>7, <3>1, <3>2
  <2>3. RefundIsGood(x, o)'
    <3>1. ord[x].status = "refunding" => ren[x].mode # "extend"
      BY <1>1, <1>6 DEF RenewalIsGood, RefundIsGood
    <3>2. ASSUME NEW e \in Children(o)', ren'[e].mode = "extend", Counts(e)'
          PROVE  ren'[e].until <= now'
      <4>1. e \in Children(o) /\ e \in Orders
        BY <1>5, <3>2
      <4>2. ren[e].mode = "extend" /\ ren'[e].until = ren[e].until
        BY <1>4, <3>2, <4>1
      <4>3. ren[e].until <= now
        BY <1>6, <3>2, <4>1, <4>2
      <4> QED BY <1>1, <4>2, <4>3
    <3> QED BY <1>3, <1>4, <1>5, <1>6, <3>1, <3>2 DEF RefundIsGood
  <2> QED BY <2>1, <2>2, <2>3 DEF RenewalIsGood
<1>9. ASSUME NEW x \in Children(o), NEW y \in Children(o), x # y PROVE PairIsGood(x, y)'
  <2>1. PairIsGood(x, y)
    BY <1>9 DEF OpenInv, FamilyIsGood
  <2> QED BY <1>1, <1>4, <1>5, <1>6, <2>1 DEF PairIsGood
<1>10. FamilyIsGood(o)'
  BY <1>5, <1>8, <1>9 DEF FamilyIsGood
<1>11. OneFamily(o)
  BY <1>1, <1>2, <1>3, <1>4 DEF OneFamily
<1>12. NoGaps'
  <2>1. ASSUME NEW x \in Orders PROVE ord'[x].status = "none" <=> ord[x].status = "none"
    BY <1>1, <1>3
  <2> QED BY <2>1, GapsStay DEF OpenInv
<1>13. InUseOpens(o)'
  BY <1>3 DEF InUseOpens
<1>14. \A x \in Orders : x = o \/ ord'[x].status # "active" \/ ord'[x] = ord[x]
  BY <1>2, <1>3
<1> QED BY <1>3, <1>10, <1>11, <1>12, <1>13, <1>14, OneFamilyKeeps

LEMMA OrderStepKeepsBills ==
    ASSUME OpenInv, HoldInv, AccessInv, TypeOK, TypeOK', FamiliesAreFlat, NEW o \in Orders,
           OrderStep(o)
    PROVE  OpenInv'
<1>1. IsRenewal(o) => ren[o].parent \in Orders
  BY DEF FamiliesAreFlat, IsRenewal, TypeOK, Renewal
<1>2. ASSUME NEW p \in Products, NEW n \in 1..MaxOrderQuantity, NEW d \in Durations,
             PlaceOrder(o, p, n, d)
      PROVE  OpenInv'
  BY <1>2, PlaceOrderKeepsBills
<1>3. CASE PaymentArrives(o)
  <2>1. now' = now /\ (ConfirmPayment(o) \/ ApplyExtension(o) \/ ApplyRestart(o))
    BY <1>3 DEF PaymentArrives
  <2>2. ApplyExtension(o) \/ ApplyRestart(o) => IsRenewal(o)
    BY DEF ApplyExtension, ApplyRestart
  <2> QED BY <1>1, <2>1, <2>2, BeginningKeepsBills, ApplyExtensionKeepsBills,
             ApplyRestartKeepsBills
<1>4. ASSUME NEW lease \in Orders, DeliverWithAccess(o, lease) \/ ConfirmDelivery(o, lease)
      PROVE  OpenInv'
  BY <1>4, BeginningKeepsBills, ConfirmDeliveryKeepsBills
<1>5. ASSUME NEW par \in Orders, NEW d \in Durations,
             RenewByExtension(o, par, d) \/ RenewByRestart(o, par, d)
      PROVE  OpenInv'
  BY <1>5, RenewKeepsBills
<1>6. CASE CancelBuyerOrder(o) \/ AdminCancelOrder(o)
  <2>1. /\ CloseOrder(o, "cancelled") /\ now' = now
        /\ ord[o].status \in {"pending_payment", "paid", "provisioning", "active", "frozen"}
    BY <1>6 DEF CancelBuyerOrder, AdminCancelOrder
  <2>2. /\ ord[o].status \notin {"none", "completed", "refunding"}
        /\ ord[o].status \notin Ended
    BY <2>1 DEF Ended
  <2> QED BY <2>1, <2>2, CloseOrderKeepsBills
<1>7. CASE FreezeOrder(o)
  BY <1>7, FreezeKeepsBills
<1>8. CASE RequestRefund(o)
  BY <1>1, <1>8, GiveBackKeepsBills, TakeBackKeepsBills
<1>9. CASE CompleteRefund(o)
  <2>1. /\ ord[o].status = "refunding" /\ now' = now
        /\ \/ ~IsRenewal(o) /\ CloseOrder(o, "refunded")
           \/ IsRenewal(o) /\ (RefundExtension(o) \/ RefundRestart(o))
    BY <1>9 DEF CompleteRefund
  <2>2. CASE ~IsRenewal(o) /\ CloseOrder(o, "refunded")
    <3>1. ord[o].status # "none"
      BY <2>1
    <3> QED BY <2>1, <2>2, <3>1, CloseOrderKeepsBills
  <2>3. CASE IsRenewal(o) /\ (RefundExtension(o) \/ RefundRestart(o))
    BY <1>1, <2>1, <2>3, RefundExtensionKeepsBills, RefundRestartKeepsBills
  <2> QED BY <2>1, <2>2, <2>3
<1> QED BY <1>2, <1>3, <1>4, <1>5, <1>6, <1>7, <1>8, <1>9 DEF OrderStep, TradeStep

LEMMA OpenStep == StockInv /\ HoldInv /\ AccessInv /\ OpenInv /\ [Next]_vars => OpenInv'
<1> SUFFICES ASSUME StockInv, HoldInv, AccessInv, OpenInv, [Next]_vars PROVE OpenInv'
  OBVIOUS
<1>0. TypeOK /\ FamiliesAreFlat /\ TypeOK'
  BY TypeStep DEF StockInv
<1>1. ASSUME ord' = ord, ren' = ren, dlv' = dlv, now' \in {now, now + 1} PROVE OpenInv'
  <2>1. now \in Nat /\ now' >= now
    BY <1>0, <1>1 DEF TypeOK
  <2>2. ASSUME NEW o \in Orders PROVE InUseOpens(o)'
    <3>1. dlv[o].exp \in Int
      BY <1>0 DEF TypeOK, Delivery, Times, None
    <3> QED BY <1>1, <2>1, <3>1 DEF OpenInv, InUseOpens, After
  <2> QED BY <1>0, <1>1, <2>1, <2>2, StillKeeps
<1>2. ASSUME NEW p \in Products, SupplierStep(p) PROVE OpenInv'
  <2>1. ord' = ord /\ ren' = ren /\ dlv' = dlv /\ now' = now
    BY <1>2 DEF SupplierStep, CreateProduct, ResubmitProduct, ReviewProduct, OfflineProduct,
       SupplierOfflineProduct, SyncResource
  <2> QED BY <1>1, <2>1
<1>3. ASSUME NEW s \in Suppliers, FreezeListings(s) PROVE OpenInv'
  BY <1>1, <1>3 DEF FreezeListings
<1>4. ASSUME NEW o \in Orders, OrderStep(o) PROVE OpenInv'
  BY <1>0, <1>4, OrderStepKeepsBills
<1>5. CASE RevokeExpiredAccess
  <2>1. /\ ord' = ord /\ ren' = ren /\ now' = now
        /\ \A o \in Orders : dlv'[o] = IF dlv[o].access \in Revocable /\ After(now, dlv[o].exp)
                                       THEN [dlv[o] EXCEPT !.access = "revoked"] ELSE dlv[o]
    BY <1>5 DEF RevokeExpiredAccess
  <2>2. ASSUME NEW o \in Orders PROVE InUseOpens(o)'
    <3>1. dlv'[o].exp = dlv[o].exp /\ (dlv'[o].access = dlv[o].access \/ After(now, dlv[o].exp))
      BY <1>0, <2>1 DEF TypeOK, Delivery
    <3> QED BY <2>1, <3>1 DEF OpenInv, InUseOpens
  <2>3. now' >= now
    BY <1>0, <2>1 DEF TypeOK
  <2> QED BY <1>0, <2>1, <2>2, <2>3, StillKeeps
<1>6. ASSUME NEW o \in todo, CloseExpiredUnpaid(o) \/ CompleteExpiredLease(o)
      PROVE  OpenInv'
  <2>1. o \in Orders
    BY <1>0 DEF TypeOK
  <2>2. CASE ord' = ord /\ ren' = ren /\ dlv' = dlv
    BY <1>1, <1>6, <2>2 DEF CloseExpiredUnpaid, CompleteExpiredLease
  <2>3. CASE /\ CloseOrder(o, "cancelled") /\ now' = now
             /\ ord[o].status = "pending_payment"
    <3>1. ord[o].status \notin {"none", "completed", "refunding"} /\ ord[o].status \notin Ended
      BY <2>3 DEF Ended
    <3> QED BY <1>0, <2>1, <2>3, <3>1, CloseOrderKeepsBills
  <2>4. CASE CloseOrder(o, "completed") /\ now' = now /\ LeaseIsOver(o)
    <3>1. ord[o].status = "active" /\ ord[o].end <= now
      BY <2>4 DEF LeaseIsOver
    <3>2. ~IsRenewal(o)
      BY <2>1, <3>1 DEF HoldInv, RenewalHolds, Waiting, Ended
    <3>3. ord[o].status # "none"
      BY <3>1
    <3> QED BY <1>0, <2>1, <2>4, <3>1, <3>2, <3>3, CloseOrderKeepsBills
  <2>5. \/ ord' = ord /\ ren' = ren /\ dlv' = dlv
        \/ CloseOrder(o, "cancelled") /\ now' = now /\ ord[o].status = "pending_payment"
        \/ CloseOrder(o, "completed") /\ now' = now /\ LeaseIsOver(o)
    BY <1>6 DEF CloseExpiredUnpaid, CompleteExpiredLease
  <2> QED BY <2>2, <2>3, <2>4, <2>5
<1>7. CASE JobStep
  <2>1. \/ RevokeExpiredAccess
        \/ ord' = ord /\ ren' = ren /\ dlv' = dlv /\ now' = now
        \/ \E o \in todo : CloseExpiredUnpaid(o) \/ CompleteExpiredLease(o)
    BY <1>7 DEF JobStep, ListExpiredUnpaid, ListExpiredLeases, FinishRound
  <2> QED BY <1>1, <1>5, <1>6, <2>1
<1>8. CASE Crash \/ Tick \/ UNCHANGED vars
  BY <1>1, <1>8 DEF Crash, Tick, vars
<1> QED BY <1>2, <1>3, <1>4, <1>7, <1>8 DEF Next

\* What the bills of each family are is what the buyers are promised.
LEMMA BillsApply ==
    ASSUME StockInv, HoldInv, AccessInv, OpenInv
    PROVE  OpenRenewalsAreGood
<1>0. TypeOK /\ FamiliesAreFlat
  BY DEF StockInv
<1>1. ASSUME NEW o \in Orders
      PROVE  Cardinality({c \in Children(o) : ord[c].status \in {"pending_payment", "refunding"}}) <= 1
  <2> DEFINE S == {c \in Children(o) : ord[c].status \in {"pending_payment", "refunding"}}
  <2>1. ASSUME NEW x \in S, NEW y \in S PROVE x = y
    <3>1. /\ x \in Children(o) /\ y \in Children(o) /\ IsRenewal(x) /\ IsRenewal(y)
          /\ x \in Orders /\ y \in Orders /\ ren[x].parent = ren[y].parent
      BY DEF Children, IsRenewal, Orders
    <3>2. CASE ord[x].status = "pending_payment" /\ ord[y].status = "pending_payment"
      BY <3>1, <3>2 DEF HoldInv, OneWaits, Waiting
    <3>3. CASE ord[x].status = "refunding" /\ ord[y].status = "refunding"
      BY <3>1, <3>3 DEF OpenInv, FamilyIsGood, PairIsGood
    <3>4. CASE ord[x].status # ord[y].status
      <4>1. BillIsGood(x, o) /\ BillIsGood(y, o)
        BY <3>1 DEF OpenInv, FamilyIsGood, RenewalIsGood
      <4> QED BY <3>1, <3>4, <4>1 DEF BillIsGood
    <3> QED BY <3>2, <3>3, <3>4
  <2> HIDE DEF S
  <2>2. Cardinality(S) <= 1
    <3>1. CASE S = {}
      BY <3>1, FS_EmptySet
    <3>2. CASE S # {}
      <4>1. PICK x \in S : S = {x}
        BY <2>1, <3>2
      <4>2. Cardinality({x}) = 1
        BY FS_Singleton
      <4> QED BY <4>1, <4>2
    <3> QED BY <3>1, <3>2
  <2> QED BY <2>2 DEF S
<1>2. ASSUME NEW c \in Orders, IsRenewal(c), ord[c].status = "pending_payment",
             now < ord[c].payExp
      PROVE  ValidRenewalPayment(c)
  <2> DEFINE p == ren[c].parent
  <2>1. p \in Orders /\ c \in Children(p) /\ ~IsRenewal(p) /\ ord[p].status # "none"
    BY <1>0, <1>2 DEF FamiliesAreFlat, IsRenewal, TypeOK, Renewal, Children
  <2>2. /\ RowIsGood(c) /\ BillIsGood(c, p) /\ InUseOpens(p)
        /\ LeaseHolds(p) /\ RenewalHolds(c) /\ AccessFits(p)
    BY <2>1 DEF OpenInv, FamilyIsGood, RenewalIsGood, HoldInv, AccessInv
  <2>3. ~ren[c].applied /\ ord[p].qty = ord[c].qty /\ ord[p].end = ren[c].oldEnd
        /\ ord[p].end # None
    BY <1>2, <2>2 DEF RowIsGood, BillIsGood, RenewalHolds
  <2>4. ord[p].status = "active" => ord[p].reserved = ord[p].qty /\ ord[c].reserved = 0
    BY <1>2, <2>1, <2>2 DEF LeaseHolds, RenewalHolds, Live
  <2>5. ord[p].status = "completed" => ord[p].reserved = 0 /\ LeaseHolds(p)
    BY <2>1, <2>2 DEF LeaseHolds, Ended
  <2>6. /\ ord[p].qty \in Nat /\ ord[c].payExp \in Int /\ now \in Int /\ ren[c].oldEnd \in Int
        /\ ren[c].mode \in {"extend", "restart"}
    BY <1>0, <1>2, <2>1 DEF TypeOK, Order, Renewal, Times, None
  <2>7. CASE ren[c].mode = "extend"
    <3>1. ord[p].status = "active" /\ ord[c].payExp <= ren[c].oldEnd
      BY <1>2, <2>2, <2>7 DEF BillIsGood
    <3>2. now < ord[p].end
      BY <1>2, <2>3, <2>6, <3>1
    <3>3. dlv[p].exp = ord[p].end
      BY <2>2, <3>1 DEF AccessFits
    <3>4. UsableAccess(p)
      BY <2>2, <2>3, <2>6, <3>1, <3>2, <3>3 DEF InUseOpens, After, UsableAccess
    <3> QED BY <2>3, <2>4, <2>7, <3>1, <3>2, <3>4 DEF ValidRenewalPayment
  <2>8. CASE ren[c].mode = "restart"
    <3>1. /\ ren[c].oldEnd <= now /\ ord[p].status \in {"active", "completed"}
          /\ ord[p].status = "completed" => ord[c].reserved = ord[c].qty
      BY <1>2, <2>2, <2>8 DEF BillIsGood
    <3>2. ord[p].reserved + ord[c].reserved = ord[c].qty
      BY <2>3, <2>4, <2>5, <2>6, <3>1
    <3> QED BY <2>3, <2>8, <3>1, <3>2 DEF ValidRenewalPayment
  <2> QED BY <2>6, <2>7, <2>8
<1> QED BY <1>1, <1>2 DEF OpenRenewalsAreGood, OneOpenRenewal, PayableRenewalApplies

LEMMA OrdersStayGood == Spec => [](StockInv /\ AccessInv /\ HoldInv /\ OpenInv)
<1>1. Init => HoldInv /\ AccessInv /\ OpenInv
  <2> SUFFICES ASSUME Init PROVE HoldInv /\ AccessInv /\ OpenInv
    OBVIOUS
  <2>1. \A o \in Orders : /\ ord[o].status = "none" /\ ren[o].parent = 0
                          /\ dlv[o].access = "none"
    BY DEF Init, NoOrder, NoRenewal, NoDelivery
  <2>2. \A o \in Orders : Children(o) = {}
    BY <2>1 DEF Children, Orders
  <2>3. HoldInv
    BY <2>1 DEF HoldInv, OneWaits, LeaseHolds, RenewalHolds, IsRenewal
  <2>4. AccessInv
    BY <2>1 DEF AccessInv, AccessFits, Revocable
  <2>5. OpenInv
    BY <2>1, <2>2 DEF OpenInv, NoGaps, InUseOpens, FamilyIsGood
  <2> QED BY <2>3, <2>4, <2>5
<1> QED BY <1>1, AccessStep, HoldStep, OpenStep, StockInit, StockStep, PTL DEF Spec

\* A lease has one renewal at most that waits for money or for its refund, and a bill for a
\* renewal that can be paid takes effect when it is paid, whatever was frozen, closed,
\* extended, taken back or restarted in between: for any number of leases and renewals
\* (renewalQuoteTx, ValidateRenewalPaymentTx, unusedRenewal, cancelPendingRenewalsTx).
THEOREM RenewalsStayGood == Spec => []OpenRenewalsAreGood
BY OrdersStayGood, BillsApply, PTL

-----------------------------------------------------------------------------
(* How long a lease lasts *)

PaidTimes == [o \in Orders |-> PaidTime(o)]

\* What MapThenSumSet adds up is the sum of these times.
LEMMA PaidTimeIsSummed ==
    ASSUME NEW S \in SUBSET Orders
    PROVE  MapThenSumSet(PaidTime, S) = SumOf(PaidTimes, S)
<1>1. IsFiniteSet(S)
  <2>1. IsFiniteSet(Orders)
    BY FS_Interval, OrdersAssumption DEF Orders
  <2> QED BY <2>1, FS_Subset
<1> DEFINE Adds(g) == g = [s \in SUBSET S |->
                            IF s = {} THEN 0 ELSE PaidTime(Chosen(s)) + g[s \ {Chosen(s)}]]
<1>2. MapThenSumSet(PaidTime, S) = (CHOOSE g : Adds(g))[S]
  BY Zenon DEF MapThenSumSet, MapThenFoldSet, Chosen
<1>3. ASSUME NEW g PROVE Adds(g) <=> AddsUp(g, PaidTimes, S)
  <2>1. ASSUME NEW s \in SUBSET S
        PROVE  (IF s = {} THEN 0 ELSE PaidTime(Chosen(s)) + g[s \ {Chosen(s)}])
                  = (IF s = {} THEN 0 ELSE PaidTimes[Chosen(s)] + g[s \ {Chosen(s)}])
    <3>1. s # {} => Chosen(s) \in Orders
      BY ChosenIsIn
    <3>2. s # {} => PaidTimes[Chosen(s)] = PaidTime(Chosen(s))
      BY <3>1 DEF PaidTimes
    <3> QED BY <3>2
  <2> QED BY <2>1, Zenon DEF AddsUp
<1>4. PICK g : AddsUp(g, PaidTimes, S)
  BY <1>1, SumsExist
<1>5. Adds(CHOOSE x : Adds(x))
  <2>1. Adds(g)
    BY <1>3, <1>4
  <2> HIDE DEF Adds
  <2> QED BY <2>1, Zenon
<1>6. PICK h : h = (CHOOSE x : Adds(x))
  OBVIOUS
<1>7. AddsUp(h, PaidTimes, S)
  <2> HIDE DEF Adds
  <2> QED BY <1>3, <1>5, <1>6
<1>8. h[S] = SumOf(PaidTimes, S)
  <2>1. PICK f : f = PaidTimes
    OBVIOUS
  <2>2. AddsUp(h, f, S)
    BY <1>7, <2>1
  <2>3. h[S] = SumOf(f, S)
    BY <1>1, <2>2, SumOfWhole, Zenon
  <2> QED BY <2>1, <2>3
<1> HIDE DEF Adds
<1> QED BY <1>2, <1>6, <1>8

\* What was quoted for an extension is what its duration comes to.
QuoteIsPaid(c) ==
    IsRenewal(c) /\ ren[c].mode = "extend" => ren[c].until = ren[c].oldEnd + PaidTime(c)

\* A lease in use began, and ends when the durations that were paid for are over.
LastsAsPaid(o) ==
    ord[o].status = "active" =>
        /\ ord[o].start <= now
        /\ \A l \in Orders : IsLeaseOrder(l, o) =>
              IF ord[l].unit = Perpetual
              THEN ord[o].end = None
              ELSE ord[o].end = ord[o].start + PaidTime(l) + SumOf(PaidTimes, Extensions(o))

PaidInv == \A o \in Orders : QuoteIsPaid(o) /\ LastsAsPaid(o)

\* What the invariants proved so far say of a state, as far as it is needed here.
Good == TypeOK /\ FamiliesAreFlat /\ HoldInv /\ OpenInv

\* What no step changes of an order that there is.
Kept(x) ==
    \/ ord[x].status = "none" /\ ord'[x].status = "pending_payment"
    \/ /\ ord'[x].unit = ord[x].unit /\ ord'[x].dur = ord[x].dur
       /\ ren'[x].parent = ren[x].parent /\ ren'[x].mode = ren[x].mode
       /\ ren'[x].oldEnd = ren[x].oldEnd /\ ren'[x].until = ren[x].until

\* What most steps do to an order at most.
Settles(x) ==
    \/ ord[x].status = "none" /\ ord'[x].status = "pending_payment"
    \/ /\ Kept(x)
       /\ ord'[x].start = ord[x].start /\ ord'[x].end = ord[x].end
       /\ \/ ord'[x].status = ord[x].status
          \/ ord'[x].status # "active" /\ (IsRenewal(x) => (Counts(x)' <=> Counts(x)))

\* A lease that goes on as it was, with the renewals that count.
GoesOn(x) ==
    ord'[x].status = "active" =>
        /\ ord[x].status = "active"
        /\ ord'[x].start = ord[x].start /\ ord'[x].end = ord[x].end
        /\ \A c \in Children(x) : Counts(c)' <=> Counts(c)

\* A step that touches the family of p alone leaves the other leases as they were.
LEMMA OthersGoOn ==
    ASSUME Good, Good', NEW p \in Orders, ~IsRenewal(p), \A x \in Orders : Kept(x),
           \A x \in Orders \ ({p} \cup Children(p)) : Settles(x)
    PROVE  \A x \in Orders \ {p} : GoesOn(x)
<1> SUFFICES ASSUME NEW x \in Orders \ {p}, ord'[x].status = "active"
             PROVE  /\ ord[x].status = "active"
                    /\ ord'[x].start = ord[x].start /\ ord'[x].end = ord[x].end
                    /\ \A c \in Children(x) : Counts(c)' <=> Counts(c)
  BY DEF GoesOn
<1>1. ~IsRenewal(x)'
  BY DEF Good, HoldInv, RenewalHolds, Waiting, Ended
<1>2. ren'[x].parent = ren[x].parent
  BY DEF Kept
<1>3. x \notin Children(p) /\ ~IsRenewal(x)
  BY <1>1, <1>2 DEF IsRenewal, Children, Orders
<1>4. Settles(x)
  BY <1>3
<1>5. /\ ord[x].status = "active"
      /\ ord'[x].start = ord[x].start /\ ord'[x].end = ord[x].end
  BY <1>4 DEF Settles
<1>6. ASSUME NEW c \in Children(x) PROVE Counts(c)' <=> Counts(c)
  <2>1. c \in Orders /\ ren[c].parent = x /\ IsRenewal(c) /\ c # p /\ c \notin Children(p)
    BY DEF Children, IsRenewal, Orders
  <2>2. Settles(c) /\ ord[c].status # "none"
    BY <2>1 DEF Good, FamiliesAreFlat
  <2> QED BY <2>1, <2>2 DEF Settles, Counts
<1> QED BY <1>5, <1>6

\* A lease that goes on lasts as long as before.
LEMMA LastsStill ==
    ASSUME Good, Good', \A x \in Orders : Kept(x), NEW o \in Orders, LastsAsPaid(o),
           GoesOn(o), now' >= now
    PROVE  LastsAsPaid(o)'
<1> SUFFICES ASSUME ord'[o].status = "active" PROVE LastsAsPaid(o)'
  BY DEF LastsAsPaid
<1>1. /\ ord[o].status = "active"
      /\ ord'[o].start = ord[o].start /\ ord'[o].end = ord[o].end
      /\ \A c \in Children(o) : Counts(c)' <=> Counts(c)
  BY DEF GoesOn
<1>2. ASSUME NEW c \in Orders
      PROVE  /\ c \in Children(o) /\ Counts(c) => c \in Children(o)' /\ Counts(c)'
             /\ c \in Children(o)' /\ Counts(c)' => c \in Children(o) /\ Counts(c)
             /\ Counts(c) => /\ ord'[c].unit = ord[c].unit /\ ord'[c].dur = ord[c].dur
                             /\ ren'[c].mode = ren[c].mode /\ ren'[c].oldEnd = ren[c].oldEnd
  <2>1. Kept(c)
    OBVIOUS
  <2>2. ASSUME Counts(c) \/ Counts(c)'
        PROVE  /\ ord'[c].unit = ord[c].unit /\ ord'[c].dur = ord[c].dur
               /\ ren'[c].parent = ren[c].parent /\ ren'[c].mode = ren[c].mode
               /\ ren'[c].oldEnd = ren[c].oldEnd
    BY <2>1, <2>2 DEF Kept, Counts
  <2> QED BY <1>1, <2>2 DEF Children
<1>3. ASSUME NEW c \in Children(o), Counts(c) PROVE ren[c].applied
  BY <1>3 DEF Good, OpenInv, FamilyIsGood, RenewalIsGood, RowIsGood, Counts
<1>4. ASSUME NEW c \in Children(o)', Counts(c)' PROVE ren'[c].applied
  <2>1. FamilyIsGood(o)'
    BY DEF Good, OpenInv
  <2>2. RowIsGood(c)'
    BY <2>1 DEF FamilyIsGood, RenewalIsGood
  <2> QED BY <1>4, <2>2 DEF RowIsGood, Counts
<1>5. Restarts(o)' = Restarts(o)
  <2>1. ASSUME NEW c \in Orders PROVE c \in Restarts(o)' <=> c \in Restarts(o)
    BY <1>2, <1>3, <1>4 DEF Restarts, Counts, Children
  <2> QED BY <2>1 DEF Restarts, Children
<1>6. Extensions(o)' = Extensions(o)
  <2>1. ASSUME NEW c \in Orders PROVE c \in Extensions(o)' <=> c \in Extensions(o)
    BY <1>1, <1>2, <1>3, <1>4 DEF Extensions, Counts, Children
  <2> QED BY <2>1 DEF Extensions, Children
<1>7. \A x \in Restarts(o) \cup Extensions(o) : x \in Orders /\ Counts(x)
  BY DEF Restarts, Extensions, Counts, Children
<1>8. \A x \in Restarts(o) \cup Extensions(o) \cup {o} :
         ord'[x].unit = ord[x].unit /\ ord'[x].dur = ord[x].dur
  <2>1. ord'[o].unit = ord[o].unit /\ ord'[o].dur = ord[o].dur
    BY <1>1 DEF Kept
  <2> QED BY <1>2, <1>7, <2>1
<1>9. SumOf(PaidTimes, Extensions(o))' = SumOf(PaidTimes, Extensions(o))
  <2>1. PICK f, g, S : f = PaidTimes /\ g = PaidTimes' /\ S = Extensions(o) /\ S = Extensions(o)'
    BY <1>6
  <2>2. S \in SUBSET Orders /\ \A x \in S : f[x] = g[x]
    BY <1>7, <1>8, <2>1 DEF PaidTimes, PaidTime
  <2>3. IsFiniteSet(S)
    <3>1. IsFiniteSet(Orders)
      BY FS_Interval, OrdersAssumption DEF Orders
    <3> QED BY <2>2, <3>1, FS_Subset
  <2>4. SumOf(f, S) = SumOf(g, S)
    BY <2>2, <2>3, SumsSame
  <2> QED BY <2>1, <2>4
<1>10. ord[o].start <= now'
  <2>1. ord[o].start \in Int /\ now \in Int /\ now' \in Int
    BY DEF Good, TypeOK, Order, Times, None
  <2> QED BY <1>1, <2>1 DEF LastsAsPaid
<1>11. ASSUME NEW l \in Orders, IsLeaseOrder(l, o)'
       PROVE  IsLeaseOrder(l, o) /\ l \in Restarts(o) \cup {o}
  BY <1>5, <1>11 DEF IsLeaseOrder
<1>12. ASSUME NEW l \in Orders, IsLeaseOrder(l, o)'
       PROVE  IF ord'[l].unit = Perpetual
              THEN ord'[o].end = None
              ELSE ord'[o].end = ord'[o].start + PaidTime(l)' + SumOf(PaidTimes, Extensions(o))'
  <2>1. ord'[l].unit = ord[l].unit /\ PaidTime(l)' = PaidTime(l)
    BY <1>8, <1>11, <1>12 DEF PaidTime
  <2>2. IF ord[l].unit = Perpetual
        THEN ord[o].end = None
        ELSE ord[o].end = ord[o].start + PaidTime(l) + SumOf(PaidTimes, Extensions(o))
    BY <1>1, <1>11, <1>12 DEF LastsAsPaid
  <2> QED BY <1>1, <1>9, <2>1, <2>2
<1> QED BY <1>1, <1>10, <1>12 DEF LastsAsPaid

LEMMA PaidStays ==
    ASSUME Good, Good', PaidInv, now' >= now, \A x \in Orders : Kept(x),
           \A x \in Orders : GoesOn(x) \/ LastsAsPaid(x)',
           \A x \in Orders : ord[x].status = "none" /\ ord'[x].status = "pending_payment"
                                => QuoteIsPaid(x)'
    PROVE  PaidInv'
<1>1. ASSUME NEW x \in Orders PROVE QuoteIsPaid(x)'
  <2>1. QuoteIsPaid(x) /\ Kept(x)
    BY DEF PaidInv
  <2> QED BY <2>1 DEF Kept, QuoteIsPaid, IsRenewal, PaidTime
<1>2. ASSUME NEW x \in Orders PROVE LastsAsPaid(x)'
  BY LastsStill DEF PaidInv
<1> QED BY <1>1, <1>2 DEF PaidInv

\* The steps that begin no lease and move no end.
LEMMA SettlingPays ==
    ASSUME Good, Good', PaidInv, now' >= now, \A x \in Orders : Settles(x),
           \A x \in Orders : ord[x].status = "none" /\ ord'[x].status = "pending_payment"
                                => QuoteIsPaid(x)'
    PROVE  PaidInv'
<1>1. \A x \in Orders : Kept(x)
  BY DEF Settles, Kept
<1>2. ASSUME NEW x \in Orders PROVE GoesOn(x)
  <2>1. \A c \in Children(x) : c \in Orders /\ IsRenewal(c) /\ ord[c].status # "none"
    BY DEF Good, FamiliesAreFlat, Children, IsRenewal, Orders
  <2> QED BY <2>1 DEF Settles, GoesOn, Counts
<1> QED BY <1>1, <1>2, PaidStays

\* Unpaid renewals that are cancelled settle.
LEMMA CancelledSettles ==
    ASSUME TypeOK, NEW S, \A x \in S : ord[x].status = "pending_payment",
           NEW x \in Orders, ord'[x] = WithCancelled(S)[x], ren'[x] = ren[x]
    PROVE  Settles(x)
<1>1. CASE x \in S
  <2>1. ord'[x] = [ord[x] EXCEPT !.status = "cancelled", !.reserved = 0]
    BY <1>1 DEF WithCancelled, Emptied
  <2>2. /\ ord'[x].unit = ord[x].unit /\ ord'[x].dur = ord[x].dur
        /\ ord'[x].start = ord[x].start /\ ord'[x].end = ord[x].end
        /\ ord'[x].status = "cancelled"
    BY <2>1 DEF TypeOK, Order
  <2> QED BY <1>1, <2>2 DEF Settles, Kept, Counts
<1>2. CASE x \notin S
  <2>1. ord'[x] = ord[x]
    BY <1>2 DEF WithCancelled
  <2> QED BY <2>1 DEF Settles, Kept
<1> QED BY <1>1, <1>2

\* What ends, freezes or gives back an order settles them all.
LEMMA EndingSettles ==
    ASSUME TypeOK, NEW o \in Orders, NEW S, \A x \in S : ord[x].status = "pending_payment",
           NEW status, status # "active", ren' = ren, NEW row,
           row.status = status, row.unit = ord[o].unit, row.dur = ord[o].dur,
           row.start = ord[o].start, row.end = ord[o].end,
           ord' = [WithCancelled(S) EXCEPT ![o] = row],
           IsRenewal(o) => (status \in {"completed", "refunding"} <=> Counts(o))
    PROVE  \A x \in Orders : Settles(x)
<1>1. ord'[o] = row /\ \A x \in Orders \ {o} : ord'[x] = WithCancelled(S)[x]
  BY DEF WithCancelled
<1>2. Settles(o)
  BY <1>1 DEF Settles, Kept, Counts
<1> QED BY <1>1, <1>2, CancelledSettles

LEMMA CloseOrderSettles ==
    ASSUME Good, NEW o \in Orders, NEW status \in {"cancelled", "refunded", "completed"},
           CloseOrder(o, status),
           IsRenewal(o) => status = "cancelled" /\ ~Counts(o)
    PROVE  \A x \in Orders : Settles(x)
<1> DEFINE open == IF IsRenewal(o) THEN {} ELSE OpenRenewals(o)
<1>1. ord' = [WithCancelled(open) EXCEPT ![o] = Emptied(o, status)] /\ ren' = ren
  BY DEF CloseOrder
<1>2. \A x \in open : ord[x].status = "pending_payment"
  BY DEF OpenRenewals
<1>3. /\ Emptied(o, status).status = status /\ Emptied(o, status).unit = ord[o].unit
      /\ Emptied(o, status).dur = ord[o].dur /\ Emptied(o, status).start = ord[o].start
      /\ Emptied(o, status).end = ord[o].end
  BY DEF Good, Emptied, TypeOK, Order
<1> HIDE DEF open
<1> QED BY <1>1, <1>2, <1>3, EndingSettles DEF Good

LEMMA StatusSettles ==
    ASSUME Good, NEW o \in Orders, FreezeOrder(o) \/ RequestRefund(o)
    PROVE  \A x \in Orders : Settles(x)
<1>1. PICK S, status :
         /\ status \in {"frozen", "refunding"} /\ ren' = ren
         /\ ord' = [WithCancelled(S) EXCEPT ![o].status = status]
         /\ \A x \in S : ord[x].status = "pending_payment"
         /\ o \notin S
         /\ IsRenewal(o) => (status \in {"completed", "refunding"} <=> Counts(o))
  <2>1. CASE FreezeOrder(o)
    <3> DEFINE open == IF IsRenewal(o) THEN {} ELSE OpenRenewals(o)
    <3>1. ord' = [WithCancelled(open) EXCEPT ![o].status = "frozen"] /\ ren' = ren
      BY <2>1 DEF FreezeOrder
    <3>2. \A x \in open : ord[x].status = "pending_payment"
      BY DEF OpenRenewals
    <3>3. o \notin open /\ ~Counts(o)
      BY <2>1 DEF OpenRenewals, Children, IsRenewal, Orders, FreezeOrder, Counts
    <3>4. "frozen" \in {"completed", "refunding"} <=> Counts(o)
      BY <3>3
    <3> HIDE DEF open
    <3> QED BY <3>1, <3>2, <3>3, <3>4
  <2>2. CASE RequestRefund(o)
    <3> DEFINE open == OpenRenewals(IF IsRenewal(o) THEN ren[o].parent ELSE o)
    <3>1. ord' = [WithCancelled(open) EXCEPT ![o].status = "refunding"] /\ ren' = ren
      BY <2>2 DEF RequestRefund
    <3>2. \A x \in open : ord[x].status = "pending_payment"
      BY DEF OpenRenewals
    <3>3. ord[o].status # "pending_payment" /\ (IsRenewal(o) => Counts(o))
      BY <2>2 DEF RequestRefund, Counts
    <3>4. o \notin open
      BY <3>2, <3>3
    <3> HIDE DEF open
    <3> QED BY <3>1, <3>2, <3>3, <3>4
  <2> QED BY <2>1, <2>2
<1> DEFINE row == [ord[o] EXCEPT !.status = status]
<1>2. ord' = [WithCancelled(S) EXCEPT ![o] = row]
  BY <1>1 DEF WithCancelled
<1>3. /\ row.status = status /\ row.unit = ord[o].unit /\ row.dur = ord[o].dur
      /\ row.start = ord[o].start /\ row.end = ord[o].end
  BY DEF Good, TypeOK, Order
<1>4. PICK r : r = row
  OBVIOUS
<1> HIDE DEF row
<1>5. TypeOK /\ status # "active"
  BY <1>1 DEF Good
<1>6. /\ r.status = status /\ r.unit = ord[o].unit /\ r.dur = ord[o].dur
      /\ r.start = ord[o].start /\ r.end = ord[o].end
      /\ ord' = [WithCancelled(S) EXCEPT ![o] = r]
  BY <1>2, <1>3, <1>4
<1>7. /\ ren' = ren /\ \A x \in S : ord[x].status = "pending_payment"
      /\ IsRenewal(o) => (status \in {"completed", "refunding"} <=> Counts(o))
  BY <1>1
<1> QED BY <1>5, <1>6, <1>7, EndingSettles

\* Payment of a first lease, and its delivery until it is signed for.
LEMMA BeginningSettles ==
    ASSUME Good, NEW o \in Orders,
           ConfirmPayment(o) \/ \E lease \in Orders : DeliverWithAccess(o, lease)
    PROVE  \A x \in Orders : Settles(x)
<1>1. /\ ~IsRenewal(o) /\ ren' = ren
      /\ \E status \in {"paid", "provisioning"} : ord' = [ord EXCEPT ![o].status = status]
  BY DEF ConfirmPayment, DeliverWithAccess
<1>2. PICK status \in {"paid", "provisioning"} : ord' = [ord EXCEPT ![o].status = status]
  BY <1>1
<1>3. /\ \A x \in Orders \ {o} : ord'[x] = ord[x]
      /\ ord'[o] = [ord[o] EXCEPT !.status = status]
  BY <1>2 DEF Good, TypeOK
<1>4. /\ ord'[o].status = status /\ ord'[o].unit = ord[o].unit /\ ord'[o].dur = ord[o].dur
      /\ ord'[o].start = ord[o].start /\ ord'[o].end = ord[o].end
  BY <1>3 DEF Good, TypeOK, Order
<1> QED BY <1>1, <1>3, <1>4 DEF Settles, Kept

LEMMA NewOrderSettles ==
    ASSUME Good, NEW o \in Orders, ord[o].status = "none", ord'[o].status = "pending_payment",
           \A x \in Orders \ {o} : ord'[x] = ord[x] /\ ren'[x] = ren[x]
    PROVE  \A x \in Orders : Settles(x)
BY DEF Settles, Kept

\* One extension more adds its time.
LEMMA OneMore ==
    ASSUME NEW S \in SUBSET Orders, NEW c \in Orders \ S,
           NEW f, \A x \in Orders : f[x] \in Int, NEW g, \A x \in Orders : g[x] \in Int,
           \A x \in S : f[x] = g[x]
    PROVE  SumOf(g, S \cup {c}) = g[c] + SumOf(f, S) /\ SumOf(f, S) \in Int
<1>1. IsFiniteSet(Orders)
  BY FS_Interval, OrdersAssumption DEF Orders
<1>2. IsFiniteSet(S) /\ IsFiniteSet(S \cup {c}) /\ (S \cup {c}) \ {c} = S
  BY <1>1, FS_Subset
<1>3. SumOf(g, S \cup {c}) = g[c] + SumOf(g, (S \cup {c}) \ {c})
  <2> DEFINE T == S \cup {c}
  <2>1. c \in T /\ \A x \in T : g[x] \in Int
    OBVIOUS
  <2> HIDE DEF T
  <2>2. IsFiniteSet(T)
    BY <1>2 DEF T
  <2>3. SumOf(g, T) = g[c] + SumOf(g, T \ {c})
    BY <2>1, <2>2, SumWithout
  <2> QED BY <2>3 DEF T
<1>4. SumOf(g, S) = SumOf(f, S)
  BY <1>2, SumsSame
<1>5. SumOf(f, S) \in Int
  BY <1>2, SumIsInt
<1> QED BY <1>2, <1>3, <1>4, <1>5

LEMMA TimesAreInts ==
    ASSUME TypeOK
    PROVE  \A x \in Orders : PaidTime(x) \in Int /\ PaidTimes[x] = PaidTime(x)
<1> SUFFICES ASSUME NEW x \in Orders PROVE PaidTime(x) \in Int
  BY DEF PaidTimes
<1>1. PICK u, d : u = ord[x].unit /\ d = ord[x].dur
  OBVIOUS
<1>2. u \in Nat /\ d \in Nat
  BY <1>1 DEF TypeOK, Order
<1>3. u * d \in Int
  BY <1>2
<1> QED BY <1>1, <1>3 DEF PaidTime

\* The extension that is paid adds its time to the lease.
LEMMA ApplyExtensionPays ==
    ASSUME Good, Good', PaidInv, NEW c \in Orders, ApplyExtension(c), now' = now,
           NEW p \in Orders, p = ren[c].parent
    PROVE  PaidInv'
<1>1. /\ IsRenewal(c) /\ ord[c].status = "pending_payment" /\ ren[c].mode = "extend"
      /\ ord[p].status = "active" /\ ord[p].end = ren[c].oldEnd /\ ord[p].end # None
      /\ ord[p].end > now
      /\ ord' = [ord EXCEPT ![p].end = ren[c].until,
                            ![c] = [ord[c] EXCEPT !.status = "completed", !.reserved = 0,
                                                  !.start = ren[c].oldEnd,
                                                  !.end = ren[c].until]]
      /\ ren' = [ren EXCEPT ![c].applied = TRUE]
  BY DEF ApplyExtension, ValidRenewalPayment
<1>2. /\ p # c /\ ~IsRenewal(p) /\ c \in Children(p)
  BY <1>1 DEF Good, FamiliesAreFlat, Children, IsRenewal, Orders
<1>3. /\ ord'[p].status = "active" /\ ord'[p].end = ren[c].until
      /\ ord'[p].start = ord[p].start
      /\ ord'[c].status = "completed"
      /\ \A x \in Orders : ord'[x].unit = ord[x].unit /\ ord'[x].dur = ord[x].dur
      /\ \A x \in Orders \ {c, p} : ord'[x] = ord[x]
  <2>1. /\ ord'[p] = [ord[p] EXCEPT !.end = ren[c].until]
        /\ ord'[c] = [ord[c] EXCEPT !.status = "completed", !.reserved = 0,
                                    !.start = ren[c].oldEnd, !.end = ren[c].until]
        /\ \A x \in Orders \ {c, p} : ord'[x] = ord[x]
    BY <1>1, <1>2 DEF Good, TypeOK
  <2>2. /\ ord'[p].unit = ord[p].unit /\ ord'[p].dur = ord[p].dur
        /\ ord'[c].unit = ord[c].unit /\ ord'[c].dur = ord[c].dur
    BY <2>1 DEF Good, TypeOK, Order
  <2>3. ord'[p].status = "active" /\ ord'[p].end = ren[c].until /\ ord'[p].start = ord[p].start
        /\ ord'[c].status = "completed"
    BY <1>1, <2>1, SMTT(30) DEF Good, TypeOK, Order
  <2> QED BY <2>1, <2>2, <2>3
<1>4. /\ ren'[c].parent = p /\ ren'[c].mode = "extend" /\ ren'[c].applied
      /\ ren'[c].oldEnd = ren[c].oldEnd /\ ren'[c].until = ren[c].until
      /\ \A x \in Orders \ {c} : ren'[x] = ren[x]
  BY <1>1 DEF Good, TypeOK, Renewal
<1>5. \A x \in Orders : Kept(x)
  <2>1. ren[c].mode = "extend" /\ ren[c].parent = p
    BY <1>1
  <2>2. Kept(c)
    BY <1>3, <1>4, <2>1 DEF Kept
  <2>3. \A x \in Orders \ {c} : Kept(x)
    BY <1>3, <1>4 DEF Kept
  <2> QED BY <2>2, <2>3
<1>6. \A x \in Orders \ {p} : GoesOn(x)
  <2>1. \A x \in Orders \ ({p} \cup Children(p)) : Settles(x)
    BY <1>2, <1>3, <1>4, <1>5 DEF Settles
  <2> QED BY <1>2, <1>5, <2>1, OthersGoOn
<1>7. LastsAsPaid(p) /\ QuoteIsPaid(c)
  BY DEF PaidInv
<1>8. ord[p].start <= now /\ ord[p].start < ren[c].oldEnd
  <2>1. ord[p].start \in Int /\ now \in Int /\ ord[p].end \in Int
    BY DEF Good, TypeOK, Order, Times, None
  <2> QED BY <1>1, <1>7, <2>1 DEF LastsAsPaid
<1>9. Restarts(p)' = Restarts(p) /\ c \notin Restarts(p)
  <2>1. ASSUME NEW x \in Orders PROVE x \in Restarts(p)' <=> x \in Restarts(p)
    <3>1. CASE x = c
      BY <1>1, <1>4, <3>1 DEF Restarts
    <3>2. CASE x = p
      BY <1>2, <1>4, <3>2 DEF Restarts, Children, IsRenewal, Orders
    <3>3. CASE x \notin {c, p}
      BY <1>3, <1>4, <3>3 DEF Restarts, Children
    <3> QED BY <3>1, <3>2, <3>3
  <2> QED BY <1>1, <2>1 DEF Restarts, Children
<1>10. Extensions(p)' = Extensions(p) \cup {c} /\ c \notin Extensions(p)
       /\ Extensions(p) \in SUBSET Orders
  <2>1. ASSUME NEW x \in Orders
        PROVE  x \in Extensions(p)' <=> x \in Extensions(p) \cup {c}
    <3>1. CASE x = c
      BY <1>1, <1>3, <1>4, <1>8, <3>1 DEF Extensions, Children
    <3>2. CASE x = p
      BY <1>2, <1>4, <3>2 DEF Extensions, Children, IsRenewal, Orders
    <3>3. CASE x \notin {c, p}
      BY <1>3, <1>4, <3>3 DEF Extensions, Children
    <3> QED BY <3>1, <3>2, <3>3
  <2> QED BY <1>1, <2>1, ZenonT(40) DEF Extensions, Children
<1>11. \A x \in Orders : /\ PaidTime(x) \in Int /\ PaidTime(x)' = PaidTime(x)
                         /\ PaidTimes[x] = PaidTime(x) /\ PaidTimes'[x] = PaidTime(x)
  <2>1. \A x \in Orders : PaidTime(x)' = PaidTime(x)
    BY <1>3 DEF PaidTime
  <2>2. \A x \in Orders : PaidTimes'[x] = PaidTime(x)'
    BY DEF PaidTimes
  <2> QED BY <2>1, <2>2, TimesAreInts DEF Good
<1>12. /\ SumOf(PaidTimes, Extensions(p))' = PaidTime(c) + SumOf(PaidTimes, Extensions(p))
       /\ SumOf(PaidTimes, Extensions(p)) \in Int
  <2>1. PICK f, g, S : f = PaidTimes /\ g = PaidTimes' /\ S = Extensions(p)
    OBVIOUS
  <2>2. /\ S \in SUBSET Orders /\ c \in Orders \ S
        /\ \A x \in Orders : f[x] \in Int /\ g[x] \in Int /\ f[x] = g[x]
    BY <1>10, <1>11, <2>1
  <2>3. SumOf(g, S \cup {c}) = g[c] + SumOf(f, S) /\ SumOf(f, S) \in Int
    BY <2>2, OneMore, ZenonT(40)
  <2> QED BY <1>10, <1>11, <2>1, <2>3
<1>13. ASSUME NEW l \in Orders, IsLeaseOrder(l, p)'
       PROVE  IF ord'[l].unit = Perpetual
              THEN ord'[p].end = None
              ELSE ord'[p].end = ord'[p].start + PaidTime(l)' + SumOf(PaidTimes, Extensions(p))'
  <2>1. IsLeaseOrder(l, p)
    BY <1>9, <1>13 DEF IsLeaseOrder
  <2>2. /\ ord[l].unit # Perpetual
        /\ ord[p].end = ord[p].start + PaidTime(l) + SumOf(PaidTimes, Extensions(p))
    BY <1>1, <1>7, <2>1 DEF LastsAsPaid
  <2>3. ord'[p].end = ord[p].end + PaidTime(c)
    BY <1>1, <1>3, <1>7 DEF QuoteIsPaid
  <2>4. PICK t, k, s, e, x : /\ t = ord[p].start /\ k = PaidTime(l) /\ e = PaidTime(c)
                             /\ s = SumOf(PaidTimes, Extensions(p)) /\ x = ord[p].end
    OBVIOUS
  <2>5. t \in Int /\ k \in Int /\ s \in Int /\ e \in Int
    BY <1>11, <1>12, <2>4 DEF Good, TypeOK, Order, Times, None
  <2>6. (t + k + s) + e = t + k + (e + s)
    BY <2>5
  <2> QED BY <1>3, <1>11, <1>12, <2>2, <2>3, <2>4, <2>6
<1>14. LastsAsPaid(p)'
  BY <1>3, <1>8, <1>13 DEF LastsAsPaid
<1>15. \A x \in Orders : ~(ord[x].status = "none" /\ ord'[x].status = "pending_payment")
  BY <1>1, <1>3
<1>16. now' >= now
  BY DEF Good, TypeOK
<1> QED BY <1>5, <1>6, <1>14, <1>15, <1>16, PaidStays

\* The extension that is refunded takes its time from the lease.
LEMMA RefundExtensionPays ==
    ASSUME Good, Good', PaidInv, NEW c \in Orders, IsRenewal(c), ord[c].status = "refunding",
           RefundExtension(c), now' = now, NEW p \in Orders, p = ren[c].parent
    PROVE  PaidInv'
<1> DEFINE open == OpenRenewals(p)
<1>1. /\ ren[c].mode = "extend" /\ ren[c].applied /\ ren' = ren
      /\ ord[p].status = "active" /\ ord[p].end = ren[c].until /\ ren[c].oldEnd > now
      /\ ord' = [WithCancelled(open) EXCEPT ![p].end = ren[c].oldEnd,
                                            ![c] = Emptied(c, "refunded")]
  BY DEF RefundExtension, UnusedRenewal
<1>2. /\ p # c /\ ~IsRenewal(p) /\ c \in Children(p)
      /\ c \notin open /\ p \notin open /\ open \in SUBSET Children(p)
      /\ \A x \in open : ord[x].status = "pending_payment"
  BY <1>1 DEF Good, FamiliesAreFlat, OpenRenewals, Children, IsRenewal, Orders
<1> HIDE DEF open
<1>3. /\ ord'[p].status = "active" /\ ord'[p].end = ren[c].oldEnd
      /\ ord'[p].start = ord[p].start
      /\ ord'[c].status = "refunded"
      /\ \A x \in Orders \ {c, p} : ord'[x] = WithCancelled(open)[x] /\ Settles(x)
      /\ \A x \in {c, p} : ord'[x].unit = ord[x].unit /\ ord'[x].dur = ord[x].dur
  <2>1. /\ ord'[p] = [ord[p] EXCEPT !.end = ren[c].oldEnd]
        /\ ord'[c] = [ord[c] EXCEPT !.status = "refunded", !.reserved = 0]
        /\ \A x \in Orders \ {c, p} : ord'[x] = WithCancelled(open)[x]
    BY <1>1, <1>2 DEF WithCancelled, Emptied
  <2>2. /\ ord'[p].unit = ord[p].unit /\ ord'[p].dur = ord[p].dur
        /\ ord'[c].unit = ord[c].unit /\ ord'[c].dur = ord[c].dur
    BY <2>1 DEF Good, TypeOK, Order
  <2>3. /\ ord'[p].status = "active" /\ ord'[p].end = ren[c].oldEnd
        /\ ord'[p].start = ord[p].start /\ ord'[c].status = "refunded"
    <3>1. PICK e : e = ren[c].oldEnd
      OBVIOUS
    <3>2. ord[p] \in Order /\ ord[c] \in Order /\ ord[p].status = "active"
      BY <1>1 DEF Good, TypeOK
    <3>3. ord'[p] = [ord[p] EXCEPT !.end = e]
      BY <2>1, <3>1
    <3>4. ord'[p].status = "active" /\ ord'[p].end = e /\ ord'[p].start = ord[p].start
      BY <3>2, <3>3 DEF Order
    <3>5. ord'[c].status = "refunded"
      BY <2>1, <3>2 DEF Order
    <3> QED BY <3>1, <3>4, <3>5
  <2>4. \A x \in Orders \ {c, p} : Settles(x)
    BY <1>1, <1>2, <2>1, CancelledSettles, ZenonT(40) DEF Good
  <2> QED BY <2>1, <2>2, <2>3, <2>4
<1>4. \A x \in Orders : Kept(x) /\ ord[x].status # "none" => ord'[x].unit = ord[x].unit
                                                              /\ ord'[x].dur = ord[x].dur
  BY <1>3 DEF Settles, Kept
<1>5. \A x \in Orders : Kept(x)
  <2>1. \A x \in {c, p} : Kept(x)
    BY <1>1, <1>3 DEF Kept
  <2> QED BY <1>3, <2>1 DEF Settles, Kept
<1>6. \A x \in Orders \ {p} : GoesOn(x)
  <2>1. \A x \in Orders \ ({p} \cup Children(p)) : Settles(x)
    BY <1>2, <1>3
  <2> QED BY <1>2, <1>5, <2>1, OthersGoOn
<1>7. LastsAsPaid(p) /\ QuoteIsPaid(c)
  BY DEF PaidInv
<1>8. /\ ord[p].start <= now /\ ord[p].start < ren[c].oldEnd
      /\ ord[p].end \in Int /\ ren[c].oldEnd \in Int /\ ord[p].end # None
  <2>1. ord[p].start \in Int /\ now \in Nat /\ ord[p].end \in Int /\ ren[c].oldEnd \in Int
    BY DEF Good, TypeOK, Order, Renewal, Times, None
  <2>2. RowIsGood(c)
    BY <1>2 DEF Good, OpenInv, FamilyIsGood, RenewalIsGood
  <2> QED BY <1>1, <1>7, <2>1, <2>2 DEF LastsAsPaid, RowIsGood, None
<1>9. ASSUME NEW x \in Children(p) \ {c}
      PROVE  (Counts(x)' <=> Counts(x)) /\ x \in Orders \ {p, c}
             /\ ord[x].status # "none" /\ ord'[x].status # "none"
  <2>1. x \in Orders \ {p, c} /\ IsRenewal(x)
    BY <1>2 DEF Children, IsRenewal, Orders
  <2>2. Settles(x) /\ ord[x].status # "none"
    BY <1>3, <2>1 DEF Good, FamiliesAreFlat
  <2>3. ord'[x].status # "none"
    BY <1>1, <2>1 DEF Good, FamiliesAreFlat, IsRenewal
  <2> QED BY <2>1, <2>2, <2>3 DEF Settles, Counts
<1>10. Restarts(p)' = Restarts(p) /\ Restarts(p) \in SUBSET (Children(p) \ {c})
  <2>1. ASSUME NEW x \in Orders PROVE x \in Restarts(p)' <=> x \in Restarts(p)
    BY <1>1, <1>9 DEF Restarts, Children, Counts
  <2> QED BY <1>1, <2>1 DEF Restarts, Children
<1>11. Extensions(p) = Extensions(p)' \cup {c} /\ c \notin Extensions(p)'
       /\ Extensions(p) \in SUBSET Children(p)
  <2>1. c \in Extensions(p) /\ c \notin Extensions(p)'
    BY <1>1, <1>2, <1>3, <1>8 DEF Extensions
  <2>2. ASSUME NEW x \in Orders \ {c} PROVE x \in Extensions(p)' <=> x \in Extensions(p)
    BY <1>1, <1>3, <1>9 DEF Extensions, Children, Counts
  <2> QED BY <2>1, <2>2 DEF Extensions, Children
<1>12. /\ \A x \in Orders : /\ PaidTime(x) \in Int /\ PaidTimes[x] = PaidTime(x)
                            /\ PaidTimes'[x] \in Int
       /\ \A x \in Children(p) \cup {p} : PaidTimes'[x] = PaidTime(x) /\ PaidTime(x)' = PaidTime(x)
  <2>1. ASSUME NEW x \in Children(p) \cup {p} PROVE PaidTime(x)' = PaidTime(x) /\ x \in Orders
    <3>1. x \in Orders /\ ord'[x].unit = ord[x].unit /\ ord'[x].dur = ord[x].dur
      BY <1>2, <1>3, <1>4, <1>5, <1>9
    <3> QED BY <3>1 DEF PaidTime
  <2>2. \A x \in Orders : PaidTimes'[x] = PaidTime(x)' /\ PaidTime(x)' \in Int
    <3>1. TypeOK'
      BY DEF Good
    <3>2. ASSUME NEW x \in Orders PROVE PaidTime(x)' \in Int
      <4>1. PICK u, d : u = ord'[x].unit /\ d = ord'[x].dur
        OBVIOUS
      <4>2. u \in Nat /\ d \in Nat
        BY <3>1, <4>1 DEF TypeOK, Order
      <4>3. u * d \in Int
        BY <4>2
      <4> QED BY <4>1, <4>3 DEF PaidTime
    <3> QED BY <3>2 DEF PaidTimes
  <2> QED BY <2>1, <2>2, TimesAreInts DEF Good
<1>13. /\ SumOf(PaidTimes, Extensions(p)) = PaidTime(c) + SumOf(PaidTimes, Extensions(p))'
       /\ SumOf(PaidTimes, Extensions(p))' \in Int
  <2>1. PICK f, g, S : f = PaidTimes' /\ g = PaidTimes /\ S = Extensions(p)'
    OBVIOUS
  <2>2. S \in SUBSET Orders /\ c \in Orders \ S /\ S \in SUBSET Children(p)
    BY <1>11, <2>1 DEF Children
  <2>3. (\A x \in Orders : f[x] \in Int /\ g[x] \in Int) /\ \A x \in S : f[x] = g[x]
    BY <1>12, <2>1, <2>2
  <2>4. SumOf(g, S \cup {c}) = g[c] + SumOf(f, S) /\ SumOf(f, S) \in Int
    BY <2>2, <2>3, OneMore
  <2> QED BY <1>11, <1>12, <2>1, <2>4
<1>14. ASSUME NEW l \in Orders, IsLeaseOrder(l, p)'
       PROVE  IF ord'[l].unit = Perpetual
              THEN ord'[p].end = None
              ELSE ord'[p].end = ord'[p].start + PaidTime(l)' + SumOf(PaidTimes, Extensions(p))'
  <2>1. IsLeaseOrder(l, p) /\ l \in Children(p) \cup {p}
    BY <1>10, <1>14 DEF IsLeaseOrder
  <2>2. /\ ord[l].unit # Perpetual
        /\ ord[p].end = ord[p].start + PaidTime(l) + SumOf(PaidTimes, Extensions(p))
    BY <1>1, <1>7, <1>8, <2>1 DEF LastsAsPaid
  <2>3. PICK t, k, s, e, x, y : /\ t = ord[p].start /\ k = PaidTime(l) /\ e = PaidTime(c)
                                /\ s = SumOf(PaidTimes, Extensions(p))'
                                /\ x = ord[p].end /\ y = ren[c].oldEnd
    OBVIOUS
  <2>4. t \in Int /\ k \in Int /\ s \in Int /\ e \in Int /\ y \in Int
    BY <1>8, <1>12, <1>13, <2>3 DEF Good, TypeOK, Order, Times, None
  <2>5. x = y + e /\ x = t + k + (e + s)
    BY <1>1, <1>7, <1>13, <2>2, <2>3 DEF QuoteIsPaid
  <2>6. y = t + k + s
    BY <2>4, <2>5
  <2>7. ord'[l].unit # Perpetual /\ PaidTime(l)' = PaidTime(l)
    BY <1>2, <1>3, <1>4, <1>5, <1>9, <1>12, <2>1, <2>2
  <2> QED BY <1>3, <2>3, <2>6, <2>7
<1>15. LastsAsPaid(p)'
  BY <1>3, <1>8, <1>14 DEF LastsAsPaid
<1>16. \A x \in Orders :
          QuoteIsPaid(x)' \/ ~(ord[x].status = "none" /\ ord'[x].status = "pending_payment")
  <2>1. \A x \in Orders : ord'[x].status = "pending_payment" => ord[x].status # "none"
    <3>1. \A x \in Orders \ {c, p} : WithCancelled(open)[x].status \in {ord[x].status, "cancelled"}
      BY DEF WithCancelled, Emptied, Good, TypeOK, Order
    <3> QED BY <1>1, <1>3, <3>1, SMTT(30)
  <2> QED BY <2>1
<1>17. now' >= now
  BY DEF Good, TypeOK
<1> QED BY <1>5, <1>6, <1>15, <1>16, <1>17, PaidStays

\* A restart that is paid, or taken back, leaves its lease out of use.
LEMMA RestartPays ==
    ASSUME Good, Good', PaidInv, NEW c \in Orders, IsRenewal(c), now' = now,
           NEW p \in Orders, p = ren[c].parent,
           ord'[p].status # "active",
           ord[c].status # "none", ord[p].status # "none",
           \A x \in {c, p} : Kept(x),
           \A x \in Orders \ {c, p} : Settles(x) /\ (ord[x].status = "none" => ord'[x] = ord[x])
    PROVE  PaidInv'
<1>1. ~IsRenewal(p) /\ c \in Children(p)
  BY DEF Good, FamiliesAreFlat, Children, IsRenewal, Orders
<1>2. \A x \in Orders : Kept(x)
  BY DEF Settles, Kept
<1>3. \A x \in Orders \ ({p} \cup Children(p)) : Settles(x)
  BY <1>1
<1>4. \A x \in Orders : GoesOn(x)
  <2>1. \A x \in Orders \ {p} : GoesOn(x)
    BY <1>1, <1>2, <1>3, OthersGoOn
  <2>2. GoesOn(p)
    BY DEF GoesOn
  <2> QED BY <2>1, <2>2
<1>5. \A x \in Orders : ~(ord[x].status = "none" /\ ord'[x].status = "pending_payment")
  BY <1>2
<1>6. now' >= now
  BY DEF Good, TypeOK
<1> QED BY <1>2, <1>4, <1>5, <1>6, PaidStays

LEMMA ApplyRestartPays ==
    ASSUME Good, Good', PaidInv, NEW c \in Orders, ApplyRestart(c), now' = now,
           NEW p \in Orders, p = ren[c].parent
    PROVE  PaidInv'
<1>1. /\ IsRenewal(c) /\ ord[c].status = "pending_payment"
      /\ ord[p].status \in {"active", "completed"}
      /\ ord' = [ord EXCEPT ![p] = [ord[p] EXCEPT !.status = "paid", !.reserved = ord[c].qty,
                                                  !.start = None, !.end = None],
                            ![c] = [ord[c] EXCEPT !.status = "completed", !.reserved = 0,
                                                  !.start = None, !.end = None]]
      /\ ren' = [ren EXCEPT ![c].applied = TRUE, ![c].prevStart = ord[p].start]
  BY DEF ApplyRestart, ValidRenewalPayment
<1>2. p # c
  BY <1>1 DEF Good, FamiliesAreFlat
<1>3. /\ ord'[p].status = "paid" /\ \A x \in Orders \ {c, p} : ord'[x] = ord[x]
      /\ \A x \in {c, p} : ord'[x].unit = ord[x].unit /\ ord'[x].dur = ord[x].dur
  <2>1. /\ ord'[p] = [ord[p] EXCEPT !.status = "paid", !.reserved = ord[c].qty,
                                    !.start = None, !.end = None]
        /\ ord'[c] = [ord[c] EXCEPT !.status = "completed", !.reserved = 0,
                                    !.start = None, !.end = None]
        /\ \A x \in Orders \ {c, p} : ord'[x] = ord[x]
    BY <1>1, <1>2 DEF Good, TypeOK
  <2>2. ord'[p].unit = ord[p].unit /\ ord'[p].dur = ord[p].dur
    BY <2>1 DEF Good, TypeOK, Order
  <2>3. ord'[c].unit = ord[c].unit /\ ord'[c].dur = ord[c].dur
    BY <2>1 DEF Good, TypeOK, Order
  <2>4. ord'[p].status = "paid"
    BY <2>1 DEF Good, TypeOK, Order
  <2> QED BY <2>1, <2>2, <2>3, <2>4
<1>4. \A x \in Orders : /\ ren'[x].parent = ren[x].parent /\ ren'[x].mode = ren[x].mode
                        /\ ren'[x].oldEnd = ren[x].oldEnd /\ ren'[x].until = ren[x].until
  <2> DEFINE started == ord[p].start
  <2>1. ren' = [ren EXCEPT ![c].applied = TRUE, ![c].prevStart = started]
    BY <1>1
  <2> HIDE DEF started
  <2> QED BY <2>1 DEF Good, TypeOK, Renewal
<1>5. \A x \in {c, p} : Kept(x)
  BY <1>3, <1>4 DEF Kept
<1>6. \A x \in Orders \ {c, p} : Settles(x)
  BY <1>3, <1>4 DEF Settles, Kept
<1>7. ord'[p].status # "active" /\ ord[p].status # "none" /\ ord[c].status # "none"
  BY <1>1, <1>3
<1> QED BY <1>1, <1>3, <1>5, <1>6, <1>7, RestartPays, ZenonT(40)

LEMMA RefundRestartPays ==
    ASSUME Good, Good', PaidInv, NEW c \in Orders, IsRenewal(c), ord[c].status = "refunding",
           RefundRestart(c), now' = now, NEW p \in Orders, p = ren[c].parent
    PROVE  PaidInv'
<1> DEFINE open == OpenRenewals(p)
<1>1. /\ ren' = ren /\ ord[p].status \in {"paid", "provisioning"}
      /\ ord' = [WithCancelled(open) EXCEPT
                   ![p] = [Emptied(p, "completed") EXCEPT !.start = ren[c].prevStart,
                                                          !.end = ren[c].oldEnd],
                   ![c] = Emptied(c, "refunded")]
  BY DEF RefundRestart, UnusedRenewal
<1>2. /\ p # c
      /\ \A x \in open : ord[x].status = "pending_payment"
  BY DEF Good, FamiliesAreFlat, OpenRenewals
<1> HIDE DEF open
<1>3. /\ ord'[c] = Emptied(c, "refunded")
      /\ ord'[p] = [Emptied(p, "completed") EXCEPT !.start = ren[c].prevStart,
                                                   !.end = ren[c].oldEnd]
      /\ \A x \in Orders \ {c, p} : ord'[x] = WithCancelled(open)[x]
  BY <1>1, <1>2 DEF WithCancelled
<1>4. PICK s, e : s = ren[c].prevStart /\ e = ren[c].oldEnd
  OBVIOUS
<1>5. /\ ord'[c].unit = ord[c].unit /\ ord'[c].dur = ord[c].dur
      /\ ord'[p].unit = ord[p].unit /\ ord'[p].dur = ord[p].dur
      /\ ord'[p].status = "completed"
  <2>1. ord'[p] = [[ord[p] EXCEPT !.status = "completed", !.reserved = 0]
                      EXCEPT !.start = s, !.end = e]
    BY <1>3, <1>4 DEF Emptied
  <2>2. ord'[c] = [ord[c] EXCEPT !.status = "refunded", !.reserved = 0]
    BY <1>3 DEF Emptied
  <2>3. ord[c] \in Order /\ ord[p] \in Order
    BY DEF Good, TypeOK
  <2> QED BY <2>1, <2>2, <2>3 DEF Order
<1>6. \A x \in {c, p} : Kept(x)
  BY <1>1, <1>5 DEF Kept
<1>7. ASSUME NEW x \in Orders \ {c, p}
      PROVE  Settles(x) /\ (ord[x].status = "none" => ord'[x] = ord[x])
  <2>1. Settles(x)
    BY <1>1, <1>2, <1>3, CancelledSettles DEF Good
  <2>2. ord[x].status = "none" => ord'[x] = ord[x]
    BY <1>2, <1>3 DEF WithCancelled
  <2> QED BY <2>1, <2>2
<1>8. ord'[p].status # "active" /\ ord[p].status # "none" /\ ord[c].status # "none"
  BY <1>1, <1>5
<1> QED BY <1>6, <1>7, <1>8, RestartPays

\* The cycle of a product stands while a first lease of it waits to be signed for.
CyclesStand ==
    \A o \in Orders :
        ~IsRenewal(o) /\ ord[o].status = "provisioning" /\ Restarts(o) = {}
            => prod[ord[o].product].unit = ord[o].unit

\* What is signed for lasts as it was paid, from now.
LEMMA ConfirmDeliveryPays ==
    ASSUME Good, Good', PaidInv, CyclesStand, NEW o \in Orders, NEW lease \in Orders,
           ConfirmDelivery(o, lease)
    PROVE  PaidInv'
<1> DEFINE end == LeaseEndAt(now, LeaseUnit(lease, o), ord[lease].dur)
<1>1. /\ ~IsRenewal(o) /\ ord[o].status = "provisioning" /\ IsLeaseOrder(lease, o)
      /\ now' = now
      /\ ord' = [x \in Orders |->
                   IF x = o THEN [ord[o] EXCEPT !.status = "active", !.start = now, !.end = end]
                   ELSE IF x = lease THEN [ord[lease] EXCEPT !.start = now, !.end = end]
                   ELSE ord[x]]
      /\ ren' = IF lease = o THEN ren ELSE [ren EXCEPT ![lease].confirmed = TRUE]
  BY DEF ConfirmDelivery
<1>2. lease # o => /\ ord[lease].status \in {"completed", "refunding"}
                   /\ ren[lease].parent = o /\ lease \in Children(o)
  BY <1>1, LeaseOrderRests DEF Children
<1>3. PICK e : e = end
  OBVIOUS
<1>4. end = LeaseEndAt(now, ord[lease].unit, ord[lease].dur)
  <2>1. CASE lease = o
    <3>1. Restarts(o) = {}
      BY <1>1, <2>1 DEF IsLeaseOrder, Restarts, Children, IsRenewal, Orders
    <3> QED BY <1>1, <2>1, <3>1 DEF CyclesStand, LeaseUnit
  <2>2. CASE lease # o
    BY <2>2 DEF LeaseUnit
  <2> QED BY <2>1, <2>2
<1> HIDE DEF end
<1>5. /\ ord'[o].status = "active" /\ ord'[o].start = now /\ ord'[o].end = e
      /\ \A x \in Orders : /\ ord'[x].unit = ord[x].unit /\ ord'[x].dur = ord[x].dur
                           /\ x # o => ord'[x].status = ord[x].status
      /\ \A x \in Orders \ {o, lease} : ord'[x] = ord[x]
  <2>1. /\ ord'[o] = [ord[o] EXCEPT !.status = "active", !.start = now, !.end = e]
        /\ lease # o => ord'[lease] = [ord[lease] EXCEPT !.start = now, !.end = e]
        /\ \A x \in Orders \ {o, lease} : ord'[x] = ord[x]
    BY <1>1, <1>3
  <2>2. ord[o] \in Order /\ ord[lease] \in Order
    BY DEF Good, TypeOK
  <2>3. /\ ord'[o].status = "active" /\ ord'[o].start = now /\ ord'[o].end = e
        /\ ord'[o].unit = ord[o].unit /\ ord'[o].dur = ord[o].dur
    BY <2>1, <2>2 DEF Order
  <2>4. lease # o => /\ ord'[lease].unit = ord[lease].unit /\ ord'[lease].dur = ord[lease].dur
                     /\ ord'[lease].status = ord[lease].status
    BY <2>1, <2>2 DEF Order
  <2> QED BY <2>1, <2>3, <2>4
<1>6. \A x \in Orders : /\ ren'[x].parent = ren[x].parent /\ ren'[x].mode = ren[x].mode
                        /\ ren'[x].oldEnd = ren[x].oldEnd /\ ren'[x].until = ren[x].until
                        /\ ren'[x].applied = ren[x].applied
  BY <1>1 DEF Good, TypeOK, Renewal
<1>7. \A x \in Orders : Kept(x)
  BY <1>5, <1>6 DEF Kept
<1>8. \A x \in Orders \ {o} : GoesOn(x)
  <2>1. \A x \in Orders \ ({o} \cup Children(o)) : Settles(x)
    BY <1>2, <1>5, <1>7 DEF Settles
  <2> QED BY <1>1, <1>7, <2>1, OthersGoOn
<1>9. Restarts(o)' = Restarts(o)
  <2>1. ASSUME NEW x \in Orders PROVE x \in Restarts(o)' <=> x \in Restarts(o)
    <3>1. CASE x = o
      BY <1>1, <1>6, <3>1 DEF Restarts, Children, IsRenewal, Orders
    <3>2. CASE x # o
      BY <1>5, <1>6, <3>2 DEF Restarts, Children
    <3> QED BY <3>1, <3>2
  <2> QED BY <2>1 DEF Restarts, Children
<1>10. Extensions(o)' = {}
  <2> SUFFICES ASSUME NEW x \in Extensions(o)' PROVE FALSE
    OBVIOUS
  <2>1. /\ x \in Orders /\ ren'[x].parent = o /\ ren'[x].mode = "extend"
        /\ ord'[x].status \in {"completed", "refunding"} /\ ren'[x].oldEnd > now
    BY <1>5 DEF Extensions, Children
  <2>2. x # o /\ x \in Children(o) /\ ren[x].mode = "extend" /\ Counts(x) /\ ren[x].oldEnd > now
    BY <1>5, <1>6, <2>1 DEF Children, Counts
  <2>3. RowIsGood(x) /\ ExtensionIsGood(x, o)
    BY <2>2 DEF Good, OpenInv, FamilyIsGood, RenewalIsGood
  <2>4. ren[x].oldEnd < ren[x].until /\ ren[x].until <= now
    BY <1>1, <2>2, <2>3 DEF RowIsGood, ExtensionIsGood
  <2>5. ren[x].oldEnd \in Int /\ ren[x].until \in Int /\ now \in Int
    BY <2>1 DEF Good, TypeOK, Renewal, Times, None
  <2> QED BY <2>2, <2>4, <2>5
<1>11. ASSUME NEW l \in Orders, IsLeaseOrder(l, o)' PROVE l = lease
  <2>1. IsLeaseOrder(l, o)
    BY <1>9, <1>11 DEF IsLeaseOrder
  <2>2. l \in Int /\ lease \in Int
    BY DEF Orders
  <2> QED BY <1>1, <2>1, <2>2 DEF IsLeaseOrder
<1>12. SumOf(PaidTimes, Extensions(o))' = 0
  <2>1. PICK g, S : g = PaidTimes' /\ S = Extensions(o)' /\ S = {}
    BY <1>10
  <2>2. SumOf(g, S) = 0
    BY <2>1, SumOfAny, FS_EmptySet
  <2> QED BY <2>1, <2>2
<1>13. IF ord'[lease].unit = Perpetual
       THEN ord'[o].end = None
       ELSE ord'[o].end = ord'[o].start + PaidTime(lease)' + SumOf(PaidTimes, Extensions(o))'
  <2>1. PICK t, u, d : t = now /\ u = ord[lease].unit /\ d = ord[lease].dur
    OBVIOUS
  <2>2. t \in Int /\ u \in Nat /\ d \in Nat
    BY <2>1 DEF Good, TypeOK, Order
  <2>3. u * d \in Int
    BY <2>2
  <2>4. e = IF u = Perpetual THEN None ELSE t + u * d
    BY <1>3, <1>4, <2>1 DEF LeaseEndAt
  <2>5. PaidTime(lease)' = u * d /\ ord'[lease].unit = u
    BY <1>5, <2>1 DEF PaidTime
  <2>6. t + u * d = t + u * d + 0
    BY <2>2, <2>3
  <2> QED BY <1>5, <1>12, <2>1, <2>4, <2>5, <2>6
<1>14. LastsAsPaid(o)'
  <2>1. now <= now
    BY DEF Good, TypeOK
  <2> QED BY <1>1, <1>5, <1>11, <1>13, <2>1 DEF LastsAsPaid
<1>15. \A x \in Orders : ~(ord[x].status = "none" /\ ord'[x].status = "pending_payment")
  BY <1>1, <1>5
<1>16. now' >= now
  BY <1>1 DEF Good, TypeOK
<1> QED BY <1>7, <1>8, <1>14, <1>15, <1>16, PaidStays

\* A new order is no lease in use yet.
LEMMA PlaceOrderPays ==
    ASSUME Good, Good', PaidInv, NEW o \in Orders, NEW p \in Products,
           NEW n \in 1..MaxOrderQuantity, NEW d \in Durations, PlaceOrder(o, p, n, d)
    PROVE  PaidInv'
<1>1. /\ ord[o].status = "none" /\ ord'[o].status = "pending_payment"
      /\ now' = now /\ ren' = ren
      /\ \A x \in Orders \ {o} : ord'[x] = ord[x]
  BY DEF PlaceOrder, IsNextOrder, Good, TypeOK
<1>2. \A x \in Orders : Settles(x)
  BY <1>1, NewOrderSettles
<1>3. ASSUME NEW x \in Orders, ord[x].status = "none" PROVE QuoteIsPaid(x)'
  BY <1>1, <1>3 DEF Good, FamiliesAreFlat, QuoteIsPaid, IsRenewal
<1>4. now' >= now
  BY <1>1 DEF Good, TypeOK
<1> QED BY <1>2, <1>3, <1>4, SettlingPays

\* An extension is quoted up to the time its duration comes to.
LEMMA RenewPays ==
    ASSUME Good, Good', PaidInv, NEW o \in Orders, NEW par \in Orders, NEW d \in Durations,
           RenewByExtension(o, par, d) \/ RenewByRestart(o, par, d)
    PROVE  PaidInv'
<1> DEFINE unit == prod[ord[par].product].unit
<1>1. /\ Renewable(par) /\ unit # Perpetual
      /\ ord[o].status = "none" /\ ord'[o].status = "pending_payment" /\ now' = now
      /\ ord'[o].unit = unit /\ ord'[o].dur = d
      /\ ren'[o].oldEnd = ord[par].end
      /\ \A x \in Orders \ {o} : ord'[x] = ord[x] /\ ren'[x] = ren[x]
      /\ ren'[o].mode = "extend" => ren'[o].until = RenewedUntil(par, d)
  <2>1. CASE RenewByExtension(o, par, d)
    <3> DEFINE t == RenewedUntil(par, d)
    <3>1. /\ ord' = [ord EXCEPT ![o] =
                       NewRenewalOrder(par, 0, d, Lower(now + PayWindow, ord[par].end))]
          /\ ren' = [ren EXCEPT ![o] =
                       [NoRenewal EXCEPT !.parent = par, !.mode = "extend",
                                         !.oldEnd = ord[par].end, !.until = t]]
          /\ Renewable(par) /\ ord[o].status = "none" /\ now' = now
      BY <2>1 DEF RenewByExtension, IsNextOrder
    <3> HIDE DEF t
    <3>2. ren'[o].until = t /\ ren'[o].oldEnd = ord[par].end
      BY <3>1 DEF NoRenewal, Good, TypeOK
    <3> QED BY <3>1, <3>2 DEF NewRenewalOrder, Good, TypeOK, Renewable, t
  <2>2. CASE RenewByRestart(o, par, d)
    <3>1. /\ ord' = [ord EXCEPT ![o] = NewRenewalOrder(par, 
                        IF ord[par].reserved = 0 THEN ord[par].qty ELSE 0, d, now + PayWindow)]
          /\ ren' = [ren EXCEPT ![o] = [NoRenewal EXCEPT !.parent = par, !.mode = "restart",
                                                        !.oldEnd = ord[par].end]]
          /\ Renewable(par) /\ ord[o].status = "none" /\ now' = now
      BY <2>2 DEF RenewByRestart, IsNextOrder
    <3>2. ren'[o].oldEnd = ord[par].end /\ ren'[o].mode = "restart"
      BY <3>1 DEF NoRenewal, Good, TypeOK
    <3> QED BY <3>1, <3>2 DEF NewRenewalOrder, Good, TypeOK, Renewable
  <2> QED BY <2>1, <2>2
<1>2. \A x \in Orders : Settles(x)
  BY <1>1, NewOrderSettles
<1>3. RenewedUntil(par, d) = ord[par].end + unit * d
  BY <1>1 DEF RenewedUntil, LeaseEndAt, Renewable
<1>4. PaidTime(o)' = unit * d
  BY <1>1 DEF PaidTime
<1>5. QuoteIsPaid(o)'
  <2> HIDE DEF unit
  <2> QED BY <1>1, <1>3, <1>4 DEF QuoteIsPaid
<1>6. ASSUME NEW x \in Orders \ {o}
      PROVE  ~(ord[x].status = "none" /\ ord'[x].status = "pending_payment")
  BY <1>1
<1>7. now' >= now
  BY <1>1 DEF Good, TypeOK
<1> QED BY <1>2, <1>5, <1>6, <1>7, SettlingPays

\* What ends an order ends no lease that is still counted.
LEMMA CloseOrderPays ==
    ASSUME Good, Good', PaidInv, NEW o \in Orders,
           NEW status \in {"cancelled", "refunded", "completed"},
           CloseOrder(o, status), now' = now, ord[o].status # "none",
           IsRenewal(o) => status = "cancelled" /\ ~Counts(o)
    PROVE  PaidInv'
<1>1. \A x \in Orders : Settles(x)
  BY CloseOrderSettles
<1>2. ASSUME NEW x \in Orders, ord[x].status = "none" PROVE ord'[x].status # "pending_payment"
  <2> DEFINE open == IF IsRenewal(o) THEN {} ELSE OpenRenewals(o)
  <2>1. ord' = [WithCancelled(open) EXCEPT ![o] = Emptied(o, status)] /\ x # o
    BY <1>2 DEF CloseOrder
  <2>2. x \notin open
    BY <1>2 DEF OpenRenewals
  <2> HIDE DEF open
  <2>3. ord'[x] = ord[x]
    BY <2>1, <2>2 DEF WithCancelled
  <2> QED BY <1>2, <2>3
<1>3. now' >= now
  BY DEF Good, TypeOK
<1> QED BY <1>1, <1>2, <1>3, SettlingPays

LEMMA OrderStepPays ==
    ASSUME Good, Good', CyclesStand, PaidInv, NEW o \in Orders, OrderStep(o)
    PROVE  PaidInv'
<1>1. IsRenewal(o) => ren[o].parent \in Orders
  BY DEF Good, FamiliesAreFlat, IsRenewal, TypeOK, Renewal
<1>2. ASSUME NEW p \in Products, NEW n \in 1..MaxOrderQuantity, NEW d \in Durations,
             PlaceOrder(o, p, n, d)
      PROVE  PaidInv'
  BY <1>2, PlaceOrderPays
<1>3. ASSUME ConfirmPayment(o) \/ \E lease \in Orders : DeliverWithAccess(o, lease), now' = now
      PROVE  PaidInv'
  <2>1. \A x \in Orders : Settles(x)
    BY <1>3, BeginningSettles
  <2>2. \A x \in Orders : ~(ord[x].status = "none" /\ ord'[x].status = "pending_payment")
    <3>1. PICK s \in {"paid", "provisioning"} : ord' = [ord EXCEPT ![o].status = s]
      BY <1>3 DEF ConfirmPayment, DeliverWithAccess
    <3>2. \A x \in Orders : ord'[x].status \in {ord[x].status, s}
      BY <3>1 DEF Good, TypeOK, Order
    <3> QED BY <3>2
  <2>3. now' >= now
    BY <1>3 DEF Good, TypeOK
  <2> QED BY <2>1, <2>2, <2>3, SettlingPays
<1>4. CASE PaymentArrives(o)
  <2>1. now' = now /\ (ConfirmPayment(o) \/ ApplyExtension(o) \/ ApplyRestart(o))
    BY <1>4 DEF PaymentArrives
  <2>2. ApplyExtension(o) \/ ApplyRestart(o) => IsRenewal(o)
    BY DEF ApplyExtension, ApplyRestart
  <2> QED BY <1>1, <1>3, <2>1, <2>2, ApplyExtensionPays, ApplyRestartPays
<1>5. ASSUME NEW lease \in Orders, DeliverWithAccess(o, lease) \/ ConfirmDelivery(o, lease)
      PROVE  PaidInv'
  <2>1. DeliverWithAccess(o, lease) => now' = now
    BY DEF DeliverWithAccess
  <2> QED BY <1>3, <1>5, <2>1, ConfirmDeliveryPays
<1>6. ASSUME NEW par \in Orders, NEW d \in Durations,
             RenewByExtension(o, par, d) \/ RenewByRestart(o, par, d)
      PROVE  PaidInv'
  BY <1>6, RenewPays
<1>7. CASE CancelBuyerOrder(o) \/ AdminCancelOrder(o)
  <2>1. /\ CloseOrder(o, "cancelled") /\ now' = now
        /\ ord[o].status \in {"pending_payment", "paid", "provisioning", "active", "frozen"}
    BY <1>7 DEF CancelBuyerOrder, AdminCancelOrder
  <2>2. ord[o].status # "none" /\ ~Counts(o)
    BY <2>1 DEF Counts
  <2> QED BY <2>1, <2>2, CloseOrderPays
<1>8. CASE FreezeOrder(o) \/ RequestRefund(o)
  <2>1. \A x \in Orders : Settles(x)
    BY <1>8, StatusSettles
  <2>2. now' = now
    BY <1>8 DEF FreezeOrder, RequestRefund
  <2>3. ASSUME NEW x \in Orders, ord[x].status = "none" PROVE ord'[x].status # "pending_payment"
    <3>1. PICK S, s : /\ ord' = [WithCancelled(S) EXCEPT ![o].status = s]
                      /\ s \in {"frozen", "refunding"}
      BY <1>8 DEF FreezeOrder, RequestRefund
    <3>2. x # o
      BY <1>8, <2>3 DEF FreezeOrder, RequestRefund
    <3>3. ord'[x] = WithCancelled(S)[x]
      BY <3>1, <3>2 DEF WithCancelled
    <3>4. WithCancelled(S)[x].status \in {"none", "cancelled"}
      BY <2>3 DEF WithCancelled, Emptied, Good, TypeOK, Order
    <3> QED BY <3>3, <3>4
  <2>4. now' >= now
    BY <2>2 DEF Good, TypeOK
  <2> QED BY <2>1, <2>3, <2>4, SettlingPays
<1>9. CASE CompleteRefund(o)
  <2>1. /\ ord[o].status = "refunding" /\ ord[o].status # "none" /\ now' = now
        /\ \/ ~IsRenewal(o) /\ CloseOrder(o, "refunded")
           \/ IsRenewal(o) /\ (RefundExtension(o) \/ RefundRestart(o))
    BY <1>9 DEF CompleteRefund
  <2>2. CASE ~IsRenewal(o) /\ CloseOrder(o, "refunded")
    BY <2>1, <2>2, CloseOrderPays
  <2>3. CASE IsRenewal(o) /\ (RefundExtension(o) \/ RefundRestart(o))
    BY <1>1, <2>1, <2>3, RefundExtensionPays, RefundRestartPays
  <2> QED BY <2>1, <2>2, <2>3
<1> QED BY <1>2, <1>4, <1>5, <1>6, <1>7, <1>8, <1>9 DEF OrderStep, TradeStep

LEMMA PaidStep == Good /\ Good' /\ CyclesStand /\ PaidInv /\ [Next]_vars => PaidInv'
<1> SUFFICES ASSUME Good, Good', CyclesStand, PaidInv, [Next]_vars PROVE PaidInv'
  OBVIOUS
<1>0. TypeOK
  BY DEF Good
<1>1. ASSUME ord' = ord, ren' = ren, now' \in {now, now + 1} PROVE PaidInv'
  <2>1. \A x \in Orders :
           Settles(x) /\ ~(ord[x].status = "none" /\ ord'[x].status = "pending_payment")
    BY <1>1 DEF Settles, Kept
  <2>2. now' >= now
    BY <1>0, <1>1 DEF TypeOK
  <2> QED BY <2>1, <2>2, SettlingPays
<1>2. ASSUME NEW p \in Products, SupplierStep(p) PROVE PaidInv'
  <2>1. ord' = ord /\ ren' = ren /\ now' = now
    BY <1>2 DEF SupplierStep, CreateProduct, ResubmitProduct, ReviewProduct, OfflineProduct,
       SupplierOfflineProduct, SyncResource
  <2> QED BY <1>1, <2>1
<1>3. ASSUME NEW s \in Suppliers, FreezeListings(s) PROVE PaidInv'
  BY <1>1, <1>3 DEF FreezeListings
<1>4. ASSUME NEW o \in Orders, OrderStep(o) PROVE PaidInv'
  BY <1>4, OrderStepPays
<1>5. ASSUME NEW o \in todo, CloseExpiredUnpaid(o) \/ CompleteExpiredLease(o)
      PROVE  PaidInv'
  <2>1. o \in Orders
    BY <1>0 DEF TypeOK
  <2>2. \/ ord' = ord /\ ren' = ren /\ now' = now
        \/ CloseOrder(o, "cancelled") /\ now' = now /\ ord[o].status = "pending_payment"
        \/ CloseOrder(o, "completed") /\ now' = now /\ LeaseIsOver(o)
    BY <1>5 DEF CloseExpiredUnpaid, CompleteExpiredLease
  <2>3. CASE /\ CloseOrder(o, "cancelled") /\ now' = now /\ ord[o].status = "pending_payment"
    <3>1. ord[o].status # "none" /\ ~Counts(o)
      BY <2>3 DEF Counts
    <3> QED BY <2>1, <2>3, <3>1, CloseOrderPays
  <2>4. CASE CloseOrder(o, "completed") /\ now' = now /\ LeaseIsOver(o)
    <3>1. ord[o].status = "active" /\ ord[o].status # "none"
      BY <2>4 DEF LeaseIsOver
    <3>2. ~IsRenewal(o)
      BY <2>1, <3>1 DEF Good, HoldInv, RenewalHolds, Waiting, Ended
    <3> QED BY <2>1, <2>4, <3>1, <3>2, CloseOrderPays
  <2> QED BY <1>1, <2>2, <2>3, <2>4
<1>6. CASE JobStep
  <2>1. \/ ord' = ord /\ ren' = ren /\ now' = now
        \/ \E o \in todo : CloseExpiredUnpaid(o) \/ CompleteExpiredLease(o)
    BY <1>6 DEF JobStep, RevokeExpiredAccess, ListExpiredUnpaid, ListExpiredLeases, FinishRound
  <2> QED BY <1>1, <1>5, <2>1
<1>7. CASE Crash \/ Tick \/ UNCHANGED vars
  BY <1>1, <1>7 DEF Crash, Tick, vars
<1> QED BY <1>2, <1>3, <1>4, <1>6, <1>7 DEF Next

LEMMA PaidLasts == TypeOK /\ PaidInv => LeaseIsPaidFor
<1> SUFFICES ASSUME TypeOK, PaidInv, NEW o \in Orders, NEW lease \in Orders,
                    ord[o].status = "active", IsLeaseOrder(lease, o)
             PROVE  IF ord[lease].unit = Perpetual
                    THEN ord[o].end = None
                    ELSE ord[o].end = ord[o].start + PaidTime(lease)
                                        + MapThenSumSet(PaidTime, Extensions(o))
  BY DEF LeaseIsPaidFor
<1>1. MapThenSumSet(PaidTime, Extensions(o)) = SumOf(PaidTimes, Extensions(o))
  <2>1. Extensions(o) \in SUBSET Orders
    BY DEF Extensions, Children
  <2> QED BY <2>1, PaidTimeIsSummed
<1>2. IF ord[lease].unit = Perpetual
      THEN ord[o].end = None
      ELSE ord[o].end = ord[o].start + PaidTime(lease) + SumOf(PaidTimes, Extensions(o))
  BY DEF PaidInv, LastsAsPaid
<1> QED BY <1>1, <1>2

\* A lease in use ends when the durations that were paid for are over: that of the order it was
\* last started by, in the pricing mode that order was priced in, and those of the extensions
\* that were paid and not taken back, however many there are.  It holds as long as no pricing
\* mode is changed under a first lease that waits to be signed for (ConfirmDelivery reads the
\* mode the product has then), and by the invariant that a quote runs exactly as long as the
\* duration it charges (ConfirmDelivery, ApplyRenewalPaymentTx, refundRenewalTx).
THEOREM LeasesLastAsPaid == Spec /\ []CyclesStand => []LeaseIsPaidFor
<1>1. Init => PaidInv
  <2> SUFFICES ASSUME Init PROVE PaidInv
    OBVIOUS
  <2>1. \A o \in Orders : ord[o].status = "none" /\ ren[o].parent = 0
    BY DEF Init, NoOrder, NoRenewal
  <2> QED BY <2>1 DEF PaidInv, QuoteIsPaid, LastsAsPaid, IsRenewal
<1>2. StockInv /\ AccessInv /\ HoldInv /\ OpenInv => Good
  BY DEF StockInv, Good
<1>3. Good => TypeOK
  BY DEF Good
<1> QED BY <1>1, <1>2, <1>3, PaidStep, PaidLasts, OrdersStayGood, PTL DEF Spec

-----------------------------------------------------------------------------
(* Leases where suppliers keep the pricing mode of what is waited for *)

\* A first lease that waits to be paid, delivered or signed for, and the cycle it will get.
FirstWaits(o) ==
    /\ ~IsRenewal(o)
    /\ ord[o].status \in {"pending_payment", "paid", "provisioning"}
    /\ Restarts(o) = {}

HasItsCycle(o) == FirstWaits(o) => prod[ord[o].product].unit = ord[o].unit

CyclesInv == \A o \in Orders : HasItsCycle(o)

\* A supplier who does not change the pricing mode of a product while first leases of it wait.
ModesAreKept ==
    \A p \in Products :
        prod'[p].unit # prod[p].unit => \A o \in Orders : FirstWaits(o) => ord[o].product # p

\* What a step leaves of an order that may wait, and of the restarts of it.
StillWaits(x) ==
    ord'[x].status \in {"pending_payment", "paid", "provisioning"} =>
        /\ ord[x].status \in {"pending_payment", "paid", "provisioning"}
        /\ ord'[x].product = ord[x].product /\ ord'[x].unit = ord[x].unit

StillCounts(c) ==
    /\ ren'[c].parent = ren[c].parent
    /\ ren[c].mode = "restart" =>
          /\ ren'[c].mode = "restart"
          /\ ren[c].applied => ren'[c].applied
          /\ ord[c].status \in {"completed", "refunding"} =>
                ord'[c].status \in {"completed", "refunding"}

\* Nothing begins to wait as a first lease but a new order, priced as its product is.
Follows(x) ==
    FirstWaits(x)' =>
        \/ /\ FirstWaits(x)
           /\ ord'[x].product = ord[x].product /\ ord'[x].unit = ord[x].unit
        \/ prod'[ord'[x].product].unit = ord'[x].unit

LEMMA StillFollows ==
    ASSUME TypeOK, FamiliesAreFlat, NEW x \in Orders, StillWaits(x),
           ren'[x].parent = ren[x].parent \/ ord[x].status = "none",
           \A c \in Children(x) : StillCounts(c)
    PROVE  Follows(x)
<1> SUFFICES ASSUME FirstWaits(x)'
             PROVE  /\ FirstWaits(x)
                    /\ ord'[x].product = ord[x].product /\ ord'[x].unit = ord[x].unit
  BY DEF Follows
<1>1. /\ ord[x].status \in {"pending_payment", "paid", "provisioning"}
      /\ ord'[x].product = ord[x].product /\ ord'[x].unit = ord[x].unit
  BY DEF FirstWaits, StillWaits
<1>2. ~IsRenewal(x)
  BY <1>1 DEF FirstWaits, IsRenewal
<1>3. \A c \in Restarts(x) : c \in Restarts(x)'
  BY DEF Restarts, Children, StillCounts
<1>4. Restarts(x) = {}
  BY <1>3 DEF FirstWaits
<1> QED BY <1>1, <1>2, <1>4 DEF FirstWaits

\* Closing or moving one order, which is no restart that counts, with unpaid renewals.
LEMMA MovedFollows ==
    ASSUME TypeOK, FamiliesAreFlat, NEW o \in Orders, NEW S, NEW row,
           \A x \in S : ord[x].status = "pending_payment",
           ord' = [WithCancelled(S) EXCEPT ![o] = row], ren' = ren,
           \/ row.status \notin {"pending_payment", "paid", "provisioning"}
           \/ /\ ord[o].status \in {"pending_payment", "paid", "provisioning"}
              /\ row.product = ord[o].product /\ row.unit = ord[o].unit,
           \/ ord[o].status \notin {"completed", "refunding"}
           \/ row.status \in {"completed", "refunding"}
           \/ ~IsRenewal(o),
           NEW x \in Orders
    PROVE  Follows(x)
<1>1. /\ ord'[o] = row
      /\ \A y \in Orders \ {o} : ord'[y] = WithCancelled(S)[y]
  BY DEF WithCancelled
<1>2. \A y \in Orders \ {o} : \/ ord'[y] = ord[y]
                              \/ ord[y].status = "pending_payment" /\ ord'[y].status = "cancelled"
  BY <1>1, WithCancelledFacts
<1>3. StillWaits(x)
  BY <1>1, <1>2 DEF StillWaits
<1>4. ASSUME NEW c \in Children(x), IsRenewal(o) \/ c # o PROVE StillCounts(c)
  <2>1. c \in Orders
    BY DEF Children
  <2> QED BY <1>1, <1>2, <1>4, <2>1 DEF StillCounts
<1>5. CASE x \in Orders /\ \A c \in Children(x) : IsRenewal(o) \/ c # o
  BY <1>3, <1>4, <1>5, StillFollows
<1>6. ASSUME NEW c \in Children(x), ~IsRenewal(o), c = o PROVE Follows(x)
  BY <1>6 DEF Children, IsRenewal, Orders
<1> QED BY <1>5, <1>6

LEMMA CloseFollows ==
    ASSUME TypeOK, FamiliesAreFlat, NEW o \in Orders,
           NEW status \in {"cancelled", "completed", "refunded"}, CloseOrder(o, status),
           ord[o].status \notin {"completed", "refunding"} \/ ~IsRenewal(o),
           NEW x \in Orders
    PROVE  Follows(x)
<1> DEFINE open == IF IsRenewal(o) THEN {} ELSE OpenRenewals(o)
           row == Emptied(o, status)
<1>1. /\ ord' = [WithCancelled(open) EXCEPT ![o] = row] /\ ren' = ren
      /\ \A y \in open : ord[y].status = "pending_payment"
      /\ row.status = status
  BY EmptiedFacts DEF CloseOrder, OpenRenewals
<1> HIDE DEF open, row
<1> QED BY <1>1, MovedFollows

LEMMA MoveFollows ==
    ASSUME TypeOK, FamiliesAreFlat, NEW o \in Orders, NEW S, NEW status \in OrderStatus,
           \A x \in S : ord[x].status = "pending_payment", o \notin S,
           ord' = [WithCancelled(S) EXCEPT ![o].status = status], ren' = ren,
           \/ status \notin {"pending_payment", "paid", "provisioning"}
           \/ ord[o].status \in {"pending_payment", "paid", "provisioning"},
           \/ ord[o].status \notin {"completed", "refunding"}
           \/ status \in {"completed", "refunding"},
           NEW x \in Orders
    PROVE  Follows(x)
<1> DEFINE row == [ord[o] EXCEPT !.status = status]
<1>1. /\ row.status = status /\ row.product = ord[o].product /\ row.unit = ord[o].unit
  BY DEF TypeOK, Order
<1>2. WithCancelled(S)[o] = ord[o]
  BY DEF WithCancelled
<1>3. ord' = [WithCancelled(S) EXCEPT ![o] = row]
  BY <1>2
<1> HIDE DEF row
<1>4. \/ row.status \notin {"pending_payment", "paid", "provisioning"}
      \/ /\ ord[o].status \in {"pending_payment", "paid", "provisioning"}
         /\ row.product = ord[o].product /\ row.unit = ord[o].unit
  BY <1>1
<1>5. \/ ord[o].status \notin {"completed", "refunding"}
      \/ row.status \in {"completed", "refunding"}
      \/ ~IsRenewal(o)
  BY <1>1
<1> QED BY <1>3, <1>4, <1>5, MovedFollows, ZenonT(40)

LEMMA TradeFollows ==
    ASSUME TypeOK, FamiliesAreFlat, NEW o \in Orders, TradeStep(o), NEW x \in Orders
    PROVE  Follows(x)
<1>0. WithCancelled({}) = ord
  BY DEF WithCancelled, TypeOK
<1>1. ASSUME NEW p \in Products, NEW q \in 1..MaxOrderQuantity, NEW d \in Durations,
             PlaceOrder(o, p, q, d)
      PROVE  Follows(x)
  <2>1. /\ ord[o].status = "none" /\ ren' = ren /\ prod'[p].unit = prod[p].unit
        /\ ord'[o].product = p /\ ord'[o].unit = prod[p].unit
        /\ \A y \in Orders \ {o} : ord'[y] = ord[y]
    BY <1>1 DEF PlaceOrder, IsNextOrder, Taken, TypeOK, Product
  <2>2. CASE x = o
    BY <2>1, <2>2 DEF Follows
  <2>3. CASE x # o
    <3>1. StillWaits(x) /\ \A c \in Children(x) : StillCounts(c)
      BY <2>1, <2>3 DEF StillWaits, StillCounts, Children
    <3> QED BY <2>1, <3>1, StillFollows
  <2> QED BY <2>2, <2>3
<1>2. ASSUME NEW par \in Orders, NEW d \in Durations,
             RenewByExtension(o, par, d) \/ RenewByRestart(o, par, d)
      PROVE  Follows(x)
  <2>1. /\ ord[o].status = "none" /\ ren'[o].parent = par
        /\ \A y \in Orders \ {o} : ord'[y] = ord[y] /\ ren'[y] = ren[y]
    <3>1. ord[o].status = "none" /\ \E row : ord' = [ord EXCEPT ![o] = row]
      BY <1>2 DEF RenewByExtension, RenewByRestart, IsNextOrder
    <3>2. \/ ren' = [ren EXCEPT ![o] =
                 [NoRenewal EXCEPT !.parent = par, !.mode = "extend", !.oldEnd = ord[par].end,
                                   !.until = RenewedUntil(par, d)]]
          \/ ren' = [ren EXCEPT ![o] = [NoRenewal EXCEPT !.parent = par, !.mode = "restart",
                                                        !.oldEnd = ord[par].end]]
      BY <1>2 DEF RenewByExtension, RenewByRestart
    <3>3. ren'[o].parent = par /\ \A y \in Orders \ {o} : ren'[y] = ren[y]
      <4>1. o \in DOMAIN ren /\ DOMAIN ren = Orders
        BY DEF TypeOK
      <4> QED BY <3>2, <4>1 DEF NoRenewal
    <3> QED BY <3>1, <3>3 DEF TypeOK
  <2>2. CASE x = o
    BY <2>1, <2>2 DEF Follows, FirstWaits, IsRenewal, Orders
  <2>3. CASE x # o
    <3>1. o \notin Children(x)
      BY <2>1 DEF FamiliesAreFlat, IsRenewal, Children, Orders
    <3>2. StillWaits(x) /\ \A c \in Children(x) : StillCounts(c)
      BY <2>1, <2>3, <3>1 DEF StillWaits, StillCounts, Children
    <3> QED BY <2>1, <2>3, <3>2, StillFollows
  <2> QED BY <2>2, <2>3
<1>3. ASSUME NEW lease \in Orders, DeliverWithAccess(o, lease) PROVE Follows(x)
  <2>1. /\ ord[o].status \in {"paid", "provisioning"} /\ ren' = ren
        /\ ord' = [WithCancelled({}) EXCEPT ![o].status = "provisioning"]
    BY <1>0, <1>3 DEF DeliverWithAccess
  <2>2. PICK S : S = {}
    OBVIOUS
  <2>3. /\ ord' = [WithCancelled(S) EXCEPT ![o].status = "provisioning"]
        /\ "provisioning" \in OrderStatus
        /\ ord[o].status \in {"pending_payment", "paid", "provisioning"}
        /\ ord[o].status \notin {"completed", "refunding"}
        /\ o \notin S /\ \A y \in S : ord[y].status = "pending_payment"
    BY <2>1, <2>2 DEF OrderStatus
  <2> QED BY <2>1, <2>3, MoveFollows
<1>4. ASSUME NEW lease \in Orders, ConfirmDelivery(o, lease) PROVE Follows(x)
  <2>1. /\ \A y \in Orders : \/ ord'[y].status = "active" /\ ord[y].status = "provisioning"
                             \/ /\ ord'[y].status = ord[y].status
                                /\ ord'[y].product = ord[y].product
                                /\ ord'[y].unit = ord[y].unit
        /\ \A y \in Orders : /\ ren'[y].parent = ren[y].parent /\ ren'[y].mode = ren[y].mode
                             /\ ren'[y].applied = ren[y].applied
    BY <1>4 DEF ConfirmDelivery, TypeOK, Order, Renewal
  <2>2. StillWaits(x) /\ \A c \in Children(x) : StillCounts(c)
    BY <2>1 DEF StillWaits, StillCounts, Children
  <2> QED BY <2>1, <2>2, StillFollows
<1>5. CASE CancelBuyerOrder(o) \/ AdminCancelOrder(o)
  BY <1>5, CloseFollows DEF CancelBuyerOrder, AdminCancelOrder
<1>6. CASE FreezeOrder(o)
  <2> DEFINE open == IF IsRenewal(o) THEN {} ELSE OpenRenewals(o)
  <2>1. /\ ord' = [WithCancelled(open) EXCEPT ![o].status = "frozen"] /\ ren' = ren
        /\ \A y \in open : ord[y].status = "pending_payment"
        /\ ord[o].status \in {"pending_payment", "paid", "provisioning", "active"}
        /\ o \notin open
    BY <1>6 DEF FreezeOrder, OpenRenewals, Children, IsRenewal, Orders
  <2> HIDE DEF open
  <2> QED BY <2>1, MoveFollows DEF OrderStatus
<1>7. CASE RequestRefund(o)
  <2> DEFINE l == IF IsRenewal(o) THEN ren[o].parent ELSE o
             open == OpenRenewals(l)
  <2>1. /\ ord' = [WithCancelled(open) EXCEPT ![o].status = "refunding"] /\ ren' = ren
        /\ \A y \in open : ord[y].status = "pending_payment"
        /\ ord[o].status # "pending_payment"
    BY <1>7 DEF RequestRefund, OpenRenewals
  <2> HIDE DEF open
  <2> QED BY <2>1, MoveFollows DEF OrderStatus
<1> QED BY <1>1, <1>2, <1>3, <1>4, <1>5, <1>6, <1>7 DEF TradeStep

LEMMA PaidFollows ==
    ASSUME TypeOK, FamiliesAreFlat, NEW o \in Orders, PaymentArrives(o), NEW x \in Orders
    PROVE  Follows(x)
<1>1. CASE ConfirmPayment(o)
  <2>1. /\ ord[o].status = "pending_payment" /\ ren' = ren
        /\ ord' = [WithCancelled({}) EXCEPT ![o].status = "paid"]
    BY <1>1 DEF ConfirmPayment, WithCancelled, TypeOK
  <2>2. PICK S : S = {}
    OBVIOUS
  <2>3. /\ ord' = [WithCancelled(S) EXCEPT ![o].status = "paid"]
        /\ "paid" \in OrderStatus
        /\ ord[o].status \in {"pending_payment", "paid", "provisioning"}
        /\ ord[o].status \notin {"completed", "refunding"}
        /\ o \notin S /\ \A y \in S : ord[y].status = "pending_payment"
    BY <2>1, <2>2 DEF OrderStatus
  <2> QED BY <2>1, <2>3, MoveFollows
<1>2. CASE ApplyExtension(o) \/ ApplyRestart(o)
  <2>0. PICK p : p = ren[o].parent
    OBVIOUS
  <2>1. /\ p \in Orders /\ p # o /\ ~IsRenewal(p)
        /\ ord[o].status = "pending_payment" /\ ValidRenewalPayment(o)
    BY <1>2, <2>0 DEF ApplyExtension, ApplyRestart, FamiliesAreFlat, TypeOK, Renewal, IsRenewal
  <2>2. /\ ord'[o].status = "completed" /\ ren'[o].applied
        /\ \A y \in Orders \ {o, p} : ord'[y] = ord[y]
        /\ \A y \in Orders \ {o} : ren'[y] = ren[y]
        /\ ren'[o].parent = p /\ ren'[o].mode = ren[o].mode
    <3>1. PICK lease, bill : /\ ord' = [ord EXCEPT ![p] = lease, ![o] = bill]
                             /\ bill.status = "completed"
      <4>1. ASSUME ApplyExtension(o)
            PROVE  /\ ord' = [ord EXCEPT ![p] = [ord[p] EXCEPT !.end = ren[o].until],
                             ![o] = [ord[o] EXCEPT !.status = "completed", !.reserved = 0,
                                     !.start = ren[o].oldEnd, !.end = ren[o].until]]
                   /\ [ord[o] EXCEPT !.status = "completed", !.reserved = 0,
                              !.start = ren[o].oldEnd, !.end = ren[o].until].status = "completed"
        BY <2>0, <2>1, <4>1 DEF ApplyExtension, TypeOK, Order
      <4>2. ASSUME ApplyRestart(o)
            PROVE  /\ ord' = [ord EXCEPT ![p] = [ord[p] EXCEPT !.status = "paid",
                                          !.reserved = ord[o].qty, !.start = None, !.end = None],
                             ![o] = [ord[o] EXCEPT !.status = "completed", !.reserved = 0,
                                     !.start = None, !.end = None]]
                   /\ [ord[o] EXCEPT !.status = "completed", !.reserved = 0,
                              !.start = None, !.end = None].status = "completed"
        BY <2>0, <2>1, <4>2 DEF ApplyRestart, TypeOK, Order
      <4> QED BY <1>2, <4>1, <4>2, Zenon
    <3>2. /\ ord'[o].status = "completed"
          /\ \A y \in Orders \ {o, p} : ord'[y] = ord[y]
      BY <2>1, <3>1 DEF TypeOK
    <3>3. \/ ren' = [ren EXCEPT ![o].applied = TRUE]
          \/ ren' = [ren EXCEPT ![o].applied = TRUE, ![o].prevStart = ord[p].start]
      BY <1>2, <2>0 DEF ApplyExtension, ApplyRestart
    <3>4. /\ ren'[o].applied
          /\ \A y \in Orders \ {o} : ren'[y] = ren[y]
          /\ ren'[o].parent = p /\ ren'[o].mode = ren[o].mode
      BY <2>0, <3>3 DEF TypeOK, Renewal
    <3> QED BY <3>2, <3>4
  <2>3. ren[o].mode = "extend" => ord'[p].status = "active"
    BY <1>2, <2>0, <2>1 DEF ApplyExtension, ApplyRestart, ValidRenewalPayment, TypeOK, Order
  <2>4. CASE x = p
    <3>1. CASE ren[o].mode = "extend"
      BY <2>3, <2>4, <3>1 DEF Follows, FirstWaits
    <3>2. CASE ren[o].mode = "restart"
      <4>1. /\ ren'[o].parent = p /\ ren'[o].mode = "restart" /\ ren'[o].applied
            /\ ord'[o].status \in {"completed", "refunding"}
        BY <2>2, <3>2
      <4>2. Restarts(p)' # {}
        BY <4>1 DEF Restarts, Children
      <4> QED BY <2>4, <4>2 DEF Follows, FirstWaits
    <3> QED BY <3>1, <3>2 DEF TypeOK, Renewal
  <2>5. CASE x # p
    <3>1. StillWaits(x)
      BY <2>2, <2>5 DEF StillWaits
    <3>2. p \notin Children(x)
      BY <2>1 DEF Children, IsRenewal, Orders
    <3>3. \A c \in Children(x) : StillCounts(c)
      BY <2>0, <2>1, <2>2, <3>2 DEF StillCounts, Children
    <3> QED BY <2>0, <2>2, <3>1, <3>3, StillFollows
  <2> QED BY <2>4, <2>5
<1> QED BY <1>1, <1>2 DEF PaymentArrives

LEMMA RefundFollows ==
    ASSUME TypeOK, FamiliesAreFlat, NEW o \in Orders, CompleteRefund(o), NEW x \in Orders
    PROVE  Follows(x)
<1>1. CASE ~IsRenewal(o) /\ CloseOrder(o, "refunded")
  BY <1>1, CloseFollows
<1>2. CASE IsRenewal(o) /\ (RefundExtension(o) \/ RefundRestart(o))
  <2> DEFINE p == ren[o].parent
             open == OpenRenewals(p)
             back == [Emptied(p, "completed") EXCEPT !.start = ren[o].prevStart,
                                                    !.end = ren[o].oldEnd]
  <2>1. /\ p \in Orders /\ p # o /\ ren' = ren /\ UnusedRenewal(o)
        /\ \A y \in open : ord[y].status = "pending_payment"
        /\ p \notin open
    BY <1>2 DEF RefundExtension, RefundRestart, FamiliesAreFlat, TypeOK, Renewal, IsRenewal,
       OpenRenewals, Children, Orders
  <2>2. back.status = "completed" /\ Emptied(o, "refunded").status = "refunded"
    BY <2>1, EmptiedFacts DEF Emptied, TypeOK, Order
  <2>3. \/ /\ ord[p].status = "active"
           /\ ord' = [WithCancelled(open) EXCEPT ![p].end = ren[o].oldEnd,
                                                 ![o] = Emptied(o, "refunded")]
        \/ ord' = [WithCancelled(open) EXCEPT ![p] = back, ![o] = Emptied(o, "refunded")]
    BY <1>2 DEF RefundExtension, RefundRestart, UnusedRenewal
  <2>4. WithCancelled(open)[p] = ord[p] /\ DOMAIN WithCancelled(open) = Orders
    BY <2>1 DEF WithCancelled
  <2> HIDE DEF open, back, p
  <2>5. /\ ord'[p].status \in {"active", "completed"} /\ ord'[o].status = "refunded"
        /\ \A y \in Orders \ {o, p} : ord'[y] = WithCancelled(open)[y]
    BY <2>1, <2>2, <2>3, <2>4 DEF TypeOK, Order
  <2>6. CASE x = p
    BY <2>5, <2>6 DEF Follows, FirstWaits
  <2>7. CASE x # p
    <3>1. \A y \in Orders \ {o, p} :
             \/ ord'[y] = ord[y]
             \/ ord[y].status = "pending_payment" /\ ord'[y].status = "cancelled"
      BY <2>1, <2>5, WithCancelledFacts
    <3>2. StillWaits(x)
      BY <2>5, <2>7, <3>1 DEF StillWaits
    <3>3. p \notin Children(x) /\ o \notin Children(x)
      BY <1>2, <2>1, <2>7 DEF Children, IsRenewal, FamiliesAreFlat, Orders, p
    <3>4. \A c \in Children(x) : StillCounts(c)
      BY <2>1, <3>1, <3>3 DEF StillCounts, Children
    <3> QED BY <2>1, <3>2, <3>4, StillFollows
  <2> QED BY <2>6, <2>7
<1> QED BY <1>1, <1>2 DEF CompleteRefund

LEMMA StepFollows ==
    ASSUME TypeOK, FamiliesAreFlat, [Next]_vars, NEW x \in Orders
    PROVE  Follows(x)
<1>1. ASSUME ord' = ord, ren' = ren PROVE Follows(x)
  BY <1>1 DEF Follows, FirstWaits, IsRenewal, Restarts, Children
<1>2. ASSUME NEW p \in Products, SupplierStep(p) PROVE ord' = ord /\ ren' = ren
  BY <1>2 DEF SupplierStep, CreateProduct, ResubmitProduct, ReviewProduct, OfflineProduct,
     SupplierOfflineProduct, SyncResource
<1>3. ASSUME NEW s \in Suppliers, FreezeListings(s) PROVE ord' = ord /\ ren' = ren
  BY <1>3 DEF FreezeListings
<1>4. ASSUME NEW o \in Orders, OrderStep(o) PROVE Follows(x)
  BY <1>4, TradeFollows, PaidFollows, RefundFollows DEF OrderStep
<1>5. CASE JobStep
  <2>1. ASSUME NEW o \in todo, CloseExpiredUnpaid(o) \/ CompleteExpiredLease(o)
        PROVE  Follows(x)
    <3>1. o \in Orders
      BY DEF TypeOK
    <3>2. \/ ord' = ord /\ ren' = ren
          \/ CloseOrder(o, "cancelled") /\ ord[o].status = "pending_payment"
          \/ CloseOrder(o, "completed") /\ ord[o].status = "active"
      BY <2>1 DEF CloseExpiredUnpaid, CompleteExpiredLease, LeaseIsOver
    <3> QED BY <1>1, <3>1, <3>2, CloseFollows
  <2>2. RevokeExpiredAccess \/ ListExpiredUnpaid \/ ListExpiredLeases \/ FinishRound
          => ord' = ord /\ ren' = ren
    BY DEF RevokeExpiredAccess, ListExpiredUnpaid, ListExpiredLeases, FinishRound
  <2> QED BY <1>1, <1>5, <2>1, <2>2 DEF JobStep
<1>6. Crash \/ Tick \/ UNCHANGED vars => ord' = ord /\ ren' = ren
  BY DEF Crash, Tick, vars
<1> QED BY <1>1, <1>2, <1>3, <1>4, <1>5, <1>6 DEF Next

LEMMA CyclesStep ==
    TypeOK /\ FamiliesAreFlat /\ CyclesInv /\ [Next]_vars /\ [ModesAreKept]_vars => CyclesInv'
<1> SUFFICES ASSUME TypeOK, FamiliesAreFlat, CyclesInv, [Next]_vars, [ModesAreKept]_vars,
                    NEW x \in Orders, FirstWaits(x)'
             PROVE  prod'[ord'[x].product].unit = ord'[x].unit
  BY DEF CyclesInv, HasItsCycle
<1>1. Follows(x)
  BY StepFollows
<1>2. CASE FirstWaits(x) /\ ord'[x].product = ord[x].product /\ ord'[x].unit = ord[x].unit
  <2>1. prod[ord[x].product].unit = ord[x].unit /\ ord[x].product \in Products
    BY <1>2 DEF CyclesInv, HasItsCycle, TypeOK, Order
  <2>2. prod'[ord[x].product].unit = prod[ord[x].product].unit
    BY <1>2, <2>1 DEF ModesAreKept, vars
  <2> QED BY <1>2, <2>1, <2>2
<1> QED BY <1>1, <1>2 DEF Follows

\* If no supplier changes the pricing mode of a product while a first lease of it waits to be
\* paid, delivered or signed for, every lease lasts as it was paid.  The code does not keep
\* suppliers from it (ResubmitProduct; the run repriced shows what comes of it), and it takes
\* no more than that: whatever renewals, restarts and refunds do, a lease that is delivered
\* again is delivered for the restart it was paid by.
THEOREM LeasesLastIfModesAreKept == Spec /\ [][ModesAreKept]_vars => []LeaseIsPaidFor
<1>1. Init => CyclesInv
  BY DEF Init, CyclesInv, HasItsCycle, FirstWaits, NoOrder
<1>2. CyclesInv => CyclesStand
  BY DEF CyclesInv, HasItsCycle, FirstWaits, CyclesStand
<1>3. StockInv => TypeOK /\ FamiliesAreFlat
  BY DEF StockInv
<1>4. Spec /\ [][ModesAreKept]_vars => []CyclesStand
  BY <1>1, <1>2, <1>3, CyclesStep, OrdersStayGood, PTL DEF Spec
<1> QED BY <1>4, LeasesLastAsPaid, PTL

-----------------------------------------------------------------------------
(* How soon the job loop is there *)

\* Turns the loop still takes, at most, before an unpaid order that is over is closed:
\* through its list when the order is on it, otherwise by way of the next list.
TurnsToClose(o) ==
    CASE job = "close" /\ o \in todo    -> Cardinality(todo)
      [] job = "listUnpaid"             -> MaxOrders + 1
      [] job = "revoke"                 -> MaxOrders + 2
      [] job = "complete"               -> MaxOrders + 3 + Cardinality(todo)
      [] OTHER                          -> 2 * MaxOrders + 4 + Cardinality(todo)

\* The same for a lease that is over.
TurnsToComplete(o) ==
    CASE job = "complete" /\ o \in todo -> Cardinality(todo)
      [] job = "close"                  -> MaxOrders + 1 + Cardinality(todo)
      [] job = "listUnpaid"             -> 2 * MaxOrders + 2
      [] job = "revoke"                 -> 2 * MaxOrders + 3
      [] OTHER                          -> 2 * MaxOrders + 4 + Cardinality(todo)

\* The same for a credential that has expired, which no list is kept of.
TurnsToRevoke ==
    CASE job = "revoke"                 -> 1
      [] job = "complete"               -> 2 + Cardinality(todo)
      [] job = "close"                  -> MaxOrders + 3 + Cardinality(todo)
      [] OTHER                          -> 2 * MaxOrders + 4

ExpiredAccess == {o \in Orders : dlv[o].access \in Revocable /\ After(now, dlv[o].exp)}

\* The loop comes closer to an unpaid order that is over with every turn it takes, and
\* nothing but a restart takes it back; meanwhile the order stays over.
ClosingComesCloser ==
    [][\A o \in ExpiredUnpaid : ord'[o].status = "pending_payment" =>
          /\ o \in ExpiredUnpaid'
          /\ JobStep => TurnsToClose(o)' < TurnsToClose(o)
          /\ ~Crash => TurnsToClose(o)' <= TurnsToClose(o)]_vars

\* The same for leases that are over, which no payment and no refund revives.
CompletionComesCloser ==
    [][\A o \in ExpiredLeases : ord'[o].status = "active" =>
          /\ o \in ExpiredLeases'
          /\ JobStep => TurnsToComplete(o)' < TurnsToComplete(o)
          /\ ~Crash => TurnsToComplete(o)' <= TurnsToComplete(o)]_vars

\* The same for credentials that have expired.
RevocationComesCloser ==
    [][\A o \in ExpiredAccess : o \in ExpiredAccess' =>
          /\ JobStep => TurnsToRevoke' < TurnsToRevoke
          /\ ~Crash => TurnsToRevoke' <= TurnsToRevoke]_vars

\* Never more than a round and a half is left to go.
TurnsAreBounded ==
    \A o \in Orders :
        /\ TurnsToClose(o) \in 1..(3 * MaxOrders + 4)
        /\ TurnsToComplete(o) \in 1..(3 * MaxOrders + 4)
        /\ TurnsToRevoke \in 1..(2 * MaxOrders + 4)

\* A list of orders is no longer than there are orders.
LEMMA ListsAreShort ==
    ASSUME NEW S \in SUBSET Orders
    PROVE  IsFiniteSet(S) /\ Cardinality(S) \in 0..MaxOrders
<1>1. MaxOrders \in Nat
  BY OrdersAssumption
<1>2. IsFiniteSet(1..MaxOrders) /\ Cardinality(1..MaxOrders) = MaxOrders
  BY <1>1, FS_Interval
<1>3. IsFiniteSet(S) /\ Cardinality(S) <= Cardinality(1..MaxOrders)
  BY <1>2, FS_Subset DEF Orders
<1>4. Cardinality(S) \in Nat
  BY <1>3, FS_CardinalityType
<1> QED BY <1>1, <1>2, <1>3, <1>4

\* Who is on a list counts, and what is handled is counted no more.
LEMMA ListsGetShorter ==
    ASSUME NEW S \in SUBSET Orders, NEW x \in S
    PROVE  /\ Cardinality(S) \in 1..MaxOrders
           /\ Cardinality(S \ {x}) = Cardinality(S) - 1
<1>1. IsFiniteSet(S) /\ Cardinality(S) \in 0..MaxOrders
  BY ListsAreShort
<1>2. Cardinality(S \ {x}) = Cardinality(S) - 1 /\ Cardinality(S \ {x}) \in Nat
  BY <1>1, FS_RemoveElement, FS_CardinalityType
<1> QED BY <1>1, <1>2

\* What one turn of the loop is.
LEMMA TurnsOfTheLoop ==
    ASSUME TypeOK, JobStep
    PROVE  /\ UNCHANGED now
           /\ \/ job = "revoke" /\ job' = "listUnpaid" /\ UNCHANGED todo
                 /\ \A o \in ExpiredAccess : dlv'[o].access = "revoked"
              \/ job = "listUnpaid" /\ job' = "close" /\ todo' = ExpiredUnpaid
              \/ \E x \in todo : /\ job = "close" /\ job' = "close" /\ todo' = todo \ {x}
                                 /\ ord'[x].status # "pending_payment"
              \/ job = "close" /\ job' = "complete" /\ todo = {} /\ todo' = ExpiredLeases
              \/ \E x \in todo : /\ job = "complete" /\ job' = "complete" /\ todo' = todo \ {x}
                                 /\ x \in ExpiredLeases => ord'[x].status = "completed"
              \/ job = "complete" /\ job' = "revoke" /\ todo = {} /\ UNCHANGED todo
<1>1. CASE RevokeExpiredAccess
  <2>1. \A o \in ExpiredAccess : dlv'[o].access = "revoked"
    BY <1>1 DEF RevokeExpiredAccess, ExpiredAccess, TypeOK, Delivery
  <2> QED BY <1>1, <2>1 DEF RevokeExpiredAccess
<1>2. CASE ListExpiredUnpaid
  BY <1>2 DEF ListExpiredUnpaid
<1>3. ASSUME NEW x \in Orders, NEW status, CloseOrder(x, status)
      PROVE  ord'[x].status = status
  <2> DEFINE open == IF IsRenewal(x) THEN {} ELSE OpenRenewals(x)
  <2>1. ord' = [WithCancelled(open) EXCEPT ![x] = Emptied(x, status)]
    BY <1>3 DEF CloseOrder
  <2> HIDE DEF open
  <2> QED BY <2>1 DEF WithCancelled, Emptied, TypeOK, Order
<1>4. ASSUME NEW x \in todo, CloseExpiredUnpaid(x)
      PROVE  /\ job = "close" /\ job' = "close" /\ todo' = todo \ {x} /\ now' = now
             /\ ord'[x].status # "pending_payment"
  <2>1. x \in Orders
    BY DEF TypeOK
  <2>2. CASE ord[x].status = "pending_payment"
    BY <1>3, <1>4, <2>1, <2>2 DEF CloseExpiredUnpaid
  <2>3. CASE ord[x].status # "pending_payment"
    BY <1>4, <2>3 DEF CloseExpiredUnpaid
  <2> QED BY <2>2, <2>3, <1>4 DEF CloseExpiredUnpaid
<1>5. CASE ListExpiredLeases
  BY <1>5 DEF ListExpiredLeases
<1>6. ASSUME NEW x \in todo, CompleteExpiredLease(x)
      PROVE  /\ job = "complete" /\ job' = "complete" /\ todo' = todo \ {x} /\ now' = now
             /\ x \in ExpiredLeases => ord'[x].status = "completed"
  <2>1. x \in Orders
    BY DEF TypeOK
  <2>2. ASSUME x \in ExpiredLeases PROVE ord'[x].status = "completed"
    <3>1. ord[x].end \in Times /\ now \in Nat
      BY <2>1 DEF TypeOK, Order
    <3>2. LeaseIsOver(x)
      BY <2>2, <3>1 DEF ExpiredLeases, After, LeaseIsOver, Times, None
    <3> QED BY <1>3, <1>6, <2>1, <3>2 DEF CompleteExpiredLease
  <2> QED BY <2>2, <1>6 DEF CompleteExpiredLease
<1>7. CASE FinishRound
  BY <1>7 DEF FinishRound
<1> QED BY <1>1, <1>2, <1>4, <1>5, <1>6, <1>7 DEF JobStep

\* Every turn brings the loop closer to an order that is over.
LEMMA TurnsGoDown ==
    ASSUME TypeOK, JobStep, NEW o \in Orders
    PROVE  /\ o \in ExpiredUnpaid /\ ord'[o].status = "pending_payment"
                 => TurnsToClose(o)' < TurnsToClose(o)
           /\ o \in ExpiredLeases /\ ord'[o].status = "active"
                 => TurnsToComplete(o)' < TurnsToComplete(o)
           /\ o \in ExpiredAccess /\ o \in ExpiredAccess'
                 => TurnsToRevoke' < TurnsToRevoke
<1>0. MaxOrders \in Nat /\ todo \in SUBSET Orders
  BY OrdersAssumption DEF TypeOK
<1> DEFINE n == Cardinality(todo)
           m == Cardinality(todo')
<1>1. n \in 0..MaxOrders
  BY <1>0, ListsAreShort
<1>2. CASE job = "revoke" /\ job' = "listUnpaid" /\ UNCHANGED todo
           /\ \A x \in ExpiredAccess : dlv'[x].access = "revoked"
  <2>1. o \in ExpiredAccess => o \notin ExpiredAccess'
    BY <1>2 DEF ExpiredAccess, Revocable
  <2> QED BY <1>0, <1>1, <1>2, <2>1 DEF TurnsToClose, TurnsToComplete
<1>3. CASE job = "listUnpaid" /\ job' = "close" /\ todo' = ExpiredUnpaid
  <2>1. m \in 0..MaxOrders
    BY <1>3, ListsAreShort DEF ExpiredUnpaid
  <2> QED BY <1>0, <1>1, <1>3, <2>1 DEF TurnsToClose, TurnsToComplete, TurnsToRevoke
<1>4. ASSUME NEW x \in todo, job = "close", job' = "close", todo' = todo \ {x},
             ord'[x].status # "pending_payment"
      PROVE  /\ ord'[o].status = "pending_payment" => TurnsToClose(o)' < TurnsToClose(o)
             /\ TurnsToComplete(o)' < TurnsToComplete(o)
             /\ TurnsToRevoke' < TurnsToRevoke
  <2>1. m = n - 1 /\ n \in 1..MaxOrders
    BY <1>0, <1>4, ListsGetShorter
  <2>2. ord'[o].status = "pending_payment" => (o \in todo' <=> o \in todo)
    BY <1>4
  <2> QED BY <1>0, <1>4, <2>1, <2>2 DEF TurnsToClose, TurnsToComplete, TurnsToRevoke
<1>5. CASE job = "close" /\ job' = "complete" /\ todo = {} /\ todo' = ExpiredLeases
  <2>1. m \in 0..MaxOrders
    BY <1>5, ListsAreShort DEF ExpiredLeases
  <2> QED BY <1>0, <1>1, <1>5, <2>1 DEF TurnsToClose, TurnsToComplete, TurnsToRevoke
<1>6. ASSUME NEW x \in todo, job = "complete", job' = "complete", todo' = todo \ {x},
             x \in ExpiredLeases => ord'[x].status = "completed"
      PROVE  /\ TurnsToClose(o)' < TurnsToClose(o)
             /\ o \in ExpiredLeases /\ ord'[o].status = "active"
                   => TurnsToComplete(o)' < TurnsToComplete(o)
             /\ TurnsToRevoke' < TurnsToRevoke
  <2>1. m = n - 1 /\ n \in 1..MaxOrders
    BY <1>0, <1>6, ListsGetShorter
  <2>2. o \in ExpiredLeases /\ ord'[o].status = "active" => (o \in todo' <=> o \in todo)
    BY <1>6
  <2> QED BY <1>0, <1>6, <2>1, <2>2 DEF TurnsToClose, TurnsToComplete, TurnsToRevoke
<1>7. CASE job = "complete" /\ job' = "revoke" /\ todo = {} /\ UNCHANGED todo
  BY <1>0, <1>1, <1>7 DEF TurnsToClose, TurnsToComplete, TurnsToRevoke
<1> QED BY <1>2, <1>3, <1>4, <1>5, <1>6, <1>7, TurnsOfTheLoop

\* What is over stays over: its deadline does not move while it waits.
DeadlineStands(x) ==
    /\ ord[x].status = "pending_payment" /\ ord'[x].status = "pending_payment"
         => ord'[x].payExp = ord[x].payExp
    /\ x \in ExpiredLeases /\ ord'[x].status = "active" => ord'[x].end = ord[x].end

LEMMA DeadlineKept ==
    ASSUME NEW x \in Orders,
           \/ ord'[x] = ord[x]
           \/ ord'[x].status \notin {"pending_payment", "active"}
           \/ ord[x].status \notin {"pending_payment", "active"}
           \/ ord[x].status = "pending_payment" /\ ord'[x].status = "active"
           \/ ord[x].status = "active" /\ ord'[x].status = "pending_payment"
           \/ x \notin ExpiredLeases /\ ord'[x].status = "active"
    PROVE  DeadlineStands(x)
BY DEF DeadlineStands, ExpiredLeases

\* Closing an order, and cancelling its renewals, moves no deadline.
LEMMA DeadlinesOutliveClosing ==
    ASSUME TypeOK, NEW S, NEW x \in Orders, ord'[x] = WithCancelled(S)[x]
    PROVE  DeadlineStands(x)
<1>1. ord'[x] = ord[x] \/ ord'[x].status = "cancelled"
  BY DEF WithCancelled, Emptied, TypeOK, Order
<1> QED BY <1>1, DeadlineKept

LEMMA DeadlinesWithStatus ==
    ASSUME TypeOK, NEW o \in Orders, NEW S,
           \A x \in Orders \ {o} : ord'[x] = WithCancelled(S)[x],
           ord'[o].status \notin {"pending_payment", "active"}
    PROVE  \A x \in Orders : DeadlineStands(x)
BY DeadlineKept, DeadlinesOutliveClosing

LEMMA DeadlinesOfClosing ==
    ASSUME TypeOK, NEW o \in Orders, NEW status, CloseOrder(o, status),
           status \notin {"pending_payment", "active"}
    PROVE  \A x \in Orders : DeadlineStands(x)
<1> DEFINE open == IF IsRenewal(o) THEN {} ELSE OpenRenewals(o)
<1>1. ord' = [WithCancelled(open) EXCEPT ![o] = Emptied(o, status)]
  BY DEF CloseOrder
<1> HIDE DEF open
<1>2. ord'[o].status = status
  BY <1>1 DEF WithCancelled, Emptied, TypeOK, Order
<1>3. \A x \in Orders \ {o} : ord'[x] = WithCancelled(open)[x]
  BY <1>1 DEF WithCancelled
<1> QED BY <1>2, <1>3, DeadlinesWithStatus

LEMMA DeadlinesOfStatus ==
    ASSUME TypeOK, NEW o \in Orders, FreezeOrder(o) \/ RequestRefund(o)
    PROVE  \A x \in Orders : DeadlineStands(x)
<1>1. PICK S, status : /\ status \in {"frozen", "refunding"}
                       /\ ord' = [WithCancelled(S) EXCEPT ![o].status = status]
  <2>1. CASE FreezeOrder(o)
    <3> DEFINE open == IF IsRenewal(o) THEN {} ELSE OpenRenewals(o)
    <3>1. ord' = [WithCancelled(open) EXCEPT ![o].status = "frozen"]
      BY <2>1 DEF FreezeOrder
    <3> HIDE DEF open
    <3> QED BY <3>1
  <2>2. CASE RequestRefund(o)
    <3> DEFINE open == OpenRenewals(IF IsRenewal(o) THEN ren[o].parent ELSE o)
    <3>1. ord' = [WithCancelled(open) EXCEPT ![o].status = "refunding"]
      BY <2>2 DEF RequestRefund
    <3> HIDE DEF open
    <3> QED BY <3>1
  <2> QED BY <2>1, <2>2
<1>2. ord'[o].status \notin {"pending_payment", "active"}
  BY <1>1, WithCancelledType DEF Order
<1>3. \A x \in Orders \ {o} : ord'[x] = WithCancelled(S)[x]
  BY <1>1 DEF WithCancelled
<1> QED BY <1>2, <1>3, DeadlinesWithStatus

\* A payment extends a lease only before its end.
LEMMA DeadlinesOfPayment ==
    ASSUME TypeOK, FamiliesAreFlat, NEW o \in Orders, PaymentArrives(o)
    PROVE  \A x \in Orders : DeadlineStands(x)
<1> DEFINE par == ren[o].parent
<1>1. CASE ConfirmPayment(o)
  <2>1. /\ ord'[o].status = "paid"
        /\ \A x \in Orders \ {o} : ord'[x] = ord[x]
    BY <1>1 DEF ConfirmPayment, TypeOK, Order
  <2> QED BY <2>1, DeadlineKept
<1>2. CASE ApplyExtension(o)
  <2>1. par \in Orders /\ par # o /\ ord[par].end > now /\ now \in Nat /\ ord[par].end \in Times
    BY <1>2 DEF ApplyExtension, ValidRenewalPayment, FamiliesAreFlat, TypeOK, Order, Renewal,
                IsRenewal
  <2>2. par \notin ExpiredLeases
    BY <2>1 DEF ExpiredLeases, After, Times, None
  <2>3. /\ ord'[o].status = "completed"
        /\ ord'[par].status = "active" /\ ord[par].status = "active"
        /\ \A x \in Orders \ {o, par} : ord'[x] = ord[x]
    BY <1>2, <2>1 DEF ApplyExtension, ValidRenewalPayment, TypeOK, Order
  <2> QED BY <2>1, <2>2, <2>3, DeadlineKept
<1>3. CASE ApplyRestart(o)
  <2>1. par \in Orders /\ par # o
    BY <1>3 DEF ApplyRestart, FamiliesAreFlat, TypeOK, Renewal, IsRenewal
  <2>2. ord' = [ord EXCEPT ![par] = [ord[par] EXCEPT !.status = "paid", !.reserved = ord[o].qty,
                                                     !.start = None, !.end = None],
                           ![o] = [ord[o] EXCEPT !.status = "completed", !.reserved = 0,
                                                 !.start = None, !.end = None]]
    BY <1>3 DEF ApplyRestart
  <2> HIDE DEF par
  <2>3. /\ ord'[o].status = "completed" /\ ord'[par].status = "paid"
        /\ \A x \in Orders \ {o, par} : ord'[x] = ord[x]
    BY <2>1, <2>2 DEF TypeOK, Order
  <2> QED BY <2>1, <2>3, DeadlineKept
<1> QED BY <1>1, <1>2, <1>3 DEF PaymentArrives

\* A refund takes back an extension only before that has begun, and so not after its end.
LEMMA DeadlinesOfRefund ==
    ASSUME TypeOK, FamiliesAreFlat, OpenInv, NEW c \in Orders, CompleteRefund(c)
    PROVE  \A x \in Orders : DeadlineStands(x)
<1> DEFINE par == ren[c].parent
           open == OpenRenewals(par)
<1>1. CASE ~IsRenewal(c) /\ CloseOrder(c, "refunded")
  BY <1>1, DeadlinesOfClosing
<1>2. ASSUME IsRenewal(c), RefundExtension(c) \/ RefundRestart(c)
      PROVE  par \in Orders /\ par # c
  BY <1>2 DEF FamiliesAreFlat, IsRenewal, TypeOK, Renewal
<1>3. CASE IsRenewal(c) /\ RefundExtension(c)
  <2>1. ord' = [WithCancelled(open) EXCEPT ![par].end = ren[c].oldEnd,
                                           ![c] = Emptied(c, "refunded")]
    BY <1>3 DEF RefundExtension
  <2>2. ren[c].mode = "extend" /\ ren[c].oldEnd > now /\ ord[par].end = ren[c].until
    BY <1>3 DEF RefundExtension, UnusedRenewal
  <2>3. c \in Children(par) /\ par \in Orders /\ par # c
    BY <1>2, <1>3 DEF Children
  <2>4. ren[c].oldEnd < ren[c].until
    BY <2>2, <2>3 DEF OpenInv, FamilyIsGood, RenewalIsGood, RowIsGood
  <2>5. par \notin ExpiredLeases
    <3>1. ren[c].oldEnd \in Times /\ ren[c].until \in Times /\ now \in Nat
      BY DEF TypeOK, Renewal
    <3> QED BY <2>2, <2>4, <3>1 DEF ExpiredLeases, After, Times, None
  <2> HIDE DEF par, open
  <2>6. ord'[c].status = "refunded"
    BY <2>1, <2>3 DEF WithCancelled, Emptied, TypeOK, Order
  <2>7. /\ ord'[par].status \in {ord[par].status, "cancelled"}
        /\ ord'[par].payExp = ord[par].payExp
    BY <2>1, <2>3 DEF WithCancelled, Emptied, TypeOK, Order
  <2>8. \A x \in Orders \ {c, par} : ord'[x] = WithCancelled(open)[x]
    BY <2>1, <2>3 DEF WithCancelled
  <2>9. DeadlineStands(c)
    BY <2>6, DeadlineKept
  <2>10. DeadlineStands(par)
    BY <2>5, <2>7 DEF DeadlineStands
  <2> QED BY <2>8, <2>9, <2>10, DeadlinesOutliveClosing
<1>4. CASE IsRenewal(c) /\ RefundRestart(c)
  <2>1. ord' = [WithCancelled(open) EXCEPT
                  ![par] = [Emptied(par, "completed") EXCEPT !.start = ren[c].prevStart,
                                                             !.end = ren[c].oldEnd],
                  ![c] = Emptied(c, "refunded")]
    BY <1>4 DEF RefundRestart
  <2>2. par \in Orders /\ par # c
    BY <1>2, <1>4
  <2> HIDE DEF par, open
  <2>3. ord'[par].status = "completed" /\ ord'[c].status = "refunded"
    BY <2>1, <2>2 DEF WithCancelled, Emptied, TypeOK, Order
  <2>4. \A x \in Orders \ {c, par} : ord'[x] = WithCancelled(open)[x]
    BY <2>1, <2>2 DEF WithCancelled
  <2> QED BY <2>3, <2>4, DeadlineKept, DeadlinesOutliveClosing
<1> QED BY <1>1, <1>3, <1>4 DEF CompleteRefund

LEMMA DeadlinesOfOrders ==
    ASSUME TypeOK, FamiliesAreFlat, OpenInv, NEW o \in Orders, OrderStep(o)
    PROVE  \A x \in Orders : DeadlineStands(x)
<1>2. ASSUME NEW p \in Products, NEW q \in 1..MaxOrderQuantity, NEW d \in Durations,
             PlaceOrder(o, p, q, d)
      PROVE  \A x \in Orders : DeadlineStands(x)
  <2>1. ord[o].status = "none" /\ \A x \in Orders \ {o} : ord'[x] = ord[x]
    BY <1>2 DEF PlaceOrder, IsNextOrder, TypeOK
  <2> QED BY <2>1, DeadlineKept
<1>3. CASE PaymentArrives(o)
  BY <1>3, DeadlinesOfPayment
<1>4. ASSUME NEW lease \in Orders, DeliverWithAccess(o, lease) \/ ConfirmDelivery(o, lease)
      PROVE  \A x \in Orders : DeadlineStands(x)
  <2>1. CASE DeliverWithAccess(o, lease)
    <3>1. ord[o].status \in {"paid", "provisioning"} /\ \A x \in Orders \ {o} : ord'[x] = ord[x]
      BY <2>1 DEF DeliverWithAccess, TypeOK
    <3> QED BY <3>1, DeadlineKept
  <2>2. CASE ConfirmDelivery(o, lease)
    <3>1. /\ ord[o].status = "provisioning"
          /\ \A x \in Orders \ {o, lease} : ord'[x] = ord[x]
      BY <2>2 DEF ConfirmDelivery
    <3>2. lease = o \/ ord[lease].status \in {"completed", "refunding"}
      BY <2>2 DEF ConfirmDelivery, IsLeaseOrder, Restarts
    <3> QED BY <3>1, <3>2, DeadlineKept
  <2> QED BY <1>4, <2>1, <2>2
<1>5. ASSUME NEW par \in Orders, NEW d \in Durations,
             RenewByExtension(o, par, d) \/ RenewByRestart(o, par, d)
      PROVE  \A x \in Orders : DeadlineStands(x)
  <2>1. ord[o].status = "none" /\ \A x \in Orders \ {o} : ord'[x] = ord[x]
    BY <1>5 DEF RenewByExtension, RenewByRestart, IsNextOrder, TypeOK
  <2> QED BY <2>1, DeadlineKept
<1>6. CASE CancelBuyerOrder(o) \/ AdminCancelOrder(o)
  BY <1>6, DeadlinesOfClosing DEF CancelBuyerOrder, AdminCancelOrder
<1>7. CASE FreezeOrder(o) \/ RequestRefund(o)
  BY <1>7, DeadlinesOfStatus
<1>8. CASE CompleteRefund(o)
  BY <1>8, DeadlinesOfRefund
<1> QED BY <1>2, <1>3, <1>4, <1>5, <1>6, <1>7, <1>8 DEF OrderStep, TradeStep

\* No step moves the deadline of what is over, or the clock back; only a turn of the loop
\* or a restart moves the loop.
LEMMA DeadlinesStand ==
    ASSUME TypeOK, FamiliesAreFlat, OpenInv, [Next]_vars
    PROVE  /\ \A x \in Orders : DeadlineStands(x)
           /\ now' \in Nat /\ now' >= now
           /\ JobStep \/ Crash \/ UNCHANGED <<job, todo>>
<1>n. now \in Nat
  BY DEF TypeOK
<1>1. ASSUME ord' = ord PROVE \A x \in Orders : DeadlineStands(x)
  BY <1>1, DeadlineKept
<1>2. ASSUME NEW p \in Products, SupplierStep(p)
      PROVE  ord' = ord /\ UNCHANGED <<now, job, todo>>
  BY <1>2 DEF SupplierStep, CreateProduct, ResubmitProduct, ReviewProduct, OfflineProduct,
       SupplierOfflineProduct, SyncResource, jobVars
<1>3. ASSUME NEW s \in Suppliers, FreezeListings(s)
      PROVE  ord' = ord /\ UNCHANGED <<now, job, todo>>
  BY <1>3 DEF FreezeListings, jobVars
<1>4. ASSUME NEW o \in Orders, OrderStep(o)
      PROVE  UNCHANGED <<now, job, todo>> /\ \A x \in Orders : DeadlineStands(x)
  <2>1. UNCHANGED <<now, job, todo>>
    BY <1>4 DEF OrderStep, TradeStep, PlaceOrder, DeliverWithAccess, ConfirmDelivery,
       RenewByExtension, RenewByRestart, CancelBuyerOrder, AdminCancelOrder, FreezeOrder,
       RequestRefund, PaymentArrives, CompleteRefund, jobVars
  <2> QED BY <1>4, <2>1, DeadlinesOfOrders
<1>5. ASSUME NEW o \in todo, CloseExpiredUnpaid(o) \/ CompleteExpiredLease(o)
      PROVE  \A x \in Orders : DeadlineStands(x)
  <2>1. o \in Orders
    BY DEF TypeOK
  <2>2. ord' = ord \/ CloseOrder(o, "cancelled") \/ CloseOrder(o, "completed")
    BY <1>5 DEF CloseExpiredUnpaid, CompleteExpiredLease
  <2> QED BY <1>1, <2>1, <2>2, DeadlinesOfClosing
<1>6. CASE JobStep
  <2>1. ord' = ord \/ \E o \in todo : CloseExpiredUnpaid(o) \/ CompleteExpiredLease(o)
    BY <1>6 DEF JobStep, RevokeExpiredAccess, ListExpiredUnpaid, ListExpiredLeases, FinishRound
  <2> QED BY <1>1, <1>5, <1>6, <1>n, <2>1, TurnsOfTheLoop
<1>7. CASE Crash
  BY <1>1, <1>7, <1>n DEF Crash
<1>8. CASE Tick \/ UNCHANGED vars
  BY <1>1, <1>8, <1>n DEF Tick, vars, jobVars
<1> QED BY <1>1, <1>2, <1>3, <1>4, <1>6, <1>7, <1>8, <1>n DEF Next

\* What a step does to the turns that are left.
LEMMA LoopStep ==
    ASSUME TypeOK, FamiliesAreFlat, OpenInv, [Next]_vars
    PROVE  /\ \A o \in ExpiredUnpaid : ord'[o].status = "pending_payment" =>
                /\ o \in ExpiredUnpaid'
                /\ JobStep => TurnsToClose(o)' < TurnsToClose(o)
                /\ ~Crash => TurnsToClose(o)' <= TurnsToClose(o)
           /\ \A o \in ExpiredLeases : ord'[o].status = "active" =>
                /\ o \in ExpiredLeases'
                /\ JobStep => TurnsToComplete(o)' < TurnsToComplete(o)
                /\ ~Crash => TurnsToComplete(o)' <= TurnsToComplete(o)
           /\ \A o \in ExpiredAccess : o \in ExpiredAccess' =>
                /\ JobStep => TurnsToRevoke' < TurnsToRevoke
                /\ ~Crash => TurnsToRevoke' <= TurnsToRevoke
<1>0. MaxOrders \in Nat /\ Cardinality(todo) \in Nat
  BY OrdersAssumption, ListsAreShort DEF TypeOK
<1>1. ASSUME UNCHANGED <<job, todo>>, NEW o \in Orders
      PROVE  /\ TurnsToClose(o)' <= TurnsToClose(o)
             /\ TurnsToComplete(o)' <= TurnsToComplete(o)
             /\ TurnsToRevoke' <= TurnsToRevoke
  BY <1>0, <1>1 DEF TurnsToClose, TurnsToComplete, TurnsToRevoke
<1>2. now \in Nat /\ now' \in Nat /\ now' >= now
      /\ \A x \in Orders : ord[x].payExp \in Int /\ ord[x].end \in Int
  BY DeadlinesStand DEF TypeOK, Order, Times, None
<1>3. ASSUME NEW o \in ExpiredUnpaid, ord'[o].status = "pending_payment"
      PROVE  o \in ExpiredUnpaid'
  BY <1>2, <1>3, DeadlinesStand DEF ExpiredUnpaid, After, DeadlineStands
<1>4. ASSUME NEW o \in ExpiredLeases, ord'[o].status = "active"
      PROVE  o \in ExpiredLeases'
  BY <1>2, <1>4, DeadlinesStand DEF ExpiredLeases, After, DeadlineStands
<1>5. ASSUME NEW o \in Orders
      PROVE  /\ TurnsToClose(o) \in Int /\ TurnsToComplete(o) \in Int /\ TurnsToRevoke \in Int
             /\ TurnsToClose(o)' \in Int /\ TurnsToComplete(o)' \in Int /\ TurnsToRevoke' \in Int
  <2>1. Cardinality(todo') \in Nat
    <3>1. todo' \in SUBSET Orders
      BY TypeStep DEF TypeOK
    <3> QED BY <3>1, ListsAreShort
  <2> QED BY <1>0, <2>1 DEF TurnsToClose, TurnsToComplete, TurnsToRevoke
<1>6. ASSUME NEW o \in ExpiredUnpaid, ord'[o].status = "pending_payment"
      PROVE  /\ JobStep => TurnsToClose(o)' < TurnsToClose(o)
             /\ ~Crash => TurnsToClose(o)' <= TurnsToClose(o)
  <2>1. o \in Orders
    BY DEF ExpiredUnpaid
  <2> QED BY <1>1, <1>5, <1>6, <2>1, TurnsGoDown, DeadlinesStand
<1>7. ASSUME NEW o \in ExpiredLeases, ord'[o].status = "active"
      PROVE  /\ JobStep => TurnsToComplete(o)' < TurnsToComplete(o)
             /\ ~Crash => TurnsToComplete(o)' <= TurnsToComplete(o)
  <2>1. o \in Orders
    BY DEF ExpiredLeases
  <2> QED BY <1>1, <1>5, <1>7, <2>1, TurnsGoDown, DeadlinesStand
<1>8. ASSUME NEW o \in ExpiredAccess, o \in ExpiredAccess'
      PROVE  /\ JobStep => TurnsToRevoke' < TurnsToRevoke
             /\ ~Crash => TurnsToRevoke' <= TurnsToRevoke
  <2>1. o \in Orders
    BY DEF ExpiredAccess
  <2> QED BY <1>1, <1>5, <1>8, <2>1, TurnsGoDown, DeadlinesStand
<1> QED BY <1>3, <1>4, <1>6, <1>7, <1>8

\* Between restarts the loop is a round and a half away, at most, from every unpaid order,
\* lease and credential that time has ended, and each turn it takes brings it closer, whatever
\* buyers, suppliers, payments and refunds do meanwhile: what JobsCatchUp rests on, for any
\* number of orders (the job loop of cmd/server, CloseExpiredUnpaidOrders,
\* CompleteExpiredLeases, RevokeExpiredAccess).
THEOREM LoopGetsThere ==
    Spec => /\ []TurnsAreBounded
            /\ ClosingComesCloser
            /\ CompletionComesCloser
            /\ RevocationComesCloser
<1>1. StockInv => TypeOK /\ FamiliesAreFlat
  BY DEF StockInv
<1>2. TypeOK => TurnsAreBounded
  <2> SUFFICES ASSUME TypeOK, NEW o \in Orders
               PROVE  /\ TurnsToClose(o) \in 1..(3 * MaxOrders + 4)
                      /\ TurnsToComplete(o) \in 1..(3 * MaxOrders + 4)
                      /\ TurnsToRevoke \in 1..(2 * MaxOrders + 4)
    BY DEF TurnsAreBounded
  <2>1. MaxOrders \in Nat /\ Cardinality(todo) \in 0..MaxOrders
    BY OrdersAssumption, ListsAreShort DEF TypeOK
  <2>2. o \in todo => Cardinality(todo) \in 1..MaxOrders
    BY ListsGetShorter DEF TypeOK
  <2> QED BY <2>1, <2>2 DEF TurnsToClose, TurnsToComplete, TurnsToRevoke
<1>3. TypeOK /\ FamiliesAreFlat /\ OpenInv /\ [Next]_vars =>
        /\ [\A o \in ExpiredUnpaid : ord'[o].status = "pending_payment" =>
              /\ o \in ExpiredUnpaid'
              /\ JobStep => TurnsToClose(o)' < TurnsToClose(o)
              /\ ~Crash => TurnsToClose(o)' <= TurnsToClose(o)]_vars
        /\ [\A o \in ExpiredLeases : ord'[o].status = "active" =>
              /\ o \in ExpiredLeases'
              /\ JobStep => TurnsToComplete(o)' < TurnsToComplete(o)
              /\ ~Crash => TurnsToComplete(o)' <= TurnsToComplete(o)]_vars
        /\ [\A o \in ExpiredAccess : o \in ExpiredAccess' =>
              /\ JobStep => TurnsToRevoke' < TurnsToRevoke
              /\ ~Crash => TurnsToRevoke' <= TurnsToRevoke]_vars
  BY LoopStep
<1> QED BY <1>1, <1>2, <1>3, OrdersStayGood, PTL
        DEF Spec, ClosingComesCloser, CompletionComesCloser, RevocationComesCloser

=============================================================================
