------------------------------ MODULE Payments ------------------------------
(***************************************************************************)
(* The payment service (internal/payment) on top of the order domain: the  *)
(* money a buyer pays for an order stays with the gateway until it is      *)
(* split between the supplier and the platform, or goes back.              *)
(*                                                                         *)
(* Three parties act.  The service keeps payments and settlements and      *)
(* changes orders through two operations of Orders only: PaymentArrives    *)
(* inside the transaction that records a payment, and CompleteRefund after *)
(* the transaction that records a refund.  The gateway (external) holds    *)
(* the money.  Calls to the gateway are made between two transactions: the *)
(* first stores a fresh request number, the call may be lost or late, and  *)
(* its answer, a notice, or a query by that number, whichever comes, ends  *)
(* in the second.                                                          *)
(*                                                                         *)
(* What the gateway has made of a request does not change once it is       *)
(* final, so an answer, a notice and a query are all modelled as reading   *)
(* the gateway's books at the time they are handled.  An error it answers  *)
(* with is taken for a failure, whatever has become of the request: it may *)
(* be asked about a request that is still on its way.                      *)
(***************************************************************************)
EXTENDS Orders

CONSTANTS
    MaxRequests     \* bound: splits, and refunds, that are requested for one order

ASSUME PaymentsAssumption == MaxRequests \in Nat \ {0}

VARIABLES
    pay,        \* payments: status, clearing, refund, and the refund request
    settle,     \* settlements of an order, whose two rows move together; detail: the
                \* supplier's row has the number by which its share can be asked back
    gw,         \* the gateway's books (external)
    wire,       \* requests on their way to the gateway
    hooks,      \* refunds recorded whose order has not been told yet
    boarded     \* suppliers with a merchant number

payVars == <<pay, settle, gw, wire, hooks, boarded>>
allVars == <<vars, payVars>>

RequestNo == 1..MaxRequests
Outcome == {"none", "processing", "success", "fail"}
Payment == [status : {"none", "pending", "paid", "refunded"}, cleared : BOOLEAN,
            refund : {"none", "pending", "processing", "failed", "success"},
            req : 0..MaxRequests]
Settlement == [status : {"none", "pending", "processing", "success", "failed",
                         "cancelled", "reversed"},
               req : 0..MaxRequests, detail : BOOLEAN]
Books == [paid : BOOLEAN, cleared : BOOLEAN, returned : BOOLEAN,
          divides : [RequestNo -> Outcome], refunds : [RequestNo -> Outcome]]
Request == [kind : {"divide", "refund"}, order : Orders, req : RequestNo, back : BOOLEAN]

NoPayment == [status |-> "none", cleared |-> FALSE, refund |-> "none", req |-> 0]
NoSettlement == [status |-> "none", req |-> 0, detail |-> FALSE]
NoBooks == [paid |-> FALSE, cleared |-> FALSE, returned |-> FALSE,
            divides |-> [r \in RequestNo |-> "none"], refunds |-> [r \in RequestNo |-> "none"]]

-----------------------------------------------------------------------------
(* What the operations read *)

AnyOf(outcomes, S) == \E r \in RequestNo : outcomes[r] \in S

\* The gateway knows nothing of the request, lost or on its way, and says so.
NotFound_Never(outcome) == FALSE
NotFound(outcome) == outcome = "none"

\* Whether confirmPayment applies a payment to its order or sends it back.
Accepts(o) ==
    /\ ord[o].status = "pending_payment"
    /\ IsRenewal(o) => ValidRenewalPayment(o)

\* splitEligible: delivered and signed for; a renewal waits for its lease.
SplitEligible_AnyLease(o) == ord[o].status \in {"active", "completed"}
SplitEligible(o) ==
    /\ ord[o].status \in {"active", "completed"}
    /\ IsRenewal(o) => ord[ren[o].parent].status \in {"active", "completed"}

\* The lease that o paid for has begun (history kept in the order tables).
Served(o) ==
    IF IsRenewal(o)
    THEN IF ren[o].mode = "extend" THEN ren[o].applied ELSE ren[o].confirmed
    ELSE \/ ord[o].start # None
         \/ \E c \in Children(o) : ren[c].mode = "restart" /\ ren[c].applied

\* ExecuteRefund: the operator refunds what a buyer asked back or what was closed.
Refundable_InUse(o) ==
    /\ ord[o].status \in {"refunding", "cancelled", "active"}
    /\ pay[o].status = "paid"
    /\ pay[o].refund \in {"none", "pending", "failed"}
Refundable(o) ==
    /\ ord[o].status \in {"refunding", "cancelled"}
    /\ pay[o].status = "paid"
    /\ pay[o].refund \in {"none", "pending", "failed"}

-----------------------------------------------------------------------------
(* Charges *)

\* Pay: a checkout is opened with the gateway; asked again, it is handed out again.
Pay(o) ==
    /\ Accepts(o)
    /\ ord[o].payExp > now
    /\ pay[o].status = "none"
    /\ pay' = [pay EXCEPT ![o].status = "pending"]
    /\ UNCHANGED <<vars, settle, gw, wire, hooks, boarded>>

\* The gateway takes money until the deadline it was given, whatever has become
\* of the order.
GatewayTakesMoney(o) ==
    /\ pay[o].status = "pending"
    /\ ~gw[o].paid
    /\ now <= ord[o].payExp
    /\ gw' = [gw EXCEPT ![o].paid = TRUE]
    /\ UNCHANGED <<vars, pay, settle, wire, hooks, boarded>>

GatewayClears(o) ==
    /\ gw[o].paid
    /\ ~gw[o].cleared
    /\ gw' = [gw EXCEPT ![o].cleared = TRUE]
    /\ UNCHANGED <<vars, pay, settle, wire, hooks, boarded>>

\* confirmPayment for an order that can still be paid, by notice or by query.
AcceptPayment(o) ==
    /\ gw[o].paid
    /\ pay[o].status = "pending"
    /\ Accepts(o)
    /\ PaymentArrives(o)
    /\ pay' = [pay EXCEPT ![o].status = "paid"]
    /\ settle' = [settle EXCEPT ![o].status = "pending"]
    /\ UNCHANGED <<gw, wire, hooks, boarded>>

\* confirmPayment for an order that was closed, or a renewal that no longer
\* applies: the money is taken in and queued to go back.
ReturnPayment_Ignored(o) == pay
ReturnPayment(o) == [pay EXCEPT ![o].status = "paid", ![o].refund = "pending"]

RefusePayment(o) ==
    /\ gw[o].paid
    /\ pay[o].status = "pending"
    /\ ~Accepts(o)
    /\ pay' = ReturnPayment(o)
    /\ UNCHANGED <<vars, settle, gw, wire, hooks, boarded>>

MarkCleared(o) ==
    /\ gw[o].cleared
    /\ pay[o].status \in {"paid", "refunded"}
    /\ ~pay[o].cleared
    /\ pay' = [pay EXCEPT ![o].cleared = TRUE]
    /\ UNCHANGED <<vars, settle, gw, wire, hooks, boarded>>

\* applyNetIn with COMPLETED, and BindMerchant.
BoardMerchant(s) ==
    /\ s \notin boarded
    /\ boarded' = boarded \cup {s}
    /\ UNCHANGED <<vars, pay, settle, gw, wire, hooks>>

-----------------------------------------------------------------------------
(* Splits *)

\* The settlements trySplit may request a split for.
Splittable == {"pending", "failed"}

\* trySplit up to its commit; the request is then on its way.
TrySplit(o) ==
    LET r == settle[o].req + 1 IN
    /\ r \in RequestNo
    /\ SplitEligible(o)
    /\ pay[o].status = "paid"
    /\ pay[o].cleared
    /\ pay[o].refund = "none"
    /\ settle[o].status \in Splittable
    /\ SupplierOf[ord[o].product] \in boarded
    /\ settle' = [settle EXCEPT ![o].status = "processing", ![o].req = r]
    /\ wire' = wire \cup {[kind |-> "divide", order |-> o, req |-> r, back |-> FALSE]}
    /\ UNCHANGED <<vars, pay, gw, hooks, boarded>>

\* The gateway divides what it holds once, and unfreezes the rest with it.
GatewayDivides(m, outcome) ==
    LET o == m.order IN
    /\ m \in wire
    /\ m.kind = "divide"
    /\ outcome # "none"
    /\ outcome # "fail" => /\ gw[o].cleared
                           /\ ~AnyOf(gw[o].divides, {"processing", "success"})
                           /\ ~AnyOf(gw[o].refunds, {"processing", "success"})
    /\ gw' = [gw EXCEPT ![o].divides[m.req] = outcome]
    /\ wire' = wire \ {m}
    /\ UNCHANGED <<vars, pay, settle, hooks, boarded>>

\* applyDivideResult, from the answer or from syncDivides; the answer need not have
\* a detail number.
ApplyDivideResult(o, status) ==
    LET outcome == gw[o].divides[settle[o].req] IN
    /\ settle[o].status = "processing"
    /\ \/ /\ status = "success"
          /\ outcome = "success"
          /\ \E known \in BOOLEAN :
                settle' = [settle EXCEPT ![o].status = status, ![o].detail = known]
       \/ /\ status = "failed"
          /\ outcome = "fail" \/ NotFound(outcome)
          /\ settle' = [settle EXCEPT ![o].status = status]
    /\ UNCHANGED <<vars, pay, gw, wire, hooks, boarded>>

-----------------------------------------------------------------------------
(* Refunds *)

\* The operator starts, or starts again, a refund.
ExecuteRefund(o) ==
    /\ pay[o].req < MaxRequests
    /\ Refundable(o)
    /\ pay' = [pay EXCEPT ![o].refund = "pending"]
    /\ UNCHANGED <<vars, settle, gw, wire, hooks, boarded>>

\* The orders queueCancelledPaidRefunds picks: closed before their lease began.
ClosedUnstarted(o) ==
    /\ pay[o].status = "paid"
    /\ pay[o].refund = "none"
    /\ ord[o].status = "cancelled"
    /\ ord[o].start = None
    /\ settle[o].status \notin {"processing", "success"}

QueueCancelledPaidRefunds ==
    /\ \E o \in Orders : ClosedUnstarted(o)
    /\ pay' = [o \in Orders |-> IF ClosedUnstarted(o) THEN [pay[o] EXCEPT !.refund = "pending"]
                                ELSE pay[o]]
    /\ UNCHANGED <<vars, settle, gw, wire, hooks, boarded>>

\* A refund waits for a split that is under way.
MayRefund_AnySplit(o) == TRUE
MayRefund(o) == settle[o].status # "processing"

\* What was split cannot be asked back without its number: left to the operator.
NeedsAHand(o) == settle[o].status = "success" /\ ~settle[o].detail

\* submitRefund up to its commit; what was split is asked back with it.
SubmitRefund(o) ==
    LET r == pay[o].req + 1 IN
    /\ r \in RequestNo
    /\ pay[o].status = "paid"
    /\ pay[o].refund = "pending"
    /\ pay[o].cleared
    /\ MayRefund(o)
    /\ ~NeedsAHand(o)
    /\ pay' = [pay EXCEPT ![o].refund = "processing", ![o].req = r]
    /\ wire' = wire \cup {[kind |-> "refund", order |-> o, req |-> r,
                           back |-> settle[o].status = "success"]}
    /\ UNCHANGED <<vars, settle, gw, hooks, boarded>>

\* The gateway pays back once, not while it is dividing.
GatewayRefunds(m, outcome) ==
    LET o == m.order IN
    /\ m \in wire
    /\ m.kind = "refund"
    /\ outcome # "none"
    /\ outcome # "fail" => /\ gw[o].cleared
                           /\ ~AnyOf(gw[o].divides, {"processing"})
                           /\ ~AnyOf(gw[o].refunds, {"processing", "success"})
    /\ gw' = [gw EXCEPT ![o].refunds[m.req] = outcome,
                        ![o].returned = gw[o].returned \/ (m.back /\ outcome # "fail")]
    /\ wire' = wire \ {m}
    /\ UNCHANGED <<vars, pay, settle, hooks, boarded>>

\* The settlements of a payment that went back.
Unwound_Refunded(s) == IF s.status = "none" THEN s ELSE [s EXCEPT !.status = "refunded"]
Unwound(s) ==
    IF s.status = "none" THEN s
    ELSE [s EXCEPT !.status = IF s.status = "success" THEN "reversed" ELSE "cancelled"]

\* The outcomes of a request by which the money is back.
PaidBack == {"success"}

\* applyRefundResult, from the answer, a notice, or runRefunds.
RefundSucceeded(o) ==
    /\ pay[o].status = "paid"
    /\ pay[o].req # 0
    /\ gw[o].refunds[pay[o].req] \in PaidBack
    /\ pay' = [pay EXCEPT ![o].status = "refunded", ![o].refund = "success"]
    /\ settle' = [settle EXCEPT ![o] = Unwound(settle[o])]
    /\ hooks' = hooks \cup {o}
    /\ UNCHANGED <<vars, gw, wire, boarded>>

RefundFailed(o) ==
    /\ pay[o].refund = "processing"
    /\ LET outcome == gw[o].refunds[pay[o].req] IN outcome = "fail" \/ NotFound(outcome)
    /\ pay' = [pay EXCEPT ![o].refund = "failed"]
    /\ UNCHANGED <<vars, settle, gw, wire, hooks, boarded>>

\* An error of any other kind that the gateway answers a call or a query with.
TakenForFailed(o) ==
    /\ \/ /\ settle[o].status = "processing"
          /\ settle' = [settle EXCEPT ![o].status = "failed"]
          /\ pay' = pay
       \/ /\ pay[o].refund = "processing"
          /\ pay' = [pay EXCEPT ![o].refund = "failed"]
          /\ settle' = settle
    /\ UNCHANGED <<vars, gw, wire, hooks, boarded>>

\* The hook: the order is closed if it is still waiting for its refund and, for a
\* renewal, was not used meanwhile; otherwise the refusal is logged.
TellOrder_AnyOrder(o) ==
    IF ord[o].status = "refunding" /\ (IsRenewal(o) => UnusedRenewal(o))
    THEN CompleteRefund(o)
    ELSE CloseOrder(o, "refunded") /\ UNCHANGED <<now, jobVars, capacity>>
TellOrder_Started(o) ==
    IF ord[o].status = "refunding" /\ ord[o].start # None /\ ~IsRenewal(o)
    THEN CompleteRefund(o)
    ELSE UNCHANGED vars
TellOrder(o) ==
    IF ord[o].status = "refunding" /\ (IsRenewal(o) => UnusedRenewal(o))
    THEN CompleteRefund(o)
    ELSE UNCHANGED vars

RefundHook(o) ==
    /\ o \in hooks
    /\ TellOrder(o)
    /\ hooks' = hooks \ {o}
    /\ UNCHANGED <<pay, settle, gw, wire, boarded>>

-----------------------------------------------------------------------------
(* The gateway, the network and the server *)

GatewayFinishes(o, r, outcome) ==
    /\ outcome \in {"success", "fail"}
    /\ \/ /\ gw[o].divides[r] = "processing"
          /\ gw' = [gw EXCEPT ![o].divides[r] = outcome]
       \/ /\ gw[o].refunds[r] = "processing"
          /\ gw' = [gw EXCEPT ![o].refunds[r] = outcome,
                              ![o].returned = gw[o].returned /\ outcome = "success"]
    /\ UNCHANGED <<vars, pay, settle, wire, hooks, boarded>>

\* The call fails before it reaches the gateway.
LoseRequest(m) ==
    /\ m \in wire
    /\ wire' = wire \ {m}
    /\ UNCHANGED <<vars, pay, settle, gw, hooks, boarded>>

\* A restart loses the handlers: calls not yet made, and hooks not yet run.
ServerCrash ==
    /\ Crash
    /\ hooks' = {}
    /\ \E S \in SUBSET wire : wire' = S
    /\ UNCHANGED <<pay, settle, gw, boarded>>

-----------------------------------------------------------------------------

MoneyInit ==
    /\ pay = [o \in Orders |-> NoPayment]
    /\ settle = [o \in Orders |-> NoSettlement]
    /\ gw = [o \in Orders |-> NoBooks]
    /\ wire = {}
    /\ hooks = {}
    /\ boarded = {}

PayInit == Init /\ MoneyInit

\* What the orders do on their own.
Elsewhere ==
    \/ \E p \in Products : SupplierStep(p)
    \/ \E s \in Suppliers : FreezeListings(s)
    \/ \E o \in Orders : TradeStep(o)
    \/ JobStep
    \/ Tick

ServiceStep(o) ==
    \/ AcceptPayment(o)
    \/ RefusePayment(o)
    \/ MarkCleared(o)
    \/ TrySplit(o)
    \/ \E status \in {"success", "failed"} : ApplyDivideResult(o, status)
    \/ SubmitRefund(o)
    \/ RefundSucceeded(o)
    \/ RefundFailed(o)
    \/ RefundHook(o)

GatewayStep(o) ==
    \/ GatewayClears(o)
    \/ \E m \in wire, outcome \in Outcome :
         m.order = o /\ (GatewayDivides(m, outcome) \/ GatewayRefunds(m, outcome))
    \/ \E r \in RequestNo, outcome \in Outcome : GatewayFinishes(o, r, outcome)

PaymentStep ==
    \/ \E o \in Orders : \/ Pay(o)
                         \/ GatewayTakesMoney(o)
                         \/ ExecuteRefund(o)
                         \/ TakenForFailed(o)
                         \/ ServiceStep(o)
                         \/ GatewayStep(o)
    \/ \E s \in Suppliers : BoardMerchant(s)
    \/ QueueCancelledPaidRefunds
    \/ \E m \in wire : LoseRequest(m)
    \/ ServerCrash

PayNext == PaymentStep \/ (Elsewhere /\ UNCHANGED payVars)

PaySpec == PayInit /\ [][PayNext]_allVars

\* The service polls and retries in the job loop, and a hook follows its refund
\* at once; the gateway answers what reaches it.
PayFairness ==
    /\ \A o \in Orders : WF_allVars(ServiceStep(o)) /\ WF_allVars(GatewayStep(o))
    /\ WF_allVars(QueueCancelledPaidRefunds)

-----------------------------------------------------------------------------
(* What must hold *)

\* Every variable has its type.
PayTypeOK ==
    /\ pay \in [Orders -> Payment]
    /\ settle \in [Orders -> Settlement]
    /\ gw \in [Orders -> Books]
    /\ wire \subseteq Request
    /\ hooks \subseteq Orders
    /\ boarded \subseteq Suppliers

\* The payment service changes orders only in ways the order domain allows.
OrdersAreObeyed == Spec

\* A supplier is paid only for a lease that has begun: not before the buyer has
\* signed for it, and for a restart not before it is delivered again (splitEligible).
SuppliersArePaidForService ==
    \A o \in Orders : AnyOf(gw[o].divides, {"processing", "success"}) => Served(o)

\* A refund waits for the end of a split, so that the gateway never has both to do
\* for one order (submitRefund, which says so).
RefundsDoNotCrossSplits ==
    \A m, n \in wire : m.order = n.order => m.kind = n.kind

\* Nobody leases for nothing: the order by which a lease in use was last started
\* was paid, and is not paid back (confirmPayment, ExecuteRefund).
LeasesArePaid ==
    \A o, lease \in Orders :
        ord[o].status = "active" /\ IsLeaseOrder(lease, o)
            => gw[lease].paid /\ ~AnyOf(gw[lease].refunds, {"success"})

\* The same where no refund of that order is waiting: a refund that was asked for,
\* started by the operator and retried does not reach the money of a lease in use,
\* in whatever order the lease was delivered, renewed and closed (Refundable).
LeasesInUseAreFunded ==
    \A o, lease \in Orders :
        ord[o].status = "active" /\ IsLeaseOrder(lease, o) /\ ord[lease].status # "refunding"
            => gw[lease].paid /\ ~AnyOf(gw[lease].refunds, {"success"})

\* A share that is called paid, or taken back, was paid by the request in the row
\* (applyDivideResult, applyRefundResult).
PaidSharesArePaid ==
    \A o \in Orders :
        settle[o].status \in {"success", "reversed"} => gw[o].divides[settle[o].req] = "success"

\* While a split is under way no refund is, and none has been: later ones wait, and after
\* one was sent nothing is split (trySplit, submitRefund).
RefundsWaitForSplits ==
    \A o \in Orders :
        settle[o].status = "processing" => pay[o].refund \in {"none", "pending"} /\ pay[o].req = 0

\* An order is closed as refunded only when its payment is, and a payment only when the
\* money went back by the request in the row (applyRefundResult, SetRefundHook).
RefundedIsPaidBack ==
    \A o \in Orders :
        /\ ord[o].status = "refunded" => pay[o].status = "refunded"
        /\ pay[o].status = "refunded" => gw[o].refunds[pay[o].req] = "success"

\* What the books say the supplier has comes back with the money of the buyer, and nothing
\* else is asked of him, whichever of several refunds it was (submitRefund, REQ-B-031).
SharesComeBack ==
    \A o \in Orders :
        LET called == settle[o].status \in {"success", "reversed"} IN
        /\ AnyOf(gw[o].refunds, {"success"}) /\ called => gw[o].returned
        /\ gw[o].returned => called
        /\ pay[o].status = "refunded" => (settle[o].status = "reversed" <=> gw[o].returned)

\* Together: what the books of the platform say was done, was done.  What they say was not
\* may have been done: see RefundsDoNotCrossSplits.
BooksAgree ==
    PaidSharesArePaid /\ RefundsWaitForSplits /\ RefundedIsPaidBack /\ SharesComeBack

\* An order whose money is back has been told or will be: its hook is to come, or it is a
\* renewal that was used meanwhile, which the hook refuses.
Told(o) ==
    pay[o].status = "refunded" /\ ord[o].status = "refunding" =>
        o \in hooks \/ (IsRenewal(o) /\ ~UnusedRenewal(o))

\* Only a restart loses the news of a refund (or a hook that fails, which the model counts
\* with it), whatever renewals, closings and late answers come between the refund and its
\* hook (applyRefundResult, SetRefundHook).
OrdersAreTold == crashes = 0 => \A o \in Orders : Told(o)

\* Money for an order that was closed meanwhile does not stay: it is refunded, or
\* the refund has failed and the operator sees it (confirmPayment).
LateMoneyGoesBack ==
    \A o \in Orders :
        (gw[o].paid /\ pay[o].status = "pending" /\ ord[o].status = "cancelled")
            ~> pay[o].refund \in {"success", "failed"}

\* A refund that was started ends, whatever is lost on the way and whether or not
\* a split was under way, or waits for an operator (submitRefund, runRefunds).
RefundsEnd ==
    \A o \in Orders :
        pay[o].refund \in {"pending", "processing"}
            ~> pay[o].refund \in {"success", "failed"} \/ NeedsAHand(o)

\* A request to split does not hang: the answer or a query ends it.
SplitsEnd ==
    \A o \in Orders : settle[o].status = "processing" ~> settle[o].status # "processing"

\* Together: no request stays open, whatever is lost on the way.
RequestsEnd == RefundsEnd /\ SplitsEnd

\* When the money is back, the order does not wait for its refund any more.
RefundedOrdersClose ==
    \A o \in Orders :
        pay[o].status = "refunded" ~> ord[o].status # "refunding"

\* What is refunded without anybody asking was never used: the orders the job
\* picks are those whose lease never began (queueCancelledPaidRefunds).
AutomaticRefundsAreUnused ==
    \A o \in Orders : ClosedUnstarted(o) => ~Served(o)

\* The money of a lease that was closed is either the supplier's, or on its way
\* back, or something the operator can send back (ExecuteRefund, ListRefunds).
ClosedMoneyHasAWayOut ==
    \A o \in Orders :
        LET lease == IF IsRenewal(o) THEN ren[o].parent ELSE o IN
        (/\ pay[o].status = "paid"
         /\ pay[o].refund = "none"
         /\ settle[o].status = "pending"
         /\ ord[lease].status \in {"cancelled", "refunded"})
            => Refundable(o)

=============================================================================
