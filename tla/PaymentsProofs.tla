--------------------------- MODULE PaymentsProofs ---------------------------
(***************************************************************************)
(* Theorems about Payments, for every value of its constants: the service  *)
(* obeys the specification of the orders, so that what is proved of Orders *)
(* holds with payments too; what the books of the service say was done was *)
(* done by the gateway; suppliers are paid for what they served; leases in *)
(* use are paid; nothing but a restart loses the news of a refund; and the *)
(* steps for an order bring its requests to an end.                        *)
(***************************************************************************)
EXTENDS Payments, OrdersLeaseProofs

-----------------------------------------------------------------------------
(* The payment service implements the orders *)

LEMMA HookStep ==
    ASSUME NEW o \in Orders, TellOrder(o)
    PROVE  [Next]_vars
<1>1. CASE CompleteRefund(o)
  BY <1>1 DEF Next, OrderStep
<1>2. CASE UNCHANGED vars
  BY <1>2
<1> QED BY <1>1, <1>2 DEF TellOrder

LEMMA ServiceStepImplements ==
    ASSUME NEW o \in Orders, ServiceStep(o)
    PROVE  [Next]_vars
<1>1. CASE AcceptPayment(o)
  <2>1. PaymentArrives(o)
    BY <1>1 DEF AcceptPayment
  <2> QED BY <2>1 DEF Next, OrderStep
<1>2. CASE RefundHook(o)
  BY <1>2, HookStep DEF RefundHook
<1>3. CASE RefusePayment(o) \/ MarkCleared(o) \/ TrySplit(o)
  BY <1>3 DEF RefusePayment, MarkCleared, TrySplit
<1>4. CASE \E status \in {"success", "failed"} : ApplyDivideResult(o, status)
  BY <1>4 DEF ApplyDivideResult
<1>5. CASE SubmitRefund(o) \/ RefundSucceeded(o) \/ RefundFailed(o)
  BY <1>5 DEF SubmitRefund, RefundSucceeded, RefundFailed
<1> QED BY <1>1, <1>2, <1>3, <1>4, <1>5 DEF ServiceStep

LEMMA GatewayStepImplements ==
    ASSUME NEW o \in Orders, GatewayStep(o)
    PROVE  UNCHANGED vars
BY DEF GatewayStep, GatewayClears, GatewayDivides, GatewayRefunds, GatewayFinishes

LEMMA StepImplements == [PayNext]_allVars => [Next]_vars
<1> SUFFICES ASSUME [PayNext]_allVars PROVE [Next]_vars
  OBVIOUS
<1>1. CASE UNCHANGED allVars
  BY <1>1 DEF allVars
<1>2. CASE Elsewhere
  BY <1>2 DEF Elsewhere, Next, OrderStep
<1>3. CASE PaymentStep
  <2>1. ASSUME NEW o \in Orders,
               Pay(o) \/ GatewayTakesMoney(o) \/ ExecuteRefund(o) \/ TakenForFailed(o)
        PROVE  UNCHANGED vars
    BY <2>1 DEF Pay, GatewayTakesMoney, ExecuteRefund, TakenForFailed
  <2>2. ASSUME NEW s \in Suppliers, BoardMerchant(s)
        PROVE  UNCHANGED vars
    BY <2>2 DEF BoardMerchant
  <2>3. CASE QueueCancelledPaidRefunds
    BY <2>3 DEF QueueCancelledPaidRefunds
  <2>4. ASSUME NEW m \in wire, LoseRequest(m)
        PROVE  UNCHANGED vars
    BY <2>4 DEF LoseRequest
  <2>5. CASE ServerCrash
    BY <2>5 DEF ServerCrash, Next
  <2> QED BY <1>3, <2>1, <2>2, <2>3, <2>4, <2>5, ServiceStepImplements, GatewayStepImplements
          DEF PaymentStep
<1> QED BY <1>1, <1>2, <1>3 DEF PayNext

\* Seen from the orders, everything the payment service and the gateway do is a
\* step of the orders or none at all: payments are recorded and refunds are
\* completed only where an order allows it (confirmPayment, SetRefundHook).
THEOREM PaymentsImplementOrders == PaySpec => OrdersAreObeyed
<1>1. PayInit => Init
  BY DEF PayInit
<1> QED BY <1>1, StepImplements, PTL DEF PaySpec, Spec, OrdersAreObeyed

\* So units are conserved whatever becomes of payments, splits and refunds.
THEOREM StockIsConservedWithPayments == PaySpec => []StockConserved
BY PaymentsImplementOrders, StockIsConserved, PTL DEF OrdersAreObeyed

-----------------------------------------------------------------------------
(* Types *)

LEMMA BooksType ==
    ASSUME PayTypeOK, NEW o \in Orders
    PROVE  /\ pay[o] \in Payment
           /\ settle[o] \in Settlement
           /\ gw[o] \in Books
BY DEF PayTypeOK

LEMMA PayTypeInit == MoneyInit => PayTypeOK
<1>1. NoPayment \in Payment /\ NoSettlement \in Settlement /\ NoBooks \in Books
  BY PaymentsAssumption DEF NoPayment, Payment, NoSettlement, Settlement, NoBooks, Books,
     Outcome, RequestNo
<1> QED BY <1>1 DEF MoneyInit, PayTypeOK

LEMMA ServiceStepType ==
    ASSUME PayTypeOK, NEW o \in Orders, ServiceStep(o)
    PROVE  PayTypeOK'
<1> USE BooksType
<1>1. CASE AcceptPayment(o)
  BY <1>1 DEF AcceptPayment, PayTypeOK, Payment, Settlement
<1>2. CASE RefusePayment(o)
  BY <1>2, ZenonT(40) DEF RefusePayment, ReturnPayment, PayTypeOK, Payment
<1>3. CASE MarkCleared(o)
  BY <1>3, ZenonT(40) DEF MarkCleared, PayTypeOK, Payment
<1>4. CASE TrySplit(o)
  <2>1. settle[o].req + 1 \in 0..MaxRequests
    BY <1>4, PaymentsAssumption DEF TrySplit, RequestNo, Settlement
  <2>2. settle' \in [Orders -> Settlement]
    BY <1>4, <2>1 DEF TrySplit, PayTypeOK, Settlement
  <2> DEFINE m == [kind |-> "divide", order |-> o, req |-> settle[o].req + 1, back |-> FALSE]
  <2>3. wire' = wire \cup {m} /\ settle[o].req + 1 \in RequestNo
    BY <1>4 DEF TrySplit
  <2>4. m \in Request
    BY <2>3 DEF Request
  <2>5. wire' \subseteq Request
    BY <2>3, <2>4 DEF PayTypeOK
  <2> QED BY <1>4, <2>2, <2>5 DEF TrySplit, PayTypeOK
<1>5. ASSUME NEW status \in {"success", "failed"}, ApplyDivideResult(o, status)
      PROVE  PayTypeOK'
  <2>1. ASSUME NEW known \in BOOLEAN,
               settle' = [settle EXCEPT ![o].status = status, ![o].detail = known]
        PROVE  settle' \in [Orders -> Settlement]
    BY <2>1 DEF PayTypeOK, Settlement
  <2>2. ASSUME settle' = [settle EXCEPT ![o].status = status]
        PROVE  settle' \in [Orders -> Settlement]
    <3>1. [settle[o] EXCEPT !.status = status] \in Settlement
      BY DEF Settlement
    <3> QED BY <2>2, <3>1 DEF PayTypeOK
  <2>3. UNCHANGED <<pay, gw, wire, hooks, boarded>>
    BY <1>5 DEF ApplyDivideResult
  <2>4. \/ settle' = [settle EXCEPT ![o].status = status]
        \/ \E known \in BOOLEAN :
              settle' = [settle EXCEPT ![o].status = status, ![o].detail = known]
    BY <1>5, Zenon DEF ApplyDivideResult
  <2>5. settle' \in [Orders -> Settlement]
    BY <2>1, <2>2, <2>4
  <2> QED BY <2>3, <2>5 DEF PayTypeOK
<1>6. CASE SubmitRefund(o)
  <2>1. pay[o].req + 1 \in 0..MaxRequests
    BY <1>6, PaymentsAssumption DEF SubmitRefund, RequestNo, Payment
  <2>2. pay' \in [Orders -> Payment]
    BY <1>6, <2>1 DEF SubmitRefund, PayTypeOK, Payment
  <2> DEFINE back == settle[o].status = "success"
             m == [kind |-> "refund", order |-> o, req |-> pay[o].req + 1, back |-> back]
  <2>3. wire' = wire \cup {m} /\ pay[o].req + 1 \in RequestNo
    BY <1>6 DEF SubmitRefund
  <2>4. back \in BOOLEAN
    OBVIOUS
  <2> HIDE DEF back
  <2>5. m \in Request
    BY <2>3, <2>4 DEF Request
  <2>6. wire' \subseteq Request
    BY <2>3, <2>5 DEF PayTypeOK
  <2> QED BY <1>6, <2>2, <2>6 DEF SubmitRefund, PayTypeOK
<1>7. CASE RefundSucceeded(o)
  <2>1. Unwound(settle[o]) \in Settlement
    BY DEF Unwound, Settlement
  <2>2. pay' \in [Orders -> Payment]
    BY <1>7, ZenonT(40) DEF RefundSucceeded, PayTypeOK, Payment
  <2> QED BY <1>7, <2>1, <2>2 DEF RefundSucceeded, PayTypeOK
<1>8. CASE RefundFailed(o)
  BY <1>8 DEF RefundFailed, PayTypeOK, Payment
<1>9. CASE RefundHook(o)
  BY <1>9 DEF RefundHook, PayTypeOK
<1> QED BY <1>1, <1>2, <1>3, <1>4, <1>5, <1>6, <1>7, <1>8, <1>9 DEF ServiceStep

LEMMA GatewayStepType ==
    ASSUME PayTypeOK, NEW o \in Orders, GatewayStep(o)
    PROVE  PayTypeOK'
<1> USE BooksType
<1>1. CASE GatewayClears(o)
  BY <1>1 DEF GatewayClears, PayTypeOK, Books
<1>2. ASSUME NEW m \in wire, NEW outcome \in Outcome, m.order = o, GatewayDivides(m, outcome)
      PROVE  PayTypeOK'
  <2>1. [gw[o] EXCEPT !.divides[m.req] = outcome] \in Books
    BY DEF Books
  <2> QED BY <1>2, <2>1 DEF GatewayDivides, PayTypeOK
<1>3. ASSUME NEW m \in wire, NEW outcome \in Outcome, m.order = o, GatewayRefunds(m, outcome)
      PROVE  PayTypeOK'
  <2>1. m.back \in BOOLEAN
    BY DEF PayTypeOK, Request
  <2>2. [gw[o] EXCEPT !.refunds[m.req] = outcome,
                      !.returned = gw[o].returned \/ (m.back /\ outcome # "fail")] \in Books
    BY <2>1 DEF Books
  <2> QED BY <1>3, <2>2 DEF GatewayRefunds, PayTypeOK
<1>4. ASSUME NEW r \in RequestNo, NEW outcome \in Outcome, GatewayFinishes(o, r, outcome)
      PROVE  PayTypeOK'
  <2>1. [gw[o] EXCEPT !.divides[r] = outcome] \in Books
    BY DEF Books
  <2>2. [gw[o] EXCEPT !.refunds[r] = outcome,
                      !.returned = gw[o].returned /\ outcome = "success"] \in Books
    BY DEF Books
  <2> QED BY <1>4, <2>1, <2>2, ZenonT(40) DEF GatewayFinishes, PayTypeOK
<1> QED BY <1>1, <1>2, <1>3, <1>4 DEF GatewayStep

LEMMA PayTypeStep == PayTypeOK /\ [PayNext]_allVars => PayTypeOK'
<1> SUFFICES ASSUME PayTypeOK, [PayNext]_allVars PROVE PayTypeOK'
  OBVIOUS
<1> USE BooksType
<1>1. CASE UNCHANGED payVars
  BY <1>1 DEF payVars, PayTypeOK
<1>2. ASSUME NEW o \in Orders, Pay(o) PROVE PayTypeOK'
  BY <1>2 DEF Pay, PayTypeOK, Payment
<1>3. ASSUME NEW o \in Orders, GatewayTakesMoney(o) PROVE PayTypeOK'
  BY <1>3 DEF GatewayTakesMoney, PayTypeOK, Books
<1>4. ASSUME NEW o \in Orders, ExecuteRefund(o) PROVE PayTypeOK'
  BY <1>4 DEF ExecuteRefund, PayTypeOK, Payment
<1>5. ASSUME NEW s \in Suppliers, BoardMerchant(s) PROVE PayTypeOK'
  BY <1>5 DEF BoardMerchant, PayTypeOK
<1>6. CASE QueueCancelledPaidRefunds
  <2>1. \A o \in Orders : [pay[o] EXCEPT !.refund = "pending"] \in Payment
    BY DEF Payment
  <2>2. pay' \in [Orders -> Payment]
    BY <1>6, <2>1 DEF QueueCancelledPaidRefunds
  <2> QED BY <1>6, <2>2 DEF QueueCancelledPaidRefunds, PayTypeOK
<1>7. ASSUME NEW m \in wire, LoseRequest(m) PROVE PayTypeOK'
  BY <1>7 DEF LoseRequest, PayTypeOK
<1>8. CASE ServerCrash
  BY <1>8 DEF ServerCrash, PayTypeOK
<1>9. ASSUME NEW o \in Orders, TakenForFailed(o) PROVE PayTypeOK'
  <2>1. /\ [settle[o] EXCEPT !.status = "failed"] \in Settlement
        /\ [pay[o] EXCEPT !.refund = "failed"] \in Payment
    BY DEF Settlement, Payment
  <2> QED BY <1>9, <2>1 DEF TakenForFailed, PayTypeOK
<1> QED BY <1>1, <1>2, <1>3, <1>4, <1>5, <1>6, <1>7, <1>8, <1>9, ServiceStepType, GatewayStepType
        DEF PayNext, PaymentStep, allVars, payVars

\* Every reachable state of payments, settlements and the gateway is well-typed.
THEOREM PaymentsTypeCorrect == PaySpec => []PayTypeOK
<1>1. PayInit => PayTypeOK
  BY PayTypeInit DEF PayInit
<1> QED BY <1>1, PayTypeStep, PTL DEF PaySpec
-----------------------------------------------------------------------------
(* The books of the platform agree with those of the gateway *)

\* The supplier has his share, as far as the platform knows, or had it.
Called(o) == settle[o].status \in {"success", "reversed"}

\* A request on its way was numbered by the service and is new to the gateway; a refund
\* asks back what was split, and only that.
InStep(m) ==
    LET o == m.order IN
    /\ m.kind = "divide" => m.req <= settle[o].req /\ gw[o].divides[m.req] = "none"
    /\ m.kind = "refund" => /\ m.req <= pay[o].req
                            /\ gw[o].refunds[m.req] = "none"
                            /\ m.back <=> Called(o)

Distinct(S) ==
    \A m, n \in S : m.kind = n.kind /\ m.order = n.order /\ m.req = n.req => m = n

\* What a payment and its settlement say of each other.
Fits(o) ==
    /\ pay[o].status \in {"none", "pending"} => settle[o].status = "none" /\ pay[o].refund = "none"
    /\ settle[o].status = "processing" => pay[o].refund \in {"none", "pending"} /\ pay[o].req = 0
    /\ pay[o].req = 0 => pay[o].refund \in {"none", "pending"} /\ pay[o].status # "refunded"
    /\ pay[o].req # 0 => pay[o].refund # "none"

\* The gateway knows only requests that were numbered.
Unasked(o) ==
    /\ \A r \in RequestNo : r > pay[o].req => gw[o].refunds[r] = "none"
    /\ \A r \in RequestNo : r > settle[o].req => gw[o].divides[r] = "none"

\* A share that is called paid was paid.
SplitIsKnown(o) ==
    /\ settle[o].status = "processing" => settle[o].req # 0
    /\ Called(o) => settle[o].req # 0 /\ gw[o].divides[settle[o].req] = "success"

\* The gateway refunds once, and takes back with it what is called paid; what the payment
\* calls refunded was.
RefundIsKnown(o) ==
    /\ \A r \in RequestNo : gw[o].refunds[r] \in {"processing", "success"} =>
          /\ \A q \in RequestNo : gw[o].refunds[q] \in {"processing", "success"} => q = r
          /\ Called(o) => gw[o].returned
    /\ gw[o].returned => Called(o)
    /\ pay[o].status = "refunded" =>
          /\ gw[o].refunds[pay[o].req] = "success"
          /\ settle[o].status \in {"none", "reversed", "cancelled"}
    /\ settle[o].status \in {"reversed", "cancelled"} => pay[o].status = "refunded"

\* Only an order whose payment went back is told so.
ToldRightly(o) == o \in hooks \/ ord[o].status = "refunded" => pay[o].status = "refunded"

\* What is known of one order.
Known(o) == Fits(o) /\ Unasked(o) /\ SplitIsKnown(o) /\ RefundIsKnown(o)

\* The inductive invariant.
BooksInv ==
    /\ PayTypeOK
    /\ \A m \in wire : InStep(m)
    /\ Distinct(wire)
    /\ \A o \in Orders : Known(o) /\ ToldRightly(o)

\* What the invariant says of one order and its messages.
LEMMA BooksFacts ==
    ASSUME BooksInv, NEW o \in Orders
    PROVE  /\ pay[o] \in Payment /\ settle[o] \in Settlement /\ gw[o] \in Books
           /\ Fits(o) /\ Unasked(o) /\ SplitIsKnown(o) /\ RefundIsKnown(o)
           /\ \A m \in wire : m.order = o => m \in Request /\ InStep(m)
BY DEF BooksInv, Known, PayTypeOK

\* A step that touches one order, and puts only requests for it on the wire.
LEMMA OneOrderBooks ==
    ASSUME BooksInv, PayTypeOK', \A x \in Orders : ToldRightly(x)', NEW o \in Orders,
           \A x \in Orders \ {o} : pay'[x] = pay[x] /\ settle'[x] = settle[x] /\ gw'[x] = gw[x],
           \A m \in wire' : m \in wire \/ m.order = o,
           \A m \in wire' : m.order = o => InStep(m)',
           Distinct(wire)',
           Known(o)'
    PROVE  BooksInv'
<1>1. ASSUME NEW x \in Orders PROVE Known(x)'
  <2>1. CASE x = o
    BY <2>1
  <2>2. CASE x # o
    <3>1. pay'[x] = pay[x] /\ settle'[x] = settle[x] /\ gw'[x] = gw[x]
      BY <2>2
    <3>2. Fits(x)' /\ Unasked(x)'
      BY <3>1, BooksFacts DEF Fits, Unasked
    <3>3. SplitIsKnown(x)' /\ RefundIsKnown(x)'
      BY <3>1, BooksFacts DEF SplitIsKnown, RefundIsKnown, Called
    <3> QED BY <3>2, <3>3 DEF Known
  <2> QED BY <2>1, <2>2
<1>2. ASSUME NEW m \in wire' PROVE InStep(m)'
  <2>1. CASE m.order = o
    BY <2>1
  <2>2. CASE m.order # o
    <3>1. m \in wire /\ m.order \in Orders /\ InStep(m)
      BY <2>2 DEF BooksInv, PayTypeOK, Request
    <3> QED BY <2>2, <3>1 DEF InStep, Called
  <2> QED BY <2>1, <2>2
<1> QED BY <1>1, <1>2 DEF BooksInv

\* A step that writes the rows of one order and asks for nothing; a share is called paid only
\* before the first refund.
LEMMA RowsChange ==
    ASSUME BooksInv, PayTypeOK', \A x \in Orders : ToldRightly(x)', NEW o \in Orders,
           gw' = gw, wire' = wire,
           \A x \in Orders \ {o} : pay'[x] = pay[x] /\ settle'[x] = settle[x],
           pay'[o].req = pay[o].req, settle'[o].req = settle[o].req,
           (Called(o)' <=> Called(o)) \/ pay[o].req = 0,
           Fits(o)', SplitIsKnown(o)', RefundIsKnown(o)'
    PROVE  BooksInv'
<1> USE BooksFacts
<1>1. Known(o)'
  BY DEF Known, Unasked
<1>2. ASSUME NEW m \in wire', m.order = o PROVE InStep(m)'
  <2>1. m \in Request /\ InStep(m)
    BY <1>2
  <2>2. CASE m.kind = "divide"
    BY <1>2, <2>1, <2>2 DEF InStep
  <2>3. CASE m.kind = "refund"
    <3>1. pay[o].req # 0
      BY <1>2, <2>1, <2>3, PaymentsAssumption DEF InStep, Request, RequestNo
    <3> QED BY <1>2, <2>1, <2>3, <3>1 DEF InStep
  <2> QED BY <2>1, <2>2, <2>3 DEF Request
<1>3. Distinct(wire)'
  BY DEF BooksInv, Distinct
<1> QED BY <1>1, <1>2, <1>3, OneOrderBooks

\* A step of the gateway on one order.
LEMMA GatewayChanges ==
    ASSUME BooksInv, PayTypeOK', \A x \in Orders : ToldRightly(x)', NEW o \in Orders,
           pay' = pay, settle' = settle, wire' \subseteq wire,
           \A x \in Orders \ {o} : gw'[x] = gw[x],
           \A n \in wire' : n.order = o /\ n.kind = "divide" =>
               gw'[o].divides[n.req] = gw[o].divides[n.req],
           \A n \in wire' : n.order = o /\ n.kind = "refund" =>
               gw'[o].refunds[n.req] = gw[o].refunds[n.req],
           Unasked(o)', SplitIsKnown(o)', RefundIsKnown(o)'
    PROVE  BooksInv'
<1> USE BooksFacts
<1>1. Known(o)'
  BY DEF Known, Fits
<1>2. ASSUME NEW m \in wire', m.order = o PROVE InStep(m)'
  BY <1>2 DEF InStep, Called
<1>3. Distinct(wire)'
  BY DEF BooksInv, Distinct
<1> QED BY <1>1, <1>2, <1>3, OneOrderBooks

\* A request with a new number is put on the wire.
LEMMA RequestIsSent ==
    ASSUME BooksInv, PayTypeOK', \A x \in Orders : ToldRightly(x)', NEW o \in Orders,
           NEW m \in Request, m.order = o, InStep(m)',
           gw' = gw, wire' = wire \cup {m},
           \A x \in Orders \ {o} : pay'[x] = pay[x] /\ settle'[x] = settle[x],
           \A n \in wire : n.order = o => InStep(n)' /\ (n.kind = m.kind => n.req # m.req),
           Known(o)'
    PROVE  BooksInv'
<1>1. Distinct(wire)'
  BY DEF BooksInv, Distinct
<1>2. \A n \in wire' : n.order = o => InStep(n)'
  OBVIOUS
<1> QED BY <1>1, <1>2, OneOrderBooks

\* Money that went back stays back, and it is back before the hook is due.
LEMMA RefundedIsFinal ==
    ASSUME BooksInv, [PayNext]_allVars, NEW x \in Orders
    PROVE  /\ pay[x].status = "refunded" => pay'[x].status = "refunded"
           /\ x \in hooks' => x \in hooks \/ pay'[x].status = "refunded"
<1>0. PayTypeOK
  BY DEF BooksInv
<1> USE BooksFacts
<1>1. CASE UNCHANGED payVars
  BY <1>1 DEF payVars
<1>2. ASSUME NEW o \in Orders,
             \/ Pay(o) \/ GatewayTakesMoney(o) \/ ExecuteRefund(o) \/ GatewayStep(o)
             \/ AcceptPayment(o) \/ RefusePayment(o) \/ MarkCleared(o) \/ TrySplit(o)
             \/ SubmitRefund(o) \/ RefundSucceeded(o) \/ RefundFailed(o) \/ RefundHook(o)
             \/ TakenForFailed(o) \/ \E status \in {"success", "failed"} : ApplyDivideResult(o, status)
      PROVE  /\ pay[x].status = "refunded" => pay'[x].status = "refunded"
             /\ x \in hooks' => x \in hooks \/ pay'[x].status = "refunded"
  <2>1. \/ hooks' \subseteq hooks /\ pay' = pay
        \/ /\ hooks' = hooks
           /\ \/ pay' = [pay EXCEPT ![o].status = "pending"] /\ pay[o].status = "none"
              \/ pay' = [pay EXCEPT ![o].refund = "pending"]
              \/ pay' = [pay EXCEPT ![o].status = "paid"] /\ pay[o].status = "pending"
              \/ /\ pay' = [pay EXCEPT ![o].status = "paid", ![o].refund = "pending"]
                 /\ pay[o].status = "pending"
              \/ pay' = [pay EXCEPT ![o].cleared = TRUE]
              \/ pay' = [pay EXCEPT ![o].refund = "processing", ![o].req = pay[o].req + 1]
              \/ pay' = [pay EXCEPT ![o].refund = "failed"]
        \/ /\ pay' = [pay EXCEPT ![o].status = "refunded", ![o].refund = "success"]
           /\ hooks' = hooks \cup {o}
    BY <1>2 DEF Pay, GatewayTakesMoney, ExecuteRefund, GatewayStep, GatewayClears, GatewayDivides,
       GatewayRefunds, GatewayFinishes, AcceptPayment, RefusePayment, ReturnPayment, MarkCleared,
       TrySplit, SubmitRefund, RefundSucceeded, RefundFailed, RefundHook, ApplyDivideResult,
       TakenForFailed
  <2>2. pay \in [Orders -> Payment]
    BY <1>0 DEF PayTypeOK
  <2> QED BY <2>1, <2>2 DEF Payment
<1>3. ASSUME NEW s \in Suppliers, BoardMerchant(s) PROVE UNCHANGED <<pay, hooks>>
  BY <1>3 DEF BoardMerchant
<1>4. CASE QueueCancelledPaidRefunds
  BY <1>4 DEF QueueCancelledPaidRefunds, ClosedUnstarted, Payment
<1>5. ASSUME NEW m \in wire, LoseRequest(m) PROVE UNCHANGED <<pay, hooks>>
  BY <1>5 DEF LoseRequest
<1>6. CASE ServerCrash
  BY <1>6 DEF ServerCrash
<1> QED BY <1>1, <1>2, <1>3, <1>4, <1>5, <1>6
        DEF PayNext, PaymentStep, ServiceStep, allVars, payVars

\* Of all that happens to orders, only the hook closes one as refunded.
LEMMA ClosedOtherwise ==
    ASSUME TypeOK, NEW o \in Orders, NEW status, status # "refunded", CloseOrder(o, status),
           NEW x \in Orders, ord'[x].status = "refunded"
    PROVE  ord[x].status = "refunded"
<1> DEFINE open == IF IsRenewal(o) THEN {} ELSE OpenRenewals(o)
<1>1. ord' = [WithCancelled(open) EXCEPT ![o] = Emptied(o, status)]
  BY DEF CloseOrder
<1> HIDE DEF open
<1>2. CASE x = o
  BY <1>1, <1>2 DEF WithCancelled, Emptied, TypeOK, Order
<1>3. CASE x # o
  BY <1>1, <1>3 DEF WithCancelled, Emptied, TypeOK, Order
<1> QED BY <1>2, <1>3

LEMMA TradeNeverRefunds ==
    ASSUME TypeOK, NEW o \in Orders, TradeStep(o) \/ PaymentArrives(o), NEW x \in Orders,
           ord'[x].status = "refunded"
    PROVE  ord[x].status = "refunded"
<1> USE DEF TypeOK, Order
<1>1. ASSUME NEW p \in Products, NEW q \in 1..MaxOrderQuantity, NEW d \in Durations,
             PlaceOrder(o, p, q, d)
      PROVE  ord[x].status = "refunded"
  BY <1>1 DEF PlaceOrder
<1>2. ASSUME NEW lease \in Orders, DeliverWithAccess(o, lease) \/ ConfirmDelivery(o, lease)
      PROVE  ord[x].status = "refunded"
  <2>1. CASE DeliverWithAccess(o, lease)
    BY <2>1 DEF DeliverWithAccess
  <2>2. CASE ConfirmDelivery(o, lease)
    <3>1. \/ x = o /\ ord'[x].status = "active"
          \/ ord'[x].status = ord[x].status
      BY <2>2 DEF ConfirmDelivery
    <3> QED BY <3>1
  <2> QED BY <1>2, <2>1, <2>2
<1>3. ASSUME NEW par \in Orders, NEW d \in Durations,
             RenewByExtension(o, par, d) \/ RenewByRestart(o, par, d)
      PROVE  ord[x].status = "refunded"
  <2>1. ASSUME NEW reserved, NEW payExp, NEW row,
               row = NewRenewalOrder(par, reserved, d, payExp), ord' = [ord EXCEPT ![o] = row]
        PROVE  ord[x].status = "refunded"
    <3>1. row.status = "pending_payment"
      BY <2>1 DEF NewRenewalOrder
    <3> QED BY <2>1, <3>1
  <2> QED BY <1>3, <2>1 DEF RenewByExtension, RenewByRestart
<1>4. CASE CancelBuyerOrder(o) \/ AdminCancelOrder(o)
  BY <1>4, ClosedOtherwise DEF CancelBuyerOrder, AdminCancelOrder
<1>5. CASE FreezeOrder(o)
  <2> DEFINE open == IF IsRenewal(o) THEN {} ELSE OpenRenewals(o)
  <2>1. ord' = [WithCancelled(open) EXCEPT ![o].status = "frozen"]
    BY <1>5 DEF FreezeOrder
  <2> HIDE DEF open
  <2> QED BY <2>1 DEF WithCancelled, Emptied
<1>6. CASE RequestRefund(o)
  <2> DEFINE open == OpenRenewals(IF IsRenewal(o) THEN ren[o].parent ELSE o)
  <2>1. ord' = [WithCancelled(open) EXCEPT ![o].status = "refunding"]
    BY <1>6 DEF RequestRefund
  <2> HIDE DEF open
  <2> QED BY <2>1 DEF WithCancelled, Emptied
<1>7. CASE ConfirmPayment(o)
  BY <1>7 DEF ConfirmPayment
<1>8. CASE ApplyExtension(o)
  <2>1. PICK p \in Orders \cup {0} :
           ord' = [ord EXCEPT ![p].end = ren[o].until,
                          ![o] = [ord[o] EXCEPT !.status = "completed", !.reserved = 0,
                                                !.start = ren[o].oldEnd, !.end = ren[o].until]]
    BY <1>8 DEF ApplyExtension, Renewal
  <2>2. ord'[x].status \in {ord[x].status, "completed"}
    BY <2>1
  <2> QED BY <2>2
<1>9. CASE ApplyRestart(o)
  <2>1. PICK p \in Orders \cup {0} :
           ord' = [ord EXCEPT ![p] = [ord[p] EXCEPT !.status = "paid", !.reserved = ord[o].qty,
                                                    !.start = None, !.end = None],
                          ![o] = [ord[o] EXCEPT !.status = "completed", !.reserved = 0,
                                                !.start = None, !.end = None]]
    BY <1>9 DEF ApplyRestart, Renewal
  <2>2. ord'[x].status \in {ord[x].status, "completed", "paid"}
    BY <2>1
  <2> QED BY <2>2
<1> QED BY <1>1, <1>2, <1>3, <1>4, <1>5, <1>6, <1>7, <1>8, <1>9 DEF TradeStep, PaymentArrives

LEMMA HookRefundsOne ==
    ASSUME TypeOK, NEW o \in Orders, CompleteRefund(o), NEW x \in Orders,
           ord'[x].status = "refunded"
    PROVE  ord[x].status = "refunded" \/ x = o
<1> USE DEF TypeOK, Order
<1> SUFFICES ASSUME x # o PROVE ord[x].status = "refunded"
  OBVIOUS
<1>0. ASSUME NEW S
      PROVE  /\ WithCancelled(S) \in [Orders -> Order]
             /\ WithCancelled(S)[x].status \in {ord[x].status, "cancelled"}
  <2>1. WithCancelled(S)[x].status \in {ord[x].status, "cancelled"}
    BY DEF WithCancelled, Emptied
  <2> QED BY <2>1, WithCancelledType
<1>1. CASE CloseOrder(o, "refunded")
  <2> DEFINE open == IF IsRenewal(o) THEN {} ELSE OpenRenewals(o)
  <2>1. ord' = [WithCancelled(open) EXCEPT ![o] = Emptied(o, "refunded")]
    BY <1>1 DEF CloseOrder
  <2> HIDE DEF open
  <2> QED BY <1>0, <2>1
<1>2. CASE RefundExtension(o)
  <2>1. PICK p \in Orders \cup {0}, W \in [Orders -> Order] :
           /\ W[x].status \in {ord[x].status, "cancelled"}
           /\ ord' = [W EXCEPT ![p].end = ren[o].oldEnd, ![o] = Emptied(o, "refunded")]
    BY <1>0, <1>2 DEF RefundExtension, Renewal
  <2>2. ord'[x].status = W[x].status
    BY <2>1
  <2> QED BY <2>1, <2>2
<1>3. CASE RefundRestart(o)
  <2>1. PICK p \in Orders \cup {0}, W \in [Orders -> Order] :
           /\ W[x].status \in {ord[x].status, "cancelled"}
           /\ ord' = [W EXCEPT ![p] = [Emptied(p, "completed") EXCEPT !.start = ren[o].prevStart,
                                                                      !.end = ren[o].oldEnd],
                               ![o] = Emptied(o, "refunded")]
    BY <1>0, <1>3 DEF RefundRestart, Renewal
  <2>2. CASE x = p
    <3> DEFINE row == [Emptied(p, "completed") EXCEPT !.start = ren[o].prevStart,
                                                     !.end = ren[o].oldEnd]
    <3>1. row.status = "completed"
      BY <2>2 DEF Emptied
    <3>2. ord' = [W EXCEPT ![p] = row, ![o] = Emptied(o, "refunded")]
      BY <2>1
    <3> HIDE DEF row
    <3> QED BY <2>2, <3>1, <3>2
  <2>3. CASE x # p
    BY <2>1, <2>3
  <2> QED BY <2>2, <2>3
<1> QED BY <1>1, <1>2, <1>3 DEF CompleteRefund

LEMMA JobNeverRefunds ==
    ASSUME TypeOK, JobStep, NEW x \in Orders, ord'[x].status = "refunded"
    PROVE  ord[x].status = "refunded"
<1>1. CASE RevokeExpiredAccess \/ ListExpiredUnpaid \/ ListExpiredLeases \/ FinishRound
  BY <1>1 DEF RevokeExpiredAccess, ListExpiredUnpaid, ListExpiredLeases, FinishRound
<1>2. ASSUME NEW o \in todo, CloseExpiredUnpaid(o) \/ CompleteExpiredLease(o)
      PROVE  ord[x].status = "refunded"
  <2>1. o \in Orders
    BY DEF TypeOK
  <2>2. CloseOrder(o, "cancelled") \/ CloseOrder(o, "completed") \/ ord' = ord
    BY <1>2 DEF CloseExpiredUnpaid, CompleteExpiredLease
  <2> QED BY <2>1, <2>2, ClosedOtherwise
<1> QED BY <1>1, <1>2 DEF JobStep

\* Of all steps, only the hook of an order closes it as refunded.
LEMMA OnlyHooksRefund ==
    ASSUME TypeOK, [PayNext]_allVars, NEW x \in Orders, ord'[x].status = "refunded"
    PROVE  ord[x].status = "refunded" \/ x \in hooks
<1>1. CASE ord' = ord
  BY <1>1
<1>2. CASE Elsewhere
  <2>1. ASSUME NEW p \in Products, SupplierStep(p) PROVE ord' = ord
    BY <2>1 DEF SupplierStep, CreateProduct, ResubmitProduct, ReviewProduct, OfflineProduct,
       SupplierOfflineProduct, SyncResource
  <2>2. ASSUME NEW s \in Suppliers, FreezeListings(s) PROVE ord' = ord
    BY <2>2 DEF FreezeListings
  <2>3. ASSUME Tick PROVE ord' = ord
    BY <2>3 DEF Tick
  <2> QED BY <1>1, <1>2, <2>1, <2>2, <2>3, TradeNeverRefunds, JobNeverRefunds DEF Elsewhere
<1>3. ASSUME NEW o \in Orders, ServiceStep(o) PROVE ord[x].status = "refunded" \/ x \in hooks
  <2>1. CASE PaymentArrives(o)
    BY <2>1, TradeNeverRefunds
  <2>2. CASE RefundHook(o)
    <3>1. o \in hooks /\ TellOrder(o)
      BY <2>2 DEF RefundHook
    <3>2. CASE CompleteRefund(o)
      BY <3>1, <3>2, HookRefundsOne
    <3> QED BY <1>1, <3>1, <3>2 DEF TellOrder, vars
  <2>3. PaymentArrives(o) \/ RefundHook(o) \/ ord' = ord
    BY <1>3 DEF ServiceStep, AcceptPayment, RefusePayment, MarkCleared, TrySplit,
       ApplyDivideResult, SubmitRefund, RefundSucceeded, RefundFailed, vars
  <2> QED BY <1>1, <2>1, <2>2, <2>3
<1>4. ASSUME NEW o \in Orders,
             \/ Pay(o) \/ GatewayTakesMoney(o) \/ ExecuteRefund(o) \/ TakenForFailed(o)
             \/ GatewayStep(o)
      PROVE  ord' = ord
  BY <1>4, GatewayStepImplements DEF Pay, GatewayTakesMoney, ExecuteRefund, TakenForFailed, vars
<1>5. ASSUME NEW s \in Suppliers, BoardMerchant(s) PROVE ord' = ord
  BY <1>5 DEF BoardMerchant, vars
<1>6. ASSUME NEW m \in wire, LoseRequest(m) PROVE ord' = ord
  BY <1>6 DEF LoseRequest, vars
<1>7. ASSUME QueueCancelledPaidRefunds \/ ServerCrash PROVE ord' = ord
  BY <1>7 DEF QueueCancelledPaidRefunds, ServerCrash, Crash, vars
<1> QED BY <1>1, <1>2, <1>3, <1>4, <1>5, <1>6, <1>7 DEF PayNext, PaymentStep, allVars, vars

LEMMA ToldStep ==
    ASSUME BooksInv, TypeOK, [PayNext]_allVars, NEW x \in Orders
    PROVE  ToldRightly(x)'
<1>1. ToldRightly(x)
  BY DEF BooksInv
<1> QED BY <1>1, RefundedIsFinal, OnlyHooksRefund DEF ToldRightly

\* What a step of the service does to the rows of an order, and to nothing else of it.
LEMMA ServiceKeepsBooks ==
    ASSUME BooksInv, PayTypeOK', \A x \in Orders : ToldRightly(x)', NEW o \in Orders, ServiceStep(o)
    PROVE  BooksInv'
<1>0. PayTypeOK
  BY DEF BooksInv
<1> USE BooksFacts
<1>1. CASE AcceptPayment(o) \/ RefusePayment(o)
  <2>1. /\ gw' = gw /\ wire' = wire /\ pay[o].status = "pending"
        /\ \A x \in Orders \ {o} : pay'[x] = pay[x] /\ settle'[x] = settle[x]
        /\ pay'[o].status = "paid" /\ pay'[o].req = pay[o].req
        /\ settle'[o].req = settle[o].req
        /\ \/ pay'[o].refund = pay[o].refund /\ settle'[o].status = "pending"
           \/ pay'[o].refund = "pending" /\ settle'[o].status = settle[o].status
    <3>1. CASE AcceptPayment(o)
      BY <1>0, <3>1 DEF AcceptPayment, PayTypeOK, Payment, Settlement
    <3>2. CASE RefusePayment(o)
      <4>1. /\ pay' = [pay EXCEPT ![o].status = "paid", ![o].refund = "pending"]
            /\ pay[o].status = "pending" /\ UNCHANGED <<settle, gw, wire>>
        BY <3>2 DEF RefusePayment, ReturnPayment
      <4> QED BY <1>0, <4>1 DEF PayTypeOK, Payment
    <3> QED BY <1>1, <3>1, <3>2
  <2>2. settle[o].status = "none" /\ pay[o].refund = "none" /\ pay[o].req = 0
    BY <2>1 DEF Fits
  <2>3. settle'[o].status \in {"none", "pending"}
    BY <2>1, <2>2
  <2>4. Fits(o)'
    BY <2>1, <2>2, <2>3 DEF Fits
  <2>5. SplitIsKnown(o)' /\ (Called(o)' <=> Called(o))
    BY <2>2, <2>3 DEF SplitIsKnown, Called
  <2>6. RefundIsKnown(o)'
    BY <2>1, <2>3, <2>5 DEF RefundIsKnown
  <2> QED BY <2>1, <2>4, <2>5, <2>6, RowsChange
<1>2. CASE MarkCleared(o)
  <2>1. /\ gw' = gw /\ wire' = wire /\ settle' = settle
        /\ \A x \in Orders \ {o} : pay'[x] = pay[x]
        /\ pay'[o].status = pay[o].status /\ pay'[o].refund = pay[o].refund
        /\ pay'[o].req = pay[o].req
    BY <1>0, <1>2 DEF MarkCleared, PayTypeOK, Payment
  <2>2. Fits(o)' /\ SplitIsKnown(o)' /\ RefundIsKnown(o)' /\ (Called(o)' <=> Called(o))
    BY <2>1 DEF Fits, SplitIsKnown, RefundIsKnown, Called
  <2> QED BY <2>1, <2>2, RowsChange
<1>3. CASE TrySplit(o)
  <2>1. PICK m \in Request : /\ m.kind = "divide" /\ m.order = o /\ m.req = settle[o].req + 1
                             /\ wire' = wire \cup {m} /\ m.req \in RequestNo
    <3> DEFINE m == [kind |-> "divide", order |-> o, req |-> settle[o].req + 1, back |-> FALSE]
    <3>1. wire' = wire \cup {m} /\ settle[o].req + 1 \in RequestNo
      BY <1>3 DEF TrySplit
    <3>2. m \in Request
      BY <3>1 DEF Request
    <3>3. m.kind = "divide" /\ m.order = o /\ m.req = settle[o].req + 1
      OBVIOUS
    <3> HIDE DEF m
    <3> QED BY <3>1, <3>2, <3>3
  <2>2. /\ settle[o].status \in {"pending", "failed"} /\ pay[o].refund = "none"
        /\ pay[o].status = "paid" /\ pay' = pay /\ gw' = gw
        /\ settle'[o].status = "processing" /\ settle'[o].req = settle[o].req + 1
        /\ \A x \in Orders \ {o} : settle'[x] = settle[x]
    BY <1>0, <1>3 DEF TrySplit, Splittable, PayTypeOK, Settlement
  <2>3. settle[o].req \in Nat /\ settle[o].req + 1 # 0
    BY PaymentsAssumption DEF Settlement
  <2>4. pay[o].req = 0
    BY <2>2 DEF Fits
  <2>5. Fits(o)' /\ Unasked(o)'
    <3>1. Fits(o)'
      BY <2>2, <2>4 DEF Fits
    <3>2. \A r \in RequestNo : r > settle'[o].req => r > settle[o].req
      BY <2>2, <2>3, PaymentsAssumption DEF RequestNo
    <3>3. Unasked(o)'
      BY <2>2, <3>2 DEF Unasked
    <3> QED BY <3>1, <3>3
  <2>6. ~Called(o) /\ ~Called(o)'
    BY <2>2 DEF Called
  <2>7. SplitIsKnown(o)' /\ RefundIsKnown(o)'
    <3>1. SplitIsKnown(o)'
      BY <2>2, <2>3, <2>6 DEF SplitIsKnown
    <3>2. RefundIsKnown(o)'
      BY <2>2, <2>6 DEF RefundIsKnown
    <3> QED BY <3>1, <3>2
  <2>8. gw[o].divides[m.req] = "none"
    BY <2>1, <2>3 DEF Unasked
  <2>9. InStep(m)'
    BY <2>1, <2>2, <2>3, <2>8 DEF InStep
  <2>10. ASSUME NEW n \in wire, n.order = o
         PROVE  InStep(n)' /\ (n.kind = m.kind => n.req # m.req)
    <3>1. n \in Request /\ InStep(n)
      BY <2>10
    <3>2. n.req \in Nat /\ n.kind \in {"divide", "refund"}
      BY <3>1, PaymentsAssumption DEF Request, RequestNo
    <3>3. CASE n.kind = "divide"
      BY <2>1, <2>2, <2>3, <2>10, <3>1, <3>2, <3>3 DEF InStep
    <3>4. CASE n.kind = "refund"
      BY <2>1, <2>2, <2>6, <2>10, <3>1, <3>4 DEF InStep
    <3> QED BY <3>2, <3>3, <3>4
  <2> QED BY <2>1, <2>2, <2>5, <2>7, <2>9, <2>10, RequestIsSent DEF Known
<1>4. ASSUME NEW status \in {"success", "failed"}, ApplyDivideResult(o, status) PROVE BooksInv'
  <2>1. /\ settle[o].status = "processing" /\ wire' = wire /\ pay' = pay /\ gw' = gw
        /\ settle'[o].status = status /\ settle'[o].req = settle[o].req
        /\ \A x \in Orders \ {o} : settle'[x] = settle[x]
        /\ status = "success" => gw[o].divides[settle[o].req] = "success"
    BY <1>0, <1>4 DEF ApplyDivideResult, PayTypeOK, Settlement
  <2>2. pay[o].refund \in {"none", "pending"} /\ pay[o].req = 0 /\ settle[o].req # 0
    BY <2>1 DEF Fits, SplitIsKnown
  <2>3. \A r \in RequestNo : gw[o].refunds[r] = "none"
    BY <2>2, PaymentsAssumption DEF Unasked, RequestNo
  <2>4. pay[o].status = "paid"
    BY <2>1, <2>2 DEF Fits, Payment
  <2>5. Fits(o)'
    BY <2>1, <2>2, <2>4 DEF Fits
  <2>6. SplitIsKnown(o)'
    BY <2>1, <2>2 DEF SplitIsKnown, Called
  <2>7. RefundIsKnown(o)'
    <3>1. ~gw[o].returned
      BY <2>1 DEF RefundIsKnown, Called
    <3> QED BY <2>1, <2>3, <2>4, <3>1 DEF RefundIsKnown
  <2> QED BY <2>1, <2>2, <2>5, <2>6, <2>7, RowsChange
<1>5. CASE SubmitRefund(o)
  <2>1. PICK m \in Request : /\ m.kind = "refund" /\ m.order = o /\ m.req = pay[o].req + 1
                             /\ m.back <=> settle[o].status = "success"
                             /\ wire' = wire \cup {m} /\ m.req \in RequestNo
    <3> DEFINE back == settle[o].status = "success"
               m == [kind |-> "refund", order |-> o, req |-> pay[o].req + 1, back |-> back]
    <3>1. wire' = wire \cup {m} /\ pay[o].req + 1 \in RequestNo
      BY <1>5 DEF SubmitRefund
    <3>2. back \in BOOLEAN /\ (back <=> settle[o].status = "success")
      OBVIOUS
    <3> HIDE DEF back
    <3>3. m \in Request
      BY <3>1, <3>2 DEF Request
    <3>4. m.kind = "refund" /\ m.order = o /\ m.req = pay[o].req + 1 /\ m.back = back
      OBVIOUS
    <3> HIDE DEF m
    <3> QED BY <3>1, <3>2, <3>3, <3>4
  <2>2. /\ pay[o].refund = "pending" /\ pay[o].status = "paid" /\ settle' = settle /\ gw' = gw
        /\ pay'[o].status = "paid" /\ pay'[o].refund = "processing"
        /\ pay'[o].req = pay[o].req + 1
        /\ \A x \in Orders \ {o} : pay'[x] = pay[x]
        /\ settle[o].status # "processing"
    BY <1>0, <1>5 DEF SubmitRefund, MayRefund, PayTypeOK, Payment
  <2>3. pay[o].req \in Nat /\ pay[o].req + 1 # 0
    BY PaymentsAssumption DEF Payment
  <2>4. Called(o)' <=> Called(o)
    BY <2>2 DEF Called
  <2>5. Fits(o)' /\ Unasked(o)'
    <3>1. Fits(o)'
      BY <2>2, <2>3 DEF Fits
    <3>2. \A r \in RequestNo : r > pay'[o].req => r > pay[o].req
      BY <2>2, <2>3, PaymentsAssumption DEF RequestNo
    <3>3. Unasked(o)'
      BY <2>2, <3>2 DEF Unasked
    <3> QED BY <3>1, <3>3
  <2>6. SplitIsKnown(o)' /\ RefundIsKnown(o)'
    <3>1. SplitIsKnown(o)'
      BY <2>2, <2>4 DEF SplitIsKnown
    <3>2. RefundIsKnown(o)'
      BY <2>2, <2>4 DEF RefundIsKnown
    <3> QED BY <3>1, <3>2
  <2>7. gw[o].refunds[m.req] = "none"
    BY <2>1, <2>3 DEF Unasked
  <2>8. m.back <=> Called(o)
    <3>1. settle[o].status # "reversed"
      BY <2>2 DEF RefundIsKnown
    <3> QED BY <2>1, <3>1 DEF Called
  <2>9. InStep(m)'
    BY <2>1, <2>2, <2>3, <2>4, <2>7, <2>8 DEF InStep
  <2>10. ASSUME NEW n \in wire, n.order = o
         PROVE  InStep(n)' /\ (n.kind = m.kind => n.req # m.req)
    <3>1. n \in Request /\ InStep(n)
      BY <2>10
    <3>2. n.req \in Nat /\ n.kind \in {"divide", "refund"}
      BY <3>1, PaymentsAssumption DEF Request, RequestNo
    <3>3. CASE n.kind = "refund"
      BY <2>1, <2>2, <2>3, <2>4, <2>10, <3>1, <3>2, <3>3 DEF InStep
    <3>4. CASE n.kind = "divide"
      BY <2>1, <2>2, <2>10, <3>1, <3>4 DEF InStep
    <3> QED BY <3>2, <3>3, <3>4
  <2> QED BY <2>1, <2>2, <2>5, <2>6, <2>9, <2>10, RequestIsSent DEF Known
<1>6. CASE RefundSucceeded(o)
  <2>1. /\ pay[o].status = "paid" /\ pay[o].req # 0 /\ gw' = gw /\ wire' = wire
        /\ gw[o].refunds[pay[o].req] = "success"
        /\ pay'[o].status = "refunded" /\ pay'[o].refund = "success" /\ pay'[o].req = pay[o].req
        /\ settle'[o] = Unwound(settle[o])
        /\ \A x \in Orders \ {o} : pay'[x] = pay[x] /\ settle'[x] = settle[x]
    BY <1>0, <1>6 DEF RefundSucceeded, PaidBack, PayTypeOK, Payment
  <2>2. settle[o].status \notin {"processing", "reversed"}
    BY <2>1 DEF Fits, RefundIsKnown
  <2>3. /\ settle'[o].req = settle[o].req
        /\ settle'[o].status \in {"none", "reversed", "cancelled"}
        /\ settle'[o].status = "reversed" <=> settle[o].status = "success"
    BY <2>1, <2>2 DEF Unwound, Settlement
  <2>4. Called(o)' <=> Called(o)
    BY <2>2, <2>3 DEF Called
  <2>5. Fits(o)'
    BY <2>1, <2>3 DEF Fits
  <2>6. SplitIsKnown(o)'
    BY <2>1, <2>3, <2>4 DEF SplitIsKnown
  <2>7. RefundIsKnown(o)'
    BY <2>1, <2>3, <2>4 DEF RefundIsKnown
  <2> QED BY <2>1, <2>3, <2>4, <2>5, <2>6, <2>7, RowsChange
<1>7. CASE RefundFailed(o)
  <2>1. /\ gw' = gw /\ wire' = wire /\ settle' = settle
        /\ pay[o].refund = "processing" /\ pay'[o].status = pay[o].status
        /\ pay'[o].refund = "failed" /\ pay'[o].req = pay[o].req
        /\ \A x \in Orders \ {o} : pay'[x] = pay[x]
    BY <1>0, <1>7 DEF RefundFailed, PayTypeOK, Payment
  <2>2. Fits(o)'
    BY <2>1 DEF Fits
  <2>3. SplitIsKnown(o)' /\ RefundIsKnown(o)' /\ (Called(o)' <=> Called(o))
    BY <2>1 DEF SplitIsKnown, RefundIsKnown, Called
  <2> QED BY <2>1, <2>2, <2>3, RowsChange
<1>8. CASE RefundHook(o)
  <2>1. UNCHANGED <<pay, settle, gw, wire>>
    BY <1>8 DEF RefundHook
  <2>2. Fits(o)' /\ SplitIsKnown(o)' /\ RefundIsKnown(o)' /\ (Called(o)' <=> Called(o))
    BY <2>1 DEF Fits, SplitIsKnown, RefundIsKnown, Called
  <2> QED BY <2>1, <2>2, RowsChange
<1> QED BY <1>1, <1>2, <1>3, <1>4, <1>5, <1>6, <1>7, <1>8 DEF ServiceStep

LEMMA GatewayKeepsBooks ==
    ASSUME BooksInv, PayTypeOK', \A x \in Orders : ToldRightly(x)', NEW o \in Orders, GatewayStep(o)
    PROVE  BooksInv'
<1>0. PayTypeOK
  BY DEF BooksInv
<1> USE BooksFacts
<1>1. CASE GatewayClears(o)
  <2>1. /\ UNCHANGED <<pay, settle, wire>>
        /\ \A x \in Orders \ {o} : gw'[x] = gw[x]
        /\ gw'[o].divides = gw[o].divides /\ gw'[o].refunds = gw[o].refunds
        /\ gw'[o].returned = gw[o].returned
    BY <1>0, <1>1 DEF GatewayClears, PayTypeOK, Books
  <2>2. Unasked(o)' /\ SplitIsKnown(o)' /\ RefundIsKnown(o)'
    BY <2>1 DEF Unasked, SplitIsKnown, RefundIsKnown, Called
  <2> QED BY <2>1, <2>2, GatewayChanges
<1>2. ASSUME NEW m \in wire, NEW outcome \in Outcome, m.order = o, GatewayDivides(m, outcome)
      PROVE  BooksInv'
  <2>1. /\ UNCHANGED <<pay, settle>> /\ wire' = wire \ {m} /\ m.kind = "divide"
        /\ \A x \in Orders \ {o} : gw'[x] = gw[x]
        /\ gw'[o].refunds = gw[o].refunds /\ gw'[o].returned = gw[o].returned
        /\ gw'[o].divides = [gw[o].divides EXCEPT ![m.req] = outcome]
    BY <1>0, <1>2 DEF GatewayDivides, PayTypeOK, Books
  <2>2. /\ m.req <= settle[o].req /\ gw[o].divides[m.req] = "none"
        /\ m.req \in RequestNo /\ m.req \in Nat /\ settle[o].req \in Nat
    BY <1>2, <2>1, PaymentsAssumption DEF InStep, Request, RequestNo, Settlement
  <2>3. \A r \in RequestNo : r # m.req => gw'[o].divides[r] = gw[o].divides[r]
    BY <2>1 DEF Books
  <2>4. \A r \in RequestNo : r > settle[o].req => r # m.req
    BY <2>2, PaymentsAssumption DEF RequestNo
  <2>5. Unasked(o)'
    BY <2>1, <2>3, <2>4 DEF Unasked
  <2>6. Called(o) => settle[o].req \in RequestNo /\ settle[o].req # m.req
    BY <2>2, PaymentsAssumption DEF SplitIsKnown, Settlement, RequestNo
  <2>7. SplitIsKnown(o)' /\ RefundIsKnown(o)'
    <3>1. SplitIsKnown(o)'
      BY <2>1, <2>3, <2>6 DEF SplitIsKnown, Called
    <3>2. RefundIsKnown(o)'
      BY <2>1 DEF RefundIsKnown, Called
    <3> QED BY <3>1, <3>2
  <2>8. \A n \in wire' : n.order = o /\ n.kind = "divide" => n.req # m.req /\ n.req \in RequestNo
    BY <1>2, <2>1 DEF BooksInv, Distinct, PayTypeOK, Request
  <2> QED BY <2>1, <2>3, <2>5, <2>7, <2>8, GatewayChanges
<1>3. ASSUME NEW m \in wire, NEW outcome \in Outcome, m.order = o, GatewayRefunds(m, outcome)
      PROVE  BooksInv'
  <2>1. /\ UNCHANGED <<pay, settle>> /\ wire' = wire \ {m} /\ m.kind = "refund"
        /\ \A x \in Orders \ {o} : gw'[x] = gw[x]
        /\ gw'[o].divides = gw[o].divides
        /\ gw'[o].refunds = [gw[o].refunds EXCEPT ![m.req] = outcome]
        /\ gw'[o].returned <=> (gw[o].returned \/ (m.back /\ outcome # "fail"))
        /\ outcome # "none"
        /\ outcome # "fail" => ~AnyOf(gw[o].refunds, {"processing", "success"})
    BY <1>0, <1>3 DEF GatewayRefunds, PayTypeOK, Books
  <2>2. /\ m.req <= pay[o].req /\ gw[o].refunds[m.req] = "none"
        /\ m.back <=> Called(o)
        /\ m.req \in RequestNo /\ m.req \in Nat /\ pay[o].req \in Nat
    BY <1>3, <2>1, PaymentsAssumption DEF InStep, Request, RequestNo, Payment
  <2>3. /\ \A r \in RequestNo : r # m.req => gw'[o].refunds[r] = gw[o].refunds[r]
        /\ gw'[o].refunds[m.req] = outcome
    BY <2>1, <2>2 DEF Books
  <2>4. \A r \in RequestNo : r > pay[o].req => r # m.req
    BY <2>2, PaymentsAssumption DEF RequestNo
  <2>5. Unasked(o)'
    BY <2>1, <2>3, <2>4 DEF Unasked
  <2>6. SplitIsKnown(o)'
    BY <2>1 DEF SplitIsKnown, Called
  <2>7. ASSUME NEW r \in RequestNo, gw'[o].refunds[r] \in {"processing", "success"}
        PROVE  /\ \A q \in RequestNo : gw'[o].refunds[q] \in {"processing", "success"} => q = r
               /\ Called(o) => gw'[o].returned
    <3>1. CASE outcome = "fail"
      BY <2>1, <2>3, <2>7, <3>1 DEF RefundIsKnown
    <3>2. CASE outcome # "fail"
      <4>1. \A q \in RequestNo : gw[o].refunds[q] \notin {"processing", "success"}
        BY <2>1, <3>2 DEF AnyOf
      <4>2. \A q \in RequestNo : gw'[o].refunds[q] \in {"processing", "success"} => q = m.req
        BY <2>3, <4>1
      <4> QED BY <2>1, <2>2, <2>7, <3>2, <4>2
    <3> QED BY <3>1, <3>2
  <2>8. gw'[o].returned => Called(o)
    BY <2>1, <2>2 DEF RefundIsKnown
  <2>9. pay[o].status = "refunded" => gw'[o].refunds[pay[o].req] = "success"
    <3>1. pay[o].status = "refunded" => pay[o].req \in RequestNo /\ pay[o].req # m.req
      BY <2>2, PaymentsAssumption DEF Fits, RefundIsKnown, Payment, RequestNo
    <3> QED BY <2>3, <3>1 DEF RefundIsKnown
  <2>10. RefundIsKnown(o)'
    <3>1. Called(o)' <=> Called(o)
      BY <2>1 DEF Called
    <3> QED BY <2>1, <2>7, <2>8, <2>9, <3>1 DEF RefundIsKnown
  <2>11. \A n \in wire' : n.order = o /\ n.kind = "refund" => n.req # m.req /\ n.req \in RequestNo
    BY <1>3, <2>1 DEF BooksInv, Distinct, PayTypeOK, Request
  <2> QED BY <2>1, <2>3, <2>5, <2>6, <2>10, <2>11, GatewayChanges
<1>4. ASSUME NEW r \in RequestNo, NEW outcome \in Outcome, GatewayFinishes(o, r, outcome)
      PROVE  BooksInv'
  <2>1. UNCHANGED <<pay, settle, wire>> /\ outcome \in {"success", "fail"}
    BY <1>4 DEF GatewayFinishes
  <2>2. \A n \in wire : n.order = o => n.req \in RequestNo
    BY DEF BooksInv, PayTypeOK, Request
  <2>3. CASE gw[o].divides[r] = "processing" /\ gw' = [gw EXCEPT ![o].divides[r] = outcome]
    <3>1. /\ \A x \in Orders \ {o} : gw'[x] = gw[x]
          /\ gw'[o].refunds = gw[o].refunds /\ gw'[o].returned = gw[o].returned
          /\ \A q \in RequestNo : q # r => gw'[o].divides[q] = gw[o].divides[q]
      BY <1>0, <2>3 DEF PayTypeOK, Books
    <3>2. \A q \in RequestNo : q > settle[o].req => q # r
      BY <2>3 DEF Unasked
    <3>3. Unasked(o)'
      BY <2>1, <3>1, <3>2 DEF Unasked
    <3>4. Called(o) => settle[o].req # r /\ settle[o].req \in RequestNo
      BY <2>3, PaymentsAssumption DEF SplitIsKnown, Settlement, RequestNo
    <3>5. SplitIsKnown(o)'
      BY <2>1, <3>1, <3>4 DEF SplitIsKnown, Called
    <3>6. RefundIsKnown(o)'
      BY <2>1, <3>1 DEF RefundIsKnown, Called
    <3>7. \A n \in wire : n.order = o /\ n.kind = "divide" => n.req # r
      BY <2>3 DEF InStep
    <3> QED BY <2>1, <2>2, <3>1, <3>3, <3>5, <3>6, <3>7, GatewayChanges
  <2>4. CASE /\ gw[o].refunds[r] = "processing"
             /\ gw' = [gw EXCEPT ![o].refunds[r] = outcome,
                                 ![o].returned = gw[o].returned /\ outcome = "success"]
    <3>1. /\ \A x \in Orders \ {o} : gw'[x] = gw[x]
          /\ gw'[o].divides = gw[o].divides
          /\ gw'[o].refunds = [gw[o].refunds EXCEPT ![r] = outcome]
          /\ gw'[o].returned <=> (gw[o].returned /\ outcome = "success")
      BY <1>0, <2>4 DEF PayTypeOK, Books
    <3>2. /\ \A q \in RequestNo : q # r => gw'[o].refunds[q] = gw[o].refunds[q]
          /\ gw'[o].refunds[r] = outcome
      BY <3>1 DEF Books
    <3>3. \A q \in RequestNo : q > pay[o].req => q # r
      BY <2>4 DEF Unasked
    <3>4. Unasked(o)'
      BY <2>1, <3>1, <3>2, <3>3 DEF Unasked
    <3>5. SplitIsKnown(o)' /\ (Called(o)' <=> Called(o))
      BY <2>1, <3>1 DEF SplitIsKnown, Called
    <3>6. /\ \A q \in RequestNo : gw[o].refunds[q] \in {"processing", "success"} => q = r
          /\ Called(o) => gw[o].returned
          /\ gw[o].returned => Called(o)
      BY <2>4 DEF RefundIsKnown
    <3>7. pay[o].status # "refunded"
      <4>1. pay[o].status = "refunded" =>
               pay[o].req \in RequestNo /\ gw[o].refunds[pay[o].req] = "success"
        BY PaymentsAssumption DEF Fits, RefundIsKnown, Payment, RequestNo
      <4> QED BY <2>4, <3>6, <4>1
    <3>8. ASSUME NEW q \in RequestNo, gw'[o].refunds[q] \in {"processing", "success"}
          PROVE  q = r /\ outcome = "success"
      BY <2>1, <3>2, <3>6, <3>8
    <3>9. RefundIsKnown(o)'
      BY <2>1, <3>1, <3>5, <3>6, <3>7, <3>8 DEF RefundIsKnown
    <3>10. \A n \in wire : n.order = o /\ n.kind = "refund" => n.req # r
      BY <2>4 DEF InStep
    <3> QED BY <2>1, <2>2, <3>1, <3>2, <3>4, <3>5, <3>9, <3>10, GatewayChanges
  <2> QED BY <1>4, <2>3, <2>4 DEF GatewayFinishes
<1> QED BY <1>1, <1>2, <1>3, <1>4 DEF GatewayStep

LEMMA BooksStep ==
    ASSUME BooksInv, TypeOK, [PayNext]_allVars
    PROVE  BooksInv'
<1>0. PayTypeOK /\ PayTypeOK'
  BY PayTypeStep DEF BooksInv
<1>1. \A x \in Orders : ToldRightly(x)'
  BY ToldStep
<1> USE BooksFacts
<1>2. ASSUME UNCHANGED <<pay, settle, gw>>, wire' \subseteq wire PROVE BooksInv'
  <2>1. \A m \in wire' : InStep(m)'
    BY <1>2 DEF BooksInv, InStep, Called
  <2>2. \A x \in Orders : Fits(x)' /\ Unasked(x)' /\ SplitIsKnown(x)' /\ RefundIsKnown(x)'
    BY <1>2 DEF Fits, Unasked, SplitIsKnown, RefundIsKnown, Called
  <2>3. Distinct(wire)'
    BY <1>2 DEF BooksInv, Distinct
  <2> QED BY <1>0, <1>1, <2>1, <2>2, <2>3 DEF BooksInv, Known
<1>3. ASSUME NEW o \in Orders, Pay(o) \/ ExecuteRefund(o) PROVE BooksInv'
  <2>1. /\ UNCHANGED <<settle, gw, wire>>
        /\ \/ pay[o].status = "none" /\ pay' = [pay EXCEPT ![o].status = "pending"]
           \/ /\ pay[o].status = "paid" /\ pay' = [pay EXCEPT ![o].refund = "pending"]
    BY <1>3 DEF Pay, ExecuteRefund, Refundable
  <2>2. /\ \A x \in Orders \ {o} : pay'[x] = pay[x]
        /\ pay'[o].req = pay[o].req
        /\ pay'[o].status = "refunded" <=> pay[o].status = "refunded"
        /\ \/ /\ pay[o].status = "none" /\ pay'[o].status = "pending"
              /\ pay'[o].refund = pay[o].refund
           \/ /\ pay[o].status = "paid" /\ pay'[o].status = "paid"
              /\ pay'[o].refund = "pending"
    BY <1>0, <2>1 DEF PayTypeOK, Payment
  <2>3. Fits(o)'
    BY <2>1, <2>2 DEF Fits
  <2>4. SplitIsKnown(o)' /\ RefundIsKnown(o)' /\ (Called(o)' <=> Called(o))
    BY <2>1, <2>2 DEF SplitIsKnown, RefundIsKnown, Called
  <2> QED BY <1>0, <1>1, <2>1, <2>2, <2>3, <2>4, RowsChange
<1>4. ASSUME NEW o \in Orders, GatewayTakesMoney(o) PROVE BooksInv'
  <2>1. /\ UNCHANGED <<pay, settle, wire>>
        /\ \A x \in Orders \ {o} : gw'[x] = gw[x]
        /\ gw'[o].divides = gw[o].divides /\ gw'[o].refunds = gw[o].refunds
        /\ gw'[o].returned = gw[o].returned
    BY <1>0, <1>4 DEF GatewayTakesMoney, PayTypeOK, Books
  <2>2. Unasked(o)' /\ SplitIsKnown(o)' /\ RefundIsKnown(o)'
    BY <2>1 DEF Unasked, SplitIsKnown, RefundIsKnown, Called
  <2> QED BY <1>0, <1>1, <2>1, <2>2, GatewayChanges
<1>5. ASSUME NEW o \in Orders, TakenForFailed(o) PROVE BooksInv'
  <2>1. /\ UNCHANGED <<gw, wire>>
        /\ \A x \in Orders \ {o} : pay'[x] = pay[x] /\ settle'[x] = settle[x]
        /\ pay'[o].req = pay[o].req /\ settle'[o].req = settle[o].req
        /\ pay'[o].status = pay[o].status
        /\ \/ /\ settle[o].status = "processing" /\ settle'[o].status = "failed"
              /\ pay'[o].refund = pay[o].refund
           \/ /\ pay[o].refund = "processing" /\ pay'[o].refund = "failed"
              /\ settle'[o].status = settle[o].status
    BY <1>0, <1>5 DEF TakenForFailed, PayTypeOK, Payment, Settlement
  <2>2. Fits(o)'
    BY <2>1 DEF Fits
  <2>3. SplitIsKnown(o)' /\ RefundIsKnown(o)' /\ (Called(o)' <=> Called(o))
    BY <2>1 DEF SplitIsKnown, RefundIsKnown, Called
  <2> QED BY <1>0, <1>1, <2>1, <2>2, <2>3, RowsChange
<1>6. CASE QueueCancelledPaidRefunds
  <2>1. /\ UNCHANGED <<settle, gw, wire>>
        /\ \A x \in Orders :
              /\ pay'[x].req = pay[x].req
              /\ \/ pay'[x] = pay[x]
                 \/ /\ pay[x].refund = "none" /\ pay[x].status = "paid"
                    /\ pay'[x].status = "paid" /\ pay'[x].refund = "pending"
    BY <1>6 DEF QueueCancelledPaidRefunds, ClosedUnstarted, Payment
  <2>2. ASSUME NEW x \in Orders PROVE Known(x)'
    <3>1. Fits(x)' /\ Unasked(x)'
      BY <2>1 DEF Fits, Unasked
    <3>2. SplitIsKnown(x)' /\ RefundIsKnown(x)'
      BY <2>1 DEF SplitIsKnown, RefundIsKnown, Called
    <3> QED BY <3>1, <3>2 DEF Known
  <2>3. ASSUME NEW m \in wire' PROVE InStep(m)'
    <3>1. InStep(m) /\ m.order \in Orders
      BY <2>1 DEF BooksInv, PayTypeOK, Request
    <3> QED BY <2>1, <3>1 DEF InStep, Called
  <2>4. Distinct(wire)'
    BY <2>1 DEF BooksInv, Distinct
  <2> QED BY <1>0, <1>1, <2>2, <2>3, <2>4 DEF BooksInv
<1>7. CASE UNCHANGED payVars
  BY <1>2, <1>7 DEF payVars
<1>8. ASSUME NEW s \in Suppliers, BoardMerchant(s) PROVE BooksInv'
  BY <1>2, <1>8 DEF BoardMerchant
<1>9. ASSUME NEW m \in wire, LoseRequest(m) PROVE BooksInv'
  BY <1>2, <1>9 DEF LoseRequest
<1>10. CASE ServerCrash
  BY <1>2, <1>10 DEF ServerCrash
<1>11. ASSUME NEW o \in Orders, ServiceStep(o) \/ GatewayStep(o) PROVE BooksInv'
  BY <1>0, <1>1, <1>11, ServiceKeepsBooks, GatewayKeepsBooks
<1> QED BY <1>3, <1>4, <1>5, <1>6, <1>7, <1>8, <1>9, <1>10, <1>11
        DEF PayNext, PaymentStep, allVars, payVars

LEMMA BooksInit == PayInit => BooksInv
<1> SUFFICES ASSUME PayInit PROVE BooksInv
  OBVIOUS
<1>1. PayTypeOK
  BY PayTypeInit DEF PayInit
<1>2. ASSUME NEW o \in Orders PROVE Known(o)
  <2>1. /\ pay[o] = NoPayment /\ settle[o] = NoSettlement /\ gw[o] = NoBooks
    BY DEF PayInit, MoneyInit
  <2> QED BY <2>1 DEF NoPayment, NoSettlement, NoBooks, Known, Fits, Unasked, SplitIsKnown,
          RefundIsKnown, Called
<1>3. \A o \in Orders : ToldRightly(o)
  BY DEF PayInit, Init, NoOrder, MoneyInit, ToldRightly
<1> QED BY <1>1, <1>2, <1>3 DEF BooksInv, PayInit, MoneyInit, Distinct

LEMMA BooksSuffice == BooksInv => BooksAgree
<1> SUFFICES ASSUME BooksInv PROVE BooksAgree
  OBVIOUS
<1> USE BooksFacts
<1>1. PaidSharesArePaid
  BY DEF PaidSharesArePaid, SplitIsKnown, Called
<1>2. RefundsWaitForSplits
  BY DEF RefundsWaitForSplits, Fits
<1>3. RefundedIsPaidBack
  BY DEF RefundedIsPaidBack, BooksInv, ToldRightly, RefundIsKnown
<1>4. ASSUME NEW o \in Orders
      PROVE  /\ AnyOf(gw[o].refunds, {"success"}) /\ Called(o) => gw[o].returned
             /\ gw[o].returned => Called(o)
             /\ pay[o].status = "refunded" => (settle[o].status = "reversed" <=> gw[o].returned)
  <2>1. AnyOf(gw[o].refunds, {"success"}) /\ Called(o) => gw[o].returned
    BY DEF AnyOf, RefundIsKnown
  <2>2. pay[o].status = "refunded" => AnyOf(gw[o].refunds, {"success"})
    <3>1. pay[o].status = "refunded" => pay[o].req \in RequestNo
      BY PaymentsAssumption DEF Fits, Payment, RequestNo
    <3> QED BY <3>1 DEF RefundIsKnown, AnyOf
  <2>3. gw[o].returned => Called(o)
    BY DEF RefundIsKnown
  <2>4. pay[o].status = "refunded" => (Called(o) <=> settle[o].status = "reversed")
    BY DEF RefundIsKnown, Called
  <2> QED BY <2>1, <2>2, <2>3, <2>4
<1>5. SharesComeBack
  BY <1>4 DEF SharesComeBack, Called
<1> QED BY <1>1, <1>2, <1>3, <1>5 DEF BooksAgree

\* What the books of the platform say was done, was done, whatever is lost, late, repeated or
\* taken for a failure between the service and the gateway: shares called paid were paid, no
\* refund is sent while a split is called under way, what is called refunded went back, and
\* with it what the supplier was called paid (applyDivideResult, applyRefundResult, trySplit,
\* submitRefund, SetRefundHook).
THEOREM TheBooksAgree == PaySpec => []BooksAgree
<1>1. BooksInv /\ TypeOK /\ [PayNext]_allVars => BooksInv'
  BY BooksStep
<1>2. PaySpec => []TypeOK
  BY PaymentsImplementOrders, TypeCorrect, PTL DEF OrdersAreObeyed
<1> QED BY <1>1, <1>2, BooksInit, BooksSuffice, PTL DEF PaySpec

-----------------------------------------------------------------------------
(* Suppliers are paid for service *)

\* A lease that is or was in use has a start, and a restart keeps the one it replaced.
Begun(o) ==
    /\ ord[o].status = "none" => ord[o].start = None
    /\ ~IsRenewal(o) /\ ord[o].status \in {"active", "completed"} => ord[o].start # None
    /\ IsRenewal(o) /\ ren[o].mode = "restart" /\ ren[o].applied => ren[o].prevStart # None

BegunInv == \A o \in Orders : Begun(o)

\* What any step leaves of the marks that o was served: a start is only given up for a restart.
MarksStay(o) ==
    /\ ord[o].status # "none" => ren'[o].parent = ren[o].parent
    /\ IsRenewal(o) => /\ ren'[o].mode = ren[o].mode
                       /\ ren[o].applied => ren'[o].applied
                       /\ ren[o].confirmed => ren'[o].confirmed
    /\ ~IsRenewal(o) /\ ord[o].start # None =>
          \/ ord'[o].start # None
          \/ \E c \in Children(o) : ren[c].mode = "restart" /\ ren'[c].applied

ServedInv ==
    /\ \A m \in wire : m.kind = "divide" => Served(m.order)
    /\ SuppliersArePaidForService

\* Steps that change a status at most, and begin nothing.
LEMMA StatusLeavesMarks ==
    ASSUME BegunInv, ren' = ren,
           \A x \in Orders :
              /\ ord'[x].start = ord[x].start
              /\ \/ ord'[x].status = ord[x].status
                 \/ /\ ord[x].status # "none" /\ ord'[x].status # "none"
                    /\ \/ ord'[x].status \notin {"active", "completed"}
                       \/ ord[x].status = "active"
    PROVE  BegunInv' /\ \A x \in Orders : MarksStay(x)
<1>1. \A x \in Orders : MarksStay(x)
  BY DEF MarksStay, IsRenewal
<1>2. \A x \in Orders : Begun(x)'
  BY DEF BegunInv, Begun, IsRenewal
<1> QED BY <1>1, <1>2 DEF BegunInv

\* What closing the unpaid renewals of a lease does to any order.
LEMMA CancelledRow ==
    ASSUME TypeOK, NEW o \in Orders, NEW x \in Orders
    PROVE  /\ WithCancelled(OpenRenewals(o)) \in [Orders -> Order]
           /\ WithCancelled(OpenRenewals(o))[x].start = ord[x].start
           /\ \/ WithCancelled(OpenRenewals(o))[x].status = ord[x].status
              \/ /\ ord[x].status = "pending_payment"
                 /\ WithCancelled(OpenRenewals(o))[x].status = "cancelled"
<1>1. CASE x \in OpenRenewals(o)
  <2>1. ord[x].status = "pending_payment" /\ ord[x] \in Order
    BY <1>1 DEF OpenRenewals, TypeOK
  <2>2. WithCancelled(OpenRenewals(o))[x] = [ord[x] EXCEPT !.status = "cancelled", !.reserved = 0]
    BY <1>1 DEF WithCancelled, Emptied
  <2> QED BY <2>1, <2>2, WithCancelledType DEF Order
<1>2. CASE x \notin OpenRenewals(o)
  BY <1>2, WithCancelledType DEF WithCancelled
<1> QED BY <1>1, <1>2

LEMMA CloseOrderLeavesMarks ==
    ASSUME TypeOK, BegunInv, NEW o \in Orders, NEW status, status # "none",
           CloseOrder(o, status), ord[o].status # "none",
           status = "completed" => ord[o].status = "active", status # "active"
    PROVE  BegunInv' /\ \A x \in Orders : MarksStay(x)
<1>1. ren' = ren
  BY DEF CloseOrder
<1>2. PICK W \in [Orders -> Order] :
         /\ ord' = [W EXCEPT ![o] = Emptied(o, status)]
         /\ \A x \in Orders : /\ W[x].start = ord[x].start
                              /\ \/ W[x].status = ord[x].status
                                 \/ W[x].status = "cancelled" /\ ord[x].status = "pending_payment"
  <2>1. CASE IsRenewal(o)
    <3>1. WithCancelled({}) = ord
      BY DEF WithCancelled, TypeOK
    <3> QED BY <2>1, <3>1 DEF CloseOrder, TypeOK
  <2>2. CASE ~IsRenewal(o)
    <3>1. ord' = [WithCancelled(OpenRenewals(o)) EXCEPT ![o] = Emptied(o, status)]
      BY <2>2 DEF CloseOrder
    <3> QED BY <3>1, CancelledRow, ZenonT(40)
  <2> QED BY <2>1, <2>2
<1>3. ASSUME NEW x \in Orders
      PROVE  /\ ord'[x].start = ord[x].start
             /\ \/ ord'[x].status = ord[x].status
                \/ /\ ord[x].status # "none" /\ ord'[x].status # "none"
                   /\ \/ ord'[x].status \notin {"active", "completed"}
                      \/ ord[x].status = "active"
  <2>1. CASE x = o
    BY <1>2, <2>1 DEF Emptied, TypeOK, Order
  <2>2. CASE x # o
    BY <1>2, <2>2
  <2> QED BY <2>1, <2>2
<1> QED BY <1>1, <1>3, StatusLeavesMarks

LEMMA StatusStepsLeaveMarks ==
    ASSUME TypeOK, BegunInv, NEW o \in Orders,
           \/ CancelBuyerOrder(o) \/ AdminCancelOrder(o) \/ FreezeOrder(o) \/ RequestRefund(o)
           \/ ConfirmPayment(o) \/ \E lease \in Orders : DeliverWithAccess(o, lease)
    PROVE  BegunInv' /\ \A x \in Orders : MarksStay(x)
<1>1. CASE CancelBuyerOrder(o) \/ AdminCancelOrder(o)
  BY <1>1, CloseOrderLeavesMarks DEF CancelBuyerOrder, AdminCancelOrder
<1>2. CASE FreezeOrder(o) \/ RequestRefund(o)
  <2>1. \E W \in [Orders -> Order], status \in {"frozen", "refunding"} :
           /\ ren' = ren /\ ord[o].status # "none"
           /\ ord' = [W EXCEPT ![o].status = status]
           /\ \A x \in Orders : /\ W[x].start = ord[x].start
                                /\ \/ W[x].status = ord[x].status
                                   \/ /\ W[x].status = "cancelled"
                                      /\ ord[x].status = "pending_payment"
    <3>1. CASE FreezeOrder(o) /\ IsRenewal(o)
      <4>1. WithCancelled({}) = ord
        BY DEF WithCancelled, TypeOK
      <4> QED BY <3>1, <4>1 DEF FreezeOrder, TypeOK
    <3>2. CASE FreezeOrder(o) /\ ~IsRenewal(o)
      <4>1. /\ ord' = [WithCancelled(OpenRenewals(o)) EXCEPT ![o].status = "frozen"]
            /\ ren' = ren /\ ord[o].status # "none"
        BY <3>2 DEF FreezeOrder
      <4> DEFINE W == WithCancelled(OpenRenewals(o))
      <4>2. /\ W \in [Orders -> Order]
            /\ \A x \in Orders : /\ W[x].start = ord[x].start
                                 /\ \/ W[x].status = ord[x].status
                                    \/ /\ W[x].status = "cancelled"
                                       /\ ord[x].status = "pending_payment"
        BY CancelledRow
      <4>3. ord' = [W EXCEPT ![o].status = "frozen"]
        BY <4>1
      <4> HIDE DEF W
      <4> QED BY <4>1, <4>2, <4>3
    <3>3. CASE RequestRefund(o)
      <4>1. PICK p : /\ p = IF IsRenewal(o) THEN ren[o].parent ELSE o
                     /\ p \in Orders
        BY DEF IsRenewal, TypeOK, Renewal
      <4>2. /\ ord' = [WithCancelled(OpenRenewals(p)) EXCEPT ![o].status = "refunding"]
            /\ ren' = ren /\ ord[o].status # "none"
        BY <3>3, <4>1 DEF RequestRefund
      <4> DEFINE W == WithCancelled(OpenRenewals(p))
      <4>3. /\ W \in [Orders -> Order]
            /\ \A x \in Orders : /\ W[x].start = ord[x].start
                                 /\ \/ W[x].status = ord[x].status
                                    \/ /\ W[x].status = "cancelled"
                                       /\ ord[x].status = "pending_payment"
        BY <4>1, CancelledRow
      <4>4. ord' = [W EXCEPT ![o].status = "refunding"]
        BY <4>2
      <4> HIDE DEF W
      <4> QED BY <4>2, <4>3, <4>4
    <3> QED BY <1>2, <3>1, <3>2, <3>3
  <2>2. PICK W \in [Orders -> Order], status \in {"frozen", "refunding"} :
           /\ ren' = ren /\ ord[o].status # "none"
           /\ ord' = [W EXCEPT ![o].status = status]
           /\ \A x \in Orders : /\ W[x].start = ord[x].start
                                /\ \/ W[x].status = ord[x].status
                                   \/ /\ W[x].status = "cancelled"
                                      /\ ord[x].status = "pending_payment"
    BY <2>1
  <2>3. ASSUME NEW x \in Orders
        PROVE  /\ ord'[x].start = ord[x].start
               /\ \/ ord'[x].status = ord[x].status
                  \/ /\ ord[x].status # "none" /\ ord'[x].status # "none"
                     /\ ord'[x].status \notin {"active", "completed"}
    <3>1. CASE x = o
      BY <2>2, <3>1 DEF Order
    <3>2. CASE x # o
      BY <2>2, <3>2
    <3> QED BY <3>1, <3>2
  <2> QED BY <2>2, <2>3, StatusLeavesMarks
<1>3. CASE ConfirmPayment(o) \/ \E lease \in Orders : DeliverWithAccess(o, lease)
  <2>1. /\ ren' = ren /\ ord[o].status # "none"
        /\ \/ ord' = [ord EXCEPT ![o].status = "paid"]
           \/ ord' = [ord EXCEPT ![o].status = "provisioning"]
    BY <1>3 DEF ConfirmPayment, DeliverWithAccess
  <2>2. ASSUME NEW x \in Orders
        PROVE  /\ ord'[x].start = ord[x].start
               /\ \/ ord'[x].status = ord[x].status
                  \/ /\ ord[x].status # "none" /\ ord'[x].status # "none"
                     /\ ord'[x].status \notin {"active", "completed"}
    BY <2>1 DEF TypeOK, Order
  <2> QED BY <2>1, <2>2, StatusLeavesMarks
<1> QED BY <1>1, <1>2, <1>3

LEMMA NewOrdersLeaveMarks ==
    ASSUME TypeOK, FamiliesAreFlat, BegunInv, NEW o \in Orders, ord[o].status = "none",
           NEW row, row.status = "pending_payment", row.start = None,
           NEW link, ~link.applied,
           ord' = [ord EXCEPT ![o] = row],
           ren' = ren \/ ren' = [ren EXCEPT ![o] = link]
    PROVE  BegunInv' /\ \A x \in Orders : MarksStay(x)
<1>1. ~IsRenewal(o) /\ ord[o].start = None
  BY DEF FamiliesAreFlat, BegunInv, Begun
<1>2. /\ ord'[o].status = "pending_payment" /\ ord'[o].start = None
      /\ ren'[o] = ren[o] \/ ~ren'[o].applied
      /\ \A x \in Orders \ {o} : ord'[x] = ord[x] /\ ren'[x] = ren[x]
  BY DEF TypeOK
<1>3. ASSUME NEW x \in Orders PROVE Begun(x)' /\ MarksStay(x)
  <2>1. CASE x = o
    BY <1>1, <1>2, <2>1 DEF Begun, MarksStay, IsRenewal
  <2>2. CASE x # o
    BY <1>2, <2>2 DEF BegunInv, Begun, MarksStay, IsRenewal
  <2> QED BY <2>1, <2>2
<1> QED BY <1>3 DEF BegunInv

LEMMA PlacingLeavesMarks ==
    ASSUME TypeOK, FamiliesAreFlat, BegunInv, NEW o \in Orders,
           \/ \E p \in Products, q \in 1..MaxOrderQuantity, d \in Durations :
                 PlaceOrder(o, p, q, d)
           \/ \E par \in Orders, d \in Durations :
                 RenewByExtension(o, par, d) \/ RenewByRestart(o, par, d)
    PROVE  BegunInv' /\ \A x \in Orders : MarksStay(x)
<1>1. ord[o].status = "none"
  BY DEF PlaceOrder, RenewByExtension, RenewByRestart, IsNextOrder
<1>2. ASSUME NEW p \in Products, NEW q \in 1..MaxOrderQuantity, NEW d \in Durations,
             PlaceOrder(o, p, q, d)
      PROVE  \E row, link : /\ row.status = "pending_payment" /\ row.start = None
                            /\ ~link.applied
                            /\ ord' = [ord EXCEPT ![o] = row]
                            /\ ren' = ren
  <2> DEFINE row == [status |-> "pending_payment", product |-> p, qty |-> q, reserved |-> q,
                     dur |-> d, unit |-> prod[p].unit, payExp |-> now + PayWindow,
                     start |-> None, end |-> None]
  <2>1. ord' = [ord EXCEPT ![o] = row] /\ ren' = ren
    BY <1>2 DEF PlaceOrder
  <2>2. row.status = "pending_payment" /\ row.start = None /\ ~NoRenewal.applied
    BY DEF NoRenewal
  <2> HIDE DEF row
  <2> QED BY <2>1, <2>2
<1>3. ASSUME NEW par \in Orders, NEW d \in Durations,
             RenewByExtension(o, par, d) \/ RenewByRestart(o, par, d)
      PROVE  \E row, link : /\ row.status = "pending_payment" /\ row.start = None
                            /\ ~link.applied
                            /\ ord' = [ord EXCEPT ![o] = row]
                            /\ ren' = [ren EXCEPT ![o] = link]
  <2>1. ASSUME NEW reserved, NEW payExp, NEW link, ~link.applied,
               ord' = [ord EXCEPT ![o] = NewRenewalOrder(par, reserved, d, payExp)],
               ren' = [ren EXCEPT ![o] = link]
        PROVE  \E row, l : /\ row.status = "pending_payment" /\ row.start = None
                           /\ ~l.applied
                           /\ ord' = [ord EXCEPT ![o] = row]
                           /\ ren' = [ren EXCEPT ![o] = l]
    <3> DEFINE row == NewRenewalOrder(par, reserved, d, payExp)
    <3>1. row.status = "pending_payment" /\ row.start = None
      BY DEF NewRenewalOrder
    <3>2. ord' = [ord EXCEPT ![o] = row]
      BY <2>1
    <3> HIDE DEF row
    <3> QED BY <2>1, <3>1, <3>2
  <2>2. CASE RenewByExtension(o, par, d)
    <3> DEFINE link == [NoRenewal EXCEPT !.parent = par, !.mode = "extend",
                          !.oldEnd = ord[par].end, !.until = RenewedUntil(par, d)]
    <3>1. ~link.applied
      BY DEF NoRenewal
    <3>2. /\ ren' = [ren EXCEPT ![o] = link]
          /\ ord' = [ord EXCEPT ![o] =
                       NewRenewalOrder(par, 0, d, Lower(now + PayWindow, ord[par].end))]
      BY <2>2 DEF RenewByExtension
    <3> HIDE DEF link
    <3> QED BY <2>1, <3>1, <3>2
  <2>3. CASE RenewByRestart(o, par, d)
    <3> DEFINE link == [NoRenewal EXCEPT !.parent = par, !.mode = "restart",
                                         !.oldEnd = ord[par].end]
               taken == IF ord[par].reserved = 0 THEN ord[par].qty ELSE 0
    <3>1. ~link.applied
      BY DEF NoRenewal
    <3>2. /\ ren' = [ren EXCEPT ![o] = link]
          /\ ord' = [ord EXCEPT ![o] = NewRenewalOrder(par, taken, d, now + PayWindow)]
      BY <2>3 DEF RenewByRestart
    <3> HIDE DEF link, taken
    <3> QED BY <2>1, <3>1, <3>2
  <2> QED BY <1>3, <2>2, <2>3
<1> QED BY <1>1, <1>2, <1>3, NewOrdersLeaveMarks

LEMMA ConfirmDeliveryLeavesMarks ==
    ASSUME TypeOK, BegunInv, NEW o \in Orders, NEW lease \in Orders, ConfirmDelivery(o, lease)
    PROVE  BegunInv' /\ \A x \in Orders : MarksStay(x)
<1>1. /\ ~IsRenewal(o) /\ ord[o].status = "provisioning" /\ now # None
      /\ lease # o => IsRenewal(lease) /\ ord[lease].status \in {"completed", "refunding"}
  BY DEF ConfirmDelivery, IsLeaseOrder, Restarts, Children, IsRenewal, TypeOK, None, Orders
<1>2. /\ ord'[o].status = "active" /\ ord'[o].start = now
      /\ lease # o => ord'[lease].status = ord[lease].status /\ ord'[lease].start = now
      /\ \A x \in Orders \ {o, lease} : ord'[x] = ord[x]
  BY DEF ConfirmDelivery, TypeOK, Order
<1>3. /\ \A x \in Orders \ {lease} : ren'[x] = ren[x]
      /\ ren'[lease].parent = ren[lease].parent /\ ren'[lease].mode = ren[lease].mode
      /\ ren'[lease].applied = ren[lease].applied
      /\ ren'[lease].prevStart = ren[lease].prevStart
      /\ ren[lease].confirmed => ren'[lease].confirmed
  BY DEF ConfirmDelivery, TypeOK, Renewal
<1>4. ASSUME NEW x \in Orders PROVE Begun(x)' /\ MarksStay(x)
  <2>1. CASE x = o
    BY <1>1, <1>2, <1>3, <2>1 DEF Begun, MarksStay, IsRenewal
  <2>2. CASE x = lease /\ lease # o
    BY <1>1, <1>2, <1>3, <2>2 DEF BegunInv, Begun, MarksStay, IsRenewal
  <2>3. CASE x # o /\ x # lease
    BY <1>2, <1>3, <2>3 DEF BegunInv, Begun, MarksStay, IsRenewal
  <2> QED BY <2>1, <2>2, <2>3
<1> QED BY <1>4 DEF BegunInv

LEMMA ApplyLeavesMarks ==
    ASSUME TypeOK, FamiliesAreFlat, BegunInv, NEW c \in Orders, ApplyExtension(c) \/ ApplyRestart(c)
    PROVE  BegunInv' /\ \A x \in Orders : MarksStay(x)
<1> DEFINE p == ren[c].parent
<1>1. /\ p \in Orders /\ p # c /\ IsRenewal(c) /\ ~IsRenewal(p) /\ ord[p].status # "none"
      /\ ord[c].status = "pending_payment"
  BY DEF ApplyExtension, ApplyRestart, FamiliesAreFlat, TypeOK, Renewal, IsRenewal
<1>2. /\ \A x \in Orders \ {c} : ren'[x] = ren[x]
      /\ ren'[c].parent = p /\ ren'[c].mode = ren[c].mode /\ ren'[c].applied
      /\ ren'[c].confirmed = ren[c].confirmed
      /\ ren[c].mode = "restart" => ren'[c].prevStart = ord[p].start
  BY DEF ApplyExtension, ApplyRestart, TypeOK, Renewal
<1>3. c \in Children(p)
  BY DEF Children
<1> HIDE DEF p
<1>4. CASE ApplyExtension(c)
  <2>1. /\ ren[c].mode = "extend"
        /\ ord' = [ord EXCEPT ![p].end = ren[c].until,
                              ![c] = [ord[c] EXCEPT !.status = "completed", !.reserved = 0,
                                             !.start = ren[c].oldEnd, !.end = ren[c].until]]
    BY <1>4 DEF ApplyExtension, p
  <2>2. /\ ord'[c] = [ord[c] EXCEPT !.status = "completed", !.reserved = 0,
                                    !.start = ren[c].oldEnd, !.end = ren[c].until]
        /\ ord'[p].start = ord[p].start /\ ord'[p].status = ord[p].status
        /\ \A x \in Orders \ {c, p} : ord'[x] = ord[x]
    BY <1>1, <2>1 DEF TypeOK, Order
  <2>3. ord'[c].status = "completed"
    BY <2>2 DEF TypeOK, Order
  <2>4. ASSUME NEW x \in Orders PROVE Begun(x)' /\ MarksStay(x)
    <3>1. CASE x = c
      BY <1>1, <1>2, <2>1, <2>3, <3>1 DEF Begun, MarksStay, IsRenewal, p
    <3>2. CASE x = p
      BY <1>1, <1>2, <2>2, <3>2 DEF BegunInv, Begun, MarksStay, IsRenewal
    <3>3. CASE x # c /\ x # p
      BY <1>2, <2>2, <3>3 DEF BegunInv, Begun, MarksStay, IsRenewal
    <3> QED BY <3>1, <3>2, <3>3
  <2> QED BY <2>4 DEF BegunInv
<1>5. CASE ApplyRestart(c)
  <2>1. /\ ren[c].mode = "restart" /\ ord[p].status \in {"active", "completed"}
        /\ ord' = [ord EXCEPT ![p] = [ord[p] EXCEPT !.status = "paid", !.reserved = ord[c].qty,
                                                    !.start = None, !.end = None],
                              ![c] = [ord[c] EXCEPT !.status = "completed", !.reserved = 0,
                                                    !.start = None, !.end = None]]
    BY <1>5 DEF ApplyRestart, ValidRenewalPayment, p
  <2>2. /\ ord'[c] = [ord[c] EXCEPT !.status = "completed", !.reserved = 0,
                                    !.start = None, !.end = None]
        /\ ord'[p] = [ord[p] EXCEPT !.status = "paid", !.reserved = ord[c].qty,
                                    !.start = None, !.end = None]
        /\ \A x \in Orders \ {c, p} : ord'[x] = ord[x]
    BY <1>1, <2>1 DEF TypeOK
  <2>3. ord'[c].status = "completed" /\ ord'[p].status = "paid"
    BY <1>1, <2>2 DEF TypeOK, Order
  <2>4. ord[p].start # None
    BY <1>1, <2>1 DEF BegunInv, Begun
  <2>5. ASSUME NEW x \in Orders PROVE Begun(x)' /\ MarksStay(x)
    <3>1. CASE x = c
      BY <1>1, <1>2, <2>1, <2>3, <2>4, <3>1 DEF Begun, MarksStay, IsRenewal, p
    <3>2. CASE x = p
      BY <1>1, <1>2, <1>3, <2>1, <2>3, <3>2 DEF Begun, MarksStay, IsRenewal
    <3>3. CASE x # c /\ x # p
      BY <1>2, <2>2, <3>3 DEF BegunInv, Begun, MarksStay, IsRenewal
    <3> QED BY <3>1, <3>2, <3>3
  <2> QED BY <2>5 DEF BegunInv
<1> QED BY <1>4, <1>5

LEMMA CompleteRefundLeavesMarks ==
    ASSUME TypeOK, FamiliesAreFlat, BegunInv, NEW c \in Orders, CompleteRefund(c)
    PROVE  BegunInv' /\ \A x \in Orders : MarksStay(x)
<1>1. CASE CloseOrder(c, "refunded") /\ ord[c].status = "refunding"
  BY <1>1, CloseOrderLeavesMarks
<1>2. CASE IsRenewal(c) /\ (RefundExtension(c) \/ RefundRestart(c))
  <2> DEFINE p == ren[c].parent
             W == WithCancelled(OpenRenewals(p))
  <2>1. /\ p \in Orders /\ p # c /\ ~IsRenewal(p) /\ ord[p].status # "none"
        /\ ord[c].status # "none" /\ UnusedRenewal(c) /\ ren' = ren
    BY <1>2 DEF RefundExtension, RefundRestart, FamiliesAreFlat, TypeOK, Renewal, IsRenewal
  <2>2. /\ W \in [Orders -> Order]
        /\ \A x \in Orders : /\ W[x].start = ord[x].start
                             /\ \/ W[x].status = ord[x].status
                                \/ W[x].status = "cancelled" /\ ord[x].status = "pending_payment"
    BY <2>1, CancelledRow
  <2>3. W[p] = ord[p]
    BY <2>1 DEF WithCancelled, OpenRenewals, Children, IsRenewal, Orders
  <2>4. Emptied(c, "refunded") = [ord[c] EXCEPT !.status = "refunded", !.reserved = 0]
    BY DEF Emptied
  <2>5. CASE RefundExtension(c)
    <3>1. ord' = [W EXCEPT ![p].end = ren[c].oldEnd, ![c] = Emptied(c, "refunded")]
      BY <2>5 DEF RefundExtension
    <3> HIDE DEF W, p
    <3>2. ASSUME NEW x \in Orders
          PROVE  /\ ord'[x].start = ord[x].start
                 /\ \/ ord'[x].status = ord[x].status
                    \/ /\ ord[x].status # "none" /\ ord'[x].status # "none"
                       /\ ord'[x].status \notin {"active", "completed"}
      <4>1. CASE x = c
        <5>1. ord'[x] = [ord[c] EXCEPT !.status = "refunded", !.reserved = 0]
          BY <2>1, <2>2, <2>4, <3>1, <4>1
        <5> QED BY <2>1, <4>1, <5>1 DEF TypeOK, Order
      <4>2. CASE x = p
        BY <2>1, <2>2, <2>3, <3>1, <4>2 DEF Order
      <4>3. CASE x # c /\ x # p
        <5>1. ord'[x] = W[x]
          BY <2>2, <3>1, <4>3
        <5> QED BY <2>2, <5>1
      <4> QED BY <4>1, <4>2, <4>3
    <3> QED BY <2>1, <3>2, StatusLeavesMarks
  <2>6. CASE RefundRestart(c)
    <3> DEFINE back == [Emptied(p, "completed") EXCEPT !.start = ren[c].prevStart,
                                                      !.end = ren[c].oldEnd]
    <3>1. ord' = [W EXCEPT ![p] = back, ![c] = Emptied(c, "refunded")] /\ ren[c].mode = "restart"
      BY <2>6 DEF RefundRestart
    <3>2. back.status = "completed" /\ back.start = ren[c].prevStart
      BY <2>1 DEF Emptied, TypeOK, Order
    <3>3. ren[c].prevStart # None
      BY <1>2, <2>1, <3>1 DEF BegunInv, Begun, UnusedRenewal
    <3> HIDE DEF W, p, back
    <3>4. ord'[p] = back
      BY <2>1, <2>2, <3>1
    <3>5. ord'[c] = [ord[c] EXCEPT !.status = "refunded", !.reserved = 0]
      BY <2>1, <2>2, <2>4, <3>1
    <3>6. ord'[c].status = "refunded" /\ ord'[c].start = ord[c].start
      BY <3>5 DEF TypeOK, Order
    <3>7. \A x \in Orders \ {c, p} : ord'[x] = W[x]
      BY <2>2, <3>1
    <3>8. ASSUME NEW x \in Orders PROVE Begun(x)' /\ MarksStay(x)
      <4>1. CASE x = c
        BY <1>2, <2>1, <3>6, <4>1 DEF BegunInv, Begun, MarksStay, IsRenewal
      <4>2. CASE x = p
        BY <2>1, <3>2, <3>3, <3>4, <4>2 DEF BegunInv, Begun, MarksStay, IsRenewal
      <4>3. CASE x # c /\ x # p
        BY <2>1, <2>2, <3>7, <4>3 DEF BegunInv, Begun, MarksStay, IsRenewal
      <4> QED BY <4>1, <4>2, <4>3
    <3> QED BY <3>8 DEF BegunInv
  <2> QED BY <1>2, <2>5, <2>6
<1> QED BY <1>1, <1>2 DEF CompleteRefund

LEMMA MarksStep ==
    ASSUME TypeOK, FamiliesAreFlat, BegunInv, [Next]_vars
    PROVE  BegunInv' /\ \A x \in Orders : MarksStay(x)
<1>1. ASSUME ord' = ord, ren' = ren PROVE BegunInv' /\ \A x \in Orders : MarksStay(x)
  BY <1>1, StatusLeavesMarks
<1>2. ASSUME NEW o \in Orders, TradeStep(o) PROVE BegunInv' /\ \A x \in Orders : MarksStay(x)
  BY <1>2, PlacingLeavesMarks, ConfirmDeliveryLeavesMarks, StatusStepsLeaveMarks DEF TradeStep
<1>3. ASSUME NEW o \in Orders, PaymentArrives(o)
      PROVE  BegunInv' /\ \A x \in Orders : MarksStay(x)
  BY <1>3, ApplyLeavesMarks, StatusStepsLeaveMarks DEF PaymentArrives
<1>4. ASSUME NEW o \in todo, CloseExpiredUnpaid(o) \/ CompleteExpiredLease(o)
      PROVE  BegunInv' /\ \A x \in Orders : MarksStay(x)
  <2>1. o \in Orders
    BY DEF TypeOK
  <2>2. \/ CloseOrder(o, "cancelled") /\ ord[o].status = "pending_payment"
        \/ CloseOrder(o, "completed") /\ ord[o].status = "active"
        \/ ord' = ord /\ ren' = ren
    BY <1>4 DEF CloseExpiredUnpaid, CompleteExpiredLease, LeaseIsOver
  <2> QED BY <1>1, <2>1, <2>2, CloseOrderLeavesMarks
<1>5. ASSUME JobStep PROVE BegunInv' /\ \A x \in Orders : MarksStay(x)
  BY <1>1, <1>4, <1>5 DEF JobStep, RevokeExpiredAccess, ListExpiredUnpaid, ListExpiredLeases,
     FinishRound
<1>6. ASSUME NEW p \in Products, SupplierStep(p) PROVE BegunInv' /\ \A x \in Orders : MarksStay(x)
  BY <1>1, <1>6 DEF SupplierStep, CreateProduct, ResubmitProduct, ReviewProduct, OfflineProduct,
     SupplierOfflineProduct, SyncResource
<1>7. CASE \/ UNCHANGED vars
           \/ \E s \in Suppliers : FreezeListings(s)
           \/ Crash \/ Tick
  BY <1>1, <1>7 DEF vars, FreezeListings, Crash, Tick
<1> QED BY <1>2, <1>3, <1>5, <1>6, <1>7, CompleteRefundLeavesMarks DEF Next, OrderStep

\* Who was served stays served.
LEMMA ServedStays ==
    ASSUME TypeOK, FamiliesAreFlat, BegunInv, NEW o \in Orders, Served(o),
           \A x \in Orders : MarksStay(x)
    PROVE  Served(o)'
<1>1. CASE IsRenewal(o)
  <2>1. ord[o].status # "none"
    BY <1>1 DEF FamiliesAreFlat
  <2>2. IsRenewal(o)'
    BY <1>1, <2>1 DEF MarksStay, IsRenewal
  <2> QED BY <1>1, <2>2 DEF Served, MarksStay
<1>2. CASE ~IsRenewal(o)
  <2>1. ASSUME NEW c \in Orders, ren[c].parent = o
        PROVE  /\ IsRenewal(c) /\ ord[c].status # "none" /\ ord[o].status # "none"
               /\ ren'[c].parent = o /\ ren'[c].mode = ren[c].mode
    BY <2>1 DEF FamiliesAreFlat, IsRenewal, Orders, MarksStay
  <2>2. ord[o].status # "none"
    BY <1>2, <2>1 DEF Served, Children, BegunInv, Begun
  <2>3. ~IsRenewal(o)'
    BY <1>2, <2>2 DEF MarksStay, IsRenewal
  <2>4. CASE \E c \in Children(o) : ren[c].mode = "restart" /\ ren'[c].applied
    BY <2>1, <2>3, <2>4 DEF Served, Children
  <2>5. CASE ord'[o].start # None
    BY <2>3, <2>5 DEF Served
  <2>6. ASSUME NEW c \in Children(o), ren[c].mode = "restart", ren[c].applied
        PROVE  ren'[c].applied
    BY <2>1, <2>6 DEF Children, MarksStay
  <2> QED BY <1>2, <2>4, <2>5, <2>6 DEF Served, MarksStay
<1> QED BY <1>1, <1>2

\* What may be split was served.
LEMMA EligibleIsServed ==
    ASSUME TypeOK, FamiliesAreFlat, HoldInv, OpenInv, BegunInv, NEW o \in Orders, SplitEligible(o)
    PROVE  Served(o)
<1>1. CASE ~IsRenewal(o)
  BY <1>1 DEF SplitEligible, BegunInv, Begun, Served
<1>2. CASE IsRenewal(o)
  <2> DEFINE p == ren[o].parent
  <2>1. p \in Orders /\ o \in Children(p) /\ ord[p].status \in {"active", "completed"}
    BY <1>2 DEF TypeOK, Renewal, IsRenewal, Children, SplitEligible
  <2>2. ord[o].status = "completed"
    BY <1>2 DEF HoldInv, RenewalHolds, SplitEligible, Waiting, Ended
  <2>3. RenewalIsGood(o, p)
    BY <2>1 DEF OpenInv, FamilyIsGood
  <2>4. ren[o].applied
    BY <2>2, <2>3 DEF RenewalIsGood, RowIsGood
  <2>5. ren[o].mode = "restart" => ren[o].confirmed
    BY <2>1, <2>2, <2>3 DEF RenewalIsGood, RestartIsGood, Counts
  <2>6. ren[o].mode \in {"extend", "restart"}
    BY DEF TypeOK, Renewal
  <2> QED BY <1>2, <2>4, <2>5, <2>6 DEF Served
<1> QED BY <1>1, <1>2

\* A split is requested for what is eligible, and the gateway divides what was requested.
LEMMA SplitsAreRequested ==
    ASSUME PayTypeOK, [PayNext]_allVars
    PROVE  /\ \A m \in wire' : m.kind = "divide" =>
                 m \in wire \/ (m.order \in Orders /\ SplitEligible(m.order))
           /\ \A o \in Orders : AnyOf(gw'[o].divides, {"processing", "success"}) =>
                 \/ AnyOf(gw[o].divides, {"processing", "success"})
                 \/ \E m \in wire : m.kind = "divide" /\ m.order = o
<1>1. ASSUME wire' \subseteq wire, gw' = gw
      PROVE  /\ \A m \in wire' : m \in wire
             /\ \A o \in Orders : gw'[o] = gw[o]
  BY <1>1
<1>2. ASSUME NEW o \in Orders, TrySplit(o)
      PROVE  gw' = gw /\ \A m \in wire' : m.kind = "divide" =>
                m \in wire \/ (m.order \in Orders /\ SplitEligible(m.order))
  <2> DEFINE m == [kind |-> "divide", order |-> o, req |-> settle[o].req + 1, back |-> FALSE]
  <2>1. wire' = wire \cup {m} /\ SplitEligible(o) /\ gw' = gw
    BY <1>2 DEF TrySplit
  <2>2. m.order = o
    OBVIOUS
  <2> HIDE DEF m
  <2> QED BY <2>1, <2>2
<1>3. ASSUME NEW o \in Orders, SubmitRefund(o)
      PROVE  gw' = gw /\ \A m \in wire' : m.kind = "divide" => m \in wire
  <2> DEFINE back == settle[o].status = "success"
             m == [kind |-> "refund", order |-> o, req |-> pay[o].req + 1, back |-> back]
  <2>1. wire' = wire \cup {m} /\ gw' = gw
    BY <1>3 DEF SubmitRefund
  <2>2. m.kind = "refund"
    OBVIOUS
  <2> HIDE DEF m
  <2> QED BY <2>1, <2>2
<1>4. ASSUME NEW o \in Orders, ServiceStep(o), ~TrySplit(o), ~SubmitRefund(o)
      PROVE  wire' = wire /\ gw' = gw
  BY <1>4 DEF ServiceStep, AcceptPayment, RefusePayment, MarkCleared, ApplyDivideResult,
     RefundSucceeded, RefundFailed, RefundHook
<1>5. ASSUME NEW o \in Orders, GatewayStep(o) \/ GatewayTakesMoney(o)
      PROVE  /\ wire' \subseteq wire
             /\ \A x \in Orders : AnyOf(gw'[x].divides, {"processing", "success"}) =>
                   \/ AnyOf(gw[x].divides, {"processing", "success"})
                   \/ \E m \in wire : m.kind = "divide" /\ m.order = x
  <2>1. CASE GatewayClears(o) \/ GatewayTakesMoney(o)
    <3>1. wire' = wire
      BY <2>1 DEF GatewayClears, GatewayTakesMoney
    <3>2. \/ gw' = [gw EXCEPT ![o].cleared = TRUE]
          \/ gw' = [gw EXCEPT ![o].paid = TRUE]
      BY <2>1 DEF GatewayClears, GatewayTakesMoney
    <3>3. ASSUME NEW x \in Orders PROVE gw'[x].divides = gw[x].divides
      <4>1. CASE x = o
        BY <3>2, <4>1 DEF PayTypeOK, Books
      <4>2. CASE x # o
        BY <3>2, <4>2 DEF PayTypeOK
      <4> QED BY <4>1, <4>2
    <3> QED BY <3>1, <3>3
  <2>2. ASSUME NEW m \in wire, NEW outcome \in Outcome, m.order = o, GatewayDivides(m, outcome)
        PROVE  /\ wire' \subseteq wire /\ m.kind = "divide"
               /\ \A x \in Orders : x # o => gw'[x].divides = gw[x].divides
    BY <2>2 DEF GatewayDivides, PayTypeOK
  <2>3. ASSUME NEW m \in wire, NEW outcome \in Outcome, m.order = o, GatewayRefunds(m, outcome)
        PROVE  /\ wire' \subseteq wire
               /\ \A x \in Orders : gw'[x].divides = gw[x].divides
    BY <2>3 DEF GatewayRefunds, PayTypeOK, Books
  <2>4. ASSUME NEW r \in RequestNo, NEW outcome \in Outcome, GatewayFinishes(o, r, outcome)
        PROVE  /\ wire' \subseteq wire
               /\ \A x \in Orders : \/ gw'[x].divides = gw[x].divides
                                    \/ AnyOf(gw[x].divides, {"processing", "success"})
    <3>1. wire' = wire
      BY <2>4 DEF GatewayFinishes
    <3>2. CASE gw[o].divides[r] = "processing" /\ gw' = [gw EXCEPT ![o].divides[r] = outcome]
      BY <3>1, <3>2 DEF AnyOf, PayTypeOK
    <3>3. CASE gw' = [gw EXCEPT ![o].refunds[r] = outcome,
                                ![o].returned = gw[o].returned /\ outcome = "success"]
      BY <3>1, <3>3 DEF PayTypeOK, Books
    <3> QED BY <2>4, <3>2, <3>3 DEF GatewayFinishes
  <2> QED BY <1>5, <2>1, <2>2, <2>3, <2>4 DEF GatewayStep
<1>6. ASSUME NEW o \in Orders, Pay(o) \/ ExecuteRefund(o) \/ TakenForFailed(o)
      PROVE  wire' = wire /\ gw' = gw
  BY <1>6 DEF Pay, ExecuteRefund, TakenForFailed
<1>7. ASSUME NEW s \in Suppliers, BoardMerchant(s) PROVE wire' = wire /\ gw' = gw
  BY <1>7 DEF BoardMerchant
<1>8. ASSUME NEW m \in wire, LoseRequest(m) PROVE wire' \subseteq wire /\ gw' = gw
  BY <1>8 DEF LoseRequest
<1>9. ASSUME QueueCancelledPaidRefunds \/ ServerCrash \/ UNCHANGED payVars
      PROVE  wire' \subseteq wire /\ gw' = gw
  BY <1>9 DEF QueueCancelledPaidRefunds, ServerCrash, payVars
<1> QED BY <1>1, <1>2, <1>3, <1>4, <1>5, <1>6, <1>7, <1>8, <1>9
        DEF PayNext, PaymentStep, allVars, payVars

LEMMA ServedStep ==
    ASSUME TypeOK, FamiliesAreFlat, HoldInv, OpenInv, BegunInv, PayTypeOK, ServedInv,
           [PayNext]_allVars
    PROVE  BegunInv' /\ ServedInv'
<1>1. BegunInv' /\ \A x \in Orders : MarksStay(x)
  BY StepImplements, MarksStep
<1>2. \A o \in Orders : Served(o) => Served(o)'
  BY <1>1, ServedStays
<1>3. ASSUME NEW m \in wire', m.kind = "divide" PROVE Served(m.order)'
  <2>1. CASE m \in wire
    <3>1. m.order \in Orders /\ Served(m.order)
      BY <1>3, <2>1 DEF ServedInv, PayTypeOK, Request
    <3> QED BY <1>2, <3>1
  <2>2. CASE m \notin wire
    <3>1. m.order \in Orders /\ SplitEligible(m.order)
      BY <1>3, <2>2, SplitsAreRequested
    <3> QED BY <1>2, <3>1, EligibleIsServed
  <2> QED BY <2>1, <2>2
<1>4. ASSUME NEW o \in Orders, AnyOf(gw'[o].divides, {"processing", "success"})
      PROVE  Served(o)'
  <2>1. Served(o)
    BY <1>4, SplitsAreRequested DEF ServedInv, SuppliersArePaidForService
  <2> QED BY <1>2, <2>1
<1>5. SuppliersArePaidForService'
  BY <1>4 DEF SuppliersArePaidForService, AnyOf
<1> QED BY <1>1, <1>3, <1>5 DEF ServedInv

\* A supplier is paid only for a lease that has begun, for any number of leases, renewals and
\* requests, and however late a split that was requested reaches the gateway: neither a refund
\* nor a restart makes unserved again what was served (splitEligible, ConfirmDelivery,
\* ApplyRenewalPaymentTx).
THEOREM SuppliersArePaidWhatTheyServed == PaySpec => []SuppliersArePaidForService
<1>1. PayInit => BegunInv /\ ServedInv
  <2> SUFFICES ASSUME PayInit PROVE BegunInv /\ ServedInv
    OBVIOUS
  <2>1. BegunInv
    BY DEF PayInit, Init, NoOrder, NoRenewal, IsRenewal, BegunInv, Begun
  <2>2. ServedInv
    BY DEF PayInit, MoneyInit, NoBooks, ServedInv, SuppliersArePaidForService, AnyOf
  <2> QED BY <2>1, <2>2
<1>2. TypeOK /\ FamiliesAreFlat /\ HoldInv /\ OpenInv /\ PayTypeOK /\ BegunInv /\ ServedInv
        /\ [PayNext]_allVars => BegunInv' /\ ServedInv'
  BY ServedStep
<1>3. PaySpec => [](StockInv /\ AccessInv /\ HoldInv /\ OpenInv)
  BY PaymentsImplementOrders, OrdersStayGood, PTL DEF OrdersAreObeyed
<1>4. StockInv => TypeOK /\ FamiliesAreFlat
  BY DEF StockInv
<1>5. ServedInv => SuppliersArePaidForService
  BY DEF ServedInv
<1> QED BY <1>1, <1>2, <1>3, <1>4, <1>5, PaymentsTypeCorrect, PTL DEF PaySpec

-----------------------------------------------------------------------------
(* Leases in use are paid *)

Unpaid == {"pending_payment", "cancelled", "frozen"}
GivenBack == {"refunding", "refunded"}

\* What money and refunds say of the order they are for.
Funded(o) ==
    /\ pay[o].status = "none" => ord[o].status \in Unpaid \cup {"none"}
    /\ pay[o].status = "pending" => ord[o].status \in Unpaid
    /\ pay[o].status \in {"none", "pending"} => pay[o].refund = "none"
    /\ pay[o].status \in {"paid", "refunded"} => gw[o].paid
    /\ pay[o].refund # "none" => ord[o].status \in Unpaid \cup GivenBack
    /\ pay[o].refund = "none" =>
          /\ \A r \in RequestNo : gw[o].refunds[r] = "none"
          /\ \A m \in wire : m.order = o => m.kind # "refund"

FundInv == \A o \in Orders : Funded(o)

\* What happens to the status of an order without a payment for it.
Drifts(x) ==
    /\ ord[x].status = "none" => ord'[x].status \in {"none", "pending_payment"}
    /\ ord[x].status \in Unpaid => ord'[x].status \in Unpaid
    /\ ord[x].status \in GivenBack => ord'[x].status \in GivenBack
    /\ ord'[x].status = "pending_payment" => ord[x].status \in {"none", "pending_payment"}

LEMMA CloseDrifts ==
    ASSUME TypeOK, NEW o \in Orders, NEW status, CloseOrder(o, status),
           \/ status = "cancelled" /\ ord[o].status \notin {"none", "refunding", "refunded"}
           \/ status = "completed" /\ ord[o].status = "active"
           \/ status = "refunded" /\ ord[o].status = "refunding",
           NEW x \in Orders
    PROVE  Drifts(x)
<1>1. PICK W \in [Orders -> Order] :
         /\ ord' = [W EXCEPT ![o] = Emptied(o, status)]
         /\ \/ W[x].status = ord[x].status
            \/ W[x].status = "cancelled" /\ ord[x].status = "pending_payment"
  <2>1. CASE IsRenewal(o)
    <3>1. WithCancelled({}) = ord
      BY DEF WithCancelled, TypeOK
    <3> QED BY <2>1, <3>1 DEF CloseOrder, TypeOK
  <2>2. CASE ~IsRenewal(o)
    <3>1. ord' = [WithCancelled(OpenRenewals(o)) EXCEPT ![o] = Emptied(o, status)]
      BY <2>2 DEF CloseOrder
    <3> QED BY <3>1, CancelledRow
  <2> QED BY <2>1, <2>2
<1>2. CASE x = o
  <2>1. ord'[x].status = status
    BY <1>1, <1>2 DEF Emptied, TypeOK, Order
  <2> QED BY <1>2, <2>1 DEF Drifts, Unpaid, GivenBack
<1>3. CASE x # o
  BY <1>1, <1>3 DEF Drifts, Unpaid, GivenBack
<1> QED BY <1>2, <1>3

LEMMA NewOrdersDrift ==
    ASSUME TypeOK, NEW o \in Orders, ord[o].status = "none",
           NEW row, row.status = "pending_payment", ord' = [ord EXCEPT ![o] = row],
           NEW x \in Orders
    PROVE  Drifts(x)
<1>1. CASE x = o
  BY <1>1 DEF Drifts, Unpaid, GivenBack, TypeOK
<1>2. CASE x # o
  BY <1>2 DEF Drifts, TypeOK
<1> QED BY <1>1, <1>2

LEMMA TradeDrifts ==
    ASSUME TypeOK, NEW o \in Orders, TradeStep(o), NEW x \in Orders
    PROVE  Drifts(x)
<1> USE DEF TypeOK, Order
<1>1. ASSUME NEW p \in Products, NEW q \in 1..MaxOrderQuantity, NEW d \in Durations,
             PlaceOrder(o, p, q, d)
      PROVE  Drifts(x)
  <2> DEFINE row == [status |-> "pending_payment", product |-> p, qty |-> q, reserved |-> q,
                     dur |-> d, unit |-> prod[p].unit, payExp |-> now + PayWindow,
                     start |-> None, end |-> None]
  <2>1. ord' = [ord EXCEPT ![o] = row] /\ row.status = "pending_payment"
    BY <1>1 DEF PlaceOrder
  <2>2. ord[o].status = "none"
    BY <1>1 DEF PlaceOrder, IsNextOrder
  <2> HIDE DEF row
  <2> QED BY <2>1, <2>2, NewOrdersDrift
<1>2. ASSUME NEW lease \in Orders, DeliverWithAccess(o, lease) \/ ConfirmDelivery(o, lease)
      PROVE  Drifts(x)
  <2>1. CASE DeliverWithAccess(o, lease)
    BY <2>1 DEF DeliverWithAccess, Drifts, Unpaid, GivenBack
  <2>2. CASE ConfirmDelivery(o, lease)
    <3>1. /\ ord[o].status = "provisioning"
          /\ \/ x = o /\ ord'[x].status = "active"
             \/ ord'[x].status = ord[x].status
      BY <2>2 DEF ConfirmDelivery
    <3> QED BY <3>1 DEF Drifts, Unpaid, GivenBack
  <2> QED BY <1>2, <2>1, <2>2
<1>3. ASSUME NEW par \in Orders, NEW d \in Durations,
             RenewByExtension(o, par, d) \/ RenewByRestart(o, par, d)
      PROVE  Drifts(x)
  <2>1. ASSUME NEW reserved, NEW payExp, NEW row,
               row = NewRenewalOrder(par, reserved, d, payExp), ord' = [ord EXCEPT ![o] = row]
        PROVE  Drifts(x)
    <3>1. row.status = "pending_payment"
      BY <2>1 DEF NewRenewalOrder
    <3>2. ord[o].status = "none"
      BY <1>3 DEF RenewByExtension, RenewByRestart, IsNextOrder
    <3> QED BY <2>1, <3>1, <3>2, NewOrdersDrift
  <2> QED BY <1>3, <2>1 DEF RenewByExtension, RenewByRestart
<1>4. CASE CancelBuyerOrder(o) \/ AdminCancelOrder(o)
  BY <1>4, CloseDrifts DEF CancelBuyerOrder, AdminCancelOrder
<1>5. CASE FreezeOrder(o) \/ RequestRefund(o)
  <2>1. \E W \in [Orders -> Order], status \in {"frozen", "refunding"} :
           /\ ord' = [W EXCEPT ![o].status = status]
           /\ \/ W[x].status = ord[x].status
              \/ W[x].status = "cancelled" /\ ord[x].status = "pending_payment"
           /\ ord[o].status \notin {"none", "refunding", "refunded", "frozen", "cancelled"}
           /\ status = "refunding" => ord[o].status # "pending_payment"
    <3>1. CASE FreezeOrder(o)
      <4>1. ord[o].status \in {"pending_payment", "paid", "provisioning", "active"}
        BY <3>1 DEF FreezeOrder
      <4>2. CASE IsRenewal(o)
        <5>1. WithCancelled({}) = ord
          BY DEF WithCancelled
        <5>2. ord' = [ord EXCEPT ![o].status = "frozen"]
          BY <3>1, <4>2, <5>1 DEF FreezeOrder
        <5> QED BY <4>1, <5>2
      <4>3. CASE ~IsRenewal(o)
        <5>1. ord' = [WithCancelled(OpenRenewals(o)) EXCEPT ![o].status = "frozen"]
          BY <3>1, <4>3 DEF FreezeOrder
        <5> QED BY <4>1, <5>1, CancelledRow, ZenonT(40)
      <4> QED BY <4>2, <4>3
    <3>2. CASE RequestRefund(o)
      <4> DEFINE l == IF IsRenewal(o) THEN ren[o].parent ELSE o
      <4>1. ord' = [WithCancelled(OpenRenewals(l)) EXCEPT ![o].status = "refunding"]
        BY <3>2 DEF RequestRefund
      <4>2. l \in Orders
        BY DEF IsRenewal, Renewal
      <4>3. ord[o].status \in {"completed", "active", "paid", "provisioning"}
        BY <3>2 DEF RequestRefund
      <4> HIDE DEF l
      <4> QED BY <4>1, <4>2, <4>3, CancelledRow, ZenonT(40)
    <3> QED BY <1>5, <3>1, <3>2
  <2>2. CASE x = o
    BY <2>1, <2>2 DEF Drifts, Unpaid, GivenBack
  <2>3. CASE x # o
    BY <2>1, <2>3 DEF Drifts, Unpaid, GivenBack
  <2> QED BY <2>2, <2>3
<1> QED BY <1>1, <1>2, <1>3, <1>4, <1>5 DEF TradeStep

LEMMA JobDrifts ==
    ASSUME TypeOK, JobStep, NEW x \in Orders
    PROVE  Drifts(x)
<1>1. CASE RevokeExpiredAccess \/ ListExpiredUnpaid \/ ListExpiredLeases \/ FinishRound
  BY <1>1 DEF RevokeExpiredAccess, ListExpiredUnpaid, ListExpiredLeases, FinishRound, Drifts
<1>2. ASSUME NEW o \in todo, CloseExpiredUnpaid(o) \/ CompleteExpiredLease(o)
      PROVE  Drifts(x)
  <2>1. o \in Orders
    BY DEF TypeOK
  <2>2. \/ CloseOrder(o, "cancelled") /\ ord[o].status = "pending_payment"
        \/ CloseOrder(o, "completed") /\ ord[o].status = "active"
        \/ ord' = ord
    BY <1>2 DEF CloseExpiredUnpaid, CompleteExpiredLease, LeaseIsOver
  <2>3. ord' = ord => Drifts(x)
    BY DEF Drifts
  <2> QED BY <2>1, <2>2, <2>3, CloseDrifts
<1> QED BY <1>1, <1>2 DEF JobStep

LEMMA HookDrifts ==
    ASSUME TypeOK, FamiliesAreFlat, NEW c \in Orders, CompleteRefund(c), NEW x \in Orders
    PROVE  Drifts(x)
<1>1. ord[c].status = "refunding"
  BY DEF CompleteRefund
<1>2. CASE CloseOrder(c, "refunded")
  BY <1>1, <1>2, CloseDrifts
<1>3. CASE IsRenewal(c) /\ (RefundExtension(c) \/ RefundRestart(c))
  <2> DEFINE p == ren[c].parent
             W == WithCancelled(OpenRenewals(p))
  <2>1. p \in Orders /\ p # c
    BY <1>3 DEF FamiliesAreFlat, TypeOK, Renewal, IsRenewal
  <2>2. /\ W \in [Orders -> Order]
        /\ \/ W[x].status = ord[x].status
           \/ W[x].status = "cancelled" /\ ord[x].status = "pending_payment"
    BY <2>1, CancelledRow
  <2>3. Emptied(c, "refunded").status = "refunded"
    BY DEF Emptied, TypeOK, Order
  <2>4. CASE RefundExtension(c)
    <3>1. ord' = [W EXCEPT ![p].end = ren[c].oldEnd, ![c] = Emptied(c, "refunded")]
      BY <2>4 DEF RefundExtension
    <3> HIDE DEF W, p
    <3>2. ord'[x].status = IF x = c THEN "refunded" ELSE W[x].status
      BY <2>1, <2>2, <2>3, <3>1 DEF Order
    <3> QED BY <1>1, <2>2, <3>2 DEF Drifts, Unpaid, GivenBack
  <2>5. CASE RefundRestart(c)
    <3> DEFINE back == [Emptied(p, "completed") EXCEPT !.start = ren[c].prevStart,
                                                      !.end = ren[c].oldEnd]
    <3>1. ord' = [W EXCEPT ![p] = back, ![c] = Emptied(c, "refunded")]
      BY <2>5 DEF RefundRestart
    <3>2. back.status = "completed"
      BY <2>1 DEF Emptied, TypeOK, Order
    <3>3. ord[p].status \in {"paid", "provisioning"}
      BY <2>5 DEF RefundRestart, UnusedRenewal
    <3> HIDE DEF W, p, back
    <3>4. ord'[x].status = IF x = c THEN "refunded"
                           ELSE IF x = p THEN "completed" ELSE W[x].status
      BY <2>1, <2>2, <2>3, <3>1, <3>2
    <3> QED BY <1>1, <2>2, <3>3, <3>4 DEF Drifts, Unpaid, GivenBack
  <2> QED BY <1>3, <2>4, <2>5
<1> QED BY <1>2, <1>3 DEF CompleteRefund

LEMMA OthersDrift ==
    ASSUME TypeOK, FamiliesAreFlat, NEW o \in Orders, PaymentArrives(o),
           NEW x \in Orders, x # o
    PROVE  Drifts(x)
<1>1. CASE ConfirmPayment(o)
  BY <1>1 DEF ConfirmPayment, Drifts, TypeOK
<1>2. CASE ApplyExtension(o) \/ ApplyRestart(o)
  <2> DEFINE p == ren[o].parent
  <2>1. p \in Orders /\ ord[p].status \in {"active", "completed"}
    BY <1>2 DEF ApplyExtension, ApplyRestart, ValidRenewalPayment, TypeOK, Renewal, IsRenewal
  <2>2. CASE ApplyExtension(o)
    <3>1. ord' = [ord EXCEPT ![p].end = ren[o].until,
                             ![o] = [ord[o] EXCEPT !.status = "completed", !.reserved = 0,
                                             !.start = ren[o].oldEnd, !.end = ren[o].until]]
      BY <2>2 DEF ApplyExtension
    <3> HIDE DEF p
    <3>2. ord'[x].status = ord[x].status
      BY <2>1, <3>1 DEF TypeOK, Order
    <3> QED BY <3>2 DEF Drifts
  <2>3. CASE ApplyRestart(o)
    <3>1. ord' = [ord EXCEPT ![p] = [ord[p] EXCEPT !.status = "paid", !.reserved = ord[o].qty,
                                                    !.start = None, !.end = None],
                             ![o] = [ord[o] EXCEPT !.status = "completed", !.reserved = 0,
                                                   !.start = None, !.end = None]]
      BY <2>3 DEF ApplyRestart
    <3> HIDE DEF p
    <3>2. (x # p => ord'[x] = ord[x]) /\ (x = p => ord'[x].status = "paid")
      <4>1. x # p => ord'[x] = ord[x]
        BY <3>1 DEF TypeOK
      <4>2. x = p => ord'[x].status = "paid"
        BY <3>1 DEF TypeOK, Order
      <4> QED BY <4>1, <4>2
    <3> QED BY <2>1, <3>2 DEF Drifts, Unpaid, GivenBack
  <2> QED BY <1>2, <2>2, <2>3
<1> QED BY <1>1, <1>2 DEF PaymentArrives


\* A step that starts neither a payment nor a refund of x keeps what is known of its money.
LEMMA FundsStay ==
    ASSUME NEW x \in Orders, Funded(x), Drifts(x),
           pay'[x].status = pay[x].status, pay'[x].refund = pay[x].refund,
           gw[x].paid => gw'[x].paid,
           gw'[x].refunds = gw[x].refunds \/ pay[x].refund # "none",
           \A m \in wire' : m.order = x => m.kind # "refund" \/ m \in wire
    PROVE  Funded(x)'
<1>1. pay'[x].refund = "none" =>
        /\ \A r \in RequestNo : gw'[x].refunds[r] = "none"
        /\ \A m \in wire' : m.order = x => m.kind # "refund"
  BY DEF Funded
<1>2. /\ pay'[x].status = "none" => ord'[x].status \in Unpaid \cup {"none"}
      /\ pay'[x].status = "pending" => ord'[x].status \in Unpaid
      /\ pay'[x].refund # "none" => ord'[x].status \in Unpaid \cup GivenBack
  BY DEF Funded, Drifts, Unpaid
<1>3. /\ pay'[x].status \in {"none", "pending"} => pay'[x].refund = "none"
      /\ pay'[x].status \in {"paid", "refunded"} => gw'[x].paid
  BY DEF Funded
<1> QED BY <1>1, <1>2, <1>3 DEF Funded

LEMMA ServiceKeepsFunds ==
    ASSUME FundInv, TypeOK, FamiliesAreFlat, PayTypeOK, NEW o \in Orders, ServiceStep(o)
    PROVE  FundInv'
<1>0. \A x \in Orders : Funded(x) /\ pay[x] \in Payment
  BY DEF FundInv, PayTypeOK
<1>1. ord' = ord => \A x \in Orders : Drifts(x)
  BY DEF Drifts
<1>2. CASE AcceptPayment(o) \/ RefusePayment(o)
  <2>1. /\ gw' = gw /\ wire' = wire /\ gw[o].paid /\ pay[o].status = "pending"
        /\ \A x \in Orders \ {o} : pay'[x] = pay[x]
        /\ pay'[o].status = "paid"
        /\ \/ pay'[o].refund = pay[o].refund
           \/ pay'[o].refund = "pending" /\ ord' = ord
    <3>1. CASE AcceptPayment(o)
      BY <3>1 DEF AcceptPayment, PayTypeOK, Payment
    <3>2. CASE RefusePayment(o)
      BY <3>2 DEF RefusePayment, ReturnPayment, PayTypeOK, Payment, vars
    <3> QED BY <1>2, <3>1, <3>2
  <2>2. \A x \in Orders \ {o} : Drifts(x)
    BY <1>1, <1>2, OthersDrift DEF AcceptPayment, RefusePayment, vars
  <2>3. pay[o].refund = "none" /\ ord[o].status \in Unpaid
    BY <1>0, <2>1 DEF Funded
  <2>4. Funded(o)'
    <3>1. pay'[o].refund = "none" =>
            /\ \A r \in RequestNo : gw'[o].refunds[r] = "none"
            /\ \A m \in wire' : m.order = o => m.kind # "refund"
      BY <1>0, <2>1, <2>3 DEF Funded
    <3>2. pay'[o].refund # "none" => ord'[o].status \in Unpaid
      BY <2>1, <2>3
    <3> QED BY <2>1, <3>1, <3>2 DEF Funded
  <2>5. \A x \in Orders \ {o} : Funded(x)'
    BY <1>0, <2>1, <2>2, FundsStay
  <2> QED BY <2>4, <2>5 DEF FundInv
<1>3. CASE MarkCleared(o) \/ TrySplit(o) \/ \E status \in {"success", "failed"} :
              ApplyDivideResult(o, status)
  <2>1. /\ gw' = gw /\ ord' = ord
        /\ \A x \in Orders : pay'[x].status = pay[x].status /\ pay'[x].refund = pay[x].refund
        /\ \A m \in wire' : m \in wire \/ m.kind = "divide"
    BY <1>3 DEF MarkCleared, TrySplit, ApplyDivideResult, PayTypeOK, Payment, vars
  <2>2. \A x \in Orders : Funded(x)'
    BY <1>0, <1>1, <2>1, FundsStay
  <2> QED BY <2>2 DEF FundInv
<1>4. CASE SubmitRefund(o) \/ RefundSucceeded(o) \/ RefundFailed(o)
  <2>1. /\ gw' = gw /\ ord' = ord
        /\ \A x \in Orders \ {o} : pay'[x] = pay[x]
        /\ \A m \in wire' : m \in wire \/ m.order = o
        /\ pay'[o].refund # "none"
        /\ \/ pay'[o].status = pay[o].status
           \/ pay[o].status = "paid" /\ pay'[o].status = "refunded"
    BY <1>4 DEF SubmitRefund, RefundSucceeded, RefundFailed, PayTypeOK, Payment, vars
  <2>2. pay[o].refund # "none"
    <3>1. CASE SubmitRefund(o) \/ RefundFailed(o)
      BY <3>1 DEF SubmitRefund, RefundFailed
    <3>2. CASE RefundSucceeded(o)
      <4>1. gw[o].refunds[pay[o].req] = "success" /\ pay[o].req \in RequestNo
        BY <1>0, <3>2 DEF RefundSucceeded, PaidBack, RequestNo, Payment, PaymentsAssumption
      <4> QED BY <1>0, <4>1 DEF Funded
    <3> QED BY <1>4, <3>1, <3>2
  <2>3. Funded(o)'
    BY <1>0, <2>1, <2>2 DEF Funded
  <2>4. \A x \in Orders \ {o} : Funded(x)'
    BY <1>0, <1>1, <2>1, FundsStay
  <2> QED BY <2>3, <2>4 DEF FundInv
<1>5. CASE RefundHook(o)
  <2>1. pay' = pay /\ gw' = gw /\ wire' = wire /\ (CompleteRefund(o) \/ ord' = ord)
    BY <1>5 DEF RefundHook, TellOrder, vars
  <2>2. \A x \in Orders : Drifts(x)
    BY <1>1, <2>1, HookDrifts
  <2>3. \A x \in Orders : Funded(x)'
    BY <1>0, <2>1, <2>2, FundsStay
  <2> QED BY <2>3 DEF FundInv
<1> QED BY <1>2, <1>3, <1>4, <1>5 DEF ServiceStep

LEMMA GatewayKeepsFunds ==
    ASSUME FundInv, PayTypeOK, NEW o \in Orders, GatewayStep(o)
    PROVE  FundInv'
<1>0. \A x \in Orders : Funded(x)
  BY DEF FundInv
<1>1. pay' = pay /\ ord' = ord /\ wire' \subseteq wire
  BY DEF GatewayStep, GatewayClears, GatewayDivides, GatewayRefunds, GatewayFinishes, vars
<1>2. \A x \in Orders : Drifts(x)
  BY <1>1 DEF Drifts
<1>3. /\ \A x \in Orders \ {o} : gw'[x] = gw[x]
      /\ gw'[o].paid = gw[o].paid
      /\ gw'[o].refunds = gw[o].refunds \/ pay[o].refund # "none"
  <2>1. CASE GatewayClears(o)
    BY <2>1 DEF GatewayClears, PayTypeOK, Books
  <2>2. ASSUME NEW m \in wire, NEW outcome \in Outcome, m.order = o, GatewayDivides(m, outcome)
        PROVE  /\ \A x \in Orders \ {o} : gw'[x] = gw[x]
               /\ gw'[o].paid = gw[o].paid /\ gw'[o].refunds = gw[o].refunds
    BY <2>2 DEF GatewayDivides, PayTypeOK, Books
  <2>3. ASSUME NEW m \in wire, NEW outcome \in Outcome, m.order = o, GatewayRefunds(m, outcome)
        PROVE  /\ \A x \in Orders \ {o} : gw'[x] = gw[x]
               /\ gw'[o].paid = gw[o].paid /\ pay[o].refund # "none"
    <3>1. pay[o].refund # "none"
      BY <1>0, <2>3 DEF GatewayRefunds, Funded
    <3> QED BY <2>3, <3>1 DEF GatewayRefunds, PayTypeOK, Books
  <2>4. ASSUME NEW r \in RequestNo, NEW outcome \in Outcome, GatewayFinishes(o, r, outcome)
        PROVE  /\ \A x \in Orders \ {o} : gw'[x] = gw[x]
               /\ gw'[o].paid = gw[o].paid
               /\ gw'[o].refunds = gw[o].refunds \/ pay[o].refund # "none"
    <3>1. CASE gw' = [gw EXCEPT ![o].divides[r] = outcome]
      BY <3>1 DEF PayTypeOK, Books
    <3>2. CASE /\ gw[o].refunds[r] = "processing"
               /\ gw' = [gw EXCEPT ![o].refunds[r] = outcome,
                                   ![o].returned = gw[o].returned /\ outcome = "success"]
      <4>1. pay[o].refund # "none"
        BY <1>0, <3>2 DEF Funded
      <4> QED BY <3>2, <4>1 DEF PayTypeOK, Books
    <3> QED BY <2>4, <3>1, <3>2 DEF GatewayFinishes
  <2> QED BY <2>1, <2>2, <2>3, <2>4 DEF GatewayStep
<1>4. \A x \in Orders : Funded(x)'
  BY <1>0, <1>1, <1>2, <1>3, FundsStay
<1> QED BY <1>4 DEF FundInv

LEMMA FundStep ==
    ASSUME FundInv, TypeOK, FamiliesAreFlat, PayTypeOK, [PayNext]_allVars
    PROVE  FundInv'
<1>0. \A x \in Orders : Funded(x) /\ pay[x] \in Payment
  BY DEF FundInv, PayTypeOK
<1>1. ord' = ord => \A x \in Orders : Drifts(x)
  BY DEF Drifts
<1>2. ASSUME \A x \in Orders : Drifts(x), pay' = pay, gw' = gw, wire' \subseteq wire
      PROVE  FundInv'
  <2>1. \A x \in Orders : Funded(x)'
    BY <1>0, <1>2, FundsStay
  <2> QED BY <2>1 DEF FundInv
<1>3. CASE UNCHANGED allVars
  BY <1>1, <1>2, <1>3 DEF allVars, vars, payVars
<1>4. CASE Elsewhere /\ UNCHANGED payVars
  <2>1. ASSUME NEW p \in Products, SupplierStep(p) PROVE ord' = ord
    BY <2>1 DEF SupplierStep, CreateProduct, ResubmitProduct, ReviewProduct, OfflineProduct,
       SupplierOfflineProduct, SyncResource
  <2>2. ASSUME NEW s \in Suppliers, FreezeListings(s) PROVE ord' = ord
    BY <2>2 DEF FreezeListings
  <2>3. ASSUME Tick PROVE ord' = ord
    BY <2>3 DEF Tick
  <2>4. \A x \in Orders : Drifts(x)
    BY <1>1, <1>4, <2>1, <2>2, <2>3, TradeDrifts, JobDrifts DEF Elsewhere
  <2> QED BY <1>2, <1>4, <2>4 DEF payVars
<1>5. ASSUME NEW o \in Orders, Pay(o) \/ GatewayTakesMoney(o) \/ ExecuteRefund(o)
      PROVE  FundInv'
  <2>1. /\ ord' = ord /\ wire' = wire
        /\ \A x \in Orders \ {o} : pay'[x] = pay[x] /\ gw'[x] = gw[x]
    BY <1>5 DEF Pay, GatewayTakesMoney, ExecuteRefund, PayTypeOK, vars
  <2>2. \A x \in Orders \ {o} : Funded(x)'
    BY <1>0, <1>1, <2>1, FundsStay
  <2>3. Funded(o)'
    <3>1. CASE Pay(o)
      <4>1. /\ ord[o].status = "pending_payment" /\ pay[o].status = "none" /\ gw' = gw
            /\ pay'[o].status = "pending" /\ pay'[o].refund = pay[o].refund
        BY <1>0, <3>1 DEF Pay, Accepts, PayTypeOK, Payment
      <4> QED BY <1>0, <2>1, <4>1 DEF Funded, Unpaid
    <3>2. CASE GatewayTakesMoney(o)
      <4>1. gw'[o].paid /\ gw'[o].refunds = gw[o].refunds /\ pay' = pay
        BY <3>2 DEF GatewayTakesMoney, PayTypeOK, Books
      <4> QED BY <1>0, <2>1, <4>1 DEF Funded
    <3>3. CASE ExecuteRefund(o)
      <4>1. /\ ord[o].status \in {"refunding", "cancelled"} /\ pay[o].status = "paid" /\ gw' = gw
            /\ pay'[o].status = "paid" /\ pay'[o].refund = "pending"
        BY <1>0, <3>3 DEF ExecuteRefund, Refundable, PayTypeOK, Payment
      <4> QED BY <1>0, <2>1, <4>1 DEF Funded, Unpaid, GivenBack
    <3> QED BY <1>5, <3>1, <3>2, <3>3
  <2> QED BY <2>2, <2>3 DEF FundInv
<1>6. CASE QueueCancelledPaidRefunds
  <2>1. gw' = gw /\ ord' = ord /\ wire' = wire
    BY <1>6 DEF QueueCancelledPaidRefunds, vars
  <2>2. ASSUME NEW x \in Orders PROVE Funded(x)'
    <3>1. CASE ClosedUnstarted(x)
      <4>1. /\ ord[x].status = "cancelled" /\ pay[x].status = "paid"
            /\ pay'[x].status = "paid" /\ pay'[x].refund = "pending"
        BY <1>0, <1>6, <3>1 DEF QueueCancelledPaidRefunds, ClosedUnstarted, Payment
      <4> QED BY <1>0, <2>1, <4>1 DEF Funded, Unpaid
    <3>2. CASE ~ClosedUnstarted(x)
      <4>1. pay'[x] = pay[x]
        BY <1>6, <3>2 DEF QueueCancelledPaidRefunds
      <4> QED BY <1>0, <1>1, <2>1, <4>1, FundsStay
    <3> QED BY <3>1, <3>2
  <2> QED BY <2>2 DEF FundInv
<1>7. ASSUME NEW s \in Suppliers, BoardMerchant(s) PROVE FundInv'
  BY <1>1, <1>2, <1>7 DEF BoardMerchant, vars
<1>8. ASSUME NEW m \in wire, LoseRequest(m) PROVE FundInv'
  BY <1>1, <1>2, <1>8 DEF LoseRequest, vars
<1>9. CASE ServerCrash
  <2>1. pay' = pay /\ gw' = gw /\ wire' \subseteq wire /\ ord' = ord
    BY <1>9 DEF ServerCrash, Crash
  <2> QED BY <1>1, <1>2, <2>1
<1>10. ASSUME NEW o \in Orders, TakenForFailed(o) PROVE FundInv'
  <2>1. /\ gw' = gw /\ ord' = ord /\ wire' = wire
        /\ \A x \in Orders : /\ pay'[x].status = pay[x].status
                            /\ \/ pay'[x].refund = pay[x].refund
                               \/ pay[x].refund = "processing" /\ pay'[x].refund = "failed"
    BY <1>10 DEF TakenForFailed, PayTypeOK, Payment, vars
  <2>2. \A x \in Orders : Funded(x)'
    BY <1>0, <2>1 DEF Funded
  <2> QED BY <2>2 DEF FundInv
<1> QED BY <1>3, <1>4, <1>5, <1>6, <1>7, <1>8, <1>9, <1>10, ServiceKeepsFunds, GatewayKeepsFunds
        DEF PayNext, PaymentStep

LEMMA FundsSuffice ==
    ASSUME TypeOK, PayTypeOK, FundInv
    PROVE  LeasesInUseAreFunded
<1> SUFFICES ASSUME NEW o \in Orders, NEW lease \in Orders,
                    ord[o].status = "active", IsLeaseOrder(lease, o),
                    ord[lease].status # "refunding"
             PROVE  gw[lease].paid /\ ~AnyOf(gw[lease].refunds, {"success"})
  BY DEF LeasesInUseAreFunded
<1>1. ord[lease].status \in {"active", "completed"}
  BY DEF IsLeaseOrder, Restarts
<1>2. Funded(lease) /\ pay[lease] \in Payment
  BY DEF FundInv, PayTypeOK
<1>3. pay[lease].status \in {"paid", "refunded"} /\ pay[lease].refund = "none"
  BY <1>1, <1>2 DEF Funded, Unpaid, GivenBack, Payment
<1> QED BY <1>2, <1>3 DEF Funded, AnyOf

\* Nobody leases for nothing, for any number of leases and renewals: the order by which a
\* lease in use was last started was paid, and its money is not back (confirmPayment,
\* ExecuteRefund).  Where a restart waits for its refund the code breaks this (LeasesArePaid).
THEOREM LeasesInUseArePaid == PaySpec => []LeasesInUseAreFunded
<1>1. PayInit => FundInv
  BY DEF PayInit, Init, MoneyInit, NoOrder, NoPayment, NoBooks, FundInv, Funded, Unpaid,
     GivenBack
<1>2. TypeOK /\ FamiliesAreFlat /\ PayTypeOK /\ FundInv /\ [PayNext]_allVars => FundInv'
  BY FundStep
<1>3. PaySpec => [](StockInv /\ AccessInv /\ HoldInv /\ OpenInv)
  BY PaymentsImplementOrders, OrdersStayGood, PTL DEF OrdersAreObeyed
<1>4. StockInv => TypeOK /\ FamiliesAreFlat
  BY DEF StockInv
<1>5. TypeOK /\ PayTypeOK /\ FundInv => LeasesInUseAreFunded
  BY FundsSuffice
<1> QED BY <1>1, <1>2, <1>3, <1>4, <1>5, PaymentsTypeCorrect, PTL DEF PaySpec

-----------------------------------------------------------------------------
(* Orders whose money is back are told *)

\* Where an order can come from: one that waits for its refund was in use or on its way to
\* be, a lease that begins was delivered, and one that is to be delivered was paid, by itself
\* or by a renewal.
ComesFrom(x) ==
    /\ ord'[x].status = "refunding" =>
          ord[x].status \in {"refunding", "completed", "active", "paid", "provisioning"}
    /\ ord'[x].status = "active" => ord[x].status \in {"active", "provisioning"}
    /\ ord'[x].status \in {"paid", "provisioning"} =>
          \/ ord[x].status \in {"pending_payment", "paid", "provisioning"}
          \/ \E d \in Children(x) : ord[d].status = "pending_payment"

Settled == {"none", "pending_payment", "completed", "frozen", "cancelled", "refunded"}

\* Orders that end, or do not move, come from nowhere else.
LEMMA EndedComesFrom ==
    ASSUME NEW x \in Orders,
           ord'[x].status = ord[x].status \/ ord'[x].status \in Settled
    PROVE  ComesFrom(x)
BY DEF ComesFrom, Settled

\* The operations, one by one.
LEMMA ClosedComesFrom ==
    ASSUME TypeOK, NEW o \in Orders, NEW status \in Settled, CloseOrder(o, status),
           NEW x \in Orders
    PROVE  ComesFrom(x)
<1>1. PICK W \in [Orders -> Order] :
         /\ ord' = [W EXCEPT ![o] = Emptied(o, status)]
         /\ W[x].status = ord[x].status \/ W[x].status = "cancelled"
  <2>1. CASE IsRenewal(o)
    <3>1. WithCancelled({}) = ord
      BY DEF WithCancelled, TypeOK
    <3> QED BY <2>1, <3>1 DEF CloseOrder, TypeOK
  <2>2. CASE ~IsRenewal(o)
    <3>1. ord' = [WithCancelled(OpenRenewals(o)) EXCEPT ![o] = Emptied(o, status)]
      BY <2>2 DEF CloseOrder
    <3> QED BY <3>1, CancelledRow
  <2> QED BY <2>1, <2>2
<1>2. x = o => ord'[x].status = status
  BY <1>1 DEF Emptied, TypeOK, Order
<1>3. x # o => ord'[x] = W[x]
  BY <1>1
<1>4. ord'[x].status = ord[x].status \/ ord'[x].status \in Settled
  BY <1>1, <1>2, <1>3 DEF Settled
<1> QED BY <1>4, EndedComesFrom

LEMMA TradeComesFrom ==
    ASSUME TypeOK, NEW o \in Orders, TradeStep(o), NEW x \in Orders
    PROVE  ComesFrom(x)
<1> USE DEF TypeOK, Order
<1>1. ASSUME NEW row, row.status = "pending_payment", ord' = [ord EXCEPT ![o] = row]
      PROVE  ComesFrom(x)
  <2>1. ord'[x].status = ord[x].status \/ ord'[x].status = "pending_payment"
    BY <1>1
  <2> QED BY <2>1, EndedComesFrom DEF Settled
<1>2. ASSUME NEW p \in Products, NEW q \in 1..MaxOrderQuantity, NEW d \in Durations,
             PlaceOrder(o, p, q, d)
      PROVE  ComesFrom(x)
  <2> DEFINE row == [status |-> "pending_payment", product |-> p, qty |-> q, reserved |-> q,
                     dur |-> d, unit |-> prod[p].unit, payExp |-> now + PayWindow,
                     start |-> None, end |-> None]
  <2>1. ord' = [ord EXCEPT ![o] = row] /\ row.status = "pending_payment"
    BY <1>2 DEF PlaceOrder
  <2> HIDE DEF row
  <2> QED BY <1>1, <2>1
<1>3. ASSUME NEW par \in Orders, NEW d \in Durations,
             RenewByExtension(o, par, d) \/ RenewByRestart(o, par, d)
      PROVE  ComesFrom(x)
  <2>1. ASSUME NEW reserved, NEW payExp, NEW row,
               row = NewRenewalOrder(par, reserved, d, payExp), ord' = [ord EXCEPT ![o] = row]
        PROVE  ComesFrom(x)
    <3>1. row.status = "pending_payment"
      BY <2>1 DEF NewRenewalOrder
    <3> QED BY <1>1, <2>1, <3>1
  <2> QED BY <1>3, <2>1 DEF RenewByExtension, RenewByRestart
<1>4. ASSUME NEW lease \in Orders, DeliverWithAccess(o, lease) PROVE ComesFrom(x)
  <2>1. /\ ord[o].status \in {"paid", "provisioning"}
        /\ ord' = [ord EXCEPT ![o].status = "provisioning"]
    BY <1>4 DEF DeliverWithAccess
  <2>2. \/ x = o /\ ord'[x].status = "provisioning"
        \/ ord'[x].status = ord[x].status
    BY <2>1
  <2> QED BY <2>1, <2>2 DEF ComesFrom
<1>5. ASSUME NEW lease \in Orders, ConfirmDelivery(o, lease) PROVE ComesFrom(x)
  <2>1. /\ ord[o].status = "provisioning"
        /\ \/ x = o /\ ord'[x].status = "active"
           \/ ord'[x].status = ord[x].status
    BY <1>5 DEF ConfirmDelivery
  <2> QED BY <2>1 DEF ComesFrom
<1>6. CASE CancelBuyerOrder(o) \/ AdminCancelOrder(o)
  BY <1>6, ClosedComesFrom DEF CancelBuyerOrder, AdminCancelOrder, Settled
<1>7. ASSUME NEW l \in Orders, NEW W, W = ord \/ W = WithCancelled(OpenRenewals(l)),
             NEW status \in {"frozen", "refunding"},
             ord' = [W EXCEPT ![o].status = status],
             status = "refunding" =>
                ord[o].status \in {"completed", "active", "paid", "provisioning"}
      PROVE  ComesFrom(x)
  <2>1. /\ W \in [Orders -> Order]
        /\ W[x].status = ord[x].status \/ W[x].status = "cancelled"
    BY <1>7, CancelledRow
  <2>2. ord'[x].status = IF x = o THEN status ELSE W[x].status
    BY <1>7, <2>1
  <2> QED BY <1>7, <2>1, <2>2 DEF ComesFrom
<1>8. CASE FreezeOrder(o)
  <2>1. CASE IsRenewal(o)
    <3>1. WithCancelled({}) = ord
      BY DEF WithCancelled
    <3>2. ord' = [ord EXCEPT ![o].status = "frozen"]
      BY <1>8, <2>1, <3>1 DEF FreezeOrder
    <3> QED BY <1>7, <3>2
  <2>2. CASE ~IsRenewal(o)
    <3>1. ord' = [WithCancelled(OpenRenewals(o)) EXCEPT ![o].status = "frozen"]
      BY <1>8, <2>2 DEF FreezeOrder
    <3> QED BY <1>7, <3>1
  <2> QED BY <2>1, <2>2
<1>9. CASE RequestRefund(o)
  <2> DEFINE l == IF IsRenewal(o) THEN ren[o].parent ELSE o
  <2>1. ord' = [WithCancelled(OpenRenewals(l)) EXCEPT ![o].status = "refunding"]
    BY <1>9 DEF RequestRefund
  <2>2. l \in Orders
    BY DEF IsRenewal, Renewal
  <2>3. ord[o].status \in {"completed", "active", "paid", "provisioning"}
    BY <1>9 DEF RequestRefund
  <2> HIDE DEF l
  <2> QED BY <1>7, <2>1, <2>2, <2>3
<1> QED BY <1>2, <1>3, <1>4, <1>5, <1>6, <1>8, <1>9 DEF TradeStep

LEMMA JobComesFrom ==
    ASSUME TypeOK, JobStep, NEW x \in Orders
    PROVE  ComesFrom(x)
<1>1. CASE RevokeExpiredAccess \/ ListExpiredUnpaid \/ ListExpiredLeases \/ FinishRound
  BY <1>1 DEF RevokeExpiredAccess, ListExpiredUnpaid, ListExpiredLeases, FinishRound, ComesFrom
<1>2. ASSUME NEW o \in todo, CloseExpiredUnpaid(o) \/ CompleteExpiredLease(o)
      PROVE  ComesFrom(x)
  <2>1. o \in Orders
    BY DEF TypeOK
  <2>2. CloseOrder(o, "cancelled") \/ CloseOrder(o, "completed") \/ ord' = ord
    BY <1>2 DEF CloseExpiredUnpaid, CompleteExpiredLease
  <2>3. ord' = ord => ComesFrom(x)
    BY DEF ComesFrom
  <2> QED BY <2>1, <2>2, <2>3, ClosedComesFrom DEF Settled
<1> QED BY <1>1, <1>2 DEF JobStep

LEMMA HookComesFrom ==
    ASSUME TypeOK, FamiliesAreFlat, NEW c \in Orders, CompleteRefund(c), NEW x \in Orders
    PROVE  ComesFrom(x) /\ ord'[c].status = "refunded"
<1>1. CASE CloseOrder(c, "refunded")
  <2>1. ord'[c].status = "refunded"
    <3> DEFINE open == IF IsRenewal(c) THEN {} ELSE OpenRenewals(c)
               W == WithCancelled(open)
    <3>1. ord' = [W EXCEPT ![c] = Emptied(c, "refunded")] /\ DOMAIN W = Orders
      BY <1>1 DEF CloseOrder, WithCancelled
    <3> HIDE DEF open, W
    <3> QED BY <3>1 DEF Emptied, TypeOK, Order
  <2> QED BY <1>1, <2>1, ClosedComesFrom DEF Settled
<1>2. CASE IsRenewal(c) /\ (RefundExtension(c) \/ RefundRestart(c))
  <2> DEFINE p == ren[c].parent
             W == WithCancelled(OpenRenewals(p))
             back == [Emptied(p, "completed") EXCEPT !.start = ren[c].prevStart,
                                                    !.end = ren[c].oldEnd]
  <2>1. p \in Orders /\ p # c
    BY <1>2 DEF FamiliesAreFlat, TypeOK, Renewal, IsRenewal
  <2>2. /\ W \in [Orders -> Order]
        /\ W[x].status = ord[x].status \/ W[x].status = "cancelled"
    BY <2>1, CancelledRow
  <2>3. Emptied(c, "refunded").status = "refunded" /\ back.status = "completed"
    BY <2>1 DEF Emptied, TypeOK, Order
  <2>4. \/ ord' = [W EXCEPT ![p].end = ren[c].oldEnd, ![c] = Emptied(c, "refunded")]
        \/ ord' = [W EXCEPT ![p] = back, ![c] = Emptied(c, "refunded")]
    BY <1>2 DEF RefundExtension, RefundRestart
  <2> HIDE DEF W, p, back
  <2>5. /\ ord'[c].status = "refunded"
        /\ ord'[x].status \in {"refunded", "completed", W[x].status}
    BY <2>1, <2>2, <2>3, <2>4 DEF Order
  <2> QED BY <2>2, <2>5, EndedComesFrom DEF Settled
<1> QED BY <1>1, <1>2 DEF CompleteRefund

LEMMA PaidComesFrom ==
    ASSUME TypeOK, FamiliesAreFlat, NEW o \in Orders, PaymentArrives(o), NEW x \in Orders
    PROVE  ComesFrom(x)
<1>1. CASE ConfirmPayment(o)
  <2>1. ord[o].status = "pending_payment" /\ ord' = [ord EXCEPT ![o].status = "paid"]
    BY <1>1 DEF ConfirmPayment
  <2>2. \/ x = o /\ ord'[x].status = "paid"
        \/ ord'[x].status = ord[x].status
    BY <2>1 DEF TypeOK, Order
  <2> QED BY <2>1, <2>2 DEF ComesFrom
<1>2. CASE ApplyExtension(o) \/ ApplyRestart(o)
  <2> DEFINE p == ren[o].parent
  <2>1. p \in Orders /\ p # o /\ o \in Children(p) /\ ord[o].status = "pending_payment"
    BY <1>2 DEF ApplyExtension, ApplyRestart, FamiliesAreFlat, TypeOK, Renewal, IsRenewal,
       Children
  <2> DEFINE bill == [ord[o] EXCEPT !.status = "completed", !.reserved = 0,
                                    !.start = ren[o].oldEnd, !.end = ren[o].until]
             again == [ord[o] EXCEPT !.status = "completed", !.reserved = 0,
                                     !.start = None, !.end = None]
             lease == [ord[p] EXCEPT !.status = "paid", !.reserved = ord[o].qty,
                                     !.start = None, !.end = None]
  <2>2. \/ ord' = [ord EXCEPT ![p].end = ren[o].until, ![o] = bill]
        \/ ord' = [ord EXCEPT ![p] = lease, ![o] = again]
    BY <1>2 DEF ApplyExtension, ApplyRestart
  <2>3. bill.status = "completed" /\ again.status = "completed" /\ lease.status = "paid"
    BY <2>1 DEF TypeOK, Order
  <2> HIDE DEF p, bill, again, lease
  <2>4. \/ x = o /\ ord'[x].status = "completed"
        \/ x = p /\ ord'[x].status = "paid"
        \/ ord'[x].status = ord[x].status
    BY <2>1, <2>2, <2>3 DEF TypeOK, Order
  <2> QED BY <2>1, <2>4 DEF ComesFrom
<1> QED BY <1>1, <1>2 DEF PaymentArrives

\* All steps of the orders together.
LEMMA OrdersComeFrom ==
    ASSUME TypeOK, FamiliesAreFlat, [Next]_vars, NEW x \in Orders
    PROVE  ComesFrom(x)
<1>1. ord' = ord => ComesFrom(x)
  BY DEF ComesFrom
<1>2. ASSUME NEW p \in Products, SupplierStep(p) PROVE ord' = ord
  BY <1>2 DEF SupplierStep, CreateProduct, ResubmitProduct, ReviewProduct, OfflineProduct,
     SupplierOfflineProduct, SyncResource
<1>3. ASSUME NEW s \in Suppliers, FreezeListings(s) PROVE ord' = ord
  BY <1>3 DEF FreezeListings
<1>4. CASE Tick \/ Crash \/ UNCHANGED vars
  BY <1>1, <1>4 DEF Tick, Crash, vars
<1>5. ASSUME NEW o \in Orders, OrderStep(o) PROVE ComesFrom(x)
  BY <1>5, TradeComesFrom, HookComesFrom, PaidComesFrom DEF OrderStep
<1> QED BY <1>1, <1>2, <1>3, <1>4, <1>5, JobComesFrom DEF Next

\* What a renewal is for does not change.
LEMMA RowsStay ==
    ASSUME TypeOK, [Next]_vars, NEW c \in Orders, ord[c].status # "none"
    PROVE  /\ ren'[c].parent = ren[c].parent
           /\ ren'[c].mode = ren[c].mode
           /\ ren'[c].oldEnd = ren[c].oldEnd
<1>1. CASE ren' = ren
  BY <1>1
<1>2. ASSUME NEW o \in Orders, NEW par \in Orders, NEW d \in Durations,
             RenewByExtension(o, par, d) \/ RenewByRestart(o, par, d)
      PROVE  ren'[c] = ren[c]
  BY <1>2 DEF RenewByExtension, RenewByRestart, IsNextOrder, TypeOK
<1>3. ASSUME NEW o \in Orders, NEW lease \in Orders, ConfirmDelivery(o, lease)
      PROVE  \/ ren' = ren
             \/ ren' = [ren EXCEPT ![lease].confirmed = TRUE]
  BY <1>3 DEF ConfirmDelivery
<1>4. ASSUME NEW o \in Orders, ApplyExtension(o) \/ ApplyRestart(o)
      PROVE  \/ ren' = [ren EXCEPT ![o].applied = TRUE]
             \/ ren' = [ren EXCEPT ![o].applied = TRUE, ![o].prevStart = ord[ren[o].parent].start]
  BY <1>4 DEF ApplyExtension, ApplyRestart
<1>5. ASSUME NEW o \in Orders, ren' = [ren EXCEPT ![o].confirmed = TRUE]
      PROVE  /\ ren'[c].parent = ren[c].parent
             /\ ren'[c].mode = ren[c].mode
             /\ ren'[c].oldEnd = ren[c].oldEnd
  BY <1>5 DEF TypeOK, Renewal
<1>6. ASSUME NEW o \in Orders, NEW t,
             \/ ren' = [ren EXCEPT ![o].applied = TRUE]
             \/ ren' = [ren EXCEPT ![o].applied = TRUE, ![o].prevStart = t]
      PROVE  /\ ren'[c].parent = ren[c].parent
             /\ ren'[c].mode = ren[c].mode
             /\ ren'[c].oldEnd = ren[c].oldEnd
  BY <1>6 DEF TypeOK, Renewal
<1>7. ASSUME NEW o \in Orders, OrderStep(o)
      PROVE  \/ ren' = ren
             \/ \E par \in Orders, d \in Durations :
                   RenewByExtension(o, par, d) \/ RenewByRestart(o, par, d)
             \/ \E lease \in Orders : ConfirmDelivery(o, lease)
             \/ ApplyExtension(o) \/ ApplyRestart(o)
  BY <1>7 DEF OrderStep, TradeStep, PlaceOrder, DeliverWithAccess, CancelBuyerOrder,
     AdminCancelOrder, FreezeOrder, RequestRefund, PaymentArrives, ConfirmPayment,
     CompleteRefund, CloseOrder, RefundExtension, RefundRestart
<1>8. ASSUME JobStep PROVE ren' = ren
  BY <1>8 DEF JobStep, RevokeExpiredAccess, ListExpiredUnpaid, ListExpiredLeases,
     CloseExpiredUnpaid, CompleteExpiredLease, FinishRound, CloseOrder
<1>9. ASSUME \/ UNCHANGED vars \/ Crash \/ Tick
             \/ \E s \in Suppliers : FreezeListings(s)
             \/ \E p \in Products : SupplierStep(p)
      PROVE  ren' = ren
  BY <1>9 DEF vars, Crash, Tick, FreezeListings, SupplierStep, CreateProduct, ResubmitProduct,
     ReviewProduct, OfflineProduct, SupplierOfflineProduct, SyncResource
<1>10. \A o \in Orders : OrderStep(o) =>
         /\ ren'[c].parent = ren[c].parent
         /\ ren'[c].mode = ren[c].mode
         /\ ren'[c].oldEnd = ren[c].oldEnd
  BY <1>1, <1>2, <1>3, <1>4, <1>5, <1>6, <1>7
<1> QED BY <1>1, <1>8, <1>9, <1>10 DEF Next

\* When a renewal that waits for its refund counts as unused: its lease is still where the
\* renewal left it, and the time of an extension has not come.  No bill waits beside it.
RefundTells(c) ==
    LET p == ren[c].parent IN
    ord[c].status = "refunding" /\ IsRenewal(c) =>
        /\ p \in Orders
        /\ ren[c].mode = "extend" =>
              /\ ord[p].status \notin {"pending_payment", "paid", "provisioning"}
              /\ UnusedRenewal(c) <=> ord[p].status = "active" /\ ren[c].oldEnd > now
        /\ ren[c].mode = "restart" =>
              /\ ord[p].status # "pending_payment"
              /\ UnusedRenewal(c) <=> ord[p].status \in {"paid", "provisioning"}
        /\ \A d \in Children(p) : ord[d].status # "pending_payment"

RefundsTell == \A c \in Orders : RefundTells(c)

\* What the invariant on families and bills (OpenInv) says of it.
LEMMA RefundsAreTelling == TypeOK /\ OpenInv => RefundsTell
<1> SUFFICES ASSUME TypeOK, OpenInv, NEW c \in Orders, ord[c].status = "refunding", IsRenewal(c)
             PROVE  RefundTells(c)
  BY DEF RefundsTell, RefundTells
<1> DEFINE p == ren[c].parent
<1>1. p \in Orders /\ c \in Children(p)
  BY DEF IsRenewal, Children, TypeOK, Renewal
<1>2. /\ RowIsGood(c) /\ RestartIsGood(c, p) /\ RefundIsGood(c, p)
      /\ \A d \in Children(p) : BillIsGood(d, p)
  BY <1>1 DEF OpenInv, FamilyIsGood, RenewalIsGood
<1>3. ren[c].applied
  BY <1>2 DEF RowIsGood
<1>4. \A d \in Children(p) : ord[d].status # "pending_payment"
  BY <1>1, <1>2 DEF BillIsGood
<1>5. ren[c].mode = "extend" =>
        /\ ord[p].status \notin {"pending_payment", "paid", "provisioning"}
        /\ UnusedRenewal(c) <=> ord[p].status = "active" /\ ren[c].oldEnd > now
  BY <1>2, <1>3 DEF RefundIsGood, UnusedRenewal
<1>6. ren[c].mode = "restart" =>
        /\ ord[p].status # "pending_payment"
        /\ UnusedRenewal(c) <=> ord[p].status \in {"paid", "provisioning"}
  BY <1>2, <1>3 DEF RefundIsGood, RestartIsGood, UnusedRenewal, Counts
<1> QED BY <1>1, <1>4, <1>5, <1>6 DEF RefundTells

\* A renewal that was used while it waited for its refund stays used: no lease begins or is
\* paid for again beside it.
LEMMA UsedStays ==
    ASSUME TypeOK, TypeOK', FamiliesAreFlat, RefundsTell, RefundsTell', now' >= now,
           [Next]_vars, NEW c \in Orders,
           ord[c].status = "refunding", ord'[c].status = "refunding",
           IsRenewal(c), ~UnusedRenewal(c)
    PROVE  IsRenewal(c)' /\ ~UnusedRenewal(c)'
<1> DEFINE p == ren[c].parent
<1>1. ren'[c].parent = p /\ ren'[c].mode = ren[c].mode /\ ren'[c].oldEnd = ren[c].oldEnd
  BY RowsStay
<1>2. IsRenewal(c)'
  BY <1>1 DEF IsRenewal
<1>3. /\ p \in Orders
      /\ ren[c].mode = "extend" =>
            /\ ord[p].status \notin {"pending_payment", "paid", "provisioning"}
            /\ ~(ord[p].status = "active" /\ ren[c].oldEnd > now)
      /\ ren[c].mode = "restart" =>
            ord[p].status \notin {"pending_payment", "paid", "provisioning"}
      /\ \A d \in Children(p) : ord[d].status # "pending_payment"
  BY DEF RefundsTell, RefundTells
<1>4. /\ ren[c].mode = "extend" =>
            (UnusedRenewal(c)' <=> ord'[p].status = "active" /\ ren[c].oldEnd > now')
      /\ ren[c].mode = "restart" =>
            (UnusedRenewal(c)' <=> ord'[p].status \in {"paid", "provisioning"})
  <2>1. RefundTells(c)'
    BY DEF RefundsTell
  <2> QED BY <1>1, <1>2, <2>1 DEF RefundTells
<1>5. ComesFrom(p)
  BY <1>3, OrdersComeFrom
<1>6. CASE ren[c].mode = "extend"
  <2>1. ord'[p].status = "active" => ord[p].status = "active"
    BY <1>3, <1>5, <1>6 DEF ComesFrom
  <2>2. ren[c].oldEnd \in Int /\ now \in Int /\ now' \in Int
    BY DEF TypeOK, Renewal, Times, None
  <2>3. ord[p].status = "active" => ~(ren[c].oldEnd > now')
    BY <1>3, <1>6, <2>2
  <2> QED BY <1>2, <1>4, <1>6, <2>1, <2>3
<1>7. CASE ren[c].mode = "restart"
  BY <1>2, <1>3, <1>4, <1>5, <1>7 DEF ComesFrom
<1> QED BY <1>6, <1>7 DEF TypeOK, Renewal

\* A refund that succeeded was started.
Marked(o) == pay[o].status = "refunded" => pay[o].refund # "none"

MarkedInv == \A o \in Orders : Marked(o)

\* What a step does to what is recorded of the refund of o, and to its hook.
Recorded(o) ==
    /\ Marked(o)'
    /\ pay'[o].status = "refunded" => pay[o].status = "refunded" \/ o \in hooks'
    /\ o \in hooks => o \in hooks' \/ RefundHook(o) \/ ServerCrash

\* The operations of the payment service, of which RefundSucceeded and RefundHook matter.
LEMMA ServiceRecords ==
    ASSUME PayTypeOK, MarkedInv, NEW x \in Orders, ServiceStep(x), NEW o \in Orders
    PROVE  Recorded(o)
<1>0. Marked(o) /\ pay[o] \in Payment
  BY DEF MarkedInv, PayTypeOK
<1>1. ASSUME pay'[o].status = pay[o].status, pay'[o].refund = pay[o].refund, hooks' = hooks
      PROVE  Recorded(o)
  BY <1>0, <1>1 DEF Marked, Recorded
<1>2. CASE MarkCleared(x) \/ TrySplit(x) \/ \E status \in {"success", "failed"} :
              ApplyDivideResult(x, status)
  <2>1. hooks' = hooks /\ pay'[o].status = pay[o].status /\ pay'[o].refund = pay[o].refund
    BY <1>2 DEF MarkCleared, TrySplit, ApplyDivideResult, PayTypeOK, Payment
  <2> QED BY <1>1, <2>1
<1>3. CASE AcceptPayment(x) \/ RefusePayment(x) \/ SubmitRefund(x)
  <2>1. hooks' = hooks
    BY <1>3 DEF AcceptPayment, RefusePayment, SubmitRefund
  <2>2. x = o => pay'[o].status = "paid"
    BY <1>3 DEF AcceptPayment, RefusePayment, ReturnPayment, SubmitRefund, PayTypeOK, Payment
  <2>3. x # o => pay'[o] = pay[o]
    BY <1>3 DEF AcceptPayment, RefusePayment, ReturnPayment, SubmitRefund, PayTypeOK
  <2> QED BY <1>1, <2>1, <2>2, <2>3 DEF Recorded, Marked
<1>4. CASE RefundSucceeded(x)
  <2>1. o \in hooks => o \in hooks'
    BY <1>4 DEF RefundSucceeded
  <2>2. CASE x = o
    <3>1. pay'[o].refund = "success" /\ o \in hooks'
      BY <1>4, <2>2 DEF RefundSucceeded, PayTypeOK, Payment
    <3> QED BY <2>1, <3>1 DEF Recorded, Marked
  <2>3. CASE x # o
    <3>1. pay'[o] = pay[o]
      BY <1>4, <2>3 DEF RefundSucceeded, PayTypeOK
    <3> QED BY <1>0, <2>1, <3>1 DEF Recorded, Marked
  <2> QED BY <2>2, <2>3
<1>5. CASE RefundFailed(x)
  <2>1. hooks' = hooks /\ pay'[o].status = pay[o].status
    BY <1>5 DEF RefundFailed, PayTypeOK, Payment
  <2>2. pay'[o].refund = pay[o].refund \/ pay'[o].refund = "failed"
    BY <1>5 DEF RefundFailed, PayTypeOK, Payment
  <2> QED BY <1>0, <2>1, <2>2 DEF Recorded, Marked
<1>6. CASE RefundHook(x)
  <2>1. pay' = pay /\ hooks' = hooks \ {x}
    BY <1>6 DEF RefundHook
  <2>2. o \in hooks => o \in hooks' \/ RefundHook(o)
    BY <1>6, <2>1
  <2> QED BY <1>0, <2>1, <2>2 DEF Recorded, Marked
<1> QED BY <1>2, <1>3, <1>4, <1>5, <1>6 DEF ServiceStep

\* All steps of the system together.
LEMMA RefundsAreRecorded ==
    ASSUME PayTypeOK, MarkedInv, [PayNext]_allVars, NEW o \in Orders
    PROVE  Recorded(o)
<1>0. Marked(o) /\ pay[o] \in Payment
  BY DEF MarkedInv, PayTypeOK
<1>1. pay' = pay /\ hooks' = hooks => Recorded(o)
  BY <1>0 DEF Recorded, Marked
<1>2. CASE UNCHANGED allVars \/ (Elsewhere /\ UNCHANGED payVars)
  BY <1>1, <1>2 DEF allVars, payVars
<1>3. ASSUME NEW x \in Orders, Pay(x) \/ ExecuteRefund(x) PROVE Recorded(o)
  <2>1. hooks' = hooks
    BY <1>3 DEF Pay, ExecuteRefund
  <2>2. pay'[o] = pay[o] \/ pay'[o].status \in {"pending", "paid"}
    BY <1>3 DEF Pay, ExecuteRefund, Refundable, PayTypeOK, Payment
  <2> QED BY <1>0, <2>1, <2>2 DEF Recorded, Marked
<1>4. ASSUME NEW x \in Orders, GatewayTakesMoney(x) \/ GatewayStep(x)
      PROVE  pay' = pay /\ hooks' = hooks
  BY <1>4 DEF GatewayTakesMoney, GatewayStep, GatewayClears, GatewayDivides, GatewayRefunds,
     GatewayFinishes
<1>5. CASE QueueCancelledPaidRefunds
  <2>1. hooks' = hooks /\ (pay'[o] = pay[o] \/ pay'[o] = [pay[o] EXCEPT !.refund = "pending"])
    BY <1>5 DEF QueueCancelledPaidRefunds
  <2> QED BY <1>0, <2>1 DEF Payment, Recorded, Marked
<1>6. ASSUME \/ \E s \in Suppliers : BoardMerchant(s)
             \/ \E m \in wire : LoseRequest(m)
      PROVE  pay' = pay /\ hooks' = hooks
  BY <1>6 DEF BoardMerchant, LoseRequest
<1>7. CASE ServerCrash
  <2>1. pay' = pay
    BY <1>7 DEF ServerCrash
  <2> QED BY <1>0, <1>7, <2>1 DEF Recorded, Marked
<1>8. ASSUME NEW x \in Orders, TakenForFailed(x) PROVE Recorded(o)
  <2>1. hooks' = hooks /\ pay'[o].status = pay[o].status
    BY <1>8 DEF TakenForFailed, PayTypeOK, Payment
  <2>2. pay'[o].refund = pay[o].refund \/ pay'[o].refund = "failed"
    BY <1>8 DEF TakenForFailed, PayTypeOK, Payment
  <2> QED BY <1>0, <2>1, <2>2 DEF Recorded, Marked
<1> QED BY <1>1, <1>2, <1>3, <1>4, <1>5, <1>6, <1>7, <1>8, ServiceRecords DEF PayNext, PaymentStep

\* Restarts are counted, and time goes on.
LEMMA TimeGoesOn ==
    ASSUME TypeOK, [Next]_vars
    PROVE  /\ crashes' = crashes \/ crashes' = crashes + 1
           /\ now' = now \/ now' = now + 1
<1>1. ASSUME NEW o \in Orders, OrderStep(o) PROVE crashes' = crashes /\ now' = now
  <2>1. ASSUME NEW l \in Orders, NEW d \in Durations,
               RenewByExtension(o, l, d) \/ RenewByRestart(o, l, d)
        PROVE  crashes' = crashes /\ now' = now
    BY <2>1 DEF RenewByExtension, RenewByRestart, jobVars
  <2>2. ASSUME NEW l \in Orders, DeliverWithAccess(o, l) \/ ConfirmDelivery(o, l)
        PROVE  crashes' = crashes /\ now' = now
    BY <2>2 DEF DeliverWithAccess, ConfirmDelivery, jobVars
  <2> QED BY <1>1, <2>1, <2>2 DEF OrderStep, TradeStep, PlaceOrder, CancelBuyerOrder,
          AdminCancelOrder, FreezeOrder, RequestRefund, PaymentArrives, CompleteRefund, jobVars
<1>2. JobStep => crashes' = crashes /\ now' = now
  BY DEF JobStep, RevokeExpiredAccess, ListExpiredUnpaid, ListExpiredLeases,
     CloseExpiredUnpaid, CompleteExpiredLease, FinishRound
<1>3. ASSUME NEW p \in Products, SupplierStep(p) PROVE crashes' = crashes /\ now' = now
  BY <1>3 DEF SupplierStep, CreateProduct, ResubmitProduct, ReviewProduct, OfflineProduct,
     SupplierOfflineProduct, SyncResource, jobVars
<1>4. ASSUME NEW s \in Suppliers, FreezeListings(s) PROVE crashes' = crashes /\ now' = now
  BY <1>4 DEF FreezeListings, jobVars
<1>5. Tick \/ UNCHANGED vars =>
        crashes' = crashes /\ (now' = now \/ now' = now + 1)
  BY DEF Tick, vars, jobVars
<1>6. Crash => crashes' = crashes + 1 /\ now' = now
  BY DEF Crash
<1> QED BY <1>1, <1>2, <1>3, <1>4, <1>5, <1>6 DEF Next

\* A step of the system: an order whose money is back was waiting for it already, so that the
\* hook finds what it looks for, and it goes only by being run.
LEMMA ToldKeeps ==
    ASSUME TypeOK, TypeOK', FamiliesAreFlat, RefundsTell, RefundsTell', now' >= now, PayTypeOK,
           FundInv, MarkedInv, OrdersAreTold, [PayNext]_allVars
    PROVE  MarkedInv' /\ OrdersAreTold'
<1>1. [Next]_vars
  BY StepImplements
<1>2. \A o \in Orders : Recorded(o)
  BY RefundsAreRecorded
<1>3. MarkedInv'
  BY <1>2 DEF Recorded, MarkedInv
<1>4. ASSUME crashes' = 0 PROVE crashes = 0 /\ ~ServerCrash
  <2>1. crashes \in Nat
    BY DEF TypeOK
  <2>2. ServerCrash => crashes' = crashes + 1
    BY DEF ServerCrash, Crash
  <2> QED BY <1>1, <1>4, <2>1, <2>2, TimeGoesOn
<1>5. ASSUME crashes' = 0, NEW o \in Orders,
             pay'[o].status = "refunded", ord'[o].status = "refunding", o \notin hooks'
      PROVE  (IsRenewal(o) /\ ~UnusedRenewal(o))'
  <2>1. pay[o].status = "refunded"
    BY <1>2, <1>5 DEF Recorded
  <2>2. ord[o].status = "refunding"
    <3>1. ord[o].status \in Unpaid \cup GivenBack
      BY <2>1 DEF MarkedInv, Marked, FundInv, Funded
    <3>2. ComesFrom(o)
      BY <1>1, OrdersComeFrom
    <3> QED BY <1>5, <3>1, <3>2 DEF ComesFrom, Unpaid, GivenBack
  <2>3. CASE o \in hooks
    <3>1. RefundHook(o)
      BY <1>2, <1>4, <1>5, <2>3 DEF Recorded
    <3>2. CASE CompleteRefund(o)
      <4>1. ord'[o].status = "refunded"
        BY <3>2, HookComesFrom
      <4> QED BY <1>5, <4>1
    <3>3. CASE ~CompleteRefund(o)
      <4>1. UNCHANGED vars /\ IsRenewal(o) /\ ~UnusedRenewal(o)
        BY <2>2, <3>1, <3>3 DEF RefundHook, TellOrder
      <4> QED BY <4>1 DEF vars, IsRenewal, UnusedRenewal
    <3> QED BY <3>2, <3>3
  <2>4. CASE o \notin hooks
    <3>1. IsRenewal(o) /\ ~UnusedRenewal(o)
      BY <1>4, <1>5, <2>1, <2>2, <2>4 DEF OrdersAreTold, Told
    <3> QED BY <1>1, <1>5, <2>2, <3>1, UsedStays
  <2> QED BY <2>3, <2>4
<1> QED BY <1>3, <1>5 DEF OrdersAreTold, Told

\* Nothing but a restart loses the news of a refund, for any number of orders, requests and
\* renewals: as long as the server has not been restarted, an order whose money is back and
\* that still waits for its refund has its hook to come, or is a renewal that was used
\* meanwhile, which the hook refuses (applyRefundResult, SetRefundHook, CompleteRefund).  With
\* a restart the code breaks this (RefundedOrdersClose).
THEOREM OnlyRestartsLoseHooks == PaySpec => []OrdersAreTold
<1>1. PayInit => FundInv /\ MarkedInv /\ OrdersAreTold
  BY DEF PayInit, Init, MoneyInit, NoOrder, NoPayment, NoBooks, FundInv, Funded, Unpaid,
     GivenBack, MarkedInv, Marked, OrdersAreTold, Told
<1>2. TypeOK /\ FamiliesAreFlat /\ PayTypeOK /\ FundInv /\ [PayNext]_allVars => FundInv'
  BY FundStep
<1>3. PaySpec => [](StockInv /\ AccessInv /\ HoldInv /\ OpenInv)
  BY PaymentsImplementOrders, OrdersStayGood, PTL DEF OrdersAreObeyed
<1>4. StockInv => TypeOK /\ FamiliesAreFlat
  BY DEF StockInv
<1>5. TypeOK /\ [PayNext]_allVars => now' >= now
  <2> SUFFICES ASSUME TypeOK, [PayNext]_allVars PROVE now' >= now
    OBVIOUS
  <2>1. now \in Nat /\ [Next]_vars
    BY StepImplements DEF TypeOK
  <2> QED BY <2>1, TimeGoesOn
<1>6. /\ TypeOK /\ TypeOK' /\ FamiliesAreFlat /\ RefundsTell /\ RefundsTell' /\ now' >= now
      /\ PayTypeOK /\ FundInv /\ MarkedInv /\ OrdersAreTold /\ [PayNext]_allVars
      => MarkedInv' /\ OrdersAreTold'
  BY ToldKeeps
<1> QED BY <1>1, <1>2, <1>3, <1>4, <1>5, <1>6, RefundsAreTelling, PaymentsTypeCorrect, PTL
        DEF PaySpec

-----------------------------------------------------------------------------
(* No request waits for what never comes *)

OpenRefund(o) == pay[o].refund \in {"pending", "processing"}
OpenSplit(o) == settle[o].status = "processing"

\* What the gateway has to do for an order yet: a request on its way is taken in, and one
\* that is in work is finished; a row may have been called failed before either.
Messages(o) == {m \in wire : m.order = o}
InWork(outcomes) == {r \in RequestNo : outcomes[r] = "processing"}
GatewaySteps(o) ==
    2 * Cardinality(Messages(o)) + Cardinality(InWork(gw[o].divides))
                                 + Cardinality(InWork(gw[o].refunds))

\* Then the service learns what has become of a split; a refund it has to send first.
SplitSteps(o) == IF OpenSplit(o) THEN 1 ELSE 0
RefundSteps(o) ==
    IF pay[o].refund = "pending" THEN 4 ELSE IF pay[o].refund = "processing" THEN 1 ELSE 0

\* The gateway clears the payment, and the service marks it.
ClearingSteps(o) == (IF gw[o].cleared THEN 0 ELSE 1) + (IF pay[o].cleared THEN 0 ELSE 1)

SplitLeft(o) == ClearingSteps(o) + GatewaySteps(o) + SplitSteps(o)
RefundLeft(o) == SplitLeft(o) + RefundSteps(o)

\* Every step of the service and of the gateway for an order brings its open split nearer to
\* its end, and nothing takes it back.
SplitsComeCloser ==
    [][\A o \in Orders : OpenSplit(o) /\ OpenSplit(o)' =>
          /\ SplitLeft(o)' <= SplitLeft(o)
          /\ ServiceStep(o) \/ GatewayStep(o) => SplitLeft(o)' < SplitLeft(o)]_allVars

\* The same of a refund, which waits for the money to be cleared and for the split.
RefundsComeCloser ==
    [][\A o \in Orders : OpenRefund(o) /\ OpenRefund(o)' =>
          /\ RefundLeft(o)' <= RefundLeft(o)
          /\ ServiceStep(o) \/ GatewayStep(o) => RefundLeft(o)' < RefundLeft(o)]_allVars

\* An open request can be brought on: its payment was made, so that the gateway can clear it; a
\* request that was sent has the number to ask the gateway by, and no refund was sent while a
\* split is open; one that waits to be sent has a number left.  Only a refund of a share whose
\* detail number is not known (NeedsAHand) waits for the operator.
RequestsCanGoOn ==
    \A o \in Orders :
        /\ OpenSplit(o) \/ OpenRefund(o) => pay[o].status = "paid" /\ gw[o].paid
        /\ OpenSplit(o) => settle[o].req \in RequestNo /\ pay[o].refund # "processing"
        /\ pay[o].refund = "pending" => pay[o].req + 1 \in RequestNo
        /\ pay[o].refund = "processing" => pay[o].req \in RequestNo

\* Money that came for an order which was closed meanwhile.
CameLate(o) ==
    gw[o].paid /\ pay[o].status = "pending" /\ ord[o].status \in {"cancelled", "frozen"}

\* The next step of the service for the order sees it, however late, and queues it to be given
\* back; until then it stays where it can be seen.
LateMoneyIsSeen ==
    [][\A o \in Orders : CameLate(o) =>
          \/ ~ServiceStep(o) /\ CameLate(o)'
          \/ pay'[o].status = "paid" /\ pay'[o].refund = "pending"]_allVars

\* What is known of payments and requests besides.
Numbered(o) ==
    /\ pay[o].status = "refunded" => pay[o].refund = "success"
    /\ pay[o].refund = "none" => pay[o].req = 0
    /\ pay[o].refund = "pending" => pay[o].req < MaxRequests
    /\ pay[o].refund = "processing" => pay[o].req # 0

NumbersInv == \A o \in Orders : Numbered(o)

\* What an open request says of its payment.
LEMMA OpenIsPaid ==
    ASSUME BooksInv, NumbersInv, NEW o \in Orders
    PROVE  /\ OpenSplit(o) \/ OpenRefund(o) => pay[o].status = "paid" /\ o \notin hooks
           /\ OpenSplit(o) => /\ pay[o].refund # "processing"
                              /\ settle[o].req \in RequestNo
<1>1. /\ pay[o] \in Payment /\ settle[o] \in Settlement
      /\ Fits(o) /\ SplitIsKnown(o) /\ RefundIsKnown(o) /\ Numbered(o) /\ ToldRightly(o)
  BY BooksFacts DEF BooksInv, NumbersInv
<1>2. OpenSplit(o) \/ OpenRefund(o) => pay[o].status = "paid"
  <2>1. pay[o].status = "refunded" => ~OpenSplit(o) /\ ~OpenRefund(o)
    BY <1>1 DEF RefundIsKnown, Numbered, OpenSplit, OpenRefund
  <2>2. pay[o].status \in {"none", "pending"} => ~OpenSplit(o) /\ ~OpenRefund(o)
    BY <1>1 DEF Fits, OpenSplit, OpenRefund
  <2> QED BY <1>1, <2>1, <2>2 DEF Payment
<1>3. OpenSplit(o) => pay[o].refund # "processing" /\ settle[o].req \in RequestNo
  BY <1>1, PaymentsAssumption DEF Fits, SplitIsKnown, OpenSplit, Settlement, RequestNo
<1> QED BY <1>1, <1>2, <1>3 DEF ToldRightly

LEMMA OpenCanGoOn == BooksInv /\ NumbersInv /\ FundInv => RequestsCanGoOn
<1> SUFFICES ASSUME BooksInv, NumbersInv, FundInv, NEW o \in Orders
             PROVE  /\ OpenSplit(o) \/ OpenRefund(o) => pay[o].status = "paid" /\ gw[o].paid
                    /\ OpenSplit(o) => settle[o].req \in RequestNo /\ pay[o].refund # "processing"
                    /\ pay[o].refund = "pending" => pay[o].req + 1 \in RequestNo
                    /\ pay[o].refund = "processing" => pay[o].req \in RequestNo
  BY DEF RequestsCanGoOn
<1>1. pay[o] \in Payment /\ Numbered(o) /\ Funded(o)
  BY BooksFacts DEF NumbersInv, FundInv
<1>2. /\ pay[o].refund = "pending" => pay[o].req + 1 \in RequestNo
      /\ pay[o].refund = "processing" => pay[o].req \in RequestNo
  BY <1>1, PaymentsAssumption DEF Numbered, Payment, RequestNo
<1> QED BY <1>1, <1>2, OpenIsPaid DEF Funded

\* Neither count goes up, or both go down, for a request that stays open.
NotFurther(o) ==
    /\ OpenSplit(o) /\ OpenSplit(o)' => SplitLeft(o)' <= SplitLeft(o)
    /\ OpenRefund(o) /\ OpenRefund(o)' => RefundLeft(o)' <= RefundLeft(o)

Nearer(o) ==
    /\ OpenSplit(o) /\ OpenSplit(o)' => SplitLeft(o)' < SplitLeft(o)
    /\ OpenRefund(o) /\ OpenRefund(o)' => RefundLeft(o)' < RefundLeft(o)

\* Counting the requests in work.
LEMMA WorkIsFinite ==
    ASSUME NEW f
    PROVE  IsFiniteSet(InWork(f)) /\ Cardinality(InWork(f)) \in Nat
<1>1. IsFiniteSet(RequestNo) /\ InWork(f) \subseteq RequestNo
  BY PaymentsAssumption, FS_Interval DEF RequestNo, InWork
<1> QED BY <1>1, FS_Subset, FS_CardinalityType

LEMMA WorkIsDone ==
    ASSUME NEW f, NEW g, NEW r \in RequestNo, f[r] = "processing", g[r] # "processing",
           \A q \in RequestNo \ {r} : g[q] = f[q]
    PROVE  Cardinality(InWork(g)) = Cardinality(InWork(f)) - 1
<1>1. InWork(g) = InWork(f) \ {r} /\ r \in InWork(f)
  BY DEF InWork
<1> QED BY <1>1, WorkIsFinite, FS_RemoveElement

LEMMA WorkIsTaken ==
    ASSUME NEW f, NEW g, NEW r, \A q \in RequestNo \ {r} : g[q] = f[q]
    PROVE  Cardinality(InWork(g)) <= Cardinality(InWork(f)) + 1
<1>1. IsFiniteSet(InWork(f)) /\ Cardinality(InWork(f)) \in Nat
  BY WorkIsFinite
<1>2. /\ IsFiniteSet(InWork(f) \cup {r})
      /\ Cardinality(InWork(f) \cup {r}) <= Cardinality(InWork(f)) + 1
  BY <1>1, FS_AddElement
<1>3. InWork(g) \subseteq InWork(f) \cup {r}
  BY DEF InWork
<1>4. Cardinality(InWork(g)) <= Cardinality(InWork(f) \cup {r})
  BY <1>2, <1>3, FS_Subset
<1>5. Cardinality(InWork(f) \cup {r}) \in Nat /\ Cardinality(InWork(g)) \in Nat
  BY <1>2, WorkIsFinite, FS_CardinalityType
<1> QED BY <1>1, <1>2, <1>4, <1>5

\* Counting the messages of an order among those on the wire, W.
LEMMA MessagesAreFinite ==
    ASSUME NEW W, IsFiniteSet(W), NEW o
    PROVE  LET Of == {m \in W : m.order = o} IN IsFiniteSet(Of) /\ Cardinality(Of) \in Nat
<1> DEFINE Of == {m \in W : m.order = o}
<1>1. IsFiniteSet(Of)
  BY FS_Subset
<1> QED BY <1>1, FS_CardinalityType

LEMMA MessagesGo ==
    ASSUME IsFiniteSet(wire), NEW o, \A m \in wire' : m.order = o => m \in wire
    PROVE  Cardinality(Messages(o))' <= Cardinality(Messages(o))
<1>1. Messages(o)' \subseteq Messages(o)
  BY DEF Messages
<1>2. IsFiniteSet(Messages(o))
  BY MessagesAreFinite DEF Messages
<1> QED BY <1>1, <1>2, FS_Subset

LEMMA MessageIsTaken ==
    ASSUME IsFiniteSet(wire), NEW o, NEW m \in wire, m.order = o, wire' = wire \ {m}
    PROVE  Cardinality(Messages(o))' = Cardinality(Messages(o)) - 1
<1>1. Messages(o)' = Messages(o) \ {m} /\ m \in Messages(o)
  BY DEF Messages
<1>2. IsFiniteSet(Messages(o))
  BY MessagesAreFinite DEF Messages
<1> QED BY <1>1, <1>2, FS_RemoveElement

LEMMA WithOneMore ==
    ASSUME NEW S, IsFiniteSet(S), NEW x
    PROVE  Cardinality(S \cup {x}) <= Cardinality(S) + 1
<1>1. Cardinality(S) \in Nat
  BY FS_CardinalityType
<1>2. Cardinality(S \cup {x}) \in {Cardinality(S), Cardinality(S) + 1}
  BY FS_AddElement
<1> QED BY <1>1, <1>2

LEMMA MessageIsSent ==
    ASSUME IsFiniteSet(wire), NEW o, NEW m, m.order = o, wire' = wire \cup {m}
    PROVE  Cardinality(Messages(o))' <= Cardinality(Messages(o)) + 1
<1>1. Messages(o)' = Messages(o) \cup {m}
  BY DEF Messages
<1>2. IsFiniteSet(Messages(o))
  BY MessagesAreFinite DEF Messages
<1> DEFINE S == Messages(o)
<1>3. IsFiniteSet(S)
  BY <1>2
<1> HIDE DEF S
<1>4. Cardinality(S \cup {m}) <= Cardinality(S) + 1
  BY <1>3, WithOneMore
<1> QED BY <1>1, <1>4 DEF S

\* The counts are numbers, before a step and after it.
LEMMA StepsAreNumbers ==
    ASSUME IsFiniteSet(wire), IsFiniteSet(wire'), NEW o \in Orders
    PROVE  /\ GatewaySteps(o) \in Int /\ GatewaySteps(o)' \in Int
           /\ SplitSteps(o) \in Int /\ SplitSteps(o)' \in Int
           /\ RefundSteps(o) \in Int /\ RefundSteps(o)' \in Int
           /\ ClearingSteps(o) \in Int /\ ClearingSteps(o)' \in Int
<1>1. Cardinality(Messages(o)) \in Nat /\ Cardinality(Messages(o))' \in Nat
  BY MessagesAreFinite DEF Messages
<1>2. /\ Cardinality(InWork(gw[o].divides)) \in Nat /\ Cardinality(InWork(gw[o].refunds)) \in Nat
      /\ Cardinality(InWork(gw'[o].divides)) \in Nat
      /\ Cardinality(InWork(gw'[o].refunds)) \in Nat
  BY WorkIsFinite
<1>3. InWork(gw[o].divides)' = InWork(gw'[o].divides) /\ InWork(gw[o].refunds)' = InWork(gw'[o].refunds)
  BY DEF InWork, RequestNo
<1>4. GatewaySteps(o) \in Int /\ GatewaySteps(o)' \in Int
  BY <1>1, <1>2, <1>3 DEF GatewaySteps
<1> QED BY <1>4 DEF SplitSteps, RefundSteps, ClearingSteps

\* What the gateway has to do for an order stays, or becomes less.
LEMMA GatewayStandsStill ==
    ASSUME IsFiniteSet(wire), IsFiniteSet(wire'), NEW o \in Orders,
           gw'[o].divides = gw[o].divides, gw'[o].refunds = gw[o].refunds,
           \A m \in wire' : m.order = o => m \in wire
    PROVE  GatewaySteps(o)' <= GatewaySteps(o)
<1>1. Cardinality(Messages(o)) \in Nat /\ Cardinality(Messages(o))' \in Nat
  BY MessagesAreFinite DEF Messages
<1>2. Cardinality(InWork(gw[o].divides)) \in Nat /\ Cardinality(InWork(gw[o].refunds)) \in Nat
  BY WorkIsFinite
<1>3. /\ InWork(gw[o].divides)' = InWork(gw[o].divides)
      /\ InWork(gw[o].refunds)' = InWork(gw[o].refunds)
  BY DEF InWork, RequestNo
<1> QED BY <1>1, <1>2, <1>3, MessagesGo DEF GatewaySteps

LEMMA CountsStay ==
    ASSUME IsFiniteSet(wire), IsFiniteSet(wire'), NEW o \in Orders,
           GatewaySteps(o)' <= GatewaySteps(o), ClearingSteps(o)' <= ClearingSteps(o),
           SplitSteps(o)' <= SplitSteps(o), RefundSteps(o)' <= RefundSteps(o)
    PROVE  /\ NotFurther(o)
           /\ GatewaySteps(o)' < GatewaySteps(o) => Nearer(o)
           /\ ClearingSteps(o)' < ClearingSteps(o) => Nearer(o)
<1> HIDE DEF GatewaySteps, ClearingSteps, SplitSteps, RefundSteps
<1> QED BY StepsAreNumbers DEF NotFurther, Nearer, SplitLeft, RefundLeft

LEMMA ServiceComesNearer ==
    ASSUME BooksInv, NumbersInv, IsFiniteSet(wire), IsFiniteSet(wire'),
           NEW o \in Orders, ServiceStep(o)
    PROVE  Nearer(o)
<1>1. /\ PayTypeOK /\ pay[o] \in Payment /\ settle[o] \in Settlement
  BY BooksFacts DEF BooksInv
<1>2. (~OpenSplit(o) \/ ~OpenSplit(o)') /\ (~OpenRefund(o) \/ ~OpenRefund(o)') => Nearer(o)
  BY DEF Nearer
<1>3. CASE AcceptPayment(o) \/ RefusePayment(o) \/ RefundHook(o)
  <2>1. pay[o].status = "pending" \/ o \in hooks
    BY <1>3 DEF AcceptPayment, RefusePayment, RefundHook
  <2> QED BY <1>2, <2>1, OpenIsPaid
<1>4. CASE TrySplit(o)
  BY <1>2, <1>4 DEF TrySplit, Splittable, OpenSplit, OpenRefund
<1>5. CASE MarkCleared(o)
  <2>1. /\ UNCHANGED <<settle, gw, wire>> /\ ~pay[o].cleared
        /\ pay'[o] = [pay[o] EXCEPT !.cleared = TRUE]
    BY <1>1, <1>5 DEF MarkCleared, PayTypeOK
  <2>2. /\ pay'[o].refund = pay[o].refund /\ pay'[o].cleared
    BY <1>1, <2>1 DEF Payment
  <2>3. ClearingSteps(o)' < ClearingSteps(o)
    BY <2>1, <2>2 DEF ClearingSteps
  <2>4. ClearingSteps(o)' <= ClearingSteps(o)
    BY <2>3, StepsAreNumbers
  <2>5. SplitSteps(o)' <= SplitSteps(o) /\ RefundSteps(o)' <= RefundSteps(o)
    BY <2>1, <2>2 DEF SplitSteps, RefundSteps, OpenSplit
  <2>6. GatewaySteps(o)' <= GatewaySteps(o)
    BY <2>1, GatewayStandsStill
  <2> QED BY <2>3, <2>4, <2>5, <2>6, CountsStay
<1>6. ASSUME NEW status \in {"success", "failed"}, ApplyDivideResult(o, status)
      PROVE  Nearer(o)
  <2>1. /\ UNCHANGED <<pay, gw, wire>> /\ OpenSplit(o)
        /\ settle'[o].status = status
    BY <1>1, <1>6 DEF ApplyDivideResult, OpenSplit, PayTypeOK, Settlement
  <2>2. SplitSteps(o)' = 0 /\ SplitSteps(o) = 1
    BY <2>1 DEF SplitSteps, OpenSplit
  <2>3. RefundSteps(o)' = RefundSteps(o) /\ ClearingSteps(o)' = ClearingSteps(o)
    BY <2>1 DEF ClearingSteps, RefundSteps
  <2>4. GatewaySteps(o)' <= GatewaySteps(o)
    BY <2>1, GatewayStandsStill
  <2>5. ~OpenSplit(o)'
    BY <2>1 DEF OpenSplit
  <2> HIDE DEF GatewaySteps, ClearingSteps, SplitSteps, RefundSteps
  <2> QED BY <2>2, <2>3, <2>4, <2>5, StepsAreNumbers DEF Nearer, SplitLeft, RefundLeft
<1>7. CASE SubmitRefund(o)
  <2>1. /\ settle' = settle /\ gw' = gw /\ ~OpenSplit(o) /\ pay[o].refund = "pending"
        /\ pay'[o].refund = "processing" /\ pay'[o].cleared = pay[o].cleared
        /\ \E m : m.order = o /\ wire' = wire \cup {m}
    <3>1. PICK m : m = [kind |-> "refund", order |-> o, req |-> pay[o].req + 1,
                        back |-> settle[o].status = "success"]
      OBVIOUS
    <3>2. m.order = o /\ wire' = wire \cup {m}
      BY <1>7, <3>1 DEF SubmitRefund
    <3> QED BY <1>1, <1>7, <3>2 DEF SubmitRefund, MayRefund, OpenSplit, PayTypeOK, Payment
  <2>2. SplitSteps(o)' = SplitSteps(o) /\ ClearingSteps(o)' = ClearingSteps(o)
    BY <2>1 DEF SplitSteps, OpenSplit, ClearingSteps
  <2>3. RefundSteps(o)' = 1 /\ RefundSteps(o) = 4
    BY <2>1 DEF RefundSteps
  <2>4. GatewaySteps(o)' <= GatewaySteps(o) + 2
    <3>1. Cardinality(Messages(o)) \in Nat /\ Cardinality(Messages(o))' \in Nat
      BY MessagesAreFinite DEF Messages
    <3>2. /\ Cardinality(InWork(gw[o].divides)) \in Nat
          /\ Cardinality(InWork(gw[o].refunds)) \in Nat
      BY WorkIsFinite
    <3>3. /\ InWork(gw[o].divides)' = InWork(gw[o].divides)
          /\ InWork(gw[o].refunds)' = InWork(gw[o].refunds)
      BY <2>1 DEF InWork, RequestNo
    <3>4. Cardinality(Messages(o))' <= Cardinality(Messages(o)) + 1
      BY <2>1, MessageIsSent
    <3> QED BY <3>1, <3>2, <3>3, <3>4 DEF GatewaySteps
  <2> HIDE DEF GatewaySteps, ClearingSteps, SplitSteps, RefundSteps
  <2> QED BY <2>1, <2>2, <2>3, <2>4, StepsAreNumbers DEF Nearer, SplitLeft, RefundLeft
<1>8. CASE RefundSucceeded(o)
  <2>1. /\ pay'[o].refund = "success" /\ settle'[o] = Unwound(settle[o])
    BY <1>1, <1>8 DEF RefundSucceeded, PayTypeOK, Payment
  <2>2. settle'[o].status # "processing"
    BY <1>1, <2>1 DEF Unwound, Settlement
  <2> QED BY <1>2, <2>1, <2>2 DEF OpenSplit, OpenRefund
<1>9. CASE RefundFailed(o)
  <2>1. /\ pay[o].refund = "processing" /\ pay'[o].refund = "failed"
    BY <1>1, <1>9 DEF RefundFailed, PayTypeOK, Payment
  <2> QED BY <1>2, <2>1, OpenIsPaid DEF OpenRefund
<1> QED BY <1>3, <1>4, <1>5, <1>6, <1>7, <1>8, <1>9 DEF ServiceStep

LEMMA GatewayComesNearer ==
    ASSUME BooksInv, IsFiniteSet(wire), IsFiniteSet(wire'), NEW o \in Orders, GatewayStep(o)
    PROVE  Nearer(o)
<1>1. /\ PayTypeOK /\ gw[o] \in Books
      /\ \A m \in wire : m.order = o => m \in Request
  BY BooksFacts DEF BooksInv
<1>2. UNCHANGED <<pay, settle>>
  BY DEF GatewayStep, GatewayClears, GatewayDivides, GatewayRefunds, GatewayFinishes
<1>3. SplitSteps(o)' <= SplitSteps(o) /\ RefundSteps(o)' <= RefundSteps(o)
  BY <1>2 DEF SplitSteps, RefundSteps, OpenSplit
<1>4. CASE GatewayClears(o)
  <2>1. /\ wire' = wire /\ ~gw[o].cleared
        /\ gw'[o].cleared /\ gw'[o].divides = gw[o].divides /\ gw'[o].refunds = gw[o].refunds
    BY <1>1, <1>4 DEF GatewayClears, PayTypeOK, Books
  <2>2. ClearingSteps(o)' < ClearingSteps(o)
    BY <1>2, <2>1 DEF ClearingSteps
  <2>3. ClearingSteps(o)' <= ClearingSteps(o)
    BY <2>2, StepsAreNumbers
  <2>4. GatewaySteps(o)' <= GatewaySteps(o)
    BY <2>1, GatewayStandsStill
  <2> QED BY <1>3, <2>2, <2>3, <2>4, CountsStay
<1>5. ASSUME GatewaySteps(o)' < GatewaySteps(o), gw'[o].cleared = gw[o].cleared
      PROVE  Nearer(o)
  <2>1. GatewaySteps(o)' <= GatewaySteps(o)
    BY <1>5, StepsAreNumbers
  <2>2. ClearingSteps(o)' <= ClearingSteps(o)
    BY <1>2, <1>5 DEF ClearingSteps
  <2> QED BY <1>3, <1>5, <2>1, <2>2, CountsStay
<1>6. /\ Cardinality(Messages(o)) \in Nat /\ Cardinality(Messages(o))' \in Nat
      /\ Cardinality(InWork(gw[o].divides)) \in Nat /\ Cardinality(InWork(gw[o].refunds)) \in Nat
      /\ Cardinality(InWork(gw'[o].divides)) \in Nat
      /\ Cardinality(InWork(gw'[o].refunds)) \in Nat
      /\ InWork(gw[o].divides)' = InWork(gw'[o].divides)
      /\ InWork(gw[o].refunds)' = InWork(gw'[o].refunds)
  BY MessagesAreFinite, WorkIsFinite DEF Messages, InWork, RequestNo
<1>7. ASSUME NEW m \in wire, NEW outcome \in Outcome, m.order = o, GatewayDivides(m, outcome)
      PROVE  Nearer(o)
  <2>1. /\ wire' = wire \ {m} /\ gw'[o].cleared = gw[o].cleared
        /\ gw'[o].refunds = gw[o].refunds
        /\ \A q \in RequestNo \ {m.req} : gw'[o].divides[q] = gw[o].divides[q]
    BY <1>1, <1>7 DEF GatewayDivides, PayTypeOK, Books
  <2>2. Cardinality(Messages(o))' = Cardinality(Messages(o)) - 1
    BY <1>7, <2>1, MessageIsTaken
  <2>3. Cardinality(InWork(gw'[o].divides)) <= Cardinality(InWork(gw[o].divides)) + 1
    BY <2>1, WorkIsTaken
  <2>4. Cardinality(InWork(gw'[o].refunds)) = Cardinality(InWork(gw[o].refunds))
    BY <2>1
  <2>5. GatewaySteps(o)' < GatewaySteps(o)
    BY <1>6, <2>2, <2>3, <2>4 DEF GatewaySteps
  <2> QED BY <1>5, <2>1, <2>5
<1>8. ASSUME NEW m \in wire, NEW outcome \in Outcome, m.order = o, GatewayRefunds(m, outcome)
      PROVE  Nearer(o)
  <2>1. /\ wire' = wire \ {m} /\ gw'[o].cleared = gw[o].cleared
        /\ gw'[o].divides = gw[o].divides
        /\ \A q \in RequestNo \ {m.req} : gw'[o].refunds[q] = gw[o].refunds[q]
    BY <1>1, <1>8 DEF GatewayRefunds, PayTypeOK, Books
  <2>2. Cardinality(Messages(o))' = Cardinality(Messages(o)) - 1
    BY <1>8, <2>1, MessageIsTaken
  <2>3. Cardinality(InWork(gw'[o].refunds)) <= Cardinality(InWork(gw[o].refunds)) + 1
    BY <2>1, WorkIsTaken
  <2>4. Cardinality(InWork(gw'[o].divides)) = Cardinality(InWork(gw[o].divides))
    BY <2>1
  <2>5. GatewaySteps(o)' < GatewaySteps(o)
    BY <1>6, <2>2, <2>3, <2>4 DEF GatewaySteps
  <2> QED BY <1>5, <2>1, <2>5
<1>9. ASSUME NEW r \in RequestNo, NEW outcome \in Outcome, GatewayFinishes(o, r, outcome)
      PROVE  Nearer(o)
  <2>1. wire' = wire /\ outcome # "processing"
    BY <1>9 DEF GatewayFinishes
  <2>2. Cardinality(Messages(o))' = Cardinality(Messages(o))
    BY <2>1 DEF Messages
  <2>3. CASE gw[o].divides[r] = "processing" /\ gw' = [gw EXCEPT ![o].divides[r] = outcome]
    <3>1. /\ gw'[o].divides[r] = outcome
          /\ \A q \in RequestNo \ {r} : gw'[o].divides[q] = gw[o].divides[q]
          /\ gw'[o].cleared = gw[o].cleared /\ gw'[o].refunds = gw[o].refunds
      BY <1>1, <2>3 DEF PayTypeOK, Books
    <3>2. Cardinality(InWork(gw'[o].divides)) = Cardinality(InWork(gw[o].divides)) - 1
      BY <2>1, <2>3, <3>1, WorkIsDone
    <3>3. Cardinality(InWork(gw'[o].refunds)) = Cardinality(InWork(gw[o].refunds))
      BY <3>1
    <3>4. GatewaySteps(o)' < GatewaySteps(o)
      BY <1>6, <2>2, <3>2, <3>3 DEF GatewaySteps
    <3> QED BY <1>5, <3>1, <3>4
  <2>4. CASE /\ gw[o].refunds[r] = "processing"
             /\ gw' = [gw EXCEPT ![o].refunds[r] = outcome,
                                 ![o].returned = gw[o].returned /\ outcome = "success"]
    <3>1. /\ gw'[o].refunds[r] = outcome
          /\ \A q \in RequestNo \ {r} : gw'[o].refunds[q] = gw[o].refunds[q]
          /\ gw'[o].cleared = gw[o].cleared /\ gw'[o].divides = gw[o].divides
      BY <1>1, <2>4 DEF PayTypeOK, Books
    <3>2. Cardinality(InWork(gw'[o].refunds)) = Cardinality(InWork(gw[o].refunds)) - 1
      BY <2>1, <2>4, <3>1, WorkIsDone
    <3>3. Cardinality(InWork(gw'[o].divides)) = Cardinality(InWork(gw[o].divides))
      BY <3>1
    <3>4. GatewaySteps(o)' < GatewaySteps(o)
      BY <1>6, <2>2, <3>2, <3>3 DEF GatewaySteps
    <3> QED BY <1>5, <3>1, <3>4
  <2> QED BY <1>9, <2>3, <2>4 DEF GatewayFinishes
<1> QED BY <1>4, <1>7, <1>8, <1>9 DEF GatewayStep

\* What a step of the service or of the gateway for x leaves of another order.
LEMMA OthersStandStill ==
    ASSUME PayTypeOK, NEW x \in Orders, ServiceStep(x) \/ GatewayStep(x),
           NEW o \in Orders, o # x
    PROVE  /\ pay'[o] = pay[o] /\ settle'[o] = settle[o] /\ gw'[o] = gw[o]
           /\ \A m \in wire' : m.order = o => m \in wire
<1>1. CASE ServiceStep(x)
  BY <1>1, SMTT(30)
     DEF ServiceStep, AcceptPayment, RefusePayment, ReturnPayment, MarkCleared, TrySplit,
         ApplyDivideResult, SubmitRefund, RefundSucceeded, RefundFailed, RefundHook, PayTypeOK
<1>2. CASE GatewayStep(x)
  BY <1>2 DEF GatewayStep, GatewayClears, GatewayDivides, GatewayRefunds, GatewayFinishes,
     PayTypeOK
<1> QED BY <1>1, <1>2

\* Only so many requests are on their way.
FiniteWire == IsFiniteSet(wire)

LEMMA WireStaysFinite ==
    ASSUME IsFiniteSet(wire), [PayNext]_allVars
    PROVE  IsFiniteSet(wire')
<1>1. ASSUME wire' \subseteq wire PROVE IsFiniteSet(wire')
  BY <1>1, FS_Subset
<1>2. ASSUME NEW m, wire' = wire \cup {m} PROVE IsFiniteSet(wire')
  BY <1>2, FS_AddElement
<1>3. ASSUME NEW o \in Orders, TrySplit(o) \/ SubmitRefund(o) PROVE IsFiniteSet(wire')
  BY <1>2, <1>3 DEF TrySplit, SubmitRefund
<1>4. ASSUME NEW o \in Orders, ServiceStep(o), ~TrySplit(o), ~SubmitRefund(o)
      PROVE  wire' \subseteq wire
  BY <1>4 DEF ServiceStep, AcceptPayment, RefusePayment, MarkCleared, ApplyDivideResult,
     RefundSucceeded, RefundFailed, RefundHook
<1>5. ASSUME NEW o \in Orders,
             \/ GatewayStep(o) \/ Pay(o) \/ GatewayTakesMoney(o)
             \/ ExecuteRefund(o) \/ TakenForFailed(o)
      PROVE  wire' \subseteq wire
  BY <1>5 DEF GatewayStep, GatewayClears, GatewayDivides, GatewayRefunds, GatewayFinishes, Pay,
     GatewayTakesMoney, ExecuteRefund, TakenForFailed
<1>6. ASSUME \/ \E s \in Suppliers : BoardMerchant(s)
             \/ QueueCancelledPaidRefunds
             \/ \E m \in wire : LoseRequest(m)
             \/ ServerCrash
      PROVE  wire' \subseteq wire
  BY <1>6 DEF BoardMerchant, QueueCancelledPaidRefunds, LoseRequest, ServerCrash
<1>7. ASSUME UNCHANGED payVars PROVE wire' \subseteq wire
  BY <1>7 DEF payVars
<1> QED BY <1>1, <1>3, <1>4, <1>5, <1>6, <1>7 DEF PayNext, PaymentStep, allVars, payVars

LEMMA NobodyFallsBack ==
    ASSUME BooksInv, NumbersInv, IsFiniteSet(wire), [PayNext]_allVars, NEW o \in Orders
    PROVE  NotFurther(o) /\ (ServiceStep(o) \/ GatewayStep(o) => Nearer(o))
<1>0. PayTypeOK /\ pay[o] \in Payment /\ gw[o] \in Books /\ settle[o] \in Settlement
  BY BooksFacts DEF BooksInv
<1>a. IsFiniteSet(wire')
  BY WireStaysFinite
<1>1. ServiceStep(o) \/ GatewayStep(o) => Nearer(o)
  BY <1>a, ServiceComesNearer, GatewayComesNearer
<1>2. Nearer(o) => NotFurther(o)
  <2> HIDE DEF GatewaySteps, ClearingSteps, SplitSteps, RefundSteps
  <2> QED BY <1>a, StepsAreNumbers DEF Nearer, NotFurther, SplitLeft, RefundLeft
<1>b. ASSUME pay'[o].cleared = pay[o].cleared, gw'[o].cleared = gw[o].cleared,
             gw'[o].divides = gw[o].divides, gw'[o].refunds = gw[o].refunds,
             \A m \in wire' : m.order = o => m \in wire
      PROVE  GatewaySteps(o)' <= GatewaySteps(o) /\ ClearingSteps(o)' <= ClearingSteps(o)
  BY <1>a, <1>b, GatewayStandsStill DEF ClearingSteps
<1>3. ASSUME settle'[o] = settle[o],
             pay'[o].refund = pay[o].refund,
             pay'[o].cleared = pay[o].cleared, gw'[o].cleared = gw[o].cleared,
             gw'[o].divides = gw[o].divides, gw'[o].refunds = gw[o].refunds,
             \A m \in wire' : m.order = o => m \in wire
      PROVE  NotFurther(o)
  <2>1. SplitSteps(o)' <= SplitSteps(o) /\ RefundSteps(o)' <= RefundSteps(o)
    BY <1>3 DEF SplitSteps, RefundSteps, OpenSplit
  <2> QED BY <1>3, <1>a, <1>b, <2>1, CountsStay
<1>4. ASSUME UNCHANGED payVars PROVE NotFurther(o)
  <2>1. UNCHANGED <<pay, settle, gw, wire>>
    BY <1>4 DEF payVars
  <2> QED BY <1>3, <2>1
<1>5. ASSUME NEW x \in Orders, ServiceStep(x) \/ GatewayStep(x) PROVE NotFurther(o)
  <2>1. CASE x = o
    BY <1>1, <1>2, <1>5, <2>1
  <2>2. CASE x # o
    <3>1. /\ pay'[o] = pay[o] /\ settle'[o] = settle[o] /\ gw'[o] = gw[o]
          /\ \A m \in wire' : m.order = o => m \in wire
      BY <1>0, <1>5, <2>2, OthersStandStill
    <3> QED BY <1>3, <3>1
  <2> QED BY <2>1, <2>2
<1>6. ASSUME NEW x \in Orders, Pay(x) \/ GatewayTakesMoney(x) PROVE NotFurther(o)
  <2>1. CASE Pay(x)
    <3>1. /\ UNCHANGED <<settle, gw, wire>>
          /\ pay'[o] = pay[o] \/ pay'[o] = [pay[o] EXCEPT !.status = "pending"]
      BY <1>0, <2>1 DEF Pay, PayTypeOK
    <3>2. /\ pay'[o].refund = pay[o].refund
          /\ pay'[o].cleared = pay[o].cleared
      BY <1>0, <3>1 DEF Payment
    <3> QED BY <1>3, <3>1, <3>2
  <2>2. CASE GatewayTakesMoney(x)
    <3>1. /\ UNCHANGED <<pay, settle, wire>>
          /\ gw'[o] = gw[o] \/ gw'[o] = [gw[o] EXCEPT !.paid = TRUE]
      BY <1>0, <2>2 DEF GatewayTakesMoney, PayTypeOK
    <3>2. /\ gw'[o].cleared = gw[o].cleared
          /\ gw'[o].divides = gw[o].divides /\ gw'[o].refunds = gw[o].refunds
      BY <1>0, <3>1 DEF Books
    <3> QED BY <1>3, <3>1, <3>2
  <2> QED BY <1>6, <2>1, <2>2
<1>7. ASSUME pay'[o] = pay[o] \/ pay'[o] = [pay[o] EXCEPT !.refund = "pending"],
             pay'[o] = pay[o] \/ pay[o].refund \in {"none", "pending", "failed"},
             UNCHANGED <<settle, gw, wire>>
      PROVE  NotFurther(o)
  <2>1. CASE pay'[o].refund = pay[o].refund
    BY <1>0, <1>3, <1>7, <2>1 DEF Payment
  <2>2. CASE pay'[o].refund # pay[o].refund
    <3>1. ~OpenRefund(o) /\ pay'[o].cleared = pay[o].cleared
      BY <1>0, <1>7, <2>2 DEF OpenRefund, Payment
    <3>2. SplitSteps(o)' <= SplitSteps(o)
      BY <1>7 DEF SplitSteps, OpenSplit
    <3>3. GatewaySteps(o)' <= GatewaySteps(o) /\ ClearingSteps(o)' <= ClearingSteps(o)
      BY <1>7, <1>b, <3>1
    <3> HIDE DEF GatewaySteps, ClearingSteps, SplitSteps, RefundSteps
    <3> QED BY <1>a, <3>1, <3>2, <3>3, StepsAreNumbers DEF NotFurther, SplitLeft
  <2> QED BY <2>1, <2>2
<1>8. ASSUME NEW x \in Orders, ExecuteRefund(x) PROVE NotFurther(o)
  <2>1. /\ UNCHANGED <<settle, gw, wire>>
        /\ pay[x].refund \in {"none", "pending", "failed"}
        /\ pay' = [pay EXCEPT ![x].refund = "pending"]
    BY <1>8 DEF ExecuteRefund, Refundable
  <2>2. \/ pay'[o] = pay[o]
        \/ /\ pay'[o] = [pay[o] EXCEPT !.refund = "pending"]
           /\ pay[o].refund \in {"none", "pending", "failed"}
    BY <1>0, <2>1 DEF PayTypeOK
  <2> QED BY <1>7, <2>1, <2>2
<1>9. ASSUME QueueCancelledPaidRefunds PROVE NotFurther(o)
  <2>1. /\ UNCHANGED <<settle, gw, wire>>
        /\ \/ pay'[o] = pay[o]
           \/ pay'[o] = [pay[o] EXCEPT !.refund = "pending"] /\ pay[o].refund = "none"
    BY <1>9 DEF QueueCancelledPaidRefunds, ClosedUnstarted
  <2> QED BY <1>7, <2>1
<1>10. ASSUME \/ \E s \in Suppliers : BoardMerchant(s)
              \/ \E m \in wire : LoseRequest(m)
              \/ ServerCrash
       PROVE  NotFurther(o)
  <2>1. UNCHANGED <<pay, settle, gw>> /\ wire' \subseteq wire
    BY <1>10 DEF BoardMerchant, LoseRequest, ServerCrash
  <2> QED BY <1>3, <2>1
<1>c. ASSUME NEW x \in Orders, TakenForFailed(x) PROVE NotFurther(o)
  <2>1. UNCHANGED <<gw, wire>> /\ pay'[o].cleared = pay[o].cleared
    BY <1>0, <1>c DEF TakenForFailed, PayTypeOK, Payment
  <2>2. GatewaySteps(o)' <= GatewaySteps(o) /\ ClearingSteps(o)' <= ClearingSteps(o)
    BY <1>b, <2>1
  <2>3. \/ settle'[o] = settle[o] \/ settle'[o].status = "failed"
    BY <1>0, <1>c DEF TakenForFailed, PayTypeOK, Settlement
  <2>4. pay'[o].refund \in {pay[o].refund, "failed"}
    BY <1>0, <1>c DEF TakenForFailed, PayTypeOK, Payment
  <2>5. SplitSteps(o)' <= SplitSteps(o) /\ RefundSteps(o)' <= RefundSteps(o)
    BY <2>3, <2>4 DEF SplitSteps, RefundSteps, OpenSplit
  <2> QED BY <1>a, <2>2, <2>5, CountsStay
<1>11. NotFurther(o)
  BY <1>c, <1>4, <1>5, <1>6, <1>8, <1>9, <1>10 DEF PayNext, PaymentStep, allVars, payVars
<1> QED BY <1>1, <1>11

\* Numbers stay in order.
LEMMA NumbersStep ==
    ASSUME BooksInv, NumbersInv, [PayNext]_allVars
    PROVE  NumbersInv'
<1>0. PayTypeOK
  BY DEF BooksInv
<1> SUFFICES ASSUME NEW o \in Orders PROVE Numbered(o)'
  BY DEF NumbersInv
<1>1. pay[o] \in Payment /\ Fits(o) /\ Numbered(o)
  BY BooksFacts DEF NumbersInv
<1>2. pay'[o].status = pay[o].status /\ pay'[o].refund = pay[o].refund /\ pay'[o].req = pay[o].req
        => Numbered(o)'
  BY <1>1 DEF Numbered
<1>3. CASE UNCHANGED payVars
  BY <1>2, <1>3 DEF payVars
<1>4. ASSUME NEW x \in Orders, GatewayStep(x) \/ GatewayTakesMoney(x) PROVE pay' = pay
  BY <1>4 DEF GatewayStep, GatewayClears, GatewayDivides, GatewayRefunds, GatewayFinishes,
     GatewayTakesMoney
<1>5. ASSUME \/ \E s \in Suppliers : BoardMerchant(s)
             \/ \E m \in wire : LoseRequest(m)
             \/ ServerCrash
      PROVE  pay' = pay
  BY <1>5 DEF BoardMerchant, LoseRequest, ServerCrash
<1>6. CASE QueueCancelledPaidRefunds
  <2>1. \/ pay'[o] = pay[o]
        \/ /\ pay[o].status = "paid" /\ pay[o].refund = "none"
           /\ pay'[o] = [pay[o] EXCEPT !.refund = "pending"]
    BY <1>6 DEF QueueCancelledPaidRefunds, ClosedUnstarted
  <2> QED BY <1>1, <1>2, <2>1, PaymentsAssumption DEF Numbered, Payment
<1>7. ASSUME NEW x \in Orders, Pay(x) \/ ExecuteRefund(x) PROVE Numbered(o)'
  <2>1. \/ pay'[o] = pay[o]
        \/ pay[o].status = "none" /\ pay'[o] = [pay[o] EXCEPT !.status = "pending"]
        \/ /\ pay[o].status = "paid" /\ pay[o].req < MaxRequests
           /\ pay'[o] = [pay[o] EXCEPT !.refund = "pending"]
    BY <1>0, <1>7 DEF Pay, ExecuteRefund, Refundable, PayTypeOK
  <2> QED BY <1>1, <1>2, <2>1, PaymentsAssumption DEF Numbered, Payment
<1>c. ASSUME NEW x \in Orders, TakenForFailed(x) PROVE Numbered(o)'
  <2>1. /\ pay'[o].status = pay[o].status /\ pay'[o].req = pay[o].req
        /\ \/ pay'[o].refund = pay[o].refund
           \/ pay[o].refund = "processing" /\ pay'[o].refund = "failed"
    BY <1>0, <1>1, <1>c DEF TakenForFailed, PayTypeOK, Payment
  <2> QED BY <1>1, <2>1 DEF Numbered
<1>8. ASSUME NEW x \in Orders, ServiceStep(x) PROVE Numbered(o)'
  <2>1. CASE x # o
    <3>1. pay'[o] = pay[o]
      BY <1>0, <1>8, <2>1, OthersStandStill
    <3> QED BY <1>2, <3>1
  <2>2. CASE AcceptPayment(o) \/ MarkCleared(o) \/ TrySplit(o) \/ RefundHook(o)
              \/ \E status \in {"success", "failed"} : ApplyDivideResult(o, status)
    <3>1. pay'[o].refund = pay[o].refund /\ pay'[o].req = pay[o].req
      BY <1>0, <1>1, <2>2 DEF AcceptPayment, MarkCleared, TrySplit, RefundHook, ApplyDivideResult,
         PayTypeOK, Payment
    <3>2. pay'[o].status \in {pay[o].status, "paid"}
      BY <1>0, <1>1, <2>2 DEF AcceptPayment, MarkCleared, TrySplit, RefundHook, ApplyDivideResult,
         PayTypeOK, Payment
    <3> QED BY <1>1, <3>1, <3>2 DEF Numbered
  <2>3. CASE RefusePayment(o)
    <3>1. /\ pay[o].refund = "none" /\ pay'[o].req = pay[o].req
          /\ pay'[o].status = "paid" /\ pay'[o].refund = "pending"
      BY <1>0, <1>1, <2>3 DEF RefusePayment, ReturnPayment, Fits, PayTypeOK, Payment
    <3> QED BY <1>1, <3>1, PaymentsAssumption DEF Numbered
  <2>4. CASE SubmitRefund(o)
    <3>1. /\ pay'[o].req = pay[o].req + 1
          /\ pay'[o].status = "paid" /\ pay'[o].refund = "processing"
      BY <1>0, <1>1, <2>4 DEF SubmitRefund, PayTypeOK, Payment
    <3> QED BY <1>1, <3>1, PaymentsAssumption DEF Numbered, Payment
  <2>5. CASE RefundSucceeded(o)
    <3>1. pay'[o].refund = "success"
      BY <1>0, <1>1, <2>5 DEF RefundSucceeded, PayTypeOK, Payment
    <3> QED BY <3>1 DEF Numbered
  <2>6. CASE RefundFailed(o)
    <3>1. /\ pay[o].refund = "processing" /\ pay'[o].refund = "failed"
          /\ pay'[o].status = pay[o].status
      BY <1>0, <1>1, <2>6 DEF RefundFailed, PayTypeOK, Payment
    <3> QED BY <1>1, <3>1 DEF Numbered
  <2> QED BY <1>8, <2>1, <2>2, <2>3, <2>4, <2>5, <2>6 DEF ServiceStep
<1> QED BY <1>c, <1>2, <1>3, <1>4, <1>5, <1>6, <1>7, <1>8 DEF PayNext, PaymentStep, allVars, payVars

\* An order that is closed is not opened again by whatever happens while its payment waits.
LEMMA LateStays ==
    ASSUME BooksInv, NumbersInv, FundInv, TypeOK, FamiliesAreFlat, [PayNext]_allVars,
           NEW o \in Orders, CameLate(o)
    PROVE  \/ ~ServiceStep(o) /\ CameLate(o)'
           \/ pay'[o].status = "paid" /\ pay'[o].refund = "pending"
<1>0. PayTypeOK /\ pay[o] \in Payment /\ gw[o] \in Books /\ Fits(o)
  BY BooksFacts DEF BooksInv
<1>1. ord' = ord => Drifts(o)
  BY DEF Drifts
<1>2. ASSUME pay'[o] = pay[o], gw'[o].paid, Drifts(o) PROVE CameLate(o)'
  BY <1>2 DEF CameLate, Drifts, Unpaid
<1>3. ~ServiceStep(o) \/ RefusePayment(o)
  <2>1. pay[o].refund = "none" /\ ~OpenSplit(o)
    BY <1>0 DEF CameLate, Fits, OpenSplit
  <2>2. o \notin hooks
    BY DEF CameLate, BooksInv, ToldRightly
  <2> QED BY <2>1, <2>2 DEF CameLate, OpenSplit, ServiceStep, AcceptPayment, Accepts, MarkCleared,
          TrySplit, ApplyDivideResult, SubmitRefund, RefundSucceeded, RefundFailed, RefundHook
<1>4. CASE RefusePayment(o)
  BY <1>0, <1>4 DEF RefusePayment, ReturnPayment, PayTypeOK, Payment
<1>5. ASSUME UNCHANGED allVars PROVE CameLate(o)'
  <2>1. ord' = ord /\ pay' = pay /\ gw' = gw
    BY <1>5 DEF allVars, vars, payVars
  <2> QED BY <1>1, <1>2, <2>1 DEF CameLate
<1>6. ASSUME Elsewhere, UNCHANGED payVars PROVE CameLate(o)'
  <2>1. ASSUME NEW p \in Products, SupplierStep(p) PROVE ord' = ord
    BY <2>1 DEF SupplierStep, CreateProduct, ResubmitProduct, ReviewProduct, OfflineProduct,
       SupplierOfflineProduct, SyncResource
  <2>2. ASSUME NEW s \in Suppliers, FreezeListings(s) PROVE ord' = ord
    BY <2>2 DEF FreezeListings
  <2>3. ASSUME Tick PROVE ord' = ord
    BY <2>3 DEF Tick
  <2>4. Drifts(o)
    BY <1>1, <1>6, <2>1, <2>2, <2>3, TradeDrifts, JobDrifts DEF Elsewhere
  <2> QED BY <1>2, <1>6, <2>4 DEF payVars, CameLate
<1>7. ASSUME NEW x \in Orders, ServiceStep(x), x # o PROVE CameLate(o)'
  <2>1. pay'[o] = pay[o] /\ gw'[o] = gw[o]
    BY <1>0, <1>7, OthersStandStill
  <2>2. Drifts(o)
    <3>1. CASE AcceptPayment(x)
      BY <1>7, <3>1, OthersDrift DEF AcceptPayment
    <3>2. CASE RefundHook(x)
      BY <1>1, <3>2, HookDrifts DEF RefundHook, TellOrder, vars
    <3>3. CASE ~AcceptPayment(x) /\ ~RefundHook(x)
      <4>1. UNCHANGED vars
        BY <1>7, <3>3 DEF ServiceStep, RefusePayment, MarkCleared, TrySplit, ApplyDivideResult,
           SubmitRefund, RefundSucceeded, RefundFailed
      <4> QED BY <1>1, <4>1 DEF vars
    <3> QED BY <3>1, <3>2, <3>3
  <2> QED BY <1>2, <2>1, <2>2 DEF CameLate
<1>8. ASSUME NEW x \in Orders, GatewayStep(x) PROVE CameLate(o)'
  <2>1. UNCHANGED vars /\ pay' = pay
    BY <1>8 DEF GatewayStep, GatewayClears, GatewayDivides, GatewayRefunds, GatewayFinishes
  <2>2. CASE x # o
    <3>1. gw'[o] = gw[o]
      BY <1>0, <1>8, <2>2, OthersStandStill
    <3> QED BY <1>1, <1>2, <2>1, <3>1 DEF vars, CameLate
  <2>3. CASE x = o
    <3>1. GatewayClears(o) => gw'[o].paid = gw[o].paid
      BY <1>0 DEF GatewayClears, PayTypeOK, Books
    <3>2. ASSUME NEW m \in wire, NEW outcome \in Outcome, m.order = o, GatewayDivides(m, outcome)
          PROVE  gw'[o].paid = gw[o].paid
      BY <1>0, <3>2 DEF GatewayDivides, PayTypeOK, Books
    <3>3. ASSUME NEW m \in wire, NEW outcome \in Outcome, m.order = o, GatewayRefunds(m, outcome)
          PROVE  gw'[o].paid = gw[o].paid
      BY <1>0, <3>3 DEF GatewayRefunds, PayTypeOK, Books
    <3>4. ASSUME NEW r \in RequestNo, NEW outcome \in Outcome, GatewayFinishes(o, r, outcome)
          PROVE  gw'[o].paid = gw[o].paid
      BY <1>0, <3>4 DEF GatewayFinishes, PayTypeOK, Books
    <3>5. gw'[o].paid = gw[o].paid
      BY <1>8, <2>3, <3>1, <3>2, <3>3, <3>4 DEF GatewayStep
    <3> QED BY <1>1, <1>2, <2>1, <3>5 DEF vars, CameLate
  <2> QED BY <2>2, <2>3
<1>c. ASSUME NEW x \in Orders, TakenForFailed(x) PROVE CameLate(o)'
  <2>1. pay[o].refund = "none" /\ settle[o].status = "none"
    BY <1>0 DEF CameLate, Fits
  <2>2. UNCHANGED vars /\ gw' = gw /\ pay'[o] = pay[o]
    BY <1>0, <1>c, <2>1 DEF TakenForFailed, PayTypeOK
  <2> QED BY <1>1, <1>2, <2>2 DEF vars, CameLate
<1>9. ASSUME NEW x \in Orders, Pay(x) \/ GatewayTakesMoney(x) \/ ExecuteRefund(x)
      PROVE  CameLate(o)'
  <2>1. UNCHANGED vars
    BY <1>9 DEF Pay, GatewayTakesMoney, ExecuteRefund
  <2>2. pay'[o] = pay[o]
    BY <1>0, <1>9 DEF Pay, GatewayTakesMoney, ExecuteRefund, Refundable, CameLate, PayTypeOK
  <2>3. gw'[o].paid
    BY <1>0, <1>9 DEF Pay, GatewayTakesMoney, ExecuteRefund, CameLate, PayTypeOK, Books
  <2> QED BY <1>1, <1>2, <2>1, <2>2, <2>3 DEF vars
<1>10. ASSUME QueueCancelledPaidRefunds PROVE CameLate(o)'
  <2>1. UNCHANGED vars /\ gw' = gw /\ pay'[o] = pay[o]
    BY <1>10 DEF QueueCancelledPaidRefunds, ClosedUnstarted, CameLate
  <2> QED BY <1>1, <1>2, <2>1 DEF vars, CameLate
<1>11. ASSUME \/ \E s \in Suppliers : BoardMerchant(s)
              \/ \E m \in wire : LoseRequest(m)
              \/ ServerCrash
       PROVE  CameLate(o)'
  <2>1. ord' = ord /\ pay' = pay /\ gw' = gw
    BY <1>11 DEF BoardMerchant, LoseRequest, ServerCrash, Crash, vars
  <2> QED BY <1>1, <1>2, <2>1 DEF CameLate
<1>12. ServiceStep(o) \/ CameLate(o)'
  BY <1>c, <1>5, <1>6, <1>7, <1>8, <1>9, <1>10, <1>11 DEF PayNext, PaymentStep
<1> QED BY <1>3, <1>4, <1>12

\* No request for a split or a refund stays open because somebody waits for what does not
\* come, and no money that comes late is overlooked: what RequestsEnd and LateMoneyGoesBack rest
\* on, for any number of orders and requests, whatever is lost on the way, and although a query
\* may be answered before the request it asks about has arrived, or an error be taken for a
\* failure (trySplit, syncDivides, submitRefund, runRefunds, confirmPayment).
THEOREM RequestsGetThere ==
    PaySpec => /\ []RequestsCanGoOn
               /\ SplitsComeCloser
               /\ RefundsComeCloser
               /\ LateMoneyIsSeen
<1> DEFINE Inv == /\ TypeOK /\ FamiliesAreFlat /\ PayTypeOK
                  /\ BooksInv /\ NumbersInv /\ FundInv /\ FiniteWire
<1>1. PayInit => BooksInv /\ FundInv /\ NumbersInv /\ FiniteWire
  <2>1. PayInit => NumbersInv
    BY DEF PayInit, MoneyInit, NoPayment, NumbersInv, Numbered
  <2>2. PayInit => FundInv
    BY DEF PayInit, Init, MoneyInit, NoOrder, NoPayment, NoBooks, FundInv, Funded, Unpaid,
       GivenBack
  <2>3. PayInit => FiniteWire
    BY FS_EmptySet DEF PayInit, MoneyInit, FiniteWire
  <2> QED BY <2>1, <2>2, <2>3, BooksInit
<1>2. TypeOK /\ FamiliesAreFlat /\ PayTypeOK /\ BooksInv /\ NumbersInv /\ FundInv
         /\ FiniteWire /\ [PayNext]_allVars
        => BooksInv' /\ NumbersInv' /\ FundInv' /\ FiniteWire'
  <2>1. TypeOK /\ FamiliesAreFlat /\ PayTypeOK /\ BooksInv /\ NumbersInv /\ FundInv
           /\ [PayNext]_allVars => BooksInv' /\ NumbersInv' /\ FundInv'
    BY BooksStep, NumbersStep, FundStep
  <2>2. FiniteWire /\ [PayNext]_allVars => FiniteWire'
    BY WireStaysFinite DEF FiniteWire
  <2> QED BY <2>1, <2>2
<1>3. PaySpec => [](StockInv /\ AccessInv /\ HoldInv /\ OpenInv)
  BY PaymentsImplementOrders, OrdersStayGood, PTL DEF OrdersAreObeyed
<1>4. StockInv => TypeOK /\ FamiliesAreFlat
  BY DEF StockInv
<1>5. PaySpec => []Inv
  BY <1>1, <1>2, <1>3, <1>4, PaymentsTypeCorrect, PTL DEF PaySpec
<1>6. Inv => RequestsCanGoOn
  BY OpenCanGoOn
<1>7. Inv /\ [PayNext]_allVars =>
        [\A o \in Orders : OpenSplit(o) /\ OpenSplit(o)' =>
            /\ SplitLeft(o)' <= SplitLeft(o)
            /\ ServiceStep(o) \/ GatewayStep(o) => SplitLeft(o)' < SplitLeft(o)]_allVars
  BY NobodyFallsBack DEF NotFurther, Nearer, FiniteWire
<1>8. Inv /\ [PayNext]_allVars =>
        [\A o \in Orders : OpenRefund(o) /\ OpenRefund(o)' =>
            /\ RefundLeft(o)' <= RefundLeft(o)
            /\ ServiceStep(o) \/ GatewayStep(o) => RefundLeft(o)' < RefundLeft(o)]_allVars
  BY NobodyFallsBack DEF NotFurther, Nearer, FiniteWire
<1>9. Inv /\ [PayNext]_allVars =>
        [\A o \in Orders : CameLate(o) =>
            \/ ~ServiceStep(o) /\ CameLate(o)'
            \/ pay'[o].status = "paid" /\ pay'[o].refund = "pending"]_allVars
  BY LateStays
<1> HIDE DEF Inv
<1> QED BY <1>5, <1>6, <1>7, <1>8, <1>9, PTL DEF PaySpec, SplitsComeCloser, RefundsComeCloser,
        LateMoneyIsSeen

=============================================================================
