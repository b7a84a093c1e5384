------------------------------- MODULE MCLive -------------------------------
(***************************************************************************)
(* What must eventually happen, for the orders, their money and their      *)
(* attestations.  A behaviour is about one of the three: world says which, *)
(* and the others rest.                                                    *)
(***************************************************************************)
EXTENDS Payments, Attestations

CONSTANTS p1, s1

VARIABLE world

liveVars == <<vars, payVars, attVars, world>>

MCProducts == {p1}
MCSuppliers == {s1}
MCSupplierOf == [p \in MCProducts |-> s1]

OnSale(u) == prod = [p \in Products |-> [status |-> "active", stock |-> 1, unit |-> u]]

Unattested ==
    /\ signed = [o \in Orders |-> FALSE]
    /\ due = {}
    /\ att = <<>>
    /\ worker = Resting
    /\ chain = [open |-> FALSE, seq |-> 0, executed |-> {}, pool |-> {}]
    /\ requeues = 0
    /\ faults = 0

\* Orders: one unit on sale, nothing ordered, a restart of the server to come.
OrdersWorld ==
    /\ world = "orders"
    /\ \E u \in Units : OnSale(u)
    /\ ord = [o \in Orders |-> NoOrder]
    /\ now = 0
    /\ crashes = 0
    /\ dlv = [o \in Orders |-> NoDelivery]
    /\ Unattested

\* A buyer who changed their mind about the first order places another one.
MoneyWorld ==
    /\ world = "money"
    /\ OnSale(1)
    /\ ord = [o \in Orders |->
                IF o = 1 THEN [NoOrder EXCEPT !.status = "cancelled", !.qty = 1, !.dur = 1,
                                              !.unit = 1, !.payExp = PayWindow]
                ELSE NoOrder]
    /\ now = MaxTime - 2
    /\ crashes = MaxCrashes
    /\ dlv = [o \in Orders |-> NoDelivery]
    /\ Unattested

\* An order has been recorded, and its delivery too or not yet, and nothing is on
\* the chain; with two rows nothing else goes wrong than uploads.
ChainWorld ==
    /\ world = "chain"
    /\ prod = [p \in Products |-> [status |-> "sold_out", stock |-> 0, unit |-> 1]]
    /\ ord = [o \in Orders |->
                IF o = 1 THEN [NoOrder EXCEPT !.status = "active", !.qty = 1, !.reserved = 1,
                                              !.dur = 1, !.unit = 1, !.payExp = PayWindow,
                                              !.start = 0, !.end = 1]
                ELSE NoOrder]
    /\ now = 0
    /\ dlv = [o \in Orders |-> IF o = 1 THEN [access |-> "delivered", exp |-> 1, confirmed |-> TRUE]
                               ELSE NoDelivery]
    /\ signed = [o \in Orders |-> FALSE]
    /\ due = {}
    /\ worker = Resting
    /\ chain = [open |-> FALSE, seq |-> 0, executed |-> {}, pool |-> {}]
    /\ \/ /\ att = <<NewRow(<<"order", 1>>), NewRow(<<"delivery", 1>>)>>
          /\ crashes = MaxCrashes /\ requeues = MaxRequeues /\ faults = MaxFaults
       \/ /\ att = <<NewRow(<<"order", 1>>)>>
          /\ crashes = 0 /\ requeues = 0 /\ faults = 0

LiveInit ==
    /\ ren = [o \in Orders |-> NoRenewal]
    /\ job = "revoke"
    /\ todo = {}
    /\ capacity = [p \in Products |-> 1]
    /\ MoneyInit
    /\ OrdersWorld \/ MoneyWorld \/ ChainWorld

Jobs == world # "chain" /\ JobStep /\ UNCHANGED <<payVars, attVars, world>>

OrdersStep ==
    /\ world = "orders"
    /\ (\E o \in Orders : OrderStep(o)) \/ Crash \/ Tick
    /\ UNCHANGED <<payVars, attVars, world>>

\* Time passes until the money is taken in.
TradeGoesOn ==
    \/ \E o \in Orders : TradeStep(o)
    \/ Tick /\ \A o \in Orders : pay[o].status # "paid"

\* A split is asked for again, or its order refunded, but not both; the gateway takes
\* its time over splits only.
FewRequests ==
    \A o \in Orders :
        /\ settle[o].req < MaxRequests \/ pay[o].refund = "none"
        /\ ~AnyOf(gw[o].refunds, {"processing"})

Money(Step) == world = "money" /\ Step /\ FewRequests' /\ UNCHANGED <<attVars, world>>

MoneyStep == Money(PaymentStep \/ (TradeGoesOn /\ UNCHANGED payVars))

Chained(Step) == world = "chain" /\ Step /\ UNCHANGED <<payVars, world>>

UploadStep == Chained(ChainStep \/ Restart)

LiveNext == Jobs \/ OrdersStep \/ MoneyStep \/ UploadStep

\* The job loop, the payment service and the gateway, and the worker keep going.
LiveSpec ==
    /\ LiveInit
    /\ [][LiveNext]_liveVars
    /\ WF_liveVars(Jobs)
    /\ \A o \in Orders : /\ WF_liveVars(Money(ServiceStep(o)))
                         /\ WF_liveVars(Money(GatewayStep(o)))
    /\ WF_liveVars(Money(QueueCancelledPaidRefunds))
    /\ WF_liveVars(Chained(ProcessPending))

=============================================================================
