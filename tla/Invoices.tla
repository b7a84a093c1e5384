------------------------------ MODULE Invoices ------------------------------
(***************************************************************************)
(* Invoices for paid orders (internal/invoice): a buyer applies for one    *)
(* invoice over several orders, the operator issues or rejects it, and a   *)
(* rejected one sets its orders free.                                      *)
(*                                                                         *)
(* Apply reads the title of the buyer, then locks the orders it finds      *)
(* billable.  The lock is on the orders; whether an order is on another    *)
(* invoice is read from the snapshot of the transaction, which may be      *)
(* older than the lock.  The unique keys decide at the end.                *)
(*                                                                         *)
(* Orders are seen here only as what Apply asks about them: before they    *)
(* are paid, while they can be invoiced, and after.  The order domain      *)
(* moves them (Orders).                                                    *)
(***************************************************************************)
EXTENDS Numbering, Sequences, FiniteSets, FiniteSetsExt

CONSTANTS
    Applications,   \* requests that may be under way at once
    Payers,         \* buyers
    Bills,          \* orders
    PayerOf,        \* the buyer of each order
    Price,          \* its total amount
    MaxInvoices,    \* bound: invoices
    MaxYears        \* bound: years

ASSUME InvoicesAssumption ==
    /\ PayerOf \in [Bills -> Payers]
    /\ Price \in [Bills -> Nat]

BillStatus == {"pending_payment", "paid", "refunding"}

VARIABLES
    bill,       \* orders.status
    titled,     \* buyers with a row in invoice_titles
    invoices,   \* invoices, in the order of their ids
    links,      \* invoice_orders: <<invoice, order>>
    apply,      \* Apply, for every request: where it is and what it has read
    year        \* the year of the number

invoiceVars == <<bill, titled, invoices, links, apply, year>>

Invoice == [buyer : Payers, year : Nat, no : Nat, amount : Nat,
            status : {"pending", "issued", "rejected"}]
Application == [at : {"idle", "locking", "writing", "conflict"},
                buyer : Payers, bills : SUBSET Bills, taken : SUBSET Bills, since : Nat]

NoApplication == [at |-> "idle", buyer |-> CHOOSE b \in Payers : TRUE,
                  bills |-> {}, taken |-> {}, since |-> 0]

-----------------------------------------------------------------------------
(* What Apply asks *)

CanInvoiceOrder(status) == status \in {"paid", "provisioning", "active", "completed"}

Live(i) == invoices[i].status \in {"pending", "issued"}

\* billableWhere: the orders on an invoice that is pending or issued.
Taken == {l[2] : l \in {k \in links : Live(k[1])}}

\* The rows a request holds locks on until its transaction ends.
Locked_ByNobody(b) == FALSE
Locked(b) == \E r \in Applications : apply[r].at = "writing" /\ b \in apply[r].bills

Numbers(y) == {invoices[i].no : i \in {j \in DOMAIN invoices : invoices[j].year = y}}

SumInvoiceAmount(S) == MapThenSumSet(LAMBDA b : Price[b], S)

\* ReleaseRejectedLinksTx.
Released(S) == {l \in links : ~(l[2] \in S /\ invoices[l[1]].status = "rejected")}

\* The unique keys on invoice_no and on the order of a link.
Unique(y, no, S) == no \notin Numbers(y) /\ \A l \in Released(S) : l[2] \notin S

-----------------------------------------------------------------------------
(* Operations *)

SaveTitle(b) ==
    /\ b \notin titled
    /\ titled' = titled \cup {b}
    /\ UNCHANGED <<bill, invoices, links, apply, year>>

\* Apply: the title, and the snapshot of the transaction.
BeginApply(r, b, S) ==
    /\ apply[r].at = "idle"
    /\ S # {}
    /\ b \in titled
    /\ apply' = [apply EXCEPT ![r] = [at |-> "locking", buyer |-> b, bills |-> S,
                                      taken |-> Taken, since |-> Len(invoices)]]
    /\ UNCHANGED <<bill, titled, invoices, links, year>>

\* LockBillableOrdersByNos waits for the locks of others; all orders must be the
\* buyer's, paid for, and free as far as the snapshot shows.
LockBillableOrders(r) ==
    LET a == apply[r] IN
    /\ a.at = "locking"
    /\ \A b \in a.bills : ~Locked(b)
    /\ apply' = [apply EXCEPT ![r] =
                   IF \A b \in a.bills : /\ PayerOf[b] = a.buyer
                                         /\ CanInvoiceOrder(bill[b])
                                         /\ b \notin a.taken
                   THEN [a EXCEPT !.at = "writing", !.taken = {}]
                   ELSE NoApplication]
    /\ UNCHANGED <<bill, titled, invoices, links, year>>

\* The rest of Apply, and its commit; a unique key undoes all of it.
WriteInvoice(r) ==
    LET a == apply[r]
        no == NextNumber(Numbers(year))
        new == [buyer |-> a.buyer, year |-> year, no |-> no,
                amount |-> SumInvoiceAmount(a.bills), status |-> "pending"] IN
    /\ a.at = "writing"
    /\ IF Unique(year, no, a.bills)
       THEN /\ Len(invoices) < MaxInvoices
            /\ invoices' = Append(invoices, new)
            /\ links' = Released(a.bills) \cup {<<Len(invoices) + 1, b>> : b \in a.bills}
            /\ apply' = [apply EXCEPT ![r] = NoApplication]
       ELSE /\ apply' = [apply EXCEPT ![r] = [NoApplication EXCEPT !.at = "conflict",
                                                                !.since = a.since]]
            /\ UNCHANGED <<invoices, links>>
    /\ UNCHANGED <<bill, titled, year>>

\* The buyer is told that it did not work, and may apply again.
Answered(r) ==
    /\ apply[r].at = "conflict"
    /\ apply' = [apply EXCEPT ![r] = NoApplication]
    /\ UNCHANGED <<bill, titled, invoices, links, year>>

\* IssueInvoice and RejectInvoice: a pending invoice, once.
CloseInvoice(i, status) ==
    /\ i \in DOMAIN invoices
    /\ invoices[i].status = "pending"
    /\ invoices' = [invoices EXCEPT ![i].status = status]
    /\ UNCHANGED <<bill, titled, links, apply, year>>

\* The order domain moves an order that nobody has locked.
BillMoves(b, status) ==
    /\ ~Locked(b)
    /\ \/ bill[b] = "pending_payment" /\ status = "paid"
       \/ bill[b] = "paid" /\ status = "refunding"
    /\ bill' = [bill EXCEPT ![b] = status]
    /\ UNCHANGED <<titled, invoices, links, apply, year>>

NewYear ==
    /\ year < MaxYears
    /\ year' = year + 1
    /\ UNCHANGED <<bill, titled, invoices, links, apply>>

-----------------------------------------------------------------------------

InvoicesInit ==
    /\ bill = [b \in Bills |-> "pending_payment"]
    /\ titled = {}
    /\ invoices = <<>>
    /\ links = {}
    /\ apply = [r \in Applications |-> NoApplication]
    /\ year = 1

InvoiceRequest(r) ==
    \/ \E b \in Payers, S \in SUBSET Bills : BeginApply(r, b, S)
    \/ LockBillableOrders(r)
    \/ WriteInvoice(r)
    \/ Answered(r)

InvoicesNext ==
    \/ \E b \in Payers : SaveTitle(b)
    \/ \E r \in Applications : InvoiceRequest(r)
    \/ \E i \in DOMAIN invoices : CloseInvoice(i, "issued") \/ CloseInvoice(i, "rejected")
    \/ \E b \in Bills, status \in BillStatus : BillMoves(b, status)
    \/ NewYear

InvoicesSpec == InvoicesInit /\ [][InvoicesNext]_invoiceVars

-----------------------------------------------------------------------------
(* What must hold *)

\* An order is on one invoice at most, the rejected ones aside, however often the
\* buyer presses the button: the snapshot of the second application may be older
\* than the first one's links, and the key on invoice_orders refuses it then.
InvoicedOnce ==
    \A i, j \in DOMAIN invoices, b \in Bills :
        (Live(i) /\ Live(j) /\ <<i, b>> \in links /\ <<j, b>> \in links) => i = j

\* An invoice that stands says what its orders cost, even after one of them was on
\* an invoice that was rejected (SumInvoiceAmountFen, ReleaseRejectedLinksTx).
InvoicesAddUp ==
    \A i \in DOMAIN invoices : Live(i) =>
        invoices[i].amount = SumInvoiceAmount({b \in Bills : <<i, b>> \in links})

\* An application that was found in order and still failed lost to another one that
\* came in between, or the numbers of the year have run over their four digits
\* (NextInvoiceNo): orders of a rejected invoice, and a new year, do not get in its way.
ConflictsAreReal ==
    \A r \in Applications : apply[r].at = "conflict" =>
        \/ Len(invoices) > apply[r].since
        \/ \E y \in 1..year : Limit \in Numbers(y)

\* What is invoiced was paid for when the invoice was written: between the check of
\* an order and the commit nobody refunds it (FOR UPDATE in LockBillableOrdersByNos).
InvoicedWasPaid ==
    [][\A l \in links' \ links : CanInvoiceOrder(bill[l[2]])]_invoiceVars

\* Together, what makes the invoices of an order true: each order is in one at most, it adds up
\* to what was paid, a conflict that is reported is one, and what it was made for had been paid.
InvoicesAreTrue == [](InvoicedOnce /\ InvoicesAddUp /\ ConflictsAreReal) /\ InvoicedWasPaid

=============================================================================
