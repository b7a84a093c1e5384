----------------------------- MODULE OrdersLedger -----------------------------
(***************************************************************************)
(* The order domain keeps the stock ledger: products and orders as the     *)
(* ledger sees them.                                                       *)
(***************************************************************************)
EXTENDS Orders

OnShelves == [p \in Products |-> prod[p].stock]
OutOnOrders == [p \in Products |-> Cardinality(HeldUnits(OrdersOf(p)))]
OnSale == [p \in Products |-> prod[p].status = "active"]

Ledger == INSTANCE StockLedger WITH Most <- MaxOrderQuantity, shelf <- OnShelves,
                                    out <- OutOnOrders, total <- capacity, open <- OnSale

\* Every step of the order domain takes units of one product from an open shelf, or
\* puts units back, or counts a shelf, or leaves the stock alone: no step makes up
\* for what another one lost, and none sells what is not on sale (DecrProductStock,
\* IncrProductStock, returnReservedStockTx, SetProductStockTx and all their callers).
StockIsALedger == Ledger!LedgerSpec

=============================================================================
