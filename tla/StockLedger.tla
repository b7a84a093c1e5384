----------------------------- MODULE StockLedger ------------------------------
(***************************************************************************)
(* What the order domain promises about stock, whatever buyers, suppliers, *)
(* operators, payments and jobs do: the units of a product are on its      *)
(* shelf or out on orders.  They are taken from the shelf only while the   *)
(* product is on sale, and no more than there are; they come back; and     *)
(* only a count of the shelf changes how many there are.                   *)
(***************************************************************************)
EXTENDS Naturals

CONSTANTS
    Products,
    Most            \* units a count may find

VARIABLES
    shelf,          \* units on the shelf of each product
    out,            \* units out on orders
    total,          \* all of them, by the last count
    open            \* whether the product is on sale: not the ledger's to decide

ledgerVars == <<shelf, out, total>>

LedgerInit ==
    /\ shelf \in [Products -> 0..Most]
    /\ out = [p \in Products |-> 0]
    /\ total = shelf

Take(p) ==
    /\ open[p]
    /\ \E n \in 1..shelf[p] : /\ shelf' = [shelf EXCEPT ![p] = shelf[p] - n]
                              /\ out' = [out EXCEPT ![p] = out[p] + n]
    /\ UNCHANGED total

GiveBack(p) ==
    /\ \E n \in 1..out[p] : /\ shelf' = [shelf EXCEPT ![p] = shelf[p] + n]
                            /\ out' = [out EXCEPT ![p] = out[p] - n]
    /\ UNCHANGED total

Count(p) ==
    /\ \E n \in 0..Most : /\ shelf' = [shelf EXCEPT ![p] = n]
                          /\ total' = [total EXCEPT ![p] = n + out[p]]
    /\ UNCHANGED out

LedgerNext == \E p \in Products : Take(p) \/ GiveBack(p) \/ Count(p)

LedgerSpec == LedgerInit /\ [][LedgerNext]_ledgerVars

=============================================================================
