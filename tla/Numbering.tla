------------------------------ MODULE Numbering ------------------------------
(***************************************************************************)
(* The serial numbers of invoices (INV-YYYY-NNNN) and tickets              *)
(* (WO-YYYYMMDD-NNN): one more than the largest number of the period.      *)
(* "Largest" is MAX over a text column, so numbers that have outgrown the  *)
(* digits they are padded to compare by their first digits.                *)
(***************************************************************************)
EXTENDS Naturals

CONSTANTS
    Radix,      \* of a digit
    Limit       \* the first number that has one digit more than the padding

ASSUME NumberingAssumption == Radix \in Nat \ {0, 1} /\ Limit \in Nat \ {0}

\* The digits of a number that stand where the padded ones do; numbers of more than
\* one digit too many do not occur.
Prefix(n) == IF n >= Limit THEN n \div Radix ELSE n

TextLess(m, n) == Prefix(m) < Prefix(n) \/ (Prefix(m) = Prefix(n) /\ m < n)

MaxText(S) == CHOOSE n \in S : \A m \in S : ~TextLess(n, m)

\* NextInvoiceNoFromMax, NextTicketNoFromMax: S are the numbers of the period.
NextNumber(S) == IF S = {} THEN 1 ELSE MaxText(S) + 1

=============================================================================
