------------------------------- MODULE Leads --------------------------------
(***************************************************************************)
(* Leads of the brokerage and their commissions (internal/intermediary).   *)
(* A user leaves a lead, at most RateMax within RateWindow; the operator   *)
(* assigns it to a vendor, as often as they like and whatever its status;  *)
(* the vendor quotes and closes the deal, which books a commission.        *)
(*                                                                         *)
(* The hits of the limit are in the memory of the server and go with it.   *)
(* The sums are left out: what a commission amounts to is one product of   *)
(* floating-point numbers.  Each commission carries who closed the deal,   *)
(* and in which round, which the code keeps in no table.                   *)
(***************************************************************************)
EXTENDS Integers, Sequences, FiniteSets

CONSTANTS
    LeadUsers,      \* who leaves leads
    LeadVendors,    \* who follows them up
    RateMax,        \* leadRatePerHour
    RateWindow,     \* the hour
    MaxLeads,       \* bound: leads
    MaxRounds,      \* bound: assignments of a lead
    MaxClock,       \* bound: time
    MaxRestarts     \* bound: restarts of the server

ASSUME LeadsAssumption ==
    /\ RateMax \in Nat \ {0}
    /\ RateWindow \in Nat \ {0}

VARIABLES
    leads,          \* leads, in the order of their ids; given: to whom, round by round (history)
    commissions,    \* commissions, in the order of their ids; round, by: history
    rateHits,       \* Handler.rateHits
    clock,
    restarts

leadVars == <<leads, commissions, rateHits, clock, restarts>>

Nobody == "nobody"

Lead == [by : LeadUsers, source : {"form", "equipment_market", "product_inquiry"}, at : Nat,
         status : {"new", "assigned", "quoted", "closed"},
         assignee : LeadVendors \cup {Nobody}, given : Seq(LeadVendors)]

NewLead(u, source) == [by |-> u, source |-> source, at |-> clock, status |-> "new",
                       assignee |-> Nobody, given |-> <<>>]

-----------------------------------------------------------------------------
(* The limit of submissions *)

\* The hits of u that are younger than the window: the last ones, since each came later than
\* those before it.
Kept(u) ==
    LET old == {i \in DOMAIN rateHits[u] : rateHits[u][i] <= clock - RateWindow}
    IN  SubSeq(rateHits[u], Cardinality(old) + 1, Len(rateHits[u]))

AllowLeadRate(u) == Len(Kept(u)) < RateMax

-----------------------------------------------------------------------------
(* Operations *)

\* Repository.CreateLead.
InsertLead(u, source) ==
    /\ Len(leads) < MaxLeads
    /\ leads' = Append(leads, NewLead(u, source))

\* Handler.CreateLead, Handler.CreateFinanceLead: an invalid lead has cost a hit as well.
LeaveLead(u, valid) ==
    /\ AllowLeadRate(u)
    /\ rateHits' = [rateHits EXCEPT ![u] = Append(Kept(u), clock)]
    /\ IF valid THEN InsertLead(u, "form") ELSE UNCHANGED leads
    /\ UNCHANGED <<commissions, clock, restarts>>

\* CreateProductInquiry of compute, for a product without a price.
InquireProduct(u) ==
    /\ InsertLead(u, "product_inquiry")
    /\ UNCHANGED <<commissions, rateHits, clock, restarts>>

\* AssignLead: no condition but the id, and that the row changes.
AssignLead(l, v) ==
    /\ l \in DOMAIN leads
    /\ Len(leads[l].given) < MaxRounds
    /\ leads[l].status # "assigned" \/ leads[l].assignee # v
    /\ leads' = [leads EXCEPT ![l].status = "assigned", ![l].assignee = v,
                              ![l].given = Append(leads[l].given, v)]
    /\ UNCHANGED <<commissions, rateHits, clock, restarts>>

\* QuoteLeadOwned.
QuoteLead(l, v) ==
    /\ l \in DOMAIN leads
    /\ leads[l].assignee = v
    /\ leads[l].status = "assigned"
    /\ leads' = [leads EXCEPT ![l].status = "quoted"]
    /\ UNCHANGED <<commissions, rateHits, clock, restarts>>

\* The WHERE of CloseDeal.
Closable_Mine(l, v) == leads[l].assignee = v
Closable(l, v) == leads[l].assignee = v /\ leads[l].status \in {"assigned", "quoted"}

\* CloseDeal: the lead and its commission in one transaction; valid: the amount of the deal and
\* the rate are in bounds.
CloseDeal(l, v, valid) ==
    /\ valid
    /\ l \in DOMAIN leads
    /\ Closable(l, v)
    /\ leads' = [leads EXCEPT ![l].status = "closed"]
    /\ commissions' = Append(commissions, [lead |-> l, round |-> Len(leads[l].given), by |-> v])
    /\ UNCHANGED <<rateHits, clock, restarts>>

ClockTicks ==
    /\ clock < MaxClock
    /\ clock' = clock + 1
    /\ UNCHANGED <<leads, commissions, rateHits, restarts>>

ServerRestarts ==
    /\ restarts < MaxRestarts
    /\ restarts' = restarts + 1
    /\ rateHits' = [u \in LeadUsers |-> <<>>]
    /\ UNCHANGED <<leads, commissions, clock>>

-----------------------------------------------------------------------------

LeadsInit ==
    /\ leads = <<>>
    /\ commissions = <<>>
    /\ rateHits = [u \in LeadUsers |-> <<>>]
    /\ clock = 0
    /\ restarts = 0

SubmissionStep ==
    \/ \E u \in LeadUsers, valid \in BOOLEAN : LeaveLead(u, valid)
    \/ \E u \in LeadUsers : InquireProduct(u)
    \/ ClockTicks
    \/ ServerRestarts

DealStep ==
    \E l \in DOMAIN leads, v \in LeadVendors :
        AssignLead(l, v) \/ QuoteLead(l, v) \/ (\E valid \in BOOLEAN : CloseDeal(l, v, valid))

LeadsNext == SubmissionStep \/ DealStep

LeadsSpec == LeadsInit /\ [][LeadsNext]_leadVars

-----------------------------------------------------------------------------
(* What must hold *)

LeadsTypeOK ==
    /\ leads \in Seq(Lead)
    /\ commissions \in Seq([lead : DOMAIN leads, round : Nat \ {0}, by : LeadVendors])
    /\ rateHits \in [LeadUsers -> Seq(0..clock)]

\* A user has left at most RateMax leads by the form within any window, for each life
\* of the server: the window slides (allowLeadRate).
LeadsAreLimited ==
    \A u \in LeadUsers, t \in 0..clock :
        Cardinality({l \in DOMAIN leads : /\ leads[l].by = u /\ leads[l].source = "form"
                                          /\ leads[l].at \in (t - RateWindow + 1)..t})
            <= RateMax * (1 + restarts)

\* A deal is closed by the vendor to whom its lead was given in that round, and a round of
\* assignment books one commission at most: who closes it twice, or after the operator gave it
\* to somebody else, is refused, though the operator may give a closed lead out again
\* (the WHERE of CloseDeal, whatever was read before).
CommissionsAreEarned ==
    \A c, d \in DOMAIN commissions :
        LET deal == commissions[c]
            given == leads[deal.lead].given
        IN  /\ deal.round \in DOMAIN given /\ given[deal.round] = deal.by
            /\ c # d => <<deal.lead, deal.round>> # <<commissions[d].lead, commissions[d].round>>

\* Together, what makes the business with leads fair: nobody floods it, and a commission is
\* earned once for each assignment, by the vendor whose turn it was.
LeadsAreFair == LeadsAreLimited /\ CommissionsAreEarned

=============================================================================
