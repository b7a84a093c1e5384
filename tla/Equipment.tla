----------------------------- MODULE Equipment ------------------------------
(***************************************************************************)
(* Equipment on offer, and inquiries for it (internal/equipment).  The     *)
(* operator reviews what vendors publish; a buyer's inquiry is recorded    *)
(* and then mirrored as a lead (Leads), which may fail without anybody     *)
(* being told.                                                             *)
(*                                                                         *)
(* A review reads the listing and writes the verdict WHERE id = ?, so a    *)
(* vendor who withdraws the listing in between loses to the verdict.       *)
(***************************************************************************)
EXTENDS Leads

CONSTANTS
    Forms,          \* what vendors send: [used, year, quantity, price, negotiable]
    MinManufactureYear, CurrentYear, NoYear, MaxQuantity,
    Reviewers,      \* reviews under way
    Inquirers,      \* inquiries under way
    MaxListings,    \* bound: listings
    MaxInquiries,   \* bound: inquiries
    MaxEdits        \* bound: what vendors do to their listings

VARIABLES
    listings,       \* equipment_products, in the order of their ids
    inquiries,      \* equipment_inquiries, in the order of their ids
    review,         \* ApproveProduct and RejectProduct; raced: the listing changed since the read
    asking,         \* CreateInquiry
    edits

equipmentVars == <<listings, inquiries, review, asking, edits>>
marketVars == <<leadVars, equipmentVars>>

NoReview == [at |-> "idle"]
NoAsking == [at |-> "idle"]

-----------------------------------------------------------------------------
(* Validation *)

ValidYear(y) == y \in MinManufactureYear..CurrentYear

\* ValidateCreateProduct: an item that is not new says from which year it is.
ValidForm(f) ==
    /\ IF f.used THEN ValidYear(f.year) ELSE f.year = NoYear \/ ValidYear(f.year)
    /\ f.quantity \in 1..MaxQuantity
    /\ IF f.negotiable THEN f.price = 0 ELSE f.price > 0

\* ValidateInquiryQuantity.
ValidInquiryQuantity(q, available) == q > 0 /\ available > 0 /\ q <= available

-----------------------------------------------------------------------------
(* Vendors *)

Touched(e) == [r \in Reviewers |-> IF review[r].at = "read" /\ review[r].listing = e
                                   THEN [review[r] EXCEPT !.raced = TRUE] ELSE review[r]]

PublishEquipment(f) ==
    /\ ValidForm(f)
    /\ Len(listings) < MaxListings
    /\ listings' = Append(listings, [status |-> "pending", form |-> f, reason |-> FALSE])
    /\ UNCHANGED <<inquiries, review, asking, edits, leadVars>>

\* ResubmitProduct: drafts and withdrawn listings, back to the review.
ResubmitProduct(e, f) ==
    /\ ValidForm(f)
    /\ edits < MaxEdits
    /\ listings[e].status \in {"draft", "offline"}
    /\ listings' = [listings EXCEPT ![e] = [status |-> "pending", form |-> f, reason |-> FALSE]]
    /\ review' = Touched(e)
    /\ edits' = edits + 1
    /\ UNCHANGED <<inquiries, asking, leadVars>>

\* OfflineProduct: UpdateVendorProductStatus has no condition on the status.
OfflineProduct(e) ==
    /\ edits < MaxEdits
    /\ listings[e].status # "offline"
    /\ listings' = [listings EXCEPT ![e].status = "offline"]
    /\ review' = Touched(e)
    /\ edits' = edits + 1
    /\ UNCHANGED <<inquiries, asking, leadVars>>

-----------------------------------------------------------------------------
(* The operator *)

Reviewable_Existing(e) == TRUE
Reviewable(e) == listings[e].status = "pending"

\* ApproveProduct, RejectProduct: the read.
ReadForReview(r, e, verdict) ==
    /\ review[r].at = "idle"
    /\ Reviewable(e)
    /\ review' = [review EXCEPT ![r] = [at |-> "read", listing |-> e, verdict |-> verdict,
                                        raced |-> FALSE]]
    /\ UNCHANGED <<listings, inquiries, asking, edits, leadVars>>

\* Repository.ReviewProduct: the verdict and the reason, which only a rejection has.
Verdict(e, verdict) == [listings[e] EXCEPT !.status = verdict, !.reason = (verdict = "draft")]

ReviewProduct(r) ==
    /\ review[r].at = "read"
    /\ LET e == review[r].listing IN
         /\ listings' = [listings EXCEPT ![e] = Verdict(e, review[r].verdict)]
         /\ review' = [Touched(e) EXCEPT ![r] = NoReview]
    /\ UNCHANGED <<inquiries, asking, edits, leadVars>>

-----------------------------------------------------------------------------
(* Buyers *)

\* CreateInquiry: the read of the listing.
BeginInquiry(i, e, u, q) ==
    /\ asking[i].at = "idle"
    /\ listings[e].status = "active"
    /\ ValidInquiryQuantity(q, listings[e].form.quantity)
    /\ asking' = [asking EXCEPT ![i] = [at |-> "insert", listing |-> e, by |-> u, quantity |-> q,
                                        seen |-> listings[e].form.quantity]]
    /\ UNCHANGED <<listings, inquiries, review, edits, leadVars>>

AfterInsert(i, ok) == IF ok THEN [asking[i] EXCEPT !.at = "mirror"] ELSE NoAsking

InsertInquiry(i, ok) ==
    LET a == asking[i] IN
    /\ a.at = "insert"
    /\ IF ok THEN /\ Len(inquiries) < MaxInquiries
                  /\ inquiries' = Append(inquiries, [listing |-> a.listing, by |-> a.by,
                                                     quantity |-> a.quantity, seen |-> a.seen])
             ELSE UNCHANGED inquiries
    /\ asking' = [asking EXCEPT ![i] = AfterInsert(i, ok)]
    /\ UNCHANGED <<listings, review, edits, leadVars>>

\* The lead, or a line in the log.
MirrorLead(i, ok) ==
    /\ asking[i].at = "mirror"
    /\ IF ok THEN InsertLead(asking[i].by, "equipment_market") ELSE UNCHANGED leads
    /\ asking' = [asking EXCEPT ![i] = NoAsking]
    /\ UNCHANGED <<listings, inquiries, review, edits, commissions, rateHits, clock, restarts>>

-----------------------------------------------------------------------------

EquipmentInit ==
    /\ LeadsInit
    /\ listings = <<>>
    /\ inquiries = <<>>
    /\ review = [r \in Reviewers |-> NoReview]
    /\ asking = [i \in Inquirers |-> NoAsking]
    /\ edits = 0

VendorStep ==
    \/ \E f \in Forms : PublishEquipment(f)
    \/ \E e \in DOMAIN listings : OfflineProduct(e) \/ (\E f \in Forms : ResubmitProduct(e, f))

ReviewStep ==
    \/ \E r \in Reviewers, e \in DOMAIN listings, verdict \in {"active", "draft"} :
         ReadForReview(r, e, verdict)
    \/ \E r \in Reviewers : ReviewProduct(r)

InquiryStep ==
    \/ \E i \in Inquirers, e \in DOMAIN listings, u \in LeadUsers, q \in 0..MaxQuantity :
         BeginInquiry(i, e, u, q)
    \/ \E i \in Inquirers, ok \in BOOLEAN : InsertInquiry(i, ok) \/ MirrorLead(i, ok)

EquipmentNext == VendorStep \/ ReviewStep \/ InquiryStep

EquipmentSpec == EquipmentInit /\ [][EquipmentNext]_marketVars

-----------------------------------------------------------------------------
(* What must hold *)

EquipmentTypeOK ==
    \A e \in DOMAIN listings :
        /\ listings[e].status \in {"pending", "active", "draft", "offline"}
        /\ listings[e].form \in Forms
        /\ listings[e].form.used => listings[e].form.year \in MinManufactureYear..CurrentYear

\* A listing goes on sale only by the verdict of a review that found it waiting; if it does not
\* wait any more, it was withdrawn, or judged by another review, between the two statements of
\* ApproveProduct.  What it was when the operator looked at it is not asked: a listing that was
\* withdrawn and sent in anew meanwhile is put on sale as it has become.
OnSaleAfterReview ==
    [][\A e \in DOMAIN listings :
         (listings'[e].status = "active" /\ listings[e].status # "active") =>
             \E r \in Reviewers :
                 /\ review[r].at = "read" /\ review[r].listing = e
                 /\ review[r].verdict = "active"
                 /\ listings[e].status = "pending" \/ review[r].raced]_marketVars

\* Whichever of two reviews is written last: a draft says why it was rejected, and what
\* is on sale or under review carries no old reason (ReviewProduct, ResubmitProduct).
DraftsSayWhy ==
    \A e \in DOMAIN listings :
        /\ listings[e].status = "draft" => listings[e].reason
        /\ listings[e].status \in {"active", "pending"} => ~listings[e].reason

\* Every lead of the market stands for an inquiry of its user, one at most for each: an
\* inquiry that was not recorded leaves no lead behind, and one whose mirroring fails has none.
LeadsStandForInquiries ==
    \A u \in LeadUsers :
        Cardinality({l \in DOMAIN leads : leads[l].by = u /\ leads[l].source = "equipment_market"})
            <= Cardinality({i \in DOMAIN inquiries : inquiries[i].by = u})

\* Nobody asks for more than was on offer when they asked, also when the listing has
\* been withdrawn, resubmitted with less and approved again meanwhile.
InquiriesWereOnOffer ==
    \A i \in DOMAIN inquiries : inquiries[i].quantity \in 1..inquiries[i].seen

\* Together, what makes the equipment market true: what goes on sale comes from a review, which
\* may have been overtaken between its two statements, a draft says why it is one, nobody asked
\* for more than was on offer, and there are no more leads of the market than inquiries.
EquipmentIsReviewed ==
    /\ [](EquipmentTypeOK /\ DraftsSayWhy /\ LeadsStandForInquiries /\ InquiriesWereOnOffer)
    /\ OnSaleAfterReview

=============================================================================
