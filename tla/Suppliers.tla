----------------------------- MODULE Suppliers ------------------------------
(***************************************************************************)
(* From a user to a supplier with products on sale: identity               *)
(* (internal/user), onboarding, certificates and their expiry, and the     *)
(* review of products (internal/compute: repository.go,                    *)
(* qualification_expiry.go).                                               *)
(*                                                                         *)
(* Identity is checked and written in two statements.  An application      *)
(* holds the row of its user, a review of a product the row of the         *)
(* product, and the sweep of expired certificates, once it has read what   *)
(* it is to do, waits for the products it freezes.                         *)
(***************************************************************************)
EXTENDS Integers, Sequences, FiniteSets

CONSTANTS
    Members,        \* users
    Goods,          \* their products
    OwnerOf,        \* whose product it is
    CertTypes,      \* qual_type, besides "supplier_onboarding"
    Warning,        \* days before the expiry that a supplier is warned: 30
    NoExpiry,
    Desks,          \* requests under way
    MaxQuals,       \* bound: applications and certificates
    MaxIdentities,  \* bound: submissions of an identity
    MaxDay,         \* bound: days
    MaxSweeps       \* bound: rounds of the sweep

ASSUME SuppliersAssumption ==
    /\ OwnerOf \in [Goods -> Members]
    /\ Warning \in Nat
    /\ NoExpiry \notin 0..MaxDay
    /\ "supplier_onboarding" \notin CertTypes

VARIABLES
    identity,       \* user_kyc and enterprises: 0, or the submission that was written last
                    \* and is verified
    submissions,    \* how many were begun
    quals,          \* supplier_qualifications: [user, type, expires, status, told, seen]
                    \* told: notices; seen: what audit_logs says of its expiry
    suppliers,      \* users with the role
    goods,          \* products.status
    desk,           \* requests between their statements
    sweep,          \* ProcessQualificationExpiries
    sweeps,
    today           \* CURRENT_DATE

supplierVars == <<identity, submissions, quals, suppliers, goods, desk, sweep, sweeps, today>>

Kinds == {"personal", "enterprise"}

Verified(u) == \E kind \in Kinds : identity[u][kind] # 0

IdleDesk == [at |-> "idle"]
IdleSweep == [left |-> {}, doing |-> [at |-> "next"]]

-----------------------------------------------------------------------------
(* Identity *)

Submittable(u, kind) == identity[u][kind] = 0

\* SubmitPersonalKYC, SubmitEnterprise: the read.
BeginIdentity(d, u, kind) ==
    /\ desk[d].at = "idle"
    /\ submissions < MaxIdentities
    /\ Submittable(u, kind)
    /\ submissions' = submissions + 1
    /\ desk' = [desk EXCEPT ![d] = [at |-> "identity", user |-> u, kind |-> kind,
                                    no |-> submissions + 1, read |-> identity[u][kind]]]
    /\ UNCHANGED <<identity, quals, suppliers, goods, sweep, sweeps, today>>

\* ON DUPLICATE KEY UPDATE: the later of two that read the same replaces the other.
WriteIdentity(d) ==
    /\ desk[d].at = "identity"
    /\ identity' = [identity EXCEPT ![desk[d].user][desk[d].kind] = desk[d].no]
    /\ desk' = [desk EXCEPT ![d] = IdleDesk]
    /\ UNCHANGED <<submissions, quals, suppliers, goods, sweep, sweeps, today>>

-----------------------------------------------------------------------------
(* Onboarding and certificates *)

NewQual(u, type, expires) ==
    [user |-> u, type |-> type, expires |-> expires, status |-> "pending", told |-> 0, seen |-> {}]

Onboardings(u) ==
    {q \in DOMAIN quals : /\ quals[q].user = u /\ quals[q].type = "supplier_onboarding"
                          /\ quals[q].status \in {"pending", "verified"}}

\* SELECT id FROM users ... FOR UPDATE.
UserFree_Always(u) == TRUE
UserFree(u) == \A d \in Desks : desk[d].at = "apply" => desk[d].user # u

\* CreateSupplierApplication: its checks, with the user locked; then its INSERT.
BeginApplication(d, u) ==
    /\ desk[d].at = "idle"
    /\ UserFree(u)
    /\ Verified(u)
    /\ u \notin suppliers
    /\ Onboardings(u) = {}
    /\ desk' = [desk EXCEPT ![d] = [at |-> "apply", user |-> u]]
    /\ UNCHANGED <<identity, submissions, quals, suppliers, goods, sweep, sweeps, today>>

InsertApplication(d) ==
    /\ desk[d].at = "apply"
    /\ Len(quals) < MaxQuals
    /\ quals' = Append(quals, NewQual(desk[d].user, "supplier_onboarding", NoExpiry))
    /\ desk' = [desk EXCEPT ![d] = IdleDesk]
    /\ UNCHANGED <<identity, submissions, suppliers, goods, sweep, sweeps, today>>

\* SubmitQualification, CreateQualification: good for today at least.
SubmitQualification(u, type, expires) ==
    /\ Len(quals) < MaxQuals
    /\ expires = NoExpiry \/ expires >= today
    /\ quals' = Append(quals, NewQual(u, type, expires))
    /\ UNCHANGED <<identity, submissions, suppliers, goods, desk, sweep, sweeps, today>>

Expired(q) == quals[q].expires # NoExpiry /\ quals[q].expires < today

\* ReviewQualification: with an onboarding come the role and the verified enterprise.
ReviewQualification(q, verdict) ==
    /\ quals[q].status = "pending"
    /\ verdict = "verified" => ~Expired(q)
    /\ quals' = [quals EXCEPT ![q].status = verdict]
    /\ IF verdict = "verified" /\ quals[q].type = "supplier_onboarding"
       THEN /\ suppliers' = suppliers \cup {quals[q].user}
            /\ submissions' = submissions + 1
            /\ identity' = [identity EXCEPT ![quals[q].user].enterprise = submissions + 1]
       ELSE UNCHANGED <<suppliers, submissions, identity>>
    /\ UNCHANGED <<goods, desk, sweep, sweeps, today>>

\* currentQualification: no later certificate of the type is good.
Current(q) ==
    ~\E n \in (q + 1)..Len(quals) :
        /\ quals[n].user = quals[q].user /\ quals[n].type = quals[q].type
        /\ quals[n].status = "verified" /\ ~Expired(n)

\* requireUnexpiredQualifications.
Unexpired(u) ==
    ~\E q \in DOMAIN quals : /\ quals[q].user = u /\ quals[q].status \in {"verified", "expired"}
                             /\ Expired(q) /\ Current(q)

\* RequireTradingAccess(u, "supplier").
TradingAccess(u) ==
    /\ u \in suppliers
    /\ identity[u].enterprise # 0
    /\ Unexpired(u)
    /\ \E q \in DOMAIN quals : quals[q].user = u /\ quals[q].status = "verified" /\ ~Expired(q)

-----------------------------------------------------------------------------
(* Products *)

Unlocked(p) == \A d \in Desks : desk[d].at \in {"check", "approve"} => desk[d].product # p

\* CreateProduct, ResubmitProduct.
Publish(p) ==
    /\ TradingAccess(OwnerOf[p])
    /\ goods[p] \in {"none", "draft", "offline"}
    /\ Unlocked(p)
    /\ goods' = [goods EXCEPT ![p] = "pending"]
    /\ UNCHANGED <<identity, submissions, quals, suppliers, desk, sweep, sweeps, today>>

\* ReviewProduct: the row is locked.
BeginApproval(d, p) ==
    /\ desk[d].at = "idle"
    /\ goods[p] = "pending"
    /\ Unlocked(p)
    /\ desk' = [desk EXCEPT ![d] = [at |-> "check", product |-> p]]
    /\ UNCHANGED <<identity, submissions, quals, suppliers, goods, sweep, sweeps, today>>

\* Only then are the certificates looked at.
Approvable(p) == Unexpired(OwnerOf[p])

CheckApproval(d) ==
    /\ desk[d].at = "check"
    /\ desk' = [desk EXCEPT ![d] = IF Approvable(@.product) THEN [@ EXCEPT !.at = "approve"]
                                   ELSE IdleDesk]
    /\ UNCHANGED <<identity, submissions, quals, suppliers, goods, sweep, sweeps, today>>

WriteApproval(d) ==
    /\ desk[d].at = "approve"
    /\ goods' = [goods EXCEPT ![desk[d].product] = "active"]
    /\ desk' = [desk EXCEPT ![d] = IdleDesk]
    /\ UNCHANGED <<identity, submissions, quals, suppliers, sweep, sweeps, today>>

RejectProduct(p) ==
    /\ goods[p] = "pending"
    /\ Unlocked(p)
    /\ goods' = [goods EXCEPT ![p] = "draft"]
    /\ UNCHANGED <<identity, submissions, quals, suppliers, desk, sweep, sweeps, today>>

\* OfflineProduct, SupplierOfflineProduct.
TakeOffSale(p) ==
    /\ goods[p] \in {"pending", "active", "sold_out", "frozen"}
    /\ Unlocked(p)
    /\ goods' = [goods EXCEPT ![p] = "offline"]
    /\ UNCHANGED <<identity, submissions, quals, suppliers, desk, sweep, sweeps, today>>

\* What orders do to a product (module Orders).
StockMoves(p) ==
    /\ goods[p] \in {"active", "sold_out"}
    /\ goods' = [goods EXCEPT ![p] = IF @ = "active" THEN "sold_out" ELSE "active"]
    /\ UNCHANGED <<identity, submissions, quals, suppliers, desk, sweep, sweeps, today>>

-----------------------------------------------------------------------------
(* The sweep *)

Due(q) == /\ quals[q].status = "verified" /\ quals[q].expires # NoExpiry
          /\ quals[q].expires <= today + Warning

\* ProcessQualificationExpiries: the ids, which are handled in their order.
BeginSweep ==
    /\ sweep = IdleSweep
    /\ sweeps < MaxSweeps
    /\ sweep' = [IdleSweep EXCEPT !.left = {q \in DOMAIN quals : Due(q)}]
    /\ sweeps' = sweeps + 1
    /\ UNCHANGED <<identity, submissions, quals, suppliers, goods, desk, today>>

Action(q) == IF Expired(q) THEN "qualification_expired" ELSE "qualification_expiring"

\* In the audit log: it survives the notice.
Recorded(q) == Action(q) \in quals[q].seen

\* processQualificationExpiry: what is to be done about the next one.
ReadForSweep ==
    /\ sweep.doing.at = "next"
    /\ \E q \in sweep.left :
         /\ \A n \in sweep.left : q <= n
         /\ sweep' = [left |-> sweep.left \ {q},
                      doing |-> IF Due(q) /\ (Current(q) \/ Expired(q)) /\ ~Recorded(q)
                                THEN [at |-> "write", qual |-> q, action |-> Action(q),
                                      current |-> Current(q)]
                                ELSE [at |-> "next"]]
    /\ UNCHANGED <<identity, submissions, quals, suppliers, goods, desk, sweeps, today>>

Frozen(u) ==
    [p \in Goods |-> IF OwnerOf[p] = u /\ goods[p] \in {"active", "sold_out"} THEN "frozen"
                     ELSE goods[p]]

Noted(qual, action, current) ==
    [qual EXCEPT !.status = IF action = "qualification_expired" THEN "expired" ELSE qual.status,
                 !.told = IF current THEN qual.told + 1 ELSE qual.told,
                 !.seen = qual.seen \cup {action}]

\* The rest of its transaction, which waits for a product that is being reviewed.
WriteSweep ==
    LET s == sweep.doing IN
    /\ s.at = "write"
    /\ IF s.action = "qualification_expired" /\ s.current
       THEN /\ \A p \in Goods : OwnerOf[p] = quals[s.qual].user => Unlocked(p)
            /\ goods' = Frozen(quals[s.qual].user)
       ELSE UNCHANGED goods
    /\ quals' = [quals EXCEPT ![s.qual] = Noted(quals[s.qual], s.action, s.current)]
    /\ sweep' = [sweep EXCEPT !.doing = [at |-> "next"]]
    /\ UNCHANGED <<identity, submissions, suppliers, desk, sweeps, today>>

DayPasses ==
    /\ today < MaxDay
    /\ today' = today + 1
    /\ UNCHANGED <<identity, submissions, quals, suppliers, goods, desk, sweep, sweeps>>

-----------------------------------------------------------------------------

SuppliersInit ==
    /\ identity = [u \in Members |-> [kind \in Kinds |-> 0]]
    /\ submissions = 0
    /\ quals = <<>>
    /\ suppliers = {}
    /\ goods = [p \in Goods |-> "none"]
    /\ desk = [d \in Desks |-> IdleDesk]
    /\ sweep = IdleSweep
    /\ sweeps = 0
    /\ today = 0

IdentityStep ==
    \E d \in Desks :
        \/ WriteIdentity(d)
        \/ \E u \in Members, kind \in Kinds : BeginIdentity(d, u, kind)

OnboardingStep ==
    \/ \E d \in Desks : InsertApplication(d) \/ (\E u \in Members : BeginApplication(d, u))
    \/ \E q \in DOMAIN quals, verdict \in {"verified", "rejected"} : ReviewQualification(q, verdict)

CertificateStep ==
    \E u \in Members, type \in CertTypes, expires \in {NoExpiry} \cup 0..MaxDay :
        SubmitQualification(u, type, expires)

ProductStep ==
    \/ \E p \in Goods : Publish(p) \/ RejectProduct(p) \/ TakeOffSale(p) \/ StockMoves(p)
    \/ \E d \in Desks : \/ \E p \in Goods : BeginApproval(d, p)
                        \/ CheckApproval(d)
                        \/ WriteApproval(d)

SweepStep == BeginSweep \/ ReadForSweep \/ WriteSweep

SuppliersNext ==
    IdentityStep \/ OnboardingStep \/ CertificateStep \/ ProductStep \/ SweepStep \/ DayPasses

SuppliersSpec == SuppliersInit /\ [][SuppliersNext]_supplierVars

-----------------------------------------------------------------------------
(* What must hold *)

OnSale(u) == \E p \in Goods : OwnerOf[p] = u /\ goods[p] \in {"active", "sold_out"}

\* The last certificate of its type that was ever approved.
LastApproved(q) ==
    /\ quals[q].status \in {"verified", "expired"}
    /\ \A n \in (q + 1)..Len(quals) :
         (quals[n].user = quals[q].user /\ quals[n].type = quals[q].type)
            => quals[n].status \notin {"verified", "expired"}

\* Once the sweep has expired a certificate that nothing replaces, its supplier has nothing
\* on sale, whichever review was under way, until a new one is approved: the sweep cannot
\* miss an active row (the comment in ReviewProduct).
SweptSellNothing ==
    \A q \in DOMAIN quals :
        (LastApproved(q) /\ quals[q].status = "expired") => ~OnSale(quals[q].user)

\* A supplier is told once that a certificate expires soon and once that it has, however
\* often the sweep runs (the audit log is the memory of processQualificationExpiry).
ToldOnce == \A q \in DOMAIN quals : quals[q].told <= Cardinality(quals[q].seen)

\* A user has one application that is open or granted, also when two are sent at once, and
\* a supplier has exactly one (the lock of CreateSupplierApplication).
OneOnboarding ==
    \A u \in Members : /\ Cardinality(Onboardings(u)) <= 1
                       /\ u \in suppliers => Cardinality(Onboardings(u)) = 1

\* A verified identity is replaced only by a submission that had read the row before it was
\* verified, or by the approval of the company (SubmitPersonalKYC, ReviewQualification).
IdentityIsKept ==
    [][\A u \in Members, kind \in Kinds :
         (identity[u][kind] # 0 /\ identity'[u][kind] # identity[u][kind]) =>
           \/ \E d \in Desks : desk[d].at = "identity" /\ desk[d].user = u
                               /\ desk[d].no = identity'[u][kind] /\ desk[d].read = 0
           \/ kind = "enterprise" /\ u \in suppliers' \ suppliers]_supplierVars

\* Together, what lets somebody sell: who is swept out sells nothing and is told once, an
\* onboarding is under way once, and an identity that was verified is kept.
SuppliersAreVetted == [](SweptSellNothing /\ ToldOnce /\ OneOnboarding) /\ IdentityIsKept

=============================================================================
