--------------------------- MODULE MCAttestations ---------------------------
(***************************************************************************)
(* An instance of Attestations: one product on sale.  The account of the   *)
(* platform is opened while there are few rows to upload, and from then on *)
(* only the worker and the chain act; without it the orders go deeper.     *)
(***************************************************************************)
EXTENDS Attestations

CONSTANTS
    p1, s1,
    MaxRows         \* rows there are when the account is opened

MCProducts == {p1}
MCSuppliers == {s1}
MCSupplierOf == [p \in MCProducts |-> s1]

OnSaleInit ==
    /\ prod = [p \in Products |-> [status |-> "active", stock |-> 1, unit |-> 1]]
    /\ ord = [o \in Orders |-> NoOrder]
    /\ ren = [o \in Orders |-> NoRenewal]
    /\ dlv = [o \in Orders |-> NoDelivery]
    /\ now = 0
    /\ job = "revoke"
    /\ todo = {}
    /\ crashes = 0
    /\ capacity = [p \in Products |-> 1]
    /\ signed = [o \in Orders |-> FALSE]
    /\ due = {}
    /\ att = <<>>
    /\ worker = Resting
    /\ chain = [open |-> FALSE, seq |-> 0, executed |-> {}, pool |-> {}]
    /\ \/ requeues = 0 /\ faults = 0
       \/ requeues = MaxRequeues /\ faults = MaxFaults

\* While the account is missing the orders go on, the first ones with their hooks
\* in the air; the job loop, which only ends leases a restart finds over anyway, rests.
MarketStep ==
    /\ ~chain.open
    /\ Len(att) < MaxRows \/ faults = MaxFaults
    /\ due = {} \/ Len(att) + Cardinality(due) < MaxRows
    /\ \/ \E o \in Orders : OrderMoves(o)
       \/ Tick /\ UNCHANGED attVars
       \/ due # {} /\ Restart

RecordStep == \E t \in due : RecordAttestation(t)

\* The worker finds the account missing, until there are rows and it is opened.
AccountStep ==
    /\ ~chain.open
    /\ now = 0
    /\ due = {}
    /\ Len(att) = IF faults = 0 THEN 1 ELSE MaxRows
    /\ ListPending \/ AccountMissing \/ OpenAccount

UploadStep == chain.open /\ (ChainStep \/ (worker.at # "idle" /\ Restart))

OnSaleSpec == OnSaleInit /\ [][MarketStep \/ RecordStep \/ UploadStep \/ AccountStep]_attestVars
=============================================================================
