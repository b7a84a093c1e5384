---------------------------- MODULE Attestations ----------------------------
(***************************************************************************)
(* What the platform puts on a block chain about its orders (internal/     *)
(* blockchain, and the hooks of internal/compute that feed it).            *)
(*                                                                         *)
(* An operation on an order commits its transaction and then, in the same  *)
(* handler, records a row with the hash of a payload it builds from the    *)
(* tables as they are by then.  A worker uploads the hashes of pending     *)
(* rows, oldest first, and a verification rebuilds the payload, compares   *)
(* its hash with the row's, and looks the row's transaction up.            *)
(*                                                                         *)
(* The chain is external: transactions carry a sequence number, a          *)
(* transaction whose broadcast timed out may still be executed later.      *)
(***************************************************************************)
EXTENDS Orders, Sequences

CONSTANTS
    BatchSize,      \* rows the worker takes at a time
    MaxAttempts,    \* uploads before a row is a dead letter
    MaxRequeues,    \* bound: times the operator requeues the dead letters
    MaxFaults       \* bound: writes of the worker that the database refuses

ASSUME AttestationsAssumption ==
    /\ BatchSize \in Nat \ {0}
    /\ MaxAttempts \in Nat \ {0}
    /\ MaxRequeues \in Nat
    /\ MaxFaults \in Nat

VARIABLES
    signed,     \* order_renewals.previous_confirmed_at is not NULL
    due,        \* hooks still to run: what a committed operation has yet to record
    att,        \* blockchain_attestations, in the order of their ids
    worker,     \* processPendingOnce: where it is, its batch, its sequence number or transaction
    chain,      \* external: the account, its next sequence number, what was executed, what may be
    requeues, faults    \* how often each has happened

chainVars == <<worker, chain, requeues, faults>>
attVars == <<signed, due, att, chainVars>>
attestVars == <<vars, attVars>>

Targets == {"order", "delivery", "violation"} \X Orders

\* A payload, which stands for its hash: two payloads have the same hash when
\* they are the same.
Hash == [target : Targets, spec : Seq(Products \cup Nat), start : Times]
Attestation == [target : Targets, hash : Hash, status : {"pending", "confirmed", "failed"},
                attempts : Nat, tx : (Hash \X Nat) \cup {<<>>}]
NoTx == <<>>
Resting == [at |-> "idle", batch |-> {}, seq |-> 0, tx |-> NoTx]

-----------------------------------------------------------------------------
(* Payloads *)

\* BuildOrderAttestPayload: only what an order never changes.
OrderSpec(o) == <<ord[o].product, ord[o].qty, ord[o].dur>>

\* The restarts of a lease that recorded when the lease was signed for before them.
SignedBefore(o) == {c \in Children(o) : signed[c]}

\* The start of the lease of a renewal, of a lease before its first restart, or of
\* a lease as it is; None while nobody has signed for it.
DeliveredAt_AsItIs(o) ==
    IF IsRenewal(o) THEN IF ren[o].confirmed THEN ord[o].start ELSE None
    ELSE IF dlv[o].confirmed THEN ord[o].start
    ELSE None
DeliveredAt(o) ==
    IF IsRenewal(o) THEN IF ren[o].confirmed THEN ord[o].start ELSE None
    ELSE IF SignedBefore(o) # {} THEN ren[Min(SignedBefore(o))].prevStart
    ELSE IF dlv[o].confirmed THEN ord[o].start
    ELSE None

\* The payloads that can be built now, and read again by a verification.
Buildable(t) == t[1] = "delivery" => DeliveredAt(t[2]) # None
Payload(t) == [target |-> t,
               spec |-> IF t[1] = "violation" THEN <<>> ELSE OrderSpec(t[2]),
               start |-> IF t[1] = "delivery" THEN DeliveredAt(t[2]) ELSE None]

-----------------------------------------------------------------------------
(* Operations on orders, with what their handlers have to record *)

Recorded(targets) == due' = due \cup targets

\* PlaceOrder and RenewOrder.
OrderPlaced(o) ==
    /\ \/ \E p \in Products, q \in 1..MaxOrderQuantity, d \in Durations : PlaceOrder(o, p, q, d)
       \/ \E par \in Orders, d \in Durations :
             RenewByExtension(o, par, d) \/ RenewByRestart(o, par, d)
    /\ Recorded({<<"order", o>>})
    /\ UNCHANGED <<signed, att, chainVars>>

\* ConfirmDelivery attests the order the lease was paid by.
DeliverySigned(o, lease) ==
    /\ ConfirmDelivery(o, lease)
    /\ Recorded({<<"delivery", lease>>})
    /\ UNCHANGED <<signed, att, chainVars>>

\* AttestOrderFreeze.
OrderFrozen(o) ==
    /\ FreezeOrder(o)
    /\ Recorded({<<"violation", o>>})
    /\ UNCHANGED <<signed, att, chainVars>>

\* A payment; that of a restart keeps when the lease before it was signed for.
PaymentApplied(o) ==
    /\ PaymentArrives(o)
    /\ signed' = IF IsRenewal(o) /\ ren[o].mode = "restart"
                 THEN [signed EXCEPT ![o] = dlv[ren[o].parent].confirmed]
                 ELSE signed
    /\ UNCHANGED <<due, att, chainVars>>

OtherStep(o) ==
    /\ \/ \E lease \in Orders : DeliverWithAccess(o, lease)
       \/ CancelBuyerOrder(o)
       \/ AdminCancelOrder(o)
       \/ RequestRefund(o)
       \/ CompleteRefund(o)
    /\ UNCHANGED attVars

\* attest: the payload is built after the commit, from what the tables say then;
\* what cannot be built is only logged.
NewRow(t) == [target |-> t, hash |-> Payload(t), status |-> "pending", attempts |-> 0, tx |-> NoTx]

RecordAttestation(t) ==
    /\ t \in due
    /\ due' = due \ {t}
    /\ att' = IF Buildable(t) THEN Append(att, NewRow(t)) ELSE att
    /\ UNCHANGED <<vars, signed, chainVars>>

-----------------------------------------------------------------------------
(* The worker *)

Rows == DOMAIN att
Pending == {i \in Rows : att[i].status = "pending"}

\* The oldest pending rows, up to the size of a batch.
Oldest == {i \in Pending : Cardinality({j \in Pending : j < i}) < BatchSize}

ListPending ==
    /\ worker.at = "idle"
    /\ Pending # {}
    /\ worker' = [Resting EXCEPT !.at = "query", !.batch = Oldest]
    /\ UNCHANGED <<vars, signed, due, att, chain, requeues, faults>>

\* The batch is handled in the order of the ids.
Current == Min(worker.batch)

\* The worker goes on with the rest of its batch.
NextRow ==
    worker' = IF worker.batch = {Current} THEN Resting
              ELSE [Resting EXCEPT !.at = "query", !.batch = worker.batch \ {Current}]

\* RecordFailure: only a pending row counts its attempts.
Failed_ForEver(r) ==
    IF r.status = "pending" THEN [r EXCEPT !.attempts = Min({r.attempts + 1, MaxAttempts})] ELSE r
Failed(r) ==
    IF r.status = "pending"
    THEN [r EXCEPT !.attempts = r.attempts + 1,
                   !.status = IF r.attempts + 1 >= MaxAttempts THEN "failed" ELSE "pending"]
    ELSE r

\* The database takes a write of the worker, or refuses it and the worker goes on.
Written(row) ==
    \/ att' = [att EXCEPT ![Current] = row] /\ UNCHANGED faults
    \/ faults < MaxFaults /\ faults' = faults + 1 /\ UNCHANGED att

\* UploadHash, first call: the sequence number of the account.
AccountMissing ==
    /\ worker.at = "query"
    /\ ~chain.open
    /\ worker' = Resting
    /\ UNCHANGED <<vars, signed, due, att, chain, requeues, faults>>

QueryAccount ==
    /\ worker.at = "query"
    /\ chain.open
    /\ worker' = [worker EXCEPT !.at = "broadcast", !.seq = chain.seq]
    /\ UNCHANGED <<vars, signed, due, att, chain, requeues, faults>>

QueryFails ==
    /\ worker.at = "query"
    /\ Written(Failed(att[Current]))
    /\ NextRow
    /\ UNCHANGED <<vars, signed, due, chain, requeues>>

Transaction == <<att[Current].hash, worker.seq>>

\* Execution on the chain needs the next sequence number; it uses the number up
\* even when the record itself is refused.
Executed(tx, accepted) ==
    [chain EXCEPT !.seq = chain.seq + 1,
                  !.executed = IF accepted THEN chain.executed \cup {tx} ELSE chain.executed,
                  !.pool = chain.pool \ {tx}]

\* UploadHash, second call, committed.
BroadcastCommits ==
    /\ worker.at = "broadcast"
    /\ worker.seq = chain.seq
    /\ chain' = Executed(Transaction, TRUE)
    /\ worker' = [worker EXCEPT !.at = "confirm", !.tx = Transaction]
    /\ UNCHANGED <<vars, signed, due, att, requeues, faults>>

\* It is refused, lost on the way, executed with an error, or times out and stays
\* with the chain.
BroadcastFails ==
    /\ worker.at = "broadcast"
    /\ \/ UNCHANGED chain
       \/ worker.seq = chain.seq /\ chain' = Executed(Transaction, FALSE)
       \/ chain' = [chain EXCEPT !.pool = chain.pool \cup {Transaction}]
    /\ Written(Failed(att[Current]))
    /\ NextRow
    /\ UNCHANGED <<vars, signed, due, requeues>>

Confirmed_OtherTx(r) == [r EXCEPT !.status = "confirmed", !.tx = <<r.hash, chain.seq>>]
Confirmed(r) == [r EXCEPT !.status = "confirmed", !.tx = worker.tx]

MarkConfirmed ==
    /\ worker.at = "confirm"
    /\ Written(Confirmed(att[Current]))
    /\ NextRow
    /\ UNCHANGED <<vars, signed, due, chain, requeues>>

ProcessPending ==
    \/ ListPending
    \/ AccountMissing
    \/ QueryAccount
    \/ QueryFails
    \/ BroadcastCommits
    \/ BroadcastFails
    \/ MarkConfirmed

-----------------------------------------------------------------------------
(* Verification *)

\* main registers how to rebuild the payloads of orders and deliveries, and of nothing else.
Sourced(t) == t[1] \in {"order", "delivery"}

\* Verify, against the tables: the payload is built again and has the hash of the row.
Reproduced(r) == Buildable(r.target) /\ Payload(r.target) = r.hash

\* VerifyHash, against the chain: the transaction was executed, and carries the hash.
VerifyHash(tx, hash) == tx \in chain.executed /\ tx[1] = hash

-----------------------------------------------------------------------------
(* The operator, the chain, and restarts *)

RequeueFailed ==
    /\ requeues < MaxRequeues
    /\ \E i \in Rows : att[i].status = "failed"
    /\ att' = [i \in Rows |-> IF att[i].status = "failed"
                              THEN [att[i] EXCEPT !.status = "pending", !.attempts = 0]
                              ELSE att[i]]
    /\ requeues' = requeues + 1
    /\ UNCHANGED <<vars, signed, due, worker, chain, faults>>

OpenAccount ==
    /\ ~chain.open
    /\ chain' = [chain EXCEPT !.open = TRUE]
    /\ UNCHANGED <<vars, signed, due, att, worker, requeues, faults>>

\* A transaction whose broadcast timed out is executed, or dropped for its number.
PoolMoves(tx) ==
    /\ tx \in chain.pool
    /\ chain' = IF tx[2] = chain.seq THEN Executed(tx, TRUE)
                ELSE [chain EXCEPT !.pool = chain.pool \ {tx}]
    /\ UNCHANGED <<vars, signed, due, att, worker, requeues, faults>>

\* A restart loses the hooks that have not run and the batch.
Restart ==
    /\ Crash
    /\ due' = {}
    /\ worker' = Resting
    /\ UNCHANGED <<signed, att, chain, requeues, faults>>

-----------------------------------------------------------------------------

AttestInit ==
    /\ Init
    /\ signed = [o \in Orders |-> FALSE]
    /\ due = {}
    /\ att = <<>>
    /\ worker = Resting
    /\ chain = [open |-> FALSE, seq |-> 0, executed |-> {}, pool |-> {}]
    /\ requeues = 0
    /\ faults = 0

OrderMoves(o) ==
    \/ OrderPlaced(o)
    \/ \E lease \in Orders : DeliverySigned(o, lease)
    \/ OrderFrozen(o)
    \/ PaymentApplied(o)
    \/ OtherStep(o)

TimePasses == (JobStep \/ Tick) /\ UNCHANGED attVars

ChainStep ==
    \/ ProcessPending
    \/ RequeueFailed
    \/ OpenAccount
    \/ \E tx \in chain.pool : PoolMoves(tx)

AttestNext ==
    \/ (\E p \in Products : SupplierStep(p)) /\ UNCHANGED attVars
    \/ \E o \in Orders : OrderMoves(o)
    \/ TimePasses
    \/ \E t \in due : RecordAttestation(t)
    \/ ChainStep
    \/ Restart

AttestSpec == AttestInit /\ [][AttestNext]_attestVars

-----------------------------------------------------------------------------
(* What must hold *)

\* Whatever becomes of an order after it was attested - paid, extended, started
\* again, taken back, ended - the payload a verification rebuilds is the one that
\* was hashed (BuildOrderAttestPayload, BuildDeliveryAttestPayload, Verify).
AttestationsStayTrue ==
    \A i \in Rows : Sourced(att[i].target) => Reproduced(att[i])

\* A row that says confirmed names a transaction the chain has executed, with the
\* hash of that row, even when an earlier upload of the same hash timed out and
\* was executed after all (processPendingOnce, VerifyHash).
ConfirmedIsOnChain ==
    \A i \in Rows : att[i].status = "confirmed" => VerifyHash(att[i].tx, att[i].hash)

\* Once the account exists every row is uploaded or becomes a dead letter: rows
\* that fail again and again do not keep the rows behind them from the batch
\* (ListPending, RecordFailure).
RowsSettle == (chain.open /\ Pending # {}) ~> Pending = {}

=============================================================================
