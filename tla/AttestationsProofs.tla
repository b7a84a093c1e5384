-------------------------- MODULE AttestationsProofs --------------------------
(***************************************************************************)
(* Theorems about Attestations, for every value of its constants: what a   *)
(* row says is on the chain is there, what was attested of an order stays  *)
(* true whatever becomes of the order, and the worker comes to an end with *)
(* every row.                                                              *)
(***************************************************************************)
EXTENDS Attestations, OrdersLeaseProofs

-----------------------------------------------------------------------------
(* Types *)

Tx == Hash \X Nat
Worker == [at : {"idle", "query", "broadcast", "confirm"}, batch : SUBSET Nat, seq : Nat,
           tx : Tx \cup {NoTx}]
Chain == [open : BOOLEAN, seq : Nat, executed : SUBSET Tx, pool : SUBSET Tx]

AttestTypeOK ==
    /\ signed \in [Orders -> BOOLEAN]
    /\ due \subseteq Targets
    /\ att \in Seq(Attestation)
    /\ worker \in Worker
    /\ chain \in Chain
    /\ requeues \in Nat /\ faults \in Nat

\* The worker is at a row as long as it is at work, and what it has to confirm is executed.
WorkerFits ==
    /\ worker.batch \subseteq Rows
    /\ worker.at = "idle" <=> worker.batch = {}
    /\ worker.at = "confirm" => worker.tx \in chain.executed /\ worker.tx[1] = att[Current].hash

ChainInv == AttestTypeOK /\ WorkerFits /\ ConfirmedIsOnChain

LEMMA DeliveredAtType ==
    ASSUME TypeOK, NEW o \in Orders
    PROVE  DeliveredAt(o) \in Times
<1>1. SignedBefore(o) # {} => Min(SignedBefore(o)) \in Orders
  <2>1. SignedBefore(o) \in SUBSET Nat /\ SignedBefore(o) \subseteq Orders
    BY OrdersAssumption DEF SignedBefore, Children, Orders
  <2> QED BY <2>1, MinOf
<1>2. None \in Times /\ ord[o].start \in Times
  BY DEF Times, TypeOK, Order
<1>3. \A c \in Orders : ren[c].prevStart \in Times
  BY DEF TypeOK, Renewal
<1> QED BY <1>1, <1>2, <1>3 DEF DeliveredAt

LEMMA PayloadType ==
    ASSUME TypeOK, NEW t \in Targets
    PROVE  Payload(t) \in Hash /\ Payload(t).target = t
<1>1. t[2] \in Orders
  BY DEF Targets
<1>2. OrderSpec(t[2]) \in Seq(Products \cup Nat)
  <2>1. /\ ord[t[2]].product \in Products \cup Nat /\ ord[t[2]].qty \in Products \cup Nat
        /\ ord[t[2]].dur \in Products \cup Nat
    BY <1>1 DEF TypeOK, Order
  <2> QED BY <2>1 DEF OrderSpec
<1>3. <<>> \in Seq(Products \cup Nat)
  OBVIOUS
<1>4. DeliveredAt(t[2]) \in Times /\ None \in Times
  BY <1>1, DeliveredAtType DEF Times
<1> QED BY <1>2, <1>3, <1>4 DEF Payload, Hash

LEMMA NewRowType ==
    ASSUME TypeOK, NEW t \in Targets
    PROVE  /\ NewRow(t) \in Attestation
           /\ NewRow(t).status = "pending" /\ NewRow(t).target = t /\ NewRow(t).hash = Payload(t)
BY PayloadType DEF NewRow, Attestation, NoTx

\* The row the worker is at.
LEMMA CurrentRow ==
    ASSUME AttestTypeOK, WorkerFits, worker.at # "idle"
    PROVE  /\ Current \in worker.batch /\ Current \in Rows
           /\ att[Current] \in Attestation
<1>1. worker.batch \in SUBSET Nat /\ worker.batch # {}
  BY DEF AttestTypeOK, WorkerFits, Worker
<1> QED BY <1>1, MinOf DEF Current, AttestTypeOK, WorkerFits, Rows

\* The oldest pending rows are pending rows, and there is one.
LEMMA OldestPending ==
    ASSUME AttestTypeOK, Pending # {}
    PROVE  Oldest \subseteq Pending /\ Oldest # {}
<1>1. Pending \in SUBSET Nat
  BY DEF Pending, Rows, AttestTypeOK
<1>2. Min(Pending) \in Pending /\ \A x \in Pending : Min(Pending) <= x
  BY <1>1, MinOf
<1>3. {j \in Pending : j < Min(Pending)} = {}
  <2> SUFFICES ASSUME NEW j \in Pending, j < Min(Pending) PROVE FALSE
    OBVIOUS
  <2> DEFINE least == Min(Pending)
  <2>1. j \in Nat /\ least \in Nat /\ least <= j /\ j < least
    BY <1>1, <1>2
  <2> HIDE DEF least
  <2> QED BY <2>1
<1>4. Cardinality({j \in Pending : j < Min(Pending)}) < BatchSize
  BY <1>3, FS_EmptySet, AttestationsAssumption
<1> QED BY <1>2, <1>4 DEF Oldest


-----------------------------------------------------------------------------
(* What is confirmed is on the chain *)

\* The invariant goes on as long as rows keep their hashes and the chain what it executed.
LEMMA ChainGoesOn ==
    ASSUME ChainInv, AttestTypeOK', WorkerFits', Rows \subseteq Rows',
           \A i \in Rows : att'[i].hash = att[i].hash,
           chain.executed \subseteq chain'.executed,
           \A i \in Rows' : att'[i].status = "confirmed" =>
              \/ i \in Rows /\ att[i].status = "confirmed" /\ att'[i].tx = att[i].tx
              \/ VerifyHash(att'[i].tx, att'[i].hash)
    PROVE  ChainInv'
<1>1. ASSUME NEW i \in Rows', att'[i].status = "confirmed"
      PROVE  att'[i].tx \in chain'.executed /\ att'[i].tx[1] = att'[i].hash
  <2>1. CASE i \in Rows /\ att[i].status = "confirmed" /\ att'[i].tx = att[i].tx
    <3>1. att[i].tx \in chain.executed /\ att[i].tx[1] = att[i].hash
      BY <2>1 DEF ChainInv, ConfirmedIsOnChain, VerifyHash
    <3>2. att'[i].hash = att[i].hash
      BY <2>1
    <3> QED BY <2>1, <3>1, <3>2
  <2>2. CASE VerifyHash(att'[i].tx, att'[i].hash)
    BY <2>2 DEF VerifyHash
  <2> QED BY <1>1, <2>1, <2>2
<1>2. ConfirmedIsOnChain'
  BY <1>1 DEF ConfirmedIsOnChain, VerifyHash
<1> QED BY <1>2 DEF ChainInv

\* A write of the worker changes at most the row it is at.
LEMMA WrittenRow ==
    ASSUME AttestTypeOK, WorkerFits, worker.at # "idle",
           NEW row \in Attestation, row.hash = att[Current].hash,
           row.target = att[Current].target, Written(row)
    PROVE  /\ att' \in Seq(Attestation) /\ Rows' = Rows /\ faults' \in Nat
           /\ \A i \in Rows : att'[i].hash = att[i].hash /\ att'[i].target = att[i].target
           /\ \A i \in Rows : att'[i] = att[i] \/ att'[i] = row
<1>1. Current \in Rows /\ att[Current] \in Attestation
  BY CurrentRow
<1>2. att \in Seq(Attestation) /\ faults \in Nat
  BY DEF AttestTypeOK
<1> DEFINE c == Current
<1>3. /\ \/ att' = [att EXCEPT ![c] = row] /\ faults' = faults
         \/ att' = att /\ faults' = faults + 1
      /\ c \in DOMAIN att
      /\ row.hash = att[c].hash /\ row.target = att[c].target
  BY <1>1 DEF Written, Rows
<1> HIDE DEF c
<1>4. att' \in Seq(Attestation) /\ DOMAIN att' = DOMAIN att /\ faults' \in Nat
  BY <1>2, <1>3
<1>5. \A i \in DOMAIN att : att'[i] = att[i] \/ (i = c /\ att'[i] = row)
  BY <1>2, <1>3
<1> QED BY <1>3, <1>4, <1>5 DEF Rows

LEMMA FailedRow ==
    ASSUME NEW r \in Attestation
    PROVE  /\ Failed(r) \in Attestation
           /\ Failed(r).hash = r.hash /\ Failed(r).target = r.target /\ Failed(r).tx = r.tx
           /\ Failed(r).status = "confirmed" => r.status = "confirmed"
<1>1. CASE r.status = "pending"
  <2> DEFINE next == IF r.attempts + 1 >= MaxAttempts THEN "failed" ELSE "pending"
  <2>1. Failed(r) = [r EXCEPT !.attempts = r.attempts + 1, !.status = next]
    BY <1>1 DEF Failed
  <2>2. next \in {"pending", "failed"} /\ r.attempts + 1 \in Nat
    BY DEF Attestation
  <2> HIDE DEF next
  <2>3. Failed(r) \in Attestation
    BY <2>1, <2>2 DEF Attestation
  <2>4. /\ Failed(r).hash = r.hash /\ Failed(r).target = r.target /\ Failed(r).tx = r.tx
        /\ Failed(r).status = next
    BY <2>1 DEF Attestation
  <2> QED BY <2>2, <2>3, <2>4
<1>2. CASE r.status # "pending"
  BY <1>2 DEF Failed
<1> QED BY <1>1, <1>2

LEMMA NextRowFits ==
    ASSUME AttestTypeOK, WorkerFits, worker.at # "idle", NextRow, Rows' = Rows
    PROVE  worker' \in Worker /\ WorkerFits'
<1>1. /\ worker.batch \in SUBSET Nat /\ worker.batch \subseteq Rows
      /\ Current \in worker.batch
  BY CurrentRow DEF AttestTypeOK, Worker, WorkerFits
<1> DEFINE rest == worker.batch \ {Current}
<1>2. /\ worker' = IF worker.batch = {Current} THEN Resting
                   ELSE [Resting EXCEPT !.at = "query", !.batch = rest]
      /\ rest \in SUBSET Nat /\ rest \subseteq Rows
      /\ worker.batch # {Current} => rest # {}
  BY <1>1 DEF NextRow
<1> HIDE DEF rest
<1>3. /\ worker' \in Worker
      /\ worker'.batch \subseteq Rows
      /\ worker'.at = "idle" <=> worker'.batch = {}
      /\ worker'.at # "confirm"
  BY <1>2 DEF Resting, Worker, NoTx
<1> QED BY <1>3 DEF WorkerFits


LEMMA ExecutedType ==
    ASSUME chain \in Chain, NEW tx \in Tx, NEW accepted \in BOOLEAN
    PROVE  /\ Executed(tx, accepted) \in Chain
           /\ chain.executed \subseteq Executed(tx, accepted).executed
           /\ accepted => tx \in Executed(tx, accepted).executed
           /\ ~accepted => Executed(tx, accepted).executed = chain.executed
<1> DEFINE known == IF accepted THEN chain.executed \cup {tx} ELSE chain.executed
           left == chain.pool \ {tx}
<1>1. /\ known \in SUBSET Tx /\ left \in SUBSET Tx /\ chain.seq + 1 \in Nat
      /\ chain.executed \subseteq known
      /\ accepted => tx \in known
      /\ ~accepted => known = chain.executed
  BY DEF Chain
<1>2. Executed(tx, accepted) = [chain EXCEPT !.seq = chain.seq + 1, !.executed = known, !.pool = left]
  BY DEF Executed
<1> HIDE DEF known, left
<1>3. Executed(tx, accepted) \in Chain /\ Executed(tx, accepted).executed = known
  BY <1>1, <1>2 DEF Chain
<1> QED BY <1>1, <1>3

\* While only the worker moves on, nothing is said anew.
LEMMA RowsRest ==
    ASSUME ChainInv, AttestTypeOK', WorkerFits', att' = att, chain.executed \subseteq chain'.executed
    PROVE  ChainInv'
BY ChainGoesOn DEF Rows

LEMMA ProcessPendingKeeps ==
    ASSUME ChainInv, ProcessPending
    PROVE  ChainInv'
<1>0. /\ AttestTypeOK /\ WorkerFits
      /\ signed \in [Orders -> BOOLEAN] /\ due \subseteq Targets /\ att \in Seq(Attestation)
      /\ worker \in Worker /\ chain \in Chain /\ requeues \in Nat /\ faults \in Nat
  BY DEF ChainInv, AttestTypeOK
<1>1. CASE ListPending
  <2>1. /\ UNCHANGED <<signed, due, att, chain, requeues, faults>>
        /\ worker' = [Resting EXCEPT !.at = "query", !.batch = Oldest]
        /\ Pending # {}
    BY <1>1 DEF ListPending
  <2>2. Oldest \subseteq Rows /\ Oldest # {} /\ Rows \subseteq Nat
    BY <1>0, <2>1, OldestPending DEF Pending, Rows
  <2>3. worker' \in Worker /\ worker'.batch = Oldest /\ worker'.at = "query"
    BY <2>1, <2>2 DEF Resting, Worker, NoTx
  <2>4. WorkerFits'
    BY <2>1, <2>2, <2>3 DEF WorkerFits, Rows
  <2>5. AttestTypeOK'
    BY <1>0, <2>1, <2>3 DEF AttestTypeOK
  <2> QED BY <2>1, <2>4, <2>5, RowsRest
<1>2. CASE AccountMissing
  <2>1. /\ UNCHANGED <<signed, due, att, chain, requeues, faults>> /\ worker' = Resting
    BY <1>2 DEF AccountMissing
  <2>2. worker' \in Worker /\ WorkerFits'
    BY <2>1 DEF Resting, Worker, NoTx, WorkerFits
  <2>3. AttestTypeOK'
    BY <1>0, <2>1, <2>2 DEF AttestTypeOK
  <2> QED BY <2>1, <2>2, <2>3, RowsRest
<1>3. CASE QueryAccount
  <2>1. /\ UNCHANGED <<signed, due, att, chain, requeues, faults>> /\ worker.at = "query"
        /\ worker' = [worker EXCEPT !.at = "broadcast", !.seq = chain.seq]
    BY <1>3 DEF QueryAccount
  <2>2. worker' \in Worker /\ worker'.at = "broadcast" /\ worker'.batch = worker.batch
    BY <1>0, <2>1 DEF Worker, Chain
  <2>3. WorkerFits'
    BY <1>0, <2>1, <2>2 DEF WorkerFits, Rows
  <2>4. AttestTypeOK'
    BY <1>0, <2>1, <2>2 DEF AttestTypeOK
  <2> QED BY <2>1, <2>3, <2>4, RowsRest
<1>4. CASE BroadcastCommits
  <2> DEFINE tx == Transaction
  <2>1. /\ UNCHANGED <<signed, due, att, requeues, faults>> /\ worker.at = "broadcast"
        /\ chain' = Executed(tx, TRUE)
        /\ worker' = [worker EXCEPT !.at = "confirm", !.tx = tx]
    BY <1>4 DEF BroadcastCommits
  <2>2. /\ att[Current] \in Attestation /\ worker.seq \in Nat
        /\ tx = <<att[Current].hash, worker.seq>>
    BY <1>0, <2>1, CurrentRow DEF Worker, Transaction
  <2>3. tx \in Tx /\ tx[1] = att[Current].hash
    BY <2>2 DEF Tx, Attestation
  <2> HIDE DEF tx
  <2>4. /\ chain' \in Chain /\ chain.executed \subseteq chain'.executed
        /\ tx \in chain'.executed
    BY <1>0, <2>1, <2>3, ExecutedType
  <2>5. /\ worker' \in Worker /\ worker'.at = "confirm" /\ worker'.tx = tx
        /\ worker'.batch = worker.batch
    BY <1>0, <2>1, <2>3 DEF Worker
  <2>6. WorkerFits'
    BY <1>0, <2>1, <2>3, <2>4, <2>5 DEF WorkerFits, Rows, Current
  <2>7. AttestTypeOK'
    BY <1>0, <2>1, <2>4, <2>5 DEF AttestTypeOK
  <2> QED BY <2>1, <2>4, <2>6, <2>7, RowsRest
<1>5. CASE QueryFails \/ BroadcastFails
  <2>1. /\ UNCHANGED <<signed, due, requeues>> /\ worker.at # "idle"
        /\ Written(Failed(att[Current])) /\ NextRow
    BY <1>5 DEF QueryFails, BroadcastFails
  <2>2. att[Current] \in Attestation
    BY <1>0, <2>1, CurrentRow
  <2>3. chain' \in Chain /\ chain.executed = chain'.executed
    <3>1. CASE chain' = chain
      BY <1>0, <3>1
    <3>2. CASE BroadcastFails /\ chain' # chain
      <4> DEFINE tx == Transaction
      <4>1. worker.seq \in Nat
        BY <1>0 DEF Worker
      <4>2. tx \in Tx
        BY <2>2, <4>1 DEF Tx, Attestation, Transaction
      <4>3. \/ chain' = Executed(tx, FALSE)
            \/ chain' = [chain EXCEPT !.pool = chain.pool \cup {tx}]
        BY <3>2 DEF BroadcastFails
      <4> HIDE DEF tx
      <4>4. CASE chain' = [chain EXCEPT !.pool = chain.pool \cup {tx}]
        BY <1>0, <4>2, <4>4 DEF Chain
      <4>5. CASE chain' = Executed(tx, FALSE)
        <5>1. /\ Executed(tx, FALSE) \in Chain
              /\ Executed(tx, FALSE).executed = chain.executed
          BY <1>0, <4>2, ExecutedType
        <5> QED BY <4>5, <5>1
      <4> QED BY <4>3, <4>4, <4>5
    <3> QED BY <1>5, <3>1, <3>2 DEF QueryFails
  <2>4. /\ att' \in Seq(Attestation) /\ Rows' = Rows /\ faults' \in Nat
        /\ \A i \in Rows : att'[i].hash = att[i].hash
        /\ \A i \in Rows : att'[i] = att[i] \/ att'[i] = Failed(att[Current])
    BY <1>0, <2>1, <2>2, FailedRow, WrittenRow
  <2>5. worker' \in Worker /\ WorkerFits'
    BY <1>0, <2>1, <2>4, NextRowFits
  <2>6. AttestTypeOK'
    BY <1>0, <2>1, <2>3, <2>4, <2>5 DEF AttestTypeOK
  <2>7. ASSUME NEW i \in Rows', att'[i].status = "confirmed"
        PROVE  att[i].status = "confirmed" /\ att'[i].tx = att[i].tx
    <3>1. Written(Failed(att[Current])) /\ Current \in Rows
      BY <1>0, <2>1, CurrentRow
    <3> DEFINE c == Current
    <3>2. \/ att' = [att EXCEPT ![c] = Failed(att[c])]
          \/ att' = att
      BY <3>1 DEF Written
    <3>3. c \in Rows /\ att[c] \in Attestation
      BY <2>2, <3>1
    <3> HIDE DEF c
    <3>4. CASE att' = [att EXCEPT ![c] = Failed(att[c])] /\ i = c
      <4>1. att'[i] = Failed(att[c])
        BY <3>3, <3>4 DEF Rows
      <4> QED BY <2>7, <3>3, <3>4, <4>1, FailedRow
    <3>5. CASE att' = att \/ i # c
      BY <2>4, <2>7, <3>2, <3>5 DEF Rows
    <3> QED BY <3>2, <3>4, <3>5
  <2> QED BY <2>3, <2>4, <2>5, <2>6, <2>7, ChainGoesOn
<1>6. CASE MarkConfirmed
  <2> DEFINE row == Confirmed(att[Current])
  <2>1. /\ UNCHANGED <<signed, due, chain, requeues>> /\ worker.at = "confirm"
        /\ Written(row) /\ NextRow
    BY <1>6 DEF MarkConfirmed
  <2>2. /\ att[Current] \in Attestation /\ worker.tx \in chain.executed
        /\ worker.tx[1] = att[Current].hash /\ worker.tx \in Tx
        /\ row = [att[Current] EXCEPT !.status = "confirmed", !.tx = worker.tx]
    BY <1>0, <2>1, CurrentRow DEF WorkerFits, Chain, Confirmed
  <2> HIDE DEF row
  <2>3. /\ row \in Attestation /\ row.hash = att[Current].hash
        /\ row.target = att[Current].target /\ row.tx = worker.tx
    BY <2>2 DEF Attestation, Tx
  <2>4. /\ att' \in Seq(Attestation) /\ Rows' = Rows /\ faults' \in Nat
        /\ \A i \in Rows : att'[i].hash = att[i].hash
        /\ \A i \in Rows : att'[i] = att[i] \/ att'[i] = row
    BY <1>0, <2>1, <2>3, WrittenRow
  <2>5. worker' \in Worker /\ WorkerFits'
    BY <1>0, <2>1, <2>4, NextRowFits
  <2>6. AttestTypeOK'
    BY <1>0, <2>1, <2>4, <2>5 DEF AttestTypeOK
  <2>7. VerifyHash(row.tx, row.hash)
    BY <2>2, <2>3 DEF VerifyHash
  <2> QED BY <2>1, <2>4, <2>5, <2>6, <2>7, ChainGoesOn
<1> QED BY <1>1, <1>2, <1>3, <1>4, <1>5, <1>6 DEF ProcessPending


LEMMA PendingRow ==
    ASSUME NEW r \in Attestation
    PROVE  LET q == [r EXCEPT !.status = "pending", !.attempts = 0] IN
           /\ q \in Attestation /\ q.hash = r.hash /\ q.target = r.target
           /\ q.status = "pending"
<1> DEFINE first == 0
           q == [r EXCEPT !.status = "pending", !.attempts = first]
<1>1. first \in Nat
  OBVIOUS
<1> HIDE DEF first
<1>2. q \in Attestation
  BY <1>1 DEF Attestation
<1>3. q.hash = r.hash /\ q.target = r.target /\ q.status = "pending"
  BY DEF Attestation
<1> QED BY <1>2, <1>3 DEF first

LEMMA RequeueKeeps ==
    ASSUME ChainInv, RequeueFailed
    PROVE  ChainInv'
<1>0. /\ AttestTypeOK /\ WorkerFits
      /\ signed \in [Orders -> BOOLEAN] /\ due \subseteq Targets /\ att \in Seq(Attestation)
      /\ worker \in Worker /\ chain \in Chain /\ requeues \in Nat /\ faults \in Nat
  BY DEF ChainInv, AttestTypeOK
<1>r. requeues' \in Nat
  <2>1. requeues' = requeues + 1
    BY DEF RequeueFailed
  <2> QED BY <1>0, <2>1
<1>1. /\ UNCHANGED <<signed, due, worker, chain, faults>>
      /\ att' = [i \in Rows |-> IF att[i].status = "failed"
                                THEN [att[i] EXCEPT !.status = "pending", !.attempts = 0]
                                ELSE att[i]]
  BY DEF RequeueFailed
<1>2. ASSUME NEW i \in Rows
      PROVE  /\ att'[i] \in Attestation /\ att'[i].hash = att[i].hash
             /\ att'[i].target = att[i].target
             /\ att'[i].status = "confirmed" => att'[i] = att[i]
  <2>1. att[i] \in Attestation
    BY <1>0 DEF Rows
  <2>2. att'[i] = IF att[i].status = "failed"
                  THEN [att[i] EXCEPT !.status = "pending", !.attempts = 0] ELSE att[i]
    BY <1>1
  <2>3. CASE att[i].status = "failed"
    <3>1. att'[i] = [att[i] EXCEPT !.status = "pending", !.attempts = 0]
      BY <2>2, <2>3
    <3> QED BY <2>1, <3>1, PendingRow
  <2>4. CASE att[i].status # "failed"
    BY <2>1, <2>2, <2>4
  <2> QED BY <2>3, <2>4
<1>3. att' \in Seq(Attestation) /\ Rows' = Rows
  <2>1. Rows = 1..Len(att) /\ Len(att) \in Nat
    BY <1>0 DEF Rows
  <2>2. DOMAIN att' = Rows
    BY <1>1
  <2>3. att' \in [1..Len(att) -> Attestation]
    BY <1>1, <1>2, <2>1
  <2> QED BY <2>1, <2>2, <2>3 DEF Rows
<1>4. WorkerFits'
  <2>1. WorkerFits
    BY <1>0
  <2>2. worker.at = "confirm" => att'[Current].hash = att[Current].hash
    BY <1>0, <1>2, CurrentRow
  <2> QED BY <1>1, <1>3, <2>1, <2>2 DEF WorkerFits, Current
<1>5. AttestTypeOK'
  BY <1>0, <1>r, <1>1, <1>3 DEF AttestTypeOK
<1> QED BY <1>1, <1>2, <1>3, <1>4, <1>5, ChainGoesOn

LEMMA OutsideKeeps ==
    ASSUME ChainInv, OpenAccount \/ \E tx \in chain.pool : PoolMoves(tx)
    PROVE  ChainInv'
<1>0. /\ AttestTypeOK /\ WorkerFits
      /\ signed \in [Orders -> BOOLEAN] /\ due \subseteq Targets /\ att \in Seq(Attestation)
      /\ worker \in Worker /\ chain \in Chain /\ requeues \in Nat /\ faults \in Nat
  BY DEF ChainInv, AttestTypeOK
<1>1. UNCHANGED <<signed, due, att, worker, requeues, faults>>
  BY DEF OpenAccount, PoolMoves
<1>2. chain' \in Chain /\ chain.executed \subseteq chain'.executed
  <2>1. CASE OpenAccount
    BY <1>0, <2>1 DEF OpenAccount, Chain
  <2>2. ASSUME NEW tx \in chain.pool, PoolMoves(tx)
        PROVE  chain' \in Chain /\ chain.executed \subseteq chain'.executed
    <3>1. tx \in Tx
      BY <1>0 DEF Chain
    <3>2. \/ chain' = Executed(tx, TRUE)
          \/ chain' = [chain EXCEPT !.pool = chain.pool \ {tx}]
      BY <2>2 DEF PoolMoves
    <3>3. CASE chain' = [chain EXCEPT !.pool = chain.pool \ {tx}]
      BY <1>0, <3>3 DEF Chain
    <3> QED BY <1>0, <3>1, <3>2, <3>3, ExecutedType
  <2> QED BY <2>1, <2>2
<1>3. WorkerFits'
  BY <1>0, <1>1, <1>2 DEF WorkerFits, Rows, Current
<1>4. AttestTypeOK'
  BY <1>0, <1>1, <1>2 DEF AttestTypeOK
<1> QED BY <1>1, <1>2, <1>3, <1>4, RowsRest

\* A new row is not confirmed, and the worker is not at it.
LEMMA RecordKeeps ==
    ASSUME ChainInv, TypeOK, NEW t \in due, RecordAttestation(t)
    PROVE  ChainInv'
<1>0. /\ AttestTypeOK /\ WorkerFits
      /\ signed \in [Orders -> BOOLEAN] /\ due \subseteq Targets /\ att \in Seq(Attestation)
      /\ worker \in Worker /\ chain \in Chain /\ requeues \in Nat /\ faults \in Nat
  BY DEF ChainInv, AttestTypeOK
<1>1. /\ UNCHANGED <<signed, worker, chain, requeues, faults>> /\ due' = due \ {t}
      /\ att' = att \/ att' = Append(att, NewRow(t))
  BY DEF RecordAttestation, chainVars
<1>2. NewRow(t) \in Attestation /\ NewRow(t).status = "pending"
  BY <1>0, NewRowType
<1>3. /\ att' \in Seq(Attestation) /\ Rows \subseteq Rows'
      /\ \A i \in Rows : att'[i] = att[i]
      /\ \A i \in Rows' : i \in Rows \/ att'[i].status = "pending"
  <2>1. CASE att' = att
    BY <1>0, <2>1 DEF Rows
  <2>2. CASE att' = Append(att, NewRow(t))
    BY <1>0, <1>2, <2>2 DEF Rows
  <2> QED BY <1>1, <2>1, <2>2
<1>4. WorkerFits'
  <2>1. WorkerFits
    BY <1>0
  <2>2. worker.at = "confirm" => att'[Current] = att[Current]
    BY <1>0, <1>3, CurrentRow
  <2> QED BY <1>1, <1>3, <2>1, <2>2 DEF WorkerFits, Current
<1>5. AttestTypeOK'
  BY <1>0, <1>1, <1>3 DEF AttestTypeOK
<1>6. \A i \in Rows' : att'[i].status = "confirmed" => i \in Rows /\ att'[i] = att[i]
  BY <1>3
<1> QED BY <1>1, <1>3, <1>4, <1>5, <1>6, ChainGoesOn


\* What happens to orders leaves a hook at most.
LEMMA OrderMovesKeep ==
    ASSUME ChainInv, TypeOK, NEW o \in Orders, OrderMoves(o)
    PROVE  ChainInv' /\ att' = att
<1>0. /\ AttestTypeOK /\ WorkerFits
      /\ signed \in [Orders -> BOOLEAN] /\ due \subseteq Targets /\ att \in Seq(Attestation)
      /\ worker \in Worker /\ chain \in Chain /\ requeues \in Nat /\ faults \in Nat
  BY DEF ChainInv, AttestTypeOK
<1>1. UNCHANGED <<att, worker, chain, requeues, faults>>
  BY DEF OrderMoves, OrderPlaced, DeliverySigned, OrderFrozen, PaymentApplied, OtherStep,
     attVars, chainVars
<1>2. due' \subseteq Targets
  <2>1. ASSUME NEW kind \in {"order", "delivery", "violation"}, NEW x \in Orders,
               Recorded({<<kind, x>>})
        PROVE  due' \subseteq Targets
    BY <1>0, <2>1 DEF Recorded, Targets
  <2>2. CASE OrderPlaced(o)
    BY <2>1, <2>2 DEF OrderPlaced
  <2>3. ASSUME NEW lease \in Orders, DeliverySigned(o, lease) PROVE due' \subseteq Targets
    BY <2>1, <2>3 DEF DeliverySigned
  <2>4. CASE OrderFrozen(o)
    BY <2>1, <2>4 DEF OrderFrozen
  <2>5. CASE PaymentApplied(o) \/ OtherStep(o)
    BY <1>0, <2>5 DEF PaymentApplied, OtherStep, attVars
  <2> QED BY <2>2, <2>3, <2>4, <2>5 DEF OrderMoves
<1>3. signed' \in [Orders -> BOOLEAN]
  <2>1. CASE PaymentApplied(o)
    <3>1. IsRenewal(o) => dlv[ren[o].parent].confirmed \in BOOLEAN
      BY DEF IsRenewal, TypeOK, Renewal, Delivery
    <3> QED BY <1>0, <2>1, <3>1 DEF PaymentApplied
  <2>2. CASE ~PaymentApplied(o)
    BY <1>0, <2>2 DEF OrderMoves, OrderPlaced, DeliverySigned, OrderFrozen, OtherStep, attVars
  <2> QED BY <2>1, <2>2
<1>4. WorkerFits'
  BY <1>0, <1>1 DEF WorkerFits, Rows, Current
<1>5. AttestTypeOK'
  BY <1>0, <1>1, <1>2, <1>3 DEF AttestTypeOK
<1> QED BY <1>1, <1>4, <1>5, RowsRest

LEMMA ChainStepKeeps ==
    ASSUME ChainInv, TypeOK, [AttestNext]_attestVars
    PROVE  ChainInv'
<1>0. /\ AttestTypeOK /\ WorkerFits
      /\ signed \in [Orders -> BOOLEAN] /\ due \subseteq Targets /\ att \in Seq(Attestation)
      /\ worker \in Worker /\ chain \in Chain /\ requeues \in Nat /\ faults \in Nat
  BY DEF ChainInv, AttestTypeOK
<1>1. CASE UNCHANGED attVars
  <2>1. UNCHANGED <<signed, due, att, worker, chain, requeues, faults>>
    BY <1>1 DEF attVars, chainVars
  <2>2. WorkerFits' /\ AttestTypeOK'
    BY <1>0, <2>1 DEF WorkerFits, Rows, Current, AttestTypeOK
  <2> QED BY <2>1, <2>2, RowsRest
<1>2. CASE Restart
  <2>1. UNCHANGED <<signed, att, chain, requeues, faults>> /\ due' = {} /\ worker' = Resting
    BY <1>2 DEF Restart
  <2>2. worker' \in Worker /\ WorkerFits'
    BY <2>1 DEF Resting, Worker, NoTx, WorkerFits
  <2>3. AttestTypeOK'
    BY <1>0, <2>1, <2>2 DEF AttestTypeOK
  <2> QED BY <2>1, <2>2, <2>3, RowsRest
<1>3. CASE ChainStep
  BY <1>3, ProcessPendingKeeps, RequeueKeeps, OutsideKeeps DEF ChainStep
<1> QED BY <1>1, <1>2, <1>3, RecordKeeps, OrderMovesKeep
        DEF AttestNext, attestVars, TimePasses

\* Nothing is said of orders that the orders do not do.
LEMMA AttestationsLeaveOrders == [AttestNext]_attestVars => [Next]_vars
<1> SUFFICES ASSUME [AttestNext]_attestVars PROVE [Next]_vars
  OBVIOUS
<1>1. ASSUME NEW o \in Orders, OrderMoves(o) PROVE [Next]_vars
  BY <1>1 DEF OrderMoves, OrderPlaced, DeliverySigned, OrderFrozen, PaymentApplied, OtherStep,
     Next, OrderStep, TradeStep
<1>2. ASSUME NEW t \in due, RecordAttestation(t) PROVE [Next]_vars
  BY <1>2 DEF RecordAttestation
<1>3. CASE ChainStep
  <2>1. UNCHANGED vars
    BY <1>3 DEF ChainStep, ProcessPending, ListPending, AccountMissing, QueryAccount, QueryFails,
       BroadcastCommits, BroadcastFails, MarkConfirmed, RequeueFailed, OpenAccount, PoolMoves
  <2> QED BY <2>1
<1>4. CASE Restart
  BY <1>4 DEF Restart, Next
<1>5. CASE TimePasses
  BY <1>5 DEF TimePasses, Next
<1>6. ASSUME NEW p \in Products, SupplierStep(p) PROVE [Next]_vars
  BY <1>6 DEF Next
<1>7. CASE UNCHANGED attestVars
  BY <1>7 DEF attestVars
<1> QED BY <1>1, <1>2, <1>3, <1>4, <1>5, <1>6, <1>7 DEF AttestNext

LEMMA AttestationsKeepOrders ==
    AttestSpec => [](StockInv /\ AccessInv /\ HoldInv /\ OpenInv)
<1>1. AttestInit => Init
  BY DEF AttestInit
<1>2. AttestSpec => Spec
  BY <1>1, AttestationsLeaveOrders, PTL DEF AttestSpec, Spec
<1> QED BY <1>2, OrdersStayGood, PTL

LEMMA ChainAlways == AttestSpec => [](TypeOK /\ ChainInv)
<1>1. AttestInit => ChainInv
  <2> SUFFICES ASSUME AttestInit PROVE ChainInv
    OBVIOUS
  <2>1. AttestTypeOK
    BY DEF AttestInit, AttestTypeOK, Resting, Worker, NoTx, Chain
  <2>2. WorkerFits /\ ConfirmedIsOnChain
    BY DEF AttestInit, WorkerFits, Resting, ConfirmedIsOnChain, Rows
  <2> QED BY <2>1, <2>2 DEF ChainInv
<1>2. TypeOK /\ ChainInv /\ [AttestNext]_attestVars => ChainInv'
  BY ChainStepKeeps
<1>3. StockInv => TypeOK
  BY DEF StockInv
<1> QED BY <1>1, <1>2, <1>3, AttestationsKeepOrders, PTL DEF AttestSpec

\* A row that says confirmed names a transaction the chain has executed, with the hash of the
\* row: for any number of rows, any size of the batch, and whatever calls fail, time out and
\* are executed late, and whatever writes the database refuses (processPendingOnce).
THEOREM ConfirmedStaysOnChain == AttestSpec => []ConfirmedIsOnChain
<1>1. TypeOK /\ ChainInv => ConfirmedIsOnChain
  BY DEF ChainInv
<1> QED BY <1>1, ChainAlways, PTL


-----------------------------------------------------------------------------
(* What was attested stays true *)

\* Only a restart that was paid for knows when the lease before it was signed for, and
\* only such a restart is signed for itself.
MarksFit(c) ==
    signed[c] \/ ren[c].confirmed => IsRenewal(c) /\ ren[c].mode = "restart" /\ ren[c].applied

\* A lease nobody has paid for was not signed for, and has no renewals.
UnpaidIsUnsigned(p) ==
    /\ ord[p].status \in {"none", "pending_payment"} => ~dlv[p].confirmed
    /\ ord[p].status = "pending_payment" /\ ~IsRenewal(p) => Children(p) = {}

\* A lease that is to be delivered, for the first time or again, keeps when it was first
\* signed for with its restarts, the last of which was not signed for yet.
Redelivered(p) ==
    ord[p].status \in {"paid", "provisioning"} =>
        /\ dlv[p].confirmed => SignedBefore(p) # {}
        /\ \A l \in Restarts(p) : IsLeaseOrder(l, p) => ~ren[l].confirmed

MarksInv == \A o \in Orders : MarksFit(o) /\ UnpaidIsUnsigned(o) /\ Redelivered(o)

\* Rows and hooks are about orders there are.
Placed(t) == ord[t[2]].status # "none"

TrueInv ==
    /\ MarksInv
    /\ \A t \in due : Placed(t)
    /\ \A i \in Rows : Placed(att[i].target)
    /\ AttestationsStayTrue

\* What a payload is built from: the order itself, and when its lease was signed for first.
Stays(x) ==
    ord[x].status # "none" =>
        /\ ord'[x].status # "none"
        /\ OrderSpec(x)' = OrderSpec(x)
        /\ DeliveredAt(x) # None => DeliveredAt(x)' = DeliveredAt(x)

\* The time of the delivery is not read from the row of x.
StartIsFree(x) ==
    IF IsRenewal(x) THEN ~ren[x].confirmed ELSE SignedBefore(x) # {} \/ ~dlv[x].confirmed

\* A step that pays for no restart, signs for nothing and places nothing.
KeepsMarks(x) ==
    /\ signed'[x] = signed[x]
    /\ ren'[x].parent = ren[x].parent /\ ren'[x].mode = ren[x].mode
    /\ ren'[x].confirmed = ren[x].confirmed /\ ren'[x].prevStart = ren[x].prevStart
    /\ ren'[x].applied = ren[x].applied \/ ren[x].mode = "extend"
    /\ OrderSpec(x)' = OrderSpec(x)
    /\ dlv'[x].confirmed => dlv[x].confirmed
    /\ dlv[x].confirmed => dlv'[x].confirmed \/ SignedBefore(x) # {}
    /\ ord'[x].start = ord[x].start \/ StartIsFree(x)
    /\ \/ ord'[x].status = ord[x].status
       \/ ord[x].status = "pending_payment" /\ ~IsRenewal(x) /\ ord'[x].status = "paid"
       \/ /\ ord[x].status \in {"paid", "provisioning"} /\ ~IsRenewal(x)
          /\ ord'[x].status = "provisioning"
       \/ /\ ord[x].status # "none"
          /\ ord'[x].status \notin {"none", "pending_payment", "paid", "provisioning"}
          /\ IsRenewal(x) => \/ ren[x].mode = "extend"
                             \/ ord'[x].status \in {"completed", "refunding"}
                                   <=> ord[x].status \in {"completed", "refunding"}
                             \/ ord'[ren[x].parent].status \notin {"paid", "provisioning"}

LEMMA KeepingMarks ==
    ASSUME MarksInv, TypeOK, TypeOK', \A x \in Orders : KeepsMarks(x)
    PROVE  MarksInv' /\ \A x \in Orders : Stays(x)
<1>1. ASSUME NEW x \in Orders
      PROVE  /\ IsRenewal(x)' = IsRenewal(x) /\ Children(x)' = Children(x)
             /\ SignedBefore(x)' = SignedBefore(x)
  BY DEF KeepsMarks, IsRenewal, Children, SignedBefore
<1>2. ASSUME NEW x \in Orders PROVE Stays(x)
  <2>1. ord[x].status # "none" => ord'[x].status # "none"
    BY DEF KeepsMarks
  <2>2. CASE IsRenewal(x)
    <3>1. ren[x].confirmed => ord'[x].start = ord[x].start
      BY <2>2 DEF KeepsMarks, StartIsFree
    <3>2. ren'[x].confirmed = ren[x].confirmed
      BY DEF KeepsMarks
    <3>3. DeliveredAt(x) # None => DeliveredAt(x)' = DeliveredAt(x)
      BY <1>1, <2>2, <3>1, <3>2 DEF DeliveredAt
    <3> QED BY <2>1, <3>3 DEF Stays, KeepsMarks
  <2>3. CASE ~IsRenewal(x) /\ SignedBefore(x) # {}
    <3> DEFINE m == Min(SignedBefore(x))
    <3>1. SignedBefore(x) \in SUBSET Nat /\ SignedBefore(x) \subseteq Orders
      BY DEF SignedBefore, Children, Orders
    <3>2. m \in Orders
      BY <2>3, <3>1, MinOf
    <3>3. Min(SignedBefore(x))' = m
      BY <1>1
    <3>4. DeliveredAt(x) = ren[m].prevStart /\ DeliveredAt(x)' = ren'[m].prevStart
      BY <1>1, <2>3, <3>3 DEF DeliveredAt
    <3> HIDE DEF m
    <3>5. DeliveredAt(x)' = DeliveredAt(x)
      BY <3>2, <3>4 DEF KeepsMarks
    <3> QED BY <2>1, <3>5 DEF Stays, KeepsMarks
  <2>4. CASE ~IsRenewal(x) /\ SignedBefore(x) = {}
    <3>1. dlv[x].confirmed => dlv'[x].confirmed /\ ord'[x].start = ord[x].start
      BY <2>4 DEF KeepsMarks, StartIsFree
    <3>2. DeliveredAt(x) # None => DeliveredAt(x)' = DeliveredAt(x)
      BY <1>1, <2>4, <3>1 DEF DeliveredAt
    <3> QED BY <2>1, <3>2 DEF Stays, KeepsMarks
  <2> QED BY <2>2, <2>3, <2>4
<1>3. ASSUME NEW x \in Orders PROVE MarksFit(x)'
  BY <1>1 DEF MarksInv, MarksFit, KeepsMarks
<1>4. ASSUME NEW x \in Orders PROVE UnpaidIsUnsigned(x)'
  <2>1. ord'[x].status \in {"none", "pending_payment"} => ord'[x].status = ord[x].status
    BY DEF KeepsMarks
  <2>2. dlv'[x].confirmed => dlv[x].confirmed
    BY DEF KeepsMarks
  <2> QED BY <1>1, <2>1, <2>2 DEF MarksInv, UnpaidIsUnsigned
<1>5. ASSUME NEW x \in Orders, ord'[x].status \in {"paid", "provisioning"}
      PROVE  /\ dlv'[x].confirmed => SignedBefore(x)' # {}
             /\ \A l \in Restarts(x)' : IsLeaseOrder(l, x)' => ~ren'[l].confirmed
  <2>1. CASE ord[x].status = "pending_payment" /\ ~IsRenewal(x)
    <3>1. Children(x)' = {} /\ ~dlv'[x].confirmed
      BY <1>1, <2>1 DEF MarksInv, UnpaidIsUnsigned, KeepsMarks
    <3> QED BY <3>1 DEF Restarts
  <2>2. CASE ord[x].status \in {"paid", "provisioning"}
    <3>1. ASSUME NEW c \in Children(x), ren[c].mode = "restart"
          PROVE  /\ ren'[c].applied = ren[c].applied
                 /\ ord'[c].status \in {"completed", "refunding"}
                       <=> ord[c].status \in {"completed", "refunding"}
      <4>1. c \in Orders /\ ren[c].parent = x /\ IsRenewal(c)
        BY DEF Children, IsRenewal, Orders
      <4> QED BY <1>5, <3>1, <4>1 DEF KeepsMarks
    <3>2. \A c \in Children(x) : ren'[c].mode = ren[c].mode /\ ren'[c].confirmed = ren[c].confirmed
      BY DEF Children, KeepsMarks
    <3>3. Restarts(x)' = Restarts(x)
      BY <1>1, <3>1, <3>2 DEF Restarts
    <3>4. \A l \in Restarts(x) : IsLeaseOrder(l, x)' = IsLeaseOrder(l, x)
      BY <3>3 DEF IsLeaseOrder
    <3>5. dlv'[x].confirmed => SignedBefore(x) # {}
      BY <2>2 DEF MarksInv, Redelivered, KeepsMarks
    <3>6. \A l \in Restarts(x) : IsLeaseOrder(l, x) => ~ren[l].confirmed
      BY <2>2 DEF MarksInv, Redelivered
    <3>7. \A l \in Restarts(x) : ren'[l].confirmed = ren[l].confirmed
      BY <3>2 DEF Restarts
    <3> QED BY <1>1, <3>3, <3>4, <3>5, <3>6, <3>7
  <2> QED BY <1>5, <2>1, <2>2 DEF KeepsMarks
<1>6. MarksInv'
  BY <1>3, <1>4, <1>5 DEF MarksInv, Redelivered
<1> QED BY <1>2, <1>6


\* A row that is left as it is.
LEMMA LeftAlone ==
    ASSUME NEW x \in Orders, ord'[x] = ord[x], ren'[x] = ren[x], dlv'[x] = dlv[x],
           signed'[x] = signed[x]
    PROVE  KeepsMarks(x)
BY DEF KeepsMarks, OrderSpec

\* Closing the unpaid renewals of a lease leaves all marks.
LEMMA CancelledStays ==
    ASSUME TypeOK, NEW S \in SUBSET Orders, \A c \in S : ord[c].status = "pending_payment",
           NEW x \in Orders
    PROVE  LET row == WithCancelled(S)[x] IN
           /\ row.start = ord[x].start /\ row.product = ord[x].product
           /\ row.qty = ord[x].qty /\ row.dur = ord[x].dur
           /\ row.status = ord[x].status
                \/ (ord[x].status = "pending_payment" /\ row.status = "cancelled")
<1>1. ord[x] \in Order
  BY DEF TypeOK
<1>2. CASE x \in S
  <2>1. WithCancelled(S)[x] = [ord[x] EXCEPT !.status = "cancelled", !.reserved = 0]
    BY <1>2 DEF WithCancelled, Emptied
  <2> QED BY <1>1, <1>2, <2>1 DEF Order
<1>3. CASE x \notin S
  BY <1>3 DEF WithCancelled
<1> QED BY <1>2, <1>3

LEMMA CancelledKeepsMarks ==
    ASSUME TypeOK, NEW S \in SUBSET Orders, \A c \in S : ord[c].status = "pending_payment",
           NEW x \in Orders, ord'[x] = WithCancelled(S)[x], ren'[x] = ren[x],
           dlv'[x] = dlv[x], signed'[x] = signed[x]
    PROVE  KeepsMarks(x)
<1> DEFINE row == WithCancelled(S)[x]
<1>1. /\ row.start = ord[x].start /\ row.product = ord[x].product
      /\ row.qty = ord[x].qty /\ row.dur = ord[x].dur
      /\ row.status = ord[x].status
           \/ (ord[x].status = "pending_payment" /\ row.status = "cancelled")
  BY CancelledStays
<1>2. ord'[x] = row
  OBVIOUS
<1> HIDE DEF row
<1> QED BY <1>1, <1>2 DEF KeepsMarks, OrderSpec

LEMMA WaitingRenewals ==
    ASSUME NEW o \in Orders
    PROVE  /\ OpenRenewals(o) \in SUBSET Orders
           /\ \A c \in OpenRenewals(o) : ord[c].status = "pending_payment"
BY DEF OpenRenewals, Children

LEMMA RevokedKeepsMarks ==
    ASSUME TypeOK, NEW o \in Orders
    PROVE  /\ \A x \in Orders : AccessRevoked(o)[x].confirmed = dlv[x].confirmed
           /\ \A x \in Orders \ {o} : AccessRevoked(o)[x] = dlv[x]
BY DEF AccessRevoked, TypeOK, Delivery

LEMMA CloseOrderKeepsMarks ==
    ASSUME TypeOK, HoldInv, NEW o \in Orders, NEW status, CloseOrder(o, status), signed' = signed,
           ord[o].status # "none", status \in {"cancelled", "completed", "refunded"},
           IsRenewal(o) => ord[o].status \in Waiting /\ status = "cancelled"
    PROVE  \A x \in Orders : KeepsMarks(x)
<1> DEFINE S == IF IsRenewal(o) THEN {} ELSE OpenRenewals(o)
           row == Emptied(o, status)
<1>1. /\ ord' = [WithCancelled(S) EXCEPT ![o] = row]
      /\ dlv' = AccessRevoked(o) /\ ren' = ren
  BY DEF CloseOrder
<1>2. S \in SUBSET Orders /\ \A c \in S : ord[c].status = "pending_payment"
  BY WaitingRenewals
<1>3. WithCancelled(S) \in [Orders -> Order]
  BY WithCancelledType, <1>2
<1>4. /\ row.start = ord[o].start /\ row.product = ord[o].product
      /\ row.qty = ord[o].qty /\ row.dur = ord[o].dur /\ row.status = status
  BY DEF Emptied, TypeOK, Order
<1> HIDE DEF S, row
<1>5. ord'[o] = row /\ \A x \in Orders \ {o} : ord'[x] = WithCancelled(S)[x]
  BY <1>1, <1>3
<1>6. /\ \A x \in Orders : dlv'[x].confirmed = dlv[x].confirmed
      /\ \A x \in Orders \ {o} : dlv'[x] = dlv[x]
  BY <1>1, RevokedKeepsMarks
<1>7. KeepsMarks(o)
  <2>1. IsRenewal(o) => /\ status = "cancelled"
                        /\ ord[o].status \notin {"completed", "refunding"}
    BY DEF Waiting
  <2> QED BY <1>1, <1>4, <1>5, <1>6, <2>1 DEF KeepsMarks, OrderSpec
<1>8. ASSUME NEW x \in Orders \ {o} PROVE KeepsMarks(x)
  BY <1>1, <1>2, <1>5, <1>6, CancelledKeepsMarks
<1> QED BY <1>7, <1>8

\* Freezing, and asking for a refund.
LEMMA StatusKeepsMarks ==
    ASSUME TypeOK, HoldInv, NEW o \in Orders, FreezeOrder(o) \/ RequestRefund(o), signed' = signed
    PROVE  \A x \in Orders : KeepsMarks(x)
<1> DEFINE family == IF IsRenewal(o) THEN ren[o].parent ELSE o
           S == IF FreezeOrder(o) THEN (IF IsRenewal(o) THEN {} ELSE OpenRenewals(o))
                ELSE OpenRenewals(family)
<1>1. PICK status \in {"frozen", "refunding"} :
         /\ ord' = [WithCancelled(S) EXCEPT ![o].status = status]
         /\ status = "frozen" /\ IsRenewal(o) => ord[o].status \notin {"completed", "refunding"}
         /\ status = "refunding" /\ IsRenewal(o) => ord[o].status = "completed"
  <2>1. CASE FreezeOrder(o)
    BY <2>1 DEF FreezeOrder
  <2>2. CASE ~FreezeOrder(o) /\ RequestRefund(o)
    BY <2>2 DEF RequestRefund
  <2> QED BY <2>1, <2>2
<1>2. /\ ren' = ren /\ ord[o].status # "none"
      /\ \A x \in Orders : dlv'[x].confirmed = dlv[x].confirmed
      /\ \A x \in Orders \ {o} : dlv'[x] = dlv[x]
  <2>1. dlv' = dlv \/ dlv' = AccessRevoked(o)
    BY DEF FreezeOrder, RequestRefund
  <2>2. ren' = ren /\ ord[o].status # "none"
    BY DEF FreezeOrder, RequestRefund
  <2> QED BY <2>1, <2>2, RevokedKeepsMarks
<1>3. S \in SUBSET Orders /\ \A c \in S : ord[c].status = "pending_payment"
  <2>1. IsRenewal(o) => ren[o].parent \in Orders
    BY DEF IsRenewal, TypeOK, Renewal
  <2>2. OpenRenewals(family) \in SUBSET Orders
        /\ \A c \in OpenRenewals(family) : ord[c].status = "pending_payment"
    BY DEF OpenRenewals, Children
  <2>3. OpenRenewals(o) \in SUBSET Orders
        /\ \A c \in OpenRenewals(o) : ord[c].status = "pending_payment"
    BY WaitingRenewals
  <2> QED BY <2>2, <2>3
<1> HIDE DEF S
<1>4. WithCancelled(S) \in [Orders -> Order]
  BY WithCancelledType, <1>3
<1> DEFINE w == WithCancelled(S)[o]
<1>5. /\ w \in Order
      /\ w.start = ord[o].start /\ w.product = ord[o].product
      /\ w.qty = ord[o].qty /\ w.dur = ord[o].dur
  BY <1>3, <1>4, CancelledStays
<1>6. ord'[o] = [w EXCEPT !.status = status] /\ \A x \in Orders \ {o} : ord'[x] = WithCancelled(S)[x]
  BY <1>1, <1>4
<1> HIDE DEF w
<1>7. /\ ord'[o].start = ord[o].start /\ ord'[o].product = ord[o].product
      /\ ord'[o].qty = ord[o].qty /\ ord'[o].dur = ord[o].dur /\ ord'[o].status = status
  BY <1>5, <1>6 DEF Order
<1>8. KeepsMarks(o)
  BY <1>1, <1>2, <1>7 DEF KeepsMarks, OrderSpec
<1>9. ASSUME NEW x \in Orders \ {o} PROVE KeepsMarks(x)
  BY <1>2, <1>3, <1>6, CancelledKeepsMarks
<1> QED BY <1>8, <1>9

\* A payment that starts no lease again: signed does not change for it.
LEMMA PaymentKeepsMarks ==
    ASSUME TypeOK, FamiliesAreFlat, MarksInv, NEW o \in Orders, signed' = signed,
           ConfirmPayment(o) \/ ApplyExtension(o)
    PROVE  \A x \in Orders : KeepsMarks(x)
<1>1. CASE ConfirmPayment(o)
  <2>1. /\ ord' = [ord EXCEPT ![o].status = "paid"] /\ ren' = ren /\ dlv' = dlv
        /\ ord[o].status = "pending_payment" /\ ~IsRenewal(o)
    BY <1>1 DEF ConfirmPayment
  <2>2. ord \in [Orders -> Order]
    BY DEF TypeOK
  <2>3. /\ ord'[o].status = "paid" /\ ord'[o].start = ord[o].start
        /\ ord'[o].product = ord[o].product /\ ord'[o].qty = ord[o].qty
        /\ ord'[o].dur = ord[o].dur
        /\ \A x \in Orders \ {o} : ord'[x] = ord[x]
    BY <2>1, <2>2 DEF Order
  <2>4. KeepsMarks(o)
    BY <2>1, <2>3 DEF KeepsMarks, OrderSpec
  <2>5. \A x \in Orders \ {o} : KeepsMarks(x)
    BY <2>1, <2>3, LeftAlone
  <2> QED BY <2>4, <2>5
<1>2. CASE ApplyExtension(o)
  <2>0. ren[o].parent \in Orders
    BY <1>2 DEF ApplyExtension, TypeOK, Renewal, IsRenewal
  <2>p. PICK p \in Orders : p = ren[o].parent
    BY <2>0
  <2> DEFINE until == ren[o].until
             begin == ren[o].oldEnd
             row == [ord[o] EXCEPT !.status = "completed", !.reserved = 0, !.start = begin,
                                   !.end = until]
  <2>1. /\ ord' = [ord EXCEPT ![p].end = until, ![o] = row]
        /\ dlv' = [dlv EXCEPT ![p].exp = until]
        /\ ren' = [ren EXCEPT ![o].applied = TRUE]
        /\ ord[o].status = "pending_payment" /\ IsRenewal(o) /\ ren[o].mode = "extend"
    BY <1>2, <2>p DEF ApplyExtension, AccessUntil
  <2>2. p # o
    BY <2>1, <2>p DEF FamiliesAreFlat
  <2>3. ~ren[o].confirmed
    BY <2>1 DEF MarksInv, MarksFit
  <2>4. /\ ord \in [Orders -> Order] /\ ren \in [Orders -> Renewal] /\ dlv \in [Orders -> Delivery]
    BY DEF TypeOK
  <2>5. /\ row.status = "completed" /\ row.product = ord[o].product
        /\ row.qty = ord[o].qty /\ row.dur = ord[o].dur
    BY <2>4 DEF Order
  <2> HIDE DEF row, until, begin
  <2>6. ord'[o] = row /\ ord'[p] = [ord[p] EXCEPT !.end = until]
        /\ \A x \in Orders \ {o, p} : ord'[x] = ord[x]
    BY <2>1, <2>2, <2>4
  <2>7. /\ ord'[p].status = ord[p].status /\ ord'[p].start = ord[p].start
        /\ ord'[p].product = ord[p].product /\ ord'[p].qty = ord[p].qty
        /\ ord'[p].dur = ord[p].dur
    BY <2>2, <2>4, <2>6 DEF Order
  <2>8. /\ \A x \in Orders : dlv'[x].confirmed = dlv[x].confirmed
        /\ \A x \in Orders \ {p} : dlv'[x] = dlv[x]
    BY <2>1, <2>2, <2>4 DEF Delivery
  <2>9. /\ ren'[o] = [ren[o] EXCEPT !.applied = TRUE] /\ \A x \in Orders \ {o} : ren'[x] = ren[x]
    BY <2>1, <2>4
  <2>10. /\ ren'[o].parent = ren[o].parent /\ ren'[o].mode = ren[o].mode
         /\ ren'[o].confirmed = ren[o].confirmed /\ ren'[o].prevStart = ren[o].prevStart
    BY <2>4, <2>9 DEF Renewal
  <2>11. KeepsMarks(o)
    BY <2>1, <2>3, <2>5, <2>6, <2>8, <2>10 DEF KeepsMarks, StartIsFree, OrderSpec
  <2>12. KeepsMarks(p)
    BY <2>2, <2>7, <2>8, <2>9 DEF KeepsMarks, OrderSpec
  <2>13. ASSUME NEW x \in Orders \ {o, p} PROVE KeepsMarks(x)
    BY <2>6, <2>8, <2>9, LeftAlone
  <2> QED BY <2>11, <2>12, <2>13
<1> QED BY <1>1, <1>2

\* Delivering again takes the signature off the row of the delivery, where it is not read
\* any more: the restart has kept it.
LEMMA DeliverKeepsMarks ==
    ASSUME TypeOK, MarksInv, NEW o \in Orders, NEW lease \in Orders,
           DeliverWithAccess(o, lease), signed' = signed
    PROVE  \A x \in Orders : KeepsMarks(x)
<1> DEFINE exp == LeaseEndAt(now, LeaseUnit(lease, o), ord[lease].dur)
<1>1. /\ dlv' = [dlv EXCEPT ![o] = [access |-> "generated", confirmed |-> FALSE, exp |-> exp]]
      /\ ord' = [ord EXCEPT ![o].status = "provisioning"] /\ ren' = ren
      /\ ~IsRenewal(o) /\ ord[o].status \in {"paid", "provisioning"}
  BY DEF DeliverWithAccess
<1> HIDE DEF exp
<1>2. dlv[o].confirmed => SignedBefore(o) # {}
  BY <1>1 DEF MarksInv, Redelivered
<1>3. ord \in [Orders -> Order] /\ dlv \in [Orders -> Delivery]
  BY DEF TypeOK
<1>4. /\ ord'[o].status = "provisioning" /\ ord'[o].start = ord[o].start
      /\ ord'[o].product = ord[o].product /\ ord'[o].qty = ord[o].qty
      /\ ord'[o].dur = ord[o].dur
      /\ \A x \in Orders \ {o} : ord'[x] = ord[x]
  BY <1>1, <1>3 DEF Order
<1>5. ~dlv'[o].confirmed /\ \A x \in Orders \ {o} : dlv'[x] = dlv[x]
  BY <1>1, <1>3
<1>6. KeepsMarks(o)
  BY <1>1, <1>2, <1>4, <1>5 DEF KeepsMarks, OrderSpec
<1>7. ASSUME NEW x \in Orders \ {o} PROVE KeepsMarks(x)
  BY <1>1, <1>4, <1>5, LeftAlone
<1> QED BY <1>6, <1>7

\* What a refund takes back was never signed for.
LEMMA RefundKeepsMarks ==
    ASSUME TypeOK, FamiliesAreFlat, MarksInv, NEW c \in Orders, IsRenewal(c),
           ord[c].status = "refunding", RefundExtension(c) \/ RefundRestart(c), signed' = signed
    PROVE  \A x \in Orders : KeepsMarks(x)
<1>0. ren[c].parent \in Orders
  BY DEF TypeOK, Renewal, IsRenewal
<1>k. PICK p \in Orders : p = ren[c].parent
  BY <1>0
<1> DEFINE S == OpenRenewals(p)
           before == ren[c].prevStart
           oldEnd == ren[c].oldEnd
           last == Emptied(c, "refunded")
           lease == [Emptied(p, "completed") EXCEPT !.start = before, !.end = oldEnd]
<1>1. p # c /\ ~IsRenewal(p) /\ ord[p].status # "none"
  BY <1>k DEF FamiliesAreFlat
<1>2. S \in SUBSET Orders /\ \A x \in S : ord[x].status = "pending_payment"
  BY <1>1, WaitingRenewals
<1>3. WithCancelled(S) \in [Orders -> Order]
  BY WithCancelledType, <1>2
<1>4. /\ last.product = ord[c].product /\ last.qty = ord[c].qty /\ last.dur = ord[c].dur
      /\ last.start = ord[c].start /\ last.status = "refunded"
  BY DEF Emptied, TypeOK, Order
<1>5. /\ ren' = ren
      /\ \/ /\ ren[c].mode = "extend"
            /\ ord' = [WithCancelled(S) EXCEPT ![p].end = oldEnd, ![c] = last]
            /\ dlv' = AccessUntil(p, oldEnd)
         \/ /\ ren[c].mode = "restart" /\ ord[p].status \in {"paid", "provisioning"}
            /\ ord' = [WithCancelled(S) EXCEPT ![p] = lease, ![c] = last]
            /\ dlv' = AccessRevoked(p)
  BY <1>k DEF RefundExtension, RefundRestart, UnusedRenewal
<1>6. /\ \A x \in Orders : dlv'[x].confirmed = dlv[x].confirmed
      /\ \A x \in Orders \ {p} : dlv'[x] = dlv[x]
  <2>1. dlv' = AccessRevoked(p) \/ dlv' = [dlv EXCEPT ![p].exp = oldEnd]
    BY <1>5 DEF AccessUntil
  <2>2. CASE dlv' = [dlv EXCEPT ![p].exp = oldEnd]
    BY <1>1, <2>2 DEF TypeOK, Delivery
  <2> QED BY <1>1, <2>1, <2>2, RevokedKeepsMarks
<1>7. /\ lease.status = "completed" /\ lease.product = ord[p].product
      /\ lease.qty = ord[p].qty /\ lease.dur = ord[p].dur
  BY <1>1 DEF Emptied, TypeOK, Order
<1> DEFINE w == WithCancelled(S)[p]
<1>8. /\ w \in Order /\ w.start = ord[p].start /\ w.product = ord[p].product
      /\ w.qty = ord[p].qty /\ w.dur = ord[p].dur
      /\ w.status = ord[p].status
           \/ (ord[p].status = "pending_payment" /\ w.status = "cancelled")
  BY <1>1, <1>2, <1>3, CancelledStays
<1> HIDE DEF S, last, lease, before, oldEnd
<1>9. /\ ord'[c] = last
      /\ ord'[p] = [w EXCEPT !.end = oldEnd] \/ ord'[p] = lease
      /\ \A x \in Orders \ {c, p} : ord'[x] = WithCancelled(S)[x]
      /\ ren[c].mode = "extend" => ord'[p] = [w EXCEPT !.end = oldEnd]
      /\ ren[c].mode = "restart" =>
            ord'[p] = lease /\ ord[p].status \in {"paid", "provisioning"}
  BY <1>1, <1>3, <1>5
<1> HIDE DEF w
<1>10. KeepsMarks(c)
  <2>1. ren[c].mode = "extend" \/ ord'[p].status \notin {"paid", "provisioning"}
    BY <1>5, <1>7, <1>9
  <2> QED BY <1>k, <1>4, <1>5, <1>6, <1>9, <2>1 DEF KeepsMarks, OrderSpec
<1>11. KeepsMarks(p)
  <2>1. CASE ren[c].mode = "extend"
    <3>1. /\ ord'[p].start = w.start /\ ord'[p].product = w.product /\ ord'[p].qty = w.qty
          /\ ord'[p].dur = w.dur /\ ord'[p].status = w.status
      BY <1>8, <1>9, <2>1 DEF Order
    <3> QED BY <1>1, <1>5, <1>6, <1>8, <3>1 DEF KeepsMarks, OrderSpec
  <2>2. CASE ren[c].mode = "restart"
    <3>1. ord'[p] = lease /\ ord[p].status \in {"paid", "provisioning"}
      BY <1>9, <2>2
    <3>2. SignedBefore(p) # {} \/ ~dlv[p].confirmed
      BY <1>1, <3>1 DEF MarksInv, Redelivered
    <3> QED BY <1>1, <1>5, <1>6, <1>7, <3>1, <3>2 DEF KeepsMarks, StartIsFree, OrderSpec
  <2> QED BY <1>5, <2>1, <2>2
<1>12. ASSUME NEW x \in Orders \ {c, p} PROVE KeepsMarks(x)
  BY <1>2, <1>5, <1>6, <1>9, CancelledKeepsMarks
<1> QED BY <1>10, <1>11, <1>12

\* The first of a set stays the first when a last one joins.
LEMMA FirstStays ==
    ASSUME NEW S \in SUBSET Nat, S # {}, NEW n \in Nat, \A x \in S : x <= n
    PROVE  Min(S \cup {n}) = Min(S)
<1> DEFINE a == Min(S)
           b == Min(S \cup {n})
<1>1. a \in S /\ \A x \in S : a <= x
  BY MinOf
<1>2. b \in S \cup {n} /\ \A x \in S \cup {n} : b <= x
  <2>1. S \cup {n} \in SUBSET Nat /\ S \cup {n} # {}
    OBVIOUS
  <2> QED BY <2>1, MinOf
<1> HIDE DEF a, b
<1>3. a \in Nat /\ b \in Nat /\ a <= n
  BY <1>1, <1>2
<1>4. b <= a /\ a <= b
  BY <1>1, <1>2, <1>3
<1>5. a = b
  BY <1>3, <1>4
<1> QED BY <1>5 DEF a, b

\* The restart that is paid keeps when its lease was first signed for, before the lease
\* forgets it.
LEMMA RestartStaysTrue ==
    ASSUME TypeOK, FamiliesAreFlat, HoldInv, OpenInv, MarksInv, signed \in [Orders -> BOOLEAN],
           NEW c \in Orders, ApplyRestart(c), NEW p \in Orders, p = ren[c].parent,
           signed' = [signed EXCEPT ![c] = dlv[p].confirmed]
    PROVE  MarksInv' /\ \A x \in Orders : Stays(x)
<1> DEFINE begun == ord[p].start
           held == ord[c].qty
           first == 0
           row == [ord[c] EXCEPT !.status = "completed", !.reserved = first, !.start = None,
                                 !.end = None]
           lease == [ord[p] EXCEPT !.status = "paid", !.reserved = held, !.start = None,
                                   !.end = None]
<1>1. /\ ord' = [ord EXCEPT ![p] = lease, ![c] = row]
      /\ dlv' = [dlv EXCEPT ![p].access = "revoked"]
      /\ ren' = [ren EXCEPT ![c].applied = TRUE, ![c].prevStart = begun]
      /\ ord[c].status = "pending_payment" /\ IsRenewal(c) /\ ren[c].mode = "restart"
  BY DEF ApplyRestart
<1>2. /\ p # c /\ ~IsRenewal(p) /\ ord[p].status # "none" /\ c \in Children(p)
      /\ \A x \in Children(p) : x \in Orders \ {p} /\ RenewalIsGood(x, p) /\ x <= c
  BY <1>1, BillIsAlone
<1>3. ~ren[c].applied /\ ~ren[c].confirmed /\ ~signed[c]
  <2>1. ~ren[c].applied
    BY <1>1, <1>2 DEF RenewalIsGood, RowIsGood
  <2> QED BY <2>1 DEF MarksInv, MarksFit
<1>4. /\ ord \in [Orders -> Order] /\ ren \in [Orders -> Renewal] /\ dlv \in [Orders -> Delivery]
  BY DEF TypeOK
<1>5. /\ row.status = "completed" /\ row.product = ord[c].product /\ row.qty = ord[c].qty
      /\ row.dur = ord[c].dur
      /\ lease.status = "paid" /\ lease.product = ord[p].product /\ lease.qty = ord[p].qty
      /\ lease.dur = ord[p].dur
  BY <1>4 DEF Order
<1>b. begun = ord[p].start
  OBVIOUS
<1> HIDE DEF row, lease, begun, held, first
<1>6. ord'[c] = row /\ ord'[p] = lease /\ \A x \in Orders \ {c, p} : ord'[x] = ord[x]
  BY <1>1, <1>2, <1>4
<1>7. \A x \in Orders : dlv'[x].confirmed = dlv[x].confirmed
  BY <1>1, <1>4 DEF Delivery
<1>8. /\ ren'[c].parent = p /\ ren'[c].mode = "restart" /\ ren'[c].applied
      /\ ~ren'[c].confirmed /\ ren'[c].prevStart = begun
      /\ \A x \in Orders \ {c} : ren'[x] = ren[x]
  BY <1>1, <1>3, <1>4 DEF Renewal
<1>9. signed'[c] = dlv[p].confirmed /\ \A x \in Orders \ {c} : signed'[x] = signed[x]
  OBVIOUS
<1>10. \A x \in Orders : Children(x)' = Children(x) /\ IsRenewal(x)' = IsRenewal(x)
  BY <1>8 DEF Children, IsRenewal
<1>11. \A x \in Orders \ {p} : c \notin Children(x)
  BY <1>2 DEF Children
<1>12. \A x \in Orders \ {p} : SignedBefore(x)' = SignedBefore(x)
  BY <1>9, <1>10, <1>11 DEF SignedBefore, Children
<1>13. SignedBefore(p)' = IF dlv[p].confirmed THEN SignedBefore(p) \cup {c} ELSE SignedBefore(p)
  BY <1>2, <1>3, <1>9, <1>10 DEF SignedBefore, Children
<1>14. ASSUME NEW x \in Orders PROVE SignedBefore(x) \in SUBSET Nat /\ SignedBefore(x) \subseteq Children(x)
  BY DEF SignedBefore, Children, Orders
<1>15. ASSUME NEW x \in Orders
       PROVE  OrderSpec(x)' = OrderSpec(x) /\ (ord[x].status # "none" => ord'[x].status # "none")
  <2>1. CASE x = c
    BY <1>5, <1>6, <2>1 DEF OrderSpec
  <2>2. CASE x = p
    BY <1>5, <1>6, <2>2 DEF OrderSpec
  <2>3. CASE x \notin {c, p}
    BY <1>6, <2>3 DEF OrderSpec
  <2> QED BY <2>1, <2>2, <2>3
<1>16. ASSUME NEW x \in Orders, DeliveredAt(x) # None PROVE DeliveredAt(x)' = DeliveredAt(x)
  <2>1. CASE IsRenewal(x)
    <3>1. x # c /\ x # p
      BY <1>2, <1>3, <1>16, <2>1 DEF DeliveredAt
    <3>2. IsRenewal(x)' /\ ren'[x] = ren[x] /\ ord'[x] = ord[x]
      BY <1>6, <1>8, <1>10, <2>1, <3>1
    <3> QED BY <2>1, <3>2 DEF DeliveredAt
  <2>2. CASE ~IsRenewal(x) /\ x # p
    <3>1. x # c
      BY <1>1, <2>2
    <3>2. ord'[x] = ord[x] /\ dlv'[x].confirmed = dlv[x].confirmed /\ ~IsRenewal(x)'
      BY <1>6, <1>7, <1>10, <2>2, <3>1
    <3>3. SignedBefore(x)' = SignedBefore(x)
      BY <1>12, <2>2
    <3>4. CASE SignedBefore(x) = {}
      BY <2>2, <3>2, <3>3, <3>4 DEF DeliveredAt
    <3>5. CASE SignedBefore(x) # {}
      <4> DEFINE m == Min(SignedBefore(x))
      <4>1. m \in SignedBefore(x)
        BY <1>14, <3>5, MinOf
      <4>2. m \in Orders /\ m # c
        BY <1>11, <1>14, <2>2, <4>1 DEF Children
      <4>3. Min(SignedBefore(x))' = m
        BY <3>3
      <4>4. DeliveredAt(x) = ren[m].prevStart /\ DeliveredAt(x)' = ren'[m].prevStart
        BY <2>2, <3>2, <3>3, <3>5, <4>3 DEF DeliveredAt
      <4> HIDE DEF m
      <4> QED BY <1>8, <4>2, <4>4
    <3> QED BY <3>4, <3>5
  <2>3. CASE x = p
    <3>1. ~IsRenewal(p)' /\ c \in Nat
      BY <1>2, <1>10 DEF Orders
    <3>2. CASE SignedBefore(p) = {}
      <4>1. dlv[p].confirmed /\ DeliveredAt(p) = begun
        BY <1>2, <1>16, <1>b, <2>3, <3>2 DEF DeliveredAt
      <4>2. SignedBefore(p)' = {c}
        BY <1>13, <3>2, <4>1
      <4>3. Min({c}) = c
        BY <3>1, MinOf
      <4>4. Min(SignedBefore(p))' = c
        BY <4>2, <4>3
      <4>5. DeliveredAt(p)' = ren'[c].prevStart
        BY <3>1, <4>2, <4>4 DEF DeliveredAt
      <4> QED BY <1>8, <2>3, <4>1, <4>5
    <3>3. CASE SignedBefore(p) # {}
      <4> DEFINE m == Min(SignedBefore(p))
      <4>1. m \in SignedBefore(p)
        BY <1>14, <3>3, MinOf
      <4>2. m \in Orders /\ m # c
        BY <1>3, <4>1 DEF SignedBefore, Children
      <4>3. Min(SignedBefore(p))' = m
        <5>1. Min(SignedBefore(p) \cup {c}) = m
          <6>1. \A y \in SignedBefore(p) : y <= c
            BY <1>2, <1>14
          <6> QED BY <1>14, <3>1, <3>3, <6>1, FirstStays
        <5> QED BY <1>13, <5>1
      <4>4. SignedBefore(p)' # {}
        BY <1>13, <3>3
      <4>5. DeliveredAt(p) = ren[m].prevStart /\ DeliveredAt(p)' = ren'[m].prevStart
        BY <1>2, <3>1, <3>3, <4>3, <4>4 DEF DeliveredAt
      <4> HIDE DEF m
      <4> QED BY <1>8, <2>3, <4>2, <4>5
    <3> QED BY <3>2, <3>3
  <2> QED BY <2>1, <2>2, <2>3
<1>17. \A x \in Orders : Stays(x)
  BY <1>15, <1>16 DEF Stays
<1>18. ASSUME NEW x \in Orders PROVE MarksFit(x)' /\ UnpaidIsUnsigned(x)'
  <2>0. MarksFit(x) /\ UnpaidIsUnsigned(x)
    BY DEF MarksInv
  <2>1. CASE x = c
    <3>1. MarksFit(c)'
      BY <1>1, <1>8, <1>10 DEF MarksFit
    <3>2. UnpaidIsUnsigned(c)'
      BY <1>5, <1>6 DEF UnpaidIsUnsigned
    <3> QED BY <2>1, <3>1, <3>2
  <2>2. CASE x = p
    <3>1. MarksFit(p)'
      BY <1>2, <1>8, <1>9, <1>10, <2>0, <2>2 DEF MarksFit
    <3>2. UnpaidIsUnsigned(p)'
      BY <1>5, <1>6 DEF UnpaidIsUnsigned
    <3> QED BY <2>2, <3>1, <3>2
  <2>3. CASE x \notin {c, p}
    <3>1. MarksFit(x)'
      BY <1>8, <1>9, <1>10, <2>0, <2>3 DEF MarksFit
    <3>2. UnpaidIsUnsigned(x)'
      BY <1>6, <1>7, <1>10, <2>0, <2>3 DEF UnpaidIsUnsigned
    <3> QED BY <3>1, <3>2
  <2> QED BY <2>1, <2>2, <2>3
<1>19. ASSUME NEW x \in Orders PROVE Redelivered(x)'
  <2>0. Redelivered(x)
    BY DEF MarksInv
  <2>1. CASE x = c
    BY <1>5, <1>6, <2>1 DEF Redelivered
  <2>2. CASE x = p
    <3>1. dlv'[p].confirmed => SignedBefore(p)' # {}
      BY <1>7, <1>13
    <3>2. c \in Restarts(p)' /\ Restarts(p)' \subseteq Children(p)
      BY <1>2, <1>5, <1>6, <1>8, <1>10 DEF Restarts
    <3>3. ASSUME NEW l \in Restarts(p)', IsLeaseOrder(l, p)' PROVE l = c
      <4>1. l \in Children(p) /\ l \in Orders /\ l # p
        BY <1>2, <3>2
      <4>2. c <= l /\ l <= c
        BY <1>2, <3>2, <3>3, <4>1 DEF IsLeaseOrder
      <4> QED BY <4>1, <4>2 DEF Orders
    <3> QED BY <1>8, <2>2, <3>1, <3>3 DEF Redelivered
  <2>3. CASE x \notin {c, p}
    <3>1. Restarts(x)' = Restarts(x)
      <4>1. \A y \in Children(x) : y \in Orders /\ y # c /\ ren'[y] = ren[y]
                                   /\ (y = p \/ ord'[y] = ord[y])
        BY <1>6, <1>8, <1>11, <2>3 DEF Children
      <4>2. p \notin Children(x)
        BY <1>2 DEF Children, IsRenewal, Orders
      <4> QED BY <1>10, <4>1, <4>2 DEF Restarts
    <3>2. \A l \in Restarts(x) : ren'[l] = ren[l]
      BY <1>8, <1>11, <2>3 DEF Restarts, Children
    <3>3. \A l \in Restarts(x) : IsLeaseOrder(l, x)' = IsLeaseOrder(l, x)
      BY <3>1 DEF IsLeaseOrder
    <3>4. ord'[x] = ord[x] /\ dlv'[x].confirmed = dlv[x].confirmed /\ SignedBefore(x)' = SignedBefore(x)
      BY <1>6, <1>7, <1>12, <2>3
    <3> QED BY <2>0, <3>1, <3>2, <3>3, <3>4 DEF Redelivered
  <2> QED BY <2>1, <2>2, <2>3
<1> QED BY <1>17, <1>18, <1>19 DEF MarksInv

\* Signing for a delivery: the lease was not signed for before, or its restarts say when.
LEMMA SigningStaysTrue ==
    ASSUME TypeOK, MarksInv, NEW o \in Orders, NEW lease \in Orders,
           ConfirmDelivery(o, lease), signed' = signed
    PROVE  MarksInv' /\ \A x \in Orders : Stays(x)
<1> DEFINE end == LeaseEndAt(now, LeaseUnit(lease, o), ord[lease].dur)
           begun == now
           row == [ord[o] EXCEPT !.status = "active", !.start = begun, !.end = end]
           last == [ord[lease] EXCEPT !.start = begun, !.end = end]
<1>1. /\ ord' = [x \in Orders |-> IF x = o THEN row ELSE IF x = lease THEN last ELSE ord[x]]
      /\ dlv' = [dlv EXCEPT ![o] = [access |-> "delivered", exp |-> end, confirmed |-> TRUE]]
      /\ ren' = IF lease = o THEN ren ELSE [ren EXCEPT ![lease].confirmed = TRUE]
      /\ ~IsRenewal(o) /\ ord[o].status = "provisioning" /\ ~dlv[o].confirmed
      /\ IsLeaseOrder(lease, o)
  BY DEF ConfirmDelivery
<1>2. /\ ord \in [Orders -> Order] /\ ren \in [Orders -> Renewal] /\ dlv \in [Orders -> Delivery]
  BY DEF TypeOK
<1>3. /\ row.status = "active" /\ row.product = ord[o].product /\ row.qty = ord[o].qty
      /\ row.dur = ord[o].dur
      /\ last.status = ord[lease].status /\ last.product = ord[lease].product
      /\ last.qty = ord[lease].qty /\ last.dur = ord[lease].dur
  BY <1>2 DEF Order
<1> HIDE DEF row, last, begun, end
<1>4. /\ ord'[o] = row /\ (lease # o => ord'[lease] = last)
      /\ \A x \in Orders \ {o, lease} : ord'[x] = ord[x]
  BY <1>1
<1>5. /\ \A x \in Orders \ {o} : dlv'[x] = dlv[x]
  BY <1>1, <1>2
<1>6. /\ \A x \in Orders : ren'[x].parent = ren[x].parent /\ ren'[x].mode = ren[x].mode
            /\ ren'[x].applied = ren[x].applied /\ ren'[x].prevStart = ren[x].prevStart
      /\ \A x \in Orders : x # lease \/ lease = o => ren'[x] = ren[x]
  BY <1>1, <1>2 DEF Renewal
<1>7. lease # o => /\ ord[lease].status \in {"completed", "refunding"}
                   /\ ren[lease].parent = o /\ ren[lease].mode = "restart"
                   /\ ren[lease].applied /\ ~ren[lease].confirmed /\ IsRenewal(lease)
  <2>1. lease # o => lease \in Restarts(o)
    BY <1>1 DEF IsLeaseOrder
  <2>2. lease # o => ~ren[lease].confirmed
    BY <1>1, <2>1 DEF MarksInv, Redelivered
  <2> QED BY <2>1, <2>2 DEF Restarts, Children, IsRenewal, Orders
<1>8. \A x \in Orders : /\ Children(x)' = Children(x) /\ IsRenewal(x)' = IsRenewal(x)
                        /\ SignedBefore(x)' = SignedBefore(x)
  BY <1>6 DEF Children, IsRenewal, SignedBefore
<1>9. \A x \in Orders : ord'[x].status = ord[x].status \/ x = o
  BY <1>3, <1>4
<1>10. \A x \in Orders : OrderSpec(x)' = OrderSpec(x)
  BY <1>3, <1>4 DEF OrderSpec
<1>11. ASSUME NEW x \in Orders, DeliveredAt(x) # None PROVE DeliveredAt(x)' = DeliveredAt(x)
  <2>1. CASE SignedBefore(x) # {} /\ ~IsRenewal(x)
    <3> DEFINE m == Min(SignedBefore(x))
    <3>1. m \in Orders
      <4>1. SignedBefore(x) \in SUBSET Nat /\ SignedBefore(x) \subseteq Orders
        BY DEF SignedBefore, Children, Orders
      <4> QED BY <2>1, <4>1, MinOf
    <3>2. Min(SignedBefore(x))' = m
      BY <1>8
    <3>3. DeliveredAt(x) = ren[m].prevStart /\ DeliveredAt(x)' = ren'[m].prevStart
      BY <1>8, <2>1, <3>2 DEF DeliveredAt
    <3> HIDE DEF m
    <3> QED BY <1>6, <3>1, <3>3
  <2>2. CASE SignedBefore(x) = {} /\ ~IsRenewal(x)
    <3>1. x # o /\ x # lease
      BY <1>1, <1>7, <1>11, <2>2 DEF DeliveredAt
    <3> QED BY <1>4, <1>5, <1>8, <2>2, <3>1 DEF DeliveredAt
  <2>3. CASE IsRenewal(x)
    <3>1. x # o /\ x # lease
      BY <1>1, <1>7, <1>11, <2>3 DEF DeliveredAt
    <3> QED BY <1>4, <1>6, <1>8, <2>3, <3>1 DEF DeliveredAt
  <2> QED BY <2>1, <2>2, <2>3
<1>12. \A x \in Orders : Stays(x)
  BY <1>1, <1>3, <1>4, <1>9, <1>10, <1>11 DEF Stays
<1>13. ASSUME NEW x \in Orders PROVE MarksFit(x)' /\ UnpaidIsUnsigned(x)'
  <2>0. MarksFit(x) /\ UnpaidIsUnsigned(x)
    BY DEF MarksInv
  <2>1. MarksFit(x)'
    <3>1. ren'[x].confirmed => ren[x].confirmed \/ (x = lease /\ lease # o)
      BY <1>6
    <3> QED BY <1>6, <1>7, <1>8, <2>0, <3>1 DEF MarksFit
  <2>2. UnpaidIsUnsigned(x)'
    <3>1. CASE x = o
      BY <1>3, <1>4, <3>1 DEF UnpaidIsUnsigned
    <3>2. CASE x # o
      BY <1>5, <1>8, <1>9, <2>0, <3>2 DEF UnpaidIsUnsigned
    <3> QED BY <3>1, <3>2
  <2> QED BY <2>1, <2>2
<1>14. ASSUME NEW x \in Orders PROVE Redelivered(x)'
  <2>1. CASE x = o
    BY <1>3, <1>4, <2>1 DEF Redelivered
  <2>2. CASE x # o
    <3>0. Redelivered(x)
      BY DEF MarksInv
    <3>1. \A y \in Children(x) : y \in Orders /\ y # o /\ (y # lease \/ lease = o)
      BY <1>1, <1>7, <2>2 DEF Children, IsRenewal, Orders
    <3>2. Restarts(x)' = Restarts(x)
      BY <1>6, <1>8, <1>9, <3>1 DEF Restarts
    <3>3. \A l \in Restarts(x) : ren'[l] = ren[l]
      BY <1>6, <3>1 DEF Restarts
    <3>4. \A l \in Restarts(x) : IsLeaseOrder(l, x)' = IsLeaseOrder(l, x)
      BY <3>2 DEF IsLeaseOrder
    <3>5. ord'[x].status = ord[x].status /\ dlv'[x] = dlv[x] /\ SignedBefore(x)' = SignedBefore(x)
      BY <1>5, <1>8, <1>9, <2>2
    <3> QED BY <3>0, <3>2, <3>3, <3>4, <3>5 DEF Redelivered
  <2> QED BY <2>1, <2>2
<1> QED BY <1>12, <1>13, <1>14 DEF MarksInv

\* An order that is placed, and a renewal that is quoted, change no row but their own.
LEMMA NewOrderStaysTrue ==
    ASSUME TypeOK, FamiliesAreFlat, MarksInv, NEW o \in Orders, dlv' = dlv, signed' = signed,
           ord[o].status = "none", ord'[o].status = "pending_payment",
           \A x \in Orders \ {o} : ord'[x] = ord[x] /\ ren'[x] = ren[x],
           \/ ren'[o] = ren[o]
           \/ \E par \in Orders : /\ ren'[o].parent = par /\ ~IsRenewal(par)
                                  /\ ord[par].status \in {"active", "completed"}
                                  /\ ~ren'[o].applied /\ ~ren'[o].confirmed
    PROVE  MarksInv' /\ \A x \in Orders : Stays(x)
<1>1. ~IsRenewal(o) /\ ~signed[o] /\ ~ren[o].confirmed /\ ~dlv[o].confirmed
  BY DEF FamiliesAreFlat, MarksInv, MarksFit, UnpaidIsUnsigned
<1>2. \A x \in Orders : o \notin Children(x)
  BY <1>1 DEF Children, IsRenewal, Orders
<1>3. Children(o) = {}
  BY DEF FamiliesAreFlat, Children, IsRenewal, Orders
<1>4. \A x \in Orders : Children(x) \subseteq Children(x)' /\ Children(x)' \subseteq Children(x) \cup {o}
  BY <1>2 DEF Children
<1>5. \A x \in Orders : SignedBefore(x)' = SignedBefore(x)
  BY <1>1, <1>4 DEF SignedBefore
<1>6. ~ren'[o].confirmed /\ (ren'[o].applied => ren' [o] = ren[o] /\ ~IsRenewal(o)')
  BY <1>1 DEF IsRenewal
<1>7. \A x \in Orders \ {o} : Restarts(x)' = Restarts(x)
  <2>1. \A x \in Orders : \A c \in Children(x) : c \in Orders \ {o}
    BY <1>2 DEF Children
  <2>2. \A x \in Orders : o \in Children(x)' => ~ren'[o].applied
    BY <1>6 DEF Children, IsRenewal, Orders
  <2> QED BY <1>4, <2>1, <2>2 DEF Restarts
<1>8. ASSUME NEW x \in Orders, x # o PROVE DeliveredAt(x)' = DeliveredAt(x)
  <2>1. IsRenewal(x)' = IsRenewal(x) /\ ord'[x] = ord[x] /\ ren'[x] = ren[x]
    BY <1>8 DEF IsRenewal
  <2>2. CASE SignedBefore(x) # {}
    <3> DEFINE m == Min(SignedBefore(x))
    <3>1. m \in SignedBefore(x)
      <4>1. SignedBefore(x) \in SUBSET Nat
        BY DEF SignedBefore, Children, Orders
      <4> QED BY <2>2, <4>1, MinOf
    <3>2. m \in Orders /\ m # o
      BY <1>2, <3>1 DEF SignedBefore, Children
    <3>3. Min(SignedBefore(x))' = m
      BY <1>5
    <3> HIDE DEF m
    <3>4. ren'[m] = ren[m]
      BY <3>2
    <3> QED BY <1>5, <2>1, <3>3, <3>4 DEF DeliveredAt, m
  <2>3. CASE SignedBefore(x) = {}
    BY <1>5, <2>1, <2>3 DEF DeliveredAt
  <2> QED BY <2>2, <2>3
<1>9. \A x \in Orders : Stays(x)
  BY <1>8 DEF Stays, OrderSpec
<1>10. ASSUME NEW x \in Orders PROVE MarksFit(x)'
  <2>1. CASE x = o
    BY <1>1, <1>6, <2>1 DEF MarksFit
  <2>2. CASE x # o
    BY <2>2 DEF MarksInv, MarksFit, IsRenewal
  <2> QED BY <2>1, <2>2
<1>11. ASSUME NEW x \in Orders PROVE UnpaidIsUnsigned(x)'
  <2>1. CASE x = o
    <3>1. o \notin Children(o)'
      BY <1>1, <1>2 DEF Children, IsRenewal, Orders
    <3>2. Children(o)' = {}
      BY <1>3, <1>4, <3>1
    <3> QED BY <1>1, <2>1, <3>2 DEF UnpaidIsUnsigned
  <2>2. CASE x # o
    <3>1. ord[x].status = "pending_payment" => o \notin Children(x)'
      BY <1>1, <1>2 DEF Children, IsRenewal, Orders
    <3>2. ord[x].status = "pending_payment" => Children(x)' = Children(x)
      BY <1>4, <3>1
    <3> QED BY <2>2, <3>2 DEF MarksInv, UnpaidIsUnsigned, IsRenewal
  <2> QED BY <2>1, <2>2
<1>12. ASSUME NEW x \in Orders PROVE Redelivered(x)'
  <2>1. CASE x = o
    BY <2>1 DEF Redelivered
  <2>2. CASE x # o
    <3>1. \A l \in Restarts(x) : IsLeaseOrder(l, x)' = IsLeaseOrder(l, x) /\ ren'[l] = ren[l]
      BY <1>2, <1>7, <2>2 DEF IsLeaseOrder, Restarts, Children
    <3> QED BY <1>5, <1>7, <2>2, <3>1 DEF MarksInv, Redelivered
  <2> QED BY <2>1, <2>2
<1> QED BY <1>9, <1>10, <1>11, <1>12 DEF MarksInv

LEMMA OrderPlacedStaysTrue ==
    ASSUME TypeOK, FamiliesAreFlat, MarksInv, NEW o \in Orders, OrderPlaced(o)
    PROVE  /\ MarksInv' /\ \A x \in Orders : Stays(x)
           /\ ord'[o].status # "none"
<1>1. signed' = signed
  BY DEF OrderPlaced
<1>2. ASSUME NEW p \in Products, NEW q \in 1..MaxOrderQuantity, NEW d \in Durations,
             PlaceOrder(o, p, q, d)
      PROVE  /\ MarksInv' /\ \A x \in Orders : Stays(x)
             /\ ord'[o].status # "none"
  <2>1. /\ ren' = ren /\ dlv' = dlv /\ ord[o].status = "none"
        /\ ord'[o].status = "pending_payment"
        /\ \A x \in Orders \ {o} : ord'[x] = ord[x]
    BY <1>2 DEF PlaceOrder, IsNextOrder, TypeOK
  <2> QED BY <1>1, <2>1, NewOrderStaysTrue
<1>3. ASSUME NEW par \in Orders, NEW d \in Durations,
             RenewByExtension(o, par, d) \/ RenewByRestart(o, par, d)
      PROVE  /\ MarksInv' /\ \A x \in Orders : Stays(x)
             /\ ord'[o].status # "none"
  <2>1. /\ dlv' = dlv /\ ord[o].status = "none"
        /\ ~IsRenewal(par) /\ ord[par].status \in {"active", "completed"}
    BY <1>3 DEF RenewByExtension, RenewByRestart, IsNextOrder, Renewable
  <2>2. /\ ord'[o].status = "pending_payment"
        /\ \A x \in Orders \ {o} : ord'[x] = ord[x]
    BY <1>3 DEF RenewByExtension, RenewByRestart, NewRenewalOrder, TypeOK
  <2>3. /\ ren'[o].parent = par /\ ~ren'[o].applied /\ ~ren'[o].confirmed
        /\ \A x \in Orders \ {o} : ren'[x] = ren[x]
    <3>1. CASE RenewByExtension(o, par, d)
      <4> DEFINE until == RenewedUntil(par, d)
                 end == ord[par].end
                 row == [NoRenewal EXCEPT !.parent = par, !.mode = "extend", !.oldEnd = end,
                                          !.until = until]
      <4>1. ren' = [ren EXCEPT ![o] = row]
        BY <3>1 DEF RenewByExtension
      <4>2. row.parent = par /\ ~row.applied /\ ~row.confirmed
        BY DEF NoRenewal
      <4> HIDE DEF row
      <4> QED BY <4>1, <4>2 DEF TypeOK
    <3>2. CASE RenewByRestart(o, par, d)
      <4> DEFINE end == ord[par].end
                 row == [NoRenewal EXCEPT !.parent = par, !.mode = "restart", !.oldEnd = end]
      <4>1. ren' = [ren EXCEPT ![o] = row]
        BY <3>2 DEF RenewByRestart
      <4>2. row.parent = par /\ ~row.applied /\ ~row.confirmed
        BY DEF NoRenewal
      <4> HIDE DEF row
      <4> QED BY <4>1, <4>2 DEF TypeOK
    <3> QED BY <1>3, <3>1, <3>2
  <2> QED BY <1>1, <2>1, <2>2, <2>3, NewOrderStaysTrue
<1> QED BY <1>2, <1>3 DEF OrderPlaced

\* Closing, by the buyer, the operator or the jobs, and what frees a lease or its renewal.
LEMMA OtherStepStaysTrue ==
    ASSUME TypeOK, TypeOK', FamiliesAreFlat, HoldInv, MarksInv, NEW o \in Orders, OtherStep(o)
    PROVE  MarksInv' /\ \A x \in Orders : Stays(x)
<1>1. signed' = signed
  BY DEF OtherStep, attVars
<1>2. IsRenewal(o) => ord[o].status \in Waiting \cup {"refunding"} \cup Ended
  BY DEF HoldInv, RenewalHolds
<1>3. CASE CancelBuyerOrder(o) \/ AdminCancelOrder(o)
  <2>1. /\ CloseOrder(o, "cancelled") /\ ord[o].status # "none"
        /\ IsRenewal(o) => ord[o].status \in Waiting
    BY <1>2, <1>3 DEF CancelBuyerOrder, AdminCancelOrder, Ended, Waiting
  <2> QED BY <1>1, <2>1, CloseOrderKeepsMarks, KeepingMarks
<1>4. CASE RequestRefund(o)
  BY <1>1, <1>4, StatusKeepsMarks, KeepingMarks
<1>5. CASE CompleteRefund(o)
  <2>1. CASE ~IsRenewal(o)
    <3>1. CloseOrder(o, "refunded") /\ ord[o].status # "none"
      BY <1>5, <2>1 DEF CompleteRefund
    <3> QED BY <1>1, <2>1, <3>1, CloseOrderKeepsMarks, KeepingMarks
  <2>2. CASE IsRenewal(o)
    <3>1. ord[o].status = "refunding" /\ (RefundExtension(o) \/ RefundRestart(o))
      BY <1>5, <2>2 DEF CompleteRefund
    <3> QED BY <1>1, <2>2, <3>1, RefundKeepsMarks, KeepingMarks
  <2> QED BY <2>1, <2>2
<1>6. ASSUME NEW lease \in Orders, DeliverWithAccess(o, lease)
      PROVE  MarksInv' /\ \A x \in Orders : Stays(x)
  BY <1>1, <1>6, DeliverKeepsMarks, KeepingMarks
<1> QED BY <1>3, <1>4, <1>5, <1>6 DEF OtherStep

LEMMA PaymentStaysTrue ==
    ASSUME TypeOK, TypeOK', FamiliesAreFlat, HoldInv, OpenInv, MarksInv,
           signed \in [Orders -> BOOLEAN], NEW o \in Orders, PaymentApplied(o)
    PROVE  MarksInv' /\ \A x \in Orders : Stays(x)
<1>1. CASE ApplyRestart(o)
  <2>1. ren[o].mode = "restart" /\ IsRenewal(o)
    BY <1>1 DEF ApplyRestart
  <2>2. ren[o].parent \in Orders
    BY <2>1 DEF IsRenewal, TypeOK, Renewal
  <2>3. signed' = [signed EXCEPT ![o] = dlv[ren[o].parent].confirmed]
    BY <2>1 DEF PaymentApplied
  <2> QED BY <1>1, <2>2, <2>3, RestartStaysTrue
<1>2. CASE ConfirmPayment(o) \/ ApplyExtension(o)
  <2>1. ~(IsRenewal(o) /\ ren[o].mode = "restart")
    BY <1>2 DEF ConfirmPayment, ApplyExtension
  <2>2. signed' = signed
    BY <2>1 DEF PaymentApplied
  <2> QED BY <1>2, <2>2, PaymentKeepsMarks, KeepingMarks
<1> QED BY <1>1, <1>2 DEF PaymentApplied, PaymentArrives

LEMMA OrderMovesStayTrue ==
    ASSUME TypeOK, TypeOK', FamiliesAreFlat, HoldInv, OpenInv, MarksInv,
           signed \in [Orders -> BOOLEAN], NEW o \in Orders, OrderMoves(o)
    PROVE  MarksInv' /\ \A x \in Orders : Stays(x)
<1>1. CASE OrderPlaced(o)
  BY <1>1, OrderPlacedStaysTrue
<1>2. ASSUME NEW lease \in Orders, DeliverySigned(o, lease)
      PROVE  MarksInv' /\ \A x \in Orders : Stays(x)
  BY <1>2, SigningStaysTrue DEF DeliverySigned
<1>3. CASE OrderFrozen(o)
  BY <1>3, StatusKeepsMarks, KeepingMarks DEF OrderFrozen
<1> QED BY <1>1, <1>2, <1>3, PaymentStaysTrue, OtherStepStaysTrue DEF OrderMoves

\* All other steps leave the marks of orders as they are, or close an order.
LEMMA OtherStepsStayTrue ==
    ASSUME TypeOK, TypeOK', HoldInv, MarksInv, signed' = signed,
           (\E p \in Products : SupplierStep(p)) \/ JobStep \/ Tick \/ Crash \/ UNCHANGED vars
    PROVE  MarksInv' /\ \A x \in Orders : Stays(x)
<1>1. CASE ord' = ord /\ ren' = ren /\ dlv' = dlv
  BY <1>1, LeftAlone, KeepingMarks
<1>2. CASE RevokeExpiredAccess
  <2>1. \A x \in Orders : dlv'[x] = dlv[x] \/ dlv'[x] = [dlv[x] EXCEPT !.access = "revoked"]
    BY <1>2 DEF RevokeExpiredAccess
  <2>2. \A x \in Orders : dlv'[x].confirmed = dlv[x].confirmed
    BY <2>1 DEF TypeOK, Delivery
  <2>3. \A x \in Orders : KeepsMarks(x)
    BY <1>2, <2>2 DEF RevokeExpiredAccess, KeepsMarks, OrderSpec
  <2> QED BY <2>3, KeepingMarks
<1>3. ASSUME NEW o \in todo, CloseExpiredUnpaid(o), ~(ord' = ord /\ ren' = ren /\ dlv' = dlv)
      PROVE  MarksInv' /\ \A x \in Orders : Stays(x)
  <2>1. o \in Orders /\ CloseOrder(o, "cancelled") /\ ord[o].status = "pending_payment"
    BY <1>3 DEF CloseExpiredUnpaid, TypeOK
  <2> QED BY <2>1, CloseOrderKeepsMarks, KeepingMarks DEF Waiting
<1>4. ASSUME NEW o \in todo, CompleteExpiredLease(o), ~(ord' = ord /\ ren' = ren /\ dlv' = dlv)
      PROVE  MarksInv' /\ \A x \in Orders : Stays(x)
  <2>1. o \in Orders /\ CloseOrder(o, "completed") /\ ord[o].status = "active"
    BY <1>4 DEF CompleteExpiredLease, LeaseIsOver, TypeOK
  <2>2. ~IsRenewal(o)
    BY <2>1 DEF HoldInv, RenewalHolds, Waiting, Ended
  <2> QED BY <2>1, <2>2, CloseOrderKeepsMarks, KeepingMarks
<1>5. ASSUME NEW p \in Products, SupplierStep(p) PROVE ord' = ord /\ ren' = ren /\ dlv' = dlv
  BY <1>5 DEF SupplierStep, CreateProduct, ResubmitProduct, ReviewProduct, OfflineProduct,
     SupplierOfflineProduct, SyncResource
<1>6. CASE ListExpiredUnpaid \/ ListExpiredLeases \/ FinishRound \/ Tick \/ Crash \/ UNCHANGED vars
  BY <1>1, <1>6 DEF ListExpiredUnpaid, ListExpiredLeases, FinishRound, Tick, Crash, vars
<1> QED BY <1>1, <1>2, <1>3, <1>4, <1>5, <1>6 DEF JobStep

\* What a step of the whole does to orders.
LEMMA MarksStep ==
    ASSUME TypeOK, TypeOK', FamiliesAreFlat, HoldInv, OpenInv, MarksInv, AttestTypeOK,
           [AttestNext]_attestVars
    PROVE  MarksInv' /\ \A x \in Orders : Stays(x)
<1>1. ASSUME NEW o \in Orders, OrderMoves(o) PROVE MarksInv' /\ \A x \in Orders : Stays(x)
  BY <1>1, OrderMovesStayTrue DEF AttestTypeOK
<1>2. ASSUME NEW t \in due, RecordAttestation(t) PROVE UNCHANGED vars /\ signed' = signed
  BY <1>2 DEF RecordAttestation
<1>3. CASE ChainStep
  <2>1. UNCHANGED vars /\ signed' = signed
    BY <1>3 DEF ChainStep, ProcessPending, ListPending, AccountMissing, QueryAccount, QueryFails,
       BroadcastCommits, BroadcastFails, MarkConfirmed, RequeueFailed, OpenAccount, PoolMoves
  <2> QED BY <2>1, OtherStepsStayTrue
<1>4. CASE Restart
  BY <1>4, OtherStepsStayTrue DEF Restart
<1>5. CASE TimePasses
  BY <1>5, OtherStepsStayTrue DEF TimePasses, attVars
<1>6. ASSUME NEW p \in Products, SupplierStep(p), UNCHANGED attVars
      PROVE  MarksInv' /\ \A x \in Orders : Stays(x)
  BY <1>6, OtherStepsStayTrue DEF attVars
<1>7. CASE UNCHANGED attestVars
  BY <1>7, OtherStepsStayTrue DEF attestVars, attVars
<1> QED BY <1>1, <1>2, <1>3, <1>4, <1>5, <1>6, <1>7, OtherStepsStayTrue DEF AttestNext

\* Rows keep what they attest; a new one is what the tables say.
LEMMA RowsAreKept ==
    ASSUME TypeOK, ChainInv, [AttestNext]_attestVars
    PROVE  /\ Rows \subseteq Rows'
           /\ \A i \in Rows : att'[i].hash = att[i].hash /\ att'[i].target = att[i].target
           /\ \A i \in Rows' \ Rows :
                 \E t \in due : Buildable(t) /\ att'[i] = NewRow(t) /\ UNCHANGED <<vars, signed>>
<1>0. AttestTypeOK /\ WorkerFits /\ att \in Seq(Attestation) /\ due \subseteq Targets
  BY DEF ChainInv, AttestTypeOK
<1>1. CASE att' = att
  BY <1>1 DEF Rows
<1>2. ASSUME NEW row \in Attestation, worker.at # "idle", Written(row),
             row.hash = att[Current].hash, row.target = att[Current].target
      PROVE  /\ Rows' = Rows
             /\ \A i \in Rows : att'[i].hash = att[i].hash /\ att'[i].target = att[i].target
  BY <1>0, <1>2, WrittenRow
<1>3. CASE QueryFails \/ BroadcastFails
  <2>1. worker.at # "idle" /\ Written(Failed(att[Current]))
    BY <1>3 DEF QueryFails, BroadcastFails
  <2>2. att[Current] \in Attestation
    BY <1>0, <2>1, CurrentRow
  <2> QED BY <1>2, <2>1, <2>2, FailedRow
<1>4. CASE MarkConfirmed
  <2> DEFINE row == Confirmed(att[Current])
  <2>1. worker.at = "confirm" /\ Written(row)
    BY <1>4 DEF MarkConfirmed
  <2>2. /\ att[Current] \in Attestation /\ worker.tx \in Tx
        /\ row = [att[Current] EXCEPT !.status = "confirmed", !.tx = worker.tx]
    BY <1>0, <2>1, CurrentRow DEF WorkerFits, ChainInv, AttestTypeOK, Chain, Confirmed
  <2> HIDE DEF row
  <2>3. /\ row \in Attestation /\ row.hash = att[Current].hash
        /\ row.target = att[Current].target
    BY <2>2 DEF Attestation, Tx
  <2> QED BY <1>2, <2>1, <2>3
<1>5. CASE RequeueFailed
  <2>1. att' = [i \in Rows |-> IF att[i].status = "failed"
                               THEN [att[i] EXCEPT !.status = "pending", !.attempts = 0]
                               ELSE att[i]]
    BY <1>5 DEF RequeueFailed
  <2>2. ASSUME NEW i \in Rows
        PROVE  att'[i].hash = att[i].hash /\ att'[i].target = att[i].target
    <3>1. att[i] \in Attestation
      BY <1>0 DEF Rows
    <3>2. att'[i] = IF att[i].status = "failed"
                    THEN [att[i] EXCEPT !.status = "pending", !.attempts = 0] ELSE att[i]
      BY <2>1
    <3>3. CASE att[i].status = "failed"
      <4>1. att'[i] = [att[i] EXCEPT !.status = "pending", !.attempts = 0]
        BY <3>2, <3>3
      <4> QED BY <3>1, <4>1, PendingRow
    <3>4. CASE att[i].status # "failed"
      BY <3>2, <3>4
    <3> QED BY <3>3, <3>4
  <2>3. Rows' = Rows
    BY <2>1 DEF Rows
  <2> QED BY <2>2, <2>3
<1>6. ASSUME NEW t \in due, RecordAttestation(t), att' # att
      PROVE  /\ Rows \subseteq Rows'
             /\ \A i \in Rows : att'[i].hash = att[i].hash /\ att'[i].target = att[i].target
             /\ \A i \in Rows' \ Rows :
                   Buildable(t) /\ att'[i] = NewRow(t) /\ UNCHANGED <<vars, signed>>
  <2>1. Buildable(t) /\ att' = Append(att, NewRow(t)) /\ UNCHANGED <<vars, signed>>
    BY <1>6 DEF RecordAttestation
  <2>2. /\ Rows \subseteq Rows' /\ \A i \in Rows : att'[i] = att[i]
        /\ \A i \in Rows' \ Rows : att'[i] = NewRow(t)
    BY <1>0, <2>1 DEF Rows
  <2> QED BY <2>1, <2>2
<1>7. ASSUME NEW o \in Orders, OrderMoves(o) PROVE att' = att
  BY <1>7, OrderMovesKeep
<1>8. CASE TimePasses \/ Restart \/ UNCHANGED attVars \/ UNCHANGED attestVars
  BY <1>1, <1>8 DEF TimePasses, Restart, attVars, attestVars
<1>9. CASE ListPending \/ AccountMissing \/ QueryAccount \/ BroadcastCommits \/ OpenAccount
           \/ \E tx \in chain.pool : PoolMoves(tx)
  BY <1>1, <1>9 DEF ListPending, AccountMissing, QueryAccount, BroadcastCommits, OpenAccount,
     PoolMoves
<1>10. CASE \E t \in due : RecordAttestation(t)
  BY <1>1, <1>6, <1>10
<1>11. CASE ChainStep
  BY <1>3, <1>4, <1>5, <1>9, <1>11 DEF ChainStep, ProcessPending
<1>12. CASE AttestNext
  BY <1>1, <1>7, <1>8, <1>10, <1>11, <1>12 DEF AttestNext
<1> QED BY <1>8, <1>12

\* A hook is about the order the operation has written.
LEMMA HooksArePlaced ==
    ASSUME TypeOK, TypeOK', FamiliesAreFlat, MarksInv, [AttestNext]_attestVars
    PROVE  \A t \in due' : t \in due \/ Placed(t)'
<1>1. ASSUME NEW o \in Orders, OrderPlaced(o) PROVE \A t \in due' : t \in due \/ Placed(t)'
  <2>1. due' = due \cup {<<"order", o>>}
    BY <1>1 DEF OrderPlaced, Recorded
  <2>2. ord'[o].status # "none"
    BY <1>1, OrderPlacedStaysTrue
  <2> QED BY <2>1, <2>2 DEF Placed
<1>2. ASSUME NEW o \in Orders, NEW lease \in Orders, DeliverySigned(o, lease)
      PROVE  \A t \in due' : t \in due \/ Placed(t)'
  <2>1. due' = due \cup {<<"delivery", lease>>} /\ ConfirmDelivery(o, lease)
    BY <1>2 DEF DeliverySigned, Recorded
  <2>2. Stays(lease)
    BY <2>1, <1>2, SigningStaysTrue DEF DeliverySigned
  <2>3. ord[lease].status # "none"
    BY <2>1 DEF ConfirmDelivery, IsLeaseOrder, Restarts
  <2> QED BY <2>1, <2>2, <2>3 DEF Placed, Stays
<1>3. ASSUME NEW o \in Orders, OrderFrozen(o) PROVE \A t \in due' : t \in due \/ Placed(t)'
  <2> DEFINE S == IF IsRenewal(o) THEN {} ELSE OpenRenewals(o)
  <2>1. due' = due \cup {<<"violation", o>>} /\ ord' = [WithCancelled(S) EXCEPT ![o].status = "frozen"]
    BY <1>3 DEF OrderFrozen, FreezeOrder, Recorded
  <2>2. WithCancelled(S) \in [Orders -> Order]
    BY WithCancelledType, WaitingRenewals
  <2> HIDE DEF S
  <2>3. ord'[o].status = "frozen"
    BY <2>1, <2>2 DEF Order
  <2> QED BY <2>1, <2>3 DEF Placed
<1>4. CASE due' \subseteq due
  BY <1>4
<1>5. ASSUME NEW o \in Orders, OrderMoves(o) PROVE \A t \in due' : t \in due \/ Placed(t)'
  <2>1. CASE PaymentApplied(o) \/ OtherStep(o)
    BY <1>4, <2>1 DEF PaymentApplied, OtherStep, attVars
  <2> QED BY <1>1, <1>2, <1>3, <1>5, <2>1 DEF OrderMoves
<1>6. ASSUME ~\E o \in Orders : OrderMoves(o) PROVE due' \subseteq due
  BY <1>6 DEF AttestNext, attestVars, attVars, TimePasses, RecordAttestation, ChainStep, Restart,
     ProcessPending, ListPending, AccountMissing, QueryAccount, QueryFails, BroadcastCommits,
     BroadcastFails, MarkConfirmed, RequeueFailed, OpenAccount, PoolMoves
<1> QED BY <1>4, <1>5, <1>6

\* What a verification builds again of an order that stays.
LEMMA ReproducedAgain ==
    ASSUME NEW t \in Targets, Sourced(t), Placed(t), Stays(t[2]), Buildable(t)
    PROVE  Buildable(t)' /\ Payload(t)' = Payload(t)
<1>1. t[1] \in {"order", "delivery"}
  BY DEF Sourced
<1>2. OrderSpec(t[2])' = OrderSpec(t[2])
  BY DEF Stays, Placed
<1>3. t[1] = "delivery" =>
         DeliveredAt(t[2]) # None /\ DeliveredAt(t[2])' = DeliveredAt(t[2])
  BY DEF Stays, Placed, Buildable
<1> QED BY <1>1, <1>2, <1>3 DEF Buildable, Payload

LEMMA TrueStep ==
    ASSUME TypeOK, TypeOK', FamiliesAreFlat, HoldInv, OpenInv, ChainInv, TrueInv,
           [AttestNext]_attestVars
    PROVE  TrueInv'
<1>0. MarksInv /\ AttestTypeOK /\ due \subseteq Targets /\ att \in Seq(Attestation)
  BY DEF TrueInv, ChainInv, AttestTypeOK
<1>1. MarksInv' /\ \A x \in Orders : Stays(x)
  BY <1>0, MarksStep
<1>2. ASSUME NEW t \in Targets, Placed(t) PROVE Placed(t)' /\ Stays(t[2])
  BY <1>1, <1>2 DEF Stays, Placed, Targets
<1>3. \A t \in due' : Placed(t)'
  <2>1. \A t \in due' : t \in due \/ Placed(t)'
    BY <1>0, HooksArePlaced
  <2> QED BY <1>0, <1>2, <2>1 DEF TrueInv
<1>4. ASSUME NEW i \in Rows'
      PROVE  /\ Placed(att[i].target)'
             /\ Sourced(att[i].target)' => Reproduced(att[i])'
  <2>1. \E t \in Targets : /\ att'[i].target = t /\ Placed(t)
                           /\ Sourced(t) => Buildable(t) /\ Payload(t) = att'[i].hash
    <3>1. CASE i \in Rows
      <4>0. att[i] \in Attestation
        BY <1>0, <3>1 DEF Rows
      <4>1. att[i].target \in Targets
        BY <4>0 DEF Attestation
      <4>2. /\ Placed(att[i].target)
            /\ Sourced(att[i].target) =>
                  Buildable(att[i].target) /\ Payload(att[i].target) = att[i].hash
        BY <3>1 DEF TrueInv, AttestationsStayTrue, Reproduced
      <4>3. att'[i].target = att[i].target /\ att'[i].hash = att[i].hash
        BY <3>1, RowsAreKept
      <4> QED BY <4>1, <4>2, <4>3
    <3>2. CASE i \notin Rows
      <4>1. PICK t \in due : Buildable(t) /\ att'[i] = NewRow(t)
        BY <3>2, RowsAreKept
      <4>2. t \in Targets /\ Placed(t)
        BY <1>0 DEF TrueInv
      <4>3. att'[i].target = t /\ att'[i].hash = Payload(t)
        BY <4>1, <4>2, NewRowType
      <4> QED BY <4>1, <4>2, <4>3
    <3> QED BY <3>1, <3>2
  <2>2. PICK t \in Targets : /\ att'[i].target = t /\ Placed(t)
                             /\ Sourced(t) => Buildable(t) /\ Payload(t) = att'[i].hash
    BY <2>1
  <2>3. Placed(t)' /\ Stays(t[2])
    BY <1>2, <2>2
  <2>4. Sourced(t) => Buildable(t)' /\ Payload(t)' = att'[i].hash
    BY <2>2, <2>3, ReproducedAgain
  <2>5. Placed(att[i].target)'
    BY <2>2, <2>3 DEF Placed
  <2>6. Sourced(att[i].target)' => Sourced(t)
    BY <2>2 DEF Sourced
  <2>7. Buildable(t)' /\ Payload(t)' = att'[i].hash => Reproduced(att[i])'
    BY <2>2 DEF Reproduced, Buildable, Payload, DeliveredAt, OrderSpec, SignedBefore, Children,
                IsRenewal
  <2> QED BY <2>4, <2>5, <2>6, <2>7
<1> QED BY <1>1, <1>3, <1>4 DEF TrueInv, AttestationsStayTrue

\* Whatever becomes of an order after it was attested, the payload a verification builds again
\* is the one that was hashed: for any number of orders and renewals, with hooks that run late
\* or are lost, restarts that make the lease forget when it was first delivered, and refunds
\* that take them back (BuildOrderAttestPayload, BuildDeliveryAttestPayload, Verify).
THEOREM AttestationsRemainTrue == AttestSpec => []AttestationsStayTrue
<1>1. AttestInit => ChainInv /\ TrueInv
  <2> SUFFICES ASSUME AttestInit PROVE ChainInv /\ TrueInv
    OBVIOUS
  <2>1. AttestTypeOK
    BY DEF AttestInit, AttestTypeOK, Resting, Worker, NoTx, Chain
  <2>2. WorkerFits /\ ConfirmedIsOnChain
    BY DEF AttestInit, WorkerFits, Resting, ConfirmedIsOnChain, Rows
  <2>3. MarksInv
    BY DEF AttestInit, Init, MarksInv, MarksFit, UnpaidIsUnsigned, Redelivered, NoOrder,
           NoRenewal, NoDelivery
  <2>4. due = {} /\ Rows = {}
    BY DEF AttestInit, Rows
  <2> QED BY <2>1, <2>2, <2>3, <2>4 DEF ChainInv, TrueInv, AttestationsStayTrue
<1>2. TypeOK /\ ChainInv /\ [AttestNext]_attestVars => ChainInv'
  BY ChainStepKeeps
<1>3. /\ TypeOK /\ TypeOK' /\ FamiliesAreFlat /\ HoldInv /\ OpenInv /\ ChainInv /\ TrueInv
      /\ [AttestNext]_attestVars
      => TrueInv'
  BY TrueStep
<1>4. StockInv => TypeOK /\ FamiliesAreFlat
  BY DEF StockInv
<1>5. TrueInv => AttestationsStayTrue
  BY DEF TrueInv
<1>6. (StockInv /\ AccessInv /\ HoldInv /\ OpenInv) => TypeOK /\ FamiliesAreFlat /\ HoldInv /\ OpenInv
  BY <1>4
<1>7. AttestSpec => [](TypeOK /\ FamiliesAreFlat /\ HoldInv /\ OpenInv)
  BY <1>6, AttestationsKeepOrders, PTL
<1> QED BY <1>1, <1>2, <1>3, <1>5, <1>7, PTL DEF AttestSpec

-----------------------------------------------------------------------------
(* How much work the worker has left *)

\* The attempts that are left to a row that waits.
Left == [i \in Rows |-> IF att[i].status = "pending" THEN MaxAttempts - att[i].attempts ELSE 0]
AttemptsLeft == SumOf(Left, Rows)

\* The steps from where the worker is to where it rests or takes the next row.
StepsToRest == IF worker.at = "idle" THEN 3
               ELSE IF worker.at = "query" THEN 2
               ELSE IF worker.at = "broadcast" THEN 1
               ELSE 0

\* An upload takes four steps at most, and ends with an attempt less or a refused write more.
WorkLeft == 4 * (AttemptsLeft + (MaxFaults - faults)) + StepsToRest

\* A row that waits has an attempt left, and whatever the worker took still waits.
TriesInv ==
    /\ \A i \in Pending : att[i].attempts < MaxAttempts
    /\ worker.batch \subseteq Pending
    /\ faults <= MaxFaults

LEMMA LeftOfRows ==
    AttestTypeOK /\ TriesInv =>
       /\ IsFiniteSet(Rows)
       /\ \A i \in Rows : Left[i] \in Nat
       /\ \A i \in Pending : Left[i] >= 1
       /\ AttemptsLeft \in Nat
       /\ MaxFaults - faults \in Nat
       /\ StepsToRest \in 0..3
<1> SUFFICES ASSUME AttestTypeOK, TriesInv
             PROVE  /\ IsFiniteSet(Rows)
                    /\ \A i \in Rows : Left[i] \in Nat
                    /\ \A i \in Pending : Left[i] >= 1
                    /\ AttemptsLeft \in Nat
                    /\ MaxFaults - faults \in Nat
                    /\ StepsToRest \in 0..3
  OBVIOUS
<1>1. /\ Rows = 1..Len(att) /\ Len(att) \in Nat
      /\ \A i \in Rows : att[i] \in Attestation
      /\ MaxAttempts \in Nat /\ MaxFaults \in Nat /\ faults \in Nat
  BY AttestationsAssumption DEF AttestTypeOK, Rows
<1>2. IsFiniteSet(Rows)
  BY <1>1, FS_Interval
<1>3. ASSUME NEW i \in Rows
      PROVE  Left[i] \in Nat /\ (i \in Pending => Left[i] >= 1)
  <2>1. att[i].attempts \in Nat
    BY <1>1 DEF Attestation
  <2>2. att[i].status = "pending" => att[i].attempts < MaxAttempts
    BY DEF TriesInv, Pending
  <2>3. Left[i] = IF att[i].status = "pending" THEN MaxAttempts - att[i].attempts ELSE 0
    BY DEF Left
  <2>4. i \in Pending => att[i].status = "pending"
    BY DEF Pending
  <2> QED BY <1>1, <2>1, <2>2, <2>3, <2>4
<1>4. \A i \in 1..Len(att) : Left[i] \in Nat
  BY <1>1, <1>3
<1>5. Len(att) \in 0..Len(att)
  BY <1>1
<1>6. SumOf(Left, 1..Len(att)) \in Nat
  BY <1>1, <1>4, <1>5, SumGrows, SMTT(30)
<1>7. MaxFaults - faults \in Nat
  BY <1>1 DEF TriesInv
<1> QED BY <1>1, <1>2, <1>3, <1>6, <1>7 DEF AttemptsLeft, StepsToRest, Pending

\* So the work is a number, now and after the next step.
WorkIsBounded == AttemptsLeft \in Nat /\ MaxFaults - faults \in Nat /\ StepsToRest \in 0..3

LEMMA WorkStaysBounded == AttestTypeOK' /\ TriesInv' => WorkIsBounded'
<1>1. AttestTypeOK /\ TriesInv => WorkIsBounded
  BY LeftOfRows DEF WorkIsBounded
<1> QED BY <1>1, PTL

\* As long as rows, faults and the place of the worker are what they were, so is the work.
LEMMA SameWork ==
    ASSUME att' = att, faults' = faults
    PROVE  /\ Pending' = Pending /\ AttemptsLeft' = AttemptsLeft
           /\ worker'.at = worker.at => WorkLeft' = WorkLeft
<1>1. Rows' = Rows /\ Left' = Left
  BY DEF Rows, Left
<1> QED BY <1>1 DEF Pending, AttemptsLeft, WorkLeft, StepsToRest

\* What the worker writes at the end of an upload costs an attempt, or a refused write.
LEMMA UploadsCount ==
    ASSUME ChainInv, TriesInv, worker.at # "idle", NEW row \in Attestation,
           row.status = "pending" => row.attempts = att[Current].attempts + 1
                                     /\ row.attempts < MaxAttempts,
           row.hash = att[Current].hash, row.target = att[Current].target,
           Written(row), NextRow
    PROVE  /\ TriesInv'
           /\ \/ AttemptsLeft' < AttemptsLeft /\ faults' = faults
              \/ AttemptsLeft' = AttemptsLeft /\ faults' = faults + 1
<1> DEFINE c == Current
<1>1. /\ AttestTypeOK /\ WorkerFits
      /\ c \in worker.batch /\ c \in Rows /\ att[c] \in Attestation
  BY CurrentRow DEF ChainInv
<1>2. /\ c \in Pending
      /\ \/ att' = [att EXCEPT ![c] = row] /\ faults' = faults
         \/ att' = att /\ faults < MaxFaults /\ faults' = faults + 1
      /\ row.status = "pending" => row.attempts = att[c].attempts + 1
                                   /\ row.attempts < MaxAttempts
  BY <1>1 DEF Written, TriesInv
<1>3. worker'.batch \subseteq worker.batch \ {c}
  BY <1>1 DEF NextRow, Resting
<1>4. /\ MaxAttempts \in Nat /\ MaxFaults \in Nat /\ faults \in Nat /\ faults <= MaxFaults
      /\ att \in Seq(Attestation) /\ Rows' = Rows
  BY <1>1, WrittenRow, AttestationsAssumption DEF AttestTypeOK, TriesInv
<1>5. /\ IsFiniteSet(Rows) /\ AttemptsLeft \in Nat /\ Left[c] >= 1
      /\ \A i \in Rows : Left[i] \in Nat
  BY <1>1, <1>2, LeftOfRows
<1> HIDE DEF c
<1>6. CASE att' = att /\ faults < MaxFaults /\ faults' = faults + 1
  <2>1. Pending' = Pending /\ AttemptsLeft' = AttemptsLeft
    BY <1>4, <1>6 DEF Pending, AttemptsLeft, Left, Rows
  <2>2. TriesInv'
    BY <1>3, <1>4, <1>6, <2>1 DEF TriesInv
  <2> QED BY <1>6, <2>1, <2>2
<1>7. ASSUME att' = [att EXCEPT ![c] = row] /\ faults' = faults
      PROVE  TriesInv' /\ AttemptsLeft' < AttemptsLeft
  <2>1. /\ att'[c] = row /\ \A i \in Rows \ {c} : att'[i] = att[i]
    BY <1>1, <1>4, <1>7 DEF Rows
  <2>2. Pending \ {c} \subseteq Pending' /\ Pending' \subseteq Pending
    BY <1>2, <1>4, <2>1 DEF Pending
  <2>3. ASSUME NEW i \in Pending' PROVE att'[i].attempts < MaxAttempts
    <3>1. CASE i = c
      BY <1>2, <2>1, <2>3, <3>1 DEF Pending
    <3>2. CASE i # c
      <4>1. i \in Pending /\ att'[i] = att[i]
        BY <2>1, <2>2, <3>2 DEF Pending
      <4> QED BY <4>1 DEF TriesInv
    <3> QED BY <3>1, <3>2
  <2>4. worker.batch \subseteq Pending
    BY DEF TriesInv
  <2>5. TriesInv'
    BY <1>3, <1>4, <1>7, <2>2, <2>3, <2>4 DEF TriesInv
  <2>6. \A i \in Rows \ {c} : Left'[i] = Left[i]
    BY <1>4, <2>1 DEF Left
  <2>7. Left'[c] \in Nat /\ Left'[c] < Left[c]
    <3>1. Left'[c] = IF row.status = "pending" THEN MaxAttempts - row.attempts ELSE 0
      BY <1>1, <1>4, <2>1 DEF Left
    <3>2. Left[c] = MaxAttempts - att[c].attempts
      BY <1>1, <1>2 DEF Left, Pending
    <3>3. att[c].attempts \in Nat /\ row.attempts \in Nat
      BY <1>1 DEF Attestation
    <3> QED BY <1>2, <1>4, <1>5, <3>1, <3>2, <3>3
  <2>8. \A i \in Rows : Left[i] \in Int /\ Left'[i] \in Int
    <3>1. ASSUME NEW i \in Rows PROVE Left'[i] \in Int
      BY <1>5, <2>6, <2>7
    <3> QED BY <1>5, <3>1
  <2>9. SumOf(Left', Rows) = SumOf(Left, Rows) + (Left'[c] - Left[c])
    <3> DEFINE f == Left
               h == Left'
    <3>1. /\ \A x \in Rows : f[x] \in Int /\ h[x] \in Int
          /\ \A x \in Rows \ {c} : h[x] = f[x] /\ c \in Rows
      BY <1>1, <2>6, <2>8 DEF c
    <3> HIDE DEF f, h
    <3>2. c \in Rows
      BY <1>1 DEF c
    <3>3. SumOf(h, Rows) = SumOf(f, Rows) + (h[c] - f[c])
      BY <1>5, <3>1, <3>2, SumChanges, SMTT(30)
    <3> QED BY <3>3 DEF f, h
  <2>10. AttemptsLeft' = SumOf(Left', Rows)
    BY <1>4 DEF AttemptsLeft
  <2>11. AttemptsLeft' < AttemptsLeft
    <3>1. Left[c] \in Nat /\ SumOf(Left, Rows) = AttemptsLeft
      BY <1>1, <1>5 DEF AttemptsLeft, c
    <3> QED BY <1>5, <2>7, <2>9, <2>10, <3>1
  <2> QED BY <2>5, <2>11
<1>8. \/ att' = [att EXCEPT ![c] = row] /\ faults' = faults
      \/ att' = att /\ faults < MaxFaults /\ faults' = faults + 1
  BY <1>2
<1> QED BY <1>6, <1>7, <1>8

\* Whatever the worker does, its row is done a step sooner, or the work is less by what it
\* takes to come to the next one.
LEMMA WorkerComesCloser ==
    ASSUME ChainInv, TriesInv, ProcessPending
    PROVE  TriesInv' /\ (WorkLeft' < WorkLeft \/ (AccountMissing /\ ~chain.open))
<1>0. /\ AttestTypeOK /\ WorkerFits /\ worker \in Worker
      /\ AttemptsLeft \in Nat /\ MaxFaults - faults \in Nat /\ StepsToRest \in 0..3
  BY LeftOfRows DEF ChainInv, AttestTypeOK
<1> DEFINE left == AttemptsLeft + (MaxFaults - faults)
<1>a. left \in Nat /\ WorkLeft = 4 * left + StepsToRest
  BY <1>0 DEF WorkLeft
<1>d. faults \in Int /\ MaxFaults \in Int
  BY <1>0, AttestationsAssumption DEF AttestTypeOK
<1>b. TriesInv' => left' \in Nat /\ StepsToRest' \in 0..3 /\ AttemptsLeft' \in Nat
  <2>1. SUFFICES ASSUME TriesInv'
                 PROVE  left' \in Nat /\ StepsToRest' \in 0..3 /\ AttemptsLeft' \in Nat
    OBVIOUS
  <2>2. AttestTypeOK'
    BY ProcessPendingKeeps DEF ChainInv
  <2>3. AttemptsLeft' \in Nat /\ (MaxFaults - faults)' \in Nat /\ StepsToRest' \in 0..3
    BY <2>1, <2>2, WorkStaysBounded DEF WorkIsBounded
  <2> QED BY <2>3
<1>c. WorkLeft' = 4 * left' + StepsToRest'
  BY DEF WorkLeft
<1>1. CASE ListPending \/ AccountMissing \/ QueryAccount \/ BroadcastCommits
  <2>1. /\ att' = att /\ faults' = faults
        /\ \/ worker'.batch \subseteq worker.batch
           \/ worker'.batch = Oldest /\ Pending # {}
        /\ \/ StepsToRest' < StepsToRest
           \/ AccountMissing /\ ~chain.open
    <3>1. CASE ListPending
      BY <3>1 DEF ListPending, Resting, StepsToRest
    <3>2. CASE AccountMissing
      BY <3>2 DEF AccountMissing, Resting
    <3>3. CASE QueryAccount
      <4>1. /\ worker' = [worker EXCEPT !.at = "broadcast", !.seq = chain.seq]
            /\ worker.at = "query" /\ att' = att /\ faults' = faults
        BY <3>3 DEF QueryAccount
      <4>2. worker'.at = "broadcast" /\ worker'.batch = worker.batch
        BY <1>0, <4>1 DEF Worker
      <4>3. StepsToRest = 2 /\ StepsToRest' = 1
        BY <4>1, <4>2 DEF StepsToRest
      <4> QED BY <4>1, <4>2, <4>3
    <3>4. CASE BroadcastCommits
      <4>1. /\ worker' = [worker EXCEPT !.at = "confirm", !.tx = Transaction]
            /\ worker.at = "broadcast" /\ att' = att /\ faults' = faults
        BY <3>4 DEF BroadcastCommits
      <4>2. worker'.at = "confirm" /\ worker'.batch = worker.batch
        BY <1>0, <4>1 DEF Worker
      <4> QED BY <4>1, <4>2 DEF StepsToRest
    <3> QED BY <1>1, <3>1, <3>2, <3>3, <3>4
  <2>2. Pending' = Pending /\ left' = left
    BY <2>1, SameWork
  <2>3. worker'.batch \subseteq Pending
    BY <1>0, <2>1, OldestPending DEF TriesInv
  <2>4. TriesInv'
    BY <2>1, <2>2, <2>3 DEF TriesInv
  <2> HIDE DEF left
  <2>6. ASSUME StepsToRest' < StepsToRest PROVE WorkLeft' < WorkLeft
    BY <1>0, <1>a, <1>b, <1>c, <2>2, <2>4, <2>6
  <2> QED BY <2>1, <2>4, <2>6
<1>2. ASSUME NEW row \in Attestation, worker.at # "idle", Written(row), NextRow,
             row.status = "pending" => row.attempts = att[Current].attempts + 1
                                       /\ row.attempts < MaxAttempts,
             row.hash = att[Current].hash, row.target = att[Current].target
      PROVE  TriesInv' /\ WorkLeft' < WorkLeft
  <2>1. /\ TriesInv'
        /\ \/ AttemptsLeft' < AttemptsLeft /\ faults' = faults
           \/ AttemptsLeft' = AttemptsLeft /\ faults' = faults + 1
    BY <1>2, UploadsCount
  <2>2. TriesInv' => AttemptsLeft' \in Int /\ StepsToRest' \in 0..3
    BY <1>b
  <2>3. left' < left
    BY <1>0, <1>d, <2>1, <2>2
  <2> HIDE DEF left
  <2> QED BY <1>0, <1>a, <1>b, <1>c, <2>1, <2>3
<1>3. CASE QueryFails \/ BroadcastFails
  <2>1. worker.at # "idle" /\ Written(Failed(att[Current])) /\ NextRow
    BY <1>3 DEF QueryFails, BroadcastFails
  <2>2. att[Current] \in Attestation /\ Current \in Pending
    BY <1>0, <2>1, CurrentRow DEF TriesInv
  <2> DEFINE r == att[Current]
             row == Failed(r)
  <2>3. /\ row \in Attestation /\ row.hash = r.hash /\ row.target = r.target
    BY <2>2, FailedRow
  <2>4. row.status = "pending" => row.attempts = r.attempts + 1 /\ row.attempts < MaxAttempts
    BY <2>2, AttestationsAssumption DEF Failed, Pending, Attestation
  <2> HIDE DEF row
  <2> QED BY <1>2, <2>1, <2>3, <2>4 DEF row
<1>4. CASE MarkConfirmed
  <2> DEFINE row == Confirmed(att[Current])
  <2>1. worker.at = "confirm" /\ Written(row) /\ NextRow
    BY <1>4 DEF MarkConfirmed
  <2>2. /\ att[Current] \in Attestation /\ worker.tx \in Tx
        /\ row = [att[Current] EXCEPT !.status = "confirmed", !.tx = worker.tx]
    BY <1>0, <2>1, CurrentRow DEF WorkerFits, AttestTypeOK, Chain, Confirmed
  <2> HIDE DEF row
  <2>3. /\ row \in Attestation /\ row.hash = att[Current].hash
        /\ row.target = att[Current].target /\ row.status = "confirmed"
    BY <2>2 DEF Attestation, Tx
  <2> QED BY <1>2, <2>1, <2>3
<1> QED BY <1>1, <1>3, <1>4, <1>2 DEF ProcessPending

\* What is not the worker's, the operator's, a hook's or a restart leaves the work alone.
LEMMA WorkIsLeft ==
    ASSUME att' = att, faults' = faults, worker' = worker, TriesInv
    PROVE  TriesInv' /\ WorkLeft' = WorkLeft
<1>1. Pending' = Pending /\ WorkLeft' = WorkLeft
  BY SameWork
<1> QED BY <1>1 DEF TriesInv

\* A new row, and one the operator sends again, has every attempt left.
LEMMA NewWorkCounts ==
    ASSUME ChainInv, TypeOK, TriesInv,
           RequeueFailed \/ Restart \/ \E t \in due : RecordAttestation(t)
    PROVE  TriesInv'
<1>0. /\ AttestTypeOK /\ att \in Seq(Attestation) /\ due \subseteq Targets
      /\ MaxAttempts \in Nat \ {0}
  BY AttestationsAssumption DEF ChainInv, AttestTypeOK
<1>1. CASE Restart
  <2>1. att' = att /\ faults' = faults /\ worker'.batch = {}
    BY <1>1 DEF Restart, Resting
  <2> QED BY <2>1 DEF TriesInv, Pending, Rows
<1>2. CASE RequeueFailed
  <2>1. /\ worker' = worker /\ faults' = faults
        /\ att' = [i \in Rows |-> IF att[i].status = "failed"
                                  THEN [att[i] EXCEPT !.status = "pending", !.attempts = 0]
                                  ELSE att[i]]
    BY <1>2 DEF RequeueFailed
  <2>2. ASSUME NEW i \in Rows
        PROVE  \/ att[i].status # "failed" /\ att'[i] = att[i]
               \/ att'[i].status = "pending" /\ att'[i].attempts = 0
    <3>1. att[i] \in Attestation
      BY <1>0 DEF Rows
    <3>2. att'[i] = IF att[i].status = "failed"
                    THEN [att[i] EXCEPT !.status = "pending", !.attempts = 0] ELSE att[i]
      BY <2>1
    <3>3. CASE att[i].status = "failed"
      <4> DEFINE first == 0
      <4>1. att'[i] = [att[i] EXCEPT !.status = "pending", !.attempts = first]
        BY <3>2, <3>3
      <4> HIDE DEF first
      <4>2. att'[i].status = "pending" /\ att'[i].attempts = first
        BY <3>1, <4>1 DEF Attestation
      <4> QED BY <4>2 DEF first
    <3> QED BY <3>2, <3>3
  <2>3. Rows' = Rows
    BY <2>1 DEF Rows
  <2>4. Pending \subseteq Pending' /\ \A i \in Pending' : i \in Pending \/ att'[i].attempts = 0
    BY <2>2, <2>3 DEF Pending
  <2>5. ASSUME NEW i \in Pending' PROVE att'[i].attempts < MaxAttempts
    <3>1. CASE att'[i].attempts = 0
      BY <1>0, <3>1
    <3>2. CASE i \in Pending
      <4>1. att'[i] = att[i] \/ att'[i].attempts = 0
        BY <2>2, <3>2 DEF Pending
      <4> QED BY <3>1, <3>2, <4>1 DEF TriesInv
    <3> QED BY <2>4, <3>1, <3>2
  <2> QED BY <2>1, <2>4, <2>5 DEF TriesInv
<1>3. ASSUME NEW t \in due, RecordAttestation(t) PROVE TriesInv'
  <2>1. worker' = worker /\ faults' = faults /\ (att' = att \/ att' = Append(att, NewRow(t)))
    BY <1>3 DEF RecordAttestation, chainVars
  <2>2. NewRow(t).attempts = 0 /\ NewRow(t).status = "pending"
    BY DEF NewRow
  <2>3. CASE att' = att
    BY <2>1, <2>3, WorkIsLeft
  <2>4. CASE att' = Append(att, NewRow(t))
    <3>1. /\ Rows \subseteq Rows' /\ \A i \in Rows : att'[i] = att[i]
          /\ \A i \in Rows' : i \in Rows \/ att'[i] = NewRow(t)
      BY <1>0, <2>4 DEF Rows
    <3>2. Pending \subseteq Pending'
      BY <3>1 DEF Pending
    <3>3. ASSUME NEW i \in Pending' PROVE att'[i].attempts < MaxAttempts
      <4>1. CASE i \in Rows
        <5>1. i \in Pending /\ att'[i] = att[i]
          BY <3>1, <4>1 DEF Pending
        <5> QED BY <5>1 DEF TriesInv
      <4>2. CASE i \notin Rows
        <5>1. att'[i].attempts = 0
          BY <2>2, <3>1, <4>2 DEF Pending
        <5> QED BY <1>0, <5>1
      <4> QED BY <4>1, <4>2
    <3> QED BY <2>1, <3>2, <3>3 DEF TriesInv
  <2> QED BY <2>1, <2>3, <2>4
<1> QED BY <1>1, <1>2, <1>3

\* Once the account is open every step of the worker takes work away; and only a hook, the
\* operator and a restart bring any.
ComesCloser ==
    /\ ProcessPending /\ chain.open => WorkLeft' < WorkLeft
    /\ \/ WorkLeft' <= WorkLeft
       \/ RequeueFailed \/ Restart \/ AccountMissing
       \/ \E t \in due : RecordAttestation(t)

LEMMA WorkStep ==
    ASSUME ChainInv, ChainInv', TypeOK, TriesInv, [AttestNext]_attestVars
    PROVE  TriesInv' /\ (ComesCloser \/ UNCHANGED attestVars)
<1>0. TriesInv => WorkLeft \in Nat
  <2>1. AttestTypeOK /\ TriesInv => WorkIsBounded
    BY LeftOfRows DEF WorkIsBounded
  <2> QED BY <2>1 DEF WorkIsBounded, WorkLeft, ChainInv
<1>t. TriesInv' => WorkLeft' \in Nat
  <2>1. AttestTypeOK' /\ TriesInv' => WorkIsBounded'
    BY WorkStaysBounded
  <2> QED BY <2>1 DEF WorkIsBounded, WorkLeft, ChainInv
<1>1. CASE ProcessPending
  <2>1. TriesInv' /\ (WorkLeft' < WorkLeft \/ (AccountMissing /\ ~chain.open))
    BY <1>1, WorkerComesCloser
  <2>2. WorkLeft' < WorkLeft => WorkLeft' <= WorkLeft
    BY <1>0, <1>t, <2>1
  <2> QED BY <2>1, <2>2 DEF ComesCloser
<1>2. CASE ~ProcessPending /\ (RequeueFailed \/ Restart \/ \E t \in due : RecordAttestation(t))
  BY <1>2, NewWorkCounts DEF ComesCloser
<1>3. CASE ~ProcessPending /\ att' = att /\ faults' = faults /\ worker' = worker
  <2>1. TriesInv' /\ WorkLeft' = WorkLeft
    BY <1>3, WorkIsLeft
  <2>2. WorkLeft' <= WorkLeft
    BY <1>0, <2>1
  <2> QED BY <1>3, <2>1, <2>2 DEF ComesCloser
<1>4. CASE UNCHANGED attestVars
  <2>1. att' = att /\ faults' = faults /\ worker' = worker
    BY <1>4 DEF attestVars, attVars, chainVars
  <2> QED BY <1>4, <2>1, WorkIsLeft
<1>5. CASE AttestNext
  <2>1. ASSUME UNCHANGED attVars PROVE att' = att /\ faults' = faults /\ worker' = worker
    BY <2>1 DEF attVars, chainVars
  <2>2. ASSUME NEW o \in Orders, OrderMoves(o)
        PROVE  att' = att /\ faults' = faults /\ worker' = worker
    BY <2>1, <2>2 DEF OrderMoves, OrderPlaced, DeliverySigned, OrderFrozen, PaymentApplied,
       OtherStep, chainVars
  <2>3. CASE ChainStep
    BY <1>1, <1>2, <1>3, <2>3 DEF ChainStep, OpenAccount, PoolMoves
  <2> QED BY <1>1, <1>2, <1>3, <1>5, <2>1, <2>2, <2>3 DEF AttestNext, TimePasses
<1> QED BY <1>4, <1>5

\* Every row is confirmed or becomes a dead letter within a number of steps of the worker that
\* is known beforehand: once the account is open each of them takes work away, whatever calls
\* fail or time out, and nothing but a hook, the operator and a restart, which sets the
\* worker back to where it rests, brings new work.  So no row keeps those behind it waiting
\* for ever (ListPending, RecordFailure, processPendingOnce).
THEOREM WorkRunsOut == AttestSpec => [](WorkLeft \in Nat) /\ [][ComesCloser]_attestVars
<1>1. AttestInit => TriesInv
  BY AttestationsAssumption DEF AttestInit, TriesInv, Pending, Rows, Resting
<1>2. TypeOK /\ ChainInv /\ ChainInv' /\ TriesInv /\ [AttestNext]_attestVars
         => TriesInv' /\ [ComesCloser]_attestVars
  BY WorkStep
<1>3. ChainInv /\ TriesInv => WorkLeft \in Nat
  <2>1. AttestTypeOK /\ TriesInv => WorkIsBounded
    BY LeftOfRows DEF WorkIsBounded
  <2> QED BY <2>1 DEF WorkIsBounded, WorkLeft, ChainInv
<1>4. AttestSpec => [](TypeOK /\ ChainInv)
  BY ChainAlways
<1> QED BY <1>1, <1>2, <1>3, <1>4, PTL DEF AttestSpec

=============================================================================
