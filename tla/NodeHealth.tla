----------------------------- MODULE NodeHealth -----------------------------
(***************************************************************************)
(* Nodes, their heartbeats, and the health of products (internal/          *)
(* scheduler).  A node reports every 30 seconds; a sweep, also every 30    *)
(* seconds, marks the nodes that have been silent for 90 seconds offline;  *)
(* whoever changes a node recomputes the health of its product, and a      *)
(* product whose health is "offline" cannot be ordered (PlaceOrder).       *)
(*                                                                         *)
(* Nothing here runs in a transaction: every SQL statement is a step of    *)
(* its own, and the heartbeat handlers, the sweep and a supplier who       *)
(* removes a node interleave.                                              *)
(***************************************************************************)
EXTENDS Integers, FiniteSets

CONSTANTS
    Nodes,              \* nodes that may be registered
    Products,           \* products they serve
    ProductOf,          \* the product of each node
    MaxEvents,          \* bound: times a node falls silent, and disturbances
    MaxDisturbances     \* bound: of them, nodes registered or removed, restarts of the
                        \* server, and nodes that fall silent between two statements
                        \* of a sweep

ASSUME NodeHealthAssumption ==
    /\ ProductOf \in [Nodes -> Products]
    /\ Products # {}
    /\ MaxEvents \in Nat
    /\ MaxDisturbances \in Nat
    /\ {"sweep", "supplier"} \cap Nodes = {}

\* Who recomputes health: the heartbeat handler of a node, the sweep, the
\* handler that removes a node.
Workers == Nodes \cup {"sweep", "supplier"}

NodeStatus == {"none", "online", "degraded", "offline"}
Health == {"unknown", "healthy", "degraded", "offline"}
RefreshSteps == {"idle", "prev", "aggregate", "write", "notify"}

VARIABLES
    node,       \* supplier_nodes: status, and whether the last heartbeat is less than 90 s old
    health,     \* products.health
    told,       \* the last notice the supplier of a product got about it
    refresh,    \* refreshProductHealth, for every worker: where it is and what it has read
    sweep,      \* sweepOnce: where it is, and the products it has still to refresh
    silences, disturbances      \* how often each has happened

vars == <<node, health, told, refresh, sweep, silences, disturbances>>
counters == <<silences, disturbances>>

Node == [status : NodeStatus, fresh : BOOLEAN]
Refresh == [at : RefreshSteps, product : Products, prev : Health, next : Health]
Sweep == [at : {"idle", "mark", "refresh"}, todo : SUBSET Products]

Idle == [at |-> "idle", product |-> CHOOSE p \in Products : TRUE,
         prev |-> "unknown", next |-> "unknown"]
Resting == [at |-> "idle", todo |-> {}]

-----------------------------------------------------------------------------

Registered(p) == {n \in Nodes : ProductOf[n] = p /\ node[n].status # "none"}
Up(p) == {n \in Registered(p) : node[n].status \in {"online", "degraded"}}

\* The aggregation of UpdateProductHealth.
HealthOf_OnlineOnly(p) ==
    IF Registered(p) = {} THEN "unknown"
    ELSE IF \A n \in Registered(p) : node[n].status # "online" THEN "offline"
    ELSE IF Up(p) = Registered(p) THEN "healthy"
    ELSE "degraded"
HealthOf_NullSum(p) ==
    IF Registered(p) = {} THEN "null"
    ELSE IF Up(p) = {} THEN "offline"
    ELSE IF Up(p) = Registered(p) /\ \E n \in Up(p) : node[n].status = "online" THEN "healthy"
    ELSE "degraded"
HealthOf(p) ==
    IF Registered(p) = {} THEN "unknown"
    ELSE IF Up(p) = {} THEN "offline"
    ELSE IF Up(p) = Registered(p) /\ \E n \in Up(p) : node[n].status = "online" THEN "healthy"
    ELSE "degraded"

\* What MarkStaleOffline selects, and then updates.
Stale_Online == {n \in Nodes : node[n].status = "online" /\ ~node[n].fresh}
Stale == {n \in Nodes : node[n].status \in {"online", "degraded"} /\ ~node[n].fresh}

\* Worker w begins refreshProductHealth(p).
Refreshing(w, p) == [refresh EXCEPT ![w] = [Idle EXCEPT !.at = "prev", !.product = p]]

-----------------------------------------------------------------------------
(* refreshProductHealth: three statements and a notice *)

ReadPrevious(w) ==
    /\ refresh[w].at = "prev"
    /\ refresh' = [refresh EXCEPT ![w].at = "aggregate", ![w].prev = health[refresh[w].product]]
    /\ UNCHANGED <<node, health, told, sweep, counters>>

\* Nothing is written when the health it read is already the one it computed.
ReadAggregate(w) ==
    LET r == refresh[w]
        next == HealthOf(r.product) IN
    /\ r.at = "aggregate"
    /\ refresh' = [refresh EXCEPT ![w] = IF next = r.prev THEN Idle
                                         ELSE [r EXCEPT !.at = "write", !.next = next]]
    /\ UNCHANGED <<node, health, told, sweep, counters>>

\* Only a step into or out of "offline" is worth a notice.
WorthANotice(r) == "offline" \in {r.prev, r.next}

WriteHealth(w) ==
    LET r == refresh[w] IN
    /\ r.at = "write"
    /\ health' = [health EXCEPT ![r.product] = r.next]
    /\ refresh' = [refresh EXCEPT ![w] = IF WorthANotice(r) THEN [r EXCEPT !.at = "notify"]
                                         ELSE Idle]
    /\ UNCHANGED <<node, told, sweep, counters>>

Told_FromHealthy(r) ==
    IF r.next = "offline" /\ r.prev = "healthy" THEN [told EXCEPT ![r.product] = "offline"]
    ELSE IF r.prev = "offline" THEN [told EXCEPT ![r.product] = "restored"]
    ELSE told
Told(r) ==
    IF r.next = "offline" THEN [told EXCEPT ![r.product] = "offline"]
    ELSE IF r.prev = "offline" THEN [told EXCEPT ![r.product] = "restored"]
    ELSE told

Notify(w) ==
    LET r == refresh[w] IN
    /\ r.at = "notify"
    /\ told' = Told(r)
    /\ refresh' = [refresh EXCEPT ![w] = Idle]
    /\ UNCHANGED <<node, health, sweep, counters>>

UpdateProductHealth(w) ==
    ReadPrevious(w) \/ ReadAggregate(w) \/ WriteHealth(w) \/ Notify(w)

-----------------------------------------------------------------------------
(* Nodes *)

\* The bounds on what happens to a node without its heartbeat.
Disturbed ==
    /\ silences + disturbances < MaxEvents
    /\ disturbances < MaxDisturbances
    /\ disturbances' = disturbances + 1
    /\ UNCHANGED silences

\* RegisterNode: a node is offline until it reports, and the health of its
\* product is not recomputed.
RegisterNode(n) ==
    /\ Disturbed
    /\ node[n].status = "none"
    /\ node' = [node EXCEPT ![n] = [status |-> "offline", fresh |-> FALSE]]
    /\ UNCHANGED <<health, told, refresh, sweep>>

\* Heartbeat: with cards to spare the node is online, otherwise degraded.
Heartbeat(n, status) ==
    /\ node[n].status # "none"
    /\ refresh[n].at = "idle"
    /\ node' = [node EXCEPT ![n] = [status |-> status, fresh |-> TRUE]]
    /\ refresh' = Refreshing(n, ProductOf[n])
    /\ UNCHANGED <<health, told, sweep, counters>>

DeleteNode(n) ==
    /\ Disturbed
    /\ node[n].status # "none"
    /\ refresh["supplier"].at = "idle"
    /\ node' = [node EXCEPT ![n] = [status |-> "none", fresh |-> FALSE]]
    /\ refresh' = Refreshing("supplier", ProductOf[n])
    /\ UNCHANGED <<health, told, sweep>>

\* Ninety seconds without a report.  A handler is done well before that.
FallSilent(n) ==
    /\ node[n].fresh
    /\ refresh[n].at = "idle"
    /\ IF sweep.at = "mark" THEN Disturbed
       ELSE /\ silences + disturbances < MaxEvents
            /\ silences' = silences + 1
            /\ UNCHANGED disturbances
    /\ node' = [node EXCEPT ![n].fresh = FALSE]
    /\ UNCHANGED <<health, told, refresh, sweep>>

-----------------------------------------------------------------------------
(* The sweep *)

\* MarkStaleOffline, first statement: which products to refresh.
ListStale ==
    /\ sweep.at = "idle"
    /\ sweep' = [at |-> "mark", todo |-> {ProductOf[n] : n \in Stale}]
    /\ UNCHANGED <<node, health, told, refresh, counters>>

\* MarkStaleOffline, second statement, with a clock of its own.
MarkStaleOffline ==
    /\ sweep.at = "mark"
    /\ node' = [n \in Nodes |->
                  IF n \in Stale THEN [node[n] EXCEPT !.status = "offline"] ELSE node[n]]
    /\ sweep' = [sweep EXCEPT !.at = "refresh"]
    /\ UNCHANGED <<health, told, refresh, counters>>

SweepOnce(p) ==
    /\ sweep.at = "refresh"
    /\ p \in sweep.todo
    /\ refresh["sweep"].at = "idle"
    /\ refresh' = Refreshing("sweep", p)
    /\ sweep' = [sweep EXCEPT !.todo = sweep.todo \ {p}]
    /\ UNCHANGED <<node, health, told, counters>>

SweepDone ==
    /\ sweep.at = "refresh"
    /\ sweep.todo = {}
    /\ refresh["sweep"].at = "idle"
    /\ sweep' = Resting
    /\ UNCHANGED <<node, health, told, refresh, counters>>

RunLivenessSweep ==
    ListStale \/ MarkStaleOffline \/ (\E p \in sweep.todo : SweepOnce(p)) \/ SweepDone

\* A restart loses the sweep and every handler.
Crash ==
    /\ Disturbed
    /\ sweep' = Resting
    /\ refresh' = [w \in Workers |-> Idle]
    /\ UNCHANGED <<node, health, told>>

-----------------------------------------------------------------------------

\* Some nodes are registered and report, and the health of every product says so.
Init ==
    /\ \E S \in SUBSET Nodes :
         node = [n \in Nodes |-> IF n \in S THEN [status |-> "online", fresh |-> TRUE]
                                ELSE [status |-> "none", fresh |-> FALSE]]
    /\ health = [p \in Products |-> HealthOf(p)]
    /\ told = [p \in Products |-> "none"]
    /\ refresh = [w \in Workers |-> Idle]
    /\ sweep = Resting
    /\ silences = 0
    /\ disturbances = 0

NodeStep(n) ==
    \/ RegisterNode(n)
    \/ DeleteNode(n)
    \/ FallSilent(n)
    \/ \E status \in {"online", "degraded"} : Heartbeat(n, status)

Next ==
    \/ \E n \in Nodes : NodeStep(n)
    \/ \E w \in Workers : UpdateProductHealth(w)
    \/ RunLivenessSweep
    \/ Crash

Spec == Init /\ [][Next]_vars

\* Handlers run to their end, and the ticker of the sweep does not stop.
\* Nothing obliges a node to report.
Fairness ==
    /\ \A w \in Workers : WF_vars(UpdateProductHealth(w))
    /\ WF_vars(RunLivenessSweep)

FairSpec == Spec /\ Fairness

-----------------------------------------------------------------------------
(* What must hold *)

\* Every variable has its type.
TypeOK ==
    /\ node \in [Nodes -> Node]
    /\ health \in [Products -> Health]
    /\ told \in [Products -> {"none", "offline", "restored"}]
    /\ refresh \in [Workers -> Refresh]
    /\ sweep \in Sweep
    /\ silences \in Nat /\ disturbances \in Nat

Gone(p) == Registered(p) # {} /\ \A n \in Registered(p) : ~node[n].fresh

\* A product whose nodes have all fallen silent is taken off sale by the sweep
\* (sweepOnce), unless one of them reports again, it loses its last node, or the
\* sweep was disturbed: by a restart, a new node, or one that fell silent between
\* the two statements of the sweep.
SilentProductsAreBlocked ==
    \A p \in Products :
        (Gone(p) /\ disturbances = 0)
            ~> health[p] = "offline" \/ ~Gone(p) \/ disturbances > 0

\* A node that is up and goes on reporting opens its product to orders, whatever
\* the sweep, the other nodes and restarts do meanwhile (Heartbeat).
ReportingNodesSell ==
    \A n \in Nodes :
        <>[](node[n].status \in {"online", "degraded"}) /\ []<>(refresh[n].at = "aggregate")
            => <>[](health[ProductOf[n]] # "offline")

\* The supplier of a product that is blocked for good has been told so, and that
\* notice is the last one, unless a restart or another disturbance came between
\* (refreshProductHealth).
BlockedSuppliersAreTold ==
    \A p \in Products :
        <>[](health[p] = "offline") => <>[](told[p] = "offline") \/ <>(disturbances > 0)

=============================================================================
