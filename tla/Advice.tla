-------------------------------- MODULE Advice --------------------------------
(***************************************************************************)
(* Which node an order should run on (internal/scheduler: Advise,          *)
(* scoreNode, summarize).  Nodes are scored by health, fit, load and       *)
(* stability; the best one that is up and large enough is recommended.     *)
(* What is kept of a node is what its heartbeats said: the percentage of   *)
(* use is a TINYINT UNSIGNED that nothing holds to 100.                    *)
(***************************************************************************)
EXTENDS Pricing, Sequences

CONSTANTS
    ExpectedBeats,      \* expectedBeats24h
    Fleets,             \* sequences of nodes: status, free cards, use, heartbeats in 24 h
    AdvisedOrders,      \* orders: the product ordered, how many, and who asks
    NoAdvice            \* no node to recommend, or no advice

ASSUME AdviceAssumption ==
    /\ ExpectedBeats \in Nat \ {0}
    /\ Fleets \subseteq Seq([status : {"online", "degraded", "offline"}, free : Nat,
                              use : 0..255, beats : Nat])
    /\ \A o \in AdvisedOrders :
          o.quantity \in Int /\ o.product.cards \in Int /\ o.product.machines \in Int
    /\ NoAdvice \notin Nat

VARIABLES
    fleet,              \* supplier_nodes of the product, in the order of the query
    request,            \* the order that advice is asked for
    advice              \* asked for or not, the scores, and which node is recommended

adviceVars == <<fleet, request, advice>>

NeedCards(o) == o.quantity * CardsPerUnit(o.product)

-----------------------------------------------------------------------------
(* scoreNode *)

Usable_Up(n, need) == n.status # "offline"
Usable(n, need) == n.status # "offline" /\ n.free >= need

HealthScore(n) == IF n.status = "online" THEN 40 ELSE 20
FitScore(n, need) == IF n.free > 0 THEN (30 * need) \div n.free ELSE 0
LoadScore(n) == GoDiv(20 * (100 - n.use), 100)
StabilityScore(n) ==
    LET share == (n.beats * 10) \div ExpectedBeats IN IF share > 10 THEN 10 ELSE share

Score(n, need) ==
    IF Usable(n, need)
    THEN HealthScore(n) + FitScore(n, need) + LoadScore(n) + StabilityScore(n)
    ELSE 0

\* The nodes are sorted by score, those of one score as they came, and the first that is usable
\* is recommended (summarize).
Ahead(f, need, i, j) ==
    \/ Score(f[i], need) > Score(f[j], need)
    \/ Score(f[i], need) = Score(f[j], need) /\ i < j

Recommended(f, need) ==
    LET usable == {i \in DOMAIN f : Usable(f[i], need)} IN
    IF usable = {} THEN NoAdvice
    ELSE CHOOSE i \in usable : \A j \in usable \ {i} : Ahead(f, need, i, j)

\* Advise: a supplier may ask for his own products, an operator for all.
MayAsk(o) == o.by # "other"

Advise ==
    /\ ~advice.asked
    /\ advice' = [asked |-> TRUE,
                  node |-> IF MayAsk(request) /\ NeedCards(request) > 0
                           THEN Recommended(fleet, NeedCards(request)) ELSE NoAdvice]
    /\ UNCHANGED <<fleet, request>>

AdviceInit ==
    /\ fleet \in Fleets
    /\ request \in AdvisedOrders
    /\ advice = [asked |-> FALSE, node |-> NoAdvice]

AdviceSpec == AdviceInit /\ [][Advise]_adviceVars

-----------------------------------------------------------------------------
(* What must hold *)

\* The order fits on the node that is recommended for it, whatever the units of the product
\* are: the node is up, and has a card free for each card ordered (Advise, scoreNode).
AdviceIsUsable ==
    advice.node # NoAdvice =>
       LET n == fleet[advice.node]
           perUnit == IF request.product.type = "card_rental" THEN 1
                      ELSE request.product.cards \div request.product.machines IN
       n.status # "offline" /\ n.free >= request.quantity * perUnit

\* There is a recommendation whenever some node would do, even one that is hot, new or just
\* back, and whose score falls below the nothing an unusable node scores (summarize).
SomeNodeIsAdvised ==
    advice.asked /\ MayAsk(request) /\ NeedCards(request) > 0 /\ advice.node = NoAdvice =>
       \A i \in DOMAIN fleet : fleet[i].status = "offline" \/ fleet[i].free < NeedCards(request)

\* Of two nodes alike but for their free cards the order goes to the one it fits more tightly,
\* so that large nodes are left to large orders, but for two whose fit the integer division
\* of scoreNode makes the same: of those either may be taken.
LargeNodesAreSpared ==
    advice.node # NoAdvice =>
       \A i \in DOMAIN fleet :
          LET n == fleet[advice.node] IN
          [fleet[i] EXCEPT !.free = n.free] = n /\ Usable(fleet[i], NeedCards(request))
             => \/ n.free <= fleet[i].free
                \/ Score(n, NeedCards(request)) = Score(fleet[i], NeedCards(request))

AdviceIsSound == AdviceIsUsable /\ SomeNodeIsAdvised /\ LargeNodesAreSpared

=============================================================================
