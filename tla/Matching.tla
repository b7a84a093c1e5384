------------------------------- MODULE Matching -------------------------------
(***************************************************************************)
(* What the guided search of the market offers (internal/agentsearch:      *)
(* search, matchProducts).  A model reads a buyer's text into a            *)
(* requirement; which listings meet it, and in which order they are shown, *)
(* is the server's own doing.  The estimate a buyer is shown is that of    *)
(* the order he would have to place: whole machines, at least the least    *)
(* quantity and duration of the listing.                                   *)
(***************************************************************************)
EXTENDS Pricing, Sequences, FiniteSets

CONSTANTS
    Markets,            \* sequences of products on sale, in the order of the query
    Requirements,       \* requirements as the model may read them
    CandidatePool,      \* products the search asks for
    MaxProductPageSize, \* and the most that a page of products has
    MinMatchScore, MaxMatches

ListedProduct(p) ==
    /\ p.type \in ListingTypes /\ p.mode \in PricingModes /\ p.negotiable \in BOOLEAN
    /\ p.price \in Int /\ p.stock \in Int /\ p.cards \in Int /\ p.machines \in Int
    /\ p.minOrder \in Int /\ p.minPeriods \in Int

ASSUME MatchingAssumption ==
    /\ CandidatePool \in Nat /\ MaxProductPageSize \in Nat /\ MaxMatches \in Nat
    /\ MinMatchScore \in 0..60    \* the least that a listing scores that meets everything
    /\ \A m \in Markets : /\ m \in Seq({m[i] : i \in DOMAIN m})
                           /\ \A i \in DOMAIN m : ListedProduct(m[i])
    /\ \A w \in Requirements : w.cards \in Int /\ w.periods \in Int /\ w.budget \in Int

VARIABLES
    market,             \* the products on sale
    wish,               \* the requirement: models, cards, mode, periods, budget, region
    found               \* the matches shown: positions in market; searched or not

matchingVars == <<market, wish, found>>

Larger(a, b) == IF a >= b THEN a ELSE b

\* The least units that have the cards asked for, and that the listing sells.
UnitsFor_RoundedDown(p, w) ==
    IF CardsPerUnit(p) = 0 \/ w.cards = 0 THEN AtLeastOne(p.minOrder)
    ELSE Larger(AtLeastOne(p.minOrder), w.cards \div CardsPerUnit(p))
UnitsFor(p, w) ==
    IF CardsPerUnit(p) = 0 \/ w.cards = 0 THEN AtLeastOne(p.minOrder)
    ELSE Larger(AtLeastOne(p.minOrder), 1 + (w.cards - 1) \div CardsPerUnit(p))

PeriodsFor(p, w) == Larger(AtLeastOne(p.minPeriods), w.periods)

-----------------------------------------------------------------------------
(* matchProducts: the parts of a score *)

\* gpuModelHit: a listing of another model than those asked for is out.
ModelFits(p, w) == w.models = {} \/ p.model \in w.models
ModelScore(p, w) == IF w.models = {} THEN 20 ELSE 40

StockScore(p, w) ==
    IF CardsPerUnit(p) = 0 THEN 0
    ELSE IF w.cards = 0 THEN 10
    ELSE IF p.stock >= UnitsFor(p, w) THEN 20
    ELSE IF p.stock > 0 THEN 5
    ELSE 0

WithinBudget(p, w) ==
    LET n == UnitsFor(p, w)
        periods == OrderedPeriods(p, PeriodsFor(p, w)) IN
    /\ CardsPerUnit(p) > 0
    /\ w.mode \in {"", p.mode}
    /\ Orderable(p, n, PeriodsFor(p, w))
    /\ Priceable(p.price, n, periods)
    /\ Total(p.price, n, periods) <= w.budget

BudgetScore(p, w) ==
    IF w.budget = 0 THEN 10 ELSE IF WithinBudget(p, w) THEN 20 ELSE 0

RegionScore(p, w) == IF w.region # "" /\ p.region = w.region THEN 10 ELSE 0
ModeScore(p, w) == IF w.mode # "" /\ p.mode = w.mode THEN 10 ELSE 0

MatchScore(p, w) ==
    ModelScore(p, w) + StockScore(p, w) + BudgetScore(p, w) + RegionScore(p, w) + ModeScore(p, w)

-----------------------------------------------------------------------------
(* search *)

\* The candidates are one page of the products on sale (ListProducts).
Candidates(m) ==
    {i \in DOMAIN m : i <= IF CandidatePool > MaxProductPageSize THEN MaxProductPageSize
                           ELSE CandidatePool}

Matched(m, w) ==
    {i \in Candidates(m) : ModelFits(m[i], w) /\ MatchScore(m[i], w) >= MinMatchScore}

\* Sorted by score, those of one score as they came.
ShownBefore(m, w, i, j) ==
    \/ MatchScore(m[i], w) > MatchScore(m[j], w)
    \/ MatchScore(m[i], w) = MatchScore(m[j], w) /\ i < j
PlaceOf(m, w, i) == 1 + Cardinality({j \in Matched(m, w) : ShownBefore(m, w, j, i)})

ShownMatches(m, w) ==
    LET number == Cardinality(Matched(m, w)) IN
    [place \in 1..(IF number > MaxMatches THEN MaxMatches ELSE number) |->
       CHOOSE i \in Matched(m, w) : PlaceOf(m, w, i) = place]

\* A text that is not about computing power gets no matches.
Search ==
    /\ ~found.searched
    /\ found' = [searched |-> TRUE,
                 matches |-> IF wish.relevant THEN ShownMatches(market, wish) ELSE <<>>]
    /\ UNCHANGED <<market, wish>>

MatchingInit ==
    /\ market \in Markets
    /\ wish \in Requirements
    /\ found = [searched |-> FALSE, matches |-> <<>>]

MatchingSpec == MatchingInit /\ [][Search]_matchingVars

-----------------------------------------------------------------------------
(* What must hold *)

\* For reference: an order of p that has the model, the mode, the cards, the time and the
\* price the buyer asked for, and that CreateOrder would take.  Where it is hosted is left
\* out: matchProducts treats the region as a preference.
Meets(p, w) ==
    /\ ModelFits(p, w)
    /\ w.mode \in {"", p.mode}
    /\ \E n \in 1..MaxOrderQuantity :
          /\ n * CardsPerUnit(p) >= w.cards
          /\ n <= p.stock
          /\ Orderable(p, n, PeriodsFor(p, w))
          /\ ExactTotal(p.price, n, OrderedPeriods(p, PeriodsFor(p, w))) <= w.budget
          /\ Priceable(p.price, n, OrderedPeriods(p, PeriodsFor(p, w)))

InMatches(i) == \E place \in DOMAIN found.matches : found.matches[place] = i

\* A buyer who names cards and a budget finds every candidate that meets the requirement,
\* wherever it is hosted, before any that does not, whatever else speaks for those; none
\* that was on the page the search read is left out but for others that meet it too
\* (matchProducts).
WhatMeetsComesFirst ==
    wish.relevant /\ wish.cards > 0 /\ wish.budget > 0 =>
       /\ \A i, j \in DOMAIN found.matches :
             i < j /\ Meets(market[found.matches[j]], wish) => Meets(market[found.matches[i]], wish)
       /\ found.searched =>
             \A i \in Candidates(market) :
                 Meets(market[i], wish) /\ ~InMatches(i) =>
                    /\ Len(found.matches) = MaxMatches
                    /\ \A j \in DOMAIN found.matches : Meets(market[found.matches[j]], wish)

\* The search considers as many of the products on sale as its pool has room for
\* (candidatePool).  It does not: a page of products has at most half of that.
PoolIsConsidered ==
    \A i \in DOMAIN market : i <= CandidatePool => i \in Candidates(market)

=============================================================================
