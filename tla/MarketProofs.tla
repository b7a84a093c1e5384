------------------------------ MODULE MarketProofs ------------------------------
(***************************************************************************)
(* Of prices: that CalcOrderAmount finds every overflow by dividing back,  *)
(* for all word sizes, prices, quantities and periods, and that its fee,   *)
(* computed in two parts, is the exact one rounded down.  Of the advice on *)
(* nodes: that the node advised can take the order, for any fleet.  Of the *)
(* guided search: that what meets a requirement comes first, for any       *)
(* market, and that the summary shown meanwhile only grows, however the    *)
(* answer is cut into pieces.  Of what is on sale: its health is one of    *)
(* four values, whatever becomes of its nodes, and a product whose nodes   *)
(* are silent is not forgotten by the sweep, while a node that reports     *)
(* opens it again.  Of what a buyer is charged for it: the price and the   *)
(* fee he was shown or confirmed, and which were in force when the order   *)
(* was placed.                                                             *)
(***************************************************************************)
EXTENDS NodeHealth, Checkout, Advice, Matching, SummaryStream, SequenceTheorems, CountingProofs

\* A product that has wrapped is off by a multiple of two words.
LEMMA WrappedBy ==
    ASSUME NEW x \in Int
    PROVE  \E j \in Int : /\ Wrapped(x) = x - (2 * WordSize) * j
                          /\ Wrapped(x) \in (-WordSize)..(WordSize - 1)
<1> DEFINE w == 2 * WordSize
           j == (x + WordSize) \div w
<1>1. WordSize \in Nat \ {0} /\ w \in Nat \ {0} /\ x + WordSize \in Int
  BY PricingAssumption
<1>2. /\ j \in Int /\ (x + WordSize) % w \in 0..(w - 1)
      /\ x + WordSize = w * j + ((x + WordSize) % w)
  BY <1>1, DivMod
<1>3. Wrapped(x) = ((x + WordSize) % w) - WordSize
  BY DEF Wrapped
<1>4. w * j \in Int
  BY <1>1, <1>2
<1> HIDE DEF j
<1>5. Wrapped(x) = x - w * j
  BY <1>1, <1>2, <1>3, <1>4
<1>6. Wrapped(x) \in (-WordSize)..(WordSize - 1)
  BY <1>1, <1>2, <1>3
<1> QED BY <1>2, <1>5, <1>6

\* Dividing a wrapped product of positive factors back by one of them gives the other only if
\* it has not wrapped.
LEMMA DividesBack ==
    ASSUME NEW a \in Nat \ {0}, NEW b \in Nat \ {0}, GoDiv(Wrapped(a * b), a) = b
    PROVE  Wrapped(a * b) = a * b
<1> DEFINE x == a * b
           s == Wrapped(x)
<1>0. x \in Nat \ {0} /\ WordSize \in Nat \ {0}
  BY PricingAssumption
<1>1. PICK j \in Int : s = x - (2 * WordSize) * j /\ s \in (-WordSize)..(WordSize - 1)
  <2>1. a * b \in Int
    BY <1>0
  <2> QED BY <2>1, WrappedBy, Zenon
<1> HIDE DEF s
<1>2. s \in Int
  BY <1>1, <1>0
<1>3. s >= 0
  <2>1. SUFFICES ASSUME s < 0 PROVE FALSE
    BY <1>2
  <2> DEFINE t == -s
  <2>2. t \in Nat /\ -(t \div a) = b
    BY <2>1, <1>2 DEF GoDiv, s, x
  <2> HIDE DEF t
  <2>3. t \div a \in Int /\ t = a * (t \div a) + (t % a) /\ t % a \in 0..(a - 1)
    <3>1. t \in Int
      BY <2>2
    <3> QED BY <3>1, DivMod, Zenon
  <2>4. t \div a = -b
    BY <2>2, <2>3
  <2>5. t = (-x) + (t % a)
    BY <2>3, <2>4
  <2>6. (t % a) < a /\ x >= a
    BY <2>3, SMT
  <2> QED BY <2>2, <2>3, <2>5, <2>6, <1>0
<1>4. s >= x
  <2>1. s \div a = b
    BY <1>2, <1>3 DEF GoDiv, s, x
  <2>2. s = a * (s \div a) + (s % a) /\ s % a \in 0..(a - 1)
    BY DivMod, <1>2
  <2> QED BY <2>1, <2>2, <1>0
<1>5. j = 0
  <2> HIDE DEF x
  <2> DEFINE w == 2 * WordSize
  <2>0. w \in Nat \ {0}
    BY <1>0
  <2>1. w * j \in Int /\ w * j <= 0 /\ -(w * j) < w
    BY <1>0, <1>1, <1>2, <1>4
  <2>2. w * (-1) < w * j
    BY <2>0, <2>1
  <2>3. -1 < j /\ j <= 0
    BY <2>0, <2>1, <2>2, SMT
  <2> QED BY <2>3
<1> QED BY <1>0, <1>1, <1>5 DEF s

\* A product of positive factors that fits into a word is found as it is.
LEMMA FitsAsItIs ==
    ASSUME NEW a \in Nat \ {0}, NEW b \in Nat \ {0}, a * b < WordSize
    PROVE  Wrapped(a * b) = a * b /\ GoDiv(a * b, a) = b
<1>1. a * b \in Nat /\ WordSize \in Nat \ {0}
  BY PricingAssumption
<1>2. Wrapped(a * b) = a * b
  <2> DEFINE x == a * b
             w == 2 * WordSize
  <2>0. x \in Nat /\ x < WordSize /\ w \in Nat \ {0}
    BY <1>1
  <2> HIDE DEF x
  <2>1. (x + WordSize) \div w = 0
    BY <2>0, <1>1, DivUnique
  <2>2. /\ x + WordSize = w * ((x + WordSize) \div w) + ((x + WordSize) % w)
        /\ (x + WordSize) % w \in Int
    <3> DEFINE c == x + WordSize
    <3>1. c \in Int
      BY <2>0, <1>1
    <3> HIDE DEF w, c
    <3>2. c = w * (c \div w) + (c % w) /\ c % w \in Int
      BY <2>0, <3>1, DivMod
    <3> QED BY <3>2 DEF c
  <2>3. (x + WordSize) % w = x + WordSize
    BY <2>0, <2>1, <2>2, <1>1
  <2> QED BY <2>0, <2>3, <1>1 DEF Wrapped, x
<1>3. (a * b) \div a = b
  BY <1>1, DivUnique
<1> QED BY <1>1, <1>2, <1>3 DEF GoDiv

\* CalcOrderAmount returns an amount exactly when the price times the quantity times the
\* periods is within the limit: no overflow passes, however the product wraps, and none is
\* suspected where there is none.
THEOREM AmountsAreFound ==
    ASSUME NEW price \in Nat \ {0}, NEW n \in Nat \ {0}, NEW periods \in Nat \ {0}
    PROVE  Priceable(price, n, periods) <=> ExactTotal(price, n, periods) <= MaxTotal
<1> DEFINE s == price * n
<1>0. s \in Nat \ {0} /\ WordSize \in Nat \ {0} /\ MaxTotal \in Nat /\ MaxTotal < WordSize
  BY PricingAssumption
<1>1. ASSUME Priceable(price, n, periods)
      PROVE  ExactTotal(price, n, periods) <= MaxTotal
  <2>1. Step(price, n) = s
    BY <1>1, DividesBack DEF Priceable, Step
  <2>2. Total(price, n, periods) = s * periods
    <3>1. GoDiv(Wrapped(s * periods), s) = periods
      BY <1>1, <2>1 DEF Priceable, Total
    <3> HIDE DEF s
    <3>2. Wrapped(s * periods) = s * periods
      BY <1>0, <3>1, DividesBack
    <3> QED BY <2>1, <3>2 DEF Total
  <2> QED BY <1>1, <2>2, <1>0 DEF Priceable, ExactTotal
<1>2. ASSUME ExactTotal(price, n, periods) <= MaxTotal
      PROVE  Priceable(price, n, periods)
  <2>1. s * periods <= MaxTotal
    BY <1>2 DEF ExactTotal
  <2>2. s <= s * periods /\ s * periods \in Nat \ {0}
    <3> HIDE DEF s
    <3> QED BY <1>0
  <2>3. Step(price, n) = s /\ GoDiv(s, price) = n
    <3>1. price * n < WordSize
      BY <1>0, <2>1, <2>2
    <3> QED BY <3>1, FitsAsItIs DEF Step
  <2>4. Total(price, n, periods) = s * periods /\ GoDiv(s * periods, s) = periods
    <3> HIDE DEF s
    <3>1. Wrapped(s * periods) = s * periods /\ GoDiv(s * periods, s) = periods
      BY <1>0, <2>1, <2>2, FitsAsItIs
    <3> QED BY <2>3, <3>1 DEF Total
  <2> QED BY <1>0, <2>1, <2>2, <2>3, <2>4 DEF Priceable
<1> QED BY <1>1, <1>2

\* And the amount it returns is the exact one.
THEOREM AmountsAreExactlyThat ==
    ASSUME NEW price \in Nat \ {0}, NEW n \in Nat \ {0}, NEW periods \in Nat \ {0},
           Priceable(price, n, periods)
    PROVE  Total(price, n, periods) = ExactTotal(price, n, periods)
<1> DEFINE s == price * n
<1>0. s \in Nat \ {0}
  OBVIOUS
<1>1. Step(price, n) = s
  BY DividesBack DEF Priceable, Step
<1>2. GoDiv(Wrapped(s * periods), s) = periods
  BY <1>1 DEF Priceable, Total
<1>3. Wrapped(s * periods) = s * periods
  <2> HIDE DEF s
  <2> QED BY <1>0, <1>2, DividesBack
<1> QED BY <1>1, <1>3 DEF Total, ExactTotal

\* The fee in two parts, which keeps the product in a word, is the fee rounded down.
THEOREM FeesAreExact ==
    ASSUME NEW total \in Nat, NEW rate \in Nat
    PROVE  Fee(total, rate) = ExactFee(total, rate)
<1> DEFINE q == total \div Base
           r == total % Base
           k == (r * rate) \div Base
<1>0. Base \in Nat \ {0}
  BY PricingAssumption
<1>1. q \in Int /\ r \in Nat /\ total = Base * q + r
  BY <1>0, DivMod
<1> HIDE DEF q, r
<1>2. k \in Int /\ r * rate \in Int /\ Base * k <= r * rate /\ r * rate < Base * k + Base
  BY <1>0, <1>1, DivMod
<1> HIDE DEF k
<1>3. total * rate = Base * (q * rate) + r * rate
  BY <1>0, <1>1
<1>4. q * rate \in Int /\ Base * (q * rate + k) = Base * (q * rate) + Base * k
  BY <1>0, <1>1, <1>2
<1>5. (total * rate) \div Base = q * rate + k
  <2>1. /\ Base * (q * rate + k) <= total * rate
        /\ total * rate < Base * (q * rate + k) + Base
        /\ q * rate + k \in Int /\ total * rate \in Int
    BY <1>0, <1>1, <1>2, <1>3, <1>4
  <2> QED BY <1>0, <2>1, DivUnique
<1> QED BY <1>5 DEF Fee, ExactFee, q, r, k

-----------------------------------------------------------------------------
(* The advice on nodes *)

FleetNode == [status : {"online", "degraded", "offline"}, free : Nat, use : 0..255, beats : Nat]

\* A usable node has a score, also one whose part for load is below zero.
LEMMA UsableScore ==
    ASSUME NEW n \in FleetNode, NEW need \in Nat \ {0}, Usable(n, need)
    PROVE  /\ Score(n, need) \in Int
           /\ n.free \in Nat \ {0} /\ FitScore(n, need) = (30 * need) \div n.free
           /\ FitScore(n, need) \in Int /\ HealthScore(n) \in Int /\ LoadScore(n) \in Int
           /\ StabilityScore(n) \in Int
           /\ Score(n, need) =
                HealthScore(n) + FitScore(n, need) + LoadScore(n) + StabilityScore(n)
<1>1. n.free \in Nat \ {0} /\ n.use \in 0..255 /\ n.beats \in Nat
  BY DEF FleetNode, Usable
<1>2. FitScore(n, need) = (30 * need) \div n.free /\ FitScore(n, need) \in Int
  <2>1. 30 * need \in Int
    OBVIOUS
  <2>2. (30 * need) \div n.free \in Int
    <3> DEFINE a == 30 * need
               b == n.free
    <3> HIDE DEF a, b
    <3>1. a \div b \in Int
      BY <1>1, <2>1, DivMod DEF a, b
    <3> QED BY <3>1 DEF a, b
  <2> QED BY <1>1, <2>2 DEF FitScore
<1>3. HealthScore(n) \in Int
  BY DEF HealthScore
<1>4. LoadScore(n) \in Int
  <2>1. ASSUME NEW a \in Int PROVE GoDiv(a, 100) \in Int
    <3>1. a \div 100 \in Int /\ (-a) \div 100 \in Int
      BY SMT
    <3> QED BY <3>1 DEF GoDiv
  <2>2. 20 * (100 - n.use) \in Int
    BY <1>1
  <2> QED BY <2>1, <2>2 DEF LoadScore
<1>5. StabilityScore(n) \in Int
  <2>1. n.beats * 10 \in Int /\ ExpectedBeats \in Nat \ {0}
    BY <1>1, AdviceAssumption
  <2>2. (n.beats * 10) \div ExpectedBeats \in Int
    <3> DEFINE a == n.beats * 10
    <3> HIDE DEF a
    <3>1. a \div ExpectedBeats \in Int
      BY <2>1, DivMod DEF a
    <3> QED BY <3>1 DEF a
  <2> QED BY <2>2 DEF StabilityScore
<1>6. Score(n, need) = HealthScore(n) + FitScore(n, need) + LoadScore(n) + StabilityScore(n)
  BY DEF Score
<1>7. HealthScore(n) + FitScore(n, need) + LoadScore(n) + StabilityScore(n) \in Int
  BY <1>2, <1>3, <1>4, <1>5
<1> QED BY <1>1, <1>2, <1>3, <1>4, <1>5, <1>6, <1>7

\* Of two nodes the larger fits less tightly.
LEMMA LargerFitsLess ==
    ASSUME NEW need \in Nat \ {0}, NEW a \in Nat \ {0}, NEW b \in Nat \ {0}, a <= b
    PROVE  (30 * need) \div b <= (30 * need) \div a
<1> DEFINE c == 30 * need
           p == c \div a
           q == c \div b
<1>0. c \in Nat
  OBVIOUS
<1> HIDE DEF c
<1>1. /\ p \in Int /\ c % a \in 0..(a - 1) /\ c = a * p + (c % a)
      /\ q \in Int /\ c % b \in 0..(b - 1) /\ c = b * q + (c % b)
  BY <1>0, DivMod
<1> HIDE DEF p, q
<1>2. c < a * p + a /\ b * q <= c /\ c >= 0
  BY <1>0, <1>1
<1>3. SUFFICES ASSUME q >= p + 1 PROVE FALSE
  BY <1>1 DEF c, p, q
<1>4. q >= 0
  <2>1. SUFFICES ASSUME q <= -1 PROVE FALSE
    BY <1>1
  <2>2. b * q <= -b
    BY <1>1, <2>1
  <2> QED BY <1>0, <1>1, <2>2
<1>5. a * q <= b * q
  BY <1>1, <1>4
<1>6. a * (p + 1) <= a * q
  BY <1>1, <1>3
<1>7. a * (p + 1) = a * p + a
  BY <1>1
<1>8. a * p \in Int /\ a * q \in Int /\ b * q \in Int
  BY <1>1
<1> QED BY <1>2, <1>5, <1>6, <1>7, <1>8, <1>0

\* The node that is recommended is usable, and the first by score of those that are; there is
\* one if any is usable.
LEMMA RecommendedIsFirst ==
    ASSUME NEW f \in Fleets, NEW need \in Nat \ {0}
    PROVE  LET usable == {i \in DOMAIN f : Usable(f[i], need)} IN
           IF usable = {} THEN Recommended(f, need) = NoAdvice
           ELSE /\ Recommended(f, need) \in usable
                /\ \A j \in usable \ {Recommended(f, need)} :
                      Ahead(f, need, Recommended(f, need), j)
<1> DEFINE usable == {i \in DOMAIN f : Usable(f[i], need)}
           R == {p \in usable \X usable : Ahead(f, need, p[1], p[2])}
<1>1. f \in Seq(FleetNode)
  BY AdviceAssumption DEF FleetNode
<1>2. usable \in SUBSET Nat /\ IsFiniteSet(usable)
  <2>1. DOMAIN f = 1..Len(f) /\ Len(f) \in Nat
    BY <1>1
  <2>2. IsFiniteSet(1..Len(f)) /\ usable \in SUBSET (1..Len(f))
    BY <2>1, FS_Interval
  <2> QED BY <2>1, <2>2, FS_Subset
<1>3. \A i \in usable : Score(f[i], need) \in Int
  <2> SUFFICES ASSUME NEW i \in usable PROVE Score(f[i], need) \in Int
    OBVIOUS
  <2>1. f[i] \in FleetNode /\ Usable(f[i], need)
    BY <1>1
  <2> QED BY <2>1, UsableScore
<1> HIDE DEF usable
<1>4. \A i, j \in usable : <<i, j>> \in R <=> Ahead(f, need, i, j)
  OBVIOUS
<1> HIDE DEF R
<1>5. InARow(R, usable)
  <2>1. ASSUME NEW a \in usable, NEW b \in usable, NEW c \in usable,
               Ahead(f, need, a, b), Ahead(f, need, b, c)
        PROVE  Ahead(f, need, a, c)
    <3>1. a \in Nat /\ b \in Nat /\ c \in Nat
      BY <1>2
    <3>2. Score(f[a], need) \in Int /\ Score(f[b], need) \in Int /\ Score(f[c], need) \in Int
      BY <1>3
    <3> QED BY <2>1, <3>1, <3>2 DEF Ahead
  <2>2. ASSUME NEW a \in usable PROVE ~Ahead(f, need, a, a)
    <3>1. a \in Nat /\ Score(f[a], need) \in Int
      BY <1>2, <1>3
    <3> QED BY <3>1 DEF Ahead
  <2>3. ASSUME NEW a \in usable, NEW b \in usable, a # b
        PROVE  Ahead(f, need, a, b) \/ Ahead(f, need, b, a)
    <3>1. a \in Nat /\ b \in Nat /\ Score(f[a], need) \in Int /\ Score(f[b], need) \in Int
      BY <1>2, <1>3
    <3> QED BY <2>3, <3>1 DEF Ahead
  <2> QED BY <1>4, <2>1, <2>2, <2>3 DEF InARow
<1>6. CASE usable = {}
  BY <1>6 DEF Recommended, usable
<1>7. CASE usable # {}
  <2>1. PICK a \in usable : \A b \in usable \ {a} : <<a, b>> \in R
    <3>1. IsFiniteSet(usable)
      BY <1>2
    <3> QED BY <3>1, <1>5, <1>7, FirstOf, Zenon
  <2>2. \A b \in usable \ {a} : Ahead(f, need, a, b)
    BY <1>4, <2>1
  <2>3. Recommended(f, need) = CHOOSE i \in usable : \A j \in usable \ {i} : Ahead(f, need, i, j)
    BY <1>7 DEF Recommended, usable
  <2>4. /\ Recommended(f, need) \in usable
        /\ \A j \in usable \ {Recommended(f, need)} : Ahead(f, need, Recommended(f, need), j)
    BY <2>2, <2>3
  <2> QED BY <1>7, <2>4 DEF usable
<1> QED BY <1>6, <1>7

AdviceInv ==
    /\ fleet \in Fleets /\ request \in AdvisedOrders
    /\ advice.asked \in BOOLEAN
    /\ IF advice.asked /\ MayAsk(request) /\ NeedCards(request) > 0
       THEN advice.node = Recommended(fleet, NeedCards(request))
       ELSE advice.node = NoAdvice

LEMMA NeedIsInt ==
    ASSUME NEW o \in AdvisedOrders
    PROVE  NeedCards(o) \in Int
<1>1. o.quantity \in Int /\ o.product.cards \in Int /\ o.product.machines \in Int
  BY AdviceAssumption
<1>2. CardsPerUnit(o.product) \in Int
  <2>1. ASSUME NEW a \in Int, NEW b \in Nat \ {0} PROVE a \div b \in Int
    BY DivMod
  <2>2. EvenCards(o.product) => o.product.cards \div o.product.machines \in Int
    <3>1. SUFFICES ASSUME EvenCards(o.product)
                   PROVE  o.product.cards \div o.product.machines \in Int
      OBVIOUS
    <3>2. o.product.machines \in Nat \ {0}
      BY <1>1, <3>1 DEF EvenCards
    <3> QED BY <1>1, <3>2, <2>1
  <2> QED BY <2>2 DEF CardsPerUnit
<1> QED BY <1>1, <1>2 DEF NeedCards

LEMMA AdviceInvIsSound == AdviceInv => AdviceIsSound
<1> SUFFICES ASSUME AdviceInv PROVE AdviceIsSound
  OBVIOUS
<1>1. fleet \in Fleets /\ request \in AdvisedOrders /\ NeedCards(request) \in Int
  BY NeedIsInt DEF AdviceInv
<1>2. fleet \in Seq(FleetNode) /\ NoAdvice \notin Nat
  BY <1>1, AdviceAssumption DEF FleetNode
<1>3. DOMAIN fleet \in SUBSET Nat
  BY <1>2
<1>4. CASE ~(advice.asked /\ MayAsk(request) /\ NeedCards(request) > 0)
  <2>1. advice.node = NoAdvice
    BY <1>4 DEF AdviceInv
  <2> QED BY <1>4, <2>1 DEF AdviceIsSound, AdviceIsUsable, SomeNodeIsAdvised, LargeNodesAreSpared
<1>5. CASE advice.asked /\ MayAsk(request) /\ NeedCards(request) > 0
  <2> DEFINE usable == {i \in DOMAIN fleet : Usable(fleet[i], NeedCards(request))}
  <2>0. PICK need \in Nat \ {0} : need = NeedCards(request)
    BY <1>1, <1>5
  <2>1. advice.node = Recommended(fleet, need)
    BY <1>5, <2>0 DEF AdviceInv
  <2>2. usable = {i \in DOMAIN fleet : Usable(fleet[i], need)}
    BY <2>0
  <2>3. IF usable = {} THEN advice.node = NoAdvice
        ELSE /\ advice.node \in usable
             /\ \A j \in usable \ {advice.node} : Ahead(fleet, need, advice.node, j)
    BY <1>1, <2>0, <2>1, <2>2, RecommendedIsFirst
  <2>4. CASE usable = {}
    <3>1. advice.node = NoAdvice
      BY <2>3, <2>4
    <3>2. \A i \in DOMAIN fleet : ~Usable(fleet[i], NeedCards(request))
      BY <2>4
    <3>3. \A i \in DOMAIN fleet : fleet[i].free \in Nat
      <4> TAKE i \in DOMAIN fleet
      <4>1. fleet[i] \in FleetNode
        BY <1>2
      <4> QED BY <4>1 DEF FleetNode
    <3>4. SomeNodeIsAdvised
      BY <1>1, <3>2, <3>3 DEF SomeNodeIsAdvised, Usable
    <3> QED BY <3>1, <3>4 DEF AdviceIsSound, AdviceIsUsable, LargeNodesAreSpared
  <2>5. CASE usable # {}
    <3>1. /\ advice.node \in DOMAIN fleet /\ Usable(fleet[advice.node], need)
          /\ \A j \in usable \ {advice.node} : Ahead(fleet, need, advice.node, j)
      BY <2>2, <2>3, <2>5
    <3>2. advice.node # NoAdvice
      BY <1>2, <1>3, <3>1
    <3> DEFINE n == fleet[advice.node]
    <3>3. n \in FleetNode
      BY <1>2, <3>1
    <3>4. AdviceIsUsable
      <4>1. n.status # "offline" /\ n.free >= NeedCards(request)
        BY <2>0, <3>1 DEF Usable
      <4>2. CardsPerUnit(request.product) # 0
        <5>1. request.quantity \in Int
          BY <1>1, AdviceAssumption
        <5> QED BY <1>5, <5>1 DEF NeedCards
      <4>3. CardsPerUnit(request.product) =
              IF request.product.type = "card_rental" THEN 1
              ELSE request.product.cards \div request.product.machines
        BY <4>2 DEF CardsPerUnit
      <4> QED BY <4>1, <4>3 DEF AdviceIsUsable, NeedCards
    <3>5. LargeNodesAreSpared
      <4> SUFFICES ASSUME NEW i \in DOMAIN fleet, [fleet[i] EXCEPT !.free = n.free] = n,
                          Usable(fleet[i], need), ~(n.free <= fleet[i].free)
                   PROVE  Score(n, need) = Score(fleet[i], need)
        BY <2>0 DEF LargeNodesAreSpared
      <4> DEFINE m == fleet[i]
      <4>1. m \in FleetNode
        BY <1>2
      <4>2. m.status = n.status /\ m.use = n.use /\ m.beats = n.beats
        <5> HIDE DEF n, m
        <5>1. [m EXCEPT !.free = n.free] = n
          BY DEF m
        <5>2. /\ [m EXCEPT !.free = n.free].status = m.status
              /\ [m EXCEPT !.free = n.free].use = m.use
              /\ [m EXCEPT !.free = n.free].beats = m.beats
          BY <4>1 DEF FleetNode
        <5> QED BY <5>1, <5>2
      <4>3. Usable(n, need) /\ Usable(m, need)
        BY <3>1
      <4>4. Ahead(fleet, need, advice.node, i)
        <5>1. i \in usable /\ i # advice.node
          <6>1. n.free \in Nat
            BY <3>3 DEF FleetNode
          <6>2. i # advice.node
            BY <6>1
          <6> QED BY <2>2, <4>3, <6>2
        <5> QED BY <3>1, <5>1
      <4>5. Score(n, need) >= Score(m, need)
        <5>1. Score(n, need) \in Int /\ Score(m, need) \in Int
          BY <3>3, <4>1, <4>3, UsableScore
        <5> QED BY <4>4, <5>1 DEF Ahead
      <4> HIDE DEF n, m
      <4>6. /\ HealthScore(m) = HealthScore(n) /\ LoadScore(m) = LoadScore(n)
            /\ StabilityScore(m) = StabilityScore(n)
        BY <4>2 DEF HealthScore, LoadScore, StabilityScore
      <4>7. m.free \in Nat \ {0} /\ n.free \in Nat \ {0} /\ m.free <= n.free
        BY <3>3, <4>1, <4>3, UsableScore DEF m
      <4>8. (30 * need) \div n.free <= (30 * need) \div m.free
        BY <4>7, LargerFitsLess
      <4>9. /\ Score(n, need) =
                 HealthScore(n) + FitScore(n, need) + LoadScore(n) + StabilityScore(n)
            /\ FitScore(n, need) = (30 * need) \div n.free
            /\ FitScore(n, need) \in Int /\ HealthScore(n) \in Int /\ LoadScore(n) \in Int
            /\ StabilityScore(n) \in Int
        BY <3>3, <4>3, UsableScore
      <4>10. /\ Score(m, need) =
                  HealthScore(m) + FitScore(m, need) + LoadScore(m) + StabilityScore(m)
             /\ FitScore(m, need) = (30 * need) \div m.free
             /\ FitScore(m, need) \in Int
        BY <4>1, <4>3, UsableScore
      <4>11. Score(n, need) <= Score(m, need)
        <5>1. FitScore(n, need) <= FitScore(m, need)
          BY <4>8, <4>9, <4>10
        <5> QED BY <4>6, <4>9, <4>10, <5>1
      <4>12. Score(n, need) \in Int /\ Score(m, need) \in Int
        BY <3>3, <4>1, <4>3, UsableScore
      <4> QED BY <4>5, <4>11, <4>12 DEF m
    <3> QED BY <3>2, <3>4, <3>5 DEF AdviceIsSound, SomeNodeIsAdvised
  <2> QED BY <2>4, <2>5
<1> QED BY <1>4, <1>5

\* Whatever the fleet and the units of the product: the node advised is up and has a card free
\* for each card ordered, there is advice whenever some node would do, and of two nodes alike but
\* for their free cards the order goes to the one it fits more tightly (Advise, scoreNode).
THEOREM AdviceStaysSound == AdviceSpec => []AdviceIsSound
<1>1. AdviceInit => AdviceInv
  BY DEF AdviceInit, AdviceInv
<1>2. AdviceInv /\ [Advise]_adviceVars => AdviceInv'
  <2> SUFFICES ASSUME AdviceInv, [Advise]_adviceVars PROVE AdviceInv'
    OBVIOUS
  <2>1. CASE UNCHANGED adviceVars
    BY <2>1 DEF AdviceInv, adviceVars, NeedCards, MayAsk
  <2>2. CASE Advise
    <3>1. fleet' = fleet /\ request' = request
      BY <2>2 DEF Advise
    <3>2. advice'.asked = TRUE
      BY <2>2 DEF Advise
    <3>3. advice'.node = IF MayAsk(request) /\ NeedCards(request) > 0
                         THEN Recommended(fleet, NeedCards(request)) ELSE NoAdvice
      BY <2>2 DEF Advise
    <3> QED BY <3>1, <3>2, <3>3 DEF AdviceInv
  <2> QED BY <2>1, <2>2
<1> QED BY <1>1, <1>2, AdviceInvIsSound, PTL DEF AdviceSpec


-----------------------------------------------------------------------------
(* The guided search *)

\* The units of a listing have a number of cards, or none.
LEMMA CardsOfUnits ==
    ASSUME NEW p, ListedProduct(p)
    PROVE  CardsPerUnit(p) \in Nat
<1>1. ASSUME EvenCards(p) PROVE p.cards \div p.machines \in Nat
  <2>1. p.cards \in Nat \ {0} /\ p.machines \in Nat \ {0}
    BY <1>1 DEF EvenCards, ListedProduct
  <2> DEFINE a == p.cards
             b == p.machines
  <2>2. a \in Nat \ {0} /\ b \in Nat \ {0}
    BY <2>1
  <2> HIDE DEF a, b
  <2>3. a \div b \in Int /\ a = b * (a \div b) + (a % b) /\ a % b \in 0..(b - 1)
    BY <2>2, DivMod
  <2>4. a \div b >= 0
    <3> DEFINE q == a \div b
    <3>1. q \in Int /\ a < b * q + b
      BY <2>2, <2>3
    <3> HIDE DEF q
    <3>2. SUFFICES ASSUME q <= -1 PROVE FALSE
      BY <3>1 DEF q
    <3>3. b * q <= -b
      BY <2>2, <3>1, <3>2
    <3>4. b * q \in Int
      BY <2>2, <3>1
    <3> QED BY <2>2, <3>1, <3>3, <3>4
  <2> QED BY <2>3, <2>4 DEF a, b
<1> QED BY <1>1 DEF CardsPerUnit

\* The least number of units that has the cards asked for, and that is sold.
LEMMA LeastUnits ==
    ASSUME NEW p, ListedProduct(p), CardsPerUnit(p) # 0,
           NEW w, w.cards \in Int, w.cards > 0
    PROVE  /\ UnitsFor(p, w) \in Nat \ {0}
           /\ UnitsFor(p, w) >= AtLeastOne(p.minOrder)
           /\ UnitsFor(p, w) * CardsPerUnit(p) >= w.cards
           /\ \A n \in Nat \ {0} :
                 n >= AtLeastOne(p.minOrder) /\ n * CardsPerUnit(p) >= w.cards
                    => n >= UnitsFor(p, w)
<1> DEFINE c == CardsPerUnit(p)
           need == w.cards
           least == AtLeastOne(p.minOrder)
           q == (need - 1) \div c
<1>1. c \in Nat \ {0} /\ need \in Nat \ {0} /\ least \in Nat \ {0}
  BY CardsOfUnits DEF ListedProduct, AtLeastOne
<1>2. UnitsFor(p, w) = IF least >= 1 + q THEN least ELSE 1 + q
  BY DEF UnitsFor, Larger
<1> HIDE DEF c, need, least
<1>3. q \in Int /\ need - 1 = c * q + ((need - 1) % c) /\ (need - 1) % c \in 0..(c - 1)
  <2>1. need - 1 \in Int
    BY <1>1
  <2> DEFINE a == need - 1
  <2> HIDE DEF a
  <2>2. a \div c \in Int /\ a = c * (a \div c) + (a % c) /\ a % c \in 0..(c - 1)
    BY <1>1, <2>1, DivMod DEF a
  <2> QED BY <2>2 DEF a
<1> HIDE DEF q
<1>4. c * q <= need - 1 /\ need - 1 < c * q + c /\ c * q \in Int
  BY <1>1, <1>3
<1>5. need <= c * (1 + q)
  <2>1. c * (1 + q) = c + c * q
    BY <1>1, <1>3
  <2> QED BY <1>1, <1>4, <2>1
<1> DEFINE u == IF least >= 1 + q THEN least ELSE 1 + q
<1>6. u \in Nat \ {0} /\ u >= least /\ u >= 1 + q
  BY <1>1, <1>3
<1>7. u * c >= need
  <2> HIDE DEF u
  <2>1. u * c >= c * (1 + q)
    BY <1>1, <1>3, <1>6
  <2>2. c * (1 + q) \in Int /\ u * c \in Int
    BY <1>1, <1>3, <1>6
  <2> QED BY <1>1, <1>5, <2>1, <2>2
<1>8. ASSUME NEW n \in Nat \ {0}, n >= least, n * c >= need PROVE n >= u
  <2>1. n >= 1 + q
    <3>1. SUFFICES ASSUME n <= q PROVE FALSE
      BY <1>3
    <3>2. n * c <= c * q
      BY <1>1, <1>3, <3>1
    <3>3. n * c \in Int
      BY <1>1
    <3> QED BY <1>1, <1>4, <1>8, <3>2, <3>3
  <2> QED BY <1>8, <2>1
<1> HIDE DEF u
<1>9. UnitsFor(p, w) = u
  BY <1>2 DEF u
<1> QED BY <1>6, <1>7, <1>8, <1>9 DEF c, need, least


\* What a listing earns in a search that names cards and a budget.
Wanted(w) == w.cards \in Int /\ w.periods \in Int /\ w.budget \in Int /\ w.cards > 0 /\ w.budget > 0

\* A listing meets a requirement exactly when it earns all for its stock and for the budget: if
\* any number of units will do, the least one that has the cards does.
LEMMA MeetsByScore ==
    ASSUME NEW p, ListedProduct(p), NEW w, Wanted(w), ModelFits(p, w)
    PROVE  Meets(p, w) <=> StockScore(p, w) = 20 /\ BudgetScore(p, w) = 20
<1> DEFINE c == CardsPerUnit(p)
           u == UnitsFor(p, w)
           periods == OrderedPeriods(p, PeriodsFor(p, w))
<1>1. c \in Nat
  BY CardsOfUnits
<1>2. periods \in Nat \ {0}
  <2>1. PeriodsFor(p, w) \in Nat \ {0}
    BY DEF PeriodsFor, Larger, AtLeastOne, ListedProduct, Wanted
  <2> QED BY <2>1 DEF OrderedPeriods
<1>3. ASSUME NEW n \in Nat \ {0}, p.price > 0, Priceable(p.price, n, periods)
      PROVE  Total(p.price, n, periods) = ExactTotal(p.price, n, periods)
  <2>1. p.price \in Nat \ {0}
    BY <1>3 DEF ListedProduct
  <2> HIDE DEF periods
  <2> QED BY <1>2, <1>3, <2>1, AmountsAreExactlyThat
<1>4. MaxOrderQuantity \in Nat \ {0} /\ p.stock \in Int /\ p.price \in Int
  BY PricingAssumption DEF ListedProduct
<1>5. ASSUME StockScore(p, w) = 20, BudgetScore(p, w) = 20 PROVE Meets(p, w)
  <2>1. c # 0 /\ p.stock >= u
    BY <1>5 DEF StockScore, Wanted
  <2>2. WithinBudget(p, w)
    BY <1>5 DEF BudgetScore, Wanted
  <2>3. /\ w.mode \in {"", p.mode} /\ Orderable(p, u, PeriodsFor(p, w))
        /\ Priceable(p.price, u, periods) /\ Total(p.price, u, periods) <= w.budget
    BY <2>2 DEF WithinBudget
  <2>4. /\ u \in Nat \ {0} /\ u * c >= w.cards
    BY <2>1, LeastUnits DEF Wanted
  <2>5. u <= MaxOrderQuantity /\ p.price > 0
    <3>1. AtLeastOne(p.minOrder) \in Int
      BY DEF AtLeastOne, ListedProduct
    <3>2. u \in AtLeastOne(p.minOrder)..MaxOrderQuantity /\ p.price > 0
      BY <2>3 DEF Orderable
    <3> HIDE DEF u
    <3> QED BY <3>1, <3>2, <1>4, <2>4
  <2>6. u \in 1..MaxOrderQuantity
    BY <1>4, <2>4, <2>5
  <2>7. ExactTotal(p.price, u, periods) <= w.budget
    BY <1>3, <2>3, <2>4, <2>5
  <2>8. u <= p.stock
    BY <1>4, <2>1, <2>4
  <2> QED BY <2>3, <2>4, <2>6, <2>7, <2>8 DEF Meets
<1>6. ASSUME Meets(p, w) PROVE StockScore(p, w) = 20 /\ BudgetScore(p, w) = 20
  <2>1. PICK n \in 1..MaxOrderQuantity :
          /\ n * c >= w.cards /\ n <= p.stock
          /\ Orderable(p, n, PeriodsFor(p, w))
          /\ ExactTotal(p.price, n, periods) <= w.budget
          /\ Priceable(p.price, n, periods)
    BY <1>6 DEF Meets
  <2>2. n \in Nat \ {0} /\ n <= MaxOrderQuantity
    BY <1>4
  <2>3. c # 0
    <3>1. n * c >= w.cards /\ w.cards > 0 /\ w.cards \in Int
      BY <2>1 DEF Wanted
    <3> QED BY <1>1, <2>2, <3>1
  <2>4. /\ AtLeastOne(p.minOrder) \in Nat \ {0} /\ n >= AtLeastOne(p.minOrder) /\ p.price > 0
        /\ ~p.negotiable /\ p.type # "colocation"
        /\ p.mode = "perpetual" \/
             PeriodsFor(p, w) \in AtLeastOne(p.minPeriods)..MaxPeriods[p.mode]
    <3>1. AtLeastOne(p.minOrder) \in Nat \ {0}
      BY DEF AtLeastOne, ListedProduct
    <3> QED BY <2>1, <2>2, <3>1, <1>4 DEF Orderable
  <2>5. /\ u \in Nat \ {0} /\ u >= AtLeastOne(p.minOrder) /\ n >= u
    <3>1. w.cards \in Int /\ w.cards > 0 /\ n * c >= w.cards
      BY <2>1 DEF Wanted
    <3> QED BY <2>2, <2>3, <2>4, <3>1, LeastUnits
  <2>6. StockScore(p, w) = 20
    <3>1. p.stock >= u
      BY <1>4, <2>1, <2>2, <2>5
    <3> QED BY <2>3, <3>1 DEF StockScore, Wanted
  <2>7. Orderable(p, u, PeriodsFor(p, w))
    <3>1. u \in AtLeastOne(p.minOrder)..MaxOrderQuantity
      BY <1>4, <2>2, <2>4, <2>5
    <3> QED BY <2>4, <3>1 DEF Orderable
  <2>8. ExactTotal(p.price, u, periods) <= ExactTotal(p.price, n, periods)
    <3>1. p.price \in Nat \ {0}
      BY <1>4, <2>4
    <3> DEFINE a == p.price
               b == periods
    <3>2. a \in Nat \ {0} /\ b \in Nat \ {0}
      BY <3>1, <1>2
    <3> HIDE DEF a, b, u
    <3>3. a * u <= a * n /\ a * u \in Nat /\ a * n \in Nat
      BY <2>2, <2>5, <3>2
    <3>4. (a * u) * b <= (a * n) * b
      <4> DEFINE x == a * u
                 y == a * n
      <4>1. x \in Nat /\ y \in Nat /\ x <= y
        BY <3>3
      <4> HIDE DEF x, y
      <4>2. x * b <= y * b
        BY <3>2, <4>1
      <4> QED BY <4>2 DEF x, y
    <3> QED BY <3>4 DEF ExactTotal, a, b
  <2>9. Priceable(p.price, u, periods)
    <3>1. p.price \in Nat \ {0}
      BY <1>4, <2>4
    <3> HIDE DEF periods, u
    <3>2. ExactTotal(p.price, n, periods) <= MaxTotal
      BY <1>2, <2>1, <2>2, <3>1, AmountsAreFound DEF periods
    <3>3. ExactTotal(p.price, u, periods) \in Int /\ ExactTotal(p.price, n, periods) \in Int
      BY <1>2, <2>2, <2>5, <3>1 DEF ExactTotal
    <3>4. ExactTotal(p.price, u, periods) <= MaxTotal
      BY <2>8, <3>2, <3>3, PricingAssumption
    <3> QED BY <1>2, <2>5, <3>1, <3>4, AmountsAreFound
  <2>10. Total(p.price, u, periods) <= w.budget
    <3>1. Total(p.price, u, periods) = ExactTotal(p.price, u, periods)
      BY <1>3, <2>4, <2>5, <2>9
    <3>2. ExactTotal(p.price, u, periods) \in Int /\ ExactTotal(p.price, n, periods) \in Int
      BY <1>2, <1>4, <2>2, <2>5 DEF ExactTotal
    <3>3. ExactTotal(p.price, n, periods) <= w.budget /\ w.budget \in Int
      BY <2>1 DEF Wanted
    <3> QED BY <2>8, <3>1, <3>2, <3>3
  <2>11. w.mode \in {"", p.mode} /\ c > 0
    <3>1. w.mode \in {"", p.mode}
      BY <1>6 DEF Meets
    <3> HIDE DEF c
    <3>2. c > 0
      BY <1>1, <2>3
    <3> QED BY <3>1, <3>2
  <2>12. WithinBudget(p, w)
    BY <2>7, <2>9, <2>10, <2>11 DEF WithinBudget
  <2> QED BY <2>6, <2>12 DEF BudgetScore, Wanted
<1> QED BY <1>5, <1>6

\* What meets a requirement is ahead of what does not, whatever region and mode add, and is
\* never below the least score for a match.
LEMMA MeetingScoresMore ==
    ASSUME NEW p, ListedProduct(p), NEW q, ListedProduct(q), NEW w, Wanted(w),
           ModelFits(p, w), ModelFits(q, w), Meets(q, w)
    PROVE  /\ MatchScore(p, w) \in Int /\ MatchScore(q, w) \in Int /\ MatchScore(q, w) >= 60
           /\ ~Meets(p, w) => MatchScore(p, w) < MatchScore(q, w)
<1> DEFINE top == IF w.mode = "" THEN 0 ELSE 10
<1>1. StockScore(q, w) = 20 /\ BudgetScore(q, w) = 20
  BY MeetsByScore
<1>2. ModeScore(q, w) = top /\ ModeScore(p, w) \in {0, top}
  BY DEF Meets, ModeScore
<1>3. RegionScore(p, w) \in {0, 10} /\ RegionScore(q, w) \in {0, 10}
  BY DEF RegionScore
<1>4. ModelScore(p, w) = ModelScore(q, w) /\ ModelScore(p, w) \in {20, 40}
  BY DEF ModelScore
<1>5. StockScore(p, w) \in {0, 5, 20} /\ BudgetScore(p, w) \in {0, 20}
  BY DEF StockScore, BudgetScore, Wanted
<1>6. ~Meets(p, w) => StockScore(p, w) \in {0, 5} \/ BudgetScore(p, w) = 0
  BY <1>5, MeetsByScore
<1>7. top \in {0, 10}
  OBVIOUS
<1> HIDE DEF top
<1>8. /\ MatchScore(p, w) = ModelScore(p, w) + StockScore(p, w) + BudgetScore(p, w)
                              + RegionScore(p, w) + ModeScore(p, w)
      /\ MatchScore(q, w) = ModelScore(q, w) + StockScore(q, w) + BudgetScore(q, w)
                              + RegionScore(q, w) + ModeScore(q, w)
  BY DEF MatchScore
<1>9. MatchScore(p, w) \in Int /\ MatchScore(q, w) \in Int /\ MatchScore(q, w) >= 60
  BY <1>1, <1>2, <1>3, <1>4, <1>5, <1>7, <1>8
<1>10. ASSUME ~Meets(p, w) PROVE MatchScore(p, w) < MatchScore(q, w)
  <2>1. CASE StockScore(p, w) \in {0, 5}
    BY <1>1, <1>2, <1>3, <1>4, <1>5, <1>7, <1>8, <2>1
  <2>2. CASE BudgetScore(p, w) = 0
    BY <1>1, <1>2, <1>3, <1>4, <1>5, <1>7, <1>8, <2>2
  <2> QED BY <1>6, <1>10, <2>1, <2>2
<1> QED BY <1>9, <1>10


ShownPairs(m, w) == {p \in Matched(m, w) \X Matched(m, w) : ShownBefore(m, w, p[1], p[2])}

Shown(m, w) ==
    LET number == Cardinality(Matched(m, w))
    IN  IF number > MaxMatches THEN MaxMatches ELSE number

\* What is shown: matches, those before the others in the row of the scores, as many as there
\* are or as a page has.
LEMMA WhatIsShown ==
    ASSUME NEW m \in Markets, NEW w \in Requirements
    PROVE  /\ Shown(m, w) \in Nat
           /\ DOMAIN ShownMatches(m, w) = 1..Shown(m, w)
           /\ \A k \in 1..Shown(m, w) : ShownMatches(m, w)[k] \in Matched(m, w)
           /\ \A j, k \in 1..Shown(m, w) : j < k =>
                 ShownBefore(m, w, ShownMatches(m, w)[j], ShownMatches(m, w)[k])
           /\ \A i \in Matched(m, w) :
                 (\A k \in 1..Shown(m, w) : ShownMatches(m, w)[k] # i) =>
                    /\ Shown(m, w) = MaxMatches
                    /\ \A k \in 1..Shown(m, w) : ShownBefore(m, w, ShownMatches(m, w)[k], i)
<1> DEFINE S == Matched(m, w)
           R == ShownPairs(m, w)
           f == Places(R, S)
           N == Cardinality(S)
           K == Shown(m, w)
           page == ShownMatches(m, w)
<1>1. S \in SUBSET Nat /\ IsFiniteSet(S) /\ S \in SUBSET (DOMAIN m)
  <2>1. S \in SUBSET (DOMAIN m)
    BY DEF Matched, Candidates
  <2>2. \E n \in Nat : DOMAIN m = 1..n
    <3>1. m \in Seq({m[i] : i \in DOMAIN m})
      BY MatchingAssumption
    <3> DEFINE T == {m[i] : i \in DOMAIN m}
    <3>2. m \in Seq(T)
      BY <3>1
    <3> HIDE DEF T
    <3>3. DOMAIN m = 1..Len(m) /\ Len(m) \in Nat
      BY <3>2
    <3> QED BY <3>3
  <2> HIDE DEF S
  <2>3. PICK n \in Nat : DOMAIN m = 1..n
    BY <2>2
  <2>4. S \in SUBSET (1..n)
    BY <2>1, <2>3
  <2>5. IsFiniteSet(1..n) /\ 1..n \in SUBSET Nat
    BY FS_Interval
  <2>6. IsFiniteSet(S)
    BY <2>4, <2>5, FS_Subset
  <2> QED BY <2>1, <2>4, <2>5, <2>6
<1>2. \A i \in S : MatchScore(m[i], w) \in Int
  <2> SUFFICES ASSUME NEW i \in S PROVE MatchScore(m[i], w) \in Int
    OBVIOUS
  <2>1. /\ ModelScore(m[i], w) \in Int /\ StockScore(m[i], w) \in Int
        /\ BudgetScore(m[i], w) \in Int /\ RegionScore(m[i], w) \in Int
        /\ ModeScore(m[i], w) \in Int
    BY DEF ModelScore, StockScore, BudgetScore, RegionScore, ModeScore
  <2> QED BY <2>1 DEF MatchScore
<1> HIDE DEF S
<1>3. \A i, j \in S : <<i, j>> \in R <=> ShownBefore(m, w, i, j)
  BY DEF S, ShownPairs
<1> HIDE DEF R
<1>4. InARow(R, S)
  <2>1. ASSUME NEW a \in S, NEW b \in S, NEW c \in S,
               ShownBefore(m, w, a, b), ShownBefore(m, w, b, c)
        PROVE  ShownBefore(m, w, a, c)
    <3>1. /\ a \in Nat /\ b \in Nat /\ c \in Nat /\ MatchScore(m[a], w) \in Int
          /\ MatchScore(m[b], w) \in Int /\ MatchScore(m[c], w) \in Int
      BY <1>1, <1>2
    <3> QED BY <2>1, <3>1 DEF ShownBefore
  <2>2. ASSUME NEW a \in S PROVE ~ShownBefore(m, w, a, a)
    <3>1. a \in Nat /\ MatchScore(m[a], w) \in Int
      BY <1>1, <1>2
    <3> QED BY <3>1 DEF ShownBefore
  <2>3. ASSUME NEW a \in S, NEW b \in S, a # b
        PROVE  ShownBefore(m, w, a, b) \/ ShownBefore(m, w, b, a)
    <3>1. /\ a \in Nat /\ b \in Nat /\ MatchScore(m[a], w) \in Int
          /\ MatchScore(m[b], w) \in Int
      BY <1>1, <1>2
    <3> QED BY <2>3, <3>1 DEF ShownBefore
  <2> QED BY <1>3, <2>1, <2>2, <2>3 DEF InARow
<1>5. /\ N \in Nat
      /\ \A a \in S : f[a] \in 1..N
      /\ \A a, b \in S : <<a, b>> \in R => f[a] < f[b]
      /\ \A k \in 1..N : \E a \in S : f[a] = k
  BY <1>1, <1>4, PlacesAreTaken
<1>6. \A i \in S : f[i] = PlaceOf(m, w, i)
  <2> SUFFICES ASSUME NEW i \in S PROVE f[i] = PlaceOf(m, w, i)
    OBVIOUS
  <2>1. Before(R, S, i) = {j \in Matched(m, w) : ShownBefore(m, w, j, i)}
    <3>1. \A j \in S : <<j, i>> \in R <=> ShownBefore(m, w, j, i)
      BY <1>3
    <3> QED BY <3>1 DEF Before, S
  <2> QED BY <2>1 DEF Places, PlaceOf
<1> HIDE DEF f
<1>7. K \in Nat /\ K <= N /\ K = (IF N > MaxMatches THEN MaxMatches ELSE N)
  <2>1. K = IF N > MaxMatches THEN MaxMatches ELSE N
    BY DEF Shown, S
  <2> HIDE DEF K, N
  <2> QED BY <1>5, <2>1, MatchingAssumption
<1>8. page = [k \in 1..K |-> CHOOSE i \in S : PlaceOf(m, w, i) = k]
  BY DEF ShownMatches, Shown, S
<1> HIDE DEF K, N, page
<1>9. \A k \in 1..K : page[k] \in S /\ f[page[k]] = k
  <2> SUFFICES ASSUME NEW k \in 1..K PROVE page[k] \in S /\ f[page[k]] = k
    OBVIOUS
  <2>1. k \in 1..N
    BY <1>5, <1>7
  <2>2. PICK a \in S : f[a] = k
    BY <1>5, <2>1
  <2>3. PlaceOf(m, w, a) = k
    BY <1>6, <2>2
  <2>4. page[k] = CHOOSE i \in S : PlaceOf(m, w, i) = k
    BY <1>8
  <2>5. page[k] \in S /\ PlaceOf(m, w, page[k]) = k
    BY <2>3, <2>4
  <2> QED BY <1>6, <2>5
<1>10. \A a, b \in S : f[a] < f[b] => <<a, b>> \in R
  <2> SUFFICES ASSUME NEW a \in S, NEW b \in S, f[a] < f[b], <<a, b>> \notin R PROVE FALSE
    OBVIOUS
  <2>1. f[a] \in Nat /\ f[b] \in Nat
    BY <1>5
  <2>2. a # b
    BY <2>1
  <2>3. <<b, a>> \in R
    BY <1>4, <2>2 DEF InARow
  <2>4. f[b] < f[a]
    BY <1>5, <2>3
  <2> QED BY <2>1, <2>4
<1>11. \A j, k \in 1..K : j < k => ShownBefore(m, w, page[j], page[k])
  <2> SUFFICES ASSUME NEW j \in 1..K, NEW k \in 1..K, j < k
               PROVE  ShownBefore(m, w, page[j], page[k])
    OBVIOUS
  <2>1. page[j] \in S /\ page[k] \in S /\ f[page[j]] < f[page[k]]
    BY <1>9
  <2> QED BY <1>3, <1>10, <2>1
<1>12. ASSUME NEW i \in S, \A k \in 1..K : page[k] # i
       PROVE  K = MaxMatches /\ \A k \in 1..K : ShownBefore(m, w, page[k], i)
  <2>1. PICK n \in 1..N : n = f[i]
    BY <1>5
  <2>2. n \notin 1..K
    <3> SUFFICES ASSUME n \in 1..K PROVE FALSE
      OBVIOUS
    <3>1. page[n] \in S /\ f[page[n]] = f[i] /\ page[n] # i
      BY <1>9, <1>12, <2>1
    <3>2. <<page[n], i>> \in R \/ <<i, page[n]>> \in R
      BY <1>4, <3>1 DEF InARow
    <3>3. f[page[n]] < f[i] \/ f[i] < f[page[n]]
      BY <1>5, <3>1, <3>2
    <3>4. f[i] \in Nat
      BY <2>1
    <3> QED BY <3>1, <3>3, <3>4
  <2>3. K < n /\ n <= N /\ N \in Nat
    BY <1>5, <1>7, <2>2
  <2>4. K = MaxMatches
    BY <1>7, <2>3
  <2>5. ASSUME NEW k \in 1..K PROVE ShownBefore(m, w, page[k], i)
    <3>1. page[k] \in S /\ f[page[k]] = k /\ k < n
      BY <1>7, <1>9, <2>3
    <3>2. f[page[k]] < f[i]
      BY <2>1, <3>1
    <3> QED BY <1>3, <1>10, <3>1, <3>2
  <2> QED BY <2>4, <2>5
<1>13. DOMAIN page = 1..K
  BY <1>8
<1>14. \A k \in 1..K : page[k] \in S
  BY <1>9
<1> QED BY <1>7, <1>11, <1>12, <1>13, <1>14 DEF K, page, S

MatchingInv ==
    /\ market \in Markets /\ wish \in Requirements /\ found.searched \in BOOLEAN
    /\ IF found.searched /\ wish.relevant THEN found.matches = ShownMatches(market, wish)
       ELSE found.matches = <<>>

\* A candidate that is ahead of one that meets the requirement meets it too.
LEMMA AheadMeetsToo ==
    ASSUME NEW m \in Markets, NEW w \in Requirements, Wanted(w),
           NEW i \in Matched(m, w), NEW j \in Matched(m, w),
           ShownBefore(m, w, i, j), Meets(m[j], w)
    PROVE  Meets(m[i], w)
<1>1. /\ ListedProduct(m[i]) /\ ListedProduct(m[j])
      /\ ModelFits(m[i], w) /\ ModelFits(m[j], w)
  BY MatchingAssumption DEF Matched, Candidates
<1>2. /\ MatchScore(m[i], w) \in Int /\ MatchScore(m[j], w) \in Int
      /\ ~Meets(m[i], w) => MatchScore(m[i], w) < MatchScore(m[j], w)
  BY <1>1, MeetingScoresMore
<1>3. MatchScore(m[i], w) >= MatchScore(m[j], w)
  BY <1>2 DEF ShownBefore
<1> QED BY <1>2, <1>3

LEMMA MeetingIsMatched ==
    ASSUME NEW m \in Markets, NEW w \in Requirements, Wanted(w),
           NEW i \in Candidates(m), Meets(m[i], w)
    PROVE  i \in Matched(m, w)
<1>1. ListedProduct(m[i]) /\ ModelFits(m[i], w)
  BY MatchingAssumption DEF Candidates, Meets
<1>2. MatchScore(m[i], w) \in Int /\ MatchScore(m[i], w) >= 60
  BY <1>1, MeetingScoresMore
<1>3. MatchScore(m[i], w) >= MinMatchScore
  BY <1>2, MatchingAssumption
<1> QED BY <1>1, <1>3 DEF Matched

LEMMA MatchingInvMeetsFirst == MatchingInv => WhatMeetsComesFirst
<1> SUFFICES ASSUME MatchingInv, wish.relevant, wish.cards > 0, wish.budget > 0
             PROVE  /\ \A i, j \in DOMAIN found.matches :
                          i < j /\ Meets(market[found.matches[j]], wish)
                             => Meets(market[found.matches[i]], wish)
                    /\ found.searched =>
                          \A i \in Candidates(market) :
                              Meets(market[i], wish) /\ ~InMatches(i) =>
                                 /\ Len(found.matches) = MaxMatches
                                 /\ \A j \in DOMAIN found.matches :
                                       Meets(market[found.matches[j]], wish)
  BY DEF WhatMeetsComesFirst
<1>1. market \in Markets /\ wish \in Requirements /\ Wanted(wish)
  BY MatchingAssumption DEF MatchingInv, Wanted
<1>2. CASE ~found.searched
  <2>1. DOMAIN found.matches = {}
    BY <1>2 DEF MatchingInv
  <2> QED BY <1>2, <2>1
<1>3. CASE found.searched
  <2> DEFINE K == Shown(market, wish)
             page == found.matches
  <2>1. page = ShownMatches(market, wish)
    BY <1>3 DEF MatchingInv
  <2> HIDE DEF page
  <2>2. /\ K \in Nat /\ DOMAIN page = 1..K
        /\ \A k \in 1..K : page[k] \in Matched(market, wish)
        /\ \A j, k \in 1..K : j < k => ShownBefore(market, wish, page[j], page[k])
        /\ \A i \in Matched(market, wish) : (\A k \in 1..K : page[k] # i) =>
              /\ K = MaxMatches
              /\ \A k \in 1..K : ShownBefore(market, wish, page[k], i)
    BY <1>1, <2>1, WhatIsShown
  <2> HIDE DEF K
  <2>3. ASSUME NEW i \in 1..K, NEW j \in 1..K, i < j, Meets(market[page[j]], wish)
        PROVE  Meets(market[page[i]], wish)
    <3>1. /\ page[i] \in Matched(market, wish) /\ page[j] \in Matched(market, wish)
          /\ ShownBefore(market, wish, page[i], page[j])
      BY <2>2, <2>3
    <3> QED BY <1>1, <2>3, <3>1, AheadMeetsToo
  <2>4. ASSUME NEW i \in Candidates(market), Meets(market[i], wish), ~InMatches(i)
        PROVE  /\ Len(page) = MaxMatches
               /\ \A j \in 1..K : Meets(market[page[j]], wish)
    <3>1. i \in Matched(market, wish)
      BY <1>1, <2>4, MeetingIsMatched
    <3>2. \A k \in 1..K : page[k] # i
      BY <2>2, <2>4 DEF InMatches, page
    <3>3. K = MaxMatches /\ \A k \in 1..K : ShownBefore(market, wish, page[k], i)
      BY <2>2, <3>1, <3>2
    <3>4. ASSUME NEW j \in 1..K PROVE Meets(market[page[j]], wish)
      <4>1. page[j] \in Matched(market, wish) /\ ShownBefore(market, wish, page[j], i)
        BY <2>2, <3>3
      <4> QED BY <1>1, <2>4, <3>1, <4>1, AheadMeetsToo
    <3>5. Len(page) = K
      <4>1. page = [k \in 1..K |-> page[k]]
        BY <2>1, <2>2 DEF ShownMatches
      <4>2. page \in Seq(Matched(market, wish))
        BY <2>2, <4>1, IsASeq
      <4> QED BY <2>2, <4>2, LenProperties
    <3> QED BY <3>3, <3>4, <3>5
  <2> QED BY <2>2, <2>3, <2>4 DEF page
<1> QED BY <1>2, <1>3

\* For any market and any requirement that names cards and a budget: whatever meets all of it
\* is shown before what does not, though region, stock and mode add to a score, and none that
\* meets it is left out but for others that meet it too (matchProducts, search).
THEOREM WhatMeetsStaysFirst == MatchingSpec => []WhatMeetsComesFirst
<1>1. MatchingInit => MatchingInv
  BY DEF MatchingInit, MatchingInv
<1>2. MatchingInv /\ [Search]_matchingVars => MatchingInv'
  <2> SUFFICES ASSUME MatchingInv, [Search]_matchingVars PROVE MatchingInv'
    OBVIOUS
  <2>1. CASE UNCHANGED matchingVars
    BY <2>1 DEF MatchingInv, matchingVars
  <2>2. CASE Search
    <3>1. market' = market /\ wish' = wish /\ found'.searched = TRUE
      BY <2>2 DEF Search
    <3>2. found'.matches = IF wish.relevant THEN ShownMatches(market, wish) ELSE <<>>
      BY <2>2 DEF Search
    <3> QED BY <3>1, <3>2 DEF MatchingInv
  <2> QED BY <2>1, <2>2
<1> QED BY <1>1, <1>2, MatchingInvMeetsFirst, PTL DEF MatchingSpec

-----------------------------------------------------------------------------
(* The health of products *)

\* What the aggregation yields is a value of the column products.health.
LEMMA HealthIsHealth == ASSUME NEW p PROVE HealthOf(p) \in Health
BY DEF HealthOf, Health

\* A worker at rest has a well-typed record: there is a product to name.
LEMMA IdleIsRefresh == Idle \in Refresh
<1>1. (CHOOSE p \in Products : TRUE) \in Products
  BY NodeHealthAssumption
<1>. QED  BY <1>1 DEF Idle, Refresh, RefreshSteps, Health

\* A refresh begins with a well-typed record.
LEMMA RefreshingIsRefresh ==
  ASSUME refresh \in [Workers -> Refresh], NEW w \in Workers, NEW p \in Products
  PROVE  Refreshing(w, p) \in [Workers -> Refresh]
<1>1. [Idle EXCEPT !.at = "prev", !.product = p] \in Refresh
  BY IdleIsRefresh DEF Refresh, RefreshSteps
<1>. QED  BY <1>1 DEF Refreshing

\* The three parties that refresh are workers.
LEMMA WhoWorks ==
  /\ "sweep" \in Workers /\ "supplier" \in Workers
  /\ \A n \in Nodes : n \in Workers /\ ProductOf[n] \in Products
BY NodeHealthAssumption DEF Workers

\* Initially everything is well-typed.
LEMMA InitTyped == Init => TypeOK
<1>. SUFFICES ASSUME Init PROVE TypeOK
  OBVIOUS
<1>1. node \in [Nodes -> Node]
  BY DEF Init, Node, NodeStatus
<1>2. health \in [Products -> Health]
  BY HealthIsHealth DEF Init
<1>3. refresh \in [Workers -> Refresh]
  BY IdleIsRefresh DEF Init
<1>. QED  BY <1>1, <1>2, <1>3 DEF Init, TypeOK, Sweep, Resting

\* The statements of a refresh keep the types.
LEMMA RefreshTyped ==
  ASSUME TypeOK, NEW w \in Workers, UpdateProductHealth(w)
  PROVE  TypeOK'
<1>. DEFINE r == refresh[w]
<1>r. /\ r \in Refresh /\ refresh \in [Workers -> Refresh]
      /\ r.product \in Products /\ r.prev \in Health /\ r.next \in Health
  BY DEF TypeOK, Refresh
<1>1. CASE ReadPrevious(w)
  <2>1. [r EXCEPT !.at = "aggregate", !.prev = health[r.product]] \in Refresh
    BY <1>r DEF TypeOK, Refresh, RefreshSteps
  <2>2. refresh' = [refresh EXCEPT ![w] = [r EXCEPT !.at = "aggregate",
                                                   !.prev = health[r.product]]]
    BY <1>1 DEF ReadPrevious
  <2>3. refresh' \in [Workers -> Refresh]
    BY <2>1, <2>2, <1>r
  <2>. QED  BY <1>1, <2>3 DEF ReadPrevious, TypeOK, counters
<1>2. CASE ReadAggregate(w)
  <2>1. [r EXCEPT !.at = "write", !.next = HealthOf(r.product)] \in Refresh
    BY <1>r, HealthIsHealth DEF Refresh, RefreshSteps
  <2>2. \/ refresh' = [refresh EXCEPT ![w] = Idle]
        \/ refresh' = [refresh EXCEPT ![w] = [r EXCEPT !.at = "write",
                                                      !.next = HealthOf(r.product)]]
    BY <1>2 DEF ReadAggregate
  <2>3. refresh' \in [Workers -> Refresh]
    BY <2>1, <2>2, <1>r, IdleIsRefresh
  <2>. QED  BY <1>2, <2>3 DEF ReadAggregate, TypeOK, counters
<1>3. CASE WriteHealth(w)
  <2>1. health' \in [Products -> Health]
    BY <1>3, <1>r DEF WriteHealth, TypeOK
  <2>2. [r EXCEPT !.at = "notify"] \in Refresh
    BY <1>r DEF Refresh, RefreshSteps
  <2>3. \/ refresh' = [refresh EXCEPT ![w] = Idle]
        \/ refresh' = [refresh EXCEPT ![w] = [r EXCEPT !.at = "notify"]]
    BY <1>3 DEF WriteHealth
  <2>4. refresh' \in [Workers -> Refresh]
    BY <2>2, <2>3, <1>r, IdleIsRefresh
  <2>. QED  BY <1>3, <2>1, <2>4 DEF WriteHealth, TypeOK, counters
<1>4. CASE Notify(w)
  <2>1. told' \in [Products -> {"none", "offline", "restored"}]
    BY <1>4, <1>r DEF Notify, Told, TypeOK
  <2>2. refresh' \in [Workers -> Refresh]
    BY <1>4, <1>r, IdleIsRefresh DEF Notify
  <2>. QED  BY <1>4, <2>1, <2>2 DEF Notify, TypeOK, counters
<1>. QED  BY <1>1, <1>2, <1>3, <1>4 DEF UpdateProductHealth

\* What happens to a node keeps the types.
LEMMA NodeStepTyped ==
  ASSUME TypeOK, NEW n \in Nodes, NodeStep(n)
  PROVE  TypeOK'
<1>. USE WhoWorks
<1>1. CASE RegisterNode(n)
  <2>1. node' \in [Nodes -> Node]
    BY <1>1 DEF RegisterNode, TypeOK, Node, NodeStatus
  <2>. QED  BY <1>1, <2>1 DEF RegisterNode, Disturbed, TypeOK
<1>2. CASE DeleteNode(n)
  <2>1. node' \in [Nodes -> Node]
    BY <1>2 DEF DeleteNode, TypeOK, Node, NodeStatus
  <2>2. refresh' \in [Workers -> Refresh]
    BY <1>2, RefreshingIsRefresh DEF DeleteNode, TypeOK
  <2>. QED  BY <1>2, <2>1, <2>2 DEF DeleteNode, Disturbed, TypeOK
<1>3. CASE FallSilent(n)
  <2>1. [node[n] EXCEPT !.fresh = FALSE] \in Node
    BY DEF TypeOK, Node
  <2>2. node' \in [Nodes -> Node]
    BY <1>3, <2>1 DEF FallSilent, TypeOK
  <2>3. silences' \in Nat /\ disturbances' \in Nat
    BY <1>3 DEF FallSilent, Disturbed, TypeOK
  <2>. QED  BY <1>3, <2>2, <2>3 DEF FallSilent, TypeOK
<1>4. ASSUME NEW status \in {"online", "degraded"}, Heartbeat(n, status)
      PROVE  TypeOK'
  <2>1. node' \in [Nodes -> Node]
    BY <1>4 DEF Heartbeat, TypeOK, Node, NodeStatus
  <2>2. refresh' \in [Workers -> Refresh]
    BY <1>4, RefreshingIsRefresh DEF Heartbeat, TypeOK
  <2>. QED  BY <1>4, <2>1, <2>2 DEF Heartbeat, TypeOK, counters
<1>. QED  BY <1>1, <1>2, <1>3, <1>4 DEF NodeStep

\* The sweep keeps the types.
LEMMA SweepTyped ==
  ASSUME TypeOK, RunLivenessSweep
  PROVE  TypeOK'
<1>. USE WhoWorks
<1>1. CASE ListStale
  <2>1. sweep' \in Sweep
    BY <1>1 DEF ListStale, Stale, Sweep
  <2>. QED  BY <1>1, <2>1 DEF ListStale, TypeOK, counters
<1>2. CASE MarkStaleOffline
  <2>1. \A n \in Nodes : [node[n] EXCEPT !.status = "offline"] \in Node
    BY DEF TypeOK, Node, NodeStatus
  <2>2. node' \in [Nodes -> Node]
    BY <1>2, <2>1 DEF MarkStaleOffline, TypeOK
  <2>3. sweep' \in Sweep
    BY <1>2 DEF MarkStaleOffline, TypeOK, Sweep
  <2>. QED  BY <1>2, <2>2, <2>3 DEF MarkStaleOffline, TypeOK, counters
<1>3. ASSUME NEW p \in sweep.todo, SweepOnce(p)
      PROVE  TypeOK'
  <2>1. p \in Products
    BY DEF TypeOK, Sweep
  <2>2. refresh' \in [Workers -> Refresh]
    BY <1>3, <2>1, RefreshingIsRefresh DEF SweepOnce, TypeOK
  <2>3. sweep' \in Sweep
    BY <1>3 DEF SweepOnce, TypeOK, Sweep
  <2>. QED  BY <1>3, <2>2, <2>3 DEF SweepOnce, TypeOK, counters
<1>4. CASE SweepDone
  BY <1>4 DEF SweepDone, Resting, TypeOK, Sweep, counters
<1>. QED  BY <1>1, <1>2, <1>3, <1>4 DEF RunLivenessSweep

\* Nodes, notices, the health of products and everything a worker or the sweep has
\* read stay well-typed, for any number of nodes and products and every interleaving
\* of heartbeats, sweeps, removals and restarts (internal/scheduler).
THEOREM HealthIsTyped == Spec => []TypeOK
<1>1. TypeOK /\ [Next]_vars => TypeOK'
  <2>. SUFFICES ASSUME TypeOK, [Next]_vars PROVE TypeOK'
    OBVIOUS
  <2>1. ASSUME NEW n \in Nodes, NodeStep(n) PROVE TypeOK'
    BY <2>1, NodeStepTyped
  <2>2. ASSUME NEW w \in Workers, UpdateProductHealth(w) PROVE TypeOK'
    BY <2>2, RefreshTyped
  <2>3. CASE RunLivenessSweep
    BY <2>3, SweepTyped
  <2>4. CASE Crash
    BY <2>4, IdleIsRefresh DEF Crash, Disturbed, Resting, TypeOK, Sweep
  <2>5. CASE UNCHANGED vars
    BY <2>5 DEF vars, TypeOK
  <2>. QED  BY <2>1, <2>2, <2>3, <2>4, <2>5 DEF Next
<1>. QED  BY InitTyped, <1>1, PTL DEF Spec

-----------------------------------------------------------------------------
(* Silence, while nothing disturbs the sweep *)

\* What the sweep is doing for a product.
Swept == refresh["sweep"]

\* The sweep is on its way to write that p is offline, and nothing it has read yet
\* will make it think that this is written already.
BlockIsComing(p) ==
    /\ Swept.product = p
    /\ \/ Swept.at = "prev"
       \/ Swept.at = "aggregate" /\ Swept.prev = health[p]
       \/ Swept.at = "write" /\ Swept.next = "offline"

\* While nothing disturbs the sweep, a product whose nodes have all fallen silent is
\* never forgotten: it is off sale, or the next sweep will find a node of it, or this
\* one has it on its list or is about to block it (MarkStaleOffline, sweepOnce).
SilenceIsFollowed ==
    disturbances = 0 =>
        \A p \in Products : Gone(p) =>
            \/ health[p] = "offline"
            \/ \E n \in Stale : ProductOf[n] = p
            \/ p \in sweep.todo
            \/ BlockIsComing(p)

\* While nothing disturbs the sweep, the supplier of a blocked product has been told
\* so last, or the sweep is just about to tell him: no notice that the product is
\* back comes after that, however late its handler (refreshProductHealth).
BlockIsTold ==
    disturbances = 0 =>
        \A p \in Products : health[p] = "offline" =>
            \/ told[p] = "offline"
            \/ Swept.at = "notify" /\ Swept.product = p /\ Swept.next = "offline"

\* Every node of p was marked offline.
Dark(p) == Registered(p) # {} /\ \A n \in Registered(p) : node[n].status = "offline"

\* A handler works for the node that reports, which is up as long as it does, so it
\* never finds its product offline.
HandlersReport ==
    /\ refresh["supplier"].at = "idle"
    /\ \A n \in Nodes :
         /\ node[n].status = "offline" => ~node[n].fresh
         /\ refresh[n].at # "idle" =>
              /\ refresh[n].product = ProductOf[n]
              /\ node[n].fresh
              /\ node[n].status \in {"online", "degraded"}
         /\ refresh[n].at \in {"write", "notify"} => refresh[n].next # "offline"
         /\ refresh[n].at = "notify" => refresh[n].prev = "offline"

\* Between its two statements the sweep has every node on its list that it will mark.
SweepIsWhole ==
    /\ sweep.at # "refresh" => Swept.at = "idle"
    /\ sweep.at = "mark" => \A n \in Stale : ProductOf[n] \in sweep.todo

\* What was marked is refreshed, and written.
DarkIsBlocked ==
    \A p \in Products : Dark(p) =>
        /\ \/ health[p] = "offline"
           \/ sweep.at = "refresh" /\ p \in sweep.todo
           \/ BlockIsComing(p)
        /\ Swept.at = "write" /\ Swept.product = p => Swept.next = "offline"

\* Only the sweep writes "offline", and no handler that has read it before is still
\* about to tell the supplier that the product is back.
NewsAreInOrder ==
    /\ Swept.at \in {"aggregate", "write"} /\ Swept.prev # "offline"
           => health[Swept.product] # "offline"
    /\ Swept.at = "write" => Swept.next # Swept.prev
    /\ Swept.at = "notify" /\ Swept.next # "offline" => health[Swept.product] # "offline"
    /\ Swept.at = "notify" /\ Swept.next # "offline" => Swept.prev = "offline"
    /\ \A n \in Nodes :
         /\ refresh[n].at = "notify" => health[ProductOf[n]] # "offline"
         /\ refresh[n].at \in {"aggregate", "write", "notify"} /\ refresh[n].prev = "offline"
                => ~(/\ Swept.at = "write"
                     /\ Swept.next = "offline"
                     /\ Swept.product = ProductOf[n])

\* Of every blocked product the supplier knows, or is about to.
BlocksAreTold ==
    \A p \in Products : health[p] = "offline" =>
        \/ told[p] = "offline"
        \/ Swept.at = "notify" /\ Swept.product = p /\ Swept.next = "offline"

WatchInv ==
    disturbances = 0 =>
        HandlersReport /\ SweepIsWhole /\ DarkIsBlocked /\ NewsAreInOrder /\ BlocksAreTold

\* A product with a node that is up is not offline.
LEMMA UpIsNotOffline ==
  ASSUME NEW n \in Nodes, node[n].status \in {"online", "degraded"}
  PROVE  HealthOf(ProductOf[n]) # "offline" /\ ~Dark(ProductOf[n])
<1>1. n \in Registered(ProductOf[n]) /\ n \in Up(ProductOf[n])
  BY DEF Registered, Up
<1>. QED  BY <1>1 DEF HealthOf, Dark, Up

\* A product whose nodes were all marked is offline.
LEMMA DarkIsOffline ==
  ASSUME NEW p, Dark(p)
  PROVE  HealthOf(p) = "offline"
<1>1. Registered(p) # {} /\ Up(p) = {}
  BY DEF Dark, Up
<1>. QED  BY <1>1 DEF HealthOf

\* While no node changes, what is known of nodes does not either.
LEMMA SameNodes ==
  ASSUME UNCHANGED node
  PROVE  /\ \A p : Registered(p)' = Registered(p) /\ HealthOf(p)' = HealthOf(p)
         /\ \A p : Dark(p)' <=> Dark(p)
         /\ Stale' = Stale
BY DEF Registered, Up, HealthOf, Dark, Stale

\* In the beginning nobody is silent and nobody is told anything.
LEMMA WatchBegins == Init => WatchInv
<1>. SUFFICES ASSUME Init PROVE WatchInv
  OBVIOUS
<1>1. /\ \A w \in Workers : refresh[w] = Idle
      /\ Idle.at = "idle"
  BY DEF Init, Idle
<1>2. \A n \in Nodes : node[n].status = "none" \/ (node[n].status = "online" /\ node[n].fresh)
  BY DEF Init
<1>3. \A n \in Nodes : node[n].status # "offline"
  BY <1>2
<1>4. \A p \in Products : ~Dark(p)
  BY <1>3 DEF Dark, Registered
<1>5. \A p \in Products : health[p] # "offline"
  <2>. SUFFICES ASSUME NEW p \in Products, Registered(p) # {} PROVE HealthOf(p) # "offline"
    BY DEF Init, HealthOf
  <2>1. PICK n \in Registered(p) : TRUE
    OBVIOUS
  <2>2. n \in Nodes /\ ProductOf[n] = p /\ node[n].status = "online"
    BY <2>1, <1>2 DEF Registered
  <2>. QED  BY <2>2, UpIsNotOffline
<1>6. HandlersReport
  BY <1>1, <1>3, WhoWorks DEF HandlersReport
<1>7. SweepIsWhole
  BY <1>1, WhoWorks DEF SweepIsWhole, Swept, Init, Resting
<1>8. DarkIsBlocked
  BY <1>4 DEF DarkIsBlocked
<1>w. Swept.at = "idle" /\ \A n \in Nodes : refresh[n].at = "idle"
  BY <1>1, WhoWorks DEF Swept
<1>9. NewsAreInOrder
  BY <1>w DEF NewsAreInOrder
<1>10. BlocksAreTold
  BY <1>5 DEF BlocksAreTold
<1>. QED  BY <1>6, <1>7, <1>8, <1>9, <1>10 DEF WatchInv

\* A node that reports is up, and its handler begins.
LEMMA HeartbeatWatched ==
  ASSUME TypeOK, WatchInv, disturbances = 0,
         NEW n \in Nodes, NEW status \in {"online", "degraded"}, Heartbeat(n, status)
  PROVE  WatchInv'
<1>. USE WhoWorks
<1>h. HandlersReport /\ SweepIsWhole /\ DarkIsBlocked /\ NewsAreInOrder /\ BlocksAreTold
  BY DEF WatchInv
<1>1. /\ refresh'[n].at = "prev" /\ refresh'[n].product = ProductOf[n]
      /\ \A w \in Workers \ {n} : refresh'[w] = refresh[w]
  BY DEF Heartbeat, Refreshing, Idle, TypeOK
<1>2. /\ node'[n].status = status /\ node'[n].fresh
      /\ \A m \in Nodes \ {n} : node'[m] = node[m]
  BY DEF Heartbeat, TypeOK
<1>3. UNCHANGED <<health, told, sweep, Swept>>
  BY <1>1, NodeHealthAssumption DEF Heartbeat, Swept
<1>4. "supplier" # n
  BY NodeHealthAssumption
<1>5. HandlersReport'
  BY <1>h, <1>1, <1>2, <1>4 DEF HandlersReport
<1>6. \A m \in Stale' : m \in Stale
  BY <1>2 DEF Stale
<1>7. SweepIsWhole'
  BY <1>h, <1>3, <1>6 DEF SweepIsWhole
<1>8. \A p \in Products : Dark(p)' => Dark(p)
  <2>. SUFFICES ASSUME NEW p \in Products, Dark(p)' PROVE Dark(p)
    OBVIOUS
  <2>1. ASSUME ProductOf[n] = p PROVE FALSE
    <3>1. n \in Registered(p)'
      BY <2>1, <1>2 DEF Registered
    <3>. QED  BY <3>1, <1>2 DEF Dark
  <2>2. Registered(p)' = Registered(p) /\ n \notin Registered(p)
    BY <2>1, <1>2 DEF Registered
  <2>. QED  BY <2>2, <1>2 DEF Dark, Registered
<1>9. DarkIsBlocked'
  BY <1>h, <1>3, <1>8 DEF DarkIsBlocked, BlockIsComing
<1>10. NewsAreInOrder'
  BY <1>h, <1>1, <1>3 DEF NewsAreInOrder
<1>11. BlocksAreTold'
  BY <1>h, <1>3 DEF BlocksAreTold
<1>. QED  BY <1>5, <1>7, <1>9, <1>10, <1>11 DEF WatchInv

\* A node that falls silent is found by the next sweep.
LEMMA SilenceWatched ==
  ASSUME TypeOK, WatchInv, disturbances = 0,
         NEW n \in Nodes, FallSilent(n), disturbances' = 0
  PROVE  WatchInv'
<1>. USE WhoWorks
<1>h. HandlersReport /\ SweepIsWhole /\ DarkIsBlocked /\ NewsAreInOrder /\ BlocksAreTold
  BY DEF WatchInv
<1>1. /\ \A m \in Nodes : node'[m].status = node[m].status
      /\ \A m \in Nodes \ {n} : node'[m].fresh = node[m].fresh
      /\ ~node'[n].fresh
      /\ refresh[n].at = "idle"
  BY DEF FallSilent, TypeOK, Node
<1>2. UNCHANGED <<health, told, sweep, refresh, Swept>>
  BY DEF FallSilent, Swept
<1>3. sweep.at # "mark"
  BY DEF FallSilent, Disturbed
<1>4. HandlersReport'
  BY <1>h, <1>1, <1>2 DEF HandlersReport
<1>5. SweepIsWhole'
  BY <1>h, <1>2, <1>3 DEF SweepIsWhole
<1>6. \A p : Dark(p)' <=> Dark(p)
  <2>. TAKE p
  <2>1. Registered(p)' = Registered(p)
    BY <1>1 DEF Registered
  <2>. QED  BY <2>1, <1>1 DEF Dark, Registered
<1>7. DarkIsBlocked'
  BY <1>h, <1>2, <1>6 DEF DarkIsBlocked, BlockIsComing
<1>8. NewsAreInOrder' /\ BlocksAreTold'
  BY <1>h, <1>2 DEF NewsAreInOrder, BlocksAreTold
<1>. QED  BY <1>4, <1>5, <1>7, <1>8 DEF WatchInv

\* The sweep lists what it will mark, marks it, and refreshes what it has listed.
LEMMA SweepWatched ==
  ASSUME TypeOK, WatchInv, disturbances = 0, RunLivenessSweep
  PROVE  WatchInv'
<1>. USE WhoWorks
<1>h. HandlersReport /\ SweepIsWhole /\ DarkIsBlocked /\ NewsAreInOrder /\ BlocksAreTold
  BY DEF WatchInv
<1>1. CASE ListStale
  <2>1. /\ UNCHANGED <<node, health, told, refresh, Swept>>
        /\ sweep'.at = "mark" /\ sweep'.todo = {ProductOf[n] : n \in Stale}
        /\ sweep.at = "idle"
    BY <1>1 DEF ListStale, Swept
  <2>2. HandlersReport' /\ NewsAreInOrder' /\ BlocksAreTold'
    BY <1>h, <2>1 DEF HandlersReport, NewsAreInOrder, BlocksAreTold
  <2>3. SweepIsWhole'
    BY <1>h, <2>1, SameNodes DEF SweepIsWhole
  <2>4. DarkIsBlocked'
    BY <1>h, <2>1, SameNodes DEF DarkIsBlocked, BlockIsComing
  <2>. QED  BY <2>2, <2>3, <2>4 DEF WatchInv
<1>2. CASE MarkStaleOffline
  <2>1. /\ UNCHANGED <<health, told, refresh, Swept, sweep.todo>>
        /\ sweep'.at = "refresh" /\ sweep.at = "mark"
        /\ Swept.at = "idle"
    BY <1>2, <1>h DEF MarkStaleOffline, SweepIsWhole, Swept, TypeOK, Sweep
  <2>2. \A n \in Nodes :
          /\ node'[n].fresh = node[n].fresh
          /\ n \in Stale => node'[n].status = "offline" /\ ~node[n].fresh
          /\ n \notin Stale => node'[n].status = node[n].status
    BY <1>2 DEF MarkStaleOffline, TypeOK, Node, Stale
  <2>3. \A n \in Nodes : refresh[n].at # "idle" => n \notin Stale
    BY <1>h DEF HandlersReport, Stale
  <2>4. HandlersReport'
    BY <1>h, <2>1, <2>2, <2>3 DEF HandlersReport
  <2>5. SweepIsWhole' /\ NewsAreInOrder' /\ BlocksAreTold'
    BY <1>h, <2>1 DEF SweepIsWhole, NewsAreInOrder, BlocksAreTold
  <2>6. ASSUME NEW p \in Products, Dark(p)', p \notin sweep.todo
        PROVE  Dark(p)
    <3>1. \A n \in Nodes : ProductOf[n] = p => n \notin Stale
      BY <2>1, <2>6, <1>h DEF SweepIsWhole
    <3>2. Registered(p)' = Registered(p)
      BY <3>1, <2>2 DEF Registered
    <3>3. \A n \in Registered(p) : node'[n].status = node[n].status
      BY <3>1, <2>2 DEF Registered
    <3>. QED  BY <2>6, <3>2, <3>3 DEF Dark
  <2>7. DarkIsBlocked'
    BY <1>h, <2>1, <2>6 DEF DarkIsBlocked, BlockIsComing
  <2>. QED  BY <2>4, <2>5, <2>7 DEF WatchInv
<1>3. ASSUME NEW q \in sweep.todo, SweepOnce(q)
      PROVE  WatchInv'
  <2>0. q \in Products
    BY DEF TypeOK, Sweep
  <2>1. /\ UNCHANGED <<node, health, told>>
        /\ sweep.at = "refresh" /\ sweep'.at = "refresh" /\ sweep'.todo = sweep.todo \ {q}
        /\ Swept.at = "idle"
    BY <1>3 DEF SweepOnce, Swept, TypeOK, Sweep
  <2>2. /\ Swept'.at = "prev" /\ Swept'.product = q
        /\ \A w \in Workers \ {"sweep"} : refresh'[w] = refresh[w]
    BY <1>3 DEF SweepOnce, Refreshing, Idle, Swept, TypeOK
  <2>3. \A n \in Nodes : refresh'[n] = refresh[n]
    BY <2>2, NodeHealthAssumption
  <2>4. refresh'["supplier"] = refresh["supplier"]
    BY <2>2
  <2>5. HandlersReport'
    BY <1>h, <2>1, <2>3, <2>4 DEF HandlersReport
  <2>6. SweepIsWhole'
    BY <2>1 DEF SweepIsWhole
  <2>7. DarkIsBlocked'
    BY <1>h, <2>1, <2>2, SameNodes DEF DarkIsBlocked, BlockIsComing
  <2>8. NewsAreInOrder'
    BY <1>h, <2>1, <2>2, <2>3 DEF NewsAreInOrder
  <2>9. BlocksAreTold'
    BY <1>h, <2>1 DEF BlocksAreTold
  <2>. QED  BY <2>5, <2>6, <2>7, <2>8, <2>9 DEF WatchInv
<1>4. CASE SweepDone
  <2>1. /\ UNCHANGED <<node, health, told, refresh, Swept>>
        /\ sweep.todo = {} /\ sweep'.at = "idle" /\ Swept.at = "idle"
    BY <1>4 DEF SweepDone, Swept, Resting
  <2>2. HandlersReport' /\ SweepIsWhole' /\ NewsAreInOrder' /\ BlocksAreTold'
    BY <1>h, <2>1 DEF HandlersReport, SweepIsWhole, NewsAreInOrder, BlocksAreTold
  <2>3. DarkIsBlocked'
    BY <1>h, <2>1, SameNodes DEF DarkIsBlocked, BlockIsComing
  <2>. QED  BY <2>2, <2>3 DEF WatchInv
<1>. QED  BY <1>1, <1>2, <1>3, <1>4 DEF RunLivenessSweep

\* What one statement of a refresh does to the worker it belongs to.
LEMMA RefreshStep ==
  ASSUME TypeOK, NEW w \in Workers, UpdateProductHealth(w)
  PROVE  /\ UNCHANGED <<node, sweep, disturbances>>
         /\ \A v \in Workers \ {w} : refresh'[v] = refresh[v]
         /\ \/ /\ refresh[w].at = "prev"
               /\ refresh'[w].at = "aggregate"
               /\ refresh'[w].product = refresh[w].product
               /\ refresh'[w].prev = health[refresh[w].product]
               /\ UNCHANGED <<health, told>>
            \/ /\ refresh[w].at = "aggregate"
               /\ HealthOf(refresh[w].product) = refresh[w].prev
               /\ refresh'[w].at = "idle"
               /\ UNCHANGED <<health, told>>
            \/ /\ refresh[w].at = "aggregate"
               /\ HealthOf(refresh[w].product) # refresh[w].prev
               /\ refresh'[w].at = "write"
               /\ refresh'[w].product = refresh[w].product
               /\ refresh'[w].prev = refresh[w].prev
               /\ refresh'[w].next = HealthOf(refresh[w].product)
               /\ UNCHANGED <<health, told>>
            \/ /\ refresh[w].at = "write"
               /\ health'[refresh[w].product] = refresh[w].next
               /\ \A p \in Products \ {refresh[w].product} : health'[p] = health[p]
               /\ \/ refresh'[w].at = "idle" /\ refresh[w].next # "offline"
                                            /\ refresh[w].prev # "offline"
                  \/ /\ refresh'[w].at = "notify"
                     /\ "offline" \in {refresh[w].prev, refresh[w].next}
                     /\ refresh'[w].product = refresh[w].product
                     /\ refresh'[w].prev = refresh[w].prev
                     /\ refresh'[w].next = refresh[w].next
               /\ UNCHANGED told
            \/ /\ refresh[w].at = "notify"
               /\ refresh'[w].at = "idle"
               /\ refresh[w].next = "offline" => told'[refresh[w].product] = "offline"
               /\ \A p \in Products \ {refresh[w].product} : told'[p] = told[p]
               /\ UNCHANGED health
<1>. DEFINE r == refresh[w]
<1>r. /\ r \in Refresh /\ r.product \in Products
      /\ refresh \in [Workers -> Refresh]
      /\ r = [at |-> r.at, product |-> r.product, prev |-> r.prev, next |-> r.next]
  BY DEF TypeOK, Refresh
<1>1. CASE ReadPrevious(w)
  BY <1>1, <1>r DEF ReadPrevious, counters
<1>2. CASE ReadAggregate(w)
  BY <1>2, <1>r DEF ReadAggregate, counters, Idle
<1>3. CASE WriteHealth(w)
  <2>1. health \in [Products -> Health]
    BY DEF TypeOK
  <2>. QED  BY <1>3, <1>r, <2>1 DEF WriteHealth, WorthANotice, counters, Idle
<1>4. CASE Notify(w)
  <2>1. told \in [Products -> {"none", "offline", "restored"}]
    BY DEF TypeOK
  <2>2. /\ told' = Told(r) /\ refresh' = [refresh EXCEPT ![w] = Idle]
        /\ UNCHANGED <<node, health, sweep, disturbances>> /\ r.at = "notify"
    BY <1>4 DEF Notify, counters
  <2>3. /\ r.next = "offline" => told'[r.product] = "offline"
        /\ \A p \in Products \ {r.product} : told'[p] = told[p]
    BY <1>r, <2>1, <2>2 DEF Told
  <2>. QED  BY <1>r, <2>2, <2>3 DEF Idle
<1>. QED  BY <1>1, <1>2, <1>3, <1>4 DEF UpdateProductHealth

\* A handler works for a product that is not dark, and never finds it offline.
LEMMA HandlerWatched ==
  ASSUME TypeOK, WatchInv, disturbances = 0, NEW n \in Nodes, UpdateProductHealth(n)
  PROVE  WatchInv'
<1>. USE WhoWorks
<1>. DEFINE p == ProductOf[n]
            r == refresh[n]
<1>h. HandlersReport /\ SweepIsWhole /\ DarkIsBlocked /\ NewsAreInOrder /\ BlocksAreTold
  BY DEF WatchInv
<1>n. n # "sweep" /\ n # "supplier" /\ \A m \in Nodes : m # "sweep"
  BY NodeHealthAssumption
<1>1. /\ UNCHANGED <<node, sweep>>
      /\ \A v \in Workers \ {n} : refresh'[v] = refresh[v]
  BY RefreshStep
<1>2. /\ Swept' = Swept /\ refresh'["supplier"] = refresh["supplier"]
      /\ \A m \in Nodes \ {n} : refresh'[m] = refresh[m]
  BY <1>1, <1>n DEF Swept
<1>3. r.at # "idle"
  BY RefreshStep
<1>4. /\ r.product = p /\ node[n].fresh /\ node[n].status \in {"online", "degraded"}
      /\ r.at \in {"write", "notify"} => r.next # "offline"
      /\ r.at = "notify" => r.prev = "offline"
  BY <1>3, <1>h DEF HandlersReport
<1>5. HealthOf(p) # "offline" /\ ~Dark(p)
  BY <1>4, UpIsNotOffline
<1>6. /\ refresh'[n].at # "idle" => refresh'[n].product = p
      /\ refresh'[n].at \in {"write", "notify"} => refresh'[n].next # "offline"
      /\ refresh'[n].at = "notify" => refresh'[n].prev = "offline"
  BY RefreshStep, <1>4, <1>5
<1>7. HandlersReport'
  BY <1>h, <1>1, <1>2, <1>4, <1>6 DEF HandlersReport
<1>8. SweepIsWhole'
  BY <1>h, <1>1, <1>2, SameNodes DEF SweepIsWhole
<1>9. /\ \A q \in Products \ {p} : health'[q] = health[q] /\ told'[q] = told[q]
      /\ health'[p] = "offline" => health[p] = "offline"
  BY RefreshStep, <1>4
<1>10. DarkIsBlocked'
  <2>. SUFFICES ASSUME NEW q \in Products, Dark(q)'
                PROVE  \/ health'[q] = "offline"
                       \/ sweep.at = "refresh" /\ q \in sweep.todo
                       \/ BlockIsComing(q)'
    BY <1>h, <1>1, <1>2, SameNodes DEF DarkIsBlocked
  <2>1. Dark(q) /\ q # p
    BY <1>1, <1>5, SameNodes
  <2>2. health'[q] = health[q]
    BY <2>1, <1>9
  <2>3. BlockIsComing(q) => BlockIsComing(q)'
    BY <1>2, <2>2 DEF BlockIsComing
  <2>. QED  BY <1>h, <1>1, <2>1, <2>2, <2>3 DEF DarkIsBlocked
<1>11. NewsAreInOrder'
  <2>0. Swept.product \in Products
    BY DEF Swept, TypeOK, Refresh
  <2>1. \A q \in Products : health'[q] = "offline" => health[q] = "offline"
    BY <1>9
  <2>2. ASSUME NEW m \in Nodes, refresh'[m].at = "notify"
        PROVE  health'[ProductOf[m]] # "offline"
    <3>1. CASE m # n
      BY <3>1, <2>1, <2>2, <1>2, <1>h DEF NewsAreInOrder
    <3>2. CASE m = n
      BY <3>2, <2>2, RefreshStep, <1>4
    <3>. QED  BY <3>1, <3>2
  <2>3. ASSUME NEW m \in Nodes,
               Swept.at = "write", Swept.next = "offline", Swept.product = ProductOf[m],
               refresh'[m].at \in {"aggregate", "write", "notify"}
        PROVE  refresh'[m].prev # "offline"
    <3>1. CASE m # n
      BY <3>1, <2>3, <1>2, <1>h DEF NewsAreInOrder
    <3>2. CASE m = n
      <4>1. health[p] # "offline"
        BY <3>2, <2>3, <1>h DEF NewsAreInOrder
      <4>2. r.at \in {"aggregate", "write", "notify"} => r.prev # "offline"
        BY <3>2, <2>3, <1>h DEF NewsAreInOrder
      <4>. QED  BY <3>2, <2>3, <4>1, <4>2, <1>4, RefreshStep
    <3>. QED  BY <3>1, <3>2
  <2>. QED  BY <1>h, <1>2, <2>0, <2>1, <2>2, <2>3 DEF NewsAreInOrder
<1>12. BlocksAreTold'
  <2>. SUFFICES ASSUME NEW q \in Products, health'[q] = "offline"
                PROVE  \/ told'[q] = "offline"
                       \/ Swept.at = "notify" /\ Swept.product = q /\ Swept.next = "offline"
    BY <1>2 DEF BlocksAreTold
  <2>1. health[q] = "offline"
    BY <1>9
  <2>2. q = p => told' = told
    BY RefreshStep, <1>4, <1>h, <2>1 DEF NewsAreInOrder
  <2>. QED  BY <1>h, <1>9, <2>1, <2>2 DEF BlocksAreTold
<1>. QED  BY <1>7, <1>8, <1>10, <1>11, <1>12 DEF WatchInv

\* The sweep blocks what is dark and tells the supplier.
LEMMA SweeperWatched ==
  ASSUME TypeOK, WatchInv, disturbances = 0, UpdateProductHealth("sweep")
  PROVE  WatchInv'
<1>. USE WhoWorks
<1>. DEFINE q == Swept.product
<1>h. HandlersReport /\ SweepIsWhole /\ DarkIsBlocked /\ NewsAreInOrder /\ BlocksAreTold
  BY DEF WatchInv
<1>n. "supplier" # "sweep" /\ \A m \in Nodes : m # "sweep"
  BY NodeHealthAssumption
<1>t. q \in Products
  BY DEF Swept, TypeOK, Refresh
<1>1. /\ UNCHANGED <<node, sweep>>
      /\ \A m \in Nodes : refresh'[m] = refresh[m]
      /\ refresh'["supplier"] = refresh["supplier"]
  BY RefreshStep, <1>n
<1>2. HandlersReport'
  BY <1>h, <1>1 DEF HandlersReport
<1>3. Swept.at # "idle"
  BY RefreshStep DEF Swept
<1>4. SweepIsWhole'
  BY <1>h, <1>1, <1>3 DEF SweepIsWhole
<1>5. DarkIsBlocked'
  <2>. SUFFICES ASSUME NEW p \in Products, Dark(p)
                PROVE  /\ \/ health'[p] = "offline"
                          \/ sweep.at = "refresh" /\ p \in sweep.todo
                          \/ BlockIsComing(p)'
                       /\ Swept'.at = "write" /\ Swept'.product = p
                            => Swept'.next = "offline"
    BY <1>1, SameNodes DEF DarkIsBlocked
  <2>1. HealthOf(p) = "offline"
    BY DarkIsOffline
  <2>4. Swept'.at = "write" /\ Swept'.product = p => Swept'.next = "offline"
    BY <2>1, RefreshStep DEF Swept
  <2>2. CASE BlockIsComing(p)
    BY <2>1, <2>2, RefreshStep DEF BlockIsComing, Swept
  <2>3. CASE health[p] = "offline"
    <3>1. Swept.at = "write" /\ Swept.product = p => Swept.next = "offline"
      BY <1>h DEF DarkIsBlocked
    <3>. QED  BY <2>1, <2>3, <3>1, RefreshStep DEF Swept
  <2>. QED  BY <1>h, <2>2, <2>3, <2>4 DEF DarkIsBlocked
<1>6. NewsAreInOrder'
  <2>1. CASE Swept.at = "prev"
    BY <2>1, <1>1, <1>h, RefreshStep DEF NewsAreInOrder, Swept
  <2>2. CASE Swept.at = "aggregate"
    <3>1. ASSUME NEW n \in Nodes, ProductOf[n] = q, HealthOf(q) = "offline"
          PROVE  refresh[n].at = "idle"
      BY <3>1, UpIsNotOffline, <1>h DEF HandlersReport
    <3>. QED  BY <2>2, <3>1, <1>1, <1>h, RefreshStep DEF NewsAreInOrder, Swept
  <2>3. CASE Swept.at = "write"
    BY <2>3, <1>1, <1>t, <1>h, RefreshStep DEF NewsAreInOrder, Swept, HandlersReport
  <2>4. CASE Swept.at = "notify"
    BY <2>4, <1>1, <1>h, RefreshStep DEF NewsAreInOrder, Swept
  <2>. QED  BY <2>1, <2>2, <2>3, <2>4, RefreshStep DEF Swept
<1>7. BlocksAreTold'
  <2>1. CASE Swept.at \in {"prev", "aggregate"}
    BY <2>1, <1>h, RefreshStep DEF BlocksAreTold, Swept
  <2>2. CASE Swept.at = "write"
    BY <2>2, <1>t, <1>h, RefreshStep DEF BlocksAreTold, Swept
  <2>3. CASE Swept.at = "notify"
    BY <2>3, <1>t, <1>h, RefreshStep DEF BlocksAreTold, NewsAreInOrder, Swept
  <2>. QED  BY <2>1, <2>2, <2>3, RefreshStep DEF Swept
<1>. QED  BY <1>2, <1>4, <1>5, <1>6, <1>7 DEF WatchInv

\* As long as nothing disturbs it, the sweep follows every silence.
LEMMA WatchGoesOn == TypeOK /\ WatchInv /\ [Next]_vars => WatchInv'
<1>. SUFFICES ASSUME TypeOK, WatchInv, [Next]_vars, disturbances' = 0 PROVE WatchInv'
  BY DEF WatchInv
<1>. USE WhoWorks
<1>1. ~Disturbed
  BY DEF Disturbed, TypeOK
<1>2. ASSUME NEW n \in Nodes, NodeStep(n) PROVE WatchInv'
  <2>1. CASE FallSilent(n)
    BY <2>1, <1>1, SilenceWatched DEF FallSilent
  <2>2. ASSUME NEW status \in {"online", "degraded"}, Heartbeat(n, status) PROVE WatchInv'
    BY <2>2, HeartbeatWatched DEF Heartbeat, counters
  <2>. QED  BY <1>1, <1>2, <2>1, <2>2 DEF NodeStep, RegisterNode, DeleteNode
<1>3. ASSUME NEW w \in Workers, UpdateProductHealth(w) PROVE WatchInv'
  <2>1. disturbances = 0
    BY <1>3, RefreshStep
  <2>2. w # "supplier"
    BY <1>3, <2>1, RefreshStep DEF WatchInv, HandlersReport
  <2>. QED  BY <1>3, <2>1, <2>2, HandlerWatched, SweeperWatched DEF Workers
<1>4. CASE RunLivenessSweep
  <2>1. disturbances = 0
    BY <1>4 DEF RunLivenessSweep, ListStale, MarkStaleOffline, SweepOnce, SweepDone, counters
  <2>. QED  BY <1>4, <2>1, SweepWatched
<1>5. CASE UNCHANGED vars
  <2>1. UNCHANGED <<node, health, told, refresh, sweep, disturbances, Swept>>
    BY <1>5 DEF vars, Swept
  <2>. QED  BY <2>1, SameNodes
            DEF WatchInv, HandlersReport, SweepIsWhole, DarkIsBlocked, NewsAreInOrder,
                BlocksAreTold, BlockIsComing
<1>. QED  BY <1>1, <1>2, <1>3, <1>4, <1>5 DEF Next, Crash

LEMMA WatchStands == Spec => [](TypeOK /\ WatchInv)
<1>1. Init => TypeOK /\ WatchInv
  BY InitTyped, WatchBegins
<1>. QED  BY <1>1, HealthIsTyped, WatchGoesOn, PTL DEF Spec

\* A product whose nodes have all fallen silent is never forgotten while nothing
\* disturbs the sweep: this is what SilentProductsAreBlocked rests on, for any number
\* of nodes and products and any heartbeats in between.
THEOREM SilenceIsNeverForgotten == Spec => []SilenceIsFollowed
<1>1. TypeOK /\ WatchInv => SilenceIsFollowed
  <2>. SUFFICES ASSUME TypeOK, WatchInv, disturbances = 0, NEW p \in Products, Gone(p),
                       ~ \E n \in Stale : ProductOf[n] = p
                PROVE  health[p] = "offline" \/ p \in sweep.todo \/ BlockIsComing(p)
    BY DEF SilenceIsFollowed
  <2>1. Dark(p)
    BY DEF Gone, Stale, Dark, Registered, TypeOK, Node, NodeStatus
  <2>. QED  BY <2>1 DEF WatchInv, DarkIsBlocked
<1>. QED  BY <1>1, WatchStands, PTL

\* The supplier of a blocked product knows, or is just being told, however the sweep
\* and the handlers overtake each other: what BlockedSuppliersAreTold rests on.
THEOREM BlocksAreAlwaysTold == Spec => []BlockIsTold
<1>1. WatchInv => BlockIsTold
  BY DEF WatchInv, BlocksAreTold, BlockIsTold
<1>. QED  BY <1>1, WatchStands, PTL

-----------------------------------------------------------------------------
(* A node that reports, and whoever blocks its product *)

Reports(n) == node[n].status \in {"online", "degraded"}

\* Who is about to write that p is offline.
Blockers(p) ==
    {w \in Workers : refresh[w].at = "write" /\ refresh[w].product = p /\ refresh[w].next = "offline"}

\* Worker w will find p up, and has seen or will see that its health says otherwise.
IsOpening(w, p) ==
    /\ refresh[w].product = p
    /\ \/ refresh[w].at = "prev" /\ health[p] = "offline"
       \/ refresh[w].at = "aggregate" /\ refresh[w].prev = "offline"
       \/ refresh[w].at = "write" /\ refresh[w].next # "offline"

StepsToOpen(w) ==
    CASE refresh[w].at = "prev" -> 3
      [] refresh[w].at = "aggregate" -> 2
      [] OTHER -> 1

\* While a node is up, nobody new sets out to block its product, and a late worker blocks
\* it once at most; each report that finds it blocked begins to open it, and goes on to do
\* so, whatever other workers do, unless the server stops (refreshProductHealth).
ReportsOpen ==
    [][\A n \in Nodes : Reports(n) =>
          LET p == ProductOf[n] IN
          /\ Blockers(p)' \subseteq Blockers(p)
          /\ health[p] # "offline" /\ health'[p] = "offline" => Blockers(p)' # Blockers(p)
          /\ health[p] = "offline" /\ (\E status \in {"online", "degraded"} : Heartbeat(n, status))
                => IsOpening(n, p)'
          /\ \A w \in Workers : IsOpening(w, p) =>
               \/ Crash
               \/ health'[p] # "offline"
               \/ /\ IsOpening(w, p)'
                  /\ StepsToOpen(w)' <= StepsToOpen(w)
                  /\ UpdateProductHealth(w) => StepsToOpen(w)' < StepsToOpen(w)]_vars

\* What a worker does, for a product that is up.
LEMMA WorkerOpens ==
  ASSUME TypeOK, NEW n \in Nodes, Reports(n), NEW v \in Workers, UpdateProductHealth(v),
         NEW w \in Workers, IsOpening(w, ProductOf[n])
  PROVE  \/ health'[ProductOf[n]] # "offline"
         \/ /\ IsOpening(w, ProductOf[n])'
            /\ StepsToOpen(w)' <= StepsToOpen(w)
            /\ v = w => StepsToOpen(w)' < StepsToOpen(w)
<1>. DEFINE p == ProductOf[n]
<1>1. HealthOf(p) # "offline" /\ p \in Products
  BY UpIsNotOffline, WhoWorks DEF Reports
<1>2. CASE v # w
  <2>1. refresh'[w] = refresh[w]
    BY <1>2, RefreshStep
  <2>2. StepsToOpen(w)' <= StepsToOpen(w)
    BY <2>1 DEF StepsToOpen
  <2>3. health'[p] = "offline" => IsOpening(w, p)'
    BY <2>1 DEF IsOpening
  <2>. QED  BY <1>2, <2>2, <2>3
<1>3. CASE v = w
  <2>1. CASE refresh[w].at = "prev"
    <3>1. /\ refresh'[w].at = "aggregate" /\ refresh'[w].product = p
          /\ refresh'[w].prev = health[p] /\ health' = health
      BY <1>3, <2>1, RefreshStep DEF IsOpening
    <3>. QED  BY <2>1, <3>1 DEF IsOpening, StepsToOpen
  <2>2. CASE refresh[w].at = "aggregate"
    <3>1. refresh[w].prev = "offline" /\ refresh[w].product = p
      BY <2>2 DEF IsOpening
    <3>2. /\ refresh'[w].at = "write" /\ refresh'[w].product = p
          /\ refresh'[w].next = HealthOf(p)
      BY <1>1, <1>3, <2>2, <3>1, RefreshStep
    <3>. QED  BY <1>1, <2>2, <3>2 DEF IsOpening, StepsToOpen
  <2>3. CASE refresh[w].at = "write"
    <3>1. refresh[w].next # "offline" /\ refresh[w].product = p
      BY <2>3 DEF IsOpening
    <3>. QED  BY <1>3, <2>3, <3>1, RefreshStep
  <2>. QED  BY <2>1, <2>2, <2>3 DEF IsOpening
<1>. QED  BY <1>2, <1>3

\* Who is to write that a product is offline has found it so, and writes it once.
LEMMA WorkerBlocks ==
  ASSUME TypeOK, NEW n \in Nodes, Reports(n), NEW v \in Workers, UpdateProductHealth(v)
  PROVE  /\ Blockers(ProductOf[n])' \subseteq Blockers(ProductOf[n])
         /\ health[ProductOf[n]] # "offline" /\ health'[ProductOf[n]] = "offline"
              => Blockers(ProductOf[n])' # Blockers(ProductOf[n])
<1>. DEFINE p == ProductOf[n]
<1>1. HealthOf(p) # "offline" /\ p \in Products
  BY UpIsNotOffline, WhoWorks DEF Reports
<1>2. ASSUME NEW w \in Workers, w \in Blockers(p)' PROVE w \in Blockers(p)
  <2>1. refresh'[w].at = "write" /\ refresh'[w].product = p /\ refresh'[w].next = "offline"
    BY <1>2 DEF Blockers
  <2>2. CASE v # w
    BY <2>1, <2>2, RefreshStep DEF Blockers
  <2>3. CASE v = w
    <3>1. refresh'[w].next = HealthOf(refresh[w].product) /\ refresh'[w].product = refresh[w].product
      BY <2>1, <2>3, RefreshStep
    <3>. QED  BY <1>1, <2>1, <3>1
  <2>. QED  BY <2>2, <2>3
<1>3. ASSUME health[p] # "offline", health'[p] = "offline" PROVE Blockers(p)' # Blockers(p)
  <2>1. /\ refresh[v].at = "write" /\ refresh[v].product = p /\ refresh[v].next = "offline"
        /\ refresh'[v].at # "write"
    BY <1>1, <1>3, RefreshStep
  <2>. QED  BY <2>1 DEF Blockers
<1>4. Blockers(p)' \subseteq Workers
  BY DEF Blockers
<1>. QED  BY <1>2, <1>3, <1>4

\* All others leave the health alone, and begin to work for a product when at rest.
LEMMA OthersBegin ==
  ASSUME TypeOK, [Next]_vars, \A v \in Workers : ~UpdateProductHealth(v)
  PROVE  /\ health' = health
         /\ \A w \in Workers : refresh'[w].at # "idle" =>
                \/ refresh'[w] = refresh[w]
                \/ refresh[w].at = "idle" /\ refresh'[w].at = "prev"
         /\ \A w \in Workers : refresh[w].at # "idle" => refresh'[w] = refresh[w] \/ Crash
<1>. DEFINE Begins(v) == /\ refresh[v].at = "idle" /\ refresh'[v].at = "prev"
                         /\ \A w \in Workers \ {v} : refresh'[w] = refresh[w]
<1>1. ASSUME NEW v \in Workers, NEW p \in Products, refresh[v].at = "idle",
             refresh' = Refreshing(v, p)
      PROVE  Begins(v)
  BY <1>1, IdleIsRefresh DEF Refreshing, TypeOK, Refresh
<1>2. ASSUME NEW n \in Nodes, NodeStep(n)
      PROVE  health' = health /\ (refresh' = refresh \/ \E v \in Workers : Begins(v))
  <2>1. CASE RegisterNode(n) \/ FallSilent(n)
    BY <2>1 DEF RegisterNode, FallSilent
  <2>2. CASE DeleteNode(n)
    BY <2>2, <1>1, WhoWorks DEF DeleteNode
  <2>3. ASSUME NEW status \in {"online", "degraded"}, Heartbeat(n, status)
        PROVE  health' = health /\ Begins(n)
    BY <2>3, <1>1, WhoWorks DEF Heartbeat
  <2>. QED  BY <1>2, <2>1, <2>2, <2>3, WhoWorks DEF NodeStep
<1>3. CASE RunLivenessSweep
  <2>1. health' = health /\ (refresh' = refresh \/ Begins("sweep"))
    <3>1. ASSUME NEW p \in sweep.todo, SweepOnce(p)
          PROVE  health' = health /\ Begins("sweep")
      <4>1. p \in Products
        BY DEF TypeOK, Sweep
      <4>. QED  BY <3>1, <4>1, <1>1, WhoWorks DEF SweepOnce
    <3>. QED  BY <1>3, <3>1 DEF RunLivenessSweep, ListStale, MarkStaleOffline, SweepDone
  <2>. QED  BY <2>1, WhoWorks
<1>4. CASE Crash
  <2>1. health' = health /\ \A w \in Workers : refresh'[w].at = "idle"
    BY <1>4 DEF Crash, Idle
  <2>. QED  BY <1>4, <2>1
<1>5. CASE UNCHANGED vars
  BY <1>5 DEF vars
<1>. QED  BY <1>2, <1>3, <1>4, <1>5 DEF Next

\* A node that is up and goes on reporting opens its product to orders: what
\* ReportingNodesSell rests on, for any number of nodes and products, and any order of the
\* statements of handlers, sweep and suppliers (Heartbeat, refreshProductHealth).
THEOREM ReportersOpenTheirProduct == Spec => ReportsOpen
<1>. DEFINE Opened(n, p) ==
       /\ Blockers(p)' \subseteq Blockers(p)
       /\ health[p] # "offline" /\ health'[p] = "offline" => Blockers(p)' # Blockers(p)
       /\ health[p] = "offline" /\ (\E status \in {"online", "degraded"} : Heartbeat(n, status))
             => IsOpening(n, p)'
       /\ \A w \in Workers : IsOpening(w, p) =>
            \/ Crash
            \/ health'[p] # "offline"
            \/ /\ IsOpening(w, p)'
               /\ StepsToOpen(w)' <= StepsToOpen(w)
               /\ UpdateProductHealth(w) => StepsToOpen(w)' < StepsToOpen(w)
<1>1. TypeOK /\ [Next]_vars => \A n \in Nodes : Reports(n) => Opened(n, ProductOf[n])
  <2>. SUFFICES ASSUME TypeOK, [Next]_vars, NEW n \in Nodes, Reports(n)
                PROVE  Opened(n, ProductOf[n])
    OBVIOUS
  <2>. DEFINE p == ProductOf[n]
  <2>1. ASSUME NEW v \in Workers, UpdateProductHealth(v) PROVE Opened(n, p)
    <3>1. ASSUME NEW status \in {"online", "degraded"}, Heartbeat(n, status) PROVE FALSE
      <4>1. refresh'[n].at = "prev" /\ refresh[n].at = "idle"
        BY <3>1, IdleIsRefresh, WhoWorks DEF Heartbeat, Refreshing, TypeOK, Refresh
      <4>2. n \in Workers
        BY WhoWorks
      <4>. QED  BY <4>1, <4>2, <2>1, RefreshStep
    <3>2. ASSUME NEW w \in Workers, UpdateProductHealth(w), w # v PROVE FALSE
      <4>1. refresh'[w] = refresh[w]
        BY <2>1, <3>2, RefreshStep
      <4>. QED  BY <3>2, <4>1, RefreshStep
    <3>. QED  BY <2>1, <3>1, <3>2, WorkerOpens, WorkerBlocks
  <2>2. ASSUME \A v \in Workers : ~UpdateProductHealth(v) PROVE Opened(n, p)
    <3>1. Blockers(p)' \subseteq Blockers(p)
      BY <2>2, OthersBegin DEF Blockers
    <3>2. ASSUME NEW status \in {"online", "degraded"}, Heartbeat(n, status), health[p] = "offline"
          PROVE  IsOpening(n, p)'
      <4>1. refresh'[n].at = "prev" /\ refresh'[n].product = p /\ health' = health
        BY <3>2, IdleIsRefresh, WhoWorks DEF Heartbeat, Refreshing, TypeOK, Refresh
      <4>. QED  BY <3>2, <4>1 DEF IsOpening
    <3>3. ASSUME NEW w \in Workers, IsOpening(w, p), ~Crash
          PROVE  IsOpening(w, p)' /\ StepsToOpen(w)' <= StepsToOpen(w)
      <4>1. refresh'[w] = refresh[w] /\ health' = health
        BY <2>2, <3>3, OthersBegin DEF IsOpening
      <4>. QED  BY <3>3, <4>1 DEF IsOpening, StepsToOpen
    <3>. QED  BY <2>2, <3>1, <3>2, <3>3, OthersBegin
  <2>. QED  BY <2>1, <2>2
<1>. QED  BY <1>1, HealthIsTyped, PTL DEF Spec, ReportsOpen

-----------------------------------------------------------------------------
(* What a buyer is charged *)

\* What stays true of a form that passed the checks, whatever becomes of its stock.
Good ==
    [type : ListingTypes, mode : PricingModes, price : 0..MaxTotal, negotiable : BOOLEAN,
     stock : Int, cards : Int, machines : Int, minOrder : Nat \ {0}, minPeriods : Nat \ {0},
     described : BOOLEAN]

HasPrice(p) == p.negotiable = TRUE \/ (p.type # "colocation" /\ p.price > 0)

Item == [form : {p \in Good : HasPrice(p)},
         status : {"pending", "draft", "active", "offline", "sold_out"}]

\* A sum, and what it is: exact, not too large, and the fee a part of it.
Asked == [at : {"read"}, price : Nat \ {0}, n : Nat \ {0}, periods : Nat \ {0}]
Priced == [at : {"priced"}, price : Nat \ {0}, n : Nat \ {0}, periods : Nat \ {0},
           total : Nat, fee : Nat, rate : Rates]

ExactAmounts(o) ==
    /\ o.total = ExactTotal(o.price, o.n, o.periods) /\ o.total \in 1..MaxTotal
    /\ o.fee = ExactFee(o.total, o.rate) /\ o.fee \in 0..o.total

Agreement ==
    [mode : PricingModes, periods : Nat \ {0}, total : Nat, fee : Nat, end : Int, until : Int]
OrderRow ==
    [kind : {"order"}, price : Nat \ {0}, n : Nat \ {0}, periods : Nat \ {0}, total : Nat,
     fee : Nat, rate : Rates]
RenewalRow ==
    [kind : {"renewal"}, id : RequestIds, quote : Agreement, price : Nat \ {0}, n : Nat \ {0},
     periods : Nat \ {0}, total : Nat, fee : Nat, rate : Rates, taken : Nat,
     status : {"pending", "completed", "cancelled"}]

CheckoutTypes ==
    /\ listing = Unlisted \/ listing \in Item
    /\ policy \in [enabled : BOOLEAN, rate : Rates]
    /\ checkout \in [Checkouts -> {IdleCheckout} \cup Asked \cup Priced]
    /\ placed \in Seq(OrderRow \cup RenewalRow)
    /\ lease \in [end : Int, status : {"none", "paid", "active", "completed"}, units : Nat]
    /\ hour \in Nat

\* Before anything is on sale nothing is ordered, and no lease runs.
NothingBeforeAListing ==
    listing = Unlisted => placed = <<>> /\ lease.status = "none"

\* Who has priced an order holds the policy.
PolicyIsHeld ==
    \A c \in Checkouts : checkout[c].at = "priced" =>
        /\ policy.enabled = TRUE /\ checkout[c].rate = policy.rate
        /\ ExactAmounts(checkout[c])

Renewal(i) == placed[i].kind = "renewal"

OrdersFit ==
    \A i \in DOMAIN placed :
        /\ ExactAmounts(placed[i])
        /\ Renewal(i) => LET o == placed[i] IN
             /\ o.total = o.quote.total /\ o.fee = o.quote.fee /\ o.periods = o.quote.periods

\* A request has one renewal, and one renewal at most waits to be paid.
RenewalsAreSingle ==
    \A i, j \in DOMAIN placed : Renewal(i) /\ Renewal(j) =>
        /\ placed[i].id = placed[j].id => i = j
        /\ placed[i].status = "pending" /\ placed[j].status = "pending" => i = j

AnswersFit ==
    \A a \in answers :
        /\ a.order \in DOMAIN placed /\ Renewal(a.order)
        /\ placed[a.order].id = a.id /\ placed[a.order].quote = a.quote

RefusalsAreRight == \A t \in turnedAway : t > MaxTotal

CheckoutInv ==
    /\ CheckoutTypes /\ NothingBeforeAListing /\ PolicyIsHeld
    /\ OrdersFit /\ RenewalsAreSingle /\ AnswersFit /\ RefusalsAreRight

\* What the checks of a listing leave.
LEMMA ListedFormsAreGood ==
    ASSUME NEW f \in OfferingForm, ValidListing(WithDefaults(f))
    PROVE  WithDefaults(f) \in {p \in Good : HasPrice(p)}
<1>1. PICK p : p = WithDefaults(f)
  OBVIOUS
<1>2. /\ f.price \in Int /\ f.stock \in Int /\ f.cards \in Int /\ f.machines \in Int
      /\ f.minOrder \in Int /\ f.minPeriods \in Int
  BY DEF OfferingForm
<1>3. f.negotiable \in BOOLEAN /\ f.described \in BOOLEAN
  BY DEF OfferingForm
<1>4. PICK type, mode, price, negotiable, stock :
        /\ type = ListedType(f) /\ mode = ListedMode(f) /\ stock = ListedStock(f)
        /\ price = (IF ListedType(f) = "colocation" THEN 0 ELSE f.price)
        /\ negotiable = (f.negotiable \/ ListedType(f) = "colocation")
  BY Zenon
<1>5. p = [type |-> type, mode |-> mode, price |-> price, negotiable |-> negotiable,
           stock |-> stock, cards |-> f.cards, machines |-> f.machines,
           described |-> f.described, minOrder |-> AtLeastOne(f.minOrder),
           minPeriods |-> AtLeastOne(f.minPeriods)]
  BY <1>1, <1>4, Zenon DEF WithDefaults
<1>6. negotiable \in BOOLEAN
  BY <1>4, Zenon
<1>7. stock \in Int
  BY <1>2, <1>4 DEF ListedStock
<1>8. AtLeastOne(f.minOrder) \in Nat \ {0} /\ AtLeastOne(f.minPeriods) \in Nat \ {0}
  BY <1>2 DEF AtLeastOne
<1>9. type \in ListingTypes /\ price \in 0..MaxTotal /\ mode \in AllowedModes(type)
  BY <1>1, <1>5 DEF ValidListing
<1>10. mode \in PricingModes
  BY <1>9 DEF AllowedModes, ListingTypes, PricingModes
<1>11. negotiable = TRUE \/ (type # "colocation" /\ price > 0)
  <2>1. CASE type \in {"card_rental", "outright"}
    BY <1>1, <1>5, <2>1 DEF ValidListing
  <2>2. CASE type = "center"
    BY <1>1, <1>5, <1>6, <2>2 DEF ValidListing
  <2>3. CASE type = "colocation"
    BY <1>4, <2>3, Zenon
  <2> QED BY <1>9, <2>1, <2>2, <2>3 DEF ListingTypes
<1>12. p \in Good
  BY <1>2, <1>3, <1>5, <1>6, <1>7, <1>8, <1>9, <1>10 DEF Good
<1>13. HasPrice(p)
  BY <1>5, <1>11 DEF HasPrice
<1> QED BY <1>1, <1>12, <1>13

\* The part of the platform is never more than the whole.
LEMMA FeesArePart ==
    ASSUME NEW total \in Nat, NEW rate \in 0..Base
    PROVE  ExactFee(total, rate) \in 0..total
<1> DEFINE x == total * rate
           q == x \div Base
<1>0. Base \in Nat \ {0} /\ rate \in Nat /\ rate <= Base
  BY PricingAssumption
<1>1. x \in Nat /\ x <= Base * total
  <2>1. \A a, b, c \in Nat : b <= c => a * b \in Nat /\ a * b <= c * a
    OBVIOUS
  <2> QED BY <1>0, <2>1
<1> HIDE DEF x
<1>2. q \in Int /\ x % Base \in 0..(Base - 1) /\ x = Base * q + (x % Base)
  BY <1>0, <1>1, DivMod
<1> HIDE DEF q
<1>3. PICK r \in 0..(Base - 1), y \in Int : y = Base * q /\ x = y + r
  BY <1>0, <1>2
<1>4. q >= 0
  <2> SUFFICES ASSUME q <= -1 PROVE FALSE
    BY <1>2
  <2>1. Base * q <= -Base
    <3>1. \A a \in Nat, b \in Int : b <= -1 => a * b <= -a
      BY Z3
    <3> QED BY <1>0, <1>2, <3>1
  <2> QED BY <1>0, <1>1, <1>3, <2>1
<1>5. q <= total
  <2> SUFFICES ASSUME q >= total + 1 PROVE FALSE
    BY <1>2
  <2>1. Base * q >= Base * total + Base
    <3>1. \A a, c \in Nat, b \in Int : b >= c + 1 => a * b >= a * c + a
      BY Z3
    <3> QED BY <1>0, <1>2, <3>1
  <2> QED BY <1>0, <1>1, <1>3, <2>1
<1> QED BY <1>2, <1>4, <1>5 DEF ExactFee, q, x

\* What CalcOrderAmount returns.
LEMMA AmountsAddUp ==
    ASSUME NEW price \in Nat \ {0}, NEW n \in Nat \ {0}, NEW periods \in Nat \ {0},
           NEW rate \in Rates, Priceable(price, n, periods),
           NEW o, o.price = price, o.n = n, o.periods = periods, o.rate = rate,
           o.total = Total(price, n, periods), o.fee = Fee(o.total, rate)
    PROVE  ExactAmounts(o) /\ o.total \in Nat /\ o.fee \in Nat
<1>1. o.total = ExactTotal(price, n, periods) /\ o.total \in 1..MaxTotal
  BY AmountsAreExactlyThat DEF Priceable
<1>2. o.total \in Nat /\ rate \in 0..Base /\ rate \in Nat
  BY <1>1, PricingAssumption, CheckoutAssumption
<1>3. o.fee = ExactFee(o.total, rate)
  BY <1>2, FeesAreExact
<1>4. o.fee \in 0..o.total
  BY <1>2, <1>3, FeesArePart
<1> QED BY <1>1, <1>2, <1>3, <1>4 DEF ExactAmounts

\* What may be ordered is a number of units for a number of periods.
LEMMA OrderableNumbers ==
    ASSUME NEW p \in Good, NEW n, NEW periods, Orderable(p, n, periods)
    PROVE  /\ p.price \in Nat \ {0} /\ n \in Nat \ {0}
           /\ OrderedPeriods(p, periods) \in Nat \ {0}
           /\ p.mode # "perpetual" => periods \in Nat \ {0}
<1>1. /\ p.price \in 0..MaxTotal /\ p.minOrder \in Nat \ {0} /\ p.minPeriods \in Nat \ {0}
      /\ p.mode \in PricingModes
  BY DEF Good
<1>2. MaxTotal \in Nat /\ MaxOrderQuantity \in Nat /\ MaxPeriods[p.mode] \in Nat
  BY <1>1, PricingAssumption
<1>3. p.price > 0 /\ n \in AtLeastOne(p.minOrder)..MaxOrderQuantity
      /\ (p.mode = "perpetual" \/ periods \in AtLeastOne(p.minPeriods)..MaxPeriods[p.mode])
  BY DEF Orderable
<1> QED BY <1>1, <1>2, <1>3 DEF AtLeastOne, OrderedPeriods

\* Nothing waits, or one renewal: what the sum of their units is.
LEMMA OneIsSummed ==
    ASSUME CheckoutInv
    PROVE  MapThenSumSet(LAMBDA i : placed[i].taken, OpenRenewals) \in Nat
<1> DEFINE S == OpenRenewals
           pick(s) == CHOOSE x \in s : TRUE
           Sums(g) == g = [s \in SUBSET S |->
                             IF s = {} THEN 0 ELSE placed[pick(s)].taken + g[s \ {pick(s)}]]
           total == (CHOOSE g : Sums(g))[S]
<1>1. S = {} \/ \E i \in DOMAIN placed : S = {i} /\ placed[i].taken \in Nat
  <2>1. \A i, j \in S : i = j
    BY DEF OpenRenewals, OpenRenewal, CheckoutInv, RenewalsAreSingle, Renewal
  <2>2. \A i \in S : i \in DOMAIN placed /\ placed[i].taken \in Nat
    <3> SUFFICES ASSUME NEW i \in S PROVE i \in DOMAIN placed /\ placed[i].taken \in Nat
      OBVIOUS
    <3>1. i \in DOMAIN placed /\ placed[i].kind = "renewal"
      BY DEF OpenRenewals, OpenRenewal
    <3>2. placed[i] \in RenewalRow
      BY <3>1 DEF CheckoutInv, CheckoutTypes, OrderRow
    <3> QED BY <3>1, <3>2 DEF RenewalRow
  <2> HIDE DEF S
  <2> QED BY <2>1, <2>2
<1> HIDE DEF S
<1>2. ASSUME S = {} PROVE total \in Nat
  <2> DEFINE g0 == [s \in {S} |-> 0]
  <2>1. SUBSET S = {S}
    BY <1>2
  <2>2. Sums(g0)
    BY <1>2, <2>1
  <2> HIDE DEF g0
  <2>3. Sums(CHOOSE g : Sums(g))
    <3> HIDE DEF Sums
    <3> QED BY <2>2
  <2>4. PICK h : h = (CHOOSE g : Sums(g))
    OBVIOUS
  <2>5. h = [s \in SUBSET S |-> IF s = {} THEN 0 ELSE placed[pick(s)].taken + h[s \ {pick(s)}]]
    BY <2>3, <2>4
  <2>6. h[S] = 0
    BY <1>2, <2>1, <2>5
  <2> QED BY <2>4, <2>6
<1>3. ASSUME NEW i \in DOMAIN placed, S = {i}, placed[i].taken \in Nat PROVE total \in Nat
  <2>1. PICK v \in Nat : v = placed[i].taken
    BY <1>3
  <2>2. SUBSET S = {{}, S} /\ pick(S) = i /\ S \ {pick(S)} = {} /\ S # {}
    BY <1>3
  <2> HIDE DEF pick
  <2> DEFINE g0 == [s \in {{}, S} |-> IF s = {} THEN 0 ELSE v]
  <2>3. g0[{}] = 0 /\ g0[S] = v
    BY <2>2
  <2>4. g0 = [s \in SUBSET S |-> g0[s]]
    BY <2>2
  <2> HIDE DEF g0
  <2>5. ASSUME NEW s \in SUBSET S
        PROVE  g0[s] = IF s = {} THEN 0 ELSE placed[pick(s)].taken + g0[s \ {pick(s)}]
    <3>1. CASE s = {}
      BY <2>3, <3>1
    <3>2. CASE s = S
      <4>1. g0[S] = placed[pick(S)].taken + g0[S \ {pick(S)}]
        <5>1. pick(S) = i /\ S \ {pick(S)} = {} /\ v + 0 = v
          BY <2>2
        <5> QED BY <2>1, <2>3, <5>1, Zenon
      <4> QED BY <2>2, <3>2, <4>1, Zenon
    <3> QED BY <2>2, <3>1, <3>2
  <2>6. Sums(g0)
    BY <2>4, <2>5
  <2>7. Sums(CHOOSE g : Sums(g))
    <3> HIDE DEF Sums
    <3> QED BY <2>6
  <2>8. PICK h : h = (CHOOSE g : Sums(g))
    OBVIOUS
  <2>9. h = [s \in SUBSET S |-> IF s = {} THEN 0 ELSE placed[pick(s)].taken + h[s \ {pick(s)}]]
    BY <2>7, <2>8
  <2>10. h[{}] = 0
    BY <2>2, <2>9
  <2>11. h[S] = v
    <3>1. h[S] = placed[pick(S)].taken + h[S \ {pick(S)}]
      BY <2>2, <2>9
    <3>2. v + 0 = v
      OBVIOUS
    <3> QED BY <2>1, <2>2, <2>10, <3>1, <3>2, Zenon
  <2> QED BY <2>8, <2>11
<1>4. total \in Nat
  <2> HIDE DEF total
  <2> QED BY <1>1, <1>2, <1>3
<1> QED BY <1>4 DEF MapThenSumSet, MapThenFoldSet, S, total, Sums, pick

LEMMA StockMoves ==
    ASSUME CheckoutInv, NEW n \in Nat, listing \in Item
    PROVE  ShelfAfter(n) \in Item /\ BackOnShelf(n) \in Item
<1>1. PICK p \in Good, status \in {"pending", "draft", "active", "offline", "sold_out"} :
        HasPrice(p) /\ listing = [form |-> p, status |-> status]
  BY DEF Item
<1>2. p = [type |-> p.type, mode |-> p.mode, price |-> p.price, negotiable |-> p.negotiable,
           stock |-> p.stock, cards |-> p.cards, machines |-> p.machines,
           minOrder |-> p.minOrder, minPeriods |-> p.minPeriods, described |-> p.described]
      /\ p.stock \in Int
  BY DEF Good
<1>3. ASSUME NEW k \in Int
      PROVE  [p EXCEPT !.stock = k] \in {q \in Good : HasPrice(q)}
  <2>1. PICK q : q = [p EXCEPT !.stock = k]
    OBVIOUS
  <2>2. q \in Good
    BY <1>2, <2>1 DEF Good
  <2>3. q.type = p.type /\ q.price = p.price /\ q.negotiable = p.negotiable
    BY <1>2, <2>1
  <2> QED BY <1>1, <2>1, <2>2, <2>3 DEF HasPrice
<1>4. ASSUME NEW k \in Int, NEW s \in {"pending", "draft", "active", "offline", "sold_out"}
      PROVE  [form |-> [p EXCEPT !.stock = k], status |-> s] \in Item
  BY <1>3 DEF Item
<1>5. ShelfAfter(n) = [form |-> [p EXCEPT !.stock = p.stock - n],
                       status |-> IF p.stock - n <= 0 THEN "sold_out" ELSE status]
  BY <1>1 DEF ShelfAfter
<1>6. n # 0 => BackOnShelf(n) = [form |-> [p EXCEPT !.stock = p.stock + n],
                                 status |-> IF status = "sold_out" THEN "active" ELSE status]
  BY <1>1 DEF BackOnShelf
<1>7. ShelfAfter(n) \in Item
  <2>1. PICK k \in Int : k = p.stock - n
    BY <1>2
  <2> QED BY <1>4, <1>5, <2>1
<1>8. BackOnShelf(n) \in Item
  <2>1. PICK k \in Int : k = p.stock + n
    BY <1>2
  <2>2. CASE n # 0
    BY <1>4, <1>6, <2>1, <2>2
  <2> QED BY <2>2 DEF BackOnShelf
<1> QED BY <1>7, <1>8

\* Rows stay what they are, but for the status of a renewal that nobody has paid.
RowStays(i) ==
    \/ placed'[i] = placed[i]
    \/ /\ OpenRenewal(i)
       /\ \E s \in {"completed", "cancelled"} : placed'[i] = [placed[i] EXCEPT !.status = s]

LEMMA RowsStayRight ==
    ASSUME CheckoutInv, placed' = [i \in DOMAIN placed |-> placed'[i]],
           \A i \in DOMAIN placed : RowStays(i), answers' = answers
    PROVE  /\ placed' \in Seq(OrderRow \cup RenewalRow) /\ Len(placed') = Len(placed)
           /\ OrdersFit' /\ RenewalsAreSingle' /\ AnswersFit'
<1>1. placed \in Seq(OrderRow \cup RenewalRow)
  BY DEF CheckoutInv, CheckoutTypes
<1>2. DOMAIN placed = 1..Len(placed) /\ Len(placed) \in Nat
  BY <1>1
<1>3. ASSUME NEW i \in DOMAIN placed
      PROVE  /\ placed'[i] \in OrderRow \cup RenewalRow
             /\ placed'[i].kind = placed[i].kind /\ placed'[i].total = placed[i].total
             /\ placed'[i].price = placed[i].price /\ placed'[i].n = placed[i].n
             /\ placed'[i].periods = placed[i].periods /\ placed'[i].fee = placed[i].fee
             /\ placed'[i].rate = placed[i].rate
             /\ Renewal(i) => /\ placed'[i].id = placed[i].id
                              /\ placed'[i].quote = placed[i].quote
                              /\ placed'[i].status = "pending" => placed[i].status = "pending"
  <2>1. CASE placed'[i] = placed[i]
    BY <1>1, <2>1
  <2>2. CASE placed'[i] # placed[i]
    <3>1. OpenRenewal(i)
      BY <2>2 DEF RowStays
    <3>2. PICK s \in {"completed", "cancelled"} : placed'[i] = [placed[i] EXCEPT !.status = s]
      BY <2>2 DEF RowStays
    <3>3. PICK o \in RenewalRow : o = placed[i]
      <4>1. placed[i] \in OrderRow \cup RenewalRow /\ placed[i].kind = "renewal"
        BY <1>1, <3>1 DEF OpenRenewal
      <4> QED BY <4>1 DEF OrderRow
    <3>4. placed'[i] = [o EXCEPT !.status = s]
      BY <3>2, <3>3
    <3>5. /\ placed'[i] \in RenewalRow
          /\ placed'[i].kind = o.kind /\ placed'[i].total = o.total
          /\ placed'[i].price = o.price /\ placed'[i].n = o.n
          /\ placed'[i].periods = o.periods /\ placed'[i].fee = o.fee
          /\ placed'[i].rate = o.rate /\ placed'[i].id = o.id
          /\ placed'[i].quote = o.quote /\ placed'[i].status = s
      BY <3>3, <3>4 DEF RenewalRow
    <3> QED BY <3>3, <3>5
  <2> QED BY <2>1, <2>2
<1>4. DOMAIN placed' = DOMAIN placed
  OBVIOUS
<1>5. placed' \in Seq(OrderRow \cup RenewalRow) /\ Len(placed') = Len(placed)
  BY <1>2, <1>3, <1>4
<1>6. OrdersFit'
  <2>1. ASSUME NEW i \in DOMAIN placed
        PROVE  /\ ExactAmounts(placed[i])' 
               /\ Renewal(i)' => /\ placed'[i].total = placed'[i].quote.total
                                 /\ placed'[i].fee = placed'[i].quote.fee
                                 /\ placed'[i].periods = placed'[i].quote.periods
    <3>1. ExactAmounts(placed[i])
      BY DEF CheckoutInv, OrdersFit
    <3>2. ExactAmounts(placed[i])'
      BY <1>3, <3>1 DEF ExactAmounts, ExactTotal, ExactFee
    <3>3. Renewal(i)' => Renewal(i)
      BY <1>3 DEF Renewal
    <3>4. Renewal(i) => /\ placed[i].total = placed[i].quote.total
                        /\ placed[i].fee = placed[i].quote.fee
                        /\ placed[i].periods = placed[i].quote.periods
      BY DEF CheckoutInv, OrdersFit
    <3> QED BY <1>3, <3>2, <3>3, <3>4
  <2> QED BY <1>4, <2>1 DEF OrdersFit
<1>7. RenewalsAreSingle'
  BY <1>3, <1>4 DEF CheckoutInv, RenewalsAreSingle, Renewal
<1>8. AnswersFit'
  BY <1>3, <1>4 DEF CheckoutInv, AnswersFit, Renewal
<1> QED BY <1>5, <1>6, <1>7, <1>8

LEMMA UnlistedIsNoItem == Unlisted \notin Item /\ Unlisted.status = "none"
BY DEF Unlisted, Item

LEMMA CheckoutInitHolds == CheckoutInit => CheckoutInv
<1> SUFFICES ASSUME CheckoutInit PROVE CheckoutInv
  OBVIOUS
<1>1. /\ checkout = [c \in Checkouts |-> IdleCheckout] /\ turnedAway = {} /\ placed = <<>>
      /\ answers = {} /\ hour = 0 /\ policy \in [enabled : BOOLEAN, rate : Rates]
  BY DEF CheckoutInit, NothingOrdered
<1>2. \/ listing = Unlisted /\ lease = [end |-> NoTime, status |-> "none", units |-> 0]
      \/ \E f \in Offerings, end \in Nat :
           /\ listing = [form |-> WithDefaults(f), status |-> "active"] /\ listing \in Item
           /\ lease = [end |-> end, status |-> "active", units |-> LeaseQuantity]
  <2>1. CASE NothingListed
    BY <2>1 DEF NothingListed
  <2>2. ASSUME NEW f \in Offerings, NEW end \in Nat, LeaseRuns(f, end)
        PROVE  /\ listing = [form |-> WithDefaults(f), status |-> "active"] /\ listing \in Item
               /\ lease = [end |-> end, status |-> "active", units |-> LeaseQuantity]
    <3>1. WithDefaults(f) \in {p \in Good : HasPrice(p)}
      BY <2>2, ListedFormsAreGood, CheckoutAssumption DEF LeaseRuns
    <3> QED BY <2>2, <3>1 DEF LeaseRuns, Item
  <2> QED BY <2>1, <2>2 DEF CheckoutInit
<1>3. lease \in [end : Int, status : {"none", "paid", "active", "completed"}, units : Nat]
  BY <1>2, CheckoutAssumption DEF NoTime
<1>4. listing = Unlisted \/ listing \in Item
  BY <1>2
<1>5. placed \in Seq(OrderRow \cup RenewalRow)
  BY <1>1
<1>6. CheckoutTypes
  BY <1>1, <1>3, <1>4, <1>5 DEF CheckoutTypes
<1>7. NothingBeforeAListing
  BY <1>1, <1>2, UnlistedIsNoItem DEF NothingBeforeAListing
<1>8. PolicyIsHeld
  BY <1>1 DEF PolicyIsHeld, IdleCheckout
<1>9. OrdersFit /\ RenewalsAreSingle /\ AnswersFit /\ RefusalsAreRight
  BY <1>1 DEF OrdersFit, RenewalsAreSingle, AnswersFit, RefusalsAreRight
<1> QED BY <1>6, <1>7, <1>8, <1>9 DEF CheckoutInv

\* A step that moves no order keeps what is said of orders.
LEMMA OrdersStandStill ==
    ASSUME CheckoutInv, placed' = placed, answers' = answers
    PROVE  OrdersFit' /\ RenewalsAreSingle' /\ AnswersFit'
BY DEF CheckoutInv, OrdersFit, RenewalsAreSingle, AnswersFit, Renewal, ExactAmounts, ExactTotal,
       ExactFee

LEMMA PolicyStaysHeld ==
    ASSUME CheckoutInv, policy' = policy, checkout' = checkout
    PROVE  PolicyIsHeld'
BY DEF CheckoutInv, PolicyIsHeld, ExactAmounts, ExactTotal, ExactFee

LEMMA ShopStepKeeps ==
    ASSUME CheckoutInv, ShopStep(Offerings)
    PROVE  CheckoutInv'
<1> USE DEF CheckoutInv
<1>1. /\ checkout' = checkout /\ turnedAway' = turnedAway /\ placed' = placed /\ lease' = lease
      /\ answers' = answers /\ hour' = hour
  BY DEF ShopStep, ListProduct, MoveListing, UpdateConfig
<1>2. OrdersFit' /\ RenewalsAreSingle' /\ AnswersFit' /\ RefusalsAreRight'
  BY <1>1, OrdersStandStill DEF RefusalsAreRight
<1>3. ASSUME NEW f \in Offerings, ListProduct(f) PROVE listing' \in Item /\ policy' = policy
  <2>1. WithDefaults(f) \in {p \in Good : HasPrice(p)}
    BY <1>3, ListedFormsAreGood, CheckoutAssumption DEF ListProduct
  <2> QED BY <1>3, <2>1 DEF ListProduct, Item
<1>4. ASSUME MoveListing PROVE listing' \in Item /\ policy' = policy
  <2>1. listing \in Item
    BY <1>4, UnlistedIsNoItem DEF MoveListing, CheckoutTypes
  <2>2. PICK s \in {"active", "draft", "offline"} : listing' = [listing EXCEPT !.status = s]
    BY <1>4 DEF MoveListing
  <2> QED BY <1>4, <2>1, <2>2 DEF Item, MoveListing
<1>5. ASSUME UpdateConfig
      PROVE  listing' = listing /\ policy' \in [enabled : BOOLEAN, rate : Rates] /\ PolicyIsHeld'
  <2>1. \A c \in Checkouts : checkout'[c].at # "priced"
    BY <1>1, <1>5 DEF UpdateConfig, PolicyLocked
  <2> QED BY <1>5, <2>1 DEF UpdateConfig, CheckoutTypes, PolicyIsHeld
<1>6. /\ listing' \in Item \/ listing' = listing
      /\ policy' \in [enabled : BOOLEAN, rate : Rates] /\ PolicyIsHeld'
  BY <1>1, <1>3, <1>4, <1>5, PolicyStaysHeld DEF ShopStep, CheckoutTypes
<1>7. CheckoutTypes'
  BY <1>1, <1>6 DEF CheckoutTypes
<1>8. NothingBeforeAListing'
  BY <1>1, <1>6, UnlistedIsNoItem DEF NothingBeforeAListing
<1> QED BY <1>2, <1>6, <1>7, <1>8

LEMMA ReadProductKeeps ==
    ASSUME CheckoutInv, NEW c \in Checkouts, NEW n, NEW periods, ReadProduct(c, n, periods)
    PROVE  CheckoutInv'
<1> USE DEF CheckoutInv
<1>1. PICK o : o = [at |-> "read", price |-> listing.form.price, n |-> n,
                    periods |-> OrderedPeriods(listing.form, periods)]
  OBVIOUS
<1>2. /\ checkout' = [checkout EXCEPT ![c] = o] /\ listing' = listing /\ policy' = policy
      /\ turnedAway' = turnedAway /\ placed' = placed /\ lease' = lease /\ answers' = answers
      /\ hour' = hour
  BY <1>1 DEF ReadProduct
<1>3. listing.form \in Good
  BY UnlistedIsNoItem DEF ReadProduct, CheckoutTypes, Item
<1>4. o \in Asked
  BY <1>1, <1>3, OrderableNumbers DEF ReadProduct, Asked
<1>5. CheckoutTypes'
  BY <1>2, <1>4 DEF CheckoutTypes
<1>6. PolicyIsHeld'
  <2>1. ASSUME NEW d \in Checkouts, checkout'[d].at = "priced" PROVE checkout'[d] = checkout[d]
    BY <1>2, <1>4, <2>1 DEF CheckoutTypes, Asked
  <2> QED BY <1>2, <2>1 DEF PolicyIsHeld, ExactAmounts, ExactTotal, ExactFee
<1>7. OrdersFit' /\ RenewalsAreSingle' /\ AnswersFit'
  BY <1>2, OrdersStandStill
<1> QED BY <1>2, <1>5, <1>6, <1>7 DEF NothingBeforeAListing, RefusalsAreRight

LEMMA PriceOrderKeeps ==
    ASSUME CheckoutInv, NEW c \in Checkouts, PriceOrder(c)
    PROVE  CheckoutInv'
<1> USE DEF CheckoutInv
<1>1. PICK o \in Asked : o = checkout[c]
  BY DEF PriceOrder, CheckoutTypes, IdleCheckout, Priced
<1>2. o.price \in Nat \ {0} /\ o.n \in Nat \ {0} /\ o.periods \in Nat \ {0}
  BY DEF Asked
<1>3. PICK total, fee : total = Total(o.price, o.n, o.periods) /\ fee = Fee(total, policy.rate)
  OBVIOUS
<1>4. PICK held : held = [at |-> "priced", price |-> o.price, n |-> o.n, periods |-> o.periods,
                          total |-> total, fee |-> fee, rate |-> policy.rate]
  OBVIOUS
<1>5. policy.rate \in Rates
  BY DEF CheckoutTypes
<1>6. Priceable(o.price, o.n, o.periods) => held \in Priced /\ ExactAmounts(held)
  <2>1. /\ held.price = o.price /\ held.n = o.n /\ held.periods = o.periods
        /\ held.rate = policy.rate /\ held.total = Total(o.price, o.n, o.periods)
        /\ held.fee = Fee(held.total, policy.rate)
    BY <1>3, <1>4
  <2> SUFFICES ASSUME Priceable(o.price, o.n, o.periods) PROVE held \in Priced /\ ExactAmounts(held)
    OBVIOUS
  <2>2. ExactAmounts(held) /\ held.total \in Nat /\ held.fee \in Nat
    BY <1>2, <1>5, <2>1, AmountsAddUp
  <2> QED BY <1>2, <1>4, <1>5, <2>2 DEF Priced
<1>7. /\ listing' = listing /\ policy' = policy /\ placed' = placed /\ lease' = lease
      /\ answers' = answers /\ hour' = hour
  BY DEF PriceOrder
<1>8. \/ /\ policy.enabled = TRUE /\ Priceable(o.price, o.n, o.periods)
         /\ checkout' = [checkout EXCEPT ![c] = held] /\ turnedAway' = turnedAway
      \/ /\ ~Priceable(o.price, o.n, o.periods)
         /\ checkout' = [checkout EXCEPT ![c] = IdleCheckout]
         /\ turnedAway' = turnedAway \cup {ExactTotal(o.price, o.n, o.periods)}
      \/ /\ checkout' = [checkout EXCEPT ![c] = IdleCheckout] /\ turnedAway' = turnedAway
  <2>1. policy.enabled \in BOOLEAN
    BY DEF CheckoutTypes
  <2> QED BY <1>1, <1>3, <1>4, <2>1, Zenon DEF PriceOrder
<1>9. CheckoutTypes'
  BY <1>6, <1>7, <1>8 DEF CheckoutTypes
<1>10. PolicyIsHeld'
  <2>1. ASSUME NEW d \in Checkouts, checkout'[d].at = "priced"
        PROVE  \/ checkout'[d] = checkout[d]
               \/ checkout'[d] = held /\ ExactAmounts(held) /\ policy.enabled = TRUE
    BY <1>6, <1>8, <2>1 DEF CheckoutTypes, IdleCheckout
  <2>2. held.rate = policy.rate
    BY <1>4
  <2>3. ASSUME NEW d \in Checkouts, checkout'[d].at = "priced"
        PROVE  /\ policy.enabled = TRUE /\ checkout'[d].rate = policy.rate
               /\ ExactAmounts(checkout'[d])
    BY <2>1, <2>2, <2>3 DEF PolicyIsHeld
  <2> QED BY <1>7, <2>3 DEF PolicyIsHeld, ExactAmounts, ExactTotal, ExactFee
<1>11. RefusalsAreRight'
  <2>1. ~Priceable(o.price, o.n, o.periods) => ExactTotal(o.price, o.n, o.periods) > MaxTotal
    <3>1. Priceable(o.price, o.n, o.periods) <=> ExactTotal(o.price, o.n, o.periods) <= MaxTotal
      BY <1>2, AmountsAreFound
    <3>2. ExactTotal(o.price, o.n, o.periods) \in Int /\ MaxTotal \in Int
      BY <1>2, PricingAssumption DEF ExactTotal
    <3> QED BY <3>1, <3>2
  <2> QED BY <1>8, <2>1 DEF RefusalsAreRight
<1>12. OrdersFit' /\ RenewalsAreSingle' /\ AnswersFit'
  BY <1>7, OrdersStandStill
<1> QED BY <1>7, <1>9, <1>10, <1>11, <1>12 DEF NothingBeforeAListing

\* A new row, with what it must be.
LEMMA RowAdded ==
    ASSUME CheckoutInv, NEW o \in OrderRow \cup RenewalRow, placed' = Append(placed, o),
           ExactAmounts(o),
           o.kind = "renewal" =>
             /\ o.total = o.quote.total /\ o.fee = o.quote.fee /\ o.periods = o.quote.periods
             /\ OpenRenewals = {} /\ \A i \in DOMAIN placed : Renewal(i) => placed[i].id # o.id
    PROVE  /\ placed' \in Seq(OrderRow \cup RenewalRow) /\ DOMAIN placed' = 1..(Len(placed) + 1)
           /\ OrdersFit' /\ RenewalsAreSingle'
           /\ answers' = answers => AnswersFit'
           /\ placed'[Len(placed) + 1] = o /\ \A i \in DOMAIN placed : placed'[i] = placed[i]
<1>1. placed \in Seq(OrderRow \cup RenewalRow)
  BY DEF CheckoutInv, CheckoutTypes
<1>2. PICK last \in Nat \ {0} : last = Len(placed) + 1
  BY <1>1
<1>3. /\ placed' \in Seq(OrderRow \cup RenewalRow)
      /\ DOMAIN placed' = DOMAIN placed \cup {last} /\ last \notin DOMAIN placed
      /\ placed'[last] = o /\ \A i \in DOMAIN placed : placed'[i] = placed[i]
      /\ DOMAIN placed' = 1..(Len(placed) + 1)
  BY <1>1, <1>2
<1>4. OrdersFit'
  <2>1. ASSUME NEW i \in DOMAIN placed'
        PROVE  /\ ExactAmounts(placed'[i])
               /\ Renewal(i)' => /\ placed'[i].total = placed'[i].quote.total
                                 /\ placed'[i].fee = placed'[i].quote.fee
                                 /\ placed'[i].periods = placed'[i].quote.periods
    <3>1. CASE i = last
      BY <1>3, <3>1 DEF Renewal
    <3>2. CASE i \in DOMAIN placed
      <4>1. placed'[i] = placed[i]
        BY <1>3, <3>2
      <4>2. Renewal(i)' <=> Renewal(i)
        BY <4>1 DEF Renewal
      <4> QED BY <3>2, <4>1, <4>2 DEF CheckoutInv, OrdersFit
    <3> QED BY <1>3, <3>1, <3>2
  <2> QED BY <2>1 DEF OrdersFit, ExactAmounts, ExactTotal, ExactFee
<1>5. RenewalsAreSingle'
  <2>1. ASSUME o.kind = "renewal", NEW i \in DOMAIN placed, Renewal(i)
        PROVE  placed[i].id # o.id /\ placed[i].status # "pending"
    BY <2>1 DEF OpenRenewals, OpenRenewal, Renewal
  <2> QED BY <1>3, <2>1 DEF CheckoutInv, RenewalsAreSingle, Renewal
<1>6. answers' = answers => AnswersFit'
  BY <1>3 DEF CheckoutInv, AnswersFit, Renewal
<1> QED BY <1>2, <1>3, <1>4, <1>5, <1>6

LEMMA CommitOrderKeeps ==
    ASSUME CheckoutInv, NEW c \in Checkouts, CommitOrder(c)
    PROVE  CheckoutInv'
<1> USE DEF CheckoutInv
<1>1. PICK o \in Priced : o = checkout[c]
  BY DEF CommitOrder, CheckoutTypes, IdleCheckout, Asked
<1>2. ExactAmounts(o) /\ o.n \in Nat \ {0}
  BY <1>1 DEF CommitOrder, PolicyIsHeld, Priced
<1>3. PICK row : row = [kind |-> "order", price |-> o.price, n |-> o.n, periods |-> o.periods,
                        total |-> o.total, fee |-> o.fee, rate |-> o.rate]
  OBVIOUS
<1>4. row \in OrderRow /\ ExactAmounts(row)
  BY <1>2, <1>3 DEF Priced, OrderRow, ExactAmounts
<1>5. /\ checkout' = [checkout EXCEPT ![c] = IdleCheckout] /\ policy' = policy
      /\ turnedAway' = turnedAway /\ lease' = lease /\ answers' = answers /\ hour' = hour
  BY DEF CommitOrder
<1>6. \/ listing.status = "active" /\ listing' = ShelfAfter(o.n) /\ placed' = Append(placed, row)
      \/ listing' = listing /\ placed' = placed
  BY <1>1, <1>3 DEF CommitOrder
<1>7. CASE listing' = listing /\ placed' = placed
  <2>1. CheckoutTypes'
    BY <1>5, <1>7 DEF CheckoutTypes
  <2>2. PolicyIsHeld'
    BY <1>5 DEF CheckoutTypes, PolicyIsHeld, IdleCheckout, ExactAmounts, ExactTotal, ExactFee
  <2>3. OrdersFit' /\ RenewalsAreSingle' /\ AnswersFit'
    BY <1>5, <1>7, OrdersStandStill
  <2> QED BY <1>5, <1>7, <2>1, <2>2, <2>3 DEF NothingBeforeAListing, RefusalsAreRight
<1>8. CASE listing.status = "active" /\ listing' = ShelfAfter(o.n) /\ placed' = Append(placed, row)
  <2>1. listing' \in Item
    BY <1>2, <1>8, StockMoves, UnlistedIsNoItem DEF CheckoutTypes
  <2>2. row.kind = "order"
    BY <1>3
  <2>3. placed' \in Seq(OrderRow \cup RenewalRow) /\ OrdersFit' /\ RenewalsAreSingle' /\ AnswersFit'
    BY <1>4, <1>5, <1>8, <2>2, RowAdded
  <2>4. CheckoutTypes'
    BY <1>5, <2>1, <2>3 DEF CheckoutTypes
  <2>5. PolicyIsHeld'
    BY <1>5 DEF CheckoutTypes, PolicyIsHeld, IdleCheckout, ExactAmounts, ExactTotal, ExactFee
  <2> QED BY <1>5, <2>1, <2>3, <2>4, <2>5, UnlistedIsNoItem
          DEF NothingBeforeAListing, RefusalsAreRight
<1> QED BY <1>6, <1>7, <1>8

LEMMA RenewAgainKeeps ==
    ASSUME CheckoutInv, NEW id, NEW q, RenewAgain(id, q)
    PROVE  CheckoutInv'
<1> USE DEF CheckoutInv
<1>1. PICK i \in Previous(id) :
        Matches(placed[i], q) /\ answers' = answers \cup {[id |-> id, quote |-> q, order |-> i]}
  BY DEF RenewAgain
<1>2. /\ checkout' = checkout /\ turnedAway' = turnedAway /\ placed' = placed /\ lease' = lease
      /\ policy' = policy /\ hour' = hour /\ listing' = listing
  BY DEF RenewAgain
<1>3. i \in DOMAIN placed /\ Renewal(i) /\ placed[i].id = id /\ placed[i].quote = q
  BY <1>1 DEF Previous, Matches, Renewal
<1>4. AnswersFit'
  BY <1>1, <1>2, <1>3 DEF AnswersFit, Renewal
<1>5. OrdersFit' /\ RenewalsAreSingle'
  BY <1>2 DEF OrdersFit, RenewalsAreSingle, Renewal, ExactAmounts, ExactTotal, ExactFee
<1> QED BY <1>2, <1>4, <1>5, PolicyStaysHeld
        DEF CheckoutTypes, NothingBeforeAListing, RefusalsAreRight

LEMMA RenewFirstKeeps ==
    ASSUME CheckoutInv, NEW id \in RequestIds, NEW q, RenewFirst(id, q)
    PROVE  CheckoutInv'
<1> USE DEF CheckoutInv
<1>1. listing \in Item /\ listing.form \in Good
  BY UnlistedIsNoItem DEF RenewFirst, SameQuote, Quotable, CheckoutTypes, Item
<1>2. PICK price, periods, rate : price = listing.form.price /\ periods = q.periods
                                  /\ rate = policy.rate
  OBVIOUS
<1>3. price \in Nat \ {0} /\ periods \in Nat \ {0} /\ rate \in Rates
      /\ LeaseQuantity \in Nat \ {0} /\ Priceable(price, LeaseQuantity, periods)
  BY <1>1, <1>2, OrderableNumbers, CheckoutAssumption
     DEF RenewFirst, SameQuote, Quotable, CheckoutTypes
<1>4. PICK total, fee : total = Total(price, LeaseQuantity, periods) /\ fee = Fee(total, rate)
  OBVIOUS
<1>5. PICK until : until = IF lease.end > hour
                           THEN lease.end + Cycle[listing.form.mode] * periods ELSE NoTime
  OBVIOUS
<1>6. until \in Int
  <2>1. Cycle[listing.form.mode] \in Nat /\ lease.end \in Int
    BY <1>1, CheckoutAssumption DEF Good, CheckoutTypes
  <2>2. Cycle[listing.form.mode] * periods \in Int
    BY <1>3, <2>1
  <2> QED BY <1>5, <2>1, <2>2 DEF NoTime
<1>7. q = [mode |-> listing.form.mode, periods |-> periods, total |-> total, fee |-> fee,
           end |-> lease.end, until |-> until]
  BY <1>2, <1>4, <1>5 DEF RenewFirst, SameQuote, Quote
<1>8. PICK taken \in Nat :
        /\ taken > 0 => listing.status = "active" /\ listing.form.stock >= taken
        /\ listing' = IF taken > 0 THEN ShelfAfter(taken) ELSE listing
        /\ placed' = Append(placed, [kind |-> "renewal", id |-> id, quote |-> q,
                                     total |-> q.total, fee |-> q.fee,
                                     price |-> listing.form.price, n |-> LeaseQuantity,
                                     periods |-> q.periods, rate |-> policy.rate,
                                     taken |-> taken, status |-> "pending"])
  BY CheckoutAssumption DEF RenewFirst
<1>9. PICK row : row = [kind |-> "renewal", id |-> id, quote |-> q, total |-> total, fee |-> fee,
                        price |-> price, n |-> LeaseQuantity, periods |-> periods,
                        rate |-> rate, taken |-> taken, status |-> "pending"]
  OBVIOUS
<1>10. q.total = total /\ q.fee = fee /\ q.periods = periods
  BY <1>7
<1>11. placed' = Append(placed, row)
  BY <1>2, <1>8, <1>9, <1>10
<1>12. ExactAmounts(row) /\ total \in Nat /\ fee \in Nat
  <2>1. /\ row.price = price /\ row.n = LeaseQuantity /\ row.periods = periods
        /\ row.rate = rate /\ row.total = Total(price, LeaseQuantity, periods)
        /\ row.fee = Fee(row.total, rate)
    BY <1>4, <1>9
  <2>2. ExactAmounts(row) /\ row.total \in Nat /\ row.fee \in Nat
    BY <1>3, <2>1, AmountsAddUp
  <2> QED BY <1>9, <2>2
<1>13. q \in Agreement
  <2>1. listing.form.mode \in PricingModes /\ lease.end \in Int
    BY <1>1 DEF Good, CheckoutTypes
  <2> QED BY <1>3, <1>6, <1>7, <1>12, <2>1 DEF Agreement
<1>14. row \in RenewalRow
  BY <1>3, <1>9, <1>12, <1>13 DEF RenewalRow
<1>15. OpenRenewals = {} /\ \A i \in DOMAIN placed : Renewal(i) => placed[i].id # row.id
  BY <1>9 DEF RenewFirst, SameQuote, Quotable, Previous, Renewal
<1>16. /\ row.total = row.quote.total /\ row.fee = row.quote.fee
       /\ row.periods = row.quote.periods
  BY <1>9, <1>10
<1>17. /\ placed' \in Seq(OrderRow \cup RenewalRow) /\ DOMAIN placed' = 1..(Len(placed) + 1)
       /\ OrdersFit' /\ RenewalsAreSingle'
       /\ placed'[Len(placed) + 1] = row /\ \A i \in DOMAIN placed : placed'[i] = placed[i]
  BY <1>11, <1>12, <1>14, <1>15, <1>16, RowAdded
<1>18. /\ checkout' = checkout /\ turnedAway' = turnedAway /\ lease' = lease
       /\ policy' = policy /\ hour' = hour
       /\ answers' = answers \cup {[id |-> id, quote |-> q, order |-> Len(placed) + 1]}
  BY DEF RenewFirst
<1>19. listing' \in Item
  BY <1>1, <1>8, StockMoves
<1>20. CheckoutTypes'
  BY <1>17, <1>18, <1>19 DEF CheckoutTypes
<1>21. AnswersFit'
  <2>1. PICK last : last = Len(placed) + 1
    OBVIOUS
  <2>2. last \in DOMAIN placed' /\ placed'[last] = row
    <3>1. Len(placed) \in Nat
      BY DEF CheckoutTypes
    <3> QED BY <1>17, <2>1, <3>1
  <2>3. row.kind = "renewal" /\ row.id = id /\ row.quote = q
    BY <1>9
  <2>4. DOMAIN placed \subseteq DOMAIN placed'
    BY <1>17 DEF CheckoutTypes
  <2>5. ASSUME NEW a \in answers
        PROVE  /\ a.order \in DOMAIN placed' /\ Renewal(a.order)'
               /\ placed'[a.order].id = a.id /\ placed'[a.order].quote = a.quote
    BY <1>17, <2>4 DEF AnswersFit, Renewal
  <2>6. answers' = answers \cup {[id |-> id, quote |-> q, order |-> last]}
    BY <1>18, <2>1
  <2> QED BY <2>2, <2>3, <2>5, <2>6 DEF AnswersFit, Renewal
<1>22. NothingBeforeAListing'
  BY <1>19, UnlistedIsNoItem DEF NothingBeforeAListing
<1> QED BY <1>17, <1>18, <1>20, <1>21, <1>22, PolicyStaysHeld DEF RefusalsAreRight

\* A step that leaves who is at work alone, moves no policy, and only settles renewals.
LEMMA RenewalsSettle ==
    ASSUME CheckoutInv, checkout' = checkout, policy' = policy, turnedAway' = turnedAway,
           answers' = answers, hour' = hour, listing' = listing \/ listing' \in Item,
           placed' = [i \in DOMAIN placed |-> placed'[i]],
           \A i \in DOMAIN placed : RowStays(i),
           lease' \in [end : Int, status : {"none", "paid", "active", "completed"}, units : Nat],
           listing' = Unlisted => lease'.status = "none"
    PROVE  CheckoutInv'
<1>1. /\ placed' \in Seq(OrderRow \cup RenewalRow) /\ Len(placed') = Len(placed)
      /\ OrdersFit' /\ RenewalsAreSingle' /\ AnswersFit'
  BY RowsStayRight
<1>2. CheckoutTypes'
  BY <1>1 DEF CheckoutInv, CheckoutTypes
<1>3. NothingBeforeAListing'
  <2>1. ASSUME listing' = Unlisted PROVE placed' = <<>> /\ lease'.status = "none"
    <3>1. listing = Unlisted
      BY <2>1, UnlistedIsNoItem
    <3>2. placed = <<>>
      BY <3>1 DEF CheckoutInv, NothingBeforeAListing
    <3>3. Len(placed') = 0
      BY <1>1, <3>2
    <3> QED BY <1>1, <2>1, <3>3
  <2> QED BY <2>1 DEF NothingBeforeAListing
<1> QED BY <1>1, <1>2, <1>3, PolicyStaysHeld DEF CheckoutInv, RefusalsAreRight

LEMMA RowsThatWait ==
    ASSUME CheckoutInv, NEW i \in DOMAIN placed, OpenRenewal(i)
    PROVE  /\ placed[i] \in RenewalRow /\ placed[i].taken \in Nat /\ placed[i].quote \in Agreement
           /\ listing \in Item
<1>1. placed[i] \in OrderRow \cup RenewalRow /\ placed[i].kind = "renewal"
  BY DEF CheckoutInv, CheckoutTypes, OpenRenewal
<1>2. placed[i] \in RenewalRow
  BY <1>1 DEF OrderRow
<1>3. placed # <<>>
  OBVIOUS
<1> QED BY <1>2, <1>3 DEF RenewalRow, CheckoutInv, CheckoutTypes, NothingBeforeAListing

LEMMA RenewalPaidKeeps ==
    ASSUME CheckoutInv, NEW i \in DOMAIN placed, RenewalPaid(i)
    PROVE  CheckoutInv'
<1>1. placed \in Seq(OrderRow \cup RenewalRow) /\ OpenRenewal(i) /\ listing \in Item
      /\ placed[i].quote.until \in Int
  BY RowsThatWait DEF RenewalPaid, CheckoutInv, CheckoutTypes, Agreement
<1>2. \A j \in DOMAIN placed : RowStays(j)
  BY <1>1 DEF RenewalPaid, RowStays
<1>3. placed' = [j \in DOMAIN placed |-> placed'[j]]
  BY <1>1 DEF RenewalPaid
<1>4. lease' \in [end : Int, status : {"none", "paid", "active", "completed"}, units : Nat]
  BY <1>1, CheckoutAssumption DEF RenewalPaid, CheckoutInv, CheckoutTypes, NoTime
<1>5. /\ checkout' = checkout /\ policy' = policy /\ turnedAway' = turnedAway
      /\ answers' = answers /\ hour' = hour /\ listing' = listing
  BY DEF RenewalPaid
<1> QED BY <1>1, <1>2, <1>3, <1>4, <1>5, RenewalsSettle, UnlistedIsNoItem

LEMMA RenewalCancelledKeeps ==
    ASSUME CheckoutInv, NEW i \in DOMAIN placed, RenewalCancelled(i)
    PROVE  CheckoutInv'
<1>1. placed \in Seq(OrderRow \cup RenewalRow) /\ OpenRenewal(i) /\ listing \in Item
      /\ placed[i].taken \in Nat
  BY RowsThatWait DEF RenewalCancelled, CheckoutInv, CheckoutTypes
<1>2. placed' = [placed EXCEPT ![i] = [placed[i] EXCEPT !.status = "cancelled"]]
  BY DEF RenewalCancelled, Cancelled
<1>3. \A j \in DOMAIN placed : RowStays(j)
  BY <1>1, <1>2 DEF RowStays
<1>4. placed' = [j \in DOMAIN placed |-> placed'[j]]
  BY <1>1, <1>2
<1>5. listing' \in Item
  BY <1>1, StockMoves DEF RenewalCancelled
<1>6. /\ checkout' = checkout /\ policy' = policy /\ turnedAway' = turnedAway
      /\ answers' = answers /\ hour' = hour /\ lease' = lease
  BY DEF RenewalCancelled
<1>7. lease \in [end : Int, status : {"none", "paid", "active", "completed"}, units : Nat]
  BY DEF CheckoutInv, CheckoutTypes
<1> QED BY <1>3, <1>4, <1>5, <1>6, <1>7, RenewalsSettle, UnlistedIsNoItem

LEMMA LeaseOverKeeps ==
    ASSUME CheckoutInv, LeaseOver
    PROVE  CheckoutInv'
<1>1. placed \in Seq(OrderRow \cup RenewalRow) /\ listing \in Item /\ lease.units \in Nat
  BY DEF LeaseOver, CheckoutInv, CheckoutTypes, NothingBeforeAListing
<1>2. PICK back \in Nat : listing' = BackOnShelf(back)
  <2>1. MapThenSumSet(LAMBDA i : placed[i].taken, OpenRenewals) \in Nat
    BY OneIsSummed
  <2>2. PICK sum \in Nat : sum = MapThenSumSet(LAMBDA i : placed[i].taken, OpenRenewals)
    BY <2>1
  <2>3. listing' = BackOnShelf(lease.units + sum)
    BY <2>2 DEF LeaseOver
  <2> QED BY <1>1, <2>3
<1>3. listing' \in Item
  BY <1>1, <1>2, StockMoves
<1>4. placed' = [i \in DOMAIN placed |->
                   IF i \in OpenRenewals THEN [placed[i] EXCEPT !.status = "cancelled"]
                   ELSE placed[i]]
  BY DEF LeaseOver, Cancelled
<1>5. \A i \in DOMAIN placed : RowStays(i)
  BY <1>4 DEF RowStays, OpenRenewals
<1>6. placed' = [i \in DOMAIN placed |-> placed'[i]]
  BY <1>4
<1>7. lease' \in [end : Int, status : {"none", "paid", "active", "completed"}, units : Nat]
  BY DEF LeaseOver, CheckoutInv, CheckoutTypes
<1>8. /\ checkout' = checkout /\ policy' = policy /\ turnedAway' = turnedAway
      /\ answers' = answers /\ hour' = hour
  BY DEF LeaseOver
<1> QED BY <1>3, <1>5, <1>6, <1>7, <1>8, RenewalsSettle, UnlistedIsNoItem

LEMMA LeaseStartsKeeps ==
    ASSUME CheckoutInv, NEW periods \in Durations, LeaseStarts(periods)
    PROVE  CheckoutInv'
<1>1. periods \in Int /\ hour \in Nat /\ lease.status = "paid"
  BY CheckoutAssumption DEF LeaseStarts, CheckoutInv, CheckoutTypes
<1>2. lease' \in [end : Int, status : {"none", "paid", "active", "completed"}, units : Nat]
  <2>1. PICK end \in Int : end = hour + periods
    BY <1>1
  <2>2. lease' = [lease EXCEPT !.status = "active", !.end = end]
    BY <2>1 DEF LeaseStarts
  <2>3. lease \in [end : Int, status : {"none", "paid", "active", "completed"}, units : Nat]
    BY DEF CheckoutInv, CheckoutTypes
  <2> QED BY <2>2, <2>3
<1>3. /\ checkout' = checkout /\ policy' = policy /\ turnedAway' = turnedAway
      /\ answers' = answers /\ hour' = hour /\ listing' = listing /\ placed' = placed
  BY DEF LeaseStarts
<1>4. listing # Unlisted
  BY <1>1 DEF CheckoutInv, NothingBeforeAListing
<1>5. placed' = [i \in DOMAIN placed |-> placed'[i]] /\ \A i \in DOMAIN placed : RowStays(i)
  BY <1>3 DEF RowStays, CheckoutInv, CheckoutTypes
<1> QED BY <1>2, <1>3, <1>4, <1>5, RenewalsSettle

\* A step that only asks, or lets time pass.
LEMMA NothingMovesKeeps ==
    ASSUME CheckoutInv, hour' \in Nat, listing' = listing, policy' = policy,
           checkout' = checkout, turnedAway' = turnedAway, placed' = placed, lease' = lease,
           answers' = answers
    PROVE  CheckoutInv'
<1>1. CheckoutTypes' /\ NothingBeforeAListing' /\ RefusalsAreRight'
  BY DEF CheckoutInv, CheckoutTypes, NothingBeforeAListing, RefusalsAreRight
<1> QED BY <1>1, PolicyStaysHeld, OrdersStandStill DEF CheckoutInv

LEMMA CheckoutStepKeeps == CheckoutInv /\ [CheckoutNext]_checkoutVars => CheckoutInv'
<1> SUFFICES ASSUME CheckoutInv, [CheckoutNext]_checkoutVars PROVE CheckoutInv'
  OBVIOUS
<1>1. CASE OrderingStep(Offerings)
  BY <1>1, ShopStepKeeps, ReadProductKeeps, PriceOrderKeeps, CommitOrderKeeps DEF OrderingStep
<1>2. CASE RenewingStep(Offerings)
  <2>1. ASSUME NEW d \in Durations, GetRenewalQuote(d) PROVE CheckoutInv'
    <3>1. hour' \in Nat
      BY <2>1 DEF GetRenewalQuote, CheckoutInv, CheckoutTypes
    <3> QED BY <2>1, <3>1, NothingMovesKeeps DEF GetRenewalQuote
  <2>2. ASSUME HourPasses PROVE CheckoutInv'
    <3>1. hour' \in Nat
      BY <2>2 DEF HourPasses, CheckoutInv, CheckoutTypes
    <3> QED BY <2>2, <3>1, NothingMovesKeeps DEF HourPasses
  <2> QED BY <1>2, <2>1, <2>2, ShopStepKeeps, RenewFirstKeeps, RenewAgainKeeps, RenewalPaidKeeps,
          RenewalCancelledKeeps, LeaseStartsKeeps, LeaseOverKeeps DEF RenewingStep
<1>3. CASE UNCHANGED checkoutVars
  <2>1. hour' \in Nat
    BY <1>3 DEF checkoutVars, CheckoutInv, CheckoutTypes
  <2> QED BY <1>3, <2>1, NothingMovesKeeps DEF checkoutVars
<1> QED BY <1>1, <1>2, <1>3 DEF CheckoutNext

LEMMA WhatIsListedSells == CheckoutInv => ListingsCanBeBought
<1> SUFFICES ASSUME CheckoutInv, listing.status \in {"pending", "active"},
                    ~listing.form.negotiable,
                    ~(listing.form.minOrder > listing.form.stock),
                    ~(listing.form.minOrder > MaxOrderQuantity),
                    ~(listing.form.minPeriods > MaxPeriods[listing.form.mode])
             PROVE  /\ Orderable(listing.form, listing.form.minOrder, listing.form.minPeriods)
                    /\ OnShelf(listing.form, listing.form.minOrder)
  BY DEF ListingsCanBeBought
<1>1. PICK p \in Good : p = listing.form /\ HasPrice(p)
  BY UnlistedIsNoItem DEF CheckoutInv, CheckoutTypes, Item
<1>2. /\ p.price \in 0..MaxTotal /\ p.stock \in Int /\ p.minOrder \in Nat \ {0}
      /\ p.minPeriods \in Nat \ {0} /\ p.mode \in PricingModes
  BY DEF Good
<1>3. MaxOrderQuantity \in Nat /\ MaxPeriods[p.mode] \in Nat /\ MaxTotal \in Nat
  BY <1>2, PricingAssumption
<1>4. p.type # "colocation" /\ p.price > 0
  BY <1>1 DEF HasPrice
<1>5. p.minOrder \in AtLeastOne(p.minOrder)..MaxOrderQuantity
  BY <1>1, <1>2, <1>3 DEF AtLeastOne
<1>6. p.minPeriods \in AtLeastOne(p.minPeriods)..MaxPeriods[p.mode]
  BY <1>1, <1>2, <1>3 DEF AtLeastOne
<1>7. Orderable(p, p.minOrder, p.minPeriods)
  BY <1>1, <1>4, <1>5, <1>6 DEF Orderable
<1>8. OnShelf(p, p.minOrder)
  BY <1>1, <1>2 DEF OnShelf
<1> QED BY <1>1, <1>7, <1>8

LEMMA WhatIsChargedIsAgreed ==
    CheckoutInv => AmountsAreExact /\ AnsweredAsAgreed
<1> SUFFICES ASSUME CheckoutInv PROVE AmountsAreExact /\ AnsweredAsAgreed
  OBVIOUS
<1>1. AmountsAreExact
  BY DEF CheckoutInv, AmountsAreExact, OrdersFit, RefusalsAreRight, ExactAmounts
<1>2. ASSUME NEW a \in answers
      PROVE  LET q == a.quote  o == placed[a.order] IN
               /\ o.total = q.total /\ o.fee = q.fee /\ o.periods = q.periods /\ o.quote = q
               /\ q.total = ExactTotal(o.price, o.n, o.periods) /\ q.fee = ExactFee(q.total, o.rate)
  <2>1. PICK q, o : q = a.quote /\ o = placed[a.order]
    OBVIOUS
  <2>2. a.order \in DOMAIN placed /\ Renewal(a.order) /\ o.quote = q
    BY <2>1 DEF CheckoutInv, AnswersFit
  <2>3. /\ ExactAmounts(o)
        /\ o.total = o.quote.total /\ o.fee = o.quote.fee /\ o.periods = o.quote.periods
    BY <2>1, <2>2 DEF CheckoutInv, OrdersFit
  <2>4. /\ o.total = q.total /\ o.fee = q.fee /\ o.periods = q.periods /\ o.quote = q
        /\ q.total = ExactTotal(o.price, o.n, o.periods) /\ q.fee = ExactFee(q.total, o.rate)
    BY <2>2, <2>3 DEF ExactAmounts
  <2> QED BY <2>1, <2>4
<1>3. ASSUME NEW a \in answers, NEW b \in answers, a.id = b.id PROVE a.order = b.order
  BY <1>3 DEF CheckoutInv, AnswersFit, RenewalsAreSingle
<1> QED BY <1>1, <1>2, <1>3 DEF AnsweredAsAgreed

LEMMA OrdersHoldThePolicy ==
    CheckoutInv /\ [CheckoutNext]_checkoutVars =>
        [placed' # placed /\ Len(placed') > Len(placed) =>
            policy.enabled /\ Last(placed').rate = policy.rate]_checkoutVars
<1> SUFFICES ASSUME CheckoutInv, CheckoutNext, placed' # placed, Len(placed') > Len(placed)
             PROVE  policy.enabled /\ Last(placed').rate = policy.rate
  OBVIOUS
<1>1. placed \in Seq(OrderRow \cup RenewalRow) /\ Len(placed) \in Nat
  BY DEF CheckoutInv, CheckoutTypes
<1>2. ASSUME NEW o PROVE Last(Append(placed, o)) = o
  <2>1. PICK long : long = Append(placed, o)
    OBVIOUS
  <2>2. Len(long) = Len(placed) + 1 /\ long[Len(placed) + 1] = o
    BY <1>1, <2>1
  <2> QED BY <2>1, <2>2 DEF Last
<1>3. ASSUME NEW c \in Checkouts, CommitOrder(c)
      PROVE  policy.enabled /\ Last(placed').rate = policy.rate
  <2>1. PICK o : o = [kind |-> "order", price |-> checkout[c].price, n |-> checkout[c].n,
                      periods |-> checkout[c].periods, total |-> checkout[c].total,
                      fee |-> checkout[c].fee, rate |-> checkout[c].rate]
    OBVIOUS
  <2>2. placed' = Append(placed, o) /\ checkout[c].at = "priced"
    BY <1>3, <2>1 DEF CommitOrder
  <2>3. o.rate = policy.rate /\ policy.enabled = TRUE
    BY <2>1, <2>2 DEF CheckoutInv, PolicyIsHeld
  <2> QED BY <1>2, <2>2, <2>3
<1>4. ASSUME NEW id, NEW q, RenewFirst(id, q)
      PROVE  policy.enabled /\ Last(placed').rate = policy.rate
  <2>1. PICK o : placed' = Append(placed, o) /\ o.rate = policy.rate
    BY <1>4 DEF RenewFirst
  <2>2. policy.enabled
    BY <1>4 DEF RenewFirst, SameQuote, Quotable
  <2> QED BY <1>2, <2>1, <2>2
<1>5. ASSUME NEW i \in DOMAIN placed, RenewalPaid(i) \/ RenewalCancelled(i) PROVE FALSE
  <2>1. DOMAIN placed' = DOMAIN placed
    BY <1>1, <1>5 DEF RenewalPaid, RenewalCancelled
  <2>2. placed' \in Seq(OrderRow \cup RenewalRow)
    BY <1>5, RenewalPaidKeeps, RenewalCancelledKeeps DEF CheckoutInv, CheckoutTypes
  <2> QED BY <1>1, <2>1, <2>2
<1>6. ASSUME LeaseOver PROVE FALSE
  <2>1. DOMAIN placed' = DOMAIN placed
    BY <1>1, <1>6 DEF LeaseOver
  <2>2. placed' \in Seq(OrderRow \cup RenewalRow)
    BY <1>6, LeaseOverKeeps DEF CheckoutInv, CheckoutTypes
  <2> QED BY <1>1, <2>1, <2>2
<1>7. \/ \E c \in Checkouts : CommitOrder(c)
      \/ \E id \in RequestIds, q \in quotes : RenewFirst(id, q)
      \/ \E i \in DOMAIN placed : RenewalPaid(i) \/ RenewalCancelled(i)
      \/ LeaseOver
  BY DEF CheckoutNext, OrderingStep, RenewingStep, ShopStep, ListProduct, MoveListing,
         UpdateConfig, ReadProduct, PriceOrder, GetRenewalQuote, RenewAgain, LeaseStarts, HourPasses
<1> QED BY <1>3, <1>4, <1>5, <1>6, <1>7

\* However many orders are placed at once, products changed and policies set, however often a
\* request to renew is sent again, and whatever the size of a word: who buys pays the exact
\* amount on the terms he agreed to, under the policy that holds, and what is listed sells.
THEOREM ChargesStayRight == CheckoutSpec => ChargesAreRight
<1>1. CheckoutSpec => []CheckoutInv
  BY CheckoutInitHolds, CheckoutStepKeeps, PTL DEF CheckoutSpec
<1>2. CheckoutSpec => [](AmountsAreExact /\ ListingsCanBeBought /\ AnsweredAsAgreed)
  BY <1>1, WhatIsListedSells, WhatIsChargedIsAgreed, PTL
<1>3. CheckoutSpec => PolicyIsNotOvertaken
  BY <1>1, OrdersHoldThePolicy, PTL DEF CheckoutSpec, PolicyIsNotOvertaken
<1> QED BY <1>2, <1>3 DEF ChargesAreRight

-----------------------------------------------------------------------------
(* The summary of a search *)

\* A beginning of a sequence, position by position.
Begins(s, t) == Len(s) <= Len(t) /\ \A i \in 1..Len(s) : s[i] = t[i]

\* The first elements of a sequence.
LEMMA FirstOnes ==
    ASSUME NEW U, NEW t \in Seq(U), NEW k \in 0..Len(t)
    PROVE  /\ SubSeq(t, 1, k) \in Seq(U) /\ Len(SubSeq(t, 1, k)) = k
           /\ \A i \in 1..k : SubSeq(t, 1, k)[i] = t[i]
<1>1. \A i \in 1..k : t[i] \in U
  BY ElementOfSeq
<1> DEFINE n == k
           m == 1
<1>2. m \in Int /\ n \in Int /\ \A i \in m..n : t[i] \in U
  BY <1>1
<1> HIDE DEF m, n
<1>3. /\ SubSeq(t, m, n) \in Seq(U)
      /\ Len(SubSeq(t, m, n)) = IF m <= n THEN n - m + 1 ELSE 0
      /\ \A i \in 1..(n - m + 1) : SubSeq(t, m, n)[i] = t[m + i - 1]
  BY <1>2, SubSeqProperties
<1> QED BY <1>3 DEF m, n

LEMMA BeginsIsPrefix ==
    ASSUME NEW U, NEW s \in Seq(U), NEW t \in Seq(U)
    PROVE  IsPrefix(s, t) <=> Begins(s, t)
<1>1. SubSeq(s, 1, Len(s)) = s
  BY SubSeqFull
<1>2. CASE Len(s) <= Len(t)
  <2> DEFINE u == SubSeq(t, 1, Len(s))
  <2>1. u \in Seq(U) /\ Len(u) = Len(s) /\ \A i \in 1..Len(s) : u[i] = t[i]
    BY <1>2, FirstOnes, LenProperties
  <2> HIDE DEF u
  <2>2. s = u <=> \A i \in 1..Len(s) : s[i] = u[i]
    BY <2>1, SeqEqual
  <2> QED BY <1>1, <1>2, <2>1, <2>2 DEF IsPrefix, Begins, u
<1>3. CASE ~(Len(s) <= Len(t))
  BY <1>3 DEF IsPrefix, Begins
<1> QED BY <1>2, <1>3

LEMMA BeginsSame ==
    ASSUME NEW U, NEW s \in Seq(U), NEW t \in Seq(U), Begins(s, t), Len(s) = Len(t)
    PROVE  s = t
  BY SeqEqual DEF Begins

\* The sizes of the units of a text, and of the fields of an answer.
UnitSizes(t) == [i \in DOMAIN t |-> Size(t[i])]
FieldSizes(a) == [i \in DOMAIN a |-> FieldSize(a[i])]

LEMMA TextSizeIsSum ==
    ASSUME NEW t \in Seq(Units)
    PROVE  TextSize(t) = SumOf(UnitSizes(t), DOMAIN t)
<1> DEFINE S == DOMAIN t
           Adds(g) == g = [s \in SUBSET S |->
                            IF s = {} THEN 0 ELSE Size(t[Chosen(s)]) + g[s \ {Chosen(s)}]]
<1>1. IsFiniteSet(S)
  <2>1. S = 1..Len(t) /\ Len(t) \in Int
    BY LenProperties
  <2> QED BY <2>1, FS_Interval
<1>2. TextSize(t) = (CHOOSE g : Adds(g))[S]
  BY Zenon DEF TextSize, FoldSeq, FoldFunction, FoldFunctionOnSet, MapThenFoldSet, Chosen
<1>3. ASSUME NEW g PROVE Adds(g) <=> AddsUp(g, UnitSizes(t), S)
  <2>1. ASSUME NEW s \in SUBSET S
        PROVE  (IF s = {} THEN 0 ELSE Size(t[Chosen(s)]) + g[s \ {Chosen(s)}])
                  = (IF s = {} THEN 0 ELSE UnitSizes(t)[Chosen(s)] + g[s \ {Chosen(s)}])
    <3>1. s # {} => Chosen(s) \in S
      BY ChosenIsIn
    <3>2. s # {} => UnitSizes(t)[Chosen(s)] = Size(t[Chosen(s)])
      BY <3>1 DEF UnitSizes
    <3> QED BY <3>2
  <2> QED BY <2>1, Zenon DEF AddsUp
<1> HIDE DEF Adds, S
<1>4. PICK g : AddsUp(g, UnitSizes(t), S)
  BY <1>1, SumsExist
<1>5. Adds(CHOOSE x : Adds(x))
  <2>1. Adds(g)
    BY <1>3, <1>4
  <2> QED BY <2>1, Zenon
<1>6. PICK h : h = (CHOOSE x : Adds(x))
  OBVIOUS
<1>7. AddsUp(h, UnitSizes(t), S)
  BY <1>3, <1>5, <1>6
<1>8. h[S] = SumOf(UnitSizes(t), S)
  BY <1>1, <1>7, SumOfWhole, Zenon
<1> QED BY <1>2, <1>6, <1>8 DEF S

LEMMA TextSizeIsNat ==
    ASSUME NEW t \in Seq(Units)
    PROVE  TextSize(t) \in Nat
<1>1. DOMAIN t = 1..Len(t) /\ Len(t) \in Nat
  BY LenProperties
<1>2. \A i \in 1..Len(t) : UnitSizes(t)[i] \in Nat
  BY <1>1 DEF UnitSizes, Size
<1>3. SumOf(UnitSizes(t), 1..Len(t)) \in Nat
  BY <1>1, <1>2, SumGrows
<1> QED BY <1>1, <1>3, TextSizeIsSum

LEMMA AnswerSizeIsSum ==
    ASSUME NEW X, NEW a \in Seq(X)
    PROVE  AnswerSize(a) = 1 + SumOf(FieldSizes(a), DOMAIN a)
<1> DEFINE S == DOMAIN a
           Adds(g) == g = [s \in SUBSET S |->
                            IF s = {} THEN 0 ELSE FieldSize(a[Chosen(s)]) + g[s \ {Chosen(s)}]]
<1>1. IsFiniteSet(S)
  <2>1. S = 1..Len(a) /\ Len(a) \in Int
    BY LenProperties
  <2> QED BY <2>1, FS_Interval
<1>2. AnswerSize(a) = 1 + (CHOOSE g : Adds(g))[S]
  BY Zenon DEF AnswerSize, FoldSeq, FoldFunction, FoldFunctionOnSet, MapThenFoldSet, Chosen
<1>3. ASSUME NEW g PROVE Adds(g) <=> AddsUp(g, FieldSizes(a), S)
  <2>1. ASSUME NEW s \in SUBSET S
        PROVE  (IF s = {} THEN 0 ELSE FieldSize(a[Chosen(s)]) + g[s \ {Chosen(s)}])
                  = (IF s = {} THEN 0 ELSE FieldSizes(a)[Chosen(s)] + g[s \ {Chosen(s)}])
    <3>1. s # {} => Chosen(s) \in S
      BY ChosenIsIn
    <3>2. s # {} => FieldSizes(a)[Chosen(s)] = FieldSize(a[Chosen(s)])
      BY <3>1 DEF FieldSizes
    <3> QED BY <3>2
  <2> QED BY <2>1, Zenon DEF AddsUp
<1> HIDE DEF Adds, S
<1>4. PICK g : AddsUp(g, FieldSizes(a), S)
  BY <1>1, SumsExist
<1>5. Adds(CHOOSE x : Adds(x))
  <2>1. Adds(g)
    BY <1>3, <1>4
  <2> QED BY <2>1, Zenon
<1>6. PICK h : h = (CHOOSE x : Adds(x))
  OBVIOUS
<1>7. AddsUp(h, FieldSizes(a), S)
  BY <1>3, <1>5, <1>6
<1>8. h[S] = SumOf(FieldSizes(a), S)
  BY <1>1, <1>7, SumOfWhole, Zenon
<1> QED BY <1>2, <1>6, <1>8 DEF S

Ends(t, n) ==
    {k \in 0..Len(t) : /\ TextSize(SubSeq(t, 1, k)) <= n
                       /\ "half" \notin Range(SubSeq(t, 1, k))}

\* What is whole of a text is its longest beginning that has come in full.
LEMMA WholeIsLongest ==
    ASSUME NEW t \in Seq(Units), NEW n \in Nat
    PROVE  \E k \in Ends(t, n) : /\ Whole(t, n) = SubSeq(t, 1, k)
                                 /\ \A j \in Ends(t, n) : j <= k
<1>1. 0 \in Ends(t, n)
  <2>1. SubSeq(t, 1, 0) = << >> /\ << >> \in Seq(Units)
    BY SubSeqEmpty
  <2>2. TextSize(<< >>) = 0
    <3>1. DOMAIN << >> = 1..0
      BY <2>1, LenProperties, EmptySeq
    <3>2. TextSize(<< >>) = SumOf(UnitSizes(<< >>), 1..0)
      BY <2>1, <3>1, TextSizeIsSum
    <3> QED BY <3>2, SumOfNone
  <2>3. "half" \notin Range(<< >>)
    BY DEF Range
  <2>4. 0 \in 0..Len(t)
    BY LenProperties
  <2>5. TextSize(<< >>) <= n
    BY <2>2
  <2>6. TextSize(SubSeq(t, 1, 0)) <= n /\ "half" \notin Range(SubSeq(t, 1, 0))
    BY <2>1, <2>3, <2>5, Zenon
  <2> QED BY <2>4, <2>6, Zenon DEF Ends
<1>2. Ends(t, n) \in SUBSET (0..Len(t)) /\ Len(t) \in Nat
  BY LenProperties DEF Ends
<1>3. \E k \in Ends(t, n) : \A j \in Ends(t, n) : j <= k
  BY <1>1, <1>2, GreatestNumber
<1> DEFINE k == CHOOSE i \in Ends(t, n) : \A j \in Ends(t, n) : j <= i
<1>4. k \in Ends(t, n) /\ \A j \in Ends(t, n) : j <= k
  BY <1>3, Zenon
<1>5. Whole(t, n) = SubSeq(t, 1, k)
  BY Zenon DEF Whole, Ends
<1> HIDE DEF k
<1> QED BY <1>4, <1>5

\* What is whole grows with what has come, and is no more than the text.
LEMMA WholeGrows ==
    ASSUME NEW t \in Seq(Units), NEW n \in Nat, NEW m \in Nat, n <= m
    PROVE  /\ Whole(t, n) \in Seq(Units) /\ Whole(t, m) \in Seq(Units)
           /\ Begins(Whole(t, n), Whole(t, m)) /\ Begins(Whole(t, n), t)
<1>1. PICK k \in Ends(t, n) : Whole(t, n) = SubSeq(t, 1, k)
  BY WholeIsLongest
<1>2. PICK l \in Ends(t, m) : Whole(t, m) = SubSeq(t, 1, l) /\ \A j \in Ends(t, m) : j <= l
  BY WholeIsLongest
<1>3. k \in 0..Len(t) /\ l \in 0..Len(t) /\ Len(t) \in Nat
  BY LenProperties DEF Ends
<1>4. k \in Ends(t, m)
  <2>1. TextSize(SubSeq(t, 1, k)) <= n /\ TextSize(SubSeq(t, 1, k)) \in Nat
    <3>1. SubSeq(t, 1, k) \in Seq(Units)
      BY <1>3, FirstOnes
    <3> QED BY <1>1, <3>1, TextSizeIsNat DEF Ends
  <2>2. TextSize(SubSeq(t, 1, k)) <= m
    BY <2>1
  <2> QED BY <1>1, <2>2 DEF Ends
<1>5. k <= l
  BY <1>2, <1>4
<1>6. /\ Whole(t, n) \in Seq(Units) /\ Len(Whole(t, n)) = k
      /\ \A i \in 1..k : Whole(t, n)[i] = t[i]
  BY <1>1, <1>3, FirstOnes
<1>7. /\ Whole(t, m) \in Seq(Units) /\ Len(Whole(t, m)) = l
      /\ \A i \in 1..l : Whole(t, m)[i] = t[i]
  BY <1>2, <1>3, FirstOnes
<1> QED BY <1>3, <1>5, <1>6, <1>7 DEF Begins

\* When the quote has come that closes a text, all of it is whole.
LEMMA ClosedIsWhole ==
    ASSUME NEW t \in Seq(Units), NEW n \in Nat, Closed(t, n)
    PROVE  Whole(t, n) = t
<1>1. PICK k \in Ends(t, n) : Whole(t, n) = SubSeq(t, 1, k) /\ \A j \in Ends(t, n) : j <= k
  BY WholeIsLongest
<1>2. SubSeq(t, 1, Len(t)) = t
  BY SubSeqFull
<1>5. k \in 0..Len(t) /\ Len(t) \in Nat
  BY LenProperties DEF Ends
<1>3. Len(t) \in Ends(t, n)
  <2>1. TextSize(t) <= n /\ "half" \notin Range(t)
    BY TextSizeIsNat DEF Closed
  <2>2. TextSize(SubSeq(t, 1, Len(t))) <= n /\ "half" \notin Range(SubSeq(t, 1, Len(t)))
    BY <1>2, <2>1, Zenon
  <2>3. Len(t) \in 0..Len(t)
    BY <1>5
  <2> QED BY <2>2, <2>3, Zenon DEF Ends
<1>4. k = Len(t)
  <2>1. Len(t) <= k
    BY <1>1, <1>3, Zenon
  <2> QED BY <1>5, <2>1
<1> QED BY <1>1, <1>2, <1>4

Solid(t) == {i \in DOMAIN t : t[i] # " "}

\* A trimmed text reaches from the first to the last that is no space.
LEMMA TrimmedReaches ==
    ASSUME NEW t \in Seq(Units)
    PROVE  /\ Solid(t) = {} => Trimmed(t) = << >>
           /\ Solid(t) # {} =>
                /\ Min(Solid(t)) \in 1..Len(t) /\ Max(Solid(t)) \in Min(Solid(t))..Len(t)
                /\ Trimmed(t) \in Seq(Units)
                /\ Len(Trimmed(t)) = Max(Solid(t)) - Min(Solid(t)) + 1
                /\ \A i \in 1..(Max(Solid(t)) - Min(Solid(t)) + 1) :
                      Trimmed(t)[i] = t[Min(Solid(t)) + i - 1]
<1>1. Solid(t) = {} => Trimmed(t) = << >>
  BY DEF Trimmed, Solid
<1>2. ASSUME Solid(t) # {}
      PROVE  /\ Min(Solid(t)) \in 1..Len(t) /\ Max(Solid(t)) \in Min(Solid(t))..Len(t)
             /\ Trimmed(t) \in Seq(Units)
             /\ Len(Trimmed(t)) = Max(Solid(t)) - Min(Solid(t)) + 1
             /\ \A i \in 1..(Max(Solid(t)) - Min(Solid(t)) + 1) :
                   Trimmed(t)[i] = t[Min(Solid(t)) + i - 1]
  <2>1. Solid(t) \in SUBSET (1..Len(t)) /\ Len(t) \in Nat
    BY LenProperties DEF Solid
  <2>2. Solid(t) \in SUBSET Nat /\ Solid(t) \in SUBSET (0..Len(t))
    BY <2>1
  <2>3. Trimmed(t) = SubSeq(t, Min(Solid(t)), Max(Solid(t)))
    BY <1>2, Zenon DEF Trimmed, Solid
  <2> DEFINE m == Min(Solid(t))
             n == Max(Solid(t))
  <2>4. m \in Solid(t) /\ \A x \in Solid(t) : m <= x
    BY <1>2, <2>2, MinOf
  <2>5. n \in Solid(t)
    BY <1>2, <2>1, <2>2, MaxOf
  <2> HIDE DEF m, n
  <2>6. m \in 1..Len(t) /\ n \in m..Len(t)
    BY <2>1, <2>4, <2>5
  <2>7. m \in Int /\ n \in Int /\ \A i \in m..n : t[i] \in Units
    <3>1. \A i \in m..n : i \in 1..Len(t)
      BY <2>1, <2>6
    <3> QED BY <2>1, <2>6, <3>1, ElementOfSeq
  <2>8. /\ SubSeq(t, m, n) \in Seq(Units)
        /\ Len(SubSeq(t, m, n)) = IF m <= n THEN n - m + 1 ELSE 0
        /\ \A i \in 1..(n - m + 1) : SubSeq(t, m, n)[i] = t[m + i - 1]
    BY <2>7, SubSeqProperties
  <2>9. m <= n
    BY <2>1, <2>6
  <2>10. /\ Trimmed(t) \in Seq(Units) /\ Len(Trimmed(t)) = n - m + 1
         /\ \A i \in 1..(n - m + 1) : Trimmed(t)[i] = t[m + i - 1]
    BY <2>3, <2>8, <2>9 DEF m, n
  <2> QED BY <2>6, <2>10 DEF m, n
<1> QED BY <1>1, <1>2

LEMMA EmptyBegins ==
    ASSUME NEW U, NEW s \in Seq(U)
    PROVE  Begins(<< >>, s) /\ << >> \in Seq(Units) /\ (Begins(s, << >>) => s = << >>)
  BY EmptySeq, LenProperties DEF Begins

LEMMA TrimmedGrows ==
    ASSUME NEW s \in Seq(Units), NEW t \in Seq(Units), Begins(s, t)
    PROVE  /\ Trimmed(s) \in Seq(Units) /\ Trimmed(t) \in Seq(Units)
           /\ Begins(Trimmed(s), Trimmed(t))
<1>0. Trimmed(s) \in Seq(Units) /\ Trimmed(t) \in Seq(Units)
  BY TrimmedReaches, EmptyBegins
<1>1. CASE Solid(s) = {}
  <2>1. Trimmed(s) = << >>
    BY <1>1, TrimmedReaches
  <2> QED BY <1>0, <2>1, EmptyBegins
<1>2. CASE Solid(s) # {}
  <2>1. /\ Len(s) \in Nat /\ Len(t) \in Nat /\ Len(s) <= Len(t)
        /\ \A i \in 1..Len(s) : s[i] = t[i]
        /\ DOMAIN s = 1..Len(s) /\ DOMAIN t = 1..Len(t)
    BY LenProperties DEF Begins
  <2>2. Solid(s) = Solid(t) \cap (1..Len(s))
    <3>1. /\ Solid(s) = {i \in 1..Len(s) : s[i] # " "}
          /\ Solid(t) = {i \in 1..Len(t) : t[i] # " "}
      BY <2>1, Zenon DEF Solid
    <3>2. \A i \in 1..Len(s) : i \in 1..Len(t)
      BY <2>1
    <3> QED BY <2>1, <3>1, <3>2
  <2>3. Solid(t) # {} /\ Solid(t) \in SUBSET Nat /\ Solid(s) \in SUBSET Nat
        /\ Solid(t) \in SUBSET (0..Len(t)) /\ Solid(s) \in SUBSET (0..Len(s))
    <3>1. Solid(t) \in SUBSET (1..Len(t)) /\ Solid(s) \in SUBSET (1..Len(s))
      BY <2>1, Zenon DEF Solid
    <3> QED BY <1>2, <2>1, <2>2, <3>1
  <2> DEFINE m == Min(Solid(s))
             n == Max(Solid(s))
             k == Min(Solid(t))
             l == Max(Solid(t))
  <2>4. m \in Solid(s) /\ \A x \in Solid(s) : m <= x
    BY <1>2, <2>3, MinOf
  <2>5. k \in Solid(t) /\ \A x \in Solid(t) : k <= x
    BY <2>3, MinOf
  <2>6. n \in Solid(s)
    BY <1>2, <2>1, <2>3, MaxOf
  <2>7. \A x \in Solid(t) : x <= l
    BY <2>1, <2>3, MaxOf
  <2>8. /\ Trimmed(s) \in Seq(Units) /\ Len(Trimmed(s)) = n - m + 1
        /\ \A i \in 1..(n - m + 1) : Trimmed(s)[i] = s[m + i - 1]
        /\ m \in 1..Len(s) /\ n \in m..Len(s)
    BY <1>2, TrimmedReaches
  <2>9. /\ Trimmed(t) \in Seq(Units) /\ Len(Trimmed(t)) = l - k + 1
        /\ \A i \in 1..(l - k + 1) : Trimmed(t)[i] = t[k + i - 1]
        /\ k \in 1..Len(t) /\ l \in k..Len(t)
    BY <2>3, TrimmedReaches
  <2> HIDE DEF m, n, k, l
  <2>10. m = k
    <3>1. k <= m
      BY <2>2, <2>4, <2>5
    <3>2. k \in Solid(s)
      BY <2>1, <2>2, <2>5, <2>8, <2>9, <3>1
    <3>3. m <= k
      BY <2>4, <3>2
    <3> QED BY <2>1, <2>8, <2>9, <3>1, <3>3
  <2>11. n <= l
    BY <2>2, <2>6, <2>7
  <2>12. ASSUME NEW i \in 1..(n - m + 1) PROVE Trimmed(s)[i] = Trimmed(t)[i]
    <3>1. m + i - 1 \in 1..Len(s) /\ i \in 1..(l - k + 1)
      BY <2>1, <2>8, <2>9, <2>10, <2>11
    <3>2. s[m + i - 1] = t[m + i - 1]
      BY <2>1, <3>1
    <3> QED BY <2>8, <2>9, <2>10, <3>1, <3>2
  <2>13. n - m + 1 <= l - k + 1
    BY <2>1, <2>8, <2>9, <2>10, <2>11
  <2> QED BY <2>8, <2>9, <2>12, <2>13 DEF Begins
<1> QED BY <1>1, <1>2, <1>0

\* A text that is cut is its beginning.
LEMMA CutReaches ==
    ASSUME NEW t \in Seq(Units)
    PROVE  /\ Cut(t) \in Seq(Units)
           /\ Len(Cut(t)) = IF Len(t) <= SummaryLimit THEN Len(t) ELSE SummaryLimit
           /\ \A i \in 1..Len(Cut(t)) : Cut(t)[i] = t[i]
<1>1. CASE Len(t) <= SummaryLimit
  BY <1>1 DEF Cut
<1>2. CASE ~(Len(t) <= SummaryLimit)
  <2>1. SummaryLimit \in 0..Len(t)
    BY <1>2, LenProperties, StreamAssumption
  <2>2. Cut(t) = SubSeq(t, 1, SummaryLimit)
    BY <1>2 DEF Cut
  <2> QED BY <1>2, <2>1, <2>2, FirstOnes
<1> QED BY <1>1, <1>2

LEMMA PresentedGrows ==
    ASSUME NEW s \in Seq(Units), NEW t \in Seq(Units), Begins(s, t)
    PROVE  /\ Presented(s) \in Seq(Units) /\ Presented(t) \in Seq(Units)
           /\ Begins(Presented(s), Presented(t))
<1> DEFINE u == Trimmed(s)
           v == Trimmed(t)
<1>1. u \in Seq(Units) /\ v \in Seq(Units) /\ Begins(u, v)
  BY TrimmedGrows
<1>2. Presented(s) = Cut(u) /\ Presented(t) = Cut(v)
  BY DEF Presented
<1> HIDE DEF u, v
<1>3. /\ Cut(u) \in Seq(Units) /\ \A i \in 1..Len(Cut(u)) : Cut(u)[i] = u[i]
      /\ Len(Cut(u)) = IF Len(u) <= SummaryLimit THEN Len(u) ELSE SummaryLimit
  BY <1>1, CutReaches
<1>4. /\ Cut(v) \in Seq(Units) /\ \A i \in 1..Len(Cut(v)) : Cut(v)[i] = v[i]
      /\ Len(Cut(v)) = IF Len(v) <= SummaryLimit THEN Len(v) ELSE SummaryLimit
  BY <1>1, CutReaches
<1>5. /\ Len(u) \in Nat /\ Len(v) \in Nat /\ Len(u) <= Len(v) /\ SummaryLimit \in Nat
      /\ \A i \in 1..Len(u) : u[i] = v[i]
  BY <1>1, LenProperties, StreamAssumption DEF Begins
<1>6. Len(Cut(u)) <= Len(Cut(v)) /\ Len(Cut(u)) <= Len(u)
      /\ Len(Cut(u)) \in Nat /\ Len(Cut(v)) \in Nat
  BY <1>3, <1>4, <1>5
<1>7. ASSUME NEW i \in 1..Len(Cut(u)) PROVE Cut(u)[i] = Cut(v)[i]
  <2>1. i \in 1..Len(u) /\ i \in 1..Len(Cut(v))
    BY <1>5, <1>6
  <2> QED BY <1>3, <1>4, <1>5, <2>1
<1> QED BY <1>2, <1>3, <1>4, <1>6, <1>7 DEF Begins

LEMMA NothingPresented == Presented(<< >>) = << >>
<1>1. << >> \in Seq(Units) /\ Solid(<< >>) = {}
  BY EmptySeq, LenProperties DEF Solid
<1>2. Trimmed(<< >>) = << >>
  BY <1>1, TrimmedReaches
<1>3. Cut(<< >>) = << >>
  BY StreamAssumption DEF Cut
<1> QED BY <1>2, <1>3 DEF Presented

\* Where the fields of an answer lie.
LEMMA FieldsLie ==
    ASSUME NEW a, IsAnswer(a), NEW i \in DOMAIN a
    PROVE  /\ StartOf(a, i) \in Nat \ {0} /\ ValueSize(a[i]) \in Nat \ {0}
           /\ ValueEnds(a, i) = StartOf(a, i) + 1 + ValueSize(a[i])
           /\ AnswerSize(a) \in Nat /\ ValueEnds(a, i) < AnswerSize(a)
<1> DEFINE X == Range(a)
           N == Len(a)
           F == FieldSizes(a)
           u == SubSeq(a, 1, i - 1)
<1>1. a \in Seq(X) /\ N \in Nat /\ DOMAIN a = 1..N
  BY LenProperties DEF IsAnswer
<1>2. i \in 1..N /\ i - 1 \in 0..N /\ i - 1 \in Nat
  BY <1>1
<1>3. ASSUME NEW j \in 1..N PROVE F[j] = FieldSize(a[j]) /\ FieldSize(a[j]) = ValueSize(a[j]) + 2
                                  /\ ValueSize(a[j]) \in Nat \ {0}
  <2>1. ValueSize(a[j]) \in Nat \ {0}
    <3>1. a[j].name = "summary" => a[j].value \in Seq(Units)
      BY <1>1 DEF IsAnswer
    <3>2. a[j].name = "summary" => TextSize(a[j].value) \in Nat
      BY <3>1, TextSizeIsNat
    <3> QED BY <3>2 DEF ValueSize
  <2>2. F[j] = FieldSize(a[j])
    BY <1>1 DEF FieldSizes
  <2> QED BY <2>1, <2>2 DEF FieldSize, NameSize
<1>4. AnswerSize(a) = 1 + SumOf(F, 1..N)
  BY <1>1, AnswerSizeIsSum
<1>5. StartOf(a, i) = 1 + SumOf(F, 1..(i - 1))
  <2>1. u \in Seq(X) /\ Len(u) = i - 1 /\ \A j \in 1..(i - 1) : u[j] = a[j]
    BY <1>1, <1>2, FirstOnes
  <2>2. DOMAIN u = 1..(i - 1)
    BY <2>1, LenProperties
  <2>3. StartOf(a, i) = AnswerSize(u)
    BY DEF StartOf
  <2> HIDE DEF u, X, N
  <2>4. AnswerSize(u) = 1 + SumOf(FieldSizes(u), 1..(i - 1))
    BY <2>1, <2>2, AnswerSizeIsSum
  <2>5. \A j \in 1..(i - 1) : FieldSizes(u)[j] = F[j]
    <3> SUFFICES ASSUME NEW j \in 1..(i - 1) PROVE FieldSizes(u)[j] = F[j]
      OBVIOUS
    <3>1. FieldSizes(u)[j] = FieldSize(u[j])
      BY <2>2 DEF FieldSizes
    <3>2. F[j] = FieldSize(a[j])
      <4>1. j \in 1..N
        BY <1>1, <1>2
      <4> QED BY <1>3, <4>1
    <3>3. u[j] = a[j]
      BY <2>1
    <3> QED BY <3>1, <3>2, <3>3
  <2> HIDE DEF F
  <2>6. IsFiniteSet(1..(i - 1))
    BY <1>2, FS_Interval
  <2>7. PICK g : g = FieldSizes(u)
    OBVIOUS
  <2>8. SumOf(g, 1..(i - 1)) = SumOf(F, 1..(i - 1))
    BY <2>5, <2>6, <2>7, SumsSame
  <2> QED BY <2>3, <2>4, <2>7, <2>8
<1> HIDE DEF F, N, X
<1>6. \A j \in 1..N : F[j] \in Nat
  BY <1>3
<1>7. SumOf(F, 1..i) = F[i] + SumOf(F, 1..(i - 1))
  <2>1. \A j \in 1..(i - 1 + 1) : F[j] \in Int
    BY <1>1, <1>2, <1>6
  <2>2. SumOf(F, 1..(i - 1 + 1)) = F[i - 1 + 1] + SumOf(F, 1..(i - 1))
    BY <1>2, <2>1, SumOfNext, SMTT(30)
  <2>3. i - 1 + 1 = i
    BY <1>1, <1>2
  <2> QED BY <2>2, <2>3
<1>8. SumOf(F, 1..(i - 1)) \in Nat /\ SumOf(F, 1..N) \in Nat
  BY <1>1, <1>2, <1>6, SumGrows, SMTT(30)
<1>9. SumOf(F, 1..i) <= SumOf(F, 1..N) /\ SumOf(F, 1..i) \in Nat
  <2>1. i \in 0..N
    BY <1>1, <1>2
  <2> QED BY <1>1, <1>6, <2>1, SumGrows, SMTT(30)
<1>10. ValueEnds(a, i) = StartOf(a, i) + 1 + ValueSize(a[i])
  BY DEF ValueEnds, NameSize
<1>11. F[i] = ValueSize(a[i]) + 2 /\ ValueSize(a[i]) \in Nat \ {0}
  BY <1>2, <1>3
<1> QED BY <1>4, <1>5, <1>7, <1>8, <1>9, <1>10, <1>11

Late(a, n) ==
    {i \in ReadInFull(a, n, "summary") :
       /\ a[i].value # << >>
       /\ \E j \in ReadInFull(a, n, "relevant") : j > i /\ a[j].value}
Open(a, n) ==
    {i \in DOMAIN a : /\ a[i].name = "summary"
                      /\ StartOf(a, i) + NameSize < n
                      /\ SaidRelevant(a, n, i)}
TextComes(a, n, i) == n - (StartOf(a, i) + NameSize) - 1

\* What the finished answer shows: its summary, if it is relevant.
FullText(a) == IF ValueOf(a, "relevant", FALSE) THEN ValueOf(a, "summary", << >>) ELSE << >>

\* An answer has one field of a name.
LEMMA ValueIs ==
    ASSUME NEW a, IsAnswer(a), NEW name \in {"relevant", "summary"}, NEW default,
           NEW i \in DOMAIN a, a[i].name = name
    PROVE  ValueOf(a, name, default) = a[i].value
<1> DEFINE named == {j \in DOMAIN a : a[j].name = name}
<1>1. \A j \in named : j = i
  BY DEF IsAnswer
<1>2. i \in named
  OBVIOUS
<1>3. named # {} /\ (CHOOSE j \in named : TRUE) = i
  <2>1. (CHOOSE j \in named : TRUE) \in named
    BY <1>2
  <2> QED BY <1>1, <1>2, <2>1
<1>4. ValueOf(a, name, default) = IF named = {} THEN default ELSE a[CHOOSE j \in named : TRUE].value
  BY DEF ValueOf
<1> HIDE DEF named
<1> QED BY <1>3, <1>4

LEMMA NoValue ==
    ASSUME NEW a, NEW name, NEW default, \A i \in DOMAIN a : a[i].name # name
    PROVE  ValueOf(a, name, default) = default
  BY DEF ValueOf

\* A summary is read when it lies before or behind what says that the answer is relevant.
LEMMA ReadOrder ==
    ASSUME NEW a, IsAnswer(a), NEW n, NEW i \in Late(a, n) \cup Open(a, n)
    PROVE  /\ i \in DOMAIN a /\ a[i].name = "summary" /\ a[i].value \in Seq(Units)
           /\ \E j \in DOMAIN a : a[j].name = "relevant" /\ a[j].value
           /\ FullText(a) = a[i].value
<1>1. i \in DOMAIN a /\ a[i].name = "summary" /\ a[i].value \in Seq(Units)
  BY DEF Late, Open, ReadInFull, IsAnswer
<1>2. PICK j \in DOMAIN a : a[j].name = "relevant" /\ a[j].value
  BY DEF Late, Open, ReadInFull, SaidRelevant
<1>3. a[j].value = TRUE
  BY <1>2 DEF IsAnswer
<1>4. ValueOf(a, "relevant", FALSE) = TRUE
  BY <1>2, <1>3, ValueIs
<1>5. ValueOf(a, "summary", << >>) = a[i].value
  BY <1>1, ValueIs
<1> QED BY <1>1, <1>2, <1>4, <1>5 DEF FullText

LEMMA OneIsRead ==
    ASSUME NEW a, IsAnswer(a), NEW n, NEW m
    PROVE  /\ \A i, j \in Late(a, n) \cup Open(a, m) : i = j
           /\ Late(a, n) = {} \/ Open(a, m) = {}
<1>1. \A i \in Late(a, n) \cup Open(a, m) : i \in DOMAIN a /\ a[i].name = "summary"
  BY DEF Late, Open, ReadInFull
<1>2. \A i, j \in Late(a, n) \cup Open(a, m) : i = j
  BY <1>1 DEF IsAnswer
<1>3. ASSUME NEW i \in Late(a, n), i \in Open(a, m) PROVE FALSE
  <2>1. PICK j \in DOMAIN a : a[j].name = "relevant" /\ j > i
    BY DEF Late, ReadInFull
  <2>2. PICK k \in DOMAIN a : a[k].name = "relevant" /\ k < i
    BY <1>3 DEF Open, SaidRelevant, ReadInFull
  <2>3. j = k
    BY <2>1, <2>2 DEF IsAnswer
  <2>4. i \in Nat /\ j \in Nat
    <3>1. a \in Seq(Range(a)) /\ i \in DOMAIN a
      BY DEF IsAnswer, Late, ReadInFull
    <3>2. DOMAIN a = 1..Len(a) /\ Len(a) \in Nat
      BY <3>1, LenProperties
    <3> QED BY <2>1, <3>1, <3>2
  <2> QED BY <2>1, <2>2, <2>3, <2>4
<1> QED BY <1>2, <1>3

\* What is read of the summary in the first n symbols.
LEMMA PartialReads ==
    ASSUME NEW a, IsAnswer(a), NEW n
    PROVE  /\ \A i \in Late(a, n) : PartialSummary(a, n) = [text |-> a[i].value, final |-> TRUE]
           /\ \A i \in Open(a, n) :
                PartialSummary(a, n) = [text |-> Whole(a[i].value, TextComes(a, n, i)),
                                        final |-> Closed(a[i].value, TextComes(a, n, i))]
           /\ Late(a, n) = {} /\ Open(a, n) = {} => PartialSummary(a, n) = Nothing
<1> DEFINE late == Late(a, n)
           open == Open(a, n)
<1>1. PartialSummary(a, n) =
        IF late # {} THEN [text |-> a[CHOOSE i \in late : TRUE].value, final |-> TRUE]
        ELSE IF open # {}
             THEN [text |-> Whole(a[CHOOSE i \in open : TRUE].value,
                                  TextComes(a, n, CHOOSE i \in open : TRUE)),
                   final |-> Closed(a[CHOOSE i \in open : TRUE].value,
                                    TextComes(a, n, CHOOSE i \in open : TRUE))]
        ELSE Nothing
  BY Zenon DEF PartialSummary, Late, Open, TextComes
<1>2. \A i, j \in late \cup open : i = j
  BY OneIsRead
<1>3. late = {} \/ open = {}
  BY OneIsRead
<1> HIDE DEF late, open
<1>4. ASSUME NEW i \in late PROVE (CHOOSE j \in late : TRUE) = i
  <2>1. (CHOOSE j \in late : TRUE) \in late
    BY <1>4
  <2> QED BY <1>2, <2>1
<1>5. ASSUME NEW i \in open PROVE (CHOOSE j \in open : TRUE) = i
  <2>1. (CHOOSE j \in open : TRUE) \in open
    BY <1>5
  <2> QED BY <1>2, <2>1
<1>6. ASSUME NEW i \in late
      PROVE  PartialSummary(a, n) = [text |-> a[i].value, final |-> TRUE]
  BY <1>1, <1>4, Zenon
<1>7. ASSUME NEW i \in open
      PROVE  PartialSummary(a, n) = [text |-> Whole(a[i].value, TextComes(a, n, i)),
                                     final |-> Closed(a[i].value, TextComes(a, n, i))]
  <2>1. late = {} /\ open # {}
    BY <1>3
  <2> QED BY <1>1, <1>5, <2>1, Zenon
<1> QED BY <1>1, <1>6, <1>7 DEF late, open

LEMMA FullTextType ==
    ASSUME NEW a, IsAnswer(a)
    PROVE  FullText(a) \in Seq(Units)
<1>1. << >> \in Seq(Units)
  BY EmptySeq
<1>2. ValueOf(a, "summary", << >>) \in Seq(Units)
  <2>1. CASE \A i \in DOMAIN a : a[i].name # "summary"
    BY <1>1, <2>1, NoValue
  <2>2. CASE \E i \in DOMAIN a : a[i].name = "summary"
    <3>1. PICK i \in DOMAIN a : a[i].name = "summary"
      BY <2>2
    <3>2. ValueOf(a, "summary", << >>) = a[i].value
      BY <3>1, ValueIs
    <3> QED BY <3>1, <3>2 DEF IsAnswer
  <2> QED BY <2>1, <2>2
<1> QED BY <1>1, <1>2 DEF FullText

\* What has come of an open summary is some of it.
LEMMA TextHasCome ==
    ASSUME NEW a, IsAnswer(a), NEW n \in Nat, NEW i \in Open(a, n)
    PROVE  TextComes(a, n, i) \in Nat
<1>1. i \in DOMAIN a /\ StartOf(a, i) + NameSize < n
  BY DEF Open
<1>2. StartOf(a, i) \in Nat
  BY <1>1, FieldsLie
<1> QED BY <1>1, <1>2 DEF TextComes, NameSize

\* Symbols that came stay: what could be read can be read later.
LEMMA ReadOn ==
    ASSUME NEW a, IsAnswer(a), NEW n \in Nat, NEW m \in Nat, n <= m
    PROVE  Late(a, n) \subseteq Late(a, m) /\ Open(a, n) \subseteq Open(a, m)
<1>1. ASSUME NEW name PROVE ReadInFull(a, n, name) \subseteq ReadInFull(a, m, name)
  <2> SUFFICES ASSUME NEW i \in DOMAIN a, a[i].name = name, ValueEnds(a, i) <= n
               PROVE  ValueEnds(a, i) <= m
    BY DEF ReadInFull
  <2>1. ValueEnds(a, i) \in Int
    BY FieldsLie
  <2> QED BY <2>1
<1>2. Late(a, n) \subseteq Late(a, m)
  BY <1>1 DEF Late
<1>3. ASSUME NEW i \in Open(a, n) PROVE i \in Open(a, m)
  <2>1. i \in DOMAIN a /\ a[i].name = "summary" /\ StartOf(a, i) + NameSize < n
        /\ SaidRelevant(a, n, i)
    BY DEF Open
  <2>2. StartOf(a, i) \in Nat
    BY <2>1, FieldsLie
  <2>3. StartOf(a, i) + NameSize < m
    BY <2>1, <2>2 DEF NameSize
  <2>4. SaidRelevant(a, m, i)
    BY <1>1, <2>1 DEF SaidRelevant
  <2> QED BY <2>1, <2>3, <2>4 DEF Open
<1> QED BY <1>2, <1>3

LEMMA BeginsItself ==
    ASSUME NEW U, NEW s \in Seq(U)
    PROVE  Begins(s, s)
  BY LenProperties DEF Begins

\* What is read of the summary grows, stands once it is final, and is part of the whole.
LEMMA PartialGrows ==
    ASSUME NEW a, IsAnswer(a), NEW n \in Nat, NEW m \in Nat, n <= m
    PROVE  LET s == PartialSummary(a, n)
               t == PartialSummary(a, m) IN
           /\ s.text \in Seq(Units) /\ t.text \in Seq(Units)
           /\ Begins(s.text, t.text) /\ Begins(s.text, FullText(a))
           /\ s.final \in BOOLEAN
           /\ s.final => t.final /\ s.text = FullText(a)
           /\ s.text # << >> => \E j \in DOMAIN a : a[j].name = "relevant" /\ a[j].value
<1> DEFINE s == PartialSummary(a, n)
           t == PartialSummary(a, m)
<1>1. CASE \E i \in Late(a, n) : TRUE
  <2>1. PICK i \in Late(a, n) : i \in Late(a, m)
    BY <1>1, ReadOn
  <2>2. /\ s = [text |-> a[i].value, final |-> TRUE]
        /\ t = [text |-> a[i].value, final |-> TRUE]
    BY <2>1, PartialReads
  <2>3. a[i].value \in Seq(Units) /\ FullText(a) = a[i].value
        /\ \E j \in DOMAIN a : a[j].name = "relevant" /\ a[j].value
    BY <2>1, ReadOrder
  <2> HIDE DEF s, t
  <2>4. s.text = a[i].value /\ t.text = a[i].value /\ s.final = TRUE /\ t.final = TRUE
    BY <2>2
  <2> QED BY <2>3, <2>4, BeginsItself DEF s, t
<1>2. CASE \E i \in Open(a, n) : TRUE
  <2>1. PICK i \in Open(a, n) : i \in Open(a, m)
    BY <1>2, ReadOn
  <2> DEFINE v == a[i].value
             c == TextComes(a, n, i)
             d == TextComes(a, m, i)
  <2>2. /\ s = [text |-> Whole(v, c), final |-> Closed(v, c)]
        /\ t = [text |-> Whole(v, d), final |-> Closed(v, d)]
    BY <2>1, PartialReads
  <2>3. v \in Seq(Units) /\ FullText(a) = v
        /\ \E j \in DOMAIN a : a[j].name = "relevant" /\ a[j].value
    BY <2>1, ReadOrder
  <2>4. c \in Nat /\ d \in Nat
    BY <2>1, TextHasCome
  <2>5. c <= d
    <3>1. i \in DOMAIN a /\ StartOf(a, i) \in Nat
      BY <2>1, FieldsLie DEF Open
    <3> QED BY <3>1 DEF TextComes, NameSize
  <2> HIDE DEF s, t, v, c, d
  <2>6. s.text = Whole(v, c) /\ t.text = Whole(v, d) /\ s.final = Closed(v, c)
        /\ t.final = Closed(v, d)
    BY <2>2
  <2>7. /\ Whole(v, c) \in Seq(Units) /\ Whole(v, d) \in Seq(Units)
        /\ Begins(Whole(v, c), Whole(v, d)) /\ Begins(Whole(v, c), v)
    BY <2>3, <2>4, <2>5, WholeGrows
  <2>8. Closed(v, c) => Closed(v, d) /\ Whole(v, c) = v
    <3>1. TextSize(v) \in Nat
      BY <2>3, TextSizeIsNat
    <3>2. Closed(v, c) => Closed(v, d)
      BY <2>4, <2>5, <3>1 DEF Closed
    <3>3. Closed(v, c) => Whole(v, c) = v
      BY <2>3, <2>4, ClosedIsWhole
    <3> QED BY <3>2, <3>3
  <2>9. Closed(v, c) \in BOOLEAN
    BY DEF Closed
  <2> QED BY <2>3, <2>6, <2>7, <2>8, <2>9 DEF s, t
<1>3. CASE Late(a, n) = {} /\ Open(a, n) = {}
  <2>1. s = Nothing
    BY <1>3, PartialReads
  <2> HIDE DEF s
  <2>2. s.text = << >> /\ s.final = FALSE
    BY <2>1 DEF Nothing
  <2>3. t.text \in Seq(Units)
    <3>1. CASE \E i \in Late(a, m) : TRUE
      <4>1. PICK i \in Late(a, m) : TRUE
        BY <3>1
      <4>2. t = [text |-> a[i].value, final |-> TRUE] /\ a[i].value \in Seq(Units)
        BY PartialReads, ReadOrder
      <4> QED BY <4>2
    <3>2. CASE \E i \in Open(a, m) : TRUE
      <4>1. PICK i \in Open(a, m) : TRUE
        BY <3>2
      <4> DEFINE d == TextComes(a, m, i)
      <4>2. /\ t = [text |-> Whole(a[i].value, d), final |-> Closed(a[i].value, d)]
            /\ a[i].value \in Seq(Units) /\ d \in Nat
        BY PartialReads, ReadOrder, TextHasCome
      <4>3. Whole(a[i].value, d) \in Seq(Units)
        <5> HIDE DEF d
        <5> QED BY <4>2, WholeGrows
      <4> QED BY <4>2, <4>3
    <3>3. CASE Late(a, m) = {} /\ Open(a, m) = {}
      <4>1. t = Nothing
        BY <3>3, PartialReads
      <4> QED BY <4>1, EmptySeq DEF Nothing
    <3> QED BY <3>1, <3>2, <3>3
  <2> HIDE DEF t
  <2>4. << >> \in Seq(Units) /\ Begins(<< >>, t.text) /\ Begins(<< >>, FullText(a))
    BY <2>3, EmptyBegins, FullTextType
  <2> QED BY <2>2, <2>3, <2>4 DEF s, t
<1> QED BY <1>1, <1>2, <1>3

\* Before anything has come nothing is read.
LEMMA NothingReadFirst ==
    ASSUME NEW a, IsAnswer(a)
    PROVE  PartialSummary(a, 0) = Nothing
<1>1. Open(a, 0) = {}
  <2> SUFFICES ASSUME NEW i \in DOMAIN a, StartOf(a, i) + NameSize < 0 PROVE FALSE
    BY DEF Open
  <2> QED BY FieldsLie DEF NameSize
<1>2. Late(a, 0) = {}
  <2> SUFFICES ASSUME NEW i \in DOMAIN a, ValueEnds(a, i) <= 0 PROVE FALSE
    BY DEF Late, ReadInFull
  <2> QED BY FieldsLie
<1> QED BY <1>1, <1>2, PartialReads

\* When all has come all is read, unless half a pair stopped the reading.
LEMMA AllIsRead ==
    ASSUME NEW a, IsAnswer(a), ~HasHalf(a)
    PROVE  PartialSummary(a, AnswerSize(a)).text = FullText(a)
<1> DEFINE n == AnswerSize(a)
           t == PartialSummary(a, n)
<1>1. CASE \E i \in Late(a, n) : TRUE
  <2>1. PICK i \in Late(a, n) : TRUE
    BY <1>1
  <2>2. t = [text |-> a[i].value, final |-> TRUE] /\ FullText(a) = a[i].value
    BY PartialReads, ReadOrder
  <2> QED BY <2>2
<1>2. CASE \E i \in Open(a, n) : TRUE
  <2>1. PICK i \in Open(a, n) : TRUE
    BY <1>2
  <2> DEFINE v == a[i].value
             c == TextComes(a, n, i)
  <2>2. t = [text |-> Whole(v, c), final |-> Closed(v, c)] /\ FullText(a) = v
        /\ i \in DOMAIN a /\ a[i].name = "summary" /\ v \in Seq(Units)
    BY PartialReads, ReadOrder
  <2>3. /\ StartOf(a, i) \in Nat /\ n \in Nat /\ ValueSize(a[i]) \in Nat
        /\ StartOf(a, i) + 1 + ValueSize(a[i]) < n
    BY <2>2, FieldsLie
  <2>4. ValueSize(a[i]) = TextSize(v) + 2 /\ TextSize(v) \in Nat
    BY <2>2, TextSizeIsNat DEF ValueSize
  <2> HIDE DEF v, n, t
  <2>5. c \in Nat /\ c > TextSize(v)
    BY <2>3, <2>4 DEF TextComes, NameSize
  <2>6. "half" \notin Range(v)
    BY <2>2 DEF HasHalf, v
  <2> HIDE DEF c
  <2>7. Closed(v, c)
    BY <2>5, <2>6 DEF Closed
  <2>8. Whole(v, c) = v
    BY <2>2, <2>5, <2>7, ClosedIsWhole
  <2>9. t.text = Whole(v, c)
    BY <2>2
  <2> QED BY <2>2, <2>8, <2>9 DEF n, t
<1>3. CASE Late(a, n) = {} /\ Open(a, n) = {}
  <2>1. t.text = << >>
    BY <1>3, PartialReads DEF Nothing
  <2>2. ASSUME FullText(a) # << >> PROVE FALSE
    <3>1. ValueOf(a, "relevant", FALSE) /\ ValueOf(a, "summary", << >>) # << >>
          /\ FullText(a) = ValueOf(a, "summary", << >>)
      BY <2>2 DEF FullText
    <3>2. PICK i \in DOMAIN a : a[i].name = "summary"
      BY <3>1, NoValue
    <3>3. PICK j \in DOMAIN a : a[j].name = "relevant"
      BY <3>1, NoValue
    <3>4. a[i].value # << >> /\ a[j].value
      <4>1. ValueOf(a, "summary", << >>) = a[i].value
        BY <3>2, ValueIs
      <4>2. ValueOf(a, "relevant", FALSE) = a[j].value
        BY <3>3, ValueIs
      <4> QED BY <3>1, <4>1, <4>2
    <3>5. /\ i \in ReadInFull(a, n, "summary") /\ j \in ReadInFull(a, n, "relevant")
          /\ StartOf(a, i) + NameSize < n
      <4>1. ValueEnds(a, i) < n /\ ValueEnds(a, j) < n /\ n \in Nat
            /\ StartOf(a, i) \in Nat /\ StartOf(a, j) \in Nat
            /\ ValueSize(a[i]) \in Nat \ {0} /\ ValueSize(a[j]) \in Nat \ {0}
            /\ ValueEnds(a, i) = StartOf(a, i) + 1 + ValueSize(a[i])
            /\ ValueEnds(a, j) = StartOf(a, j) + 1 + ValueSize(a[j])
        BY FieldsLie
      <4> HIDE DEF n
      <4>2. ValueEnds(a, i) <= n /\ ValueEnds(a, j) <= n
        BY <4>1
      <4>3. StartOf(a, i) + NameSize < n
        BY <4>1 DEF NameSize
      <4> QED BY <3>2, <3>3, <4>2, <4>3 DEF ReadInFull
    <3>6. i \in Nat /\ j \in Nat /\ i # j
      <4>1. a \in Seq(Range(a))
        BY DEF IsAnswer
      <4>2. DOMAIN a = 1..Len(a) /\ Len(a) \in Nat
        BY <4>1, LenProperties
      <4> QED BY <3>2, <3>3, <4>2
    <3> HIDE DEF n
    <3>7. CASE j < i
      BY <1>3, <3>2, <3>4, <3>5, <3>7 DEF Open, SaidRelevant
    <3>8. CASE j > i
      BY <1>3, <3>4, <3>5, <3>8 DEF Late
    <3> QED BY <3>6, <3>7, <3>8
  <2> QED BY <2>1, <2>2
<1> QED BY <1>1, <1>2, <1>3

StreamTypeOK ==
    /\ answer \in Answers
    /\ received \in Nat
    /\ shown \in Seq(Seq(Units))
    /\ settled \in BOOLEAN

ReadText == PartialSummary(answer, received).text

\* The last summary shown is what can be read now, and nothing that was final is read again;
\* this is what makes the growth inductive, whatever piece comes next.
ShownIsRead ==
    /\ LastShown = Presented(ReadText)
    /\ settled => PartialSummary(answer, received).final

\* Each summary says more than the one before.
ShownGrows ==
    /\ shown # << >> => Last(shown) # << >>
    /\ \A i \in 2..Len(shown) : IsStrictPrefix(shown[i - 1], shown[i])

DoneIsWhole ==
    stream = "done" => received = AnswerSize(answer) /\ result = ResultOf(answer)

StreamInv == StreamTypeOK /\ ShownIsRead /\ ShownGrows /\ DoneIsWhole

LEMMA AnswerIsOne == StreamTypeOK => IsAnswer(answer)
  BY StreamAssumption DEF StreamTypeOK

LEMMA LastShownType ==
    ASSUME StreamTypeOK
    PROVE  /\ shown = << >> => LastShown = << >>
           /\ shown # << >> => Last(shown) \in Seq(Units) /\ LastShown = Last(shown)
                                /\ Last(shown) = shown[Len(shown)] /\ Len(shown) \in Nat \ {0}
<1>1. shown # << >> => Len(shown) \in 1..Len(shown) /\ Len(shown) \in Nat \ {0}
  BY EmptySeq, LenProperties DEF StreamTypeOK
<1>2. shown # << >> => shown[Len(shown)] \in Seq(Units)
  BY <1>1, ElementOfSeq DEF StreamTypeOK
<1> QED BY <1>1, <1>2 DEF LastShown, Last

LEMMA StreamBegins == StreamInit => StreamInv
<1> SUFFICES ASSUME StreamInit PROVE StreamInv
  OBVIOUS
<1>1. StreamTypeOK
  BY EmptySeq DEF StreamInit, StreamTypeOK
<1>2. ReadText = << >>
  <2>1. PartialSummary(answer, 0) = Nothing
    BY <1>1, AnswerIsOne, NothingReadFirst
  <2> QED BY <2>1 DEF ReadText, StreamInit, Nothing
<1>3. LastShown = << >> /\ ~settled
  BY DEF StreamInit, LastShown
<1>4. ShownIsRead
  BY <1>2, <1>3, NothingPresented DEF ShownIsRead
<1>5. ShownGrows
  <2>1. shown = << >> /\ Len(shown) = 0
    BY EmptySeq DEF StreamInit
  <2> QED BY <2>1 DEF ShownGrows
<1> QED BY <1>1, <1>4, <1>5 DEF StreamInv, DoneIsWhole, StreamInit

LEMMA PieceKeeps ==
    ASSUME StreamInv, NEW k \in Pieces, PieceComes(k)
    PROVE  StreamInv'
<1> DEFINE n == received + k
           old == PartialSummary(answer, received)
           new == PartialSummary(answer, n)
           text == Presented(new.text)
<1>0. /\ stream = "open" /\ received' = n /\ answer' = answer /\ stream' = stream
      /\ result' = result
      /\ settled' = (settled \/ new.final)
      /\ shown' = IF settled \/ text = << >> \/ text = LastShown THEN shown ELSE Append(shown, text)
  BY DEF PieceComes
<1>1. IsAnswer(answer) /\ received \in Nat /\ n \in Nat /\ received <= n /\ settled \in BOOLEAN
      /\ shown \in Seq(Seq(Units)) /\ answer \in Answers
  BY AnswerIsOne, StreamAssumption DEF StreamInv, StreamTypeOK
<1>2. /\ old.text \in Seq(Units) /\ new.text \in Seq(Units) /\ Begins(old.text, new.text)
      /\ old.final => new.final /\ old.text = FullText(answer)
      /\ Begins(new.text, FullText(answer))
      /\ new.final \in BOOLEAN
      /\ new.final => new.text = FullText(answer)
  <2>1. /\ old.text \in Seq(Units) /\ new.text \in Seq(Units) /\ Begins(old.text, new.text)
        /\ old.final => new.final /\ old.text = FullText(answer)
    BY <1>1, PartialGrows
  <2>2. /\ Begins(new.text, FullText(answer))
        /\ new.final \in BOOLEAN
        /\ new.final => new.text = FullText(answer)
    BY <1>1, PartialGrows
  <2> QED BY <2>1, <2>2
<1> DEFINE before == Presented(old.text)
<1>3. before \in Seq(Units) /\ text \in Seq(Units) /\ Begins(before, text)
  BY <1>2, PresentedGrows
<1>4. LastShown = before /\ (settled => old.final)
  BY DEF StreamInv, ShownIsRead, ReadText
<1>5. settled => text = before
  BY <1>2, <1>4
<1>6. text = << >> => before = << >>
  BY <1>3, EmptyBegins
<1>7. /\ ReadText' = new.text
      /\ PartialSummary(answer, received)' = new
  BY <1>0 DEF ReadText
<1>8. DoneIsWhole'
  BY <1>0 DEF DoneIsWhole
<1> HIDE DEF n, old, new, text, before
<1>9. CASE shown' = shown
  <2>1. text = LastShown
    BY <1>0, <1>4, <1>5, <1>6, <1>9, AppendProperties
  <2>2. LastShown' = LastShown
    BY <1>9 DEF LastShown
  <2>3. ShownIsRead'
    <3>1. settled' => new.final
      BY <1>0, <1>2, <1>4
    <3> QED BY <1>7, <2>1, <2>2, <3>1 DEF ShownIsRead, text
  <2>4. StreamTypeOK'
    BY <1>0, <1>1, <1>2, <1>9 DEF StreamTypeOK
  <2>5. ShownGrows'
    BY <1>9 DEF StreamInv, ShownGrows
  <2> QED BY <1>8, <2>3, <2>4, <2>5 DEF StreamInv
<1>10. CASE shown' # shown
  <2>1. ~settled /\ text # << >> /\ text # before /\ shown' = Append(shown, text)
    BY <1>0, <1>4, <1>10
  <2>2. /\ shown' \in Seq(Seq(Units)) /\ Len(shown') = Len(shown) + 1
        /\ \A i \in 1..Len(shown) : shown'[i] = shown[i]
        /\ shown'[Len(shown) + 1] = text /\ shown' # << >> /\ Len(shown) \in Nat
    BY <1>1, <1>3, <2>1, AppendProperties, LenProperties
  <2>3. Last(shown') = text /\ LastShown' = text
    BY <2>2 DEF Last, LastShown
  <2>4. ShownIsRead'
    <3>1. settled' => new.final
      BY <1>0, <2>1
    <3> QED BY <1>7, <2>3, <3>1 DEF ShownIsRead, text
  <2>5. StreamTypeOK'
    BY <1>0, <1>1, <1>2, <2>2 DEF StreamTypeOK
  <2>6. ASSUME NEW i \in 2..Len(shown') PROVE IsStrictPrefix(shown'[i - 1], shown'[i])
    <3>1. CASE i <= Len(shown)
      <4>1. i \in 2..Len(shown) /\ i \in 1..Len(shown) /\ i - 1 \in 1..Len(shown)
        BY <2>2, <3>1
      <4>2. IsStrictPrefix(shown[i - 1], shown[i])
        BY <4>1 DEF StreamInv, ShownGrows
      <4> QED BY <2>2, <4>1, <4>2
    <3>2. CASE i = Len(shown) + 1
      <4>1. shown # << >> /\ i - 1 = Len(shown) /\ Len(shown) \in 1..Len(shown)
        BY <2>2, <3>2, EmptySeq
      <4>2. shown'[i] = text
        BY <2>2, <3>2
      <4>3. shown[Len(shown)] = before
        BY <1>4, <4>1 DEF LastShown, Last
      <4>4. shown'[i - 1] = before
        BY <2>2, <4>1, <4>3
      <4>5. IsPrefix(before, text)
        BY <1>3, BeginsIsPrefix
      <4> QED BY <2>1, <4>2, <4>4, <4>5 DEF IsStrictPrefix
    <3>3. i <= Len(shown) \/ i = Len(shown) + 1
      BY <2>2, <2>6
    <3> QED BY <3>1, <3>2, <3>3
  <2>7. ShownGrows'
    <3>1. Last(shown)' # << >>
      BY <2>1, <2>3
    <3> QED BY <2>6, <3>1 DEF ShownGrows
  <2> QED BY <1>8, <2>4, <2>5, <2>7 DEF StreamInv
<1> QED BY <1>9, <1>10

LEMMA StreamStays ==
    ASSUME StreamInv, answer' = answer, received' = received, shown' = shown, settled' = settled,
           DoneIsWhole'
    PROVE  StreamInv'
<1>1. LastShown' = LastShown /\ ReadText' = ReadText
      /\ PartialSummary(answer, received)' = PartialSummary(answer, received)
  BY DEF LastShown, ReadText
<1>2. ShownIsRead'
  BY <1>1 DEF StreamInv, ShownIsRead
<1>3. StreamTypeOK' /\ ShownGrows'
  BY DEF StreamInv, StreamTypeOK, ShownGrows
<1> QED BY <1>2, <1>3 DEF StreamInv

LEMMA StreamInvHolds == StreamSpec => []StreamInv
<1>1. StreamInv /\ [StreamNext]_streamVars => StreamInv'
  <2> SUFFICES ASSUME StreamInv, [StreamNext]_streamVars PROVE StreamInv'
    OBVIOUS
  <2>1. ASSUME NEW k \in Pieces, PieceComes(k) PROVE StreamInv'
    BY <2>1, PieceKeeps
  <2>2. CASE StreamFails
    <3>1. answer' = answer /\ received' = received /\ shown' = shown /\ settled' = settled
          /\ DoneIsWhole'
      BY <2>2 DEF StreamFails, DoneIsWhole
    <3> QED BY <3>1, StreamStays
  <2>3. CASE StreamEnds
    <3>1. answer' = answer /\ received' = received /\ shown' = shown /\ settled' = settled
          /\ DoneIsWhole'
      BY <2>3 DEF StreamEnds, DoneIsWhole
    <3> QED BY <3>1, StreamStays
  <2>4. CASE UNCHANGED streamVars
    <3>1. answer' = answer /\ received' = received /\ shown' = shown /\ settled' = settled
          /\ DoneIsWhole'
      BY <2>4 DEF streamVars, DoneIsWhole, StreamInv
    <3> QED BY <3>1, StreamStays
  <2> QED BY <2>1, <2>2, <2>3, <2>4 DEF StreamNext
<1> QED BY <1>1, StreamBegins, PTL DEF StreamSpec

LEMMA StreamInvIsTrue ==
    ASSUME StreamInv
    PROVE  SummariesAreTrue
<1> DEFINE a == answer
           s == PartialSummary(a, received)
<1>1. IsAnswer(a) /\ received \in Nat
  BY AnswerIsOne DEF StreamInv, StreamTypeOK
<1>2. /\ s.text \in Seq(Units) /\ Begins(s.text, FullText(a))
      /\ s.text # << >> => \E j \in DOMAIN a : a[j].name = "relevant" /\ a[j].value
  BY <1>1, PartialGrows
<1>3. LastShown = Presented(s.text)
  BY DEF StreamInv, ShownIsRead, ReadText
<1>4. stream = "done" => result.summary = Presented(FullText(a))
  <2>1. ResultOf(a).summary = IF ValueOf(a, "relevant", FALSE)
                              THEN Presented(ValueOf(a, "summary", << >>)) ELSE << >>
    BY DEF ResultOf
  <2>2. ResultOf(a).summary = Presented(FullText(a))
    BY <2>1, NothingPresented DEF FullText
  <2> QED BY <2>2 DEF StreamInv, DoneIsWhole
<1>5. /\ Presented(s.text) \in Seq(Units) /\ Presented(FullText(a)) \in Seq(Units)
      /\ Begins(Presented(s.text), Presented(FullText(a)))
  BY <1>1, <1>2, FullTextType, PresentedGrows
<1>6. /\ shown # << >> => Last(shown) = LastShown /\ LastShown # << >>
  BY LastShownType DEF StreamInv, ShownGrows
<1> HIDE DEF s
<1>7. SummariesGrow
  <2>1. stream = "done" /\ shown # << >> => IsPrefix(Last(shown), result.summary)
    BY <1>3, <1>4, <1>5, <1>6, BeginsIsPrefix
  <2> QED BY <2>1 DEF StreamInv, ShownGrows, SummariesGrow
<1>8. OnlyRelevantIsShown
  <2>1. shown # << >> => s.text # << >>
    BY <1>3, <1>6, NothingPresented
  <2> QED BY <1>2, <2>1 DEF OnlyRelevantIsShown
<1>9. AllIsShown
  <2> SUFFICES ASSUME stream = "done", ~HasHalf(a) PROVE LastShown = result.summary
    BY DEF AllIsShown
  <2>1. received = AnswerSize(a)
    BY DEF StreamInv, DoneIsWhole
  <2>2. s.text = FullText(a)
    BY <1>1, <2>1, AllIsRead DEF s
  <2> QED BY <1>3, <1>4, <2>2
<1> QED BY <1>7, <1>8, <1>9 DEF SummariesAreTrue

\* What is shown of a summary while it is written only grows and is never taken back, nothing
\* is shown of an answer that is not relevant, and the end brings all of it, for any answers
\* and however they are cut into pieces (ChatJSONStream, partialSummary).
THEOREM SummariesStayTrue == StreamSpec => []SummariesAreTrue
BY StreamInvHolds, StreamInvIsTrue, PTL

=============================================================================
