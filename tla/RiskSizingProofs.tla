-------------------------- MODULE RiskSizingProofs --------------------------
(***************************************************************************)
(* The bounds of an order hold for both order types and any quotes,        *)
(* portfolio, limits, fee, rounding and prices of execution: IInv is an    *)
(* inductive invariant of RiskSizing.                                      *)
(*                                                                         *)
(* The first sections are arithmetic: what the sizes of risk.assess bound, *)
(* and what a fill does to exposure and equity.  No order spends more than *)
(* its quantity at the price it was sized with, and what a buy is counted  *)
(* for, its windfall left out, is worth at most as much.  Products are     *)
(* bounded one factor at a time.                                           *)
(***************************************************************************)
EXTENDS RiskSizing, SumTheorems

-----------------------------------------------------------------------------
\* Numbers.

\* The limits of the configuration are fractions.
LEMMA Limits ==
  /\ Den \in Nat \ {0} /\ Fee \in 0..Den /\ MaxMove \in 0..Den
  /\ MaxPortfolio \in 0..Den /\ MaxAsset \in 0..Den /\ MaxAsset <= MaxPortfolio
  /\ MaxOrder \in Nat /\ MaxBase \in Nat /\ MinBase \in Nat \ {0} /\ QuoteStep \in Nat \ {0}
  /\ \A target \in Targets \union {0} : target \in 0..Den
  BY RiskAssumption

\* What the rounding of a division keeps.
LEMMA Quotient ==
  ASSUME NEW n \in Int, NEW d \in Nat \ {0}
  PROVE  /\ n \div d \in Int /\ (n \div d) * d <= n
         /\ n >= 0 => n \div d \in Nat
  OBVIOUS

\* A product grows with a factor.
LEMMA Product ==
  ASSUME NEW a \in Int, NEW b \in Int, NEW c \in Nat, a <= b
  PROVE  a * c <= b * c
  OBVIOUS

\* The least of some amounts is one of them and at most each.
LEMMA LeastOfTwo ==
  ASSUME NEW a \in Int, NEW b \in Int
  PROVE  /\ Least({a, b}) \in {a, b}
         /\ Least({a, b}) <= a /\ Least({a, b}) <= b
<1>1. \E n \in {a, b} : \A m \in {a, b} : n <= m
  OBVIOUS
<1> QED BY <1>1 DEF Least

\* The same of three.
LEMMA LeastOfThree ==
  ASSUME NEW a \in Int, NEW b \in Int, NEW c \in Int
  PROVE  /\ Least({a, b, c}) \in {a, b, c}
         /\ Least({a, b, c}) <= a /\ Least({a, b, c}) <= b /\ Least({a, b, c}) <= c
<1>1. \E n \in {a, b, c} : \A m \in {a, b, c} : n <= m
  OBVIOUS
<1> QED BY <1>1 DEF Least

\* The same of four.
LEMMA LeastOfFour ==
  ASSUME NEW a \in Int, NEW b \in Int, NEW c \in Int, NEW d \in Int
  PROVE  /\ Least({a, b, c, d}) \in {a, b, c, d}
         /\ Least({a, b, c, d}) <= a /\ Least({a, b, c, d}) <= b
         /\ Least({a, b, c, d}) <= c /\ Least({a, b, c, d}) <= d
<1>1. \E n \in {a, b, c, d} : \A m \in {a, b, c, d} : n <= m
  OBVIOUS
<1> QED BY <1>1 DEF Least

-----------------------------------------------------------------------------
\* Quotes and limit prices.

\* The mid price lies between bid and ask.
LEMMA Quotes ==
  ASSUME NEW bid \in Bids
  PROVE  /\ bid \in Nat \ {0} /\ Ask(bid) \in Nat \ {0} /\ Mid(bid) \in Nat \ {0}
         /\ Unit * bid <= Mid(bid) /\ Mid(bid) <= Unit * Ask(bid)
<1>1. bid \in Nat \ {0} /\ Spread \in Nat /\ Den \in Nat \ {0}
  BY RiskAssumption
<1>2. Den * Spread \in Nat /\ Den * bid \in Nat \ {0}
  BY <1>1
<1> QED BY <1>1, <1>2 DEF Ask, Mid, Unit

\* A limit is a price on the far side of the market.
LEMMA LimitPrice ==
  ASSUME NEW buy \in BOOLEAN, NEW bid \in Bids
  PROVE  /\ Limit(buy, bid) \in Nat \ {0}
         /\ buy => Ask(bid) <= Limit(buy, bid)
         /\ ~buy => Limit(buy, bid) <= bid
<1>1. /\ bid \in Nat \ {0} /\ Ask(bid) \in Nat \ {0}
      /\ Den \in Nat \ {0} /\ Distance \in 0..(Den - 1)
  BY Quotes, RiskAssumption DEF Distance
<1>2. CASE buy
  <2>1. Ask(bid) * Den <= Ask(bid) * (Den + Distance) /\ Ask(bid) * (Den + Distance) \in Nat
    BY <1>1
  <2>2. Ask(bid) <= (Ask(bid) * (Den + Distance)) \div Den
    BY <1>1, <2>1
  <2> QED BY <1>1, <1>2, <2>1, <2>2, Quotient DEF Limit
<1>3. CASE ~buy
  <2> DEFINE n == bid * (Den - Distance)
  <2>1. n \in Nat \ {0} /\ n <= bid * Den
    BY <1>1
  <2>2. Limit(buy, bid) = (n + Den - 1) \div Den
    BY <1>3 DEF Limit, RoundedUp
  <2> HIDE DEF n
  <2>3. (n + Den - 1) \div Den \in Nat \ {0}
    BY <1>1, <2>1
  <2>4. (n + Den - 1) \div Den <= bid
    BY <1>1, <2>1
  <2> QED BY <1>3, <2>2, <2>3, <2>4
<1> QED BY <1>2, <1>3

-----------------------------------------------------------------------------
\* What the sizes of an order bound.

\* Bought at the limit, fee paid, the exposure is at most the target.
LEMMA RoomBound ==
  ASSUME NEW target \in 0..Den, NEW equity \in Int, NEW exposure \in Int, NEW price \in Nat \ {0}
  PROVE  /\ Room(target, equity, exposure, price) \in Int
         /\ \A q \in Int : q <= Room(target, equity, exposure, price) =>
              2 * q * price * (Den * Den + target * Fee) <= target * equity - Den * exposure
<1> DEFINE weight == price * (Den * Den + target * Fee)
           excess == target * equity - Den * exposure
           room == Room(target, equity, exposure, price)
<1>1. Den \in Nat \ {0} /\ Fee \in Nat /\ target \in Nat
  BY RiskAssumption
<1>2. weight \in Nat \ {0} /\ excess \in Int
  BY <1>1
<1>3. Unit * price * (Den * Den + target * Fee) = (2 * Den) * weight
  BY <1>1 DEF Unit
<1>4. room = (Den * excess) \div ((2 * Den) * weight)
  BY <1>3 DEF Room
<1> HIDE DEF weight, excess, room
<1>5. (2 * Den) * weight \in Nat \ {0} /\ Den * excess \in Int
  BY <1>1, <1>2
<1>6. room \in Int /\ room * ((2 * Den) * weight) <= Den * excess
  BY <1>4, <1>5, Quotient
<1>7. ASSUME NEW q \in Int, q <= room PROVE 2 * q * weight <= excess
  <2>1. q * ((2 * Den) * weight) <= room * ((2 * Den) * weight)
    BY <1>5, <1>6, <1>7, Product
  <2>2. Den * (2 * q * weight) <= Den * excess
    BY <1>1, <1>2, <1>5, <1>6, <2>1
  <2> QED BY <1>1, <1>2, <2>2
<1>8. ASSUME NEW q \in Int, q <= room
      PROVE  2 * q * price * (Den * Den + target * Fee) <= target * equity - Den * exposure
  <2>1. 2 * q * (price * (Den * Den + target * Fee)) <= target * equity - Den * exposure
    BY <1>7, <1>8 DEF weight, excess
  <2> QED BY <1>1, <2>1
<1> QED BY <1>6, <1>8 DEF room

\* What is bought at the limit can be paid, with its fee.
LEMMA CapacityBound ==
  ASSUME cash \in Nat, NEW price \in Nat \ {0}
  PROVE  /\ Capacity(price) \in Nat
         /\ \A q \in Int : q <= Capacity(price) => 2 * q * price * (Den + Fee) <= cash
<1> DEFINE cost == price * (Den + Fee)
           capacity == Capacity(price)
<1>1. Den \in Nat \ {0} /\ Fee \in Nat
  BY RiskAssumption
<1>2. cost \in Nat \ {0} /\ Unit * price * (Den + Fee) = (2 * Den) * cost
  BY <1>1 DEF Unit
<1>3. capacity = (Den * cash) \div ((2 * Den) * cost)
  BY <1>2 DEF Capacity
<1> HIDE DEF cost, capacity
<1>4. (2 * Den) * cost \in Nat \ {0} /\ Den * cash \in Nat
  BY <1>1, <1>2
<1>5. capacity \in Nat /\ capacity * ((2 * Den) * cost) <= Den * cash
  BY <1>3, <1>4, Quotient
<1>6. ASSUME NEW q \in Int, q <= capacity PROVE 2 * q * cost <= cash
  <2>1. q * ((2 * Den) * cost) <= capacity * ((2 * Den) * cost)
    BY <1>4, <1>5, <1>6, Product
  <2>2. Den * (2 * q * cost) <= Den * cash
    BY <1>1, <1>2, <1>4, <1>5, <2>1
  <2> QED BY <1>1, <1>2, <2>2
<1>7. ASSUME NEW q \in Int, q <= capacity PROVE 2 * q * price * (Den + Fee) <= cash
  <2>1. 2 * q * (price * (Den + Fee)) <= cash
    BY <1>6, <1>7 DEF cost
  <2> QED BY <1>1, <2>1
<1> QED BY <1>5, <1>7 DEF capacity

\* What is left after a sale is worth at least the target.
LEMMA SurplusBound ==
  ASSUME NEW target \in 0..Den, NEW equity \in Int, NEW held \in Nat, NEW mid \in Nat \ {0}
  PROVE  /\ Surplus(target, equity, held, mid) \in Int
         /\ \A q \in Int : q <= Surplus(target, equity, held, mid) =>
              target * equity <= Den * (held - q) * mid
<1> DEFINE price == mid * Den
           excess == held * mid * Den - target * equity
           surplus == Surplus(target, equity, held, mid)
<1>1. Den \in Nat \ {0} /\ target \in Nat
  BY RiskAssumption
<1>2. price \in Nat \ {0} /\ excess \in Int /\ surplus = excess \div price
  BY <1>1 DEF Surplus
<1> HIDE DEF price, excess, surplus
<1>3. surplus \in Int /\ surplus * price <= excess
  BY <1>2, Quotient
<1>4. ASSUME NEW q \in Int, q <= surplus PROVE target * equity <= Den * (held - q) * mid
  <2>1. q * price <= surplus * price
    BY <1>2, <1>3, <1>4, Product
  <2>2. q * price <= excess
    BY <1>2, <1>3, <2>1
  <2>3. q * (mid * Den) <= held * mid * Den - target * equity
    BY <2>2 DEF price, excess
  <2> QED BY <1>1, <2>3
<1> QED BY <1>3, <1>4 DEF surplus

-----------------------------------------------------------------------------
\* Exposure and equity.

\* What a position is worth.
LEMMA MarkedPositions ==
  ASSUME NEW amounts \in [Assets -> Nat], NEW b \in [Assets -> Bids], NEW a \in Assets
  PROVE  amounts[a] * Mid(b[a]) \in Nat
<1>1. amounts[a] \in Nat /\ Mid(b[a]) \in Nat \ {0}
  BY Quotes
<1> QED BY <1>1

\* What the positions of a portfolio are worth together.
LEMMA ExposureNat ==
  ASSUME positions \in [Assets -> Nat], NEW b \in [Assets -> Bids]
  PROVE  Exposure(b) \in Nat
<1> DEFINE f == [a \in Assets |-> positions[a] * Mid(b[a])]
<1>1. \A a \in Assets : f[a] \in Nat
  BY MarkedPositions
<1> HIDE DEF f
<1>2. SumFunctionOnSet(f, Assets) \in Nat
  BY <1>1, SumNat, RiskAssumption
<1> QED BY <1>2 DEF Exposure, f

\* A fill changes the exposure of the portfolio by what it changes of its asset.
LEMMA ExposureFilled ==
  ASSUME positions \in [Assets -> Nat], book \in [Assets -> Bids], asset \in Assets,
         NEW n \in Nat, positions' = [positions EXCEPT ![asset] = n], book' = book
  PROVE  /\ Exposure(book)' = Exposure(book) + (n - positions[asset]) * Mid(book[asset])
         /\ Exposure(book)' \in Nat
<1> DEFINE f == [a \in Assets |-> positions[a] * Mid(book[a])]
           g == [a \in Assets |-> positions'[a] * Mid(book[a])]
<1>1. positions' \in [Assets -> Nat] /\ positions'[asset] = n
  OBVIOUS
<1>2. \A a \in Assets : f[a] \in Nat /\ g[a] \in Nat
  BY <1>1, MarkedPositions
<1>3. \A a \in Assets \ {asset} : f[a] = g[a]
  OBVIOUS
<1>4. f[asset] = positions[asset] * Mid(book[asset]) /\ g[asset] = n * Mid(book[asset])
  BY <1>1
<1>5. Exposure(book) = SumFunctionOnSet(f, Assets) /\ Exposure(book)' = SumFunctionOnSet(g, Assets)
  BY DEF Exposure, Mid, Ask
<1> HIDE DEF f, g
<1>6. SumFunctionOnSet(g, Assets) = SumFunctionOnSet(f, Assets) - f[asset] + g[asset]
  BY <1>2, <1>3, SumReplace, RiskAssumption
<1>7. Mid(book[asset]) \in Nat /\ positions[asset] \in Nat /\ SumFunctionOnSet(f, Assets) \in Int
  BY <1>5, Quotes, ExposureNat
<1>8. SumFunctionOnSet(g, Assets) \in Nat
  BY <1>2, SumNat, RiskAssumption
<1> QED BY <1>4, <1>5, <1>6, <1>7, <1>8

-----------------------------------------------------------------------------
\* risk.assess.

\* An approved quantity is within each of the sizes.
LEMMA ApprovedBound ==
  ASSUME TypeOK, asset \in Assets, NEW b \in [Assets -> Bids], NEW bid \in Bids
  PROVE  LET price == Limit(decision.buy, bid)
             held == positions[asset]
             q == Approved(b, bid)
         IN  /\ q \in Nat
             /\ q <= MaxOrder \div price
             /\ q > 0 /\ decision.buy =>
                  /\ q <= Room(Least({decision.target, MaxAsset}), Equity(b), held * Mid(bid), price)
                  /\ q <= Room(MaxPortfolio, Equity(b), Exposure(b), price)
                  /\ q <= Capacity(price)
             /\ q > 0 /\ ~decision.buy =>
                  /\ q <= Surplus(decision.target, Equity(b), held, Mid(bid))
                  /\ q <= held
<1> DEFINE price == Limit(decision.buy, bid)
           held == positions[asset]
           target == Least({decision.target, MaxAsset})
           assetRoom == Room(target, Equity(b), held * Mid(bid), price)
           totalRoom == Room(MaxPortfolio, Equity(b), Exposure(b), price)
           surplus == Surplus(decision.target, Equity(b), held, Mid(bid))
           q == Approved(b, bid)
<1>1. /\ decision.buy \in BOOLEAN /\ decision.target \in 0..Den /\ cash \in Nat
      /\ MaxAsset \in 0..Den /\ MaxPortfolio \in 0..Den /\ MaxOrder \in Nat /\ MaxBase \in Nat
      /\ positions \in [Assets -> Nat] /\ held \in Nat /\ Den \in Nat \ {0}
  BY Limits DEF TypeOK
<1>2. price \in Nat \ {0} /\ Mid(bid) \in Nat \ {0} /\ held * Mid(bid) \in Nat
  BY <1>1, LimitPrice, Quotes
<1>3. target \in 0..Den
  <2> DEFINE asked == decision.target
  <2>1. asked \in Int /\ MaxAsset \in Int
    BY <1>1
  <2> HIDE DEF asked
  <2>2. Least({asked, MaxAsset}) \in {asked, MaxAsset}
    BY <2>1, LeastOfTwo
  <2> QED BY <1>1, <2>2 DEF asked
<1>4. Exposure(b) \in Nat /\ Equity(b) \in Int
  BY <1>1, ExposureNat DEF Equity
<1>5. \A t \in 0..Den, e \in Int, x \in Int : Room(t, e, x, price) \in Int
  <2> HIDE DEF price
  <2> QED BY <1>2, RoomBound
<1>6. assetRoom \in Int /\ totalRoom \in Int
  <2> DEFINE total == Equity(b)
             marked == held * Mid(bid)
             exposed == Exposure(b)
  <2>1. total \in Int /\ marked \in Int /\ exposed \in Int
    BY <1>2, <1>4
  <2> HIDE DEF price, target, total, marked, exposed
  <2>2. Room(target, total, marked, price) \in Int /\ Room(MaxPortfolio, total, exposed, price) \in Int
    BY <1>1, <1>3, <1>5, <2>1
  <2> QED BY <2>2 DEF total, marked, exposed
<1>7. surplus \in Int /\ Capacity(price) \in Nat
  BY <1>1, <1>2, <1>4, SurplusBound, CapacityBound
<1>8. MaxOrder \div price \in Nat
  BY <1>1, <1>2, Quotient
<1>9. ASSUME NEW want \in Int, NEW n \in Nat, NEW m \in Nat,
             q = Least({AtLeastZero(want), n, m, MaxBase})
      PROVE  q \in Nat /\ q <= n /\ q <= m /\ (q > 0 => q <= want)
  <2> HIDE DEF price, held, target, assetRoom, totalRoom, surplus, q
  <2>1. AtLeastZero(want) \in Nat /\ (AtLeastZero(want) > 0 => AtLeastZero(want) = want)
    BY DEF AtLeastZero
  <2> DEFINE w == AtLeastZero(want)
  <2>2. /\ q = Least({w, n, m, MaxBase}) /\ MaxBase \in Nat /\ w \in Nat
        /\ w \in Int /\ n \in Int /\ m \in Int /\ MaxBase \in Int
    BY <1>1, <1>9, <2>1
  <2> HIDE DEF w
  <2>3. /\ q \in {w, n, m, MaxBase}
        /\ q <= w /\ q <= n /\ q <= m
    BY <2>2, LeastOfFour, ZenonT(60)
  <2> QED BY <2>1, <2>2, <2>3 DEF w
<1>10. CASE decision.buy
  <2> DEFINE wanted == Least({assetRoom, totalRoom})
             most == MaxOrder \div price
             can == Capacity(price)
  <2>1. q = Least({AtLeastZero(wanted), can, most, MaxBase})
    BY <1>10 DEF Approved
  <2> HIDE DEF price, held, target, assetRoom, totalRoom, surplus, q
  <2>2. wanted \in {assetRoom, totalRoom} /\ wanted <= assetRoom /\ wanted <= totalRoom
    BY <1>6, LeastOfTwo
  <2>3. wanted \in Int /\ can \in Nat /\ most \in Nat
    BY <1>6, <1>7, <1>8, <2>2
  <2> HIDE DEF wanted, most, can
  <2>4. q \in Nat /\ q <= can /\ q <= most /\ (q > 0 => q <= wanted)
    BY <1>9, <2>1, <2>3
  <2>5. q > 0 => q <= assetRoom /\ q <= totalRoom
    BY <1>6, <2>2, <2>3, <2>4
  <2> QED BY <1>10, <2>4, <2>5 DEF price, held, target, assetRoom, totalRoom, q, most, can
<1>11. CASE ~decision.buy
  <2> DEFINE most == MaxOrder \div price
  <2>1. q = Least({AtLeastZero(surplus), held, most, MaxBase})
    BY <1>11 DEF Approved
  <2> HIDE DEF price, held, target, assetRoom, totalRoom, surplus, q
  <2>2. most \in Nat /\ held \in Nat /\ surplus \in Int
    BY <1>1, <1>7, <1>8
  <2> HIDE DEF most
  <2>3. q \in Nat /\ q <= held /\ q <= most /\ (q > 0 => q <= surplus)
    BY <1>9, <2>1, <2>2
  <2> QED BY <1>11, <2>3 DEF price, held, surplus, q, most
<1> QED BY <1>10, <1>11

-----------------------------------------------------------------------------
\* What a fill does.

\* When no more is spent than the size allows, and it buys no more than it spends, the target holds
\* of what is then owned.
LEMMA Bought ==
  ASSUME NEW target \in 0..Den, NEW marked \in Nat, NEW total \in Int,
         NEW spent \in Nat, NEW value \in Nat, NEW worth \in Nat,
         value <= spent, worth <= Unit * spent,
         2 * spent * (Den * Den + target * Fee) <= target * total - Den * marked
  PROVE  Den * (marked + worth) <= target * (total + worth - value * Unit - 2 * value * Fee)
<1> DEFINE rest == Den - target
           rate == 2 * target * (Den + Fee)
<1>1. Den \in Nat /\ Fee \in Nat /\ target \in Nat /\ rest \in Nat /\ rate \in Nat
  <2>1. Den \in Nat /\ Fee \in Nat /\ target \in Nat /\ target <= Den
    BY RiskAssumption
  <2> QED BY <2>1
<1>2. worth * rest <= (Unit * spent) * rest
  <2> HIDE DEF rest
  <2>1. Unit * spent \in Nat
    BY <1>1 DEF Unit
  <2> QED BY <1>1, <2>1, Product
<1>3. value * rate <= spent * rate
  <2> HIDE DEF rate
  <2> QED BY <1>1, Product
<1>4. (Unit * spent) * rest + spent * rate = 2 * spent * (Den * Den + target * Fee)
  BY <1>1 DEF Unit
<1>5. worth * rest = Den * worth - target * worth
  BY <1>1
<1>6. value * rate = target * (value * Unit + 2 * value * Fee)
  BY <1>1 DEF Unit
<1>7. target * (total + worth - value * Unit - 2 * value * Fee)
        = target * total + target * worth - value * rate
  BY <1>1, <1>6 DEF Unit
<1>8. Den * (marked + worth) = Den * marked + Den * worth
  BY <1>1
<1> DEFINE a == target * total
           b == target * worth
           c == Den * marked
           d == Den * worth
           e == (Unit * spent) * rest
           f == spent * rate
           g == value * rate
<1>9. /\ a \in Int /\ b \in Int /\ c \in Int /\ d \in Int /\ e \in Int /\ f \in Int /\ g \in Int
      /\ d - b <= e /\ g <= f /\ e + f <= a - c
  BY <1>1, <1>2, <1>3, <1>4, <1>5 DEF Unit
<1>10. c + d <= a + b - g
  <2> HIDE DEF a, b, c, d, e, f, g
  <2> QED BY <1>9
<1> QED BY <1>7, <1>8, <1>10

\* And is paid for.
LEMMA Paid ==
  ASSUME NEW money \in Nat, NEW spent \in Nat, NEW value \in Nat,
         value <= spent, 2 * spent * (Den + Fee) <= money
  PROVE  money - value * Unit - 2 * value * Fee \in Nat
<1> DEFINE rate == 2 * (Den + Fee)
<1>1. Den \in Nat /\ Fee \in Nat /\ rate \in Nat
  BY RiskAssumption
<1>2. value * rate = value * Unit + 2 * value * Fee /\ spent * rate = 2 * spent * (Den + Fee)
  BY <1>1 DEF Unit
<1>3. value * Unit \in Nat /\ 2 * value * Fee \in Nat
  BY <1>1 DEF Unit
<1>4. value * rate <= spent * rate
  <2> HIDE DEF rate
  <2> QED BY <1>1, Product
<1> QED BY <1>1, <1>2, <1>3, <1>4

\* A sale yields more than its fee.
LEMMA Sold ==
  ASSUME NEW value \in Nat
  PROVE  value * Unit - 2 * value * Fee \in Nat
<1> DEFINE twice == 2 * value
<1>1. Den \in Nat /\ Fee \in Nat /\ Fee <= Den /\ twice \in Nat
  BY RiskAssumption
<1>2. Fee * twice <= Den * twice /\ Fee * twice \in Nat /\ Den * twice \in Nat
  <2> HIDE DEF twice
  <2> QED BY <1>1, Product
<1>3. value * Unit = Den * twice /\ 2 * value * Fee = Fee * twice
  BY <1>1 DEF Unit
<1> QED BY <1>2, <1>3

-----------------------------------------------------------------------------
\* The invariant.

\* Nothing is approved or sent at first.
LEMMA InitKeeps == Init => IInv
<1> SUFFICES ASSUME Init PROVE IInv
  OBVIOUS
<1>1. /\ asset = 1 /\ stage = "assess" /\ decision = NoDecision /\ intent = NoIntent
      /\ fill = NoFill /\ orderType \in OrderTypes
      /\ snapshot \in [Assets -> Bids] /\ book \in [Assets -> Bids] /\ positions \in [Assets -> Holdings]
  BY DEF Init
<1>2. positions \in [Assets -> Nat]
  BY <1>1, RiskAssumption
<1>3. cash \in Nat
  <2>1. PICK amount \in CashAmounts : cash = amount * Unit
    BY DEF Init
  <2>2. amount \in Nat /\ Unit \in Nat
    BY Limits, RiskAssumption DEF Unit
  <2> QED BY <2>1, <2>2
<1>4. 1 \in Assets
  <2>1. Cardinality(Assets) \in Nat /\ Assets = 1..Cardinality(Assets) /\ Assets # {}
    BY RiskAssumption, FS_CardinalityType
  <2> QED BY <2>1
<1> QED BY <1>1, <1>2, <1>3, <1>4
        DEF IInv, TypeOK, Priced, Allowed, ExposureBounded, TargetNotCrossed, NoDecision, NoIntent, NoFill

\* Outside the fills, what an action leaves alone stays in its type.
LEMMA AssessKeeps ==
  ASSUME IInv, Assess
  PROVE  IInv'
<1>1. PICK buy \in BOOLEAN, target \in Targets : decision' = [buy |-> buy, target |-> target]
  BY DEF Assess
<1>2. stage = "assess" /\ stage' = "assessed" /\ UNCHANGED <<orderType, asset, snapshot, book, cash, positions, intent, fill>>
  BY DEF Assess
<1>3. TypeOK'
  BY <1>1, <1>2 DEF IInv, TypeOK
<1> QED BY <1>2, <1>3 DEF IInv, Priced, Allowed, ExposureBounded, TargetNotCrossed

\* The next asset of the batch begins with nothing decided.
LEMMA NextAssetType ==
  ASSUME TypeOK, NextAsset, UNCHANGED <<orderType, cash, positions, snapshot>>,
         book' \in [Assets -> Bids]
  PROVE  TypeOK' /\ stage' \in {"assess", "done"}
<1>1. asset' \in Nat \ {0} /\ (stage' # "done" => asset' \in Assets) /\ stage' \in {"assess", "done"}
  BY DEF TypeOK, NextAsset
<1>2. decision' \in [buy : BOOLEAN, target : Targets \union {0}]
  BY DEF NextAsset, NoDecision
<1>3. intent' \in [base : Nat, quote : Nat, limit : Nat, reference : Nat]
  BY DEF NextAsset, NoIntent
<1>4. fill' \in [base : Nat, value : Nat]
  BY DEF NextAsset, NoFill
<1> QED BY <1>1, <1>2, <1>3, <1>4 DEF TypeOK

\* Neither a rejection nor a new valuation leaves an order behind.
LEMMA MovesOn ==
  ASSUME IInv, Pass \/ Revalue
  PROVE  IInv'
<1>1. NextAsset /\ UNCHANGED <<orderType, snapshot, cash, positions>> /\ book' \in [Assets -> Bids]
  BY DEF Pass, Revalue, IInv, TypeOK
<1>2. TypeOK' /\ stage' \in {"assess", "done"}
  BY <1>1, NextAssetType DEF IInv
<1> QED BY <1>2 DEF IInv, Priced, Allowed, ExposureBounded, TargetNotCrossed

\* The end of the cycle leaves nothing to say of its order.
LEMMA AbortKeeps ==
  ASSUME IInv, Abort
  PROVE  IInv'
<1>1. TypeOK' /\ stage' = "done"
  BY DEF IInv, TypeOK, Abort
<1> QED BY <1>1 DEF IInv, Priced, Allowed, ExposureBounded, TargetNotCrossed

\* An order approved on a portfolio and a quote.
LEMMA AssessedOrder ==
  ASSUME TypeOK, asset \in Assets, NEW b \in [Assets -> Bids], NEW bid \in Bids
  PROVE  LET order == Assessed(b, bid)
         IN  /\ order \in [base : Nat, quote : Nat, limit : Nat \ {0}, reference : Nat]
             /\ order.base = Approved(b, bid) /\ order.limit = Limit(decision.buy, bid)
             /\ order.quote <= order.base * order.limit
<1> DEFINE price == Limit(decision.buy, bid)
           base == Approved(b, bid)
           worth == base * price
<1>1. price \in Nat \ {0} /\ bid \in Nat
  BY LimitPrice, Quotes DEF TypeOK
<1>2. base \in Nat
  BY ApprovedBound
<1>3. Stepped(worth) \in Nat /\ Stepped(worth) <= worth
  <2>1. worth \in Nat /\ QuoteStep \in Nat \ {0}
    BY <1>1, <1>2, Limits
  <2> HIDE DEF worth
  <2>2. worth \div QuoteStep \in Nat /\ (worth \div QuoteStep) * QuoteStep <= worth
    BY <2>1, Quotient
  <2> QED BY <2>1, <2>2 DEF Stepped
<1>4. Assessed(b, bid) = [base |-> base, quote |-> Stepped(worth), limit |-> price, reference |-> bid]
  BY DEF Assessed
<1> HIDE DEF price, base
<1> QED BY <1>1, <1>2, <1>3, <1>4 DEF price, base

\* An approved order is worth at least the quote amount it is approved with.
LEMMA ApproveKeeps ==
  ASSUME IInv, Approve
  PROVE  IInv'
<1>1. /\ stage = "assessed" /\ stage' = "guard" /\ intent' = Assessed(book, snapshot[asset])
      /\ UNCHANGED <<orderType, asset, snapshot, book, cash, positions, decision, fill>>
  BY DEF Approve
<1>2. TypeOK /\ asset \in Assets /\ snapshot[asset] \in Bids /\ book \in [Assets -> Bids]
  BY <1>1 DEF IInv, TypeOK
<1>3. /\ intent' \in [base : Nat, quote : Nat, limit : Nat \ {0}, reference : Nat]
      /\ intent'.quote <= intent'.base * intent'.limit
  BY <1>1, <1>2, AssessedOrder
<1>4. TypeOK'
  BY <1>1, <1>2, <1>3 DEF TypeOK
<1> QED BY <1>1, <1>3, <1>4 DEF IInv, Priced, Allowed, ExposureBounded, TargetNotCrossed

\* The order the guard sends is within what was assessed anew, and worth at most what was approved.
LEMMA GuardedOrder ==
  ASSUME IInv, Guard
  PROVE  /\ intent' \in [base : Nat, quote : Nat, limit : Nat, reference : Nat]
         /\ intent'.base \in 1..Approved(book', book'[asset])
         /\ intent'.limit = Limit(decision.buy, book'[asset])
         /\ intent'.quote <= intent'.base * intent'.limit
         /\ intent'.base * intent'.limit <= intent.base * intent.limit
<1> DEFINE order == Assessed(book', book'[asset])
           most == intent.quote \div order.limit
           base == Least({intent.base, order.base, most})
           stepped == Stepped(base * order.limit)
           quote == Least({intent.quote, order.quote, stepped})
<1>1. /\ stage = "guard" /\ book' \in [Assets -> Bids] /\ Sufficient(intent')
      /\ intent' = Capped(intent, order)
  BY DEF Guard
<1>2. /\ TypeOK /\ asset \in Assets /\ book'[asset] \in Bids
      /\ intent.quote <= intent.base * intent.limit
      /\ intent.base \in Nat /\ intent.quote \in Nat /\ intent.limit \in Nat /\ intent.reference \in Nat
  BY <1>1 DEF IInv, TypeOK, Priced
<1>3. /\ order.base \in Nat /\ order.quote \in Nat /\ order.limit \in Nat \ {0}
      /\ order.base = Approved(book', book'[asset]) /\ order.limit = Limit(decision.buy, book'[asset])
  BY <1>1, <1>2, AssessedOrder
<1>4. intent' = [base |-> base, limit |-> order.limit, reference |-> intent.reference, quote |-> quote]
  BY <1>1 DEF Capped
<1> HIDE DEF order
<1>5. most \in Nat /\ most * order.limit <= intent.quote
  BY <1>2, <1>3, Quotient
<1> HIDE DEF most
<1>6. base \in {intent.base, order.base, most} /\ base <= order.base /\ base <= most
  <2> DEFINE a == intent.base
             b == order.base
  <2>1. a \in Int /\ b \in Int /\ most \in Int
    BY <1>2, <1>3, <1>5
  <2> HIDE DEF a, b
  <2>2. /\ Least({a, b, most}) \in {a, b, most}
        /\ Least({a, b, most}) <= b /\ Least({a, b, most}) <= most
    BY <2>1, LeastOfThree
  <2> QED BY <2>2 DEF a, b
<1>7. base \in Nat
  BY <1>2, <1>3, <1>5, <1>6
<1> HIDE DEF base
<1>8. quote \in Nat /\ quote <= base * order.limit
  <2> DEFINE a == intent.quote
             b == order.quote
             worth == base * order.limit
  <2>1. a \in Nat /\ b \in Nat /\ worth \in Nat /\ QuoteStep \in Nat \ {0}
    BY <1>2, <1>3, <1>7, Limits
  <2> HIDE DEF a, b, worth
  <2>2. Stepped(worth) \in Nat /\ Stepped(worth) <= worth
    BY <2>1, Quotient DEF Stepped
  <2> DEFINE c == Stepped(worth)
  <2>3. a \in Int /\ b \in Int /\ c \in Int /\ c \in Nat /\ c <= worth
    BY <2>1, <2>2
  <2> HIDE DEF c
  <2>4. Least({a, b, c}) \in {a, b, c} /\ Least({a, b, c}) <= c
    BY <2>3, LeastOfThree
  <2>5. Least({a, b, c}) \in Nat /\ Least({a, b, c}) <= worth
    BY <2>1, <2>3, <2>4
  <2> QED BY <2>5 DEF a, b, c, worth
<1> HIDE DEF quote
<1>9. base >= 1
  BY <1>1, <1>4, <1>7, Limits DEF Sufficient
<1>10. base * order.limit <= intent.base * intent.limit
  <2> DEFINE worth == intent.base * intent.limit
             price == order.limit
             cap == intent.quote
  <2>1. price \in Nat /\ worth \in Nat /\ cap \in Nat /\ cap <= worth /\ most * price <= cap
    BY <1>2, <1>3, <1>5
  <2> HIDE DEF worth, price, cap
  <2>2. base * price <= most * price /\ base * price \in Nat /\ most * price \in Nat
    BY <1>5, <1>6, <1>7, <2>1, Product
  <2>3. base * price <= worth
    BY <2>1, <2>2
  <2> QED BY <2>3 DEF worth, price
<1> QED BY <1>2, <1>3, <1>4, <1>6, <1>7, <1>8, <1>9, <1>10

\* The order is sent with the quotes it was last assessed on, by the portfolio as it is.
LEMMA GuardKeeps ==
  ASSUME IInv, Guard
  PROVE  IInv'
<1>1. /\ stage' = "sent" /\ stage = "guard" /\ book' \in [Assets -> Bids]
      /\ Acceptable(book', book'[asset])
      /\ UNCHANGED <<orderType, asset, snapshot, cash, positions, decision, fill>>
  BY DEF Guard
<1>2. TypeOK'
  BY <1>1, GuardedOrder DEF IInv, TypeOK
<1>3. Consistent(book, book[asset])'
  BY <1>1 DEF Acceptable, Consistent, Equity, Exposure, Mid, Ask
<1>4. Approved(book, book[asset])' = Approved(book', book'[asset])
  BY <1>1 DEF Approved, Room, Surplus, Capacity, Limit, Distance, Equity, Exposure, Mid, Ask, Unit,
              Least, AtLeastZero, RoundedUp
<1>5. Limit(decision.buy, book[asset])' = Limit(decision.buy, book'[asset])
  BY <1>1 DEF Limit, Distance, Ask, RoundedUp
<1>6. Allowed'
  BY <1>3, <1>4, <1>5, GuardedOrder DEF Allowed
<1>7. Priced'
  BY GuardedOrder DEF Priced
<1> QED BY <1>1, <1>2, <1>6, <1>7 DEF IInv, ExposureBounded, TargetNotCrossed

\* A bound on a share of the portfolio is a bound on any larger share of it.
LEMMA LargerShare ==
  ASSUME NEW some \in Nat, NEW more \in Nat, NEW total \in Nat, NEW marked \in Int,
         some <= more, marked <= some * total
  PROVE  marked <= more * total
<1>1. some * total <= more * total /\ some * total \in Nat /\ more * total \in Nat
  BY Product
<1> QED BY <1>1

\* What is known of an order on the wire and of its quotes.
LEMMA OnTheWire ==
  ASSUME IInv, stage = "sent"
  PROVE  LET bid == book[asset]
         IN  /\ TypeOK /\ asset \in Assets /\ bid \in Bids /\ book \in [Assets -> Bids]
             /\ positions \in [Assets -> Nat] /\ positions[asset] \in Nat /\ cash \in Nat
             /\ decision.buy \in BOOLEAN /\ decision.target \in 0..Den
             /\ intent.base \in Nat /\ intent.base <= Approved(book, bid)
             /\ Approved(book, bid) \in Nat /\ Approved(book, bid) > 0
             /\ intent.limit = Limit(decision.buy, bid) /\ intent.limit \in Nat \ {0}
             /\ intent.quote \in Nat /\ intent.quote <= intent.base * intent.limit
             /\ orderType \in {"limit_ioc", "market_ioc"}
             /\ bid \in Nat /\ Ask(bid) \in Nat /\ Mid(bid) \in Nat \ {0}
             /\ Unit * bid <= Mid(bid) /\ Mid(bid) <= Unit * Ask(bid)
             /\ Exposure(book) \in Nat /\ Equity(book) = cash + Exposure(book) /\ Equity(book) \in Nat
             /\ Den \in Nat \ {0} /\ Unit \in Nat /\ Fee \in Nat
             /\ MaxAsset \in 0..Den /\ MaxPortfolio \in 0..Den
<1>1. /\ TypeOK /\ asset \in Assets /\ book[asset] \in Bids /\ book \in [Assets -> Bids]
      /\ positions \in [Assets -> Nat] /\ positions[asset] \in Nat /\ cash \in Nat
      /\ decision.buy \in BOOLEAN /\ decision.target \in 0..Den
      /\ intent.base \in Nat /\ intent.base \in 1..Approved(book, book[asset])
      /\ intent.limit = Limit(decision.buy, book[asset])
      /\ intent.quote \in Nat /\ intent.quote <= intent.base * intent.limit
      /\ orderType \in {"limit_ioc", "market_ioc"}
  BY Limits, RiskAssumption DEF IInv, TypeOK, Priced, Allowed
<1>2. Limit(decision.buy, book[asset]) \in Nat \ {0}
  BY <1>1, LimitPrice
<1>3. Exposure(book) \in Nat /\ Equity(book) = cash + Exposure(book) /\ Equity(book) \in Nat
  BY <1>1, ExposureNat DEF Equity
<1>4. Approved(book, book[asset]) \in Nat
  BY <1>1, ApprovedBound
<1> QED BY <1>1, <1>2, <1>3, <1>4, Quotes, Limits DEF Unit

\* The asset and the portfolio once the order is filled: the change of equity is the change of the
\* exposure less what was paid.
LEMMA Filled ==
  ASSUME IInv, stage = "sent", NEW n \in Nat, NEW money \in Nat,
         positions' = [positions EXCEPT ![asset] = n], cash' = money,
         UNCHANGED <<asset, book, decision>>
  PROVE  LET mid == Mid(book[asset])
         IN  /\ cash' \in Nat /\ positions' \in [Assets -> Nat] /\ positions'[asset] = n
             /\ Exposure(book)' \in Nat /\ Equity(book)' \in Nat
             /\ Exposure(book)' = Exposure(book) + (n - positions[asset]) * mid
             /\ Equity(book)' = money + Exposure(book)'
             /\ Mid(book[asset])' = mid
<1>1. /\ asset \in Assets /\ book \in [Assets -> Bids] /\ positions \in [Assets -> Nat]
      /\ book' = book
  BY OnTheWire
<1>2. cash' \in Nat /\ positions' \in [Assets -> Nat] /\ positions'[asset] = n
  BY <1>1
<1>3. /\ Exposure(book)' = Exposure(book) + (n - positions[asset]) * Mid(book[asset])
      /\ Exposure(book)' \in Nat
  BY <1>1, ExposureFilled
<1>4. Equity(book)' = money + Exposure(book)' /\ Mid(book[asset])' = Mid(book[asset])
  BY DEF Equity, Mid, Ask
<1> QED BY <1>1, <1>2, <1>3, <1>4

\* What a buy is counted for: what it is worth but for its windfall.  A limit order pays for it, as
\* its limit is above the mid price; a market order is not counted for more than it pays.
LEMMA BuyCounted ==
  ASSUME IInv, stage = "sent", decision.buy,
         NEW base \in Nat, NEW value \in Nat, Admitted(base, value),
         fill' = [base |-> base, value |-> value], UNCHANGED <<orderType, asset, book, decision>>
  PROVE  LET spent == intent.base * intent.limit
             worth == base * Mid(book[asset]) - Windfall'
         IN  /\ spent \in Nat /\ value <= spent
             /\ Windfall' \in Nat /\ worth \in Nat /\ worth <= Unit * spent
<1> DEFINE limit == intent.limit
           spent == intent.base * limit
           mid == Mid(book[asset])
           marked == base * mid
           paid == value * Unit
<1>1. /\ limit \in Nat /\ intent.base \in Nat /\ spent \in Nat /\ mid \in Nat /\ Unit \in Nat
      /\ intent.quote \in Nat /\ intent.quote <= spent /\ marked \in Nat /\ paid \in Nat
      /\ orderType \in {"limit_ioc", "market_ioc"}
  <2>1. /\ intent.limit \in Nat /\ intent.base \in Nat /\ Mid(book[asset]) \in Nat /\ Unit \in Nat
        /\ intent.quote \in Nat /\ intent.quote <= intent.base * intent.limit
        /\ orderType \in {"limit_ioc", "market_ioc"}
    BY OnTheWire
  <2> QED BY <2>1
<1>2. Windfall' = IF orderType = "market_ioc" THEN AtLeastZero(marked - paid) ELSE 0
  <2>1. /\ fill'.base = base /\ fill'.value = value /\ decision' = decision /\ orderType' = orderType
        /\ Mid(book[asset])' = mid
    BY DEF Mid, Ask
  <2> QED BY <2>1 DEF Windfall, AtLeastZero, Unit
<1>3. CASE orderType = "limit_ioc"
  <2>1. base <= intent.base /\ value <= base * limit
    BY <1>3 DEF Admitted
  <2>2. base * limit <= spent /\ base * limit \in Nat
    BY <1>1, <2>1, Product
  <2>3. mid <= Unit * limit
    <3>1. /\ book[asset] \in Bids /\ limit = Limit(decision.buy, book[asset])
          /\ Ask(book[asset]) \in Nat /\ mid <= Unit * Ask(book[asset])
      BY OnTheWire
    <3>2. Ask(book[asset]) <= limit
      BY <3>1, LimitPrice
    <3> DEFINE ask == Ask(book[asset])
    <3>3. ask \in Nat /\ ask <= limit /\ mid <= Unit * ask
      BY <3>1, <3>2
    <3> HIDE DEF ask, limit, mid
    <3>4. ask * Unit <= limit * Unit
      BY <1>1, <3>3, Product
    <3> QED BY <1>1, <3>3, <3>4
  <2>4. marked <= Unit * spent
    <3> HIDE DEF mid, spent
    <3>1. mid * base <= (Unit * limit) * base
      <4>1. Unit * limit \in Nat
        BY <1>1
      <4> QED BY <1>1, <2>3, <4>1, Product
    <3>2. (Unit * limit) * base = (base * limit) * Unit /\ (base * limit) * Unit <= spent * Unit
      BY <1>1, <2>2, Product
    <3> QED BY <1>1, <3>1, <3>2
  <2>5. value <= spent
    BY <1>1, <2>1, <2>2
  <2>6. Windfall' = 0
    BY <1>2, <1>3
  <2> QED BY <1>1, <2>4, <2>5, <2>6
<1>4. CASE orderType = "market_ioc"
  <2>1. value <= spent
    <3>1. value <= intent.quote
      BY <1>4 DEF Admitted
    <3> QED BY <1>1, <3>1
  <2>2. paid <= Unit * spent
    <3> HIDE DEF spent
    <3>1. value * Unit <= spent * Unit
      BY <1>1, <2>1, Product
    <3> QED BY <1>1, <3>1
  <2>3. Windfall' \in Nat /\ marked - Windfall' \in Nat /\ marked - Windfall' <= paid
    <3> HIDE DEF marked, paid
    <3> QED BY <1>1, <1>2, <1>4 DEF AtLeastZero
  <2> QED BY <1>1, <2>1, <2>2, <2>3
<1> QED BY <1>1, <1>3, <1>4

\* A buy, filled at whatever prices its order admits.
LEMMA BuyFilled ==
  ASSUME IInv, stage = "sent", decision.buy,
         NEW base \in Nat, NEW value \in Nat, Admitted(base, value),
         positions' = [positions EXCEPT ![asset] = @ + base],
         cash' = cash - value * Unit - 2 * value * Fee,
         fill' = [base |-> base, value |-> value], UNCHANGED <<orderType, asset, book, decision>>
  PROVE  LET now == positions'[asset] * Mid(book[asset]) - Windfall'
             total == Equity(book)' - Windfall'
         IN  /\ cash' \in Nat /\ positions' \in [Assets -> Nat]
             /\ Den * now <= MaxAsset * total /\ Den * now <= decision.target * total
             /\ Den * (Exposure(book)' - Windfall') <= MaxPortfolio * total
<1> DEFINE mid == Mid(book[asset])
           held == positions[asset]
           total == Equity(book)
           exposed == Exposure(book)
           limit == intent.limit
           spent == intent.base * limit
           gain == Windfall'
           worth == base * mid - gain
           target == Least({decision.target, MaxAsset})
           n == held + base
           money == cash - value * Unit - 2 * value * Fee
           marked == held * mid
<1>1. /\ held \in Nat /\ mid \in Nat \ {0} /\ exposed \in Nat /\ total = cash + exposed /\ total \in Nat
      /\ limit \in Nat /\ intent.base \in Nat
      /\ intent.base <= Approved(book, book[asset]) /\ MaxPortfolio \in 0..Den
      /\ Den \in Nat \ {0} /\ Unit \in Nat /\ cash \in Nat /\ Fee \in Nat
  BY OnTheWire
<1>2. spent \in Nat /\ value <= spent /\ gain \in Nat /\ worth \in Nat /\ worth <= Unit * spent
  BY BuyCounted
<1>3. /\ target \in 0..Den /\ target <= MaxAsset /\ target <= decision.target
      /\ MaxAsset \in Nat /\ decision.target \in Nat
  <2> DEFINE asked == decision.target
  <2>1. asked \in 0..Den /\ MaxAsset \in 0..Den /\ asked \in Int /\ MaxAsset \in Int
    BY OnTheWire
  <2> HIDE DEF asked
  <2>2. /\ Least({asked, MaxAsset}) \in {asked, MaxAsset}
        /\ Least({asked, MaxAsset}) <= asked /\ Least({asked, MaxAsset}) <= MaxAsset
    BY <2>1, LeastOfTwo
  <2>3. Least({asked, MaxAsset}) \in 0..Den /\ asked \in Nat /\ MaxAsset \in Nat
    BY <2>1, <2>2
  <2> QED BY <2>2, <2>3 DEF asked
<1>4. /\ intent.base <= Room(target, total, marked, limit)
      /\ intent.base <= Room(MaxPortfolio, total, exposed, limit)
      /\ intent.base <= Capacity(limit)
  <2>1. /\ TypeOK /\ asset \in Assets /\ book \in [Assets -> Bids] /\ book[asset] \in Bids
        /\ Approved(book, book[asset]) > 0 /\ limit = Limit(decision.buy, book[asset])
        /\ Approved(book, book[asset]) \in Nat
    BY OnTheWire
  <2>2. /\ Approved(book, book[asset]) <= Room(target, total, marked, limit)
        /\ Approved(book, book[asset]) <= Room(MaxPortfolio, total, exposed, limit)
        /\ Approved(book, book[asset]) <= Capacity(limit)
    BY <2>1, ApprovedBound
  <2>3. marked \in Int /\ total \in Int /\ exposed \in Int /\ limit \in Nat \ {0} /\ cash \in Nat
    BY <1>1, OnTheWire
  <2> HIDE DEF target, total, marked, limit, exposed
  <2>4. Room(target, total, marked, limit) \in Int
    BY <1>3, <2>3, RoomBound, ZenonT(30)
  <2>5. Room(MaxPortfolio, total, exposed, limit) \in Int
    BY <1>1, <2>3, RoomBound, ZenonT(30)
  <2>6. Capacity(limit) \in Nat
    BY <2>3, CapacityBound
  <2> DEFINE most == Approved(book, book[asset])
             a == Room(target, total, marked, limit)
             p == Room(MaxPortfolio, total, exposed, limit)
             c == Capacity(limit)
  <2>7. /\ most \in Nat /\ intent.base \in Nat /\ intent.base <= most
        /\ a \in Int /\ p \in Int /\ c \in Nat /\ most <= a /\ most <= p /\ most <= c
    BY <1>1, <2>1, <2>2, <2>4, <2>5, <2>6
  <2> HIDE DEF most, a, p, c
  <2>8. intent.base <= a /\ intent.base <= p /\ intent.base <= c
    BY <2>7
  <2> QED BY <2>8 DEF a, p, c
<1>5. /\ 2 * intent.base * limit * (Den * Den + target * Fee) <= target * total - Den * marked
      /\ 2 * intent.base * limit * (Den * Den + MaxPortfolio * Fee) <= MaxPortfolio * total - Den * exposed
      /\ 2 * intent.base * limit * (Den + Fee) <= cash
  <2>1. marked \in Int /\ total \in Int /\ exposed \in Int /\ limit \in Nat \ {0} /\ cash \in Nat
    BY <1>1, OnTheWire
  <2> HIDE DEF target, total, marked, limit, exposed
  <2>2. intent.base \in Int
    BY <1>1
  <2>3. 2 * intent.base * limit * (Den * Den + target * Fee) <= target * total - Den * marked
    BY <1>3, <1>4, <2>1, <2>2, RoomBound, ZenonT(30)
  <2>4. 2 * intent.base * limit * (Den * Den + MaxPortfolio * Fee) <= MaxPortfolio * total - Den * exposed
    BY <1>1, <1>4, <2>1, <2>2, RoomBound, ZenonT(30)
  <2>5. 2 * intent.base * limit * (Den + Fee) <= cash
    BY <1>4, <2>1, <2>2, CapacityBound
  <2> QED BY <2>3, <2>4, <2>5
<1>6. money \in Nat
  <2>1. 2 * spent * (Den + Fee) <= cash
    BY <1>1, <1>5
  <2> HIDE DEF spent
  <2> QED BY <1>1, <1>2, <2>1, Paid
<1>7. n \in Nat /\ n - held = base /\ marked \in Nat
  BY <1>1
<1>8. /\ cash' \in Nat /\ positions' \in [Assets -> Nat] /\ positions'[asset] = n
      /\ Exposure(book)' \in Nat /\ Equity(book)' \in Nat
      /\ Exposure(book)' = exposed + (n - held) * mid
      /\ Equity(book)' = money + Exposure(book)'
  <2>1. cash' = money /\ positions' = [positions EXCEPT ![asset] = n]
    OBVIOUS
  <2> HIDE DEF money, n
  <2> QED BY <1>6, <1>7, <2>1, Filled
<1>9. Exposure(book)' - gain = exposed + worth /\ Equity(book)' - gain \in Nat
  <2>1. Exposure(book)' = exposed + base * mid
    BY <1>7, <1>8
  <2> HIDE DEF gain, money, mid, n, exposed
  <2>2. base * mid \in Nat
    BY <1>1
  <2> QED BY <1>1, <1>2, <1>6, <1>8, <2>1, <2>2
<1>10. Equity(book)' - gain = total + worth - value * Unit - 2 * value * Fee
  <2> HIDE DEF gain, mid, n
  <2> QED BY <1>1, <1>2, <1>8, <1>9
<1>11. positions'[asset] * mid - gain = marked + worth
  <2> HIDE DEF gain, mid
  <2> QED BY <1>1, <1>2, <1>8
<1>12. /\ 2 * spent * (Den * Den + target * Fee) <= target * total - Den * marked
       /\ 2 * spent * (Den * Den + MaxPortfolio * Fee) <= MaxPortfolio * total - Den * exposed
  <2> HIDE DEF limit, target, total, marked, exposed
  <2>1. \A weight \in Nat : 2 * spent * weight = 2 * intent.base * limit * weight
    BY <1>1
  <2>2. Den * Den + target * Fee \in Nat /\ Den * Den + MaxPortfolio * Fee \in Nat
    BY <1>1, <1>3
  <2> QED BY <1>5, <2>1, <2>2
<1> HIDE DEF total, exposed, marked, target, limit, mid, money, spent, gain, worth
<1>13. Den * (marked + worth) <= target * (Equity(book)' - gain)
  <2> total \in Int
    BY <1>1
  <2>1. Den * (marked + worth) <= target * (total + worth - value * Unit - 2 * value * Fee)
    BY <1>1, <1>2, <1>3, <1>7, <1>12, Bought, ZenonT(30)
  <2> QED BY <1>10, <2>1
<1>14. Den * (exposed + worth) <= MaxPortfolio * (Equity(book)' - gain)
  <2> total \in Int
    BY <1>1
  <2>1. Den * (exposed + worth) <= MaxPortfolio * (total + worth - value * Unit - 2 * value * Fee)
    BY <1>1, <1>2, <1>12, Bought, ZenonT(30)
  <2> QED BY <1>10, <2>1
<1>15. /\ Den * (marked + worth) <= MaxAsset * (Equity(book)' - gain)
       /\ Den * (marked + worth) <= decision.target * (Equity(book)' - gain)
  <2> DEFINE rest == Equity(book)' - gain
  <2>1. rest \in Nat /\ Den * (marked + worth) \in Int /\ Den * (marked + worth) <= target * rest
    BY <1>1, <1>2, <1>7, <1>9, <1>13
  <2> HIDE DEF rest
  <2>2. target \in Nat
    BY <1>3
  <2> QED BY <1>3, <2>1, <2>2, LargerShare DEF rest
<1> QED BY <1>8, <1>9, <1>11, <1>14, <1>15 DEF mid, gain

\* A sale, filled at whatever prices its order admits: but for its windfall the equity falls, so its
\* share does too.
LEMMA SaleFilled ==
  ASSUME IInv, stage = "sent", ~decision.buy,
         NEW base \in Nat, NEW value \in Nat, Admitted(base, value),
         positions' = [positions EXCEPT ![asset] = @ - base],
         cash' = cash + value * Unit - 2 * value * Fee,
         fill' = [base |-> base, value |-> value], UNCHANGED <<orderType, asset, book, decision>>
  PROVE  /\ cash' \in Nat /\ positions' \in [Assets -> Nat]
         /\ Den * (positions'[asset] * Mid(book[asset]))
              >= decision.target * (Equity(book)' - Windfall')
<1> DEFINE bid == book[asset]
           mid == Mid(bid)
           held == positions[asset]
           total == Equity(book)
           target == decision.target
           n == held - base
           gain == Windfall'
           yield == value * Unit - 2 * value * Fee
<1>1. /\ held \in Nat /\ mid \in Nat \ {0} /\ total \in Nat /\ target \in 0..Den
      /\ intent.base \in Nat /\ intent.base <= Approved(book, bid)
      /\ cash \in Nat /\ Unit \in Nat /\ Den \in Nat \ {0}
      /\ total = cash + Exposure(book) /\ Exposure(book) \in Nat /\ Fee \in Nat
  BY OnTheWire
<1>2. base <= Approved(book, bid)
  <2>1. base <= intent.base
    BY DEF Admitted
  <2>2. Approved(book, bid) \in Nat
    BY OnTheWire
  <2> QED BY <1>1, <2>1, <2>2
<1>3. base <= Surplus(target, total, held, mid) /\ base <= held
  <2>1. /\ TypeOK /\ asset \in Assets /\ book \in [Assets -> Bids] /\ bid \in Bids
        /\ Approved(book, bid) > 0 /\ Approved(book, bid) \in Nat
    BY OnTheWire
  <2>2. Approved(book, bid) <= Surplus(target, total, held, mid) /\ Approved(book, bid) <= held
    BY <2>1, ApprovedBound
  <2>3. Surplus(target, total, held, mid) \in Int
    <3> HIDE DEF target, total, held, mid
    <3>1. total \in Int
      BY <1>1
    <3> QED BY <1>1, <3>1, SurplusBound, ZenonT(30)
  <2> QED BY <1>1, <1>2, <2>1, <2>2, <2>3
<1>4. target * total <= Den * (held - base) * mid
  <2> HIDE DEF target, total, held, mid
  <2> QED BY <1>1, <1>3, SurplusBound
<1>5. yield \in Nat /\ yield <= value * Unit /\ value * Unit \in Nat
  <2>1. 2 * value * Fee \in Nat /\ value * Unit \in Nat
    BY <1>1
  <2> QED BY <2>1, Sold
<1>6. n \in Nat /\ cash + yield \in Nat /\ n - held = -base
  BY <1>1, <1>3, <1>5
<1>7. /\ cash' \in Nat /\ positions' \in [Assets -> Nat] /\ positions'[asset] = n
      /\ Equity(book)' \in Nat
      /\ Exposure(book)' = Exposure(book) + (n - held) * mid
      /\ Equity(book)' = cash + yield + Exposure(book)'
  <2> DEFINE money == cash + yield
  <2>1. cash' = money /\ positions' = [positions EXCEPT ![asset] = n]
    BY <1>1, <1>5
  <2>2. money \in Nat
    BY <1>6
  <2> HIDE DEF money, n
  <2>3. /\ cash' \in Nat /\ positions' \in [Assets -> Nat] /\ positions'[asset] = n
        /\ Equity(book)' \in Nat
        /\ Exposure(book)' = Exposure(book) + (n - held) * mid
        /\ Equity(book)' = money + Exposure(book)'
    BY <1>6, <2>1, <2>2, Filled
  <2> QED BY <2>3 DEF money
<1>8. gain \in Nat /\ value * Unit - base * mid <= gain
  <2>1. gain = AtLeastZero(value * Unit - base * mid)
    <3>1. /\ fill'.base = base /\ fill'.value = value /\ decision' = decision
          /\ Mid(book[asset])' = mid
      BY DEF Mid, Ask
    <3> QED BY <3>1 DEF Windfall, AtLeastZero, Unit
  <2>2. value * Unit - base * mid \in Int
    BY <1>1
  <2> HIDE DEF gain, mid
  <2> QED BY <2>1, <2>2 DEF AtLeastZero
<1>9. Equity(book)' - gain <= total
  <2> HIDE DEF yield, n, held, mid, total, gain
  <2>1. (n - held) * mid = -(base * mid) /\ base * mid \in Nat
    BY <1>1, <1>6
  <2> QED BY <1>1, <1>5, <1>7, <1>8, <2>1
<1>10. target * (Equity(book)' - gain) <= target * total
  <2> HIDE DEF target, total, gain
  <2> DEFINE rest == Equity(book)' - gain
  <2>1. rest \in Int /\ rest <= total /\ total \in Int /\ target \in Nat
    BY <1>1, <1>7, <1>8, <1>9
  <2> HIDE DEF rest
  <2>2. rest * target <= total * target
    BY <2>1, Product
  <2> QED BY <2>1, <2>2 DEF rest
<1>11. Den * (positions'[asset] * mid) = Den * (held - base) * mid
  <2> HIDE DEF mid, held
  <2> QED BY <1>1, <1>6, <1>7
<1> HIDE DEF target, total, held, mid, gain
<1>12. /\ target * (Equity(book)' - gain) \in Int /\ target * total \in Int
       /\ Den * (held - base) * mid \in Int
  BY <1>1, <1>7, <1>8
<1>13. target * (Equity(book)' - gain) <= Den * (positions'[asset] * mid)
  BY <1>4, <1>10, <1>11, <1>12
<1>14. Den * (positions'[asset] * mid) \in Int
  BY <1>11, <1>12
<1> QED BY <1>7, <1>12, <1>13, <1>14 DEF target, mid, gain

\* Bought or sold, wholly or in part.
LEMMA FillKeeps ==
  ASSUME IInv, Fill
  PROVE  IInv'
<1>1. /\ stage = "sent" /\ stage' = "filled"
      /\ UNCHANGED <<orderType, asset, snapshot, book, decision, intent>>
  BY DEF Fill
<1>2. /\ asset \in Assets /\ positions \in [Assets -> Nat] /\ positions[asset] \in Nat /\ cash \in Nat
      /\ decision.buy \in BOOLEAN /\ Unit \in Nat /\ Fee \in Nat
  BY <1>1, OnTheWire
<1>3. PICK base \in 0..MostBase : \E value \in (base * LowPrice)..(base * TopPrice) :
        /\ Admitted(base, value)
        /\ fill' = [base |-> base, value |-> value]
        /\ LET sign == IF decision.buy THEN 1 ELSE -1
           IN  /\ positions' = [positions EXCEPT ![asset] = @ + sign * base]
               /\ cash' = cash - sign * value * Unit - 2 * value * Fee
  BY DEF Fill
<1>4. PICK value \in (base * LowPrice)..(base * TopPrice) :
        /\ Admitted(base, value)
        /\ fill' = [base |-> base, value |-> value]
        /\ LET sign == IF decision.buy THEN 1 ELSE -1
           IN  /\ positions' = [positions EXCEPT ![asset] = @ + sign * base]
               /\ cash' = cash - sign * value * Unit - 2 * value * Fee
  BY <1>3
<1>5. base \in Nat /\ value \in Nat
  <2>1. base \in Nat
    OBVIOUS
  <2>2. base * LowPrice \in Nat /\ base * TopPrice \in Nat
    BY <2>1, RiskAssumption
  <2> QED BY <2>1, <2>2
<1>6. /\ cash' \in Nat /\ positions' \in [Assets -> Nat]
      /\ decision.buy =>
           LET now == positions'[asset] * Mid(book[asset]) - Windfall'
               total == Equity(book)' - Windfall'
           IN  /\ Den * now <= MaxAsset * total /\ Den * now <= decision.target * total
               /\ Den * (Exposure(book)' - Windfall') <= MaxPortfolio * total
      /\ ~decision.buy =>
           Den * (positions'[asset] * Mid(book[asset])) >= decision.target * (Equity(book)' - Windfall')
  <2>1. CASE decision.buy
    <3>1. /\ positions' = [positions EXCEPT ![asset] = @ + 1 * base]
          /\ cash' = cash - 1 * value * Unit - 2 * value * Fee
      BY <1>4, <2>1
    <3>2. 1 * base = base /\ 1 * value = value
      BY <1>5
    <3>3. /\ positions' = [positions EXCEPT ![asset] = @ + base]
          /\ cash' = cash - value * Unit - 2 * value * Fee
      BY <3>1, <3>2
    <3> QED BY <1>1, <1>4, <1>5, <2>1, <3>3, BuyFilled
  <2>2. CASE ~decision.buy
    <3>1. /\ positions' = [positions EXCEPT ![asset] = positions[asset] + (-1) * base]
          /\ cash' = cash - (-1) * value * Unit - 2 * value * Fee
      BY <1>4, <2>2
    <3>2. /\ positions[asset] + (-1) * base = positions[asset] - base
          /\ cash - (-1) * value * Unit = cash + value * Unit
      BY <1>2, <1>5
    <3>3. positions' = [positions EXCEPT ![asset] = positions[asset] - base]
      BY <3>1, <3>2, Zenon
    <3>4. cash' = cash + value * Unit - 2 * value * Fee
      BY <1>2, <1>5, <3>1, <3>2
    <3> QED BY <1>1, <1>4, <1>5, <2>2, <3>3, <3>4, SaleFilled
  <2> QED BY <1>2, <2>1, <2>2
<1>7. fill' \in [base : Nat, value : Nat]
  BY <1>4, <1>5
<1>8. TypeOK'
  BY <1>1, <1>6, <1>7 DEF IInv, TypeOK
<1>9. Mid(book[asset])' = Mid(book[asset])
  BY <1>1 DEF Mid, Ask
<1>10. ExposureBounded'
  BY <1>1, <1>6, <1>9 DEF ExposureBounded
<1>11. TargetNotCrossed'
  BY <1>1, <1>6, <1>9 DEF TargetNotCrossed
<1> QED BY <1>1, <1>8, <1>10, <1>11 DEF IInv, Priced, Allowed

\* A step that changes nothing.
LEMMA StutterKeeps ==
  ASSUME IInv, UNCHANGED vars
  PROVE  IInv'
<1>1. TypeOK' /\ Priced'
  BY DEF IInv, TypeOK, Priced, vars
<1>2. Allowed'
  <2>1. Consistent(book, book[asset])' <=> Consistent(book, book[asset])
    BY DEF Consistent, Equity, Exposure, Mid, Ask, vars
  <2>2. Approved(book, book[asset])' = Approved(book, book[asset])
    BY DEF Approved, Room, Surplus, Capacity, Limit, Distance, Equity, Exposure, Mid, Ask, Unit,
           Least, AtLeastZero, RoundedUp, vars
  <2>3. Limit(decision.buy, book[asset])' = Limit(decision.buy, book[asset])
    BY DEF Limit, Distance, Ask, RoundedUp, vars
  <2> QED BY <2>1, <2>2, <2>3 DEF IInv, Allowed, vars
<1>3. ExposureBounded' /\ TargetNotCrossed'
  <2>1. Windfall' = Windfall
    BY DEF Windfall, AtLeastZero, Mid, Ask, Unit, vars
  <2>2. /\ Equity(book)' = Equity(book) /\ Exposure(book)' = Exposure(book)
        /\ Mid(book[asset])' = Mid(book[asset])
    BY DEF Equity, Exposure, Mid, Ask, vars
  <2> QED BY <2>1, <2>2 DEF IInv, ExposureBounded, TargetNotCrossed, vars
<1> QED BY <1>1, <1>2, <1>3 DEF IInv

-----------------------------------------------------------------------------
\* Theorems.

\* In every behaviour the order of every stage is within what its last assessment allows.
THEOREM SizingInvariance == Spec => []IInv
<1>1. Init => IInv
  BY InitKeeps
<1>2. IInv /\ [Next]_vars => IInv'
  <2> SUFFICES ASSUME IInv, [Next]_vars PROVE IInv'
    OBVIOUS
  <2>1. CASE Assess
    BY <2>1, AssessKeeps
  <2>2. CASE Pass \/ Revalue
    BY <2>2, MovesOn
  <2>3. CASE Approve
    BY <2>3, ApproveKeeps
  <2>4. CASE Guard
    BY <2>4, GuardKeeps
  <2>5. CASE Fill
    BY <2>5, FillKeeps
  <2>6. CASE Abort
    BY <2>6, AbortKeeps
  <2>7. CASE UNCHANGED vars
    BY <2>7, StutterKeeps
  <2> QED BY <2>1, <2>2, <2>3, <2>4, <2>5, <2>6, <2>7 DEF Next
<1> QED BY <1>1, <1>2, PTL DEF Spec

\* However prices move between the orders of a batch, no fill overdraws the cash or sells what is
\* not held: both stay whole numbers, as the rest of the state keeps its type.
THEOREM TypeCorrect == Spec => []TypeOK
<1>1. IInv => TypeOK
  BY DEF IInv
<1> QED BY <1>1, SizingInvariance, PTL

\* A buy of either order type leaves its asset within max_asset_exposure and the portfolio within
\* max_portfolio_exposure at the quotes it was sized with, filled wholly or in part, at any prices its
\* order admits, with its fee, whatever else is held: but for what a market order bought below the
\* mid price, which no estimate bounds.
THEOREM ExposureBoundedHolds == Spec => []ExposureBounded
<1>1. IInv => ExposureBounded
  BY DEF IInv
<1> QED BY <1>1, SizingInvariance, PTL

\* No fill of either order type carries the exposure past the target of the decision, from either
\* side, but for the windfall of a market buy below the mid price or of a sale above it.
THEOREM TargetNotCrossedHolds == Spec => []TargetNotCrossed
<1>1. IInv => TargetNotCrossed
  BY DEF IInv
<1> QED BY <1>1, SizingInvariance, PTL

\* cap_refreshed_intent sends an order worth at most the approved one, whatever the price became.
THEOREM NeverEnlargedHolds == Spec => NeverEnlarged
<1>1. IInv /\ [Next]_vars =>
        [stage' = "sent" /\ stage = "guard" => intent'.base * intent'.limit <= intent.base * intent.limit]_vars
  <2> SUFFICES ASSUME IInv, [Next]_vars, stage' = "sent", stage = "guard"
               PROVE  intent'.base * intent'.limit <= intent.base * intent.limit
    BY DEF vars
  <2>1. Guard
    BY DEF Next, Assess, Pass, Approve, Fill, Abort, Revalue, NextAsset, vars
  <2> QED BY <2>1, GuardedOrder
<1> QED BY <1>1, SizingInvariance, PTL DEF Spec, NeverEnlarged
=============================================================================
