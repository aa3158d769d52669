----------------------------- MODULE RiskSizing -----------------------------
(***************************************************************************)
(* The size of an order, from the model's target to the fill: risk.assess  *)
(* on the portfolio as last valued and the quote of the snapshot, again in *)
(* the guard on fresh quotes, cap_refreshed_intent, the fill of part of    *)
(* the order, and the next asset of the batch.  For both order types: a    *)
(* limit order fills at its limit or better, a market order at any price.  *)
(*                                                                         *)
(* The code computes with decimals and rounds to the exchange's            *)
(* increments.  Here a unit of a quantity and of a price is one increment, *)
(* exposures, fees and offsets are Den-ths, and money is counted in        *)
(* 2 * Den-ths of a quote unit, in which fees and mid prices are integers. *)
(* Checks without arithmetic (stale data, confidence, cooldown, daily      *)
(* limits) may reject any order.                                           *)
(***************************************************************************)
EXTENDS Integers, FiniteSets, Functions

CONSTANTS Assets,       \* numbers, in the order of the batch
          Bids, Spread, \* a quote is a bid and bid + Spread
          Targets,      \* target_exposure of a decision, in Den-ths
          CashAmounts, Holdings, \* what a portfolio starts with
          Den,          \* denominator of fractions
          Fee,          \* taker_fee_rate
          OrderTypes,   \* the values of order_type looked at
          Offset, Slippage,       \* limit_offset_bps, slippage_bps
          MaxAsset, MaxPortfolio, \* max_asset_exposure, max_portfolio_exposure
          MaxMove,      \* max_price_move_fraction
          MaxOrder, MinOrder,     \* max_order_notional, min_order_notional
          LowPrice, TopPrice,     \* bounds: prices of single executions
          MaxBase, MinBase, QuoteStep \* base_max_size, base_min_size, quote_increment

ASSUME RiskAssumption ==
  /\ IsFiniteSet(Assets) /\ Assets # {} /\ Assets = 1..Cardinality(Assets)
  /\ Bids \subseteq Nat \ {0} /\ Spread \in Nat /\ Targets \subseteq 0..Den
  /\ CashAmounts \subseteq Nat /\ Holdings \subseteq Nat
  /\ Den \in Nat \ {0} /\ {Fee, MaxMove} \subseteq 0..Den /\ {Offset, Slippage} \subseteq 0..(Den - 1)
  /\ OrderTypes \subseteq {"limit_ioc", "market_ioc"}
  /\ LowPrice \in Nat \ {0} /\ TopPrice \in Nat
  /\ MaxPortfolio \in 0..Den /\ MaxAsset \in 0..MaxPortfolio
  /\ MaxOrder \in Nat /\ MinOrder \in 1..MaxOrder
  /\ MaxBase \in Nat /\ MinBase \in 1..MaxBase /\ QuoteStep \in Nat \ {0}

VARIABLES orderType, \* execution.order_type
          asset,    \* the asset of the batch the cycle is at
          stage,    \* what comes next for it
          snapshot, \* quotes the model decided on
          book,     \* quotes of the last refresh, which the portfolio was valued with
          cash, positions,
          decision, \* the model's for this asset
          intent,   \* the order: as first approved, then as sent
          fill      \* its executions together: the quantity, and size times price in all

vars == <<orderType, asset, stage, snapshot, book, cash, positions, decision, intent, fill>>

Unit == 2 * Den
NoDecision == [buy |-> FALSE, target |-> 0]
NoIntent == [base |-> 0, quote |-> 0, limit |-> 0, reference |-> 0]
NoFill == [base |-> 0, value |-> 0]

Init ==
  /\ orderType \in OrderTypes
  /\ asset = 1 /\ stage = "assess"
  /\ snapshot \in [Assets -> Bids] /\ book = snapshot
  /\ \E amount \in CashAmounts : cash = amount * Unit
  /\ positions \in [Assets -> Holdings]
  /\ decision = NoDecision /\ intent = NoIntent /\ fill = NoFill

-----------------------------------------------------------------------------
\* A portfolio at the quotes of a book, in money.

Ask(bid) == bid + Spread
Mid(bid) == Den * (bid + Ask(bid))
Exposure(b) == SumFunctionOnSet([a \in Assets |-> positions[a] * Mid(b[a])], Assets)
Equity(b) == cash + Exposure(b)

AtLeastZero(n) == IF n > 0 THEN n ELSE 0
Least(S) == CHOOSE n \in S : \A m \in S : n <= m
\* util.step, up.
RoundedUp(n, d) == (n + d - 1) \div d

\* How far from the quote the order may fill, or a market order is expected to.
Distance == IF orderType = "limit_ioc" THEN Offset ELSE Slippage
\* The price the order is sized with, rounded toward the market: the bound of a limit order, an
\* estimate for a market order.
Limit(buy, bid) ==
  IF buy THEN (Ask(bid) * (Den + Distance)) \div Den ELSE RoundedUp(bid * (Den - Distance), Den)

-----------------------------------------------------------------------------
\* risk.assess.

\* Mutant: the fee comes on top.
RoomWithoutFee(target, equity, exposure, price) ==
  (target * equity - Den * exposure) \div (Den * Unit * price)
\* How much may be bought at this price until the exposure is the target, fee paid.
Room(target, equity, exposure, price) ==
  (Den * (target * equity - Den * exposure)) \div (Unit * price * (Den * Den + target * Fee))

\* Mutant: a sale goes at least to its target.
SurplusRoundedUp(target, equity, held, mid) == RoundedUp(held * mid * Den - target * equity, mid * Den)

Capacity(price) == (Den * cash) \div (Unit * price * (Den + Fee))
\* How much may be sold until the exposure is the target.
Surplus(target, equity, held, mid) == (held * mid * Den - target * equity) \div (mid * Den)

\* The quantity for a decision at a quote, when the portfolio was last valued with book b.
Approved(b, bid) ==
  LET price == Limit(decision.buy, bid)
      target == IF decision.buy THEN Least({decision.target, MaxAsset}) ELSE decision.target
      held == positions[asset]
      wanted ==
        IF decision.buy
        THEN Least({Room(target, Equity(b), held * Mid(bid), price),
                    Room(MaxPortfolio, Equity(b), Exposure(b), price)})
        ELSE Surplus(target, Equity(b), held, Mid(bid))
      capacity == IF decision.buy THEN Capacity(price) ELSE held
  IN  Least({AtLeastZero(wanted), capacity, MaxOrder \div price, MaxBase})

\* util.step.
Stepped(amount) == (amount \div QuoteStep) * QuoteStep

\* The intent of an approved order.
Assessed(b, bid) ==
  LET price == Limit(decision.buy, bid)
      base == Approved(b, bid)
  IN  [base |-> base, quote |-> Stepped(base * price), limit |-> price, reference |-> bid]

Sufficient(order) == order.base >= MinBase /\ order.quote >= MinOrder

\* The target must lie on the side of the current exposure the action says.
Consistent(b, bid) ==
  LET current == Den * positions[asset] * Mid(bid)
  IN  /\ Equity(b) > 0
      /\ IF decision.buy THEN decision.target * Equity(b) > current
         ELSE decision.target * Equity(b) < current

Acceptable(b, bid) == Consistent(b, bid) /\ Sufficient(Assessed(b, bid))

-----------------------------------------------------------------------------
\* The cycle.

NextAsset ==
  /\ asset' = asset + 1
  /\ stage' = IF asset + 1 \in Assets THEN "assess" ELSE "done"
  /\ decision' = NoDecision /\ intent' = NoIntent /\ fill' = NoFill

Assess ==
  /\ stage = "assess"
  /\ \E buy \in BOOLEAN, target \in Targets : decision' = [buy |-> buy, target |-> target]
  /\ stage' = "assessed"
  /\ UNCHANGED <<orderType, asset, snapshot, book, cash, positions, intent, fill>>

\* HOLD, or a rejection.
Pass ==
  /\ stage = "assessed"
  /\ NextAsset
  /\ UNCHANGED <<orderType, snapshot, book, cash, positions>>

Approve ==
  /\ stage = "assessed"
  /\ Acceptable(book, snapshot[asset])
  /\ intent' = Assessed(book, snapshot[asset])
  /\ stage' = "guard"
  /\ UNCHANGED <<orderType, asset, snapshot, book, cash, positions, decision, fill>>

\* PRICE_MOVED.
Moved(bid, reference) ==
  LET far == Mid(bid) - Mid(reference)
  IN  Den * (IF far < 0 THEN -far ELSE far) > MaxMove * Mid(reference)

\* Mutant: the quantity is capped, its value is not.
CappedByBase(original, refreshed) ==
  [refreshed EXCEPT !.base = Least({original.base, refreshed.base}), !.reference = original.reference]
\* cap_refreshed_intent.
Capped(original, refreshed) ==
  LET base == Least({original.base, refreshed.base, original.quote \div refreshed.limit})
  IN  [base |-> base, limit |-> refreshed.limit, reference |-> original.reference,
       quote |-> Least({original.quote, refreshed.quote, Stepped(base * refreshed.limit)})]

\* The guard: everything is read and assessed anew before the order is sent.
Guard ==
  /\ stage = "guard"
  /\ book' \in [Assets -> Bids]
  /\ ~Moved(book'[asset], intent.reference)
  /\ Acceptable(book', book'[asset])
  /\ intent' = Capped(intent, Assessed(book', book'[asset]))
  /\ Sufficient(intent')
  /\ stage' = "sent"
  /\ UNCHANGED <<orderType, asset, snapshot, cash, positions, decision, fill>>

\* A rejection this late, an unresolved order or any failure ends the cycle.
Abort ==
  /\ stage \in {"guard", "sent", "filled"}
  /\ stage' = "done"
  /\ UNCHANGED <<orderType, asset, snapshot, book, cash, positions, decision, intent, fill>>

\* What the order admits: a market buy spends up to a quote amount, any other order trades up to a
\* quantity; only a limit order bounds the price, and it may always be better.
Admitted(base, value) ==
  /\ IF decision.buy /\ orderType = "market_ioc" THEN value <= intent.quote ELSE base <= intent.base
  /\ orderType = "limit_ioc" =>
       IF decision.buy THEN value <= base * intent.limit ELSE value >= base * intent.limit

MostBase == IF decision.buy /\ orderType = "market_ioc" THEN intent.quote \div LowPrice ELSE intent.base

\* The exchange fills some of it, in executions of any prices the order admits, and charges the fee.
Fill ==
  /\ stage = "sent"
  /\ \E base \in 0..MostBase : \E value \in (base * LowPrice)..(base * TopPrice) :
       /\ Admitted(base, value)
       /\ fill' = [base |-> base, value |-> value]
       /\ LET sign == IF decision.buy THEN 1 ELSE -1
          IN  /\ positions' = [positions EXCEPT ![asset] = @ + sign * base]
              /\ cash' = cash - sign * value * Unit - 2 * value * Fee
  /\ stage' = "filled"
  /\ UNCHANGED <<orderType, asset, snapshot, book, decision, intent>>

\* The whole portfolio is valued again before the next asset.
Revalue ==
  /\ stage = "filled"
  /\ book' \in [Assets -> Bids]
  /\ NextAsset
  /\ UNCHANGED <<orderType, snapshot, cash, positions>>

Next == Assess \/ Pass \/ Approve \/ Guard \/ Fill \/ Abort \/ Revalue

Spec == Init /\ [][Next]_vars

-----------------------------------------------------------------------------
\* Properties.

\* However far the price moved, the refreshed order is not worth more than the approved one.
NeverEnlarged ==
  [][stage' = "sent" /\ stage = "guard" =>
       intent'.base * intent'.limit <= intent.base * intent.limit]_vars

\* What an order gains over the mid price it was assessed at, where no estimate made before can bound
\* it: a market buy that fills below the mid buys more than was approved, and any sale above the mid
\* adds to the equity that shares are taken of.
Windfall ==
  LET worth == fill.base * Mid(book[asset])
      paid == fill.value * Unit
  IN  IF ~decision.buy THEN AtLeastZero(paid - worth)
      ELSE IF orderType = "market_ioc" THEN AtLeastZero(worth - paid) ELSE 0

\* What a fill leaves of a buy is within the limits of its asset and of the portfolio, valued at the
\* quotes of the guard: worst price, spread and fee are allowed for, and every other asset of the
\* portfolio.  Of a market order this holds but for its windfall, as the README says.
ExposureBounded ==
  stage = "filled" /\ decision.buy =>
    /\ Den * (positions[asset] * Mid(book[asset]) - Windfall) <= MaxAsset * (Equity(book) - Windfall)
    /\ Den * (Exposure(book) - Windfall) <= MaxPortfolio * (Equity(book) - Windfall)

\* Rounding, partial fills and refreshed prices never carry an order past the exposure the model
\* asked for, but for the windfall of a market buy or of a sale.
TargetNotCrossed ==
  stage = "filled" =>
    LET now == positions[asset] * Mid(book[asset])
    IN  IF decision.buy THEN Den * (now - Windfall) <= decision.target * (Equity(book) - Windfall)
        ELSE Den * now >= decision.target * (Equity(book) - Windfall)

(***************************************************************************)
(* The inductive invariant: what is known of the order at each stage.  The *)
(* bounds of a fill follow from the last assessment, whose portfolio and   *)
(* quotes are those the order is filled with.                              *)
(***************************************************************************)
TypeOK ==
  /\ orderType \in OrderTypes
  /\ asset \in Nat \ {0}
  /\ stage \in {"assess", "assessed", "guard", "sent", "filled", "done"}
  /\ stage # "done" => asset \in Assets
  /\ snapshot \in [Assets -> Bids] /\ book \in [Assets -> Bids]
  /\ cash \in Nat /\ positions \in [Assets -> Nat]
  /\ decision \in [buy : BOOLEAN, target : Targets \union {0}]
  /\ intent \in [base : Nat, quote : Nat, limit : Nat, reference : Nat]
  /\ fill \in [base : Nat, value : Nat]

\* An approved order, and the order sent, is worth at least its quote amount.
Priced == stage \in {"guard", "sent"} => intent.quote <= intent.base * intent.limit

\* An order on the wire is within what the refreshed quotes allow.
Allowed ==
  stage = "sent" =>
    /\ Consistent(book, book[asset])
    /\ intent.base \in 1..Approved(book, book[asset])
    /\ intent.limit = Limit(decision.buy, book[asset])

IInv == TypeOK /\ Priced /\ Allowed /\ ExposureBounded /\ TargetNotCrossed
=============================================================================
